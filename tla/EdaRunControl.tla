---------------------------- MODULE EdaRunControl ----------------------------
(***************************************************************************)
(* The life cycle of one Device_t (src/eda/device.c): the configuration   *)
(* calls device_boot_rfm, device_configure_dif and device_configure, then *)
(* device_initialize (mmap, FPGA reset and PLL lock, Hardroc slow         *)
(* control, DIF sockets), device_start (run file, then the dcc wait for   *)
(* the reset-BCID command or the soft start), the readout loop (module    *)
(* EdaReadout; here only its return), device_stop and device_free.        *)
(*                                                                         *)
(* The caller follows the protocol of the spec: configuration calls, then *)
(* initialize, then start, and stops after the loop returned; it gives up *)
(* (and frees the device) as soon as a call reports an error.  Two actors *)
(* run beside it: device_stop_loop / SIGINT (g_state) and the DCC, which  *)
(* may put the reset-BCID command in the command register at any time.    *)
(***************************************************************************)
EXTENDS Naturals, FiniteSets

CONSTANTS
    NbRfm,     \* NB_RFM
    Difs,      \* DIF ids the configuration may boot (nonzero)
    Shapers,   \* shaper resistance values the configuration may hold
    Addrs,     \* DIF addresses device_configure_dif may be given
    NoAddr,    \* task[s].addr == NULL
    MaxPoll    \* the PLL-lock retry budget (100 in the code)

ASSUME RunControlAssumption ==
    /\ NbRfm \in Nat \ {0}
    /\ Difs \subseteq Nat \ {0}
    /\ Shapers \subseteq Nat
    /\ NoAddr \notin Addrs
    /\ MaxPoll \in Nat \ {0}

Slots    == 0 .. NbRfm - 1
(* trig argument of device_boot_rfm, a uint32_t stored unchecked: 2      *)
(* stands for every value other than 0 (dcc) and 1 (soft).               *)
TrigModes == {0, 1, 2}
CfgModes == {"csv", "db"}
SckStates == {"none", "error", "open", "connected"}
Phases ==
    {"created", "init_fpga", "pll_poll", "init_hrsc", "init_scks",
     "initialized", "wait_bcid", "looping", "loop_done", "stopped",
     "failed", "crashed", "freed"}
Errors ==
    {"none", "config_conflict", "unknown_dif", "config_io", "mmap", "pll",
     "hrsc", "socket", "store", "cancelled", "null_addr", "null_stream", "unknown_trig"}

Task == [dif : {0} \cup Difs, rshaper : {0} \cup Shapers,
         addr : Addrs \cup {NoAddr}, sck : SckStates]

VARIABLES
    phase,      \* where the caller is in the device's life cycle
    err,        \* the error that ended it, if any
    rshaper,    \* ctx->rshaper
    trig_mode,  \* ctx->trig_mode
    rfm_on,     \* ctx->rfm_on, as a set of slots
    cfg_mode,   \* ctx->cfg_mode
    task,       \* ctx->task[s]: dif, rshaper, addr, sck
    mem_fd,     \* ctx->mem_fd != 0 (/dev/mem open and mapped)
    cnt_poll,   \* cnt_poll of device_init_fpga
    pll_seen,   \* history: the last SYNC_pll_lck() read returned 1
    sck_idx,    \* i of the for-loop of device_init_scks
    daq_file,   \* ctx->daq_file: "null" or "open"
    g_state,    \* the cancellation flag
    bcid_reg    \* the DCC command register holds CMD_RESET_BCID

vars == <<phase, err, rshaper, trig_mode, rfm_on, cfg_mode, task, mem_fd,
          cnt_poll, pll_seen, sck_idx, daq_file, g_state, bcid_reg>>

(* ctx->task[s].dif == 0: the slot was never booted.                      *)
Booted(s) == task[s].dif # 0

(* The caller gives up after an error return.                             *)
Fail(e) == phase' = "failed" /\ err' = e

-----------------------------------------------------------------------------
(* new_device(): calloc, cfg_mode "csv", g_state = 1.                     *)
Init ==
    /\ phase = "created"
    /\ err = "none"
    /\ rshaper = 0
    /\ trig_mode = 0
    /\ rfm_on = {}
    /\ cfg_mode = "csv"
    /\ task = [s \in Slots |-> [dif |-> 0, rshaper |-> 0, addr |-> NoAddr,
                                sck |-> "none"]]
    /\ mem_fd = FALSE
    /\ cnt_poll = 0
    /\ pll_seen = FALSE
    /\ sck_idx = 0
    /\ daq_file = "null"
    /\ g_state = 1
    /\ bcid_reg = FALSE

(* device_boot_rfm(ctx, dif, slot, rs, trig): the slot is enabled and the *)
(* task updated before the shaper check; -1 if ctx->rshaper is set and    *)
(* differs.                                                               *)
BootRfm(dif, slot, rs, trig) ==
    /\ phase = "created"
    /\ rfm_on' = rfm_on \cup {slot}
    /\ task' = [task EXCEPT ![slot].dif = dif, ![slot].rshaper = rs]
    /\ IF rshaper # 0 /\ rshaper # rs
       THEN /\ Fail("config_conflict")
            /\ UNCHANGED <<rshaper, trig_mode>>
       ELSE /\ rshaper' = rs
            /\ trig_mode' = trig
            /\ UNCHANGED <<phase, err>>
    /\ UNCHANGED <<cfg_mode, mem_fd, cnt_poll, pll_seen, sck_idx, daq_file,
                   g_state, bcid_reg>>

(* device_configure_dif(ctx, dif, addr, port): cfg_mode "db"; the first   *)
(* slot whose task has this dif gets the address; 1 if there is none.     *)
ConfigureDif(dif, addr) ==
    /\ phase = "created"
    /\ cfg_mode' = "db"
    /\ \/ \E s \in Slots :
             /\ task[s].dif = dif
             /\ \A t \in 0 .. s - 1 : task[t].dif # dif
             /\ task' = [task EXCEPT ![s].addr = addr]
             /\ UNCHANGED <<phase, err>>
       \/ /\ \A s \in Slots : task[s].dif # dif
          /\ Fail("unknown_dif")
          /\ UNCHANGED task
    /\ UNCHANGED <<rshaper, trig_mode, rfm_on, mem_fd, cnt_poll, pll_seen,
                   sck_idx, daq_file, g_state, bcid_reg>>

(* device_configure(ctx, thresh, rs, rfm, ip, run): stores the settings,  *)
(* overwriting rshaper and rfm_on, then copies and loads the base tables  *)
(* (scp, fopen, the csv readers), any of which may fail.                  *)
Configure(rs, rfm) ==
    /\ phase = "created"
    /\ rshaper' = rs
    /\ rfm_on' = rfm
    /\ \/ UNCHANGED <<phase, err>>
       \/ Fail("config_io")
    /\ UNCHANGED <<trig_mode, cfg_mode, task, mem_fd, cnt_poll, pll_seen,
                   sck_idx, daq_file, g_state, bcid_reg>>

-----------------------------------------------------------------------------
(* device_initialize, first step: device_init_mmap.  On failure it closes *)
(* /dev/mem again and leaves mem_fd = 0.                                  *)
InitMmap ==
    /\ phase = "created"
    /\ \/ /\ mem_fd' = TRUE
          /\ phase' = "init_fpga"
          /\ UNCHANGED err
       \/ /\ Fail("mmap")
          /\ UNCHANGED mem_fd
    /\ UNCHANGED <<rshaper, trig_mode, rfm_on, cfg_mode, task, cnt_poll,
                   pll_seen, sck_idx, daq_file, g_state, bcid_reg>>

(* device_init_fpga: SYNC_reset_fpga(), then cnt_poll = 0.                *)
InitFpga ==
    /\ phase = "init_fpga"
    /\ phase' = "pll_poll"
    /\ cnt_poll' = 0
    /\ UNCHANGED <<err, rshaper, trig_mode, rfm_on, cfg_mode, task, mem_fd,
                   pll_seen, sck_idx, daq_file, g_state, bcid_reg>>

(* Mutant: the loop test without "cnt_poll < 100".                       *)
PllPollNoBound ==
    /\ phase = "pll_poll"
    /\ \E lck \in BOOLEAN :
          /\ pll_seen' = lck
          /\ IF ~lck
             THEN /\ cnt_poll' = cnt_poll + 1
                  /\ UNCHANGED <<phase, err>>
             ELSE /\ UNCHANGED cnt_poll
                  /\ IF cnt_poll >= MaxPoll
                     THEN Fail("pll")
                     ELSE /\ phase' = "init_hrsc"
                          /\ UNCHANGED err
    /\ UNCHANGED <<rshaper, trig_mode, rfm_on, cfg_mode, task, mem_fd, sck_idx,
                   daq_file, g_state, bcid_reg>>

(* One test of  while ((!SYNC_pll_lck()) && (cnt_poll < 100))  with its   *)
(* usleep and cnt_poll++, or the loop exit and  if (cnt_poll >= 100).     *)
(* On success the RFMs are switched on and the command source selected.   *)
PllPoll ==
    /\ phase = "pll_poll"
    /\ \E lck \in BOOLEAN :
          /\ pll_seen' = lck
          /\ IF ~lck /\ cnt_poll < MaxPoll
             THEN /\ cnt_poll' = cnt_poll + 1
                  /\ UNCHANGED <<phase, err>>
             ELSE /\ UNCHANGED cnt_poll
                  /\ IF cnt_poll >= MaxPoll
                     THEN Fail("pll")
                     ELSE /\ phase' = "init_hrsc"
                          /\ UNCHANGED err
    /\ UNCHANGED <<rshaper, trig_mode, rfm_on, cfg_mode, task, mem_fd, sck_idx,
                   daq_file, g_state, bcid_reg>>

(* device_init_hrsc: the slow control of every active RFM, from the db    *)
(* tables or from csv (which also writes and copies the history file).    *)
InitHrsc ==
    /\ phase = "init_hrsc"
    /\ \/ /\ phase' = "init_scks"
          /\ sck_idx' = 0
          /\ UNCHANGED err
       \/ /\ Fail("hrsc")
          /\ UNCHANGED sck_idx
    /\ UNCHANGED <<rshaper, trig_mode, rfm_on, cfg_mode, task, mem_fd,
                   cnt_poll, pll_seen, daq_file, g_state, bcid_reg>>

(* Mutant: a failing connect() is logged and the loop goes on.           *)
InitSckIgnoreConnect ==
    /\ phase = "init_scks"
    /\ sck_idx < NbRfm
    /\ IF ~Booted(sck_idx)
       THEN /\ sck_idx' = sck_idx + 1
            /\ UNCHANGED <<phase, err, task>>
       ELSE \/ /\ task' = [task EXCEPT ![sck_idx].sck = "error"]
               /\ Fail("socket")
               /\ UNCHANGED sck_idx
            \/ /\ task[sck_idx].addr = NoAddr
               /\ task' = [task EXCEPT ![sck_idx].sck = "open"]
               /\ phase' = "crashed"
               /\ err' = "null_addr"
               /\ UNCHANGED sck_idx
            \/ /\ task[sck_idx].addr # NoAddr
               /\ \E ok \in BOOLEAN :
                     /\ task' = [task EXCEPT ![sck_idx].sck =
                                    IF ok THEN "connected" ELSE "open"]
                     /\ sck_idx' = sck_idx + 1
                     /\ UNCHANGED <<phase, err>>
    /\ UNCHANGED <<rshaper, trig_mode, rfm_on, cfg_mode, mem_fd, cnt_poll,
                   pll_seen, daq_file, g_state, bcid_reg>>

(* One iteration of device_init_scks for a booted slot: socket(), then    *)
(* inet_pton(task.addr) (a NULL address is a crash), then connect().      *)
(* A failing socket() stores -1 in task.sck; a failing connect() leaves   *)
(* the socket open.  Unbooted slots are skipped.                          *)
InitSck ==
    /\ phase = "init_scks"
    /\ sck_idx < NbRfm
    /\ IF ~Booted(sck_idx)
       THEN /\ sck_idx' = sck_idx + 1
            /\ UNCHANGED <<phase, err, task>>
       ELSE \/ /\ task' = [task EXCEPT ![sck_idx].sck = "error"]
               /\ Fail("socket")
               /\ UNCHANGED sck_idx
            \/ /\ task[sck_idx].addr = NoAddr
               /\ task' = [task EXCEPT ![sck_idx].sck = "open"]
               /\ phase' = "crashed"
               /\ err' = "null_addr"
               /\ UNCHANGED sck_idx
            \/ /\ task[sck_idx].addr # NoAddr
               /\ \/ /\ task' = [task EXCEPT ![sck_idx].sck = "connected"]
                     /\ sck_idx' = sck_idx + 1
                     /\ UNCHANGED <<phase, err>>
                  \/ /\ task' = [task EXCEPT ![sck_idx].sck = "open"]
                     /\ Fail("socket")
                     /\ UNCHANGED sck_idx
    /\ UNCHANGED <<rshaper, trig_mode, rfm_on, cfg_mode, mem_fd, cnt_poll,
                   pll_seen, daq_file, g_state, bcid_reg>>

(* The end of device_init_scks: device_initialize returns 0.              *)
InitDone ==
    /\ phase = "init_scks"
    /\ sck_idx = NbRfm
    /\ phase' = "initialized"
    /\ UNCHANGED <<err, rshaper, trig_mode, rfm_on, cfg_mode, task, mem_fd,
                   cnt_poll, pll_seen, sck_idx, daq_file, g_state, bcid_reg>>

-----------------------------------------------------------------------------
(* device_start, device_init_run: fopen of the run file (-1 if it fails), *)
(* SYNC_reset_hr(); then device_start_run_noise returns at once, while    *)
(* device_start_run_dcc waits for the reset-BCID command; any other trig  *)
(* mode returns -1 ("unknown trig-mode") with the run file open.          *)
DeviceStart ==
    /\ phase = "initialized"
    /\ \/ /\ daq_file' = "open"
          /\ trig_mode \in {0, 1}
          /\ phase' = IF trig_mode = 0 THEN "wait_bcid" ELSE "looping"
          /\ UNCHANGED err
       \/ /\ daq_file' = "open"
          /\ trig_mode \notin {0, 1}
          /\ Fail("unknown_trig")
       \/ /\ Fail("store")
          /\ UNCHANGED daq_file
    /\ UNCHANGED <<rshaper, trig_mode, rfm_on, cfg_mode, task, mem_fd,
                   cnt_poll, pll_seen, sck_idx, g_state, bcid_reg>>

(* The polling loops of device_start_run_dcc: they spin until a read of   *)
(* SYNC_dcc_cmd_mem() returns CMD_RESET_BCID or g_state is 0; then        *)
(* "if (g_state == 0) return -1;", else the counters and FIFOs are set up *)
(* and device_start returns 0.                                            *)
WaitResetBcid ==
    /\ phase = "wait_bcid"
    /\ bcid_reg \/ g_state = 0
    /\ IF g_state = 0
       THEN /\ phase' = "failed"
            /\ err' = "cancelled"
       ELSE /\ phase' = "looping"
            /\ UNCHANGED err
    /\ UNCHANGED <<rshaper, trig_mode, rfm_on, cfg_mode, task, mem_fd,
                   cnt_poll, pll_seen, sck_idx, daq_file, g_state, bcid_reg>>

(* device_loop returns only once it has seen g_state == 0.                *)
LoopReturn ==
    /\ phase = "looping"
    /\ g_state = 0
    /\ phase' = "loop_done"
    /\ UNCHANGED <<err, rshaper, trig_mode, rfm_on, cfg_mode, task, mem_fd,
                   cnt_poll, pll_seen, sck_idx, daq_file, g_state, bcid_reg>>

(* device_stop: counters and FPGA reset, then fclose(ctx->daq_file) and   *)
(* daq_file = NULL.  fclose(NULL) dereferences the null stream.           *)
DeviceStop ==
    /\ phase \in {"loop_done", "stopped"}
    /\ daq_file' = "null"
    /\ IF daq_file = "open"
       THEN /\ phase' = "stopped"
            /\ UNCHANGED err
       ELSE /\ phase' = "crashed"
            /\ err' = "null_stream"
    /\ UNCHANGED <<rshaper, trig_mode, rfm_on, cfg_mode, task, mem_fd,
                   cnt_poll, pll_seen, sck_idx, g_state, bcid_reg>>

(* device_free: unmaps and closes /dev/mem, closes the run file and every *)
(* socket with a nonzero descriptor.                                      *)
DeviceFree ==
    /\ phase \in {"failed", "stopped"}
    /\ phase' = "freed"
    /\ mem_fd' = FALSE
    /\ daq_file' = "null"
    /\ task' = [s \in Slots |-> [task[s] EXCEPT !.sck = "none"]]
    /\ UNCHANGED <<err, rshaper, trig_mode, rfm_on, cfg_mode, cnt_poll,
                   pll_seen, sck_idx, g_state, bcid_reg>>

-----------------------------------------------------------------------------
(* device_stop_loop or SIGINT, at any time.                               *)
DeviceStopLoop ==
    /\ g_state = 1
    /\ g_state' = 0
    /\ UNCHANGED <<phase, err, rshaper, trig_mode, rfm_on, cfg_mode, task,
                   mem_fd, cnt_poll, pll_seen, sck_idx, daq_file, bcid_reg>>

(* The DCC sends the reset-BCID command.                                  *)
DccResetBcid ==
    /\ ~bcid_reg
    /\ bcid_reg' = TRUE
    /\ UNCHANGED <<phase, err, rshaper, trig_mode, rfm_on, cfg_mode, task,
                   mem_fd, cnt_poll, pll_seen, sck_idx, daq_file, g_state>>

Configuration ==
    \/ \E d \in Difs, s \in Slots, r \in Shapers, t \in TrigModes :
          BootRfm(d, s, r, t)
    \/ \E d \in Difs, a \in Addrs : ConfigureDif(d, a)
    \/ \E r \in Shapers, m \in SUBSET Slots : Configure(r, m)

Control ==
    \/ Configuration
    \/ InitMmap \/ InitFpga \/ PllPoll \/ InitHrsc \/ InitSck \/ InitDone
    \/ DeviceStart \/ WaitResetBcid \/ LoopReturn \/ DeviceStop \/ DeviceFree

Next == Control \/ DeviceStopLoop \/ DccResetBcid

(* Only safety is stated of the life cycle, so no step is forced: the     *)
(* loop's progress is EdaReadout's, and there it rests on every DIF       *)
(* exchange returning.                                                    *)
Spec == Init /\ [][Next]_vars

-----------------------------------------------------------------------------
TypeOK ==
    /\ phase \in Phases
    /\ err \in Errors
    /\ rshaper \in {0} \cup Shapers
    /\ trig_mode \in TrigModes
    /\ rfm_on \in SUBSET Slots
    /\ cfg_mode \in CfgModes
    /\ task \in [Slots -> Task]
    /\ mem_fd \in BOOLEAN
    /\ cnt_poll \in 0 .. MaxPoll
    /\ pll_seen \in BOOLEAN
    /\ sck_idx \in 0 .. NbRfm
    /\ daq_file \in {"null", "open"}
    /\ g_state \in {0, 1}
    /\ bcid_reg \in BOOLEAN


(* Once device_start has returned 0 the whole of device_initialize        *)
(* succeeded: the bus is mapped and every booted module has a connected   *)
(* socket (device_init_scks returns -1 at the first failure), and in dcc  *)
(* mode the run began on a reset-BCID command from the DCC.               *)
RunStartsInitialized ==
    phase \in {"looping", "loop_done", "stopped"} =>
        /\ mem_fd
        /\ \A s \in Slots : Booted(s) => task[s].sck = "connected"
        /\ trig_mode = 0 => bcid_reg

(* Spec 3 and 8: the shaper value is the same across every boot and       *)
(* configure call, or configuration fails with ConfigConflict.            *)
ShaperConsistent ==
    phase # "failed" =>
        \A s \in Slots : Booted(s) => task[s].rshaper = rshaper

(* device_init_fpga reports ClockNotLocked only when the PLL was not      *)
(* locked at its last poll.                                               *)
PllFailureMeansUnlocked == err = "pll" => ~pll_seen

(* Spec 7: a failed initialize leaves no partial initialization active:   *)
(* no DIF socket stays open.                                              *)
NoPartialInit ==
    (phase = "failed" /\ err \in {"mmap", "pll", "hrsc", "socket"}) =>
        \A s \in Slots : task[s].sck \in {"none", "error"}

(* Spec 4.1 and 8: stop() is idempotent and never closes the run file     *)
(* twice; here: device_stop never reaches fclose(NULL).                   *)
StopIdempotent == err # "null_stream"

(* Spec 4.1: initialize opens one connection per bound module and fails   *)
(* with ConnectFailed otherwise; here: device_init_scks never hands a     *)
(* booted slot's NULL address (a slot no device_configure_dif bound) to   *)
(* inet_pton.                                                             *)
ConnectOnlyBound == err # "null_addr"

(* Spec 3, 4.1 and 7: the trigger mode is Dcc or Soft, initialize selects *)
(* the command source from it, and a startup failure is reported at       *)
(* configure or initialize time, so that the caller never proceeds to     *)
(* start: device_initialize never succeeds with a trig mode for which     *)
(* device_init_fpga selected no command source.                           *)
InitializedWithSource ==
    phase \in {"initialized", "wait_bcid", "looping", "loop_done", "stopped"}
        => trig_mode \in {0, 1}

(* Spec 4.2: the loop streams every active module over its persistent    *)
(* connection; here: every slot of rfm_on has a connected socket when the *)
(* loop runs, so device_daq_send_dif never writes to descriptor 0.        *)
ActiveSlotsConnected ==
    phase = "looping" => \A s \in rfm_on : task[s].sck = "connected"

=============================================================================

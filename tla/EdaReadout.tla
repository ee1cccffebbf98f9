----------------------------- MODULE EdaReadout -----------------------------
(***************************************************************************)
(* The readout loop of the EDA board: device_loop_dcc and                 *)
(* device_loop_noise of src/eda/device.c, run by the single control       *)
(* thread after device_start has returned, together with the two actors   *)
(* it shares state with: the hardware (readout / ramfull and FIFO-ready   *)
(* flags) and device_stop_loop / handle_sigint, which clear g_state.      *)
(*                                                                         *)
(* Data is abstracted to tags: every byte the board puts in the cycle     *)
(* buffer for module s during cycle c is the tag <<c, s>>.  The cycle     *)
(* buffer is a memory of BufSize bytes with a write pointer; a module's   *)
(* buffer window is the pair task[s].beg/end of offsets into it.  One DIF *)
(* exchange (device_daq_send_dif) is one atomic step whose result is the  *)
(* value it returns; the byte-level exchange is the subject of module     *)
(* DifProtocol.                                                           *)
(***************************************************************************)
EXTENDS Integers, Sequences, FiniteSets

CONSTANTS
    NbRfm,     \* NB_RFM, the number of RFM slots
    MaxSeg,    \* the most bytes one module puts in the buffer in a cycle
    MaxCycle,  \* bound on cycle_id, for model checking
    TrigMode   \* ctx->trig_mode: 0 = dcc, 1 = soft ("noise")

ASSUME ReadoutAssumption ==
    /\ NbRfm \in Nat \ {0}
    /\ MaxSeg \in Nat \ {0}
    /\ MaxCycle \in Nat
    /\ TrigMode \in {0, 1}

Slots   == 0 .. NbRfm - 1
BufSize == NbRfm * MaxSeg          \* capacity of the cycle buffer
Offsets == 0 .. BufSize - 1
Tags    == (0 .. MaxCycle) \X Slots
Junk    == <<NbRfm, NbRfm>>        \* a byte no cycle has written yet
Results == {0, -1, 1}              \* return values of device_daq_send_dif

Locations ==
    {"top", "wait_start", "chk_start", "wait_ready", "chk_ready",
     "buffer", "send", "done"}

VARIABLES
    rfm_on,    \* set of active slots (the bits of ctx->rfm_on)
    g_state,   \* the global cancellation flag, 1 = running
    pc,        \* where the control thread is in the loop
    idx,       \* rfm_index / i of the buffering and sending for-loops
    cycle_id,  \* ctx->cycle_id
    mem,       \* contents of the cycle buffer
    fill,      \* write pointer of the cycle buffer
    win,       \* win[s] = [beg, end]: ctx->task[s].beg/end as offsets
    rc,        \* ctx->task[s].rc
    hw,        \* board status: "idle", "trig" (readout started/ramfull), "ready"
    armed,     \* soft mode: acquisition started (SYNC_start_acq)
    daq_file,  \* bytes written to ctx->daq_file
    streamed,  \* streamed[s]: payloads DIF s acknowledged, with their cycle
    bufd       \* history: slots buffered in the current cycle

vars == <<rfm_on, g_state, pc, idx, cycle_id, mem, fill, win, rc, hw, armed,
          daq_file, streamed, bufd>>

Window  == [beg : 0 .. BufSize, end : 0 .. BufSize]
Streamed == [cyc : 0 .. MaxCycle, data : Seq(Tags \cup {Junk}),
             fresh : BOOLEAN]

(* The bytes of the buffer window w, in order.                            *)
Bytes(w) == [k \in 1 .. (w.end - w.beg) |-> mem[w.beg + k - 1]]

(* The filled part of the cycle buffer, as DAQ_write_buffer writes it.    *)
Filled == [k \in 1 .. fill |-> mem[k - 1]]

(* Status flags polled by the loop.                                       *)
StartFlag == hw \in {"trig", "ready"}   \* SYNC_fpga_ro() / SYNC_ramfull()
ReadyFlag == hw = "ready"               \* SYNC_fifo_ready()

-----------------------------------------------------------------------------
(* The state right after device_start returned 0: the task records are    *)
(* still as calloc left them (beg = end = NULL, rc = 0), cycle_id = 0 and  *)
(* the soft variant has just issued SYNC_start_acq.                       *)
Init ==
    /\ rfm_on \in SUBSET Slots
    /\ g_state = 1
    /\ pc = "top"
    /\ idx = 0
    /\ cycle_id = 0
    /\ mem = [o \in Offsets |-> Junk]
    /\ fill = 0
    /\ win = [s \in Slots |-> [beg |-> 0, end |-> 0]]
    /\ rc = [s \in Slots |-> 0]
    /\ hw = "idle"
    /\ armed = (TrigMode = 1)
    /\ daq_file = <<>>
    /\ streamed = [s \in Slots |-> <<>>]
    /\ bufd = {}

(* Mutant: the loop forgets DAQ_reset_buffer.                             *)
LoopTopNoReset ==
    /\ pc = "top"
    /\ \/ /\ g_state = 1
          /\ cycle_id < MaxCycle
          /\ bufd' = {}
          /\ pc' = "wait_start"
       \/ /\ g_state = 0
          /\ pc' = "done"
          /\ UNCHANGED bufd
    /\ UNCHANGED <<rfm_on, g_state, idx, cycle_id, mem, fill, win, rc, hw, armed,
                   daq_file, streamed>>

(* while (g_state == 1) { DAQ_reset_buffer(); ...                         *)
LoopTop ==
    /\ pc = "top"
    /\ \/ /\ g_state = 1
          /\ cycle_id < MaxCycle
          /\ fill' = 0
          /\ bufd' = {}
          /\ pc' = "wait_start"
       \/ /\ g_state = 0
          /\ pc' = "done"
          /\ UNCHANGED <<fill, bufd>>
    /\ UNCHANGED <<rfm_on, g_state, idx, cycle_id, mem, win, rc, hw, armed,
                   daq_file, streamed>>

(* Mutant: the poll for the start condition does not look at g_state.     *)
WaitStartNoCancel ==
    /\ pc = "wait_start"
    /\ StartFlag
    /\ pc' = "chk_start"
    /\ UNCHANGED <<rfm_on, g_state, idx, cycle_id, mem, fill, win, rc, hw,
                   armed, daq_file, streamed, bufd>>

(* while ((SYNC_fpga_ro() == 0) && (g_state == 1)) ;  (dcc)               *)
(* while ((SYNC_ramfull() == 0) && (g_state == 1)) ;  (soft)              *)
WaitStart ==
    /\ pc = "wait_start"
    /\ StartFlag \/ g_state = 0
    /\ pc' = "chk_start"
    /\ UNCHANGED <<rfm_on, g_state, idx, cycle_id, mem, fill, win, rc, hw,
                   armed, daq_file, streamed, bufd>>

(* if (g_state == 0) break;  then, in soft mode, SYNC_ramfull_ext().      *)
CheckStart ==
    /\ pc = "chk_start"
    /\ pc' = IF g_state = 0 THEN "done" ELSE "wait_ready"
    /\ UNCHANGED <<rfm_on, g_state, idx, cycle_id, mem, fill, win, rc, hw,
                   armed, daq_file, streamed, bufd>>

(* while ((SYNC_fifo_ready() == 0) && (g_state == 1)) ;                   *)
WaitReady ==
    /\ pc = "wait_ready"
    /\ ReadyFlag \/ g_state = 0
    /\ pc' = "chk_ready"
    /\ UNCHANGED <<rfm_on, g_state, idx, cycle_id, mem, fill, win, rc, hw,
                   armed, daq_file, streamed, bufd>>

(* if (g_state == 0) break;  then enter the buffering for-loop.           *)
CheckReady ==
    /\ pc = "chk_ready"
    /\ pc' = IF g_state = 0 THEN "done" ELSE "buffer"
    /\ idx' = 0
    /\ UNCHANGED <<rfm_on, g_state, cycle_id, mem, fill, win, rc, hw, armed,
                   daq_file, streamed, bufd>>

(* Mutant: the buffer window's start is not updated.                      *)
DaqWriteDifKeepBeg ==
    /\ pc = "buffer"
    /\ idx \in rfm_on
    /\ \E len \in 0 .. MaxSeg :
          /\ mem' = [o \in Offsets |->
                       IF fill <= o /\ o < fill + len
                       THEN <<cycle_id, idx>> ELSE mem[o]]
          /\ win' = [win EXCEPT ![idx].end = fill + len]
          /\ fill' = fill + len
    /\ bufd' = bufd \cup {idx}
    /\ idx' = IF g_state = 0 THEN NbRfm ELSE idx + 1
    /\ UNCHANGED <<rfm_on, g_state, pc, cycle_id, rc, hw, armed, daq_file,
                   streamed>>

(* Mutant: the for-loop skips a slot without testing its rfm_on bit.     *)
SkipInactiveNoTest ==
    /\ pc \in {"buffer", "send"}
    /\ idx < NbRfm
    /\ idx' = idx + 1
    /\ UNCHANGED <<rfm_on, g_state, pc, cycle_id, mem, fill, win, rc, hw, armed,
                   daq_file, streamed, bufd>>

(* if (((ctx->rfm_on >> i) & 1) == 0) continue;  in either for-loop.     *)
SkipInactive ==
    /\ pc \in {"buffer", "send"}
    /\ idx < NbRfm
    /\ idx \notin rfm_on
    /\ idx' = idx + 1
    /\ UNCHANGED <<rfm_on, g_state, pc, cycle_id, mem, fill, win, rc, hw, armed,
                   daq_file, streamed, bufd>>

(* One iteration of the buffering loop: device_daq_write_dif(ctx, s)      *)
(* copies module s's FIFO (len bytes) to the buffer and points            *)
(* task[s].beg/end at them; then "if (g_state == 0) break;".              *)
DaqWriteDif ==
    /\ pc = "buffer"
    /\ idx \in rfm_on
    /\ \E len \in 0 .. MaxSeg :
          /\ mem' = [o \in Offsets |->
                       IF fill <= o /\ o < fill + len
                       THEN <<cycle_id, idx>> ELSE mem[o]]
          /\ win' = [win EXCEPT ![idx] = [beg |-> fill, end |-> fill + len]]
          /\ fill' = fill + len
    /\ bufd' = bufd \cup {idx}
    /\ idx' = IF g_state = 0 THEN NbRfm ELSE idx + 1
    /\ UNCHANGED <<rfm_on, g_state, pc, cycle_id, rc, hw, armed, daq_file,
                   streamed>>

(* Mutant: the dcc loop drops DAQ_write_buffer, as the soft loop does.    *)
FifoAckNoWrite ==
    /\ pc = "buffer"
    /\ idx = NbRfm
    /\ hw' = "idle"
    /\ idx' = 0
    /\ pc' = "send"
    /\ UNCHANGED <<rfm_on, g_state, cycle_id, mem, fill, win, rc, armed,
                   daq_file, streamed, bufd>>

(* SYNC_fifo_ack(); then, in dcc mode only, DAQ_write_buffer(daq_file).   *)
FifoAck ==
    /\ pc = "buffer"
    /\ idx = NbRfm
    /\ hw' = "idle"
    /\ daq_file' = IF TrigMode = 0 THEN daq_file \o Filled ELSE daq_file
    /\ idx' = 0
    /\ pc' = "send"
    /\ UNCHANGED <<rfm_on, g_state, cycle_id, mem, fill, win, rc, armed,
                   streamed, bufd>>

(* err = device_daq_send_dif(ctx, s); if (err != 0) task[s].rc = err;     *)
(* The exchange sends the bytes task[s].beg .. task[s].end as they are    *)
(* in the buffer now; DIF s has them when it returns 0.                   *)
DaqSendDif ==
    /\ pc = "send"
    /\ idx \in rfm_on
    /\ \E err \in Results :
          /\ rc' = IF err # 0 THEN [rc EXCEPT ![idx] = err] ELSE rc
          /\ streamed' =
               IF err = 0
               THEN [streamed EXCEPT ![idx] =
                       Append(@, [cyc |-> cycle_id, data |-> Bytes(win[idx]),
                                  fresh |-> idx \in bufd])]
               ELSE streamed
    /\ idx' = idx + 1
    /\ UNCHANGED <<rfm_on, g_state, pc, cycle_id, mem, fill, win, hw, armed,
                   daq_file, bufd>>

(* Mutant: the soft loop does not re-issue SYNC_start_acq.                *)
CycleEndNoRearm ==
    /\ pc = "send"
    /\ idx = NbRfm
    /\ cycle_id' = cycle_id + 1
    /\ pc' = "top"
    /\ UNCHANGED <<rfm_on, g_state, idx, mem, fill, win, rc, hw, armed,
                   daq_file, streamed, bufd>>

(* Mutant: the loop does not advance cycle_id.                            *)
CycleEndNoIncrement ==
    /\ pc = "send"
    /\ idx = NbRfm
    /\ armed' = (armed \/ TrigMode = 1)
    /\ pc' = "top"
    /\ UNCHANGED <<rfm_on, g_state, idx, cycle_id, mem, fill, win, rc, hw,
                   daq_file, streamed, bufd>>

(* After the sending loop: SYNC_start_acq() in soft mode; cycle_id++.     *)
CycleEnd ==
    /\ pc = "send"
    /\ idx = NbRfm
    /\ armed' = (armed \/ TrigMode = 1)
    /\ cycle_id' = cycle_id + 1
    /\ pc' = "top"
    /\ UNCHANGED <<rfm_on, g_state, idx, mem, fill, win, rc, hw, daq_file,
                   streamed, bufd>>

(* The loop's own steps besides device_daq_send_dif: the busy waits      *)
(* re-test g_state on every poll, and the rest is computation and        *)
(* register writes that do not block.                                     *)
LoopSteps ==
    \/ LoopTop \/ WaitStart \/ CheckStart \/ WaitReady \/ CheckReady
    \/ SkipInactive \/ DaqWriteDif \/ FifoAck \/ CycleEnd

Loop ==
    \/ LoopTop \/ WaitStart \/ CheckStart \/ WaitReady \/ CheckReady
    \/ SkipInactive \/ DaqWriteDif \/ FifoAck \/ DaqSendDif \/ CycleEnd

-----------------------------------------------------------------------------
(* device_stop_loop (or handle_sigint): g_state = 0, from another thread. *)
DeviceStopLoop ==
    /\ g_state = 1
    /\ g_state' = 0
    /\ UNCHANGED <<rfm_on, pc, idx, cycle_id, mem, fill, win, rc, hw, armed,
                   daq_file, streamed, bufd>>

(* The board starts a readout: an external trigger (dcc) or, while        *)
(* acquisition runs, a full RAM (soft), which stops acquisition.          *)
HwTrigger ==
    /\ hw = "idle"
    /\ TrigMode = 0 \/ armed
    /\ hw' = "trig"
    /\ armed' = FALSE
    /\ UNCHANGED <<rfm_on, g_state, pc, idx, cycle_id, mem, fill, win, rc,
                   daq_file, streamed, bufd>>

(* The board has the readout in its FIFOs.                                *)
HwFifoReady ==
    /\ hw = "trig"
    /\ hw' = "ready"
    /\ UNCHANGED <<rfm_on, g_state, pc, idx, cycle_id, mem, fill, win, rc,
                   armed, daq_file, streamed, bufd>>

Hardware == HwTrigger \/ HwFifoReady

Next == Loop \/ DeviceStopLoop \/ Hardware

(* The control thread is weakly fair in its own steps.  It gets no        *)
(* fairness inside device_daq_send_dif, which blocks in send and recv     *)
(* with no timeout (SIGINT, installed with signal(), restarts them), so a *)
(* call need not return.  The operator and the board owe the loop nothing.*)
Spec == Init /\ [][Next]_vars /\ WF_vars(LoopSteps)

-----------------------------------------------------------------------------
TypeOK ==
    /\ rfm_on \in SUBSET Slots
    /\ g_state \in {0, 1}
    /\ pc \in Locations
    /\ idx \in 0 .. NbRfm
    /\ cycle_id \in 0 .. MaxCycle
    /\ mem \in [Offsets -> Tags \cup {Junk}]
    /\ fill \in 0 .. BufSize
    /\ win \in [Slots -> Window]
    /\ rc \in [Slots -> Results]
    /\ hw \in {"idle", "trig", "ready"}
    /\ armed \in BOOLEAN
    /\ daq_file \in Seq(Tags \cup {Junk})
    /\ streamed \in [Slots -> Seq(Streamed)]
    /\ bufd \in SUBSET Slots

(* Tags in the order cycles and slots are read out.                       *)
TagLeq(a, b) == a[1] < b[1] \/ (a[1] = b[1] /\ a[2] <= b[2])

(* The raw file holds only data the active modules produced, cycle after  *)
(* cycle and, within a cycle, in ascending slot order: no cycle is        *)
(* written twice and no stale buffer content reaches the file (the        *)
(* DAQ_reset_buffer / DAQ_write_buffer pairing of device_loop_dcc).       *)
FileInCycleOrder ==
    /\ \A i \in 1 .. Len(daq_file) : daq_file[i] \in (0 .. MaxCycle) \X rfm_on
    /\ \A i, j \in 1 .. Len(daq_file) :
          i < j => TagLeq(daq_file[i], daq_file[j])

(* A payload that DIF s acknowledged, sent in a cycle in which s was      *)
(* buffered, consists of s's own bytes of that cycle: the window          *)
(* task[s].beg/end that device_daq_write_dif set is still the right one   *)
(* when device_daq_send_dif reads it, after the other modules' buffering. *)
OwnDataStreamed ==
    \A s \in Slots : \A k \in 1 .. Len(streamed[s]) :
       LET d == streamed[s][k] IN
       d.fresh => \A b \in 1 .. Len(d.data) : d.data[b] = <<d.cyc, s>>

(* Every payload streamed to a DIF is that module's data of the cycle it  *)
(* was sent in (spec 3: the buffer window is rewritten every cycle by the *)
(* readout step), whether or not the cycle was cancelled.                 *)
StreamedFresh ==
    \A s \in Slots : \A k \in 1 .. Len(streamed[s]) :
       LET d == streamed[s][k] IN
       \A b \in 1 .. Len(d.data) : d.data[b] = <<d.cyc, s>>

(* Every byte a DIF acknowledged is already in the raw file (spec 4.4:    *)
(* the cycle is persisted locally before any network delivery).           *)
StreamedPersisted ==
    \A s \in Slots : \A k \in 1 .. Len(streamed[s]) :
       \A b \in 1 .. Len(streamed[s][k].data) :
          \E i \in 1 .. Len(daq_file) : daq_file[i] = streamed[s][k].data[b]

(* A cycle is written to the raw file only once every active module has   *)
(* been buffered (spec 8: a cycle is either fully buffered-and-written    *)
(* or not written at all).                                                *)
WrittenCycleComplete ==
    [][(pc = "buffer" /\ pc' = "send") => bufd = rfm_on]_vars

(* A cycle leaves the buffering for-loop incomplete only through the      *)
(* "if (g_state == 0) break;" after device_daq_write_dif: when the loop   *)
(* goes on to SYNC_fifo_ack and DAQ_write_buffer with some active module  *)
(* not buffered, cancellation has been requested.  (The for-loop skipping *)
(* a module, or ending early, would write an incomplete cycle while the   *)
(* run goes on.)                                                          *)
CompleteUnlessCancelled ==
    [][(pc = "buffer" /\ pc' = "send") => (bufd = rfm_on \/ g_state = 0)]_vars

(* In soft mode the loop never waits for a ramfull the board cannot       *)
(* raise: whenever it polls SYNC_ramfull, acquisition is running or the   *)
(* ramfull already came (the SYNC_start_acq at the end of each cycle).    *)
NoWaitOnIdleBoard ==
    (TrigMode = 1 /\ pc = "wait_start") => (armed \/ hw # "idle")

(* Every call of device_daq_send_dif returns: what the consumer and the   *)
(* link must give the loop (DifProtocol's ExchangeEnds), not something    *)
(* the loop can ensure.                                                   *)
ExchangesReturn == WF_vars(DaqSendDif)

(* A cancellation (device_stop_loop, SIGINT) makes the loop return,       *)
(* whatever the board does, provided every DIF exchange returns: every    *)
(* busy wait re-reads g_state and every stage after it ends.              *)
CancelStopsLoop == ExchangesReturn => ((g_state = 0) ~> (pc = "done"))

=============================================================================

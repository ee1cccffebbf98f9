------------------------- MODULE EdaRunControl_proofs -------------------------
(***************************************************************************)
(* Proofs about the device life cycle, for every number of slots, set of  *)
(* DIF ids, shaper values, addresses and PLL retry budget.                 *)
(***************************************************************************)
EXTENDS EdaRunControl, TLAPS

(* What each stage of device_initialize has established by the time the  *)
(* caller is past it: the bus is mapped from init_fpga on, the slots      *)
(* device_init_scks has passed are connected, all of them once it         *)
(* returned 0, and a dcc run is only looping after the reset-BCID.        *)
Established ==
    /\ phase \in {"init_fpga", "pll_poll", "init_hrsc", "init_scks",
                  "initialized", "wait_bcid", "looping", "loop_done",
                  "stopped"} => mem_fd
    /\ phase = "init_scks" =>
          \A s \in 0 .. sck_idx - 1 : Booted(s) => task[s].sck = "connected"
    /\ phase \in {"initialized", "wait_bcid", "looping", "loop_done",
                  "stopped"} =>
          \A s \in Slots : Booted(s) => task[s].sck = "connected"
    /\ (phase \in {"looping", "loop_done", "stopped"} /\ trig_mode = 0) =>
          bcid_reg

IInv == TypeOK /\ Established

USE RunControlAssumption

LEMMA InitIInv == Init => IInv
<1>. SUFFICES ASSUME Init PROVE IInv
  OBVIOUS
<1>1. task \in [Slots -> Task]
  BY DEF Init, Task, SckStates
<1>2. phase \in Phases /\ err \in Errors /\ cfg_mode \in CfgModes
  BY DEF Init, Phases, Errors, CfgModes
<1>3. rshaper \in {0} \cup Shapers /\ trig_mode \in TrigModes
      /\ cnt_poll \in 0 .. MaxPoll /\ sck_idx \in 0 .. NbRfm
  BY DEF Init, TrigModes
<1>4. TypeOK
  BY <1>1, <1>2, <1>3 DEF Init, TypeOK
<1>5. Established
  BY DEF Init, Established
<1>. QED
  BY <1>4, <1>5 DEF IInv

(* The configuration calls happen before initialize: they only ever lead *)
(* to "created" or "failed", where nothing is established yet.            *)
LEMMA ConfigurationIInv ==
    ASSUME IInv, Configuration
    PROVE  IInv'
<1>. USE DEF IInv, TypeOK, Established, Booted
<1>1. CASE \E d \in Difs, s \in Slots, r \in Shapers, t \in TrigModes :
              BootRfm(d, s, r, t)
  <2>. PICK d \in Difs, s \in Slots, r \in Shapers, t \in TrigModes :
              BootRfm(d, s, r, t)
    BY <1>1
  <2>1. task' \in [Slots -> Task]
    <3>1. task' = [task EXCEPT ![s].dif = d, ![s].rshaper = r]
      BY DEF BootRfm
    <3>2. task[s] \in Task
      OBVIOUS
    <3>3. [task[s] EXCEPT !.dif = d, !.rshaper = r] \in Task
      BY <3>2 DEF Task
    <3>. QED
      BY <3>1, <3>3
  <2>. QED
    BY <2>1 DEF BootRfm, Fail, Phases, Errors
<1>2. CASE \E d \in Difs, a \in Addrs : ConfigureDif(d, a)
  <2>. PICK d \in Difs, a \in Addrs : ConfigureDif(d, a)
    BY <1>2
  <2>1. task' \in [Slots -> Task]
    BY DEF ConfigureDif, Task
  <2>. QED
    BY <2>1 DEF ConfigureDif, Fail, Phases, Errors, CfgModes
<1>3. CASE \E r \in Shapers, m \in SUBSET Slots : Configure(r, m)
  BY <1>3 DEF Configure, Fail, Phases, Errors
<1>. QED
  BY <1>1, <1>2, <1>3 DEF Configuration

(* One iteration of device_init_scks connects the slot it is at, or      *)
(* leaves the stage.                                                      *)
LEMMA InitSckIInv ==
    ASSUME IInv, InitSck
    PROVE  IInv'
<1>. USE DEF IInv, TypeOK, Established, Booted
<1>1. sck_idx \in Slots
  BY DEF InitSck, Slots
<1>2. CASE ~Booted(sck_idx)
  <2>1. task' = task /\ sck_idx' = sck_idx + 1 /\ phase' = phase
    BY <1>2 DEF InitSck
  <2>2. \A s \in 0 .. sck_idx' - 1 : Booted(s)' => task'[s].sck = "connected"
    BY <1>2, <2>1 DEF InitSck, Booted
  <2>. QED
    BY <1>1, <2>1, <2>2 DEF InitSck, Slots
<1>3. CASE Booted(sck_idx)
  <2>1. CASE phase' = "init_scks"
    <3>1. task' = [task EXCEPT ![sck_idx].sck = "connected"]
          /\ sck_idx' = sck_idx + 1
      BY <1>3, <2>1 DEF InitSck, Fail
    <3>2. \A s \in 0 .. sck_idx' - 1 : Booted(s)' => task'[s].sck = "connected"
      BY <1>1, <3>1 DEF InitSck, Booted, Slots
    <3>3. task' \in [Slots -> Task]
      BY <1>1, <3>1 DEF Task, SckStates
    <3>. QED
      BY <1>1, <2>1, <3>1, <3>2, <3>3 DEF InitSck, Slots
  <2>2. CASE phase' # "init_scks"
    <3>1. phase' \in {"failed", "crashed"} /\ sck_idx' = sck_idx
          /\ err' \in Errors
          /\ \E v \in SckStates : task' = [task EXCEPT ![sck_idx].sck = v]
      BY <1>3, <2>2 DEF InitSck, Fail, Errors, SckStates
    <3>2. task' \in [Slots -> Task]
      BY <1>1, <3>1 DEF Task
    <3>. QED
      BY <3>1, <3>2 DEF InitSck, Phases
  <2>. QED
    BY <2>1, <2>2
<1>. QED
  BY <1>2, <1>3

(* The steps of initialize and start other than the socket loop.          *)
LEMMA StagesIInv ==
    ASSUME IInv,
           \/ InitMmap \/ InitFpga \/ PllPoll \/ InitHrsc \/ InitDone
           \/ DeviceStart \/ WaitResetBcid \/ LoopReturn
    PROVE  IInv'
<1>. USE DEF IInv, TypeOK, Established, Booted
<1>1. CASE InitMmap
  BY <1>1 DEF InitMmap, Fail, Phases, Errors
<1>2. CASE InitFpga
  BY <1>2 DEF InitFpga, Phases
<1>3. CASE PllPoll
  BY <1>3 DEF PllPoll, Fail, Phases, Errors
<1>4. CASE InitHrsc
  BY <1>4 DEF InitHrsc, Fail, Phases, Errors
<1>5. CASE InitDone
  BY <1>5 DEF InitDone, Phases, Slots
<1>6. CASE DeviceStart
  BY <1>6 DEF DeviceStart, Fail, Phases, Errors, TrigModes
<1>7. CASE WaitResetBcid
  BY <1>7 DEF WaitResetBcid, Phases, Errors
<1>8. CASE LoopReturn
  BY <1>8 DEF LoopReturn, Phases
<1>. QED
  BY <1>1, <1>2, <1>3, <1>4, <1>5, <1>6, <1>7, <1>8

LEMMA NextIInv ==
    ASSUME IInv, [Next]_vars
    PROVE  IInv'
<1>. USE DEF IInv, TypeOK, Established, Booted
<1>1. CASE Configuration
  BY <1>1, ConfigurationIInv
<1>2. CASE InitSck
  BY <1>2, InitSckIInv
<1>3. CASE \/ InitMmap \/ InitFpga \/ PllPoll \/ InitHrsc \/ InitDone
           \/ DeviceStart \/ WaitResetBcid \/ LoopReturn
  BY <1>3, StagesIInv
<1>4. CASE DeviceStop
  BY <1>4 DEF DeviceStop, Phases, Errors
<1>5. CASE DeviceFree
  <2>1. task' \in [Slots -> Task]
    BY <1>5 DEF DeviceFree, Task, SckStates
  <2>. QED
    BY <1>5, <2>1 DEF DeviceFree, Phases
<1>6. CASE DeviceStopLoop
  BY <1>6 DEF DeviceStopLoop
<1>7. CASE DccResetBcid
  BY <1>7 DEF DccResetBcid
<1>8. CASE UNCHANGED vars
  BY <1>8 DEF vars, Booted
<1>. QED
  BY <1>1, <1>2, <1>3, <1>4, <1>5, <1>6, <1>7, <1>8 DEF Next, Control

(* A run of the device (device_start returned 0, the loop, device_stop)  *)
(* only ever happens with the bus mapped, every booted module connected   *)
(* and, in dcc mode, after the DCC's reset-BCID command.                  *)
THEOREM StartsInitialized == Spec => [](TypeOK /\ RunStartsInitialized)
<1>1. Init => IInv
  BY InitIInv
<1>2. IInv /\ [Next]_vars => IInv'
  BY NextIInv
<1>3. IInv => TypeOK /\ RunStartsInitialized
  BY DEF IInv, Established, RunStartsInitialized
<1>. QED
  BY <1>1, <1>2, <1>3, PTL DEF Spec

(* Every configuration call, stage failure and stop keeps the device       *)
(* context in its type: the error code is one device_start can return,    *)
(* rshaper is unset or a value device_set_shaper accepts, the PLL poll     *)
(* counter stays within its budget and the socket index within the slots.  *)
THEOREM RunControlTypeCorrect == Spec => []TypeOK
BY StartsInitialized, PTL

=============================================================================

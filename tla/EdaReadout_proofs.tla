-------------------------- MODULE EdaReadout_proofs --------------------------
(***************************************************************************)
(* Proofs about the readout loop, for every number of slots, segment size *)
(* and cycle bound.                                                       *)
(***************************************************************************)
EXTENDS EdaReadout, SequenceTheorems, TLAPS

(* The write pointer of the cycle buffer never passes the data the        *)
(* modules buffered so far, and cycle_id < MaxCycle inside a cycle: the   *)
(* facts TypeOK needs to be inductive.                                    *)
FillBound ==
    /\ pc \in {"wait_start", "chk_start", "wait_ready", "chk_ready"} => fill = 0
    /\ pc = "buffer" => fill <= MaxSeg * idx
    /\ pc \notin {"top", "done"} => cycle_id < MaxCycle

IInv == TypeOK /\ FillBound

USE ReadoutAssumption

(* Multiplication by a natural number is monotonic.                       *)
LEMMA MulMonotonic ==
    ASSUME NEW a \in Nat, NEW b \in Nat, NEW c \in Nat, b <= c
    PROVE  a * b <= a * c
<1>1. a * c = a * b + a * (c - b)
  OBVIOUS
<1>2. a * (c - b) \in Nat
  OBVIOUS
<1>. QED
  BY <1>1, <1>2

(* Appending any element e to a sequence q lengthens it by one, keeps     *)
(* its elements, and puts e last, whatever set e comes from.              *)
LEMMA AppendAny ==
    ASSUME NEW S, NEW q \in Seq(S), NEW e
    PROVE  /\ Len(Append(q, e)) = Len(q) + 1
           /\ \A i \in 1 .. Len(q) : Append(q, e)[i] = q[i]
           /\ Append(q, e)[Len(q) + 1] = e
<1>1. q \in Seq(S \cup {e})
  BY SeqMonotonic
<1>2. e \in S \cup {e}
  OBVIOUS
<1>. QED
  BY <1>1, <1>2, AppendProperties

LEMMA BufSizeNat == BufSize \in Nat
BY DEF BufSize

USE BufSizeNat

(* A buffer window's bytes, or the filled part of the buffer, form a      *)
(* sequence of buffer bytes.                                              *)
LEMMA BytesType ==
    ASSUME TypeOK, NEW w \in Window
    PROVE  Bytes(w) \in Seq(Tags \cup {Junk})
<1>1. CASE w.end >= w.beg
  <2>1. w.end - w.beg \in Nat
    BY <1>1 DEF Window, BufSize
  <2>2. \A k \in 1 .. (w.end - w.beg) : w.beg + k - 1 \in Offsets
    BY DEF Window, Offsets
  <2>3. \A k \in 1 .. (w.end - w.beg) : mem[w.beg + k - 1] \in Tags \cup {Junk}
    BY <2>2 DEF TypeOK
  <2>. QED
    BY <2>1, <2>3 DEF Bytes
<1>2. CASE w.end < w.beg
  <2>1. 1 .. (w.end - w.beg) = {}
    BY <1>2 DEF Window
  <2>2. Bytes(w) = << >>
    BY <2>1 DEF Bytes
  <2>. QED
    BY <2>2, EmptySeq
<1>. QED
  BY <1>1, <1>2 DEF Window

LEMMA FilledType ==
    ASSUME TypeOK
    PROVE  Filled \in Seq(Tags \cup {Junk})
<1>1. \A k \in 1 .. fill : mem[k - 1] \in Tags \cup {Junk}
  BY DEF TypeOK, Offsets
<1>. QED
  BY <1>1 DEF TypeOK, Filled

LEMMA InitIInv == Init => IInv
<1>. SUFFICES ASSUME Init PROVE IInv
  OBVIOUS
<1>1. mem \in [Offsets -> Tags \cup {Junk}]
  BY DEF Init
<1>2. win \in [Slots -> Window]
  BY DEF Init, Window, BufSize
<1>3. streamed \in [Slots -> Seq(Streamed)]
  BY EmptySeq DEF Init
<1>4. daq_file \in Seq(Tags \cup {Junk})
  BY EmptySeq DEF Init
<1>5. rc \in [Slots -> Results]
  BY DEF Init, Results
<1>. QED
  BY <1>1, <1>2, <1>3, <1>4, <1>5 DEF Init, IInv, TypeOK, FillBound, Locations

(* The step that buffers a module keeps the write pointer within what the *)
(* buffered modules may have written.                                     *)
LEMMA WriteDifIInv ==
    ASSUME IInv, DaqWriteDif
    PROVE  IInv'
<1>. USE DEF IInv, TypeOK, FillBound
<1>1. PICK len \in 0 .. MaxSeg :
          /\ mem' = [o \in Offsets |->
                       IF fill <= o /\ o < fill + len
                       THEN <<cycle_id, idx>> ELSE mem[o]]
          /\ win' = [win EXCEPT ![idx] = [beg |-> fill, end |-> fill + len]]
          /\ fill' = fill + len
  BY DEF DaqWriteDif
<1>2. idx \in Slots /\ pc = "buffer"
  BY DEF DaqWriteDif
<1>3. fill + len <= MaxSeg * (idx + 1)
  BY <1>1, <1>2 DEF Slots
<1>4. MaxSeg * (idx + 1) <= BufSize
  BY <1>2, MulMonotonic DEF Slots, BufSize
<1>5. idx' \in {NbRfm, idx + 1} /\ idx + 1 <= NbRfm
  BY <1>2 DEF DaqWriteDif, Slots
<1>6. MaxSeg * (idx + 1) <= MaxSeg * idx'
  <2>1. CASE idx' = idx + 1
    BY <2>1
  <2>2. CASE idx' = NbRfm
    BY <2>2, <1>5, <1>2, MulMonotonic DEF Slots
  <2>. QED
    BY <1>5, <2>1, <2>2
<1>7. <<cycle_id, idx>> \in Tags
  BY <1>2 DEF Tags, Slots
<1>8. fill' \in 0 .. BufSize
  BY <1>1, <1>3, <1>4
<1>9. mem' \in [Offsets -> Tags \cup {Junk}]
  BY <1>1, <1>7
<1>10. win' \in [Slots -> Window]
  BY <1>1, <1>2, <1>8 DEF Window
<1>11. idx' \in 0 .. NbRfm
  BY <1>5
<1>12. bufd' \in SUBSET Slots
  BY <1>2 DEF DaqWriteDif
<1>13. TypeOK'
  BY <1>8, <1>9, <1>10, <1>11, <1>12 DEF DaqWriteDif
<1>14. FillBound'
  BY <1>1, <1>2, <1>3, <1>6 DEF DaqWriteDif
<1>. QED
  BY <1>13, <1>14

LEMMA SendDifIInv ==
    ASSUME IInv, DaqSendDif
    PROVE  IInv'
<1>. USE DEF IInv, TypeOK, FillBound
<1>1. idx \in Slots /\ pc = "send"
  BY DEF DaqSendDif, Slots
<1>2. Bytes(win[idx]) \in Seq(Tags \cup {Junk})
  BY <1>1, BytesType
<1>3. [cyc |-> cycle_id, data |-> Bytes(win[idx]), fresh |-> idx \in bufd]
        \in Streamed
  BY <1>2 DEF Streamed
<1>4. streamed' \in [Slots -> Seq(Streamed)]
  BY <1>1, <1>3 DEF DaqSendDif
<1>5. rc' \in [Slots -> Results]
  BY <1>1 DEF DaqSendDif, Results
<1>6. idx' \in 0 .. NbRfm
  BY <1>1 DEF DaqSendDif, Slots
<1>. QED
  BY <1>1, <1>4, <1>5, <1>6 DEF DaqSendDif

LEMMA FifoAckIInv ==
    ASSUME IInv, FifoAck
    PROVE  IInv'
<1>. USE DEF IInv, TypeOK, FillBound
<1>1. Filled \in Seq(Tags \cup {Junk})
  BY FilledType
<1>2. daq_file' \in Seq(Tags \cup {Junk})
  BY <1>1, ConcatProperties DEF FifoAck
<1>. QED
  BY <1>2 DEF FifoAck, Locations

LEMMA NextIInv ==
    ASSUME IInv, [Next]_vars
    PROVE  IInv'
<1>. USE DEF IInv, TypeOK, FillBound
<1>1. CASE LoopTop
  BY <1>1 DEF LoopTop, Locations
<1>2. CASE WaitStart
  BY <1>2 DEF WaitStart, Locations
<1>3. CASE CheckStart
  BY <1>3 DEF CheckStart, Locations
<1>4. CASE WaitReady
  BY <1>4 DEF WaitReady, Locations
<1>5. CASE CheckReady
  BY <1>5 DEF CheckReady, Locations
<1>6. CASE SkipInactive
  <2>1. pc = "buffer" => fill <= MaxSeg * (idx + 1)
    BY <1>6 DEF SkipInactive
  <2>. QED
    BY <1>6, <2>1 DEF SkipInactive
<1>7. CASE DaqWriteDif
  BY <1>7, WriteDifIInv
<1>8. CASE FifoAck
  BY <1>8, FifoAckIInv
<1>9. CASE DaqSendDif
  BY <1>9, SendDifIInv
<1>10. CASE CycleEnd
  BY <1>10 DEF CycleEnd, Locations
<1>11. CASE DeviceStopLoop
  BY <1>11 DEF DeviceStopLoop
<1>12. CASE HwTrigger
  BY <1>12 DEF HwTrigger
<1>13. CASE HwFifoReady
  BY <1>13 DEF HwFifoReady
<1>14. CASE UNCHANGED vars
  BY <1>14 DEF vars
<1>. QED
  BY <1>1, <1>2, <1>3, <1>4, <1>5, <1>6, <1>7, <1>8, <1>9, <1>10, <1>11,
     <1>12, <1>13, <1>14 DEF Next, Loop, Hardware

(* The readout loop keeps every variable in its type: in particular the   *)
(* cycle buffer's write pointer and every window stay within the buffer.  *)
THEOREM TypeCorrect == Spec => []TypeOK
<1>1. Init => IInv
  BY InitIInv
<1>2. IInv /\ [Next]_vars => IInv'
  BY NextIInv
<1>3. IInv => TypeOK
  BY DEF IInv
<1>. QED
  BY <1>1, <1>2, <1>3, PTL DEF Spec

-----------------------------------------------------------------------------
(* Soft mode: acquisition is running, or the board already raised         *)
(* ramfull, from the end of a cycle (SYNC_start_acq) until the next poll  *)
(* of SYNC_ramfull.                                                       *)
ArmedOrTriggered ==
    (TrigMode = 1 /\ pc \in {"top", "wait_start"}) => (armed \/ hw # "idle")

LEMMA NextArmed ==
    ASSUME ArmedOrTriggered, [Next]_vars
    PROVE  ArmedOrTriggered'
<1>1. CASE LoopTop
  BY <1>1 DEF LoopTop, ArmedOrTriggered
<1>2. CASE CycleEnd
  BY <1>2 DEF CycleEnd, ArmedOrTriggered
<1>3. CASE HwTrigger
  BY <1>3 DEF HwTrigger, ArmedOrTriggered
<1>4. CASE HwFifoReady
  BY <1>4 DEF HwFifoReady, ArmedOrTriggered
<1>5. CASE FifoAck
  BY <1>5 DEF FifoAck, ArmedOrTriggered
<1>6. CASE WaitStart \/ CheckStart \/ WaitReady \/ CheckReady
  BY <1>6 DEF WaitStart, CheckStart, WaitReady, CheckReady, ArmedOrTriggered
<1>7. CASE SkipInactive \/ DaqWriteDif \/ DaqSendDif
  BY <1>7 DEF SkipInactive, DaqWriteDif, DaqSendDif, ArmedOrTriggered
<1>8. CASE DeviceStopLoop \/ UNCHANGED vars
  BY <1>8 DEF DeviceStopLoop, vars, ArmedOrTriggered
<1>. QED
  BY <1>1, <1>2, <1>3, <1>4, <1>5, <1>6, <1>7, <1>8 DEF Next, Loop, Hardware

(* The soft loop never polls SYNC_ramfull while the board is idle and     *)
(* acquisition stopped: the SYNC_start_acq at the end of every cycle       *)
(* re-arms it (device_loop_noise).                                        *)
THEOREM SoftLoopArmed == Spec => []NoWaitOnIdleBoard
<1>1. Init => ArmedOrTriggered
  BY DEF Init, ArmedOrTriggered
<1>2. ArmedOrTriggered /\ [Next]_vars => ArmedOrTriggered'
  BY NextArmed
<1>3. ArmedOrTriggered => NoWaitOnIdleBoard
  BY DEF ArmedOrTriggered, NoWaitOnIdleBoard
<1>. QED
  BY <1>1, <1>2, <1>3, PTL DEF Spec

-----------------------------------------------------------------------------
(* Inside a cycle every module buffered so far has a window that lies     *)
(* below the write pointer and holds its own bytes of this cycle; the     *)
(* slots buffered are those the for-loop has passed.                      *)
WindowsOwn ==
    /\ pc \in {"wait_start", "chk_start", "wait_ready", "chk_ready"} => bufd = {}
    /\ pc = "buffer" => \A s \in bufd : s < idx
    /\ pc \in {"buffer", "send"} =>
         \A s \in bufd :
            /\ win[s].beg <= win[s].end /\ win[s].end <= fill
            /\ \A o \in win[s].beg .. win[s].end - 1 : mem[o] = <<cycle_id, s>>

(* A segment device_daq_write_dif puts at the write pointer fits in the   *)
(* buffer.                                                                *)
LEMMA WriteDifBound ==
    ASSUME IInv, pc = "buffer", idx \in Slots, NEW len \in 0 .. MaxSeg
    PROVE  fill + len <= BufSize
<1>1. fill + len <= MaxSeg * (idx + 1)
  BY DEF IInv, FillBound, TypeOK, Slots
<1>2. MaxSeg * (idx + 1) <= BufSize
  BY MulMonotonic DEF Slots, BufSize
<1>. QED
  BY <1>1, <1>2 DEF IInv, TypeOK

LEMMA WriteDifOwn ==
    ASSUME IInv, WindowsOwn, DaqWriteDif
    PROVE  WindowsOwn'
<1>1. PICK len \in 0 .. MaxSeg :
          /\ mem' = [o \in Offsets |->
                       IF fill <= o /\ o < fill + len
                       THEN <<cycle_id, idx>> ELSE mem[o]]
          /\ win' = [win EXCEPT ![idx] = [beg |-> fill, end |-> fill + len]]
          /\ fill' = fill + len
  BY DEF DaqWriteDif
<1>2. /\ idx \in Slots /\ pc = "buffer" /\ pc' = "buffer"
      /\ bufd' = bufd \cup {idx} /\ cycle_id' = cycle_id
      /\ idx' \in {NbRfm, idx + 1}
  BY DEF DaqWriteDif, Slots, IInv, TypeOK
<1>3. fill + len <= BufSize
  BY <1>2, WriteDifBound
<1>4. fill \in 0 .. BufSize /\ bufd \subseteq Slots /\ win \in [Slots -> Window]
  BY DEF IInv, TypeOK
<1>5. \A s \in bufd : s < idx
  BY <1>2 DEF WindowsOwn
<1>6. ASSUME NEW s \in bufd' PROVE s < idx'
  BY <1>2, <1>4, <1>5 DEF Slots
<1>7. ASSUME NEW s \in bufd'
      PROVE  /\ win'[s].beg <= win'[s].end /\ win'[s].end <= fill'
             /\ \A o \in win'[s].beg .. win'[s].end - 1 :
                   mem'[o] = <<cycle_id', s>>
  <2>1. CASE s = idx
    <3>1. win'[s] = [beg |-> fill, end |-> fill + len]
      BY <1>1, <1>2, <1>4, <2>1
    <3>2. \A o \in fill .. fill + len - 1 : mem'[o] = <<cycle_id, idx>>
      BY <1>1, <1>3, <1>4 DEF Offsets
    <3>. QED
      BY <3>1, <3>2, <1>1, <1>2, <1>4, <2>1
  <2>2. CASE s \in bufd
    <3>1. s # idx /\ s \in Slots
      BY <2>2, <1>2, <1>5, <1>4 DEF Slots
    <3>2. win'[s] = win[s]
      BY <3>1, <1>1, <1>4
    <3>3. /\ win[s].beg <= win[s].end /\ win[s].end <= fill
          /\ \A o \in win[s].beg .. win[s].end - 1 : mem[o] = <<cycle_id, s>>
      BY <2>2, <1>2 DEF WindowsOwn
    <3>4. win[s] \in Window
      BY <3>1, <1>4
    <3>5. \A o \in win[s].beg .. win[s].end - 1 : mem'[o] = mem[o]
      BY <1>1, <3>3, <3>4, <1>4 DEF Window, Offsets
    <3>6. fill' \in Nat /\ fill <= fill'
      BY <1>1, <1>4
    <3>7. \A o \in win'[s].beg .. win'[s].end - 1 : mem'[o] = <<cycle_id', s>>
      BY <3>2, <3>3, <3>5, <1>2
    <3>8. win'[s].beg <= win'[s].end /\ win'[s].end <= fill'
      BY <3>2, <3>3, <3>4, <3>6, <1>4 DEF Window
    <3>. QED
      BY <3>7, <3>8
  <2>. QED
    BY <2>1, <2>2, <1>2
<1>. QED
  BY <1>2, <1>6, <1>7 DEF WindowsOwn

LEMMA SendDifOwn ==
    ASSUME IInv, WindowsOwn, OwnDataStreamed, DaqSendDif
    PROVE  OwnDataStreamed'
<1>1. idx \in Slots /\ pc = "send" /\ idx \in rfm_on
  BY DEF DaqSendDif, IInv, TypeOK, Slots
<1>2. PICK err \in Results :
          streamed' =
               IF err = 0
               THEN [streamed EXCEPT ![idx] =
                       Append(@, [cyc |-> cycle_id, data |-> Bytes(win[idx]),
                                  fresh |-> idx \in bufd])]
               ELSE streamed
  BY DEF DaqSendDif
<1>3. streamed \in [Slots -> Seq(Streamed)] /\ win \in [Slots -> Window]
  BY DEF IInv, TypeOK
<1>4. CASE err # 0
  BY <1>2, <1>4 DEF OwnDataStreamed
<1>5. CASE err = 0
  <2> DEFINE d0 == [cyc |-> cycle_id, data |-> Bytes(win[idx]),
                    fresh |-> idx \in bufd]
  <2>1. streamed' = [streamed EXCEPT ![idx] = Append(@, d0)]
    BY <1>2, <1>5
  <2>2. d0 \in Streamed
    <3>1. Bytes(win[idx]) \in Seq(Tags \cup {Junk})
      BY <1>1, <1>3, BytesType DEF IInv
    <3>2. cycle_id \in 0 .. MaxCycle
      BY DEF IInv, TypeOK
    <3>. QED
      BY <3>1, <3>2 DEF Streamed
  <2>3. d0.fresh => \A b \in 1 .. Len(d0.data) : d0.data[b] = <<d0.cyc, idx>>
    <3>. SUFFICES ASSUME idx \in bufd, NEW b \in 1 .. Len(Bytes(win[idx]))
                  PROVE  Bytes(win[idx])[b] = <<cycle_id, idx>>
      OBVIOUS
    <3>1. win[idx] \in Window
      BY <1>1, <1>3
    <3>2. Bytes(win[idx]) \in Seq(Tags \cup {Junk})
      BY <3>1, BytesType DEF IInv
    <3>3. /\ win[idx].beg <= win[idx].end
          /\ \A o \in win[idx].beg .. win[idx].end - 1 : mem[o] = <<cycle_id, idx>>
      BY <1>1 DEF WindowsOwn
    <3>4. DOMAIN Bytes(win[idx]) = 1 .. (win[idx].end - win[idx].beg)
      BY DEF Bytes
    <3>5. b \in 1 .. (win[idx].end - win[idx].beg)
      BY <3>2, <3>4, LenProperties
    <3>6. Bytes(win[idx])[b] = mem[win[idx].beg + b - 1]
      BY <3>5 DEF Bytes
    <3>7. win[idx].beg + b - 1 \in win[idx].beg .. win[idx].end - 1
      BY <3>1, <3>5 DEF Window
    <3>. QED
      BY <3>3, <3>6, <3>7
  <2>4. ASSUME NEW s \in Slots, NEW k \in 1 .. Len(streamed'[s])
        PROVE  streamed'[s][k].fresh =>
                  \A b \in 1 .. Len(streamed'[s][k].data) :
                     streamed'[s][k].data[b] = <<streamed'[s][k].cyc, s>>
    <3>1. CASE s # idx
      BY <3>1, <2>1, <1>3 DEF OwnDataStreamed
    <3>2. CASE s = idx
      <4>1. streamed'[s] = Append(streamed[s], d0)
        BY <3>2, <2>1, <1>1, <1>3
      <4>2. /\ Len(streamed'[s]) = Len(streamed[s]) + 1
            /\ \A i \in 1 .. Len(streamed[s]) : streamed'[s][i] = streamed[s][i]
            /\ streamed'[s][Len(streamed[s]) + 1] = d0
        BY <4>1, <2>2, <1>3, AppendProperties
      <4>3. CASE k <= Len(streamed[s])
        <5>1. k \in 1 .. Len(streamed[s])
          BY <4>2, <4>3, <1>3, LenProperties
        <5>2. streamed[s][k].fresh =>
                 \A b \in 1 .. Len(streamed[s][k].data) :
                    streamed[s][k].data[b] = <<streamed[s][k].cyc, s>>
          BY <5>1 DEF OwnDataStreamed
        <5>. QED
          BY <5>1, <5>2, <4>2
      <4>4. CASE k = Len(streamed[s]) + 1
        BY <4>2, <4>4, <2>3, <3>2
      <4>5. Len(streamed[s]) \in Nat /\ k \in 1 .. Len(streamed[s]) + 1
        BY <4>2, <1>3, LenProperties
      <4>. QED
        BY <4>3, <4>4, <4>5
    <3>. QED
      BY <3>1, <3>2
  <2>. QED
    BY <2>4 DEF OwnDataStreamed
<1>. QED
  BY <1>4, <1>5

LEMMA NextOwn ==
    ASSUME IInv, WindowsOwn, OwnDataStreamed, [Next]_vars
    PROVE  WindowsOwn' /\ OwnDataStreamed'
<1>1. CASE LoopTop
  BY <1>1 DEF LoopTop, WindowsOwn, OwnDataStreamed
<1>2a. CASE WaitStart
  BY <1>2a DEF WaitStart, WindowsOwn, OwnDataStreamed
<1>2b. CASE CheckStart
  BY <1>2b DEF CheckStart, WindowsOwn, OwnDataStreamed
<1>2c. CASE WaitReady
  BY <1>2c DEF WaitReady, WindowsOwn, OwnDataStreamed
<1>2d. CASE CheckReady
  BY <1>2d DEF CheckReady, WindowsOwn, OwnDataStreamed
<1>3. CASE SkipInactive
  <2>1. idx \in 0 .. NbRfm /\ \A s \in bufd : s \in Nat
    BY DEF IInv, TypeOK, Slots
  <2>2. /\ idx' = idx + 1
        /\ UNCHANGED <<pc, bufd, win, mem, fill, cycle_id, streamed>>
    BY <1>3 DEF SkipInactive
  <2>3. WindowsOwn'
    <3>1. pc' = "buffer" => \A s \in bufd' : s < idx'
      BY <2>1, <2>2 DEF WindowsOwn
    <3>. QED
      BY <2>2, <3>1 DEF WindowsOwn
  <2>4. OwnDataStreamed'
    BY <2>2 DEF OwnDataStreamed
  <2>. QED
    BY <2>3, <2>4
<1>4. CASE DaqWriteDif
  BY <1>4, WriteDifOwn DEF DaqWriteDif, OwnDataStreamed
<1>5. CASE FifoAck
  BY <1>5 DEF FifoAck, WindowsOwn, OwnDataStreamed
<1>6. CASE DaqSendDif
  BY <1>6, SendDifOwn DEF DaqSendDif, WindowsOwn
<1>7. CASE CycleEnd
  BY <1>7 DEF CycleEnd, WindowsOwn, OwnDataStreamed
<1>8a. CASE DeviceStopLoop
  BY <1>8a DEF DeviceStopLoop, WindowsOwn, OwnDataStreamed
<1>8b. CASE HwTrigger
  BY <1>8b DEF HwTrigger, WindowsOwn, OwnDataStreamed
<1>8c. CASE HwFifoReady
  BY <1>8c DEF HwFifoReady, WindowsOwn, OwnDataStreamed
<1>8d. CASE UNCHANGED vars
  BY <1>8d DEF vars, WindowsOwn, OwnDataStreamed
<1>. QED
  BY <1>1, <1>2a, <1>2b, <1>2c, <1>2d, <1>3, <1>4, <1>5, <1>6, <1>7,
     <1>8a, <1>8b, <1>8c, <1>8d DEF Next, Loop, Hardware

(* A payload a DIF acknowledged in a cycle in which its module was        *)
(* buffered is that module's data of that cycle: the window               *)
(* device_daq_write_dif set survives the other modules' buffering and is  *)
(* what device_daq_send_dif sends.                                        *)
THEOREM OwnDataCorrect == Spec => []OwnDataStreamed
<1>1. Init => IInv /\ WindowsOwn /\ OwnDataStreamed
  BY InitIInv DEF Init, WindowsOwn, OwnDataStreamed
<1>2. IInv /\ WindowsOwn /\ OwnDataStreamed /\ [Next]_vars
        => (IInv /\ WindowsOwn /\ OwnDataStreamed)'
  BY NextIInv, NextOwn
<1>. QED
  BY <1>1, <1>2, PTL DEF Spec

-----------------------------------------------------------------------------
(* The file holds earlier cycles only, except between DAQ_write_buffer    *)
(* and cycle_id++; while the loop buffers, the filled part of the cycle   *)
(* buffer holds this cycle's bytes of active modules the for-loop has     *)
(* passed, in ascending slot order.                                       *)
FileOrder ==
    /\ \A i \in 1 .. Len(daq_file) :
          \/ daq_file[i][1] < cycle_id
          \/ pc = "send" /\ daq_file[i][1] = cycle_id
    /\ pc = "buffer" =>
         /\ \A k \in 0 .. fill - 1 :
               mem[k][1] = cycle_id /\ mem[k][2] \in rfm_on /\ mem[k][2] < idx
         /\ \A k1, k2 \in 0 .. fill - 1 : k1 < k2 => mem[k1][2] <= mem[k2][2]

(* A buffer byte with an active module's tag is that tag.                 *)
LEMMA ActiveTag ==
    ASSUME TypeOK, NEW o \in Offsets, mem[o][1] \in 0 .. MaxCycle,
           mem[o][2] \in rfm_on
    PROVE  mem[o] \in (0 .. MaxCycle) \X rfm_on
<1>1. mem[o] \in Tags \cup {Junk}
  BY DEF TypeOK
<1>2. mem[o] # Junk
  BY DEF TypeOK, Junk, Slots
<1>3. mem[o] \in (0 .. MaxCycle) \X Slots
  BY <1>1, <1>2 DEF Tags
<1>. QED
  BY <1>3

(* DAQ_write_buffer appends the filled part of the buffer, this cycle's   *)
(* bytes in slot order, after earlier cycles' bytes.                      *)
LEMMA FifoAckOrder ==
    ASSUME IInv, FileOrder, FileInCycleOrder, FifoAck
    PROVE  FileOrder' /\ FileInCycleOrder'
<1>1. /\ pc = "buffer" /\ pc' = "send" /\ cycle_id' = cycle_id
      /\ mem' = mem /\ fill' = fill /\ rfm_on' = rfm_on
      /\ daq_file' = IF TrigMode = 0 THEN daq_file \o Filled ELSE daq_file
  BY DEF FifoAck
<1>2. /\ fill \in 0 .. BufSize /\ cycle_id \in 0 .. MaxCycle
      /\ daq_file \in Seq(Tags \cup {Junk}) /\ rfm_on \subseteq Slots
  BY DEF IInv, TypeOK
<1>3. \A i \in 1 .. Len(daq_file) : daq_file[i][1] < cycle_id
  BY <1>1 DEF FileOrder
<1>4. CASE TrigMode # 0
  BY <1>1, <1>3, <1>4 DEF FileOrder, FileInCycleOrder
<1>5. CASE TrigMode = 0
  <2> DEFINE L == Len(daq_file)
  <2>1. Filled \in Seq(Tags \cup {Junk}) /\ Len(Filled) = fill
    <3>1. Filled \in Seq(Tags \cup {Junk})
      BY FilledType DEF IInv
    <3>2. DOMAIN Filled = 1 .. fill
      BY DEF Filled
    <3>. QED
      BY <3>1, <3>2, <1>2, LenProperties
  <2>2. /\ Len(daq_file') = L + fill
        /\ \A i \in 1 .. L + fill :
              daq_file'[i] = IF i <= L THEN daq_file[i] ELSE mem[i - L - 1]
    <3>1. daq_file' = daq_file \o Filled
      BY <1>1, <1>5
    <3>2. \A i \in 1 .. L + fill : i > L => Filled[i - L] = mem[i - L - 1]
      BY <1>2, LenProperties DEF Filled
    <3>3. /\ Len(daq_file \o Filled) = L + Len(Filled)
          /\ \A i \in 1 .. L + Len(Filled) :
                (daq_file \o Filled)[i] =
                   IF i <= L THEN daq_file[i] ELSE Filled[i - L]
      BY <2>1, <1>2, ConcatProperties
    <3>4. Len(daq_file') = L + fill
      BY <3>1, <3>3, <2>1
    <3>5. ASSUME NEW i \in 1 .. L + fill
          PROVE  daq_file'[i] = IF i <= L THEN daq_file[i] ELSE mem[i - L - 1]
      <4>1. (daq_file \o Filled)[i] = IF i <= L THEN daq_file[i] ELSE Filled[i - L]
        BY <3>3, <2>1
      <4>2. i > L => Filled[i - L] = mem[i - L - 1]
        BY <3>2
      <4>. QED
        BY <3>1, <4>1, <4>2
    <3>. QED
      BY <3>4, <3>5
  <2>3. \A k \in 0 .. fill - 1 :
           mem[k][1] = cycle_id /\ mem[k][2] \in rfm_on
    BY <1>1 DEF FileOrder
  <2>4. \A k1, k2 \in 0 .. fill - 1 : k1 < k2 => mem[k1][2] <= mem[k2][2]
    BY <1>1 DEF FileOrder
  <2>5. \A i \in 1 .. L : daq_file[i] \in (0 .. MaxCycle) \X rfm_on
    BY DEF FileInCycleOrder
  <2>6. \A k \in 0 .. fill - 1 : mem[k] \in (0 .. MaxCycle) \X rfm_on
    BY <2>3, <1>2, ActiveTag DEF IInv, Offsets
  <2>7. L \in Nat
    BY <1>2, LenProperties
  <2>8. \A i \in 1 .. L + fill : daq_file'[i] \in (0 .. MaxCycle) \X rfm_on
    BY <2>2, <2>5, <2>6, <2>7, <1>2
  <2>9. \A i \in 1 .. L + fill :
           \/ daq_file'[i][1] < cycle_id
           \/ daq_file'[i][1] = cycle_id
    BY <2>2, <1>3, <2>3, <2>7, <1>2
  <2>10. ASSUME NEW i \in 1 .. L + fill, NEW j \in 1 .. L + fill, i < j
         PROVE  TagLeq(daq_file'[i], daq_file'[j])
    <3>1. CASE j <= L
      <4>1. TagLeq(daq_file[i], daq_file[j])
        BY <3>1, <2>10, <2>7, <1>2 DEF FileInCycleOrder
      <4>. QED
        BY <4>1, <3>1, <2>2, <2>10, <2>7, <1>2
    <3>2. CASE i <= L /\ j > L
      <4>1. daq_file'[i][1] < cycle_id /\ daq_file'[j][1] = cycle_id
        BY <3>2, <2>2, <1>3, <2>3, <2>7, <1>2
      <4>. QED
        BY <4>1 DEF TagLeq
    <3>3. CASE i > L
      <4>1. daq_file'[i] = mem[i - L - 1] /\ daq_file'[j] = mem[j - L - 1]
        BY <3>3, <2>2, <2>10, <2>7, <1>2
      <4>2. i - L - 1 \in 0 .. fill - 1 /\ j - L - 1 \in 0 .. fill - 1
            /\ i - L - 1 < j - L - 1
        BY <3>3, <2>10, <2>7, <1>2
      <4>3. mem[i - L - 1][1] = mem[j - L - 1][1]
            /\ mem[i - L - 1][2] <= mem[j - L - 1][2]
        BY <4>2, <2>3, <2>4
      <4>. QED
        BY <4>1, <4>3 DEF TagLeq
    <3>. QED
      BY <3>1, <3>2, <3>3, <2>7, <1>2
  <2>11. FileInCycleOrder'
    BY <2>2, <2>8, <2>10, <1>1 DEF FileInCycleOrder
  <2>12. FileOrder'
    BY <2>2, <2>9, <1>1 DEF FileOrder
  <2>. QED
    BY <2>11, <2>12
<1>. QED
  BY <1>4, <1>5

(* device_daq_write_dif puts the module's bytes after those of the lower  *)
(* slots buffered before it.                                              *)
LEMMA WriteDifOrder ==
    ASSUME IInv, FileOrder, DaqWriteDif
    PROVE  FileOrder'
<1>1. PICK len \in 0 .. MaxSeg :
          /\ mem' = [o \in Offsets |->
                       IF fill <= o /\ o < fill + len
                       THEN <<cycle_id, idx>> ELSE mem[o]]
          /\ fill' = fill + len
  BY DEF DaqWriteDif
<1>2. /\ idx \in Slots /\ idx \in rfm_on /\ pc = "buffer" /\ pc' = "buffer"
      /\ cycle_id' = cycle_id /\ daq_file' = daq_file /\ rfm_on' = rfm_on
      /\ idx' \in {NbRfm, idx + 1} /\ idx < idx'
  BY DEF DaqWriteDif, Slots, IInv, TypeOK
<1>3. fill + len <= BufSize /\ fill \in 0 .. BufSize
  BY <1>2, WriteDifBound DEF IInv, TypeOK
<1>4. \A k \in 0 .. fill - 1 :
         mem[k][1] = cycle_id /\ mem[k][2] \in rfm_on /\ mem[k][2] < idx
  BY <1>2 DEF FileOrder
<1>5. \A k1, k2 \in 0 .. fill - 1 : k1 < k2 => mem[k1][2] <= mem[k2][2]
  BY <1>2 DEF FileOrder
<1>6. /\ \A k \in 0 .. fill - 1 : mem'[k] = mem[k]
      /\ \A k \in fill .. fill + len - 1 : mem'[k] = <<cycle_id, idx>>
  BY <1>1, <1>3 DEF Offsets
<1>0. rfm_on \subseteq Slots /\ fill' = fill + len
  BY <1>1 DEF IInv, TypeOK
<1>7. ASSUME NEW k \in 0 .. fill' - 1
      PROVE  mem'[k][1] = cycle_id /\ mem'[k][2] \in rfm_on /\ mem'[k][2] < idx'
  <2>1. CASE k < fill
    <3>1. k \in 0 .. fill - 1 /\ mem'[k] = mem[k]
      BY <2>1, <1>6, <1>3
    <3>2. mem[k][1] = cycle_id /\ mem[k][2] \in rfm_on /\ mem[k][2] < idx
      BY <3>1, <1>4
    <3>3. mem[k][2] \in Slots
      BY <3>2, <1>0
    <3>. QED
      BY <3>1, <3>2, <3>3, <1>2 DEF Slots
  <2>2. CASE k >= fill
    <3>1. k \in fill .. fill + len - 1
      BY <2>2, <1>0, <1>3
    <3>. QED
      BY <3>1, <1>6, <1>2
  <2>. QED
    BY <2>1, <2>2, <1>0, <1>3
<1>8. ASSUME NEW k1 \in 0 .. fill' - 1, NEW k2 \in 0 .. fill' - 1, k1 < k2
      PROVE  mem'[k1][2] <= mem'[k2][2]
  <2>1. CASE k2 < fill
    BY <2>1, <1>8, <1>5, <1>6, <1>3
  <2>2. CASE k1 < fill /\ k2 >= fill
    <3>1. k2 \in fill .. fill + len - 1 /\ k1 \in 0 .. fill - 1
      BY <2>2, <1>0, <1>3
    <3>2. mem'[k2][2] = idx /\ mem'[k1][2] = mem[k1][2]
      BY <3>1, <1>6
    <3>3. mem[k1][2] < idx /\ mem[k1][2] \in Slots
      BY <3>1, <1>4, <1>0
    <3>. QED
      BY <3>2, <3>3, <1>2 DEF Slots
  <2>3. CASE k1 >= fill
    <3>1. k2 \in fill .. fill + len - 1 /\ k1 \in fill .. fill + len - 1
      BY <2>3, <1>8, <1>0, <1>3
    <3>2. mem'[k2][2] = idx /\ mem'[k1][2] = idx
      BY <3>1, <1>6
    <3>. QED
      BY <3>2, <1>2 DEF Slots
  <2>. QED
    BY <2>1, <2>2, <2>3, <1>1, <1>3
<1>9. \A i \in 1 .. Len(daq_file') :
         \/ daq_file'[i][1] < cycle_id'
         \/ pc' = "send" /\ daq_file'[i][1] = cycle_id'
  BY <1>2 DEF FileOrder
<1>. QED
  BY <1>2, <1>7, <1>8, <1>9 DEF FileOrder

LEMMA NextOrder ==
    ASSUME IInv, FileOrder, FileInCycleOrder, [Next]_vars
    PROVE  FileOrder' /\ FileInCycleOrder'
<1>1. cycle_id \in 0 .. MaxCycle /\ daq_file \in Seq(Tags \cup {Junk})
  BY DEF IInv, TypeOK
<1>2. CASE LoopTop
  BY <1>2 DEF LoopTop, FileOrder, FileInCycleOrder
<1>3a. CASE WaitStart
  BY <1>3a DEF WaitStart, FileOrder, FileInCycleOrder
<1>3b. CASE CheckStart
  BY <1>3b DEF CheckStart, FileOrder, FileInCycleOrder
<1>3c. CASE WaitReady
  BY <1>3c DEF WaitReady, FileOrder, FileInCycleOrder
<1>3d. CASE CheckReady
  <2>1. pc = "chk_ready" /\ fill = 0
    BY <1>3d DEF CheckReady, IInv, FillBound
  <2>. QED
    BY <1>3d, <2>1 DEF CheckReady, FileOrder, FileInCycleOrder
<1>4. CASE SkipInactive
  <2>1. idx \in 0 .. NbRfm /\ rfm_on \subseteq Slots
    BY DEF IInv, TypeOK
  <2>2. FileInCycleOrder'
    BY <1>4 DEF SkipInactive, FileInCycleOrder
  <2>3. (\A i \in 1 .. Len(daq_file') :
           \/ daq_file'[i][1] < cycle_id'
           \/ pc' = "send" /\ daq_file'[i][1] = cycle_id')
    BY <1>4 DEF SkipInactive, FileOrder
  <2>4. pc' = "buffer" =>
         /\ \A k \in 0 .. fill' - 1 :
               mem'[k][1] = cycle_id' /\ mem'[k][2] \in rfm_on' /\ mem'[k][2] < idx'
         /\ \A k1, k2 \in 0 .. fill' - 1 : k1 < k2 => mem'[k1][2] <= mem'[k2][2]
    <3>. SUFFICES ASSUME pc' = "buffer"
                  PROVE  /\ \A k \in 0 .. fill' - 1 :
                              mem'[k][1] = cycle_id' /\ mem'[k][2] \in rfm_on'
                              /\ mem'[k][2] < idx'
                         /\ \A k1, k2 \in 0 .. fill' - 1 :
                              k1 < k2 => mem'[k1][2] <= mem'[k2][2]
      OBVIOUS
    <3>1. /\ pc = "buffer" /\ mem' = mem /\ fill' = fill /\ idx' = idx + 1
          /\ cycle_id' = cycle_id /\ rfm_on' = rfm_on
      BY <1>4 DEF SkipInactive
    <3>2. /\ \A k \in 0 .. fill - 1 :
               mem[k][1] = cycle_id /\ mem[k][2] \in rfm_on /\ mem[k][2] < idx
          /\ \A k1, k2 \in 0 .. fill - 1 : k1 < k2 => mem[k1][2] <= mem[k2][2]
      BY <3>1 DEF FileOrder
    <3>3. ASSUME NEW k \in 0 .. fill - 1 PROVE mem[k][2] < idx + 1
      <4>1. mem[k][2] \in Slots /\ mem[k][2] < idx
        BY <3>2, <2>1
      <4>. QED
        BY <4>1, <2>1 DEF Slots
    <3>. QED
      BY <3>1, <3>2, <3>3
  <2>. QED
    BY <2>2, <2>3, <2>4 DEF FileOrder
<1>5. CASE DaqWriteDif
  BY <1>5, WriteDifOrder DEF DaqWriteDif, FileInCycleOrder
<1>6. CASE FifoAck
  BY <1>6, FifoAckOrder
<1>7. CASE DaqSendDif
  BY <1>7 DEF DaqSendDif, FileOrder, FileInCycleOrder
<1>8. CASE CycleEnd
  <2>1. \A i \in 1 .. Len(daq_file) : daq_file[i][1] \in Int
    BY <1>1 DEF FileInCycleOrder
  <2>. QED
    BY <1>8, <1>1, <2>1 DEF CycleEnd, FileOrder, FileInCycleOrder
<1>9a. CASE DeviceStopLoop
  BY <1>9a DEF DeviceStopLoop, FileOrder, FileInCycleOrder
<1>9b. CASE HwTrigger
  BY <1>9b DEF HwTrigger, FileOrder, FileInCycleOrder
<1>9c. CASE HwFifoReady
  BY <1>9c DEF HwFifoReady, FileOrder, FileInCycleOrder
<1>9d. CASE UNCHANGED vars
  BY <1>9d DEF vars, FileOrder, FileInCycleOrder
<1>. QED
  BY <1>2, <1>3a, <1>3b, <1>3c, <1>3d, <1>4, <1>5, <1>6, <1>7, <1>8,
     <1>9a, <1>9b, <1>9c, <1>9d DEF Next, Loop, Hardware

(* The raw file holds only active modules' data, cycle after cycle and in *)
(* ascending slot order within a cycle (the DAQ_reset_buffer and          *)
(* DAQ_write_buffer pairing of device_loop_dcc; the soft loop writes      *)
(* nothing).                                                              *)
THEOREM FileOrdered == Spec => []FileInCycleOrder
<1>1. Init => IInv /\ FileOrder /\ FileInCycleOrder
  BY InitIInv DEF Init, FileOrder, FileInCycleOrder
<1>2. IInv /\ FileOrder /\ FileInCycleOrder /\ [Next]_vars
        => (IInv /\ FileOrder /\ FileInCycleOrder)'
  BY NextIInv, NextOrder
<1>. QED
  BY <1>1, <1>2, PTL DEF Spec

-----------------------------------------------------------------------------
InFile(t) == \E i \in 1 .. Len(daq_file) : daq_file[i] = t

(* Dcc mode: every window covers bytes some module wrote, and every byte  *)
(* written to the buffer is in the file, except those of the cycle being  *)
(* buffered, below the write pointer and not yet written.                *)
Persist ==
    /\ \A s \in Slots : \A o \in win[s].beg .. win[s].end - 1 : mem[o] # Junk
    /\ \A o \in Offsets :
          (mem[o] # Junk /\ (pc = "buffer" => o >= fill)) => InFile(mem[o])

(* Appending to the file keeps what is in it.                             *)
LEMMA InFileConcat ==
    ASSUME NEW S, NEW f \in Seq(S), NEW g \in Seq(S), NEW t,
           \E i \in 1 .. Len(f) : f[i] = t
    PROVE  \E i \in 1 .. Len(f \o g) : (f \o g)[i] = t
<1>1. PICK i \in 1 .. Len(f) : f[i] = t
  OBVIOUS
<1>2. Len(f \o g) = Len(f) + Len(g) /\ (f \o g)[i] = f[i]
  BY ConcatProperties, LenProperties
<1>. QED
  BY <1>1, <1>2, LenProperties

(* A tag is not the byte Junk.                                            *)
LEMMA TagNotJunk ==
    ASSUME NEW c, NEW s \in Slots
    PROVE  <<c, s>> # Junk
BY DEF Slots, Junk

LEMMA WriteDifPersist ==
    ASSUME IInv, Persist, DaqWriteDif
    PROVE  Persist'
<1>1. PICK len \in 0 .. MaxSeg :
          /\ mem' = [o \in Offsets |->
                       IF fill <= o /\ o < fill + len
                       THEN <<cycle_id, idx>> ELSE mem[o]]
          /\ win' = [win EXCEPT ![idx] = [beg |-> fill, end |-> fill + len]]
          /\ fill' = fill + len
  BY DEF DaqWriteDif
<1>2. /\ idx \in Slots /\ pc = "buffer" /\ pc' = "buffer"
      /\ daq_file' = daq_file
  BY DEF DaqWriteDif, IInv, TypeOK
<1>3. /\ fill + len <= BufSize /\ fill \in 0 .. BufSize
      /\ win \in [Slots -> Window]
  BY <1>2, WriteDifBound DEF IInv, TypeOK
<1>4. \A o \in fill .. fill + len - 1 : o \in Offsets /\ mem'[o] # Junk
  BY <1>1, <1>2, <1>3, TagNotJunk DEF Offsets
<1>5. \A o \in Offsets : mem[o] # Junk => mem'[o] # Junk
  BY <1>1, <1>2, TagNotJunk
<1>6. ASSUME NEW s \in Slots, NEW o \in win'[s].beg .. win'[s].end - 1
      PROVE  mem'[o] # Junk
  <2>1. CASE s = idx
    <3>1. win'[s] = [beg |-> fill, end |-> fill + len]
      BY <2>1, <1>1, <1>2, <1>3
    <3>2. o \in fill .. fill + len - 1
      BY <3>1, <1>3
    <3>. QED
      BY <3>2, <1>4
  <2>2. CASE s # idx
    <3>1. win'[s] = win[s] /\ win[s] \in Window
      BY <2>2, <1>1, <1>3
    <3>2. o \in Offsets /\ mem[o] # Junk
      BY <3>1 DEF Persist, Window, Offsets
    <3>. QED
      BY <3>2, <1>5
  <2>. QED
    BY <2>1, <2>2
<1>7. ASSUME NEW o \in Offsets, mem'[o] # Junk, o >= fill'
      PROVE  \E i \in 1 .. Len(daq_file') : daq_file'[i] = mem'[o]
  <2>1. o >= fill /\ mem'[o] = mem[o]
    BY <1>7, <1>1, <1>3 DEF Offsets
  <2>. QED
    BY <2>1, <1>7, <1>2 DEF Persist, InFile
<1>. QED
  BY <1>6, <1>7, <1>2 DEF Persist, InFile

LEMMA FifoAckPersist ==
    ASSUME IInv, Persist, StreamedPersisted, FifoAck, TrigMode = 0
    PROVE  Persist' /\ StreamedPersisted'
<1>1. /\ pc = "buffer" /\ pc' = "send" /\ mem' = mem /\ fill' = fill
      /\ win' = win /\ streamed' = streamed
      /\ daq_file' = daq_file \o Filled
  BY DEF FifoAck
<1>2. /\ fill \in 0 .. BufSize /\ daq_file \in Seq(Tags \cup {Junk})
      /\ Filled \in Seq(Tags \cup {Junk})
  BY FilledType DEF IInv, TypeOK
<1>3. ASSUME NEW t, \E i \in 1 .. Len(daq_file) : daq_file[i] = t
      PROVE  \E i \in 1 .. Len(daq_file') : daq_file'[i] = t
  BY <1>1, <1>2, <1>3, InFileConcat
<1>4. ASSUME NEW o \in Offsets, o < fill
      PROVE  InFile(mem[o])'
  <2> DEFINE L == Len(daq_file)
  <2>1. L \in Nat /\ Len(Filled) = fill /\ Filled[o + 1] = mem[o]
    <3>1. DOMAIN Filled = 1 .. fill
      BY DEF Filled
    <3>. QED
      BY <3>1, <1>2, <1>4, LenProperties DEF Filled, Offsets
  <2>0. /\ Len(daq_file \o Filled) = L + Len(Filled)
        /\ \A i \in 1 .. L + Len(Filled) :
              (daq_file \o Filled)[i] =
                 IF i <= L THEN daq_file[i] ELSE Filled[i - L]
    BY <1>2, ConcatProperties
  <2>2. /\ Len(daq_file') = L + fill
        /\ daq_file'[L + o + 1] = Filled[o + 1]
    BY <1>1, <1>4, <2>0, <2>1 DEF Offsets
  <2>3. L + o + 1 \in 1 .. Len(daq_file')
    BY <2>1, <2>2, <1>4 DEF Offsets
  <2>. QED
    BY <2>1, <2>2, <2>3, <1>1 DEF InFile
<1>5. ASSUME NEW o \in Offsets, mem[o] # Junk
      PROVE  InFile(mem[o])'
  <2>1. CASE o < fill
    BY <2>1, <1>4
  <2>2. CASE o >= fill
    <3>1. \E i \in 1 .. Len(daq_file) : daq_file[i] = mem[o]
      BY <2>2, <1>5, <1>1 DEF Persist, InFile
    <3>. QED
      BY <3>1, <1>3, <1>1 DEF InFile
  <2>. QED
    BY <2>1, <2>2, <1>2 DEF Offsets
<1>6. ASSUME NEW s \in Slots, NEW k \in 1 .. Len(streamed'[s]),
             NEW b \in 1 .. Len(streamed'[s][k].data)
      PROVE  \E i \in 1 .. Len(daq_file') :
                daq_file'[i] = streamed'[s][k].data[b]
  <2>1. \E i \in 1 .. Len(daq_file) : daq_file[i] = streamed[s][k].data[b]
    BY <1>1 DEF StreamedPersisted
  <2>. QED
    BY <2>1, <1>3, <1>1
<1>7. StreamedPersisted'
  BY <1>6 DEF StreamedPersisted
<1>. QED
  BY <1>1, <1>5, <1>7 DEF Persist


LEMMA SendDifPersist ==
    ASSUME IInv, Persist, StreamedPersisted, DaqSendDif
    PROVE  Persist' /\ StreamedPersisted'
<1>1. /\ pc = "send" /\ idx \in Slots
      /\ UNCHANGED <<pc, mem, fill, win, daq_file>>
      /\ streamed \in [Slots -> Seq(Streamed)] /\ win \in [Slots -> Window]
  BY DEF DaqSendDif, IInv, TypeOK, Slots
<1>2. Persist'
  BY <1>1 DEF Persist, InFile
<1>3. PICK err \in Results :
          streamed' =
               IF err = 0
               THEN [streamed EXCEPT ![idx] =
                       Append(@, [cyc |-> cycle_id, data |-> Bytes(win[idx]),
                                  fresh |-> idx \in bufd])]
               ELSE streamed
  BY DEF DaqSendDif
<1>4. ASSUME NEW b \in 1 .. Len(Bytes(win[idx]))
      PROVE  \E i \in 1 .. Len(daq_file) : daq_file[i] = Bytes(win[idx])[b]
  <2>1. win[idx] \in Window
    BY <1>1
  <2>2. Bytes(win[idx]) \in Seq(Tags \cup {Junk})
    BY <2>1, BytesType DEF IInv
  <2>3. DOMAIN Bytes(win[idx]) = 1 .. (win[idx].end - win[idx].beg)
    BY DEF Bytes
  <2>4. b \in 1 .. (win[idx].end - win[idx].beg)
    BY <2>2, <2>3, LenProperties
  <2>5. Bytes(win[idx])[b] = mem[win[idx].beg + b - 1]
    BY <2>4 DEF Bytes
  <2>6. /\ win[idx].beg + b - 1 \in win[idx].beg .. win[idx].end - 1
        /\ win[idx].beg + b - 1 \in Offsets
    BY <2>1, <2>4 DEF Window, Offsets
  <2>7. mem[win[idx].beg + b - 1] # Junk
    BY <2>6, <1>1 DEF Persist
  <2>. QED
    BY <2>5, <2>6, <2>7, <1>1 DEF Persist, InFile
<1>5. ASSUME NEW s \in Slots, NEW k \in 1 .. Len(streamed'[s]),
             NEW b \in 1 .. Len(streamed'[s][k].data)
      PROVE  \E i \in 1 .. Len(daq_file') :
                daq_file'[i] = streamed'[s][k].data[b]
  <2>1. CASE err # 0 \/ s # idx
    <3>1. streamed'[s] = streamed[s]
      BY <2>1, <1>1, <1>3
    <3>2. /\ k \in 1 .. Len(streamed[s])
          /\ b \in 1 .. Len(streamed[s][k].data)
          /\ streamed'[s][k].data[b] = streamed[s][k].data[b]
      BY <3>1
    <3>3. \E i \in 1 .. Len(daq_file) : daq_file[i] = streamed[s][k].data[b]
      BY <3>2 DEF StreamedPersisted
    <3>4. daq_file' = daq_file
      BY <1>1
    <3>. QED
      BY <3>2, <3>3, <3>4
  <2>2. CASE err = 0 /\ s = idx
    <3> DEFINE d0 == [cyc |-> cycle_id, data |-> Bytes(win[idx]),
                      fresh |-> idx \in bufd]
    <3>1. streamed'[s] = Append(streamed[s], d0)
      BY <2>2, <1>1, <1>3
    <3>2. /\ Len(streamed'[s]) = Len(streamed[s]) + 1
          /\ \A i \in 1 .. Len(streamed[s]) : streamed'[s][i] = streamed[s][i]
          /\ streamed'[s][Len(streamed[s]) + 1] = d0
      <4> HIDE DEF d0
      <4>1. streamed[s] \in Seq(Streamed)
        BY <1>1
      <4>2. /\ Len(Append(streamed[s], d0)) = Len(streamed[s]) + 1
            /\ \A i \in 1 .. Len(streamed[s]) :
                  Append(streamed[s], d0)[i] = streamed[s][i]
            /\ Append(streamed[s], d0)[Len(streamed[s]) + 1] = d0
        BY <4>1, AppendAny
      <4>. QED
        BY <3>1, <4>2
    <3>3. CASE k <= Len(streamed[s])
      <4>1. k \in 1 .. Len(streamed[s])
        BY <3>2, <3>3, <1>1, LenProperties
      <4>2. /\ b \in 1 .. Len(streamed[s][k].data)
            /\ streamed'[s][k].data[b] = streamed[s][k].data[b]
        BY <4>1, <3>2
      <4>3. \E i \in 1 .. Len(daq_file) : daq_file[i] = streamed[s][k].data[b]
        BY <4>1, <4>2 DEF StreamedPersisted
      <4>4. daq_file' = daq_file
        BY <1>1
      <4>. QED
        BY <4>2, <4>3, <4>4
    <3>4. CASE k = Len(streamed[s]) + 1
      <4>1. streamed'[s][k].data = Bytes(win[idx])
        BY <3>2, <3>4
      <4>2. b \in 1 .. Len(Bytes(win[idx]))
        BY <4>1
      <4>3. daq_file' = daq_file
        BY <1>1
      <4>. QED
        BY <4>1, <4>2, <4>3, <1>4
    <3>5. Len(streamed[s]) \in Nat /\ k \in 1 .. Len(streamed[s]) + 1
      BY <3>2, <1>1, LenProperties
    <3>. QED
      BY <3>3, <3>4, <3>5
  <2>. QED
    BY <2>1, <2>2
<1>. QED
  BY <1>2, <1>5 DEF StreamedPersisted

(* A step that leaves the buffer, the windows, the file and the streams   *)
(* alone, and the write pointer too if the loop is buffering, keeps both.  *)
LEMMA PersistFrame ==
    ASSUME Persist, StreamedPersisted,
           UNCHANGED <<mem, win, daq_file, streamed>>,
           pc = "buffer" => pc' = "buffer" /\ fill' = fill
    PROVE  Persist' /\ StreamedPersisted'
<1>1. \A s \in Slots : \A o \in win'[s].beg .. win'[s].end - 1 : mem'[o] # Junk
  BY DEF Persist
<1>2. ASSUME NEW o \in Offsets, mem'[o] # Junk, pc' = "buffer" => o >= fill'
      PROVE  InFile(mem[o])'
  <2>1. InFile(mem[o])
    BY <1>2 DEF Persist
  <2>. QED
    BY <2>1 DEF InFile
<1>3. StreamedPersisted'
  BY DEF StreamedPersisted
<1>. QED
  BY <1>1, <1>2, <1>3 DEF Persist

LEMMA NextPersist ==
    ASSUME IInv, Persist, StreamedPersisted, [Next]_vars, TrigMode = 0
    PROVE  Persist' /\ StreamedPersisted'
<1>1. CASE LoopTop
  <2>1. /\ pc = "top" /\ pc' # "buffer"
        /\ UNCHANGED <<mem, win, daq_file, streamed>>
    BY <1>1 DEF LoopTop
  <2>. QED
    BY <2>1, PersistFrame
<1>2a. CASE WaitStart
  BY <1>2a, PersistFrame DEF WaitStart
<1>2b. CASE CheckStart
  BY <1>2b, PersistFrame DEF CheckStart
<1>2c. CASE WaitReady
  BY <1>2c, PersistFrame DEF WaitReady
<1>2d. CASE CheckReady
  BY <1>2d, PersistFrame DEF CheckReady
<1>3. CASE SkipInactive
  BY <1>3, PersistFrame DEF SkipInactive
<1>4. CASE DaqWriteDif
  <2>1. UNCHANGED <<daq_file, streamed>>
    BY <1>4 DEF DaqWriteDif
  <2>. QED
    BY <1>4, <2>1, WriteDifPersist DEF StreamedPersisted
<1>5. CASE FifoAck
  BY <1>5, FifoAckPersist
<1>6. CASE DaqSendDif
  BY <1>6, SendDifPersist
<1>7. CASE CycleEnd
  <2>1. /\ pc = "send" /\ pc' = "top"
        /\ UNCHANGED <<mem, fill, win, daq_file, streamed>>
    BY <1>7 DEF CycleEnd
  <2>. QED
    BY <2>1, PersistFrame
<1>8a. CASE DeviceStopLoop
  BY <1>8a, PersistFrame DEF DeviceStopLoop
<1>8b. CASE HwTrigger
  <2>1. UNCHANGED <<pc, mem, fill, win, daq_file, streamed>>
    BY <1>8b DEF HwTrigger
  <2>. QED
    BY <2>1, PersistFrame
<1>8c. CASE HwFifoReady
  BY <1>8c, PersistFrame DEF HwFifoReady
<1>8d. CASE UNCHANGED vars
  BY <1>8d, PersistFrame DEF vars
<1>. QED
  BY <1>1, <1>2a, <1>2b, <1>2c, <1>2d, <1>3, <1>4, <1>5, <1>6, <1>7,
     <1>8a, <1>8b, <1>8c, <1>8d DEF Next, Loop, Hardware

(* In dcc mode every byte a DIF acknowledged is already in the raw file:  *)
(* device_loop_dcc calls DAQ_write_buffer right after SYNC_fifo_ack and   *)
(* before the sending for-loop, and the bytes device_daq_send_dif reads   *)
(* are the ones the buffer held when it was written.  The soft loop has   *)
(* no DAQ_write_buffer, so the hypothesis TrigMode = 0 cannot be dropped. *)
THEOREM PersistedBeforeStreamed ==
    ASSUME TrigMode = 0
    PROVE  Spec => []StreamedPersisted
<1>1. Init => IInv /\ Persist /\ StreamedPersisted
  <2>. SUFFICES ASSUME Init PROVE IInv /\ Persist /\ StreamedPersisted
    OBVIOUS
  <2>1. IInv
    BY InitIInv
  <2>2. \A s \in Slots : win[s].beg .. win[s].end - 1 = {}
    BY DEF Init
  <2>3. \A o \in Offsets : mem[o] = Junk
    BY DEF Init
  <2>4. \A s \in Slots : Len(streamed[s]) = 0
    BY DEF Init
  <2>. QED
    BY <2>1, <2>2, <2>3, <2>4 DEF Persist, StreamedPersisted
<1>2. IInv /\ Persist /\ StreamedPersisted /\ [Next]_vars
        => (IInv /\ Persist /\ StreamedPersisted)'
  BY NextIInv, NextPersist
<1>. QED
  BY <1>1, <1>2, PTL DEF Spec

-----------------------------------------------------------------------------
(* While the buffering for-loop runs uncancelled, the modules buffered in *)
(* this cycle are exactly the active ones it has passed.                  *)
BufdTrack ==
    (pc = "buffer" /\ g_state = 1) => bufd = {s \in rfm_on : s < idx}

LEMMA NextBufd ==
    ASSUME IInv, WindowsOwn, BufdTrack, [Next]_vars
    PROVE  BufdTrack'
<1>0. idx \in 0 .. NbRfm /\ \A s \in rfm_on : s \in Nat
  BY DEF IInv, TypeOK, Slots
<1>1. CASE LoopTop
  BY <1>1 DEF LoopTop, BufdTrack
<1>2a. CASE WaitStart
  BY <1>2a DEF WaitStart, BufdTrack
<1>2b. CASE CheckStart
  BY <1>2b DEF CheckStart, BufdTrack
<1>2c. CASE WaitReady
  BY <1>2c DEF WaitReady, BufdTrack
<1>2d. CASE CheckReady
  <2>1. bufd = {} /\ bufd' = bufd /\ idx' = 0 /\ UNCHANGED rfm_on
    BY <1>2d DEF CheckReady, WindowsOwn
  <2>2. {s \in rfm_on : s < 0} = {}
    <3>1. \A s \in rfm_on : ~(s < 0)
      BY <1>0
    <3>. QED
      BY <3>1
  <2>. QED
    BY <2>1, <2>2 DEF BufdTrack
<1>3. CASE SkipInactive
  <2>1. /\ idx \notin rfm_on /\ idx' = idx + 1
        /\ UNCHANGED <<pc, g_state, rfm_on, bufd>>
    BY <1>3 DEF SkipInactive
  <2>2. {s \in rfm_on : s < idx + 1} = {s \in rfm_on : s < idx}
    <3>1. \A s \in rfm_on : s < idx + 1 <=> s < idx
      BY <1>0, <2>1
    <3>. QED
      BY <3>1
  <2>. QED
    BY <2>1, <2>2 DEF BufdTrack
<1>4. CASE DaqWriteDif
  <2>1. /\ pc = "buffer" /\ idx \in rfm_on /\ bufd' = bufd \cup {idx}
        /\ UNCHANGED <<pc, g_state, rfm_on>>
        /\ idx' = IF g_state = 0 THEN NbRfm ELSE idx + 1
    BY <1>4 DEF DaqWriteDif
  <2>2. {s \in rfm_on : s < idx + 1} = {s \in rfm_on : s < idx} \cup {idx}
    <3>1. \A s \in rfm_on : s < idx + 1 <=> (s < idx \/ s = idx)
      BY <1>0, <2>1
    <3>2. idx \in rfm_on /\ ~(idx < idx)
      BY <1>0, <2>1
    <3>. QED
      BY <3>1, <3>2
  <2>. QED
    BY <2>1, <2>2 DEF BufdTrack
<1>5. CASE FifoAck
  BY <1>5 DEF FifoAck, BufdTrack
<1>6. CASE DaqSendDif
  BY <1>6 DEF DaqSendDif, BufdTrack
<1>7. CASE CycleEnd
  BY <1>7 DEF CycleEnd, BufdTrack
<1>8a. CASE DeviceStopLoop
  BY <1>8a DEF DeviceStopLoop, BufdTrack
<1>8b. CASE HwTrigger
  BY <1>8b DEF HwTrigger, BufdTrack
<1>8c. CASE HwFifoReady
  BY <1>8c DEF HwFifoReady, BufdTrack
<1>8d. CASE UNCHANGED vars
  BY <1>8d DEF vars, BufdTrack
<1>. QED
  BY <1>1, <1>2a, <1>2b, <1>2c, <1>2d, <1>3, <1>4, <1>5, <1>6, <1>7,
     <1>8a, <1>8b, <1>8c, <1>8d DEF Next, Loop, Hardware

(* The step from buffering to sending is SYNC_fifo_ack at the end of the  *)
(* for-loop; uncancelled, the loop has passed every slot.                 *)
LEMMA LeaveBufferComplete ==
    ASSUME IInv, BufdTrack, [Next]_vars, pc = "buffer", pc' = "send"
    PROVE  bufd = rfm_on \/ g_state = 0
<1>1. FifoAck
  BY DEF Next, Loop, Hardware, LoopTop, WaitStart, CheckStart, WaitReady,
         CheckReady, SkipInactive, DaqWriteDif, DaqSendDif, CycleEnd,
         DeviceStopLoop, HwTrigger, HwFifoReady, vars
<1>2. idx = NbRfm /\ rfm_on \subseteq Slots /\ g_state \in {0, 1}
  BY <1>1 DEF FifoAck, IInv, TypeOK
<1>3. {s \in rfm_on : s < NbRfm} = rfm_on
  <2>1. \A s \in rfm_on : s < NbRfm
    BY <1>2 DEF Slots
  <2>. QED
    BY <2>1
<1>. QED
  BY <1>2, <1>3 DEF BufdTrack

(* The buffering for-loop of the readout hands SYNC_fifo_ack and           *)
(* DAQ_write_buffer an incomplete cycle only after cancellation: the only *)
(* early exit is the "if (g_state == 0) break;", for every number of       *)
(* slots, segment size, cycle bound and trigger mode.                      *)
THEOREM CycleCompleteUnlessCancelled == Spec => CompleteUnlessCancelled
<1> DEFINE I == IInv /\ WindowsOwn /\ OwnDataStreamed /\ BufdTrack
<1>1. Init => I
  BY InitIInv DEF Init, WindowsOwn, OwnDataStreamed, BufdTrack
<1>2. I /\ [Next]_vars => I'
  BY NextIInv, NextOwn, NextBufd
<1>3. I /\ [Next]_vars =>
        [(pc = "buffer" /\ pc' = "send") => (bufd = rfm_on \/ g_state = 0)]_vars
  BY LeaveBufferComplete
<1>. QED
  BY <1>1, <1>2, <1>3, PTL DEF Spec, CompleteUnlessCancelled

=============================================================================

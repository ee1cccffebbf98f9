-------------------------- MODULE DifProtocol_proofs --------------------------
(***************************************************************************)
(* Proofs about the byte-level DIF exchange, for every number of cycles,  *)
(* set of payload sizes and set of ACK 4th bytes, and whatever faults the *)
(* constants let happen.                                                   *)
(***************************************************************************)
EXTENDS DifProtocol, SequenceTheorems, TLAPS

USE DifAssumption

(* A call of device_daq_send_dif is running from its header send to its  *)
(* return (or the SIGPIPE that ends the process): every call started has *)
(* a result except the running one.                                       *)
Shape ==
    /\ dpc = "idle" => Len(res) = Len(sizes)
    /\ dpc # "idle" => Len(res) + 1 = Len(sizes)

IInv == TypeOK /\ Shape

(* A link on which every recv returns all that is waiting (up to the 4   *)
(* asked for) and whose consumer ends every ACK with the NUL the code     *)
(* needs.  A signal may still cut a send short, and the link may reset.   *)
Faithful ==
    /\ Fourth = {"nul"}
    /\ ~ShortReads

(* The link of the refinement theorem: a faithful link that never resets. *)
Reliable == Faithful /\ ~Resets

(* The exchange each accepted payload belongs to: the abstract got.        *)
Got == [i \in 1 .. Len(accepted) |-> IdOf(accepted[i])]

(* On a reliable link, where device and consumer are in the exchange,     *)
(* and what is in flight between them, at each point of the call: one     *)
(* message at most, whole or, after a signal cut its send short, a prefix *)
(* the consumer waits on.                                                  *)
Channel ==
    /\ conn = "up" /\ xfail = FALSE /\ dpc # "killed"
    /\ dpc = "idle" => tx = << >> /\ rx = << >> /\ ppc = "hdr"
    /\ dpc = "hdr_ack" =>
          \/ /\ \E k \in 1 .. HdrLen : tx = SubSeq(Hdr(Cur, Size), 1, k)
             /\ rx = << >> /\ ppc = "hdr"
          \/ /\ tx = << >> /\ rx = Ack("nul") /\ pn = Size
             /\ ppc = IF Size > 0 THEN "data" ELSE "hdr"
    /\ dpc = "payload" =>
          tx = << >> /\ rx = << >> /\ ppc = "data" /\ pn = Size /\ Size > 0
    /\ dpc = "data_ack" =>
          /\ Size > 0
          /\ \/ /\ \E k \in 1 .. Size : tx = SubSeq(Payload(Cur, Size), 1, k)
                /\ rx = << >> /\ ppc = "data" /\ pn = Size
             \/ /\ tx = << >> /\ rx = Ack("nul") /\ ppc = "hdr"
                /\ Len(accepted) > 0 /\ Got[Len(accepted)] = Cur

(* The consumer's payloads are whole payloads of earlier or current       *)
(* calls, in call order, and none of the running call before its payload  *)
(* was taken.                                                              *)
Delivery ==
    /\ \A i \in 1 .. Len(accepted) :
          /\ Got[i] \in 1 .. Len(sizes) /\ sizes[Got[i]] > 0
          /\ accepted[i] = Payload(Got[i], sizes[Got[i]])
    /\ \A i, j \in 1 .. Len(accepted) : i < j => Got[i] < Got[j]
    /\ (dpc \in {"hdr_ack", "payload"} \/ (dpc = "data_ack" /\ tx # << >>)) =>
          \A i \in 1 .. Len(accepted) : Got[i] < Cur

RInv == IInv /\ Channel /\ Delivery

(* The framing part of Delivery: what stays true after a reset.            *)
Framed ==
    /\ \A i \in 1 .. Len(accepted) :
          /\ Got[i] \in 1 .. Len(sizes) /\ sizes[Got[i]] > 0
          /\ accepted[i] = Payload(Got[i], sizes[Got[i]])
    /\ \A i, j \in 1 .. Len(accepted) : i < j => Got[i] < Got[j]

(* Once the connection has left "up" it never comes back, nothing is in   *)
(* flight and the consumer takes nothing more; while it is up the link    *)
(* has never been reset and the reliable-link invariant holds.            *)
Severed == conn # "up" => tx = << >> /\ rx = << >>

XInv == IInv /\ Framed /\ Severed /\ (conn = "up" => Channel /\ Delivery)

-----------------------------------------------------------------------------
(* Lemmas on the byte strings the model is built from.                     *)

LEMMA SubSeqType ==
    ASSUME NEW S, NEW s \in Seq(S), NEW m \in 1 .. Len(s) + 1,
           NEW n \in 0 .. Len(s)
    PROVE  SubSeq(s, m, n) \in Seq(S)
<1>1. \A i \in m .. n : s[i] \in S
  BY ElementOfSeq
<1>. QED
  BY <1>1, SubSeqProperties

LEMMA DropType ==
    ASSUME NEW S, NEW s \in Seq(S), NEW k \in 0 .. Len(s)
    PROVE  Drop(s, k) \in Seq(S) /\ Len(Drop(s, k)) = Len(s) - k
<1>1. \A i \in k + 1 .. Len(s) : s[i] \in S
  BY ElementOfSeq
<1>. QED
  BY <1>1, SubSeqProperties DEF Drop

LEMMA HdrType ==
    ASSUME NEW c \in 1 .. MaxX, NEW n \in Sizes
    PROVE  /\ Hdr(c, n) \in Seq(TxBytes)
           /\ Len(Hdr(c, n)) = HdrLen
           /\ Hdr(c, n)[1][3] = n
  BY DEF Hdr, HdrLen, TxBytes

LEMMA PayloadType ==
    ASSUME NEW c \in 1 .. MaxX, NEW n \in Sizes
    PROVE  /\ Payload(c, n) \in Seq(TxBytes)
           /\ Len(Payload(c, n)) = n
  BY DEF Payload, TxBytes

LEMMA AckType ==
    ASSUME NEW f \in Fourth
    PROVE  Ack(f) \in Seq(RxBytes)
  BY DEF Ack, RxBytes

(* A send of k bytes of a non-empty b on an empty stream leaves the first  *)
(* k bytes of b there, at least one.                                       *)
LEMMA PartSend ==
    ASSUME NEW S, NEW b \in Seq(S), Len(b) > 0, NEW k \in SentLens(b)
    PROVE  /\ k \in 1 .. Len(b)
           /\ << >> \o SubSeq(b, 1, k) = SubSeq(b, 1, k)
<1>1. k \in 1 .. Len(b)
  BY LenProperties DEF SentLens
<1>2. SubSeq(b, 1, k) \in Seq(S)
  BY <1>1, SubSeqType
<1>. QED
  BY <1>1, <1>2, ConcatEmptySeq

(* A prefix of b at least as long as b is b.                               *)
LEMMA FullPrefix ==
    ASSUME NEW S, NEW b \in Seq(S), NEW k \in 1 .. Len(b),
           Len(SubSeq(b, 1, k)) >= Len(b)
    PROVE  SubSeq(b, 1, k) = b
<1>1. Len(SubSeq(b, 1, k)) = k
  BY SubSeqProperties
<1>2. k = Len(b)
  BY <1>1, LenProperties
<1>. QED
  BY <1>2, SubSeqFull

(* What is appended to tx by a send of k bytes of b.                       *)
LEMMA SentType ==
    ASSUME NEW b \in Seq(TxBytes), NEW t \in Seq(TxBytes),
           NEW k \in SentLens(b)
    PROVE  t \o SubSeq(b, 1, k) \in Seq(TxBytes)
<1>1. k \in 0 .. Len(b)
  BY DEF SentLens
<1>2. SubSeq(b, 1, k) \in Seq(TxBytes)
  BY <1>1, SubSeqType
<1>. QED
  BY <1>2, ConcatProperties

-----------------------------------------------------------------------------

LEMMA InitIInv == Init => IInv
<1>. SUFFICES ASSUME Init PROVE IInv
  OBVIOUS
<1>1. /\ sizes \in Seq(Sizes)
      /\ res \in Seq([rc : {0, -1, 1}, transport : BOOLEAN])
      /\ tx \in Seq(TxBytes) /\ rx \in Seq(RxBytes)
      /\ accepted \in Seq(Seq(TxBytes))
  BY EmptySeq DEF Init
<1>2. Len(sizes) = 0 /\ Len(res) = 0
  BY EmptySeq DEF Init
<1>3. /\ dpc \in DPcs /\ xfail \in BOOLEAN /\ conn \in {"up", "reset", "closed"}
      /\ ppc \in {"hdr", "data"} /\ pn \in {0} \cup Sizes
  BY DEF Init, DPcs
<1>. QED
  BY <1>1, <1>2, <1>3 DEF Init, IInv, TypeOK, Shape

(* A return appends one well-typed result and leaves the call.             *)
LEMMA ReturnType ==
    ASSUME TypeOK, NEW rc \in {0, -1, 1}, NEW tf \in BOOLEAN, Return(rc, tf)
    PROVE  /\ res' \in Seq([rc : {0, -1, 1}, transport : BOOLEAN])
           /\ Len(res') = Len(res) + 1
           /\ dpc' = "idle" /\ xfail' \in BOOLEAN
<1>1. [rc |-> rc, transport |-> xfail \/ tf] \in [rc : {0, -1, 1}, transport : BOOLEAN]
  BY DEF TypeOK
<1>2. /\ Append(res, [rc |-> rc, transport |-> xfail \/ tf])
           \in Seq([rc : {0, -1, 1}, transport : BOOLEAN])
      /\ Len(Append(res, [rc |-> rc, transport |-> xfail \/ tf])) = Len(res) + 1
  BY <1>1, AppendProperties DEF TypeOK
<1>. QED
  BY <1>2 DEF Return

LEMMA SendHeaderIInv ==
    ASSUME IInv, NEW n \in Sizes, SendHeader(n)
    PROVE  IInv'
<1>. USE DEF IInv, TypeOK, Shape
<1>1. /\ sizes' \in Seq(Sizes) /\ Len(sizes') = Len(sizes) + 1
      /\ Len(sizes') <= MaxX
  BY AppendProperties DEF SendHeader, Cur
<1>2. Len(res) = Len(sizes)
  BY DEF SendHeader
<1>3. CASE conn = "up"
  <2>1. Cur + 1 \in 1 .. MaxX
    BY LenProperties DEF SendHeader, Cur
  <2>2. PICK k \in SentLens(Hdr(Cur + 1, n)) :
             tx' = tx \o SubSeq(Hdr(Cur + 1, n), 1, k)
    BY <1>3 DEF SendHeader
  <2>3. tx' \in Seq(TxBytes)
    BY <2>1, <2>2, HdrType, SentType
  <2>4. dpc' = "hdr_ack" /\ UNCHANGED <<res, xfail, conn, rx, ppc, pn, accepted>>
    BY <1>3 DEF SendHeader
  <2>. QED
    BY <1>1, <1>2, <2>3, <2>4 DEF DPcs
<1>4. CASE conn = "reset"
  <2>1. res' = Append(res, [rc |-> -1, transport |-> TRUE])
        /\ conn' = "closed" /\ UNCHANGED <<dpc, xfail, tx, rx, ppc, pn, accepted>>
    BY <1>4 DEF SendHeader
  <2>2. res' \in Seq([rc : {0, -1, 1}, transport : BOOLEAN])
        /\ Len(res') = Len(res) + 1
    BY <2>1, AppendProperties
  <2>. QED
    BY <1>1, <1>2, <2>1, <2>2 DEF SendHeader
<1>5. CASE conn = "closed"
  <2>1. CASE SigpipeIgnored
    <3>1. res' = Append(res, [rc |-> -1, transport |-> TRUE])
          /\ UNCHANGED <<dpc, xfail, tx, conn, rx, ppc, pn, accepted>>
      BY <1>5, <2>1 DEF SendHeader, SendOnClosed
    <3>2. res' \in Seq([rc : {0, -1, 1}, transport : BOOLEAN])
          /\ Len(res') = Len(res) + 1
      BY <3>1, AppendProperties
    <3>. QED
      BY <1>1, <1>2, <3>1, <3>2 DEF SendHeader
  <2>2. CASE ~SigpipeIgnored
    <3>1. dpc' = "killed"
          /\ UNCHANGED <<res, xfail, tx, conn, rx, ppc, pn, accepted>>
      BY <1>5, <2>2 DEF SendHeader, SendOnClosed
    <3>. QED
      BY <1>1, <1>2, <3>1 DEF DPcs
  <2>. QED
    BY <2>1, <2>2
<1>. QED
  BY <1>3, <1>4, <1>5

(* recv returns between 1 and the number of bytes waiting, at most 4.      *)
LEMMA ReadLensBound ==
    ASSUME NEW S, rx \in Seq(S), rx # << >>, NEW k \in ReadLens
    PROVE  k \in 1 .. Len(rx)
<1>1. Len(rx) \in Nat \ {0}
  BY EmptySeq
<1>. QED
  BY <1>1 DEF ReadLens, MinOf, AckLen

LEMMA RecvAckIInv ==
    ASSUME IInv, RecvAck
    PROVE  IInv'
<1>. USE DEF IInv, TypeOK, Shape
<1>0. /\ dpc \in {"hdr_ack", "data_ack"}
      /\ UNCHANGED <<sizes, tx, ppc, pn, accepted>>
  BY DEF RecvAck
<1>1. CASE rx # << >>
  <2>1. PICK k \in ReadLens :
             /\ rx' = Drop(rx, k)
             /\ IF ~AckOk(k) THEN Return(1, FALSE)
                ELSE IF dpc = "hdr_ack" /\ Size > 0
                     THEN dpc' = "payload" /\ UNCHANGED <<res, xfail>>
                     ELSE Return(0, FALSE)
             /\ UNCHANGED conn
    BY <1>1 DEF RecvAck
  <2>2. rx' \in Seq(RxBytes)
    BY <1>1, <2>1, ReadLensBound, DropType
  <2>3. CASE ~AckOk(k)
    <3>1. Return(1, FALSE)
      BY <2>1, <2>3
    <3>2. res' \in Seq([rc : {0, -1, 1}, transport : BOOLEAN])
          /\ Len(res') = Len(res) + 1 /\ dpc' = "idle" /\ xfail' \in BOOLEAN
      BY <3>1, ReturnType
    <3>. QED
      BY <1>0, <2>1, <2>2, <3>2 DEF DPcs
  <2>4. CASE AckOk(k) /\ dpc = "hdr_ack" /\ Size > 0
    BY <1>0, <2>1, <2>2, <2>4 DEF DPcs
  <2>5. CASE AckOk(k) /\ ~(dpc = "hdr_ack" /\ Size > 0)
    <3>1. Return(0, FALSE)
      BY <2>1, <2>5
    <3>2. res' \in Seq([rc : {0, -1, 1}, transport : BOOLEAN])
          /\ Len(res') = Len(res) + 1 /\ dpc' = "idle" /\ xfail' \in BOOLEAN
      BY <3>1, ReturnType
    <3>. QED
      BY <1>0, <2>1, <2>2, <3>2 DEF DPcs
  <2>. QED
    BY <2>3, <2>4, <2>5
<1>2. CASE rx = << >>
  <2>1. conn' = "closed" /\ Return(1, TRUE) /\ UNCHANGED rx
    BY <1>2 DEF RecvAck
  <2>2. res' \in Seq([rc : {0, -1, 1}, transport : BOOLEAN])
        /\ Len(res') = Len(res) + 1 /\ dpc' = "idle" /\ xfail' \in BOOLEAN
    BY <2>1, ReturnType
  <2>. QED
    BY <1>0, <1>2, <2>1, <2>2 DEF DPcs
<1>. QED
  BY <1>1, <1>2

LEMMA SendPayloadIInv ==
    ASSUME IInv, SendPayload
    PROVE  IInv'
<1>. USE DEF IInv, TypeOK, Shape
<1>0. dpc = "payload" /\ dpc' = "data_ack"
      /\ UNCHANGED <<sizes, res, rx, ppc, pn, accepted>>
  BY DEF SendPayload
<1>1. CASE conn = "up"
  <2>1. Cur \in 1 .. MaxX /\ Size \in Sizes
    BY <1>0, LenProperties, ElementOfSeq DEF Cur, Size
  <2>2. PICK k \in SentLens(Payload(Cur, Size)) :
             tx' = tx \o SubSeq(Payload(Cur, Size), 1, k)
    BY <1>1 DEF SendPayload
  <2>3. tx' \in Seq(TxBytes)
    BY <2>1, <2>2, PayloadType, SentType
  <2>. QED
    BY <1>0, <1>1, <2>3 DEF SendPayload, DPcs
<1>2. CASE conn # "up"
  BY <1>0, <1>2 DEF SendPayload, DPcs
<1>. QED
  BY <1>1, <1>2

LEMMA PeerHeaderIInv ==
    ASSUME IInv, PeerHeader
    PROVE  IInv'
<1>. USE DEF IInv, TypeOK, Shape
<1>. DEFINE h == SubSeq(tx, 1, HdrLen)
<1>0. Len(tx) >= HdrLen /\ UNCHANGED <<dpc, sizes, res, xfail, accepted>>
  BY DEF PeerHeader
<1>1. CASE IsHeader(h)
  <2>1. PICK c \in 1 .. MaxX, n \in Sizes : h = Hdr(c, n)
    BY <1>1 DEF IsHeader
  <2>2. PICK f \in Fourth :
             /\ tx' = Drop(tx, HdrLen) /\ rx' = rx \o Ack(f)
             /\ pn' = h[1][3] /\ ppc' \in {"hdr", "data"} /\ UNCHANGED conn
    BY <1>1 DEF PeerHeader
  <2>3. tx' \in Seq(TxBytes)
    BY <1>0, <2>2, DropType DEF HdrLen
  <2>4. rx' \in Seq(RxBytes)
    BY <2>2, AckType, ConcatProperties
  <2>5. pn' \in Sizes
    BY <2>1, <2>2, HdrType
  <2>. QED
    BY <1>0, <2>2, <2>3, <2>4, <2>5
<1>2. CASE ~IsHeader(h)
  <2>1. tx' = << >> /\ rx' = << >> /\ conn' = "reset"
        /\ UNCHANGED <<ppc, pn>>
    BY <1>2 DEF PeerHeader, Reset
  <2>. QED
    BY <1>0, <2>1, EmptySeq
<1>. QED
  BY <1>1, <1>2

LEMMA PeerPayloadIInv ==
    ASSUME IInv, PeerPayload
    PROVE  IInv'
<1>. USE DEF IInv, TypeOK, Shape
<1>0. /\ pn \in 0 .. Len(tx)
      /\ accepted' = Append(accepted, SubSeq(tx, 1, pn))
      /\ tx' = Drop(tx, pn) /\ ppc' = "hdr"
      /\ UNCHANGED <<dpc, sizes, res, xfail, conn, pn>>
  BY LenProperties DEF PeerPayload
<1>1. PICK f \in Fourth : rx' = rx \o Ack(f)
  BY DEF PeerPayload
<1>2. SubSeq(tx, 1, pn) \in Seq(TxBytes)
  BY <1>0, SubSeqType
<1>3. accepted' \in Seq(Seq(TxBytes))
  BY <1>0, <1>2, AppendProperties
<1>4. tx' \in Seq(TxBytes) /\ rx' \in Seq(RxBytes)
  BY <1>0, <1>1, DropType, AckType, ConcatProperties
<1>. QED
  BY <1>0, <1>3, <1>4

LEMMA ConnResetIInv ==
    ASSUME IInv, ConnReset
    PROVE  IInv'
  BY EmptySeq DEF ConnReset, Reset, IInv, TypeOK, Shape

LEMMA NextIInv ==
    ASSUME IInv, [Next]_vars
    PROVE  IInv'
<1>1. CASE \E n \in Sizes : SendHeader(n)
  BY <1>1, SendHeaderIInv
<1>2. CASE RecvAck
  BY <1>2, RecvAckIInv
<1>3. CASE SendPayload
  BY <1>3, SendPayloadIInv
<1>4. CASE PeerHeader
  BY <1>4, PeerHeaderIInv
<1>5. CASE PeerPayload
  BY <1>5, PeerPayloadIInv
<1>6. CASE ConnReset
  BY <1>6, ConnResetIInv
<1>7. CASE UNCHANGED vars
  BY <1>7 DEF vars, IInv, TypeOK, Shape
<1>. QED
  BY <1>1, <1>2, <1>3, <1>4, <1>5, <1>6, <1>7 DEF Next, Device, Peer

(* Whatever the consumer sends back, however recv and send are cut short *)
(* and whenever the link is reset, every call of device_daq_send_dif     *)
(* returns 0, -1 or 1, and the byte streams and the consumer's payloads   *)
(* stay well formed.                                                      *)
THEOREM DifTypeCorrect == Spec => []TypeOK
<1>1. Init => IInv
  BY InitIInv
<1>2. IInv /\ [Next]_vars => IInv'
  BY NextIInv
<1>3. IInv => TypeOK
  BY DEF IInv
<1>. QED
  BY <1>1, <1>2, <1>3, PTL DEF Spec

-----------------------------------------------------------------------------
(* The refinement of DifChannel on a reliable link.                        *)

(* The abstract results: the return codes of the calls.                    *)
AbsRes == [i \in 1 .. Len(res) |-> res[i].rc]

(* A payload of a call with a non-empty payload names that call.          *)
LEMMA PayloadIdOf ==
    ASSUME NEW sz \in Seq(Nat), NEW c \in 1 .. Len(sz), sz[c] > 0
    PROVE  PayloadId(sz, Payload(c, sz[c])) = c
<1>1. \A d \in 1 .. Len(sz) :
         sz[d] > 0 /\ Payload(c, sz[c]) = Payload(d, sz[d]) => d = c
  <2>. SUFFICES ASSUME NEW d \in 1 .. Len(sz), sz[d] > 0,
                       Payload(c, sz[c]) = Payload(d, sz[d])
                PROVE  d = c
    OBVIOUS
  <2>1. Payload(c, sz[c])[1] = <<"d", c, 0>> /\ Payload(d, sz[d])[1] = <<"d", d, 0>>
    BY ElementOfSeq DEF Payload
  <2>. QED
    BY <2>1
<1>. QED
  BY <1>1 DEF PayloadId

(* A read of all that is in flight leaves nothing.                         *)
LEMMA WholeRead ==
    ASSUME NEW S, NEW s \in Seq(S)
    PROVE  Drop(s, Len(s)) = << >> /\ SubSeq(s, 1, Len(s)) = s
  BY SubSeqEmpty, SubSeqFull, LenProperties DEF Drop

LEMMA AbsResAppend ==
    ASSUME NEW R \in Seq([rc : {0, -1, 1}, transport : BOOLEAN]),
           NEW x \in [rc : {0, -1, 1}, transport : BOOLEAN]
    PROVE  [i \in 1 .. Len(Append(R, x)) |-> Append(R, x)[i].rc]
             = Append([i \in 1 .. Len(R) |-> R[i].rc], x.rc)
<1>1. Len(Append(R, x)) = Len(R) + 1 /\ Append(R, x)[Len(R) + 1] = x
      /\ \A i \in 1 .. Len(R) : Append(R, x)[i] = R[i]
  BY AppendProperties
<1>2. Len(R) \in Nat
  BY LenProperties
<1>. QED
  BY <1>1, <1>2

(* Facts about the running call that every step below uses.                *)
LEMMA CurFacts ==
    ASSUME IInv, dpc # "idle"
    PROVE  /\ Cur \in 1 .. MaxX /\ Cur = Len(sizes) /\ Size \in Sizes
           /\ Len(res) = Cur - 1 /\ sizes \in Seq(Nat)
<1>1. sizes \in Seq(Sizes) /\ Len(sizes) <= MaxX /\ Len(res) + 1 = Len(sizes)
  BY DEF IInv, TypeOK, Shape
<1>2. Len(res) \in Nat
  BY LenProperties DEF IInv, TypeOK
<1>3. Cur \in 1 .. MaxX
  BY <1>1, <1>2 DEF Cur
<1>4. Size \in Sizes
  BY <1>1, <1>3, ElementOfSeq DEF Size, Cur
<1>5. sizes \in Seq(Nat)
  BY <1>1, SeqMonotonic
<1>. QED
  BY <1>1, <1>2, <1>3, <1>4, <1>5 DEF Cur

(* Starting a call does not change which call a payload names.             *)
LEMMA GotStable ==
    ASSUME TypeOK, Framed, NEW n \in Sizes,
           sizes' = Append(sizes, n), accepted' = accepted
    PROVE  Got' = Got
<1>0. sizes \in Seq(Nat) /\ n \in Nat
  BY SeqMonotonic DEF TypeOK
<1>1. sizes' \in Seq(Nat) /\ Len(sizes') = Len(sizes) + 1
      /\ \A c \in 1 .. Len(sizes) : sizes'[c] = sizes[c]
  BY <1>0, AppendProperties
<1>2. \A i \in 1 .. Len(accepted) : PayloadId(sizes', accepted[i]) = Got[i]
  <2>. SUFFICES ASSUME NEW i \in 1 .. Len(accepted)
                PROVE  PayloadId(sizes', accepted[i]) = Got[i]
    OBVIOUS
  <2>1. /\ Got[i] \in 1 .. Len(sizes') /\ sizes'[Got[i]] > 0
        /\ accepted[i] = Payload(Got[i], sizes'[Got[i]])
    BY <1>1 DEF Framed
  <2>. QED
    BY <1>1, <2>1, PayloadIdOf
<1>3. Got' = [i \in 1 .. Len(accepted) |-> PayloadId(sizes', accepted[i])]
  BY DEF Got, IdOf
<1>4. Got = [i \in 1 .. Len(accepted) |-> Got[i]]
  BY DEF Got
<1>. QED
  BY <1>2, <1>3, <1>4

(* The header send of a call is the abstract start of an exchange.         *)
LEMMA SendHeaderRef ==
    ASSUME Faithful, RInv, NEW n \in Sizes, SendHeader(n)
    PROVE  RInv' /\ Chan!AStart(n)
<1>1. IInv'
  BY SendHeaderIInv DEF RInv
<1>2. /\ conn = "up" /\ dpc = "idle" /\ tx = << >> /\ rx = << >> /\ ppc = "hdr"
      /\ Len(res) = Len(sizes) /\ Cur < MaxX /\ xfail = FALSE
  BY DEF RInv, Channel, SendHeader, IInv, Shape
<1>3. Cur + 1 \in 1 .. MaxX
  BY <1>2, LenProperties DEF RInv, IInv, TypeOK, Cur
<1>4. PICK k \in SentLens(Hdr(Cur + 1, n)) :
           tx' = tx \o SubSeq(Hdr(Cur + 1, n), 1, k)
  BY <1>2 DEF SendHeader
<1>5. k \in 1 .. HdrLen /\ tx' = SubSeq(Hdr(Cur + 1, n), 1, k)
  <2>1. Hdr(Cur + 1, n) \in Seq(TxBytes) /\ Len(Hdr(Cur + 1, n)) = HdrLen
    BY <1>3, HdrType
  <2>2. HdrLen > 0
    BY DEF HdrLen
  <2>. QED
    BY <1>2, <1>4, <2>1, <2>2, PartSend
<1>6. /\ dpc' = "hdr_ack" /\ sizes' = Append(sizes, n)
      /\ UNCHANGED <<res, xfail, conn, rx, ppc, pn, accepted>>
  BY <1>2 DEF SendHeader
<1>7. Cur' = Cur + 1 /\ Size' = n /\ sizes' \in Seq(Sizes)
      /\ \A c \in 1 .. Len(sizes) : sizes'[c] = sizes[c]
  BY <1>6, AppendProperties DEF RInv, IInv, TypeOK, Cur, Size
<1>8. Got' = Got
  BY <1>6, GotStable DEF RInv, IInv, Delivery, Framed
<1>9. Channel'
  BY <1>2, <1>5, <1>6, <1>7 DEF Channel
<1>10. Delivery'
  <2>1. \A i \in 1 .. Len(accepted) :
          /\ Got[i] \in 1 .. Len(sizes) /\ sizes[Got[i]] > 0
          /\ accepted[i] = Payload(Got[i], sizes[Got[i]])
    BY DEF RInv, Delivery
  <2>2. \A i, j \in 1 .. Len(accepted) : i < j => Got[i] < Got[j]
    BY DEF RInv, Delivery
  <2>3. Len(sizes') = Len(sizes) + 1 /\ Len(sizes) \in Nat
    BY <1>6, AppendProperties, LenProperties DEF RInv, IInv, TypeOK
  <2>4. \A i \in 1 .. Len(accepted') :
          /\ Got'[i] \in 1 .. Len(sizes') /\ sizes'[Got'[i]] > 0
          /\ accepted'[i] = Payload(Got'[i], sizes'[Got'[i]])
    BY <1>6, <1>7, <1>8, <2>1, <2>3
  <2>5. \A i, j \in 1 .. Len(accepted') : i < j => Got'[i] < Got'[j]
    BY <1>6, <1>8, <2>2
  <2>6. \A i \in 1 .. Len(accepted') : Got'[i] < Cur'
    BY <1>6, <1>7, <1>8, <2>1, <2>3 DEF Cur
  <2>. QED
    BY <2>4, <2>5, <2>6 DEF Delivery
<1>11. Chan!AStart(n)
  BY <1>2, <1>6, <1>8 DEF Chan!AStart, Chan!Open, Cur, Got
<1>. QED
  BY <1>1, <1>9, <1>10, <1>11 DEF RInv

(* A return of 0 of a call whose payload is empty or taken is the         *)
(* abstract end of the exchange with result 0.                             *)
LEMMA FinishZero ==
    ASSUME RInv, dpc # "idle", Return(0, FALSE),
           UNCHANGED <<sizes, accepted>>,
           Size = 0 \/ (Len(accepted) > 0 /\ Got[Len(accepted)] = Cur)
    PROVE  Chan!AFinish(0)
<1>1. Cur = Len(sizes) /\ Len(res) = Cur - 1 /\ Cur \in 1 .. MaxX
  BY CurFacts DEF RInv
<1>2. res \in Seq([rc : {0, -1, 1}, transport : BOOLEAN])
      /\ [rc |-> 0, transport |-> xfail \/ FALSE] \in [rc : {0, -1, 1}, transport : BOOLEAN]
  BY DEF RInv, IInv, TypeOK
<1>3. res' = Append(res, [rc |-> 0, transport |-> xfail \/ FALSE])
  BY DEF Return
<1>4. [i \in 1 .. Len(res') |-> res'[i].rc]
        = Append([i \in 1 .. Len(res) |-> res[i].rc], 0)
  BY <1>2, <1>3, AbsResAppend
<1>5. Len([i \in 1 .. Len(res) |-> res[i].rc]) < Len(sizes)
  BY <1>1, <1>2, LenProperties
<1>6. Got' = Got
  BY DEF Got, IdOf
<1>7. sizes[Len(sizes)] = 0 \/ \E i \in 1 .. Len(Got) : Got[i] = Len(sizes)
  BY <1>1 DEF Size, Got
<1>. QED
  BY <1>4, <1>5, <1>6, <1>7 DEF Chan!AFinish, Chan!Open, Chan!Received, Got

LEMMA RecvAckRef ==
    ASSUME Faithful, RInv, RecvAck
    PROVE  RInv' /\ [Chan!ANext]_Chan!avars
<1>1. IInv'
  BY RecvAckIInv DEF RInv
<1>2. /\ dpc \in {"hdr_ack", "data_ack"} /\ conn = "up" /\ xfail = FALSE
      /\ UNCHANGED <<sizes, tx, ppc, pn, accepted>>
  BY DEF RecvAck, RInv, Channel
<1>3. rx # << >>
  BY <1>2 DEF RecvAck
<1>4. /\ rx = Ack("nul") /\ tx = << >>
      /\ dpc = "hdr_ack" => pn = Size /\ ppc = IF Size > 0 THEN "data" ELSE "hdr"
      /\ dpc = "data_ack" =>
            /\ Size > 0 /\ ppc = "hdr"
            /\ Len(accepted) > 0 /\ Got[Len(accepted)] = Cur
  BY <1>2, <1>3 DEF RInv, Channel
<1>5. Ack("nul") \in Seq(RxBytes) /\ Len(Ack("nul")) = AckLen
  BY AckType DEF Ack, AckLen
<1>6. PICK k \in ReadLens :
           /\ rx' = Drop(rx, k)
           /\ IF ~AckOk(k) THEN Return(1, FALSE)
              ELSE IF dpc = "hdr_ack" /\ Size > 0
                   THEN dpc' = "payload" /\ UNCHANGED <<res, xfail>>
                   ELSE Return(0, FALSE)
           /\ UNCHANGED conn
  BY <1>3 DEF RecvAck
<1>7. k = AckLen /\ AckOk(k) /\ rx' = << >>
  <2>1. k = AckLen
    BY <1>4, <1>5, <1>6 DEF ReadLens, MinOf, Faithful
  <2>2. SubSeq(rx, 1, AckLen) = rx /\ Drop(rx, AckLen) = << >>
    BY <1>4, <1>5, WholeRead
  <2>. QED
    BY <1>4, <1>6, <2>1, <2>2 DEF AckOk
<1>8. Cur = Len(sizes) /\ Size \in Sizes
  BY <1>2, CurFacts DEF RInv
<1>9. CASE dpc = "hdr_ack" /\ Size > 0
  <2>1. dpc' = "payload" /\ UNCHANGED <<res, xfail, conn>>
    BY <1>6, <1>7, <1>9
  <2>2. ppc = "data" /\ pn = Size
    BY <1>4, <1>9
  <2>3. Channel'
    BY <1>2, <1>4, <1>7, <1>9, <2>1, <2>2 DEF Channel, Cur, Size
  <2>4. Delivery'
    BY <1>2, <1>9, <2>1 DEF RInv, Delivery, Got, IdOf, Cur
  <2>5. UNCHANGED Chan!avars
    BY <1>2, <2>1 DEF Chan!avars, Got, IdOf
  <2>. QED
    BY <1>1, <2>3, <2>4, <2>5 DEF RInv
<1>10. CASE ~(dpc = "hdr_ack" /\ Size > 0)
  <2>1. Return(0, FALSE) /\ UNCHANGED conn
    BY <1>6, <1>7, <1>10
  <2>2. dpc' = "idle"
    BY <2>1 DEF Return
  <2>3. ppc = "hdr"
    BY <1>2, <1>4, <1>10
  <2>4. Size = 0 \/ (Len(accepted) > 0 /\ Got[Len(accepted)] = Cur)
    BY <1>2, <1>4, <1>8, <1>10, DifAssumption
  <2>5. Chan!AFinish(0)
    BY <1>2, <2>1, <2>4, FinishZero
  <2>6. Channel'
    <3>1. /\ dpc' = "idle" /\ tx' = << >> /\ rx' = << >> /\ ppc' = "hdr"
          /\ conn' = "up" /\ xfail' = FALSE
      BY <1>2, <1>4, <1>7, <2>1, <2>2, <2>3 DEF Return
    <3>. QED
      BY <3>1 DEF Channel
  <2>7. Delivery'
    BY <1>2, <2>2 DEF RInv, Delivery, Got, IdOf, Cur
  <2>. QED
    BY <1>1, <2>5, <2>6, <2>7 DEF RInv, Chan!ANext, Chan!Results
<1>. QED
  BY <1>9, <1>10

LEMMA SendPayloadRef ==
    ASSUME Faithful, RInv, SendPayload
    PROVE  RInv' /\ [Chan!ANext]_Chan!avars
<1>1. IInv'
  BY SendPayloadIInv DEF RInv
<1>2. /\ dpc = "payload" /\ conn = "up" /\ xfail = FALSE
      /\ tx = << >> /\ rx = << >> /\ ppc = "data" /\ pn = Size /\ Size > 0
  BY DEF SendPayload, RInv, Channel
<1>3. Cur \in 1 .. MaxX /\ Size \in Sizes
  BY <1>2, CurFacts DEF RInv
<1>4. PICK k \in SentLens(Payload(Cur, Size)) :
           tx' = tx \o SubSeq(Payload(Cur, Size), 1, k)
  BY <1>2 DEF SendPayload
<1>5. k \in 1 .. Size /\ tx' = SubSeq(Payload(Cur, Size), 1, k)
  <2>1. Payload(Cur, Size) \in Seq(TxBytes) /\ Len(Payload(Cur, Size)) = Size
    BY <1>3, PayloadType
  <2>. QED
    BY <1>2, <1>4, <2>1, PartSend
<1>6. /\ dpc' = "data_ack"
      /\ UNCHANGED <<xfail, conn, sizes, res, rx, ppc, pn, accepted>>
  BY <1>2 DEF SendPayload
<1>7. Payload(Cur, Size) # << >>
  BY <1>2, <1>3, PayloadType
<1>8. Channel'
  BY <1>2, <1>5, <1>6 DEF Channel, Cur, Size
<1>9. Delivery'
  BY <1>2, <1>5, <1>6, <1>7 DEF RInv, Delivery, Got, IdOf, Cur
<1>10. UNCHANGED Chan!avars
  BY <1>6 DEF Chan!avars, Got, IdOf
<1>. QED
  BY <1>1, <1>8, <1>9, <1>10 DEF RInv

LEMMA PeerHeaderRef ==
    ASSUME Faithful, RInv, PeerHeader
    PROVE  RInv' /\ [Chan!ANext]_Chan!avars
<1>1. IInv'
  BY PeerHeaderIInv DEF RInv
<1>2. conn = "up" /\ ppc = "hdr" /\ Len(tx) >= HdrLen
  BY DEF PeerHeader
<1>3. Len(<< >>) = 0
  OBVIOUS
<1>4. dpc = "hdr_ack" /\ tx = Hdr(Cur, Size) /\ rx = << >> /\ xfail = FALSE
  <2>1. tx # << >>
    BY <1>2, <1>3 DEF HdrLen
  <2>2. dpc \in DPcs /\ dpc # "killed" /\ xfail = FALSE
    BY DEF RInv, IInv, TypeOK, Channel
  <2>3. dpc # "idle" /\ dpc # "payload"
    BY <1>2, <2>1 DEF RInv, Channel
  <2>4. dpc # "data_ack"
    BY <1>2, <2>1 DEF RInv, Channel
  <2>5. dpc = "hdr_ack"
    BY <2>2, <2>3, <2>4 DEF DPcs
  <2>6. /\ \E k \in 1 .. HdrLen : tx = SubSeq(Hdr(Cur, Size), 1, k)
        /\ rx = << >>
    BY <1>2, <2>1, <2>5 DEF RInv, Channel
  <2>7. PICK k \in 1 .. HdrLen : tx = SubSeq(Hdr(Cur, Size), 1, k)
    BY <2>6
  <2>8. Cur \in 1 .. MaxX /\ Size \in Sizes
    BY <2>5, CurFacts DEF RInv
  <2>9. Hdr(Cur, Size) \in Seq(TxBytes) /\ Len(Hdr(Cur, Size)) = HdrLen
    BY <2>8, HdrType
  <2>10. tx = Hdr(Cur, Size)
    BY <1>2, <2>7, <2>9, FullPrefix
  <2>. QED
    BY <2>2, <2>5, <2>6, <2>10
<1>5. Cur \in 1 .. MaxX /\ Size \in Sizes
  BY <1>4, CurFacts DEF RInv
<1>6. SubSeq(tx, 1, HdrLen) = Hdr(Cur, Size) /\ Drop(tx, HdrLen) = << >>
  <2>1. tx \in Seq(TxBytes) /\ Len(tx) = HdrLen
    BY <1>4, <1>5, HdrType
  <2>2. SubSeq(tx, 1, Len(tx)) = tx /\ Drop(tx, Len(tx)) = << >>
    BY <2>1, WholeRead
  <2>. QED
    BY <1>4, <2>1, <2>2
<1>7. IsHeader(SubSeq(tx, 1, HdrLen))
  BY <1>5, <1>6 DEF IsHeader
<1>8. PICK f \in Fourth :
           /\ tx' = << >> /\ rx' = << >> \o Ack(f)
           /\ pn' = Hdr(Cur, Size)[1][3]
           /\ ppc' = IF Hdr(Cur, Size)[1][3] > 0 THEN "data" ELSE "hdr"
           /\ UNCHANGED <<conn, dpc, sizes, res, xfail, accepted>>
  BY <1>4, <1>6, <1>7 DEF PeerHeader
<1>9. rx' = Ack("nul") /\ pn' = Size
      /\ ppc' = IF Size > 0 THEN "data" ELSE "hdr"
  BY <1>5, <1>8, HdrType, AckType, ConcatEmptySeq DEF Faithful
<1>10. Channel'
  BY <1>2, <1>4, <1>8, <1>9 DEF Channel, Cur, Size
<1>11. Delivery'
  BY <1>4, <1>8 DEF RInv, Delivery, Got, IdOf, Cur
<1>12. UNCHANGED Chan!avars
  BY <1>8 DEF Chan!avars, Got, IdOf
<1>. QED
  BY <1>1, <1>10, <1>11, <1>12 DEF RInv

(* The consumer taking the running call's payload is the abstract         *)
(* delivery of that exchange.                                              *)
LEMMA PeerPayloadRef ==
    ASSUME Faithful, RInv, PeerPayload
    PROVE  RInv' /\ [Chan!ANext]_Chan!avars
<1>1. IInv'
  BY PeerPayloadIInv DEF RInv
<1>2. conn = "up" /\ ppc = "data" /\ Len(tx) >= pn
  BY DEF PeerPayload
<1>3. /\ dpc = "data_ack" /\ tx = Payload(Cur, Size) /\ rx = << >>
      /\ pn = Size /\ Size > 0 /\ xfail = FALSE
  <2>1. dpc \in DPcs /\ dpc # "killed" /\ xfail = FALSE
    BY DEF RInv, IInv, TypeOK, Channel
  <2>2. dpc # "idle"
    BY <1>2 DEF RInv, Channel
  <2>3. Len(<< >>) = 0 /\ pn \in Nat
    BY DEF RInv, IInv, TypeOK
  <2>4. dpc # "hdr_ack"
    <3>1. dpc = "hdr_ack" => tx = << >> /\ pn = Size /\ Size > 0
      BY <1>2 DEF RInv, Channel
    <3>. QED
      BY <1>2, <2>3, <3>1
  <2>5. dpc # "payload"
    <3>1. dpc = "payload" => tx = << >> /\ pn = Size /\ Size > 0
      BY DEF RInv, Channel
    <3>. QED
      BY <1>2, <2>3, <3>1
  <2>6. dpc = "data_ack"
    BY <2>1, <2>2, <2>4, <2>5 DEF DPcs
  <2>7. /\ \E k \in 1 .. Size : tx = SubSeq(Payload(Cur, Size), 1, k)
        /\ rx = << >> /\ pn = Size /\ Size > 0
    BY <1>2, <2>6 DEF RInv, Channel
  <2>8. PICK k \in 1 .. Size : tx = SubSeq(Payload(Cur, Size), 1, k)
    BY <2>7
  <2>9. Cur \in 1 .. MaxX /\ Size \in Sizes
    BY <2>6, CurFacts DEF RInv
  <2>10. Payload(Cur, Size) \in Seq(TxBytes) /\ Len(Payload(Cur, Size)) = Size
    BY <2>9, PayloadType
  <2>11. tx = Payload(Cur, Size)
    BY <1>2, <2>7, <2>8, <2>10, FullPrefix
  <2>. QED
    BY <2>1, <2>6, <2>7, <2>11
<1>4. /\ Cur \in 1 .. MaxX /\ Cur = Len(sizes) /\ Size \in Sizes
      /\ sizes \in Seq(Nat)
  BY <1>3, CurFacts DEF RInv
<1>5. SubSeq(tx, 1, pn) = Payload(Cur, Size) /\ Drop(tx, pn) = << >>
  <2>1. tx \in Seq(TxBytes) /\ Len(tx) = pn
    BY <1>3, <1>4, PayloadType
  <2>2. SubSeq(tx, 1, Len(tx)) = tx /\ Drop(tx, Len(tx)) = << >>
    BY <2>1, WholeRead
  <2>. QED
    BY <1>3, <2>1, <2>2
<1>6. PICK f \in Fourth :
           /\ accepted' = Append(accepted, Payload(Cur, Size))
           /\ tx' = << >> /\ rx' = << >> \o Ack(f) /\ ppc' = "hdr"
           /\ UNCHANGED <<dpc, sizes, res, xfail, conn, pn>>
  BY <1>3, <1>5 DEF PeerPayload
<1>7. rx' = Ack("nul")
  BY <1>6, AckType, ConcatEmptySeq DEF Faithful
<1>8. PayloadId(sizes, Payload(Cur, Size)) = Cur
  BY <1>3, <1>4, PayloadIdOf DEF Size
<1>9. /\ Len(accepted') = Len(accepted) + 1 /\ Len(accepted) \in Nat
      /\ accepted'[Len(accepted) + 1] = Payload(Cur, Size)
      /\ \A i \in 1 .. Len(accepted) : accepted'[i] = accepted[i]
  BY <1>4, <1>6, PayloadType, AppendProperties, LenProperties DEF RInv, IInv, TypeOK
<1>10. Got' = [i \in 1 .. Len(accepted) + 1 |->
                 IF i <= Len(accepted) THEN Got[i] ELSE Cur]
  BY <1>6, <1>8, <1>9 DEF Got, IdOf
<1>11. \A i \in 1 .. Len(accepted) :
          /\ Got[i] \in 1 .. Len(sizes) /\ sizes[Got[i]] > 0
          /\ accepted[i] = Payload(Got[i], sizes[Got[i]])
          /\ Got[i] < Cur
  <2>1. tx # << >>
    BY <1>3, <1>4, PayloadType
  <2>. QED
    BY <1>3, <2>1 DEF RInv, Delivery
<1>12. Got \in Seq(Nat) /\ Len(Got) = Len(accepted)
  <2>1. Got \in [1 .. Len(accepted) -> Nat]
    BY <1>11 DEF Got
  <2>. QED
    BY <1>9, <2>1 DEF Got
<1>13. Got' = Append(Got, Cur)
  <2>0. Cur \in Nat
    BY <1>4
  <2>1. /\ Append(Got, Cur) \in Seq(Nat)
        /\ Len(Append(Got, Cur)) = Len(accepted) + 1
        /\ \A i \in 1 .. Len(accepted) : Append(Got, Cur)[i] = Got[i]
        /\ Append(Got, Cur)[Len(accepted) + 1] = Cur
    BY <1>12, <2>0, AppendProperties
  <2>2. DOMAIN Append(Got, Cur) = 1 .. Len(accepted) + 1
    BY <2>1, LenProperties
  <2>3. \A i \in 1 .. Len(accepted) + 1 :
          Append(Got, Cur)[i] = IF i <= Len(accepted) THEN Got[i] ELSE Cur
    BY <1>9, <2>1
  <2>4. Append(Got, Cur) = [i \in 1 .. Len(accepted) + 1 |->
                             IF i <= Len(accepted) THEN Got[i] ELSE Cur]
    BY <2>1, <2>2, <2>3, LenProperties
  <2>. QED
    BY <1>10, <2>4
<1>14. Channel'
  <2>1. Got'[Len(accepted')] = Cur /\ Len(accepted') > 0
    BY <1>9, <1>10
  <2>2. Cur' = Cur /\ Size' = Size
    BY <1>6 DEF Cur, Size
  <2>3. /\ dpc' = "data_ack" /\ Size' > 0 /\ tx' = << >> /\ rx' = Ack("nul")
        /\ ppc' = "hdr" /\ conn' = "up" /\ xfail' = FALSE
    BY <1>2, <1>3, <1>6, <1>7, <2>2
  <2>. QED
    BY <2>1, <2>2, <2>3 DEF Channel
<1>15. Delivery'
  <2>1. \A i \in 1 .. Len(accepted') :
          /\ Got'[i] \in 1 .. Len(sizes') /\ sizes'[Got'[i]] > 0
          /\ accepted'[i] = Payload(Got'[i], sizes'[Got'[i]])
    BY <1>3, <1>4, <1>6, <1>9, <1>10, <1>11 DEF Size
  <2>2. \A i, j \in 1 .. Len(accepted') : i < j => Got'[i] < Got'[j]
    BY <1>9, <1>10, <1>11 DEF RInv, Delivery
  <2>3. ~(dpc' \in {"hdr_ack", "payload"} \/ (dpc' = "data_ack" /\ tx' # << >>))
    BY <1>3, <1>6
  <2>. QED
    BY <2>1, <2>2, <2>3 DEF Delivery
<1>16. Chan!ADeliver(Cur)
  <2>1. Got = << >> \/ Got[Len(Got)] < Cur
    BY <1>11, <1>12
  <2>2. Cur \in 1 .. Len(sizes) /\ sizes[Cur] > 0
    BY <1>3, <1>4 DEF Size
  <2>3. UNCHANGED <<sizes, AbsRes>>
    BY <1>6 DEF AbsRes
  <2>4. Chan!ADeliver(Cur) <=>
          /\ Cur \in 1 .. Len(sizes) /\ sizes[Cur] > 0
          /\ Got = << >> \/ Got[Len(Got)] < Cur
          /\ Got' = Append(Got, Cur)
          /\ UNCHANGED <<sizes, AbsRes>>
    BY DEF Chan!ADeliver, Got, AbsRes
  <2>. QED
    BY <1>13, <2>1, <2>2, <2>3, <2>4
<1>. QED
  BY <1>1, <1>4, <1>14, <1>15, <1>16 DEF RInv, Chan!ANext

(* A reset cannot happen on the reliable link.                             *)
LEMMA ConnResetRef ==
    ASSUME Reliable, ConnReset
    PROVE  FALSE
  BY DEF Reliable, ConnReset

LEMMA InitRef ==
    ASSUME Init
    PROVE  RInv /\ Chan!AInit
<1>1. IInv
  BY InitIInv
<1>2. Channel
  BY DEF Init, Channel
<1>3. Len(accepted) = 0
  BY DEF Init
<1>4. Delivery
  BY <1>3 DEF Delivery
<1>5. [i \in 1 .. Len(res) |-> res[i].rc] = << >>
      /\ [i \in 1 .. Len(accepted) |-> IdOf(accepted[i])] = << >>
  BY DEF Init
<1>. QED
  BY <1>1, <1>2, <1>4, <1>5 DEF RInv, Chan!AInit, Init

LEMMA NextRef ==
    ASSUME Reliable, RInv, [Next]_vars
    PROVE  RInv' /\ [Chan!ANext]_Chan!avars
<1>0. Faithful
  BY DEF Reliable
<1>1. CASE \E n \in Sizes : SendHeader(n)
  <2>. PICK n \in Sizes : SendHeader(n)
    BY <1>1
  <2>. QED
    BY <1>0, SendHeaderRef DEF Chan!ANext
<1>2. CASE RecvAck
  BY <1>0, <1>2, RecvAckRef
<1>3. CASE SendPayload
  BY <1>0, <1>3, SendPayloadRef
<1>4. CASE PeerHeader
  BY <1>0, <1>4, PeerHeaderRef
<1>5. CASE PeerPayload
  BY <1>0, <1>5, PeerPayloadRef
<1>6. CASE ConnReset
  BY <1>6, ConnResetRef
<1>7. CASE UNCHANGED vars
  <2>1. IInv'
    BY <1>7, NextIInv DEF RInv
  <2>2. Channel' /\ Delivery'
    BY <1>7 DEF vars, RInv, Channel, Delivery, Got, IdOf, Cur, Size
  <2>3. UNCHANGED Chan!avars
    BY <1>7 DEF vars, Chan!avars, Got, IdOf
  <2>. QED
    BY <2>1, <2>2, <2>3 DEF RInv
<1>. QED
  BY <1>1, <1>2, <1>3, <1>4, <1>5, <1>6, <1>7 DEF Next, Device, Peer

(* On a link whose recv returns all that is waiting, that never resets,   *)
(* and whose consumer ends every ACK with NUL, device_daq_send_dif        *)
(* implements the abstract DIF channel even when signals cut sends short  *)
(* (the call then hangs, a liveness matter): for every number of calls    *)
(* and payload sizes the consumer takes only whole payloads of the        *)
(* device, each once and in call order, and a call returns 0 only when   *)
(* its payload is empty or                                                 *)
(* taken.                                                                  *)
THEOREM DifRefinement ==
    ASSUME Reliable
    PROVE  Spec => Chan!AInit /\ [][Chan!ANext]_Chan!avars
<1>1. Init => RInv /\ Chan!AInit
  BY InitRef
<1>2. RInv /\ [Next]_vars => RInv' /\ [Chan!ANext]_Chan!avars
  BY NextRef
<1>. QED
  BY <1>1, <1>2, PTL DEF Spec

-----------------------------------------------------------------------------
(* The stream under connection resets.                                     *)

(* Starting a call keeps the framing of what the consumer took.            *)
LEMMA FramedAppend ==
    ASSUME TypeOK, Framed, NEW n \in Sizes,
           sizes' = Append(sizes, n), accepted' = accepted
    PROVE  Framed'
<1>1. Got' = Got
  BY GotStable
<1>2. /\ Len(sizes') = Len(sizes) + 1 /\ Len(sizes) \in Nat
      /\ \A c \in 1 .. Len(sizes) : sizes'[c] = sizes[c]
  BY AppendProperties, LenProperties DEF TypeOK
<1>3. \A i \in 1 .. Len(accepted') :
         /\ Got'[i] \in 1 .. Len(sizes') /\ sizes'[Got'[i]] > 0
         /\ accepted'[i] = Payload(Got'[i], sizes'[Got'[i]])
  BY <1>1, <1>2 DEF Framed
<1>4. \A i, j \in 1 .. Len(accepted') : i < j => Got'[i] < Got'[j]
  BY <1>1 DEF Framed
<1>. QED
  BY <1>3, <1>4 DEF Framed

(* A step that leaves sizes and accepted alone keeps the framing.          *)
LEMMA FramedStable ==
    ASSUME Framed, UNCHANGED <<sizes, accepted>>
    PROVE  Framed'
BY DEF Framed, Got, IdOf

(* While the connection is up, every step but a reset is a step of the    *)
(* reliable link.                                                          *)
LEMMA UpStep ==
    ASSUME Faithful, XInv, [Next]_vars, conn = "up", ~ConnReset
    PROVE  XInv'
<1>1. RInv
  BY DEF XInv, RInv
<1>2. RInv'
  <2>1. CASE \E n \in Sizes : SendHeader(n)
    BY <1>1, <2>1, SendHeaderRef
  <2>2. CASE RecvAck
    BY <1>1, <2>2, RecvAckRef
  <2>3. CASE SendPayload
    BY <1>1, <2>3, SendPayloadRef
  <2>4. CASE PeerHeader
    BY <1>1, <2>4, PeerHeaderRef
  <2>5. CASE PeerPayload
    BY <1>1, <2>5, PeerPayloadRef
  <2>6. CASE UNCHANGED vars
    BY <1>1, <2>6 DEF vars, RInv, IInv, TypeOK, Shape, Channel, Delivery,
                      Got, IdOf, Cur, Size
  <2>. QED
    BY <2>1, <2>2, <2>3, <2>4, <2>5, <2>6 DEF Next, Device, Peer
<1>. QED
  BY <1>2 DEF RInv, XInv, Channel, Delivery, Framed, Severed

(* A reset empties the link and freezes what the consumer took.            *)
LEMMA ResetStep ==
    ASSUME XInv, ConnReset
    PROVE  XInv'
<1>1. IInv'
  BY NextIInv DEF XInv, Next
<1>2. Framed'
  BY FramedStable DEF XInv, ConnReset
<1>3. conn' = "reset" /\ tx' = << >> /\ rx' = << >>
  BY DEF ConnReset, Reset
<1>. QED
  BY <1>1, <1>2, <1>3 DEF XInv, Severed

(* Once the connection is down the device only returns or dies: nothing   *)
(* reaches the link and the consumer stays where it is.                    *)
LEMMA DownStep ==
    ASSUME XInv, [Next]_vars, conn # "up"
    PROVE  XInv'
<1>1. IInv'
  BY NextIInv DEF XInv
<1>2. tx = << >> /\ rx = << >> /\ TypeOK
  BY DEF XInv, Severed, IInv
<1>3. CASE \E n \in Sizes : SendHeader(n)
  <2>1. PICK n \in Sizes : SendHeader(n)
    BY <1>3
  <2>2. /\ sizes' = Append(sizes, n)
        /\ UNCHANGED <<tx, rx, accepted>> /\ conn' # "up"
    BY <2>1 DEF SendHeader, SendOnClosed
  <2>. QED
    BY <1>1, <1>2, <2>2, FramedAppend DEF XInv, Severed
<1>4. CASE RecvAck
  <2>1. UNCHANGED <<sizes, tx, rx, accepted>> /\ conn' = "closed"
    BY <1>2, <1>4 DEF RecvAck
  <2>. QED
    BY <1>1, <1>2, <2>1, FramedStable DEF XInv, Severed
<1>5. CASE SendPayload
  <2>1. UNCHANGED <<sizes, tx, rx, accepted>> /\ conn' = "closed"
    BY <1>5 DEF SendPayload
  <2>. QED
    BY <1>1, <1>2, <2>1, FramedStable DEF XInv, Severed
<1>6. CASE PeerHeader \/ PeerPayload \/ ConnReset
  BY <1>6 DEF PeerHeader, PeerPayload, ConnReset
<1>7. CASE UNCHANGED vars
  BY <1>1, <1>7, FramedStable DEF vars, XInv, Severed
<1>. QED
  BY <1>3, <1>4, <1>5, <1>6, <1>7 DEF Next, Device, Peer

(* The framing of the consumer's payloads is StreamIntegrity.              *)
LEMMA FramedIntegrity ==
    ASSUME Framed
    PROVE  StreamIntegrity
<1>. SUFFICES ASSUME NEW i \in 1 .. Len(accepted)
              PROVE  /\ IdOf(accepted[i]) # 0
                     /\ i > 1 => IdOf(accepted[i - 1]) < IdOf(accepted[i])
  BY DEF StreamIntegrity
<1>1. IdOf(accepted[i]) = Got[i] /\ Got[i] \in 1 .. Len(sizes)
  BY DEF Framed, Got
<1>2. i > 1 => /\ i - 1 \in 1 .. Len(accepted)
               /\ IdOf(accepted[i - 1]) = Got[i - 1] /\ Got[i - 1] < Got[i]
  BY DEF Framed, Got
<1>. QED
  BY <1>1, <1>2

(* On a link that may be reset at any point and whose sends a signal may  *)
(* cut short, but whose recv returns all that is waiting and whose ACKs   *)
(* end in NUL, the consumer still takes only whole payloads of            *)
(* device_daq_send_dif, each once and in call order: a reset empties the  *)
(* link and the device only returns -1 or dies on SIGPIPE afterwards, so  *)
(* no stale or partial bytes are ever framed as a payload; a cut send     *)
(* leaves a prefix the consumer never frames.                              *)
THEOREM IntegrityUnderResets ==
    ASSUME Faithful
    PROVE  Spec => []StreamIntegrity
<1>1. Init => XInv
  BY InitRef DEF RInv, XInv, Delivery, Framed, Severed, Channel
<1>2. XInv /\ [Next]_vars => XInv'
  <2>. SUFFICES ASSUME XInv, [Next]_vars PROVE XInv'
    OBVIOUS
  <2>1. CASE conn = "up" /\ ConnReset
    BY <2>1, ResetStep
  <2>2. CASE conn = "up" /\ ~ConnReset
    BY <2>2, UpStep
  <2>3. CASE conn # "up"
    BY <2>3, DownStep
  <2>. QED
    BY <2>1, <2>2, <2>3
<1>3. XInv => StreamIntegrity
  BY FramedIntegrity DEF XInv
<1>. QED
  BY <1>1, <1>2, <1>3, PTL DEF Spec

====

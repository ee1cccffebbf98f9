------------------------------ MODULE DifProtocol -----------------------------
(***************************************************************************)
(* device_daq_send_dif (device.c) byte by byte, for one module's stream:  *)
(* the 8-byte header, the 4-byte header ACK, the payload and the 4-byte   *)
(* data ACK, over a TCP connection to the DIF-side consumer.  The         *)
(* consumer is not in this repository: it is modelled from spec 4.3 (it  *)
(* reads a header, acknowledges it, reads the payload of the announced    *)
(* size, acknowledges it; a header it cannot parse makes it close).       *)
(*                                                                         *)
(* Bytes are tagged with the exchange they belong to (a ghost tag, not    *)
(* on the wire) so that properties can say which payload the consumer     *)
(* took.  The socket is blocking and has no timeout; a signal (SIGINT,    *)
(* installed with signal(), so SA_RESTART) makes a send that has already  *)
(* moved some bytes return that partial count, and a TCP recv may return  *)
(* fewer bytes than asked for.  A send on a connection whose reset was    *)
(* already reported raises SIGPIPE, which the program does not ignore.    *)
(***************************************************************************)
EXTENDS Integers, Sequences

CONSTANTS
    MaxX,        \* exchanges (readout cycles) considered
    Sizes,       \* payload lengths task.end - task.beg may take
    Fourth,      \* 4th bytes the consumer may put after "ACK"
    ShortReads,  \* TRUE: recv may return fewer bytes than are asked for
    Signals,     \* TRUE: a signal may cut a send short
    Resets,      \* TRUE: the connection may be reset
    SigpipeIgnored \* TRUE: the host process ignores SIGPIPE

ASSUME DifAssumption ==
    /\ MaxX \in Nat \ {0}
    /\ Sizes \subseteq Nat /\ Sizes # {}
    /\ "nul" \in Fourth
    /\ ShortReads \in BOOLEAN /\ Signals \in BOOLEAN /\ Resets \in BOOLEAN
    /\ SigpipeIgnored \in BOOLEAN

VARIABLES
    dpc,       \* where device_daq_send_dif is, "idle" between calls
    sizes,     \* payload size of every exchange started (history)
    res,       \* result and transport-failure flag of every exchange ended
    xfail,     \* a send or recv of the running exchange failed at transport
    tx,        \* bytes in flight device -> consumer
    rx,        \* bytes in flight consumer -> device
    conn,      \* "up"; "reset" (error pending); "closed" (error reported)
    ppc,       \* the consumer awaits a "hdr" or "data"
    pn,        \* payload size the consumer awaits
    accepted   \* payloads the consumer took, in order

vars == <<dpc, sizes, res, xfail, tx, rx, conn, ppc, pn, accepted>>

HdrLen == 8
AckLen == 4

(* The header {'H','D','R',0, size LE}: every byte says "header of        *)
(* exchange c announcing n"; payload bytes say "payload of exchange c".   *)
Hdr(c, n) == [i \in 1 .. HdrLen |-> <<"h", c, n>>]
Payload(c, n) == [i \in 1 .. n |-> <<"d", c, 0>>]
Ack(f) == <<"A", "C", "K", f>>

TxBytes == ({"h"} \X (1 .. MaxX) \X Sizes) \cup ({"d"} \X (1 .. MaxX) \X {0})
RxBytes == {"A", "C", "K"} \cup Fourth
DPcs == {"idle", "hdr_ack", "payload", "data_ack", "killed"}

Cur == Len(sizes)
Size == sizes[Cur]

Drop(s, k) == SubSeq(s, k + 1, Len(s))
MinOf(a, b) == IF a <= b THEN a ELSE b

(* How many bytes recv(sck, buf, 4, 0) returns when bytes are waiting.    *)
ReadLens == IF ShortReads THEN 1 .. MinOf(AckLen, Len(rx))
                          ELSE {MinOf(AckLen, Len(rx))}

(* ret == 4 and strcmp(buf, "ACK") == 0: the 4th byte must be the NUL     *)
(* that ends the string, or strcmp reads on into buf.                     *)
AckOk(k) == k = AckLen /\ SubSeq(rx, 1, AckLen) = Ack("nul")

(* How many bytes of a send(sck, b, len, 0) reach the connection.         *)
SentLens(b) == IF Signals THEN 1 .. Len(b) ELSE {Len(b)}

(* return rc: the call ends; tf says whether a transport error was seen.  *)
Return(rc, tf) ==
    /\ res' = Append(res, [rc |-> rc, transport |-> xfail \/ tf])
    /\ dpc' = "idle"
    /\ xfail' = FALSE

(***************************************************************************)
(* The device side.                                                        *)
(***************************************************************************)

(* send() on a connection whose reset was already reported raises        *)
(* SIGPIPE: the code passes no MSG_NOSIGNAL and sets no disposition for   *)
(* it (new_device installs a handler for SIGINT only), so the host        *)
(* process decides.  Ignored, send returns -1 and so does the call;       *)
(* under the default action the process dies.                              *)
SendOnClosed ==
    IF SigpipeIgnored
    THEN /\ res' = Append(res, [rc |-> -1, transport |-> TRUE])
         /\ UNCHANGED <<dpc, xfail, tx, conn>>
    ELSE /\ dpc' = "killed"
         /\ UNCHANGED <<res, xfail, tx, conn>>

(* Mutant: the header's length field is end - beg + 1.                   *)
SendHeaderLenPlusOne(n) ==
    /\ dpc = "idle"
    /\ Cur < MaxX
    /\ sizes' = Append(sizes, n)
    /\ \/ /\ conn = "up"
          /\ \E k \in SentLens(Hdr(Cur + 1, n + 1)) :
                tx' = tx \o SubSeq(Hdr(Cur + 1, n + 1), 1, k)
          /\ dpc' = "hdr_ack"
          /\ UNCHANGED <<res, xfail, conn>>
       \/ /\ conn = "reset"
          /\ conn' = "closed"
          /\ res' = Append(res, [rc |-> -1, transport |-> TRUE])
          /\ UNCHANGED <<dpc, xfail, tx>>
       \/ /\ conn = "closed"
          /\ SendOnClosed
    /\ UNCHANGED <<rx, ppc, pn, accepted>>

(* The call starts: size is computed, the header built and sent.  On an   *)
(* error send returns -1 and the call returns it; once the error was      *)
(* reported, a send raises SIGPIPE (see SendOnClosed).                     *)
SendHeader(n) ==
    /\ dpc = "idle"
    /\ Cur < MaxX
    /\ sizes' = Append(sizes, n)
    /\ \/ /\ conn = "up"
          /\ \E k \in SentLens(Hdr(Cur + 1, n)) :
                tx' = tx \o SubSeq(Hdr(Cur + 1, n), 1, k)
          /\ dpc' = "hdr_ack"
          /\ UNCHANGED <<res, xfail, conn>>
       \/ /\ conn = "reset"
          /\ conn' = "closed"
          /\ res' = Append(res, [rc |-> -1, transport |-> TRUE])
          /\ UNCHANGED <<dpc, xfail, tx>>
       \/ /\ conn = "closed"
          /\ SendOnClosed
    /\ UNCHANGED <<rx, ppc, pn, accepted>>

(* Mutant: the size == 0 test is lost, a good header ACK returns 0.       *)
RecvAckSkipPayload ==
    /\ dpc \in {"hdr_ack", "data_ack"}
    /\ \/ /\ rx # << >>
          /\ \E k \in ReadLens :
                /\ rx' = Drop(rx, k)
                /\ IF ~AckOk(k) THEN Return(1, FALSE) ELSE Return(0, FALSE)
          /\ UNCHANGED conn
       \/ /\ rx = << >>
          /\ conn \in {"reset", "closed"}
          /\ conn' = "closed"
          /\ Return(1, TRUE)
          /\ UNCHANGED rx
    /\ UNCHANGED <<sizes, tx, ppc, pn, accepted>>

(* recv(sck, buf, 4, 0) for the header ACK or the data ACK; it blocks     *)
(* while nothing is there and the connection is up.  A bad ACK returns 1; *)
(* a good header ACK returns 0 if size == 0 and goes on to the payload.   *)
RecvAck ==
    /\ dpc \in {"hdr_ack", "data_ack"}
    /\ \/ /\ rx # << >>
          /\ \E k \in ReadLens :
                /\ rx' = Drop(rx, k)
                /\ IF ~AckOk(k) THEN Return(1, FALSE)
                   ELSE IF dpc = "hdr_ack" /\ Size > 0
                        THEN dpc' = "payload" /\ UNCHANGED <<res, xfail>>
                        ELSE Return(0, FALSE)
          /\ UNCHANGED conn
       \/ /\ rx = << >>
          /\ conn \in {"reset", "closed"}
          /\ conn' = "closed"
          /\ Return(1, TRUE)
          /\ UNCHANGED rx
    /\ UNCHANGED <<sizes, tx, ppc, pn, accepted>>

(* Mutant: the payload is sent one byte short (size computed off by one). *)
SendPayloadShort ==
    /\ dpc = "payload"
    /\ \/ /\ conn = "up"
          /\ tx' = tx \o SubSeq(Payload(Cur, Size), 1, Size - 1)
          /\ dpc' = "data_ack"
          /\ UNCHANGED <<xfail, conn>>
       \/ /\ conn = "reset"
          /\ conn' = "closed"
          /\ xfail' = TRUE
          /\ dpc' = "data_ack"
          /\ UNCHANGED tx
    /\ UNCHANGED <<sizes, res, rx, ppc, pn, accepted>>

(* send(sck, data, size, 0); an error is logged and the call goes on to   *)
(* wait for the data ACK.  The connection cannot be "closed" here: the    *)
(* header send of this call would have failed.                             *)
SendPayload ==
    /\ dpc = "payload"
    /\ \/ /\ conn = "up"
          /\ \E k \in SentLens(Payload(Cur, Size)) :
                tx' = tx \o SubSeq(Payload(Cur, Size), 1, k)
          /\ dpc' = "data_ack"
          /\ UNCHANGED <<xfail, conn>>
       \/ /\ conn = "reset"
          /\ conn' = "closed"
          /\ xfail' = TRUE
          /\ dpc' = "data_ack"
          /\ UNCHANGED tx
    /\ UNCHANGED <<sizes, res, rx, ppc, pn, accepted>>

(***************************************************************************)
(* The consumer and the network.                                           *)
(***************************************************************************)

IsHeader(b) == \E c \in 1 .. MaxX, n \in Sizes : b = Hdr(c, n)

(* The connection is reset: what is in flight is lost.                     *)
Reset ==
    /\ conn' = "reset"
    /\ tx' = << >>
    /\ rx' = << >>

PeerHeader ==
    /\ conn = "up" /\ ppc = "hdr" /\ Len(tx) >= HdrLen
    /\ LET h == SubSeq(tx, 1, HdrLen) IN
       IF IsHeader(h)
       THEN /\ tx' = Drop(tx, HdrLen)
            /\ \E f \in Fourth : rx' = rx \o Ack(f)
            /\ pn' = h[1][3]
            /\ ppc' = IF h[1][3] > 0 THEN "data" ELSE "hdr"
            /\ UNCHANGED conn
       ELSE Reset /\ UNCHANGED <<ppc, pn>>
    /\ UNCHANGED <<dpc, sizes, res, xfail, accepted>>

PeerPayload ==
    /\ conn = "up" /\ ppc = "data" /\ Len(tx) >= pn
    /\ accepted' = Append(accepted, SubSeq(tx, 1, pn))
    /\ tx' = Drop(tx, pn)
    /\ \E f \in Fourth : rx' = rx \o Ack(f)
    /\ ppc' = "hdr"
    /\ UNCHANGED <<dpc, sizes, res, xfail, conn, pn>>

ConnReset ==
    /\ Resets /\ conn = "up"
    /\ Reset
    /\ UNCHANGED <<dpc, sizes, res, xfail, ppc, pn, accepted>>

Init ==
    /\ dpc = "idle"
    /\ sizes = << >>
    /\ res = << >>
    /\ xfail = FALSE
    /\ tx = << >>
    /\ rx = << >>
    /\ conn = "up"
    /\ ppc = "hdr"
    /\ pn = 0
    /\ accepted = << >>

Device == RecvAck \/ SendPayload
Peer == PeerHeader \/ PeerPayload

Next ==
    \/ \E n \in Sizes : SendHeader(n)
    \/ Device
    \/ Peer
    \/ ConnReset

(* The device thread and the consumer run whenever they can; a reset is a *)
(* fault and need not happen.  Starting the next call is up to the loop.  *)
Spec == Init /\ [][Next]_vars /\ WF_vars(Device) /\ WF_vars(Peer)

-----------------------------------------------------------------------------

TypeOK ==
    /\ dpc \in DPcs
    /\ sizes \in Seq(Sizes) /\ Len(sizes) <= MaxX
    /\ res \in Seq([rc : {0, -1, 1}, transport : BOOLEAN])
    /\ Len(res) <= Len(sizes)
    /\ xfail \in BOOLEAN
    /\ tx \in Seq(TxBytes)
    /\ rx \in Seq(RxBytes)
    /\ conn \in {"up", "reset", "closed"}
    /\ ppc \in {"hdr", "data"}
    /\ pn \in {0} \cup Sizes
    /\ accepted \in Seq(Seq(TxBytes))

(* The exchange a payload the consumer took belongs to, 0 if it is not    *)
(* one whole payload the device sent.                                      *)
PayloadId(sz, p) ==
    IF \E c \in 1 .. Len(sz) : sz[c] > 0 /\ p = Payload(c, sz[c])
    THEN CHOOSE c \in 1 .. Len(sz) : sz[c] > 0 /\ p = Payload(c, sz[c])
    ELSE 0

IdOf(p) == PayloadId(sizes, p)

(* The consumer takes only whole payloads of device_daq_send_dif, each    *)
(* once, in the order of the calls: framing by header size and ACKs is    *)
(* never lost.                                                             *)
StreamIntegrity ==
    \A i \in 1 .. Len(accepted) :
        /\ IdOf(accepted[i]) # 0
        /\ i > 1 => IdOf(accepted[i - 1]) < IdOf(accepted[i])

(* Every call of device_daq_send_dif returns: the readout loop is never   *)
(* stuck in a blocking send or recv of the DIF exchange.                  *)
ExchangeEnds == (dpc # "idle") ~> (dpc = "idle")

(* A call whose send or recv failed at the transport returns -1, as spec  *)
(* 4.3 says, so the caller can tell a dead link from a bad answer.        *)
ErrorClassified ==
    \A i \in 1 .. Len(res) : res[i].transport => res[i].rc = -1

(* A transport failure leaves the daemon running, the connection there   *)
(* for the next cycle (spec 4.3); the program is never killed by the      *)
(* SIGPIPE of a send on the reset connection.                             *)
SurvivesReset == dpc # "killed"

(* The refinement: the consumer's payloads, read by their exchange, and   *)
(* the results behave as the abstract channel allows.                     *)
Chan == INSTANCE DifChannel
        WITH got <- [i \in 1 .. Len(accepted) |-> IdOf(accepted[i])],
             res <- [i \in 1 .. Len(res) |-> res[i].rc]

DifChannelSpec == Chan!ASpec

=============================================================================

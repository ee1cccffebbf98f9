------------------------------ MODULE DifChannel ------------------------------
(***************************************************************************)
(* What the DIF streaming protocol promises for one module (spec 4.3):    *)
(* each cycle the device runs one exchange that ends with a result of     *)
(* 0, -1 (transport error) or 1 (protocol error); the consumer receives   *)
(* payloads the device sent, each whole, at most once and in cycle order; *)
(* and a result of 0 means the consumer has this cycle's payload.         *)
(***************************************************************************)
EXTENDS Integers, Sequences

CONSTANTS
    MaxX,    \* number of exchanges (cycles) considered
    Sizes    \* payload lengths a cycle may have

VARIABLES
    sizes,   \* sizes[c]: payload length of exchange c, for started ones
    res,     \* res[c]: the result of exchange c, for finished ones
    got      \* the exchanges whose payload the consumer received, in order

avars == <<sizes, res, got>>

Results == {0, -1, 1}

(* An exchange is running: started and not finished.                      *)
Open == Len(res) < Len(sizes)

Received(c) == \E i \in 1 .. Len(got) : got[i] = c

AInit ==
    /\ sizes = << >>
    /\ res = << >>
    /\ got = << >>

AStart(n) ==
    /\ ~Open
    /\ Len(sizes) < MaxX
    /\ sizes' = Append(sizes, n)
    /\ UNCHANGED <<res, got>>

(* The consumer receives the payload of an exchange after the last one it *)
(* received; the exchange may have ended already (its ACK may be lost).   *)
ADeliver(c) ==
    /\ c \in 1 .. Len(sizes)
    /\ sizes[c] > 0
    /\ got = << >> \/ got[Len(got)] < c
    /\ got' = Append(got, c)
    /\ UNCHANGED <<sizes, res>>

AFinish(r) ==
    /\ Open
    /\ r = 0 => (sizes[Len(sizes)] = 0 \/ Received(Len(sizes)))
    /\ res' = Append(res, r)
    /\ UNCHANGED <<sizes, got>>

ANext ==
    \/ \E n \in Sizes : AStart(n)
    \/ \E c \in 1 .. MaxX : ADeliver(c)
    \/ \E r \in Results : AFinish(r)

(* Every exchange ends: the loop goes on to the next module.              *)
ASpec == AInit /\ [][ANext]_avars /\ WF_avars(\E r \in Results : AFinish(r))

=============================================================================

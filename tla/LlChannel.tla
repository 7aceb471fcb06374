----------------------------- MODULE LlChannel -----------------------------
(***************************************************************************)
(* What a link-layer connection promises to the two hosts: in each         *)
(* direction a first-in first-out stream.  Every octet a host hands over   *)
(* reaches the other host at most once, in order and with the boundaries   *)
(* of its packet; while both ends stay connected, it does reach it.        *)
(***************************************************************************)
EXTENDS Naturals, Sequences

CONSTANTS
    Dev,            \* the two ends
    Peer,           \* the other end
    Packet          \* the packets hosts hand over, as sequences of octets

VARIABLES
    sent,           \* the octets handed over at an end
    rcvd,           \* the octets from an end that have reached the other host
    up              \* the end has the connection

vars == <<sent, rcvd, up>>

Init ==
    /\ sent = [d \in Dev |-> <<>>]
    /\ rcvd = [d \in Dev |-> <<>>]
    /\ up = [d \in Dev |-> TRUE]

Send(d) ==
    /\ up[d]
    /\ \E p \in Packet : sent' = [sent EXCEPT ![d] = @ \o p]
    /\ UNCHANGED <<rcvd, up>>

\* Some of the octets on their way from d arrive.
Deliver(d) ==
    /\ up[Peer[d]]
    /\ \E n \in Len(rcvd[d]) + 1 .. Len(sent[d]) :
            rcvd' = [rcvd EXCEPT ![d] = SubSeq(sent[d], 1, n)]
    /\ UNCHANGED <<sent, up>>

Close(d) ==
    /\ up[d]
    /\ up' = [up EXCEPT ![d] = FALSE]
    /\ UNCHANGED <<sent, rcvd>>

Next == \E d \in Dev : Send(d) \/ Deliver(d) \/ Close(d)

Spec == Init /\ [][Next]_vars

\* While both ends are up, what is on its way does not stay there.
FairSpec == Spec /\ \A d \in Dev : WF_vars(up[d] /\ Deliver(d))
=============================================================================

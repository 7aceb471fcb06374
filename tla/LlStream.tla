------------------------------ MODULE LlStream ------------------------------
(***************************************************************************)
(* What the two ends of the connection of LlConn, ble_ll_conn.c, are for:  *)
(* the octets the hosts send through it, and the reliable stream it is in  *)
(* each direction.                                                         *)
(***************************************************************************)
EXTENDS LlConn, SequencesExt

\* The octets of the first n packets of a scenario.
Octets(i, len) == [k \in 1 .. len |-> <<i, k, k = 1>>]
OctetsOf(lens) == FlattenSeq([i \in DOMAIN lens |-> Octets(i, lens[i])])
Sent == [s \in Scenario |-> [d \in Dev |-> [n \in 0 .. Len(s.pkts[d]) |->
            OctetsOf(SubSeq(s.pkts[d], 1, n))]]]

\* The octets received PDUs will bring the host, once those the link-layer
\* task takes for repetitions are dropped.
FreshOctets(q, last_rxd_sn) ==
    FoldLeft(LAMBDA acc, r : IF r = NONE \/ r.sn = acc.sn THEN acc
                             ELSE [n |-> acc.n + Len(r.octets), sn |-> r.sn],
             [n |-> 0, sn |-> last_rxd_sn], q).n

Data(q) == SelectSeq(q, LAMBDA p : p.kind = "data")
Left(q) == FoldLeft(LAMBDA n, p : n + p.len - p.off, 0, Data(q))

\* What the sender takes for acknowledged, the receiver has: delivered, or
\* queued for its link-layer task, which will not take it for a repetition.
\* The receiver is ahead by at most the PDU the sender is repeating.  And an
\* acknowledgement on its way finds its PDU at the head of conn_txq: the branch
\* "No packet on queue? This is an error!" is never taken.
AckedIsHeld ==
    \A d \in Dev :
        LET c == conn[d]
            p == Peer[d]
            held == Len(rcvd[d]) + FreshOctets(rxq[p], conn[p].last_rxd_sn)
            acked == Len(Sent[sc][d][nsent[d]]) - Left(c.txq)
            ahead == IF c.txq # <<>> /\ Head(c.txq).txd THEN Head(c.txq).pl ELSE 0
        IN  /\ c.up /\ conn[p].up => held \in acked .. acked + ahead
            /\ air # NONE /\ air.from = p /\ c.up /\ Acked(c, air) =>
                    c.txq # <<>> /\ Head(c.txq).txd

\* The connection is a reliable stream in each direction.
Chan == INSTANCE LlChannel WITH
            Dev <- Dev, Peer <- Peer,
            Packet <- UNION {{Octets(i, s.pkts[d][i]) : i \in DOMAIN s.pkts[d]} :
                                s \in Scenario, d \in Dev},
            sent <- [d \in Dev |-> Sent[sc][d][nsent[d]]],
            rcvd <- rcvd,
            up <- [d \in Dev |-> conn[d].up]
Streams == Chan!FairSpec
=============================================================================

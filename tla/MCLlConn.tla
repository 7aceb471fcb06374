------------------------------ MODULE MCLlConn ------------------------------
(* A packet from either end, whole or in fragments, and the ways a          *)
(* connection ends.                                                        *)
EXTENDS LlStream, TLC

CONSTANTS mas, sla
MCTxOctets == {1, 2}
On(m, s) == (mas :> m) @@ (sla :> s)
Quiet == [pkts |-> On(<<>>, <<>>), disconnects |-> {}, updates |-> {}, silences |-> {},
          rxbufs |-> On(1, 1)]
MCScenario ==
    {[Quiet EXCEPT !.pkts = On(<<2>>, <<>>), !.updates = {mas}],
     [Quiet EXCEPT !.pkts = On(<<1>>, <<>>), !.rxbufs = On(1, 2)],
     [Quiet EXCEPT !.pkts = On(<<>>, <<2>>), !.disconnects = {mas}],
     [Quiet EXCEPT !.pkts = On(<<1>>, <<>>), !.disconnects = {sla}],
     [Quiet EXCEPT !.silences = {sla}]}
=============================================================================

------------------------------ MODULE MCOsMbuf ------------------------------
(* OsMbuf for TLC: one task that builds packets, with two chains in hand.  *)
EXTENDS OsMbuf

MCUsrHdrs == {0}
MCSpaces == {0, 1}
MCLens == {1, 3}

\* Every call with three blocks; and with four, what moves bytes between mbufs.
MCUse ==
    {[blocks |-> 3, maxlen |-> 3,
      calls |-> {"append", "dup", "adj", "prepend", "copyinto", "concat", "extend", "pullup",
                "rx_req"}],
     [blocks |-> 4, maxlen |-> 4, calls |-> {"append", "dup", "adj", "concat", "pullup"}]}

MCSymmetry == Permutations(Block) \cup Permutations(Hand)
=============================================================================

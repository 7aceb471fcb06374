------------------------------- MODULE MCNffs -------------------------------
(* Small file systems that fill up after a few records.                      *)
EXTENDS Nffs

MCName == {1, 2}
MCByte == {1, 2}
Calls == {"new", "append", "over", "unlink", "truncate", "rename"}

(* Two areas of seven units: two directories and, say, a file of two blocks. *)
Small == [areas |-> 2, len |-> 7, maxData |-> 1, malloc |-> {TRUE}, ops |-> Calls,
          names |-> MCName, chunks |-> {<<1>>}, files |-> 2, blocks |-> 2, chain |-> 2,
          restarts |-> 1, cuts |-> {"write"}]

MCScenario ==
    {[Small EXCEPT !.ops = Calls \ {"truncate"}],
     \* files of three blocks
     [Small EXCEPT !.names = {1}, !.len = 9, !.blocks = 3, !.chain = 3],
     \* power losses inside a collection and its copies
     [Small EXCEPT !.names = {1}, !.files = 3, !.blocks = 3, !.chain = 1, !.restarts = 2,
                   !.cuts = {"gc", "write", "copy"}],
     \* a file spread over two areas
     [Small EXCEPT !.areas = 3, !.len = 5, !.ops = {"new", "append"}, !.blocks = 3,
                   !.restarts = 2, !.cuts = {"gc", "write"}],
     \* blocks joined by the collection, or not for want of memory
     [Small EXCEPT !.ops = Calls \ {"over", "truncate"}, !.maxData = 2,
                   !.cuts = {"gc", "write"}],
     [Small EXCEPT !.names = {1}, !.maxData = 2, !.malloc = {FALSE}, !.restarts = 2]}

(* A power loss inside the collection of a file of two blocks.               *)
MCGcCut == {[Small EXCEPT !.cuts = {"gc"}]}
=============================================================================

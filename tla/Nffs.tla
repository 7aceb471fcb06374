-------------------------------- MODULE Nffs --------------------------------
(* The Newtron flash file system (fs/nffs): files of the root directory as a *)
(* log of inode and block records spread over flash areas, the tables in RAM *)
(* that point into it, garbage collection into the scratch area, a power     *)
(* loss between any two flash writes, and the rebuilding of the tables when  *)
(* the system starts.                                                        *)
EXTENDS Integers, Sequences, FiniteSets, SequencesExt

CONSTANTS
    Name,           \* file names (numbers, in the order strcmp gives them)
    Byte,           \* what a file holds
    Scenario,       \* the systems to look at, and the bounds for each
    MaxSeq,         \* bound: sequence number of a record
    MaxGc           \* bound: collections of an area before the last operation

VARIABLES
    sc,             \* the scenario, fixed
    flash,          \* the areas
    ram,            \* hash table, the root's child list, next IDs, scratch area
    op,             \* the operation under way and the record it will write
    gc,             \* the garbage collection under way
    up,             \* "up", "down", "corrupt" (detection failed)
    fs,             \* what the application wrote: the file of every name
    may,            \* after a restart: what the files may be
    restarts
vars == <<sc, flash, ram, op, gc, up, fs, may, restarts>>

(* A scenario: the number of areas and their length (an inode takes 1, a     *)
(* block 1 and its data), nffs_block_max_data_sz, what malloc may answer a   *)
(* collation, the calls the application makes and the chunks it appends, the *)
(* file and block IDs to hand out, the blocks of a file, the restarts, and   *)
(* where the power may fail besides between two operations: "gc" between two *)
(* steps of a collection, "write", "copy" and "erase" inside one flash       *)
(* operation.                                                                *)
ScenarioType ==
    [areas : Nat, len : Nat, maxData : Nat, malloc : SUBSET BOOLEAN,
     ops : SUBSET {"new", "append", "over", "unlink", "truncate", "rename"},
     names : SUBSET Name, chunks : SUBSET Seq(Byte), files : Nat, blocks : Nat, chain : Nat,
     restarts : Nat, cuts : SUBSET {"gc", "write", "copy", "erase"}]
ASSUME NffsAssumption ==
    /\ Name \subseteq Nat \ {0} /\ Byte \subseteq Nat
    /\ \A s \in Scenario : /\ s \in ScenarioType
                           /\ s.areas > 1 /\ s.files <= 10 /\ s.blocks <= 10
                           /\ \A data \in s.chunks : Len(data) \in 1..s.maxData

NONE == -1
NoKey == <<NONE, 0>>
NoLoc == <<NONE, 0>>
NoFile == <<NONE>>
Area == 0..(sc.areas - 1)

ROOT_DIR == 0
LOST_FOUND == 1
nffs_hash_id_is_dir(id) == id \in 0..9
nffs_hash_id_is_file(id) == id \in 10..19
FileId == 10..(9 + sc.files)
BlockId == 20..(19 + sc.blocks)
nffs_hash_fn(id) == id % 10

(* A record on flash. A block whose bytes do not match its checksum is bad.  *)
Inode(id, seq, parent, name) ==
    [t |-> "inode", id |-> id, seq |-> seq, parent |-> parent, name |-> name]
Block(id, seq, ino, prev, data) ==
    [t |-> "block", id |-> id, seq |-> seq, ino |-> ino, prev |-> prev, data |-> data]
Blank == [t |-> "blank"]

Size(rec) == CASE rec.t = "inode" -> 1
               [] rec.t = "block" -> 1 + Len(rec.data)
               [] OTHER           -> rec.size
na_cur(area) == FoldLeft(LAMBDA n, rec : n + Size(rec), 0, area.log)
Free(area) == sc.len - na_cur(area)

RecAt(f, loc) ==
    IF loc[1] \in Area /\ loc[2] \in DOMAIN f[loc[1]].log
    THEN f[loc[1]].log[loc[2]] ELSE Blank

(* nffs_flash_write at the end of an area; the location of the record.       *)
Written(f, a, rec) == [f EXCEPT ![a].log = Append(@, rec)]
EndOf(f, a) == <<a, Len(f[a].log) + 1>>

-----------------------------------------------------------------------------
(* The table of blocks is keyed by ID and a serial number: an entry that     *)
(* could not be deleted stays behind the newer one of the same ID.           *)
nffs_hash_find_block(r, id) ==
    LET hits == {k \in DOMAIN r.blk : k[1] = id}
    IN  IF hits = {} THEN NoKey ELSE CHOOSE k \in hits : \A j \in hits : j[2] <= k[2]
NewKey(r, id) ==
    LET k == nffs_hash_find_block(r, id) IN IF k = NoKey THEN <<id, 0>> ELSE <<id, k[2] + 1>>

Without(fn, x) == [y \in DOMAIN fn \ {x} |-> fn[y]]
With(fn, x, v) == [y \in DOMAIN fn \cup {x} |-> IF y = x THEN v ELSE fn[y]]

(* nffs_block_from_hash_entry: its success, and the previous block.          *)
BlockFound(f, r, key) ==
    LET rec == RecAt(f, r.blk[key])
    IN  /\ rec.t = "block"
        /\ rec.ino \in DOMAIN r.ino
        /\ rec.prev # NONE => nffs_hash_find_block(r, rec.prev) # NoKey
nb_prev(f, r, key) == nffs_hash_find_block(r, RecAt(f, r.blk[key]).prev)

(* The block entries of a file, last block first, up to one not found.       *)
Chain(f, r, last) ==
    LET walk[n \in 0..sc.blocks] ==
            IF n = 0 THEN last
            ELSE IF walk[n - 1] = NoKey \/ ~BlockFound(f, r, walk[n - 1]) THEN NoKey
            ELSE nb_prev(f, r, walk[n - 1])
    IN  SelectSeq([n \in 1..(sc.blocks + 1) |-> walk[n - 1]], LAMBDA k : k # NoKey)
nffs_inode_read(f, r, i) ==
    FlattenSeq([n \in 1..Len(Chain(f, r, r.ino[i].last)) |->
        LET rec == RecAt(f, r.blk[Reverse(Chain(f, r, r.ino[i].last))[n]])
        IN  IF rec.t = "block" THEN rec.data ELSE NoFile])

(* nffs_block_delete_from_ram: nothing happens when the block is not found.  *)
nffs_block_delete_from_ram(f, r, key) ==
    IF ~BlockFound(f, r, key) THEN r
    ELSE LET i == RecAt(f, r.blk[key]).ino
         IN  [r EXCEPT !.ino[i].last = IF @ = key THEN nb_prev(f, r, key) ELSE @,
                       !.blk = Without(@, key)]

(* nffs_inode_delete_from_ram: the blocks from the last on, then the inode;  *)
(* a block that is not found ends it, and the inode stays, unreferenced.     *)
(* Bug: only the last block goes.                                            *)
nffs_inode_delete_from_ram_one(f, r, i) ==
    LET done == nffs_block_delete_from_ram(f, r, r.ino[i].last)
    IN  [IF r.ino[i].last = NoKey THEN r ELSE done EXCEPT !.ino = Without(@, i)]
nffs_inode_delete_from_ram(f, r, i) ==
    LET step(s, n) == IF s.ino[i].last = NoKey THEN s
                      ELSE nffs_block_delete_from_ram(f, s, s.ino[i].last)
        done == FoldLeft(step, [r EXCEPT !.ino[i].ref = 0], [n \in 1..sc.blocks |-> n])
    IN  IF done.ino[i].last = NoKey THEN [done EXCEPT !.ino = Without(@, i)] ELSE done

(* The root's list of children: an inode goes before the first greater name; *)
(* a search ends at the first greater name.                                  *)
NameOf(f, r, i) == RecAt(f, r.ino[i].loc).name
(* Bug: the list of children is not kept in order.                           *)
nffs_inode_add_child_last(f, r, i) == [r EXCEPT !.kids = Append(@, i)]
nffs_inode_add_child(f, r, i) ==
    LET n == SelectInSeq(r.kids, LAMBDA j : NameOf(f, r, i) < NameOf(f, r, j))
    IN  [r EXCEPT !.kids = InsertAt(@, IF n = 0 THEN Len(@) + 1 ELSE n, i)]
nffs_inode_remove_child(r, i) == [r EXCEPT !.kids = SelectSeq(@, LAMBDA j : j # i)]
nffs_path_find_child(f, r, name) ==
    LET n == SelectInSeq(r.kids, LAMBDA j : NameOf(f, r, j) >= name)
    IN  IF n # 0 /\ NameOf(f, r, r.kids[n]) = name THEN r.kids[n] ELSE NONE

(* nffs_inode_unlink_from_ram of a file without open handles.                *)
nffs_inode_unlink_from_ram(f, r, i) ==
    nffs_inode_delete_from_ram(f, nffs_inode_remove_child(r, i), i)

(* What an application that opens and reads every name finds.                *)
View(f, r) == [name \in Name |->
    LET i == nffs_path_find_child(f, r, name)
    IN  IF i = NONE THEN NoFile ELSE nffs_inode_read(f, r, i)]

-----------------------------------------------------------------------------
(* Restoring the tables from flash.                                          *)

(* A dummy stands for an inode that a record refers to before it is read.    *)
nffs_restore_dummy_inode(r, i) ==
    IF i = NONE \/ i \in DOMAIN r.ino THEN r
    ELSE [r EXCEPT !.ino = With(@, i, [loc |-> NoLoc, last |-> NoKey, ref |-> 0])]

nffs_restore_inode(f, r, loc, rec) ==
    LET known == rec.id \in DOMAIN r.ino
        old == r.ino[rec.id]
        new == [loc |-> loc, last |-> IF known THEN old.last ELSE NoKey, ref |-> 1]
        put == nffs_restore_dummy_inode([nffs_inode_remove_child(r, rec.id) EXCEPT
                                            !.ino = With(@, rec.id, new)], rec.parent)
        added == IF rec.parent = NONE THEN put ELSE nffs_inode_add_child(f, put, rec.id)
    IN  IF known /\ old.ref > 0 /\ RecAt(f, old.loc).seq >= rec.seq THEN r
        ELSE IF nffs_hash_id_is_dir(rec.id) THEN added
        ELSE [added EXCEPT !.nextFile = IF rec.id >= @ THEN rec.id + 1 ELSE @]

(* Bug: the block read last is taken for the last block of the file.         *)
nffs_restore_block_last(f, r, loc, rec) ==
    LET old == nffs_hash_find_block(r, rec.id)
        base == nffs_restore_dummy_inode(
                    IF old = NoKey THEN r ELSE nffs_block_delete_from_ram(f, r, old), rec.ino)
        key == NewKey(base, rec.id)
    IN  IF old # NoKey /\ RecAt(f, r.blk[old]).seq >= rec.seq THEN r
        ELSE [base EXCEPT !.blk = With(@, key, loc), !.ino[rec.ino].last = key,
                          !.nextBlk = IF rec.id >= @ THEN rec.id + 1 ELSE @]
(* Bug: the next block ID may be one that is in use.                         *)
nffs_restore_block_reuse(f, r, loc, rec) ==
    LET base == nffs_restore_dummy_inode(r, rec.ino)
        key == NewKey(base, rec.id)
        last == base.ino[rec.ino].last
    IN  IF nffs_hash_find_block(r, rec.id) # NoKey THEN r
        ELSE [base EXCEPT !.blk = With(@, key, loc),
                          !.ino[rec.ino].last =
                              IF last = NoKey \/ last[1] = rec.prev THEN key ELSE last,
                          !.nextBlk = IF rec.id > @ THEN rec.id + 1 ELSE @]
nffs_restore_block(f, r, loc, rec) ==
    LET old == nffs_hash_find_block(r, rec.id)
        base == nffs_restore_dummy_inode(
                    IF old = NoKey THEN r ELSE nffs_block_delete_from_ram(f, r, old), rec.ino)
        key == NewKey(base, rec.id)
        last == base.ino[rec.ino].last
    IN  IF old # NoKey /\ RecAt(f, r.blk[old]).seq >= rec.seq THEN r
        ELSE [base EXCEPT !.blk = With(@, key, loc),
                          !.ino[rec.ino].last =
                              IF last = NoKey \/ last[1] = rec.prev THEN key ELSE last,
                          !.nextBlk = IF rec.id >= @ THEN rec.id + 1 ELSE @]

CrcOk(rec) == \A n \in DOMAIN rec.data : rec.data[n] # NONE

nffs_restore_area_contents(f, r, a) ==
    LET read(s, n) == LET rec == f[a].log[n]
                      IN  CASE rec.t = "inode" -> nffs_restore_inode(f, s, <<a, n>>, rec)
                            [] rec.t = "block" /\ CrcOk(rec) ->
                                   nffs_restore_block(f, s, <<a, n>>, rec)
                            [] OTHER -> s
    IN  FoldLeft(read, r, [n \in 1..Len(f[a].log) |-> n])

(* The pair of areas with one ID that an interrupted collection leaves:      *)
(* <<good, bad>>, the shorter one being the bad one.                         *)
(* Bug: the last area is not looked at.                                      *)
nffs_area_find_corrupt_scratch_short(f) ==
    LET pairs == {p \in Area \X (Area \ {sc.areas - 1}) :
                     /\ p[1] < p[2] /\ f[p[1]].magic /\ f[p[2]].magic /\ f[p[1]].id = f[p[2]].id}
        p == CHOOSE q \in pairs : TRUE
    IN  IF pairs = {} THEN <<NONE, NONE>>
        ELSE IF na_cur(f[p[1]]) < na_cur(f[p[2]]) THEN <<p[2], p[1]>> ELSE p
nffs_area_find_corrupt_scratch(f) ==
    LET pairs == {p \in Area \X Area : /\ p[1] < p[2] /\ f[p[1]].magic /\ f[p[2]].magic
                                       /\ f[p[1]].id = f[p[2]].id}
        p == CHOOSE q \in pairs : TRUE
    IN  IF pairs = {} THEN <<NONE, NONE>>
        ELSE IF na_cur(f[p[1]]) < na_cur(f[p[2]]) THEN <<p[2], p[1]>> ELSE p

(* The objects of the bad area are dropped from RAM, blocks in the order of  *)
(* the hash table; one whose predecessor is gone makes the whole fail.       *)
Invalidate(f, r, bad) ==
    LET doomed == {k \in DOMAIN r.blk : r.blk[k][1] = bad}
        drop(s, k) == IF s.ok /\ BlockFound(f, s.r, k)
                      THEN [s EXCEPT !.r = nffs_block_delete_from_ram(f, s.r, k)]
                      ELSE [s EXCEPT !.ok = FALSE]
        dropped == FoldLeft(drop, [ok |-> TRUE, r |-> r],
                            SetToSortSeq(doomed, LAMBDA j, k : j[1] < k[1]))
    IN  [dropped EXCEPT !.r.ino = [i \in DOMAIN @ |->
            IF @[i].loc[1] = bad THEN [@[i] EXCEPT !.ref = 0] ELSE @[i]]]

ChainWhole(f, r, i) == \A n \in DOMAIN Chain(f, r, r.ino[i].last) :
    BlockFound(f, r, Chain(f, r, r.ino[i].last)[n])
nffs_restore_should_sweep_inode_entry(f, r, i) ==
    \/ r.ino[i].ref = 0
    \/ i # ROOT_DIR /\ RecAt(f, r.ino[i].loc).parent = NONE
    \/ nffs_hash_id_is_file(i) /\ ~ChainWhole(f, r, i)

HashOrder(S, dirsFirst) ==
    SetToSortSeq(S, LAMBDA i, j : \/ nffs_hash_fn(i) < nffs_hash_fn(j)
                                  \/ nffs_hash_fn(i) = nffs_hash_fn(j) /\ dirsFirst = (i < j))

(* The sweep ends early when an inode cannot be deleted (its error is not    *)
(* looked at).                                                               *)
nffs_restore_sweep(f, r) ==
    LET sweep(s, i) ==
            IF s.stop \/ ~nffs_restore_should_sweep_inode_entry(f, s.r, i) THEN s
            ELSE LET d == nffs_inode_unlink_from_ram(f, s.r, i)
                 IN  [r |-> d, stop |-> i \in DOMAIN d.ino]
    IN  FoldLeft(sweep, [r |-> r, stop |-> FALSE], HashOrder(DOMAIN r.ino, TRUE)).r

NoOp == [k |-> "none"]
NoGc == [on |-> FALSE, rounds |-> 0]
EmptyRam == [ino |-> <<>>, blk |-> <<>>, kids |-> <<>>, scratch |-> NONE, nextFile |-> 10, nextBlk |-> 20]
Formatted(area, scratch, seq) ==
    [magic |-> TRUE, id |-> IF scratch THEN NONE ELSE area, gc |-> seq, log |-> <<>>]
Erased == [magic |-> FALSE, id |-> NONE, gc |-> 0, log |-> <<>>]

nffs_restore_full(f) ==
    LET scratches == {a \in Area : f[a].magic /\ f[a].id = NONE}
        used == SetToSortSeq({a \in Area : f[a].magic} \ scratches, <)
        read == FoldLeft(LAMBDA r, a : nffs_restore_area_contents(f, r, a), EmptyRam, used)
        pair == nffs_area_find_corrupt_scratch(f)
        inv == Invalidate(f, read, pair[2])
        again == nffs_restore_area_contents(f, inv.r, pair[1])
        repaired == [f EXCEPT ![pair[2]] = Formatted(pair[2], TRUE, @.gc)]
        whole == scratches # {}
        g == IF whole THEN f ELSE repaired
        r == IF whole THEN read ELSE again
        ok == /\ whole \/ (pair[1] # NONE /\ inv.ok)
              /\ ROOT_DIR \in DOMAIN r.ino
    IN  IF ~ok THEN [ok |-> FALSE, flash |-> f, ram |-> EmptyRam]
        ELSE [ok |-> TRUE, flash |-> g,
              ram |-> [nffs_restore_sweep(g, r) EXCEPT
                          !.scratch = IF whole THEN CHOOSE a \in scratches : TRUE ELSE pair[2]]]

-----------------------------------------------------------------------------
(* The state after nffs_format: of areas as long as each other the first is  *)
(* scratch; the others are empty but for the two directories.                *)
Init ==
    /\ sc \in Scenario
    /\ flash = [a \in Area |->
         [Formatted(a, a = 0, 0) EXCEPT
             !.log = IF a = 1 THEN <<Inode(ROOT_DIR, 0, NONE, 0), Inode(LOST_FOUND, 0, ROOT_DIR, 0)>>
                     ELSE <<>>]]
    /\ ram = [EmptyRam EXCEPT !.scratch = 0, !.kids = <<LOST_FOUND>>,
                 !.ino = [i \in {ROOT_DIR, LOST_FOUND} |->
                             [loc |-> <<1, i + 1>>, last |-> NoKey, ref |-> 1]]]
    /\ op = NoOp /\ gc = NoGc /\ up = "up" /\ restarts = 0
    /\ fs = [name \in Name |-> NoFile] /\ may = {}

Idle == up = "up" /\ op = NoOp
May(call) == call \in sc.ops /\ Idle /\ \A a \in Area : flash[a].gc <= MaxGc
Begin(o) == /\ op' = o /\ may' = {} /\ gc' = NoGc
            /\ UNCHANGED <<sc, flash, up, fs, restarts>>
Find(name) == nffs_path_find_child(flash, ram, name)
InodeRec(i) == RecAt(flash, ram.ino[i].loc)

(* The records that a new file, a deletion and a rename write. Each value    *)
(* comes from the state before space is reserved.                            *)
NewFile(name, was) ==
    [k |-> "new", id |-> ram.nextFile, rec |-> Inode(ram.nextFile, 0, ROOT_DIR, name),
     post |-> [was EXCEPT ![name] = <<>>], then |-> NoOp]
Deletion(i, name, then) ==
    [k |-> "unlink", id |-> i, rec |-> Inode(i, InodeRec(i).seq + 1, NONE, 0),
     post |-> [fs EXCEPT ![name] = NoFile], then |-> then]
Renaming(i, from, to) ==
    [k |-> "rename", id |-> i, rec |-> [InodeRec(i) EXCEPT !.seq = @ + 1, !.name = to],
     post |-> [fs EXCEPT ![to] = fs[from], ![from] = NoFile], then |-> NoOp]

(* nffs_file_open of a file that is not there.                               *)
nffs_file_new(name) ==
    /\ May("new") /\ Find(name) = NONE /\ ram.nextFile \in FileId
    /\ Begin(NewFile(name, fs)) /\ UNCHANGED ram

(* nffs_file_open with FS_ACCESS_TRUNCATE: unlink, then a new file.          *)
nffs_file_truncate(name) ==
    /\ May("truncate") /\ Find(name) # NONE /\ ram.nextFile \in FileId
    /\ Begin(Deletion(Find(name), name, NewFile(name, fs))) /\ UNCHANGED ram

nffs_path_unlink(name) ==
    /\ May("unlink") /\ Find(name) # NONE
    /\ Begin(Deletion(Find(name), name, NoOp)) /\ UNCHANGED ram

(* nffs_path_rename within the root; what has the new name is unlinked first. *)
nffs_path_rename(from, to) ==
    /\ May("rename") /\ from # to /\ Find(from) # NONE /\ InodeRec(Find(from)).seq < MaxSeq
    /\ Begin(IF Find(to) = NONE THEN Renaming(Find(from), from, to)
             ELSE Deletion(Find(to), to, Renaming(Find(from), from, to)))
    /\ UNCHANGED ram

nffs_write_append(name, data) ==
    /\ May("append") /\ Find(name) # NONE /\ ram.nextBlk \in BlockId
    /\ LET i == Find(name)
       IN  /\ Len(Chain(flash, ram, ram.ino[i].last)) < sc.chain
           /\ Begin([k |-> "append", id |-> i,
                     rec |-> Block(ram.nextBlk, 0, i, ram.ino[i].last[1], data),
                     post |-> [fs EXCEPT ![name] = @ \o data], then |-> NoOp])
    /\ ram' = [ram EXCEPT !.nextBlk = @ + 1]

(* nffs_write_chunk on the n-th last block, for one byte of it: the rest of  *)
(* the block is copied from where it is before space is reserved.            *)
nffs_write_over_block(name, n, off, b) ==
    /\ May("over") /\ Find(name) # NONE
    /\ LET chain == Chain(flash, ram, ram.ino[Find(name)].last)
           key == chain[n]
           old == RecAt(flash, ram.blk[key])
           start == Len(FlattenSeq([m \in 1..(Len(chain) - n) |->
                        RecAt(flash, ram.blk[Reverse(chain)[m]]).data]))
       IN  /\ n \in DOMAIN chain /\ off \in DOMAIN old.data /\ old.seq < MaxSeq
           /\ Begin([k |-> "over", key |-> key, src |-> ram.blk[key], old |-> old, off |-> off,
                     rec |-> [old EXCEPT !.id = key[1], !.seq = @ + 1, !.data[off] = b],
                     post |-> [fs EXCEPT ![name][start + off] = b], then |-> NoOp])
    /\ UNCHANGED ram

(* nffs_misc_reserve_space: the first area with room.                        *)
Rooms == {a \in Area \ {ram.scratch} : Free(flash[a]) >= Size(op.rec)}
Room == CHOOSE a \in Rooms : \A b \in Rooms : a <= b

(* The record as it lands on flash: the part of an overwritten block that is *)
(* kept comes from where the block was when the write began.                 *)
Landing == IF op.k = "over" /\ Len(op.rec.data) > 1 /\ RecAt(flash, op.src) # op.old
           THEN [op.rec EXCEPT !.data = [n \in DOMAIN @ |-> IF n = op.off THEN @[n] ELSE NONE]]
           ELSE op.rec

(* The flash write that ends an operation, and the update of the tables.     *)
Commit ==
    /\ up = "up" /\ op # NoOp /\ ~gc.on /\ Rooms # {}
    /\ LET f == Written(flash, Room, Landing)
           loc == EndOf(flash, Room)
       IN  /\ flash' = f
           /\ ram' = CASE op.k = "new" ->
                            nffs_inode_add_child(f, [ram EXCEPT
                                !.ino = With(@, op.id, [loc |-> loc, last |-> NoKey, ref |-> 1]),
                                !.nextFile = @ + 1], op.id)
                       [] op.k = "append" ->
                            [ram EXCEPT !.blk = With(@, NewKey(ram, op.rec.id), loc),
                                        !.ino[op.id].last = NewKey(ram, op.rec.id)]
                       [] op.k = "over" -> [ram EXCEPT !.blk[op.key] = loc]
                       [] op.k = "unlink" -> nffs_inode_unlink_from_ram(f, ram, op.id)
                       [] op.k = "rename" -> [ram EXCEPT !.ino[op.id].loc = loc]
    /\ fs' = op.post /\ op' = op.then /\ gc' = NoGc
    /\ UNCHANGED <<sc, up, may, restarts>>

-----------------------------------------------------------------------------
(* Garbage collection.                                                       *)
Int8(n) == ((n + 128) % 256) - 128
nffs_gc_select_area ==
    FoldLeft(LAMBDA best, a : IF a = ram.scratch THEN best
                              ELSE IF best = ram.scratch \/ Int8(flash[a].gc - flash[best].gc) < 0
                              THEN a ELSE best,
             0, [n \in 1..(sc.areas - 1) |-> n])

(* nffs_gc_inode_blocks: the runs of a file's blocks in the source area,     *)
(* last block first, none longer than a block may be.                        *)
Runs(i, from) ==
    LET len(run) == FoldLeft(LAMBDA n, k : n + Len(RecAt(flash, ram.blk[k]).data), 0, run)
        step(s, k) ==
            IF ram.blk[k][1] # from THEN [run |-> <<>>, out |-> Append(s.out, s.run)]
            ELSE IF s.run = <<>> \/ len(Append(s.run, k)) <= sc.maxData
                 THEN [s EXCEPT !.run = Append(@, k)]
            ELSE [run |-> <<k>>, out |-> Append(s.out, s.run)]
        end == FoldLeft(step, [run |-> <<>>, out |-> <<>>], Chain(flash, ram, ram.ino[i].last))
    IN  SelectSeq(Append(end.out, end.run), LAMBDA run : run # <<>>)

(* What is copied for an inode: itself, and its runs; a run is copied block  *)
(* by block when malloc fails.                                               *)
(* Bug: objects of other areas are copied too.                               *)
Jobs_everywhere(i, from, malloc) ==
    <<[k |-> "inode", id |-> i]>> \o
    (IF ~nffs_hash_id_is_file(i) THEN <<>>
     ELSE [n \in 1..Len(Chain(flash, ram, ram.ino[i].last)) |->
              [k |-> "blocks", run |-> <<Chain(flash, ram, ram.ino[i].last)[n]>>]])
Jobs(i, from, malloc) ==
    (IF ram.ino[i].loc[1] = from THEN <<[k |-> "inode", id |-> i]>> ELSE <<>>) \o
    (IF ~nffs_hash_id_is_file(i) THEN <<>>
     ELSE FlattenSeq([n \in 1..Len(Runs(i, from)) |->
              IF malloc THEN <<[k |-> "blocks", run |-> Runs(i, from)[n]]>>
              ELSE [m \in 1..Len(Runs(i, from)[n]) |-> [k |-> "blocks", run |-> <<Runs(i, from)[n][m]>>]]]))

nffs_gc_begin ==
    /\ up = "up" /\ op # NoOp /\ ~gc.on /\ Rooms = {} /\ gc.rounds < sc.areas
    /\ \E malloc \in sc.malloc, dirsFirst \in BOOLEAN :
         LET from == nffs_gc_select_area
             order == HashOrder(DOMAIN ram.ino, dirsFirst)
         IN  /\ gc' = [on |-> TRUE, rounds |-> gc.rounds, from |-> from, to |-> ram.scratch,
                       jobs |-> FlattenSeq([n \in 1..Len(order) |-> Jobs(order[n], from, malloc)])]
             /\ flash' = [flash EXCEPT ![ram.scratch].id = flash[from].id]
    /\ UNCHANGED <<sc, ram, op, up, fs, may, restarts>>

(* nffs_gc_block_chain_collate: the run becomes one block, written with the  *)
(* ID of its first block, and kept in RAM under the entry of its last.       *)
Collated(run) ==
    LET first == RecAt(flash, ram.blk[run[Len(run)]])
    IN  [first EXCEPT !.id = run[Len(run)][1], !.seq = @ + 1,
                      !.data = FlattenSeq([n \in 1..Len(run) |->
                                   RecAt(flash, ram.blk[Reverse(run)[n]]).data])]
Copied(job) == CASE job.k = "inode" -> RecAt(flash, ram.ino[job.id].loc)
                 [] Len(job.run) = 1 -> RecAt(flash, ram.blk[job.run[1]])
                 [] OTHER -> Collated(job.run)

nffs_gc_copy_object ==
    /\ up = "up" /\ gc.on /\ gc.jobs # <<>>
    /\ LET job == Head(gc.jobs)
           loc == EndOf(flash, gc.to)
           drop(r, k) == nffs_block_delete_from_ram(flash, r, k)
       IN  /\ flash' = Written(flash, gc.to, Copied(job))
           /\ ram' = IF job.k = "inode" THEN [ram EXCEPT !.ino[job.id].loc = loc]
                     ELSE [FoldLeft(drop, ram, Tail(job.run)) EXCEPT !.blk[job.run[1]] = loc]
    /\ gc' = [gc EXCEPT !.jobs = Tail(@)]
    /\ UNCHANGED <<sc, op, up, fs, may, restarts>>

(* The source area becomes the scratch area; gc_until gives up after as many *)
(* rounds as there are areas.                                                *)
nffs_gc_end ==
    /\ up = "up" /\ gc.on /\ gc.jobs = <<>>
    /\ flash' = [flash EXCEPT ![gc.from] = Formatted(gc.from, TRUE, (@.gc + 1) % 256)]
    /\ ram' = [ram EXCEPT !.scratch = gc.from]
    /\ gc' = [on |-> FALSE, rounds |-> gc.rounds + 1]
    /\ UNCHANGED <<sc, op, up, fs, may, restarts>>
FS_EFULL ==
    /\ up = "up" /\ op # NoOp /\ ~gc.on /\ Rooms = {} /\ gc.rounds = sc.areas
    /\ op' = NoOp
    /\ UNCHANGED <<sc, flash, ram, gc, up, fs, may, restarts>>

-----------------------------------------------------------------------------
(* A power loss, with nothing or part of the current record on flash, or     *)
(* with the source area of a collection erased and its header not written.   *)
Torn(rec) == [t |-> "torn", size |-> Size(rec)]
Lost == {flash}
    \cup (IF "write" \in sc.cuts /\ op # NoOp /\ ~gc.on /\ Rooms # {}
          THEN {Written(flash, Room, Torn(op.rec))} ELSE {})
    \cup (IF "copy" \in sc.cuts /\ gc.on /\ gc.jobs # <<>>
          THEN {Written(flash, gc.to, Torn(Copied(Head(gc.jobs))))} ELSE {})
    \cup (IF "erase" \in sc.cuts /\ gc.on /\ gc.jobs = <<>>
          THEN {[flash EXCEPT ![gc.from] = Erased]} ELSE {})
Crash ==
    /\ up = "up" /\ restarts < sc.restarts /\ (gc.on => "gc" \in sc.cuts)
    /\ flash' \in Lost
    /\ may' = IF op = NoOp THEN {fs} ELSE {fs, op.post}
    /\ up' = "down" /\ ram' = EmptyRam /\ op' = NoOp
    /\ gc' = NoGc /\ restarts' = restarts + 1
    /\ UNCHANGED <<sc, fs>>

nffs_detect ==
    /\ up = "down"
    /\ LET res == nffs_restore_full(flash)
       IN  /\ flash' = res.flash /\ ram' = res.ram
           /\ up' = IF res.ok THEN "up" ELSE "corrupt"
           /\ fs' = IF res.ok THEN View(res.flash, res.ram) ELSE fs
    /\ UNCHANGED <<sc, op, gc, may, restarts>>

Next ==
    \/ \E name \in sc.names :
         \/ nffs_file_new(name) \/ nffs_file_truncate(name) \/ nffs_path_unlink(name)
         \/ \E to \in sc.names : nffs_path_rename(name, to)
         \/ \E data \in sc.chunks : nffs_write_append(name, data)
         \/ \E n \in 1..sc.chain, off \in 1..sc.maxData, b \in Byte :
                nffs_write_over_block(name, n, off, b)
    \/ Commit \/ nffs_gc_begin \/ nffs_gc_copy_object \/ nffs_gc_end \/ FS_EFULL
    \/ Crash \/ nffs_detect
Spec == Init /\ [][Next]_vars

-----------------------------------------------------------------------------
(* No area holds more than its length, the root lists each child once, and   *)
(* a running system has a scratch area.                                      *)
TypeOK ==
    /\ sc \in Scenario /\ up \in {"up", "down", "corrupt"} /\ restarts \in 0..sc.restarts
    /\ \A a \in Area : /\ flash[a].magic \in BOOLEAN /\ flash[a].id \in Area \cup {NONE}
                       /\ na_cur(flash[a]) <= sc.len
    /\ Range(ram.kids) \subseteq DOMAIN ram.ino /\ IsInjective(ram.kids)
    /\ ram.scratch \in Area \cup {NONE} /\ (up = "up" => ram.scratch # NONE)

(* An application that is between two calls reads from every file what it    *)
(* last wrote there, whatever was collected, renamed, overwritten or         *)
(* restarted since (nffs_path_find_child, nffs_inode_read).                  *)
ReadsBack == Idle => View(flash, ram) = fs

(* A power loss costs at most the call it interrupts: the files found by     *)
(* nffs_restore_full are the ones from before that call or after it. A       *)
(* truncating open and a rename onto an existing file are two calls here:    *)
(* the unlink inside them may have been done alone.                          *)
Durable == Idle /\ may # {} => fs \in may

(* nffs_detect never reports a corrupt file system: the areas an interrupted *)
(* operation or collection leaves are repaired.                              *)
Mounts == up # "corrupt"

(* nffs_gc asserts that what it copied takes no more room than what was      *)
(* there: assert(to_area->na_cur <= from_area->na_cur).                      *)
GcShrinks == gc.on /\ gc.jobs = <<>> => na_cur(flash[gc.to]) <= na_cur(flash[gc.from])

(* Whenever the system runs, in the middle of a collection too, every entry  *)
(* of the hash table leads to a record on flash that is its own: an inode    *)
(* with its ID, a block that its file's chain reaches from its last block.   *)
TablesPoint == up = "up" =>
    /\ \A i \in DOMAIN ram.ino : InodeRec(i).t = "inode" /\ InodeRec(i).id = i
    /\ \A k \in DOMAIN ram.blk :
         LET rec == RecAt(flash, ram.blk[k])
         IN  /\ rec.t = "block" /\ rec.ino \in DOMAIN ram.ino
             /\ k \in Range(Chain(flash, ram, ram.ino[rec.ino].last))

(* No ID is handed out while a record with it is still on flash, where the   *)
(* next restart would take it for a record of the new object                 *)
(* (nffs_hash_next_file_id and nffs_hash_next_block_id after a restore).     *)
FreshIds == up = "up" => \A a \in Area : \A n \in DOMAIN flash[a].log :
    LET rec == flash[a].log[n]
    IN  /\ rec.t = "inode" => rec.id < ram.nextFile
        /\ rec.t = "block" => rec.ino < ram.nextFile /\ rec.id < ram.nextBlk
=============================================================================

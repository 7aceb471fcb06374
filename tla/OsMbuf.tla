------------------------------- MODULE OsMbuf -------------------------------
(***************************************************************************)
(* Memory pools and packet buffers: os_mempool.c and os_mbuf.c, with the   *)
(* packet queue of newtmgr.  A block of the pool is free or holds an mbuf: *)
(* a window of bytes in a buffer of DataBufLen, after the packet header if *)
(* it has one, and the next mbuf of its chain.  Tasks build chains from    *)
(* one pool, which runs out, and hand them to the newtmgr task.            *)
(*                                                                         *)
(* A chain belongs to one task at a time and only the pool and the queue   *)
(* are shared, in critical sections, so that each call is one step: what   *)
(* other tasks take from the pool during a call they may as well take      *)
(* before it.  No call looks at the bytes (but os_mbuf_memcmp), so that    *)
(* callers number them: what they add at an end of a chain goes on with    *)
(* the numbers there.                                                      *)
(***************************************************************************)
EXTENDS OsMqueue, Integers, FiniteSets, SequencesExt

CONSTANTS
    NULL,
    Hand,           \* the chains that a task has in hand
    Bytes,          \* the number of different bytes
    DataBufLen,     \* omp_databuf_len
    PktHdr,         \* sizeof(struct os_mbuf_pkthdr)
    UsrHdrs,        \* the lengths of the user headers that tasks ask for
    Spaces,         \* the room that they leave before the data
    Lens,           \* the numbers of bytes that they add, trim and pull up
    Use,            \* the ways to use the pool: how many blocks it has, the
                    \* calls that tasks make, and a bound on the bytes of all
                    \* chains together
    AnyCopy         \* may os_mbuf_copyinto be called in every way?

Block == Pkt

ASSUME MbufAssumption ==
    /\ NULL \notin Block /\ IsFiniteSet(Block)
    /\ PktHdr \in 1..DataBufLen /\ UsrHdrs \subseteq 0..(DataBufLen - PktHdr)
    /\ \A u \in UsrHdrs, s \in Spaces : PktHdr + u + s <= DataBufLen
    /\ AnyCopy \in BOOLEAN
    /\ \A u \in Use : u.blocks \in 1..Cardinality(Block) /\ u.maxlen \in Nat

VARIABLES
    use,    \* the way the pool is used
    h,      \* the pool: [free: its list, mp_num_free, mb: what each block holds]
    om,     \* the chains of each task, by their first mbufs
    got,    \* the packet that the newtmgr task handles
    ref,    \* the bytes each chain should hold: of om,
    mqref,  \* of the packets in the queue,
    gotref  \* and of got

heapVars == <<use, h, om, got, ref, mqref, gotref>>
vars == <<heapVars, mqVars>>

Max2(a, b) == IF a > b THEN a ELSE b
Min2(a, b) == IF a < b THEN a ELSE b

NoMbuf == [om_off |-> 0, data |-> <<>>, om_pkthdr_len |-> 0, omp_len |-> 0, om_next |-> NULL]

OS_MBUF_IS_PKTHDR(m) == m.om_pkthdr_len >= PktHdr

\* Bug: the header's room is taken for free.
OS_MBUF_LEADINGSPACE_all(m) == m.om_off

OS_MBUF_LEADINGSPACE(m) == m.om_off - (IF OS_MBUF_IS_PKTHDR(m) THEN m.om_pkthdr_len ELSE 0)
OS_MBUF_TRAILINGSPACE(m) == DataBufLen - (m.om_off + Len(m.data))

RECURSIVE Chain(_, _)
Chain(hp, b) == IF b = NULL THEN <<>> ELSE <<b>> \o Chain(hp, hp.mb[b].om_next)

BytesOf(hp, b) == FlattenSeq([i \in 1..Len(Chain(hp, b)) |-> hp.mb[Chain(hp, b)[i]].data])

\* n bytes from x on; those that go on with the bytes of s, and those before.
Run(x, n) == [i \in 1..n |-> (x + i - 1) % Bytes]
After(s, n) == Run(IF s = <<>> THEN 0 ELSE Last(s) + 1, n)
Before(s, n) == Run(IF s = <<>> THEN 0 ELSE Head(s) + Bytes - n, n)

---------------------------------------------------------------------------
(* os_mempool.c *)

os_memblock_get(hp) ==
    IF hp.mp_num_free = 0 THEN [h |-> hp, om |-> NULL]
    ELSE [h |-> [hp EXCEPT !.free = Tail(@), !.mp_num_free = @ - 1], om |-> Head(hp.free)]

os_memblock_put(hp, b) ==
    [hp EXCEPT !.free = <<b>> \o @, !.mp_num_free = @ + 1, !.mb[b] = NoMbuf]

---------------------------------------------------------------------------
(* os_mbuf.c: each operator takes the pool and gives the pool after it. *)

os_mbuf_get(hp, lead) ==
    LET g == os_memblock_get(hp)
    IN  IF g.om = NULL THEN g
        ELSE [g EXCEPT !.h.mb[g.om] = [NoMbuf EXCEPT !.om_off = lead]]

os_mbuf_get_pkthdr(hp, usr) ==
    LET g == os_mbuf_get(hp, usr + PktHdr)
    IN  IF g.om = NULL THEN g
        ELSE [g EXCEPT !.h.mb[g.om].om_pkthdr_len = usr + PktHdr]

\* Bug: it frees the first mbuf alone.
os_mbuf_free_chain_first(hp, b) == IF b = NULL THEN hp ELSE os_memblock_put(hp, b)

RECURSIVE os_mbuf_free_chain(_, _)
os_mbuf_free_chain(hp, b) ==
    IF b = NULL THEN hp ELSE os_mbuf_free_chain(os_memblock_put(hp, b), hp.mb[b].om_next)

\* OS_MBUF_PKTHDR(b)->omp_len += n, if there is a header.
AddLen(hp, b, n) ==
    IF OS_MBUF_IS_PKTHDR(hp.mb[b]) THEN [hp EXCEPT !.mb[b].omp_len = @ + n] ELSE hp

\* The second loop of os_mbuf_append: new mbufs after last, while there are any.
RECURSIVE AppendNew(_, _, _)
AppendNew(hp, last, data) ==
    LET g == os_mbuf_get(hp, 0)
        n == Min2(DataBufLen, Len(data))
    IN  IF data = <<>> \/ g.om = NULL THEN [h |-> hp, rest |-> data]
        ELSE AppendNew([g.h EXCEPT !.mb[g.om].data = SubSeq(data, 1, n), !.mb[last].om_next = g.om],
                       g.om, SubSeq(data, n + 1, Len(data)))

\* Bug: the header counts what was asked for.
os_mbuf_append_all(hp, b, data) ==
    LET last == Last(Chain(hp, b))
        n == Min2(OS_MBUF_TRAILINGSPACE(hp.mb[last]), Len(data))
        a == AppendNew([hp EXCEPT !.mb[last].data = @ \o SubSeq(data, 1, n)], last,
                       SubSeq(data, n + 1, Len(data)))
    IN  [a EXCEPT !.h = AddLen(@, b, Len(data))]

\* It gives the bytes that there was no room for, too.
os_mbuf_append(hp, b, data) ==
    LET last == Last(Chain(hp, b))
        n == Min2(OS_MBUF_TRAILINGSPACE(hp.mb[last]), Len(data))
        a == AppendNew([hp EXCEPT !.mb[last].data = @ \o SubSeq(data, 1, n)], last,
                       SubSeq(data, n + 1, Len(data)))
    IN  [a EXCEPT !.h = AddLen(@, b, Len(data) - Len(a.rest))]

\* os_mbuf_dup from b on, after copy, the last mbuf of the duplicate so far.
\* The header is copied but not its length, so that the duplicate has none.
RECURSIVE DupRest(_, _, _, _)
DupRest(hp, head, copy, b) ==
    LET g == os_mbuf_get(hp, OS_MBUF_LEADINGSPACE(hp.mb[b]))
        linked == IF copy = NULL THEN g.h ELSE [g.h EXCEPT !.mb[copy].om_next = g.om]
        first == IF copy = NULL THEN g.om ELSE head
    IN  CASE b = NULL -> [h |-> hp, om |-> head]
          [] b # NULL /\ g.om = NULL -> [h |-> os_mbuf_free_chain(hp, head), om |-> NULL]
          [] OTHER -> DupRest([linked EXCEPT !.mb[g.om].data = hp.mb[b].data],
                              first, g.om, hp.mb[b].om_next)

os_mbuf_dup(hp, b) == DupRest(hp, NULL, NULL, b)

\* The mbuf of an offset, and the offset in it; NULL if it is beyond the end.
RECURSIVE os_mbuf_off(_, _, _)
os_mbuf_off(hp, b, off) ==
    IF b = NULL THEN [om |-> NULL, off |-> off]
    ELSE LET len == Len(hp.mb[b].data)
         IN  IF len > off \/ (len = off /\ hp.mb[b].om_next = NULL) THEN [om |-> b, off |-> off]
             ELSE os_mbuf_off(hp, hp.mb[b].om_next, off - len)

\* The second loop of os_mbuf_copydata: len bytes from off in b on.
RECURSIVE CopyFrom(_, _, _, _)
CopyFrom(hp, b, off, len) ==
    IF len = 0 \/ b = NULL THEN <<>>
    ELSE LET data == hp.mb[b].data
             count == Min2(Len(data) - off, len)
         IN  SubSeq(data, off + 1, off + count) \o CopyFrom(hp, hp.mb[b].om_next, 0, len - count)

RECURSIVE os_mbuf_copydata(_, _, _, _)
os_mbuf_copydata(hp, b, off, len) ==
    CASE off > 0 /\ b = NULL -> [ok |-> FALSE, dst |-> <<>>]
      [] off > 0 /\ b # NULL /\ off >= Len(hp.mb[b].data) ->
            os_mbuf_copydata(hp, hp.mb[b].om_next, off - Len(hp.mb[b].data), len)
      [] OTHER -> LET dst == CopyFrom(hp, b, off, len) IN [ok |-> Len(dst) = len, dst |-> dst]

\* Bug: the offset is kept from one mbuf to the next.
MemcmpFrom_kept(hp, b, off, data) ==
    LET n == Min2(Len(hp.mb[b].data) - off, Len(data))
        next == hp.mb[b].om_next
    IN  /\ SubSeq(hp.mb[b].data, off + 1, off + n) = SubSeq(data, 1, n)
        /\ \/ n = Len(data)
           \/ /\ next # NULL /\ off + Len(data) - n <= Len(hp.mb[next].data)
              /\ SubSeq(hp.mb[next].data, off + 1, off + Len(data) - n) = SubSeq(data, n + 1, Len(data))

RECURSIVE MemcmpFrom(_, _, _, _)
MemcmpFrom(hp, b, off, data) ==
    LET n == Min2(Len(hp.mb[b].data) - off, Len(data))
        next == hp.mb[b].om_next
    IN  /\ SubSeq(hp.mb[b].data, off + 1, off + n) = SubSeq(data, 1, n)
        /\ \/ n = Len(data)
           \/ next # NULL /\ MemcmpFrom(hp, next, 0, SubSeq(data, n + 1, Len(data)))

\* Does it return 0?
os_mbuf_memcmp(hp, b, off, data) ==
    LET o == os_mbuf_off(hp, b, off)
    IN  data = <<>> \/ (o.om # NULL /\ MemcmpFrom(hp, o.om, o.off, data))

\* os_mbuf_adj, from the head: it gives what is left to trim, too.
RECURSIVE TrimHead(_, _, _)
TrimHead(hp, b, len) ==
    IF b = NULL \/ len = 0 THEN [h |-> hp, len |-> len]
    ELSE LET data == hp.mb[b].data
         IN  IF Len(data) <= len
             THEN TrimHead([hp EXCEPT !.mb[b].data = <<>>], hp.mb[b].om_next, len - Len(data))
             ELSE [h |-> [hp EXCEPT !.mb[b].data = SubSeq(data, len + 1, Len(data)),
                                    !.mb[b].om_off = @ + len],
                   len |-> 0]

os_mbuf_adj_head(hp, b, len) ==
    LET trimmed == TrimHead(hp, b, len)
    IN  AddLen(trimmed.h, b, -(len - trimmed.len))

\* From the tail: the chain is to be count bytes long.
RECURSIVE TrimTail(_, _, _)
TrimTail(hp, b, count) ==
    LET data == hp.mb[b].data
    IN  IF Len(data) >= count
        THEN os_mbuf_free_chain([hp EXCEPT !.mb[b].data = SubSeq(data, 1, count),
                                           !.mb[b].om_next = NULL], hp.mb[b].om_next)
        ELSE TrimTail(hp, hp.mb[b].om_next, count - Len(data))

os_mbuf_adj_tail(hp, b, len) ==
    LET last == Last(Chain(hp, b))
        tail == hp.mb[last].data
        count == Max2(Len(BytesOf(hp, b)) - len, 0)
    IN  IF Len(tail) >= len
        THEN AddLen([hp EXCEPT !.mb[last].data = SubSeq(@, 1, Len(tail) - len)], b, -len)
        ELSE TrimTail(IF OS_MBUF_IS_PKTHDR(hp.mb[b]) THEN [hp EXCEPT !.mb[b].omp_len = count] ELSE hp,
                      b, count)

\* A new head takes over the header, and its data starts at its end.  (The
\* caller writes the bytes.)
RECURSIVE os_mbuf_prepend(_, _, _)
os_mbuf_prepend(hp, b, data) ==
    LET m == hp.mb[b]
        n == Min2(Len(data), OS_MBUF_LEADINGSPACE(m))
        rest == SubSeq(data, 1, Len(data) - n)
        filled == AddLen([hp EXCEPT !.mb[b].om_off = @ - n,
                                    !.mb[b].data = SubSeq(data, Len(rest) + 1, Len(data)) \o @], b, n)
        g == IF OS_MBUF_IS_PKTHDR(m) THEN os_mbuf_get_pkthdr(filled, m.om_pkthdr_len - PktHdr)
             ELSE os_mbuf_get(filled, 0)
        moved == IF OS_MBUF_IS_PKTHDR(m)
                 THEN [g.h EXCEPT !.mb[g.om].omp_len = filled.mb[b].omp_len,
                                  !.mb[b].om_pkthdr_len = 0, !.mb[b].omp_len = 0]
                 ELSE g.h
    IN  CASE rest = <<>> -> [h |-> filled, om |-> b]
          [] rest # <<>> /\ g.om = NULL -> [h |-> os_mbuf_free_chain(filled, b), om |-> NULL]
          [] OTHER -> os_mbuf_prepend([moved EXCEPT !.mb[g.om].om_off = DataBufLen,
                                                    !.mb[g.om].om_next = b], g.om, rest)

\* The first loop of os_mbuf_copyinto: it gives the last mbuf that it looks at
\* and the bytes that are left.  off stays as it is from one mbuf to the next.
RECURSIVE CopyOver(_, _, _, _)
CopyOver(hp, b, off, data) ==
    LET old == hp.mb[b].data
        n == Max2(Min2(Len(old) - off, Len(data)), 0)
        over == [hp EXCEPT !.mb[b].data = SubSeq(old, 1, off) \o SubSeq(data, 1, n)
                                          \o SubSeq(old, off + n + 1, Len(old))]
        done == IF n = 0 THEN hp ELSE over
        rest == SubSeq(data, n + 1, Len(data))
    IN  IF rest = <<>> \/ hp.mb[b].om_next = NULL THEN [h |-> done, om |-> b, rest |-> rest]
        ELSE CopyOver(done, hp.mb[b].om_next, off, rest)

\* It gives the bytes that there was no room for, too.
os_mbuf_copyinto(hp, b, off, data) ==
    LET o == os_mbuf_off(hp, b, off)
        c == CopyOver(hp, o.om, o.off, data)
        a == os_mbuf_append(c.h, c.om, c.rest)
    IN  IF c.rest = <<>> THEN [h |-> c.h, rest |-> <<>>]
        ELSE IF a.rest = <<>> /\ OS_MBUF_IS_PKTHDR(hp.mb[b])
        THEN [a EXCEPT !.h.mb[b].omp_len = Max2(@, off + Len(c.rest))]
        ELSE a

os_mbuf_concat(hp, b, second) ==
    LET n == IF OS_MBUF_IS_PKTHDR(hp.mb[second]) THEN hp.mb[second].omp_len
             ELSE Len(BytesOf(hp, second))
        joined == [hp EXCEPT !.mb[Last(Chain(hp, b))].om_next = second,
                             !.mb[second].om_pkthdr_len = 0, !.mb[second].omp_len = 0]
    IN  AddLen(joined, b, n)

\* It gives NULL as the place of the new bytes, which the caller writes, if it
\* fails.
os_mbuf_extend(hp, b, data) ==
    LET len == Len(data)
        last == Last(Chain(hp, b))
        fits == OS_MBUF_TRAILINGSPACE(hp.mb[last]) >= len
        g == IF fits THEN [h |-> hp, om |-> last] ELSE os_mbuf_get(hp, 0)
        linked == IF fits THEN hp ELSE [g.h EXCEPT !.mb[last].om_next = g.om]
    IN  IF len > DataBufLen \/ g.om = NULL THEN [h |-> hp, om |-> NULL]
        ELSE [h |-> AddLen([linked EXCEPT !.mb[g.om].data = @ \o data], b, len), om |-> g.om]

RECURSIVE PullFrom(_, _, _, _)

\* Bug: what is left in an mbuf is taken to start where it did.
PullFrom_unshifted(hp, dst, b, len) ==
    LET data == hp.mb[b].data
        n == Min2(Min2(len, OS_MBUF_TRAILINGSPACE(hp.mb[dst])), Len(data))
        moved == [hp EXCEPT !.mb[dst].data = @ \o SubSeq(data, 1, n)]
        left == IF n < Len(data)
                THEN [h |-> [moved EXCEPT !.mb[b].data = SubSeq(data, 1, Len(data) - n)], om |-> b]
                ELSE [h |-> os_memblock_put(moved, b), om |-> hp.mb[b].om_next]
    IN  IF len > n /\ left.om # NULL THEN PullFrom(left.h, dst, left.om, len - n)
        ELSE [h |-> left.h, om |-> left.om, len |-> len - n]

\* The loop of os_mbuf_pullup: len bytes move from b on to dst.
PullFrom(hp, dst, b, len) ==
    LET data == hp.mb[b].data
        n == Min2(Min2(len, OS_MBUF_TRAILINGSPACE(hp.mb[dst])), Len(data))
        moved == [hp EXCEPT !.mb[dst].data = @ \o SubSeq(data, 1, n)]
        left == IF n < Len(data)
                THEN [h |-> [moved EXCEPT !.mb[b].data = SubSeq(data, n + 1, Len(data)),
                                          !.mb[b].om_off = @ + n],
                      om |-> b]
                ELSE [h |-> os_memblock_put(moved, b), om |-> hp.mb[b].om_next]
    IN  IF len > n /\ left.om # NULL THEN PullFrom(left.h, dst, left.om, len - n)
        ELSE [h |-> left.h, om |-> left.om, len |-> len - n]

\* Bug: the chain that is too short is kept when it fails.
os_mbuf_pullup_kept(hp, b, len) ==
    LET m == hp.mb[b]
        inplace == Len(m.data) + OS_MBUF_TRAILINGSPACE(m) >= len /\ m.om_next # NULL
        g == IF inplace THEN [h |-> hp, om |-> b] ELSE os_mbuf_get(hp, 0)
        p == IF inplace THEN PullFrom(hp, b, m.om_next, len - Len(m.data))
             ELSE PullFrom(g.h, g.om, b, len)
    IN  IF Len(m.data) >= len THEN [h |-> hp, om |-> b]
        ELSE IF ~inplace /\ (len > DataBufLen - m.om_pkthdr_len \/ g.om = NULL)
        THEN [h |-> os_mbuf_free_chain(hp, b), om |-> NULL]
        ELSE [h |-> [p.h EXCEPT !.mb[g.om].om_next = p.om], om |-> g.om]

\* A new head gets the header's bytes, under its data, but not its length: the
\* chain has no packet header after that.
os_mbuf_pullup(hp, b, len) ==
    LET m == hp.mb[b]
        inplace == Len(m.data) + OS_MBUF_TRAILINGSPACE(m) >= len /\ m.om_next # NULL
        g == IF inplace THEN [h |-> hp, om |-> b] ELSE os_mbuf_get(hp, 0)
        p == IF inplace THEN PullFrom(hp, b, m.om_next, len - Len(m.data))
             ELSE PullFrom(g.h, g.om, b, len)
    IN  IF Len(m.data) >= len THEN [h |-> hp, om |-> b]
        ELSE IF ~inplace /\ (len > DataBufLen - m.om_pkthdr_len \/ g.om = NULL)
        THEN [h |-> os_mbuf_free_chain(hp, b), om |-> NULL]
        ELSE IF p.len > 0
        THEN [h |-> os_mbuf_free_chain(os_memblock_put(p.h, g.om), p.om), om |-> NULL]
        ELSE [h |-> [p.h EXCEPT !.mb[g.om].om_next = p.om], om |-> g.om]

---------------------------------------------------------------------------
(* The calls of the tasks.  ref says what each should do to the bytes.     *)

Slot == Task \X Hand

Held(s) == om[s] # NULL /\ putter[s[1]] = "app"
Vacant(s) == om[s] = NULL /\ putter[s[1]] = "app"

\* The bound: may n bytes be added?
Fits(n) ==
    n + Len(FlattenSeq(mqref)) + Len(gotref) + SumFunction([s \in Slot |-> Len(ref[s])]) <= use.maxlen

\* The chain of slot s becomes b, in pool hp, and should hold bytes.
Becomes(s, hp, b, bytes) ==
    /\ h' = hp
    /\ om' = [om EXCEPT ![s] = b]
    /\ ref' = [ref EXCEPT ![s] = IF b = NULL THEN <<>> ELSE bytes]
    /\ UNCHANGED <<use, got, mqref, gotref, mqVars>>

Get(s, space) ==
    /\ Vacant(s)
    /\ LET g == os_mbuf_get(h, space) IN Becomes(s, g.h, g.om, <<>>)

\* os_msys_get_pkthdr; the BLE host then leaves room for its headers.
GetPkthdr(s, usr, space) ==
    /\ Vacant(s)
    /\ LET g == os_mbuf_get_pkthdr(h, usr)
       IN  Becomes(s, IF g.om = NULL THEN g.h ELSE [g.h EXCEPT !.mb[g.om].om_off = @ + space],
                   g.om, <<>>)

FreeChain(s) == Held(s) /\ Becomes(s, os_mbuf_free_chain(h, om[s]), NULL, <<>>)

\* The bytes that a chain and the free mbufs have room for.
Room(s) ==
    OS_MBUF_TRAILINGSPACE(h.mb[Last(Chain(h, om[s]))]) + Len(h.free) * DataBufLen

AppendData(s, n) ==
    /\ Held(s) /\ Fits(n)
    /\ Becomes(s, os_mbuf_append(h, om[s], After(ref[s], n)).h, om[s],
               ref[s] \o After(ref[s], Min2(n, Room(s))))

Dup(s, d) ==
    /\ Held(s) /\ Vacant(d) /\ s[1] = d[1] /\ Fits(Len(ref[s]))
    /\ LET g == os_mbuf_dup(h, om[s]) IN Becomes(d, g.h, g.om, ref[s])

AdjHead(s, len) ==
    /\ Held(s)
    /\ Becomes(s, os_mbuf_adj_head(h, om[s], len), om[s], SubSeq(ref[s], len + 1, Len(ref[s])))

AdjTail(s, len) ==
    /\ Held(s)
    /\ Becomes(s, os_mbuf_adj_tail(h, om[s], len), om[s],
               SubSeq(ref[s], 1, Max2(Len(ref[s]) - len, 0)))

Prepend(s, n) ==
    /\ Held(s) /\ Fits(n)
    /\ LET data == Before(ref[s], n)
           g == os_mbuf_prepend(h, om[s], data)
       IN  Becomes(s, g.h, g.om, data \o ref[s])

\* os_mbuf_copyinto keeps its promises for a chain of one mbuf, at the end of a
\* chain that there is room to extend (shell_nlip_process, its only caller,
\* writes there), and where the data falls in one mbuf.
CopyWorks(s, off, n) ==
    LET o == os_mbuf_off(h, om[s], off)
    IN  \/ h.mb[om[s]].om_next = NULL
        \/ off = Len(ref[s]) /\ n <= Room(s)
        \/ o.off + n <= Len(h.mb[o.om].data)

CopyInto(s, off, len) ==
    /\ Held(s) /\ off <= Len(ref[s]) /\ Fits(off + len - Len(ref[s]))
    /\ AnyCopy \/ CopyWorks(s, off, len)
    /\ LET n == Min2(len, Len(ref[s]) - off + Room(s))
       IN  Becomes(s, os_mbuf_copyinto(h, om[s], off, Run(0, len)).h, om[s],
                   SubSeq(ref[s], 1, off) \o Run(0, n) \o SubSeq(ref[s], off + n + 1, Len(ref[s])))

Concat(s, d) ==
    /\ Held(s) /\ Held(d) /\ s # d /\ s[1] = d[1]
    /\ h' = os_mbuf_concat(h, om[s], om[d])
    /\ om' = [om EXCEPT ![d] = NULL]
    /\ ref' = [ref EXCEPT ![s] = @ \o ref[d], ![d] = <<>>]
    /\ UNCHANGED <<use, got, mqref, gotref, mqVars>>

Extend(s, n) ==
    /\ Held(s) /\ Fits(n)
    /\ LET data == After(ref[s], n)
           e == os_mbuf_extend(h, om[s], data)
       IN  Becomes(s, e.h, om[s], IF e.om = NULL THEN ref[s] ELSE ref[s] \o data)

Pullup(s, len) ==
    /\ Held(s)
    /\ LET p == os_mbuf_pullup(h, om[s], len) IN Becomes(s, p.h, p.om, ref[s])

---------------------------------------------------------------------------
(* Handing packets to the newtmgr task. *)

\* nmgr_rx_req, whose os_mqueue_put takes only chains with a packet header.
nmgr_rx_req(s) ==
    /\ Held(s) /\ OS_MBUF_IS_PKTHDR(h.mb[om[s]])
    /\ os_mqueue_put(s[1], om[s])
    /\ om' = [om EXCEPT ![s] = NULL]
    /\ mqref' = Append(mqref, ref[s])
    /\ ref' = [ref EXCEPT ![s] = <<>>]
    /\ UNCHANGED <<use, h, got, gotref>>

nmgr_rx_req_fails(s) ==
    /\ Held(s) /\ ~OS_MBUF_IS_PKTHDR(h.mb[om[s]])
    /\ Becomes(s, os_mbuf_free_chain(h, om[s]), NULL, <<>>)

nmgr_rx_req_post(t) == os_mqueue_put_post(t) /\ UNCHANGED heapVars

nmgr_task_wakes == nmgr_task /\ UNCHANGED heapVars

\* nmgr_process: os_mqueue_get,
nmgr_process_get ==
    /\ got = NULL
    /\ os_mqueue_get
    /\ got' = Head(mq_head)
    /\ gotref' = Head(mqref)
    /\ mqref' = Tail(mqref)
    /\ UNCHANGED <<use, h, om, ref>>

\* os_mbuf_free_chain when the request has been handled (a reader of it),
nmgr_process_free ==
    /\ got # NULL
    /\ h' = os_mbuf_free_chain(h, got)
    /\ got' = NULL
    /\ gotref' = <<>>
    /\ UNCHANGED <<use, om, ref, mqref, mqVars>>

\* and back when the queue is empty.
nmgr_process_returns == got = NULL /\ nmgr_process_end /\ UNCHANGED heapVars

Init ==
    /\ use \in Use
    /\ \E blocks \in kSubset(use.blocks, Block) : \E free \in SetToSeqs(blocks) :
        h = [free |-> free, mp_num_free |-> use.blocks, mb |-> [b \in Block |-> NoMbuf]]
    /\ om = [s \in Slot |-> NULL]
    /\ ref = [s \in Slot |-> <<>>]
    /\ got = NULL /\ gotref = <<>> /\ mqref = <<>>
    /\ MqInit

Next ==
    \/ \E s \in Slot, n \in Spaces : Get(s, n)
    \/ \E s \in Slot, u \in UsrHdrs, n \in Spaces : GetPkthdr(s, u, n)
    \/ \E s \in Slot : FreeChain(s)
    \/ "append" \in use.calls /\ \E s \in Slot, n \in Lens : AppendData(s, n)
    \/ "dup" \in use.calls /\ \E s, d \in Slot : Dup(s, d)
    \/ "adj" \in use.calls /\ \E s \in Slot, n \in Lens : AdjHead(s, n)
    \/ "adj" \in use.calls /\ \E s \in Slot, n \in Lens : AdjTail(s, n)
    \/ "prepend" \in use.calls /\ \E s \in Slot, n \in Lens : Prepend(s, n)
    \/ "copyinto" \in use.calls /\ \E s \in Slot, off \in 0..use.maxlen, n \in Lens : CopyInto(s, off, n)
    \/ "concat" \in use.calls /\ \E s, d \in Slot : Concat(s, d)
    \/ "extend" \in use.calls /\ \E s \in Slot, n \in Lens : Extend(s, n)
    \/ "pullup" \in use.calls /\ \E s \in Slot, n \in Lens : Pullup(s, n)
    \/ "rx_req" \in use.calls /\ \E s \in Slot : nmgr_rx_req(s)
    \/ "rx_req" \in use.calls /\ \E s \in Slot : nmgr_rx_req_fails(s)
    \/ \E t \in Task : nmgr_rx_req_post(t)
    \/ nmgr_task_wakes
    \/ nmgr_process_get
    \/ nmgr_process_free
    \/ nmgr_process_returns

Spec == Init /\ [][Next]_vars

---------------------------------------------------------------------------
(* Properties. *)

Byte == 0..(Bytes - 1)

Mbuf == [om_off : 0..DataBufLen, data : Seq(Byte), om_pkthdr_len : 0..DataBufLen,
         omp_len : 0..use.maxlen, om_next : Block \cup {NULL}]

\* The pool, the chains and the queue are well formed: a packet's length
\* (omp_len, unsigned in the code) is never less than zero and an mbuf's window
\* never starts outside its buffer.
TypeOK ==
    /\ MqTypeOK /\ use \in Use
    /\ h.free \in Seq(Block) /\ h.mp_num_free \in 0..Cardinality(Block)
    /\ h.mb \in [Block -> Mbuf]
    /\ om \in [Slot -> Block \cup {NULL}] /\ got \in Block \cup {NULL}
    /\ ref \in [Slot -> Seq(Byte)] /\ mqref \in Seq(Seq(Byte)) /\ gotref \in Seq(Byte)

\* All chains, with the bytes that they should hold.
Chains ==
    {<<om[s], ref[s]>> : s \in {c \in Slot : om[c] # NULL}}
        \cup {<<mq_head[i], mqref[i]>> : i \in DOMAIN mq_head}
        \cup (IF got = NULL THEN {} ELSE {<<got, gotref>>})

\* A chain holds the bytes that were put into it, in their order, whatever
\* mbufs they are spread over: after os_mbuf_append (as many as there was room
\* for), _dup, _adj, _prepend, _copyinto, _concat, _extend and _pullup, and
\* while the packet waits in the queue and is handled.
Contents == \A c \in Chains : BytesOf(h, c[1]) = c[2]

\* The packet header's omp_len is the sum of the chain's om_len, also after
\* calls that fail half-way for lack of mbufs.
PktLenIsSum ==
    \A c \in Chains :
        OS_MBUF_IS_PKTHDR(h.mb[c[1]]) => h.mb[c[1]].omp_len = Len(BytesOf(h, c[1]))

\* No mbuf leaks and none is in two places: each block is in the free list or
\* in one chain, once; and mp_num_free, which os_memblock_get trusts, is the
\* length of the free list.
EachBlockOnce ==
    LET heads == {c[1] : c \in Chains}
        places == h.free \o FlattenSeq(SetToSeq({Chain(h, b) : b \in heads}))
    IN  /\ h.mp_num_free = Len(h.free)
        /\ IsInjective(places)
        /\ Len(places) = use.blocks
        /\ Cardinality(heads) = Cardinality({s \in Slot : om[s] # NULL}) + Len(mq_head)
                                    + (IF got = NULL THEN 0 ELSE 1)

\* The window of an mbuf stays in its buffer, and out of the packet header in
\* front of it: neither OS_MBUF_LEADINGSPACE nor OS_MBUF_TRAILINGSPACE, both
\* unsigned, wraps around.
InBounds ==
    \A c \in Chains : \A b \in Range(Chain(h, c[1])) :
        LET m == h.mb[b]
        IN  /\ OS_MBUF_IS_PKTHDR(m) => m.om_off >= m.om_pkthdr_len
            /\ m.om_off + Len(m.data) <= DataBufLen

\* os_mbuf_copydata and os_mbuf_memcmp see a chain as the bytes it holds, across
\* mbufs and past empty ones, and fail exactly when there are too few.
ReadsExact ==
    \A c \in Chains : \A off \in 0..(use.maxlen + 1) :
        /\ \A len \in 0..(use.maxlen + 1) :
            LET r == os_mbuf_copydata(h, c[1], off, len)
            IN  /\ r.ok <=> off + len <= Len(c[2])
                /\ r.ok => r.dst = SubSeq(c[2], off + 1, off + len)
        /\ \A data \in {Run(x, n) : x \in Byte, n \in Lens} :
            os_mbuf_memcmp(h, c[1], off, data)
                <=> off + Len(data) <= Len(c[2])
                        /\ data = SubSeq(c[2], off + 1, off + Len(data))

\* os_mbuf_pullup makes len bytes contiguous in the first mbuf, or frees the
\* chain, which it does only if the chain is too short, if a first mbuf does
\* not have room for so many, or for lack of an mbuf.
PulledUp ==
    [][\A s \in Slot, len \in Lens :
        Pullup(s, len) =>
            IF om'[s] # NULL THEN Len(h'.mb[om'[s]].data) >= len
            ELSE \/ len > Len(ref[s])
                 \/ len > DataBufLen - h.mb[om[s]].om_pkthdr_len
                 \/ h.free = <<>>]_vars
=============================================================================

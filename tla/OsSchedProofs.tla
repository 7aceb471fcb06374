---------------------------- MODULE OsSchedProofs ----------------------------
(***************************************************************************)
(* What the operations of os_sched.c preserve: the lists stay consistent   *)
(* and the run list stays in the order of priority.                        *)
(***************************************************************************)
EXTENDS OsSched, TLAPS, WellFoundedInduction

-----------------------------------------------------------------------------
(* What inserting in a list and removing from it do to its elements.       *)

\* Two lists after one another.
LEMMA ConcatIndices ==
    ASSUME NEW S, NEW a \in Seq(S), NEW b \in Seq(S)
    PROVE  /\ a \o b \in Seq(S) /\ Len(a \o b) = Len(a) + Len(b)
           /\ \A j \in 1 .. Len(a) + Len(b) : (a \o b)[j] = IF j <= Len(a) THEN a[j] ELSE b[j - Len(a)]
  OBVIOUS

\* The list without its i-th element.
LEMMA RemoveAtIndices ==
    ASSUME NEW S, NEW s \in Seq(S), NEW i \in 1 .. Len(s)
    PROVE  /\ RemoveAt(s, i) \in Seq(S)
           /\ Len(RemoveAt(s, i)) = Len(s) - 1
           /\ \A j \in 1 .. Len(s) - 1 : RemoveAt(s, i)[j] = IF j < i THEN s[j] ELSE s[j + 1]
  <1> DEFINE a == SubSeq(s, 1, i - 1)
             b == SubSeq(s, i + 1, Len(s))
  <1>0. Len(s) \in Nat /\ \A j \in 1 .. Len(s) : s[j] \in S
    OBVIOUS
  <1>1. a \in Seq(S) /\ Len(a) = i - 1 /\ \A j \in 1 .. i - 1 : a[j] = s[j]
    BY <1>0
  <1>2. b \in Seq(S) /\ Len(b) = Len(s) - i /\ \A j \in 1 .. Len(s) - i : b[j] = s[i + j]
    BY <1>0
  <1>3. RemoveAt(s, i) = a \o b
    BY DEF RemoveAt
  <1> HIDE DEF a, b
  <1>4. /\ a \o b \in Seq(S) /\ Len(a \o b) = Len(a) + Len(b)
        /\ \A j \in 1 .. Len(a) + Len(b) : (a \o b)[j] = IF j <= Len(a) THEN a[j] ELSE b[j - Len(a)]
    BY <1>1, <1>2, ConcatIndices
  <1>5. ASSUME NEW j \in 1 .. Len(s) - 1
        PROVE  (a \o b)[j] = IF j < i THEN s[j] ELSE s[j + 1]
    <2>0. (a \o b)[j] = IF j <= i - 1 THEN a[j] ELSE b[j - (i - 1)]
      BY <1>0, <1>1, <1>2, <1>4
    <2>1. CASE j < i
      <3>1. j \in 1 .. i - 1 /\ j <= i - 1
        BY <1>0, <2>1
      <3> QED
        BY <1>1, <2>0, <2>1, <3>1
    <2>2. CASE ~(j < i)
      <3>1. j - (i - 1) \in 1 .. Len(s) - i /\ ~(j <= i - 1) /\ i + (j - (i - 1)) = j + 1
        BY <1>0, <2>2
      <3> QED
        BY <1>2, <2>0, <2>2, <3>1
    <2> QED
      BY <2>1, <2>2
  <1> QED
    BY <1>0, <1>1, <1>2, <1>3, <1>4, <1>5

\* The list with x put at its i-th place.
LEMMA InsertAtIndices ==
    ASSUME NEW S, NEW s \in Seq(S), NEW x \in S, NEW i \in 1 .. Len(s) + 1
    PROVE  /\ InsertAt(s, i, x) \in Seq(S)
           /\ Len(InsertAt(s, i, x)) = Len(s) + 1
           /\ \A j \in 1 .. i - 1 : InsertAt(s, i, x)[j] = s[j]
           /\ InsertAt(s, i, x)[i] = x
           /\ \A j \in i + 1 .. Len(s) + 1 : InsertAt(s, i, x)[j] = s[j - 1]
  <1> DEFINE a == SubSeq(s, 1, i - 1)
             b == SubSeq(s, i, Len(s))
  <1>0. Len(s) \in Nat /\ \A j \in 1 .. Len(s) : s[j] \in S
    OBVIOUS
  <1>1. a \in Seq(S) /\ Len(a) = i - 1 /\ \A j \in 1 .. i - 1 : a[j] = s[j]
    BY <1>0
  <1>2. b \in Seq(S) /\ Len(b) = Len(s) - i + 1 /\ \A j \in 1 .. Len(s) - i + 1 : b[j] = s[i + j - 1]
    BY <1>0
  <1> DEFINE c == Append(a, x)
  <1> HIDE DEF a, b
  <1>3. c \in Seq(S) /\ Len(c) = i /\ c[i] = x /\ \A j \in 1 .. i - 1 : c[j] = s[j]
    BY <1>0, <1>1
  <1>4. InsertAt(s, i, x) = c \o b
    BY DEF InsertAt, a, b
  <1> HIDE DEF c
  <1>5. /\ c \o b \in Seq(S) /\ Len(c \o b) = Len(c) + Len(b)
        /\ \A j \in 1 .. Len(c) + Len(b) : (c \o b)[j] = IF j <= Len(c) THEN c[j] ELSE b[j - Len(c)]
    BY <1>2, <1>3, ConcatIndices
  <1>6. ASSUME NEW j \in 1 .. Len(s) + 1
        PROVE  (c \o b)[j] = IF j < i THEN s[j] ELSE IF j = i THEN x ELSE s[j - 1]
    <2>0. (c \o b)[j] = IF j <= i THEN c[j] ELSE b[j - i]
      <3>1. Len(c) = i /\ j \in 1 .. Len(c) + Len(b)
        BY <1>0, <1>2, <1>3
      <3> QED
        BY <1>5, <3>1
    <2>1. CASE j <= i
      <3>1. j = i \/ j \in 1 .. i - 1
        BY <1>0, <2>1
      <3> QED
        BY <1>3, <2>0, <2>1, <3>1
    <2>2. CASE ~(j <= i)
      <3>1. j - i \in 1 .. Len(s) - i + 1 /\ i + (j - i) - 1 = j - 1 /\ ~(j < i) /\ j # i
        BY <1>0, <2>2
      <3> QED
        BY <1>2, <2>0, <2>2, <3>1
    <2> QED
      BY <2>1, <2>2
  <1>7. \A j \in i + 1 .. Len(s) + 1 : j \in 1 .. Len(s) + 1 /\ ~(j < i) /\ j # i
    BY <1>0
  <1>8. \A j \in 1 .. i - 1 : j \in 1 .. Len(s) + 1 /\ j < i
    BY <1>0
  <1> QED
    BY <1>0, <1>2, <1>3, <1>4, <1>5, <1>6, <1>7, <1>8

\* A set of numbers that is not empty has a least element.
LEMMA FirstIsLeast ==
    ASSUME NEW I \in SUBSET Nat, I # {}
    PROVE  First(I) \in I /\ \A j \in I : First(I) <= j
  <1> DEFINE R == OpToRel(<, Nat)
  <1>1. \A m, n \in Nat : m < n => <<m, n>> \in R
    BY Zenon DEF OpToRel
  <1>2. IsWellFoundedOn(R, Nat)
    BY NatLessThanWellFounded
  <1> HIDE DEF R
  <1>3. PICK x \in I : \A y \in I : ~(<<y, x>> \in R)
    BY <1>2, WFMin
  <1>4. ASSUME NEW y \in I PROVE x <= y
    <2>1. x \in Nat /\ y \in Nat
      OBVIOUS
    <2>2. ~(y < x)
      BY Zenon, <1>1, <1>3, <2>1
    <2> QED
      BY <2>1, <2>2
  <1> QED
    BY <1>4 DEF First

\* The place InsertBefore chooses.
LEMMA InsertBeforePlace ==
    ASSUME NEW S, NEW s \in Seq(S), NEW x \in S, NEW I \in SUBSET DOMAIN s
    PROVE  \E i \in 1 .. Len(s) + 1 :
              /\ InsertBefore(s, I, x) = InsertAt(s, i, x)
              /\ \A j \in I : i <= j
              /\ i \in I \/ i = Len(s) + 1
  <1>1. CASE I = {}
    BY <1>1 DEF InsertBefore
  <1>2. CASE I # {}
    <2>1. First(I) \in I /\ \A j \in I : First(I) <= j
      BY <1>2, FirstIsLeast
    <2> QED
      BY <1>2, <2>1 DEF InsertBefore
  <1> QED
    BY <1>1, <1>2

\* Inserting a new element in a list without repetition adds just that.
LEMMA InsertBeforeProps ==
    ASSUME NEW S, NEW s \in Seq(S), NEW x \in S, NEW I \in SUBSET DOMAIN s,
           Injective(s), x \notin Range(s)
    PROVE  /\ InsertBefore(s, I, x) \in Seq(S)
           /\ Injective(InsertBefore(s, I, x))
           /\ \A y : y \in Range(InsertBefore(s, I, x)) <=> y \in Range(s) \/ y = x
  <1>1. PICK i \in 1 .. Len(s) + 1 : InsertBefore(s, I, x) = InsertAt(s, i, x)
    BY InsertBeforePlace
  <1>2. PICK r : /\ r = InsertAt(s, i, x)
                 /\ r \in Seq(S) /\ Len(r) = Len(s) + 1
                 /\ \A j \in 1 .. i - 1 : r[j] = s[j]
                 /\ r[i] = x
                 /\ \A j \in i + 1 .. Len(s) + 1 : r[j] = s[j - 1]
    BY InsertAtIndices
  <1>3. \A j \in 1 .. Len(s) : s[j] # x
    BY DEF Range
  <1>4. \A j, k \in 1 .. Len(s) : s[j] = s[k] => j = k
    BY DEF Injective
  <1>0. Len(s) \in Nat /\ Len(r) \in Nat /\ DOMAIN r = 1 .. Len(r)
    BY <1>2
  <1>10. ASSUME NEW j \in 1 .. Len(s) + 1, j # i
         PROVE  \E f \in 1 .. Len(s) : r[j] = s[f] /\ f = IF j < i THEN j ELSE j - 1
    <2>1. CASE j < i
      <3>1. j \in 1 .. i - 1 /\ j \in 1 .. Len(s)
        BY <1>0, <2>1
      <3> QED
        BY <1>2, <2>1, <3>1
    <2>2. CASE ~(j < i)
      <3>1. j \in i + 1 .. Len(s) + 1 /\ j - 1 \in 1 .. Len(s)
        BY <1>0, <1>10, <2>2
      <3> QED
        BY <1>2, <2>2, <3>1
    <2> QED
      BY <2>1, <2>2
  <1>5. Injective(r)
    <2>1. SUFFICES ASSUME NEW j \in 1 .. Len(s) + 1, NEW k \in 1 .. Len(s) + 1, j < k
                   PROVE  r[j] # r[k]
      BY <1>0, <1>2 DEF Injective
    <2>2. CASE j = i
      <3>1. k - 1 \in 1 .. Len(s) /\ k \in i + 1 .. Len(s) + 1
        BY <1>0, <2>1, <2>2
      <3> QED
        BY <1>2, <1>3, <2>2, <3>1
    <2>3. CASE k = i
      <3>1. j \in 1 .. Len(s) /\ j \in 1 .. i - 1
        BY <1>0, <2>1, <2>3
      <3> QED
        BY <1>2, <1>3, <2>3, <3>1
    <2>4. CASE j # i /\ k # i
      <3>1. PICK f \in 1 .. Len(s) : r[j] = s[f] /\ f = IF j < i THEN j ELSE j - 1
        BY <1>10, <2>4
      <3>2. PICK g \in 1 .. Len(s) : r[k] = s[g] /\ g = IF k < i THEN k ELSE k - 1
        BY <1>10, <2>4
      <3>3. f # g
        BY <1>0, <2>1, <2>4, <3>1, <3>2
      <3> QED
        BY <1>4, <3>1, <3>2, <3>3
    <2> QED
      BY <2>2, <2>3, <2>4
  <1>6. ASSUME NEW y, y \in Range(s) PROVE y \in Range(r)
    <2>1. PICK j \in 1 .. Len(s) : y = s[j]
      BY <1>6 DEF Range
    <2>2. PICK k \in 1 .. Len(r) : r[k] = s[j]
      <3>1. CASE j < i
        BY <1>0, <1>2, <3>1
      <3>2. CASE ~(j < i)
        <4>1. j + 1 \in i + 1 .. Len(s) + 1 /\ j + 1 \in 1 .. Len(r) /\ (j + 1) - 1 = j
          BY <1>0, <1>2, <3>2
        <4>2. r[j + 1] = s[(j + 1) - 1]
          BY <1>2, <4>1
        <4> QED
          BY <4>1, <4>2
      <3> QED
        BY <3>1, <3>2
    <2> QED
      BY <1>0, <2>1, <2>2 DEF Range
  <1>7. r[i] = x /\ i \in 1 .. Len(r) /\ DOMAIN r = 1 .. Len(r)
    BY <1>0, <1>2
  <1>8. x \in Range(r)
    BY <1>7 DEF Range
  <1>9. ASSUME NEW y, y \in Range(r) PROVE y \in Range(s) \/ y = x
    <2>1. PICK j \in 1 .. Len(r) : y = r[j]
      BY <1>7, <1>9 DEF Range
    <2>2. j = i \/ \E k \in 1 .. Len(s) : r[j] = s[k]
      BY <1>2, <1>10
    <2> QED
      BY <1>2, <2>1, <2>2 DEF Range
  <1> QED
    BY <1>1, <1>2, <1>5, <1>6, <1>8, <1>9

\* Removing an element of a list without repetition.
LEMMA RemovePlace ==
    ASSUME NEW S, NEW s \in Seq(S), NEW x, x \in Range(s), Injective(s)
    PROVE  \E i \in 1 .. Len(s) : s[i] = x /\ Remove(s, x) = RemoveAt(s, i)
  <1>1. PICK i \in 1 .. Len(s) : s[i] = x
    BY DEF Range
  <1>2. \A j \in 1 .. Len(s) : s[j] = x <=> j = i
    BY <1>1 DEF Injective
  <1>3. (CHOOSE j \in DOMAIN s : s[j] = x) = i
    BY <1>1, <1>2
  <1> QED
    BY <1>1, <1>3 DEF Remove

LEMMA RemoveProps ==
    ASSUME NEW S, NEW s \in Seq(S), NEW x, x \in Range(s), Injective(s)
    PROVE  /\ Remove(s, x) \in Seq(S)
           /\ Injective(Remove(s, x))
           /\ \A y : y \in Range(Remove(s, x)) <=> y \in Range(s) /\ y # x
  <1>1. PICK i \in 1 .. Len(s) : s[i] = x /\ Remove(s, x) = RemoveAt(s, i)
    BY RemovePlace
  <1> DEFINE r == RemoveAt(s, i)
  <1>2. /\ r \in Seq(S) /\ Len(r) = Len(s) - 1 /\ DOMAIN r = 1 .. Len(r)
        /\ \A j \in 1 .. Len(s) - 1 : r[j] = IF j < i THEN s[j] ELSE s[j + 1]
    <2>1. r \in Seq(S) /\ Len(r) = Len(s) - 1
      BY RemoveAtIndices
    <2>2. DOMAIN r = 1 .. Len(r)
      BY <2>1
    <2> QED
      BY Zenon, <2>1, <2>2, RemoveAtIndices
  <1> HIDE DEF r
  <1>3. \A j, k \in 1 .. Len(s) : s[j] = s[k] => j = k
    BY DEF Injective
  <1>4. Injective(r)
    <2>1. SUFFICES ASSUME NEW j \in 1 .. Len(s) - 1, NEW k \in 1 .. Len(s) - 1, j < k
                   PROVE  r[j] # r[k]
      BY <1>2 DEF Injective
    <2>2. Len(s) \in Nat
      OBVIOUS
    <2> DEFINE f == IF j < i THEN j ELSE j + 1
               g == IF k < i THEN k ELSE k + 1
    <2>3. f \in 1 .. Len(s) /\ g \in 1 .. Len(s) /\ f # g
      BY <2>1, <2>2
    <2>4. r[j] = s[f] /\ r[k] = s[g]
      BY <1>2
    <2> QED
      BY <1>3, <2>3, <2>4
  <1>5. ASSUME NEW y, y \in Range(s), y # x PROVE y \in Range(r)
    <2>1. PICK j \in 1 .. Len(s) : y = s[j]
      BY <1>5 DEF Range
    <2>2. r[IF j < i THEN j ELSE j - 1] = s[j] /\ (IF j < i THEN j ELSE j - 1) \in 1 .. Len(r)
      BY <1>1, <1>2, <1>5, <2>1
    <2> QED
      BY <1>2, <2>1, <2>2 DEF Range
  <1>6. ASSUME NEW y, y \in Range(r) PROVE y \in Range(s) /\ y # x
    <2>1. PICK j \in 1 .. Len(r) : y = r[j]
      BY <1>2, <1>6 DEF Range
    <2>2. PICK k \in 1 .. Len(s) : y = s[k] /\ k # i
      BY <1>2, <2>1
    <2> QED
      BY <1>1, <1>3, <2>2 DEF Range
  <1> QED
    BY <1>1, <1>2, <1>4, <1>5, <1>6 DEF r

\* Removing an element keeps the order.
LEMMA RemoveOrdered ==
    ASSUME NEW S, NEW s \in Seq(S), NEW x, x \in Range(s), Injective(s),
           NEW p \in [S -> Nat], Ordered(s, p)
    PROVE  Ordered(Remove(s, x), p)
  <1>1. PICK i \in 1 .. Len(s) : s[i] = x /\ Remove(s, x) = RemoveAt(s, i)
    BY RemovePlace
  <1>2. PICK r : /\ r = RemoveAt(s, i)
                 /\ r \in Seq(S) /\ Len(r) = Len(s) - 1
                 /\ \A j \in 1 .. Len(s) - 1 : r[j] = IF j < i THEN s[j] ELSE s[j + 1]
    BY RemoveAtIndices
  <1>3. Len(s) \in Nat /\ DOMAIN r = 1 .. Len(s) - 1 /\ DOMAIN s = 1 .. Len(s)
    BY <1>2
  <1>4. SUFFICES ASSUME NEW j \in 1 .. Len(s) - 1, NEW k \in 1 .. Len(s) - 1, j < k
                 PROVE  p[r[j]] <= p[r[k]]
    BY <1>1, <1>2, <1>3 DEF Ordered
  <1> DEFINE f == IF j < i THEN j ELSE j + 1
             g == IF k < i THEN k ELSE k + 1
  <1>5. f \in 1 .. Len(s) /\ g \in 1 .. Len(s) /\ f < g
    BY <1>3, <1>4
  <1>6. r[j] = s[f] /\ r[k] = s[g]
    BY <1>2
  <1> QED
    BY <1>3, <1>5, <1>6 DEF Ordered

\* So does inserting one before the first that is greater.
LEMMA InsertBeforeOrdered ==
    ASSUME NEW S, NEW s \in Seq(S), NEW x \in S, NEW p \in [S -> Nat], Ordered(s, p)
    PROVE  Ordered(InsertBefore(s, {i \in DOMAIN s : p[x] < p[s[i]]}, x), p)
  <1> DEFINE I == {i \in DOMAIN s : p[x] < p[s[i]]}
  <1>0. /\ Len(s) \in Nat /\ DOMAIN s = 1 .. Len(s)
        /\ \A j \in 1 .. Len(s) : s[j] \in S /\ p[s[j]] \in Nat
        /\ p[x] \in Nat
    OBVIOUS
  <1>1. \A j \in 1 .. Len(s) : j \in I <=> p[x] < p[s[j]]
    BY <1>0
  <1>2. I \in SUBSET DOMAIN s
    OBVIOUS
  <1> HIDE DEF I
  <1>3. PICK i \in 1 .. Len(s) + 1 :
              /\ InsertBefore(s, I, x) = InsertAt(s, i, x)
              /\ \A j \in I : i <= j
              /\ i \in I \/ i = Len(s) + 1
    BY <1>2, InsertBeforePlace
  <1>4. PICK r : /\ r = InsertAt(s, i, x)
                 /\ r \in Seq(S) /\ Len(r) = Len(s) + 1
                 /\ \A j \in 1 .. i - 1 : r[j] = s[j]
                 /\ r[i] = x
                 /\ \A j \in i + 1 .. Len(s) + 1 : r[j] = s[j - 1]
    BY InsertAtIndices
  <1>5. DOMAIN r = 1 .. Len(s) + 1
    BY <1>4
  <1>6. \A j \in 1 .. i - 1 : p[s[j]] <= p[x]
    <2>1. TAKE j \in 1 .. i - 1
    <2>2. j \in 1 .. Len(s) /\ ~(i <= j)
      BY <1>0
    <2>3. j \notin I
      BY <1>3, <2>2
    <2> QED
      BY <1>0, <1>1, <2>2, <2>3
  <1>7. \A j \in 1 .. Len(s) : i <= j => p[x] <= p[s[j]]
    <2>1. TAKE j \in 1 .. Len(s)
    <2>2. HAVE i <= j
    <2>3. i \in I /\ i \in 1 .. Len(s)
      BY <1>0, <1>2, <1>3, <2>2
    <2>4. p[x] < p[s[i]]
      BY <1>1, <2>3
    <2>5. p[s[i]] <= p[s[j]]
      <3>1. CASE i = j
        BY <1>0, <2>3, <3>1
      <3>2. CASE i # j
        <4>1. i < j
          BY <1>0, <2>2, <3>2
        <4> QED
          BY <1>0, <2>3, <4>1 DEF Ordered
      <3> QED
        BY <3>1, <3>2
    <2> QED
      BY <1>0, <2>3, <2>4, <2>5
  <1>8. \A j, k \in 1 .. Len(s) : j < k => p[s[j]] <= p[s[k]]
    BY <1>0 DEF Ordered
  <1>9. SUFFICES ASSUME NEW j \in 1 .. Len(s) + 1, NEW k \in 1 .. Len(s) + 1, j < k
                 PROVE  p[r[j]] <= p[r[k]]
    BY <1>3, <1>4, <1>5 DEF Ordered, I
  <1>10. CASE k < i
    <2>1. j \in 1 .. i - 1 /\ k \in 1 .. i - 1 /\ j \in 1 .. Len(s) /\ k \in 1 .. Len(s)
      BY <1>0, <1>9, <1>10
    <2> QED
      BY <1>4, <1>8, <1>9, <2>1
  <1>11. CASE k = i
    <2>1. j \in 1 .. i - 1
      BY <1>0, <1>9, <1>11
    <2> QED
      BY <1>4, <1>6, <1>11, <2>1
  <1>12. CASE j = i
    <2>1. k \in i + 1 .. Len(s) + 1 /\ k - 1 \in 1 .. Len(s) /\ i <= k - 1
      BY <1>0, <1>9, <1>12
    <2> QED
      BY <1>4, <1>7, <1>12, <2>1
  <1>13. CASE j < i /\ i < k
    <2>1. /\ j \in 1 .. i - 1 /\ j \in 1 .. Len(s)
          /\ k \in i + 1 .. Len(s) + 1 /\ k - 1 \in 1 .. Len(s) /\ i <= k - 1
      BY <1>0, <1>13
    <2>2. p[s[j]] <= p[x] /\ p[x] <= p[s[k - 1]]
      BY <1>6, <1>7, <2>1
    <2>3. p[s[j]] \in Nat /\ p[s[k - 1]] \in Nat /\ p[x] \in Nat
      BY <1>0, <2>1
    <2>4. r[j] = s[j] /\ r[k] = s[k - 1]
      BY <1>4, <2>1
    <2> QED
      BY <2>2, <2>3, <2>4
  <1>14. CASE i < j
    <2>1. /\ j \in i + 1 .. Len(s) + 1 /\ j - 1 \in 1 .. Len(s)
          /\ k \in i + 1 .. Len(s) + 1 /\ k - 1 \in 1 .. Len(s) /\ j - 1 < k - 1
      BY <1>0, <1>9, <1>14
    <2> QED
      BY <1>4, <1>8, <2>1
  <1>15. k < i \/ k = i \/ j = i \/ (j < i /\ i < k) \/ i < j
    BY <1>0
  <1> QED
    BY <1>10, <1>11, <1>12, <1>13, <1>14, <1>15

\* Remove, whether the element is on the list or not.
LEMMA RemoveAny ==
    ASSUME NEW S, NEW s \in Seq(S), NEW x, Injective(s)
    PROVE  /\ Remove(s, x) \in Seq(S)
           /\ Injective(Remove(s, x))
           /\ \A y : y \in Range(Remove(s, x)) <=> y \in Range(s) /\ y # x
  <1>1. CASE x \in Range(s)
    BY <1>1, RemoveProps
  <1>2. CASE x \notin Range(s)
    BY <1>2 DEF Remove
  <1> QED
    BY <1>1, <1>2

\* The list without its first element.
LEMMA TailProps ==
    ASSUME NEW S, NEW s \in Seq(S), s # <<>>, Injective(s)
    PROVE  /\ Head(s) \in S /\ Head(s) \in Range(s)
           /\ Tail(s) \in Seq(S) /\ Injective(Tail(s))
           /\ \A y : y \in Range(Tail(s)) <=> y \in Range(s) /\ y # Head(s)
  <1>1. /\ Len(s) \in Nat /\ Len(s) > 0 /\ DOMAIN s = 1 .. Len(s) /\ Head(s) = s[1] /\ s[1] \in S
        /\ Tail(s) \in Seq(S) /\ Len(Tail(s)) = Len(s) - 1
        /\ DOMAIN Tail(s) = 1 .. Len(s) - 1
        /\ \A i \in 1 .. Len(s) - 1 : Tail(s)[i] = s[i + 1]
    OBVIOUS
  <1>2. PICK r : r = Tail(s)
    OBVIOUS
  <1>3. Injective(r)
    BY <1>1, <1>2 DEF Injective
  <1>4. ASSUME NEW y \in Range(r) PROVE y \in Range(s) /\ y # s[1]
    <2>1. PICK i \in 1 .. Len(s) - 1 : y = s[i + 1]
      BY <1>1, <1>2, <1>4 DEF Range
    <2>2. i + 1 \in DOMAIN s /\ 1 \in DOMAIN s /\ i + 1 # 1
      BY <1>1
    <2> QED
      BY <2>1, <2>2 DEF Range, Injective
  <1>5. ASSUME NEW y \in Range(s), y # s[1] PROVE y \in Range(r)
    <2>1. PICK i \in 1 .. Len(s) : y = s[i]
      BY <1>1, <1>5 DEF Range
    <2>2. i - 1 \in 1 .. Len(s) - 1 /\ (i - 1) + 1 = i
      BY <1>1, <1>5, <2>1
    <2>3. r[i - 1] = y /\ i - 1 \in DOMAIN r
      BY <1>1, <1>2, <2>1, <2>2
    <2> QED
      BY <2>3 DEF Range
  <1>6. Head(s) \in Range(s)
    BY <1>1 DEF Range
  <1> QED
    BY <1>1, <1>2, <1>3, <1>4, <1>5, <1>6

LEMMA TailOrdered ==
    ASSUME NEW S, NEW s \in Seq(S), s # <<>>, NEW p, Ordered(s, p)
    PROVE  Ordered(Tail(s), p)
  <1>1. /\ Len(s) \in Nat /\ DOMAIN s = 1 .. Len(s)
        /\ DOMAIN Tail(s) = 1 .. Len(s) - 1
        /\ \A i \in 1 .. Len(s) - 1 : Tail(s)[i] = s[i + 1]
    OBVIOUS
  <1>2. ASSUME NEW i \in 1 .. Len(s) - 1, NEW j \in 1 .. Len(s) - 1, i < j
        PROVE  p[Tail(s)[i]] <= p[Tail(s)[j]]
    <2>1. i + 1 \in DOMAIN s /\ j + 1 \in DOMAIN s /\ i + 1 < j + 1
      BY <1>1, <1>2
    <2>2. p[s[i + 1]] <= p[s[j + 1]]
      BY <2>1 DEF Ordered
    <2> QED
      BY <1>1, <2>2
  <1> QED
    BY <1>1, <1>2 DEF Ordered

\* An element more at the end.
LEMMA AppendProps ==
    ASSUME NEW S, NEW s \in Seq(S), NEW x \in S, Injective(s), x \notin Range(s)
    PROVE  /\ Append(s, x) \in Seq(S) /\ Injective(Append(s, x)) /\ Append(s, x) # <<>>
           /\ \A y : y \in Range(Append(s, x)) <=> y \in Range(s) \/ y = x
  <1>1. PICK r : r = Append(s, x)
    OBVIOUS
  <1>2. /\ Len(s) \in Nat /\ DOMAIN s = 1 .. Len(s)
        /\ r \in Seq(S) /\ Len(r) = Len(s) + 1 /\ DOMAIN r = 1 .. Len(s) + 1
        /\ r[Len(s) + 1] = x /\ \A i \in 1 .. Len(s) : r[i] = s[i]
    BY <1>1
  <1>3. \A i \in 1 .. Len(s) : s[i] # x
    BY <1>2 DEF Range
  <1>4. Injective(r)
    <2>1. \A i \in DOMAIN r : i \in 1 .. Len(s) \/ i = Len(s) + 1
      BY <1>2
    <2> QED
      BY <1>2, <1>3, <2>1 DEF Injective
  <1>5. ASSUME NEW y PROVE y \in Range(r) <=> y \in Range(s) \/ y = x
    <2>1. ASSUME y \in Range(r) PROVE y \in Range(s) \/ y = x
      <3>1. PICK i \in 1 .. Len(s) + 1 : y = r[i]
        BY <1>2, <2>1 DEF Range
      <3>2. CASE i = Len(s) + 1
        BY <1>2, <3>1, <3>2
      <3>3. CASE i \in 1 .. Len(s)
        BY <1>2, <3>1, <3>3 DEF Range
      <3> QED
        BY <1>2, <3>2, <3>3
    <2>2. ASSUME y \in Range(s) PROVE y \in Range(r)
      <3>1. PICK i \in 1 .. Len(s) : y = s[i]
        BY <1>2, <2>2 DEF Range
      <3>2. y = r[i] /\ i \in DOMAIN r
        BY <1>2, <3>1
      <3> QED
        BY <3>2 DEF Range
    <2>3. x \in Range(r)
      BY <1>2 DEF Range
    <2> QED
      BY <2>1, <2>2, <2>3
  <1> QED
    BY <1>1, <1>2, <1>4, <1>5

-----------------------------------------------------------------------------
(* The lists of the scheduler.                                             *)

\* The lists and the order of the run list.
Good(K) == SchedType(K) /\ ListsConsistent(K) /\ Ordered(K.run, K.t_prio)

\* The same before t, which is not on the run list, is put there.
GoodBut(K, t) ==
    /\ SchedType(K) /\ SleepExact(K) /\ WaitExact(K)
    /\ \A u \in Task : K.t_obj[u] # NULL => K.t_state[u] = "SLEEP"
    /\ Injective(K.run) /\ \A u \in Task : u \in Range(K.run) <=> u # t /\ K.t_state[u] = "READY"
    /\ Ordered(K.run, K.t_prio)

\* Before t, READY, goes to sleep; it may be on the list of an object already.
GoodToSleep(K, t) ==
    /\ SchedType(K) /\ RunExact(K) /\ SleepExact(K) /\ WaitExact(K) /\ Ordered(K.run, K.t_prio)
    /\ \A u \in Task \ {t} : K.t_obj[u] # NULL => K.t_state[u] = "SLEEP"
    /\ K.t_state[t] = "READY"

LEMMA NullIsNothing == NULL \notin Task /\ NULL \notin Obj
  BY SchedAssumption

LEMMA DelaysFit == NEVER \in Nat /\ Delays \subseteq 0 .. NEVER
  BY SchedAssumption DEF NEVER

LEMMA ZeroIsTime == 0 \in 0 .. TimeMod - 1
  BY SchedAssumption

\* os_sched_insert puts a READY task on the run list, at its place.
LEMMA InsertGood ==
    ASSUME NEW K, NEW t \in Task, GoodBut(K, t), K.t_state[t] = "READY",
           NEW Q, Q = os_sched_insert(K, t)
    PROVE  /\ Good(Q)
           /\ Q.t_state = K.t_state /\ Q.t_prio = K.t_prio /\ Q.t_obj = K.t_obj /\ Q.obj_head = K.obj_head
  <1> DEFINE I == LessUrgent(K, K.run, K.t_prio[t])
             r == InsertBefore(K.run, I, t)
             R == [K EXCEPT !.run = r]
  <1>0. /\ K.run \in Seq(Task) /\ K.t_prio \in [Task -> Nat]
        /\ Injective(K.run) /\ t \notin Range(K.run) /\ Ordered(K.run, K.t_prio)
    BY DEF GoodBut, SchedType
  <1>1. I = {i \in DOMAIN K.run : K.t_prio[t] < K.t_prio[K.run[i]]}
    BY DEF LessUrgent
  <1>2. Ordered(r, K.t_prio)
    BY <1>0, <1>1, InsertBeforeOrdered
  <1>3. /\ r \in Seq(Task) /\ Injective(r)
        /\ \A y : y \in Range(r) <=> y \in Range(K.run) \/ y = t
    BY <1>0, <1>1, InsertBeforeProps
  <1>4. Q = R
    BY DEF os_sched_insert
  <1> HIDE DEF r, I
  <1>5. /\ SchedType(R) /\ R.run = r /\ R.sleep = K.sleep /\ R.t_state = K.t_state
        /\ R.t_prio = K.t_prio /\ R.t_obj = K.t_obj /\ R.obj_head = K.obj_head
    BY <1>3 DEF GoodBut, SchedType
  <1> HIDE DEF R
  <1>6. RunExact(R)
    BY <1>3, <1>5 DEF RunExact, GoodBut
  <1>7. SleepExact(R) /\ WaitExact(R) /\ \A u \in Task : R.t_obj[u] # NULL => R.t_state[u] = "SLEEP"
    BY <1>5 DEF SleepExact, WaitExact, GoodBut
  <1>8. Good(R)
    BY <1>2, <1>5, <1>6, <1>7 DEF Good, ListsConsistent
  <1> QED
    BY <1>4, <1>5, <1>8

\* os_sched_sleep moves a READY task to the sleep list.  The task may just have been
\* put on the list of the object it is going to wait for.
LEMMA SleepGood ==
    ASSUME NEW K, NEW t \in Task, NEW n \in 0 .. NEVER, now \in 0 .. TimeMod - 1,
           GoodToSleep(K, t), NEW R, R = os_sched_sleep(K, t, n)
    PROVE  /\ Good(R)
           /\ \A u \in Task : R.t_state[u] = IF u = t THEN "SLEEP" ELSE K.t_state[u]
           /\ R.t_prio = K.t_prio /\ R.t_obj = K.t_obj /\ R.obj_head = K.obj_head
  <1> DEFINE wakeup == (now + n) % TimeMod
             I == IF n = NEVER THEN {}
                  ELSE {i \in DOMAIN K.sleep :
                          \/ K.no_timeout[K.sleep[i]]
                          \/ OS_TIME_TICK_GT(K.t_next_wakeup[K.sleep[i]], wakeup)}
             run == Remove(K.run, t)
             sleep == InsertBefore(K.sleep, I, t)
             at == IF n = NEVER THEN K.t_next_wakeup[t] ELSE wakeup
             forever == K.no_timeout[t] \/ n = NEVER
  <1>0. /\ K.run \in Seq(Task) /\ K.sleep \in Seq(Task) /\ K.t_prio \in [Task -> Nat]
        /\ t \in Range(K.run) /\ Injective(K.run) /\ t \notin Range(K.sleep) /\ Injective(K.sleep)
        /\ Ordered(K.run, K.t_prio)
    BY DEF GoodToSleep, SchedType, RunExact, SleepExact
  <1>1. /\ run \in Seq(Task) /\ Injective(run)
        /\ \A y : y \in Range(run) <=> y \in Range(K.run) /\ y # t
    BY <1>0, RemoveProps
  <1>2. Ordered(run, K.t_prio)
    BY <1>0, RemoveOrdered
  <1>3. I \in SUBSET DOMAIN K.sleep
    OBVIOUS
  <1> DEFINE Q == [K EXCEPT !.run = run, !.t_state[t] = "SLEEP",
                            !.t_next_wakeup[t] = at, !.no_timeout[t] = forever, !.sleep = sleep]
  <1>4. R = Q
    BY DEF os_sched_sleep
  <1> HIDE DEF I
  <1>5. /\ sleep \in Seq(Task) /\ Injective(sleep)
        /\ \A y : y \in Range(sleep) <=> y \in Range(K.sleep) \/ y = t
    BY <1>0, <1>3, InsertBeforeProps
  <1>6. at \in 0 .. TimeMod - 1 /\ forever \in BOOLEAN
    <2>1. wakeup \in 0 .. TimeMod - 1
      BY SchedAssumption DEF NEVER
    <2> QED
      BY <2>1 DEF SchedType, GoodToSleep
  <1> HIDE DEF run, sleep, wakeup, at, forever
  <1>7. /\ SchedType(R)
        /\ R.run = run /\ R.sleep = sleep /\ R.t_state = [K.t_state EXCEPT ![t] = "SLEEP"]
        /\ R.t_prio = K.t_prio /\ R.t_obj = K.t_obj /\ R.obj_head = K.obj_head
    <2>1. /\ SchedType(Q)
          /\ Q.run = run /\ Q.sleep = sleep /\ Q.t_state = [K.t_state EXCEPT ![t] = "SLEEP"]
          /\ Q.t_prio = K.t_prio /\ Q.t_obj = K.t_obj /\ Q.obj_head = K.obj_head
      BY <1>1, <1>5, <1>6 DEF SchedType, GoodToSleep
    <2> QED
      BY <1>4, <2>1
  <1>8. RunExact(R) /\ SleepExact(R)
    BY <1>1, <1>5, <1>7 DEF RunExact, SleepExact, SchedType, GoodToSleep
  <1>9. WaitExact(R) /\ \A u \in Task : R.t_obj[u] # NULL => R.t_state[u] = "SLEEP"
    BY <1>7 DEF WaitExact, SchedType, GoodToSleep
  <1>10. Ordered(R.run, R.t_prio)
    BY <1>2, <1>7
  <1> QED
    BY <1>7, <1>8, <1>9, <1>10 DEF Good, ListsConsistent, GoodToSleep, SchedType

\* A READY task puts itself on the list of an object and goes to sleep.
LEMMA WaitAndSleepGood ==
    ASSUME NEW K, NEW t \in Task, NEW o \in Obj, NEW n \in 0 .. NEVER, now \in 0 .. TimeMod - 1,
           Good(K), K.t_state[t] = "READY",
           NEW R, R = os_sched_sleep(WaitFor(K, t, o), t, n)
    PROVE  /\ Good(R)
           /\ \A u \in Task : R.t_state[u] = IF u = t THEN "SLEEP" ELSE K.t_state[u]
           /\ R.t_prio = K.t_prio
           /\ \A u \in Task : R.t_obj[u] = IF u = t THEN o ELSE K.t_obj[u]
           /\ \A x \in Obj \ {o} : R.obj_head[x] = K.obj_head[x]
  <1> DEFINE W == WaitFor(K, t, o)
             I == LessUrgent(K, K.obj_head[o], K.t_prio[t])
             l == InsertBefore(K.obj_head[o], I, t)
  <1>0. /\ K.obj_head[o] \in Seq(Task) /\ t \notin Range(K.obj_head[o])
        /\ Injective(K.obj_head[o]) /\ K.t_obj[t] = NULL
    BY NullIsNothing DEF Good, SchedType, ListsConsistent, WaitExact
  <1>1. I \in SUBSET DOMAIN K.obj_head[o]
    BY DEF LessUrgent
  <1> HIDE DEF I
  <1>2. /\ l \in Seq(Task) /\ Injective(l)
        /\ \A y : y \in Range(l) <=> y \in Range(K.obj_head[o]) \/ y = t
    BY <1>0, <1>1, InsertBeforeProps
  <1>3. W = [K EXCEPT !.obj_head[o] = l, !.t_obj[t] = o]
    BY DEF WaitFor, I
  <1> HIDE DEF l, W
  <1>4. /\ SchedType(W) /\ W.run = K.run /\ W.sleep = K.sleep /\ W.t_state = K.t_state
        /\ W.t_prio = K.t_prio /\ W.t_obj = [K.t_obj EXCEPT ![t] = o]
        /\ W.obj_head = [K.obj_head EXCEPT ![o] = l]
    BY <1>2, <1>3 DEF Good, SchedType
  <1>5. RunExact(W) /\ SleepExact(W) /\ Ordered(W.run, W.t_prio)
    BY <1>4 DEF RunExact, SleepExact, Good, ListsConsistent
  <1>6. WaitExact(W)
    <2>1. SUFFICES ASSUME NEW x \in Obj, NEW u \in Task
                   PROVE  Injective(W.obj_head[x]) /\ (u \in Range(W.obj_head[x]) <=> W.t_obj[u] = x)
      BY DEF WaitExact
    <2>2. /\ W.t_obj[u] = IF u = t THEN o ELSE K.t_obj[u]
          /\ W.obj_head[x] = IF x = o THEN l ELSE K.obj_head[x]
      BY <1>4 DEF Good, SchedType
    <2>3. Injective(K.obj_head[x]) /\ (u \in Range(K.obj_head[x]) <=> K.t_obj[u] = x)
      BY DEF Good, ListsConsistent, WaitExact
    <2> QED
      BY <1>0, <1>2, <2>2, <2>3, NullIsNothing
  <1>7. \A u \in Task \ {t} : W.t_obj[u] # NULL => W.t_state[u] = "SLEEP"
    BY <1>4 DEF Good, ListsConsistent, SchedType
  <1>8. W.t_state[t] = "READY"
    BY <1>4
  <1>9. R = os_sched_sleep(W, t, n)
    BY DEF W
  <1>10. /\ Good(R) /\ \A u \in Task : R.t_state[u] = IF u = t THEN "SLEEP" ELSE W.t_state[u]
         /\ R.t_prio = W.t_prio /\ R.t_obj = W.t_obj /\ R.obj_head = W.obj_head
    <2>1. GoodToSleep(W, t)
      BY <1>4, <1>5, <1>6, <1>7, <1>8 DEF GoodToSleep
    <2> QED
      BY <1>9, <2>1, SleepGood
  <1>11. K.t_obj \in [Task -> Obj \cup {NULL}] /\ K.obj_head \in [Obj -> Seq(Task)]
    BY DEF Good, SchedType
  <1>12. \A u \in Task : R.t_obj[u] = IF u = t THEN o ELSE K.t_obj[u]
    BY <1>4, <1>10, <1>11
  <1>13. \A x \in Obj \ {o} : R.obj_head[x] = K.obj_head[x]
    BY <1>4, <1>10, <1>11
  <1> QED
    BY <1>4, <1>10, <1>12, <1>13

\* os_sched_wakeup moves a sleeping task to the run list, off the list of the object
\* it waits for.
LEMMA WakeupGood ==
    ASSUME NEW K, NEW t \in Task, Good(K), K.t_state[t] = "SLEEP",
           NEW R, R = os_sched_wakeup(K, t)
    PROVE  /\ Good(R)
           /\ \A u \in Task : R.t_state[u] = IF u = t THEN "READY" ELSE K.t_state[u]
           /\ R.t_prio = K.t_prio
           /\ \A u \in Task : R.t_obj[u] = IF u = t THEN NULL ELSE K.t_obj[u]
           /\ \A o \in Obj : R.obj_head[o] = IF o = K.t_obj[t] THEN Remove(K.obj_head[o], t)
                                             ELSE K.obj_head[o]
  <1> DEFINE head == [o \in Obj |-> IF o = K.t_obj[t] THEN Remove(K.obj_head[o], t) ELSE K.obj_head[o]]
             sleep == Remove(K.sleep, t)
             D == [K EXCEPT !.obj_head = head, !.t_obj[t] = NULL, !.t_state[t] = "READY",
                            !.t_next_wakeup[t] = 0, !.no_timeout[t] = FALSE, !.sleep = sleep]
  <1>1. os_sched_wakeup(K, t) = os_sched_insert(D, t)
    BY DEF os_sched_wakeup
  <1>2. /\ sleep \in Seq(Task) /\ Injective(sleep)
        /\ \A y : y \in Range(sleep) <=> y \in Range(K.sleep) /\ y # t
    <2>1. K.sleep \in Seq(Task) /\ t \in Range(K.sleep) /\ Injective(K.sleep)
      BY DEF Good, SchedType, ListsConsistent, SleepExact
    <2> QED
      BY <2>1, RemoveProps
  <1>3. ASSUME NEW o \in Obj
        PROVE  /\ head[o] \in Seq(Task) /\ Injective(head[o])
               /\ \A u \in Task : u \in Range(head[o]) <=> u # t /\ K.t_obj[u] = o
    <2>1. /\ K.obj_head[o] \in Seq(Task) /\ Injective(K.obj_head[o])
          /\ \A u \in Task : u \in Range(K.obj_head[o]) <=> K.t_obj[u] = o
      BY DEF Good, SchedType, ListsConsistent, WaitExact
    <2>2. CASE o = K.t_obj[t]
      <3>1. /\ Remove(K.obj_head[o], t) \in Seq(Task) /\ Injective(Remove(K.obj_head[o], t))
            /\ \A y : y \in Range(Remove(K.obj_head[o], t)) <=> y \in Range(K.obj_head[o]) /\ y # t
        BY <2>1, <2>2, RemoveProps
      <3>2. head[o] = Remove(K.obj_head[o], t)
        BY <2>2
      <3> HIDE DEF head
      <3> QED
        BY <2>1, <3>1, <3>2
    <2>3. CASE o # K.t_obj[t]
      BY <2>1, <2>3
    <2> QED
      BY <2>2, <2>3
  <1>4. head \in [Obj -> Seq(Task)]
    BY <1>3
  <1>5. \A o \in Obj : head[o] = IF o = K.t_obj[t] THEN Remove(K.obj_head[o], t) ELSE K.obj_head[o]
    OBVIOUS
  <1> HIDE DEF head, sleep
  <1>6. /\ SchedType(D) /\ D.run = K.run /\ D.sleep = sleep /\ D.t_prio = K.t_prio
        /\ D.t_state = [K.t_state EXCEPT ![t] = "READY"]
        /\ D.t_obj = [K.t_obj EXCEPT ![t] = NULL] /\ D.obj_head = head
    BY <1>2, <1>4, ZeroIsTime DEF Good, SchedType
  <1> HIDE DEF D
  <1>7. SleepExact(D)
    BY <1>2, <1>6 DEF SleepExact, Good, ListsConsistent, SchedType
  <1>8. WaitExact(D)
    <2>1. SUFFICES ASSUME NEW o \in Obj, NEW u \in Task
                   PROVE  Injective(D.obj_head[o]) /\ (u \in Range(D.obj_head[o]) <=> D.t_obj[u] = o)
      BY DEF WaitExact
    <2>2. D.t_obj[u] = IF u = t THEN NULL ELSE K.t_obj[u]
      BY <1>6 DEF Good, SchedType
    <2> QED
      BY <1>3, <1>6, <2>2, NullIsNothing
  <1>9. \A u \in Task : D.t_obj[u] # NULL => D.t_state[u] = "SLEEP"
    BY <1>6 DEF Good, SchedType, ListsConsistent
  <1>10. /\ Injective(D.run) /\ Ordered(D.run, D.t_prio)
         /\ \A u \in Task : u \in Range(D.run) <=> u # t /\ D.t_state[u] = "READY"
    BY <1>6 DEF Good, SchedType, ListsConsistent, RunExact
  <1>11. GoodBut(D, t) /\ D.t_state[t] = "READY"
    BY <1>6, <1>7, <1>8, <1>9, <1>10 DEF GoodBut, Good, SchedType
  <1>12. /\ Good(R)
         /\ R.t_state = D.t_state /\ R.t_prio = D.t_prio /\ R.t_obj = D.t_obj /\ R.obj_head = D.obj_head
    BY <1>1, <1>11, InsertGood
  <1> QED
    <2>1. K.t_state \in [Task -> {"READY", "SLEEP"}] /\ K.t_obj \in [Task -> Obj \cup {NULL}]
      BY DEF Good, SchedType
    <2>2. \A u \in Task : R.t_state[u] = IF u = t THEN "READY" ELSE K.t_state[u]
      BY <1>6, <1>12, <2>1
    <2>3. \A u \in Task : R.t_obj[u] = IF u = t THEN NULL ELSE K.t_obj[u]
      BY <1>6, <1>12, <2>1
    <2> QED
      BY <1>5, <1>6, <1>12, <2>2, <2>3

\* Only the priorities of the tasks on a list matter for its order.
LEMMA OrderedByRestriction ==
    ASSUME NEW s, NEW p, NEW q, Ordered(s, p), \A u \in Range(s) : p[u] = q[u]
    PROVE  Ordered(s, q)
  BY DEF Ordered, Range

\* A change of priority moves the task to its place if it is on the run list.
LEMMA SetPrioGood ==
    ASSUME NEW K, NEW t \in Task, NEW p \in Nat, Good(K), NEW R, R = SetPrio(K, t, p)
    PROVE  /\ Good(R)
           /\ \A u \in Task : R.t_prio[u] = IF u = t THEN p ELSE K.t_prio[u]
           /\ R.t_state = K.t_state /\ R.t_obj = K.t_obj /\ R.obj_head = K.obj_head
  <1>0. SchedType(K)
    BY DEF Good
  <1>1. CASE K.t_prio[t] = p
    BY <1>0, <1>1 DEF SetPrio, SchedType
  <1>2. CASE K.t_prio[t] # p
    <2> DEFINE P == [K EXCEPT !.t_prio[t] = p]
    <2>1. /\ SchedType(P) /\ P.run = K.run /\ P.sleep = K.sleep /\ P.t_state = K.t_state
          /\ P.t_prio = [K.t_prio EXCEPT ![t] = p] /\ P.t_obj = K.t_obj /\ P.obj_head = K.obj_head
      BY <1>0 DEF SchedType
    <2>2. R = os_sched_resort(P, t)
      BY <1>2 DEF SetPrio
    <2> HIDE DEF P
    <2>3. SleepExact(P) /\ WaitExact(P) /\ \A u \in Task : P.t_obj[u] # NULL => P.t_state[u] = "SLEEP"
      BY <2>1 DEF Good, ListsConsistent, SleepExact, WaitExact
    <2>4. CASE K.t_state[t] # "READY"
      <3>1. R = P
        BY <2>1, <2>2, <2>4 DEF os_sched_resort
      <3>2. \A u \in Range(K.run) : u \in Task /\ u # t
        BY <1>0, <2>4 DEF Good, ListsConsistent, RunExact, SchedType, Range
      <3>3. Ordered(P.run, P.t_prio)
        <4>1. \A u \in Range(K.run) : K.t_prio[u] = P.t_prio[u]
          BY <1>0, <2>1, <3>2 DEF SchedType
        <4> QED
          <5>1. Ordered(K.run, K.t_prio)
            BY DEF Good
          <5>2. Ordered(K.run, P.t_prio)
            BY <4>1, <5>1, OrderedByRestriction
          <5> QED
            BY <2>1, <5>2
      <3>4. RunExact(P)
        BY <2>1 DEF Good, ListsConsistent, RunExact
      <3> QED
        <4>1. Good(R)
          BY <2>1, <2>3, <3>1, <3>3, <3>4 DEF Good, ListsConsistent
        <4>2. \A u \in Task : R.t_prio[u] = IF u = t THEN p ELSE K.t_prio[u]
          BY <1>0, <2>1, <3>1 DEF SchedType
        <4> QED
          BY <2>1, <3>1, <4>1, <4>2
    <2>5. CASE K.t_state[t] = "READY"
      <3> DEFINE run == Remove(K.run, t)
                 D == [P EXCEPT !.run = run]
      <3>1. R = os_sched_insert(D, t)
        BY <2>1, <2>2, <2>5 DEF os_sched_resort
      <3>2. /\ K.run \in Seq(Task) /\ t \in Range(K.run) /\ Injective(K.run) /\ Ordered(K.run, K.t_prio)
            /\ K.t_prio \in [Task -> Nat]
        BY <2>5 DEF Good, SchedType, ListsConsistent, RunExact
      <3>3. /\ run \in Seq(Task) /\ Injective(run)
            /\ \A y : y \in Range(run) <=> y \in Range(K.run) /\ y # t
        BY <3>2, RemoveProps
      <3>4. Ordered(run, K.t_prio)
        BY <3>2, RemoveOrdered
      <3> HIDE DEF run
      <3>5. /\ SchedType(D) /\ D.run = run /\ D.sleep = P.sleep /\ D.t_state = P.t_state
            /\ D.t_prio = P.t_prio /\ D.t_obj = P.t_obj /\ D.obj_head = P.obj_head
        BY <2>1, <3>3 DEF SchedType
      <3> HIDE DEF D
      <3>6. \A u \in Range(run) : K.t_prio[u] = P.t_prio[u]
        <4>1. \A u \in Range(run) : u \in Task /\ u # t
          <5>1. \A u \in Range(K.run) : u \in Task
            BY <3>2 DEF Range
          <5> QED
            BY <3>3, <5>1
        <4> QED
          BY <1>0, <2>1, <4>1 DEF SchedType
      <3>7. Ordered(D.run, D.t_prio)
        BY <3>4, <3>5, <3>6, OrderedByRestriction
      <3>8. \A u \in Task : u \in Range(D.run) <=> u # t /\ D.t_state[u] = "READY"
        BY <2>1, <3>3, <3>5 DEF Good, ListsConsistent, RunExact
      <3>9. SleepExact(D) /\ WaitExact(D) /\ \A u \in Task : D.t_obj[u] # NULL => D.t_state[u] = "SLEEP"
        BY <2>3, <3>5 DEF SleepExact, WaitExact
      <3>10. GoodBut(D, t) /\ D.t_state[t] = "READY"
        BY <2>1, <2>5, <3>3, <3>5, <3>7, <3>8, <3>9 DEF GoodBut
      <3>11. /\ Good(R)
             /\ R.t_state = D.t_state /\ R.t_prio = D.t_prio /\ R.t_obj = D.t_obj /\ R.obj_head = D.obj_head
        BY <3>1, <3>10, InsertGood
      <3>12. \A u \in Task : R.t_prio[u] = IF u = t THEN p ELSE K.t_prio[u]
        BY <2>1, <3>2, <3>5, <3>11
      <3>13. R.t_state = K.t_state /\ R.t_obj = K.t_obj /\ R.obj_head = K.obj_head
        BY Zenon, <2>1, <3>5, <3>11
      <3> QED
        BY <3>11, <3>12, <3>13
    <2> QED
      BY <2>4, <2>5
  <1> QED
    BY <1>1, <1>2

-----------------------------------------------------------------------------
(* The steps of the scheduler.  What they need and keep, in every module    *)
(* that adds to them: the idle task is always READY, so that the run list   *)
(* is never empty; the task PendSV_Handler has read stays READY until it is *)
(* switched to; and a task that has gone to sleep but still has the         *)
(* processor is on its way to PendSV_Handler.                               *)

KernelInv ==
    /\ Good(sched) /\ cur \in Task /\ now \in 0 .. TimeMod - 1
    /\ psv \in Task \cup {NULL}
    /\ DOMAIN pc = Task /\ DOMAIN next_t = Task
    /\ \A t \in Task : next_t[t] # t
    /\ sched.t_state[Idle] = "READY"
    /\ psv # NULL => sched.t_state[psv] = "READY"
    /\ \/ sched.t_state[cur] = "READY" \/ pendsv = TRUE \/ psv # NULL
       \/ pc[cur] \in {"os_sched", "os_arch_ctx_sw"}

\* The head of the run list is a READY task.
LEMMA HeadReady ==
    ASSUME NEW K, Good(K), K.t_state[Idle] = "READY"
    PROVE  /\ Head(K.run) \in Task /\ K.t_state[Head(K.run)] = "READY"
           /\ K.run # <<>> /\ Head(K.run) \in Range(K.run)
  <1>1. Idle \in Task
    BY SchedAssumption
  <1>2. K.run \in Seq(Task) /\ Idle \in Range(K.run)
    BY <1>1 DEF Good, SchedType, ListsConsistent, RunExact
  <1>3. Len(K.run) > 0 /\ K.run # <<>> /\ Head(K.run) = K.run[1] /\ 1 \in DOMAIN K.run
    BY <1>2 DEF Range
  <1>4. Head(K.run) \in Range(K.run) /\ Head(K.run) \in Task
    BY <1>2, <1>3 DEF Range
  <1> QED
    BY <1>3, <1>4 DEF Good, ListsConsistent, RunExact

LEMMA KernelInit == SchedInit => KernelInv
  <1> SUFFICES ASSUME SchedInit PROVE KernelInv
    OBVIOUS
  <1>1. /\ Idle \in Task /\ Prio \in [Task -> Nat] /\ InitRun \in Seq(Task)
        /\ \A t \in Task : \E i \in DOMAIN InitRun : InitRun[i] = t
        /\ \A i, j \in DOMAIN InitRun : i < j =>
              InitRun[i] # InitRun[j] /\ Prio[InitRun[i]] <= Prio[InitRun[j]]
    BY SchedAssumption
  <1>2. SchedType(sched)
    BY <1>1, NullIsNothing, ZeroIsTime DEF SchedInit, SchedType
  <1>3. /\ sched.run = InitRun /\ sched.sleep = <<>> /\ sched.t_prio = Prio
        /\ \A t \in Task : sched.t_state[t] = "READY" /\ sched.t_obj[t] = NULL
        /\ \A o \in Obj : sched.obj_head[o] = <<>>
    BY DEF SchedInit
  <1>4. RunExact(sched)
    BY <1>1, <1>3 DEF RunExact, Injective, Range
  <1>5. SleepExact(sched) /\ WaitExact(sched)
    BY <1>3, NullIsNothing DEF SleepExact, WaitExact, Injective, Range
  <1>6. Ordered(sched.run, sched.t_prio)
    BY <1>1, <1>3 DEF Ordered
  <1>7. Good(sched)
    BY <1>2, <1>3, <1>4, <1>5, <1>6 DEF Good, ListsConsistent
  <1>8. sched.t_state[Idle] = "READY"
    BY <1>1, <1>3
  <1>9. Head(sched.run) \in Task /\ sched.t_state[Head(sched.run)] = "READY"
    BY <1>7, <1>8, HeadReady
  <1> QED
    BY <1>3, <1>7, <1>8, <1>9, NullIsNothing, ZeroIsTime DEF KernelInv, SchedInit

LEMMA os_schedInv ==
    ASSUME KernelInv, NEW t \in Task, os_sched(t) PROVE KernelInv'
  <1>1. Head(sched.run) \in Task /\ sched.t_state[Head(sched.run)] = "READY"
    BY HeadReady DEF KernelInv
  <1> QED
    BY <1>1, NullIsNothing DEF KernelInv, os_sched, Running, os_sched_next_task

LEMMA os_arch_ctx_swInv ==
    ASSUME KernelInv, NEW t \in Task, os_arch_ctx_sw(t) PROVE KernelInv'
  BY NullIsNothing DEF KernelInv, os_arch_ctx_sw, Running

LEMMA PendSV_readInv ==
    ASSUME KernelInv, PendSV_read PROVE KernelInv'
  <1>1. Head(sched.run) \in Task /\ sched.t_state[Head(sched.run)] = "READY"
    BY HeadReady DEF KernelInv
  <1> QED
    BY <1>1, NullIsNothing DEF KernelInv, PendSV_read

LEMMA PendSV_switchInv ==
    ASSUME KernelInv, PendSV_switch PROVE KernelInv'
  BY DEF KernelInv, PendSV_switch

LEMMA os_time_tickInv ==
    ASSUME KernelInv, NEW p, os_time_tick(p) PROVE KernelInv'
  <1>1. now' \in 0 .. TimeMod - 1
    BY SchedAssumption DEF KernelInv, os_time_tick
  <1> QED
    BY <1>1 DEF KernelInv, os_time_tick

\* The tasks the tick wakes sleep.
LEMMA TimerExpSleeps ==
    ASSUME KernelInv, os_sched_os_timer_exp
    PROVE  Head(sched.sleep) \in Task /\ sched.t_state[Head(sched.sleep)] = "SLEEP"
  <1>1. sched.sleep \in Seq(Task) /\ sched.sleep # <<>>
    BY DEF KernelInv, Good, SchedType, os_sched_os_timer_exp, Expired
  <1>2. Head(sched.sleep) \in Task /\ Head(sched.sleep) \in Range(sched.sleep)
    BY <1>1 DEF Range
  <1> QED
    BY <1>2 DEF KernelInv, Good, ListsConsistent, SleepExact

LEMMA os_sched_os_timer_expInv ==
    ASSUME KernelInv, os_sched_os_timer_exp PROVE KernelInv'
  <1>1. Head(sched.sleep) \in Task /\ sched.t_state[Head(sched.sleep)] = "SLEEP"
    BY TimerExpSleeps
  <1>2. Good(sched') /\ \A u \in Task :
            sched'.t_state[u] = IF u = Head(sched.sleep) THEN "READY" ELSE sched.t_state[u]
    BY <1>1, WakeupGood DEF KernelInv, os_sched_os_timer_exp
  <1>3. Idle \in Task
    BY SchedAssumption
  <1> QED
    BY <1>2, <1>3 DEF KernelInv, os_sched_os_timer_exp

LEMMA timer_handler_endInv ==
    ASSUME KernelInv, pendsv \in BOOLEAN, timer_handler_end PROVE KernelInv'
  BY DEF KernelInv, timer_handler_end

LEMMA os_time_delayInv ==
    ASSUME KernelInv, NEW t \in Task, os_time_delay(t) PROVE KernelInv'
  <1>1. t = cur /\ t # Idle /\ sched.t_state[t] = "READY"
    BY DEF KernelInv, os_time_delay, InApp, Running
  <1>2. PICK n \in Delays : sched' = os_sched_sleep(sched, t, n)
    BY DEF os_time_delay
  <1>3. n \in 0 .. NEVER
    BY DelaysFit
  <1>4. GoodToSleep(sched, t) /\ now \in 0 .. TimeMod - 1
    BY <1>1 DEF KernelInv, Good, GoodToSleep, ListsConsistent
  <1>5. Good(sched') /\ \A u \in Task :
            sched'.t_state[u] = IF u = t THEN "SLEEP" ELSE sched.t_state[u]
    BY <1>2, <1>3, <1>4, SleepGood
  <1>6. Idle \in Task
    BY SchedAssumption
  <1> QED
    BY <1>1, <1>5, <1>6, NullIsNothing DEF KernelInv, os_time_delay, CallSched, InApp, Running

\* Every step of the scheduler keeps KernelInv.
LEMMA SchedNextInv ==
    ASSUME KernelInv, pendsv \in BOOLEAN, SchedNext PROVE KernelInv'
  <1>1. ASSUME NEW t \in Task, os_sched(t) PROVE KernelInv'
    BY <1>1, os_schedInv
  <1>2. ASSUME NEW t \in Task, os_arch_ctx_sw(t) PROVE KernelInv'
    BY <1>2, os_arch_ctx_swInv
  <1>3. ASSUME NEW t \in Task, os_time_delay(t) PROVE KernelInv'
    BY <1>3, os_time_delayInv
  <1>4. CASE PendSV_read
    BY <1>4, PendSV_readInv
  <1>5. CASE PendSV_switch
    BY <1>5, PendSV_switchInv
  <1>6. CASE os_sched_os_timer_exp
    BY <1>6, os_sched_os_timer_expInv
  <1>7. CASE timer_handler_end
    BY <1>7, timer_handler_endInv
  <1>8. CASE SysTick
    BY <1>8, os_time_tickInv DEF SysTick
  <1> QED
    BY <1>1, <1>2, <1>3, <1>4, <1>5, <1>6, <1>7, <1>8 DEF SchedNext, SchedStep

LEMMA KernelStutter ==
    ASSUME KernelInv, UNCHANGED schedVars PROVE KernelInv'
  BY DEF KernelInv, schedVars

\* The scheduler's own steps put no task on the list of an object.
LEMMA SchedNextObjs ==
    ASSUME KernelInv, SchedNext
    PROVE  /\ \A u \in Task : sched'.t_obj[u] \in {sched.t_obj[u], NULL}
           /\ \A o \in Obj : sched.obj_head[o] = <<>> => sched'.obj_head[o] = <<>>
  <1>1. ASSUME NEW t \in Task, os_time_delay(t)
        PROVE  sched'.t_obj = sched.t_obj /\ sched'.obj_head = sched.obj_head
    <2>1. sched.t_state[t] = "READY"
      BY <1>1 DEF KernelInv, os_time_delay, InApp, Running
    <2>2. PICK n \in Delays : sched' = os_sched_sleep(sched, t, n)
      BY <1>1 DEF os_time_delay
    <2>3. n \in 0 .. NEVER
      BY DelaysFit
    <2>4. GoodToSleep(sched, t) /\ now \in 0 .. TimeMod - 1
      BY <2>1 DEF KernelInv, Good, GoodToSleep, ListsConsistent
    <2> QED
      BY <2>2, <2>3, <2>4, SleepGood
  <1>2. ASSUME os_sched_os_timer_exp
        PROVE  /\ \A u \in Task : sched'.t_obj[u] \in {sched.t_obj[u], NULL}
               /\ \A o \in Obj : sched.obj_head[o] = <<>> => sched'.obj_head[o] = <<>>
    <2> DEFINE t == Head(sched.sleep)
    <2>1. t \in Task /\ sched.t_state[t] = "SLEEP" /\ Good(sched)
      BY <1>2, TimerExpSleeps DEF KernelInv
    <2>2. sched' = os_sched_wakeup(sched, t)
      BY <1>2 DEF os_sched_os_timer_exp
    <2> HIDE DEF t
    <2>3. /\ \A u \in Task : sched'.t_obj[u] = IF u = t THEN NULL ELSE sched.t_obj[u]
          /\ \A o \in Obj : sched'.obj_head[o] = IF o = sched.t_obj[t] THEN Remove(sched.obj_head[o], t)
                                                 ELSE sched.obj_head[o]
      BY <2>1, <2>2, WakeupGood
    <2>4. \A o \in Obj : o = sched.t_obj[t] => sched.obj_head[o] # <<>>
      BY <2>1 DEF Good, ListsConsistent, WaitExact, Range
    <2> QED
      BY <2>3, <2>4
  <1>3. CASE UNCHANGED sched
    BY <1>3
  <1> QED
    BY <1>1, <1>2, <1>3 DEF SchedNext, SchedStep, SysTick, os_sched, os_arch_ctx_sw, PendSV_read,
       PendSV_switch, timer_handler_end, os_time_tick

\* What the scheduler's steps do to the places P where tasks are, and to the places
\* Q where they go on after os_sched.
LEMMA SchedNextCalls ==
    ASSUME KernelInv, SchedNext,
           NEW P, {"app", "os_sched", "os_arch_ctx_sw"} \subseteq P, pc \in [Task -> P],
           NEW Q, Q \subseteq P, "app" \in Q, ret \in [Task -> Q],
           next_t \in [Task -> Task \cup {NULL}],
           isr \in {"none", "timer_exp"}, pendsv \in BOOLEAN
    PROVE  /\ pc' \in [Task -> P] /\ ret' \in [Task -> Q] /\ next_t' \in [Task -> Task \cup {NULL}]
           /\ isr' \in {"none", "timer_exp"} /\ pendsv' \in BOOLEAN /\ crit' = crit
           /\ \A u \in Task :
                 \/ pc'[u] = pc[u] /\ ret'[u] = ret[u]
                 \/ pc[u] = "app" /\ pc'[u] = "os_sched" /\ ret'[u] = "app"
                 \/ /\ pc[u] \in {"os_sched", "os_arch_ctx_sw"} /\ ret'[u] = ret[u]
                    /\ pc'[u] \in {"os_arch_ctx_sw", ret[u]}
  <1>1. ASSUME NEW t \in Task, os_sched(t)
        PROVE  /\ UNCHANGED <<ret, isr, pendsv, crit>> /\ pc[t] = "os_sched"
               /\ next_t' \in [Task -> Task \cup {NULL}]
               /\ \E p \in {"os_arch_ctx_sw", ret[t]} : pc' = [pc EXCEPT ![t] = p]
    <2>1. Head(sched.run) \in Task
      BY HeadReady DEF KernelInv
    <2> QED
      BY <1>1, <2>1 DEF os_sched, os_sched_next_task
  <1>2. ASSUME NEW t \in Task, os_arch_ctx_sw(t)
        PROVE  /\ UNCHANGED <<ret, isr, crit>> /\ pc[t] = "os_arch_ctx_sw" /\ pendsv' = TRUE
               /\ next_t' = [next_t EXCEPT ![t] = NULL] /\ pc' = [pc EXCEPT ![t] = ret[t]]
    BY <1>2 DEF os_arch_ctx_sw
  <1>3. ASSUME NEW t \in Task, os_time_delay(t)
        PROVE  /\ UNCHANGED <<isr, pendsv, crit>> /\ pc[t] = "app"
               /\ pc' = [pc EXCEPT ![t] = "os_sched"] /\ ret' = [ret EXCEPT ![t] = "app"]
               /\ next_t' = [next_t EXCEPT ![t] = NULL]
    BY <1>3 DEF os_time_delay, CallSched, InApp
  <1>4. \/ \E t \in Task : os_sched(t) \/ os_arch_ctx_sw(t) \/ os_time_delay(t)
        \/ /\ UNCHANGED <<pc, next_t, ret, crit>>
           /\ isr' \in {isr, "none", "timer_exp"} /\ pendsv' \in BOOLEAN
    BY DEF SchedNext, SchedStep, SysTick, PendSV_read, PendSV_switch, os_sched_os_timer_exp,
       timer_handler_end, os_time_tick
  <1>5. CASE \E t \in Task : os_sched(t)
    BY <1>1, <1>5
  <1>6. CASE \E t \in Task : os_arch_ctx_sw(t)
    BY <1>2, <1>6
  <1>7. CASE \E t \in Task : os_time_delay(t)
    BY <1>3, <1>7
  <1>8. CASE /\ UNCHANGED <<pc, next_t, ret, crit>>
             /\ isr' \in {isr, "none", "timer_exp"} /\ pendsv' \in BOOLEAN
    BY <1>8
  <1> QED
    BY <1>4, <1>5, <1>6, <1>7, <1>8

\* What a step of the running task t has to do to keep KernelInv.
LEMMA TaskStepInv ==
    ASSUME KernelInv, NEW t \in Task, Running(t), UNCHANGED <<cur, now, psv>>,
           Good(sched'), sched'.t_state[Idle] = "READY",
           DOMAIN pc' = Task, DOMAIN next_t' = Task, \A u \in Task : next_t'[u] # u,
           sched'.t_state[t] = "READY" \/ pc'[t] \in {"os_sched", "os_arch_ctx_sw"}
    PROVE  KernelInv'
  BY DEF KernelInv, Running

LEMMA CallSchedKeeps ==
    ASSUME KernelInv, NEW t \in Task, NEW n, n # t, NEW r, CallSched(t, n, r)
    PROVE  /\ DOMAIN pc' = Task /\ DOMAIN next_t' = Task /\ pc'[t] = "os_sched"
           /\ \A u \in Task : next_t'[u] # u
  BY DEF KernelInv, CallSched

\* A step of the running task that leaves it READY and calls os_sched or not.
LEMMA TaskCallInv ==
    ASSUME KernelInv, NEW t \in Task, Running(t), UNCHANGED <<cur, now, psv>>,
           Good(sched'), sched'.t_state[Idle] = "READY", sched'.t_state[t] = "READY",
           \/ \E n, r : n # t /\ CallSched(t, n, r)
           \/ UNCHANGED next_t /\ (UNCHANGED pc \/ \E p : pc' = [pc EXCEPT ![t] = p])
    PROVE  KernelInv'
  <1>1. DOMAIN pc' = Task /\ DOMAIN next_t' = Task /\ \A u \in Task : next_t'[u] # u
    <2>1. CASE \E n, r : n # t /\ CallSched(t, n, r)
      BY <2>1, CallSchedKeeps
    <2>2. CASE UNCHANGED next_t /\ (UNCHANGED pc \/ \E p : pc' = [pc EXCEPT ![t] = p])
      BY <2>2 DEF KernelInv
    <2> QED
      BY <2>1, <2>2
  <1> QED
    BY <1>1, TaskStepInv

\* A task that executes code outside os_sched is READY and waits for nothing.
LEMMA RunningFree ==
    ASSUME KernelInv, NEW t \in Task, Running(t), pc[t] \notin {"os_sched", "os_arch_ctx_sw"}
    PROVE  t = cur /\ sched.t_state[t] = "READY" /\ sched.t_obj[t] = NULL
  BY DEF KernelInv, Running, Good, ListsConsistent

\* Such a step that leaves the lists alone.
LEMMA TaskQuietInv ==
    ASSUME KernelInv, NEW t \in Task, Running(t), pc[t] \notin {"os_sched", "os_arch_ctx_sw"},
           UNCHANGED <<sched, cur, now, psv>>,
           \/ \E n, r : n # t /\ CallSched(t, n, r)
           \/ UNCHANGED next_t /\ (UNCHANGED pc \/ \E p : pc' = [pc EXCEPT ![t] = p])
    PROVE  KernelInv'
  <1>1. Good(sched') /\ sched'.t_state[Idle] = "READY" /\ sched'.t_state[t] = "READY"
    BY RunningFree DEF KernelInv
  <1> QED
    BY <1>1, TaskCallInv

\* The first task on the list of an object waits for it, asleep.
LEMMA FirstWaits ==
    ASSUME KernelInv, NEW o \in Obj, sched.obj_head[o] # <<>>,
           NEW r, r = Head(sched.obj_head[o])
    PROVE  r \in Task /\ sched.t_obj[r] = o /\ sched.t_state[r] = "SLEEP"
  <1>1. sched.obj_head[o] \in Seq(Task)
    BY DEF KernelInv, Good, SchedType
  <1>2. r \in Task /\ r \in Range(sched.obj_head[o])
    BY <1>1 DEF Range
  <1> QED
    BY <1>2, NullIsNothing DEF KernelInv, Good, ListsConsistent, WaitExact

\* Waking the first waiter of an object, of a kernel state K that differs from
\* sched in priorities only.
LEMMA WakeFirst ==
    ASSUME KernelInv, NEW o \in Obj, sched.obj_head[o] # <<>>,
           NEW r, r = Head(sched.obj_head[o]),
           NEW K, Good(K), K.t_state = sched.t_state, K.t_obj = sched.t_obj, K.obj_head = sched.obj_head,
           NEW R, R = os_sched_wakeup(K, r)
    PROVE  /\ Good(R) /\ R.t_state[Idle] = "READY"
           /\ \A u \in Task : R.t_state[u] = IF u = r THEN "READY" ELSE sched.t_state[u]
           /\ R.t_prio = K.t_prio
           /\ \A u \in Task : R.t_obj[u] = IF u = r THEN NULL ELSE sched.t_obj[u]
           /\ \A x \in Obj : sched.obj_head[x] = <<>> => R.obj_head[x] = <<>>
  <1>1. r \in Task /\ sched.t_obj[r] = o /\ sched.t_state[r] = "SLEEP"
    BY FirstWaits
  <1>2. /\ Good(R)
        /\ \A u \in Task : R.t_state[u] = IF u = r THEN "READY" ELSE K.t_state[u]
        /\ R.t_prio = K.t_prio
        /\ \A u \in Task : R.t_obj[u] = IF u = r THEN NULL ELSE K.t_obj[u]
        /\ \A x \in Obj : R.obj_head[x] = IF x = K.t_obj[r] THEN Remove(K.obj_head[x], r) ELSE K.obj_head[x]
    BY <1>1, WakeupGood
  <1>3. Idle \in Task /\ sched.t_state[Idle] = "READY"
    BY SchedAssumption DEF KernelInv
  <1>4. \A x \in Obj : sched.obj_head[x] = <<>> => R.obj_head[x] = <<>>
    BY <1>1, <1>2
  <1>5. R.t_state[Idle] = "READY"
    BY <1>2, <1>3
  <1> QED
    BY <1>2, <1>4, <1>5

\* What os_sched_wakeup does to the sleep list and its times.
LEMMA WakeupTimes ==
    ASSUME NEW K, SchedType(K), NEW t \in Task, NEW R, R = os_sched_wakeup(K, t)
    PROVE  /\ R.sleep = Remove(K.sleep, t)
           /\ R.no_timeout = [K.no_timeout EXCEPT ![t] = FALSE]
           /\ R.t_next_wakeup = [K.t_next_wakeup EXCEPT ![t] = 0]
  <1> DEFINE D == [K EXCEPT !.obj_head = [o \in Obj |-> IF o = K.t_obj[t] THEN Remove(@[o], t) ELSE @[o]],
                            !.t_obj[t] = NULL, !.t_state[t] = "READY",
                            !.t_next_wakeup[t] = 0, !.no_timeout[t] = FALSE, !.sleep = Remove(@, t)]
  <1>1. /\ D.sleep = Remove(K.sleep, t) /\ D.no_timeout = [K.no_timeout EXCEPT ![t] = FALSE]
        /\ D.t_next_wakeup = [K.t_next_wakeup EXCEPT ![t] = 0]
        /\ D.t_state = [K.t_state EXCEPT ![t] = "READY"]
        /\ D = [D EXCEPT !.run = D.run]
    BY DEF SchedType
  <1>2. R = os_sched_insert(D, t)
    BY DEF os_sched_wakeup
  <1>3. D \in [run : {D.run}, sleep : {D.sleep}, t_state : {D.t_state}, t_prio : {D.t_prio},
               t_next_wakeup : {D.t_next_wakeup}, no_timeout : {D.no_timeout},
               t_obj : {D.t_obj}, obj_head : {D.obj_head}]
    BY DEF SchedType
  <1> HIDE DEF D
  <1>4. R.sleep = D.sleep /\ R.no_timeout = D.no_timeout /\ R.t_next_wakeup = D.t_next_wakeup
    BY <1>2, <1>3 DEF os_sched_insert
  <1> QED
    BY <1>1, <1>4

\* A task that sleeps for ever has its flag set, and the flags of the others stay.
LEMMA SleepFlag ==
    ASSUME NEW K, SchedType(K), NEW t \in Task, NEW n, NEW R, R = os_sched_sleep(K, t, n)
    PROVE  \A u \in Task \ {t} : R.no_timeout[u] = K.no_timeout[u]
  <1>1. R.no_timeout = [K.no_timeout EXCEPT ![t] = @ \/ n = NEVER]
    BY DEF os_sched_sleep, SchedType
  <1> QED
    BY <1>1 DEF SchedType

LEMMA SleepForEver ==
    ASSUME NEW K, SchedType(K), NEW t \in Task, NEW R, R = os_sched_sleep(K, t, NEVER)
    PROVE  R.no_timeout[t] = TRUE
  <1>1. R.no_timeout = [K.no_timeout EXCEPT ![t] = @ \/ NEVER = NEVER]
    BY DEF os_sched_sleep, SchedType
  <1> QED
    BY <1>1 DEF SchedType

-----------------------------------------------------------------------------
(* The clock, and lists in the order of time, across its wrap.             *)

Time == 0 .. TimeMod - 1
Half == TimeMod \div 2

LEMMA HalfFacts == TimeMod \in Nat /\ Half \in Nat /\ 2 <= Half /\ 2 * Half <= TimeMod /\ TimeMod <= 2 * Half + 1
  BY SchedAssumption DEF Half

LEMMA ModOnce ==
    ASSUME NEW x \in Int
    PROVE  /\ x \in 0 .. TimeMod - 1 => x % TimeMod = x
           /\ x \in TimeMod .. 2 * TimeMod - 1 => x % TimeMod = x - TimeMod
           /\ x \in -TimeMod .. -1 => x % TimeMod = x + TimeMod
  <1>0. TimeMod \in Nat /\ TimeMod > 3
    BY SchedAssumption
  <1>1. CASE x \in 0 .. TimeMod - 1
    BY <1>0, <1>1
  <1>2. CASE x \in TimeMod .. 2 * TimeMod - 1
    BY <1>0, <1>2, SMTT(20)
  <1>3. CASE x \in -TimeMod .. -1
    BY <1>0, <1>3, SMTT(20)
  <1> QED
    BY <1>0, <1>1, <1>2, <1>3

\* The difference of two times, by cases.
LEMMA DiffIs ==
    ASSUME NEW a \in Time, NEW b \in Time
    PROVE  /\ Diff(a, b) = IF a >= b THEN a - b ELSE a - b + TimeMod
           /\ Diff(a, b) \in Time
  <1>0. TimeMod \in Nat /\ a \in 0 .. TimeMod - 1 /\ b \in 0 .. TimeMod - 1
    BY HalfFacts DEF Time
  <1>1. CASE a >= b
    <2>1. a - b \in Int /\ a - b \in 0 .. TimeMod - 1
      BY <1>0, <1>1
    <2>2. Diff(a, b) = a - b
      BY <2>1, ModOnce DEF Diff
    <2> QED
      BY <1>1, <2>1, <2>2 DEF Time
  <1>2. CASE ~(a >= b)
    <2>1. a - b \in Int /\ a - b \in -TimeMod .. -1
      BY <1>0, <1>2
    <2>2. Diff(a, b) = a - b + TimeMod
      BY <2>1, ModOnce DEF Diff
    <2> QED
      BY <1>0, <1>2, <2>2 DEF Time
  <1> QED
    BY <1>1, <1>2

\* A time n ticks ahead.
LEMMA AheadBy ==
    ASSUME NEW a \in Time, NEW n \in 0 .. TimeMod - 1, NEW w, w = (a + n) % TimeMod
    PROVE  w \in Time /\ Diff(w, a) = n
  <1>0. TimeMod \in Nat /\ a \in 0 .. TimeMod - 1 /\ n \in 0 .. TimeMod - 1 /\ a + n \in Int
    BY HalfFacts DEF Time
  <1>1. w = IF a + n < TimeMod THEN a + n ELSE a + n - TimeMod
    <2>1. CASE a + n < TimeMod
      <3>1. a + n \in 0 .. TimeMod - 1
        BY <1>0, <2>1
      <3> QED
        BY <1>0, <2>1, <3>1, ModOnce
    <2>2. CASE ~(a + n < TimeMod)
      <3>1. a + n \in TimeMod .. 2 * TimeMod - 1
        BY <1>0, <2>2
      <3> QED
        BY <1>0, <2>2, <3>1, ModOnce
    <2> QED
      BY <2>1, <2>2
  <1>2. w \in 0 .. TimeMod - 1
    BY <1>0, <1>1
  <1>3. w \in Time
    BY <1>2 DEF Time
  <1>4. Diff(w, a) = IF w >= a THEN w - a ELSE w - a + TimeMod
    BY <1>3, DiffIs
  <1> QED
    BY <1>0, <1>1, <1>2, <1>3, <1>4

\* Of times less than half the clock ahead, the comparisons of os_time.h tell which
\* is later, and whether one has come.
LEMMA Compare ==
    ASSUME NEW a \in Time, NEW w \in Time, NEW v \in Time, Diff(w, a) < Half, Diff(v, a) < Half
    PROVE  /\ OS_TIME_TICK_GT(v, w) <=> Diff(w, a) < Diff(v, a)
           /\ OS_TIME_TICK_LT(w, v) <=> Diff(w, a) < Diff(v, a)
           /\ OS_TIME_TICK_GEQ(a, w) <=> a = w
           /\ a = w <=> Diff(w, a) = 0
  <1>1. /\ a \in 0 .. TimeMod - 1 /\ w \in 0 .. TimeMod - 1 /\ v \in 0 .. TimeMod - 1
        /\ TimeMod \in Nat /\ Half \in Nat /\ 2 * Half <= TimeMod /\ TimeMod <= 2 * Half + 1
    BY HalfFacts DEF Time
  <1>2. /\ Diff(w, a) = IF w >= a THEN w - a ELSE w - a + TimeMod
        /\ Diff(v, a) = IF v >= a THEN v - a ELSE v - a + TimeMod
        /\ Diff(v, w) = IF v >= w THEN v - w ELSE v - w + TimeMod
        /\ Diff(w, v) = IF w >= v THEN w - v ELSE w - v + TimeMod
        /\ Diff(a, w) = IF a >= w THEN a - w ELSE a - w + TimeMod
    BY DiffIs
  <1>3. OS_TIME_TICK_GT(v, w) <=> Diff(w, a) < Diff(v, a)
    BY <1>1, <1>2 DEF OS_TIME_TICK_GT, Half
  <1>4. OS_TIME_TICK_LT(w, v) <=> Diff(w, a) < Diff(v, a)
    BY <1>1, <1>2 DEF OS_TIME_TICK_LT, Half
  <1>5. (OS_TIME_TICK_GEQ(a, w) <=> a = w) /\ (a = w <=> Diff(w, a) = 0)
    BY <1>1, <1>2 DEF OS_TIME_TICK_GEQ, Half
  <1> QED
    BY <1>3, <1>4, <1>5

\* A tick brings a time that is ahead nearer by one.
LEMMA TickNearer ==
    ASSUME NEW a \in Time, NEW w \in Time, Diff(w, a) > 0, NEW b, b = (a + 1) % TimeMod
    PROVE  b \in Time /\ Diff(w, b) = Diff(w, a) - 1
  <1>1. a \in 0 .. TimeMod - 1 /\ w \in 0 .. TimeMod - 1 /\ TimeMod \in Nat /\ 1 \in 0 .. TimeMod - 1
    BY HalfFacts DEF Time
  <1>2. b \in Time /\ Diff(b, a) = 1
    BY <1>1, AheadBy
  <1>3. /\ Diff(w, a) = IF w >= a THEN w - a ELSE w - a + TimeMod
        /\ Diff(w, b) = IF w >= b THEN w - b ELSE w - b + TimeMod
        /\ Diff(b, a) = IF b >= a THEN b - a ELSE b - a + TimeMod
    BY <1>2, DiffIs
  <1>4. b \in 0 .. TimeMod - 1
    BY <1>2 DEF Time
  <1> QED
    BY <1>1, <1>2, <1>3, <1>4

\* At time a, the list s is in the order of the times w of its elements, all of them
\* less than half the clock ahead.
Left(w, a) == [x \in DOMAIN w |-> Diff(w[x], a)]
Clocked(s, w, a) == Ordered(s, Left(w, a)) /\ \A x \in Range(s) : Diff(w[x], a) < Half

LEMMA LeftType ==
    ASSUME NEW S, NEW w \in [S -> Time], NEW a \in Time
    PROVE  Left(w, a) \in [S -> Nat] /\ \A x \in S : Left(w, a)[x] = Diff(w[x], a) /\ Diff(w[x], a) \in Nat
  <1>1. \A x \in S : Diff(w[x], a) \in Time
    BY DiffIs
  <1>2. Time \subseteq Nat
    BY DEF Time
  <1> QED
    BY <1>1, <1>2 DEF Left

\* Put before the later ones, as os_sched_sleep and os_callout_reset do, an element
\* takes its place.
LEMMA ClockedInsert ==
    ASSUME NEW S, NEW s \in Seq(S), NEW x \in S, NEW w \in [S -> Time], NEW a \in Time,
           Injective(s), x \notin Range(s), Clocked(s, w, a), Diff(w[x], a) < Half,
           NEW I, \/ I = {i \in DOMAIN s : OS_TIME_TICK_GT(w[s[i]], w[x])}
                  \/ I = {i \in DOMAIN s : OS_TIME_TICK_LT(w[x], w[s[i]])}
    PROVE  Clocked(InsertBefore(s, I, x), w, a)
  <1> DEFINE p == Left(w, a)
             J == {i \in DOMAIN s : p[x] < p[s[i]]}
  <1>1. p \in [S -> Nat] /\ \A y \in S : p[y] = Diff(w[y], a)
    BY LeftType
  <1>2. \A i \in DOMAIN s : s[i] \in S /\ s[i] \in Range(s)
    BY DEF Range
  <1>3. \A i \in DOMAIN s : /\ OS_TIME_TICK_GT(w[s[i]], w[x]) <=> p[x] < p[s[i]]
                            /\ OS_TIME_TICK_LT(w[x], w[s[i]]) <=> p[x] < p[s[i]]
    <2> SUFFICES ASSUME NEW i \in DOMAIN s
                 PROVE  /\ OS_TIME_TICK_GT(w[s[i]], w[x]) <=> p[x] < p[s[i]]
                        /\ OS_TIME_TICK_LT(w[x], w[s[i]]) <=> p[x] < p[s[i]]
      OBVIOUS
    <2>1. w[s[i]] \in Time /\ w[x] \in Time /\ Diff(w[s[i]], a) < Half
      BY <1>2 DEF Clocked
    <2>2. p[x] = Diff(w[x], a) /\ p[s[i]] = Diff(w[s[i]], a)
      BY <1>1, <1>2
    <2>3. PICK u \in Time, v \in Time : u = w[x] /\ v = w[s[i]]
      BY <2>1
    <2>4. Diff(u, a) < Half /\ Diff(v, a) < Half
      BY <2>1, <2>3
    <2>5. /\ OS_TIME_TICK_GT(v, u) <=> Diff(u, a) < Diff(v, a)
          /\ OS_TIME_TICK_LT(u, v) <=> Diff(u, a) < Diff(v, a)
      BY <2>4, Compare
    <2> HIDE DEF p
    <2> QED
      BY <2>2, <2>3, <2>5
  <1>4. I = J
    <2> HIDE DEF p
    <2> QED
      BY <1>3
  <1>5. Ordered(s, p)
    BY DEF Clocked
  <1> HIDE DEF p
  <1>6. Ordered(InsertBefore(s, J, x), p)
    BY <1>1, <1>5, InsertBeforeOrdered
  <1>7. I \in SUBSET DOMAIN s
    BY <1>4
  <1>8. \A y : y \in Range(InsertBefore(s, I, x)) <=> y \in Range(s) \/ y = x
    BY <1>7, InsertBeforeProps
  <1>9. Ordered(InsertBefore(s, I, x), p)
    BY <1>4, <1>6
  <1>10. \A y \in Range(InsertBefore(s, I, x)) : Diff(w[y], a) < Half
    BY <1>8 DEF Clocked
  <1> QED
    BY <1>9, <1>10 DEF Clocked, p

LEMMA ClockedRemove ==
    ASSUME NEW S, NEW s \in Seq(S), NEW x, NEW w \in [S -> Time], NEW a \in Time,
           Injective(s), Clocked(s, w, a)
    PROVE  Clocked(Remove(s, x), w, a) /\ Range(Remove(s, x)) \subseteq Range(s)
  <1>0. Left(w, a) \in [S -> Nat]
    BY LeftType
  <1>1. CASE x \in Range(s)
    <2>1. \A y : y \in Range(Remove(s, x)) <=> y \in Range(s) /\ y # x
      BY <1>1, RemoveProps
    <2>2. Ordered(Remove(s, x), Left(w, a))
      BY <1>0, <1>1, RemoveOrdered DEF Clocked
    <2> QED
      BY <2>1, <2>2 DEF Clocked
  <1>2. CASE x \notin Range(s)
    BY <1>2 DEF Remove
  <1> QED
    BY <1>1, <1>2

LEMMA ClockedTail ==
    ASSUME NEW S, NEW s \in Seq(S), s # <<>>, Injective(s), NEW w \in [S -> Time], NEW a \in Time,
           Clocked(s, w, a)
    PROVE  Clocked(Tail(s), w, a)
  <1>1. Ordered(Tail(s), Left(w, a))
    BY TailOrdered DEF Clocked
  <1>2. \A y : y \in Range(Tail(s)) => y \in Range(s)
    BY TailProps
  <1> QED
    BY <1>1, <1>2 DEF Clocked

\* Only the times of the elements matter.
LEMMA ClockedByTimes ==
    ASSUME NEW S, NEW s \in Seq(S), NEW w \in [S -> Time], NEW v \in [S -> Time], NEW a \in Time,
           Clocked(s, w, a), \A x \in Range(s) : v[x] = w[x]
    PROVE  Clocked(s, v, a)
  <1>1. \A x \in Range(s) : x \in S
    BY DEF Range
  <1>2. \A x \in Range(s) : Left(w, a)[x] = Left(v, a)[x]
    BY <1>1 DEF Left
  <1>3. Ordered(s, Left(v, a))
    BY <1>2, OrderedByRestriction DEF Clocked
  <1> QED
    BY <1>3 DEF Clocked

\* The tick keeps the order when no time has come yet.
LEMMA ClockedTick ==
    ASSUME NEW S, NEW s \in Seq(S), NEW w \in [S -> Time], NEW a \in Time, Clocked(s, w, a),
           \A x \in Range(s) : Diff(w[x], a) > 0, NEW b, b = (a + 1) % TimeMod
    PROVE  Clocked(s, w, b) /\ b \in Time
  <1>0. b \in Time
    <2>1. 1 \in 0 .. TimeMod - 1
      BY HalfFacts
    <2> QED
      BY <2>1, AheadBy
  <1>1. \A x \in Range(s) : x \in S
    BY DEF Range
  <1>2. \A x \in Range(s) : Diff(w[x], b) = Diff(w[x], a) - 1
    BY <1>1, TickNearer
  <1>3. /\ \A x \in S : Left(w, a)[x] = Diff(w[x], a) /\ Diff(w[x], a) \in Nat
        /\ \A x \in S : Left(w, b)[x] = Diff(w[x], b) /\ Diff(w[x], b) \in Nat
    BY <1>0, LeftType
  <1>4. ASSUME NEW i \in DOMAIN s, NEW j \in DOMAIN s, i < j
        PROVE  Left(w, b)[s[i]] <= Left(w, b)[s[j]]
    <2>1. s[i] \in Range(s) /\ s[j] \in Range(s)
      BY DEF Range
    <2>2. Left(w, a)[s[i]] <= Left(w, a)[s[j]]
      BY <1>4 DEF Clocked, Ordered
    <2> QED
      BY <1>1, <1>2, <1>3, <2>1, <2>2
  <1>5. \A x \in Range(s) : Diff(w[x], b) < Half
    BY <1>1, <1>2, <1>3, HalfFacts DEF Clocked
  <1> QED
    BY <1>0, <1>4, <1>5 DEF Clocked, Ordered

\* The first element has come exactly when the comparison says so; if it has not,
\* none has.
LEMMA ClockedHead ==
    ASSUME NEW S, NEW s \in Seq(S), s # <<>>, NEW w \in [S -> Time], NEW a \in Time, Clocked(s, w, a)
    PROVE  /\ Head(s) \in S /\ Head(s) \in Range(s)
           /\ OS_TIME_TICK_GEQ(a, w[Head(s)]) <=> a = w[Head(s)]
           /\ ~OS_TIME_TICK_GEQ(a, w[Head(s)]) => \A x \in Range(s) : Diff(w[x], a) > 0
  <1>1. 1 \in DOMAIN s /\ Head(s) = s[1] /\ s[1] \in S /\ s[1] \in Range(s)
    BY DEF Range
  <1>2. PICK h \in S : h = Head(s)
    BY <1>1
  <1>3. h = s[1] /\ h \in Range(s) /\ w[h] \in Time /\ Diff(w[h], a) < Half
    BY <1>1, <1>2 DEF Clocked
  <1>4. (OS_TIME_TICK_GEQ(a, w[h]) <=> a = w[h]) /\ (a = w[h] <=> Diff(w[h], a) = 0)
    BY <1>3, Compare
  <1>5. ASSUME Diff(w[h], a) # 0, NEW x \in Range(s) PROVE Diff(w[x], a) > 0
    <2>1. PICK i \in DOMAIN s : s[i] = x
      BY DEF Range
    <2>2. x \in S /\ Left(w, a)[x] = Diff(w[x], a) /\ Diff(w[x], a) \in Nat
          /\ Left(w, a)[h] = Diff(w[h], a) /\ Diff(w[h], a) \in Nat
      BY <2>1, LeftType
    <2>3. Left(w, a)[h] <= Left(w, a)[x]
      <3>1. CASE i = 1
        BY <1>3, <2>1, <2>2, <3>1
      <3>2. CASE i # 1
        BY <1>1, <1>3, <2>1, <3>2 DEF Clocked, Ordered
      <3> QED
        BY <3>1, <3>2
    <2> QED
      BY <1>5, <2>2, <2>3
  <1> QED
    BY <1>1, <1>2, <1>3, <1>4, <1>5
=============================================================================

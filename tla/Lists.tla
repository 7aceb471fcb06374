-------------------------------- MODULE Lists --------------------------------
(***************************************************************************)
(* Ordered lists of the kernel, libs/os/include/os/queue.h, as sequences.  *)
(* (The proofs are about these few operators; SequencesExt and             *)
(* FiniteSetsExt, which have some of them, would bring their whole         *)
(* libraries into every proof obligation.)                                 *)
(***************************************************************************)
EXTENDS Integers, Sequences, Functions

\* No element is on the list twice.
Injective(s) == \A i, j \in DOMAIN s : s[i] = s[j] => i = j

\* The list is in the order of p.
Ordered(s, p) == \A i, j \in DOMAIN s : i < j => p[s[i]] <= p[s[j]]

InsertAt(s, i, x) == Append(SubSeq(s, 1, i - 1), x) \o SubSeq(s, i, Len(s))
RemoveAt(s, i) == SubSeq(s, 1, i - 1) \o SubSeq(s, i + 1, Len(s))

\* The first of the positions I.
First(I) == CHOOSE i \in I : \A j \in I : i <= j

\* The list s with x put before the first of the positions I, or at the end.
InsertBefore(s, I, x) == InsertAt(s, IF I = {} THEN Len(s) + 1 ELSE First(I), x)

\* The list s without x, which is on it at most once.
Remove(s, x) == IF x \in Range(s) THEN RemoveAt(s, CHOOSE i \in DOMAIN s : s[i] = x) ELSE s
=============================================================================

---- MODULE Version ----
(***************************************************************************)
(* Version: which of two package versions is newer.  A part of a version   *)
(* is a run of segments, each a number or a word behind `sep` separators,  *)
(* and the separators that trail it; a word stands as its rank among the   *)
(* words in byte order.  The outcome is -1, 0 or 1.                        *)
(***************************************************************************)
EXTENDS Integers, Sequences, FiniteSetsExt

Compare(m, n) == IF m < n THEN -1 ELSE IF m > n THEN 1 ELSE 0

Num(sep, n) == [sep |-> sep, word |-> FALSE, val |-> n]
Word(sep, n) == [sep |-> sep, word |-> TRUE, val |-> n]
Part(segments) == [segments |-> segments, trailing |-> 0]

(* The separators decide, then a number outranks a word, then the value.   *)
SegmentCmp(a, b) ==
  IF a.sep # b.sep THEN Compare(a.sep, b.sep)
  ELSE IF a.word # b.word THEN (IF b.word THEN 1 ELSE -1)
  ELSE Compare(a.val, b.val)

(* What is left of the longer part beats nothing, unless it starts with a  *)
(* word: at once, or after separators the other part ends in as well.      *)
Outlasts(long, short) ==
  LET more == long.segments[Len(short.segments) + 1] IN
  ~(more.word /\ (more.sep = 0 \/ short.trailing > 0))

TailCmp(a, b) ==
  LET m == Len(a.segments)  n == Len(b.segments) IN
  IF m > n THEN (IF Outlasts(a, b) THEN 1 ELSE -1)
  ELSE IF m < n THEN (IF Outlasts(b, a) THEN -1 ELSE 1)
  ELSE Compare(Min({a.trailing, 1}), Min({b.trailing, 1}))

Differing(a, b) ==
  {n \in DOMAIN a.segments \cap DOMAIN b.segments :
     SegmentCmp(a.segments[n], b.segments[n]) # 0}

Rpmvercmp(a, b) ==
  IF Differing(a, b) = {} THEN TailCmp(a, b)
  ELSE LET n == Min(Differing(a, b)) IN SegmentCmp(a.segments[n], b.segments[n])

(* `epoch:version-release`; the release is a set of at most one part.      *)
Version(epoch, version, release) ==
  [epoch |-> epoch, version |-> version, release |-> release]

(* A version without a release equals every release of it.                 *)
ReleaseCmp(a, b) ==
  IF a.release = {} \/ b.release = {} THEN 0
  ELSE Rpmvercmp(CHOOSE r \in a.release : TRUE, CHOOSE r \in b.release : TRUE)

Vercmp(a, b) ==
  IF a.epoch # b.epoch THEN Compare(a.epoch, b.epoch)
  ELSE IF Rpmvercmp(a.version, b.version) # 0 THEN Rpmvercmp(a.version, b.version)
  ELSE ReleaseCmp(a, b)

(***************************************************************************)
(* The versions there are, and those the order is good for: pacman's, too, *)
(* is none among versions of which one ends in a separator or has no       *)
(* release.                                                                *)
(***************************************************************************)
Segments == [sep : Nat, word : BOOLEAN, val : Nat]
Parts == [segments : Seq(Segments), trailing : Nat]
Versions == [epoch : Nat, version : Parts, release : SUBSET Parts]

Finished(p) == p \in Parts /\ p.trailing = 0
Released ==
  {v \in Versions : Finished(v.version) /\ v.release # {} /\ \A p \in v.release : Finished(p)}
====

------------------------- MODULE LspBackend_proofs --------------------------
(***************************************************************************)
(* What holds of the language server for every set of documents, of texts, *)
(* of names and every module on disk; and, when all the texts are tidy,    *)
(* that its cache cannot be seen from outside.                             *)
(***************************************************************************)
EXTENDS LspBackend, WellFoundedInduction, TLAPS

-----------------------------------------------------------------------------
(***************************************************************************)
(* What the diff of physure-lsp/src/incremental.rs promises the code that  *)
(* builds on it, for any two statement lists.                              *)
(***************************************************************************)

-----------------------------------------------------------------------------
(* Every nonempty set of naturals has a least element.                     *)
LEMMA LeastNatural ==
  ASSUME NEW T, T \subseteq Nat, T # {}
  PROVE  \E x \in T : \A y \in T : x <= y
<1>1. \E x \in T : \A y \in T : ~ (<<y, x>> \in OpToRel(<, Nat))
  BY NatLessThanWellFounded, WFMin
<1>2. PICK x \in T : \A y \in T : ~ (<<y, x>> \in OpToRel(<, Nat))
  BY <1>1
<1>3. \A y \in T : ~(y < x)
  BY <1>2 DEF OpToRel
<1> QED
  BY <1>3

(* A nonempty set of naturals with a bound has a greatest element.         *)
LEMMA GreatestNatural ==
  ASSUME NEW b \in Nat, NEW T, T \subseteq 0 .. b, T # {}
  PROVE  \E x \in T : \A y \in T : y <= x
<1> DEFINE Gaps == {g \in Nat : \E t \in T : g = b - t}
<1>1. PICK t0 \in T : TRUE
  OBVIOUS
<1>2. b - t0 \in Gaps
  BY t0 \in 0 .. b
<1>3. PICK g \in Gaps : \A h \in Gaps : g <= h
  BY <1>2, LeastNatural
<1>4. PICK x \in T : g = b - x
  OBVIOUS
<1>5. ASSUME NEW y \in T PROVE y <= x
  <2>1. y \in 0 .. b /\ x \in 0 .. b
    OBVIOUS
  <2>2. b - y \in Gaps
    BY <2>1
  <2> QED
    BY <1>3, <1>4, <2>1, <2>2
<1> QED
  BY <1>5

(* Induction up to a bound, for a set.                                     *)
LEMMA UpTo ==
  ASSUME NEW n \in Nat, NEW T, 0 \in T, \A k \in 1 .. n : k - 1 \in T => k \in T
  PROVE  \A k \in 0 .. n : k \in T
<1> DEFINE Bad == {k \in 0 .. n : k \notin T}
<1>1. SUFFICES ASSUME Bad # {} PROVE FALSE
  OBVIOUS
<1>2. PICK k \in Bad : \A y \in Bad : k <= y
  <2>1. Bad \subseteq Nat
    OBVIOUS
  <2> HIDE DEF Bad
  <2> QED
    BY <1>1, <2>1, LeastNatural
<1>3. k \in 1 .. n /\ k - 1 \in 0 .. n /\ ~ (k <= k - 1)
  OBVIOUS
<1> QED
  BY <1>2, <1>3

-----------------------------------------------------------------------------
(* diff_bounds finds the longest common prefix.                            *)
LEMMA PrefixFound ==
  ASSUME NEW S, NEW old \in Seq(S), NEW new \in Seq(S)
  PROVE  /\ PrefixLen(old, new) \in 0 .. Len(old)
         /\ CommonPrefix(old, new, PrefixLen(old, new))
         /\ \A r \in 0 .. Len(old) : CommonPrefix(old, new, r) => r <= PrefixLen(old, new)
<1> DEFINE T == {p \in 0 .. Len(old) : CommonPrefix(old, new, p)}
<1>1. Len(old) \in Nat /\ Len(new) \in Nat
  OBVIOUS
<1>2. 0 \in T
  BY <1>1 DEF CommonPrefix
<1>3. PICK p \in T : \A r \in T : r <= p
  <2> HIDE DEF T
  <2>1. T \subseteq 0 .. Len(old)
    BY DEF T
  <2> QED
    BY <1>1, <1>2, <2>1, GreatestNatural
<1> QED
  BY <1>3 DEF PrefixLen

(* ... and then the longest common suffix of what is left.                 *)
LEMMA SuffixFound ==
  ASSUME NEW S, NEW old \in Seq(S), NEW new \in Seq(S)
  PROVE  /\ SuffixLen(old, new) \in 0 .. Len(old)
         /\ CommonSuffix(old, new, PrefixLen(old, new), SuffixLen(old, new))
<1> DEFINE prefix == PrefixLen(old, new)
           T == {q \in 0 .. Len(old) : CommonSuffix(old, new, prefix, q)}
<1>1. Len(old) \in Nat /\ Len(new) \in Nat
  OBVIOUS
<1>2. 0 \in T
  <2>1. prefix \in 0 .. Len(old) /\ CommonPrefix(old, new, prefix)
    BY PrefixFound
  <2> HIDE DEF prefix
  <2> QED
    BY <1>1, <2>1 DEF CommonSuffix, CommonPrefix
<1>3. PICK q \in T : \A r \in T : r <= q
  <2> HIDE DEF T
  <2>1. T \subseteq 0 .. Len(old)
    BY DEF T
  <2> QED
    BY <1>1, <1>2, <2>1, GreatestNatural
<1> QED
  BY <1>3 DEF SuffixLen

-----------------------------------------------------------------------------
(* A new statement outside the changed span stood in the old list, at the  *)
(* index carried_diagnostics computes, which is in bounds.                 *)
LEMMA OldPosition ==
  ASSUME NEW S, NEW old \in Seq(S), NEW new \in Seq(S),
         NEW i \in 1 .. Len(new), i \notin Changed(new, old, new)
  PROVE  /\ OldIndex(old, new, i) \in 1 .. Len(old)
         /\ old[OldIndex(old, new, i)] = new[i]
<1> DEFINE p == PrefixLen(old, new)
           q == SuffixLen(old, new)
<1>1. Len(old) \in Nat /\ Len(new) \in Nat
  OBVIOUS
<1>2. p \in 0 .. Len(old) /\ CommonPrefix(old, new, p)
  BY PrefixFound
<1>3. q \in 0 .. Len(old) /\ CommonSuffix(old, new, p, q)
  BY SuffixFound
<1>4. i <= p \/ i > Len(new) - q
  BY <1>1, <1>2, <1>3 DEF Changed
<1>5. CASE i <= p
  BY <1>1, <1>2, <1>5 DEF OldIndex, CommonPrefix
<1>6. CASE i > p /\ i > Len(new) - q
  <2> DEFINE k == Len(new) + 1 - i
  <2>1. OldIndex(old, new, i) = (i + Len(old)) - Len(new)
    BY <1>1, <1>2, <1>6 DEF OldIndex
  <2> HIDE DEF p, q
  <2>2. k \in 1 .. q
    BY <1>1, <1>3, <1>6
  <2>3. old[Len(old) + 1 - k] = new[Len(new) + 1 - k]
    BY <1>3, <2>2 DEF CommonSuffix
  <2>4. Len(new) + 1 - k = i /\ Len(old) + 1 - k = (i + Len(old)) - Len(new)
    BY <1>1
  <2>5. Len(old) + 1 - k \in 1 .. Len(old)
    BY <1>1, <1>3, <2>2
  <2> QED
    BY <2>1, <2>3, <2>4, <2>5
<1> QED
  BY <1>1, <1>2, <1>4, <1>5, <1>6

(* An old statement outside the changed span still stands in the new list. *)
LEMMA NewPosition ==
  ASSUME NEW S, NEW old \in Seq(S), NEW new \in Seq(S),
         NEW j \in 1 .. Len(old), j \notin Changed(old, old, new)
  PROVE  \E i \in 1 .. Len(new) : new[i] = old[j]
<1> DEFINE p == PrefixLen(old, new)
           q == SuffixLen(old, new)
<1>1. Len(old) \in Nat /\ Len(new) \in Nat
  OBVIOUS
<1>2. p \in 0 .. Len(old) /\ CommonPrefix(old, new, p)
  BY PrefixFound
<1>3. q \in 0 .. Len(old) /\ CommonSuffix(old, new, p, q)
  BY SuffixFound
<1>4. j <= p \/ j > Len(old) - q
  BY <1>1, <1>2, <1>3 DEF Changed
<1> HIDE DEF p, q
<1>5. CASE j <= p
  BY <1>1, <1>2, <1>5 DEF CommonPrefix
<1>6. CASE j > Len(old) - q
  <2> DEFINE k == Len(old) + 1 - j
  <2>1. k \in 1 .. q
    BY <1>1, <1>3, <1>6
  <2>2. old[Len(old) + 1 - k] = new[Len(new) + 1 - k]
    BY <1>3, <2>1 DEF CommonSuffix
  <2>3. Len(old) + 1 - k = j
    BY <1>1
  <2>4. Len(new) + 1 - k \in 1 .. Len(new)
    BY <1>1, <1>2, <1>3, <2>1 DEF CommonSuffix
  <2> QED
    BY <2>2, <2>3, <2>4
<1> QED
  BY <1>4, <1>5, <1>6

(* A name that survives the removal of the touched names still has a       *)
(* writer in the new text.                                                 *)
LEMMA SurvivorsAreWritten ==
  ASSUME NEW S, NEW old \in Seq(S), NEW new \in Seq(S)
  PROVE  AllWrites(old) \ TouchedNames(old, new) \subseteq AllWrites(new)
<1>1. SUFFICES ASSUME NEW n \in AllWrites(old), n \notin TouchedNames(old, new)
               PROVE  n \in AllWrites(new)
  OBVIOUS
<1>2. PICK j \in 1 .. Len(old) : n \in Writes(old[j])
  BY DEF AllWrites
<1>3. j \notin Changed(old, old, new)
  BY <1>1, <1>2 DEF TouchedNames
<1>4. PICK i \in 1 .. Len(new) : new[i] = old[j]
  BY <1>3, NewPosition
<1> QED
  BY <1>2, <1>4 DEF AllWrites

-----------------------------------------------------------------------------
(***************************************************************************)
(* What the one pass of compute_dirty marks.                               *)
(***************************************************************************)

IsLastWriter(stmts, j, n, i) ==
  /\ j \in 1 .. i - 1 /\ n \in Writes(stmts[j])
  /\ \A k \in j + 1 .. i - 1 : n \notin Writes(stmts[k])

(* Why i runs again if dirty does. Nothing here goes by the order in which *)
(* statements are looked at.                                               *)
HasReason(i, dirty, new, changed, touched) ==
  \/ i \in changed
  \/ Reads(new[i]) \cap touched # {}
  \/ \E j \in dirty, n \in Reads(new[i]) \cup Writes(new[i]) : IsLastWriter(new, j, n, i)

ClosedUnderReasons(dirty, new, changed, touched) ==
  \A i \in 1 .. Len(new) : HasReason(i, dirty, new, changed, touched) => i \in dirty

Visits(f, new, changed, touched, is) ==
  f = [i \in is |-> IF i = 0 THEN NothingSeen ELSE Visited(f[i - 1], new[i], i, changed, touched)]

(* The recursion of the loop, one statement further,                       *)
LEMMA VisitsExtend ==
  ASSUME NEW new, NEW changed, NEW touched,
         NEW k \in Nat, k # 0, NEW f, Visits(f, new, changed, touched, 0 .. k - 1)
  PROVE  \E g : Visits(g, new, changed, touched, 0 .. k)
<1> DEFINE old == 0 .. k - 1
           all == 0 .. k
           Next1(x, j) == Visited(x, new[j], j, changed, touched)
           g == [j \in all |-> IF j = k THEN Next1(f[k - 1], k) ELSE f[j]]
<1>1. /\ k \in all /\ k \notin old
      /\ \A j \in all : j # k => j \in old
      /\ \A j \in all : j # 0 => j - 1 \in old /\ j - 1 \in all /\ j - 1 # k
  OBVIOUS
<1>2. \A j \in old : f[j] = IF j = 0 THEN NothingSeen ELSE Next1(f[j - 1], j)
  <2> HIDE DEF old
  <2> QED
    BY Zenon DEF Visits, old
<1> HIDE DEF old, all
<1>3. \A j \in all : j # 0 => g[j - 1] = f[j - 1]
  BY <1>1
<1>4. \A j \in all : g[j] = IF j = k THEN Next1(f[k - 1], k) ELSE f[j]
  OBVIOUS
<1> HIDE DEF g, Next1
<1>5. \A j \in all : g[j] = IF j = 0 THEN NothingSeen ELSE Next1(g[j - 1], j)
  <2> TAKE j \in all
  <2>1. CASE j = k
    BY <1>3, <1>4, <2>1
  <2>2. CASE j # k
    BY <1>1, <1>2, <1>3, <1>4, <2>2
  <2> QED
    BY <2>1, <2>2
<1> DEFINE h == [j \in all |-> IF j = 0 THEN NothingSeen ELSE Next1(g[j - 1], j)]
<1>6. h = g
  BY <1>5 DEF g
<1> QED
  BY <1>6, Zenon DEF Visits, all, Next1

(* ... and for any number of statements.                                   *)
LEMMA VisitsExist ==
  ASSUME NEW new, NEW changed, NEW touched, NEW n \in Nat
  PROVE  \E f : Visits(f, new, changed, touched, 0 .. n)
<1> DEFINE Bad == {k \in Nat : ~ \E f : Visits(f, new, changed, touched, 0 .. k)}
<1>1. SUFFICES ASSUME Bad # {} PROVE FALSE
  OBVIOUS
<1>2. PICK k \in Bad : \A y \in Bad : k <= y
  BY <1>1, LeastNatural
<1>3. CASE k = 0
  <2> DEFINE one == 0 .. 0
             f == [j \in one |-> NothingSeen]
  <2>1. \A j \in one : j = 0
    OBVIOUS
  <2> HIDE DEF one
  <2>2. f = [j \in one |-> IF j = 0 THEN NothingSeen ELSE Visited(f[j - 1], new[j], j, changed, touched)]
    BY <2>1
  <2>3. Visits(f, new, changed, touched, one)
    BY <2>2, Zenon DEF Visits
  <2> QED
    BY <1>2, <1>3, <2>3 DEF one
<1>4. CASE k # 0
  <2>1. k - 1 \in Nat /\ ~ (k <= k - 1)
    BY <1>4
  <2>2. PICK f : Visits(f, new, changed, touched, 0 .. k - 1)
    BY <1>2, <2>1
  <2> QED
    BY <1>2, <1>4, <2>2, VisitsExtend
<1> QED
  BY <1>3, <1>4

(* The loop, as the sequence of what has been seen after each statement.   *)
LEMMA SweepVisits ==
  ASSUME NEW old, NEW S, NEW new \in Seq(S), NEW touched
  PROVE  \E f : /\ f[0] = NothingSeen
                /\ \A i \in 1 .. Len(new) :
                     f[i] = Visited(f[i - 1], new[i], i, Changed(new, old, new), touched)
                /\ f[Len(new)] = Sweep(old, new, touched)
<1> DEFINE n == Len(new)
           is == 0 .. n
           changed == Changed(new, old, new)
           upTo == CHOOSE f : f = [i \in is |->
                     IF i = 0 THEN NothingSeen ELSE Visited(f[i - 1], new[i], i, changed, touched)]
<1>0. n \in Nat
  OBVIOUS
<1>1. Sweep(old, new, touched) = upTo[n]
  BY Zenon DEF Sweep
<1>2. Visits(upTo, new, changed, touched, is)
  <2>1. \E f : Visits(f, new, changed, touched, is)
    BY <1>0, VisitsExist
  <2> HIDE DEF changed, is
  <2> QED
    BY <2>1, Zenon DEF Visits
<1> HIDE DEF upTo, changed
<1>3. \A i \in is : upTo[i] = IF i = 0 THEN NothingSeen ELSE Visited(upTo[i - 1], new[i], i, changed, touched)
  <2> HIDE DEF is
  <2> QED
    BY <1>2, Zenon DEF Visits
<1>4. 0 \in is /\ \A i \in 1 .. n : i \in is /\ i # 0
  BY <1>0
<1> HIDE DEF is, n
<1>5. upTo[0] = NothingSeen
  BY <1>3, <1>4
<1>6. \A i \in 1 .. n : upTo[i] = Visited(upTo[i - 1], new[i], i, changed, touched)
  BY <1>3, <1>4
<1> QED
  BY <1>1, <1>5, <1>6, Zenon DEF n, changed

(* After i statements the loop has marked those of them that have a reason *)
(* among the marked ones, and knows the last writer of every name so far.  *)
HasSeen(seen, i, new, changed, touched) ==
  /\ seen.dirty \subseteq 1 .. i
  /\ \A k \in 1 .. i : k \in seen.dirty <=> HasReason(k, seen.dirty, new, changed, touched)
  /\ \A n \in DOMAIN seen.lastWriter : IsLastWriter(new, seen.lastWriter[n], n, i + 1)
  /\ \A n, j : IsLastWriter(new, j, n, i + 1) =>
                 n \in DOMAIN seen.lastWriter /\ seen.lastWriter[n] = j

(* Every turn of the loop keeps this.                                      *)
LEMMA VisitKeepsSeen ==
  ASSUME NEW new, NEW changed, NEW touched, NEW m \in Nat, NEW seen, HasSeen(seen, m, new, changed, touched)
  PROVE  HasSeen(Visited(seen, new[m + 1], m + 1, changed, touched), m + 1, new, changed, touched)
<1> DEFINE i == m + 1
           s == new[i]
           next == Visited(seen, s, i, changed, touched)
<1>0. /\ i \in Nat /\ i \in 1 .. i /\ ~ (i \in 1 .. m) /\ m + 1 - 1 = m /\ i + 1 - 1 = i
      /\ \A k \in 1 .. i : k \in 1 .. m \/ k = i
      /\ \A k \in 1 .. m : k \in 1 .. i
  OBVIOUS
<1>1. /\ next.dirty = seen.dirty \cup {k \in {i} : RunsAgain(seen, s, k, changed, touched)}
      /\ DOMAIN next.lastWriter = DOMAIN seen.lastWriter \cup Writes(s)
      /\ \A n \in DOMAIN next.lastWriter :
           next.lastWriter[n] = IF n \in Writes(s) THEN i ELSE seen.lastWriter[n]
  BY DEF Visited
<1> HIDE DEF next
<1>2. RunsAgain(seen, s, i, changed, touched) <=> HasReason(i, seen.dirty, new, changed, touched)
  <2>1. ASSUME NEW n \in (Reads(s) \cup Writes(s)) \cap DOMAIN seen.lastWriter, seen.lastWriter[n] \in seen.dirty
        PROVE  \E j \in seen.dirty, l \in Reads(s) \cup Writes(s) : IsLastWriter(new, j, l, i)
    BY <2>1 DEF HasSeen
  <2>2. ASSUME NEW j \in seen.dirty, NEW n \in Reads(s) \cup Writes(s), IsLastWriter(new, j, n, i)
        PROVE  n \in DOMAIN seen.lastWriter /\ seen.lastWriter[n] \in seen.dirty
    BY <2>2 DEF HasSeen
  <2> QED
    BY <2>1, <2>2 DEF RunsAgain, HasReason
<1>3. ASSUME NEW k \in 1 .. i
      PROVE  HasReason(k, next.dirty, new, changed, touched) <=> HasReason(k, seen.dirty, new, changed, touched)
  <2>1. ASSUME NEW j \in next.dirty, NEW n, IsLastWriter(new, j, n, k) PROVE j \in seen.dirty
    <3>1. j \in 1 .. k - 1
      BY <2>1 DEF IsLastWriter
    <3>2. j # i
      BY <3>1
    <3> QED
      BY <1>1, <3>2
  <2>2. seen.dirty \subseteq next.dirty
    BY <1>1
  <2> QED
    BY <2>1, <2>2 DEF HasReason
<1>4. next.dirty \subseteq 1 .. i
  BY <1>0, <1>1 DEF HasSeen
<1>5. ASSUME NEW k \in 1 .. i
      PROVE  k \in next.dirty <=> HasReason(k, next.dirty, new, changed, touched)
  <2>1. CASE k \in 1 .. m
    <3>1. k # i /\ (k \in next.dirty <=> k \in seen.dirty)
      BY <1>0, <1>1, <2>1
    <3> QED
      BY <1>3, <2>1, <3>1 DEF HasSeen
  <2>2. CASE k = i
    <3>1. i \notin seen.dirty
      BY <1>0 DEF HasSeen
    <3>2. i \in next.dirty <=> RunsAgain(seen, s, i, changed, touched)
      BY <1>1, <3>1
    <3> HIDE DEF i
    <3> QED
      BY <1>2, <1>3, <2>2, <3>2
  <2> QED
    BY <1>0, <2>1, <2>2
<1>6. ASSUME NEW n, NEW j
      PROVE  IsLastWriter(new, j, n, i + 1) <=>
               IF n \in Writes(s) THEN j = i ELSE IsLastWriter(new, j, n, i)
  <2>1. CASE n \in Writes(s)
    <3>1. ASSUME IsLastWriter(new, j, n, i + 1), j # i PROVE FALSE
      <4>1. j \in 1 .. m /\ i \in j + 1 .. i
        BY <1>0, <3>1 DEF IsLastWriter
      <4> QED
        BY <1>0, <2>1, <3>1, <4>1 DEF IsLastWriter
    <3>2. i + 1 .. i = {}
      OBVIOUS
    <3>3. IsLastWriter(new, i, n, i + 1)
      <4> HIDE DEF i
      <4> QED
        BY <1>0, <2>1, <3>2 DEF IsLastWriter
    <3> QED
      BY <2>1, <3>1, <3>3
  <2>2. CASE n \notin Writes(s)
    <3>1. ASSUME IsLastWriter(new, j, n, i + 1) PROVE IsLastWriter(new, j, n, i)
      <4>1. j \in 1 .. i /\ n \in Writes(new[j])
        BY <1>0, <3>1 DEF IsLastWriter
      <4>2. j \in 1 .. i - 1
        BY <2>2, <4>1
      <4>3. \A k \in j + 1 .. i - 1 : k \in j + 1 .. i
        BY <4>2
      <4> QED
        BY <1>0, <3>1, <4>1, <4>2, <4>3 DEF IsLastWriter
    <3>2. ASSUME IsLastWriter(new, j, n, i) PROVE IsLastWriter(new, j, n, i + 1)
      <4>1. j \in 1 .. i - 1 /\ j \in 1 .. i + 1 - 1 /\ n \in Writes(new[j])
        BY <3>2 DEF IsLastWriter
      <4>2. \A k \in j + 1 .. i + 1 - 1 : k \in j + 1 .. i - 1 \/ k = i
        BY <4>1
      <4> QED
        BY <2>2, <3>2, <4>1, <4>2 DEF IsLastWriter
    <3> QED
      BY <2>2, <3>1, <3>2
  <2> QED
    BY <2>1, <2>2
<1>7. ASSUME NEW n \in DOMAIN next.lastWriter PROVE IsLastWriter(new, next.lastWriter[n], n, i + 1)
  <2> HIDE DEF i, s
  <2>1. CASE n \in Writes(s)
    BY <1>1, <1>6, <2>1
  <2>2. CASE n \notin Writes(s)
    <3>1. IsLastWriter(new, seen.lastWriter[n], n, i)
      BY <1>1, <2>2 DEF HasSeen, i
    <3> QED
      BY <1>1, <1>6, <2>2, <3>1
  <2> QED
    BY <2>1, <2>2
<1>8. ASSUME NEW n, NEW j, IsLastWriter(new, j, n, i + 1)
      PROVE  n \in DOMAIN next.lastWriter /\ next.lastWriter[n] = j
  <2> HIDE DEF i, s
  <2>1. CASE n \in Writes(s)
    BY <1>1, <1>6, <1>8, <2>1
  <2>2. CASE n \notin Writes(s)
    <3>1. n \in DOMAIN seen.lastWriter /\ seen.lastWriter[n] = j
      BY <1>6, <1>8, <2>2 DEF HasSeen, i
    <3> QED
      BY <1>1, <2>2, <3>1
  <2> QED
    BY <2>1, <2>2
<1> HIDE DEF i, s
<1>9. HasSeen(next, i, new, changed, touched)
  BY <1>4, <1>5, <1>7, <1>8 DEF HasSeen
<1> QED
  BY <1>9 DEF next, i, s

(* When the loop is through, it has seen everything.                       *)
LEMMA SweepHasSeen ==
  ASSUME NEW S, NEW old, NEW new \in Seq(S), NEW touched
  PROVE  HasSeen(Sweep(old, new, touched), Len(new), new, Changed(new, old, new), touched)
<1> DEFINE n == Len(new)
           changed == Changed(new, old, new)
<1>0. n \in Nat
  OBVIOUS
<1>1. PICK f : /\ f[0] = NothingSeen
               /\ \A i \in 1 .. n : f[i] = Visited(f[i - 1], new[i], i, changed, touched)
               /\ f[n] = Sweep(old, new, touched)
  BY SweepVisits
<1> HIDE DEF n, changed
<1> DEFINE T == {m \in 0 .. n : HasSeen(f[m], m, new, changed, touched)}
<1>2. 0 \in T
  <2>1. 1 .. 0 = {} /\ 0 + 1 - 1 = 0 /\ DOMAIN NothingSeen.lastWriter = {} /\ NothingSeen.dirty = {}
    BY DEF NothingSeen
  <2>2. \A j, l : ~ IsLastWriter(new, j, l, 0 + 1)
    BY <2>1 DEF IsLastWriter
  <2>3. HasSeen(NothingSeen, 0, new, changed, touched)
    BY <2>1, <2>2 DEF HasSeen
  <2> QED
    BY <1>0, <1>1, <2>3
<1>3. ASSUME NEW m \in 1 .. n, m - 1 \in T PROVE m \in T
  <2>1. m - 1 \in Nat /\ (m - 1) + 1 = m /\ m \in 0 .. n
    BY <1>0
  <2>2. HasSeen(f[m - 1], m - 1, new, changed, touched)
    BY <1>3
  <2>3. HasSeen(Visited(f[m - 1], new[m], m, changed, touched), m, new, changed, touched)
    BY <2>1, <2>2, VisitKeepsSeen
  <2> QED
    BY <1>1, <2>1, <2>3
<1>4. n \in 0 .. n
  BY <1>0
<1> HIDE DEF T
<1>5. n \in T
  BY <1>0, <1>2, <1>3, <1>4, UpTo
<1> QED
  BY <1>1, <1>5 DEF T, n, changed

(* The single pass of compute_dirty finds exactly what has to run again:   *)
(* every statement that has a reason, a reason being able to rest on       *)
(* others that run again, and no statement more than the least such set.   *)
(* The last writers it ends with are the last writers in the text.         *)
THEOREM SweepIsLeast ==
  ASSUME NEW S, NEW old \in Seq(S), NEW new \in Seq(S), NEW touched
  PROVE  LET sweep   == Sweep(old, new, touched)
             changed == Changed(new, old, new)
         IN /\ sweep.dirty \subseteq 1 .. Len(new)
            /\ ClosedUnderReasons(sweep.dirty, new, changed, touched)
            /\ \A X \in SUBSET (1 .. Len(new)) :
                 ClosedUnderReasons(X, new, changed, touched) => sweep.dirty \subseteq X
            /\ \A n, j : (n \in DOMAIN sweep.lastWriter /\ j = sweep.lastWriter[n])
                           <=> IsLastWriter(new, j, n, Len(new) + 1)
<1> DEFINE sweep   == Sweep(old, new, touched)
           changed == Changed(new, old, new)
           len     == Len(new)
<1>0. len \in Nat
  OBVIOUS
<1>1. HasSeen(sweep, len, new, changed, touched)
  BY SweepHasSeen
<1> HIDE DEF sweep, changed, len
<1>2. ASSUME NEW X \in SUBSET (1 .. len), ClosedUnderReasons(X, new, changed, touched)
      PROVE  sweep.dirty \subseteq X
  <2> DEFINE Bad == {k \in sweep.dirty : k \notin X}
  <2>1. SUFFICES ASSUME Bad # {} PROVE FALSE
    OBVIOUS
  <2>2. sweep.dirty \subseteq 1 .. len /\ Bad \subseteq Nat
    BY <1>0, <1>1 DEF HasSeen
  <2>3. PICK k \in Bad : \A y \in Bad : k <= y
    <3> HIDE DEF Bad
    <3> QED
      BY <2>1, <2>2, LeastNatural
  <2>4. HasReason(k, sweep.dirty, new, changed, touched)
    BY <1>1, <2>2 DEF HasSeen
  <2>5. ASSUME NEW j \in sweep.dirty, NEW n, IsLastWriter(new, j, n, k) PROVE j \in X
    <3>1. j < k
      BY <2>2, <2>5 DEF IsLastWriter
    <3> QED
      BY <2>2, <2>3, <3>1
  <2>6. HasReason(k, X, new, changed, touched)
    BY <2>4, <2>5 DEF HasReason
  <2> QED
    BY <1>2, <2>2, <2>6 DEF ClosedUnderReasons, len
<1>3. ClosedUnderReasons(sweep.dirty, new, changed, touched)
  BY <1>1 DEF HasSeen, ClosedUnderReasons, len
<1> QED
  BY <1>1, <1>2, <1>3 DEF HasSeen, sweep, changed, len

-----------------------------------------------------------------------------
(* The dirty set holds the whole changed span and nothing but statements.  *)
LEMMA DirtyCoversChange ==
  ASSUME NEW S, NEW old \in Seq(S), NEW new \in Seq(S)
  PROVE  /\ Dirty(old, new) \subseteq 1 .. Len(new)
         /\ (1 .. Len(new)) \cap Changed(new, old, new) \subseteq Dirty(old, new)
<1> DEFINE sweep == Sweep(old, new, TouchedNames(old, new))
<1>1. /\ sweep.dirty \subseteq 1 .. Len(new)
      /\ ClosedUnderReasons(sweep.dirty, new, Changed(new, old, new), TouchedNames(old, new))
      /\ \A n \in DOMAIN sweep.lastWriter : IsLastWriter(new, sweep.lastWriter[n], n, Len(new) + 1)
  BY SweepIsLeast
<1>2. \A n \in DOMAIN sweep.lastWriter : sweep.lastWriter[n] \in 1 .. Len(new)
  BY <1>1 DEF IsLastWriter
<1>3. Dirty(old, new) = sweep.dirty \cup {sweep.lastWriter[n] : n \in TouchedNames(old, new) \cap DOMAIN sweep.lastWriter}
  BY DEF Dirty
<1> HIDE DEF sweep
<1> QED
  BY <1>1, <1>2, <1>3 DEF ClosedUnderReasons, HasReason

(* A clean statement reads no touched name.                                *)
LEMMA CleanReadsNothingTouched ==
  ASSUME NEW S, NEW old \in Seq(S), NEW new \in Seq(S),
         NEW i \in 1 .. Len(new), i \notin Dirty(old, new)
  PROVE  Reads(new[i]) \cap TouchedNames(old, new) = {}
<1> DEFINE sweep == Sweep(old, new, TouchedNames(old, new))
<1>1. ClosedUnderReasons(sweep.dirty, new, Changed(new, old, new), TouchedNames(old, new))
  BY SweepIsLeast
<1>2. sweep.dirty \subseteq Dirty(old, new)
  BY DEF Dirty
<1> HIDE DEF sweep
<1> QED
  BY <1>1, <1>2 DEF ClosedUnderReasons, HasReason

(* A text diffed against itself: nothing touched, nothing to run.          *)
LEMMA SameTextIsClean ==
  ASSUME NEW S, NEW text \in Seq(S)
  PROVE  /\ PrefixLen(text, text) = Len(text)
         /\ TouchedNames(text, text) = {}
         /\ Dirty(text, text) = {}
<1>1. Len(text) \in Nat
  OBVIOUS
<1>2. PrefixLen(text, text) = Len(text)
  <2>1. Len(text) \in 0 .. Len(text) /\ CommonPrefix(text, text, Len(text))
    BY <1>1 DEF CommonPrefix
  <2>2. Len(text) <= PrefixLen(text, text) /\ PrefixLen(text, text) \in 0 .. Len(text)
    BY <2>1, PrefixFound
  <2> QED
    BY <1>1, <2>2
<1>3. SuffixLen(text, text) \in Nat
  BY <1>1, SuffixFound
<1>4. Changed(text, text, text) = {}
  BY <1>1, <1>2, <1>3 DEF Changed
<1>5. TouchedNames(text, text) = {}
  BY <1>4 DEF TouchedNames
<1>6. ClosedUnderReasons({}, text, {}, {})
  BY DEF ClosedUnderReasons, HasReason
<1>7. Sweep(text, text, {}).dirty = {}
  <2>1. \A X \in SUBSET (1 .. Len(text)) :
          ClosedUnderReasons(X, text, Changed(text, text, text), {}) => Sweep(text, text, {}).dirty \subseteq X
    BY SweepIsLeast
  <2> QED
    BY <1>4, <1>6, <2>1
<1>8. Dirty(text, text) = {}
  BY <1>5, <1>7 DEF Dirty
<1> QED
  BY <1>2, <1>5, <1>8

-----------------------------------------------------------------------------

-----------------------------------------------------------------------------
(* The inductive invariant: what every persisted DocState, and the one     *)
(* being worked on, satisfies between any two steps.                       *)

IsFunction(f) == f = [x \in DOMAIN f |-> f[x]]

IsCache(x) ==
  /\ x.statements \in Seq(Statement)
  /\ IsFunction(x.diagnostics)
  /\ DOMAIN x.diagnostics = 1 .. Len(x.statements)
  /\ \A i \in 1 .. Len(x.statements) :
       x.diagnostics[i] # NoDiagnostic =>
         x.diagnostics[i].message = <<"failed", x.statements[i]>>
  /\ IsFunction(x.env)
  /\ DOMAIN x.env \subseteq AllWrites(x.statements)

IsWork(x) ==
  x = [statements |-> x.statements, todo |-> x.todo, env |-> x.env,
       unlocked |-> x.unlocked, diagnostics |-> x.diagnostics]

CachesOK ==
  /\ \A u \in DOMAIN docStates : IsCache(docStates[u])
  /\ IsWork(work)
  /\ IsCache(work)
  /\ work.todo \subseteq 1 .. Len(work.statements)

DocumentsOK ==
  /\ DOMAIN documents \subseteq URIs
  /\ \A u \in DOMAIN documents : documents[u] \in Texts

CacheInv == CachesOK /\ DocumentsOK

-----------------------------------------------------------------------------
(* A new interpreter and a missing entry both start from a sound cache.    *)
LEMMA EmptyIsCache == IsCache(EmptyState) /\ IsCache(NoWork) /\ IsWork(NoWork) /\ NoWork.todo = {}
<1>1. <<>> \in Seq(Statement) /\ Len(<<>>) = 0 /\ DOMAIN <<>> = {}
  OBVIOUS
<1>2. IsFunction(<<>>)
  BY <1>1 DEF IsFunction
<1>3. 1 .. 0 = {}
  OBVIOUS
<1> QED
  BY <1>1, <1>2, <1>3 DEF IsCache, IsWork, EmptyState, NoWork, NewInterpreter

LEMMA PreviousIsCache ==
  ASSUME CachesOK, NEW uri
  PROVE  IsCache(Previous(uri))
BY EmptyIsCache DEF Previous, CachesOK

(* A statement binds no name that the analysis does not know it writes.    *)
LEMMA RunStatementBinds ==
  ASSUME NEW s \in Statement, NEW in, IsFunction(in.env)
  PROVE  /\ IsFunction(RunStatement(s, in).env)
         /\ DOMAIN RunStatement(s, in).env \subseteq DOMAIN in.env \cup Writes(s)
<1> DEFINE out == RunStatement(s, in)
<1>1. PICK v : \/ out.env = in.env
               \/ s.kind \notin {"use", "expr", "panic"} /\ out.env = Bind(in.env, s.name, v)
  BY DEF RunStatement
<1>2. CASE out.env = in.env
  BY <1>2
<1>3. CASE s.kind \notin {"use", "expr", "panic"} /\ out.env = Bind(in.env, s.name, v)
  <2>1. s.name \in Writes(s)
    BY <1>3 DEF Writes
  <2>2. IsFunction(out.env) /\ DOMAIN out.env = DOMAIN in.env \cup {s.name}
    BY <1>3 DEF Bind, IsFunction
  <2> QED
    BY <2>1, <2>2
<1> QED
  BY <1>1, <1>2, <1>3

-----------------------------------------------------------------------------
(* What BeginAnalysis builds from a sound cache is sound: diagnostics move *)
(* with their statements and only names with a writer survive.             *)
LEMMA CarriedBelong ==
  ASSUME NEW x, IsCache(x), NEW text \in Seq(Statement)
  PROVE  LET carried == CarriedDiagnostics(x.statements, text, Dirty(x.statements, text), x.diagnostics)
         IN /\ IsFunction(carried)
            /\ DOMAIN carried = 1 .. Len(text)
            /\ \A i \in 1 .. Len(text) :
                 carried[i] # NoDiagnostic => carried[i].message = <<"failed", text[i]>>
<1> DEFINE old == x.statements
           dirty == Dirty(old, text)
           carried == CarriedDiagnostics(old, text, dirty, x.diagnostics)
<1>1. old \in Seq(Statement)
  BY DEF IsCache
<1>2. IsFunction(carried) /\ DOMAIN carried = 1 .. Len(text)
  BY DEF CarriedDiagnostics, IsFunction
<1>3. ASSUME NEW i \in 1 .. Len(text), carried[i] # NoDiagnostic
      PROVE  carried[i].message = <<"failed", text[i]>>
  <2> DEFINE k == OldIndex(old, text, i)
  <2>1. i \notin dirty /\ carried[i] = x.diagnostics[k]
    BY <1>3 DEF CarriedDiagnostics
  <2>2. i \notin Changed(text, old, text)
    BY <1>1, <2>1, DirtyCoversChange
  <2>3. k \in 1 .. Len(old) /\ old[k] = text[i]
    BY <1>1, <2>2, OldPosition
  <2>4. x.diagnostics[k] # NoDiagnostic => x.diagnostics[k].message = <<"failed", old[k]>>
    BY <2>3 DEF IsCache
  <2> HIDE DEF k, carried
  <2> QED
    BY <1>3, <2>1, <2>3, <2>4
<1> QED
  BY <1>2, <1>3

LEMMA BeginAnalysisStep ==
  ASSUME CachesOK, NEW uri, NEW text \in Seq(Statement), BeginAnalysis(uri, text)
  PROVE  CachesOK'
<1> DEFINE prev == Previous(uri)
           old == prev.statements
<1>1. IsCache(prev)
  BY PreviousIsCache
<1>2. old \in Seq(Statement)
  BY <1>1 DEF IsCache
<1>3. IsWork(work') /\ work'.statements = text /\ work'.todo = Dirty(old, text)
  BY DEF BeginAnalysis, IsWork
<1>4. work'.todo \subseteq 1 .. Len(text)
  BY <1>2, <1>3, DirtyCoversChange
<1>5. IsFunction(work'.env) /\ DOMAIN work'.env \subseteq AllWrites(text)
  <2>1. work'.env = Unbind(prev.env, TouchedNames(old, text))
    BY DEF BeginAnalysis
  <2>2. DOMAIN work'.env = DOMAIN prev.env \ TouchedNames(old, text)
    BY <2>1 DEF Unbind
  <2>3. DOMAIN prev.env \subseteq AllWrites(old)
    BY <1>1 DEF IsCache
  <2>4. IsFunction(work'.env)
    BY <2>1 DEF Unbind, IsFunction
  <2> QED
    BY <1>2, <2>2, <2>3, <2>4, SurvivorsAreWritten
<1>6. work'.diagnostics = CarriedDiagnostics(old, text, Dirty(old, text), prev.diagnostics)
  BY DEF BeginAnalysis
<1> HIDE DEF prev
<1>7. /\ IsFunction(work'.diagnostics)
      /\ DOMAIN work'.diagnostics = 1 .. Len(text)
      /\ \A i \in 1 .. Len(text) :
           work'.diagnostics[i] # NoDiagnostic => work'.diagnostics[i].message = <<"failed", text[i]>>
  BY <1>1, <1>6, CarriedBelong
<1>8. IsCache(work')
  BY <1>3, <1>5, <1>7 DEF IsCache
<1>9. \A u \in DOMAIN docStates' : IsCache(docStates'[u])
  BY DEF BeginAnalysis, Unbind, CachesOK
<1> QED
  BY <1>3, <1>4, <1>8, <1>9 DEF CachesOK

LEMMA ReportSyntaxErrorStep ==
  ASSUME CachesOK, NEW uri, NEW text, ReportSyntaxError(uri, text)
  PROVE  CachesOK'
<1>1. IsCache(Previous(uri))
  BY PreviousIsCache
<1>2. \A u \in DOMAIN docStates' : IsCache(docStates'[u])
  BY <1>1 DEF ReportSyntaxError, Bind, CachesOK
<1> QED
  BY <1>2 DEF ReportSyntaxError, CachesOK

LEMMA RunDirtyStatementStep ==
  ASSUME CachesOK, RunDirtyStatement
  PROVE  CachesOK'
<1> DEFINE stmts == work.statements
<1>1. PICK i \in work.todo :
        work' = [work EXCEPT !.todo = @ \ {i},
                             !.env = RunStatement(stmts[i], work).env,
                             !.unlocked = RunStatement(stmts[i], work).unlocked,
                             !.diagnostics[i] = IF RunStatement(stmts[i], work).ok
                                                THEN NoDiagnostic
                                                ELSE ExecutionError(i, stmts[i])]
  BY DEF RunDirtyStatement
<1>2. IsWork(work) /\ IsCache(work) /\ work.todo \subseteq 1 .. Len(stmts)
  BY DEF CachesOK
<1> DEFINE out == RunStatement(stmts[i], work)
           slot == IF out.ok THEN NoDiagnostic ELSE ExecutionError(i, stmts[i])
<1>3. work' = [statements  |-> stmts,
               todo        |-> work.todo \ {i},
               env         |-> out.env,
               unlocked    |-> out.unlocked,
               diagnostics |-> [work.diagnostics EXCEPT ![i] = slot]]
  <2> HIDE DEF out, slot
  <2> QED
    BY <1>1, <1>2 DEF IsWork, out, slot
<1>4. i \in 1 .. Len(stmts) /\ stmts \in Seq(Statement) /\ stmts[i] \in Statement
  BY <1>2 DEF IsCache
<1>5. IsFunction(out.env) /\ DOMAIN out.env \subseteq DOMAIN work.env \cup Writes(stmts[i])
  BY <1>2, <1>4, RunStatementBinds DEF IsCache
<1>6. DOMAIN out.env \subseteq AllWrites(stmts)
  <2>1. Writes(stmts[i]) \subseteq AllWrites(stmts)
    BY <1>4 DEF AllWrites
  <2> HIDE DEF out
  <2> QED
    BY <1>2, <1>5, <2>1 DEF IsCache
<1> HIDE DEF out
<1>7. slot # NoDiagnostic => slot.message = <<"failed", stmts[i]>>
  BY DEF ExecutionError
<1> HIDE DEF slot
<1>8. /\ IsFunction(work'.diagnostics)
      /\ DOMAIN work'.diagnostics = 1 .. Len(stmts)
      /\ \A k \in 1 .. Len(stmts) :
           work'.diagnostics[k] # NoDiagnostic =>
             work'.diagnostics[k].message = <<"failed", stmts[k]>>
  BY <1>2, <1>3, <1>4, <1>7 DEF IsCache, IsFunction
<1>9. IsCache(work') /\ IsWork(work')
  BY <1>3, <1>4, <1>5, <1>6, <1>8 DEF IsCache, IsWork
<1>10. work'.todo \subseteq 1 .. Len(work'.statements)
  BY <1>2, <1>3
<1>11. docStates' = docStates
  BY DEF RunDirtyStatement
<1> QED
  BY <1>9, <1>10, <1>11 DEF CachesOK

LEMMA PanicStep ==
  ASSUME CachesOK, Panic
  PROVE  CachesOK'
BY EmptyIsCache DEF Panic, CachesOK

LEMMA FinishStep ==
  ASSUME CachesOK, Finish
  PROVE  CachesOK'
<1> DEFINE done == [statements |-> work.statements, env |-> work.env,
                    unlocked |-> work.unlocked, diagnostics |-> work.diagnostics]
<1>1. IsCache(done)
  BY DEF CachesOK, IsCache
<1>2. docStates' = Bind(docStates, analysing, done) /\ work' = NoWork
  BY DEF Finish
<1> HIDE DEF done
<1>3. \A u \in DOMAIN docStates' : IsCache(docStates'[u])
  BY <1>1, <1>2 DEF Bind, CachesOK
<1>4. IsWork(work') /\ IsCache(work') /\ work'.todo = {}
  BY <1>2, EmptyIsCache
<1> QED
  BY <1>3, <1>4 DEF CachesOK

LEMMA DidCloseStep ==
  ASSUME CachesOK, NEW uri, DidClose(uri)
  PROVE  CachesOK'
BY DEF DidClose, Unbind, CachesOK

LEMMA OnChangeStep ==
  ASSUME CachesOK, NEW uri, NEW text \in Texts, OnChange(uri, text)
  PROVE  CachesOK'
<1>1. CASE ReportSyntaxError(uri, text)
  BY <1>1, ReportSyntaxErrorStep
<1>2. CASE BeginAnalysis(uri, text)
  <2>1. text \in Seq(Statement)
    BY <1>2, LspAssumption DEF BeginAnalysis
  <2> QED
    BY <1>2, <2>1, BeginAnalysisStep
<1> QED
  BY <1>1, <1>2 DEF OnChange

LEMMA CacheInvInit == Init => CacheInv
BY EmptyIsCache DEF Init, CacheInv, CachesOK, DocumentsOK

LEMMA CacheInvNext == CacheInv /\ [Next]_vars => CacheInv'
<1> SUFFICES ASSUME CachesOK, DocumentsOK, [Next]_vars
             PROVE  CachesOK' /\ DocumentsOK'
  BY DEF CacheInv
<1>1. ASSUME NEW uri \in URIs, NEW text \in Texts, DidOpen(uri, text) \/ DidChange(uri, text)
      PROVE  CachesOK' /\ DocumentsOK'
  <2>1. documents' = Bind(documents, uri, text) /\ OnChange(uri, text)
    BY <1>1 DEF DidOpen, DidChange
  <2>2. DocumentsOK'
    BY <2>1 DEF DocumentsOK, Bind
  <2> QED
    BY <2>1, <2>2, OnChangeStep
<1>2. ASSUME NEW uri \in URIs, DidSave(uri)
      PROVE  CachesOK' /\ DocumentsOK'
  <2>1. documents[uri] \in Texts /\ OnChange(uri, documents[uri]) /\ documents' = documents
    BY <1>2 DEF DidSave, DocumentsOK
  <2> QED
    BY <2>1, OnChangeStep DEF DocumentsOK
<1>3. ASSUME NEW uri \in URIs, DidClose(uri)
      PROVE  CachesOK' /\ DocumentsOK'
  <2>1. DocumentsOK'
    BY <1>3 DEF DidClose, DocumentsOK, Unbind
  <2> QED
    BY <1>3, <2>1, DidCloseStep
<1>4. ASSUME Handler
      PROVE  CachesOK' /\ DocumentsOK'
  <2>1. documents' = documents
    BY <1>4 DEF Handler, RunDirtyStatement, Panic, Finish
  <2>2. CachesOK'
    BY <1>4, RunDirtyStatementStep, PanicStep, FinishStep DEF Handler
  <2> QED
    BY <2>1, <2>2 DEF DocumentsOK
<1>5. CASE UNCHANGED vars
  BY <1>5 DEF vars, CachesOK, DocumentsOK
<1> QED
  BY <1>1, <1>2, <1>3, <1>4, <1>5 DEF Next, Notification

(* Every DocState, and the one being worked on, is a sound cache in every  *)
(* reachable state.                                                        *)
THEOREM CachesAreSound == Spec => []CacheInv
BY CacheInvInit, CacheInvNext, PTL DEF Spec

-----------------------------------------------------------------------------
LEMMA LiveAreCaches ==
  ASSUME CacheInv, NEW x \in Live
  PROVE  IsCache(x)
BY DEF CacheInv, CachesOK, Live

(* One diagnostic slot per statement: what lets carried_diagnostics index  *)
(* the old list without a bounds check of its own.                         *)
THEOREM SlotsStayAligned == Spec => []DiagnosticsAligned
<1>1. CacheInv => DiagnosticsAligned
  BY LiveAreCaches DEF DiagnosticsAligned, IsCache
<1> QED
  BY <1>1, CachesAreSound, PTL

(* Whatever is edited, renamed or deleted, the persisted environment binds *)
(* no name without a writer in the present text.                           *)
THEOREM NoOrphans == Spec => []NoOrphanBinding
<1>1. CacheInv => NoOrphanBinding
  BY LiveAreCaches DEF NoOrphanBinding, IsCache
<1> QED
  BY <1>1, CachesAreSound, PTL

(* However far edits move a statement, the diagnostic kept for it is one   *)
(* it reported itself.                                                     *)
THEOREM DiagnosticsStayWithStatements == Spec => []DiagnosticsBelong
<1>1. CacheInv => DiagnosticsBelong
  BY LiveAreCaches DEF DiagnosticsBelong, IsCache
<1> QED
  BY <1>1, CachesAreSound, PTL

-----------------------------------------------------------------------------
(* Analysing again a text that is cached runs nothing and changes nothing. *)
LEMMA SameTextKeepsCache ==
  ASSUME NEW x, IsCache(x)
  PROVE  LET text == x.statements
         IN /\ Dirty(text, text) = {}
            /\ Unbind(x.env, TouchedNames(text, text)) = x.env
            /\ CarriedDiagnostics(text, text, {}, x.diagnostics) = x.diagnostics
<1> DEFINE text == x.statements
<1>1. text \in Seq(Statement) /\ Len(text) \in Nat
  BY DEF IsCache
<1>2. PrefixLen(text, text) = Len(text) /\ TouchedNames(text, text) = {} /\ Dirty(text, text) = {}
  BY <1>1, SameTextIsClean
<1>3. Unbind(x.env, {}) = x.env
  BY DEF Unbind, IsCache, IsFunction
<1>4. \A i \in 1 .. Len(text) : OldIndex(text, text, i) = i
  BY <1>1, <1>2 DEF OldIndex
<1>5. CarriedDiagnostics(text, text, {}, x.diagnostics) = [i \in 1 .. Len(text) |-> x.diagnostics[i]]
  BY <1>4 DEF CarriedDiagnostics, IsCache
<1>6. x.diagnostics = [i \in 1 .. Len(text) |-> x.diagnostics[i]]
  BY DEF IsCache, IsFunction
<1> QED
  BY <1>2, <1>3, <1>5, <1>6

-----------------------------------------------------------------------------
(* A document that is open and not being analysed has been answered from   *)
(* its present text.                                                       *)

Settled(u) ==
  documents[u] # Unparsable /\ published[u] # <<InternalError>> =>
    /\ u \in DOMAIN docStates
    /\ docStates[u].statements = documents[u]
    /\ published[u] = Flatten(docStates[u].diagnostics)

FollowInv ==
  /\ analysing \in DOMAIN documents \cup {None}
  /\ analysing # None => work.statements = documents[analysing]
  /\ DOMAIN docStates \subseteq DOMAIN documents
  /\ DOMAIN published = URIs
  /\ \A u \in URIs \ DOMAIN documents : published[u] = <<>>
  /\ \A u \in DOMAIN documents \ {analysing} : Settled(u)

(* on_change on a text that has just been stored.                          *)
LEMMA OnChangeFollows ==
  ASSUME DocumentsOK, FollowInv, analysing = None,
         NEW uri \in URIs, NEW text,
         DOMAIN documents' = DOMAIN documents \cup {uri},
         documents'[uri] = text,
         \A u \in DOMAIN documents \ {uri} : documents'[u] = documents[u],
         OnChange(uri, text)
  PROVE  FollowInv'
<1>1. None \notin URIs
  BY LspAssumption
<1>2. \A u \in DOMAIN documents : Settled(u) /\ u # None
  BY <1>1 DEF FollowInv, DocumentsOK
<1>3. CASE ReportSyntaxError(uri, text)
  <2>1. /\ text = Unparsable /\ analysing' = None
        /\ DOMAIN docStates' = DOMAIN docStates \cup {uri}
        /\ \A u \in DOMAIN docStates \ {uri} : docStates'[u] = docStates[u]
        /\ DOMAIN published' = URIs
        /\ \A u \in URIs \ {uri} : published'[u] = published[u]
    BY <1>3 DEF ReportSyntaxError, Bind, FollowInv
  <2>2. ASSUME NEW u \in DOMAIN documents' \ {None}
        PROVE  Settled(u)'
    <3>1. CASE u = uri
      BY <2>1, <3>1 DEF Settled
    <3>2. CASE u # uri
      <4>1. Settled(u) /\ documents'[u] = documents[u] /\ published'[u] = published[u]
        BY <1>2, <2>1, <3>2 DEF DocumentsOK
      <4> QED
        BY <2>1, <3>2, <4>1 DEF Settled
    <3> QED
      BY <3>1, <3>2
  <2> QED
    BY <2>1, <2>2 DEF FollowInv
<1>4. CASE BeginAnalysis(uri, text)
  <2>1. /\ analysing' = uri /\ work'.statements = text
        /\ DOMAIN docStates' = DOMAIN docStates \ {uri}
        /\ \A u \in DOMAIN docStates \ {uri} : docStates'[u] = docStates[u]
        /\ published' = published
    BY <1>4 DEF BeginAnalysis, Unbind
  <2>2. ASSUME NEW u \in DOMAIN documents' \ {uri}
        PROVE  Settled(u)'
    <3>1. Settled(u) /\ documents'[u] = documents[u]
      BY <1>2
    <3> QED
      BY <2>1, <3>1 DEF Settled
  <2> QED
    BY <1>1, <2>1, <2>2 DEF FollowInv
<1> QED
  BY <1>3, <1>4 DEF OnChange

LEMMA FollowInvInit == Init => FollowInv
BY DEF Init, FollowInv

LEMMA FollowInvNext == CacheInv /\ FollowInv /\ [Next]_vars => FollowInv'
<1> SUFFICES ASSUME DocumentsOK, FollowInv, [Next]_vars
             PROVE  FollowInv'
  BY DEF CacheInv
<1>0. None \notin URIs
  BY LspAssumption
<1>1. ASSUME NEW uri \in URIs, NEW text \in Texts, DidOpen(uri, text) \/ DidChange(uri, text)
      PROVE  FollowInv'
  <2>1. analysing = None /\ documents' = Bind(documents, uri, text) /\ OnChange(uri, text)
    BY <1>1 DEF DidOpen, DidChange
  <2>2. /\ DOMAIN documents' = DOMAIN documents \cup {uri}
        /\ documents'[uri] = text
        /\ \A u \in DOMAIN documents \ {uri} : documents'[u] = documents[u]
    BY <2>1 DEF Bind
  <2> QED
    BY <2>1, <2>2, OnChangeFollows
<1>2. ASSUME NEW uri \in URIs, DidSave(uri)
      PROVE  FollowInv'
  <2>1. /\ analysing = None /\ documents' = documents /\ uri \in DOMAIN documents
        /\ OnChange(uri, documents[uri])
    BY <1>2 DEF DidSave
  <2> QED
    BY <2>1, OnChangeFollows
<1>3. ASSUME NEW uri \in URIs, DidClose(uri)
      PROVE  FollowInv'
  <2>1. /\ analysing = None /\ analysing' = None
        /\ DOMAIN documents' = DOMAIN documents \ {uri}
        /\ \A u \in DOMAIN documents' : documents'[u] = documents[u]
        /\ DOMAIN docStates' = DOMAIN docStates \ {uri}
        /\ \A u \in DOMAIN docStates' : docStates'[u] = docStates[u]
        /\ DOMAIN published' = URIs
        /\ published'[uri] = <<>>
        /\ \A u \in URIs \ {uri} : published'[u] = published[u]
    BY <1>3 DEF DidClose, Unbind, FollowInv
  <2>2. ASSUME NEW u \in DOMAIN documents' \ {None}
        PROVE  Settled(u)'
    <3>1. Settled(u) /\ u \in URIs \ {uri}
      BY <2>1 DEF FollowInv, DocumentsOK
    <3> QED
      BY <2>1, <3>1 DEF Settled
  <2> QED
    BY <2>1, <2>2 DEF FollowInv
<1>4. CASE RunDirtyStatement
  <2>1. work'.statements = work.statements
    BY <1>4 DEF RunDirtyStatement
  <2> QED
    BY <1>4, <2>1 DEF RunDirtyStatement, FollowInv, Settled
<1>5. ASSUME analysing # None, analysing' = None, documents' = documents,
             Panic \/ Finish
      PROVE  FollowInv'
  <2>1. analysing \in DOMAIN documents /\ analysing \in URIs
    BY <1>5 DEF FollowInv, DocumentsOK
  <2>2. /\ DOMAIN published' = URIs
        /\ \A u \in URIs \ {analysing} : published'[u] = published[u]
    BY <1>5 DEF Panic, Finish, FollowInv
  <2>3. /\ DOMAIN docStates \subseteq DOMAIN docStates'
        /\ DOMAIN docStates' \subseteq DOMAIN docStates \cup {analysing}
        /\ \A u \in DOMAIN docStates \ {analysing} : docStates'[u] = docStates[u]
    BY <1>5 DEF Panic, Finish, Bind
  <2>4. ASSUME NEW u \in DOMAIN documents, u = analysing
        PROVE  Settled(u)'
    <3>1. CASE Panic
      <4>1. published'[u] = <<InternalError>>
        BY <2>1, <2>4, <3>1 DEF Panic, FollowInv
      <4> QED
        BY <4>1 DEF Settled
    <3>2. CASE Finish
      <4> DEFINE done == [statements |-> work.statements, env |-> work.env,
                          unlocked |-> work.unlocked, diagnostics |-> work.diagnostics]
      <4>1. docStates'[u] = done /\ u \in DOMAIN docStates'
        BY <2>4, <3>2 DEF Finish, Bind
      <4>2. published'[u] = Flatten(work.diagnostics)
        BY <2>1, <2>4, <3>2 DEF Finish, FollowInv
      <4>3. work.statements = documents'[u]
        BY <1>5, <2>4 DEF FollowInv
      <4> QED
        BY <4>1, <4>2, <4>3 DEF Settled
    <3> QED
      BY <1>5, <3>1, <3>2
  <2>5. ASSUME NEW u \in DOMAIN documents, u # analysing
        PROVE  Settled(u)'
    <3>1. Settled(u) /\ u \in URIs
      BY <2>5 DEF FollowInv, DocumentsOK
    <3> QED
      BY <1>5, <2>2, <2>3, <2>5, <3>1 DEF Settled
  <2>6. \A u \in DOMAIN documents' \ {analysing'} : Settled(u)'
    BY <1>5, <2>4, <2>5
  <2>7. DOMAIN docStates' \subseteq DOMAIN documents'
    BY <1>5, <2>1, <2>3 DEF FollowInv
  <2>8. \A u \in URIs \ DOMAIN documents' : published'[u] = <<>>
    BY <1>5, <2>1, <2>2 DEF FollowInv
  <2> QED
    BY <1>5, <2>2, <2>6, <2>7, <2>8 DEF FollowInv
<1>6. CASE UNCHANGED vars
  BY <1>6 DEF vars, FollowInv, Settled
<1> QED
  BY <1>1, <1>2, <1>3, <1>4, <1>5, <1>6 DEF Next, Notification, Handler, Panic, Finish

(* Between notifications every open document that parses has been answered *)
(* from the cached state of its present text, unless its analysis          *)
(* panicked; a closed document has no state and no diagnostics left.       *)
THEOREM StateIsOfDocument == Spec => []StateFollowsDocument
<1>1. Spec => []FollowInv
  BY CacheInvInit, CacheInvNext, FollowInvInit, FollowInvNext, PTL DEF Spec
<1>2. CacheInv /\ FollowInv => StateFollowsDocument
  <2>1. None \notin URIs
    BY LspAssumption
  <2> QED
    BY <2>1 DEF FollowInv, Settled, StateFollowsDocument, CacheInv, DocumentsOK
<1> QED
  BY <1>1, <1>2, CachesAreSound, PTL

(* A save, or an edit that is taken back, runs no statement of a cached    *)
(* text and leaves its environment and its diagnostics as they were.       *)
THEOREM NothingRunsInVain == Spec => SameTextRerunsNothing
<1>1. ASSUME CacheInv, FollowInv, [Next]_vars
      PROVE  KeepsSameText
  <2>1. SUFFICES ASSUME NEW u \in DOMAIN docStates,
                        analysing = None, analysing' = u,
                        work'.statements = docStates[u].statements
                 PROVE  /\ work'.todo = {}
                        /\ work'.env = docStates[u].env
                        /\ work'.diagnostics = docStates[u].diagnostics
    BY DEF KeepsSameText
  <2>2. u # None
    BY <1>1, LspAssumption DEF FollowInv, CacheInv, DocumentsOK
  <2>3. PICK text : BeginAnalysis(u, text)
    <3>1. \E uri, text : BeginAnalysis(uri, text)
      BY <1>1, <2>1, <2>2 DEF Next, Notification, Handler, vars, DidOpen, DidChange, DidSave,
         DidClose, OnChange, ReportSyntaxError, RunDirtyStatement, Panic, Finish
    <3> QED
      BY <2>1, <3>1 DEF BeginAnalysis
  <2>4. IsCache(docStates[u]) /\ Previous(u) = docStates[u]
    BY <1>1 DEF CacheInv, CachesOK, Previous
  <2>5. text = docStates[u].statements
    BY <2>1, <2>3 DEF BeginAnalysis
  <2> QED
    BY <2>3, <2>4, <2>5, SameTextKeepsCache DEF BeginAnalysis
<1>2. CacheInv /\ FollowInv /\ [Next]_vars => [KeepsSameText]_vars
  BY <1>1
<1>3. Spec => []FollowInv
  BY CacheInvInit, CacheInvNext, FollowInvInit, FollowInvNext, PTL DEF Spec
<1> QED
  BY <1>2, <1>3, CachesAreSound, PTL DEF Spec, SameTextRerunsNothing

-----------------------------------------------------------------------------
(***************************************************************************)
(* The definitions by recursion, as what their equations say. FullRun,     *)
(* Flatten, Eval and Dependents are each the CHOOSE of a function that     *)
(* satisfies an equation; that such a function exists is shown by the      *)
(* least argument for which it would not.                                  *)
(***************************************************************************)

-----------------------------------------------------------------------------
(* The recursion of MapThenFoldSet takes the last index first.             *)
LEMMA MaxOfPrefix ==
  ASSUME NEW k \in Nat, NEW s \in SUBSET (1 .. k), k \in s
  PROVE  Max(s) = k /\ s \ {k} \in SUBSET (1 .. k - 1)
<1>1. \A y \in s : k >= y
  OBVIOUS
<1>2. Max(s) \in s /\ \A y \in s : Max(s) >= y
  BY <1>1 DEF Max
<1>3. Max(s) \in 1 .. k /\ k \in 1 .. k
  BY <1>2
<1>4. Max(s) = k
  BY <1>1, <1>2, <1>3
<1> QED
  BY <1>4

(* One step of the fold in FullRun, and one of the fold in Flatten.        *)
After(s, in) ==
  [env      |-> RunStatement(s, in).env,
   unlocked |-> RunStatement(s, in).unlocked,
   oks      |-> Append(in.oks, RunStatement(s, in).ok)]

Start == [env |-> NewInterpreter.env, unlocked |-> NewInterpreter.unlocked, oks |-> <<>>]

Keep(slot, kept) == IF slot = NoDiagnostic THEN kept ELSE Append(kept, slot)

First(how)            == IF how = "run" THEN Start ELSE <<>>
Turn(how, item, done) == IF how = "run" THEN After(item, done) ELSE Keep(item, done)

(* f is the recursive function over index sets by which MapThenFoldSet     *)
(* computes either fold.                                                   *)
Folds(f, how, items, sets) ==
  f = [s \in sets |-> IF s = {} THEN First(how) ELSE Turn(how, items[Max(s)], f[s \ {Max(s)}])]

(* The recursion can be carried one index further,                         *)
LEMMA FoldExtends ==
  ASSUME NEW how, NEW items, NEW k \in Nat \ {0}, NEW f, Folds(f, how, items, SUBSET (1 .. k - 1))
  PROVE  \E g : Folds(g, how, items, SUBSET (1 .. k))
<1> DEFINE old == SUBSET (1 .. k - 1)
           new == SUBSET (1 .. k)
           g == [s \in new |-> IF k \in s THEN Turn(how, items[k], f[s \ {k}]) ELSE f[s]]
<1>1. \A s \in new : k \in s => Max(s) = k /\ s \ {k} \in old /\ s # {} /\ s \ {k} \in new /\ k \notin s \ {k}
  BY MaxOfPrefix
<1>2. \A s \in new : k \notin s => s \in old
  OBVIOUS
<1>3. \A s \in old : s # {} => s \ {Max(s)} \in new /\ k \notin s \ {Max(s)}
  <2>1. \A s \in old : s \in new /\ k \notin s
    OBVIOUS
  <2> HIDE DEF old
  <2> QED
    BY <2>1
<1>4. \A s \in old : f[s] = IF s = {} THEN First(how) ELSE Turn(how, items[Max(s)], f[s \ {Max(s)}])
  <2> HIDE DEF old
  <2> QED
    BY Zenon DEF Folds, old
<1> HIDE DEF old, new
<1>5. \A s \in new : g[s] = IF s = {} THEN First(how) ELSE Turn(how, items[Max(s)], g[s \ {Max(s)}])
  <2> TAKE s \in new
  <2>1. CASE k \in s
    <3>1. g[s \ {k}] = f[s \ {k}]
      BY <1>1, <2>1
    <3> QED
      BY <1>1, <2>1, <3>1
  <2>2. CASE k \notin s
    <3>1. s \in old /\ g[s] = f[s]
      BY <1>2, <2>2
    <3>2. CASE s = {}
      BY <3>1, <3>2, <1>4
    <3>3. CASE s # {}
      <4>1. g[s \ {Max(s)}] = f[s \ {Max(s)}]
        BY <1>3, <3>1, <3>3
      <4> QED
        BY <3>1, <3>3, <4>1, <1>4
    <3> QED
      BY <3>2, <3>3
  <2> QED
    BY <2>1, <2>2
<1>6. Folds(g, how, items, new)
  <2> DEFINE h == [s \in new |-> IF s = {} THEN First(how) ELSE Turn(how, items[Max(s)], g[s \ {Max(s)}])]
  <2>1. \A s \in new : h[s] = g[s]
    BY <1>5
  <2>2. h = g
    BY <2>1
  <2> QED
    BY <2>2 DEF Folds
<1> QED
  BY <1>6 DEF new

(* ... and so, by the least index where it could not, to any length.       *)
LEMMA FoldExists ==
  ASSUME NEW how, NEW items, NEW n \in Nat
  PROVE  \E f : Folds(f, how, items, SUBSET (1 .. n))
<1> DEFINE Bad == {k \in Nat : ~ \E f : Folds(f, how, items, SUBSET (1 .. k))}
<1>1. SUFFICES ASSUME Bad # {} PROVE FALSE
  OBVIOUS
<1>2. PICK k \in Bad : \A y \in Bad : k <= y
  BY <1>1, LeastNatural
<1>3. CASE k = 0
  <2>1. SUBSET (1 .. 0) = {{}}
    OBVIOUS
  <2>2. Folds([s \in {{}} |-> First(how)], how, items, {{}})
    BY DEF Folds
  <2> QED
    BY <1>2, <1>3, <2>1, <2>2
<1>4. CASE k # 0
  <2>1. k \in Nat \ {0} /\ k - 1 \in Nat /\ ~ (k <= k - 1)
    BY <1>4
  <2>2. PICK f : Folds(f, how, items, SUBSET (1 .. k - 1))
    BY <1>2, <2>1
  <2> QED
    BY <1>2, <2>1, <2>2, FoldExtends
<1> QED
  BY <1>3, <1>4

Steps(run, how, items, n) ==
  /\ run[0] = First(how)
  /\ \A k \in 1 .. n : run[k] = Turn(how, items[k], run[k - 1])

Yields(how, items, n, result) == \E run : Steps(run, how, items, n) /\ run[n] = result

(* ... so that a fold is the last of a sequence of steps.                  *)
LEMMA FoldIsSteps ==
  ASSUME NEW how, NEW items, NEW n \in Nat, NEW all, all = 1 .. n,
         NEW f, Folds(f, how, items, SUBSET all)
  PROVE  Yields(how, items, n, f[all])
<1> DEFINE run == [k \in 0 .. n |-> f[1 .. k]]
<1>2. \A k \in 0 .. n : run[k] = f[1 .. k]
  OBVIOUS
<1> HIDE DEF run
<1>3. run[0] = First(how)
  <2>1. {} \in SUBSET (1 .. n) /\ 1 .. 0 = {} /\ run[0] = f[1 .. 0]
    BY <1>2
  <2> QED
    BY <2>1, Zenon DEF Folds
<1>4. ASSUME NEW k \in 1 .. n
      PROVE  run[k] = Turn(how, items[k], run[k - 1])
  <2>1. /\ (1 .. k) \in SUBSET (1 .. n) /\ 1 .. k # {} /\ k \in 1 .. k /\ k \in Nat
        /\ (1 .. k) \ {k} = 1 .. (k - 1) /\ (1 .. k) \in SUBSET (1 .. k)
        /\ run[k] = f[1 .. k] /\ run[k - 1] = f[1 .. (k - 1)]
    BY <1>2
  <2>2. Max(1 .. k) = k
    BY <2>1, MaxOfPrefix
  <2>3. f[1 .. k] = Turn(how, items[Max(1 .. k)], f[(1 .. k) \ {Max(1 .. k)}])
    BY <2>1, Zenon DEF Folds
  <2> QED
    BY <2>1, <2>2, <2>3
<1>5. run[n] = f[1 .. n]
  BY <1>2
<1> QED
  BY <1>3, <1>4, <1>5 DEF Steps, Yields

(* FullRun is the statements' steps, one after the other.                  *)
LEMMA FullRunIsARun ==
  ASSUME NEW stmts \in Seq(Statement)
  PROVE  \E run : /\ run[0] = Start
                  /\ \A k \in 1 .. Len(stmts) : run[k] = After(stmts[k], run[k - 1])
                  /\ run[Len(stmts)] = FullRun(stmts)
<1> DEFINE n == Len(stmts)
           sets == SUBSET DOMAIN stmts
<1>0. n \in Nat /\ DOMAIN stmts = 1 .. n
  OBVIOUS
<1>1. \E f : Folds(f, "run", stmts, sets)
  BY <1>0, FoldExists
<1>2. \E f : Folds(f, "run", stmts, sets) /\ FullRun(stmts) = f[DOMAIN stmts]
  <2>1. \A f : Folds(f, "run", stmts, sets) <=>
               f = [s \in sets |-> IF s = {} THEN Start ELSE After(stmts[Max(s)], f[s \ {Max(s)}])]
    BY DEF Folds, Turn, First
  <2>2. \E f : f = [s \in sets |-> IF s = {} THEN Start ELSE After(stmts[Max(s)], f[s \ {Max(s)}])]
    BY <1>1, <2>1
  <2>3. \E f : /\ f = [s \in sets |-> IF s = {} THEN Start ELSE After(stmts[Max(s)], f[s \ {Max(s)}])]
               /\ FullRun(stmts) = f[DOMAIN stmts]
    BY <2>2 DEF After, Start, FullRun, FoldLeft, MapThenFoldSet
  <2> QED
    BY <2>1, <2>3
<1>3. PICK f : Folds(f, "run", stmts, sets) /\ FullRun(stmts) = f[DOMAIN stmts]
  BY <1>2
<1> DEFINE how == "run"
           all == DOMAIN stmts
<1>4. Folds(f, how, stmts, SUBSET all) /\ all = 1 .. n
  BY <1>0, <1>3
<1> HIDE DEF n, how, all
<1>5. Yields(how, stmts, n, f[all])
  BY <1>0, <1>4, FoldIsSteps
<1> QED
  BY <1>3, <1>5 DEF Yields, Steps, First, Turn, n, how, all

(* Flatten keeps slot after slot.                                          *)
LEMMA FlattenIsARun ==
  ASSUME NEW slots, NEW n \in Nat, DOMAIN slots = 1 .. n
  PROVE  \E run : /\ run[0] = <<>>
                  /\ \A k \in 1 .. n : run[k] = Keep(slots[k], run[k - 1])
                  /\ run[n] = Flatten(slots)
<1> DEFINE sets == SUBSET DOMAIN slots
<1>0. n \in Nat /\ DOMAIN slots = 1 .. n
  OBVIOUS
<1>1. \E f : Folds(f, "keep", slots, sets)
  BY <1>0, FoldExists
<1>2. \E f : Folds(f, "keep", slots, sets) /\ Flatten(slots) = f[DOMAIN slots]
  BY <1>1 DEF Folds, Turn, First, Keep, Flatten, FoldLeft, MapThenFoldSet
<1>3. PICK f : Folds(f, "keep", slots, sets) /\ Flatten(slots) = f[DOMAIN slots]
  BY <1>2
<1> DEFINE how == "keep"
           all == DOMAIN slots
<1>4. Folds(f, how, slots, SUBSET all) /\ all = 1 .. n
  BY <1>0, <1>3
<1> HIDE DEF how, all
<1>5. Yields(how, slots, n, f[all])
  BY <1>0, <1>4, FoldIsSteps
<1> QED
  BY <1>3, <1>5 DEF Yields, Steps, First, Turn, how, all

-----------------------------------------------------------------------------
(* The depths a call can have, and one level of the recursion of Eval.     *)
Depths == 0 .. MaxCallDepth

Level(next, d, x, env, unlocked) ==
  IF x[1] # "call" THEN Simple(x, env)
  ELSE IF x[2] \in unlocked THEN <<"builtin", x[2]>>
  ELSE IF IsA("fn", env, x[2]) /\ d < MaxCallDepth THEN next[d + 1][env[x[2]][2]]
  ELSE Err

Evaluates(at, depths, env, unlocked) ==
  at = [d \in depths |-> [x \in Expr |-> Level(at, d, x, env, unlocked)]]

(* Eval's recursion, one call depth further from the limit.                *)
LEMMA EvaluationExtends ==
  ASSUME NEW env, NEW unlocked, NEW m \in Nat, m < MaxCallDepth,
         NEW f, Evaluates(f, MaxCallDepth - m .. MaxCallDepth, env, unlocked)
  PROVE  \E g : Evaluates(g, MaxCallDepth - (m + 1) .. MaxCallDepth, env, unlocked)
<1> DEFINE top == MaxCallDepth - (m + 1)
           old == MaxCallDepth - m .. MaxCallDepth
           new == top .. MaxCallDepth
           g == [d \in new |-> IF d = top THEN [x \in Expr |-> Level(f, top, x, env, unlocked)] ELSE f[d]]
<1>0. MaxCallDepth \in Nat
  BY InterpreterAssumption
<1>1. /\ top \in new /\ top \notin old
      /\ \A d \in new : d # top => d \in old
      /\ \A d \in new : d < MaxCallDepth => d + 1 \in old /\ d + 1 \in new /\ d + 1 # top
  BY <1>0
<1>2. \A d \in old : f[d] = [x \in Expr |-> Level(f, d, x, env, unlocked)]
  <2> HIDE DEF old
  <2> QED
    BY Zenon DEF Evaluates, old
<1> HIDE DEF old, new, top
<1>3. \A d \in new : d < MaxCallDepth => g[d + 1] = f[d + 1]
  BY <1>1
<1>4. \A d \in new : \A x : Level(g, d, x, env, unlocked) = Level(f, d, x, env, unlocked)
  <2> HIDE DEF g
  <2> QED
    BY <1>3 DEF Level
<1> DEFINE h == [d \in new |-> [x \in Expr |-> Level(g, d, x, env, unlocked)]]
<1>5. ASSUME NEW d \in new PROVE h[d] = g[d]
  <2>1. h[d] = [x \in Expr |-> Level(f, d, x, env, unlocked)]
    <3>1. h[d] = [x \in Expr |-> Level(g, d, x, env, unlocked)]
      OBVIOUS
    <3> HIDE DEF h, g
    <3> QED
      BY <1>4, <3>1
  <2>2. CASE d = top
    BY <2>1, <2>2, <1>1
  <2>3. CASE d # top
    BY <2>1, <2>3, <1>1, <1>2
  <2> QED
    BY <2>2, <2>3
<1>6. h = g
  BY <1>5
<1>7. Evaluates(g, new, env, unlocked)
  BY <1>6, Zenon DEF Evaluates
<1> QED
  BY <1>7 DEF new, top

(* A function that satisfies the recursion exists for every call depth,    *)
LEMMA EvaluationExists ==
  ASSUME NEW env, NEW unlocked, NEW m \in 0 .. MaxCallDepth
  PROVE  \E f : Evaluates(f, MaxCallDepth - m .. MaxCallDepth, env, unlocked)
<1>0. MaxCallDepth \in Nat
  BY InterpreterAssumption
<1> DEFINE Bad == {k \in 0 .. MaxCallDepth :
                     ~ \E f : Evaluates(f, MaxCallDepth - k .. MaxCallDepth, env, unlocked)}
<1>1. SUFFICES ASSUME Bad # {} PROVE FALSE
  OBVIOUS
<1>2. PICK k \in Bad : \A y \in Bad : k <= y
  <2>1. Bad \subseteq Nat
    BY <1>0
  <2> HIDE DEF Bad
  <2> QED
    BY <1>1, <2>1, LeastNatural
<1>3. CASE k = 0
  <2> DEFINE bottom == MaxCallDepth - 0 .. MaxCallDepth
             f == [d \in bottom |-> [x \in Expr |-> Level(<<>>, d, x, env, unlocked)]]
  <2>1. \A d \in bottom : ~ (d < MaxCallDepth)
    BY <1>0
  <2> HIDE DEF bottom
  <2> HIDE DEF f
  <2>2. \A d \in bottom : \A x : Level(f, d, x, env, unlocked) = Level(<<>>, d, x, env, unlocked)
    BY <2>1 DEF Level
  <2>3. [d \in bottom |-> [x \in Expr |-> Level(f, d, x, env, unlocked)]] = f
    BY <2>2 DEF f
  <2>4. Evaluates(f, bottom, env, unlocked)
    BY <2>3, Zenon DEF Evaluates
  <2> QED
    BY <2>4, <1>2, <1>3 DEF bottom
<1>4. CASE k # 0
  <2>1. k - 1 \in Nat /\ k - 1 < MaxCallDepth /\ (k - 1) + 1 = k /\ ~ (k <= k - 1) /\ k - 1 \in 0 .. MaxCallDepth
    BY <1>0, <1>4
  <2>2. PICK f : Evaluates(f, MaxCallDepth - (k - 1) .. MaxCallDepth, env, unlocked)
    BY <1>2, <2>1
  <2>3. \E g : Evaluates(g, MaxCallDepth - ((k - 1) + 1) .. MaxCallDepth, env, unlocked)
    BY <2>1, <2>2, EvaluationExtends
  <2> QED
    BY <1>2, <2>1, <2>3
<1> QED
  BY <1>3, <1>4

(* ... so Eval is what its recursion says.                                 *)
LEMMA EvalIsRecursive ==
  ASSUME NEW env, NEW unlocked
  PROVE  \E at : /\ \A d \in Depths, x \in Expr : at[d][x] = Level(at, d, x, env, unlocked)
                 /\ \A e : Eval(e, env, unlocked) = at[0][e]
<1> DEFINE at == CHOOSE f : f = [d \in 0 .. MaxCallDepth |-> [x \in Expr |-> Level(f, d, x, env, unlocked)]]
<1>1. \A e : Eval(e, env, unlocked) = at[0][e]
  BY Zenon DEF Eval, Level
<1>2. \E f : Evaluates(f, 0 .. MaxCallDepth, env, unlocked)
  <2>1. MaxCallDepth \in 0 .. MaxCallDepth /\ MaxCallDepth - MaxCallDepth = 0
    BY InterpreterAssumption
  <2> QED
    BY <2>1, EvaluationExists
<1>3. Evaluates(at, 0 .. MaxCallDepth, env, unlocked)
  BY <1>2, Zenon DEF Evaluates
<1> HIDE DEF at
<1>4. \A d \in Depths : at[d] = [x \in Expr |-> Level(at, d, x, env, unlocked)]
  BY <1>3, Zenon DEF Evaluates, Depths
<1>5. \A d \in Depths : \A x \in Expr : at[d][x] = Level(at, d, x, env, unlocked)
  <2> TAKE d \in Depths
  <2> TAKE x \in Expr
  <2>1. at[d] = [y \in Expr |-> Level(at, d, y, env, unlocked)]
    BY <1>4
  <2> QED
    BY <2>1
<1> WITNESS at
<1> QED
  BY <1>1, <1>5

-----------------------------------------------------------------------------
(***************************************************************************)
(* Reading. Two environments that agree on the names an expression reads,  *)
(* and on what the functions bound to them read, give it the same value.   *)
(***************************************************************************)

-----------------------------------------------------------------------------
(* A value that a tidy text can bind: a proper one, which reads no name    *)
(* outside of G if it is a function.                                       *)
Sound(v, G) ==
  /\ v # <<"unbound">>
  /\ v[1] = "fn" => v[2] \in Expr /\ ExprReads(v[2]) \subseteq G

(* Two environments that cannot be told apart by looking names of G up.    *)
Agree(e1, e2, G) ==
  \A n \in G : /\ n \in DOMAIN e1 <=> n \in DOMAIN e2
               /\ n \in DOMAIN e1 => e1[n] = e2[n] /\ Sound(e1[n], G)

(* Values of different kinds are different.                                *)
LEMMA ValuesDiffer ==
  ASSUME NEW k, NEW G
  PROVE  /\ Sound(Num(k), G) /\ Sound(Text(k), G) /\ Sound(Err, G)
         /\ Num(k) # Err /\ Fn(k) # Err
         /\ Fn(k) # <<"unbound">> /\ Fn(k)[1] = "fn" /\ Fn(k)[2] = k
<1>1. /\ Len(Num(k)) = 2 /\ Len(Text(k)) = 2 /\ Len(Err) = 1 /\ Len(<<"unbound">>) = 1 /\ Len(Fn(k)) = 2
  BY DEF Num, Text, Err, Fn
<1>2. Num(k)[1] = "num" /\ Text(k)[1] = "text" /\ Err[1] = "error" /\ <<"unbound">>[1] = "unbound"
  BY DEF Num, Text, Err
<1>3. Fn(k)[1] = "fn" /\ Fn(k)[2] = k
  BY DEF Fn
<1> QED
  BY <1>1, <1>2, <1>3 DEF Sound

(* What an expression can be.                                              *)
LEMMA ExprShape ==
  ASSUME NEW x \in Expr
  PROVE  /\ x[1] \in {"lit", "ref", "plus", "call"}
         /\ x[1] # "lit" => x[2] \in Names /\ ExprReads(x) = {x[2]}
         /\ x[1] = "lit" => ExprReads(x) = {}
         /\ ExprReads(x) \subseteq Names
<1>1. x[1] \in {"lit", "ref", "plus", "call"} /\ (x[1] # "lit" => x[2] \in Names)
  BY DEF Expr
<1> QED
  BY <1>1 DEF ExprReads

(* Without a call, only the names read matter.                             *)
LEMMA SimpleAgrees ==
  ASSUME NEW e1, NEW e2, NEW G, Agree(e1, e2, G),
         NEW x \in Expr, ExprReads(x) \subseteq G, x[1] # "call"
  PROVE  Simple(x, e1) = Simple(x, e2) /\ Sound(Simple(x, e1), G)
<1>1. CASE x[1] = "lit"
  <2>1. Simple(x, e1) = Num(x[2]) /\ Simple(x, e2) = Num(x[2])
    BY <1>1 DEF Simple
  <2> QED
    BY <2>1, ValuesDiffer
<1>2. CASE x[1] = "ref"
  <2>1. x[2] \in G
    BY <1>2, ExprShape
  <2>2. /\ Simple(x, e1) = IF x[2] \in DOMAIN e1 THEN e1[x[2]] ELSE Text(x[2])
        /\ Simple(x, e2) = IF x[2] \in DOMAIN e2 THEN e2[x[2]] ELSE Text(x[2])
    BY <1>2 DEF Simple
  <2> QED
    BY <2>1, <2>2, ValuesDiffer DEF Agree
<1>3. CASE x[1] = "plus"
  <2>1. x[2] \in G
    BY <1>3, ExprShape
  <2>2. /\ Simple(x, e1) = IF IsA("num", e1, x[2]) THEN Num(e1[x[2]][2] + 1) ELSE Err
        /\ Simple(x, e2) = IF IsA("num", e2, x[2]) THEN Num(e2[x[2]][2] + 1) ELSE Err
    BY <1>3 DEF Simple
  <2>3. IsA("num", e1, x[2]) <=> IsA("num", e2, x[2])
    BY <2>1 DEF Agree, IsA
  <2>4. IsA("num", e1, x[2]) => e1[x[2]] = e2[x[2]]
    BY <2>1 DEF Agree, IsA
  <2> QED
    BY <2>2, <2>3, <2>4, ValuesDiffer
<1> QED
  BY <1>1, <1>2, <1>3, ExprShape

(* The value of an expression depends on the names it reads, and on what   *)
(* the functions bound to them read.                                       *)
LEMMA EvalAgrees ==
  ASSUME NEW e1, NEW e2, NEW G, Agree(e1, e2, G),
         NEW x \in Expr, ExprReads(x) \subseteq G
  PROVE  Eval(x, e1, {}) = Eval(x, e2, {}) /\ Sound(Eval(x, e1, {}), G)
<1> DEFINE Closed == {y \in Expr : ExprReads(y) \subseteq G}
<1>0. MaxCallDepth \in Nat
  BY InterpreterAssumption
<1>1. PICK a : /\ \A d \in Depths, y \in Expr : a[d][y] = Level(a, d, y, e1, {})
               /\ \A e : Eval(e, e1, {}) = a[0][e]
  BY EvalIsRecursive
<1>2. PICK b : /\ \A d \in Depths, y \in Expr : b[d][y] = Level(b, d, y, e2, {})
               /\ \A e : Eval(e, e2, {}) = b[0][e]
  BY EvalIsRecursive
<1> DEFINE Same(d) == \A y \in Closed : a[d][y] = b[d][y] /\ Sound(a[d][y], G)
<1>3. ASSUME NEW d \in Depths, d < MaxCallDepth => Same(d + 1)
      PROVE  Same(d)
  <2> SUFFICES ASSUME NEW y \in Closed
               PROVE  a[d][y] = b[d][y] /\ Sound(a[d][y], G)
    OBVIOUS
  <2>1. y \in Expr /\ ExprReads(y) \subseteq G
    OBVIOUS
  <2>2. a[d][y] = Level(a, d, y, e1, {}) /\ b[d][y] = Level(b, d, y, e2, {})
    BY <1>1, <1>2, <2>1
  <2>3. CASE y[1] # "call"
    <3>1. Level(a, d, y, e1, {}) = Simple(y, e1) /\ Level(b, d, y, e2, {}) = Simple(y, e2)
      BY <2>3 DEF Level
    <3> QED
      BY <2>1, <2>2, <2>3, <3>1, SimpleAgrees
  <2>4. CASE y[1] = "call"
    <3>1. y[2] \in G
      BY <2>1, <2>4, ExprShape
    <3>2. IsA("fn", e1, y[2]) <=> IsA("fn", e2, y[2])
      BY <3>1 DEF Agree, IsA
    <3>3. CASE IsA("fn", e1, y[2]) /\ d < MaxCallDepth
      <4>1. a[d][y] = a[d + 1][e1[y[2]][2]] /\ b[d][y] = b[d + 1][e2[y[2]][2]]
        BY <2>2, <2>4, <3>2, <3>3 DEF Level
      <4>2. e1[y[2]] = e2[y[2]] /\ e1[y[2]][2] \in Closed
        BY <3>1, <3>3 DEF Agree, IsA, Sound
      <4> QED
        BY <1>3, <3>3, <4>1, <4>2
    <3>4. CASE ~ (IsA("fn", e1, y[2]) /\ d < MaxCallDepth)
      <4>1. a[d][y] = Err /\ b[d][y] = Err
        BY <2>2, <2>4, <3>2, <3>4 DEF Level
      <4> QED
        BY <4>1, ValuesDiffer
    <3> QED
      BY <3>3, <3>4
  <2> QED
    BY <2>3, <2>4
<1> DEFINE Bad == {d \in Depths : ~ Same(d)}
<1> HIDE DEF Same
<1>4. Bad = {}
  <2>1. SUFFICES ASSUME Bad # {} PROVE FALSE
    OBVIOUS
  <2>2. Bad \subseteq 0 .. MaxCallDepth
    BY DEF Depths
  <2>3. PICK d \in Bad : \A y \in Bad : y <= d
    <3> HIDE DEF Bad
    <3> QED
      BY <1>0, <2>1, <2>2, GreatestNatural
  <2>4. d \in Depths /\ d \in Nat /\ (d < MaxCallDepth => d + 1 \in Depths /\ ~ (d + 1 <= d))
    BY <1>0, <2>2 DEF Depths
  <2>5. d < MaxCallDepth => Same(d + 1)
    BY <2>3, <2>4
  <2> QED
    BY <1>3, <2>3, <2>4, <2>5
<1>5. Same(0)
  BY <1>0, <1>4 DEF Depths
<1> QED
  BY <1>1, <1>2, <1>5 DEF Same

-----------------------------------------------------------------------------
(***************************************************************************)
(* Tidy texts. What one statement does, and what a full run of the text    *)
(* has bound after it.                                                     *)
(***************************************************************************)

-----------------------------------------------------------------------------
(* The statements of a tidy text, but for those that panic.                *)
Plain(s) ==
  /\ s.kind \notin {"use", "while", "panic"}
  /\ s.kind = "import" => ModuleExports[s.name][1] = "lit"

(* What the statement s binds its name to, if it binds one.                *)
Given(s, in) ==
  CASE s.kind = "fn"     -> Fn(s.expr)
    [] s.kind = "import" -> IF s.name \in DOMAIN ModuleExports
                            THEN Eval(ModuleExports[s.name], in.env, in.unlocked)
                            ELSE Err
    [] OTHER             -> Eval(s.expr, in.env, in.unlocked)

(* The outcome of a statement of a tidy text, in terms of what it gives.   *)
LEMMA RunStatementGives ==
  ASSUME NEW s \in Statement, Plain(s), NEW in, in.unlocked = {}
  PROVE  /\ RunStatement(s, in).ok = (Given(s, in) # Err)
         /\ RunStatement(s, in).unlocked = {}
         /\ RunStatement(s, in).env =
              IF Given(s, in) \in {Err, <<"unbound">>} \/ s.kind = "expr"
              THEN in.env ELSE Bind(in.env, s.name, Given(s, in))
         /\ Writes(s) = IF s.kind = "expr" THEN {} ELSE {s.name}
<1>1. s.kind \in {"assign", "fn", "import", "expr"}
  BY DEF Plain, Statement
<1>2. Writes(s) = IF s.kind = "expr" THEN {} ELSE {s.name}
  BY <1>1 DEF Writes
<1>3. CASE s.kind \in {"assign", "expr"}
  BY <1>3, <1>2 DEF RunStatement, Given
<1>4. CASE s.kind = "fn"
  BY <1>4, <1>2 DEF RunStatement, Given
<1>5. CASE s.kind = "import"
  BY <1>5, <1>2 DEF RunStatement, Given
<1> QED
  BY <1>1, <1>3, <1>4, <1>5

(* A statement gives the same in environments that agree on what it        *)
(* reads, and what it gives is sound for them.                             *)
LEMMA GivenAgrees ==
  ASSUME NEW s \in Statement, Plain(s), NEW a, NEW b, NEW G,
         a.unlocked = {}, b.unlocked = {}, Agree(a.env, b.env, G), Reads(s) \subseteq G
  PROVE  Given(s, a) = Given(s, b) /\ Sound(Given(s, a), G)
<1>0. s.expr \in Expr /\ s.name \in Names /\ s.kind \in {"assign", "fn", "import", "expr"}
  BY DEF Plain, Statement
<1>1. CASE s.kind = "fn"
  <2>1. Given(s, a) = Fn(s.expr) /\ Given(s, b) = Fn(s.expr)
    BY <1>1 DEF Given
  <2>2. ExprReads(s.expr) \subseteq G
    BY <1>1 DEF Reads
  <2> QED
    BY <1>0, <2>1, <2>2, ValuesDiffer DEF Sound
<1>2. CASE s.kind = "import"
  <2>1. CASE s.name \in DOMAIN ModuleExports
    <3>1. /\ Given(s, a) = Eval(ModuleExports[s.name], a.env, {})
          /\ Given(s, b) = Eval(ModuleExports[s.name], b.env, {})
      BY <1>2, <2>1 DEF Given
    <3>2. ModuleExports[s.name] \in Expr /\ ExprReads(ModuleExports[s.name]) = {}
      BY <1>2, <2>1, ExprShape, InterpreterAssumption DEF Plain
    <3> QED
      BY <3>1, <3>2, EvalAgrees
  <2>2. CASE s.name \notin DOMAIN ModuleExports
    BY <1>2, <2>2, ValuesDiffer DEF Given
  <2> QED
    BY <2>1, <2>2
<1>3. CASE s.kind \in {"assign", "expr"}
  <2>1. Given(s, a) = Eval(s.expr, a.env, {}) /\ Given(s, b) = Eval(s.expr, b.env, {})
    BY <1>3 DEF Given
  <2>2. ExprReads(s.expr) \subseteq G
    BY <1>3 DEF Reads
  <2> QED
    BY <1>0, <2>1, <2>2, EvalAgrees
<1> QED
  BY <1>0, <1>1, <1>2, <1>3

(* Run in interpreters that agree on what it reads, a statement has the    *)
(* same outcome.                                                           *)
LEMMA StatementAgrees ==
  ASSUME NEW s \in Statement, Plain(s), NEW a, NEW b, NEW G,
         a.unlocked = {}, b.unlocked = {}, Agree(a.env, b.env, G), Reads(s) \subseteq G,
         NEW x, x = RunStatement(s, a), NEW y, y = RunStatement(s, b)
  PROVE  /\ x.ok = y.ok
         /\ x.unlocked = {} /\ y.unlocked = {}
         /\ ~ x.ok \/ Writes(s) = {} => x.env = a.env /\ y.env = b.env
         /\ x.ok /\ Writes(s) # {} =>
              \E v : /\ Sound(v, G)
                     /\ Writes(s) = {s.name}
                     /\ x.env = Bind(a.env, s.name, v)
                     /\ y.env = Bind(b.env, s.name, v)
<1>1. Given(s, a) = Given(s, b) /\ Sound(Given(s, a), G)
  BY GivenAgrees
<1> DEFINE v == Given(s, a)
<1>2. v # <<"unbound">> /\ Given(s, b) = v
  BY <1>1 DEF Sound
<1>3. /\ x.ok = (v # Err) /\ y.ok = (v # Err)
      /\ x.unlocked = {} /\ y.unlocked = {}
  BY <1>2, RunStatementGives
<1>4. /\ x.env = IF v = Err \/ s.kind = "expr" THEN a.env ELSE Bind(a.env, s.name, v)
      /\ y.env = IF v = Err \/ s.kind = "expr" THEN b.env ELSE Bind(b.env, s.name, v)
  BY <1>2, RunStatementGives
<1>5. Writes(s) = IF s.kind = "expr" THEN {} ELSE {s.name}
  BY RunStatementGives
<1>6. Sound(v, G)
  BY <1>1
<1> HIDE DEF v
<1>7. CASE v = Err \/ s.kind = "expr"
  <2>1. x.env = a.env /\ y.env = b.env
    BY <1>4, <1>7
  <2>2. ~ x.ok \/ Writes(s) = {}
    BY <1>3, <1>5, <1>7
  <2> QED
    BY <1>3, <2>1, <2>2
<1>8. CASE ~ (v = Err \/ s.kind = "expr")
  <2>1. x.env = Bind(a.env, s.name, v) /\ y.env = Bind(b.env, s.name, v)
    BY <1>4, <1>8
  <2>2. x.ok /\ Writes(s) = {s.name}
    BY <1>3, <1>5, <1>8
  <2> QED
    BY <1>3, <1>6, <2>1, <2>2
<1> QED
  BY <1>7, <1>8

-----------------------------------------------------------------------------
(* A panicking statement leaves everything as it was.                      *)
LEMMA PanicBindsNothing ==
  ASSUME NEW s \in Statement, s.kind = "panic", NEW in
  PROVE  /\ RunStatement(s, in).env = in.env
         /\ RunStatement(s, in).unlocked = in.unlocked
         /\ Writes(s) = {}
BY DEF RunStatement, Writes

-----------------------------------------------------------------------------
(* The names that no statement from i on writes.                           *)
Below(text, i) ==
  {n \in Names : \A j \in DOMAIN text : n \in Writes(text[j]) => j < i}

IsTidy(text) == text \in Seq(Statement) /\ Tidy(text)

(* The text of a state that has analysed nothing is tidy.                  *)
LEMMA EmptyIsTidy == IsTidy(<<>>)
<1>1. <<>> \in Seq(Statement) /\ DOMAIN <<>> = {}
  OBVIOUS
<1> QED
  BY <1>1 DEF IsTidy, Tidy

(* What Tidy says of a statement and its place in the text.                *)
LEMMA TidyStatements ==
  ASSUME NEW text, IsTidy(text), NEW i \in DOMAIN text
  PROVE  /\ text[i] \in Statement
         /\ text[i].kind = "panic" \/ Plain(text[i])
         /\ Reads(text[i]) \subseteq Below(text, i)
         /\ Writes(text[i]) \subseteq {text[i].name} /\ text[i].name \in Names
         /\ \A j \in DOMAIN text : i # j => Writes(text[i]) \cap Writes(text[j]) = {}
         /\ \A j \in DOMAIN text : Reads(text[i]) \cap Writes(text[j]) # {} => j < i
         /\ Writes(text[i]) # {} => FullRun(text).oks[i]
         /\ DOMAIN text = 1 .. Len(text) /\ i \in Nat /\ Len(text) \in Nat
<1>1. /\ text \in Seq(Statement)
      /\ \A k, j \in DOMAIN text : k # j => Writes(text[k]) \cap Writes(text[j]) = {}
      /\ \A k, j \in DOMAIN text : Reads(text[k]) \cap Writes(text[j]) # {} => j < k
      /\ text[i].kind # "use"
      /\ Writes(text[i]) # {} => FullRun(text).oks[i]
      /\ text[i].kind = "import" => ModuleExports[text[i].name][1] = "lit"
  BY DEF IsTidy, Tidy
<1>2. text[i] \in Statement /\ DOMAIN text = 1 .. Len(text) /\ i \in Nat /\ Len(text) \in Nat
  BY <1>1
<1>3. Reads(text[i]) \subseteq Names /\ text[i].name \in Names
  <2>1. text[i].expr \in Expr /\ text[i].name \in Names
    BY <1>2 DEF Statement
  <2>2. \/ Reads(text[i]) = ExprReads(text[i].expr)
        \/ Reads(text[i]) = {text[i].name}
        \/ Reads(text[i]) = {}
    BY DEF Reads
  <2> QED
    BY <2>1, <2>2, ExprShape
<1>4. text[i].kind # "while"
  <2>1. SUFFICES ASSUME text[i].kind = "while" PROVE FALSE
    OBVIOUS
  <2>2. Reads(text[i]) = {text[i].name} /\ Writes(text[i]) = {text[i].name}
    BY <2>1 DEF Reads, Writes
  <2>3. i < i
    BY <1>1, <2>2
  <2> QED
    BY <1>2, <2>3
<1>5. Writes(text[i]) \subseteq {text[i].name}
  BY DEF Writes
<1>6. Reads(text[i]) \subseteq Below(text, i)
  BY <1>1, <1>3 DEF Below
<1> QED
  BY <1>1, <1>2, <1>3, <1>4, <1>5, <1>6 DEF Plain

(* More names are settled further down.                                    *)
LEMMA BelowGrows ==
  ASSUME NEW text, IsTidy(text), NEW i \in Nat, NEW j \in Nat, i <= j
  PROVE  Below(text, i) \subseteq Below(text, j)
<1>1. \A k \in DOMAIN text : k \in Nat
  BY TidyStatements
<1> QED
  BY <1>1 DEF Below

IsRun(run, text) ==
  /\ run[0] = Start
  /\ \A k \in 1 .. Len(text) : run[k] = After(text[k], run[k - 1])
  /\ run[Len(text)] = FullRun(text)

(* FullRun notes for every statement whether its step succeeded.           *)
LEMMA OksOfRun ==
  ASSUME NEW text \in Seq(Statement), NEW run, IsRun(run, text), NEW j \in 1 .. Len(text)
  PROVE  FullRun(text).oks[j] = RunStatement(text[j], run[j - 1]).ok
<1> DEFINE n == Len(text)
           T == {k \in 0 .. n : /\ run[k].oks \in Seq(BOOLEAN) /\ Len(run[k].oks) = k
                                /\ \A i \in 1 .. k : run[k].oks[i] = RunStatement(text[i], run[i - 1]).ok}
<1>0. n \in Nat
  OBVIOUS
<1>1. 0 \in T
  <2>1. run[0].oks = <<>> /\ <<>> \in Seq(BOOLEAN) /\ Len(<<>>) = 0 /\ 1 .. 0 = {} /\ 0 \in 0 .. n
    BY <1>0 DEF IsRun, Start
  <2> HIDE DEF n
  <2> QED
    BY <2>1
<1>2. ASSUME NEW k \in 1 .. n, k - 1 \in T PROVE k \in T
  <2> DEFINE ok == RunStatement(text[k], run[k - 1]).ok
             before == run[k - 1].oks
  <2>1. ok \in BOOLEAN
    BY DEF RunStatement
  <2>2. run[k].oks = Append(before, ok)
    <3>1. run[k] = After(text[k], run[k - 1])
      BY DEF IsRun
    <3> QED
      BY <3>1 DEF After
  <2>3. before \in Seq(BOOLEAN) /\ Len(before) = k - 1
    BY <1>2
  <2>4. \A i \in 1 .. k - 1 : before[i] = RunStatement(text[i], run[i - 1]).ok
    BY <1>2
  <2> HIDE DEF before, ok
  <2>5. /\ Append(before, ok) \in Seq(BOOLEAN) /\ Len(Append(before, ok)) = k
        /\ \A i \in 1 .. k - 1 : Append(before, ok)[i] = before[i]
        /\ Append(before, ok)[k] = ok
    BY <2>1, <2>3
  <2>6. \A i \in 1 .. k : i # k => i \in 1 .. k - 1
    OBVIOUS
  <2>7. \A i \in 1 .. k : run[k].oks[i] = RunStatement(text[i], run[i - 1]).ok
    BY <2>2, <2>4, <2>5, <2>6 DEF ok
  <2>8. k \in 0 .. n
    OBVIOUS
  <2> QED
    BY <2>2, <2>5, <2>7, <2>8
<1> HIDE DEF T
<1>3. n \in T
  <2>1. \A k \in 0 .. n : k \in T
    BY <1>0, <1>1, <1>2, UpTo
  <2> QED
    BY <1>0, <2>1
<1> QED
  BY <1>3 DEF IsRun, T

WrittenBy(text, k) == UNION {Writes(text[j]) : j \in 1 .. k}

(* What a tidy run has bound after k statements.                           *)
RunState(run, text, k) ==
  /\ run[k].unlocked = {}
  /\ IsFunction(run[k].env)
  /\ DOMAIN run[k].env = WrittenBy(text, k)
  /\ \A j \in 1 .. k : \A n \in Writes(text[j]) :
       run[k].env[n] = run[j].env[n] /\ Sound(run[k].env[n], Below(text, j))

(* A sound value is sound for more names.                                  *)
LEMMA SoundGrows ==
  ASSUME NEW v, NEW G, NEW H, Sound(v, G), G \subseteq H
  PROVE  Sound(v, H)
BY DEF Sound

(* A writer that succeeds binds its name to a sound value.                 *)
LEMMA WriterBinds ==
  ASSUME NEW s \in Statement, Plain(s), Writes(s) # {}, NEW in, in.unlocked = {},
         RunStatement(s, in).ok, Given(s, in) # <<"unbound">>
  PROVE  /\ RunStatement(s, in).unlocked = {}
         /\ RunStatement(s, in).env = Bind(in.env, s.name, Given(s, in))
         /\ Writes(s) = {s.name}
BY RunStatementGives

(* A bare expression leaves the interpreter as it was.                     *)
LEMMA NonWriterKeeps ==
  ASSUME NEW s \in Statement, Plain(s), Writes(s) = {}, NEW in, in.unlocked = {}
  PROVE  RunStatement(s, in).env = in.env /\ RunStatement(s, in).unlocked = {}
<1>1. s.kind = "expr"
  BY RunStatementGives
<1> QED
  BY <1>1, RunStatementGives

(* One more statement of a tidy text binds its own name, soundly, and      *)
(* leaves the others alone.                                                *)
LEMMA TidyStep ==
  ASSUME NEW text, IsTidy(text), NEW run, IsRun(run, text), NEW i \in DOMAIN text,
         NEW p \in Nat, 1 .. i = (1 .. p) \cup {i}, p < i,
         RunState(run, text, p), run[i] = After(text[i], run[p]),
         Writes(text[i]) # {} => RunStatement(text[i], run[p]).ok
  PROVE  RunState(run, text, i)
<1> DEFINE s == text[i]
           in == run[p]
           out == RunStatement(s, in)
<1>1. /\ i \in Nat /\ i \in 1 .. Len(text) /\ Len(text) \in Nat /\ DOMAIN text = 1 .. Len(text)
      /\ text \in Seq(Statement) /\ RunState(run, text, p)
  BY TidyStatements DEF IsTidy
<1>2. run[i].env = out.env /\ run[i].unlocked = out.unlocked
  <2>1. run[i] = After(s, in)
    BY <1>1 DEF IsRun
  <2> QED
    BY <2>1 DEF After
<1>3. \A j \in 1 .. i : j # i => j \in 1 .. p
  OBVIOUS
<1>4. WrittenBy(text, i) = WrittenBy(text, p) \cup Writes(s)
  <2>1. 1 .. i = (1 .. p) \cup {i}
    OBVIOUS
  <2> QED
    BY <2>1 DEF WrittenBy
<1>5. \A j \in 1 .. p : Writes(text[j]) \cap Writes(s) = {}
  <2>1. \A j \in 1 .. p : j # i /\ j \in DOMAIN text
    BY <1>1
  <2> QED
    BY <1>1, <2>1, TidyStatements
<1>6. Agree(in.env, in.env, Below(text, i))
  <2> SUFFICES ASSUME NEW m \in Below(text, i), m \in DOMAIN in.env
               PROVE  Sound(in.env[m], Below(text, i))
    BY DEF Agree
  <2>1. PICK j \in 1 .. p : m \in Writes(text[j])
    BY <1>1 DEF RunState, WrittenBy
  <2>2. Sound(in.env[m], Below(text, j))
    BY <1>1, <2>1 DEF RunState
  <2>3. Below(text, j) \subseteq Below(text, i)
    BY <1>1, BelowGrows
  <2> QED
    BY <2>2, <2>3, SoundGrows
<1>7. s \in Statement /\ (s.kind = "panic" \/ Plain(s)) /\ Reads(s) \subseteq Below(text, i) /\ in.unlocked = {}
      /\ Writes(s) \subseteq {s.name}
  BY <1>1, TidyStatements DEF RunState
<1>8. Writes(s) # {} => out.ok
  OBVIOUS
<1>0. out = RunStatement(s, in)
  OBVIOUS
<1> HIDE DEF s, in, out
<1>9. CASE Writes(s) = {}
  <2>1. out.env = in.env /\ out.unlocked = {}
    <3>1. CASE s.kind = "panic"
      BY <1>0, <1>7, <3>1, PanicBindsNothing
    <3>2. CASE Plain(s)
      BY <1>0, <1>7, <1>9, <3>2, NonWriterKeeps
    <3> QED
      BY <1>7, <3>1, <3>2
  <2> QED
    <3>1. run[i].unlocked = {} /\ run[i].env = run[p].env /\ Writes(text[i]) = {}
      BY <1>2, <1>9, <2>1 DEF s, in
    <3>2. DOMAIN run[i].env = WrittenBy(text, i)
      BY <1>1, <1>4, <3>1 DEF RunState, s
    <3>3. \A j \in 1 .. i : \A m \in Writes(text[j]) : j \in 1 .. p
      BY <1>3, <3>1
    <3>4. \A j \in 1 .. p : \A m \in Writes(text[j]) :
            run[i].env[m] = run[j].env[m] /\ Sound(run[i].env[m], Below(text, j))
      BY <1>1, <3>1 DEF RunState
    <3> QED
      BY <1>1, <3>1, <3>2, <3>3, <3>4 DEF RunState
<1>10. CASE Writes(s) # {}
  <2>1. Plain(s)
    BY <1>7, <1>10, PanicBindsNothing
  <2>2. /\ out.unlocked = {} /\ Writes(s) = {s.name}
        /\ \E v : Sound(v, Below(text, i)) /\ out.env = Bind(in.env, s.name, v)
    <3>1. out.ok
      BY <1>8, <1>10
    <3>2. Sound(Given(s, in), Below(text, i))
      BY <1>6, <1>7, <2>1, GivenAgrees
    <3>3. Given(s, in) # <<"unbound">>
      BY <3>2 DEF Sound
    <3>4. out.unlocked = {} /\ out.env = Bind(in.env, s.name, Given(s, in)) /\ Writes(s) = {s.name}
      BY <1>0, <1>7, <1>10, <2>1, <3>1, <3>3, WriterBinds
    <3> QED
      BY <3>2, <3>4
  <2>3. PICK v : Sound(v, Below(text, i)) /\ out.env = Bind(in.env, s.name, v)
    BY <2>2
  <2>4. /\ IsFunction(run[i].env)
        /\ DOMAIN run[i].env = DOMAIN in.env \cup {s.name}
        /\ run[i].env[s.name] = v
        /\ \A m \in DOMAIN in.env \ {s.name} : run[i].env[m] = in.env[m]
    <3>1. IsFunction(in.env)
      BY <1>1 DEF RunState, in
    <3> DEFINE after == Bind(in.env, s.name, v)
    <3>2. /\ IsFunction(after)
          /\ DOMAIN after = DOMAIN in.env \cup {s.name}
          /\ after[s.name] = v
          /\ \A m \in DOMAIN in.env \ {s.name} : after[m] = in.env[m]
      BY <3>1 DEF Bind, IsFunction
    <3>3. run[i].env = after
      BY <1>2, <2>3
    <3> QED
      BY <3>2, <3>3
  <2>5. DOMAIN run[i].env = WrittenBy(text, i)
    BY <1>1, <1>4, <2>2, <2>4 DEF RunState, in
  <2>6. ASSUME NEW j \in 1 .. i, NEW m \in Writes(text[j])
        PROVE  run[i].env[m] = run[j].env[m] /\ Sound(run[i].env[m], Below(text, j))
    <3>1. CASE j = i
      <4>1. m = s.name
        BY <2>2, <3>1 DEF s
      <4> QED
        BY <2>3, <2>4, <3>1, <4>1
    <3>2. CASE j # i
      <4>1. j \in 1 .. p
        BY <1>3, <3>2
      <4>2. m # s.name
        BY <1>5, <2>2, <4>1
      <4>3. m \in DOMAIN in.env
        BY <1>1, <4>1 DEF RunState, in, WrittenBy
      <4>4. run[i].env[m] = in.env[m]
        BY <2>4, <4>2, <4>3
      <4>5. in.env[m] = run[j].env[m] /\ Sound(in.env[m], Below(text, j))
        BY <1>1, <4>1 DEF RunState, in
      <4> QED
        BY <4>4, <4>5
    <3> QED
      BY <3>1, <3>2
  <2> QED
    BY <1>1, <1>2, <2>2, <2>4, <2>5, <2>6 DEF RunState
<1> QED
  BY <1>9, <1>10

(* ... hence the state after any number of statements.                     *)
LEMMA TidyRuns ==
  ASSUME NEW text, IsTidy(text), NEW run, IsRun(run, text), NEW k \in 0 .. Len(text)
  PROVE  RunState(run, text, k)
<1> DEFINE n == Len(text)
           T == {i \in 0 .. n : RunState(run, text, i)}
<1>0. n \in Nat /\ text \in Seq(Statement) /\ DOMAIN text = 1 .. n
  BY DEF IsTidy
<1>1. 0 \in T
  <2>1. run[0].env = <<>> /\ run[0].unlocked = {} /\ 1 .. 0 = {} /\ 0 \in 0 .. n
    BY <1>0 DEF IsRun, Start, NewInterpreter
  <2>2. DOMAIN <<>> = {} /\ IsFunction(<<>>)
    BY DEF IsFunction
  <2> QED
    BY <2>1, <2>2 DEF RunState, WrittenBy
<1>2. ASSUME NEW i \in 1 .. n, i - 1 \in T PROVE i \in T
  <2> DEFINE p == i - 1
  <2>1. p \in Nat /\ 1 .. i = (1 .. p) \cup {i} /\ p < i /\ i \in DOMAIN text /\ i \in 0 .. n
    BY <1>0
  <2>2. RunState(run, text, p) /\ run[i] = After(text[i], run[p])
    BY <1>0, <1>2 DEF IsRun
  <2>4. Writes(text[i]) # {} => RunStatement(text[i], run[p]).ok
    BY <1>0, <2>1, OksOfRun, TidyStatements
  <2> HIDE DEF p
  <2>3. RunState(run, text, i)
    BY <2>1, <2>2, <2>4, TidyStep
  <2> QED
    BY <2>1, <2>3
<1> HIDE DEF T
<1>3. k \in T
  BY <1>0, <1>1, <1>2, UpTo
<1> QED
  BY <1>3 DEF T

-----------------------------------------------------------------------------
(* The environment of the full run: every name written is bound, to a      *)
(* value that was made from what stands above its writer.                  *)
LEMMA FullRunBinds ==
  ASSUME NEW text, IsTidy(text)
  PROVE  /\ IsFunction(FullRun(text).env)
         /\ DOMAIN FullRun(text).env = AllWrites(text)
         /\ \A i \in DOMAIN text : \A n \in Writes(text[i]) :
              Sound(FullRun(text).env[n], Below(text, i))
<1>0. text \in Seq(Statement) /\ DOMAIN text = 1 .. Len(text) /\ Len(text) \in Nat
  BY DEF IsTidy
<1>1. PICK run : IsRun(run, text)
  BY <1>0, FullRunIsARun DEF IsRun
<1>2. RunState(run, text, Len(text)) /\ run[Len(text)] = FullRun(text)
  BY <1>0, <1>1, TidyRuns DEF IsRun
<1>3. WrittenBy(text, Len(text)) = AllWrites(text)
  BY <1>0 DEF WrittenBy, AllWrites
<1> QED
  BY <1>0, <1>2, <1>3 DEF RunState

(* A statement that finds what it reads as in the full run does what it    *)
(* does there, whatever else is bound.                                     *)
LEMMA RunsAsInFullRun ==
  ASSUME NEW text, IsTidy(text), NEW i \in DOMAIN text, text[i].kind # "panic",
         NEW in, in.unlocked = {}, Agree(in.env, FullRun(text).env, Below(text, i))
  PROVE  LET out == RunStatement(text[i], in)
         IN /\ out.ok = FullRun(text).oks[i]
            /\ out.unlocked = {}
            /\ Writes(text[i]) = {} => out.env = in.env
            /\ Writes(text[i]) # {} =>
                 /\ out.ok /\ Writes(text[i]) = {text[i].name}
                 /\ out.env = Bind(in.env, text[i].name, FullRun(text).env[text[i].name])
<1> DEFINE s == text[i]
           n == Len(text)
           final == FullRun(text)
           out == RunStatement(s, in)
<1>0. text \in Seq(Statement) /\ DOMAIN text = 1 .. n /\ n \in Nat /\ i \in 1 .. n /\ i - 1 \in 0 .. n
  BY DEF IsTidy
<1>1. PICK run : IsRun(run, text)
  BY <1>0, FullRunIsARun DEF IsRun
<1> DEFINE before == run[i - 1]
<1>2. RunState(run, text, i - 1) /\ RunState(run, text, i) /\ RunState(run, text, n) /\ run[n] = final
  BY <1>0, <1>1, TidyRuns DEF IsRun
<1>3. /\ s \in Statement /\ Plain(s) /\ Reads(s) \subseteq Below(text, i) /\ before.unlocked = {}
      /\ Writes(s) # {} => final.oks[i]
  BY <1>2, TidyStatements DEF RunState
<1>4. Agree(in.env, before.env, Below(text, i))
  <2> SUFFICES ASSUME NEW m \in Below(text, i)
               PROVE  /\ m \in DOMAIN before.env <=> m \in DOMAIN final.env
                      /\ m \in DOMAIN before.env => before.env[m] = final.env[m]
    BY DEF Agree
  <2>1. \A j \in 1 .. n : m \in Writes(text[j]) => j \in 1 .. i - 1
    BY <1>0 DEF Below
  <2>2. \A j \in 1 .. i - 1 : j \in 1 .. n
    BY <1>0
  <2>3. m \in DOMAIN before.env <=> m \in DOMAIN final.env
    <3>1. m \in WrittenBy(text, i - 1) <=> m \in WrittenBy(text, n)
      BY <2>1, <2>2 DEF WrittenBy
    <3> QED
      BY <1>2, <3>1 DEF RunState
  <2>4. ASSUME m \in DOMAIN before.env PROVE before.env[m] = final.env[m]
    <3>1. PICK j \in 1 .. i - 1 : m \in Writes(text[j])
      BY <1>2, <2>4 DEF RunState, WrittenBy
    <3>2. before.env[m] = run[j].env[m]
      BY <1>2, <3>1 DEF RunState
    <3>3. final.env[m] = run[j].env[m]
      BY <1>2, <2>2, <3>1 DEF RunState
    <3> QED
      BY <3>2, <3>3
  <2> QED
    BY <2>3, <2>4
<1> DEFINE there == RunStatement(s, before)
<1>5. final.oks[i] = there.ok
  BY <1>0, <1>1, OksOfRun
<1>6. run[i].env = there.env
  <2>1. run[i] = After(s, before)
    BY <1>0, <1>1 DEF IsRun
  <2> QED
    BY <2>1 DEF After
<1>9. out = RunStatement(s, in) /\ there = RunStatement(s, before)
  OBVIOUS
<1> HIDE DEF final, out, there, s, before
<1>7. CASE Writes(s) = {}
  <2>1. out.ok = there.ok /\ out.unlocked = {} /\ out.env = in.env
    BY <1>3, <1>4, <1>7, <1>9, StatementAgrees
  <2> QED
    BY <1>5, <1>7, <2>1 DEF final, s, out
<1>8. CASE Writes(s) # {}
  <2>1. /\ out.ok = there.ok /\ out.unlocked = {} /\ there.ok
        /\ \E v : /\ Writes(s) = {s.name}
                  /\ out.env = Bind(in.env, s.name, v)
                  /\ there.env = Bind(before.env, s.name, v)
    BY <1>3, <1>4, <1>5, <1>8, <1>9, StatementAgrees
  <2>2. PICK v : /\ Writes(s) = {s.name}
                 /\ out.env = Bind(in.env, s.name, v)
                 /\ there.env = Bind(before.env, s.name, v)
    BY <2>1
  <2>3. there.env[s.name] = v
    BY <2>2 DEF Bind
  <2>4. final.env[s.name] = run[i].env[s.name]
    BY <1>0, <1>2, <2>2 DEF RunState, s
  <2> QED
    BY <1>5, <1>6, <1>8, <2>1, <2>2, <2>3, <2>4 DEF final, s, out
<1> QED
  BY <1>7, <1>8

-----------------------------------------------------------------------------
(***************************************************************************)
(* The sweep over tidy texts marks the statements that depend on the edit  *)
(* and no others.                                                          *)
(***************************************************************************)

-----------------------------------------------------------------------------
(* The old position of an unchanged statement is outside the changed span  *)
(* of the old text.                                                        *)
LEMMA OldPositionUnchanged ==
  ASSUME NEW S, NEW old \in Seq(S), NEW new \in Seq(S),
         NEW i \in 1 .. Len(new), i \notin Changed(new, old, new)
  PROVE  OldIndex(old, new, i) \notin Changed(old, old, new)
<1> DEFINE p == PrefixLen(old, new)
           q == SuffixLen(old, new)
<1>1. Len(old) \in Nat /\ Len(new) \in Nat
  OBVIOUS
<1>2. p \in 0 .. Len(old) /\ q \in 0 .. Len(old)
  BY PrefixFound, SuffixFound
<1>3. i <= p \/ i > Len(new) - q
  BY <1>1, <1>2 DEF Changed
<1>4. /\ i <= p => OldIndex(old, new, i) = i
      /\ ~ (i <= p) => OldIndex(old, new, i) = (i + Len(old)) - Len(new)
  BY DEF OldIndex
<1>5. Changed(old, old, new) = p + 1 .. Len(old) - q
  BY DEF Changed
<1> HIDE DEF p, q
<1> QED
  BY <1>1, <1>2, <1>3, <1>4, <1>5

(* The changed span of either side lies in its text.                       *)
LEMMA ChangedInText ==
  ASSUME NEW S, NEW old \in Seq(S), NEW new \in Seq(S)
  PROVE  Changed(old, old, new) \subseteq 1 .. Len(old) /\ Changed(new, old, new) \subseteq 1 .. Len(new)
<1>1. PrefixLen(old, new) \in Nat /\ SuffixLen(old, new) \in Nat
  BY PrefixFound, SuffixFound
<1> QED
  BY <1>1 DEF Changed

(* In tidy texts only a statement of the changed span writes a touched     *)
(* name.                                                                   *)
LEMMA TouchedWritersChanged ==
  ASSUME NEW old, IsTidy(old), NEW new, IsTidy(new),
         NEW n \in TouchedNames(old, new), NEW i \in DOMAIN new, n \in Writes(new[i])
  PROVE  i \in Changed(new, old, new)
<1>0. /\ old \in Seq(Statement) /\ new \in Seq(Statement)
      /\ DOMAIN old = 1 .. Len(old) /\ DOMAIN new = 1 .. Len(new)
  BY DEF IsTidy
<1>1. SUFFICES ASSUME i \notin Changed(new, old, new) PROVE FALSE
  OBVIOUS
<1> DEFINE k == OldIndex(old, new, i)
<1>2. k \in DOMAIN old /\ old[k] = new[i]
  BY <1>0, <1>1, OldPosition
<1>3. k \notin Changed(old, old, new)
  BY <1>0, <1>1, OldPositionUnchanged
<1> HIDE DEF k
<1>4. ASSUME NEW j \in Changed(old, old, new), n \in Writes(old[j]) PROVE FALSE
  <2>1. j \in DOMAIN old /\ j # k
    BY <1>0, <1>3, ChangedInText
  <2>2. Writes(old[j]) \cap Writes(old[k]) = {}
    BY <1>2, <2>1, TidyStatements
  <2> QED
    BY <1>2, <1>4, <2>2
<1>5. ASSUME NEW j \in Changed(new, old, new), n \in Writes(new[j]) PROVE FALSE
  <2>1. j \in DOMAIN new /\ j # i
    BY <1>0, <1>1, ChangedInText
  <2>2. Writes(new[j]) \cap Writes(new[i]) = {}
    BY <2>1, TidyStatements
  <2> QED
    BY <1>5, <2>2
<1>6. \/ \E j \in Changed(old, old, new) : n \in Writes(old[j])
      \/ \E j \in Changed(new, old, new) : n \in Writes(new[j])
  BY DEF TouchedNames
<1> QED
  BY <1>4, <1>5, <1>6

(* ... so removing the touched names makes nothing dirty that the sweep    *)
(* has not marked.                                                         *)
LEMMA TidyDirtyIsSwept ==
  ASSUME NEW old, IsTidy(old), NEW new, IsTidy(new)
  PROVE  Dirty(old, new) = Sweep(old, new, TouchedNames(old, new)).dirty
<1>0. old \in Seq(Statement) /\ new \in Seq(Statement) /\ DOMAIN new = 1 .. Len(new)
  BY DEF IsTidy
<1> DEFINE touched == TouchedNames(old, new)
           sweep == Sweep(old, new, touched)
<1>1. ASSUME NEW n \in touched \cap DOMAIN sweep.lastWriter PROVE sweep.lastWriter[n] \in sweep.dirty
  <2> DEFINE i == sweep.lastWriter[n]
  <2>1. IsLastWriter(new, i, n, Len(new) + 1)
    BY <1>0, SweepIsLeast
  <2>2. i \in 1 .. Len(new) /\ n \in Writes(new[i])
    BY <1>0, <2>1 DEF IsLastWriter
  <2> HIDE DEF i
  <2>3. i \in Changed(new, old, new)
    BY <1>0, <2>2, TouchedWritersChanged
  <2>4. ClosedUnderReasons(sweep.dirty, new, Changed(new, old, new), touched)
    BY <1>0, SweepIsLeast
  <2> QED
    BY <2>2, <2>3, <2>4 DEF ClosedUnderReasons, HasReason, i
<1> QED
  BY <1>1 DEF Dirty

(* The rules of the sweep in a tidy text: it follows what is read.         *)
LEMMA TidySweep ==
  ASSUME NEW old, IsTidy(old), NEW new, IsTidy(new)
  PROVE  LET dirty == Dirty(old, new)
         IN /\ dirty \subseteq DOMAIN new
            /\ Changed(new, old, new) \subseteq dirty
            /\ \A i \in DOMAIN new : Reads(new[i]) \cap TouchedNames(old, new) # {} => i \in dirty
            /\ \A j \in dirty, i \in DOMAIN new : Reads(new[i]) \cap Writes(new[j]) # {} => i \in dirty
<1>0. old \in Seq(Statement) /\ new \in Seq(Statement) /\ DOMAIN new = 1 .. Len(new) /\ Len(new) \in Nat
  BY DEF IsTidy
<1> DEFINE dirty == Dirty(old, new)
           touched == TouchedNames(old, new)
<1>1. ClosedUnderReasons(dirty, new, Changed(new, old, new), touched)
  BY <1>0, TidyDirtyIsSwept, SweepIsLeast
<1>2. dirty \subseteq DOMAIN new
  BY <1>0, DirtyCoversChange
<1>3. Changed(new, old, new) \subseteq DOMAIN new
  BY <1>0, ChangedInText
<1> HIDE DEF dirty, touched
<1>4. ASSUME NEW j \in dirty, NEW i \in DOMAIN new, Reads(new[i]) \cap Writes(new[j]) # {}
      PROVE  i \in dirty
  <2>1. PICK n \in Reads(new[i]) : n \in Writes(new[j])
    BY <1>4
  <2>2. j < i /\ j \in 1 .. Len(new) /\ i \in 1 .. Len(new)
    BY <1>0, <1>2, <1>4, TidyStatements
  <2>3. \A k \in j + 1 .. i - 1 : n \notin Writes(new[k])
    <3>1. \A k \in j + 1 .. i - 1 : k \in DOMAIN new /\ k # j
      BY <1>0, <2>2
    <3>2. \A k \in j + 1 .. i - 1 : Writes(new[j]) \cap Writes(new[k]) = {}
      BY <1>2, <3>1, TidyStatements
    <3> QED
      BY <2>1, <3>2
  <2>4. IsLastWriter(new, j, n, i)
    BY <2>1, <2>2, <2>3 DEF IsLastWriter
  <2> QED
    BY <1>0, <1>1, <2>1, <2>4 DEF ClosedUnderReasons, HasReason
<1> QED
  BY <1>0, <1>1, <1>2, <1>3, <1>4 DEF ClosedUnderReasons, HasReason, dirty, touched

(* ... and it marks no more than any set closed under reading.             *)
LEMMA TidySweepIsLeast ==
  ASSUME NEW old, IsTidy(old), NEW new, IsTidy(new), NEW X \in SUBSET DOMAIN new,
         Changed(new, old, new) \subseteq X,
         \A i \in DOMAIN new : Reads(new[i]) \cap TouchedNames(old, new) # {} => i \in X,
         \A j \in X, i \in DOMAIN new : Reads(new[i]) \cap Writes(new[j]) # {} => i \in X
  PROVE  Dirty(old, new) \subseteq X
<1>0. old \in Seq(Statement) /\ new \in Seq(Statement) /\ DOMAIN new = 1 .. Len(new) /\ Len(new) \in Nat
  BY DEF IsTidy
<1>1. ASSUME NEW i \in 1 .. Len(new), NEW j \in X, NEW n \in Reads(new[i]) \cup Writes(new[i]),
             IsLastWriter(new, j, n, i)
      PROVE  i \in X
  <2>1. j \in DOMAIN new /\ i \in DOMAIN new /\ j < i /\ n \in Writes(new[j])
    BY <1>0, <1>1 DEF IsLastWriter
  <2>2. Writes(new[i]) \cap Writes(new[j]) = {}
    BY <1>0, <2>1, TidyStatements
  <2> QED
    BY <1>1, <2>1, <2>2
<1>2. ClosedUnderReasons(X, new, Changed(new, old, new), TouchedNames(old, new))
  BY <1>0, <1>1 DEF ClosedUnderReasons, HasReason
<1>3. Sweep(old, new, TouchedNames(old, new)).dirty \subseteq X
  BY <1>0, <1>2, SweepIsLeast
<1> QED
  BY <1>3, TidyDirtyIsSwept

-----------------------------------------------------------------------------
(* Reachability, one step of reading at a time.                            *)
Wave(new, X) ==
  X \cup {i \in DOMAIN new : \E j \in X : Reads(new[i]) \cap Writes(new[j]) # {}}

Spreads(f, roots, new, ks) == f = [k \in ks |-> IF k = 0 THEN roots ELSE Wave(new, f[k - 1])]

(* Dependents' recursion, one wave further,                                *)
LEMMA SpreadExtends ==
  ASSUME NEW roots, NEW new, NEW k \in Nat, k # 0, NEW f, Spreads(f, roots, new, 0 .. k - 1)
  PROVE  \E g : Spreads(g, roots, new, 0 .. k)
<1> DEFINE old == 0 .. k - 1
           all == 0 .. k
           g == [j \in all |-> IF j = k THEN Wave(new, f[k - 1]) ELSE f[j]]
<1>1. /\ k \in all /\ k \notin old
      /\ \A j \in all : j # k => j \in old
      /\ \A j \in all : j # 0 => j - 1 \in old /\ j - 1 \in all /\ j - 1 # k
  OBVIOUS
<1>2. \A j \in old : f[j] = IF j = 0 THEN roots ELSE Wave(new, f[j - 1])
  <2> HIDE DEF old
  <2> QED
    BY Zenon DEF Spreads, old
<1> HIDE DEF old, all
<1>3. \A j \in all : j # 0 => g[j - 1] = f[j - 1]
  BY <1>1
<1>4. \A j \in all : g[j] = IF j = k THEN Wave(new, f[k - 1]) ELSE f[j]
  OBVIOUS
<1> HIDE DEF g
<1>5. \A j \in all : g[j] = IF j = 0 THEN roots ELSE Wave(new, g[j - 1])
  <2> TAKE j \in all
  <2>1. CASE j = k
    BY <1>3, <1>4, <2>1
  <2>2. CASE j # k
    BY <1>1, <1>2, <1>3, <1>4, <2>2
  <2> QED
    BY <2>1, <2>2
<1> DEFINE h == [j \in all |-> IF j = 0 THEN roots ELSE Wave(new, g[j - 1])]
<1>6. h = g
  BY <1>5 DEF g
<1> QED
  BY <1>6, Zenon DEF Spreads, all

(* ... and for any number of waves.                                        *)
LEMMA SpreadExists ==
  ASSUME NEW roots, NEW new, NEW n \in Nat
  PROVE  \E f : Spreads(f, roots, new, 0 .. n)
<1> DEFINE Bad == {k \in Nat : ~ \E f : Spreads(f, roots, new, 0 .. k)}
<1>1. SUFFICES ASSUME Bad # {} PROVE FALSE
  OBVIOUS
<1>2. PICK k \in Bad : \A y \in Bad : k <= y
  BY <1>1, LeastNatural
<1>3. CASE k = 0
  <2> DEFINE one == 0 .. 0
             f == [j \in one |-> roots]
  <2>1. \A j \in one : j = 0
    OBVIOUS
  <2> HIDE DEF one
  <2>2. f = [j \in one |-> IF j = 0 THEN roots ELSE Wave(new, f[j - 1])]
    BY <2>1
  <2>3. Spreads(f, roots, new, one)
    BY <2>2, Zenon DEF Spreads
  <2> QED
    BY <1>2, <1>3, <2>3 DEF one
<1>4. CASE k # 0
  <2>1. k - 1 \in Nat /\ ~ (k <= k - 1)
    BY <1>4
  <2>2. PICK f : Spreads(f, roots, new, 0 .. k - 1)
    BY <1>2, <2>1
  <2> QED
    BY <1>2, <1>4, <2>2, SpreadExtends
<1> QED
  BY <1>3, <1>4

(* What must run again, as a sequence of growing sets.                     *)
LEMMA DependentsSpread ==
  ASSUME NEW old, NEW new \in Seq(Statement)
  PROVE  \E f : /\ f[0] = Changed(new, old, new)
                            \cup {i \in DOMAIN new : Reads(new[i]) \cap TouchedNames(old, new) # {}}
                /\ \A k \in 1 .. Len(new) : f[k] = Wave(new, f[k - 1])
                /\ f[Len(new)] = Dependents(old, new)
<1> DEFINE n == Len(new)
           ks == 0 .. n
           roots == Changed(new, old, new)
                      \cup {i \in DOMAIN new : Reads(new[i]) \cap TouchedNames(old, new) # {}}
           upTo == CHOOSE f : f = [k \in ks |-> IF k = 0 THEN roots ELSE Wave(new, f[k - 1])]
<1>0. n \in Nat
  OBVIOUS
<1>1. Dependents(old, new) = upTo[n]
  BY Zenon DEF Dependents, Wave
<1>2. Spreads(upTo, roots, new, ks)
  <2>1. \E f : Spreads(f, roots, new, ks)
    BY <1>0, SpreadExists
  <2> HIDE DEF roots, ks
  <2> QED
    BY <2>1, Zenon DEF Spreads
<1> HIDE DEF upTo, roots
<1>3. \A k \in ks : upTo[k] = IF k = 0 THEN roots ELSE Wave(new, upTo[k - 1])
  <2> HIDE DEF ks
  <2> QED
    BY <1>2, Zenon DEF Spreads
<1>4. 0 \in ks /\ \A k \in 1 .. n : k \in ks /\ k # 0
  BY <1>0
<1> HIDE DEF ks, n
<1>5. upTo[0] = roots
  BY <1>3, <1>4
<1>6. \A k \in 1 .. n : upTo[k] = Wave(new, upTo[k - 1])
  BY <1>3, <1>4
<1> QED
  BY <1>1, <1>5, <1>6, Zenon DEF n, roots

(* The waves only grow.                                                    *)
LEMMA WaveGrows ==
  ASSUME NEW n \in Nat, NEW new, NEW f, \A k \in 1 .. n : f[k] = Wave(new, f[k - 1]),
         NEW k \in 0 .. n, NEW j \in 0 .. k
  PROVE  f[j] \subseteq f[k]
<1> DEFINE T == {m \in 0 .. n : \A i \in 0 .. m : f[i] \subseteq f[m]}
<1>1. 0 \in T
  OBVIOUS
<1>2. ASSUME NEW m \in 1 .. n, m - 1 \in T PROVE m \in T
  <2>1. f[m - 1] \subseteq f[m]
    BY DEF Wave
  <2>2. \A i \in 0 .. m : i # m => i \in 0 .. m - 1
    OBVIOUS
  <2>3. \A i \in 0 .. m - 1 : f[i] \subseteq f[m - 1]
    BY <1>2
  <2>4. \A i \in 0 .. m : f[i] \subseteq f[m]
    BY <2>1, <2>2, <2>3
  <2> QED
    BY <2>4
<1> HIDE DEF T
<1>3. k \in T
  BY <1>1, <1>2, UpTo
<1> QED
  BY <1>3 DEF T

(* In tidy texts the sweep marks the statements that depend on the edit    *)
(* and no others.                                                          *)
LEMMA DirtyAreDependents ==
  ASSUME NEW old, IsTidy(old), NEW new, IsTidy(new)
  PROVE  Dirty(old, new) = Dependents(old, new)
<1> DEFINE n == Len(new)
           dirty == Dirty(old, new)
<1>0. new \in Seq(Statement) /\ DOMAIN new = 1 .. n /\ n \in Nat
  BY DEF IsTidy
<1>1. PICK f : /\ f[0] = Changed(new, old, new)
                           \cup {i \in DOMAIN new : Reads(new[i]) \cap TouchedNames(old, new) # {}}
               /\ \A k \in 1 .. Len(new) : f[k] = Wave(new, f[k - 1])
               /\ f[Len(new)] = Dependents(old, new)
  BY <1>0, DependentsSpread
<1>2. \A k \in 0 .. n, j \in 0 .. n : j <= k => f[j] \subseteq f[k]
  <2> TAKE k \in 0 .. n, j \in 0 .. n
  <2>1. j <= k => j \in 0 .. k
    OBVIOUS
  <2> QED
    BY <1>0, <1>1, <2>1, WaveGrows
<1>3. dirty \subseteq f[n]
  <2> DEFINE X == {i \in DOMAIN new : i \in f[i]}
  <2>1. f[0] \cap DOMAIN new \subseteq X
    <3> SUFFICES ASSUME NEW i \in DOMAIN new, i \in f[0] PROVE i \in f[i]
      OBVIOUS
    <3>1. i \in 0 .. n /\ 0 \in 0 .. n /\ 0 <= i
      BY <1>0
    <3> QED
      BY <1>2, <3>1
  <2>2. Changed(new, old, new) \subseteq DOMAIN new
    BY <1>0, ChangedInText DEF IsTidy
  <2>3. ASSUME NEW j \in X, NEW i \in DOMAIN new, Reads(new[i]) \cap Writes(new[j]) # {}
        PROVE  i \in X
    <3>1. j \in DOMAIN new /\ j \in f[j]
      OBVIOUS
    <3>2. j < i
      BY <2>3, <3>1, TidyStatements
    <3>3. i \in 1 .. n /\ j \in 0 .. n /\ i - 1 \in 0 .. n /\ j <= i - 1
      BY <1>0, <3>1, <3>2
    <3>4. j \in f[i - 1]
      BY <1>2, <3>1, <3>3
    <3>5. f[i] = Wave(new, f[i - 1])
      BY <1>1, <3>3
    <3>6. i \in f[i]
      BY <2>3, <3>4, <3>5 DEF Wave
    <3> QED
      BY <3>6
  <2>4. X \subseteq f[n]
    <3> SUFFICES ASSUME NEW i \in DOMAIN new, i \in f[i] PROVE i \in f[n]
      OBVIOUS
    <3>1. i \in 0 .. n /\ n \in 0 .. n /\ i <= n
      BY <1>0
    <3> QED
      BY <1>2, <3>1
  <2>5. X \in SUBSET DOMAIN new
    OBVIOUS
  <2> HIDE DEF X
  <2>6. /\ Changed(new, old, new) \subseteq X
        /\ \A i \in DOMAIN new : Reads(new[i]) \cap TouchedNames(old, new) # {} => i \in X
    BY <1>1, <2>1, <2>2
  <2>7. dirty \subseteq X
    BY <2>3, <2>5, <2>6, TidySweepIsLeast
  <2> QED
    BY <2>4, <2>7
<1>4. f[n] \subseteq dirty
  <2> DEFINE T == {k \in 0 .. n : f[k] \subseteq dirty}
  <2>0. /\ Changed(new, old, new) \subseteq dirty
        /\ \A i \in DOMAIN new : Reads(new[i]) \cap TouchedNames(old, new) # {} => i \in dirty
        /\ \A j \in dirty, i \in DOMAIN new : Reads(new[i]) \cap Writes(new[j]) # {} => i \in dirty
    BY TidySweep
  <2> HIDE DEF dirty
  <2>1. 0 \in T
    <3>1. f[0] \subseteq dirty
      BY <1>1, <2>0
    <3> QED
      BY <1>0, <3>1
  <2>2. ASSUME NEW k \in 1 .. n, k - 1 \in T PROVE k \in T
    <3>1. f[k] = Wave(new, f[k - 1]) /\ f[k - 1] \subseteq dirty
      BY <1>1, <2>2
    <3>2. f[k] \subseteq dirty
      BY <2>0, <3>1 DEF Wave
    <3> QED
      BY <3>2
  <2>3. n \in 0 .. n
    BY <1>0
  <2> HIDE DEF T
  <2>4. n \in T
    BY <1>0, <2>1, <2>2, <2>3, UpTo
  <2> QED
    BY <2>4 DEF T
<1> QED
  BY <1>1, <1>3, <1>4

-----------------------------------------------------------------------------
(***************************************************************************)
(* A statement that the sweep leaves clean does in the full run of the new *)
(* text what it did in that of the old one.                                *)
(***************************************************************************)

-----------------------------------------------------------------------------
(* The full run's bindings, as far as a statement can see them, are sound. *)
LEMMA FullRunSound ==
  ASSUME NEW text, IsTidy(text), NEW i \in DOMAIN text
  PROVE  Agree(FullRun(text).env, FullRun(text).env, Below(text, i))
<1> DEFINE env == FullRun(text).env
<1>1. /\ DOMAIN env = AllWrites(text)
      /\ \A j \in DOMAIN text : \A n \in Writes(text[j]) : Sound(env[n], Below(text, j))
  BY FullRunBinds
<1> HIDE DEF env
<1>2. SUFFICES ASSUME NEW n \in Below(text, i), n \in DOMAIN env
               PROVE  Sound(env[n], Below(text, i))
  BY DEF Agree, env
<1>3. PICK j \in DOMAIN text : n \in Writes(text[j])
  BY <1>1, <1>2 DEF AllWrites
<1>4. j < i /\ j \in Nat /\ i \in Nat
  BY <1>2, <1>3, TidyStatements DEF Below
<1>5. Below(text, j) \subseteq Below(text, i)
  BY <1>4, BelowGrows
<1> QED
  BY <1>1, <1>3, <1>5, SoundGrows

(* The names that a statement before i may look up without noticing the    *)
(* edit: no side of the change writes them and no statement that runs      *)
(* again does.                                                             *)
Unaffected(old, new, i) ==
  {n \in Below(new, i) :
     /\ n \notin TouchedNames(old, new)
     /\ \A j \in DOMAIN new : n \in Writes(new[j]) => j \notin Dirty(old, new)}

(* A clean statement does in the full run of the new text what it did in   *)
(* that of the old one.                                                    *)
Carries(old, new, i) ==
  /\ FullRun(old).oks[OldIndex(old, new, i)] = FullRun(new).oks[i]
  /\ \A n \in Writes(new[i]) :
       /\ FullRun(old).env[n] = FullRun(new).env[n]
       /\ Sound(FullRun(new).env[n], Unaffected(old, new, i))

(* The full runs of the old and the new text agree on the unaffected       *)
(* names.                                                                  *)
LEMMA UnaffectedAgree ==
  ASSUME NEW old, IsTidy(old), NEW new, IsTidy(new), NEW i \in DOMAIN new,
         \A j \in DOMAIN new : j < i /\ j \notin Dirty(old, new) => Carries(old, new, j)
  PROVE  Agree(FullRun(old).env, FullRun(new).env, Unaffected(old, new, i))
<1> DEFINE before == FullRun(old).env
           after == FullRun(new).env
           G == Unaffected(old, new, i)
<1>0. old \in Seq(Statement) /\ new \in Seq(Statement) /\ DOMAIN new = 1 .. Len(new)
  BY DEF IsTidy
<1>1. DOMAIN before = AllWrites(old) /\ DOMAIN after = AllWrites(new)
  BY FullRunBinds
<1> HIDE DEF before, after
<1>2. ASSUME NEW n \in G, n \in AllWrites(new)
      PROVE  n \in AllWrites(old) /\ before[n] = after[n] /\ Sound(before[n], G)
  <2>1. PICK j \in DOMAIN new : n \in Writes(new[j])
    BY <1>2 DEF AllWrites
  <2>2. j < i /\ j \in Nat /\ i \in Nat /\ j \notin Dirty(old, new)
    BY <2>1, TidyStatements DEF Unaffected, Below
  <2>3. Carries(old, new, j)
    BY <2>2
  <2>4. before[n] = after[n] /\ Sound(before[n], Unaffected(old, new, j))
    BY <2>1, <2>3 DEF Carries, before, after
  <2>5. Unaffected(old, new, j) \subseteq G
    <3>1. Below(new, j) \subseteq Below(new, i)
      BY <2>2, BelowGrows
    <3> QED
      BY <3>1 DEF Unaffected
  <2>6. n \in AllWrites(old)
    <3>1. j \notin Changed(new, old, new)
      BY <1>0, <2>2, DirtyCoversChange
    <3>2. OldIndex(old, new, j) \in 1 .. Len(old) /\ old[OldIndex(old, new, j)] = new[j]
      BY <1>0, <3>1, OldPosition
    <3> QED
      BY <1>0, <2>1, <3>2 DEF AllWrites
  <2> QED
    BY <2>4, <2>5, <2>6, SoundGrows
<1>3. ASSUME NEW n \in G, n \in AllWrites(old)
      PROVE  n \in AllWrites(new)
  <2>1. n \notin TouchedNames(old, new)
    BY DEF Unaffected
  <2> QED
    BY <1>0, <1>3, <2>1, SurvivorsAreWritten
<1> QED
  BY <1>1, <1>2, <1>3 DEF Agree, before, after

(* A clean statement carries if the clean ones above it do,                *)
LEMMA CarriesStep ==
  ASSUME NEW old, IsTidy(old), NEW new, IsTidy(new),
         \A k \in DOMAIN old : old[k].kind # "panic",
         NEW i \in DOMAIN new, i \notin Dirty(old, new),
         \A j \in DOMAIN new : j < i /\ j \notin Dirty(old, new) => Carries(old, new, j)
  PROVE  Carries(old, new, i)
<1> DEFINE s == new[i]
           k == OldIndex(old, new, i)
           G == Unaffected(old, new, i)
           a == [env |-> FullRun(old).env, unlocked |-> {}]
           b == [env |-> FullRun(new).env, unlocked |-> {}]
           x == RunStatement(s, a)
           y == RunStatement(s, b)
<1>0. old \in Seq(Statement) /\ new \in Seq(Statement) /\ DOMAIN new = 1 .. Len(new) /\ DOMAIN old = 1 .. Len(old)
  BY DEF IsTidy
<1>1. k \in DOMAIN old /\ old[k] = s
  <2>1. i \notin Changed(new, old, new)
    BY <1>0, DirtyCoversChange
  <2> QED
    BY <1>0, <2>1, OldPosition
<1>2. s \in Statement /\ s.kind # "panic" /\ Plain(s) /\ Reads(s) \subseteq Below(new, i)
  BY <1>1, TidyStatements
<1>3. Reads(s) \subseteq G
  <2>1. Reads(s) \cap TouchedNames(old, new) = {}
    BY <1>0, CleanReadsNothingTouched
  <2>2. \A j \in DOMAIN new : j \in Dirty(old, new) => Reads(s) \cap Writes(new[j]) = {}
    BY TidySweep
  <2> QED
    BY <1>2, <2>1, <2>2 DEF Unaffected
<1>4. Agree(a.env, b.env, G)
  BY UnaffectedAgree
<1>5. /\ a.unlocked = {} /\ Agree(a.env, FullRun(old).env, Below(old, k))
      /\ b.unlocked = {} /\ Agree(b.env, FullRun(new).env, Below(new, i))
  BY <1>1, FullRunSound
<1>10. x = RunStatement(s, a) /\ y = RunStatement(s, b) /\ s = new[i]
       /\ a.env = FullRun(old).env /\ b.env = FullRun(new).env
  OBVIOUS
<1> HIDE DEF a, b, x, y, s, k, G
<1>6. /\ x.ok = FullRun(old).oks[k]
      /\ Writes(s) # {} => /\ x.ok /\ Writes(s) = {s.name}
                           /\ x.env = Bind(a.env, s.name, FullRun(old).env[s.name])
  BY <1>1, <1>2, <1>5, <1>10, RunsAsInFullRun
<1>7. /\ y.ok = FullRun(new).oks[i]
      /\ Writes(s) # {} => /\ y.ok /\ Writes(s) = {s.name}
                           /\ y.env = Bind(b.env, s.name, FullRun(new).env[s.name])
  BY <1>2, <1>5, <1>10, RunsAsInFullRun
<1>8. /\ x.ok = y.ok
      /\ x.ok /\ Writes(s) # {} =>
           \E v : /\ Sound(v, G)
                  /\ x.env = Bind(a.env, s.name, v)
                  /\ y.env = Bind(b.env, s.name, v)
  <2> DEFINE v == Given(s, a)
  <2>1. Given(s, b) = v /\ Sound(v, G)
    BY <1>2, <1>3, <1>4, <1>5, GivenAgrees
  <2>2. v # <<"unbound">>
    BY <2>1 DEF Sound
  <2>3. x.ok = (v # Err) /\ y.ok = (v # Err)
    BY <1>2, <1>5, <1>10, <2>1, RunStatementGives
  <2> HIDE DEF v
  <2>4. ASSUME x.ok, Writes(s) # {}
        PROVE  x.env = Bind(a.env, s.name, v) /\ y.env = Bind(b.env, s.name, v)
    <3>1. x.env = Bind(a.env, s.name, v)
      BY <1>2, <1>5, <1>10, <2>2, <2>4, WriterBinds DEF v
    <3>2. y.env = Bind(b.env, s.name, v)
      BY <1>2, <1>5, <1>10, <2>1, <2>2, <2>3, <2>4, WriterBinds DEF v
    <3> QED
      BY <3>1, <3>2
  <2> QED
    BY <2>1, <2>3, <2>4
<1>9. ASSUME NEW n \in Writes(s)
      PROVE  FullRun(old).env[n] = FullRun(new).env[n] /\ Sound(FullRun(new).env[n], G)
  <2>1. n = s.name
    BY <1>6, <1>9
  <2>2. PICK v : /\ Sound(v, G)
                 /\ x.env = Bind(a.env, s.name, v)
                 /\ y.env = Bind(b.env, s.name, v)
    BY <1>6, <1>8, <1>9
  <2>3. \A e, w : Bind(e, s.name, w)[s.name] = w
    BY DEF Bind
  <2>4. /\ x.env[s.name] = v /\ x.env[s.name] = FullRun(old).env[s.name]
        /\ y.env[s.name] = v /\ y.env[s.name] = FullRun(new).env[s.name]
    BY <1>6, <1>7, <1>9, <2>2, <2>3
  <2> QED
    BY <2>1, <2>2, <2>4
<1> QED
  BY <1>6, <1>7, <1>8, <1>9 DEF Carries, k, s, G

(* ... so all clean statements do: induction down the text.                *)
LEMMA CleanStatementsCarry ==
  ASSUME NEW old, IsTidy(old), NEW new, IsTidy(new),
         \A k \in DOMAIN old : old[k].kind # "panic",
         NEW i \in DOMAIN new, i \notin Dirty(old, new)
  PROVE  Carries(old, new, i)
<1> DEFINE Bad == {j \in DOMAIN new : j \notin Dirty(old, new) /\ ~ Carries(old, new, j)}
<1>1. SUFFICES ASSUME Bad # {} PROVE FALSE
  OBVIOUS
<1>2. \A j \in DOMAIN new : j \in Nat
  BY TidyStatements
<1>3. PICK j \in Bad : \A m \in Bad : j <= m
  <2>1. Bad \subseteq Nat
    BY <1>2
  <2> HIDE DEF Bad
  <2> QED
    BY <1>1, <2>1, LeastNatural
<1>4. \A m \in DOMAIN new : m < j /\ m \notin Dirty(old, new) => Carries(old, new, m)
  BY <1>2, <1>3
<1> QED
  BY <1>3, <1>4, CarriesStep

-----------------------------------------------------------------------------
(***************************************************************************)
(* The cache is invisible: the inductive invariant and its steps.          *)
(***************************************************************************)

-----------------------------------------------------------------------------
(* One message per kept slot: lists of slots that are empty at the same    *)
(* places and say the same elsewhere give the same messages.               *)
LEMMA MessagesOfFlatten ==
  ASSUME NEW n \in Nat, NEW slots, DOMAIN slots = 1 .. n, NEW told, DOMAIN told = 1 .. n,
         \A i \in 1 .. n : slots[i] = NoDiagnostic <=> told[i] = NoDiagnostic,
         \A i \in 1 .. n : slots[i] # NoDiagnostic => slots[i].message = told[i]
  PROVE  [i \in DOMAIN Flatten(slots) |-> Flatten(slots)[i].message] = Flatten(told)
<1> DEFINE S == {slots[i] : i \in 1 .. n}
           M == {told[i] : i \in 1 .. n}
<1>1. PICK a : /\ a[0] = <<>>
               /\ \A k \in 1 .. n : a[k] = Keep(slots[k], a[k - 1])
               /\ a[n] = Flatten(slots)
  BY FlattenIsARun
<1>2. PICK b : /\ b[0] = <<>>
               /\ \A k \in 1 .. n : b[k] = Keep(told[k], b[k - 1])
               /\ b[n] = Flatten(told)
  BY FlattenIsARun
<1> DEFINE Same(x, y) == /\ x \in Seq(S) /\ y \in Seq(M) /\ Len(x) = Len(y)
                         /\ \A i \in 1 .. Len(x) : x[i].message = y[i]
           T == {k \in 0 .. n : Same(a[k], b[k])}
<1>3. 0 \in T
  <2>1. /\ <<>> \in Seq(S) /\ <<>> \in Seq(M) /\ Len(<<>>) = 0 /\ 1 .. 0 = {} /\ 0 \in 0 .. n
        /\ a[0] = <<>> /\ b[0] = <<>>
    BY <1>1, <1>2
  <2> HIDE DEF S, M
  <2> QED
    BY <2>1
<1>4. ASSUME NEW k \in 1 .. n, k - 1 \in T PROVE k \in T
  <2> DEFINE x == a[k - 1]
             y == b[k - 1]
             d == slots[k]
             m == told[k]
  <2>1. a[k] = Keep(d, x) /\ b[k] = Keep(m, y) /\ d \in S /\ m \in M /\ Same(x, y)
    BY <1>1, <1>2, <1>4
  <2>2. /\ d = NoDiagnostic <=> m = NoDiagnostic
        /\ d # NoDiagnostic => d.message = m
    OBVIOUS
  <2>3. k \in 0 .. n
    OBVIOUS
  <2> HIDE DEF d, m, x, y, S, M
  <2>4. CASE d = NoDiagnostic
    <3>1. a[k] = x /\ b[k] = y
      BY <2>1, <2>2, <2>4 DEF Keep
    <3> QED
      BY <2>1, <2>3, <3>1
  <2>5. CASE d # NoDiagnostic
    <3>1. a[k] = Append(x, d) /\ b[k] = Append(y, m)
      BY <2>1, <2>2, <2>5 DEF Keep
    <3>2. d.message = m
      BY <2>2, <2>5
    <3>3. Same(Append(x, d), Append(y, m))
      BY <2>1, <3>2
    <3> QED
      BY <2>3, <3>1, <3>3
  <2> QED
    BY <2>4, <2>5
<1>5. n \in T
  <2> HIDE DEF T
  <2>1. \A k \in 0 .. n : k \in T
    BY <1>3, <1>4, UpTo
  <2> QED
    BY <2>1
<1>6. Same(Flatten(slots), Flatten(told))
  BY <1>1, <1>2, <1>5
<1> HIDE DEF S, M
<1> QED
  BY <1>6

-----------------------------------------------------------------------------
(* What has been run of x is as in a full run of its text.                 *)
AsInFullRun(x, todo) ==
  /\ IsTidy(x.statements)
  /\ x.unlocked = {}
  /\ \A i \in DOMAIN x.statements : i \notin todo =>
       /\ x.statements[i].kind # "panic"
       /\ \A n \in Writes(x.statements[i]) :
            n \in DOMAIN x.env /\ x.env[n] = FullRun(x.statements).env[n]
       /\ x.diagnostics[i] = NoDiagnostic <=> FullRun(x.statements).oks[i]

StatesAgree ==
  /\ \A u \in DOMAIN docStates : AsInFullRun(docStates[u], {})
  /\ AsInFullRun(work, work.todo)

Answered(u) == PublishedMessages[u] = Report(documents[u])

TidyTexts == \A text \in Texts \ {Unparsable} : Tidy(text)

(* Nothing has run, nothing can differ.                                    *)
LEMMA EmptyAgrees == AsInFullRun(EmptyState, {}) /\ AsInFullRun(NoWork, NoWork.todo)
<1>1. DOMAIN <<>> = {}
  OBVIOUS
<1> QED
  BY <1>1, EmptyIsTidy DEF AsInFullRun, EmptyState, NoWork, NewInterpreter

(* A cached environment is that of the full run, whole.                    *)
LEMMA CachedEnvIsWhole ==
  ASSUME NEW x, IsCache(x), AsInFullRun(x, {})
  PROVE  x.env = FullRun(x.statements).env
<1> DEFINE full == FullRun(x.statements).env
<1>1. IsTidy(x.statements) /\ IsFunction(x.env) /\ DOMAIN x.env \subseteq AllWrites(x.statements)
  BY DEF IsCache, AsInFullRun
<1>2. IsFunction(full) /\ DOMAIN full = AllWrites(x.statements)
  BY <1>1, FullRunBinds
<1>3. \A n \in AllWrites(x.statements) : n \in DOMAIN x.env /\ x.env[n] = full[n]
  BY DEF AllWrites, AsInFullRun
<1> HIDE DEF full
<1>4. DOMAIN x.env = DOMAIN full
  BY <1>1, <1>2, <1>3
<1>5. [n \in DOMAIN x.env |-> x.env[n]] = [n \in DOMAIN full |-> full[n]]
  BY <1>2, <1>3, <1>4
<1> QED
  BY <1>1, <1>2, <1>5, Zenon DEF IsFunction, full

(* The diagnostics of a cached state give the report of its text.          *)
LEMMA CachedReport ==
  ASSUME NEW x, IsCache(x), AsInFullRun(x, {})
  PROVE  /\ \A i \in DOMAIN x.statements : x.statements[i].kind # "panic"
         /\ [i \in DOMAIN Flatten(x.diagnostics) |-> Flatten(x.diagnostics)[i].message]
              = Failures(x.statements)
<1> DEFINE text == x.statements
           n == Len(text)
           slots == x.diagnostics
           oks == FullRun(text).oks
           told == [i \in DOMAIN text |-> IF oks[i] THEN NoDiagnostic ELSE <<"failed", text[i]>>]
<1>1. /\ text \in Seq(Statement) /\ n \in Nat /\ DOMAIN text = 1 .. n
      /\ DOMAIN slots = 1 .. n /\ DOMAIN told = 1 .. n
  BY DEF IsCache
<1>2. /\ \A i \in DOMAIN text : text[i].kind # "panic"
      /\ \A i \in 1 .. n : slots[i] = NoDiagnostic <=> oks[i]
      /\ \A i \in 1 .. n : slots[i] # NoDiagnostic => slots[i].message = <<"failed", text[i]>>
  BY <1>1 DEF AsInFullRun, IsCache
<1>3. \A i \in 1 .. n : <<"failed", text[i]>> # NoDiagnostic
  BY <1>1, LspAssumption
<1>4. \A i \in 1 .. n : told[i] = IF oks[i] THEN NoDiagnostic ELSE <<"failed", text[i]>>
  BY <1>1
<1>5. Failures(text) = Flatten(told)
  BY DEF Failures
<1> HIDE DEF told, text, n, slots, oks
<1>6. /\ \A i \in 1 .. n : slots[i] = NoDiagnostic <=> told[i] = NoDiagnostic
      /\ \A i \in 1 .. n : slots[i] # NoDiagnostic => slots[i].message = told[i]
  BY <1>2, <1>3, <1>4
<1>7. [i \in DOMAIN Flatten(slots) |-> Flatten(slots)[i].message] = Flatten(told)
  BY <1>1, <1>6, MessagesOfFlatten
<1> QED
  BY <1>2, <1>5, <1>7 DEF slots, text

-----------------------------------------------------------------------------
(* A new text starts with every clean statement as in its full run.        *)
LEMMA CarriedAgree ==
  ASSUME NEW x, IsCache(x), AsInFullRun(x, {}), NEW text, IsTidy(text), NEW y,
         y.statements = text, y.unlocked = x.unlocked,
         y.env = Unbind(x.env, TouchedNames(x.statements, text)),
         y.diagnostics = CarriedDiagnostics(x.statements, text, Dirty(x.statements, text), x.diagnostics)
  PROVE  AsInFullRun(y, Dirty(x.statements, text))
<1> DEFINE old == x.statements
           dirty == Dirty(old, text)
<1>1. IsTidy(old) /\ old \in Seq(Statement) /\ text \in Seq(Statement)
      /\ DOMAIN old = 1 .. Len(old) /\ DOMAIN text = 1 .. Len(text) /\ x.unlocked = {}
      /\ DOMAIN x.diagnostics = 1 .. Len(old)
  BY DEF IsTidy, AsInFullRun, IsCache
<1>2. \A k \in DOMAIN old : old[k].kind # "panic"
  BY DEF AsInFullRun
<1>3. ASSUME NEW i \in DOMAIN text, i \notin dirty
      PROVE  /\ text[i].kind # "panic"
             /\ \A n \in Writes(text[i]) : n \in DOMAIN y.env /\ y.env[n] = FullRun(text).env[n]
             /\ y.diagnostics[i] = NoDiagnostic <=> FullRun(text).oks[i]
  <2> DEFINE k == OldIndex(old, text, i)
  <2>1. i \notin Changed(text, old, text)
    BY <1>1, <1>3, DirtyCoversChange
  <2>2. k \in DOMAIN old /\ old[k] = text[i]
    BY <1>1, <2>1, OldPosition
  <2>3. Carries(old, text, i)
    BY <1>1, <1>2, <1>3, CleanStatementsCarry
  <2>4. y.diagnostics[i] = x.diagnostics[k]
    BY <1>1, <1>3, <2>2 DEF CarriedDiagnostics
  <2>5. x.diagnostics[k] = NoDiagnostic <=> FullRun(old).oks[k]
    BY <2>2 DEF AsInFullRun
  <2>6. ASSUME NEW n \in Writes(text[i])
        PROVE  n \in DOMAIN y.env /\ y.env[n] = FullRun(text).env[n]
    <3>1. n \in DOMAIN x.env /\ x.env[n] = FullRun(old).env[n]
      BY <2>2, <2>6 DEF AsInFullRun
    <3>2. n \notin TouchedNames(old, text)
      BY <1>1, <2>1, <2>6, TouchedWritersChanged
    <3>3. n \in DOMAIN y.env /\ y.env[n] = x.env[n]
      BY <3>1, <3>2 DEF Unbind
    <3> QED
      BY <2>3, <2>6, <3>1, <3>3 DEF Carries
  <2> QED
    BY <1>2, <2>2, <2>3, <2>4, <2>5, <2>6 DEF Carries
<1> QED
  BY <1>1, <1>3 DEF AsInFullRun

(* The first statement left to run finds what it reads as in the full run. *)
LEMMA NextRunsAsInFullRun ==
  ASSUME NEW x, IsCache(x), NEW todo, AsInFullRun(x, todo), NEW i \in DOMAIN x.statements,
         \A k \in todo : i <= k, x.statements[i].kind # "panic",
         NEW out, out = RunStatement(x.statements[i], x),
         NEW y, y.statements = x.statements, y.env = out.env, y.unlocked = out.unlocked,
         y.diagnostics[i] = NoDiagnostic <=> out.ok,
         \A k \in DOMAIN x.statements : k # i => y.diagnostics[k] = x.diagnostics[k]
  PROVE  AsInFullRun(y, todo \ {i})
<1> DEFINE text == x.statements
           full == FullRun(text)
<1>1. IsTidy(text) /\ x.unlocked = {} /\ IsFunction(x.env) /\ DOMAIN x.env \subseteq AllWrites(text)
  BY DEF AsInFullRun, IsCache
<1>2. Agree(x.env, full.env, Below(text, i))
  <2>1. DOMAIN full.env = AllWrites(text) /\ Agree(full.env, full.env, Below(text, i))
    BY <1>1, FullRunBinds, FullRunSound
  <2>2. ASSUME NEW n \in Below(text, i), n \in AllWrites(text)
        PROVE  n \in DOMAIN x.env /\ x.env[n] = full.env[n]
    <3>1. PICK j \in DOMAIN text : n \in Writes(text[j])
      BY <2>2 DEF AllWrites
    <3>2. j < i /\ j \in Nat /\ i \in Nat
      BY <1>1, <2>2, <3>1, TidyStatements DEF Below
    <3>3. j \notin todo
      BY <3>2
    <3> QED
      BY <3>1, <3>3 DEF AsInFullRun
  <2> HIDE DEF full, text
  <2> QED
    BY <1>1, <2>1, <2>2 DEF Agree
<1>3. /\ out.ok = full.oks[i]
      /\ out.unlocked = {}
      /\ Writes(text[i]) = {} => out.env = x.env
      /\ Writes(text[i]) # {} =>
           /\ out.ok /\ Writes(text[i]) = {text[i].name}
           /\ out.env = Bind(x.env, text[i].name, full.env[text[i].name])
  BY <1>1, <1>2, RunsAsInFullRun
<1>4. ASSUME NEW k \in DOMAIN text, k \notin todo \ {i}
      PROVE  /\ text[k].kind # "panic"
             /\ \A n \in Writes(text[k]) : n \in DOMAIN out.env /\ out.env[n] = full.env[n]
             /\ y.diagnostics[k] = NoDiagnostic <=> full.oks[k]
  <2>1. CASE k = i
    <3>1. \A n \in Writes(text[k]) : n \in DOMAIN out.env /\ out.env[n] = full.env[n]
      BY <1>3, <2>1 DEF Bind
    <3> QED
      BY <1>3, <2>1, <3>1
  <2>2. CASE k # i
    <3>1. /\ text[k].kind # "panic"
          /\ \A n \in Writes(text[k]) : n \in DOMAIN x.env /\ x.env[n] = full.env[n]
          /\ x.diagnostics[k] = NoDiagnostic <=> full.oks[k]
      BY <1>4, <2>2 DEF AsInFullRun
    <3>2. Writes(text[k]) \cap Writes(text[i]) = {}
      BY <1>1, <2>2, TidyStatements
    <3>3. \A n \in Writes(text[k]) : n \in DOMAIN out.env /\ out.env[n] = x.env[n]
      BY <1>3, <3>1, <3>2 DEF Bind
    <3> QED
      BY <2>2, <3>1, <3>3
  <2> QED
    BY <2>1, <2>2
<1> QED
  BY <1>1, <1>3, <1>4 DEF AsInFullRun

-----------------------------------------------------------------------------
(* Every step keeps the states as in their full runs.                      *)
(* The state an edit starts from is as in a full run.                      *)
LEMMA PreviousAgrees ==
  ASSUME CachesOK, StatesAgree, NEW uri
  PROVE  IsCache(Previous(uri)) /\ AsInFullRun(Previous(uri), {})
BY EmptyAgrees, EmptyIsCache DEF Previous, StatesAgree, CachesOK

(* Diffing, dropping touched names and carrying diagnostics keeps it so,   *)
LEMMA OnChangeAgrees ==
  ASSUME TidyTexts, CachesOK, StatesAgree, NEW uri, NEW text \in Texts, OnChange(uri, text)
  PROVE  StatesAgree'
<1> DEFINE prev == Previous(uri)
<1>0. IsCache(prev) /\ AsInFullRun(prev, {})
  BY PreviousAgrees
<1>1. CASE ReportSyntaxError(uri, text)
  <2>1. docStates' = Bind(docStates, uri, prev) /\ work' = work
    BY <1>1 DEF ReportSyntaxError
  <2> HIDE DEF prev
  <2> QED
    BY <1>0, <2>1 DEF Bind, StatesAgree
<1>2. CASE BeginAnalysis(uri, text)
  <2>1. IsTidy(text)
    BY <1>2, LspAssumption DEF BeginAnalysis, TidyTexts, IsTidy
  <2>2. /\ docStates' = Unbind(docStates, {uri})
        /\ work'.statements = text /\ work'.unlocked = prev.unlocked
        /\ work'.todo = Dirty(prev.statements, text)
        /\ work'.env = Unbind(prev.env, TouchedNames(prev.statements, text))
        /\ work'.diagnostics =
             CarriedDiagnostics(prev.statements, text, Dirty(prev.statements, text), prev.diagnostics)
    BY <1>2 DEF BeginAnalysis
  <2> HIDE DEF prev
  <2>3. AsInFullRun(work', work'.todo)
    BY <1>0, <2>1, <2>2, CarriedAgree
  <2>4. \A u \in DOMAIN docStates' : AsInFullRun(docStates'[u], {})
    BY <2>2 DEF Unbind, StatesAgree
  <2> QED
    BY <2>3, <2>4 DEF StatesAgree
<1> QED
  BY <1>1, <1>2 DEF OnChange

(* ... running the next dirty statement too,                               *)
LEMMA RunAgrees ==
  ASSUME CachesOK, StatesAgree, RunDirtyStatement
  PROVE  StatesAgree'
<1>1. PICK i \in work.todo :
        /\ IsNext(i) /\ work.statements[i].kind # "panic"
        /\ work' = [work EXCEPT
                      !.todo = @ \ {i},
                      !.env = RunStatement(work.statements[i], work).env,
                      !.unlocked = RunStatement(work.statements[i], work).unlocked,
                      !.diagnostics[i] = IF RunStatement(work.statements[i], work).ok
                                         THEN NoDiagnostic
                                         ELSE ExecutionError(i, work.statements[i])]
  BY DEF RunDirtyStatement
<1> DEFINE s == work.statements[i]
           out == RunStatement(s, work)
           slot == IF out.ok THEN NoDiagnostic ELSE ExecutionError(i, s)
<1>2. /\ IsWork(work) /\ IsCache(work) /\ AsInFullRun(work, work.todo)
      /\ i \in DOMAIN work.statements /\ i \in Nat /\ s \in Statement
  BY DEF CachesOK, StatesAgree, IsCache
<1>3. work' = [statements  |-> work.statements,
               todo        |-> work.todo \ {i},
               env         |-> out.env,
               unlocked    |-> out.unlocked,
               diagnostics |-> [work.diagnostics EXCEPT ![i] = slot]]
  <2> HIDE DEF out, slot, s
  <2> QED
    BY <1>1, <1>2 DEF IsWork, out, slot, s
<1>4. slot = NoDiagnostic <=> out.ok
  <2>1. ExecutionError(i, s) # NoDiagnostic
    <3>1. ExecutionError(i, s) \in [line : Nat, message : {"failed"} \X Statement]
      BY <1>2 DEF ExecutionError
    <3> QED
      BY <3>1, LspAssumption
  <2> HIDE DEF out
  <2> QED
    BY <2>1
<1>5. out = RunStatement(work.statements[i], work)
  OBVIOUS
<1> HIDE DEF out, slot, s
<1>6. /\ work'.statements = work.statements /\ work'.todo = work.todo \ {i}
      /\ work'.env = out.env /\ work'.unlocked = out.unlocked
  BY <1>3
<1>7. /\ work'.diagnostics[i] = slot
      /\ \A k \in DOMAIN work.statements : k # i => work'.diagnostics[k] = work.diagnostics[k]
  <2>1. work'.diagnostics = [work.diagnostics EXCEPT ![i] = slot]
    BY <1>3
  <2>2. DOMAIN work.diagnostics = DOMAIN work.statements /\ IsFunction(work.diagnostics)
    BY <1>2 DEF IsCache
  <2> QED
    BY <1>2, <2>1, <2>2 DEF IsFunction
<1>8. (\A k \in work.todo : i <= k) /\ work.statements[i].kind # "panic"
  BY <1>1 DEF IsNext
<1>9. work'.diagnostics[i] = NoDiagnostic <=> out.ok
  BY <1>4, <1>7
<1>10. AsInFullRun(work', work.todo \ {i})
  BY <1>2, <1>9, <1>4, <1>5, <1>6, <1>7, <1>8, NextRunsAsInFullRun
<1> QED
  BY <1>6, <1>10 DEF RunDirtyStatement, StatesAgree

(* ... and storing the state of a finished run.                            *)
LEMMA FinishAgrees ==
  ASSUME CachesOK, StatesAgree, Finish
  PROVE  StatesAgree'
<1> DEFINE done == [statements |-> work.statements, env |-> work.env,
                    unlocked |-> work.unlocked, diagnostics |-> work.diagnostics]
<1>1. docStates' = Bind(docStates, analysing, done) /\ work' = NoWork /\ work.todo = {}
  BY DEF Finish
<1>2. AsInFullRun(done, {})
  BY <1>1 DEF StatesAgree, AsInFullRun
<1> HIDE DEF done
<1> QED
  BY <1>1, <1>2, EmptyAgrees DEF Bind, StatesAgree

LEMMA StatesAgreeNext ==
  ASSUME TidyTexts, CacheInv, StatesAgree, [Next]_vars
  PROVE  StatesAgree'
<1>0. CachesOK
  BY DEF CacheInv
<1>1. ASSUME NEW uri \in URIs, NEW text \in Texts, DidOpen(uri, text) \/ DidChange(uri, text)
      PROVE  StatesAgree'
  BY <1>0, <1>1, OnChangeAgrees DEF DidOpen, DidChange
<1>2. ASSUME NEW uri \in URIs, DidSave(uri)
      PROVE  StatesAgree'
  BY <1>0, <1>2, OnChangeAgrees DEF DidSave, CacheInv, DocumentsOK
<1>3. ASSUME NEW uri \in URIs, DidClose(uri)
      PROVE  StatesAgree'
  BY <1>3 DEF DidClose, Unbind, StatesAgree
<1>4. CASE Handler
  <2>1. CASE Panic
    BY <2>1, EmptyAgrees DEF Panic, StatesAgree
  <2> QED
    BY <1>0, <1>4, <2>1, RunAgrees, FinishAgrees DEF Handler
<1>5. CASE UNCHANGED vars
  BY <1>5 DEF vars, StatesAgree
<1> QED
  BY <1>1, <1>2, <1>3, <1>4, <1>5 DEF Next, Notification

-----------------------------------------------------------------------------
(* What the client is told.                                                *)
MessagesOf(list) == [i \in DOMAIN list |-> list[i].message]

(* Publishing for a document changes the messages of that document.        *)
LEMMA Told ==
  ASSUME NEW uri \in URIs, NEW list, DOMAIN published = URIs,
         published' = [published EXCEPT ![uri] = list]
  PROVE  PublishedMessages' = [PublishedMessages EXCEPT ![uri] = MessagesOf(list)]
BY DEF PublishedMessages, MessagesOf

(* The messages of the reports that are not a run's.                       *)
LEMMA ShortReports ==
  /\ MessagesOf(<<>>) = <<>>
  /\ MessagesOf(<<SyntaxError>>) = <<<<"syntax">>>>
  /\ MessagesOf(<<InternalError>>) = <<<<"internal">>>>
<1>1. ASSUME NEW m PROVE MessagesOf(<<m>>) = <<m.message>>
  BY DEF MessagesOf
<1>2. MessagesOf(<<>>) = <<>>
  BY DEF MessagesOf
<1> QED
  BY <1>1, <1>2 DEF SyntaxError, InternalError

(* The inductive invariant: the states are as in full runs, and every      *)
(* document that is not being analysed has been answered as the service    *)
(* would.                                                                  *)
ServesInv ==
  /\ StatesAgree
  /\ IsFunction(documents)
  /\ \A u \in DOMAIN documents \ {analysing} : Answered(u)

(* Every step of the server is a step of the document service, or none of  *)
(* the client's business.                                                  *)
LEMMA StepServes ==
  ASSUME CacheInv, FollowInv, StatesAgree, IsFunction(documents), [Next]_vars
  PROVE  [Service!Next]_(Service!vars)
<1>0. /\ None \notin URIs /\ Unparsable \notin Seq(Statement)
      /\ DOMAIN published = URIs /\ DocumentsOK /\ CachesOK
  BY LspAssumption DEF CacheInv, FollowInv
<1>1. ASSUME NEW uri \in URIs, NEW text \in Texts, analysing = None,
             documents' = Bind(documents, uri, text), OnChange(uri, text)
      PROVE  Service!Receive(uri, text) \/ Service!ReceiveAndAnswer(uri, text)
  <2>1. documents' = [u \in DOMAIN documents \cup {uri} |-> IF u = uri THEN text ELSE documents[u]]
    BY <1>1 DEF Bind
  <2>2. CASE ReportSyntaxError(uri, text)
    <3>1. PublishedMessages' = [PublishedMessages EXCEPT ![uri] = Report(text)]
      <4>1. published' = [published EXCEPT ![uri] = <<SyntaxError>>] /\ text = Unparsable
        BY <2>2 DEF ReportSyntaxError
      <4>2. PublishedMessages' = [PublishedMessages EXCEPT ![uri] = MessagesOf(<<SyntaxError>>)]
        BY <1>0, <4>1, Told
      <4>3. Report(text) = <<<<"syntax">>>>
        BY <4>1 DEF Report
      <4> QED
        BY <4>2, <4>3, ShortReports
    <3>2. analysing' = analysing
      BY <2>2 DEF ReportSyntaxError
    <3> QED
      BY <1>1, <2>1, <3>1, <3>2 DEF Service!ReceiveAndAnswer
  <2>3. CASE BeginAnalysis(uri, text)
    <3>1. analysing' = uri /\ PublishedMessages' = PublishedMessages
      BY <2>3 DEF BeginAnalysis, PublishedMessages
    <3> QED
      BY <1>1, <2>1, <3>1 DEF Service!Receive
  <2> QED
    BY <1>1, <2>2, <2>3 DEF OnChange
<1>2. ASSUME NEW uri \in URIs, NEW text \in Texts, DidOpen(uri, text) \/ DidChange(uri, text)
      PROVE  Service!Next
  BY <1>1, <1>2 DEF DidOpen, DidChange, Service!Next
<1>3. ASSUME NEW uri \in URIs, DidSave(uri)
      PROVE  Service!Next
  <2>1. /\ analysing = None /\ documents' = documents /\ uri \in DOMAIN documents
        /\ OnChange(uri, documents[uri]) /\ documents[uri] \in Texts
    BY <1>0, <1>3 DEF DidSave, DocumentsOK
  <2>2. documents' = Bind(documents, uri, documents[uri])
    <3>1. documents = [u \in DOMAIN documents |-> documents[u]]
      BY DEF IsFunction
    <3>2. Bind(documents, uri, documents[uri]) = [u \in DOMAIN documents |-> documents[u]]
      BY <2>1 DEF Bind
    <3> QED
      BY <2>1, <3>1, <3>2
  <2> QED
    BY <1>1, <2>1, <2>2 DEF Service!Next
<1>4. ASSUME NEW uri \in URIs, DidClose(uri)
      PROVE  Service!Next
  <2>1. /\ analysing = None /\ analysing' = analysing
        /\ documents' = [u \in DOMAIN documents \ {uri} |-> documents[u]]
        /\ published' = [published EXCEPT ![uri] = <<>>]
    BY <1>4 DEF DidClose, Unbind
  <2>2. PublishedMessages' = [PublishedMessages EXCEPT ![uri] = <<>>]
    BY <1>0, <2>1, Told, ShortReports
  <2> QED
    BY <2>1, <2>2 DEF Service!Next, Service!Close
<1>5. CASE RunDirtyStatement
  BY <1>5 DEF RunDirtyStatement, Service!vars, PublishedMessages
<1>6. ASSUME Panic \/ Finish
      PROVE  Service!Next
  <2>1. /\ analysing # None /\ analysing \in URIs /\ work.statements = documents[analysing]
        /\ analysing' = None /\ documents' = documents
    BY <1>0, <1>6 DEF Panic, Finish, FollowInv, DocumentsOK
  <2>2. /\ IsCache(work) /\ AsInFullRun(work, work.todo)
        /\ work.todo \subseteq DOMAIN work.statements
        /\ documents[analysing] # Unparsable
    BY <1>0, <2>1 DEF CachesOK, StatesAgree, IsCache
  <2>3. PublishedMessages' = [PublishedMessages EXCEPT ![analysing] = Report(documents[analysing])]
    <3>1. CASE Panic
      <4>1. PICK i \in work.todo : work.statements[i].kind = "panic"
        BY <3>1 DEF Panic
      <4>2. Report(documents[analysing]) = <<<<"internal">>>>
        BY <2>1, <2>2, <4>1 DEF Report
      <4>3. published' = [published EXCEPT ![analysing] = <<InternalError>>]
        BY <3>1 DEF Panic
      <4>4. PublishedMessages' = [PublishedMessages EXCEPT ![analysing] = MessagesOf(<<InternalError>>)]
        BY <1>0, <2>1, <4>3, Told
      <4> QED
        BY <4>2, <4>4, ShortReports
    <3>2. CASE Finish
      <4>1. /\ work.todo = {}
            /\ published' = [published EXCEPT ![analysing] = Flatten(work.diagnostics)]
        BY <3>2 DEF Finish
      <4>2. /\ \A i \in DOMAIN work.statements : work.statements[i].kind # "panic"
            /\ MessagesOf(Flatten(work.diagnostics)) = Failures(work.statements)
        BY <2>2, <4>1, CachedReport DEF MessagesOf
      <4>3. Report(documents[analysing]) = Failures(work.statements)
        BY <2>1, <2>2, <4>2 DEF Report
      <4>4. PublishedMessages' =
              [PublishedMessages EXCEPT ![analysing] = MessagesOf(Flatten(work.diagnostics))]
        BY <1>0, <2>1, <4>1, Told
      <4> QED
        BY <4>2, <4>3, <4>4
    <3> QED
      BY <1>6, <3>1, <3>2
  <2> QED
    BY <2>1, <2>3 DEF Service!Next, Service!Answer
<1>7. CASE UNCHANGED vars
  BY <1>7 DEF vars, Service!vars, PublishedMessages
<1> QED
  BY <1>2, <1>3, <1>4, <1>5, <1>6, <1>7 DEF Next, Notification, Handler

(* The document service has answered every document it is not working on.  *)
LEMMA ServiceAnswers ==
  ASSUME DOMAIN documents \subseteq URIs, \A u \in DOMAIN documents \ {analysing} : Answered(u),
         [Service!Next]_(Service!vars), None \notin URIs
  PROVE  \A u \in DOMAIN documents' \ {analysing'} : Answered(u)'
<1>0. DOMAIN PublishedMessages = URIs
  BY DEF PublishedMessages
<1>1. ASSUME Service!Answer
      PROVE  \A u \in DOMAIN documents' : Answered(u)'
  BY <1>0, <1>1 DEF Service!Answer, Answered
<1>2. ASSUME NEW uri \in URIs, NEW text, Service!Receive(uri, text)
      PROVE  \A u \in DOMAIN documents' \ {analysing'} : Answered(u)'
  BY <1>2 DEF Service!Receive, Answered
<1>3. ASSUME NEW uri \in URIs, NEW text, Service!ReceiveAndAnswer(uri, text)
      PROVE  \A u \in DOMAIN documents' : Answered(u)'
  BY <1>0, <1>3 DEF Service!ReceiveAndAnswer, Answered
<1>4. ASSUME NEW uri \in URIs, Service!Close(uri)
      PROVE  \A u \in DOMAIN documents' : Answered(u)'
  BY <1>0, <1>4 DEF Service!Close, Answered
<1>5. CASE UNCHANGED Service!vars
  BY <1>5 DEF Service!vars, Answered
<1> QED
  BY <1>1, <1>2, <1>3, <1>4, <1>5 DEF Service!Next

-----------------------------------------------------------------------------
(* It holds of a server that has just started,                             *)
LEMMA ServesInvInit == Init => ServesInv
<1>1. DOMAIN <<>> = {} /\ IsFunction(<<>>)
  BY DEF IsFunction
<1> QED
  BY <1>1, EmptyAgrees DEF Init, ServesInv, StatesAgree

(* ... and every step keeps it.                                            *)
LEMMA ServesInvNext ==
  ASSUME TidyTexts, CacheInv, FollowInv, ServesInv, [Next]_vars
  PROVE  ServesInv'
<1>1. StatesAgree'
  BY StatesAgreeNext DEF ServesInv
<1>2. [Service!Next]_(Service!vars)
  BY StepServes DEF ServesInv
<1>3. \A u \in DOMAIN documents' \ {analysing'} : Answered(u)'
  <2>1. None \notin URIs /\ DOMAIN documents \subseteq URIs
    BY LspAssumption DEF CacheInv, DocumentsOK
  <2> QED
    BY <1>2, <2>1, ServiceAnswers DEF ServesInv
<1>4. IsFunction(documents')
  <2>1. \/ documents' = documents
        \/ \E uri, text : documents' = Bind(documents, uri, text)
        \/ \E uri : documents' = Unbind(documents, {uri})
    BY DEF Next, Notification, Handler, DidOpen, DidChange, DidSave, DidClose, RunDirtyStatement,
           Panic, Finish, vars
  <2> QED
    BY <2>1 DEF ServesInv, Bind, Unbind, IsFunction
<1> QED
  BY <1>1, <1>3, <1>4 DEF ServesInv

LEMMA ServesInvHolds ==
  ASSUME TidyTexts
  PROVE  Spec => [](CacheInv /\ FollowInv /\ ServesInv)
<1>1. Init => CacheInv /\ FollowInv /\ ServesInv
  BY CacheInvInit, FollowInvInit, ServesInvInit
<1>2. CacheInv /\ FollowInv /\ ServesInv /\ [Next]_vars => (CacheInv /\ FollowInv /\ ServesInv)'
  BY CacheInvNext, FollowInvNext, ServesInvNext
<1> QED
  BY <1>1, <1>2, PTL DEF Spec

(* Whatever was edited, saved or closed before, whichever analyses         *)
(* panicked and whichever texts did not parse: the environment kept for a  *)
(* document of tidy texts, and the errors shown for it, are those of one   *)
(* full run of its present text.                                           *)
THEOREM CacheIsInvisible ==
  ASSUME TidyTexts
  PROVE  Spec => []AgreesWithFullRun
<1>1. CacheInv /\ FollowInv /\ ServesInv => AgreesWithFullRun
  <2> SUFFICES ASSUME CacheInv, FollowInv, ServesInv PROVE EnvAsFullRun /\ ReportsAsFullRun
    BY DEF AgreesWithFullRun
  <2>1. EnvAsFullRun
    BY CachedEnvIsWhole DEF EnvAsFullRun, CacheInv, CachesOK, ServesInv, StatesAgree
  <2>2. ReportsAsFullRun
    <3>1. None \notin URIs
      BY LspAssumption
    <3> QED
      BY <3>1 DEF ReportsAsFullRun, ServesInv, Answered, CacheInv, DocumentsOK
  <2> QED
    BY <2>1, <2>2
<1> QED
  BY <1>1, ServesInvHolds, PTL

(* The server implements the document service: it starts as one, and each  *)
(* of its steps is a step of it or leaves what the client sees alone.      *)
THEOREM ServesDocuments ==
  ASSUME TidyTexts
  PROVE  Spec => Service!Init /\ [][Service!Next]_(Service!vars)
<1>1. Init => Service!Init
  BY ShortReports DEF Init, Service!Init, PublishedMessages, MessagesOf
<1>2. CacheInv /\ FollowInv /\ ServesInv /\ [Next]_vars => [Service!Next]_(Service!vars)
  BY StepServes DEF ServesInv
<1> QED
  BY <1>1, <1>2, ServesInvHolds, PTL DEF Spec

(* An edit of a tidy document marks for running the statements that        *)
(* depend on it, by reachability, and no others.                           *)
THEOREM RerunsAreExact ==
  ASSUME TidyTexts
  PROVE  Spec => RerunsExactlyDependents
<1>1. ASSUME CacheInv, FollowInv, ServesInv, [Next]_vars,
             NEW u \in DOMAIN docStates, analysing = None, analysing' = u
      PROVE  work'.todo = Dependents(docStates[u].statements, work'.statements)
  <2>1. u # None
    BY <1>1, LspAssumption DEF FollowInv, CacheInv, DocumentsOK
  <2>2. PICK text : BeginAnalysis(u, text)
    <3>1. \E uri, text : BeginAnalysis(uri, text)
      BY <1>1, <2>1 DEF Next, Notification, Handler, vars, DidOpen, DidChange, DidSave,
         DidClose, OnChange, ReportSyntaxError, RunDirtyStatement, Panic, Finish
    <3> QED
      BY <1>1, <3>1 DEF BeginAnalysis
  <2>3. /\ work'.statements = text
        /\ work'.todo = Dirty(docStates[u].statements, text)
    BY <1>1, <2>2 DEF BeginAnalysis, Previous
  <2>4. IsTidy(docStates[u].statements) /\ IsTidy(text)
    <3>1. StatesAgree'
      BY <1>1, StatesAgreeNext DEF ServesInv
    <3> QED
      BY <1>1, <2>3, <3>1 DEF ServesInv, StatesAgree, AsInFullRun
  <2> QED
    BY <2>3, <2>4, DirtyAreDependents
<1>2. CacheInv /\ FollowInv /\ ServesInv /\ [Next]_vars =>
        [\A u \in DOMAIN docStates :
           analysing = None /\ analysing' = u =>
             work'.todo = Dependents(docStates[u].statements, work'.statements)]_vars
  BY <1>1
<1> QED
  BY <1>2, ServesInvHolds, PTL DEF Spec, RerunsExactlyDependents

=============================================================================

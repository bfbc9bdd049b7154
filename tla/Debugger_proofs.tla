-------------------------- MODULE Debugger_proofs ---------------------------
(***************************************************************************)
(* What holds of the debugger for every program, every list of             *)
(* breakpoints and every limit on the depth of calls.                      *)
(***************************************************************************)
EXTENDS Debugger, SequenceTheorems, WellFoundedInduction, TLAPS

-----------------------------------------------------------------------------
(* Positions of a sequence: a nonempty set of them has a last one.         *)
LEMMA Greatest ==
  ASSUME NEW n \in Nat, NEW S \in SUBSET (1 .. n), S # {}
  PROVE  \E i \in S : \A j \in S : j <= i
<1> DEFINE R == {ss \in Nat \X Nat : ss[1] < ss[2]}
           T == {n - i : i \in S}
<1>1. \A x, y \in Nat : x < y => <<x, y>> \in R
  OBVIOUS
<1>2. T \subseteq Nat /\ T # {}
  <2>1. \A i \in S : n - i \in Nat
    OBVIOUS
  <2>2. PICK i \in S : TRUE
    OBVIOUS
  <2>3. n - i \in T
    BY <2>2
  <2> QED
    BY <2>1, <2>3
<1>3. IsWellFoundedOn(R, Nat)
  BY NatLessThanWellFounded DEF OpToRel
<1>4. PICK x \in T : \A y \in T : ~(<<y, x>> \in R)
  <2> HIDE DEF R, T
  <2> QED
    BY <1>2, <1>3, WFMin, Zenon
<1>5. \A y \in T : x <= y
  <2> HIDE DEF R, T
  <2>1. ASSUME NEW y \in T PROVE x <= y
    <3>1. x \in Nat /\ y \in Nat
      BY <1>2
    <3>2. ~(y < x)
      BY <1>1, <1>4, <3>1, Zenon
    <3> QED
      BY <3>1, <3>2
  <2> QED
    BY <2>1
<1>6. PICK i \in S : x = n - i
  BY DEF T
<1>7. ASSUME NEW j \in S PROVE j <= i
  <2>1. n - i <= n - j
    BY <1>5, <1>6 DEF T
  <2> QED
    BY <2>1
<1> QED
  BY <1>7

LEMMA LastOfPositions ==
  ASSUME NEW n \in Nat, NEW S \in SUBSET (1 .. n)
  PROVE  Last(S) \in Nat
<1>1. CASE S = {}
  BY <1>1 DEF Last
<1>2. CASE S # {}
  <2>1. \E i \in S : \A j \in S : j <= i
    BY <1>2, Greatest
  <2>2. Last(S) \in S
    BY <1>2, <2>1, Zenon DEF Last
  <2>3. \A i \in S : i \in Nat
    OBVIOUS
  <2> QED
    BY <2>2, <2>3, Zenon
<1> QED
  BY <1>1, <1>2

LEMMA CurrentAndCallerAreNat ==
  ASSUME stack \in Seq(Records)
  PROVE  Current \in Nat /\ Caller \in Nat
<1>1. Len(stack) \in Nat /\ DOMAIN stack = 1 .. Len(stack)
  OBVIOUS
<1>2. Running \in SUBSET (1 .. Len(stack)) /\ Running \ {Current} \in SUBSET (1 .. Len(stack))
  BY <1>1 DEF Running
<1> QED
  BY <1>1, <1>2, LastOfPositions, Zenon DEF Current, Caller

-----------------------------------------------------------------------------
(* What a step makes of a record, for every kind of record there is.       *)
Phases == {"requires", "entered", "checking", "body", "ensures"}

LEMMA CallRecord ==
  ASSUME NEW r \in Records, r.kind = "call", NEW p \in Phases
  PROVE  /\ [r EXCEPT !.phase = p] \in Records /\ [r EXCEPT !.phase = p].kind = "call"
         /\ [r EXCEPT !.phase = p].fn = r.fn /\ [r EXCEPT !.phase = p].frame = r.frame
         /\ [r EXCEPT !.phase = p].phase = p
         /\ r.fn \in Functions \cup {Main}
<1>1. r \in [kind : {"call"}, fn : Functions \cup {Main}, phase : Phases, frame : Nat]
  BY DEF Records, Phases
<1>2. [kind : {"call"}, fn : Functions \cup {Main}, phase : Phases, frame : Nat] \subseteq Records
  BY DEF Records, Phases
<1> QED
  BY <1>1, <1>2

LEMMA EnteredRecord ==
  ASSUME NEW r \in Records, r.kind = "call", NEW n \in Nat
  PROVE  LET s == [r EXCEPT !.phase = "entered", !.frame = n] IN
           /\ s \in Records /\ s.kind = "call" /\ s.fn = r.fn /\ s.frame = n
           /\ s.phase = "entered" /\ r.fn \in Functions \cup {Main}
<1>1. r \in [kind : {"call"}, fn : Functions \cup {Main}, phase : Phases, frame : Nat]
  BY DEF Records, Phases
<1>2. [kind : {"call"}, fn : Functions \cup {Main}, phase : Phases, frame : Nat] \subseteq Records
  BY DEF Records, Phases
<1>3. "entered" \in Phases
  BY DEF Phases
<1> QED
  BY <1>1, <1>2, <1>3

LEMMA StatementRecord ==
  ASSUME NEW r \in Records, r.kind # "checkpoint"
  PROVE  LET s == [r EXCEPT !.phase = "body"] IN
           s \in Records /\ s.kind = r.kind /\ s.fn = r.fn /\ s.frame = r.frame /\ s.phase = "body"
<1>1. r \in [kind : {"call"}, fn : Functions \cup {Main}, phase : Phases, frame : Nat]
       \cup [kind : {"span"}, fn : Functions \cup {Main}, phase : {"checking", "body"}, frame : {0}]
  BY DEF Records, Phases
<1>2. [kind : {"call"}, fn : Functions \cup {Main}, phase : Phases, frame : Nat] \subseteq Records
  BY DEF Records, Phases
<1>3. [kind : {"span"}, fn : Functions \cup {Main}, phase : {"checking", "body"}, frame : {0}]
         \subseteq Records
  BY DEF Records
<1> QED
  BY <1>1, <1>2, <1>3 DEF Phases

LEMMA CheckpointRecord ==
  ASSUME NEW r \in Records, r.kind = "checkpoint"
  PROVE  /\ r.frame = 0 /\ r.depth \in Nat /\ r.pending \in StepModes /\ r.fn \in Functions \cup {Main}
         /\ LET s == [r EXCEPT !.next = @ + 1] IN
              /\ s \in Records /\ s.kind = "checkpoint" /\ s.fn = r.fn /\ s.frame = 0
              /\ s.depth = r.depth
<1> DEFINE K == [kind : {"checkpoint"}, fn : Functions \cup {Main}, line : Nat, frame : {0},
                 depth : Nat, pending : StepModes, next : Nat]
<1>1. r \in K
  BY DEF Records
<1>2. K \subseteq Records
  BY DEF Records
<1>3. [r EXCEPT !.next = @ + 1] \in K
  BY <1>1
<1> QED
  BY <1>1, <1>2, <1>3

LEMMA NewRecords ==
  ASSUME call_stack \in Seq(Functions), step_mode \in StepModes
  PROVE  /\ Innermost \in Functions \cup {Main} /\ Depth \in Nat
         /\ \A fn \in Functions \cup {Main}, p \in Phases :
              /\ Activation(fn, p) \in Records
              /\ Activation(fn, p).kind = "call" /\ Activation(fn, p).fn = fn
              /\ Activation(fn, p).phase = p /\ Activation(fn, p).frame = 0
         /\ Span \in Records
         /\ Span.kind = "span" /\ Span.phase = "checking" /\ Span.frame = 0
         /\ \A line \in Nat :
              /\ Checkpoint(line) \in Records
              /\ Checkpoint(line).kind = "checkpoint" /\ Checkpoint(line).fn = Innermost
              /\ Checkpoint(line).frame = 0 /\ Checkpoint(line).depth = Depth
<1>1. Innermost \in Functions \cup {Main} /\ Depth \in Nat
  BY DEF Innermost, Depth
<1>2. ASSUME NEW fn \in Functions \cup {Main}, NEW p \in Phases
      PROVE  /\ Activation(fn, p) \in Records
             /\ Activation(fn, p).kind = "call" /\ Activation(fn, p).fn = fn
             /\ Activation(fn, p).phase = p /\ Activation(fn, p).frame = 0
  BY DEF Activation, Records, Phases
<1>3. /\ Span \in Records
      /\ Span.kind = "span" /\ Span.phase = "checking" /\ Span.frame = 0
  BY <1>1 DEF Span, Records
<1>4. ASSUME NEW line \in Nat
      PROVE  /\ Checkpoint(line) \in Records
             /\ Checkpoint(line).kind = "checkpoint" /\ Checkpoint(line).fn = Innermost
             /\ Checkpoint(line).frame = 0 /\ Checkpoint(line).depth = Depth
  BY <1>1 DEF Checkpoint, Records
<1> QED
  BY <1>1, <1>2, <1>3, <1>4

-----------------------------------------------------------------------------
(* The ways in which a step changes the stack.                             *)
LEMMA Prefix ==
  ASSUME NEW R, NEW s \in Seq(R), NEW m \in Nat, m <= Len(s)
  PROVE  LET t == SubSeq(s, 1, m) IN
           t \in Seq(R) /\ Len(t) = m /\ \A i \in 1 .. m : t[i] = s[i]
<1>1. Len(s) \in Nat /\ \A i \in 1 .. m : s[i] \in R
  OBVIOUS
<1>2. /\ SubSeq(s, 1, m) \in Seq(R)
      /\ Len(SubSeq(s, 1, m)) = IF 1 <= m THEN m - 1 + 1 ELSE 0
      /\ \A i \in 1 .. m - 1 + 1 : SubSeq(s, 1, m)[i] = s[1 + i - 1]
  BY <1>1, SubSeqProperties
<1> QED
  BY <1>2

LEMMA NonEmpty ==
  ASSUME NEW R, NEW s \in Seq(R), s # <<>>
  PROVE  Len(s) \in Nat \ {0} /\ Len(s) - 1 \in Nat
OBVIOUS

(* A new last record, on the first m of the old ones.                      *)
LEMMA PutOn ==
  ASSUME NEW R, NEW s \in Seq(R), NEW m \in Nat, m <= Len(s), NEW r \in R
  PROVE  LET t == Append(SubSeq(s, 1, m), r) IN
           /\ t \in Seq(R) /\ Len(t) = m + 1 /\ t # <<>>
           /\ \A i \in 1 .. m : t[i] = s[i]
           /\ t[m + 1] = r
<1> DEFINE u == SubSeq(s, 1, m)
<1>1. u \in Seq(R) /\ Len(u) = m /\ \A i \in 1 .. m : u[i] = s[i]
  BY Prefix
<1> HIDE DEF u
<1>2. /\ Append(u, r) \in Seq(R) /\ Len(Append(u, r)) = Len(u) + 1 /\ Append(u, r) # <<>>
      /\ \A i \in 1 .. Len(u) : Append(u, r)[i] = u[i]
      /\ Append(u, r)[Len(u) + 1] = r
  BY <1>1, AppendProperties
<1> QED
  BY <1>1, <1>2 DEF u

-----------------------------------------------------------------------------
(* The inductive invariant, of the first n records of a stack and the      *)
(* first d frames of a call_stack: FramesAreActiveCalls, and what keeps it *)
(* so. A snapshot is current only if the frames that came after it are     *)
(* gone, hence the nesting; and a checkpoint goes back to a statement only *)
(* if there is one below.                                                  *)
OwnFrame(r) == r.kind = "call" /\ r.fn # Main /\ r.phase # "requires"

Framed(s, n, c, d) ==
  /\ \A i \in 1 .. n : s[i].frame \in 0 .. d
  /\ \A i \in 1 .. n : s[i].frame # 0 <=> OwnFrame(s[i])
  /\ \A i \in 1 .. n : s[i].frame # 0 => c[s[i].frame] = s[i].fn
  /\ \A i, j \in 1 .. n : i < j /\ s[i].frame # 0 /\ s[j].frame # 0 => s[i].frame < s[j].frame
  /\ \A e \in 1 .. d : \E i \in 1 .. n : s[i].frame = e

Based(s, n) ==
  /\ \A i \in 1 .. n : s[i].kind = "checkpoint" =>
       i > 1 /\ s[i - 1].kind # "checkpoint" /\ s[i - 1].phase = "checking"
  /\ \A i \in 1 .. n : s[i].kind = "call" /\ s[i].fn = Main => s[i].phase # "requires"

Nested(s, n, c, d) ==
  \A i \in 1 .. n : s[i].kind = "checkpoint" =>
    /\ s[i].depth \in 0 .. d
    /\ s[i].fn = IF s[i].depth = 0 THEN Main ELSE c[s[i].depth]
    /\ \A j \in 1 .. n : s[j].frame # 0 => (j < i <=> s[j].frame <= s[i].depth)

Sound(s, n, c, d) == Framed(s, n, c, d) /\ Based(s, n) /\ Nested(s, n, c, d)

SoundStack == Sound(stack, Len(stack), call_stack, Depth)

(* Another phase for the record on top.                                    *)
LEMMA Rephase ==
  ASSUME NEW n \in Nat \ {0}, NEW c, NEW d \in Nat, NEW s, Sound(s, n, c, d),
         NEW t, \A i \in 1 .. n - 1 : t[i] = s[i],
         t[n].kind = s[n].kind, t[n].fn = s[n].fn, t[n].frame = s[n].frame,
         s[n].kind = "checkpoint" => t[n].depth = s[n].depth,
         s[n].kind = "call" => (t[n].phase = "requires" <=> s[n].phase = "requires")
  PROVE  Sound(t, n, c, d)
<1>1. \A i \in 1 .. n : /\ t[i].kind = s[i].kind /\ t[i].fn = s[i].fn /\ t[i].frame = s[i].frame
                        /\ s[i].kind = "checkpoint" => t[i].depth = s[i].depth
                        /\ OwnFrame(t[i]) <=> OwnFrame(s[i])
                        /\ s[i].kind = "call" => (t[i].phase = "requires" <=> s[i].phase = "requires")
  BY DEF OwnFrame
<1>2. Framed(t, n, c, d)
  BY <1>1 DEF Sound, Framed
<1>3. Based(t, n)
  BY <1>1 DEF Sound, Based
<1>4. Nested(t, n, c, d)
  BY <1>1 DEF Sound, Nested
<1> QED
  BY <1>2, <1>3, <1>4 DEF Sound

(* One more record that has no StackFrame (yet).                           *)
LEMMA Grow ==
  ASSUME NEW n \in Nat, NEW c, NEW d \in Nat, NEW s, Sound(s, n, c, d),
         NEW t, \A i \in 1 .. n : t[i] = s[i],
         t[n + 1].frame = 0, ~OwnFrame(t[n + 1]), t[n + 1].kind # "checkpoint",
         t[n + 1].kind = "call" /\ t[n + 1].fn = Main => t[n + 1].phase # "requires"
  PROVE  Sound(t, n + 1, c, d)
<1>1. Framed(t, n + 1, c, d)
  BY DEF Sound, Framed
<1>2. Based(t, n + 1)
  BY DEF Sound, Based
<1>3. Nested(t, n + 1, c, d)
  BY DEF Sound, Nested
<1> QED
  BY <1>1, <1>2, <1>3 DEF Sound

(* A checkpoint with its snapshot, on the statement it is for.             *)
LEMMA GrowCheckpoint ==
  ASSUME NEW n \in Nat \ {0}, NEW c, NEW d \in Nat, NEW s, Sound(s, n, c, d),
         s[n].kind # "checkpoint", s[n].phase = "checking",
         NEW t, \A i \in 1 .. n : t[i] = s[i],
         t[n + 1].kind = "checkpoint", t[n + 1].frame = 0, t[n + 1].depth = d,
         t[n + 1].fn = IF d = 0 THEN Main ELSE c[d]
  PROVE  Sound(t, n + 1, c, d)
<1>1. Framed(t, n + 1, c, d)
  BY DEF Sound, Framed, OwnFrame
<1>2. Based(t, n + 1)
  BY DEF Sound, Based
<1>3. Nested(t, n + 1, c, d)
  BY DEF Sound, Framed, Nested
<1> QED
  BY <1>1, <1>2, <1>3 DEF Sound

(* The record on top ends, and takes its frame along if it has one.        *)
LEMMA DropPlain ==
  ASSUME NEW n \in Nat \ {0}, NEW c, NEW d \in Nat, NEW s, Sound(s, n, c, d),
         s[n].frame = 0
  PROVE  Sound(s, n - 1, c, d)
<1>1. Framed(s, n - 1, c, d)
  BY DEF Sound, Framed
<1>2. Based(s, n - 1) /\ Nested(s, n - 1, c, d)
  BY DEF Sound, Based, Nested
<1> QED
  BY <1>1, <1>2 DEF Sound

LEMMA DropFrame ==
  ASSUME NEW n \in Nat \ {0}, NEW c, NEW d \in Nat, NEW s, Sound(s, n, c, d),
         s[n].frame # 0
  PROVE  d > 0 /\ s[n].frame = d /\ Sound(s, n - 1, c, d - 1)
<1>1. s[n].frame \in 1 .. d
  BY DEF Sound, Framed
<1>2. PICK i \in 1 .. n : s[i].frame = d
  BY <1>1 DEF Sound, Framed
<1>3. i = n
  BY <1>1, <1>2 DEF Sound, Framed
<1>4. d > 0 /\ s[n].frame = d
  BY <1>1, <1>2, <1>3
<1>5. \A j \in 1 .. n - 1 : s[j].frame \in 0 .. d - 1
  BY <1>4 DEF Sound, Framed
<1>6. \A e \in 1 .. d - 1 : \E j \in 1 .. n - 1 : s[j].frame = e
  BY <1>4 DEF Sound, Framed
<1>7. Framed(s, n - 1, c, d - 1)
  BY <1>5, <1>6 DEF Sound, Framed
<1>8. \A j \in 1 .. n - 1 : s[j].kind = "checkpoint" => s[j].depth \in 0 .. d - 1
  BY <1>4 DEF Sound, Nested
<1>9. Based(s, n - 1) /\ Nested(s, n - 1, c, d - 1)
  BY <1>8 DEF Sound, Based, Nested
<1> QED
  BY <1>4, <1>7, <1>9 DEF Sound

(* Only the frames up to d matter.                                         *)
LEMMA SameFrames ==
  ASSUME NEW n \in Nat, NEW c, NEW d \in Nat, NEW s, Sound(s, n, c, d),
         NEW b, \A e \in 1 .. d : b[e] = c[e]
  PROVE  Sound(s, n, b, d)
<1>1. Framed(s, n, b, d)
  BY DEF Sound, Framed
<1>2. Nested(s, n, b, d)
  BY DEF Sound, Nested
<1> QED
  BY <1>1, <1>2 DEF Sound

(* Nor anything but the first n records.                                   *)
LEMMA SameRecords ==
  ASSUME NEW n \in Nat, NEW c, NEW d, NEW s, Sound(s, n, c, d),
         NEW t, \A i \in 1 .. n : t[i] = s[i]
  PROVE  Sound(t, n, c, d)
<1>1. Framed(t, n, c, d)
  BY DEF Sound, Framed
<1>2. Based(t, n)
  BY DEF Sound, Based
<1>3. Nested(t, n, c, d)
  BY DEF Sound, Nested
<1> QED
  BY <1>1, <1>2, <1>3 DEF Sound

(* The call on top gets the next frame.                                    *)
LEMMA OneMoreFrame ==
  ASSUME NEW n \in Nat \ {0}, NEW c, NEW d \in Nat, NEW s, Sound(s, n, c, d),
         s[n].kind = "call", s[n].phase = "requires",
         NEW t, \A i \in 1 .. n - 1 : t[i] = s[i],
         t[n].kind = "call", t[n].fn = s[n].fn, t[n].phase = "entered", t[n].frame = d + 1,
         NEW b, \A e \in 1 .. d : b[e] = c[e], b[d + 1] = s[n].fn
  PROVE  Sound(t, n, b, d + 1)
<1>1. s[n].fn # Main /\ s[n].frame = 0
  BY DEF Sound, Based, Framed, OwnFrame
<1>2. \A i \in 1 .. n - 1 : s[i].frame \in 0 .. d /\ t[i] = s[i]
  BY DEF Sound, Framed
<1>3. \A e \in 1 .. d : \E i \in 1 .. n - 1 : t[i].frame = e
  BY <1>1 DEF Sound, Framed
<1>4. Framed(t, n, b, d + 1)
  <2>1. \A i \in 1 .. n : t[i].frame \in 0 .. d + 1
    BY <1>2
  <2>2. \A i \in 1 .. n : t[i].frame # 0 <=> OwnFrame(t[i])
    BY <1>1, <1>2 DEF Sound, Framed, OwnFrame
  <2>3. \A i \in 1 .. n : t[i].frame # 0 => b[t[i].frame] = t[i].fn
    BY <1>2 DEF Sound, Framed
  <2>4. \A i, j \in 1 .. n : i < j /\ t[i].frame # 0 /\ t[j].frame # 0 => t[i].frame < t[j].frame
    BY <1>2 DEF Sound, Framed
  <2>5. \A e \in 1 .. d + 1 : \E i \in 1 .. n : t[i].frame = e
    <3>1. ASSUME NEW e \in 1 .. d + 1, e # d + 1 PROVE \E i \in 1 .. n : t[i].frame = e
      BY <1>3, <3>1
    <3>2. \E i \in 1 .. n : t[i].frame = d + 1
      OBVIOUS
    <3> QED
      BY <3>1, <3>2
  <2> QED
    BY <2>1, <2>2, <2>3, <2>4, <2>5 DEF Framed
<1>5. Based(t, n)
  BY DEF Sound, Based
<1>6. Nested(t, n, b, d + 1)
  BY <1>1, <1>2 DEF Sound, Nested
<1> QED
  BY <1>4, <1>5, <1>6 DEF Sound

-----------------------------------------------------------------------------
(* Steps.                                                                  *)
IInv == TypeOK /\ SoundStack

AskedType == [action : Actions, from : Nat, due : {"there", "next", "now"}]

LEMMA RequestsKeepTheirType ==
  ASSUME TypeOK
  PROVE  /\ \A h \in Nat : AskedIn(h) \in AskedType
         /\ AskedAtNext \in AskedType
         /\ \A a \in Actions : Ask(a) \in AskedType
<1>1. Current \in Nat /\ Caller \in Nat
  BY CurrentAndCallerAreNat DEF TypeOK
<1>2. asked \in AskedType
  BY DEF TypeOK, AskedType
<1> QED
  BY <1>1, <1>2 DEF AskedIn, AskedAtNext, Ask, AskedType

LEMMA StepModesHaveTheirType ==
  ASSUME NEW a \in Actions, NEW d \in Nat
  PROVE  StepMode(a, d) \in StepModes
BY DEF StepMode, StepModes, Actions, NoStep

LEMMA TopIsRecord ==
  ASSUME TypeOK, stack # <<>>
  PROVE  /\ Len(stack) \in Nat \ {0} /\ Len(stack) - 1 \in Nat /\ Len(stack) - 1 <= Len(stack)
         /\ (Len(stack) - 1) + 1 = Len(stack)
         /\ Top \in Records /\ Top = stack[Len(stack)] /\ Depth \in Nat
<1>1. stack \in Seq(Records) /\ call_stack \in Seq(Functions)
  BY DEF TypeOK
<1>2. Len(stack) \in Nat \ {0} /\ Depth \in Nat
  BY <1>1 DEF Depth
<1>3. stack[Len(stack)] \in Records
  BY <1>1, <1>2
<1> QED
  BY <1>2, <1>3 DEF Top

(* The record on top is replaced.                                          *)
LEMMA SetTop ==
  ASSUME TypeOK, stack # <<>>, NEW r \in Records
  PROVE  LET t == Append(Below, r) IN
           /\ t \in Seq(Records) /\ Len(t) = Len(stack) /\ t # <<>>
           /\ \A i \in 1 .. Len(stack) - 1 : t[i] = stack[i]
           /\ t[Len(stack)] = r
<1>1. /\ Len(stack) - 1 \in Nat /\ Len(stack) - 1 <= Len(stack)
      /\ (Len(stack) - 1) + 1 = Len(stack) /\ stack \in Seq(Records)
  BY TopIsRecord DEF TypeOK
<1> DEFINE m == Len(stack) - 1
<1>2. LET t == Append(SubSeq(stack, 1, m), r) IN
        /\ t \in Seq(Records) /\ Len(t) = m + 1 /\ t # <<>>
        /\ \A i \in 1 .. m : t[i] = stack[i]
        /\ t[m + 1] = r
  <2> HIDE DEF m
  <2>1. ASSUME NEW k \in Nat, k <= Len(stack)
        PROVE  LET t == Append(SubSeq(stack, 1, k), r) IN
                 /\ t \in Seq(Records) /\ Len(t) = k + 1 /\ t # <<>>
                 /\ \A i \in 1 .. k : t[i] = stack[i]
                 /\ t[k + 1] = r
    BY <1>1, <2>1, PutOn
  <2> QED
    BY <1>1, <2>1 DEF m
<1> QED
  BY <1>1, <1>2, Zenon DEF Below

LEMMA PushTop ==
  ASSUME NEW s \in Seq(Records), NEW r \in Records
  PROVE  LET t == Append(s, r) IN
           /\ t \in Seq(Records) /\ Len(t) = Len(s) + 1 /\ t # <<>> /\ Len(s) \in Nat
           /\ \A i \in 1 .. Len(s) : t[i] = s[i]
           /\ t[Len(s) + 1] = r
<1>1. Len(s) \in Nat
  OBVIOUS
<1>2. /\ Append(s, r) \in Seq(Records) /\ Append(s, r) # <<>> /\ Len(Append(s, r)) = Len(s) + 1
      /\ \A i \in 1 .. Len(s) : Append(s, r)[i] = s[i]
      /\ Append(s, r)[Len(s) + 1] = r
  BY AppendProperties
<1> QED
  BY <1>1, <1>2, Zenon

(* A record ends.                                                          *)
LEMMA LeaveKeeps ==
  ASSUME IInv, stack # <<>>, Leave
  PROVE  /\ stack' \in Seq(Records) /\ call_stack' \in Seq(Functions) /\ asked' \in AskedType
         /\ SoundStack'
         /\ Len(stack) > 1 => stack' # <<>>
<1>1. /\ TypeOK /\ stack \in Seq(Records) /\ call_stack \in Seq(Functions)
      /\ Sound(stack, Len(stack), call_stack, Depth)
  BY DEF IInv, TypeOK, SoundStack
<1>2. /\ Len(stack) \in Nat \ {0} /\ Len(stack) - 1 \in Nat /\ Len(stack) - 1 <= Len(stack)
      /\ Top = stack[Len(stack)] /\ Depth \in Nat
  BY <1>1, TopIsRecord
<1>3. /\ stack' \in Seq(Records) /\ Len(stack') = Len(stack) - 1
      /\ \A i \in 1 .. Len(stack) - 1 : stack'[i] = stack[i]
  <2>1. stack' = SubSeq(stack, 1, Len(stack) - 1)
    BY DEF Leave, Below
  <2> QED
    BY <1>1, <1>2, <2>1, Prefix, Zenon
<1>4. asked' \in AskedType
  BY <1>1, <1>2, RequestsKeepTheirType DEF Leave
<1>5. Len(stack) > 1 => stack' # <<>>
  BY <1>2, <1>3
<1>6. /\ call_stack' \in Seq(Functions)
      /\ Sound(stack, Len(stack) - 1, call_stack', Len(call_stack'))
  <2>1. CASE Top.frame = 0
    <3>1. call_stack' = call_stack
      BY <2>1 DEF Leave
    <3> QED
      BY <1>1, <1>2, <2>1, <3>1, DropPlain DEF Depth
  <2>2. CASE Top.frame # 0
    <3>1. Depth > 0 /\ Sound(stack, Len(stack) - 1, call_stack, Depth - 1)
      BY <1>1, <1>2, <2>2, DropFrame, Zenon
    <3>2. call_stack' = SubSeq(call_stack, 1, Depth - 1)
      BY <2>2 DEF Leave
    <3>3. Depth - 1 \in Nat /\ Depth - 1 <= Len(call_stack)
      BY <1>2, <3>1 DEF Depth
    <3>4. /\ call_stack' \in Seq(Functions) /\ Len(call_stack') = Depth - 1
          /\ \A e \in 1 .. Depth - 1 : call_stack'[e] = call_stack[e]
      BY <1>1, <3>2, <3>3, Prefix, Zenon
    <3>5. Sound(stack, Len(stack) - 1, call_stack', Depth - 1)
      BY <1>2, <3>1, <3>3, <3>4, SameFrames, Zenon
    <3> QED
      BY <3>4, <3>5
  <2> QED
    BY <2>1, <2>2
<1>7. Sound(stack', Len(stack'), call_stack', Len(call_stack'))
  BY <1>2, <1>3, <1>6, SameRecords, Zenon
<1> QED
  BY <1>3, <1>4, <1>5, <1>6, <1>7 DEF SoundStack, Depth

LEMMA Assembled ==
  ASSUME TypeOK, stack' \in Seq(Records), call_stack' \in Seq(Functions), step_mode' \in StepModes,
         breakpoints' = breakpoints, failing' \in BOOLEAN, failing' => stack' # <<>>,
         asked' \in AskedType, SoundStack'
  PROVE  IInv'
BY DEF TypeOK, IInv, AskedType

(* What the guards say of the record on top.                               *)
LEMMA InPhaseTop ==
  ASSUME TypeOK, NEW p, InPhase(p)
  PROVE  /\ stack # <<>> /\ Top \in Records /\ Top.phase = p /\ Top.kind \in {"call", "span"}
         /\ Top.kind = "span" => p \in {"checking", "body"}
<1>1. stack # <<>> /\ Top.phase = p /\ Top.kind \in {"call", "span"}
  BY DEF InPhase, InTop
<1>2. Top \in Records
  BY <1>1, TopIsRecord
<1> QED
  BY <1>1, <1>2 DEF Records

LEMMA EvaluatingTop == IsEvaluating => stack # <<>>
BY DEF IsEvaluating, InPhase, InTop, IsAtBreakpoint

LEMMA SoundNow ==
  ASSUME IInv
  PROVE  /\ TypeOK /\ stack \in Seq(Records) /\ call_stack \in Seq(Functions) /\ step_mode \in StepModes
         /\ asked \in AskedType /\ failing \in BOOLEAN
         /\ Len(stack) \in Nat /\ Depth \in Nat /\ Depth = Len(call_stack)
         /\ Sound(stack, Len(stack), call_stack, Depth)
BY DEF IInv, TypeOK, SoundStack, Depth, AskedType

LEMMA SoundNext ==
  ASSUME NEW n, stack' \in Seq(Records), Len(stack') = n, UNCHANGED call_stack,
         Sound(stack', n, call_stack, Depth)
  PROVE  SoundStack'
BY DEF SoundStack, Depth

LEMMA CallStep ==
  ASSUME IInv, NEW fn \in Functions, Call(fn)
  PROVE  IInv'
<1> DEFINE r == Activation(fn, "requires")
<1>1. /\ r \in Records /\ r.kind = "call" /\ r.fn = fn /\ r.phase = "requires" /\ r.frame = 0
      /\ fn # Main
  BY SoundNow, NewRecords, DebuggerAssumption DEF Phases
<1>2. stack' = Append(stack, r) /\ UNCHANGED <<call_stack, step_mode, breakpoints, failing, asked>> /\ ~failing
  BY DEF Call
<1> HIDE DEF r
<1>3. /\ stack' \in Seq(Records) /\ Len(stack') = Len(stack) + 1 /\ stack' # <<>>
      /\ \A i \in 1 .. Len(stack) : stack'[i] = stack[i]
      /\ stack'[Len(stack) + 1] = r
  BY <1>1, <1>2, SoundNow, PushTop, Zenon
<1>4. ~OwnFrame(stack'[Len(stack) + 1])
  BY <1>1, <1>3 DEF OwnFrame
<1>5. Sound(stack', Len(stack) + 1, call_stack, Depth)
  BY <1>1, <1>3, <1>4, SoundNow, Grow
<1>6. SoundStack'
  BY <1>2, <1>3, <1>5, SoundNext
<1> QED
  BY <1>2, <1>3, <1>6, SoundNow, Assembled

LEMMA PushFrameStep ==
  ASSUME IInv, PushFrame
  PROVE  IInv'
<1> DEFINE r == [Top EXCEPT !.phase = "entered", !.frame = Depth + 1]
<1>1. stack # <<>> /\ Top \in Records /\ Top.phase = "requires" /\ Top.kind = "call"
  BY SoundNow, InPhaseTop DEF PushFrame
<1>2. Top = stack[Len(stack)] /\ Len(stack) \in Nat \ {0}
  BY <1>1, SoundNow, TopIsRecord
<1>3. /\ r \in Records /\ r.kind = "call" /\ r.fn = Top.fn /\ r.frame = Depth + 1 /\ r.phase = "entered"
      /\ Top.fn \in Functions \cup {Main}
  <2>1. Depth + 1 \in Nat
    BY SoundNow
  <2> QED
    BY <1>1, <2>1, EnteredRecord
<1>4. Top.fn \in Functions
  BY <1>1, <1>2, <1>3, SoundNow DEF Sound, Based
<1>5. /\ stack' = Append(Below, r) /\ call_stack' = Append(call_stack, Top.fn)
      /\ UNCHANGED <<step_mode, breakpoints, failing, asked>> /\ ~failing
  BY DEF PushFrame, Set
<1> HIDE DEF r
<1>6. /\ stack' \in Seq(Records) /\ Len(stack') = Len(stack) /\ stack' # <<>>
      /\ \A i \in 1 .. Len(stack) - 1 : stack'[i] = stack[i]
      /\ stack'[Len(stack)] = r
  BY <1>1, <1>3, <1>5, SoundNow, SetTop, Zenon
<1>7. /\ call_stack' \in Seq(Functions) /\ Len(call_stack') = Depth + 1
      /\ \A e \in 1 .. Depth : call_stack'[e] = call_stack[e]
      /\ call_stack'[Depth + 1] = Top.fn
  BY <1>4, <1>5, SoundNow, AppendProperties
<1>8. Sound(stack', Len(stack), call_stack', Depth + 1)
  <2> DEFINE n == Len(stack)  d == Depth  c == call_stack  s == stack  t == stack'  b == call_stack'
  <2>1. n \in Nat \ {0} /\ d \in Nat /\ Sound(s, n, c, d)
    BY <1>2, SoundNow
  <2>2. s[n].kind = "call" /\ s[n].phase = "requires" /\ s[n].fn = Top.fn
    BY <1>1, <1>2
  <2>3. t[n].kind = "call" /\ t[n].fn = Top.fn /\ t[n].phase = "entered" /\ t[n].frame = d + 1
    BY <1>3, <1>6
  <2>4. /\ \A i \in 1 .. n - 1 : t[i] = s[i]
        /\ \A e \in 1 .. d : b[e] = c[e]
        /\ b[d + 1] = Top.fn
    BY <1>6, <1>7
  <2> HIDE DEF n, d, c, s, t, b
  <2>5. Sound(t, n, b, d + 1)
    BY <2>1, <2>2, <2>3, <2>4, OneMoreFrame
  <2> QED
    BY <2>5 DEF n, d, c, s, t, b
<1>9. SoundStack'
  BY <1>6, <1>7, <1>8 DEF SoundStack, Depth
<1> QED
  BY <1>5, <1>6, <1>7, <1>9, SoundNow, Assembled

(* The call on top goes on to another phase.                               *)
LEMMA RephaseTop ==
  ASSUME IInv, stack # <<>>, NEW r \in Records,
         r.kind = Top.kind, r.fn = Top.fn, r.frame = Top.frame,
         Top.kind = "checkpoint" => r.depth = Top.depth,
         Top.kind = "call" => (r.phase = "requires" <=> Top.phase = "requires")
  PROVE  LET t == Append(Below, r) IN
           /\ t \in Seq(Records) /\ Len(t) = Len(stack) /\ t # <<>> /\ Len(stack) \in Nat \ {0}
           /\ t[Len(stack)] = r
           /\ Sound(t, Len(stack), call_stack, Depth)
<1> DEFINE t == Append(Below, r)
<1>1. Top = stack[Len(stack)] /\ Len(stack) \in Nat \ {0}
  BY SoundNow, TopIsRecord
<1>2. /\ t \in Seq(Records) /\ Len(t) = Len(stack) /\ t # <<>>
      /\ \A i \in 1 .. Len(stack) - 1 : t[i] = stack[i]
      /\ t[Len(stack)] = r
  BY SoundNow, SetTop, Zenon
<1> HIDE DEF t
<1>3. Sound(t, Len(stack), call_stack, Depth)
  BY <1>1, <1>2, SoundNow, Rephase
<1> QED
  BY <1>1, <1>2, <1>3 DEF t

(* debug_checkpoint starts on a statement that is on top.                  *)
LEMMA StartCheckpoint ==
  ASSUME IInv, NEW n \in Nat \ {0}, NEW s \in Seq(Records), Len(s) = n,
         Sound(s, n, call_stack, Depth), s[n].kind # "checkpoint", s[n].phase = "checking",
         NEW line \in Nat
  PROVE  LET t == Append(s, Checkpoint(line)) IN
           /\ t \in Seq(Records) /\ Len(t) = n + 1 /\ t # <<>>
           /\ Sound(t, n + 1, call_stack, Depth)
<1> DEFINE k == Checkpoint(line)
           t == Append(s, k)
<1>1. k \in Records /\ k.kind = "checkpoint" /\ k.fn = Innermost /\ k.frame = 0 /\ k.depth = Depth
  BY SoundNow, NewRecords
<1>2. Innermost = IF Depth = 0 THEN Main ELSE call_stack[Depth]
  BY SoundNow DEF Innermost, Depth
<1> HIDE DEF k
<1>3. /\ t \in Seq(Records) /\ Len(t) = n + 1 /\ t # <<>>
      /\ \A i \in 1 .. n : t[i] = s[i]
      /\ t[n + 1] = k
  BY <1>1, PushTop, Zenon
<1> HIDE DEF t
<1>4. Sound(t, n + 1, call_stack, Depth)
  BY <1>1, <1>2, <1>3, SoundNow, GrowCheckpoint
<1> QED
  BY <1>3, <1>4 DEF t, k

LEMMA BeginStatementStep ==
  ASSUME IInv, NEW line, BeginStatement(line)
  PROVE  IInv'
<1> DEFINE r == [Top EXCEPT !.phase = "checking"]
           u == Append(Below, r)
<1>1. stack # <<>> /\ Top \in Records /\ Top.phase # "requires" /\ Top.kind = "call"
  BY SoundNow, InPhaseTop DEF BeginStatement
<1>2. /\ r \in Records /\ r.kind = "call" /\ r.fn = Top.fn /\ r.frame = Top.frame
      /\ r.phase = "checking" /\ Top.fn \in Functions \cup {Main}
  <2>1. "checking" \in Phases
    BY DEF Phases
  <2> QED
    BY <1>1, <2>1, CallRecord, Zenon
<1>3. line \in Nat
  BY <1>2, DebuggerAssumption DEF BeginStatement
<1>4. /\ stack' = Append(u, Checkpoint(line)) /\ asked' = AskedAtNext
      /\ UNCHANGED <<call_stack, step_mode, breakpoints, failing>> /\ ~failing
  BY DEF BeginStatement
<1> HIDE DEF r
<1>5. /\ u \in Seq(Records) /\ Len(u) = Len(stack) /\ Len(stack) \in Nat \ {0}
      /\ u[Len(stack)] = r /\ Sound(u, Len(stack), call_stack, Depth)
  BY <1>1, <1>2, RephaseTop
<1> HIDE DEF u
<1>6. /\ stack' \in Seq(Records) /\ Len(stack') = Len(stack) + 1 /\ stack' # <<>>
      /\ Sound(stack', Len(stack) + 1, call_stack, Depth)
  BY <1>2, <1>3, <1>4, <1>5, StartCheckpoint
<1>7. SoundStack' /\ asked' \in AskedType
  BY <1>4, <1>6, SoundNow, SoundNext, RequestsKeepTheirType
<1> QED
  BY <1>4, <1>6, <1>7, SoundNow, Assembled

LEMMA BeginSpanStep ==
  ASSUME IInv, BeginSpan
  PROVE  IInv'
<1> DEFINE u == Append(stack, Span)
<1>1. Span \in Records /\ Span.kind = "span" /\ Span.phase = "checking" /\ Span.frame = 0
  BY SoundNow, NewRecords
<1>2. /\ stack' = Append(u, Checkpoint(0)) /\ asked' = AskedAtNext
      /\ UNCHANGED <<call_stack, step_mode, breakpoints, failing>> /\ ~failing
  BY DEF BeginSpan
<1>3. /\ u \in Seq(Records) /\ Len(u) = Len(stack) + 1
      /\ \A i \in 1 .. Len(stack) : u[i] = stack[i]
      /\ u[Len(stack) + 1] = Span
  BY <1>1, SoundNow, PushTop, Zenon
<1> HIDE DEF u
<1>4. ~OwnFrame(u[Len(stack) + 1])
  BY <1>1, <1>3 DEF OwnFrame
<1>5. Sound(u, Len(stack) + 1, call_stack, Depth) /\ Len(stack) + 1 \in Nat \ {0}
  BY <1>1, <1>3, <1>4, SoundNow, Grow
<1>6. /\ stack' \in Seq(Records) /\ Len(stack') = (Len(stack) + 1) + 1 /\ stack' # <<>>
      /\ Sound(stack', (Len(stack) + 1) + 1, call_stack, Depth)
  BY <1>1, <1>2, <1>3, <1>5, StartCheckpoint
<1>7. SoundStack' /\ asked' \in AskedType
  BY <1>2, <1>6, SoundNow, SoundNext, RequestsKeepTheirType
<1> QED
  BY <1>2, <1>6, <1>7, SoundNow, Assembled

LEMMA EndBodyStep ==
  ASSUME IInv, EndBody
  PROVE  IInv'
<1> DEFINE r == [Top EXCEPT !.phase = "ensures"]
<1>1. stack # <<>> /\ Top \in Records /\ Top.phase = "body" /\ Top.kind = "call"
  BY SoundNow, InPhaseTop DEF EndBody
<1>2. /\ r \in Records /\ r.kind = "call" /\ r.fn = Top.fn /\ r.frame = Top.frame
      /\ r.phase = "ensures"
  <2>1. "ensures" \in Phases
    BY DEF Phases
  <2> QED
    BY <1>1, <2>1, CallRecord, Zenon
<1>3. /\ stack' = Append(Below, r)
      /\ UNCHANGED <<call_stack, step_mode, breakpoints, failing, asked>> /\ ~failing
  BY DEF EndBody, Set
<1> HIDE DEF r
<1>4. /\ stack' \in Seq(Records) /\ Len(stack') = Len(stack) /\ stack' # <<>>
      /\ Sound(stack', Len(stack), call_stack, Depth)
  BY <1>1, <1>2, <1>3, RephaseTop
<1>5. SoundStack'
  BY <1>3, <1>4, SoundNext
<1> QED
  BY <1>3, <1>4, <1>5, SoundNow, Assembled

LEMMA NextBreakpointStep ==
  ASSUME IInv, NextBreakpoint
  PROVE  IInv'
<1> DEFINE r == [Top EXCEPT !.next = @ + 1]
<1>1. stack # <<>> /\ Top \in Records /\ Top.kind = "checkpoint"
  BY SoundNow, TopIsRecord DEF NextBreakpoint, IsMiss, IsAtBreakpoint, InTop
<1>2. /\ r \in Records /\ r.kind = "checkpoint" /\ r.fn = Top.fn /\ r.frame = Top.frame
      /\ r.depth = Top.depth
  BY <1>1, CheckpointRecord
<1>3. /\ stack' = Append(Below, r)
      /\ UNCHANGED <<call_stack, step_mode, breakpoints, failing, asked>> /\ ~failing
  BY DEF NextBreakpoint, Set
<1> HIDE DEF r
<1>4. /\ stack' \in Seq(Records) /\ Len(stack') = Len(stack) /\ stack' # <<>>
      /\ Sound(stack', Len(stack), call_stack, Depth)
  BY <1>1, <1>2, <1>3, RephaseTop
<1>5. SoundStack'
  BY <1>3, <1>4, SoundNext
<1> QED
  BY <1>3, <1>4, <1>5, SoundNow, Assembled

(* debug_checkpoint returns to the statement below it.                     *)
LEMMA ProceedKeeps ==
  ASSUME IInv, InTop("checkpoint"), Proceed, UNCHANGED call_stack
  PROVE  stack' \in Seq(Records) /\ stack' # <<>> /\ SoundStack' /\ Top.depth \in Nat
<1> DEFINE n == Len(stack)
           q == stack[n - 1]
           r == [q EXCEPT !.phase = "body"]
<1>1. stack # <<>> /\ Top \in Records /\ Top.kind = "checkpoint" /\ Top = stack[n] /\ n \in Nat \ {0}
  BY SoundNow, TopIsRecord DEF InTop
<1>2. Top.frame = 0 /\ Top.depth \in Nat
  BY <1>1, CheckpointRecord
<1>3. n > 1 /\ q.kind # "checkpoint" /\ q.phase = "checking"
  BY <1>1, SoundNow DEF Sound, Based
<1>4. q \in Records /\ n - 1 \in Nat \ {0} /\ n - 2 \in Nat /\ n - 2 <= n /\ (n - 2) + 1 = n - 1
  BY <1>1, <1>3, SoundNow
<1>5. Sound(stack, n - 1, call_stack, Depth)
  BY <1>1, <1>2, SoundNow, DropPlain
<1>6. r \in Records /\ r.kind = q.kind /\ r.fn = q.fn /\ r.frame = q.frame /\ r.phase = "body"
  BY <1>3, <1>4, StatementRecord
<1>7. stack' = Append(SubSeq(stack, 1, n - 2), r)
  BY DEF Proceed
<1> HIDE DEF r
<1>8. /\ stack' \in Seq(Records) /\ Len(stack') = n - 1 /\ stack' # <<>>
      /\ \A i \in 1 .. n - 2 : stack'[i] = stack[i]
      /\ stack'[n - 1] = r
  <2> DEFINE m == n - 2
  <2>1. m \in Nat /\ m <= n /\ m + 1 = n - 1 /\ stack \in Seq(Records)
    BY <1>4, SoundNow
  <2> HIDE DEF m
  <2>2. LET t == Append(SubSeq(stack, 1, m), r) IN
           /\ t \in Seq(Records) /\ Len(t) = m + 1 /\ t # <<>>
           /\ \A i \in 1 .. m : t[i] = stack[i]
           /\ t[m + 1] = r
    BY <1>6, <2>1, PutOn
  <2> QED
    BY <1>7, <2>1, <2>2 DEF m
<1>9. Sound(stack', n - 1, call_stack, Depth)
  <2> DEFINE k == n - 1  t == stack'
  <2>1. /\ k \in Nat \ {0} /\ Sound(stack, k, call_stack, Depth) /\ Depth \in Nat
        /\ \A i \in 1 .. k - 1 : t[i] = stack[i]
        /\ t[k] = r /\ stack[k] = q
    BY <1>4, <1>5, <1>8, SoundNow
  <2> HIDE DEF k, t, q
  <2>2. Sound(t, k, call_stack, Depth)
    BY <1>3, <1>6, <2>1, Rephase
  <2> QED
    BY <2>2 DEF k, t
<1>10. SoundStack'
  BY <1>8, <1>9, SoundNext
<1> QED
  BY <1>2, <1>8, <1>10

LEMMA PauseStep ==
  ASSUME IInv, NEW action \in Actions, Pause(action)
  PROVE  IInv'
<1>1. InTop("checkpoint") /\ ~failing
  BY DEF Pause, Fires, IsHit, IsWithoutHit, IsAtBreakpoint
<1>2. /\ Proceed /\ step_mode' = StepMode(action, Top.depth) /\ asked' = Ask(action)
      /\ UNCHANGED <<call_stack, breakpoints, failing>>
  BY DEF Pause
<1>3. stack' \in Seq(Records) /\ stack' # <<>> /\ SoundStack' /\ Top.depth \in Nat
  BY <1>1, <1>2, ProceedKeeps
<1>4. step_mode' \in StepModes /\ asked' \in AskedType
  BY <1>2, <1>3, SoundNow, StepModesHaveTheirType, RequestsKeepTheirType
<1> QED
  BY <1>1, <1>2, <1>3, <1>4, SoundNow, Assembled

LEMMA PassStep ==
  ASSUME IInv, Pass
  PROVE  IInv'
<1>1. InTop("checkpoint") /\ Proceed /\ ~failing
  BY DEF Pass, IsWithoutHit
<1>2. UNCHANGED <<call_stack, step_mode, breakpoints, failing, asked>>
  BY DEF Pass
<1>3. stack' \in Seq(Records) /\ stack' # <<>> /\ SoundStack'
  BY <1>1, <1>2, ProceedKeeps
<1> QED
  BY <1>1, <1>2, <1>3, SoundNow, Assembled

(* Return, the end of a program, and an error on its way up.               *)
LEMMA LeaveStep ==
  ASSUME IInv, stack # <<>>, Leave, UNCHANGED <<step_mode, breakpoints>>,
         failing' \in BOOLEAN, failing' => Len(stack) > 1
  PROVE  IInv'
BY LeaveKeeps, SoundNow, Assembled

LEMMA StartStep ==
  ASSUME IInv, Start
  PROVE  IInv'
<1> DEFINE r == Activation(Main, "entered")
<1>1. r \in Records /\ r.kind = "call" /\ r.fn = Main /\ r.phase = "entered" /\ r.frame = 0
  BY SoundNow, NewRecords DEF Phases
<1>2. /\ stack = <<>> /\ stack' = <<r>>
      /\ UNCHANGED <<call_stack, step_mode, breakpoints, failing, asked>>
  BY DEF Start
<1>3. ~failing
  BY <1>2 DEF IInv, TypeOK
<1> HIDE DEF r
<1>4. stack' \in Seq(Records) /\ Len(stack') = 1 /\ stack'[1] = r /\ stack' # <<>>
  BY <1>1, <1>2
<1>5. Sound(stack, 0, call_stack, Depth)
  BY <1>2, SoundNow
<1>6. ~OwnFrame(stack'[0 + 1])
  BY <1>1, <1>4 DEF OwnFrame
<1>7. Sound(stack', 0 + 1, call_stack, Depth)
  <2> DEFINE n == 0
  <2>1. n \in Nat /\ Depth \in Nat /\ Sound(stack, n, call_stack, Depth)
    BY <1>5, SoundNow
  <2>2. \A i \in 1 .. n : stack'[i] = stack[i]
    OBVIOUS
  <2>3. /\ stack'[n + 1].frame = 0 /\ stack'[n + 1].kind = "call"
        /\ stack'[n + 1].phase = "entered" /\ ~OwnFrame(stack'[n + 1])
    BY <1>1, <1>4, <1>6
  <2> HIDE DEF n
  <2>4. Sound(stack', n + 1, call_stack, Depth)
    BY <2>1, <2>2, <2>3, Grow
  <2> QED
    BY <2>4 DEF n
<1>8. SoundStack'
  BY <1>2, <1>4, <1>7, SoundNext
<1> QED
  BY <1>2, <1>3, <1>4, <1>8, SoundNow, Assembled

LEMMA InitIInv == Init => IInv
<1> SUFFICES ASSUME Init PROVE IInv
  OBVIOUS
<1>1. /\ stack = <<>> /\ call_stack = <<>> /\ step_mode = NoStep /\ breakpoints \in Breakpoints
      /\ failing = FALSE /\ asked = [action |-> "continue", from |-> 0, due |-> "there"]
  BY DEF Init
<1>2. TypeOK
  <2>1. stack \in Seq(Records) /\ call_stack \in Seq(Functions)
    BY <1>1
  <2>2. step_mode \in StepModes
    BY <1>1 DEF StepModes
  <2>3. asked \in [action : Actions, from : Nat, due : {"there", "next", "now"}]
    BY <1>1 DEF Actions
  <2> QED
    BY <1>1, <2>1, <2>2, <2>3 DEF TypeOK
<1>3. Len(stack) = 0 /\ Depth = 0
  BY <1>1 DEF Depth
<1>4. Sound(stack, 0, call_stack, 0)
  BY DEF Sound, Framed, Based, Nested
<1> QED
  BY <1>2, <1>3, <1>4 DEF IInv, SoundStack

LEMMA NextIInv == IInv /\ [Next]_vars => IInv'
<1> SUFFICES ASSUME IInv, [Next]_vars PROVE IInv'
  OBVIOUS
<1>1. CASE Start
  BY <1>1, StartStep
<1>2. CASE Finish
  BY <1>2, LeaveStep, SoundNow, InPhaseTop DEF Finish
<1>3. ASSUME NEW fn \in Functions, Call(fn) PROVE IInv'
  BY <1>3, CallStep
<1>4. CASE PushFrame
  BY <1>4, PushFrameStep
<1>5. CASE EndBody
  BY <1>5, EndBodyStep
<1>6. CASE Return
  BY <1>6, LeaveStep, SoundNow, InPhaseTop DEF Return
<1>7. ASSUME NEW line, BeginStatement(line) PROVE IInv'
  BY <1>7, BeginStatementStep
<1>8. CASE BeginSpan
  BY <1>8, BeginSpanStep
<1>9. CASE Raise
  <2>1. stack # <<>>
    BY <1>9, EvaluatingTop DEF Raise, InPhase, InTop
  <2>2. UNCHANGED <<stack, call_stack, step_mode, breakpoints, asked>> /\ failing' = TRUE
    BY <1>9 DEF Raise
  <2>3. SoundStack'
    BY <2>2, SoundNow DEF SoundStack, Depth
  <2> QED
    BY <2>1, <2>2, <2>3, SoundNow, Assembled
<1>10. CASE Unwind
  <2>1. stack # <<>>
    BY <1>10 DEF Unwind, IInv, TypeOK
  <2>2. /\ failing' = (Top.kind # "span" /\ Len(stack) > 1) /\ Leave
        /\ UNCHANGED <<step_mode, breakpoints>>
    BY <1>10 DEF Unwind
  <2> QED
    BY <2>1, <2>2, LeaveStep
<1>11. CASE NextBreakpoint
  BY <1>11, NextBreakpointStep
<1>12. CASE Pass
  BY <1>12, PassStep
<1>13. ASSUME NEW action \in Actions, Pause(action) PROVE IInv'
  BY <1>13, PauseStep
<1>14. CASE UNCHANGED vars
  BY <1>14 DEF vars, IInv, TypeOK, SoundStack, Depth
<1> QED
  BY <1>1, <1>2, <1>3, <1>4, <1>5, <1>6, <1>7, <1>8, <1>9, <1>10, <1>11, <1>12, <1>13, <1>14
     DEF Next

LEMMA AlwaysIInv == Spec => []IInv
BY InitIInv, NextIInv, PTL DEF Spec

-----------------------------------------------------------------------------
(* The types of the debugger's state, for every program and every list of  *)
(* breakpoints (statements.rs, expressions.rs).                            *)
THEOREM TypeCorrect == Spec => []TypeOK
<1>1. IInv => TypeOK
  BY DEF IInv
<1> QED
  BY <1>1, AlwaysIInv, PTL

(* However calls return, fail or are given up on, call_stack holds one     *)
(* frame for each call that is past its contracts, in order, and no other  *)
(* (call_function_node_at and CallStackGuard in expressions.rs).           *)
THEOREM CallStackIsWhatRuns == Spec => []FramesAreActiveCalls
<1>1. IInv => FramesAreActiveCalls
  <2> SUFFICES ASSUME IInv PROVE FramesAreActiveCalls
    OBVIOUS
  <2>1. DOMAIN stack = 1 .. Len(stack) /\ DOMAIN call_stack = 1 .. Depth
    BY SoundNow
  <2>2. Framed(stack, Len(stack), call_stack, Depth)
    BY SoundNow DEF Sound
  <2>3. FramesAreOfCalls
    BY <2>1, <2>2 DEF FramesAreOfCalls, Framed, OwnFrame
  <2>4. FramesAreNamed
    BY <2>1, <2>2, SoundNow DEF FramesAreNamed, Framed
  <2>5. FramesAreInOrder
    BY <2>1, <2>2 DEF FramesAreInOrder, Framed
  <2>6. FramesAreOwned
    BY <2>1, <2>2 DEF FramesAreOwned, Framed
  <2> QED
    BY <2>3, <2>4, <2>5, <2>6 DEF FramesAreActiveCalls
<1> QED
  BY <1>1, AlwaysIInv, PTL

LEMMA CheckpointsAreCurrent == IInv => SnapshotIsCurrent
<1> SUFFICES ASSUME IInv, InTop("checkpoint") PROVE Top.depth = Depth /\ Top.fn = Innermost
  BY DEF SnapshotIsCurrent
<1> DEFINE n == Len(stack)
<1>1. Top = stack[n] /\ Top.kind = "checkpoint" /\ n \in Nat \ {0}
  BY SoundNow, TopIsRecord DEF InTop
<1>2. /\ Top.depth \in 0 .. Depth
      /\ Top.fn = IF Top.depth = 0 THEN Main ELSE call_stack[Top.depth]
      /\ \A j \in 1 .. n : stack[j].frame # 0 => (j < n <=> stack[j].frame <= Top.depth)
  BY <1>1, SoundNow DEF Sound, Nested
<1>3. Top.frame = 0
  BY <1>1, SoundNow, TopIsRecord, CheckpointRecord DEF InTop
<1>4. Top.depth = Depth
  <2> SUFFICES ASSUME Top.depth # Depth PROVE FALSE
    OBVIOUS
  <2>1. Depth \in 1 .. Depth
    BY <1>2, SoundNow
  <2>2. PICK j \in 1 .. n : stack[j].frame = Depth
    BY <2>1, SoundNow DEF Sound, Framed
  <2>3. j # n
    BY <1>1, <1>3, <2>1, <2>2
  <2> QED
    BY <1>1, <1>2, <2>1, <2>2, <2>3, SoundNow
<1>5. call_stack = <<>> <=> Depth = 0
  BY SoundNow DEF Depth
<1> QED
  BY <1>2, <1>4, <1>5 DEF Innermost

(* Whatever the conditions of breakpoints called and however that ended, a *)
(* checkpoint decides and pauses at the depth and in the function that     *)
(* call_stack then shows (debug_checkpoint in statements.rs).              *)
THEOREM SnapshotsStayCurrent == Spec => []SnapshotIsCurrent
BY CheckpointsAreCurrent, AlwaysIInv, PTL

-----------------------------------------------------------------------------
(* Where a step ends. The invariant relates the place the user asked from  *)
(* to the depth that step_mode keeps of it: TooDeep is the first depth the *)
(* step does not stop at.                                                  *)
(*   there   the call it was asked from is still running, just above       *)
(*           TooDeep (for a step out of the program there is none)         *)
(*   next    that call has ended, and no call that has begun since is too  *)
(*           deep, except perhaps one that is yet to run a statement       *)
(*   now     the step goes on from a later call that is not too deep       *)
Runs(r) == r.kind = "call" /\ (r.fn = Main \/ r.frame # 0)

MainFirst(s, n) == \A i \in 1 .. n : (s[i].kind = "call" /\ s[i].fn = Main) <=> i = 1

TooDeep == IF step_mode.mode = "over" THEN step_mode.depth + 1 ELSE step_mode.depth

RunsAt(i) == i \in 1 .. Len(stack) /\ Runs(stack[i])

IsEntered == stack = <<>> \/ (Top.kind = "call" /\ Top.phase = "entered")

ModeIsAsked ==
  step_mode.mode = IF asked.action = "continue" THEN "none" ELSE asked.action

StepsFromThere ==
  asked.due = "there" =>
    \/ asked.from = 0 /\ TooDeep = 0
    \/ RunsAt(asked.from) /\ stack[asked.from].frame + 1 = TooDeep
StepsFromNow ==
  asked.due = "now" => RunsAt(asked.from) /\ stack[asked.from].frame < TooDeep
StepsFromNext ==
  asked.due = "next" => Depth < TooDeep /\ (Depth + 1 = TooDeep => IsEntered)

StepInv ==
  /\ MainFirst(stack, Len(stack))
  /\ ModeIsAsked
  /\ asked.action \in {"over", "out"} => StepsFromThere /\ StepsFromNow /\ StepsFromNext

-----------------------------------------------------------------------------
(* The last of a set of positions, and the calls whose statements run: one *)
(* for each depth, in the order of their depths.                           *)
LEMMA LastIsLast ==
  ASSUME NEW n \in Nat, NEW S \in SUBSET (1 .. n), S # {}
  PROVE  Last(S) \in S /\ \A j \in S : j <= Last(S)
<1>1. \E i \in S : \A j \in S : j <= i
  BY Greatest
<1>2. Last(S) = CHOOSE i \in S : \A j \in S : j <= i
  BY DEF Last
<1> QED
  BY <1>1, <1>2, Zenon

LEMMA RunInOrder ==
  ASSUME NEW n \in Nat, NEW c, NEW d \in Nat, NEW s, Sound(s, n, c, d), MainFirst(s, n),
         NEW i \in 1 .. n, NEW j \in 1 .. n, Runs(s[i]), Runs(s[j])
  PROVE  /\ s[i].frame \in 0 .. d /\ s[j].frame \in 0 .. d
         /\ i < j <=> s[i].frame < s[j].frame
<1>1. s[i].frame \in 0 .. d /\ s[j].frame \in 0 .. d
  BY DEF Sound, Framed
<1>2. (s[i].frame = 0 <=> i = 1) /\ (s[j].frame = 0 <=> j = 1)
  BY DEF Sound, Framed, OwnFrame, MainFirst, Runs
<1>3. CASE i = 1 \/ j = 1
  BY <1>1, <1>2, <1>3
<1>4. CASE i # 1 /\ j # 1
  BY <1>1, <1>2, <1>4 DEF Sound, Framed
<1> QED
  BY <1>1, <1>3, <1>4

LEMMA RunsAtEveryDepth ==
  ASSUME NEW n \in Nat \ {0}, NEW c, NEW d \in Nat, NEW s, Sound(s, n, c, d), MainFirst(s, n),
         NEW e \in 0 .. d
  PROVE  \E i \in 1 .. n : Runs(s[i]) /\ s[i].frame = e
<1>1. CASE e = 0
  <2>1. s[1].kind = "call" /\ s[1].fn = Main /\ s[1].frame = 0
    BY DEF MainFirst, Sound, Framed, OwnFrame
  <2> QED
    BY <1>1, <2>1 DEF Runs
<1>2. CASE e # 0
  BY <1>2 DEF Sound, Framed, OwnFrame, Runs
<1> QED
  BY <1>1, <1>2

(* A call that runs is the last one, of those there are, when the depth is *)
(* at most its own.                                                        *)
LEMMA LastByDepth ==
  ASSUME IInv, MainFirst(stack, Len(stack)), NEW k, RunsAt(k)
  PROVE  (\A i \in Running : i <= k) <=> Depth <= stack[k].frame
<1> DEFINE n == Len(stack)
<1>1. /\ n \in Nat \ {0} /\ Depth \in Nat /\ k \in 1 .. n /\ Runs(stack[k])
      /\ Sound(stack, n, call_stack, Depth) /\ MainFirst(stack, n) /\ DOMAIN stack = 1 .. n
  BY SoundNow DEF RunsAt
<1>2. \A i : i \in Running <=> i \in 1 .. n /\ Runs(stack[i])
  BY <1>1 DEF Running, IsRunning, Runs
<1>3. stack[k].frame \in 0 .. Depth
  BY <1>1 DEF Sound, Framed
<1>4. ASSUME \A i \in Running : i <= k PROVE Depth <= stack[k].frame
  <2>1. PICK i \in 1 .. n : Runs(stack[i]) /\ stack[i].frame = Depth
    BY <1>1, RunsAtEveryDepth
  <2>2. i <= k
    BY <1>2, <1>4, <2>1
  <2>3. i < k <=> stack[i].frame < stack[k].frame
    BY <1>1, <2>1, RunInOrder
  <2> QED
    BY <1>1, <1>3, <2>1, <2>2, <2>3
<1>5. ASSUME Depth <= stack[k].frame, NEW i \in Running PROVE i <= k
  <2>1. i \in 1 .. n /\ Runs(stack[i])
    BY <1>2
  <2>2. stack[i].frame \in 0 .. Depth /\ (k < i <=> stack[k].frame < stack[i].frame)
    BY <1>1, <2>1, RunInOrder
  <2> QED
    BY <1>1, <1>3, <1>5, <2>1, <2>2
<1> QED
  BY <1>4, <1>5

(* Where the user asks from: the innermost call, and its caller.           *)
LEMMA CurrentRuns ==
  ASSUME IInv, MainFirst(stack, Len(stack)), stack # <<>>
  PROVE  RunsAt(Current) /\ stack[Current].frame = Depth
<1> DEFINE n == Len(stack)
<1>1. /\ n \in Nat \ {0} /\ Depth \in Nat /\ Depth \in 0 .. Depth
      /\ Sound(stack, n, call_stack, Depth) /\ MainFirst(stack, n) /\ DOMAIN stack = 1 .. n
  BY SoundNow
<1>2. \A i : i \in Running <=> i \in 1 .. n /\ Runs(stack[i])
  BY <1>1 DEF Running, IsRunning, Runs
<1>3. Running \in SUBSET (1 .. n) /\ Running # {}
  <2>1. PICK i \in 1 .. n : Runs(stack[i]) /\ stack[i].frame = Depth
    BY <1>1, RunsAtEveryDepth
  <2> QED
    BY <1>2, <2>1
<1>4. Current \in Running /\ \A i \in Running : i <= Current
  BY <1>1, <1>3, LastIsLast DEF Current
<1>5. RunsAt(Current)
  BY <1>2, <1>4 DEF RunsAt
<1>6. Depth <= stack[Current].frame
  BY <1>4, <1>5, LastByDepth
<1>7. stack[Current].frame \in 0 .. Depth
  BY <1>1, <1>5 DEF RunsAt, Sound, Framed
<1> QED
  BY <1>1, <1>5, <1>6, <1>7

LEMMA CallerRuns ==
  ASSUME IInv, MainFirst(stack, Len(stack)), stack # <<>>
  PROVE  IF Depth = 0 THEN Caller = 0 ELSE RunsAt(Caller) /\ stack[Caller].frame + 1 = Depth
<1> DEFINE n == Len(stack)
           S == Running \ {Current}
<1>1. /\ n \in Nat \ {0} /\ Depth \in Nat
      /\ Sound(stack, n, call_stack, Depth) /\ MainFirst(stack, n) /\ DOMAIN stack = 1 .. n
  BY SoundNow
<1>2. \A i : i \in Running <=> i \in 1 .. n /\ Runs(stack[i])
  BY <1>1 DEF Running, IsRunning, Runs
<1>3. RunsAt(Current) /\ stack[Current].frame = Depth
  BY CurrentRuns
<1>4. ASSUME NEW i \in S PROVE i \in 1 .. n /\ Runs(stack[i]) /\ stack[i].frame \in 0 .. Depth /\ stack[i].frame < Depth
  <2>1. i \in 1 .. n /\ Runs(stack[i]) /\ Current \in 1 .. n /\ Runs(stack[Current]) /\ i # Current
    BY <1>2, <1>3 DEF RunsAt
  <2>2. (i < Current <=> stack[i].frame < Depth) /\ stack[i].frame \in 0 .. Depth
    BY <1>1, <1>3, <2>1, RunInOrder
  <2>3. Current < i <=> Depth < stack[i].frame
    BY <1>1, <1>3, <2>1, RunInOrder
  <2> QED
    BY <1>1, <2>1, <2>2, <2>3
<1>5. CASE Depth = 0
  <2>1. S = {}
    BY <1>4, <1>5
  <2> QED
    BY <1>5, <2>1 DEF Caller, Last
<1>6. CASE Depth # 0
  <2>1. Depth - 1 \in 0 .. Depth /\ Depth - 1 # Depth
    BY <1>1, <1>6
  <2>2. PICK i \in 1 .. n : Runs(stack[i]) /\ stack[i].frame = Depth - 1
    BY <1>1, <2>1, RunsAtEveryDepth
  <2>3. i \in S
    BY <1>2, <1>3, <2>1, <2>2
  <2>4. S \in SUBSET (1 .. n) /\ S # {}
    BY <1>4, <2>3
  <2>5. Last(S) \in S /\ \A j \in S : j <= Last(S)
    <3> HIDE DEF S
    <3> QED
      BY <1>1, <2>4, LastIsLast
  <2>6. Caller \in S /\ i <= Caller
    BY <2>3, <2>5 DEF Caller
  <2>7. Caller \in 1 .. n /\ Runs(stack[Caller]) /\ stack[Caller].frame \in 0 .. Depth /\ stack[Caller].frame < Depth
    BY <1>4, <2>6
  <2>8. ~(stack[Caller].frame < stack[i].frame)
    <3>1. Caller < i <=> stack[Caller].frame < stack[i].frame
      BY <1>1, <2>2, <2>7, RunInOrder
    <3> QED
      BY <2>6, <2>7, <3>1
  <2> QED
    BY <1>1, <1>6, <2>2, <2>7, <2>8 DEF RunsAt
<1> QED
  BY <1>5, <1>6

-----------------------------------------------------------------------------
(* What a step of the debugger makes of the invariant.                     *)
KeepsRunning == \A i : RunsAt(i) => RunsAt(i)' /\ stack'[i].frame = stack[i].frame

Steps == asked.action \in {"over", "out"}

LEMMA ShapeKeeps ==
  ASSUME MainFirst(stack, Len(stack)), Len(stack) \in Nat, Len(stack') \in Nat,
         NEW m \in Nat \ {0}, m <= Len(stack), m <= Len(stack'),
         \A i \in 1 .. m : /\ stack'[i].kind = stack[i].kind /\ stack'[i].fn = stack[i].fn
                           /\ stack'[i].frame = stack[i].frame,
         \A i \in m + 1 .. Len(stack) : ~Runs(stack[i]),
         \A i \in m + 1 .. Len(stack') : stack'[i].kind = "call" => stack'[i].fn # Main
  PROVE  KeepsRunning /\ MainFirst(stack', Len(stack'))
<1>1. ASSUME NEW i, RunsAt(i) PROVE RunsAt(i)' /\ stack'[i].frame = stack[i].frame
  <2>1. i \in 1 .. m
    BY <1>1 DEF RunsAt
  <2> QED
    BY <1>1, <2>1 DEF RunsAt, Runs
<1>2. MainFirst(stack', Len(stack'))
  BY DEF MainFirst
<1> QED
  BY <1>1, <1>2 DEF KeepsRunning

LEMMA TooDeepIsNat ==
  ASSUME IInv, ModeIsAsked, Steps
  PROVE  TooDeep \in Nat
BY SoundNow DEF ModeIsAsked, Steps, TooDeep, StepModes, NoStep

(* Steps that leave the request alone.                                     *)
LEMMA StepsKept ==
  ASSUME IInv, StepInv, KeepsRunning, MainFirst(stack', Len(stack')),
         UNCHANGED <<step_mode, asked>>,
         \/ Depth' = Depth /\ (IsEntered => IsEntered')
         \/ Depth' = Depth + 1 /\ ~IsEntered /\ IsEntered'
  PROVE  StepInv'
<1>1. ModeIsAsked' /\ TooDeep' = TooDeep
  BY DEF StepInv, ModeIsAsked, TooDeep
<1>2. ASSUME asked.action \in {"over", "out"} PROVE (StepsFromThere /\ StepsFromNow /\ StepsFromNext)'
  <2>1. StepsFromThere /\ StepsFromNow /\ StepsFromNext /\ TooDeep \in Nat /\ Depth \in Nat
    BY <1>2, SoundNow, TooDeepIsNat DEF StepInv, Steps
  <2>2. StepsFromThere'
    BY <1>1, <2>1 DEF StepsFromThere, KeepsRunning
  <2>3. StepsFromNow'
    BY <1>1, <2>1 DEF StepsFromNow, KeepsRunning
  <2>4. StepsFromNext'
    BY <1>1, <2>1 DEF StepsFromNext
  <2> QED
    BY <2>2, <2>3, <2>4
<1> QED
  BY <1>1, <1>2 DEF StepInv

(* A statement begins: a step whose call has ended goes on from here.      *)
LEMMA StepsAtNext ==
  ASSUME IInv, StepInv, stack # <<>>, KeepsRunning, MainFirst(stack', Len(stack')),
         UNCHANGED <<step_mode, call_stack>>, asked' = AskedAtNext
  PROVE  StepInv'
<1>1. TooDeep' = TooDeep /\ asked \in AskedType
  BY SoundNow DEF TooDeep
<1>2. CASE asked.due = "next"
  <2>1. asked'.action = asked.action /\ asked'.from = Current /\ asked'.due = "now"
    BY <1>1, <1>2 DEF AskedAtNext, AskedType
  <2>2. ModeIsAsked'
    BY <2>1 DEF StepInv, ModeIsAsked
  <2>3. RunsAt(Current) /\ stack[Current].frame = Depth
    BY CurrentRuns DEF StepInv
  <2>4. RunsAt(Current) => stack'[Current].frame = Depth /\ Current \in 1 .. Len(stack') /\ Runs(stack'[Current])
    BY <2>3 DEF KeepsRunning, RunsAt
  <2>5. ASSUME asked.action \in {"over", "out"} PROVE Depth < TooDeep
    BY <1>2, <2>5 DEF StepInv, StepsFromNext
  <2> QED
    BY <1>1, <2>1, <2>2, <2>3, <2>4, <2>5
       DEF StepInv, StepsFromThere, StepsFromNow, StepsFromNext, RunsAt
<1>3. CASE asked.due # "next"
  <2>1. asked' = asked
    BY <1>3 DEF AskedAtNext
  <2>2. ModeIsAsked'
    BY <2>1 DEF StepInv, ModeIsAsked
  <2>3. ASSUME asked.action \in {"over", "out"} PROVE (StepsFromThere /\ StepsFromNow)'
    BY <1>1, <2>1, <2>3 DEF StepInv, StepsFromThere, StepsFromNow, KeepsRunning
  <2> QED
    BY <1>3, <2>1, <2>2, <2>3 DEF StepInv, StepsFromNext
<1> QED
  BY <1>2, <1>3

(* The user asks.                                                          *)
LEMMA StepsAsked ==
  ASSUME IInv, StepInv, stack # <<>>, KeepsRunning, MainFirst(stack', Len(stack')),
         NEW action \in Actions, step_mode' = StepMode(action, Depth), asked' = Ask(action)
  PROVE  StepInv'
<1>1. asked'.action = action /\ asked'.due = "there"
      /\ asked'.from = IF action = "out" THEN Caller ELSE Current
  BY DEF Ask
<1>2. ModeIsAsked'
  BY <1>1 DEF ModeIsAsked, StepMode, Actions, NoStep
<1>3. Depth \in Nat
  BY SoundNow
<1>4. CASE action = "over"
  <2>1. TooDeep' = Depth + 1
    BY <1>4 DEF TooDeep, StepMode
  <2>2. (RunsAt(asked.from))' /\ stack'[asked'.from].frame = Depth
    BY <1>1, <1>4, CurrentRuns DEF StepInv, KeepsRunning, RunsAt
  <2> QED
    BY <1>1, <1>2, <2>1, <2>2 DEF StepInv, StepsFromThere, StepsFromNow, StepsFromNext
<1>5. CASE action = "out"
  <2>1. TooDeep' = Depth
    BY <1>5 DEF TooDeep, StepMode
  <2>2. IF Depth = 0 THEN Caller = 0 ELSE RunsAt(Caller) /\ stack[Caller].frame + 1 = Depth
    BY CallerRuns DEF StepInv
  <2>3. \/ Depth = 0 /\ asked'.from = 0
        \/ (RunsAt(asked.from))' /\ stack'[asked'.from].frame + 1 = Depth
    BY <1>1, <1>5, <2>2 DEF KeepsRunning, RunsAt
  <2> QED
    BY <1>1, <1>2, <2>1, <2>3 DEF StepInv, StepsFromThere, StepsFromNow, StepsFromNext
<1>6. CASE action \notin {"over", "out"}
  BY <1>1, <1>2, <1>6 DEF StepInv
<1> QED
  BY <1>4, <1>5, <1>6

(* A record ends, and a call that ran with it.                             *)
LEMMA LeaveShape ==
  ASSUME IInv, MainFirst(stack, Len(stack)), stack # <<>>, Leave
  PROVE  /\ Len(stack) \in Nat \ {0} /\ Len(stack') = Len(stack) - 1
         /\ \A i \in 1 .. Len(stack) - 1 : stack'[i] = stack[i]
         /\ MainFirst(stack', Len(stack'))
         /\ Depth' \in Nat /\ Depth' <= Depth
         /\ Runs(Top) => Top.frame = Depth /\ (Depth' = Depth => stack' = <<>>)
<1> DEFINE n == Len(stack)
<1>1. /\ n \in Nat \ {0} /\ n - 1 \in Nat /\ n - 1 <= n /\ Depth \in Nat /\ Depth = Len(call_stack)
      /\ Top = stack[n] /\ stack \in Seq(Records) /\ call_stack \in Seq(Functions)
      /\ Sound(stack, n, call_stack, Depth)
  BY SoundNow, TopIsRecord
<1>2. stack' \in Seq(Records) /\ Len(stack') = n - 1 /\ \A i \in 1 .. n - 1 : stack'[i] = stack[i]
  <2>1. stack' = SubSeq(stack, 1, n - 1)
    BY DEF Leave, Below
  <2> QED
    BY <1>1, <2>1, Prefix, Zenon
<1>3. MainFirst(stack', Len(stack'))
  BY <1>1, <1>2 DEF MainFirst
<1>4. CASE Top.frame = 0
  <2>1. Depth' = Depth
    BY <1>4 DEF Leave, Depth
  <2>2. ASSUME Runs(Top) PROVE Depth = 0 /\ stack' = <<>>
    <3>1. n = 1
      <4>1. stack[n].kind = "call" /\ stack[n].fn = Main
        BY <1>1, <1>4, <2>2 DEF Runs
      <4>2. \A i \in 1 .. n : stack[i].kind = "call" /\ stack[i].fn = Main => i = 1
        BY DEF MainFirst
      <4> QED
        <5>1. n \in 1 .. n
          BY <1>1
        <5> HIDE DEF n
        <5> QED
          BY <4>1, <4>2, <5>1
    <3>2. stack' = <<>>
      BY <1>2, <3>1
    <3>3. Depth = 0
      <4>1. ~ \E e \in 1 .. Depth : TRUE
        BY <1>1, <1>4, <3>1 DEF Sound, Framed
      <4> QED
        BY <1>1, <4>1
    <3> QED
      BY <3>2, <3>3
  <2> QED
    BY <1>1, <1>2, <1>3, <1>4, <2>1, <2>2
<1>5. CASE Top.frame # 0
  <2>1. Depth > 0 /\ Top.frame = Depth
    <3>1. stack[n].frame # 0
      BY <1>1, <1>5
    <3>2. Depth > 0 /\ stack[n].frame = Depth
      <4>1. n \in Nat \ {0} /\ Depth \in Nat /\ Sound(stack, n, call_stack, Depth)
        BY <1>1
      <4> HIDE DEF n
      <4> QED
        BY <3>1, <4>1, DropFrame
    <3> QED
      BY <1>1, <3>2
  <2>2. call_stack' = SubSeq(call_stack, 1, Depth - 1) /\ Depth - 1 \in Nat /\ Depth - 1 <= Len(call_stack)
    BY <1>1, <1>5, <2>1 DEF Leave
  <2>3. Depth' = Depth - 1
    BY <1>1, <2>2, Prefix DEF Depth
  <2> QED
    BY <1>1, <1>2, <1>3, <2>1, <2>3
<1> QED
  BY <1>4, <1>5

LEMMA StepsLeft ==
  ASSUME IInv, StepInv, stack # <<>>, Leave, UNCHANGED step_mode
  PROVE  StepInv'
<1> DEFINE n == Len(stack)
<1>1. /\ n \in Nat \ {0} /\ Len(stack') = n - 1 /\ \A i \in 1 .. n - 1 : stack'[i] = stack[i]
      /\ MainFirst(stack', Len(stack')) /\ Depth' \in Nat /\ Depth' <= Depth
      /\ Runs(Top) => Top.frame = Depth /\ (Depth' = Depth => stack' = <<>>)
  BY LeaveShape DEF StepInv
<1>2. TooDeep' = TooDeep /\ asked \in AskedType /\ asked' = AskedIn(n - 1) /\ Top = stack[n] /\ Depth \in Nat
      /\ Sound(stack, n, call_stack, Depth)
  BY SoundNow DEF TooDeep, Leave, Top
<1>3. asked'.action = asked.action
  BY <1>2 DEF AskedIn, AskedType
<1>4. ModeIsAsked'
  BY <1>3 DEF StepInv, ModeIsAsked
<1>5. ASSUME NEW i, RunsAt(i), i # n PROVE RunsAt(i)' /\ stack'[i].frame = stack[i].frame
  <2>1. i \in 1 .. n - 1
    BY <1>1, <1>5 DEF RunsAt
  <2> QED
    BY <1>1, <1>5, <2>1 DEF RunsAt
<1>6. ASSUME asked.action \in {"over", "out"} PROVE (StepsFromThere /\ StepsFromNow /\ StepsFromNext)'
  <2>1. StepsFromThere /\ StepsFromNow /\ StepsFromNext /\ TooDeep \in Nat
    BY <1>6, SoundNow, TooDeepIsNat DEF StepInv, Steps
  <2>2. CASE asked.due # "next" /\ asked.from = n
    <3>1. asked'.due = "next"
      BY <1>1, <1>2, <2>2 DEF AskedIn, AskedType
    <3>2. Runs(Top) /\ Top.frame < TooDeep
      <4>1. asked.due \in {"there", "now"}
        BY <1>2, <2>2 DEF AskedType
      <4>2. RunsAt(n) /\ (stack[n].frame + 1 = TooDeep \/ stack[n].frame < TooDeep)
        BY <1>1, <2>1, <2>2, <4>1 DEF StepsFromThere, StepsFromNow
      <4>3. stack[n].frame \in 0 .. Depth
        BY <1>1, <1>2 DEF Sound, Framed
      <4> QED
        BY <1>2, <2>1, <4>2, <4>3 DEF RunsAt
    <3>3. Depth' < TooDeep /\ (Depth' + 1 = TooDeep => stack' = <<>>)
      BY <1>1, <1>2, <2>1, <3>2
    <3> QED
      BY <1>2, <3>1, <3>3 DEF StepsFromThere, StepsFromNow, StepsFromNext, IsEntered
  <2>3. CASE asked.due # "next" /\ asked.from # n
    <3>1. asked.from = 0 \/ RunsAt(asked.from)
      BY <1>2, <2>1, <2>3 DEF StepsFromThere, StepsFromNow, AskedType
    <3>2. asked' = asked
      BY <1>1, <1>2, <2>3, <3>1 DEF AskedIn, RunsAt
    <3>3. StepsFromThere'
      BY <1>2, <1>5, <2>1, <2>3, <3>2 DEF StepsFromThere
    <3>4. StepsFromNow'
      BY <1>2, <1>5, <2>1, <2>3, <3>2 DEF StepsFromNow
    <3> QED
      BY <2>3, <3>2, <3>3, <3>4 DEF StepsFromNext
  <2>4. CASE asked.due = "next"
    <3>1. asked'.due = "next"
      BY <1>2, <2>4 DEF AskedIn, AskedType
    <3>2. Depth < TooDeep /\ (Depth + 1 = TooDeep => IsEntered)
      BY <2>1, <2>4 DEF StepsFromNext
    <3>3. IsEntered => Runs(Top)
      <4>1. stack[n].frame # 0 <=> OwnFrame(stack[n])
        BY <1>1, <1>2 DEF Sound, Framed
      <4> QED
        BY <1>2, <4>1 DEF IsEntered, Runs, OwnFrame
    <3>4. Depth' < TooDeep /\ (Depth' + 1 = TooDeep => stack' = <<>>)
      BY <1>1, <1>2, <2>1, <3>2, <3>3
    <3> QED
      BY <1>2, <3>1, <3>4 DEF StepsFromThere, StepsFromNow, StepsFromNext, IsEntered
  <2> QED
    BY <2>2, <2>3, <2>4
<1> QED
  BY <1>1, <1>3, <1>4, <1>6 DEF StepInv

-----------------------------------------------------------------------------
(* Every action of the debugger preserves the invariant.                   *)
LEMMA CallSteps ==
  ASSUME IInv, StepInv, NEW fn \in Functions, Call(fn)
  PROVE  StepInv'
<1> DEFINE r == Activation(fn, "requires")
<1>1. r \in Records /\ r.fn = fn /\ fn # Main /\ r.phase = "requires"
  BY SoundNow, NewRecords, DebuggerAssumption DEF Phases
<1>2. /\ stack' = Append(stack, r) /\ UNCHANGED <<call_stack, step_mode, asked>>
      /\ stack # <<>> /\ Len(stack) \in Nat \ {0}
  BY EvaluatingTop, SoundNow DEF Call
<1> HIDE DEF r
<1>3. /\ Len(stack') = Len(stack) + 1
      /\ \A i \in 1 .. Len(stack) : stack'[i] = stack[i]
      /\ stack'[Len(stack) + 1] = r
  BY <1>1, <1>2, SoundNow, PushTop, Zenon
<1>4. KeepsRunning /\ MainFirst(stack', Len(stack'))
  BY <1>1, <1>2, <1>3, ShapeKeeps DEF StepInv
<1>5. ~IsEntered
  BY <1>2 DEF Call, IsEvaluating, InPhase, InTop, IsAtBreakpoint, IsEntered
<1> QED
  BY <1>2, <1>4, <1>5, StepsKept DEF Depth

LEMMA PushFrameSteps ==
  ASSUME IInv, StepInv, PushFrame
  PROVE  StepInv'
<1> DEFINE r == [Top EXCEPT !.phase = "entered", !.frame = Depth + 1]
           n == Len(stack)
<1>1. stack # <<>> /\ Top \in Records /\ Top.phase = "requires" /\ Top.kind = "call"
  BY SoundNow, InPhaseTop DEF PushFrame
<1>2. /\ Top = stack[n] /\ n \in Nat \ {0} /\ n - 1 \in Nat /\ Depth + 1 \in Nat
      /\ Sound(stack, n, call_stack, Depth)
  BY <1>1, SoundNow, TopIsRecord
<1>3. r \in Records /\ r.kind = "call" /\ r.fn = Top.fn /\ r.phase = "entered"
  BY <1>1, <1>2, EnteredRecord
<1>4. Top.fn # Main /\ Top.frame = 0
  BY <1>1, <1>2 DEF Sound, Based, Framed, OwnFrame
<1>5. /\ stack' = Append(Below, r) /\ call_stack' = Append(call_stack, Top.fn)
      /\ UNCHANGED <<step_mode, asked>>
  BY DEF PushFrame, Set
<1> HIDE DEF r
<1>6. /\ stack' \in Seq(Records) /\ Len(stack') = n /\ stack' # <<>>
      /\ \A i \in 1 .. n - 1 : stack'[i] = stack[i]
      /\ stack'[n] = r
  BY <1>1, <1>3, <1>5, SoundNow, SetTop, Zenon
<1>7. n - 1 \in Nat \ {0}
  <2>1. n # 1
    BY <1>2, <1>4 DEF StepInv, MainFirst
  <2> QED
    BY <1>2, <2>1
<1>8. KeepsRunning /\ MainFirst(stack', Len(stack'))
  <2>1. ~Runs(stack[n]) /\ stack'[n].fn # Main
    BY <1>2, <1>3, <1>4, <1>6 DEF Runs
  <2>2. \A i \in (n - 1) + 1 .. n : i = n
    BY <1>2
  <2>3. n - 1 <= n
    BY <1>2
  <2> QED
    BY <1>2, <1>6, <1>7, <2>1, <2>2, <2>3, ShapeKeeps DEF StepInv
<1>9. Depth' = Depth + 1
  BY <1>5, SoundNow DEF Depth
<1>10. ~IsEntered /\ IsEntered'
  BY <1>1, <1>3, <1>6 DEF IsEntered, Top
<1> QED
  BY <1>5, <1>8, <1>9, <1>10, StepsKept

(* The record on top stays and only goes on.                               *)
LEMMA TopSteps ==
  ASSUME IInv, StepInv, stack # <<>>, NEW r \in Records, stack' = Append(Below, r),
         r.kind = Top.kind, r.fn = Top.fn, r.frame = Top.frame
  PROVE  KeepsRunning /\ MainFirst(stack', Len(stack'))
<1> DEFINE n == Len(stack)
<1>1. Top = stack[n] /\ n \in Nat \ {0}
  BY SoundNow, TopIsRecord
<1>2. /\ Len(stack') = n
      /\ \A i \in 1 .. n - 1 : stack'[i] = stack[i]
      /\ stack'[n] = r
  BY SoundNow, SetTop, Zenon
<1>3. \A i \in 1 .. n : /\ stack'[i].kind = stack[i].kind /\ stack'[i].fn = stack[i].fn
                        /\ stack'[i].frame = stack[i].frame
  <2> SUFFICES ASSUME NEW i \in 1 .. n
               PROVE  /\ stack'[i].kind = stack[i].kind /\ stack'[i].fn = stack[i].fn
                      /\ stack'[i].frame = stack[i].frame
    OBVIOUS
  <2>1. CASE i = n
    BY <1>1, <1>2, <2>1
  <2>2. CASE i # n
    BY <1>1, <1>2, <2>2
  <2> QED
    BY <2>1, <2>2
<1> QED
  BY <1>1, <1>2, <1>3, ShapeKeeps DEF StepInv

LEMMA BeginStatementSteps ==
  ASSUME IInv, StepInv, NEW line, BeginStatement(line)
  PROVE  StepInv'
<1> DEFINE r == [Top EXCEPT !.phase = "checking"]
           k == Checkpoint(line)
           n == Len(stack)
<1>1. stack # <<>> /\ Top \in Records /\ Top.kind = "call"
  BY SoundNow, InPhaseTop DEF BeginStatement
<1>2. /\ r \in Records /\ r.kind = "call" /\ r.fn = Top.fn /\ r.frame = Top.frame
      /\ Top.fn \in Functions \cup {Main}
  <2>1. "checking" \in Phases
    BY DEF Phases
  <2> QED
    BY <1>1, <2>1, CallRecord, Zenon
<1>3. line \in Nat
  BY <1>2, DebuggerAssumption DEF BeginStatement
<1>4. k \in Records /\ k.kind = "checkpoint"
  BY <1>3, SoundNow, NewRecords
<1>5. /\ stack' = Append(Append(Below, r), k) /\ asked' = AskedAtNext
      /\ UNCHANGED <<call_stack, step_mode>>
  BY DEF BeginStatement
<1>6. Top = stack[n] /\ n \in Nat \ {0}
  BY <1>1, SoundNow, TopIsRecord
<1> DEFINE u == Append(Below, r)
<1> HIDE DEF r, k
<1>7. /\ u \in Seq(Records) /\ Len(u) = n
      /\ \A i \in 1 .. n - 1 : u[i] = stack[i]
      /\ u[n] = r
  BY <1>1, <1>2, SoundNow, SetTop, Zenon
<1>8. stack' = Append(u, k)
  BY <1>5
<1> HIDE DEF u
<1>9. /\ Len(stack') = n + 1 /\ \A i \in 1 .. n : stack'[i] = u[i]
      /\ stack'[n + 1] = k
  <2>1. /\ Len(stack') = Len(u) + 1 /\ \A i \in 1 .. Len(u) : stack'[i] = u[i]
        /\ stack'[Len(u) + 1] = k
    BY <1>4, <1>7, <1>8, PushTop, Zenon
  <2> QED
    BY <1>7, <2>1
<1>10. \A i \in 1 .. n : /\ stack'[i].kind = stack[i].kind /\ stack'[i].fn = stack[i].fn
                         /\ stack'[i].frame = stack[i].frame
  <2> SUFFICES ASSUME NEW i \in 1 .. n
               PROVE  /\ stack'[i].kind = stack[i].kind /\ stack'[i].fn = stack[i].fn
                      /\ stack'[i].frame = stack[i].frame
    OBVIOUS
  <2>1. CASE i = n
    BY <1>1, <1>2, <1>6, <1>7, <1>9, <2>1
  <2>2. CASE i # n
    BY <1>6, <1>7, <1>9, <2>2
  <2> QED
    BY <2>1, <2>2
<1>11. KeepsRunning /\ MainFirst(stack', Len(stack'))
  BY <1>4, <1>6, <1>9, <1>10, ShapeKeeps DEF StepInv
<1> QED
  BY <1>1, <1>5, <1>11, StepsAtNext

LEMMA BeginSpanSteps ==
  ASSUME IInv, StepInv, BeginSpan
  PROVE  StepInv'
<1> DEFINE k == Checkpoint(0)
           n == Len(stack)
           u == Append(stack, Span)
<1>1. Span \in Records /\ Span.kind = "span" /\ k \in Records /\ k.kind = "checkpoint"
  BY SoundNow, NewRecords
<1>2. /\ stack' = Append(u, k) /\ asked' = AskedAtNext /\ UNCHANGED <<call_stack, step_mode>>
      /\ stack # <<>> /\ n \in Nat \ {0}
  BY EvaluatingTop, SoundNow DEF BeginSpan
<1> HIDE DEF k
<1>3. /\ u \in Seq(Records) /\ Len(u) = n + 1 /\ \A i \in 1 .. n : u[i] = stack[i]
      /\ u[n + 1] = Span
  BY <1>1, SoundNow, PushTop, Zenon
<1> HIDE DEF u
<1>4. /\ Len(stack') = (n + 1) + 1 /\ \A i \in 1 .. n + 1 : stack'[i] = u[i]
      /\ stack'[(n + 1) + 1] = k
  <2>1. /\ Len(stack') = Len(u) + 1 /\ \A i \in 1 .. Len(u) : stack'[i] = u[i]
        /\ stack'[Len(u) + 1] = k
    BY <1>1, <1>2, <1>3, PushTop, Zenon
  <2> QED
    BY <1>3, <2>1
<1>5. /\ \A i \in 1 .. n : stack'[i] = stack[i]
      /\ stack'[n + 1] = Span
  BY <1>2, <1>3, <1>4
<1>6. \A i \in n + 1 .. Len(stack') : stack'[i].kind # "call"
  BY <1>1, <1>2, <1>4, <1>5
<1>7. KeepsRunning /\ MainFirst(stack', Len(stack'))
  BY <1>2, <1>4, <1>5, <1>6, ShapeKeeps DEF StepInv
<1> QED
  BY <1>2, <1>7, StepsAtNext

LEMMA EndBodySteps ==
  ASSUME IInv, StepInv, EndBody
  PROVE  StepInv'
<1> DEFINE r == [Top EXCEPT !.phase = "ensures"]
<1>1. stack # <<>> /\ Top \in Records /\ Top.phase = "body" /\ Top.kind = "call"
  BY SoundNow, InPhaseTop DEF EndBody
<1>2. r \in Records /\ r.kind = Top.kind /\ r.fn = Top.fn /\ r.frame = Top.frame
  <2>1. "ensures" \in Phases
    BY DEF Phases
  <2> QED
    BY <1>1, <2>1, CallRecord, Zenon
<1>3. stack' = Append(Below, r) /\ UNCHANGED <<call_stack, step_mode, asked>>
  BY DEF EndBody, Set
<1> HIDE DEF r
<1>4. KeepsRunning /\ MainFirst(stack', Len(stack'))
  BY <1>1, <1>2, <1>3, TopSteps
<1>5. ~IsEntered
  BY <1>1 DEF IsEntered
<1> QED
  BY <1>3, <1>4, <1>5, StepsKept DEF Depth

LEMMA NextBreakpointSteps ==
  ASSUME IInv, StepInv, NextBreakpoint
  PROVE  StepInv'
<1> DEFINE r == [Top EXCEPT !.next = @ + 1]
<1>1. stack # <<>> /\ Top \in Records /\ Top.kind = "checkpoint"
  BY SoundNow, TopIsRecord DEF NextBreakpoint, IsMiss, IsAtBreakpoint, InTop
<1>2. r \in Records /\ r.kind = Top.kind /\ r.fn = Top.fn /\ r.frame = Top.frame
  BY <1>1, CheckpointRecord
<1>3. stack' = Append(Below, r) /\ UNCHANGED <<call_stack, step_mode, asked>>
  BY DEF NextBreakpoint, Set
<1> HIDE DEF r
<1>4. KeepsRunning /\ MainFirst(stack', Len(stack'))
  BY <1>1, <1>2, <1>3, TopSteps
<1>5. ~IsEntered
  BY <1>1 DEF IsEntered
<1> QED
  BY <1>3, <1>4, <1>5, StepsKept DEF Depth

(* Back from a checkpoint.                                                 *)
LEMMA ProceedSteps ==
  ASSUME IInv, StepInv, InTop("checkpoint"), Proceed
  PROVE  KeepsRunning /\ MainFirst(stack', Len(stack'))
<1> DEFINE n == Len(stack)
           q == stack[n - 1]
           r == [q EXCEPT !.phase = "body"]
<1>1. /\ stack # <<>> /\ Top.kind = "checkpoint" /\ Top = stack[n] /\ n \in Nat \ {0}
      /\ Sound(stack, n, call_stack, Depth) /\ stack \in Seq(Records)
  BY SoundNow, TopIsRecord DEF InTop
<1>2. n > 1 /\ q.kind # "checkpoint"
  BY <1>1 DEF Sound, Based
<1>3. q \in Records /\ n - 1 \in Nat \ {0} /\ n - 2 \in Nat /\ n - 2 <= n /\ (n - 2) + 1 = n - 1
  BY <1>1, <1>2
<1>4. r \in Records /\ r.kind = q.kind /\ r.fn = q.fn /\ r.frame = q.frame
  BY <1>2, <1>3, StatementRecord
<1>5. stack' = Append(SubSeq(stack, 1, n - 2), r)
  BY DEF Proceed
<1> HIDE DEF r
<1>6. /\ Len(stack') = n - 1
      /\ \A i \in 1 .. n - 2 : stack'[i] = stack[i]
      /\ stack'[n - 1] = r
  <2> DEFINE m == n - 2
  <2>1. m \in Nat /\ m <= n /\ m + 1 = n - 1
    BY <1>3
  <2> HIDE DEF m
  <2>2. LET t == Append(SubSeq(stack, 1, m), r) IN
           /\ Len(t) = m + 1
           /\ \A i \in 1 .. m : t[i] = stack[i]
           /\ t[m + 1] = r
    BY <1>1, <1>4, <2>1, PutOn
  <2> QED
    BY <1>5, <2>1, <2>2 DEF m
<1>7. \A i \in 1 .. n - 1 : /\ stack'[i].kind = stack[i].kind /\ stack'[i].fn = stack[i].fn
                            /\ stack'[i].frame = stack[i].frame
  <2> SUFFICES ASSUME NEW i \in 1 .. n - 1
               PROVE  /\ stack'[i].kind = stack[i].kind /\ stack'[i].fn = stack[i].fn
                      /\ stack'[i].frame = stack[i].frame
    OBVIOUS
  <2>1. CASE i = n - 1
    BY <1>4, <1>6, <2>1
  <2>2. CASE i # n - 1
    <3>1. i \in 1 .. n - 2
      <4>1. n \in Nat
        BY <1>1
      <4> HIDE DEF n
      <4> QED
        BY <2>2, <4>1
    <3> QED
      BY <1>6, <3>1
  <2> QED
    BY <2>1, <2>2
<1>8. ~Runs(stack[n]) /\ \A i \in (n - 1) + 1 .. n : i = n
  BY <1>1 DEF Runs
<1>9. \A i \in (n - 1) + 1 .. Len(stack') : FALSE
  BY <1>3, <1>6
<1>10. n - 1 <= n /\ n - 1 <= Len(stack') /\ Len(stack') \in Nat
  BY <1>3, <1>6
<1> QED
  BY <1>1, <1>3, <1>7, <1>8, <1>9, <1>10, ShapeKeeps DEF StepInv

LEMMA PassSteps ==
  ASSUME IInv, StepInv, Pass
  PROVE  StepInv'
<1>1. InTop("checkpoint") /\ Proceed /\ UNCHANGED <<call_stack, step_mode, asked>>
  BY DEF Pass, IsWithoutHit
<1>2. KeepsRunning /\ MainFirst(stack', Len(stack'))
  BY <1>1, ProceedSteps
<1>3. ~IsEntered
  BY <1>1 DEF InTop, IsEntered
<1> QED
  BY <1>1, <1>2, <1>3, StepsKept DEF Depth

LEMMA PauseSteps ==
  ASSUME IInv, StepInv, NEW action \in Actions, Pause(action)
  PROVE  StepInv'
<1>1. InTop("checkpoint") /\ stack # <<>>
  BY DEF Pause, Fires, IsHit, IsWithoutHit, IsAtBreakpoint, InTop
<1>2. Proceed /\ step_mode' = StepMode(action, Top.depth) /\ asked' = Ask(action)
  BY DEF Pause
<1>3. KeepsRunning /\ MainFirst(stack', Len(stack'))
  BY <1>1, <1>2, ProceedSteps
<1>4. Top.depth = Depth
  BY <1>1, CheckpointsAreCurrent DEF SnapshotIsCurrent
<1> QED
  BY <1>1, <1>2, <1>3, <1>4, StepsAsked

LEMMA StartSteps ==
  ASSUME IInv, StepInv, Start
  PROVE  StepInv'
<1> DEFINE r == Activation(Main, "entered")
<1>1. r \in Records /\ r.kind = "call" /\ r.fn = Main /\ r.phase = "entered"
  BY SoundNow, NewRecords DEF Phases
<1>2. stack = <<>> /\ stack' = <<r>> /\ UNCHANGED <<call_stack, step_mode, asked>>
  BY DEF Start
<1> HIDE DEF r
<1>3. Len(stack') = 1 /\ stack'[1] = r
  BY <1>2
<1>4. MainFirst(stack', Len(stack'))
  BY <1>1, <1>3 DEF MainFirst
<1>5. KeepsRunning
  BY <1>2 DEF KeepsRunning, RunsAt
<1>6. IsEntered'
  BY <1>1, <1>3 DEF IsEntered, Top
<1> QED
  BY <1>2, <1>4, <1>5, <1>6, StepsKept DEF Depth

LEMMA InitSteps == Init => StepInv
BY DEF Init, NoStep, StepInv, MainFirst, ModeIsAsked

LEMMA NextSteps == IInv /\ StepInv /\ [Next]_vars => StepInv'
<1> SUFFICES ASSUME IInv, StepInv, [Next]_vars PROVE StepInv'
  OBVIOUS
<1>1. CASE Start
  BY <1>1, StartSteps
<1>2. CASE Finish
  BY <1>2, StepsLeft, SoundNow, InPhaseTop DEF Finish
<1>3. ASSUME NEW fn \in Functions, Call(fn) PROVE StepInv'
  BY <1>3, CallSteps
<1>4. CASE PushFrame
  BY <1>4, PushFrameSteps
<1>5. CASE EndBody
  BY <1>5, EndBodySteps
<1>6. CASE Return
  BY <1>6, StepsLeft, SoundNow, InPhaseTop DEF Return
<1>7. ASSUME NEW line, BeginStatement(line) PROVE StepInv'
  BY <1>7, BeginStatementSteps
<1>8. CASE BeginSpan
  BY <1>8, BeginSpanSteps
<1>9. CASE Raise \/ UNCHANGED vars
  <2>1. UNCHANGED <<stack, call_stack, step_mode, asked>>
    BY <1>9 DEF Raise, vars
  <2> QED
    BY <2>1 DEF StepInv, ModeIsAsked, StepsFromThere, StepsFromNow, StepsFromNext, TooDeep, RunsAt,
                IsEntered, Top, Depth
<1>10. CASE Unwind
  <2>1. stack # <<>>
    BY <1>10 DEF Unwind, IInv, TypeOK
  <2> QED
    BY <1>10, <2>1, StepsLeft DEF Unwind
<1>11. CASE NextBreakpoint
  BY <1>11, NextBreakpointSteps
<1>12. CASE Pass
  BY <1>12, PassSteps
<1>13. ASSUME NEW action \in Actions, Pause(action) PROVE StepInv'
  BY <1>13, PauseSteps
<1> QED
  BY <1>1, <1>2, <1>3, <1>4, <1>5, <1>6, <1>7, <1>8, <1>9, <1>10, <1>11, <1>12, <1>13
     DEF Next

(* Whatever calls, errors and nested pauses come before, a step over or a  *)
(* step out stops at the first statement that is outside the call it was   *)
(* asked from or after it has ended, and nowhere earlier (StepDue in       *)
(* debug_checkpoint of statements.rs).                                     *)
THEOREM StepsStopWhereAsked == Spec => []StepsStopInTime
<1>1. IInv /\ StepInv => StepsStopInTime
  <2> SUFFICES ASSUME IInv, StepInv, IsWithoutHit, IsUndisturbed
               PROVE  /\ breakpoints # <<>> /\ Fires => IsAsked
                      /\ IsDue => Fires
    BY DEF StepsStopInTime
  <2>1. /\ stack # <<>> /\ Top.pending = step_mode /\ Top.depth = Depth /\ Depth \in Nat
        /\ step_mode \in StepModes /\ ~IsHit /\ asked \in AskedType
    <3>1. InTop("checkpoint") /\ Top.next > Len(breakpoints)
      BY DEF IsWithoutHit
    <3>2. stack # <<>> /\ Top \in Records /\ Top.kind = "checkpoint"
      BY <3>1, SoundNow, TopIsRecord DEF InTop
    <3>3. Top.next \in Nat
      BY <3>2 DEF Records
    <3>4. Len(breakpoints) \in Nat
      BY DebuggerAssumption DEF IInv, TypeOK
    <3>5. ~IsHit
      BY <3>1, <3>3, <3>4 DEF IsHit, IsAtBreakpoint
    <3> QED
      BY <3>1, <3>2, <3>5, SoundNow, CheckpointsAreCurrent DEF IsUndisturbed, SnapshotIsCurrent
  <2>2. CASE asked.action = "into"
    <3>1. step_mode.mode = "into"
      BY <2>2 DEF StepInv, ModeIsAsked
    <3> QED
      BY <2>1, <2>2, <3>1 DEF IsDue, IsAsked, Fires, StepDue
  <2>3. CASE asked.action = "continue"
    <3>1. step_mode.mode = "none"
      BY <2>3 DEF StepInv, ModeIsAsked
    <3> QED
      BY <2>1, <2>3, <3>1 DEF IsDue, IsAsked, Fires, StepDue
  <2>4. CASE asked.action \in {"over", "out"}
    <3>1. step_mode.mode = asked.action /\ TooDeep \in Nat
      BY <2>4, TooDeepIsNat DEF StepInv, ModeIsAsked, Steps
    <3>2. StepDue(Top.pending, Top.depth) <=> Depth < TooDeep
      <4>1. step_mode.depth \in Nat
        BY <2>1, <2>4, <3>1 DEF StepModes, NoStep
      <4> QED
        BY <2>1, <2>4, <3>1, <4>1 DEF StepDue, TooDeep
    <3>3. StepsFromThere /\ StepsFromNow /\ StepsFromNext
      BY <2>4 DEF StepInv
    <3>4. CASE asked.due # "next" /\ RunsAt(asked.from)
      <4>1. stack[asked.from].frame \in Nat
        BY <3>4, SoundNow DEF RunsAt, Sound, Framed
      <4>2. (\A i \in Running : i <= asked.from) <=> Depth <= stack[asked.from].frame
        BY <3>4, LastByDepth DEF StepInv
      <4>3. asked.due = "there" /\ RunsAt(asked.from) =>
              TooDeep = 0 \/ stack[asked.from].frame + 1 = TooDeep
        BY <3>3 DEF StepsFromThere
      <4>4. asked.due = "now" => stack[asked.from].frame < TooDeep
        BY <3>3 DEF StepsFromNow
      <4>5. asked.due \in {"there", "now"}
        BY <2>1, <3>4 DEF AskedType
      <4>6. asked.due = "there" => asked.from # 0
        BY <3>4 DEF RunsAt
      <4>7. asked.due = "there" => stack[asked.from].frame + 1 = TooDeep
        BY <3>3, <4>6 DEF StepsFromThere
      <4> QED
        BY <2>1, <2>4, <3>1, <3>2, <4>1, <4>2, <4>4, <4>5, <4>7 DEF IsDue, IsAsked, Fires
    <3>5. CASE asked.due # "next" /\ ~RunsAt(asked.from)
      <4>1. asked.from = 0 /\ TooDeep = 0
        BY <2>1, <3>3, <3>5 DEF StepsFromThere, StepsFromNow, AskedType
      <4>2. Current \in Running /\ Current \in Nat \ {0}
        BY <2>1, SoundNow, CurrentRuns DEF StepInv, RunsAt, Running, IsRunning, Runs
      <4> QED
        BY <2>1, <2>4, <3>2, <4>1, <4>2 DEF IsDue, Fires
    <3>6. CASE asked.due = "next"
      BY <2>1, <2>4, <3>2, <3>3, <3>6 DEF IsDue, IsAsked, Fires, StepsFromNext
    <3> QED
      BY <3>4, <3>5, <3>6
  <2> QED
    BY <2>1, <2>2, <2>3, <2>4 DEF AskedType, Actions
<1> QED
  BY <1>1, InitIInv, NextIInv, InitSteps, NextSteps, PTL DEF Spec
=============================================================================

--------------------------- MODULE McpServer_proofs ---------------------------
(***************************************************************************)
(* What phs mcp keeps to whatever lines a client sends, however long they  *)
(* and their programs are, and whatever the limits.                        *)
(***************************************************************************)
EXTENDS McpServer, WellFoundedInduction, TLAPS

-----------------------------------------------------------------------------
(* Every nonempty set of naturals has a least element.                     *)
LEMMA LeastNatural ==
  ASSUME NEW T, T \subseteq Nat, T # {}
  PROVE  \E x \in T : \A y \in T : x <= y
<1>1. PICK x \in T : \A y \in T : ~ (<<y, x>> \in OpToRel(<, Nat))
  BY NatLessThanWellFounded, WFMin
<1>2. \A y \in T : ~(y < x)
  BY <1>1 DEF OpToRel
<1> QED
  BY <1>2

(* The functions that Owed and Yields choose exist.                        *)
OwedUpTo(ls, n, ids) ==
  ids = [k \in 0 .. n |->
           IF k = 0 THEN <<>> ELSE WithAnswer(ids[k - 1], ls[k])]

LEMMA OwedExists ==
  ASSUME NEW ls, NEW n \in Nat
  PROVE  \E ids : OwedUpTo(ls, n, ids)
<1> DEFINE T == {k \in Nat : ~ \E ids : OwedUpTo(ls, k, ids)}
<1>1. SUFFICES ASSUME T # {} PROVE FALSE
  OBVIOUS
<1>2. PICK k \in T : \A j \in T : k <= j
  <2> HIDE DEF T
  <2>1. T \subseteq Nat
    BY DEF T
  <2> QED
    BY <1>1, <2>1, LeastNatural
<1>3. k \in Nat /\ ~ \E ids : OwedUpTo(ls, k, ids)
  OBVIOUS
<1>4. CASE k = 0
  <2>1. OwedUpTo(ls, 0, [j \in 0 .. 0 |-> <<>>])
    BY DEF OwedUpTo
  <2> QED
    BY <1>3, <1>4, <2>1
<1>5. CASE k # 0
  <2>1. k - 1 \in Nat /\ k - 1 \notin T
    BY <1>2, <1>3, <1>5
  <2>2. PICK ids : OwedUpTo(ls, k - 1, ids)
    BY <2>1
  <2> DEFINE longer == [j \in 0 .. k |-> IF j = k THEN WithAnswer(ids[k - 1], ls[k]) ELSE ids[j]]
  <2>3. ASSUME NEW j \in 0 .. k
        PROVE  longer[j] = IF j = 0 THEN <<>> ELSE WithAnswer(longer[j - 1], ls[j])
    BY <1>3, <1>5, <2>2 DEF OwedUpTo
  <2>4. OwedUpTo(ls, k, longer)
    BY <2>3 DEF OwedUpTo
  <2> QED
    BY <1>3, <2>4
<1> QED
  BY <1>4, <1>5

LEMMA OwedUnfolds ==
  ASSUME NEW ls, Len(ls) \in Nat
  PROVE  /\ Owed(ls)[0] = <<>>
         /\ \A n \in 1 .. Len(ls) : Owed(ls)[n] = WithAnswer(Owed(ls)[n - 1], ls[n])
<1>1. \E ids : OwedUpTo(ls, Len(ls), ids)
  BY OwedExists
<1>2. OwedUpTo(ls, Len(ls), Owed(ls))
  BY <1>1 DEF OwedUpTo, Owed
<1> QED
  BY <1>2 DEF OwedUpTo

YieldsUpTo(statements, n, among) ==
  among = [k \in 0 .. n |->
             IF k = 0 THEN <<>> ELSE WithValue(among[k - 1], k, statements[k])]

LEMMA YieldsExist ==
  ASSUME NEW statements, NEW n \in Nat
  PROVE  \E among : YieldsUpTo(statements, n, among)
<1> DEFINE T == {k \in Nat : ~ \E among : YieldsUpTo(statements, k, among)}
<1>1. SUFFICES ASSUME T # {} PROVE FALSE
  OBVIOUS
<1>2. PICK k \in T : \A j \in T : k <= j
  <2> HIDE DEF T
  <2>1. T \subseteq Nat
    BY DEF T
  <2> QED
    BY <1>1, <2>1, LeastNatural
<1>3. k \in Nat /\ ~ \E among : YieldsUpTo(statements, k, among)
  OBVIOUS
<1>4. CASE k = 0
  <2>1. YieldsUpTo(statements, 0, [j \in 0 .. 0 |-> <<>>])
    BY DEF YieldsUpTo
  <2> QED
    BY <1>3, <1>4, <2>1
<1>5. CASE k # 0
  <2>1. k - 1 \in Nat /\ k - 1 \notin T
    BY <1>2, <1>3, <1>5
  <2>2. PICK among : YieldsUpTo(statements, k - 1, among)
    BY <2>1
  <2> DEFINE last   == WithValue(among[k - 1], k, statements[k])
             longer == [j \in 0 .. k |-> IF j = k THEN last ELSE among[j]]
  <2>3. ASSUME NEW j \in 0 .. k
        PROVE  longer[j] = IF j = 0 THEN <<>> ELSE WithValue(longer[j - 1], j, statements[j])
    BY <1>3, <1>5, <2>2 DEF YieldsUpTo
  <2>4. YieldsUpTo(statements, k, longer)
    BY <2>3 DEF YieldsUpTo
  <2> QED
    BY <1>3, <2>4
<1> QED
  BY <1>4, <1>5

LEMMA YieldsUnfold ==
  ASSUME NEW statements, Len(statements) \in Nat
  PROVE  /\ Yields(statements)[0] = <<>>
         /\ \A n \in 1 .. Len(statements) :
              Yields(statements)[n] = WithValue(Yields(statements)[n - 1], n, statements[n])
<1>1. \E among : YieldsUpTo(statements, Len(statements), among)
  BY YieldsExist
<1>2. YieldsUpTo(statements, Len(statements), Yields(statements))
  BY <1>1 DEF YieldsUpTo, Yields
<1> QED
  BY <1>2 DEF YieldsUpTo

(* The values among the first m statements come first among those of the   *)
(* first n, and the others are of statements after the first m.            *)
Extends(longer, shorter, m) ==
  /\ longer \in Seq(Nat) /\ shorter \in Seq(Nat)
  /\ Len(shorter) <= Len(longer)
  /\ \A i \in 1 .. Len(shorter) : longer[i] = shorter[i]
  /\ \A i \in Len(shorter) + 1 .. Len(longer) : longer[i] > m

LEMMA YieldsAreNumbers ==
  ASSUME NEW statements, Len(statements) \in Nat, NEW n \in 0 .. Len(statements)
  PROVE  Yields(statements)[n] \in Seq(Nat)
<1> DEFINE ys == Yields(statements)
           T  == {k \in 0 .. Len(statements) : ys[k] \notin Seq(Nat)}
<1>1. /\ ys[0] = <<>>
      /\ \A k \in 1 .. Len(statements) :
           ys[k] = WithValue(ys[k - 1], k, statements[k])
  BY YieldsUnfold
<1> HIDE DEF ys
<1>2. SUFFICES ASSUME T # {} PROVE FALSE
  BY DEF ys
<1>3. PICK k \in T : \A j \in T : k <= j
  <2> HIDE DEF T
  <2>1. T \subseteq Nat
    BY DEF T
  <2> QED
    BY <1>2, <2>1, LeastNatural
<1>4. k \in 0 .. Len(statements) /\ ys[k] \notin Seq(Nat)
  OBVIOUS
<1>5. k # 0
  <2>1. ys[0] \in Seq(Nat)
    BY <1>1
  <2> QED
    BY <1>4, <2>1
<1>6. k \in 1 .. Len(statements) /\ k - 1 \in 0 .. Len(statements) /\ k - 1 \notin T
  BY <1>3, <1>4, <1>5
<1>7. ys[k - 1] \in Seq(Nat)
  BY <1>6
<1>8. ys[k] = IF statements[k].kind = "value" THEN Append(ys[k - 1], k) ELSE ys[k - 1]
  BY <1>1, <1>6 DEF WithValue
<1> QED
  BY <1>4, <1>6, <1>7, <1>8

LEMMA YieldsExtend ==
  ASSUME NEW statements, Len(statements) \in Nat,
         NEW n \in 0 .. Len(statements), NEW m \in 0 .. n
  PROVE  Extends(Yields(statements)[n], Yields(statements)[m], m)
<1> DEFINE ys == Yields(statements)
           T  == {k \in m .. Len(statements) : ~Extends(ys[k], ys[m], m)}
<1>1. /\ \A k \in 0 .. Len(statements) : ys[k] \in Seq(Nat)
      /\ \A k \in 1 .. Len(statements) :
           ys[k] = WithValue(ys[k - 1], k, statements[k])
  BY YieldsUnfold, YieldsAreNumbers
<1> HIDE DEF ys
<1>2. SUFFICES ASSUME T # {} PROVE FALSE
  BY DEF ys
<1>3. PICK k \in T : \A j \in T : k <= j
  <2> HIDE DEF T
  <2>1. T \subseteq Nat
    BY DEF T
  <2> QED
    BY <1>2, <2>1, LeastNatural
<1>4. k \in m .. Len(statements) /\ ~Extends(ys[k], ys[m], m)
  OBVIOUS
<1>5. k # m
  <2>1. Extends(ys[m], ys[m], m)
    BY <1>1 DEF Extends
  <2> QED
    BY <1>4, <2>1
<1>6. /\ k \in 1 .. Len(statements) /\ k - 1 \in m .. Len(statements) /\ k - 1 \notin T
      /\ k > m /\ k \in Nat
  BY <1>3, <1>4, <1>5
<1>7. Extends(ys[k - 1], ys[m], m)
  BY <1>6
<1>8. ys[k] = IF statements[k].kind = "value" THEN Append(ys[k - 1], k) ELSE ys[k - 1]
  BY <1>1, <1>6 DEF WithValue
<1>9. CASE statements[k].kind = "value"
  <2>1. ys[k] = Append(ys[k - 1], k)
    BY <1>8, <1>9
  <2> DEFINE before == ys[k - 1]
             first  == ys[m]
  <2>2. /\ before \in Seq(Nat) /\ first \in Seq(Nat) /\ Len(first) <= Len(before)
        /\ \A i \in 1 .. Len(first) : before[i] = first[i]
        /\ \A i \in Len(first) + 1 .. Len(before) : before[i] > m
    BY <1>7 DEF Extends
  <2>3. ys[k] = Append(before, k) /\ k \in Nat /\ k > m
    BY <1>6, <2>1
  <2> HIDE DEF before, first
  <2>4. Extends(Append(before, k), first, m)
    BY <2>2, <2>3 DEF Extends
  <2> QED
    BY <1>4, <2>3, <2>4 DEF first
<1> QED
  BY <1>4, <1>7, <1>8, <1>9
-----------------------------------------------------------------------------
(* The inductive invariant. First what the thread of phs mcp is doing: a   *)
(* process runs exactly while it waits for one, and it is that of the line *)
(* read last.                                                              *)
Fields == {"pc", "tool", "program", "age", "time", "thread", "next", "bytes", "results",
           "findings", "code", "report"}

Waits ==
  /\ server.pc \in {"poll", "deadline"} /\ DOMAIN server = {"pc", "id"}
  /\ at - 1 \in 1 .. Len(lines) /\ RunsChild(lines[at - 1])
  /\ server.id = lines[at - 1].id
  /\ child.pc \in {"starting", "waiting", "exited", "crashed"} /\ DOMAIN child = Fields
  /\ child.tool \in {"evaluate", "check"}
  /\ child.program = lines[at - 1].program

ServerInv ==
  /\ lines \in Lines
  /\ at \in 1 .. Len(lines) + 1
  /\ (server = Reading /\ child = NoChild) \/ Waits

LEMMA ReadingIsNotWaiting ==
  /\ Reading.pc \notin {"poll", "deadline"}
  /\ NoChild.pc \notin {"starting", "waiting", "exited", "crashed"}
BY DEF Reading, NoChild

LEMMA LinesAreCounted == \A ls \in Lines : Len(ls) \in Nat
BY LinesAssumption, Zenon

LEMMA ServesAtFirst == Init => ServerInv
BY LinesAreCounted DEF Init, ServerInv

(* What the process does is no business of the server's.                   *)
LEMMA ProcessKeepsServer ==
  ASSUME ServerInv, UNCHANGED <<lines, at, outbox, server>>,
         child.pc # "none", DOMAIN child' = DOMAIN child,
         child'.pc \in {"starting", "waiting", "exited", "crashed"},
         child'.tool = child.tool, child'.program = child.program
  PROVE  ServerInv'
BY DEF ServerInv, Waits, NoChild

(* A step of the process goes on from where it was.                        *)
Proceeds ==
  /\ UNCHANGED <<prompt, lines, at, outbox, server>>
  /\ child.pc \in {"starting", "waiting"}
  /\ DOMAIN child = Fields /\ DOMAIN child' = Fields
  /\ child'.pc \in {"waiting", "exited", "crashed"}
  /\ child'.tool = child.tool /\ child'.program = child.program
  /\ child'.age = child.age /\ child'.time = child.time

LEMMA ProcessProceeds == ASSUME ServerInv, Process PROVE Proceeds
<1>1. child.pc \in {"starting", "waiting"} => DOMAIN child = Fields
  BY DEF ServerInv, Waits, NoChild
<1>2. CASE RunCheck
  BY <1>1, <1>2 DEF RunCheck, Proceeds, Fields
<1>3. CASE StartEval
  BY <1>1, <1>3 DEF StartEval, Proceeds, Fields
<1>4. CASE PrintReport
  BY <1>1, <1>4 DEF PrintReport, Proceeds, Fields
<1>5. CASE WatchdogAnswers
  BY <1>1, <1>5 DEF WatchdogAnswers, Proceeds, Fields
<1>6. CASE StatementFails
  BY <1>1, <1>6 DEF StatementFails, AtStatement, Evaluating, Failing, Proceeds, Fields
<1>7. CASE StatementYields
  BY <1>1, <1>7 DEF StatementYields, AtStatement, Evaluating, Added, EndsRun, Proceeds, Fields
<1>8. CASE StatementIsSilent
  BY <1>1, <1>8 DEF StatementIsSilent, AtStatement, Evaluating, Proceeds, Fields
<1>9. CASE HitsLimit
  BY <1>1, <1>9 DEF HitsLimit, AtStatement, Evaluating, EndsRun, Proceeds, Fields
<1>10. CASE EndProgram
  BY <1>1, <1>10 DEF EndProgram, Evaluating, Proceeds, Fields
<1>11. CASE Panics
  BY <1>1, <1>11 DEF Panics, AtStatement, Evaluating, Proceeds, Fields
<1>12. CASE Aborts
  BY <1>1, <1>12 DEF Aborts, AtStatement, Evaluating, Proceeds, Fields
<1> QED
  BY <1>2, <1>3, <1>4, <1>5, <1>6, <1>7, <1>8, <1>9, <1>10, <1>11, <1>12 DEF Process

(* Time passes for the process, and nothing else changes.                  *)
LEMMA TickPasses ==
  ASSUME ServerInv, Tick
  PROVE  /\ UNCHANGED <<prompt, lines, at, outbox, server>>
         /\ child.pc \in {"starting", "waiting", "exited", "crashed"}
         /\ DOMAIN child = Fields /\ DOMAIN child' = Fields
         /\ child'.age = IF child.age < Limit THEN child.age + 1 ELSE child.age
         /\ child'.time = IF child.pc = "waiting" /\ child.time < WatchdogAt
                          THEN child.time + 1 ELSE child.time
         /\ \A x \in Fields \ {"age", "time"} : child'[x] = child[x]
<1>1. /\ DOMAIN child = Fields
      /\ child.pc \in {"starting", "waiting", "exited", "crashed"}
      /\ child' = Timed(Aged(child))
      /\ UNCHANGED <<prompt, lines, at, outbox, server>>
  BY DEF Tick, ServerInv, Waits
<1> DEFINE aged == Aged(child)
<1>2. /\ DOMAIN aged = Fields
      /\ aged.age = IF child.age < Limit THEN child.age + 1 ELSE child.age
      /\ \A x \in Fields \ {"age"} : aged[x] = child[x]
  BY <1>1 DEF Aged, Fields
<1>3. aged.pc = child.pc /\ aged.time = child.time
  BY <1>2 DEF Fields
<1> HIDE DEF aged
<1>4. child' = Timed(aged)
  BY <1>1 DEF aged
<1>5. /\ DOMAIN child' = Fields
      /\ child'.time = IF child.pc = "waiting" /\ child.time < WatchdogAt
                       THEN child.time + 1 ELSE child.time
      /\ \A x \in Fields \ {"time"} : child'[x] = aged[x]
  BY <1>2, <1>3, <1>4 DEF Timed, Fields
<1> QED
  BY <1>1, <1>2, <1>5 DEF Fields

LEMMA StepsKeepServer == ServerInv /\ [Next]_vars => ServerInv'
<1> SUFFICES ASSUME ServerInv, [Next]_vars PROVE ServerInv'
  OBVIOUS
<1>1. Len(lines) \in Nat /\ at \in Nat
  BY LinesAreCounted DEF ServerInv
<1>2. CASE HandleLine
  BY <1>1, <1>2, ReadingIsNotWaiting DEF HandleLine, ServerInv, Waits
<1>3. CASE Spawn
  <2>1. /\ at' = at + 1 /\ at' - 1 = at /\ UNCHANGED lines /\ at \in 1 .. Len(lines)
        /\ RunsChild(lines[at])
        /\ server' = [pc |-> "poll", id |-> lines[at].id]
        /\ child' = Spawned(lines[at])
    BY <1>1, <1>3 DEF Spawn, ServerInv
  <2>2. /\ child'.pc = "starting" /\ DOMAIN child' = Fields
        /\ child'.tool = lines[at].tool /\ child'.program = lines[at].program
    BY <2>1 DEF Spawned, Fields
  <2>3. lines[at].tool \in {"evaluate", "check"}
    BY <2>1 DEF RunsChild
  <2>4. Waits'
    BY <2>1, <2>2, <2>3 DEF Waits, RunsChild
  <2> QED
    BY <1>1, <2>1, <2>4 DEF ServerInv
<1>4. CASE Reap \/ KillLate
  <2>1. server' = Reading /\ child' = NoChild /\ UNCHANGED <<lines, at>>
    BY <1>4 DEF Reap, KillLate, Answered
  <2> QED
    BY <2>1 DEF ServerInv
<1>5. CASE FindRunning \/ Sleep
  <2>1. /\ server.pc \in {"poll", "deadline"} /\ UNCHANGED <<lines, at, child>>
        /\ \/ server' = [server EXCEPT !.pc = "deadline"]
           \/ server' = [server EXCEPT !.pc = "poll"]
    BY <1>5 DEF FindRunning, Sleep
  <2>2. Waits
    BY <2>1, ReadingIsNotWaiting DEF ServerInv
  <2>3. DOMAIN server' = {"pc", "id"} /\ server'.pc \in {"poll", "deadline"} /\ server'.id = server.id
    BY <2>1, <2>2 DEF Waits
  <2> QED
    BY <2>1, <2>2, <2>3 DEF ServerInv, Waits, RunsChild
<1>6. CASE Process
  <2>1. Proceeds
    BY <1>6, ProcessProceeds
  <2> QED
    BY <2>1, ProcessKeepsServer DEF Proceeds
<1>7. CASE Tick
  <2>1. child'.pc = child.pc /\ child'.tool = child.tool /\ child'.program = child.program
    BY <1>7, TickPasses DEF Fields
  <2> QED
    BY <1>7, <2>1, TickPasses, ProcessKeepsServer
<1>8. CASE UNCHANGED vars
  BY <1>8 DEF vars, ServerInv, Waits, RunsChild
<1> QED
  BY <1>2, <1>3, <1>4, <1>5, <1>6, <1>7, <1>8 DEF Next, Serve
-----------------------------------------------------------------------------
(* The answers are those that are owed for the lines that are handled.     *)
IdsOf(replies) == [i \in DOMAIN replies |-> replies[i].id]

OutboxInv == (\E S : outbox \in Seq(S)) /\ AnsweredInOrder

LEMMA IdsAppend ==
  ASSUME NEW S, NEW replies \in Seq(S), NEW x
  PROVE  IdsOf(Append(replies, x)) = Append(IdsOf(replies), x.id)
<1> DEFINE ids == IdsOf(replies)
           X   == {ids[i] : i \in DOMAIN replies} \cup {x.id}
<1>1. DOMAIN replies = 1 .. Len(replies) /\ Len(replies) \in Nat
  OBVIOUS
<1>2. ids \in Seq(X) /\ Len(ids) = Len(replies)
  <2>1. ids \in [1 .. Len(replies) -> X]
    BY <1>1 DEF IdsOf
  <2> HIDE DEF ids, X
  <2> QED
    BY <1>1, <2>1
<1>3. \A i \in 1 .. Len(replies) : ids[i] = replies[i].id
  BY <1>1 DEF IdsOf
<1> HIDE DEF ids, X
<1>4. /\ DOMAIN Append(replies, x) = 1 .. Len(replies) + 1
      /\ \A i \in 1 .. Len(replies) : Append(replies, x)[i] = replies[i]
      /\ Append(replies, x)[Len(replies) + 1] = x
  BY <1>1
<1>5. x.id \in X
  BY DEF X
<1>6. /\ Append(ids, x.id) \in Seq(X)
      /\ DOMAIN Append(ids, x.id) = 1 .. Len(replies) + 1
      /\ \A i \in 1 .. Len(replies) : Append(ids, x.id)[i] = ids[i]
      /\ Append(ids, x.id)[Len(replies) + 1] = x.id
  BY <1>1, <1>2, <1>5
<1> DEFINE longer == Append(replies, x)
           other  == Append(ids, x.id)
<1>7. \A i \in 1 .. Len(replies) + 1 : longer[i].id = other[i]
  <2> TAKE i \in 1 .. Len(replies) + 1
  <2>1. CASE i = Len(replies) + 1
    BY <1>4, <1>6, <2>1
  <2>2. CASE i # Len(replies) + 1
    <3>1. i \in 1 .. Len(replies)
      BY <1>1, <2>2
    <3> QED
      BY <1>3, <1>4, <1>6, <3>1
  <2> QED
    BY <2>1, <2>2
<1>8. other = [i \in 1 .. Len(replies) + 1 |-> other[i]]
  BY <1>6
<1>9. DOMAIN longer = 1 .. Len(replies) + 1
  BY <1>4
<1> HIDE DEF longer, other
<1>10. IdsOf(longer) = other
  BY <1>7, <1>8, <1>9 DEF IdsOf
<1> QED
  BY <1>10 DEF longer, other, ids

(* One more answer, for the line that is handled with it; or none, for a   *)
(* line that is owed none.                                                 *)
LEMMA AnswersKeepOrder ==
  ASSUME ServerInv, OutboxInv, NEW l \in 1 .. Len(lines),
         Handled = l - 1, Handled' = l, UNCHANGED lines,
         \/ ~Owes(lines[l]) /\ outbox' = outbox
         \/ Owes(lines[l]) /\ \E body : outbox' = Append(outbox, Reply(AnswerId(lines[l]), body))
  PROVE  OutboxInv'
<1>1. IdsOf(outbox) = Owed(lines)[l - 1]
  BY DEF OutboxInv, AnsweredInOrder, IdsOf
<1>2. Owed(lines)[l] = WithAnswer(Owed(lines)[l - 1], lines[l])
  BY LinesAreCounted, OwedUnfolds DEF ServerInv
<1>3. CASE ~Owes(lines[l]) /\ outbox' = outbox
  <2>1. IdsOf(outbox') = Owed(lines)[l]
    BY <1>1, <1>2, <1>3 DEF WithAnswer
  <2>2. AnsweredInOrder'
    BY <2>1 DEF AnsweredInOrder, IdsOf
  <2> QED
    BY <1>3, <2>2 DEF OutboxInv
<1>4. CASE Owes(lines[l]) /\ \E body : outbox' = Append(outbox, Reply(AnswerId(lines[l]), body))
  <2>1. PICK body : outbox' = Append(outbox, Reply(AnswerId(lines[l]), body))
    BY <1>4
  <2>2. PICK S : outbox \in Seq(S)
    BY DEF OutboxInv
  <2> DEFINE x == Reply(AnswerId(lines[l]), body)
  <2>3. x.id = AnswerId(lines[l])
    BY DEF Reply
  <2> HIDE DEF x
  <2>4. outbox' = Append(outbox, x)
    BY <2>1 DEF x
  <2>5. outbox' \in Seq(S \cup {x})
    BY <2>2, <2>4
  <2>6. IdsOf(outbox') = Append(IdsOf(outbox), AnswerId(lines[l]))
    BY <2>2, <2>3, <2>4, IdsAppend
  <2>7. IdsOf(outbox') = Owed(lines)[l]
    BY <1>1, <1>2, <1>4, <2>6 DEF WithAnswer
  <2>8. AnsweredInOrder'
    BY <2>7 DEF AnsweredInOrder, IdsOf
  <2> QED
    BY <2>5, <2>8 DEF OutboxInv
<1> QED
  BY <1>3, <1>4

(* What is no answer leaves the order of the answers alone.                *)
LEMMA OthersKeepOrder ==
  ASSUME OutboxInv, UNCHANGED <<lines, outbox>>, Handled' = Handled
  PROVE  OutboxInv'
<1>1. AnsweredInOrder'
  BY DEF OutboxInv, AnsweredInOrder
<1> QED
  BY <1>1 DEF OutboxInv

LEMMA RepliesAreOwed ==
  ASSUME NEW message,
         message.form \in {"garbage", "scalar", "answer", "methodless", "request"}
  PROVE  /\ ~Owes(message) => Replies(message) = <<>>
         /\ Owes(message) => Replies(message) = <<Reply(AnswerId(message), Replies(message)[1].body)>>
<1> DEFINE only == Replies(message)[1]
<1>1. ASSUME NEW body, Replies(message) = <<Reply(AnswerId(message), body)>>
      PROVE  Replies(message) = <<Reply(AnswerId(message), only.body)>>
  <2>1. only.body = body
    BY <1>1 DEF Reply
  <2> QED
    BY <1>1, <2>1
<1>2. CASE message.form \in {"garbage", "scalar", "methodless"}
  <2>1. \E body : Replies(message) = <<Reply(AnswerId(message), body)>>
    BY <1>2 DEF Replies, AnswerId
  <2> QED
    BY <1>1, <1>2, <2>1 DEF Owes
<1>3. CASE message.form = "answer"
  BY <1>3 DEF Replies, Owes
<1>4. CASE message.form = "request" /\ message.id = NoId
  BY <1>4 DEF Replies, Owes
<1>5. CASE message.form = "request" /\ message.id # NoId
  <2>1. Replies(message) = <<Reply(AnswerId(message), Outcome(message))>>
    BY <1>5 DEF Replies, AnswerId
  <2> QED
    BY <1>1, <1>5, <2>1 DEF Owes
<1> QED
  BY <1>2, <1>3, <1>4, <1>5

LEMMA StepsKeepOrder == ServerInv /\ OutboxInv /\ [Next]_vars => OutboxInv'
<1> SUFFICES ASSUME ServerInv, OutboxInv, [Next]_vars PROVE OutboxInv'
  OBVIOUS
<1>1. Len(lines) \in Nat /\ at \in Nat
  BY LinesAreCounted DEF ServerInv
<1>2. PICK S : outbox \in Seq(S)
  BY DEF OutboxInv
<1>3. ASSUME server = Reading, server' = Reading, NEW l \in 1 .. Len(lines), at = l, at' = at + 1
      PROVE  Handled = l - 1 /\ Handled' = l
  BY <1>3 DEF Handled
<1>4. ASSUME Waits PROVE server # Reading
  BY <1>4, ReadingIsNotWaiting DEF Waits
<1>5. CASE HandleLine
  <2>1. /\ server = Reading /\ server' = Reading /\ at \in 1 .. Len(lines) /\ at' = at + 1
        /\ UNCHANGED lines
        /\ outbox' = outbox \o Replies(lines[at])
    BY <1>1, <1>5 DEF HandleLine, ServerInv
  <2>2. lines[at].form \in {"garbage", "scalar", "answer", "methodless", "request"}
    BY <2>1, LinesAssumption, Zenon DEF ServerInv
  <2>3. \A x : outbox \o <<>> = outbox /\ outbox \o <<x>> = Append(outbox, x)
    BY <1>2
  <2> DEFINE line == lines[at]
             only == Reply(AnswerId(line), Replies(line)[1].body)
  <2>4. /\ ~Owes(line) => Replies(line) = <<>>
        /\ Owes(line) => Replies(line) = <<only>>
    BY <2>2, RepliesAreOwed
  <2>5. outbox' = outbox \o Replies(line)
    BY <2>1
  <2>6. \/ ~Owes(line) /\ outbox' = outbox
        \/ Owes(line) /\ \E body : outbox' = Append(outbox, Reply(AnswerId(line), body))
    <3>1. CASE Owes(line)
      <4>1. outbox' = Append(outbox, only)
        <5> HIDE DEF only, line
        <5> QED
          BY <2>3, <2>4, <2>5, <3>1
      <4> QED
        BY <3>1, <4>1
    <3>2. CASE ~Owes(line)
      BY <2>3, <2>4, <2>5, <3>2
    <3> QED
      BY <3>1, <3>2
  <2> QED
    BY <1>3, <2>1, <2>6, AnswersKeepOrder
<1>6. CASE Spawn
  <2>1. /\ server = Reading /\ server' = [pc |-> "poll", id |-> lines[at].id] /\ at' = at + 1
        /\ UNCHANGED <<lines, outbox>>
    BY <1>6 DEF Spawn
  <2>2. server'.pc = "poll"
    BY <2>1
  <2>3. server' # Reading
    BY <2>2, ReadingIsNotWaiting
  <2>4. Handled' = Handled
    BY <1>1, <2>1, <2>3 DEF Handled
  <2> QED
    BY <2>1, <2>4, OthersKeepOrder
<1>7. CASE Reap \/ KillLate
  <2>1. /\ server.pc \in {"poll", "deadline"} /\ server' = Reading /\ UNCHANGED <<lines, at>>
        /\ \E body : outbox' = IF server.id = NoId THEN outbox
                               ELSE Append(outbox, Reply(server.id, body))
    BY <1>7 DEF Reap, KillLate, Answered
  <2>2. Waits
    BY <2>1, ReadingIsNotWaiting DEF ServerInv
  <2> DEFINE l == at - 1
  <2>3. l \in 1 .. Len(lines) /\ RunsChild(lines[l]) /\ server.id = lines[l].id
    BY <2>2 DEF Waits
  <2>4. Handled = l - 1 /\ Handled' = l
    BY <1>1, <1>4, <2>1, <2>2 DEF Handled
  <2>5. lines[l].form = "request" /\ AnswerId(lines[l]) = server.id
    BY <2>3 DEF RunsChild, AnswerId
  <2>6. Owes(lines[l]) <=> server.id # NoId
    BY <2>3, <2>5 DEF Owes
  <2> HIDE DEF l
  <2>7. \/ ~Owes(lines[l]) /\ outbox' = outbox
        \/ Owes(lines[l]) /\ \E body : outbox' = Append(outbox, Reply(AnswerId(lines[l]), body))
    BY <2>1, <2>5, <2>6
  <2> QED
    BY <2>1, <2>3, <2>4, <2>7, AnswersKeepOrder
<1>8. CASE FindRunning \/ Sleep
  <2>1. /\ server.pc \in {"poll", "deadline"} /\ UNCHANGED <<lines, at, outbox>>
        /\ \/ server' = [server EXCEPT !.pc = "deadline"]
           \/ server' = [server EXCEPT !.pc = "poll"]
    BY <1>8 DEF FindRunning, Sleep
  <2>2. Waits
    BY <2>1, ReadingIsNotWaiting DEF ServerInv
  <2>3. server'.pc \in {"poll", "deadline"}
    BY <2>1, <2>2 DEF Waits
  <2>4. server # Reading /\ server' # Reading
    BY <2>1, <2>3, ReadingIsNotWaiting
  <2>5. Handled' = Handled
    BY <2>1, <2>4 DEF Handled
  <2> QED
    BY <2>1, <2>5, OthersKeepOrder
<1>9. CASE Process \/ Tick
  <2>1. UNCHANGED <<lines, at, outbox, server>>
    BY <1>9, ProcessProceeds, TickPasses DEF Proceeds
  <2> QED
    BY <2>1, OthersKeepOrder DEF Handled
<1>10. CASE UNCHANGED vars
  BY <1>10, OthersKeepOrder DEF vars, Handled
<1> QED
  BY <1>5, <1>6, <1>7, <1>8, <1>9, <1>10 DEF Next, Serve

(* Whatever the client sends, the replies are those of the lines read so   *)
(* far, in their order, one for each request and none for a notification   *)
(* or an answer (serve and handle_line): for any number of lines, and      *)
(* however the processes in between end.                                   *)
THEOREM RepliesComeInOrder == Spec => []AnsweredInOrder
<1>1. Init => OutboxInv
  <2> SUFFICES ASSUME Init PROVE OutboxInv
    OBVIOUS
  <2>1. outbox = <<>> /\ Handled = 0 /\ lines \in Lines
    BY DEF Init, Handled
  <2>2. IdsOf(outbox) = <<>> /\ outbox \in Seq({})
    BY <2>1 DEF IdsOf
  <2>3. Owed(lines)[0] = <<>>
    BY <2>1, LinesAreCounted, OwedUnfolds
  <2> QED
    BY <2>1, <2>2, <2>3 DEF OutboxInv, AnsweredInOrder, IdsOf
<1>2. OutboxInv => AnsweredInOrder
  BY DEF OutboxInv
<1> QED
  BY <1>1, <1>2, ServesAtFirst, StepsKeepServer, StepsKeepOrder, PTL DEF Spec
-----------------------------------------------------------------------------
(* How long the process has run while the machine keeps up: no longer than *)
(* its own watchdog lets it, and the watchdog's clock is started with it.  *)
TimeInv ==
  prompt /\ server # Reading =>
    /\ child.age \in 0 .. WatchdogAt
    /\ child.pc \in {"starting", "waiting"} => child.time = child.age

LEMMA StepsKeepTime == ServerInv /\ TimeInv /\ [Next]_vars => TimeInv'
<1> SUFFICES ASSUME ServerInv, TimeInv, [Next]_vars PROVE TimeInv'
  OBVIOUS
<1>1. /\ WatchdogAt \in Nat /\ Limit \in Nat /\ WatchdogAt < Limit
  BY TimeAssumption DEF WatchdogAt, Limit
<1>2. CASE HandleLine \/ Reap \/ KillLate
  BY <1>2 DEF HandleLine, Reap, KillLate, Answered, TimeInv
<1>3. CASE Spawn
  <2>1. child' = Spawned(lines[at])
    BY <1>3 DEF Spawn
  <2>2. child'.age = 0 /\ child'.time = 0
    BY <2>1 DEF Spawned
  <2> QED
    BY <1>1, <2>2 DEF TimeInv
<1>4. CASE FindRunning \/ Sleep
  <2>1. server.pc \in {"poll", "deadline"} /\ UNCHANGED <<prompt, child>>
    BY <1>4 DEF FindRunning, Sleep
  <2>2. server # Reading
    BY <2>1, ReadingIsNotWaiting
  <2> QED
    BY <2>1, <2>2 DEF TimeInv, WatchdogAt
<1>5. CASE Process
  <2>1. Proceeds
    BY <1>5, ProcessProceeds
  <2> QED
    BY <2>1 DEF TimeInv, Proceeds, WatchdogAt
<1>6. CASE Tick
  <2> SUFFICES ASSUME prompt', server' # Reading
               PROVE  /\ child'.age \in 0 .. WatchdogAt
                      /\ child'.pc \in {"starting", "waiting"} => child'.time = child'.age
    BY DEF TimeInv, WatchdogAt
  <2>1. /\ prompt /\ server # Reading
        /\ child.pc \in {"starting", "waiting", "exited", "crashed"}
        /\ child'.pc = child.pc
        /\ child'.age = IF child.age < Limit THEN child.age + 1 ELSE child.age
        /\ child'.time = IF child.pc = "waiting" /\ child.time < WatchdogAt
                         THEN child.time + 1 ELSE child.time
    BY <1>6, TickPasses DEF Fields
  <2>2. ~Due
    BY <1>6, <2>1 DEF Tick
  <2>3. child.pc = "waiting" /\ ~(child.time >= WatchdogAt)
    BY <2>1, <2>2 DEF Due
  <2>4. child.age \in 0 .. WatchdogAt /\ child.time = child.age
    BY <2>1, <2>3 DEF TimeInv
  <2> QED
    BY <1>1, <2>1, <2>3, <2>4
<1>7. CASE UNCHANGED vars
  BY <1>7 DEF vars, TimeInv, WatchdogAt
<1> QED
  BY <1>2, <1>3, <1>4, <1>5, <1>6, <1>7 DEF Next, Serve

(* If the machine keeps up, phs mcp never comes to kill an evaluation: for *)
(* all limits with the watchdog's grace below that of the kill, the report *)
(* of phs eval is there first (with_watchdog and run_child).               *)
THEOREM KillsComeAfterTheWatchdog == Spec => []WatchdogComesFirst
<1>1. Init => TimeInv
  BY DEF Init, TimeInv
<1>2. TimeInv => WatchdogComesFirst
  BY ReadingIsNotWaiting, TimeAssumption DEF TimeInv, WatchdogComesFirst, WatchdogAt, KillAfter, Limit
<1> QED
  BY <1>1, <1>2, ServesAtFirst, StepsKeepServer, StepsKeepTime, PTL DEF Spec
-----------------------------------------------------------------------------
(* What an evaluation has collected: the values of the statements before   *)
(* the next one, and a finding for whatever was not as it should be.       *)
StatementsOf(p) == IF p.parses THEN p.statements ELSE <<>>

Quiet(p, n) ==
  /\ p.parses /\ p.flagged = {}
  /\ \A i \in 1 .. n : p.statements[i].kind \in {"value", "silent"}

Collected ==
  /\ child.next \in 1 .. Len(StatementsOf(child.program)) + 1
  /\ child.results = Yields(StatementsOf(child.program))[child.next - 1]
  /\ child.findings = {} => Quiet(child.program, child.next - 1)
  /\ child.thread = "done" =>
       \/ child.next = Len(StatementsOf(child.program)) + 1
       \/ Finding(child.next, "limit") \in child.findings

ReportInv ==
  server # Reading =>
    /\ child.pc = "starting" => child.next = 1 /\ child.results = <<>>
    /\ child.pc = "waiting" => Collected
    /\ ReportTellsTheRun

LEMMA StatementsAreCounted ==
  ASSUME ServerInv, server # Reading
  PROVE  /\ Len(StatementsOf(child.program)) \in Nat
         /\ child.program.parses => Len(child.program.statements) \in Nat
<1>1. /\ lines \in Lines /\ at - 1 \in 1 .. Len(lines) /\ RunsChild(lines[at - 1])
      /\ child.program = lines[at - 1].program
  BY DEF ServerInv, Waits
<1>2. Len(child.program.statements) \in Nat
  BY <1>1, LinesAssumption, Zenon
<1> QED
  BY <1>2 DEF StatementsOf

(* What the report of a run that ended tells.                              *)
LEMMA ReportsTell ==
  ASSUME ServerInv, server # Reading, Collected, child.thread = "done",
         NEW r, r = Report(child.results, child.findings)
  PROVE  LET p == child.program
         IN  /\ r.ok => RunsThrough(p) /\ r.results = Yielding(p)
             /\ p.parses =>
                  /\ IsPrefix(r.results, Yielding(p))
                  /\ r.results # Yielding(p) =>
                       \E f \in r.findings :
                         /\ f.code = "limit"
                         /\ f.line <= Yielding(p)[Len(r.results) + 1]
<1> DEFINE p  == child.program
           ss == StatementsOf(p)
           n  == Len(ss)
           m  == child.next - 1
           ys == Yields(ss)
<1>1. n \in Nat /\ m \in 0 .. n /\ child.next = m + 1
  BY StatementsAreCounted DEF Collected
<1>2. r.results = ys[m] /\ r.findings = child.findings /\ (r.ok <=> child.findings = {})
  BY DEF Report, Collected
<1>3. Extends(ys[n], ys[m], m)
  <2>1. n \in 0 .. Len(ss) /\ m \in 0 .. n /\ Len(ss) \in Nat
    BY <1>1
  <2> HIDE DEF ss, m
  <2> QED
    BY <2>1, YieldsExtend
<1>4. p.parses => Yielding(p) = ys[n]
  BY DEF StatementsOf, Yielding
<1>5. m = n \/ Finding(m + 1, "limit") \in child.findings
  BY <1>1 DEF Collected
<1>6. ASSUME r.ok PROVE RunsThrough(p) /\ r.results = Yielding(p)
  <2>1. child.findings = {}
    BY <1>2, <1>6
  <2>2. m = n
    BY <1>5, <2>1
  <2>3. Quiet(p, n)
    BY <2>1, <2>2 DEF Collected
  <2>4. RunsThrough(p)
    BY <2>3 DEF Quiet, RunsThrough, StatementsOf
  <2> QED
    BY <1>2, <1>4, <2>2, <2>3, <2>4 DEF Quiet
<1>7. ASSUME p.parses PROVE IsPrefix(r.results, Yielding(p))
  <2> DEFINE all   == ys[n]
             first == ys[m]
  <2>1. /\ all \in Seq(Nat) /\ first \in Seq(Nat) /\ Len(first) <= Len(all)
        /\ \A i \in 1 .. Len(first) : all[i] = first[i]
    BY <1>3 DEF Extends
  <2> HIDE DEF all, first
  <2>2. IsPrefix(first, all)
    BY <2>1 DEF IsPrefix
  <2> QED
    BY <1>2, <1>4, <1>7, <2>2 DEF all, first
<1>8. ASSUME p.parses, r.results # Yielding(p)
      PROVE  \E f \in r.findings : f.code = "limit" /\ f.line <= Yielding(p)[Len(r.results) + 1]
  <2> DEFINE all   == ys[n]
             first == ys[m]
             f     == Finding(m + 1, "limit")
  <2>1. all # first /\ Yielding(p) = all /\ r.results = first
    BY <1>2, <1>4, <1>8
  <2>2. f \in r.findings
    BY <1>2, <1>5, <2>1
  <2>3. f.code = "limit" /\ f.line = m + 1
    BY DEF Finding
  <2>4. /\ all \in Seq(Nat) /\ first \in Seq(Nat) /\ Len(first) <= Len(all)
        /\ \A i \in 1 .. Len(first) : all[i] = first[i]
        /\ \A i \in Len(first) + 1 .. Len(all) : all[i] > m
    BY <1>3 DEF Extends
  <2>5. m \in Nat
    BY <1>1
  <2> HIDE DEF all, first, f, m
  <2>6. Len(first) < Len(all)
    <3> SUFFICES ASSUME Len(first) = Len(all) PROVE FALSE
      BY <2>4
    <3>1. all = first
      BY <2>4
    <3> QED
      BY <2>1, <3>1
  <2>7. all[Len(first) + 1] > m /\ all[Len(first) + 1] \in Nat
    <3>1. /\ Len(first) + 1 \in Len(first) + 1 .. Len(all)
          /\ Len(first) + 1 \in 1 .. Len(all)
      BY <2>4, <2>6
    <3>2. all[Len(first) + 1] > m
      BY <2>4, <3>1
    <3>3. all[Len(first) + 1] \in Nat
      BY <2>4, <3>1
    <3> QED
      BY <3>2, <3>3
  <2>8. m + 1 <= all[Len(first) + 1]
    BY <2>5, <2>7
  <2> QED
    BY <2>1, <2>2, <2>3, <2>8
<1> QED
  BY <1>6, <1>7, <1>8

(* What the watchdog says instead of a report.                             *)
LEMMA WatchdogTells ==
  ASSUME ServerInv, server # Reading, NEW r, r = WatchdogReport
  PROVE  LET p == child.program
         IN  /\ r.ok => RunsThrough(p) /\ r.results = Yielding(p)
             /\ p.parses =>
                  /\ IsPrefix(r.results, Yielding(p))
                  /\ r.results # Yielding(p) =>
                       \E f \in r.findings :
                         /\ f.code = "limit"
                         /\ f.line <= Yielding(p)[Len(r.results) + 1]
<1> DEFINE p == child.program
           f == Finding(0, "limit")
<1>1. r.results = <<>> /\ r.findings = {f} /\ ~r.ok
  BY DEF WatchdogReport, Report
<1>2. f.code = "limit" /\ f.line = 0
  BY DEF Finding
<1>3. ASSUME p.parses PROVE Yielding(p) \in Seq(Nat)
  <2>1. Len(p.statements) \in Nat
    BY <1>3, StatementsAreCounted
  <2> QED
    BY <2>1, YieldsAreNumbers DEF Yielding
<1>4. ASSUME p.parses PROVE IsPrefix(<<>>, Yielding(p))
  <2> DEFINE all == Yielding(p)
  <2>1. all \in Seq(Nat)
    BY <1>3, <1>4
  <2> HIDE DEF all
  <2> QED
    BY <2>1 DEF IsPrefix, all
<1>5. ASSUME p.parses, Yielding(p) # <<>> PROVE 0 <= Yielding(p)[1]
  <2> DEFINE all == Yielding(p)
  <2>1. all \in Seq(Nat) /\ all # <<>>
    BY <1>3, <1>5
  <2> HIDE DEF all
  <2>2. all[1] \in Nat
    BY <2>1
  <2> QED
    BY <2>2 DEF all
<1> HIDE DEF f
<1>6. Len(<<>>) + 1 = 1
  OBVIOUS
<1> QED
  BY <1>1, <1>2, <1>4, <1>5, <1>6
LEMMA WaitsUnlessReading == ServerInv => (server # Reading <=> Waits)
BY ReadingIsNotWaiting DEF ServerInv, Waits

(* The evaluation goes on to the next statement.                           *)
LEMMA StatementsCollect ==
  ASSUME ServerInv, ReportInv, server # Reading, Proceeds, Process,
         child.pc = "waiting"
  PROVE  /\ child'.pc = "waiting" => Collected'
         /\ child'.pc = "exited" => ReportTellsTheRun'
<1> DEFINE p  == child.program
           ss == StatementsOf(p)
           n  == Len(ss)
           k  == child.next
           ys == Yields(ss)
<1>1. DOMAIN child = Fields /\ child'.program = p /\ child'.tool = child.tool
  BY DEF Proceeds
<1>2. n \in Nat /\ k \in 1 .. n + 1 /\ child.results = ys[k - 1]
      /\ (child.findings = {} => Quiet(p, k - 1))
  BY StatementsAreCounted DEF ReportInv, Collected
<1>3. Statements = ss
  BY DEF Statements, StatementsOf
<1>4. ASSUME k <= n PROVE k \in 1 .. n /\ p.parses /\ ss = p.statements
  BY <1>2, <1>4 DEF StatementsOf
<1>5. ASSUME k \in 1 .. n
      PROVE  ys[k] = IF ss[k].kind = "value" THEN Append(ys[k - 1], k) ELSE ys[k - 1]
  <2>1. ys[k] = WithValue(ys[k - 1], k, ss[k])
    BY <1>2, <1>5, YieldsUnfold
  <2> QED
    BY <2>1 DEF WithValue
(* A statement is behind it, with its value or without one.                *)
<1>6. ASSUME child'.pc = "waiting", k \in 1 .. n, child'.next = k + 1, child'.thread # "done",
             child'.results = ys[k],
             child'.findings = {} => Quiet(p, k)
      PROVE  Collected'
  BY <1>1, <1>2, <1>6 DEF Collected
<1>7. ASSUME child'.pc = "waiting", child'.next = k, child'.results = child.results,
             child'.findings = {} => child.findings = {},
             child'.thread = "done" => k = n + 1 \/ Finding(k, "limit") \in child'.findings
      PROVE  Collected'
  BY <1>1, <1>2, <1>7 DEF Collected
<1>8. ASSUME Evaluating PROVE child.thread # "done"
  BY <1>8 DEF Evaluating
<1>9. CASE RunCheck \/ StartEval
  BY <1>9 DEF RunCheck, StartEval
<1>10. CASE PrintReport
  <2>1. /\ child'.report = Report(child.results, child.findings) /\ child.thread = "done"
        /\ child'.pc = "exited"
    BY <1>1, <1>10 DEF PrintReport, Fields
  <2> QED
    BY <1>1, <2>1, ReportsTell DEF ReportInv, ReportTellsTheRun
<1>11. CASE WatchdogAnswers
  <2>1. child'.report = WatchdogReport /\ child'.pc = "exited"
    BY <1>1, <1>11 DEF WatchdogAnswers, Fields
  <2> QED
    BY <1>1, <2>1, WatchdogTells DEF ReportTellsTheRun
<1>12. CASE StatementFails
  <2>1. /\ k <= n /\ ss[k].kind \in {"runtime", "forbidden"} /\ child.thread # "done"
        /\ Failing(ss[k].kind)
    BY <1>3, <1>8, <1>12 DEF StatementFails, AtStatement
  <2>2. /\ child'.pc = "waiting" /\ child'.next = k + 1 /\ child'.thread # "done"
        /\ child'.results = child.results
        /\ \/ k \in p.flagged /\ child'.findings = child.findings
           \/ child'.findings = child.findings \cup {Finding(k, ss[k].kind)}
    BY <1>1, <2>1 DEF Failing, Fields
  <2>3. child'.findings # {}
    BY <1>2, <2>2 DEF Quiet
  <2> QED
    BY <1>2, <1>4, <1>5, <1>6, <2>1, <2>2, <2>3
<1>13. CASE StatementYields
  <2>1. k <= n /\ ss[k].kind = "value" /\ child.thread # "done" /\ Added
    BY <1>3, <1>8, <1>13 DEF StatementYields, AtStatement
  <2>2. CASE child.bytes + Statements[child.next].size > OutputCap
    <3>1. /\ child'.pc = "waiting" /\ child'.next = k /\ child'.results = child.results
          /\ child'.findings = child.findings \cup {Finding(k, "limit")}
      BY <1>1, <2>1, <2>2 DEF Added, EndsRun, Fields
    <3> QED
      BY <1>7, <3>1
  <2>3. CASE ~(child.bytes + Statements[child.next].size > OutputCap)
    <3>1. /\ child'.pc = "waiting" /\ child'.next = k + 1 /\ child'.thread = child.thread
          /\ child'.results = Append(child.results, k) /\ child'.findings = child.findings
      BY <1>1, <2>1, <2>3 DEF Added, Fields
    <3>2. k \in 1 .. n /\ p.parses /\ ss = p.statements
      BY <1>4, <2>1
    <3>3. child'.findings = {} => Quiet(p, k)
      <4> SUFFICES ASSUME child.findings = {} PROVE Quiet(p, k)
        BY <3>1
      <4>1. Quiet(p, k - 1) /\ p.statements[k].kind = "value"
        BY <1>2, <2>1, <3>2
      <4>2. \A i \in 1 .. k : i = k \/ i \in 1 .. k - 1
        BY <3>2
      <4> QED
        BY <4>1, <4>2 DEF Quiet
    <3> QED
      BY <1>2, <1>5, <1>6, <2>1, <3>1, <3>2, <3>3
  <2> QED
    BY <2>2, <2>3
<1>14. CASE StatementIsSilent
  <2>1. /\ k <= n /\ ss[k].kind = "silent" /\ child.thread # "done"
        /\ child' = [child EXCEPT !.next = @ + 1]
    BY <1>3, <1>8, <1>14 DEF StatementIsSilent, AtStatement
  <2>2. /\ child'.pc = "waiting" /\ child'.next = k + 1 /\ child'.thread = child.thread
        /\ child'.results = child.results /\ child'.findings = child.findings
    BY <1>1, <2>1 DEF Fields
  <2>3. k \in 1 .. n /\ p.parses /\ ss = p.statements
    BY <1>4, <2>1
  <2>4. child'.findings = {} => Quiet(p, k)
    <3> SUFFICES ASSUME child.findings = {} PROVE Quiet(p, k)
      BY <2>2
    <3>1. Quiet(p, k - 1) /\ p.statements[k].kind = "silent"
      BY <1>2, <2>1, <2>3
    <3>2. \A i \in 1 .. k : i = k \/ i \in 1 .. k - 1
      BY <2>3
    <3> QED
      BY <3>1, <3>2 DEF Quiet
  <2>5. ys[k] = ys[k - 1]
    BY <1>5, <2>1, <2>3
  <2> QED
    BY <1>2, <1>6, <2>1, <2>2, <2>3, <2>4, <2>5
<1>15. CASE HitsLimit
  <2>1. EndsRun("limit")
    BY <1>15 DEF HitsLimit
  <2>2. /\ child'.pc = "waiting" /\ child'.next = k /\ child'.results = child.results
        /\ child'.findings = child.findings \cup {Finding(k, "limit")}
    BY <1>1, <2>1 DEF EndsRun, Fields
  <2> QED
    BY <1>7, <2>2
<1>16. CASE EndProgram
  <2>1. k > n /\ child' = [child EXCEPT !.thread = "done"]
    BY <1>3, <1>16 DEF EndProgram
  <2>2. /\ child'.pc = "waiting" /\ child'.next = k /\ child'.results = child.results
        /\ child'.findings = child.findings
    BY <1>1, <2>1 DEF Fields
  <2>3. k = n + 1
    BY <1>2, <2>1
  <2> QED
    BY <1>7, <2>2, <2>3
<1>17. CASE Panics
  <2>1. /\ child'.pc = "waiting" /\ child'.next = k /\ child'.results = child.results
        /\ child'.findings = child.findings /\ child'.thread = "panicked"
    BY <1>1, <1>17 DEF Panics, Fields
  <2> QED
    BY <1>7, <2>1
<1>18. CASE Aborts
  BY <1>1, <1>18 DEF Aborts, Fields
<1> QED
  BY <1>9, <1>10, <1>11, <1>12, <1>13, <1>14, <1>15, <1>16, <1>17, <1>18 DEF Process
(* The evaluation is started: nothing is collected, and a program that     *)
(* does not parse or is flagged has a finding.                             *)
LEMMA StartCollects ==
  ASSUME ServerInv, ReportInv, server # Reading, Proceeds, StartEval
  PROVE  Collected'
<1> DEFINE p == child.program
<1>1. child.next = 1 /\ child.results = <<>> /\ DOMAIN child = Fields
  BY DEF StartEval, ReportInv, Proceeds
<1>2. /\ child'.next = 1 /\ child'.results = <<>> /\ child'.thread = "runs" /\ child'.program = p
      /\ child'.findings = IF p.parses THEN {Finding(l, "static") : l \in p.flagged}
                           ELSE {Finding(0, "syntax")}
  BY <1>1 DEF StartEval, Fields
<1>3. Len(StatementsOf(p)) \in Nat
  BY StatementsAreCounted
<1>4. Yields(StatementsOf(p))[0] = <<>>
  BY <1>3, YieldsUnfold
<1>5. child'.findings = {} => Quiet(p, 0)
  <2> SUFFICES ASSUME child'.findings = {} PROVE Quiet(p, 0)
    OBVIOUS
  <2>1. p.parses
    BY <1>2
  <2>2. p.flagged = {}
    BY <1>2, <2>1
  <2>3. \A i \in 1 .. 0 : FALSE
    OBVIOUS
  <2> QED
    BY <2>1, <2>2, <2>3 DEF Quiet
<1>6. 1 \in 1 .. Len(StatementsOf(p)) + 1 /\ 1 - 1 = 0
  BY <1>3
<1> HIDE DEF p
<1>7. child'.thread # "done"
  BY <1>2
<1> QED
  BY <1>2, <1>4, <1>5, <1>6, <1>7 DEF Collected

LEMMA StepsKeepReports == ServerInv /\ ReportInv /\ [Next]_vars => ReportInv'
<1> SUFFICES ASSUME ServerInv, ReportInv, [Next]_vars PROVE ReportInv'
  OBVIOUS
<1>1. CASE HandleLine \/ Reap \/ KillLate
  BY <1>1 DEF HandleLine, Reap, KillLate, Answered, ReportInv
<1>2. CASE Spawn
  <2>1. child' = Spawned(lines[at])
    BY <1>2 DEF Spawn
  <2>2. child'.pc = "starting" /\ child'.next = 1 /\ child'.results = <<>>
    BY <2>1 DEF Spawned
  <2> QED
    BY <2>2 DEF ReportInv, ReportTellsTheRun
<1>3. ASSUME server # Reading, UNCHANGED child PROVE ReportInv'
  BY <1>3 DEF ReportInv, Collected, ReportTellsTheRun
<1>4. CASE FindRunning \/ Sleep
  <2>1. server.pc \in {"poll", "deadline"} /\ UNCHANGED child
    BY <1>4 DEF FindRunning, Sleep
  <2> QED
    BY <1>3, <2>1, ReadingIsNotWaiting
<1>5. CASE Process
  <2>1. Proceeds
    BY <1>5, ProcessProceeds
  <2>2. server # Reading /\ server' # Reading
    <3>1. child.pc # "none" /\ UNCHANGED server
      BY <2>1 DEF Proceeds
    <3>2. child # NoChild
      BY <3>1 DEF NoChild
    <3>3. Waits
      BY <3>2 DEF ServerInv
    <3> QED
      BY <3>1, <3>3, WaitsUnlessReading
  <2>3. CASE child.pc = "waiting"
    <3>1. child'.pc # "starting"
      BY <2>1 DEF Proceeds
    <3>2. child'.pc # "exited" => ReportTellsTheRun'
      BY DEF ReportTellsTheRun
    <3> QED
      BY <1>5, <2>1, <2>2, <2>3, <3>1, <3>2, StatementsCollect DEF ReportInv
  <2>4. CASE child.pc # "waiting"
    <3>1. StartEval \/ RunCheck
      BY <1>5, <2>4 DEF Process, PrintReport, WatchdogAnswers, StatementFails, StatementYields,
                        StatementIsSilent, HitsLimit, EndProgram, Panics, Aborts, AtStatement, Evaluating
    <3>2. CASE StartEval
      <4>1. child'.pc = "waiting"
        BY <2>1, <3>2 DEF StartEval, Proceeds, Fields
      <4> QED
        BY <2>1, <2>2, <3>2, <4>1, StartCollects DEF ReportInv, ReportTellsTheRun
    <3>3. CASE RunCheck
      <4>1. child'.pc = "exited" /\ child'.tool = "check"
        BY <2>1, <3>3 DEF RunCheck, Proceeds, Fields
      <4> QED
        BY <4>1 DEF ReportInv, ReportTellsTheRun
    <3> QED
      BY <3>1, <3>2, <3>3
  <2> QED
    BY <2>3, <2>4
<1>6. CASE Tick
  <2>1. /\ child'.pc = child.pc /\ child'.tool = child.tool /\ child'.program = child.program
        /\ child'.next = child.next /\ child'.results = child.results
        /\ child'.findings = child.findings /\ child'.thread = child.thread
        /\ child'.report = child.report /\ UNCHANGED server
    BY <1>6, TickPasses DEF Fields
  <2>2. Collected => Collected'
    BY <2>1 DEF Collected
  <2>3. ReportTellsTheRun => ReportTellsTheRun'
    BY <2>1 DEF ReportTellsTheRun
  <2> QED
    BY <2>1, <2>2, <2>3 DEF ReportInv
<1>7. CASE UNCHANGED vars
  BY <1>3, <1>7 DEF vars, ReportInv
<1> QED
  BY <1>1, <1>2, <1>4, <1>5, <1>6, <1>7 DEF Next, Serve

(* A report tells how the run went, for programs of any length and any     *)
(* limits: it is ok only if every statement was executed without an error, *)
(* and then has every value; it always has the first values in order, and  *)
(* says at a line before the first missing one that a limit cut it short   *)
(* (report.rs, with_watchdog).                                             *)
THEOREM ReportsTellHowItWent == Spec => []ReportTellsTheRun
<1>1. Init => ReportInv
  BY DEF Init, ReportInv
<1>2. ServerInv /\ ReportInv => ReportTellsTheRun
  <2>1. server = Reading /\ ServerInv => child.pc # "exited"
    BY ReadingIsNotWaiting DEF ServerInv, Waits
  <2> QED
    BY <2>1 DEF ReportInv, ReportTellsTheRun
<1> QED
  BY <1>1, <1>2, ServesAtFirst, StepsKeepServer, StepsKeepReports, PTL DEF Spec
=============================================================================

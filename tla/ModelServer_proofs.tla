------------------------- MODULE ModelServer_proofs --------------------------
(***************************************************************************)
(* What phs serve keeps to for any number of workers and requests and for  *)
(* pipelines of any length.                                                *)
(***************************************************************************)
EXTENDS ModelServer, FiniteSetTheorems, WellFoundedInduction, TLAPS

-----------------------------------------------------------------------------
(* Every nonempty set of naturals has a least element.                     *)
LEMMA LeastNatural ==
  ASSUME NEW T, T \subseteq Nat, T # {}
  PROVE  \E x \in T : \A y \in T : x <= y
<1>1. PICK x \in T : \A y \in T : ~ (<<y, x>> \in OpToRel(<, Nat))
  BY NatLessThanWellFounded, WFMin
<1>2. \A y \in T : ~(y < x)
  BY <1>1 DEF OpToRel
<1> QED
  BY <1>2

(* A set with one element at most.                                         *)
LEMMA AtMostOne ==
  ASSUME NEW S, \A x, y \in S : x = y
  PROVE  Cardinality(S) = IF S = {} THEN 0 ELSE 1
<1>1. CASE S = {}
  BY <1>1, FS_EmptySet
<1>2. CASE S # {}
  <2>1. PICK x \in S : TRUE
    BY <1>2
  <2>2. S = {x}
    BY <2>1
  <2> QED
    BY <2>2, FS_Singleton
<1> QED
  BY <1>1, <1>2

-----------------------------------------------------------------------------
(* The function that Runs chooses exists, so that its equations hold: the  *)
(* results after n + 1 steps are those after n steps and the next one.     *)
RunsUpTo(mods, steps, n, run) ==
  run = [k \in 0 .. n |-> IF k = 0 THEN Ok(<<>>) ELSE AfterStep(mods, run[k - 1], steps[k])]

LEMMA RunsExist ==
  ASSUME NEW mods, NEW steps, NEW n \in Nat
  PROVE  \E run : RunsUpTo(mods, steps, n, run)
<1> DEFINE T == {k \in Nat : ~ \E run : RunsUpTo(mods, steps, k, run)}
<1>1. SUFFICES ASSUME T # {} PROVE FALSE
  OBVIOUS
<1>2. PICK k \in T : \A j \in T : k <= j
  <2> HIDE DEF T
  <2>1. T \subseteq Nat
    BY DEF T
  <2> QED
    BY <1>1, <2>1, LeastNatural
<1>3. k \in Nat /\ ~ \E run : RunsUpTo(mods, steps, k, run)
  OBVIOUS
<1>4. CASE k = 0
  <2>1. RunsUpTo(mods, steps, 0, [j \in 0 .. 0 |-> Ok(<<>>)])
    BY DEF RunsUpTo
  <2> QED
    BY <1>3, <1>4, <2>1
<1>5. CASE k # 0
  <2>1. k - 1 \in Nat /\ k - 1 \notin T
    BY <1>2, <1>3, <1>5
  <2>2. PICK run : RunsUpTo(mods, steps, k - 1, run)
    BY <2>1
  <2> DEFINE longer == [j \in 0 .. k |-> IF j = k THEN AfterStep(mods, run[k - 1], steps[k]) ELSE run[j]]
  <2>3. ASSUME NEW j \in 0 .. k
        PROVE  longer[j] = IF j = 0 THEN Ok(<<>>) ELSE AfterStep(mods, longer[j - 1], steps[j])
    BY <1>3, <1>5, <2>2 DEF RunsUpTo
  <2>4. RunsUpTo(mods, steps, k, longer)
    BY <2>3 DEF RunsUpTo
  <2> QED
    BY <1>3, <2>4
<1> QED
  BY <1>4, <1>5

LEMMA RunsUnfold ==
  ASSUME NEW mods, NEW steps, Len(steps) \in Nat
  PROVE  /\ Runs(mods, steps)[0] = Ok(<<>>)
         /\ \A n \in 1 .. Len(steps) :
              Runs(mods, steps)[n] = AfterStep(mods, Runs(mods, steps)[n - 1], steps[n])
<1>1. \E run : RunsUpTo(mods, steps, Len(steps), run)
  BY RunsExist
<1>2. RunsUpTo(mods, steps, Len(steps), Runs(mods, steps))
  BY <1>1 DEF RunsUpTo, Runs
<1> QED
  BY <1>2 DEF RunsUpTo

(* Once a step has failed, its error is what there is after all others.    *)
LEMMA FirstErrorStays ==
  ASSUME NEW mods, NEW steps, Len(steps) \in Nat,
         NEW n \in 0 .. Len(steps), ~Runs(mods, steps)[n].ok
  PROVE  Runs(mods, steps)[Len(steps)] = Runs(mods, steps)[n]
<1> DEFINE run == Runs(mods, steps)
           T == {k \in n .. Len(steps) : run[k] # run[n]}
<1>1. \A k \in 1 .. Len(steps) : run[k] = AfterStep(mods, run[k - 1], steps[k])
  BY RunsUnfold
<1> HIDE DEF run
<1>2. ASSUME T # {} PROVE FALSE
  <2>1. T \subseteq Nat
    OBVIOUS
  <2>2. PICK k \in T : \A j \in T : k <= j
    <3> HIDE DEF T
    <3> QED
      BY <1>2, <2>1, LeastNatural
  <2>3. k \in n + 1 .. Len(steps) /\ run[k] # run[n]
    OBVIOUS
  <2>4. run[k - 1] = run[n]
    BY <2>2, <2>3
  <2>5. run[k] = AfterStep(mods, run[k - 1], steps[k])
    BY <1>1, <2>3
  <2>6. ~run[k - 1].ok
    BY <2>4 DEF run
  <2> QED
    BY <2>3, <2>4, <2>5, <2>6 DEF AfterStep
<1>3. run[Len(steps)] = run[n]
  BY <1>2
<1> QED
  BY <1>3 DEF run

-----------------------------------------------------------------------------
(* The inductive invariant. First the types.                               *)
Types ==
  /\ client \in [Requests -> {"idle", "sending", "sent", "aborted"}]
  /\ request \in [Requests -> {<<>>} \cup UNION {RequestOf[r] : r \in Requests}]
  /\ queue \in Seq(Requests \cup {Failure, Wake})
  /\ DOMAIN worker = Workers /\ DOMAIN reply = Requests
  /\ \A w \in Workers : worker[w].pc \in {"body", "steps"} => worker[w].request \in Requests

Handles(w, r) == worker[w].pc \in {"body", "steps"} /\ worker[w].request = r
InQueue(r) == \E i \in DOMAIN queue : queue[i] = r
InHands(r) == \E w \in Workers : Handles(w, r)

(* Where a request is: no two places of the queue and no two workers have  *)
(* the same one, and a request is in one place at a time.                  *)
QueuedOnce == \A i, j \in DOMAIN queue : queue[i] \in Requests /\ queue[i] = queue[j] => i = j
HandledOnce == \A v, w \in Workers, r \in Requests : Handles(v, r) /\ Handles(w, r) => v = w
OnePlace ==
  \A r \in Requests :
    /\ client[r] = "idle" => ~InQueue(r) /\ ~InHands(r) /\ reply[r] = NoReply
    /\ client[r] # "idle" => InQueue(r) \/ InHands(r) \/ reply[r] # NoReply
    /\ ~(InQueue(r) /\ InHands(r))
    /\ reply[r] # NoReply => ~InQueue(r) /\ ~InHands(r)

PlaceInv == Types /\ QueuedOnce /\ HandledOnce /\ OnePlace

LEMMA PlacesAtFirst == Init => PlaceInv
<1>1. SUFFICES ASSUME Init PROVE PlaceInv
  OBVIOUS
<1>2. queue = <<>> /\ DOMAIN queue = {}
  BY <1>1 DEF Init
<1>3. Types
  BY <1>1 DEF Init, Types, Idle
<1>4. \A w \in Workers, r \in Requests : ~Handles(w, r)
  BY <1>1 DEF Init, Handles, Idle
<1>5. \A r \in Requests : client[r] = "idle" /\ reply[r] = NoReply
  BY <1>1 DEF Init
<1> QED
  BY <1>2, <1>3, <1>4, <1>5 DEF PlaceInv, QueuedOnce, HandledOnce, OnePlace, InQueue, InHands

(* What the queue holds after something is added or taken.                 *)
LEMMA AppendHolds ==
  ASSUME NEW S, NEW q \in Seq(S), NEW x \in S
  PROVE  /\ Append(q, x) \in Seq(S)
         /\ DOMAIN Append(q, x) = DOMAIN q \cup {Len(q) + 1}
         /\ \A i \in DOMAIN q : Append(q, x)[i] = q[i]
         /\ Append(q, x)[Len(q) + 1] = x
         /\ Len(q) + 1 \notin DOMAIN q
  OBVIOUS

LEMMA TailHolds ==
  ASSUME NEW S, NEW q \in Seq(S), q # <<>>
  PROVE  /\ Head(q) = q[1] /\ 1 \in DOMAIN q
         /\ Tail(q) \in Seq(S)
         /\ \A i \in DOMAIN Tail(q) : i + 1 \in DOMAIN q /\ Tail(q)[i] = q[i + 1] /\ i + 1 # 1
         /\ \A i \in DOMAIN q : i # 1 => i - 1 \in DOMAIN Tail(q) /\ Tail(q)[i - 1] = q[i]
  OBVIOUS

(* A request that was idle is put into the queue.                          *)
LEMMA SendKeepsPlaces == ASSUME PlaceInv, NEW r \in Requests, Send(r) PROVE PlaceInv'
<1>1. PICK q \in RequestOf[r] :
        /\ request' = [request EXCEPT ![r] = q]
        /\ client' = [client EXCEPT ![r] = IF HasBody(q) THEN "sending" ELSE "sent"]
  BY DEF Send
<1>2. /\ client[r] = "idle" /\ queue' = Append(queue, r)
      /\ worker' = worker /\ reply' = reply
  BY DEF Send
<1>3. /\ queue' \in Seq(Requests \cup {Failure, Wake})
      /\ DOMAIN queue' = DOMAIN queue \cup {Len(queue) + 1}
      /\ \A i \in DOMAIN queue : queue'[i] = queue[i]
      /\ queue'[Len(queue) + 1] = r
      /\ Len(queue) + 1 \notin DOMAIN queue
  BY <1>2, AppendHolds DEF PlaceInv, Types
<1>4. Types'
  BY <1>1, <1>2, <1>3 DEF PlaceInv, Types
<1>5. ~InQueue(r) /\ ~InHands(r) /\ reply[r] = NoReply
  BY <1>2 DEF PlaceInv, OnePlace
<1>6. QueuedOnce'
  BY <1>3, <1>5 DEF PlaceInv, QueuedOnce, InQueue
<1>7. \A w, s : Handles(w, s)' <=> Handles(w, s)
  BY <1>2 DEF Handles
<1>8. \A s \in Requests : /\ InHands(s)' <=> InHands(s)
                          /\ InQueue(s)' <=> InQueue(s) \/ s = r
  BY <1>3, <1>7 DEF InHands, InQueue
<1>9. client'[r] # "idle" /\ \A s \in Requests : s # r => client'[s] = client[s]
  BY <1>1 DEF PlaceInv, Types
<1>10. OnePlace'
  BY <1>2, <1>5, <1>8, <1>9 DEF PlaceInv, OnePlace
<1> QED
  BY <1>4, <1>6, <1>7, <1>10 DEF PlaceInv, HandledOnce
(* Only the clients' part of a request that was sent changes.              *)
LEMMA ClientsKeepPlaces ==
  ASSUME PlaceInv, UNCHANGED <<request, queue, worker, reply>>,
         NEW r \in Requests, client[r] = "sending",
         NEW what \in {"sent", "aborted"}, client' = [client EXCEPT ![r] = what]
  PROVE  PlaceInv'
<1>1. Types'
  BY DEF PlaceInv, Types
<1>2. \A s \in Requests : client'[s] = "idle" <=> client[s] = "idle"
  BY DEF PlaceInv, Types
<1>3. \A w, s : Handles(w, s)' <=> Handles(w, s)
  BY DEF Handles
<1>4. \A s : (InHands(s)' <=> InHands(s)) /\ (InQueue(s)' <=> InQueue(s))
  BY <1>3 DEF InHands, InQueue
<1>5. OnePlace'
  BY <1>2, <1>4 DEF PlaceInv, OnePlace
<1> QED
  BY <1>1, <1>3, <1>5 DEF PlaceInv, QueuedOnce, HandledOnce

(* A token is put into the queue.                                          *)
LEMMA TokensKeepPlaces ==
  ASSUME PlaceInv, NEW q \in Seq(Requests \cup {Failure, Wake}),
         \A i \in DOMAIN q : q[i] \in Requests => i \in DOMAIN queue /\ q[i] = queue[i],
         \A i \in DOMAIN queue : queue[i] \in Requests => i \in DOMAIN q /\ q[i] = queue[i],
         queue' = q, UNCHANGED <<client, request, worker, reply>>
  PROVE  PlaceInv'
<1>1. Types'
  BY DEF PlaceInv, Types
<1>2. QueuedOnce'
  BY DEF PlaceInv, QueuedOnce
<1>3. \A w, s : Handles(w, s)' <=> Handles(w, s)
  BY DEF Handles
<1>4. \A s \in Requests : (InHands(s)' <=> InHands(s)) /\ (InQueue(s)' <=> InQueue(s))
  BY <1>3 DEF InHands, InQueue
<1>5. OnePlace'
  BY <1>4 DEF PlaceInv, OnePlace
<1> QED
  BY <1>1, <1>2, <1>3, <1>5 DEF PlaceInv, HandledOnce

LEMMA StopKeepsPlaces == ASSUME PlaceInv, StopAccepting PROVE PlaceInv'
<1>1. /\ queue \in Seq(Requests \cup {Failure, Wake})
      /\ queue' = Append(queue, Failure)
      /\ UNCHANGED <<client, request, worker, reply>>
  BY DEF StopAccepting, PlaceInv, Types
<1>2. /\ Append(queue, Failure) \in Seq(Requests \cup {Failure, Wake})
      /\ DOMAIN Append(queue, Failure) = DOMAIN queue \cup {Len(queue) + 1}
      /\ \A i \in DOMAIN queue : Append(queue, Failure)[i] = queue[i]
      /\ Append(queue, Failure)[Len(queue) + 1] \notin Requests
  BY <1>1, AppendHolds, ServerAssumption
<1> QED
  BY <1>1, <1>2, TokensKeepPlaces

(* The replies are none of them NoReply.                                   *)
LEMMA RepliesAreReplies ==
  /\ \A s \in {400, 401, 404} : ErrorReply(s) # NoReply
  /\ \A v : Answer(v) # NoReply
  /\ Refusal # NoReply /\ UnreadableBody # NoReply /\ DroppedRequest # NoReply
<1>1. NoReply.status = 0
  BY DEF NoReply
<1> HIDE DEF NoReply
<1>2. \A s \in {400, 401, 404} : ErrorReply(s).status # 0
  BY DEF ErrorReply
<1>3. \A v : Answer(v).status # 0
  BY DEF Answer
<1>4. Refusal.status # 0 /\ UnreadableBody.status # 0 /\ DroppedRequest.status # 0
  BY DEF Refusal, UnreadableBody, DroppedRequest
<1> QED
  BY <1>1, <1>2, <1>3, <1>4

(* A worker answers the request in its hands.                              *)
LEMMA AnsweringKeepsPlaces ==
  ASSUME PlaceInv, NEW w \in Workers, worker[w].pc \in {"body", "steps"},
         NEW answer, answer # NoReply, reply' = [reply EXCEPT ![worker[w].request] = answer],
         NEW state, state.pc \notin {"body", "steps"}, worker' = [worker EXCEPT ![w] = state],
         UNCHANGED <<client, request, queue>>
  PROVE  PlaceInv'
<1> DEFINE r == worker[w].request
<1>1. r \in Requests /\ Handles(w, r) /\ InHands(r)
  BY DEF PlaceInv, Types, Handles, InHands
<1>2. Types'
  BY DEF PlaceInv, Types
<1>3. \A v \in Workers, s \in Requests : Handles(v, s)' <=> Handles(v, s) /\ v # w
  BY DEF PlaceInv, Types, Handles
<1>4. HandledOnce'
  BY <1>3 DEF PlaceInv, HandledOnce
<1>5. \A s \in Requests : InHands(s)' <=> InHands(s) /\ s # r
  BY <1>1, <1>3 DEF PlaceInv, HandledOnce, InHands, Handles
<1>6. \A s \in Requests : InQueue(s)' <=> InQueue(s)
  BY DEF InQueue
<1>7. reply'[r] # NoReply /\ \A s \in Requests : s # r => reply'[s] = reply[s]
  BY <1>1 DEF PlaceInv, Types
<1>8. OnePlace'
  BY <1>1, <1>5, <1>6, <1>7 DEF PlaceInv, OnePlace
<1> QED
  BY <1>2, <1>4, <1>8 DEF PlaceInv, QueuedOnce

(* A worker goes on with the request in its hands.                         *)
LEMMA GoingOnKeepsPlaces ==
  ASSUME PlaceInv, NEW w \in Workers, worker[w].pc \in {"body", "steps"},
         NEW state, state.pc = "steps", state.request = worker[w].request,
         worker' = [worker EXCEPT ![w] = state],
         UNCHANGED <<client, request, queue, reply>>
  PROVE  PlaceInv'
<1>1. Types'
  BY DEF PlaceInv, Types
<1>2. \A v \in Workers : \A s : Handles(v, s)' <=> Handles(v, s)
  BY DEF PlaceInv, Types, Handles
<1>3. \A s : (InHands(s)' <=> InHands(s)) /\ (InQueue(s)' <=> InQueue(s))
  BY <1>2 DEF InHands, InQueue
<1>4. OnePlace'
  BY <1>3 DEF PlaceInv, OnePlace
<1> QED
  BY <1>1, <1>2, <1>4 DEF PlaceInv, QueuedOnce, HandledOnce

(* recv() yields the request at the head of the queue.                     *)
LEMMA TakeKeepsPlaces == ASSUME PlaceInv, NEW w \in Workers, Take(w) PROVE PlaceInv'
<1> DEFINE r == Head(queue)
           early == EarlyReply(request[r])
<1>1. /\ queue \in Seq(Requests \cup {Failure, Wake}) /\ queue # <<>>
      /\ r \in Requests /\ queue' = Tail(queue) /\ worker[w].pc = "recv"
      /\ UNCHANGED <<client, request>>
  BY DEF Take, Receiving, PlaceInv, Types
<1>2. /\ r = queue[1] /\ 1 \in DOMAIN queue
      /\ queue' \in Seq(Requests \cup {Failure, Wake})
      /\ \A i \in DOMAIN queue' : i + 1 \in DOMAIN queue /\ queue'[i] = queue[i + 1] /\ i + 1 # 1
      /\ \A i \in DOMAIN queue : i # 1 => i - 1 \in DOMAIN queue' /\ queue'[i - 1] = queue[i]
  BY <1>1, TailHolds
<1>3. InQueue(r) /\ client[r] # "idle" /\ ~InHands(r) /\ reply[r] = NoReply
  BY <1>1, <1>2 DEF PlaceInv, OnePlace, InQueue
<1>4. QueuedOnce'
  <2> SUFFICES ASSUME NEW i \in DOMAIN queue', NEW j \in DOMAIN queue',
                      queue'[i] \in Requests, queue'[i] = queue'[j]
               PROVE  i = j
    BY DEF QueuedOnce
  <2>1. i + 1 = j + 1
    BY <1>2 DEF PlaceInv, QueuedOnce
  <2>2. i \in Nat /\ j \in Nat
    BY <1>2
  <2> QED
    BY <2>1, <2>2
<1>5. \A s \in Requests : InQueue(s)' <=> InQueue(s) /\ s # r
  <2> TAKE s \in Requests
  <2>1. InQueue(s)' => InQueue(s) /\ s # r
    BY <1>1, <1>2 DEF PlaceInv, QueuedOnce, InQueue
  <2>2. InQueue(s) /\ s # r => InQueue(s)'
    BY <1>2 DEF InQueue
  <2> QED
    BY <2>1, <2>2
<1>6. CASE early = NoReply
  <2>1. worker' = [worker EXCEPT ![w] = [pc |-> "body", request |-> r]] /\ UNCHANGED reply
    BY <1>6 DEF Take
  <2>2. Types'
    BY <1>1, <1>2, <2>1 DEF PlaceInv, Types
  <2>3. \A v \in Workers, s \in Requests : Handles(v, s)' <=> Handles(v, s) \/ (v = w /\ s = r)
    BY <1>1, <2>1 DEF PlaceInv, Types, Handles
  <2>4. HandledOnce'
    BY <1>3, <2>3 DEF PlaceInv, HandledOnce, InHands
  <2>5. \A s \in Requests : InHands(s)' <=> InHands(s) \/ s = r
    BY <2>3 DEF InHands
  <2>6. OnePlace'
    BY <1>1, <1>3, <1>5, <2>1, <2>5 DEF PlaceInv, OnePlace
  <2> QED
    BY <1>4, <2>2, <2>4, <2>6 DEF PlaceInv
<1>7. CASE early # NoReply
  <2>1. reply' = [reply EXCEPT ![r] = early] /\ UNCHANGED worker
    BY <1>7 DEF Take
  <2>2. Types'
    BY <1>1, <1>2, <2>1 DEF PlaceInv, Types
  <2>3. \A v, s : Handles(v, s)' <=> Handles(v, s)
    BY <2>1 DEF Handles
  <2>4. \A s : InHands(s)' <=> InHands(s)
    BY <2>1, <2>3 DEF InHands
  <2>5. reply'[r] # NoReply /\ \A s \in Requests : s # r => reply'[s] = reply[s]
    BY <1>1, <1>7, <2>1 DEF PlaceInv, Types
  <2>6. OnePlace'
    BY <1>1, <1>3, <1>5, <2>4, <2>5 DEF PlaceInv, OnePlace
  <2> QED
    BY <1>4, <2>2, <2>3, <2>6 DEF PlaceInv, HandledOnce
<1> QED
  BY <1>6, <1>7
(* recv() fails: one token goes and one comes.                             *)
LEMMA ExitKeepsPlaces == ASSUME PlaceInv, NEW w \in Workers, Exit(w) PROVE PlaceInv'
<1> DEFINE rest == Tail(queue)
<1>1. /\ queue \in Seq(Requests \cup {Failure, Wake}) /\ queue # <<>>
      /\ Head(queue) \notin Requests /\ worker[w].pc = "recv"
      /\ worker' = [worker EXCEPT ![w] = [pc |-> "gone"]]
      /\ queue' = Append(rest, Wake)
      /\ UNCHANGED <<client, request, reply>>
  BY DEF Exit, Receiving, PlaceInv, Types
<1>2. /\ Head(queue) = queue[1]
      /\ rest \in Seq(Requests \cup {Failure, Wake})
      /\ \A i \in DOMAIN rest : i + 1 \in DOMAIN queue /\ rest[i] = queue[i + 1]
      /\ \A i \in DOMAIN queue : i # 1 => i - 1 \in DOMAIN rest /\ rest[i - 1] = queue[i]
  BY <1>1, TailHolds
<1> HIDE DEF rest
<1>3. /\ queue' \in Seq(Requests \cup {Failure, Wake})
      /\ DOMAIN queue' = DOMAIN rest \cup {Len(rest) + 1}
      /\ \A i \in DOMAIN rest : queue'[i] = rest[i]
      /\ queue'[Len(rest) + 1] \notin Requests
  BY <1>1, <1>2, AppendHolds, ServerAssumption
<1>4. \A i \in DOMAIN queue' : queue'[i] \in Requests =>
        i \in DOMAIN rest /\ i + 1 \in DOMAIN queue /\ queue'[i] = queue[i + 1]
  BY <1>2, <1>3
<1>5. \A i \in DOMAIN queue : queue[i] \in Requests =>
        i - 1 \in DOMAIN queue' /\ queue'[i - 1] = queue[i]
  BY <1>1, <1>2, <1>3
<1>6. QueuedOnce'
  <2> SUFFICES ASSUME NEW i \in DOMAIN queue', NEW j \in DOMAIN queue',
                      queue'[i] \in Requests, queue'[i] = queue'[j]
               PROVE  i = j
    BY DEF QueuedOnce
  <2>1. i + 1 = j + 1
    BY <1>4 DEF PlaceInv, QueuedOnce
  <2>2. i \in Nat /\ j \in Nat
    BY <1>3
  <2> QED
    BY <2>1, <2>2
<1>7. \A s \in Requests : InQueue(s)' <=> InQueue(s)
  BY <1>4, <1>5 DEF InQueue
<1>8. \A v \in Workers, s \in Requests : Handles(v, s)' <=> Handles(v, s)
  BY <1>1 DEF PlaceInv, Types, Handles
<1>9. \A s \in Requests : InHands(s)' <=> InHands(s)
  BY <1>8 DEF InHands
<1>10. Types'
  BY <1>1, <1>3 DEF PlaceInv, Types
<1>11. OnePlace'
  BY <1>1, <1>7, <1>9 DEF PlaceInv, OnePlace
<1> QED
  BY <1>6, <1>8, <1>10, <1>11 DEF PlaceInv, HandledOnce

(* Whatever a worker does, the requests stay where one may look for them.  *)
LEMMA WorkKeepsPlaces == ASSUME PlaceInv, NEW w \in Workers, Work(w) PROVE PlaceInv'
<1> DEFINE r == worker[w].request
<1>1. CASE Take(w)
  BY <1>1, TakeKeepsPlaces
<1>2. CASE Exit(w)
  BY <1>2, ExitKeepsPlaces
<1>3. Idle.pc = "recv"
  BY DEF Idle
<1>4. ASSUME NEW answer, answer # NoReply, worker[w].pc \in {"body", "steps"}, Respond(w, answer),
             UNCHANGED <<client, request, queue>>
      PROVE  PlaceInv'
  <2>1. reply' = [reply EXCEPT ![worker[w].request] = answer] /\ worker' = [worker EXCEPT ![w] = Idle]
    BY <1>4 DEF Respond
  <2> QED
    BY <1>3, <1>4, <2>1, AnsweringKeepsPlaces
<1>5. CASE ReadFails(w)
  <2>1. /\ worker[w].pc \in {"body", "steps"} /\ UNCHANGED <<client, request, queue>>
        /\ Respond(w, UnreadableBody) \/ Respond(w, ErrorReply(400))
    BY <1>5 DEF ReadFails, AtBody
  <2> QED
    BY <1>4, <2>1, RepliesAreReplies
<1>6. CASE CallFunction(w)
  <2>1. /\ worker[w].pc \in {"body", "steps"} /\ UNCHANGED <<client, request, queue>>
        /\ Respond(w, FunctionReply(request[r]))
    BY <1>6 DEF CallFunction, AtBody
  <2>2. FunctionReply(request[r]) # NoReply
    <3>1. \/ FunctionReply(request[r]) = ErrorReply(400) \/ FunctionReply(request[r]) = Refusal
          \/ \E v : FunctionReply(request[r]) = Answer(v)
      BY DEF FunctionReply
    <3> QED
      BY <3>1, RepliesAreReplies
  <2> QED
    BY <1>4, <2>1, <2>2
<1>7. CASE BeginPipeline(w)
  <2>1. worker[w].pc \in {"body", "steps"} /\ UNCHANGED <<client, request, queue>>
    BY <1>7 DEF BeginPipeline, AtBody
  <2>2. CASE WellFormed(request[r].body)
    <3> DEFINE state == Executing(r, 0, <<>>)
    <3>1. worker' = [worker EXCEPT ![w] = state] /\ UNCHANGED reply
      BY <1>7, <2>2 DEF BeginPipeline
    <3>2. state.pc = "steps" /\ state.request = r
      BY DEF Executing
    <3> QED
      BY <2>1, <3>1, <3>2, GoingOnKeepsPlaces
  <2>3. CASE ~WellFormed(request[r].body)
    <3>1. Respond(w, ErrorReply(400))
      BY <1>7, <2>3 DEF BeginPipeline
    <3> QED
      BY <1>4, <2>1, <3>1, RepliesAreReplies
  <2> QED
    BY <2>2, <2>3
<1>8. CASE ExecuteStep(w)
  <2> DEFINE steps == request[r].body.steps
             done  == worker[w].done
             step  == steps[done + 1]
             out   == StepOutcome(modules, step, worker[w].scope)
             state == Executing(r, done + 1, Bound(worker[w].scope, step.output, out.value))
  <2>1. /\ worker[w].pc = "steps" /\ UNCHANGED <<client, request, queue>>
        /\ \/ Respond(w, Answer(worker[w].scope))
           \/ Respond(w, Refusal)
           \/ worker' = [worker EXCEPT ![w] = state] /\ UNCHANGED reply
    BY <1>8 DEF ExecuteStep
  <2>2. CASE Respond(w, Answer(worker[w].scope)) \/ Respond(w, Refusal)
    BY <1>4, <2>1, <2>2, RepliesAreReplies
  <2>3. CASE worker' = [worker EXCEPT ![w] = state] /\ UNCHANGED reply
    <3>1. state.pc = "steps" /\ state.request = r
      BY DEF Executing
    <3> HIDE DEF state
    <3> QED
      BY <2>1, <2>3, <3>1, GoingOnKeepsPlaces
  <2> QED
    BY <2>1, <2>2, <2>3
<1>9. CASE Panic(w)
  <2>1. /\ worker[w].pc \in {"body", "steps"} /\ UNCHANGED <<client, request, queue>>
        /\ reply' = [reply EXCEPT ![r] = DroppedRequest]
        /\ worker' = [worker EXCEPT ![w] = [pc |-> "died"]]
    BY <1>9 DEF Panic, AtBody
  <2> QED
    BY <2>1, RepliesAreReplies, AnsweringKeepsPlaces
<1> QED
  BY <1>1, <1>2, <1>5, <1>6, <1>7, <1>8, <1>9 DEF Work

LEMMA StepsKeepPlaces == PlaceInv /\ [Next]_vars => PlaceInv'
<1> SUFFICES ASSUME PlaceInv, [Next]_vars PROVE PlaceInv'
  OBVIOUS
<1>1. ASSUME UNCHANGED <<client, request, queue, worker, reply>> PROVE PlaceInv'
  BY <1>1 DEF PlaceInv, Types, QueuedOnce, HandledOnce, OnePlace, InQueue, InHands, Handles
<1>2. CASE Start \/ Return
  BY <1>1, <1>2 DEF Start, Return
<1>3. CASE StopAccepting
  BY <1>3, StopKeepsPlaces
<1>4. ASSUME NEW r \in Requests, Send(r) \/ FinishBody(r) \/ AbortBody(r) PROVE PlaceInv'
  BY <1>4, SendKeepsPlaces, ClientsKeepPlaces DEF FinishBody, AbortBody
<1>5. ASSUME NEW w \in Workers, Work(w) PROVE PlaceInv'
  BY <1>5, WorkKeepsPlaces
<1>6. CASE UNCHANGED vars
  BY <1>1, <1>6 DEF vars
<1> QED
  BY <1>2, <1>3, <1>4, <1>5, <1>6 DEF Next

THEOREM RequestsHaveOnePlace == Spec => []PlaceInv
BY PlacesAtFirst, StepsKeepPlaces, PTL DEF Spec

(* No request is lost or answered twice: for any number of workers and of  *)
(* requests, whatever bodies, panics and shutdowns come in between, a      *)
(* request that was sent waits in the queue once, or is in the hands of    *)
(* one worker, or has its answer (recv, handle_request, serve_requests).   *)
THEOREM NothingIsLost == Spec => []NoRequestIsLost
<1>1. PlaceInv => NoRequestIsLost
  <2> SUFFICES ASSUME PlaceInv, NEW r \in Requests
               PROVE  Cardinality(Places(r)) + Cardinality(Handlers(r))
                        + (IF reply[r] # NoReply THEN 1 ELSE 0)
                      = IF client[r] = "idle" THEN 0 ELSE 1
    BY DEF NoRequestIsLost
  <2>1. Cardinality(Places(r)) = IF InQueue(r) THEN 1 ELSE 0
    <3>1. Places(r) = {} <=> ~InQueue(r)
      BY DEF Places, InQueue
    <3>2. \A i, j \in Places(r) : i = j
      BY DEF PlaceInv, QueuedOnce, Places
    <3> HIDE DEF Places
    <3> QED
      BY <3>1, <3>2, AtMostOne
  <2>2. Cardinality(Handlers(r)) = IF InHands(r) THEN 1 ELSE 0
    <3>1. Handlers(r) = {} <=> ~InHands(r)
      BY DEF Handlers, InHands, Handles
    <3>2. \A v, w \in Handlers(r) : v = w
      BY DEF PlaceInv, HandledOnce, Handlers, Handles
    <3> HIDE DEF Handlers
    <3> QED
      BY <3>1, <3>2, AtMostOne
  <2> QED
    BY <2>1, <2>2 DEF PlaceInv, OnePlace
<1> QED
  BY <1>1, RequestsHaveOnePlace, PTL
-----------------------------------------------------------------------------
(* What is known of the pipelines that are being executed: the scope a     *)
(* worker has is what PhsPipeline::execute has after the same steps. And   *)
(* of those that are answered. Requests are sent once modules are loaded.  *)
IsPipeline(q) == HasBody(q) /\ q.route = "pipeline" /\ CheckAuth(q)

RequestsAreSent ==
  \A r \in Requests : client[r] # "idle" => stage # "starting" /\ request[r] \in RequestOf[r]

BodiesAreRead ==
  \A w \in Workers : worker[w].pc \in {"body", "steps"} => HasBody(request[worker[w].request])

ScopesAreRuns ==
  \A w \in Workers :
    worker[w].pc = "steps" =>
      LET q == request[worker[w].request]
      IN  /\ client[worker[w].request] = "sent"
          /\ q.route = "pipeline"
          /\ WellFormed(q.body)
          /\ worker[w].done \in 0 .. Len(q.body.steps)
          /\ Runs(modules, q.body.steps)[worker[w].done] = Ok(worker[w].scope)

AnswersAreRuns ==
  \A r \in Requests :
    reply[r] # NoReply /\ IsPipeline(request[r]) =>
      /\ client[r] # "sending"
      /\ client[r] = "sent" /\ request[r].fate # "panic" =>
           LET q == request[r]
               run == Execute(modules, q.body.steps)
           IN  IF WellFormed(q.body) /\ run.ok
               THEN reply[r] = Answer(run.value)
               ELSE reply[r].status = 400 /\ "result" \notin DOMAIN reply[r]

RunInv == PlaceInv /\ RequestsAreSent /\ BodiesAreRead /\ ScopesAreRuns /\ AnswersAreRuns

LEMMA RunsAtFirst == Init => RunInv
BY PlacesAtFirst DEF Init, RunInv, RequestsAreSent, BodiesAreRead, ScopesAreRuns, AnswersAreRuns, Idle

(* A well-formed pipeline is a list of steps within the ceiling.           *)
LEMMA StepsAreCounted ==
  ASSUME NEW r \in Requests, request[r] \in RequestOf[r], HasBody(request[r]),
         request[r].route = "pipeline", WellFormed(request[r].body)
  PROVE  /\ Len(request[r].body.steps) \in Nat
         /\ Execute(modules, request[r].body.steps)
              = Runs(modules, request[r].body.steps)[Len(request[r].body.steps)]
<1>1. Len(request[r].body.steps) \in Nat
  BY StepsAssumption DEF HasBody, WellFormed
<1>2. ~(Len(request[r].body.steps) > Ceiling)
  BY <1>1, CeilingAssumption DEF WellFormed
<1> QED
  BY <1>1, <1>2 DEF Execute

(* What a pipeline is answered stays what it should be answered when the   *)
(* worker answers it, and nothing else that the invariant speaks of moves. *)
LEMMA AnsweringKeepsRuns ==
  ASSUME RunInv, PlaceInv', NEW w \in Workers, worker[w].pc \in {"body", "steps"},
         NEW answer, reply' = [reply EXCEPT ![worker[w].request] = answer],
         NEW state, state.pc \notin {"body", "steps"}, worker' = [worker EXCEPT ![w] = state],
         UNCHANGED <<stage, token, modules, client, request, queue>>,
         client[worker[w].request] # "sending",
         LET q == request[worker[w].request]
             run == Execute(modules, q.body.steps)
         IN  IsPipeline(q) /\ client[worker[w].request] = "sent" /\ q.fate # "panic" =>
               IF WellFormed(q.body) /\ run.ok
               THEN answer = Answer(run.value)
               ELSE answer.status = 400 /\ "result" \notin DOMAIN answer
  PROVE  RunInv'
<1> DEFINE r == worker[w].request
<1>1. r \in Requests /\ r \in DOMAIN reply /\ w \in DOMAIN worker
  BY DEF RunInv, PlaceInv, Types
<1>2. worker'[w] = state /\ \A v \in Workers : v # w => worker'[v] = worker[v]
  BY <1>1
<1>3. reply'[r] = answer /\ \A s \in Requests : s # r => reply'[s] = reply[s]
  BY <1>1 DEF RunInv, PlaceInv, Types
<1>4. RequestsAreSent'
  BY DEF RunInv, RequestsAreSent
<1>5. BodiesAreRead'
  BY <1>2 DEF RunInv, BodiesAreRead
<1>6. ScopesAreRuns'
  <2> SUFFICES ASSUME NEW v \in Workers, worker'[v].pc = "steps"
               PROVE  LET q == request[worker'[v].request]
                      IN  /\ client[worker'[v].request] = "sent"
                          /\ q.route = "pipeline"
                          /\ WellFormed(q.body)
                          /\ worker'[v].done \in 0 .. Len(q.body.steps)
                          /\ Runs(modules, q.body.steps)[worker'[v].done] = Ok(worker'[v].scope)
    BY DEF ScopesAreRuns
  <2>1. v # w /\ worker'[v] = worker[v]
    BY <1>2
  <2> QED
    BY <2>1 DEF RunInv, ScopesAreRuns
<1>7. \A q : CheckAuth(q)' <=> CheckAuth(q)
  BY DEF CheckAuth
<1>8. AnswersAreRuns'
  <2> SUFFICES ASSUME NEW s \in Requests, reply'[s] # NoReply, IsPipeline(request[s])
               PROVE  /\ client[s] # "sending"
                      /\ client[s] = "sent" /\ request[s].fate # "panic" =>
                           LET q == request[s]
                               run == Execute(modules, q.body.steps)
                           IN  IF WellFormed(q.body) /\ run.ok
                               THEN reply'[s] = Answer(run.value)
                               ELSE reply'[s].status = 400 /\ "result" \notin DOMAIN reply'[s]
    BY <1>7 DEF AnswersAreRuns, IsPipeline, Answer, WellFormed, HasBody
  <2>1. CASE s = r
    BY <1>3, <2>1
  <2>2. CASE s # r
    BY <1>3, <2>2 DEF RunInv, AnswersAreRuns
  <2> QED
    BY <2>1, <2>2
<1> QED
  BY <1>4, <1>5, <1>6, <1>8 DEF RunInv

(* A worker begins to execute a pipeline, or is through one more step.     *)
LEMMA GoingOnKeepsRuns ==
  ASSUME RunInv, PlaceInv', NEW w \in Workers, worker[w].pc \in {"body", "steps"},
         NEW state, state.pc = "steps", state.request = worker[w].request,
         worker' = [worker EXCEPT ![w] = state],
         UNCHANGED <<stage, token, modules, client, request, queue, reply>>,
         LET q == request[worker[w].request]
         IN  /\ client[worker[w].request] = "sent"
             /\ q.route = "pipeline" /\ WellFormed(q.body)
             /\ state.done \in 0 .. Len(q.body.steps)
             /\ Runs(modules, q.body.steps)[state.done] = Ok(state.scope)
  PROVE  RunInv'
<1>1. w \in DOMAIN worker
  BY DEF RunInv, PlaceInv, Types
<1>2. worker'[w] = state /\ \A v \in Workers : v # w => worker'[v] = worker[v]
  BY <1>1
<1>3. RequestsAreSent'
  BY DEF RunInv, RequestsAreSent
<1>4. BodiesAreRead'
  BY <1>2 DEF RunInv, BodiesAreRead
<1>5. ScopesAreRuns'
  BY <1>2 DEF RunInv, ScopesAreRuns, WellFormed
<1>6. AnswersAreRuns'
  BY DEF RunInv, AnswersAreRuns, IsPipeline, CheckAuth, Answer, WellFormed, HasBody
<1> QED
  BY <1>3, <1>4, <1>5, <1>6 DEF RunInv
(* What neither workers nor requests notice.                               *)
LEMMA ElsewhereKeepsRuns ==
  ASSUME RunInv, PlaceInv', UNCHANGED <<token, modules, client, request, worker, reply>>,
         stage # "starting" => stage' # "starting"
  PROVE  RunInv'
<1>1. RequestsAreSent' /\ BodiesAreRead'
  BY DEF RunInv, RequestsAreSent, BodiesAreRead, HasBody
<1>2. ScopesAreRuns'
  BY DEF RunInv, ScopesAreRuns, WellFormed
<1>3. AnswersAreRuns'
  BY DEF RunInv, AnswersAreRuns, IsPipeline, CheckAuth, Answer, WellFormed, HasBody
<1> QED
  BY <1>1, <1>2, <1>3 DEF RunInv

(* Before the modules are loaded nothing was sent.                         *)
LEMMA StartKeepsRuns == ASSUME RunInv, PlaceInv', Start PROVE RunInv'
<1>1. stage = "starting" /\ stage' # "starting" /\ UNCHANGED <<client, request, worker, reply>>
  BY DEF Start
<1>2. \A r \in Requests : client[r] = "idle" /\ reply[r] = NoReply /\ ~InHands(r)
  BY <1>1 DEF RunInv, RequestsAreSent, PlaceInv, OnePlace
<1>3. \A w \in Workers : worker[w].pc \notin {"body", "steps"}
  BY <1>2 DEF RunInv, PlaceInv, Types, InHands, Handles
<1> QED
  BY <1>1, <1>2, <1>3 DEF RunInv, RequestsAreSent, BodiesAreRead, ScopesAreRuns, AnswersAreRuns

(* A request is sent: nobody has it in hands, and it has no answer.        *)
LEMMA SendKeepsRuns == ASSUME RunInv, PlaceInv', NEW r \in Requests, Send(r) PROVE RunInv'
<1>1. PICK q \in RequestOf[r] :
        /\ request' = [request EXCEPT ![r] = q]
        /\ client' = [client EXCEPT ![r] = IF HasBody(q) THEN "sending" ELSE "sent"]
  BY DEF Send
<1>2. /\ stage = "serving" /\ client[r] = "idle"
      /\ UNCHANGED <<stage, token, modules, worker, reply>>
  BY DEF Send
<1>3. ~InHands(r) /\ reply[r] = NoReply
  BY <1>2 DEF RunInv, PlaceInv, OnePlace
<1>4. \A s \in Requests : s # r => request'[s] = request[s] /\ client'[s] = client[s]
  BY <1>1 DEF RunInv, PlaceInv, Types
<1>5. request'[r] = q
  BY <1>1 DEF RunInv, PlaceInv, Types
<1>6. \A w \in Workers : worker[w].pc \in {"body", "steps"} =>
        worker[w].request \in Requests /\ worker[w].request # r
  BY <1>3 DEF RunInv, PlaceInv, Types, InHands, Handles
<1>7. RequestsAreSent'
  BY <1>2, <1>4, <1>5 DEF RunInv, RequestsAreSent
<1>8. BodiesAreRead'
  BY <1>2, <1>4, <1>6 DEF RunInv, BodiesAreRead
<1>9. ScopesAreRuns'
  <2> SUFFICES ASSUME NEW v \in Workers, worker[v].pc = "steps"
               PROVE  LET p == request'[worker[v].request]
                      IN  /\ client'[worker[v].request] = "sent"
                          /\ p.route = "pipeline"
                          /\ WellFormed(p.body)
                          /\ worker[v].done \in 0 .. Len(p.body.steps)
                          /\ Runs(modules, p.body.steps)[worker[v].done] = Ok(worker[v].scope)
    BY <1>2 DEF ScopesAreRuns
  <2>1. /\ request'[worker[v].request] = request[worker[v].request]
        /\ client'[worker[v].request] = client[worker[v].request]
    BY <1>4, <1>6
  <2> QED
    BY <2>1 DEF RunInv, ScopesAreRuns
<1>10. AnswersAreRuns'
  <2> SUFFICES ASSUME NEW s \in Requests, reply[s] # NoReply, IsPipeline(request'[s])
               PROVE  /\ client'[s] # "sending"
                      /\ client'[s] = "sent" /\ request'[s].fate # "panic" =>
                           LET p == request'[s]
                               run == Execute(modules, p.body.steps)
                           IN  IF WellFormed(p.body) /\ run.ok
                               THEN reply[s] = Answer(run.value)
                               ELSE reply[s].status = 400 /\ "result" \notin DOMAIN reply[s]
    BY <1>2 DEF AnswersAreRuns, IsPipeline, CheckAuth, Answer, WellFormed, HasBody
  <2>1. request'[s] = request[s] /\ client'[s] = client[s]
    BY <1>3, <1>4
  <2> QED
    BY <2>1 DEF RunInv, AnswersAreRuns
<1> QED
  BY <1>7, <1>8, <1>9, <1>10 DEF RunInv

(* The client ends the body it was sending.                                *)
LEMMA BodyKeepsRuns ==
  ASSUME RunInv, PlaceInv', UNCHANGED <<stage, token, modules, request, worker, reply>>,
         NEW r \in Requests, client[r] = "sending",
         NEW what \in {"sent", "aborted"}, client' = [client EXCEPT ![r] = what]
  PROVE  RunInv'
<1>1. client'[r] = what /\ \A s \in Requests : s # r => client'[s] = client[s]
  BY DEF RunInv, PlaceInv, Types
<1>2. RequestsAreSent'
  BY <1>1 DEF RunInv, RequestsAreSent
<1>3. BodiesAreRead'
  BY DEF RunInv, BodiesAreRead, HasBody
<1>4. ScopesAreRuns'
  <2> SUFFICES ASSUME NEW v \in Workers, worker[v].pc = "steps"
               PROVE  LET p == request[worker[v].request]
                      IN  /\ client'[worker[v].request] = "sent"
                          /\ p.route = "pipeline"
                          /\ WellFormed(p.body)
                          /\ worker[v].done \in 0 .. Len(p.body.steps)
                          /\ Runs(modules, p.body.steps)[worker[v].done] = Ok(worker[v].scope)
    BY DEF ScopesAreRuns, WellFormed
  <2>1. client[worker[v].request] = "sent" /\ worker[v].request \in Requests
    BY DEF RunInv, ScopesAreRuns, PlaceInv, Types
  <2>2. client'[worker[v].request] = "sent"
    BY <1>1, <2>1
  <2> QED
    BY <2>2 DEF RunInv, ScopesAreRuns
<1>5. AnswersAreRuns'
  <2> SUFFICES ASSUME NEW s \in Requests, reply[s] # NoReply, IsPipeline(request[s])
               PROVE  /\ client'[s] # "sending"
                      /\ client'[s] = "sent" /\ request[s].fate # "panic" =>
                           LET p == request[s]
                               run == Execute(modules, p.body.steps)
                           IN  IF WellFormed(p.body) /\ run.ok
                               THEN reply[s] = Answer(run.value)
                               ELSE reply[s].status = 400 /\ "result" \notin DOMAIN reply[s]
    BY DEF AnswersAreRuns, IsPipeline, CheckAuth, Answer, WellFormed, HasBody
  <2>1. s # r
    BY DEF RunInv, AnswersAreRuns
  <2>2. client'[s] = client[s]
    BY <1>1, <2>1
  <2> QED
    BY <2>2 DEF RunInv, AnswersAreRuns
<1> QED
  BY <1>2, <1>3, <1>4, <1>5 DEF RunInv

(* What is answered before a body is read is no pipeline, and what is not  *)
(* answered then has a body.                                               *)
LEMMA EarlyReplies ==
  ASSUME NEW q
  PROVE  /\ IsPipeline(q) => EarlyReply(q) = NoReply
         /\ EarlyReply(q) = NoReply => HasBody(q)
<1>1. IsPipeline(q) => EarlyReply(q) = NoReply
  BY DEF IsPipeline, EarlyReply, HasBody
<1>2. ASSUME ~HasBody(q) PROVE EarlyReply(q) # NoReply
  <2>1. \/ EarlyReply(q) = Preflight \/ EarlyReply(q) = ErrorReply(401)
        \/ EarlyReply(q) = ErrorReply(404) \/ \E v : EarlyReply(q) = Answer(v)
    BY <1>2 DEF EarlyReply
  <2>2. Preflight # NoReply
    <3>1. Preflight.status # NoReply.status
      BY DEF Preflight, NoReply
    <3> QED
      BY <3>1
  <2> QED
    BY <2>1, <2>2, RepliesAreReplies
<1> QED
  BY <1>1, <1>2
(* A worker takes a request, or ends.                                      *)
LEMMA TakeKeepsRuns == ASSUME RunInv, PlaceInv', NEW w \in Workers, Take(w) PROVE RunInv'
<1> DEFINE r == Head(queue)
           early == EarlyReply(request[r])
<1>1. /\ r \in Requests /\ worker[w].pc = "recv"
      /\ UNCHANGED <<stage, token, modules, client, request>>
  BY DEF Take, Receiving
<1>2. w \in DOMAIN worker /\ r \in DOMAIN reply
  BY <1>1 DEF RunInv, PlaceInv, Types
<1> HIDE DEF r
<1>3. CASE early = NoReply
  <2>1. worker' = [worker EXCEPT ![w] = [pc |-> "body", request |-> r]] /\ UNCHANGED reply
    BY <1>3 DEF Take, r
  <2>2. HasBody(request[r])
    BY <1>3, EarlyReplies
  <2>3. /\ worker'[w] = [pc |-> "body", request |-> r]
        /\ \A v \in Workers : v # w => worker'[v] = worker[v]
    BY <1>2, <2>1
  <2>4. RequestsAreSent'
    BY <1>1 DEF RunInv, RequestsAreSent
  <2>5. BodiesAreRead'
    BY <1>1, <2>2, <2>3 DEF RunInv, BodiesAreRead, HasBody
  <2>6. ScopesAreRuns'
    <3> SUFFICES ASSUME NEW v \in Workers, worker'[v].pc = "steps"
                 PROVE  LET p == request[worker'[v].request]
                        IN  /\ client[worker'[v].request] = "sent"
                            /\ p.route = "pipeline"
                            /\ WellFormed(p.body)
                            /\ worker'[v].done \in 0 .. Len(p.body.steps)
                            /\ Runs(modules, p.body.steps)[worker'[v].done] = Ok(worker'[v].scope)
      BY <1>1 DEF ScopesAreRuns
    <3>1. v # w /\ worker'[v] = worker[v]
      BY <2>3
    <3> QED
      BY <3>1 DEF RunInv, ScopesAreRuns
  <2>7. AnswersAreRuns'
    BY <1>1, <2>1 DEF RunInv, AnswersAreRuns, IsPipeline, CheckAuth, Answer, WellFormed, HasBody
  <2> QED
    BY <2>4, <2>5, <2>6, <2>7 DEF RunInv
<1>4. CASE early # NoReply
  <2>1. reply' = [reply EXCEPT ![r] = early] /\ UNCHANGED worker
    BY <1>4 DEF Take, r
  <2>2. ~IsPipeline(request[r])
    BY <1>4, EarlyReplies
  <2>3. \A s \in Requests : s # r => reply'[s] = reply[s]
    BY <1>2, <2>1
  <2>4. RequestsAreSent' /\ BodiesAreRead'
    BY <1>1, <2>1 DEF RunInv, RequestsAreSent, BodiesAreRead, HasBody
  <2>5. ScopesAreRuns'
    BY <1>1, <2>1 DEF RunInv, ScopesAreRuns, WellFormed
  <2>6. AnswersAreRuns'
    <3> SUFFICES ASSUME NEW s \in Requests, reply'[s] # NoReply, IsPipeline(request[s])
                 PROVE  /\ client[s] # "sending"
                        /\ client[s] = "sent" /\ request[s].fate # "panic" =>
                             LET p == request[s]
                                 run == Execute(modules, p.body.steps)
                             IN  IF WellFormed(p.body) /\ run.ok
                                 THEN reply'[s] = Answer(run.value)
                                 ELSE reply'[s].status = 400 /\ "result" \notin DOMAIN reply'[s]
      BY <1>1 DEF AnswersAreRuns, IsPipeline, CheckAuth, Answer, WellFormed, HasBody
    <3>1. s # r /\ reply'[s] = reply[s]
      BY <2>2, <2>3
    <3> QED
      BY <3>1 DEF RunInv, AnswersAreRuns
  <2> QED
    BY <2>4, <2>5, <2>6 DEF RunInv
<1> QED
  BY <1>3, <1>4

LEMMA ExitKeepsRuns == ASSUME RunInv, PlaceInv', NEW w \in Workers, Exit(w) PROVE RunInv'
<1>1. /\ worker' = [worker EXCEPT ![w] = [pc |-> "gone"]]
      /\ UNCHANGED <<stage, token, modules, client, request, reply>>
  BY DEF Exit
<1>2. /\ worker'[w] = [pc |-> "gone"]
      /\ \A v \in Workers : v # w => worker'[v] = worker[v]
  BY <1>1 DEF RunInv, PlaceInv, Types
<1>3. RequestsAreSent' /\ BodiesAreRead'
  BY <1>1, <1>2 DEF RunInv, RequestsAreSent, BodiesAreRead, HasBody
<1>4. ScopesAreRuns'
  BY <1>1, <1>2 DEF RunInv, ScopesAreRuns, WellFormed
<1>5. AnswersAreRuns'
  BY <1>1 DEF RunInv, AnswersAreRuns, IsPipeline, CheckAuth, Answer, WellFormed, HasBody
<1> QED
  BY <1>3, <1>4, <1>5 DEF RunInv

(* One turn of the server's own loop is one step of the run, and the first *)
(* error it meets is that of the run.                                      *)
LEMMA StepKeepsRuns == ASSUME RunInv, PlaceInv', NEW w \in Workers, ExecuteStep(w) PROVE RunInv'
<1> DEFINE r     == worker[w].request
           q     == request[r]
           steps == q.body.steps
           done  == worker[w].done
           scope == worker[w].scope
           step  == steps[done + 1]
           out   == StepOutcome(modules, step, scope)
           run   == Runs(modules, steps)
<1>1. worker[w].pc = "steps" /\ UNCHANGED <<stage, token, modules, client, request, queue>>
  BY DEF ExecuteStep
<1>2. /\ r \in Requests /\ client[r] = "sent" /\ q.route = "pipeline" /\ WellFormed(q.body)
      /\ done \in 0 .. Len(steps) /\ run[done] = Ok(scope)
  BY <1>1 DEF RunInv, PlaceInv, Types, ScopesAreRuns
<1>3. HasBody(q) /\ q \in RequestOf[r]
  BY <1>1, <1>2 DEF RunInv, BodiesAreRead, RequestsAreSent
<1>4. Len(steps) \in Nat /\ Execute(modules, steps) = run[Len(steps)]
  BY <1>2, <1>3, StepsAreCounted
<1>5. /\ Ok(scope).ok /\ Ok(scope).value = scope
      /\ Idle.pc \notin {"body", "steps"}
  BY DEF Ok, Idle
<1>6. done < Len(steps) => run[done + 1] = AfterStep(modules, Ok(scope), step)
  <2> SUFFICES ASSUME done < Len(steps) PROVE run[done + 1] = AfterStep(modules, Ok(scope), step)
    OBVIOUS
  <2>1. done + 1 \in 1 .. Len(steps) /\ (done + 1) - 1 = done
    <3>1. done \in 0 .. Len(steps) /\ Len(steps) \in Nat
      BY <1>2, <1>4
    <3> HIDE DEF done, steps
    <3> QED
      BY <3>1
  <2>2. run[done + 1] = AfterStep(modules, run[(done + 1) - 1], steps[done + 1])
    BY <1>4, <2>1, RunsUnfold
  <2> QED
    BY <1>2, <2>1, <2>2
<1>7. CASE done = Len(steps)
  <2>1. /\ reply' = [reply EXCEPT ![r] = Answer(scope)]
        /\ worker' = [worker EXCEPT ![w] = Idle]
    BY <1>7 DEF ExecuteStep, Respond
  <2>2. Execute(modules, steps) = Ok(scope)
    BY <1>2, <1>4, <1>7
  <2>3. /\ WellFormed(q.body) /\ Execute(modules, steps).ok
        /\ Answer(scope) = Answer(Execute(modules, steps).value)
    BY <1>2, <1>5, <2>2
  <2> HIDE DEF steps
  <2>4. LET p == request[worker[w].request]
            all == Execute(modules, p.body.steps)
        IN  IsPipeline(p) /\ client[worker[w].request] = "sent" /\ p.fate # "panic" =>
              IF WellFormed(p.body) /\ all.ok
              THEN Answer(scope) = Answer(all.value)
              ELSE Answer(scope).status = 400 /\ "result" \notin DOMAIN Answer(scope)
    BY <2>3 DEF steps
  <2> QED
    BY <1>1, <1>2, <1>5, <2>1, <2>4, AnsweringKeepsRuns
<1>8. CASE done # Len(steps) /\ ~out.ok
  <2>1. /\ reply' = [reply EXCEPT ![r] = Refusal]
        /\ worker' = [worker EXCEPT ![w] = Idle]
    BY <1>8 DEF ExecuteStep, Respond
  <2>2. run[done + 1] = out
    <3>1. AfterStep(modules, Ok(scope), step) = out
      BY <1>5, <1>8 DEF AfterStep
    <3> QED
      BY <1>2, <1>4, <1>6, <1>8, <3>1
  <2>3. ~Execute(modules, steps).ok
    <3>1. done + 1 \in 0 .. Len(steps) /\ ~run[done + 1].ok
      BY <1>2, <1>4, <1>8, <2>2
    <3>2. run[Len(steps)] = run[done + 1]
      BY <1>4, <3>1, FirstErrorStays
    <3> QED
      BY <1>4, <3>1, <3>2
  <2>4. Refusal.status = 400 /\ "result" \notin DOMAIN Refusal
    BY DEF Refusal
  <2>5. LET p == request[worker[w].request]
            all == Execute(modules, p.body.steps)
        IN  IsPipeline(p) /\ client[worker[w].request] = "sent" /\ p.fate # "panic" =>
              IF WellFormed(p.body) /\ all.ok
              THEN Refusal = Answer(all.value)
              ELSE Refusal.status = 400 /\ "result" \notin DOMAIN Refusal
    BY <2>3, <2>4
  <2> QED
    BY <1>1, <1>2, <1>5, <2>1, <2>5, AnsweringKeepsRuns
<1>9. CASE done # Len(steps) /\ out.ok
  <2> DEFINE next  == Bound(scope, step.output, out.value)
             state == Executing(r, done + 1, next)
  <2>1. worker' = [worker EXCEPT ![w] = state] /\ UNCHANGED reply
    BY <1>9 DEF ExecuteStep
  <2>2. done < Len(steps) /\ done + 1 \in 0 .. Len(steps)
    <3>1. done \in 0 .. Len(steps) /\ Len(steps) \in Nat /\ done # Len(steps)
      BY <1>2, <1>4, <1>9
    <3> HIDE DEF done, steps
    <3> QED
      BY <3>1
  <2>3. run[done + 1] = Ok(next)
    <3>1. AfterStep(modules, Ok(scope), step) = Ok(next)
      BY <1>5, <1>9 DEF AfterStep, Bound
    <3> QED
      BY <1>6, <2>2, <3>1
  <2>4. /\ state.pc = "steps" /\ state.request = r
        /\ state.done = done + 1 /\ state.scope = next
    BY DEF Executing
  <2> HIDE DEF next, state
  <2> QED
    BY <1>1, <1>2, <2>1, <2>2, <2>3, <2>4, GoingOnKeepsRuns
<1> QED
  BY <1>7, <1>8, <1>9

(* The other turns of a worker that has a body to read: the answer is one  *)
(* for no pipeline, or one that no well-formed pipeline gets.              *)
LEMMA WorkKeepsRuns == ASSUME RunInv, PlaceInv', NEW w \in Workers, Work(w) PROVE RunInv'
<1> DEFINE r == worker[w].request
           q == request[r]
<1>1. Idle.pc \notin {"body", "steps"} /\ [pc |-> "died"].pc \notin {"body", "steps"}
  BY DEF Idle
<1>2. CASE Take(w)
  BY <1>2, TakeKeepsRuns
<1>3. CASE Exit(w)
  BY <1>3, ExitKeepsRuns
<1>4. CASE ReadFails(w)
  <2>1. /\ worker[w].pc \in {"body", "steps"} /\ client[r] = "aborted"
        /\ UNCHANGED <<stage, token, modules, client, request, queue>>
        /\ worker' = [worker EXCEPT ![w] = Idle]
        /\ \E answer : reply' = [reply EXCEPT ![r] = answer]
    BY <1>4 DEF ReadFails, AtBody, Respond
  <2> QED
    BY <1>1, <2>1, AnsweringKeepsRuns
<1>5. CASE CallFunction(w)
  <2>1. /\ worker[w].pc \in {"body", "steps"} /\ client[r] = "sent" /\ q.route = "function"
        /\ UNCHANGED <<stage, token, modules, client, request, queue>>
        /\ worker' = [worker EXCEPT ![w] = Idle]
        /\ \E answer : reply' = [reply EXCEPT ![r] = answer]
    BY <1>5 DEF CallFunction, AtBody, Respond
  <2>2. ~IsPipeline(q)
    BY <2>1 DEF IsPipeline
  <2> QED
    BY <1>1, <2>1, <2>2, AnsweringKeepsRuns
<1>6. CASE BeginPipeline(w)
  <2>1. /\ worker[w].pc \in {"body", "steps"} /\ client[r] = "sent" /\ q.route = "pipeline"
        /\ UNCHANGED <<stage, token, modules, client, request, queue>>
    BY <1>6 DEF BeginPipeline, AtBody
  <2>2. CASE WellFormed(q.body)
    <3> DEFINE state == Executing(r, 0, <<>>)
    <3>1. worker' = [worker EXCEPT ![w] = state] /\ UNCHANGED reply
      BY <1>6, <2>2 DEF BeginPipeline
    <3>2. /\ state.pc = "steps" /\ state.request = r
          /\ state.done = 0 /\ state.scope = <<>>
      BY DEF Executing
    <3>3. HasBody(q) /\ q \in RequestOf[r] /\ r \in Requests
      <4>1. r \in Requests /\ InHands(r)
        BY <2>1 DEF RunInv, PlaceInv, Types, InHands, Handles
      <4> QED
        BY <2>1, <4>1 DEF RunInv, BodiesAreRead, RequestsAreSent
    <3>4. Len(q.body.steps) \in Nat
      BY <2>1, <2>2, <3>3, StepsAreCounted
    <3>5. 0 \in 0 .. Len(q.body.steps)
      BY <3>4
    <3>6. Runs(modules, q.body.steps)[0] = Ok(<<>>)
      BY <3>4, RunsUnfold
    <3> HIDE DEF state
    <3> QED
      BY <2>1, <2>2, <3>1, <3>2, <3>5, <3>6, GoingOnKeepsRuns
  <2>3. CASE ~WellFormed(q.body)
    <3>1. /\ reply' = [reply EXCEPT ![r] = ErrorReply(400)]
          /\ worker' = [worker EXCEPT ![w] = Idle]
      BY <1>6, <2>3 DEF BeginPipeline, Respond
    <3>2. ErrorReply(400).status = 400 /\ "result" \notin DOMAIN ErrorReply(400)
      BY DEF ErrorReply
    <3> QED
      BY <1>1, <2>1, <2>3, <3>1, <3>2, AnsweringKeepsRuns
  <2> QED
    BY <2>2, <2>3
<1>7. CASE ExecuteStep(w)
  BY <1>7, StepKeepsRuns
<1>8. CASE Panic(w)
  <2>1. /\ worker[w].pc \in {"body", "steps"} /\ client[r] = "sent" /\ q.fate = "panic"
        /\ UNCHANGED <<stage, token, modules, client, request, queue>>
        /\ worker' = [worker EXCEPT ![w] = [pc |-> "died"]]
        /\ reply' = [reply EXCEPT ![r] = DroppedRequest]
    BY <1>8 DEF Panic, AtBody
  <2> QED
    BY <1>1, <2>1, AnsweringKeepsRuns
<1> QED
  BY <1>2, <1>3, <1>4, <1>5, <1>6, <1>7, <1>8 DEF Work

LEMMA StepsKeepRuns == RunInv /\ [Next]_vars => RunInv'
<1> SUFFICES ASSUME RunInv, [Next]_vars PROVE RunInv'
  OBVIOUS
<1>1. PlaceInv'
  BY StepsKeepPlaces DEF RunInv
<1>2. CASE Start
  BY <1>1, <1>2, StartKeepsRuns
<1>3. CASE StopAccepting \/ Return
  BY <1>1, <1>3, ElsewhereKeepsRuns DEF StopAccepting, Return
<1>4. ASSUME NEW r \in Requests, Send(r) PROVE RunInv'
  BY <1>1, <1>4, SendKeepsRuns
<1>5. ASSUME NEW r \in Requests, FinishBody(r) \/ AbortBody(r) PROVE RunInv'
  BY <1>1, <1>5, BodyKeepsRuns DEF FinishBody, AbortBody
<1>6. ASSUME NEW w \in Workers, Work(w) PROVE RunInv'
  BY <1>1, <1>6, WorkKeepsRuns
<1>7. CASE UNCHANGED vars
  BY <1>1, <1>7, ElsewhereKeepsRuns DEF vars
<1> QED
  BY <1>2, <1>3, <1>4, <1>5, <1>6, <1>7 DEF Next

(* A pipeline that was read and did not panic is answered as               *)
(* PhsPipeline::execute would answer it: for any number of workers and     *)
(* requests, pipelines of any length and any modules, the loop of the      *)
(* server, which other requests interrupt at every step, gives what the    *)
(* library's loop gives at once, or refuses where it fails.                *)
THEOREM PipelinesRunAsTheLibraryRunsThem == Spec => []PipelinesAreExecuted
<1>1. RunInv => PipelinesAreExecuted
  BY DEF RunInv, AnswersAreRuns, PipelinesAreExecuted, IsPipeline
<1> QED
  BY <1>1, RunsAtFirst, StepsKeepRuns, PTL DEF Spec
=============================================================================

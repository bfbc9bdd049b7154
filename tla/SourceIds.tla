------------------------------ MODULE SourceIds ------------------------------
(***************************************************************************)
(* What the ids of measurements promise (lineage.rs, fresh_id and          *)
(* reserve_id): one counter for the process; an id that is given out is    *)
(* one that no value holds, wherever the values came from. The counter is  *)
(* taken not to wrap: LastId is the last id it may reach.                  *)
(***************************************************************************)
EXTENDS Integers

CONSTANT LastId

VARIABLES nextId,       \* the counter
          held          \* the ids that some value holds

idVars == <<nextId, held>>
Ids == 1..(LastId - 1)

Init == nextId = 1 /\ held = {}

(* Measuring, or combining what cannot be related: ids from the counter on *)
(* are given out.                                                          *)
Mint ==
  \E n \in nextId..LastId :
    /\ nextId' = n
    /\ held' \in SUBSET (held \cup {i \in Ids : nextId <= i /\ i < n})

(* A value with ids from outside the process is taken in, and the counter  *)
(* passes them.                                                            *)
Bring ==
  /\ nextId' \in nextId..LastId
  /\ held' \in SUBSET Ids
  /\ held \subseteq held'
  /\ \A i \in held' \ held : i < nextId'

(* A new process starts counting again, above what it is given.            *)
Restart ==
  \E ids \in SUBSET held :
    /\ nextId' \in 1..LastId
    /\ \A i \in ids : i < nextId'
    /\ held' = ids

Next == Mint \/ Bring \/ Restart
Spec == Init /\ [][Next]_idVars

(* The id given out next is one that no value holds.                       *)
NextIsNew == nextId \notin held

(* All ids held are below the counter, which is why.                       *)
HeldAreSpent == \A i \in held : i < nextId
=============================================================================

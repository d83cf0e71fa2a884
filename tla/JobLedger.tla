------------------------------ MODULE JobLedger ------------------------------
(***************************************************************************)
(* What the build queue promises: a job waits from its creation until it   *)
(* is handed to one worker, the oldest first, or closed by an outcome.     *)
(* Neither a closed job nor one that was handed out ever waits again; one  *)
(* whose worker dies may stay open for ever.                               *)
(***************************************************************************)
EXTENDS Integers

CONSTANTS
  Workers,  \* processes that build jobs
  Jobs,     \* job ids, in the order of their creation
  None      \* no job

VARIABLES waiting, running, closed, building

ledger == <<waiting, running, closed, building>>

Known == waiting \cup running \cup closed

Init ==
  /\ waiting = {}
  /\ running = {}
  /\ closed = {}
  /\ building = [w \in Workers |-> None]

Queue(j) ==
  /\ \A i \in Known : i < j
  /\ waiting' = waiting \cup {j}
  /\ UNCHANGED <<running, closed, building>>

HandOut(w, j) ==
  /\ building[w] = None
  /\ j \in waiting
  /\ \A i \in waiting : j <= i
  /\ waiting' = waiting \ {j}
  /\ running' = running \cup {j}
  /\ building' = [building EXCEPT ![w] = j]
  /\ UNCHANGED closed

Shut(j) ==
  /\ waiting' = waiting \ {j}
  /\ running' = running \ {j}
  /\ closed' = closed \cup {j}

Close(j) ==
  /\ j \in Known
  /\ Shut(j)
  /\ UNCHANGED building

(* The worker's outcome may replace a cancellation; a dead one writes none *)
LetGo(w) ==
  /\ building[w] # None
  /\ building' = [building EXCEPT ![w] = None]
  /\ Shut(building[w]) \/ UNCHANGED <<waiting, running, closed>>

Next ==
  \/ \E j \in Jobs : Queue(j) \/ Close(j) \/ \E w \in Workers : HandOut(w, j)
  \/ \E w \in Workers : LetGo(w)

Spec == Init /\ [][Next]_ledger
=============================================================================

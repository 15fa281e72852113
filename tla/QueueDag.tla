------------------------------- MODULE QueueDag -------------------------------
(***************************************************************************)
(* queue.dag puts the tasks of a queue in an order in which each comes     *)
(* after what it depends on.  It passes over the tasks that remain, takes  *)
(* those whose dependencies are completed, and starts over until a pass    *)
(* takes none.  The queue is what the client sends: ids may be missing     *)
(* (then they are empty) or occur twice, dependencies may be unknown,      *)
(* refer to the task itself or go in circles.                              *)
(***************************************************************************)
EXTENDS Naturals, Sequences

CONSTANTS
  Ids,       \* the names that occur in a request, the empty one included
  MaxTasks   \* bound: tasks in a queue

ASSUME QueueAssumption == MaxTasks \in Nat

VARIABLES
  id, deps,    \* the tasks, by their place in the queue
  done,        \* the ids the client says are done
  remaining,   \* tasks not in the order yet
  visiting,    \* those the current pass still comes to
  progressed,  \* the current pass has taken a task
  completed,   \* ids that count as done by now
  order,       \* the tasks taken, in order
  stopped

input == <<id, deps, done>>
vars == <<id, deps, done, remaining, visiting, progressed, completed, order, stopped>>

Tasks == DOMAIN id

Init ==
  /\ \E n \in 0..MaxTasks :
       /\ id \in [1..n -> Ids]
       /\ deps \in [1..n -> SUBSET Ids]
  /\ done \in SUBSET Ids
  /\ remaining = DOMAIN id
  /\ visiting = DOMAIN id
  /\ progressed = FALSE
  /\ completed = done
  /\ order = <<>>
  /\ stopped = (DOMAIN id = {})

\* `retain` comes to the first task it has not seen in this pass.
Visit(t) ==
  /\ t \in visiting
  /\ \A u \in visiting : t <= u
  /\ visiting' = visiting \ {t}
  /\ IF deps[t] \subseteq completed
     THEN /\ order' = Append(order, t)
          /\ completed' = completed \cup {id[t]}
          /\ progressed' = TRUE
          /\ remaining' = remaining \ {t}
     ELSE UNCHANGED <<order, completed, progressed, remaining>>
  /\ UNCHANGED <<input, stopped>>

\* Mutant: one pass has to do.
EndPass_Once ==
  /\ visiting = {} /\ ~stopped
  /\ stopped' = TRUE
  /\ UNCHANGED <<input, remaining, visiting, progressed, completed, order>>

\* The pass is over; without progress or without tasks there is no other.
EndPass ==
  /\ visiting = {} /\ ~stopped
  /\ IF progressed /\ remaining # {}
     THEN /\ visiting' = remaining
          /\ progressed' = FALSE
          /\ UNCHANGED stopped
     ELSE /\ stopped' = TRUE
          /\ UNCHANGED <<visiting, progressed>>
  /\ UNCHANGED <<input, remaining, completed, order>>

Next == EndPass \/ \E t \in Tasks : Visit(t)

Spec == Init /\ [][Next]_vars

-----------------------------------------------------------------------------
\* Every variable has its type.
TypeOK ==
  /\ \E n \in 0..MaxTasks :
       /\ id \in [1..n -> Ids]
       /\ deps \in [1..n -> SUBSET Ids]
  /\ done \subseteq Ids
  /\ visiting \subseteq remaining
  /\ remaining \subseteq Tasks
  /\ progressed \in BOOLEAN
  /\ completed \subseteq Ids
  /\ order \in Seq(Tasks)
  /\ stopped \in BOOLEAN

\* What the tasks of S call themselves.
Names(S) == {id[t] : t \in S}

\* None of S can ever start: each waits for a name that is not done and that no task
\* outside S has.
Stuck(S) == \A t \in S : \E d \in deps[t] : d \notin done \cup Names(Tasks \ S)

\* The order names each task at most once and after everything it depends on; and it
\* leaves out exactly the tasks that wait in a circle, for an unknown id, or behind such
\* a task: never one that could have run.
OrderIsRight ==
  /\ \A i \in 1..Len(order) :
       deps[order[i]] \subseteq done \cup {id[order[j]] : j \in 1..(i - 1)}
  /\ \A i, j \in 1..Len(order) : order[i] = order[j] => i = j
  /\ {order[i] : i \in 1..Len(order)} = Tasks \ remaining
  /\ stopped => Stuck(remaining)
  /\ \A S \in SUBSET Tasks : Stuck(S) => S \subseteq remaining
=============================================================================

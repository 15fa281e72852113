---------------------------- MODULE QueueDagProofs ----------------------------
(***************************************************************************)
(* queue.dag's order is right for every queue: the passes never take a     *)
(* task that is stuck, and what a pass without progress leaves is stuck.   *)
(* And the loop ends: each of its steps leaves less to do.                 *)
(***************************************************************************)
EXTENDS QueueDag, FiniteSetTheorems, WellFoundedInduction, TLAPS

\* What is completed is what was done and what was taken.
CompletedIsTaken == completed = done \cup Names(Tasks \ remaining)

\* The order so far.
OrderSoFar ==
  /\ \A i \in 1..Len(order) :
       deps[order[i]] \subseteq done \cup {id[order[j]] : j \in 1..(i - 1)}
  /\ \A i, j \in 1..Len(order) : order[i] = order[j] => i = j
  /\ {order[i] : i \in 1..Len(order)} = Tasks \ remaining

\* A stuck task is never taken.
StuckStay == \A S \in SUBSET Tasks : Stuck(S) => S \subseteq remaining

\* Without progress, what this pass has seen and left could not start.
PassedOver ==
  ~progressed => \A t \in remaining \ visiting : ~(deps[t] \subseteq completed)

StopsRightly == stopped => visiting = {} /\ (~progressed \/ remaining = {})

Inv ==
  /\ TypeOK
  /\ CompletedIsTaken
  /\ OrderSoFar
  /\ StuckStay
  /\ PassedOver
  /\ StopsRightly

\* At the start nothing is taken and nothing completed but what the client says.
LEMMA InitInv == Init => Inv
<1> SUFFICES ASSUME Init PROVE Inv
  OBVIOUS
<1>1. PICK n \in 0..MaxTasks : id \in [1..n -> Ids] /\ deps \in [1..n -> SUBSET Ids]
  BY DEF Init
<1>2. Tasks = 1..n /\ remaining = Tasks /\ visiting = Tasks /\ order = <<>>
        /\ completed = done /\ done \subseteq Ids /\ progressed = FALSE
  BY <1>1 DEF Init, Tasks
<1>3. TypeOK
  <2>1. order \in Seq(Tasks)
    BY <1>2
  <2>2. stopped \in BOOLEAN
    BY Zenon DEF Init
  <2> QED
    BY <1>1, <1>2, <2>1, <2>2 DEF TypeOK
<1>4. CompletedIsTaken
  BY <1>2 DEF CompletedIsTaken, Names
<1>5. OrderSoFar
  BY <1>2 DEF OrderSoFar
<1>6. StuckStay
  BY <1>2 DEF StuckStay
<1>7. PassedOver
  BY <1>2 DEF PassedOver
<1>8. StopsRightly
  BY DEF Init, StopsRightly, Tasks
<1> QED
  BY <1>3, <1>4, <1>5, <1>6, <1>7, <1>8 DEF Inv

\* What taking task t does to the order.
LEMMA Taken ==
  ASSUME NEW t \in Tasks, TypeOK, CompletedIsTaken, OrderSoFar,
         t \in remaining, deps[t] \subseteq completed,
         order' = Append(order, t), remaining' = remaining \ {t}, UNCHANGED input
  PROVE  OrderSoFar'
<1> DEFINE n == Len(order)
<1>1. /\ n \in Nat /\ Len(order') = n + 1 /\ order'[n + 1] = t
      /\ \A i \in 1..n : order'[i] = order[i] /\ order[i] \in Tasks
  BY DEF TypeOK
<1>2. id' = id /\ deps' = deps /\ done' = done /\ Tasks' = Tasks
  BY DEF input, Tasks
<1>3. 1..(n + 1) = 1..n \cup {n + 1}
  BY <1>1
<1>4. {order'[i] : i \in 1..(n + 1)} = {order[i] : i \in 1..n} \cup {t}
  BY <1>1, <1>3
<1>5. {order'[i] : i \in 1..Len(order')} = Tasks \ remaining'
  BY <1>1, <1>4 DEF OrderSoFar
<1>6. ASSUME NEW i \in 1..(n + 1), NEW j \in 1..(n + 1), order'[i] = order'[j]
      PROVE  i = j
  <2>1. t \notin {order[k] : k \in 1..n}
    BY DEF OrderSoFar
  <2> QED
    BY <1>1, <1>3, <1>6, <2>1 DEF OrderSoFar
<1>7. ASSUME NEW i \in 1..(n + 1)
      PROVE  deps[order'[i]] \subseteq done \cup {id[order'[j]] : j \in 1..(i - 1)}
  <2>1. {id[order'[j]] : j \in 1..(i - 1)} = {id[order[j]] : j \in 1..(i - 1)}
    <3>1. \A j \in 1..(i - 1) : j \in 1..n
      BY <1>1
    <3> QED
      BY <1>1, <3>1
  <2>2. CASE i \in 1..n
    BY <1>1, <2>1, <2>2 DEF OrderSoFar
  <2>3. CASE i = n + 1
    <3>1. i - 1 = n
      BY <1>1, <2>3
    <3>2. {id[order[j]] : j \in 1..n} = Names({order[j] : j \in 1..n})
      BY DEF Names
    <3>3. {id[order[j]] : j \in 1..n} = Names(Tasks \ remaining)
      BY <3>2 DEF OrderSoFar
    <3> QED
      BY <1>1, <2>1, <2>3, <3>1, <3>3 DEF CompletedIsTaken
  <2> QED
    BY <1>3, <2>2, <2>3
<1> QED
  BY <1>1, <1>2, <1>5, <1>6, <1>7 DEF OrderSoFar

\* Being stuck depends on the input alone.
LEMMA SameInput ==
  ASSUME UNCHANGED input
  PROVE  /\ Tasks' = Tasks
         /\ \A S : Names(S)' = Names(S)
         /\ \A S : Stuck(S)' = Stuck(S)
BY DEF input, Tasks, Names, Stuck

LEMMA VisitInv ==
  ASSUME Inv, NEW t \in Tasks, Visit(t)
  PROVE  Inv'
<1> USE DEF Inv
<1>1. t \in remaining /\ remaining \subseteq Tasks /\ visiting' = visiting \ {t}
        /\ visiting \subseteq remaining
  BY DEF Visit, TypeOK
<1>2. UNCHANGED input /\ stopped' = stopped /\ ~stopped
  BY DEF Visit, StopsRightly
<1>3. /\ id' = id /\ deps' = deps /\ done' = done
      /\ Tasks' = Tasks
      /\ \A S : Names(S)' = Names(S)
      /\ \A S : Stuck(S)' = Stuck(S)
  BY <1>2, SameInput DEF input
<1>4. CASE deps[t] \subseteq completed
  <2>1. /\ order' = Append(order, t) /\ completed' = completed \cup {id[t]}
        /\ progressed' = TRUE /\ remaining' = remaining \ {t}
    BY <1>4 DEF Visit
  <2>2. id[t] \in Ids
    BY DEF TypeOK, Tasks
  <2>3. TypeOK'
    BY <1>1, <1>2, <1>3, <2>1, <2>2 DEF TypeOK
  <2>4. CompletedIsTaken'
    <3>1. Tasks \ (remaining \ {t}) = (Tasks \ remaining) \cup {t}
      BY <1>1
    <3>2. Names((Tasks \ remaining) \cup {t}) = Names(Tasks \ remaining) \cup {id[t]}
      BY DEF Names
    <3>3. completed' = done \cup Names(Tasks \ (remaining \ {t}))
      BY <2>1, <3>1, <3>2 DEF CompletedIsTaken
    <3> QED
      BY <1>3, <2>1, <3>3 DEF CompletedIsTaken, Names
  <2>5. OrderSoFar'
    BY <1>1, <1>2, <1>4, <2>1, Taken
  <2>6. StuckStay'
    <3>1. ASSUME NEW S \in SUBSET Tasks, Stuck(S) PROVE t \notin S
      <4>1. SUFFICES ASSUME t \in S PROVE FALSE
        OBVIOUS
      <4>2. PICK d \in deps[t] : d \notin done \cup Names(Tasks \ S)
        BY <3>1, <4>1 DEF Stuck
      <4>3. S \subseteq remaining
        BY <3>1 DEF StuckStay
      <4>4. Names(Tasks \ remaining) \subseteq Names(Tasks \ S)
        BY <4>3 DEF Names
      <4> QED
        BY <1>4, <4>2, <4>4 DEF CompletedIsTaken
    <3>2. \A S \in SUBSET Tasks : Stuck(S) => S \subseteq remaining'
      BY <2>1, <3>1 DEF StuckStay
    <3> QED
      BY <1>3, <3>2 DEF StuckStay, Stuck, Names
  <2>7. PassedOver' /\ StopsRightly'
    BY <1>2, <2>1 DEF PassedOver, StopsRightly
  <2> QED
    BY <2>3, <2>4, <2>5, <2>6, <2>7
<1>5. CASE ~(deps[t] \subseteq completed)
  <2>1. UNCHANGED <<order, completed, progressed, remaining>>
    BY <1>5 DEF Visit
  <2>2. TypeOK'
    BY <1>1, <1>2, <1>3, <2>1 DEF TypeOK
  <2>3. CompletedIsTaken'
    BY <1>3, <2>1 DEF CompletedIsTaken, Names
  <2>4. OrderSoFar'
    BY <1>3, <2>1 DEF OrderSoFar
  <2>5. StuckStay'
    BY <1>3, <2>1 DEF StuckStay, Stuck, Names
  <2>6. PassedOver'
    BY <1>1, <1>3, <1>5, <2>1 DEF PassedOver
  <2>7. StopsRightly'
    BY <1>2 DEF StopsRightly
  <2> QED
    BY <2>2, <2>3, <2>4, <2>5, <2>6, <2>7
<1> QED
  BY <1>4, <1>5

LEMMA EndPassInv ==
  ASSUME Inv, EndPass
  PROVE  Inv'
<1> USE DEF Inv
<1>1. /\ visiting = {} /\ UNCHANGED <<input, remaining, completed, order>>
      /\ id' = id /\ deps' = deps /\ done' = done
  BY DEF EndPass, input
<1>2. /\ Tasks' = Tasks
      /\ \A S : Names(S)' = Names(S)
      /\ \A S : Stuck(S)' = Stuck(S)
  BY <1>1, SameInput
<1>3. CompletedIsTaken'
  BY <1>1, <1>2 DEF CompletedIsTaken, Names
<1>4. OrderSoFar'
  BY <1>1, <1>2 DEF OrderSoFar
<1>5. StuckStay'
  BY <1>1, <1>2 DEF StuckStay, Stuck, Names
<1>6. TypeOK' /\ PassedOver' /\ StopsRightly'
  <2>1. CASE progressed /\ remaining # {}
    <3>1. visiting' = remaining /\ progressed' = FALSE /\ stopped' = stopped /\ ~stopped
      BY <2>1 DEF EndPass
    <3> QED
      BY <1>1, <1>2, <3>1 DEF TypeOK, PassedOver, StopsRightly
  <2>2. CASE ~(progressed /\ remaining # {})
    <3>1. visiting' = {} /\ progressed' = progressed /\ stopped' = TRUE
      BY <1>1, <2>2 DEF EndPass
    <3> QED
      BY <1>1, <1>2, <2>2, <3>1 DEF TypeOK, PassedOver, StopsRightly
  <2> QED
    BY <2>1, <2>2
<1> QED
  BY <1>3, <1>4, <1>5, <1>6

LEMMA StepInv == Inv /\ [Next]_vars => Inv'
<1> SUFFICES ASSUME Inv, [Next]_vars PROVE Inv'
  OBVIOUS
<1>1. CASE EndPass
  BY <1>1, EndPassInv
<1>2. ASSUME NEW t \in Tasks, Visit(t) PROVE Inv'
  BY <1>2, VisitInv
<1>3. CASE UNCHANGED vars
  <2> USE <1>3 DEF vars, input, Tasks, Names, Stuck, Inv
  <2>1. TypeOK'
    BY DEF TypeOK
  <2>2. CompletedIsTaken'
    BY DEF CompletedIsTaken
  <2>3. OrderSoFar'
    BY DEF OrderSoFar
  <2>4. StuckStay'
    BY DEF StuckStay
  <2>5. PassedOver' /\ StopsRightly'
    BY DEF PassedOver, StopsRightly
  <2> QED
    BY <2>1, <2>2, <2>3, <2>4, <2>5
<1> QED
  BY <1>1, <1>2, <1>3 DEF Next

\* The inductive invariant of queue.dag's loop (router.rs, queue_dag_payload).
THEOREM Invariant == Spec => []Inv
BY InitInv, StepInv, PTL DEF Spec

\* Every variable keeps its type, for queues of any length.
THEOREM TypeCorrect == Spec => []TypeOK
<1>1. Inv => TypeOK
  BY DEF Inv
<1> QED
  BY <1>1, Invariant, PTL

\* The order of queue.dag is right and leaves out exactly the tasks that cannot run, for
\* every queue, whatever its ids and dependencies.
THEOREM OrderCorrect == Spec => []OrderIsRight
<1>1. Inv => OrderIsRight
  <2> SUFFICES ASSUME Inv PROVE OrderIsRight
    OBVIOUS
  <2>1. ASSUME stopped PROVE Stuck(remaining)
    <3>1. \A t \in remaining : ~(deps[t] \subseteq completed)
      BY <2>1 DEF Inv, PassedOver, StopsRightly
    <3> QED
      BY <3>1 DEF Inv, CompletedIsTaken, Stuck
  <2> QED
    BY <2>1 DEF Inv, OrderSoFar, StuckStay, OrderIsRight
<1> QED
  BY <1>1, Invariant, PTL

-----------------------------------------------------------------------------
(* The loop comes to an end.                                               *)

\* What is left to do: tasks not taken, whether another pass is due, tasks this pass still
\* comes to, the end itself.
Left == <<Cardinality(remaining), IF progressed THEN 1 ELSE 0,
          Cardinality(visiting), IF stopped THEN 0 ELSE 1>>

\* The lexicographic order of what is left.
Less(a, b) == \E i \in 1..4 : a[i] < b[i] /\ \A j \in 1..(i - 1) : a[j] = b[j]

\* Every step of the loop leaves less to do.
Descends == [][Less(Left', Left)]_vars

\* Until it stops, the loop has a step to take.
HasStep == stopped \/ visiting = {} \/ \E t \in visiting : \A u \in visiting : t <= u

\* There is a first among numbers.
LEMMA FirstExists ==
  ASSUME NEW S \in SUBSET Nat, S # {}
  PROVE  \E t \in S : \A u \in S : t <= u
<1> DEFINE R == {p \in Nat \X Nat : p[1] < p[2]}
<1>1. IsWellFoundedOn(R, Nat)
  BY NatLessThanWellFounded DEF OpToRel
<1>2. PICK t \in S : \A u \in S : ~(<<u, t>> \in R)
  BY <1>1, WFMin
<1>3. \A u \in S : ~(u < t)
  BY <1>2
<1> QED
  BY <1>3

\* The tasks are finitely many, and so are those of a pass.
LEMMA FinitelyMany ==
  ASSUME TypeOK
  PROVE  /\ IsFiniteSet(remaining) /\ IsFiniteSet(visiting)
         /\ Cardinality(remaining) \in Nat /\ Cardinality(visiting) \in Nat
<1>1. PICK n \in 0..MaxTasks : Tasks = 1..n
  BY DEF TypeOK, Tasks
<1>2. n \in Int /\ IsFiniteSet(1..n)
  BY QueueAssumption, FS_Interval
<1>3. remaining \in SUBSET (1..n) /\ visiting \in SUBSET (1..n)
  BY <1>1 DEF TypeOK
<1>4. IsFiniteSet(remaining) /\ IsFiniteSet(visiting)
  BY <1>2, <1>3, FS_Subset
<1> QED
  BY <1>4, FS_CardinalityType

\* How a quadruple can be less than another.
LEMMA LessAt ==
  ASSUME NEW a, NEW b, NEW i \in 1..4, a[i] < b[i], \A j \in 1..4 : j < i => a[j] = b[j]
  PROVE  Less(a, b)
<1>1. \A j \in 1..(i - 1) : j \in 1..4 /\ j < i
  OBVIOUS
<1> QED
  BY <1>1 DEF Less

\* A visit takes a task, or leaves one less for this pass.
LEMMA VisitDescends ==
  ASSUME TypeOK, NEW t \in Tasks, Visit(t)
  PROVE  Less(Left', Left)
<1> DEFINE R == Cardinality(remaining)
           V == Cardinality(visiting)
<1>1. /\ t \in visiting /\ t \in remaining
      /\ visiting' = visiting \ {t} /\ stopped' = stopped
  BY DEF Visit, TypeOK
<1>2. IsFiniteSet(remaining) /\ IsFiniteSet(visiting) /\ R \in Nat /\ V \in Nat
  BY FinitelyMany
<1>3. V' = V - 1
  BY <1>1, <1>2, FS_RemoveElement
<1>4. CASE remaining' = remaining \ {t}
  <2>1. R' = R - 1
    BY <1>1, <1>2, <1>4, FS_RemoveElement
  <2>2. Left'[1] < Left[1]
    BY <1>2, <2>1 DEF Left
  <2> QED
    BY <2>2, LessAt
<1>5. CASE UNCHANGED <<remaining, progressed>>
  <2>1. Left'[1] = Left[1] /\ Left'[2] = Left[2]
    BY <1>5 DEF Left
  <2>2. Left'[3] < Left[3]
    BY <1>2, <1>3 DEF Left
  <2>3. \A j \in 1..4 : j < 3 => j \in {1, 2}
    OBVIOUS
  <2> QED
    BY <2>1, <2>2, <2>3, LessAt
<1> QED
  BY <1>4, <1>5 DEF Visit

\* The end of a pass spends its mark, or stops the loop.
LEMMA EndPassDescends ==
  ASSUME TypeOK, EndPass
  PROVE  Less(Left', Left)
<1>1. Left'[1] = Left[1]
  BY DEF EndPass, Left
<1>2. CASE progressed /\ remaining # {}
  <2>1. Left'[2] < Left[2]
    BY <1>2 DEF EndPass, Left
  <2>2. \A j \in 1..4 : j < 2 => j = 1
    OBVIOUS
  <2> QED
    BY <1>1, <2>1, <2>2, LessAt
<1>3. CASE ~(progressed /\ remaining # {})
  <2>1. UNCHANGED <<remaining, visiting, progressed>> /\ ~stopped /\ stopped'
    BY <1>3 DEF EndPass
  <2>2. Left'[2] = Left[2] /\ Left'[3] = Left[3] /\ Left'[4] < Left[4]
    BY <2>1 DEF Left
  <2>3. \A j \in 1..4 : j < 4 => j \in {1, 2, 3}
    OBVIOUS
  <2> QED
    BY <1>1, <2>2, <2>3, LessAt
<1> QED
  BY <1>2, <1>3

\* queue.dag's loop ends on every queue: until it stops it has a step to take, and each
\* step leaves less to do in an order of natural numbers without infinite descent.
THEOREM LoopDescends == Spec => [](Left \in Nat \X Nat \X Nat \X Nat /\ HasStep) /\ Descends
<1>1. TypeOK => Left \in Nat \X Nat \X Nat \X Nat
  BY FinitelyMany DEF Left
<1>2. TypeOK => HasStep
  <2> SUFFICES ASSUME TypeOK, visiting # {} PROVE HasStep
    BY DEF HasStep
  <2>1. visiting \in SUBSET Nat
    BY DEF TypeOK, Tasks
  <2> QED
    BY <2>1, FirstExists DEF HasStep
<1>3. TypeOK /\ [Next]_vars => [Less(Left', Left)]_vars
  BY VisitDescends, EndPassDescends DEF Next
<1> QED
  BY <1>1, <1>2, <1>3, TypeCorrect, PTL DEF Spec, Descends
=============================================================================

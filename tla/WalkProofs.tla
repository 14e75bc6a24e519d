------------------------------ MODULE WalkProofs ------------------------------
(***************************************************************************)
(* Proofs about Walk, for any finite set of rows and any dependencies,     *)
(* cyclic ones included: the walk ends, having visited the least set that  *)
(* the dependencies close, which is what Orchestrator takes it for.        *)
(***************************************************************************)
EXTENDS Walk, TLAPS, FiniteSetTheorems, SequenceTheorems

\* The rows that the walk has yet to pop.
Waiting == {queue[i] : i \in 1..Len(queue)}

\* What the walk has found so far, and where it goes on from.
Visited == seen \ start
Sources == Visited \cup {root}

\* Everything found is a dependent: it was reached from the root or from another.
OnlyDependents ==
  /\ start \subseteq seen
  /\ Visited \subseteq Dependents(root, eligible \ start)
  /\ current \in Sources /\ Waiting \subseteq Sources

\* What depends on a row that was popped is found, or is still to be looked at.
NothingSkipped ==
  \A x \in eligible \ seen : \A y \in Sources :
    y \in Deps[x] => y \in Waiting \/ (y = current /\ x \in rest)

Inv == OnlyDependents /\ NothingSkipped

LEMMA InitInv == Init => TypeOK /\ Inv
<1> SUFFICES ASSUME Init PROVE TypeOK /\ Inv
  OBVIOUS
<1>1. /\ root \in Task /\ eligible \in SUBSET Task /\ start \in {{}, {root}}
      /\ seen = start /\ current = root /\ rest = {}
  BY DEF Init
<1>2. queue \in Seq(Task) /\ Len(queue) = 1 /\ queue[1] = root
  BY DEF Init
<1>3. TypeOK
  BY <1>1, <1>2 DEF TypeOK
<1>4. Waiting = {root}
  <2>1. 1..Len(queue) = {1}
    BY <1>2
  <2> QED BY <1>2, <2>1 DEF Waiting
<1>5. Sources = {root} /\ Visited = {}
  BY <1>1 DEF Sources, Visited
<1>6. OnlyDependents
  BY <1>1, <1>4, <1>5 DEF OnlyDependents
<1>7. NothingSkipped
  BY <1>4, <1>5 DEF NothingSkipped
<1> QED BY <1>3, <1>6, <1>7 DEF Inv

\* The row that is popped is the only one that does not wait any more.
LEMMA PopWaiting ==
  ASSUME TypeOK, Pop
  PROVE  /\ current' \in Waiting /\ current' \in Task
         /\ queue' \in Seq(Task) /\ Len(queue') = Len(queue) - 1
         /\ Waiting \subseteq Waiting' \cup {current'} /\ Waiting' \subseteq Waiting
<1>1. queue \in Seq(Task) /\ queue # << >> /\ current' = Head(queue) /\ queue' = Tail(queue)
  BY DEF TypeOK, Pop
<1>2. /\ Len(queue) \in Nat \ {0} /\ current' = queue[1]
      /\ queue' \in Seq(Task) /\ Len(queue') = Len(queue) - 1
      /\ \A i \in 1..Len(queue') : queue'[i] = queue[i + 1]
  BY <1>1
<1>3. \A i \in 1..Len(queue) : i = 1 \/ (i - 1 \in 1..Len(queue') /\ i = (i - 1) + 1)
  BY <1>2
<1>4. \A i \in 1..Len(queue') : i + 1 \in 1..Len(queue)
  BY <1>2
<1>5. 1 \in 1..Len(queue)
  BY <1>2
<1>6. current' \in Waiting /\ current' \in Task
  BY <1>1, <1>2, <1>5 DEF Waiting
<1>7. ASSUME NEW i \in 1..Len(queue) PROVE queue[i] \in Waiting' \cup {current'}
  <2>1. CASE i = 1
    BY <1>2, <2>1
  <2>2. CASE i - 1 \in 1..Len(queue') /\ i = (i - 1) + 1
    <3>1. queue'[i - 1] = queue[i]
      BY <1>2, <2>2
    <3> QED BY <2>2, <3>1 DEF Waiting
  <2> QED BY <1>3, <2>1, <2>2
<1>8. ASSUME NEW i \in 1..Len(queue') PROVE queue'[i] \in Waiting
  BY <1>2, <1>4, <1>8 DEF Waiting
<1> QED BY <1>2, <1>6, <1>7, <1>8 DEF Waiting

\* A row that is queued waits besides the others.
LEMMA AppendWaiting ==
  ASSUME TypeOK, NEW x \in Task, queue' = Append(queue, x)
  PROVE  /\ queue' \in Seq(Task) /\ Len(queue') = Len(queue) + 1
         /\ Waiting' = Waiting \cup {x}
<1>1. queue \in Seq(Task)
  BY DEF TypeOK
<1>2. /\ Len(queue) \in Nat /\ queue' \in Seq(Task) /\ Len(queue') = Len(queue) + 1
      /\ queue'[Len(queue) + 1] = x
      /\ \A i \in 1..Len(queue) : queue'[i] = queue[i]
  BY <1>1
<1>3. 1..Len(queue') = (1..Len(queue)) \cup {Len(queue) + 1}
  BY <1>2
<1> QED BY <1>2, <1>3 DEF Waiting

\* What depends on a dependent, or on the root, is one.
LEMMA FoundIsDependent ==
  ASSUME NEW t, NEW E, NEW x \in E, Deps[x] \cap (Dependents(t, E) \cup {t}) # {}
  PROVE  x \in Dependents(t, E)
<1>1. ASSUME NEW C \in SUBSET E, Closed(C, t, E) PROVE x \in C
  <2>1. Dependents(t, E) \subseteq C
    BY <1>1 DEF Dependents
  <2> QED BY <1>1, <2>1 DEF Closed
<1> QED BY <1>1 DEF Dependents

LEMMA PopStep ==
  ASSUME TypeOK, Inv, Pop PROVE TypeOK' /\ Inv'
<1>1. /\ UNCHANGED <<root, eligible, start, seen>> /\ rest = {} /\ rest' = Task
  BY DEF Pop
<1>2. TypeOK'
  BY <1>1, PopWaiting DEF TypeOK
<1>3. Visited' = Visited /\ Sources' = Sources
  BY <1>1 DEF Visited, Sources
<1>4. OnlyDependents'
  BY <1>1, <1>3, PopWaiting DEF OnlyDependents, Inv
<1>5. ASSUME NEW x \in eligible \ seen, NEW y \in Sources, y \in Deps[x]
      PROVE  y \in Waiting' \/ (y = current' /\ x \in rest')
  <2>1. y \in Waiting /\ x \in Task
    BY <1>1, <1>5 DEF Inv, NothingSkipped, TypeOK
  <2> QED BY <1>1, <2>1, PopWaiting
<1>6. NothingSkipped'
  BY <1>1, <1>3, <1>5 DEF NothingSkipped
<1> QED BY <1>2, <1>4, <1>6 DEF Inv

LEMMA LookStep ==
  ASSUME TypeOK, Inv, NEW x \in Task, LookAt(x) PROVE TypeOK' /\ Inv'
<1>1. /\ UNCHANGED <<root, eligible, start, current>> /\ x \in rest /\ rest' = rest \ {x}
  BY DEF LookAt
<1>2. CASE Found(x) /\ seen' = seen \cup {x} /\ queue' = Append(queue, x)
  <2>1. current \in Deps[x] /\ x \notin seen /\ x \in eligible
    BY <1>2 DEF Found
  <2>2. TypeOK'
    BY <1>1, <1>2, AppendWaiting DEF TypeOK
  <2>3. x \in Dependents(root, eligible \ start)
    <3>1. x \in eligible \ start
      BY <2>1 DEF Inv, OnlyDependents
    <3>2. current \in Dependents(root, eligible \ start) \cup {root}
      BY DEF Inv, OnlyDependents, Sources
    <3> QED BY <2>1, <3>1, <3>2, FoundIsDependent
  <2>4. Visited' = Visited \cup {x} /\ Sources' = Sources \cup {x}
    BY <1>1, <1>2, <2>1 DEF Visited, Sources, Inv, OnlyDependents
  <2>5. OnlyDependents'
    <3>1. Waiting' \subseteq Sources'
      BY <1>2, <2>4, AppendWaiting DEF Inv, OnlyDependents
    <3>2. start' \subseteq seen' /\ Visited' \subseteq Dependents(root', eligible' \ start')
      BY <1>1, <1>2, <2>3, <2>4 DEF Inv, OnlyDependents
    <3>3. current' \in Sources'
      BY <1>1, <2>4 DEF Inv, OnlyDependents
    <3> QED BY <3>1, <3>2, <3>3 DEF OnlyDependents
  <2>6. ASSUME NEW z \in eligible' \ seen', NEW y \in Sources', y \in Deps[z]
        PROVE  y \in Waiting' \/ (y = current' /\ z \in rest')
    <3>1. z # x /\ z \in eligible \ seen
      BY <1>1, <1>2, <2>6
    <3>2. CASE y = x
      BY <1>2, <3>2, AppendWaiting
    <3>3. CASE y # x
      <4>1. y \in Sources
        BY <2>4, <2>6, <3>3
      <4>2. y \in Waiting \/ (y = current /\ z \in rest)
        BY <2>6, <3>1, <4>1 DEF Inv, NothingSkipped
      <4> QED BY <1>1, <1>2, <3>1, <4>2, AppendWaiting
    <3> QED BY <3>2, <3>3
  <2>7. NothingSkipped'
    BY <2>6 DEF NothingSkipped
  <2> QED BY <2>2, <2>5, <2>7 DEF Inv
<1>3. CASE ~Found(x) /\ UNCHANGED <<seen, queue>>
  <2>1. TypeOK'
    BY <1>1, <1>3 DEF TypeOK
  <2>2. Waiting' = Waiting /\ Visited' = Visited /\ Sources' = Sources
    BY <1>1, <1>3 DEF Waiting, Visited, Sources
  <2>3. OnlyDependents'
    BY <1>1, <1>3, <2>2 DEF Inv, OnlyDependents
  <2>4. ASSUME NEW z \in eligible \ seen, NEW y \in Sources, y \in Deps[z]
        PROVE  y \in Waiting \/ (y = current /\ z \in rest')
    <3>1. y \in Waiting \/ (y = current /\ z \in rest)
      BY <2>4 DEF Inv, NothingSkipped
    <3>2. y = current => z # x
      BY <1>3, <2>4 DEF Found
    <3> QED BY <1>1, <3>1, <3>2
  <2>5. NothingSkipped'
    BY <1>1, <1>3, <2>2, <2>4 DEF NothingSkipped
  <2> QED BY <2>1, <2>3, <2>5 DEF Inv
<1> QED BY <1>2, <1>3 DEF LookAt

LEMMA InvStep == TypeOK /\ Inv /\ [Next]_vars => TypeOK' /\ Inv'
<1> SUFFICES ASSUME TypeOK, Inv, [Next]_vars PROVE TypeOK' /\ Inv'
  OBVIOUS
<1>1. CASE UNCHANGED vars
  <2>1. UNCHANGED <<root, eligible, start, seen, queue, current, rest>>
    BY <1>1 DEF vars
  <2>2. TypeOK'
    BY <2>1 DEF TypeOK
  <2>3. UNCHANGED <<Waiting, Visited, Sources>>
    BY <2>1 DEF Waiting, Visited, Sources
  <2>4. OnlyDependents' /\ NothingSkipped'
    BY <2>1, <2>3 DEF Inv, OnlyDependents, NothingSkipped
  <2> QED BY <2>2, <2>4 DEF Inv
<1> QED BY <1>1, PopStep, LookStep DEF Next

\* When nothing waits, the visited rows are closed, and so no dependent is missing.
LEMMA EndIsRight == TypeOK /\ Inv => VisitsDependents
<1> SUFFICES ASSUME TypeOK, Inv, queue = << >>, rest = {}
             PROVE  seen = start \cup Dependents(root, eligible \ start)
  BY DEF VisitsDependents
<1>1. Waiting = {}
  BY DEF Waiting
<1>2. start \subseteq seen /\ Visited \subseteq Dependents(root, eligible \ start)
  BY DEF Inv, OnlyDependents
<1>3. Visited \in SUBSET (eligible \ start)
  BY <1>2 DEF Dependents, Visited
<1>4. ASSUME NEW x \in eligible \ start, Deps[x] \cap (Visited \cup {root}) # {}
      PROVE  x \in Visited
  <2> SUFFICES ASSUME x \notin seen PROVE FALSE
    BY DEF Visited
  <2> QED BY <1>1, <1>4 DEF Inv, NothingSkipped, Sources
<1>5. Closed(Visited, root, eligible \ start)
  BY <1>4 DEF Closed
<1>6. Dependents(root, eligible \ start) \subseteq Visited
  BY <1>3, <1>5 DEF Dependents
<1> QED BY <1>2, <1>6 DEF Visited

LEMMA Invariant == Spec => [](TypeOK /\ Inv)
  BY InitInv, InvStep, PTL DEF Spec

\* The walks of cancel_dependents and reset_task visit what Dependents says, for any
\* rows: it is what Orchestrator has them cancel and reset.
THEOREM WalksAreRight == Spec => []VisitsDependents
  BY Invariant, EndIsRight, PTL

\* Each pop leaves one row less to come, each look one row less in the round.
LEMMA CountStep ==
  ASSUME IsFiniteSet(Task), TypeOK, Next
  PROVE  \/ Ahead' = Ahead - 1
         \/ Ahead' = Ahead /\ Cardinality(rest') = Cardinality(rest) - 1
<1> DEFINE unseen == eligible \ seen
<1>1. IsFiniteSet(unseen) /\ Cardinality(unseen) \in Nat
  BY FS_Subset, FS_CardinalityType DEF TypeOK
<1>2. Len(queue) \in Nat
  BY DEF TypeOK
<1>3. CASE Pop
  <2>1. Len(queue') = Len(queue) - 1
    BY <1>3, PopWaiting
  <2>2. Cardinality(unseen)' = Cardinality(unseen)
    BY <1>3 DEF Pop
  <2> QED BY <1>1, <1>2, <2>1, <2>2 DEF Ahead
<1>4. ASSUME NEW x \in Task, LookAt(x)
      PROVE  Ahead' = Ahead /\ Cardinality(rest') = Cardinality(rest) - 1
  <2>1. Cardinality(rest') = Cardinality(rest) - 1
    <3>1. IsFiniteSet(rest)
      BY FS_Subset DEF TypeOK
    <3>2. x \in rest /\ rest' = rest \ {x}
      BY <1>4 DEF LookAt
    <3> QED BY <3>1, <3>2, FS_RemoveElement
  <2>2. CASE Found(x) /\ seen' = seen \cup {x} /\ queue' = Append(queue, x)
    <3>1. x \in unseen /\ unseen' = unseen \ {x}
      BY <1>4, <2>2 DEF Found, LookAt
    <3>2. Len(queue') = Len(queue) + 1
      BY <2>2, AppendWaiting
    <3> HIDE DEF unseen
    <3>3. Cardinality(unseen') = Cardinality(unseen) - 1
      BY <1>1, <3>1, FS_RemoveElement
    <3>4. Ahead = Cardinality(unseen) + Len(queue) /\ Ahead' = Cardinality(unseen') + Len(queue')
      BY DEF Ahead, unseen
    <3> QED BY <1>1, <1>2, <2>1, <3>2, <3>3, <3>4
  <2>3. CASE ~Found(x) /\ UNCHANGED <<seen, queue>>
    BY <1>4, <2>1, <2>3 DEF Ahead, LookAt
  <2> QED BY <1>4, <2>2, <2>3 DEF LookAt
<1> QED BY <1>3, <1>4 DEF Next

\* Both walks end, on any finite table: there are only so many rows to come, and each
\* is looked at once for each that is popped.
THEOREM WalksEnd == IsFiniteSet(Task) => (Spec => EachStepCounts)
<1> SUFFICES ASSUME IsFiniteSet(Task) PROVE Spec => EachStepCounts
  OBVIOUS
<1>1. TypeOK /\ [Next]_vars
        => [\/ Ahead' = Ahead - 1
            \/ Ahead' = Ahead /\ Cardinality(rest') = Cardinality(rest) - 1]_vars
  BY CountStep
<1> QED BY Invariant, <1>1, PTL DEF Spec, EachStepCounts

===============================================================================

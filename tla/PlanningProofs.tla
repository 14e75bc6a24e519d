---------------------------- MODULE PlanningProofs ----------------------------
(***************************************************************************)
(* Proofs about Planning, for any finite set of tasks, any specs and any   *)
(* number of plans: the layers that get_execution_plan computes, which     *)
(* tasks they leave out, and what a re-plan, whole or cut short, may not   *)
(* break.                                                                  *)
(***************************************************************************)
EXTENDS Planning, Counting, TLAPS, FiniteSetTheorems

\* The tuples of variables are always expanded.
USE DEF rows, plan, vars

-----------------------------------------------------------------------------
(* Layers *)

Behind(T, d, S) == {t \in T : d[t] \cap T \subseteq S}

\* P[n] are the tasks that the first n of k layers hold.
Layers(P, T, d, k) ==
  P = [n \in 0..k |-> IF n = 0 THEN {} ELSE Behind(T, d, P[n - 1])]

LEMMA LayersExist ==
  ASSUME NEW T, NEW d, NEW N \in Nat
  PROVE  \E P : Layers(P, T, d, N)
<1> DEFINE K == {k \in Nat : \E P : Layers(P, T, d, k)}
<1>1. 0 \in K
  <2> DEFINE Z == [n \in 0..0 |-> {}]
  <2>1. Layers(Z, T, d, 0)
    BY DEF Layers
  <2> HIDE DEF Z
  <2> QED BY <2>1
<1>2. ASSUME NEW k \in Nat, k \in K PROVE k + 1 \in K
  <2>1. PICK P : Layers(P, T, d, k)
    BY <1>2
  <2> DEFINE Q == [n \in 0..(k + 1) |-> IF n <= k THEN P[n] ELSE Behind(T, d, P[k])]
  <2>2. ASSUME NEW n \in 0..(k + 1)
        PROVE  Q[n] = IF n = 0 THEN {} ELSE Behind(T, d, Q[n - 1])
    <3>1. CASE n = 0
      BY <2>1, <3>1 DEF Layers
    <3>2. CASE n # 0 /\ n <= k
      <4>1. n \in 0..k /\ n - 1 \in 0..k /\ n - 1 \in 0..(k + 1) /\ n - 1 <= k
        BY <3>2
      <4>2. P[n] = Behind(T, d, P[n - 1])
        BY <2>1, <3>2, <4>1 DEF Layers
      <4> QED BY <3>2, <4>1, <4>2
    <3>3. CASE n = k + 1
      <4>1. ~(n <= k) /\ n - 1 = k /\ k \in 0..(k + 1) /\ n # 0
        BY <3>3
      <4> QED BY <4>1
    <3> QED BY <3>1, <3>2, <3>3
  <2>3. Q = [n \in 0..(k + 1) |-> IF n = 0 THEN {} ELSE Behind(T, d, Q[n - 1])]
    <3>1. Q = [n \in 0..(k + 1) |-> Q[n]]
      OBVIOUS
    <3> HIDE DEF Q
    <3> QED BY <2>2, <3>1
  <2> HIDE DEF Q
  <2>4. Layers(Q, T, d, k + 1)
    BY <2>3 DEF Layers
  <2> QED BY <2>4
<1> HIDE DEF K
<1>3. 0..N \subseteq K
  BY <1>1, <1>2, UpTo
<1> QED BY <1>3 DEF K

\* Placed is where the layers end.
LEMMA PlacedByLayers ==
  ASSUME NEW T, NEW d, IsFiniteSet(T)
  PROVE  \E P : Layers(P, T, d, Cardinality(T)) /\ Placed(T, d) = P[Cardinality(T)]
<1> DEFINE N == Cardinality(T)
           P == CHOOSE g : g = [n \in 0..N |-> IF n = 0 THEN {}
                                               ELSE {t \in T : d[t] \cap T \subseteq g[n - 1]}]
<1>1. Placed(T, d) = P[N]
  BY DEF Placed
<1>2. N \in Nat
  BY FS_CardinalityType
<1> HIDE DEF N
<1>3. \E g : g = [n \in 0..N |-> IF n = 0 THEN {}
                                 ELSE {t \in T : d[t] \cap T \subseteq g[n - 1]}]
  <2>1. PICK g : Layers(g, T, d, N)
    BY <1>2, LayersExist
  <2>2. g = [n \in 0..N |-> IF n = 0 THEN {}
                           ELSE {t \in T : d[t] \cap T \subseteq g[n - 1]}]
    BY <2>1 DEF Layers, Behind
  <2> QED BY <2>2
<1>4. P = [n \in 0..N |-> IF n = 0 THEN {} ELSE {t \in T : d[t] \cap T \subseteq P[n - 1]}]
  BY <1>3
<1> HIDE DEF P
<1>5. Layers(P, T, d, N)
  BY <1>4 DEF Layers, Behind
<1> QED BY <1>1, <1>5 DEF N

\* Every layer holds the one before it.
LEMMA LayersGrow ==
  ASSUME NEW T, NEW d, NEW N \in Nat, NEW P, Layers(P, T, d, N)
  PROVE  \A n \in 0..N : /\ P[n] \subseteq T
                         /\ n + 1 \in 0..N => P[n] \subseteq P[n + 1]
<1> DEFINE K == {n \in 0..N : n + 1 \in 0..N => P[n] \subseteq P[n + 1]}
<1>1. \A n \in 0..N : P[n] = IF n = 0 THEN {} ELSE Behind(T, d, P[n - 1])
  BY DEF Layers
<1>2. 0 \in K
  BY <1>1
<1>3. ASSUME NEW n \in 0..N, n + 1 \in 0..N, n \in K PROVE n + 1 \in K
  <2> SUFFICES ASSUME (n + 1) + 1 \in 0..N PROVE P[n + 1] \subseteq P[(n + 1) + 1]
    BY <1>3
  <2>1. P[n + 1] = Behind(T, d, P[n]) /\ P[(n + 1) + 1] = Behind(T, d, P[n + 1])
    BY <1>1, <1>3
  <2>2. P[n] \subseteq P[n + 1]
    BY <1>3
  <2> QED BY <2>1, <2>2 DEF Behind
<1> HIDE DEF K
<1>4. 0..N \subseteq K
  BY <1>2, <1>3, UpTo
<1>5. \A n \in 0..N : P[n] \subseteq T
  BY <1>1 DEF Behind
<1> QED BY <1>4, <1>5 DEF K

Closed(T, d, S) == Behind(T, d, S) \subseteq S

\* As many layers as there are tasks are enough: the last holds what is behind it.
LEMMA LayersSuffice ==
  ASSUME NEW T, NEW d, IsFiniteSet(T), NEW P, Layers(P, T, d, Cardinality(T))
  PROVE  Closed(T, d, P[Cardinality(T)])
<1> DEFINE N == Cardinality(T)
           K == {n \in 0..N : Cardinality(P[n]) >= n \/ Closed(T, d, P[n])}
<1>0. N \in Nat
  BY FS_CardinalityType
<1>1. \A n \in 0..N : P[n] = IF n = 0 THEN {} ELSE Behind(T, d, P[n - 1])
  BY DEF Layers
<1>2. \A n \in 0..N : P[n] \subseteq T /\ (n + 1 \in 0..N => P[n] \subseteq P[n + 1])
  BY <1>0, LayersGrow
<1>3. \A n \in 0..N : IsFiniteSet(P[n]) /\ Cardinality(P[n]) \in Nat
  BY <1>2, FS_Subset, FS_CardinalityType
<1> HIDE DEF N
<1>4. 0 \in K
  BY <1>0, <1>3
<1>5. ASSUME NEW n \in 0..N, n + 1 \in 0..N, n \in K PROVE n + 1 \in K
  <2>1. P[n] \subseteq P[n + 1] /\ P[n + 1] = Behind(T, d, P[n])
    BY <1>1, <1>2, <1>5
  <2>2. CASE Closed(T, d, P[n])
    <3>1. P[n + 1] = P[n]
      BY <2>1, <2>2 DEF Closed
    <3> QED BY <1>5, <2>2, <3>1
  <2>3. CASE Cardinality(P[n]) >= n /\ ~Closed(T, d, P[n])
    <3>1. P[n + 1] # P[n]
      BY <2>1, <2>3 DEF Closed
    <3>2. /\ Cardinality(P[n]) <= Cardinality(P[n + 1])
          /\ Cardinality(P[n]) # Cardinality(P[n + 1])
      BY <1>3, <1>5, <2>1, <3>1, FS_Subset
    <3>3. Cardinality(P[n + 1]) >= n + 1
      BY <1>3, <1>5, <2>3, <3>2
    <3> QED BY <1>5, <3>3
  <2> QED BY <1>5, <2>2, <2>3
<1>6. N \in K
  <2> HIDE DEF K
  <2>1. 0..N \subseteq K
    BY <1>0, <1>4, <1>5, UpTo
  <2> QED BY <1>0, <2>1
<1>7. CASE Closed(T, d, P[N])
  BY <1>7 DEF N
<1>8. CASE Cardinality(P[N]) >= N
  <2>1. N \in 0..N
    BY <1>0
  <2>2. Cardinality(P[N]) <= Cardinality(T)
    BY <1>2, <2>1, FS_Subset
  <2>3. Cardinality(P[N]) = Cardinality(T)
    BY <1>0, <1>3, <1>8, <2>1, <2>2 DEF N
  <2>4. P[N] = T
    BY <1>2, <2>1, <2>3, FS_Subset
  <2> QED BY <2>4 DEF Closed, Behind, N
<1> QED BY <1>6, <1>7, <1>8

\* Tasks of which each waits for one of them find no layer.
LEMMA CyclicIsUnplaced ==
  ASSUME NEW T, NEW d, IsFiniteSet(T), NEW S \in SUBSET T,
         \A u \in S : d[u] \cap S # {}
  PROVE  S \cap Placed(T, d) = {}
<1> DEFINE N == Cardinality(T)
<1>0. N \in Nat
  BY FS_CardinalityType
<1>1. PICK P : Layers(P, T, d, N) /\ Placed(T, d) = P[N]
  BY PlacedByLayers
<1> HIDE DEF N
<1> DEFINE K == {n \in 0..N : S \cap P[n] = {}}
<1>2. \A n \in 0..N : P[n] = IF n = 0 THEN {} ELSE Behind(T, d, P[n - 1])
  BY <1>1 DEF Layers
<1>3. 0 \in K
  BY <1>0, <1>2
<1>4. ASSUME NEW n \in 0..N, n + 1 \in 0..N, n \in K PROVE n + 1 \in K
  <2>1. P[n + 1] = Behind(T, d, P[n]) /\ S \cap P[n] = {}
    BY <1>2, <1>4
  <2>2. S \cap P[n + 1] = {}
    BY <2>1 DEF Behind
  <2> QED BY <1>4, <2>2
<1> HIDE DEF K
<1>5. N \in K
  <2>1. 0..N \subseteq K
    BY <1>0, <1>3, <1>4, UpTo
  <2> QED BY <1>0, <2>1
<1> QED BY <1>1, <1>5 DEF K

\* What finds no layer waits for something else that finds none.
LEMMA UnplacedIsCyclic ==
  ASSUME NEW T, NEW d, IsFiniteSet(T), NEW u \in T \ Placed(T, d)
  PROVE  d[u] \cap (T \ Placed(T, d)) # {}
<1>1. PICK P : Layers(P, T, d, Cardinality(T)) /\ Placed(T, d) = P[Cardinality(T)]
  BY PlacedByLayers
<1>2. Closed(T, d, Placed(T, d))
  BY <1>1, LayersSuffice
<1> QED BY <1>2 DEF Closed, Behind

\* A spec that is layered has a first task among any of its tasks.
LEMMA LayeredIsSound ==
  ASSUME NEW T, NEW d, IsFiniteSet(T), Placed(T, d) = T, NEW S \in SUBSET T, S # {}
  PROVE  \E t \in S : d[t] \cap S = {}
BY CyclicIsUnplaced

-----------------------------------------------------------------------------
(* The rows of the table *)

LEMMA SpecFacts ==
  ASSUME NEW s \in Specs
  PROVE  /\ s.tasks \in SUBSET Id /\ IsFiniteSet(s.tasks)
         /\ s.def \in [s.tasks -> Def] /\ s.deps \in [s.tasks -> SUBSET Id]
         /\ s.name \in Name /\ s.name # NoSpec
  BY SpecAssumption, FS_Subset DEF Name

\* One task of the table changes its status.
LEMMA OneBecomes ==
  ASSUME TypeOK, NEW S \in SUBSET Id, NEW new \in Status, Life!Become(S, new)
  PROVE  status' \in [Id -> Status] /\ deps' = deps
  BY DEF TypeOK, Life!Become

LEMMA TypeStep == TypeOK /\ [Next]_vars => TypeOK'
<1> SUFFICES ASSUME TypeOK, [Next]_vars PROVE TypeOK'
  OBVIOUS
<1> USE DEF TypeOK
<1>1. ASSUME NEW s \in Specs, Plan(s) PROVE TypeOK'
  BY <1>1, SpecFacts DEF Plan
<1>2. ASSUME NEW s \in Specs, PlanFresh(s) PROVE TypeOK'
  BY <1>2, SpecFacts, SpecAssumption DEF PlanFresh, Status, NoDef
<1>3. ASSUME NEW t \in Id, SaveTask(t) PROVE TypeOK'
  <2>1. spec \in Specs /\ t \in spec.tasks
    BY <1>3 DEF SaveTask
  <2>2. spec.deps[t] \in SUBSET Id /\ spec.def[t] \in Def /\ spec.name \in Name
    BY <2>1, SpecFacts
  <2>3. /\ status' \in [Id -> Status] /\ deps' \in [Id -> SUBSET Id]
        /\ def' \in [Id -> Def \cup {NoDef}] /\ owner' \in [Id -> Name \cup {NoSpec}]
    BY <1>3, <2>2 DEF SaveTask, Status
  <2> QED BY <1>3, <2>1, <2>2, <2>3 DEF SaveTask
<1>4. ASSUME NEW t \in Id, Start(t) PROVE TypeOK'
  <2>1. Row(t) \in [def : Def \cup {NoDef}, deps : SUBSET Id]
    BY DEF Row
  <2>2. status' \in [Id -> Status] /\ deps' = deps
    BY <1>4, OneBecomes DEF Start, Life!Start, Status
  <2> QED BY <1>4, <2>1, <2>2 DEF Start, InRun
<1>5. ASSUME NEW t \in Id, Retry(t) \/ Fail(t) \/ Succeed(t) PROVE TypeOK'
  <2>1. status' \in [Id -> Status] /\ deps' = deps
    BY <1>5, OneBecomes DEF Retry, Fail, Succeed, Life!Park, Life!Fail, Life!Complete,
                            Life!Decompose, Status
  <2> QED BY <1>5, <2>1 DEF Retry, Fail, Succeed, InRun
<1>6. CASE PlanSaved
  BY <1>6 DEF PlanSaved
<1>7. CASE StartRun \/ RunStops
  BY <1>7 DEF StartRun, RunStops
<1>8. CASE CancelDependents
  <2>1. status' \in [Id -> Status] /\ deps' = deps
    BY <1>8, OneBecomes DEF CancelDependents, Life!Cancel, Status
  <2> QED BY <1>8, <2>1 DEF CancelDependents, InRun
<1>9. CASE Crash
  BY <1>9 DEF Crash
<1>10. CASE Reset
  <2>1. status' \in [Id -> Status] /\ deps' = deps
    BY <1>10, OneBecomes DEF Reset, Life!Reset, Status
  <2> QED BY <1>10, <2>1 DEF Reset
<1>11. CASE UNCHANGED vars
  BY <1>11
<1> QED
  BY <1>1, <1>2, <1>3, <1>4, <1>5, <1>6, <1>7, <1>8, <1>9, <1>10, <1>11 DEF Next

\* The table, the plan being saved and the tasks in hand go together.
THEOREM TypeCorrect == Spec => []TypeOK
<1>1. Init => TypeOK
  BY SpecAssumption DEF Init, TypeOK, Status, NoDef
<1> QED BY <1>1, TypeStep, PTL DEF Spec

\* The live display leaves out the tasks of a cycle, and what is behind one, and
\* nothing else (the groups of show_plan and of the live view, by get_execution_plan).
THEOREM DisplayFindsCycles == Spec => []UnresolvedAreCyclic
<1>1. TypeOK => UnresolvedAreCyclic
  <2> SUFFICES ASSUME TypeOK PROVE UnresolvedAreCyclic
    OBVIOUS
  <2>1. IsFiniteSet(Present)
    BY SpecAssumption, FS_Subset DEF Present
  <2> DEFINE unresolved == Present \ Placed(Present, deps)
  <2>2. ASSUME NEW t \in unresolved
        PROVE  \E S \in SUBSET Present : t \in S /\ \A u \in S : deps[u] \cap S # {}
    <3>1. \A u \in unresolved : deps[u] \cap unresolved # {}
      BY <2>1, UnplacedIsCyclic
    <3> QED BY <3>1
  <2>3. ASSUME NEW S \in SUBSET Present, \A u \in S : deps[u] \cap S # {}
        PROVE  S \subseteq unresolved
    BY <2>1, <2>3, CyclicIsUnplaced
  <2> QED BY <2>2, <2>3 DEF UnresolvedAreCyclic
<1> QED BY <1>1, TypeCorrect, PTL

-----------------------------------------------------------------------------
(* What a re-plan may not break *)

\* The table has a project when it has rows, and all are of that project.
ProjectFits ==
  /\ OneProject
  /\ Present # {} => project # NoSpec

\* A plan is saved in the place of rows that may be redefined: those of its own
\* project, the finished ones as they are.  What is saved so far is torn, or whole.
SaveFits ==
  pc = "saving" =>
    /\ Valid(spec) /\ Layered(spec)
    /\ Present # {} => project = spec.name
    /\ \A t \in spec.tasks \ todo : t \in Present /\ Row(t) = Planned(spec, t)
    /\ \A t \in todo : status[t] \in Terminal => Row(t) = Planned(spec, t)
    /\ todo # {} => spec.tasks \ todo \subseteq torn

\* A task in hand has its row's definition, and nothing to wait for.
LiveFits ==
  /\ live # {} => pc = "running"
  /\ \A t \in live : status[t] = "running" /\ did[t] = Row(t) /\ ~Life!Waiting(t)

IInv ==
  /\ ProjectFits /\ SaveFits /\ LiveFits
  /\ CompletedAsPlanned /\ OutcomesFitDeps /\ GraphIsSound

\* The steps of a run and of a reset, which are steps of the table's life.
StatusStep ==
  \/ \E t \in Id : Start(t) \/ Retry(t) \/ Fail(t) \/ Succeed(t)
  \/ CancelDependents \/ Reset

LEMMA Becoming ==
  ASSUME TypeOK, StatusStep
  PROVE  \E S \in SUBSET Present, new \in Status \ {"absent"} :
           Life!Become(S, new) /\ \A t \in S : status[t] # "completed"
<1> DEFINE Goal == \E S \in SUBSET Present, new \in Status \ {"absent"} :
                     Life!Become(S, new) /\ \A t \in S : status[t] # "completed"
<1>1. ASSUME NEW S \in SUBSET Id, NEW new \in Status \ {"absent"}, Life!Become(S, new),
             \A t \in S : status[t] \notin {"absent", "completed"}
      PROVE  Goal
  <2>1. S \in SUBSET Present
    BY <1>1 DEF Present
  <2> QED BY <1>1, <2>1
<1> HIDE DEF Goal
<1>2. ASSUME NEW t \in Id, Start(t) PROVE Goal
  <2>1. Life!Become({t}, "running") /\ status[t] = "pending"
    BY <1>2 DEF Start, Life!Start
  <2> QED BY <1>1, <2>1 DEF Status
<1>3. ASSUME NEW t \in Id, Retry(t) PROVE Goal
  <2>1. Life!Become({t}, "pending") /\ status[t] = "running"
    BY <1>3 DEF Retry, Life!Park
  <2> QED BY <1>1, <2>1 DEF Status
<1>4. ASSUME NEW t \in Id, Fail(t) PROVE Goal
  <2>1. Life!Become({t}, "failed") /\ status[t] \in {"pending", "running"}
    BY <1>4 DEF Fail, Life!Fail, Life!Open
  <2> QED BY <1>1, <2>1 DEF Status
<1>5. ASSUME NEW t \in Id, Succeed(t) PROVE Goal
  <2>1. PICK new \in {"completed", "decomposed"} : Life!Become({t}, new) /\ status[t] = "running"
    BY <1>5 DEF Succeed, Life!Complete, Life!Decompose
  <2> QED BY <1>1, <2>1 DEF Status
<1>6. ASSUME CancelDependents PROVE Goal
  <2>1. PICK S \in SUBSET Id : Life!Cancel(S)
    BY <1>6 DEF CancelDependents
  <2>2. Life!Become(S, "cancelled") /\ \A t \in S : status[t] \in {"pending", "running"}
    BY <2>1 DEF Life!Cancel, Life!In, Life!Open
  <2>3. \A t \in S : status[t] \notin {"absent", "completed"}
    BY <2>2
  <2> QED BY <1>1, <2>2, <2>3 DEF Status
<1>7. ASSUME Reset PROVE Goal
  <2>1. PICK S \in SUBSET Id : Life!Reset(S)
    BY <1>7 DEF Reset
  <2>2. /\ Life!Become(S, "pending")
        /\ \A t \in S : status[t] \in {"failed", "cancelled", "running"}
    BY <2>1 DEF Life!Reset, Life!In, Life!Spoilt
  <2>3. \A t \in S : status[t] \notin {"absent", "completed"}
    BY <2>2
  <2> QED BY <1>1, <2>2, <2>3 DEF Status
<1>8. Goal
  BY <1>2, <1>3, <1>4, <1>5, <1>6, <1>7 DEF StatusStep
<1> QED BY <1>8 DEF Goal

\* They change the status of rows that there are, and undo nothing that is completed.
LEMMA StatusSteps ==
  ASSUME TypeOK, StatusStep
  PROVE  /\ Present' = Present
         /\ Life!In({"completed"}) \subseteq Life!In({"completed"})'
         /\ pc # "saving"
         /\ UNCHANGED <<deps, def, owner, project, pc, plan>>
<1>1. PICK S \in SUBSET Present, new \in Status \ {"absent"} :
        Life!Become(S, new) /\ \A t \in S : status[t] # "completed"
  BY Becoming
<1>2. Present' = Present
  BY <1>1 DEF Life!Become, Present
<1>3. Life!In({"completed"}) \subseteq Life!In({"completed"})'
  BY <1>1 DEF Life!Become, Life!In
<1>4. pc # "saving" /\ UNCHANGED <<def, owner, project, pc, plan>>
  BY DEF StatusStep, Start, Retry, Fail, Succeed, CancelDependents, Reset, InRun
<1>5. UNCHANGED deps
  BY <1>1 DEF Life!Become
<1> QED BY <1>2, <1>3, <1>4, <1>5

\* Every other step, a save apart, leaves the rows as they are or drops them all.
LEMMA NextCases ==
  ASSUME [Next]_vars
  PROVE  \/ \E s \in Specs : Plan(s) \/ PlanFresh(s)
         \/ \E t \in Id : SaveTask(t)
         \/ StatusStep
         \/ PlanSaved \/ StartRun \/ RunStops \/ Crash \/ UNCHANGED vars
  BY DEF Next, StatusStep

LEMMA ProjectStep ==
  ASSUME TypeOK, ProjectFits, SaveFits, [Next]_vars
  PROVE  ProjectFits'
<1> USE DEF ProjectFits, OneProject, Present
<1>1. ASSUME NEW s \in Specs, Plan(s) PROVE ProjectFits'
  BY <1>1 DEF Plan
<1>2. ASSUME NEW s \in Specs, PlanFresh(s) PROVE ProjectFits'
  BY <1>2 DEF PlanFresh
<1>3. ASSUME NEW t \in Id, SaveTask(t) PROVE ProjectFits'
  <2>1. Present # {} => project = spec.name
    BY <1>3 DEF SaveTask, SaveFits
  <2>2. project' = spec.name /\ spec.name # NoSpec
    BY <1>3, SpecFacts DEF SaveTask, TypeOK
  <2>3. ASSUME NEW u \in Present' PROVE owner'[u] = project'
    <3>1. CASE u = t
      BY <1>3, <3>1, <2>2 DEF SaveTask, TypeOK
    <3>2. CASE u # t
      <4>1. u \in Present /\ owner'[u] = owner[u]
        BY <1>3, <3>2, <2>3 DEF SaveTask, TypeOK
      <4> QED BY <2>1, <2>2, <4>1
    <3> QED BY <3>1, <3>2
  <2> QED BY <2>2, <2>3
<1>4. CASE StatusStep
  BY <1>4, StatusSteps
<1>5. CASE PlanSaved \/ StartRun \/ RunStops \/ Crash \/ UNCHANGED vars
  BY <1>5 DEF PlanSaved, StartRun, RunStops, Crash
<1> QED BY <1>1, <1>2, <1>3, <1>4, <1>5, NextCases

LEMMA SaveStep ==
  ASSUME TypeOK, ProjectFits, SaveFits, [Next]_vars
  PROVE  SaveFits'
<1>1. ASSUME NEW s \in Specs, Plan(s) PROVE SaveFits'
  <2>1. spec' = s /\ todo' = s.tasks /\ UNCHANGED rows /\ Valid(s) /\ Layered(s)
    BY <1>1 DEF Plan
  <2>2. Present # {} => project = s.name /\ \A t \in s.tasks :
          status[t] \in Terminal => Row(t) = Planned(s, t)
    BY <1>1 DEF Plan, Conflicts, ProjectFits
  <2>3. \A t \in s.tasks : status[t] \in Terminal => t \in Present
    BY SpecFacts DEF Present, Terminal
  <2>4. Present' = Present /\ \A t : Row(t)' = Row(t)
    BY <2>1 DEF Present, Row
  <2> QED BY <2>1, <2>2, <2>3, <2>4 DEF SaveFits
<1>2. ASSUME NEW s \in Specs, PlanFresh(s) PROVE SaveFits'
  <2>1. spec' = s /\ todo' = s.tasks /\ Valid(s) /\ Layered(s)
    BY <1>2 DEF PlanFresh
  <2>2. Present' = {} /\ \A t \in s.tasks : status'[t] = "absent"
    BY <1>2, SpecFacts DEF PlanFresh, Present
  <2> QED BY <2>1, <2>2 DEF SaveFits, Terminal
<1>3. ASSUME NEW t \in Id, SaveTask(t) PROVE SaveFits'
  <2>1. /\ spec' = spec /\ todo' = todo \ {t} /\ t \in todo /\ pc = "saving"
        /\ project' = spec.name
        /\ torn' = IF todo' = {} THEN torn \ spec.tasks ELSE torn \cup {t}
    BY <1>3 DEF SaveTask
  <2>2. spec \in Specs /\ todo \subseteq spec.tasks /\ spec.tasks \subseteq Id
    BY <2>1, SpecFacts DEF TypeOK
  <2>3. t \in Present' /\ Row(t)' = Planned(spec, t)
    BY <1>3 DEF SaveTask, TypeOK, Present, Row, Planned
  <2>4. \A u \in Id \ {t} : /\ Row(u)' = Row(u) /\ status'[u] = status[u]
                            /\ u \in Present => u \in Present'
    BY <1>3 DEF SaveTask, TypeOK, Present, Row
  <2>5. \A u \in spec.tasks \ todo' : u \in Present' /\ Row(u)' = Planned(spec, u)
    BY <2>1, <2>2, <2>3, <2>4 DEF SaveFits
  <2>6. \A u \in todo' : status'[u] \in Terminal => Row(u)' = Planned(spec, u)
    BY <2>1, <2>2, <2>4 DEF SaveFits
  <2>7. todo' # {} => spec'.tasks \ todo' \subseteq torn'
    BY <2>1, <2>2 DEF SaveFits
  <2>8. Valid(spec)' /\ Layered(spec)'
    <3>1. Valid(spec) /\ Layered(spec)
      BY <2>1 DEF SaveFits
    <3> QED BY <2>1, <3>1 DEF Valid, Layered
  <2>9. \A u : Planned(spec, u)' = Planned(spec, u)
    BY <2>1 DEF Planned
  <2> QED BY <2>1, <2>5, <2>6, <2>7, <2>8, <2>9 DEF SaveFits
<1>4. CASE StatusStep
  BY <1>4, StatusSteps DEF SaveFits
<1>5. CASE PlanSaved \/ StartRun \/ RunStops \/ Crash
  BY <1>5 DEF PlanSaved, StartRun, RunStops, Crash, SaveFits
<1>6. CASE UNCHANGED vars
  BY <1>6 DEF SaveFits, Valid, Layered, Present, Row, Planned
<1> QED BY <1>1, <1>2, <1>3, <1>4, <1>5, <1>6, NextCases

\* A set of rows that changes its status leaves the others as they were.
LEMMA Others ==
  ASSUME NEW S, NEW new, Life!Become(S, new)
  PROVE  /\ \A u \in Id : status'[u] = IF u \in S THEN new ELSE status[u]
         /\ \A u : Row(u)' = [def |-> def'[u], deps |-> deps[u]]
  BY DEF Life!Become, Row

\* What has nothing to wait for has nothing to wait for when more is completed.
LEMMA WaitingShrinks ==
  ASSUME TypeOK, StatusStep, NEW u, ~Life!Waiting(u)
  PROVE  ~Life!Waiting(u)'
<1>1. deps' = deps /\ Life!In({"completed"}) \subseteq Life!In({"completed"})'
  BY StatusSteps
<1> QED BY <1>1 DEF Life!Waiting

LEMMA LiveStep ==
  ASSUME TypeOK, LiveFits, [Next]_vars
  PROVE  LiveFits'
<1>1. ASSUME NEW s \in Specs, Plan(s) \/ PlanFresh(s) PROVE LiveFits'
  BY <1>1 DEF Plan, PlanFresh, LiveFits
<1>2. ASSUME NEW t \in Id, SaveTask(t) PROVE LiveFits'
  BY <1>2 DEF SaveTask, LiveFits
<1>3. CASE StatusStep
  <2>1. /\ \A u : Row(u)' = Row(u)
        /\ \A u : ~Life!Waiting(u) => ~Life!Waiting(u)'
        /\ pc' = pc
    BY <1>3, StatusSteps, WaitingShrinks DEF Row
  <2>2. ASSUME NEW t \in Id, Start(t) PROVE LiveFits'
    <3>1. Life!Become({t}, "running") /\ ~Life!Waiting(t)
      BY <2>2 DEF Start, Life!Start
    <3>2. live' = live \cup {t} /\ pc = "running" /\ did' = [did EXCEPT ![t] = Row(t)]
      BY <2>2 DEF Start, InRun
    <3>3. ASSUME NEW u \in live'
          PROVE  status'[u] = "running" /\ did'[u] = Row(u)' /\ ~Life!Waiting(u)'
      BY <2>1, <3>1, <3>2, <3>3, Others DEF LiveFits, TypeOK
    <3> QED BY <2>1, <3>2, <3>3 DEF LiveFits
  <2>3. ASSUME NEW t \in Id, Retry(t) \/ Fail(t) \/ Succeed(t) PROVE LiveFits'
    <3>1. PICK new : Life!Become({t}, new)
      BY <2>3 DEF Retry, Fail, Succeed, Life!Park, Life!Fail, Life!Complete, Life!Decompose
    <3>2. live' = live \ {t} /\ did' = did
      BY <2>3 DEF Retry, Fail, Succeed
    <3> QED BY <2>1, <3>1, <3>2, Others DEF LiveFits, TypeOK
  <2>4. CASE CancelDependents
    <3>1. PICK S \in SUBSET Id : Life!Cancel(S)
      BY <2>4 DEF CancelDependents
    <3>2. live' = live /\ did' = did
      BY <2>4 DEF CancelDependents
    <3>3. S \cap live = {}
      <4> SUFFICES ASSUME NEW u \in S, u \in live PROVE FALSE
        OBVIOUS
      <4>1. deps[u] \subseteq Life!In({"completed"})
        BY DEF LiveFits, Life!Waiting
      <4>2. deps[u] \cap (S \cup Life!In(Life!Spoilt)) # {}
        BY <3>1 DEF Life!Cancel, Life!CausedIn
      <4>3. S \subseteq Life!In(Life!Open)
        BY <3>1 DEF Life!Cancel
      <4> QED BY <4>1, <4>2, <4>3 DEF Life!In, Life!Open, Life!Spoilt
    <3>4. Life!Become(S, "cancelled")
      BY <3>1 DEF Life!Cancel
    <3> QED BY <2>1, <3>2, <3>3, <3>4, Others DEF LiveFits, TypeOK
  <2>5. CASE Reset
    BY <2>5 DEF Reset, LiveFits
  <2> QED BY <1>3, <2>2, <2>3, <2>4, <2>5 DEF StatusStep
<1>4. CASE PlanSaved \/ StartRun
  BY <1>4 DEF PlanSaved, StartRun, LiveFits
<1>5. CASE RunStops \/ Crash
  BY <1>5 DEF RunStops, Crash, LiveFits
<1>6. CASE UNCHANGED vars
  BY <1>6 DEF LiveFits, Row, Life!Waiting, Life!In
<1> QED BY <1>1, <1>2, <1>3, <1>4, <1>5, <1>6, NextCases

\* A save keeps the row of a task that is done with.
LEMMA SaveKeeps ==
  ASSUME TypeOK, SaveFits, NEW t \in Id, SaveTask(t),
         NEW u \in Id, status'[u] \in Terminal
  PROVE  status[u] = status'[u] /\ Row(u)' = Row(u) /\ deps'[u] = deps[u]
<1>1. CASE u = t
  <2>1. status[t] = status'[t]
    BY <1>1 DEF SaveTask, TypeOK, Terminal
  <2>2. Row(t) = Planned(spec, t)
    BY <1>1, <2>1 DEF SaveTask, SaveFits
  <2>3. Row(t)' = Planned(spec, t)
    BY DEF SaveTask, TypeOK, Row, Planned
  <2> QED BY <1>1, <2>1, <2>2, <2>3 DEF Row
<1>2. CASE u # t
  BY <1>2 DEF SaveTask, TypeOK, Row
<1> QED BY <1>1, <1>2

LEMMA CompletedStep ==
  ASSUME TypeOK, SaveFits, LiveFits, CompletedAsPlanned, [Next]_vars
  PROVE  CompletedAsPlanned'
<1> SUFFICES ASSUME NEW u \in Id, status'[u] = "completed" PROVE did'[u] = Row(u)'
  BY DEF CompletedAsPlanned, Life!In
<1>0. status[u] = "completed" => did[u] = Row(u)
  BY DEF CompletedAsPlanned, Life!In
<1>1. ASSUME NEW s \in Specs, Plan(s) PROVE did'[u] = Row(u)'
  BY <1>0, <1>1 DEF Plan, Row
<1>2. ASSUME NEW s \in Specs, PlanFresh(s) PROVE did'[u] = Row(u)'
  BY <1>2 DEF PlanFresh
<1>3. ASSUME NEW t \in Id, SaveTask(t) PROVE did'[u] = Row(u)'
  <2>1. did' = did
    BY <1>3 DEF SaveTask
  <2> QED BY <1>0, <1>3, <2>1, SaveKeeps DEF Terminal
<1>4. CASE StatusStep
  <2>1. Row(u)' = Row(u)
    BY <1>4, StatusSteps DEF Row
  <2>2. ASSUME NEW t \in Id, Start(t) PROVE did'[u] = Row(u)'
    <3>1. Life!Become({t}, "running") /\ did' = [did EXCEPT ![t] = Row(t)]
      BY <2>2 DEF Start, Life!Start
    <3> QED BY <1>0, <2>1, <3>1, Others DEF TypeOK
  <2>3. ASSUME NEW t \in Id, Retry(t) \/ Fail(t) PROVE did'[u] = Row(u)'
    <3>1. PICK new \in {"pending", "failed"} : Life!Become({t}, new)
      BY <2>3 DEF Retry, Fail, Life!Park, Life!Fail
    <3>2. did' = did
      BY <2>3 DEF Retry, Fail
    <3> QED BY <1>0, <2>1, <3>1, <3>2, Others
  <2>4. ASSUME NEW t \in Id, Succeed(t) PROVE did'[u] = Row(u)'
    <3>1. PICK new : Life!Become({t}, new)
      BY <2>4 DEF Succeed, Life!Complete, Life!Decompose
    <3>2. did' = did /\ did[t] = Row(t)
      BY <2>4 DEF Succeed, LiveFits
    <3> QED BY <1>0, <2>1, <3>1, <3>2, Others
  <2>5. CASE CancelDependents \/ Reset
    <3>1. PICK S \in SUBSET Id, new \in {"pending", "cancelled"} : Life!Become(S, new)
      <4>1. CASE CancelDependents
        BY <4>1 DEF CancelDependents, Life!Cancel
      <4>2. CASE Reset
        BY <4>2 DEF Reset, Life!Reset
      <4> QED BY <2>5, <4>1, <4>2
    <3>2. did' = did
      BY <2>5 DEF CancelDependents, Reset
    <3> QED BY <1>0, <2>1, <3>1, <3>2, Others
  <2> QED BY <1>4, <2>2, <2>3, <2>4, <2>5 DEF StatusStep
<1>5. CASE PlanSaved \/ StartRun \/ RunStops \/ Crash \/ UNCHANGED vars
  BY <1>0, <1>5 DEF PlanSaved, StartRun, RunStops, Crash, Row
<1> QED BY <1>1, <1>2, <1>3, <1>4, <1>5, NextCases

LEMMA OutcomesStep ==
  ASSUME TypeOK, SaveFits, LiveFits, OutcomesFitDeps, [Next]_vars
  PROVE  OutcomesFitDeps'
<1> USE DEF Life!In
<1>0. /\ \A u \in Id : status[u] \in {"completed", "failed", "decomposed"} => ~Life!Waiting(u)
      /\ \A u \in Id : status[u] = "cancelled" => deps[u] \cap Life!In(Life!Spoilt) # {}
  BY DEF OutcomesFitDeps
<1>1. ASSUME NEW s \in Specs, Plan(s) PROVE OutcomesFitDeps'
  BY <1>1 DEF Plan, OutcomesFitDeps, Life!Waiting
<1>2. ASSUME NEW s \in Specs, PlanFresh(s) PROVE OutcomesFitDeps'
  BY <1>2 DEF PlanFresh, OutcomesFitDeps
<1>3. ASSUME NEW t \in Id, SaveTask(t) PROVE OutcomesFitDeps'
  <2>1. /\ Life!In({"completed"})' = Life!In({"completed"})
        /\ Life!In(Life!Spoilt)' = Life!In(Life!Spoilt)
    BY <1>3 DEF SaveTask, TypeOK, Life!Spoilt
  <2>2. ASSUME NEW u \in Id, status'[u] \in Terminal
        PROVE  status[u] = status'[u] /\ deps'[u] = deps[u]
    BY <1>3, <2>2, SaveKeeps
  <2>3. ASSUME NEW u \in Id, status'[u] \in {"completed", "failed", "decomposed"}
        PROVE  ~Life!Waiting(u)'
    BY <1>0, <2>1, <2>2, <2>3 DEF Life!Waiting, Terminal
  <2>4. ASSUME NEW u \in Id, status'[u] = "cancelled"
        PROVE  deps'[u] \cap Life!In(Life!Spoilt)' # {}
    BY <1>0, <2>1, <2>2, <2>4 DEF Terminal
  <2> QED BY <2>3, <2>4 DEF OutcomesFitDeps
<1>4. CASE StatusStep
  <2>1. deps' = deps /\ \A u : ~Life!Waiting(u) => ~Life!Waiting(u)'
    BY <1>4, StatusSteps, WaitingShrinks
  <2>2. ASSUME NEW t \in Id, Start(t) \/ Retry(t) PROVE OutcomesFitDeps'
    <3>1. PICK new \in {"running", "pending"} :
            Life!Become({t}, new) /\ status[t] \in {"running", "pending"}
      BY <2>2 DEF Start, Retry, Life!Start, Life!Park
    <3>2. Life!In(Life!Spoilt)' = Life!In(Life!Spoilt)
      BY <3>1, Others DEF Life!Spoilt
    <3> QED BY <1>0, <2>1, <3>1, <3>2, Others DEF OutcomesFitDeps
  <2>3. ASSUME NEW t \in Id, Fail(t) PROVE OutcomesFitDeps'
    <3>1. Life!Become({t}, "failed") /\ ~Life!Waiting(t)
      BY <2>3 DEF Fail, Life!Fail
    <3>2. Life!In(Life!Spoilt) \subseteq Life!In(Life!Spoilt)'
      BY <3>1, Others DEF Life!Spoilt
    <3> QED BY <1>0, <2>1, <3>1, <3>2, Others DEF OutcomesFitDeps
  <2>4. ASSUME NEW t \in Id, Succeed(t) PROVE OutcomesFitDeps'
    <3>1. PICK new \in {"completed", "decomposed"} :
            Life!Become({t}, new) /\ status[t] = "running"
      BY <2>4 DEF Succeed, Life!Complete, Life!Decompose
    <3>2. ~Life!Waiting(t)
      BY <2>4 DEF Succeed, LiveFits
    <3>3. Life!In(Life!Spoilt)' = Life!In(Life!Spoilt)
      BY <3>1, Others DEF Life!Spoilt
    <3> QED BY <1>0, <2>1, <3>1, <3>2, <3>3, Others DEF OutcomesFitDeps
  <2>5. CASE CancelDependents
    <3>1. PICK S \in SUBSET Id : Life!Cancel(S)
      BY <2>5 DEF CancelDependents
    <3>2. Life!Become(S, "cancelled")
      BY <3>1 DEF Life!Cancel
    <3>3. S \cup Life!In(Life!Spoilt) \subseteq Life!In(Life!Spoilt)'
      BY <3>2, Others DEF Life!Spoilt
    <3>4. \A u \in S : deps[u] \cap (S \cup Life!In(Life!Spoilt)) # {}
      BY <3>1 DEF Life!Cancel, Life!CausedIn
    <3>5. \A u \in Id : status'[u] = "cancelled" => deps[u] \cap (S \cup Life!In(Life!Spoilt)) # {}
      BY <1>0, <3>2, <3>4, Others
    <3>6. \A u \in Id : status'[u] \in {"completed", "failed", "decomposed"} => ~Life!Waiting(u)'
      BY <1>0, <2>1, <3>2, Others
    <3> QED BY <2>1, <3>3, <3>5, <3>6 DEF OutcomesFitDeps
  <2>6. CASE Reset
    <3>1. PICK S \in SUBSET Id : Life!Reset(S)
      BY <2>6 DEF Reset
    <3>2. Life!Become(S, "pending")
      BY <3>1 DEF Life!Reset
    <3>3. Life!In(Life!Spoilt) \ S \subseteq Life!In(Life!Spoilt)'
      BY <3>2, Others DEF Life!Spoilt
    <3>4. \A u \in Id : status'[u] = "cancelled" => deps[u] \cap (Life!In(Life!Spoilt) \ S) # {}
      BY <3>1, <3>2, Others DEF Life!Reset
    <3>5. \A u \in Id : status'[u] \in {"completed", "failed", "decomposed"} => ~Life!Waiting(u)'
      BY <1>0, <2>1, <3>2, Others
    <3> QED BY <2>1, <3>3, <3>4, <3>5 DEF OutcomesFitDeps
  <2> QED BY <1>4, <2>2, <2>3, <2>4, <2>5, <2>6 DEF StatusStep
<1>5. CASE PlanSaved \/ StartRun \/ RunStops \/ Crash \/ UNCHANGED vars
  BY <1>5 DEF PlanSaved, StartRun, RunStops, Crash, OutcomesFitDeps, Life!Waiting
<1> QED BY <1>1, <1>2, <1>3, <1>4, <1>5, NextCases

\* The last row makes a plan whole: its tasks are sound by themselves, and no row
\* of another plan that they depend on.
LEMMA GraphStep ==
  ASSUME TypeOK, SaveFits, SaveFits', GraphIsSound, [Next]_vars
  PROVE  GraphIsSound'
<1> DEFINE whole == Present \ torn
<1>0. /\ \A t \in whole : deps[t] \subseteq Present
      /\ \A S \in SUBSET whole : S # {} => \E t \in S : deps[t] \cap S = {}
  BY DEF GraphIsSound
<1>1. ASSUME NEW s \in Specs, Plan(s) PROVE GraphIsSound'
  BY <1>1 DEF Plan, GraphIsSound, Present
<1>2. ASSUME NEW s \in Specs, PlanFresh(s) PROVE GraphIsSound'
  <2>1. Present' = {}
    BY <1>2 DEF PlanFresh, Present
  <2> QED BY <2>1 DEF GraphIsSound
<1>3. ASSUME NEW t \in Id, SaveTask(t) PROVE GraphIsSound'
  <2>1. Present' = Present \cup {t} /\ \A u \in Id \ {t} : deps'[u] = deps[u]
    BY <1>3 DEF SaveTask, TypeOK, Present
  <2>2. /\ spec \in Specs /\ t \in spec.tasks /\ spec' = spec /\ pc' = "saving"
        /\ torn' = IF todo' = {} THEN torn \ spec.tasks ELSE torn \cup {t}
    BY <1>3 DEF SaveTask, TypeOK
  <2> Present \subseteq Id
    BY DEF Present
  <2>3. CASE todo' # {}
    <3>1. whole' \subseteq whole \ {t}
      BY <2>1, <2>2, <2>3
    <3>2. \A u \in whole' : deps'[u] = deps[u] /\ u \in whole
      BY <2>1, <3>1
    <3>3. \A u \in whole' : deps'[u] \subseteq Present'
      BY <1>0, <2>1, <3>2
    <3>4. ASSUME NEW S \in SUBSET whole', S # {} PROVE \E u \in S : deps'[u] \cap S = {}
      <4>1. S \in SUBSET whole
        BY <3>1
      <4>2. PICK u \in S : deps[u] \cap S = {}
        BY <1>0, <3>4, <4>1
      <4> QED BY <3>2, <4>2
    <3> QED BY <3>3, <3>4 DEF GraphIsSound
  <2>4. CASE todo' = {}
    <3>1. \A u \in spec.tasks : u \in Present' /\ deps'[u] = spec.deps[u]
      <4>1. \A u \in spec'.tasks \ todo' : u \in Present' /\ Row(u)' = Planned(spec', u)
        BY <2>2 DEF SaveFits, Planned
      <4> QED BY <2>2, <2>4, <4>1 DEF Row, Planned
    <3>2. whole' \subseteq whole \cup spec.tasks
      BY <2>1, <2>2, <2>4
    <3>3. \A u \in whole' \ spec.tasks : u \in whole /\ deps'[u] = deps[u]
      BY <2>1, <2>2, <3>2
    <3>4. \A u \in spec.tasks : spec.deps[u] \subseteq spec.tasks
      BY <1>3 DEF SaveTask, SaveFits, Valid
    <3>5. \A u \in whole' : deps'[u] \subseteq Present'
      BY <1>0, <2>1, <3>1, <3>3, <3>4
    <3>6. ASSUME NEW S \in SUBSET whole', S # {} PROVE \E u \in S : deps'[u] \cap S = {}
      <4>1. CASE S \cap spec.tasks = {}
        <5>1. S \in SUBSET whole
          BY <3>2, <4>1
        <5>2. PICK u \in S : deps[u] \cap S = {}
          BY <1>0, <3>6, <5>1
        <5> QED BY <3>3, <4>1, <5>2
      <4>2. CASE S \cap spec.tasks # {}
        <5>1. Placed(spec.tasks, spec.deps) = spec.tasks
          BY <1>3 DEF SaveTask, SaveFits, Layered
        <5>2. IsFiniteSet(spec.tasks)
          BY <2>2, SpecFacts
        <5>3. PICK u \in S \cap spec.tasks : spec.deps[u] \cap (S \cap spec.tasks) = {}
          <6> DEFINE R == S \cap spec.tasks
          <6>1. R \in SUBSET spec.tasks /\ R # {}
            BY <4>2
          <6> HIDE DEF R
          <6>2. \E u \in R : spec.deps[u] \cap R = {}
            BY <5>1, <5>2, <6>1, LayeredIsSound
          <6> QED BY <6>2 DEF R
        <5>4. deps'[u] = spec.deps[u] /\ spec.deps[u] \subseteq spec.tasks
          BY <3>1, <3>4
        <5> QED BY <5>3, <5>4
      <4> QED BY <4>1, <4>2
    <3> QED BY <3>5, <3>6 DEF GraphIsSound
  <2> QED BY <2>3, <2>4
<1>4. CASE StatusStep
  <2>1. Present' = Present /\ deps' = deps /\ torn' = torn
    BY <1>4, StatusSteps
  <2> QED BY <2>1 DEF GraphIsSound
<1>5. CASE PlanSaved \/ StartRun \/ RunStops \/ Crash \/ UNCHANGED vars
  BY <1>5 DEF PlanSaved, StartRun, RunStops, Crash, GraphIsSound, Present
<1> QED BY <1>1, <1>2, <1>3, <1>4, <1>5, NextCases

THEOREM Invariant == Spec => []IInv
<1>1. Init => IInv
  <2> SUFFICES ASSUME Init PROVE IInv
    OBVIOUS
  <2>1. Present = {} /\ \A S : Life!In(S) \subseteq {t \in Id : "absent" \in S}
    BY DEF Init, Present, Life!In
  <2>2. ProjectFits /\ GraphIsSound
    BY <2>1 DEF ProjectFits, OneProject, GraphIsSound
  <2>3. SaveFits /\ LiveFits
    BY DEF Init, SaveFits, LiveFits
  <2>4. CompletedAsPlanned /\ OutcomesFitDeps
    BY <2>1 DEF CompletedAsPlanned, OutcomesFitDeps
  <2> QED BY <2>2, <2>3, <2>4 DEF IInv
<1>2. TypeOK /\ IInv /\ [Next]_vars => IInv'
  BY ProjectStep, SaveStep, LiveStep, CompletedStep, OutcomesStep, GraphStep DEF IInv
<1> QED BY <1>1, <1>2, TypeCorrect, PTL DEF Spec

\* "Explain why saving `spec` over the existing plan would be silently wrong": what
\* counts as completed was done as its row says (_plan_conflicts, upsert_task).
THEOREM DoneIsAsPlanned == Spec => []CompletedAsPlanned
<1>1. IInv => CompletedAsPlanned
  BY DEF IInv
<1> QED BY Invariant, <1>1, PTL

\* The rows of two projects are never mixed (_plan_conflicts, clear).
THEOREM ProjectsApart == Spec => []OneProject
<1>1. IInv => OneProject
  BY DEF IInv, ProjectFits
<1> QED BY Invariant, <1>1, PTL

\* A re-plan leaves no outcome before its dependencies, and no cancellation without
\* its cause.
THEOREM OutcomesFit == Spec => []OutcomesFitDeps
<1>1. IInv => OutcomesFitDeps
  BY DEF IInv
<1> QED BY Invariant, <1>1, PTL

\* What plans have saved whole is a graph that a run can finish (ProjectSpec.validate,
\* get_execution_plan, save_spec).
THEOREM PlansAreSound == Spec => []GraphIsSound
<1>1. IInv => GraphIsSound
  BY DEF IInv
<1> QED BY Invariant, <1>1, PTL

===============================================================================

---------------------------- MODULE GitMergeProofs ----------------------------
(***************************************************************************)
(* Proofs about GitMerge, for any tasks, branches and bounds: a merge that *)
(* reports success has landed, every merge starts and, undisturbed, ends   *)
(* with HEAD on the base branch, and what an agent has committed stays on  *)
(* its branch until it is on the base.                                     *)
(***************************************************************************)
EXTENDS GitMerge, Counting, SequenceTheorems, TLAPS

\* Every ref has a history, so that a commit on one leaves the others alone.
RefsHaveHistories == ref = [r \in Ref |-> ref[r]]

\* The invariant with the shape of ref.
Inv == MergeInv /\ RefsHaveHistories

\* Before the first run there is no merge.
LEMMA InitInv == Init => Inv
  BY DEF Init, Inv, MergeInv, RefsHaveHistories, SuccessHasLanded, CleanUp

\* Every step keeps the shape of ref.
LEMMA RefsStep == RefsHaveHistories /\ [Next]_vars => RefsHaveHistories'
  <1> SUFFICES ASSUME RefsHaveHistories, [Next]_vars
               PROVE  RefsHaveHistories'
    OBVIOUS
  <1> USE DEF RefsHaveHistories
  <1>1. ASSUME NEW r, NEW h, ref' = [ref EXCEPT ![r] = h]
        PROVE  RefsHaveHistories'
    BY <1>1
  <1>2. ASSUME UNCHANGED ref PROVE RefsHaveHistories'
    BY <1>2
  <1> QED
    BY <1>1, <1>2 DEF Next, MergeSync, vars, git, Launch, AgentCommits, StartMerge,
       MergeReturns, Signal, Crash, Restart, Recover, RemoveRebase, RecoverMerge,
       DetectBase, CheckoutBase, RebaseBegins, RebaseEnds, RebaseFails, ReturnToBase,
       FastForward, Verify, Reset, Confirm, Cancelled, CancelMerge, CancelCheckout,
       RebaseAborted, OntoBase, Committed, MergeCommits, MergeRefused, MergeConflicts,
       AgentMerges, AgentFails, MergeAborted, AgentKilled

\* The detected base branch is a branch.
LEMMA DetectedIsBase ==
  ASSUME base \in Base \cup {None} PROVE DetectedBase \in Base
  BY GitAssumption DEF DetectedBase, Base

\* Every step keeps what the commands rely on.
LEMMA MergeStep == Inv /\ [Next]_vars => MergeInv'
  <1> SUFFICES ASSUME Inv, [Next]_vars
               PROVE  MergeInv'
    OBVIOUS
  <1> USE GitAssumption DEF MergeInv, Inv, CleanUp
  <1>1. ASSUME NEW t \in Task, Launch(t) PROVE MergeInv'
    BY <1>1 DEF Launch, merger, SuccessHasLanded
  <1>2. ASSUME NEW t \in Task, AgentCommits(t) PROVE MergeInv'
    <2>1. pc' = pc /\ UNCHANGED <<head, rebasing, merging, base, current, result, shut, hit>>
      BY <1>2 DEF AgentCommits, merger
    <2>2. SuccessHasLanded'
      <3> SUFFICES ASSUME pc = "returned", result
                   PROVE  IsAncestor(ref[current], ref[base])'
        BY <2>1 DEF SuccessHasLanded
      <3>1. current \in Ref \ {t} /\ base \in Ref \ {t}
        BY <1>2 DEF AgentCommits, Ref, Base
      <3>2. ref'[current] = ref[current] /\ ref'[base] = ref[base]
        BY <1>2, <3>1 DEF AgentCommits, RefsHaveHistories
      <3> QED
        BY <2>1, <3>2 DEF SuccessHasLanded, IsAncestor
    <2> QED
      BY <2>1, <2>2
  <1>3. ASSUME NEW t \in Task, StartMerge(t) PROVE MergeInv'
    BY <1>3 DEF StartMerge, git, SuccessHasLanded
  <1>4. CASE MergeReturns
    BY <1>4 DEF MergeReturns, SuccessHasLanded
  <1>5. CASE Signal
    BY <1>5 DEF Signal, git, merger, SuccessHasLanded, IsAncestor, Commands
  <1>6. CASE Crash
    BY <1>6 DEF Crash, git, SuccessHasLanded
  <1>7. CASE Restart
    BY <1>7 DEF Restart, git, SuccessHasLanded
  <1>8. CASE CheckoutBase
    BY <1>8 DEF CheckoutBase, Goto, SuccessHasLanded
  <1>9. CASE Confirm
    <2>1. pc = "confirm" /\ pc' = "returned" /\ ~hit'
          /\ UNCHANGED <<ref, head, rebasing, base, current, shut>>
      BY <1>9 DEF Confirm, Return, Goto, git
    <2>2. result' => IsAncestor(ref[current], ref[base])
      BY <1>9, Zenon DEF Confirm, Return
    <2>3. SuccessHasLanded'
      BY <2>1, <2>2 DEF SuccessHasLanded, IsAncestor
    <2> QED
      BY <2>1, <2>3
  <1>10. CASE Recover
    BY <1>10 DEF Recover, Goto, SuccessHasLanded
  <1>11. CASE RebaseBegins
    BY <1>11 DEF RebaseBegins, merger, SuccessHasLanded
  <1>12. CASE RebaseEnds
    BY <1>12 DEF RebaseEnds, Goto, SuccessHasLanded
  <1>13. CASE RebaseFails
    BY <1>13 DEF RebaseFails, Goto, SuccessHasLanded, git
  <1>14. CASE ReturnToBase
    BY <1>14 DEF ReturnToBase, Goto, SuccessHasLanded
  <1>15. CASE FastForward
    BY <1>15 DEF FastForward, Return, Goto, SuccessHasLanded
  <1>16. CASE Verify
    BY <1>16 DEF Verify, Goto, SuccessHasLanded, git
  <1>17. CASE Reset
    BY <1>17 DEF Reset, Return, Goto, SuccessHasLanded
  <1>18. CASE Cancelled
    BY <1>18 DEF Cancelled, Goto, SuccessHasLanded
  <1>19. CASE RebaseAborted
    BY <1>19 DEF RebaseAborted, Goto, SuccessHasLanded
  <1>20. CASE OntoBase
    BY <1>20 DEF OntoBase, Goto, SuccessHasLanded
  <1>21. CASE MergeCommits
    BY <1>21 DEF MergeCommits, Goto, SuccessHasLanded
  <1>22. CASE MergeRefused
    BY <1>22 DEF MergeRefused, Return, Goto, SuccessHasLanded, git
  <1>23. CASE MergeConflicts
    BY <1>23 DEF MergeConflicts, Goto, SuccessHasLanded
  <1>24. CASE AgentMerges
    BY <1>24 DEF AgentMerges, Goto, SuccessHasLanded
  <1>25. CASE AgentFails
    BY <1>25 DEF AgentFails, Goto, SuccessHasLanded
  <1>26. CASE AgentKilled
    BY <1>26 DEF AgentKilled, Goto, SuccessHasLanded
  <1>27. CASE UNCHANGED vars
    BY <1>27 DEF vars, git, merger, SuccessHasLanded, IsAncestor
  <1>28. CASE RemoveRebase
    BY <1>28 DEF RemoveRebase, Goto, SuccessHasLanded
  <1>29. CASE RecoverMerge
    BY <1>29 DEF RecoverMerge, Goto, SuccessHasLanded
  <1>30. CASE DetectBase
    BY <1>30, DetectedIsBase DEF DetectBase, git, Goto, SuccessHasLanded, Base
  <1>31. CASE CancelMerge
    BY <1>31 DEF CancelMerge, Goto, SuccessHasLanded
  <1>32. CASE CancelCheckout
    BY <1>32 DEF CancelCheckout, Return, Goto, SuccessHasLanded
  <1>33. CASE MergeAborted
    BY <1>33 DEF MergeAborted, Return, Goto, SuccessHasLanded
  <1> QED
    BY <1>1, <1>2, <1>3, <1>4, <1>5, <1>6, <1>7, <1>8, <1>9, <1>10, <1>11, <1>12,
       <1>13, <1>14, <1>15, <1>16, <1>17, <1>18, <1>19, <1>20, <1>21, <1>22, <1>23,
       <1>24, <1>25, <1>26, <1>27, <1>28, <1>29, <1>30, <1>31, <1>32, <1>33
       DEF Next, MergeSync

\* What the commands rely on holds in every run, whatever is killed or refused.
THEOREM MergesAreSafe == Spec => []MergeInv
  <1>1. Inv /\ [Next]_vars => Inv'
    BY MergeStep, RefsStep DEF Inv
  <1>2. Inv => MergeInv
    BY DEF Inv
  <1> QED
    BY InitInv, <1>1, <1>2, PTL DEF Spec

\* A merge that reports success has put the branch on the base (_confirm_merged).
THEOREM SuccessIsTrue == Spec => []SuccessHasLanded
  <1>1. MergeInv => SuccessHasLanded
    BY DEF MergeInv
  <1> QED
    BY MergesAreSafe, <1>1, PTL

\* Merges start, and end when nobody interrupts them, on the base branch with no
\* rebase left (the recovery and the aborts of _merge_sync).
THEOREM MergesLeaveCleanBase == Spec => []CleanBase
  <1>1. MergeInv => CleanBase
    BY DEF MergeInv, CleanBase
  <1> QED
    BY MergesAreSafe, <1>1, PTL


-----------------------------------------------------------------------------
(* Histories *)

\* The patches of a history are those of its commits.
LEMMA PatchesOf ==
  ASSUME NEW S, NEW h \in Seq(S)
  PROVE  Patches(h) = UNION {h[i] : i \in 1..Len(h)}
  BY DEF Patches, ToSet

LEMMA PatchesOfAppend ==
  ASSUME NEW S, NEW h \in Seq(S), NEW c \in S
  PROVE  Patches(Append(h, c)) = Patches(h) \cup c
<1> DEFINE a == Append(h, c)
<1>1. /\ a \in Seq(S) /\ Len(h) \in Nat /\ Len(a) = Len(h) + 1 /\ a[Len(h) + 1] = c
      /\ \A i \in 1..Len(h) : a[i] = h[i]
  OBVIOUS
<1>2. 1..Len(a) = (1..Len(h)) \cup {Len(h) + 1}
  BY <1>1
<1> HIDE DEF a
<1>3. Patches(a) = UNION {a[i] : i \in 1..Len(a)} /\ Patches(h) = UNION {h[i] : i \in 1..Len(h)}
  BY <1>1, PatchesOf
<1> QED BY <1>1, <1>2, <1>3 DEF a

LEMMA PatchesOfConcat ==
  ASSUME NEW S, NEW g \in Seq(S), NEW h \in Seq(S)
  PROVE  Patches(g \o h) = Patches(g) \cup Patches(h)
<1> DEFINE a == g \o h
<1>1. /\ a \in Seq(S) /\ Len(g) \in Nat /\ Len(h) \in Nat /\ Len(a) = Len(g) + Len(h)
      /\ \A i \in 1..Len(g) : a[i] = g[i]
      /\ \A i \in 1..Len(h) : a[Len(g) + i] = h[i]
  OBVIOUS
<1> HIDE DEF a
<1>2. /\ Patches(a) = UNION {a[i] : i \in 1..Len(a)}
      /\ Patches(g) = UNION {g[i] : i \in 1..Len(g)}
      /\ Patches(h) = UNION {h[i] : i \in 1..Len(h)}
  BY <1>1, PatchesOf
<1>3. ASSUME NEW i \in 1..Len(a)
      PROVE  i \in 1..Len(g) \/ (i - Len(g) \in 1..Len(h) /\ i = Len(g) + (i - Len(g)))
  BY <1>1
<1>4. \A i \in 1..Len(g) : i \in 1..Len(a)
  BY <1>1
<1>5. \A i \in 1..Len(h) : Len(g) + i \in 1..Len(a)
  BY <1>1
<1>6. Patches(a) \subseteq Patches(g) \cup Patches(h)
  <2> SUFFICES ASSUME NEW i \in 1..Len(a)
               PROVE  a[i] \subseteq Patches(g) \cup Patches(h)
    BY <1>2
  <2>1. CASE i \in 1..Len(g)
    BY <1>1, <1>2, <2>1
  <2>2. CASE i - Len(g) \in 1..Len(h) /\ i = Len(g) + (i - Len(g))
    <3>1. a[i] = h[i - Len(g)]
      BY <1>1, <2>2
    <3> QED BY <1>2, <2>2, <3>1
  <2> QED BY <1>3, <2>1, <2>2
<1>7. Patches(g) \subseteq Patches(a)
  BY <1>1, <1>2, <1>4
<1>8. Patches(h) \subseteq Patches(a)
  BY <1>1, <1>2, <1>5
<1> QED BY <1>6, <1>7, <1>8 DEF a

\* p[n] are those of the first n commits of h, up to the k-th, that a rebase onto
\* a history with the patches held picks.
Picks(p, h, held, k) ==
  p = [n \in 0..k |->
         IF n = 0 THEN << >>
         ELSE IF h[n] \subseteq held THEN p[n - 1]
         ELSE Append(p[n - 1], h[n])]

LEMMA PicksExist ==
  ASSUME NEW h, NEW held, NEW N \in Nat
  PROVE  \E p : Picks(p, h, held, N)
<1> DEFINE K == {k \in Nat : \E p : Picks(p, h, held, k)}
<1>1. 0 \in K
  <2> DEFINE Z == [n \in 0..0 |-> << >>]
  <2>1. Picks(Z, h, held, 0)
    BY DEF Picks
  <2> HIDE DEF Z
  <2> QED BY <2>1
<1>2. ASSUME NEW k \in Nat, k \in K PROVE k + 1 \in K
  <2>1. PICK p : Picks(p, h, held, k)
    BY <1>2
  <2> DEFINE More == IF h[k + 1] \subseteq held THEN p[k] ELSE Append(p[k], h[k + 1])
             q == [n \in 0..(k + 1) |-> IF n <= k THEN p[n] ELSE More]
  <2>2. ASSUME NEW n \in 0..(k + 1)
        PROVE  q[n] = IF n = 0 THEN << >>
                      ELSE IF h[n] \subseteq held THEN q[n - 1]
                      ELSE Append(q[n - 1], h[n])
    <3>1. CASE n = 0
      BY <2>1, <3>1 DEF Picks
    <3>2. CASE n # 0 /\ n <= k
      <4>1. n \in 0..k /\ n - 1 \in 0..k /\ n - 1 \in 0..(k + 1) /\ n - 1 <= k
        BY <3>2
      <4>2. p[n] = IF h[n] \subseteq held THEN p[n - 1] ELSE Append(p[n - 1], h[n])
        BY <2>1, <3>2, <4>1 DEF Picks
      <4> QED BY <3>2, <4>1, <4>2
    <3>3. CASE n = k + 1
      <4>1. ~(n <= k) /\ n - 1 = k /\ k \in 0..(k + 1) /\ n # 0
        BY <3>3
      <4>2. q[n] = More /\ q[n - 1] = p[k]
        BY <4>1
      <4> QED BY <3>3, <4>1, <4>2
    <3> QED BY <3>1, <3>2, <3>3
  <2>3. q = [n \in 0..(k + 1) |->
               IF n = 0 THEN << >>
               ELSE IF h[n] \subseteq held THEN q[n - 1]
               ELSE Append(q[n - 1], h[n])]
    <3>1. q = [n \in 0..(k + 1) |-> q[n]]
      OBVIOUS
    <3> HIDE DEF q
    <3> QED BY <2>2, <3>1
  <2> HIDE DEF q
  <2>4. Picks(q, h, held, k + 1)
    BY <2>3 DEF Picks
  <2> QED BY <2>4
<1> HIDE DEF K
<1>3. 0..N \subseteq K
  BY <1>1, <1>2, UpTo
<1> QED BY <1>3 DEF K

\* What is missing is where the picks end.
LEMMA MissingByPicks ==
  ASSUME NEW S, NEW h \in Seq(S), NEW g
  PROVE  \E p : Picks(p, h, Patches(g), Len(h)) /\ Missing(h, g) = p[Len(h)]
<1> DEFINE N == Len(h)
           p == CHOOSE f : f = [n \in 0..N |->
                                  IF n = 0 THEN << >>
                                  ELSE IF h[n] \subseteq Patches(g) THEN f[n - 1]
                                  ELSE Append(f[n - 1], h[n])]
<1>1. Missing(h, g) = p[N]
  BY DEF Missing
<1>2. N \in Nat
  OBVIOUS
<1> HIDE DEF N
<1>3. \E f : f = [n \in 0..N |->
                    IF n = 0 THEN << >>
                    ELSE IF h[n] \subseteq Patches(g) THEN f[n - 1]
                    ELSE Append(f[n - 1], h[n])]
  <2>1. PICK f : Picks(f, h, Patches(g), N)
    BY <1>2, PicksExist
  <2> QED BY <2>1 DEF Picks
<1>4. p = [n \in 0..N |->
             IF n = 0 THEN << >>
             ELSE IF h[n] \subseteq Patches(g) THEN p[n - 1]
             ELSE Append(p[n - 1], h[n])]
  BY <1>3
<1> HIDE DEF p
<1>5. Picks(p, h, Patches(g), N)
  BY <1>4 DEF Picks
<1> QED BY <1>1, <1>5 DEF N

\* A rebase brings commits of the branch only, and each one that the base does
\* not hold.
LEMMA MissingIsTheRest ==
  ASSUME NEW S, NEW h \in Seq(S), NEW g
  PROVE  /\ Missing(h, g) \in Seq(S)
         /\ Patches(h) \subseteq Patches(g) \cup Patches(Missing(h, g))
<1> DEFINE N == Len(h)
           held == Patches(g)
<1>1. PICK p : Picks(p, h, held, N) /\ Missing(h, g) = p[N]
  BY MissingByPicks
<1>2. N \in Nat /\ \A i \in 1..N : h[i] \in S
  OBVIOUS
<1>3. Patches(h) = UNION {h[i] : i \in 1..N}
  BY PatchesOf
<1> HIDE DEF N, held
<1>4. \A n \in 0..N : p[n] = IF n = 0 THEN << >>
                             ELSE IF h[n] \subseteq held THEN p[n - 1]
                             ELSE Append(p[n - 1], h[n])
  BY <1>1 DEF Picks
<1> DEFINE K == {n \in 0..N : /\ p[n] \in Seq(S)
                              /\ \A i \in 1..n : h[i] \subseteq held \cup Patches(p[n])}
<1>5. 0 \in K
  <2>1. 0 \in 0..N /\ p[0] = << >>
    BY <1>2, <1>4
  <2>2. p[0] \in Seq(S)
    BY <2>1, EmptySeq
  <2>3. ASSUME NEW i \in 1..0 PROVE h[i] \subseteq held \cup Patches(p[0])
    OBVIOUS
  <2> QED BY <2>1, <2>2, <2>3
<1>6. ASSUME NEW n \in 0..N, n + 1 \in 0..N, n \in K PROVE n + 1 \in K
  <2>1. p[n + 1] = IF h[n + 1] \subseteq held THEN p[n] ELSE Append(p[n], h[n + 1])
    BY <1>2, <1>4, <1>6
  <2>2. p[n] \in Seq(S) /\ h[n + 1] \in S /\ \A i \in 1..n : h[i] \subseteq held \cup Patches(p[n])
    BY <1>2, <1>6
  <2>3. \A i \in 1..(n + 1) : i \in 1..n \/ i = n + 1
    BY <1>6
  <2>4. CASE h[n + 1] \subseteq held
    <3>1. p[n + 1] = p[n]
      BY <2>1, <2>4
    <3> QED BY <1>6, <2>2, <2>3, <2>4, <3>1
  <2>5. CASE ~(h[n + 1] \subseteq held)
    <3>1. p[n + 1] = Append(p[n], h[n + 1]) /\ p[n + 1] \in Seq(S)
      BY <2>1, <2>2, <2>5
    <3>2. Patches(p[n + 1]) = Patches(p[n]) \cup h[n + 1]
      BY <2>2, <3>1, PatchesOfAppend
    <3> QED BY <1>6, <2>2, <2>3, <3>1, <3>2
  <2> QED BY <2>4, <2>5
<1>7. N \in K
  <2> HIDE DEF K
  <2>1. 0..N \subseteq K
    BY <1>2, <1>5, <1>6, UpTo
  <2> QED BY <1>2, <2>1
<1>8. Missing(h, g) \in Seq(S) /\ \A i \in 1..N : h[i] \subseteq held \cup Patches(Missing(h, g))
  BY <1>1, <1>7
<1> QED BY <1>3, <1>8 DEF held


-----------------------------------------------------------------------------
(* Types *)

LEMMA PatchesAreTasks ==
  ASSUME NEW h \in Seq(SUBSET Patch) PROVE Patches(h) \in SUBSET Patch
<1>1. \A i \in 1..Len(h) : h[i] \subseteq Patch
  OBVIOUS
<1> QED BY <1>1, PatchesOf

LEMMA RebasedIsHistory ==
  ASSUME NEW h \in Seq(SUBSET Patch), NEW g \in Seq(SUBSET Patch)
  PROVE  /\ Rebased(h, g) \in Seq(SUBSET Patch)
         /\ Len(Rebased(h, g)) = Len(g) + Len(Missing(h, g))
         /\ Missing(h, g) \in Seq(SUBSET Patch)
         /\ Patches(h) \subseteq Patches(Rebased(h, g))
<1>1. /\ Missing(h, g) \in Seq(SUBSET Patch)
      /\ Patches(h) \subseteq Patches(g) \cup Patches(Missing(h, g))
  BY MissingIsTheRest
<1>2. Patches(Rebased(h, g)) = Patches(g) \cup Patches(Missing(h, g))
  BY <1>1, PatchesOfConcat DEF Rebased
<1>3. /\ Rebased(h, g) \in Seq(SUBSET Patch)
      /\ Len(Rebased(h, g)) = Len(g) + Len(Missing(h, g))
  BY <1>1 DEF Rebased
<1> QED BY <1>1, <1>2, <1>3

LEMMA CommittedIsHistory ==
  ASSUME ref \in [Ref -> Seq(SUBSET Patch)], head \in Ref, current \in Task
  PROVE  /\ Committed \in [Ref -> Seq(SUBSET Patch)]
         /\ \A r \in Ref \ {head} : Committed[r] = ref[r]
<1> DEFINE c == Patches(Missing(ref[current], ref[head]))
           h == Append(ref[head], c)
<1>1. ref[current] \in Seq(SUBSET Patch) /\ ref[head] \in Seq(SUBSET Patch)
  BY DEF Ref
<1>2. c \in SUBSET Patch
  BY <1>1, MissingIsTheRest, PatchesAreTasks
<1> HIDE DEF c
<1>3. h \in Seq(SUBSET Patch)
  BY <1>1, <1>2
<1>4. Committed = [ref EXCEPT ![head] = IF IsAncestor(ref[current], ref[head]) THEN ref[head]
                                        ELSE h]
  BY DEF Committed, c
<1> HIDE DEF h
<1> QED BY <1>1, <1>3, <1>4

\* Before the first run.
LEMMA InitTypeOK == Init => TypeOK
<1> SUFFICES ASSUME Init PROVE TypeOK
  OBVIOUS
<1>1. ref \in [Ref -> Seq(SUBSET Patch)]
  <2>1. << >> \in Seq(SUBSET Patch) /\ << {} >> \in Seq(SUBSET Patch)
    OBVIOUS
  <2> QED BY <2>1 DEF Init
<1>2. head \in Ref
  BY DEF Init, Ref, Base
<1>3. /\ rebasing \in Task \cup {None} /\ merging \in BOOLEAN /\ base \in Base \cup {None}
      /\ result \in BOOLEAN /\ shut \in BOOLEAN /\ hit \in BOOLEAN
  BY DEF Init
<1>4. pc \in Step /\ current \in IF pc \in {"idle", "down"} THEN {None} ELSE Task
  BY DEF Init, Step
<1>5. /\ stage \in [Task -> {"pending", "running", "completed", "failed"}]
      /\ made \in [Task -> 0..MaxCommits]
      /\ launches \in [Task -> 0..MaxMerges]
      /\ sessions \in 1..MaxSessions
  BY GitAssumption DEF Init
<1> QED BY <1>1, <1>2, <1>3, <1>4, <1>5 DEF TypeOK

\* Every step keeps the histories.
LEMMA HistoriesStep ==
  TypeOK /\ MergeInv /\ [Next]_vars => ref' \in [Ref -> Seq(SUBSET Patch)]
<1> SUFFICES ASSUME TypeOK, MergeInv, [Next]_vars
             PROVE  ref' \in [Ref -> Seq(SUBSET Patch)]
  OBVIOUS
<1> USE DEF TypeOK
<1>1. ASSUME UNCHANGED ref PROVE ref' \in [Ref -> Seq(SUBSET Patch)]
  BY <1>1
<1>2. ASSUME NEW r \in Ref, NEW h \in Seq(SUBSET Patch), ref' = [ref EXCEPT ![r] = h]
      PROVE  ref' \in [Ref -> Seq(SUBSET Patch)]
  BY <1>2
<1>3. << >> \in Seq(SUBSET Patch) /\ Task \subseteq Ref /\ Base \subseteq Ref /\ Detached \in Ref
  BY DEF Ref
<1>4. ASSUME NEW t \in Task, Launch(t) PROVE ref' \in [Ref -> Seq(SUBSET Patch)]
  <2> DEFINE h == IF ref[t] # << >> THEN ref[t] ELSE ref[head]
  <2>1. h \in Seq(SUBSET Patch) /\ ref' = [ref EXCEPT ![t] = h]
    BY <1>3, <1>4 DEF Launch
  <2> HIDE DEF h
  <2> QED BY <1>2, <1>3, <2>1
<1>5. ASSUME NEW t \in Task, AgentCommits(t) PROVE ref' \in [Ref -> Seq(SUBSET Patch)]
  <2> DEFINE c == {<<t, made[t] + 1>>}
             h == Append(ref[t], c)
  <2>1. c \in SUBSET Patch
    BY <1>5, GitAssumption DEF AgentCommits, Patch
  <2>2. ref' = [ref EXCEPT ![t] = h]
    BY <1>5 DEF AgentCommits
  <2> HIDE DEF c
  <2>3. h \in Seq(SUBSET Patch)
    BY <1>3, <2>1
  <2> HIDE DEF h
  <2> QED BY <1>2, <1>3, <2>2, <2>3
<1>6. CASE MergeReturns
  <2>1. current \in Task
    BY <1>6 DEF MergeReturns, MergeInv
  <2>2. ref' = ref \/ ref' = [ref EXCEPT ![current] = << >>]
    BY <1>6 DEF MergeReturns
  <2> QED BY <1>1, <1>2, <1>3, <2>1, <2>2
<1>7. CASE RebaseBegins
  <2>1. CASE UNCHANGED ref
    BY <1>1, <2>1
  <2>2. CASE ~UNCHANGED ref
    <3> DEFINE m == Missing(ref[current], ref[base])
               h == Rebased(ref[current], ref[base])
    <3>1. current \in Ref /\ base \in Ref
      BY <1>3, <1>7 DEF RebaseBegins, MergeInv
    <3>2. ref[current] \in Seq(SUBSET Patch) /\ ref[base] \in Seq(SUBSET Patch)
      BY <3>1
    <3>3. PICK n \in 0..Len(m) :
            ref' = [ref EXCEPT ![Detached] = SubSeq(h, 1, Len(ref[base]) + n)]
      BY <1>7, <2>2 DEF RebaseBegins
    <3>4. h \in Seq(SUBSET Patch) /\ Len(h) = Len(ref[base]) + Len(m) /\ m \in Seq(SUBSET Patch)
      BY <3>2, RebasedIsHistory
    <3> HIDE DEF m, h
    <3>5. SubSeq(h, 1, Len(ref[base]) + n) \in Seq(SUBSET Patch)
      <4>1. Len(ref[base]) + n \in 0..Len(h)
        BY <3>2, <3>4
      <4> QED BY <3>4, <4>1, SubSeqProperties
    <3> QED BY <1>2, <1>3, <3>3, <3>5
  <2> QED BY <2>1, <2>2
<1>8. CASE RebaseEnds
  <2>1. current \in Ref /\ base \in Ref
    BY <1>3, <1>8 DEF RebaseEnds, MergeInv
  <2>2. ref' = [ref EXCEPT ![current] = Rebased(ref[current], ref[base])]
    BY <1>8 DEF RebaseEnds
  <2>3. Rebased(ref[current], ref[base]) \in Seq(SUBSET Patch)
    BY <2>1, RebasedIsHistory
  <2> QED BY <1>2, <2>1, <2>2, <2>3
<1>9. CASE FastForward
  <2>1. current \in Ref
    BY <1>3, <1>9 DEF FastForward, MergeInv
  <2>2. ref' = ref \/ ref' = [ref EXCEPT ![head] = ref[current]]
    BY <1>9 DEF FastForward
  <2> QED BY <1>1, <1>2, <2>1, <2>2
<1>10. CASE Reset
  <2> DEFINE h == IF Len(ref[head]) > 1 THEN Front(ref[head]) ELSE ref[head]
  <2>1. h \in Seq(SUBSET Patch)
    <3>1. ref[head] \in Seq(SUBSET Patch) /\ Len(ref[head]) \in Nat
      OBVIOUS
    <3>2. CASE Len(ref[head]) > 1
      <4>1. Len(ref[head]) - 1 \in 0..Len(ref[head])
        BY <3>1, <3>2
      <4>2. Front(ref[head]) \in Seq(SUBSET Patch)
        BY <3>1, <4>1, SubSeqProperties DEF Front
      <4> QED BY <3>2, <4>2
    <3> QED BY <3>1, <3>2
  <2>2. ref' = ref \/ ref' = [ref EXCEPT ![head] = h]
    BY <1>10 DEF Reset
  <2> HIDE DEF h
  <2> QED BY <1>1, <1>2, <2>1, <2>2
<1>11. ASSUME ref' = Committed, current \in Task PROVE ref' \in [Ref -> Seq(SUBSET Patch)]
  BY <1>11, CommittedIsHistory
<1>12. CASE MergeCommits
  <2>1. (ref' = Committed \/ ref' = ref) /\ current \in Task
    BY <1>12 DEF MergeCommits, MergeInv
  <2> QED BY <1>1, <1>11, <2>1
<1>13. CASE AgentMerges
  <2>1. (ref' = Committed \/ ref' = ref) /\ current \in Task
    BY <1>13 DEF AgentMerges, MergeInv
  <2> QED BY <1>1, <1>11, <2>1
<1>14. CASE AgentKilled
  <2>1. (ref' = Committed \/ ref' = ref) /\ current \in Task
    BY <1>14 DEF AgentKilled, MergeInv
  <2> QED BY <1>1, <1>11, <2>1
<1>15. CASE AgentFails
  <2>1. (ref' = Committed \/ ref' = ref) /\ current \in Task
    BY <1>15 DEF AgentFails, MergeInv
  <2> QED BY <1>1, <1>11, <2>1
<1>16. ASSUME \/ \E t \in Task : StartMerge(t)
              \/ Signal \/ Crash \/ Restart
              \/ Recover \/ RemoveRebase \/ RecoverMerge \/ DetectBase \/ CheckoutBase
              \/ RebaseFails \/ ReturnToBase \/ Verify \/ Confirm
              \/ Cancelled \/ CancelMerge \/ CancelCheckout
              \/ RebaseAborted \/ OntoBase \/ MergeRefused \/ MergeConflicts
              \/ MergeAborted
              \/ UNCHANGED vars
       PROVE  ref' = ref
  BY <1>16 DEF StartMerge, Signal, Crash, Restart, Recover, RemoveRebase, RecoverMerge,
     DetectBase, CheckoutBase, RebaseFails, ReturnToBase, Verify, Confirm, Cancelled,
     CancelMerge, CancelCheckout, RebaseAborted, OntoBase, MergeRefused, MergeConflicts,
     MergeAborted, vars, git
<1> QED
  BY <1>1, <1>4, <1>5, <1>6, <1>7, <1>8, <1>9, <1>10, <1>12, <1>13, <1>14, <1>15, <1>16
     DEF Next, MergeSync


\* What is not a history: HEAD, the state git has stopped in, and the merge.
MergeTypeOK ==
  /\ head \in Ref
  /\ rebasing \in Task \cup {None}
  /\ merging \in BOOLEAN
  /\ base \in Base \cup {None}
  /\ pc \in Step
  /\ current \in IF pc \in {"idle", "down"} THEN {None} ELSE Task
  /\ result \in BOOLEAN
  /\ shut \in BOOLEAN /\ hit \in BOOLEAN

LEMMA MergeTypeStep == TypeOK /\ MergeInv /\ [Next]_vars => MergeTypeOK'
<1> SUFFICES ASSUME TypeOK, MergeInv, [Next]_vars
             PROVE  MergeTypeOK'
  OBVIOUS
<1>0. MergeTypeOK
  BY DEF TypeOK, MergeTypeOK
<1> USE DEF MergeTypeOK
<1>1. ASSUME NEW t \in Task, Launch(t) PROVE MergeTypeOK'
  BY <1>0, <1>1 DEF Launch, merger
<1>2. ASSUME NEW t \in Task, AgentCommits(t) PROVE MergeTypeOK'
  BY <1>0, <1>2 DEF AgentCommits, merger
<1>3. ASSUME NEW t \in Task, StartMerge(t) PROVE MergeTypeOK'
  BY <1>0, <1>3 DEF StartMerge, git, Step, Commands
<1>4. CASE MergeReturns
  BY <1>0, <1>4 DEF MergeReturns, Step
<1>5. CASE Signal
  BY <1>0, <1>5 DEF Signal, git, merger, Step
<1>6. CASE Crash
  BY <1>0, <1>6 DEF Crash, git, Step
<1>7. CASE Restart
  BY <1>0, <1>7 DEF Restart, git, Step
<1>8. CASE Recover
  BY <1>0, <1>8 DEF Recover, Goto, MergeInv, Step, Commands, CleanUp, Ref, Base
<1>9. CASE CheckoutBase
  BY <1>0, <1>9 DEF CheckoutBase, Goto, MergeInv, Step, Commands, CleanUp, Ref, Base
<1>10. CASE RebaseBegins
  BY <1>0, <1>10 DEF RebaseBegins, merger, MergeInv, Step, Commands, CleanUp, Ref, Base
<1>11. CASE RebaseEnds
  BY <1>0, <1>11 DEF RebaseEnds, Goto, MergeInv, Step, Commands, CleanUp, Ref, Base
<1>12. CASE RebaseFails
  BY <1>0, <1>12 DEF RebaseFails, git, Goto, MergeInv, Step, Commands, CleanUp, Ref, Base
<1>13. CASE ReturnToBase
  BY <1>0, <1>13 DEF ReturnToBase, Goto, MergeInv, Step, Commands, CleanUp, Ref, Base
<1>14. CASE FastForward
  BY <1>0, <1>14 DEF FastForward, Return, Goto, MergeInv, Step, Commands, CleanUp, Ref, Base
<1>15. CASE Verify
  BY <1>0, <1>15 DEF Verify, git, Goto, MergeInv, Step, Commands, CleanUp, Ref, Base
<1>16. CASE Reset
  BY <1>0, <1>16 DEF Reset, Return, Goto, MergeInv, Step, Commands, CleanUp, Ref, Base
<1>17. CASE Confirm
  <2>1. result' \in BOOLEAN
    BY <1>17, Zenon DEF Confirm, Return, IsAncestor
  <2>2. /\ pc = "confirm" /\ pc' = "returned" /\ hit' = FALSE
        /\ UNCHANGED <<head, rebasing, merging, base, current, shut>>
    BY <1>17 DEF Confirm, git, Return, Goto
  <2>3. pc' \in Step /\ current' \in Task /\ pc' \notin {"idle", "down"} /\ hit' \in BOOLEAN
    BY <1>0, <2>2 DEF Step, Commands
  <2> QED BY <1>0, <2>1, <2>2, <2>3
<1>18. CASE Cancelled
  BY <1>0, <1>18 DEF Cancelled, Goto, MergeInv, Step, Commands, CleanUp, Ref, Base
<1>19. CASE RebaseAborted
  BY <1>0, <1>19 DEF RebaseAborted, Goto, MergeInv, Step, Commands, CleanUp, Ref, Base
<1>20. CASE OntoBase
  BY <1>0, <1>20 DEF OntoBase, Goto, MergeInv, Step, Commands, CleanUp, Ref, Base
<1>21. CASE MergeCommits
  BY <1>0, <1>21 DEF MergeCommits, Goto, MergeInv, Step, Commands, CleanUp, Ref, Base
<1>22. CASE MergeRefused
  BY <1>0, <1>22 DEF MergeRefused, git, Return, Goto, MergeInv, Step, Commands, CleanUp, Ref, Base
<1>23. CASE MergeConflicts
  BY <1>0, <1>23 DEF MergeConflicts, Goto, MergeInv, Step, Commands, CleanUp, Ref, Base
<1>24. CASE AgentMerges
  BY <1>0, <1>24 DEF AgentMerges, Goto, MergeInv, Step, Commands, CleanUp, Ref, Base
<1>25. CASE AgentFails
  BY <1>0, <1>25 DEF AgentFails, Goto, MergeInv, Step, Commands, CleanUp, Ref, Base
<1>26. CASE AgentKilled
  BY <1>0, <1>26 DEF AgentKilled, Goto, MergeInv, Step, Commands, CleanUp, Ref, Base
<1>27. CASE UNCHANGED vars
  BY <1>0, <1>27 DEF vars, git, merger
<1>28. CASE RemoveRebase
  BY <1>0, <1>28 DEF RemoveRebase, Goto, MergeInv, Step, Commands, CleanUp, Ref, Base
<1>29. CASE RecoverMerge
  BY <1>0, <1>29 DEF RecoverMerge, Goto, MergeInv, Step, Commands, CleanUp, Ref, Base
<1>30. CASE DetectBase
  BY <1>0, <1>30, DetectedIsBase
     DEF DetectBase, git, Goto, MergeInv, Step, Commands, CleanUp, Ref, Base
<1>31. CASE CancelMerge
  BY <1>0, <1>31 DEF CancelMerge, Goto, MergeInv, Step, Commands, CleanUp, Ref, Base
<1>32. CASE CancelCheckout
  BY <1>0, <1>32 DEF CancelCheckout, Return, Goto, MergeInv, Step, Commands, CleanUp, Ref, Base
<1>33. CASE MergeAborted
  BY <1>0, <1>33 DEF MergeAborted, Return, Goto, MergeInv, Step, Commands, CleanUp, Ref, Base
<1> QED
  BY <1>1, <1>2, <1>3, <1>4, <1>5, <1>6, <1>7, <1>8, <1>9, <1>10, <1>11, <1>12, <1>13,
     <1>14, <1>15, <1>16, <1>17, <1>18, <1>19, <1>20, <1>21, <1>22, <1>23, <1>24, <1>25,
     <1>26, <1>27, <1>28, <1>29, <1>30, <1>31, <1>32, <1>33 DEF Next, MergeSync

LEMMA TaskTypeStep ==
  TypeOK /\ MergeInv /\ [Next]_vars =>
    (/\ stage \in [Task -> {"pending", "running", "completed", "failed"}]
     /\ made \in [Task -> 0..MaxCommits]
     /\ launches \in [Task -> 0..MaxMerges]
     /\ sessions \in 1..MaxSessions)'
<1> DEFINE Typed == /\ stage \in [Task -> {"pending", "running", "completed", "failed"}]
                    /\ made \in [Task -> 0..MaxCommits]
                    /\ launches \in [Task -> 0..MaxMerges]
                    /\ sessions \in 1..MaxSessions
<1> SUFFICES ASSUME TypeOK, MergeInv, [Next]_vars PROVE Typed'
  OBVIOUS
<1>0. Typed
  BY DEF TypeOK
<1>1. ASSUME NEW t \in Task, Launch(t) PROVE Typed'
  BY <1>0, <1>1, GitAssumption DEF Launch
<1>2. ASSUME NEW t \in Task, AgentCommits(t) PROVE Typed'
  BY <1>0, <1>2, GitAssumption DEF AgentCommits
<1>3. CASE MergeReturns
  BY <1>0, <1>3 DEF MergeReturns, MergeInv
<1>4. CASE Restart
  BY <1>0, <1>4, GitAssumption DEF Restart
<1>5. ASSUME \/ \E t \in Task : StartMerge(t)
             \/ Signal \/ Crash \/ MergeSync \/ UNCHANGED vars
      PROVE  UNCHANGED <<tasks, sessions>>
  BY <1>5 DEF StartMerge, Signal, Crash, vars, MergeSync, Return, Goto, Recover,
     RemoveRebase, RecoverMerge, DetectBase, CheckoutBase, RebaseBegins, RebaseEnds,
     RebaseFails, ReturnToBase, FastForward, Verify, Reset, Confirm, Cancelled,
     CancelMerge, CancelCheckout, RebaseAborted, OntoBase, MergeCommits, MergeRefused,
     MergeConflicts, AgentMerges, AgentFails, MergeAborted, AgentKilled
<1>6. UNCHANGED <<tasks, sessions>> => Typed'
  BY <1>0 DEF tasks
<1> QED
  BY <1>1, <1>2, <1>3, <1>4, <1>5, <1>6 DEF Next

\* Base detection, the commands, the agents and the loop leave HEAD on a ref, each
\* ref with a history of commits of tasks, and a task in the merge while, and only
\* while, _merge_sync has not returned.
THEOREM TypeCorrect == Spec => []TypeOK
<1>1. TypeOK /\ MergeInv /\ [Next]_vars => TypeOK'
  BY HistoriesStep, MergeTypeStep, TaskTypeStep DEF TypeOK, MergeTypeOK
<1> QED
  BY InitTypeOK, MergesAreSafe, <1>1, PTL DEF Spec


-----------------------------------------------------------------------------
(* The work of a branch *)

\* What BranchKeepsWork asks of one task in one step.
Keeps(t) ==
  ~shut => \/ Patches(ref[t]) \subseteq Patches(ref'[t])
           \/ Patches(ref[t]) \subseteq Patches(ref'[base])

\* A command that writes the base branch only leaves the branches alone.
LEMMA OnlyBase ==
  ASSUME TypeOK, MergeInv,
         pc \in {"ff", "verify", "reset", "confirm", "merge", "agent", "returned"},
         \A r \in Ref \ {head} : ref'[r] = ref[r],
         NEW t \in Task
  PROVE  Keeps(t)
<1> SUFFICES ASSUME ~shut PROVE Patches(ref[t]) \subseteq Patches(ref'[t])
  BY DEF Keeps
<1>1. head = base /\ base \in Base
  BY DEF MergeInv
<1>2. t \in Ref \ {head}
  BY <1>1, GitAssumption DEF Ref, Base
<1> QED BY <1>2

LEMMA KeepStep ==
  ASSUME TypeOK, MergeInv, Next, NEW t \in Task PROVE Keeps(t)
<1>0. /\ ref \in [Ref -> Seq(SUBSET Patch)] /\ head \in Ref /\ t \in Ref
      /\ ref[t] \in Seq(SUBSET Patch)
  BY DEF TypeOK, Ref
<1>1. ASSUME ref'[t] = ref[t] PROVE Keeps(t)
  BY <1>1 DEF Keeps
<1>2. ASSUME NEW u \in Task, Launch(u) PROVE Keeps(t)
  <2>1. CASE ref[t] = << >>
    <3>1. Patches(ref[t]) = {}
      BY <2>1, <1>0, PatchesOf
    <3> QED BY <3>1 DEF Keeps
  <2>2. CASE ref[t] # << >>
    BY <1>0, <1>1, <1>2, <2>2 DEF Launch
  <2> QED BY <2>1, <2>2
<1>3. ASSUME NEW u \in Task, AgentCommits(u) PROVE Keeps(t)
  <2>1. CASE u # t
    BY <1>0, <1>1, <1>3, <2>1 DEF AgentCommits
  <2>2. CASE u = t
    <3> DEFINE c == {<<t, made[t] + 1>>}
    <3>1. c \in SUBSET Patch
      BY <1>3, <2>2, GitAssumption DEF AgentCommits, Patch, TypeOK
    <3>2. ref'[t] = Append(ref[t], c)
      BY <1>0, <1>3, <2>2 DEF AgentCommits
    <3> HIDE DEF c
    <3>3. Patches(ref'[t]) = Patches(ref[t]) \cup c
      BY <1>0, <3>1, <3>2, PatchesOfAppend
    <3> QED BY <3>3 DEF Keeps
  <2> QED BY <2>1, <2>2
<1>4. CASE MergeReturns
  <2> SUFFICES ASSUME ~shut, result PROVE Keeps(t)
    BY <1>1, <1>4 DEF MergeReturns, Keeps
  <2>1. /\ current \in Task /\ base \in Base
        /\ Patches(ref[current]) \subseteq Patches(ref[base])
    BY <1>4 DEF MergeReturns, MergeInv, SuccessHasLanded, IsAncestor
  <2>2. ref' = [ref EXCEPT ![current] = << >>]
    BY <1>4 DEF MergeReturns
  <2>3. CASE t # current
    BY <1>0, <1>1, <2>2, <2>3
  <2>4. CASE t = current
    <3>1. base \in Ref /\ base # current
      BY <2>1, GitAssumption DEF Ref, Base
    <3>2. ref'[base] = ref[base]
      BY <1>0, <2>2, <3>1
    <3> QED BY <2>1, <2>4, <3>2 DEF Keeps
  <2> QED BY <2>3, <2>4
<1>5. CASE RebaseBegins
  <2>1. \A r \in Ref \ {Detached} : ref'[r] = ref[r]
    BY <1>0, <1>5 DEF RebaseBegins
  <2> QED BY <1>0, <1>1, <2>1, GitAssumption
<1>6. CASE RebaseEnds
  <2>1. CASE t # current
    BY <1>0, <1>1, <1>6, <2>1 DEF RebaseEnds
  <2>2. CASE t = current
    <3>1. base \in Ref
      BY <1>6 DEF RebaseEnds, MergeInv, Ref
    <3>2. ref[base] \in Seq(SUBSET Patch)
      BY <1>0, <3>1
    <3>3. ref'[t] = Rebased(ref[t], ref[base])
      BY <1>0, <1>6, <2>2 DEF RebaseEnds
    <3>4. Patches(ref[t]) \subseteq Patches(ref'[t])
      BY <1>0, <3>2, <3>3, RebasedIsHistory
    <3> QED BY <3>4 DEF Keeps
  <2> QED BY <2>1, <2>2
<1>7. CASE FastForward
  <2>1. \A r \in Ref \ {head} : ref'[r] = ref[r]
    BY <1>0, <1>7 DEF FastForward
  <2> QED BY <1>7, <2>1, OnlyBase DEF FastForward
<1>8. CASE Reset
  <2>1. \A r \in Ref \ {head} : ref'[r] = ref[r]
    BY <1>0, <1>8 DEF Reset
  <2> QED BY <1>8, <2>1, OnlyBase DEF Reset
<1>9. ASSUME ref' = Committed \/ ref' = ref, pc \in {"merge", "agent"} PROVE Keeps(t)
  <2>1. current \in Task
    BY <1>9 DEF MergeInv
  <2>2. \A r \in Ref \ {head} : ref'[r] = ref[r]
    BY <1>0, <1>9, <2>1, CommittedIsHistory
  <2> QED BY <1>9, <2>2, OnlyBase
<1>10. CASE MergeCommits
  BY <1>9, <1>10 DEF MergeCommits
<1>11. CASE AgentMerges
  BY <1>9, <1>11 DEF AgentMerges
<1>12. CASE AgentKilled
  BY <1>9, <1>12 DEF AgentKilled
<1>13. CASE AgentFails
  BY <1>9, <1>13 DEF AgentFails
<1>14. ASSUME \/ \E u \in Task : StartMerge(u)
              \/ Signal \/ Crash \/ Restart
              \/ Recover \/ RemoveRebase \/ RecoverMerge \/ DetectBase \/ CheckoutBase
              \/ RebaseFails \/ ReturnToBase \/ Verify \/ Confirm
              \/ Cancelled \/ CancelMerge \/ CancelCheckout
              \/ RebaseAborted \/ OntoBase \/ MergeRefused \/ MergeConflicts
              \/ MergeAborted
       PROVE  ref' = ref
  BY <1>14 DEF StartMerge, Signal, Crash, Restart, Recover, RemoveRebase, RecoverMerge,
     DetectBase, CheckoutBase, RebaseFails, ReturnToBase, Verify, Confirm, Cancelled,
     CancelMerge, CancelCheckout, RebaseAborted, OntoBase, MergeRefused, MergeConflicts,
     MergeAborted, git
<1> QED
  BY <1>1, <1>2, <1>3, <1>4, <1>5, <1>6, <1>7, <1>8, <1>10, <1>11, <1>12, <1>13, <1>14
     DEF Next, MergeSync

\* The commits of a branch stay on it until the base holds them: no recovery, no
\* rebase, no failed or killed merge takes them away (_merge_sync, and the
\* loop that deletes the branch on its answer).
THEOREM WorkStays == Spec => BranchKeepsWork
<1>1. TypeOK /\ MergeInv /\ [Next]_vars
        => [\A t \in Task :
              ~shut => \/ Patches(ref[t]) \subseteq Patches(ref'[t])
                       \/ Patches(ref[t]) \subseteq Patches(ref'[base])]_vars
  BY KeepStep DEF Keeps
<1> QED
  BY TypeCorrect, MergesAreSafe, <1>1, PTL DEF Spec, BranchKeepsWork

===============================================================================

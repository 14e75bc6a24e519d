----------------------------- MODULE SpecGenProofs -----------------------------
(***************************************************************************)
(* Proofs about SpecGen, for pipes of any capacity and any amount of       *)
(* output: a call that fails has read all that claude wrote to its         *)
(* standard error, and claude is left running only where the handler of    *)
(* KeyboardInterrupt does not reach, or is interrupted itself.             *)
(***************************************************************************)
EXTENDS SpecGen, TLAPS

\* The tuples of variables are always expanded.
USE DEF command, process, collected, reading, vars

LEMMA InitTypeOK == Init => TypeOK
<1> SUFFICES ASSUME Init PROVE TypeOK
  OBVIOUS
<1>1. /\ stage = "start" /\ call = "none" /\ child = "none" /\ drain = "none"
      /\ answer = "none" /\ holds = {} /\ file \in BOOLEAN /\ cut = "no"
  BY DEF Init
<1>2. exitCode \in 0..1 /\ errors \in 0..MaxOutput /\ partial \in 0..MaxOutput /\ revisions \in 0..MaxRevisions
  BY BoundAssumption DEF Init
<1>3. left \in [Pipe -> 0..MaxOutput] /\ pipe \in [Pipe -> 0..Capacity]
  BY BoundAssumption DEF Init
<1> QED BY <1>1, <1>2, <1>3 DEF TypeOK, Stage, Answer

\* Of what the child has to write to its standard error nothing is counted twice:
\* what was read, what is in the pipe and what is still to come.
Told == errors + partial + pipe["err"] + left["err"] <= MaxOutput

\* Where the threads are tells how far the child is; when no call is on, it has gone
\* and all was read, unless the call was cut short.
IInv ==
  /\ Told
  /\ call # "none" => child # "none"
  /\ call = "waiting" => child \in {"mute", "exited"}
  /\ call = "joining" => child = "exited"
  /\ call \notin {"none", "spawned"} => drain # "none"
  /\ drain = "ended" => child = "exited" /\ pipe["err"] = 0 /\ partial = 0
  /\ call = "none" /\ cut = "no" => child \in {"none", "exited"}
  /\ call = "none" /\ cut = "no" /\ stage # "interrupted" =>
       /\ pipe["err"] = 0
       /\ drain = "none" => partial = 0
  /\ cut # "no" => call = "none" /\ stage \in {"failed", "interrupted"}
  /\ cut = "late" => child \in {"mute", "exited"}

LEMMA TypeStep == TypeOK /\ Told /\ [Next]_vars => TypeOK' /\ Told'
<1> SUFFICES ASSUME TypeOK, Told, [Next]_vars PROVE TypeOK' /\ Told'
  OBVIOUS
<1> USE BoundAssumption DEF TypeOK, Told, Stage, Answer, Over
<1>0. "err" \in Pipe /\ "out" \in Pipe /\ "err" # "out"
  BY DEF Pipe
<1>1. CASE Start \/ Accept \/ Revise
  BY <1>1 DEF Start, Accept, Revise
<1>2. CASE Spawn
  BY <1>2, <1>0 DEF Spawn, Calls
<1>3. CASE SpawnFails
  BY <1>3 DEF SpawnFails, Calls
<1>4. CASE Check \/ PlanSpec
  <2>1. CASE Check
    BY <2>1 DEF Check
  <2>2. CASE PlanSpec
    BY <2>2 DEF PlanSpec
  <2> QED BY <1>4, <2>1, <2>2
<1>5. CASE MainReads
  BY <1>5, <1>0 DEF MainReads
<1>6. CASE OutputEnds \/ WaitReturns
  BY <1>6 DEF OutputEnds, WaitReturns
<1>7. CASE Joined
  BY <1>7 DEF Joined, Returns
<1>8. CASE DrainReads
  <2>1. errors \in Nat /\ partial \in Nat /\ pipe["err"] \in Nat /\ left["err"] \in Nat
    BY <1>0
  <2>2. /\ pipe' = [pipe EXCEPT !["err"] = @ - 1] /\ pipe["err"] > 0 /\ left' = left
        /\ \/ errors' = errors + partial + 1 /\ partial' = 0
           \/ partial' = partial + 1 /\ errors' = errors
    BY <1>8 DEF DrainReads, ReadsError
  <2>3. pipe' \in [Pipe -> 0..Capacity] /\ pipe'["err"] = pipe["err"] - 1
    BY <2>2, <1>0
  <2>4. errors' \in 0..MaxOutput /\ partial' \in 0..MaxOutput /\ Told'
    BY <2>1, <2>2, <2>3
  <2> QED BY <1>8, <2>3, <2>4 DEF DrainReads, ReadsError
<1>9. CASE DrainEnds
  <2>1. errors \in Nat /\ partial \in Nat /\ pipe["err"] \in Nat /\ left["err"] \in Nat
    BY <1>0
  <2>2. errors' = errors + partial /\ partial' = 0 /\ UNCHANGED <<pipe, left>>
    BY <1>9 DEF DrainEnds
  <2>3. errors' \in 0..MaxOutput /\ partial' \in 0..MaxOutput /\ Told'
    BY <2>1, <2>2
  <2> QED BY <1>9, <2>3 DEF DrainEnds
<1>10. ASSUME NEW p \in Pipe, ChildWrites(p) PROVE TypeOK' /\ Told'
  <2>1. /\ left' = [left EXCEPT ![p] = @ - 1] /\ pipe' = [pipe EXCEPT ![p] = @ + 1]
        /\ left[p] > 0 /\ pipe[p] < Capacity
    BY <1>10 DEF ChildWrites
  <2>2. left' \in [Pipe -> 0..MaxOutput] /\ pipe' \in [Pipe -> 0..Capacity]
    BY <2>1
  <2>3. Told'
    <3>1. left'["err"] + pipe'["err"] = left["err"] + pipe["err"]
      BY <2>1, <1>0
    <3>2. errors' = errors /\ partial' = partial
      BY <1>10 DEF ChildWrites
    <3> QED BY <3>1, <3>2, <2>2, <1>0
  <2> QED BY <1>10, <2>2, <2>3 DEF ChildWrites
<1>11. CASE ChildCloses \/ ChildExits
  <2>1. holds' \in SUBSET Pipe /\ exitCode' \in 0..1
    BY <1>11 DEF ChildCloses, ChildExits, Pipe
  <2>2. UNCHANGED <<command, reading, left, pipe, cut>>
    BY <1>11 DEF ChildCloses, ChildExits
  <2>3. child' \in {"mute", "exited"}
    BY <1>11 DEF ChildCloses, ChildExits
  <2> QED BY <2>1, <2>2, <2>3
<1>12. CASE RestEnds
  BY <1>12 DEF RestEnds
<1>13. CASE Interrupting
  BY <1>13 DEF Interrupting, Interrupt, InterruptAgain, InterruptUnhandled, Leaves
<1>14. CASE UNCHANGED vars
  BY <1>14
<1>15. CASE Prepared
  BY <1>15 DEF Prepared
<1>16. CASE Raising
  BY <1>16 DEF Raising, PrepareFails, ReadRaises, Leaves
<1>17. CASE Stopped
  BY <1>17 DEF Stopped, Leaves
<1> QED
  BY <1>1, <1>2, <1>3, <1>4, <1>5, <1>6, <1>7, <1>8, <1>9, <1>10, <1>11, <1>12, <1>13,
     <1>14, <1>15, <1>16, <1>17 DEF Next, Reading, Draining, Child

LEMMA InvStep == TypeOK /\ IInv /\ [Next]_vars => IInv'
<1> SUFFICES ASSUME TypeOK, IInv, [Next]_vars PROVE IInv'
  OBVIOUS
<1>0. Told' /\ "err" \in Pipe /\ "out" \in Pipe /\ "err" # "out"
  BY TypeStep DEF Pipe, IInv
<1> USE BoundAssumption, <1>0 DEF TypeOK, IInv, Ended
<1>1. CASE Start \/ Accept \/ Revise
  BY <1>1 DEF Start, Accept, Revise
<1>2. CASE Spawn
  BY <1>2 DEF Spawn, Calls
<1>3. CASE SpawnFails
  BY <1>3 DEF SpawnFails, Calls
<1>4. CASE Check \/ PlanSpec
  BY <1>4 DEF Check, PlanSpec
<1>5. CASE MainReads
  BY <1>5 DEF MainReads
<1>6. CASE OutputEnds \/ WaitReturns
  BY <1>6 DEF OutputEnds, WaitReturns
<1>7. CASE Joined
  BY <1>7 DEF Joined, Returns
<1>8. CASE DrainReads
  BY <1>8 DEF DrainReads, ReadsError
<1>9. CASE DrainEnds
  BY <1>9 DEF DrainEnds
<1>10. ASSUME NEW p \in Pipe, ChildWrites(p) PROVE IInv'
  BY <1>10 DEF ChildWrites
<1>11. CASE ChildCloses \/ ChildExits
  BY <1>11 DEF ChildCloses, ChildExits
<1>12. CASE RestEnds
  BY <1>12 DEF RestEnds
<1>13. CASE Interrupting
  BY <1>13 DEF Interrupting, Interrupt, InterruptAgain, InterruptUnhandled, Leaves
<1>14. CASE UNCHANGED vars
  BY <1>14
<1>15. CASE Prepared
  BY <1>15 DEF Prepared
<1>16. CASE Raising
  BY <1>16 DEF Raising, PrepareFails, ReadRaises, Leaves
<1>17. CASE Stopped
  BY <1>17 DEF Stopped, Leaves
<1> QED
  BY <1>1, <1>2, <1>3, <1>4, <1>5, <1>6, <1>7, <1>8, <1>9, <1>10, <1>11, <1>12, <1>13,
     <1>14, <1>15, <1>16, <1>17 DEF Next, Reading, Draining, Child

LEMMA Invariant == Spec => [](TypeOK /\ IInv)
<1>1. Init => TypeOK /\ IInv
  BY InitTypeOK, BoundAssumption DEF Init, IInv, Told, Pipe
<1>2. TypeOK /\ IInv /\ [Next]_vars => (TypeOK /\ IInv)'
  BY TypeStep, InvStep DEF IInv
<1> QED BY <1>1, <1>2, PTL DEF Spec

\* The stage of the command, its call of claude and the two threads go together.
THEOREM TypeCorrect == Spec => []TypeOK
BY Invariant, PTL

\* A call that fails on what claude answered has read all of its standard error,
\* though another thread reads it and the wait for that thread may run out; only a
\* last line without an end may be missing in the message (_invoke_claude).
THEOREM FailuresAreTold == Spec => []ErrorsAreTold
<1>1. TypeOK /\ IInv => ErrorsAreTold
  BY DEF TypeOK, IInv, ErrorsAreTold
<1> QED BY Invariant, <1>1, PTL

\* `po init` leaves a claude running only after an error or a Ctrl-C between its
\* spawn and the try, an exception in the reading, or a second Ctrl-C in the handler;
\* past the reading, Ctrl-C leaves only one that has closed its output
\* (_invoke_claude).
THEOREM ClaudeIsStopped == Spec => []NoneLeftBehind
<1>1. TypeOK /\ IInv => NoneLeftBehind
  BY DEF TypeOK, IInv, NoneLeftBehind, Over
<1> QED BY Invariant, <1>1, PTL

================================================================================

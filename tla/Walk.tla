--------------------------------- MODULE Walk ---------------------------------
(***************************************************************************)
(* The breadth-first walk of cancel_dependents and of reset_task (src/po/  *)
(* db/queries.py), row by row.  Both read all rows first and write what    *)
(* they have visited in one transaction, so nothing comes between.  The    *)
(* rows need not be those of a plan: a save that was cut short may leave   *)
(* cycles.                                                                 *)
(***************************************************************************)
EXTENDS Naturals, FiniteSets, Sequences, Reach

CONSTANT Task  \* the ids of the rows

VARIABLES
  root,      \* task_id
  eligible,  \* rows in a status that the walk goes on from: all_tasks is read once
  start,     \* the first value of seen: none for to_cancel, task_id for a reset
  seen,      \* to_cancel, or seen
  queue,     \* queue
  current,   \* current, the row popped last
  rest       \* the rows that the inner loop has still to look at

vars == <<root, eligible, start, seen, queue, current, rest>>

TypeOK ==
  /\ root \in Task
  /\ eligible \in SUBSET Task
  /\ start \in {{}, {root}}
  /\ seen \in SUBSET Task
  /\ queue \in Seq(Task)
  /\ current \in Task
  /\ rest \in SUBSET Task

Init ==
  /\ root \in Task
  /\ eligible \in SUBSET Task
  /\ start \in {{}, {root}}
  /\ seen = start
  /\ queue = <<root>>
  /\ current = root
  /\ rest = {}

\* current = queue.pop(0)
Pop ==
  /\ rest = {}
  /\ queue # << >>
  /\ current' = Head(queue)
  /\ queue' = Tail(queue)
  /\ rest' = Task
  /\ UNCHANGED <<root, eligible, start, seen>>

\* Is the row one to visit now?
Found(x) == current \in Deps[x] /\ x \notin seen /\ x \in eligible

\* One round of `for task in all_tasks`, in any order.
LookAt(x) ==
  /\ x \in rest
  /\ rest' = rest \ {x}
  /\ \/ /\ Found(x)
        /\ seen' = seen \cup {x}
        /\ queue' = Append(queue, x)
     \/ ~Found(x) /\ UNCHANGED <<seen, queue>>
  /\ UNCHANGED <<root, eligible, start, current>>

Next == Pop \/ \E x \in Task : LookAt(x)

Spec == Init /\ [][Next]_vars

-----------------------------------------------------------------------------
(* What the walks promise *)

\* cancel_dependents, "Cancel all tasks that transitively depend on the given task":
\* when the queue is empty the walk has visited the dependents, no more and no
\* fewer, whatever cycles there are, and though a row is never visited twice.
VisitsDependents ==
  queue = << >> /\ rest = {} =>
    seen = start \cup Dependents(root, eligible \ start)

\* Rows to come: those not visited yet, and those waiting in the queue.
Ahead == Cardinality(eligible \ seen) + Len(queue)

\* The walk ends, on cycles too: every pop leaves one row less to come, and
\* between two pops each row is looked at once.
EachStepCounts ==
  [][\/ Ahead' = Ahead - 1
     \/ Ahead' = Ahead /\ Cardinality(rest') = Cardinality(rest) - 1]_vars

===============================================================================

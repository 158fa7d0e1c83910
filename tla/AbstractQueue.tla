--------------------------- MODULE AbstractQueue ---------------------------
(***************************************************************************)
(* What the jobs expect of a task queue (tools/fifo): items leave it in the*)
(* order in which they were added, and only an empty queue answers nil.    *)
(***************************************************************************)
EXTENDS Sequences

CONSTANTS Items, nil

VARIABLES
  queue,      \* the items waiting
  returned    \* what the last call of Next returned

Init == queue = <<>> /\ returned = nil

Add(item) == queue' = Append(queue, item) /\ UNCHANGED returned

Next ==
  \/ queue = <<>> /\ returned' = nil /\ UNCHANGED queue
  \/ queue # <<>> /\ returned' = Head(queue) /\ queue' = Tail(queue)

Spec == Init /\ [][Next \/ \E item \in Items : Add(item)]_<<queue, returned>>

=============================================================================

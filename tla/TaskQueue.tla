------------------------------ MODULE TaskQueue ------------------------------
(***************************************************************************)
(* How a job of the worker hands tasks from its producer to the consumer of*)
(* a chain (swap.go, stable.go, replace.go, verify.go): the producer reads *)
(* the swaps to work on from the database, skips those whose key is in the *)
(* in-queue set (swapTasksInQueue, stableTasksInQueue, ...), adds the task *)
(* to the fifo queue and then its key to the set.  The consumer takes a    *)
(* task, works on it, and removes the key at the end.                      *)
(*                                                                         *)
(* Queue and set are each thread safe, but nothing covers both calls of the*)
(* producer: dispatching is two steps.  What a task does is abstracted to  *)
(* whether its swap still has to be worked on afterwards.                  *)
(***************************************************************************)
EXTENDS Integers, Sequences, FiniteSets

(***************************************************************************)
(* tools/fifo: a queue made of chunks of chunkSize slots.  Items are added *)
(* at the last position of the tail chunk and taken from the first position*)
(* of the head chunk; a drained chunk is reset when nothing is left and    *)
(* dropped otherwise.  Every call holds the queue's lock, so Add and Next  *)
(* are atomic.  chunks holds those reachable from head; tail is the last.  *)
(***************************************************************************)
CONSTANTS
  Items,        \* what is queued
  nil,          \* no item
  chunkSize     \* slots of a chunk

ASSUME FifoAssumption == nil \notin Items /\ chunkSize \in Nat \ {0}

VARIABLES
  chunks,       \* the chunks from head to tail
  count,        \* number of items in the queue
  returned      \* what the last call of Next returned

fifoVars == <<chunks, count, returned>>

Slots == 0 .. chunkSize - 1

Chunk == [items : [Slots -> Items \cup {nil}], first : 0 .. chunkSize, last : 0 .. chunkSize]

newChunk == [items |-> [i \in Slots |-> nil], first |-> 0, last |-> 0]

NewQueue ==
  /\ chunks = <<newChunk>>
  /\ count = 0
  /\ returned = nil

headChunk == chunks[1]
tailChunk == chunks[Len(chunks)]

PutIn(chunk, item) ==
  [chunk EXCEPT !.items[chunk.last] = item, !.last = chunk.last + 1]

Add(item) ==
  /\ chunks' = IF tailChunk.last >= chunkSize
                 THEN Append(chunks, PutIn(newChunk, item))
                 ELSE [chunks EXCEPT ![Len(chunks)] = PutIn(@, item)]
  /\ count' = count + 1
  /\ UNCHANGED returned

\* Next has no item to return; the second condition carries a FIXME in the code.
NothingLeft == count = 0 \/ headChunk.first >= headChunk.last

\* Mutation: a drained chunk is reset although another one follows.
DropHead_AlwaysResets ==
  IF headChunk.first + 1 < headChunk.last THEN [chunks EXCEPT ![1].first = @ + 1]
  ELSE <<[headChunk EXCEPT !.first = 0, !.last = 0]>>

\* The chunks after the first position of the head chunk moved past its item.
DropHead ==
  IF headChunk.first + 1 < headChunk.last THEN [chunks EXCEPT ![1].first = @ + 1]
  ELSE IF count = 1 THEN <<[headChunk EXCEPT !.first = 0, !.last = 0]>>
  ELSE Tail(chunks)

Next ==
  \/ NothingLeft /\ returned' = nil /\ UNCHANGED <<chunks, count>>
  \/ /\ ~NothingLeft
     /\ returned' = headChunk.items[headChunk.first]
     /\ count' = count - 1
     /\ chunks' = DropHead

-----------------------------------------------------------------------------

VARIABLES
  todo,          \* keys of the swaps whose status makes the job work on them
  found,         \* keys of the current round the producer has not looked at yet
  adding,        \* key added to the queue and not yet to the set, or nil
  tasksInQueue,  \* the in-queue set
  current        \* the key of the task the consumer works on, or nil

vars == <<fifoVars, todo, found, adding, tasksInQueue, current>>

Init ==
  /\ NewQueue
  /\ todo = Items
  /\ found = {}
  /\ adding = nil
  /\ tasksInQueue = {}
  /\ current = nil

\* The producer queries the database for the swaps to work on.
Find ==
  /\ found = {} /\ adding = nil
  /\ todo # {}
  /\ found' = todo
  /\ UNCHANGED <<fifoVars, todo, adding, tasksInQueue, current>>

\* Mutation: the in-queue set is not consulted.
Dispatch_Always(key) ==
  /\ adding = nil
  /\ key \in found
  /\ found' = found \ {key}
  /\ Add(key)
  /\ adding' = key
  /\ UNCHANGED <<todo, tasksInQueue, current>>

\* "ignore swap in queue", or the swap is dispatched: the first of the two calls.
Dispatch(key) ==
  /\ adding = nil
  /\ key \in found
  /\ found' = found \ {key}
  /\ IF key \in tasksInQueue THEN UNCHANGED <<fifoVars, adding>>
                             ELSE Add(key) /\ adding' = key
  /\ UNCHANGED <<todo, tasksInQueue, current>>

DispatchDone ==
  /\ adding # nil
  /\ tasksInQueue' = tasksInQueue \cup {adding}
  /\ adding' = nil
  /\ UNCHANGED <<fifoVars, todo, found, current>>

\* The consumer calls Next, and sleeps when it answers nil.
Take ==
  /\ current = nil
  /\ Next
  /\ current' = returned'
  /\ UNCHANGED <<todo, found, adding, tasksInQueue>>

\* The task is done: the swap's status changed, or it is left for a later round.
Process ==
  /\ current # nil
  /\ \E done \in BOOLEAN : todo' = IF done THEN todo \ {current} ELSE todo
  /\ tasksInQueue' = tasksInQueue \ {current}
  /\ current' = nil
  /\ UNCHANGED <<fifoVars, found, adding>>

Step == Find \/ (\E key \in Items : Dispatch(key)) \/ DispatchDone \/ Take \/ Process

Spec == Init /\ [][Step]_vars

\* How many slots are between the first position of the head chunk and the last position
\* of the tail chunk, and what they hold, chunk after chunk.
Held(cs) == (Len(cs) - 1) * chunkSize + cs[Len(cs)].last - cs[1].first
ItemAt(cs, at) == cs[at \div chunkSize + 1].items[at % chunkSize]
Waiting(cs) == [k \in 1 .. Held(cs) |-> ItemAt(cs, cs[1].first + k - 1)]

-----------------------------------------------------------------------------
(* Properties *)

\* The chunked queue is a first in, first out queue: Add and Next of fifo.go keep the
\* order across chunk boundaries and across the reuse of a drained chunk.
Queue == INSTANCE AbstractQueue WITH queue <- Waiting(chunks)
ImplementsQueue == Queue!Spec

\* A swap is queued or worked on at most once at any time, so no job runs twice for
\* the same swap: the guarantee the in-queue set is kept for.
NoDuplicateTask ==
  LET w == Waiting(chunks) IN
    \A i \in 1 .. Len(w) : /\ w[i] # current
                           /\ \A j \in 1 .. Len(w) : w[i] = w[j] => i = j

=============================================================================

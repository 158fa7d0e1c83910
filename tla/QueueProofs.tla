----------------------------- MODULE QueueProofs -----------------------------
(***************************************************************************)
(* Proofs about TaskQueue for every set of tasks and every chunk size: the *)
(* chunked queue implements the abstract one, and no swap is queued or     *)
(* worked on twice.                                                        *)
(*                                                                         *)
(* The shape of the chunks carries the refinement: every chunk but the last*)
(* is full and every chunk but the first starts at its first slot, so the  *)
(* item at a distance from the head is found by division.                  *)
(***************************************************************************)
EXTENDS TaskQueue, SequenceTheorems, WellFoundedInduction, TLAPS

-----------------------------------------------------------------------------
(* Places in the chunks *)

\* Induction over the natural numbers, for sets.
LEMMA NatSet ==
  ASSUME NEW S, S \subseteq Nat, 0 \in S, \A n \in S : n + 1 \in S
  PROVE  S = Nat
<1> SUFFICES ASSUME Nat \ S # {} PROVE FALSE
  OBVIOUS
<1>1. \E x \in Nat \ S : \A y \in Nat \ S : ~(y < x)
  <2>1. PICK x \in Nat \ S : \A y \in Nat \ S : ~(<<y, x>> \in OpToRel(<, Nat))
    BY WFMin, NatLessThanWellFounded
  <2> QED BY <2>1 DEF OpToRel
<1>2. PICK x \in Nat \ S : \A y \in Nat \ S : ~(y < x)
  BY <1>1
<1>3. x - 1 \in Nat /\ x - 1 < x
  BY <1>2
<1>4. x - 1 \in S /\ (x - 1) + 1 = x
  BY <1>2, <1>3
<1> QED BY <1>4

\* Every distance leads to a slot of a chunk ...
LEMMA Split ==
  ASSUME NEW at \in Nat
  PROVE  \E c \in Nat, s \in Slots : at = c * chunkSize + s
<1> DEFINE S == {a \in Nat : \E c \in Nat, s \in Slots : a = c * chunkSize + s}
<1>1. 0 \in S
  <2>1. 0 \in Slots /\ 0 = 0 * chunkSize + 0
    BY FifoAssumption DEF Slots
  <2> QED BY <2>1
<1>2. ASSUME NEW a \in S PROVE a + 1 \in S
  <2>1. PICK c \in Nat, s \in Slots : a = c * chunkSize + s
    OBVIOUS
  <2>2. CASE s + 1 \in Slots
    <3>1. a + 1 = c * chunkSize + (s + 1)
      BY <2>1, FifoAssumption DEF Slots
    <3> QED BY <2>2, <3>1
  <2>3. CASE s + 1 \notin Slots
    <3>1. 0 \in Slots /\ a + 1 = (c + 1) * chunkSize + 0
      BY <2>1, <2>3, FifoAssumption DEF Slots
    <3> QED BY <3>1
  <2> QED BY <2>2, <2>3
<1>3. S = Nat
  <2> HIDE DEF S
  <2>1. S \subseteq Nat
    BY DEF S
  <2> QED BY <1>1, <1>2, <2>1, NatSet
<1> QED BY <1>3

\* ... and that slot is found by division.
LEMMA Place ==
  ASSUME NEW c \in Nat, NEW s \in Slots
  PROVE  (c * chunkSize + s) \div chunkSize = c /\ (c * chunkSize + s) % chunkSize = s
BY FifoAssumption DEF Slots

LEMMA ItemOfPlace ==
  ASSUME NEW cs, NEW c \in Nat, NEW s \in Slots
  PROVE  ItemAt(cs, c * chunkSize + s) = cs[c + 1].items[s]
BY Place DEF ItemAt

-----------------------------------------------------------------------------
(* The invariant *)

\* The chunks of a queue.
Shape(cs) ==
  /\ cs \in Seq(Chunk) /\ cs # <<>>
  /\ \A c \in 1 .. Len(cs) :
       /\ cs[c].first < cs[c].last \/ (Len(cs) = 1 /\ cs[c].first = 0 /\ cs[c].last = 0)
       /\ c > 1 => cs[c].first = 0
       /\ c < Len(cs) => cs[c].last = chunkSize

FifoInv ==
  /\ Shape(chunks)
  /\ count = Held(chunks)
  /\ \A k \in 1 .. Held(chunks) : Waiting(chunks)[k] \in Items
  /\ returned \in Items \cup {nil}

\* A task that waits or is worked on has its key in the in-queue set, or the producer is
\* about to add it.
Known(key) == key \in tasksInQueue \/ key = adding

TaskInv ==
  /\ todo \subseteq Items /\ found \subseteq Items /\ tasksInQueue \subseteq Items
  /\ adding \in Items \cup {nil} /\ current \in Items \cup {nil}
  /\ current # nil => Known(current)
  /\ \A k \in 1 .. Held(chunks) : Known(Waiting(chunks)[k])
  /\ NoDuplicateTask

Inv == FifoInv /\ TaskInv

-----------------------------------------------------------------------------
(* Add and Next of the chunked queue *)

\* A place before another one is in an earlier chunk or in an earlier slot.
LEMMA Before ==
  ASSUME NEW c \in Nat, NEW s \in Slots, NEW m \in Nat, NEW l \in 0 .. chunkSize,
         c * chunkSize + s < m * chunkSize + l
  PROVE  c < m \/ (c = m /\ s < l)
<1> SUFFICES ASSUME c > m PROVE FALSE
  BY FifoAssumption DEF Slots
<1>1. c - m - 1 \in Nat /\ (c - m - 1) * chunkSize \in Nat
  BY FifoAssumption
<1>2. c * chunkSize = (c - m - 1) * chunkSize + m * chunkSize + chunkSize
  BY FifoAssumption
<1> QED BY <1>1, <1>2, FifoAssumption DEF Slots

\* What is known of the chunks of a queue.
LEMMA ShapeFacts ==
  ASSUME NEW cs, Shape(cs)
  PROVE  /\ Len(cs) \in Nat \ {0} /\ cs \in [1 .. Len(cs) -> Chunk]
         /\ \A c \in 1 .. Len(cs) :
              /\ cs[c].items \in [Slots -> Items \cup {nil}]
              /\ cs[c].first \in Nat /\ cs[c].last \in 0 .. chunkSize /\ cs[c].first <= cs[c].last
         /\ Held(cs) \in Nat
         /\ cs[1].first + Held(cs) = (Len(cs) - 1) * chunkSize + cs[Len(cs)].last
<1>1. /\ Len(cs) \in Nat \ {0} /\ cs \in [1 .. Len(cs) -> Chunk]
      /\ \A c \in 1 .. Len(cs) :
           /\ cs[c].items \in [Slots -> Items \cup {nil}]
           /\ cs[c].first \in Nat /\ cs[c].last \in 0 .. chunkSize /\ cs[c].first <= cs[c].last
  <2>1. Len(cs) \in Nat \ {0} /\ cs \in [1 .. Len(cs) -> Chunk]
    BY EmptySeq, LenProperties DEF Shape
  <2>2. \A c \in 1 .. Len(cs) : cs[c] \in Chunk
    BY <2>1
  <2>3. ASSUME NEW c \in 1 .. Len(cs)
        PROVE  /\ cs[c].items \in [Slots -> Items \cup {nil}]
               /\ cs[c].first \in Nat /\ cs[c].last \in 0 .. chunkSize /\ cs[c].first <= cs[c].last
    <3>1. cs[c].items \in [Slots -> Items \cup {nil}] /\ cs[c].first \in 0 .. chunkSize
          /\ cs[c].last \in 0 .. chunkSize
      BY <2>2 DEF Chunk
    <3>2. cs[c].first < cs[c].last \/ (cs[c].first = 0 /\ cs[c].last = 0)
      BY DEF Shape
    <3> QED BY <3>1, <3>2, FifoAssumption
  <2> QED BY <2>1, <2>3
<1>2. CASE Len(cs) = 1
  BY <1>1, <1>2, FifoAssumption DEF Held
<1>3. CASE Len(cs) > 1
  <2>1. Len(cs) - 2 \in Nat /\ (Len(cs) - 2) * chunkSize \in Nat
    BY <1>1, <1>3, FifoAssumption
  <2>2. (Len(cs) - 1) * chunkSize = (Len(cs) - 2) * chunkSize + chunkSize
    BY <1>1, <1>3, FifoAssumption
  <2>3. cs[1].first \in 0 .. chunkSize /\ cs[Len(cs)].last \in Nat
    BY <1>1, FifoAssumption
  <2> DEFINE A == (Len(cs) - 1) * chunkSize
  <2>4. A \in Nat /\ A >= chunkSize
    BY <2>1, <2>2, FifoAssumption
  <2>5. Held(cs) = A + cs[Len(cs)].last - cs[1].first
    BY DEF Held
  <2> HIDE DEF A
  <2>6. Held(cs) \in Nat /\ cs[1].first + Held(cs) = A + cs[Len(cs)].last
    BY <2>3, <2>4, <2>5, FifoAssumption
  <2> QED BY <1>1, <2>6 DEF A
<1> QED BY <1>1, <1>2, <1>3

\* Where an item of the queue is.
LEMMA Located ==
  ASSUME NEW cs, Shape(cs), NEW at \in Nat, at < cs[1].first + Held(cs)
  PROVE  \E c \in 0 .. Len(cs) - 1, s \in Slots :
           /\ at = c * chunkSize + s
           /\ ItemAt(cs, at) = cs[c + 1].items[s]
           /\ c = Len(cs) - 1 => s < cs[Len(cs)].last
<1>1. PICK c \in Nat, s \in Slots : at = c * chunkSize + s
  BY Split
<1>2. c < Len(cs) - 1 \/ (c = Len(cs) - 1 /\ s < cs[Len(cs)].last)
  <2>1. Len(cs) - 1 \in Nat /\ cs[Len(cs)].last \in 0 .. chunkSize
    BY ShapeFacts
  <2>2. c * chunkSize + s < (Len(cs) - 1) * chunkSize + cs[Len(cs)].last
    BY <1>1, ShapeFacts
  <2> QED BY <2>1, <2>2, Before
<1>3. c \in 0 .. Len(cs) - 1
  BY <1>2, ShapeFacts
<1> QED BY <1>1, <1>2, <1>3, ItemOfPlace

\* The queue as a sequence.
LEMMA WaitingType ==
  ASSUME Shape(chunks), \A k \in 1 .. Held(chunks) : Waiting(chunks)[k] \in Items
  PROVE  Waiting(chunks) \in Seq(Items) /\ Len(Waiting(chunks)) = Held(chunks)
<1>1. Held(chunks) \in Nat
  BY ShapeFacts
<1>2. Waiting(chunks) \in [1 .. Held(chunks) -> Items]
  BY DEF Waiting
<1> QED BY <1>1, <1>2

\* fifo.go's Add appends the item, in the tail chunk or in a new one.
LEMMA AddOK ==
  ASSUME FifoInv, NEW item \in Items, Add(item)
  PROVE  /\ FifoInv' /\ Waiting(chunks') = Append(Waiting(chunks), item)
         /\ Held(chunks') = Held(chunks) + 1
<1> DEFINE n == Len(chunks)
           H == Held(chunks)
           f == chunks[1].first
           last == tailChunk.last
<1>1. /\ Shape(chunks) /\ n \in Nat \ {0} /\ H \in Nat /\ f \in Nat /\ last \in 0 .. chunkSize
      /\ chunks \in [1 .. n -> Chunk] /\ chunks \in Seq(Chunk)
      /\ tailChunk.items \in [Slots -> Items \cup {nil}] /\ tailChunk.first \in 0 .. chunkSize
      /\ tailChunk \in Chunk
  <2>1. Shape(chunks)
    BY DEF FifoInv
  <2>2. n \in Nat \ {0} /\ H \in Nat /\ chunks \in [1 .. n -> Chunk] /\ chunks \in Seq(Chunk)
    BY <2>1, ShapeFacts DEF Shape
  <2>3. tailChunk \in Chunk /\ chunks[1] \in Chunk
    BY <2>2 DEF tailChunk
  <2>5. f \in Nat /\ last \in 0 .. chunkSize /\ tailChunk.first \in 0 .. chunkSize
        /\ tailChunk.items \in [Slots -> Items \cup {nil}]
    BY <2>3, FifoAssumption DEF Chunk
  <2> QED BY <2>1, <2>2, <2>3, <2>5
<1>0. f + H = (n - 1) * chunkSize + last
  BY <1>1, ShapeFacts DEF tailChunk
<1>2. count' = count + 1 /\ returned' = returned
  BY DEF Add
<1>3. /\ Shape(chunks') /\ chunks'[1].first = f /\ Held(chunks') = H + 1
      /\ ItemAt(chunks', f + H) = item
      /\ \A at \in Nat : at < f + H => ItemAt(chunks', at) = ItemAt(chunks, at)
  <2>1. CASE last < chunkSize
    <3> DEFINE t == PutIn(tailChunk, item)
    <3>1. last \in Slots /\ chunks' = [chunks EXCEPT ![n] = t]
      <4>1. last \in Slots
        BY <1>1, <2>1, FifoAssumption DEF Slots
      <4>2. ~(tailChunk.last >= chunkSize)
        BY <1>1, <2>1, FifoAssumption
      <4> QED BY <4>1, <4>2 DEF Add, tailChunk
    <3>2. /\ t \in Chunk /\ t.first = tailChunk.first /\ t.last = last + 1
          /\ t.items[last] = item
          /\ \A s \in Slots : s # last => t.items[s] = tailChunk.items[s]
      <4>1. last + 1 \in 0 .. chunkSize
        BY <1>1, <2>1, FifoAssumption
      <4>2. [tailChunk.items EXCEPT ![last] = item] \in [Slots -> Items \cup {nil}]
        BY <1>1, <3>1
      <4> QED BY <1>1, <3>1, <4>1, <4>2 DEF PutIn, Chunk
    <3> HIDE DEF t
    <3>3. /\ chunks' \in Seq(Chunk) /\ Len(chunks') = n
          /\ \A c \in 1 .. n : chunks'[c] = IF c = n THEN t ELSE chunks[c]
      BY <1>1, <3>1, <3>2, ExceptSeq
    <3>4. Shape(chunks')
      <4>1. chunks' # <<>>
        BY <1>1, <3>3
      <4>2. tailChunk.first <= last
        BY <1>1, ShapeFacts DEF tailChunk
      <4>3. ASSUME NEW c \in 1 .. Len(chunks')
            PROVE  /\ chunks'[c].first < chunks'[c].last
                   /\ c > 1 => chunks'[c].first = 0
                   /\ c < Len(chunks') => chunks'[c].last = chunkSize
        <5>1. CASE c = n
          <6>1. chunks'[c] = t /\ (c > 1 => tailChunk.first = 0)
            BY <1>1, <3>3, <5>1 DEF Shape, tailChunk
          <6>2. chunks'[c].first = tailChunk.first /\ chunks'[c].last = last + 1
            BY <3>2, <6>1
          <6>3. last \in Nat /\ tailChunk.first \in Nat
            BY <1>1, FifoAssumption
          <6>4. Len(chunks') = n /\ n \in Nat
            BY <1>1, <3>3
          <6>5. tailChunk.first < last + 1
            BY <4>2, <6>3
          <6>6. ~(c < Len(chunks'))
            BY <5>1, <6>4
          <6> QED BY <6>1, <6>2, <6>5, <6>6
        <5>2. CASE c # n
          <6>1. chunks'[c] = chunks[c] /\ c \in 1 .. n
            BY <3>3, <5>2
          <6>2. n # 1
            BY <5>2, <6>1
          <6> QED BY <1>1, <3>3, <5>2, <6>1, <6>2 DEF Shape
        <5> QED BY <5>1, <5>2
      <4> QED BY <3>3, <4>1, <4>3 DEF Shape
    <3>5. chunks'[1].first = f /\ Held(chunks') = H + 1
      <4>1. chunks'[1].first = f
        BY <1>1, <3>2, <3>3 DEF tailChunk
      <4>2. chunks'[n].last = last + 1
        BY <1>1, <3>2, <3>3
      <4> DEFINE A == (n - 1) * chunkSize
      <4>3. A \in Int /\ Held(chunks') = A + (last + 1) - f /\ H = A + last - f
        <5>1. A \in Int
          BY <1>1, FifoAssumption
        <5>2. Held(chunks') = A + chunks'[n].last - chunks'[1].first
          BY <3>3 DEF Held
        <5>3. H = A + chunks[n].last - chunks[1].first
          BY DEF Held
        <5> QED BY <4>1, <4>2, <5>1, <5>2, <5>3 DEF tailChunk
      <4> HIDE DEF A, H, f, last
      <4> QED BY <1>1, <4>1, <4>3, FifoAssumption
    <3>6. ItemAt(chunks', f + H) = item
      <4>1. ItemAt(chunks', (n - 1) * chunkSize + last) = chunks'[(n - 1) + 1].items[last]
        <5>1. n - 1 \in Nat
          BY <1>1
        <5> QED BY <3>1, <5>1, ItemOfPlace
      <4>2. (n - 1) + 1 = n /\ chunks'[n] = t
        <5>1. n \in Nat \ {0} /\ n \in 1 .. n
          BY <1>1
        <5> QED BY <3>3, <5>1
      <4> QED BY <1>0, <3>2, <4>1, <4>2
    <3>7. ASSUME NEW at \in Nat, at < f + H
          PROVE  ItemAt(chunks', at) = ItemAt(chunks, at)
      <4>1. PICK c \in 0 .. n - 1, s \in Slots :
              /\ at = c * chunkSize + s
              /\ ItemAt(chunks, at) = chunks[c + 1].items[s]
              /\ c = n - 1 => s < last
        <5>1. PICK c \in 0 .. Len(chunks) - 1, s \in Slots :
                /\ at = c * chunkSize + s
                /\ ItemAt(chunks, at) = chunks[c + 1].items[s]
                /\ c = Len(chunks) - 1 => s < chunks[Len(chunks)].last
          BY <1>1, <3>7, Located
        <5> QED BY <5>1, Zenon DEF tailChunk
      <4>2. ItemAt(chunks', at) = chunks'[c + 1].items[s]
        BY <4>1, ItemOfPlace
      <4>3. chunks'[c + 1].items[s] = chunks[c + 1].items[s]
        <5>1. CASE c = n - 1
          <6>1. c + 1 = n /\ s # last
            BY <1>1, <4>1, <5>1 DEF Slots
          <6>2. chunks'[n] = t /\ chunks[n] = tailChunk
            BY <1>1, <3>3 DEF tailChunk
          <6> QED BY <3>2, <6>1, <6>2
        <5>2. CASE c # n - 1
          <6>1. c + 1 \in 1 .. n /\ c + 1 # n
            <7>1. n \in Nat \ {0}
              BY <1>1
            <7> QED BY <5>2, <7>1
          <6> QED BY <3>3, <6>1
        <5> QED BY <5>1, <5>2
      <4> QED BY <4>1, <4>2, <4>3
    <3> QED BY <3>4, <3>5, <3>6, <3>7
  <2>2. CASE last = chunkSize
    <3> DEFINE t == PutIn(newChunk, item)
    <3>1. 0 \in Slots /\ chunks' = Append(chunks, t)
      BY <1>1, <2>2, FifoAssumption DEF Add, Slots
    <3>2. t \in Chunk /\ t.first = 0 /\ t.last = 1 /\ t.items[0] = item
      <4> DEFINE none == [i \in Slots |-> nil]
                 some == [none EXCEPT ![0] = item]
      <4>1. some \in [Slots -> Items \cup {nil}] /\ some[0] = item
        BY <3>1
      <4>2. 1 \in 0 .. chunkSize /\ 0 \in 0 .. chunkSize
        BY FifoAssumption
      <4>3. t = [items |-> some, first |-> 0, last |-> 1]
        <5>1. newChunk = [items |-> none, first |-> 0, last |-> 0]
          BY DEF newChunk
        <5>2. newChunk.items = none /\ newChunk.first = 0 /\ newChunk.last = 0
          BY <5>1
        <5>3. t = [newChunk EXCEPT !.items = some, !.last = 1]
          BY <5>2 DEF PutIn
        <5> HIDE DEF some, none, t
        <5> QED BY <5>1, <5>3
      <4> HIDE DEF some
      <4> QED BY <4>1, <4>2, <4>3 DEF Chunk
    <3> HIDE DEF t
    <3>3. /\ chunks' \in Seq(Chunk) /\ Len(chunks') = n + 1 /\ chunks'[n + 1] = t
          /\ \A c \in 1 .. n : chunks'[c] = chunks[c]
      BY <1>1, <3>1, <3>2
    <3>4. Shape(chunks')
      <4>1. chunks' # <<>>
        BY <1>1, <3>3
      <4>2. ASSUME NEW c \in 1 .. Len(chunks')
            PROVE  /\ chunks'[c].first < chunks'[c].last
                   /\ c > 1 => chunks'[c].first = 0
                   /\ c < Len(chunks') => chunks'[c].last = chunkSize
        <5>1. CASE c = n + 1
          BY <1>1, <3>2, <3>3, <5>1
        <5>2. CASE c # n + 1
          BY <1>1, <2>2, <3>3, <5>2, FifoAssumption DEF Shape, tailChunk
        <5> QED BY <5>1, <5>2
      <4> QED BY <3>3, <4>1, <4>2 DEF Shape
    <3>5. chunks'[1].first = f /\ Held(chunks') = H + 1 /\ f + H = n * chunkSize
      <4>1. chunks'[1].first = f /\ chunks'[n + 1].last = 1
        BY <1>1, <3>2, <3>3
      <4>2. n * chunkSize = (n - 1) * chunkSize + chunkSize
        BY <1>1, FifoAssumption
      <4> DEFINE A == (n - 1) * chunkSize
                 B == n * chunkSize
      <4>3. A \in Int /\ B = A + chunkSize /\ Held(chunks') = B + 1 - f /\ f + H = A + chunkSize
        <5>1. A \in Int /\ B = A + chunkSize
          BY <1>1, <4>2, FifoAssumption
        <5>2. (n + 1) - 1 = n
          BY <1>1
        <5>3. Held(chunks') = B + 1 - f
          BY <3>3, <4>1, <5>2 DEF Held
        <5> QED BY <1>0, <2>2, <5>1, <5>3
      <4> HIDE DEF A, B, H, f, last
      <4>4. Held(chunks') = H + 1 /\ f + H = B
        BY <1>1, <4>3, FifoAssumption
      <4> QED BY <4>1, <4>4 DEF B
    <3>6. ItemAt(chunks', f + H) = item
      <4>1. ItemAt(chunks', n * chunkSize + 0) = chunks'[n + 1].items[0]
        BY <1>1, <3>1, ItemOfPlace
      <4>2. f + H = n * chunkSize + 0
        BY <1>1, <3>5, FifoAssumption
      <4> QED BY <3>2, <3>3, <4>1, <4>2
    <3>7. ASSUME NEW at \in Nat, at < f + H
          PROVE  ItemAt(chunks', at) = ItemAt(chunks, at)
      <4>1. PICK c \in 0 .. n - 1, s \in Slots :
              /\ at = c * chunkSize + s
              /\ ItemAt(chunks, at) = chunks[c + 1].items[s]
        BY <1>1, <3>7, Located
      <4>2. ItemAt(chunks', at) = chunks'[c + 1].items[s]
        BY <4>1, ItemOfPlace
      <4> QED BY <1>1, <3>3, <4>1, <4>2
    <3> QED BY <3>4, <3>5, <3>6, <3>7
  <2>3. last < chunkSize \/ last = chunkSize
    BY <1>1, FifoAssumption
  <2> QED BY <2>1, <2>2, <2>3
<1> HIDE DEF n, H, f, last
<1>4. Waiting(chunks) \in Seq(Items) /\ Len(Waiting(chunks)) = H
  BY WaitingType DEF FifoInv, H
<1>5. \A k \in 1 .. H : Waiting(chunks')[k] = Waiting(chunks)[k]
  BY <1>1, <1>3 DEF Waiting, H, f
<1>6. Waiting(chunks')[H + 1] = item
  BY <1>1, <1>3 DEF Waiting, H, f
<1>7. \A k \in 1 .. H + 1 : Waiting(chunks')[k] \in Items
  BY <1>1, <1>4, <1>5, <1>6
<1>8. Waiting(chunks') \in Seq(Items) /\ Len(Waiting(chunks')) = H + 1
  BY <1>1, <1>3, <1>7 DEF Waiting
<1>9. Waiting(chunks') = Append(Waiting(chunks), item)
  BY <1>1, <1>4, <1>5, <1>6, <1>8, SeqEqual
<1>10. FifoInv'
  BY <1>1, <1>2, <1>3, <1>7 DEF FifoInv, H
<1> QED BY <1>3, <1>9, <1>10 DEF H

\* fifo.go's Next finds nothing in an empty queue only ...
LEMMA NothingLeftOK ==
  ASSUME FifoInv
  PROVE  NothingLeft <=> Held(chunks) = 0
<1>1. /\ Shape(chunks) /\ count = Held(chunks) /\ Held(chunks) \in Nat
      /\ Len(chunks) \in Nat \ {0} /\ 1 \in 1 .. Len(chunks)
  BY ShapeFacts DEF FifoInv
<1>2. chunks[1].first \in Nat /\ chunks[1].last \in Nat
  BY <1>1, ShapeFacts, FifoAssumption
<1>3. ASSUME chunks[1].first >= chunks[1].last PROVE Held(chunks) = 0
  <2>1. Len(chunks) = 1 /\ chunks[1].first = 0 /\ chunks[1].last = 0
    BY <1>1, <1>2, <1>3 DEF Shape
  <2> QED BY <2>1, FifoAssumption DEF Held
<1> QED BY <1>1, <1>3 DEF NothingLeft, headChunk

\* ... and otherwise moves past the first item, whichever of its three cases applies.
LEMMA DropHeadOK ==
  ASSUME FifoInv, ~NothingLeft, chunks' = DropHead
  PROVE  /\ Shape(chunks') /\ Held(chunks') = Held(chunks) - 1
         /\ \A k \in 1 .. Held(chunks) - 1 : Waiting(chunks')[k] = Waiting(chunks)[k + 1]
<1> DEFINE n == Len(chunks)
           H == Held(chunks)
           f == chunks[1].first
           l == chunks[1].last
<1>1. /\ Shape(chunks) /\ count = H /\ H \in Nat \ {0} /\ n \in Nat \ {0} /\ chunks \in Seq(Chunk)
      /\ f \in Nat /\ l \in Nat /\ f < l /\ l <= chunkSize /\ chunks[1] \in Chunk
  <2>1. /\ Shape(chunks) /\ count = H /\ H \in Nat \ {0}
    BY NothingLeftOK, ShapeFacts DEF FifoInv
  <2>2. n \in Nat \ {0} /\ chunks \in Seq(Chunk) /\ 1 \in 1 .. n /\ chunks[1] \in Chunk
    BY <2>1, ShapeFacts DEF Shape
  <2>3. f \in Nat /\ l \in 0 .. chunkSize
    BY <2>1, <2>2, ShapeFacts
  <2>4. ~(f >= l)
    BY DEF NothingLeft, headChunk
  <2> QED BY <2>1, <2>2, <2>3, <2>4, FifoAssumption
<1>2. f + H = (n - 1) * chunkSize + chunks[n].last
  BY <1>1, ShapeFacts
<1>3. CASE f + 1 < l
  <2>1. chunks' = [chunks EXCEPT ![1].first = f + 1]
    BY <1>3 DEF DropHead, headChunk
  <2> DEFINE h == [chunks[1] EXCEPT !.first = f + 1]
  <2>2. h \in Chunk /\ h.first = f + 1 /\ h.last = l /\ h.items = chunks[1].items
    <3>1. f + 1 \in 0 .. chunkSize
      BY <1>1, <1>3, FifoAssumption
    <3> QED BY <1>1, <3>1 DEF Chunk
  <2>3. chunks' = [chunks EXCEPT ![1] = h]
    BY <2>1
  <2> HIDE DEF h
  <2>4. /\ chunks' \in Seq(Chunk) /\ Len(chunks') = n
        /\ \A c \in 1 .. n : chunks'[c] = IF c = 1 THEN h ELSE chunks[c]
    BY <1>1, <2>2, <2>3, ExceptSeq
  <2>5. Shape(chunks')
    <3>1. chunks' # <<>>
      BY <1>1, <2>4
    <3>2. ASSUME NEW c \in 1 .. Len(chunks')
          PROVE  /\ \/ chunks'[c].first < chunks'[c].last
                    \/ Len(chunks') = 1 /\ chunks'[c].first = 0 /\ chunks'[c].last = 0
                 /\ c > 1 => chunks'[c].first = 0
                 /\ c < Len(chunks') => chunks'[c].last = chunkSize
      <4>1. CASE c = 1
        <5>1. chunks'[c].first = f + 1 /\ chunks'[c].last = l
          BY <2>2, <2>4, <4>1
        <5>2. c < n => l = chunkSize
          BY <1>1, <2>4, <4>1 DEF Shape
        <5> QED BY <1>3, <2>4, <4>1, <5>1, <5>2
      <4>2. CASE c # 1
        <5>1. chunks'[c] = chunks[c] /\ c \in 1 .. n
          BY <2>4, <4>2
        <5> QED BY <1>1, <2>4, <5>1 DEF Shape
      <4> QED BY <4>1, <4>2
    <3> QED BY <2>4, <3>1, <3>2 DEF Shape
  <2>6. chunks'[1].first = f + 1 /\ chunks'[n].last = chunks[n].last
    <3>1. 1 \in 1 .. n /\ n \in 1 .. n
      BY <1>1
    <3> QED BY <2>2, <2>4, <3>1
  <2>7. Held(chunks') = H - 1
    <3> DEFINE A == (n - 1) * chunkSize
               z == chunks[n].last
    <3>1. A \in Int /\ z \in Int
      <4>1. z \in 0 .. chunkSize
        BY <1>1, ShapeFacts
      <4> QED BY <1>1, <4>1, FifoAssumption
    <3>2. Held(chunks') = A + z - (f + 1) /\ f + H = A + z
      <4>1. Held(chunks') = A + chunks'[n].last - chunks'[1].first
        BY <2>4 DEF Held
      <4> QED BY <1>2, <2>6, <4>1, Zenon
    <3> HIDE DEF A, H, f, z
    <3> QED BY <1>1, <3>1, <3>2
  <2>8. ASSUME NEW k \in 1 .. H - 1
        PROVE  ItemAt(chunks', (f + 1) + k - 1) = ItemAt(chunks, f + (k + 1) - 1)
    <3> DEFINE at == f + k
    <3>1. at \in Nat /\ at < f + H /\ (f + 1) + k - 1 = at /\ f + (k + 1) - 1 = at
      <4>1. f \in Nat /\ H \in Nat
        BY <1>1
      <4> HIDE DEF f, H
      <4> QED BY <4>1
    <3> HIDE DEF at
    <3>2. PICK c \in 0 .. n - 1, s \in Slots :
            at = c * chunkSize + s /\ ItemAt(chunks, at) = chunks[c + 1].items[s]
      BY <1>1, <3>1, Located
    <3>3. c \in Nat /\ c + 1 \in 1 .. n
      BY <1>1
    <3>4. ItemAt(chunks', at) = chunks'[c + 1].items[s]
      BY <3>2, <3>3, ItemOfPlace
    <3>5. chunks'[c + 1].items = chunks[c + 1].items
      BY <2>2, <2>4, <3>3
    <3> QED BY <3>1, <3>2, <3>4, <3>5
  <2>9. ASSUME NEW k \in 1 .. H - 1 PROVE Waiting(chunks')[k] = Waiting(chunks)[k + 1]
    <3>1. k \in 1 .. Held(chunks') /\ k + 1 \in 1 .. Held(chunks)
      BY <1>1, <2>7
    <3>2. Waiting(chunks')[k] = ItemAt(chunks', (f + 1) + k - 1)
      BY <2>6, <3>1 DEF Waiting
    <3>3. Waiting(chunks)[k + 1] = ItemAt(chunks, f + (k + 1) - 1)
      BY <3>1 DEF Waiting
    <3> QED BY <2>8, <3>2, <3>3
  <2> QED BY <2>5, <2>7, <2>9
<1>4. CASE ~(f + 1 < l) /\ count = 1
  <2> DEFINE h == [chunks[1] EXCEPT !.first = 0, !.last = 0]
  <2>1. chunks' = <<h>>
    BY <1>4 DEF DropHead, headChunk
  <2>2. h \in Chunk /\ h.first = 0 /\ h.last = 0
    <3>1. 0 \in 0 .. chunkSize
      BY FifoAssumption
    <3>2. chunks[1] \in Chunk
      BY <1>1
    <3> QED BY <3>1, <3>2 DEF Chunk
  <2> HIDE DEF h
  <2>3. chunks' \in Seq(Chunk) /\ Len(chunks') = 1 /\ chunks'[1] = h /\ chunks' # <<>>
    BY <2>1, <2>2
  <2>4. Shape(chunks')
    BY <2>2, <2>3 DEF Shape
  <2>5. Held(chunks') = 0 /\ H = 1
    BY <1>1, <1>4, <2>2, <2>3, FifoAssumption DEF Held
  <2> QED BY <2>4, <2>5
<1>5. CASE ~(f + 1 < l) /\ count # 1
  <2>1. chunks' = Tail(chunks) /\ f + 1 = l
    BY <1>1, <1>5 DEF DropHead, headChunk
  <2>2. n > 1
    <3>1. ASSUME n = 1 PROVE FALSE
      <4>1. f + H = l
        BY <1>1, <1>2, <3>1, FifoAssumption
      <4> QED BY <1>1, <1>5, <2>1, <4>1
    <3> QED BY <1>1, <3>1
  <2>3. l = chunkSize
    BY <1>1, <2>2 DEF Shape
  <2>4. /\ chunks' \in Seq(Chunk) /\ Len(chunks') = n - 1 /\ chunks' # <<>>
        /\ \A c \in 1 .. n - 1 : chunks'[c] = chunks[c + 1]
    <3>1. chunks # <<>>
      BY <1>1 DEF Shape
    <3>2. /\ Tail(chunks) \in Seq(Chunk) /\ Len(Tail(chunks)) = n - 1
          /\ \A c \in 1 .. n - 1 : Tail(chunks)[c] = chunks[c + 1]
      BY <1>1, <3>1, HeadTailProperties
    <3>3. Len(chunks') # 0
      BY <1>1, <2>1, <2>2, <3>2
    <3> QED BY <2>1, <3>2, <3>3, EmptySeq
  <2>5. Shape(chunks')
    <3>1. ASSUME NEW c \in 1 .. Len(chunks')
          PROVE  /\ chunks'[c].first < chunks'[c].last
                 /\ chunks'[c].first = 0
                 /\ c < Len(chunks') => chunks'[c].last = chunkSize
      <4>1. chunks'[c] = chunks[c + 1] /\ c + 1 \in 1 .. n /\ c + 1 > 1 /\ Len(chunks') = n - 1
        BY <1>1, <2>4
      <4>2. /\ chunks[c + 1].first < chunks[c + 1].last
            /\ chunks[c + 1].first = 0
            /\ c + 1 < n => chunks[c + 1].last = chunkSize
        BY <1>1, <2>2, <4>1 DEF Shape
      <4>3. c < n - 1 => c + 1 < n
        BY <1>1
      <4> QED BY <4>1, <4>2, <4>3
    <3> QED BY <2>4, <3>1 DEF Shape
  <2>6. chunks'[1].first = 0 /\ chunks'[n - 1].last = chunks[n].last
    <3>1. 1 \in 1 .. Len(chunks') /\ n - 1 \in 1 .. n - 1 /\ (n - 1) + 1 = n
      BY <1>1, <2>2, <2>4
    <3>2. chunks'[1] = chunks[2] /\ 2 \in 1 .. n
      BY <1>1, <2>2, <2>4
    <3>3. chunks[2].first = 0
      BY <1>1, <3>2 DEF Shape
    <3> QED BY <2>4, <3>1, <3>2, <3>3
  <2>7. Held(chunks') = H - 1
    <3> DEFINE A == (n - 1) * chunkSize
               B == ((n - 1) - 1) * chunkSize
               z == chunks[n].last
    <3>1. A \in Int /\ B \in Int /\ A = B + chunkSize /\ z \in Int
      <4>1. z \in 0 .. chunkSize
        BY <1>1, ShapeFacts
      <4> QED BY <1>1, <4>1, FifoAssumption
    <3>2. Held(chunks') = B + z - 0 /\ f + H = A + z
      BY <1>2, <2>4, <2>6 DEF Held
    <3> HIDE DEF A, B, z
    <3> QED BY <1>1, <2>1, <2>3, <3>1, <3>2, FifoAssumption
  <2>8. ASSUME NEW k \in 1 .. H - 1
        PROVE  ItemAt(chunks', 0 + k - 1) = ItemAt(chunks, f + (k + 1) - 1)
    <3> DEFINE at == k - 1
    <3>1. at \in Nat /\ at < 0 + Held(chunks') /\ 0 + k - 1 = at
      BY <1>1, <2>7
    <3>2. f + (k + 1) - 1 = at + chunkSize
      <4>1. f + 1 = chunkSize /\ f \in Nat /\ k \in Int
        BY <1>1, <2>1, <2>3
      <4> HIDE DEF f
      <4> QED BY <4>1
    <3> HIDE DEF at
    <3>3. PICK c \in 0 .. Len(chunks') - 1, s \in Slots :
            at = c * chunkSize + s /\ ItemAt(chunks', at) = chunks'[c + 1].items[s]
      BY <2>5, <2>6, <3>1, Located
    <3>4. c \in Nat /\ c + 1 \in Nat /\ c + 1 \in 1 .. n - 1
      BY <1>1, <2>4
    <3>5. ItemAt(chunks, (c + 1) * chunkSize + s) = chunks[(c + 1) + 1].items[s]
      BY <3>4, ItemOfPlace
    <3>6. (c + 1) * chunkSize + s = at + chunkSize
      BY <3>3, <3>4, FifoAssumption DEF Slots
    <3>7. chunks'[c + 1] = chunks[(c + 1) + 1]
      BY <2>4, <3>4
    <3> QED BY <3>1, <3>2, <3>3, <3>5, <3>6, <3>7
  <2>9. ASSUME NEW k \in 1 .. H - 1 PROVE Waiting(chunks')[k] = Waiting(chunks)[k + 1]
    <3>1. k \in 1 .. Held(chunks') /\ k + 1 \in 1 .. Held(chunks)
      BY <1>1, <2>7
    <3>2. Waiting(chunks')[k] = ItemAt(chunks', 0 + k - 1)
      BY <2>6, <3>1 DEF Waiting
    <3>3. Waiting(chunks)[k + 1] = ItemAt(chunks, f + (k + 1) - 1)
      BY <3>1 DEF Waiting
    <3> QED BY <2>8, <3>2, <3>3
  <2> QED BY <2>5, <2>7, <2>9
<1> QED BY <1>3, <1>4, <1>5

\* fifo.go's Next returns the first item and leaves the others in order.
LEMMA NextOK ==
  ASSUME FifoInv, Next
  PROVE  /\ FifoInv'
         /\ \/ Held(chunks) = 0 /\ returned' = nil /\ chunks' = chunks
            \/ /\ Held(chunks) > 0 /\ Held(chunks') = Held(chunks) - 1
               /\ returned' = Waiting(chunks)[1]
               /\ Waiting(chunks') = Tail(Waiting(chunks))
<1>1. Shape(chunks) /\ count = Held(chunks) /\ Held(chunks) \in Nat
  BY ShapeFacts DEF FifoInv
<1>2. CASE NothingLeft
  BY <1>1, <1>2, NothingLeftOK DEF Next, FifoInv
<1>3. CASE ~NothingLeft
  <2>1. Held(chunks) \in Nat \ {0}
    BY <1>1, <1>3, NothingLeftOK
  <2>2. /\ chunks' = DropHead /\ count' = count - 1
        /\ returned' = chunks[1].items[chunks[1].first]
    BY <1>3 DEF Next, headChunk
  <2>3. /\ Shape(chunks') /\ Held(chunks') = Held(chunks) - 1
        /\ \A k \in 1 .. Held(chunks) - 1 : Waiting(chunks')[k] = Waiting(chunks)[k + 1]
    BY <1>3, <2>2, DropHeadOK
  <2>4. Waiting(chunks) \in Seq(Items) /\ Len(Waiting(chunks)) = Held(chunks)
    BY <1>1, WaitingType DEF FifoInv
  <2>5. returned' = Waiting(chunks)[1]
    <3> DEFINE f == chunks[1].first
    <3>1. f \in Slots
      <4>1. Len(chunks) \in Nat \ {0} /\ 1 \in 1 .. Len(chunks)
        BY <1>1, ShapeFacts
      <4>2. f \in Nat /\ chunks[1].last \in 0 .. chunkSize
        BY <1>1, <4>1, ShapeFacts
      <4>3. ~(f >= chunks[1].last)
        BY <1>3 DEF NothingLeft, headChunk
      <4> QED BY <4>2, <4>3, FifoAssumption DEF Slots
    <3>2. ItemAt(chunks, 0 * chunkSize + f) = chunks[0 + 1].items[f]
      BY <3>1, ItemOfPlace
    <3>3. 0 * chunkSize + f = f + 1 - 1
      BY <3>1, FifoAssumption DEF Slots
    <3>4. Waiting(chunks)[1] = ItemAt(chunks, f + 1 - 1)
      BY <2>1 DEF Waiting
    <3> QED BY <2>2, <3>2, <3>3, <3>4
  <2>6. \A k \in 1 .. Held(chunks') : Waiting(chunks')[k] \in Items
    BY <2>1, <2>3 DEF FifoInv
  <2>7. Waiting(chunks') \in Seq(Items) /\ Len(Waiting(chunks')) = Held(chunks')
    <3>1. Waiting(chunks') \in [1 .. Held(chunks') -> Items] /\ Held(chunks') \in Nat
      BY <2>1, <2>3, <2>6 DEF Waiting
    <3> QED BY <3>1
  <2>8. Waiting(chunks') = Tail(Waiting(chunks))
    <3>1. Waiting(chunks) # <<>>
      BY <2>1, <2>4
    <3>2. /\ Tail(Waiting(chunks)) \in Seq(Items) /\ Len(Tail(Waiting(chunks))) = Held(chunks) - 1
          /\ \A k \in 1 .. Held(chunks) - 1 : Tail(Waiting(chunks))[k] = Waiting(chunks)[k + 1]
      BY <2>4, <3>1, HeadTailProperties
    <3> QED BY <2>3, <2>7, <3>2, SeqEqual
  <2>9. returned' \in Items
    BY <2>1, <2>5 DEF FifoInv
  <2>10. FifoInv'
    BY <1>1, <2>2, <2>3, <2>6, <2>9 DEF FifoInv
  <2> QED BY <2>1, <2>3, <2>5, <2>8, <2>10
<1> QED BY <1>2, <1>3

-----------------------------------------------------------------------------
(* The steps of the producer and of the consumer *)

LEMMA InitOK == Init => Inv
<1> SUFFICES ASSUME Init PROVE Inv
  OBVIOUS
<1>1. newChunk \in Chunk /\ newChunk.first = 0 /\ newChunk.last = 0
  <2>1. 0 \in 0 .. chunkSize
    BY FifoAssumption
  <2> QED BY <2>1 DEF newChunk, Chunk
<1>2. chunks \in Seq(Chunk) /\ Len(chunks) = 1 /\ chunks[1] = newChunk /\ chunks # <<>>
  BY <1>1 DEF Init, NewQueue
<1>3. Shape(chunks) /\ Held(chunks) = 0
  <2>1. Shape(chunks)
    BY <1>1, <1>2 DEF Shape
  <2> QED BY <1>1, <1>2, <2>1, FifoAssumption DEF Held
<1>4. FifoInv
  BY <1>3 DEF FifoInv, Init, NewQueue
<1>5. Len(Waiting(chunks)) = 0
  BY <1>3, <1>4, WaitingType DEF FifoInv
<1> QED BY <1>3, <1>4, <1>5 DEF Inv, TaskInv, Init, NoDuplicateTask

\* NoDuplicateTask without the sequence.
LEMMA Distinct ==
  ASSUME FifoInv
  PROVE  NoDuplicateTask <=> \A i \in 1 .. Held(chunks) :
           /\ Waiting(chunks)[i] # current
           /\ \A j \in 1 .. Held(chunks) : Waiting(chunks)[i] = Waiting(chunks)[j] => i = j
<1>1. Len(Waiting(chunks)) = Held(chunks)
  BY WaitingType DEF FifoInv
<1> QED BY <1>1 DEF NoDuplicateTask

LEMMA FindOK ==
  ASSUME Inv, Find
  PROVE  Inv'
BY DEF Inv, FifoInv, TaskInv, Known, NoDuplicateTask, Find, fifoVars

\* The producer adds a task whose key is not in the in-queue set while no other task is
\* being added, so the task neither waits nor is worked on.
LEMMA DispatchOK ==
  ASSUME Inv, NEW key \in Items, Dispatch(key)
  PROVE  Inv'
<1>1. CASE key \in tasksInQueue
  BY <1>1 DEF Inv, FifoInv, TaskInv, Known, NoDuplicateTask, Dispatch, fifoVars
<1>2. CASE key \notin tasksInQueue
  <2> DEFINE H == Held(chunks)
             w == Waiting(chunks)
             v == Waiting(chunks')
  <2>1. /\ adding = nil /\ adding' = key /\ Add(key) /\ found' \subseteq found
        /\ UNCHANGED <<todo, tasksInQueue, current>>
    BY <1>2 DEF Dispatch
  <2>2. FifoInv' /\ v = Append(w, key) /\ Held(chunks') = H + 1
    BY <2>1, AddOK DEF Inv
  <2>3. H \in Nat /\ w \in Seq(Items) /\ Len(w) = H
    BY ShapeFacts, WaitingType DEF Inv, FifoInv
  <2>4. (\A k \in 1 .. H : v[k] = w[k]) /\ v[H + 1] = key
    BY <2>2, <2>3
  <2>5. \A k \in 1 .. H : w[k] # key
    BY <1>2, <2>1, FifoAssumption DEF Inv, TaskInv, Known, FifoInv
  <2>6. current # key
    BY <1>2, <2>1, FifoAssumption DEF Inv, TaskInv, Known
  <2> HIDE DEF H, w, v
  <2>7. \A k \in 1 .. H + 1 : k \in 1 .. H \/ k = H + 1
    BY <2>3
  <2>8. \A i \in 1 .. H : w[i] # current /\ \A j \in 1 .. H : w[i] = w[j] => i = j
    BY Distinct DEF Inv, TaskInv, H, w
  <2>9. \A i \in 1 .. H + 1 : v[i] # current' /\ \A j \in 1 .. H + 1 : v[i] = v[j] => i = j
    BY <2>1, <2>4, <2>5, <2>6, <2>7, <2>8
  <2>10. \A k \in 1 .. H + 1 : v[k] \in tasksInQueue' \/ v[k] = adding'
    <3>1. \A k \in 1 .. H : w[k] \in tasksInQueue
      <4>1. \A k \in 1 .. H : w[k] \in Items /\ Known(w[k])
        BY DEF Inv, FifoInv, TaskInv, H, w
      <4> QED BY <2>1, <4>1, FifoAssumption DEF Known
    <3> QED BY <2>1, <2>4, <2>7, <3>1
  <2>11. NoDuplicateTask'
    <3>1. Len(v) = H + 1
      BY <2>2, <2>3 DEF v
    <3> QED BY <2>9, <3>1 DEF NoDuplicateTask, v
  <2> QED BY <2>1, <2>2, <2>6, <2>10, <2>11 DEF Inv, TaskInv, Known, v
<1> QED BY <1>1, <1>2

LEMMA DispatchDoneOK ==
  ASSUME Inv, DispatchDone
  PROVE  Inv'
BY DEF Inv, FifoInv, TaskInv, Known, NoDuplicateTask, DispatchDone, fifoVars

\* The task taken leaves the queue when it becomes the current one.
LEMMA TakeOK ==
  ASSUME Inv, Take
  PROVE  Inv'
<1> DEFINE H == Held(chunks)
           w == Waiting(chunks)
           v == Waiting(chunks')
<1>1. /\ current = nil /\ Next /\ current' = returned'
      /\ UNCHANGED <<todo, found, adding, tasksInQueue>>
  BY DEF Take
<1>2. CASE H = 0 /\ returned' = nil /\ chunks' = chunks
  BY <1>1, <1>2, NextOK DEF Inv, TaskInv, Known, NoDuplicateTask
<1>3. CASE H > 0 /\ Held(chunks') = H - 1 /\ returned' = w[1] /\ v = Tail(w)
  <2>1. FifoInv'
    BY <1>1, NextOK DEF Inv
  <2>2. H \in Nat /\ w \in Seq(Items) /\ Len(w) = H /\ w # <<>>
    <3>1. H \in Nat /\ w \in Seq(Items) /\ Len(w) = H
      BY ShapeFacts, WaitingType DEF Inv, FifoInv
    <3> QED BY <1>3, <3>1
  <2>3. Len(v) = H - 1 /\ \A k \in 1 .. H - 1 : v[k] = w[k + 1]
    BY <1>3, <2>2, HeadTailProperties
  <2> HIDE DEF H, w, v
  <2>4. \A k \in 1 .. H - 1 : k + 1 \in 1 .. H /\ k + 1 # 1
    BY <2>2
  <2>5. \A i \in 1 .. H : \A j \in 1 .. H : w[i] = w[j] => i = j
    BY Distinct DEF Inv, TaskInv, H, w
  <2>6. \A k \in 1 .. H : w[k] \in Items /\ Known(w[k])
    BY DEF Inv, FifoInv, TaskInv, H, w
  <2>7. 1 \in 1 .. H
    BY <1>3, <2>2
  <2>8. ASSUME NEW i \in 1 .. H - 1
        PROVE  /\ v[i] # current' /\ v[i] \in tasksInQueue' \cup {adding'}
               /\ \A j \in 1 .. H - 1 : v[i] = v[j] => i = j
    <3>1. v[i] # w[1]
      BY <2>3, <2>4, <2>5, <2>7
    <3>2. v[i] \in tasksInQueue \cup {adding}
      BY <2>3, <2>4, <2>6 DEF Known
    <3>3. ASSUME NEW j \in 1 .. H - 1, v[i] = v[j] PROVE i = j
      <4>1. i + 1 = j + 1
        BY <2>3, <2>4, <2>5, <3>3
      <4> QED BY <2>2, <4>1
    <3> QED BY <1>1, <1>3, <3>1, <3>2, <3>3
  <2>9. NoDuplicateTask'
    BY <2>3, <2>8 DEF NoDuplicateTask, v
  <2>10. current' \in Items /\ current' \in tasksInQueue' \cup {adding'}
    BY <1>1, <1>3, <2>6, <2>7 DEF Known
  <2> QED BY <1>1, <1>3, <2>1, <2>8, <2>9, <2>10 DEF Inv, TaskInv, Known, v
<1> QED BY <1>1, <1>2, <1>3, NextOK DEF Inv

\* The key is removed when its only task is done.
LEMMA ProcessOK ==
  ASSUME Inv, Process
  PROVE  Inv'
<1>1. /\ current \in Items /\ tasksInQueue' = tasksInQueue \ {current} /\ current' = nil
      /\ todo' \subseteq Items /\ UNCHANGED <<chunks, count, returned, found, adding>>
  BY DEF Process, Inv, TaskInv, fifoVars
<1>2. FifoInv'
  BY <1>1 DEF Inv, FifoInv
<1>3. \A k \in 1 .. Held(chunks) : Waiting(chunks)[k] # current /\ Waiting(chunks)[k] # nil
  BY Distinct, FifoAssumption DEF Inv, TaskInv, FifoInv
<1>4. NoDuplicateTask'
  BY <1>1, <1>2, <1>3, Distinct, WaitingType DEF Inv, TaskInv, FifoInv, NoDuplicateTask
<1> QED BY <1>1, <1>2, <1>3, <1>4 DEF Inv, TaskInv, Known

LEMMA StepOK ==
  ASSUME Inv, [Step]_vars
  PROVE  Inv'
<1>1. CASE UNCHANGED vars
  BY <1>1 DEF vars, fifoVars, Inv, FifoInv, TaskInv, Known, NoDuplicateTask
<1> QED BY <1>1, FindOK, DispatchOK, DispatchDoneOK, TakeOK, ProcessOK DEF Step

LEMMA InvHolds == Spec => []Inv
BY InitOK, StepOK, PTL DEF Spec

\* For every number of swaps and every chunk size, no swap is queued or worked on twice,
\* although the producer adds the task and its key in two steps.
THEOREM NoDuplicateTaskHolds == Spec => []NoDuplicateTask
<1>1. Inv => NoDuplicateTask
  BY DEF Inv, TaskInv
<1> QED BY <1>1, InvHolds, PTL

\* For every chunk size the chunked queue of fifo.go implements the abstract queue, also
\* where a chunk is filled, reset or dropped.
THEOREM ChunksAreAQueue == Spec => ImplementsQueue
<1>1. Init => Queue!Init
  <2> SUFFICES ASSUME Init PROVE Queue!Init
    OBVIOUS
  <2>1. Inv
    BY InitOK
  <2>2. Waiting(chunks) \in Seq(Items) /\ Len(Waiting(chunks)) = Held(chunks)
    BY <2>1, WaitingType DEF Inv, FifoInv
  <2>3. Held(chunks) = 0
    <3>1. Len(chunks) = 1 /\ chunks[1] = newChunk
      BY DEF Init, NewQueue
    <3> QED BY <3>1, FifoAssumption DEF Held, newChunk
  <2>4. Waiting(chunks) = <<>>
    BY <2>2, <2>3, EmptySeq
  <2> QED BY <2>4 DEF Queue!Init, Init, NewQueue
<1>2. ASSUME Inv, [Step]_vars
      PROVE  [Queue!Next \/ \E item \in Items : Queue!Add(item)]_<<Waiting(chunks), returned>>
  <2>1. ASSUME NEW key \in Items, Dispatch(key)
        PROVE  UNCHANGED <<Waiting(chunks), returned>> \/ Queue!Add(key)
    <3>1. CASE key \in tasksInQueue
      BY <2>1, <3>1 DEF Dispatch, fifoVars
    <3>2. CASE key \notin tasksInQueue
      <4>1. Add(key)
        BY <2>1, <3>2 DEF Dispatch
      <4>2. Waiting(chunks') = Append(Waiting(chunks), key) /\ returned' = returned
        BY <1>2, <4>1, AddOK DEF Inv, Add
      <4> QED BY <4>2 DEF Queue!Add
    <3> QED BY <3>1, <3>2
  <2>2. ASSUME Take PROVE Queue!Next
    <3>1. Waiting(chunks) \in Seq(Items) /\ Len(Waiting(chunks)) = Held(chunks) /\ Held(chunks) \in Nat
      BY <1>2, ShapeFacts, WaitingType DEF Inv, FifoInv
    <3>2. CASE Held(chunks) = 0 /\ returned' = nil /\ chunks' = chunks
      <4>1. Waiting(chunks) = <<>>
        BY <3>1, <3>2, EmptySeq
      <4> QED BY <3>2, <4>1 DEF Queue!Next
    <3>3. CASE /\ Held(chunks) > 0 /\ returned' = Waiting(chunks)[1]
               /\ Waiting(chunks') = Tail(Waiting(chunks))
      <4>1. Waiting(chunks) # <<>> /\ Head(Waiting(chunks)) = Waiting(chunks)[1]
        BY <3>1, <3>3
      <4> QED BY <3>3, <4>1 DEF Queue!Next
    <3>4. Next
      BY <2>2 DEF Take
    <3> QED BY <1>2, <3>2, <3>3, <3>4, NextOK DEF Inv
  <2>3. ASSUME Find \/ DispatchDone \/ Process \/ UNCHANGED vars
        PROVE  UNCHANGED <<Waiting(chunks), returned>>
    BY <2>3 DEF Find, DispatchDone, Process, vars, fifoVars
  <2> QED BY <1>2, <2>1, <2>2, <2>3 DEF Step
<1> QED BY <1>1, <1>2, InvHolds, PTL DEF Spec, ImplementsQueue, Queue!Spec

=============================================================================

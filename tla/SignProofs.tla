------------------------------ MODULE SignProofs ------------------------------
(***************************************************************************)
(* Proofs about SignClient for every set of calls, initiators and groups.  *)
(*                                                                         *)
(* RValueUsedOnce rests on the collection of used r values: what a call    *)
(* returned is in it, and a call only returns what was not.                *)
(* HealthyGroupStays rests on the arrays behind the lists: while the       *)
(* goroutine that appends works on a slice it has read without the lock,   *)
(* that slice begins with the list or the list was reset to all groups.    *)
(***************************************************************************)
EXTENDS SignClient, SequenceTheorems, WellFoundedInduction, TLAPS

InLoop == {"request", "count", "delete", "rvalue"}
PCs == InLoop \cup {"ping", "done", "failed"}

CallRec == [pc : PCs, loop : Nat, node : 1 .. Len(Initiators), groups : Seq(Nat),
            start : Nat, at : Nat, old : Nat, rsvs : SUBSET RValues]

\* The groups of a call in the loop over groups are those of its initiator, and it is at
\* one of them.
CallOK(c) ==
  /\ c \in CallRec
  /\ c.pc \in InLoop => /\ c.groups \in Seq(Indexes(Initiators[c.node]))
                        /\ c.at \in 0 .. Len(c.groups) - 1

AdderRec == [pc : {"sleep", "scan", "append", "zero"}, seen : SUBSET Nat, i : Nat,
             list : Seq(Nat), shared : BOOLEAN]

AdderOK(n, a) ==
  /\ a \in AdderRec
  /\ a.list \in Seq(Indexes(n))
  /\ a.i \in Indexes(n)

\* Every index is one of a group of the initiator: no list is read out of range.
TypeInv ==
  /\ call \in [Calls -> CallRec] /\ \A k \in Calls : CallOK(call[k])
  /\ usable \in [Nodes -> Seq(Nat)] /\ \A n \in Nodes : usable[n] \in Seq(Indexes(n))
  /\ failures \in [Groups -> [count : Nat, recent : BOOLEAN]]
  /\ adder \in [Nodes -> AdderRec] /\ \A n \in Nodes : AdderOK(n, adder[n])
  /\ usedR \subseteq RValues
  /\ everFailed \subseteq Groups

\* What an EC call returned is used up, and no other one returned it.
UsedInv ==
  /\ \A k \in ECCalls : call[k].pc = "done" => call[k].rsvs \subseteq usedR
  /\ RValueUsedOnce

-----------------------------------------------------------------------------

Healthy(n) == {i \in Indexes(n) : SignGroups[n][i] \notin everFailed}

\* The list is where the slice begins.
Begins(slice, list) ==
  Len(list) <= Len(slice) /\ \A x \in 1 .. Len(list) : slice[x] = list[x]

HealthyInv ==
  /\ \A n \in Nodes : Healthy(n) \subseteq Range(usable[n])
  /\ \A k \in Calls : call[k].pc \in {"count", "delete"} => Group(k) \in everFailed
  /\ \A n \in Nodes : adder[n].pc = "append" => Healthy(n) \subseteq Range(adder[n].list)
  /\ \A n \in Nodes : adder[n].shared => adder[n].pc = "append" /\ Begins(adder[n].list, usable[n])

Inv == TypeInv /\ UsedInv /\ HealthyInv

-----------------------------------------------------------------------------
(* Facts about lists *)

\* A set of natural numbers that is not empty has a least element, and Min is it.
LEMMA NatMin ==
  ASSUME NEW S, S \subseteq Nat, S # {}
  PROVE  Min(S) \in S /\ \A y \in S : Min(S) <= y
<1>1. PICK x \in S : \A y \in S : ~(<<y, x>> \in OpToRel(<, Nat))
  BY WFMin, NatLessThanWellFounded
<1>2. \A y \in S : ~(y < x)
  BY <1>1 DEF OpToRel
<1>3. \E z \in S : \A y \in S : z <= y
  BY <1>2
<1> QED BY <1>3, Zenon DEF Min

\* Where deleteSignGroup's loop stops: at a place that holds the index, or at none.
LEMMA Found ==
  ASSUME NEW list \in Seq(Nat), NEW i
  PROVE  LET p == SelectInSeq(list, LAMBDA x : x = i)
         IN  (p = 0 /\ \A x \in 1 .. Len(list) : list[x] # i) \/ (p \in 1 .. Len(list) /\ list[p] = i)
<1> DEFINE I == {x \in 1 .. Len(list) : list[x] = i}
<1>1. SelectInSeq(list, LAMBDA x : x = i) = IF I # {} THEN Min(I) ELSE 0
  BY DEF SelectInSeq
<1>2. I # {} => Min(I) \in I
  <2>1. I \subseteq Nat
    OBVIOUS
  <2> HIDE DEF I
  <2> QED BY <2>1, NatMin
<1> QED BY <1>1, <1>2

\* RemoveAt closes the gap.
LEMMA Removed ==
  ASSUME NEW S, NEW list \in Seq(S), NEW p \in 1 .. Len(list)
  PROVE  /\ RemoveAt(list, p) \in Seq(S)
         /\ Len(RemoveAt(list, p)) = Len(list) - 1
         /\ \A x \in 1 .. Len(list) - 1 :
              RemoveAt(list, p)[x] = IF x < p THEN list[x] ELSE list[x + 1]
<1> DEFINE front == SubSeq(list, 1, p - 1)
           rear == SubSeq(list, p + 1, Len(list))
<1>1. front \in Seq(S) /\ Len(front) = p - 1 /\ \A x \in 1 .. p - 1 : front[x] = list[x]
  OBVIOUS
<1>2. /\ rear \in Seq(S) /\ Len(rear) = Len(list) - p
      /\ \A x \in 1 .. Len(list) - p : rear[x] = list[x + p]
  OBVIOUS
<1>3. RemoveAt(list, p) = front \o rear
  BY DEF RemoveAt
<1> HIDE DEF front, rear
<1>4. /\ front \o rear \in Seq(S) /\ Len(front \o rear) = Len(list) - 1
      /\ \A x \in 1 .. Len(list) - 1 :
           (front \o rear)[x] = IF x <= p - 1 THEN front[x] ELSE rear[x - (p - 1)]
  <2>1. /\ front \o rear \in Seq(S)
        /\ Len(front \o rear) = Len(front) + Len(rear)
        /\ \A x \in 1 .. Len(front) + Len(rear) :
             (front \o rear)[x] = IF x <= Len(front) THEN front[x] ELSE rear[x - Len(front)]
    BY <1>1, <1>2, ConcatProperties
  <2>2. Len(front) + Len(rear) = Len(list) - 1
    BY <1>1, <1>2
  <2> QED BY <1>1, <2>1, <2>2
<1>5. ASSUME NEW x \in 1 .. Len(list) - 1, x >= p
      PROVE  rear[x - (p - 1)] = list[x + 1]
  <2>1. x - (p - 1) \in 1 .. Len(list) - p /\ (x - (p - 1)) + p = x + 1
    BY <1>5
  <2> QED BY <1>2, <2>1
<1> QED BY <1>1, <1>3, <1>4, <1>5

\* The elements of a list in terms of its places.
LEMMA InRange ==
  ASSUME NEW S, NEW list \in Seq(S), NEW e
  PROVE  e \in Range(list) <=> \E x \in 1 .. Len(list) : list[x] = e
BY DEF Range

-----------------------------------------------------------------------------
(* DoSign *)

\* The initiators and their groups are sequences that are not empty.
LEMMA Shapes ==
  /\ Initiators \in Seq(Nodes) /\ Len(Initiators) \in Nat \ {0}
  /\ \A x \in 1 .. Len(Initiators) : Initiators[x] \in Nodes
  /\ \A n \in Nodes : /\ Len(SignGroups[n]) \in Nat \ {0}
                      /\ \A i \in Indexes(n) : SignGroups[n][i] \in Groups
<1>1. /\ Initiators \in Seq(Nodes) /\ Len(Initiators) \in Nat \ {0}
      /\ DOMAIN Initiators = 1 .. Len(Initiators)
  BY SignClientAssumption, EmptySeq DEF Nodes
<1>2. \A x \in 1 .. Len(Initiators) : Initiators[x] \in Nodes
  BY <1>1
<1>3. ASSUME NEW n \in Nodes
      PROVE  /\ Len(SignGroups[n]) \in Nat \ {0}
             /\ \A i \in Indexes(n) : SignGroups[n][i] \in Groups
  <2>1. PICK x \in DOMAIN Initiators : n = Initiators[x]
    BY DEF Nodes, Range
  <2>2. SignGroups[n] \in Seq(Range(SignGroups[n])) /\ SignGroups[n] # <<>>
    BY <2>1, SignClientAssumption
  <2>3. Len(SignGroups[n]) \in Nat \ {0}
    BY <2>2, EmptySeq
  <2>4. \A i \in Indexes(n) : SignGroups[n][i] \in Range(SignGroups[n])
    BY <2>2 DEF Indexes
  <2> QED BY <2>3, <2>4 DEF Groups
<1> QED BY <1>1, <1>2, <1>3

\* The turn of an initiator ends outside the loop over groups.
LEMMA NextNodeOK ==
  ASSUME NEW c, CallOK(c)
  PROVE  /\ CallOK(NextNode(c))
         /\ NextNode(c).pc \in {"ping", "failed"}
         /\ NextNode(c).rsvs = c.rsvs
<1>1. /\ Cleared(c) \in CallRec /\ Cleared(c).node = c.node /\ Cleared(c).loop = c.loop
      /\ Cleared(c).rsvs = c.rsvs
  <2>1. c \in CallRec /\ <<>> \in Seq(Nat)
    BY DEF CallOK
  <2> QED BY <2>1 DEF CallRec, Cleared
<1> DEFINE d == Cleared(c)
<1> HIDE DEF d
<1>2. CASE c.node < Len(Initiators)
  <2>1. NextNode(c) = [d EXCEPT !.pc = "ping", !.node = @ + 1]
    BY <1>2 DEF NextNode, d
  <2>2. d.node + 1 \in 1 .. Len(Initiators) /\ d \in CallRec
    BY <1>1, <1>2, Shapes DEF d, CallRec
  <2>3. NextNode(c) \in CallRec
    BY <2>1, <2>2 DEF CallRec, PCs
  <2>4. NextNode(c).pc = "ping" /\ NextNode(c).rsvs = d.rsvs
    BY <2>1, <2>2 DEF CallRec
  <2> QED BY <1>1, <2>3, <2>4 DEF CallOK, InLoop, d
<1>3. CASE c.node = Len(Initiators) /\ c.loop < retrySignLoop
  <2>1. NextNode(c) = [d EXCEPT !.pc = "ping", !.node = 1, !.loop = @ + 1]
    BY <1>3, Shapes DEF NextNode, d
  <2>2. 1 \in 1 .. Len(Initiators) /\ d.loop + 1 \in Nat /\ d \in CallRec
    BY <1>1, Shapes DEF d, CallRec
  <2>3. NextNode(c) \in CallRec
    BY <2>1, <2>2 DEF CallRec, PCs
  <2>4. NextNode(c).pc = "ping" /\ NextNode(c).rsvs = d.rsvs
    BY <2>1, <2>2 DEF CallRec
  <2> QED BY <1>1, <2>3, <2>4 DEF CallOK, InLoop, d
<1>4. CASE ~(c.node < Len(Initiators)) /\ ~(c.node = Len(Initiators) /\ c.loop < retrySignLoop)
  <2>1. NextNode(c) = [d EXCEPT !.pc = "failed"]
    BY <1>4 DEF NextNode, d
  <2>2. d \in CallRec
    BY <1>1 DEF d
  <2>3. NextNode(c) \in CallRec
    BY <2>1, <2>2 DEF CallRec, PCs
  <2>4. NextNode(c).pc = "failed" /\ NextNode(c).rsvs = d.rsvs
    BY <2>1, <2>2 DEF CallRec
  <2> QED BY <1>1, <2>3, <2>4 DEF CallOK, InLoop, d
<1> QED BY <1>2, <1>3, <1>4

\* The next group is one of the list, or the initiator's turn ends.
LEMMA NextGroupOK ==
  ASSUME NEW c, CallOK(c), c.pc \in InLoop
  PROVE  /\ CallOK(NextGroup(c))
         /\ NextGroup(c).pc \in {"ping", "failed", "request"}
         /\ NextGroup(c).rsvs = c.rsvs
<1> DEFINE at == (c.at + 1) % Len(c.groups)
<1>1. at \in 0 .. Len(c.groups) - 1
  <2>1. Len(c.groups) \in Nat \ {0} /\ c.at + 1 \in Nat
    BY DEF CallOK, CallRec
  <2> QED BY <2>1
<1> HIDE DEF at
<1>2. CASE at = c.start
  BY <1>2, NextNodeOK DEF NextGroup, at
<1>3. CASE at # c.start
  <2> DEFINE d == [c EXCEPT !.pc = "request", !.at = at, !.old = 0]
  <2>1. NextGroup(c) = d
    BY <1>3 DEF NextGroup, at
  <2>2. c \in CallRec /\ at \in Nat
    BY <1>1 DEF CallOK, CallRec
  <2>3. /\ d \in CallRec /\ d.pc = "request" /\ d.at = at
        /\ d.groups = c.groups /\ d.node = c.node /\ d.rsvs = c.rsvs
    BY <2>2 DEF CallRec, PCs, InLoop
  <2> HIDE DEF d
  <2> QED BY <1>1, <2>1, <2>3 DEF CallOK
<1> QED BY <1>2, <1>3

\* A call that returns nothing leaves what was returned used up, and once.
LEMMA NothingReturned ==
  ASSUME UsedInv, NEW k \in Calls, NEW c, c.pc # "done", usedR \subseteq usedR',
         \A j \in Calls : call'[j] = IF j = k THEN c ELSE call[j]
  PROVE  UsedInv'
<1>1. \A j \in ECCalls : call'[j].pc = "done" => call'[j] = call[j]
  BY SignClientAssumption
<1>2. \A j \in ECCalls : call'[j].pc = "done" => call'[j].rsvs \subseteq usedR'
  BY <1>1 DEF UsedInv
<1>3. RValueUsedOnce'
  BY <1>1 DEF UsedInv, RValueUsedOnce
<1> QED BY <1>2, <1>3 DEF UsedInv

\* A call that is not done goes on: its new local variables are right, and it neither
\* returns anything nor holds a failure against a group.
LEMMA GoesOn ==
  ASSUME Inv, NEW k \in Calls, NEW c, CallOK(c), SetCall(k, c), c.pc # "done",
         c.pc \in {"count", "delete"} => SignGroups[Initiators[c.node]][c.groups[c.at + 1]] \in everFailed',
         everFailed \subseteq everFailed', usedR \subseteq usedR', UNCHANGED <<usable, adder>>,
         failures' \in [Groups -> [count : Nat, recent : BOOLEAN]],
         usedR' \subseteq RValues, everFailed' \subseteq Groups
  PROVE  Inv'
<1>1. /\ \A j \in Calls : call'[j] = IF j = k THEN c ELSE call[j]
      /\ call' \in [Calls -> CallRec]
  BY DEF Inv, TypeInv, SetCall, CallOK
<1>2. TypeInv'
  BY <1>1 DEF Inv, TypeInv
<1>3. UsedInv'
  BY <1>1, NothingReturned DEF Inv
<1>4. \A n \in Nodes : Healthy(n)' \subseteq Healthy(n)
  BY DEF Healthy
<1>5. \A j \in Calls : call'[j].pc \in {"count", "delete"} => Group(j)' \in everFailed'
  BY <1>1 DEF Inv, HealthyInv, Group, Node, Index
<1>6. HealthyInv'
  BY <1>4, <1>5 DEF Inv, HealthyInv
<1> QED BY <1>2, <1>3, <1>6 DEF Inv

LEMMA PingNodeOK ==
  ASSUME Inv, NEW k \in Calls, PingNode(k)
  PROVE  Inv'
<1>0. CallOK(call[k]) /\ call[k].pc = "ping" /\ UNCHANGED <<usable, failures, adder, usedR, everFailed>>
  BY DEF Inv, TypeInv, PingNode
<1>1. CASE SetCall(k, NextNode(call[k]))
  BY <1>0, <1>1, NextNodeOK, GoesOn DEF Inv, TypeInv
<1>2. ASSUME NEW i \in 0 .. Len(usable[Node(k)]) - 1,
             SetCall(k, [call[k] EXCEPT !.pc = "request", !.groups = usable[Node(k)],
                                        !.start = i, !.at = i])
      PROVE  Inv'
  <2> DEFINE c == [call[k] EXCEPT !.pc = "request", !.groups = usable[Node(k)], !.start = i, !.at = i]
  <2>1. Node(k) \in Nodes
    BY <1>0, Shapes DEF Node, CallOK, CallRec
  <2>2. usable[Node(k)] \in Seq(Nat) /\ usable[Node(k)] \in Seq(Indexes(Node(k)))
    BY <2>1 DEF Inv, TypeInv
  <2>3. i \in Nat /\ i \in 0 .. Len(usable[Node(k)]) - 1
    BY <1>2
  <2>4. /\ c \in CallRec /\ c.pc = "request" /\ c.at = i
        /\ c.groups = usable[Node(k)] /\ c.node = call[k].node
    BY <1>0, <2>2, <2>3 DEF CallOK, CallRec, PCs, InLoop
  <2> HIDE DEF c
  <2>5. CallOK(c)
    BY <2>2, <2>3, <2>4 DEF CallOK, Node
  <2>6. SetCall(k, c)
    BY <1>2 DEF c
  <2> QED BY <1>0, <2>4, <2>5, <2>6, GoesOn DEF Inv, TypeInv
<1> QED BY <1>1, <1>2 DEF PingNode

LEMMA PostSignFailsOK ==
  ASSUME Inv, NEW k \in Calls, PostSignFails(k)
  PROVE  Inv'
<1>1. CallOK(call[k]) /\ call[k].pc \in InLoop
  BY DEF Inv, TypeInv, PostSignFails, InLoop
<1> QED BY <1>1, NextGroupOK, GoesOn DEF PostSignFails, Inv, TypeInv

\* The group a call is at is one of the groups.
LEMMA GroupType ==
  ASSUME TypeInv, NEW k \in Calls, call[k].pc \in InLoop
  PROVE  Node(k) \in Nodes /\ Index(k) \in Indexes(Node(k)) /\ Group(k) \in Groups
<1>1. CallOK(call[k])
  BY DEF TypeInv
<1>2. Node(k) \in Nodes
  BY <1>1, Shapes DEF Node, CallOK, CallRec
<1>3. Index(k) \in Indexes(Node(k))
  <2>1. call[k].groups \in Seq(Indexes(Node(k))) /\ call[k].at \in 0 .. Len(call[k].groups) - 1
    BY <1>1 DEF CallOK, Node
  <2>2. call[k].at + 1 \in 1 .. Len(call[k].groups)
    BY <2>1
  <2> QED BY <2>1, <2>2, ElementOfSeq DEF Index
<1> QED BY <1>2, <1>3, Shapes DEF Group

LEMMA GetSignResultOK ==
  ASSUME Inv, NEW k \in Calls, NEW rsvs \in SUBSET RValues, GetSignResult(k, rsvs)
  PROVE  Inv'
<1> DEFINE c == [call[k] EXCEPT !.pc = "rvalue", !.rsvs = rsvs]
<1>1. CallOK(call[k]) /\ call[k].pc \in InLoop
  BY DEF Inv, TypeInv, GetSignResult, InLoop
<1>2. CallOK(c) /\ c.pc = "rvalue"
  BY <1>1 DEF CallOK, CallRec, PCs, InLoop
<1>3. failures' \in [Groups -> [count : Nat, recent : BOOLEAN]]
  BY <1>1, GroupType DEF Inv, TypeInv, GetSignResult
<1> QED BY <1>2, <1>3, GoesOn DEF GetSignResult, Inv, TypeInv

LEMMA GetSignResultFailsOK ==
  ASSUME Inv, NEW k \in Calls, GetSignResultFails(k)
  PROVE  Inv'
<1>1. CallOK(call[k]) /\ call[k].pc \in InLoop
  BY DEF Inv, TypeInv, GetSignResultFails, InLoop
<1>2. Group(k) \in Groups /\ failures[Group(k)].count \in Nat
  BY <1>1, GroupType DEF Inv, TypeInv
<1>3. CASE maxSignGroupFailures = 0
  BY <1>1, <1>2, <1>3, NextGroupOK, GoesOn DEF GetSignResultFails, Inv, TypeInv
<1>4. CASE maxSignGroupFailures # 0
  <2> DEFINE c == [call[k] EXCEPT !.pc = "count", !.old = failures[Group(k)].count]
  <2>1. /\ CallOK(c) /\ c.pc = "count"
        /\ SignGroups[Initiators[c.node]][c.groups[c.at + 1]] = Group(k)
    BY <1>1, <1>2 DEF CallOK, CallRec, PCs, InLoop, Group, Node, Index
  <2>2. SetCall(k, c)
    BY <1>4 DEF GetSignResultFails
  <2> HIDE DEF c
  <2> QED BY <1>2, <2>1, <2>2, GoesOn DEF GetSignResultFails, Inv, TypeInv
<1> QED BY <1>3, <1>4

LEMMA CountFailureOK ==
  ASSUME Inv, NEW k \in Calls, CountFailure(k)
  PROVE  Inv'
<1>1. CallOK(call[k]) /\ call[k].pc = "count" /\ call[k].pc \in InLoop /\ Group(k) \in everFailed
  BY DEF Inv, TypeInv, CountFailure, InLoop, HealthyInv
<1>2. failures' \in [Groups -> [count : Nat, recent : BOOLEAN]]
  <2>1. {call[k].old + 1, maxSignGroupFailures} \subseteq Nat
    <3>1. maxSignGroupFailures \in Nat
      BY SignClientAssumption
    <3>2. call[k].old \in Nat
      BY <1>1 DEF CallOK, CallRec
    <3> QED BY <3>1, <3>2
  <2>2. Min({call[k].old + 1, maxSignGroupFailures}) \in Nat
    BY <2>1, NatMin
  <2> QED BY <2>2 DEF CountFailure, Inv, TypeInv
<1>3. CASE call[k].old + 1 >= maxSignGroupFailures
  <2> DEFINE c == [call[k] EXCEPT !.pc = "delete"]
  <2>1. /\ CallOK(c) /\ c.pc = "delete"
        /\ SignGroups[Initiators[c.node]][c.groups[c.at + 1]] = Group(k)
    BY <1>1 DEF CallOK, CallRec, PCs, InLoop, Group, Node, Index
  <2>2. SetCall(k, c)
    BY <1>3 DEF CountFailure
  <2> HIDE DEF c
  <2> QED BY <1>1, <1>2, <2>1, <2>2, GoesOn DEF CountFailure, Inv, TypeInv
<1>4. CASE ~(call[k].old + 1 >= maxSignGroupFailures)
  BY <1>1, <1>2, <1>4, NextGroupOK, GoesOn DEF CountFailure, Inv, TypeInv
<1> QED BY <1>3, <1>4

\* A call that is not done goes on while the lists change.
LEMMA ListsChange ==
  ASSUME Inv, NEW k \in Calls, NEW c, CallOK(c), SetCall(k, c),
         c.pc \notin {"done", "count", "delete"},
         UNCHANGED <<failures, usedR, everFailed>>,
         usable' \in [Nodes -> Seq(Nat)], \A n \in Nodes : usable'[n] \in Seq(Indexes(n)),
         adder' \in [Nodes -> AdderRec], \A n \in Nodes : AdderOK(n, adder'[n]),
         \A n \in Nodes : Healthy(n) \subseteq Range(usable'[n]),
         \A n \in Nodes : adder'[n].pc = "append" => Healthy(n) \subseteq Range(adder'[n].list),
         \A n \in Nodes : adder'[n].shared =>
           adder'[n].pc = "append" /\ Begins(adder'[n].list, usable'[n])
  PROVE  Inv'
<1>1. /\ \A j \in Calls : call'[j] = IF j = k THEN c ELSE call[j]
      /\ call' \in [Calls -> CallRec]
  BY DEF Inv, TypeInv, SetCall, CallOK
<1>2. TypeInv'
  BY <1>1 DEF Inv, TypeInv
<1>3. UsedInv'
  BY <1>1, NothingReturned DEF Inv
<1>4. \A j \in Calls : call'[j].pc \in {"count", "delete"} => Group(j)' \in everFailed'
  BY <1>1 DEF Inv, HealthyInv, Group, Node, Index
<1>5. \A n \in Nodes : Healthy(n)' = Healthy(n)
  BY DEF Healthy
<1>6. HealthyInv'
  BY <1>4, <1>5 DEF HealthyInv
<1> QED BY <1>2, <1>3, <1>6 DEF Inv

\* Removing an index from a list, and the same removal seen through a slice that begins
\* with the list: the other elements stay, and the slice still begins with the list.
LEMMA ShiftOK ==
  ASSUME NEW S, NEW list \in Seq(S), NEW slice \in Seq(S), Begins(slice, list),
         NEW p \in 1 .. Len(list)
  PROVE  /\ Shift(slice, p, Len(list)) \in Seq(S)
         /\ Begins(Shift(slice, p, Len(list)), RemoveAt(list, p))
<1> DEFINE new == Shift(slice, p, Len(list))
<1>1. DOMAIN slice = 1 .. Len(slice) /\ Len(slice) \in Nat /\ Len(list) \in Nat /\ Len(list) <= Len(slice)
  BY DEF Begins
<1>2. new = [x \in 1 .. Len(slice) |-> IF p <= x /\ x < Len(list) THEN slice[x + 1] ELSE slice[x]]
  BY <1>1 DEF Shift
<1>3. \A x \in 1 .. Len(slice) : (IF p <= x /\ x < Len(list) THEN slice[x + 1] ELSE slice[x]) \in S
  BY <1>1
<1>4. new \in Seq(S) /\ Len(new) = Len(slice)
  BY <1>1, <1>2, <1>3
<1>5. \A x \in 1 .. Len(list) - 1 : new[x] = RemoveAt(list, p)[x]
  <2> TAKE x \in 1 .. Len(list) - 1
  <2>1. new[x] = IF p <= x THEN slice[x + 1] ELSE slice[x]
    BY <1>1, <1>2
  <2>2. slice[x] = list[x] /\ slice[x + 1] = list[x + 1]
    BY <1>1 DEF Begins
  <2>3. RemoveAt(list, p)[x] = IF x < p THEN list[x] ELSE list[x + 1]
    BY Removed
  <2> QED BY <1>1, <2>1, <2>2, <2>3
<1>6. Len(RemoveAt(list, p)) = Len(list) - 1
  BY Removed
<1> HIDE DEF new
<1> QED BY <1>1, <1>4, <1>5, <1>6 DEF Begins, new

\* Only the index itself leaves the list.
LEMMA OthersStay ==
  ASSUME NEW S, NEW list \in Seq(S), NEW p \in 1 .. Len(list), NEW e \in Range(list), e # list[p]
  PROVE  e \in Range(RemoveAt(list, p))
<1>1. PICK x \in 1 .. Len(list) : list[x] = e
  BY InRange
<1>2. /\ RemoveAt(list, p) \in Seq(S) /\ Len(RemoveAt(list, p)) = Len(list) - 1
      /\ \A y \in 1 .. Len(list) - 1 :
           RemoveAt(list, p)[y] = IF y < p THEN list[y] ELSE list[y + 1]
  BY Removed
<1>3. CASE x < p
  <2>1. x \in 1 .. Len(list) - 1 /\ RemoveAt(list, p)[x] = e
    BY <1>1, <1>2, <1>3
  <2> QED BY <1>2, <2>1, InRange
<1>4. CASE x > p
  <2>1. x - 1 \in 1 .. Len(list) - 1 /\ ~(x - 1 < p) /\ (x - 1) + 1 = x
    BY <1>4
  <2>2. RemoveAt(list, p)[x - 1] = e
    BY <1>1, <1>2, <2>1
  <2> QED BY <1>2, <2>1, <2>2, InRange
<1> QED BY <1>1, <1>3, <1>4

\* What begins with a list has its elements.
LEMMA BeginsRange ==
  ASSUME NEW S, NEW list \in Seq(S), NEW slice \in Seq(S), Begins(slice, list)
  PROVE  Range(list) \subseteq Range(slice)
BY InRange DEF Begins

LEMMA OriginOK ==
  ASSUME NEW n \in Nodes
  PROVE  /\ OriginIndexes(n) \in Seq(Indexes(n)) /\ OriginIndexes(n) \in Seq(Nat)
         /\ Indexes(n) \subseteq Range(OriginIndexes(n))
<1>1. Len(SignGroups[n]) \in Nat
  BY Shapes
<1>2. OriginIndexes(n) \in Seq(Indexes(n)) /\ Len(OriginIndexes(n)) = Len(SignGroups[n])
  BY <1>1 DEF OriginIndexes, Indexes
<1>3. \A i \in Indexes(n) : OriginIndexes(n)[i] = i
  BY DEF OriginIndexes
<1>4. Indexes(n) \subseteq Range(OriginIndexes(n))
  BY <1>2, <1>3, InRange DEF Indexes
<1> QED BY <1>1, <1>2, <1>4, SeqMonotonic DEF Indexes

LEMMA DeleteSignGroupOK ==
  ASSUME Inv, NEW k \in Calls, DeleteSignGroup(k)
  PROVE  Inv'
<1> DEFINE n == Node(k)
           i == Index(k)
           list == usable[n]
           p == SelectInSeq(list, LAMBDA x : x = i)
<1>1. /\ CallOK(call[k]) /\ call[k].pc \in InLoop /\ Group(k) \in everFailed
      /\ SetCall(k, NextGroup(call[k])) /\ UNCHANGED <<failures, usedR, everFailed>>
  BY DEF Inv, TypeInv, DeleteSignGroup, InLoop, HealthyInv
<1>2. n \in Nodes /\ i \in Indexes(n) /\ i \notin Healthy(n)
  BY <1>1, GroupType DEF Inv, Healthy, Group
<1>3. list \in Seq(Nat) /\ list \in Seq(Indexes(n)) /\ Healthy(n) \subseteq Range(list)
  BY <1>2 DEF Inv, TypeInv, HealthyInv
<1>4. \/ p = 0 /\ \A x \in 1 .. Len(list) : list[x] # i
      \/ p \in 1 .. Len(list) /\ list[p] = i
  BY <1>3, Found
<1>5. AdderOK(n, adder[n]) /\ (adder[n].shared => adder[n].pc = "append" /\ Begins(adder[n].list, list))
  BY <1>2 DEF Inv, TypeInv, HealthyInv
<1>a. CallOK(NextGroup(call[k])) /\ NextGroup(call[k]).pc \notin {"done", "count", "delete"}
  BY <1>1, NextGroupOK
<1>6. CASE p > 0
  <2> DEFINE new == RemoveAt(list, p)
             slice == IF adder[n].shared THEN Shift(adder[n].list, p, Len(list)) ELSE adder[n].list
  <2>1. usable' = [usable EXCEPT ![n] = new] /\ adder' = [adder EXCEPT ![n].list = slice]
    BY <1>6, <1>4 DEF DeleteSignGroup, DeleteAt
  <2>2. p \in 1 .. Len(list) /\ list[p] = i
    BY <1>4, <1>6
  <2>3. new \in Seq(Indexes(n)) /\ new \in Seq(Nat)
    BY <1>3, <2>2, Removed
  <2>4. Healthy(n) \subseteq Range(new)
    BY <1>2, <1>3, <2>2, OthersStay
  <2>5. slice \in Seq(Indexes(n)) /\ slice \in Seq(Nat) /\ (adder[n].shared => Begins(slice, new))
    BY <1>3, <1>5, <2>2, ShiftOK DEF AdderOK, AdderRec
  <2>6. adder[n].pc = "append" => Healthy(n) \subseteq Range(slice)
    <3>1. CASE adder[n].shared
      <4>1. Begins(slice, new)
        BY <2>5, <3>1
      <4> HIDE DEF new, slice
      <4>2. Range(new) \subseteq Range(slice)
        BY <2>3, <2>5, <4>1, BeginsRange
      <4> QED BY <2>4, <4>2
    <3>2. CASE ~adder[n].shared
      BY <1>2, <3>2 DEF Inv, HealthyInv
    <3> QED BY <3>1, <3>2
  <2> HIDE DEF new, slice, n
  <2>7. /\ usable' \in [Nodes -> Seq(Nat)] /\ adder' \in [Nodes -> AdderRec]
        /\ \A m \in Nodes : usable'[m] = IF m = n THEN new ELSE usable[m]
        /\ \A m \in Nodes : m # n => adder'[m] = adder[m]
        /\ adder'[n].list = slice /\ adder'[n].pc = adder[n].pc /\ adder'[n].i = adder[n].i
        /\ adder'[n].shared = adder[n].shared
    BY <1>2, <2>1, <2>3, <2>5 DEF Inv, TypeInv, AdderRec
  <2>8. \A m \in Nodes : AdderOK(m, adder'[m])
    <3>1. AdderOK(n, adder'[n])
      BY <1>2, <1>5, <2>5, <2>7 DEF AdderOK
    <3>2. \A m \in Nodes : m # n => AdderOK(m, adder'[m])
      BY <2>7 DEF Inv, TypeInv
    <3> QED BY <3>1, <3>2
  <2>9. \A m \in Nodes : usable'[m] \in Seq(Indexes(m)) /\ Healthy(m) \subseteq Range(usable'[m])
    BY <2>3, <2>4, <2>7 DEF Inv, TypeInv, HealthyInv
  <2>10. \A m \in Nodes : adder'[m].pc = "append" => Healthy(m) \subseteq Range(adder'[m].list)
    BY <2>6, <2>7 DEF Inv, HealthyInv
  <2>11. \A m \in Nodes : adder'[m].shared =>
           adder'[m].pc = "append" /\ Begins(adder'[m].list, usable'[m])
    <3>1. adder'[n].shared => adder'[n].pc = "append" /\ Begins(adder'[n].list, usable'[n])
      BY <1>2, <1>5, <2>5, <2>7
    <3>2. \A m \in Nodes : m # n => adder'[m] = adder[m] /\ usable'[m] = usable[m]
      BY <2>7
    <3> QED BY <3>1, <3>2 DEF Inv, HealthyInv
  <2> QED BY <1>1, <1>a, <2>7, <2>8, <2>9, <2>10, <2>11, ListsChange
<1>7. CASE p = 0 /\ list = <<>>
  <2>1. /\ usable' = [usable EXCEPT ![n] = OriginIndexes(n)]
        /\ adder' = [adder EXCEPT ![n].shared = FALSE]
    BY <1>7 DEF DeleteSignGroup
  <2>2. /\ OriginIndexes(n) \in Seq(Indexes(n)) /\ OriginIndexes(n) \in Seq(Nat)
        /\ Healthy(n) \subseteq Range(OriginIndexes(n))
    BY <1>2, OriginOK DEF Healthy
  <2> HIDE DEF n
  <2>3. /\ usable' \in [Nodes -> Seq(Nat)] /\ adder' \in [Nodes -> AdderRec]
        /\ \A m \in Nodes : usable'[m] = IF m = n THEN OriginIndexes(n) ELSE usable[m]
        /\ \A m \in Nodes : m # n => adder'[m] = adder[m]
        /\ adder'[n].list = adder[n].list /\ adder'[n].pc = adder[n].pc /\ adder'[n].i = adder[n].i
        /\ adder'[n].shared = FALSE
    BY <1>2, <2>1, <2>2 DEF Inv, TypeInv, AdderRec
  <2>4. \A m \in Nodes : AdderOK(m, adder'[m])
    <3>1. AdderOK(n, adder'[n])
      BY <1>2, <1>5, <2>3 DEF AdderOK
    <3>2. \A m \in Nodes : m # n => AdderOK(m, adder'[m])
      BY <2>3 DEF Inv, TypeInv
    <3> QED BY <3>1, <3>2
  <2>5. \A m \in Nodes : usable'[m] \in Seq(Indexes(m)) /\ Healthy(m) \subseteq Range(usable'[m])
    BY <2>2, <2>3 DEF Inv, TypeInv, HealthyInv
  <2>6. \A m \in Nodes : adder'[m].pc = "append" => Healthy(m) \subseteq Range(adder'[m].list)
    BY <2>3 DEF Inv, HealthyInv
  <2>7. \A m \in Nodes : adder'[m].shared =>
           adder'[m].pc = "append" /\ Begins(adder'[m].list, usable'[m])
    BY <2>3 DEF Inv, HealthyInv
  <2> QED BY <1>1, <1>a, <2>3, <2>4, <2>5, <2>6, <2>7, ListsChange
<1>8. CASE p = 0 /\ list # <<>>
  <2>1. UNCHANGED <<usable, adder>>
    BY <1>8 DEF DeleteSignGroup
  <2> QED BY <1>1, <1>a, <2>1, ListsChange DEF Inv, TypeInv, HealthyInv
<1> QED BY <1>4, <1>6, <1>7, <1>8

\* A call returns: its r values are used up now, and were not before.
LEMMA Returns ==
  ASSUME Inv, NEW k \in Calls, NEW c, CallOK(c), SetCall(k, c), c.pc = "done",
         call[k].pc # "done",
         k \in ECCalls => c.rsvs \cap usedR = {} /\ c.rsvs \subseteq usedR',
         usedR \subseteq usedR', usedR' \subseteq RValues,
         UNCHANGED <<usable, failures, adder, everFailed>>
  PROVE  Inv'
<1>1. /\ \A j \in Calls : call'[j] = IF j = k THEN c ELSE call[j]
      /\ call' \in [Calls -> CallRec]
  BY DEF Inv, TypeInv, SetCall, CallOK
<1>2. TypeInv'
  BY <1>1 DEF Inv, TypeInv
<1>3. UsedInv'
  <2>1. \A j \in ECCalls : call'[j].pc = "done" => call'[j].rsvs \subseteq usedR'
    BY <1>1, SignClientAssumption DEF Inv, UsedInv
  <2>2. \A j \in ECCalls : j # k /\ k \in ECCalls /\ call[j].pc = "done" => call[j].rsvs \cap c.rsvs = {}
    BY DEF Inv, UsedInv
  <2>3. RValueUsedOnce'
    BY <1>1, <2>2, SignClientAssumption DEF Inv, UsedInv, RValueUsedOnce
  <2> QED BY <2>1, <2>3 DEF UsedInv
<1>4. \A j \in Calls : call'[j].pc \in {"count", "delete"} => Group(j)' \in everFailed'
  BY <1>1 DEF Inv, HealthyInv, Group, Node, Index
<1>5. HealthyInv'
  BY <1>4 DEF Inv, HealthyInv, Healthy
<1> QED BY <1>2, <1>3, <1>5 DEF Inv

LEMMA CheckRValuesOK ==
  ASSUME Inv, NEW k \in Calls, CheckRValues(k)
  PROVE  Inv'
<1> DEFINE c == [Cleared(call[k]) EXCEPT !.pc = "done"]
           d == [NextGroup(call[k]) EXCEPT !.rsvs = {}]
<1>1. /\ CallOK(call[k]) /\ call[k].pc \in InLoop /\ call[k].pc # "done"
      /\ call[k].rsvs \subseteq RValues /\ usedR \subseteq RValues
      /\ UNCHANGED <<usable, failures, adder, everFailed>>
  BY DEF Inv, TypeInv, CheckRValues, InLoop, CallOK, CallRec
<1>2. CallOK(c) /\ c.pc = "done" /\ c.rsvs = call[k].rsvs
  <2>1. call[k] \in CallRec /\ <<>> \in Seq(Nat)
    BY <1>1 DEF CallOK
  <2> QED BY <2>1 DEF CallOK, CallRec, Cleared, PCs, InLoop
<1>3. CallOK(d) /\ d.pc \notin {"done", "count", "delete"}
  BY <1>1, NextGroupOK DEF CallOK, CallRec
<1>4. CASE k \notin ECCalls
  BY <1>1, <1>2, <1>4, Returns DEF CheckRValues
<1>5. CASE k \in ECCalls /\ call[k].rsvs \cap usedR = {}
  <2>1. SetCall(k, c) /\ usedR' = usedR \cup call[k].rsvs
    BY <1>5 DEF CheckRValues, AddUsedRValues
  <2> HIDE DEF c
  <2> QED BY <1>1, <1>2, <1>5, <2>1, Returns
<1>6. CASE k \in ECCalls /\ call[k].rsvs \cap usedR # {}
  <2>1. SetCall(k, d) /\ usedR \subseteq usedR' /\ usedR' \subseteq RValues
    BY <1>1, <1>6 DEF CheckRValues, AddUsedRValues
  <2> HIDE DEF d
  <2> QED BY <1>1, <1>3, <2>1, GoesOn DEF Inv, TypeInv
<1> QED BY <1>4, <1>5, <1>6

-----------------------------------------------------------------------------
(* checkAndAddSignGroups *)

\* The goroutine of a node goes on while the calls stay where they are.
LEMMA AdderGoesOn ==
  ASSUME Inv, NEW n \in Nodes, NEW a, AdderOK(n, a), adder' = [adder EXCEPT ![n] = a],
         NEW list \in Seq(Indexes(n)), usable' = [usable EXCEPT ![n] = list],
         failures' \in [Groups -> [count : Nat, recent : BOOLEAN]],
         UNCHANGED <<call, usedR, everFailed>>,
         Healthy(n) \subseteq Range(list),
         a.pc = "append" => Healthy(n) \subseteq Range(a.list),
         a.shared => a.pc = "append" /\ Begins(a.list, list)
  PROVE  Inv'
<1>1. list \in Seq(Nat)
  BY SeqMonotonic DEF Indexes
<1>2. /\ \A m \in Nodes : adder'[m] = IF m = n THEN a ELSE adder[m]
      /\ \A m \in Nodes : usable'[m] = IF m = n THEN list ELSE usable[m]
      /\ adder' \in [Nodes -> AdderRec] /\ usable' \in [Nodes -> Seq(Nat)]
  BY <1>1 DEF Inv, TypeInv, AdderOK
<1>3. TypeInv'
  BY <1>2 DEF Inv, TypeInv
<1>4. UsedInv'
  BY DEF Inv, UsedInv, RValueUsedOnce
<1>5. \A k \in Calls : call'[k].pc \in {"count", "delete"} => Group(k)' \in everFailed'
  BY DEF Inv, HealthyInv, Group, Node, Index
<1>6. \A m \in Nodes : Healthy(m)' = Healthy(m)
  BY DEF Healthy
<1>7. HealthyInv'
  BY <1>2, <1>5, <1>6 DEF Inv, HealthyInv
<1> QED BY <1>3, <1>4, <1>7 DEF Inv

\* What is known of the goroutine of a node.
LEMMA AdderFacts ==
  ASSUME Inv, NEW n \in Nodes
  PROVE  /\ AdderOK(n, adder[n]) /\ usable[n] \in Seq(Indexes(n)) /\ usable[n] \in Seq(Nat)
         /\ usable = [usable EXCEPT ![n] = usable[n]]
         /\ Healthy(n) \subseteq Range(usable[n])
         /\ adder[n].shared => adder[n].pc = "append"
         /\ failures \in [Groups -> [count : Nat, recent : BOOLEAN]]
BY DEF Inv, TypeInv, HealthyInv

LEMMA NextIndexOK ==
  ASSUME NEW n \in Nodes, NEW a, AdderOK(n, a)
  PROVE  /\ AdderOK(n, NextIndex(n, a)) /\ NextIndex(n, a).pc \in {"scan", "sleep"}
         /\ NextIndex(n, a).shared = a.shared
<1>1. a \in AdderRec /\ a.i \in 1 .. Len(SignGroups[n]) /\ Len(SignGroups[n]) \in Nat \ {0}
  BY Shapes DEF AdderOK, Indexes
<1>2. CASE a.i < Len(SignGroups[n])
  <2> DEFINE b == [a EXCEPT !.pc = "scan", !.i = a.i + 1]
  <2>1. NextIndex(n, a) = b /\ a.i + 1 \in Nat /\ a.i + 1 \in Indexes(n)
    BY <1>1, <1>2 DEF NextIndex, Indexes
  <2>2. b \in AdderRec /\ b.pc = "scan" /\ b.i = a.i + 1 /\ b.shared = a.shared /\ b.list = a.list
    BY <1>1, <2>1 DEF AdderRec
  <2> HIDE DEF b
  <2> QED BY <2>1, <2>2 DEF AdderOK
<1>3. CASE ~(a.i < Len(SignGroups[n]))
  <2> DEFINE b == [a EXCEPT !.pc = "sleep", !.seen = {}, !.i = 1]
  <2>1. NextIndex(n, a) = b /\ 1 \in Indexes(n)
    BY <1>1, <1>3 DEF NextIndex, Indexes
  <2>2. b \in AdderRec /\ b.pc = "sleep" /\ b.i = 1 /\ b.shared = a.shared /\ b.list = a.list
    BY <1>1 DEF AdderRec
  <2> HIDE DEF b
  <2> QED BY <2>1, <2>2 DEF AdderOK
<1> QED BY <1>2, <1>3

LEMMA AddScanOK ==
  ASSUME Inv, NEW n \in Nodes, AddScan(n)
  PROVE  Inv'
<1> DEFINE a == [adder[n] EXCEPT !.pc = "scan", !.seen = Range(usable[n]), !.i = 1]
<1>1. adder[n].pc = "sleep" /\ adder' = [adder EXCEPT ![n] = a]
      /\ UNCHANGED <<call, usable, failures, usedR, everFailed>>
  BY DEF AddScan
<1>2. Range(usable[n]) \in SUBSET Nat /\ 1 \in Indexes(n)
  <2>1. usable[n] \in Seq(Nat)
    BY AdderFacts
  <2>2. Range(usable[n]) \in SUBSET Nat
    BY <2>1 DEF Range
  <2> QED BY <2>2, Shapes DEF Indexes
<1>3. a \in AdderRec /\ a.pc = "scan" /\ a.i = 1 /\ a.shared = adder[n].shared /\ a.list = adder[n].list
  BY <1>2, AdderFacts DEF AdderOK, AdderRec
<1> HIDE DEF a
<1>4. AdderOK(n, a) /\ ~a.shared
  BY <1>1, <1>2, <1>3, AdderFacts DEF AdderOK
<1> QED BY <1>1, <1>3, <1>4, AdderFacts, AdderGoesOn

LEMMA AddSkipOK ==
  ASSUME Inv, NEW n \in Nodes, AddSkip(n)
  PROVE  Inv'
<1>1. /\ adder[n].pc = "scan" /\ adder' = [adder EXCEPT ![n] = NextIndex(n, adder[n])]
      /\ UNCHANGED <<call, usable, failures, usedR, everFailed>>
  BY DEF AddSkip
<1> DEFINE a == NextIndex(n, adder[n])
<1>2. AdderOK(n, a) /\ a.pc # "append" /\ ~a.shared
  BY <1>1, AdderFacts, NextIndexOK
<1>3. adder' = [adder EXCEPT ![n] = a]
  BY <1>1
<1> HIDE DEF a
<1> QED BY <1>1, <1>2, <1>3, AdderFacts, AdderGoesOn

LEMMA AddReadOK ==
  ASSUME Inv, NEW n \in Nodes, AddRead(n)
  PROVE  Inv'
<1> DEFINE a == [adder[n] EXCEPT !.pc = "append", !.list = usable[n], !.shared = TRUE]
<1>1. /\ adder' = [adder EXCEPT ![n] = a]
      /\ UNCHANGED <<call, usable, failures, usedR, everFailed>>
  BY DEF AddRead
<1>2. a \in AdderRec /\ a.pc = "append" /\ a.i = adder[n].i /\ a.list = usable[n]
  BY AdderFacts DEF AdderOK, AdderRec
<1> HIDE DEF a
<1>3. AdderOK(n, a) /\ Begins(a.list, usable[n])
  BY <1>2, AdderFacts DEF AdderOK, Begins
<1> QED BY <1>1, <1>2, <1>3, AdderFacts, AdderGoesOn

LEMMA AddWriteOK ==
  ASSUME Inv, NEW n \in Nodes, AddWrite(n)
  PROVE  Inv'
<1> DEFINE a == [adder[n] EXCEPT !.pc = "zero", !.list = <<>>, !.shared = FALSE]
           list == Append(adder[n].list, adder[n].i)
<1>1. /\ adder' = [adder EXCEPT ![n] = a] /\ usable' = [usable EXCEPT ![n] = list]
      /\ adder[n].pc = "append"
      /\ UNCHANGED <<call, failures, usedR, everFailed>>
  BY DEF AddWrite
<1>2. a \in AdderRec /\ a.pc = "zero" /\ a.i = adder[n].i /\ a.list = <<>> /\ ~a.shared
  <2>1. <<>> \in Seq(Nat)
    OBVIOUS
  <2> QED BY <2>1, AdderFacts DEF AdderOK, AdderRec
<1>3. adder[n].list \in Seq(Indexes(n)) /\ adder[n].i \in Indexes(n)
  BY AdderFacts DEF AdderOK
<1>4. list \in Seq(Indexes(n)) /\ Begins(list, adder[n].list)
  BY <1>3 DEF Begins
<1>5. Healthy(n) \subseteq Range(adder[n].list)
  BY <1>1 DEF Inv, HealthyInv
<1> HIDE DEF a, list
<1>6. Healthy(n) \subseteq Range(list)
  BY <1>3, <1>4, <1>5, BeginsRange
<1>7. AdderOK(n, a)
  BY <1>2, <1>3, EmptySeq DEF AdderOK
<1> QED BY <1>1, <1>2, <1>4, <1>6, <1>7, AdderFacts, AdderGoesOn

LEMMA AddResetOK ==
  ASSUME Inv, NEW n \in Nodes, AddReset(n)
  PROVE  Inv'
<1>1. /\ adder[n].pc = "zero" /\ adder' = [adder EXCEPT ![n] = NextIndex(n, adder[n])]
      /\ UNCHANGED <<call, usable, usedR, everFailed>>
  BY DEF AddReset
<1>2. failures' \in [Groups -> [count : Nat, recent : BOOLEAN]]
  BY AdderFacts, Shapes DEF AddReset, AdderOK
<1> DEFINE a == NextIndex(n, adder[n])
<1>3. AdderOK(n, a) /\ a.pc # "append" /\ ~a.shared
  BY <1>1, AdderFacts, NextIndexOK
<1>4. adder' = [adder EXCEPT ![n] = a]
  BY <1>1
<1> HIDE DEF a
<1> QED BY <1>1, <1>2, <1>3, <1>4, AdderFacts, AdderGoesOn

LEMMA IntervalPassesOK ==
  ASSUME Inv, NEW g \in Groups, IntervalPasses(g)
  PROVE  Inv'
<1>1. failures' \in [Groups -> [count : Nat, recent : BOOLEAN]]
  BY DEF Inv, TypeInv, IntervalPasses
<1> QED BY <1>1 DEF IntervalPasses, Inv, TypeInv, UsedInv, RValueUsedOnce, HealthyInv, Healthy,
  Group, Node, Index

-----------------------------------------------------------------------------
(* The theorems *)

LEMMA InitOK == SignInit => Inv
<1> SUFFICES ASSUME SignInit PROVE Inv
  OBVIOUS
<1>1. TypeInv
  <2>1. /\ \A n \in Nodes : 1 \in Indexes(n)
        /\ 1 \in 1 .. Len(Initiators)
        /\ \A S : <<>> \in Seq(S)
    BY Shapes, EmptySeq DEF Indexes
  <2>2. \A k \in Calls : CallOK(call[k])
    BY <2>1 DEF SignInit, CallOK, CallRec, PCs, InLoop
  <2>3. call \in [Calls -> CallRec]
    BY <2>1 DEF SignInit, CallRec, PCs, InLoop
  <2>4. usable \in [Nodes -> Seq(Nat)] /\ \A n \in Nodes : usable[n] \in Seq(Indexes(n))
    BY OriginOK DEF SignInit
  <2>5. adder \in [Nodes -> AdderRec] /\ \A n \in Nodes : AdderOK(n, adder[n])
    BY <2>1 DEF SignInit, AdderRec, AdderOK
  <2> QED BY <2>2, <2>3, <2>4, <2>5 DEF SignInit, TypeInv
<1>2. UsedInv
  BY SignClientAssumption DEF SignInit, UsedInv, RValueUsedOnce
<1>3. HealthyInv
  BY OriginOK DEF SignInit, HealthyInv, Healthy
<1> QED BY <1>1, <1>2, <1>3 DEF Inv

LEMMA StepOK ==
  ASSUME Inv, [SignNext]_signVars
  PROVE  Inv'
<1>1. CASE UNCHANGED signVars
  BY <1>1 DEF signVars, Inv, TypeInv, UsedInv, RValueUsedOnce, HealthyInv, Healthy, Group, Node, Index
<1>2. ASSUME NEW k \in Calls, CallStep(k) PROVE Inv'
  BY <1>2, PingNodeOK, PostSignFailsOK, GetSignResultOK, GetSignResultFailsOK, CountFailureOK,
    DeleteSignGroupOK, CheckRValuesOK DEF CallStep
<1>3. ASSUME NEW n \in Nodes, AdderStep(n) PROVE Inv'
  BY <1>3, AddScanOK, AddSkipOK, AddReadOK, AddWriteOK, AddResetOK DEF AdderStep
<1> QED BY <1>1, <1>2, <1>3, IntervalPassesOK DEF SignNext

LEMMA InvHolds == SignSpec => []Inv
BY InitOK, StepOK, PTL DEF SignSpec

\* For every number of concurrent calls of DoSign, and whatever signatures the MPC network
\* makes, no two EC calls return the same r value.
THEOREM RValueUsedOnceHolds == SignSpec => []RValueUsedOnce
<1>1. Inv => RValueUsedOnce
  BY DEF Inv, UsedInv
<1> QED BY <1>1, InvHolds, PTL

\* For every set of initiators and sign groups, a group that never failed stays usable,
\* although checkAndAddSignGroups appends to the list without its lock and deleteSignGroup
\* removes from the array it appends to.
THEOREM HealthyGroupStaysHolds == SignSpec => []HealthyGroupStays
<1>1. Inv => HealthyGroupStays
  BY DEF Inv, HealthyInv, Healthy, HealthyGroupStays
<1> QED BY <1>1, InvHolds, PTL

\* Every index in a list, in a slice and in a call is one of a sign group of its
\* initiator: neither a deletion nor a reset lets DoSign read past its groups.
THEOREM IndexesInRange == SignSpec => []TypeInv
<1>1. Inv => TypeInv
  BY DEF Inv
<1> QED BY <1>1, InvHolds, PTL

=============================================================================

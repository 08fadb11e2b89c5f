------------------------- MODULE MessageStoreProofs -------------------------
(***************************************************************************)
(* Proofs about MessageStore, for every limit and any number of lines and  *)
(* groups: the totals that size the buffer of a batch are the lengths of   *)
(* the lists that are copied, and a batch keeps the limit.                 *)
(*                                                                         *)
(* Both rest on the groups being lists that nobody else writes to, while   *)
(* four queues share a heap.  The proof gives every group an owner: the    *)
(* queue it is part of, Merged for what a drain took over from the right   *)
(* queue, and Junk for what is out of reach.                               *)
(*                                                                         *)
(* The second part is about the store when the properties file sets no     *)
(* limit: it is the channel of MessageChannel then, whatever sends fail.   *)
(* No group is ever full and none follows another, so a queue is one       *)
(* group.  The lemmas of this part leave open what a node is (N): here it  *)
(* is a sequence of lines, in HeapScanAgent a message of a thread.         *)
(***************************************************************************)
EXTENDS MessageStore, SequenceTheorems, WellFoundedInduction, TLAPS

(* With a limit, a drain that a failed send ends leaves curMsgGrp of the   *)
(* left queue behind (MessageStore.c:95), and the lists are broken.        *)
Reliable == isToBeSplit => ~SendMayFail

-----------------------------------------------------------------------------
(* The four locations, by number, and what getMsgGroupHolder makes of an   *)
(* id.                                                                     *)
LEMMA LocationFacts ==
  /\ Locations = {2, 3, 4, 5}
  /\ \A l \in Locations : LocationOf(l) = l
  /\ \A s \in Spaces : /\ Left(s) \in Locations /\ Right(s) \in Locations
                       /\ Left(s) # Right(s)
                       /\ Left(s) % 2 = s /\ Right(s) % 2 = s
  /\ Left(NoSpace) \notin Locations
  BY DEF Locations, Spaces, LEFT_ENTRY, RIGHT_ENTRY, LocationOf, Left, Right, NoSpace

(* malloc returns a group that is not in use.                              *)
LEMMA FreeFacts ==
  ASSUME Free # {}
  PROVE  NewGroup \in GroupIds /\ NewGroup \notin live
  BY DEF Free, NewGroup

(* The identities of groups, and the group createGroup makes.              *)
LEMMA GroupFacts ==
  /\ NULL \notin GroupIds
  /\ 1 \in GroupIds /\ 2 \in GroupIds /\ 3 \in GroupIds /\ 4 \in GroupIds
  /\ EmptyGroup \in Groups
  /\ EmptyGroup.msgs = <<>> /\ EmptyGroup.tail = 0 /\ EmptyGroup.total = 0
  /\ EmptyGroup.next = NULL
<1>1. <<>> \in Seq(Nodes)
  OBVIOUS
<1> QED
  BY <1>1, StoreAssumption DEF NULL, GroupIds, EmptyGroup, Groups

(* lastNode is a node of the list (or its sentinel).                       *)
SaneGroups == {g \in Groups : g.tail <= Len(g.msgs)}

(* What the tail pointer leaves of a list.                                 *)
LEMMA KeptFacts ==
  ASSUME NEW g \in SaneGroups
  PROVE  LET kept == SubSeq(g.msgs, 1, g.tail)
         IN  kept \in Seq(Nodes) /\ Len(kept) = g.tail
<1>1. g.msgs \in Seq(Nodes) /\ g.tail \in Nat /\ g.tail <= Len(g.msgs)
  BY DEF SaneGroups, Groups
<1>2. \A i \in 1..g.tail : g.msgs[i] \in Nodes
  BY <1>1
<1>3. SubSeq(g.msgs, 1, g.tail) \in Seq(Nodes)
  BY <1>1, <1>2, SubSeqProperties
<1>4. Len(SubSeq(g.msgs, 1, g.tail)) = IF 1 <= g.tail THEN g.tail - 1 + 1 ELSE 0
  BY <1>1, <1>2, SubSeqProperties
<1> QED
  BY <1>1, <1>3, <1>4

(* A node is added behind lastNode, and becomes lastNode.                  *)
LEMMA AppendNodeFacts ==
  ASSUME NEW g \in SaneGroups, NEW node \in Nodes
  PROVE  /\ AppendNode(g, node) \in SaneGroups
         /\ AppendNode(g, node).next = g.next
         /\ AppendNode(g, node).total = g.total + 1
         /\ AppendNode(g, node).tail = g.tail + 1
         /\ Len(AppendNode(g, node).msgs) = g.tail + 1
<1> DEFINE kept == SubSeq(g.msgs, 1, g.tail)
           m == kept \o <<node>>
<1>1. /\ g \in Groups /\ g.tail \in Nat /\ g.total \in Nat
      /\ kept \in Seq(Nodes) /\ Len(kept) = g.tail
  BY KeptFacts DEF SaneGroups, Groups
<1> HIDE DEF kept
<1>2. m \in Seq(Nodes) /\ Len(m) = g.tail + 1
  BY <1>1
<1>3. AppendNode(g, node) = [g EXCEPT !.msgs = m, !.tail = g.tail + 1, !.total = g.total + 1]
  BY DEF AppendNode, Linked, kept
<1> HIDE DEF m
<1>4. AppendNode(g, node) \in Groups
  <2>1. \A x \in Seq(Nodes), n \in Nat, t \in Nat :
          [g EXCEPT !.msgs = x, !.tail = n, !.total = t] \in Groups
    BY <1>1 DEF Groups
  <2>2. g.tail + 1 \in Nat /\ g.total + 1 \in Nat
    BY <1>1
  <2> QED
    BY <1>2, <1>3, <2>1, <2>2, ZenonT(60)
<1>5. /\ AppendNode(g, node).msgs = m
      /\ AppendNode(g, node).tail = g.tail + 1
      /\ AppendNode(g, node).total = g.total + 1
      /\ AppendNode(g, node).next = g.next
  BY <1>1, <1>3 DEF Groups
<1> QED
  BY <1>2, <1>4, <1>5 DEF SaneGroups

(* mergeGrp hangs the list of the second group behind lastNode of the      *)
(* first, adds up the totals and leaves lastNode alone.                    *)
LEMMA MergedFacts ==
  ASSUME NEW g \in SaneGroups, NEW h \in SaneGroups
  PROVE  /\ MergedGroup(g, h) \in SaneGroups
         /\ MergedGroup(g, h).next = g.next
         /\ MergedGroup(g, h).total = g.total + h.total
         /\ MergedGroup(g, h).tail = g.tail
         /\ Len(MergedGroup(g, h).msgs) = g.tail + Len(h.msgs)
<1> DEFINE kept == SubSeq(g.msgs, 1, g.tail)
           m == kept \o h.msgs
<1>1. /\ g \in Groups /\ g.tail \in Nat /\ g.total \in Nat /\ h.total \in Nat
      /\ h.msgs \in Seq(Nodes) /\ kept \in Seq(Nodes) /\ Len(kept) = g.tail
  BY KeptFacts DEF SaneGroups, Groups
<1> HIDE DEF kept
<1>2. m \in Seq(Nodes) /\ Len(m) = g.tail + Len(h.msgs) /\ Len(h.msgs) \in Nat
  BY <1>1
<1>3. MergedGroup(g, h) = [g EXCEPT !.msgs = m, !.total = g.total + h.total]
  BY DEF MergedGroup, Linked, kept
<1> HIDE DEF m
<1>4. MergedGroup(g, h) \in Groups
  <2>1. \A x \in Seq(Nodes), t \in Nat : [g EXCEPT !.msgs = x, !.total = t] \in Groups
    BY <1>1 DEF Groups
  <2>2. g.total + h.total \in Nat
    BY <1>1
  <2> QED
    BY <1>2, <1>3, <2>1, <2>2, ZenonT(60)
<1>5. /\ MergedGroup(g, h).msgs = m
      /\ MergedGroup(g, h).tail = g.tail
      /\ MergedGroup(g, h).total = g.total + h.total
      /\ MergedGroup(g, h).next = g.next
  BY <1>1, <1>3 DEF Groups
<1> QED
  BY <1>1, <1>2, <1>4, <1>5 DEF SaneGroups

-----------------------------------------------------------------------------
(* Types: and a loop of onGetMsgSplit works on a group of the drained      *)
(* space.                                                                  *)
Holders == [start : GroupIds, cur : GroupIds, next : GroupIds \cup {NULL}]
Loops == [cur : GroupIds \cup {NULL}, nxt : GroupIds \cup {NULL}, tot : Nat]

HeapTyped ==
  /\ grp \in [GroupIds -> SaneGroups]
  /\ live \in SUBSET GroupIds
  /\ holder \in [Locations -> Holders]

LoopTyped ==
  /\ loop \in Loops
  /\ draining \in Spaces \cup {NoSpace}
  /\ loop = NotLooping \/ (loop.cur \in GroupIds /\ draining \in Spaces)

MessagesTyped ==
  /\ curMsgGrp \in Nodes
  /\ made \in 0..MaxLines
  /\ batch \in Seq(Nodes)
  /\ arrived \in [Locations -> Seq(Nodes)]
  /\ sent \in Seq(Nodes)
  /\ unsent \in SUBSET Nodes
  /\ shadowed \in BOOLEAN

TypeInv == HeapTyped /\ LoopTyped /\ MessagesTyped

(* The invariant includes the types.                                       *)
LEMMA TypeInvTypes == TypeInv => TypeOK
<1>1. SaneGroups \subseteq Groups
  BY DEF SaneGroups
<1> QED
  BY <1>1 DEF TypeInv, HeapTyped, LoopTyped, MessagesTyped, TypeOK, Holders, Loops

(* A new group has its tail where its list ends.                           *)
LEMMA EmptyIsSane == EmptyGroup \in SaneGroups /\ Len(EmptyGroup.msgs) = 0
  BY GroupFacts DEF SaneGroups

(* The invariant holds of an empty store,                                  *)
LEMMA TypeInit == Init => TypeInv
<1> SUFFICES ASSUME Init PROVE TypeInv
  OBVIOUS
<1>1. grp \in [GroupIds -> SaneGroups]
  BY EmptyIsSane DEF Init
<1>2. live \in SUBSET GroupIds
  BY StoreAssumption DEF Init, GroupIds
<1>3. holder \in [Locations -> Holders]
  BY LocationFacts, StoreAssumption DEF Init, Holders, GroupIds
<1>4. LoopTyped
  BY DEF Init, LoopTyped, Loops, NotLooping
<1>5. <<>> \in Nodes /\ <<>> \in Seq(Nodes)
  BY DEF Nodes
<1>6. shadowed \in BOOLEAN
  BY Zenon DEF Init
<1>7. MessagesTyped
  BY <1>5, <1>6, StoreAssumption DEF Init, MessagesTyped
<1> QED
  BY <1>1, <1>2, <1>3, <1>4, <1>7 DEF TypeInv, HeapTyped

(* onQueueMessage writes a group of its queue or starts a new one.         *)
LEMMA QueueTyped ==
  ASSUME TypeInv, NEW l \in Locations, NEW node \in Nodes, QueueMessage(l, node)
  PROVE  HeapTyped' /\ arrived' \in [Locations -> Seq(Nodes)]
<1> DEFINE c == holder[l].cur
<1>1. c \in GroupIds /\ grp[c] \in SaneGroups
  BY DEF TypeInv, HeapTyped, Holders
<1>2. arrived' \in [Locations -> Seq(Nodes)]
  BY DEF QueueMessage, TypeInv, MessagesTyped
<1>3. CASE GroupIsFull(grp[c])
  <2>1. /\ NewGroup \in GroupIds
        /\ live' = live \cup {NewGroup}
        /\ grp' = [grp EXCEPT ![c].next = NewGroup,
                              ![NewGroup] = AppendNode(EmptyGroup, node)]
        /\ holder' = [holder EXCEPT ![l].cur = NewGroup]
    BY <1>3, LocationFacts, FreeFacts DEF QueueMessage
  <2>2. AppendNode(EmptyGroup, node) \in SaneGroups
    BY EmptyIsSane, AppendNodeFacts
  <2>3. [grp[c] EXCEPT !.next = NewGroup] \in SaneGroups
    BY <1>1, <2>1 DEF SaneGroups, Groups
  <2>4. grp' \in [GroupIds -> SaneGroups]
    BY <1>1, <2>1, <2>2, <2>3 DEF TypeInv, HeapTyped
  <2>5. holder' \in [Locations -> Holders]
    BY <2>1 DEF TypeInv, HeapTyped, Holders
  <2> QED
    BY <1>2, <2>1, <2>4, <2>5 DEF TypeInv, HeapTyped
<1>4. CASE ~GroupIsFull(grp[c])
  <2>1. /\ grp' = [grp EXCEPT ![c] = AppendNode(grp[c], node)]
        /\ UNCHANGED <<live, holder>>
    BY <1>4, LocationFacts DEF QueueMessage
  <2>2. AppendNode(grp[c], node) \in SaneGroups
    BY <1>1, AppendNodeFacts
  <2> QED
    BY <1>2, <2>1, <2>2 DEF TypeInv, HeapTyped
<1> QED
  BY <1>3, <1>4

(* What leaves the drained space: the list of the group it loops over.     *)
LEMMA DeliverTyped ==
  ASSUME TypeInv, NEW g \in GroupIds, NEW pending \in BOOLEAN, Deliver(g, pending)
  PROVE  LoopTyped' /\ MessagesTyped'
<1>1. batch' = grp[g].msgs /\ batch' \in Seq(Nodes)
  BY DEF Deliver, TypeInv, HeapTyped, SaneGroups, Groups
<1>2. loop' = NotLooping /\ draining' \in {draining, NoSpace}
  BY DEF Deliver
<1>3. \/ sent' = sent \o batch' /\ unsent' = unsent
      \/ sent' = sent /\ unsent' = unsent \cup ToSet(batch')
  BY DEF Deliver
<1>4. ToSet(batch') \subseteq Nodes
  BY <1>1 DEF ToSet
<1>5. sent' \in Seq(Nodes) /\ unsent' \in SUBSET Nodes
  <2>1. sent \in Seq(Nodes) /\ unsent \in SUBSET Nodes
    BY DEF TypeInv, MessagesTyped
  <2>2. sent \o batch' \in Seq(Nodes)
    BY <1>1, <2>1
  <2> QED
    BY <1>3, <1>4, <2>1, <2>2
<1>6. UNCHANGED <<curMsgGrp, made, arrived, shadowed>>
  BY DEF Deliver
<1> QED
  BY <1>1, <1>2, <1>5, <1>6
     DEF TypeInv, LoopTyped, MessagesTyped, Loops, NotLooping

(* What loop and draining are while a drain is under way.                  *)
LEMMA LoopFacts ==
  ASSUME TypeInv
  PROVE  /\ loop # NotLooping \/ loop.nxt # NULL => loop.cur \in GroupIds /\ draining \in Spaces
         /\ loop.nxt # NULL => loop.nxt \in GroupIds
         /\ draining # NoSpace => draining \in Spaces
  BY DEF TypeInv, LoopTyped, Loops, NotLooping

(* and every step keeps it.                                                *)
LEMMA TypeStep == TypeInv /\ [Next]_vars => TypeInv'
<1> SUFFICES ASSUME TypeInv, [Next]_vars PROVE TypeInv'
  OBVIOUS
<1>0. HeapTyped /\ LoopTyped /\ MessagesTyped
  BY DEF TypeInv
<1>1. ASSUME NEW id \in Locations, FlushMsg(id) PROVE TypeInv'
  <2>1. made < MaxLines /\ made' = made + 1 /\ QueueMessage(id, <<made + 1>>)
        /\ UNCHANGED <<curMsgGrp, drainVars, shadowed>>
    BY <1>1 DEF FlushMsg
  <2>2. made \in 0..MaxLines
    BY <1>0 DEF MessagesTyped
  <2>3. <<made + 1>> \in Nodes /\ made + 1 \in 0..MaxLines
    BY <2>1, <2>2, StoreAssumption DEF Nodes, Lines
  <2> QED
    BY <1>0, <2>1, <2>3, QueueTyped DEF TypeInv, LoopTyped, MessagesTyped, drainVars
<1>2. ASSUME NEW id \in Locations, FlushMsgGrp(id) PROVE TypeInv'
  <2>1. QueueMessage(id, curMsgGrp) /\ curMsgGrp' = <<>>
        /\ UNCHANGED <<made, drainVars, shadowed>>
    BY <1>2 DEF FlushMsgGrp
  <2>2. curMsgGrp \in Nodes /\ <<>> \in Nodes
    BY <1>0 DEF MessagesTyped, Nodes
  <2> QED
    BY <1>0, <2>1, <2>2, QueueTyped DEF TypeInv, LoopTyped, MessagesTyped, drainVars
<1>3. CASE IncludeMessage
  <2>1. made < MaxLines /\ made' = made + 1 /\ curMsgGrp' = Append(curMsgGrp, made + 1)
        /\ UNCHANGED <<heapVars, drainVars, arrived, shadowed>>
    BY <1>3 DEF IncludeMessage
  <2>2. made \in 0..MaxLines /\ curMsgGrp \in Seq(Lines)
    BY <1>0 DEF MessagesTyped, Nodes
  <2>3. Append(curMsgGrp, made + 1) \in Nodes /\ made + 1 \in 0..MaxLines
    BY <2>1, <2>2, StoreAssumption DEF Nodes, Lines
  <2> QED
    BY <1>0, <2>1, <2>3 DEF TypeInv, HeapTyped, LoopTyped, MessagesTyped, heapVars, drainVars
<1>4. ASSUME NEW s \in Spaces, StartConsume(s) PROVE TypeInv'
  <2>1. draining = NoSpace /\ draining' = s
        /\ UNCHANGED <<heapVars, curMsgGrp, made, loop, batch, arrived, sent, unsent>>
    BY <1>4 DEF StartConsume
  <2>2. shadowed' \in BOOLEAN
    BY <1>4, Zenon DEF StartConsume
  <2>3. LoopTyped'
    BY <1>0, <2>1 DEF LoopTyped
  <2> QED
    BY <1>0, <2>1, <2>2, <2>3 DEF TypeInv, HeapTyped, MessagesTyped, heapVars
<1>5. CASE MergeEntries
  <2> DEFINE l == Left(draining)
             r == Right(draining)
  <2>1. /\ draining \in Spaces /\ NewGroup \in GroupIds
        /\ l \in Locations /\ r \in Locations
    BY <1>5, LoopFacts, LocationFacts, FreeFacts DEF MergeEntries
  <2>2. /\ holder[l] \in Holders /\ holder[r] \in Holders
        /\ grp[holder[l].start] \in SaneGroups
    BY <1>0, <2>1 DEF HeapTyped, Holders
  <2>3. /\ live' = live \cup {NewGroup}
        /\ grp' = [grp EXCEPT ![NewGroup] = EmptyGroup]
        /\ holder' = [holder EXCEPT ![l].next = holder[r].start,
                                    ![l].cur = holder[r].cur,
                                    ![r] = [start |-> NewGroup, cur |-> NewGroup, next |-> NULL]]
        /\ loop' = [cur |-> holder[l].start, nxt |-> holder[r].start,
                    tot |-> grp[holder[l].start].total]
        /\ batch' = <<>>
        /\ UNCHANGED <<curMsgGrp, made, draining, arrived, sent, unsent, shadowed>>
    BY <1>5 DEF MergeEntries
  <2> HIDE DEF l, r
  <2>4. holder' \in [Locations -> Holders]
    <3>1. [[holder[l] EXCEPT !.next = holder[r].start] EXCEPT !.cur = holder[r].cur] \in Holders
      BY <2>2 DEF Holders
    <3> QED
      BY <1>0, <2>1, <2>2, <2>3, <3>1 DEF HeapTyped, Holders
  <2>5. HeapTyped'
    BY <1>0, <2>1, <2>3, <2>4, EmptyIsSane DEF HeapTyped
  <2>6. LoopTyped'
    BY <1>0, <2>1, <2>2, <2>3 DEF LoopTyped, Loops, Holders, SaneGroups, Groups
  <2>7. MessagesTyped'
    BY <1>0, <2>3 DEF MessagesTyped
  <2> QED
    BY <2>5, <2>6, <2>7 DEF TypeInv
<1>6. CASE MergeGrp
  <2> DEFINE merged == MergedGroup(grp[loop.cur], grp[loop.nxt])
  <2>1. /\ loop.cur \in GroupIds /\ loop.nxt \in GroupIds /\ draining \in Spaces
        /\ grp[loop.cur] \in SaneGroups /\ grp[loop.nxt] \in SaneGroups
    BY <1>0, <1>6, LoopFacts DEF MergeGrp, HeapTyped
  <2>2. merged \in SaneGroups /\ merged.next \in GroupIds \cup {NULL}
        /\ grp[loop.nxt].total \in Nat
    BY <2>1, MergedFacts DEF SaneGroups, Groups
  <2>3. /\ grp' = [grp EXCEPT ![loop.cur] = merged]
        /\ live' = live \ {loop.nxt}
        /\ loop' = [loop EXCEPT !.nxt = merged.next, !.tot = @ + grp[loop.nxt].total]
        /\ UNCHANGED <<holder, curMsgGrp, made, draining, batch, arrived,
                       sent, unsent, shadowed>>
    BY <1>6 DEF MergeGrp
  <2> HIDE DEF merged
  <2>4. HeapTyped'
    BY <1>0, <2>1, <2>2, <2>3 DEF HeapTyped
  <2>5. loop' \in Loops /\ loop'.cur = loop.cur
    <3>1. loop \in Loops /\ loop.tot + grp[loop.nxt].total \in Nat
      BY <1>0, <2>2 DEF LoopTyped, Loops
    <3>2. loop' = [loop EXCEPT !.nxt = merged.next, !.tot = loop.tot + grp[loop.nxt].total]
      BY <2>3
    <3> QED
      BY <2>2, <3>1, <3>2 DEF Loops
  <2>6. LoopTyped' /\ MessagesTyped'
    BY <1>0, <2>1, <2>3, <2>5 DEF LoopTyped, MessagesTyped
  <2> QED
    BY <2>4, <2>6 DEF TypeInv
<1>7. CASE SplitOff
  <2> DEFINE l == Left(draining)
  <2>1. /\ loop.cur \in GroupIds /\ loop.nxt \in GroupIds /\ l \in Locations
        /\ grp[loop.nxt].next \in GroupIds \cup {NULL}
    BY <1>0, <1>7, LoopFacts, LocationFacts DEF SplitOff, HeapTyped, SaneGroups, Groups
  <2>2. /\ holder' = [holder EXCEPT ![l].start = loop.nxt, ![l].next = grp[loop.nxt].next]
        /\ live' = live \ {loop.cur}
        /\ grp' = grp
        /\ Deliver(loop.cur, TRUE)
    BY <1>7 DEF SplitOff
  <2> HIDE DEF l
  <2>3. HeapTyped'
    BY <1>0, <2>1, <2>2 DEF HeapTyped, Holders
  <2> QED
    BY <2>1, <2>2, <2>3, DeliverTyped DEF TypeInv
<1>8. CASE LastBatch
  <2> DEFINE l == Left(draining)
  <2>1. loop.cur \in GroupIds /\ NewGroup \in GroupIds /\ l \in Locations
    BY <1>8, LoopFacts, LocationFacts, FreeFacts DEF LastBatch
  <2>2. /\ live' = (live \cup {NewGroup}) \ {loop.cur}
        /\ grp' = [grp EXCEPT ![NewGroup] = EmptyGroup]
        /\ holder' = [holder EXCEPT ![l] = [start |-> NewGroup, cur |-> NewGroup, next |-> NULL]]
        /\ Deliver(loop.cur, FALSE)
    BY <1>8 DEF LastBatch
  <2> HIDE DEF l
  <2>3. HeapTyped'
    BY <1>0, <2>1, <2>2, EmptyIsSane DEF HeapTyped, Holders
  <2> QED
    BY <2>1, <2>2, <2>3, DeliverTyped DEF TypeInv
<1>9. CASE UNCHANGED vars
  BY <1>0, <1>9 DEF TypeInv, HeapTyped, LoopTyped, MessagesTyped, vars, heapVars, drainVars
<1>10. \A s \in UsedSpaces : s \in Spaces /\ Left(s) \in Locations /\ Right(s) \in Locations
  BY StoreAssumption, LocationFacts DEF Spaces
<1> QED
  BY <1>1, <1>2, <1>3, <1>4, <1>5, <1>6, <1>7, <1>8, <1>9, <1>10 DEF Next

(* TypeOK: whatever a drain does to the lists, groups hold nodes and       *)
(* pointers point to groups.                                               *)
THEOREM TypeCorrect == Spec => []TypeOK
<1>1. Spec => []TypeInv
  BY TypeInit, TypeStep, PTL DEF Spec
<1> QED
  BY <1>1, TypeInvTypes, PTL

-----------------------------------------------------------------------------
(* Every group in use has an owner: a queue, or Merged while a drain still *)
(* has it, taken over from the right queue.                                *)
Junk == 0
Merged == 1
Owners == {Junk, Merged} \cup Locations

InUse(own) == {g \in live : own[g] # Junk}

(* Totals are lengths, also while groups are merged, and keep the limit.   *)
CountInv ==
  \A g \in live : /\ grp[g].total = Len(grp[g].msgs)
                  /\ isToBeSplit => grp[g].total <= splitSz
                  /\ g # loop.cur => grp[g].tail = Len(grp[g].msgs)

(* A group is followed only when it is full, by a group of its queue that  *)
(* is not empty, and that follows no other.                                *)
ChainInv(own) ==
  \A g \in InUse(own) : grp[g].next # NULL =>
    /\ grp[g].next \in live /\ own[grp[g].next] = own[g]
    /\ isToBeSplit /\ grp[g].total = splitSz
    /\ grp[grp[g].next].total > 0
    /\ \A h \in InUse(own) : grp[h].next = grp[g].next => h = g

IsHead(own, g) == g \in live /\ \A h \in InUse(own) : grp[h].next # g

(* A queue begins with a head and ends with a group of its own, except the *)
(* left queue of a drained space; without a limit both are the same.       *)
QueueInv(own) ==
  \A l \in Locations :
    /\ l # Left(draining) \/ loop = NotLooping =>
         /\ IsHead(own, holder[l].start) /\ own[holder[l].start] = l
         /\ ~isToBeSplit => holder[l].cur = holder[l].start
    /\ l # Left(draining) => holder[l].cur \in live /\ own[holder[l].cur] = l

(* The loop of onGetMsgSplit has a head and what comes next: the group     *)
(* behind it, or the first of the right queue, which may be merged.        *)
LoopInv(own) ==
  loop # NotLooping =>
    /\ draining # NoSpace
    /\ own[loop.cur] = Left(draining) /\ IsHead(own, loop.cur)
    /\ loop.tot = grp[loop.cur].total
    /\ loop.nxt # NULL =>
         /\ loop.nxt \in live /\ loop.nxt # loop.cur
         /\ own[loop.nxt] \in {Left(draining), Merged}
         /\ \/ grp[loop.cur].next = loop.nxt
            \/ /\ own[loop.nxt] = Merged /\ IsHead(own, loop.nxt)
               /\ grp[loop.cur].tail = Len(grp[loop.cur].msgs)
         /\ ~isToBeSplit => holder[Left(draining)].cur = loop.nxt

Owned(own) == ChainInv(own) /\ QueueInv(own) /\ LoopInv(own)

HeapInv == CountInv /\ \E own \in [GroupIds -> Owners] : Owned(own)

(* The owners are distinct, and none of them is a pointer.                 *)
LEMMA OwnerFacts ==
  /\ Junk \notin Locations /\ Merged \notin Locations /\ Junk # Merged
  /\ {Junk, Merged} \subseteq Owners /\ Locations \subseteq Owners
  /\ NULL \notin GroupIds /\ NotLooping.cur = NULL /\ NotLooping.nxt = NULL
  /\ isToBeSplit => splitSz \in Nat /\ splitSz >= 1
  BY LocationFacts, StoreAssumption
     DEF Junk, Merged, Owners, NULL, GroupIds, NotLooping, isToBeSplit, splitSz

(* What the types say about a group in use.                                *)
LEMMA GroupTypes ==
  ASSUME TypeInv, NEW g \in GroupIds
  PROVE  /\ grp[g] \in SaneGroups
         /\ grp[g].msgs \in Seq(Nodes) /\ Len(grp[g].msgs) \in Nat
         /\ grp[g].tail \in Nat /\ grp[g].total \in Nat
         /\ grp[g].next \in GroupIds \cup {NULL}
<1>1. grp[g] \in SaneGroups
  BY DEF TypeInv, HeapTyped
<1>2. grp[g].msgs \in Seq(Nodes)
  BY <1>1 DEF SaneGroups, Groups
<1> QED
  BY <1>1, <1>2 DEF SaneGroups, Groups

(* The four groups of an empty store are owned by the four locations.      *)
LEMMA HeapInit ==
  ASSUME Init
  PROVE  /\ CountInv
         /\ \E own \in [GroupIds -> Owners] :
              own = [g \in GroupIds |-> IF g \in 1..4 THEN g + 1 ELSE Junk] /\ Owned(own)
<1> DEFINE own == [g \in GroupIds |-> IF g \in 1..4 THEN g + 1 ELSE Junk]
<1>1. /\ live = 1..4 /\ live \subseteq GroupIds
      /\ \A g \in live : grp[g] = EmptyGroup
      /\ \A l \in Locations : holder[l].start = l - 1 /\ holder[l].cur = l - 1
      /\ loop = NotLooping
  BY StoreAssumption DEF Init, GroupIds
<1>2. own \in [GroupIds -> Owners]
  BY LocationFacts DEF Owners
<1>3. \A l \in Locations : l - 1 \in live /\ own[l - 1] = l
  BY <1>1, LocationFacts
<1> HIDE DEF own
<1>4. CountInv
  BY <1>1, EmptyIsSane, GroupFacts, OwnerFacts DEF CountInv
<1>5. ChainInv(own)
  BY <1>1, GroupFacts DEF ChainInv, InUse
<1>6. QueueInv(own)
  BY <1>1, <1>3, GroupFacts DEF QueueInv, IsHead, InUse
<1>7. LoopInv(own)
  BY <1>1 DEF LoopInv
<1>8. Owned(own)
  BY <1>5, <1>6, <1>7 DEF Owned
<1> QED
  BY <1>2, <1>4, <1>8 DEF own

(* The queue of an open space ends with a group that no drain works on.    *)
LEMMA QueueEnd ==
  ASSUME TypeInv, NEW own \in [GroupIds -> Owners], Owned(own),
         NEW l \in Locations, l % 2 # draining
  PROVE  LET c == holder[l].cur
         IN  /\ l # Left(draining) /\ c \in live /\ c \in GroupIds /\ own[c] = l
             /\ c # loop.cur /\ c # loop.nxt
<1>1. l # Left(draining)
  BY LocationFacts DEF TypeInv, LoopTyped
<1>2. holder[l].cur \in live /\ own[holder[l].cur] = l
  BY <1>1 DEF Owned, QueueInv
<1>3. holder[l].cur \in GroupIds
  BY <1>2 DEF TypeInv, HeapTyped
<1>4. CASE loop = NotLooping
  BY <1>1, <1>2, <1>3, <1>4, OwnerFacts
<1>5. CASE loop # NotLooping
  BY <1>1, <1>2, <1>3, <1>5, OwnerFacts DEF Owned, LoopInv
<1> QED
  BY <1>1, <1>2, <1>3, <1>4, <1>5

(* A full queue grows by a group, which belongs to it.                     *)
LEMMA QueueNewGroup ==
  ASSUME TypeInv, CountInv, NEW own \in [GroupIds -> Owners], Owned(own),
         NEW l \in Locations, l % 2 # draining, NEW node \in Nodes,
         GroupIsFull(grp[holder[l].cur]), QueueMessage(l, node),
         UNCHANGED <<loop, draining>>
  PROVE  /\ CountInv'
         /\ \E o2 \in [GroupIds -> Owners] :
              o2 = [own EXCEPT ![NewGroup] = l] /\ Owned(o2)'
<1> DEFINE c == holder[l].cur
<1>1. /\ l # Left(draining) /\ c \in live /\ c \in GroupIds /\ own[c] = l
      /\ c # loop.cur /\ c # loop.nxt
  BY QueueEnd
<1>2. PICK new \in GroupIds : new = NewGroup /\ new \notin live
  BY LocationFacts, FreeFacts DEF QueueMessage
<1>3. PICK o2 \in [GroupIds -> Owners] : o2 = [own EXCEPT ![new] = l]
  BY OwnerFacts
<1>4. PICK a \in SaneGroups : a = AppendNode(EmptyGroup, node)
  BY EmptyIsSane, AppendNodeFacts
<1>5. a.next = NULL /\ a.total = 1 /\ a.tail = 1 /\ Len(a.msgs) = 1
  <2>1. /\ a.next = EmptyGroup.next /\ a.total = EmptyGroup.total + 1
        /\ a.tail = EmptyGroup.tail + 1 /\ Len(a.msgs) = EmptyGroup.tail + 1
    BY <1>4, EmptyIsSane, AppendNodeFacts
  <2> QED
    BY <2>1, GroupFacts
<1>6. /\ grp' = [grp EXCEPT ![c].next = new, ![new] = a]
      /\ live' = live \cup {new}
      /\ holder' = [holder EXCEPT ![l].cur = new]
  BY <1>2, <1>4, LocationFacts DEF QueueMessage
<1>7. /\ isToBeSplit /\ grp[c].total = splitSz
      /\ splitSz \in Nat /\ splitSz >= 1
  BY <1>1, OwnerFacts, GroupTypes DEF GroupIsFull, CountInv
<1> HIDE DEF c
<1>a. live' = live \cup {new} /\ isToBeSplit
  BY <1>6, <1>7
<1>8. /\ grp'[new] = a
      /\ grp'[c] = [grp[c] EXCEPT !.next = new]
      /\ \A g \in live : g # c => grp'[g] = grp[g]
      /\ \A g \in live : g # new /\ g \in GroupIds
  BY <1>1, <1>2, <1>6 DEF TypeInv, HeapTyped
<1>9. /\ grp'[c].next = new /\ grp'[c].total = grp[c].total
      /\ grp'[c].tail = grp[c].tail /\ grp'[c].msgs = grp[c].msgs
  BY <1>1, <1>8, GroupTypes DEF SaneGroups, Groups
<1>10. o2[new] = l /\ \A g \in live : o2[g] = own[g]
  BY <1>3, <1>8
<1>11. /\ holder'[l].cur = new /\ holder'[l].start = holder[l].start
       /\ \A k \in Locations : k # l => holder'[k] = holder[k]
  BY <1>6 DEF TypeInv, HeapTyped, Holders
<1>12. ChainInv(own) /\ QueueInv(own) /\ LoopInv(own)
  BY DEF Owned
<1>13. InUse(o2)' = InUse(own) \cup {new}
  BY <1>6, <1>10, OwnerFacts DEF InUse
<1>14. CountInv'
  <2> SUFFICES ASSUME NEW g \in live \cup {new}
               PROVE  /\ grp'[g].total = Len(grp'[g].msgs)
                      /\ isToBeSplit => grp'[g].total <= splitSz
                      /\ g # loop.cur => grp'[g].tail = Len(grp'[g].msgs)
    BY <1>6 DEF CountInv
  <2>1. CASE g = new
    BY <1>5, <1>7, <1>8, <2>1
  <2>2. CASE g # new
    <3>1. g \in live /\ grp'[g].total = grp[g].total
          /\ grp'[g].msgs = grp[g].msgs /\ grp'[g].tail = grp[g].tail
      BY <1>8, <1>9, <2>2
    <3> QED
      BY <3>1 DEF CountInv
  <2> QED
    BY <2>1, <2>2
<1>15. ChainInv(o2)'
  <2>1. \A g \in InUse(own) : g \in live
    BY DEF InUse
  <2> SUFFICES ASSUME NEW g \in InUse(own) \cup {new}, grp'[g].next # NULL
               PROVE  /\ grp'[g].next \in live' /\ o2[grp'[g].next] = o2[g]
                      /\ isToBeSplit /\ grp'[g].total = splitSz
                      /\ grp'[grp'[g].next].total > 0
                      /\ \A h \in InUse(own) \cup {new} : grp'[h].next = grp'[g].next => h = g
    BY <1>13 DEF ChainInv
  <2>2. \A h \in InUse(own) : grp[h].next # new
    BY <1>2, <1>12, OwnerFacts DEF ChainInv
  <2>3. CASE g = c
    <3>1. grp'[g].next = new /\ new \in live' /\ o2[new] = o2[g]
      BY <1>1, <1>9, <1>10, <1>a, <2>3
    <3>2. grp'[g].total = splitSz /\ grp'[new].total > 0
      <4>1. grp'[g].total = splitSz
        BY <1>7, <1>9, <2>3
      <4>2. grp'[new].total = 1
        BY <1>5, <1>8
      <4> QED
        BY <4>1, <4>2
    <3>3. \A h \in InUse(own) : grp'[h].next = new => h = g
      BY <1>8, <2>1, <2>2, <2>3
    <3>4. grp'[new].next # new
      BY <1>5, <1>8, OwnerFacts
    <3> QED
      BY <1>a, <3>1, <3>2, <3>3, <3>4
  <2>4. CASE g # c
    <3>1. g \in InUse(own) /\ grp'[g] = grp[g] /\ g \in live
      BY <1>5, <1>8, <2>1, <2>4
    <3>2. /\ grp[g].next \in live /\ own[grp[g].next] = own[g]
          /\ grp[g].total = splitSz /\ grp[grp[g].next].total > 0
          /\ \A h \in InUse(own) : grp[h].next = grp[g].next => h = g
      BY <1>12, <3>1 DEF ChainInv
    <3>3. grp'[grp[g].next].total = grp[grp[g].next].total
      BY <1>8, <1>9, <3>2
    <3>4. \A h \in InUse(own) \cup {new} : grp'[h].next = grp'[g].next => h = g
      BY <1>1, <1>2, <1>5, <1>8, <1>9, <2>1, <3>1, <3>2, OwnerFacts
    <3> QED
      BY <1>a, <1>10, <3>1, <3>2, <3>3, <3>4
  <2> QED
    BY <2>3, <2>4
<1>16. \A g : IsHead(own, g) => IsHead(o2, g)'
  <2> SUFFICES ASSUME NEW g \in live, NEW h \in InUse(own) \cup {new},
                      \A k \in InUse(own) : grp[k].next # g
               PROVE  grp'[h].next # g
    BY <1>13, <1>a DEF IsHead
  <2>1. g \in GroupIds /\ g # new
    BY <1>8
  <2>2. h = new \/ h = c \/ (h \in live /\ grp'[h] = grp[h])
    BY <1>8 DEF InUse
  <2> QED
    BY <1>5, <1>8, <1>9, <2>1, <2>2, OwnerFacts
<1>17. QueueInv(o2)'
  <2> SUFFICES ASSUME NEW k \in Locations
               PROVE  /\ k # Left(draining) \/ loop = NotLooping =>
                           /\ IsHead(o2, holder[k].start)' /\ o2[holder'[k].start] = k
                      /\ k # Left(draining) => holder'[k].cur \in live' /\ o2[holder'[k].cur] = k
    BY <1>a DEF QueueInv
  <2>1. holder'[k].start = holder[k].start
    BY <1>11
  <2>2. k # Left(draining) \/ loop = NotLooping =>
          /\ IsHead(own, holder[k].start) /\ own[holder[k].start] = k
          /\ holder[k].start \in live
    BY <1>12 DEF QueueInv, IsHead
  <2>3. k # Left(draining) => holder[k].cur \in live /\ own[holder[k].cur] = k
    BY <1>12 DEF QueueInv
  <2>4. k # Left(draining) \/ loop = NotLooping =>
          /\ IsHead(o2, holder[k].start)' /\ o2[holder'[k].start] = k
    <3>1. ASSUME IsHead(own, holder[k].start) PROVE IsHead(o2, holder[k].start)'
      <4>1. IsHead(own, holder'[k].start)
        BY <2>1, <3>1
      <4> QED
        BY <1>16, <4>1
    <3> QED
      BY <1>10, <2>1, <2>2, <3>1
  <2>5. k # Left(draining) => holder'[k].cur \in live' /\ o2[holder'[k].cur] = k
    BY <1>10, <1>11, <1>a, <2>3
  <2> QED
    BY <2>4, <2>5
<1>18. LoopInv(o2)'
  <2> SUFFICES ASSUME loop # NotLooping PROVE LoopInv(o2)'
    BY DEF LoopInv
  <2>1. loop.cur \in live /\ grp'[loop.cur] = grp[loop.cur] /\ o2[loop.cur] = own[loop.cur]
    BY <1>1, <1>8, <1>10, <1>12 DEF LoopInv, IsHead
  <2>2. loop.nxt \in live => o2[loop.nxt] = own[loop.nxt]
    BY <1>10
  <2>3. holder'[Left(draining)].cur = holder[Left(draining)].cur
    BY <1>1, <1>7, <1>11, <1>12, LoopFacts, LocationFacts DEF LoopInv
  <2> QED
    BY <1>6, <1>7, <1>12, <1>16, <2>1, <2>2, <2>3 DEF LoopInv
<1>19. o2 = [own EXCEPT ![NewGroup] = l]
  BY <1>2, <1>3
<1>20. Owned(o2)'
  BY <1>15, <1>17, <1>18 DEF Owned
<1> QED
  BY <1>14, <1>19, <1>20

(* A queue that is not full ends with a group nothing follows; it takes    *)
(* the node.                                                               *)
LEMMA QueueSameGroup ==
  ASSUME TypeInv, CountInv, NEW own \in [GroupIds -> Owners], Owned(own),
         NEW l \in Locations, l % 2 # draining, NEW node \in Nodes,
         ~GroupIsFull(grp[holder[l].cur]), QueueMessage(l, node),
         UNCHANGED <<loop, draining>>
  PROVE  CountInv' /\ Owned(own)'
<1> DEFINE c == holder[l].cur
<1>1. /\ l # Left(draining) /\ c \in live /\ c \in GroupIds /\ own[c] = l
      /\ c # loop.cur /\ c # loop.nxt
  BY QueueEnd
<1>2. PICK a \in SaneGroups : a = AppendNode(grp[c], node)
  BY <1>1, GroupTypes, AppendNodeFacts
<1>3. /\ a.next = grp[c].next /\ a.total = grp[c].total + 1
      /\ a.tail = grp[c].tail + 1 /\ Len(a.msgs) = grp[c].tail + 1
  BY <1>1, <1>2, GroupTypes, AppendNodeFacts
<1>4. grp' = [grp EXCEPT ![c] = a] /\ live' = live /\ holder' = holder
  BY <1>2, LocationFacts DEF QueueMessage
<1>5. /\ grp[c].total \in Nat /\ grp[c].tail \in Nat
      /\ grp[c].total = Len(grp[c].msgs) /\ grp[c].tail = Len(grp[c].msgs)
      /\ isToBeSplit => grp[c].total < splitSz
  BY <1>1, OwnerFacts, GroupTypes DEF GroupIsFull, CountInv
<1> HIDE DEF c
<1>6. ChainInv(own) /\ QueueInv(own) /\ LoopInv(own)
  BY DEF Owned
<1>7. /\ grp'[c] = a
      /\ \A g \in live : g # c => grp'[g] = grp[g]
      /\ \A g \in live : grp'[g].next = grp[g].next
  BY <1>1, <1>3, <1>4 DEF TypeInv, HeapTyped
<1>8. grp[c].next = NULL
  BY <1>1, <1>5, <1>6, OwnerFacts DEF ChainInv, InUse
<1>9. CountInv'
  <2> SUFFICES ASSUME NEW g \in live
               PROVE  /\ grp'[g].total = Len(grp'[g].msgs)
                      /\ isToBeSplit => grp'[g].total <= splitSz
                      /\ g # loop.cur => grp'[g].tail = Len(grp'[g].msgs)
    BY <1>4 DEF CountInv
  <2>1. CASE g = c
    BY <1>3, <1>5, <1>7, <2>1, OwnerFacts
  <2>2. CASE g # c
    BY <1>7, <2>2 DEF CountInv
  <2> QED
    BY <2>1, <2>2
<1>10. InUse(own)' = InUse(own) /\ InUse(own) \subseteq live
  BY <1>4 DEF InUse
<1>11. \A g : IsHead(own, g) => IsHead(own, g)'
  BY <1>4, <1>7, <1>10 DEF IsHead
<1>12. ChainInv(own)'
  <2> SUFFICES ASSUME NEW g \in InUse(own), grp'[g].next # NULL
               PROVE  /\ grp'[g].next \in live /\ own[grp'[g].next] = own[g]
                      /\ isToBeSplit /\ grp'[g].total = splitSz
                      /\ grp'[grp'[g].next].total > 0
                      /\ \A h \in InUse(own) : grp'[h].next = grp'[g].next => h = g
    BY <1>4, <1>10 DEF ChainInv
  <2>1. g \in live /\ g # c /\ grp'[g] = grp[g]
    BY <1>7, <1>8, <1>10
  <2>2. /\ grp[g].next \in live /\ own[grp[g].next] = own[g]
        /\ isToBeSplit /\ grp[g].total = splitSz /\ grp[grp[g].next].total > 0
        /\ \A h \in InUse(own) : grp[h].next = grp[g].next => h = g
    BY <1>6, <2>1 DEF ChainInv
  <2>3. grp'[grp[g].next].total > 0
    BY <1>3, <1>5, <1>7, <2>2
  <2> QED
    BY <1>7, <1>10, <2>1, <2>2, <2>3
<1>13. QueueInv(own)'
  <2>1. \A k \in Locations : IsHead(own, holder[k].start) => IsHead(own, holder[k].start)'
    <3> TAKE k \in Locations
    <3>1. IsHead(own, holder'[k].start) => IsHead(own, holder[k].start)'
      BY <1>11
    <3> QED
      BY <1>4, <3>1
  <2> QED
    BY <1>4, <1>6, <2>1 DEF QueueInv
<1>14. LoopInv(own)'
  <2> SUFFICES ASSUME loop # NotLooping PROVE LoopInv(own)'
    BY DEF LoopInv
  <2>1. grp'[loop.cur] = grp[loop.cur]
    BY <1>1, <1>6, <1>7 DEF LoopInv, IsHead
  <2> QED
    BY <1>4, <1>6, <1>11, <2>1 DEF LoopInv
<1> QED
  BY <1>9, <1>12, <1>13, <1>14 DEF Owned

(* Collecting a message and starting a drain leave the lists alone.        *)
LEMMA HeapUnchanged ==
  ASSUME TypeInv, CountInv, NEW own \in [GroupIds -> Owners], Owned(own),
         UNCHANGED <<heapVars, loop>>,
         draining' = draining \/ draining = NoSpace
  PROVE  CountInv' /\ Owned(own)'
<1>1. Owned(own)
  OBVIOUS
<1>2. grp' = grp /\ live' = live /\ holder' = holder /\ loop' = loop
  BY DEF heapVars
<1>3. draining' # draining => loop = NotLooping
  BY DEF TypeInv, LoopTyped, Spaces, NoSpace
<1>4. CountInv'
  BY <1>2 DEF CountInv
<1>5. ChainInv(own)'
  BY <1>1, <1>2 DEF Owned, ChainInv, InUse
<1>6. QueueInv(own)'
  <2>1. Left(NoSpace) \notin Locations
    BY LocationFacts
  <2> QED
    BY <1>1, <1>2, <1>3, <2>1 DEF Owned, QueueInv, IsHead, InUse
<1>7. LoopInv(own)'
  BY <1>1, <1>2, <1>3 DEF Owned, LoopInv, IsHead, InUse
<1> QED
  BY <1>4, <1>5, <1>6, <1>7 DEF Owned

(* mergeEntries: what the right queue held is Merged, and the right queue  *)
(* starts over with a new group.                                           *)
LEMMA MergeEntriesHeap ==
  ASSUME TypeInv, CountInv, NEW own \in [GroupIds -> Owners], Owned(own), MergeEntries
  PROVE  /\ CountInv'
         /\ \E o2 \in [GroupIds -> Owners] :
              /\ o2 = [g \in GroupIds |->
                         IF g = NewGroup THEN Right(draining)
                         ELSE IF own[g] = Right(draining) THEN Merged ELSE own[g]]
              /\ Owned(o2)'
<1>1. PICK l \in Locations, r \in Locations :
        l = Left(draining) /\ r = Right(draining) /\ l # r
  BY LoopFacts, LocationFacts DEF MergeEntries
<1>2. PICK new \in GroupIds : new = NewGroup /\ new \notin live
  BY FreeFacts DEF MergeEntries
<1>3. /\ live' = live \cup {new}
      /\ grp' = [grp EXCEPT ![new] = EmptyGroup]
      /\ holder' = [holder EXCEPT ![l].next = holder[r].start,
                                  ![l].cur = holder[r].cur,
                                  ![r] = [start |-> new, cur |-> new, next |-> NULL]]
      /\ loop' = [cur |-> holder[l].start, nxt |-> holder[r].start,
                  tot |-> grp[holder[l].start].total]
      /\ draining' = draining /\ draining # NoSpace /\ loop = NotLooping
  BY <1>1, <1>2 DEF MergeEntries
<1>4. PICK o2 \in [GroupIds -> Owners] :
        o2 = [g \in GroupIds |-> IF g = new THEN r ELSE IF own[g] = r THEN Merged ELSE own[g]]
  BY OwnerFacts
<1>5. ChainInv(own) /\ QueueInv(own)
  BY DEF Owned
<1>6. /\ IsHead(own, holder[l].start) /\ own[holder[l].start] = l /\ holder[l].start \in live
      /\ IsHead(own, holder[r].start) /\ own[holder[r].start] = r /\ holder[r].start \in live
      /\ ~isToBeSplit => holder[r].cur = holder[r].start
  BY <1>1, <1>3, <1>5 DEF QueueInv, IsHead
<1>7. /\ live \subseteq GroupIds
      /\ grp'[new] = EmptyGroup
      /\ \A g \in live : g # new /\ grp'[g] = grp[g]
  BY <1>2, <1>3 DEF TypeInv, HeapTyped
<1>8. live' = live \cup {new} /\ draining' = draining
  BY <1>3
<1>9. /\ holder'[r].start = new /\ holder'[r].cur = new
      /\ holder'[l].cur = holder[r].cur
      /\ \A k \in Locations : k # l /\ k # r => holder'[k] = holder[k]
  BY <1>1, <1>3 DEF TypeInv, HeapTyped, Holders
<1>10. /\ loop'.cur = holder[l].start /\ loop'.nxt = holder[r].start
       /\ loop'.tot = grp[holder[l].start].total
       /\ loop' # NotLooping /\ loop = NotLooping /\ draining # NoSpace
  BY <1>3, <1>6, OwnerFacts DEF TypeInv, HeapTyped
<1>11. /\ o2[new] = r
       /\ \A g \in live : /\ own[g] = r => o2[g] = Merged
                          /\ own[g] # r => o2[g] = own[g]
  BY <1>4, <1>7
<1>12. InUse(o2)' = InUse(own) \cup {new} /\ InUse(own) \subseteq live
  BY <1>8, <1>11, OwnerFacts DEF InUse
<1>13. CountInv'
  <2> SUFFICES ASSUME NEW g \in live \cup {new}
               PROVE  /\ grp'[g].total = Len(grp'[g].msgs)
                      /\ isToBeSplit => grp'[g].total <= splitSz
                      /\ grp'[g].tail = Len(grp'[g].msgs)
    BY <1>8 DEF CountInv
  <2>1. CASE g = new
    BY <1>7, <2>1, EmptyIsSane, GroupFacts, OwnerFacts
  <2>2. CASE g # new
    BY <1>7, <1>10, <2>2, OwnerFacts DEF CountInv
  <2> QED
    BY <2>1, <2>2
<1>14. \A g \in InUse(own) : grp[g].next # new
  BY <1>2, <1>5, OwnerFacts DEF ChainInv
<1>15. ChainInv(o2)'
  <2> SUFFICES ASSUME NEW g \in InUse(own) \cup {new}, grp'[g].next # NULL
               PROVE  /\ grp'[g].next \in live \cup {new} /\ o2[grp'[g].next] = o2[g]
                      /\ isToBeSplit /\ grp'[g].total = splitSz
                      /\ grp'[grp'[g].next].total > 0
                      /\ \A h \in InUse(own) \cup {new} : grp'[h].next = grp'[g].next => h = g
    BY <1>8, <1>12 DEF ChainInv
  <2>1. g \in InUse(own) /\ g \in live /\ grp'[g] = grp[g]
    BY <1>7, <1>12, GroupFacts
  <2>2. /\ grp[g].next \in live /\ own[grp[g].next] = own[g]
        /\ isToBeSplit /\ grp[g].total = splitSz /\ grp[grp[g].next].total > 0
        /\ \A h \in InUse(own) : grp[h].next = grp[g].next => h = g
    BY <1>5, <2>1 DEF ChainInv
  <2>3. \A h \in InUse(own) \cup {new} : grp'[h].next = grp'[g].next => h = g
    BY <1>7, <1>12, <2>1, <2>2, GroupFacts
  <2>4. o2[grp[g].next] = o2[g]
    BY <1>11, <2>1, <2>2
  <2> QED
    BY <1>7, <2>1, <2>2, <2>3, <2>4
<1>16. \A g : IsHead(own, g) => IsHead(o2, g)'
  <2> SUFFICES ASSUME NEW g \in live, NEW h \in InUse(own) \cup {new},
                      \A k \in InUse(own) : grp[k].next # g
               PROVE  grp'[h].next # g
    BY <1>8, <1>12 DEF IsHead
  <2> QED
    BY <1>7, <1>12, GroupFacts
<1>17. QueueInv(o2)'
  <2> SUFFICES ASSUME NEW k \in Locations, k # l
               PROVE  /\ IsHead(o2, holder[k].start)' /\ o2[holder'[k].start] = k
                      /\ ~isToBeSplit => holder'[k].cur = holder'[k].start
                      /\ holder'[k].cur \in live' /\ o2[holder'[k].cur] = k
    BY <1>1, <1>8, <1>10 DEF QueueInv
  <2>1. CASE k = r
    <3>1. \A g : g = new => IsHead(o2, g)'
      BY <1>7, <1>8, <1>12, <1>14, GroupFacts DEF IsHead
    <3>2. IsHead(o2, holder[k].start)'
      BY <1>9, <2>1, <3>1
    <3> QED
      BY <1>8, <1>9, <1>11, <2>1, <3>2
  <2>2. CASE k # r
    <3>1. /\ IsHead(own, holder[k].start) /\ own[holder[k].start] = k
          /\ holder[k].start \in live
          /\ ~isToBeSplit => holder[k].cur = holder[k].start
          /\ holder[k].cur \in live /\ own[holder[k].cur] = k
      BY <1>1, <1>5 DEF QueueInv, IsHead
    <3>2. holder'[k] = holder[k]
      BY <1>9, <2>2
    <3>3. IsHead(own, holder'[k].start)
      BY <3>1, <3>2
    <3> QED
      BY <1>8, <1>11, <1>16, <2>2, <3>1, <3>2, <3>3
  <2> QED
    BY <2>1, <2>2
<1>18. LoopInv(o2)'
  <2>1. IsHead(own, loop'.cur) /\ IsHead(own, loop'.nxt)
    BY <1>6, <1>10
  <2>2. IsHead(o2, loop.cur)' /\ IsHead(o2, loop.nxt)'
    BY <1>16, <2>1
  <2>3. /\ o2[loop'.cur] = l /\ o2[loop'.nxt] = Merged /\ loop'.cur # loop'.nxt
        /\ loop'.cur \in live /\ loop'.nxt \in live
    BY <1>1, <1>6, <1>10, <1>11
  <2>4. /\ grp'[loop'.cur].tail = Len(grp'[loop'.cur].msgs)
        /\ loop'.tot = grp'[loop'.cur].total
    BY <1>7, <1>10, <2>3, OwnerFacts DEF CountInv
  <2>5. ~isToBeSplit => holder'[l].cur = loop'.nxt
    BY <1>6, <1>9, <1>10
  <2> QED
    BY <1>1, <1>8, <1>10, <2>2, <2>3, <2>4, <2>5 DEF LoopInv
<1>19. Owned(o2)'
  BY <1>15, <1>17, <1>18 DEF Owned
<1> QED
  BY <1>1, <1>2, <1>4, <1>13, <1>19

(* mergeGrp: what fits behind a full group is nothing, so the group that   *)
(* is merged is the first of those taken over from the right queue.        *)
LEMMA MergeGrpHeap ==
  ASSUME TypeInv, CountInv, NEW own \in [GroupIds -> Owners], Owned(own), MergeGrp
  PROVE  CountInv' /\ Owned(own)'
<1>1. PICK cur \in GroupIds, nxt \in GroupIds : cur = loop.cur /\ nxt = loop.nxt
  BY LoopFacts DEF MergeGrp
<1>2. PICK l \in Locations : l = Left(draining)
  BY LoopFacts, LocationFacts DEF MergeGrp
<1>3. loop # NotLooping /\ nxt # NULL
  BY <1>1, OwnerFacts
<1>4. ChainInv(own) /\ QueueInv(own) /\ LoopInv(own)
  BY DEF Owned
<1>5. /\ own[cur] = l /\ IsHead(own, cur) /\ cur \in live /\ draining # NoSpace
      /\ loop.tot = grp[cur].total
      /\ nxt \in live /\ nxt # cur /\ own[nxt] \in {l, Merged}
      /\ \/ grp[cur].next = nxt
         \/ /\ own[nxt] = Merged /\ IsHead(own, nxt)
            /\ grp[cur].tail = Len(grp[cur].msgs)
  BY <1>1, <1>2, <1>3, <1>4 DEF LoopInv, IsHead
<1>6. /\ grp[cur].total \in Nat /\ grp[nxt].total \in Nat
      /\ grp[cur].tail \in Nat /\ grp[cur].next \in GroupIds \cup {NULL}
      /\ grp[cur].total = Len(grp[cur].msgs) /\ grp[nxt].total = Len(grp[nxt].msgs)
      /\ grp[cur].total + grp[nxt].total <= splitSz
  BY <1>1, <1>5, GroupTypes DEF CountInv, MergeGrp
<1>7. cur \in InUse(own) /\ InUse(own) \subseteq live
  BY <1>5, OwnerFacts DEF InUse
<1>8. grp[cur].next # nxt
  <2> SUFFICES ASSUME grp[cur].next = nxt PROVE FALSE
    OBVIOUS
  <2>1. isToBeSplit /\ grp[cur].total = splitSz /\ grp[nxt].total > 0
    BY <1>3, <1>4, <1>7 DEF ChainInv
  <2> QED
    BY <1>6, <2>1, OwnerFacts
<1>9. own[nxt] = Merged /\ IsHead(own, nxt) /\ grp[cur].tail = Len(grp[cur].msgs)
  BY <1>5, <1>8
<1>10. PICK m \in SaneGroups : m = MergedGroup(grp[cur], grp[nxt])
  BY GroupTypes, MergedFacts
<1>11. /\ m.next = grp[cur].next /\ m.total = grp[cur].total + grp[nxt].total
       /\ Len(m.msgs) = grp[cur].tail + Len(grp[nxt].msgs)
  BY <1>10, GroupTypes, MergedFacts
<1>12. /\ grp' = [grp EXCEPT ![cur] = m] /\ live' = live \ {nxt}
       /\ loop' = [loop EXCEPT !.nxt = m.next, !.tot = loop.tot + grp[nxt].total]
       /\ UNCHANGED <<holder, draining>>
  BY <1>1, <1>10 DEF MergeGrp
<1>13. /\ grp'[cur] = m
       /\ \A g \in live : g # cur => grp'[g] = grp[g]
       /\ \A g \in live : grp'[g].next = grp[g].next
  BY <1>5, <1>11, <1>12 DEF TypeInv, HeapTyped
<1>14. /\ loop'.cur = cur /\ loop'.nxt = grp[cur].next
       /\ loop'.tot = grp[cur].total + grp[nxt].total
  BY <1>1, <1>5, <1>11, <1>12 DEF TypeInv, LoopTyped, Loops
<1>15. live' = live \ {nxt} /\ holder' = holder /\ draining' = draining
  BY <1>12
<1>16. InUse(own)' = InUse(own) \ {nxt}
  BY <1>15 DEF InUse
<1>17. \A g : IsHead(own, g) /\ g # nxt => IsHead(own, g)'
  BY <1>7, <1>13, <1>15, <1>16 DEF IsHead
<1>18. CountInv'
  <2> SUFFICES ASSUME NEW g \in live
               PROVE  /\ grp'[g].total = Len(grp'[g].msgs)
                      /\ isToBeSplit => grp'[g].total <= splitSz
                      /\ g # cur => grp'[g].tail = Len(grp'[g].msgs)
    BY <1>14, <1>15 DEF CountInv
  <2>1. CASE g = cur
    BY <1>6, <1>9, <1>11, <1>13, <2>1
  <2>2. CASE g # cur
    BY <1>1, <1>13, <2>2 DEF CountInv
  <2> QED
    BY <2>1, <2>2
<1>19. ChainInv(own)'
  <2> SUFFICES ASSUME NEW g \in InUse(own) \ {nxt}, grp'[g].next # NULL
               PROVE  /\ grp'[g].next \in live \ {nxt} /\ own[grp'[g].next] = own[g]
                      /\ isToBeSplit /\ grp'[g].total = splitSz
                      /\ grp'[grp'[g].next].total > 0
                      /\ \A h \in InUse(own) \ {nxt} : grp'[h].next = grp'[g].next => h = g
    BY <1>15, <1>16 DEF ChainInv
  <2>1. g \in live /\ grp'[g].next = grp[g].next
    BY <1>7, <1>13
  <2>2. /\ grp[g].next \in live /\ own[grp[g].next] = own[g]
        /\ isToBeSplit /\ grp[g].total = splitSz /\ grp[grp[g].next].total > 0
        /\ \A h \in InUse(own) : grp[h].next = grp[g].next => h = g
    BY <1>4, <2>1 DEF ChainInv
  <2>3. grp[g].next # nxt /\ grp[g].next # cur
    BY <1>5, <1>9 DEF IsHead
  <2>4. grp'[g].total = splitSz
    <3>1. CASE g = cur
      <4>1. grp[cur].total = splitSz /\ splitSz \in Nat
        BY <2>2, <3>1, OwnerFacts
      <4>2. m.total = splitSz
        BY <1>6, <1>11, <4>1
      <4> QED
        BY <1>13, <3>1, <4>2
    <3>2. CASE g # cur
      BY <1>13, <2>1, <2>2, <3>2
    <3> QED
      BY <3>1, <3>2
  <2>5. grp'[grp[g].next].total > 0
    BY <1>13, <2>2, <2>3
  <2> QED
    BY <1>7, <1>13, <2>1, <2>2, <2>3, <2>4, <2>5
<1>20. QueueInv(own)'
  <2> SUFFICES ASSUME NEW k \in Locations, k # l
               PROVE  /\ IsHead(own, holder[k].start)' /\ own[holder[k].start] = k
                      /\ ~isToBeSplit => holder[k].cur = holder[k].start
                      /\ holder[k].cur \in live' /\ own[holder[k].cur] = k
    <3>1. loop'.cur # NULL
      BY <1>14, OwnerFacts
    <3> QED
      BY <1>2, <1>15, <3>1, OwnerFacts DEF QueueInv
  <2>1. /\ IsHead(own, holder[k].start) /\ own[holder[k].start] = k
        /\ ~isToBeSplit => holder[k].cur = holder[k].start
        /\ holder[k].cur \in live /\ own[holder[k].cur] = k
    BY <1>2, <1>4 DEF QueueInv
  <2>2. holder[k].start # nxt /\ holder[k].cur # nxt
    BY <1>9, <2>1, OwnerFacts
  <2>3. IsHead(own, holder'[k].start) /\ holder'[k].start # nxt
    BY <1>15, <2>1, <2>2
  <2>4. IsHead(own, holder[k].start)'
    BY <1>17, <2>3
  <2> QED
    BY <1>15, <2>1, <2>2, <2>4
<1>21. LoopInv(own)'
  <2>1. IsHead(own, loop'.cur) /\ loop'.cur # nxt
    BY <1>5, <1>14
  <2>2. IsHead(own, loop.cur)'
    BY <1>17, <2>1
  <2>3. loop'.nxt # NULL =>
          /\ loop'.nxt \in live' /\ loop'.nxt # loop'.cur /\ own[loop'.nxt] = l
          /\ grp'[loop'.cur].next = loop'.nxt /\ isToBeSplit
    BY <1>4, <1>5, <1>7, <1>8, <1>13, <1>14, <1>15 DEF ChainInv, IsHead
  <2>4. loop'.tot = grp'[loop'.cur].total
    BY <1>11, <1>13, <1>14
  <2> QED
    BY <1>2, <1>5, <1>14, <1>15, <2>2, <2>3, <2>4 DEF LoopInv
<1> QED
  BY <1>18, <1>19, <1>20, <1>21 DEF Owned

(* The group that does not fit any more is the new head of the left queue, *)
(* and what comes behind it is part of the queue.                          *)
LEMMA SplitOffHeap ==
  ASSUME TypeInv, CountInv, NEW own \in [GroupIds -> Owners], Owned(own), SplitOff, Reliable
  PROVE  /\ CountInv'
         /\ \E o2 \in [GroupIds -> Owners] :
              /\ o2 = [g \in GroupIds |->
                         IF own[g] = own[loop.nxt] THEN Left(draining)
                         ELSE IF own[g] = Left(draining) THEN Junk ELSE own[g]]
              /\ Owned(o2)'
<1>1. PICK cur \in GroupIds, nxt \in GroupIds : cur = loop.cur /\ nxt = loop.nxt
  BY LoopFacts DEF SplitOff
<1>2. PICK l \in Locations : l = Left(draining)
  BY LoopFacts, LocationFacts DEF SplitOff
<1>3. loop # NotLooping /\ nxt # NULL
  BY <1>1, OwnerFacts
<1>4. ChainInv(own) /\ QueueInv(own) /\ LoopInv(own)
  BY DEF Owned
<1>5. /\ own[cur] = l /\ IsHead(own, cur) /\ cur \in live
      /\ nxt \in live /\ nxt # cur /\ own[nxt] \in {l, Merged}
      /\ grp[cur].next = nxt \/ IsHead(own, nxt)
      /\ ~isToBeSplit => holder[l].cur = nxt
  BY <1>1, <1>2, <1>3, <1>4 DEF LoopInv, IsHead
<1>6. PICK k \in {l, Merged} : k = own[nxt]
  BY <1>5
<1>7. PICK o2 \in [GroupIds -> Owners] :
        o2 = [g \in GroupIds |-> IF own[g] = k THEN l ELSE IF own[g] = l THEN Junk ELSE own[g]]
  BY OwnerFacts
<1>8. /\ grp' = grp /\ live' = live \ {cur}
      /\ holder' = [holder EXCEPT ![l].start = nxt, ![l].next = grp[nxt].next]
  BY <1>1, <1>2 DEF SplitOff
<1>9. loop' = NotLooping /\ (draining' = draining \/ (~isToBeSplit /\ draining' = NoSpace))
  BY DEF SplitOff, Deliver, Reliable
<1>10. /\ holder'[l].start = nxt /\ holder'[l].cur = holder[l].cur
       /\ \A j \in Locations : j # l => holder'[j] = holder[j]
  BY <1>8 DEF TypeInv, HeapTyped, Holders
<1>11. /\ o2[nxt] = l
       /\ \A g \in live : own[g] # k /\ own[g] # l => o2[g] = own[g]
  BY <1>6, <1>7 DEF TypeInv, HeapTyped
<1>a. live' = live \ {cur}
  BY <1>8
<1>b. k # Junk /\ l # Junk /\ \A j \in Locations : j # l => j # k
  BY <1>6, OwnerFacts
<1>c. \A g, h \in live : own[g] = own[h] => o2[g] = o2[h]
  BY <1>5, <1>6, <1>7 DEF TypeInv, HeapTyped
<1>12. InUse(o2)' \subseteq InUse(own) \ {cur} /\ InUse(own) \subseteq live
  <2> SUFFICES ASSUME NEW g \in live, o2[g] # Junk PROVE own[g] # Junk
    BY <1>a DEF InUse
  <2> QED
    BY <1>11, <1>b
<1>13. CountInv'
  BY <1>1, <1>8 DEF CountInv
<1>14. ChainInv(o2)'
  <2> SUFFICES ASSUME NEW g \in InUse(o2)', grp[g].next # NULL
               PROVE  /\ grp[g].next \in live' /\ o2[grp[g].next] = o2[g]
                      /\ isToBeSplit /\ grp[g].total = splitSz
                      /\ grp[grp[g].next].total > 0
                      /\ \A h \in InUse(o2)' : grp[h].next = grp[g].next => h = g
    BY <1>8 DEF ChainInv
  <2>1. g \in InUse(own) /\ g \in live
    BY <1>12
  <2>2. /\ grp[g].next \in live /\ own[grp[g].next] = own[g]
        /\ isToBeSplit /\ grp[g].total = splitSz /\ grp[grp[g].next].total > 0
        /\ \A h \in InUse(own) : grp[h].next = grp[g].next => h = g
    BY <1>4, <2>1 DEF ChainInv
  <2>3. grp[g].next # cur
    BY <1>5, <2>1 DEF IsHead
  <2>4. o2[grp[g].next] = o2[g]
    BY <1>c, <2>1, <2>2
  <2> QED
    BY <1>8, <1>12, <2>2, <2>3, <2>4
<1>15. \A g : IsHead(own, g) /\ g # cur => IsHead(o2, g)'
  BY <1>8, <1>12 DEF IsHead
<1>16. IsHead(own, nxt) \/ \A h \in InUse(own) : grp[h].next = nxt => h = cur
  <2>1. CASE grp[cur].next = nxt
    <3>1. cur \in InUse(own)
      BY <1>5, OwnerFacts DEF InUse
    <3> QED
      BY <1>3, <1>4, <2>1, <3>1 DEF ChainInv
  <2> QED
    BY <1>5, <2>1
<1>17. \A g : g = nxt => IsHead(o2, g)'
  BY <1>5, <1>8, <1>12, <1>16 DEF IsHead
<1>18. QueueInv(o2)'
  <2>1. ASSUME NEW j \in Locations, j # l
        PROVE  /\ IsHead(o2, holder[j].start)' /\ o2[holder'[j].start] = j
               /\ ~isToBeSplit => holder'[j].cur = holder'[j].start
               /\ holder'[j].cur \in live' /\ o2[holder'[j].cur] = j
    <3>1. /\ IsHead(own, holder[j].start) /\ own[holder[j].start] = j
          /\ holder[j].start \in live
          /\ ~isToBeSplit => holder[j].cur = holder[j].start
          /\ holder[j].cur \in live /\ own[holder[j].cur] = j
      BY <1>2, <1>4, <2>1 DEF QueueInv, IsHead
    <3>2. holder'[j] = holder[j]
      BY <1>10, <2>1
    <3>3. j # k
      BY <1>b, <2>1
    <3>4. IsHead(own, holder'[j].start) /\ holder'[j].start # cur /\ holder'[j].cur # cur
      BY <1>5, <2>1, <3>1, <3>2
    <3>5. o2[holder'[j].start] = j /\ o2[holder'[j].cur] = j
      BY <1>11, <2>1, <3>1, <3>2, <3>3
    <3>6. IsHead(o2, holder[j].start)'
      BY <1>15, <3>4
    <3> QED
      BY <1>a, <3>1, <3>2, <3>4, <3>5, <3>6
  <2>2. /\ IsHead(o2, holder[l].start)' /\ o2[holder'[l].start] = l
        /\ ~isToBeSplit => /\ holder'[l].cur = holder'[l].start
                           /\ holder'[l].cur \in live' /\ o2[holder'[l].cur] = l
    <3>1. holder'[l].start = nxt /\ (~isToBeSplit => holder'[l].cur = nxt) /\ nxt \in live'
      BY <1>5, <1>a, <1>10
    <3>2. IsHead(o2, holder[l].start)'
      BY <1>17, <3>1
    <3> QED
      BY <1>11, <3>1, <3>2
  <2>3. l = Left(draining)' \/ ~isToBeSplit
    BY <1>2, <1>9
  <2> QED
    BY <2>1, <2>2, <2>3 DEF QueueInv
<1>19. LoopInv(o2)'
  BY <1>9 DEF LoopInv
<1>20. Owned(o2)'
  BY <1>14, <1>18, <1>19 DEF Owned
<1> QED
  BY <1>1, <1>2, <1>6, <1>7, <1>13, <1>20

(* The last batch leaves the left queue with a new group; what it was made *)
(* of is out of reach, and so is a list that Shadows speaks of.            *)
LEMMA LastBatchHeap ==
  ASSUME TypeInv, CountInv, NEW own \in [GroupIds -> Owners], Owned(own), LastBatch
  PROVE  /\ CountInv'
         /\ \E o2 \in [GroupIds -> Owners] :
              /\ o2 = [g \in GroupIds |->
                         IF g = NewGroup THEN Left(draining)
                         ELSE IF own[g] \in {Left(draining), Merged} THEN Junk ELSE own[g]]
              /\ Owned(o2)'
<1>1. PICK cur \in GroupIds : cur = loop.cur
  BY LoopFacts DEF LastBatch
<1>2. PICK l \in Locations : l = Left(draining)
  BY LoopFacts, LocationFacts DEF LastBatch
<1>3. PICK new \in GroupIds : new = NewGroup /\ new \notin live
  BY FreeFacts DEF LastBatch
<1>4. ChainInv(own) /\ QueueInv(own)
  BY DEF Owned
<1>5. own[cur] = l /\ IsHead(own, cur) /\ cur \in live
  BY <1>1, <1>2 DEF LastBatch, Owned, LoopInv, IsHead
<1>6. PICK o2 \in [GroupIds -> Owners] :
        o2 = [g \in GroupIds |-> IF g = new THEN l
                                ELSE IF own[g] \in {l, Merged} THEN Junk ELSE own[g]]
  BY OwnerFacts
<1>7. /\ live' = (live \cup {new}) \ {cur}
      /\ grp' = [grp EXCEPT ![new] = EmptyGroup]
      /\ holder' = [holder EXCEPT ![l] = [start |-> new, cur |-> new, next |-> NULL]]
  BY <1>1, <1>2, <1>3 DEF LastBatch
<1>8. loop' = NotLooping /\ draining' = NoSpace
  BY DEF LastBatch, Deliver
<1>9. /\ holder'[l].start = new /\ holder'[l].cur = new
      /\ \A j \in Locations : j # l => holder'[j] = holder[j]
  BY <1>7 DEF TypeInv, HeapTyped
<1>10. /\ new # cur /\ grp'[new] = EmptyGroup
       /\ \A g \in live : g # new /\ grp'[g] = grp[g]
  BY <1>3, <1>5, <1>7 DEF TypeInv, HeapTyped
<1>11. live' = (live \ {cur}) \cup {new}
  BY <1>7, <1>10
<1>12. /\ o2[new] = l
       /\ \A g \in live : /\ own[g] \in {l, Merged} => o2[g] = Junk
                          /\ own[g] \notin {l, Merged} => o2[g] = own[g]
  BY <1>6, <1>10 DEF TypeInv, HeapTyped
<1>13. InUse(o2)' \subseteq (InUse(own) \ {cur}) \cup {new} /\ InUse(own) \subseteq live
  BY <1>11, <1>12, OwnerFacts DEF InUse
<1>14. \A g \in InUse(own) : grp[g].next # new
  BY <1>3, <1>4, OwnerFacts DEF ChainInv
<1>15. CountInv'
  <2> SUFFICES ASSUME NEW g \in (live \ {cur}) \cup {new}
               PROVE  /\ grp'[g].total = Len(grp'[g].msgs)
                      /\ isToBeSplit => grp'[g].total <= splitSz
                      /\ grp'[g].tail = Len(grp'[g].msgs)
    BY <1>11 DEF CountInv
  <2>1. CASE g = new
    BY <1>10, <2>1, EmptyIsSane, GroupFacts, OwnerFacts
  <2>2. CASE g # new
    BY <1>1, <1>10, <2>2 DEF CountInv
  <2> QED
    BY <2>1, <2>2
<1>16. ChainInv(o2)'
  <2> SUFFICES ASSUME NEW g \in InUse(o2)', grp'[g].next # NULL
               PROVE  /\ grp'[g].next \in live' /\ o2[grp'[g].next] = o2[g]
                      /\ isToBeSplit /\ grp'[g].total = splitSz
                      /\ grp'[grp'[g].next].total > 0
                      /\ \A h \in InUse(o2)' : grp'[h].next = grp'[g].next => h = g
    BY DEF ChainInv
  <2>1. g \in InUse(own) /\ g \in live /\ grp'[g] = grp[g]
    BY <1>10, <1>13, GroupFacts
  <2>2. /\ grp[g].next \in live /\ own[grp[g].next] = own[g]
        /\ isToBeSplit /\ grp[g].total = splitSz /\ grp[grp[g].next].total > 0
        /\ \A h \in InUse(own) : grp[h].next = grp[g].next => h = g
    BY <1>4, <2>1 DEF ChainInv
  <2>3. grp[g].next # cur
    BY <1>5, <2>1 DEF IsHead
  <2>4. o2[grp[g].next] = o2[g]
    BY <1>12, <2>1, <2>2
  <2>5. \A h \in InUse(o2)' : grp'[h].next = grp'[g].next => h = g
    BY <1>10, <1>13, <2>1, <2>2, GroupFacts
  <2> QED
    BY <1>10, <1>11, <2>1, <2>2, <2>3, <2>4, <2>5
<1>17. \A g : IsHead(own, g) /\ g # cur => IsHead(o2, g)'
  <2> SUFFICES ASSUME NEW g \in live, g # cur, NEW h \in InUse(o2)',
                      \A k \in InUse(own) : grp[k].next # g
               PROVE  grp'[h].next # g
    BY <1>11 DEF IsHead
  <2>1. g \in GroupIds
    BY DEF TypeInv, HeapTyped
  <2> QED
    BY <1>10, <1>13, <2>1, GroupFacts
<1>18. \A g : g = new => IsHead(o2, g)'
  <2> SUFFICES ASSUME NEW h \in InUse(o2)' PROVE grp'[h].next # new
    BY <1>11 DEF IsHead
  <2> QED
    BY <1>10, <1>13, <1>14, GroupFacts
<1>19. QueueInv(o2)'
  <2> SUFFICES ASSUME NEW j \in Locations
               PROVE  /\ IsHead(o2, holder[j].start)' /\ o2[holder'[j].start] = j
                      /\ holder'[j].cur \in live' /\ o2[holder'[j].cur] = j
                      /\ ~isToBeSplit => holder'[j].cur = holder'[j].start
    BY DEF QueueInv
  <2>1. CASE j = l
    BY <1>9, <1>11, <1>12, <1>18, <2>1
  <2>2. CASE j # l
    <3>1. /\ IsHead(own, holder[j].start) /\ own[holder[j].start] = j
          /\ holder[j].start \in live
          /\ ~isToBeSplit => holder[j].cur = holder[j].start
          /\ holder[j].cur \in live /\ own[holder[j].cur] = j
      BY <1>2, <1>4, <2>2 DEF QueueInv, IsHead
    <3>2. holder'[j] = holder[j]
      BY <1>9, <2>2
    <3>3. j \notin {l, Merged}
      BY <2>2, OwnerFacts
    <3>4. IsHead(own, holder'[j].start) /\ holder'[j].start # cur /\ holder'[j].cur # cur
      BY <1>5, <2>2, <3>1, <3>2
    <3> QED
      BY <1>11, <1>12, <1>17, <3>1, <3>2, <3>3, <3>4
  <2> QED
    BY <2>1, <2>2
<1>20. LoopInv(o2)'
  BY <1>8 DEF LoopInv
<1>21. Owned(o2)'
  BY <1>16, <1>19, <1>20 DEF Owned
<1> QED
  BY <1>2, <1>3, <1>6, <1>15, <1>21

(* Every step of the store keeps the heap invariant.                       *)
LEMMA HeapStep == TypeInv /\ HeapInv /\ [Next]_vars /\ Reliable => HeapInv'
<1> SUFFICES ASSUME TypeInv, HeapInv, [Next]_vars, Reliable PROVE HeapInv'
  OBVIOUS
<1>1. PICK own \in [GroupIds -> Owners] : Owned(own)
  BY DEF HeapInv
<1>2. CountInv
  BY DEF HeapInv
<1>3. ASSUME NEW l \in Locations, NEW node \in Nodes, l % 2 # draining,
             QueueMessage(l, node), UNCHANGED <<loop, draining>>
      PROVE  HeapInv'
  BY <1>1, <1>2, <1>3, QueueNewGroup, QueueSameGroup DEF HeapInv
<1>4. ASSUME NEW l \in Locations, FlushMsg(l) PROVE HeapInv'
  <2>1. <<made + 1>> \in Nodes
    <3>1. made \in 0..MaxLines /\ made < MaxLines
      BY <1>4 DEF TypeInv, MessagesTyped, FlushMsg
    <3> QED
      BY <3>1, StoreAssumption DEF Nodes, Lines
  <2> QED
    BY <1>3, <1>4, <2>1 DEF FlushMsg, drainVars
<1>5. ASSUME NEW l \in Locations, FlushMsgGrp(l) PROVE HeapInv'
  <2>1. curMsgGrp \in Nodes
    BY DEF TypeInv, MessagesTyped
  <2>2. l % 2 # draining
    BY <1>5, LocationFacts DEF FlushMsgGrp, NoSpace, Locations, Spaces, LEFT_ENTRY, RIGHT_ENTRY
  <2> QED
    BY <1>3, <1>5, <2>1, <2>2 DEF FlushMsgGrp, drainVars
<1>6. CASE IncludeMessage
  BY <1>1, <1>2, <1>6, HeapUnchanged DEF IncludeMessage, drainVars, HeapInv
<1>7. ASSUME NEW s, StartConsume(s) PROVE HeapInv'
  BY <1>1, <1>2, <1>7, HeapUnchanged DEF StartConsume, HeapInv
<1>8. CASE MergeEntries
  BY <1>1, <1>2, <1>8, MergeEntriesHeap DEF HeapInv
<1>9. CASE MergeGrp
  BY <1>1, <1>2, <1>9, MergeGrpHeap DEF HeapInv
<1>10. CASE SplitOff
  BY <1>1, <1>2, <1>10, SplitOffHeap DEF HeapInv
<1>11. CASE LastBatch
  BY <1>1, <1>2, <1>11, LastBatchHeap DEF HeapInv
<1>12. CASE UNCHANGED vars
  BY <1>1, <1>2, <1>12, HeapUnchanged DEF vars, drainVars, HeapInv
<1>13. \A s \in UsedSpaces : Left(s) \in Locations /\ Right(s) \in Locations
  BY StoreAssumption, LocationFacts DEF Spaces
<1> QED
  BY <1>4, <1>5, <1>6, <1>7, <1>8, <1>9, <1>10, <1>11, <1>12, <1>13 DEF Next

(* CountsNodes: whatever is merged and split, mergeMsgAsString is told the *)
(* number of messages it will find.                                        *)
THEOREM CountsCorrect == ASSUME Reliable PROVE Spec => []CountsNodes
<1>1. TypeInv /\ HeapInv /\ [Next]_vars => HeapInv'
  BY HeapStep
<1>2. Init => HeapInv
  BY HeapInit DEF HeapInv
<1>3. HeapInv => CountsNodes
  BY DEF HeapInv, CountInv, CountsNodes
<1> QED
  BY <1>1, <1>2, <1>3, TypeInit, TypeStep, PTL DEF Spec

-----------------------------------------------------------------------------
(* What is sent is the list of one group, which the limit holds for.       *)
LEMMA BatchInit == Init => BatchWithinLimit
  BY OwnerFacts DEF Init, BatchWithinLimit, splitSz

(* A batch handed to send is no longer than the limit.                     *)
LEMMA BatchStep ==
  TypeInv /\ HeapInv /\ BatchWithinLimit /\ [Next]_vars => BatchWithinLimit'
<1> SUFFICES ASSUME TypeInv, HeapInv, BatchWithinLimit, [Next]_vars, isToBeSplit
             PROVE  Len(batch') <= SocketMsgLimit
  BY DEF BatchWithinLimit
<1>1. splitSz = SocketMsgLimit /\ SocketMsgLimit >= 1 /\ SocketMsgLimit \in Int
  BY OwnerFacts, StoreAssumption DEF splitSz
<1>2. CASE batch' = batch
  BY <1>2 DEF BatchWithinLimit
<1>3. CASE batch' = <<>>
  BY <1>1, <1>3
<1>4. CASE /\ loop # NotLooping \/ loop.nxt # NULL
           /\ batch' = grp[loop.cur].msgs
  <2>1. PICK own \in [GroupIds -> Owners] : Owned(own)
    BY DEF HeapInv
  <2>2. loop # NotLooping
    BY <1>4, OwnerFacts
  <2>3. loop.cur \in live
    BY <2>1, <2>2 DEF Owned, LoopInv, IsHead
  <2>4. grp[loop.cur].total = Len(grp[loop.cur].msgs) /\ grp[loop.cur].total <= splitSz
    BY <2>3 DEF HeapInv, CountInv
  <2> QED
    BY <1>1, <1>4, <2>4
<1> QED
  BY <1>2, <1>3, <1>4 DEF Next, FlushMsg, FlushMsgGrp, IncludeMessage, StartConsume,
     MergeEntries, MergeGrp, SplitOff, LastBatch, Deliver, vars, drainVars

(* BatchWithinLimit: as long as no send fails, what is handed to the       *)
(* socket at one time holds at most SocketMsgLimit nodes.                  *)
THEOREM BatchesCorrect == ASSUME Reliable PROVE Spec => []BatchWithinLimit
<1>1. TypeInv /\ HeapInv /\ [Next]_vars => HeapInv'
  BY HeapStep
<1>2. Init => HeapInv
  BY HeapInit DEF HeapInv
<1> QED
  BY <1>1, <1>2, TypeInit, TypeStep, BatchInit, BatchStep, PTL DEF Spec
-----------------------------------------------------------------------------
(* Induction, for a set of numbers: a least number outside of it would     *)
(* follow a number inside.                                                 *)
NatLess == {p \in Nat \X Nat : p[1] < p[2]}

(* Induction over the naturals, for a set instead of a predicate: a least  *)
(* number outside of S would have a predecessor in S.                      *)
LEMMA NatSetInduction ==
  ASSUME NEW S, 0 \in S, \A n \in Nat : n \in S => n + 1 \in S
  PROVE  \A n \in Nat : n \in S
<1> DEFINE T == Nat \ S
<1> SUFFICES ASSUME T # {} PROVE FALSE
  OBVIOUS
<1>1. OpToRel(<, Nat) = NatLess
  BY Zenon DEF OpToRel, NatLess
<1>2. IsWellFoundedOn(NatLess, Nat)
  BY <1>1, NatLessThanWellFounded, Zenon
<1>3. PICK x \in T : \A y \in T : ~(<<y, x>> \in NatLess)
  BY <1>2, WFMin
<1>4. x \in Nat /\ x # 0
  OBVIOUS
<1>5. x - 1 \in T /\ x - 1 \in Nat
  BY <1>4
<1>6. <<x - 1, x>> \in NatLess
  BY <1>4, <1>5 DEF NatLess
<1> QED
  BY <1>3, <1>5, <1>6

Pointers == GroupIds \cup {NULL}
ListBody(f, n, g) == IF g = NULL \/ n = 0 THEN {} ELSE {g} \cup f[n - 1][grp[g].next]
Lists(f, m) == [n \in 0..m |-> [g \in Pointers |-> ListBody(f, n, g)]]

(* Hence the function that follows the pointers m times exists.            *)
LEMMA ListExists ==
  ASSUME \A g \in GroupIds : grp[g].next \in Pointers
  PROVE  \A m \in Nat : \E f : f = Lists(f, m)
<1> DEFINE S == {m \in Nat : \E f : f = Lists(f, m)}
<1>1. 0 \in S
  <2> DEFINE f == [n \in 0..0 |-> [g \in Pointers |-> {}]]
  <2>1. \A n \in 0..0 : \A g \in Pointers : ListBody(f, n, g) = {}
    BY DEF ListBody
  <2> HIDE DEF f
  <2>2. Lists(f, 0) = [n \in 0..0 |-> [g \in Pointers |-> {}]]
    BY <2>1 DEF Lists
  <2> QED
    BY <2>2 DEF f
<1>2. ASSUME NEW m \in Nat, m \in S PROVE m + 1 \in S
  <2>1. PICK f : f = Lists(f, m)
    BY <1>2
  <2> DEFINE h == Lists(f, m + 1)
  <2>2. \A n \in 0..(m + 1) : h[n] = [g \in Pointers |-> ListBody(f, n, g)]
    BY DEF Lists
  <2>3. \A n \in 0..m : f[n] = [g \in Pointers |-> ListBody(f, n, g)]
    BY <2>1 DEF Lists
  <2>4. \A n \in 0..m : n \in 0..(m + 1) /\ f[n] = h[n]
    <3> HIDE DEF h
    <3>1. \A n \in 0..m : n \in 0..(m + 1)
      OBVIOUS
    <3> QED
      BY <2>2, <2>3, <3>1, Zenon
  <2> HIDE DEF h
  <2>5. \A n \in 0..(m + 1) : \A g \in Pointers : ListBody(f, n, g) = ListBody(h, n, g)
    BY <2>4 DEF ListBody
  <2>6. h = Lists(h, m + 1)
    BY <2>5 DEF h, Lists
  <2> QED
    BY <2>6
<1> HIDE DEF S
<1>3. \A m \in Nat : m \in S
  BY <1>1, <1>2, NatSetInduction
<1> QED
  BY <1>3 DEF S

(* The recursion of ListFrom.                                              *)
LEMMA ListEquation ==
  ASSUME \A g \in GroupIds : grp[g].next \in Pointers
  PROVE  \A n \in 0..MaxGroups : \A g \in Pointers :
           ListFrom[n][g] = ListBody(ListFrom, n, g)
<1>1. MaxGroups \in Nat
  BY StoreAssumption
<1>2. \E f : f = Lists(f, MaxGroups)
  BY <1>1, ListExists
<1>3. ListFrom = CHOOSE f : f = Lists(f, MaxGroups)
  BY Zenon DEF ListFrom, Lists, ListBody, Pointers
<1>4. ListFrom = Lists(ListFrom, MaxGroups)
  BY <1>2, <1>3
<1>5. \A n \in 0..MaxGroups : ListFrom[n] = [g \in Pointers |-> ListBody(ListFrom, n, g)]
  BY <1>4 DEF Lists
<1> QED
  BY <1>5

(* A group that no other follows is a list of its own.                     *)
LEMMA ListAlone ==
  ASSUME \A g \in GroupIds : grp[g].next = NULL
  PROVE  /\ \A g \in GroupIds : ListFrom[MaxGroups][g] = {g}
         /\ ListFrom[MaxGroups][NULL] = {}
<1>1. MaxGroups \in Nat /\ MaxGroups >= 1 /\ NULL \notin GroupIds
  BY StoreAssumption DEF NULL, GroupIds
<1>2. \A n \in 0..MaxGroups : \A g \in Pointers : ListFrom[n][g] = ListBody(ListFrom, n, g)
  BY ListEquation DEF Pointers
<1>3. \A n \in 0..MaxGroups : ListFrom[n][NULL] = {}
  BY <1>2 DEF ListBody, Pointers
<1>4. ASSUME NEW g \in GroupIds
      PROVE  ListFrom[MaxGroups][g] = {g}
  <2>1. ListFrom[MaxGroups][g] = {g} \cup ListFrom[MaxGroups - 1][NULL]
    <3>1. ListFrom[MaxGroups][g] = ListBody(ListFrom, MaxGroups, g)
      BY <1>1, <1>2 DEF Pointers
    <3> QED
      BY <1>1, <3>1 DEF ListBody
  <2> QED
    BY <1>1, <1>3, <2>1
<1> QED
  BY <1>1, <1>3, <1>4


-----------------------------------------------------------------------------
(* The store without a limit.                                              *)

Unlimited == ~isToBeSplit

-----------------------------------------------------------------------------
(* Sequences whose elements are all different.                             *)
LEMMA SetOfEmpty == ToSet(<<>>) = {} /\ IsInjective(<<>>)
  BY DEF ToSet, IsInjective

(* A sequence has one element more after Append.                           *)
LEMMA SetOfAppend ==
  ASSUME NEW N, NEW s \in Seq(N), NEW x \in N
  PROVE  ToSet(Append(s, x)) = ToSet(s) \cup {x}
<1>1. /\ DOMAIN s = 1..Len(s) /\ Len(s) \in Nat
      /\ DOMAIN Append(s, x) = 1..(Len(s) + 1)
  OBVIOUS
<1>2. \A i \in 1..(Len(s) + 1) : Append(s, x)[i] = IF i <= Len(s) THEN s[i] ELSE x
  OBVIOUS
<1>3. ASSUME NEW y PROVE y \in ToSet(Append(s, x)) <=> y \in ToSet(s) \cup {x}
  <2>1. y \in ToSet(Append(s, x)) <=> \E i \in 1..(Len(s) + 1) : y = Append(s, x)[i]
    BY <1>1 DEF ToSet
  <2>2. y \in ToSet(s) <=> \E i \in 1..Len(s) : y = s[i]
    BY <1>1 DEF ToSet
  <2>3. Len(s) + 1 \in 1..(Len(s) + 1) /\ Append(s, x)[Len(s) + 1] = x
    BY <1>1, <1>2
  <2> QED
    BY <1>1, <1>2, <2>1, <2>2, <2>3
<1> QED
  BY <1>3

(* Append repeats nothing if the element is new.                           *)
LEMMA InjectiveAppend ==
  ASSUME NEW N, NEW s \in Seq(N), NEW x \in N, IsInjective(s), x \notin ToSet(s)
  PROVE  IsInjective(Append(s, x))
<1>1. /\ DOMAIN s = 1..Len(s) /\ Len(s) \in Nat
      /\ DOMAIN Append(s, x) = 1..(Len(s) + 1)
  OBVIOUS
<1>2. \A i \in 1..(Len(s) + 1) : Append(s, x)[i] = IF i <= Len(s) THEN s[i] ELSE x
  OBVIOUS
<1>3. \A i \in 1..Len(s) : s[i] \in ToSet(s)
  BY <1>1 DEF ToSet
<1>4. ASSUME NEW i \in 1..(Len(s) + 1), NEW j \in 1..(Len(s) + 1),
             Append(s, x)[i] = Append(s, x)[j]
      PROVE  i = j
  <2>1. CASE i <= Len(s) /\ j <= Len(s)
    BY <1>1, <1>2, <1>4, <2>1 DEF IsInjective
  <2>2. CASE i <= Len(s) /\ ~(j <= Len(s))
    BY <1>1, <1>2, <1>3, <1>4, <2>2
  <2>3. CASE ~(i <= Len(s)) /\ j <= Len(s)
    BY <1>1, <1>2, <1>3, <1>4, <2>3
  <2>4. CASE ~(i <= Len(s)) /\ ~(j <= Len(s))
    BY <1>1, <2>4
  <2> QED
    BY <2>1, <2>2, <2>3, <2>4
<1>5. IsInjective(Append(s, x))
  BY <1>1, <1>4 DEF IsInjective
<1> QED
  BY <1>5

(* A concatenation repeats nothing if neither part does and they share no  *)
(* element.                                                                *)
LEMMA InjectiveConcat ==
  ASSUME NEW N, NEW s \in Seq(N), NEW t \in Seq(N),
         IsInjective(s), IsInjective(t), ToSet(s) \cap ToSet(t) = {}
  PROVE  /\ s \o t \in Seq(N)
         /\ ToSet(s \o t) = ToSet(s) \cup ToSet(t)
         /\ IsInjective(s \o t)
<1> DEFINE u == s \o t
<1>1. /\ DOMAIN s = 1..Len(s) /\ Len(s) \in Nat
      /\ DOMAIN t = 1..Len(t) /\ Len(t) \in Nat
      /\ u \in Seq(N) /\ DOMAIN u = 1..(Len(s) + Len(t))
  OBVIOUS
<1>2. \A i \in 1..(Len(s) + Len(t)) : u[i] = IF i <= Len(s) THEN s[i] ELSE t[i - Len(s)]
  OBVIOUS
<1> HIDE DEF u
<1>3. /\ \A i \in 1..Len(s) : s[i] \in ToSet(s)
      /\ \A i \in 1..Len(t) : t[i] \in ToSet(t)
  BY <1>1 DEF ToSet
<1>4. ASSUME NEW y PROVE y \in ToSet(u) <=> y \in ToSet(s) \cup ToSet(t)
  <2>1. y \in ToSet(u) <=> \E i \in 1..(Len(s) + Len(t)) : y = u[i]
    BY <1>1 DEF ToSet
  <2>2. /\ y \in ToSet(s) <=> \E i \in 1..Len(s) : y = s[i]
        /\ y \in ToSet(t) <=> \E i \in 1..Len(t) : y = t[i]
    BY <1>1 DEF ToSet
  <2>3. ASSUME NEW i \in 1..Len(t), y = t[i]
        PROVE  \E k \in 1..(Len(s) + Len(t)) : y = u[k]
    <3>1. Len(s) + i \in 1..(Len(s) + Len(t)) /\ ~(Len(s) + i <= Len(s))
          /\ (Len(s) + i) - Len(s) = i
      BY <1>1
    <3> QED
      BY <1>2, <2>3, <3>1
  <2>4. ASSUME NEW i \in 1..Len(s), y = s[i]
        PROVE  \E k \in 1..(Len(s) + Len(t)) : y = u[k]
    <3>1. i \in 1..(Len(s) + Len(t)) /\ i <= Len(s)
      BY <1>1
    <3> QED
      BY <1>2, <2>4, <3>1
  <2>5. ASSUME NEW k \in 1..(Len(s) + Len(t)), y = u[k]
        PROVE  \/ \E i \in 1..Len(s) : y = s[i]
               \/ \E i \in 1..Len(t) : y = t[i]
    <3>1. CASE k <= Len(s)
      BY <1>1, <1>2, <2>5, <3>1
    <3>2. CASE ~(k <= Len(s))
      <4>1. k - Len(s) \in 1..Len(t)
        BY <1>1, <3>2
      <4> QED
        BY <1>2, <2>5, <3>2, <4>1
    <3> QED
      BY <3>1, <3>2
  <2> QED
    BY <2>1, <2>2, <2>3, <2>4, <2>5
<1>5. ASSUME NEW i \in 1..(Len(s) + Len(t)), NEW j \in 1..(Len(s) + Len(t)), u[i] = u[j]
      PROVE  i = j
  <2>1. CASE i <= Len(s) /\ j <= Len(s)
    BY <1>1, <1>2, <1>5, <2>1, SMTT(60) DEF IsInjective
  <2>2. /\ ~(i <= Len(s)) => i - Len(s) \in 1..Len(t)
        /\ ~(j <= Len(s)) => j - Len(s) \in 1..Len(t)
    BY <1>1
  <2>3. CASE i <= Len(s) /\ ~(j <= Len(s))
    BY <1>1, <1>2, <1>3, <1>5, <2>2, <2>3
  <2>4. CASE ~(i <= Len(s)) /\ j <= Len(s)
    BY <1>1, <1>2, <1>3, <1>5, <2>2, <2>4
  <2>5. CASE ~(i <= Len(s)) /\ ~(j <= Len(s))
    <3>1. i - Len(s) = j - Len(s)
      BY <1>1, <1>2, <1>5, <2>2, <2>5 DEF IsInjective
    <3> QED
      BY <1>1, <3>1
  <2> QED
    BY <2>1, <2>3, <2>4, <2>5
<1>6. IsInjective(u)
  BY <1>1, <1>5 DEF IsInjective
<1> QED
  BY <1>1, <1>4, <1>6 DEF u
-----------------------------------------------------------------------------
(* The heap: four groups that are queues, and while a drain is in its loop *)
(* the group it took from the right queue.                                 *)
PlainGroups(N) ==
  {g \in [msgs : Seq(N), tail : Nat, total : Nat, next : {NULL}] :
     g.tail = Len(g.msgs) /\ g.total = Len(g.msgs)}

HeapShape(N) ==
  /\ grp \in [GroupIds -> PlainGroups(N)]
  /\ live \in SUBSET GroupIds
  /\ holder \in [Locations -> Holders]
  /\ \A l \in Locations : holder[l].start \in live
  /\ \A l, k \in Locations : holder[l].start = holder[k].start => l = k

LoopShape ==
  /\ loop \in Loops
  /\ draining \in Spaces \cup {NoSpace}
  /\ \A l \in Locations :
       l # Left(draining) \/ loop = NotLooping => holder[l].cur = holder[l].start
  /\ loop # NotLooping =>
       /\ draining \in Spaces
       /\ loop.cur = holder[Left(draining)].start
       /\ loop.tot = grp[loop.cur].total
  /\ loop.nxt # NULL =>
       /\ loop # NotLooping
       /\ loop.nxt \in live
       /\ \A l \in Locations : holder[l].start # loop.nxt
       /\ holder[Left(draining)].cur = loop.nxt

Shape(N) == HeapShape(N) /\ LoopShape

(* The groups a drain can still reach, and what they hold.                 *)
Places == {holder[l].start : l \in Locations} \cup (IF loop.nxt = NULL THEN {} ELSE {loop.nxt})
At(g) == ToSet(grp[g].msgs)

(* What a group of the shape is.                                           *)
LEMMA PlainFacts ==
  ASSUME NEW N, Shape(N), NEW g \in GroupIds
  PROVE  /\ grp[g] \in PlainGroups(N)
         /\ grp[g].msgs \in Seq(N) /\ Len(grp[g].msgs) \in Nat
         /\ grp[g].tail = Len(grp[g].msgs) /\ grp[g].total = Len(grp[g].msgs)
         /\ grp[g].next = NULL
<1>1. grp[g] \in PlainGroups(N)
  BY DEF Shape, HeapShape
<1>2. grp[g].msgs \in Seq(N)
  BY <1>1 DEF PlainGroups
<1> QED
  BY <1>1, <1>2 DEF PlainGroups

(* Where the groups in use are.                                            *)
LEMMA PlaceFacts ==
  ASSUME NEW N, Shape(N)
  PROVE  /\ Places \subseteq live /\ live \subseteq GroupIds
         /\ \A l \in Locations : holder[l].start \in Places
         /\ loop.nxt # NULL => loop.nxt \in Places
         /\ loop # NotLooping =>
              /\ draining \in Spaces
              /\ loop.cur \in Places /\ loop.cur # loop.nxt
              /\ loop.cur = holder[Left(draining)].start
         /\ loop \in Loops
<1>1. loop # NotLooping => Left(draining) \in Locations
  BY LocationFacts DEF Shape, LoopShape
<1> QED
  BY <1>1, GroupFacts DEF Shape, HeapShape, LoopShape, Places

(* What the store knows as Waiting is what these groups hold.              *)
LEMMA WaitingIs ==
  ASSUME NEW N, Shape(N)
  PROVE  Waiting = UNION {At(g) : g \in Places}
<1>1. \A g \in GroupIds : grp[g].next = NULL
  BY PlainFacts
<1>2. /\ \A g \in GroupIds : ListFrom[MaxGroups][g] = {g}
      /\ ListFrom[MaxGroups][NULL] = {}
  BY <1>1, ListAlone
<1>3. /\ \A l \in Locations : holder[l].start \in GroupIds
      /\ loop.nxt # NULL => loop.nxt \in GroupIds /\ loop # NotLooping
  BY PlaceFacts DEF Shape, LoopShape
<1>4. (UNION {GroupsOf(l) : l \in Locations}) = {holder[l].start : l \in Locations}
  <2>1. \A l \in Locations : GroupsOf(l) = {holder[l].start}
    BY <1>2, <1>3 DEF GroupsOf
  <2> QED
    BY <2>1
<1> DEFINE ofLoop == IF loop = NotLooping THEN {}
                     ELSE {loop.cur} \cup ListFrom[MaxGroups][loop.nxt]
<1>5. {holder[l].start : l \in Locations} \cup ofLoop = Places
  <2>1. CASE loop = NotLooping
    BY <1>3, <2>1 DEF Places
  <2>2. CASE loop # NotLooping
    <3>1. loop.cur \in {holder[l].start : l \in Locations}
      BY <2>2, PlaceFacts, LocationFacts
    <3>2. ListFrom[MaxGroups][loop.nxt] = IF loop.nxt = NULL THEN {} ELSE {loop.nxt}
      BY <1>2, <1>3
    <3> QED
      BY <2>2, <3>1, <3>2 DEF Places
  <2> QED
    BY <2>1, <2>2
<1>6. Waiting = UNION {ToSet(grp[g].msgs) : g \in (UNION {GroupsOf(l) : l \in Locations}) \cup ofLoop}
  BY Zenon DEF Waiting
<1> HIDE DEF ofLoop
<1> QED
  BY <1>4, <1>5, <1>6 DEF At

(* The same of the state after a step.                                     *)
LEMMA ShapeNext ==
  (\A N : Shape(N) =>
     /\ Waiting = UNION {At(g) : g \in Places}
     /\ \A l \in Locations : holder[l].start \in Places
     /\ loop.nxt # NULL => loop.nxt \in Places)'
<1>1. \A N : Shape(N) =>
        /\ Waiting = UNION {At(g) : g \in Places}
        /\ \A l \in Locations : holder[l].start \in Places
        /\ loop.nxt # NULL => loop.nxt \in Places
  BY WaitingIs, PlaceFacts
<1> QED
  BY <1>1, PTL

(* The store starts in that shape.                                         *)
LEMMA ShapeInit ==
  ASSUME NEW N, Init PROVE Shape(N)
<1>1. EmptyGroup \in PlainGroups(N)
  BY DEF EmptyGroup, PlainGroups
<1>2. /\ grp = [g \in GroupIds |-> EmptyGroup]
      /\ live = 1..4 /\ live \in SUBSET GroupIds
      /\ holder = [l \in Locations |-> [start |-> l - 1, cur |-> l - 1, next |-> NULL]]
      /\ loop = NotLooping /\ draining = NoSpace
  BY StoreAssumption DEF Init, GroupIds
<1>3. \A l \in Locations : l - 1 \in live /\ l - 1 \in GroupIds
  BY <1>2, LocationFacts, StoreAssumption DEF GroupIds
<1>4. holder \in [Locations -> Holders]
  BY <1>2, <1>3 DEF Holders
<1>5. /\ \A l \in Locations : holder[l].start \in live /\ holder[l].cur = holder[l].start
      /\ \A l, k \in Locations : holder[l].start = holder[k].start => l = k
  BY <1>2, <1>3, LocationFacts
<1>6. grp \in [GroupIds -> PlainGroups(N)]
  BY <1>1, <1>2
<1>7. loop \in Loops /\ loop.nxt = NULL
  BY <1>2 DEF Loops, NotLooping
<1> QED
  BY <1>2, <1>4, <1>5, <1>6, <1>7 DEF Shape, HeapShape, LoopShape

-----------------------------------------------------------------------------
(* What the operations of the store do to that shape.                      *)
LEMMA AppendPlain ==
  ASSUME NEW N, NEW g \in PlainGroups(N), NEW node \in N
  PROVE  /\ AppendNode(g, node) \in PlainGroups(N)
         /\ AppendNode(g, node).msgs = Append(g.msgs, node)
<1>1. /\ g.msgs \in Seq(N) /\ Len(g.msgs) \in Nat
      /\ g.tail = Len(g.msgs) /\ g.total = Len(g.msgs) /\ g.next = NULL
      /\ g = [msgs |-> g.msgs, tail |-> g.tail, total |-> g.total, next |-> g.next]
  BY DEF PlainGroups
<1>2. SubSeq(g.msgs, 1, g.tail) = g.msgs
  BY <1>1, SubSeqFull
<1>3. Append(g.msgs, node) = g.msgs \o <<node>> /\ Append(g.msgs, node) \in Seq(N)
      /\ Len(Append(g.msgs, node)) = Len(g.msgs) + 1
  BY <1>1, AppendIsConcat
<1> DEFINE m == Append(g.msgs, node)
<1>4. AppendNode(g, node) = [g EXCEPT !.msgs = m, !.tail = g.tail + 1, !.total = g.total + 1]
  BY <1>2, <1>3 DEF AppendNode, Linked
<1> HIDE DEF m
<1>5. AppendNode(g, node) = [msgs |-> m, tail |-> g.tail + 1, total |-> g.total + 1, next |-> NULL]
  BY <1>1, <1>4
<1>6. AppendNode(g, node).msgs = m
  BY <1>5
<1>7. m \in Seq(N) /\ Len(m) = Len(g.msgs) + 1
  BY <1>3 DEF m
<1> QED
  BY <1>1, <1>5, <1>6, <1>7 DEF PlainGroups, m

(* mergeGrp of two groups without nodes.                                   *)
LEMMA MergePlain ==
  ASSUME NEW N, NEW g \in PlainGroups(N), NEW h \in PlainGroups(N),
         g.total + h.total <= 0
  PROVE  /\ MergedGroup(g, h) = g
         /\ g.msgs = <<>> /\ h.msgs = <<>>
<1>1. /\ g.msgs \in Seq(N) /\ Len(g.msgs) \in Nat
      /\ h.msgs \in Seq(N) /\ Len(h.msgs) \in Nat
      /\ g.tail = Len(g.msgs) /\ g.total = Len(g.msgs) /\ h.total = Len(h.msgs)
      /\ g = [msgs |-> g.msgs, tail |-> g.tail, total |-> g.total, next |-> g.next]
  BY DEF PlainGroups
<1>2. g.total = 0 /\ h.total = 0 /\ g.tail = 0
  BY <1>1
<1>3. g.msgs = <<>> /\ h.msgs = <<>>
  BY <1>1, <1>2, EmptySeq
<1>4. SubSeq(g.msgs, 1, g.tail) = <<>>
  BY <1>2, SubSeqEmpty
<1>5. SubSeq(g.msgs, 1, g.tail) \o h.msgs = <<>>
  BY <1>3, <1>4
<1> DEFINE m == SubSeq(g.msgs, 1, g.tail) \o h.msgs
<1>6. MergedGroup(g, h) = [g EXCEPT !.msgs = m, !.total = g.total + h.total]
  BY DEF MergedGroup, Linked
<1>7. m = g.msgs /\ g.total + h.total = g.total
  BY <1>1, <1>2, <1>3, <1>5
<1> HIDE DEF m
<1> QED
  BY <1>1, <1>3, <1>6, <1>7

(* Without a limit no group is ever full.                                  *)
LEMMA ToSplitNever == Unlimited => splitSz = 0 /\ \A g : ~GroupIsFull(g)
  BY DEF Unlimited, splitSz, GroupIsFull

(* onQueueMessage appends to the one group of its queue.                   *)
LEMMA QueueShape ==
  ASSUME NEW N, Unlimited, Shape(N), NEW l \in Locations, l % 2 # draining,
         NEW node \in N, QueueMessage(l, node), UNCHANGED <<loop, draining>>
  PROVE  LET c == holder[l].start
         IN  /\ Shape(N)' /\ Places' = Places /\ c \in Places
             /\ holder' = holder
             /\ grp'[c].msgs = Append(grp[c].msgs, node)
             /\ \A g \in GroupIds : g # c => grp'[g].msgs = grp[g].msgs
             /\ arrived' = [arrived EXCEPT ![l] = Append(@, node)]
<1> DEFINE c == holder[l].start
<1>1. l # Left(draining)
  BY LocationFacts DEF Shape, LoopShape
<1>2. holder[l].cur = c /\ c \in live /\ c \in GroupIds /\ c \in Places
  BY <1>1, PlaceFacts DEF Shape, LoopShape, HeapShape
<1>3. /\ grp' = [grp EXCEPT ![c] = AppendNode(grp[c], node)]
      /\ UNCHANGED <<live, holder>>
      /\ arrived' = [arrived EXCEPT ![l] = Append(@, node)]
  BY <1>2, LocationFacts, ToSplitNever DEF QueueMessage
<1>4. /\ AppendNode(grp[c], node) \in PlainGroups(N)
      /\ AppendNode(grp[c], node).msgs = Append(grp[c].msgs, node)
  <2>1. grp[c] \in PlainGroups(N)
    BY <1>2, PlainFacts
  <2>2. \A g \in PlainGroups(N) : /\ AppendNode(g, node) \in PlainGroups(N)
                                  /\ AppendNode(g, node).msgs = Append(g.msgs, node)
    BY AppendPlain, ZenonT(60)
  <2> HIDE DEF c
  <2> QED
    BY <2>1, <2>2, ZenonT(60)
<1>5. grp \in [GroupIds -> PlainGroups(N)]
  BY DEF Shape, HeapShape
<1> HIDE DEF c
<1>6. /\ grp'[c] = AppendNode(grp[c], node)
      /\ \A g \in GroupIds : g # c => grp'[g] = grp[g]
      /\ grp' \in [GroupIds -> PlainGroups(N)]
  BY <1>2, <1>3, <1>4, <1>5
<1>7. loop # NotLooping => loop.cur \in GroupIds /\ loop.cur # c
  BY <1>1, PlaceFacts, LocationFacts DEF c, Shape, HeapShape
<1>8. HeapShape(N)'
  BY <1>3, <1>6 DEF Shape, HeapShape
<1>9. LoopShape'
  BY <1>3, <1>6, <1>7 DEF Shape, LoopShape
<1>10. Places' = Places
  BY <1>3 DEF Places
<1> QED
  BY <1>2, <1>3, <1>4, <1>6, <1>8, <1>9, <1>10 DEF c, Shape

(* mergeEntries: the group of the right queue is at hand, and an empty one *)
(* takes its place.                                                        *)
LEMMA MergeEntriesShape ==
  ASSUME NEW N, Shape(N), MergeEntries
  PROVE  /\ Shape(N)'
         /\ \A g \in Places' : \/ g \in Places /\ grp'[g].msgs = grp[g].msgs
                               \/ grp'[g].msgs = <<>>
         /\ \A g \in Places : g \in Places' /\ grp'[g].msgs = grp[g].msgs
         /\ \A k \in Locations : \/ holder'[k].start = holder[k].start
                                 \/ grp'[holder'[k].start].msgs = <<>>
         /\ \E k \in Locations : k % 2 = draining /\ loop'.nxt = holder[k].start
<1> DEFINE l == Left(draining)
           r == Right(draining)
<1>1. PICK new : new = NewGroup
  OBVIOUS
<1>2. /\ draining \in Spaces /\ loop = NotLooping /\ loop.nxt = NULL
      /\ new \in GroupIds /\ new \notin live /\ new # NULL
      /\ batch' = <<>>
      /\ live' = live \cup {new}
      /\ grp' = [grp EXCEPT ![new] = EmptyGroup]
      /\ holder' = [holder EXCEPT ![l].next = holder[r].start,
                                  ![l].cur = holder[r].cur,
                                  ![r] = [start |-> new, cur |-> new, next |-> NULL]]
      /\ loop' = [cur |-> holder[l].start, nxt |-> holder[r].start,
                  tot |-> grp[holder[l].start].total]
      /\ draining' = draining
  BY <1>1, FreeFacts, GroupFacts
     DEF MergeEntries, Shape, LoopShape, NotLooping, NULL, GroupIds
<1>3. l \in Locations /\ r \in Locations /\ l # r /\ r % 2 = draining
  BY <1>2, LocationFacts
<1> HIDE DEF l, r
<1>4. EmptyGroup \in PlainGroups(N) /\ EmptyGroup.msgs = <<>>
  BY DEF EmptyGroup, PlainGroups
<1>5. /\ holder \in [Locations -> Holders]
      /\ \A k \in Locations : holder[k].start \in live
      /\ \A k \in Locations : holder[k].cur = holder[k].start
      /\ \A k, j \in Locations : holder[k].start = holder[j].start => k = j
      /\ live \subseteq GroupIds
      /\ grp \in [GroupIds -> PlainGroups(N)]
  BY <1>2 DEF Shape, HeapShape, LoopShape
<1>6. /\ holder'[l].start = holder[l].start /\ holder'[l].cur = holder[r].start
      /\ holder'[r].start = new /\ holder'[r].cur = new
      /\ \A k \in Locations : k # l /\ k # r => holder'[k] = holder[k]
      /\ holder' \in [Locations -> Holders]
  BY <1>2, <1>3, <1>5 DEF Holders
<1>7. \A k \in Locations : k # r => holder'[k].start = holder[k].start
  BY <1>6
<1>8. /\ grp' \in [GroupIds -> PlainGroups(N)]
      /\ \A g \in live : grp'[g] = grp[g]
      /\ grp'[new].msgs = <<>>
  BY <1>2, <1>4, <1>5
<1>9. /\ \A k \in Locations : holder'[k].start \in live'
      /\ \A k, j \in Locations : holder'[k].start = holder'[j].start => k = j
  BY <1>2, <1>5, <1>6, <1>7
<1>10. HeapShape(N)'
  BY <1>2, <1>5, <1>6, <1>8, <1>9 DEF HeapShape
<1>11. /\ loop'.nxt = holder[r].start /\ loop'.nxt # NULL
       /\ loop'.cur = holder[l].start /\ loop'.cur # NULL
       /\ loop'.tot = grp[holder[l].start].total
       /\ grp[holder[l].start].total \in Nat
  BY <1>2, <1>3, <1>5, GroupFacts, PlainFacts
<1>12. loop' \in Loops /\ loop' # NotLooping
  BY <1>2, <1>3, <1>5, <1>11 DEF Loops, NotLooping
<1>13. /\ \A k \in Locations : k # l => holder'[k].cur = holder'[k].start
       /\ \A k \in Locations : holder'[k].start # holder[r].start
  BY <1>2, <1>3, <1>5, <1>6, <1>7
<1>14. LoopShape'
  <2>1. Left(draining)' = l /\ draining' \in Spaces
    BY <1>2 DEF l
  <2>2. loop'.cur = holder'[l].start /\ loop'.tot = grp'[loop'.cur].total
    <3>1. holder[l].start \in live
      BY <1>3, <1>5
    <3> QED
      BY <1>6, <1>8, <1>11, <3>1
  <2>3. /\ loop'.nxt \in live'
        /\ \A k \in Locations : holder'[k].start # loop'.nxt
        /\ holder'[l].cur = loop'.nxt
    BY <1>2, <1>3, <1>5, <1>6, <1>11, <1>13
  <2>4. \A k \in Locations :
          k # Left(draining)' \/ loop' = NotLooping => holder'[k].cur = holder'[k].start
    BY <1>12, <1>13, <2>1
  <2> QED
    BY <1>12, <2>1, <2>2, <2>3, <2>4, Zenon DEF LoopShape
<1>15. /\ Places = {holder[k].start : k \in Locations}
       /\ Places' = {holder'[k].start : k \in Locations} \cup {holder[r].start}
  BY <1>2, <1>11 DEF Places
<1>16. Places' = Places \cup {new}
  BY <1>3, <1>6, <1>7, <1>15
<1>17. Places \subseteq live
  BY <1>5, <1>15
<1> QED
  BY <1>3, <1>6, <1>7, <1>8, <1>10, <1>11, <1>14, <1>16, <1>17 DEF Shape

(* mergeGrp: only empty groups fit together.                               *)
LEMMA MergeGrpShape ==
  ASSUME NEW N, Unlimited, Shape(N), MergeGrp
  PROVE  /\ Shape(N)'
         /\ Places' = Places \ {loop.nxt} /\ holder' = holder
         /\ grp[loop.nxt].msgs = <<>>
         /\ \A g \in Places : grp'[g].msgs = grp[g].msgs
         /\ loop'.nxt = NULL
<1>1. /\ loop.nxt # NULL
      /\ loop.tot + grp[loop.nxt].total <= 0
      /\ grp' = [grp EXCEPT ![loop.cur] = MergedGroup(grp[loop.cur], grp[loop.nxt])]
      /\ live' = live \ {loop.nxt}
      /\ loop' = [loop EXCEPT !.nxt = MergedGroup(grp[loop.cur], grp[loop.nxt]).next,
                              !.tot = @ + grp[loop.nxt].total]
      /\ UNCHANGED <<holder, draining>>
  BY ToSplitNever DEF MergeGrp
<1>2. /\ loop.cur \in Places /\ loop.nxt \in Places /\ loop.cur # loop.nxt
      /\ loop.cur \in GroupIds /\ loop.nxt \in GroupIds
      /\ loop.tot = grp[loop.cur].total /\ loop # NotLooping /\ loop \in Loops
  BY <1>1, PlaceFacts DEF Shape, LoopShape
<1>3. /\ MergedGroup(grp[loop.cur], grp[loop.nxt]) = grp[loop.cur]
      /\ grp[loop.nxt].msgs = <<>>
      /\ grp[loop.cur].next = NULL
      /\ grp[loop.nxt].total \in Nat /\ grp[loop.cur].total \in Nat
  BY <1>1, <1>2, PlainFacts, MergePlain
<1>4. grp' = grp
  BY <1>1, <1>3 DEF Shape, HeapShape
<1>5. /\ loop'.nxt = NULL /\ loop'.cur = loop.cur
      /\ loop'.tot = loop.tot + grp[loop.nxt].total
      /\ loop' \in Loops
  <2> DEFINE t == loop.tot + grp[loop.nxt].total
  <2>1. loop' = [loop EXCEPT !.nxt = NULL, !.tot = t]
    BY <1>1, <1>3
  <2>2. t \in Nat
    BY <1>2, <1>3
  <2> HIDE DEF t
  <2>3. /\ loop'.nxt = NULL /\ loop'.cur = loop.cur /\ loop'.tot = t
        /\ loop' \in Loops
    BY <1>2, <2>1, <2>2 DEF Loops
  <2> QED
    BY <2>3 DEF t
<1>6. grp[loop.nxt].total = 0
  BY <1>1, <1>2, <1>3
<1>7. loop'.tot = grp'[loop'.cur].total
  BY <1>2, <1>3, <1>4, <1>5, <1>6
<1>8. loop' # NotLooping
  BY <1>2, <1>5, GroupFacts DEF NotLooping
<1>9. /\ \A l \in Locations : holder[l].start # loop.nxt
      /\ draining \in Spaces
      /\ loop.cur = holder[Left(draining)].start
  BY <1>1 DEF Shape, LoopShape
<1>10. HeapShape(N)'
  BY <1>1, <1>4, <1>9 DEF Shape, HeapShape
<1>11. LoopShape'
  BY <1>1, <1>2, <1>5, <1>7, <1>8, <1>9 DEF Shape, LoopShape
<1>12. Places' = Places \ {loop.nxt}
  BY <1>1, <1>5, <1>9 DEF Places
<1> QED
  BY <1>1, <1>3, <1>4, <1>5, <1>10, <1>11, <1>12 DEF Shape

(* The batch that is split off leaves the queue, which goes on with the    *)
(* group at hand.                                                          *)
LEMMA SplitOffShape ==
  ASSUME NEW N, Unlimited, Shape(N), SplitOff
  PROVE  /\ Shape(N)'
         /\ loop.cur \in Places /\ Places' = Places \ {loop.cur}
         /\ grp' = grp
         /\ \A k \in Locations : \/ holder'[k].start = holder[k].start
                                 \/ k % 2 = draining /\ holder'[k].start = loop.nxt /\ loop.nxt # NULL
         /\ loop'.nxt = NULL
<1> DEFINE l == Left(draining)
<1>1. /\ loop.nxt # NULL
      /\ holder' = [holder EXCEPT ![l].start = loop.nxt, ![l].next = grp[loop.nxt].next]
      /\ live' = live \ {loop.cur}
      /\ grp' = grp
      /\ loop' = NotLooping
      /\ draining' \in {draining, NoSpace}
  BY DEF SplitOff, Deliver
<1>2. /\ loop.nxt \in Places /\ loop.nxt \in GroupIds /\ loop.nxt \in live
      /\ loop.cur \in Places /\ loop.cur # loop.nxt
      /\ draining \in Spaces /\ loop.cur = holder[l].start
      /\ holder[l].cur = loop.nxt
      /\ \A k \in Locations : holder[k].start # loop.nxt
  BY <1>1, PlaceFacts DEF Shape, LoopShape
<1>3. l \in Locations /\ l % 2 = draining
  BY <1>2, LocationFacts
<1>4. grp[loop.nxt].next = NULL
  BY <1>2, PlainFacts
<1> HIDE DEF l
<1>5. /\ holder'[l].start = loop.nxt /\ holder'[l].cur = loop.nxt
      /\ \A k \in Locations : k # l => holder'[k] = holder[k]
      /\ holder' \in [Locations -> Holders]
  <2>1. holder \in [Locations -> Holders] /\ holder[l] \in Holders
    BY <1>3 DEF Shape, HeapShape
  <2> DEFINE h == [[holder[l] EXCEPT !.start = loop.nxt] EXCEPT !.next = NULL]
  <2>2. holder' = [holder EXCEPT ![l] = h]
    BY <1>1, <1>3, <1>4, <2>1
  <2>3. h \in Holders /\ h.start = loop.nxt /\ h.cur = holder[l].cur
    BY <1>2, <2>1 DEF Holders
  <2> HIDE DEF h
  <2> QED
    BY <1>2, <1>3, <2>1, <2>2, <2>3
<1>6. /\ \A k \in Locations : k # l => holder[k].start # loop.cur /\ holder[k].cur = holder[k].start
      /\ \A k, j \in Locations : holder'[k].start = holder'[j].start => k = j
  BY <1>2, <1>3, <1>5 DEF Shape, HeapShape, LoopShape, l
<1>7. \A k \in Locations : holder'[k].start \in live'
  BY <1>1, <1>2, <1>5, <1>6 DEF Shape, HeapShape
<1>8. HeapShape(N)'
  BY <1>1, <1>5, <1>6, <1>7 DEF Shape, HeapShape
<1>9. loop' \in Loops /\ loop'.nxt = NULL
  BY <1>1 DEF Loops, NotLooping
<1>10. LoopShape'
  BY <1>1, <1>2, <1>5, <1>6, <1>9 DEF Shape, LoopShape
<1>11. Places' = Places \ {loop.cur}
  <2>1. Places = {holder[k].start : k \in Locations} \cup {loop.nxt}
    BY <1>1 DEF Places
  <2>2. Places' = {holder'[k].start : k \in Locations}
    BY <1>9 DEF Places
  <2> QED
    BY <1>2, <1>3, <1>5, <1>6, <2>1, <2>2
<1> QED
  BY <1>1, <1>2, <1>3, <1>5, <1>8, <1>9, <1>10, <1>11 DEF Shape

(* The last batch leaves a new, empty left queue behind.                   *)
LEMMA LastBatchShape ==
  ASSUME NEW N, Unlimited, Shape(N), LastBatch
  PROVE  /\ Shape(N)'
         /\ loop.cur \in Places
         /\ \A g \in Places' : \/ g \in Places \ {loop.cur} /\ grp'[g].msgs = grp[g].msgs
                               \/ grp'[g].msgs = <<>>
         /\ \A g \in Places \ {loop.cur} : g \in Places' /\ grp'[g].msgs = grp[g].msgs
         /\ \A k \in Locations : \/ holder'[k].start = holder[k].start
                                 \/ grp'[holder'[k].start].msgs = <<>>
         /\ loop'.nxt = NULL
<1> DEFINE l == Left(draining)
<1>1. PICK new : new = NewGroup
  OBVIOUS
<1>2. /\ loop # NotLooping /\ loop.nxt = NULL
      /\ new \in GroupIds /\ new \notin live
      /\ live' = (live \cup {new}) \ {loop.cur}
      /\ grp' = [grp EXCEPT ![new] = EmptyGroup]
      /\ holder' = [holder EXCEPT ![l] = [start |-> new, cur |-> new, next |-> NULL]]
      /\ loop' = NotLooping
      /\ draining' \in {draining, NoSpace}
  BY <1>1, FreeFacts DEF LastBatch, Deliver
<1>3. /\ loop.cur \in Places /\ loop.cur \in live
      /\ draining \in Spaces /\ loop.cur = holder[l].start
  BY <1>2, PlaceFacts DEF Shape, LoopShape
<1>4. l \in Locations
  BY <1>3, LocationFacts
<1> HIDE DEF l
<1>5. EmptyGroup \in PlainGroups(N) /\ EmptyGroup.msgs = <<>>
  BY DEF EmptyGroup, PlainGroups
<1>6. /\ grp' \in [GroupIds -> PlainGroups(N)]
      /\ \A g \in live : grp'[g] = grp[g]
      /\ grp'[new].msgs = <<>>
  BY <1>2, <1>5 DEF Shape, HeapShape
<1>7. /\ holder'[l].start = new /\ holder'[l].cur = new
      /\ \A k \in Locations : k # l => holder'[k] = holder[k]
      /\ holder' \in [Locations -> Holders]
  BY <1>2, <1>4 DEF Shape, HeapShape, Holders
<1>8. /\ \A k \in Locations : holder[k].start \in live
      /\ \A k, j \in Locations : holder[k].start = holder[j].start => k = j
      /\ \A k \in Locations : k # l => holder[k].cur = holder[k].start
  BY DEF Shape, HeapShape, LoopShape, l
<1>9. /\ \A k \in Locations : holder'[k].start \in live'
      /\ \A k, j \in Locations : holder'[k].start = holder'[j].start => k = j
  BY <1>2, <1>3, <1>4, <1>7, <1>8
<1>10. HeapShape(N)'
  BY <1>2, <1>6, <1>7, <1>9 DEF Shape, HeapShape
<1>11. loop' \in Loops /\ loop'.nxt = NULL
  BY <1>2 DEF Loops, NotLooping
<1>12. LoopShape'
  BY <1>2, <1>3, <1>7, <1>8, <1>11 DEF Shape, LoopShape
<1>13. /\ Places = {holder[k].start : k \in Locations}
       /\ Places' = {holder'[k].start : k \in Locations}
  BY <1>2, <1>11 DEF Places
<1>14. Places' = (Places \ {loop.cur}) \cup {new}
  BY <1>3, <1>4, <1>7, <1>8, <1>13
<1>15. Places \subseteq live
  BY <1>8, <1>13
<1> QED
  BY <1>3, <1>4, <1>6, <1>7, <1>10, <1>11, <1>12, <1>14, <1>15 DEF Shape

(* Every location is the left or the right one of its space.               *)
LEMMA SpaceOf ==
  \A l \in Locations : l % 2 \in Spaces /\ l \in {Left(l % 2), Right(l % 2)}
<1>1. Locations = {2, 3, 4, 5}
  BY LocationFacts
<1>2. 2 % 2 = 0 /\ 3 % 2 = 1 /\ 4 % 2 = 0 /\ 5 % 2 = 1
  OBVIOUS
<1> QED
  BY <1>1, <1>2 DEF Spaces, Left, Right, LEFT_ENTRY, RIGHT_ENTRY

-----------------------------------------------------------------------------
(* No node is twice in what waits and what was handed to send(), and a     *)
(* drain of a space reaches what was stored there.                         *)
HandedOver == ToSet(sent) \cup unsent

Distinct(N) ==
  /\ sent \in Seq(N) /\ IsInjective(sent)
  /\ unsent \in SUBSET N
  /\ ToSet(sent) \cap unsent = {}
  /\ \A g \in Places : IsInjective(grp[g].msgs) /\ At(g) \cap HandedOver = {}
  /\ \A g, h \in Places : g # h => At(g) \cap At(h) = {}

StoredAt(s) == ToSet(arrived[Left(s)]) \cup ToSet(arrived[Right(s)])

Origin(N) ==
  /\ arrived \in [Locations -> Seq(N)]
  /\ \A l, k \in Locations : l # k => ToSet(arrived[l]) \cap ToSet(arrived[k]) = {}
  /\ \A l \in Locations : At(holder[l].start) \subseteq StoredAt(l % 2)
  /\ loop.nxt # NULL => At(loop.nxt) \subseteq StoredAt(draining)
  /\ NothingDropped

StoreInv(N) == Shape(N) /\ Distinct(N) /\ Origin(N)

(* What was stored, and where, seen from outside.                          *)
LEMMA StoredFacts ==
  ASSUME NEW N, StoreInv(N)
  PROVE  /\ Stored = Waiting \cup HandedOver
         /\ Waiting \cap HandedOver = {}
         /\ Stored \subseteq N
         /\ \A l \in Locations : ToSet(arrived[l]) \subseteq Stored
         /\ \A l \in Locations, s \in Spaces :
              l % 2 # s => ToSet(arrived[l]) \cap StoredAt(s) = {}
         /\ IsInjective(sent) /\ ToSet(sent) \cap unsent = {}
<1>1. Stored = Waiting \cup HandedOver
  BY DEF StoreInv, Origin, NothingDropped, HandedOver
<1>2. Waiting = UNION {At(g) : g \in Places}
  BY WaitingIs DEF StoreInv
<1>3. Waiting \cap HandedOver = {}
  BY <1>2 DEF StoreInv, Distinct
<1>4. \A l \in Locations : arrived[l] \in Seq(N)
  BY DEF StoreInv, Origin
<1>5. \A l \in Locations : ToSet(arrived[l]) \subseteq N
  BY <1>4 DEF ToSet
<1>6. \A l \in Locations, s \in Spaces :
        l % 2 # s => ToSet(arrived[l]) \cap StoredAt(s) = {}
  BY LocationFacts DEF StoreInv, Origin, StoredAt
<1> QED
  BY <1>1, <1>3, <1>5, <1>6 DEF Stored, StoreInv, Distinct

(* The invariant holds of an empty store.                                  *)
LEMMA StoreInit ==
  ASSUME NEW N, Init
  PROVE  StoreInv(N) /\ Waiting = {} /\ HandedOver = {}
<1>1. Shape(N)
  BY ShapeInit
<1>2. /\ \A g \in GroupIds : grp[g].msgs = <<>> /\ At(g) = {}
      /\ sent = <<>> /\ unsent = {}
      /\ arrived = [l \in Locations |-> <<>>]
      /\ loop.nxt = NULL
  BY SetOfEmpty DEF Init, EmptyGroup, At, NotLooping
<1>3. HandedOver = {} /\ Stored = {}
  BY <1>2, SetOfEmpty DEF HandedOver, Stored
<1>4. Places \subseteq GroupIds /\ \A l \in Locations : holder[l].start \in GroupIds
  BY <1>1, PlaceFacts
<1>5. Waiting = {}
  BY <1>1, <1>2, <1>4, WaitingIs
<1>6. Distinct(N)
  BY <1>2, <1>3, <1>4, SetOfEmpty DEF Distinct
<1>7. \A l \in Locations : ToSet(arrived[l]) = {} /\ arrived[l] \in Seq(N)
  BY <1>2, SetOfEmpty
<1>8. arrived \in [Locations -> Seq(N)]
  BY <1>2, <1>7
<1>9. NothingDropped
  BY <1>3, <1>5, SetOfEmpty, <1>2 DEF NothingDropped
<1>10. Origin(N)
  BY <1>2, <1>4, <1>7, <1>8, <1>9 DEF Origin
<1> QED
  BY <1>1, <1>3, <1>5, <1>6, <1>10 DEF StoreInv

(* A step that moves groups about and adds or drops empty ones.            *)
LEMMA ContentsKept ==
  ASSUME NEW N, StoreInv(N), Shape(N)', UNCHANGED <<arrived, sent, unsent>>,
         \A g \in Places' : \/ g \in Places /\ grp'[g].msgs = grp[g].msgs
                            \/ grp'[g].msgs = <<>>,
         \A g \in Places : \/ g \in Places' /\ grp'[g].msgs = grp[g].msgs
                           \/ grp[g].msgs = <<>>,
         \A k \in Locations : \/ holder'[k].start = holder[k].start
                              \/ grp'[holder'[k].start].msgs = <<>>,
         loop'.nxt # NULL =>
           \E k \in Locations : k % 2 = draining' /\ loop'.nxt = holder[k].start
  PROVE  StoreInv(N)' /\ Waiting' = Waiting /\ HandedOver' = HandedOver
<1> DEFINE Now(g) == ToSet(grp'[g].msgs)
<1>1. \A g \in Places' : (g \in Places /\ Now(g) = At(g)) \/ Now(g) = {}
  BY SetOfEmpty DEF At
<1>2. \A g \in Places : (g \in Places' /\ Now(g) = At(g)) \/ At(g) = {}
  BY SetOfEmpty DEF At
<1>3. /\ Waiting = UNION {At(g) : g \in Places}
      /\ Waiting' = UNION {Now(g) : g \in Places'}
      /\ \A k \in Locations : holder'[k].start \in Places' /\ holder[k].start \in Places
      /\ loop'.nxt # NULL => loop'.nxt \in Places'
  BY WaitingIs, PlaceFacts, ShapeNext DEF StoreInv, At
<1>4. HandedOver' = HandedOver /\ Stored' = Stored /\ \A s \in Spaces : StoredAt(s)' = StoredAt(s)
  BY DEF HandedOver, Stored, StoredAt
<1>5. \A g \in Places' : IsInjective(grp'[g].msgs)
  BY SetOfEmpty DEF StoreInv, Distinct
<1> HIDE DEF Now
<1>6. Waiting' = Waiting
  BY <1>1, <1>2, <1>3
<1>7. Distinct(N)'
  BY <1>1, <1>4, <1>5 DEF StoreInv, Distinct, Now, At
<1>8. \A k \in Locations : k % 2 \in Spaces /\ At(holder[k].start) \subseteq StoredAt(k % 2)
  BY SpaceOf DEF StoreInv, Origin
<1>9. ASSUME NEW k \in Locations
      PROVE  Now(holder'[k].start) \subseteq StoredAt(k % 2)
  BY <1>1, <1>3, <1>8, SetOfEmpty DEF Now
<1>10. ASSUME loop'.nxt # NULL
       PROVE  Now(loop'.nxt) \subseteq StoredAt(draining') /\ draining' \in Spaces
  <2>1. PICK k \in Locations : k % 2 = draining' /\ loop'.nxt = holder[k].start
    BY <1>10
  <2> QED
    BY <1>1, <1>3, <1>8, <1>10, <2>1
<1>11. Origin(N)'
  <2>1. (\A l \in Locations : At(holder[l].start) \subseteq StoredAt(l % 2))'
    BY <1>4, <1>8, <1>9 DEF At, Now
  <2>2. (loop.nxt # NULL => At(loop.nxt) \subseteq StoredAt(draining))'
    BY <1>4, <1>10 DEF At, Now
  <2>3. NothingDropped'
    BY <1>4, <1>6 DEF StoreInv, Origin, NothingDropped, HandedOver
  <2> QED
    BY <2>1, <2>2, <2>3 DEF StoreInv, Origin
<1> QED
  BY <1>4, <1>6, <1>7, <1>11 DEF StoreInv

(* What onQueueMessage appends waits, and is nowhere else.                 *)
LEMMA AppendKept ==
  ASSUME NEW N, Unlimited, StoreInv(N), NEW l \in Locations, l % 2 # draining,
         NEW node \in N, node \notin Stored, QueueMessage(l, node),
         UNCHANGED <<loop, draining, sent, unsent>>
  PROVE  /\ StoreInv(N)'
         /\ Waiting' = Waiting \cup {node} /\ HandedOver' = HandedOver
         /\ node \notin Waiting /\ node \notin HandedOver
<1> DEFINE c == holder[l].start
           Now(g) == ToSet(grp'[g].msgs)
<1>1. /\ Shape(N)' /\ Places' = Places /\ c \in Places
      /\ holder' = holder
      /\ grp'[c].msgs = Append(grp[c].msgs, node)
      /\ \A g \in GroupIds : g # c => grp'[g].msgs = grp[g].msgs
      /\ arrived' = [arrived EXCEPT ![l] = Append(@, node)]
  BY QueueShape DEF StoreInv
<1>2. /\ Places \subseteq GroupIds
      /\ \A k \in Locations : holder[k].start \in Places
      /\ loop.nxt # NULL => loop.nxt \in Places /\ \A k \in Locations : holder[k].start # loop.nxt
  BY PlaceFacts DEF StoreInv, Shape, LoopShape
<1>3. \A k, j \in Locations : holder[k].start = holder[j].start => k = j
  BY DEF StoreInv, Shape, HeapShape
<1>4. /\ Waiting = UNION {At(g) : g \in Places}
      /\ Waiting' = UNION {Now(g) : g \in Places}
  BY <1>1, WaitingIs, ShapeNext DEF StoreInv, At
<1>5. Stored = Waiting \cup HandedOver
  BY DEF StoreInv, Origin, NothingDropped, HandedOver
<1>6. node \notin Waiting /\ node \notin HandedOver
  BY <1>5
<1>7. /\ HandedOver' = HandedOver
      /\ \A g \in Places : node \notin At(g)
  BY <1>4, <1>6 DEF HandedOver
<1>8. grp[c].msgs \in Seq(N) /\ IsInjective(grp[c].msgs)
  BY <1>1, <1>2, PlainFacts DEF StoreInv, Distinct
<1>9. /\ Now(c) = At(c) \cup {node} /\ IsInjective(grp'[c].msgs)
      /\ \A g \in Places : g # c => Now(g) = At(g) /\ grp'[g].msgs = grp[g].msgs
  <2>1. node \notin ToSet(grp[c].msgs)
    BY <1>1, <1>7 DEF At
  <2>2. /\ ToSet(Append(grp[c].msgs, node)) = ToSet(grp[c].msgs) \cup {node}
        /\ IsInjective(Append(grp[c].msgs, node))
    BY <1>8, <2>1, SetOfAppend, InjectiveAppend, ZenonT(60)
  <2> QED
    BY <1>1, <1>2, <2>2 DEF At
<1>10. /\ arrived \in [Locations -> Seq(N)] /\ arrived' \in [Locations -> Seq(N)]
       /\ arrived'[l] = Append(arrived[l], node)
       /\ \A k \in Locations : k # l => arrived'[k] = arrived[k]
  <2>1. arrived \in [Locations -> Seq(N)] /\ arrived[l] \in Seq(N)
    BY DEF StoreInv, Origin
  <2>2. Append(arrived[l], node) \in Seq(N)
    BY <2>1
  <2> QED
    BY <1>1, <2>1, <2>2
<1>11. /\ ToSet(arrived'[l]) = ToSet(arrived[l]) \cup {node}
       /\ \A k \in Locations : node \notin ToSet(arrived[k])
  <2>1. /\ \A k \in Locations : node \notin ToSet(arrived[k])
        /\ arrived[l] \in Seq(N)
    BY <1>10 DEF Stored
  <2>2. ToSet(Append(arrived[l], node)) = ToSet(arrived[l]) \cup {node}
    BY <2>1, SetOfAppend, ZenonT(60)
  <2> QED
    BY <1>10, <2>1, <2>2
<1>12. /\ \A k \in Locations : ToSet(arrived[k]) \subseteq ToSet(arrived'[k])
       /\ Stored' = Stored \cup {node}
  BY <1>10, <1>11 DEF Stored
<1> HIDE DEF Now, c
<1>13. Waiting' = Waiting \cup {node}
  BY <1>1, <1>4, <1>9
<1>14. Distinct(N)'
  <2>1. /\ \A g \in Places : IsInjective(grp[g].msgs) /\ At(g) \cap HandedOver = {}
        /\ \A g, h \in Places : g # h => At(g) \cap At(h) = {}
    BY DEF StoreInv, Distinct
  <2>2. \A g \in Places : IsInjective(grp'[g].msgs) /\ Now(g) \cap HandedOver = {}
    BY <1>6, <1>9, <2>1
  <2>3. ASSUME NEW g \in Places, NEW h \in Places, g # h
        PROVE  Now(g) \cap Now(h) = {}
    BY <1>7, <1>9, <2>1, <2>3
  <2>4. (\A g \in Places : IsInjective(grp[g].msgs) /\ At(g) \cap HandedOver = {})'
    BY <1>1, <1>7, <2>2 DEF Now, At
  <2>5. (\A g, h \in Places : g # h => At(g) \cap At(h) = {})'
    BY <1>1, <2>3 DEF Now, At
  <2> QED
    BY <2>4, <2>5 DEF StoreInv, Distinct
<1>15. Origin(N)'
  <2>1. \A s \in Spaces : StoredAt(s) \subseteq StoredAt(s)'
    BY <1>12, LocationFacts DEF StoredAt
  <2>2. node \in StoredAt(l % 2)'
    BY <1>11, SpaceOf DEF StoredAt
  <2>3. ASSUME NEW k \in Locations
        PROVE  Now(holder[k].start) \subseteq StoredAt(k % 2)'
    <3>1. At(holder[k].start) \subseteq StoredAt(k % 2) /\ k % 2 \in Spaces
      BY SpaceOf DEF StoreInv, Origin
    <3>2. CASE k = l
      BY <1>9, <2>1, <2>2, <3>1, <3>2 DEF c
    <3>3. CASE k # l
      BY <1>2, <1>3, <1>9, <2>1, <3>1, <3>3 DEF c
    <3> QED
      BY <3>2, <3>3
  <2>4. ASSUME loop.nxt # NULL
        PROVE  Now(loop.nxt) \subseteq StoredAt(draining)'
    <3>1. At(loop.nxt) \subseteq StoredAt(draining) /\ draining \in Spaces
      BY <2>4 DEF StoreInv, Origin, Shape, LoopShape
    <3> QED
      BY <1>2, <1>9, <2>1, <2>4, <3>1 DEF c
  <2>5. (\A k \in Locations : At(holder[k].start) \subseteq StoredAt(k % 2))'
    BY <1>1, <2>3 DEF Now, At
  <2>6. (loop.nxt # NULL => At(loop.nxt) \subseteq StoredAt(draining))'
    <3>1. draining' = draining /\ loop' = loop
      OBVIOUS
    <3> QED
      BY <2>4, <3>1 DEF Now, At, StoredAt
  <2>7. (\A k, j \in Locations : k # j => ToSet(arrived[k]) \cap ToSet(arrived[j]) = {})'
    <3>1. \A k, j \in Locations : k # j => ToSet(arrived[k]) \cap ToSet(arrived[j]) = {}
      BY DEF StoreInv, Origin
    <3>2. \A k \in Locations :
            ToSet(arrived'[k]) = IF k = l THEN ToSet(arrived[k]) \cup {node} ELSE ToSet(arrived[k])
      BY <1>10, <1>11
    <3>3. ASSUME NEW k \in Locations, NEW j \in Locations, k # j
          PROVE  ToSet(arrived'[k]) \cap ToSet(arrived'[j]) = {}
      <4>1. /\ ToSet(arrived[k]) \cap ToSet(arrived[j]) = {}
            /\ node \notin ToSet(arrived[k]) /\ node \notin ToSet(arrived[j])
        BY <1>11, <3>1, <3>3
      <4>2. /\ ToSet(arrived'[k]) \in {ToSet(arrived[k]), ToSet(arrived[k]) \cup {node}}
            /\ ToSet(arrived'[j]) \in {ToSet(arrived[j]), ToSet(arrived[j]) \cup {node}}
            /\ \/ ToSet(arrived'[k]) = ToSet(arrived[k])
               \/ ToSet(arrived'[j]) = ToSet(arrived[j])
        BY <3>2, <3>3
      <4> QED
        BY <4>1, <4>2
    <3> QED
      BY <3>3
  <2>8. NothingDropped'
    BY <1>5, <1>7, <1>12, <1>13 DEF NothingDropped, HandedOver
  <2> QED
    BY <1>10, <2>5, <2>6, <2>7, <2>8 DEF Origin
<1> QED
  BY <1>1, <1>6, <1>7, <1>13, <1>14, <1>15 DEF StoreInv

(* A batch that goes to send() leaves the queues, whether it gets there or *)
(* not.                                                                    *)
LEMMA DeliverKept ==
  ASSUME NEW N, NEW p, StoreInv(N), Shape(N)', Deliver(loop.cur, p),
         loop.cur \in Places, loop'.nxt = NULL,
         \A g \in Places' : \/ g \in Places \ {loop.cur} /\ grp'[g].msgs = grp[g].msgs
                            \/ grp'[g].msgs = <<>>,
         \A g \in Places \ {loop.cur} : g \in Places' /\ grp'[g].msgs = grp[g].msgs,
         \A k \in Locations :
           \/ holder'[k].start = holder[k].start
           \/ grp'[holder'[k].start].msgs = <<>>
           \/ k % 2 = draining /\ holder'[k].start = loop.nxt /\ loop.nxt # NULL
  PROVE  LET B == At(loop.cur)
         IN  /\ StoreInv(N)'
             /\ B \subseteq Waiting /\ Waiting' = Waiting \ B
             /\ HandedOver' = HandedOver \cup B
             /\ B \subseteq StoredAt(draining) /\ draining \in Spaces
<1> DEFINE B == At(loop.cur)
           Now(g) == ToSet(grp'[g].msgs)
           nodes == grp[loop.cur].msgs
<1>1. /\ \A g \in Places' : (g \in Places \ {loop.cur} /\ Now(g) = At(g)) \/ Now(g) = {}
      /\ \A g \in Places \ {loop.cur} : g \in Places' /\ Now(g) = At(g)
  BY SetOfEmpty DEF At
<1>2. /\ Waiting = UNION {At(g) : g \in Places}
      /\ Waiting' = UNION {Now(g) : g \in Places'}
      /\ \A k \in Locations : holder'[k].start \in Places' /\ holder[k].start \in Places
      /\ Places \subseteq GroupIds
  BY WaitingIs, PlaceFacts, ShapeNext DEF StoreInv, At
<1>3. /\ nodes \in Seq(N) /\ IsInjective(nodes)
      /\ B = ToSet(nodes) /\ B \subseteq N
  <2>1. nodes \in Seq(N)
    BY <1>2, PlainFacts DEF StoreInv
  <2>2. ToSet(nodes) \subseteq N
    BY <2>1 DEF ToSet
  <2> QED
    BY <2>1, <2>2 DEF At, StoreInv, Distinct
<1>4. /\ UNCHANGED arrived
      /\ \/ sent' = sent \o nodes /\ unsent' = unsent
         \/ sent' = sent /\ unsent' = unsent \cup B
  BY <1>3 DEF Deliver
<1>5. /\ \A g \in Places : IsInjective(grp[g].msgs) /\ At(g) \cap HandedOver = {}
      /\ \A g, h \in Places : g # h => At(g) \cap At(h) = {}
      /\ sent \in Seq(N) /\ IsInjective(sent) /\ unsent \in SUBSET N
      /\ ToSet(sent) \cap unsent = {}
  BY DEF StoreInv, Distinct
<1>6. B \subseteq Waiting /\ B \cap HandedOver = {}
  BY <1>2, <1>5
<1>7. /\ sent' \in Seq(N) /\ IsInjective(sent') /\ unsent' \in SUBSET N
      /\ ToSet(sent') \cap unsent' = {}
      /\ HandedOver' = HandedOver \cup B
  <2>1. CASE sent' = sent \o nodes /\ unsent' = unsent
    <3>1. ToSet(sent) \cap ToSet(nodes) = {}
      BY <1>3, <1>6 DEF HandedOver
    <3>2. /\ sent \o nodes \in Seq(N)
          /\ ToSet(sent \o nodes) = ToSet(sent) \cup ToSet(nodes)
          /\ IsInjective(sent \o nodes)
      BY <1>3, <1>5, <3>1, InjectiveConcat, Zenon
    <3> QED
      BY <1>3, <1>5, <1>6, <2>1, <3>2 DEF HandedOver
  <2>2. CASE sent' = sent /\ unsent' = unsent \cup B
    BY <1>3, <1>5, <1>6, <2>2 DEF HandedOver
  <2> QED
    BY <1>4, <2>1, <2>2
<1>8. /\ Stored' = Stored
      /\ \A s \in Spaces : StoredAt(s)' = StoredAt(s)
  BY <1>4 DEF Stored, StoredAt
<1>9. \A g \in Places' : IsInjective(grp'[g].msgs)
  BY <1>5, SetOfEmpty
<1>10. loop # NotLooping
  BY <1>2, GroupFacts DEF NotLooping
<1>11. /\ draining \in Spaces /\ loop.cur = holder[Left(draining)].start
       /\ Left(draining) \in Locations /\ Left(draining) % 2 = draining
  BY <1>10, LocationFacts, PlaceFacts DEF StoreInv
<1>12. /\ \A k \in Locations : k % 2 \in Spaces /\ At(holder[k].start) \subseteq StoredAt(k % 2)
       /\ loop.nxt # NULL => At(loop.nxt) \subseteq StoredAt(draining)
  BY SpaceOf DEF StoreInv, Origin
<1>13. B \subseteq StoredAt(draining)
  BY <1>11, <1>12
<1> HIDE DEF Now, B
<1>14. \A g \in Places \ {loop.cur} : At(g) \cap B = {}
  BY <1>5 DEF B
<1>15. Waiting' = Waiting \ B
  BY <1>1, <1>2, <1>14 DEF B
<1>16. Distinct(N)'
  <2>1. \A g \in Places' : Now(g) \cap HandedOver' = {}
    BY <1>1, <1>5, <1>7, <1>14
  <2>2. \A g, h \in Places' : g # h => Now(g) \cap Now(h) = {}
    BY <1>1, <1>5
  <2> QED
    BY <1>7, <1>9, <2>1, <2>2 DEF Distinct, Now, At
<1>17. Origin(N)'
  <2>1. ASSUME NEW k \in Locations
        PROVE  Now(holder'[k].start) \subseteq StoredAt(k % 2)
    <3>1. CASE holder'[k].start = holder[k].start
      BY <1>1, <1>2, <1>12, <3>1
    <3>2. CASE grp'[holder'[k].start].msgs = <<>>
      BY <3>2, SetOfEmpty DEF Now
    <3>3. CASE k % 2 = draining /\ holder'[k].start = loop.nxt /\ loop.nxt # NULL
      BY <1>1, <1>2, <1>12, <3>3
    <3> QED
      BY <3>1, <3>2, <3>3
  <2>2. (\A k \in Locations : At(holder[k].start) \subseteq StoredAt(k % 2))'
    BY <1>8, <1>12, <2>1 DEF At, Now
  <2>3. NothingDropped'
    BY <1>6, <1>7, <1>8, <1>15 DEF StoreInv, Origin, NothingDropped, HandedOver
  <2> QED
    BY <1>4, <2>2, <2>3 DEF StoreInv, Origin
<1> QED
  BY <1>6, <1>7, <1>11, <1>13, <1>15, <1>16, <1>17 DEF StoreInv, B

-----------------------------------------------------------------------------
(* The steps of the store, seen from outside.                              *)
LEMMA FrameKept ==
  ASSUME NEW N, StoreInv(N),
         UNCHANGED <<grp, live, holder, loop, draining, arrived, sent, unsent>>
  PROVE  StoreInv(N)' /\ Waiting' = Waiting /\ HandedOver' = HandedOver
<1>1. Shape(N)'
  BY DEF StoreInv, Shape, HeapShape, LoopShape
<1>2. /\ Places' = Places /\ HandedOver' = HandedOver /\ Stored' = Stored
      /\ \A g \in Places : At(g)' = At(g)
      /\ \A s : StoredAt(s)' = StoredAt(s)
  BY DEF Places, HandedOver, Stored, At, StoredAt
<1>3. Waiting' = Waiting
  BY <1>1, <1>2, WaitingIs, ShapeNext DEF StoreInv
<1>4. Distinct(N)'
  BY <1>2 DEF StoreInv, Distinct, At
<1>5. NothingDropped'
  BY <1>2, <1>3 DEF StoreInv, Origin, NothingDropped
<1>6. Origin(N)'
  BY <1>2, <1>5 DEF StoreInv, Origin, At, StoredAt
<1> QED
  BY <1>1, <1>2, <1>3, <1>4, <1>6 DEF StoreInv

(* The begin of a drain moves no node.                                     *)
LEMMA BeginKept ==
  ASSUME NEW N, StoreInv(N), NEW s \in Spaces, StartConsume(s)
  PROVE  StoreInv(N)' /\ Waiting' = Waiting /\ HandedOver' = HandedOver
<1>1. /\ draining = NoSpace /\ draining' = s
      /\ UNCHANGED <<grp, live, holder, loop, arrived, sent, unsent>>
  BY DEF StartConsume, heapVars
<1>2. loop = NotLooping /\ loop.nxt = NULL
  BY <1>1 DEF StoreInv, Shape, LoopShape, NoSpace, Spaces, NotLooping
<1>3. Shape(N)'
  BY <1>1, <1>2 DEF StoreInv, Shape, HeapShape, LoopShape
<1>4. Places' = Places
  BY <1>1 DEF Places
<1> QED
  BY <1>1, <1>2, <1>3, <1>4, ContentsKept

(* Nor does merging.                                                       *)
LEMMA MergeKept ==
  ASSUME NEW N, Unlimited, StoreInv(N), MergeEntries \/ MergeGrp
  PROVE  StoreInv(N)' /\ Waiting' = Waiting /\ HandedOver' = HandedOver /\ draining' = draining
<1>1. UNCHANGED <<arrived, sent, unsent, draining>>
  BY DEF MergeEntries, MergeGrp
<1>2. CASE MergeEntries
  <2>1. /\ Shape(N)'
        /\ \A g \in Places' : \/ g \in Places /\ grp'[g].msgs = grp[g].msgs
                              \/ grp'[g].msgs = <<>>
        /\ \A g \in Places : g \in Places' /\ grp'[g].msgs = grp[g].msgs
        /\ \A k \in Locations : \/ holder'[k].start = holder[k].start
                                \/ grp'[holder'[k].start].msgs = <<>>
        /\ \E k \in Locations : k % 2 = draining /\ loop'.nxt = holder[k].start
    BY <1>2, MergeEntriesShape DEF StoreInv
  <2> QED
    BY <1>1, <2>1, ContentsKept
<1>3. CASE MergeGrp
  <2>1. /\ Shape(N)'
        /\ Places' = Places \ {loop.nxt} /\ holder' = holder
        /\ grp[loop.nxt].msgs = <<>>
        /\ \A g \in Places : grp'[g].msgs = grp[g].msgs
        /\ loop'.nxt = NULL
    BY <1>3, MergeGrpShape DEF StoreInv
  <2> QED
    BY <1>1, <2>1, ContentsKept
<1> QED
  BY <1>1, <1>2, <1>3

(* What SplitOff and LastBatch give to send().                             *)
LEMMA BatchKept ==
  ASSUME NEW N, Unlimited, StoreInv(N), SplitOff \/ LastBatch
  PROVE  LET B == At(loop.cur)
         IN  /\ StoreInv(N)'
             /\ B \subseteq Waiting /\ Waiting' = Waiting \ B
             /\ HandedOver' = HandedOver \cup B
             /\ B \subseteq StoredAt(draining) /\ draining \in Spaces
             /\ UNCHANGED arrived
             /\ draining' \in {draining, NoSpace}
<1>1. CASE SplitOff
  <2>1. /\ Shape(N)'
        /\ loop.cur \in Places /\ Places' = Places \ {loop.cur}
        /\ grp' = grp
        /\ \A k \in Locations : \/ holder'[k].start = holder[k].start
                                \/ k % 2 = draining /\ holder'[k].start = loop.nxt /\ loop.nxt # NULL
        /\ loop'.nxt = NULL
    BY <1>1, SplitOffShape DEF StoreInv
  <2>2. Deliver(loop.cur, TRUE) /\ UNCHANGED arrived /\ draining' \in {draining, NoSpace}
    BY <1>1 DEF SplitOff, Deliver
  <2> QED
    BY <2>1, <2>2, DeliverKept
<1>2. CASE LastBatch
  <2>1. /\ Shape(N)'
        /\ loop.cur \in Places
        /\ \A g \in Places' : \/ g \in Places \ {loop.cur} /\ grp'[g].msgs = grp[g].msgs
                              \/ grp'[g].msgs = <<>>
        /\ \A g \in Places \ {loop.cur} : g \in Places' /\ grp'[g].msgs = grp[g].msgs
        /\ \A k \in Locations : \/ holder'[k].start = holder[k].start
                                \/ grp'[holder'[k].start].msgs = <<>>
        /\ loop'.nxt = NULL
    BY <1>2, LastBatchShape DEF StoreInv
  <2>2. Deliver(loop.cur, FALSE) /\ UNCHANGED arrived /\ draining' \in {draining, NoSpace}
    BY <1>2 DEF LastBatch, Deliver
  <2> QED
    BY <2>1, <2>2, DeliverKept
<1> QED
  BY <1>1, <1>2

(* While the loop runs, the right queue of the drained space is the empty  *)
(* group that mergeEntries left there: nobody stores into that space.      *)
RightEmpty == loop # NotLooping => At(holder[Right(draining)].start) = {}

(* A node goes to a queue that is not being drained.                       *)
LEMMA RightAppend ==
  ASSUME NEW N, Unlimited, Shape(N), RightEmpty, NEW l \in Locations, l % 2 # draining,
         NEW node \in N, QueueMessage(l, node), UNCHANGED <<loop, draining>>
  PROVE  RightEmpty'
<1>1. /\ holder' = holder
      /\ \A g \in GroupIds : g # holder[l].start => grp'[g].msgs = grp[g].msgs
  BY QueueShape
<1>2. CASE loop # NotLooping
  <2>1. draining \in Spaces /\ Right(draining) \in Locations /\ Right(draining) # l
    BY <1>2, LocationFacts DEF Shape, LoopShape
  <2>2. /\ holder[Right(draining)].start \in GroupIds
        /\ holder[Right(draining)].start # holder[l].start
    BY <2>1, PlaceFacts DEF Shape, HeapShape
  <2> QED
    BY <1>1, <2>2 DEF RightEmpty, At
<1> QED
  BY <1>2 DEF RightEmpty

(* Merging leaves the right queue of the drained space empty.              *)
LEMMA RightMerge ==
  ASSUME NEW N, Unlimited, Shape(N), RightEmpty, MergeEntries \/ MergeGrp
  PROVE  RightEmpty'
<1>1. CASE MergeEntries
  <2>1. PICK new : new = NewGroup
    OBVIOUS
  <2> DEFINE l == Left(draining)
             r == Right(draining)
  <2>2. /\ draining \in Spaces /\ new \in GroupIds
        /\ grp' = [grp EXCEPT ![new] = EmptyGroup]
        /\ holder' = [holder EXCEPT ![l].next = holder[r].start,
                                    ![l].cur = holder[r].cur,
                                    ![r] = [start |-> new, cur |-> new, next |-> NULL]]
        /\ draining' = draining
    BY <1>1, <2>1, FreeFacts DEF MergeEntries, Shape, LoopShape
  <2>3. l \in Locations /\ r \in Locations /\ l # r
    BY <2>2, LocationFacts
  <2>4. /\ grp \in [GroupIds -> PlainGroups(N)] /\ holder \in [Locations -> Holders]
    BY DEF Shape, HeapShape
  <2> HIDE DEF l, r
  <2>5. holder'[r].start = new
    BY <2>2, <2>3, <2>4
  <2>6. grp'[new].msgs = <<>>
    BY <2>2, <2>4 DEF EmptyGroup
  <2> QED
    BY <2>2, <2>5, <2>6, SetOfEmpty DEF RightEmpty, At, r
<1>2. CASE MergeGrp
  <2>1. /\ holder' = holder /\ \A g \in Places : grp'[g].msgs = grp[g].msgs
        /\ UNCHANGED draining /\ loop.nxt # NULL
    BY <1>2, MergeGrpShape DEF MergeGrp
  <2>2. loop # NotLooping /\ draining \in Spaces
    BY <2>1 DEF Shape, LoopShape
  <2>3. Right(draining) \in Locations /\ holder[Right(draining)].start \in Places
    BY <2>2, LocationFacts, PlaceFacts
  <2> QED
    BY <2>1, <2>2, <2>3 DEF RightEmpty, At
<1> QED
  BY <1>1, <1>2

(* Giving a batch away does not touch the right queue.                     *)
LEMMA RightBatch == ASSUME SplitOff \/ LastBatch PROVE RightEmpty'
  BY DEF SplitOff, LastBatch, Deliver, RightEmpty

(* So the last batch is all that is left of what was stored in the space.  *)
LEMMA LastBatchIsRest ==
  ASSUME NEW N, StoreInv(N), RightEmpty, LastBatch
  PROVE  Waiting \cap StoredAt(draining) \subseteq At(loop.cur)
<1>1. loop # NotLooping /\ loop.nxt = NULL
  BY DEF LastBatch
<1>2. draining \in Spaces /\ loop.cur = holder[Left(draining)].start
  BY <1>1, PlaceFacts DEF StoreInv
<1>3. At(holder[Right(draining)].start) = {}
  BY <1>1 DEF RightEmpty
<1>4. Places = {holder[l].start : l \in Locations}
  BY <1>1 DEF Places
<1>5. Waiting = UNION {At(g) : g \in Places}
  BY WaitingIs DEF StoreInv
<1>6. ASSUME NEW x \in Waiting, x \in StoredAt(draining)
      PROVE  x \in At(loop.cur)
  <2>1. PICK l \in Locations : x \in At(holder[l].start)
    BY <1>4, <1>5
  <2>2. l % 2 \in Spaces /\ l \in {Left(l % 2), Right(l % 2)}
    BY SpaceOf
  <2>3. x \in StoredAt(l % 2)
    BY <2>1 DEF StoreInv, Origin
  <2>4. l % 2 = draining
    <3>1. PICK k \in Locations : k % 2 = l % 2 /\ x \in ToSet(arrived[k])
      BY <2>2, <2>3, LocationFacts DEF StoredAt
    <3> QED
      BY <1>2, <1>6, <3>1, StoredFacts
  <2> QED
    BY <1>2, <1>3, <2>1, <2>2, <2>4
<1> QED
  BY <1>6

-----------------------------------------------------------------------------
(* A line is reported once, and a node is made of lines that are in no     *)
(* other node: so a node that is to be stored is new.                      *)
FreshInv ==
  /\ made \in Nat /\ made <= MaxLines
  /\ curMsgGrp \in Nodes /\ Len(curMsgGrp) <= made /\ ToSet(curMsgGrp) \subseteq 1..made
  /\ \A n \in Stored :
       /\ n \in Nodes /\ n # <<>> /\ Len(n) <= made
       /\ ToSet(n) \subseteq 1..made
       /\ ToSet(n) \cap ToSet(curMsgGrp) = {}

(* No line has been made yet.                                              *)
LEMMA FreshInit == Init => FreshInv
<1> SUFFICES ASSUME Init PROVE FreshInv
  OBVIOUS
<1>1. curMsgGrp = <<>> /\ made = 0 /\ arrived = [l \in Locations |-> <<>>]
  BY DEF Init
<1>2. Stored = {}
  BY <1>1, SetOfEmpty DEF Stored
<1> QED
  BY <1>1, <1>2, SetOfEmpty, StoreAssumption DEF FreshInv, Nodes

(* A node that is not empty has a first line.                              *)
LEMMA FirstLine ==
  ASSUME NEW n \in Nodes, n # <<>>
  PROVE  /\ n[1] \in ToSet(n) /\ Len(n) \in Nat
         /\ n \in [1..Len(n) -> Lines]
<1>1. n \in [1..Len(n) -> Lines] /\ Len(n) \in Nat /\ Len(n) # 0
  BY EmptySeq DEF Nodes
<1> QED
  BY <1>1 DEF ToSet

(* What QueueMessage makes of the history.                                 *)
LEMMA QueueStored ==
  ASSUME arrived \in [Locations -> Seq(Nodes)],
         NEW l \in Locations, NEW node \in Nodes, QueueMessage(l, node)
  PROVE  Stored' = Stored \cup {node}
<1>1. arrived \in [Locations -> Seq(Nodes)]
  OBVIOUS
<1>2. arrived' = [arrived EXCEPT ![l] = Append(@, node)]
  BY DEF QueueMessage
<1>3. ToSet(Append(arrived[l], node)) = ToSet(arrived[l]) \cup {node}
  BY <1>1, SetOfAppend
<1>4. /\ ToSet(arrived'[l]) = ToSet(arrived[l]) \cup {node}
      /\ \A k \in Locations : k # l => ToSet(arrived'[k]) = ToSet(arrived[k])
  BY <1>1, <1>2, <1>3
<1>5. ASSUME NEW x
      PROVE  x \in Stored' <=> x \in Stored \/ x = node
  <2>1. x \in Stored <=> \E k \in Locations : x \in ToSet(arrived[k])
    BY DEF Stored
  <2>2. x \in Stored' <=> \E k \in Locations : x \in ToSet(arrived'[k])
    BY DEF Stored
  <2> QED
    BY <1>4, <2>1, <2>2
<1> QED
  BY <1>5

(* A line on its own is a new node, and so is the group of the agent.      *)
LEMMA FlushMsgNode ==
  ASSUME FreshInv, NEW id \in Locations, FlushMsg(id)
  PROVE  /\ <<made + 1>> \in Nodes /\ <<made + 1>> # <<>> /\ Len(<<made + 1>>) = 1
         /\ ToSet(<<made + 1>>) = {made + 1}
         /\ <<made + 1>> \notin Stored /\ 1 <= MaxLines
<1>1. /\ made < MaxLines /\ made' = made + 1
  BY DEF FlushMsg
<1> DEFINE node == <<made + 1>>
<1>2. /\ node \in Nodes /\ node # <<>> /\ Len(node) = 1 /\ ToSet(node) = {made + 1}
  BY <1>1, StoreAssumption DEF FreshInv, Nodes, Lines, ToSet
<1>3. node \notin Stored /\ 1 <= MaxLines
  BY <1>1, <1>2, StoreAssumption DEF FreshInv
<1> QED
  BY <1>2, <1>3

(* Nor has the group of the agent been stored before it is flushed.        *)
LEMMA FlushMsgGrpNode ==
  ASSUME FreshInv, curMsgGrp # <<>>
  PROVE  curMsgGrp \in Nodes /\ curMsgGrp \notin Stored /\ Len(curMsgGrp) <= MaxLines
<1>1. /\ curMsgGrp \in Nodes /\ Len(curMsgGrp) <= made /\ made \in Nat /\ made <= MaxLines
      /\ curMsgGrp[1] \in ToSet(curMsgGrp) /\ Len(curMsgGrp) \in Nat
  BY FirstLine DEF FreshInv
<1> QED
  BY <1>1, StoreAssumption DEF FreshInv

(* A line is made once, so no node is ever stored that was stored before.  *)
LEMMA FreshStep ==
  ASSUME arrived \in [Locations -> Seq(Nodes)], FreshInv, [Next]_vars
  PROVE  FreshInv'
<1>1. UNCHANGED <<curMsgGrp, made, arrived>> => FreshInv'
  BY DEF FreshInv, Stored
<1>2. \A s \in UsedSpaces : Left(s) \in Locations /\ Right(s) \in Locations
  BY LocationFacts, StoreAssumption DEF Spaces
<1>3. ASSUME NEW id \in Locations, FlushMsg(id) PROVE FreshInv'
  <2> DEFINE node == <<made + 1>>
  <2>1. /\ made < MaxLines /\ made' = made + 1
        /\ QueueMessage(id, node)
        /\ UNCHANGED curMsgGrp
    BY <1>3 DEF FlushMsg
  <2>2. /\ node \in Nodes /\ node # <<>> /\ Len(node) = 1 /\ ToSet(node) = {made + 1}
    BY <1>3, FlushMsgNode
  <2> HIDE DEF node
  <2>3. Stored' = Stored \cup {node}
    BY <2>1, <2>2, QueueStored
  <2>4. FreshInv'
    <3>1. /\ made \in Nat /\ made' \in Nat /\ made' <= MaxLines
          /\ 1..made \subseteq 1..made' /\ made + 1 \in 1..made' /\ made + 1 \notin 1..made
          /\ \A k \in Int : k <= made => k <= made'
      BY <2>1, StoreAssumption DEF FreshInv
    <3>2. \A n \in Stored : Len(n) \in Int
      BY DEF FreshInv, Nodes
    <3>3. \A n \in Stored' : /\ n \in Nodes /\ n # <<>> /\ Len(n) <= made'
                            /\ ToSet(n) \subseteq 1..made'
      <4>1. Len(node) <= made' /\ ToSet(node) \subseteq 1..made'
        BY <2>1, <2>2, <3>1
      <4>2. ASSUME NEW n \in Stored
            PROVE  /\ n \in Nodes /\ n # <<>> /\ Len(n) <= made'
                   /\ ToSet(n) \subseteq 1..made'
        <5>1. /\ n \in Nodes /\ n # <<>> /\ Len(n) <= made
              /\ ToSet(n) \subseteq 1..made
          BY DEF FreshInv
        <5> QED
          BY <3>1, <3>2, <5>1
      <4> QED
        BY <2>2, <2>3, <4>1, <4>2
    <3>4. \A n \in Stored' : ToSet(n) \cap ToSet(curMsgGrp) = {}
      BY <2>2, <2>3, <3>1 DEF FreshInv
    <3>5. /\ Len(curMsgGrp) <= made' /\ ToSet(curMsgGrp) \subseteq 1..made'
          /\ curMsgGrp \in Nodes
      BY <3>1 DEF FreshInv, Nodes
    <3> QED
      BY <2>1, <3>1, <3>3, <3>4, <3>5 DEF FreshInv
  <2> QED
    BY <2>4
<1>4. ASSUME NEW id \in Locations, FlushMsgGrp(id) PROVE FreshInv'
  <2>1. /\ curMsgGrp # <<>> /\ curMsgGrp' = <<>>
        /\ QueueMessage(id, curMsgGrp)
        /\ UNCHANGED made
    BY <1>4 DEF FlushMsgGrp
  <2>2. /\ curMsgGrp \in Nodes /\ Len(curMsgGrp) <= made /\ made \in Nat /\ made <= MaxLines
    BY DEF FreshInv
  <2>3. Stored' = Stored \cup {curMsgGrp}
    BY <2>1, <2>2, QueueStored
  <2>4. FreshInv'
    <3>1. /\ <<>> \in Nodes /\ Len(<<>>) = 0 /\ ToSet(<<>>) = {}
      BY SetOfEmpty DEF Nodes
    <3>2. \A n \in Stored' : /\ n \in Nodes /\ n # <<>> /\ Len(n) <= made
                            /\ ToSet(n) \subseteq 1..made
      BY <2>1, <2>2, <2>3 DEF FreshInv
    <3> QED
      BY <2>1, <2>2, <3>1, <3>2 DEF FreshInv
  <2> QED
    BY <2>4
<1>5. CASE IncludeMessage
  <2>1. /\ made < MaxLines /\ made' = made + 1
        /\ curMsgGrp' = Append(curMsgGrp, made + 1)
        /\ UNCHANGED <<grp, live, holder, draining, loop, sent, unsent, arrived>>
    BY <1>5 DEF IncludeMessage, heapVars, drainVars
  <2>2. /\ curMsgGrp \in Seq(Lines) /\ made + 1 \in Lines
        /\ ToSet(curMsgGrp') = ToSet(curMsgGrp) \cup {made + 1}
        /\ curMsgGrp' \in Seq(Lines) /\ Len(curMsgGrp') = Len(curMsgGrp) + 1
        /\ Len(curMsgGrp) \in Nat
    BY <2>1, SetOfAppend, StoreAssumption DEF FreshInv, Nodes, Lines
  <2>3. Stored' = Stored
    BY <2>1 DEF Stored
  <2>4. FreshInv'
    <3>1. \A n \in Stored : made + 1 \notin ToSet(n)
      BY DEF FreshInv
    <3>2. 1..made \subseteq 1..made' /\ made + 1 \in 1..made' /\ made' \in Nat /\ made' <= MaxLines
      BY <2>1, StoreAssumption DEF FreshInv
    <3> QED
      BY <2>1, <2>2, <2>3, <3>1, <3>2 DEF FreshInv, Nodes
  <2> QED
    BY <2>4
<1>6. ASSUME NEW s \in UsedSpaces, StartConsume(s) PROVE FreshInv'
  BY <1>1, <1>6 DEF StartConsume
<1>7. CASE MergeEntries \/ MergeGrp
  BY <1>1, <1>7 DEF MergeEntries, MergeGrp
<1>8. CASE SplitOff \/ LastBatch
  BY <1>1, <1>8 DEF SplitOff, LastBatch, Deliver
<1>9. CASE UNCHANGED vars
  BY <1>1, <1>9 DEF vars
<1> QED
  BY <1>2, <1>3, <1>4, <1>5, <1>6, <1>7, <1>8, <1>9 DEF Next

(* A new node is put into the channel.                                     *)
LEMMA PutStep ==
  ASSUME Unlimited, StoreInv(Nodes), NEW l \in Locations, l % 2 # draining,
         NEW node \in Nodes, QueueMessage(l, node), node \notin Stored,
         node # <<>>, Len(node) <= MaxLines,
         UNCHANGED drainVars
  PROVE  StoreInv(Nodes)' /\ Channel!Next
<1>1. UNCHANGED <<loop, draining, sent, unsent>>
  BY DEF drainVars
<1>2. /\ StoreInv(Nodes)'
      /\ Waiting' = Waiting \cup {node} /\ HandedOver' = HandedOver
      /\ node \notin Waiting /\ node \notin HandedOver
  BY <1>1, AppendKept
<1>3. node \in SeqOf(Lines, MaxLines)
  BY FirstLine, StoreAssumption DEF SeqOf
<1>4. Channel!Put(node)
  BY <1>2 DEF Channel!Put, HandedOver
<1> QED
  BY <1>2, <1>3, <1>4 DEF Channel!Next

(* The steps of the store are steps of the channel, or change nothing that *)
(* the channel knows about.                                                *)
LEMMA ChannelStep ==
  ASSUME Unlimited, StoreInv(Nodes), FreshInv, [Next]_vars
  PROVE  StoreInv(Nodes)' /\ FreshInv' /\ [Channel!Next]_Channel!vars
<1> DEFINE Same == Waiting' = Waiting /\ HandedOver' = HandedOver
<1>1. Same => UNCHANGED Channel!vars
  BY DEF Channel!vars, HandedOver
<1>2. FreshInv'
  BY FreshStep DEF StoreInv, Origin
<1>3. ASSUME NEW s \in UsedSpaces, NEW id \in {Left(s), Right(s)}, FlushMsg(id)
      PROVE  StoreInv(Nodes)' /\ Channel!Next
  <2>1. /\ id \in Locations /\ id % 2 # draining
        /\ QueueMessage(id, <<made + 1>>) /\ UNCHANGED drainVars
    BY <1>3, LocationFacts, StoreAssumption DEF FlushMsg, Spaces
  <2>2. /\ <<made + 1>> \in Nodes /\ <<made + 1>> # <<>>
        /\ Len(<<made + 1>>) <= MaxLines /\ <<made + 1>> \notin Stored
    BY <1>3, <2>1, FlushMsgNode
  <2> QED
    BY <2>1, <2>2, PutStep
<1>4. ASSUME NEW s \in UsedSpaces, NEW id \in {Left(s), Right(s)}, FlushMsgGrp(id)
      PROVE  StoreInv(Nodes)' /\ Channel!Next
  <2>1. /\ id \in Locations /\ id % 2 # draining /\ curMsgGrp # <<>>
        /\ QueueMessage(id, curMsgGrp) /\ UNCHANGED drainVars
    BY <1>4, LocationFacts, SpaceOf, StoreAssumption DEF FlushMsgGrp, Spaces, NoSpace
  <2>2. curMsgGrp \in Nodes /\ Len(curMsgGrp) <= MaxLines /\ curMsgGrp \notin Stored
    BY <2>1, FlushMsgGrpNode
  <2> QED
    BY <2>1, <2>2, PutStep
<1>5. ASSUME NEW s \in UsedSpaces, StartConsume(s)
      PROVE  StoreInv(Nodes)' /\ Same
  <2>1. s \in Spaces
    BY StoreAssumption DEF Spaces
  <2> QED
    BY <1>5, <2>1, BeginKept
<1>6. ASSUME IncludeMessage
      PROVE  StoreInv(Nodes)' /\ Same
  <2>1. UNCHANGED <<grp, live, holder, draining, loop, sent, unsent, arrived>>
    BY <1>6 DEF IncludeMessage, heapVars, drainVars
  <2> QED
    BY <2>1, FrameKept
<1>7. ASSUME MergeEntries \/ MergeGrp
      PROVE  StoreInv(Nodes)' /\ Same
  BY <1>7, MergeKept
<1>8. ASSUME SplitOff \/ LastBatch
      PROVE  StoreInv(Nodes)' /\ Channel!Next
  <2>1. PICK B : /\ StoreInv(Nodes)'
                 /\ B \subseteq Waiting /\ Waiting' = Waiting \ B
                 /\ HandedOver' = HandedOver \cup B
    BY <1>8, BatchKept
  <2>2. Channel!Take(B)
    BY <2>1 DEF Channel!Take, HandedOver
  <2> QED
    BY <2>1, <2>2 DEF Channel!Next
<1>9. ASSUME UNCHANGED vars
      PROVE  StoreInv(Nodes)' /\ Same
  BY <1>9, FrameKept DEF vars, heapVars, drainVars
<1> HIDE DEF Same
<1> QED
  BY <1>1, <1>2, <1>3, <1>4, <1>5, <1>6, <1>7, <1>8, <1>9 DEF Next

(* The initial state is one of the channel.                                *)
LEMMA ChannelInit == Init => StoreInv(Nodes) /\ FreshInv /\ Channel!Init
<1> SUFFICES ASSUME Init PROVE StoreInv(Nodes) /\ FreshInv /\ Channel!Init
  OBVIOUS
<1>1. StoreInv(Nodes) /\ Waiting = {} /\ HandedOver = {}
  BY StoreInit
<1> QED
  BY <1>1, FreshInit DEF Channel!Init, HandedOver

(* Without a limit the four queues, the merge of mergeEntries and the      *)
(* batches of onGetMsgSplit implement the hand-over of MessageChannel for  *)
(* any number of lines: no node is lost, doubled or sent before it was     *)
(* stored, also when a send fails.                                         *)
THEOREM StoreImplementsChannel == ASSUME Unlimited PROVE Spec => ImplementsChannel
<1>1. Init => StoreInv(Nodes) /\ FreshInv /\ Channel!Init
  BY ChannelInit
<1>2. StoreInv(Nodes) /\ FreshInv /\ [Next]_vars
        => StoreInv(Nodes)' /\ FreshInv' /\ [Channel!Next]_Channel!vars
  BY ChannelStep
<1> QED
  BY <1>1, <1>2, PTL DEF Spec, ImplementsChannel, Channel!Spec

(* What is stored is in reach of a drain until it was handed to send().    *)
THEOREM NothingLost == ASSUME Unlimited PROVE Spec => []NothingDropped
<1>1. Init => StoreInv(Nodes) /\ FreshInv
  BY ChannelInit
<1>2. StoreInv(Nodes) /\ FreshInv /\ [Next]_vars => StoreInv(Nodes)' /\ FreshInv'
  BY ChannelStep
<1>3. StoreInv(Nodes) => NothingDropped
  BY DEF StoreInv, Origin
<1> QED
  BY <1>1, <1>2, <1>3, PTL DEF Spec
=============================================================================

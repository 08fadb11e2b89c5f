-------------------------- MODULE StoreOrderProofs --------------------------
(***************************************************************************)
(* Proofs about MessageStore, for every limit, any number of lines and     *)
(* groups, and any number of drains: between two drains the queues are     *)
(* lists of allocated groups, each queue is first in, first out, and       *)
(* nothing is dropped unless a drain met the situation Shadows describes.  *)
(*                                                                         *)
(* The owners of MessageStoreProofs say which groups belong to a queue.    *)
(* Here every group also has a position in its queue, so that the pointers *)
(* lead from each group to the one behind it, and from the first to all.   *)
(***************************************************************************)
EXTENDS MessageStoreProofs, FiniteSetTheorems

-----------------------------------------------------------------------------
(* Positions: a pointer leads one position on, the head of a queue comes   *)
(* before all of its groups, and the group without a pointer is the last.  *)
Numbered(own, pos) ==
  \A g \in InUse(own) :
    /\ grp[g].next # NULL => pos[grp[g].next] = pos[g] + 1
    /\ \A h \in InUse(own) : own[h] = own[g] =>
         /\ pos[h] = pos[g] => h = g
         /\ grp[g].next = NULL => pos[h] <= pos[g]
         /\ IsHead(own, g) => pos[g] <= pos[h]

(* A queue that may be appended to ends with a group that nothing follows. *)
QueueEnds == \A l \in Locations : l # Left(draining) => grp[holder[l].cur].next = NULL

(* While the loop runs, the right queue is the group mergeEntries left     *)
(* there, and what was taken over begins with the group that comes next.   *)
LoopPlace(own) ==
  /\ loop # NotLooping =>
       /\ loop.cur = holder[Left(draining)].start
       /\ grp[holder[Right(draining)].start] = EmptyGroup
       /\ loop.nxt = NULL => grp[loop.cur].next = NULL
  /\ \A g \in InUse(own) : own[g] = Merged =>
       /\ loop # NotLooping
       /\ loop.nxt # NULL => own[loop.nxt] = Merged

Laid(own, pos) == Numbered(own, pos) /\ QueueEnds /\ LoopPlace(own)

Positions == [GroupIds -> Int]

(* A group may be given a position of its own.                             *)
LEMMA RenumberPositions ==
  ASSUME NEW pos \in Positions, NEW n
  PROVE  \E p2 \in Positions : p2 = [pos EXCEPT ![n] = 0]
<1> DEFINE p2 == [g \in GroupIds |-> IF g = n THEN 0 ELSE pos[g]]
<1>1. \A g \in GroupIds : pos[g] \in Int
  BY DEF Positions
<1>2. p2 \in Positions
  BY <1>1 DEF Positions
<1>3. DOMAIN pos = GroupIds
  BY DEF Positions
<1>4. p2 = [pos EXCEPT ![n] = 0]
  BY <1>3, Zenon
<1> QED
  BY <1>2, <1>4

(* What has to be known of a pointer, and where it leads.                  *)
LEMMA NextFacts ==
  ASSUME TypeInv, NEW own \in [GroupIds -> Owners], Owned(own),
         NEW g \in InUse(own)
  PROVE  /\ g \in live /\ g \in GroupIds /\ own[g] # Junk
         /\ grp[g].next \in Pointers
         /\ grp[g].next # NULL =>
              /\ grp[g].next \in InUse(own) /\ own[grp[g].next] = own[g]
              /\ isToBeSplit /\ grp[g].total = splitSz /\ splitSz >= 1 /\ splitSz \in Nat
              /\ grp[grp[g].next].total > 0
<1>1. g \in live /\ g \in GroupIds /\ own[g] # Junk
  BY DEF InUse, TypeInv, HeapTyped
<1>2. grp[g].next \in Pointers
  BY <1>1, GroupTypes DEF Pointers
<1>3. grp[g].next # NULL =>
        /\ grp[g].next \in live /\ own[grp[g].next] = own[g]
        /\ isToBeSplit /\ grp[g].total = splitSz /\ grp[grp[g].next].total > 0
  BY DEF Owned, ChainInv
<1> QED
  BY <1>1, <1>2, <1>3, OwnerFacts DEF InUse

(* Four empty lists of one group each: any positions will do.              *)
LEMMA LaidInit ==
  ASSUME Init, NEW own \in [GroupIds -> Owners],
         own = [g \in GroupIds |-> IF g \in 1..4 THEN g + 1 ELSE Junk]
  PROVE  \A pos \in Positions : Laid(own, pos)
<1> TAKE pos \in Positions
<1>1. /\ live = 1..4 /\ live \subseteq GroupIds
      /\ \A g \in GroupIds : grp[g] = EmptyGroup
      /\ \A l \in Locations : holder[l].start = l - 1 /\ holder[l].cur = l - 1
      /\ loop = NotLooping
  BY StoreAssumption DEF Init, GroupIds
<1>2. \A g \in live : grp[g].next = NULL /\ own[g] = g + 1 /\ g \in 1..4 /\ own[g] # Merged
  BY <1>1, GroupFacts DEF Merged
<1>3. Numbered(own, pos)
  <2> SUFFICES ASSUME NEW g \in live, NEW h \in live, own[h] = own[g]
               PROVE  h = g /\ pos[h] <= pos[g] /\ pos[g] <= pos[h]
    BY <1>2 DEF Numbered, InUse
  <2>1. h = g
    BY <1>2
  <2>2. pos[g] \in Int
    BY <1>1 DEF Positions
  <2> QED
    BY <2>1, <2>2
<1>4. QueueEnds
  <2>1. \A l \in Locations : l - 1 \in live
    BY <1>1, LocationFacts
  <2> QED
    BY <1>1, <1>2, <2>1 DEF QueueEnds
<1>5. LoopPlace(own)
  BY <1>1, <1>2 DEF LoopPlace, InUse
<1> QED
  BY <1>3, <1>4, <1>5 DEF Laid

-----------------------------------------------------------------------------
(* What the operations of the store do, as far as the lists are concerned. *)
(* Appended is the list of a group that took a node.                       *)
LEMMA AppendedMsgs ==
  ASSUME NEW g \in SaneGroups, g.tail = Len(g.msgs), NEW node \in Nodes
  PROVE  /\ AppendNode(g, node).msgs = Append(g.msgs, node)
         /\ AppendNode(g, node).next = g.next
         /\ AppendNode(g, node).total = g.total + 1
<1>1. /\ g.msgs \in Seq(Nodes) /\ g \in Groups
  BY DEF SaneGroups, Groups
<1>2. SubSeq(g.msgs, 1, g.tail) = g.msgs
  BY <1>1, SubSeqFull
<1>3. Append(g.msgs, node) = g.msgs \o <<node>>
  BY <1>1, AppendIsConcat
<1> DEFINE m == Append(g.msgs, node)
<1>4. AppendNode(g, node) = [g EXCEPT !.msgs = m, !.tail = g.tail + 1, !.total = g.total + 1]
  BY <1>2, <1>3 DEF AppendNode, Linked
<1> HIDE DEF m
<1>5. AppendNode(g, node).msgs = m
  BY <1>1, <1>4 DEF Groups
<1> QED
  BY <1>5, AppendNodeFacts DEF m

(* mergeGrp puts the second list behind the first, as long as tail is      *)
(* where the first one ends.                                               *)
LEMMA MergedMsgs ==
  ASSUME NEW g \in SaneGroups, NEW h \in SaneGroups, g.tail = Len(g.msgs)
  PROVE  MergedGroup(g, h).msgs = g.msgs \o h.msgs
<1>1. g.msgs \in Seq(Nodes) /\ g \in Groups
  BY DEF SaneGroups, Groups
<1>2. SubSeq(g.msgs, 1, g.tail) = g.msgs
  BY <1>1, SubSeqFull
<1> DEFINE m == g.msgs \o h.msgs
<1>3. MergedGroup(g, h) = [g EXCEPT !.msgs = m, !.total = g.total + h.total]
  BY <1>2 DEF MergedGroup, Linked
<1> HIDE DEF m
<1> QED
  BY <1>1, <1>3 DEF Groups, m

(* onQueueMessage starts a group behind a full one ...                     *)
FullStep(own, o2, l, node, c, new) ==
  /\ c = holder[l].cur /\ new = NewGroup
  /\ new \in GroupIds /\ new \notin live /\ new # NULL
  /\ c \in InUse(own) /\ own[c] = l /\ l # Left(draining)
  /\ c # loop.cur /\ c # loop.nxt /\ isToBeSplit
  /\ \A g : g \in live' /\ o2[g] # Junk <=> g \in InUse(own) \cup {new}
  /\ o2[new] = l
  /\ grp'[new].msgs = <<node>> /\ grp'[new].next = NULL
  /\ grp'[c].next = new
  /\ grp'[c].msgs = grp[c].msgs /\ grp'[c].total = grp[c].total
  /\ \A g \in live : /\ g # new /\ o2[g] = own[g]
                     /\ g # c => grp'[g] = grp[g]
  /\ holder'[l].cur = new /\ holder'[l].start = holder[l].start
  /\ \A k \in Locations : k # l => holder'[k] = holder[k]

(* onQueueMessage at a full group, onMergeEntries, mergeGrp, a split and   *)
(* the last batch: each lemma states the step's effect on one set of       *)
(* names.                                                                  *)
LEMMA FullEffect ==
  ASSUME TypeInv, CountInv, NEW own \in [GroupIds -> Owners], Owned(own),
         NEW l \in Locations, l % 2 # draining, NEW node \in Nodes,
         GroupIsFull(grp[holder[l].cur]), QueueMessage(l, node),
         NEW o2 \in [GroupIds -> Owners], o2 = [own EXCEPT ![NewGroup] = l]
  PROVE  FullStep(own, o2, l, node, holder[l].cur, NewGroup)
<1> DEFINE c == holder[l].cur
           new == NewGroup
           a == AppendNode(EmptyGroup, node)
<1>1. /\ l # Left(draining) /\ c \in live /\ c \in GroupIds /\ own[c] = l
      /\ c # loop.cur /\ c # loop.nxt
  BY QueueEnd
<1>2. new \in GroupIds /\ new \notin live /\ new # NULL
  BY LocationFacts, FreeFacts, OwnerFacts DEF QueueMessage
<1>3. /\ grp' = [grp EXCEPT ![c].next = new, ![new] = a]
      /\ live' = live \cup {new}
      /\ holder' = [holder EXCEPT ![l].cur = new]
  BY LocationFacts DEF QueueMessage
<1>4. a.msgs = <<node>> /\ a.next = NULL
  <2>1. Append(<<>>, node) = <<node>>
    OBVIOUS
  <2> QED
    BY <2>1, EmptyIsSane, GroupFacts, AppendedMsgs
<1> HIDE DEF c, new, a
<1>5. /\ grp'[new] = a
      /\ grp'[c] = [grp[c] EXCEPT !.next = new]
      /\ \A g \in live : g # c => grp'[g] = grp[g]
      /\ \A g \in live : g # new /\ g \in GroupIds
  BY <1>1, <1>2, <1>3 DEF TypeInv, HeapTyped
<1>6. /\ grp'[c].next = new /\ grp'[c].total = grp[c].total
      /\ grp'[c].msgs = grp[c].msgs
  BY <1>1, <1>5, GroupTypes DEF SaneGroups, Groups
<1>7. o2[new] = l /\ \A g \in live : o2[g] = own[g]
  BY <1>2, <1>5 DEF new
<1>8. /\ holder'[l].cur = new /\ holder'[l].start = holder[l].start
      /\ \A k \in Locations : k # l => holder'[k] = holder[k]
  BY <1>3 DEF TypeInv, HeapTyped, Holders
<1>9. \A g : g \in live' /\ o2[g] # Junk <=> g \in InUse(own) \cup {new}
  BY <1>3, <1>7, OwnerFacts DEF InUse
<1>10. c \in InUse(own)
  BY <1>1, OwnerFacts DEF InUse
<1>11. isToBeSplit
  BY DEF GroupIsFull
<1> QED
  BY <1>1, <1>2, <1>4, <1>5, <1>6, <1>7, <1>8, <1>9, <1>10, <1>11 DEF c, new, FullStep

(* ... or appends to the last one.                                         *)
RoomStep(own, l, node, c) ==
  /\ c = holder[l].cur
  /\ c \in InUse(own) /\ own[c] = l /\ l # Left(draining)
  /\ c # loop.cur /\ c # loop.nxt
  /\ live' = live /\ holder' = holder
  /\ grp'[c].msgs = Append(grp[c].msgs, node)
  /\ \A g \in live : /\ grp'[g].next = grp[g].next
                     /\ g # c => grp'[g] = grp[g]

(* onQueueMessage at a group with room.                                    *)
LEMMA RoomEffect ==
  ASSUME TypeInv, CountInv, NEW own \in [GroupIds -> Owners], Owned(own),
         NEW l \in Locations, l % 2 # draining, NEW node \in Nodes,
         ~GroupIsFull(grp[holder[l].cur]), QueueMessage(l, node)
  PROVE  RoomStep(own, l, node, holder[l].cur)
<1> DEFINE c == holder[l].cur
           a == AppendNode(grp[c], node)
<1>1. /\ l # Left(draining) /\ c \in live /\ c \in GroupIds /\ own[c] = l
      /\ c # loop.cur /\ c # loop.nxt
  BY QueueEnd
<1>2. grp' = [grp EXCEPT ![c] = a] /\ live' = live /\ holder' = holder
  BY LocationFacts DEF QueueMessage
<1>3. a.msgs = Append(grp[c].msgs, node) /\ a.next = grp[c].next
  <2>1. grp[c] \in SaneGroups /\ grp[c].tail = Len(grp[c].msgs)
    BY <1>1, GroupTypes DEF CountInv
  <2> QED
    BY <2>1, AppendedMsgs
<1>4. c \in InUse(own)
  BY <1>1, OwnerFacts DEF InUse
<1> HIDE DEF c, a
<1>5. /\ grp'[c] = a
      /\ \A g \in live : g # c => grp'[g] = grp[g]
  BY <1>1, <1>2 DEF TypeInv, HeapTyped
<1>6. grp'[c].msgs = Append(grp[c].msgs, node) /\ grp'[c].next = grp[c].next
  BY <1>3, <1>5
<1> QED
  BY <1>1, <1>2, <1>4, <1>5, <1>6 DEF c, RoomStep

(* mergeEntries takes over the right queue.                                *)
TakeOverStep(own, o2, l, r, new, a, b) ==
  /\ l = Left(draining) /\ r = Right(draining) /\ new = NewGroup
  /\ a = holder[l].start /\ b = holder[r].start
  /\ draining \in Spaces /\ draining' = draining /\ loop = NotLooping
  /\ l \in Locations /\ r \in Locations /\ l # r
  /\ new \in GroupIds /\ new \notin live /\ new # NULL
  /\ a \in InUse(own) /\ own[a] = l /\ IsHead(own, a)
  /\ b \in InUse(own) /\ own[b] = r /\ IsHead(own, b)
  /\ \A g : g \in live' /\ o2[g] # Junk <=> g \in InUse(own) \cup {new}
  /\ o2[new] = r /\ o2[a] = l /\ o2[b] = Merged
  /\ grp'[new] = EmptyGroup
  /\ \A g \in live : /\ g # new /\ grp'[g] = grp[g]
                     /\ o2[g] = IF own[g] = r THEN Merged ELSE own[g]
  /\ holder'[r].start = new /\ holder'[r].cur = new
  /\ holder'[l].start = a
  /\ \A k \in Locations : k # l /\ k # r => holder'[k] = holder[k]
  /\ loop' # NotLooping /\ loop'.cur = a /\ loop'.nxt = b /\ b # NULL

(* onMergeEntries, where there is something to take over.                  *)
LEMMA TakeOverEffect ==
  ASSUME TypeInv, NEW own \in [GroupIds -> Owners], Owned(own), MergeEntries,
         NEW o2 \in [GroupIds -> Owners],
         o2 = [g \in GroupIds |-> IF g = NewGroup THEN Right(draining)
                                  ELSE IF own[g] = Right(draining) THEN Merged ELSE own[g]]
  PROVE  TakeOverStep(own, o2, Left(draining), Right(draining), NewGroup,
                      holder[Left(draining)].start, holder[Right(draining)].start)
<1> DEFINE l == Left(draining)
           r == Right(draining)
           new == NewGroup
           a == holder[l].start
           b == holder[r].start
<1>1. /\ draining \in Spaces /\ draining' = draining /\ loop = NotLooping
      /\ l \in Locations /\ r \in Locations /\ l # r
  BY LoopFacts, LocationFacts DEF MergeEntries
<1>2. new \in GroupIds /\ new \notin live /\ new # NULL
  BY FreeFacts, OwnerFacts DEF MergeEntries
<1>3. /\ live' = live \cup {new}
      /\ grp' = [grp EXCEPT ![new] = EmptyGroup]
      /\ holder' = [holder EXCEPT ![l].next = holder[r].start,
                                  ![l].cur = holder[r].cur,
                                  ![r] = [start |-> new, cur |-> new, next |-> NULL]]
      /\ loop' = [cur |-> a, nxt |-> b, tot |-> grp[a].total]
  BY DEF MergeEntries
<1> HIDE DEF new
<1>4. /\ a \in live /\ own[a] = l /\ IsHead(own, a)
      /\ b \in live /\ own[b] = r /\ IsHead(own, b)
  BY <1>1 DEF Owned, QueueInv, IsHead
<1>5. o2 = [g \in GroupIds |-> IF g = new THEN r ELSE IF own[g] = r THEN Merged ELSE own[g]]
  BY DEF new
<1> HIDE DEF l, r
<1>6. holder'[r].start = new /\ holder'[r].cur = new /\ holder'[l].start = a
      /\ \A k \in Locations : k # l /\ k # r => holder'[k] = holder[k]
  BY <1>1, <1>3 DEF TypeInv, HeapTyped, Holders
<1> HIDE DEF a, b
<1>7. /\ grp'[new] = EmptyGroup
      /\ \A g \in live : g # new /\ grp'[g] = grp[g] /\ g \in GroupIds
  BY <1>2, <1>3 DEF TypeInv, HeapTyped
<1>8. /\ o2[new] = r
      /\ \A g \in live : o2[g] = IF own[g] = r THEN Merged ELSE own[g]
  BY <1>2, <1>5, <1>7
<1>9. \A g : g \in live' /\ o2[g] # Junk <=> g \in InUse(own) \cup {new}
  <2>1. r # Junk /\ Merged # Junk
    BY <1>1, OwnerFacts
  <2>2. live' = live \cup {new}
    BY <1>3
  <2> QED
    BY <1>8, <2>1, <2>2 DEF InUse
<1>10. a \in InUse(own) /\ b \in InUse(own) /\ b # NULL /\ a # NULL
  BY <1>1, <1>4, <1>7, OwnerFacts DEF InUse
<1>11. loop' # NotLooping /\ loop'.cur = a /\ loop'.nxt = b
  BY <1>3, <1>10, OwnerFacts
<1>12. o2[a] = l /\ o2[b] = Merged
  BY <1>1, <1>4, <1>8
<1> QED
  BY <1>1, <1>2, <1>4, <1>6, <1>7, <1>8, <1>9, <1>10, <1>11, <1>12 DEF l, r, new, a, b, TakeOverStep

(* mergeGrp: the group that fits is the first of those taken over.         *)
MergeStep(own, l, cur, nxt) ==
  /\ l = Left(draining) /\ cur = loop.cur /\ nxt = loop.nxt
  /\ draining \in Spaces /\ draining' = draining
  /\ loop # NotLooping /\ loop' # NotLooping /\ holder' = holder
  /\ nxt # NULL /\ cur # nxt
  /\ cur \in InUse(own) /\ own[cur] = l /\ IsHead(own, cur)
  /\ nxt \in InUse(own) /\ own[nxt] = Merged /\ IsHead(own, nxt)
  /\ \A g : g \in live' /\ own[g] # Junk <=> g \in InUse(own) \ {nxt}
  /\ grp'[cur].msgs = grp[cur].msgs \o grp[nxt].msgs
  /\ grp[cur].total + grp[nxt].total <= splitSz
  /\ \A g \in live : /\ grp'[g].next = grp[g].next
                     /\ g # cur => grp'[g] = grp[g]
  /\ loop'.cur = cur /\ loop'.nxt = grp[cur].next

(* A turn of the loop that merges loop.nxt into loop.cur.                  *)
LEMMA MergeEffect ==
  ASSUME TypeInv, CountInv, NEW own \in [GroupIds -> Owners], Owned(own), MergeGrp
  PROVE  MergeStep(own, Left(draining), loop.cur, loop.nxt)
<1> DEFINE l == Left(draining)
           cur == loop.cur
           nxt == loop.nxt
<1>1. /\ nxt # NULL /\ loop # NotLooping /\ draining \in Spaces
      /\ cur \in GroupIds /\ nxt \in GroupIds
  BY LoopFacts, OwnerFacts DEF MergeGrp
<1>2. /\ own[cur] = l /\ IsHead(own, cur) /\ cur \in live
      /\ nxt \in live /\ nxt # cur /\ own[nxt] \in {l, Merged}
      /\ \/ grp[cur].next = nxt
         \/ /\ own[nxt] = Merged /\ IsHead(own, nxt)
            /\ grp[cur].tail = Len(grp[cur].msgs)
  BY <1>1 DEF Owned, LoopInv, IsHead
<1>3. cur \in InUse(own) /\ nxt \in InUse(own)
  BY <1>1, <1>2, LocationFacts, OwnerFacts DEF InUse
<1>4. grp[cur].total + grp[nxt].total <= splitSz
  <2>1. loop.tot = grp[cur].total
    BY <1>1 DEF Owned, LoopInv
  <2> QED
    BY <2>1 DEF MergeGrp
<1> HIDE DEF l, cur, nxt
<1>5. grp[cur].next # nxt
  <2> SUFFICES ASSUME grp[cur].next = nxt PROVE FALSE
    OBVIOUS
  <2>1. grp[cur].total = splitSz /\ splitSz \in Nat /\ grp[nxt].total > 0
    BY <1>1, <1>3, NextFacts
  <2>2. grp[nxt].total \in Nat
    BY <1>1, GroupTypes
  <2> QED
    BY <1>4, <2>1, <2>2
<1>6. own[nxt] = Merged /\ IsHead(own, nxt) /\ grp[cur].tail = Len(grp[cur].msgs)
  BY <1>2, <1>5
<1> DEFINE m == MergedGroup(grp[cur], grp[nxt])
<1>7. m.next = grp[cur].next /\ m.msgs = grp[cur].msgs \o grp[nxt].msgs
  BY <1>1, <1>6, GroupTypes, MergedFacts, MergedMsgs
<1>8. /\ grp' = [grp EXCEPT ![cur] = m] /\ live' = live \ {nxt}
      /\ loop' = [loop EXCEPT !.nxt = m.next, !.tot = loop.tot + grp[nxt].total]
      /\ holder' = holder /\ draining' = draining
  BY DEF MergeGrp, cur, nxt
<1> HIDE DEF m
<1>9. grp'[cur] = m /\ \A g \in live : g # cur => grp'[g] = grp[g]
  BY <1>1, <1>8 DEF TypeInv, HeapTyped
<1>10. loop'.cur = cur /\ loop'.nxt = grp[cur].next
  BY <1>7, <1>8 DEF TypeInv, LoopTyped, Loops, cur
<1>11. loop' # NotLooping
  BY <1>1, <1>10, OwnerFacts
<1>12. \A g : g \in live' /\ own[g] # Junk <=> g \in InUse(own) \ {nxt}
  BY <1>8 DEF InUse
<1>13. \A g \in live : grp'[g].next = grp[g].next
  BY <1>7, <1>9
<1>14. grp'[cur].msgs = grp[cur].msgs \o grp[nxt].msgs
  BY <1>7, <1>9
<1> QED
  BY <1>1, <1>2, <1>3, <1>4, <1>6, <1>8, <1>9, <1>10, <1>11, <1>12, <1>13, <1>14
     DEF l, cur, nxt, MergeStep

(* A batch: the groups of the owner whose group comes next become the left *)
(* queue, and what else the left queue held is out of reach.               *)
SplitStep(own, o2, l, cur, nxt) ==
  /\ l = Left(draining) /\ cur = loop.cur /\ nxt = loop.nxt
  /\ draining \in Spaces /\ l \in Locations
  /\ loop # NotLooping /\ loop' = NotLooping /\ nxt # NULL /\ cur # nxt
  /\ draining' = draining \/ (~isToBeSplit /\ draining' = NoSpace)
  /\ cur \in InUse(own) /\ own[cur] = l /\ IsHead(own, cur)
  /\ nxt \in InUse(own)
  /\ \/ own[nxt] = l /\ grp[cur].next = nxt
     \/ own[nxt] = Merged /\ IsHead(own, nxt)
  /\ ~isToBeSplit => holder[l].cur = nxt
  /\ \A g \in live' : o2[g] # Junk => g \in InUse(own) \ {cur}
  /\ \A g \in InUse(own) :
       /\ o2[g] = IF own[g] = own[nxt] THEN l
                  ELSE IF own[g] = l THEN Junk ELSE own[g]
       /\ g # cur /\ o2[g] # Junk => g \in live'
  /\ grp' = grp
  /\ holder'[l].start = nxt /\ holder'[l].cur = holder[l].cur
  /\ \A k \in Locations : k # l => holder'[k] = holder[k]
  /\ grp[cur].total + grp[nxt].total > splitSz
  /\ batch' = grp[cur].msgs
  /\ \/ sent' = sent \o grp[cur].msgs /\ unsent' = unsent
     \/ sent' = sent /\ unsent' = unsent \cup At(cur)

(* A turn that gives loop.cur away and goes on with loop.nxt.              *)
LEMMA SplitEffect ==
  ASSUME TypeInv, NEW own \in [GroupIds -> Owners], Owned(own), SplitOff, Reliable,
         NEW o2 \in [GroupIds -> Owners],
         o2 = [g \in GroupIds |-> IF own[g] = own[loop.nxt] THEN Left(draining)
                                  ELSE IF own[g] = Left(draining) THEN Junk ELSE own[g]]
  PROVE  SplitStep(own, o2, Left(draining), loop.cur, loop.nxt)
<1> DEFINE l == Left(draining)
           cur == loop.cur
           nxt == loop.nxt
<1>1. /\ nxt # NULL /\ loop # NotLooping /\ draining \in Spaces
      /\ cur \in GroupIds /\ nxt \in GroupIds /\ l \in Locations
  BY LoopFacts, OwnerFacts, LocationFacts DEF SplitOff
<1>2. /\ own[cur] = l /\ IsHead(own, cur) /\ cur \in live
      /\ nxt \in live /\ nxt # cur /\ own[nxt] \in {l, Merged}
      /\ \/ grp[cur].next = nxt
         \/ own[nxt] = Merged /\ IsHead(own, nxt)
      /\ loop.tot = grp[cur].total
      /\ ~isToBeSplit => holder[l].cur = nxt
  BY <1>1 DEF Owned, LoopInv, IsHead
<1>3. cur \in InUse(own) /\ nxt \in InUse(own)
  BY <1>1, <1>2, LocationFacts, OwnerFacts DEF InUse
<1>4. \/ own[nxt] = l /\ grp[cur].next = nxt
      \/ own[nxt] = Merged /\ IsHead(own, nxt)
  BY <1>1, <1>2, <1>3, NextFacts
<1>5. grp[cur].total + grp[nxt].total > splitSz
  BY <1>2 DEF SplitOff
<1>6. /\ grp' = grp /\ live' = live \ {cur}
      /\ holder' = [holder EXCEPT ![l].start = nxt, ![l].next = grp[nxt].next]
      /\ Deliver(cur, TRUE)
  BY DEF SplitOff
<1>7. /\ loop' = NotLooping /\ batch' = grp[cur].msgs
      /\ draining' = draining \/ (~isToBeSplit /\ draining' = NoSpace)
      /\ \/ sent' = sent \o grp[cur].msgs /\ unsent' = unsent
         \/ sent' = sent /\ unsent' = unsent \cup At(cur)
  BY <1>6 DEF Deliver, Reliable, At
<1>8. o2 = [g \in GroupIds |-> IF own[g] = own[nxt] THEN l
                               ELSE IF own[g] = l THEN Junk ELSE own[g]]
  OBVIOUS
<1> HIDE DEF l, cur, nxt
<1>9. /\ holder'[l].start = nxt /\ holder'[l].cur = holder[l].cur
      /\ \A k \in Locations : k # l => holder'[k] = holder[k]
  BY <1>1, <1>6 DEF TypeInv, HeapTyped, Holders
<1>10. \A g \in live : o2[g] = IF own[g] = own[nxt] THEN l
                               ELSE IF own[g] = l THEN Junk ELSE own[g]
  BY <1>8 DEF TypeInv, HeapTyped
<1>11. own[nxt] # Junk
  BY <1>3 DEF InUse
<1>12. /\ \A g \in live' : o2[g] # Junk => g \in InUse(own) \ {cur}
       /\ \A g \in InUse(own) : g # cur /\ o2[g] # Junk => g \in live'
  <2>1. live' = live \ {cur}
    BY <1>6
  <2>2. \A g \in live : o2[g] # Junk => own[g] # Junk
    BY <1>10, <1>11
  <2> QED
    BY <2>1, <2>2 DEF InUse
<1>13. \A g \in InUse(own) : o2[g] = IF own[g] = own[nxt] THEN l
                                     ELSE IF own[g] = l THEN Junk ELSE own[g]
  BY <1>10 DEF InUse
<1> QED
  BY <1>1, <1>2, <1>3, <1>4, <1>5, <1>6, <1>7, <1>9, <1>12, <1>13 DEF l, cur, nxt, SplitStep

(* The last batch.                                                         *)
LastStep(own, o2, l, cur, new) ==
  /\ l = Left(draining) /\ cur = loop.cur /\ new = NewGroup
  /\ draining \in Spaces /\ l \in Locations /\ draining' = NoSpace
  /\ loop # NotLooping /\ loop' = NotLooping /\ loop.nxt = NULL
  /\ new \in GroupIds /\ new \notin live /\ new # NULL
  /\ cur \in InUse(own) /\ own[cur] = l /\ IsHead(own, cur)
  /\ \A g \in live' : o2[g] # Junk => g \in (InUse(own) \ {cur}) \cup {new}
  /\ new \in live' /\ o2[new] = l
  /\ \A g \in InUse(own) :
       /\ g # new /\ grp'[g] = grp[g]
       /\ o2[g] = IF own[g] \in {l, Merged} THEN Junk ELSE own[g]
       /\ g # cur /\ o2[g] # Junk => g \in live'
  /\ grp'[new] = EmptyGroup
  /\ holder'[l].start = new /\ holder'[l].cur = new
  /\ \A k \in Locations : k # l => holder'[k] = holder[k]
  /\ batch' = grp[cur].msgs
  /\ \/ sent' = sent \o grp[cur].msgs /\ unsent' = unsent
     \/ sent' = sent /\ unsent' = unsent \cup At(cur)

(* The last batch, after which the left queue is a new group.              *)
LEMMA LastEffect ==
  ASSUME TypeInv, NEW own \in [GroupIds -> Owners], Owned(own), LastBatch,
         NEW o2 \in [GroupIds -> Owners],
         o2 = [g \in GroupIds |-> IF g = NewGroup THEN Left(draining)
                                  ELSE IF own[g] \in {Left(draining), Merged} THEN Junk
                                  ELSE own[g]]
  PROVE  LastStep(own, o2, Left(draining), loop.cur, NewGroup)
<1> DEFINE l == Left(draining)
           cur == loop.cur
           new == NewGroup
<1>1. /\ loop.nxt = NULL /\ loop # NotLooping /\ draining \in Spaces
      /\ cur \in GroupIds /\ l \in Locations
  BY LoopFacts, OwnerFacts, LocationFacts DEF LastBatch
<1>2. own[cur] = l /\ IsHead(own, cur) /\ cur \in live
  BY <1>1 DEF Owned, LoopInv, IsHead
<1>3. cur \in InUse(own)
  BY <1>1, <1>2, LocationFacts, OwnerFacts DEF InUse
<1>4. new \in GroupIds /\ new \notin live /\ new # NULL
  BY FreeFacts, OwnerFacts DEF LastBatch
<1>5. /\ live' = (live \cup {new}) \ {cur}
      /\ grp' = [grp EXCEPT ![new] = EmptyGroup]
      /\ holder' = [holder EXCEPT ![l] = [start |-> new, cur |-> new, next |-> NULL]]
      /\ Deliver(cur, FALSE)
  BY DEF LastBatch
<1>6. /\ loop' = NotLooping /\ batch' = grp[cur].msgs /\ draining' = NoSpace
      /\ \/ sent' = sent \o grp[cur].msgs /\ unsent' = unsent
         \/ sent' = sent /\ unsent' = unsent \cup At(cur)
  BY <1>5 DEF Deliver, At
<1>7. o2 = [g \in GroupIds |-> IF g = new THEN l
                               ELSE IF own[g] \in {l, Merged} THEN Junk ELSE own[g]]
  OBVIOUS
<1> HIDE DEF l, cur, new
<1>8. /\ holder'[l].start = new /\ holder'[l].cur = new
      /\ \A k \in Locations : k # l => holder'[k] = holder[k]
  BY <1>1, <1>5 DEF TypeInv, HeapTyped
<1>9. /\ o2[new] = l /\ grp'[new] = EmptyGroup
      /\ \A g \in live : /\ g # new /\ grp'[g] = grp[g]
                         /\ o2[g] = IF own[g] \in {l, Merged} THEN Junk ELSE own[g]
  BY <1>4, <1>5, <1>7 DEF TypeInv, HeapTyped
<1>10. /\ \A g \in live' : o2[g] # Junk => g \in (InUse(own) \ {cur}) \cup {new}
       /\ new \in live'
       /\ \A g \in InUse(own) : g # cur /\ o2[g] # Junk => g \in live'
  <2>1. live' = (live \cup {new}) \ {cur} /\ cur # new
    BY <1>2, <1>4, <1>5
  <2>2. \A g \in live : o2[g] # Junk => own[g] # Junk
    BY <1>9
  <2>3. l # Junk
    BY <1>1, OwnerFacts
  <2> QED
    BY <1>9, <2>1, <2>2, <2>3 DEF InUse
<1>11. \A g \in InUse(own) :
         /\ g # new /\ grp'[g] = grp[g]
         /\ o2[g] = IF own[g] \in {l, Merged} THEN Junk ELSE own[g]
  BY <1>9 DEF InUse
<1> QED
  BY <1>1, <1>2, <1>3, <1>4, <1>6, <1>8, <1>9, <1>10, <1>11 DEF l, cur, new, LastStep

-----------------------------------------------------------------------------
(* The steps keep the lists in shape.  Two facts about the queues first.   *)
LEMMA EndFacts ==
  ASSUME TypeInv, NEW own \in [GroupIds -> Owners], Owned(own),
         NEW pos \in Positions, Laid(own, pos),
         NEW k \in Locations, k # Left(draining)
  PROVE  /\ holder[k].cur \in InUse(own) /\ own[holder[k].cur] = k
         /\ grp[holder[k].cur].next = NULL
<1>1. holder[k].cur \in live /\ own[holder[k].cur] = k
  BY DEF Owned, QueueInv
<1>2. grp[holder[k].cur].next = NULL
  BY DEF Laid, QueueEnds
<1> QED
  BY <1>1, <1>2, OwnerFacts DEF InUse

(* The group a queue starts at is in use and the head of that queue.       *)
LEMMA StartFacts ==
  ASSUME TypeInv, NEW own \in [GroupIds -> Owners], Owned(own),
         NEW k \in Locations, k # Left(draining) \/ loop = NotLooping
  PROVE  /\ holder[k].start \in InUse(own) /\ own[holder[k].start] = k
         /\ IsHead(own, holder[k].start)
<1>1. own[holder[k].start] = k /\ IsHead(own, holder[k].start)
  BY DEF Owned, QueueInv
<1> QED
  BY <1>1, OwnerFacts DEF InUse, IsHead

(* The group the loop is at heads the left queue; the next one is the      *)
(* group behind it, or the head of what was taken over.                    *)
LEMMA LoopCurFacts ==
  ASSUME TypeInv, NEW own \in [GroupIds -> Owners], Owned(own), loop # NotLooping
  PROVE  /\ draining \in Spaces /\ Left(draining) \in Locations
         /\ Right(draining) \in Locations /\ Right(draining) # Left(draining)
         /\ loop.cur \in InUse(own) /\ own[loop.cur] = Left(draining)
         /\ IsHead(own, loop.cur)
         /\ loop.nxt # NULL =>
              /\ loop.nxt \in InUse(own) /\ loop.nxt # loop.cur
              /\ \/ own[loop.nxt] = Left(draining) /\ grp[loop.cur].next = loop.nxt
                 \/ own[loop.nxt] = Merged /\ IsHead(own, loop.nxt)
<1>1. draining \in Spaces /\ own[loop.cur] = Left(draining) /\ IsHead(own, loop.cur)
  BY LoopFacts DEF Owned, LoopInv
<1>2. Left(draining) \in Locations /\ Right(draining) \in Locations
      /\ Right(draining) # Left(draining)
  BY <1>1, LocationFacts
<1>3. loop.cur \in InUse(own)
  BY <1>1, <1>2, OwnerFacts DEF InUse, IsHead
<1>4. loop.nxt # NULL =>
        /\ loop.nxt \in live /\ loop.nxt # loop.cur
        /\ own[loop.nxt] \in {Left(draining), Merged}
        /\ \/ grp[loop.cur].next = loop.nxt
           \/ own[loop.nxt] = Merged /\ IsHead(own, loop.nxt)
  BY DEF Owned, LoopInv
<1>5. loop.nxt # NULL => loop.nxt \in InUse(own)
  BY <1>2, <1>4, OwnerFacts DEF InUse
<1> QED
  BY <1>1, <1>2, <1>3, <1>4, <1>5, NextFacts

(* What Numbered says about two groups of a queue.                         *)
LEMMA NumberedFacts ==
  ASSUME TypeInv, NEW own \in [GroupIds -> Owners], NEW pos \in Positions,
         Numbered(own, pos), NEW g \in InUse(own), NEW h \in InUse(own), own[h] = own[g]
  PROVE  /\ pos[g] \in Int /\ pos[h] \in Int
         /\ pos[h] = pos[g] => h = g
         /\ grp[g].next = NULL => pos[h] <= pos[g]
         /\ IsHead(own, g) => pos[g] <= pos[h]
<1>1. g \in GroupIds /\ h \in GroupIds
  BY DEF InUse, TypeInv, HeapTyped
<1> QED
  BY <1>1 DEF Numbered, Positions

(* A group added at the end of a queue takes the next position.            *)
LEMMA LaidFull ==
  ASSUME TypeInv, CountInv, NEW own \in [GroupIds -> Owners], Owned(own),
         NEW pos \in Positions, Laid(own, pos),
         NEW l \in Locations, l % 2 # draining, NEW node \in Nodes,
         GroupIsFull(grp[holder[l].cur]), QueueMessage(l, node),
         UNCHANGED <<loop, draining>>,
         NEW o2 \in [GroupIds -> Owners], o2 = [own EXCEPT ![NewGroup] = l],
         NEW p2 \in Positions, p2 = [pos EXCEPT ![NewGroup] = pos[holder[l].cur] + 1]
  PROVE  Laid(o2, p2)'
<1>0. PICK c, new : FullStep(own, o2, l, node, c, new)
  BY FullEffect
<1>1. /\ c = holder[l].cur /\ new = NewGroup
      /\ new \in GroupIds /\ new \notin live /\ new # NULL
      /\ c \in InUse(own) /\ own[c] = l /\ l # Left(draining)
      /\ c # loop.cur /\ c # loop.nxt
      /\ \A g : g \in live' /\ o2[g] # Junk <=> g \in InUse(own) \cup {new}
      /\ o2[new] = l
      /\ grp'[new].next = NULL /\ grp'[c].next = new
      /\ \A g \in live : /\ g # new /\ o2[g] = own[g]
                         /\ g # c => grp'[g] = grp[g]
      /\ holder'[l].cur = new /\ holder'[l].start = holder[l].start
      /\ \A k \in Locations : k # l => holder'[k] = holder[k]
  BY <1>0 DEF FullStep
<1>u. InUse(o2)' = InUse(own) \cup {new}
  BY <1>1 DEF InUse
<1>3. grp[c].next = NULL
  BY <1>1 DEF Laid, QueueEnds
<1>4. /\ \A g \in InUse(own) : g \in live /\ g \in GroupIds /\ g # new /\ g # NULL
      /\ p2[new] = pos[c] + 1 /\ pos[c] \in Int
      /\ \A g \in InUse(own) : p2[g] = pos[g] /\ pos[g] \in Int /\ o2[g] = own[g]
  BY <1>1, NextFacts, OwnerFacts DEF Positions
<1>5. \A g, h \in InUse(own) : own[h] = own[g] =>
        /\ pos[h] = pos[g] => h = g
        /\ grp[g].next = NULL => pos[h] <= pos[g]
        /\ IsHead(own, g) => pos[g] <= pos[h]
  BY NumberedFacts DEF Laid
<1>6. \A g \in InUse(own) : own[g] = l => pos[g] <= pos[c]
  BY <1>1, <1>3, <1>5
<1>7. \A g \in InUse(own) : IsHead(o2, g)' => IsHead(own, g)
  <2> SUFFICES ASSUME NEW g \in InUse(own), IsHead(o2, g)', NEW h \in InUse(own)
               PROVE  grp[h].next # g
    BY <1>4 DEF IsHead
  <2>1. grp'[h].next # g
    BY <1>u DEF IsHead
  <2> QED
    BY <1>1, <1>3, <1>4, <2>1
<1>8. ~IsHead(o2, new)'
  <2>1. c \in InUse(o2)' /\ grp'[c].next = new
    BY <1>1, <1>u
  <2> QED
    BY <2>1 DEF IsHead
<1>9. Numbered(o2, p2)'
  <2> SUFFICES ASSUME NEW g \in InUse(own) \cup {new}
               PROVE  /\ grp'[g].next # NULL => p2[grp'[g].next] = p2[g] + 1
                      /\ \A h \in InUse(own) \cup {new} : o2[h] = o2[g] =>
                           /\ p2[h] = p2[g] => h = g
                           /\ grp'[g].next = NULL => p2[h] <= p2[g]
                           /\ IsHead(o2, g)' => p2[g] <= p2[h]
    BY <1>u DEF Numbered
  <2>1. grp'[g].next # NULL => p2[grp'[g].next] = p2[g] + 1
    <3>1. CASE g = new
      BY <1>1, <3>1
    <3>2. CASE g = c
      BY <1>1, <1>4, <3>2
    <3>3. CASE g # new /\ g # c
      <4>1. g \in InUse(own) /\ grp'[g] = grp[g]
        BY <1>1, <1>4, <3>3
      <4>2. grp[g].next # NULL => grp[g].next \in InUse(own) /\ pos[grp[g].next] = pos[g] + 1
        BY <4>1, NextFacts DEF Laid, Numbered
      <4> QED
        BY <1>4, <4>1, <4>2
    <3> QED
      BY <3>1, <3>2, <3>3
  <2>2. ASSUME NEW h \in InUse(own) \cup {new}, o2[h] = o2[g]
        PROVE  /\ p2[h] = p2[g] => h = g
               /\ grp'[g].next = NULL => p2[h] <= p2[g]
               /\ IsHead(o2, g)' => p2[g] <= p2[h]
    <3>1. CASE g = new /\ h = new
      BY <1>4, <3>1
    <3>2. CASE g = new /\ h # new
      <4>1. h \in InUse(own) /\ own[h] = l /\ pos[h] <= pos[c]
        BY <1>1, <1>4, <1>6, <2>2, <3>2
      <4> QED
        BY <1>4, <1>8, <3>2, <4>1
    <3>3. CASE g # new /\ h = new
      <4>1. g \in InUse(own) /\ own[g] = l /\ pos[g] <= pos[c]
        BY <1>1, <1>4, <1>6, <2>2, <3>3
      <4>2. ASSUME grp'[g].next = NULL PROVE FALSE
        <5>1. g # c /\ grp[g].next = NULL
          BY <1>1, <1>4, <4>1, <4>2
        <5>2. pos[c] <= pos[g]
          BY <1>1, <1>5, <4>1, <5>1
        <5>3. pos[c] = pos[g]
          BY <1>4, <4>1, <5>2
        <5> QED
          BY <1>1, <1>5, <4>1, <5>1, <5>3
      <4> QED
        BY <1>4, <3>3, <4>1, <4>2
    <3>4. CASE g # new /\ h # new
      <4>1. g \in InUse(own) /\ h \in InUse(own) /\ own[h] = own[g]
        BY <1>4, <2>2, <3>4
      <4>2. grp'[g].next = NULL => grp[g].next = NULL
        BY <1>1, <1>4, <4>1
      <4> QED
        BY <1>4, <1>5, <1>7, <4>1, <4>2
    <3> QED
      BY <3>1, <3>2, <3>3, <3>4
  <2> QED
    BY <2>1, <2>2
<1>10. QueueEnds'
  <2> SUFFICES ASSUME NEW k \in Locations, k # Left(draining)
               PROVE  grp'[holder'[k].cur].next = NULL
    BY DEF QueueEnds
  <2>1. CASE k = l
    BY <1>1, <2>1
  <2>2. CASE k # l
    <3>1. /\ holder[k].cur \in InUse(own) /\ own[holder[k].cur] = k
          /\ grp[holder[k].cur].next = NULL
      BY EndFacts
    <3> QED
      BY <1>1, <1>4, <2>2, <3>1
  <2> QED
    BY <2>1, <2>2
<1>11. LoopPlace(o2)'
  <2>1. \A k \in Locations : holder'[k].start = holder[k].start
    BY <1>1
  <2>2. ASSUME loop # NotLooping
        PROVE  /\ loop.cur = holder'[Left(draining)].start
               /\ grp'[holder'[Right(draining)].start] = EmptyGroup
               /\ loop.nxt = NULL => grp'[loop.cur].next = NULL
    <3>1. /\ draining \in Spaces /\ Left(draining) \in Locations /\ Right(draining) \in Locations
          /\ Right(draining) # Left(draining) /\ loop.cur \in InUse(own)
      BY <2>2, LoopCurFacts
    <3>2. holder[Right(draining)].start \in InUse(own)
          /\ own[holder[Right(draining)].start] = Right(draining)
      BY <3>1, StartFacts
    <3>3. Right(draining) # l
      BY <3>1, LocationFacts
    <3>4. grp'[holder[Right(draining)].start] = grp[holder[Right(draining)].start]
      BY <1>1, <1>4, <3>2, <3>3
    <3>5. grp'[loop.cur] = grp[loop.cur]
      BY <1>1, <1>4, <3>1
    <3> QED
      BY <2>1, <2>2, <3>1, <3>4, <3>5 DEF Laid, LoopPlace
  <2>3. ASSUME NEW g \in InUse(own) \cup {new}, o2[g] = Merged
        PROVE  loop # NotLooping /\ (loop.nxt # NULL => o2[loop.nxt] = Merged)
    <3>1. g \in InUse(own) /\ own[g] = Merged
      BY <1>1, <1>4, <2>3, OwnerFacts
    <3>2. loop # NotLooping /\ (loop.nxt # NULL => own[loop.nxt] = Merged)
      BY <3>1 DEF Laid, LoopPlace
    <3>3. loop.nxt # NULL => loop.nxt \in InUse(own)
      BY <3>2, LoopCurFacts
    <3> QED
      BY <1>4, <3>2, <3>3
  <2> QED
    BY <1>u, <2>2, <2>3 DEF LoopPlace
<1> QED
  BY <1>9, <1>10, <1>11 DEF Laid

(* The other steps take groups away, from the front of a queue or whole    *)
(* queues, and add groups that are alone in theirs.                        *)
FrontLeaves(own, pos, o2, p2, d, new, U) ==
  /\ d \in InUse(own) => IsHead(own, d)
  /\ new \notin live
  /\ U \subseteq (InUse(own) \ {d}) \cup {new}
  /\ \A g : g \in live' /\ o2[g] # Junk <=> g \in U
  /\ new \in U => /\ grp'[new].next = NULL /\ p2[new] \in Int
                  /\ \A h \in U : o2[h] = o2[new] => h = new
  /\ \A g \in U \ {new} : grp'[g].next = grp[g].next /\ p2[g] = pos[g]
  /\ \A g \in U \ {new} : \A h \in InUse(own) \ {d} : own[h] = own[g] => h \in U
  /\ \A g, h \in U \ {new} : o2[h] = o2[g] => own[h] = own[g]

(* A step that takes groups from the front of a queue, and adds a queue of *)
(* one group, leaves the other positions right.                            *)
LEMMA NumberedKept ==
  ASSUME TypeInv, NEW own \in [GroupIds -> Owners], Owned(own),
         NEW pos \in Positions, Numbered(own, pos), NEW o2, NEW p2,
         NEW d, NEW new, NEW U, FrontLeaves(own, pos, o2, p2, d, new, U)
  PROVE  Numbered(o2, p2)'
<1>u. InUse(o2)' = U
  BY DEF InUse, FrontLeaves
<1>0. /\ d \in InUse(own) => IsHead(own, d)
      /\ new \notin live
      /\ U \subseteq (InUse(own) \ {d}) \cup {new}
      /\ new \in U => /\ grp'[new].next = NULL /\ p2[new] \in Int
                      /\ \A h \in U : o2[h] = o2[new] => h = new
      /\ \A g \in U \ {new} : grp'[g].next = grp[g].next /\ p2[g] = pos[g]
      /\ \A g \in U \ {new} : \A h \in InUse(own) \ {d} : own[h] = own[g] => h \in U
      /\ \A g, h \in U \ {new} : o2[h] = o2[g] => own[h] = own[g]
  BY DEF FrontLeaves
<1>1. \A g \in U \ {new} : g \in InUse(own) /\ g # d /\ pos[g] \in Int
  BY <1>0, NextFacts DEF Positions
<1>2. \A g \in InUse(own) : g # new
  BY <1>0, NextFacts
<1> SUFFICES ASSUME NEW g \in U
             PROVE  /\ grp'[g].next # NULL => p2[grp'[g].next] = p2[g] + 1
                    /\ \A h \in U : o2[h] = o2[g] =>
                         /\ p2[h] = p2[g] => h = g
                         /\ grp'[g].next = NULL => p2[h] <= p2[g]
                         /\ IsHead(o2, g)' => p2[g] <= p2[h]
  BY <1>u DEF Numbered
<1>3. CASE g = new
  BY <1>0, <1>3
<1>4. CASE g # new
  <2>1. /\ g \in InUse(own) /\ g # d /\ pos[g] \in Int /\ p2[g] = pos[g]
        /\ grp'[g].next = grp[g].next
    BY <1>0, <1>1, <1>4
  <2>2. ASSUME grp[g].next # NULL PROVE p2[grp[g].next] = p2[g] + 1
    <3>1. grp[g].next \in InUse(own) /\ own[grp[g].next] = own[g]
      BY <2>1, <2>2, NextFacts
    <3>2. pos[grp[g].next] = pos[g] + 1
      BY <2>1, <2>2 DEF Numbered
    <3>3. grp[g].next # d
      BY <1>0, <2>1, <3>1 DEF IsHead
    <3>4. grp[g].next \in U \ {new}
      BY <1>0, <1>2, <1>4, <3>1, <3>3
    <3> QED
      BY <1>0, <2>1, <3>2, <3>4
  <2>3. ASSUME NEW h \in U, o2[h] = o2[g]
        PROVE  /\ p2[h] = p2[g] => h = g
               /\ grp[g].next = NULL => p2[h] <= p2[g]
               /\ IsHead(o2, g)' => p2[g] <= p2[h]
    <3>1. h # new
      BY <1>0, <1>4, <2>3
    <3>2. h \in InUse(own) /\ h # d /\ pos[h] \in Int /\ p2[h] = pos[h] /\ own[h] = own[g]
      BY <1>0, <1>1, <1>4, <2>3, <3>1
    <3>3. /\ pos[h] = pos[g] => h = g
          /\ grp[g].next = NULL => pos[h] <= pos[g]
          /\ IsHead(own, g) => pos[g] <= pos[h]
      BY <2>1, <3>2, NumberedFacts
    <3>4. ASSUME IsHead(o2, g)', ~IsHead(own, g) PROVE pos[g] <= pos[h]
      <4>1. PICK b \in InUse(own) : grp[b].next = g
        BY <2>1, <3>4 DEF IsHead, InUse
      <4>2. g # NULL
        BY <2>1, NextFacts, OwnerFacts
      <4>3. own[b] = own[g] /\ pos[g] = pos[b] + 1
        BY <2>1, <4>1, <4>2, NextFacts DEF Numbered
      <4>4. b = d
        <5> SUFFICES ASSUME b # d PROVE FALSE
          OBVIOUS
        <5>1. b \in U \ {new}
          BY <1>0, <1>2, <1>4, <4>1, <4>3
        <5>2. grp'[b].next = g
          BY <1>0, <4>1, <5>1
        <5> QED
          BY <1>u, <3>4, <5>1, <5>2 DEF IsHead
      <4>5. /\ pos[b] <= pos[h] /\ pos[b] \in Int
            /\ pos[h] = pos[b] => h = b
        BY <1>0, <3>2, <4>1, <4>3, <4>4, NumberedFacts
      <4> QED
        BY <3>2, <4>3, <4>4, <4>5
    <3> QED
      BY <2>1, <3>2, <3>3, <3>4
  <2> QED
    BY <2>1, <2>2, <2>3
<1> QED
  BY <1>3, <1>4

(* A node more in a group changes no pointer.                              *)
LEMMA LaidRoom ==
  ASSUME TypeInv, CountInv, NEW own \in [GroupIds -> Owners], Owned(own),
         NEW pos \in Positions, Laid(own, pos),
         NEW l \in Locations, l % 2 # draining, NEW node \in Nodes,
         ~GroupIsFull(grp[holder[l].cur]), QueueMessage(l, node),
         UNCHANGED <<loop, draining>>
  PROVE  Laid(own, pos)'
<1>0. PICK c : RoomStep(own, l, node, c)
  BY RoomEffect
<1>1. /\ c = holder[l].cur /\ c \in InUse(own) /\ own[c] = l
      /\ c # loop.cur /\ c # loop.nxt
      /\ live' = live /\ holder' = holder
      /\ \A g \in live : /\ grp'[g].next = grp[g].next
                         /\ g # c => grp'[g] = grp[g]
  BY <1>0 DEF RoomStep
<1>2. \A g \in InUse(own) : g \in live
  BY DEF InUse
<1>u. \A g : g \in live' /\ own[g] # Junk <=> g \in InUse(own)
  BY <1>1 DEF InUse
<1>3. Numbered(own, pos)'
  <2>1. NULL \notin live
    BY OwnerFacts DEF TypeInv, HeapTyped
  <2>2. NULL \notin InUse(own)
    BY <1>2, <2>1
  <2>3. FrontLeaves(own, pos, own, pos, NULL, NULL, InUse(own))
    BY <1>1, <1>2, <1>u, <2>1, <2>2 DEF FrontLeaves
  <2>4. PICK U : FrontLeaves(own, pos, own, pos, NULL, NULL, U)
    BY <2>3
  <2> QED
    BY <2>4, NumberedKept DEF Laid
<1>4. QueueEnds'
  <2> SUFFICES ASSUME NEW k \in Locations, k # Left(draining)
               PROVE  grp'[holder[k].cur].next = NULL
    BY <1>1 DEF QueueEnds
  <2> QED
    BY <1>1, <1>2, EndFacts
<1>5. LoopPlace(own)'
  <2>1. ASSUME loop # NotLooping
        PROVE  /\ loop.cur = holder[Left(draining)].start
               /\ grp'[holder[Right(draining)].start] = EmptyGroup
               /\ loop.nxt = NULL => grp'[loop.cur].next = NULL
    <3>1. /\ draining \in Spaces /\ Left(draining) \in Locations /\ Right(draining) \in Locations
          /\ Right(draining) # Left(draining) /\ loop.cur \in InUse(own)
      BY <2>1, LoopCurFacts
    <3>2. holder[Right(draining)].start \in InUse(own)
          /\ own[holder[Right(draining)].start] = Right(draining)
      BY <3>1, StartFacts
    <3>3. Right(draining) # l
      BY <3>1, LocationFacts
    <3>4. grp'[holder[Right(draining)].start] = grp[holder[Right(draining)].start]
      BY <1>1, <1>2, <3>2, <3>3
    <3>5. grp'[loop.cur] = grp[loop.cur]
      BY <1>1, <1>2, <3>1
    <3> QED
      BY <2>1, <3>1, <3>4, <3>5 DEF Laid, LoopPlace
  <2>2. InUse(own)' = InUse(own)
    BY <1>1 DEF InUse
  <2> QED
    BY <1>1, <2>1, <2>2 DEF Laid, LoopPlace
<1> QED
  BY <1>3, <1>4, <1>5 DEF Laid

(* Nor does the begin of a drain, or a line that is made.                  *)
LEMMA LaidUnchanged ==
  ASSUME TypeInv, NEW own \in [GroupIds -> Owners],
         NEW pos \in Positions, Laid(own, pos),
         UNCHANGED <<heapVars, loop>>,
         draining' = draining \/ draining = NoSpace
  PROVE  Laid(own, pos)'
<1>1. grp' = grp /\ live' = live /\ holder' = holder /\ loop' = loop
  BY DEF heapVars
<1>2. InUse(own)' = InUse(own) /\ \A g : IsHead(own, g)' = IsHead(own, g)
  BY <1>1 DEF InUse, IsHead
<1>3. Numbered(own, pos)'
  BY <1>1, <1>2 DEF Laid, Numbered
<1>4. QueueEnds'
  <2>1. draining = NoSpace => Left(draining) \notin Locations
    BY LocationFacts
  <2> QED
    BY <1>1, <2>1 DEF Laid, QueueEnds
<1>5. LoopPlace(own)'
  <2>1. loop # NotLooping => draining' = draining
    BY LoopFacts, LocationFacts DEF Spaces, NoSpace
  <2> QED
    BY <1>1, <1>2, <2>1 DEF Laid, LoopPlace
<1> QED
  BY <1>3, <1>4, <1>5 DEF Laid

(* The right queue becomes a queue of one group, and its groups keep their *)
(* positions as those taken over.                                          *)
LEMMA LaidTakeOver ==
  ASSUME TypeInv, NEW own \in [GroupIds -> Owners], Owned(own),
         NEW pos \in Positions, Laid(own, pos), MergeEntries,
         NEW o2 \in [GroupIds -> Owners],
         o2 = [g \in GroupIds |-> IF g = NewGroup THEN Right(draining)
                                  ELSE IF own[g] = Right(draining) THEN Merged ELSE own[g]],
         NEW p2 \in Positions, p2 = [pos EXCEPT ![NewGroup] = 0]
  PROVE  Laid(o2, p2)'
<1>0. PICK l, r, new, a, b : TakeOverStep(own, o2, l, r, new, a, b)
  BY TakeOverEffect
<1>1. /\ l = Left(draining) /\ r = Right(draining) /\ new = NewGroup
      /\ draining' = draining /\ loop' # NotLooping
      /\ l \in Locations /\ r \in Locations /\ l # r
      /\ new \in GroupIds /\ new \notin live /\ new # NULL
      /\ \A g : g \in live' /\ o2[g] # Junk <=> g \in InUse(own) \cup {new}
      /\ o2[new] = r /\ o2[b] = Merged
      /\ grp'[new] = EmptyGroup
      /\ \A g \in live : /\ g # new /\ grp'[g] = grp[g]
                         /\ o2[g] = IF own[g] = r THEN Merged ELSE own[g]
      /\ holder'[r].start = new /\ holder'[r].cur = new /\ holder'[l].start = a
      /\ \A k \in Locations : k # l /\ k # r => holder'[k] = holder[k]
      /\ loop'.cur = a /\ loop'.nxt = b /\ b # NULL
      /\ loop = NotLooping
  BY <1>0 DEF TakeOverStep
<1>2. /\ \A g \in InUse(own) : g \in live /\ g \in GroupIds
      /\ p2[new] = 0 /\ \A g \in live : p2[g] = pos[g]
      /\ NULL \notin live /\ EmptyGroup.next = NULL
  BY <1>1, OwnerFacts, GroupFacts DEF InUse, Positions, TypeInv, HeapTyped
<1>m. \A g \in InUse(own) : own[g] # Merged
  BY <1>1 DEF Laid, LoopPlace
<1>3. Numbered(o2, p2)'
  <2>1. \A g \in InUse(own) : o2[g] # r
    BY <1>1, <1>2, OwnerFacts
  <2>2. \A g, h \in InUse(own) : o2[h] = o2[g] => own[h] = own[g]
    BY <1>1, <1>2, <1>m
  <2>3. FrontLeaves(own, pos, o2, p2, NULL, new, InUse(own) \cup {new})
    BY <1>1, <1>2, <2>1, <2>2 DEF FrontLeaves
  <2>4. PICK U : FrontLeaves(own, pos, o2, p2, NULL, new, U)
    BY <2>3
  <2> QED
    BY <2>4, NumberedKept DEF Laid
<1>4. QueueEnds'
  <2> SUFFICES ASSUME NEW k \in Locations, k # l
               PROVE  grp'[holder'[k].cur].next = NULL
    BY <1>1 DEF QueueEnds
  <2>1. CASE k = r
    BY <1>1, <1>2, <2>1
  <2>2. CASE k # r
    <3>1. holder[k].cur \in InUse(own) /\ grp[holder[k].cur].next = NULL
      BY <1>1, EndFacts
    <3> QED
      BY <1>1, <1>2, <2>2, <3>1
  <2> QED
    BY <2>1, <2>2
<1>5. LoopPlace(o2)'
  BY <1>1 DEF LoopPlace
<1> QED
  BY <1>3, <1>4, <1>5 DEF Laid

(* mergeGrp: if the left queue goes on behind the group that is merged     *)
(* into, then that is full, and only an empty group fits, which nothing    *)
(* follows: nothing is left of what was taken over.                        *)
LEMMA LeftGoesOn ==
  ASSUME TypeInv, NEW own \in [GroupIds -> Owners], Owned(own),
         NEW pos \in Positions, Laid(own, pos), NEW l, NEW cur, NEW nxt,
         MergeStep(own, l, cur, nxt), grp[cur].next # NULL
  PROVE  /\ grp[nxt].total = 0 /\ grp[nxt].next = NULL
         /\ \A g \in InUse(own) : own[g] = Merged => g = nxt
<1>1. /\ cur \in InUse(own) /\ nxt \in InUse(own)
      /\ own[nxt] = Merged /\ IsHead(own, nxt)
      /\ grp[cur].total + grp[nxt].total <= splitSz
  BY DEF MergeStep
<1>2. grp[cur].total = splitSz /\ splitSz \in Nat /\ splitSz >= 1
  BY <1>1, NextFacts
<1>3. grp[nxt].total \in Nat
  BY <1>1, NextFacts, GroupTypes
<1>4. grp[nxt].total = 0
  BY <1>1, <1>2, <1>3
<1>5. grp[nxt].next = NULL
  BY <1>1, <1>2, <1>4, NextFacts
<1>6. ASSUME NEW g \in InUse(own), own[g] = Merged PROVE g = nxt
  <2>1. /\ pos[nxt] \in Int /\ pos[g] \in Int
        /\ pos[g] = pos[nxt] => g = nxt
        /\ pos[g] <= pos[nxt] /\ pos[nxt] <= pos[g]
    BY <1>1, <1>5, <1>6, NumberedFacts DEF Laid
  <2> QED
    BY <2>1
<1> QED
  BY <1>4, <1>5, <1>6

(* loop.nxt leaves its queue from the front.                               *)
LEMMA LaidMerge ==
  ASSUME TypeInv, CountInv, NEW own \in [GroupIds -> Owners], Owned(own),
         NEW pos \in Positions, Laid(own, pos), MergeGrp
  PROVE  Laid(own, pos)'
<1>0. PICK l, cur, nxt : MergeStep(own, l, cur, nxt)
  BY MergeEffect
<1>1. /\ l = Left(draining) /\ draining \in Spaces /\ draining' = draining
      /\ loop # NotLooping /\ loop' # NotLooping /\ holder' = holder
      /\ nxt # NULL /\ cur # nxt /\ cur = loop.cur /\ nxt = loop.nxt
      /\ cur \in InUse(own) /\ own[cur] = l
      /\ nxt \in InUse(own) /\ own[nxt] = Merged /\ IsHead(own, nxt)
      /\ \A g : g \in live' /\ own[g] # Junk <=> g \in InUse(own) \ {nxt}
      /\ \A g \in live : /\ grp'[g].next = grp[g].next
                         /\ g # cur => grp'[g] = grp[g]
      /\ loop'.cur = cur /\ loop'.nxt = grp[cur].next
  BY <1>0 DEF MergeStep
<1>2. \A g \in InUse(own) : g \in live
  BY DEF InUse
<1>3. Numbered(own, pos)'
  <2>1. NULL \notin live
    BY OwnerFacts DEF TypeInv, HeapTyped
  <2>2. NULL \notin InUse(own)
    BY <1>2, <2>1
  <2>3. FrontLeaves(own, pos, own, pos, nxt, NULL, InUse(own) \ {nxt})
    BY <1>1, <1>2, <2>1, <2>2 DEF FrontLeaves
  <2>4. PICK U : FrontLeaves(own, pos, own, pos, nxt, NULL, U)
    BY <2>3
  <2> QED
    BY <2>4, NumberedKept DEF Laid
<1>4. QueueEnds'
  <2> SUFFICES ASSUME NEW k \in Locations, k # Left(draining)
               PROVE  grp'[holder[k].cur].next = NULL
    BY <1>1 DEF QueueEnds
  <2> QED
    BY <1>1, <1>2, EndFacts
<1>5. LoopPlace(own)'
  <2>1. grp'[holder[Right(draining)].start] = EmptyGroup
    <3>1. Right(draining) \in Locations /\ Right(draining) # l
      BY <1>1, LocationFacts
    <3>2. holder[Right(draining)].start \in InUse(own)
          /\ own[holder[Right(draining)].start] = Right(draining)
      BY <1>1, <3>1, StartFacts
    <3> QED
      BY <1>1, <1>2, <3>1, <3>2 DEF Laid, LoopPlace
  <2>2. loop.cur = holder[l].start
    BY <1>1 DEF Laid, LoopPlace
  <2>3. loop'.nxt = NULL => grp'[loop'.cur].next = NULL
    BY <1>1, <1>2
  <2>4. ASSUME NEW g \in InUse(own) \ {nxt}, own[g] = Merged
        PROVE  loop'.nxt = NULL
    BY <1>0, <1>1, <2>4, LeftGoesOn
  <2>5. InUse(own)' = InUse(own) \ {nxt}
    BY <1>1 DEF InUse
  <2> QED
    BY <1>1, <2>1, <2>2, <2>3, <2>4, <2>5 DEF LoopPlace
<1> QED
  BY <1>3, <1>4, <1>5 DEF Laid

(* loop.cur is freed, and the queue of loop.nxt is now the left one.       *)
LEMMA LaidSplit ==
  ASSUME TypeInv, NEW own \in [GroupIds -> Owners], Owned(own),
         NEW pos \in Positions, Laid(own, pos), SplitOff, Reliable,
         NEW o2 \in [GroupIds -> Owners],
         o2 = [g \in GroupIds |-> IF own[g] = own[loop.nxt] THEN Left(draining)
                                  ELSE IF own[g] = Left(draining) THEN Junk ELSE own[g]]
  PROVE  Laid(o2, pos)'
<1>0. PICK l, cur, nxt : SplitStep(own, o2, l, cur, nxt)
  BY SplitEffect
<1>1. /\ l = Left(draining) /\ cur = loop.cur /\ nxt = loop.nxt
      /\ draining \in Spaces /\ l \in Locations
      /\ loop # NotLooping /\ loop' = NotLooping /\ nxt # NULL
      /\ draining' = draining \/ (~isToBeSplit /\ draining' = NoSpace)
      /\ cur \in InUse(own) /\ own[cur] = l /\ IsHead(own, cur)
      /\ nxt \in InUse(own) /\ own[nxt] \in {l, Merged}
      /\ ~isToBeSplit => holder[l].cur = nxt
      /\ \A g \in live' : o2[g] # Junk => g \in InUse(own) \ {cur}
      /\ \A g \in InUse(own) :
           /\ o2[g] = IF own[g] = own[nxt] THEN l
                      ELSE IF own[g] = l THEN Junk ELSE own[g]
           /\ g # cur /\ o2[g] # Junk => g \in live'
      /\ grp' = grp
      /\ holder'[l].cur = holder[l].cur
      /\ \A k \in Locations : k # l => holder'[k] = holder[k]
  BY <1>0 DEF SplitStep
<1>2. \A g \in InUse(own) : g \in live /\ own[g] # Junk
  BY DEF InUse
<1>3. Numbered(o2, pos)'
  <2>1. NULL \notin live
    BY OwnerFacts DEF TypeInv, HeapTyped
  <2> DEFINE U == {g \in InUse(own) \ {cur} : o2[g] # Junk}
  <2>2. /\ U \subseteq (InUse(own) \ {cur}) \cup {NULL} /\ NULL \notin U
        /\ \A g : g \in live' /\ o2[g] # Junk <=> g \in U
    BY <1>1, <1>2, <2>1
  <2>3. \A g \in U \ {NULL} : \A h \in InUse(own) \ {cur} : own[h] = own[g] => h \in U
    BY <1>1
  <2>4. \A g, h \in U \ {NULL} : o2[h] = o2[g] => own[h] = own[g]
    BY <1>1
  <2>5. \A g \in U \ {NULL} : grp'[g].next = grp[g].next /\ pos[g] = pos[g]
    BY <1>1
  <2> HIDE DEF U
  <2>6. FrontLeaves(own, pos, o2, pos, cur, NULL, U)
    BY <1>1, <2>1, <2>2, <2>3, <2>4, <2>5 DEF FrontLeaves
  <2>7. PICK W : FrontLeaves(own, pos, o2, pos, cur, NULL, W)
    BY <2>6
  <2> QED
    BY <2>7, NumberedKept DEF Laid
<1>4. QueueEnds'
  <2> SUFFICES ASSUME NEW k \in Locations, k # Left(draining')
               PROVE  grp[holder'[k].cur].next = NULL
    BY <1>1 DEF QueueEnds
  <2>1. CASE k = l
    <3>1. ~isToBeSplit /\ holder'[l].cur = nxt
      BY <1>1, <2>1
    <3> QED
      BY <1>1, <2>1, <3>1, NextFacts
  <2>2. CASE k # l
    BY <1>1, <2>2, EndFacts
  <2> QED
    BY <2>1, <2>2
<1>5. LoopPlace(o2)'
  <2>1. loop' = NotLooping
    BY <1>1
  <2>2. \A g \in InUse(o2)' : o2[g] # Merged
    <3> SUFFICES ASSUME NEW g \in InUse(own), o2[g] = Merged PROVE FALSE
      BY <1>1 DEF InUse
    <3>1. own[g] = Merged /\ own[nxt] # Merged
      BY <1>1, OwnerFacts
    <3> QED
      BY <1>1, <3>1 DEF Laid, LoopPlace
  <2> QED
    BY <2>1, <2>2 DEF LoopPlace
<1> QED
  BY <1>3, <1>4, <1>5 DEF Laid

(* The left queue starts again with a group of its own.                    *)
LEMMA LaidLast ==
  ASSUME TypeInv, NEW own \in [GroupIds -> Owners], Owned(own),
         NEW pos \in Positions, Laid(own, pos), LastBatch,
         NEW o2 \in [GroupIds -> Owners],
         o2 = [g \in GroupIds |-> IF g = NewGroup THEN Left(draining)
                                  ELSE IF own[g] \in {Left(draining), Merged} THEN Junk
                                  ELSE own[g]],
         NEW p2 \in Positions, p2 = [pos EXCEPT ![NewGroup] = 0]
  PROVE  Laid(o2, p2)'
<1>0. PICK l, cur, new : LastStep(own, o2, l, cur, new)
  BY LastEffect
<1>1. /\ l = Left(draining) /\ cur = loop.cur /\ new = NewGroup
      /\ draining \in Spaces /\ l \in Locations /\ draining' = NoSpace
      /\ loop' = NotLooping
      /\ new \in GroupIds /\ new \notin live /\ new # NULL
      /\ cur \in InUse(own) /\ own[cur] = l /\ IsHead(own, cur)
      /\ \A g \in live' : o2[g] # Junk => g \in (InUse(own) \ {cur}) \cup {new}
      /\ new \in live' /\ o2[new] = l
      /\ \A g \in InUse(own) :
           /\ g # new /\ grp'[g] = grp[g]
           /\ o2[g] = IF own[g] \in {l, Merged} THEN Junk ELSE own[g]
           /\ g # cur /\ o2[g] # Junk => g \in live'
      /\ grp'[new] = EmptyGroup
      /\ holder'[l].cur = new
      /\ \A k \in Locations : k # l => holder'[k] = holder[k]
  BY <1>0 DEF LastStep
<1>2. /\ \A g \in InUse(own) : g \in live /\ g \in GroupIds /\ own[g] # Junk
      /\ p2[new] = 0 /\ \A g \in live : p2[g] = pos[g]
      /\ l # Junk /\ Merged # Junk /\ l # Merged /\ EmptyGroup.next = NULL
  BY <1>1, OwnerFacts, GroupFacts DEF InUse, Positions, TypeInv, HeapTyped
<1>3. Numbered(o2, p2)'
  <2> DEFINE V == {g \in InUse(own) \ {cur} : own[g] \notin {l, Merged}}
             U == V \cup {new}
  <2>1. \A g \in V : o2[g] = own[g] /\ o2[g] # l
    BY <1>1
  <2>2. /\ U \subseteq (InUse(own) \ {cur}) \cup {new}
        /\ \A g : g \in live' /\ o2[g] # Junk <=> g \in U
    BY <1>1, <1>2
  <2>3. /\ \A h \in U : o2[h] = o2[new] => h = new
        /\ \A g \in U \ {new} : \A h \in InUse(own) \ {cur} : own[h] = own[g] => h \in U
        /\ \A g, h \in U \ {new} : o2[h] = o2[g] => own[h] = own[g]
    BY <1>1, <2>1
  <2>4. \A g \in U \ {new} : grp'[g].next = grp[g].next /\ p2[g] = pos[g]
    BY <1>1, <1>2
  <2> HIDE DEF U
  <2>6. FrontLeaves(own, pos, o2, p2, cur, new, U)
    BY <1>1, <1>2, <2>2, <2>3, <2>4 DEF FrontLeaves
  <2>7. PICK W : FrontLeaves(own, pos, o2, p2, cur, new, W)
    BY <2>6
  <2> QED
    BY <2>7, NumberedKept DEF Laid
<1>4. QueueEnds'
  <2> SUFFICES ASSUME NEW k \in Locations
               PROVE  grp'[holder'[k].cur].next = NULL
    BY DEF QueueEnds
  <2>1. CASE k = l
    BY <1>1, <1>2, <2>1
  <2>2. CASE k # l
    <3>1. holder[k].cur \in InUse(own) /\ grp[holder[k].cur].next = NULL
      BY <1>1, <2>2, EndFacts
    <3> QED
      BY <1>1, <2>2, <3>1
  <2> QED
    BY <2>1, <2>2
<1>5. LoopPlace(o2)'
  <2>1. \A g \in InUse(o2)' : o2[g] # Merged
    BY <1>1, <1>2 DEF InUse
  <2> QED
    BY <1>1, <2>1 DEF LoopPlace
<1> QED
  BY <1>3, <1>4, <1>5 DEF Laid

-----------------------------------------------------------------------------
(* From the head of a queue, the pointers lead to all of its groups, and   *)
(* to no other.                                                            *)
QueueOf(own, k) == {g \in InUse(own) : own[g] = k}

(* ListFrom one group at a time.                                           *)
LEMMA ListSteps ==
  ASSUME TypeInv
  PROVE  /\ MaxGroups \in Nat
         /\ \A n \in Nat, g \in Pointers : n < MaxGroups =>
              ListFrom[n + 1][g] = IF g = NULL THEN {} ELSE {g} \cup ListFrom[n][grp[g].next]
         /\ \A g \in Pointers : ListFrom[0][g] = {}
<1>1. MaxGroups \in Nat
  BY StoreAssumption
<1>2. \A n \in 0..MaxGroups : \A g \in Pointers : ListFrom[n][g] = ListBody(ListFrom, n, g)
  BY ListEquation, GroupTypes DEF Pointers
<1>3. ASSUME NEW n \in Nat, NEW g \in Pointers, n < MaxGroups
      PROVE  ListFrom[n + 1][g] = IF g = NULL THEN {} ELSE {g} \cup ListFrom[n][grp[g].next]
  <2>1. n + 1 \in 0..MaxGroups /\ n + 1 # 0 /\ n + 1 - 1 = n
    BY <1>1, <1>3
  <2>2. ListFrom[n + 1][g] = ListBody(ListFrom, n + 1, g)
    BY <1>2, <2>1
  <2> QED
    BY <2>1, <2>2 DEF ListBody
<1>4. ASSUME NEW g \in Pointers PROVE ListFrom[0][g] = {}
  <2>1. 0 \in 0..MaxGroups
    BY <1>1
  <2>2. ListFrom[0][g] = ListBody(ListFrom, 0, g)
    BY <1>2, <2>1
  <2> QED
    BY <2>2 DEF ListBody
<1> QED
  BY <1>1, <1>3, <1>4

(* The pointers never lead out of a queue ...                              *)
LEMMA ReachesOwn ==
  ASSUME TypeInv, NEW own \in [GroupIds -> Owners], Owned(own), NEW k
  PROVE  \A n \in Nat : n <= MaxGroups =>
           \A g \in QueueOf(own, k) \cup {NULL} : ListFrom[n][g] \subseteq QueueOf(own, k)
<1> DEFINE Q == QueueOf(own, k)
           S == {n \in Nat : n <= MaxGroups => \A g \in Q \cup {NULL} : ListFrom[n][g] \subseteq Q}
<1>1. Q \cup {NULL} \subseteq Pointers
  BY NextFacts DEF Pointers, QueueOf
<1>2. \A g \in Q : grp[g].next \in Q \cup {NULL}
  BY NextFacts DEF QueueOf
<1>3. \A g \in Q : g # NULL
  BY NextFacts, OwnerFacts DEF QueueOf
<1> HIDE DEF Q
<1>4. 0 \in S
  BY <1>1, ListSteps
<1>5. ASSUME NEW n \in Nat, n \in S PROVE n + 1 \in S
  <2> SUFFICES ASSUME n + 1 <= MaxGroups, NEW g \in Q \cup {NULL}
               PROVE  ListFrom[n + 1][g] \subseteq Q
    OBVIOUS
  <2>1. n < MaxGroups /\ n <= MaxGroups
    BY ListSteps
  <2>2. ListFrom[n + 1][g] = IF g = NULL THEN {} ELSE {g} \cup ListFrom[n][grp[g].next]
    BY <1>1, <2>1, ListSteps
  <2>3. g # NULL => ListFrom[n][grp[g].next] \subseteq Q
    BY <1>2, <1>5, <2>1
  <2> QED
    BY <2>2, <2>3
<1>6. \A n \in Nat : n \in S
  <2> HIDE DEF S
  <2> QED
    BY <1>4, <1>5, NatSetInduction
<1> QED
  BY <1>6 DEF Q

(* ... and reach what lies less than n positions behind in n steps.        *)
LEMMA ReachesNext ==
  ASSUME TypeInv, NEW own \in [GroupIds -> Owners], Owned(own),
         NEW pos \in Positions, Numbered(own, pos), NEW k
  PROVE  \A n \in Nat : n <= MaxGroups =>
           \A a, b \in QueueOf(own, k) :
             pos[a] <= pos[b] /\ pos[b] < pos[a] + n => b \in ListFrom[n][a]
<1> DEFINE Q == QueueOf(own, k)
           Near(n) == \A a, b \in Q : pos[a] <= pos[b] /\ pos[b] < pos[a] + n => b \in ListFrom[n][a]
           S == {n \in Nat : n <= MaxGroups => Near(n)}
<1>1. \A g \in Q : g \in Pointers /\ pos[g] \in Int /\ g # NULL
  BY NextFacts, OwnerFacts DEF Pointers, QueueOf, Positions
<1>2. \A g \in Q : grp[g].next # NULL => grp[g].next \in Q /\ pos[grp[g].next] = pos[g] + 1
  BY NextFacts DEF QueueOf, Numbered
<1>3. \A g, h \in Q : /\ pos[h] = pos[g] => h = g
                      /\ grp[g].next = NULL => pos[h] <= pos[g]
  BY NumberedFacts DEF QueueOf
<1> HIDE DEF Q
<1>4. 0 \in S
  BY <1>1
<1>5. ASSUME NEW n \in Nat, n \in S PROVE n + 1 \in S
  <2> SUFFICES ASSUME n + 1 <= MaxGroups, NEW a \in Q, NEW b \in Q,
                      pos[a] <= pos[b], pos[b] < pos[a] + (n + 1)
               PROVE  b \in ListFrom[n + 1][a]
    OBVIOUS
  <2>1. n < MaxGroups /\ n <= MaxGroups
    BY ListSteps
  <2>2. ListFrom[n + 1][a] = {a} \cup ListFrom[n][grp[a].next]
    BY <1>1, <2>1, ListSteps
  <2>3. CASE pos[a] = pos[b]
    BY <1>3, <2>2, <2>3
  <2>4. CASE pos[a] # pos[b]
    <3>1. grp[a].next \in Q /\ pos[grp[a].next] = pos[a] + 1
      BY <1>1, <1>2, <1>3, <2>4
    <3>2. pos[grp[a].next] <= pos[b] /\ pos[b] < pos[grp[a].next] + n
      BY <1>1, <2>4, <3>1
    <3>3. Near(n)
      BY <1>5, <2>1
    <3> QED
      BY <2>2, <3>1, <3>2, <3>3
  <2> QED
    BY <2>3, <2>4
<1>6. \A n \in Nat : n \in S
  <2> HIDE DEF S
  <2> QED
    BY <1>4, <1>5, NatSetInduction
<1> QED
  BY <1>6 DEF Q

(* There are no more positions between two groups than groups.             *)
LEMMA PositionsFilled ==
  ASSUME TypeInv, NEW own \in [GroupIds -> Owners], Owned(own),
         NEW pos \in Positions, Numbered(own, pos), NEW k,
         NEW a \in QueueOf(own, k), NEW b \in QueueOf(own, k), pos[a] <= pos[b]
  PROVE  pos[b] < pos[a] + MaxGroups
<1> DEFINE Q == QueueOf(own, k)
           S == {n \in Nat : pos[a] + n <= pos[b] => \E g \in Q : pos[g] = pos[a] + n}
<1>1. Q \subseteq GroupIds /\ \A g \in Q : pos[g] \in Int
  BY NextFacts DEF QueueOf, Positions
<1>2. \A g \in Q : grp[g].next # NULL => grp[g].next \in Q /\ pos[grp[g].next] = pos[g] + 1
  BY NextFacts DEF QueueOf, Numbered
<1>3. \A g \in Q : grp[g].next = NULL => pos[b] <= pos[g]
  BY NumberedFacts DEF QueueOf
<1>a. a \in Q /\ b \in Q
  OBVIOUS
<1> HIDE DEF Q
<1>4. 0 \in S
  BY <1>1, <1>a
<1>5. ASSUME NEW n \in Nat, n \in S PROVE n + 1 \in S
  <2> SUFFICES ASSUME pos[a] + (n + 1) <= pos[b]
               PROVE  \E g \in Q : pos[g] = pos[a] + (n + 1)
    OBVIOUS
  <2>1. PICK g \in Q : pos[g] = pos[a] + n
    BY <1>1, <1>5, <1>a
  <2>2. grp[g].next # NULL
    BY <1>1, <1>3, <1>a, <2>1
  <2> QED
    BY <1>1, <1>2, <1>a, <2>1, <2>2
<1>6. \A n \in Nat : n \in S
  <2> HIDE DEF S
  <2> QED
    BY <1>4, <1>5, NatSetInduction
<1> SUFFICES ASSUME pos[a] + MaxGroups <= pos[b] PROVE FALSE
  BY <1>1, <1>a, ListSteps
<1> DEFINE I == 0..MaxGroups
           f == [i \in I |-> CHOOSE g \in Q : pos[g] = pos[a] + i]
<1>7. \A i \in I : f[i] \in Q /\ pos[f[i]] = pos[a] + i
  <2> SUFFICES ASSUME NEW i \in I PROVE f[i] \in Q /\ pos[f[i]] = pos[a] + i
    OBVIOUS
  <2>1. i \in Nat /\ pos[a] + i <= pos[b]
    BY <1>1, <1>a, ListSteps
  <2>2. \E g \in Q : pos[g] = pos[a] + i
    BY <1>6, <2>1
  <2> QED
    BY <2>2
<1>8. f \in [I -> GroupIds]
  BY <1>1, <1>7
<1>9. /\ IsFiniteSet(I) /\ Cardinality(I) = MaxGroups + 1
      /\ IsFiniteSet(GroupIds) /\ Cardinality(GroupIds) = MaxGroups
  BY FS_Interval, StoreAssumption DEF GroupIds
<1> HIDE DEF f, I
<1>10. Cardinality(GroupIds) < Cardinality(I)
  BY <1>9, StoreAssumption
<1>11. \E x, y \in I : x # y /\ f[x] = f[y]
  BY <1>8, <1>9, <1>10, FS_PigeonHole
<1> QED
  BY <1>1, <1>7, <1>11, <1>a DEF I

(* A queue has at most MaxGroups groups, so its positions are fewer than   *)
(* the steps ListFrom takes: from the head they reach all of it.           *)
LEMMA Reaches ==
  ASSUME TypeInv, NEW own \in [GroupIds -> Owners], Owned(own),
         NEW pos \in Positions, Numbered(own, pos),
         NEW a \in InUse(own), IsHead(own, a)
  PROVE  ListFrom[MaxGroups][a] = QueueOf(own, own[a])
<1> DEFINE Q == QueueOf(own, own[a])
<1>1. a \in Q /\ MaxGroups \in Nat
  BY ListSteps DEF QueueOf
<1>2. ListFrom[MaxGroups][a] \subseteq Q
  BY <1>1, ReachesOwn
<1>3. ASSUME NEW b \in Q PROVE b \in ListFrom[MaxGroups][a]
  <2>1. pos[a] <= pos[b]
    BY NumberedFacts DEF QueueOf
  <2>2. pos[b] < pos[a] + MaxGroups
    BY <1>1, <2>1, PositionsFilled
  <2> QED
    BY <1>1, <2>1, <2>2, ReachesNext
<1> QED
  BY <1>2, <1>3

(* What the code finds along the pointers is what the owners say.          *)
LEMMA QueueIs ==
  ASSUME TypeInv, NEW own \in [GroupIds -> Owners], Owned(own),
         NEW pos \in Positions, Laid(own, pos),
         NEW l \in Locations, l # Left(draining) \/ loop = NotLooping
  PROVE  GroupsOf(l) = QueueOf(own, l)
<1>1. /\ holder[l].start \in InUse(own) /\ own[holder[l].start] = l
      /\ IsHead(own, holder[l].start)
  BY StartFacts
<1> QED
  BY <1>1, Reaches DEF GroupsOf, Laid

(* Hence the lists are well formed.                                        *)
LEMMA LaidIsWellFormed ==
  ASSUME TypeInv, NEW own \in [GroupIds -> Owners], Owned(own),
         NEW pos \in Positions, Laid(own, pos)
  PROVE  ListsWellFormed
<1>1. ASSUME NEW l \in Locations, l % 2 # draining
      PROVE  /\ l # Left(draining) /\ GroupsOf(l) = QueueOf(own, l)
             /\ holder[l].cur \in QueueOf(own, l) /\ grp[holder[l].cur].next = NULL
  <2>1. l # Left(draining)
    BY <1>1, QueueEnd
  <2> QED
    BY <2>1, QueueIs, EndFacts DEF QueueOf
<1>2. \A l \in Locations : QueueOf(own, l) \subseteq live
  BY DEF QueueOf, InUse
<1>3. \A l, k \in Locations : l # k => QueueOf(own, l) \cap QueueOf(own, k) = {}
  BY DEF QueueOf
<1>4. loop # NotLooping => {loop.cur, loop.nxt} \subseteq live \cup {NULL}
  BY LoopCurFacts DEF InUse
<1>5. ASSUME NEW l \in Locations, NEW k \in Locations,
             {l % 2, k % 2} \cap {draining} = {}, l # k
      PROVE  GroupsOf(l) \cap GroupsOf(k) = {}
  <2>1. l % 2 # draining /\ k % 2 # draining
    BY <1>5
  <2> QED
    BY <1>1, <1>3, <1>5, <2>1
<1> QED
  BY <1>1, <1>2, <1>4, <1>5 DEF ListsWellFormed

-----------------------------------------------------------------------------
(* The order: x is in front of y, unless they were stored at different     *)
(* locations.  What happens at one location is in the order of arrival.    *)
InFront(arr, x, y) ==
  \A l \in Locations : {x, y} \subseteq ToSet(arr[l]) =>
    \E i, j \in DOMAIN arr[l] : i < j /\ arr[l][i] = x /\ arr[l][j] = y

Earlier(arr, A, B) == \A x \in A, y \in B : InFront(arr, x, y)

Sorted(arr, q) == \A i, j \in DOMAIN q : i < j => InFront(arr, q[i], q[j])

(* The indices of a sequence, and its elements.                            *)
LEMMA SequenceFacts ==
  ASSUME NEW N, NEW s \in Seq(N)
  PROVE  DOMAIN s = 1..Len(s) /\ Len(s) \in Nat /\ \A i \in DOMAIN s : s[i] \in ToSet(s)
  BY DEF ToSet

(* The elements of a concatenation.                                        *)
LEMMA SetOfConcat ==
  ASSUME NEW N, NEW s \in Seq(N), NEW t \in Seq(N)
  PROVE  ToSet(s \o t) = ToSet(s) \cup ToSet(t)
<1> DEFINE u == s \o t
<1>1. /\ DOMAIN s = 1..Len(s) /\ Len(s) \in Nat
      /\ DOMAIN t = 1..Len(t) /\ Len(t) \in Nat
      /\ DOMAIN u = 1..(Len(s) + Len(t))
  OBVIOUS
<1>2. \A i \in 1..(Len(s) + Len(t)) : u[i] = IF i <= Len(s) THEN s[i] ELSE t[i - Len(s)]
  OBVIOUS
<1> HIDE DEF u
<1>3. ASSUME NEW y PROVE y \in ToSet(u) <=> y \in ToSet(s) \cup ToSet(t)
  <2>1. y \in ToSet(u) <=> \E i \in 1..(Len(s) + Len(t)) : y = u[i]
    BY <1>1 DEF ToSet
  <2>2. y \in ToSet(s) <=> \E i \in 1..Len(s) : y = s[i]
    BY <1>1 DEF ToSet
  <2>3. y \in ToSet(t) <=> \E i \in 1..Len(t) : y = t[i]
    BY <1>1 DEF ToSet
  <2>4. \A i \in 1..Len(s) : i \in 1..(Len(s) + Len(t)) /\ u[i] = s[i]
    BY <1>1, <1>2
  <2>5. \A i \in 1..Len(t) : i + Len(s) \in 1..(Len(s) + Len(t)) /\ u[i + Len(s)] = t[i]
    BY <1>1, <1>2
  <2>6. \A i \in 1..(Len(s) + Len(t)) :
          \/ i \in 1..Len(s) /\ u[i] = s[i]
          \/ i - Len(s) \in 1..Len(t) /\ u[i] = t[i - Len(s)]
    BY <1>1, <1>2
  <2> QED
    BY <2>1, <2>2, <2>3, <2>4, <2>5, <2>6
<1>4. ToSet(u) = ToSet(s) \cup ToSet(t)
  BY <1>3
<1> QED
  BY <1>4 DEF u

(* A sorted sequence stays sorted when a later element is appended ...     *)
LEMMA SortedAppend ==
  ASSUME NEW N, NEW s \in Seq(N), NEW x \in N, NEW arr,
         Sorted(arr, s), Earlier(arr, ToSet(s), {x})
  PROVE  Sorted(arr, Append(s, x))
<1>1. /\ DOMAIN s = 1..Len(s) /\ Len(s) \in Nat
      /\ DOMAIN Append(s, x) = 1..(Len(s) + 1)
  OBVIOUS
<1>2. \A i \in 1..(Len(s) + 1) : Append(s, x)[i] = IF i <= Len(s) THEN s[i] ELSE x
  OBVIOUS
<1>3. \A i \in 1..Len(s) : s[i] \in ToSet(s)
  BY <1>1 DEF ToSet
<1> SUFFICES ASSUME NEW i \in 1..(Len(s) + 1), NEW j \in 1..(Len(s) + 1), i < j
             PROVE  InFront(arr, Append(s, x)[i], Append(s, x)[j])
  BY <1>1 DEF Sorted
<1>4. i \in 1..Len(s) /\ Append(s, x)[i] = s[i]
  BY <1>1, <1>2
<1>5. CASE j <= Len(s)
  <2>1. j \in 1..Len(s) /\ Append(s, x)[j] = s[j]
    BY <1>1, <1>2, <1>5
  <2> QED
    BY <1>1, <1>4, <2>1 DEF Sorted
<1>6. CASE ~(j <= Len(s))
  <2>1. Append(s, x)[j] = x
    BY <1>2, <1>6
  <2> QED
    BY <1>3, <1>4, <2>1 DEF Earlier
<1> QED
  BY <1>5, <1>6

(* ... or a sorted sequence of later elements.                             *)
LEMMA SortedConcat ==
  ASSUME NEW N, NEW s \in Seq(N), NEW t \in Seq(N), NEW arr,
         Sorted(arr, s), Sorted(arr, t), Earlier(arr, ToSet(s), ToSet(t))
  PROVE  Sorted(arr, s \o t)
<1> DEFINE u == s \o t
<1>1. /\ DOMAIN s = 1..Len(s) /\ Len(s) \in Nat
      /\ DOMAIN t = 1..Len(t) /\ Len(t) \in Nat
      /\ DOMAIN u = 1..(Len(s) + Len(t))
  OBVIOUS
<1>2. \A i \in 1..(Len(s) + Len(t)) : u[i] = IF i <= Len(s) THEN s[i] ELSE t[i - Len(s)]
  OBVIOUS
<1>3. /\ \A i \in 1..Len(s) : s[i] \in ToSet(s)
      /\ \A i \in 1..Len(t) : t[i] \in ToSet(t)
  BY <1>1 DEF ToSet
<1> HIDE DEF u
<1>4. ASSUME NEW i \in DOMAIN u, NEW j \in DOMAIN u, i < j
      PROVE  InFront(arr, u[i], u[j])
  <2>1. CASE i <= Len(s) /\ j <= Len(s)
    <3>1. i \in 1..Len(s) /\ j \in 1..Len(s) /\ u[i] = s[i] /\ u[j] = s[j]
      BY <1>1, <1>2, <2>1
    <3> QED
      BY <1>1, <1>4, <3>1 DEF Sorted
  <2>2. CASE i <= Len(s) /\ ~(j <= Len(s))
    <3>1. i \in 1..Len(s) /\ u[i] = s[i]
      BY <1>1, <1>2, <2>2
    <3>2. j - Len(s) \in 1..Len(t) /\ u[j] = t[j - Len(s)]
      BY <1>1, <1>2, <2>2
    <3> QED
      BY <1>3, <3>1, <3>2 DEF Earlier
  <2>3. CASE ~(i <= Len(s))
    <3>1. i - Len(s) \in 1..Len(t) /\ u[i] = t[i - Len(s)]
      BY <1>1, <1>2, <2>3
    <3>2. j - Len(s) \in 1..Len(t) /\ u[j] = t[j - Len(s)]
      BY <1>1, <1>2, <1>4, <2>3
    <3>3. i - Len(s) < j - Len(s)
      BY <1>1, <1>4
    <3> QED
      BY <1>1, <3>1, <3>2, <3>3 DEF Sorted
  <2> QED
    BY <2>1, <2>2, <2>3
<1> QED
  BY <1>4 DEF Sorted, u

(* What arrives comes behind what is there.                                *)
Grown(arr, a2, l, node) ==
  /\ \A k \in Locations : k # l => a2[k] = arr[k]
  /\ ToSet(a2[l]) = ToSet(arr[l]) \cup {node}
  /\ \A x : x # node => InFront(a2, x, node)
  /\ \A x, y : x # node /\ y # node /\ InFront(arr, x, y) => InFront(a2, x, y)

(* A node that arrives changes nothing about the order of those before it, *)
(* and comes after all of them at its location.                            *)
LEMMA InFrontGrows ==
  ASSUME NEW arr \in [Locations -> Seq(Nodes)], NEW l \in Locations, NEW node \in Nodes,
         \A k \in Locations : node \notin ToSet(arr[k]),
         NEW a2, a2 = [arr EXCEPT ![l] = Append(arr[l], node)]
  PROVE  Grown(arr, a2, l, node)
<1> DEFINE s == arr[l]
           t == Append(s, node)
<1>1. s \in Seq(Nodes)
  OBVIOUS
<1>2. /\ \A k \in Locations : k # l => a2[k] = arr[k]
      /\ a2[l] = t
  OBVIOUS
<1>3. ToSet(t) = ToSet(s) \cup {node}
  BY <1>1, SetOfAppend
<1>4. /\ DOMAIN s = 1..Len(s) /\ Len(s) \in Nat
      /\ DOMAIN t = 1..(Len(s) + 1)
      /\ \A i \in 1..Len(s) : t[i] = s[i] /\ i \in DOMAIN t
      /\ t[Len(s) + 1] = node /\ Len(s) + 1 \in DOMAIN t
  BY <1>1
<1>5. \A k \in Locations : node \notin ToSet(arr[k])
  OBVIOUS
<1>s. s = arr[l]
  OBVIOUS
<1> HIDE DEF s, t
<1>6. ASSUME NEW x, x # node PROVE InFront(a2, x, node)
  <2> SUFFICES ASSUME NEW k \in Locations, {x, node} \subseteq ToSet(a2[k])
               PROVE  \E i, j \in DOMAIN a2[k] : i < j /\ a2[k][i] = x /\ a2[k][j] = node
    BY DEF InFront
  <2>1. k = l
    BY <1>2, <1>5
  <2>2. x \in ToSet(s)
    BY <1>2, <1>3, <1>6, <2>1
  <2>3. PICK i \in 1..Len(s) : s[i] = x
    BY <1>4, <2>2 DEF ToSet
  <2>4. i \in DOMAIN t /\ Len(s) + 1 \in DOMAIN t /\ i < Len(s) + 1 /\ t[i] = x
    BY <1>4, <2>3
  <2> QED
    BY <1>2, <1>4, <2>1, <2>4
<1>7. ASSUME NEW x, NEW y, x # node, y # node, InFront(arr, x, y) PROVE InFront(a2, x, y)
  <2> SUFFICES ASSUME NEW k \in Locations, {x, y} \subseteq ToSet(a2[k])
               PROVE  \E i, j \in DOMAIN a2[k] : i < j /\ a2[k][i] = x /\ a2[k][j] = y
    BY DEF InFront
  <2>1. CASE k # l
    BY <1>2, <1>7, <2>1 DEF InFront
  <2>2. CASE k = l
    <3>1. {x, y} \subseteq ToSet(s)
      BY <1>2, <1>3, <1>7, <2>2
    <3>2. PICK i, j \in DOMAIN s : i < j /\ s[i] = x /\ s[j] = y
      BY <1>7, <1>s, <2>2, <3>1 DEF InFront
    <3>3. i \in DOMAIN t /\ j \in DOMAIN t /\ t[i] = x /\ t[j] = y
      BY <1>4, <3>2
    <3> QED
      BY <1>2, <2>2, <3>2, <3>3
  <2> QED
    BY <2>1, <2>2
<1> QED
  BY <1>2, <1>3, <1>6, <1>7, <1>s DEF Grown

-----------------------------------------------------------------------------
(* Which groups of the heap come before which: those of a queue by their   *)
(* positions, and mergeEntries puts the right queue behind the left one.   *)
Ahead(d, own, pos, g, h) ==
  \/ own[g] = own[h] /\ pos[g] < pos[h]
  \/ \E s \in Spaces : own[g] = Left(s) /\ own[h] = Right(s)
  \/ own[g] = Left(d) /\ own[h] = Merged
  \/ own[g] = Merged /\ own[h] = Right(d)

(* Where the nodes of a queue were stored: some of a left queue were       *)
(* merged or taken over from the right one.                                *)
Sources(d, k) == IF k = Merged THEN {Right(d)} ELSE {k, Right(k % 2)}

Arrivals ==
  /\ \A l \in Locations : IsInjective(arrived[l])
  /\ \A l, k \in Locations : l # k => ToSet(arrived[l]) \cap ToSet(arrived[k]) = {}

InOrder(own, pos) ==
  /\ Sorted(arrived, sent) /\ ToSet(sent) \subseteq Stored
  /\ \A g \in InUse(own) :
       /\ Sorted(arrived, grp[g].msgs)
       /\ \A x \in ToSet(grp[g].msgs) :
            \E l \in Sources(draining, own[g]) : x \in ToSet(arrived[l])
       /\ Earlier(arrived, ToSet(sent), ToSet(grp[g].msgs))
       /\ \A h \in InUse(own) : Ahead(draining, own, pos, g, h) =>
            Earlier(arrived, ToSet(grp[g].msgs), ToSet(grp[h].msgs))

(* A queue holds nodes of its own location and, after a merge, of the      *)
(* right one of its space.                                                 *)
LEMMA SourceFacts ==
  /\ \A d, k : k \in Locations =>
       /\ k \in Sources(d, k) /\ Sources(d, k) = {k, Right(k % 2)}
       /\ Sources(d, k) \subseteq Locations
       /\ \A l \in Sources(d, k) : l % 2 = k % 2
  /\ \A d \in Spaces : Sources(d, Merged) = {Right(d)} /\ Right(d) \in Locations
<1>1. ASSUME NEW k \in Locations
      PROVE  k # Merged /\ Right(k % 2) \in Locations /\ Right(k % 2) % 2 = k % 2
  BY LocationFacts, SpaceOf, OwnerFacts
<1>2. \A d \in Spaces : Right(d) \in Locations
  BY LocationFacts
<1> QED
  BY <1>1, <1>2 DEF Sources

(* Nodes from different locations are in any order.                        *)
LEMMA Apart ==
  ASSUME Arrivals, NEW L, NEW K, L \subseteq Locations, K \subseteq Locations, L \cap K = {},
         NEW A, \A x \in A : \E l \in L : x \in ToSet(arrived[l]),
         NEW B, \A x \in B : \E k \in K : x \in ToSet(arrived[k])
  PROVE  Earlier(arrived, A, B)
<1> SUFFICES ASSUME NEW x \in A, NEW y \in B, NEW m \in Locations,
                    x \in ToSet(arrived[m]), y \in ToSet(arrived[m])
             PROVE  FALSE
  BY DEF Earlier, InFront
<1>1. PICK l \in L : x \in ToSet(arrived[l])
  OBVIOUS
<1>2. PICK k \in K : y \in ToSet(arrived[k])
  OBVIOUS
<1>3. l = m
  BY <1>1 DEF Arrivals
<1>4. k = m
  BY <1>2 DEF Arrivals
<1> QED
  BY <1>3, <1>4

(* No node is stored twice, as long as only new ones are.                  *)
LEMMA ArrivalsGrow ==
  ASSUME TypeInv, Arrivals, NEW l \in Locations, NEW node \in Nodes,
         node \notin Stored, QueueMessage(l, node)
  PROVE  /\ Arrivals'
         /\ arrived' = [arrived EXCEPT ![l] = Append(arrived[l], node)]
         /\ \A k \in Locations : node \notin ToSet(arrived[k])
         /\ arrived \in [Locations -> Seq(Nodes)]
<1>1. /\ arrived \in [Locations -> Seq(Nodes)]
      /\ arrived' = [arrived EXCEPT ![l] = Append(arrived[l], node)]
  BY DEF TypeInv, MessagesTyped, QueueMessage
<1>2. \A k \in Locations : node \notin ToSet(arrived[k])
  BY DEF Stored
<1>3. /\ \A k \in Locations : k # l => arrived'[k] = arrived[k]
      /\ arrived'[l] = Append(arrived[l], node)
      /\ ToSet(arrived'[l]) = ToSet(arrived[l]) \cup {node}
  BY <1>1, SetOfAppend
<1>4. IsInjective(arrived'[l])
  BY <1>1, <1>2, <1>3, InjectiveAppend DEF Arrivals
<1>5. \A k \in Locations : IsInjective(arrived'[k])
  BY <1>3, <1>4 DEF Arrivals
<1>6. ASSUME NEW k \in Locations, NEW m \in Locations, k # m
      PROVE  ToSet(arrived'[k]) \cap ToSet(arrived'[m]) = {}
  <2>1. ToSet(arrived[k]) \cap ToSet(arrived[m]) = {}
    BY <1>6 DEF Arrivals
  <2>2. node \notin ToSet(arrived[k]) /\ node \notin ToSet(arrived[m])
    BY <1>2
  <2>3. CASE k = l
    <3>1. ToSet(arrived'[k]) = ToSet(arrived[k]) \cup {node} /\ arrived'[m] = arrived[m]
      BY <1>3, <1>6, <2>3
    <3> QED
      BY <2>1, <2>2, <3>1
  <2>4. CASE k # l
    <3>1. /\ arrived'[k] = arrived[k]
          /\ ToSet(arrived'[m]) = ToSet(arrived[m]) \/ ToSet(arrived'[m]) = ToSet(arrived[m]) \cup {node}
      BY <1>3, <2>4
    <3> QED
      BY <2>1, <2>2, <3>1
  <2> QED
    BY <2>3, <2>4
<1> QED
  BY <1>1, <1>2, <1>5, <1>6 DEF Arrivals

(* Steps that store nothing: groups leave, empty ones are added, and a     *)
(* batch may be sent.                                                      *)
OrderStep(own, pos, o2, p2, new, U) ==
  /\ \A g : g \in live' /\ o2[g] # Junk <=> g \in U
  /\ U \subseteq InUse(own) \cup {new} /\ new \notin InUse(own)
  /\ new \in U => grp'[new].msgs = <<>>
  /\ \A g \in U \ {new} : /\ grp'[g].msgs = grp[g].msgs
                          /\ Sources(draining, own[g]) \subseteq Sources(draining', o2[g])
  /\ \A g, h \in U \ {new} :
       Ahead(draining', o2, p2, g, h) => Ahead(draining, own, pos, g, h)
  /\ Sorted(arrived, sent') /\ ToSet(sent') \subseteq Stored
  /\ \A g \in U \ {new} : Earlier(arrived, ToSet(sent'), ToSet(grp[g].msgs))

(* The order is kept by every step that leaves each group the nodes it had *)
(* and a place behind the same groups.                                     *)
LEMMA OrderKept ==
  ASSUME NEW own, NEW pos, InOrder(own, pos), UNCHANGED arrived,
         NEW o2, NEW p2, NEW new, NEW U, OrderStep(own, pos, o2, p2, new, U)
  PROVE  InOrder(o2, p2)'
<1>1. /\ \A g : g \in live' /\ o2[g] # Junk <=> g \in U
      /\ U \subseteq InUse(own) \cup {new} /\ new \notin InUse(own)
      /\ new \in U => grp'[new].msgs = <<>>
      /\ \A g \in U \ {new} : /\ grp'[g].msgs = grp[g].msgs
                              /\ Sources(draining, own[g]) \subseteq Sources(draining', o2[g])
      /\ \A g, h \in U \ {new} :
           Ahead(draining', o2, p2, g, h) => Ahead(draining, own, pos, g, h)
      /\ Sorted(arrived, sent') /\ ToSet(sent') \subseteq Stored
      /\ \A g \in U \ {new} : Earlier(arrived, ToSet(sent'), ToSet(grp[g].msgs))
  BY DEF OrderStep
<1>2. InUse(o2)' = U
  BY <1>1 DEF InUse
<1>3. Stored' = Stored
  BY DEF Stored
<1>4. new \in U => ToSet(grp'[new].msgs) = {} /\ Sorted(arrived, grp'[new].msgs)
  <2>1. Sorted(arrived, <<>>)
    BY DEF Sorted
  <2> QED
    BY <1>1, <2>1, SetOfEmpty
<1>5. ASSUME NEW g \in U
      PROVE  /\ Sorted(arrived, grp'[g].msgs)
             /\ \A x \in ToSet(grp'[g].msgs) :
                  \E l \in Sources(draining', o2[g]) : x \in ToSet(arrived[l])
             /\ Earlier(arrived, ToSet(sent'), ToSet(grp'[g].msgs))
             /\ \A h \in U : Ahead(draining', o2, p2, g, h) =>
                  Earlier(arrived, ToSet(grp'[g].msgs), ToSet(grp'[h].msgs))
  <2>1. CASE g = new
    BY <1>4, <2>1 DEF Earlier
  <2>2. CASE g # new
    <3>1. /\ g \in InUse(own) /\ grp'[g].msgs = grp[g].msgs
          /\ Sources(draining, own[g]) \subseteq Sources(draining', o2[g])
          /\ Earlier(arrived, ToSet(sent'), ToSet(grp[g].msgs))
      BY <1>1, <2>2
    <3>2. /\ Sorted(arrived, grp[g].msgs)
          /\ \A x \in ToSet(grp[g].msgs) :
               \E l \in Sources(draining, own[g]) : x \in ToSet(arrived[l])
      BY <3>1 DEF InOrder
    <3>3. ASSUME NEW h \in U, Ahead(draining', o2, p2, g, h)
          PROVE  Earlier(arrived, ToSet(grp'[g].msgs), ToSet(grp'[h].msgs))
      <4>1. CASE h = new
        BY <1>4, <4>1 DEF Earlier
      <4>2. CASE h # new
        <5>1. h \in InUse(own) /\ grp'[h].msgs = grp[h].msgs
          BY <1>1, <4>2
        <5>2. Ahead(draining, own, pos, g, h)
          BY <1>1, <2>2, <3>3, <4>2
        <5> QED
          BY <3>1, <5>1, <5>2 DEF InOrder
      <4> QED
        BY <4>1, <4>2
    <3> QED
      BY <3>1, <3>2, <3>3
  <2> QED
    BY <2>1, <2>2
<1>6. arrived' = arrived
  OBVIOUS
<1> QED
  BY <1>1, <1>2, <1>3, <1>5, <1>6 DEF InOrder

(* What a batch does to the order of what was sent.                        *)
LEMMA BatchInOrder ==
  ASSUME TypeInv, NEW own \in [GroupIds -> Owners], NEW pos, InOrder(own, pos),
         NEW cur \in InUse(own), own[cur] \in Locations,
         sent' = sent \o grp[cur].msgs \/ sent' = sent
  PROVE  /\ Sorted(arrived, sent') /\ ToSet(sent') \subseteq Stored
         /\ ToSet(sent') \subseteq ToSet(sent) \cup ToSet(grp[cur].msgs)
<1>1. sent \in Seq(Nodes) /\ grp[cur].msgs \in Seq(Nodes)
  BY GroupTypes DEF InUse, TypeInv, HeapTyped, MessagesTyped
<1>2. /\ Sorted(arrived, sent) /\ ToSet(sent) \subseteq Stored
      /\ Sorted(arrived, grp[cur].msgs)
      /\ Earlier(arrived, ToSet(sent), ToSet(grp[cur].msgs))
      /\ \A x \in ToSet(grp[cur].msgs) :
           \E l \in Sources(draining, own[cur]) : x \in ToSet(arrived[l])
  BY DEF InOrder
<1>3. ToSet(grp[cur].msgs) \subseteq Stored
  BY <1>2, SourceFacts DEF Stored
<1>4. CASE sent' = sent
  BY <1>2, <1>4
<1>5. CASE sent' = sent \o grp[cur].msgs
  BY <1>1, <1>2, <1>3, <1>5, SetOfConcat, SortedConcat
<1> QED
  BY <1>4, <1>5

(* It is kept by a step that leaves the heap alone.                        *)
LEMMA OrderUnchanged ==
  ASSUME TypeInv, NEW own \in [GroupIds -> Owners], NEW pos \in Positions,
         Laid(own, pos), InOrder(own, pos),
         UNCHANGED <<heapVars, loop, sent, arrived>>,
         draining' = draining \/ draining = NoSpace
  PROVE  InOrder(own, pos)'
<1>1. grp' = grp /\ live' = live /\ sent' = sent /\ arrived' = arrived
  BY DEF heapVars
<1>2. draining' = draining \/ \A g \in InUse(own) : own[g] # Merged
  BY LoopFacts DEF Laid, LoopPlace, Spaces, NoSpace
<1>3. \A g \in InUse(own) : Sources(draining', own[g]) = Sources(draining, own[g])
  BY <1>2 DEF Sources
<1>4. \A g, h \in InUse(own) :
        Ahead(draining', own, pos, g, h) => Ahead(draining, own, pos, g, h)
  BY <1>2 DEF Ahead
<1>5. \A g \in InUse(own) : g \in live /\ g # NULL
  BY OwnerFacts DEF InUse, TypeInv, HeapTyped
<1>6. /\ Sorted(arrived, sent') /\ ToSet(sent') \subseteq Stored
      /\ \A g \in InUse(own) : Earlier(arrived, ToSet(sent'), ToSet(grp[g].msgs))
  BY <1>1 DEF InOrder
<1>7. OrderStep(own, pos, own, pos, NULL, InUse(own))
  <2>1. \A g : g \in live' /\ own[g] # Junk <=> g \in InUse(own)
    BY <1>1 DEF InUse
  <2> QED
    BY <1>1, <1>3, <1>4, <1>5, <1>6, <2>1 DEF OrderStep
<1>8. PICK U : OrderStep(own, pos, own, pos, NULL, U)
  BY <1>7
<1> QED
  BY <1>1, <1>8, OrderKept

(* mergeEntries: the right queue follows the left one.                     *)
LEMMA OrderTakeOver ==
  ASSUME TypeInv, NEW own \in [GroupIds -> Owners], Owned(own),
         NEW pos \in Positions, Laid(own, pos), InOrder(own, pos), MergeEntries,
         NEW o2 \in [GroupIds -> Owners],
         o2 = [g \in GroupIds |-> IF g = NewGroup THEN Right(draining)
                                  ELSE IF own[g] = Right(draining) THEN Merged ELSE own[g]],
         NEW p2 \in Positions, p2 = [pos EXCEPT ![NewGroup] = 0]
  PROVE  InOrder(o2, p2)'
<1>0. PICK l, r, new, a, b : TakeOverStep(own, o2, l, r, new, a, b)
  BY TakeOverEffect
<1>1. /\ l = Left(draining) /\ r = Right(draining) /\ new = NewGroup
      /\ draining \in Spaces /\ draining' = draining /\ loop = NotLooping
      /\ l \in Locations /\ r \in Locations /\ l # r
      /\ new \in GroupIds /\ new \notin live
      /\ \A g : g \in live' /\ o2[g] # Junk <=> g \in InUse(own) \cup {new}
      /\ grp'[new] = EmptyGroup
      /\ \A g \in live : /\ g # new /\ grp'[g] = grp[g]
                         /\ o2[g] = IF own[g] = r THEN Merged ELSE own[g]
  BY <1>0 DEF TakeOverStep
<1>2. /\ \A g \in InUse(own) : g \in live /\ g # new
      /\ \A g \in live : p2[g] = pos[g]
      /\ EmptyGroup.msgs = <<>>
      /\ arrived' = arrived /\ sent' = sent
  BY <1>1, GroupFacts DEF InUse, Positions, TypeInv, HeapTyped, MergeEntries
<1>m. \A g \in InUse(own) : own[g] # Merged /\ own[g] \in Locations
  <2>1. \A g \in InUse(own) : own[g] # Merged
    BY <1>1 DEF Laid, LoopPlace
  <2> QED
    BY <2>1, NextFacts DEF Owners
<1>3. \A g \in InUse(own) : Sources(draining, own[g]) \subseteq Sources(draining', o2[g])
  <2> SUFFICES ASSUME NEW g \in InUse(own)
               PROVE  Sources(draining, own[g]) \subseteq Sources(draining, o2[g])
    BY <1>1
  <2>1. CASE own[g] = r
    <3>1. Right(r % 2) = r
      BY <1>1, LocationFacts
    <3>2. o2[g] = Merged
      BY <1>1, <1>2, <2>1
    <3> QED
      BY <1>1, <1>m, <2>1, <3>1, <3>2 DEF Sources
  <2>2. CASE own[g] # r
    BY <1>1, <1>2, <2>2
  <2> QED
    BY <2>1, <2>2
<1>4. ASSUME NEW g \in InUse(own), NEW h \in InUse(own), Ahead(draining', o2, p2, g, h)
      PROVE  Ahead(draining, own, pos, g, h)
  <2>1. /\ o2[g] = IF own[g] = r THEN Merged ELSE own[g]
        /\ o2[h] = IF own[h] = r THEN Merged ELSE own[h]
        /\ p2[g] = pos[g] /\ p2[h] = pos[h]
        /\ own[g] # Merged /\ own[h] # Merged
    BY <1>1, <1>2, <1>m
  <2>2. CASE o2[g] = o2[h] /\ p2[g] < p2[h]
    BY <2>1, <2>2 DEF Ahead
  <2>3. CASE \E s \in Spaces : o2[g] = Left(s) /\ o2[h] = Right(s)
    <3>1. PICK s \in Spaces : o2[g] = Left(s) /\ o2[h] = Right(s)
      BY <2>3
    <3>2. Left(s) # Merged /\ Right(s) # Merged
      BY LocationFacts, OwnerFacts
    <3> QED
      BY <2>1, <3>1, <3>2 DEF Ahead
  <2>4. CASE o2[g] = Left(draining) /\ o2[h] = Merged
    <3>1. own[g] = Left(draining) /\ own[h] = Right(draining)
      BY <1>1, <2>1, <2>4, OwnerFacts
    <3> QED
      BY <1>1, <3>1 DEF Ahead
  <2>5. CASE o2[g] = Merged /\ o2[h] = Right(draining)
    BY <1>1, <2>1, <2>5, OwnerFacts
  <2> QED
    BY <1>1, <1>4, <2>2, <2>3, <2>4, <2>5 DEF Ahead
<1>5. /\ Sorted(arrived, sent') /\ ToSet(sent') \subseteq Stored
      /\ \A g \in InUse(own) : Earlier(arrived, ToSet(sent'), ToSet(grp[g].msgs))
  BY <1>2 DEF InOrder
<1>6. OrderStep(own, pos, o2, p2, new, InUse(own) \cup {new})
  BY <1>1, <1>2, <1>3, <1>4, <1>5 DEF OrderStep
<1>7. PICK U : OrderStep(own, pos, o2, p2, new, U)
  BY <1>6
<1> QED
  BY <1>2, <1>7, OrderKept

(* The batch of SplitOff is in front of all that stays: of what is in the  *)
(* same space, because the loop works on its first group.                  *)
LEMMA BatchAhead ==
  ASSUME TypeInv, Arrivals, NEW own \in [GroupIds -> Owners], Owned(own),
         NEW pos \in Positions, Laid(own, pos), InOrder(own, pos),
         NEW cur \in InUse(own), draining \in Spaces, own[cur] = Left(draining),
         IsHead(own, cur), NEW g \in InUse(own), g # cur
  PROVE  Earlier(arrived, ToSet(grp[cur].msgs), ToSet(grp[g].msgs))
<1>1. Left(draining) \in Locations /\ Left(draining) % 2 = draining
  BY LocationFacts
<1>2. own[g] \in Locations \/ own[g] = Merged
  BY NextFacts DEF Owners
<1>3. CASE own[g] = Left(draining)
  <2>1. pos[cur] < pos[g]
    BY <1>3, NumberedFacts DEF Laid
  <2> QED
    BY <1>3, <2>1 DEF InOrder, Ahead
<1>4. CASE own[g] = Merged
  BY <1>4 DEF InOrder, Ahead
<1>5. CASE own[g] = Right(draining)
  BY <1>5 DEF InOrder, Ahead
<1>6. CASE own[g] \in Locations /\ own[g] # Left(draining) /\ own[g] # Right(draining)
  <2>1. own[g] % 2 # draining
    BY <1>6, SpaceOf
  <2> DEFINE L == Sources(draining, own[cur])
             K == Sources(draining, own[g])
  <2>2. L \subseteq Locations /\ K \subseteq Locations /\ L \cap K = {}
    BY <1>1, <1>6, <2>1, SourceFacts
  <2>3. /\ \A x \in ToSet(grp[cur].msgs) : \E k \in L : x \in ToSet(arrived[k])
        /\ \A x \in ToSet(grp[g].msgs) : \E k \in K : x \in ToSet(arrived[k])
    BY DEF InOrder
  <2> HIDE DEF L, K
  <2> QED
    BY <2>2, <2>3, Apart
<1> QED
  BY <1>2, <1>3, <1>4, <1>5, <1>6

(* A split sends the nodes of the head of the left queue, which come       *)
(* before all others there.                                                *)
LEMMA OrderSplit ==
  ASSUME TypeInv, Arrivals, NEW own \in [GroupIds -> Owners], Owned(own),
         NEW pos \in Positions, Laid(own, pos), InOrder(own, pos), SplitOff, Reliable,
         NEW o2 \in [GroupIds -> Owners],
         o2 = [g \in GroupIds |-> IF own[g] = own[loop.nxt] THEN Left(draining)
                                  ELSE IF own[g] = Left(draining) THEN Junk ELSE own[g]]
  PROVE  InOrder(o2, pos)'
<1>0. PICK l, cur, nxt : SplitStep(own, o2, l, cur, nxt)
  BY SplitEffect
<1>1. /\ l = Left(draining) /\ nxt = loop.nxt /\ nxt # NULL
      /\ draining \in Spaces /\ l \in Locations
      /\ cur \in InUse(own) /\ own[cur] = l /\ IsHead(own, cur)
      /\ nxt \in InUse(own) /\ own[nxt] \in {l, Merged}
      /\ \A g \in live' : o2[g] # Junk => g \in InUse(own) \ {cur}
      /\ \A g \in InUse(own) :
           /\ o2[g] = IF own[g] = own[nxt] THEN l
                      ELSE IF own[g] = l THEN Junk ELSE own[g]
           /\ g # cur /\ o2[g] # Junk => g \in live'
      /\ grp' = grp
      /\ sent' = sent \o grp[cur].msgs \/ sent' = sent
  BY <1>0 DEF SplitStep
<1>2. \A g \in InUse(own) : own[g] # Junk /\ (own[g] \in Locations \/ own[g] = Merged)
  BY NextFacts DEF Owners
<1>3. arrived' = arrived
  BY DEF SplitOff, Deliver
<1> DEFINE U == {g \in InUse(own) \ {cur} : o2[g] # Junk}
<1>4. /\ U \subseteq InUse(own) \cup {cur} /\ cur \notin U
      /\ \A g : g \in live' /\ o2[g] # Junk <=> g \in U
  BY <1>1
<1>m. \A g \in U : o2[g] # Merged
  <2> SUFFICES ASSUME NEW g \in U, o2[g] = Merged PROVE FALSE
    OBVIOUS
  <2>1. own[g] = Merged /\ own[nxt] # Merged
    BY <1>1, OwnerFacts
  <2> QED
    BY <1>1, <2>1 DEF Laid, LoopPlace
<1>5. ASSUME NEW g \in U
      PROVE  Sources(draining, own[g]) \subseteq Sources(draining', o2[g])
  <2>1. CASE own[g] = Merged
    <3>1. o2[g] = l /\ l % 2 = draining /\ l # Merged
      BY <1>1, <1>m, <2>1, LocationFacts, OwnerFacts
    <3> QED
      BY <2>1, <3>1 DEF Sources
  <2>2. CASE own[g] # Merged
    <3>1. o2[g] = own[g]
      BY <1>1, <1>2, <2>2
    <3> QED
      BY <2>2, <3>1 DEF Sources
  <2> QED
    BY <2>1, <2>2
<1>6. ASSUME NEW g \in U, NEW h \in U, Ahead(draining', o2, pos, g, h)
      PROVE  Ahead(draining, own, pos, g, h)
  <2>1. /\ o2[g] = IF own[g] = own[nxt] THEN l ELSE IF own[g] = l THEN Junk ELSE own[g]
        /\ o2[h] = IF own[h] = own[nxt] THEN l ELSE IF own[h] = l THEN Junk ELSE own[h]
        /\ o2[g] # Junk /\ o2[h] # Junk /\ o2[g] # Merged /\ o2[h] # Merged
    BY <1>1, <1>m
  <2>2. CASE o2[g] = o2[h] /\ pos[g] < pos[h]
    <3>1. own[g] = own[h]
      BY <2>1, <2>2
    <3> QED
      BY <2>2, <3>1 DEF Ahead
  <2>3. CASE \E s \in Spaces : o2[g] = Left(s) /\ o2[h] = Right(s)
    <3>1. PICK s \in Spaces : o2[g] = Left(s) /\ o2[h] = Right(s)
      BY <2>3
    <3>2. Right(s) # l
      BY <1>1, LocationFacts DEF Left, Right, Spaces, LEFT_ENTRY, RIGHT_ENTRY
    <3>3. own[h] = Right(s)
      BY <2>1, <3>1, <3>2
    <3>4. CASE s = draining
      <4>1. own[g] \in {l, Merged}
        BY <1>1, <2>1, <3>1, <3>4
      <4> QED
        BY <1>1, <3>3, <3>4, <4>1 DEF Ahead
    <3>5. CASE s # draining
      <4>1. Left(s) # l
        BY <1>1, <3>5, LocationFacts
      <4>2. own[g] = Left(s)
        BY <2>1, <3>1, <4>1
      <4> QED
        BY <3>3, <4>2 DEF Ahead
    <3> QED
      BY <3>4, <3>5
  <2> QED
    BY <1>6, <2>1, <2>2, <2>3 DEF Ahead
<1>7. /\ Sorted(arrived, sent') /\ ToSet(sent') \subseteq Stored
      /\ ToSet(sent') \subseteq ToSet(sent) \cup ToSet(grp[cur].msgs)
  BY <1>1, BatchInOrder
<1>8. ASSUME NEW g \in U PROVE Earlier(arrived, ToSet(sent'), ToSet(grp[g].msgs))
  <2>1. Earlier(arrived, ToSet(grp[cur].msgs), ToSet(grp[g].msgs))
    BY <1>1, BatchAhead
  <2>2. Earlier(arrived, ToSet(sent), ToSet(grp[g].msgs))
    BY DEF InOrder
  <2> QED
    BY <1>7, <2>1, <2>2 DEF Earlier
<1> HIDE DEF U
<1>9. /\ cur \notin live' \/ o2[cur] = Junk
      /\ \A g \in U \ {NULL} : g \in U
      /\ NULL \notin InUse(own) /\ NULL \notin U
  BY <1>1, <1>4, OwnerFacts DEF InUse, TypeInv, HeapTyped
<1>10. OrderStep(own, pos, o2, pos, NULL, U)
  BY <1>1, <1>4, <1>5, <1>6, <1>7, <1>8, <1>9 DEF OrderStep
<1>11. PICK W : OrderStep(own, pos, o2, pos, NULL, W)
  BY <1>10
<1> QED
  BY <1>3, <1>11, OrderKept

(* The last batch sends the rest of the left queue.                        *)
LEMMA OrderLast ==
  ASSUME TypeInv, Arrivals, NEW own \in [GroupIds -> Owners], Owned(own),
         NEW pos \in Positions, Laid(own, pos), InOrder(own, pos), LastBatch,
         NEW o2 \in [GroupIds -> Owners],
         o2 = [g \in GroupIds |-> IF g = NewGroup THEN Left(draining)
                                  ELSE IF own[g] \in {Left(draining), Merged} THEN Junk
                                  ELSE own[g]],
         NEW p2 \in Positions, p2 = [pos EXCEPT ![NewGroup] = 0]
  PROVE  InOrder(o2, p2)'
<1>0. PICK l, cur, new : LastStep(own, o2, l, cur, new)
  BY LastEffect
<1>1. /\ l = Left(draining) /\ new = NewGroup
      /\ draining \in Spaces /\ l \in Locations
      /\ new \in GroupIds /\ new \notin live
      /\ cur \in InUse(own) /\ own[cur] = l /\ IsHead(own, cur)
      /\ \A g \in live' : o2[g] # Junk => g \in (InUse(own) \ {cur}) \cup {new}
      /\ new \in live' /\ o2[new] = l
      /\ \A g \in InUse(own) :
           /\ g # new /\ grp'[g] = grp[g]
           /\ o2[g] = IF own[g] \in {l, Merged} THEN Junk ELSE own[g]
           /\ g # cur /\ o2[g] # Junk => g \in live'
      /\ grp'[new] = EmptyGroup
      /\ sent' = sent \o grp[cur].msgs \/ sent' = sent
  BY <1>0 DEF LastStep
<1>2. /\ \A g \in InUse(own) : g \in live /\ own[g] # Junk
      /\ \A g \in live : p2[g] = pos[g]
      /\ EmptyGroup.msgs = <<>> /\ l # Junk /\ l # Merged /\ Merged # Junk
  BY <1>1, OwnerFacts, GroupFacts DEF InUse, Positions, TypeInv, HeapTyped
<1>3. arrived' = arrived
  BY DEF LastBatch, Deliver
<1> DEFINE V == {g \in InUse(own) \ {cur} : own[g] \notin {l, Merged}}
           U == V \cup {new}
<1>4. /\ U \subseteq InUse(own) \cup {new} /\ new \notin InUse(own)
      /\ \A g : g \in live' /\ o2[g] # Junk <=> g \in U
      /\ U \ {new} = V
  BY <1>1, <1>2
<1>5. \A g \in V : /\ g \in InUse(own) /\ g # cur /\ grp'[g] = grp[g]
                   /\ o2[g] = own[g] /\ p2[g] = pos[g] /\ own[g] # Merged
  BY <1>1, <1>2
<1>6. \A g \in V : Sources(draining, own[g]) \subseteq Sources(draining', o2[g])
  BY <1>5 DEF Sources
<1>7. \A g, h \in V : Ahead(draining', o2, p2, g, h) => Ahead(draining, own, pos, g, h)
  BY <1>5 DEF Ahead
<1>8. /\ Sorted(arrived, sent') /\ ToSet(sent') \subseteq Stored
      /\ ToSet(sent') \subseteq ToSet(sent) \cup ToSet(grp[cur].msgs)
  BY <1>1, BatchInOrder
<1>9. ASSUME NEW g \in V PROVE Earlier(arrived, ToSet(sent'), ToSet(grp[g].msgs))
  <2>1. Earlier(arrived, ToSet(grp[cur].msgs), ToSet(grp[g].msgs))
    BY <1>1, <1>5, BatchAhead
  <2>2. Earlier(arrived, ToSet(sent), ToSet(grp[g].msgs))
    BY <1>5 DEF InOrder
  <2> QED
    BY <1>8, <2>1, <2>2 DEF Earlier
<1>10. grp'[new].msgs = <<>>
  BY <1>1, <1>2
<1> HIDE DEF U, V
<1>11. OrderStep(own, pos, o2, p2, new, U)
  BY <1>4, <1>5, <1>6, <1>7, <1>8, <1>9, <1>10 DEF OrderStep
<1>12. PICK W : OrderStep(own, pos, o2, p2, new, W)
  BY <1>11
<1> QED
  BY <1>3, <1>12, OrderKept

(* Every node in a group has arrived at some time.                         *)
LEMMA OldNodes ==
  ASSUME TypeInv, NEW own \in [GroupIds -> Owners], NEW pos \in Positions,
         Laid(own, pos), InOrder(own, pos), NEW g \in InUse(own)
  PROVE  ToSet(grp[g].msgs) \subseteq Stored
<1>1. own[g] \in Locations \/ own[g] = Merged
  BY NextFacts DEF Owners, InUse, TypeInv, HeapTyped
<1>2. own[g] = Merged => draining \in Spaces
  BY LoopFacts DEF Laid, LoopPlace
<1>3. Sources(draining, own[g]) \subseteq Locations
  BY <1>1, <1>2, SourceFacts
<1>4. \A x \in ToSet(grp[g].msgs) : \E l \in Sources(draining, own[g]) : x \in ToSet(arrived[l])
  BY DEF InOrder
<1> QED
  BY <1>3, <1>4 DEF Stored

(* mergeGrp: both groups are at the front, the one behind the other.       *)
LEMMA OrderMerge ==
  ASSUME TypeInv, CountInv, NEW own \in [GroupIds -> Owners], Owned(own),
         NEW pos \in Positions, Laid(own, pos), InOrder(own, pos), MergeGrp
  PROVE  InOrder(own, pos)'
<1>0. PICK l, cur, nxt : MergeStep(own, l, cur, nxt)
  BY MergeEffect
<1>1. /\ l = Left(draining) /\ draining \in Spaces /\ draining' = draining
      /\ cur # nxt
      /\ cur \in InUse(own) /\ own[cur] = l /\ IsHead(own, cur)
      /\ nxt \in InUse(own) /\ own[nxt] = Merged /\ IsHead(own, nxt)
      /\ \A g : g \in live' /\ own[g] # Junk <=> g \in InUse(own) \ {nxt}
      /\ grp'[cur].msgs = grp[cur].msgs \o grp[nxt].msgs
      /\ \A g \in live : g # cur => grp'[g] = grp[g]
  BY <1>0 DEF MergeStep
<1>2. /\ \A g \in InUse(own) : g \in live /\ g \in GroupIds /\ grp[g].msgs \in Seq(Nodes)
      /\ l \in Locations /\ l % 2 = draining /\ l # Right(draining) /\ l # Merged
      /\ Right(draining) # Merged
  BY <1>1, NextFacts, GroupTypes, LocationFacts, OwnerFacts
<1>3. arrived' = arrived /\ sent' = sent
  BY DEF MergeGrp
<1>4. InUse(own)' = InUse(own) \ {nxt} /\ Stored' = Stored
  BY <1>1, <1>3 DEF InUse, Stored
<1> DEFINE A(g) == ToSet(grp[g].msgs)
<1>5. ToSet(grp'[cur].msgs) = A(cur) \cup A(nxt)
  BY <1>1, <1>2, SetOfConcat
<1>6. Ahead(draining, own, pos, cur, nxt)
  BY <1>1 DEF Ahead
<1>7. /\ \A g \in InUse(own) :
           /\ Sorted(arrived, grp[g].msgs)
           /\ \A x \in A(g) : \E k \in Sources(draining, own[g]) : x \in ToSet(arrived[k])
           /\ Earlier(arrived, ToSet(sent), A(g))
      /\ \A g, h \in InUse(own) :
           Ahead(draining, own, pos, g, h) => Earlier(arrived, A(g), A(h))
      /\ Sorted(arrived, sent) /\ ToSet(sent) \subseteq Stored
  BY DEF InOrder
<1>8. Sorted(arrived, grp'[cur].msgs)
  BY <1>1, <1>2, <1>6, <1>7, SortedConcat
<1>9. \A x \in A(cur) \cup A(nxt) :
        \E k \in Sources(draining, own[cur]) : x \in ToSet(arrived[k])
  <2>1. Sources(draining, own[nxt]) \subseteq Sources(draining, own[cur])
    BY <1>1, <1>2 DEF Sources
  <2> QED
    BY <1>1, <1>7, <2>1
<1>10. ASSUME NEW h \in InUse(own) \ {nxt}, Ahead(draining, own, pos, cur, h), h # cur
       PROVE  Earlier(arrived, A(nxt), A(h))
  <2>1. CASE own[h] = own[cur]
    <3>1. pos[cur] < pos[h]
      BY <1>1, <1>2, <1>10, <2>1, LocationFacts DEF Ahead
    <3>2. grp[cur].next # NULL
      BY <1>1, <2>1, <3>1, NumberedFacts DEF Laid
    <3>3. grp[nxt].total = 0
      BY <1>0, <3>2, LeftGoesOn
    <3>4. Len(grp[nxt].msgs) = 0
      BY <1>1, <1>2, <3>3 DEF CountInv
    <3>5. A(nxt) = {}
      <4>1. grp[nxt].msgs = <<>>
        BY <1>1, <1>2, <3>4
      <4> QED
        BY <4>1, SetOfEmpty
    <3> QED
      BY <3>5 DEF Earlier
  <2>2. CASE own[h] = Merged
    <3>1. pos[nxt] < pos[h]
      BY <1>1, <1>10, <2>2, NumberedFacts DEF Laid
    <3>2. Ahead(draining, own, pos, nxt, h)
      BY <1>1, <2>2, <3>1 DEF Ahead
    <3> QED
      BY <1>1, <1>7, <3>2
  <2>3. CASE own[h] = Right(draining)
    <3>1. Ahead(draining, own, pos, nxt, h)
      BY <1>1, <2>3 DEF Ahead
    <3> QED
      BY <1>1, <1>7, <3>1
  <2>4. own[h] = own[cur] \/ own[h] = Merged \/ own[h] = Right(draining)
    <3>1. \A s \in Spaces : l = Left(s) => s = draining
      BY <1>2, LocationFacts
    <3> QED
      BY <1>1, <1>2, <1>10, <3>1 DEF Ahead
  <2> QED
    BY <2>1, <2>2, <2>3, <2>4
<1>11. ASSUME NEW g \in InUse(own) \ {nxt}, Ahead(draining, own, pos, g, cur) PROVE FALSE
  <2>1. \A s \in Spaces : l # Right(s)
    BY <1>1, <1>2, LocationFacts DEF Left, Right, LEFT_ENTRY, RIGHT_ENTRY, Spaces
  <2>2. own[g] = own[cur] /\ pos[g] < pos[cur]
    BY <1>1, <1>2, <1>11, <2>1 DEF Ahead
  <2> QED
    BY <1>1, <2>2, NumberedFacts DEF Laid
<1>12. ASSUME NEW g \in InUse(own) \ {nxt}
       PROVE  /\ Sorted(arrived, grp'[g].msgs)
              /\ \A x \in ToSet(grp'[g].msgs) :
                   \E k \in Sources(draining, own[g]) : x \in ToSet(arrived[k])
              /\ Earlier(arrived, ToSet(sent), ToSet(grp'[g].msgs))
              /\ \A h \in InUse(own) \ {nxt} : Ahead(draining, own, pos, g, h) =>
                   Earlier(arrived, ToSet(grp'[g].msgs), ToSet(grp'[h].msgs))
  <2>1. CASE g = cur
    <3>1. Earlier(arrived, ToSet(sent), A(cur) \cup A(nxt))
      BY <1>1, <1>7 DEF Earlier
    <3>2. ASSUME NEW h \in InUse(own) \ {nxt}, Ahead(draining, own, pos, cur, h)
          PROVE  Earlier(arrived, A(cur) \cup A(nxt), ToSet(grp'[h].msgs))
      <4>1. h # cur
        BY <1>1, <1>11, <3>2
      <4>2. Earlier(arrived, A(nxt), A(h)) /\ Earlier(arrived, A(cur), A(h))
        BY <1>1, <1>7, <1>10, <3>2, <4>1
      <4>3. grp'[h] = grp[h]
        BY <1>1, <1>2, <4>1
      <4> QED
        BY <4>2, <4>3 DEF Earlier
    <3> QED
      BY <1>1, <1>5, <1>8, <1>9, <2>1, <3>1, <3>2
  <2>2. CASE g # cur
    <3>1. grp'[g] = grp[g]
      BY <1>1, <1>2, <2>2
    <3>2. ASSUME NEW h \in InUse(own) \ {nxt}, Ahead(draining, own, pos, g, h)
          PROVE  Earlier(arrived, A(g), ToSet(grp'[h].msgs))
      <4>1. h # cur
        BY <1>11, <3>2
      <4>2. grp'[h] = grp[h]
        BY <1>1, <1>2, <4>1
      <4> QED
        BY <1>7, <3>2, <4>2
    <3> QED
      BY <1>7, <3>1, <3>2
  <2> QED
    BY <2>1, <2>2
<1> HIDE DEF A
<1> QED
  BY <1>1, <1>3, <1>4, <1>7, <1>12 DEF InOrder

(* onQueueMessage: the node is stored last, and in the last group of its   *)
(* queue; q is what that group held before.                                *)
AppendStep(own, pos, o2, p2, l, node, c, q) ==
  /\ \A g : g \in live' /\ o2[g] # Junk <=> g \in InUse(own) \cup {c}
  /\ o2[c] = l /\ l # Left(draining)
  /\ q \in Seq(Nodes) /\ grp'[c].msgs = Append(q, node)
  /\ \A g \in InUse(own) \ {c} : grp'[g].msgs = grp[g].msgs /\ o2[g] = own[g] /\ p2[g] = pos[g]
  /\ p2[c] \in Int /\ \A g \in InUse(own) \ {c} : own[g] = l => p2[g] < p2[c] /\ pos[g] \in Int
  /\ c \in InUse(own) => q = grp[c].msgs /\ own[c] = l /\ pos[c] = p2[c]
  /\ c \notin InUse(own) => q = <<>>

(* A node that has just arrived comes after all others, and it is appended *)
(* behind them.                                                            *)
LEMMA OrderAppend ==
  ASSUME TypeInv, Arrivals, NEW own \in [GroupIds -> Owners], NEW pos \in Positions,
         Laid(own, pos), InOrder(own, pos),
         NEW l \in Locations, NEW node \in Nodes, node \notin Stored,
         QueueMessage(l, node), UNCHANGED <<draining, sent>>,
         NEW o2, NEW p2, NEW c, NEW q, AppendStep(own, pos, o2, p2, l, node, c, q)
  PROVE  InOrder(o2, p2)'
<1>1. /\ \A g : g \in live' /\ o2[g] # Junk <=> g \in InUse(own) \cup {c}
      /\ o2[c] = l /\ l # Left(draining)
      /\ q \in Seq(Nodes) /\ grp'[c].msgs = Append(q, node)
      /\ \A g \in InUse(own) \ {c} :
           grp'[g].msgs = grp[g].msgs /\ o2[g] = own[g] /\ p2[g] = pos[g]
      /\ p2[c] \in Int
      /\ \A g \in InUse(own) \ {c} : own[g] = l => p2[g] < p2[c] /\ pos[g] \in Int
      /\ c \in InUse(own) => q = grp[c].msgs /\ own[c] = l /\ pos[c] = p2[c]
      /\ c \notin InUse(own) => q = <<>>
  BY DEF AppendStep
<1> DEFINE new == arrived'
           A(g) == ToSet(grp[g].msgs)
<1>2. /\ new = [arrived EXCEPT ![l] = Append(arrived[l], node)]
      /\ \A k \in Locations : node \notin ToSet(arrived[k])
      /\ arrived \in [Locations -> Seq(Nodes)]
      /\ \A k, m \in Locations : k # m => ToSet(arrived[k]) \cap ToSet(arrived[m]) = {}
  BY ArrivalsGrow DEF Arrivals
<1> HIDE DEF new
<1>3. /\ \A k \in Locations : k # l => new[k] = arrived[k]
      /\ ToSet(new[l]) = ToSet(arrived[l]) \cup {node}
      /\ \A x : x # node => InFront(new, x, node)
      /\ \A x, y : x # node /\ y # node /\ InFront(arrived, x, y) => InFront(new, x, y)
  <2>1. Grown(arrived, new, l, node)
    BY <1>2, InFrontGrows
  <2> QED
    BY <2>1 DEF Grown
<1>4. /\ \A g \in InUse(own) : node \notin A(g) /\ grp[g].msgs \in Seq(Nodes)
      /\ node \notin ToSet(sent) /\ sent \in Seq(Nodes)
  BY OldNodes, GroupTypes DEF InOrder, InUse, TypeInv, HeapTyped, MessagesTyped
<1>5. /\ Sorted(arrived, sent) /\ ToSet(sent) \subseteq Stored
      /\ \A g \in InUse(own) :
           /\ Sorted(arrived, grp[g].msgs)
           /\ \A x \in A(g) : \E k \in Sources(draining, own[g]) : x \in ToSet(arrived[k])
           /\ Earlier(arrived, ToSet(sent), A(g))
      /\ \A g, h \in InUse(own) :
           Ahead(draining, own, pos, g, h) => Earlier(arrived, A(g), A(h))
  BY DEF InOrder
<1>6. \A s \in Seq(Nodes) : node \notin ToSet(s) /\ Sorted(arrived, s) => Sorted(new, s)
  <2> SUFFICES ASSUME NEW s \in Seq(Nodes), node \notin ToSet(s), Sorted(arrived, s),
                      NEW i \in DOMAIN s, NEW j \in DOMAIN s, i < j
               PROVE  InFront(new, s[i], s[j])
    BY DEF Sorted
  <2>1. s[i] # node /\ s[j] # node
    BY SequenceFacts
  <2> QED
    BY <1>3, <2>1 DEF Sorted
<1>7. \A X, Y : node \notin X /\ node \notin Y /\ Earlier(arrived, X, Y) => Earlier(new, X, Y)
  BY <1>3 DEF Earlier
<1>8. \A X : node \notin X => Earlier(new, X, {node})
  BY <1>3 DEF Earlier
<1>9. \A d : \A k : \A x :
        (\E m \in Sources(d, k) : x \in ToSet(arrived[m])) /\ Sources(d, k) \subseteq Locations
        => \E m \in Sources(d, k) : x \in ToSet(new[m])
  BY <1>3
<1>10. /\ node \notin ToSet(q) /\ Sorted(arrived, q)
       /\ Earlier(arrived, ToSet(sent), ToSet(q))
       /\ \A x \in ToSet(q) : \E k \in Sources(draining, l) : x \in ToSet(arrived[k])
  <2>1. CASE c \in InUse(own)
    BY <1>1, <1>4, <1>5, <2>1
  <2>2. CASE c \notin InUse(own)
    <3>1. q = <<>> /\ ToSet(q) = {}
      BY <1>1, <2>2, SetOfEmpty
    <3>2. Sorted(arrived, <<>>)
      BY DEF Sorted
    <3> QED
      BY <3>1, <3>2 DEF Earlier
  <2> QED
    BY <2>1, <2>2
<1>11. ToSet(grp'[c].msgs) = ToSet(q) \cup {node} /\ Sorted(new, grp'[c].msgs)
  <2>1. Sorted(new, q) /\ Earlier(new, ToSet(q), {node})
    BY <1>1, <1>6, <1>8, <1>10
  <2> QED
    BY <1>1, <2>1, SetOfAppend, SortedAppend
<1>12. l \in Sources(draining, l) /\ Sources(draining, l) \subseteq Locations /\ l # Merged
  BY SourceFacts, OwnerFacts
<1>13. \A g \in InUse(own) : Sources(draining, own[g]) \subseteq Locations
  <2> SUFFICES ASSUME NEW g \in InUse(own) PROVE Sources(draining, own[g]) \subseteq Locations
    OBVIOUS
  <2>1. own[g] \in Locations \/ own[g] = Merged
    BY DEF Owners, InUse, TypeInv, HeapTyped
  <2>2. own[g] = Merged => draining \in Spaces
    BY LoopFacts DEF Laid, LoopPlace
  <2> QED
    BY <2>1, <2>2, SourceFacts
(* What comes behind the group that takes the node is in a right queue,    *)
(* and was stored there.                                                   *)
<1>14. ASSUME NEW h \in InUse(own) \ {c}, Ahead(draining, o2, p2, c, h)
       PROVE  /\ Earlier(new, ToSet(q), A(h)) /\ Earlier(new, {node}, A(h))
  <2>1. o2[h] = own[h] /\ p2[h] = pos[h]
    BY <1>1
  <2>2. PICK s \in Spaces : l = Left(s) /\ own[h] = Right(s)
    BY <1>1, <1>12, <1>14, <2>1 DEF Ahead
  <2>3. Earlier(arrived, ToSet(q), A(h))
    <3>1. CASE c \in InUse(own)
      <4>1. Ahead(draining, own, pos, c, h)
        BY <1>1, <2>2, <3>1 DEF Ahead
      <4> QED
        BY <1>1, <1>5, <3>1, <4>1
    <3>2. CASE c \notin InUse(own)
      BY <1>1, <3>2, SetOfEmpty DEF Earlier
    <3> QED
      BY <3>1, <3>2
  <2>4. /\ Right(s) \in Locations /\ Right(s) # l /\ Sources(draining, Right(s)) = {Right(s)}
    BY <2>2, LocationFacts, SourceFacts
  <2>5. \A y \in A(h) : y \in ToSet(arrived[Right(s)]) /\ y # node
    BY <1>4, <1>5, <2>2, <2>4
  <2>6. ASSUME NEW y \in A(h) PROVE InFront(new, node, y)
    <3>1. y \notin ToSet(new[l])
      BY <1>2, <1>3, <2>4, <2>5
    <3>2. \A k \in Locations : k # l => node \notin ToSet(new[k])
      BY <1>2, <1>3
    <3> QED
      BY <3>1, <3>2 DEF InFront
  <2> QED
    BY <1>4, <1>7, <1>10, <2>3, <2>6 DEF Earlier
<1>15. ~Ahead(draining, o2, p2, c, c)
  <2>1. \A s \in Spaces : ~(l = Left(s) /\ l = Right(s))
    BY LocationFacts
  <2> QED
    BY <1>1, <1>12, <2>1 DEF Ahead
<1>16. ASSUME NEW g \in InUse(own) \ {c}, Ahead(draining, o2, p2, g, c)
       PROVE  Earlier(new, A(g), ToSet(q))
  <2>1. CASE c \in InUse(own)
    <3>1. Ahead(draining, own, pos, g, c)
      BY <1>1, <1>16, <2>1 DEF Ahead
    <3> QED
      BY <1>1, <1>4, <1>5, <1>7, <1>10, <2>1, <3>1
  <2>2. CASE c \notin InUse(own)
    BY <1>1, <2>2, SetOfEmpty DEF Earlier
  <2> QED
    BY <2>1, <2>2
<1>17. \A g, h \in InUse(own) \ {c} :
         Ahead(draining, o2, p2, g, h) => Ahead(draining, own, pos, g, h)
  BY <1>1 DEF Ahead
<1>18. ASSUME NEW g \in InUse(own) \cup {c}
       PROVE  /\ Sorted(new, grp'[g].msgs)
              /\ \A x \in ToSet(grp'[g].msgs) :
                   \E k \in Sources(draining, o2[g]) : x \in ToSet(new[k])
              /\ Earlier(new, ToSet(sent), ToSet(grp'[g].msgs))
              /\ \A h \in InUse(own) \cup {c} : Ahead(draining, o2, p2, g, h) =>
                   Earlier(new, ToSet(grp'[g].msgs), ToSet(grp'[h].msgs))
  <2>1. CASE g = c
    <3>1. Earlier(new, ToSet(sent), ToSet(q) \cup {node})
      <4>1. Earlier(new, ToSet(sent), ToSet(q)) /\ Earlier(new, ToSet(sent), {node})
        BY <1>4, <1>7, <1>8, <1>10
      <4> QED
        BY <4>1 DEF Earlier
    <3>2. \A x \in ToSet(q) \cup {node} : \E k \in Sources(draining, l) : x \in ToSet(new[k])
      BY <1>3, <1>9, <1>10, <1>12
    <3>3. ASSUME NEW h \in InUse(own) \cup {c}, Ahead(draining, o2, p2, c, h)
          PROVE  Earlier(new, ToSet(q) \cup {node}, ToSet(grp'[h].msgs))
      <4>1. h # c
        BY <1>15, <3>3
      <4>2. grp'[h].msgs = grp[h].msgs
        BY <1>1, <4>1
      <4>3. Earlier(new, ToSet(q), A(h)) /\ Earlier(new, {node}, A(h))
        BY <1>14, <3>3, <4>1
      <4> QED
        BY <4>2, <4>3 DEF Earlier
    <3> QED
      BY <1>1, <1>11, <2>1, <3>1, <3>2, <3>3
  <2>2. CASE g # c
    <3>1. g \in InUse(own) \ {c} /\ grp'[g].msgs = grp[g].msgs /\ o2[g] = own[g]
      BY <1>1, <2>2
    <3>2. /\ Sorted(new, grp[g].msgs) /\ Earlier(new, ToSet(sent), A(g))
      BY <1>4, <1>5, <1>6, <1>7, <3>1
    <3>3. \A x \in A(g) : \E k \in Sources(draining, own[g]) : x \in ToSet(new[k])
      BY <1>5, <1>9, <1>13, <3>1
    <3>4. ASSUME NEW h \in InUse(own) \cup {c}, Ahead(draining, o2, p2, g, h)
          PROVE  Earlier(new, A(g), ToSet(grp'[h].msgs))
      <4>1. CASE h = c
        <5>1. Earlier(new, A(g), ToSet(q)) /\ Earlier(new, A(g), {node})
          BY <1>4, <1>8, <1>16, <3>1, <3>4, <4>1
        <5> QED
          BY <1>11, <4>1, <5>1 DEF Earlier
      <4>2. CASE h # c
        <5>1. h \in InUse(own) \ {c} /\ grp'[h].msgs = grp[h].msgs
          BY <1>1, <4>2
        <5>2. Earlier(arrived, A(g), A(h))
          BY <1>5, <1>17, <3>1, <3>4, <5>1
        <5> QED
          BY <1>4, <1>7, <3>1, <5>1, <5>2
      <4> QED
        BY <4>1, <4>2
    <3> QED
      BY <3>1, <3>2, <3>3, <3>4
  <2> QED
    BY <2>1, <2>2
<1>19. Sorted(new, sent)
  BY <1>4, <1>5, <1>6
<1>20. InUse(o2)' = InUse(own) \cup {c}
  BY <1>1 DEF InUse
<1>21. Stored \subseteq Stored'
  <2>1. \A k \in Locations : ToSet(arrived[k]) \subseteq ToSet(new[k])
    BY <1>3
  <2> QED
    BY <2>1 DEF Stored, new
<1>22. arrived' = new /\ sent' = sent /\ draining' = draining
  BY DEF new
<1> HIDE DEF A
<1>23. ToSet(sent) \subseteq Stored'
  BY <1>5, <1>21
<1> QED
  BY <1>18, <1>19, <1>20, <1>22, <1>23 DEF InOrder

(* Appended to a group with room ...                                       *)
LEMMA OrderRoom ==
  ASSUME TypeInv, CountInv, Arrivals, NEW own \in [GroupIds -> Owners], Owned(own),
         NEW pos \in Positions, Laid(own, pos), InOrder(own, pos),
         NEW l \in Locations, l % 2 # draining, NEW node \in Nodes, node \notin Stored,
         ~GroupIsFull(grp[holder[l].cur]), QueueMessage(l, node),
         UNCHANGED <<draining, sent>>
  PROVE  InOrder(own, pos)'
<1>0. PICK c : RoomStep(own, l, node, c)
  BY RoomEffect
<1>1. /\ c = holder[l].cur /\ c \in InUse(own) /\ own[c] = l /\ l # Left(draining)
      /\ live' = live
      /\ grp'[c].msgs = Append(grp[c].msgs, node)
      /\ \A g \in live : g # c => grp'[g] = grp[g]
  BY <1>0 DEF RoomStep
<1>2. \A g \in InUse(own) : g \in live /\ pos[g] \in Int /\ grp[g].msgs \in Seq(Nodes)
  BY NextFacts, GroupTypes DEF Positions
<1>3. grp[c].next = NULL
  BY <1>1 DEF Laid, QueueEnds
<1>4. \A g \in InUse(own) \ {c} : own[g] = l => pos[g] < pos[c]
  BY <1>1, <1>2, <1>3, NumberedFacts DEF Laid
<1>5. \A g : g \in live' /\ own[g] # Junk <=> g \in InUse(own) \cup {c}
  BY <1>1 DEF InUse
<1>6. AppendStep(own, pos, own, pos, l, node, c, grp[c].msgs)
  BY <1>1, <1>2, <1>4, <1>5 DEF AppendStep
<1>7. PICK q : AppendStep(own, pos, own, pos, l, node, c, q)
  BY <1>6
<1> QED
  BY <1>7, OrderAppend

(* ... or to a new group.                                                  *)
LEMMA OrderFull ==
  ASSUME TypeInv, CountInv, Arrivals, NEW own \in [GroupIds -> Owners], Owned(own),
         NEW pos \in Positions, Laid(own, pos), InOrder(own, pos),
         NEW l \in Locations, l % 2 # draining, NEW node \in Nodes, node \notin Stored,
         GroupIsFull(grp[holder[l].cur]), QueueMessage(l, node),
         UNCHANGED <<draining, sent>>,
         NEW o2 \in [GroupIds -> Owners], o2 = [own EXCEPT ![NewGroup] = l],
         NEW p2 \in Positions, p2 = [pos EXCEPT ![NewGroup] = pos[holder[l].cur] + 1]
  PROVE  InOrder(o2, p2)'
<1>0. PICK c, new : FullStep(own, o2, l, node, c, new)
  BY FullEffect
<1>1. /\ c = holder[l].cur /\ new = NewGroup
      /\ new \in GroupIds /\ new \notin live
      /\ c \in InUse(own) /\ own[c] = l /\ l # Left(draining)
      /\ \A g : g \in live' /\ o2[g] # Junk <=> g \in InUse(own) \cup {new}
      /\ o2[new] = l
      /\ grp'[new].msgs = <<node>> /\ grp'[c].msgs = grp[c].msgs
      /\ \A g \in live : /\ g # new /\ o2[g] = own[g]
                         /\ g # c => grp'[g] = grp[g]
  BY <1>0 DEF FullStep
<1>2. /\ \A g \in InUse(own) : g \in live /\ g \in GroupIds /\ pos[g] \in Int
      /\ new \notin InUse(own)
  BY <1>1, NextFacts DEF Positions
<1>3. /\ p2[new] = pos[c] + 1 /\ \A g \in InUse(own) : p2[g] = pos[g]
  BY <1>1, <1>2 DEF Positions
<1>4. grp[c].next = NULL
  BY <1>1 DEF Laid, QueueEnds
<1>5. \A g \in InUse(own) : own[g] = l => pos[g] <= pos[c]
  BY <1>1, <1>4, NumberedFacts DEF Laid
<1>6. \A g \in InUse(own) : own[g] = l => p2[g] < p2[new]
  BY <1>1, <1>2, <1>3, <1>5
<1>7. \A g \in InUse(own) : grp'[g].msgs = grp[g].msgs /\ o2[g] = own[g]
  BY <1>1, <1>2
<1>8. <<>> \in Seq(Nodes) /\ grp'[new].msgs = Append(<<>>, node)
  BY <1>1
<1>9. p2[new] \in Int
  BY <1>1, <1>2, <1>3
<1>10. AppendStep(own, pos, o2, p2, l, node, new, <<>>)
  BY <1>1, <1>2, <1>3, <1>6, <1>7, <1>8, <1>9 DEF AppendStep
<1>11. PICK q : AppendStep(own, pos, o2, p2, l, node, new, q)
  BY <1>10
<1> QED
  BY <1>11, OrderAppend

(* What is sent is in the order of arrival, and stored once.               *)
LEMMA OrderIsFifo ==
  ASSUME TypeInv, Arrivals, Sorted(arrived, sent)
  PROVE  FirstInFirstOut
<1> SUFFICES ASSUME NEW l \in Locations, NEW i \in DOMAIN sent, NEW j \in DOMAIN sent,
                    i < j, {sent[i], sent[j]} \subseteq ToSet(arrived[l])
             PROVE  Position(arrived[l], sent[i]) < Position(arrived[l], sent[j])
  BY DEF FirstInFirstOut
<1> DEFINE s == arrived[l]
<1>1. IsInjective(s)
  BY DEF Arrivals
<1>2. InFront(arrived, sent[i], sent[j])
  BY DEF Sorted
<1>3. PICK a, b \in DOMAIN s : a < b /\ s[a] = sent[i] /\ s[b] = sent[j]
  BY <1>2 DEF InFront
<1> HIDE DEF s
<1>4. \A k \in DOMAIN s : Position(s, s[k]) = k
  <2> SUFFICES ASSUME NEW k \in DOMAIN s PROVE (CHOOSE m \in DOMAIN s : s[m] = s[k]) = k
    BY DEF Position
  <2> DEFINE p == CHOOSE m \in DOMAIN s : s[m] = s[k]
  <2>1. p \in DOMAIN s /\ s[p] = s[k]
    OBVIOUS
  <2> HIDE DEF p
  <2>2. p = k
    BY <1>1, <2>1 DEF IsInjective
  <2> QED
    BY <2>2 DEF p
<1> QED
  BY <1>3, <1>4 DEF s

-----------------------------------------------------------------------------
(* Nothing is dropped as long as no drain found a queue of several groups  *)
(* on both sides, or behind an empty group: what the loop goes on with is  *)
(* then the end of one of the lists.                                       *)
Clear(own) ==
  /\ draining # NoSpace /\ loop = NotLooping => ~Shadows(draining)
  /\ loop.nxt # NULL /\ own[loop.nxt] = Merged =>
       /\ grp[loop.cur].next = NULL \/ grp[loop.nxt].total = 0
       /\ grp[loop.cur].total > 0 \/ grp[loop.nxt].next = NULL
  /\ \A g \in InUse(own) : own[g] = Merged => loop.nxt # NULL

Held(own, x) == \E g \in InUse(own) : x \in ToSet(grp[g].msgs)

Complete(own) ==
  \A x : x \in Stored <=> Held(own, x) \/ x \in ToSet(sent) \/ x \in unsent

Whole(own) == Clear(own) /\ Complete(own)

(* A step that leaves the heap alone loses nothing.                        *)
LEMMA WholeUnchanged ==
  ASSUME NEW own, Whole(own), UNCHANGED <<heapVars, loop, sent, unsent, arrived>>,
         draining' = draining \/ ~Shadows(draining')
  PROVE  Whole(own)'
<1>1. /\ grp' = grp /\ live' = live /\ holder' = holder /\ loop' = loop
      /\ sent' = sent /\ unsent' = unsent /\ arrived' = arrived
  BY DEF heapVars
<1>2. InUse(own)' = InUse(own) /\ Stored' = Stored
  BY <1>1 DEF InUse, Stored
<1>3. Clear(own)'
  <2>1. draining' # NoSpace /\ loop' = NotLooping => ~Shadows(draining)'
    BY <1>1 DEF Whole, Clear, Shadows
  <2> QED
    BY <1>1, <1>2, <2>1 DEF Whole, Clear
<1>4. Complete(own)'
  <2>1. \A x : Held(own, x)' <=> Held(own, x)
    BY <1>1, <1>2 DEF Held
  <2> QED
    BY <1>1, <1>2, <2>1 DEF Whole, Complete
<1> QED
  BY <1>3, <1>4 DEF Whole

(* The groups at which a drain would begin are not written to.             *)
LEMMA StartsKept ==
  ASSUME TypeInv, NEW own \in [GroupIds -> Owners], Owned(own),
         NEW l \in Locations, l % 2 # draining, UNCHANGED <<loop, draining>>,
         \A k \in Locations : holder'[k].start = holder[k].start,
         \A g \in InUse(own) : own[g] # l => grp'[g] = grp[g],
         draining # NoSpace /\ loop = NotLooping => ~Shadows(draining)
  PROVE  draining' # NoSpace /\ loop' = NotLooping => ~Shadows(draining)'
<1> SUFFICES ASSUME draining # NoSpace, loop = NotLooping
             PROVE  Shadows(draining)' = Shadows(draining)
  OBVIOUS
<1> DEFINE a == holder[Left(draining)].start
           b == holder[Right(draining)].start
<1>1. /\ Left(draining) \in Locations /\ Right(draining) \in Locations
      /\ Left(draining) # l /\ Right(draining) # l
  BY LoopFacts, LocationFacts
<1>2. /\ a \in InUse(own) /\ own[a] = Left(draining)
      /\ b \in InUse(own) /\ own[b] = Right(draining)
  BY <1>1, StartFacts
<1>3. /\ holder'[Left(draining)].start = a /\ holder'[Right(draining)].start = b
      /\ grp'[a] = grp[a] /\ grp'[b] = grp[b]
  BY <1>1, <1>2
<1>4. draining' = draining
  OBVIOUS
<1> QED
  BY <1>3, <1>4 DEF Shadows

(* A node appended to a group with room is in that group ...               *)
LEMMA WholeRoom ==
  ASSUME TypeInv, CountInv, NEW own \in [GroupIds -> Owners], Owned(own), Whole(own),
         NEW l \in Locations, l % 2 # draining, NEW node \in Nodes,
         ~GroupIsFull(grp[holder[l].cur]), QueueMessage(l, node),
         UNCHANGED <<loop, draining, sent, unsent>>
  PROVE  Whole(own)'
<1>0. PICK c : RoomStep(own, l, node, c)
  BY RoomEffect
<1>1. /\ c \in InUse(own) /\ own[c] = l
      /\ c # loop.cur /\ c # loop.nxt
      /\ live' = live /\ holder' = holder
      /\ grp'[c].msgs = Append(grp[c].msgs, node)
      /\ \A g \in live : g # c => grp'[g] = grp[g]
  BY <1>0 DEF RoomStep
<1>2. \A g \in InUse(own) : g \in live /\ grp[g].msgs \in Seq(Nodes)
  BY NextFacts, GroupTypes
<1>3. loop' = loop /\ sent' = sent /\ unsent' = unsent /\ draining' = draining
  OBVIOUS
<1>4. InUse(own)' = InUse(own)
  BY <1>1 DEF InUse
<1>5. Clear(own)'
  <2>1. draining' # NoSpace /\ loop' = NotLooping => ~Shadows(draining)'
    BY <1>1, <1>2, <1>3, StartsKept DEF Whole, Clear
  <2>2. loop.nxt # NULL => grp'[loop.cur] = grp[loop.cur] /\ grp'[loop.nxt] = grp[loop.nxt]
    <3>1. loop.nxt # NULL => loop.cur \in InUse(own) /\ loop.nxt \in InUse(own)
      BY LoopCurFacts, OwnerFacts
    <3> QED
      BY <1>1, <1>2, <3>1
  <2> QED
    BY <1>3, <1>4, <2>1, <2>2 DEF Whole, Clear
<1>6. Complete(own)'
  <2>1. Stored' = Stored \cup {node}
    BY QueueStored DEF TypeInv, MessagesTyped
  <2>2. ToSet(grp'[c].msgs) = ToSet(grp[c].msgs) \cup {node}
    BY <1>1, <1>2, SetOfAppend
  <2>3. \A g \in InUse(own) : g # c => grp'[g] = grp[g]
    BY <1>1, <1>2
  <2>4. \A x : Held(own, x)' <=> Held(own, x) \/ x = node
    BY <1>1, <1>4, <2>2, <2>3 DEF Held
  <2> QED
    BY <1>3, <2>1, <2>4 DEF Whole, Complete
<1> QED
  BY <1>5, <1>6 DEF Whole

(* ... and otherwise in the new one.                                       *)
LEMMA WholeFull ==
  ASSUME TypeInv, CountInv, NEW own \in [GroupIds -> Owners], Owned(own), Whole(own),
         NEW l \in Locations, l % 2 # draining, NEW node \in Nodes,
         GroupIsFull(grp[holder[l].cur]), QueueMessage(l, node),
         UNCHANGED <<loop, draining, sent, unsent>>,
         NEW o2 \in [GroupIds -> Owners], o2 = [own EXCEPT ![NewGroup] = l]
  PROVE  Whole(o2)'
<1>0. PICK c, new : FullStep(own, o2, l, node, c, new)
  BY FullEffect
<1>1. /\ new \notin live /\ c \in InUse(own) /\ own[c] = l
      /\ c # loop.cur /\ c # loop.nxt
      /\ \A g : g \in live' /\ o2[g] # Junk <=> g \in InUse(own) \cup {new}
      /\ o2[new] = l
      /\ grp'[new].msgs = <<node>> /\ grp'[c].msgs = grp[c].msgs
      /\ \A g \in live : /\ g # new /\ o2[g] = own[g]
                         /\ g # c => grp'[g] = grp[g]
      /\ holder'[l].start = holder[l].start
      /\ \A k \in Locations : k # l => holder'[k] = holder[k]
  BY <1>0 DEF FullStep
<1>2. \A g \in InUse(own) : g \in live
  BY DEF InUse
<1>3. loop' = loop /\ sent' = sent /\ unsent' = unsent /\ draining' = draining
  OBVIOUS
<1>4. InUse(o2)' = InUse(own) \cup {new}
  BY <1>1 DEF InUse
<1>5. Clear(o2)'
  <2>1. draining' # NoSpace /\ loop' = NotLooping => ~Shadows(draining)'
    BY <1>1, <1>2, <1>3, StartsKept DEF Whole, Clear
  <2>2. loop.nxt # NULL =>
          /\ grp'[loop.cur] = grp[loop.cur] /\ grp'[loop.nxt] = grp[loop.nxt]
          /\ o2[loop.nxt] = own[loop.nxt]
    <3>1. loop.nxt # NULL => loop.cur \in InUse(own) /\ loop.nxt \in InUse(own)
      BY LoopCurFacts, OwnerFacts
    <3> QED
      BY <1>1, <1>2, <3>1
  <2>3. \A g \in InUse(own) \cup {new} : o2[g] = Merged => loop.nxt # NULL
    BY <1>1, <1>2, OwnerFacts DEF Whole, Clear
  <2> QED
    BY <1>3, <1>4, <2>1, <2>2, <2>3 DEF Whole, Clear
<1>6. Complete(o2)'
  <2>1. Stored' = Stored \cup {node}
    BY QueueStored DEF TypeInv, MessagesTyped
  <2>2. ToSet(grp'[new].msgs) = {node}
    <3>1. <<>> \in Seq(Nodes)
      OBVIOUS
    <3>2. <<node>> = Append(<<>>, node)
      OBVIOUS
    <3>3. PICK none \in Seq(Nodes) : none = <<>>
      BY <3>1
    <3>4. <<node>> = Append(none, node)
      BY <3>2, <3>3
    <3>5. ToSet(Append(none, node)) = ToSet(none) \cup {node}
      BY SetOfAppend
    <3>6. ToSet(none) = {}
      BY <3>3, SetOfEmpty
    <3>7. grp'[new].msgs = <<node>>
      BY <1>1
    <3> QED
      BY <3>4, <3>5, <3>6, <3>7
  <2>3. \A g \in InUse(own) : grp'[g].msgs = grp[g].msgs
    BY <1>1, <1>2
  <2>4. \A x : Held(o2, x)' <=> Held(own, x) \/ x = node
    BY <1>4, <2>2, <2>3 DEF Held
  <2> QED
    BY <1>3, <2>1, <2>4 DEF Whole, Complete
<1> QED
  BY <1>5, <1>6 DEF Whole

(* What the right queue held is taken over whole, for Shadows was false    *)
(* when the drain began.                                                   *)
LEMMA WholeTakeOver ==
  ASSUME TypeInv, NEW own \in [GroupIds -> Owners], Owned(own), Whole(own), MergeEntries,
         NEW o2 \in [GroupIds -> Owners],
         o2 = [g \in GroupIds |-> IF g = NewGroup THEN Right(draining)
                                  ELSE IF own[g] = Right(draining) THEN Merged ELSE own[g]]
  PROVE  Whole(o2)'
<1>0. PICK l, r, new, a, b : TakeOverStep(own, o2, l, r, new, a, b)
  BY TakeOverEffect
<1>1. /\ l = Left(draining) /\ r = Right(draining)
      /\ a = holder[l].start /\ b = holder[r].start
      /\ draining \in Spaces /\ draining' = draining /\ loop = NotLooping
      /\ a \in InUse(own) /\ b \in InUse(own)
      /\ \A g : g \in live' /\ o2[g] # Junk <=> g \in InUse(own) \cup {new}
      /\ grp'[new] = EmptyGroup
      /\ \A g \in live : grp'[g] = grp[g]
      /\ loop' # NotLooping /\ loop'.cur = a /\ loop'.nxt = b /\ b # NULL
  BY <1>0 DEF TakeOverStep
<1>2. \A g \in InUse(own) : g \in live /\ grp[g].total \in Nat
  BY NextFacts, GroupTypes
<1>3. arrived' = arrived /\ sent' = sent /\ unsent' = unsent
  BY DEF MergeEntries
<1>4. InUse(o2)' = InUse(own) \cup {new} /\ Stored' = Stored
  BY <1>1, <1>3 DEF InUse, Stored
<1>5. Clear(o2)'
  <2>1. ~Shadows(draining)
    BY <1>1, LocationFacts DEF Whole, Clear, NoSpace, Spaces
  <2>2. /\ grp[a].next = NULL \/ grp[b].total = 0
        /\ grp[a].total > 0 \/ grp[b].next = NULL
    <3>1. ~(grp[a].next # NULL /\ grp[b].total > 0) /\ ~(grp[a].total = 0 /\ grp[b].next # NULL)
      BY <1>1, <2>1 DEF Shadows
    <3> QED
      BY <1>1, <1>2, <3>1
  <2>3. grp'[a] = grp[a] /\ grp'[b] = grp[b]
    BY <1>1, <1>2
  <2> QED
    BY <1>1, <2>2, <2>3 DEF Clear
<1>6. Complete(o2)'
  <2>1. ToSet(grp'[new].msgs) = {}
    BY <1>1, SetOfEmpty, GroupFacts
  <2>2. \A g \in InUse(own) : grp'[g] = grp[g]
    BY <1>1, <1>2
  <2>3. \A x : Held(o2, x)' <=> Held(own, x)
    BY <1>4, <2>1, <2>2 DEF Held
  <2> QED
    BY <1>3, <1>4, <2>3 DEF Whole, Complete
<1> QED
  BY <1>5, <1>6 DEF Whole

(* mergeGrp: if more was taken over than the group that is merged, then it *)
(* is full, and fits an empty group only; but then nothing follows it.     *)
LEMMA WholeMerge ==
  ASSUME TypeInv, CountInv, NEW own \in [GroupIds -> Owners], Owned(own),
         NEW pos \in Positions, Laid(own, pos), Whole(own), MergeGrp
  PROVE  Whole(own)'
<1>0. PICK l, cur, nxt : MergeStep(own, l, cur, nxt)
  BY MergeEffect
<1>1. /\ l = Left(draining) /\ cur = loop.cur /\ nxt = loop.nxt
      /\ draining \in Spaces /\ loop' # NotLooping
      /\ nxt # NULL /\ cur # nxt
      /\ cur \in InUse(own) /\ own[cur] = l
      /\ nxt \in InUse(own) /\ own[nxt] = Merged /\ IsHead(own, nxt)
      /\ \A g : g \in live' /\ own[g] # Junk <=> g \in InUse(own) \ {nxt}
      /\ grp'[cur].msgs = grp[cur].msgs \o grp[nxt].msgs
      /\ grp[cur].total + grp[nxt].total <= splitSz
      /\ \A g \in live : g # cur => grp'[g] = grp[g]
      /\ loop'.cur = cur /\ loop'.nxt = grp[cur].next
  BY <1>0 DEF MergeStep
<1>2. \A g \in InUse(own) : g \in live /\ grp[g].total \in Nat /\ grp[g].msgs \in Seq(Nodes)
  BY NextFacts, GroupTypes
<1>3. arrived' = arrived /\ sent' = sent /\ unsent' = unsent
  BY DEF MergeGrp
<1>4. InUse(own)' = InUse(own) \ {nxt} /\ Stored' = Stored
  BY <1>1, <1>3 DEF InUse, Stored
<1>5. grp[nxt].next = NULL
  <2> SUFFICES ASSUME grp[nxt].next # NULL PROVE FALSE
    OBVIOUS
  <2>1. grp[nxt].total = splitSz /\ splitSz \in Nat
    BY <1>1, NextFacts
  <2>2. grp[cur].total > 0
    BY <1>1 DEF Whole, Clear
  <2> QED
    BY <1>1, <1>2, <2>1, <2>2
<1>6. ASSUME NEW g \in InUse(own), own[g] = Merged PROVE g = nxt
  <2>1. /\ pos[nxt] \in Int /\ pos[g] \in Int
        /\ pos[g] = pos[nxt] => g = nxt
        /\ pos[g] <= pos[nxt] /\ pos[nxt] <= pos[g]
    BY <1>1, <1>5, <1>6, NumberedFacts DEF Laid
  <2> QED
    BY <2>1
<1>7. Clear(own)'
  <2>1. loop'.nxt # NULL => own[loop'.nxt] # Merged
    <3>1. grp[cur].next # NULL => own[grp[cur].next] = l
      BY <1>1, NextFacts
    <3>2. l # Merged
      BY <1>1, LocationFacts, OwnerFacts
    <3> QED
      BY <1>1, <3>1, <3>2
  <2> QED
    BY <1>1, <1>4, <1>6, <2>1 DEF Clear
<1>8. Complete(own)'
  <2>1. ToSet(grp'[cur].msgs) = ToSet(grp[cur].msgs) \cup ToSet(grp[nxt].msgs)
    BY <1>1, <1>2, SetOfConcat
  <2>2. \A g \in InUse(own) : g # cur => grp'[g] = grp[g]
    BY <1>1, <1>2
  <2>3. \A x : Held(own, x)' <=> Held(own, x)
    BY <1>1, <1>4, <2>1, <2>2 DEF Held
  <2> QED
    BY <1>3, <1>4, <2>3 DEF Whole, Complete
<1> QED
  BY <1>7, <1>8 DEF Whole

(* SplitOff: all that stays is in one list.                                *)
LEMMA WholeSplit ==
  ASSUME TypeInv, NEW own \in [GroupIds -> Owners], Owned(own),
         NEW pos \in Positions, Laid(own, pos), Whole(own), SplitOff, Reliable,
         NEW o2 \in [GroupIds -> Owners],
         o2 = [g \in GroupIds |-> IF own[g] = own[loop.nxt] THEN Left(draining)
                                  ELSE IF own[g] = Left(draining) THEN Junk ELSE own[g]]
  PROVE  Whole(o2)'
<1>0. PICK l, cur, nxt : SplitStep(own, o2, l, cur, nxt)
  BY SplitEffect
<1>1. /\ l = Left(draining) /\ cur = loop.cur /\ nxt = loop.nxt
      /\ draining \in Spaces /\ l \in Locations
      /\ loop # NotLooping /\ loop' = NotLooping /\ nxt # NULL
      /\ draining' = draining \/ draining' = NoSpace
      /\ cur \in InUse(own) /\ own[cur] = l /\ IsHead(own, cur)
      /\ nxt \in InUse(own) /\ own[nxt] \in {l, Merged}
      /\ \A g \in live' : o2[g] # Junk => g \in InUse(own) \ {cur}
      /\ \A g \in InUse(own) :
           /\ o2[g] = IF own[g] = own[nxt] THEN l
                      ELSE IF own[g] = l THEN Junk ELSE own[g]
           /\ g # cur /\ o2[g] # Junk => g \in live'
      /\ grp' = grp
      /\ holder'[l].start = nxt
      /\ \A k \in Locations : k # l => holder'[k] = holder[k]
      /\ grp[cur].total + grp[nxt].total > splitSz
      /\ \/ sent' = sent \o grp[cur].msgs /\ unsent' = unsent
         \/ sent' = sent /\ unsent' = unsent \cup At(cur)
  BY <1>0 DEF SplitStep
<1>2. /\ \A g \in InUse(own) : g \in live /\ own[g] # Junk /\ grp[g].total \in Nat
                               /\ grp[g].msgs \in Seq(Nodes)
      /\ l # Junk
  BY <1>1, NextFacts, GroupTypes, OwnerFacts
<1>3. arrived' = arrived /\ Stored' = Stored
  BY DEF SplitOff, Deliver, Stored
<1>4. ASSUME NEW g \in InUse(own), own[g] = l, g # cur PROVE own[nxt] = l
  <2> SUFFICES ASSUME own[nxt] = Merged PROVE FALSE
    BY <1>1
  <2>1. grp[cur].next # NULL
    <3> SUFFICES ASSUME grp[cur].next = NULL PROVE FALSE
      OBVIOUS
    <3>1. /\ pos[cur] \in Int /\ pos[g] \in Int
          /\ pos[g] = pos[cur] => g = cur
          /\ pos[g] <= pos[cur] /\ pos[cur] <= pos[g]
      BY <1>1, <1>4, NumberedFacts DEF Laid
    <3> QED
      BY <1>4, <3>1
  <2>2. grp[cur].total = splitSz /\ splitSz \in Nat
    BY <1>1, <2>1, NextFacts
  <2>3. grp[nxt].total = 0
    BY <1>1, <2>1 DEF Whole, Clear
  <2> QED
    BY <1>1, <2>2, <2>3
<1>5. InUse(o2)' = InUse(own) \ {cur}
  <2>1. \A g \in InUse(own) : g # cur => o2[g] # Junk
    BY <1>1, <1>2, <1>4
  <2> QED
    BY <1>1, <2>1 DEF InUse
<1>6. Clear(o2)'
  <2>1. draining' # NoSpace => ~Shadows(draining)'
    <3> SUFFICES ASSUME draining' = draining PROVE ~Shadows(draining)'
      BY <1>1
    <3>1. Right(draining) \in Locations /\ Right(draining) # l
      BY <1>1, LocationFacts
    <3>2. grp[holder'[Right(draining)].start] = EmptyGroup
      BY <1>1, <3>1 DEF Laid, LoopPlace
    <3>3. EmptyGroup.total = 0 /\ EmptyGroup.next = NULL
      BY GroupFacts
    <3> QED
      BY <1>1, <3>2, <3>3 DEF Shadows
  <2>2. Laid(o2, pos)'
    BY LaidSplit
  <2>3. loop' = NotLooping /\ loop'.nxt = NULL
    BY <1>1, OwnerFacts
  <2>4. \A g \in InUse(o2)' : o2[g] # Merged
    BY <2>2, <2>3 DEF Laid, LoopPlace
  <2> QED
    BY <2>1, <2>3, <2>4 DEF Clear
<1>7. Complete(o2)'
  <2>1. \A x : Held(own, x) <=> Held(o2, x)' \/ x \in ToSet(grp[cur].msgs)
    BY <1>1, <1>5 DEF Held
  <2>2. sent \in Seq(Nodes) /\ grp[cur].msgs \in Seq(Nodes)
    BY <1>1, <1>2 DEF TypeInv, MessagesTyped
  <2>3. \A x : x \in ToSet(sent') \/ x \in unsent' <=>
                 x \in ToSet(sent) \/ x \in unsent \/ x \in ToSet(grp[cur].msgs)
    <3>1. ToSet(sent \o grp[cur].msgs) = ToSet(sent) \cup ToSet(grp[cur].msgs)
      BY <2>2, SetOfConcat
    <3>2. CASE sent' = sent \o grp[cur].msgs /\ unsent' = unsent
      BY <3>1, <3>2
    <3>3. CASE sent' = sent /\ unsent' = unsent \cup ToSet(grp[cur].msgs)
      BY <3>3
    <3> QED
      BY <1>1, <3>2, <3>3 DEF At
  <2> QED
    BY <1>3, <2>1, <2>3 DEF Whole, Complete
<1> QED
  BY <1>6, <1>7 DEF Whole

(* LastBatch: the group of the batch is the last that is left.             *)
LEMMA WholeLast ==
  ASSUME TypeInv, NEW own \in [GroupIds -> Owners], Owned(own),
         NEW pos \in Positions, Laid(own, pos), Whole(own), LastBatch,
         NEW o2 \in [GroupIds -> Owners],
         o2 = [g \in GroupIds |-> IF g = NewGroup THEN Left(draining)
                                  ELSE IF own[g] \in {Left(draining), Merged} THEN Junk
                                  ELSE own[g]]
  PROVE  Whole(o2)'
<1>0. PICK l, cur, new : LastStep(own, o2, l, cur, new)
  BY LastEffect
<1>1. /\ l = Left(draining) /\ cur = loop.cur
      /\ draining \in Spaces /\ l \in Locations /\ draining' = NoSpace
      /\ loop # NotLooping /\ loop' = NotLooping /\ loop.nxt = NULL
      /\ cur \in InUse(own) /\ own[cur] = l /\ IsHead(own, cur)
      /\ \A g \in live' : o2[g] # Junk => g \in (InUse(own) \ {cur}) \cup {new}
      /\ new \in live' /\ o2[new] = l
      /\ \A g \in InUse(own) :
           /\ g # new /\ grp'[g] = grp[g]
           /\ o2[g] = IF own[g] \in {l, Merged} THEN Junk ELSE own[g]
           /\ g # cur /\ o2[g] # Junk => g \in live'
      /\ grp'[new] = EmptyGroup
      /\ \/ sent' = sent \o grp[cur].msgs /\ unsent' = unsent
         \/ sent' = sent /\ unsent' = unsent \cup At(cur)
  BY <1>0 DEF LastStep
<1>2. /\ \A g \in InUse(own) : g \in live /\ own[g] # Junk /\ grp[g].msgs \in Seq(Nodes)
      /\ l # Junk /\ l # Merged
  BY <1>1, NextFacts, GroupTypes, OwnerFacts
<1>3. arrived' = arrived /\ Stored' = Stored
  BY DEF LastBatch, Deliver, Stored
<1>4. ASSUME NEW g \in InUse(own), own[g] \in {l, Merged} PROVE g = cur
  <2>1. own[g] = l
    BY <1>1, <1>4 DEF Whole, Clear
  <2>2. grp[cur].next = NULL
    BY <1>1 DEF Laid, LoopPlace
  <2>3. /\ pos[cur] \in Int /\ pos[g] \in Int
        /\ pos[g] = pos[cur] => g = cur
        /\ pos[g] <= pos[cur] /\ pos[cur] <= pos[g]
    BY <1>1, <2>1, <2>2, NumberedFacts DEF Laid
  <2> QED
    BY <2>3
<1>5. InUse(o2)' = (InUse(own) \ {cur}) \cup {new}
  <2>1. \A g \in InUse(own) : g # cur => o2[g] # Junk
    BY <1>1, <1>2, <1>4
  <2> QED
    BY <1>1, <1>2, <2>1 DEF InUse
<1>6. Clear(o2)'
  <2>1. \A g \in InUse(own) : g # cur => o2[g] # Merged
    BY <1>1, <1>4, OwnerFacts
  <2>2. \A g \in InUse(o2)' : o2[g] # Merged
    BY <1>1, <1>2, <1>5, <2>1
  <2>3. draining' = NoSpace /\ loop'.nxt = NULL
    BY <1>1, OwnerFacts
  <2> QED
    BY <2>2, <2>3 DEF Clear
<1>7. Complete(o2)'
  <2>1. ToSet(grp'[new].msgs) = {}
    BY <1>1, SetOfEmpty, GroupFacts
  <2>2. \A x : Held(own, x) <=> Held(o2, x)' \/ x \in ToSet(grp[cur].msgs)
    BY <1>1, <1>5, <2>1 DEF Held
  <2>3. sent \in Seq(Nodes) /\ grp[cur].msgs \in Seq(Nodes)
    BY <1>1, <1>2 DEF TypeInv, MessagesTyped
  <2>4. \A x : x \in ToSet(sent') \/ x \in unsent' <=>
                 x \in ToSet(sent) \/ x \in unsent \/ x \in ToSet(grp[cur].msgs)
    <3>1. ToSet(sent \o grp[cur].msgs) = ToSet(sent) \cup ToSet(grp[cur].msgs)
      BY <2>3, SetOfConcat
    <3>2. CASE sent' = sent \o grp[cur].msgs /\ unsent' = unsent
      BY <3>1, <3>2
    <3>3. CASE sent' = sent /\ unsent' = unsent \cup ToSet(grp[cur].msgs)
      BY <3>3
    <3> QED
      BY <1>1, <3>2, <3>3 DEF At
  <2> QED
    BY <1>3, <2>2, <2>4 DEF Whole, Complete
<1> QED
  BY <1>6, <1>7 DEF Whole

(* All groups in use can be reached: the queues from where they start, and *)
(* what was taken over from the group that comes next.                     *)
LEMMA WholeIsKept ==
  ASSUME TypeInv, NEW own \in [GroupIds -> Owners], Owned(own),
         NEW pos \in Positions, Laid(own, pos), Whole(own)
  PROVE  NothingDropped
<1>1. \A g \in InUse(own) : own[g] \in Locations \/ own[g] = Merged
  BY NextFacts DEF Owners
<1>2. \A l \in Locations : GroupsOf(l) = QueueOf(own, l)
  <2> SUFFICES ASSUME NEW l \in Locations PROVE GroupsOf(l) = QueueOf(own, l)
    OBVIOUS
  <2>1. CASE l # Left(draining) \/ loop = NotLooping
    BY <2>1, QueueIs
  <2>2. CASE l = Left(draining) /\ loop # NotLooping
    <3>1. /\ loop.cur = holder[l].start /\ loop.cur \in InUse(own)
          /\ own[loop.cur] = l /\ IsHead(own, loop.cur)
      BY <2>2, LoopCurFacts DEF Laid, LoopPlace
    <3> QED
      BY <3>1, Reaches DEF GroupsOf, Laid
  <2> QED
    BY <2>1, <2>2
<1> DEFINE ofLists == UNION {GroupsOf(l) : l \in Locations}
           ofLoop == IF loop = NotLooping THEN {}
                     ELSE {loop.cur} \cup ListFrom[MaxGroups][loop.nxt]
<1>3. ofLists = {g \in InUse(own) : own[g] \in Locations}
  BY <1>2 DEF QueueOf
<1>4. ofLoop \subseteq InUse(own) /\ \A g \in InUse(own) : own[g] = Merged => g \in ofLoop
  <2>1. CASE loop = NotLooping
    BY <2>1 DEF Laid, LoopPlace
  <2>2. CASE loop # NotLooping
    <3>1. loop.cur \in InUse(own)
      BY <2>2, LoopCurFacts
    <3>2. CASE loop.nxt = NULL
      <4>1. ListFrom[MaxGroups][NULL] \subseteq QueueOf(own, Junk)
        BY ReachesOwn, ListSteps
      <4>2. QueueOf(own, Junk) = {}
        BY DEF QueueOf, InUse
      <4>3. \A g \in InUse(own) : own[g] # Merged
        BY <3>2 DEF Whole, Clear
      <4> QED
        BY <2>2, <3>1, <3>2, <4>1, <4>2, <4>3
    <3>3. CASE loop.nxt # NULL /\ own[loop.nxt] = Merged
      <4>1. loop.nxt \in InUse(own) /\ IsHead(own, loop.nxt)
        <5>1. loop.nxt \in InUse(own)
          BY <2>2, <3>3, LoopCurFacts
        <5>2. Left(draining) # Merged
          BY <2>2, LoopCurFacts, OwnerFacts
        <5> QED
          BY <2>2, <3>3, <5>1, <5>2, LoopCurFacts
      <4>2. ListFrom[MaxGroups][loop.nxt] = QueueOf(own, Merged)
        BY <3>3, <4>1, Reaches DEF Laid
      <4> QED
        BY <2>2, <3>1, <4>2 DEF QueueOf
    <3>4. CASE loop.nxt # NULL /\ own[loop.nxt] # Merged
      <4>1. loop.nxt \in QueueOf(own, own[loop.nxt])
        BY <2>2, <3>4, LoopCurFacts DEF QueueOf
      <4>2. ListFrom[MaxGroups][loop.nxt] \subseteq QueueOf(own, own[loop.nxt])
        BY <4>1, ReachesOwn, ListSteps
      <4>3. \A g \in InUse(own) : own[g] # Merged
        BY <3>4 DEF Laid, LoopPlace
      <4> QED
        BY <2>2, <3>1, <4>2, <4>3 DEF QueueOf
    <3> QED
      BY <3>2, <3>3, <3>4
  <2> QED
    BY <2>1, <2>2
<1>5. ofLists \cup ofLoop = InUse(own)
  BY <1>1, <1>3, <1>4
<1>6. Waiting = UNION {ToSet(grp[g].msgs) : g \in ofLists \cup ofLoop}
  BY Zenon DEF Waiting
<1> HIDE DEF ofLists, ofLoop
<1>7. \A x : x \in Waiting <=> Held(own, x)
  BY <1>5, <1>6 DEF Held
<1>8. \A x : x \in Stored <=> x \in Waiting \/ x \in ToSet(sent) \/ x \in unsent
  BY <1>7 DEF Whole, Complete
<1> QED
  BY <1>8 DEF NothingDropped

-----------------------------------------------------------------------------
(* The invariant, and the steps.                                           *)
Orderly(own, pos) ==
  /\ Owned(own) /\ Laid(own, pos) /\ InOrder(own, pos)
  /\ shadowed \/ Whole(own)

OrderInv ==
  /\ TypeInv /\ FreshInv /\ Arrivals /\ CountInv
  /\ \E own \in [GroupIds -> Owners], pos \in Positions : Orderly(own, pos)

(* All of the invariant holds of an empty store.                           *)
LEMMA OrderInvInit == Init => OrderInv
<1> SUFFICES ASSUME Init PROVE OrderInv
  OBVIOUS
<1>1. PICK own \in [GroupIds -> Owners] :
        own = [g \in GroupIds |-> IF g \in 1..4 THEN g + 1 ELSE Junk] /\ Owned(own)
  BY HeapInit
<1>2. PICK pos \in Positions : TRUE
  <2>1. [g \in GroupIds |-> 0] \in Positions
    BY DEF Positions
  <2> QED
    BY <2>1
<1>3. Laid(own, pos)
  BY <1>1, LaidInit
<1>4. /\ \A g \in GroupIds : grp[g] = EmptyGroup
      /\ \A l \in Locations : arrived[l] = <<>>
      /\ live \subseteq GroupIds
      /\ sent = <<>> /\ unsent = {} /\ loop = NotLooping /\ draining = NoSpace
  BY StoreAssumption DEF Init, GroupIds
<1>5. /\ Arrivals /\ Stored = {}
  BY <1>4, SetOfEmpty DEF Arrivals, Stored
<1>6. \A g \in InUse(own) : ToSet(grp[g].msgs) = {} /\ Sorted(arrived, grp[g].msgs)
  <2>1. Sorted(arrived, <<>>)
    BY DEF Sorted
  <2> QED
    BY <1>4, <2>1, SetOfEmpty, GroupFacts DEF InUse
<1>7. InOrder(own, pos)
  <2>1. Sorted(arrived, sent) /\ ToSet(sent) = {}
    BY <1>4, SetOfEmpty DEF Sorted
  <2> QED
    BY <1>6, <2>1 DEF InOrder, Earlier
<1>8. Whole(own)
  <2>1. Clear(own)
    <3>1. \A g \in InUse(own) : own[g] # Merged
      BY <1>3, <1>4 DEF Laid, LoopPlace
    <3> QED
      BY <1>4, <3>1, OwnerFacts DEF Clear
  <2>2. Complete(own)
    BY <1>4, <1>5, <1>6, SetOfEmpty DEF Complete, Held
  <2> QED
    BY <2>1, <2>2 DEF Whole
<1>9. Orderly(own, pos)
  BY <1>1, <1>3, <1>7, <1>8 DEF Orderly
<1> QED
  BY <1>5, <1>9, TypeInit, FreshInit, HeapInit DEF OrderInv

(* What is stored is new.                                                  *)
LEMMA OrderlyQueue ==
  ASSUME TypeInv, CountInv, Arrivals, NEW own \in [GroupIds -> Owners], NEW pos \in Positions,
         Orderly(own, pos),
         NEW l \in Locations, l % 2 # draining, NEW node \in Nodes, node \notin Stored,
         QueueMessage(l, node), UNCHANGED <<loop, draining, sent, unsent, shadowed>>
  PROVE  /\ CountInv' /\ Arrivals'
         /\ \E o2 \in [GroupIds -> Owners], p2 \in Positions : Orderly(o2, p2)'
<1>1. Owned(own) /\ Laid(own, pos) /\ InOrder(own, pos) /\ (shadowed \/ Whole(own))
  BY DEF Orderly
<1>2. Arrivals'
  BY ArrivalsGrow
<1>3. CASE ~GroupIsFull(grp[holder[l].cur])
  <2>1. CountInv' /\ Owned(own)'
    BY <1>1, <1>3, QueueSameGroup
  <2>2. Laid(own, pos)'
    BY <1>1, <1>3, LaidRoom
  <2>3. InOrder(own, pos)'
    BY <1>1, <1>3, OrderRoom
  <2>4. shadowed' \/ Whole(own)'
    BY <1>1, <1>3, WholeRoom
  <2>5. Orderly(own, pos)'
    BY <2>1, <2>2, <2>3, <2>4 DEF Orderly
  <2> QED
    BY <1>2, <2>1, <2>5
<1>4. CASE GroupIsFull(grp[holder[l].cur])
  <2>1. /\ CountInv'
        /\ \E o2 \in [GroupIds -> Owners] : o2 = [own EXCEPT ![NewGroup] = l] /\ Owned(o2)'
    BY <1>1, <1>4, QueueNewGroup
  <2>2. PICK o2 \in [GroupIds -> Owners] : o2 = [own EXCEPT ![NewGroup] = l] /\ Owned(o2)'
    BY <2>1
  <2>3. PICK p2 \in Positions : p2 = [pos EXCEPT ![NewGroup] = pos[holder[l].cur] + 1]
    <3>1. holder[l].cur \in GroupIds
      BY <1>1, QueueEnd
    <3>2. pos[holder[l].cur] + 1 \in Int
      BY <3>1 DEF Positions
    <3> QED
      BY <3>2 DEF Positions
  <2>4. Laid(o2, p2)'
    BY <1>1, <1>4, <2>2, <2>3, LaidFull
  <2>5. InOrder(o2, p2)'
    BY <1>1, <1>4, <2>2, <2>3, OrderFull
  <2>6. shadowed' \/ Whole(o2)'
    BY <1>1, <1>4, <2>2, WholeFull
  <2>7. Orderly(o2, p2)'
    BY <2>2, <2>4, <2>5, <2>6 DEF Orderly
  <2> QED
    BY <1>2, <2>1, <2>7
<1> QED
  BY <1>3, <1>4

(* The three parts together, for each kind of step: the heap is left       *)
(* alone,                                                                  *)
LEMMA OrderlyUnchanged ==
  ASSUME TypeInv, CountInv, Arrivals, NEW own \in [GroupIds -> Owners], NEW pos \in Positions,
         Orderly(own, pos), UNCHANGED <<heapVars, loop, sent, unsent, arrived>>,
         draining' = draining \/ draining = NoSpace,
         ~shadowed' => ~shadowed /\ (draining' = draining \/ ~Shadows(draining'))
  PROVE  CountInv' /\ Arrivals' /\ Orderly(own, pos)'
<1>1. Owned(own) /\ Laid(own, pos) /\ InOrder(own, pos) /\ (shadowed \/ Whole(own))
  BY DEF Orderly
<1>2. CountInv' /\ Owned(own)'
  BY <1>1, HeapUnchanged
<1>3. Laid(own, pos)'
  BY <1>1, LaidUnchanged
<1>4. InOrder(own, pos)'
  BY <1>1, OrderUnchanged
<1>5. shadowed' \/ Whole(own)'
  BY <1>1, WholeUnchanged
<1>6. Arrivals'
  BY DEF Arrivals
<1> QED
  BY <1>2, <1>3, <1>4, <1>5, <1>6 DEF Orderly

(* the right queue is taken over,                                          *)
LEMMA OrderlyTakeOver ==
  ASSUME TypeInv, CountInv, Arrivals, NEW own \in [GroupIds -> Owners], NEW pos \in Positions,
         Orderly(own, pos), MergeEntries
  PROVE  /\ CountInv' /\ Arrivals'
         /\ \E o2 \in [GroupIds -> Owners], p2 \in Positions : Orderly(o2, p2)'
<1>1. Owned(own) /\ Laid(own, pos) /\ InOrder(own, pos) /\ (shadowed \/ Whole(own))
  BY DEF Orderly
<1>2. /\ CountInv'
      /\ \E o2 \in [GroupIds -> Owners] :
           /\ o2 = [g \in GroupIds |->
                      IF g = NewGroup THEN Right(draining)
                      ELSE IF own[g] = Right(draining) THEN Merged ELSE own[g]]
           /\ Owned(o2)'
  BY <1>1, MergeEntriesHeap
<1>3. PICK o2 \in [GroupIds -> Owners] :
        /\ o2 = [g \in GroupIds |->
                   IF g = NewGroup THEN Right(draining)
                   ELSE IF own[g] = Right(draining) THEN Merged ELSE own[g]]
        /\ Owned(o2)'
  BY <1>2
<1>4. PICK p2 \in Positions : p2 = [pos EXCEPT ![NewGroup] = 0]
  BY RenumberPositions
<1>5. Laid(o2, p2)'
  BY <1>1, <1>3, <1>4, LaidTakeOver
<1>6. InOrder(o2, p2)'
  BY <1>1, <1>3, <1>4, OrderTakeOver
<1>7. shadowed' \/ Whole(o2)'
  BY <1>1, <1>3, WholeTakeOver DEF MergeEntries
<1>8. Arrivals'
  BY DEF Arrivals, MergeEntries
<1>9. Orderly(o2, p2)'
  BY <1>3, <1>5, <1>6, <1>7 DEF Orderly
<1> QED
  BY <1>2, <1>8, <1>9

(* a group is merged,                                                      *)
LEMMA OrderlyMerge ==
  ASSUME TypeInv, CountInv, Arrivals, NEW own \in [GroupIds -> Owners], NEW pos \in Positions,
         Orderly(own, pos), MergeGrp
  PROVE  CountInv' /\ Arrivals' /\ Orderly(own, pos)'
<1>1. Owned(own) /\ Laid(own, pos) /\ InOrder(own, pos) /\ (shadowed \/ Whole(own))
  BY DEF Orderly
<1>2. CountInv' /\ Owned(own)'
  BY <1>1, MergeGrpHeap
<1>3. Laid(own, pos)'
  BY <1>1, LaidMerge
<1>4. InOrder(own, pos)'
  BY <1>1, OrderMerge
<1>5. shadowed' \/ Whole(own)'
  BY <1>1, WholeMerge DEF MergeGrp
<1>6. Arrivals'
  BY DEF Arrivals, MergeGrp
<1> QED
  BY <1>2, <1>3, <1>4, <1>5, <1>6 DEF Orderly

(* a group is split off,                                                   *)
LEMMA OrderlySplit ==
  ASSUME TypeInv, CountInv, Arrivals, NEW own \in [GroupIds -> Owners], NEW pos \in Positions,
         Orderly(own, pos), SplitOff, Reliable
  PROVE  /\ CountInv' /\ Arrivals'
         /\ \E o2 \in [GroupIds -> Owners], p2 \in Positions : Orderly(o2, p2)'
<1>1. Owned(own) /\ Laid(own, pos) /\ InOrder(own, pos) /\ (shadowed \/ Whole(own))
  BY DEF Orderly
<1>2. /\ CountInv'
      /\ \E o2 \in [GroupIds -> Owners] :
           /\ o2 = [g \in GroupIds |->
                      IF own[g] = own[loop.nxt] THEN Left(draining)
                      ELSE IF own[g] = Left(draining) THEN Junk ELSE own[g]]
           /\ Owned(o2)'
  BY <1>1, SplitOffHeap
<1>3. PICK o2 \in [GroupIds -> Owners] :
        /\ o2 = [g \in GroupIds |->
                   IF own[g] = own[loop.nxt] THEN Left(draining)
                   ELSE IF own[g] = Left(draining) THEN Junk ELSE own[g]]
        /\ Owned(o2)'
  BY <1>2
<1>4. Laid(o2, pos)'
  BY <1>1, <1>3, LaidSplit
<1>5. InOrder(o2, pos)'
  BY <1>1, <1>3, OrderSplit
<1>6. shadowed' \/ Whole(o2)'
  BY <1>1, <1>3, WholeSplit DEF SplitOff, Deliver
<1>7. Arrivals'
  BY DEF Arrivals, SplitOff, Deliver
<1>8. Orderly(o2, pos)'
  BY <1>3, <1>4, <1>5, <1>6 DEF Orderly
<1> QED
  BY <1>2, <1>7, <1>8

(* the last batch is given away.                                           *)
LEMMA OrderlyLast ==
  ASSUME TypeInv, CountInv, Arrivals, NEW own \in [GroupIds -> Owners], NEW pos \in Positions,
         Orderly(own, pos), LastBatch
  PROVE  /\ CountInv' /\ Arrivals'
         /\ \E o2 \in [GroupIds -> Owners], p2 \in Positions : Orderly(o2, p2)'
<1>1. Owned(own) /\ Laid(own, pos) /\ InOrder(own, pos) /\ (shadowed \/ Whole(own))
  BY DEF Orderly
<1>2. /\ CountInv'
      /\ \E o2 \in [GroupIds -> Owners] :
           /\ o2 = [g \in GroupIds |->
                      IF g = NewGroup THEN Left(draining)
                      ELSE IF own[g] \in {Left(draining), Merged} THEN Junk ELSE own[g]]
           /\ Owned(o2)'
  BY <1>1, LastBatchHeap
<1>3. PICK o2 \in [GroupIds -> Owners] :
        /\ o2 = [g \in GroupIds |->
                   IF g = NewGroup THEN Left(draining)
                   ELSE IF own[g] \in {Left(draining), Merged} THEN Junk ELSE own[g]]
        /\ Owned(o2)'
  BY <1>2
<1>4. PICK p2 \in Positions : p2 = [pos EXCEPT ![NewGroup] = 0]
  BY RenumberPositions
<1>5. Laid(o2, p2)'
  BY <1>1, <1>3, <1>4, LaidLast
<1>6. InOrder(o2, p2)'
  BY <1>1, <1>3, <1>4, OrderLast
<1>7. shadowed' \/ Whole(o2)'
  BY <1>1, <1>3, WholeLast DEF LastBatch, Deliver
<1>8. Arrivals'
  BY DEF Arrivals, LastBatch, Deliver
<1>9. Orderly(o2, p2)'
  BY <1>3, <1>5, <1>6, <1>7 DEF Orderly
<1> QED
  BY <1>2, <1>8, <1>9

(* The invariant is inductive.                                             *)
LEMMA OrderInvStep == OrderInv /\ [Next]_vars /\ Reliable => OrderInv'
<1> SUFFICES ASSUME OrderInv, [Next]_vars, Reliable PROVE OrderInv'
  OBVIOUS
<1>1. TypeInv /\ FreshInv /\ Arrivals /\ CountInv
  BY DEF OrderInv
<1>2. PICK own \in [GroupIds -> Owners], pos \in Positions : Orderly(own, pos)
  BY DEF OrderInv
<1>3. TypeInv'
  BY <1>1, TypeStep
<1>4. FreshInv'
  BY <1>1, FreshStep DEF TypeInv, MessagesTyped
<1> DEFINE Goal == /\ CountInv' /\ Arrivals'
                   /\ \E o2 \in [GroupIds -> Owners], p2 \in Positions : Orderly(o2, p2)'
<1> SUFFICES Goal
  BY <1>3, <1>4 DEF OrderInv
<1>5. ASSUME NEW id \in Locations, FlushMsg(id) PROVE Goal
  <2>1. <<made + 1>> \in Nodes /\ <<made + 1>> \notin Stored
    BY <1>1, <1>5, FlushMsgNode
  <2>2. /\ id % 2 # draining /\ QueueMessage(id, <<made + 1>>)
        /\ UNCHANGED <<loop, draining, sent, unsent, shadowed>>
    BY <1>5 DEF FlushMsg, drainVars
  <2> QED
    BY <1>1, <1>2, <2>1, <2>2, OrderlyQueue
<1>6. ASSUME NEW id \in Locations, FlushMsgGrp(id) PROVE Goal
  <2>1. curMsgGrp \in Nodes /\ curMsgGrp \notin Stored
    BY <1>1, <1>6, FlushMsgGrpNode DEF FlushMsgGrp
  <2>2. id % 2 # draining
    BY <1>6, LocationFacts, SpaceOf DEF FlushMsgGrp, Spaces, NoSpace
  <2>3. /\ QueueMessage(id, curMsgGrp)
        /\ UNCHANGED <<loop, draining, sent, unsent, shadowed>>
    BY <1>6 DEF FlushMsgGrp, drainVars
  <2> QED
    BY <1>1, <1>2, <2>1, <2>2, <2>3, OrderlyQueue
<1>7. ASSUME UNCHANGED <<heapVars, loop, sent, unsent, arrived>>,
             draining' = draining \/ draining = NoSpace,
             ~shadowed' => ~shadowed /\ (draining' = draining \/ ~Shadows(draining'))
      PROVE  Goal
  BY <1>1, <1>2, <1>7, OrderlyUnchanged
<1>8. ASSUME NEW s \in Spaces, StartConsume(s) PROVE Goal
  <2>1. /\ UNCHANGED <<heapVars, loop, sent, unsent, arrived>>
        /\ draining = NoSpace /\ draining' = s
        /\ shadowed' = (shadowed \/ Shadows(s))
    BY <1>8 DEF StartConsume
  <2>2. ~shadowed' => ~shadowed /\ ~Shadows(draining')
    BY <2>1
  <2> QED
    BY <1>7, <2>1, <2>2
<1>9. CASE IncludeMessage
  BY <1>7, <1>9 DEF IncludeMessage, drainVars
<1>10. CASE UNCHANGED vars
  BY <1>7, <1>10 DEF vars, drainVars
<1>11. CASE MergeEntries
  BY <1>1, <1>2, <1>11, OrderlyTakeOver
<1>12. CASE MergeGrp
  BY <1>1, <1>2, <1>12, OrderlyMerge
<1>13. CASE SplitOff
  <2>1. \E o2 \in [GroupIds -> Owners], p2 \in Positions : Orderly(o2, p2)'
    BY <1>1, <1>2, <1>13, OrderlySplit
  <2>2. CountInv' /\ Arrivals'
    BY <1>1, <1>2, <1>13, OrderlySplit
  <2> QED
    BY <2>1, <2>2
<1>14. CASE LastBatch
  BY <1>1, <1>2, <1>14, OrderlyLast
<1>15. \A s \in UsedSpaces : s \in Spaces /\ {Left(s), Right(s)} \subseteq Locations
  BY StoreAssumption, LocationFacts DEF Spaces
<1> HIDE DEF Goal
<1> QED
  BY <1>5, <1>6, <1>8, <1>9, <1>10, <1>11, <1>12, <1>13, <1>14, <1>15 DEF Next

(* It holds of every state the program reaches.                            *)
LEMMA OrderInvHolds == ASSUME Reliable PROVE Spec => []OrderInv
<1>1. OrderInv /\ [Next]_vars => OrderInv'
  BY OrderInvStep
<1> QED
  BY <1>1, OrderInvInit, PTL DEF Spec

(* ListsWellFormed: no drain, merge, split or failed send leaves a queue   *)
(* with a freed group, or without the group that is appended to.           *)
THEOREM ListsCorrect == ASSUME Reliable PROVE Spec => []ListsWellFormed
<1>1. OrderInv => ListsWellFormed
  BY LaidIsWellFormed DEF OrderInv, Orderly
<1> QED
  BY <1>1, OrderInvHolds, PTL

(* FirstInFirstOut: the order of arrival at a location is the order in     *)
(* which its nodes are sent, however queues are merged and split.          *)
THEOREM SentInOrder == ASSUME Reliable PROVE Spec => []FirstInFirstOut
<1>1. OrderInv => FirstInFirstOut
  BY OrderIsFifo DEF OrderInv, Orderly, InOrder
<1> QED
  BY <1>1, OrderInvHolds, PTL

(* DroppedOnlyByShadow: a node is dropped only if a drain found lists that *)
(* mergeEntries cannot join.                                               *)
THEOREM DroppedOnlyIfShadowed == ASSUME Reliable PROVE Spec => []DroppedOnlyByShadow
<1>1. OrderInv => DroppedOnlyByShadow
  BY WholeIsKept DEF OrderInv, Orderly, DroppedOnlyByShadow
<1> QED
  BY <1>1, OrderInvHolds, PTL
=============================================================================

---------------------------- MODULE MessageStore ----------------------------
(***************************************************************************)
(* MessageStore.c: the four queues behind the locations of ThreadSync.     *)
(* Each is a MsgGroupHolder: a list of message groups, the first of which  *)
(* is startGrp and the last curMsgGrp.  A group is a list of nodes that    *)
(* starts with a sentinel; "tail" is the node lastNode points to (0 is the *)
(* sentinel).  The drain of a space merges the right queue into the left   *)
(* one and retrieves the messages in batches of at most splitSz.           *)
(*                                                                         *)
(* Groups live on a heap of identities, so that a pointer to a freed group *)
(* can be told from one to a live group.  The entry mutexes make every     *)
(* operation on a location atomic (StoreExclusive of ThreadSync); the loop *)
(* of onGetMsgSplit is still one action per iteration.  Message texts and  *)
(* sizes are left out: a line is a number, a node the sequence of lines    *)
(* that its string consists of.                                            *)
(***************************************************************************)
EXTENDS Integers, FiniteSets, SequencesExt

CONSTANTS
  SocketMsgLimit,  \* the "Socket Message Limit" of the properties file
  UsedSpaces,      \* the spaces that are filled and drained (bound)
  MaxLines,        \* lines ever reported (bound)
  MaxGroups,       \* groups on the heap (bound)
  SendMayFail      \* may send() return SOCKET_ERROR?

ASSUME StoreAssumption ==
  /\ SocketMsgLimit \in Int
  /\ UsedSpaces \subseteq {0, 1}
  /\ MaxLines \in Nat
  /\ MaxGroups \in Nat /\ MaxGroups >= 4
  /\ SendMayFail \in BOOLEAN

Spaces == {0, 1}
LEFT_ENTRY == 2
RIGHT_ENTRY == 4
Locations == {s + e : s \in Spaces, e \in {LEFT_ENTRY, RIGHT_ENTRY}}

GroupIds == 1..MaxGroups
NULL == 0
NoSpace == -1
Lines == 1..MaxLines
Nodes == Seq(Lines)

isToBeSplit == SocketMsgLimit > 0
splitSz == IF isToBeSplit THEN SocketMsgLimit ELSE 0

VARIABLES
  grp,             \* the heap: contents of the groups
  live,            \* the groups that are allocated
  holder,          \* the four MsgGroupHolders
  curMsgGrp,       \* the agent's message group: lines included so far
  made,            \* lines created so far
  draining,        \* the space the consumer works on
  loop,            \* locals of onGetMsgSplit while it runs
  batch,           \* nodes of the batch retrieved last
  arrived,         \* history: nodes stored, per location
  sent,            \* history: nodes sent to the client
  unsent,          \* history: nodes of a batch whose send failed
  shadowed         \* history: has a drain hidden groups? (see Shadows)

heapVars == <<grp, live, holder>>
drainVars == <<draining, loop, batch, sent, unsent>>
vars == <<heapVars, curMsgGrp, made, drainVars, arrived, shadowed>>

EmptyGroup == [msgs |-> <<>>, tail |-> 0, total |-> 0, next |-> NULL]
NotLooping == [cur |-> NULL, nxt |-> NULL, tot |-> 0]

(* getMsgGroupHolder: bit 0 of the id is the space, bit 1 the left entry.  *)
LocationOf(id) ==
  LET space == id % 2
      isLeft == (id \div 2) % 2 = 1
  IN  space + (IF isLeft THEN LEFT_ENTRY ELSE RIGHT_ENTRY)

Left(s) == s + LEFT_ENTRY
Right(s) == s + RIGHT_ENTRY

(* What malloc returns: an identity that is not in use.                    *)
Free == GroupIds \ live
NewGroup == CHOOSE g \in Free : TRUE

Init ==
  /\ grp = [g \in GroupIds |-> EmptyGroup]
  /\ live = 1..4
  /\ holder = [l \in Locations |->
                 [start |-> l - 1, cur |-> l - 1, next |-> NULL]]
  /\ curMsgGrp = <<>>
  /\ made = 0
  /\ draining = NoSpace
  /\ loop = NotLooping
  /\ batch = <<>>
  /\ arrived = [l \in Locations |-> <<>>]
  /\ sent = <<>>
  /\ unsent = {}
  /\ shadowed = FALSE

-----------------------------------------------------------------------------
(* What a node holds once it hangs behind lastNode: a node that followed   *)
(* lastNode is cut off.                                                    *)
Linked(g, nodes) == SubSeq(g.msgs, 1, g.tail) \o nodes

PrependNode(g, node) ==
  [g EXCEPT !.msgs = <<node>> \o g.msgs, !.tail = g.tail + 1, !.total = g.total + 1]

AppendKeepsLast(g, node) ==
  [g EXCEPT !.msgs = Linked(g, <<node>>), !.total = g.total + 1]

AppendNode(g, node) ==
  [g EXCEPT !.msgs = Linked(g, <<node>>), !.tail = g.tail + 1, !.total = g.total + 1]

FullAtOneMore(g) == isToBeSplit /\ splitSz < g.total

GroupIsFull(g) == isToBeSplit /\ splitSz <= g.total

(* onQueueMessage.  nextGrp of the holder is left as it is.                *)
QueueMessage(id, node) ==
  LET l == LocationOf(id)
      c == holder[l].cur
      new == NewGroup
  IN  /\ IF GroupIsFull(grp[c])
         THEN /\ Free # {}
              /\ live' = live \cup {new}
              /\ grp' = [grp EXCEPT ![c].next = new,
                                    ![new] = AppendNode(EmptyGroup, node)]
              /\ holder' = [holder EXCEPT ![l].cur = new]
         ELSE /\ grp' = [grp EXCEPT ![c] = AppendNode(@, node)]
              /\ UNCHANGED <<live, holder>>
      /\ arrived' = [arrived EXCEPT ![id] = Append(@, node)]

(* onFlushMsg: a JVM thread reports one line.  The drained space is closed *)
(* to it.                                                                  *)
FlushMsg(id) ==
  /\ id % 2 # draining
  /\ made < MaxLines
  /\ made' = made + 1
  /\ QueueMessage(id, <<made + 1>>)
  /\ UNCHANGED <<curMsgGrp, drainVars, shadowed>>

(* includeMessage(FALSE): the agent thread collects lines between drains.  *)
(* startMsgGrp always precedes the first line (JVMHeapScan.c:194, 205).    *)
IncludeMessage ==
  /\ draining = NoSpace
  /\ made < MaxLines
  /\ made' = made + 1
  /\ curMsgGrp' = Append(curMsgGrp, made + 1)
  /\ UNCHANGED <<heapVars, drainVars, arrived, shadowed>>

(* flushMsgGrp: the whole group becomes one node.  The code would flush a  *)
(* group without a line as well, as two bytes nobody wrote (lines 115 and  *)
(* 138); but each class and each reference the JVM reports is a line, and  *)
(* there are always some (JVMHeapScan.c:122, 174).                         *)
FlushMsgGrp(id) ==
  /\ draining = NoSpace
  /\ curMsgGrp # <<>>
  /\ QueueMessage(id, curMsgGrp)
  /\ curMsgGrp' = <<>>
  /\ UNCHANGED <<made, drainVars, shadowed>>

-----------------------------------------------------------------------------
(* A holder has one nextGrp, which mergeEntries points at the right queue: *)
(* if the left queue already has a second group, or if the first group is  *)
(* empty and merges with the first of several right groups, the rest of    *)
(* one of the lists is no longer reachable.                                *)
Shadows(s) ==
  LET l == grp[holder[Left(s)].start]
      r == grp[holder[Right(s)].start]
  IN  \/ l.next # NULL /\ r.total > 0
      \/ l.total = 0 /\ r.next # NULL

StartConsume(s) ==
  /\ draining = NoSpace
  /\ draining' = s
  /\ shadowed' = (shadowed \/ Shadows(s))
  /\ UNCHANGED <<heapVars, curMsgGrp, made, loop, batch, arrived, sent, unsent>>

(* mergeEntries of the space and the first lines of onGetMsgSplit.         *)
MergeWithoutReset ==
  LET l == Left(draining)
      r == Right(draining)
  IN  /\ draining # NoSpace /\ loop = NotLooping
      /\ Free # {}
      /\ batch' = <<>>
      /\ holder' = [holder EXCEPT ![l].next = holder[r].start, ![l].cur = holder[r].cur]
      /\ loop' = [cur |-> holder[l].start, nxt |-> holder[r].start,
                  tot |-> grp[holder[l].start].total]
      /\ UNCHANGED <<grp, live, curMsgGrp, made, draining, arrived,
                     sent, unsent, shadowed>>

MergeEntries ==
  LET l == Left(draining)
      r == Right(draining)
      new == NewGroup
  IN  /\ draining # NoSpace /\ loop = NotLooping
      /\ Free # {}
      /\ batch' = <<>>
      /\ live' = live \cup {new}
      /\ grp' = [grp EXCEPT ![new] = EmptyGroup]
      /\ holder' = [holder EXCEPT ![l].next = holder[r].start,
                                  ![l].cur = holder[r].cur,
                                  ![r] = [start |-> new, cur |-> new, next |-> NULL]]
      /\ loop' = [cur |-> holder[l].start, nxt |-> holder[r].start,
                  tot |-> grp[holder[l].start].total]
      /\ UNCHANGED <<curMsgGrp, made, draining, arrived, sent, unsent, shadowed>>

MergeKeepsTotal(g1, g2) == [g1 EXCEPT !.msgs = Linked(g1, g2.msgs)]

MergedGroup(g1, g2) ==
  [g1 EXCEPT !.msgs = Linked(g1, g2.msgs), !.total = g1.total + g2.total]

(* One turn of the loop: the next group still fits (mergeGrp) ...          *)
MergeGrp ==
  LET g == grp[loop.nxt]
      merged == MergedGroup(grp[loop.cur], g)
  IN  /\ loop.nxt # NULL
      /\ loop.tot + g.total <= splitSz
      /\ grp' = [grp EXCEPT ![loop.cur] = merged]
      /\ live' = live \ {loop.nxt}
      /\ loop' = [loop EXCEPT !.nxt = merged.next, !.tot = @ + g.total]
      /\ UNCHANGED <<holder, curMsgGrp, made, draining, batch, arrived,
                     sent, unsent, shadowed>>

DeliverAlwaysPending(g, pending) ==
  /\ batch' = grp[g].msgs
  /\ loop' = NotLooping
  /\ sent' = sent \o batch'
  /\ UNCHANGED <<draining, unsent, curMsgGrp, made, arrived, shadowed>>

(* mergeMsgAsString, free and onSendMessage: the batch is the list of the  *)
(* group's nodes.  An empty group is neither sent nor freed; it is out of  *)
(* reach from then on, so the model gives its identity back as well.  A    *)
(* failed send ends the drain (SocketOutputInterface.c:232-237).           *)
Deliver(g, pending) ==
  /\ batch' = grp[g].msgs
  /\ loop' = NotLooping
  /\ \/ /\ draining' = IF pending THEN draining ELSE NoSpace
        /\ sent' = sent \o batch'
        /\ UNCHANGED unsent
     \/ /\ SendMayFail /\ grp[g].total > 0
        /\ draining' = NoSpace
        /\ unsent' = unsent \cup ToSet(batch')
        /\ UNCHANGED sent
  /\ UNCHANGED <<curMsgGrp, made, arrived, shadowed>>

SplitOffKeepsStart ==
  LET l == Left(draining)
      g == grp[loop.nxt]
  IN  /\ loop.nxt # NULL
      /\ loop.tot + g.total > splitSz
      /\ holder' = [holder EXCEPT ![l].next = g.next]
      /\ UNCHANGED <<grp, live>>
      /\ Deliver(loop.cur, TRUE)

(* ... it does not fit: it starts the next batch ...                       *)
SplitOff ==
  LET l == Left(draining)
      g == grp[loop.nxt]
  IN  /\ loop.nxt # NULL
      /\ loop.tot + g.total > splitSz
      /\ holder' = [holder EXCEPT ![l].start = loop.nxt, ![l].next = g.next]
      /\ live' = live \ {loop.cur}
      /\ UNCHANGED grp
      /\ Deliver(loop.cur, TRUE)

(* ... or there is none, and the left queue is initialised again.          *)
LastBatch ==
  LET l == Left(draining)
      new == NewGroup
  IN  /\ loop # NotLooping /\ loop.nxt = NULL
      /\ Free # {}
      /\ live' = (live \cup {new}) \ {loop.cur}
      /\ grp' = [grp EXCEPT ![new] = EmptyGroup]
      /\ holder' = [holder EXCEPT ![l] = [start |-> new, cur |-> new, next |-> NULL]]
      /\ Deliver(loop.cur, FALSE)

-----------------------------------------------------------------------------
Next ==
  \/ \E s \in UsedSpaces :
       \/ \E id \in {Left(s), Right(s)} : FlushMsg(id) \/ FlushMsgGrp(id)
       \/ StartConsume(s)
  \/ IncludeMessage
  \/ MergeEntries \/ MergeGrp \/ SplitOff \/ LastBatch

Spec == Init /\ [][Next]_vars
FairSpec == Spec /\ WF_vars(MergeEntries \/ MergeGrp \/ SplitOff \/ LastBatch)

-----------------------------------------------------------------------------
Groups == [msgs : Seq(Nodes), tail : Nat, total : Nat, next : GroupIds \cup {NULL}]

TypeOK ==
  /\ grp \in [GroupIds -> Groups]
  /\ live \in SUBSET GroupIds
  /\ holder \in [Locations -> [start : GroupIds, cur : GroupIds,
                               next : GroupIds \cup {NULL}]]
  /\ curMsgGrp \in Nodes
  /\ made \in 0..MaxLines
  /\ draining \in Spaces \cup {NoSpace}
  /\ loop \in [cur : GroupIds \cup {NULL}, nxt : GroupIds \cup {NULL}, tot : Nat]
  /\ batch \in Seq(Nodes)
  /\ arrived \in [Locations -> Seq(Nodes)]
  /\ sent \in Seq(Nodes)
  /\ unsent \in SUBSET Nodes
  /\ shadowed \in BOOLEAN

(* The first n groups of the list that starts at g.                       *)
ListFrom[n \in 0..MaxGroups] ==
  [g \in GroupIds \cup {NULL} |->
     IF g = NULL \/ n = 0 THEN {} ELSE {g} \cup ListFrom[n - 1][grp[g].next]]

GroupsOf(l) == ListFrom[MaxGroups][holder[l].start]

(* Between two drains every queue is a list of allocated groups that ends  *)
(* with curMsgGrp, and no group belongs to two queues: else onQueueMessage *)
(* would append to a freed group, or to a list nobody will drain.          *)
ListsWellFormed ==
  /\ \A l \in Locations : l % 2 # draining =>
       /\ GroupsOf(l) \subseteq live
       /\ holder[l].cur \in GroupsOf(l)
       /\ grp[holder[l].cur].next = NULL
  /\ \A l, k \in Locations :
       {l % 2, k % 2} \cap {draining} = {} /\ l # k => GroupsOf(l) \cap GroupsOf(k) = {}
  /\ loop # NotLooping => {loop.cur, loop.nxt} \subseteq live \cup {NULL}

(* totalMsgs sizes the buffer of mergeMsgAsString and drives the split, so *)
(* it has to be the length of the list that is copied; outside of a merge, *)
(* lastNode is the last node of the list.                                  *)
CountsNodes ==
  \A g \in live : /\ grp[g].total = Len(grp[g].msgs)
                  /\ g # loop.cur => grp[g].tail = Len(grp[g].msgs)

(* ReadMe.txt:28 (Socket Message Limit): what is sent at one time holds at *)
(* most that many queue nodes.                                             *)
BatchWithinLimit == isToBeSplit => Len(batch) <= SocketMsgLimit

Position(seq, x) == CHOOSE i \in DOMAIN seq : seq[i] = x

(* Each queue is first in, first out: what was stored earlier at one       *)
(* location is sent earlier.                                               *)
FirstInFirstOut ==
  \A l \in Locations : \A i, j \in DOMAIN sent :
    /\ i < j
    /\ {sent[i], sent[j]} \subseteq ToSet(arrived[l])
    => Position(arrived[l], sent[i]) < Position(arrived[l], sent[j])

(* The nodes the drain can still reach.                                    *)
Waiting ==
  LET ofLists == UNION {GroupsOf(l) : l \in Locations}
      ofLoop == IF loop = NotLooping THEN {}
                ELSE {loop.cur} \cup ListFrom[MaxGroups][loop.nxt]
  IN  UNION {ToSet(grp[g].msgs) : g \in ofLists \cup ofLoop}

Stored == UNION {ToSet(arrived[l]) : l \in Locations}

(* ReadMe.txt:8, 28: every message that was stored is waiting, or was put  *)
(* into a batch.                                                           *)
NothingDropped == Stored = Waiting \cup ToSet(sent) \cup unsent

(* The same, as long as no drain met the situation Shadows describes: a    *)
(* limit alone loses nothing.                                              *)
DroppedOnlyByShadow == shadowed \/ NothingDropped

(* A drain comes to an end: the loop of SocketOutputInterface.c:224 leaves *)
(* once retrieveMsg reports nothing pending.                               *)
DrainEnds == draining # NoSpace ~> draining = NoSpace

(* Without a limit the store is the channel that ThreadSync promises.      *)
Channel == INSTANCE MessageChannel
             WITH pending <- Waiting, taken <- ToSet(sent) \cup unsent,
                  Messages <- SeqOf(Lines, MaxLines)

ImplementsChannel == Channel!Spec
=============================================================================

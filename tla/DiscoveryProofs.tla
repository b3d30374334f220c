-------------------------- MODULE DiscoveryProofs --------------------------
(***************************************************************************)
(* Proofs about Discovery, for any number of peers, names and tasks: its   *)
(* types, the agreement of events and table (EventsTellTheTable), and the  *)
(* number of lost announcements a peer survives (LossesAreTolerated).      *)
(***************************************************************************)
EXTENDS Discovery, TLAPS

\* A task that is not there has nothing to do, and one that is emits the events of one
\* step before it takes the next.
TasksAreSound ==
  \A k \in Slots : /\ ~Exists(k) => task[k] = NoTask
                   /\ task[k].new # None => task[k].new.id # NoPort /\ task[k].gone = {}

\* While tasks do not overlap, an event still to be emitted tells the table, and only
\* those events are missing.
Missing(p) == \E k \in Slots : \/ task[k].new # None /\ task[k].new.peer = p
                               \/ p \in task[k].gone
OneTask   == \A j, k \in Slots : Exists(j) /\ Exists(k) => j = k
EventsTell == \A k \in Slots : /\ task[k].new # None => Entry(task[k].new.peer) = task[k].new.id
                               /\ \A p \in task[k].gone : Entry(p) = None
EventsAreInOrder == ~overrun => /\ OneTask /\ EventsTell
                                /\ \A p \in Peers : seen[p] = Entry(p) \/ Missing(p)

\* An entry is older than the announcements lost since it was renewed only by the one
\* that is still expected in this unit; a packet from the time when the peer had no
\* port, which handle_packet ignores, is not such a one.
Expected(p) == p \in due \/ \E pkt \in net : pkt.from = p /\ pkt.announce
Portless(p) == \E pkt \in net : pkt.from = p /\ pkt.id = NoPort
Renewed(p) ==
  /\ ~Reachable(p) => silence[p] = Timeout
  /\ peers[p] # None /\ silence[p] < Timeout =>
       /\ peers[p].age <= silence[p] + 1
       /\ ~Expected(p) \/ Portless(p) => peers[p].age <= silence[p]
LossesAreCounted == \A p \in Peers : Renewed(p)

Inv == TypeOK /\ TasksAreSound /\ EventsAreInOrder /\ LossesAreCounted

-----------------------------------------------------------------------------
(***************************************************************************)
(* Types                                                                   *)
(***************************************************************************)
LEMMA LimitedTypes ==
  ASSUME NEW e \in Entries, NEW d \in {-Timeout, 1, Old}
  PROVE  [e EXCEPT !.age = Limited(@ + d)] \in Entries
<1>1. Limited(e.age + d) \in -Timeout .. Old BY DEF Limited, Timeout, Old, Entries
<1> QED BY <1>1 DEF Entries

\* What handle_packet enters.
LEMMA FreshEntry ==
  ASSUME NEW pkt \in Packets, ~Ignored(pkt)
  PROVE  [id |-> pkt.id, age |-> 0] \in Entries /\ [id |-> pkt.id, age |-> 0] # None
<1>1. [id |-> pkt.id, age |-> 0] \in Entries BY DEF Entries, Packets, Ignored, Timeout, Old
<1> QED BY <1>1, NoneAssumption

LEMMA AgedTypes ==
  ASSUME TypeOK, NEW d \in {-Timeout, 1, Old}
  PROVE  Aged(d) \in [Peers -> Entries \cup {None}]
BY LimitedTypes DEF Aged, TypeOK

\* The tasks and the handle: at most one task is live, the one the handle is for.
Handled == /\ task \in [Slots -> Tasks]
           /\ handle <=> \E k \in Slots : task[k].st = "live"
           /\ \A j, k \in Slots : task[j].st = "live" /\ task[k].st = "live" => j = k

\* A step of a task that leaves its state alone.
LEMMA HandledKept ==
  ASSUME Handled, NEW k \in Slots, NEW t \in Tasks, t.st = task[k].st,
         task' = [task EXCEPT ![k] = t], UNCHANGED handle
  PROVE  Handled'
BY DEF Handled

LEMMA TypeStep == TypeOK /\ TasksAreSound /\ [Next]_vars => TypeOK'
<1> SUFFICES ASSUME TypeOK, TasksAreSound, [Next]_vars PROVE TypeOK' OBVIOUS
<1> USE DiscoveryAssumption
<1> USE DEF engine, others, bounds
<1>a. Handled BY DEF TypeOK, Handled
<1>b. ASSUME NEW k \in Slots
      PROVE  /\ task[k] \in Tasks /\ task[k].due \subseteq Timers
             /\ task[k].new \in [peer : Peers, id : Idents] \cup {None}
             /\ task[k].gone \subseteq Peers
  BY DEF TypeOK, Tasks
<1>1. ASSUME NEW k \in Slots, StartTask(k), calling' \in {"none", "discovering"} PROVE TypeOK'
  <2>1. [NoTask EXCEPT !.st = "live", !.due = Timers] \in Tasks BY DEF NoTask, Tasks
  <2>2. \A j \in Slots : task[j].st # "live" BY <1>1 DEF StartTask, TypeOK
  <2>3. Handled' BY <1>1, <1>a, <2>1, <2>2 DEF StartTask, Handled, NoTask
  <2>4. handle' /\ overrun' \in BOOLEAN /\ starts' \in 0 .. MaxStarts
    BY <1>1 DEF StartTask, TypeOK
  <2> QED BY <1>1, <2>3, <2>4 DEF StartTask, TypeOK, Handled
<1>2. CASE StopTask
  <2>1. \A j \in Slots : [task[j] EXCEPT !.st = "ending"] \in Tasks BY <1>b DEF Tasks
  <2>2. Handled' BY <1>2, <1>a, <2>1 DEF StopTask, Handled
  <2>3. silence' \in [Peers -> 0 .. Timeout] BY <1>2 DEF StopTask, Timeout
  <2> QED BY <1>2, <2>2, <2>3 DEF StopTask, TypeOK, Handled
<1>3. CASE CallDropped BY <1>3 DEF CallDropped, TypeOK
<1>4. ASSUME NEW k \in Slots, Announce(k) PROVE TypeOK'
  <2>1. [task[k] EXCEPT !.due = @ \ {"announce"}] \in Tasks BY <1>b DEF Tasks
  <2>2. Handled' BY <1>4, <1>a, <1>b, <2>1, HandledKept DEF Announce, Tasks
  <2> QED BY <1>4, <2>2 DEF Announce, TypeOK, Handled
<1>5. ASSUME NEW k \in Slots, PacketHandled(k) PROVE TypeOK'
  <2>1. [task[k] EXCEPT !.new = None] \in Tasks BY <1>b DEF Tasks
  <2>2. Handled' BY <1>5, <1>a, <1>b, <2>1, HandledKept DEF PacketHandled, Tasks
  <2>3. task[k].new.id \in Idents \ {NoPort}
    BY <1>5, <1>b DEF PacketHandled, TasksAreSound
  <2> QED BY <1>5, <2>2, <2>3 DEF PacketHandled, TypeOK, Handled
<1>6. ASSUME NEW k \in Slots, expire_stale_peers(k) PROVE TypeOK'
  <2>a. PICK gone \in Stale : /\ task' = [task EXCEPT ![k].due = @ \ {"expire"}, ![k].gone = gone]
                              /\ peers' = [p \in Peers |-> IF p \in gone THEN None ELSE peers[p]]
    BY <1>6 DEF expire_stale_peers
  <2>1. [task[k] EXCEPT !.due = @ \ {"expire"}, !.gone = gone] \in Tasks
    BY <1>b DEF Tasks, Stale, OlderThan
  <2>2. task' = [task EXCEPT ![k] = [task[k] EXCEPT !.due = @ \ {"expire"}, !.gone = gone]]
    BY <2>a, <1>b DEF TypeOK, Tasks
  <2>3. Handled' BY <1>6, <1>a, <1>b, <2>1, <2>2, HandledKept DEF expire_stale_peers, Tasks
  <2> QED BY <1>6, <2>a, <2>3 DEF expire_stale_peers, TypeOK, Handled
<1>7. ASSUME NEW k \in Slots, ExpiryTold(k) PROVE TypeOK'
  <2>1. [task[k] EXCEPT !.gone = {}] \in Tasks BY <1>b DEF Tasks
  <2>2. Handled' BY <1>7, <1>a, <1>b, <2>1, HandledKept DEF ExpiryTold, Tasks
  <2> QED BY <1>7, <2>2 DEF ExpiryTold, TypeOK, Handled
<1>8. ASSUME NEW k \in Slots, TaskEnds(k) PROVE TypeOK'
  <2>1. NoTask \in Tasks /\ NoTask.st = "none" BY DEF NoTask, Tasks
  <2>2. Handled' BY <1>8, <1>a, <2>1 DEF TaskEnds, Handled
  <2> QED BY <1>8, <2>2 DEF TaskEnds, TypeOK, Handled
<1>9. ASSUME NEW k \in Slots, NEW pkt \in net, handle_packet(k, pkt) PROVE TypeOK'
  <2>1. CASE Ignored(pkt) BY <1>9, <2>1 DEF handle_packet, TypeOK
  <2>2. CASE ~Ignored(pkt)
    <3>1. pkt \in Packets /\ pkt.from \in Peers /\ pkt.id \in Idents \ {NoPort}
      BY <1>9, <2>2 DEF TypeOK, Packets, Ignored
    <3>2. PICK n \in [peer : Peers, id : Idents] \cup {None} : task' = [task EXCEPT ![k].new = n]
      BY <1>9, <2>2, <3>1 DEF handle_packet
    <3>3. [task[k] EXCEPT !.new = n] \in Tasks BY <1>b DEF Tasks
    <3>4. Handled' BY <1>9, <1>a, <1>b, <3>2, <3>3, HandledKept DEF handle_packet, Tasks
    <3>5. [id |-> pkt.id, age |-> 0] \in Entries
      BY <1>9, <2>2, <3>1, FreshEntry
    <3>6. silence' \in [Peers -> 0 .. Timeout]
      BY <1>9, <2>2 DEF handle_packet, TypeOK, Timeout
    <3> QED BY <1>9, <2>2, <3>1, <3>4, <3>5, <3>6 DEF handle_packet, TypeOK, Handled
  <2> QED BY <2>1, <2>2
<1>10. ASSUME NEW p \in Peers, Announces(p) PROVE TypeOK'
  <2>1. [from |-> p, id |-> ident[p], announce |-> TRUE] \in Packets BY DEF Packets, TypeOK
  <2> QED BY <1>10, <2>1 DEF Announces, TypeOK
<1>11. ASSUME NEW p \in Peers, Answers(p) PROVE TypeOK'
  <2>1. [from |-> p, id |-> ident[p], announce |-> FALSE] \in Packets BY DEF Packets, TypeOK
  <2> QED BY <1>11, <2>1 DEF Answers, TypeOK
<1>12. ASSUME NEW p \in Peers, PeerChanges(p) PROVE TypeOK'
  <2>1. changes' \in 0 .. MaxChanges BY <1>12 DEF PeerChanges, TypeOK
  <2>2. on' \subseteq Peers /\ due' \subseteq on' /\ ident' \in [Peers -> Idents]
    BY <1>12 DEF PeerChanges, TypeOK
  <2>3. silence' \in [Peers -> 0 .. Timeout] BY <1>12 DEF PeerChanges, TypeOK, Timeout
  <2> QED BY <1>12, <2>1, <2>2, <2>3 DEF PeerChanges, TypeOK
<1>13. ASSUME NEW pkt \in net, Lose(pkt) PROVE TypeOK'
  <2>1. silence' \in [Peers -> 0 .. Timeout] BY <1>13 DEF Lose, TypeOK, Timeout, Packets
  <2> QED BY <1>13, <2>1 DEF Lose, TypeOK
<1>14. CASE Tick
  <2>1. \A j \in Slots : [task[j] EXCEPT !.due = Timers] \in Tasks BY <1>b DEF Tasks
  <2>2. Handled' BY <1>14, <1>a, <2>1 DEF Tick, Handled
  <2>3. peers' \in [Peers -> Entries \cup {None}]
    BY <1>14, AgedTypes DEF Tick
  <2> QED BY <1>14, <2>2, <2>3 DEF Tick, TypeOK, Handled
<1>15. CASE ClockJump
  <2>1. peers' \in [Peers -> Entries \cup {None}]
    BY <1>15, AgedTypes DEF ClockJump
  <2>2. jumps' \in 0 .. MaxJumps BY <1>15 DEF ClockJump, TypeOK
  <2>3. silence' \in [Peers -> 0 .. Timeout] BY <1>15 DEF ClockJump, Timeout
  <2> QED BY <1>15, <2>1, <2>2, <2>3 DEF ClockJump, TypeOK
<1>16. CASE UNCHANGED vars BY <1>16 DEF vars, TypeOK
<1>17. CASE clear_peers
  <2>1. overrun' \in BOOLEAN BY <1>17 DEF clear_peers, TypeOK
  <2> QED BY <1>17, <2>1 DEF clear_peers, TypeOK, Unknown
<1>18. ASSUME NEW k \in Slots, StartTask(k) PROVE calling = "none" BY <1>18 DEF StartTask
<1> QED
  BY <1>1, <1>2, <1>3, <1>17, <1>18, <1>4, <1>5, <1>6, <1>7, <1>8,
     <1>9, <1>10, <1>11, <1>12, <1>13, <1>14, <1>15, <1>16
  DEF Next, start_discovery, stop_discovery, discover_peers, DiscoverReturns

-----------------------------------------------------------------------------
(***************************************************************************)
(* Tasks and events                                                        *)
(***************************************************************************)
LEMMA TasksStep == TypeOK /\ TasksAreSound /\ [Next]_vars => TasksAreSound'
<1> SUFFICES ASSUME TypeOK, TasksAreSound, [Next]_vars PROVE TasksAreSound' OBVIOUS
<1> USE DEF engine, others, bounds, TasksAreSound, Exists
<1>d. task \in [Slots -> Tasks] BY DEF TypeOK
<1>e. ASSUME UNCHANGED task PROVE TasksAreSound' BY <1>e
<1>1. ASSUME NEW k \in Slots, StartTask(k) PROVE TasksAreSound'
  BY <1>1, <1>d DEF StartTask, NoTask
<1>2. CASE StopTask BY <1>2, <1>d DEF StopTask, Tasks
<1>3. CASE CallDropped BY <1>3, <1>e DEF CallDropped
<1>4. ASSUME NEW k \in Slots, Announce(k) PROVE TasksAreSound'
  BY <1>4, <1>d DEF Announce, Resting, Tasks
<1>5. ASSUME NEW k \in Slots, PacketHandled(k) PROVE TasksAreSound'
  <2>1. task[k].new # None /\ Exists(k) BY <1>5 DEF PacketHandled, NoTask
  <2> QED BY <1>5, <2>1, <1>d DEF PacketHandled, Tasks
<1>6. ASSUME NEW k \in Slots, expire_stale_peers(k) PROVE TasksAreSound'
  <2>1. /\ Exists(k) /\ task[k].new = None
        /\ \A j \in Slots \ {k} : task'[j] = task[j]
        /\ task'[k].st = task[k].st /\ task'[k].new = task[k].new
    BY <1>6, <1>d DEF expire_stale_peers, Resting, Tasks
  <2> QED BY <2>1
<1>7. ASSUME NEW k \in Slots, ExpiryTold(k) PROVE TasksAreSound'
  <2>1. Exists(k) BY <1>7 DEF ExpiryTold, NoTask
  <2> QED BY <1>7, <2>1, <1>d DEF ExpiryTold, Tasks
<1>8. ASSUME NEW k \in Slots, TaskEnds(k) PROVE TasksAreSound' BY <1>8, <1>d DEF TaskEnds, NoTask
<1>9. ASSUME NEW k \in Slots, NEW pkt \in net, handle_packet(k, pkt) PROVE TasksAreSound'
  <2>1. CASE Ignored(pkt) BY <1>9, <2>1, <1>e DEF handle_packet
  <2>2. CASE ~Ignored(pkt)
    <3>1. /\ Exists(k) /\ task[k].gone = {}
          /\ \A j \in Slots \ {k} : task'[j] = task[j]
          /\ task'[k].st = task[k].st /\ task'[k].gone = task[k].gone
          /\ task'[k].new \in {[peer |-> pkt.from, id |-> pkt.id], None}
      BY <1>9, <2>2, <1>d DEF handle_packet, Resting, Tasks
    <3> QED BY <3>1, <2>2 DEF Ignored
  <2> QED BY <2>1, <2>2
<1>10. ASSUME NEW p \in Peers, Announces(p) PROVE TasksAreSound' BY <1>10, <1>e DEF Announces
<1>11. ASSUME NEW p \in Peers, Answers(p) PROVE TasksAreSound' BY <1>11, <1>e DEF Answers
<1>12. ASSUME NEW p \in Peers, PeerChanges(p) PROVE TasksAreSound' BY <1>12, <1>e DEF PeerChanges
<1>13. ASSUME NEW pkt \in net, Lose(pkt) PROVE TasksAreSound' BY <1>13, <1>e DEF Lose
<1>14. CASE Tick BY <1>14, <1>d DEF Tick, Resting, Tasks
<1>15. CASE ClockJump BY <1>15, <1>e DEF ClockJump
<1>16. CASE UNCHANGED vars BY <1>16, <1>e DEF vars
<1>17. CASE clear_peers BY <1>17, <1>e DEF clear_peers
<1> QED
  BY <1>1, <1>2, <1>3, <1>17, <1>4, <1>5, <1>6, <1>7, <1>8,
     <1>9, <1>10, <1>11, <1>12, <1>13, <1>14, <1>15, <1>16
  DEF Next, start_discovery, stop_discovery, discover_peers, DiscoverReturns

\* Tasks that are not in a step owe no event.
LEMMA RestingOwesNothing ==
  ASSUME TasksAreSound, \A k \in Slots : Exists(k) => Resting(k), NEW p \in Peers
  PROVE  ~Missing(p)
BY DEF TasksAreSound, Missing, Resting, NoTask

LEMMA EventsStep ==
  TypeOK /\ TasksAreSound /\ EventsAreInOrder /\ [Next]_vars => EventsAreInOrder'
<1> DEFINE Goal == OneTask' /\ EventsTell' /\ \A q \in Peers : (seen[q] = Entry(q) \/ Missing(q))'
<1> SUFFICES ASSUME TypeOK, TasksAreSound, EventsAreInOrder, [Next]_vars, ~overrun'
             PROVE  Goal
  BY DEF EventsAreInOrder
<1> USE DEF engine, others, bounds
<1>d. task \in [Slots -> Tasks] /\ peers \in [Peers -> Entries \cup {None}]
      /\ seen \in [Peers -> (Idents \ {NoPort}) \cup {None}] /\ net \subseteq Packets
  BY DEF TypeOK
<1>e. ~overrun
  BY DEF Next, start_discovery, stop_discovery, discover_peers, DiscoverReturns, StartTask,
     StopTask, clear_peers, CallDropped, Announce, PacketHandled, expire_stale_peers, ExpiryTold,
     TaskEnds, handle_packet, Announces, Answers, PeerChanges, Lose, Tick, ClockJump, vars
<1>f. OneTask /\ EventsTell /\ \A q \in Peers : seen[q] = Entry(q) \/ Missing(q)
  BY <1>e DEF EventsAreInOrder
<1>g. ASSUME NEW k \in Slots, Resting(k)
      PROVE  \A q \in Peers : seen[q] = Entry(q)
  <2>1. \A j \in Slots : Exists(j) => j = k BY <1>f, <1>g DEF OneTask, Resting
  <2> QED BY <1>f, <1>g, <2>1, RestingOwesNothing
<1>h. ASSUME UNCHANGED <<task, peers, seen>> PROVE Goal
  BY <1>f, <1>h DEF OneTask, Exists, EventsTell, Missing, Entry
\* A task that changes nothing but its timers, and a table that only ages.
<1>i. ASSUME UNCHANGED seen, \A q \in Peers : Entry(q)' = Entry(q),
             \A j \in Slots : /\ Exists(j)' = Exists(j) /\ task'[j].new = task[j].new
                              /\ task'[j].gone = task[j].gone
      PROVE  Goal
  <2>1. OneTask' BY <1>f, <1>i DEF OneTask
  <2>2. EventsTell'
    <3> SUFFICES ASSUME NEW j \in Slots
                 PROVE  /\ (task[j].new # None)' => (Entry(task[j].new.peer) = task[j].new.id)'
                        /\ \A q \in task'[j].gone : Entry(q)' = None
      BY DEF EventsTell
    <3>1. task[j].gone \subseteq Peers BY <1>d DEF Tasks
    <3>2. \A q \in task'[j].gone : Entry(q)' = None BY <3>1, <1>f, <1>i DEF EventsTell
    <3>3. ASSUME task'[j].new # None PROVE (Entry(task[j].new.peer) = task[j].new.id)'
      <4>1. PICK n : n = task[j].new /\ n = task'[j].new BY <1>i
      <4>2. n.peer \in Peers /\ Entry(n.peer) = n.id BY <3>3, <4>1, <1>d, <1>f DEF Tasks, EventsTell
      <4>3. Entry(n.peer)' = n.id BY <4>2, <1>i
      <4> QED BY <4>1, <4>3 DEF Entry
    <3> QED BY <3>2, <3>3
  <2>3. \A q \in Peers : (seen[q] = Entry(q) \/ Missing(q))'
    BY <1>f, <1>i DEF Missing
  <2> QED BY <2>1, <2>2, <2>3
<1>j. ASSUME NEW d \in {-Timeout, 1, Old}, peers' = Aged(d) PROVE \A q \in Peers : Entry(q)' = Entry(q)
  <2> SUFFICES ASSUME NEW q \in Peers PROVE Entry(q)' = Entry(q) OBVIOUS
  <2>1. CASE peers[q] = None BY <1>j, <2>1 DEF Aged, Entry
  <2>2. CASE peers[q] # None
    <3>1. peers[q] \in Entries BY <1>d, <2>2
    <3>2. peers'[q] = [peers[q] EXCEPT !.age = Limited(@ + d)] BY <1>j, <2>2 DEF Aged
    <3>3. peers'[q].id = peers[q].id BY <3>1, <3>2 DEF Entries
    <3>4. peers'[q] # None
      BY <3>1, <3>2, LimitedTypes, NoneAssumption DEF Entries
    <3> QED BY <2>2, <3>3, <3>4 DEF Entry
  <2> QED BY <2>1, <2>2
<1>1. ASSUME NEW k \in Slots, StartTask(k) PROVE Goal
  <2>1. \A j \in Slots : ~Exists(j) BY <1>1 DEF StartTask
  <2>2. \A q \in Peers : seen[q] = Entry(q) BY <1>f, <2>1, RestingOwesNothing
  <2>3. /\ \A j \in Slots \ {k} : task'[j] = NoTask
        /\ task'[k] = [NoTask EXCEPT !.st = "live", !.due = Timers]
        /\ UNCHANGED <<seen, peers>>
    BY <1>1, <1>d, <2>1 DEF StartTask, TasksAreSound
  <2>4. \A j \in Slots : task'[j].new = None /\ task'[j].gone = {} BY <2>3 DEF NoTask
  <2>5. OneTask' BY <2>3 DEF OneTask, Exists, NoTask
  <2>6. EventsTell' BY <2>4 DEF EventsTell
  <2> QED BY <2>2, <2>3, <2>5, <2>6 DEF Entry
<1>2. CASE StopTask
  <2>1. \A j \in Slots : /\ Exists(j)' = Exists(j) /\ task'[j].new = task[j].new
                         /\ task'[j].gone = task[j].gone
    BY <1>2, <1>d DEF StopTask, Tasks, Exists
  <2> QED BY <1>2, <2>1, <1>i DEF StopTask, Entry
<1>3. CASE CallDropped BY <1>3, <1>h DEF CallDropped
<1>4. ASSUME NEW k \in Slots, Announce(k) PROVE Goal
  BY <1>4, <1>d, <1>i DEF Announce, Tasks, Entry, Exists
<1>5. ASSUME NEW k \in Slots, PacketHandled(k) PROVE Goal
  <2>1. PICK n \in [peer : Peers, id : Idents] : n = task[k].new
    BY <1>5, <1>d DEF PacketHandled, Tasks
  <2>2. Exists(k) /\ task[k].gone = {} /\ Entry(n.peer) = n.id
    BY <1>5, <1>f, <2>1 DEF PacketHandled, TasksAreSound, NoTask, EventsTell
  <2>3. \A j \in Slots \ {k} : task[j] = NoTask
    BY <1>f, <2>2 DEF OneTask, TasksAreSound
  <2>4. /\ \A j \in Slots : task'[j].new = None /\ task'[j].gone = {}
        /\ \A j \in Slots : task'[j].st = task[j].st
        /\ UNCHANGED peers /\ seen' = [seen EXCEPT ![n.peer] = n.id]
    BY <1>5, <1>d, <2>1, <2>2, <2>3 DEF PacketHandled, Tasks, NoTask
  <2>5. OneTask' BY <1>f, <2>4 DEF OneTask, Exists
  <2>6. EventsTell' BY <2>4 DEF EventsTell
  <2>7. \A q \in Peers \ {n.peer} : seen[q] = Entry(q)
    BY <1>f, <2>1, <2>2, <2>3 DEF Missing, NoTask
  <2> QED BY <1>d, <2>2, <2>4, <2>5, <2>6, <2>7 DEF Entry
<1>6. ASSUME NEW k \in Slots, expire_stale_peers(k) PROVE Goal
  <2>1. Resting(k) /\ \A q \in Peers : seen[q] = Entry(q) BY <1>6, <1>g DEF expire_stale_peers
  <2>2. \A j \in Slots \ {k} : task[j] = NoTask
    BY <1>f, <2>1 DEF OneTask, TasksAreSound, Resting
  <2>3. PICK gone \in Stale :
          /\ task'[k].new = None /\ task'[k].gone = gone /\ UNCHANGED seen
          /\ \A j \in Slots \ {k} : task'[j].new = None /\ task'[j].gone = {}
          /\ \A j \in Slots : task'[j].st = task[j].st
          /\ peers' = [p \in Peers |-> IF p \in gone THEN None ELSE peers[p]]
    BY <1>6, <1>d, <2>1, <2>2 DEF expire_stale_peers, Tasks, NoTask, Resting
  <2>4. gone \subseteq Peers BY DEF Stale, OlderThan
  <2>5. OneTask' BY <1>f, <2>3 DEF OneTask, Exists
  <2>6. EventsTell' BY <2>3, <2>4 DEF EventsTell, Entry
  <2>7. \A q \in Peers \ gone : Entry(q)' = Entry(q) BY <2>3 DEF Entry
  <2>8. \A q \in gone : Missing(q)' BY <2>3 DEF Missing
  <2> QED BY <2>1, <2>3, <2>5, <2>6, <2>7, <2>8
<1>7. ASSUME NEW k \in Slots, ExpiryTold(k) PROVE Goal
  <2>1. Exists(k) /\ task[k].new = None /\ task[k].gone \subseteq Peers
    BY <1>7, <1>d DEF ExpiryTold, TasksAreSound, NoTask, Tasks
  <2>2. \A q \in task[k].gone : Entry(q) = None BY <1>f DEF EventsTell
  <2>3. \A j \in Slots \ {k} : task[j] = NoTask
    BY <1>f, <2>1 DEF OneTask, TasksAreSound
  <2>4. /\ \A j \in Slots : task'[j].new = None /\ task'[j].gone = {}
        /\ \A j \in Slots : task'[j].st = task[j].st
        /\ UNCHANGED peers
    BY <1>7, <1>d, <2>1, <2>3 DEF ExpiryTold, Tasks, NoTask
  <2>5. OneTask' BY <1>f, <2>4 DEF OneTask, Exists
  <2>6. EventsTell' BY <2>4 DEF EventsTell
  <2>7. \A q \in Peers \ task[k].gone : seen[q] = Entry(q)
    BY <1>f, <2>1, <2>3 DEF Missing, NoTask
  <2> QED BY <1>7, <2>2, <2>4, <2>5, <2>6, <2>7 DEF Entry, ExpiryTold
<1>8. ASSUME NEW k \in Slots, TaskEnds(k) PROVE Goal
  <2>1. Resting(k) /\ \A q \in Peers : seen[q] = Entry(q) BY <1>8, <1>g DEF TaskEnds
  <2>2. /\ \A j \in Slots : task'[j] = NoTask /\ UNCHANGED <<peers, seen>>
    BY <1>8, <1>d, <1>f, <2>1 DEF TaskEnds, OneTask, TasksAreSound, Resting
  <2>3. OneTask' /\ EventsTell' BY <2>2 DEF OneTask, Exists, EventsTell, NoTask
  <2> QED BY <1>8, <2>1, <2>3 DEF Entry, TaskEnds
<1>9. ASSUME NEW k \in Slots, NEW pkt \in net, handle_packet(k, pkt) PROVE Goal
  <2>1. CASE Ignored(pkt) BY <1>9, <2>1, <1>h DEF handle_packet
  <2>2. CASE ~Ignored(pkt)
    <3>1. Resting(k) /\ \A q \in Peers : seen[q] = Entry(q) BY <1>9, <1>g DEF handle_packet
    <3>2. \A j \in Slots \ {k} : task[j] = NoTask
      BY <1>f, <3>1 DEF OneTask, TasksAreSound, Resting
    <3>3. /\ UNCHANGED seen /\ task'[k].gone = {}
          /\ task'[k].new = IF Changed(pkt) THEN [peer |-> pkt.from, id |-> pkt.id] ELSE None
          /\ \A j \in Slots \ {k} : task'[j].new = None /\ task'[j].gone = {}
          /\ \A j \in Slots : task'[j].st = task[j].st
          /\ peers' = [peers EXCEPT ![pkt.from] = [id |-> pkt.id, age |-> 0]]
      BY <1>9, <2>2, <1>d, <3>1, <3>2 DEF handle_packet, Tasks, NoTask, Resting
    <3>4. pkt.from \in Peers BY <1>9, <1>d DEF Packets
    <3>5. OneTask' BY <1>f, <3>3 DEF OneTask, Exists
    <3>6. Entry(pkt.from)' = pkt.id
      BY <1>d, <2>2, <3>3, <3>4, <1>9, FreshEntry DEF Entry
    <3>7. \A q \in Peers \ {pkt.from} : Entry(q)' = Entry(q) BY <1>d, <3>3, <3>4 DEF Entry
    <3>8. CASE Changed(pkt)
      <4>1. task'[k].new = [peer |-> pkt.from, id |-> pkt.id] BY <3>3, <3>8
      <4>2. (Entry(task[k].new.peer) = task[k].new.id)' BY <4>1, <3>6 DEF Entry
      <4>3. EventsTell' BY <4>2, <3>3 DEF EventsTell
      <4>4. Missing(pkt.from)' BY <4>1, DiscoveryAssumption, <3>4, <1>9, <1>d DEF Missing, Packets
      <4> QED BY <3>1, <3>3, <3>5, <3>7, <4>3, <4>4
    <3>9. CASE ~Changed(pkt)
      <4>1. \A j \in Slots : task'[j].new = None /\ task'[j].gone = {} BY <3>3, <3>9
      <4>2. EventsTell' BY <4>1 DEF EventsTell
      <4>3. Entry(pkt.from) = pkt.id BY <3>9 DEF Changed, Entry
      <4> QED BY <3>1, <3>3, <3>5, <3>6, <3>7, <4>2, <4>3
    <3> QED BY <3>8, <3>9
  <2> QED BY <2>1, <2>2
<1>10. ASSUME NEW p \in Peers, Announces(p) PROVE Goal BY <1>10, <1>h DEF Announces
<1>11. ASSUME NEW p \in Peers, Answers(p) PROVE Goal BY <1>11, <1>h DEF Answers
<1>12. ASSUME NEW p \in Peers, PeerChanges(p) PROVE Goal BY <1>12, <1>h DEF PeerChanges
<1>13. ASSUME NEW pkt \in net, Lose(pkt) PROVE Goal BY <1>13, <1>h DEF Lose
<1>14. CASE Tick
  <2>1. \A q \in Peers : Entry(q)' = Entry(q) BY <1>14, <1>j DEF Tick
  <2> QED BY <1>14, <2>1, <1>d, <1>i DEF Tick, Tasks, Exists
<1>15. CASE ClockJump
  <2>1. \A q \in Peers : Entry(q)' = Entry(q) BY <1>15, <1>j DEF ClockJump
  <2> QED BY <1>15, <2>1, <1>i DEF ClockJump, Exists
<1>16. CASE UNCHANGED vars BY <1>16, <1>h DEF vars
<1>17. CASE clear_peers
  <2>1. \A j \in Slots : Exists(j) => Resting(j) BY <1>17 DEF clear_peers
  <2>2. \A j \in Slots : task[j].new = None /\ task[j].gone = {}
    BY <2>1 DEF Resting, TasksAreSound, NoTask
  <2>3. UNCHANGED task /\ peers' = Unknown /\ seen' = Unknown BY <1>17 DEF clear_peers
  <2>4. OneTask' BY <1>f, <2>3 DEF OneTask, Exists
  <2>5. EventsTell' BY <2>2, <2>3 DEF EventsTell
  <2> QED BY <2>3, <2>4, <2>5 DEF Entry, Unknown
<1> QED
  BY <1>1, <1>2, <1>3, <1>17, <1>4, <1>5, <1>6, <1>7, <1>8,
     <1>9, <1>10, <1>11, <1>12, <1>13, <1>14, <1>15, <1>16
  DEF Next, start_discovery, stop_discovery, discover_peers, DiscoverReturns

-----------------------------------------------------------------------------
(***************************************************************************)
(* Lost announcements                                                      *)
(***************************************************************************)
LEMMA LossesStep == TypeOK /\ LossesAreCounted /\ [Next]_vars => LossesAreCounted'
<1> DEFINE Goal == \A q \in Peers : Renewed(q)'
<1> SUFFICES ASSUME TypeOK, LossesAreCounted, [Next]_vars PROVE Goal
  BY DEF LossesAreCounted
<1> USE DiscoveryAssumption, NoneAssumption
<1> USE DEF engine, others, bounds
<1>d. /\ peers \in [Peers -> Entries \cup {None}] /\ silence \in [Peers -> 0 .. Timeout]
      /\ net \subseteq Packets /\ on \subseteq Peers /\ due \subseteq on
      /\ ident \in [Peers -> Idents]
  BY DEF TypeOK
<1>e. \A q \in Peers : Renewed(q) BY DEF LossesAreCounted
<1>f. \A q \in Peers : /\ silence[q] \in 0 .. Timeout
                       /\ peers[q] # None => peers[q].age \in -Timeout .. Old
  BY <1>d DEF Entries
<1>g. ASSUME NEW q \in Peers, silence'[q] = Timeout PROVE Renewed(q)'
  BY <1>g DEF Renewed, Timeout
\* A peer that is no less expected than before, with no older entry.
<1>h. ASSUME NEW q \in Peers, peers'[q] \in {peers[q], None}, silence'[q] = silence[q],
             Reachable(q)' = Reachable(q), Expected(q)' = Expected(q), Portless(q)' => Portless(q)
      PROVE  Renewed(q)'
  BY <1>e, <1>h DEF Renewed
<1>i. ASSUME UNCHANGED <<others, net, silence>>, \A q \in Peers : peers'[q] \in {peers[q], None}
      PROVE  Goal
  <2> SUFFICES ASSUME NEW q \in Peers PROVE Renewed(q)' OBVIOUS
  <2>1. /\ Reachable(q)' = Reachable(q) /\ Expected(q)' = Expected(q)
        /\ Portless(q)' => Portless(q)
    BY <1>i DEF Reachable, Expected, Portless
  <2> QED BY <1>h, <1>i, <2>1
<1>1. ASSUME NEW k \in Slots, StartTask(k) PROVE Goal BY <1>1, <1>i DEF StartTask
<1>2. CASE StopTask BY <1>2, <1>g DEF StopTask
<1>3. CASE CallDropped BY <1>3, <1>i DEF CallDropped
<1>4. ASSUME NEW k \in Slots, Announce(k) PROVE Goal BY <1>4, <1>i DEF Announce
<1>5. ASSUME NEW k \in Slots, PacketHandled(k) PROVE Goal BY <1>5, <1>i DEF PacketHandled
<1>6. ASSUME NEW k \in Slots, expire_stale_peers(k) PROVE Goal BY <1>6, <1>i DEF expire_stale_peers
<1>7. ASSUME NEW k \in Slots, ExpiryTold(k) PROVE Goal BY <1>7, <1>i DEF ExpiryTold
<1>8. ASSUME NEW k \in Slots, TaskEnds(k) PROVE Goal BY <1>8, <1>i DEF TaskEnds
<1>9. ASSUME NEW k \in Slots, NEW pkt \in net, handle_packet(k, pkt) PROVE Goal
  <2>a. /\ pkt \in Packets /\ pkt.from \in Peers /\ pkt.announce \in BOOLEAN
        /\ net' = net \ {pkt} /\ UNCHANGED others
    BY <1>9, <1>d DEF handle_packet, Packets
  <2>b. ASSUME NEW q \in Peers, q # pkt.from PROVE
          /\ Reachable(q)' = Reachable(q) /\ Expected(q)' = Expected(q)
          /\ Portless(q)' => Portless(q)
    BY <2>a, <2>b DEF Reachable, Expected, Portless
  <2>1. CASE Ignored(pkt)
    <3>1. UNCHANGED <<peers, silence>> BY <1>9, <2>1 DEF handle_packet
    <3>2. Portless(pkt.from) BY <1>9, <2>1 DEF Ignored, Portless
    <3>3. (Reachable(pkt.from))' = Reachable(pkt.from) BY <2>a DEF Reachable
    <3>4. (Renewed(pkt.from))' BY <1>e, <2>a, <3>1, <3>2, <3>3 DEF Renewed
    <3>5. ASSUME NEW q \in Peers, q # pkt.from PROVE Renewed(q)' BY <1>h, <2>b, <3>1, <3>5
    <3> QED BY <2>a, <3>4, <3>5
  <2>2. CASE ~Ignored(pkt)
    <3>1. peers' = [peers EXCEPT ![pkt.from] = [id |-> pkt.id, age |-> 0]]
          /\ silence' = [silence EXCEPT ![pkt.from] =
                           IF handle /\ Reachable(pkt.from) THEN 0 ELSE Timeout]
      BY <1>9, <2>2 DEF handle_packet
    <3>2. ASSUME NEW q \in Peers, q # pkt.from PROVE Renewed(q)'
      BY <1>d, <1>h, <2>a, <2>b, <3>1, <3>2
    <3>3. PICK q \in Peers : q = pkt.from BY <2>a
    <3>4. /\ peers'[q] = [id |-> pkt.id, age |-> 0] /\ Reachable(q)' = Reachable(q)
          /\ silence'[q] = IF handle /\ Reachable(q) THEN 0 ELSE Timeout
      BY <1>d, <2>a, <3>1, <3>3 DEF Reachable
    <3>5. Renewed(q)' BY <3>4 DEF Renewed, Timeout
    <3> QED BY <3>2, <3>3, <3>5
  <2> QED BY <2>1, <2>2
<1>10. ASSUME NEW p \in Peers, Announces(p) PROVE Goal
  <2>1. UNCHANGED <<peers, silence, on, ident>> BY <1>10 DEF Announces
  <2>2. PICK m \in Packets : /\ m = [from |-> p, id |-> ident[p], announce |-> TRUE]
                             /\ net' = net \cup {m} /\ due' = due \ {p} /\ p \in due
    BY <1>10, <1>d DEF Announces, Packets
  <2>3. ASSUME NEW q \in Peers PROVE Renewed(q)'
    <3>1. Reachable(q)' = Reachable(q) BY <2>1 DEF Reachable
    <3>2. Expected(q)' = Expected(q) BY <2>2 DEF Expected
    <3>3. CASE Portless(q)' => Portless(q) BY <1>h, <2>1, <3>1, <3>2, <3>3
    <3>4. CASE Portless(q)' /\ ~Portless(q)
      <4>1. ~Reachable(q) BY <2>2, <3>4 DEF Portless, Reachable
      <4> QED BY <1>e, <1>g, <2>1, <4>1 DEF Renewed
    <3> QED BY <3>3, <3>4
  <2> QED BY <2>3
<1>11. ASSUME NEW p \in Peers, Answers(p) PROVE Goal
  <2>1. UNCHANGED <<peers, silence, on, ident, due>> BY <1>11 DEF Answers
  <2>a. [from |-> p, id |-> ident[p], announce |-> FALSE] \in Packets BY <1>d DEF Packets
  <2>b. net' \in {net, net \cup {[from |-> p, id |-> ident[p], announce |-> FALSE]}}
    BY <1>11 DEF Answers
  <2>2. PICK m \in Packets : /\ m = [from |-> p, id |-> ident[p], announce |-> FALSE]
                             /\ net' \in {net, net \cup {m}}
    BY <2>a, <2>b
  <2>3. ASSUME NEW q \in Peers PROVE Renewed(q)'
    <3>1. Reachable(q)' = Reachable(q) BY <2>1 DEF Reachable
    <3>2. Expected(q)' = Expected(q) BY <2>1, <2>2 DEF Expected
    <3>3. CASE Portless(q)' => Portless(q) BY <1>h, <2>1, <3>1, <3>2, <3>3
    <3>4. CASE Portless(q)' /\ ~Portless(q)
      <4>1. ~Reachable(q) BY <2>2, <3>4 DEF Portless, Reachable
      <4> QED BY <1>e, <1>g, <2>1, <4>1 DEF Renewed
    <3> QED BY <3>3, <3>4
  <2> QED BY <2>3
<1>12. ASSUME NEW p \in Peers, PeerChanges(p) PROVE Goal
  <2>1. UNCHANGED <<peers, net>> BY <1>12 DEF PeerChanges
  <2>2. ASSUME NEW q \in Peers \ {p} PROVE Renewed(q)'
    <3>1. /\ (q \in on)' = (q \in on) /\ (q \in due)' = (q \in due)
          /\ ident'[q] = ident[q] /\ silence'[q] = silence[q]
      BY <1>12, <1>d, <2>2 DEF PeerChanges
    <3>2. /\ Reachable(q)' = Reachable(q) /\ Expected(q)' = Expected(q)
          /\ Portless(q)' => Portless(q)
      BY <2>1, <3>1 DEF Reachable, Expected, Portless
    <3> QED BY <1>h, <2>1, <3>1, <3>2
  <2>3. Renewed(p)'
    <3>1. CASE ~(Reachable(p)')
      <4>1. silence'[p] = Timeout BY <1>12, <1>d, <3>1 DEF PeerChanges
      <4> QED BY <1>g, <4>1
    <3>2. CASE Reachable(p)' /\ ~Reachable(p)
      <4>1. silence' = silence BY <1>12, <3>2 DEF PeerChanges
      <4> QED BY <1>e, <1>g, <3>2, <4>1 DEF Renewed
    <3>3. CASE Reachable(p)' /\ Reachable(p)
      <4>1. silence' = silence /\ p \in on /\ p \in on' BY <1>12, <3>3 DEF PeerChanges, Reachable
      <4>2. due' = due BY <1>12, <4>1 DEF PeerChanges
      <4>3. Expected(p)' = Expected(p) /\ (Portless(p)' => Portless(p))
        BY <2>1, <4>2 DEF Expected, Portless
      <4>4. Reachable(p)' = Reachable(p) BY <3>3 DEF Reachable
      <4> QED BY <1>h, <2>1, <4>1, <4>3, <4>4
    <3> QED BY <3>1, <3>2, <3>3
  <2> QED BY <2>2, <2>3
<1>13. ASSUME NEW pkt \in net, Lose(pkt) PROVE Goal
  <2>a. /\ pkt \in Packets /\ pkt.from \in Peers /\ pkt.announce \in BOOLEAN
        /\ net' = net \ {pkt} /\ UNCHANGED <<others, peers>>
    BY <1>13, <1>d DEF Lose, Packets
  <2>1. ASSUME NEW q \in Peers PROVE Renewed(q)'
    <3>1. Reachable(q)' = Reachable(q) /\ (Portless(q)' => Portless(q))
      BY <2>a DEF Reachable, Portless
    <3>2. CASE q # pkt.from \/ ~pkt.announce
      <4>1. Expected(q)' = Expected(q) BY <2>a, <3>2 DEF Expected
      <4>2. silence'[q] = silence[q] BY <1>13, <1>d, <2>a, <3>2 DEF Lose
      <4> QED BY <1>h, <2>a, <3>1, <4>1, <4>2
    <3>3. CASE q = pkt.from /\ pkt.announce
      <4>1. CASE silence[q] < Timeout
        <5>1. silence'[q] = silence[q] + 1 BY <1>13, <1>d, <3>3, <4>1 DEF Lose
        <5>2. Reachable(q) BY <1>e, <4>1 DEF Renewed, Timeout
        <5>3. peers[q] # None => peers[q].age <= silence[q] + 1 BY <1>e, <4>1 DEF Renewed
        <5> QED BY <1>f, <2>a, <3>1, <5>1, <5>2, <5>3 DEF Renewed, Timeout, Old
      <4>2. CASE ~(silence[q] < Timeout)
        <5>1. silence'[q] = Timeout BY <1>13, <1>f, <3>3, <4>2 DEF Lose, Timeout
        <5> QED BY <1>g, <5>1
      <4> QED BY <4>1, <4>2
    <3> QED BY <2>a, <3>2, <3>3
  <2> QED BY <2>1
<1>14. CASE Tick
  <2>1. /\ net = {} /\ due = {} /\ net' = {} /\ due' = on /\ peers' = Aged(1)
        /\ UNCHANGED <<on, ident, silence>>
    BY <1>14 DEF Tick
  <2>2. ASSUME NEW q \in Peers PROVE Renewed(q)'
    <3>1. ~Expected(q) /\ ~Portless(q)' BY <2>1 DEF Expected, Portless
    <3>2. Reachable(q)' = Reachable(q) BY <2>1 DEF Reachable
    <3>3. CASE silence[q] = Timeout BY <1>g, <2>1, <3>3
    <3>4. CASE silence[q] # Timeout
      <4>1. silence[q] < Timeout /\ Reachable(q) BY <1>e, <1>f, <3>4 DEF Renewed, Timeout
      <4>2. Expected(q)' BY <2>1, <4>1 DEF Expected, Reachable
      <4>3. CASE peers[q] = None
        <5>1. peers'[q] = None BY <2>1, <4>3 DEF Aged
        <5> QED BY <3>2, <4>1, <5>1 DEF Renewed
      <4>4. CASE peers[q] # None
        <5>1. peers[q].age <= silence[q] BY <1>e, <3>1, <4>1, <4>4 DEF Renewed
        <5>2. peers'[q] = [peers[q] EXCEPT !.age = Limited(@ + 1)] BY <2>1, <4>4 DEF Aged
        <5>3. peers'[q].age = Limited(peers[q].age + 1) BY <1>d, <4>4, <5>2 DEF Entries
        <5>4. peers'[q].age <= silence[q] + 1
          BY <1>f, <4>1, <4>4, <5>1, <5>3 DEF Limited, Timeout, Old
        <5> QED BY <2>1, <3>1, <3>2, <4>1, <4>2, <5>4 DEF Renewed
      <4> QED BY <4>3, <4>4
    <3> QED BY <3>3, <3>4
  <2> QED BY <2>2
<1>15. CASE ClockJump BY <1>15, <1>g DEF ClockJump
<1>16. CASE UNCHANGED vars BY <1>16, <1>i DEF vars
<1>17. CASE clear_peers BY <1>17, <1>i DEF clear_peers, Unknown
<1> QED
  BY <1>1, <1>2, <1>3, <1>17, <1>4, <1>5, <1>6, <1>7, <1>8,
     <1>9, <1>10, <1>11, <1>12, <1>13, <1>14, <1>15, <1>16
  DEF Next, start_discovery, stop_discovery, discover_peers, DiscoverReturns

-----------------------------------------------------------------------------
(***************************************************************************)
(* Theorems                                                                *)
(***************************************************************************)
LEMMA InitInv == Init => Inv
<1> SUFFICES ASSUME Init PROVE Inv OBVIOUS
<1>1. NoTask \in Tasks /\ NoTask.st = "none" /\ NoTask.new = None /\ NoTask.gone = {}
  BY DEF NoTask, Tasks
<1>2. \A k \in Slots : task[k] = NoTask /\ ~Exists(k) BY <1>1 DEF Init, Exists
<1>3. TypeOK
  <2>1. /\ task \in [Slots -> Tasks] /\ \A k \in Slots : task[k].st # "live"
    BY <1>1, <1>2 DEF Init
  <2>2. /\ peers \in [Peers -> Entries \cup {None}]
        /\ seen \in [Peers -> (Idents \ {NoPort}) \cup {None}]
        /\ silence \in [Peers -> 0 .. Timeout]
    BY DEF Init, Unknown, Timeout
  <2>3. starts \in 0 .. MaxStarts /\ changes \in 0 .. MaxChanges /\ jumps \in 0 .. MaxJumps
    BY DiscoveryAssumption DEF Init
  <2> QED BY <2>1, <2>2, <2>3 DEF Init, TypeOK
<1>4. TasksAreSound BY <1>1, <1>2 DEF TasksAreSound
<1>5. \A p \in Peers : seen[p] = Entry(p) BY DEF Init, Entry, Unknown
<1>6. EventsAreInOrder
  BY <1>1, <1>2, <1>5 DEF EventsAreInOrder, OneTask, EventsTell
<1>7. LossesAreCounted BY DEF Init, LossesAreCounted, Renewed, Timeout
<1> QED BY <1>3, <1>4, <1>6, <1>7 DEF Inv

\* Types, tasks, events and losses: the inductive invariant.
THEOREM Invariance == Spec => []Inv
<1>1. Inv /\ [Next]_vars => Inv' BY TypeStep, TasksStep, EventsStep, LossesStep DEF Inv
<1> QED BY <1>1, InitInv, PTL DEF Spec

\* The handle is there exactly while one task is live, and every value stays in its
\* type, for any number of starts, stops, packets and jumps of the clock.
THEOREM TypeCorrect == Spec => []TypeOK
<1>1. Inv => TypeOK BY DEF Inv
<1> QED BY <1>1, Invariance, PTL

\* Whenever no task is halfway through a step and no task outlived a start, the
\* PeerDiscovered and PeerLost events add up to the table, for any peers and any order
\* of packets, timers, stops and starts.
THEOREM EventsAddUp == Spec => []EventsTellTheTable
<1>1. Inv => EventsTellTheTable
  BY RestingOwesNothing DEF Inv, EventsAreInOrder, EventsTellTheTable
<1> QED BY <1>1, Invariance, PTL

\* expire_stale_peers drops a peer that announces itself only after Timeout - 1 losses
\* in a row (or a jump of the wall clock): an entry's age never exceeds the losses since
\* it was renewed by more than the unit in which the next announcement is expected.
THEOREM LossesTolerated == Spec => LossesAreTolerated
<1>1. Inv /\ [Next]_vars =>
        [\A p \in Peers : handle /\ handle' /\ peers[p] # None /\ peers'[p] = None
                            => silence[p] >= Timeout - 1]_vars
  <2> SUFFICES ASSUME Inv, [Next]_vars, NEW p \in Peers, handle, handle', peers[p] # None,
                      peers'[p] = None
               PROVE  silence[p] >= Timeout - 1
    OBVIOUS
  <2>1. /\ silence[p] \in 0 .. Timeout /\ Renewed(p) /\ peers[p] \in Entries
        /\ peers \in [Peers -> Entries \cup {None}] /\ net \subseteq Packets
    BY DEF Inv, TypeOK, LossesAreCounted
  <2>2. peers[p].age \in -Timeout .. Old BY <2>1 DEF Entries
  <2>3. CASE p \in OlderThan(Timeout - 1)
    BY <2>1, <2>2, <2>3 DEF OlderThan, Renewed, Timeout, Old
  <2>4. ASSUME NEW d \in {-Timeout, 1, Old}, peers' = Aged(d) PROVE FALSE
    <3>1. peers'[p] = [peers[p] EXCEPT !.age = Limited(@ + d)] BY <2>4 DEF Aged
    <3> QED BY <2>1, <2>4, <3>1, LimitedTypes, NoneAssumption
  <2>5. ASSUME NEW k \in Slots, NEW pkt \in net, handle_packet(k, pkt) PROVE FALSE
    <3>1. pkt \in Packets BY <2>1
    <3>2. \/ peers' = peers
          \/ ~Ignored(pkt) /\ peers' = [peers EXCEPT ![pkt.from] = [id |-> pkt.id, age |-> 0]]
      BY <2>5 DEF handle_packet
    <3> QED BY <2>1, <3>1, <3>2, FreshEntry
  <2>6. CASE UNCHANGED peers BY <2>6
  <2>7. CASE \E k \in Slots : expire_stale_peers(k)
    <3>1. p \in OlderThan(Timeout - 1) BY <2>7 DEF expire_stale_peers, Stale
    <3> QED BY <2>3, <3>1
  <2>8. ~clear_peers BY DEF clear_peers, Inv, TypeOK
  <2>9. Tick \/ ClockJump => FALSE BY <2>4 DEF Tick, ClockJump
  <2>10. \/ UNCHANGED peers \/ clear_peers \/ Tick \/ ClockJump
         \/ \E k \in Slots : \/ expire_stale_peers(k)
                             \/ \E pkt \in net : handle_packet(k, pkt)
    BY DEF Next, start_discovery, stop_discovery, discover_peers, DiscoverReturns, StartTask,
       StopTask, CallDropped, Announce, PacketHandled, ExpiryTold, TaskEnds, Announces, Answers,
       PeerChanges, Lose, vars, engine, others, bounds
  <2> QED BY <2>5, <2>6, <2>7, <2>8, <2>9, <2>10
<1> QED BY <1>1, Invariance, PTL DEF Spec, LossesAreTolerated
=============================================================================

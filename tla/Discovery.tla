----------------------------- MODULE Discovery -----------------------------
(***************************************************************************)
(* Peer discovery (src/discovery.rs and the discovery methods of           *)
(* src/lib.rs): an engine announces itself by multicast, answers the       *)
(* announcements of others, keeps a table of peers and tells the           *)
(* application of changes by events.                                       *)
(*                                                                         *)
(* One engine is modelled with its tasks, its table and its events.  The   *)
(* others run the same code and are modelled by what they put on the       *)
(* network: announcements while they run, and answers.                     *)
(*                                                                         *)
(* stop_discovery only signals the task and then waits for the table to    *)
(* clear it: the task may finish the step it is in, and select! may prefer *)
(* a packet or a timer to the signal a few times.  A task changes the      *)
(* table under its lock and emits the events after it, so each step is two *)
(* actions.                                                                *)
(*                                                                         *)
(* Time passes in units of peer_timeout / 3, the period of the expiry      *)
(* timer, which with the default configuration is also the interval of the *)
(* announcements.  Timers and packets fall anywhere in a unit, so an entry *)
(* whose age is a (the ticks since it was renewed) is between a - 1 and    *)
(* a + 1 units old.  Packets are lost and reordered; packets, steps, a     *)
(* stop and the end of a signalled task take less than a unit.  last_seen  *)
(* is wall-clock time, which may jump.  What is announced besides the      *)
(* fingerprint (name, address, port) is one value; the port 0 is one of    *)
(* them.  The engine's own packets, which the loopback returns and it      *)
(* ignores, are left out.                                                  *)
(***************************************************************************)
EXTENDS Integers, FiniteSets

CONSTANTS
  Peers,       \* the other engines, by fingerprint
  Idents,      \* what they may announce
  NoPort,      \* announced while the port is 0
  Slots,       \* numbers of the discovery tasks that may exist at the same time
  None,
  MaxStarts,   \* bound on starts of discovery
  MaxChanges,  \* bound on changes of the others: started, stopped, renamed
  MaxJumps     \* bound on jumps of the wall clock

ASSUME DiscoveryAssumption ==
  /\ NoPort \in Idents
  /\ None \notin Idents /\ None \notin Peers /\ None \notin [peer : Peers, id : Idents]
  /\ Slots \subseteq Nat
  /\ MaxStarts \in Nat /\ MaxChanges \in Nat /\ MaxJumps \in Nat

VARIABLES
  handle,   \* discovery_handle is there
  calling,  \* the call under way: discover_peers sleeps, or a stop waits for the table
  task,     \* per slot: the discovery task
  peers,    \* per peer: the entry of the table
  seen,     \* per peer: what the events say, forgotten at a stop
  overrun,  \* a task was in a step at a stop, or still there at the next start
  on,       \* the others that run discovery
  ident,    \* what they announce
  due,      \* those that have yet to announce themselves in this unit
  asked,    \* those that an announcement of the engine is under way to
  net,      \* packets under way to the engine
  silence,  \* per peer: announcements lost in a row, or another reason to lose it
  starts, changes, jumps

engine == <<handle, calling, task, peers, seen, overrun>>
others == <<on, ident, due>>
bounds == <<starts, changes, jumps>>
vars   == <<engine, others, asked, net, silence, bounds>>

Timeout == 3
Old     == Timeout + 1
Timers  == {"announce", "expire"}

Packets == [from : Peers, id : Idents, announce : BOOLEAN]
Tasks   == [st : {"none", "live", "ending"}, due : SUBSET Timers,
            new : [peer : Peers, id : Idents] \cup {None},   \* PeerDiscovered to be emitted
            gone : SUBSET Peers]                            \* PeerLost to be emitted
NoTask  == [st |-> "none", due |-> {}, new |-> None, gone |-> {}]
Unknown == [p \in Peers |-> None]
Entries == [id : Idents \ {NoPort}, age : -Timeout .. Old]

ASSUME NoneAssumption == None \notin Entries

TypeOK ==
  /\ handle \in BOOLEAN /\ overrun \in BOOLEAN
  /\ calling \in {"none", "discovering", "stopping"}
  /\ calling = "discovering" => handle
  /\ calling = "stopping" => ~handle
  /\ task \in [Slots -> Tasks]
  /\ handle <=> \E k \in Slots : task[k].st = "live"
  /\ \A j, k \in Slots : task[j].st = "live" /\ task[k].st = "live" => j = k
  /\ peers \in [Peers -> Entries \cup {None}]
  /\ seen \in [Peers -> (Idents \ {NoPort}) \cup {None}]
  /\ on \subseteq Peers /\ due \subseteq on /\ asked \subseteq Peers
  /\ ident \in [Peers -> Idents]
  /\ net \subseteq Packets
  /\ silence \in [Peers -> 0 .. Timeout]
  /\ starts \in 0 .. MaxStarts /\ changes \in 0 .. MaxChanges /\ jumps \in 0 .. MaxJumps

Init ==
  /\ handle = FALSE /\ calling = "none" /\ overrun = FALSE
  /\ task = [k \in Slots |-> NoTask]
  /\ peers = Unknown /\ seen = Unknown
  /\ on \in SUBSET Peers /\ due = on
  /\ ident \in [Peers -> Idents]
  /\ asked = {} /\ net = {}
  /\ silence = [p \in Peers |-> Timeout]
  /\ starts = 0 /\ changes = 0 /\ jumps = 0

-----------------------------------------------------------------------------
(***************************************************************************)
(* The engine's methods                                                    *)
(***************************************************************************)
Exists(k)  == task[k].st # "none"
Resting(k) == Exists(k) /\ task[k].new = None /\ task[k].gone = {}

\* A new task; the first ticks of its timers are immediate.
StartTask(k) ==
  /\ ~handle /\ calling = "none"
  /\ ~Exists(k) /\ \A j \in Slots : j < k => Exists(j)
  /\ starts < MaxStarts /\ starts' = starts + 1
  /\ handle' = TRUE
  /\ task' = [task EXCEPT ![k] = [NoTask EXCEPT !.st = "live", !.due = Timers]]
  /\ overrun' = (overrun \/ \E j \in Slots : Exists(j))
  /\ UNCHANGED <<peers, seen, others, asked, net, silence, changes, jumps>>

\* The handle is taken and the task signalled ...
StopTask ==
  /\ handle
  /\ handle' = FALSE
  /\ task' = [k \in Slots |-> IF task[k].st = "live" THEN [task[k] EXCEPT !.st = "ending"] ELSE task[k]]
  /\ calling' = "stopping"
  /\ silence' = [p \in Peers |-> Timeout]
  /\ UNCHANGED <<peers, seen, overrun, others, asked, net, bounds>>

\* ... and the table is cleared once its lock is free; nobody is told.
clear_peers ==
  /\ calling = "stopping"
  /\ calling' = "none"
  /\ peers' = Unknown /\ seen' = Unknown
  /\ overrun' = (overrun \/ \E k \in Slots : Exists(k) /\ ~Resting(k))
  /\ UNCHANGED <<handle, task, others, asked, net, silence, bounds>>

start_discovery ==
  /\ \E k \in Slots : StartTask(k)
  /\ UNCHANGED calling

stop_discovery ==
  /\ calling = "none"
  /\ StopTask

\* Discovery for the duration of the call ...
discover_peers ==
  /\ \E k \in Slots : StartTask(k)
  /\ calling' = "discovering"

\* ... is stopped after the snapshot,
DiscoverReturns ==
  /\ calling = "discovering"
  /\ StopTask

\* and goes on if the caller drops the call; a stop that is dropped leaves the table.
CallDropped ==
  /\ calling # "none"
  /\ calling' = "none"
  /\ UNCHANGED <<handle, task, peers, seen, overrun, others, asked, net, silence, bounds>>

-----------------------------------------------------------------------------
(***************************************************************************)
(* The discovery task                                                      *)
(***************************************************************************)
TaskEnds(k) ==
  /\ task[k].st = "ending" /\ Resting(k)
  /\ task' = [task EXCEPT ![k] = NoTask]
  /\ UNCHANGED <<handle, calling, peers, seen, overrun, others, asked, net, silence, bounds>>

\* To everybody in the group.
Announce(k) ==
  /\ Resting(k) /\ "announce" \in task[k].due
  /\ task' = [task EXCEPT ![k].due = @ \ {"announce"}]
  /\ asked' = asked \cup on
  /\ UNCHANGED <<handle, calling, peers, seen, overrun, others, net, silence, bounds>>

\* Mutant: a changed name or port is entered without an event.
Changed_OnlyNew(pkt) == peers[pkt.from] = None

\* A new peer, or another name, address or port of a known one.
Changed(pkt) == peers[pkt.from] = None \/ peers[pkt.from].id # pkt.id

Ignored_Nothing(pkt) == FALSE   \* mutant

Ignored(pkt) == pkt.id = NoPort

Reachable(p) == p \in on /\ ident[p] # NoPort

\* Mutant: an unchanged entry is not renewed.
handle_packet_NotRenewed(k, pkt) ==
  /\ Resting(k)
  /\ pkt \in net
  /\ net' = net \ {pkt}
  /\ IF Ignored(pkt)
     THEN UNCHANGED <<peers, task, silence>>
     ELSE /\ peers' = IF Changed(pkt)
                      THEN [peers EXCEPT ![pkt.from] = [id |-> pkt.id, age |-> 0]] ELSE peers
          /\ silence' = [silence EXCEPT ![pkt.from] = IF handle /\ Reachable(pkt.from) THEN 0 ELSE Timeout]
          /\ task' = [task EXCEPT ![k].new =
                        IF Changed(pkt) THEN [peer |-> pkt.from, id |-> pkt.id] ELSE None]
  /\ UNCHANGED <<handle, calling, seen, overrun, others, asked, bounds>>

\* The entry is replaced; the event follows, and an announcement is answered.
handle_packet(k, pkt) ==
  /\ Resting(k)
  /\ pkt \in net
  /\ net' = net \ {pkt}
  /\ IF Ignored(pkt)
     THEN UNCHANGED <<peers, task, silence>>
     ELSE /\ peers' = [peers EXCEPT ![pkt.from] = [id |-> pkt.id, age |-> 0]]
          /\ silence' = [silence EXCEPT ![pkt.from] = IF handle /\ Reachable(pkt.from) THEN 0 ELSE Timeout]
          /\ task' = [task EXCEPT ![k].new =
                        IF Changed(pkt) THEN [peer |-> pkt.from, id |-> pkt.id] ELSE None]
  /\ UNCHANGED <<handle, calling, seen, overrun, others, asked, bounds>>

\* PeerDiscovered.
PacketHandled(k) ==
  /\ task[k].new # None
  /\ seen' = [seen EXCEPT ![task[k].new.peer] = task[k].new.id]
  /\ task' = [task EXCEPT ![k].new = None]
  /\ UNCHANGED <<handle, calling, peers, overrun, others, asked, net, silence, bounds>>

\* The entries last seen more than peer_timeout ago: those older than Timeout units,
\* and of those in the unit in which they reach it, any.
OlderThan(a) == {p \in Peers : peers[p] # None /\ peers[p].age > a}
Stale == {gone \in SUBSET OlderThan(Timeout - 1) : OlderThan(Timeout) \subseteq gone}

\* Mutant: the timer runs and nothing expires.
expire_stale_peers_Never(k) ==
  /\ Resting(k) /\ "expire" \in task[k].due
  /\ task' = [task EXCEPT ![k].due = @ \ {"expire"}]
  /\ UNCHANGED <<handle, calling, peers, seen, overrun, others, asked, net, silence, bounds>>

\* The stale entries are removed ...
expire_stale_peers(k) ==
  /\ Resting(k) /\ "expire" \in task[k].due
  /\ \E gone \in Stale :
       /\ task' = [task EXCEPT ![k].due = @ \ {"expire"}, ![k].gone = gone]
       /\ peers' = [p \in Peers |-> IF p \in gone THEN None ELSE peers[p]]
  /\ UNCHANGED <<handle, calling, seen, overrun, others, asked, net, silence, bounds>>

\* ... and PeerLost is emitted for each.
ExpiryTold(k) ==
  /\ task[k].gone # {}
  /\ seen' = [p \in Peers |-> IF p \in task[k].gone THEN None ELSE seen[p]]
  /\ task' = [task EXCEPT ![k].gone = {}]
  /\ UNCHANGED <<handle, calling, peers, overrun, others, asked, net, silence, bounds>>

-----------------------------------------------------------------------------
(***************************************************************************)
(* The others, the network and the clocks                                  *)
(***************************************************************************)
Announces(p) ==
  /\ p \in due
  /\ due' = due \ {p}
  /\ net' = net \cup {[from |-> p, id |-> ident[p], announce |-> TRUE]}
  /\ UNCHANGED <<engine, on, ident, asked, silence, bounds>>

\* The announcement of the engine arrives and is answered, unless it is lost.
Answers(p) ==
  /\ p \in asked
  /\ asked' = asked \ {p}
  /\ net' \in {net} \cup (IF p \in on THEN {net \cup {[from |-> p, id |-> ident[p], announce |-> FALSE]}}
                                      ELSE {})
  /\ UNCHANGED <<engine, others, silence, bounds>>

Lose(pkt) ==
  /\ pkt \in net
  /\ net' = net \ {pkt}
  /\ silence' = IF pkt.announce /\ silence[pkt.from] < Timeout
                THEN [silence EXCEPT ![pkt.from] = @ + 1] ELSE silence
  /\ UNCHANGED <<engine, others, asked, bounds>>

\* A peer starts or stops discovery, or changes its name or port.  It says no goodbye.
PeerChanges(p) ==
  /\ changes < MaxChanges
  /\ changes' = changes + 1
  /\ \/ /\ on' = IF p \in on THEN on \ {p} ELSE on \cup {p}
        /\ due' = IF p \in on THEN due \ {p} ELSE due \cup {p}
        /\ UNCHANGED ident
     \/ /\ \E i \in Idents \ {ident[p]} : ident' = [ident EXCEPT ![p] = i]
        /\ UNCHANGED <<on, due>>
  /\ silence' = IF Reachable(p)' THEN silence ELSE [silence EXCEPT ![p] = Timeout]
  /\ UNCHANGED <<engine, asked, net, starts, jumps>>

Limited(a) == IF a > Old THEN Old ELSE IF a < -Timeout THEN -Timeout ELSE a
Aged(d) == [p \in Peers |-> IF peers[p] = None THEN None
                            ELSE [peers[p] EXCEPT !.age = Limited(@ + d)]]

\* A unit of time: the timers of every task are due again.
Tick ==
  /\ net = {} /\ asked = {} /\ due = {} /\ calling # "stopping"
  /\ \A k \in Slots : Exists(k) => task[k].st = "live" /\ Resting(k) /\ task[k].due = {}
  /\ peers' = Aged(1)
  /\ task' = [k \in Slots |-> IF Exists(k) THEN [task[k] EXCEPT !.due = Timers] ELSE task[k]]
  /\ due' = on
  /\ UNCHANGED <<handle, calling, seen, overrun, on, ident, asked, net, silence, bounds>>

\* The wall clock is set forward or back.
ClockJump ==
  /\ jumps < MaxJumps
  /\ jumps' = jumps + 1
  /\ \E d \in {-Timeout, Old} : peers' = Aged(d)
  /\ silence' = [p \in Peers |-> Timeout]
  /\ UNCHANGED <<handle, calling, task, seen, overrun, others, asked, net, starts, changes>>

Next ==
  \/ start_discovery \/ stop_discovery \/ discover_peers \/ DiscoverReturns
  \/ clear_peers \/ CallDropped
  \/ \E k \in Slots : \/ Announce(k) \/ PacketHandled(k) \/ expire_stale_peers(k)
                      \/ ExpiryTold(k) \/ TaskEnds(k)
                      \/ \E pkt \in net : handle_packet(k, pkt)
  \/ \E p \in Peers : Announces(p) \/ Answers(p) \/ PeerChanges(p)
  \/ \E pkt \in net : Lose(pkt)
  \/ Tick \/ ClockJump

Spec == Init /\ [][Next]_vars

\* A task takes the steps that are ready and ends some time after it was signalled
\* (select! chooses at random); a stop gets the table's lock; the others announce
\* themselves; packets arrive or are lost, and of a peer's packets, sent again and
\* again, some arrive; time passes.
Fairness ==
  /\ \A k \in Slots :
       /\ WF_vars(Announce(k)) /\ WF_vars(PacketHandled(k))
       /\ WF_vars(expire_stale_peers(k)) /\ WF_vars(ExpiryTold(k)) /\ SF_vars(TaskEnds(k))
  /\ \A p \in Peers :
       /\ WF_vars(Announces(p)) /\ WF_vars(Answers(p))
       /\ SF_vars(\E k \in Slots, pkt \in net : pkt.from = p /\ pkt.id = ident[p] /\ handle_packet(k, pkt))
  /\ WF_vars(\E pkt \in net : Lose(pkt))
  /\ WF_vars(clear_peers)
  /\ WF_vars(Tick)
FairSpec == Spec /\ Fairness

-----------------------------------------------------------------------------
(***************************************************************************)
(* Properties                                                              *)
(***************************************************************************)
Entry(p) == IF peers[p] = None THEN None ELSE peers[p].id

\* An application that follows PeerDiscovered and PeerLost and forgets its peers when
\* it stops discovery has the table's view, with the current name, address and port -
\* also when a signalled task goes on handling packets, as long as it does not outlive
\* the next start and was not halfway through a step.
EventsTellTheTable ==
  ~overrun /\ (\A k \in Slots : Exists(k) => Resting(k)) => \A p \in Peers : seen[p] = Entry(p)

\* With the default intervals no announcing peer is given up before two of its
\* announcements in a row were lost, whatever the order of timers and packets: a single
\* loss is always survived, while two suffice if the third comes after the expiry timer.
LossesAreTolerated ==
  [][\A p \in Peers : handle /\ handle' /\ peers[p] # None /\ peers'[p] = None
                        => silence[p] >= Timeout - 1]_vars

\* While discovery runs the table follows the network: a peer that has stopped for
\* good, or has no port, is lost, although it does not say goodbye and the clock may be
\* set back; one that goes on announcing itself is listed again and again, under its
\* last name and port.
TableFollowsPeers ==
  \A p \in Peers :
    /\ <>[](handle /\ ~Reachable(p)) => <>[](peers[p] = None)
    /\ <>[](handle /\ Reachable(p)) => []<>(Entry(p) = ident[p])

=============================================================================

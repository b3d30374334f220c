------------------------ MODULE EngineLifecycleProofs ------------------------
(***************************************************************************)
(* Proofs about the engine's lifecycle, for any ports, directories and     *)
(* number of dropped calls.                                                *)
(***************************************************************************)
EXTENDS EngineLifecycle, TLAPS

\* While the engine has a handle, only calls run that leave it alone; a call that
\* brings a new one has set the ports it has passed.
Starting ==
  /\ handle # None => /\ call.h = None /\ call.new = 0 /\ call.rollback = "no"
                      /\ call.op \in {"none", "config", "hosts"}
                      /\ call.at \in {"none", "server", "discovery"}
  /\ call.at \in {"close", "load", "bind"} => call.h = None
  /\ call.at \in {"load", "bind"} => call.op = "start" \/ call.new # 0
  /\ call.op = "start" /\ call.h = None => call.at \in {"load", "bind"}
  /\ call.op = "stop" => call.at \in {"stop", "close"}
  /\ call.new # 0 => call.op = "port"
  /\ call.rollback # "no" => call.new # 0
  /\ call.h # None /\ call.at # "stop" =>
       /\ call.op \in {"start", "port"} /\ call.at \in {"server", "discovery"}
       /\ listener[call.h] = "serving" /\ config.port = call.h
       /\ call.at = "discovery" => server.port = call.h
  /\ call.at = "stop" => call.h # None
  /\ call.at \in {"stop", "close"} => call.op = "stop" \/ call.new # 0
  /\ call = Idle <=> call.op = "none"
  /\ call = Idle <=> call.at = "none"
  /\ ~alive => call = Idle

\* Without dropped calls every listener belongs to the engine or to the call.
NoOrphans ==
  drops = 0 /\ alive => \A p \in Ports : listener[p] # "none" => p = handle \/ p = call.h

\* Without dropped calls the server's copy of the directory is the engine's, or is
\* about to be; and a stopped engine has closed its store, or is stale.
StoreClosed ==
  drops = 0 =>
    /\ \/ server.dir = config.dir
       \/ call.op = "config" /\ call.at = "server" /\ handle = None
    /\ /\ alive /\ ~stale /\ handle = None /\ call.h = None
       /\ call.op \in {"none", "config", "hosts"} \/ (call.op = "port" /\ call.new = 0)
       => root = None

Inv == TypeOK /\ PortsAgree /\ Starting /\ NoOrphans /\ StoreClosed /\ StoreFollowsConfig

\* A call that waits somewhere is not Idle.
LEMMA NotIdle == TypeOK /\ call.at # "none" => call \in Calls
  BY DEF TypeOK, Idle, Call

\* The fields of no call.
LEMMA IdleCall == /\ Idle.op = "none" /\ Idle.at = "none" /\ Idle.h = None /\ Idle.new = 0
                  /\ Idle.rollback = "no"
                  /\ Idle \notin Calls
  BY DEF Idle, Call, Calls

\* A new call is one.
LEMMA NewCalls ==
  /\ \A op \in {"start", "stop", "port", "config", "hosts"}, at \in Waits : Call(op, at) \in Calls
  /\ \A h \in Ports : [Call("stop", "stop") EXCEPT !.h = h] \in Calls
  /\ \A h \in Ports, old \in Ports \cup {0}, new \in Ports, rollback \in {"no", "yes"} :
       [op |-> "port", at |-> "stop", h |-> h, old |-> old, new |-> new, rollback |-> rollback]
         \in Calls
<1> USE EngineAssumption DEF Calls, Waits
<1>1. \A op \in {"start", "stop", "port", "config", "hosts"}, at \in Waits : Call(op, at) \in Calls
  BY DEF Call
<1>2. \A h \in Ports : [Call("stop", "stop") EXCEPT !.h = h] \in Calls BY DEF Call
<1>3. \A h \in Ports, old \in Ports \cup {0}, new \in Ports, rollback \in {"no", "yes"} :
        [op |-> "port", at |-> "stop", h |-> h, old |-> old, new |-> new, rollback |-> rollback]
          \in Calls
  OBVIOUS
<1> HIDE DEF Calls, Waits
<1> QED BY <1>1, <1>2, <1>3

\* The updates of a call by its steps keep its type.
LEMMA CallUpdates ==
  ASSUME NEW c \in Calls
  PROVE  /\ [c EXCEPT !.at = "server"] \in Calls /\ [c EXCEPT !.at = "discovery"] \in Calls
         /\ [c EXCEPT !.at = "load"] \in Calls /\ [c EXCEPT !.at = "bind"] \in Calls
         /\ [c EXCEPT !.at = "close", !.h = None] \in Calls
         /\ [c EXCEPT !.at = "server", !.rollback = "begun"] \in Calls
         /\ \A h \in Ports : [c EXCEPT !.at = "server", !.h = h] \in Calls
  BY DEF Calls, Waits

\* The fields of a call.
LEMMA CallFields ==
  ASSUME NEW c \in Calls
  PROVE  c.h \in Ports \cup {None} /\ c.old \in Ports \cup {0} /\ c.new \in Ports \cup {0}
  BY DEF Calls

\* Every variable keeps its type.
LEMMA TypeStep == TypeOK /\ Starting /\ [Next]_vars => TypeOK'
<1> SUFFICES ASSUME TypeOK, Starting, [Next]_vars PROVE TypeOK' OBVIOUS
<1> USE EngineAssumption, NotIdle DEF TypeOK, vars, env, Config, Ready, Waits
<1>1. CASE start_server
  <2>1. call' \in Calls \cup {Idle} BY <1>1, NewCalls DEF start_server
  <2> QED BY <1>1, <2>1 DEF start_server
<1>2. CASE stop_server
  <2>1. call' \in Calls \cup {Idle} BY <1>2, NewCalls DEF stop_server, Shutdown
  <2> QED BY <1>2, <2>1 DEF stop_server, Shutdown
<1>3. CASE trusted_host
  <2>1. call' \in Calls \cup {Idle} BY <1>3, NewCalls DEF trusted_host
  <2> QED BY <1>3, <2>1 DEF trusted_host
<1>4. ASSUME NEW new \in Ports, NEW rollback \in {"no", "yes"},
            change_port_with_options(new, rollback)
      PROVE  TypeOK'
  <2>1. CASE handle # None
    <3>1. call' = [op |-> "port", at |-> "stop", h |-> handle, old |-> config.port,
                   new |-> new, rollback |-> rollback]
      BY <1>4, <2>1 DEF change_port_with_options
    <3>2. call' \in Calls BY <2>1, <3>1, NewCalls
    <3> QED BY <1>4, <2>1, <3>2 DEF change_port_with_options, Shutdown
  <2>2. CASE handle = None
    <3>1. call' \in Calls BY <1>4, <2>2, NewCalls DEF change_port_with_options
    <3> QED BY <1>4, <2>2, <3>1 DEF change_port_with_options
  <2> QED BY <2>1, <2>2
<1>5. ASSUME NEW new \in Config, update_config(new) PROVE TypeOK'
  <2>1. call' \in Calls \cup {Idle} BY <1>5, NewCalls DEF update_config
  <2> QED BY <1>5, <2>1 DEF update_config
<1>6. CASE Stopped
  <2>1. call \in Calls BY <1>6, NotIdle DEF Stopped
  <2>2. call' = [call EXCEPT !.at = "close", !.h = None] BY <1>6 DEF Stopped
  <2>3. call' \in Calls BY <2>1, <2>2, CallUpdates, Zenon
  <2>4. call.h \in Ports \cup {None} BY <2>1, CallFields
  <2> QED BY <1>6, <2>3, <2>4 DEF Stopped
<1>7. CASE Closed
  <2>1. call \in Calls BY <1>7, NotIdle DEF Closed
  <2>2. call' \in {Idle, [call EXCEPT !.at = "server"]} BY <1>7 DEF Closed, At
  <2>3. call' \in Calls \cup {Idle}
    <3>1. {Idle, [call EXCEPT !.at = "server"]} \subseteq Calls \cup {Idle} BY <2>1, CallUpdates, Zenon
    <3> QED BY <2>2, <3>1
  <2>4. call.h \in Ports \cup {None} /\ call.old \in Ports \cup {0} /\ call.new \in Ports \cup {0}
    BY <2>1, CallFields
  <2>5. config' \in {config, [config EXCEPT !.port = call.new]} BY <1>7 DEF Closed
  <2>6. config' \in Config BY <2>4, <2>5
  <2> QED BY <1>7, <2>3, <2>6 DEF Closed
<1>8. CASE UpdateServer
  <2>1. call \in Calls BY <1>8, NotIdle DEF UpdateServer
  <2>2. call' \in {Idle, [call EXCEPT !.at = "load"], [call EXCEPT !.at = "discovery"]}
    BY <1>8 DEF UpdateServer, At
  <2>3. call' \in Calls \cup {Idle}
    <3>1. {Idle, [call EXCEPT !.at = "load"], [call EXCEPT !.at = "discovery"]} \subseteq Calls \cup {Idle}
      BY <2>1, CallUpdates, Zenon
    <3> QED BY <2>2, <3>1
  <2>4. call.h \in Ports \cup {None} /\ call.old \in Ports \cup {0} /\ call.new \in Ports \cup {0}
    BY <2>1, CallFields
  <2> QED BY <1>8, <2>3 DEF UpdateServer
<1>9. CASE UpdateDiscovery
  <2>1. call \in Calls BY <1>9, NotIdle DEF UpdateDiscovery
  <2>2. call' \in {Idle, [call EXCEPT !.at = "load"]} BY <1>9 DEF UpdateDiscovery, At
  <2>3. call' \in Calls \cup {Idle}
    <3>1. {Idle, [call EXCEPT !.at = "load"]} \subseteq Calls \cup {Idle} BY <2>1, CallUpdates, Zenon
    <3> QED BY <2>2, <3>1
  <2>4. call.h \in Ports \cup {None} /\ call.old \in Ports \cup {0} /\ call.new \in Ports \cup {0}
    BY <2>1, CallFields
  <2> QED BY <1>9, <2>3, <2>4 DEF UpdateDiscovery
<1>10. CASE Load
  <2>1. call \in Calls BY <1>10, NotIdle DEF Load
  <2>2. call' = [call EXCEPT !.at = "bind"] BY <1>10 DEF Load, At
  <2>3. call' \in Calls BY <2>1, <2>2, CallUpdates, Zenon
  <2>4. call.h \in Ports \cup {None} BY <2>1, CallFields
  <2> QED BY <1>10, <2>3, <2>4 DEF Load, At, ensure_root
<1>11. CASE LoadFails
  <2>1. call \in Calls BY <1>11, NotIdle DEF LoadFails
  <2>2. call' \in {Idle, [call EXCEPT !.at = "server", !.rollback = "begun"]}
    BY <1>11 DEF LoadFails, StartFails
  <2>3. call' \in Calls \cup {Idle}
    <3>1. {Idle, [call EXCEPT !.at = "server", !.rollback = "begun"]} \subseteq Calls \cup {Idle}
      BY <2>1, CallUpdates, Zenon
    <3> QED BY <2>2, <3>1
  <2>4. call.h \in Ports \cup {None} /\ call.old \in Ports \cup {0} /\ call.new \in Ports \cup {0}
    BY <2>1, CallFields
  <2>5. config' \in {config, [config EXCEPT !.port = call.old]} BY <1>11 DEF LoadFails, StartFails
  <2>6. config' \in Config BY <2>4, <2>5
  <2>7. stale' \in {stale, root' # None} BY <1>11 DEF LoadFails, StartFails
  <2>8. stale' \in BOOLEAN BY <2>7, Zenon
  <2>9. root' \in Dirs \cup {None} BY <1>11 DEF LoadFails, ensure_root
  <2> QED BY <1>11, <2>3, <2>6, <2>8, <2>9 DEF LoadFails, StartFails
<1>12. ASSUME NEW p \in Ports, Bind(p) PROVE TypeOK'
  <2>1. call \in Calls BY <1>12, NotIdle DEF Bind
  <2>2. call' = [call EXCEPT !.at = "server", !.h = p] BY <1>12 DEF Bind
  <2>3. call' \in Calls BY <2>1, <2>2, CallUpdates, Zenon
  <2>4. call.h \in Ports \cup {None} BY <2>1, CallFields
  <2> QED BY <1>12, <2>3, <2>4 DEF Bind, Bound
<1>13. CASE BindFails
  <2>1. call \in Calls BY <1>13, NotIdle DEF BindFails
  <2>2. call' \in {Idle, [call EXCEPT !.at = "server", !.rollback = "begun"]}
    BY <1>13 DEF BindFails, StartFails
  <2>3. call' \in Calls \cup {Idle}
    <3>1. {Idle, [call EXCEPT !.at = "server", !.rollback = "begun"]} \subseteq Calls \cup {Idle}
      BY <2>1, CallUpdates, Zenon
    <3> QED BY <2>2, <3>1
  <2>4. call.h \in Ports \cup {None} /\ call.old \in Ports \cup {0} /\ call.new \in Ports \cup {0}
    BY <2>1, CallFields
  <2>5. config' \in {config, [config EXCEPT !.port = call.old]} BY <1>13 DEF BindFails, StartFails
  <2>6. config' \in Config BY <2>4, <2>5
  <2>7. stale' \in {stale, root' # None} BY <1>13 DEF BindFails, StartFails
  <2>8. stale' \in BOOLEAN BY <2>7, Zenon
  <2>9. root' \in Dirs \cup {None} BY <1>13 DEF BindFails
  <2> QED BY <1>13, <2>3, <2>6, <2>8, <2>9 DEF BindFails, StartFails
<1>14. CASE CallDropped BY <1>14 DEF CallDropped, Shutdown
<1>15. CASE EngineDropped BY <1>15 DEF EngineDropped, Shutdown
<1>16. CASE StateDropped BY <1>16 DEF StateDropped
<1>17. CASE FirstRegistration BY <1>17 DEF FirstRegistration, ensure_root
<1>18. ASSUME NEW p \in Ports, ListenerEnds(p) PROVE TypeOK'
  BY <1>18 DEF ListenerEnds
<1>19. ASSUME NEW p \in Ports, OtherProgram(p) PROVE TypeOK'
  BY <1>19 DEF OtherProgram
<1>20. ASSUME NEW d \in Dirs, OtherReceiver(d) PROVE TypeOK'
  BY <1>20 DEF OtherReceiver
<1>21. CASE UNCHANGED vars BY <1>21
<1> HIDE DEF TypeOK, vars, env, Config, Ready, Waits
<1> QED

    BY <1>1, <1>2, <1>3, <1>4, <1>5, <1>6, <1>7, <1>8, <1>9, <1>10, <1>11, <1>12, <1>13, <1>14, <1>15, <1>16, <1>17, <1>18, <1>19, <1>20, <1>21 DEF Next, CallStep

\* The copies of the port are set before the handle, and only without one.
LEMMA PortsStep == TypeOK /\ PortsAgree /\ Starting /\ [Next]_vars => (PortsAgree /\ Starting)'
<1> SUFFICES ASSUME TypeOK, PortsAgree, Starting, [Next]_vars PROVE (PortsAgree /\ Starting)' OBVIOUS
<1> USE EngineAssumption, NotIdle, IdleCall DEF TypeOK, PortsAgree, Starting, vars, env, Config, Ready, Waits, Calls, Call, Idle
<1>1. CASE start_server BY <1>1 DEF start_server
<1>2. CASE stop_server BY <1>2 DEF stop_server, Shutdown
<1>3. CASE trusted_host BY <1>3 DEF trusted_host
<1>4. ASSUME NEW new \in Ports, NEW rollback \in {"no", "yes"},
            change_port_with_options(new, rollback)
      PROVE  (PortsAgree /\ Starting)'
  BY <1>4 DEF change_port_with_options, Shutdown
<1>5. ASSUME NEW new \in Config, update_config(new) PROVE (PortsAgree /\ Starting)'
  BY <1>5 DEF update_config
<1>6. CASE Stopped BY <1>6 DEF Stopped
<1>7. CASE Closed BY <1>7 DEF Closed, At
<1>8. CASE UpdateServer BY <1>8 DEF UpdateServer, At
<1>9. CASE UpdateDiscovery BY <1>9 DEF UpdateDiscovery, At
<1>10. CASE Load BY <1>10 DEF Load, At, ensure_root
<1>11. CASE LoadFails
  <2>1. call \in Calls /\ call.at = "load" BY <1>11 DEF LoadFails
  <2>2. handle = None /\ call.h = None /\ UNCHANGED <<alive, server, announced, handle, listener>>
    BY <1>11, <2>1 DEF LoadFails, StartFails
  <2>3. CASE call.rollback = "yes"
    <3>1. call' = [call EXCEPT !.at = "server", !.rollback = "begun"]
      BY <1>11, <2>3 DEF LoadFails, StartFails
    <3>2. /\ call'.at = "server" /\ call'.rollback = "begun"
          /\ call'.op = call.op /\ call'.new = call.new /\ call'.h = None
      BY <2>1, <2>2, <3>1
    <3> QED BY <2>1, <2>2, <2>3, <3>2
  <2>4. CASE call.rollback # "yes"
    <3>1. call' = Idle BY <1>11, <2>4 DEF LoadFails, StartFails
    <3> QED BY <2>2, <3>1
  <2> QED BY <2>3, <2>4
<1>12. ASSUME NEW p \in Ports, Bind(p) PROVE (PortsAgree /\ Starting)'
  <2>1. call \in Calls /\ call.at = "bind" BY <1>12 DEF Bind
  <2>2. call.op \in {"start", "port"} /\ handle = None BY <1>12 DEF Bind
  <2>3. call'.h = p /\ call'.at = "server" /\ call'.op = call.op BY <1>12, <2>1 DEF Bind
  <2>4. listener'[p] = "serving" /\ config'.port = p BY <1>12 DEF Bind
  <2> QED BY <1>12, <2>1, <2>2, <2>3, <2>4 DEF Bind
<1>13. CASE BindFails
  <2>1. call \in Calls /\ call.at = "bind" BY <1>13 DEF BindFails
  <2>2. handle = None /\ call.h = None /\ UNCHANGED <<alive, server, announced, handle, listener>>
    BY <1>13, <2>1 DEF BindFails, StartFails
  <2>3. CASE call.rollback = "yes"
    <3>1. call' = [call EXCEPT !.at = "server", !.rollback = "begun"]
      BY <1>13, <2>3 DEF BindFails, StartFails
    <3>2. /\ call'.at = "server" /\ call'.rollback = "begun"
          /\ call'.op = call.op /\ call'.new = call.new /\ call'.h = None
      BY <2>1, <2>2, <3>1
    <3> QED BY <2>1, <2>2, <2>3, <3>2
  <2>4. CASE call.rollback # "yes"
    <3>1. call' = Idle BY <1>13, <2>4 DEF BindFails, StartFails
    <3> QED BY <2>2, <3>1
  <2> QED BY <2>3, <2>4
<1>14. CASE CallDropped BY <1>14 DEF CallDropped, Shutdown
<1>15. CASE EngineDropped BY <1>15 DEF EngineDropped, Shutdown
<1>16. CASE StateDropped BY <1>16 DEF StateDropped
<1>17. CASE FirstRegistration BY <1>17 DEF FirstRegistration, ensure_root
<1>18. ASSUME NEW p \in Ports, ListenerEnds(p) PROVE (PortsAgree /\ Starting)'
  BY <1>18 DEF ListenerEnds
<1>19. ASSUME NEW p \in Ports, OtherProgram(p) PROVE (PortsAgree /\ Starting)'
  BY <1>19 DEF OtherProgram
<1>20. ASSUME NEW d \in Dirs, OtherReceiver(d) PROVE (PortsAgree /\ Starting)'
  BY <1>20 DEF OtherReceiver
<1>21. CASE UNCHANGED vars BY <1>21
<1> HIDE DEF TypeOK, PortsAgree, Starting, vars, env, Config, Ready, Waits, Calls, Call, Idle
<1> QED

    BY <1>1, <1>2, <1>3, <1>4, <1>5, <1>6, <1>7, <1>8, <1>9, <1>10, <1>11, <1>12, <1>13, <1>14, <1>15, <1>16, <1>17, <1>18, <1>19, <1>20, <1>21 DEF Next, CallStep

\* Whoever gives up a handle without a dropped call waits for its listener.
LEMMA OrphansStep == TypeOK /\ Starting /\ NoOrphans /\ [Next]_vars => NoOrphans'
<1> SUFFICES ASSUME TypeOK, Starting, NoOrphans, [Next]_vars PROVE NoOrphans' OBVIOUS
<1> USE EngineAssumption, NotIdle, IdleCall DEF TypeOK, Starting, NoOrphans, vars, env, Ready, Waits, Calls, Call, Idle
<1>1. CASE start_server BY <1>1 DEF start_server
<1>2. CASE stop_server BY <1>2 DEF stop_server, Shutdown
<1>3. CASE trusted_host BY <1>3 DEF trusted_host
<1>4. ASSUME NEW new \in Ports, NEW rollback \in {"no", "yes"},
            change_port_with_options(new, rollback)
      PROVE  NoOrphans'
  BY <1>4 DEF change_port_with_options, Shutdown
<1>5. ASSUME NEW new \in Config, update_config(new) PROVE NoOrphans'
  BY <1>5 DEF update_config
<1>6. CASE Stopped BY <1>6 DEF Stopped
<1>7. CASE Closed BY <1>7 DEF Closed, At
<1>8. CASE UpdateServer BY <1>8 DEF UpdateServer, At
<1>9. CASE UpdateDiscovery BY <1>9 DEF UpdateDiscovery, At
<1>10. CASE Load BY <1>10 DEF Load, At, ensure_root
<1>11. CASE LoadFails BY <1>11 DEF LoadFails, StartFails, ensure_root
<1>12. ASSUME NEW p \in Ports, Bind(p) PROVE NoOrphans'
  BY <1>12 DEF Bind, Bound
<1>13. CASE BindFails BY <1>13 DEF BindFails, StartFails
<1>14. CASE CallDropped BY <1>14 DEF CallDropped, Shutdown
<1>15. CASE EngineDropped BY <1>15 DEF EngineDropped, Shutdown
<1>16. CASE StateDropped BY <1>16 DEF StateDropped
<1>17. CASE FirstRegistration BY <1>17 DEF FirstRegistration, ensure_root
<1>18. ASSUME NEW p \in Ports, ListenerEnds(p) PROVE NoOrphans'
  BY <1>18 DEF ListenerEnds
<1>19. ASSUME NEW p \in Ports, OtherProgram(p) PROVE NoOrphans'
  BY <1>19 DEF OtherProgram
<1>20. ASSUME NEW d \in Dirs, OtherReceiver(d) PROVE NoOrphans'
  BY <1>20 DEF OtherReceiver
<1>21. CASE UNCHANGED vars BY <1>21
<1> HIDE DEF TypeOK, Starting, NoOrphans, vars, env, Ready, Waits, Calls, Call, Idle
<1> QED

    BY <1>1, <1>2, <1>3, <1>4, <1>5, <1>6, <1>7, <1>8, <1>9, <1>10, <1>11, <1>12, <1>13, <1>14, <1>15, <1>16, <1>17, <1>18, <1>19, <1>20, <1>21 DEF Next, CallStep

\* The store is opened for the configured directory and closed before that changes.
LEMMA StoreStep == TypeOK /\ Starting /\ NoOrphans /\ StoreClosed /\ StoreFollowsConfig /\ [Next]_vars => (StoreClosed /\ StoreFollowsConfig)'
<1> SUFFICES ASSUME TypeOK, Starting, NoOrphans, StoreClosed, StoreFollowsConfig, [Next]_vars PROVE (StoreClosed /\ StoreFollowsConfig)' OBVIOUS
<1> USE EngineAssumption, NotIdle, IdleCall DEF TypeOK, Starting, NoOrphans, StoreClosed, StoreFollowsConfig, vars, env, Config, Ready, Waits, Calls, Call, Idle
<1>1. CASE start_server BY <1>1 DEF start_server
<1>2. CASE stop_server BY <1>2 DEF stop_server, Shutdown
<1>3. CASE trusted_host BY <1>3 DEF trusted_host
<1>4. ASSUME NEW new \in Ports, NEW rollback \in {"no", "yes"},
            change_port_with_options(new, rollback)
      PROVE  (StoreClosed /\ StoreFollowsConfig)'
  BY <1>4 DEF change_port_with_options, Shutdown
<1>5. ASSUME NEW new \in Config, update_config(new) PROVE (StoreClosed /\ StoreFollowsConfig)'
  BY <1>5 DEF update_config
<1>6. CASE Stopped
  <2>1. call \in Calls /\ call.at = "stop" BY <1>6 DEF Stopped
  <2>2. call'.op = call.op /\ call'.new = call.new /\ call'.at = "close" BY <1>6, <2>1 DEF Stopped
  <2>3. call.op = "stop" \/ call.new # 0 BY <2>1
  <2>4. UNCHANGED <<alive, config, server, handle, root, stale, drops>> BY <1>6 DEF Stopped
  <2> QED BY <2>1, <2>2, <2>3, <2>4
<1>7. CASE Closed BY <1>7 DEF Closed, At
<1>8. CASE UpdateServer BY <1>8 DEF UpdateServer, At
<1>9. CASE UpdateDiscovery
  <2>1. call \in Calls /\ call.at = "discovery" BY <1>9 DEF UpdateDiscovery
  <2>2. UNCHANGED <<alive, config, server, root, stale, drops>> BY <1>9 DEF UpdateDiscovery
  <2>3. CASE call.h # None
    <3>1. handle' = call.h /\ call' = Idle BY <1>9, <2>3 DEF UpdateDiscovery
    <3> QED BY <2>1, <2>2, <2>3, <3>1
  <2>4. CASE call.h = None /\ call.new # 0
    <3>1. handle' = handle /\ call' = [call EXCEPT !.at = "load"] BY <1>9, <2>4 DEF UpdateDiscovery, At
    <3>2. call'.op = "port" /\ call'.new # 0 BY <2>1, <2>4, <3>1
    <3> QED BY <2>1, <2>2, <2>4, <3>1, <3>2
  <2>5. CASE call.h = None /\ call.new = 0
    <3>1. handle' = handle /\ call' = Idle BY <1>9, <2>5 DEF UpdateDiscovery
    <3>2. handle = None => call.op \in {"config", "hosts", "port"} BY <2>1, <2>5
    <3> QED BY <2>1, <2>2, <2>5, <3>1, <3>2
  <2> QED BY <2>3, <2>4, <2>5
<1>10. CASE Load
  <2>1. call \in Calls /\ call.at = "load" BY <1>10 DEF Load
  <2>2. handle = None /\ call.h = None /\ call.op \in {"start", "port"} BY <2>1
  <2>3. call'.at = "bind" /\ call'.op = call.op /\ call'.new = call.new /\ call'.h = None
    BY <1>10, <2>1, <2>2 DEF Load, At
  <2>4. UNCHANGED <<alive, config, server, handle, stale, drops>> BY <1>10 DEF Load
  <2>5. root' = root \/ root' = server.dir BY <1>10 DEF Load, ensure_root
  <2>6. call.op = "start" \/ call.new # 0 BY <2>1, <2>2
  <2> QED BY <2>1, <2>2, <2>3, <2>4, <2>5, <2>6
<1>11. CASE LoadFails
  <2>1. call \in Calls /\ call.at = "load" BY <1>11 DEF LoadFails
  <2>2. handle = None /\ call.h = None /\ call.op \in {"start", "port"} BY <2>1
  <2>3. UNCHANGED <<alive, server, handle, drops>> /\ config'.dir = config.dir
    BY <1>11 DEF LoadFails, StartFails
  <2>4. root' = root \/ root' = server.dir BY <1>11 DEF LoadFails, ensure_root
  <2>5. CASE call.rollback = "yes"
    <3>1. stale' = stale /\ call' = [call EXCEPT !.at = "server", !.rollback = "begun"]
      BY <1>11, <2>5 DEF LoadFails, StartFails
    <3>2. call'.op = "port" /\ call'.new # 0 BY <2>1, <2>5, <3>1
    <3> QED BY <2>1, <2>2, <2>3, <2>4, <3>1, <3>2
  <2>6. CASE call.rollback # "yes"
    <3>1. stale' = (root' # None) /\ call' = Idle BY <1>11, <2>6 DEF LoadFails, StartFails
    <3> QED BY <2>1, <2>2, <2>3, <2>4, <3>1
  <2> QED BY <2>5, <2>6
<1>12. ASSUME NEW p \in Ports, Bind(p) PROVE (StoreClosed /\ StoreFollowsConfig)'
  BY <1>12 DEF Bind, Bound
<1>13. CASE BindFails
  <2>1. call \in Calls /\ call.at = "bind" BY <1>13 DEF BindFails
  <2>2. handle = None /\ call.h = None /\ call.op \in {"start", "port"} BY <2>1
  <2>3. UNCHANGED <<alive, server, handle, drops>> /\ config'.dir = config.dir
    BY <1>13 DEF BindFails, StartFails
  <2>4. root' = root BY <1>13 DEF BindFails
  <2>5. CASE call.rollback = "yes"
    <3>1. stale' = stale /\ call' = [call EXCEPT !.at = "server", !.rollback = "begun"]
      BY <1>13, <2>5 DEF BindFails, StartFails
    <3>2. call'.op = "port" /\ call'.new # 0 BY <2>1, <2>5, <3>1
    <3> QED BY <2>1, <2>2, <2>3, <2>4, <3>1, <3>2
  <2>6. CASE call.rollback # "yes"
    <3>1. stale' = (root' # None) /\ call' = Idle BY <1>13, <2>6 DEF BindFails, StartFails
    <3> QED BY <2>1, <2>2, <2>3, <2>4, <3>1
  <2> QED BY <2>5, <2>6
<1>14. CASE CallDropped BY <1>14 DEF CallDropped, Shutdown
<1>15. CASE EngineDropped BY <1>15 DEF EngineDropped, Shutdown
<1>16. CASE StateDropped BY <1>16 DEF StateDropped
<1>17. CASE FirstRegistration BY <1>17 DEF FirstRegistration, ensure_root
<1>18. ASSUME NEW p \in Ports, ListenerEnds(p) PROVE (StoreClosed /\ StoreFollowsConfig)'
  BY <1>18 DEF ListenerEnds
<1>19. ASSUME NEW p \in Ports, OtherProgram(p) PROVE (StoreClosed /\ StoreFollowsConfig)'
  BY <1>19 DEF OtherProgram
<1>20. ASSUME NEW d \in Dirs, OtherReceiver(d) PROVE (StoreClosed /\ StoreFollowsConfig)'
  BY <1>20 DEF OtherReceiver
<1>21. CASE UNCHANGED vars BY <1>21
<1> HIDE DEF TypeOK, Starting, NoOrphans, StoreClosed, StoreFollowsConfig, vars, env, Config, Ready, Waits, Calls, Call, Idle
<1> QED

    BY <1>1, <1>2, <1>3, <1>4, <1>5, <1>6, <1>7, <1>8, <1>9, <1>10, <1>11, <1>12, <1>13, <1>14, <1>15, <1>16, <1>17, <1>18, <1>19, <1>20, <1>21 DEF Next, CallStep

\* A stopped engine satisfies the inductive invariant.
LEMMA InitInv == Init => Inv
<1> SUFFICES ASSUME Init PROVE Inv OBVIOUS
<1> USE EngineAssumption, IdleCall DEF Init, Config
<1>1. TypeOK
  <2>1. /\ alive \in BOOLEAN /\ stale \in BOOLEAN
        /\ call \in Calls \cup {Idle}
        /\ listener \in [Ports -> {"none", "serving", "closing"}]
    OBVIOUS
  <2>2. /\ config \in Config /\ server \in Config /\ announced \in Ports \cup {0}
        /\ handle \in Ports \cup {None} /\ root \in Dirs \cup {None}
    OBVIOUS
  <2>3. /\ prepared \subseteq Dirs /\ taken \subseteq Ports /\ owned \subseteq Dirs
        /\ drops \in 0 .. MaxDrops
    OBVIOUS
  <2> HIDE DEF Init, Config
  <2> QED BY <2>1, <2>2, <2>3 DEF TypeOK
<1>2. PortsAgree /\ Starting BY DEF PortsAgree, Starting
<1>3. NoOrphans /\ StoreClosed /\ StoreFollowsConfig BY DEF NoOrphans, StoreClosed, StoreFollowsConfig
<1> QED BY <1>1, <1>2, <1>3 DEF Inv

\* No step of a call, a listener or another process breaks the inductive invariant.
THEOREM Invariance == Spec => []Inv
<1>1. Inv /\ [Next]_vars => Inv' BY TypeStep, PortsStep, OrphansStep, StoreStep DEF Inv
<1> QED BY InitInv, <1>1, PTL DEF Spec

\* Types, for any ports and directories.
THEOREM TypeCorrect == Spec => []TypeOK
<1>1. Inv => TypeOK BY DEF Inv
<1> QED BY <1>1, Invariance, PTL

\* A running server listens on the port that config() shows and discovery announces,
\* after any sequence of calls, failed, rolled back or dropped half-way.
THEOREM PortsAlwaysAgree == Spec => []PortsAgree
<1>1. Inv => PortsAgree BY DEF Inv
<1> QED BY <1>1, Invariance, PTL

\* A start or a rollback never meets the engine's own listener, unless a call was dropped.
THEOREM NeverInOwnWay == Spec => []NotInOwnWay
<1>1. Inv => NotInOwnWay
  <2> SUFFICES ASSUME Inv, drops = 0, call.at = "bind", config.port # 0
               PROVE  listener[config.port] = "none"
    BY DEF NotInOwnWay
  <2>1. handle = None /\ call.h = None /\ config.port \in Ports
    BY DEF Inv, Starting, TypeOK, Config
  <2>2. alive BY DEF Inv, Starting
  <2> QED BY <2>1, <2>2, EngineAssumption DEF Inv, NoOrphans
<1> QED BY <1>1, Invariance, PTL

\* The open state directory is the configured one, unless a start failed after it was
\* opened or a call was dropped.
THEOREM StoreIsConfigured == Spec => []StoreFollowsConfig
<1>1. Inv => StoreFollowsConfig BY DEF Inv
<1> QED BY <1>1, Invariance, PTL
=============================================================================

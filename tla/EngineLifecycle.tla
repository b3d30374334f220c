--------------------------- MODULE EngineLifecycle ---------------------------
(***************************************************************************)
(* The engine's server (src/lib.rs, start_server of src/server.rs):        *)
(* starting and stopping it, changing its port with rollback and updating  *)
(* the configuration, of which the engine, the server's state and          *)
(* discovery each have a copy.                                             *)
(*                                                                         *)
(* One call at a time (&mut self) goes from await to await, and its future *)
(* may be dropped at each of them.  The listener is a task of its own: it  *)
(* ends some time after its shutdown channel was used or dropped.  Other   *)
(* programs take and leave ports, and other receivers the lock of a        *)
(* download directory.                                                     *)
(*                                                                         *)
(* Simplifications: discovery's socket, the client's copy of the           *)
(* configuration, TLS and events are left out, a listener does not fail by *)
(* itself, and of the durable store only its state directory is here.      *)
(***************************************************************************)
EXTENDS Integers, FiniteSets

CONSTANTS
  Ports,      \* ports above 0; port 0 asks for any free one
  Dirs,       \* download directories
  None,       \* no handle, no state directory
  MaxDrops    \* bound on dropped calls in one behaviour

ASSUME EngineAssumption ==
  /\ Ports \subseteq Nat \ {0}
  /\ None \notin Nat /\ None \notin Dirs
  /\ MaxDrops \in Nat

VARIABLES
  alive,      \* the engine has not been dropped
  config,     \* engine.config: port and download_dir
  server,     \* server_state.config
  announced,  \* the port in discovery_state.config
  handle,     \* server_handle: the port of the handle
  call,       \* the call under way
  listener,   \* state of the engine's listener task on each port
  root,       \* durable.root: the directory whose lock the store has
  stale,      \* the store was open when a start failed (history variable)
  prepared,   \* directories with a state directory in them
  taken,      \* ports of other programs
  owned,      \* directories of other receivers
  drops

env  == <<taken, owned>>
vars == <<alive, config, server, announced, handle, call, listener, root, stale, prepared,
          taken, owned, drops>>

Config == [port : Ports \cup {0}, dir : Dirs]

\* Where a call waits: for the listener's end, for durable.close, for the copies of
\* the configuration (lock of server_state, lock of discovery_state), for load,
\* or for its turn to bind.
Waits == {"stop", "close", "server", "discovery", "load", "bind"}

\* op:       the API function;
\* h:        the ServerHandle the call has in hand, stopping or starting;
\* old, new: ports of change_port of a running server (0 elsewhere);
\* rollback: of change_port: not wanted, wanted, or begun.
Call(op, at) == [op |-> op, at |-> at, h |-> None, old |-> 0, new |-> 0, rollback |-> "no"]
Idle == Call("none", "none")
Calls == [op : {"start", "stop", "port", "config", "hosts"}, at : Waits, h : Ports \cup {None},
          old : Ports \cup {0}, new : Ports \cup {0}, rollback : {"no", "yes", "begun"}]

TypeOK ==
  /\ alive \in BOOLEAN
  /\ config \in Config /\ server \in Config /\ announced \in Ports \cup {0}
  /\ handle \in Ports \cup {None}
  /\ call \in Calls \cup {Idle}
  /\ listener \in [Ports -> {"none", "serving", "closing"}]
  /\ root \in Dirs \cup {None} /\ stale \in BOOLEAN
  /\ prepared \subseteq Dirs /\ taken \subseteq Ports /\ owned \subseteq Dirs
  /\ drops \in 0 .. MaxDrops

Init ==
  /\ alive = TRUE
  /\ config \in Config /\ server = config /\ announced = config.port
  /\ handle = None /\ call = Idle
  /\ listener = [p \in Ports |-> "none"]
  /\ root = None /\ stale = FALSE
  /\ prepared \in SUBSET Dirs
  /\ taken = {} /\ owned = {}
  /\ drops = 0

-----------------------------------------------------------------------------
(***************************************************************************)
(* Calls                                                                   *)
(***************************************************************************)
Ready == alive /\ call = Idle

\* With a handle it is an error.
start_server ==
  /\ Ready /\ handle = None
  /\ call' = Call("start", "load")
  /\ UNCHANGED <<alive, config, server, announced, handle, listener, root, stale, prepared, env,
                 drops>>

\* The shutdown channel of the handle is used, or dropped.
Shutdown(h) ==
  listener' = [p \in Ports |-> IF p = h /\ listener[p] = "serving" THEN "closing" ELSE listener[p]]

\* The handle is taken and its listener told to end.  Without one nothing happens.
stop_server ==
  /\ Ready /\ handle # None
  /\ handle' = None
  /\ Shutdown(handle)
  /\ call' = [Call("stop", "stop") EXCEPT !.h = handle]
  /\ UNCHANGED <<alive, config, server, announced, root, stale, prepared, env, drops>>

\* The port is not 0 and not the configured one.
change_port_with_options(new, rollback) ==
  /\ Ready /\ new # config.port
  /\ IF handle # None
     THEN /\ handle' = None
          /\ Shutdown(handle)
          /\ call' = [op |-> "port", at |-> "stop", h |-> handle, old |-> config.port,
                      new |-> new, rollback |-> rollback]
          /\ UNCHANGED config
     ELSE /\ config' = [config EXCEPT !.port = new]
          /\ call' = Call("port", "server")
          /\ UNCHANGED <<handle, listener>>
  /\ UNCHANGED <<alive, server, announced, root, stale, prepared, env, drops>>

\* Mutant: the directory changes under a running server.
update_config_Dir(new) ==
  /\ Ready
  /\ config' = IF handle # None THEN [new EXCEPT !.port = config.port] ELSE new
  /\ call' = Call("config", "server")
  /\ UNCHANGED <<alive, server, announced, handle, listener, root, stale, prepared, env, drops>>

\* While the server runs, port and directory stay.
update_config(new) ==
  /\ Ready
  /\ config' = IF handle # None THEN config ELSE new
  /\ call' = Call("config", "server")
  /\ UNCHANGED <<alive, server, announced, handle, listener, root, stale, prepared, env, drops>>

\* add_trusted_host and remove_trusted_host.
trusted_host ==
  /\ Ready
  /\ call' = Call("hosts", "server")
  /\ UNCHANGED <<alive, config, server, announced, handle, listener, root, stale, prepared, env,
                 drops>>

-----------------------------------------------------------------------------
(***************************************************************************)
(* Steps of a call                                                         *)
(***************************************************************************)
At(p) == call' = [call EXCEPT !.at = p]

\* Mutant: shutdown instead of shutdown_and_wait.
Stopped_NoWait ==
  /\ call.at = "stop"
  /\ call' = [call EXCEPT !.at = "close", !.h = None]
  /\ UNCHANGED <<alive, config, server, announced, handle, listener, root, stale, prepared, env,
                 drops>>

\* The listener's task has ended, or is aborted after two seconds.
Stopped ==
  /\ call.at = "stop"
  /\ listener' = [listener EXCEPT ![call.h] = "none"]
  /\ call' = [call EXCEPT !.at = "close", !.h = None]
  /\ UNCHANGED <<alive, config, server, announced, handle, root, stale, prepared, env, drops>>

\* durable.close; change_port then sets the new port.
Closed ==
  /\ call.at = "close"
  /\ root' = None /\ stale' = FALSE
  /\ IF call.op = "port"
     THEN At("server") /\ config' = [config EXCEPT !.port = call.new]
     ELSE call' = Idle /\ UNCHANGED config
  /\ UNCHANGED <<alive, server, announced, handle, listener, prepared, env, drops>>

\* server_state.update_config; a rollback leaves discovery to start_server.
UpdateServer ==
  /\ call.at = "server"
  /\ server' = config
  /\ IF call.op = "hosts" THEN call' = Idle
     ELSE IF call.h = None /\ call.rollback = "begun" THEN At("load")
     ELSE At("discovery")
  /\ UNCHANGED <<alive, config, announced, handle, listener, root, stale, prepared, env, drops>>

\* Mutant: start_server leaves discovery alone.
UpdateDiscovery_NotStart ==
  /\ call.at = "discovery"
  /\ announced' = IF call.h # None THEN announced ELSE config.port
  /\ handle' = IF call.h # None THEN call.h ELSE handle
  /\ IF call.h = None /\ call.new # 0 THEN At("load") ELSE call' = Idle
  /\ UNCHANGED <<alive, config, server, listener, root, stale, prepared, env, drops>>

\* discovery_state.update_config: start_server has now its handle, change_port of a
\* running server starts it again.
UpdateDiscovery ==
  /\ call.at = "discovery"
  /\ announced' = config.port
  /\ handle' = IF call.h # None THEN call.h ELSE handle
  /\ IF call.h = None /\ call.new # 0 THEN At("load") ELSE call' = Idle
  /\ UNCHANGED <<alive, config, server, listener, root, stale, prepared, env, drops>>

\* The open state directory, or d and its lock.
ensure_root(d) == IF root # None THEN UNCHANGED root ELSE d \notin owned /\ root' = d

\* load opens a state directory that exists.
Load ==
  LET d == server.dir IN
  /\ call.at = "load"
  /\ IF d \in prepared THEN ensure_root(d) ELSE UNCHANGED root
  /\ At("bind")
  /\ UNCHANGED <<alive, config, server, announced, handle, listener, stale, prepared, env, drops>>

\* The start has failed: back to the old port, if that is wanted and not what failed.
StartFails ==
  /\ IF call.rollback = "yes"
     THEN /\ config' = [config EXCEPT !.port = call.old]
          /\ call' = [call EXCEPT !.at = "server", !.rollback = "begun"]
          /\ UNCHANGED stale
     ELSE /\ call' = Idle
          /\ stale' = (root' # None)
          /\ UNCHANGED config
  /\ UNCHANGED <<alive, server, announced, handle, listener, prepared, env, drops>>

\* No TLS identity, the lock is another receiver's, or a journal cannot be read.
LoadFails ==
  /\ call.at = "load"
  /\ \/ UNCHANGED root
     \/ server.dir \in prepared /\ ensure_root(server.dir)
  /\ StartFails

Bound(p) == /\ config.port \in {0, p}
            /\ p \notin taken /\ listener[p] = "none"

\* bind, spawn the listener and return the handle: nothing is awaited in between,
\* nor before the engine takes over the port.
Bind(p) ==
  /\ call.at = "bind"
  /\ Bound(p)
  /\ listener' = [listener EXCEPT ![p] = "serving"]
  /\ config' = [config EXCEPT !.port = p]
  /\ call' = [call EXCEPT !.at = "server", !.h = p]
  /\ UNCHANGED <<alive, server, announced, handle, root, stale, prepared, env, drops>>

\* The port is in use, or not permitted.
BindFails ==
  /\ call.at = "bind"
  /\ UNCHANGED root
  /\ StartFails

CallStep ==
  \/ Stopped \/ Closed \/ UpdateServer \/ UpdateDiscovery \/ Load \/ LoadFails
  \/ \E p \in Ports : Bind(p)
  \/ BindFails

-----------------------------------------------------------------------------
(***************************************************************************)
(* The rest of the process, and other processes                            *)
(***************************************************************************)
\* Mutant: a handle that is dropped leaves its listener alone.
CallDropped_Listening ==
  /\ call # Idle
  /\ drops < MaxDrops
  /\ drops' = drops + 1
  /\ call' = Idle
  /\ UNCHANGED <<alive, config, server, announced, handle, listener, root, stale, prepared, env>>

\* The caller drops the future of the call, and with it the handle it has.
CallDropped ==
  /\ call # Idle
  /\ drops < MaxDrops
  /\ drops' = drops + 1
  /\ Shutdown(call.h)
  /\ call' = Idle
  /\ UNCHANGED <<alive, config, server, announced, handle, root, stale, prepared, env>>

\* Drop of the engine.
EngineDropped ==
  /\ Ready
  /\ alive' = FALSE
  /\ handle' = None
  /\ Shutdown(handle)
  /\ UNCHANGED <<config, server, announced, call, root, stale, prepared, env, drops>>

ListenerEnds(p) ==
  /\ listener[p] = "closing"
  /\ listener' = [listener EXCEPT ![p] = "none"]
  /\ UNCHANGED <<alive, config, server, announced, handle, call, root, stale, prepared, env, drops>>

\* The last listener that shares the state of a dropped engine is gone.
StateDropped ==
  /\ ~alive /\ root # None
  /\ \A p \in Ports : listener[p] = "none"
  /\ root' = None /\ stale' = FALSE
  /\ UNCHANGED <<alive, config, server, announced, handle, call, listener, prepared, env, drops>>

\* The first v2 registration opens the state directory, and creates it.
FirstRegistration ==
  LET d == server.dir IN
  /\ \E p \in Ports : listener[p] # "none"
  /\ root = None /\ ensure_root(d)
  /\ prepared' = prepared \cup {d}
  /\ UNCHANGED <<alive, config, server, announced, handle, call, listener, stale, env, drops>>

\* Another program takes or leaves a port.
OtherProgram(p) ==
  /\ p \in taken \/ listener[p] = "none"
  /\ taken' = IF p \in taken THEN taken \ {p} ELSE taken \cup {p}
  /\ UNCHANGED <<alive, config, server, announced, handle, call, listener, root, stale, prepared,
                 owned, drops>>

\* Another receiver locks a directory or leaves it.
OtherReceiver(d) ==
  /\ d \in owned \/ root # d
  /\ owned' = IF d \in owned THEN owned \ {d} ELSE owned \cup {d}
  /\ prepared' = prepared \cup {d}
  /\ UNCHANGED <<alive, config, server, announced, handle, call, listener, root, stale, taken,
                 drops>>

Next ==
  \/ start_server \/ stop_server \/ trusted_host
  \/ \E new \in Ports, rollback \in {"no", "yes"} : change_port_with_options(new, rollback)
  \/ \E new \in Config : update_config(new)
  \/ CallStep
  \/ CallDropped \/ EngineDropped \/ StateDropped \/ FirstRegistration
  \/ \E p \in Ports : ListenerEnds(p) \/ OtherProgram(p)
  \/ \E d \in Dirs : OtherReceiver(d)

Spec == Init /\ [][Next]_vars

\* Graceful shutdown is bounded by a second, and a dropped state is freed at once.
\* Nothing is assumed of calls.
Fairness == /\ \A p \in Ports : WF_vars(ListenerEnds(p))
            /\ WF_vars(StateDropped)
FairSpec == Spec /\ Fairness

-----------------------------------------------------------------------------
(***************************************************************************)
(* Properties                                                              *)
(***************************************************************************)
\* The engine, its server and discovery each have a copy of the port.  A running
\* server listens on the port that config() shows and discovery announces, whatever
\* port changes failed, were rolled back or were dropped half-way before.
PortsAgree ==
  handle # None => /\ listener[handle] = "serving"
                   /\ config.port = handle /\ server.port = handle /\ announced = handle

\* "gracefully shuts down and restarts", "attempt to restore the previous port": a
\* start never finds its port in use by the engine's own previous listener - unless
\* a call was dropped before that listener had ended.
NotInOwnWay ==
  drops = 0 /\ call.at = "bind" /\ config.port # 0 => listener[config.port] = "none"

\* "Stop, update configuration and start to change download directory": the open
\* state directory is the configured one.  Excepted is a start that failed after
\* load had opened it: no handle, so that stop_server does not close it.
StoreFollowsConfig ==
  drops = 0 /\ ~stale /\ root # None => root = config.dir

\* A dropped engine leaves no listener behind and gives up the directory's lock, also
\* when a start was dropped between the bind and the handle's arrival in the engine.
DropReleases == ~alive ~> /\ root = None
                          /\ \A p \in Ports : listener[p] = "none"

=============================================================================

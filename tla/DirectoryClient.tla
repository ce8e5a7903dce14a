-------------------------- MODULE DirectoryClient ---------------------------
(***************************************************************************)
(* A node that registers its identities with a directory service           *)
(* (directory_client.c), together with what it depends on: the event loop  *)
(* that calls its alarm, the route to the service (set_reachable() and     *)
(* subscriber_is_reachable() in overlay_address.c), and the interface the  *)
(* route goes through.  The node has one interface.                        *)
(*                                                                         *)
(* Packets are handled and interfaces are found in callbacks of the loop,  *)
(* here while it goes over the descriptors.  Other alarms are scheduled by *)
(* their own callbacks.                                                    *)
(***************************************************************************)
EXTENDS FdQueue

CONSTANTS
    directory_alarm,  \* the alarm of directory_update()
    Soon,             \* "a moment" for a route to propagate, 200 ms
    Interval,         \* DIRECTORY_UPDATE_INTERVAL
    Configured        \* whether an address of the service is configured

ASSUME DirectoryAssumption ==
    /\ directory_alarm \in Alarm
    /\ Soon \in Nat \ {0} /\ Interval \in Nat \ {0}
    /\ Configured \in BOOLEAN

VARIABLES
    directory,  \* directory_service: its "reachable", and whether it has a "node"
    up          \* the interface is INTERFACE_STATE_UP

directoryVars == <<fdVars, directory, up>>

NotLoaded == [reachable |-> "not loaded", node |-> FALSE]

DirectoryInit ==
    /\ FdInit
    /\ directory = NotLoaded
    /\ up = FALSE

-----------------------------------------------------------------------------
(* What the handlers have in common; p is the lists of alarms               *)

\* directory_registration()
Registered(p) ==
    Scheduled(Unscheduled(p, directory_alarm), directory_alarm, now + Soon, now + Soon)

\* Mutant: only a route that was not there at all counts as discovered.
DiscoveredFromNone(old, new) == old = "NONE" /\ new \notin {"NONE", "BROADCAST"}

\* "called when we discover a route to the directory service SID"
Discovered(old, new) == old \in {"NONE", "BROADCAST"} /\ new \notin {"NONE", "BROADCAST"}

\* set_reachable() of the service
SetReachable(new) ==
    /\ directory' = [directory EXCEPT !.reachable = new]
    /\ q' = IF Discovered(directory.reachable, new) THEN Registered(q) ELSE q

\* subscriber_is_reachable(directory_service) # REACHABLE_NONE: "make sure the
\* interface is still up", that of the next hop too.
IsReachable(reachable) ==
    \/ reachable = "BROADCAST"
    \/ reachable \in {"DIRECT", "INDIRECT", "UNICAST"} /\ up

\* The first time, load_directory_config() makes the subscriber.
Loaded == IF directory = NotLoaded THEN [reachable |-> "NONE", node |-> FALSE] ELSE directory

\* load_subscriber_address() finds an address and an interface that is up, and
\* reachable_unicast() does not refuse them.
AddressApplies ==
    Configured /\ up /\ Loaded.reachable \in {"NONE", "UNICAST"} /\ ~Loaded.node

\* directory_update()
DirectoryUpdate ==
    LET new == IF AddressApplies THEN "UNICAST" ELSE Loaded.reachable
        p   == IF Discovered(Loaded.reachable, new) THEN Registered(q) ELSE q
    IN /\ directory' = [Loaded EXCEPT !.reachable = new]
       /\ q' = IF IsReachable(new)
               THEN Scheduled(p, directory_alarm, now + Interval, now + Interval)
               ELSE p
       /\ now + Interval <= MaxTime

-----------------------------------------------------------------------------
(* Actions                                                                  *)

\* directory_service_init(), among what runs before the loop
DirectoryServiceInit ==
    /\ polling = "setup" /\ directory = NotLoaded
    /\ DirectoryUpdate
    /\ UNCHANGED <<w, now, polling, ready, i, called, up>>

\* The loop has called the alarm.
DirectoryCallback ==
    /\ polling = "alarm" /\ called = directory_alarm
    /\ DirectoryUpdate
    /\ polling' = "scan" /\ i' = 0
    /\ UNCHANGED <<w, now, ready, called, up>>

\* What happens in the callbacks of descriptors
Outside == polling = "scan" /\ now + Soon <= MaxTime

InterfaceUp ==
    /\ Outside /\ ~up
    /\ up' = TRUE
    /\ q' = Registered(q)
    /\ UNCHANGED <<w, now, polling, ready, i, called, directory>>

InterfaceDown ==
    /\ Outside /\ up
    /\ up' = FALSE
    /\ UNCHANGED <<fdVars, directory>>

\* overlay_get_node(): "if we're taking over routing calculations, make sure we
\* invalidate any other calculations first"
GetNode ==
    /\ Outside /\ ~directory.node
    /\ directory' = [reachable |-> "NONE", node |-> TRUE]
    /\ UNCHANGED <<fdVars, up>>

\* overlay_route_recalc_node_metrics() finds a neighbour, another way, or none;
\* overlay_route_ack_selfannounce(): "Try to use broadcast if we don't have a
\* route yet".
RouteChanges(new) ==
    /\ Outside /\ directory.node /\ new # directory.reachable
    /\ \/ new = "DIRECT" /\ up
       \/ new = "INDIRECT"
       \/ new = "NONE" /\ directory.reachable # "BROADCAST"
       \/ new = "BROADCAST" /\ directory.reachable = "NONE"
    /\ SetReachable(new)
    /\ UNCHANGED <<w, now, polling, ready, i, called, up>>

\* A packet of the service arrives that was sent to this node alone:
\* reachable_unicast().
HeardUnicast ==
    /\ Outside /\ up /\ ~directory.node /\ directory.reachable = "NONE"
    /\ SetReachable("UNICAST")
    /\ UNCHANGED <<w, now, polling, ready, i, called, up>>

\* Other alarms are scheduled before the loop begins, and by their callbacks.
OtherAlarm(t, at) ==
    /\ polling = "setup" \/ called = t
    /\ Schedule(t, at, at)
    /\ UNCHANGED <<directory, up>>

\* The loop goes on; what has no handler of its own here returns.
LoopGoesOn ==
    /\ \/ StartPoll \/ CallAlarm \/ CallNoAlarm \/ EndPoll \/ TimePasses
       \/ Return /\ (polling = "setup" => directory # NotLoaded) /\ called # directory_alarm
    /\ UNCHANGED <<directory, up>>

-----------------------------------------------------------------------------
DirectoryNext ==
    \/ DirectoryServiceInit \/ DirectoryCallback
    \/ InterfaceUp \/ InterfaceDown \/ GetNode \/ HeardUnicast
    \/ \E new \in {"NONE", "BROADCAST", "DIRECT", "INDIRECT"} : RouteChanges(new)
    \/ \E t \in Alarm \ {directory_alarm}, at \in now..MaxTime : OtherAlarm(t, at)
    \/ LoopGoesOn

DirectorySpec == DirectoryInit /\ [][DirectoryNext]_directoryVars

-----------------------------------------------------------------------------
(* Properties                                                               *)

\* As long as there is a route to the service, it is going to be told of this
\* node again: however routes and the interface come and go around the alarm,
\* directory_update() is scheduled, or running.
KeepsRegistering ==
    /\ directory.reachable \in {"DIRECT", "INDIRECT", "UNICAST"} /\ up
    => Linked(directory_alarm) \/ (polling = "alarm" /\ called = directory_alarm)

InLists(t) == t \in Members(q.alarms) \cup Members(q.deadlines)

\* The alarms of others, "Periodically update route table" among them (overlay.c),
\* stay in the lists until they are called, whatever becomes of this one.
OthersStayScheduled ==
    [][\A t \in Alarm \ {directory_alarm} :
          InLists(t) => InLists(t)' \/ called' = t]_directoryVars
=============================================================================

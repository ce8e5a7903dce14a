------------------------------- MODULE MCLive -------------------------------
(***************************************************************************)
(* What daemons come to in the end, for TLC: alarms are called, requests   *)
(* for names are answered, routes converge, stores agree, and one server   *)
(* is left.  The parts have no state in common, so what holds of each      *)
(* holds of all together: a behaviour exercises one part.                  *)
(***************************************************************************)
EXTENDS FdQueue, DnaHelper, ServerLifecycle, MeshRoute, RhizomeDirect

CONSTANTS
    Parts,             \* the parts that are exercised
    t1, t2, d1         \* alarms

VARIABLE part

\* The helper: two requests that fit in the buffer and one that does not.
Three == {"r", "s", "long"}
TooLong == {"long"}

\* Routing: three nodes that all hear each other, or two that hear a third.
ThreeNodes == <<"n1", "n2", "n3">>
InLine == {<<"n1", "n2">>, <<"n2", "n3">>}
Triangle == InLine \cup {<<"n1", "n3">>}

\* Synchronisation: versions of every other bundle are of different sizes.
SizeBins == [b \in Bid |-> [v \in 1..MaxVersion |-> 1 + (((b + 1) * v) % Bins)]]

\* Servers that are started at the same time, and not stopped.
Starts == INSTANCE ServerLifecycle
            WITH Commands <- {"start"}, MaxCrashes <- 0, Torn <- FALSE, Pid <- 1..4

\* However starts, stops and crashes interleave, at most one server is left in
\* the end: one that "has been supplanted with another" finds it out from the
\* pid file (server_shutdown_check()).  When servers are only started, and no
\* crash intervenes, one is left: those that were started at the same time do
\* not all give way to each other.
OneServerInTheEnd ==
    <>[](IF part = "starts"
         THEN Cardinality(Starts!Serving) <= 1 /\ (given > 0 => Starts!Serving # {})
         ELSE Cardinality(Serving) <= 1)

\* Once links stop going down, every node in the end has a route to every other one
\* it is still connected with, and following the next hops leads there:
\* overlay_route_recalc_node_metrics() finds the way round a link that is gone.
RoutesConverge == <>[](part = "mesh" => Converged)

\* A node that is no longer connected becomes unreachable in the end, since "the
\* receiver will discount the score based on their measured reliability for packets
\* to arrive from us" (overlay_route_add_advertisements()).
GoneBecomesUnreachable == <>[](part = "mesh" => GoneKnown)

\* Every variable keeps its type, and every table and counter its bounds.
TypeOK ==
    /\ FdTypeOK /\ DnaTypeOK /\ MeshTypeOK /\ DirectTypeOK
    /\ IF part = "starts" THEN Starts!LifecycleTypeOK ELSE LifecycleTypeOK

allVars == <<part, fdVars, dnaVars, lifecycleVars, meshVars, directVars>>

\* What the stores have matters to their synchronisation alone.
Init ==
    /\ part \in Parts
    /\ FdInit /\ DnaInit /\ MeshInit /\ DirectInit
    /\ part = "direct" \/ \A e \in Side, b \in Bid : store[e][b] = 0
    /\ IF part = "starts" THEN Starts!LifecycleInit ELSE LifecycleInit

Next ==
    /\ part' = part
    /\ \/ /\ part = "loop" /\ FdNext
          /\ UNCHANGED <<dnaVars, lifecycleVars, meshVars, directVars>>
       \/ /\ part = "dna" /\ DnaNext
          /\ UNCHANGED <<fdVars, lifecycleVars, meshVars, directVars>>
       \/ /\ part = "life" /\ LifecycleNext
          /\ UNCHANGED <<fdVars, dnaVars, meshVars, directVars>>
       \/ /\ part = "starts" /\ Starts!LifecycleNext
          /\ UNCHANGED <<fdVars, dnaVars, meshVars, directVars>>
       \/ /\ part = "mesh" /\ MeshNext
          /\ UNCHANGED <<fdVars, dnaVars, lifecycleVars, directVars>>
       \/ /\ part = "direct" /\ DirectNext
          /\ UNCHANGED <<fdVars, dnaVars, lifecycleVars, meshVars>>

Spec == Init /\ [][Next]_allVars

\* Every call of fd_poll() returns, it is called for ever, and time passes.
LoopFairness ==
    /\ []<>(part = "loop" => polling = "top") /\ []<>(part = "loop" => polling = "due")
    /\ []<>(part = "loop" => now = MaxTime)

\* On the mesh, all that is due in a unit of time happens, and the next one begins.
MeshFairness ==
    []<>(part = "mesh" => due = {}) /\ []<>(part = "mesh" => due # {})

\* The command that synchronises is given again and again, and ends each time.
SyncFairness ==
    []<>(part = "direct" => sync.at = "idle") /\ []<>(part = "direct" => sync.at # "idle")

\* The loop calls the helper's callbacks for each descriptor that is ready and each
\* alarm that is due, requests keep arriving, and a helper that is sent SIGTERM
\* dies.  Every process gets to run; commands and crashes need not happen.
Fair(k) ==
    \/ /\ part = "dna"
       /\ \/ k = 1 /\ MonitorRequests
          \/ k = 2 /\ MonitorReplies
          \/ k = 3 /\ MonitorErrors
          \/ k = 4 /\ Harvester
          \/ k = 5 /\ RestartDelayer
          \/ k = 6 /\ ReplyTimeout
          \/ k = 7 /\ \E r \in Request \ Long : Enqueue(r)
          \/ k = 8 /\ h.term /\ HelperDies
       /\ UNCHANGED lifecycleVars
    \/ part = "life" /\ k \in Pid /\ Step(k) /\ UNCHANGED dnaVars
    \/ part = "starts" /\ k \in 1..4 /\ Starts!Step(k) /\ UNCHANGED dnaVars

\* The variables of one part change in a behaviour, so that the conditions of the
\* parts can share their numbers.
FairSpec ==
    /\ Spec
    /\ \A k \in 1..8 : WF_<<dnaVars, lifecycleVars>>(Fair(k))
    /\ LoopFairness /\ MeshFairness /\ SyncFairness
=============================================================================

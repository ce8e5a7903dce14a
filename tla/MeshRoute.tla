------------------------------ MODULE MeshRoute ------------------------------
(***************************************************************************)
(* Mesh routing (overlay_route.c, overlay_advertise.c): how nodes learn    *)
(* which others they reach directly, from the acknowledgements of their    *)
(* self-announcements, and which through a neighbour, from the scores      *)
(* that neighbours advertise.  Each node has one interface.                *)
(*                                                                         *)
(* Scores stand for the code's 0..255, and a unit of time for the time in  *)
(* which an observation ages by one class: a neighbour's score is          *)
(* FreshScore for one unit after an acknowledgement, OldScore for the      *)
(* next, and then 0; the score of an advertised route loses one point per  *)
(* unit.                                                                   *)
(***************************************************************************)
EXTENDS Integers, Sequences

CONSTANTS
    Order,        \* the nodes, in the order in which subscribers are enumerated
    Topology,     \* the links at the start: pairs of nodes
    FreshScore,   \* the score of a neighbour that was heard just now
    OldScore,     \* the score of one that was heard some time ago
    MaxLost       \* bound: how many links go down

Station == {Order[i] : i \in DOMAIN Order}

ASSUME MeshAssumption ==
    /\ \A i, j \in DOMAIN Order : Order[i] = Order[j] => i = j
    /\ Topology \subseteq Station \X Station
    /\ OldScore \in 2..FreshScore /\ FreshScore \in Nat /\ MaxLost \in Nat

NoHop == "nobody"

VARIABLES
    links,     \* the links, in both directions
    lost,      \* the number of links that went down
    known,     \* known[n]: the nodes that n has an entry for
    heardAge,  \* heardAge[n][m]: how long ago m acknowledged (2: too long)
    linkScore, \* linkScore[n][m]: the score of the neighbour, as last calculated
    seen,      \* seen[n][m]: the routes to m that others have advertised to n,
               \* in the slots of observations[]
    path,      \* path[n][m]: reachability, next hop and best_link_score
    due        \* what has to happen in this unit of time

meshVars == <<links, lost, known, heardAge, linkScore, seen, path, due>>

NoRoute == [reach |-> "none", hop |-> NoHop, best |-> 0]

\* What gets through on every link, and what every node does, in a unit of time.
Everything(ls) == {<<"packet", l>> : l \in ls} \cup {<<"tick", <<n, n>>>> : n \in Station}

MeshInit ==
    /\ links = {l \in Station \X Station : l \in Topology \/ <<l[2], l[1]>> \in Topology}
    /\ lost = 0
    /\ known = [n \in Station |-> {}]
    /\ heardAge = [n \in Station |-> [m \in Station |-> 2]]
    /\ linkScore = [n \in Station |-> [m \in Station |-> 0]]
    /\ seen = [n \in Station |-> [m \in Station |-> <<>>]]
    /\ path = [n \in Station |-> [m \in Station |-> NoRoute]]
    /\ due = Everything(links)

-----------------------------------------------------------------------------
(* Calculating                                                              *)

\* overlay_route_recalc_neighbour_metrics(): the score by the age of what was
\* observed.
NeighbourScore(age) == CASE age = 0 -> FreshScore [] age = 1 -> OldScore [] age = 2 -> 0

\* A route that was advertised counts while its sender is reached directly.
UsableSender(routes, v) == routes[v].reach = "direct"

Discounted(s) == IF s.age > s.score THEN 0 ELSE s.score - s.age

\* overlay_route_recalc_node_metrics(), with the node's routes so far: a direct
\* route if the neighbour has a score; otherwise the best advertised one, the
\* first of those that are as good; otherwise broadcast, if that is what it was.
Recalculated(routes, scores, advertised, m) ==
    LET slots == advertised[m]
        score == [i \in DOMAIN slots |->
                    IF UsableSender(routes, slots[i].via) THEN Discounted(slots[i]) ELSE 0]
        best == {i \in DOMAIN slots : /\ score[i] > 0
                                      /\ \A j \in DOMAIN slots : /\ score[j] <= score[i]
                                                                 /\ j < i => score[j] < score[i]}
    IN [routes EXCEPT ![m] =
          IF scores[m] > 0 THEN [reach |-> "direct", hop |-> m, best |-> scores[m]]
          ELSE IF best = {} THEN [NoRoute EXCEPT !.reach = IF routes[m].reach = "broadcast"
                                                           THEN "broadcast" ELSE "none"]
          ELSE LET i == CHOOSE i \in best : TRUE
               IN [reach |-> "indirect", hop |-> slots[i].via, best |-> score[i]]]

\* The same for several nodes, one after the other.
RECURSIVE AllRecalculated(_, _, _, _)
AllRecalculated(routes, scores, advertised, list) ==
    IF list = <<>> THEN routes
    ELSE AllRecalculated(Recalculated(routes, scores, advertised, Head(list)),
                         scores, advertised, Tail(list))

\* Mutant: the time of the observation is not set when the slot is overwritten.
RecordedBefore(slots, o) ==
    IF \E i \in DOMAIN slots : slots[i].via = o.via
    THEN [i \in DOMAIN slots |-> IF slots[i].via = o.via
                                 THEN [slots[i] EXCEPT !.score = o.score] ELSE slots[i]]
    ELSE Append(slots, o)

\* overlay_route_record_link() overwrites what the same sender has advertised
\* before, or takes the next slot.
Recorded(slots, o) ==
    IF \E i \in DOMAIN slots : slots[i].via = o.via
    THEN [i \in DOMAIN slots |-> IF slots[i].via = o.via THEN o ELSE slots[i]]
    ELSE Append(slots, o)

\* Something that is due happens.
Happens(what, n, m) ==
    /\ <<what, <<n, m>>>> \in due
    /\ due' = due \ {<<what, <<n, m>>>>}

-----------------------------------------------------------------------------
(* Frames                                                                   *)

\* What n's interface tick advertises that matters to m: the nodes n has an entry
\* for, with its best scores, unless they are zero.
Advertised(n, m) == {x \in known[n] \ {m} : path[n][x].best > 0}

\* overlay_route_saw_selfannounce() makes n a neighbour of m, and sets "broadcast"
\* until there is a route, for the acknowledgement.
Greeted(n, m) ==
    IF path[m][n].reach = "none" THEN [path[m] EXCEPT ![n].reach = "broadcast"] ELSE path[m]

\* The packet reaches m: it begins with the self-announcement, and the advertisements
\* follow; overlay_route_record_link() keeps them under n, and calculates their
\* routes anew.
Heard(n, m) ==
    LET told == Advertised(n, m)
        routes == [x \in Station |-> IF x \in told
                     THEN Recorded(seen[m][x], [via |-> n, score |-> path[n][x].best, age |-> 0])
                     ELSE seen[m][x]]
    IN [known |-> known[m] \cup {n} \cup told, seen |-> routes,
        path |-> AllRecalculated(Greeted(n, m), linkScore[m], routes,
                                 SelectSeq(Order, LAMBDA x : x \in told))]

\* The acknowledgement reaches n: overlay_route_node_can_hear_me().
Acknowledged(n, m) ==
    LET scores == [linkScore[n] EXCEPT ![m] = NeighbourScore(0)]
    IN IF scores = linkScore[n] THEN path[n] ELSE Recalculated(path[n], scores, seen[n], m)

\* A packet, and the acknowledgement, which is sent at once.
Packet(n, m) ==
    LET h == Heard(n, m)
    IN /\ <<n, m>> \in links /\ Happens("packet", n, m)
       /\ known' = [known EXCEPT ![m] = h.known, ![n] = @ \cup {m}]
       /\ seen' = [seen EXCEPT ![m] = h.seen]
       /\ heardAge' = [heardAge EXCEPT ![n][m] = 0]
       /\ linkScore' = [linkScore EXCEPT ![n][m] = NeighbourScore(0)]
       /\ path' = [path EXCEPT ![m] = h.path, ![n] = Acknowledged(n, m)]
       /\ UNCHANGED <<links, lost>>

\* overlay_route_tick(): every neighbour, then every node.
RouteTick(n) ==
    LET scores == [m \in Station |-> NeighbourScore(heardAge[n][m])]
        changed == SelectSeq(Order, LAMBDA m : m \in known[n] /\ scores[m] # linkScore[n][m])
        all == SelectSeq(Order, LAMBDA m : m \in known[n])
    IN /\ Happens("tick", n, n)
       /\ linkScore' = [linkScore EXCEPT ![n] = scores]
       /\ path' = [path EXCEPT ![n] =
                      AllRecalculated(@, scores, seen[n], changed \o all)]
       /\ UNCHANGED <<links, lost, known, heardAge, seen>>

\* A unit of time passes, in which what is due has happened.
Elapse ==
    /\ due = {}
    /\ heardAge' = [n \in Station |-> [m \in Station |-> IF heardAge[n][m] = 2 THEN 2
                                                   ELSE heardAge[n][m] + 1]]
    /\ seen' = [n \in Station |-> [m \in Station |-> [i \in DOMAIN seen[n][m] |->
                  [seen[n][m][i] EXCEPT !.age = IF @ < seen[n][m][i].score THEN @ + 1 ELSE @]]]]
    /\ due' = Everything(links)
    /\ UNCHANGED <<links, lost, known, linkScore, path>>

\* A link goes down.
LinkDown(n, m) ==
    /\ <<n, m>> \in links /\ lost < MaxLost
    /\ links' = links \ {<<n, m>>, <<m, n>>}
    /\ lost' = lost + 1
    /\ due' = due \cap Everything(links')
    /\ UNCHANGED <<known, heardAge, linkScore, seen, path>>

MeshNext ==
    \/ \E n, m \in Station : Packet(n, m) \/ LinkDown(n, m)
    \/ \E n \in Station : RouteTick(n)
    \/ Elapse

MeshSpec == MeshInit /\ [][MeshNext]_meshVars

-----------------------------------------------------------------------------
(* What routes are for                                                      *)

MeshTypeOK ==
    \A n, m \in Station :
      /\ path[n][m].reach \in {"none", "broadcast", "direct", "indirect"}
      /\ path[n][m].best \in 0..FreshScore /\ linkScore[n][m] \in 0..FreshScore
      /\ heardAge[n][m] \in 0..2

\* A frame for m that starts at n, and is sent on to the next hop at most k times,
\* gets there.
RECURSIVE Delivers(_, _, _)
Delivers(n, m, k) ==
    \/ n = m
    \/ k > 0 /\ path[n][m].hop \in Station /\ Delivers(path[n][m].hop, m, k - 1)

\* Who is connected by links.
RECURSIVE Within(_, _)
Within(n, k) ==
    IF k = 0 THEN {n}
    ELSE {m \in Station : \E j \in Within(n, k - 1) : m = j \/ <<j, m>> \in links}

Reached(n) == Within(n, Len(Order) - 1)

\* Following the next hops leads to every node that is connected.
Converged == \A n, m \in Station : m \in Reached(n) => Delivers(n, m, Len(Order))

\* Nodes that are not connected are known to be unreachable.
GoneKnown ==
    \A n, m \in Station : m \notin Reached(n) => path[n][m].reach \notin {"direct", "indirect"}
=============================================================================

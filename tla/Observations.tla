---------------------------- MODULE Observations ----------------------------
(***************************************************************************)
(* How a node keeps what a neighbour has heard of it                       *)
(* (overlay_route_node_can_hear_me() in overlay_route.c).  The node        *)
(* announces itself on each interface once in a while, with the range of   *)
(* time since it did so last; the neighbour acknowledges what it hears;    *)
(* and the acknowledged ranges of an interface that follow on each other   *)
(* are merged in a ring of observations that all interfaces share.         *)
(* Acknowledgements are lost, late, and out of order.                      *)
(***************************************************************************)
EXTENDS Integers

CONSTANTS
    Link,       \* the interfaces
    Period,     \* tick_ms of each
    Slots,      \* OVERLAY_MAX_OBSERVATIONS
    Delay,      \* bound: how long an acknowledgement takes
    Modulus,    \* sequence numbers are times modulo 2^32
    MaxSeconds  \* bound: the clock stops here

ASSUME ObservationsAssumption ==
    /\ Period \in [Link -> Nat \ {0}] /\ Slots \in Nat \ {0} /\ Delay \in Nat
    /\ Modulus \in Nat \ {0} /\ MaxSeconds \in Nat

VARIABLES
    neh,    \* observations, and most_recent_observation_id
    acks,    \* acknowledgements on their way, and when they were sent
    ticked,  \* last_tick_ms of the interfaces, -1 before the first
    ms       \* the clock

observationsVars == <<neh, acks, ticked, ms>>

Index == 0..Slots - 1
Invalid == [s1 |-> 0, s2 |-> 0, link |-> "none", valid |-> FALSE]

ObservationsInit ==
    /\ neh = [obs |-> [n \in Index |-> Invalid], recent |-> 0]
    /\ acks = {}
    /\ ticked = [l \in Link |-> -1]
    /\ ms = 1

\* overlay_add_selfannouncement(), when a tick is due; the neighbour hears it, or not.
Announce(l) ==
    /\ ticked[l] = -1 \/ ms >= ticked[l] + Period[l]
    /\ ticked' = [ticked EXCEPT ![l] = ms]
    /\ LET last == IF ticked[l] = -1 THEN ms - 1 ELSE ticked[l]
           ack  == [s1 |-> last % Modulus, s2 |-> ms % Modulus, link |-> l, sent |-> ms]
       IN acks' \in {acks, acks \cup {ack}}
    /\ UNCHANGED <<neh, ms>>

\* Mutant: the search steps over an old observation too.
StepsOverOld(o, a) == o.valid /\ o.link # a.link

\* The search for a contiguous observation steps back from one that is of another
\* interface and not too old.
StepsOver(o, a) == o.valid /\ o.s2 >= (a.s1 - 1) % Modulus /\ o.link # a.link

\* The slot that the search ends at, k steps back from the most recent one.
EndsAt(a, k) ==
    LET back(j) == neh.obs[(neh.recent - j) % Slots] IN
    ~StepsOver(back(k), a) /\ \A j \in 0..k - 1 : StepsOver(back(j), a)

Merges(o, a) == o.valid /\ o.s2 >= (a.s1 - 1) % Modulus /\ o.link = a.link

\* overlay_route_node_can_hear_me()
NodeCanHearMe(a) ==
    /\ a \in acks
    /\ \E k \in Index :
         /\ EndsAt(a, k)
         /\ LET at  == (neh.recent - k) % Slots
                new == (neh.recent + 1) % Slots
                obs(s1) == [s1 |-> s1, s2 |-> a.s2, link |-> a.link, valid |-> TRUE]
            IN neh' = IF Merges(neh.obs[at], a)
                       THEN [obs |-> [neh.obs EXCEPT ![at] = obs(neh.obs[at].s1)], recent |-> at]
                       ELSE [obs |-> [neh.obs EXCEPT ![new] = obs(a.s1)], recent |-> new]
    /\ acks' = acks \ {a}
    /\ UNCHANGED <<ticked, ms>>

\* Time passes once every tick that is due has happened; what is too late is lost.
Second ==
    /\ ms < MaxSeconds
    /\ \A l \in Link : ticked[l] # -1 => ms < ticked[l] + Period[l]
    /\ ms' = ms + 1
    /\ acks' = {a \in acks : a.sent + Delay > ms}
    /\ UNCHANGED <<neh, ticked>>

ObservationsNext ==
    \/ \E l \in Link : Announce(l)
    \/ \E a \in acks : NodeCanHearMe(a)
    \/ Second

ObservationsSpec == ObservationsInit /\ [][ObservationsNext]_observationsVars

-----------------------------------------------------------------------------
(* Properties                                                               *)

ObservationsTypeOK ==
    /\ neh.recent \in Index /\ ms \in 1..MaxSeconds
    /\ neh.obs \in [Index -> [s1 : 0..Modulus - 1, s2 : 0..Modulus - 1,
                               link : Link \cup {"none"}, valid : BOOLEAN]]
    /\ ticked \in [Link -> -1..MaxSeconds]

\* The search goes round a ring: whatever was heard and lost on each interface, it
\* meets an observation that it does not step over, and so it ends.
SearchEnds == \A a \in acks : \E k \in Index : EndsAt(a, k)
=============================================================================

---------------------------- MODULE OverlayQueue ----------------------------
(***************************************************************************)
(* The overlay's transmit queues (overlay_payload.c, overlay_interface.c): *)
(* frames wait in a queue per traffic class until a packet is built from   *)
(* them, either because the next_packet alarm rings or because an          *)
(* interface is ticked.  A packet leaves through one interface, addressed  *)
(* to everybody on it or to one peer, and carries every queued frame that  *)
(* can travel that way and still fits.                                     *)
(*                                                                         *)
(* Routes and interfaces change underneath the queues: those steps stand   *)
(* for the routing code and for overlay_interface_discover().  Frames are  *)
(* reduced to where they go, their size and what is left to send; the      *)
(* clock to the fact that a frame has outlived its queue's latencyTarget.  *)
(***************************************************************************)
EXTENDS Integers, FiniteSets, Sequences

CONSTANTS Interface,    \* indices into overlay_interfaces
          SendsBroadcasts, \* those with send_broadcasts set
          Ticked,       \* those with bits_per_second >= 1
          Stable,       \* those that stay up
          Peer,         \* subscribers other than this node
          Directory,    \* directory_service, or Nobody
          Nobody,       \* the null subscriber
          Routes,       \* the routes a peer can be given
          OQ_MAX,       \* the number of traffic classes
          MaxLength,    \* maxLength of each queue
          Capacity,     \* room for payloads in one packet
          Sizes,        \* payload sizes
          Copies,       \* values of send_copies
          MaxFrames     \* bound: frames queued in a behaviour

\* The traffic classes, in the order they are scanned.
Queue == 0..OQ_MAX - 1

Route == [reachable : {"NONE", "BROADCAST"}]
           \cup [reachable : {"DIRECT", "UNICAST"}, interface : Interface]
           \cup [reachable : {"INDIRECT"}, next_hop : Peer]

ASSUME QueueAssumption ==
  /\ Interface \subseteq Nat /\ IsFiniteSet(Interface) /\ 0 \notin Interface
  /\ SendsBroadcasts \subseteq Interface
  /\ Ticked \subseteq Interface /\ Stable \subseteq Interface
  /\ Nobody \notin Peer /\ Directory \in Peer \cup {Nobody}
  /\ Routes \subseteq Route
  /\ OQ_MAX \in Nat \ {0} /\ Copies \subseteq 1..5
  /\ Capacity \in Nat /\ Sizes \subseteq Nat
  /\ MaxLength \in Nat \ {0} /\ MaxFrames \in Nat

VARIABLES up,       \* interfaces in INTERFACE_STATE_UP
          route,    \* reachable and the union of next_hop and interface
          tx,       \* overlay_tx
          alarm,    \* next_packet is scheduled
          sent,     \* history: times a frame for all left on each interface
          frames,   \* frames queued so far
          last_tick \* parity of last_tick_ms, which moves at every tick

queueVars == <<up, route, tx, alarm, sent, frames, last_tick>>

Id == 1..MaxFrames

\* Interface 0 is the one of a next hop that has none: the directory service
\* as a default route, when it is not itself a direct neighbour.
Frame == [id : Id, destination : Peer \cup {Nobody}, size : Sizes,
          sendBroadcast : BOOLEAN, sent_via : SUBSET (Interface \cup {0}),
          copies : 1..5, late : BOOLEAN]

\* The queues hold frames within their limits.
QueueTypeOK ==
  /\ up \in SUBSET Interface
  /\ route \in [Peer -> Route]
  /\ DOMAIN tx = Queue
  /\ \A q \in Queue : tx[q] \in Seq(Frame) /\ Len(tx[q]) <= MaxLength
  /\ alarm \in BOOLEAN
  /\ sent \in [Id -> [Interface -> Nat]]
  /\ frames \in 0..MaxFrames /\ last_tick \in BOOLEAN

-----------------------------------------------------------------------------
(* Routes *)

\* A subscriber's own route, provided the interface it needs is still up.
OwnRoute(p) ==
  LET r == route[p]
  IN CASE r.reachable \in {"DIRECT", "UNICAST"} ->
            IF r.interface \in up THEN r.reachable ELSE "NONE"
       [] r.reachable = "INDIRECT" ->
            LET hop == route[r.next_hop]
            IN IF /\ hop.reachable \in {"DIRECT", "UNICAST"}
                  /\ hop.interface \in up
               THEN "INDIRECT" ELSE "NONE"
       [] OTHER -> r.reachable

subscriber_is_reachable(p) ==
  IF /\ route[p].reachable = "NONE"
     /\ Directory \notin {Nobody, p}
     /\ OwnRoute(Directory) # "NONE"
  THEN "DEFAULT_ROUTE"
  ELSE OwnRoute(p)

Unreachable(f) ==
  f.destination # Nobody /\ subscriber_is_reachable(f.destination) = "NONE"

NextHop(f) ==
  CASE f.destination = Nobody -> Nobody
    [] subscriber_is_reachable(f.destination) = "INDIRECT" ->
         route[f.destination].next_hop
    [] subscriber_is_reachable(f.destination) = "DEFAULT_ROUTE" -> Directory
    [] OTHER -> f.destination

\* next_hop->interface: the union holds an interface only for direct peers.
HopInterface(p) ==
  IF route[p].reachable \in {"DIRECT", "UNICAST"} THEN route[p].interface ELSE 0

-----------------------------------------------------------------------------
(* Building a packet *)

\* The switch over the destination's reachability: a frame flooded to a new
\* peer starts over on every interface.
Addressed(f) ==
  IF f.destination = Nobody THEN f
  ELSE IF subscriber_is_reachable(f.destination) # "BROADCAST"
       THEN [f EXCEPT !.sendBroadcast = FALSE]
       ELSE IF f.sendBroadcast THEN f
            ELSE [f EXCEPT !.sendBroadcast = TRUE, !.sent_via = {}]

NoPacket == [interface |-> 0, open |-> FALSE, unicast |-> Nobody,
             free |-> Capacity]

overlay_init_packet(i) ==
  [interface |-> i, open |-> TRUE, unicast |-> Nobody, free |-> Capacity]

Lowest(S) == CHOOSE i \in S : \A j \in S : i <= j

\* The packet a frame opens when none is open yet.
OpenFor(f) ==
  IF f.sendBroadcast
  THEN IF up \ f.sent_via = {} THEN NoPacket
       ELSE overlay_init_packet(Lowest(up \ f.sent_via))
  ELSE LET hop == NextHop(f)
           pk  == overlay_init_packet(HopInterface(hop))
       IN IF route[hop].reachable = "UNICAST" THEN [pk EXCEPT !.unicast = hop]
          ELSE pk

\* Whether a frame may travel in a packet that is already open.
MayJoin(f, pk) ==
  IF f.sendBroadcast THEN pk.interface \notin f.sent_via
  ELSE LET hop == NextHop(f)
       IN /\ pk.interface = HopInterface(hop)
          /\ route[hop].reachable = "DIRECT" => pk.unicast = Nobody
          /\ route[hop].reachable = "UNICAST" => pk.unicast = hop

\* Marking a payload as sent on an interface.
MarkedSentMutant(f, i) ==
  IF f.sendBroadcast THEN f ELSE [f EXCEPT !.copies = @ - 1]

MarkedSent(f, i) ==
  IF f.sendBroadcast THEN [f EXCEPT !.sent_via = @ \cup {i}]
  ELSE [f EXCEPT !.copies = @ - 1]

KeepPayloadMutant(f) ==
  IF f.sendBroadcast THEN FALSE ELSE f.copies > 0

KeepPayload(f) ==
  IF f.sendBroadcast THEN ~ (up \subseteq f.sent_via) ELSE f.copies > 0

\* overlay_calc_queue_time: a frame left behind asks for another packet,
\* unless its destination is unreachable.
overlay_calc_queue_time(scheduled, f) ==
  scheduled \/ ~ Unreachable(f)

Skip(s, f) ==
  [s EXCEPT !.queue = Append(@, f),
            !.alarm = overlay_calc_queue_time(@, f)]

\* The payload goes into the packet and stays queued or is removed.
Append_(s, f) ==
  LET i == s.packet.interface
      g == MarkedSent(f, i)
      t == [s EXCEPT !.packet.free = @ - f.size,
                     !.sent[f.id][i] =
                       IF f.destination = Nobody THEN @ + 1 ELSE @]
  IN IF KeepPayload(g) THEN Skip(t, g) ELSE t

\* One turn of the loop of overlay_stuff_packet; a late frame is dropped.
ExpiredMutant(frame) == frame.late /\ ~ Unreachable(frame)

Expired(frame) == frame.late

StuffFrame(s, frame) ==
  IF Expired(frame) THEN s
  ELSE IF Unreachable(frame) THEN Skip(s, frame)
  ELSE LET f  == Addressed(frame)
           pk == IF s.packet.open THEN s.packet ELSE OpenFor(f)
           t  == [s EXCEPT !.packet = pk]
       IN CASE ~ pk.open -> s
            [] pk.open /\ s.packet.open /\ ~ MayJoin(f, pk) -> Skip(s, f)
            [] OTHER -> IF f.size > pk.free THEN Skip(t, f) ELSE Append_(t, f)

\* The frames of a queue, one after the other; queue is what is left of it.
overlay_stuff_packet(s, q) ==
  LET turn[k \in 0..Len(tx[q])] ==
        IF k = 0 THEN [s EXCEPT !.queue = <<>>] ELSE StuffFrame(turn[k - 1], tx[q][k])
      out == turn[Len(tx[q])]
  IN [out EXCEPT !.queues[q] = out.queue]

\* overlay_broadcast_ensemble: a send that fails closes the interface.
SendPacket(pk) ==
  \/ UNCHANGED up
  \/ pk.open /\ pk.interface \in up \ Stable /\ up' = up \ {pk.interface}

\* overlay_fill_send_packet: the alarm is recomputed from what is left.
overlay_fill_send_packet(pk) ==
  LET start == [packet |-> pk, queue |-> <<>>, queues |-> tx, alarm |-> FALSE,
                sent |-> sent]
      scan[n \in 0..OQ_MAX] ==
        IF n = 0 THEN start ELSE overlay_stuff_packet(scan[n - 1], n - 1)
  IN \E end \in {scan[OQ_MAX]} :
       /\ tx' = end.queues
       /\ alarm' = end.alarm
       /\ sent' = end.sent
       /\ SendPacket(end.packet)
       /\ UNCHANGED <<route, frames>>

-----------------------------------------------------------------------------
(* Steps *)

\* overlay_payload_enqueue; a refused frame is freed by the caller.
AdmittedMutant(q, d) ==
  /\ d # Nobody => subscriber_is_reachable(d) # "NONE"
  /\ Len(tx[q]) <= MaxLength
  /\ d = Nobody => up \cap SendsBroadcasts # {}

Admitted(q, d) ==
  /\ d # Nobody => subscriber_is_reachable(d) # "NONE"
  /\ Len(tx[q]) < MaxLength
  /\ d = Nobody => up \cap SendsBroadcasts # {}

overlay_payload_enqueue(q, d, size, copies) ==
  LET f == [id |-> frames + 1, destination |-> d, size |-> size,
            sendBroadcast |-> d = Nobody,
            sent_via |-> IF d = Nobody
                         THEN Interface \ (up \cap SendsBroadcasts) ELSE {},
            copies |-> copies, late |-> FALSE]
  IN /\ frames < MaxFrames
     /\ Admitted(q, d)
     /\ tx' = [tx EXCEPT ![q] = Append(@, f)]
     /\ alarm' = overlay_calc_queue_time(alarm, f)
     /\ frames' = frames + 1
     /\ UNCHANGED <<up, route, sent, last_tick>>

\* The next_packet alarm rings.
overlay_send_packet ==
  /\ alarm
  /\ overlay_fill_send_packet(NoPacket)
  /\ UNCHANGED last_tick

overlay_tick_interface(i) ==
  /\ i \in Ticked \cap up
  /\ overlay_fill_send_packet(overlay_init_packet(i))
  /\ last_tick' = ~ last_tick

\* overlay_interface_discover finds an interface, or finds it gone.
InterfaceUp(i) ==
  /\ i \notin up
  /\ up' = up \cup {i}
  /\ UNCHANGED <<route, tx, alarm, sent, frames, last_tick>>

overlay_interface_close(i) ==
  /\ i \in up \ Stable
  /\ up' = up \ {i}
  /\ UNCHANGED <<route, tx, alarm, sent, frames, last_tick>>

\* The routing code finds another way to a peer.
set_reachable(p, r) ==
  /\ route[p] # r
  /\ r.reachable \in {"DIRECT", "UNICAST"} => r.interface \in up
  /\ r.reachable = "INDIRECT" => r.next_hop # p
  /\ route' = [route EXCEPT ![p] = r]
  /\ UNCHANGED <<up, tx, alarm, sent, frames, last_tick>>

\* A frame has waited for longer than latencyTarget.
Age(q, k) ==
  /\ k \in DOMAIN tx[q]
  /\ ~ tx[q][k].late
  /\ tx' = [tx EXCEPT ![q][k].late = TRUE]
  /\ UNCHANGED <<up, route, alarm, sent, frames, last_tick>>

QueueInit ==
  /\ up = Interface
  /\ route = [p \in Peer |-> [reachable |-> "NONE"]]
  /\ tx = [q \in Queue |-> <<>>]
  /\ alarm = FALSE
  /\ sent = [n \in Id |-> [i \in Interface |-> 0]]
  /\ frames = 0
  /\ last_tick = FALSE

Ages == \E q \in Queue : \E k \in 1..MaxLength : Age(q, k)

Ticks == \E i \in Stable : overlay_tick_interface(i)

QueueNext ==
  \/ \E q \in Queue, d \in Peer \cup {Nobody}, size \in Sizes, c \in Copies :
       overlay_payload_enqueue(q, d, size, c)
  \/ overlay_send_packet
  \/ \E i \in Interface : \/ overlay_tick_interface(i)
                          \/ InterfaceUp(i)
                          \/ overlay_interface_close(i)
  \/ \E p \in Peer, r \in Routes : set_reachable(p, r)
  \/ Ages

QueueSpec == QueueInit /\ [][QueueNext]_queueVars

\* An interface that stays up is ticked again and again, and time passes.
QueueFairness == []<><<Ticks>>_queueVars /\ WF_queueVars(Ages)

-----------------------------------------------------------------------------
(* Properties *)

AllQueued == UNION {{tx[q][k] : k \in DOMAIN tx[q]} : q \in Queue}

\* "so that we can ensure that broadcast frames get sent exactly once on each
\* interface" (overlay_packet.h): a frame for everybody never leaves twice on
\* the same interface, however ticks, alarms and interface changes interleave.
BroadcastOnce ==
  \A f \in AllQueued : f.destination = Nobody =>
    \A i \in Interface : /\ sent[f.id][i] <= 1
                          /\ sent[f.id][i] = 1 => i \in f.sent_via

\* overlay_stuff_packet: "once we queue a broadcast packet we are committed to
\* sending it out every interface": a frame that is not late leaves its queue
\* only when every interface that is up is marked as dealt with.
CommittedToEveryInterface ==
  [][\A f \in AllQueued :
       /\ f.destination = Nobody
       /\ ~ f.late
       /\ \A g \in AllQueued' : g.id # f.id
       => \A i \in up : i \in f.sent_via \/ sent'[f.id][i] = 1]_queueVars

\* Whatever happens to routes and interfaces, a queued frame is eventually
\* sent or dropped, so the queue it blocks is freed.
QueueDrains ==
  \A n \in Id : (\E f \in AllQueued : f.id = n) ~> (\A f \in AllQueued : f.id # n)
=============================================================================

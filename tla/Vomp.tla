-------------------------------- MODULE Vomp --------------------------------
(***************************************************************************)
(* The VoMP call protocol (vomp.c): every node keeps an array of call      *)
(* records, exchanges call-status frames with its peers over an unreliable *)
(* datagram mesh, and is driven by telephony clients attached to the       *)
(* monitor socket.                                                         *)
(*                                                                         *)
(* Frames may be lost, delayed and reordered, and duplicated when          *)
(* Duplicates holds.  A frame carries both call states and both session    *)
(* numbers as the sender knows them.  Audio, sequence numbers and phone    *)
(* numbers do not influence any transition and are left out; calls from a  *)
(* node to itself, which are delivered synchronously, are too.             *)
(***************************************************************************)
EXTENDS Integers, Sequences, FiniteSets

CONSTANTS
    Node,          \* the nodes, by SID
    Codec,         \* audio codecs
    Supported,     \* Supported[n]: codecs the telephony client of n registers
    VOMP_MAX_CALLS,
    Duplicates,    \* whether the mesh may deliver a frame more than once
    FollowClock,   \* whether timeouts follow the clock; see Timers below
    Capacity,      \* bound: frames in flight to a node; what exceeds it is lost
    MaxSession,    \* bound: how many session numbers a behaviour may allocate
    Dials,         \* bound: Dials[n] is how many calls the client of n places
    Fickle         \* bound: the nodes whose clients come and go

ASSUME VompAssumption ==
    /\ Supported \in [Node -> SUBSET Codec]
    /\ VOMP_MAX_CALLS \in Nat
    /\ MaxSession \in Nat
    /\ Capacity \in Nat
    /\ Duplicates \in BOOLEAN
    /\ FollowClock \in BOOLEAN
    /\ Dials \in [Node -> Nat]
    /\ Fickle \subseteq Node

NOCALL     == 1
CALLPREP   == 2
RINGINGOUT == 3
RINGINGIN  == 4
INCALL     == 5
CALLENDED  == 6
CallState  == NOCALL..CALLENDED

VARIABLES
    calls,        \* calls[n]: vomp_call_states[0 .. vomp_call_count - 1] of n
    net,          \* frames in flight
    listening,    \* listening[n]: a telephony client is attached at n
    lastSession,  \* session numbers 1 .. lastSession have been allocated
    dialled,      \* history: <<n, s>> when vomp_dial created session s at n
    rung,         \* history: <<n, s, r>> when call s of n rang out to session r
    answered      \* history: <<n, s>> when the client of n picked up call s

vompVars == <<calls, net, listening, lastSession, dialled, rung, answered>>

(***************************************************************************)
(* One call record.  age abstracts gettime_ms() - create_time: 0 is within *)
(* DIAL_TIMEOUT, 1 beyond it, 2 beyond RING_TIMEOUT.  idle holds when      *)
(* last_activity is more than NETWORK_TIMEOUT ago.  last_sent is the pair  *)
(* of states last sent to the peer; <<0, 0>> stands for -1.                *)
(***************************************************************************)
Session == 0..MaxSession
Call == [peer : Node, lstate : CallState, rstate : CallState,
         lsession : Session, rsession : Session, initiated : BOOLEAN,
         last_sent : (0..CALLENDED) \X (0..CALLENDED),
         codecs : SUBSET Codec, age : 0..2, idle : BOOLEAN]

Frame == [src : Node, dst : Node, sstate : CallState, rstate : CallState,
          ssession : Session, rsession : Session, codecs : SUBSET Codec]

\* monitor_get_all_supported_codecs()
Codecs(n) == IF listening[n] THEN Supported[n] ELSE {}

\* prepare_vomp_header() and vomp_send_status_remote(): the frame that tells
\* the peer of c about both ends of the call.
StatusFrame(n, c) ==
    [src |-> n, dst |-> c.peer, sstate |-> c.lstate, rstate |-> c.rstate,
     ssession |-> c.lsession, rsession |-> c.rsession,
     codecs |-> IF c.lstate < RINGINGOUT /\ c.rstate < RINGINGOUT
                THEN Codecs(n) ELSE {}]

\* vomp_update_local_state() and vomp_update_remote_state(): a state never
\* goes backwards.
update_local_state(c, s)  == IF c.lstate >= s THEN c ELSE [c EXCEPT !.lstate = s]
update_remote_state(c, s) == IF c.rstate >= s THEN c ELSE [c EXCEPT !.rstate = s]

\* vomp_update(): the record afterwards, and the frames it sends.
updated(c)        == [c EXCEPT !.last_sent = <<c.rstate, c.lstate>>]
updateFrames(n, c) == IF c.last_sent = <<c.rstate, c.lstate>>
                      THEN {} ELSE {StatusFrame(n, c)}

\* overlay_mdp_dispatch(): frames join the ones in flight, or are lost when
\* the way to their destination is congested.
Sending(frames, new) ==
    IF \A m \in new : Cardinality({f \in frames : f.dst = m.dst}) < Capacity
    THEN frames \cup new ELSE frames

Replace(s, i, c) == [s EXCEPT ![i] = c]

\* vomp_call_destroy(): the last record moves into the hole.
Removed(s, i) == [j \in 1..(Len(s) - 1) |-> IF j = i THEN s[Len(s)] ELSE s[j]]

\* vomp_find_call_by_session(): the first record that has the session.
BySession(n, s, i) ==
    /\ i \in DOMAIN calls[n]
    /\ calls[n][i].lsession = s
    /\ \A j \in 1..(i - 1) : calls[n][j].lsession # s

\* vomp_create_call()
NewCall(peer, rsession, lsession) ==
    [peer |-> peer, lstate |-> NOCALL, rstate |-> NOCALL,
     lsession |-> lsession, rsession |-> rsession, initiated |-> FALSE,
     last_sent |-> <<0, 0>>, codecs |-> {}, age |-> 0, idle |-> FALSE]

VompInit ==
    /\ calls = [n \in Node |-> <<>>]
    /\ net = {}
    /\ listening = [n \in Node |-> TRUE]
    /\ lastSession = 0
    /\ dialled = {}
    /\ rung = {}
    /\ answered = {}

-----------------------------------------------------------------------------
(* Commands of the telephony client (monitor.c)                             *)

\* monitor_call() and vomp_dial().  vomp_generate_session_id() draws 24 random
\* bits until they are not zero and not in use; a number that was used before
\* is taken not to come up again.
vomp_dial(n, peer) ==
    /\ listening[n]
    /\ Cardinality({d \in dialled : d[1] = n}) < Dials[n]
    /\ peer # n
    /\ Len(calls[n]) < VOMP_MAX_CALLS
    /\ lastSession < MaxSession
    /\ LET s == lastSession + 1
           c == [update_local_state(NewCall(peer, 0, s), CALLPREP)
                   EXCEPT !.initiated = TRUE]
       IN  /\ lastSession' = s
           /\ calls' = [calls EXCEPT ![n] = Append(@, updated(c))]
           /\ net' = Sending(net, updateFrames(n, c))
           /\ dialled' = dialled \cup {<<n, s>>}
    /\ UNCHANGED <<listening, rung, answered>>

\* monitor_call_ring() and vomp_ringing()
vomp_ringing(n, s) ==
    /\ listening[n]
    /\ \E i \in 1..Len(calls[n]) :
         /\ BySession(n, s, i)
         /\ LET c == calls[n][i]
                d == update_local_state(c, RINGINGIN)
            IN  /\ ~c.initiated /\ c.lstate < RINGINGIN /\ c.rstate = RINGINGOUT
                /\ calls' = [calls EXCEPT ![n] = Replace(@, i, updated(d))]
                /\ net' = Sending(net, updateFrames(n, d))
    /\ UNCHANGED <<listening, lastSession, dialled, rung, answered>>

\* monitor_call_pickup() and vomp_pickup()
vomp_pickup(n, s) ==
    /\ listening[n]
    /\ \E i \in 1..Len(calls[n]) :
         /\ BySession(n, s, i)
         /\ LET c == calls[n][i]
                d == [update_local_state(c, INCALL) EXCEPT !.age = 0]
            IN  /\ c.lstate <= RINGINGIN /\ c.rstate = RINGINGOUT
                /\ calls' = [calls EXCEPT ![n] = Replace(@, i, updated(d))]
                /\ net' = Sending(net, updateFrames(n, d))
    /\ answered' = answered \cup {<<n, s>>}
    /\ UNCHANGED <<listening, lastSession, dialled, rung>>

\* monitor_call_hangup() and vomp_hangup()
vomp_hangup(n, s) ==
    /\ listening[n]
    /\ \E i \in 1..Len(calls[n]) :
         /\ BySession(n, s, i)
         /\ LET d == update_local_state(calls[n][i], CALLENDED)
            IN  /\ calls' = [calls EXCEPT ![n] = Replace(@, i, updated(d))]
                /\ net' = Sending(net, updateFrames(n, d))
    /\ UNCHANGED <<listening, lastSession, dialled, rung, answered>>

\* The telephony client's connection closes, or it connects again.  A monitor
\* slot that is used again still has the codecs registered in it (Monitor.tla),
\* so a node with a connection has codecs.
ClientToggles(n) ==
    /\ n \in Fickle
    /\ listening' = [listening EXCEPT ![n] = ~@]
    /\ UNCHANGED <<calls, net, lastSession, dialled, rung, answered>>

-----------------------------------------------------------------------------
(* A frame arrives                                                          *)

\* Mutant: the local session is not compared once the remote one matches.
MatchesRemoteOnly(c, m) ==
    LET remote == c.rsession # 0 /\ m.ssession # 0
        local  == c.lsession # 0 /\ m.rsession # 0
    IN  /\ remote \/ local
        /\ remote => m.ssession = c.rsession
        /\ ~remote => m.rsession = c.lsession
        /\ c.peer = m.src

\* The comparison vomp_find_or_create_call() makes for one record.
Matches(c, m) ==
    LET remote == c.rsession # 0 /\ m.ssession # 0
        local  == c.lsession # 0 /\ m.rsession # 0
    IN  /\ remote \/ local
        /\ remote => m.ssession = c.rsession
        /\ local  => m.rsession = c.lsession
        /\ c.peer = m.src

NoMatch(n, m) == \A i \in 1..Len(calls[n]) : ~Matches(calls[n][i], m)

FirstMatch(n, m, i) ==
    /\ Matches(calls[n][i], m)
    /\ \A j \in 1..(i - 1) : ~Matches(calls[n][j], m)

\* vomp_mdp_received() up to the switch: the codecs known after the frame, and
\* the local state the switch is entered with.
HeardCodecs(n, c, m) ==
    IF listening[n] /\ c.lstate < RINGINGOUT /\ m.sstate < RINGINGOUT
    THEN c.codecs \cup m.codecs ELSE c.codecs

EntryState(n, c, m) ==
    CASE ~listening[n] -> CALLENDED
      [] m.sstate = CALLENDED -> CALLENDED
      [] /\ listening[n] /\ m.sstate # CALLENDED
         /\ c.lstate < RINGINGOUT /\ m.sstate < RINGINGOUT
         /\ HeardCodecs(n, c, m) \cap Codecs(n) = {} -> CALLENDED
      [] OTHER -> c.lstate

\* Mutant: the case for a ringing far end falls through to the answered one.
TransitionFallsThrough(local, sender, initiated) ==
    CASE local = CALLENDED -> CALLENDED
      [] local = NOCALL /\ sender = CALLPREP -> NOCALL
      [] local \in {NOCALL, RINGINGIN} /\ sender = RINGINGOUT ->
           IF initiated THEN CALLENDED ELSE local
      [] local = CALLPREP /\ sender \in {NOCALL, CALLPREP} ->
           IF initiated THEN RINGINGOUT ELSE CALLENDED
      [] local = RINGINGOUT /\ sender \in {NOCALL, CALLPREP} -> RINGINGOUT
      [] local = RINGINGOUT /\ sender \in {RINGINGIN, RINGINGOUT, INCALL} -> INCALL
      [] local = INCALL /\ sender \in {RINGINGOUT, INCALL} -> INCALL
      [] OTHER -> 0

\* The switch: the local state to move to, or 0 when the combination is
\* considered invalid and the frame is ignored.
Transition(local, sender, initiated) ==
    CASE local = CALLENDED -> CALLENDED
      [] local = NOCALL /\ sender = CALLPREP -> NOCALL
      [] local \in {NOCALL, RINGINGIN} /\ sender = RINGINGOUT ->
           IF initiated THEN CALLENDED ELSE local
      [] local = CALLPREP /\ sender \in {NOCALL, CALLPREP} ->
           IF initiated THEN RINGINGOUT ELSE CALLENDED
      [] local = RINGINGOUT /\ sender \in {NOCALL, CALLPREP, RINGINGIN} -> RINGINGOUT
      [] local = RINGINGOUT /\ sender \in {RINGINGOUT, INCALL} -> INCALL
      [] local = INCALL /\ sender \in {RINGINGOUT, INCALL} -> INCALL
      [] OTHER -> 0

\* The record after the frame, before vomp_update().  create_time is reset
\* when the caller's end enters the call.
Processed(n, c, m) ==
    LET d     == [c EXCEPT !.codecs = HeardCodecs(n, c, m)]
        entry == EntryState(n, c, m)
        next  == Transition(entry, m.sstate, c.initiated)
        e     == update_local_state(update_remote_state(d, m.sstate), next)
    IN  IF next = 0 THEN d
        ELSE [e EXCEPT !.idle = FALSE,
                       !.age = IF entry = RINGINGOUT /\ next = INCALL THEN 0 ELSE @]

Ignored(n, c, m) == Transition(EntryState(n, c, m), m.sstate, c.initiated) = 0

\* What the rest of vomp_mdp_received() does to the frames and the histories.
Finish(n, c, m) ==
    LET d == Processed(n, c, m)
    IN  /\ net' = Sending(IF Duplicates THEN net ELSE net \ {m},
                          IF Ignored(n, c, m) THEN {} ELSE updateFrames(n, d))
        /\ rung' = IF d.lstate = RINGINGOUT
                   THEN rung \cup {<<n, d.lsession, d.rsession>>} ELSE rung

Stored(n, c, m) ==
    IF Ignored(n, c, m) THEN Processed(n, c, m) ELSE updated(Processed(n, c, m))

\* vomp_mdp_received() for a frame that belongs to a known call
ReceiveKnown(n, m) ==
    /\ m.dst = n
    /\ \E i \in 1..Len(calls[n]) :
         /\ FirstMatch(n, m, i)
         /\ LET c == [calls[n][i] EXCEPT !.rsession = IF @ = 0 THEN m.ssession ELSE @]
            IN  /\ calls' = [calls EXCEPT ![n] = Replace(@, i, Stored(n, c, m))]
                /\ Finish(n, c, m)
    /\ UNCHANGED <<listening, lastSession, dialled, answered>>

\* vomp_mdp_received() for a frame that creates a call: with a session number
\* of its own, or with the one the frame says the receiver has.
ReceiveNew(n, m) ==
    /\ m.dst = n
    /\ NoMatch(n, m)
    /\ m.sstate # CALLENDED /\ m.rstate # CALLENDED
    /\ m.sstate = CALLPREP \/ m.rstate = CALLPREP
    /\ m.rsession = 0 => lastSession < MaxSession
    /\ LET s == IF m.rsession = 0 THEN lastSession + 1 ELSE m.rsession
           c == NewCall(m.src, m.ssession, s)
       IN  /\ lastSession' = IF m.rsession = 0 THEN s ELSE lastSession
           /\ calls' = [calls EXCEPT ![n] = Append(@, Stored(n, c, m))]
           /\ Finish(n, c, m)
    /\ UNCHANGED <<listening, dialled, answered>>

\* vomp_mdp_received() for any other frame, and the loss of a frame
Drop(m) ==
    /\ net' = IF Duplicates THEN net ELSE net \ {m}
    /\ UNCHANGED <<calls, listening, lastSession, dialled, rung, answered>>

-----------------------------------------------------------------------------
(* Timers.  With FollowClock a tick ends exactly the calls whose age or     *)
(* idleness says so.  Without it a tick may find any call expired, or not:  *)
(* in every state the NETWORK_TIMEOUT can have run out, so the states that  *)
(* can be reached are the same, and the clock need not be carried along.    *)

\* Mutant: the network timeout is missing.
ExpiredNoNetwork(c) ==
    \/ c.rstate < RINGINGOUT /\ c.age >= 1
    \/ c.lstate < INCALL /\ c.age >= 2

Expired(c) ==
    \/ c.rstate < RINGINGOUT /\ c.age >= 1
    \/ c.lstate < INCALL /\ c.age >= 2
    \/ c.idle

\* vomp_process_tick() of a call that has timed out
TickExpired(n, i) ==
    /\ i \in 1..Len(calls[n])
    /\ FollowClock => Expired(calls[n][i])
    /\ LET c == update_remote_state(
                  update_local_state(calls[n][i], CALLENDED), CALLENDED)
       IN  net' = Sending(net, updateFrames(n, c))
    /\ calls' = [calls EXCEPT ![n] = Removed(@, i)]
    /\ UNCHANGED <<listening, lastSession, dialled, rung, answered>>

\* vomp_process_tick() of a call that both parties have ended
TickEnded(n, i) ==
    /\ i \in 1..Len(calls[n])
    /\ FollowClock => ~Expired(calls[n][i])
    /\ calls[n][i].lstate = CALLENDED /\ calls[n][i].rstate = CALLENDED
    /\ calls' = [calls EXCEPT ![n] = Removed(@, i)]
    /\ UNCHANGED <<net, listening, lastSession, dialled, rung, answered>>

\* vomp_process_tick() of a live call: tell the peer we are still here
TickAlive(n, i) ==
    /\ i \in 1..Len(calls[n])
    /\ LET c == calls[n][i]
       IN  /\ FollowClock => ~Expired(c)
           /\ ~(c.lstate = CALLENDED /\ c.rstate = CALLENDED)
           /\ calls' = [calls EXCEPT ![n] = Replace(@, i, updated(c))]
           /\ net' = Sending(net, {StatusFrame(n, c)})
    /\ UNCHANGED <<listening, lastSession, dialled, rung, answered>>

Tick(n, i) == TickExpired(n, i) \/ TickEnded(n, i) \/ TickAlive(n, i)

\* Time passes: since the record was created, or since the last frame.
AgeCall(n, i) ==
    /\ FollowClock
    /\ i \in 1..Len(calls[n])
    /\ calls[n][i].age < 2
    /\ calls' = [calls EXCEPT ![n] = Replace(@, i, [calls[n][i] EXCEPT !.age = @ + 1])]
    /\ UNCHANGED <<net, listening, lastSession, dialled, rung, answered>>

IdleCall(n, i) ==
    /\ FollowClock
    /\ i \in 1..Len(calls[n])
    /\ ~calls[n][i].idle
    /\ calls' = [calls EXCEPT ![n] = Replace(@, i, [calls[n][i] EXCEPT !.idle = TRUE])]
    /\ UNCHANGED <<net, listening, lastSession, dialled, rung, answered>>

-----------------------------------------------------------------------------
TelephonyClient(n) ==
    \/ \E peer \in Node : vomp_dial(n, peer)
    \/ \E s \in 1..MaxSession :
         vomp_ringing(n, s) \/ vomp_pickup(n, s) \/ vomp_hangup(n, s)
    \/ ClientToggles(n)

Network ==
    \E m \in net : ReceiveKnown(m.dst, m) \/ ReceiveNew(m.dst, m) \/ Drop(m)

Timer(n) == \E i \in 1..Len(calls[n]) : Tick(n, i) \/ AgeCall(n, i) \/ IdleCall(n, i)

VompNext == Network \/ \E n \in Node : TelephonyClient(n) \/ Timer(n)

VompSpec == VompInit /\ [][VompNext]_vompVars

\* The event loop runs every call's alarm again and again, and the clock goes
\* on.  Nothing is assumed of the mesh or of the clients.
VompFairness ==
    \A n \in Node, i \in 1..VOMP_MAX_CALLS :
        /\ WF_vompVars(Tick(n, i))
        /\ WF_vompVars(AgeCall(n, i))
        /\ WF_vompVars(IdleCall(n, i))

-----------------------------------------------------------------------------
(* Properties                                                               *)

VompTypeOK ==
    /\ calls \in [Node -> Seq(Call)]
    /\ net \subseteq Frame
    /\ listening \in [Node -> BOOLEAN]
    /\ lastSession \in Session
    /\ dialled \subseteq Node \X Session
    /\ rung \subseteq Node \X Session \X Session
    /\ answered \subseteq Node \X Session

Records(n) == {calls[n][i] : i \in 1..Len(calls[n])}

\* The caller's end is in a call only after the client of the called node
\* picked up the very session the caller is connected to: no delayed,
\* duplicated or reordered frame makes a phone answer itself (the INCALL cases
\* of the switch in vomp_mdp_received()).
CalledPartyAnswered ==
    \A n \in Node : \A c \in Records(n) :
        c.initiated /\ c.lstate = INCALL => <<c.peer, c.rsession>> \in answered

\* A client is told of an incoming call (CALLFROM, sent when the remote state
\* becomes RINGINGOUT), rings or answers, only if the far end was dialled by its
\* own client and rang out to exactly this session: the replay protection that
\* vomp_mdp_received() aims at by allocating a new session for each call.
OnlyGenuineCallsRing ==
    \A n \in Node : \A c \in Records(n) :
        ~c.initiated /\ (c.rstate = RINGINGOUT \/ c.lstate \in RINGINGOUT..INCALL)
            => /\ <<c.peer, c.rsession>> \in dialled
               /\ <<c.peer, c.rsession, c.lsession>> \in rung

InProgress(n, s) == \E c \in Records(n) : c.lsession = s

NotTalking(n, s) == \E c \in Records(n) : c.lsession = s /\ c.lstate # INCALL

Abandoned(n, s) ==
    \E c \in Records(n) : /\ c.lsession = s /\ c.lstate = INCALL
                          /\ ~InProgress(c.peer, c.rsession)

\* Calls end.  A record that is not in conversation does not last: dialling and
\* ringing time out, and a call one party hung up is released even if the far end
\* never hears of it.  And an end that still believes in a conversation after the
\* far end released its record does not keep it for ever (the three expiry
\* conditions of vomp_process_tick(), NETWORK_TIMEOUT the last of them).
CallsEnd ==
    \A n \in Node, s \in 1..MaxSession :
        /\ NotTalking(n, s) ~> ~NotTalking(n, s)
        /\ Abandoned(n, s) ~> ~Abandoned(n, s)
=============================================================================

----------------------------- MODULE NodeProofs -----------------------------
(***************************************************************************)
(* What is proved of the calls between nodes and of a node's identities.   *)
(*                                                                         *)
(* The calls (Vomp): their types, and the two safety properties of a call, *)
(* for any number of nodes, calls, sessions and frames.  The keyring file: *)
(* when commands run one at a time, no identity is lost, for any numbers   *)
(* of identities, slots and PINs and wherever a command is killed.         *)
(***************************************************************************)
EXTENDS Vomp, Keyring, TLAPS

\* What a leaf that names no prover tries, one after the other.
USE SMTT(60), Z3T(60), ZenonT(20), SMTT(90), Z3T(90)

-----------------------------------------------------------------------------
(* The calls                                                                *)

\* Session s of node n was allocated by a dialling client.
Dialled(n, s) == <<n, s>> \in dialled

\* What holds of a call record c of node n.  The two ends of a call are told
\* apart by Dialled: a record or a frame that knows both sessions always joins
\* a dialled one with one that was not.
CallInv(n, c) ==
    /\ c.peer # n
    /\ c.lsession \in 1..lastSession
    /\ c.rsession \in 0..lastSession
    /\ c.initiated => Dialled(n, c.lsession)
    /\ c.lstate \in {CALLPREP, RINGINGOUT} => c.initiated
    /\ c.rsession = 0 =>
         c.initiated /\ c.lstate \in {CALLPREP, CALLENDED} /\ c.rstate = NOCALL
    /\ c.rsession # 0 => (Dialled(n, c.lsession) <=> ~Dialled(c.peer, c.rsession))
    /\ c.lstate = RINGINGOUT => <<n, c.lsession, c.rsession>> \in rung
    /\ (\/ c.rstate = RINGINGOUT
        \/ c.lstate = RINGINGIN
        \/ c.lstate = INCALL /\ ~c.initiated)
         => /\ Dialled(c.peer, c.rsession)
            /\ <<c.peer, c.rsession, c.lsession>> \in rung
    /\ c.lstate = INCALL /\ ~c.initiated => <<n, c.lsession>> \in answered
    /\ c.lstate = INCALL /\ c.initiated => <<c.peer, c.rsession>> \in answered

\* What holds of a frame in flight.
FrameInv(m) ==
    /\ m.src # m.dst
    /\ m.ssession \in 1..lastSession
    /\ m.rsession \in 0..lastSession
    /\ m.rsession = 0 =>
         Dialled(m.src, m.ssession) /\ m.sstate \in {CALLPREP, CALLENDED}
    /\ m.rsession # 0 => (Dialled(m.src, m.ssession) <=> ~Dialled(m.dst, m.rsession))
    /\ m.sstate \in {CALLPREP, RINGINGOUT} => Dialled(m.src, m.ssession)
    /\ m.sstate = RINGINGOUT => <<m.src, m.ssession, m.rsession>> \in rung
    /\ m.sstate = INCALL /\ ~Dialled(m.src, m.ssession)
         => <<m.src, m.ssession>> \in answered

\* The inductive invariant.
Inv ==
    /\ VompTypeOK
    /\ \A d \in dialled : d[2] <= lastSession
    /\ \A n \in Node : \A i \in 1..Len(calls[n]) : CallInv(n, calls[n][i])
    /\ \A m \in net : FrameInv(m)

-----------------------------------------------------------------------------
(* Sequences of records                                                     *)

USE DEF NOCALL, CALLPREP, RINGINGOUT, RINGINGIN, INCALL, CALLENDED, CallState

\* Writing one record of vomp_call_states leaves the others alone.
LEMMA ReplaceElements ==
    ASSUME NEW S, NEW s \in Seq(S), NEW i \in 1..Len(s), NEW d \in S
    PROVE  /\ Replace(s, i, d) \in Seq(S)
           /\ Len(Replace(s, i, d)) = Len(s)
           /\ \A j \in 1..Len(s) : Replace(s, i, d)[j] = IF j = i THEN d ELSE s[j]
BY DEF Replace

\* vomp_call_destroy() keeps every record but the one it removes.
LEMMA RemoveElements ==
    ASSUME NEW S, NEW s \in Seq(S), NEW i \in 1..Len(s)
    PROVE  /\ Removed(s, i) \in Seq(S)
           /\ \A j \in 1..Len(Removed(s, i)) :
                 \E k \in 1..Len(s) : Removed(s, i)[j] = s[k]
BY DEF Removed

-----------------------------------------------------------------------------
(* One step at a time: what a step may do to the histories                  *)

Growing ==
    /\ lastSession <= lastSession'
    /\ rung \subseteq rung'
    /\ answered \subseteq answered'
    /\ dialled \subseteq dialled'
    /\ \A e \in dialled' : e \in dialled \/ (lastSession < e[2] /\ e[2] <= lastSession')

\* A call record keeps its invariant while the histories grow: new sessions
\* are fresh, so none of the old ones becomes a dialled one.
LEMMA CallStable ==
    ASSUME VompTypeOK, lastSession' \in Session, Growing, NEW n \in Node, NEW c \in Call, CallInv(n, c)
    PROVE  CallInv(n, c)'
PROOF
<1>1. c.lsession \in 1..lastSession /\ c.rsession \in 0..lastSession
  BY ZenonT(60) DEF CallInv
<1>2. lastSession \in Int /\ lastSession' \in Int /\ lastSession <= lastSession'
  BY DEF VompTypeOK, Growing, Session
<1>3. ASSUME NEW k \in Node, NEW s \in 0..lastSession
      PROVE  Dialled(k, s) <=> Dialled(k, s)'
  BY <1>2, <<k, s>>[2] = s DEF Growing, Dialled
<1>4. c.lsession \in 1..lastSession' /\ c.rsession \in 0..lastSession'
  BY <1>1, <1>2
<1>5. Dialled(n, c.lsession) <=> Dialled(n, c.lsession)'
  BY <1>1, <1>2, <1>3
<1>6. Dialled(c.peer, c.rsession) <=> Dialled(c.peer, c.rsession)'
  BY <1>1, <1>3, ZenonT(60) DEF Call
<1> QED BY <1>4, <1>5, <1>6, ZenonT(60) DEF Growing, CallInv

\* So does a frame.
LEMMA FrameStable ==
    ASSUME VompTypeOK, lastSession' \in Session, Growing, NEW m \in Frame, FrameInv(m)
    PROVE  FrameInv(m)'
BY DEF VompTypeOK, Growing, FrameInv, Dialled, Session, Frame

\* A frame that describes a record (vomp_send_status_remote()) is as good as
\* the record.
LEMMA FrameOfCall ==
    ASSUME lastSession' \in Session, NEW n \in Node, NEW c \in Call,
           NEW m \in Frame, CallInv(n, c)',
           m.src = n, m.dst = c.peer, m.sstate = c.lstate,
           m.ssession = c.lsession, m.rsession = c.rsession
    PROVE  FrameInv(m)'
BY ZenonT(60) DEF CallInv, FrameInv, Dialled, Session, Call, Frame

\* A status frame has the type of a frame.
LEMMA StatusFrameType ==
    ASSUME VompTypeOK, NEW n \in Node, NEW c \in Call
    PROVE  StatusFrame(n, c) \in Frame
BY VompAssumption, ZenonT(60) DEF VompTypeOK, StatusFrame, Frame, Call, Codecs

\* A step that writes at most record d of node n, and sends only good frames,
\* preserves the invariant.
LEMMA StepPreserves ==
    ASSUME Inv, VompTypeOK', Growing,
           NEW n \in Node, NEW d \in Call, CallInv(n, d)',
           \A k \in Node : \A i \in 1..Len(calls'[k]) :
              \/ \E j \in 1..Len(calls[k]) : calls'[k][i] = calls[k][j]
              \/ k = n /\ calls'[k][i] = d,
           \A m \in net' : m \in net \/ FrameInv(m)'
    PROVE  Inv'
PROOF
<1>1. (\A e \in dialled : e[2] <= lastSession)'
  BY DEF Inv, Growing, VompTypeOK, Session
<1>2. ASSUME NEW k \in Node, NEW i \in 1..Len(calls'[k])
      PROVE  CallInv(k, calls[k][i])'
  <2>1. CASE k = n /\ calls'[k][i] = d
    BY <2>1, ZenonT(60)
  <2>2. CASE \E j \in 1..Len(calls[k]) : calls'[k][i] = calls[k][j]
    <3>1. PICK j \in 1..Len(calls[k]) : calls'[k][i] = calls[k][j]
      BY <2>2, ZenonT(60)
    <3>2. calls[k][j] \in Call /\ CallInv(k, calls[k][j])
      BY DEF Inv, VompTypeOK
    <3>3. PICK c \in Call : c = calls[k][j]
      BY <3>2, ZenonT(60)
    <3>4. CallInv(k, c)'
      BY <3>2, <3>3, CallStable, ZenonT(60) DEF Inv, VompTypeOK
    <3>5. calls'[k][i] = c
      BY <3>1, <3>3, ZenonT(60)
    <3> QED BY <3>4, <3>5, ZenonT(60) DEF CallInv, Dialled
  <2> QED BY <2>1, <2>2, ZenonT(60)
<1>3. ASSUME NEW m \in net' PROVE FrameInv(m)'
  <2>1. CASE m \in net
    <3>1. m \in Frame /\ FrameInv(m)
      BY <2>1, ZenonT(60) DEF Inv, VompTypeOK
    <3> QED BY <3>1, FrameStable, ZenonT(60) DEF Inv, VompTypeOK
  <2> QED BY <2>1, ZenonT(60)
<1> QED BY <1>1, <1>2, <1>3, ZenonT(60) DEF Inv

-----------------------------------------------------------------------------
(* Writing a record and sending its frame                                   *)

\* vomp_update() sends nothing but the status of the call.
LEMMA Sent ==
    ASSUME NEW frames, NEW n, NEW c, NEW m \in Sending(frames, updateFrames(n, c))
    PROVE  m \in frames \/ m = StatusFrame(n, c)
BY ZenonT(60) DEF Sending, updateFrames

\* vomp_update() does not disturb what the invariant says of a record.
LEMMA UpdatedFields ==
    ASSUME NEW c \in Call
    PROVE  /\ updated(c) \in Call
           /\ updated(c).peer = c.peer
           /\ updated(c).lstate = c.lstate /\ updated(c).rstate = c.rstate
           /\ updated(c).lsession = c.lsession /\ updated(c).rsession = c.rsession
           /\ updated(c).initiated = c.initiated
BY DEF updated, Call

\* An action that stores d (with the states it had when its frame was made) as
\* record i of node n, or as a new record, and sends at most its status frame.
LEMMA StoreAndSend ==
    ASSUME Inv, Growing, NEW n \in Node, NEW c \in Call, NEW d \in Call,
           CallInv(n, d)',
           \/ \E i \in 1..Len(calls[n]) : calls' = [calls EXCEPT ![n] = Replace(@, i, d)]
           \/ calls' = [calls EXCEPT ![n] = Append(@, d)],
           c.peer = d.peer, c.lstate = d.lstate,
           c.lsession = d.lsession, c.rsession = d.rsession,
           \A m \in net' : m \in net \/ m = StatusFrame(n, c),
           listening' = listening,
           lastSession' \in Session, dialled' \subseteq Node \X Session,
           rung' \subseteq Node \X Session \X Session,
           answered' \subseteq Node \X Session
    PROVE  Inv'
PROOF
<1>1. calls \in [Node -> Seq(Call)] /\ calls[n] \in Seq(Call)
  BY ZenonT(60) DEF Inv, VompTypeOK
<1>2. /\ calls' \in [Node -> Seq(Call)]
      /\ \A k \in Node : \A i \in 1..Len(calls'[k]) :
            \/ \E j \in 1..Len(calls[k]) : calls'[k][i] = calls[k][j]
            \/ k = n /\ calls'[k][i] = d
  <2>1. CASE \E i \in 1..Len(calls[n]) : calls' = [calls EXCEPT ![n] = Replace(@, i, d)]
    <3>1. PICK i \in 1..Len(calls[n]) : calls' = [calls EXCEPT ![n] = Replace(@, i, d)]
      BY <2>1, ZenonT(60)
    <3>2. calls'[n] = Replace(calls[n], i, d)
      BY <1>1, <3>1, ZenonT(60)
    <3>3. /\ calls'[n] \in Seq(Call) /\ Len(calls'[n]) = Len(calls[n])
          /\ \A j \in 1..Len(calls[n]) :
                calls'[n][j] = IF j = i THEN d ELSE calls[n][j]
      BY <1>1, <3>2, ReplaceElements
    <3>4. \A k \in Node \ {n} : calls'[k] = calls[k]
      BY <1>1, <3>1, ZenonT(60)
    <3>5. calls' \in [Node -> Seq(Call)]
      BY <1>1, <3>1, <3>3, <3>4, ZenonT(60)
    <3> QED BY <3>3, <3>4, <3>5, ZenonT(60)
  <2>2. CASE calls' = [calls EXCEPT ![n] = Append(@, d)]
    <3>1. calls'[n] = Append(calls[n], d)
      BY <1>1, <2>2, ZenonT(60)
    <3>2. /\ calls'[n] \in Seq(Call) /\ Len(calls'[n]) = Len(calls[n]) + 1
          /\ \A j \in 1..(Len(calls[n]) + 1) :
                calls'[n][j] = IF j = Len(calls[n]) + 1 THEN d ELSE calls[n][j]
      BY <1>1, <3>1
    <3>3. \A k \in Node \ {n} : calls'[k] = calls[k]
      BY <1>1, <2>2, ZenonT(60)
    <3>4. calls' \in [Node -> Seq(Call)]
      BY <1>1, <2>2, <3>2, <3>3, ZenonT(60)
    <3>5. Len(calls[n]) \in Nat
      BY <1>1
    <3>6. ASSUME NEW i \in 1..Len(calls'[n])
          PROVE  calls'[n][i] = d \/ \E j \in 1..Len(calls[n]) : calls'[n][i] = calls[n][j]
      BY <3>2, <3>5
    <3> QED BY <3>3, <3>4, <3>6
  <2> QED BY <2>1, <2>2, ZenonT(60)
<1>3. \A m \in net' : m \in Frame
  BY StatusFrameType, ZenonT(60) DEF Inv, VompTypeOK
<1>4. VompTypeOK'
  BY <1>2, <1>3, ZenonT(60) DEF Inv, VompTypeOK
<1>5. ASSUME NEW m \in net' PROVE m \in net \/ FrameInv(m)'
  <2>1. CASE m = StatusFrame(n, c)
    <3>1. /\ m.src = n /\ m.dst = d.peer /\ m.sstate = d.lstate
          /\ m.ssession = d.lsession /\ m.rsession = d.rsession
      BY <2>1, ZenonT(60) DEF StatusFrame
    <3>2. m \in Frame
      BY <1>3, ZenonT(60)
    <3> QED BY <3>1, <3>2, FrameOfCall, ZenonT(60)
  <2> QED BY <2>1, ZenonT(60)
<1> QED BY <1>2, <1>4, <1>5, StepPreserves, ZenonT(60)

\* Nothing of the histories changes.
LEMMA GrowingStutter ==
    ASSUME VompTypeOK, UNCHANGED <<lastSession, dialled>>,
           rung \subseteq rung', answered \subseteq answered'
    PROVE  Growing
BY DEF Growing, VompTypeOK, Session

-----------------------------------------------------------------------------
(* The client's commands                                                    *)

\* The record found by vomp_find_call_by_session() satisfies the invariant.
LEMMA KnownCall ==
    ASSUME Inv, NEW n \in Node, NEW i \in 1..Len(calls[n])
    PROVE  calls[n][i] \in Call /\ CallInv(n, calls[n][i])
BY DEF Inv, VompTypeOK

\* What vomp_update_local_state() leaves alone.
LEMMA LocalState ==
    ASSUME NEW c \in Call, NEW s \in CallState
    PROVE  LET d == update_local_state(c, s)
           IN  /\ d \in Call
               /\ d.lstate = IF c.lstate >= s THEN c.lstate ELSE s
               /\ d.peer = c.peer /\ d.rstate = c.rstate
               /\ d.lsession = c.lsession /\ d.rsession = c.rsession
               /\ d.initiated = c.initiated
BY ZenonT(60) DEF update_local_state, Call

\* A new record has the type of a record.
LEMMA NewCallType ==
    ASSUME NEW peer \in Node, NEW r \in Session, NEW s \in Session
    PROVE  NewCall(peer, r, s) \in Call
BY DEF NewCall, Call

\* vomp_dial() preserves the invariant: its session is fresh.
LEMMA DialStep ==
    ASSUME Inv, NEW n \in Node, NEW peer \in Node, vomp_dial(n, peer)
    PROVE  Inv'
PROOF
<1>1. PICK s \in Session : s = lastSession + 1 /\ lastSession \in Nat
  BY VompAssumption DEF Inv, VompTypeOK, vomp_dial, Session
<1>2. 0 \in Session /\ s \in 1..s
  BY <1>1, VompAssumption DEF Session
<1>3. PICK b \in Call : b = update_local_state(NewCall(peer, 0, s), CALLPREP)
  BY <1>2, NewCallType, LocalState
<1>4. /\ b.peer = peer /\ b.lstate = CALLPREP /\ b.rstate = NOCALL
      /\ b.lsession = s /\ b.rsession = 0
  BY <1>2, <1>3 DEF update_local_state, NewCall
<1>5. PICK c \in Call : c = [b EXCEPT !.initiated = TRUE]
  BY ZenonT(60) DEF Call
<1>6. /\ c.peer = peer /\ c.lstate = CALLPREP /\ c.rstate = NOCALL
      /\ c.lsession = s /\ c.rsession = 0 /\ c.initiated = TRUE
  BY <1>4, <1>5, ZenonT(60) DEF Call
<1>7. /\ lastSession' = s /\ dialled' = dialled \cup {<<n, s>>}
      /\ rung' = rung /\ answered' = answered /\ listening' = listening
      /\ calls' = [calls EXCEPT ![n] = Append(@, updated(c))]
      /\ net' = Sending(net, updateFrames(n, c)) /\ peer # n
  BY <1>1, <1>3, <1>5, ZenonT(60) DEF vomp_dial
<1>8. Growing
  BY <1>1, <1>7 DEF Growing
<1>9. PICK d \in Call : d = updated(c)
  BY UpdatedFields, ZenonT(60)
<1>10. CallInv(n, d)'
  BY <1>1, <1>2, <1>6, <1>7, <1>9, UpdatedFields DEF CallInv, Dialled
<1>11. \A m \in net' : m \in net \/ m = StatusFrame(n, c)
  BY <1>7, Sent, ZenonT(60)
<1>12. /\ dialled' \subseteq Node \X Session /\ lastSession' \in Session
       /\ rung' \subseteq Node \X Session \X Session
       /\ answered' \subseteq Node \X Session
  BY <1>1, <1>7 DEF Inv, VompTypeOK
<1> QED BY <1>7, <1>8, <1>9, <1>10, <1>11, <1>12, UpdatedFields, StoreAndSend, ZenonT(60)

\* What the three commands on an existing call share: record i becomes d.
LEMMA CommandStep ==
    ASSUME Inv, NEW n \in Node, NEW i \in 1..Len(calls[n]), NEW d \in Call,
           calls' = [calls EXCEPT ![n] = Replace(@, i, updated(d))],
           net' = Sending(net, updateFrames(n, d)),
           UNCHANGED <<listening, lastSession, dialled, rung>>,
           answered \subseteq answered', answered' \subseteq Node \X Session,
           CallInv(n, d)'
    PROVE  Inv'
PROOF
<1>1. Growing
  BY GrowingStutter, ZenonT(60) DEF Inv
<1>2. \A m \in net' : m \in net \/ m = StatusFrame(n, d)
  BY Sent, ZenonT(60)
<1>3. PICK e \in Call : e = updated(d)
  BY UpdatedFields, ZenonT(60)
<1>4. CallInv(n, e)'
  BY <1>3, UpdatedFields, ZenonT(60) DEF CallInv, Dialled
<1>5. d.peer = e.peer /\ d.lstate = e.lstate /\ d.lsession = e.lsession /\ d.rsession = e.rsession
  BY <1>3, UpdatedFields, ZenonT(60)
<1> QED BY <1>1, <1>2, <1>3, <1>4, <1>5, StoreAndSend, ZenonT(60) DEF Inv, VompTypeOK

\* vomp_ringing() preserves the invariant.
LEMMA RingingStep ==
    ASSUME Inv, NEW n \in Node, NEW s \in 1..MaxSession, vomp_ringing(n, s)
    PROVE  Inv'
PROOF
<1>1. PICK i \in 1..Len(calls[n]) :
        LET d == update_local_state(calls[n][i], RINGINGIN)
        IN  /\ ~calls[n][i].initiated /\ calls[n][i].lstate < RINGINGIN
            /\ calls[n][i].rstate = RINGINGOUT
            /\ calls' = [calls EXCEPT ![n] = Replace(@, i, updated(d))]
            /\ net' = Sending(net, updateFrames(n, d))
  BY ZenonT(60) DEF vomp_ringing
<1>2. PICK c \in Call : c = calls[n][i] /\ CallInv(n, c)
  BY KnownCall, ZenonT(60)
<1>3. UNCHANGED <<listening, lastSession, dialled, rung, answered>>
  BY ZenonT(60) DEF vomp_ringing
<1>4. PICK d \in Call : d = update_local_state(c, RINGINGIN)
  BY LocalState
<1>5. /\ d.peer = c.peer /\ d.lstate = RINGINGIN /\ d.rstate = c.rstate
      /\ d.lsession = c.lsession /\ d.rsession = c.rsession
      /\ d.initiated = c.initiated
  <2>1. RINGINGIN \in CallState
    OBVIOUS
  <2>2. /\ d.lstate = IF c.lstate >= RINGINGIN THEN c.lstate ELSE RINGINGIN
        /\ d.peer = c.peer /\ d.rstate = c.rstate
        /\ d.lsession = c.lsession /\ d.rsession = c.rsession
        /\ d.initiated = c.initiated
    BY <1>4, <2>1, LocalState, ZenonT(60)
  <2>3. c.lstate \in CallState
    BY ZenonT(60) DEF Call
  <2>4. d.lstate = RINGINGIN
    BY <1>1, <1>2, <2>2, <2>3
  <2> QED BY <2>2, <2>4, ZenonT(60)
<1>6. CallInv(n, d)'
  BY <1>1, <1>2, <1>3, <1>5 DEF CallInv, Dialled
<1> QED BY <1>1, <1>2, <1>3, <1>4, <1>6, CommandStep, ZenonT(60) DEF Inv, VompTypeOK

\* vomp_pickup() preserves the invariant: only a called party can pick up.
LEMMA PickupStep ==
    ASSUME Inv, NEW n \in Node, NEW s \in 1..MaxSession, vomp_pickup(n, s)
    PROVE  Inv'
PROOF
<1>1. PICK i \in 1..Len(calls[n]) :
        LET d == [update_local_state(calls[n][i], INCALL) EXCEPT !.age = 0]
        IN  /\ calls[n][i].lsession = s
            /\ calls[n][i].lstate <= RINGINGIN /\ calls[n][i].rstate = RINGINGOUT
            /\ calls' = [calls EXCEPT ![n] = Replace(@, i, updated(d))]
            /\ net' = Sending(net, updateFrames(n, d))
  BY ZenonT(60) DEF vomp_pickup, BySession
<1>2. PICK c \in Call : c = calls[n][i] /\ CallInv(n, c)
  BY KnownCall, ZenonT(60)
<1>3. /\ UNCHANGED <<listening, lastSession, dialled, rung>>
      /\ answered' = answered \cup {<<n, s>>}
  BY ZenonT(60) DEF vomp_pickup
<1>4. PICK b \in Call : b = update_local_state(c, INCALL)
  BY LocalState
<1>5. PICK d \in Call : d = [b EXCEPT !.age = 0]
  <2>1. [b EXCEPT !.age = 0] \in Call
    BY DEF Call
  <2> QED BY <2>1, ZenonT(60)
<1>6. /\ d.peer = c.peer /\ d.lstate = INCALL /\ d.rstate = c.rstate
      /\ d.lsession = c.lsession /\ d.rsession = c.rsession
      /\ d.initiated = c.initiated
  <2>1. /\ b.peer = c.peer /\ b.lstate = INCALL /\ b.rstate = c.rstate
        /\ b.lsession = c.lsession /\ b.rsession = c.rsession
        /\ b.initiated = c.initiated
    <3>1. INCALL \in CallState
      OBVIOUS
    <3>2. /\ b.lstate = IF c.lstate >= INCALL THEN c.lstate ELSE INCALL
          /\ b.peer = c.peer /\ b.rstate = c.rstate
          /\ b.lsession = c.lsession /\ b.rsession = c.rsession
          /\ b.initiated = c.initiated
      BY <1>4, <3>1, LocalState, ZenonT(60)
    <3>3. c.lstate \in CallState
      BY ZenonT(60) DEF Call
    <3>4. b.lstate = INCALL
      BY <1>1, <1>2, <3>2, <3>3
    <3> QED BY <3>2, <3>4, ZenonT(60)
  <2>2. /\ d.peer = b.peer /\ d.lstate = b.lstate /\ d.rstate = b.rstate
        /\ d.lsession = b.lsession /\ d.rsession = b.rsession
        /\ d.initiated = b.initiated
    BY <1>5, ZenonT(60) DEF Call
  <2> QED BY <2>1, <2>2, ZenonT(60)
<1>7. ~c.initiated
  BY <1>1, <1>2 DEF CallInv, Dialled
<1>8. CallInv(n, d)'
  BY <1>1, <1>2, <1>3, <1>6, <1>7 DEF CallInv, Dialled
<1>9. answered \subseteq answered' /\ answered' \subseteq Node \X Session
  BY <1>3, VompAssumption DEF Inv, VompTypeOK, Session
<1> QED BY <1>1, <1>2, <1>3, <1>4, <1>5, <1>8, <1>9, CommandStep, ZenonT(60)

\* vomp_hangup() preserves the invariant.
LEMMA HangupStep ==
    ASSUME Inv, NEW n \in Node, NEW s \in 1..MaxSession, vomp_hangup(n, s)
    PROVE  Inv'
PROOF
<1>1. PICK i \in 1..Len(calls[n]) :
        LET d == update_local_state(calls[n][i], CALLENDED)
        IN  /\ calls' = [calls EXCEPT ![n] = Replace(@, i, updated(d))]
            /\ net' = Sending(net, updateFrames(n, d))
  BY ZenonT(60) DEF vomp_hangup
<1>2. PICK c \in Call : c = calls[n][i] /\ CallInv(n, c)
  BY KnownCall, ZenonT(60)
<1>3. UNCHANGED <<listening, lastSession, dialled, rung, answered>>
  BY ZenonT(60) DEF vomp_hangup
<1>4. PICK d \in Call : d = update_local_state(c, CALLENDED)
  BY LocalState
<1>5. CallInv(n, d)'
  <2>1. /\ d.peer = c.peer /\ d.lstate = CALLENDED /\ d.rstate = c.rstate
        /\ d.lsession = c.lsession /\ d.rsession = c.rsession
        /\ d.initiated = c.initiated
    BY <1>4, LocalState DEF Call
  <2> QED BY <1>2, <1>3, <2>1 DEF CallInv, Dialled
<1> QED BY <1>1, <1>2, <1>3, <1>4, <1>5, CommandStep, ZenonT(60) DEF Inv, VompTypeOK

-----------------------------------------------------------------------------
(* A frame arrives                                                          *)

\* All that the switch of vomp_mdp_received() can do to the local state.
LEMMA TransitionCases ==
    ASSUME NEW local \in CallState, NEW sender \in CallState, NEW initiated \in BOOLEAN
    PROVE  LET next == Transition(local, sender, initiated)
           IN  \/ next = 0 \/ next = CALLENDED \/ next = local
               \/ local = CALLPREP /\ initiated /\ next = RINGINGOUT
               \/ /\ local = RINGINGOUT /\ sender \in {RINGINGOUT, INCALL}
                  /\ next = INCALL
BY DEF Transition

\* The switch is entered with the state of the record, or to end the call.
LEMMA EntryCases ==
    ASSUME NEW n, NEW c, NEW m
    PROVE  EntryState(n, c, m) = c.lstate \/ EntryState(n, c, m) = CALLENDED
PROOF
<1>1. CASE ~listening[n]
  BY <1>1, ZenonT(60) DEF EntryState
<1>2. CASE listening[n] /\ m.sstate = CALLENDED
  BY <1>2, ZenonT(60) DEF EntryState
<1>3. CASE listening[n] /\ m.sstate # CALLENDED
  BY <1>3, ZenonT(60) DEF EntryState
<1> QED BY <1>1, <1>2, <1>3, ZenonT(60)

\* What vomp_mdp_received() can make of a record.
LEMMA ProcessedFields ==
    ASSUME NEW n \in Node, NEW c \in Call, NEW m \in Frame
    PROVE  LET d == Processed(n, c, m)
           IN  /\ d \in Call
               /\ d.peer = c.peer /\ d.lsession = c.lsession
               /\ d.rsession = c.rsession /\ d.initiated = c.initiated
               /\ d.rstate = c.rstate \/ d.rstate = m.sstate
               /\ \/ d.lstate = c.lstate \/ d.lstate = CALLENDED
                  \/ c.lstate = CALLPREP /\ c.initiated /\ d.lstate = RINGINGOUT
                  \/ /\ c.lstate = RINGINGOUT /\ m.sstate \in {RINGINGOUT, INCALL}
                     /\ d.lstate = INCALL
PROOF
<1>1. PICK entry \in CallState : entry = EntryState(n, c, m)
  BY EntryCases DEF Call
<1>2. PICK next : next = Transition(entry, m.sstate, c.initiated)
  BY ZenonT(60)
<1>3. c.initiated \in BOOLEAN /\ m.sstate \in CallState /\ c.lstate \in CallState
  BY ZenonT(60) DEF Call, Frame
<1>4. \/ next = 0 \/ next = CALLENDED \/ next = entry
      \/ entry = CALLPREP /\ c.initiated /\ next = RINGINGOUT
      \/ entry = RINGINGOUT /\ m.sstate \in {RINGINGOUT, INCALL} /\ next = INCALL
  BY <1>2, <1>3, TransitionCases
<1>5. PICK b \in Call : b = [c EXCEPT !.codecs = HeardCodecs(n, c, m)]
  <2>1. HeardCodecs(n, c, m) \in SUBSET Codec
    BY ZenonT(60) DEF HeardCodecs, Call, Frame
  <2>2. [c EXCEPT !.codecs = HeardCodecs(n, c, m)] \in Call
    BY <2>1, ZenonT(60) DEF Call
  <2> QED BY <2>2, ZenonT(60)
<1>6. /\ b.peer = c.peer /\ b.lsession = c.lsession /\ b.lstate = c.lstate
      /\ b.rstate = c.rstate /\ b.rsession = c.rsession /\ b.initiated = c.initiated
  BY <1>5, ZenonT(60) DEF Call
<1>7. CASE next = 0
  BY <1>1, <1>2, <1>5, <1>6, <1>7, ZenonT(60) DEF Processed
<1>8. CASE next # 0
  <2>1. next \in CallState
    BY <1>4, <1>8
  <2>2. PICK r \in Call : r = update_remote_state(b, m.sstate)
    <3>1. update_remote_state(b, m.sstate) \in Call
      BY <1>3, ZenonT(60) DEF update_remote_state, Call
    <3> QED BY <3>1, ZenonT(60)
  <2>3. /\ r.peer = c.peer /\ r.lsession = c.lsession /\ r.lstate = c.lstate
        /\ r.rsession = c.rsession /\ r.initiated = c.initiated
        /\ r.rstate = c.rstate \/ r.rstate = m.sstate
    BY <1>6, <2>2, ZenonT(60) DEF update_remote_state, Call
  <2>4. PICK e \in Call : e = update_local_state(r, next)
    BY <2>1, LocalState, ZenonT(60)
  <2>5. /\ e.peer = c.peer /\ e.lsession = c.lsession /\ e.rstate = r.rstate
        /\ e.rsession = c.rsession /\ e.initiated = c.initiated
        /\ e.lstate = IF c.lstate >= next THEN c.lstate ELSE next
    BY <2>1, <2>3, <2>4, LocalState, ZenonT(60)
  <2>6. PICK a \in 0..2 : a = IF entry = RINGINGOUT /\ next = INCALL THEN 0 ELSE e.age
    BY DEF Call
  <2>7. PICK d \in Call : d = [e EXCEPT !.idle = FALSE, !.age = a]
    <3>1. [e EXCEPT !.idle = FALSE, !.age = a] \in Call
      BY ZenonT(60) DEF Call
    <3> QED BY <3>1, ZenonT(60)
  <2>8. /\ d.peer = e.peer /\ d.lsession = e.lsession /\ d.lstate = e.lstate
        /\ d.rstate = e.rstate /\ d.rsession = e.rsession /\ d.initiated = e.initiated
    BY <2>7, ZenonT(60) DEF Call
  <2>9. Processed(n, c, m) = d
    BY <1>1, <1>2, <1>5, <1>8, <2>2, <2>4, <2>6, <2>7, ZenonT(60) DEF Processed, Call
  <2>10. entry = c.lstate \/ entry = CALLENDED
    BY <1>1, EntryCases, ZenonT(60)
  <2>11. \/ d.lstate = c.lstate \/ d.lstate = CALLENDED
         \/ c.lstate = CALLPREP /\ c.initiated /\ d.lstate = RINGINGOUT
         \/ /\ c.lstate = RINGINGOUT /\ m.sstate \in {RINGINGOUT, INCALL}
            /\ d.lstate = INCALL
    BY <1>4, <1>8, <2>5, <2>8, <2>10
  <2> QED BY <2>3, <2>5, <2>8, <2>9, <2>11, ZenonT(60)
<1> QED BY <1>7, <1>8, ZenonT(60)

\* A frame that belongs to a record leaves a record that satisfies the
\* invariant.  An INCALL frame can only connect the caller's end, and comes
\* from the other end of the pair: from one that was answered.
LEMMA ReceivedInv ==
    ASSUME lastSession' \in Session, NEW n \in Node, NEW c \in Call, NEW d \in Call,
           NEW m \in Frame,
           CallInv(n, c)', FrameInv(m)',
           m.src = c.peer, m.dst = n, m.ssession = c.rsession,
           m.rsession # 0 => m.rsession = c.lsession,
           d.peer = c.peer, d.lsession = c.lsession,
           d.rsession = c.rsession, d.initiated = c.initiated,
           d.rstate = c.rstate \/ d.rstate = m.sstate,
           \/ d.lstate = c.lstate \/ d.lstate = CALLENDED
           \/ c.lstate = CALLPREP /\ c.initiated /\ d.lstate = RINGINGOUT
           \/ /\ c.lstate = RINGINGOUT /\ m.sstate \in {RINGINGOUT, INCALL}
              /\ d.lstate = INCALL,
           d.lstate = RINGINGOUT => <<n, d.lsession, d.rsession>> \in rung'
    PROVE  CallInv(n, d)'
PROOF
<1>1. c.rsession # 0
  BY DEF FrameInv, Session
<1>2. m.sstate = RINGINGOUT => /\ Dialled(c.peer, c.rsession)'
                               /\ <<c.peer, c.rsession, c.lsession>> \in rung'
  BY DEF FrameInv, Dialled
<1>3. Dialled(n, c.lsession)' <=> ~Dialled(c.peer, c.rsession)'
  BY <1>1, ZenonT(60) DEF CallInv
<1>4. d.rstate = RINGINGOUT => /\ Dialled(c.peer, c.rsession)'
                               /\ <<c.peer, c.rsession, c.lsession>> \in rung'
  BY <1>2, ZenonT(60) DEF CallInv
<1>5. CASE d.lstate = c.lstate
  BY <1>1, <1>4, <1>5, ZenonT(60) DEF CallInv, Dialled
<1>6. CASE d.lstate = CALLENDED
  BY <1>1, <1>4, <1>6 DEF CallInv, Dialled
<1>7. CASE c.lstate = CALLPREP /\ c.initiated /\ d.lstate = RINGINGOUT
  BY <1>1, <1>4, <1>7 DEF CallInv, Dialled
<1>8. CASE /\ c.lstate = RINGINGOUT /\ m.sstate \in {RINGINGOUT, INCALL}
           /\ d.lstate = INCALL
  <2>1. c.initiated /\ Dialled(n, c.lsession)'
    BY <1>8, ZenonT(60) DEF CallInv
  <2>2. ~Dialled(m.src, m.ssession)'
    BY <1>3, <2>1, ZenonT(60) DEF Dialled
  <2>3. m.sstate = INCALL /\ <<m.src, m.ssession>> \in answered'
    BY <1>8, <2>2, ZenonT(60) DEF FrameInv
  <2> QED BY <1>1, <1>4, <1>8, <2>1, <2>3 DEF CallInv, Dialled
<1> QED BY <1>5, <1>6, <1>7, <1>8, ZenonT(60)

\* vomp_mdp_received() once the record the frame belongs to is at hand.
LEMMA ReceiveStep ==
    ASSUME Inv, NEW n \in Node, NEW m \in net, m.dst = n,
           NEW c \in Call, CallInv(n, c)',
           m.src = c.peer, m.ssession = c.rsession,
           m.rsession # 0 => m.rsession = c.lsession,
           \/ \E i \in 1..Len(calls[n]) :
                calls' = [calls EXCEPT ![n] = Replace(@, i, Stored(n, c, m))]
           \/ calls' = [calls EXCEPT ![n] = Append(@, Stored(n, c, m))],
           Finish(n, c, m),
           lastSession' \in Session, lastSession <= lastSession',
           UNCHANGED <<listening, dialled, answered>>
    PROVE  Inv'
PROOF
<1>1. m \in Frame /\ FrameInv(m)
  BY ZenonT(60) DEF Inv, VompTypeOK
<1>2. rung \subseteq rung' /\ Growing
  BY ZenonT(60) DEF Finish, Growing
<1>3. FrameInv(m)'
  BY <1>1, <1>2, FrameStable DEF Inv
<1>4. PICK d \in Call :
        /\ d = Processed(n, c, m)
        /\ d.peer = c.peer /\ d.lsession = c.lsession
        /\ d.rsession = c.rsession /\ d.initiated = c.initiated
        /\ d.rstate = c.rstate \/ d.rstate = m.sstate
        /\ \/ d.lstate = c.lstate \/ d.lstate = CALLENDED
           \/ c.lstate = CALLPREP /\ c.initiated /\ d.lstate = RINGINGOUT
           \/ /\ c.lstate = RINGINGOUT /\ m.sstate \in {RINGINGOUT, INCALL}
              /\ d.lstate = INCALL
  BY <1>1, ProcessedFields
<1>5. d.lstate = RINGINGOUT => <<n, d.lsession, d.rsession>> \in rung'
  BY <1>4, ZenonT(60) DEF Finish
<1>6. CallInv(n, d)'
  BY <1>1, <1>3, <1>4, <1>5, ReceivedInv, ZenonT(60)
<1>7. PICK e \in Call : e = Stored(n, c, m) /\ (e = d \/ e = updated(d))
  BY <1>4, UpdatedFields, ZenonT(60) DEF Stored
<1>8. /\ e.peer = d.peer /\ e.lstate = d.lstate /\ e.rstate = d.rstate
      /\ e.lsession = d.lsession /\ e.rsession = d.rsession /\ e.initiated = d.initiated
  BY <1>7, UpdatedFields, ZenonT(60)
<1>9. CallInv(n, e)'
  BY <1>6, <1>8 DEF CallInv
<1>10. ASSUME NEW f \in net' PROVE f \in net \/ f = StatusFrame(n, d)
  BY <1>4, ZenonT(60) DEF Finish, Sending, updateFrames
<1>11. rung' \subseteq Node \X Session \X Session
  BY <1>4 DEF Finish, Inv, VompTypeOK, Call
<1>12. dialled' \subseteq Node \X Session /\ answered' \subseteq Node \X Session
  BY DEF Inv, VompTypeOK
<1> QED BY <1>2, <1>7, <1>8, <1>9, <1>10, <1>11, <1>12, StoreAndSend, ZenonT(60)

\* A frame for a known call preserves the invariant.
LEMMA KnownStep ==
    ASSUME Inv, NEW m \in net, ReceiveKnown(m.dst, m)
    PROVE  Inv'
PROOF
<1>1. m \in Frame /\ FrameInv(m)
  BY ZenonT(60) DEF Inv, VompTypeOK
<1>2. PICK n \in Node : n = m.dst
  BY <1>1, ZenonT(60) DEF Frame
<1>3. PICK i \in 1..Len(calls[n]) :
        /\ Matches(calls[n][i], m)
        /\ LET c == [calls[n][i] EXCEPT !.rsession = IF @ = 0 THEN m.ssession ELSE @]
           IN  /\ calls' = [calls EXCEPT ![n] = Replace(@, i, Stored(n, c, m))]
               /\ Finish(n, c, m)
  BY <1>2, ZenonT(60) DEF ReceiveKnown, FirstMatch
<1>4. PICK b \in Call : b = calls[n][i] /\ CallInv(n, b)
  BY KnownCall, ZenonT(60)
<1>5. PICK c \in Call : c = [b EXCEPT !.rsession = IF @ = 0 THEN m.ssession ELSE @]
  <2>1. [b EXCEPT !.rsession = IF @ = 0 THEN m.ssession ELSE @] \in Call
    BY <1>1, ZenonT(60) DEF Call, Frame
  <2> QED BY <2>1, ZenonT(60)
<1>6. /\ c.peer = b.peer /\ c.lstate = b.lstate /\ c.rstate = b.rstate
      /\ c.lsession = b.lsession /\ c.initiated = b.initiated
      /\ c.rsession = IF b.rsession = 0 THEN m.ssession ELSE b.rsession
  BY <1>5, ZenonT(60) DEF Call
<1>7. UNCHANGED <<listening, lastSession, dialled, answered>>
  BY ZenonT(60) DEF ReceiveKnown
<1>8. /\ m.src = c.peer /\ m.ssession = c.rsession /\ m.ssession # 0
      /\ m.rsession # 0 => m.rsession = c.lsession
      /\ b.rsession = 0 => m.rsession # 0
  <2>2. m.ssession \in 1..lastSession /\ b.lsession \in 1..lastSession
    BY <1>1, <1>4, ZenonT(60) DEF FrameInv, CallInv
  <2>3. lastSession \in Int
    BY DEF Inv, VompTypeOK, Session
  <2>1. m.ssession # 0 /\ b.lsession # 0
    BY <2>2, <2>3
  <2> QED BY <1>3, <1>4, <1>6, <2>1, ZenonT(60) DEF Matches
<1>9. CallInv(n, c)
  <2>1. CASE b.rsession # 0
    BY <1>4, <1>6, <2>1, ZenonT(60) DEF CallInv
  <2>2. CASE b.rsession = 0
    <3>1. m.rsession = c.lsession /\ m.dst = n /\ m.src = c.peer /\ m.ssession = c.rsession
      BY <1>2, <1>8, <2>2, ZenonT(60)
    <3>2. Dialled(c.peer, c.rsession) <=> ~Dialled(n, c.lsession)
      BY <1>1, <1>8, <2>2, <3>1, ZenonT(60) DEF FrameInv
    <3>3. c.rsession \in 1..lastSession /\ lastSession \in Int
      BY <1>1, <3>1 DEF FrameInv, Inv, VompTypeOK, Session
    <3>4. c.initiated /\ c.lstate \in {CALLPREP, CALLENDED} /\ c.rstate = NOCALL
      BY <1>4, <1>6, <2>2, ZenonT(60) DEF CallInv
    <3>5. /\ c.peer # n /\ c.lsession \in 1..lastSession
          /\ c.initiated => Dialled(n, c.lsession)
      BY <1>4, <1>6, ZenonT(60) DEF CallInv
    <3> QED BY <3>2, <3>3, <3>4, <3>5 DEF CallInv
  <2> QED BY <2>1, <2>2
<1>10. Growing
  BY <1>3, <1>7 DEF Finish, Growing, Inv, VompTypeOK, Session
<1>11. lastSession' \in Session /\ lastSession <= lastSession'
  BY <1>7 DEF Inv, VompTypeOK, Session
<1>12. CallInv(n, c)'
  BY <1>9, <1>10, <1>11, CallStable, ZenonT(60) DEF Inv
<1>13. /\ calls' = [calls EXCEPT ![n] = Replace(@, i, Stored(n, c, m))]
       /\ Finish(n, c, m)
  BY <1>3, <1>4, <1>5
<1> QED BY <1>2, <1>7, <1>8, <1>11, <1>12, <1>13, ReceiveStep, ZenonT(60)

\* A frame that creates a call preserves the invariant: with a fresh session,
\* or as the end the frame says it is for.
LEMMA NewStep ==
    ASSUME Inv, NEW m \in net, ReceiveNew(m.dst, m)
    PROVE  Inv'
PROOF
<1>1. m \in Frame /\ FrameInv(m)
  BY ZenonT(60) DEF Inv, VompTypeOK
<1>2. PICK n \in Node : n = m.dst
  BY <1>1, ZenonT(60) DEF Frame
<1>3. lastSession \in Nat /\ lastSession <= MaxSession /\ MaxSession \in Nat
  BY VompAssumption DEF Inv, VompTypeOK, Session
<1>4. PICK s \in Session : s = IF m.rsession = 0 THEN lastSession + 1 ELSE m.rsession
  BY <1>1, <1>3 DEF ReceiveNew, Session, Frame
<1>5. PICK c \in Call : c = NewCall(m.src, m.ssession, s)
  BY <1>1, NewCallType, ZenonT(60) DEF Frame
<1>6. /\ c.peer = m.src /\ c.lstate = NOCALL /\ c.rstate = NOCALL
      /\ c.lsession = s /\ c.rsession = m.ssession /\ c.initiated = FALSE
  BY <1>5, ZenonT(60) DEF NewCall
<1>7. /\ lastSession' = IF m.rsession = 0 THEN s ELSE lastSession
      /\ calls' = [calls EXCEPT ![n] = Append(@, Stored(n, c, m))]
      /\ Finish(n, c, m)
      /\ UNCHANGED <<listening, dialled, answered>>
  BY <1>2, <1>4, <1>5, ZenonT(60) DEF ReceiveNew
<1>8. lastSession' \in Session /\ lastSession <= lastSession'
  BY <1>3, <1>4, <1>7 DEF Session
<1>9. CallInv(n, c)'
  <2>1. m.ssession \in 1..lastSession /\ m.rsession \in 0..lastSession
    BY <1>1, ZenonT(60) DEF FrameInv
  <2>2. s \in 1..lastSession' /\ m.ssession \in 0..lastSession' /\ m.ssession # 0
    BY <1>3, <1>4, <1>7, <2>1
  <2>3. CASE m.rsession = 0
    <3>1. Dialled(m.src, m.ssession) /\ s = lastSession + 1
      BY <1>1, <1>4, <2>3, ZenonT(60) DEF FrameInv
    <3>2. ~Dialled(n, s)
      BY <1>3, <3>1, <<n, s>>[2] = s DEF Inv, Dialled
    <3> QED BY <1>1, <1>2, <1>6, <1>7, <2>2, <3>1, <3>2 DEF CallInv, FrameInv, Dialled
  <2>4. CASE m.rsession # 0
    BY <1>1, <1>2, <1>4, <1>6, <1>7, <2>2, <2>4 DEF CallInv, FrameInv, Dialled
  <2> QED BY <2>3, <2>4, ZenonT(60)
<1> QED BY <1>2, <1>4, <1>6, <1>7, <1>8, <1>9, ReceiveStep, ZenonT(60)

-----------------------------------------------------------------------------
(* Loss, timers and clients that come and go                                *)

\* Steps that only lose frames, or only change who listens.
LEMMA QuietStep ==
    ASSUME Inv, UNCHANGED <<calls, lastSession, dialled, rung, answered>>,
           net' \subseteq net, listening' \in [Node -> BOOLEAN]
    PROVE  Inv'
PROOF
<1>1. VompTypeOK' /\ Growing
  BY GrowingStutter DEF Inv, VompTypeOK
<1>2. (\A e \in dialled : e[2] <= lastSession)'
  BY ZenonT(60) DEF Inv
<1>3. ASSUME NEW n \in Node, NEW i \in 1..Len(calls'[n])
      PROVE  CallInv(n, calls[n][i])'
  <2>1. CallInv(n, calls[n][i])
    BY ZenonT(60) DEF Inv
  <2> QED BY <2>1, ZenonT(60) DEF CallInv, Dialled
<1>4. ASSUME NEW m \in net' PROVE FrameInv(m)'
  <2>1. m \in Frame /\ FrameInv(m)
    BY ZenonT(60) DEF Inv, VompTypeOK
  <2> QED BY <1>1, <2>1, FrameStable, ZenonT(60) DEF Inv, VompTypeOK
<1> QED BY <1>1, <1>2, <1>3, <1>4, ZenonT(60) DEF Inv

\* vomp_call_destroy() of record i, after which only good frames are in flight.
LEMMA RemoveStep ==
    ASSUME Inv, NEW n \in Node, NEW i \in 1..Len(calls[n]),
           calls' = [calls EXCEPT ![n] = Removed(@, i)],
           net' \subseteq Frame, \A m \in net' : m \in net \/ FrameInv(m)',
           UNCHANGED <<listening, lastSession, dialled, rung, answered>>
    PROVE  Inv'
PROOF
<1>1. calls \in [Node -> Seq(Call)] /\ calls[n] \in Seq(Call)
  BY ZenonT(60) DEF Inv, VompTypeOK
<1>2. calls'[n] = Removed(calls[n], i) /\ \A k \in Node \ {n} : calls'[k] = calls[k]
  BY <1>1, ZenonT(60)
<1>3. /\ calls'[n] \in Seq(Call)
      /\ \A j \in 1..Len(calls'[n]) : \E k \in 1..Len(calls[n]) : calls'[n][j] = calls[n][k]
  BY <1>1, <1>2, RemoveElements
<1>4. calls' \in [Node -> Seq(Call)]
  BY <1>1, <1>2, <1>3, ZenonT(60)
<1>5. \A k \in Node : \A j \in 1..Len(calls'[k]) :
         \E l \in 1..Len(calls[k]) : calls'[k][j] = calls[k][l]
  BY <1>2, <1>3
<1>6. VompTypeOK' /\ Growing
  BY <1>4, GrowingStutter, ZenonT(60) DEF Inv, VompTypeOK
<1>7. PICK d \in Call : d = calls[n][i] /\ CallInv(n, d)
  BY KnownCall, ZenonT(60)
<1>8. CallInv(n, d)'
  BY <1>6, <1>7, CallStable, ZenonT(60) DEF Inv, VompTypeOK
<1> QED BY <1>5, <1>6, <1>8, StepPreserves

\* vomp_process_tick() preserves the invariant.
LEMMA TickStep ==
    ASSUME Inv, NEW n \in Node, NEW i \in 1..Len(calls[n]), Tick(n, i)
    PROVE  Inv'
PROOF
<1>1. PICK c \in Call : c = calls[n][i] /\ CallInv(n, c)
  BY KnownCall, ZenonT(60)
<1>2. CASE TickExpired(n, i)
  <2>1. PICK b \in Call : b = update_local_state(c, CALLENDED)
    BY LocalState
  <2>2. /\ b.lstate = CALLENDED /\ b.peer = c.peer /\ b.rstate = c.rstate
        /\ b.lsession = c.lsession /\ b.rsession = c.rsession
        /\ b.initiated = c.initiated
    BY <2>1, LocalState DEF Call
  <2>3. PICK e \in Call : e = update_remote_state(b, CALLENDED)
    <3>1. update_remote_state(b, CALLENDED) \in Call
      BY DEF update_remote_state, Call
    <3> QED BY <3>1, ZenonT(60)
  <2>4. /\ e.lstate = b.lstate /\ e.peer = b.peer /\ e.lsession = b.lsession
        /\ e.rsession = b.rsession
    BY <2>3, ZenonT(60) DEF update_remote_state, Call
  <2>5. /\ net' = Sending(net, updateFrames(n, e))
        /\ calls' = [calls EXCEPT ![n] = Removed(@, i)]
        /\ UNCHANGED <<listening, lastSession, dialled, rung, answered>>
    BY <1>1, <1>2, <2>1, <2>3, ZenonT(60) DEF TickExpired
  <2>6. CallInv(n, b)'
    <3>1. CallInv(n, b)
      <4>1. ~(CALLENDED \in {CALLPREP, RINGINGOUT, RINGINGIN, INCALL})
        BY ONLY DEF CALLPREP, RINGINGOUT, RINGINGIN, INCALL, CALLENDED
      <4> HIDE DEF CALLPREP, RINGINGOUT, RINGINGIN, INCALL, CALLENDED
      <4> QED BY <1>1, <2>2, <4>1, ZenonT(60) DEF CallInv
    <3> QED BY <2>5, <3>1, ZenonT(60) DEF CallInv, Dialled
  <2>7. ASSUME NEW m \in net' PROVE m \in Frame /\ (m \in net \/ FrameInv(m)')
    <3>1. CASE m \in net
      BY <3>1, ZenonT(60) DEF Inv, VompTypeOK
    <3>2. CASE m = StatusFrame(n, e)
      <4>1. m \in Frame
        BY <3>2, StatusFrameType, ZenonT(60) DEF Inv
      <4>2. /\ m.src = n /\ m.dst = b.peer /\ m.sstate = b.lstate
            /\ m.ssession = b.lsession /\ m.rsession = b.rsession
        BY <2>4, <3>2, ZenonT(60) DEF StatusFrame
      <4>3. lastSession' \in Session
        BY <2>5, ZenonT(60) DEF Inv, VompTypeOK
      <4> QED BY <2>6, <4>1, <4>2, <4>3, FrameOfCall, ZenonT(60)
    <3> QED BY <2>5, <3>1, <3>2, Sent, ZenonT(60)
  <2> QED BY <2>5, <2>7, RemoveStep, ZenonT(60)
<1>3. CASE TickEnded(n, i)
  BY <1>3, RemoveStep, ZenonT(60) DEF TickEnded, Inv, VompTypeOK
<1>4. CASE TickAlive(n, i)
  <2>1. /\ calls' = [calls EXCEPT ![n] = Replace(@, i, updated(c))]
        /\ net' = Sending(net, {StatusFrame(n, c)})
        /\ UNCHANGED <<listening, lastSession, dialled, rung, answered>>
    BY <1>1, <1>4, ZenonT(60) DEF TickAlive
  <2>2. PICK d \in Call : d = updated(c)
    BY UpdatedFields, ZenonT(60)
  <2>3. d.peer = c.peer /\ d.lstate = c.lstate /\ d.lsession = c.lsession
        /\ d.rsession = c.rsession
    BY <2>2, UpdatedFields
  <2>4. CallInv(n, d)'
    BY <1>1, <2>1, <2>2, UpdatedFields, ZenonT(60) DEF CallInv, Dialled
  <2>5. \A m \in net' : m \in net \/ m = StatusFrame(n, c)
    BY <2>1, ZenonT(60) DEF Sending
  <2>6. Growing
    BY <2>1, GrowingStutter, ZenonT(60) DEF Inv
  <2> QED BY <2>1, <2>2, <2>3, <2>4, <2>5, <2>6, StoreAndSend, ZenonT(60) DEF Inv, VompTypeOK
<1> QED BY <1>2, <1>3, <1>4, ZenonT(60) DEF Tick

\* The passing of time preserves the invariant.
LEMMA ClockStep ==
    ASSUME Inv, NEW n \in Node, NEW i \in 1..Len(calls[n]),
           AgeCall(n, i) \/ IdleCall(n, i)
    PROVE  Inv'
PROOF
<1>1. PICK c \in Call : c = calls[n][i] /\ CallInv(n, c)
  BY KnownCall, ZenonT(60)
<1>2. UNCHANGED <<net, listening, lastSession, dialled, rung, answered>>
  BY ZenonT(60) DEF AgeCall, IdleCall
<1>3. PICK d \in Call :
        /\ calls' = [calls EXCEPT ![n] = Replace(@, i, d)]
        /\ d.peer = c.peer /\ d.lstate = c.lstate /\ d.rstate = c.rstate
        /\ d.lsession = c.lsession /\ d.rsession = c.rsession
        /\ d.initiated = c.initiated
  <2>1. CASE AgeCall(n, i)
    <3>1. c.age \in 0..1
      BY <1>1, <2>1 DEF AgeCall, Call
    <3>2. [c EXCEPT !.age = @ + 1] \in Call
      BY <3>1 DEF Call
    <3>3. calls' = [calls EXCEPT ![n] = Replace(@, i, [c EXCEPT !.age = @ + 1])]
      BY <1>1, <2>1, ZenonT(60) DEF AgeCall
    <3> QED BY <3>2, <3>3, ZenonT(60) DEF Call
  <2>2. CASE IdleCall(n, i)
    <3>1. [c EXCEPT !.idle = TRUE] \in Call
      BY ZenonT(60) DEF Call
    <3>2. calls' = [calls EXCEPT ![n] = Replace(@, i, [c EXCEPT !.idle = TRUE])]
      BY <1>1, <2>2, ZenonT(60) DEF IdleCall
    <3> QED BY <3>1, <3>2, ZenonT(60) DEF Call
  <2> QED BY <2>1, <2>2, ZenonT(60)
<1>4. CallInv(n, d)'
  BY <1>1, <1>2, <1>3, ZenonT(60) DEF CallInv, Dialled
<1>5. Growing
  BY <1>2, GrowingStutter, ZenonT(60) DEF Inv
<1> QED BY <1>2, <1>3, <1>4, <1>5, StoreAndSend, ZenonT(60) DEF Inv, VompTypeOK

-----------------------------------------------------------------------------
(* The theorems                                                             *)

\* Every step of every node, client, timer and of the mesh preserves Inv.
LEMMA NextStep ==
    ASSUME Inv, [VompNext]_vompVars
    PROVE  Inv'
PROOF
<1>1. CASE Network
  <2>1. PICK m \in net : ReceiveKnown(m.dst, m) \/ ReceiveNew(m.dst, m) \/ Drop(m)
    BY <1>1, ZenonT(60) DEF Network
  <2>2. CASE Drop(m)
    BY <2>2, QuietStep, ZenonT(60) DEF Drop, Inv, VompTypeOK
  <2> QED BY <2>1, <2>2, KnownStep, NewStep, ZenonT(60)
<1>2. ASSUME NEW n \in Node, TelephonyClient(n) PROVE Inv'
  <2>1. CASE ClientToggles(n)
    BY <2>1, QuietStep, ZenonT(60) DEF ClientToggles, Inv, VompTypeOK
  <2> QED BY <1>2, <2>1, DialStep, RingingStep, PickupStep, HangupStep, ZenonT(60) DEF TelephonyClient
<1>3. ASSUME NEW n \in Node, Timer(n) PROVE Inv'
  BY <1>3, TickStep, ClockStep, ZenonT(60) DEF Timer
<1>4. CASE UNCHANGED vompVars
  BY <1>4, QuietStep, ZenonT(60) DEF vompVars, Inv, VompTypeOK
<1> QED BY <1>1, <1>2, <1>3, <1>4, ZenonT(60) DEF VompNext

\* Inv holds in every reachable state, for any nodes, bounds and mesh.
THEOREM Invariance == VompSpec => []Inv
PROOF
<1>1. VompInit => Inv
  BY VompAssumption DEF VompInit, Inv, VompTypeOK, Session
<1> QED BY <1>1, NextStep, PTL DEF VompSpec

\* Every variable of the call protocol keeps its type.
THEOREM TypeCorrect == VompSpec => []VompTypeOK
BY Invariance, PTL DEF Inv

\* A caller is connected only to a session whose client picked up
\* (the INCALL cases of vomp_mdp_received()).
THEOREM AnsweredBeforeConnected == VompSpec => []CalledPartyAnswered
PROOF
<1>1. Inv => CalledPartyAnswered
  <2> SUFFICES ASSUME Inv, NEW n \in Node, NEW i \in 1..Len(calls[n]),
                      calls[n][i].initiated, calls[n][i].lstate = INCALL
               PROVE  <<calls[n][i].peer, calls[n][i].rsession>> \in answered
    BY ZenonT(60) DEF CalledPartyAnswered, Records
  <2>1. PICK c \in Call : c = calls[n][i] /\ CallInv(n, c)
    BY KnownCall, ZenonT(60)
  <2> QED BY <2>1, ZenonT(60) DEF CallInv
<1> QED BY <1>1, Invariance, PTL

\* A phone rings or answers only for a call that its caller's client placed
\* and that rang out to exactly this session, whatever frames are replayed.
THEOREM GenuineCalls == VompSpec => []OnlyGenuineCallsRing
PROOF
<1>1. Inv => OnlyGenuineCallsRing
  <2> SUFFICES ASSUME Inv, NEW n \in Node, NEW i \in 1..Len(calls[n]),
                      ~calls[n][i].initiated,
                      \/ calls[n][i].rstate = RINGINGOUT
                      \/ calls[n][i].lstate \in RINGINGOUT..INCALL
               PROVE  /\ <<calls[n][i].peer, calls[n][i].rsession>> \in dialled
                      /\ <<calls[n][i].peer, calls[n][i].rsession,
                           calls[n][i].lsession>> \in rung
    BY ZenonT(60) DEF OnlyGenuineCallsRing, Records
  <2>1. PICK c \in Call : c = calls[n][i] /\ CallInv(n, c)
    BY KnownCall
  <2>2. \/ c.rstate = RINGINGOUT
        \/ c.lstate = RINGINGIN
        \/ c.lstate = INCALL /\ ~c.initiated
    BY <2>1 DEF CallInv, Call
  <2> QED BY <2>1, <2>2, ZenonT(60) DEF CallInv, Dialled
<1> QED BY <1>1, Invariance, PTL

-----------------------------------------------------------------------------
(* The keyring file                                                         *)

Salt == Proc \cup {"none"}
NameOrNone == DidName \cup {"none", Garbled}

\* A page of the file, as it is read and written.
Record == [sid : Identity \cup {0}, pin : PIN, salt : Salt, name : NameOrNone]

\* The identities of a process, by their slots.
Loaded == UNION {[S -> Record] : S \in SUBSET Slot}

Ring == [at : {"idle", "open", "enter", "work", "page", "records"},
         cmd : {"none", "add", "set did", "seed"}, pin : PIN, bam : SUBSET Slot, salt : Salt,
         extent : SUBSET Slot, ids : Loaded, todo : SUBSET Slot]

\* Identities are loaded after the file was opened, from slots that are in use.
WellFormed(r) ==
    /\ DOMAIN r.ids \subseteq r.bam /\ r.todo \subseteq DOMAIN r.ids
    /\ r.at \in {"idle", "open", "enter"} => DOMAIN r.ids = {}

KeyringTypes ==
    /\ page \in [bam : SUBSET Slot, salt : Salt]
    /\ slot \in [Slot -> Record]
    /\ ring \in [Proc -> Ring]
    /\ created \in 0..MaxIdentity
    /\ kept \in [Identity -> [pin : PIN, names : SUBSET NameOrNone]]
    /\ \A p \in Proc : WellFormed(ring[p])

-----------------------------------------------------------------------------
(* Types                                                                    *)

\* A function from slots to records is what a process may have loaded.
LEMMA LoadedIntro ==
    ASSUME NEW S \in SUBSET Slot, NEW f \in [S -> Record] PROVE f \in Loaded
BY ZenonT(60) DEF Loaded

\* What a process has loaded is a function from slots to records.
LEMMA LoadedElim ==
    ASSUME NEW f \in Loaded
    PROVE  /\ DOMAIN f \subseteq Slot
           /\ \A s \in DOMAIN f : f[s] \in Record
           /\ f = [s \in DOMAIN f |-> f[s]]
PROOF
<1>1. PICK S \in SUBSET Slot : f \in [S -> Record]
  BY ZenonT(60) DEF Loaded
<1> QED BY <1>1, ZenonT(60)

\* The blank record and the idle process have their types.
LEMMA ConstantTypes ==
    /\ Blank \in Record
    /\ Idle \in Ring /\ DOMAIN Idle.ids = {} /\ Idle.todo = {} /\ Idle.at = "idle"
PROOF
<1>1. Blank \in Record
  BY KeyringAssumption, ZenonT(60) DEF Blank, Record, Salt, NameOrNone
<1>2. [s \in {} |-> Blank] \in Loaded
  <2>1. [s \in {} |-> Blank] \in [{} -> Record]
    BY ZenonT(60)
  <2> QED BY <2>1, LoadedIntro, ZenonT(60)
<1> QED BY <1>1, <1>2, KeyringAssumption, ZenonT(60) DEF Idle, Ring, Salt

\* The types hold of a new file.
LEMMA InitTypes == KeyringInit => KeyringTypes
PROOF
<1> SUFFICES ASSUME KeyringInit PROVE KeyringTypes
  BY ZenonT(60)
<1>1. page \in [bam : SUBSET Slot, salt : Salt]
  BY ZenonT(60) DEF KeyringInit, NewFile, Salt
<1>2. slot \in [Slot -> Record] /\ ring \in [Proc -> Ring]
  BY ConstantTypes, ZenonT(60) DEF KeyringInit
<1>3. created \in 0..MaxIdentity
  BY KeyringAssumption DEF KeyringInit
<1>4. kept \in [Identity -> [pin : PIN, names : SUBSET NameOrNone]]
  BY KeyringAssumption, ZenonT(60) DEF KeyringInit
<1>5. \A p \in Proc : WellFormed(ring[p])
  BY ConstantTypes, ZenonT(60) DEF KeyringInit, WellFormed
<1> QED BY <1>1, <1>2, <1>3, <1>4, <1>5, ZenonT(60) DEF KeyringTypes

\* A step that gives one process another state, and leaves the file, keeps the types.
LEMMA ProcessStep ==
    ASSUME KeyringTypes, NEW p \in Proc, NEW r \in Ring, WellFormed(r), ring' = [ring EXCEPT ![p] = r],
           UNCHANGED <<page, slot, created, kept>>
    PROVE  KeyringTypes'
BY ZenonT(60) DEF KeyringTypes

\* A command that ends keeps the types.
LEMMA EndTypes ==
    ASSUME KeyringTypes, NEW p \in Proc, ring' = [ring EXCEPT ![p] = Idle],
           UNCHANGED <<page, slot, created, kept>>
    PROVE  KeyringTypes'
BY ProcessStep, ConstantTypes, ZenonT(60) DEF WellFormed

\* A command that begins keeps the types.
LEMMA BeginTypes ==
    ASSUME KeyringTypes, NEW p \in Proc, NEW cmd \in {"add", "set did", "seed"}, NEW pin \in PIN,
           BeginCommand(p, cmd, pin)
    PROVE  KeyringTypes'
PROOF
<1> DEFINE r == [Idle EXCEPT !.at = "open", !.cmd = cmd, !.pin = pin]
<1>1. ring' = [ring EXCEPT ![p] = r] /\ UNCHANGED <<page, slot, created, kept>>
  BY ZenonT(60) DEF BeginCommand
<1>2. r \in Ring /\ WellFormed(r)
  BY ConstantTypes, ZenonT(60) DEF Ring, WellFormed
<1> HIDE DEF r
<1> QED BY <1>1, <1>2, ProcessStep, ZenonT(60)

\* keyring_open() keeps the types.
LEMMA OpenTypes == ASSUME KeyringTypes, NEW p \in Proc, keyring_open(p) PROVE KeyringTypes'
PROOF
<1>1. CASE page = NewFile
  BY <1>1 DEF keyring_open, KeyringTypes, Salt
<1>2. CASE page # NewFile
  <2> DEFINE r == [ring[p] EXCEPT !.at = "enter", !.bam = page.bam, !.salt = page.salt, !.extent = Extent]
  <2>1. ring' = [ring EXCEPT ![p] = r] /\ UNCHANGED <<page, slot, created, kept>>
    BY <1>2, ZenonT(60) DEF keyring_open, KeyringTypes, Ring
  <2>2. ring[p] \in Ring /\ WellFormed(ring[p]) /\ ring[p].at = "open"
    BY ZenonT(60) DEF keyring_open, KeyringTypes
  <2>3. Extent \in SUBSET Slot /\ page.bam \in SUBSET Slot /\ page.salt \in Salt
    BY ZenonT(60) DEF Extent, KeyringTypes
  <2>4. r \in Ring /\ WellFormed(r)
    BY <2>2, <2>3, ZenonT(60) DEF Ring, WellFormed
  <2> HIDE DEF r
  <2> QED BY <2>1, <2>4, ProcessStep, ZenonT(60)
<1> QED BY <1>1, <1>2, ZenonT(60)

\* keyring_enter_pin() keeps the types.
LEMMA EnterTypes == ASSUME KeyringTypes, NEW p \in Proc, keyring_enter_pin(p) PROVE KeyringTypes'
PROOF
<1> DEFINE pin == IF ring[p].cmd = "set did" THEN ring[p].pin ELSE NoPIN
           S   == {t \in ring[p].bam \cap ring[p].extent : Decrypts(t, ring[p].salt, pin)}
           ids == [s \in S |-> slot[s]]
           r   == [ring[p] EXCEPT !.at = "work", !.ids = ids]
<1>1. ring' = [ring EXCEPT ![p] = r] /\ UNCHANGED <<page, slot, created, kept>>
  BY ZenonT(60) DEF keyring_enter_pin, KeyringTypes, Ring
<1>2. ring[p] \in Ring /\ WellFormed(ring[p]) /\ ring[p].at = "enter"
  BY ZenonT(60) DEF keyring_enter_pin, KeyringTypes
<1>3. S \in SUBSET Slot /\ S \subseteq ring[p].bam
  BY <1>2, ZenonT(60) DEF Ring
<1>4. ids \in [S -> Record]
  BY <1>3, ZenonT(60) DEF KeyringTypes
<1>5. ids \in Loaded
  BY <1>3, <1>4, LoadedIntro, ZenonT(60)
<1> HIDE DEF S
<1>6. r \in Ring /\ WellFormed(r)
  BY <1>2, <1>3, <1>5, ZenonT(60) DEF Ring, WellFormed
<1> HIDE DEF r
<1> QED BY <1>1, <1>6, ProcessStep, ZenonT(60)

\* The identity that keyring_create_identity() makes, and the process that made it.
NewIdentity(r) ==
    [sid |-> created + 1, pin |-> IF r.cmd = "add" THEN r.pin ELSE NoPIN, salt |-> r.salt, name |-> "none"]
WithNew(r, s) ==
    [r EXCEPT !.at = "page", !.bam = Marked(r, s),
              !.ids = [t \in DOMAIN r.ids \cup {s} |-> IF t # s THEN r.ids[t] ELSE NewIdentity(r)]]

\* keyring_create_identity() takes a slot that its map has as free.
LEMMA CreateStep ==
    ASSUME KeyringTypes, NEW p \in Proc, keyring_create_identity(p)
    PROVE  /\ ring[p].at = "work" /\ created < MaxIdentity /\ created' = created + 1
           /\ UNCHANGED <<page, slot, kept>>
           /\ \E s \in Slot \ ring[p].bam : ring' = [ring EXCEPT ![p] = WithNew(ring[p], s)]
PROOF
<1> DEFINE r == ring[p]
           New(s) == [t \in DOMAIN r.ids \cup {s} |-> IF t # s THEN r.ids[t] ELSE NewIdentity(r)]
<1>1. PICK s \in Slot :
         /\ First(Free(r), s)
         /\ ring' = [ring EXCEPT ![p].at = "page", ![p].bam = Marked(r, s), ![p].ids = New(s)]
  BY ZenonT(60) DEF keyring_create_identity, NewIdentity
<1>2. s \in Slot \ r.bam
  BY <1>1, ZenonT(60) DEF First, Free
<1>3. ring' = [ring EXCEPT ![p] = WithNew(r, s)]
  <2>1. WithNew(r, s) = [r EXCEPT !.at = "page", !.bam = Marked(r, s), !.ids = New(s)]
    BY ZenonT(60) DEF WithNew
  <2> HIDE DEF New
  <2> QED BY <1>1, <2>1, ZenonT(60) DEF KeyringTypes, Ring
<1>4. /\ ring[p].at = "work" /\ created < MaxIdentity /\ created' = created + 1
      /\ UNCHANGED <<page, slot, kept>>
  BY ZenonT(60) DEF keyring_create_identity
<1> QED BY <1>2, <1>3, <1>4, ZenonT(60)

\* A process with a new identity is a process.
LEMMA WithNewTypes ==
    ASSUME KeyringTypes, NEW p \in Proc, created < MaxIdentity, ring[p].at = "work", NEW s \in Slot
    PROVE  WithNew(ring[p], s) \in Ring /\ WellFormed(WithNew(ring[p], s))
PROOF
<1> DEFINE r   == ring[p]
           S   == DOMAIN r.ids \cup {s}
           ids == [t \in S |-> IF t # s THEN r.ids[t] ELSE NewIdentity(r)]
<1>1. r \in Ring /\ WellFormed(r)
  BY ZenonT(60) DEF KeyringTypes
<1>2. r.ids \in Loaded
  BY <1>1, ZenonT(60) DEF Ring
<1>3. S \in SUBSET Slot
  BY <1>2, LoadedElim, ZenonT(60)
<1>4. NewIdentity(r) \in Record
  <2>1. created + 1 \in Identity
    BY KeyringAssumption DEF KeyringTypes, Identity
  <2>2. r.pin \in PIN /\ r.salt \in Salt
    BY <1>1, ZenonT(60) DEF Ring
  <2> HIDE DEF r
  <2> QED BY <2>1, <2>2, KeyringAssumption, ZenonT(60) DEF NewIdentity, Record, NameOrNone
<1>5. ids \in [S -> Record]
  BY <1>2, <1>4, LoadedElim, ZenonT(60)
<1>6. ids \in Loaded
  BY <1>3, <1>5, LoadedIntro, ZenonT(60)
<1>7. WithNew(r, s) = [r EXCEPT !.at = "page", !.bam = r.bam \cup {s}, !.ids = ids]
  BY ZenonT(60) DEF WithNew, Marked
<1>8. DOMAIN ids = S
  BY ZenonT(60)
<1> HIDE DEF ids, r
<1>9. WithNew(r, s) \in Ring
  <2>1. r.bam \cup {s} \in SUBSET Slot
    BY <1>1, ZenonT(60) DEF Ring
  <2> QED BY <1>1, <1>6, <1>7, <2>1, ZenonT(60) DEF Ring
<1>10. WellFormed(WithNew(r, s))
  BY <1>1, <1>7, <1>8, ZenonT(60) DEF Ring, WellFormed
<1> QED BY <1>9, <1>10, ZenonT(60) DEF r

\* keyring_create_identity() keeps the types.
LEMMA CreateTypes == ASSUME KeyringTypes, NEW p \in Proc, keyring_create_identity(p) PROVE KeyringTypes'
PROOF
<1>1. PICK s \in Slot \ ring[p].bam : ring' = [ring EXCEPT ![p] = WithNew(ring[p], s)]
  BY CreateStep, ZenonT(60)
<1>2. WithNew(ring[p], s) \in Ring /\ WellFormed(WithNew(ring[p], s))
  BY CreateStep, WithNewTypes, ZenonT(60)
<1>3. created' \in 0..MaxIdentity /\ UNCHANGED <<page, slot, kept>>
  <2>1. created \in 0..MaxIdentity /\ MaxIdentity \in Nat
    BY KeyringAssumption, ZenonT(60) DEF KeyringTypes
  <2>2. created < MaxIdentity /\ created' = created + 1 /\ UNCHANGED <<page, slot, kept>>
    BY CreateStep, ZenonT(60)
  <2> QED BY <2>1, <2>2
<1> QED BY <1>1, <1>2, <1>3, ZenonT(60) DEF KeyringTypes

\* A process that has given an identity another name.
Renamed(r, s, n) == [r EXCEPT !.at = "page", !.ids[s].name = n]

\* A process with an identity renamed is a process, with its other identities as they were.
LEMMA RenamedTypes ==
    ASSUME NEW r \in Ring, WellFormed(r), r.at = "work", NEW s \in DOMAIN r.ids, NEW n \in NameOrNone
    PROVE  /\ Renamed(r, s, n) \in Ring /\ WellFormed(Renamed(r, s, n))
           /\ DOMAIN Renamed(r, s, n).ids = DOMAIN r.ids
           /\ \A t \in DOMAIN r.ids : Renamed(r, s, n).ids[t] =
                 IF t = s THEN [r.ids[s] EXCEPT !.name = n] ELSE r.ids[t]
PROOF
<1> DEFINE ids == [r.ids EXCEPT ![s].name = n]
<1>1. r.ids \in Loaded
  BY ZenonT(60) DEF Ring
<1>2. DOMAIN r.ids \in SUBSET Slot /\ r.ids \in [DOMAIN r.ids -> Record] /\ r.ids[s] \in Record
  BY <1>1, LoadedElim, ZenonT(60)
<1>3. [r.ids[s] EXCEPT !.name = n] \in Record
  BY <1>2, ZenonT(60) DEF Record
<1>4. /\ DOMAIN ids = DOMAIN r.ids
      /\ \A t \in DOMAIN r.ids : ids[t] = IF t = s THEN [r.ids[s] EXCEPT !.name = n] ELSE r.ids[t]
  BY <1>2, ZenonT(60)
<1>5. ids \in [DOMAIN r.ids -> Record]
  BY <1>2, <1>3, ZenonT(60)
<1>6. ids \in Loaded
  BY <1>2, <1>5, LoadedIntro, ZenonT(60)
<1>7. Renamed(r, s, n) = [r EXCEPT !.at = "page", !.ids = ids]
  BY ZenonT(60) DEF Renamed, Ring
<1> HIDE DEF ids
<1>8. Renamed(r, s, n) \in Ring /\ Renamed(r, s, n).ids = ids
  BY <1>6, <1>7, ZenonT(60) DEF Ring
<1>9. WellFormed(Renamed(r, s, n))
  BY <1>4, <1>7, ZenonT(60) DEF Ring, WellFormed
<1> QED BY <1>4, <1>8, <1>9, ZenonT(60)

KeptType == [Identity -> [pin : PIN, names : SUBSET NameOrNone]]

\* keyring_set_did() renames an identity of the process, or the command ends.
LEMMA SetDidStep ==
    ASSUME KeyringTypes, NEW p \in Proc, keyring_set_did(p)
    PROVE  /\ ring[p].at = "work" /\ UNCHANGED <<page, slot, created>>
           /\ \/ ring' = [ring EXCEPT ![p] = Idle] /\ kept' = kept
              \/ \E s \in DOMAIN ring[p].ids, n \in DidName :
                    /\ ring' = [ring EXCEPT ![p] = Renamed(ring[p], s, n)]
                    /\ kept' = [kept EXCEPT ![ring[p].ids[s].sid].names =
                                   IF @ = {} THEN {} ELSE @ \cup {n}]
PROOF
<1>1. ring[p].at = "work" /\ UNCHANGED <<page, slot, created>>
  BY ZenonT(60) DEF keyring_set_did
<1>2. CASE ring' = [ring EXCEPT ![p] = Idle] /\ kept' = kept
  BY <1>1, <1>2
<1>3. CASE ~(ring' = [ring EXCEPT ![p] = Idle] /\ kept' = kept)
  <2>1. PICK s \in DOMAIN ring[p].ids, n \in DidName :
           /\ ring' = [ring EXCEPT ![p].at = "page", ![p].ids[s].name = n]
           /\ kept' = [kept EXCEPT ![ring[p].ids[s].sid].names = IF @ = {} THEN {} ELSE @ \cup {n}]
    BY <1>3, ZenonT(60) DEF keyring_set_did
  <2>2. ring' = [ring EXCEPT ![p] = Renamed(ring[p], s, n)]
    BY <2>1, ZenonT(60) DEF KeyringTypes, Ring, Renamed
  <2> QED BY <1>1, <2>1, <2>2, ZenonT(60)
<1> QED BY <1>2, <1>3, ZenonT(60)

\* keyring_set_did() keeps the types.
LEMMA SetDidTypes == ASSUME KeyringTypes, NEW p \in Proc, keyring_set_did(p) PROVE KeyringTypes'
PROOF
<1>1. CASE ring' = [ring EXCEPT ![p] = Idle] /\ kept' = kept
  BY <1>1, SetDidStep, EndTypes, ZenonT(60)
<1>2. ASSUME NEW s \in DOMAIN ring[p].ids, NEW n \in DidName,
             ring' = [ring EXCEPT ![p] = Renamed(ring[p], s, n)],
             kept' = [kept EXCEPT ![ring[p].ids[s].sid].names = IF @ = {} THEN {} ELSE @ \cup {n}]
      PROVE  KeyringTypes'
  <2>1. ring[p] \in Ring /\ WellFormed(ring[p]) /\ ring[p].at = "work"
    BY SetDidStep, ZenonT(60) DEF KeyringTypes
  <2>2. Renamed(ring[p], s, n) \in Ring /\ WellFormed(Renamed(ring[p], s, n))
    BY <2>1, RenamedTypes, ZenonT(60) DEF NameOrNone
  <2>3. kept \in KeptType
    BY ZenonT(60) DEF KeyringTypes, KeptType
  <2>4. kept' \in KeptType
    BY <1>2, <2>3, ZenonT(60) DEF KeptType, NameOrNone
  <2> QED BY <1>2, <2>2, <2>4, SetDidStep, ZenonT(60) DEF KeyringTypes, KeptType
<1>3. CASE ~(ring' = [ring EXCEPT ![p] = Idle] /\ kept' = kept)
  <2>1. PICK s \in DOMAIN ring[p].ids, n \in DidName :
           /\ ring' = [ring EXCEPT ![p] = Renamed(ring[p], s, n)]
           /\ kept' = [kept EXCEPT ![ring[p].ids[s].sid].names = IF @ = {} THEN {} ELSE @ \cup {n}]
    BY <1>3, SetDidStep, ZenonT(60)
  <2> QED BY <1>2, <2>1, ZenonT(60)
<1> QED BY <1>1, <1>3, ZenonT(60)

\* Writing a page of keyring_commit() keeps the types.
LEMMA WritePageTypes == ASSUME KeyringTypes, NEW p \in Proc, WritePage(p) PROVE KeyringTypes'
PROOF
<1> DEFINE r == [ring[p] EXCEPT !.at = "records", !.todo = DOMAIN ring[p].ids]
<1>1. ring[p] \in Ring /\ WellFormed(ring[p]) /\ ring[p].ids \in Loaded
  BY ZenonT(60) DEF KeyringTypes, Ring
<1>2. DOMAIN ring[p].ids \in SUBSET Slot
  BY <1>1, LoadedElim, ZenonT(60)
<1>3. r \in Ring /\ WellFormed(r)
  BY <1>1, <1>2, ZenonT(60) DEF Ring, WellFormed
<1>4. ring' = [ring EXCEPT ![p] = r]
  BY ZenonT(60) DEF WritePage, KeyringTypes, Ring
<1>5. page' \in [bam : SUBSET Slot, salt : Salt]
  BY <1>1, ZenonT(60) DEF WritePage, Ring
<1>6. UNCHANGED <<slot, created, kept>>
  BY ZenonT(60) DEF WritePage
<1> HIDE DEF r
<1> QED BY <1>3, <1>4, <1>5, <1>6, ZenonT(60) DEF KeyringTypes

\* A record of the process is a record of the file.
LEMMA PackedTypes ==
    ASSUME NEW r \in Ring, NEW id \in Record PROVE Packed(r, id) \in Record
BY ZenonT(60) DEF Packed, Ring, Record, NameOrNone

\* Writing a record of keyring_commit() keeps the types.
LEMMA WriteRecordTypes == ASSUME KeyringTypes, NEW p \in Proc, WriteRecord(p) PROVE KeyringTypes'
PROOF
<1>1. PICK s \in Slot :
         /\ First(ring[p].todo, s)
         /\ slot' = [slot EXCEPT ![s] = Packed(ring[p], ring[p].ids[s])]
         /\ ring' = [ring EXCEPT ![p].todo = @ \ {s}]
  BY ZenonT(60) DEF WriteRecord
<1> DEFINE r == [ring[p] EXCEPT !.todo = @ \ {s}]
<1>2. ring[p] \in Ring /\ WellFormed(ring[p]) /\ ring[p].ids \in Loaded
  BY ZenonT(60) DEF KeyringTypes, Ring
<1>3. s \in DOMAIN ring[p].ids
  BY <1>1, <1>2, ZenonT(60) DEF First, WellFormed
<1>4. ring[p].ids[s] \in Record
  BY <1>2, <1>3, LoadedElim, ZenonT(60)
<1>5. slot' \in [Slot -> Record]
  BY <1>1, <1>2, <1>4, PackedTypes, ZenonT(60) DEF KeyringTypes
<1>6. r \in Ring /\ WellFormed(r)
  BY <1>2, ZenonT(60) DEF Ring, WellFormed
<1>7. ring' = [ring EXCEPT ![p] = r]
  BY <1>1, ZenonT(60) DEF KeyringTypes, Ring
<1> HIDE DEF r
<1> QED BY <1>5, <1>6, <1>7, ZenonT(60) DEF WriteRecord, KeyringTypes

\* What FinishCommand() makes of the identities the users were told of.
LEMMA FinishStep ==
    ASSUME KeyringTypes, NEW p \in Proc, FinishCommand(p)
    PROVE  /\ ring[p].at = "records" /\ ring[p].todo = {} /\ ring' = [ring EXCEPT ![p] = Idle]
           /\ UNCHANGED <<page, slot, created>>
           /\ kept' \in KeptType
           /\ \A i \in Identity :
                \/ \E s \in DOMAIN ring[p].ids :
                      /\ ring[p].ids[s].sid = i
                      /\ kept'[i] = [pin |-> ring[p].ids[s].pin, names |-> {ring[p].ids[s].name}]
                \/ /\ \A s \in DOMAIN ring[p].ids : ring[p].ids[s].sid # i
                   /\ kept'[i] = kept[i]
PROOF
<1> DEFINE ids == ring[p].ids
           pick(i) == CHOOSE s \in DOMAIN ids : ids[s].sid = i
           new(i) == IF \E s \in DOMAIN ids : ids[s].sid = i
                     THEN [pin |-> ids[pick(i)].pin, names |-> {ids[pick(i)].name}]
                     ELSE kept[i]
<1>1. /\ ring[p].at = "records" /\ ring[p].todo = {} /\ ring' = [ring EXCEPT ![p] = Idle]
      /\ UNCHANGED <<page, slot, created>>
      /\ kept' = [i \in Identity |-> new(i)]
  BY ZenonT(60) DEF FinishCommand
<1>2. ids \in Loaded
  BY ZenonT(60) DEF KeyringTypes, Ring
<1>3. ASSUME NEW i \in Identity
      PROVE  /\ new(i) \in [pin : PIN, names : SUBSET NameOrNone]
             /\ \/ \E s \in DOMAIN ids :
                      ids[s].sid = i /\ new(i) = [pin |-> ids[s].pin, names |-> {ids[s].name}]
                \/ (\A s \in DOMAIN ids : ids[s].sid # i) /\ new(i) = kept[i]
  <2>1. CASE \E s \in DOMAIN ids : ids[s].sid = i
    <3>1. pick(i) \in DOMAIN ids /\ ids[pick(i)].sid = i
      BY <2>1, ZenonT(60)
    <3>2. new(i) = [pin |-> ids[pick(i)].pin, names |-> {ids[pick(i)].name}]
      BY <2>1, ZenonT(60)
    <3>3. ids[pick(i)] \in Record
      BY <1>2, <3>1, LoadedElim, ZenonT(60)
    <3> HIDE DEF pick, ids
    <3>4. new(i) \in [pin : PIN, names : SUBSET NameOrNone]
      BY <3>2, <3>3 DEF Record
    <3> QED BY <3>1, <3>2, <3>4, ZenonT(60)
  <2>2. CASE \A s \in DOMAIN ids : ids[s].sid # i
    <3>1. new(i) = kept[i]
      BY <2>2, ZenonT(60)
    <3>2. kept[i] \in [pin : PIN, names : SUBSET NameOrNone]
      BY ZenonT(60) DEF KeyringTypes
    <3> QED BY <2>2, <3>1, <3>2, ZenonT(60)
  <2> QED BY <2>1, <2>2, ZenonT(60)
<1> HIDE DEF new
<1>4. kept' \in KeptType
  BY <1>1, <1>3, ZenonT(60) DEF KeptType
<1>5. \A i \in Identity : kept'[i] = new(i)
  BY <1>1, ZenonT(60)
<1> QED BY <1>1, <1>3, <1>4, <1>5, ZenonT(60)

\* The end of keyring_commit() keeps the types.
LEMMA FinishTypes == ASSUME KeyringTypes, NEW p \in Proc, FinishCommand(p) PROVE KeyringTypes'
PROOF
<1>1. Idle \in Ring /\ WellFormed(Idle)
  BY ConstantTypes, ZenonT(60) DEF WellFormed
<1> QED BY <1>1, FinishStep, ZenonT(60) DEF KeyringTypes, KeptType

\* Every variable keeps its type, however many processes use the file at a time.
THEOREM KeyringTypeInvariance == KeyringSpec => []KeyringTypes
PROOF
<1>1. KeyringTypes /\ [KeyringNext]_keyringVars => KeyringTypes'
  <2> SUFFICES ASSUME KeyringTypes, [KeyringNext]_keyringVars PROVE KeyringTypes'
    BY ZenonT(60)
  <2>1. CASE UNCHANGED keyringVars
    BY <2>1, ZenonT(60) DEF keyringVars, KeyringTypes
  <2>2. ASSUME NEW p \in Proc, NEW pin \in PIN,
               BeginCommand(p, "add", pin) \/ BeginCommand(p, "set did", pin)
        PROVE  KeyringTypes'
    BY <2>2, BeginTypes, ZenonT(60)
  <2>3. ASSUME NEW p \in Proc, BeginCommand(p, "seed", NoPIN) PROVE KeyringTypes'
    BY <2>3, BeginTypes, KeyringAssumption, ZenonT(60)
  <2>4. ASSUME NEW p \in Proc, CreateFails(p) \/ SeedNothing(p) \/ Killed(p) PROVE KeyringTypes'
    BY <2>4, EndTypes, ZenonT(60) DEF CreateFails, SeedNothing, Killed
  <2> QED BY <2>1, <2>2, <2>3, <2>4, OpenTypes, EnterTypes, CreateTypes, SetDidTypes, WritePageTypes,
             WriteRecordTypes, FinishTypes, ZenonT(60) DEF KeyringNext
<1> QED BY <1>1, InitTypes, PTL DEF KeyringSpec

\* The types that TLC checks: slots and identities stay within their bounds, and a
\* process has loaded identities only from slots that its map marks as used.
THEOREM KeyringTypeCorrect == KeyringSpec => []KeyringTypeOK
PROOF
<1>1. KeyringTypes => KeyringTypeOK
  BY ZenonT(60) DEF KeyringTypes, KeyringTypeOK, WellFormed, Ring, Record
<1> QED BY <1>1, KeyringTypeInvariance, PTL

-----------------------------------------------------------------------------
(* One command at a time                                                    *)

CommandRuns(p) == ring[p] # Idle

\* What is in the file: each identity once, in a slot that is marked as used, under
\* the one salt; and those that were kept, with their PIN and a name they may have.
FileInv ==
    /\ \A s \in Slot : slot[s] # Blank =>
         s \in page.bam /\ slot[s].salt = page.salt /\ slot[s].sid \in 1..created
    /\ \A s, t \in Slot : slot[s] # Blank /\ slot[t] # Blank /\ slot[s].sid = slot[t].sid => s = t
    /\ \A i \in Identity : kept[i].names # {} =>
         \E s \in Slot : /\ slot[s] # Blank /\ slot[s].sid = i
                         /\ slot[s].pin = kept[i].pin /\ slot[s].name \in kept[i].names

\* A process has the salt of the file and, until it marks another slot, the map.
PageInv(r) ==
    /\ r.at \in {"enter", "work", "page", "records"} => page # NewFile /\ r.salt = page.salt
    /\ r.at \in {"enter", "work", "records"} => r.bam = page.bam
    /\ r.at = "page" => page.bam \subseteq r.bam

\* An identity that a process has in slot s is the one in that slot, unless it is
\* new and in no slot at all; its name is one that it may have, and once it is
\* written it is what the slot holds.
IdentityInv(r, s) ==
    LET id == r.ids[s] IN
    /\ id.sid \in 1..created
    /\ slot[s] # Blank => slot[s].sid = id.sid /\ slot[s].pin = id.pin
    /\ slot[s] = Blank => \A t \in Slot : slot[t].sid # id.sid
    /\ kept[id.sid].names # {} => id.name \in kept[id.sid].names
    /\ r.at = "records" /\ s \notin r.todo => slot[s] # Blank /\ slot[s].name = id.name

RunningInv(r) ==
    /\ PageInv(r)
    /\ \A s \in DOMAIN r.ids : IdentityInv(r, s)
    /\ \A s, t \in DOMAIN r.ids : r.ids[s].sid = r.ids[t].sid => s = t

\* The inductive invariant.
KeepInv ==
    /\ FileInv
    /\ \A p, q \in Proc : CommandRuns(p) /\ CommandRuns(q) => p = q
    /\ \A p \in Proc : CommandRuns(p) => RunningInv(ring[p])

\* A command that runs is the only one.
LEMMA OthersIdle ==
    ASSUME KeepInv, NEW p \in Proc, CommandRuns(p)
    PROVE  \A q \in Proc : q # p => ring[q] = Idle
BY ZenonT(60) DEF KeepInv, CommandRuns

\* So it is enough to look at the file and at that one process.
LEMMA OneCommand ==
    ASSUME NEW p \in Proc, \A q \in Proc : q # p => ring'[q] = Idle,
           FileInv', ring'[p] # Idle => RunningInv(ring[p])'
    PROVE  KeepInv'
BY ZenonT(60) DEF KeepInv, CommandRuns

\* The end of a command, or its death.
LEMMA EndKeeps ==
    ASSUME KeyringTypes, KeepInv, NEW p \in Proc, CommandRuns(p), ring' = [ring EXCEPT ![p] = Idle],
           UNCHANGED <<page, slot, created, kept>>
    PROVE  KeepInv'
PROOF
<1>1. FileInv'
  BY ZenonT(60) DEF KeepInv, FileInv
<1>2. \A q \in Proc : ring'[q] = Idle
  BY OthersIdle, ZenonT(60) DEF KeyringTypes
<1> QED BY <1>1, <1>2, OneCommand, ZenonT(60)

\* A process that is not idle runs a command.
LEMMA RunningAt ==
    ASSUME NEW p \in Proc, ring[p].at # "idle"
    PROVE  CommandRuns(p)
BY ConstantTypes, ZenonT(60) DEF CommandRuns

\* A command that begins when no other runs keeps the identities.
LEMMA BeginKeeps ==
    ASSUME KeyringTypes, KeepInv, Solo, NEW p \in Proc, NEW cmd, NEW pin, BeginCommand(p, cmd, pin)
    PROVE  KeepInv'
PROOF
<1> DEFINE r == [Idle EXCEPT !.at = "open", !.cmd = cmd, !.pin = pin]
<1>1. \A q \in Proc : ring[q] = Idle
  BY ZenonT(60) DEF BeginCommand
<1>2. ring' = [ring EXCEPT ![p] = r] /\ UNCHANGED <<page, slot, created, kept>>
  BY ZenonT(60) DEF BeginCommand
<1>3. r.at = "open" /\ DOMAIN r.ids = {}
  BY ConstantTypes, ZenonT(60) DEF Ring
<1> HIDE DEF r
<1>4. ring'[p] = r /\ \A q \in Proc : q # p => ring'[q] = Idle
  BY <1>1, <1>2, ZenonT(60) DEF KeyringTypes
<1>5. FileInv'
  BY <1>2, ZenonT(60) DEF KeepInv, FileInv
<1>6. RunningInv(ring[p])'
  BY <1>3, <1>4, ZenonT(60) DEF RunningInv, PageInv
<1> QED BY <1>4, <1>5, <1>6, OneCommand, ZenonT(60)

\* keyring_open() keeps the identities: the map it reads has all that are in the file.
LEMMA OpenKeeps == ASSUME KeyringTypes, KeepInv, NEW p \in Proc, keyring_open(p) PROVE KeepInv'
PROOF
<1>1. ring[p].at = "open" /\ UNCHANGED <<slot, created, kept>> /\ DOMAIN ring[p].ids = {} /\ ring[p] \in Ring
  BY ZenonT(60) DEF keyring_open, KeyringTypes, WellFormed
<1>2. \A q \in Proc : q # p => ring[q] = Idle
  BY <1>1, RunningAt, OthersIdle, ZenonT(60)
<1>3. CASE page = NewFile
  <2>1. ring' = ring
    BY <1>3, ZenonT(60) DEF keyring_open
  <2>2. \A s \in Slot : slot[s] = Blank
    BY <1>3, ZenonT(60) DEF KeepInv, FileInv, NewFile
  <2>3. FileInv'
    BY <1>1, <2>2, ZenonT(60) DEF KeepInv, FileInv
  <2>4. RunningInv(ring[p])'
    BY <1>1, <2>1, ZenonT(60) DEF RunningInv, PageInv
  <2> QED BY <1>2, <2>1, <2>3, <2>4, OneCommand, ZenonT(60)
<1>4. CASE page # NewFile
  <2>1. /\ page' = page
        /\ ring' = [ring EXCEPT ![p].at = "enter", ![p].bam = page.bam,
                                ![p].salt = page.salt, ![p].extent = Extent]
    BY <1>4, ZenonT(60) DEF keyring_open
  <2>2. /\ ring'[p].at = "enter" /\ ring'[p].bam = page.bam /\ ring'[p].salt = page.salt
        /\ ring'[p].ids = ring[p].ids
        /\ \A q \in Proc : q # p => ring'[q] = Idle
    BY <1>1, <1>2, <2>1, ZenonT(60) DEF KeyringTypes, Ring
  <2>3. FileInv'
    BY <1>1, <2>1, ZenonT(60) DEF KeepInv, FileInv
  <2>4. RunningInv(ring[p])'
    BY <1>1, <1>4, <2>1, <2>2, ZenonT(60) DEF RunningInv, PageInv, NewFile
  <2> QED BY <2>2, <2>3, <2>4, OneCommand, ZenonT(60)
<1> QED BY <1>3, <1>4, ZenonT(60)

\* What is read from the file is an identity that may be kept.
LEMMA EnterKeeps == ASSUME KeyringTypes, KeepInv, NEW p \in Proc, keyring_enter_pin(p) PROVE KeepInv'
PROOF
<1> DEFINE pin == IF ring[p].cmd = "set did" THEN ring[p].pin ELSE NoPIN
           S   == {t \in ring[p].bam \cap ring[p].extent : Decrypts(t, ring[p].salt, pin)}
           ids == [s \in S |-> slot[s]]
<1>1. ring[p].at = "enter" /\ UNCHANGED <<page, slot, created, kept>> /\ ring[p] \in Ring
  BY ZenonT(60) DEF keyring_enter_pin, KeyringTypes
<1>2. RunningInv(ring[p]) /\ \A q \in Proc : q # p => ring[q] = Idle
  BY <1>1, RunningAt, OthersIdle, ZenonT(60) DEF KeepInv
<1>3. ring' = [ring EXCEPT ![p].at = "work", ![p].ids = ids]
  BY ZenonT(60) DEF keyring_enter_pin
<1>4. /\ S \subseteq Slot /\ DOMAIN ids = S
      /\ \A s \in S : ids[s] = slot[s] /\ slot[s] # Blank
  BY <1>1, ZenonT(60) DEF Decrypts, Ring
<1> HIDE DEF S, ids
<1>5. /\ ring'[p].at = "work" /\ ring'[p].ids = ids
      /\ ring'[p].bam = ring[p].bam /\ ring'[p].salt = ring[p].salt
      /\ \A q \in Proc : q # p => ring'[q] = Idle
  BY <1>1, <1>2, <1>3, ZenonT(60) DEF KeyringTypes, Ring
<1>6. FileInv /\ FileInv'
  BY <1>1, ZenonT(60) DEF KeepInv, FileInv
<1>7. PageInv(ring[p])'
  BY <1>1, <1>2, <1>5, ZenonT(60) DEF RunningInv, PageInv
<1>8. ASSUME NEW s \in S PROVE IdentityInv(ring[p], s)'
  <2>1. slot[s].sid \in 1..created /\ slot[s].sid \in Identity
    BY <1>4, <1>6, KeyringAssumption DEF FileInv, KeyringTypes, Identity
  <2>2. kept[slot[s].sid].names # {} => slot[s].name \in kept[slot[s].sid].names
    BY <1>4, <1>6, <2>1 DEF FileInv
  <2> QED BY <1>1, <1>4, <1>5, <2>1, <2>2, ZenonT(60) DEF IdentityInv
<1>9. \A s, t \in S : ids[s].sid = ids[t].sid => s = t
  BY <1>4, <1>6 DEF FileInv
<1>10. RunningInv(ring[p])'
  BY <1>4, <1>5, <1>7, <1>8, <1>9, ZenonT(60) DEF RunningInv
<1> QED BY <1>5, <1>6, <1>10, OneCommand, ZenonT(60)

\* A new identity takes a slot that is blank and a number that no slot has.
LEMMA CreateKeeps == ASSUME KeyringTypes, KeepInv, NEW p \in Proc, keyring_create_identity(p) PROVE KeepInv'
PROOF
<1> DEFINE r == ring[p]
<1>1. PICK s \in Slot \ r.bam : ring' = [ring EXCEPT ![p] = WithNew(r, s)]
  BY CreateStep, ZenonT(60)
<1>2. /\ r.at = "work" /\ created < MaxIdentity /\ created' = created + 1 /\ created \in Nat
      /\ UNCHANGED <<page, slot, kept>> /\ r \in Ring
  BY CreateStep DEF KeyringTypes
<1>3. FileInv /\ RunningInv(r) /\ \A q \in Proc : q # p => ring[q] = Idle
  BY <1>2, RunningAt, OthersIdle, ZenonT(60) DEF KeepInv
<1>4. slot[s] = Blank
  BY <1>1, <1>2, <1>3, ZenonT(60) DEF FileInv, RunningInv, PageInv
<1>5. \A t \in Slot : slot[t].sid # created + 1
  BY <1>2, <1>3 DEF FileInv, Blank
<1>6. created + 1 \in Identity /\ kept[created + 1].names = {}
  BY <1>2, <1>3, <1>5, KeyringAssumption DEF FileInv, Identity
<1>7. /\ WithNew(r, s).at = "page" /\ WithNew(r, s).salt = r.salt /\ WithNew(r, s).bam = r.bam \cup {s}
      /\ DOMAIN WithNew(r, s).ids = DOMAIN r.ids \cup {s}
      /\ \A t \in DOMAIN r.ids \cup {s} :
            WithNew(r, s).ids[t] = IF t # s THEN r.ids[t] ELSE NewIdentity(r)
      /\ NewIdentity(r).sid = created + 1
  BY <1>2, ZenonT(60) DEF WithNew, Marked, Ring, NewIdentity
<1>8. /\ ring'[p] = WithNew(r, s)
      /\ \A q \in Proc : q # p => ring'[q] = Idle
  BY <1>1, <1>3, ZenonT(60) DEF KeyringTypes
<1>9. s \notin DOMAIN r.ids
  BY <1>1, ZenonT(60) DEF KeyringTypes, WellFormed
<1>10. FileInv'
  BY <1>2, <1>3 DEF FileInv
<1>11. PageInv(ring[p])'
  BY <1>2, <1>3, <1>7, <1>8, ZenonT(60) DEF RunningInv, PageInv
<1>12. ASSUME NEW t \in DOMAIN r.ids \cup {s} PROVE IdentityInv(ring[p], t)'
  <2>1. CASE t = s
    <3>1. created + 1 \in 1..created'
      BY <1>2
    <3>2. WithNew(r, s).ids[s].sid = created + 1
      BY <1>7, ZenonT(60)
    <3> QED BY <1>2, <1>4, <1>5, <1>6, <1>7, <1>8, <2>1, <3>1, <3>2, ZenonT(60) DEF IdentityInv
  <2>2. CASE t # s
    <3>1. IdentityInv(r, t) /\ t \in DOMAIN r.ids
      BY <1>3, <2>2, ZenonT(60) DEF RunningInv
    <3>2. r.ids[t].sid \in 1..created
      BY <3>1, ZenonT(60) DEF IdentityInv
    <3>3. r.ids[t].sid \in 1..created'
      BY <1>2, <3>2
    <3> QED BY <1>2, <1>7, <1>8, <2>2, <3>1, <3>3, ZenonT(60) DEF IdentityInv
  <2> QED BY <2>1, <2>2, ZenonT(60)
<1>13. \A t \in DOMAIN r.ids : r.ids[t].sid \in 1..created
  BY <1>3, ZenonT(60) DEF RunningInv, IdentityInv
<1>14. \A t, u \in DOMAIN r.ids : r.ids[t].sid = r.ids[u].sid => t = u
  BY <1>3, ZenonT(60) DEF RunningInv
<1>15. ASSUME NEW t \in DOMAIN r.ids \cup {s}, NEW u \in DOMAIN r.ids \cup {s},
              WithNew(r, s).ids[t].sid = WithNew(r, s).ids[u].sid
       PROVE  t = u
  BY <1>2, <1>7, <1>9, <1>13, <1>14, <1>15
<1>16. RunningInv(ring[p])'
  BY <1>7, <1>8, <1>11, <1>12, <1>15, ZenonT(60) DEF RunningInv
<1> QED BY <1>8, <1>10, <1>16, OneCommand, ZenonT(60)

\* A name that is being set is one the identity may have.
LEMMA SetDidKeeps == ASSUME KeyringTypes, KeepInv, NEW p \in Proc, keyring_set_did(p) PROVE KeepInv'
PROOF
<1> DEFINE r == ring[p]
<1>1. r.at = "work" /\ UNCHANGED <<page, slot, created>> /\ r \in Ring /\ WellFormed(r) /\ CommandRuns(p)
  BY SetDidStep, RunningAt, ZenonT(60) DEF KeyringTypes
<1>2. FileInv /\ RunningInv(r) /\ \A q \in Proc : q # p => ring[q] = Idle
  BY <1>1, OthersIdle, ZenonT(60) DEF KeepInv
<1>3. CASE ring' = [ring EXCEPT ![p] = Idle] /\ kept' = kept
  BY <1>1, <1>3, EndKeeps, ZenonT(60)
<1>4. CASE ~(ring' = [ring EXCEPT ![p] = Idle] /\ kept' = kept)
  <2>1. PICK s \in DOMAIN r.ids, n \in DidName :
           /\ ring' = [ring EXCEPT ![p] = Renamed(r, s, n)]
           /\ kept' = [kept EXCEPT ![r.ids[s].sid].names = IF @ = {} THEN {} ELSE @ \cup {n}]
    BY <1>4, SetDidStep, ZenonT(60)
  <2> DEFINE x == Renamed(r, s, n)
             sid == r.ids[s].sid
  <2>2. /\ DOMAIN x.ids = DOMAIN r.ids
        /\ \A t \in DOMAIN r.ids : x.ids[t] = IF t = s THEN [r.ids[s] EXCEPT !.name = n] ELSE r.ids[t]
    BY <1>1, RenamedTypes DEF NameOrNone
  <2>3. \A t \in DOMAIN r.ids : r.ids[t] \in Record /\ t \in Slot
    BY <1>1, LoadedElim, ZenonT(60) DEF Ring
  <2>4. \A t \in DOMAIN r.ids : x.ids[t].sid = r.ids[t].sid /\ x.ids[t].pin = r.ids[t].pin
    BY <2>2, <2>3, ZenonT(60) DEF Record
  <2>5. x.ids[s].name = n /\ \A t \in DOMAIN r.ids : t # s => x.ids[t].name = r.ids[t].name
    BY <2>2, <2>3, ZenonT(60) DEF Record
  <2>6. x.at = "page" /\ x.salt = r.salt /\ x.bam = r.bam
    BY <1>1, ZenonT(60) DEF Renamed, Ring
  <2>7. sid \in 1..created /\ \A i \in 1..created : i \in Identity
    <3>1. sid \in 1..created
      BY <1>2, ZenonT(60) DEF RunningInv, IdentityInv
    <3> QED BY <3>1, KeyringAssumption DEF KeyringTypes, Identity
  <2>8. /\ \A i \in Identity : i # sid => kept'[i] = kept[i]
        /\ kept'[sid].pin = kept[sid].pin
        /\ kept'[sid].names = IF kept[sid].names = {} THEN {} ELSE kept[sid].names \cup {n}
    BY <2>1, <2>7, ZenonT(60) DEF KeyringTypes
  <2>9. ring'[p] = x /\ \A q \in Proc : q # p => ring'[q] = Idle
    BY <1>2, <2>1, ZenonT(60) DEF KeyringTypes
  <2> HIDE DEF x
  <2>10. FileInv'
    <3>1. ASSUME NEW i \in Identity, kept'[i].names # {}
          PROVE  \E t \in Slot : /\ slot[t] # Blank /\ slot[t].sid = i
                                 /\ slot[t].pin = kept'[i].pin /\ slot[t].name \in kept'[i].names
      <4>1. kept[i].names # {} /\ kept'[i].pin = kept[i].pin /\ kept[i].names \subseteq kept'[i].names
        BY <2>8, <3>1, ZenonT(60)
      <4>2. PICK t \in Slot : /\ slot[t] # Blank /\ slot[t].sid = i
                              /\ slot[t].pin = kept[i].pin /\ slot[t].name \in kept[i].names
        BY <1>2, <4>1, ZenonT(60) DEF FileInv
      <4> QED BY <4>1, <4>2, ZenonT(60)
    <3> QED BY <1>1, <1>2, <3>1, ZenonT(60) DEF FileInv
  <2>11. PageInv(ring[p])'
    BY <1>1, <1>2, <2>6, <2>9, ZenonT(60) DEF RunningInv, PageInv
  <2>12. ASSUME NEW t \in DOMAIN r.ids PROVE IdentityInv(ring[p], t)'
    <3>1. IdentityInv(r, t) /\ r.ids[t].sid \in Identity
      BY <1>2, <2>7, ZenonT(60) DEF RunningInv, IdentityInv
    <3>2. t # s => r.ids[t].sid # sid
      BY <1>2, ZenonT(60) DEF RunningInv
    <3>3. kept'[r.ids[t].sid].names # {} => x.ids[t].name \in kept'[r.ids[t].sid].names
      <4>1. CASE t = s
        BY <2>5, <2>8, <4>1, ZenonT(60)
      <4>2. CASE t # s
        BY <2>5, <2>8, <3>1, <3>2, <4>2, ZenonT(60) DEF IdentityInv
      <4> QED BY <4>1, <4>2
    <3> QED BY <1>1, <2>4, <2>6, <2>9, <3>1, <3>3, ZenonT(60) DEF IdentityInv
  <2>13. RunningInv(ring[p])'
    BY <1>2, <2>2, <2>4, <2>9, <2>11, <2>12, ZenonT(60) DEF RunningInv
  <2> QED BY <2>9, <2>10, <2>13, OneCommand, ZenonT(60)
<1> QED BY <1>3, <1>4, ZenonT(60)

\* The page that is written has every slot that was marked before.
LEMMA WritePageKeeps == ASSUME KeyringTypes, KeepInv, NEW p \in Proc, WritePage(p) PROVE KeepInv'
PROOF
<1> DEFINE r == ring[p]
           x == [r EXCEPT !.at = "records", !.todo = DOMAIN r.ids]
<1>1. /\ r.at = "page" /\ page' = [bam |-> r.bam, salt |-> r.salt] /\ ring' = [ring EXCEPT ![p] = x]
      /\ UNCHANGED <<slot, created, kept>> /\ r \in Ring
  BY ZenonT(60) DEF WritePage, KeyringTypes
<1>2. FileInv /\ RunningInv(r) /\ \A q \in Proc : q # p => ring[q] = Idle
  BY <1>1, RunningAt, OthersIdle, ZenonT(60) DEF KeepInv
<1>3. /\ x.at = "records" /\ x.bam = r.bam /\ x.salt = r.salt
      /\ x.ids = r.ids /\ x.todo = DOMAIN r.ids
  BY <1>1, ZenonT(60) DEF Ring
<1>4. ring'[p] = x /\ \A q \in Proc : q # p => ring'[q] = Idle
  BY <1>1, <1>2, ZenonT(60) DEF KeyringTypes
<1> HIDE DEF x
<1>5. page'.bam = r.bam /\ page'.salt = r.salt
  BY <1>1, ZenonT(60)
<1>6. page.bam \subseteq r.bam /\ r.salt = page.salt /\ page # NewFile
  BY <1>1, <1>2, ZenonT(60) DEF RunningInv, PageInv
<1>7. FileInv'
  BY <1>1, <1>2, <1>5, <1>6, ZenonT(60) DEF FileInv
<1>8. page' # NewFile
  <2>1. page \in [bam : SUBSET Slot, salt : Salt]
    BY ZenonT(60) DEF KeyringTypes
  <2> SUFFICES ASSUME page' = NewFile PROVE FALSE
    BY ZenonT(60)
  <2>2. r.bam = {} /\ r.salt = "none"
    BY <1>5, ZenonT(60) DEF NewFile
  <2>3. page = NewFile
    BY <1>6, <2>1, <2>2, ZenonT(60) DEF NewFile
  <2> QED BY <1>6, <2>3, ZenonT(60)
<1>9. PageInv(ring[p])'
  BY <1>3, <1>4, <1>5, <1>8, ZenonT(60) DEF PageInv
<1>10. \A s \in DOMAIN r.ids : IdentityInv(ring[p], s)'
  <2> SUFFICES ASSUME NEW s \in DOMAIN r.ids PROVE IdentityInv(ring[p], s)'
    BY ZenonT(60)
  <2>1. IdentityInv(r, s)
    BY <1>2, ZenonT(60) DEF RunningInv
  <2>2. ring'[p].ids = r.ids /\ s \in ring'[p].todo
    BY <1>3, <1>4, ZenonT(60)
  <2> QED BY <1>1, <2>1, <2>2, ZenonT(60) DEF IdentityInv
<1>11. RunningInv(ring[p])'
  BY <1>2, <1>3, <1>4, <1>9, <1>10, ZenonT(60) DEF RunningInv
<1> QED BY <1>4, <1>7, <1>11, OneCommand, ZenonT(60)

\* A record is written over the same identity or into a blank slot, and with all
\* of its name.
LEMMA WriteRecordKeeps ==
    ASSUME KeyringTypes, KeepInv, LongName = {}, NEW p \in Proc, WriteRecord(p)
    PROVE  KeepInv'
PROOF
<1> DEFINE r == ring[p]
<1>1. PICK s \in Slot : /\ s \in r.todo /\ slot' = [slot EXCEPT ![s] = Packed(r, r.ids[s])]
                        /\ ring' = [ring EXCEPT ![p] = [r EXCEPT !.todo = r.todo \ {s}]]
  BY ZenonT(60) DEF WriteRecord, First
<1> DEFINE x == [r EXCEPT !.todo = r.todo \ {s}]
           id == r.ids[s]
<1>2. r.at = "records" /\ UNCHANGED <<page, created, kept>> /\ r \in Ring /\ WellFormed(r)
  BY ZenonT(60) DEF WriteRecord, KeyringTypes
<1>3. FileInv /\ RunningInv(r) /\ \A q \in Proc : q # p => ring[q] = Idle
  BY <1>2, RunningAt, OthersIdle, ZenonT(60) DEF KeepInv
<1>4. /\ x.at = "records" /\ x.bam = r.bam /\ x.salt = r.salt
      /\ x.ids = r.ids /\ x.todo = r.todo \ {s}
  BY <1>2, ZenonT(60) DEF Ring
<1>5. ring'[p] = x /\ \A q \in Proc : q # p => ring'[q] = Idle
  BY <1>1, <1>3, ZenonT(60) DEF KeyringTypes
<1> HIDE DEF x
<1>6. s \in DOMAIN r.ids /\ DOMAIN r.ids \subseteq r.bam /\ id \in Record
  BY <1>1, <1>2, LoadedElim, ZenonT(60) DEF WellFormed, Ring
<1>7. /\ IdentityInv(r, s) /\ PageInv(r)
      /\ \A t, u \in DOMAIN r.ids : r.ids[t].sid = r.ids[u].sid => t = u
  BY <1>3, <1>6, ZenonT(60) DEF RunningInv
<1>8. /\ slot'[s].sid = id.sid /\ slot'[s].pin = id.pin /\ slot'[s].name = id.name
      /\ slot'[s].salt = r.salt
      /\ \A t \in Slot : t # s => slot'[t] = slot[t]
  BY <1>1, <1>6, ZenonT(60) DEF Packed, Record, KeyringTypes
<1>9. slot'[s] # Blank /\ id.sid \in 1..created
  <2>1. id.sid \in 1..created
    BY <1>7, ZenonT(60) DEF IdentityInv
  <2>2. Blank.sid = 0 /\ id.sid # 0
    BY <2>1 DEF Blank
  <2> QED BY <1>8, <2>1, <2>2, ZenonT(60)
<1>10. \A t, u \in Slot : slot[t] # Blank /\ slot[u] # Blank /\ slot[t].sid = slot[u].sid => t = u
  BY <1>3, ZenonT(60) DEF FileInv
<1>11. \A t \in Slot : slot[t] # Blank /\ slot[t].sid = id.sid => t = s
  <2>1. CASE slot[s] = Blank
    BY <1>7, <2>1, ZenonT(60) DEF IdentityInv
  <2>2. CASE slot[s] # Blank
    <3>1. slot[s].sid = id.sid
      BY <1>7, <2>2, ZenonT(60) DEF IdentityInv
    <3> QED BY <1>10, <2>2, <3>1, ZenonT(60)
  <2> QED BY <2>1, <2>2, ZenonT(60)
<1>12. FileInv'
  <2>1. ASSUME NEW t \in Slot, slot'[t] # Blank
        PROVE  t \in page.bam /\ slot'[t].salt = page.salt /\ slot'[t].sid \in 1..created
    <3>1. CASE t = s
      BY <1>2, <1>6, <1>7, <1>8, <1>9, <3>1, ZenonT(60) DEF PageInv
    <3>2. CASE t # s
      BY <1>3, <1>8, <2>1, <3>2, ZenonT(60) DEF FileInv
    <3> QED BY <3>1, <3>2, ZenonT(60)
  <2>2. ASSUME NEW t \in Slot, NEW u \in Slot, slot'[t] # Blank, slot'[u] # Blank,
               slot'[t].sid = slot'[u].sid
        PROVE  t = u
    <3>1. t # s /\ u # s => t = u
      BY <1>8, <1>10, <2>2, ZenonT(60)
    <3>2. (t = s /\ u # s => u = s) /\ (u = s /\ t # s => t = s)
      BY <1>8, <1>11, <2>2, ZenonT(60)
    <3> QED BY <3>1, <3>2, ZenonT(60)
  <2>3. ASSUME NEW i \in Identity, kept[i].names # {}
        PROVE  \E t \in Slot : /\ slot'[t] # Blank /\ slot'[t].sid = i
                               /\ slot'[t].pin = kept[i].pin /\ slot'[t].name \in kept[i].names
    <3>1. PICK t \in Slot : /\ slot[t] # Blank /\ slot[t].sid = i
                            /\ slot[t].pin = kept[i].pin /\ slot[t].name \in kept[i].names
      BY <1>3, <2>3, ZenonT(60) DEF FileInv
    <3>2. CASE t = s
      BY <1>7, <1>8, <1>9, <2>3, <3>1, <3>2, ZenonT(60) DEF IdentityInv
    <3>3. CASE t # s
      BY <1>8, <3>1, <3>3, ZenonT(60)
    <3> QED BY <3>2, <3>3, ZenonT(60)
  <2> QED BY <1>2, <2>1, <2>2, <2>3, ZenonT(60) DEF FileInv
<1>13. PageInv(ring[p])'
  BY <1>2, <1>4, <1>5, <1>7, ZenonT(60) DEF PageInv
<1>14. ASSUME NEW t \in DOMAIN r.ids PROVE IdentityInv(ring[p], t)'
  <2>1. IdentityInv(r, t) /\ t \in Slot
    BY <1>2, <1>3, <1>6, LoadedElim, ZenonT(60) DEF RunningInv, Ring
  <2>2. CASE t = s
    BY <1>2, <1>4, <1>5, <1>8, <1>9, <2>1, <2>2, ZenonT(60) DEF IdentityInv
  <2>3. CASE t # s
    <3>1. r.ids[t].sid # id.sid
      BY <1>6, <1>7, <2>3, ZenonT(60)
    <3> QED BY <1>2, <1>4, <1>5, <1>8, <2>1, <2>3, <3>1, ZenonT(60) DEF IdentityInv
  <2> QED BY <2>2, <2>3, ZenonT(60)
<1>15. RunningInv(ring[p])'
  BY <1>4, <1>5, <1>7, <1>13, <1>14, ZenonT(60) DEF RunningInv
<1> QED BY <1>5, <1>12, <1>15, OneCommand, ZenonT(60)

\* When a command ends, the file has what its user is told.
LEMMA FinishKeeps == ASSUME KeyringTypes, KeepInv, NEW p \in Proc, FinishCommand(p) PROVE KeepInv'
PROOF
<1> DEFINE r == ring[p]
<1>1. /\ r.at = "records" /\ r.todo = {} /\ ring' = [ring EXCEPT ![p] = Idle]
      /\ UNCHANGED <<page, slot, created>>
  BY FinishStep, ZenonT(60)
<1>2. FileInv /\ RunningInv(r) /\ \A q \in Proc : q # p => ring[q] = Idle
  BY <1>1, RunningAt, OthersIdle, ZenonT(60) DEF KeepInv
<1>3. \A q \in Proc : ring'[q] = Idle
  BY <1>1, <1>2, ZenonT(60) DEF KeyringTypes
<1>4. ASSUME NEW i \in Identity, kept'[i].names # {}
      PROVE  \E t \in Slot : /\ slot[t] # Blank /\ slot[t].sid = i
                             /\ slot[t].pin = kept'[i].pin /\ slot[t].name \in kept'[i].names
  <2>1. CASE \E s \in DOMAIN r.ids :
               /\ r.ids[s].sid = i
               /\ kept'[i] = [pin |-> r.ids[s].pin, names |-> {r.ids[s].name}]
    <3>1. PICK s \in DOMAIN r.ids :
             /\ r.ids[s].sid = i
             /\ kept'[i] = [pin |-> r.ids[s].pin, names |-> {r.ids[s].name}]
      BY <2>1, ZenonT(60)
    <3>2. s \in Slot /\ IdentityInv(r, s)
      BY <1>2, LoadedElim, ZenonT(60) DEF RunningInv, Ring, KeyringTypes
    <3>3. slot[s] # Blank /\ slot[s].name = r.ids[s].name /\ slot[s].sid = i /\ slot[s].pin = r.ids[s].pin
      BY <1>1, <3>1, <3>2, ZenonT(60) DEF IdentityInv
    <3>4. kept'[i].pin = r.ids[s].pin /\ r.ids[s].name \in kept'[i].names
      BY <3>1
    <3> QED BY <3>2, <3>3, <3>4, ZenonT(60)
  <2>2. CASE kept'[i] = kept[i]
    BY <1>2, <1>4, <2>2, ZenonT(60) DEF FileInv
  <2>3. \/ \E s \in DOMAIN r.ids :
              /\ r.ids[s].sid = i
              /\ kept'[i] = [pin |-> r.ids[s].pin, names |-> {r.ids[s].name}]
        \/ kept'[i] = kept[i]
    BY FinishStep
  <2> QED BY <2>1, <2>2, <2>3, ZenonT(60)
<1>5. FileInv'
  BY <1>1, <1>2, <1>4, ZenonT(60) DEF FileInv
<1> QED BY <1>3, <1>5, OneCommand, ZenonT(60)

\* A new file has no identities to keep.
LEMMA InitKeep == KeyringInit => KeepInv
BY DEF KeyringInit, KeepInv, FileInv, CommandRuns

\* The file is never between two states in which an identity that a user was told
\* of cannot be found: keyring_commit() writes the map before the records and no
\* record over another identity.  It is so as long as one command at a time uses
\* the file and each name fits the packed record: two commands at a time may take
\* the same slot, and of a longer name only a part is stored.
THEOREM IdentitiesKept == Solo /\ LongName = {} => (KeyringSpec => []IdentitiesAreKept)
PROOF
<1> SUFFICES ASSUME Solo, LongName = {} PROVE KeyringSpec => []IdentitiesAreKept
  BY ZenonT(60)
<1>1. KeyringTypes /\ KeepInv /\ [KeyringNext]_keyringVars => KeepInv'
  <2> SUFFICES ASSUME KeyringTypes, KeepInv, [KeyringNext]_keyringVars PROVE KeepInv'
    BY ZenonT(60)
  <2>1. CASE UNCHANGED keyringVars
    <3>1. page' = page /\ slot' = slot /\ ring' = ring /\ created' = created /\ kept' = kept
      BY <2>1, ZenonT(60) DEF keyringVars
    <3>2. FileInv'
      BY <3>1, ZenonT(60) DEF KeepInv, FileInv
    <3>3. \A p, q \in Proc : CommandRuns(p)' /\ CommandRuns(q)' => p = q
      BY <3>1, ZenonT(60) DEF KeepInv, CommandRuns
    <3>4. ASSUME NEW p \in Proc, CommandRuns(p)' PROVE RunningInv(ring[p])'
      <4>1. RunningInv(ring[p])
        BY <3>1, <3>4, ZenonT(60) DEF KeepInv, CommandRuns
      <4>2. PageInv(ring[p])'
        BY <3>1, <4>1, ZenonT(60) DEF RunningInv, PageInv
      <4>3. \A s \in DOMAIN ring[p].ids : IdentityInv(ring[p], s)'
        BY <3>1, <4>1, ZenonT(60) DEF RunningInv, IdentityInv
      <4> QED BY <3>1, <4>1, <4>2, <4>3, ZenonT(60) DEF RunningInv
    <3> QED BY <3>2, <3>3, <3>4, ZenonT(60) DEF KeepInv
  <2>2. ASSUME NEW p \in Proc, NEW pin \in PIN,
               BeginCommand(p, "add", pin) \/ BeginCommand(p, "set did", pin)
        PROVE  KeepInv'
    BY <2>2, BeginKeeps, ZenonT(60)
  <2>3. ASSUME NEW p \in Proc, BeginCommand(p, "seed", NoPIN) PROVE KeepInv'
    BY <2>3, BeginKeeps, ZenonT(60)
  <2>4. ASSUME NEW p \in Proc, CreateFails(p) \/ SeedNothing(p) \/ Killed(p) PROVE KeepInv'
    <3>1. CommandRuns(p)
      BY <2>4, RunningAt, ZenonT(60) DEF CreateFails, SeedNothing, Killed, CommandRuns
    <3> QED BY <2>4, <3>1, EndKeeps, ZenonT(60) DEF CreateFails, SeedNothing, Killed
  <2> QED BY <2>1, <2>2, <2>3, <2>4, OpenKeeps, EnterKeeps, CreateKeeps, SetDidKeeps, WritePageKeeps,
             WriteRecordKeeps, FinishKeeps, ZenonT(60) DEF KeyringNext
<1>2. KeyringTypes /\ KeepInv => IdentitiesAreKept
  <2> SUFFICES ASSUME KeyringTypes, KeepInv, NEW i \in Identity, kept[i].names # {}
               PROVE  \E s \in page.bam \cap Extent :
                         /\ Decrypts(s, page.salt, kept[i].pin)
                         /\ slot[s].sid = i /\ slot[s].name \in kept[i].names
    BY ZenonT(60) DEF IdentitiesAreKept
  <2>1. PICK s \in Slot : /\ slot[s] # Blank /\ slot[s].sid = i
                          /\ slot[s].pin = kept[i].pin /\ slot[s].name \in kept[i].names
    BY ZenonT(60) DEF KeepInv, FileInv
  <2>2. s \in page.bam /\ slot[s].salt = page.salt
    BY <2>1, ZenonT(60) DEF KeepInv, FileInv
  <2>3. s \in Extent
    BY <2>1, KeyringAssumption DEF Extent, Slot
  <2> QED BY <2>1, <2>2, <2>3, ZenonT(60) DEF Decrypts
<1> QED BY <1>1, <1>2, InitKeep, KeyringTypeInvariance, PTL DEF KeyringSpec
=============================================================================

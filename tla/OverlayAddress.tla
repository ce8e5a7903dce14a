--------------------------- MODULE OverlayAddress ---------------------------
(***************************************************************************)
(* Abbreviated addresses (overlay_address.c) between a node that sends     *)
(* packets and a neighbour that reads them.  Each keeps the subscribers it *)
(* knows in a tree over the digits of their ids.  An address is written as *)
(* a code: the sender of the packet, the address before, a prefix or the   *)
(* full id.  A prefix the reader cannot resolve makes it ask for an        *)
(* explanation, which the writer answers with full ids.                    *)
(*                                                                         *)
(* Packets, questions and answers may be lost.  A frame is reduced to its  *)
(* three addresses; a packet is written in one step and read in one step,  *)
(* as in the server, which runs one callback at a time.                    *)
(***************************************************************************)
EXTENDS Integers, FiniteSets, Sequences, TLC

CONSTANTS Sid,        \* subscriber ids: sequences of digits, all of one length
          me,         \* the writer's own id
          peer,       \* the reader's own id
          Codes,      \* prefix codes: [upto, len] in increasing order
          FullFrom,   \* abbreviate_len from which the id is sent in full
          TicksPerFull, \* ticks_per_full_address
          Frames,     \* frames the writer relays
          Fits,       \* whether a frame may turn out too long for the packet
          MaxInPacket,  \* bound: frames in one packet
          Everybody,  \* the broadcast address
          NULL

Digits == Len(CHOOSE s \in Sid : TRUE)

ASSUME AddressAssumption ==
  /\ me \in Sid /\ peer \in Sid /\ me # peer
  /\ \A s \in Sid : Len(s) = Digits
  /\ Everybody \notin Sid /\ NULL \notin Sid
  /\ FullFrom \in Nat /\ TicksPerFull \in Nat
  /\ Fits \subseteq BOOLEAN /\ MaxInPacket \in Nat

Node == {"writer", "reader"}

VARIABLES tree,      \* each node's subscriber tree
          send_full, \* subscribers the writer sends in full next time
          ticks,     \* the writer's ticks_since_sent_full_address
          ask,       \* the please-explain frame on its way to the writer
          answer,    \* ids on their way to the reader in answer
          misread    \* a frame was understood with addresses nobody wrote

addressVars == <<tree, send_full, ticks, ask, answer, misread>>

Prefix(s, n) == SubSeq(s, 1, n)

SidPrefixes == {Prefix(s, n) : s \in Sid, n \in 1..Digits}

NoAsk == [prefixes |-> {}, told |-> {}]

\* Trees hold ids in slots named by a prefix of theirs.
AddressTypeOK ==
  /\ \A n \in Node : /\ tree[n].inner \subseteq SidPrefixes
                     /\ DOMAIN tree[n].slot \subseteq SidPrefixes
                     /\ \A q \in DOMAIN tree[n].slot :
                          /\ tree[n].slot[q] \in Sid
                          /\ Prefix(tree[n].slot[q], Len(q)) = q
  /\ send_full \subseteq Sid
  /\ ticks \in 0..TicksPerFull
  /\ ask.prefixes \subseteq SidPrefixes /\ ask.told \subseteq Sid
  /\ answer \subseteq Sid
  /\ misread \in BOOLEAN

-----------------------------------------------------------------------------
(* The subscriber tree *)

Known(t) == {t.slot[q] : q \in DOMAIN t.slot}

\* The slot of an id: its length is the id's abbreviate_len.
SlotOf(t, s) == CHOOSE q \in DOMAIN t.slot : t.slot[q] = s

abbreviate_len(t, s) == Len(SlotOf(t, s))

\* A slot's subscriber moves down into a new tree node.
Split(t, q) ==
  LET ret == t.slot[q]
  IN [inner |-> t.inner \cup {q},
      slot  |-> [r \in DOMAIN t.slot \ {q} |-> t.slot[r]]
                @@ (Prefix(ret, Len(q) + 1) :> ret)]

RECURSIVE Walk(_, _, _, _)
Walk(t, id, create, pos) ==
  LET q == Prefix(id, pos)
  IN CASE pos > Len(id) -> [tree |-> t, sid |-> NULL]
       [] pos <= Len(id) /\ q \in t.inner -> Walk(t, id, create, pos + 1)
       [] pos <= Len(id) /\ q \notin t.inner /\ q \notin DOMAIN t.slot ->
            IF create THEN [tree |-> [t EXCEPT !.slot = @ @@ (q :> id)],
                            sid |-> id]
            ELSE [tree |-> t, sid |-> NULL]
       [] OTHER ->
            IF Prefix(t.slot[q], Len(id)) = id
            THEN [tree |-> t, sid |-> t.slot[q]]
            ELSE IF create THEN Walk(Split(t, q), id, create, pos + 1)
            ELSE [tree |-> t, sid |-> NULL]

\* Only a full id is ever added.
find_subscriber(t, id, create) == Walk(t, id, create /\ Len(id) = Digits, 1)

Learn(t, s) == find_subscriber(t, s, TRUE).tree

\* walk_tree over one abbreviation: along the prefix, then everything below.
walk_tree(t, id) ==
  {t.slot[q] : q \in {r \in DOMAIN t.slot :
                        \/ Len(r) <= Len(id) /\ Prefix(id, Len(r)) = r
                        \/ Len(r) > Len(id) /\ Prefix(r, Len(id)) = id}}

-----------------------------------------------------------------------------
(* Writing addresses *)

AbbreviationMutant(t, s) ==
  LET n == abbreviate_len(t, s)
      fit == {k \in DOMAIN Codes : n <= Codes[k].upto} \cup {Len(Codes)}
  IN Prefix(s, Codes[CHOOSE k \in fit : \A j \in fit : k <= j].len)

Abbreviation(t, s) ==
  LET n == abbreviate_len(t, s)
      fit == {k \in DOMAIN Codes : n <= Codes[k].upto} \cup {Len(Codes)}
  IN IF n >= FullFrom THEN s
     ELSE Prefix(s, Codes[CHOOSE k \in fit : \A j \in fit : k <= j].len)

\* overlay_address_append: e collects the codes, and remembers the context.
overlay_address_append(e, s) ==
  CASE s = e.sender -> [e EXCEPT !.out = Append(@, [code |-> "SELF"]),
                                 !.previous = s]
    [] s # e.sender /\ s = e.previous ->
         [e EXCEPT !.out = Append(@, [code |-> "PREVIOUS"])]
    [] s \notin {e.sender, e.previous} /\ s \in e.full ->
         [e EXCEPT !.out = Append(@, [code |-> "ID", id |-> s]),
                   !.previous = s, !.full = @ \ {s}]
    [] OTHER ->
         [e EXCEPT !.out = Append(@, [code |-> "ID",
                                      id |-> Abbreviation(tree["writer"], s)]),
                   !.previous = s]

\* Every so often the own id is sent in full.
overlay_address_append_self(e) ==
  overlay_address_append(
    IF e.ticks + 1 > TicksPerFull
    THEN [e EXCEPT !.ticks = 0, !.full = @ \cup {me}]
    ELSE [e EXCEPT !.ticks = @ + 1], me)

overlay_broadcast_append(e) ==
  [e EXCEPT !.out = Append(@, [code |-> "BROADCAST"]), !.previous = NULL]

AppendNext(e, f) ==
  IF f.next = Everybody THEN overlay_broadcast_append(e)
  ELSE overlay_address_append(e, f.next)

AppendDestination(e, f) ==
  IF f.destination = Everybody
  THEN [e EXCEPT !.out = Append(@, [code |-> "PREVIOUS"])]
  ELSE overlay_address_append(e, f.destination)

AppendSource(e, f) ==
  IF f.source = me THEN overlay_address_append_self(e)
  ELSE overlay_address_append(e, f.source)

\* A frame that does not fit is taken out of the packet again: what was
\* remembered while writing it stays.
overlay_frame_append_payload(e, f, fits) ==
  LET w == AppendSource(AppendDestination(AppendNext([e EXCEPT !.out = <<>>], f), f), f)
  IN [w EXCEPT !.out = e.out,
               !.packet = IF fits THEN Append(@, [codes |-> w.out, frame |-> f]) ELSE @]

\* The dummy announcement at the head of a packet: from me, to me, via me.
SelfFrame == [next |-> me, destination |-> me, source |-> me]

PacketOpened(full, n) ==
  LET e == overlay_address_append_self([out |-> <<>>, packet |-> <<>>, full |-> full,
                                        ticks |-> n, previous |-> NULL, sender |-> NULL])
      announce == [codes |-> e.out \o <<[code |-> "PREVIOUS"], [code |-> "PREVIOUS"]>>,
                   frame |-> SelfFrame]
  IN [e EXCEPT !.out = <<>>, !.packet = <<announce>>, !.sender = me]

RECURSIVE Stuffed(_, _)
Stuffed(e, fs) ==
  IF fs = <<>> THEN e
  ELSE Stuffed(overlay_frame_append_payload(e, Head(fs).frame, Head(fs).fits), Tail(fs))

-----------------------------------------------------------------------------
(* Reading addresses *)

\* An id that cannot be resolved is asked about, and what the reader knows of
\* it is told; the previous address is left as it was.
find_subscr_buffer(d, id) ==
  LET found == find_subscriber(d.tree, id, Len(id) = Digits)
  IN IF found.sid = NULL
     THEN [d EXCEPT !.invalid = TRUE, !.got = Append(@, NULL),
                    !.ask.prefixes = @ \cup {id},
                    !.ask.told = @ \cup walk_tree(d.tree, id)]
     ELSE [d EXCEPT !.tree = found.tree, !.got = Append(@, found.sid),
                    !.previous = found.sid, !.previous_broadcast = FALSE]

overlay_address_parse_mutant(d, c) ==
  CASE c.code = "BROADCAST" ->
         [d EXCEPT !.got = Append(@, Everybody), !.previous = NULL,
                   !.previous_broadcast = TRUE]
    [] c.code = "SELF" -> [d EXCEPT !.got = Append(@, d.sender)]
    [] c.code = "PREVIOUS" -> [d EXCEPT !.got = Append(@, d.previous)]
    [] c.code = "ID" -> find_subscr_buffer(d, c.id)

overlay_address_parse(d, c) ==
  CASE c.code = "BROADCAST" ->
         [d EXCEPT !.got = Append(@, Everybody), !.previous = NULL,
                   !.previous_broadcast = TRUE]
    [] c.code = "SELF" ->
         IF d.sender = NULL THEN [d EXCEPT !.got = Append(@, NULL), !.invalid = TRUE]
         ELSE [d EXCEPT !.got = Append(@, d.sender), !.previous = d.sender]
    [] c.code = "PREVIOUS" ->
         CASE d.previous # NULL -> [d EXCEPT !.got = Append(@, d.previous)]
           [] d.previous = NULL /\ d.previous_broadcast ->
                [d EXCEPT !.got = Append(@, Everybody)]
           [] OTHER -> [d EXCEPT !.got = Append(@, NULL), !.invalid = TRUE]
    [] c.code = "ID" -> find_subscr_buffer(d, c.id)

\* One frame of packetOkOverlay: an address that is not understood makes the
\* reader skip the frame, and an announcement names the packet's sender.  A
\* packet that seems to come from the reader itself is left there.
ReadFrame(d, f) ==
  LET r == overlay_address_parse(
             overlay_address_parse(
               overlay_address_parse([d EXCEPT !.invalid = FALSE, !.got = <<>>],
                                     f.codes[1]), f.codes[2]), f.codes[3])
      got == [next |-> r.got[1], destination |-> r.got[2], source |-> r.got[3]]
      announce == f.frame = SelfFrame
  IN IF r.invalid THEN r
     ELSE [r EXCEPT !.misread = @ \/ got # f.frame,
                    !.sender = IF announce /\ got.source # peer THEN got.source ELSE @,
                    !.mine = announce /\ got.source = peer]

RECURSIVE Read(_, _)
Read(d, packet) ==
  IF packet = <<>> \/ d.mine THEN d ELSE Read(ReadFrame(d, Head(packet)), Tail(packet))

packetOkOverlay(packet) ==
  Read([tree |-> tree["reader"], previous |-> NULL, previous_broadcast |-> FALSE,
        sender |-> NULL, invalid |-> FALSE, mine |-> FALSE, got |-> <<>>, ask |-> ask,
        misread |-> misread], packet)

-----------------------------------------------------------------------------
(* Steps *)

Contents == UNION {[1..n -> [frame : Frames, fits : Fits]] : n \in 0..MaxInPacket}

\* The writer fills a packet with frames between subscribers it knows.
Written(fs) == Stuffed(PacketOpened(send_full, ticks), fs)

PacketSent(fs) ==
  LET e == Written(fs)
  IN /\ send_full' = e.full
     /\ ticks' = e.ticks

\* The packet is read, or lost on the way.
Deliver(fs) ==
  /\ PacketSent(fs)
  /\ LET d == packetOkOverlay(Written(fs).packet)
     IN /\ tree' = [tree EXCEPT !["reader"] = d.tree]
        /\ ask' = d.ask
        /\ misread' = d.misread
  /\ UNCHANGED answer

Lose(fs) ==
  /\ PacketSent(fs)
  /\ UNCHANGED <<tree, ask, answer, misread>>

\* Ids told are learnt; a new one makes the writer send its own in full.
RECURSIVE LearnAll(_, _)
LearnAll(t, S) ==
  IF S = {} THEN t ELSE LET s == CHOOSE x \in S : TRUE IN LearnAll(Learn(t, s), S \ {s})

ExplainedMutant(t, prefixes) ==
  UNION {{s \in Known(t) : s = p} : p \in prefixes}

Explained(t, prefixes) == UNION {walk_tree(t, p) : p \in prefixes}

\* process_explain at the writer, and its answer.
process_explain ==
  LET t == LearnAll(tree["writer"], ask.told)
      new == Known(t) \ Known(tree["writer"])
      says == Explained(t, ask.prefixes)
  IN /\ ask # NoAsk
     /\ ask' = NoAsk
     /\ tree' = [tree EXCEPT !["writer"] = t]
     /\ answer' = answer \cup says
     /\ send_full' = send_full \cup new
                       \cup (IF new # {} \/ me \in says THEN {me} ELSE {})
     /\ UNCHANGED <<ticks, misread>>

LoseAsk ==
  /\ ask # NoAsk
  /\ ask' = NoAsk
  /\ UNCHANGED <<tree, send_full, ticks, answer, misread>>

\* process_explain at the reader: the answer holds full ids only.
HearAnswer ==
  /\ answer # {}
  /\ tree' = [tree EXCEPT !["reader"] = LearnAll(@, answer)]
  /\ answer' = {}
  /\ UNCHANGED <<send_full, ticks, ask, misread>>

LoseAnswer ==
  /\ answer # {}
  /\ answer' = {}
  /\ UNCHANGED <<tree, send_full, ticks, ask, misread>>

\* A node hears of a subscriber from somebody else.
Hear(n, s) ==
  /\ s \notin Known(tree[n])
  /\ tree' = [tree EXCEPT ![n] = Learn(@, s)]
  /\ send_full' = IF n = "writer" THEN send_full \cup {s, me} ELSE send_full
  /\ UNCHANGED <<ticks, ask, answer, misread>>

Empty == [inner |-> {}, slot |-> <<>>]

Relayed == {f \in Frames : {f.next, f.destination, f.source} \ {Everybody}
                             \subseteq Known(tree["writer"])}

Sendable(fs) == \A k \in DOMAIN fs : fs[k].frame \in Relayed

AddressInit ==
  /\ tree = [n \in Node |-> IF n = "writer" THEN Learn(Learn(Empty, me), peer)
                            ELSE Learn(Empty, peer)]
  /\ send_full = {me, peer}
  /\ ticks = 0
  /\ ask = NoAsk
  /\ answer = {}
  /\ misread = FALSE

AddressNext ==
  \/ \E fs \in Contents : Sendable(fs) /\ (Deliver(fs) \/ Lose(fs))
  \/ process_explain \/ LoseAsk
  \/ HearAnswer \/ LoseAnswer
  \/ \E n \in Node, s \in Sid : Hear(n, s)

AddressSpec == AddressInit /\ [][AddressNext]_addressVars

Relay(f) ==
  LET fs == <<[frame |-> f, fits |-> TRUE]>> IN Sendable(fs) /\ Deliver(fs)

\* What is sent again and again gets through again and again (strong
\* fairness of relaying, asking and answering, with the guards written out).
AddressFairness ==
  /\ \A f \in Frames : []<>(f \in Relayed) => []<><<Relay(f)>>_addressVars
  /\ []<>(ask # NoAsk) => []<><<process_explain>>_addressVars
  /\ []<>(answer # {}) => []<><<HearAnswer>>_addressVars

-----------------------------------------------------------------------------
(* Properties *)

Matching(t, id) == {s \in Known(t) : Prefix(s, Len(id)) = id}

\* Whatever order subscribers are heard of in, find_subscriber finds the one
\* known subscriber an abbreviation stands for, and none when there is no such
\* subscriber or more than one; and the abbreviation overlay_address_append
\* picks is long enough for the node that writes it to read it back.
FindIsExact ==
  \A n \in Node :
    /\ \A id \in SidPrefixes :
         find_subscriber(tree[n], id, FALSE).sid =
           IF Cardinality(Matching(tree[n], id)) = 1
           THEN CHOOSE s \in Matching(tree[n], id) : TRUE
           ELSE NULL
    /\ \A s \in Known(tree[n]) :
         find_subscriber(tree[n], Abbreviation(tree[n], s), FALSE).sid = s

\* packetOkOverlay: "if we can't understand one of the addresses, skip
\* processing the payload".  A payload that is not skipped has the next hop,
\* destination and source its sender wrote.
ReadAsWritten == ~ misread

\* A subscriber that occurs in frames sent to the reader is known to the reader
\* in the end: an abbreviation it does not know is explained, even if packets,
\* questions and answers get lost.
EventuallyUnderstood ==
  \A f \in Frames : \A s \in {f.destination, f.source} \cap Sid :
    (f \in Relayed) ~> (s \in Known(tree["reader"]))
=============================================================================

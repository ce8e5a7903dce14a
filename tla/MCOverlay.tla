----------------------------- MODULE MCOverlay -----------------------------
(***************************************************************************)
(* The overlay for TLC: the queues of frames, and the addresses in the     *)
(* packets.  The parts have no state in common, so what holds of each      *)
(* holds of both together: a behaviour exercises one part.                 *)
(***************************************************************************)
EXTENDS OverlayQueue, OverlayAddress

CONSTANTS
    Parts,             \* the parts that are exercised
    a                  \* a peer

VARIABLE part

\* Queues: a peer that is heard on the second interface, if at all.
Changing == {[reachable |-> "NONE"], [reachable |-> "BROADCAST"],
             [reachable |-> "DIRECT", interface |-> 2],
             [reachable |-> "UNICAST", interface |-> 2]}

\* Addresses: ids that share prefixes of every length.
Deep == {<<0, 0, 0, 0>>, <<0, 0, 0, 1>>, <<0, 0, 1, 0>>, <<0, 1, 0, 0>>,
         <<1, 0, 0, 0>>, <<1, 1, 1, 1>>}
x == <<0, 0, 0, 0>>
y == <<1, 0, 0, 0>>
z == <<0, 1, 0, 0>>
w == <<1, 1, 1, 1>>

\* Those whose first two digits differ, so that prefixes do not collide.
Wide == {x, y, z, w}

TwoCodes == <<[upto |-> 1, len |-> 2], [upto |-> 2, len |-> 3]>>
OneCode  == <<[upto |-> 2, len |-> 2]>>
NoCodes  == <<>>
NoFrames == {}

ToPeer == [next |-> w, destination |-> w, source |-> z]
Mixed  == {ToPeer,
           [next |-> z, destination |-> z, source |-> x],
           [next |-> Everybody, destination |-> Everybody, source |-> z],
           [next |-> w, destination |-> y, source |-> z]}
JustToPeer == {ToPeer}

\* Packets of one frame, some of which turn out too long.
Single == INSTANCE OverlayAddress
            WITH Sid <- Wide, Codes <- OneCode,
                 Frames <- Mixed, Fits <- BOOLEAN, MaxInPacket <- 1

\* Packets of two frames, with all ids in full.
Full == INSTANCE OverlayAddress
          WITH Sid <- Wide, Codes <- NoCodes, FullFrom <- 0, TicksPerFull <- 1,
               Frames <- Mixed, Fits <- {TRUE}, MaxInPacket <- 2

\* Frames are read as they were written, or skipped, as long as abbreviations
\* do not collide: packetOkOverlay, "if we can't understand one of the
\* addresses, skip processing the payload".
ReadApart == part \in {"single", "full"} => ReadAsWritten

\* Every variable keeps its type, and every table and counter its bounds.
TypeOK == QueueTypeOK /\ AddressTypeOK

allVars == <<part, queueVars, addressVars>>

Init == part \in Parts /\ QueueInit /\ AddressInit

Next ==
    /\ part' = part
    /\ \/ part = "queue" /\ QueueNext /\ UNCHANGED addressVars
       \/ part = "address" /\ AddressNext /\ UNCHANGED queueVars
       \/ part = "single" /\ Single!AddressNext /\ UNCHANGED queueVars
       \/ part = "full" /\ Full!AddressNext /\ UNCHANGED queueVars

Spec == Init /\ [][Next]_allVars

FairSpec ==
    /\ Spec
    /\ part = "queue" => QueueFairness
    /\ part = "address" => AddressFairness
=============================================================================

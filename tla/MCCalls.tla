------------------------------ MODULE MCCalls ------------------------------
(***************************************************************************)
(* What clients of the server see of it, for TLC: calls, port bindings, and *)
(* the monitor interface.  The parts have no state in common, so what      *)
(* holds of each holds of all together: a behaviour exercises one part.    *)
(***************************************************************************)
EXTENDS Vomp, MdpBindings, Monitor, MonitorParser

CONSTANTS
    Parts,             \* the parts that are exercised
    alice, bob, pcm, m1

VARIABLE part

\* Calls: who dials, how often, and whose client comes and goes.
Nodes     == {alice, bob}
Codecs1   == {pcm}
OneCodec  == [n \in Nodes |-> {pcm}]
AliceOnce == [n \in Nodes |-> IF n = alice THEN 1 ELSE 0]
JustBob   == {bob}
Nobody    == {}

\* Bindings: paths of the clients' sockets.
Paths == [m \in MdpClient |-> IF m = m1 THEN <<1, 0>> ELSE <<2, 0>>]

\* Monitor: commands that change what a client monitors, and one that tells
\* the clients something.
Settings == [op : {"monitor", "ignore"}, flag : Flag, codecs : {AudioCodec}]
Commands == Settings \cup {[op |-> "call", flag |-> "vomp", codecs |-> {}]}

\* Parser: a command without data, ones with data, and one that is too long.
Plain == [line |-> <<"a", "b">>, data |-> <<>>]
Audio == [line |-> <<"a">>, data |-> <<"x", "y">>]
Long  == [line |-> <<"a", "b", "c", "d", "e">>, data |-> <<>>]
Usual == {Plain, Audio, [Audio EXCEPT !.data = <<"z">>]}
Few   == {Audio, Long}
All   == Usual \cup {Long}

\* Every variable keeps its type, and every table and counter its bounds.
TypeOK == VompTypeOK /\ BindingsTypeOK /\ MonitorTypeOK /\ ParserTypeOK

allVars == <<part, vompVars, bindingsVars, monitorVars, parserVars>>

Init == part \in Parts /\ VompInit /\ BindingsInit /\ MonitorInit /\ ParserInit

Next ==
    /\ part' = part
    /\ \/ /\ part = "vomp" /\ VompNext
          /\ UNCHANGED <<bindingsVars, monitorVars, parserVars>>
       \/ /\ part = "bindings" /\ BindingsNext
          /\ UNCHANGED <<vompVars, monitorVars, parserVars>>
       \/ /\ part = "monitor" /\ MonitorNext
          /\ UNCHANGED <<vompVars, bindingsVars, parserVars>>
       \/ /\ part = "parser" /\ ParserNext
          /\ UNCHANGED <<vompVars, bindingsVars, monitorVars>>

Spec == Init /\ [][Next]_allVars

FairSpec == Spec /\ (part = "vomp" => VompFairness)
=============================================================================

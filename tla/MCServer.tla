------------------------------ MODULE MCServer ------------------------------
(***************************************************************************)
(* The server by itself, for TLC: its event loop, the registration with a  *)
(* directory that the loop calls, and the DNA helper.  The parts have no   *)
(* state in common, so what holds of each holds of all together: a         *)
(* behaviour exercises one part.                                           *)
(***************************************************************************)
EXTENDS DirectoryClient, DnaHelper, TLC

CONSTANTS
    Parts,             \* the parts that are exercised
    t1, t2, t3,        \* alarms that are scheduled
    d1, d2, d3, d4     \* alarms that watch a descriptor

VARIABLE part

\* Alarms and descriptors are apart in the code's structures: many of the one
\* with few of the other are enough.
Alarms == INSTANCE FdQueue WITH Descr <- {d1}, MaxTime <- 2
Table  == INSTANCE FdQueue WITH Alarm <- {t1}, MaxTime <- 0

\* The alarms of the directory client and of others, without descriptors.
Register == INSTANCE DirectoryClient WITH Descr <- {}

\* Those that no part names by itself.
Alike == Permutations({t2, t3}) \cup Permutations({d2, d3, d4})

\* Two requests that fit in the buffer and one that does not.
Three == {"r", "s", "long"}
TooLongRequest == {"long"}

loopVars == <<fdVars, directory, up>>
allVars == <<part, loopVars, dnaVars>>

Init == part \in Parts /\ DirectoryInit /\ DnaInit

Next ==
    /\ part' = part
    /\ \/ part = "alarms" /\ Alarms!FdNext /\ UNCHANGED <<directory, up, dnaVars>>
       \/ part = "table" /\ Table!FdNext /\ UNCHANGED <<directory, up, dnaVars>>
       \/ part = "register" /\ Register!DirectoryNext /\ UNCHANGED dnaVars
       \/ part = "dna" /\ DnaNext /\ UNCHANGED loopVars

Spec == Init /\ [][Next]_allVars
=============================================================================

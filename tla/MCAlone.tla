------------------------------- MODULE MCAlone -------------------------------
(***************************************************************************)
(* What a process keeps when no other one interferes, for TLC: the store   *)
(* of bundles, the bundles it fetches, the keyring, the configuration, the *)
(* entries of the directory, and what neighbours have heard.  Processes    *)
(* are killed at any point, and others run after them.  The parts have no  *)
(* state in common, so what holds of each holds of all together: a         *)
(* behaviour exercises one part.                                           *)
(***************************************************************************)
EXTENDS RhizomeStore, RhizomeFetch, Keyring, ConfigFile, DirectoryService, Observations

CONSTANTS
    Parts,             \* the parts that are exercised
    daemon, b1, b2, h1, h2

VARIABLE part

\* Store: the process, two versions of b1 with different payloads, a third without
\* one, and b2 sharing a payload with b1 under another name.
Bundles == {b1, b2}
Hashes  == {h1, h2}
Names   == [b \in Bundles |-> b]
Jobs    == {[bundle |-> b1, version |-> 1, hash |-> h1],
            [bundle |-> b1, version |-> 2, hash |-> h2],
            [bundle |-> b1, version |-> 3, hash |-> NoHash],
            [bundle |-> b2, version |-> 1, hash |-> h1]}

\* Fetching: bundles of different sizes, two of them with the same payload.
Sizes  == [b \in PeerBundle |-> IF b = "c" THEN 2 ELSE 1]
Shared == [b \in PeerBundle |-> IF b = "a" THEN "b" ELSE b]

\* Observations: interfaces with the same tick_ms.
SamePeriod == [l \in Link |-> 1]

\* Every variable keeps its type, and every table and counter its bounds.
TypeOK ==
    /\ StoreTypeOK /\ FetchTypeOK /\ KeyringTypeOK /\ ConfigTypeOK
    /\ ServiceTypeOK /\ ObservationsTypeOK

bundleVars == <<storeVars, fetchVars>>
fileVars == <<keyringVars, configVars>>
tableVars == <<serviceVars, observationsVars>>
allVars == <<part, bundleVars, fileVars, tableVars>>

\* The first jobs of the processes matter to the store alone.
Init ==
    /\ part \in Parts
    /\ StoreInit /\ FetchInit /\ KeyringInit /\ ConfigInit /\ ServiceInit /\ ObservationsInit
    /\ part = "store" \/ \A p \in Process : job[p].hash = NoHash

Next ==
    /\ part' = part
    /\ \/ part = "store" /\ StoreNext /\ UNCHANGED <<fetchVars, fileVars, tableVars>>
       \/ part = "fetch" /\ FetchNext /\ UNCHANGED <<storeVars, fileVars, tableVars>>
       \/ part = "keyring" /\ KeyringNext /\ UNCHANGED <<bundleVars, configVars, tableVars>>
       \/ part = "config" /\ ConfigNext /\ UNCHANGED <<bundleVars, keyringVars, tableVars>>
       \/ part = "lookup" /\ ServiceNext /\ UNCHANGED <<bundleVars, fileVars, observationsVars>>
       \/ part = "observe" /\ ObservationsNext /\ UNCHANGED <<bundleVars, fileVars, serviceVars>>

Spec == Init /\ [][Next]_allVars
=============================================================================

----------------------------- MODULE MCRhizome -----------------------------
(***************************************************************************)
(* Rhizome for TLC: the store, the time its queries may wait, fetching     *)
(* from peers, synchronising with one, and serving requests.  The parts    *)
(* have no state in common, so what holds of each holds of all together: a *)
(* behaviour exercises one part.                                           *)
(***************************************************************************)
EXTENDS RhizomeStore, SqliteRetry, RhizomeFetch, RhizomeDirect, RhizomeHttp

CONSTANTS
    Parts,             \* the parts that are exercised
    daemon, cli, b1, b2, h1, h2

VARIABLE part

\* Store: who opens the database, and who imports.
Daemon    == {daemon}
Processes == {daemon, cli}
Bundles   == {b1, b2}
Hashes    == {h1, h2}
Names     == [b \in Bundles |-> b]

\* Two versions of b1 with different payloads, a third without one, and b2
\* sharing a payload with b1 under another name.
Jobs == {[bundle |-> b1, version |-> 1, hash |-> h1],
         [bundle |-> b1, version |-> 2, hash |-> h2],
         [bundle |-> b1, version |-> 3, hash |-> NoHash],
         [bundle |-> b2, version |-> 1, hash |-> h1]}

\* Fetching: two bundles of different sizes, or a third with the payload of one.
Three  == {"a", "b", "c"}
Two    == {"b", "c"}
Sizes  == [b \in PeerBundle |-> IF b = "c" THEN 2 ELSE 1]
Shared == [b \in PeerBundle |-> IF b = "a" THEN "b" ELSE b]

\* Synchronisation: versions of every other bundle are of different sizes.
SizeBins == [b \in Bid |-> [v \in 1..MaxVersion |-> 1 + (((b + 1) * v) % Bins)]]

\* Transfers of two of them that fail in every way.
Faulty == INSTANCE RhizomeFetch WITH PeerBundle <- Two, Fault <- {"connect", "file"}

\* Requests: fields of every kind of bytes, requests of every kind, and two that are
\* posted at the same time while a payload is sent.
Post(path, code, parts) == [do |-> "post", path |-> path, code |-> code, parts |-> parts]
Described(bytes) == [name |-> "manifest", bytes |-> bytes]
Data(bytes) == [name |-> "data", bytes |-> bytes]

Bytes == UNION {[1..n -> {"CR", "LF", "x"}] : n \in 0..3}
Enquiries == {Post("enquiry", 200, <<Data(bytes)>>) : bytes \in Bytes}

Concurrent ==
    {[do |-> "blob"],
     Post("import", 200, <<Described(<<"x">>), Data(<<>>)>>),
     Post("import", 200, <<Described(<<>>), Data(<<"x">>)>>)}

Various ==
    {[do |-> "icon"], [do |-> "list"], [do |-> "error", code |-> 404], [do |-> "blob"],
     Post("import", 200, <<Described(<<"x">>), Data(<<>>)>>),
     Post("import", 200, <<[name |-> "other header", bytes |-> <<>>]>>),
     Post("enquiry", 200, <<Described(<<>>)>>),
     Post("addfile", 404, <<Data(<<"x">>)>>),
     Post("addfile", 500, <<Described(<<>>)>>),
     Post("addfile", 200, <<Data(<<"x">>)>>)}

AllRequests == Enquiries \cup Concurrent \cup Various

Forms == INSTANCE RhizomeHttp WITH Request <- Enquiries, Fd <- {1}, Reads <- {1, 99},
                                   Slack <- 0
Kinds == INSTANCE RhizomeHttp WITH Request <- Various, Fd <- {1}, Disk <- BOOLEAN
Crossed == INSTANCE RhizomeHttp WITH Request <- Concurrent

\* Every variable keeps its type, and every table and counter its bounds.
TypeOK == StoreTypeOK /\ RetryTypeOK /\ FetchTypeOK /\ DirectTypeOK /\ HttpTypeOK

allVars == <<part, storeVars, retryVars, fetchVars, directVars, httpVars>>

\* The first jobs of the processes matter to the store alone, and what two stores
\* have to their synchronisation.
Init ==
    /\ part \in Parts /\ StoreInit /\ RetryInit /\ FetchInit /\ DirectInit /\ HttpInit
    /\ part = "store" \/ \A p \in Process : job[p].hash = NoHash
    /\ part = "direct" \/ \A e \in Side, b \in Bid : store[e][b] = 0

Next ==
    /\ part' = part
    /\ \/ /\ \/ part = "store" /\ StoreNext /\ UNCHANGED <<retryVars, fetchVars>>
             \/ part = "retry" /\ RetryNext /\ UNCHANGED <<storeVars, fetchVars>>
             \/ part = "fetch" /\ FetchNext /\ UNCHANGED <<storeVars, retryVars>>
             \/ part = "faulty" /\ Faulty!FetchNext /\ UNCHANGED <<storeVars, retryVars>>
          /\ UNCHANGED <<directVars, httpVars>>
       \/ /\ \/ part = "direct" /\ DirectNext /\ UNCHANGED httpVars
             \/ /\ \/ part = "forms" /\ Forms!HttpNext
                   \/ part = "various" /\ Kinds!HttpNext
                   \/ part = "crossed" /\ Crossed!HttpNext
                /\ UNCHANGED directVars
          /\ UNCHANGED <<storeVars, retryVars, fetchVars>>

Spec == Init /\ [][Next]_allVars
=============================================================================

---------------------------- MODULE RhizomeStore ----------------------------
(***************************************************************************)
(* The Rhizome bundle store (rhizome_database.c, and the import path of    *)
(* rhizome.c): an SQLite database that the daemon and any number of        *)
(* command-line processes open and write at the same time.                 *)
(*                                                                         *)
(* A step is one SQL statement or one transaction: SQLite makes each of    *)
(* them atomic, and rolls an open transaction back when its process dies.  *)
(* Group membership and priorities decide nothing here and are left out.   *)
(***************************************************************************)
EXTENDS Integers

CONSTANTS
    Process,      \* processes that open the database
    Importer,     \* those of them that import bundles
    Bundle,       \* bundle identities
    Hash,         \* payload hashes
    NoHash,       \* the empty filehash of a bundle with an empty payload
    Job,          \* the manifests that come to be imported
    FileService,  \* bundles whose service is "file"
    Name,         \* Name[b]: the name in the manifest of b
    Faults,       \* whether SQLite or a file operation may report an error
    MaxRow        \* bound: the largest row number

ASSUME StoreAssumption ==
    /\ NoHash \notin Hash
    /\ Importer \subseteq Process
    /\ Job \subseteq [bundle : Bundle, version : Nat \ {0}, hash : Hash \cup {NoHash}]
    /\ Faults \in BOOLEAN
    /\ MaxRow \in Nat

VARIABLES
    manifests,  \* the row of MANIFESTS for each bundle; version 0 if there is none
    files,      \* the row of FILES for each payload hash
    pc,         \* where each process is
    job,        \* the manifest each process is importing
    rowid       \* the row each process has inserted

storeVars == <<manifests, files, pc, job, rowid>>

\* The contents a data blob can have: a whole payload, or the zeroes it is
\* created with.
Zeroes == NoHash
NoFile == [state |-> "none", row |-> 0, data |-> Zeroes, old |-> FALSE]
File == [state : {"none", "invalid", "valid"}, row : 0..MaxRow,
         data : Hash \cup {Zeroes}, old : BOOLEAN]

NoManifest == [version |-> 0, hash |-> NoHash]

StoreInit ==
    /\ manifests = [b \in Bundle |-> NoManifest]
    /\ files = [h \in Hash |-> NoFile]
    /\ pc = [p \in Process |-> "closed"]
    /\ job \in [Process -> Job]
    /\ rowid = [p \in Process |-> 0]

Stored(h) == files[h].state # "none"

Referenced(m, h) == \E b \in Bundle : m[b].hash = h

\* DELETE FROM FILES WHERE id IN gone
Without(f, gone) == [h \in Hash |-> IF h \in gone THEN NoFile ELSE f[h]]

Goto(p, label) == pc' = [pc EXCEPT ![p] = label]

-----------------------------------------------------------------------------
(* rhizome_opendb()                                                         *)

Open(p) ==
    /\ pc[p] = "closed"
    /\ Goto(p, "opening")
    /\ UNCHANGED <<manifests, files, job, rowid>>

\* "DELETE FROM FILES WHERE NOT EXISTS (SELECT 1 FROM MANIFESTS ...)"; an error
\* is only logged.
OpenCleansFiles(p) ==
    /\ pc[p] = "opening"
    /\ \/ files' = Without(files, {h \in Hash : ~Referenced(manifests, h)})
       \/ Faults /\ files' = files
    /\ Goto(p, "repairing")
    /\ UNCHANGED <<manifests, job, rowid>>

\* "DELETE FROM MANIFESTS WHERE filehash != '' AND NOT EXISTS (...)"
OpenCleansManifests(p) ==
    /\ pc[p] = "repairing"
    /\ \/ manifests' = [b \in Bundle |->
             IF manifests[b].hash # NoHash /\ ~Stored(manifests[b].hash)
             THEN NoManifest ELSE manifests[b]]
       \/ Faults /\ manifests' = manifests
    /\ Goto(p, "idle")
    /\ UNCHANGED <<files, job, rowid>>

-----------------------------------------------------------------------------
(* rhizome_bundle_import() and rhizome_add_manifest()                       *)

\* rhizome_bundle_import(): a verified manifest with its payload at hand
Import(p) ==
    /\ pc[p] = "idle" /\ p \in Importer
    /\ \E j \in Job : job' = [job EXCEPT ![p] = j]
    /\ Goto(p, "duplicate")
    /\ UNCHANGED <<manifests, files, rowid>>

\* rhizome_find_duplicate(): a manifest of the same payload and the same name,
\* whatever its version.  Only the "file" service is compared.
Duplicate(j) ==
    /\ j.bundle \in FileService
    /\ \E b \in Bundle : /\ manifests[b].version # 0
                         /\ manifests[b].hash = j.hash
                         /\ Name[b] = Name[j.bundle]

\* rhizome_manifest_check_duplicate()
CheckDuplicate(p) ==
    /\ pc[p] = "duplicate"
    /\ Goto(p, IF Duplicate(job[p]) THEN "idle" ELSE "version")
    /\ UNCHANGED <<manifests, files, job, rowid>>

\* Mutant: only the very same version is rejected.
CheckVersionSame(p) ==
    /\ pc[p] = "version"
    /\ Goto(p, CASE job[p].version = manifests[job[p].bundle].version -> "idle"
                 [] OTHER -> IF job[p].hash = NoHash THEN "store" ELSE "count")
    /\ UNCHANGED <<manifests, files, job, rowid>>

\* rhizome_add_manifest(): only a version newer than the stored one is kept.
CheckVersion(p) ==
    /\ pc[p] = "version"
    /\ Goto(p, CASE job[p].version <= manifests[job[p].bundle].version -> "idle"
                 [] OTHER -> IF job[p].hash = NoHash THEN "store" ELSE "count")
    /\ UNCHANGED <<manifests, files, job, rowid>>

-----------------------------------------------------------------------------
(* rhizome_store_file()                                                     *)

\* A payload that is stored and valid is not stored again.
CountFiles(p) ==
    /\ pc[p] = "count"
    /\ Goto(p, IF files[job[p].hash].state = "valid" THEN "store" ELSE "clean")
    /\ UNCHANGED <<manifests, files, job, rowid>>

\* "DELETE FROM FILES WHERE datavalid=0"; its result does not matter.
DeleteHalfBaked(p) ==
    /\ pc[p] = "clean"
    /\ \/ files' = Without(files, {h \in Hash : files[h].state = "invalid"})
       \/ Faults /\ files' = files
    /\ Goto(p, "insert")
    /\ UNCHANGED <<manifests, job, rowid>>

\* SQLite numbers a new row one above the highest row there is, so the number
\* of a deleted row can be given to another.
NextRow(n) ==
    /\ \A h \in Hash : files[h].row < n
    /\ \E h \in Hash : files[h].row = n - 1

\* Mutant: the row is inserted with datavalid=1.
InsertRowValid(p) ==
    /\ pc[p] = "insert"
    /\ \E n \in 1..MaxRow :
         /\ NextRow(n)
         /\ files' = [files EXCEPT ![job[p].hash] =
               [state |-> "valid", row |-> n, data |-> Zeroes, old |-> FALSE]]
         /\ rowid' = [rowid EXCEPT ![p] = n]
    /\ Goto(p, "blob")
    /\ UNCHANGED <<manifests, job>>

\* INSERT OR REPLACE a row of zeroes with datavalid=0
InsertRow(p) ==
    /\ pc[p] = "insert"
    /\ \E n \in 1..MaxRow :
         /\ NextRow(n)
         /\ files' = [files EXCEPT ![job[p].hash] =
               [state |-> "invalid", row |-> n, data |-> Zeroes, old |-> FALSE]]
         /\ rowid' = [rowid EXCEPT ![p] = n]
    /\ Goto(p, "blob")
    /\ UNCHANGED <<manifests, job>>

\* The transaction that opens the blob of the inserted row, by its number, and
\* writes the payload into it.  Without such a row it is rolled back.
WriteBlob(p) ==
    /\ pc[p] = "blob"
    /\ files' = [h \in Hash |-> IF files[h].row = rowid[p]
                                THEN [files[h] EXCEPT !.data = job[p].hash]
                                ELSE files[h]]
    /\ Goto(p, IF \E h \in Hash : files[h].row = rowid[p] THEN "mark" ELSE "idle")
    /\ UNCHANGED <<manifests, job, rowid>>

\* "UPDATE FILES SET datavalid=1 WHERE id='...'", which also succeeds when
\* there is no such row.
MarkValid(p) ==
    /\ pc[p] = "mark"
    /\ files' = [files EXCEPT ![job[p].hash].state =
                    IF @ = "none" THEN "none" ELSE "valid"]
    /\ Goto(p, "store")
    /\ UNCHANGED <<manifests, job, rowid>>

-----------------------------------------------------------------------------
(* rhizome_store_bundle(), once the payload is stored                       *)

\* Mutant: the unreferenced files are deleted before the manifest is inserted.
StoreManifestLast(p) ==
    /\ pc[p] = "store"
    /\ manifests' = [manifests EXCEPT ![job[p].bundle] =
                        [version |-> job[p].version, hash |-> job[p].hash]]
    /\ files' = Without(files, {h \in Hash : files[h].old /\ ~Referenced(manifests, h)})
    /\ Goto(p, "idle")
    /\ UNCHANGED <<job, rowid>>

\* One transaction: INSERT OR REPLACE the manifest, then delete the files that
\* no manifest refers to and that are more than a minute old.
StoreManifest(p) ==
    /\ pc[p] = "store"
    /\ manifests' = [manifests EXCEPT ![job[p].bundle] =
                        [version |-> job[p].version, hash |-> job[p].hash]]
    /\ files' = Without(files, {h \in Hash : files[h].old /\ ~Referenced(manifests', h)})
    /\ Goto(p, "idle")
    /\ UNCHANGED <<job, rowid>>

-----------------------------------------------------------------------------
(* Errors, exits and crashes                                                *)

Importing == {"duplicate", "version", "count", "clean", "insert", "blob", "mark", "store"}

\* An import gives up: a statement stays busy or fails, the payload cannot be
\* read or no longer has its hash.  What was done before stays done.
Fail(p) ==
    /\ Faults
    /\ pc[p] \in Importing
    /\ Goto(p, "idle")
    /\ UNCHANGED <<manifests, files, job, rowid>>

\* The process exits, or crashes wherever it is.
Exit(p) ==
    /\ pc[p] # "closed"
    /\ Goto(p, "closed")
    /\ UNCHANGED <<manifests, files, job, rowid>>

\* A minute passes.
AgeFile(h) ==
    /\ Stored(h) /\ ~files[h].old
    /\ files' = [files EXCEPT ![h].old = TRUE]
    /\ UNCHANGED <<manifests, pc, job, rowid>>

-----------------------------------------------------------------------------
StoreNext ==
    \/ \E p \in Process :
         \/ Open(p) \/ OpenCleansFiles(p) \/ OpenCleansManifests(p)
         \/ Import(p) \/ CheckDuplicate(p) \/ CheckVersion(p)
         \/ CountFiles(p) \/ DeleteHalfBaked(p) \/ InsertRow(p) \/ WriteBlob(p)
         \/ MarkValid(p) \/ StoreManifest(p)
         \/ Fail(p) \/ Exit(p)
    \/ \E h \in Hash : AgeFile(h)

StoreSpec == StoreInit /\ [][StoreNext]_storeVars

-----------------------------------------------------------------------------
(* Properties                                                               *)

StoreTypeOK ==
    /\ manifests \in [Bundle -> [version : Nat, hash : Hash \cup {NoHash}]]
    /\ files \in [Hash -> File]
    /\ pc \in [Process -> {"closed", "opening", "repairing", "idle"} \cup Importing]
    /\ job \in [Process -> Job]
    /\ rowid \in [Process -> 0..MaxRow]

\* A stored manifest has its payload: whatever fails and wherever the process
\* crashes, rhizome_store_bundle() has stored the file before the manifest, and
\* no clean-up removes a payload that is still referred to.
ManifestHasFile ==
    \A b \in Bundle : manifests[b].hash # NoHash =>
        files[manifests[b].hash].state = "valid"

\* A row that says datavalid=1 holds the payload its id is the hash of.
ValidFilesAreWhole ==
    \A h \in Hash : files[h].state = "valid" => files[h].data = h

\* No import replaces a manifest by an older version of it (the version check
\* of rhizome_add_manifest(), made before the payload is stored).
NoOlderVersion ==
    [][\A b \in Bundle : manifests'[b].version # 0 =>
          manifests'[b].version >= manifests[b].version]_storeVars
=============================================================================

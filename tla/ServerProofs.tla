---------------------------- MODULE ServerProofs ----------------------------
(***************************************************************************)
(* What is proved of what a server keeps on disk and of what it sends, for *)
(* any numbers of bundles, payloads, variables, values and processes,      *)
(* wherever one is killed, and for any interfaces, peers, routes and       *)
(* traffic classes.                                                        *)
(*                                                                         *)
(* The rhizome store: what holds of one process on its own, and of one     *)
(* that imports among others that only open the database.  The retries of  *)
(* a query: how long the server waits for the database.  The configuration *)
(* file: when commands are given one at a time, serval.conf implements the *)
(* settings that the commands promise (a refinement).  The transmit        *)
(* queues: a frame for everybody leaves at most once on each interface,    *)
(* and is not given up before every interface has been dealt with.         *)
(***************************************************************************)
EXTENDS RhizomeStore, SqliteRetry, ConfigFile, OverlayQueue, LoopTheorems

\* What a leaf that names no prover tries, one after the other.
USE SMTT(60), Z3T(60), ZenonT(20), SMTT(90), Z3T(90)

-----------------------------------------------------------------------------
(* Sequences                                                                *)

\* What is appended comes last.
LEMMA LongerByOne ==
    ASSUME NEW S, NEW s \in Seq(S), NEW x \in S
    PROVE  /\ Append(s, x) \in Seq(S) /\ Len(s) \in Nat /\ Len(Append(s, x)) = Len(s) + 1
           /\ Append(s, x)[Len(s) + 1] = x
           /\ \A k \in 1..Len(s) : k \in 1..Len(s) + 1 /\ Append(s, x)[k] = s[k]
           /\ \A k \in 1..Len(s) + 1 : k \in 1..Len(s) \/ k = Len(s) + 1
OBVIOUS

-----------------------------------------------------------------------------
(* The rhizome store                                                        *)

Labels == {"closed", "opening", "repairing", "idle"} \cup Importing

\* Where the payload's hash is known not to be empty.
StoringFile == {"count", "clean", "insert", "blob", "mark"}

\* Where the version has been compared with the stored one.
Checked == StoringFile \cup {"store"}

\* What the rows of FILES always satisfy.
RowInv ==
    /\ \A h \in Hash : files[h].state = "none" => files[h] = NoFile
    /\ \A h \in Hash : files[h].state # "none" => files[h].row # 0
    /\ \A g, h \in Hash : files[g].row = files[h].row /\ files[g].row # 0 => g = h

\* What holds of each process wherever it is.
ProcessInv ==
    \A p \in Process :
        /\ pc[p] \in Importing => p \in Importer
        /\ pc[p] \in StoringFile => job[p].hash \in Hash
        /\ pc[p] = "blob" => rowid[p] # 0

\* The inductive invariant that needs nothing of the processes.
BaseInv == StoreTypeOK /\ RowInv /\ ProcessInv

\* Added with a single importer: until its row is marked valid, the row it
\* inserted is there with the right contents or it is gone.
ImporterInv ==
    /\ ValidFilesAreWhole
    /\ \A p \in Process :
        /\ pc[p] = "blob" =>
             \A h \in Hash : files[h].row = rowid[p] => h = job[p].hash
        /\ pc[p] = "mark" => \/ files[job[p].hash].state = "none"
                             \/ files[job[p].hash].data = job[p].hash
        /\ pc[p] \in Checked => manifests[job[p].bundle].version < job[p].version

\* Added with a single process: the row it inserted is still there, and what it
\* replaces is referred to by no manifest.
LoneInv ==
    /\ ManifestHasFile
    /\ \A p \in Process :
        /\ pc[p] \in {"clean", "insert"} => files[job[p].hash].state # "valid"
        /\ pc[p] = "blob" => /\ files[job[p].hash].state = "invalid"
                             /\ files[job[p].hash].row = rowid[p]
        /\ pc[p] = "mark" => files[job[p].hash].state = "invalid"
        /\ pc[p] = "store" /\ job[p].hash # NoHash => files[job[p].hash].state = "valid"

OneImporter == \A p, q \in Importer : p = q
OneProcess  == \A p, q \in Process : p = q

StoreStep(p) ==
    \/ Open(p) \/ OpenCleansFiles(p) \/ OpenCleansManifests(p)
    \/ Import(p) \/ CheckDuplicate(p) \/ CheckVersion(p)
    \/ CountFiles(p) \/ DeleteHalfBaked(p) \/ InsertRow(p) \/ WriteBlob(p)
    \/ MarkValid(p) \/ StoreManifest(p)
    \/ Fail(p) \/ Exit(p)

-----------------------------------------------------------------------------
(* What holds of any processes                                              *)

\* Deleting rows keeps the others as they are.
LEMMA WithoutRows ==
    ASSUME NEW f \in [Hash -> File], NEW gone
    PROVE  /\ Without(f, gone) \in [Hash -> File]
           /\ \A h \in Hash : Without(f, gone)[h] = f[h] \/ Without(f, gone)[h] = NoFile
           /\ \A h \in Hash : h \notin gone => Without(f, gone)[h] = f[h]
BY StoreAssumption DEF Without, File, NoFile, Zeroes

\* So RowInv survives any deletion.
LEMMA RowsDeleted ==
    ASSUME StoreTypeOK, RowInv, NEW gone, files' = Without(files, gone)
    PROVE  RowInv' /\ files' \in [Hash -> File]
PROOF
<1>1. files' \in [Hash -> File] /\ \A h \in Hash : files'[h] = files[h] \/ files'[h] = NoFile
  BY WithoutRows, ZenonT(60) DEF StoreTypeOK
<1>2. NoFile.state = "none" /\ NoFile.row = 0
  BY ZenonT(60) DEF NoFile
<1>3. ASSUME NEW h \in Hash
      PROVE  /\ files'[h].state = "none" => files'[h] = NoFile
             /\ files'[h].state # "none" => files'[h].row # 0
  BY <1>1, <1>2, ZenonT(60) DEF RowInv
<1>4. ASSUME NEW g \in Hash, NEW h \in Hash,
             files'[g].row = files'[h].row, files'[g].row # 0
      PROVE  g = h
  BY <1>1, <1>2, <1>4, ZenonT(60) DEF RowInv
<1> QED BY <1>1, <1>3, <1>4, ZenonT(60) DEF RowInv

\* Every step of a process keeps the types and the shape of the rows.
LEMMA BaseStep ==
    ASSUME BaseInv, NEW p \in Process, StoreStep(p)
    PROVE  BaseInv'
PROOF
<1> USE DEF Importing, StoringFile
<1>1. CASE Open(p)
  BY <1>1, ZenonT(60) DEF BaseInv, StoreTypeOK, RowInv, ProcessInv, Open, Goto
<1>2. CASE OpenCleansFiles(p)
  <2>1. files' \in [Hash -> File] /\ RowInv'
    <3>1. CASE files' = files
      BY <3>1, ZenonT(60) DEF BaseInv, StoreTypeOK, RowInv
    <3> QED BY <1>2, <3>1, RowsDeleted, ZenonT(60) DEF BaseInv, OpenCleansFiles
  <2> QED BY <1>2, <2>1, ZenonT(60) DEF BaseInv, StoreTypeOK, ProcessInv, OpenCleansFiles, Goto
<1>3. CASE OpenCleansManifests(p)
  BY <1>3, StoreAssumption DEF BaseInv, StoreTypeOK, RowInv, ProcessInv, NoManifest,
     OpenCleansManifests, Goto
<1>4. CASE Import(p)
  BY <1>4 DEF BaseInv, StoreTypeOK, RowInv, ProcessInv, Import, Goto
<1>5. CASE CheckDuplicate(p)
  BY <1>5, ZenonT(60) DEF BaseInv, StoreTypeOK, RowInv, ProcessInv, CheckDuplicate, Goto
<1>6. CASE CheckVersion(p)
  <2>1. job[p].hash \in Hash \cup {NoHash}
    BY StoreAssumption DEF BaseInv, StoreTypeOK
  <2> QED BY <1>6, <2>1, ZenonT(60) DEF BaseInv, StoreTypeOK, RowInv, ProcessInv,
          CheckVersion, Goto
<1>7. CASE CountFiles(p)
  BY <1>7, ZenonT(60) DEF BaseInv, StoreTypeOK, RowInv, ProcessInv, CountFiles, Goto
<1>8. CASE DeleteHalfBaked(p)
  <2>1. files' \in [Hash -> File] /\ RowInv'
    <3>1. CASE files' = files
      BY <3>1, ZenonT(60) DEF BaseInv, StoreTypeOK, RowInv
    <3> QED BY <1>8, <3>1, RowsDeleted, ZenonT(60) DEF BaseInv, DeleteHalfBaked
  <2> QED BY <1>8, <2>1, ZenonT(60) DEF BaseInv, StoreTypeOK, ProcessInv, DeleteHalfBaked, Goto
<1>9. CASE InsertRow(p)
  <2>1. PICK n \in 1..MaxRow :
          /\ NextRow(n)
          /\ files' = [files EXCEPT ![job[p].hash] =
                [state |-> "invalid", row |-> n, data |-> Zeroes, old |-> FALSE]]
          /\ rowid' = [rowid EXCEPT ![p] = n]
    BY <1>9, ZenonT(60) DEF InsertRow
  <2>2. job[p].hash \in Hash
    BY <1>9, ZenonT(60) DEF BaseInv, ProcessInv, InsertRow
  <2>3. files' \in [Hash -> File]
    BY <2>1, <2>2, StoreAssumption DEF BaseInv, StoreTypeOK, File, Zeroes
  <2>4. RowInv'
    <3>1. /\ files'[job[p].hash].state = "invalid" /\ files'[job[p].hash].row = n
          /\ \A h \in Hash : h # job[p].hash => files'[h] = files[h]
      BY <2>1, <2>2, ZenonT(60) DEF BaseInv, StoreTypeOK
    <3>2. n # 0 /\ \A h \in Hash : files[h].row # n
      BY <2>1, StoreAssumption DEF NextRow, BaseInv, StoreTypeOK, File
    <3> QED BY <3>1, <3>2 DEF BaseInv, RowInv
  <2> QED BY <1>9, <2>1, <2>2, <2>3, <2>4, StoreAssumption
         DEF BaseInv, StoreTypeOK, ProcessInv, InsertRow, Goto
<1>10. CASE WriteBlob(p)
  <2>1. job[p].hash \in Hash
    BY <1>10, ZenonT(60) DEF BaseInv, ProcessInv, WriteBlob
  <2>2. files' \in [Hash -> File]
    BY <1>10, <2>1 DEF BaseInv, StoreTypeOK, File, WriteBlob
  <2>3. \A h \in Hash : /\ files'[h].state = files[h].state
                        /\ files'[h].row = files[h].row
    BY <1>10 DEF BaseInv, StoreTypeOK, File, WriteBlob
  <2>4. ASSUME NEW h \in Hash, files[h].state = "none" PROVE files'[h] = files[h]
    <3>1. files[h].row = 0 /\ files[h].data = Zeroes
      BY <2>4 DEF BaseInv, RowInv, NoFile
    <3>2. rowid[p] # 0
      BY <1>10, ZenonT(60) DEF BaseInv, ProcessInv, WriteBlob
    <3> QED BY <1>10, <3>1, <3>2, ZenonT(60) DEF WriteBlob
  <2>5. RowInv'
    BY <2>3, <2>4 DEF BaseInv, RowInv
  <2> QED BY <1>10, <2>2, <2>5, ZenonT(60) DEF BaseInv, StoreTypeOK, ProcessInv, WriteBlob, Goto
<1>11. CASE MarkValid(p)
  <2>1. job[p].hash \in Hash
    BY <1>11, ZenonT(60) DEF BaseInv, ProcessInv, MarkValid
  <2>2. files' \in [Hash -> File]
    BY <1>11, <2>1 DEF BaseInv, StoreTypeOK, File, MarkValid
  <2>3. \A h \in Hash : /\ files'[h].row = files[h].row
                        /\ files'[h].state = "none" <=> files[h].state = "none"
                        /\ files[h].state = "none" => files'[h] = files[h]
    BY <1>11, <2>1 DEF BaseInv, StoreTypeOK, File, MarkValid
  <2>4. RowInv'
    BY <2>3 DEF BaseInv, RowInv
  <2> QED BY <1>11, <2>2, <2>4, ZenonT(60) DEF BaseInv, StoreTypeOK, ProcessInv, MarkValid, Goto
<1>12. CASE StoreManifest(p)
  <2>1. files' \in [Hash -> File] /\ RowInv'
    BY <1>12, RowsDeleted, ZenonT(60) DEF BaseInv, StoreManifest
  <2>2. job[p] \in [bundle : Bundle, version : Nat \ {0}, hash : Hash \cup {NoHash}]
    BY StoreAssumption, ZenonT(60) DEF BaseInv, StoreTypeOK
  <2>3. manifests' \in [Bundle -> [version : Nat, hash : Hash \cup {NoHash}]]
    BY <1>12, <2>2, ZenonT(60) DEF BaseInv, StoreTypeOK, StoreManifest
  <2> QED BY <1>12, <2>1, <2>3, ZenonT(60) DEF BaseInv, StoreTypeOK, ProcessInv, StoreManifest, Goto
<1>13. CASE Fail(p)
  BY <1>13, ZenonT(60) DEF BaseInv, StoreTypeOK, RowInv, ProcessInv, Fail, Goto
<1>14. CASE Exit(p)
  BY <1>14, ZenonT(60) DEF BaseInv, StoreTypeOK, RowInv, ProcessInv, Exit, Goto
<1> QED BY <1>1, <1>2, <1>3, <1>4, <1>5, <1>6, <1>7, <1>8, <1>9, <1>10, <1>11, <1>12, <1>13, <1>14, ZenonT(60) DEF StoreStep

\* So does the passing of a minute.
LEMMA BaseAge ==
    ASSUME BaseInv, NEW h \in Hash, AgeFile(h)
    PROVE  BaseInv'
PROOF
<1>1. files' \in [Hash -> File]
  BY ZenonT(60) DEF BaseInv, StoreTypeOK, AgeFile, File
<1>2. \A g \in Hash : /\ files'[g].row = files[g].row
                      /\ files'[g].state = files[g].state
                      /\ files[g].state = "none" => files'[g] = files[g]
  BY ZenonT(60) DEF BaseInv, StoreTypeOK, AgeFile, Stored, File
<1>3. RowInv'
  BY <1>2 DEF BaseInv, RowInv
<1> QED BY <1>1, <1>3, ZenonT(60) DEF BaseInv, StoreTypeOK, ProcessInv, AgeFile

\* Every variable of the store keeps its type, and two rows never share a
\* number, whatever the processes do.
THEOREM BaseInvariance == StoreSpec => []BaseInv
PROOF
<1>1. StoreInit => BaseInv
  BY StoreAssumption DEF StoreInit, BaseInv, StoreTypeOK, RowInv, ProcessInv, File, NoFile, Zeroes,
     NoManifest, Importing, StoringFile
<1>2. BaseInv /\ [StoreNext]_storeVars => BaseInv'
  <2>1. CASE UNCHANGED storeVars
    BY <2>1, ZenonT(60) DEF storeVars, BaseInv, StoreTypeOK, RowInv, ProcessInv
  <2> QED BY <2>1, BaseStep, BaseAge, ZenonT(60) DEF StoreNext, StoreStep
<1> QED BY <1>1, <1>2, PTL DEF StoreSpec

\* Types, as TLC checks them.
THEOREM StoreTypeCorrect == StoreSpec => []StoreTypeOK
BY BaseInvariance, PTL DEF BaseInv

-----------------------------------------------------------------------------
(* One process                                                              *)

\* Every step of the only process keeps manifests and payloads together.
LEMMA LoneStep ==
    ASSUME OneProcess, BaseInv, LoneInv, NEW p \in Process, StoreStep(p)
    PROVE  LoneInv'
PROOF
<1> USE DEF Importing, StoringFile, OneProcess
<1>1. CASE Open(p)
  BY <1>1, ZenonT(60) DEF BaseInv, StoreTypeOK, LoneInv, ManifestHasFile, Open, Goto
<1>2. CASE OpenCleansFiles(p)
  <2>1. \A b \in Bundle : manifests[b].hash # NoHash =>
            files'[manifests[b].hash] = files[manifests[b].hash]
    BY <1>2, ZenonT(60) DEF BaseInv, StoreTypeOK, OpenCleansFiles, Without, Referenced
  <2> QED BY <1>2, <2>1 DEF BaseInv, StoreTypeOK, LoneInv, ManifestHasFile, OpenCleansFiles, Goto
<1>3. CASE OpenCleansManifests(p)
  <2>1. \A b \in Bundle : manifests'[b].hash # NoHash => manifests'[b] = manifests[b]
    BY <1>3 DEF BaseInv, StoreTypeOK, OpenCleansManifests, NoManifest
  <2> QED BY <1>3, <2>1 DEF BaseInv, StoreTypeOK, LoneInv, ManifestHasFile, OpenCleansManifests, Goto
<1>4. CASE Import(p)
  BY <1>4 DEF BaseInv, StoreTypeOK, LoneInv, ManifestHasFile, Import, Goto
<1>5. CASE CheckDuplicate(p)
  BY <1>5, ZenonT(60) DEF BaseInv, StoreTypeOK, LoneInv, ManifestHasFile, CheckDuplicate, Goto
<1>6. CASE CheckVersion(p)
  BY <1>6, ZenonT(60) DEF BaseInv, StoreTypeOK, LoneInv, ManifestHasFile, CheckVersion, Goto
<1>7. CASE CountFiles(p)
  BY <1>7, ZenonT(60) DEF BaseInv, StoreTypeOK, LoneInv, ManifestHasFile, CountFiles, Goto
<1>8. CASE DeleteHalfBaked(p)
  <2>1. \A h \in Hash : /\ files[h].state = "valid" => files'[h] = files[h]
                        /\ files'[h].state = "valid" => files[h].state = "valid"
    BY <1>8 DEF BaseInv, StoreTypeOK, DeleteHalfBaked, Without, NoFile
  <2>2. job[p].hash \in Hash /\ files[job[p].hash].state # "valid"
    BY <1>8, ZenonT(60) DEF BaseInv, ProcessInv, LoneInv, DeleteHalfBaked
  <2>3. ManifestHasFile'
    BY <1>8, <2>1 DEF BaseInv, StoreTypeOK, LoneInv, ManifestHasFile, DeleteHalfBaked
  <2> QED BY <1>8, <2>1, <2>2, <2>3 DEF BaseInv, StoreTypeOK, LoneInv, DeleteHalfBaked, Goto
<1>9. CASE InsertRow(p)
  <2>1. PICK n \in 1..MaxRow :
          /\ files' = [files EXCEPT ![job[p].hash] =
                [state |-> "invalid", row |-> n, data |-> Zeroes, old |-> FALSE]]
          /\ rowid' = [rowid EXCEPT ![p] = n]
    BY <1>9, ZenonT(60) DEF InsertRow
  <2>2. job[p].hash \in Hash /\ files[job[p].hash].state # "valid"
    BY <1>9, ZenonT(60) DEF BaseInv, ProcessInv, LoneInv, InsertRow
  <2>3. /\ files'[job[p].hash].state = "invalid" /\ files'[job[p].hash].row = n
        /\ \A h \in Hash : h # job[p].hash => files'[h] = files[h]
    BY <2>1, <2>2, ZenonT(60) DEF BaseInv, StoreTypeOK
  <2>4. ManifestHasFile'
    BY <1>9, <2>2, <2>3 DEF BaseInv, StoreTypeOK, LoneInv, ManifestHasFile, InsertRow
  <2> QED BY <1>9, <2>1, <2>3, <2>4 DEF BaseInv, StoreTypeOK, LoneInv, InsertRow, Goto
<1>10. CASE WriteBlob(p)
  <2>1. \A h \in Hash : files'[h].state = files[h].state
    BY <1>10 DEF BaseInv, StoreTypeOK, File, WriteBlob
  <2>2. job[p].hash \in Hash
    BY <1>10, ZenonT(60) DEF BaseInv, ProcessInv, WriteBlob
  <2>3. ManifestHasFile'
    BY <1>10, <2>1 DEF BaseInv, StoreTypeOK, LoneInv, ManifestHasFile, WriteBlob
  <2> QED BY <1>10, <2>1, <2>2, <2>3 DEF BaseInv, StoreTypeOK, LoneInv, WriteBlob, Goto
<1>11. CASE MarkValid(p)
  <2>1. job[p].hash \in Hash /\ files[job[p].hash].state = "invalid"
    BY <1>11, ZenonT(60) DEF BaseInv, ProcessInv, LoneInv, MarkValid
  <2>2. /\ files'[job[p].hash].state = "valid"
        /\ \A h \in Hash : h # job[p].hash => files'[h] = files[h]
    BY <1>11, <2>1 DEF BaseInv, StoreTypeOK, File, MarkValid
  <2>3. ManifestHasFile'
    BY <1>11, <2>1, <2>2 DEF BaseInv, StoreTypeOK, LoneInv, ManifestHasFile, MarkValid
  <2> QED BY <1>11, <2>2, <2>3, ZenonT(60) DEF BaseInv, StoreTypeOK, LoneInv, MarkValid, Goto
<1>12. CASE StoreManifest(p)
  <2>1. /\ job[p].bundle \in Bundle
        /\ manifests' = [manifests EXCEPT ![job[p].bundle] =
                            [version |-> job[p].version, hash |-> job[p].hash]]
        /\ pc' = [pc EXCEPT ![p] = "idle"]
    BY <1>12, StoreAssumption DEF BaseInv, StoreTypeOK, StoreManifest, Goto
  <2>2. \A b \in Bundle : \/ manifests'[b] = manifests[b]
                          \/ manifests'[b].hash = job[p].hash
    BY <2>1, ZenonT(60) DEF BaseInv, StoreTypeOK
  <2>3. \A b \in Bundle : manifests'[b].hash # NoHash =>
           files[manifests'[b].hash].state = "valid"
    BY <1>12, <2>2 DEF LoneInv, ManifestHasFile, StoreManifest
  <2>4. manifests' \in [Bundle -> [version : Nat, hash : Hash \cup {NoHash}]]
    BY BaseStep, <1>12, ZenonT(60) DEF BaseInv, StoreTypeOK, StoreStep
  <2>5. \A b \in Bundle : manifests'[b].hash # NoHash =>
           files'[manifests'[b].hash] = files[manifests'[b].hash]
    BY <1>12, <2>4, ZenonT(60) DEF StoreManifest, Without, Referenced
  <2>6. ManifestHasFile'
    BY <2>3, <2>5, ZenonT(60) DEF ManifestHasFile
  <2> QED BY <2>1, <2>6, ZenonT(60) DEF BaseInv, StoreTypeOK, LoneInv
<1>13. CASE Fail(p)
  BY <1>13, ZenonT(60) DEF BaseInv, StoreTypeOK, LoneInv, ManifestHasFile, Fail, Goto
<1>14. CASE Exit(p)
  BY <1>14, ZenonT(60) DEF BaseInv, StoreTypeOK, LoneInv, ManifestHasFile, Exit, Goto
<1> QED BY <1>1, <1>2, <1>3, <1>4, <1>5, <1>6, <1>7, <1>8, <1>9, <1>10, <1>11, <1>12, <1>13, <1>14, ZenonT(60) DEF StoreStep

\* A process that is alone with its database never leaves a manifest without
\* its payload, wherever it fails or crashes (rhizome_store_bundle() and
\* rhizome_opendb()).
THEOREM LoneProcessConsistent == OneProcess => (StoreSpec => []ManifestHasFile)
PROOF
<1> SUFFICES ASSUME OneProcess PROVE StoreSpec => []ManifestHasFile
  BY ZenonT(60)
<1>1. StoreInit => LoneInv
  BY StoreAssumption DEF StoreInit, LoneInv, ManifestHasFile, NoManifest
<1>2. BaseInv /\ LoneInv /\ [StoreNext]_storeVars => LoneInv'
  <2>1. CASE UNCHANGED storeVars
    BY <2>1, ZenonT(60) DEF storeVars, LoneInv, ManifestHasFile
  <2>2. ASSUME BaseInv, LoneInv, NEW h \in Hash, AgeFile(h) PROVE LoneInv'
    <3>1. \A g \in Hash : files'[g].state = files[g].state /\ files'[g].row = files[g].row
      BY <2>2, ZenonT(60) DEF BaseInv, StoreTypeOK, AgeFile, File
    <3> QED BY <2>2, <3>1 DEF BaseInv, StoreTypeOK, ProcessInv, StoringFile, LoneInv,
            ManifestHasFile, AgeFile
  <2> QED BY <2>1, <2>2, LoneStep, ZenonT(60) DEF StoreNext, StoreStep
<1>3. LoneInv => ManifestHasFile
  BY ZenonT(60) DEF LoneInv
<1> QED BY <1>1, <1>2, <1>3, BaseInvariance, PTL DEF StoreSpec

-----------------------------------------------------------------------------
(* One importing process among others                                       *)

\* Every step of any process keeps what the importer relies on.
LEMMA ImporterStep ==
    ASSUME OneImporter, BaseInv, ImporterInv, NEW p \in Process, StoreStep(p)
    PROVE  ImporterInv'
PROOF
<1> USE DEF Importing, StoringFile, Checked
<1>1. CASE Open(p)
  BY <1>1, ZenonT(60) DEF BaseInv, StoreTypeOK, ProcessInv, ImporterInv, ValidFilesAreWhole, OneImporter, Open, Goto
<1>2. CASE OpenCleansFiles(p)
  <2>1. \A h \in Hash : files'[h] = files[h] \/ files'[h] = NoFile
    BY <1>2, WithoutRows DEF BaseInv, StoreTypeOK, OpenCleansFiles
  <2>2. NoFile.state = "none" /\ NoFile.row = 0
    BY ZenonT(60) DEF NoFile
  <2>3. ValidFilesAreWhole'
    BY <2>1, <2>2, ZenonT(60) DEF ImporterInv, ValidFilesAreWhole
  <2> QED BY <1>2, <2>1, <2>2, <2>3 DEF BaseInv, StoreTypeOK, ProcessInv, ImporterInv, OpenCleansFiles, Goto
<1>3. CASE OpenCleansManifests(p)
  <2>1. \A b \in Bundle : \/ manifests'[b] = manifests[b]
                          \/ manifests'[b].version = 0
    BY <1>3 DEF OpenCleansManifests, NoManifest
  <2>2. \A q \in Process : job[q].bundle \in Bundle /\ job[q].version > 0
    BY StoreAssumption DEF BaseInv, StoreTypeOK
  <2> QED BY <1>3, <2>1, <2>2 DEF BaseInv, StoreTypeOK, ProcessInv, ImporterInv, ValidFilesAreWhole, OneImporter, OpenCleansManifests, Goto
<1>4. CASE Import(p)
  BY <1>4 DEF BaseInv, StoreTypeOK, ProcessInv, ImporterInv, ValidFilesAreWhole, OneImporter, Import, Goto
<1>5. CASE CheckDuplicate(p)
  BY <1>5, ZenonT(60) DEF BaseInv, StoreTypeOK, ProcessInv, ImporterInv, ValidFilesAreWhole, OneImporter, CheckDuplicate, Goto
<1>6. CASE CheckVersion(p)
  <2>1. /\ job[p].version \in Nat
        /\ manifests[job[p].bundle].version \in Nat
    BY StoreAssumption DEF BaseInv, StoreTypeOK
  <2> QED BY <1>6, <2>1 DEF BaseInv, StoreTypeOK, ProcessInv, ImporterInv, ValidFilesAreWhole, OneImporter, CheckVersion, Goto
<1>7. CASE CountFiles(p)
  BY <1>7, ZenonT(60) DEF BaseInv, StoreTypeOK, ProcessInv, ImporterInv, ValidFilesAreWhole, OneImporter, CountFiles, Goto
<1>8. CASE DeleteHalfBaked(p)
  <2>1. \A h \in Hash : files'[h] = files[h] \/ files'[h] = NoFile
    BY <1>8, WithoutRows DEF BaseInv, StoreTypeOK, DeleteHalfBaked
  <2>2. NoFile.state = "none" /\ NoFile.row = 0
    BY ZenonT(60) DEF NoFile
  <2>3. ValidFilesAreWhole'
    BY <2>1, <2>2, ZenonT(60) DEF ImporterInv, ValidFilesAreWhole
  <2> QED BY <1>8, <2>1, <2>2, <2>3 DEF BaseInv, StoreTypeOK, ProcessInv, ImporterInv, DeleteHalfBaked, Goto
<1>9. CASE InsertRow(p)
  <2>1. PICK n \in 1..MaxRow :
          /\ NextRow(n)
          /\ files' = [files EXCEPT ![job[p].hash] =
                [state |-> "invalid", row |-> n, data |-> Zeroes, old |-> FALSE]]
          /\ rowid' = [rowid EXCEPT ![p] = n]
    BY <1>9, ZenonT(60) DEF InsertRow
  <2>2. job[p].hash \in Hash
    BY <1>9, ZenonT(60) DEF BaseInv, ProcessInv, InsertRow
  <2>3. /\ files'[job[p].hash].state = "invalid" /\ files'[job[p].hash].row = n
        /\ \A h \in Hash : h # job[p].hash => files'[h] = files[h]
    BY <2>1, <2>2, ZenonT(60) DEF BaseInv, StoreTypeOK
  <2>4. \A h \in Hash : files[h].row # n
    BY <2>1, StoreAssumption DEF NextRow, BaseInv, StoreTypeOK, File
  <2>5. ValidFilesAreWhole'
    BY <2>3 DEF ImporterInv, ValidFilesAreWhole
  <2>6. \A q \in Process : pc[q] \in Importing => q = p
    BY <1>9, ZenonT(60) DEF BaseInv, ProcessInv, OneImporter, InsertRow
  <2> QED BY <1>9, <2>1, <2>3, <2>4, <2>5, <2>6
          DEF BaseInv, StoreTypeOK, ImporterInv, InsertRow, Goto
<1>10. CASE WriteBlob(p)
  <2>1. job[p].hash \in Hash
    BY <1>10, ZenonT(60) DEF BaseInv, ProcessInv, WriteBlob
  <2>2. \A h \in Hash : files[h].row = rowid[p] => h = job[p].hash
    BY <1>10, ZenonT(60) DEF ImporterInv, WriteBlob
  <2>3. \A h \in Hash : /\ files'[h].state = files[h].state
                        /\ files'[h].data = IF files[h].row = rowid[p] THEN h ELSE files[h].data
    BY <1>10, <2>2, ZenonT(60) DEF BaseInv, StoreTypeOK, File, WriteBlob
  <2>4. ValidFilesAreWhole'
    BY <2>3, ZenonT(60) DEF ImporterInv, ValidFilesAreWhole
  <2>5. \A q \in Process : pc[q] \in Importing => q = p
    BY <1>10, ZenonT(60) DEF BaseInv, ProcessInv, OneImporter, WriteBlob
  <2>6. pc'[p] = "mark" => files'[job[p].hash].data = job[p].hash
    BY <1>10, <2>1, <2>2, <2>3, ZenonT(60) DEF BaseInv, StoreTypeOK, WriteBlob, Goto
  <2> QED BY <1>10, <2>4, <2>5, <2>6, ZenonT(60) DEF BaseInv, StoreTypeOK, ImporterInv, WriteBlob, Goto
<1>11. CASE MarkValid(p)
  <2>1. job[p].hash \in Hash
    BY <1>11, ZenonT(60) DEF BaseInv, ProcessInv, MarkValid
  <2>2. /\ \A h \in Hash : files'[h].data = files[h].data
        /\ \A h \in Hash : files'[h].state = "valid" =>
              files[h].state = "valid" \/ (h = job[p].hash /\ files[h].state # "none")
    BY <1>11, <2>1 DEF BaseInv, StoreTypeOK, File, MarkValid
  <2>3. ValidFilesAreWhole'
    BY <1>11, <2>2 DEF ImporterInv, ValidFilesAreWhole, MarkValid
  <2>4. \A q \in Process : pc[q] \in Importing => q = p
    BY <1>11 DEF BaseInv, ProcessInv, OneImporter, MarkValid
  <2> QED BY <1>11, <2>3, <2>4, ZenonT(60) DEF BaseInv, StoreTypeOK, ImporterInv, MarkValid, Goto
<1>12. CASE StoreManifest(p)
  <2>1. \A h \in Hash : files'[h] = files[h] \/ files'[h] = NoFile
    BY <1>12, WithoutRows, ZenonT(60) DEF BaseInv, StoreTypeOK, StoreManifest
  <2>2. ValidFilesAreWhole'
    BY <2>1 DEF ImporterInv, ValidFilesAreWhole, NoFile
  <2>3. \A q \in Process : pc[q] \in Importing => q = p
    BY <1>12, ZenonT(60) DEF BaseInv, ProcessInv, OneImporter, StoreManifest
  <2> QED BY <1>12, <2>2, <2>3, ZenonT(60) DEF BaseInv, StoreTypeOK, ImporterInv, StoreManifest, Goto
<1>13. CASE Fail(p)
  BY <1>13, ZenonT(60) DEF BaseInv, StoreTypeOK, ProcessInv, ImporterInv, ValidFilesAreWhole, OneImporter, Fail, Goto
<1>14. CASE Exit(p)
  BY <1>14, ZenonT(60) DEF BaseInv, StoreTypeOK, ProcessInv, ImporterInv, ValidFilesAreWhole, OneImporter, Exit, Goto
<1> QED BY <1>1, <1>2, <1>3, <1>4, <1>5, <1>6, <1>7, <1>8, <1>9, <1>10, <1>11, <1>12, <1>13, <1>14, ZenonT(60) DEF StoreStep

\* ImporterInv holds throughout when one process imports.
LEMMA ImporterInvariance == OneImporter => (StoreSpec => []ImporterInv)
PROOF
<1> SUFFICES ASSUME OneImporter PROVE StoreSpec => []ImporterInv
  BY ZenonT(60)
<1>1. StoreInit => ImporterInv
  BY DEF StoreInit, ImporterInv, ValidFilesAreWhole, NoFile, Checked, StoringFile
<1>2. BaseInv /\ ImporterInv /\ [StoreNext]_storeVars => ImporterInv'
  <2>1. CASE UNCHANGED storeVars
    BY <2>1, ZenonT(60) DEF storeVars, ImporterInv, ValidFilesAreWhole
  <2>2. ASSUME BaseInv, ImporterInv, NEW h \in Hash, AgeFile(h) PROVE ImporterInv'
    <3>1. \A g \in Hash : /\ files'[g].state = files[g].state
                          /\ files'[g].row = files[g].row
                          /\ files'[g].data = files[g].data
      BY <2>2, ZenonT(60) DEF BaseInv, StoreTypeOK, AgeFile, File
    <3> QED BY <2>2, <3>1 DEF BaseInv, StoreTypeOK, ProcessInv, StoringFile, ImporterInv,
            ValidFilesAreWhole, AgeFile
  <2> QED BY <2>1, <2>2, ImporterStep, ZenonT(60) DEF StoreNext, StoreStep
<1> QED BY <1>1, <1>2, BaseInvariance, PTL DEF StoreSpec

\* With one importing process, a row marked valid holds its payload, however
\* many other processes open and clean the database (rhizome_store_file()).
THEOREM SoleImporterWhole == OneImporter => (StoreSpec => []ValidFilesAreWhole)
BY ImporterInvariance, PTL DEF ImporterInv

\* With one importing process, no manifest is replaced by an older version
\* (the check in rhizome_add_manifest() is still good when the manifest is
\* stored).
THEOREM SoleImporterVersions == OneImporter => (StoreSpec => NoOlderVersion)
PROOF
<1> SUFFICES ASSUME OneImporter PROVE StoreSpec => NoOlderVersion
  BY ZenonT(60)
<1>1. BaseInv /\ ImporterInv /\ [StoreNext]_storeVars =>
        [\A b \in Bundle : manifests'[b].version # 0 =>
            manifests'[b].version >= manifests[b].version]_storeVars
  <2> SUFFICES ASSUME BaseInv, ImporterInv, StoreNext, NEW b \in Bundle, manifests'[b].version # 0
               PROVE  manifests'[b].version >= manifests[b].version
    BY ZenonT(60)
  <2>1. manifests[b].version \in Nat
    BY ZenonT(60) DEF BaseInv, StoreTypeOK
  <2>2. CASE manifests' = manifests
    BY <2>1, <2>2
  <2>3. ASSUME NEW p \in Process, OpenCleansManifests(p)
        PROVE  manifests'[b].version >= manifests[b].version
    BY <2>1, <2>3 DEF OpenCleansManifests, NoManifest
  <2>4. ASSUME NEW p \in Process, StoreManifest(p)
        PROVE  manifests'[b].version >= manifests[b].version
    <3>1. /\ manifests[job[p].bundle].version < job[p].version
          /\ job[p].version \in Nat
      BY <2>4, StoreAssumption DEF BaseInv, StoreTypeOK, ImporterInv, Checked, StoreManifest
    <3> QED BY <2>1, <2>4, <3>1 DEF BaseInv, StoreTypeOK, StoreManifest
  <2> QED BY <2>2, <2>3, <2>4, ZenonT(60) DEF StoreNext, Open, OpenCleansFiles, Import, CheckDuplicate,
          CheckVersion, CountFiles, DeleteHalfBaked, InsertRow, WriteBlob, MarkValid, Fail,
          Exit, AgeFile
<1> QED BY <1>1, BaseInvariance, ImporterInvariance, PTL DEF StoreSpec, NoOlderVersion

-----------------------------------------------------------------------------
(* The retries of a query                                                   *)

\* In the server the start of the variable is the time it was busy first, and
\* lies in the past.
RetryInv ==
    /\ RetryTypeOK
    /\ retry.start <= now
    /\ serverMode => first = retry.start
    /\ ~serverMode => (first = -1 => retry.start = -1)

\* The types and the meaning of the start are kept.
THEOREM RetryInvariance == RetrySpec => []RetryInv
<1> USE RetryAssumption
<1>1. RetryInit => RetryInv
  BY DEF RetryInit, Fresh, RetryInv, RetryTypeOK
<1>2. RetryInv /\ [RetryNext]_retryVars => RetryInv'
  <2> SUFFICES ASSUME RetryInv, [RetryNext]_retryVars PROVE RetryInv'
    BY ZenonT(60)
  <2> USE DEF RetryInv, RetryTypeOK
  <2>1. CASE Begin
    BY <2>1, ZenonT(60) DEF Begin
  <2>2. CASE Busy
    <3>1. Counted \in [elapsed : Nat, start : Nat, busy : BOOLEAN] /\ Counted.start <= now
      BY DEF Counted
    <3>2. serverMode => first' = Counted.start
      BY <2>2, ZenonT(60) DEF Busy, Counted
    <3>3. first' \in Nat
      BY <2>2, ZenonT(60) DEF Busy
    <3> HIDE DEF RetryInv
    <3>4. CASE Counted.elapsed >= Limit
      <4>1. retry' = Done(Counted) /\ now' = now /\ phase' = "idle" /\ event' = "giveup"
        BY <2>2, <3>4, ZenonT(60) DEF Busy
      <4> QED BY <3>1, <3>2, <3>3, <4>1 DEF Done, RetryInv
    <3>5. CASE ~(Counted.elapsed >= Limit)
      <4>1. retry' = Counted /\ now' = now + Sleep /\ phase' = phase /\ event' = "again"
        BY <2>2, <3>5, ZenonT(60) DEF Busy
      <4> QED BY <3>1, <3>2, <3>3, <4>1 DEF RetryInv
    <3> QED BY <3>4, <3>5, ZenonT(60)
  <2>3. CASE Prepared
    BY <2>3, ZenonT(60) DEF Prepared
  <2>4. CASE Stepped
    BY <2>4 DEF Stepped, Done
  <2>5. CASE Failed
    BY <2>5, ZenonT(60) DEF Failed
  <2>6. CASE NewCaller
    BY <2>6 DEF NewCaller, Fresh
  <2>7. CASE Tick
    BY <2>7 DEF Tick
  <2>8. CASE UNCHANGED retryVars
    BY <2>8, ZenonT(60) DEF retryVars
  <2> QED BY <2>1, <2>2, <2>3, <2>4, <2>5, <2>6, <2>7, <2>8, ZenonT(60) DEF RetryNext
<1> QED BY <1>1, <1>2, PTL DEF RetrySpec

\* The retry variable and the times have their types.
THEOREM RetryTypeCorrect == RetrySpec => []RetryTypeOK
<1>1. RetryInv => RetryTypeOK
  BY ZenonT(60) DEF RetryInv
<1> QED BY <1>1, RetryInvariance, PTL

\* Whatever queries share the variable, the server waits once more only while
\* less than the limit has passed since the first of them was held up
\* (_sqlite_retry()).
THEOREM LatencyBounded == RetrySpec => CumulativeLatency
<1> USE RetryAssumption
<1>1. RetryInv /\ [RetryNext]_retryVars => [serverMode /\ event' = "again" => now - first' < Limit]_retryVars
  <2> SUFFICES ASSUME RetryInv, RetryNext, serverMode, event' = "again" PROVE now - first' < Limit
    BY ZenonT(60) DEF retryVars
  <2>1. Busy
    <3>1. ~(Begin \/ Prepared \/ Stepped \/ Failed \/ NewCaller \/ Tick)
      BY ZenonT(60) DEF Begin, Prepared, Stepped, Failed, NewCaller, Tick
    <3> QED BY <3>1, ZenonT(60) DEF RetryNext
  <2>2. Counted.elapsed < Limit
    BY <2>1 DEF Busy, RetryInv, RetryTypeOK, Counted
  <2>3. first' = Counted.start
    BY <2>1, ZenonT(60) DEF Busy, Counted, RetryInv, RetryTypeOK
  <2>4. now - Counted.start <= Counted.elapsed
    BY DEF Counted, RetryInv, RetryTypeOK
  <2>5. Counted.start \in Nat /\ now \in Nat /\ Counted.elapsed \in Nat
    BY DEF Counted, RetryInv, RetryTypeOK
  <2> QED BY <2>2, <2>3, <2>4, <2>5
<1> QED BY <1>1, RetryInvariance, PTL DEF RetrySpec, CumulativeLatency

-----------------------------------------------------------------------------
(* The configuration file                                                   *)

EditorRuns(p) == editor[p] # NotRunning

\* A process that has begun a command.
EditorProcess ==
    [at : {"read", "change", "open", "write", "rename"}, var : Var, val : Value \cup {Unset},
     vars : [Var -> Value \cup {Unset}], file : Inode \cup {0}]

ConfigTypes ==
    /\ conf \in Inode \cup {0} /\ temp \in Inode \cup {0}
    /\ data \in [Inode -> Settings \cup {Partial}]
    /\ editor \in [Editor -> EditorProcess \cup {NotRunning}]
    /\ edits \in Nat

\* The temporary file is another file, and so serval.conf is never partial.
Apart ==
    /\ temp # 0 => temp # conf
    /\ conf # 0 => data[conf] \in Settings

\* What a process has read is still in force, and what it writes is what it has
\* read and its own change.
InStep(p) ==
    LET e == editor[p] IN
    /\ e.at = "change" => e.vars = Current
    /\ e.at \in {"open", "write", "rename"} => e.vars = [Current EXCEPT ![e.var] = e.val]
    /\ e.at \in {"write", "rename"} => e.file = temp /\ temp # 0
    /\ e.at = "write" => data[e.file] = Partial
    /\ e.at = "rename" => data[e.file] = e.vars

\* The inductive invariant.
ConfigInv ==
    /\ ConfigTypes /\ Apart
    /\ \A p, q \in Editor : EditorRuns(p) /\ EditorRuns(q) => p = q
    /\ \A p \in Editor : EditorRuns(p) => InStep(p)

\* A process that runs a command is told from one that does not.
LEMMA IdleIsApart == NotRunning \notin EditorProcess /\ NotRunning.at = "idle"
BY ZenonT(60) DEF NotRunning, EditorProcess

\* At the start serval.conf holds no variables and no command runs.
LEMMA ConfigInitInv == ConfigInit => ConfigInv
<1> SUFFICES ASSUME ConfigInit PROVE ConfigInv
  BY ZenonT(60)
<1>1. NoVars \in Settings
  BY ZenonT(60) DEF NoVars, Settings
<1>2. ConfigTypes
  BY <1>1, ZenonT(60) DEF ConfigTypes, ConfigInit
<1>3. Apart
  BY ZenonT(60) DEF Apart, ConfigInit
<1> QED
  BY <1>2, <1>3, ZenonT(60) DEF ConfigInv, EditorRuns, ConfigInit

\* A command that runs is the only one, and stays so whatever it does.
LEMMA OneRuns ==
    ASSUME ConfigInv, NEW p \in Editor, NEW e \in EditorProcess \cup {NotRunning},
           \A q \in Editor : EditorRuns(q) => q = p,
           editor' = [editor EXCEPT ![p] = e]
    PROVE  /\ editor' \in [Editor -> EditorProcess \cup {NotRunning}]
           /\ editor'[p] = e
           /\ \A q \in Editor : EditorRuns(q)' => q = p
           /\ \A q, r \in Editor : EditorRuns(q)' /\ EditorRuns(r)' => q = r
BY ZenonT(60) DEF ConfigInv, ConfigTypes, EditorRuns

\* What remains to be shown of a step of p.
LEMMA StepOf ==
    ASSUME ConfigInv, NEW p \in Editor, NEW e \in EditorProcess \cup {NotRunning},
           \A q \in Editor : EditorRuns(q) => q = p,
           editor' = [editor EXCEPT ![p] = e],
           conf' \in Inode \cup {0}, temp' \in Inode \cup {0}, edits' \in Nat,
           data' \in [Inode -> Settings \cup {Partial}],
           Apart',
           e # NotRunning => InStep(p)'
    PROVE  ConfigInv'
<1>1. /\ editor' \in [Editor -> EditorProcess \cup {NotRunning}]
      /\ editor'[p] = e
      /\ \A q \in Editor : EditorRuns(q)' => q = p
      /\ \A q, r \in Editor : EditorRuns(q)' /\ EditorRuns(r)' => q = r
  BY OneRuns, ZenonT(60)
<1>2. ConfigTypes'
  BY <1>1, ZenonT(60) DEF ConfigTypes
<1>3. \A q \in Editor : EditorRuns(q)' => InStep(q)'
  BY <1>1, ZenonT(60) DEF EditorRuns
<1> QED
  BY <1>1, <1>2, <1>3, ZenonT(60) DEF ConfigInv

\* The process that takes a step is the one that runs.
LEMMA Alone ==
    ASSUME ConfigInv, NEW p \in Editor, editor[p].at # "idle"
    PROVE  /\ EditorRuns(p) /\ editor[p] \in EditorProcess
           /\ \A q \in Editor : EditorRuns(q) => q = p
           /\ InStep(p)
BY IdleIsApart, ZenonT(60) DEF ConfigInv, ConfigTypes, EditorRuns

\* What serval.conf holds is never partial.
LEMMA CurrentIsSettings == ConfigInv => Current \in Settings
BY ZenonT(60) DEF ConfigInv, Apart, Current, NoVars, Settings

\* A command begins only when no other runs, so only it goes on to write.
LEMMA BeginStep ==
    ASSUME ConfigInv, OneEditor, NEW p \in Editor, NEW v \in Var, NEW x \in Value \cup {Unset},
           BeginEdit(p, v, x)
    PROVE  ConfigInv'
<1> DEFINE e == [at |-> "read", var |-> v, val |-> x, vars |-> NoVars, file |-> 0]
<1>2. NoVars \in [Var -> Value \cup {Unset}]
  BY ZenonT(60) DEF NoVars
<1>3. e \in EditorProcess
  BY <1>2, ZenonT(60) DEF EditorProcess
<1>4. \A q \in Editor : EditorRuns(q) => q = p
  BY ZenonT(60) DEF BeginEdit, EditorRuns
<1>5. editor' = [editor EXCEPT ![p] = e] /\ UNCHANGED <<conf, temp, data>> /\ edits' = edits + 1
  BY ZenonT(60) DEF BeginEdit
<1>6. editor'[p] = e /\ e.at = "read"
  BY <1>5 DEF ConfigInv, ConfigTypes
<1>7. InStep(p)'
  BY <1>6, ZenonT(60) DEF InStep
<1>8. Apart'
  BY <1>5, ZenonT(60) DEF ConfigInv, Apart
<1>9. /\ conf' \in Inode \cup {0} /\ temp' \in Inode \cup {0} /\ edits' \in Nat
      /\ data' \in [Inode -> Settings \cup {Partial}]
  BY <1>5 DEF ConfigInv, ConfigTypes
<1> HIDE DEF e
<1> QED
  BY <1>3, <1>4, <1>5, <1>7, <1>8, <1>9, StepOf, ZenonT(60)

\* A step that ends a command and leaves the files apart.
LEMMA EndStep ==
    ASSUME ConfigInv, NEW p \in Editor, EditorRuns(p), Ends(p),
           conf' \in Inode \cup {0}, temp' \in Inode \cup {0}, UNCHANGED <<data, edits>>,
           Apart'
    PROVE  ConfigInv'
<1>1. \A q \in Editor : EditorRuns(q) => q = p
  BY ZenonT(60) DEF ConfigInv
<1>2. edits' \in Nat /\ data' \in [Inode -> Settings \cup {Partial}]
  BY ZenonT(60) DEF ConfigInv, ConfigTypes
<1> QED
  BY <1>1, <1>2, StepOf, ZenonT(60) DEF Ends

\* What a process is after a step that goes on.
LEMMA Going ==
    ASSUME ConfigInv, NEW p \in Editor, editor[p].at # "idle",
           NEW step \in {"read", "change", "open", "write", "rename"},
           NEW vars \in Settings, NEW file \in Inode \cup {0}, GoesOn(p, step, vars, file)
    PROVE  \E e \in EditorProcess :
             /\ editor' = [editor EXCEPT ![p] = e] /\ editor'[p] = e /\ e # NotRunning
             /\ e.at = step /\ e.var = editor[p].var /\ e.val = editor[p].val
             /\ e.vars = vars /\ e.file = file
             /\ e.var \in Var /\ e.val \in Value \cup {Unset}
<1> DEFINE e == [at |-> step, var |-> editor[p].var, val |-> editor[p].val,
                 vars |-> vars, file |-> file]
<1>1. editor[p] \in EditorProcess
  BY Alone, ZenonT(60)
<1>2. editor[p].var \in Var /\ editor[p].val \in Value \cup {Unset}
  BY <1>1 DEF EditorProcess
<1>3. e \in EditorProcess
  BY <1>2, ZenonT(60) DEF EditorProcess, Settings
<1>4. editor' = [editor EXCEPT ![p] = e]
  BY ZenonT(60) DEF GoesOn
<1>5. editor'[p] = e
  BY <1>4, ZenonT(60) DEF ConfigInv, ConfigTypes
<1>6. e # NotRunning
  BY <1>3, IdleIsApart
<1> QED
  BY <1>2, <1>3, <1>4, <1>5, <1>6, ZenonT(60)

\* What a lone command reads is what the file holds, and goes on holding.
LEMMA ReadStep ==
    ASSUME ConfigInv, NEW p \in Editor, read_config(p)
    PROVE  ConfigInv'
<1>1. editor[p].at # "idle" /\ UNCHANGED <<conf, temp, data, edits>>
  BY ZenonT(60) DEF read_config
<1>2. EditorRuns(p) /\ \A q \in Editor : EditorRuns(q) => q = p
  BY <1>1, Alone, ZenonT(60)
<1>3. /\ conf' \in Inode \cup {0} /\ temp' \in Inode \cup {0} /\ edits' \in Nat
      /\ data' \in [Inode -> Settings \cup {Partial}]
  BY <1>1, ZenonT(60) DEF ConfigInv, ConfigTypes
<1>4. Apart' /\ Current' = Current
  BY <1>1, ZenonT(60) DEF ConfigInv, Apart, Current
<1>5. CASE Ends(p)
  BY <1>1, <1>2, <1>3, <1>4, <1>5, EndStep, ZenonT(60)
<1>6. CASE GoesOn(p, "change", Current, 0)
  <2>1. Current \in Settings
    BY CurrentIsSettings, ZenonT(60)
  <2>2. PICK e \in EditorProcess :
             /\ editor' = [editor EXCEPT ![p] = e] /\ editor'[p] = e /\ e # NotRunning
             /\ e.at = "change" /\ e.vars = Current
    BY <1>1, <1>6, <2>1, Going
  <2>3. InStep(p)'
    BY <1>4, <2>2 DEF InStep
  <2> QED
    BY <1>2, <1>3, <1>4, <2>2, <2>3, StepOf, ZenonT(60)
<1> QED
  BY <1>5, <1>6, ZenonT(60) DEF read_config, Current

\* The change that a command makes is of its own variable alone.
LEMMA ChangeStep ==
    ASSUME ConfigInv, NEW p \in Editor, confValueSet(p)
    PROVE  ConfigInv'
<1> DEFINE new == [editor[p].vars EXCEPT ![editor[p].var] = editor[p].val]
<1>1. editor[p].at = "change" /\ UNCHANGED <<conf, temp, data, edits>>
  BY ZenonT(60) DEF confValueSet
<1>2. /\ EditorRuns(p) /\ \A q \in Editor : EditorRuns(q) => q = p
      /\ editor[p] \in EditorProcess /\ editor[p].vars = Current
  BY <1>1, Alone, ZenonT(60) DEF InStep
<1>3. /\ conf' \in Inode \cup {0} /\ temp' \in Inode \cup {0} /\ edits' \in Nat
      /\ data' \in [Inode -> Settings \cup {Partial}]
  BY <1>1, ZenonT(60) DEF ConfigInv, ConfigTypes
<1>4. Apart' /\ Current' = Current
  BY <1>1, ZenonT(60) DEF ConfigInv, Apart, Current
<1>5. CASE Ends(p)
  BY <1>1, <1>2, <1>3, <1>4, <1>5, EndStep, ZenonT(60)
<1>6. CASE GoesOn(p, "open", new, 0)
  <2>1. new \in Settings
    BY <1>2 DEF EditorProcess, Settings
  <2>2. PICK e \in EditorProcess :
             /\ editor' = [editor EXCEPT ![p] = e] /\ editor'[p] = e /\ e # NotRunning
             /\ e.at = "open" /\ e.vars = new
             /\ e.var = editor[p].var /\ e.val = editor[p].val
    BY <1>1, <1>6, <2>1, Going
  <2>3. InStep(p)'
    BY <1>2, <1>4, <2>2, ZenonT(60) DEF InStep
  <2> QED
    BY <1>2, <1>3, <1>4, <2>2, <2>3, StepOf, ZenonT(60)
<1> QED
  BY <1>5, <1>6, ZenonT(60) DEF confValueSet

\* The file that is opened is not serval.conf: there is a temporary file already,
\* which is another, or the new one takes an inode that is free.
LEMMA OpenStep ==
    ASSUME ConfigInv, NEW p \in Editor, OpenTemp(p)
    PROVE  ConfigInv' /\ Current' = Current
<1>1. PICK n \in Inode :
        /\ n # conf /\ temp' = n
        /\ data' = [data EXCEPT ![n] = Partial]
        /\ GoesOn(p, "write", editor[p].vars, n)
        /\ editor[p].at = "open" /\ UNCHANGED <<conf, edits>>
  BY ZenonT(60) DEF OpenTemp, Available, ConfigInv, Apart
<1>2. /\ EditorRuns(p) /\ \A q \in Editor : EditorRuns(q) => q = p
      /\ editor[p] \in EditorProcess
      /\ editor[p].vars = [Current EXCEPT ![editor[p].var] = editor[p].val]
  BY <1>1, Alone, ZenonT(60) DEF InStep
<1>3. /\ conf' \in Inode \cup {0} /\ temp' \in Inode \cup {0} /\ edits' \in Nat
      /\ data' \in [Inode -> Settings \cup {Partial}] /\ data'[n] = Partial
      /\ n # 0 /\ (conf # 0 => data'[conf] = data[conf])
  BY <1>1 DEF ConfigInv, ConfigTypes, Inode
<1>4. Apart' /\ Current' = Current
  BY <1>1, <1>3, ZenonT(60) DEF ConfigInv, Apart, Current
<1>5. editor[p].vars \in Settings
  BY <1>2, ZenonT(60) DEF EditorProcess, Settings
<1>6. PICK e \in EditorProcess :
        /\ editor' = [editor EXCEPT ![p] = e] /\ editor'[p] = e /\ e # NotRunning
        /\ e.at = "write" /\ e.vars = editor[p].vars /\ e.file = n
        /\ e.var = editor[p].var /\ e.val = editor[p].val
  BY <1>1, <1>5, Going
<1>7. InStep(p)'
  BY <1>1, <1>2, <1>3, <1>4, <1>6, ZenonT(60) DEF InStep
<1> QED
  BY <1>2, <1>3, <1>4, <1>6, <1>7, StepOf, ZenonT(60)

\* Writing the temporary file leaves serval.conf as it is.
LEMMA CloseStep ==
    ASSUME ConfigInv, NEW p \in Editor, CloseTemp(p)
    PROVE  ConfigInv' /\ Current' = Current
<1> DEFINE n == editor[p].file
<1>1. /\ editor[p].at = "write" /\ UNCHANGED <<conf, temp, edits>>
      /\ GoesOn(p, "rename", editor[p].vars, n)
  BY DEF CloseTemp
<1>2. /\ EditorRuns(p) /\ \A q \in Editor : EditorRuns(q) => q = p
      /\ editor[p] \in EditorProcess
      /\ editor[p].vars = [Current EXCEPT ![editor[p].var] = editor[p].val]
      /\ n = temp /\ temp # 0 /\ data[n] = Partial
  BY <1>1, Alone, ZenonT(60) DEF InStep
<1>3. editor[p].vars \in Settings
  BY <1>2, ZenonT(60) DEF EditorProcess, Settings
<1>4. data' = [data EXCEPT ![n] = editor[p].vars]
  BY <1>2, ZenonT(60) DEF CloseTemp
<1>5. /\ conf' \in Inode \cup {0} /\ temp' \in Inode \cup {0} /\ edits' \in Nat
      /\ n \in Inode /\ data' \in [Inode -> Settings \cup {Partial}]
      /\ data'[n] = editor[p].vars /\ n # conf /\ (conf # 0 => data'[conf] = data[conf])
  BY <1>1, <1>2, <1>3, <1>4, ZenonT(60) DEF ConfigInv, ConfigTypes, Apart
<1>6. Apart' /\ Current' = Current
  BY <1>1, <1>5 DEF ConfigInv, Apart, Current
<1>7. PICK e \in EditorProcess :
        /\ editor' = [editor EXCEPT ![p] = e] /\ editor'[p] = e /\ e # NotRunning
        /\ e.at = "rename" /\ e.vars = editor[p].vars /\ e.file = n
        /\ e.var = editor[p].var /\ e.val = editor[p].val
  BY <1>1, <1>3, <1>5, Going
<1>8. InStep(p)'
  BY <1>1, <1>2, <1>5, <1>6, <1>7, ZenonT(60) DEF InStep
<1> QED
  BY <1>2, <1>5, <1>6, <1>7, <1>8, StepOf, ZenonT(60)

\* The one step that changes the settings in force.
LEMMA RenameStep ==
    ASSUME ConfigInv, NEW p \in Editor, Rename(p)
    PROVE  ConfigInv' /\ Current' = [Current EXCEPT ![editor[p].var] = editor[p].val]
<1>1. editor[p].at = "rename" /\ temp' = 0 /\ Ends(p) /\ UNCHANGED <<data, edits>>
  BY ZenonT(60) DEF Rename
<1>2. /\ EditorRuns(p) /\ editor[p] \in EditorProcess
      /\ editor[p].vars = [Current EXCEPT ![editor[p].var] = editor[p].val]
      /\ temp # 0 /\ data[temp] = editor[p].vars
  BY <1>1, Alone, ZenonT(60) DEF InStep
<1>3. conf' = temp
  BY <1>2, ZenonT(60) DEF Rename
<1>4. conf' \in Inode \cup {0} /\ temp' \in Inode \cup {0}
  BY <1>1, <1>3, ZenonT(60) DEF ConfigInv, ConfigTypes
<1>5. editor[p].vars \in Settings
  BY <1>2, ZenonT(60) DEF EditorProcess, Settings
<1>6. Apart' /\ Current' = editor[p].vars
  BY <1>1, <1>2, <1>3, <1>5, ZenonT(60) DEF Apart, Current
<1> QED
  BY <1>1, <1>2, <1>4, <1>6, EndStep, ZenonT(60)

\* An interrupted command leaves a temporary file that is not serval.conf.
LEMMA InterruptStep ==
    ASSUME ConfigInv, NEW p \in Editor, Interrupt(p)
    PROVE  ConfigInv'
<1>1. EditorRuns(p) /\ Ends(p) /\ UNCHANGED <<conf, temp, data, edits>>
  BY ZenonT(60) DEF Interrupt, EditorRuns
<1>2. Apart' /\ conf' \in Inode \cup {0} /\ temp' \in Inode \cup {0}
  BY <1>1, ZenonT(60) DEF ConfigInv, ConfigTypes, Apart
<1> QED
  BY <1>1, <1>2, EndStep, ZenonT(60)

-----------------------------------------------------------------------------
(* The steps as those of the store                                          *)

Command(e) == [var |-> e.var, val |-> e.val]

Asked == [p \in Editor |-> Command(editor[p])]

\* A step of one process changes what is asked by that process alone.
LEMMA AskedStep ==
    ASSUME ConfigInv, NEW p \in Editor, NEW e, editor' = [editor EXCEPT ![p] = e]
    PROVE  Asked' = [Asked EXCEPT ![p] = Command(e)]
BY ZenonT(60) DEF ConfigInv, ConfigTypes, Asked, Command

\* A command that runs has been given.
LEMMA RunningAsked ==
    ASSUME ConfigInv, NEW p \in Editor, EditorRuns(p)
    PROVE  /\ Asked[p].var = editor[p].var /\ Asked[p].val = editor[p].val
           /\ Asked[p] # Command(NotRunning)
<1>1. editor[p] \in EditorProcess
  BY ZenonT(60) DEF ConfigInv, ConfigTypes, EditorRuns
<1>2. Asked[p].var = editor[p].var /\ Asked[p].val = editor[p].val
  BY DEF Asked, Command
<1>3. editor[p].var \in Var /\ Command(NotRunning).var = "none"
  BY <1>1 DEF EditorProcess, Command, NotRunning
<1> QED
  BY <1>2, <1>3, ConfigAssumption, ZenonT(60)

\* A command that ends without an effect on the file gives up its request.
LEMMA EndsGivesUp ==
    ASSUME ConfigInv, NEW p \in Editor, EditorRuns(p), Ends(p), Current' = Current
    PROVE  Store!GiveUp(p)
<1>1. Asked' = [Asked EXCEPT ![p] = Command(NotRunning)]
  BY AskedStep, ZenonT(60) DEF Ends
<1>2. Asked[p] # Command(NotRunning)
  BY RunningAsked
<1> QED
  BY <1>1, <1>2, ZenonT(60) DEF Store!GiveUp, Asked, Command, NotRunning

\* A command that goes on without an effect on the file is a stutter of the settings.
LEMMA GoesOnStutters ==
    ASSUME ConfigInv, NEW p \in Editor, NEW step, NEW vars, NEW file, GoesOn(p, step, vars, file),
           Current' = Current
    PROVE  UNCHANGED Store!settingsVars
<1> DEFINE e == [at |-> step, var |-> editor[p].var, val |-> editor[p].val,
                 vars |-> vars, file |-> file]
<1>1. Asked' = [Asked EXCEPT ![p] = Command(e)]
  BY AskedStep, ZenonT(60) DEF GoesOn
<1>2. Command(e) = Asked[p]
  BY ZenonT(60) DEF Command, Asked
<1>3. Asked' = Asked
  BY <1>1, <1>2, ZenonT(60) DEF Asked
<1> QED
  BY <1>3, ZenonT(60) DEF Store!settingsVars, Asked, Command

\* The rename() of confWrite() is the moment at which a command takes effect.
LEMMA RenameTakesEffect ==
    ASSUME ConfigInv, NEW p \in Editor, Rename(p)
    PROVE  Store!TakeEffect(p)
<1>1. editor[p].at = "rename" /\ Ends(p)
  BY ZenonT(60) DEF Rename
<1>2. EditorRuns(p)
  BY <1>1, Alone, ZenonT(60)
<1>3. Asked' = [Asked EXCEPT ![p] = Command(NotRunning)]
  BY <1>1, AskedStep, ZenonT(60) DEF Ends
<1>4. Asked[p] # Command(NotRunning) /\ Current' = [Current EXCEPT ![Asked[p].var] = Asked[p].val]
  BY <1>2, RunningAsked, RenameStep
<1> QED
  BY <1>3, <1>4, ZenonT(60) DEF Store!TakeEffect, Asked, Command, NotRunning

\* A command that begins is a request to the settings.
LEMMA BeginAsks ==
    ASSUME ConfigInv, NEW p \in Editor, NEW v \in Var, NEW x \in Value \cup {Unset}, BeginEdit(p, v, x)
    PROVE  Store!Ask(p, v, x)
<1> DEFINE e == [at |-> "read", var |-> v, val |-> x, vars |-> NoVars, file |-> 0]
<1>1. Asked' = [Asked EXCEPT ![p] = Command(e)]
  BY AskedStep, ZenonT(60) DEF BeginEdit
<1>2. Command(e) = [var |-> v, val |-> x] /\ Asked[p] = Command(NotRunning)
  BY ZenonT(60) DEF Command, Asked, BeginEdit
<1>3. Current' = Current
  BY ZenonT(60) DEF BeginEdit, Current
<1> QED
  BY <1>1, <1>2, <1>3, ZenonT(60) DEF Store!Ask, Asked, Command, NotRunning

-----------------------------------------------------------------------------
\* Every step keeps the invariant.
LEMMA ConfigNextInv == ASSUME OneEditor, ConfigInv, [ConfigNext]_configVars PROVE ConfigInv'
<1>1. CASE UNCHANGED configVars
  BY <1>1, ZenonT(60) DEF configVars, ConfigInv, ConfigTypes, Apart, InStep, EditorRuns, Current
<1>2. ASSUME NEW p \in Editor, NEW v \in Var, NEW x \in Value \cup {Unset}, BeginEdit(p, v, x)
      PROVE  ConfigInv'
  BY <1>2, BeginStep, ZenonT(60)
<1>3. ASSUME NEW p \in Editor, read_config(p) PROVE ConfigInv'
  BY <1>3, ReadStep, ZenonT(60)
<1>4. ASSUME NEW p \in Editor, confValueSet(p) PROVE ConfigInv'
  BY <1>4, ChangeStep, ZenonT(60)
<1>5. ASSUME NEW p \in Editor, OpenTemp(p) PROVE ConfigInv'
  BY <1>5, OpenStep, ZenonT(60)
<1>6. ASSUME NEW p \in Editor, CloseTemp(p) PROVE ConfigInv'
  BY <1>6, CloseStep, ZenonT(60)
<1>7. ASSUME NEW p \in Editor, Rename(p) PROVE ConfigInv'
  BY <1>7, RenameStep, ZenonT(60)
<1>8. ASSUME NEW p \in Editor, Interrupt(p) PROVE ConfigInv'
  BY <1>8, InterruptStep, ZenonT(60)
<1> QED
  BY <1>1, <1>2, <1>3, <1>4, <1>5, <1>6, <1>7, <1>8 DEF ConfigNext

\* Every step is a step of the settings, or a stutter.
LEMMA NextSimulates ==
    ASSUME ConfigInv, [ConfigNext]_configVars
    PROVE  [Store!SettingsNext]_(Store!settingsVars)
<1>1. CASE UNCHANGED configVars
  BY <1>1, ZenonT(60) DEF configVars, Store!settingsVars, Current
<1>2. ASSUME NEW p \in Editor, NEW v \in Var, NEW x \in Value \cup {Unset}, BeginEdit(p, v, x)
      PROVE  Store!SettingsNext
  BY <1>2, BeginAsks DEF Store!SettingsNext
<1>3. ASSUME NEW p \in Editor, read_config(p)
      PROVE  Store!SettingsNext \/ UNCHANGED Store!settingsVars
  <2>1. EditorRuns(p) /\ Current' = Current
    BY <1>3, Alone, ZenonT(60) DEF read_config, Current
  <2>2. CASE Ends(p)
    BY <2>1, <2>2, EndsGivesUp, ZenonT(60) DEF Store!SettingsNext
  <2>3. CASE GoesOn(p, "change", NoVars, 0)
    BY <2>1, <2>3, GoesOnStutters, ZenonT(60)
  <2>4. CASE GoesOn(p, "change", data[conf], 0)
    BY <2>1, <2>4, GoesOnStutters, ZenonT(60)
  <2> QED
    BY <1>3, <2>2, <2>3, <2>4 DEF read_config
<1>4. ASSUME NEW p \in Editor, confValueSet(p)
      PROVE  Store!SettingsNext \/ UNCHANGED Store!settingsVars
  <2>1. EditorRuns(p) /\ Current' = Current
    BY <1>4, Alone, ZenonT(60) DEF confValueSet, Current
  <2>2. CASE Ends(p)
    BY <2>1, <2>2, EndsGivesUp, ZenonT(60) DEF Store!SettingsNext
  <2>3. CASE GoesOn(p, "open", [editor[p].vars EXCEPT ![editor[p].var] = editor[p].val], 0)
    BY <2>1, <2>3, GoesOnStutters, ZenonT(60)
  <2> QED
    BY <1>4, <2>2, <2>3 DEF confValueSet
<1>5. ASSUME NEW p \in Editor, OpenTemp(p) PROVE UNCHANGED Store!settingsVars
  BY <1>5, OpenStep, GoesOnStutters, ZenonT(60) DEF OpenTemp
<1>6. ASSUME NEW p \in Editor, CloseTemp(p) PROVE UNCHANGED Store!settingsVars
  BY <1>6, CloseStep, GoesOnStutters, ZenonT(60) DEF CloseTemp
<1>7. ASSUME NEW p \in Editor, Rename(p) PROVE Store!SettingsNext
  BY <1>7, RenameTakesEffect, ZenonT(60) DEF Store!SettingsNext
<1>8. ASSUME NEW p \in Editor, Interrupt(p) PROVE Store!SettingsNext
  <2>1. EditorRuns(p) /\ Ends(p) /\ Current' = Current
    BY <1>8, ZenonT(60) DEF Interrupt, EditorRuns, Current
  <2> QED
    BY <2>1, EndsGivesUp, ZenonT(60) DEF Store!SettingsNext
<1> QED
  BY <1>1, <1>2, <1>3, <1>4, <1>5, <1>6, <1>7, <1>8, ZenonT(60) DEF ConfigNext

\* The first state is a first state of the settings.
LEMMA InitSimulates == ConfigInit => Store!SettingsInit
BY DEF ConfigInit, Store!SettingsInit, Current, NoVars, NotRunning

\* As long as commands are given one at a time, the configuration file implements
\* the settings its commands promise: each takes effect at the moment of rename(),
\* on its own variable alone, or never, wherever it is interrupted (confWrite()).
THEOREM FileImplementsSettings ==
    ASSUME OneEditor
    PROVE  ConfigSpec => CommandsAreAtomic
<1>1. ConfigInit => ConfigInv /\ Store!SettingsInit
  BY ConfigInitInv, InitSimulates, ZenonT(60)
<1>2. ConfigInv /\ [ConfigNext]_configVars => ConfigInv'
  BY ConfigNextInv, ZenonT(60)
<1>3. ConfigInv /\ [ConfigNext]_configVars => [Store!SettingsNext]_(Store!settingsVars)
  BY NextSimulates, ZenonT(60)
<1> QED
  BY <1>1, <1>2, <1>3, PTL DEF ConfigSpec, CommandsAreAtomic, Store!SettingsSpec

-----------------------------------------------------------------------------
(* The transmit queues                                                      *)

\* A frame for everybody is broadcast.
Sound == {f \in Frame : f.destination = Nobody => f.sendBroadcast}

Packet == [interface : Interface \cup {0}, open : BOOLEAN, unicast : Peer \cup {Nobody}, free : Int]

\* How often each frame has left on each interface.
Tally == [Id -> [Interface -> Nat]]

\* Where overlay_fill_send_packet() is.
Stage == [packet : Packet, queue : Seq(Sound), queues : [Queue -> Seq(Sound)], alarm : BOOLEAN,
          sent : Tally]

\* What BroadcastOnce says of one frame, for the tally t.
Once(f, t) ==
    f.destination = Nobody =>
      \A i \in Interface : t[f.id][i] <= 1 /\ (t[f.id][i] = 1 => i \in f.sent_via)

\* Every interface that is up has been dealt with.
Spread(f, t) == \A i \in up : i \in f.sent_via \/ t[f.id][i] = 1

Network == up \in SUBSET Interface /\ route \in [Peer -> Route]

-----------------------------------------------------------------------------
(* One frame                                                                *)

\* A frame that is sent to one peer has a next hop.
LEMMA NextHopType ==
    ASSUME Network, NEW f \in Sound, f.destination # Nobody, ~Unreachable(f)
    PROVE  subscriber_is_reachable(f.destination) # "BROADCAST" => NextHop(f) \in Peer
PROOF
<1> DEFINE d == f.destination
<1>1. d \in Peer /\ route[d] \in Route
  BY ZenonT(60) DEF Network, Sound, Frame
<1>2. route[d].reachable = "INDIRECT" => route[d].next_hop \in Peer
  BY <1>1, ZenonT(60) DEF Route
<1>3. OwnRoute(d) = "INDIRECT" => route[d].reachable = "INDIRECT"
  BY <1>1, ZenonT(60) DEF OwnRoute, Route
<1>4. subscriber_is_reachable(d) = "INDIRECT" => route[d].next_hop \in Peer
  BY <1>2, <1>3, ZenonT(60) DEF subscriber_is_reachable
<1>5. subscriber_is_reachable(d) = "DEFAULT_ROUTE" => Directory \in Peer
  <2>1. OwnRoute(d) # "DEFAULT_ROUTE"
    BY <1>1, ZenonT(60) DEF OwnRoute, Route
  <2> QED BY <2>1, QueueAssumption, ZenonT(60) DEF subscriber_is_reachable
<1> QED BY <1>1, <1>4, <1>5, ZenonT(60) DEF NextHop

\* The switch over the reachability changes how a frame is sent, not what it is.
LEMMA AddressedIs ==
    ASSUME Network, NEW f \in Sound, ~Unreachable(f)
    PROVE  /\ Addressed(f) \in Sound
           /\ Addressed(f).id = f.id /\ Addressed(f).destination = f.destination
           /\ f.destination = Nobody => Addressed(f) = f
           /\ ~Addressed(f).sendBroadcast => NextHop(Addressed(f)) \in Peer
PROOF
<1>1. f \in Frame
  BY ZenonT(60) DEF Sound
<1>2. CASE f.destination = Nobody
  BY <1>2, ZenonT(60) DEF Addressed, Sound
<1>3. CASE f.destination # Nobody /\ subscriber_is_reachable(f.destination) # "BROADCAST"
  <2> DEFINE g == [f EXCEPT !.sendBroadcast = FALSE]
  <2>1. Addressed(f) = g
    BY <1>3, ZenonT(60) DEF Addressed
  <2>2. g \in Sound /\ g.id = f.id /\ g.destination = f.destination
    BY <1>1, <1>3, ZenonT(60) DEF Sound, Frame
  <2>3. ~Unreachable(g)
    BY <2>2, ZenonT(60) DEF Unreachable
  <2>4. NextHop(g) \in Peer
    BY <1>3, <2>2, <2>3, NextHopType, ZenonT(60)
  <2> HIDE DEF g
  <2> QED BY <1>3, <2>1, <2>2, <2>4, ZenonT(60)
<1>4. CASE f.destination # Nobody /\ subscriber_is_reachable(f.destination) = "BROADCAST" /\ f.sendBroadcast
  BY <1>4, ZenonT(60) DEF Addressed
<1>5. CASE f.destination # Nobody /\ subscriber_is_reachable(f.destination) = "BROADCAST" /\ ~f.sendBroadcast
  <2> DEFINE g == [f EXCEPT !.sendBroadcast = TRUE, !.sent_via = {}]
  <2>1. Addressed(f) = g
    BY <1>5, ZenonT(60) DEF Addressed
  <2>2. g \in Sound /\ g.id = f.id /\ g.destination = f.destination /\ g.sendBroadcast
    BY <1>1, <1>5, ZenonT(60) DEF Sound, Frame
  <2> HIDE DEF g
  <2> QED BY <1>5, <2>1, <2>2, ZenonT(60)
<1> QED BY <1>2, <1>3, <1>4, <1>5, ZenonT(60)

\* The packet that a frame opens leaves on an interface it has not left on, if
\* it is broadcast; if there is none it has left on every interface that is up.
LEMMA OpenForIs ==
    ASSUME Network, NEW f \in Sound, ~f.sendBroadcast => NextHop(f) \in Peer
    PROVE  /\ OpenFor(f) \in Packet
           /\ f.sendBroadcast /\ OpenFor(f).open => OpenFor(f).interface \notin f.sent_via
           /\ ~OpenFor(f).open => f.sendBroadcast /\ up \subseteq f.sent_via
PROOF
<1>1. Capacity \in Int /\ Interface \subseteq Nat
  BY QueueAssumption
<1>2. CASE f.sendBroadcast /\ up \ f.sent_via = {}
  <2>1. OpenFor(f) = NoPacket
    BY <1>2, ZenonT(60) DEF OpenFor
  <2> QED BY <1>1, <1>2, <2>1 DEF NoPacket, Packet
<1>3. CASE f.sendBroadcast /\ up \ f.sent_via # {}
  <2> DEFINE i == Lowest(up \ f.sent_via)
  <2>1. OpenFor(f) = overlay_init_packet(i)
    BY <1>3, ZenonT(60) DEF OpenFor
  <2>2. up \ f.sent_via \subseteq Nat
    BY <1>1, ZenonT(60) DEF Network
  <2>3. \E n \in up \ f.sent_via : \A m \in up \ f.sent_via : n <= m
    BY <1>3, <2>2, NatMin, ZenonT(60)
  <2>4. i \in up \ f.sent_via
    BY <2>3, ZenonT(60) DEF Lowest
  <2> HIDE DEF i
  <2>5. i \in Interface
    BY <2>4, ZenonT(60) DEF Network
  <2> QED BY <1>1, <1>3, <2>1, <2>4, <2>5 DEF overlay_init_packet, Packet
<1>4. CASE ~f.sendBroadcast
  <2> DEFINE hop == NextHop(f)
             pk  == overlay_init_packet(HopInterface(hop))
  <2>1. OpenFor(f) = IF route[hop].reachable = "UNICAST" THEN [pk EXCEPT !.unicast = hop] ELSE pk
    BY <1>4, ZenonT(60) DEF OpenFor
  <2>2. hop \in Peer /\ route[hop] \in Route
    BY <1>4, ZenonT(60) DEF Network
  <2>3. HopInterface(hop) \in Interface \cup {0}
    BY <2>2, ZenonT(60) DEF HopInterface, Route
  <2>4. pk \in Packet /\ pk.open
    BY <1>1, <2>3, ZenonT(60) DEF overlay_init_packet, Packet
  <2>5. [pk EXCEPT !.unicast = hop] \in Packet /\ [pk EXCEPT !.unicast = hop].open
    BY <2>2, <2>4, ZenonT(60) DEF Packet
  <2> HIDE DEF pk, hop
  <2> QED BY <1>4, <2>1, <2>4, <2>5, ZenonT(60)
<1> QED BY <1>2, <1>3, <1>4, ZenonT(60)

\* What a turn of the loop of overlay_stuff_packet() does with a frame.
Turned(s, frame, t) ==
    /\ t \in Stage /\ t.queues = s.queues
    /\ \A n \in Id : n # frame.id => t.sent[n] = s.sent[n]
    /\ \/ /\ t.queue = s.queue
          /\ frame.destination = Nobody /\ ~frame.late /\ Once(frame, s.sent) => Spread(frame, t.sent)
       \/ \E g \in Sound :
            /\ t.queue = Append(s.queue, g)
            /\ g.id = frame.id /\ g.destination = frame.destination
            /\ Once(frame, s.sent) => Once(g, t.sent)

\* A frame that is skipped stays in its queue.
LEMMA SkipIs ==
    ASSUME NEW s \in Stage, NEW f \in Sound
    PROVE  /\ Skip(s, f) \in Stage /\ Skip(s, f).queue = Append(s.queue, f)
           /\ Skip(s, f).queues = s.queues /\ Skip(s, f).sent = s.sent
PROOF
<1>1. Append(s.queue, f) \in Seq(Sound)
  BY DEF Stage
<1>2. overlay_calc_queue_time(s.alarm, f) \in BOOLEAN
  BY ZenonT(60) DEF overlay_calc_queue_time
<1> QED BY <1>1, <1>2, ZenonT(60) DEF Skip, Stage

\* A frame that is appended to the packet is marked as sent, and stays in its
\* queue as long as there is more to send.
LEMMA AppendIs ==
    ASSUME Network, NEW s \in Stage, NEW f \in Sound,
           f.sendBroadcast => s.packet.interface \notin f.sent_via
    PROVE  Turned(s, f, Append_(s, f))
PROOF
<1> DEFINE i == s.packet.interface
           g == MarkedSent(f, i)
           v == [s.sent[f.id] EXCEPT ![i] = IF f.destination = Nobody THEN s.sent[f.id][i] + 1 ELSE s.sent[f.id][i]]
           T == [s.sent EXCEPT ![f.id] = v]
           P == [s.packet EXCEPT !.free = s.packet.free - f.size]
           t == [s EXCEPT !.packet = P, !.sent = T]
<1>1. Append_(s, f) = IF KeepPayload(g) THEN Skip(t, g) ELSE t
  <2>1. t = [s EXCEPT !.packet.free = @ - f.size,
                      !.sent[f.id][i] = IF f.destination = Nobody THEN @ + 1 ELSE @]
    BY ZenonT(60) DEF Stage
  <2> HIDE DEF t
  <2> QED BY <2>1 DEF Append_
<1>2. f \in Frame /\ f.id \in Id /\ f.size \in Int
  <2>1. f \in Frame
    BY ZenonT(60) DEF Sound
  <2>2. f.id \in Id /\ f.size \in Sizes
    BY <2>1, ZenonT(60) DEF Frame
  <2>3. f.size \in Nat
    BY <2>2, QueueAssumption, ZenonT(60)
  <2> QED BY <2>1, <2>2, <2>3
<1>3. s.packet \in Packet /\ s.sent \in Tally
  BY ZenonT(60) DEF Stage
<1>4. s.sent[f.id] \in [Interface -> Nat] /\ i \in Interface \cup {0}
  BY <1>2, <1>3, ZenonT(60) DEF Tally, Packet
<1>5. /\ t \in Stage /\ t.queues = s.queues /\ t.queue = s.queue /\ t.sent = T
      /\ \A n \in Id : n # f.id => T[n] = s.sent[n]
      /\ f.destination = Nobody =>
           \A j \in Interface : T[f.id][j] = IF j = i THEN s.sent[f.id][j] + 1 ELSE s.sent[f.id][j]
  <2> HIDE DEF i
  <2>1. ASSUME NEW j \in Interface
        PROVE  /\ v[j] = IF j = i /\ f.destination = Nobody THEN s.sent[f.id][j] + 1 ELSE s.sent[f.id][j]
               /\ v[j] \in Nat
    BY <1>4
  <2>2. v \in [Interface -> Nat]
    <3>1. v = [j \in Interface |-> v[j]]
      BY <1>4, ZenonT(60)
    <3> HIDE DEF v
    <3> QED BY <2>1, <3>1, ZenonT(60)
  <2> HIDE DEF v
  <2>3. T \in Tally /\ T[f.id] = v /\ \A n \in Id : n # f.id => T[n] = s.sent[n]
    BY <1>2, <1>3, <2>2, ZenonT(60) DEF Tally
  <2>4. P \in Packet
    <3>1. s.packet.free - f.size \in Int
      BY <1>2, <1>3 DEF Packet
    <3> QED BY <1>3, <3>1, ZenonT(60) DEF Packet
  <2> HIDE DEF T, P
  <2> QED BY <2>1, <2>3, <2>4, ZenonT(60) DEF Stage
<1> HIDE DEF T, P, t
<1>6. f.destination = Nobody => f.sendBroadcast /\ g = [f EXCEPT !.sent_via = @ \cup {i}]
  BY ZenonT(60) DEF Sound, MarkedSent
<1>7. g.id = f.id /\ g.destination = f.destination
  BY <1>2, ZenonT(60) DEF MarkedSent, Frame
<1>8. KeepPayload(g) => g \in Sound
  <2>1. CASE f.sendBroadcast
    BY <1>2, <1>4, <2>1, ZenonT(60) DEF MarkedSent, Sound, Frame
  <2>2. CASE ~f.sendBroadcast
    BY <1>2, <2>2 DEF MarkedSent, Sound, Frame, KeepPayload
  <2> QED BY <2>1, <2>2, ZenonT(60)
<1>9. f.destination = Nobody =>
        /\ g.sent_via = f.sent_via \cup {i} /\ g.sendBroadcast /\ i \notin f.sent_via
  BY <1>2, <1>6, ZenonT(60) DEF Frame
<1>10. Once(f, s.sent) => Once(g, T)
  <2> SUFFICES ASSUME Once(f, s.sent), f.destination = Nobody, NEW j \in Interface
               PROVE  T[f.id][j] <= 1 /\ (T[f.id][j] = 1 => j \in g.sent_via)
    BY <1>7, ZenonT(60) DEF Once
  <2>1. s.sent[f.id][j] \in Nat
    BY <1>2, ZenonT(60) DEF Stage, Tally
  <2>2. s.sent[f.id][j] <= 1 /\ (s.sent[f.id][j] = 1 => j \in f.sent_via)
    BY ZenonT(60) DEF Once
  <2>3. CASE j = i
    <3>1. T[f.id][j] = s.sent[f.id][j] + 1
      BY <1>5, <2>3, ZenonT(60)
    <3> QED BY <1>9, <2>1, <2>2, <2>3, <3>1
  <2>4. CASE j # i
    BY <1>5, <1>9, <2>2, <2>4, ZenonT(60)
  <2> QED BY <2>3, <2>4, ZenonT(60)
<1>11. f.destination = Nobody /\ Once(f, s.sent) /\ ~KeepPayload(g) => Spread(f, T)
  <2> SUFFICES ASSUME f.destination = Nobody, Once(f, s.sent), ~KeepPayload(g), NEW j \in up
               PROVE  j \in f.sent_via \/ T[f.id][j] = 1
    BY ZenonT(60) DEF Spread
  <2>1. j \in f.sent_via \cup {i} /\ j \in Interface
    BY <1>9, ZenonT(60) DEF KeepPayload, Network
  <2>2. j = i => s.sent[f.id][j] = 0
    <3>1. s.sent[f.id][j] \in Nat
      BY <1>2, <2>1, ZenonT(60) DEF Stage, Tally
    <3>2. s.sent[f.id][j] <= 1 /\ (s.sent[f.id][j] = 1 => j \in f.sent_via)
      BY <2>1, ZenonT(60) DEF Once
    <3> QED BY <1>9, <3>1, <3>2
  <2>3. j = i => T[f.id][j] = s.sent[f.id][j] + 1
    BY <1>5, <2>1, ZenonT(60)
  <2> QED BY <2>1, <2>2, <2>3
<1> HIDE DEF i, g
<1>12. CASE KeepPayload(g)
  <2>1. Skip(t, g) \in Stage /\ Skip(t, g).queue = Append(s.queue, g)
          /\ Skip(t, g).queues = s.queues /\ Skip(t, g).sent = T
    BY <1>5, <1>8, <1>12, SkipIs
  <2> QED BY <1>1, <1>5, <1>7, <1>8, <1>10, <1>12, <2>1, ZenonT(60) DEF Turned
<1>13. CASE ~KeepPayload(g)
  BY <1>1, <1>5, <1>11, <1>13, ZenonT(60) DEF Turned
<1> QED BY <1>12, <1>13, ZenonT(60)

\* Every turn of the loop does with its frame what Turned says.
LEMMA StuffFrameIs ==
    ASSUME Network, NEW s \in Stage, NEW frame \in Sound
    PROVE  Turned(s, frame, StuffFrame(s, frame))
PROOF
<1>1. ASSUME NEW f \in Sound, NEW t \in Stage, f.id = frame.id, f.destination = frame.destination,
             f.destination = Nobody => f = frame,
             t.queue = s.queue, t.queues = s.queues, t.sent = s.sent
      PROVE  Turned(s, frame, Skip(t, f))
  <2>1. Once(frame, s.sent) => Once(f, t.sent)
    BY <1>1, ZenonT(60) DEF Once
  <2> DEFINE z == Skip(t, f)
  <2>2. /\ z \in Stage /\ z.queue = Append(s.queue, f) /\ z.queues = s.queues /\ z.sent = s.sent
        /\ z.sent = t.sent
    <3>1. /\ z \in Stage /\ z.queue = Append(t.queue, f)
          /\ z.queues = t.queues /\ z.sent = t.sent
      BY SkipIs
    <3> HIDE DEF z
    <3> QED BY <1>1, <3>1
  <2> HIDE DEF z
  <2>3. Once(frame, s.sent) => Once(f, z.sent)
    BY <2>1, <2>2, ZenonT(60)
  <2>4. \A n \in Id : n # frame.id => z.sent[n] = s.sent[n]
    BY <2>2, ZenonT(60)
  <2> QED BY <1>1, <2>2, <2>3, <2>4, ZenonT(60) DEF Turned, z
<1>2. CASE Expired(frame)
  BY <1>2, ZenonT(60) DEF StuffFrame, Expired, Turned
<1>3. CASE ~Expired(frame) /\ Unreachable(frame)
  BY <1>1, <1>3, ZenonT(60) DEF StuffFrame
<1>4. CASE ~Expired(frame) /\ ~Unreachable(frame)
  <2> DEFINE f  == Addressed(frame)
             pk == IF s.packet.open THEN s.packet ELSE OpenFor(f)
             t  == [s EXCEPT !.packet = pk]
  <2>1. StuffFrame(s, frame) = CASE ~ pk.open -> s
            [] pk.open /\ s.packet.open /\ ~ MayJoin(f, pk) -> Skip(s, f)
            [] OTHER -> IF f.size > pk.free THEN Skip(t, f) ELSE Append_(t, f)
    BY <1>4, ZenonT(60) DEF StuffFrame
  <2>2. /\ f \in Sound /\ f.id = frame.id /\ f.destination = frame.destination
        /\ f.destination = Nobody => f = frame
        /\ ~f.sendBroadcast => NextHop(f) \in Peer
    BY <1>4, AddressedIs, ZenonT(60)
  <2> HIDE DEF f
  <2>3. s.packet \in Packet
    BY ZenonT(60) DEF Stage
  <2>4. pk \in Packet
    BY <2>2, <2>3, OpenForIs, ZenonT(60)
  <2>5. t \in Stage /\ t.packet = pk /\ t.queue = s.queue /\ t.queues = s.queues /\ t.sent = s.sent
    BY <2>4, ZenonT(60) DEF Stage
  <2>6. CASE ~pk.open
    <3>1. OpenFor(f).open = FALSE /\ up \subseteq f.sent_via
      BY <2>2, <2>3, <2>4, <2>6, OpenForIs, ZenonT(60) DEF Packet
    <3>2. frame.destination = Nobody => Spread(frame, s.sent)
      BY <2>2, <3>1, ZenonT(60) DEF Spread
    <3> QED BY <2>1, <2>6, <3>2, ZenonT(60) DEF Turned
  <2>7. CASE pk.open /\ s.packet.open /\ ~ MayJoin(f, pk)
    BY <1>1, <2>1, <2>2, <2>7, ZenonT(60)
  <2>8. CASE pk.open /\ (s.packet.open => MayJoin(f, pk))
    <3>1. StuffFrame(s, frame) = IF f.size > pk.free THEN Skip(t, f) ELSE Append_(t, f)
      BY <2>1, <2>8, ZenonT(60)
    <3>2. f.sendBroadcast => pk.interface \notin f.sent_via
      <4>1. CASE s.packet.open
        BY <2>8, <4>1, ZenonT(60) DEF MayJoin
      <4>2. CASE ~s.packet.open
        BY <2>2, <2>8, <4>2, OpenForIs, ZenonT(60)
      <4> QED BY <4>1, <4>2, ZenonT(60)
    <3> HIDE DEF pk, t
    <3>3. Turned(s, frame, Skip(t, f))
      BY <1>1, <2>2, <2>5, ZenonT(60)
    <3>4. Turned(t, f, Append_(t, f))
      BY <2>2, <2>5, <3>2, AppendIs, ZenonT(60)
    <3>5. Turned(s, frame, Append_(t, f))
      <4>1. Once(frame, s.sent) => Once(f, t.sent)
        BY <2>2, <2>5, ZenonT(60) DEF Once
      <4>2. ASSUME NEW u, f.destination = Nobody /\ ~f.late /\ Once(f, t.sent) => Spread(f, u)
            PROVE  frame.destination = Nobody /\ ~frame.late /\ Once(frame, s.sent) => Spread(frame, u)
        BY <2>2, <4>1, <4>2, ZenonT(60)
      <4> QED BY <2>2, <2>5, <3>4, <4>1, <4>2, ZenonT(60) DEF Turned
    <3> QED BY <3>1, <3>3, <3>5, ZenonT(60)
  <2> QED BY <2>6, <2>7, <2>8, ZenonT(60)
<1> QED BY <1>2, <1>3, <1>4, ZenonT(60)

-----------------------------------------------------------------------------
(* One queue                                                                *)

FramesApart(queue) == \A k, m \in 1..Len(queue) : queue[k].id = queue[m].id => k = m

\* The first k frames of a queue have been considered, and "after" is what is
\* left of them: each has left at most once on each interface, and those that
\* are gone have been dealt with.
Handled(before, k, after, t) ==
    /\ Len(after) <= k
    /\ FramesApart(after)
    /\ \A m \in 1..Len(after) : (\E j \in 1..k : after[m].id = before[j].id) /\ Once(after[m], t)
    /\ \A j \in 1..k :
         /\ before[j].destination = Nobody /\ ~before[j].late
         /\ \A m \in 1..Len(after) : after[m].id # before[j].id
         => Spread(before[j], t)

\* It is only the counts of these frames that matter.
LEMMA HandledCongruent ==
    ASSUME NEW before, NEW k, NEW after, NEW t, NEW u, Handled(before, k, after, t),
           \A j \in 1..k : u[before[j].id] = t[before[j].id]
    PROVE  Handled(before, k, after, u)
PROOF
<1>1. ASSUME NEW m \in 1..Len(after) PROVE Once(after[m], u)
  <2>1. PICK j \in 1..k : after[m].id = before[j].id
    BY ZenonT(60) DEF Handled
  <2>2. u[after[m].id] = t[after[m].id] /\ Once(after[m], t)
    BY <2>1 DEF Handled
  <2> QED BY <2>2, ZenonT(60) DEF Once
<1>2. ASSUME NEW j \in 1..k, Spread(before[j], t) PROVE Spread(before[j], u)
  BY <1>2 DEF Spread
<1> QED BY <1>1, <1>2, ZenonT(60) DEF Handled

\* The next frame is considered.
LEMMA TurnHandles ==
    ASSUME NEW before \in Seq(Sound), FramesApart(before), NEW k \in Nat, k + 1 <= Len(before),
           NEW s \in Stage, NEW t, Handled(before, k, s.queue, s.sent),
           Once(before[k + 1], s.sent), Turned(s, before[k + 1], t)
    PROVE  Handled(before, k + 1, t.queue, t.sent)
PROOF
<1> DEFINE b == before[k + 1]
<1>1. k + 1 \in 1..Len(before) /\ \A j \in 1..k : j \in 1..Len(before) /\ j # k + 1
  OBVIOUS
<1>2. b \in Sound /\ \A j \in 1..k : before[j] \in Sound /\ before[j].id # b.id
  BY <1>1 DEF FramesApart
<1>3. \A j \in 1..k : before[j].id \in Id
  BY <1>2, ZenonT(60) DEF Sound, Frame
<1>4. \A j \in 1..k : t.sent[before[j].id] = s.sent[before[j].id]
  BY <1>2, <1>3, ZenonT(60) DEF Turned
<1>5. Handled(before, k, s.queue, t.sent)
  BY <1>4, HandledCongruent, ZenonT(60)
<1>6. \A j \in 1..k + 1 : j \in 1..k \/ j = k + 1
  OBVIOUS
<1>7. s.queue \in Seq(Sound) /\ Len(s.queue) \in Nat
  BY DEF Stage
<1>8. CASE /\ t.queue = s.queue
           /\ b.destination = Nobody /\ ~b.late /\ Once(b, s.sent) => Spread(b, t.sent)
  <2>1. Len(t.queue) <= k + 1 /\ FramesApart(t.queue)
    BY <1>5, <1>7, <1>8 DEF Handled
  <2>2. \A m \in 1..Len(t.queue) : (\E j \in 1..k + 1 : t.queue[m].id = before[j].id) /\ Once(t.queue[m], t.sent)
    BY <1>5, <1>8 DEF Handled
  <2>3. ASSUME NEW j \in 1..k + 1, before[j].destination = Nobody, ~before[j].late,
               \A m \in 1..Len(t.queue) : t.queue[m].id # before[j].id
        PROVE  Spread(before[j], t.sent)
    <3>1. CASE j \in 1..k
      BY <1>5, <1>8, <2>3, <3>1, ZenonT(60) DEF Handled
    <3>2. CASE j = k + 1
      BY <1>8, <2>3, <3>2, ZenonT(60)
    <3> QED BY <1>6, <3>1, <3>2, ZenonT(60)
  <2> HIDE DEF b
  <2> QED BY <2>1, <2>2, <2>3, ZenonT(60) DEF Handled
<1>9. ASSUME NEW g \in Sound, t.queue = Append(s.queue, g), g.id = b.id, Once(g, t.sent)
      PROVE  Handled(before, k + 1, t.queue, t.sent)
  <2> DEFINE L == Len(s.queue)
  <2>1. /\ L \in Nat /\ Len(t.queue) = L + 1 /\ t.queue[L + 1] = g
        /\ \A m \in 1..L : t.queue[m] = s.queue[m]
    BY <1>7, <1>9
  <2>2. \A m \in 1..L + 1 : m \in 1..L \/ m = L + 1
    BY <2>1
  <2> HIDE DEF L
  <2>3. L <= k /\ \A m \in 1..L : \E j \in 1..k : t.queue[m].id = before[j].id
    BY <1>5, <2>1, ZenonT(60) DEF Handled, L
  <2>4. \A m \in 1..L : t.queue[m].id # g.id
    BY <1>2, <1>9, <2>3, ZenonT(60)
  <2>5. \A m \in 1..L : Once(t.queue[m], t.sent)
    BY <1>5, <2>1, ZenonT(60) DEF Handled, L
  <2>6. FramesApart(t.queue)
    <3> SUFFICES ASSUME NEW m \in 1..L + 1, NEW n \in 1..L + 1, t.queue[m].id = t.queue[n].id PROVE m = n
      BY <2>1, ZenonT(60) DEF FramesApart
    <3>1. CASE m \in 1..L /\ n \in 1..L
      BY <1>5, <2>1, <3>1, ZenonT(60) DEF Handled, FramesApart, L
    <3> QED BY <2>1, <2>2, <2>4, <3>1, ZenonT(60)
  <2>7. Len(t.queue) <= k + 1
    BY <2>1, <2>3
  <2>8. ASSUME NEW m \in 1..L + 1
        PROVE  (\E j \in 1..k + 1 : t.queue[m].id = before[j].id) /\ Once(t.queue[m], t.sent)
    <3>1. CASE m \in 1..L
      BY <2>3, <2>5, <3>1
    <3>2. CASE m = L + 1
      BY <1>9, <2>1, <3>2
    <3> QED BY <2>2, <3>1, <3>2, ZenonT(60)
  <2>9. ASSUME NEW j \in 1..k + 1, before[j].destination = Nobody, ~before[j].late,
               \A m \in 1..L + 1 : t.queue[m].id # before[j].id
        PROVE  Spread(before[j], t.sent)
    <3>1. j # k + 1
      BY <1>9, <2>1, <2>9
    <3>2. j \in 1..k /\ \A m \in 1..L : s.queue[m].id # before[j].id
      BY <1>6, <2>1, <2>9, <3>1
    <3> QED BY <1>5, <2>9, <3>2, ZenonT(60) DEF Handled, L
  <2> QED BY <2>1, <2>6, <2>7, <2>8, <2>9, ZenonT(60) DEF Handled
<1> QED BY <1>8, <1>9, ZenonT(60) DEF Turned

Ready(q, t) == \A k \in 1..Len(tx[q]) : Once(tx[q][k], t)

\* overlay_stuff_packet() handles a queue, and changes no other.
Stuffed(s, q, t) ==
    /\ t \in Stage
    /\ Ready(q, s.sent) => Handled(tx[q], Len(tx[q]), t.queues[q], t.sent)
    /\ \A p \in Queue : p # q => t.queues[p] = s.queues[p]
    /\ \A n \in Id : (\A j \in 1..Len(tx[q]) : tx[q][j].id # n) => t.sent[n] = s.sent[n]

\* That is what its loop over the frames comes to.
LEMMA StuffPacketIs ==
    ASSUME Network, NEW s \in Stage, NEW q \in Queue, tx[q] \in Seq(Sound), FramesApart(tx[q])
    PROVE  Stuffed(s, q, overlay_stuff_packet(s, q))
PROOF
<1> DEFINE N == Len(tx[q])
           r == [s EXCEPT !.queue = <<>>]
           G == [n \in 1..N |-> [x \in Stage |-> StuffFrame(x, tx[q][n])]]
           turn == CHOOSE turn : turn = [k \in 0..Len(tx[q]) |->
                     IF k = 0 THEN [s EXCEPT !.queue = <<>>] ELSE StuffFrame(turn[k - 1], tx[q][k])]
<1>1. overlay_stuff_packet(s, q) = [turn[N] EXCEPT !.queues[q] = turn[N].queue]
  BY ZenonT(60) DEF overlay_stuff_packet
<1>2. N \in Nat /\ \A n \in 1..N : tx[q][n] \in Sound
  OBVIOUS
<1>3. r \in Stage /\ r.queue = <<>> /\ r.queues = s.queues /\ r.sent = s.sent
  <2>1. <<>> \in Seq(Sound)
    OBVIOUS
  <2> QED BY <2>1, ZenonT(60) DEF Stage
<1>4. \A n \in 1..N : \A x \in Stage : Turned(x, tx[q][n], StuffFrame(x, tx[q][n]))
  BY <1>2, StuffFrameIs, ZenonT(60)
<1>5. G \in [1..N -> [Stage -> Stage]] /\ \A n \in 1..N : \A x \in Stage : G[n][x] = StuffFrame(x, tx[q][n])
  <2>1. \A n \in 1..N : \A x \in Stage : StuffFrame(x, tx[q][n]) \in Stage
    BY <1>4, ZenonT(60) DEF Turned
  <2> QED BY <2>1, ZenonT(60)
<1> HIDE DEF G, r
<1>6. PICK f : Runs(f, Stage, r, G, N)
  <2> HIDE DEF N
  <2> QED BY ONLY <1>2, <1>3, <1>5, Running, ZenonT(60)
<1>7. \A n \in 1..N : n - 1 \in 0..N /\ f[n - 1] \in Stage
  BY <1>2, <1>6 DEF Runs
<1>8. f = [n \in 0..N |-> IF n = 0 THEN r ELSE StuffFrame(f[n - 1], tx[q][n])]
  BY <1>2, <1>5, <1>6, <1>7 DEF Runs
<1>9. turn = [n \in 0..N |-> IF n = 0 THEN r ELSE StuffFrame(turn[n - 1], tx[q][n])]
  BY <1>8, ZenonT(60) DEF r
<1> HIDE DEF turn
<1> DEFINE I(n) == /\ turn[n] \in Stage /\ turn[n].queues = s.queues
                   /\ Ready(q, s.sent) => Handled(tx[q], n, turn[n].queue, turn[n].sent)
                   /\ \A m \in Id : (\A j \in 1..n : tx[q][j].id # m) => turn[n].sent[m] = s.sent[m]
           S == {n \in Nat : n <= N => I(n)}
<1>10. 0 \in S
  <2>1. turn[0] = r
    BY <1>2, <1>9
  <2>2. Handled(tx[q], 0, r.queue, r.sent)
    BY <1>3 DEF Handled, FramesApart
  <2> QED BY <1>3, <2>1, <2>2, ZenonT(60)
<1>11. ASSUME NEW n \in Nat, n \in S PROVE n + 1 \in S
  <2> SUFFICES ASSUME n + 1 <= N PROVE I(n + 1)
    OBVIOUS
  <2>1. n + 1 \in 0..N /\ n + 1 \in 1..N /\ (n + 1) - 1 = n /\ n <= N /\ n + 1 # 0
          /\ \A j \in 1..n : j \in 1..N /\ j # n + 1 /\ j \in 1..n + 1
    BY <1>2
  <2> DEFINE x == turn[n]
             b == tx[q][n + 1]
  <2>2. I(n)
    BY <1>11, <2>1, ZenonT(60)
  <2>3. turn[n + 1] = StuffFrame(x, b)
    BY <1>9, <2>1, ZenonT(60)
  <2>4. Turned(x, b, turn[n + 1])
    BY <1>4, <2>1, <2>2, <2>3, ZenonT(60)
  <2>5. b \in Sound /\ b.id \in Id /\ \A j \in 1..n : tx[q][j].id # b.id
    BY <1>2, <2>1, ZenonT(60) DEF FramesApart, Sound, Frame
  <2>6. ASSUME Ready(q, s.sent) PROVE Once(b, x.sent)
    <3>1. x.sent[b.id] = s.sent[b.id] /\ Once(b, s.sent)
      BY <2>1, <2>2, <2>5, <2>6, ZenonT(60) DEF Ready
    <3> QED BY <3>1, ZenonT(60) DEF Once
  <2>7. Ready(q, s.sent) => Handled(tx[q], n + 1, turn[n + 1].queue, turn[n + 1].sent)
    BY <2>1, <2>2, <2>4, <2>6, TurnHandles, ZenonT(60)
  <2>8. ASSUME NEW m \in Id, \A j \in 1..n + 1 : tx[q][j].id # m PROVE turn[n + 1].sent[m] = s.sent[m]
    <3>1. m # b.id /\ \A j \in 1..n : tx[q][j].id # m
      BY <2>1, <2>8
    <3> QED BY <2>2, <2>4, <3>1, ZenonT(60) DEF Turned
  <2> QED BY <2>2, <2>4, <2>7, <2>8, ZenonT(60) DEF Turned
<1> HIDE DEF S, I
<1>12. N \in S
  BY <1>2, <1>10, <1>11, NatInd, ZenonT(60)
<1>13. I(N)
  BY <1>2, <1>12 DEF S
<1> DEFINE out == turn[N]
           t == [out EXCEPT !.queues[q] = out.queue]
<1>14. /\ out \in Stage /\ out.queues = s.queues
       /\ Ready(q, s.sent) => Handled(tx[q], N, out.queue, out.sent)
       /\ \A m \in Id : (\A j \in 1..N : tx[q][j].id # m) => out.sent[m] = s.sent[m]
  BY <1>13, ZenonT(60) DEF I
<1> HIDE DEF out
<1>15. t \in Stage /\ t.sent = out.sent /\ t.queues[q] = out.queue /\ \A p \in Queue : p # q => t.queues[p] = s.queues[p]
  BY <1>14, ZenonT(60) DEF Stage
<1> HIDE DEF t
<1>16. Stuffed(s, q, t)
  BY <1>14, <1>15, ZenonT(60) DEF Stuffed
<1> QED BY <1>1, <1>16, ZenonT(60) DEF t, out

-----------------------------------------------------------------------------
(* All queues                                                               *)

\* No two queued frames are the same.
Unique ==
    \A p, q \in Queue : \A k \in 1..Len(tx[p]) : \A m \in 1..Len(tx[q]) :
      tx[p][k].id = tx[q][m].id => p = q /\ k = m

\* The inductive invariant: types, frames that are told apart by their ids, and
\* counts that agree with the marks each frame carries.
QueueInv ==
    /\ Network
    /\ tx \in [Queue -> Seq(Sound)] /\ \A q \in Queue : Len(tx[q]) <= MaxLength
    /\ alarm \in BOOLEAN /\ sent \in Tally /\ frames \in 0..MaxFrames /\ last_tick \in BOOLEAN
    /\ Unique
    /\ \A q \in Queue : Ready(q, sent) /\ \A k \in 1..Len(tx[q]) : tx[q][k].id <= frames
    /\ \A n \in Id : n > frames => \A i \in Interface : sent[n][i] = 0

\* The queues have all been handled.
Filled(t) ==
    /\ t \in Stage
    /\ \A q \in Queue : Handled(tx[q], Len(tx[q]), t.queues[q], t.sent)
    /\ \A n \in Id : (\A q \in Queue : \A j \in 1..Len(tx[q]) : tx[q][j].id # n) => t.sent[n] = sent[n]

\* The queues below n have been handled.
Scanned(n, t) ==
    /\ t \in Stage
    /\ \A q \in Queue : q < n => Handled(tx[q], Len(tx[q]), t.queues[q], t.sent)
    /\ \A m \in Id : (\A q \in Queue : q < n => \A j \in 1..Len(tx[q]) : tx[q][j].id # m) => t.sent[m] = sent[m]

\* The next queue is handled, and those before it stay as they are.
LEMMA ScanStep ==
    ASSUME QueueInv, NEW q \in Queue, NEW s, Scanned(q, s), NEW t, Stuffed(s, q, t)
    PROVE  Scanned(q + 1, t)
PROOF
<1>1. \A p \in Queue : tx[p] \in Seq(Sound) /\ \A j \in 1..Len(tx[p]) : tx[p][j].id \in Id
  BY DEF QueueInv, Sound, Frame
<1>2. \A p \in Queue : (p < q + 1 <=> p < q \/ p = q) /\ (p < q => p # q)
  BY QueueAssumption DEF Queue
<1>3. Ready(q, s.sent)
  <2> SUFFICES ASSUME NEW k \in 1..Len(tx[q]) PROVE Once(tx[q][k], s.sent)
    BY ZenonT(60) DEF Ready
  <2>1. \A p \in Queue : p < q => \A j \in 1..Len(tx[p]) : tx[p][j].id # tx[q][k].id
    BY <1>2, ZenonT(60) DEF QueueInv, Unique
  <2>2. s.sent[tx[q][k].id] = sent[tx[q][k].id]
    BY <1>1, <2>1, ZenonT(60) DEF Scanned
  <2>3. Once(tx[q][k], sent)
    BY ZenonT(60) DEF QueueInv, Ready
  <2> QED BY <2>2, <2>3, ZenonT(60) DEF Once
<1>4. ASSUME NEW p \in Queue, p < q PROVE Handled(tx[p], Len(tx[p]), t.queues[p], t.sent)
  <2>1. ASSUME NEW j \in 1..Len(tx[p]) PROVE t.sent[tx[p][j].id] = s.sent[tx[p][j].id]
    <3>1. \A k \in 1..Len(tx[q]) : tx[q][k].id # tx[p][j].id
      BY <1>2, <1>4, ZenonT(60) DEF QueueInv, Unique
    <3> QED BY <1>1, <3>1, ZenonT(60) DEF Stuffed
  <2>2. Handled(tx[p], Len(tx[p]), s.queues[p], s.sent) /\ t.queues[p] = s.queues[p]
    BY <1>2, <1>4, ZenonT(60) DEF Scanned, Stuffed
  <2> QED BY <2>1, <2>2, HandledCongruent, ZenonT(60)
<1>5. Handled(tx[q], Len(tx[q]), t.queues[q], t.sent) /\ t \in Stage
  BY <1>3, ZenonT(60) DEF Stuffed
<1>6. ASSUME NEW m \in Id, \A p \in Queue : p < q + 1 => \A j \in 1..Len(tx[p]) : tx[p][j].id # m
      PROVE  t.sent[m] = sent[m]
  <2>1. t.sent[m] = s.sent[m]
    BY <1>2, <1>6, ZenonT(60) DEF Stuffed
  <2>2. s.sent[m] = sent[m]
    BY <1>2, <1>6, ZenonT(60) DEF Scanned
  <2> QED BY <2>1, <2>2, ZenonT(60)
<1> QED BY <1>2, <1>4, <1>5, <1>6, ZenonT(60) DEF Scanned

\* overlay_fill_send_packet() handles the queues one after the other.
LEMMA FillIs ==
    ASSUME QueueInv, NEW pk \in Packet, overlay_fill_send_packet(pk)
    PROVE  \E t : /\ Filled(t)
                  /\ tx' = t.queues /\ alarm' = t.alarm /\ sent' = t.sent
                  /\ SendPacket(t.packet) /\ UNCHANGED <<route, frames>>
PROOF
<1> DEFINE N == OQ_MAX
           r == [packet |-> pk, queue |-> <<>>, queues |-> tx, alarm |-> FALSE, sent |-> sent]
           G == [n \in 1..N |-> [x \in Stage |-> overlay_stuff_packet(x, n - 1)]]
           scan == CHOOSE scan : scan = [n \in 0..OQ_MAX |->
                     IF n = 0 THEN [packet |-> pk, queue |-> <<>>, queues |-> tx, alarm |-> FALSE, sent |-> sent]
                     ELSE overlay_stuff_packet(scan[n - 1], n - 1)]
<1>1. \E end \in {scan[N]} : /\ tx' = end.queues /\ alarm' = end.alarm /\ sent' = end.sent
                             /\ SendPacket(end.packet) /\ UNCHANGED <<route, frames>>
  BY ZenonT(60) DEF overlay_fill_send_packet
<1>2. N \in Nat /\ \A n \in 1..N : n - 1 \in Queue
  BY QueueAssumption DEF Queue
<1>3. r \in Stage /\ r.queues = tx /\ r.sent = sent
  <2>1. <<>> \in Seq(Sound)
    OBVIOUS
  <2> QED BY <2>1, ZenonT(60) DEF Stage, QueueInv
<1>4. ASSUME NEW q \in Queue, NEW x \in Stage PROVE Stuffed(x, q, overlay_stuff_packet(x, q))
  <2>1. tx[q] \in Seq(Sound) /\ FramesApart(tx[q]) /\ Network
    BY DEF QueueInv, Unique, FramesApart
  <2> QED BY <2>1, StuffPacketIs, ZenonT(60)
<1>5. G \in [1..N -> [Stage -> Stage]] /\ \A n \in 1..N : \A x \in Stage : G[n][x] = overlay_stuff_packet(x, n - 1)
  <2>1. \A n \in 1..N : \A x \in Stage : overlay_stuff_packet(x, n - 1) \in Stage
    BY <1>2, <1>4, ZenonT(60) DEF Stuffed
  <2> QED BY <2>1, ZenonT(60)
<1> HIDE DEF G, r
<1>6. PICK f : Runs(f, Stage, r, G, N)
  <2> HIDE DEF N
  <2> QED BY ONLY <1>2, <1>3, <1>5, Running, ZenonT(60)
<1>7. \A n \in 1..N : n - 1 \in 0..N /\ f[n - 1] \in Stage
  BY <1>2, <1>6 DEF Runs
<1>8. f = [n \in 0..N |-> IF n = 0 THEN r ELSE overlay_stuff_packet(f[n - 1], n - 1)]
  BY <1>2, <1>5, <1>6, <1>7 DEF Runs
<1>9. scan = [n \in 0..N |-> IF n = 0 THEN r ELSE overlay_stuff_packet(scan[n - 1], n - 1)]
  BY <1>8, ZenonT(60) DEF r
<1> HIDE DEF scan
<1> DEFINE S == {n \in Nat : n <= N => Scanned(n, scan[n])}
<1>10. 0 \in S
  <2>1. scan[0] = r
    BY <1>2, <1>9
  <2>2. \A q \in Queue : ~(q < 0)
    BY DEF Queue
  <2>3. Scanned(0, r)
    BY <1>3, <2>2, ZenonT(60) DEF Scanned
  <2> QED BY <2>1, <2>3, ZenonT(60)
<1>11. ASSUME NEW n \in Nat, n \in S PROVE n + 1 \in S
  <2> SUFFICES ASSUME n + 1 <= N PROVE Scanned(n + 1, scan[n + 1])
    OBVIOUS
  <2>1. n + 1 \in 0..N /\ (n + 1) - 1 = n /\ n <= N /\ n + 1 # 0 /\ n \in Queue
    BY <1>2 DEF Queue
  <2>2. Scanned(n, scan[n])
    BY <1>11, <2>1, ZenonT(60)
  <2>3. scan[n + 1] = overlay_stuff_packet(scan[n], n)
    BY <1>9, <2>1, ZenonT(60)
  <2>4. Stuffed(scan[n], n, scan[n + 1])
    BY <1>4, <2>1, <2>2, <2>3, ZenonT(60) DEF Scanned
  <2> QED BY <2>1, <2>2, <2>4, ScanStep, ZenonT(60)
<1> HIDE DEF S
<1>12. N \in S
  BY <1>2, <1>10, <1>11, NatInd, ZenonT(60)
<1>13. Scanned(N, scan[N])
  BY <1>2, <1>12 DEF S
<1>14. Filled(scan[N])
  <2>1. \A q \in Queue : q < N
    BY <1>2 DEF Queue
  <2> QED BY <1>13, <2>1, ZenonT(60) DEF Scanned, Filled
<1> QED BY <1>1, <1>14, ZenonT(60)

-----------------------------------------------------------------------------
(* Steps                                                                    *)

\* A frame for everybody that is not late is given up only when every interface
\* that is up has been dealt with.
Commits ==
    \A q \in Queue : \A k \in 1..Len(tx[q]) :
      /\ tx[q][k].destination = Nobody /\ ~tx[q][k].late
      /\ \A p \in Queue : \A m \in 1..Len(tx'[p]) : tx'[p][m].id # tx[q][k].id
      => \A i \in up : i \in tx[q][k].sent_via \/ sent'[tx[q][k].id][i] = 1

\* A packet is filled from the queues, and sent.
LEMMA FillStep ==
    ASSUME QueueInv, NEW pk \in Packet, overlay_fill_send_packet(pk), last_tick' \in BOOLEAN
    PROVE  QueueInv' /\ Commits
PROOF
<1>1. PICK t : /\ Filled(t)
               /\ tx' = t.queues /\ alarm' = t.alarm /\ sent' = t.sent
               /\ SendPacket(t.packet) /\ UNCHANGED <<route, frames>>
  BY FillIs, ZenonT(60)
<1>2. t \in Stage
  BY <1>1, ZenonT(60) DEF Filled
<1>3. tx' \in [Queue -> Seq(Sound)] /\ alarm' \in BOOLEAN /\ sent' \in Tally
  BY <1>1, <1>2, ZenonT(60) DEF Stage
<1>4. Network'
  BY <1>1, ZenonT(60) DEF SendPacket, Network, QueueInv
<1>5. \A q \in Queue : Handled(tx[q], Len(tx[q]), tx'[q], sent')
  BY <1>1, ZenonT(60) DEF Filled
<1>6. \A q \in Queue : Len(tx'[q]) <= MaxLength
  <2> SUFFICES ASSUME NEW q \in Queue PROVE Len(tx'[q]) <= MaxLength
    BY ZenonT(60)
  <2>1. tx'[q] \in Seq(Sound) /\ tx[q] \in Seq(Sound) /\ Len(tx[q]) <= MaxLength /\ Len(tx'[q]) <= Len(tx[q])
    BY <1>3, <1>5, ZenonT(60) DEF QueueInv, Handled
  <2> QED BY <2>1, QueueAssumption
<1>7. \A q \in Queue : \A k \in 1..Len(tx'[q]) : \E j \in 1..Len(tx[q]) : tx'[q][k].id = tx[q][j].id
  BY <1>5, ZenonT(60) DEF Handled
<1>8. Unique'
  <2> SUFFICES ASSUME NEW p \in Queue, NEW q \in Queue, NEW k \in 1..Len(tx'[p]), NEW m \in 1..Len(tx'[q]),
                      tx'[p][k].id = tx'[q][m].id
               PROVE  p = q /\ k = m
    BY ZenonT(60) DEF Unique
  <2>1. PICK j \in 1..Len(tx[p]) : tx'[p][k].id = tx[p][j].id
    BY <1>7, ZenonT(60)
  <2>2. PICK n \in 1..Len(tx[q]) : tx'[q][m].id = tx[q][n].id
    BY <1>7, ZenonT(60)
  <2>3. p = q
    <3>1. tx[p][j].id = tx[q][n].id /\ Unique
      BY <2>1, <2>2, ZenonT(60) DEF QueueInv
    <3> QED BY <3>1, ZenonT(60) DEF Unique
  <2> QED BY <1>5, <2>3, ZenonT(60) DEF Handled, FramesApart
<1>9. \A q \in Queue : Ready(q, sent)' /\ \A k \in 1..Len(tx'[q]) : tx'[q][k].id <= frames'
  <2> SUFFICES ASSUME NEW q \in Queue, NEW k \in 1..Len(tx'[q])
               PROVE  Once(tx'[q][k], sent') /\ tx'[q][k].id <= frames'
    BY ZenonT(60) DEF Ready
  <2>1. PICK j \in 1..Len(tx[q]) : tx'[q][k].id = tx[q][j].id
    BY <1>7, ZenonT(60)
  <2>2. tx'[q][k].id <= frames'
    BY <1>1, <2>1, ZenonT(60) DEF QueueInv
  <2> QED BY <1>5, <2>2, ZenonT(60) DEF Handled
<1>10. \A n \in Id : n > frames' => \A i \in Interface : sent'[n][i] = 0
  <2> SUFFICES ASSUME NEW n \in Id, n > frames, NEW i \in Interface PROVE sent'[n][i] = 0
    BY <1>1, ZenonT(60)
  <2>1. ASSUME NEW q \in Queue, NEW j \in 1..Len(tx[q]) PROVE tx[q][j].id # n
    <3>1. tx[q][j].id <= frames
      BY ZenonT(60) DEF QueueInv
    <3>2. n \in Nat /\ frames \in Nat
      BY QueueAssumption DEF QueueInv, Id
    <3> QED BY <3>1, <3>2
  <2>2. sent'[n] = sent[n]
    BY <1>1, <2>1, ZenonT(60) DEF Filled
  <2> QED BY <2>2, ZenonT(60) DEF QueueInv
<1>11. QueueInv'
  BY <1>1, <1>3, <1>4, <1>6, <1>8, <1>9, <1>10, ZenonT(60) DEF QueueInv
<1>12. Commits
  BY <1>5, ZenonT(60) DEF Commits, Handled, Spread
<1> QED BY <1>11, <1>12, ZenonT(60)

\* A frame is queued.
LEMMA EnqueueStep ==
    ASSUME QueueInv, NEW q \in Queue, NEW d \in Peer \cup {Nobody}, NEW size \in Sizes, NEW c \in Copies,
           overlay_payload_enqueue(q, d, size, c)
    PROVE  QueueInv' /\ Commits
PROOF
<1> DEFINE f == [id |-> frames + 1, destination |-> d, size |-> size, sendBroadcast |-> d = Nobody,
                 sent_via |-> IF d = Nobody THEN Interface \ (up \cap SendsBroadcasts) ELSE {},
                 copies |-> c, late |-> FALSE]
           L == Len(tx[q])
<1>1. /\ frames < MaxFrames /\ Len(tx[q]) < MaxLength
      /\ tx' = [tx EXCEPT ![q] = Append(@, f)]
      /\ alarm' = overlay_calc_queue_time(alarm, f)
      /\ frames' = frames + 1
      /\ UNCHANGED <<up, route, sent, last_tick>>
  BY ZenonT(60) DEF overlay_payload_enqueue, Admitted
<1>2. frames + 1 \in Id /\ frames \in Nat /\ frames' \in 0..MaxFrames
  BY <1>1, QueueAssumption DEF QueueInv, Id
<1>3. f \in Sound /\ f.id = frames + 1
  <2>1. c \in 1..5
    BY QueueAssumption, ZenonT(60)
  <2> QED BY <1>2, <2>1, ZenonT(60) DEF Sound, Frame
<1>4. Once(f, sent)
  <2>1. \A i \in Interface : sent[frames + 1][i] = 0
    BY <1>2 DEF QueueInv
  <2>2. \A i \in Interface : sent[f.id][i] = 0
    BY <1>3, <2>1, ZenonT(60)
  <2> HIDE DEF f
  <2>3. \A i \in Interface : sent[f.id][i] <= 1 /\ sent[f.id][i] # 1
    BY <2>2
  <2> QED BY <2>3, ZenonT(60) DEF Once
<1> HIDE DEF f
<1>5. alarm' \in BOOLEAN
  BY <1>1, ZenonT(60) DEF overlay_calc_queue_time, QueueInv
<1>6. /\ tx[q] \in Seq(Sound) /\ L \in Nat /\ tx'[q] = Append(tx[q], f)
      /\ \A p \in Queue : p # q => tx'[p] = tx[p]
  <2>1. tx \in [Queue -> Seq(Sound)] /\ tx[q] \in Seq(Sound)
    BY ZenonT(60) DEF QueueInv
  <2>2. tx'[q] = Append(tx[q], f) /\ \A p \in Queue : p # q => tx'[p] = tx[p]
    BY <1>1, <2>1, ZenonT(60)
  <2> QED BY <1>3, <2>1, <2>2, LongerByOne, ZenonT(60)
<1>7. /\ Len(tx'[q]) = L + 1 /\ tx'[q][L + 1] = f /\ tx'[q] \in Seq(Sound)
      /\ \A k \in 1..L : k \in 1..L + 1 /\ tx'[q][k] = tx[q][k]
      /\ \A k \in 1..L + 1 : k \in 1..L \/ k = L + 1
  <2> DEFINE a == Append(tx[q], f)
  <2>1. /\ a \in Seq(Sound) /\ Len(a) = L + 1 /\ a[L + 1] = f
        /\ \A k \in 1..L : k \in 1..L + 1 /\ a[k] = tx[q][k]
        /\ \A k \in 1..L + 1 : k \in 1..L \/ k = L + 1
    BY <1>3, <1>6, LongerByOne
  <2>2. tx'[q] = a
    BY <1>6, ZenonT(60)
  <2> HIDE DEF a, L
  <2> QED BY <2>1, <2>2, ZenonT(60)
<1>8. tx' \in [Queue -> Seq(Sound)] /\ \A p \in Queue : Len(tx'[p]) <= MaxLength
  <2>1. tx' \in [Queue -> Seq(Sound)]
    BY <1>1, <1>3, <1>6, <1>7, ZenonT(60) DEF QueueInv
  <2>2. L + 1 <= MaxLength
    BY <1>1, <1>6, QueueAssumption
  <2> QED BY <1>6, <1>7, <2>1, <2>2, ZenonT(60) DEF QueueInv
<1> HIDE DEF L
\* Every frame in the queues is the new one, or was there before.
<1>9. ASSUME NEW p \in Queue, NEW k \in 1..Len(tx'[p])
      PROVE  \/ p = q /\ k = L + 1 /\ tx'[p][k] = f
             \/ k \in 1..Len(tx[p]) /\ tx'[p][k] = tx[p][k]
  BY <1>6, <1>7, ZenonT(60) DEF L
<1>10. \A p \in Queue : \A k \in 1..Len(tx[p]) : tx[p][k].id <= frames /\ tx[p][k].id \in Nat
  <2> SUFFICES ASSUME NEW p \in Queue, NEW k \in 1..Len(tx[p]) PROVE tx[p][k].id <= frames /\ tx[p][k].id \in Nat
    BY ZenonT(60)
  <2>1. tx[p][k] \in Sound
    BY DEF QueueInv
  <2>2. tx[p][k].id \in Id
    BY <2>1, ZenonT(60) DEF Sound, Frame
  <2>3. \A n \in Id : n \in Nat
    BY DEF Id
  <2> QED BY <2>2, <2>3, ZenonT(60) DEF QueueInv
<1>11. \A p \in Queue : \A k \in 1..Len(tx[p]) : tx[p][k].id # f.id
  BY <1>2, <1>3, <1>10
<1>12. Unique'
  <2> SUFFICES ASSUME NEW p \in Queue, NEW o \in Queue, NEW k \in 1..Len(tx'[p]), NEW m \in 1..Len(tx'[o]),
                      tx'[p][k].id = tx'[o][m].id
               PROVE  p = o /\ k = m
    BY ZenonT(60) DEF Unique
  <2>1. CASE k \in 1..Len(tx[p]) /\ tx'[p][k] = tx[p][k] /\ m \in 1..Len(tx[o]) /\ tx'[o][m] = tx[o][m]
    BY <2>1 DEF QueueInv, Unique
  <2>2. CASE p = q /\ k = L + 1 /\ tx'[p][k] = f /\ m \in 1..Len(tx[o]) /\ tx'[o][m] = tx[o][m]
    BY <1>11, <2>2, ZenonT(60)
  <2>3. CASE o = q /\ m = L + 1 /\ tx'[o][m] = f /\ k \in 1..Len(tx[p]) /\ tx'[p][k] = tx[p][k]
    BY <1>11, <2>3, ZenonT(60)
  <2>4. CASE p = q /\ k = L + 1 /\ o = q /\ m = L + 1
    BY <2>4, ZenonT(60)
  <2>5. /\ \/ p = q /\ k = L + 1 /\ tx'[p][k] = f
           \/ k \in 1..Len(tx[p]) /\ tx'[p][k] = tx[p][k]
        /\ \/ o = q /\ m = L + 1 /\ tx'[o][m] = f
           \/ m \in 1..Len(tx[o]) /\ tx'[o][m] = tx[o][m]
    BY <1>9, ZenonT(60)
  <2> QED BY <2>1, <2>2, <2>3, <2>4, <2>5, ZenonT(60)
<1>13. ASSUME NEW p \in Queue, NEW k \in 1..Len(tx'[p])
       PROVE  Once(tx'[p][k], sent') /\ tx'[p][k].id <= frames'
  <2>1. CASE tx'[p][k] = f
    BY <1>1, <1>2, <1>3, <1>4, <2>1
  <2>2. CASE k \in 1..Len(tx[p]) /\ tx'[p][k] = tx[p][k]
    <3>1. Once(tx[p][k], sent)
      BY <2>2, ZenonT(60) DEF QueueInv, Ready
    <3>2. tx[p][k].id <= frames + 1
      BY <1>2, <1>10, <2>2
    <3> QED BY <1>1, <2>2, <3>1, <3>2, ZenonT(60)
  <2> QED BY <1>9, <2>1, <2>2, ZenonT(60)
<1>14. \A n \in Id : n > frames' => \A i \in Interface : sent'[n][i] = 0
  <2>1. \A n \in Id : n > frames + 1 => n > frames
    BY <1>2 DEF Id
  <2> QED BY <1>1, <2>1, ZenonT(60) DEF QueueInv
<1>15. \A p \in Queue : Ready(p, sent)'
  BY <1>13, ZenonT(60) DEF Ready
<1>16. QueueInv'
  BY <1>1, <1>2, <1>5, <1>8, <1>12, <1>13, <1>14, <1>15, ZenonT(60) DEF QueueInv, Network
<1>17. Commits
  <2>1. \A p \in Queue : \A k \in 1..Len(tx[p]) : k \in 1..Len(tx'[p]) /\ tx'[p][k] = tx[p][k]
    BY <1>6, <1>7, ZenonT(60) DEF L
  <2> QED BY <2>1, ZenonT(60) DEF Commits
<1> QED BY <1>16, <1>17, ZenonT(60)

\* A frame becomes late.
LEMMA AgeStep ==
    ASSUME QueueInv, NEW q \in Queue, NEW k, Age(q, k)
    PROVE  QueueInv' /\ Commits
PROOF
<1> DEFINE f == [tx[q][k] EXCEPT !.late = TRUE]
<1>1. tx[q] \in Seq(Sound) /\ k \in 1..Len(tx[q]) /\ tx[q][k] \in Sound
  BY DEF Age, QueueInv
<1>2. f \in Sound /\ f.id = tx[q][k].id /\ f.destination = tx[q][k].destination /\ f.sent_via = tx[q][k].sent_via
  BY <1>1, ZenonT(60) DEF Sound, Frame
<1>3. tx' = [tx EXCEPT ![q] = [tx[q] EXCEPT ![k] = f]] /\ UNCHANGED <<up, route, alarm, sent, frames, last_tick>>
  BY <1>1, ZenonT(60) DEF Age, QueueInv
<1> HIDE DEF f
<1>4. [tx[q] EXCEPT ![k] = f] \in Seq(Sound) /\ Len([tx[q] EXCEPT ![k] = f]) = Len(tx[q])
  BY <1>1, <1>2
<1>5. tx' \in [Queue -> Seq(Sound)] /\ \A p \in Queue : Len(tx'[p]) = Len(tx[p])
  BY <1>3, <1>4, ZenonT(60) DEF QueueInv
<1>6. ASSUME NEW p \in Queue, NEW m \in 1..Len(tx[p])
      PROVE  /\ tx'[p][m].id = tx[p][m].id /\ tx'[p][m].destination = tx[p][m].destination
             /\ tx'[p][m].sent_via = tx[p][m].sent_via
  <2>1. tx \in [Queue -> Seq(Sound)]
    BY ZenonT(60) DEF QueueInv
  <2>2. CASE p # q
    BY <1>3, <2>1, <2>2, ZenonT(60)
  <2>3. CASE p = q
    <3>1. tx'[q] = [tx[q] EXCEPT ![k] = f]
      BY <1>3, <2>1, ZenonT(60)
    <3>2. [tx[q] EXCEPT ![k] = f][m] = IF m = k THEN f ELSE tx[q][m]
      BY <1>1, <2>3
    <3> QED BY <1>2, <2>3, <3>1, <3>2, ZenonT(60)
  <2> QED BY <2>2, <2>3, ZenonT(60)
<1>7. Unique'
  <2> SUFFICES ASSUME NEW p \in Queue, NEW o \in Queue, NEW j \in 1..Len(tx'[p]), NEW m \in 1..Len(tx'[o]),
                      tx'[p][j].id = tx'[o][m].id
               PROVE  p = o /\ j = m
    BY ZenonT(60) DEF Unique
  <2>1. j \in 1..Len(tx[p]) /\ m \in 1..Len(tx[o])
    BY <1>5, ZenonT(60)
  <2>2. tx[p][j].id = tx[o][m].id
    BY <1>6, <2>1, ZenonT(60)
  <2>3. Unique
    BY ZenonT(60) DEF QueueInv
  <2>4. tx[p][j].id = tx[o][m].id => p = o /\ j = m
    BY <2>1, <2>3 DEF Unique
  <2> QED BY <2>2, <2>4, ZenonT(60)
<1>8. \A p \in Queue : Ready(p, sent)'
  <2> SUFFICES ASSUME NEW p \in Queue, NEW m \in 1..Len(tx'[p]) PROVE Once(tx'[p][m], sent')
    BY ZenonT(60) DEF Ready
  <2>1. m \in 1..Len(tx[p]) /\ sent' = sent
    BY <1>3, <1>5, ZenonT(60)
  <2>2. Once(tx[p][m], sent)
    BY <2>1, ZenonT(60) DEF QueueInv, Ready
  <2> QED BY <1>6, <2>1, <2>2, ZenonT(60) DEF Once
<1>9. \A p \in Queue : \A m \in 1..Len(tx'[p]) : tx'[p][m].id <= frames'
  <2> SUFFICES ASSUME NEW p \in Queue, NEW m \in 1..Len(tx'[p]) PROVE tx'[p][m].id <= frames'
    BY ZenonT(60)
  <2>1. m \in 1..Len(tx[p]) /\ frames' = frames
    BY <1>3, <1>5, ZenonT(60)
  <2>2. tx[p][m].id <= frames
    BY <2>1, ZenonT(60) DEF QueueInv
  <2> QED BY <1>6, <2>1, <2>2, ZenonT(60)
<1>10. QueueInv'
  BY <1>3, <1>5, <1>7, <1>8, <1>9, ZenonT(60) DEF QueueInv, Network
<1>11. Commits
  BY <1>5, <1>6, ZenonT(60) DEF Commits
<1> QED BY <1>10, <1>11, ZenonT(60)

\* A step that leaves the queues as they are.
LEMMA QuietStep ==
    ASSUME QueueInv, Network', UNCHANGED <<tx, alarm, sent, frames, last_tick>>
    PROVE  QueueInv' /\ Commits
PROOF
<1>1. Unique' /\ \A q \in Queue : Ready(q, sent)'
  <2>1. Unique /\ (\A q \in Queue : Ready(q, sent)) /\ tx' = tx /\ sent' = sent
    BY ZenonT(60) DEF QueueInv
  <2>2. Unique'
    BY <2>1, ZenonT(60) DEF Unique
  <2>3. ASSUME NEW q \in Queue PROVE Ready(q, sent)'
    BY <2>1, ZenonT(60) DEF Ready
  <2> QED BY <2>2, <2>3, ZenonT(60)
<1>2. QueueInv'
  BY <1>1, ZenonT(60) DEF QueueInv
<1>3. Commits
  BY ZenonT(60) DEF Commits
<1> QED BY <1>2, <1>3, ZenonT(60)

\* Every step keeps the invariant, and gives up no frame that is not dealt with.
LEMMA StepKeeps == ASSUME QueueInv, [QueueNext]_queueVars PROVE QueueInv' /\ Commits
PROOF
<1>1. Network /\ last_tick \in BOOLEAN
  BY ZenonT(60) DEF QueueInv
<1>2. CASE \E q \in Queue, d \in Peer \cup {Nobody}, size \in Sizes, c \in Copies :
             overlay_payload_enqueue(q, d, size, c)
  BY <1>2, EnqueueStep, ZenonT(60)
<1>3. ASSUME NEW i \in Interface \cup {0} PROVE overlay_init_packet(i) \in Packet /\ NoPacket \in Packet
  BY QueueAssumption DEF overlay_init_packet, NoPacket, Packet
<1>4. CASE overlay_send_packet
  BY <1>1, <1>3, <1>4, FillStep, ZenonT(60) DEF overlay_send_packet
<1>5. CASE \E i \in Interface : overlay_tick_interface(i)
  BY <1>1, <1>3, <1>5, FillStep, ZenonT(60) DEF overlay_tick_interface
<1>6. CASE \E i \in Interface : InterfaceUp(i)
  BY <1>1, <1>6, QuietStep, ZenonT(60) DEF InterfaceUp, Network
<1>7. CASE \E i \in Interface : overlay_interface_close(i)
  BY <1>1, <1>7, QuietStep, ZenonT(60) DEF overlay_interface_close, Network
<1>8. CASE \E p \in Peer, r \in Routes : set_reachable(p, r)
  <2>1. Routes \subseteq Route
    BY QueueAssumption, ZenonT(60)
  <2> QED BY <1>1, <1>8, <2>1, QuietStep, ZenonT(60) DEF set_reachable, Network
<1>9. CASE Ages
  BY <1>9, AgeStep, ZenonT(60) DEF Ages
<1>10. CASE UNCHANGED queueVars
  BY <1>1, <1>10, QuietStep, ZenonT(60) DEF queueVars, Network
<1> QED BY <1>2, <1>4, <1>5, <1>6, <1>7, <1>8, <1>9, <1>10, ZenonT(60) DEF QueueNext

\* The queues are empty to begin with.
LEMMA InitInv == QueueInit => QueueInv
PROOF
<1> SUFFICES ASSUME QueueInit PROVE QueueInv
  BY ZenonT(60)
<1>1. \A q \in Queue : tx[q] = <<>> /\ Len(tx[q]) = 0
  BY ZenonT(60) DEF QueueInit
<1>2. tx \in [Queue -> Seq(Sound)]
  <2>1. <<>> \in Seq(Sound)
    OBVIOUS
  <2> QED BY <2>1, ZenonT(60) DEF QueueInit
<1>3. Unique /\ \A q \in Queue : Ready(q, sent) /\ \A k \in 1..Len(tx[q]) : tx[q][k].id <= frames
  BY <1>1 DEF Unique, Ready
<1>4. Network
  BY ZenonT(60) DEF QueueInit, Network, Route
<1>5. \A q \in Queue : Len(tx[q]) <= MaxLength
  BY <1>1, QueueAssumption
<1>6. sent \in Tally /\ \A n \in Id : n > frames => \A i \in Interface : sent[n][i] = 0
  BY ZenonT(60) DEF QueueInit, Tally
<1>7. frames \in 0..MaxFrames
  BY QueueAssumption DEF QueueInit
<1> QED BY <1>2, <1>3, <1>4, <1>5, <1>6, <1>7, ZenonT(60) DEF QueueInit, QueueInv

-----------------------------------------------------------------------------
(* Theorems                                                                 *)

\* The inductive invariant holds.
THEOREM QueueInvariance == QueueSpec => []QueueInv
BY InitInv, StepKeeps, PTL DEF QueueSpec

\* The queues of overlay_tx hold well-formed frames, and no more than maxLength
\* of them, whatever is queued, sent, rerouted or dropped.
THEOREM QueueTypeCorrect == QueueSpec => []QueueTypeOK
PROOF
<1>1. QueueInv => QueueTypeOK
  <2> SUFFICES ASSUME QueueInv PROVE QueueTypeOK
    BY ZenonT(60)
  <2>1. ASSUME NEW q \in Queue PROVE tx[q] \in Seq(Frame)
    <3>1. tx[q] \in Seq(Sound) /\ Sound \subseteq Frame
      BY ZenonT(60) DEF QueueInv, Sound
    <3> HIDE DEF Sound
    <3> QED BY <3>1
  <2> QED BY <2>1, ZenonT(60) DEF QueueInv, QueueTypeOK, Network, Tally
<1> QED BY <1>1, QueueInvariance, PTL

\* A frame for everybody never leaves twice on the same interface, however
\* ticks, alarms, routes and interfaces interleave: "so that we can ensure that
\* broadcast frames get sent exactly once on each interface" (overlay_packet.h).
THEOREM SentOnce == QueueSpec => []BroadcastOnce
PROOF
<1>1. QueueInv => BroadcastOnce
  <2> SUFFICES ASSUME QueueInv, NEW f \in AllQueued PROVE Once(f, sent)
    BY ZenonT(60) DEF BroadcastOnce, Once
  <2>1. PICK q \in Queue : \E k \in DOMAIN tx[q] : f = tx[q][k]
    BY ZenonT(60) DEF AllQueued
  <2>2. PICK k \in 1..Len(tx[q]) : f = tx[q][k]
    BY <2>1 DEF QueueInv
  <2> QED BY <2>2, ZenonT(60) DEF QueueInv, Ready
<1> QED BY <1>1, QueueInvariance, PTL

\* overlay_stuff_packet() removes a frame for everybody that is not late only
\* when every interface that is up has been dealt with.
THEOREM SentEverywhere == QueueSpec => CommittedToEveryInterface
PROOF
<1> DEFINE A == \A f \in AllQueued :
                  /\ f.destination = Nobody
                  /\ ~ f.late
                  /\ \A g \in AllQueued' : g.id # f.id
                  => \A i \in up : i \in f.sent_via \/ sent'[f.id][i] = 1
<1>1. QueueInv /\ [QueueNext]_queueVars => [A]_queueVars
  <2> SUFFICES ASSUME QueueInv, [QueueNext]_queueVars, NEW f \in AllQueued, f.destination = Nobody, ~f.late,
                      \A g \in AllQueued' : g.id # f.id, NEW i \in up
               PROVE  i \in f.sent_via \/ sent'[f.id][i] = 1
    BY ZenonT(60)
  <2>1. PICK q \in Queue : \E k \in DOMAIN tx[q] : f = tx[q][k]
    BY ZenonT(60) DEF AllQueued
  <2>2. PICK k \in 1..Len(tx[q]) : f = tx[q][k]
    BY <2>1 DEF QueueInv
  <2>3. QueueInv' /\ Commits
    BY StepKeeps, ZenonT(60)
  <2>4. ASSUME NEW p \in Queue, NEW m \in 1..Len(tx'[p]) PROVE tx'[p][m].id # f.id
    <3>1. m \in DOMAIN tx'[p]
      BY <2>3 DEF QueueInv
    <3>2. tx'[p][m] \in AllQueued'
      BY <3>1 DEF AllQueued
    <3> QED BY <3>2, ZenonT(60)
  <2> QED BY <2>2, <2>3, <2>4, ZenonT(60) DEF Commits
<1>2. CommittedToEveryInterface <=> [][A]_queueVars
  BY PTL DEF CommittedToEveryInterface
<1> QED BY <1>1, <1>2, QueueInvariance, PTL DEF QueueSpec
=============================================================================

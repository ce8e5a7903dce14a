---------------------------- MODULE RhizomeFetch ----------------------------
(***************************************************************************)
(* Fetching bundles from other nodes (rhizome_fetch.c): the list of        *)
(* candidates, ordered by size, and the slots of the transfers.  A         *)
(* manifest is allocated from a pool and freed when it is done with;       *)
(* "held" counts, for each, how many are allocated.  The model is of one   *)
(* process: the server, which hears advertisements and starts transfers    *)
(* periodically, or a Rhizome Direct pull, which asks for one manifest     *)
(* after the other by prefix (rhizome_direct_http.c).                      *)
(***************************************************************************)
EXTENDS Integers, FiniteSets, FiniteSetsExt

CONSTANTS
    PeerBundle,        \* bundles, by id
    Version,       \* their versions
    Size,          \* [Bundle -> Nat], the length of the payload
    Payload,       \* [Bundle -> file hashes]
    Direct,        \* whether this is a Rhizome Direct pull, or the server
    Fault,         \* what can go wrong when a transfer is started
    MaxCandidates, \* MAX_CANDIDATES
    MaxQueued,     \* MAX_QUEUED_FILES
    MaxManifests,  \* MAX_RHIZOME_MANIFESTS
    Nothing

Manifest == PeerBundle \X Version

ASSUME FetchAssumption ==
    /\ Version \subseteq Nat \ {0}
    /\ Size \in [PeerBundle -> Nat] /\ DOMAIN Payload = PeerBundle
    /\ Direct \in BOOLEAN
    /\ Fault \subseteq {"connect", "file"}
    /\ MaxCandidates \in Nat \ {0} /\ MaxQueued \in Nat \ {0, 1} /\ MaxManifests \in Nat
    /\ Nothing \notin Manifest

VARIABLES
    f,       \* candidates, fetch slots, and the manifests that are allocated
    db       \* the store: the version of each bundle, and the payloads

fetchVars == <<f, db>>

\* An unused entry.  There is one more than the code's array has, for the entry
\* behind a full list that rhizome_position_candidate() looks at.
NoCandidate == [man |-> Nothing, size |-> 0, priority |-> 0]

\* A slot is open while its alarm is watched; "stray" says that the descriptor
\* which is watched is no longer the one the record holds.
FreeSlot == [man |-> Nothing, file |-> Nothing, open |-> FALSE, stray |-> FALSE, state |-> "CONNECTING"]

FetchInit ==
    /\ f = [cand |-> [k \in 0..MaxCandidates |-> NoCandidate], candidates |-> 0,
            slot |-> [k \in 0..MaxQueued - 1 |-> FreeSlot], queued |-> 0,
            held |-> [m \in Manifest |-> 0]]
    /\ db = [version |-> [b \in PeerBundle |-> 0], files |-> {}]

-----------------------------------------------------------------------------
(* Helpers                                                                  *)

\* rhizome_manifest_free(), which does nothing for NULL
Freed(s, m) == IF m = Nothing THEN s ELSE [s EXCEPT !.held[m] = @ - 1]

Allocated(s) == MapThenSumSet(LAMBDA m : s.held[m], Manifest)

\* rhizome_manifest_version_cache_lookup(): "We already have this version or newer"
HaveVersion(d, m) == d.version[m[1]] >= m[2]

\* rhizome_bundle_import(), of a payload that is there
Imported(d, m) ==
    IF HaveVersion(d, m) THEN d
    ELSE [version |-> [d.version EXCEPT ![m[1]] = m[2]], files |-> d.files \cup {Payload[m[1]]}]

-----------------------------------------------------------------------------
(* The list of candidates                                                   *)

Swapped(s, a, b) == [s EXCEPT !.cand[a] = s.cand[b], !.cand[b] = s.cand[a]]

\* Whether candidate c goes behind candidate e.
Behind(c, e) == c.priority > e.priority \/ (c.priority = e.priority /\ c.size > e.size)

\* rhizome_position_candidate(): down, or up, where it is the next one that is
\* swapped and not the one before.
Positioned(s, start) ==
    LET walk[n \in 0..2 * MaxCandidates] ==
          IF n = 0 THEN [s |-> s, at |-> start]
          ELSE LET x == walk[n - 1]
                   p == x.at
               IN CASE p \notin 0..s.candidates - 1                -> x
                    [] p \in 0..s.candidates - 1 /\ Behind(x.s.cand[p], x.s.cand[p + 1]) ->
                         [s |-> Swapped(x.s, p, p + 1), at |-> p + 1]
                    [] OTHER ->
                         IF p > 0 /\ Behind(x.s.cand[p - 1], x.s.cand[p])
                         THEN [s |-> Swapped(x.s, p, p + 1), at |-> p - 1]
                         ELSE [s |-> x.s, at |-> -1]
    IN walk[2 * MaxCandidates].s

\* Where the loop over the candidates stops for manifest m: at one for the same
\* bundle, or at one that is larger.
Stop(s, m) ==
    LET hit == {k \in 0..s.candidates - 1 :
                  s.cand[k].man # Nothing /\
                  (s.cand[k].man[1] = m[1] \/ Behind(s.cand[k], [priority |-> 100, size |-> Size[m[1]]]))}
    IN IF hit = {} THEN s.candidates ELSE Min(hit)

\* Mutant: what is bumped from a full list is not counted out.
InsertedOverfull(s, i, m) ==
    LET n == s.candidates + 1
    IN [s EXCEPT !.candidates = n,
          !.cand = [k \in DOMAIN @ |->
              IF k = i THEN [man |-> m, size |-> Size[m[1]], priority |-> 100]
              ELSE IF k \in i + 1..n - 1 THEN @[k - 1] ELSE @[k]]]

\* The last of a full list is bumped, the others are shuffled down, and the new
\* candidate is put in.
Inserted(s, i, m) ==
    LET full == s.candidates = MaxCandidates
        n    == IF full THEN s.candidates ELSE s.candidates + 1
        t    == IF full THEN Freed(s, s.cand[MaxCandidates - 1].man) ELSE s
    IN [t EXCEPT !.candidates = n,
          !.cand = [k \in DOMAIN @ |->
              IF k = i THEN [man |-> m, size |-> Size[m[1]], priority |-> 100]
              ELSE IF k \in i + 1..n - 1 THEN @[k - 1] ELSE @[k]]]

\* rhizome_suggest_queue_manifest_import(), for a manifest m that has been
\* allocated and whose signature is good or not.
Suggested(s, m, good) ==
    LET i == Stop(s, m)
    IN CASE HaveVersion(db, m)                                    -> Freed(s, m)
         [] ~HaveVersion(db, m) /\ Size[m[1]] = 0                 -> IF good THEN s ELSE Freed(s, m)
         [] ~HaveVersion(db, m) /\ Size[m[1]] > 0 ->
              IF i < s.candidates /\ s.cand[i].man # Nothing /\ s.cand[i].man[1] = m[1]
              THEN IF s.cand[i].man[2] >= m[2] \/ ~good THEN Freed(s, m)
                   ELSE Positioned([Freed(s, s.cand[i].man) EXCEPT !.cand[i].man = m], i)
              ELSE IF i >= MaxCandidates \/ ~good THEN Freed(s, m)
              ELSE Inserted(s, i, m)

\* A bundle without a payload is imported at once.
Emptied(m, good) == IF good /\ Size[m[1]] = 0 THEN Imported(db, m) ELSE db

-----------------------------------------------------------------------------
(* Starting transfers                                                       *)

\* rhizome_queue_manifest_import(): the new state, and whether the manifest is
\* kept.  It can fail before the slot is filled ("connect"), or after, when the
\* file cannot be opened and the new socket is closed ("file").  When the payload
\* is stored already, rhizome_bundle_import() is called, and refuses a manifest
\* whose dataFileName is not set, which only line 686 does.
Queued(s, d, m, fault) ==
    LET taken  == \E k \in 0..s.queued - 1 : s.slot[k].man # Nothing /\ s.slot[k].man[1] = m[1]
        coming == \E k \in 0..s.queued - 1 : s.slot[k].file = Payload[m[1]]
        q == [s.slot[s.queued] EXCEPT !.man = m, !.file = Payload[m[1]], !.state = "CONNECTING"]
    IN IF \/ HaveVersion(d, m) \/ s.queued >= MaxQueued \/ taken
          \/ Payload[m[1]] \in d.files
          \/ coming \/ fault = "connect"
       THEN [s |-> s, kept |-> FALSE]
       ELSE [s |-> IF fault = "file"
                   THEN [s EXCEPT !.slot[s.queued] = [q EXCEPT !.stray = q.open]]
                   ELSE [s EXCEPT !.slot[s.queued] = [q EXCEPT !.open = TRUE, !.stray = FALSE],
                                  !.queued = s.queued + 1],
             kept |-> TRUE]

\* Mutant: the manifest is freed although the transfer has kept it.
ConsideredFreesKept(s, d, k, fault) ==
    [Freed(Queued(s, d, s.cand[k].man, fault).s, s.cand[k].man) EXCEPT !.cand[k].man = Nothing]

\* One round of the loop of rhizome_enqueue_suggestions()
Considered(s, d, k, fault) ==
    LET r == Queued(s, d, s.cand[k].man, fault)
    IN IF r.kept THEN r.s ELSE [Freed(r.s, s.cand[k].man) EXCEPT !.cand[k].man = Nothing]

\* rhizome_enqueue_suggestions(): until the slots are used, and the rest of the
\* list is shuffled up.
Enqueued(s, d, fault) ==
    LET loop[i \in 0..s.candidates] ==
          IF i = 0 THEN [s |-> s, n |-> 0]
          ELSE LET x == loop[i - 1] IN
               IF x.n < i - 1 \/ x.s.queued >= MaxQueued THEN x
               ELSE [s |-> Considered(x.s, d, i - 1, fault), n |-> i]
        end  == loop[s.candidates]
        left == s.candidates - end.n
    IN [end.s EXCEPT !.candidates = left,
          !.cand = [k \in DOMAIN @ |-> IF k < left THEN @[k + end.n] ELSE @[k]]]

-----------------------------------------------------------------------------
(* Transfers                                                                *)

\* Mutant: the count of open connections is left as it is.
FetchClosedUncounted(s, k) ==
    [Freed(s, s.slot[k].man) EXCEPT !.slot[k].man = Nothing, !.slot[k].open = s.slot[k].stray]

\* rhizome_fetch_close(): unwatch() refuses a descriptor that is not watched.
FetchClosed(s, k) ==
    [Freed(s, s.slot[k].man) EXCEPT
        !.slot[k].man = Nothing, !.slot[k].open = s.slot[k].stray,
        !.queued = IF s.queued > 0 THEN s.queued - 1 ELSE 0]

\* The end of rhizome_write_content(): all of the file is there, and it is
\* imported, or is a manifest that is suggested and whose file is then fetched.
\* A manifest that cannot be read is freed at once, which is Abandon.
Imports(k, good) ==
    /\ f.slot[k].man # Nothing
    /\ db' = IF good THEN Imported(db, f.slot[k].man) ELSE db
    /\ f' = FetchClosed([Freed(f, f.slot[k].man) EXCEPT !.slot[k].man = Nothing], k)

Follows(k, m, good, fault) ==
    /\ f.slot[k].man = Nothing
    /\ IF Allocated(f) >= MaxManifests
       THEN f' = FetchClosed(f, k) /\ UNCHANGED db
       ELSE /\ db' = Emptied(m, good)
            /\ f' = FetchClosed(Enqueued(Suggested([f EXCEPT !.held[m] = @ + 1], m, good), db', fault), k)

\* rhizome_fetch_poll() is called for what is watched and scheduled.
Polled(k) == f.slot[k].open

\* The request is sent, and then the headers come.  The descriptor in the record
\* of a stray slot is closed, and reading or writing it fails.
Advance(k) ==
    /\ Polled(k) /\ ~f.slot[k].stray
    /\ \/ f.slot[k].state = "CONNECTING" /\ f' = [f EXCEPT !.slot[k].state = "RXHTTPHEADERS"]
       \/ f.slot[k].state = "RXHTTPHEADERS" /\ f' = [f EXCEPT !.slot[k].state = "RXFILE"]
    /\ UNCHANGED db

\* An error, a reply other than 200, an empty read, or the time is up.
Abandon(k) ==
    /\ Polled(k)
    /\ f' = FetchClosed(f, k)
    /\ UNCHANGED db

Complete(k) ==
    /\ Polled(k) /\ ~f.slot[k].stray /\ f.slot[k].state = "RXFILE"
    /\ \E good \in BOOLEAN :
         \/ Imports(k, good)
         \/ \E m \in Manifest, fault \in Fault \cup {Nothing} : Follows(k, m, good, fault)

-----------------------------------------------------------------------------
(* The server and the pull                                                  *)

\* A manifest is advertised (rhizome_packetformats.c).
Advertised(m, good) ==
    /\ ~Direct
    /\ Allocated(f) < MaxManifests
    /\ f' = Suggested([f EXCEPT !.held[m] = @ + 1], m, good)
    /\ db' = Emptied(m, good)

EnqueueSuggestions(fault) ==
    /\ ~Direct
    /\ f' = Enqueued(f, db, fault)
    /\ UNCHANGED db

\* rhizome_fetch_request_manifest_by_prefix(), which the pull calls when no
\* transfer is left ("while(rhizome_file_fetch_queue_count) fd_poll()")
RequestByPrefix ==
    /\ Direct /\ f.queued = 0
    /\ f' = [f EXCEPT !.slot[0] = [FreeSlot EXCEPT !.open = TRUE],
                      !.queued = 1]
    /\ UNCHANGED db

FetchNext ==
    \/ \E m \in Manifest, good \in BOOLEAN : Advertised(m, good)
    \/ \E fault \in Fault \cup {Nothing} : EnqueueSuggestions(fault)
    \/ RequestByPrefix
    \/ \E k \in 0..MaxQueued - 1 : Advance(k) \/ Abandon(k) \/ Complete(k)

FetchSpec == FetchInit /\ [][FetchNext]_fetchVars

-----------------------------------------------------------------------------
(* Properties                                                               *)

FetchTypeOK ==
    /\ \A k \in 0..MaxCandidates : f.cand[k].man \in Manifest \cup {Nothing}
    /\ f.candidates \in 0..MaxCandidates
    /\ \A k \in 0..MaxQueued - 1 : f.slot[k].man \in Manifest \cup {Nothing}
    /\ f.queued \in 0..MaxQueued
    /\ f.held \in [Manifest -> 0..MaxManifests]

\* How often a manifest is referred to.
References(m) ==
    Cardinality({k \in 0..f.candidates - 1 : f.cand[k].man = m}) +
    Cardinality({k \in 0..MaxQueued - 1 : f.slot[k].man = m})

\* No candidate and no transfer refers to a manifest that has been freed.
NoDanglingManifest == \A m \in Manifest : f.held[m] >= References(m)

\* The count of transfers is the number of open connections
\* (rhizome_fetch_close(): "Reduce count of open connections").
CountsOpenConnections == f.queued = Cardinality({k \in 0..MaxQueued - 1 : f.slot[k].open})
=============================================================================

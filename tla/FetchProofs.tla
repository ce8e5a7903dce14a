---------------------------- MODULE FetchProofs -----------------------------
(***************************************************************************)
(* Proofs about fetching, for any bundles, versions, candidates and        *)
(* transfers: which manifests are held, and how many transfers a pull      *)
(* waits for.                                                              *)
(***************************************************************************)
EXTENDS RhizomeFetch, FiniteSetTheorems, LoopTheorems

\* What a leaf that names no prover tries, one after the other.
USE SMTT(60), Z3T(60), ZenonT(20), SMTT(90), Z3T(90)

-----------------------------------------------------------------------------
(* The manifests that are held                                              *)

\* What a candidate list, the transfers and the pool can be.
Reference == Manifest \cup {Nothing}
Candidates == [0..MaxCandidates -> [man : Reference, size : Nat, priority : Nat]]
Slot == [man : Reference, file : {Payload[b] : b \in PeerBundle} \cup {Nothing},
         open : BOOLEAN, stray : BOOLEAN, state : {"CONNECTING", "RXHTTPHEADERS", "RXFILE"}]
Transfers == [0..MaxQueued - 1 -> Slot]
FetchState == [cand : Candidates, candidates : 0..MaxCandidates, slot : Transfers,
               queued : 0..MaxQueued, held : [Manifest -> Nat]]

\* The candidates from n on, and the transfers, of manifest m.
Listed(s, n, m) == {k \in n..s.candidates - 1 : s.cand[k].man = m}
Fetched(s, m) == {k \in 0..MaxQueued - 1 : s.slot[k].man = m}

One(m, x) == IF m = x THEN 1 ELSE 0

\* Every reference to a manifest is counted, and one more to x, which is being
\* handed on.  The candidates before n have been dealt with.
Accounted(s, n, x) ==
    /\ s \in FetchState
    /\ \A k \in n..s.candidates - 1 : s.cand[k].man \in Manifest
    /\ \A m \in Manifest :
         s.held[m] >= Cardinality(Listed(s, n, m)) + Cardinality(Fetched(s, m)) + One(m, x)

\* The assumptions on the constants, one by one.
LEMMA FetchConstants ==
    /\ MaxCandidates \in Nat /\ MaxCandidates > 0
    /\ MaxQueued \in Nat /\ MaxQueued > 1
    /\ Size \in [PeerBundle -> Nat] /\ Nothing \notin Manifest
    /\ \A m \in Manifest : m[1] \in PeerBundle /\ m[2] \in Version /\ m = <<m[1], m[2]>>
PROOF
<1>1. \A m \in Manifest : m[1] \in PeerBundle /\ m[2] \in Version /\ m = <<m[1], m[2]>>
  BY DEF Manifest
<1> QED BY <1>1, FetchAssumption

\* The places of a manifest are finite sets of numbers.
LEMMA PlacesAreFinite ==
    ASSUME NEW s, s \in FetchState, NEW n \in Nat, NEW m
    PROVE  /\ IsFiniteSet(Listed(s, n, m)) /\ Cardinality(Listed(s, n, m)) \in Nat
           /\ IsFiniteSet(Fetched(s, m)) /\ Cardinality(Fetched(s, m)) \in Nat
PROOF
<1>1. s.candidates - 1 \in Int /\ MaxQueued - 1 \in Int
  BY FetchConstants DEF FetchState
<1>2. IsFiniteSet(n..s.candidates - 1) /\ IsFiniteSet(0..MaxQueued - 1)
  BY <1>1, FS_Interval
<1>3. IsFiniteSet(Listed(s, n, m)) /\ IsFiniteSet(Fetched(s, m))
  <2>1. Listed(s, n, m) \subseteq n..s.candidates - 1 /\ Fetched(s, m) \subseteq 0..MaxQueued - 1
    BY ZenonT(60) DEF Listed, Fetched
  <2> QED BY <1>2, <2>1, FS_Subset, ZenonT(60)
<1> QED BY <1>3, FS_CardinalityType, ZenonT(60)

\* Freeing a manifest changes its count alone.
LEMMA FreedIs ==
    ASSUME NEW s, NEW n \in Nat, NEW x \in Reference, Accounted(s, n, x)
    PROVE  /\ Accounted(Freed(s, x), n, Nothing)
           /\ Freed(s, x).cand = s.cand /\ Freed(s, x).candidates = s.candidates
           /\ Freed(s, x).slot = s.slot /\ Freed(s, x).queued = s.queued
PROOF
<1>1. s \in FetchState
  BY ZenonT(60) DEF Accounted
<1>2. CASE x = Nothing
  BY <1>2, ZenonT(60) DEF Freed
<1>3. CASE x # Nothing
  <2> DEFINE t == Freed(s, x)
  <2>1. x \in Manifest
    BY <1>3, ZenonT(60) DEF Reference
  <2>2. t = [s EXCEPT !.held = [s.held EXCEPT ![x] = @ - 1]]
    BY <1>1, <1>3, ZenonT(60) DEF Freed, FetchState
  <2>3. s.held[x] >= 1 /\ s.held[x] \in Nat
    <3>1. One(x, x) = 1
      BY ZenonT(60) DEF One
    <3> QED BY <1>1, <2>1, <3>1, PlacesAreFinite DEF Accounted, FetchState
  <2>4. [s.held EXCEPT ![x] = @ - 1] \in [Manifest -> Nat]
    <3>1. s.held \in [Manifest -> Nat] /\ s.held[x] - 1 \in Nat
      BY <1>1, <2>3 DEF FetchState
    <3> QED BY <3>1, ZenonT(60)
  <2>5. t \in FetchState /\ t.cand = s.cand /\ t.candidates = s.candidates /\ t.slot = s.slot
        /\ t.queued = s.queued /\ t.held = [s.held EXCEPT ![x] = @ - 1]
    BY <1>1, <2>2, <2>4, ZenonT(60) DEF FetchState
  <2> HIDE DEF t
  <2>6. ASSUME NEW m \in Manifest
        PROVE  t.held[m] >= Cardinality(Listed(t, n, m)) + Cardinality(Fetched(t, m)) + One(m, Nothing)
    <3>1. Listed(t, n, m) = Listed(s, n, m) /\ Fetched(t, m) = Fetched(s, m)
      BY <2>5, ZenonT(60) DEF Listed, Fetched
    <3>2. t.held[m] = s.held[m] - One(m, x)
      BY <1>1, <2>1, <2>5 DEF One, FetchState
    <3>3. One(m, Nothing) = 0 /\ One(m, x) \in Nat
      BY FetchConstants, ZenonT(60) DEF One
    <3>4. s.held[m] >= Cardinality(Listed(s, n, m)) + Cardinality(Fetched(s, m)) + One(m, x)
      BY ZenonT(60) DEF Accounted
    <3> QED BY <1>1, <3>1, <3>2, <3>3, <3>4, PlacesAreFinite DEF FetchState
  <2>7. \A k \in n..t.candidates - 1 : t.cand[k].man \in Manifest
    BY <2>5, ZenonT(60) DEF Accounted
  <2>8. Accounted(t, n, Nothing)
    BY <2>5, <2>6, <2>7, ZenonT(60) DEF Accounted
  <2> QED BY <2>5, <2>8, ZenonT(60) DEF t
<1> QED BY <1>2, <1>3, ZenonT(60)

\* What is counted is what is referred to, whatever else changes.
LEMMA SameReferences ==
    ASSUME NEW s, NEW t, NEW n \in Nat, NEW x, Accounted(s, n, x), t \in FetchState,
           t.cand = s.cand, t.candidates = s.candidates, t.held = s.held,
           \A k \in 0..MaxQueued - 1 : t.slot[k].man = s.slot[k].man
    PROVE  Accounted(t, n, x)
PROOF
<1>1. ASSUME NEW m \in Manifest
      PROVE  Listed(t, n, m) = Listed(s, n, m) /\ Fetched(t, m) = Fetched(s, m)
  BY ZenonT(60) DEF Listed, Fetched
<1> QED BY <1>1, ZenonT(60) DEF Accounted

\* One manifest more is allocated, to be handed on.
LEMMA AllocatedIs ==
    ASSUME NEW s, NEW n \in Nat, NEW x \in Manifest, Accounted(s, n, Nothing)
    PROVE  \E t \in {[s EXCEPT !.held[x] = @ + 1]} :
              /\ Accounted(t, n, x) /\ t.cand = s.cand /\ t.candidates = s.candidates
              /\ t.slot = s.slot /\ t.queued = s.queued
PROOF
<1> DEFINE t == [s EXCEPT !.held[x] = @ + 1]
<1>1. s \in FetchState /\ s.held \in [Manifest -> Nat] /\ s.held[x] + 1 \in Nat
  BY DEF Accounted, FetchState
<1>2. [s.held EXCEPT ![x] = @ + 1] \in [Manifest -> Nat]
  BY <1>1, ZenonT(60)
<1>3. t = [s EXCEPT !.held = [s.held EXCEPT ![x] = @ + 1]]
  BY <1>1, ZenonT(60) DEF FetchState
<1>4. t \in FetchState /\ t.cand = s.cand /\ t.candidates = s.candidates /\ t.slot = s.slot
      /\ t.queued = s.queued /\ t.held = [s.held EXCEPT ![x] = @ + 1]
  BY <1>1, <1>2, <1>3, ZenonT(60) DEF FetchState
<1> HIDE DEF t
<1>5. ASSUME NEW m \in Manifest
      PROVE  t.held[m] >= Cardinality(Listed(t, n, m)) + Cardinality(Fetched(t, m)) + One(m, x)
  <2>1. Listed(t, n, m) = Listed(s, n, m) /\ Fetched(t, m) = Fetched(s, m)
    BY <1>4, ZenonT(60) DEF Listed, Fetched
  <2>2. t.held[m] = s.held[m] + One(m, x) /\ One(m, x) \in Nat /\ s.held[m] \in Nat
    BY <1>1, <1>4 DEF One
  <2>3. One(m, Nothing) = 0
    BY FetchConstants, ZenonT(60) DEF One
  <2>4. s.held[m] >= Cardinality(Listed(s, n, m)) + Cardinality(Fetched(s, m)) + One(m, Nothing)
    BY ZenonT(60) DEF Accounted
  <2> QED BY <1>1, <2>1, <2>2, <2>3, <2>4, PlacesAreFinite
<1>6. \A k \in n..t.candidates - 1 : t.cand[k].man \in Manifest
  BY <1>4, ZenonT(60) DEF Accounted
<1>7. Accounted(t, n, x)
  BY <1>4, <1>5, <1>6, ZenonT(60) DEF Accounted
<1> QED BY <1>4, <1>7, ZenonT(60) DEF t

\* A manifest that is kept for nobody is still counted.
LEMMA AccountedAnyway ==
    ASSUME NEW s, NEW n \in Nat, NEW x, Accounted(s, n, x)
    PROVE  Accounted(s, n, Nothing)
PROOF
<1>1. ASSUME NEW m \in Manifest
      PROVE  s.held[m] >= Cardinality(Listed(s, n, m)) + Cardinality(Fetched(s, m)) + One(m, Nothing)
  <2>1. One(m, Nothing) = 0 /\ One(m, x) \in {0, 1}
    BY FetchConstants, ZenonT(60) DEF One
  <2>2. s.held[m] >= Cardinality(Listed(s, n, m)) + Cardinality(Fetched(s, m)) + One(m, x)
    BY ZenonT(60) DEF Accounted
  <2>3. s \in FetchState /\ s.held[m] \in Nat
    BY ZenonT(60) DEF Accounted, FetchState
  <2> QED BY <2>1, <2>2, <2>3, PlacesAreFinite
<1> QED BY <1>1, ZenonT(60) DEF Accounted

\* The manifest of a transfer is freed, and the transfer forgets it.
Forgotten(s, k) == [Freed(s, s.slot[k].man) EXCEPT !.slot[k].man = Nothing]

LEMMA ForgottenIs ==
    ASSUME NEW s, NEW n \in Nat, NEW k \in 0..MaxQueued - 1, Accounted(s, n, Nothing)
    PROVE  \E t \in {Forgotten(s, k)} :
              /\ Accounted(t, n, Nothing) /\ t.cand = s.cand /\ t.candidates = s.candidates
              /\ t.slot = [s.slot EXCEPT ![k] = [@ EXCEPT !.man = Nothing]]
              /\ t.queued = s.queued /\ t.held = Freed(s, s.slot[k].man).held
PROOF
<1> DEFINE x == s.slot[k].man
           u == [s EXCEPT !.slot[k].man = Nothing]
           t == [Freed(s, x) EXCEPT !.slot[k].man = Nothing]
<1>1. s \in FetchState /\ s.slot \in Transfers /\ s.slot[k] \in Slot /\ x \in Reference
      /\ s.held \in [Manifest -> Nat]
  BY ZenonT(60) DEF Accounted, FetchState, Transfers, Slot
<1>2. [s.slot[k] EXCEPT !.man = Nothing] \in Slot /\ [s.slot[k] EXCEPT !.man = Nothing].man = Nothing
  BY <1>1, ZenonT(60) DEF Slot, Reference
<1>3. u = [s EXCEPT !.slot = [s.slot EXCEPT ![k] = [@ EXCEPT !.man = Nothing]]]
  BY <1>1, ZenonT(60) DEF FetchState, Transfers, Slot
<1>4. [s.slot EXCEPT ![k] = [@ EXCEPT !.man = Nothing]] \in Transfers
  BY <1>1, <1>2, ZenonT(60) DEF Transfers
<1>5. u \in FetchState /\ u.cand = s.cand /\ u.candidates = s.candidates
      /\ u.slot = [s.slot EXCEPT ![k] = [@ EXCEPT !.man = Nothing]]
      /\ u.queued = s.queued /\ u.held = s.held
  BY <1>1, <1>3, <1>4, ZenonT(60) DEF FetchState
<1>6. \A j \in 0..MaxQueued - 1 : u.slot[j].man = IF j = k THEN Nothing ELSE s.slot[j].man
  <2>1. DOMAIN s.slot = 0..MaxQueued - 1
    BY <1>1, ZenonT(60) DEF Transfers
  <2>2. u.slot[k] = [s.slot[k] EXCEPT !.man = Nothing]
        /\ \A j \in 0..MaxQueued - 1 : j # k => u.slot[j] = s.slot[j]
    BY <1>5, <2>1, ZenonT(60)
  <2>3. ASSUME NEW j \in 0..MaxQueued - 1 PROVE u.slot[j].man = IF j = k THEN Nothing ELSE s.slot[j].man
    <3>1. CASE j = k
      BY <1>2, <2>2, <3>1, ZenonT(60)
    <3>2. CASE j # k
      BY <2>2, <3>2
    <3> QED BY <3>1, <3>2, ZenonT(60)
  <2> QED BY <2>3, ZenonT(60)
<1>7. t = Freed(u, x)
  <2>1. CASE x = Nothing
    BY <2>1, ZenonT(60) DEF Freed
  <2>2. CASE x # Nothing
    BY <1>1, <1>3, <2>2, ZenonT(60) DEF Freed, FetchState
  <2> QED BY <2>1, <2>2, ZenonT(60)
<1> HIDE DEF u, t
<1>8. ASSUME NEW m \in Manifest
      PROVE  u.held[m] >= Cardinality(Listed(u, n, m)) + Cardinality(Fetched(u, m)) + One(m, x)
  <2>1. Listed(u, n, m) = Listed(s, n, m)
    BY <1>5, ZenonT(60) DEF Listed
  <2>2. m # Nothing /\ One(m, Nothing) = 0
    BY FetchConstants, ZenonT(60) DEF One
  <2>3. Cardinality(Fetched(u, m)) = Cardinality(Fetched(s, m)) - One(m, x)
    <3>1. CASE m # x
      <4>1. Fetched(u, m) = Fetched(s, m)
        BY <1>6, <2>2, <3>1, ZenonT(60) DEF Fetched
      <4> QED BY <1>1, <3>1, <4>1, PlacesAreFinite DEF One
    <3>2. CASE m = x
      <4>1. Fetched(u, m) = Fetched(s, m) \ {k} /\ k \in Fetched(s, m)
        BY <1>6, <2>2, <3>2, ZenonT(60) DEF Fetched
      <4>2. IsFiniteSet(Fetched(s, m))
        BY <1>1, PlacesAreFinite, ZenonT(60)
      <4> QED BY <3>2, <4>1, <4>2, FS_RemoveElement, ZenonT(60) DEF One
    <3> QED BY <3>1, <3>2, ZenonT(60)
  <2>4. s.held[m] >= Cardinality(Listed(s, n, m)) + Cardinality(Fetched(s, m)) + One(m, Nothing)
    BY ZenonT(60) DEF Accounted
  <2>5. s.held[m] \in Nat /\ One(m, x) \in Nat
    BY <1>1, ZenonT(60) DEF One
  <2> QED BY <1>1, <1>5, <2>1, <2>2, <2>3, <2>4, <2>5, PlacesAreFinite
<1>9. Accounted(u, n, x)
  <2>1. \A j \in n..u.candidates - 1 : u.cand[j].man \in Manifest
    BY <1>5, ZenonT(60) DEF Accounted
  <2> QED BY <1>5, <1>8, <2>1, ZenonT(60) DEF Accounted
<1>10. /\ Accounted(t, n, Nothing) /\ t.cand = s.cand /\ t.candidates = s.candidates
       /\ t.slot = [s.slot EXCEPT ![k] = [@ EXCEPT !.man = Nothing]] /\ t.queued = s.queued
  BY <1>1, <1>5, <1>7, <1>9, FreedIs
<1>11. t.held = Freed(s, x).held
  <2>1. CASE x = Nothing
    BY <1>5, <1>7, <2>1, ZenonT(60) DEF Freed
  <2>2. CASE x # Nothing
    BY <1>1, <1>5, <1>7, <2>2, ZenonT(60) DEF Freed, FetchState
  <2> QED BY <2>1, <2>2, ZenonT(60)
<1> QED BY <1>10, <1>11, ZenonT(60) DEF t, Forgotten

\* rhizome_fetch_close()
Closing(s, k, t) ==
    /\ Accounted(t, 0, Nothing) /\ t.candidates = s.candidates
    /\ t.slot = [s.slot EXCEPT ![k] = [@ EXCEPT !.man = Nothing, !.open = s.slot[k].stray]]
    /\ t.queued = IF s.queued > 0 THEN s.queued - 1 ELSE 0

LEMMA ClosedIs ==
    ASSUME NEW s, NEW k \in 0..MaxQueued - 1, Accounted(s, 0, Nothing)
    PROVE  Closing(s, k, FetchClosed(s, k))
PROOF
<1> DEFINE r == Freed(s, s.slot[k].man)
           t == FetchClosed(s, k)
           q == [s.slot[k] EXCEPT !.man = Nothing, !.open = s.slot[k].stray]
           c == IF s.queued > 0 THEN s.queued - 1 ELSE 0
<1>1. s \in FetchState /\ s.slot \in Transfers /\ s.slot[k] \in Slot /\ s.slot[k].man \in Reference
  BY ZenonT(60) DEF Accounted, FetchState, Transfers, Slot
<1>2. PICK u \in {Forgotten(s, k)} :
        /\ Accounted(u, 0, Nothing) /\ u.cand = s.cand /\ u.candidates = s.candidates
        /\ u.slot = [s.slot EXCEPT ![k] = [@ EXCEPT !.man = Nothing]]
        /\ u.queued = s.queued /\ u.held = r.held
  BY ForgottenIs
<1>3. r.slot = s.slot /\ r.cand = s.cand /\ r.candidates = s.candidates /\ r.queued = s.queued
      /\ r = [cand |-> r.cand, candidates |-> r.candidates, slot |-> r.slot, queued |-> r.queued, held |-> r.held]
  <2>1. CASE s.slot[k].man = Nothing
    BY <1>1, <2>1, ZenonT(60) DEF Freed, FetchState
  <2>2. CASE s.slot[k].man # Nothing
    BY <1>1, <2>2, ZenonT(60) DEF Freed, FetchState
  <2> QED BY <2>1, <2>2, ZenonT(60)
<1>4. q \in Slot /\ q.man = Nothing /\ c \in 0..MaxQueued
  <2>1. Nothing \in Reference
    BY ZenonT(60) DEF Reference
  <2>2. q \in Slot /\ q.man = Nothing
    BY <1>1, <2>1, ZenonT(60) DEF Slot
  <2>3. c \in 0..MaxQueued
    BY <1>1, FetchConstants DEF FetchState
  <2> QED BY <2>2, <2>3, ZenonT(60)
<1>5. t = [cand |-> s.cand, candidates |-> s.candidates, slot |-> [s.slot EXCEPT ![k] = q],
           queued |-> c, held |-> r.held]
  <2> HIDE DEF r
  <2>1. t = [r EXCEPT !.slot[k].man = Nothing, !.slot[k].open = s.slot[k].stray, !.queued = c]
    BY ZenonT(60) DEF FetchClosed, r
  <2> HIDE DEF t, c
  <2> QED BY <1>1, <1>3, <2>1, ZenonT(60) DEF Transfers, Slot
<1> HIDE DEF q, c, r, t
<1>6. t.cand = s.cand /\ t.candidates = s.candidates /\ t.slot = [s.slot EXCEPT ![k] = q]
      /\ t.queued = c /\ t.held = r.held
  BY <1>5, ZenonT(60)
<1>7. t \in FetchState
  <2>1. [s.slot EXCEPT ![k] = q] \in Transfers
    BY <1>1, <1>4, ZenonT(60) DEF Transfers
  <2>2. u.held \in [Manifest -> Nat]
    BY <1>2, ZenonT(60) DEF Accounted, FetchState
  <2> QED BY <1>1, <1>2, <1>4, <1>5, <2>1, <2>2, ZenonT(60) DEF FetchState
<1>8. ASSUME NEW j \in 0..MaxQueued - 1 PROVE t.slot[j].man = u.slot[j].man
  <2>1. DOMAIN s.slot = 0..MaxQueued - 1
    BY <1>1, ZenonT(60) DEF Transfers
  <2>2. u.slot[k] = [s.slot[k] EXCEPT !.man = Nothing] /\ t.slot[k] = q
        /\ (j # k => u.slot[j] = s.slot[j] /\ t.slot[j] = s.slot[j])
    BY <1>2, <1>6, <2>1, ZenonT(60)
  <2>3. [s.slot[k] EXCEPT !.man = Nothing].man = Nothing
    BY <1>1, ZenonT(60) DEF Slot
  <2> QED BY <1>4, <2>2, <2>3, ZenonT(60)
<1>9. Accounted(t, 0, Nothing)
  BY <1>2, <1>6, <1>7, <1>8, SameReferences, ZenonT(60)
<1> QED BY <1>6, <1>9, ZenonT(60) DEF t, q, c, Closing

-----------------------------------------------------------------------------
(* Starting transfers                                                       *)

\* What becomes of candidate n when a transfer may be started: it takes the free
\* slot, and holds the manifest on, or the manifest is freed.
Started(s, n, t) ==
    /\ Accounted(t, n + 1, Nothing) /\ t.candidates = s.candidates
    /\ \A k \in 0..MaxQueued - 1 : k # s.queued => t.slot[k] = s.slot[k]
    /\ \/ t.queued = s.queued /\ t.slot[s.queued].open = s.slot[s.queued].open
          /\ (t.slot[s.queued].stray = TRUE => s.slot[s.queued].open \/ s.slot[s.queued].stray)
       \/ t.queued = s.queued + 1 /\ t.slot[s.queued].open /\ ~t.slot[s.queued].stray
          /\ t.slot[s.queued].man # Nothing

LEMMA ConsideredIs ==
    ASSUME NEW s, NEW n \in Nat, Accounted(s, n, Nothing), n < s.candidates, s.queued < MaxQueued,
           NEW d, NEW fault
    PROVE  Started(s, n, Considered(s, d, n, fault))
PROOF
<1> DEFINE m == s.cand[n].man
           r == Queued(s, d, m, fault)
           t == Considered(s, d, n, fault)
           j == s.queued
           C == Listed(s, n, m)
<1>1. s \in FetchState /\ s.cand \in Candidates /\ s.candidates \in 0..MaxCandidates /\ s.slot \in Transfers
      /\ j \in 0..MaxQueued - 1 /\ s.slot[j] \in Slot /\ s.held \in [Manifest -> Nat] /\ n \in 0..MaxCandidates
  BY FetchConstants DEF Accounted, FetchState, Transfers
<1>2. m \in Manifest /\ m[1] \in PeerBundle /\ m # Nothing
  BY <1>1, FetchConstants DEF Accounted
<1>3. ASSUME NEW x \in Manifest
      PROVE  /\ Listed(s, n + 1, x) = Listed(s, n, x) \ {n}
             /\ Cardinality(Listed(s, n + 1, x)) = Cardinality(Listed(s, n, x)) - One(x, m)
  <2>1. Listed(s, n + 1, x) = Listed(s, n, x) \ {n}
    BY <1>1 DEF Listed
  <2>2. n \in Listed(s, n, x) <=> x = m
    BY <1>1 DEF Listed
  <2>3. IsFiniteSet(Listed(s, n, x)) /\ Cardinality(Listed(s, n, x)) \in Nat
    BY <1>1, PlacesAreFinite, ZenonT(60)
  <2>4. CASE x = m
    BY <2>1, <2>2, <2>3, <2>4, FS_RemoveElement, ZenonT(60) DEF One
  <2>5. CASE x # m
    <3>1. Listed(s, n + 1, x) = Listed(s, n, x)
      BY <2>1, <2>2, <2>5, ZenonT(60)
    <3>2. One(x, m) = 0
      BY <2>5, ZenonT(60) DEF One
    <3> HIDE DEF m
    <3> QED BY <2>1, <2>3, <3>1, <3>2
  <2> QED BY <2>1, <2>4, <2>5, ZenonT(60)
<1>4. ASSUME NEW x \in Manifest
      PROVE  /\ s.held[x] >= Cardinality(Listed(s, n, x)) + Cardinality(Fetched(s, x))
             /\ s.held[x] \in Nat /\ Cardinality(Listed(s, n, x)) \in Nat
             /\ Cardinality(Fetched(s, x)) \in Nat /\ One(x, m) \in {0, 1} /\ One(x, Nothing) = 0
  <2>1. One(x, Nothing) = 0 /\ One(x, m) \in {0, 1}
    BY FetchConstants, ZenonT(60) DEF One
  <2>2. s.held[x] >= Cardinality(Listed(s, n, x)) + Cardinality(Fetched(s, x)) + One(x, Nothing)
    BY ZenonT(60) DEF Accounted
  <2>3. s.held[x] \in Nat /\ Cardinality(Listed(s, n, x)) \in Nat /\ Cardinality(Fetched(s, x)) \in Nat
    BY <1>1, PlacesAreFinite, ZenonT(60)
  <2> QED BY <2>1, <2>2, <2>3
<1>5. \A k \in n + 1..s.candidates - 1 : s.cand[k].man \in Manifest
  BY <1>1 DEF Accounted
<1> DEFINE q == [s.slot[j] EXCEPT !.man = m, !.file = Payload[m[1]], !.state = "CONNECTING"]
           stray == [s EXCEPT !.slot[j] = [q EXCEPT !.stray = q.open]]
           begun == [s EXCEPT !.slot[j] = [q EXCEPT !.open = TRUE, !.stray = FALSE], !.queued = j + 1]
<1>6. \/ r = [s |-> s, kept |-> FALSE]
      \/ r = [s |-> stray, kept |-> TRUE]
      \/ r = [s |-> begun, kept |-> TRUE]
  <2> DEFINE gone == \/ HaveVersion(d, m) \/ s.queued >= MaxQueued
                     \/ \E k \in 0..s.queued - 1 : s.slot[k].man # Nothing /\ s.slot[k].man[1] = m[1]
                     \/ Payload[m[1]] \in d.files
                     \/ \E k \in 0..s.queued - 1 : s.slot[k].file = Payload[m[1]]
                     \/ fault = "connect"
  <2>1. r = IF gone THEN [s |-> s, kept |-> FALSE]
            ELSE [s |-> IF fault = "file" THEN stray ELSE begun, kept |-> TRUE]
    BY ZenonT(60) DEF Queued
  <2> HIDE DEF gone, r, stray, begun
  <2> QED BY <2>1, ZenonT(60)
<1>7. q \in Slot /\ q.man = m /\ q.open = s.slot[j].open /\ q.stray = s.slot[j].stray
  BY <1>1, <1>2, ZenonT(60) DEF Slot, Reference
<1> DEFINE Put(w, c) == [cand |-> s.cand, candidates |-> s.candidates, slot |-> [s.slot EXCEPT ![j] = w],
                         queued |-> c, held |-> s.held]
<1>8. ASSUME NEW w \in Slot, w.man = m, NEW c \in 0..MaxQueued, NEW u, u = Put(w, c)
      PROVE  /\ Accounted(u, n + 1, Nothing) /\ u.candidates = s.candidates /\ u.queued = c
             /\ u.slot[j] = w /\ \A k \in 0..MaxQueued - 1 : k # j => u.slot[k] = s.slot[k]
  <2>1. [s.slot EXCEPT ![j] = w] \in Transfers
    BY <1>1, ZenonT(60) DEF Transfers
  <2>2. u \in FetchState
    BY <1>1, <1>8, <2>1, ZenonT(60) DEF FetchState
  <2>3. u.cand = s.cand /\ u.candidates = s.candidates /\ u.queued = c /\ u.held = s.held
        /\ u.slot = [s.slot EXCEPT ![j] = w]
    BY <1>8, ZenonT(60)
  <2>4. u.slot[j] = w /\ \A k \in 0..MaxQueued - 1 : k # j => u.slot[k] = s.slot[k]
    BY <1>1, <2>3, ZenonT(60) DEF Transfers
  <2>5. ASSUME NEW x \in Manifest
        PROVE  u.held[x] >= Cardinality(Listed(u, n + 1, x)) + Cardinality(Fetched(u, x)) + One(x, Nothing)
    <3>1. Listed(u, n + 1, x) = Listed(s, n + 1, x)
      BY <2>3, ZenonT(60) DEF Listed
    <3>2. Cardinality(Fetched(u, x)) <= Cardinality(Fetched(s, x)) + One(x, m)
      <4>1. IsFiniteSet(Fetched(s, x)) /\ IsFiniteSet(Fetched(s, x) \cup {j})
            /\ Cardinality(Fetched(s, x) \cup {j}) <= Cardinality(Fetched(s, x)) + 1
            /\ Cardinality(Fetched(s, x)) \in Nat
        <5>1. IsFiniteSet(Fetched(s, x)) /\ Cardinality(Fetched(s, x)) \in Nat
          BY <1>1, PlacesAreFinite, ZenonT(60)
        <5>2. IsFiniteSet(Fetched(s, x) \cup {j})
              /\ Cardinality(Fetched(s, x) \cup {j}) \in {Cardinality(Fetched(s, x)), Cardinality(Fetched(s, x)) + 1}
          BY <5>1, FS_AddElement, ZenonT(60)
        <5> QED BY <5>1, <5>2
      <4>2. CASE x = m
        <5>1. Fetched(u, x) \subseteq Fetched(s, x) \cup {j}
          BY <2>4, ZenonT(60) DEF Fetched
        <5>2. Cardinality(Fetched(u, x)) <= Cardinality(Fetched(s, x) \cup {j})
          BY <4>1, <5>1, FS_Subset, ZenonT(60)
        <5>3. Cardinality(Fetched(u, x)) \in Nat /\ Cardinality(Fetched(s, x) \cup {j}) \in Nat /\ One(x, m) = 1
          BY <2>2, <4>1, <4>2, PlacesAreFinite, FS_CardinalityType, ZenonT(60) DEF One
        <5> QED BY <4>1, <5>2, <5>3
      <4>3. CASE x # m
        <5>1. Fetched(u, x) \subseteq Fetched(s, x)
          BY <1>8, <2>4, <4>3, ZenonT(60) DEF Fetched
        <5>2. Cardinality(Fetched(u, x)) <= Cardinality(Fetched(s, x)) /\ One(x, m) = 0
          BY <4>1, <4>3, <5>1, FS_Subset, ZenonT(60) DEF One
        <5> QED BY <4>1, <5>2
      <4> QED BY <4>2, <4>3, ZenonT(60)
    <3>3. Cardinality(Fetched(u, x)) \in Nat
      BY <2>2, PlacesAreFinite, ZenonT(60)
    <3> QED BY <1>3, <1>4, <2>3, <3>1, <3>2, <3>3
  <2>6. Accounted(u, n + 1, Nothing)
    BY <1>5, <2>2, <2>3, <2>5, ZenonT(60) DEF Accounted
  <2> QED BY <2>3, <2>4, <2>6, ZenonT(60)
<1>9. CASE r = [s |-> s, kept |-> FALSE]
  <2> DEFINE g == [s.held EXCEPT ![m] = @ - 1]
             c == [s.cand EXCEPT ![n] = [@ EXCEPT !.man = Nothing]]
  <2>1. t = [Freed(s, m) EXCEPT !.cand[n].man = Nothing]
    BY <1>9 DEF Considered
  <2>2. t = [cand |-> c, candidates |-> s.candidates, slot |-> s.slot, queued |-> s.queued, held |-> g]
    BY <1>1, <1>2, <2>1, ZenonT(60) DEF Freed, FetchState, Candidates
  <2>3. s.held[m] >= 1
    <3>1. n \in Listed(s, n, m)
      BY <1>1, FetchConstants DEF Listed
    <3>2. Cardinality(Listed(s, n, m)) # 0
      BY <1>1, <3>1, PlacesAreFinite, FS_EmptySet, ZenonT(60)
    <3> QED BY <1>2, <1>4, <3>2
  <2>4. g \in [Manifest -> Nat] /\ \A x \in Manifest : g[x] = s.held[x] - One(x, m)
    <3>1. s.held[m] - 1 \in Nat
      BY <1>2, <1>4, <2>3
    <3>2. g \in [Manifest -> Nat]
      BY <1>1, <3>1, ZenonT(60)
    <3>3. ASSUME NEW x \in Manifest PROVE g[x] = s.held[x] - One(x, m)
      BY <1>1, <1>2, <1>4 DEF One
    <3> QED BY <3>2, <3>3, ZenonT(60)
  <2>5. c \in Candidates /\ \A k \in 0..MaxCandidates : k # n => c[k] = s.cand[k]
    <3>1. s.cand[n] \in [man : Reference, size : Nat, priority : Nat]
      BY <1>1, ZenonT(60) DEF Candidates
    <3>2. [s.cand[n] EXCEPT !.man = Nothing] \in [man : Reference, size : Nat, priority : Nat]
      BY <3>1, ZenonT(60) DEF Reference
    <3> QED BY <1>1, <3>2, ZenonT(60) DEF Candidates
  <2> HIDE DEF g, c, t
  <2>6. t \in FetchState
    BY <1>1, <2>2, <2>4, <2>5, ZenonT(60) DEF FetchState
  <2>7. t.cand = c /\ t.candidates = s.candidates /\ t.slot = s.slot /\ t.queued = s.queued /\ t.held = g
    BY <2>2, ZenonT(60)
  <2>8. \A k \in n + 1..s.candidates - 1 : k \in 0..MaxCandidates /\ k # n
    BY <1>1, FetchConstants
  <2>9. ASSUME NEW x \in Manifest
        PROVE  t.held[x] >= Cardinality(Listed(t, n + 1, x)) + Cardinality(Fetched(t, x)) + One(x, Nothing)
    <3>1. Listed(t, n + 1, x) = Listed(s, n + 1, x) /\ Fetched(t, x) = Fetched(s, x)
      BY <2>5, <2>7, <2>8, ZenonT(60) DEF Listed, Fetched
    <3> HIDE DEF m
    <3> QED BY <1>3, <1>4, <2>4, <2>7, <3>1
  <2>10. \A k \in n + 1..t.candidates - 1 : t.cand[k].man \in Manifest
    BY <1>5, <2>5, <2>7, <2>8, ZenonT(60)
  <2>11. Accounted(t, n + 1, Nothing)
    BY <2>6, <2>9, <2>10, ZenonT(60) DEF Accounted
  <2> QED BY <1>1, <2>7, <2>11, ZenonT(60) DEF Started, t
<1>10. CASE r = [s |-> stray, kept |-> TRUE]
  <2> DEFINE w == [q EXCEPT !.stray = q.open]
  <2>1. w \in Slot /\ w.man = m /\ w.open = s.slot[j].open /\ w.stray = s.slot[j].open
    BY <1>7, ZenonT(60) DEF Slot
  <2>2. stray = Put(w, j)
    <3> HIDE DEF w
    <3>1. stray = [s EXCEPT !.slot[j] = w]
      BY ZenonT(60) DEF w
    <3> QED BY <1>1, <3>1 DEF FetchState
  <2>3. t = stray
    BY <1>10 DEF Considered
  <2> HIDE DEF w, stray, t, q, Put
  <2>4. j \in 0..MaxQueued
    BY <1>1, FetchConstants
  <2>5. /\ Accounted(t, n + 1, Nothing) /\ t.candidates = s.candidates /\ t.queued = j
        /\ t.slot[j] = w /\ \A k \in 0..MaxQueued - 1 : k # j => t.slot[k] = s.slot[k]
    <3>1. t = Put(w, j)
      BY <2>2, <2>3, ZenonT(60)
    <3>2. w \in Slot /\ w.man = m
      BY <2>1, ZenonT(60)
    <3> HIDE DEF m, j
    <3> QED BY <1>8, <2>4, <3>1, <3>2
  <2> HIDE DEF m
  <2> QED BY <2>1, <2>5, ZenonT(60) DEF Started, t
<1>11. CASE r = [s |-> begun, kept |-> TRUE]
  <2> DEFINE w == [q EXCEPT !.open = TRUE, !.stray = FALSE]
  <2>1. w \in Slot /\ w.man = m /\ w.open = TRUE /\ w.stray = FALSE
    BY <1>7, ZenonT(60) DEF Slot
  <2>2. begun = Put(w, j + 1)
    <3> HIDE DEF w
    <3>1. begun = [s EXCEPT !.slot[j] = w, !.queued = j + 1]
      BY ZenonT(60) DEF w
    <3>2. s = [cand |-> s.cand, candidates |-> s.candidates, slot |-> s.slot, queued |-> s.queued, held |-> s.held]
      BY <1>1, ZenonT(60) DEF FetchState
    <3> HIDE DEF j, begun
    <3> QED BY <3>1, <3>2, ZenonT(60)
  <2>3. t = begun
    BY <1>11 DEF Considered
  <2> HIDE DEF w, begun, t, q, Put
  <2>4. j + 1 \in 0..MaxQueued
    BY <1>1, FetchConstants
  <2>5. /\ Accounted(t, n + 1, Nothing) /\ t.candidates = s.candidates /\ t.queued = j + 1
        /\ t.slot[j] = w /\ \A k \in 0..MaxQueued - 1 : k # j => t.slot[k] = s.slot[k]
    <3>1. t = Put(w, j + 1)
      BY <2>2, <2>3, ZenonT(60)
    <3>2. w \in Slot /\ w.man = m
      BY <2>1, ZenonT(60)
    <3> HIDE DEF m, j
    <3> QED BY <1>8, <2>4, <3>1, <3>2
  <2> HIDE DEF m
  <2> QED BY <1>2, <2>1, <2>5, ZenonT(60) DEF Started, t
<1> QED BY <1>6, <1>9, <1>10, <1>11, ZenonT(60)

\* The rest of the list is shuffled up: every candidate that is left goes down by
\* the number of those that were dealt with.
Shuffled(s, n) ==
    [s EXCEPT !.candidates = s.candidates - n,
       !.cand = [k \in DOMAIN @ |-> IF k < s.candidates - n THEN @[k + n] ELSE @[k]]]

LEMMA ShuffledIs ==
    ASSUME NEW s, NEW n \in Nat, Accounted(s, n, Nothing), n <= s.candidates
    PROVE  \E t \in {Shuffled(s, n)} :
              /\ Accounted(t, 0, Nothing) /\ t.candidates = s.candidates - n
              /\ t.slot = s.slot /\ t.queued = s.queued
PROOF
<1> DEFINE left == s.candidates - n
           c == [k \in 0..MaxCandidates |-> IF k < left THEN s.cand[k + n] ELSE s.cand[k]]
           t == Shuffled(s, n)
<1>1. s \in FetchState /\ s.cand \in Candidates /\ s.candidates \in 0..MaxCandidates /\ left \in 0..MaxCandidates
      /\ s.held \in [Manifest -> Nat] /\ DOMAIN s.cand = 0..MaxCandidates
  BY FetchConstants DEF Accounted, FetchState, Candidates
<1>2. t = [cand |-> c, candidates |-> left, slot |-> s.slot, queued |-> s.queued, held |-> s.held]
  <2>1. s = [cand |-> s.cand, candidates |-> s.candidates, slot |-> s.slot, queued |-> s.queued, held |-> s.held]
    BY <1>1, ZenonT(60) DEF FetchState
  <2>2. t = [s EXCEPT !.candidates = left, !.cand = c]
    BY <1>1, <2>1, ZenonT(60) DEF Shuffled
  <2> HIDE DEF t, c
  <2> QED BY <2>1, <2>2, ZenonT(60)
<1>3. \A k \in 0..left - 1 : k \in 0..MaxCandidates /\ k + n \in n..s.candidates - 1 /\ k + n \in 0..MaxCandidates
  BY <1>1, FetchConstants
<1>4. c \in Candidates
  <2>1. ASSUME NEW k \in 0..MaxCandidates, k < left PROVE k + n \in 0..MaxCandidates
    BY <1>1, <2>1, FetchConstants
  <2> QED BY <1>1, <2>1, ZenonT(60) DEF Candidates
<1>5. \A k \in 0..left - 1 : c[k] = s.cand[k + n]
  <2>1. \A k \in 0..left - 1 : k < left
    BY <1>1
  <2> HIDE DEF left
  <2> QED BY <1>3, <2>1, ZenonT(60)
<1> HIDE DEF c, t
<1>6. t \in FetchState /\ t.cand = c /\ t.candidates = left /\ t.slot = s.slot /\ t.queued = s.queued
      /\ t.held = s.held
  BY <1>1, <1>2, <1>4, ZenonT(60) DEF FetchState
<1>7. \A k \in 0..t.candidates - 1 : t.cand[k].man \in Manifest
  BY <1>3, <1>5, <1>6, ZenonT(60) DEF Accounted
<1>8. ASSUME NEW m \in Manifest
      PROVE  t.held[m] >= Cardinality(Listed(t, 0, m)) + Cardinality(Fetched(t, m)) + One(m, Nothing)
  <2> DEFINE I == {j - n : j \in Listed(s, n, m)}
  <2>1. Fetched(t, m) = Fetched(s, m)
    BY <1>6, ZenonT(60) DEF Fetched
  <2>2. Listed(t, 0, m) \subseteq I
    <3> SUFFICES ASSUME NEW k \in Listed(t, 0, m) PROVE \E j \in Listed(s, n, m) : k = j - n
      BY ZenonT(60)
    <3>1. k \in 0..left - 1 /\ t.cand[k].man = m
      BY <1>6, ZenonT(60) DEF Listed
    <3>2. k + n \in n..s.candidates - 1 /\ s.cand[k + n].man = m /\ (k + n) - n = k
      BY <1>3, <1>5, <1>6, <3>1
    <3>3. k + n \in Listed(s, n, m)
      BY <3>2, ZenonT(60) DEF Listed
    <3> QED BY <3>2, <3>3, ZenonT(60)
  <2>3. IsFiniteSet(Listed(s, n, m)) /\ Cardinality(Listed(s, n, m)) \in Nat
    BY <1>1, PlacesAreFinite, ZenonT(60)
  <2>4. IsFiniteSet(I) /\ Cardinality(I) <= Cardinality(Listed(s, n, m))
    <3> DEFINE g == [j \in Listed(s, n, m) |-> j - n]
    <3>1. g \in Surjection(Listed(s, n, m), I)
      BY ZenonT(60) DEF Surjection
    <3> HIDE DEF g, I
    <3> QED BY <2>3, <3>1, FS_Surjection, ZenonT(60)
  <2>5. Cardinality(Listed(t, 0, m)) <= Cardinality(I) /\ Cardinality(I) \in Nat
        /\ Cardinality(Listed(t, 0, m)) \in Nat
    <3> HIDE DEF I
    <3> QED BY <1>6, <2>2, <2>4, FS_Subset, FS_CardinalityType, PlacesAreFinite, ZenonT(60)
  <2>6. s.held[m] >= Cardinality(Listed(s, n, m)) + Cardinality(Fetched(s, m)) + One(m, Nothing)
    BY ZenonT(60) DEF Accounted
  <2>7. One(m, Nothing) = 0 /\ s.held[m] \in Nat /\ Cardinality(Fetched(s, m)) \in Nat
    BY <1>1, FetchConstants, PlacesAreFinite, ZenonT(60) DEF One
  <2> HIDE DEF I
  <2> QED BY <1>6, <2>1, <2>3, <2>4, <2>5, <2>6, <2>7
<1>9. Accounted(t, 0, Nothing)
  BY <1>6, <1>7, <1>8, ZenonT(60) DEF Accounted
<1> QED BY <1>6, <1>9, ZenonT(60) DEF t

\* What rhizome_enqueue_suggestions() does: every manifest is still counted.  The
\* only candidate of a pull is dealt with, in the slot that is free.
LEMMA EnqueuedIs ==
    ASSUME NEW s, Accounted(s, 0, Nothing), NEW d, NEW fault
    PROVE  \E t \in {Enqueued(s, d, fault)} :
              /\ Accounted(t, 0, Nothing)
              /\ s.candidates = 0 => t.candidates = 0 /\ t.slot = s.slot /\ t.queued = s.queued
              /\ s.candidates = 1 /\ s.queued < MaxQueued =>
                   /\ t.candidates = 0
                   /\ \E u : Started(s, 0, u) /\ t.slot = u.slot /\ t.queued = u.queued
PROOF
<1> DEFINE c == s.candidates
           r == [s |-> s, n |-> 0]
           V == {x \in [s : FetchState, n : 0..c] : Accounted(x.s, x.n, Nothing) /\ x.s.candidates = c}
           Turn(x, i) == IF x.n < i - 1 \/ x.s.queued >= MaxQueued THEN x
                         ELSE [s |-> Considered(x.s, d, i - 1, fault), n |-> i]
           G == [i \in 1..c |-> [x \in V |-> IF x.n = i - 1 THEN Turn(x, i) ELSE x]]
           loop == CHOOSE loop : loop = [i \in 0..s.candidates |->
                     IF i = 0 THEN [s |-> s, n |-> 0]
                     ELSE LET x == loop[i - 1] IN
                          IF x.n < i - 1 \/ x.s.queued >= MaxQueued THEN x
                          ELSE [s |-> Considered(x.s, d, i - 1, fault), n |-> i]]
           end == loop[c]
<1>1. Enqueued(s, d, fault) =
        [end.s EXCEPT !.candidates = c - end.n,
           !.cand = [k \in DOMAIN @ |-> IF k < c - end.n THEN @[k + end.n] ELSE @[k]]]
  BY ZenonT(60) DEF Enqueued
<1>2. s \in FetchState /\ c \in Nat /\ c \in 0..MaxCandidates
  BY FetchConstants DEF Accounted, FetchState
<1>3. r \in V
  BY <1>2
<1>4. ASSUME NEW i \in 1..c, NEW x \in V, x.n = i - 1 PROVE Turn(x, i) \in V /\ Turn(x, i).n <= i
  <2>1. CASE x.s.queued >= MaxQueued
    BY <1>2, <1>4, <2>1
  <2>2. CASE ~(x.s.queued >= MaxQueued)
    <3> DEFINE y == Considered(x.s, d, i - 1, fault)
    <3>1. x.s \in FetchState /\ x.s.queued \in 0..MaxQueued /\ x.s.candidates = c
          /\ Accounted(x.s, i - 1, Nothing) /\ i - 1 \in Nat /\ i - 1 < c
      BY <1>2, <1>4 DEF FetchState
    <3>2. x.s.queued < MaxQueued
      BY <2>2, <3>1, FetchConstants
    <3>3. Started(x.s, i - 1, y)
      <4> HIDE DEF c
      <4> QED BY <3>1, <3>2, ConsideredIs, ZenonT(60)
    <3>4. Accounted(y, i, Nothing) /\ y.candidates = c /\ y \in FetchState
      <4>1. (i - 1) + 1 = i
        OBVIOUS
      <4> QED BY <3>1, <3>3, <4>1, ZenonT(60) DEF Started, Accounted
    <3>5. Turn(x, i) = [s |-> y, n |-> i]
      BY <1>4, <2>2
    <3> HIDE DEF y
    <3> QED BY <1>2, <3>4, <3>5
  <2> QED BY <2>1, <2>2, ZenonT(60)
<1>5. G \in [1..c -> [V -> V]] /\ \A i \in 1..c : \A x \in V : G[i][x] = IF x.n = i - 1 THEN Turn(x, i) ELSE x
  <2> HIDE DEF V, Turn, c
  <2>1. \A i \in 1..c : \A x \in V : (IF x.n = i - 1 THEN Turn(x, i) ELSE x) \in V
    BY <1>4, ZenonT(60)
  <2> QED BY <2>1, ZenonT(60)
<1> HIDE DEF G
<1>6. PICK g : Runs(g, V, r, G, c)
  <2> HIDE DEF V, r, c
  <2> QED BY ONLY <1>2, <1>3, <1>5, Running, ZenonT(60)
<1> DEFINE S == {i \in Nat : i <= c => g[i] \in V /\ g[i].n <= i}
<1>7. 0 \in S
  BY <1>2, <1>3, <1>6 DEF Runs
<1>8. ASSUME NEW i \in Nat, i \in S PROVE i + 1 \in S
  <2> SUFFICES ASSUME i + 1 <= c PROVE g[i + 1] \in V /\ g[i + 1].n <= i + 1
    OBVIOUS
  <2>1. i + 1 \in 1..c /\ (i + 1) - 1 = i /\ i <= c /\ g[i] \in V /\ g[i].n <= i /\ g[i].n \in Nat
    BY <1>2, <1>8
  <2> HIDE DEF V, Turn, c
  <2>2. g[i + 1] = IF g[i].n = i THEN Turn(g[i], i + 1) ELSE g[i]
    BY <1>5, <1>6, <2>1 DEF Runs
  <2>3. CASE g[i].n = i
    BY <1>4, <2>1, <2>2, <2>3, ZenonT(60)
  <2>4. CASE g[i].n # i
    BY <2>1, <2>2, <2>4
  <2> QED BY <2>3, <2>4, ZenonT(60)
<1>9. \A i \in Nat : i \in S
  <2> HIDE DEF S
  <2> QED BY <1>7, <1>8, NatInd, ZenonT(60)
<1>10. g = [i \in 0..c |-> IF i = 0 THEN r ELSE Turn(g[i - 1], i)]
  <2>1. ASSUME NEW i \in 1..c PROVE g[i] = Turn(g[i - 1], i)
    <3>1. i - 1 \in S /\ i - 1 <= c /\ i - 1 \in Nat
      BY <1>2, <1>9
    <3>2. g[i - 1] \in V /\ g[i - 1].n <= i - 1 /\ g[i - 1].n \in Nat
      BY <1>2, <3>1
    <3>3. g[i] = IF g[i - 1].n = i - 1 THEN Turn(g[i - 1], i) ELSE g[i - 1]
      <4> HIDE DEF V, Turn, c
      <4> QED BY <1>5, <1>6, <3>2, ZenonT(60) DEF Runs
    <3>4. g[i - 1].n # i - 1 => g[i - 1].n < i - 1
      BY <3>2
    <3> QED BY <3>3, <3>4, ZenonT(60)
  <2> HIDE DEF Turn, r
  <2> QED BY <1>2, <1>6, <2>1 DEF Runs
<1>11. loop = [i \in 0..c |-> IF i = 0 THEN r ELSE Turn(loop[i - 1], i)]
  BY <1>10, ZenonT(60)
<1> HIDE DEF loop
<1> DEFINE U == {i \in Nat : i <= c => loop[i] = g[i]}
<1>12. c \in U
  <2>1. 0 \in U
    BY <1>2, <1>6, <1>11 DEF Runs
  <2>2. ASSUME NEW i \in Nat, i \in U PROVE i + 1 \in U
    <3> SUFFICES ASSUME i + 1 <= c PROVE loop[i + 1] = g[i + 1]
      OBVIOUS
    <3>1. i + 1 \in 0..c /\ (i + 1) - 1 = i /\ i + 1 # 0 /\ loop[i] = g[i]
      BY <1>2, <2>2
    <3> HIDE DEF Turn, r, c
    <3>2. loop[i + 1] = Turn(loop[i], i + 1) /\ g[i + 1] = Turn(g[i], i + 1)
      BY <1>10, <1>11, <3>1, ZenonT(60)
    <3> QED BY <3>1, <3>2, ZenonT(60)
  <2> HIDE DEF U
  <2> QED BY <1>2, <2>1, <2>2, NatInd, ZenonT(60)
<1>13. end \in V
  BY <1>2, <1>9, <1>12
<1>14. end.n \in Nat /\ end.n <= c /\ Accounted(end.s, end.n, Nothing) /\ end.s.candidates = c
  BY <1>2, <1>13
<1>15. PICK t \in {Enqueued(s, d, fault)} :
         /\ Accounted(t, 0, Nothing) /\ t.candidates = c - end.n
         /\ t.slot = end.s.slot /\ t.queued = end.s.queued
  <2> HIDE DEF end
  <2>1. Enqueued(s, d, fault) = Shuffled(end.s, end.n)
    BY <1>1, <1>14, ZenonT(60) DEF Shuffled
  <2> HIDE DEF c
  <2> QED BY <1>14, <2>1, ShuffledIs
<1>16. c = 0 => end.s = s /\ end.n = 0
  BY <1>11
<1>17. ASSUME c = 1, s.queued < MaxQueued PROVE end.n = 1 /\ Started(s, 0, end.s)
  <2>1. loop[0] = r /\ end = Turn(loop[0], 1)
    <3> HIDE DEF Turn, r
    <3> QED BY <1>11, <1>17
  <2>2. s.queued \in 0..MaxQueued
    BY <1>2, ZenonT(60) DEF FetchState
  <2>3. ~(s.queued >= MaxQueued) /\ ~(0 < 1 - 1) /\ 1 - 1 = 0 /\ 0 < s.candidates
    BY <1>17, <2>2, FetchConstants
  <2>4. end = [s |-> Considered(s, d, 0, fault), n |-> 1]
    <3> HIDE DEF end
    <3> QED BY <2>1, <2>3
  <2>5. Started(s, 0, Considered(s, d, 0, fault))
    BY <1>17, <2>3, ConsideredIs, ZenonT(60)
  <2> HIDE DEF end
  <2> QED BY <2>4, <2>5, ZenonT(60)
<1> HIDE DEF end
<1> QED BY <1>15, <1>16, <1>17

-----------------------------------------------------------------------------
(* Suggestions                                                              *)

\* The list with manifest m at place i: a full list loses its last candidate, whose
\* manifest is freed, and the reference that was handed on is the list's.
LEMMA InsertedIs ==
    ASSUME NEW s, NEW m \in Manifest, Accounted(s, 0, m), NEW i \in 0..s.candidates, i < MaxCandidates
    PROVE  \E t \in {Inserted(s, i, m)} :
              /\ Accounted(t, 0, Nothing) /\ t.slot = s.slot /\ t.queued = s.queued
              /\ t.candidates \in {s.candidates, s.candidates + 1}
PROOF
<1> DEFINE full == s.candidates = MaxCandidates
           n == IF full THEN s.candidates ELSE s.candidates + 1
           b == IF full THEN s.cand[MaxCandidates - 1].man ELSE Nothing
           r == Freed(s, b)
           new == [man |-> m, size |-> Size[m[1]], priority |-> 100]
           c == [k \in 0..MaxCandidates |->
                   IF k = i THEN new ELSE IF k \in i + 1..n - 1 THEN s.cand[k - 1] ELSE s.cand[k]]
           h == [x \in Manifest |-> s.held[x] - One(x, b)]
           t == Inserted(s, i, m)
<1>1. s \in FetchState /\ s.cand \in Candidates /\ s.candidates \in 0..MaxCandidates
      /\ s.held \in [Manifest -> Nat] /\ DOMAIN s.cand = 0..MaxCandidates
  BY ZenonT(60) DEF Accounted, FetchState, Candidates
<1>2. n \in Nat /\ n \in s.candidates..s.candidates + 1 /\ n <= MaxCandidates /\ i \in Nat /\ i < n
      /\ (full => n = MaxCandidates)
  BY <1>1, FetchConstants
<1>3. b \in Reference /\ (full => b \in Manifest)
  <2>1. CASE full
    <3>1. MaxCandidates - 1 \in 0..s.candidates - 1
      BY <2>1, FetchConstants
    <3> QED BY <2>1, <3>1, ZenonT(60) DEF Accounted, Reference
  <2>2. CASE ~full
    BY <2>2, ZenonT(60) DEF Reference
  <2> QED BY <2>1, <2>2, ZenonT(60)
<1>4. ASSUME NEW x \in Manifest
      PROVE  /\ s.held[x] >= Cardinality(Listed(s, 0, x)) + Cardinality(Fetched(s, x)) + One(x, m)
             /\ s.held[x] \in Nat /\ Cardinality(Listed(s, 0, x)) \in Nat /\ IsFiniteSet(Listed(s, 0, x))
             /\ Cardinality(Fetched(s, x)) \in Nat /\ One(x, m) \in {0, 1} /\ One(x, b) \in {0, 1}
             /\ One(x, Nothing) = 0
  <2>1. s.held[x] >= Cardinality(Listed(s, 0, x)) + Cardinality(Fetched(s, x)) + One(x, m)
    BY ZenonT(60) DEF Accounted
  <2>2. One(x, m) \in {0, 1} /\ One(x, b) \in {0, 1} /\ One(x, Nothing) = 0
    <3> HIDE DEF b
    <3> QED BY FetchConstants, ZenonT(60) DEF One
  <2>3. Cardinality(Listed(s, 0, x)) \in Nat /\ IsFiniteSet(Listed(s, 0, x)) /\ Cardinality(Fetched(s, x)) \in Nat
    BY <1>1, PlacesAreFinite, ZenonT(60)
  <2> QED BY <1>1, <2>1, <2>2, <2>3, ZenonT(60)
<1> DEFINE Left(x) == Listed(s, 0, x) \ (IF full THEN {MaxCandidates - 1} ELSE {})
<1>5. ASSUME NEW x \in Manifest
      PROVE  /\ Cardinality(Left(x)) = Cardinality(Listed(s, 0, x)) - One(x, b)
             /\ IsFiniteSet(Left(x)) /\ Cardinality(Left(x)) \in Nat
  <2>1. IsFiniteSet(Left(x)) /\ Cardinality(Left(x)) \in Nat
    <3>1. Left(x) \subseteq Listed(s, 0, x)
      BY ZenonT(60)
    <3> QED BY <1>4, <3>1, FS_Subset, FS_CardinalityType, ZenonT(60)
  <2>2. CASE full
    <3>1. Left(x) = Listed(s, 0, x) \ {MaxCandidates - 1} /\ b = s.cand[MaxCandidates - 1].man
      BY <2>2, ZenonT(60)
    <3>2. MaxCandidates - 1 \in Listed(s, 0, x) <=> x = b
      <4>1. MaxCandidates - 1 \in 0..s.candidates - 1
        BY <2>2, FetchConstants
      <4> QED BY <3>1, <4>1, ZenonT(60) DEF Listed
    <3> HIDE DEF Left, b
    <3>3. CASE x = b
      <4>1. Cardinality(Listed(s, 0, x) \ {MaxCandidates - 1}) = Cardinality(Listed(s, 0, x)) - 1
        BY <1>4, <3>2, <3>3, FS_RemoveElement, ZenonT(60)
      <4>2. One(x, b) = 1
        BY <3>3, ZenonT(60) DEF One
      <4> QED BY <2>1, <3>1, <4>1, <4>2, ZenonT(60)
    <3>4. CASE x # b
      <4>1. Left(x) = Listed(s, 0, x) /\ One(x, b) = 0
        BY <3>1, <3>2, <3>4, ZenonT(60) DEF One
      <4> QED BY <1>4, <2>1, <4>1
    <3> QED BY <2>1, <3>3, <3>4, ZenonT(60)
  <2>3. CASE ~full
    <3>1. Left(x) = Listed(s, 0, x) /\ One(x, b) = 0
      BY <2>3, FetchConstants, ZenonT(60) DEF One
    <3> HIDE DEF Left, b
    <3> QED BY <1>4, <2>1, <3>1
  <2> QED BY <2>2, <2>3, ZenonT(60)
<1>6. h \in [Manifest -> Nat]
  <2> HIDE DEF Left, b
  <2> SUFFICES ASSUME NEW x \in Manifest PROVE s.held[x] - One(x, b) \in Nat
    BY ZenonT(60)
  <2> QED BY <1>4, <1>5
<1>7. r.held = h /\ r.cand = s.cand /\ r.candidates = s.candidates /\ r.slot = s.slot /\ r.queued = s.queued
      /\ r = [cand |-> r.cand, candidates |-> r.candidates, slot |-> r.slot, queued |-> r.queued, held |-> r.held]
  <2> HIDE DEF b
  <2>1. CASE b = Nothing
    <3>1. \A x \in Manifest : One(x, b) = 0 /\ s.held[x] - 0 = s.held[x]
      BY <1>1, <2>1, FetchConstants DEF One
    <3>2. h = s.held
      BY <1>1, <3>1, ZenonT(60)
    <3>3. r = s
      BY <2>1, ZenonT(60) DEF Freed
    <3> HIDE DEF h, r
    <3> QED BY <1>1, <3>2, <3>3, ZenonT(60) DEF FetchState
  <2>2. CASE b # Nothing
    <3>1. b \in Manifest
      BY <1>3, <2>2, ZenonT(60) DEF Reference
    <3>2. [s.held EXCEPT ![b] = @ - 1] = h
      <4>1. \A x \in Manifest : s.held[x] - One(x, b) = [s.held EXCEPT ![b] = @ - 1][x]
        BY <1>1, <3>1 DEF One
      <4>2. [s.held EXCEPT ![b] = @ - 1] = [x \in Manifest |-> [s.held EXCEPT ![b] = @ - 1][x]]
        BY <1>1, ZenonT(60)
      <4> QED BY <4>1, <4>2, ZenonT(60)
    <3>3. r = [s EXCEPT !.held = [s.held EXCEPT ![b] = @ - 1]]
      BY <1>1, <2>2, ZenonT(60) DEF Freed, FetchState
    <3> HIDE DEF h, r
    <3> QED BY <1>1, <3>2, <3>3, ZenonT(60) DEF FetchState
  <2> QED BY <2>1, <2>2, ZenonT(60)
<1>8. t = [cand |-> c, candidates |-> n, slot |-> s.slot, queued |-> s.queued, held |-> h]
  <2>1. t = [r EXCEPT !.candidates = n,
               !.cand = [k \in DOMAIN @ |->
                   IF k = i THEN [man |-> m, size |-> Size[m[1]], priority |-> 100]
                   ELSE IF k \in i + 1..n - 1 THEN @[k - 1] ELSE @[k]]]
    <3>1. r = IF full THEN Freed(s, s.cand[MaxCandidates - 1].man) ELSE s
      BY ZenonT(60) DEF Freed
    <3> HIDE DEF r
    <3> QED BY <3>1, ZenonT(60) DEF Inserted
  <2>2. t = [r EXCEPT !.candidates = n, !.cand = c]
    <3> HIDE DEF r, n, t
    <3> QED BY <1>1, <1>7, <2>1, ZenonT(60)
  <2> HIDE DEF r, n, t, c, h
  <2> QED BY <1>7, <2>2, ZenonT(60)
<1>9. new \in [man : Reference, size : Nat, priority : Nat] /\ new.man = m
  BY FetchConstants, ZenonT(60) DEF Reference
<1>10. c \in Candidates
  <2> HIDE DEF n, new
  <2>1. ASSUME NEW k \in 0..MaxCandidates, k \in i + 1..n - 1 PROVE k - 1 \in 0..MaxCandidates
    BY <1>2, <2>1, FetchConstants
  <2> QED BY <1>1, <1>9, <2>1, ZenonT(60) DEF Candidates
<1>11. c[i] = new /\ \A k \in 0..n - 1 : k # i => c[k] = IF k < i THEN s.cand[k] ELSE s.cand[k - 1]
  <2> HIDE DEF n, new
  <2>1. i \in 0..MaxCandidates /\ \A k \in 0..n - 1 : k \in 0..MaxCandidates /\ (k # i => (k \in i + 1..n - 1 <=> ~(k < i)))
    BY <1>2, FetchConstants
  <2> QED BY <2>1, ZenonT(60)
<1> HIDE DEF t, c, h, new
<1>12. t \in FetchState /\ t.cand = c /\ t.candidates = n /\ t.slot = s.slot /\ t.queued = s.queued /\ t.held = h
  <2> HIDE DEF n
  <2>1. n \in 0..MaxCandidates
    BY <1>2, FetchConstants
  <2> QED BY <1>1, <1>6, <1>8, <1>10, <2>1, ZenonT(60) DEF FetchState
<1>13. \A k \in 0..n - 1 : k # i => IF k < i THEN k \in 0..s.candidates - 1 /\ (full => k # MaxCandidates - 1)
                                    ELSE k - 1 \in 0..s.candidates - 1 /\ (full => k - 1 # MaxCandidates - 1)
  BY <1>1, <1>2, FetchConstants
<1> HIDE DEF full, n, b
<1>14. ASSUME NEW k \in 0..t.candidates - 1 PROVE t.cand[k].man \in Manifest
  <2>1. CASE k = i
    BY <1>9, <1>11, <1>12, <2>1, ZenonT(60)
  <2>2. CASE k # i
    BY <1>11, <1>12, <1>13, <2>2, ZenonT(60) DEF Accounted
  <2> QED BY <2>1, <2>2, ZenonT(60)
<1>15. ASSUME NEW x \in Manifest
       PROVE  t.held[x] >= Cardinality(Listed(t, 0, x)) + Cardinality(Fetched(t, x)) + One(x, Nothing)
  <2> DEFINE Moved(k) == IF k < i THEN k ELSE k + 1
             I == {Moved(k) : k \in Left(x)}
             J == IF x = m THEN {i} ELSE {}
  <2>1. Fetched(t, x) = Fetched(s, x)
    BY <1>12, ZenonT(60) DEF Fetched
  <2>2. Listed(t, 0, x) \subseteq I \cup J
    <3> SUFFICES ASSUME NEW k \in Listed(t, 0, x), k # i PROVE \E j \in Left(x) : k = Moved(j)
      <4>1. i \in Listed(t, 0, x) => x = m
        BY <1>9, <1>11, <1>12, ZenonT(60) DEF Listed
      <4> QED BY <4>1, ZenonT(60)
    <3>1. k \in 0..n - 1 /\ c[k].man = x
      BY <1>12, ZenonT(60) DEF Listed
    <3>2. CASE k < i
      <4>1. k \in Left(x)
        BY <1>11, <1>13, <3>1, <3>2, ZenonT(60) DEF Listed
      <4>2. k = Moved(k)
        BY <3>2, ZenonT(60)
      <4> QED BY <4>1, <4>2, ZenonT(60)
    <3>3. CASE ~(k < i)
      <4>1. k - 1 \in Left(x)
        BY <1>11, <1>13, <3>1, <3>3, ZenonT(60) DEF Listed
      <4>2. k = Moved(k - 1)
        BY <1>2, <3>1, <3>3
      <4> QED BY <4>1, <4>2, ZenonT(60)
    <3> QED BY <3>2, <3>3, ZenonT(60)
  <2>3. IsFiniteSet(I) /\ Cardinality(I) <= Cardinality(Left(x)) /\ Cardinality(I) \in Nat
    <3> DEFINE g == [k \in Left(x) |-> Moved(k)]
    <3> HIDE DEF Moved, Left
    <3>1. g \in Surjection(Left(x), I)
      BY ZenonT(60) DEF Surjection
    <3> HIDE DEF g, I
    <3> QED BY <1>5, <3>1, FS_Surjection, FS_CardinalityType, ZenonT(60)
  <2>4. IsFiniteSet(I \cup J) /\ Cardinality(I \cup J) <= Cardinality(I) + One(x, m) /\ Cardinality(I \cup J) \in Nat
    <3> HIDE DEF I
    <3>1. CASE x = m
      <4>1. J = {i} /\ One(x, m) = 1
        BY <3>1, ZenonT(60) DEF One
      <4>2. IsFiniteSet(I \cup {i}) /\ Cardinality(I \cup {i}) \in {Cardinality(I), Cardinality(I) + 1}
        BY <2>3, FS_AddElement, ZenonT(60)
      <4> HIDE DEF J
      <4> QED BY <2>3, <4>1, <4>2
    <3>2. CASE x # m
      <4>1. I \cup J = I /\ One(x, m) = 0
        BY <3>2, ZenonT(60) DEF One
      <4>2. Cardinality(I) <= Cardinality(I) + One(x, m)
        BY <2>3, <4>1
      <4> HIDE DEF J
      <4> QED BY <2>3, <4>1, <4>2, ZenonT(60)
    <3> QED BY <3>1, <3>2, ZenonT(60)
  <2>5. Cardinality(Listed(t, 0, x)) <= Cardinality(I \cup J) /\ Cardinality(Listed(t, 0, x)) \in Nat
    <3> HIDE DEF I, J
    <3> QED BY <1>12, <2>2, <2>4, FS_Subset, PlacesAreFinite, ZenonT(60)
  <2>6. t.held[x] = s.held[x] - One(x, b)
    BY <1>12, ZenonT(60) DEF h
  <2> HIDE DEF I, J, Left
  <2> QED BY <1>4, <1>5, <2>1, <2>3, <2>4, <2>5, <2>6
<1>16. Accounted(t, 0, Nothing)
  BY <1>12, <1>14, <1>15, ZenonT(60) DEF Accounted
<1>17. t.candidates \in {s.candidates, s.candidates + 1}
  BY <1>12, ZenonT(60) DEF n
<1> QED BY <1>12, <1>16, <1>17, ZenonT(60) DEF t

\* Where the loop over the candidates stops.
LEMMA StopIs ==
    ASSUME NEW s \in FetchState, NEW m
    PROVE  Stop(s, m) \in 0..s.candidates
PROOF
<1> DEFINE hit == {k \in 0..s.candidates - 1 :
                     s.cand[k].man # Nothing /\
                     (s.cand[k].man[1] = m[1] \/ Behind(s.cand[k], [priority |-> 100, size |-> Size[m[1]]]))}
<1>1. s.candidates \in Nat
  BY FetchConstants DEF FetchState
<1>2. Stop(s, m) = IF hit = {} THEN s.candidates ELSE Min(hit)
  BY ZenonT(60) DEF Stop
<1>3. hit \subseteq 0..s.candidates - 1 /\ hit \subseteq Nat
  BY <1>1
<1> HIDE DEF hit
<1>4. hit # {} => Min(hit) \in hit
  <2> SUFFICES ASSUME hit # {} PROVE Min(hit) \in hit
    BY ZenonT(60)
  <2>1. \E n \in hit : \A k \in hit : n <= k
    BY <1>3, NatMin, ZenonT(60)
  <2> QED BY <2>1, ZenonT(60) DEF Min
<1>5. CASE hit = {}
  BY <1>1, <1>2, <1>5
<1>6. CASE hit # {}
  <2>1. Stop(s, m) \in 0..s.candidates - 1
    BY <1>2, <1>3, <1>4, <1>6, ZenonT(60)
  <2> QED BY <1>1, <2>1
<1> QED BY <1>5, <1>6, ZenonT(60)

\* Every bundle has one version.
OneVersion == \A v, w \in Version : v = w

\* What rhizome_suggest_queue_manifest_import() does with a manifest that has been
\* allocated, unless it replaces an older version of the bundle in the list.
LEMMA SuggestedIs ==
    ASSUME NEW s, NEW m \in Manifest, NEW good \in BOOLEAN, Accounted(s, 0, m),
           OneVersion \/ s.candidates = 0
    PROVE  \E t \in {Suggested(s, m, good)} :
              /\ Accounted(t, 0, Nothing) /\ t.slot = s.slot /\ t.queued = s.queued
              /\ t.candidates \in {s.candidates, s.candidates + 1}
PROOF
<1> DEFINE i == Stop(s, m)
           t == Suggested(s, m, good)
           same == i < s.candidates /\ s.cand[i].man # Nothing /\ s.cand[i].man[1] = m[1]
           keep == s.cand[i].man[2] >= m[2] \/ ~good
<1>1. s \in FetchState /\ i \in 0..s.candidates /\ s.candidates \in Nat
  <2>1. s \in FetchState
    BY ZenonT(60) DEF Accounted
  <2> QED BY <2>1, StopIs, FetchConstants DEF FetchState
<1>2. CASE t = Freed(s, m)
  <2>1. m \in Reference
    BY ZenonT(60) DEF Reference
  <2>2. /\ Accounted(Freed(s, m), 0, Nothing) /\ Freed(s, m).candidates = s.candidates
        /\ Freed(s, m).slot = s.slot /\ Freed(s, m).queued = s.queued
    BY <2>1, FreedIs, ZenonT(60)
  <2> HIDE DEF t
  <2> QED BY <1>2, <2>2, ZenonT(60) DEF t
<1>3. CASE t = s
  <2>1. Accounted(s, 0, Nothing)
    BY AccountedAnyway, ZenonT(60)
  <2> QED BY <1>3, <2>1, ZenonT(60)
<1>4. CASE t = Inserted(s, i, m) /\ i < MaxCandidates
  <2> HIDE DEF i, t
  <2> QED BY <1>1, <1>4, InsertedIs DEF t
<1>5. same => s.cand[i].man[2] >= m[2]
  <2> SUFFICES ASSUME same PROVE s.cand[i].man[2] >= m[2]
    BY ZenonT(60)
  <2>1. OneVersion /\ i \in 0..s.candidates - 1
    BY <1>1
  <2>2. s.cand[i].man \in Manifest
    BY <2>1, ZenonT(60) DEF Accounted
  <2>3. s.cand[i].man[2] \in Version /\ m[2] \in Version
    BY <2>2, FetchConstants, ZenonT(60)
  <2>4. s.cand[i].man[2] = m[2] /\ m[2] \in Nat
    BY <2>1, <2>3, FetchAssumption, ZenonT(60) DEF OneVersion
  <2> QED BY <2>4
<1>6. t = Freed(s, m) \/ t = s \/ (t = Inserted(s, i, m) /\ i < MaxCandidates)
  <2>1. CASE HaveVersion(db, m)
    <3>1. t = Freed(s, m)
      BY <2>1, ZenonT(60) DEF Suggested
    <3> QED BY <3>1, ZenonT(60)
  <2>2. CASE ~HaveVersion(db, m) /\ Size[m[1]] = 0
    <3>1. ~(Size[m[1]] > 0)
      BY <2>2
    <3>2. t = IF good THEN s ELSE Freed(s, m)
      BY <2>2, <3>1, ZenonT(60) DEF Suggested
    <3> HIDE DEF t
    <3> QED BY <3>2, ZenonT(60)
  <2>3. CASE ~HaveVersion(db, m) /\ Size[m[1]] > 0
    <3>1. Size[m[1]] # 0
      BY <2>3
    <3>2. t = IF same THEN IF keep THEN Freed(s, m)
                           ELSE Positioned([Freed(s, s.cand[i].man) EXCEPT !.cand[i].man = m], i)
              ELSE IF i >= MaxCandidates \/ ~good THEN Freed(s, m) ELSE Inserted(s, i, m)
      BY <2>3, <3>1, ZenonT(60) DEF Suggested
    <3>3. ~(i >= MaxCandidates) => i < MaxCandidates
      BY <1>1, FetchConstants
    <3> HIDE DEF t, i, same
    <3> QED BY <1>5, <3>2, <3>3, ZenonT(60)
  <2>4. Size[m[1]] = 0 \/ Size[m[1]] > 0
    BY FetchConstants
  <2> QED BY <2>1, <2>2, <2>3, <2>4, ZenonT(60)
<1> HIDE DEF t, i
<1> QED BY <1>2, <1>3, <1>4, <1>6, ZenonT(60) DEF t

-----------------------------------------------------------------------------
(* The server and the pull                                                  *)

\* A transfer that holds no manifest takes a slot, and the one that was there, if
\* any, is never freed.
Replaced(s, j, w, c) == [s EXCEPT !.slot[j] = w, !.queued = c]

LEMMA ReplacedIs ==
    ASSUME NEW s, Accounted(s, 0, Nothing), NEW j \in 0..MaxQueued - 1, NEW w \in Slot, w.man = Nothing,
           NEW c \in 0..MaxQueued
    PROVE  \E t \in {Replaced(s, j, w, c)} :
              /\ Accounted(t, 0, Nothing) /\ t.candidates = s.candidates /\ t.queued = c
              /\ t.slot = [s.slot EXCEPT ![j] = w]
PROOF
<1> DEFINE t == Replaced(s, j, w, c)
<1>1. s \in FetchState /\ s.slot \in Transfers /\ s.held \in [Manifest -> Nat]
      /\ s = [cand |-> s.cand, candidates |-> s.candidates, slot |-> s.slot, queued |-> s.queued, held |-> s.held]
  BY ZenonT(60) DEF Accounted, FetchState
<1>2. t = [cand |-> s.cand, candidates |-> s.candidates, slot |-> [s.slot EXCEPT ![j] = w],
           queued |-> c, held |-> s.held]
  <2>1. t = [s EXCEPT !.slot = [s.slot EXCEPT ![j] = w], !.queued = c]
    BY <1>1, ZenonT(60) DEF Replaced
  <2>2. s = [cand |-> s.cand, candidates |-> s.candidates, slot |-> s.slot, queued |-> s.queued, held |-> s.held]
    BY <1>1, ZenonT(60)
  <2> HIDE DEF t
  <2> QED BY ONLY <2>1, <2>2, ZenonT(60)
<1>3. [s.slot EXCEPT ![j] = w] \in Transfers
  BY <1>1, ZenonT(60) DEF Transfers
<1> HIDE DEF t
<1>4. t \in FetchState /\ t.cand = s.cand /\ t.candidates = s.candidates /\ t.queued = c
      /\ t.slot = [s.slot EXCEPT ![j] = w] /\ t.held = s.held
  BY <1>1, <1>2, <1>3, ZenonT(60) DEF FetchState
<1>5. t.slot[j] = w /\ \A k \in 0..MaxQueued - 1 : k # j => t.slot[k] = s.slot[k]
  BY <1>1, <1>4, ZenonT(60) DEF Transfers
<1>6. ASSUME NEW m \in Manifest
      PROVE  t.held[m] >= Cardinality(Listed(t, 0, m)) + Cardinality(Fetched(t, m)) + One(m, Nothing)
  <2>1. Listed(t, 0, m) = Listed(s, 0, m)
    BY <1>4, ZenonT(60) DEF Listed
  <2>2. Fetched(t, m) \subseteq Fetched(s, m)
    BY <1>5, FetchConstants, ZenonT(60) DEF Fetched
  <2>3. IsFiniteSet(Fetched(s, m)) /\ Cardinality(Fetched(s, m)) \in Nat
        /\ Cardinality(Listed(s, 0, m)) \in Nat /\ Cardinality(Fetched(t, m)) \in Nat
    BY <1>1, <1>4, PlacesAreFinite, ZenonT(60)
  <2>4. Cardinality(Fetched(t, m)) <= Cardinality(Fetched(s, m))
    BY <2>2, <2>3, FS_Subset, ZenonT(60)
  <2>5. One(m, Nothing) = 0 /\ s.held[m] \in Nat
    BY <1>1, FetchConstants, ZenonT(60) DEF One
  <2>6. s.held[m] >= Cardinality(Listed(s, 0, m)) + Cardinality(Fetched(s, m)) + One(m, Nothing)
    BY ZenonT(60) DEF Accounted
  <2> QED BY <1>4, <2>1, <2>3, <2>4, <2>5, <2>6
<1>7. \A k \in 0..t.candidates - 1 : t.cand[k].man \in Manifest
  BY <1>4, ZenonT(60) DEF Accounted
<1>8. Accounted(t, 0, Nothing)
  BY <1>4, <1>6, <1>7, ZenonT(60) DEF Accounted
<1> QED BY <1>4, <1>8, ZenonT(60) DEF t

\* Slot j alone is open, or none is.
OpenAt(s, j) == \A k \in 0..MaxQueued - 1 : s.slot[k].open <=> k = j

\* A pull has at most one transfer: of a manifest, in slot 0, or of the file that it
\* tells of, in slot 1.
Pulling(s) ==
    /\ s.candidates = 0
    /\ \A k \in 0..MaxQueued - 1 : ~s.slot[k].stray
    /\ \/ s.queued = 0 /\ OpenAt(s, -1)
       \/ s.queued = 1 /\ OpenAt(s, 0) /\ s.slot[0].man = Nothing
       \/ s.queued = 1 /\ OpenAt(s, 1) /\ s.slot[1].man # Nothing

\* The inductive invariant.
FetchInv == Accounted(f, 0, Nothing) /\ (Direct => Pulling(f))

LEMMA FetchInitially == FetchInit => FetchInv
PROOF
<1> SUFFICES ASSUME FetchInit PROVE FetchInv
  BY ZenonT(60)
<1> DEFINE cand == [k \in 0..MaxCandidates |-> NoCandidate]
           slots == [k \in 0..MaxQueued - 1 |-> FreeSlot]
           held == [m \in Manifest |-> 0]
<1>1. f = [cand |-> cand, candidates |-> 0, slot |-> slots, queued |-> 0, held |-> held]
  BY ZenonT(60) DEF FetchInit
<1>2. cand \in Candidates
  BY ZenonT(60) DEF Candidates, NoCandidate, Reference
<1>3. slots \in Transfers
  BY ZenonT(60) DEF Transfers, FreeSlot, Slot, Reference
<1>4. held \in [Manifest -> Nat] /\ \A m \in Manifest : held[m] = 0
  BY ZenonT(60)
<1>5. \A k \in 0..MaxQueued - 1 : slots[k].man = Nothing /\ ~slots[k].open /\ ~slots[k].stray
  BY ZenonT(60) DEF FreeSlot
<1> HIDE DEF cand, slots, held
<1>6. f \in FetchState /\ f.candidates = 0 /\ f.slot = slots /\ f.queued = 0 /\ f.held = held
  BY <1>1, <1>2, <1>3, <1>4, FetchConstants DEF FetchState
<1>7. ASSUME NEW m \in Manifest
      PROVE  f.held[m] >= Cardinality(Listed(f, 0, m)) + Cardinality(Fetched(f, m)) + One(m, Nothing)
  <2>1. Listed(f, 0, m) = {} /\ Fetched(f, m) = {}
    BY <1>5, <1>6, FetchConstants DEF Listed, Fetched
  <2>2. Cardinality(Listed(f, 0, m)) = 0 /\ Cardinality(Fetched(f, m)) = 0
    BY <2>1, FS_EmptySet, ZenonT(60)
  <2>3. One(m, Nothing) = 0
    BY FetchConstants, ZenonT(60) DEF One
  <2> QED BY <1>4, <1>6, <2>2, <2>3
<1>8. Accounted(f, 0, Nothing)
  BY <1>6, <1>7 DEF Accounted
<1>9. Pulling(f)
  BY <1>5, <1>6 DEF Pulling, OpenAt
<1> QED BY <1>8, <1>9, ZenonT(60) DEF FetchInv

\* Closing the transfer of a pull leaves none.
LEMMA ClosedPull ==
    ASSUME NEW s, NEW t, Pulling(s), NEW k \in 0..MaxQueued - 1, s.slot \in Transfers, s.slot[k].open,
           Closing(s, k, t)
    PROVE  Pulling(t)
PROOF
<1>1. s.queued = 1 /\ \A j \in 0..MaxQueued - 1 : s.slot[j].open <=> j = k
  BY DEF Pulling, OpenAt
<1>2. DOMAIN s.slot = 0..MaxQueued - 1 /\ s.slot[k] \in Slot /\ ~s.slot[k].stray
  BY ZenonT(60) DEF Transfers, Pulling
<1>3. t.slot[k] = [s.slot[k] EXCEPT !.man = Nothing, !.open = s.slot[k].stray]
      /\ \A j \in 0..MaxQueued - 1 : j # k => t.slot[j] = s.slot[j]
  BY <1>2, ZenonT(60) DEF Closing
<1>4. ~t.slot[k].open /\ ~t.slot[k].stray
  BY <1>2, <1>3, ZenonT(60) DEF Slot
<1>5. \A j \in 0..MaxQueued - 1 : ~t.slot[j].open /\ ~t.slot[j].stray
  BY <1>1, <1>3, <1>4, ZenonT(60) DEF Pulling
<1>6. t.queued = 0 /\ t.candidates = 0 /\ \A j \in 0..MaxQueued - 1 : j # -1
  BY <1>1 DEF Pulling, Closing
<1> QED BY <1>5, <1>6, ZenonT(60) DEF Pulling, OpenAt

\* The file that a manifest tells of is fetched, in slot 1, and the transfer of the
\* manifest is closed.
LEMMA FollowedPull ==
    ASSUME NEW s, NEW u, NEW t, Pulling(s), s.slot \in Transfers, u.slot \in Transfers,
           s.slot[0].open, u.candidates = 0,
           \/ u.slot = s.slot /\ u.queued = s.queued
           \/ \E r, v : /\ Started(r, 0, v) /\ r.slot = s.slot /\ r.queued = s.queued
                        /\ u.slot = v.slot /\ u.queued = v.queued,
           Closing(u, 0, t)
    PROVE  Pulling(t)
PROOF
<1>1. 0 \in 0..MaxQueued - 1 /\ 1 \in 0..MaxQueued - 1 /\ 0 # 1
  BY FetchConstants
<1>2. s.queued = 1 /\ \A k \in 0..MaxQueued - 1 : (s.slot[k].open <=> k = 0) /\ ~s.slot[k].stray
  BY <1>1 DEF Pulling, OpenAt
<1>3. \A k \in 0..MaxQueued - 1 : k # 1 => u.slot[k] = s.slot[k]
  BY <1>2 DEF Started
<1>4. \/ u.queued = 1 /\ ~u.slot[1].open /\ ~u.slot[1].stray
      \/ u.queued = 2 /\ u.slot[1].open /\ ~u.slot[1].stray /\ u.slot[1].man # Nothing
  <2>1. CASE u.slot = s.slot /\ u.queued = s.queued
    BY <1>1, <1>2, <2>1, ZenonT(60)
  <2>2. ASSUME NEW r, NEW v, Started(r, 0, v), r.slot = s.slot, r.queued = s.queued,
               u.slot = v.slot, u.queued = v.queued
        PROVE  \/ u.queued = 1 /\ ~u.slot[1].open /\ ~u.slot[1].stray
               \/ u.queued = 2 /\ u.slot[1].open /\ ~u.slot[1].stray /\ u.slot[1].man # Nothing
    <3>1. u.slot[1] \in Slot /\ s.slot[1] \in Slot
      BY <1>1, ZenonT(60) DEF Transfers
    <3>2. u.slot[1].stray \in BOOLEAN /\ u.slot[1].open \in BOOLEAN /\ s.slot[1].open = FALSE /\ s.slot[1].stray = FALSE
      BY <1>1, <1>2, <3>1, ZenonT(60) DEF Slot
    <3> QED BY <1>2, <2>2, <3>2 DEF Started
  <2> QED BY <2>1, <2>2, ZenonT(60)
<1>5. DOMAIN u.slot = 0..MaxQueued - 1 /\ u.slot[0] \in Slot /\ u.slot[0] = s.slot[0] /\ ~u.slot[0].stray
  BY <1>1, <1>2, <1>3, ZenonT(60) DEF Transfers
<1>6. t.slot[0] = [u.slot[0] EXCEPT !.man = Nothing, !.open = u.slot[0].stray]
      /\ \A k \in 0..MaxQueued - 1 : k # 0 => t.slot[k] = u.slot[k]
  BY <1>1, <1>5, ZenonT(60) DEF Closing
<1>7. ~t.slot[0].open /\ ~t.slot[0].stray
  BY <1>5, <1>6, ZenonT(60) DEF Slot
<1>8. t.slot[1] = u.slot[1] /\ \A k \in 0..MaxQueued - 1 : k # 1 => ~t.slot[k].open /\ ~t.slot[k].stray
  <2>1. ASSUME NEW k \in 0..MaxQueued - 1, k # 1, k # 0 PROVE ~t.slot[k].open /\ ~t.slot[k].stray
    BY <1>2, <1>3, <1>6, <2>1
  <2> QED BY <1>1, <1>6, <1>7, <2>1, ZenonT(60)
<1>9. t.candidates = 0 /\ t.queued = IF u.queued > 0 THEN u.queued - 1 ELSE 0
  BY ZenonT(60) DEF Closing
<1>10. CASE u.queued = 1 /\ ~u.slot[1].open /\ ~u.slot[1].stray
  <2>1. t.queued = 0 /\ \A k \in 0..MaxQueued - 1 : ~t.slot[k].open /\ ~t.slot[k].stray /\ k # -1
    BY <1>8, <1>9, <1>10
  <2> QED BY <1>9, <2>1, ZenonT(60) DEF Pulling, OpenAt
<1>11. CASE u.queued = 2 /\ u.slot[1].open /\ ~u.slot[1].stray /\ u.slot[1].man # Nothing
  <2>1. t.queued = 1 /\ t.slot[1].man # Nothing
        /\ \A k \in 0..MaxQueued - 1 : (t.slot[k].open <=> k = 1) /\ ~t.slot[k].stray
    BY <1>8, <1>9, <1>11
  <2> QED BY <1>9, <2>1, ZenonT(60) DEF Pulling, OpenAt
<1> QED BY <1>4, <1>10, <1>11, ZenonT(60)

\* The steps.
LEMMA RequestStep == ASSUME FetchInv, RequestByPrefix PROVE FetchInv'
PROOF
<1> DEFINE w == [FreeSlot EXCEPT !.open = TRUE]
<1>1. Direct /\ f.queued = 0 /\ f' = Replaced(f, 0, w, 1)
  BY ZenonT(60) DEF RequestByPrefix, Replaced
<1>2. w \in Slot /\ w.man = Nothing /\ w.open = TRUE /\ w.stray = FALSE
  BY ZenonT(60) DEF FreeSlot, Slot, Reference
<1> HIDE DEF w
<1>3. 0 \in 0..MaxQueued - 1 /\ 1 \in 0..MaxQueued
  BY FetchConstants
<1>4. /\ Accounted(f', 0, Nothing) /\ f'.candidates = f.candidates /\ f'.queued = 1
      /\ f'.slot = [f.slot EXCEPT ![0] = w]
  BY <1>1, <1>2, <1>3, ReplacedIs DEF FetchInv
<1>5. DOMAIN f.slot = 0..MaxQueued - 1
  BY ZenonT(60) DEF FetchInv, Accounted, FetchState, Transfers
<1>6. f'.slot[0] = w /\ \A k \in 0..MaxQueued - 1 : k # 0 => f'.slot[k] = f.slot[k]
  BY <1>3, <1>4, <1>5, ZenonT(60)
<1>7. f.candidates = 0 /\ \A k \in 0..MaxQueued - 1 : ~f.slot[k].open /\ ~f.slot[k].stray
  BY <1>1 DEF FetchInv, Pulling, OpenAt
<1>8. /\ f'.candidates = 0 /\ f'.queued = 1 /\ f'.slot[0].man = Nothing
      /\ \A k \in 0..MaxQueued - 1 : (f'.slot[k].open <=> k = 0) /\ ~f'.slot[k].stray
  BY <1>2, <1>3, <1>4, <1>6, <1>7, ZenonT(60)
<1>9. Pulling(f')
  BY <1>8, ZenonT(60) DEF Pulling, OpenAt
<1> QED BY <1>4, <1>9, ZenonT(60) DEF FetchInv

LEMMA AdvanceStep == ASSUME FetchInv, NEW k \in 0..MaxQueued - 1, Advance(k) PROVE FetchInv'
PROOF
<1>1. PICK z \in {"RXHTTPHEADERS", "RXFILE"} : f' = [f EXCEPT !.slot[k].state = z]
  BY ZenonT(60) DEF Advance
<1> DEFINE w == [f.slot[k] EXCEPT !.state = z]
<1>2. f \in FetchState /\ f.slot \in Transfers /\ f.slot[k] \in Slot /\ DOMAIN f.slot = 0..MaxQueued - 1
  BY ZenonT(60) DEF FetchInv, Accounted, FetchState, Transfers
<1>3. w \in Slot /\ w.man = f.slot[k].man /\ w.open = f.slot[k].open /\ w.stray = f.slot[k].stray
  BY <1>2, ZenonT(60) DEF Slot
<1>4. f' = [f EXCEPT !.slot = [f.slot EXCEPT ![k] = w]]
  BY <1>1, <1>2, ZenonT(60) DEF FetchState
<1> HIDE DEF w
<1>5. [f.slot EXCEPT ![k] = w] \in Transfers
  BY <1>2, <1>3, ZenonT(60) DEF Transfers
<1>6. f' \in FetchState /\ f'.cand = f.cand /\ f'.candidates = f.candidates /\ f'.queued = f.queued
      /\ f'.held = f.held /\ f'.slot = [f.slot EXCEPT ![k] = w]
  BY <1>2, <1>4, <1>5, ZenonT(60) DEF FetchState
<1>7. f'.slot[k] = w /\ \A j \in 0..MaxQueued - 1 : j # k => f'.slot[j] = f.slot[j]
  BY <1>2, <1>6, ZenonT(60)
<1>8. \A j \in 0..MaxQueued - 1 : /\ f'.slot[j].man = f.slot[j].man /\ f'.slot[j].open = f.slot[j].open
                                  /\ f'.slot[j].stray = f.slot[j].stray
  BY <1>3, <1>7, ZenonT(60)
<1>9. Accounted(f', 0, Nothing)
  BY <1>6, <1>8, SameReferences, ZenonT(60) DEF FetchInv
<1>10. Pulling(f) => Pulling(f')
  <2>1. 0 \in 0..MaxQueued - 1 /\ 1 \in 0..MaxQueued - 1
    BY FetchConstants
  <2> QED BY <1>6, <1>8, <2>1, ZenonT(60) DEF Pulling, OpenAt
<1> QED BY <1>9, <1>10, ZenonT(60) DEF FetchInv

LEMMA AbandonStep ==
    ASSUME FetchInv, NEW k \in 0..MaxQueued - 1, f.slot[k].open, f' = FetchClosed(f, k)
    PROVE  FetchInv'
PROOF
<1>1. Closing(f, k, f')
  BY ClosedIs, ZenonT(60) DEF FetchInv
<1>2. f.slot \in Transfers
  BY ZenonT(60) DEF FetchInv, Accounted, FetchState
<1>3. Pulling(f) => Pulling(f')
  BY <1>1, <1>2, ClosedPull, ZenonT(60)
<1> QED BY <1>1, <1>3, ZenonT(60) DEF FetchInv, Closing

LEMMA ImportStep ==
    ASSUME FetchInv, NEW k \in 0..MaxQueued - 1, f.slot[k].open, NEW good, Imports(k, good)
    PROVE  FetchInv'
PROOF
<1>1. f' = FetchClosed(Forgotten(f, k), k)
  BY ZenonT(60) DEF Imports, Forgotten
<1> DEFINE r == Forgotten(f, k)
<1>2. /\ Accounted(r, 0, Nothing) /\ r.candidates = f.candidates /\ r.queued = f.queued
      /\ r.slot = [f.slot EXCEPT ![k] = [@ EXCEPT !.man = Nothing]]
  BY ForgottenIs DEF FetchInv
<1> HIDE DEF r
<1>3. Closing(r, k, f')
  BY <1>1, <1>2, ClosedIs, ZenonT(60) DEF r
<1>4. f.slot \in Transfers /\ f.slot[k] \in Slot /\ DOMAIN f.slot = 0..MaxQueued - 1
  BY ZenonT(60) DEF FetchInv, Accounted, FetchState, Transfers
<1>5. r.slot[k] = [f.slot[k] EXCEPT !.man = Nothing] /\ r.slot[k].stray = f.slot[k].stray
  <2>1. r.slot[k] = [f.slot[k] EXCEPT !.man = Nothing]
    BY <1>2, <1>4, ZenonT(60)
  <2>2. [f.slot[k] EXCEPT !.man = Nothing].stray = f.slot[k].stray
    BY <1>4, ZenonT(60) DEF Slot
  <2> QED BY <2>1, <2>2, ZenonT(60)
<1>6. f'.slot = [f.slot EXCEPT ![k] = [@ EXCEPT !.man = Nothing, !.open = f.slot[k].stray]]
  <2>1. [r.slot[k] EXCEPT !.man = Nothing, !.open = r.slot[k].stray]
          = [f.slot[k] EXCEPT !.man = Nothing, !.open = f.slot[k].stray]
    BY <1>4, <1>5, ZenonT(60) DEF Slot
  <2> DEFINE w == [f.slot[k] EXCEPT !.man = Nothing, !.open = f.slot[k].stray]
             v == [f.slot[k] EXCEPT !.man = Nothing]
  <2>2. f'.slot = [r.slot EXCEPT ![k] = w] /\ r.slot = [f.slot EXCEPT ![k] = v]
    BY <1>2, <1>3, <2>1, ZenonT(60) DEF Closing
  <2> HIDE DEF w, v
  <2>3. f'.slot = [f.slot EXCEPT ![k] = w]
    BY <1>4, <2>2, ZenonT(60) DEF Transfers
  <2> QED BY <2>3, ZenonT(60) DEF w
<1>7. Closing(f, k, f')
  BY <1>2, <1>3, <1>6, ZenonT(60) DEF Closing
<1>8. Pulling(f) => Pulling(f')
  BY <1>4, <1>7, ClosedPull, ZenonT(60)
<1> QED BY <1>3, <1>8, ZenonT(60) DEF FetchInv, Closing

LEMMA FollowStep ==
    ASSUME FetchInv, Direct \/ OneVersion, NEW k \in 0..MaxQueued - 1, f.slot[k].open,
           NEW m \in Manifest, NEW good \in BOOLEAN, NEW fault, Follows(k, m, good, fault)
    PROVE  FetchInv'
PROOF
<1>1. CASE Allocated(f) >= MaxManifests
  <2>1. f' = FetchClosed(f, k)
    BY <1>1, ZenonT(60) DEF Follows
  <2> QED BY <2>1, AbandonStep, ZenonT(60)
<1>2. CASE ~(Allocated(f) >= MaxManifests)
  <2> DEFINE a == [f EXCEPT !.held[m] = @ + 1]
             b == Suggested(a, m, good)
             c == Enqueued(b, db', fault)
  <2>1. f' = FetchClosed(c, k) /\ f.slot[k].man = Nothing
    BY <1>2, ZenonT(60) DEF Follows
  <2>2. /\ Accounted(a, 0, m) /\ a.candidates = f.candidates /\ a.slot = f.slot /\ a.queued = f.queued
    BY AllocatedIs DEF FetchInv
  <2>3. OneVersion \/ a.candidates = 0
    BY <2>2, ZenonT(60) DEF FetchInv, Pulling
  <2> HIDE DEF a
  <2>4. /\ Accounted(b, 0, Nothing) /\ b.slot = f.slot /\ b.queued = f.queued
        /\ b.candidates \in {f.candidates, f.candidates + 1}
    BY <2>2, <2>3, SuggestedIs
  <2> HIDE DEF b
  <2>5. /\ Accounted(c, 0, Nothing)
        /\ b.candidates = 0 => c.candidates = 0 /\ c.slot = b.slot /\ c.queued = b.queued
        /\ b.candidates = 1 /\ b.queued < MaxQueued =>
             /\ c.candidates = 0
             /\ \E u : Started(b, 0, u) /\ c.slot = u.slot /\ c.queued = u.queued
    BY <2>4, EnqueuedIs
  <2> HIDE DEF c
  <2>6. Closing(c, k, f')
    BY <2>1, <2>5, ClosedIs, ZenonT(60)
  <2>7. ASSUME Pulling(f) PROVE Pulling(f')
    <3>1. k = 0 /\ f.candidates = 0 /\ f.queued = 1 /\ f.queued < MaxQueued
      BY <2>1, <2>7, FetchConstants DEF Pulling, OpenAt
    <3>2. f.slot \in Transfers /\ c.slot \in Transfers
      BY <2>5, ZenonT(60) DEF FetchInv, Accounted, FetchState
    <3>3. c.candidates = 0
      BY <2>4, <2>5, <3>1
    <3>4. \/ c.slot = f.slot /\ c.queued = f.queued
          \/ \E r, v : /\ Started(r, 0, v) /\ r.slot = f.slot /\ r.queued = f.queued
                       /\ c.slot = v.slot /\ c.queued = v.queued
      BY <2>4, <2>5, <3>1
    <3> QED BY <2>6, <2>7, <3>1, <3>2, <3>3, <3>4, FollowedPull, ZenonT(60)
  <2> QED BY <2>6, <2>7, ZenonT(60) DEF FetchInv, Closing
<1> QED BY <1>1, <1>2, ZenonT(60)

LEMMA FetchStep ==
    ASSUME FetchInv, Direct \/ OneVersion, [FetchNext]_fetchVars
    PROVE  FetchInv'
PROOF
<1>1. CASE UNCHANGED fetchVars
  <2>1. f' = f
    BY <1>1, ZenonT(60) DEF fetchVars
  <2> QED BY <2>1, ZenonT(60) DEF FetchInv
<1>2. ASSUME NEW m \in Manifest, NEW good \in BOOLEAN, Advertised(m, good) PROVE FetchInv'
  <2> DEFINE a == [f EXCEPT !.held[m] = @ + 1]
  <2>1. ~Direct /\ f' = Suggested(a, m, good)
    BY <1>2, ZenonT(60) DEF Advertised
  <2>2. Accounted(a, 0, m)
    BY AllocatedIs DEF FetchInv
  <2> HIDE DEF a
  <2>3. Accounted(f', 0, Nothing)
    BY <2>1, <2>2, SuggestedIs, ZenonT(60)
  <2> QED BY <2>1, <2>3, ZenonT(60) DEF FetchInv
<1>3. ASSUME NEW fault, EnqueueSuggestions(fault) PROVE FetchInv'
  <2>1. ~Direct /\ f' = Enqueued(f, db, fault)
    BY <1>3, ZenonT(60) DEF EnqueueSuggestions
  <2>2. Accounted(f', 0, Nothing)
    BY <2>1, EnqueuedIs, ZenonT(60) DEF FetchInv
  <2> QED BY <2>1, <2>2, ZenonT(60) DEF FetchInv
<1>4. ASSUME NEW k \in 0..MaxQueued - 1, Abandon(k) PROVE FetchInv'
  BY <1>4, AbandonStep, ZenonT(60) DEF Abandon, Polled
<1>5. ASSUME NEW k \in 0..MaxQueued - 1, Complete(k) PROVE FetchInv'
  <2>1. f.slot[k].open
    BY <1>5, ZenonT(60) DEF Complete, Polled
  <2>2. PICK good \in BOOLEAN : \/ Imports(k, good)
                                \/ \E m \in Manifest, fault \in Fault \cup {Nothing} : Follows(k, m, good, fault)
    BY <1>5, ZenonT(60) DEF Complete
  <2>3. CASE Imports(k, good)
    BY <2>1, <2>3, ImportStep, ZenonT(60)
  <2>4. ASSUME NEW m \in Manifest, NEW fault, Follows(k, m, good, fault) PROVE FetchInv'
    BY <2>1, <2>4, FollowStep, ZenonT(60)
  <2> QED BY <2>2, <2>3, <2>4, ZenonT(60)
<1> QED BY <1>1, <1>2, <1>3, <1>4, <1>5, RequestStep, AdvanceStep, ZenonT(60) DEF FetchNext

\* No candidate and no transfer has a manifest that was freed, whatever fails when a
\* transfer is started (rhizome_fetch.c).  It is so of every pull, and of a server
\* to which no second version of a bundle is advertised: there a candidate is
\* replaced, and rhizome_position_candidate() can move it behind the list.
THEOREM HeldWhileReferred == Direct \/ OneVersion => (FetchSpec => []NoDanglingManifest)
PROOF
<1> SUFFICES ASSUME Direct \/ OneVersion PROVE FetchSpec => []NoDanglingManifest
  BY ZenonT(60)
<1>1. FetchInv /\ [FetchNext]_fetchVars => FetchInv'
  BY FetchStep, ZenonT(60)
<1>2. FetchInv => NoDanglingManifest
  <2> SUFFICES ASSUME FetchInv, NEW m \in Manifest PROVE f.held[m] >= References(m)
    BY ZenonT(60) DEF NoDanglingManifest
  <2>1. References(m) = Cardinality(Listed(f, 0, m)) + Cardinality(Fetched(f, m))
    BY ZenonT(60) DEF References, Listed, Fetched
  <2>2. One(m, Nothing) = 0
    BY FetchConstants, ZenonT(60) DEF One
  <2>3. f.held[m] >= Cardinality(Listed(f, 0, m)) + Cardinality(Fetched(f, m)) + One(m, Nothing)
    BY ZenonT(60) DEF FetchInv, Accounted
  <2>4. Cardinality(Listed(f, 0, m)) \in Nat /\ Cardinality(Fetched(f, m)) \in Nat
    BY PlacesAreFinite, ZenonT(60) DEF FetchInv, Accounted
  <2> QED BY <2>1, <2>2, <2>3, <2>4
<1> QED BY <1>1, <1>2, FetchInitially, PTL DEF FetchSpec

\* In a pull the count of transfers is the number of open connections, so that
\* "while(rhizome_file_fetch_queue_count) fd_poll()" ends with the last transfer.
THEOREM PullCountsConnections == Direct => (FetchSpec => []CountsOpenConnections)
PROOF
<1> SUFFICES ASSUME Direct PROVE FetchSpec => []CountsOpenConnections
  BY ZenonT(60)
<1>1. FetchInv /\ [FetchNext]_fetchVars => FetchInv'
  BY FetchStep, ZenonT(60)
<1>2. FetchInv => CountsOpenConnections
  <2> SUFFICES ASSUME FetchInv PROVE CountsOpenConnections
    BY ZenonT(60)
  <2> DEFINE O == {k \in 0..MaxQueued - 1 : f.slot[k].open}
  <2>1. Pulling(f)
    BY ZenonT(60) DEF FetchInv
  <2>2. 0 \in 0..MaxQueued - 1 /\ 1 \in 0..MaxQueued - 1 /\ ~(-1 \in 0..MaxQueued - 1)
    BY FetchConstants
  <2>3. (f.queued = 0 /\ O = {}) \/ (f.queued = 1 /\ (O = {0} \/ O = {1}))
    BY <2>1, <2>2 DEF Pulling, OpenAt
  <2> HIDE DEF O
  <2>4. f.queued = Cardinality(O)
    BY <2>3, FS_EmptySet, FS_Singleton, ZenonT(60)
  <2> QED BY <2>4, ZenonT(60) DEF CountsOpenConnections, O
<1> QED BY <1>1, <1>2, FetchInitially, PTL DEF FetchSpec
=============================================================================

--------------------------- MODULE FdQueueProofs ----------------------------
(***************************************************************************)
(* The event loop, for any number of alarms and descriptors and any size   *)
(* of the table.                                                           *)
(*                                                                         *)
(* The lists are proved to be lists by naming what they list: there are    *)
(* sequences of alarms, one for each head, of which the links and the      *)
(* heads are those of two lists in order of time (Good), and every         *)
(* operation inserts an alarm into such a sequence or takes one out.  The  *)
(* loops of the code that walk a list (Place, Elapsed, Members) end        *)
(* because a list has no alarm twice, and so no more than there are.       *)
(*                                                                         *)
(* The client of the directory service, whose alarm is one of them: it is  *)
(* scheduled whenever the service is reached, and leaves the others alone. *)
(***************************************************************************)
EXTENDS DirectoryClient, FiniteSetTheorems, LoopTheorems

\* What a leaf that names no prover tries, one after the other.
USE SMTT(60), Z3T(60), ZenonT(20), SMTT(90), Z3T(90)

-----------------------------------------------------------------------------
(* The lists                                                                *)

MaybeAlarm == Alarm \cup {None}
Entry == [next : MaybeAlarm, prev : MaybeAlarm, alarm : Time, deadline : Time]
Queue == [alarms : MaybeAlarm, deadlines : MaybeAlarm, ent : [Alarm -> Entry]]
ListName == {"alarms", "deadlines"}

\* The alarms from a head on are those of s, of which there are n: linked both ways, and in
\* order of time.
Chain(ent, head, s, n) ==
    /\ n \in Nat /\ s \in [1..n -> Alarm]
    /\ \A j, k \in 1..n : s[j] = s[k] => j = k
    /\ head = IF n = 0 THEN None ELSE s[1]
    /\ \A k \in 1..n : ent[s[k]].prev = IF k = 1 THEN None ELSE s[k - 1]
    /\ \A k \in 1..n : ent[s[k]].next = IF k = n THEN None ELSE s[k + 1]
    /\ \A k \in 1..n : k # n => ent[s[k]].alarm <= ent[s[k + 1]].alarm

\* The node behind which a walk has come, and the one it has reached, at place j of s.
At(s, n, j) == [last |-> IF j = 1 THEN None ELSE s[j - 1], node |-> IF j = n + 1 THEN None ELSE s[j]]

\* A list has no more entries than there are alarms.
LEMMA ChainLength ==
    ASSUME NEW ent, NEW head, NEW s, NEW n, Chain(ent, head, s, n)
    PROVE  n <= Cardinality(Alarm) /\ Cardinality(Alarm) \in Nat
PROOF
<1>1. s \in Injection(1..n, Alarm) /\ n \in Nat
  BY ZenonT(60) DEF Chain, Injection, IsInjective
<1>2. IsFiniteSet(Alarm)
  BY FdAssumption, ZenonT(60)
<1>3. Cardinality(1..n) <= Cardinality(Alarm)
  BY <1>1, <1>2, FS_Injection, ZenonT(60) DEF ExistsInjection
<1>4. Cardinality(1..n) = n
  BY <1>1, FS_Interval
<1> QED BY <1>2, <1>3, <1>4, FS_CardinalityType, ZenonT(60)

\* Where Place() ends: behind what is not later, before what is.
LEMMA PlaceIs ==
    ASSUME NEW p, p.ent \in [Alarm -> Entry], NEW head, NEW s, NEW n, Chain(p.ent, head, s, n), NEW at \in Time
    PROVE  \E j \in 1..n + 1 :
             /\ Place(p, head, at) = At(s, n, j)
             /\ j # 1 => p.ent[s[j - 1]].alarm <= at
             /\ j # n + 1 => p.ent[s[j]].alarm > at
PROOF
<1> DEFINE N == Cardinality(Alarm)
           V == [last : MaybeAlarm, node : MaybeAlarm]
           r == [last |-> None, node |-> head]
           Turn(x) == IF x.node = None \/ p.ent[x.node].alarm > at THEN x
                      ELSE [last |-> x.node, node |-> p.ent[x.node].next]
           G == [x \in V |-> Turn(x)]
           walk == CHOOSE walk : walk = [k \in 0..Cardinality(Alarm) |->
                     IF k = 0 THEN [last |-> None, node |-> head]
                     ELSE LET x == walk[k - 1] IN
                          IF x.node = None \/ p.ent[x.node].alarm > at THEN x
                          ELSE [last |-> x.node, node |-> p.ent[x.node].next]]
<1>1. Place(p, head, at) = walk[N]
  BY ZenonT(60) DEF Place
<1>2. N \in Nat /\ n <= N /\ n \in Nat
  BY ChainLength, ZenonT(60) DEF Chain
<1>3. r \in V
  BY <1>2 DEF Chain, MaybeAlarm
<1>4. \A x \in V : Turn(x) \in V
  <2> SUFFICES ASSUME NEW x \in V PROVE Turn(x) \in V
    BY ZenonT(60)
  <2>1. x.node \in Alarm => p.ent[x.node] \in Entry
    BY ZenonT(60)
  <2>2. x.node \in Alarm => p.ent[x.node].next \in MaybeAlarm
    BY <2>1, ZenonT(60) DEF Entry
  <2> QED BY <2>2, ZenonT(60) DEF MaybeAlarm
<1>5. G \in [V -> V] /\ \A x \in V : G[x] = Turn(x)
  BY <1>4, ZenonT(60)
<1> HIDE DEF G, V, r
<1>6. PICK f : Iterates(f, V, r, G, N)
  <2> HIDE DEF N
  <2> QED BY ONLY <1>2, <1>3, <1>5, Iteration, ZenonT(60)
<1>7. \A k \in 1..N : k - 1 \in 0..N /\ f[k - 1] \in V
  BY <1>2, <1>6 DEF Iterates
<1>8. f = [k \in 0..N |-> IF k = 0 THEN r ELSE Turn(f[k - 1])]
  <2> HIDE DEF Turn
  <2> QED BY <1>2, <1>5, <1>6, <1>7 DEF Iterates
<1>9. walk = [k \in 0..N |-> IF k = 0 THEN r ELSE Turn(walk[k - 1])]
  BY <1>8, ZenonT(60) DEF r
<1> HIDE DEF walk
<1> DEFINE On(x, k) == \E j \in 1..n + 1 :
                         /\ x = At(s, n, j)
                         /\ j # 1 => p.ent[s[j - 1]].alarm <= at
                         /\ j = k + 1 \/ j = n + 1 \/ p.ent[s[j]].alarm > at
           S == {k \in Nat : k <= N => On(walk[k], k)}
<1>10. On(r, 0)
  <2>1. r = At(s, n, 1) /\ 1 \in 1..n + 1
    BY <1>2 DEF r, At, Chain
  <2> QED BY <2>1
<1>11. ASSUME NEW x, NEW k \in Nat, On(x, k) PROVE On(Turn(x), k + 1)
  <2>1. PICK j \in 1..n + 1 : /\ x = At(s, n, j)
                              /\ j # 1 => p.ent[s[j - 1]].alarm <= at
                              /\ j = k + 1 \/ j = n + 1 \/ p.ent[s[j]].alarm > at
    BY <1>11, ZenonT(60)
  <2>2. x.node = IF j = n + 1 THEN None ELSE s[j]
    BY <2>1, ZenonT(60) DEF At
  <2>3. \A m \in 1..n : s[m] \in Alarm /\ s[m] # None
    BY FdAssumption DEF Chain
  <2>4. CASE j = n + 1 \/ p.ent[s[j]].alarm > at
    <3>1. Turn(x) = x
      BY <2>2, <2>4, ZenonT(60)
    <3> HIDE DEF Turn
    <3> QED BY <2>1, <2>4, <3>1, ZenonT(60)
  <2>5. CASE j # n + 1 /\ ~(p.ent[s[j]].alarm > at)
    <3>1. j \in 1..n /\ j = k + 1 /\ j + 1 \in 1..n + 1 /\ (j + 1) - 1 = j /\ j + 1 # 1
      BY <1>2, <2>1, <2>5
    <3>2. x.node = s[j] /\ x.node # None
      BY <2>2, <2>3, <2>5, <3>1, ZenonT(60)
    <3>3. Turn(x) = [last |-> s[j], node |-> p.ent[s[j]].next]
      BY <2>5, <3>2, ZenonT(60)
    <3>4. p.ent[s[j]].next = IF j = n THEN None ELSE s[j + 1]
      BY <3>1, ZenonT(60) DEF Chain
    <3>5. j + 1 = n + 1 <=> j = n
      BY <1>2
    <3>6. Turn(x) = At(s, n, j + 1)
      BY <3>1, <3>3, <3>4, <3>5, ZenonT(60) DEF At
    <3>7. p.ent[s[j]] \in Entry /\ at \in Nat
      BY <2>3, <3>1, FdAssumption DEF Time
    <3>8. p.ent[s[j]].alarm <= at
      BY <2>5, <3>7, FdAssumption DEF Entry, Time
    <3>9. j + 1 = (k + 1) + 1
      BY <3>1, ZenonT(60)
    <3> HIDE DEF Turn
    <3> QED BY <3>1, <3>6, <3>8, <3>9, ZenonT(60)
  <2> QED BY <2>4, <2>5, ZenonT(60)
<1> HIDE DEF On, Turn
<1>12. 0 \in S
  BY <1>2, <1>9, <1>10
<1>13. ASSUME NEW k \in Nat, k \in S PROVE k + 1 \in S
  <2>1. k + 1 <= N => k + 1 \in 0..N /\ (k + 1) - 1 = k /\ k <= N /\ k + 1 # 0
    BY <1>2
  <2> QED BY <1>9, <1>11, <1>13, <2>1
<1> HIDE DEF S
<1>14. N \in S
  BY <1>2, <1>12, <1>13, NatInd, ZenonT(60)
<1>15. PICK j \in 1..n + 1 : /\ walk[N] = At(s, n, j)
                             /\ j # 1 => p.ent[s[j - 1]].alarm <= at
                             /\ j = N + 1 \/ j = n + 1 \/ p.ent[s[j]].alarm > at
  <2>1. On(walk[N], N)
    BY <1>2, <1>14 DEF S
  <2> QED BY <2>1, ZenonT(60) DEF On
<1>16. j # n + 1 => p.ent[s[j]].alarm > at
  BY <1>2, <1>15
<1> QED BY <1>1, <1>15, <1>16, ZenonT(60)

\* A walk from the head meets the alarms of the list, and no other.
LEMMA MembersAre ==
    ASSUME q \in Queue, NEW head, NEW s, NEW n, Chain(q.ent, head, s, n)
    PROVE  Members(head) = {s[k] : k \in 1..n}
PROOF
<1> DEFINE N == Cardinality(Alarm)
           V == SUBSET Alarm
           r == {head} \ {None}
           Turn(M) == M \cup ({q.ent[t].next : t \in M} \ {None})
           G == [M \in V |-> Turn(M)]
           met == CHOOSE met : met = [k \in 0..Cardinality(Alarm) |->
                    IF k = 0 THEN {head} \ {None}
                    ELSE met[k - 1] \cup ({q.ent[t].next : t \in met[k - 1]} \ {None})]
<1>1. Members(head) = met[N]
  BY ZenonT(60) DEF Members
<1>2. N \in Nat /\ n <= N /\ n \in Nat
  BY ChainLength, ZenonT(60) DEF Chain
<1>3. \A k \in 1..n : s[k] \in Alarm /\ s[k] # None
  BY FdAssumption DEF Chain
<1>4. r \in V
  BY <1>2, <1>3 DEF Chain
<1>5. \A M \in V : Turn(M) \in V
  <2> SUFFICES ASSUME NEW M \in V, NEW t \in M PROVE q.ent[t].next \in Alarm \cup {None}
    BY ZenonT(60)
  <2>1. q.ent[t] \in Entry
    BY ZenonT(60) DEF Queue
  <2> QED BY <2>1, ZenonT(60) DEF Entry, MaybeAlarm
<1>6. G \in [V -> V] /\ \A M \in V : G[M] = Turn(M)
  BY <1>5, ZenonT(60)
<1> HIDE DEF G, V, r
<1>7. PICK f : Iterates(f, V, r, G, N)
  <2> HIDE DEF N
  <2> QED BY ONLY <1>2, <1>4, <1>6, Iteration, ZenonT(60)
<1>8. \A k \in 1..N : k - 1 \in 0..N /\ f[k - 1] \in V
  BY <1>2, <1>7 DEF Iterates
<1>9. f = [k \in 0..N |-> IF k = 0 THEN r ELSE Turn(f[k - 1])]
  <2> HIDE DEF Turn
  <2> QED BY <1>2, <1>6, <1>7, <1>8 DEF Iterates
<1>10. met = [k \in 0..N |-> IF k = 0 THEN r ELSE Turn(met[k - 1])]
  BY <1>9, ZenonT(60) DEF r
<1> HIDE DEF met
<1> DEFINE First(k) == {s[j] : j \in {m \in 1..n : m <= k + 1}}
           S == {k \in Nat : k <= N => met[k] = First(k)}
<1>11. r = First(0)
  <2>1. CASE n = 0
    BY <2>1 DEF r, Chain
  <2>2. CASE n # 0
    <3>1. {m \in 1..n : m <= 0 + 1} = {1}
      BY <1>2, <2>2
    <3>2. head = s[1] /\ s[1] # None
      BY <1>2, <1>3, <2>2 DEF Chain
    <3> QED BY <3>1, <3>2, ZenonT(60) DEF r
  <2> QED BY <2>1, <2>2, ZenonT(60)
<1>12. ASSUME NEW k \in Nat PROVE Turn(First(k)) = First(k + 1)
  <2>1. ASSUME NEW t \in Turn(First(k)) PROVE t \in First(k + 1)
    <3>1. CASE t \in First(k)
      <4>1. PICK m \in 1..n : m <= k + 1 /\ t = s[m]
        BY <3>1, ZenonT(60)
      <4> QED BY <1>2, <4>1
    <3>2. CASE \E u \in First(k) : t = q.ent[u].next /\ t # None
      <4>1. PICK m \in 1..n : m <= k + 1 /\ t = q.ent[s[m]].next /\ t # None
        BY <3>2, ZenonT(60)
      <4>2. m # n /\ t = s[m + 1]
        BY <4>1, ZenonT(60) DEF Chain
      <4>3. m + 1 \in 1..n /\ m + 1 <= (k + 1) + 1
        BY <1>2, <4>1, <4>2
      <4> QED BY <4>2, <4>3, ZenonT(60)
    <3> QED BY <2>1, <3>1, <3>2, ZenonT(60)
  <2>2. ASSUME NEW t \in First(k + 1) PROVE t \in Turn(First(k))
    <3>1. PICK m \in 1..n : m <= (k + 1) + 1 /\ t = s[m]
      BY <2>2, ZenonT(60)
    <3>2. CASE m <= k + 1
      BY <3>1, <3>2, ZenonT(60)
    <3>3. CASE ~(m <= k + 1)
      <4>1. m - 1 \in 1..n /\ m - 1 <= k + 1 /\ m - 1 # n /\ (m - 1) + 1 = m
        BY <1>2, <3>1, <3>3
      <4>2. q.ent[s[m - 1]].next = t
        BY <3>1, <4>1, ZenonT(60) DEF Chain
      <4>3. s[m - 1] \in First(k) /\ t # None
        BY <1>3, <3>1, <4>1, ZenonT(60)
      <4> HIDE DEF First
      <4> QED BY <4>2, <4>3, ZenonT(60)
    <3> QED BY <3>2, <3>3, ZenonT(60)
  <2> HIDE DEF Turn, First
  <2> QED BY <2>1, <2>2, ZenonT(60)
<1> HIDE DEF First, Turn
<1>13. 0 \in S
  BY <1>2, <1>10, <1>11
<1>14. ASSUME NEW k \in Nat, k \in S PROVE k + 1 \in S
  <2>1. k + 1 <= N => k + 1 \in 0..N /\ (k + 1) - 1 = k /\ k <= N /\ k + 1 # 0
    BY <1>2
  <2>2. k + 1 <= N => met[k + 1] = Turn(met[k])
    BY <1>10, <2>1, ZenonT(60)
  <2>3. k + 1 <= N => met[k + 1] = First(k + 1)
    BY <1>12, <1>14, <2>1, <2>2, ZenonT(60)
  <2>4. k + 1 \in Nat
    OBVIOUS
  <2> QED BY <2>3, <2>4, ZenonT(60)
<1> HIDE DEF S
<1>15. N \in S
  BY <1>2, <1>13, <1>14, NatInd, ZenonT(60)
<1>16. met[N] = First(N)
  BY <1>2, <1>15 DEF S
<1>17. {m \in 1..n : m <= N + 1} = 1..n
  BY <1>2
<1> QED BY <1>1, <1>16, <1>17, ZenonT(60) DEF First

\* The two lists are S["alarms"] and S["deadlines"], of N["alarms"] and N["deadlines"] alarms.
InList(S, N, l, t) == \E k \in 1..N[l] : S[l][k] = t
InNone(S, N, t) == \A l \in ListName : ~InList(S, N, l, t)

Good(p, S, N) ==
    /\ p \in Queue
    /\ \A l \in ListName : Chain(p.ent, p[l], S[l], N[l])
    /\ \A t \in Alarm : ~(InList(S, N, "alarms", t) /\ InList(S, N, "deadlines", t))
    /\ \A t \in Alarm : InNone(S, N, t) => p.ent[t].prev = None /\ p.ent[t].next = None

Lists(p) == \E S, N : Good(p, S, N)

\* The alarms in the lists are those of D.
Holds(p, D) == \E S, N : Good(p, S, N) /\ \A t \in Alarm : t \in D <=> ~InNone(S, N, t)

\* Walking a list that is the chain of a sequence goes through that sequence and ends.
LEMMA ListsAreWellFormed == Lists(q) => ListsWellFormed
PROOF
<1> SUFFICES ASSUME NEW S, NEW N, Good(q, S, N) PROVE ListsWellFormed
  BY ZenonT(60) DEF Lists
<1>1. /\ Chain(q.ent, q.alarms, S["alarms"], N["alarms"])
      /\ Chain(q.ent, q.deadlines, S["deadlines"], N["deadlines"])
      /\ q \in Queue
  BY ZenonT(60) DEF Good, ListName
<1>2. /\ Members(q.alarms) = {S["alarms"][k] : k \in 1..N["alarms"]}
      /\ Members(q.deadlines) = {S["deadlines"][k] : k \in 1..N["deadlines"]}
  BY <1>1, MembersAre
<1>3. \A t : (t \in Members(q.alarms) <=> InList(S, N, "alarms", t))
          /\ (t \in Members(q.deadlines) <=> InList(S, N, "deadlines", t))
  BY <1>2, ZenonT(60) DEF InList
<1>4. ASSUME NEW head, NEW s, NEW n, Chain(q.ent, head, s, n), Members(head) = {s[k] : k \in 1..n}
      PROVE  /\ \A t \in Members(head) : t \in Alarm
             /\ \A t \in Members(head) : t # head => q.ent[t].prev # None
             /\ head # None => /\ q.ent[head].prev = None
                               /\ head \in Members(head)
                               /\ \E t \in Members(head) : q.ent[t].next = None
             /\ \A t \in Members(head) : LET next == q.ent[t].next IN
                  next # None => q.ent[next].prev = t /\ q.ent[t].alarm <= q.ent[next].alarm
  <2>1. n \in Nat /\ \A k \in 1..n : s[k] \in Alarm /\ s[k] # None
    BY <1>4, FdAssumption DEF Chain
  <2>2. \A t \in Members(head) : t \in Alarm
    BY <1>4, <2>1, ZenonT(60)
  <2>3. ASSUME NEW t \in Members(head), t # head PROVE q.ent[t].prev # None
    <3>1. PICK k \in 1..n : t = s[k]
      BY <1>4, ZenonT(60)
    <3>2. k # 1 /\ k - 1 \in 1..n
      BY <1>4, <2>1, <2>3, <3>1 DEF Chain
    <3> QED BY <1>4, <2>1, <3>1, <3>2 DEF Chain
  <2>4. ASSUME head # None
        PROVE  /\ q.ent[head].prev = None /\ head \in Members(head)
               /\ \E t \in Members(head) : q.ent[t].next = None
    <3>1. n # 0 /\ head = s[1] /\ 1 \in 1..n /\ n \in 1..n
      BY <1>4, <2>1, <2>4 DEF Chain
    <3>2. q.ent[s[1]].prev = None /\ q.ent[s[n]].next = None
      BY <1>4, <3>1, ZenonT(60) DEF Chain
    <3> QED BY <1>4, <3>1, <3>2, ZenonT(60)
  <2>5. ASSUME NEW t \in Members(head), q.ent[t].next # None
        PROVE  q.ent[q.ent[t].next].prev = t /\ q.ent[t].alarm <= q.ent[q.ent[t].next].alarm
    <3>1. PICK k \in 1..n : t = s[k]
      BY <1>4, ZenonT(60)
    <3>2. k # n /\ q.ent[t].next = s[k + 1] /\ k + 1 \in 1..n /\ k + 1 # 1 /\ (k + 1) - 1 = k
      BY <1>4, <2>1, <2>5, <3>1 DEF Chain
    <3>3. q.ent[s[k + 1]].prev = s[k]
      BY <1>4, <3>2, ZenonT(60) DEF Chain
    <3>4. q.ent[s[k]].alarm <= q.ent[s[k + 1]].alarm
      BY <1>4, <3>2, ZenonT(60) DEF Chain
    <3> QED BY <3>1, <3>2, <3>3, <3>4, ZenonT(60)
  <2> QED BY <2>2, <2>3, <2>4, <2>5, ZenonT(60)
<1>5. Members(q.alarms) \cap Members(q.deadlines) = {}
  <2>1. \A t \in Members(q.alarms) : t \in Alarm
    BY <1>1, <1>2, <1>4, ZenonT(60)
  <2> QED BY <1>3, <2>1, ZenonT(60) DEF Good
<1>6. ASSUME NEW head \in {q.alarms, q.deadlines}
      PROVE  /\ \A t \in Members(head) : t \in Alarm
             /\ \A t \in Members(head) : t # head => q.ent[t].prev # None
             /\ head # None => /\ q.ent[head].prev = None
                               /\ head \in Members(head)
                               /\ \E t \in Members(head) : q.ent[t].next = None
             /\ \A t \in Members(head) : LET next == q.ent[t].next IN
                  next # None => q.ent[next].prev = t /\ q.ent[t].alarm <= q.ent[next].alarm
  <2>1. CASE head = q.alarms
    BY <1>1, <1>2, <1>4, <2>1
  <2>2. CASE head = q.deadlines
    BY <1>1, <1>2, <1>4, <2>2, ZenonT(60)
  <2> QED BY <2>1, <2>2, ZenonT(60)
<1>7. ASSUME NEW t \in Alarm PROVE Linked(t) <=> t \in Members(q.alarms) \cup Members(q.deadlines)
  <2>1. t \notin Members(q.alarms) \cup Members(q.deadlines) => InNone(S, N, t)
    BY <1>3, ZenonT(60) DEF InNone, ListName
  <2>2. t \notin Members(q.alarms) \cup Members(q.deadlines) => q.ent[t].prev = None
    BY <2>1, ZenonT(60) DEF Good
  <2>3. t # None
    BY FdAssumption, ZenonT(60)
  <2>4. t \in {q.alarms, q.deadlines} => t \in Members(q.alarms) \cup Members(q.deadlines)
    BY <1>6, <2>3, ZenonT(60)
  <2>5. t \in Members(q.alarms) \cup Members(q.deadlines) => Linked(t)
    BY <1>6, ZenonT(60) DEF Linked
  <2> QED BY <2>2, <2>4, <2>5, ZenonT(60) DEF Linked
<1> QED BY <1>5, <1>6, <1>7, ZenonT(60) DEF ListsWellFormed

\* A list depends on the links of its own entries alone.
LEMMA ChainFrame ==
    ASSUME NEW ent, NEW head, NEW s, NEW n, Chain(ent, head, s, n), NEW e,
           \A k \in 1..n : /\ e[s[k]].prev = ent[s[k]].prev /\ e[s[k]].next = ent[s[k]].next
                           /\ e[s[k]].alarm = ent[s[k]].alarm
    PROVE  Chain(e, head, s, n)
PROOF
<1>1. \A k \in 1..n : k # n => k + 1 \in 1..n
  BY DEF Chain
<1> QED BY <1>1 DEF Chain

\* The list with t at place j.
Inserted(s, n, j, t) == [k \in 1..n + 1 |-> IF k < j THEN s[k] ELSE IF k = j THEN t ELSE s[k - 1]]

\* The links are those of a list into which t has come at place j.
LinkedIn(e, ent, s, n, j, t) ==
    /\ \A u \in Alarm : e[u].alarm = ent[u].alarm
    /\ \A u \in Alarm : e[u].next = IF u = t THEN At(s, n, j).node
                                    ELSE IF u = At(s, n, j).last THEN t ELSE ent[u].next
    /\ \A u \in Alarm : e[u].prev = IF u = t THEN At(s, n, j).last
                                    ELSE IF u = At(s, n, j).node THEN t ELSE ent[u].prev

\* Linking an entry in between two entries of a list, by their alarm times.
LEMMA ChainInsert ==
    ASSUME NEW ent, NEW head, NEW s, NEW n, Chain(ent, head, s, n),
           NEW j \in 1..n + 1, NEW t \in Alarm, \A k \in 1..n : s[k] # t,
           NEW e, LinkedIn(e, ent, s, n, j, t),
           j # 1 => ent[s[j - 1]].alarm <= ent[t].alarm,
           j # n + 1 => ent[t].alarm <= ent[s[j]].alarm
    PROVE  Chain(e, IF j = 1 THEN t ELSE head, Inserted(s, n, j, t), n + 1)
PROOF
<1> DEFINE c == Inserted(s, n, j, t)
<1>1. n \in Nat /\ \A k \in 1..n : s[k] \in Alarm /\ s[k] # None
  BY FdAssumption DEF Chain
<1>2. /\ At(s, n, j).last = IF j = 1 THEN None ELSE s[j - 1]
      /\ At(s, n, j).node = IF j = n + 1 THEN None ELSE s[j]
  BY ZenonT(60) DEF At
<1>3. \A k \in 1..n + 1 : c[k] = IF k < j THEN s[k] ELSE IF k = j THEN t ELSE s[k - 1]
  BY ZenonT(60) DEF Inserted
<1>4. /\ \A k \in 1..n + 1 : k < j => k \in 1..n /\ c[k] = s[k]
      /\ \A k \in 1..n + 1 : k > j => k - 1 \in 1..n /\ c[k] = s[k - 1]
      /\ c[j] = t
  BY <1>1, <1>3
<1>5. c \in [1..n + 1 -> Alarm]
  BY <1>1 DEF Inserted
<1> HIDE DEF c
<1>6. ASSUME NEW k \in 1..n + 1, NEW m \in 1..n + 1, c[k] = c[m] PROVE k = m
  <2>1. \A x \in 1..n, y \in 1..n : s[x] = s[y] => x = y
    BY ZenonT(60) DEF Chain
  <2>2. CASE k = j
    BY <1>1, <1>4, <1>6, <2>2
  <2>3. CASE m = j
    BY <1>1, <1>4, <1>6, <2>3
  <2>4. CASE k < j /\ m < j
    BY <1>1, <1>4, <1>6, <2>1, <2>4
  <2>5. CASE k > j /\ m > j
    <3>1. k - 1 = m - 1
      BY <1>4, <1>6, <2>1, <2>5
    <3> QED BY <3>1
  <2>6. CASE k < j /\ m > j
    <3>1. k = m - 1
      BY <1>4, <1>6, <2>1, <2>6
    <3> QED BY <2>6, <3>1
  <2>7. CASE k > j /\ m < j
    <3>1. k - 1 = m
      BY <1>4, <1>6, <2>1, <2>7
    <3> QED BY <2>7, <3>1
  <2> QED BY <1>1, <2>2, <2>3, <2>4, <2>5, <2>6, <2>7
<1>7. (IF j = 1 THEN t ELSE head) = c[1]
  <2>1. 1 \in 1..n + 1
    BY <1>1
  <2>2. j # 1 => 1 < j /\ n # 0
    BY <1>1
  <2> QED BY <1>4, <2>1, <2>2, ZenonT(60) DEF Chain
<1>8. ASSUME NEW k \in 1..n + 1 PROVE e[c[k]].prev = IF k = 1 THEN None ELSE c[k - 1]
  <2>1. \A x \in 1..n, y \in 1..n : s[x] = s[y] => x = y
    BY ZenonT(60) DEF Chain
  <2>2. \A x \in 1..n : e[s[x]].prev = IF s[x] = At(s, n, j).node THEN t
                                        ELSE IF x = 1 THEN None ELSE s[x - 1]
    BY <1>1, ZenonT(60) DEF LinkedIn, Chain
  <2>3. CASE k = j
    <3>1. e[t].prev = IF j = 1 THEN None ELSE s[j - 1]
      BY <1>2, ZenonT(60) DEF LinkedIn
    <3>2. j # 1 => j - 1 \in 1..n + 1 /\ j - 1 < j
      BY <1>1
    <3> QED BY <1>4, <2>3, <3>1, <3>2, ZenonT(60)
  <2>4. CASE k < j
    <3>1. c[k] = s[k] /\ k \in 1..n /\ s[k] # At(s, n, j).node
      BY <1>1, <1>2, <1>4, <2>1, <2>4
    <3>2. k # 1 => k - 1 \in 1..n + 1 /\ k - 1 < j
      BY <1>1, <2>4
    <3> QED BY <1>4, <2>2, <3>1, <3>2
  <2>5. CASE k > j /\ k = j + 1
    <3>1. c[k] = s[j] /\ j \in 1..n /\ j # n + 1 /\ k # 1 /\ k - 1 = j
      BY <1>1, <1>4, <2>5
    <3> QED BY <1>2, <1>4, <2>2, <3>1, ZenonT(60)
  <2>6. CASE k > j /\ k # j + 1
    <3>1. c[k] = s[k - 1] /\ k - 1 \in 1..n /\ k - 1 # j /\ k - 1 \in 1..n + 1 /\ k - 1 > j /\ k - 1 # 1 /\ k # 1
      BY <1>1, <1>4, <2>6
    <3>2. s[k - 1] # At(s, n, j).node
      BY <1>1, <1>2, <2>1, <3>1
    <3>3. c[k - 1] = s[(k - 1) - 1]
      BY <1>4, <3>1, ZenonT(60)
    <3> QED BY <2>2, <3>1, <3>2, <3>3, ZenonT(60)
  <2> QED BY <1>1, <2>3, <2>4, <2>5, <2>6
<1>9. ASSUME NEW k \in 1..n + 1 PROVE e[c[k]].next = IF k = n + 1 THEN None ELSE c[k + 1]
  <2>1. \A x \in 1..n, y \in 1..n : s[x] = s[y] => x = y
    BY ZenonT(60) DEF Chain
  <2>2. \A x \in 1..n : e[s[x]].next = IF s[x] = At(s, n, j).last THEN t
                                        ELSE IF x = n THEN None ELSE s[x + 1]
    BY <1>1, ZenonT(60) DEF LinkedIn, Chain
  <2>3. CASE k = j
    <3>1. e[t].next = IF j = n + 1 THEN None ELSE s[j]
      BY <1>2, ZenonT(60) DEF LinkedIn
    <3>2. j # n + 1 => j + 1 \in 1..n + 1 /\ j + 1 > j /\ (j + 1) - 1 = j
      BY <1>1
    <3>3. j # n + 1 => c[j + 1] = s[j]
      BY <1>4, <3>2, ZenonT(60)
    <3> QED BY <1>4, <2>3, <3>1, <3>3, ZenonT(60)
  <2>4. CASE k < j /\ k + 1 = j
    <3>1. c[k] = s[k] /\ k \in 1..n /\ j # 1 /\ j - 1 = k /\ k # n + 1
      BY <1>1, <1>4, <2>4
    <3> QED BY <1>2, <1>4, <2>2, <2>4, <3>1, ZenonT(60)
  <2>5. CASE k < j /\ k + 1 # j
    <3>1. c[k] = s[k] /\ k \in 1..n /\ k + 1 \in 1..n + 1 /\ k + 1 < j /\ k # n + 1 /\ k # n
      BY <1>1, <1>4, <2>5
    <3>2. c[k + 1] = s[k + 1]
      BY <1>4, <3>1, ZenonT(60)
    <3>3. j # 1 => j - 1 \in 1..n /\ j - 1 # k
      BY <1>1, <2>5
    <3>4. s[k] # At(s, n, j).last
      BY <1>1, <1>2, <2>1, <3>1, <3>3, ZenonT(60)
    <3> QED BY <2>2, <3>1, <3>2, <3>4, ZenonT(60)
  <2>6. CASE k > j
    <3>1. c[k] = s[k - 1] /\ k - 1 \in 1..n /\ (k - 1 = n <=> k = n + 1) /\ (k - 1) + 1 = k
      BY <1>1, <1>4, <2>6
    <3>2. k # n + 1 => k + 1 \in 1..n + 1 /\ k + 1 > j /\ (k + 1) - 1 = k
      BY <1>1, <2>6
    <3>3. k # n + 1 => c[k + 1] = s[k]
      BY <1>4, <3>2, ZenonT(60)
    <3>4. j # 1 => j - 1 \in 1..n /\ j - 1 # k - 1
      BY <1>1, <2>6
    <3>5. s[k - 1] # At(s, n, j).last
      BY <1>1, <1>2, <2>1, <3>1, <3>4, ZenonT(60)
    <3> QED BY <2>2, <3>1, <3>3, <3>5, ZenonT(60)
  <2> QED BY <1>1, <2>3, <2>4, <2>5, <2>6
<1>10. ASSUME NEW k \in 1..n + 1, k # n + 1 PROVE e[c[k]].alarm <= e[c[k + 1]].alarm
  <2>1. k + 1 \in 1..n + 1
    BY <1>1, <1>10
  <2>2. e[c[k]].alarm = ent[c[k]].alarm /\ e[c[k + 1]].alarm = ent[c[k + 1]].alarm
    BY <1>5, <2>1, ZenonT(60) DEF LinkedIn
  <2>3. CASE k = j
    <3>1. k + 1 > j /\ (k + 1) - 1 = j
      BY <2>3
    <3> QED BY <1>4, <1>10, <2>1, <2>2, <2>3, <3>1, ZenonT(60)
  <2>4. CASE k < j /\ k + 1 = j
    <3>1. j # 1 /\ j - 1 = k
      BY <2>4
    <3> QED BY <1>4, <2>2, <2>4, <3>1
  <2>5. CASE k < j /\ k + 1 # j
    <3>1. k + 1 < j /\ k \in 1..n /\ k # n
      BY <1>1, <2>5
    <3>2. c[k] = s[k] /\ c[k + 1] = s[k + 1]
      BY <1>4, <2>1, <2>5, <3>1, ZenonT(60)
    <3>3. ent[s[k]].alarm <= ent[s[k + 1]].alarm
      BY <3>1, ZenonT(60) DEF Chain
    <3> QED BY <2>2, <3>2, <3>3, ZenonT(60)
  <2>6. CASE k > j
    <3>1. k + 1 > j /\ (k + 1) - 1 = k /\ k - 1 \in 1..n /\ k - 1 # n /\ (k - 1) + 1 = k
      BY <1>1, <1>10, <2>6
    <3>2. c[k] = s[k - 1] /\ c[k + 1] = s[k]
      BY <1>4, <2>1, <2>6, <3>1, ZenonT(60)
    <3>3. ent[s[k - 1]].alarm <= ent[s[k]].alarm
      BY <3>1, ZenonT(60) DEF Chain
    <3> QED BY <2>2, <3>2, <3>3, ZenonT(60)
  <2> QED BY <1>1, <2>3, <2>4, <2>5, <2>6
<1>11. n + 1 \in Nat /\ n + 1 # 0
  BY <1>1
<1> QED BY <1>5, <1>6, <1>7, <1>8, <1>9, <1>10, <1>11, ZenonT(60) DEF Chain, c

\* The list without what is at place j.
Removed(s, n, j) == [k \in 1..n - 1 |-> IF k < j THEN s[k] ELSE s[k + 1]]

\* The links are those of lists from which t has gone.
LinkedOut(e, ent, t) ==
    /\ \A u \in Alarm : e[u].alarm = ent[u].alarm
    /\ \A u \in Alarm : e[u].next = IF u = t THEN None
                                    ELSE IF u = ent[t].prev THEN ent[t].next ELSE ent[u].next
    /\ \A u \in Alarm : e[u].prev = IF u = t THEN None
                                    ELSE IF u = ent[t].next THEN ent[t].prev ELSE ent[u].prev

\* Linking the neighbours of an entry with each other takes it out of its list.
LEMMA ChainRemove ==
    ASSUME NEW ent, ent \in [Alarm -> Entry], NEW head, NEW s, NEW n, Chain(ent, head, s, n),
           NEW j \in 1..n, NEW e, LinkedOut(e, ent, s[j])
    PROVE  Chain(e, IF j = 1 THEN ent[s[j]].next ELSE head, Removed(s, n, j), n - 1)
PROOF
<1> DEFINE c == Removed(s, n, j)
<1>1. n \in Nat /\ \A k \in 1..n : s[k] \in Alarm /\ s[k] # None
  BY FdAssumption DEF Chain
<1>2. /\ ent[s[j]].prev = IF j = 1 THEN None ELSE s[j - 1]
      /\ ent[s[j]].next = IF j = n THEN None ELSE s[j + 1]
  BY ZenonT(60) DEF Chain
<1>3. \A x \in 1..n, y \in 1..n : s[x] = s[y] => x = y
  BY ZenonT(60) DEF Chain
<1>4. /\ \A k \in 1..n - 1 : k < j => k \in 1..n /\ c[k] = s[k] /\ k # j
      /\ \A k \in 1..n - 1 : k >= j => k + 1 \in 1..n /\ c[k] = s[k + 1] /\ k + 1 # j
  BY <1>1 DEF Removed
<1>5. c \in [1..n - 1 -> Alarm]
  BY <1>1 DEF Removed
<1> HIDE DEF c
<1>6. ASSUME NEW k \in 1..n - 1, NEW m \in 1..n - 1, c[k] = c[m] PROVE k = m
  <2>1. CASE k < j /\ m < j
    BY <1>3, <1>4, <1>6, <2>1, ZenonT(60)
  <2>2. CASE k >= j /\ m >= j
    <3>1. k + 1 = m + 1
      BY <1>3, <1>4, <1>6, <2>2
    <3> QED BY <3>1
  <2>3. CASE k < j /\ m >= j
    <3>1. k = m + 1
      BY <1>3, <1>4, <1>6, <2>3
    <3> QED BY <2>3, <3>1
  <2>4. CASE k >= j /\ m < j
    <3>1. k + 1 = m
      BY <1>3, <1>4, <1>6, <2>4
    <3> QED BY <2>4, <3>1
  <2> QED BY <1>1, <2>1, <2>2, <2>3, <2>4
<1>7. (IF j = 1 THEN ent[s[j]].next ELSE head) = IF n - 1 = 0 THEN None ELSE c[1]
  <2>1. CASE n = 1
    BY <1>1, <1>2, <2>1
  <2>2. CASE n # 1
    <3>1. 1 \in 1..n - 1 /\ n - 1 # 0 /\ n # 0
      BY <1>1, <2>2
    <3>2. head = s[1]
      BY <3>1, ZenonT(60) DEF Chain
    <3>3. CASE j = 1
      <4>1. c[1] = s[1 + 1] /\ j # n
        BY <1>4, <2>2, <3>1, <3>3
      <4> QED BY <1>2, <3>1, <3>3, <4>1, ZenonT(60)
    <3>4. CASE j # 1
      <4>1. c[1] = s[1]
        BY <1>4, <3>1, <3>4
      <4> QED BY <3>1, <3>2, <3>4, <4>1, ZenonT(60)
    <3> QED BY <3>3, <3>4, ZenonT(60)
  <2> QED BY <2>1, <2>2, ZenonT(60)
<1>8. ASSUME NEW k \in 1..n - 1 PROVE e[c[k]].prev = IF k = 1 THEN None ELSE c[k - 1]
  <2>1. \A x \in 1..n : x # j => e[s[x]].prev = IF s[x] = ent[s[j]].next THEN ent[s[j]].prev
                                                ELSE IF x = 1 THEN None ELSE s[x - 1]
    BY <1>1, <1>3, ZenonT(60) DEF LinkedOut, Chain
  <2>2. CASE k < j
    <3>1. c[k] = s[k] /\ k \in 1..n /\ k # j
      BY <1>4, <2>2, ZenonT(60)
    <3>2. j # n => j + 1 \in 1..n /\ j + 1 # k
      BY <1>1, <2>2
    <3>3. s[k] # ent[s[j]].next
      BY <1>1, <1>2, <1>3, <3>1, <3>2, ZenonT(60)
    <3>4. k # 1 => k - 1 \in 1..n - 1 /\ k - 1 < j
      BY <1>1, <2>2
    <3>5. k # 1 => c[k - 1] = s[k - 1]
      BY <1>4, <3>4, ZenonT(60)
    <3> QED BY <2>1, <3>1, <3>3, <3>5, ZenonT(60)
  <2>3. CASE k = j
    <3>1. c[k] = s[j + 1] /\ j + 1 \in 1..n /\ j + 1 # j /\ j # n
      BY <1>1, <1>4, <2>3
    <3>2. e[s[j + 1]].prev = ent[s[j]].prev
      BY <1>2, <2>1, <3>1, ZenonT(60)
    <3>3. k # 1 => k - 1 \in 1..n - 1 /\ k - 1 < j
      BY <1>1, <2>3
    <3>4. k # 1 => c[k - 1] = s[k - 1]
      BY <1>4, <3>3, ZenonT(60)
    <3> QED BY <1>2, <2>3, <3>1, <3>2, <3>4, ZenonT(60)
  <2>4. CASE k > j
    <3>1. c[k] = s[k + 1] /\ k + 1 \in 1..n /\ k + 1 # j /\ k # 1 /\ k + 1 # 1 /\ (k + 1) - 1 = k
      BY <1>1, <1>4, <2>4
    <3>2. j # n => j + 1 \in 1..n /\ j + 1 # k + 1
      BY <1>1, <2>4
    <3>3. s[k + 1] # ent[s[j]].next
      BY <1>1, <1>2, <1>3, <3>1, <3>2, ZenonT(60)
    <3>4. k - 1 \in 1..n - 1 /\ k - 1 >= j /\ (k - 1) + 1 = k
      BY <1>1, <2>4
    <3>5. c[k - 1] = s[k]
      BY <1>4, <3>4, ZenonT(60)
    <3> QED BY <2>1, <3>1, <3>3, <3>5, ZenonT(60)
  <2> QED BY <1>1, <2>2, <2>3, <2>4
<1>9. ASSUME NEW k \in 1..n - 1 PROVE e[c[k]].next = IF k = n - 1 THEN None ELSE c[k + 1]
  <2>1. \A x \in 1..n : x # j => e[s[x]].next = IF s[x] = ent[s[j]].prev THEN ent[s[j]].next
                                                ELSE IF x = n THEN None ELSE s[x + 1]
    BY <1>1, <1>3, ZenonT(60) DEF LinkedOut, Chain
  <2>2. CASE k + 1 < j
    <3>1. c[k] = s[k] /\ k \in 1..n /\ k # j /\ k # n /\ k # n - 1 /\ k + 1 \in 1..n - 1 /\ k + 1 < j
      BY <1>1, <1>4, <2>2
    <3>2. j # 1 => j - 1 \in 1..n /\ j - 1 # k
      BY <1>1, <2>2
    <3>3. s[k] # ent[s[j]].prev
      BY <1>1, <1>2, <1>3, <3>1, <3>2, ZenonT(60)
    <3>4. c[k + 1] = s[k + 1]
      BY <1>4, <3>1, ZenonT(60)
    <3> QED BY <2>1, <3>1, <3>3, <3>4, ZenonT(60)
  <2>3. CASE k + 1 = j
    <3>1. c[k] = s[k] /\ k \in 1..n /\ k # j /\ j # 1 /\ j - 1 = k /\ (j = n <=> k = n - 1)
      BY <1>1, <1>4, <2>3
    <3>2. e[s[k]].next = ent[s[j]].next
      BY <1>2, <2>1, <3>1, ZenonT(60)
    <3>3. k # n - 1 => k + 1 \in 1..n - 1 /\ k + 1 >= j
      BY <1>1, <2>3
    <3>4. k # n - 1 => c[k + 1] = s[j + 1]
      BY <1>4, <2>3, <3>3, ZenonT(60)
    <3> QED BY <1>2, <3>1, <3>2, <3>4, ZenonT(60)
  <2>4. CASE k >= j
    <3>1. c[k] = s[k + 1] /\ k + 1 \in 1..n /\ k + 1 # j /\ (k + 1 = n <=> k = n - 1)
      BY <1>1, <1>4, <2>4
    <3>2. j # 1 => j - 1 \in 1..n /\ j - 1 # k + 1
      BY <1>1, <2>4
    <3>3. s[k + 1] # ent[s[j]].prev
      BY <1>1, <1>2, <1>3, <3>1, <3>2, ZenonT(60)
    <3>4. k # n - 1 => k + 1 \in 1..n - 1 /\ k + 1 >= j
      BY <1>1, <2>4
    <3>5. k # n - 1 => c[k + 1] = s[(k + 1) + 1]
      BY <1>4, <3>4, ZenonT(60)
    <3> QED BY <2>1, <3>1, <3>3, <3>5, ZenonT(60)
  <2> QED BY <1>1, <2>2, <2>3, <2>4
<1>10. ASSUME NEW k \in 1..n - 1, k # n - 1 PROVE e[c[k]].alarm <= e[c[k + 1]].alarm
  <2>1. k + 1 \in 1..n - 1
    BY <1>1, <1>10
  <2>2. e[c[k]].alarm = ent[c[k]].alarm /\ e[c[k + 1]].alarm = ent[c[k + 1]].alarm
    BY <1>5, <2>1, ZenonT(60) DEF LinkedOut
  <2>3. \A x \in 1..n : x # n => ent[s[x]].alarm <= ent[s[x + 1]].alarm
    BY ZenonT(60) DEF Chain
  <2>4. \A x \in 1..n : ent[s[x]].alarm \in Nat
    <3>1. \A x \in 1..n : ent[s[x]] \in Entry
      BY <1>1, ZenonT(60)
    <3> QED BY <3>1, FdAssumption DEF Entry, Time
  <2>5. CASE k + 1 < j
    <3>1. c[k] = s[k] /\ c[k + 1] = s[k + 1] /\ k \in 1..n /\ k # n
      BY <1>1, <1>4, <2>1, <2>5
    <3> QED BY <2>2, <2>3, <3>1, ZenonT(60)
  <2>6. CASE k + 1 = j
    <3>1. c[k] = s[k] /\ c[k + 1] = s[(k + 1) + 1] /\ k \in 1..n /\ k # n
            /\ k + 1 \in 1..n /\ k + 1 # n /\ (k + 1) + 1 \in 1..n
      BY <1>1, <1>4, <2>1, <2>6
    <3>2. ent[s[k]].alarm <= ent[s[k + 1]].alarm /\ ent[s[k + 1]].alarm <= ent[s[(k + 1) + 1]].alarm
      BY <2>3, <3>1, ZenonT(60)
    <3>3. ent[s[k]].alarm <= ent[s[(k + 1) + 1]].alarm
      BY <2>4, <3>1, <3>2
    <3> QED BY <2>2, <3>1, <3>3, ZenonT(60)
  <2>7. CASE k >= j
    <3>1. c[k] = s[k + 1] /\ c[k + 1] = s[(k + 1) + 1] /\ k + 1 \in 1..n /\ k + 1 # n
      BY <1>1, <1>4, <2>1, <2>7
    <3> QED BY <2>2, <2>3, <3>1, ZenonT(60)
  <2> QED BY <1>1, <2>5, <2>6, <2>7
<1>11. n - 1 \in Nat
  BY <1>1
<1> QED BY <1>5, <1>6, <1>7, <1>8, <1>9, <1>10, <1>11, ZenonT(60) DEF Chain, c

\* One field of one entry is set.
NextSet(e, ent, u, a) ==
    /\ e \in [Alarm -> Entry]
    /\ \A v \in Alarm : /\ e[v].next = IF v = u THEN a ELSE ent[v].next
                        /\ e[v].prev = ent[v].prev /\ e[v].alarm = ent[v].alarm

PrevSet(e, ent, u, a) ==
    /\ e \in [Alarm -> Entry]
    /\ \A v \in Alarm : /\ e[v].prev = IF v = u THEN a ELSE ent[v].prev
                        /\ e[v].next = ent[v].next /\ e[v].alarm = ent[v].alarm

\* What setting one link of one entry does.
LEMMA FieldSet ==
    ASSUME NEW ent \in [Alarm -> Entry], NEW u \in Alarm, NEW a \in MaybeAlarm
    PROVE  /\ NextSet([ent EXCEPT ![u].next = a], ent, u, a)
           /\ PrevSet([ent EXCEPT ![u].prev = a], ent, u, a)
PROOF
<1>1. ent[u] \in Entry
  BY ZenonT(60)
<1>2. [ent[u] EXCEPT !.next = a] \in Entry /\ [ent[u] EXCEPT !.prev = a] \in Entry
  BY <1>1, ZenonT(60) DEF Entry
<1>3. /\ [ent EXCEPT ![u].next = a] = [ent EXCEPT ![u] = [ent[u] EXCEPT !.next = a]]
      /\ [ent EXCEPT ![u].prev = a] = [ent EXCEPT ![u] = [ent[u] EXCEPT !.prev = a]]
  BY ZenonT(60)
<1>4. /\ [ent[u] EXCEPT !.next = a].next = a /\ [ent[u] EXCEPT !.next = a].prev = ent[u].prev
      /\ [ent[u] EXCEPT !.next = a].alarm = ent[u].alarm
      /\ [ent[u] EXCEPT !.prev = a].prev = a /\ [ent[u] EXCEPT !.prev = a].next = ent[u].next
      /\ [ent[u] EXCEPT !.prev = a].alarm = ent[u].alarm
  BY <1>1, ZenonT(60) DEF Entry
<1> DEFINE en == [ent[u] EXCEPT !.next = a]
           ep == [ent[u] EXCEPT !.prev = a]
<1> HIDE DEF en, ep
<1>5. en \in Entry /\ ep \in Entry
  BY <1>2, ZenonT(60) DEF en, ep
<1>6. /\ en.next = a /\ en.prev = ent[u].prev /\ en.alarm = ent[u].alarm
      /\ ep.prev = a /\ ep.next = ent[u].next /\ ep.alarm = ent[u].alarm
  BY <1>4, ZenonT(60) DEF en, ep
<1>7. /\ [ent EXCEPT ![u].next = a] = [ent EXCEPT ![u] = en]
      /\ [ent EXCEPT ![u].prev = a] = [ent EXCEPT ![u] = ep]
  BY <1>3, ZenonT(60) DEF en, ep
<1>8. /\ [ent EXCEPT ![u] = en] \in [Alarm -> Entry] /\ [ent EXCEPT ![u] = ep] \in [Alarm -> Entry]
      /\ \A v \in Alarm : /\ [ent EXCEPT ![u] = en][v] = IF v = u THEN en ELSE ent[v]
                          /\ [ent EXCEPT ![u] = ep][v] = IF v = u THEN ep ELSE ent[v]
  BY <1>5, ZenonT(60)
<1> QED BY <1>6, <1>7, <1>8, ZenonT(60) DEF NextSet, PrevSet

\* insert_alarm() puts an entry that is in no list in its place.
LEMMA InsertKeeps ==
    ASSUME NEW p, NEW S, NEW N, Good(p, S, N), NEW l \in ListName, NEW t \in Alarm, InNone(S, N, t)
    PROVE  \E T, M : /\ Good(Insert(p, l, t), T, M)
                     /\ \A u \in Alarm : InNone(T, M, u) <=> u # t /\ InNone(S, N, u)
PROOF
<1> DEFINE s == S[l]
           n == N[l]
           x == Place(p, p[l], p.ent[t].alarm)
           e1 == IF x.last = None THEN p.ent ELSE [p.ent EXCEPT ![x.last].next = t]
           e2 == IF x.node = None THEN e1 ELSE [e1 EXCEPT ![x.node].prev = t]
           e3 == [e2 EXCEPT ![t].prev = x.last]
           e == [e3 EXCEPT ![t].next = x.node]
           head == IF x.last = None THEN t ELSE p[l]
<1>1. /\ p \in Queue /\ p.ent \in [Alarm -> Entry] /\ p.ent[t].alarm \in Time
      /\ Chain(p.ent, p[l], s, n) /\ n \in Nat
  <2>1. p.ent \in [Alarm -> Entry]
    BY ZenonT(60) DEF Good, Queue
  <2>2. p.ent[t] \in Entry
    BY <2>1, ZenonT(60)
  <2> QED BY <2>1, <2>2, ZenonT(60) DEF Good, Entry, Chain
<1>2. PICK j \in 1..n + 1 :
        /\ x = At(s, n, j)
        /\ j # 1 => p.ent[s[j - 1]].alarm <= p.ent[t].alarm
        /\ j # n + 1 => p.ent[s[j]].alarm > p.ent[t].alarm
  <2> HIDE DEF s, n, x
  <2> QED BY <1>1, PlaceIs, ZenonT(60) DEF x
<1>3. /\ x.last = IF j = 1 THEN None ELSE s[j - 1]
      /\ x.node = IF j = n + 1 THEN None ELSE s[j]
  BY <1>2 DEF At
<1>4. \A k \in 1..n : s[k] \in Alarm /\ s[k] # None /\ s[k] # t
  BY <1>1, FdAssumption DEF Chain, InNone, InList
<1>5. /\ x.last # None => x.last \in Alarm /\ x.last # t /\ j # 1
      /\ x.node # None => x.node \in Alarm /\ x.node # t
      /\ x.last \in MaybeAlarm /\ x.node \in MaybeAlarm /\ t \in MaybeAlarm
      /\ j = 1 <=> x.last = None
  <2>1. j # 1 => j - 1 \in 1..n
    BY <1>1
  <2>2. j # n + 1 => j \in 1..n
    BY <1>1
  <2> HIDE DEF x, s, n
  <2> QED BY <1>3, <1>4, <2>1, <2>2, ZenonT(60) DEF MaybeAlarm
<1>6. Insert(p, l, t) = [p EXCEPT !.ent = e, ![l] = head]
  <2>1. [e2 EXCEPT ![t].prev = x.last, ![t].next = x.node] = e
    BY ZenonT(60)
  <2> QED BY <2>1, ZenonT(60) DEF Insert
<1> HIDE DEF x
<1>7. /\ e1 \in [Alarm -> Entry]
      /\ \A u \in Alarm : /\ e1[u].alarm = p.ent[u].alarm /\ e1[u].prev = p.ent[u].prev
                          /\ e1[u].next = IF u = x.last THEN t ELSE p.ent[u].next
  <2>1. x.last = None => \A u \in Alarm : u # x.last
    BY FdAssumption, ZenonT(60)
  <2>2. CASE x.last = None
    BY <1>1, <2>1, <2>2, ZenonT(60)
  <2>3. CASE x.last # None
    <3>1. e1 = [p.ent EXCEPT ![x.last].next = t]
      BY <2>3, ZenonT(60)
    <3>2. NextSet(e1, p.ent, x.last, t)
      BY <1>1, <1>5, <2>3, <3>1, FieldSet, ZenonT(60)
    <3> HIDE DEF e1
    <3> QED BY <3>2, ZenonT(60) DEF NextSet
  <2> QED BY <2>2, <2>3, ZenonT(60)
<1> HIDE DEF e1
<1>8. /\ e2 \in [Alarm -> Entry]
      /\ \A u \in Alarm : /\ e2[u].alarm = e1[u].alarm /\ e2[u].next = e1[u].next
                          /\ e2[u].prev = IF u = x.node THEN t ELSE e1[u].prev
  <2>1. x.node = None => \A u \in Alarm : u # x.node
    BY FdAssumption, ZenonT(60)
  <2>2. CASE x.node = None
    BY <1>7, <2>1, <2>2, ZenonT(60)
  <2>3. CASE x.node # None
    <3>1. e2 = [e1 EXCEPT ![x.node].prev = t]
      BY <2>3, ZenonT(60)
    <3>2. PrevSet(e2, e1, x.node, t)
      BY <1>5, <1>7, <2>3, <3>1, FieldSet, ZenonT(60)
    <3> HIDE DEF e2
    <3> QED BY <3>2, ZenonT(60) DEF PrevSet
  <2> QED BY <2>2, <2>3, ZenonT(60)
<1> HIDE DEF e2
<1>9. /\ e3 \in [Alarm -> Entry]
      /\ \A u \in Alarm : /\ e3[u].alarm = e2[u].alarm /\ e3[u].next = e2[u].next
                          /\ e3[u].prev = IF u = t THEN x.last ELSE e2[u].prev
  <2>1. PrevSet(e3, e2, t, x.last)
    BY <1>5, <1>8, FieldSet, ZenonT(60)
  <2> HIDE DEF e3
  <2> QED BY <2>1, ZenonT(60) DEF PrevSet
<1> HIDE DEF e3
<1>10. /\ e \in [Alarm -> Entry]
       /\ \A u \in Alarm : /\ e[u].alarm = e3[u].alarm /\ e[u].prev = e3[u].prev
                           /\ e[u].next = IF u = t THEN x.node ELSE e3[u].next
  <2>1. NextSet(e, e3, t, x.node)
    BY <1>5, <1>9, FieldSet, ZenonT(60)
  <2> HIDE DEF e
  <2> QED BY <2>1, ZenonT(60) DEF NextSet
<1> HIDE DEF e
<1>11. LinkedIn(e, p.ent, s, n, j, t)
  BY <1>2, <1>7, <1>8, <1>9, <1>10 DEF LinkedIn
<1>12. j # n + 1 => p.ent[t].alarm <= p.ent[s[j]].alarm
  <2>1. j # n + 1 => p.ent[s[j]].alarm \in Nat
    <3>1. j # n + 1 => j \in 1..n
      BY <1>1
    <3>2. j # n + 1 => p.ent[s[j]] \in Entry
      BY <1>1, <1>4, <3>1, ZenonT(60)
    <3> QED BY <3>2, FdAssumption DEF Entry, Time
  <2>2. p.ent[t].alarm \in Nat
    BY <1>1, FdAssumption DEF Time
  <2> QED BY <1>2, <2>1, <2>2
<1> DEFINE c == Inserted(s, n, j, t)
<1>13. Chain(e, IF j = 1 THEN t ELSE p[l], c, n + 1)
  <2> HIDE DEF s, n
  <2> QED BY <1>1, <1>2, <1>4, <1>11, <1>12, ChainInsert, ZenonT(60)
<1>14. head = IF j = 1 THEN t ELSE p[l]
  BY <1>5, ZenonT(60)
<1> DEFINE T == [k \in ListName |-> IF k = l THEN c ELSE S[k]]
           M == [k \in ListName |-> IF k = l THEN n + 1 ELSE N[k]]
           r == Insert(p, l, t)
<1>15. \A u : InList(T, M, l, u) <=> u = t \/ InList(S, N, l, u)
  <2>1. T[l] = c /\ M[l] = n + 1
    BY ZenonT(60)
  <2>2. \A k \in 1..n + 1 : c[k] = IF k < j THEN s[k] ELSE IF k = j THEN t ELSE s[k - 1]
    BY ZenonT(60) DEF Inserted
  <2> HIDE DEF c, T, M
  <2>3. ASSUME NEW u, NEW k \in 1..n + 1, c[k] = u PROVE u = t \/ \E m \in 1..n : s[m] = u
    <3>1. (k < j => k \in 1..n) /\ (k > j => k - 1 \in 1..n)
      BY <1>1
    <3> QED BY <1>1, <2>2, <2>3, <3>1
  <2>4. ASSUME NEW u, NEW m \in 1..n, s[m] = u PROVE \E k \in 1..n + 1 : c[k] = u
    <3>1. CASE m < j
      BY <1>1, <2>2, <2>4, <3>1
    <3>2. CASE m >= j
      <4>1. m + 1 \in 1..n + 1 /\ ~(m + 1 < j) /\ m + 1 # j /\ (m + 1) - 1 = m
        BY <1>1, <3>2
      <4> QED BY <2>2, <2>4, <4>1, ZenonT(60)
    <3> QED BY <1>1, <3>1, <3>2
  <2>5. c[j] = t /\ j \in 1..n + 1
    BY <2>2
  <2> QED BY <2>1, <2>3, <2>4, <2>5, ZenonT(60) DEF InList
<1>16. \A k \in ListName : k # l => T[k] = S[k] /\ M[k] = N[k]
  BY ZenonT(60)
<1>17. T[l] = c /\ M[l] = n + 1
  BY ZenonT(60)
<1> HIDE DEF T, M, c, head
<1>18. r.ent = e /\ r[l] = head /\ \A k \in ListName : k # l => r[k] = p[k]
  BY <1>1, <1>6, ZenonT(60) DEF Queue, ListName
<1>19. r \in Queue
  <2>1. head \in MaybeAlarm
    BY <1>1, ZenonT(60) DEF head, Queue, ListName, MaybeAlarm
  <2> QED BY <1>1, <1>6, <1>10, <2>1, ZenonT(60) DEF Queue, ListName
<1> HIDE DEF r
<1>20. ASSUME NEW k \in ListName PROVE Chain(r.ent, r[k], T[k], M[k])
  <2>1. CASE k = l
    BY <1>13, <1>14, <1>17, <1>18, <2>1, ZenonT(60)
  <2>2. CASE k # l
    <3>1. Chain(p.ent, p[k], S[k], N[k])
      BY ZenonT(60) DEF Good
    <3>2. ASSUME NEW m \in 1..N[k]
          PROVE  S[k][m] \in Alarm /\ S[k][m] # t /\ S[k][m] # x.last /\ S[k][m] # x.node
      <4>1. S[k][m] \in Alarm /\ InList(S, N, k, S[k][m])
        BY <3>1, ZenonT(60) DEF Chain, InList
      <4>2. ~InList(S, N, l, S[k][m])
        BY <2>2, <4>1 DEF Good, ListName
      <4>3. S[k][m] # t
        BY <4>1, ZenonT(60) DEF InNone
      <4>4. \A y \in 1..n : S[k][m] # s[y]
        BY <4>2, ZenonT(60) DEF InList
      <4>5. (j # 1 => j - 1 \in 1..n) /\ (j # n + 1 => j \in 1..n) /\ S[k][m] # None
        BY <1>1, <4>1, FdAssumption
      <4> QED BY <1>3, <4>1, <4>3, <4>4, <4>5
    <3>3. \A m \in 1..N[k] : /\ e[S[k][m]].prev = p.ent[S[k][m]].prev
                             /\ e[S[k][m]].next = p.ent[S[k][m]].next
                             /\ e[S[k][m]].alarm = p.ent[S[k][m]].alarm
      BY <1>7, <1>8, <1>9, <1>10, <3>2
    <3>4. Chain(e, p[k], S[k], N[k])
      BY <3>1, <3>3, ChainFrame
    <3> QED BY <1>16, <1>18, <2>2, <3>4, ZenonT(60)
  <2> QED BY <2>1, <2>2, ZenonT(60)
<1>21. \A k \in ListName : \A u : k # l => (InList(T, M, k, u) <=> InList(S, N, k, u))
  BY <1>16, ZenonT(60) DEF InList
<1>22. ASSUME NEW u \in Alarm PROVE ~(InList(T, M, "alarms", u) /\ InList(T, M, "deadlines", u))
  <2>1. ~(InList(S, N, "alarms", u) /\ InList(S, N, "deadlines", u))
    BY ZenonT(60) DEF Good
  <2>2. ~InList(S, N, "alarms", t) /\ ~InList(S, N, "deadlines", t)
    BY ZenonT(60) DEF InNone, ListName
  <2>3. CASE l = "alarms"
    BY <1>15, <1>21, <2>1, <2>2, <2>3, ZenonT(60) DEF ListName
  <2>4. CASE l = "deadlines"
    BY <1>15, <1>21, <2>1, <2>2, <2>4 DEF ListName
  <2> QED BY <2>3, <2>4, ZenonT(60) DEF ListName
<1>23. ASSUME NEW u \in Alarm, InNone(T, M, u) PROVE r.ent[u].prev = None /\ r.ent[u].next = None
  <2>1. InNone(S, N, u) /\ u # t
    BY <1>15, <1>21, <1>23, ZenonT(60) DEF InNone
  <2>2. p.ent[u].prev = None /\ p.ent[u].next = None
    BY <2>1, ZenonT(60) DEF Good
  <2>3. u # x.last /\ u # x.node
    <3>1. (j # 1 => j - 1 \in 1..n) /\ (j # n + 1 => j \in 1..n) /\ u # None
      BY <1>1, FdAssumption
    <3>2. \A y \in 1..n : u # s[y]
      BY <2>1 DEF InNone, InList
    <3> QED BY <1>3, <3>1, <3>2
  <2> QED BY <1>7, <1>8, <1>9, <1>10, <1>18, <2>1, <2>2, <2>3
<1>24. Good(r, T, M)
  BY <1>19, <1>20, <1>22, <1>23, ZenonT(60) DEF Good
<1>25. \A u \in Alarm : InNone(T, M, u) <=> u # t /\ InNone(S, N, u)
  BY <1>15, <1>21, ZenonT(60) DEF InNone
<1> QED BY <1>24, <1>25 DEF r

\* unschedule() takes an entry out of the list it is in, or leaves it in none.
LEMMA UnscheduleKeeps ==
    ASSUME NEW p, NEW S, NEW N, Good(p, S, N), NEW t \in Alarm
    PROVE  \E T, M : /\ Good(Unscheduled(p, t), T, M) /\ InNone(T, M, t)
                     /\ \A u \in Alarm : u # t => (InNone(T, M, u) <=> InNone(S, N, u))
PROOF
<1> DEFINE prev == p.ent[t].prev
           next == p.ent[t].next
           e1 == IF prev = None THEN p.ent ELSE [p.ent EXCEPT ![prev].next = next]
           e2 == IF next = None THEN e1 ELSE [e1 EXCEPT ![next].prev = prev]
           e3 == [e2 EXCEPT ![t].prev = None]
           e == [e3 EXCEPT ![t].next = None]
           r == Unscheduled(p, t)
<1>1. /\ p \in Queue /\ p.ent \in [Alarm -> Entry] /\ prev \in MaybeAlarm /\ next \in MaybeAlarm
      /\ None \in MaybeAlarm /\ p.alarms \in MaybeAlarm /\ p.deadlines \in MaybeAlarm
      /\ \A u \in Alarm : u # None
  <2>1. p.ent \in [Alarm -> Entry] /\ p \in Queue
    BY ZenonT(60) DEF Good, Queue
  <2>2. p.ent[t] \in Entry
    BY <2>1, ZenonT(60)
  <2> QED BY <2>1, <2>2, FdAssumption DEF Entry, MaybeAlarm, Queue
<1>2. r = [alarms    |-> IF prev = None /\ p.alarms = t THEN next ELSE p.alarms,
           deadlines |-> IF prev = None /\ p.alarms # t /\ p.deadlines = t THEN next ELSE p.deadlines,
           ent       |-> e]
  <2>1. [e2 EXCEPT ![t].prev = None, ![t].next = None] = e
    BY ZenonT(60)
  <2> QED BY <2>1, ZenonT(60) DEF Unscheduled
<1> HIDE DEF r
<1>3. \A l \in ListName : Chain(p.ent, p[l], S[l], N[l])
  BY ZenonT(60) DEF Good
<1>4. \A l \in ListName : N[l] \in Nat /\ \A k \in 1..N[l] : S[l][k] \in Alarm
  BY <1>3, ZenonT(60) DEF Chain
<1> HIDE DEF prev, next
<1>5. /\ e1 \in [Alarm -> Entry]
      /\ \A u \in Alarm : /\ e1[u].alarm = p.ent[u].alarm /\ e1[u].prev = p.ent[u].prev
                          /\ e1[u].next = IF u = prev THEN next ELSE p.ent[u].next
  <2>1. CASE prev = None
    BY <1>1, <2>1, ZenonT(60)
  <2>2. CASE prev # None
    <3>1. e1 = [p.ent EXCEPT ![prev].next = next] /\ prev \in Alarm
      BY <1>1, <2>2, ZenonT(60) DEF MaybeAlarm
    <3>2. NextSet(e1, p.ent, prev, next)
      BY <1>1, <3>1, FieldSet, ZenonT(60)
    <3> HIDE DEF e1
    <3> QED BY <3>2, ZenonT(60) DEF NextSet
  <2> QED BY <2>1, <2>2, ZenonT(60)
<1> HIDE DEF e1
<1>6. /\ e2 \in [Alarm -> Entry]
      /\ \A u \in Alarm : /\ e2[u].alarm = e1[u].alarm /\ e2[u].next = e1[u].next
                          /\ e2[u].prev = IF u = next THEN prev ELSE e1[u].prev
  <2>1. CASE next = None
    BY <1>1, <1>5, <2>1, ZenonT(60)
  <2>2. CASE next # None
    <3>1. e2 = [e1 EXCEPT ![next].prev = prev] /\ next \in Alarm
      BY <1>1, <2>2, ZenonT(60) DEF MaybeAlarm
    <3>2. PrevSet(e2, e1, next, prev)
      BY <1>1, <1>5, <3>1, FieldSet, ZenonT(60)
    <3> HIDE DEF e2
    <3> QED BY <3>2, ZenonT(60) DEF PrevSet
  <2> QED BY <2>1, <2>2, ZenonT(60)
<1> HIDE DEF e2
<1>7. PrevSet(e3, e2, t, None)
  BY <1>1, <1>6, FieldSet, ZenonT(60)
<1>8. NextSet(e, e3, t, None)
  <2>1. e3 \in [Alarm -> Entry]
    BY <1>7 DEF PrevSet
  <2> HIDE DEF e3
  <2> QED BY <1>1, <2>1, FieldSet, ZenonT(60)
<1> HIDE DEF e3
<1> HIDE DEF e
<1>9. LinkedOut(e, p.ent, t) /\ e \in [Alarm -> Entry]
  BY <1>5, <1>6, <1>7, <1>8 DEF LinkedOut, NextSet, PrevSet, prev, next
<1>10. r \in Queue /\ r.ent = e
  BY <1>1, <1>2, <1>9, ZenonT(60) DEF Queue
<1>11. CASE InNone(S, N, t)
  <2>1. prev = None /\ next = None
    BY <1>11, ZenonT(60) DEF Good, prev, next
  <2>2. \A l \in ListName : p[l] # t
    <3> SUFFICES ASSUME NEW l \in ListName, p[l] = t PROVE FALSE
      BY ZenonT(60)
    <3>1. N[l] # 0 /\ S[l][1] = t
      BY <1>1, <1>3, ZenonT(60) DEF Chain
    <3>2. 1 \in 1..N[l]
      BY <1>4, <3>1
    <3> QED BY <1>11, <3>1, <3>2, ZenonT(60) DEF InNone, InList
  <2>3. \A l \in ListName : r[l] = p[l]
    BY <1>2, <2>2 DEF ListName
  <2>4. \A u \in Alarm : /\ e[u].prev = p.ent[u].prev /\ e[u].next = p.ent[u].next
                         /\ e[u].alarm = p.ent[u].alarm
    BY <1>1, <1>9, <2>1, ZenonT(60) DEF LinkedOut, prev, next
  <2>5. ASSUME NEW l \in ListName PROVE Chain(r.ent, r[l], S[l], N[l])
    <3>1. Chain(e, p[l], S[l], N[l])
      BY <1>3, <1>4, <2>4, ChainFrame
    <3> QED BY <1>10, <2>3, <3>1, ZenonT(60)
  <2>6. Good(r, S, N)
    BY <1>10, <2>4, <2>5, ZenonT(60) DEF Good
  <2> QED BY <1>11, <2>6, ZenonT(60) DEF r
<1>12. ASSUME NEW l \in ListName, InList(S, N, l, t)
       PROVE  \E T, M : /\ Good(r, T, M) /\ InNone(T, M, t)
                        /\ \A u \in Alarm : u # t => (InNone(T, M, u) <=> InNone(S, N, u))
  <2> DEFINE s == S[l]
             n == N[l]
  <2>1. PICK j \in 1..n : s[j] = t
    BY <1>12 DEF InList
  <2> DEFINE c == Removed(s, n, j)
             T == [k \in ListName |-> IF k = l THEN c ELSE S[k]]
             M == [k \in ListName |-> IF k = l THEN n - 1 ELSE N[k]]
  <2>2. Chain(p.ent, p[l], s, n) /\ n \in Nat /\ \A x \in 1..n, y \in 1..n : s[x] = s[y] => x = y
    BY <1>3 DEF Chain
  <2>3. Chain(e, IF j = 1 THEN next ELSE p[l], c, n - 1)
    <3> HIDE DEF s, n, c
    <3> QED BY <1>1, <1>9, <2>1, <2>2, ChainRemove DEF next, c
  <2>4. prev = IF j = 1 THEN None ELSE s[j - 1]
    BY <2>1, <2>2 DEF Chain, prev
  <2>5. next = IF j = n THEN None ELSE s[j + 1]
    BY <2>1, <2>2, ZenonT(60) DEF Chain, next
  <2>6. /\ \A k \in ListName : k # l => T[k] = S[k] /\ M[k] = N[k]
        /\ T[l] = c /\ M[l] = n - 1
    BY ZenonT(60)
  <2>7. \A k \in 1..n - 1 : c[k] = IF k < j THEN s[k] ELSE s[k + 1]
    BY ZenonT(60) DEF Removed
  <2> HIDE DEF T, M, c
  <2>8. \A u : InList(T, M, l, u) <=> u # t /\ InList(S, N, l, u)
    <3>1. ASSUME NEW u, NEW k \in 1..n - 1, c[k] = u PROVE u # t /\ \E m \in 1..n : s[m] = u
      <4>1. k \in 1..n /\ k + 1 \in 1..n /\ (k < j => k # j) /\ (~(k < j) => k + 1 # j)
        BY <2>2
      <4> QED BY <2>1, <2>2, <2>7, <3>1, <4>1, ZenonT(60)
    <3>2. ASSUME NEW u, NEW m \in 1..n, s[m] = u, u # t PROVE \E k \in 1..n - 1 : c[k] = u
      <4>1. CASE m < j
        <5>1. m \in 1..n - 1
          BY <2>2, <4>1
        <5> QED BY <2>7, <3>2, <4>1, <5>1, ZenonT(60)
      <4>2. CASE m > j
        <5>1. m - 1 \in 1..n - 1 /\ ~(m - 1 < j) /\ (m - 1) + 1 = m
          BY <2>2, <4>2
        <5> QED BY <2>7, <3>2, <5>1, ZenonT(60)
      <4>3. m # j
        BY <2>1, <3>2, ZenonT(60)
      <4> QED BY <2>2, <4>1, <4>2, <4>3
    <3> QED BY <2>6, <3>1, <3>2, ZenonT(60) DEF InList
  <2>9. \A k \in ListName : \A u : k # l => (InList(T, M, k, u) <=> InList(S, N, k, u))
    BY <2>6, ZenonT(60) DEF InList
  <2>10. ASSUME NEW k \in ListName, k # l
         PROVE  \A m \in 1..N[k] : S[k][m] # t /\ S[k][m] # prev /\ S[k][m] # next
    <3> SUFFICES ASSUME NEW m \in 1..N[k] PROVE S[k][m] # t /\ S[k][m] # prev /\ S[k][m] # next
      BY ZenonT(60)
    <3>1. S[k][m] \in Alarm /\ InList(S, N, k, S[k][m])
      BY <1>4, ZenonT(60) DEF InList
    <3>2. ~InList(S, N, l, S[k][m])
      BY <2>10, <3>1 DEF Good, ListName
    <3>3. \A y \in 1..n : S[k][m] # s[y]
      BY <3>2, ZenonT(60) DEF InList
    <3>4. (j # 1 => j - 1 \in 1..n) /\ (j # n => j + 1 \in 1..n) /\ S[k][m] # None
      BY <1>1, <2>2, <3>1
    <3> QED BY <2>1, <2>4, <2>5, <3>3, <3>4, ZenonT(60)
  <2>11. ASSUME NEW k \in ListName, k # l PROVE p[k] # t
    <3> SUFFICES ASSUME p[k] = t PROVE FALSE
      OBVIOUS
    <3>1. N[k] # 0 /\ S[k][1] = t
      BY <1>1, <1>3, ZenonT(60) DEF Chain
    <3>2. 1 \in 1..N[k]
      BY <1>4, <3>1
    <3> QED BY <2>10, <2>11, <3>1, <3>2, ZenonT(60)
  <2>12. p[l] = s[1] /\ (p[l] = t <=> j = 1) /\ (prev = None <=> j = 1)
    <3>1. n # 0 /\ 1 \in 1..n /\ (j # 1 => j - 1 \in 1..n)
      BY <2>2
    <3>2. p[l] = s[1]
      BY <2>2, <3>1 DEF Chain
    <3>3. p[l] = t <=> j = 1
      BY <2>1, <2>2, <3>1, <3>2, ZenonT(60)
    <3>4. \A k \in 1..n : s[k] # None
      BY <1>1, <1>4, ZenonT(60)
    <3> QED BY <2>4, <3>1, <3>2, <3>3, <3>4, ZenonT(60)
  <2>13. r[l] = (IF j = 1 THEN next ELSE p[l]) /\ \A k \in ListName : k # l => r[k] = p[k]
    <3>1. CASE l = "alarms"
      <4>1. p.deadlines # t
        BY <2>11, <3>1, ZenonT(60) DEF ListName
      <4> QED BY <1>2, <2>12, <3>1, <4>1 DEF ListName
    <3>2. CASE l = "deadlines"
      <4>1. p.alarms # t
        BY <2>11, <3>2, ZenonT(60) DEF ListName
      <4> QED BY <1>2, <2>12, <3>2, <4>1 DEF ListName
    <3> QED BY <3>1, <3>2, ZenonT(60) DEF ListName
  <2>14. ASSUME NEW k \in ListName PROVE Chain(r.ent, r[k], T[k], M[k])
    <3>1. CASE k = l
      BY <1>10, <2>3, <2>6, <2>13, <3>1, ZenonT(60)
    <3>2. CASE k # l
      <4>1. \A m \in 1..N[k] : /\ e[S[k][m]].prev = p.ent[S[k][m]].prev
                               /\ e[S[k][m]].next = p.ent[S[k][m]].next
                               /\ e[S[k][m]].alarm = p.ent[S[k][m]].alarm
        BY <1>4, <1>9, <2>10, <3>2 DEF LinkedOut, prev, next
      <4>2. Chain(e, p[k], S[k], N[k])
        BY <1>3, <4>1, ChainFrame
      <4> QED BY <1>10, <2>6, <2>13, <3>2, <4>2
    <3> QED BY <3>1, <3>2, ZenonT(60)
  <2>15. ASSUME NEW u \in Alarm PROVE ~(InList(T, M, "alarms", u) /\ InList(T, M, "deadlines", u))
    <3>1. ~(InList(S, N, "alarms", u) /\ InList(S, N, "deadlines", u))
      BY ZenonT(60) DEF Good
    <3> QED BY <2>8, <2>9, <3>1, ZenonT(60) DEF ListName
  <2>16. InNone(T, M, t)
    <3>1. ASSUME NEW k \in ListName, k # l PROVE ~InList(S, N, k, t)
      BY <1>12, <3>1 DEF Good, ListName
    <3> QED BY <2>8, <2>9, <3>1, ZenonT(60) DEF InNone
  <2>17. ASSUME NEW u \in Alarm, InNone(T, M, u) PROVE r.ent[u].prev = None /\ r.ent[u].next = None
    <3>1. CASE u = t
      BY <1>9, <1>10, <3>1, ZenonT(60) DEF LinkedOut
    <3>2. CASE u # t
      <4>1. InNone(S, N, u)
        BY <2>8, <2>9, <2>17, <3>2, ZenonT(60) DEF InNone
      <4>2. p.ent[u].prev = None /\ p.ent[u].next = None
        BY <4>1, ZenonT(60) DEF Good
      <4>3. u # prev /\ u # next
        <5>1. \A y \in 1..n : u # s[y]
          BY <4>1, ZenonT(60) DEF InNone, InList
        <5>2. (j # 1 => j - 1 \in 1..n) /\ (j # n => j + 1 \in 1..n) /\ u # None
          BY <1>1, <2>2
        <5> QED BY <2>4, <2>5, <5>1, <5>2, ZenonT(60)
      <4> QED BY <1>9, <1>10, <3>2, <4>2, <4>3, ZenonT(60) DEF LinkedOut, prev, next
    <3> QED BY <3>1, <3>2, ZenonT(60)
  <2>18. Good(r, T, M)
    BY <1>10, <2>14, <2>15, <2>17 DEF Good
  <2>19. \A u \in Alarm : u # t => (InNone(T, M, u) <=> InNone(S, N, u))
    BY <2>8, <2>9, ZenonT(60) DEF InNone
  <2> QED BY <2>16, <2>18, <2>19, ZenonT(60)
<1> QED BY <1>11, <1>12, ZenonT(60) DEF InNone, r

\* The heads of the lists are what their first alarms are.
LEMMA HeadListed ==
    ASSUME NEW p, NEW S, NEW N, Good(p, S, N), NEW l \in ListName, p[l] # None
    PROVE  p[l] \in Alarm /\ InList(S, N, l, p[l])
PROOF
<1>1. Chain(p.ent, p[l], S[l], N[l])
  BY ZenonT(60) DEF Good
<1>2. N[l] # 0 /\ p[l] = S[l][1] /\ 1 \in 1..N[l]
  BY <1>1 DEF Chain
<1> QED BY <1>1, <1>2, ZenonT(60) DEF Chain, InList

\* An alarm that is inserted is in the lists, with those that were.
LEMMA InsertHolds ==
    ASSUME NEW p, NEW D, Holds(p, D), NEW l \in ListName, NEW t \in Alarm, t \notin D
    PROVE  Holds(Insert(p, l, t), D \cup {t})
PROOF
<1>1. PICK S, N : Good(p, S, N) /\ \A u \in Alarm : u \in D <=> ~InNone(S, N, u)
  BY ZenonT(60) DEF Holds
<1>2. PICK T, M : /\ Good(Insert(p, l, t), T, M)
                  /\ \A u \in Alarm : InNone(T, M, u) <=> u # t /\ InNone(S, N, u)
  BY <1>1, InsertKeeps
<1>3. \A u \in Alarm : u \in D \cup {t} <=> ~InNone(T, M, u)
  BY <1>1, <1>2, ZenonT(60)
<1> QED BY <1>2, <1>3, ZenonT(60) DEF Holds

\* An alarm that is unscheduled is not in the lists, and no other is concerned.
LEMMA UnscheduleHolds ==
    ASSUME NEW p, NEW D, Holds(p, D), NEW t \in Alarm
    PROVE  Holds(Unscheduled(p, t), D \ {t})
PROOF
<1>1. PICK S, N : Good(p, S, N) /\ \A u \in Alarm : u \in D <=> ~InNone(S, N, u)
  BY ZenonT(60) DEF Holds
<1>2. PICK T, M : /\ Good(Unscheduled(p, t), T, M) /\ InNone(T, M, t)
                  /\ \A u \in Alarm : u # t => (InNone(T, M, u) <=> InNone(S, N, u))
  BY <1>1, UnscheduleKeeps
<1>3. \A u \in Alarm : u \in D \ {t} <=> ~InNone(T, M, u)
  BY <1>1, <1>2, ZenonT(60)
<1> QED BY <1>2, <1>3, ZenonT(60) DEF Holds

\* The first alarm of a list is in the lists.
LEMMA HeadHeld ==
    ASSUME NEW p, NEW D, Holds(p, D), NEW l \in ListName, p[l] # None
    PROVE  p[l] \in Alarm /\ p[l] \in D
BY HeadListed, ZenonT(60) DEF Holds, InNone

\* Alarms whose time has come move from one list to the other.
LEMMA ElapsedKeeps == ASSUME NEW p, NEW D, Holds(p, D), now \in Time PROVE Holds(Elapsed(p), D)
PROOF
<1> DEFINE N == Cardinality(Alarm)
           V == {x \in Queue : Holds(x, D)}
           Turn(x) == IF x.alarms = None \/ x.ent[x.alarms].alarm > now THEN x
                      ELSE Insert(Unscheduled(x, x.alarms), "deadlines", x.alarms)
           G == [x \in V |-> Turn(x)]
           move == CHOOSE move : move = [k \in 0..Cardinality(Alarm) |->
                     IF k = 0 THEN p
                     ELSE LET x == move[k - 1] IN
                          IF x.alarms = None \/ x.ent[x.alarms].alarm > now THEN x
                          ELSE Insert(Unscheduled(x, x.alarms), "deadlines", x.alarms)]
<1>1. Elapsed(p) = move[N]
  BY ZenonT(60) DEF Elapsed
<1>2. N \in Nat
  BY FdAssumption, FS_CardinalityType
<1>3. \A x : Holds(x, D) => x \in V
  BY ZenonT(60) DEF Holds, Good
<1>4. p \in V
  BY <1>3, ZenonT(60)
<1>5. ASSUME NEW x \in V PROVE Turn(x) \in V
  <2>1. CASE x.alarms = None \/ x.ent[x.alarms].alarm > now
    BY <1>5, <2>1, ZenonT(60)
  <2>2. CASE ~(x.alarms = None \/ x.ent[x.alarms].alarm > now)
    <3>1. Holds(x, D) /\ "alarms" \in ListName /\ "deadlines" \in ListName
      BY <1>5, ZenonT(60) DEF ListName
    <3>2. x.alarms \in Alarm /\ x.alarms \in D
      BY <2>2, <3>1, HeadHeld, ZenonT(60)
    <3>3. Holds(Unscheduled(x, x.alarms), D \ {x.alarms})
      BY <3>1, <3>2, UnscheduleHolds, ZenonT(60)
    <3>4. Holds(Insert(Unscheduled(x, x.alarms), "deadlines", x.alarms), D)
      <4>1. (D \ {x.alarms}) \cup {x.alarms} = D /\ x.alarms \notin D \ {x.alarms}
        BY <3>2, ZenonT(60)
      <4>2. Holds(Insert(Unscheduled(x, x.alarms), "deadlines", x.alarms), (D \ {x.alarms}) \cup {x.alarms})
        BY <3>1, <3>2, <3>3, <4>1, InsertHolds, ZenonT(60)
      <4> QED BY <4>1, <4>2, ZenonT(60)
    <3>5. Turn(x) = Insert(Unscheduled(x, x.alarms), "deadlines", x.alarms)
      BY <2>2, ZenonT(60)
    <3> HIDE DEF Turn, V
    <3> QED BY <1>3, <3>4, <3>5, ZenonT(60)
  <2> QED BY <2>1, <2>2, ZenonT(60)
<1>6. G \in [V -> V] /\ \A x \in V : G[x] = Turn(x)
  <2> HIDE DEF Turn, V
  <2> QED BY <1>5, ZenonT(60)
<1> HIDE DEF G, V
<1>7. PICK f : Iterates(f, V, p, G, N)
  <2> HIDE DEF N
  <2> QED BY ONLY <1>2, <1>4, <1>6, Iteration, ZenonT(60)
<1>8. \A k \in 1..N : k - 1 \in 0..N /\ f[k - 1] \in V
  BY <1>2, <1>7 DEF Iterates
<1>9. f = [k \in 0..N |-> IF k = 0 THEN p ELSE Turn(f[k - 1])]
  <2> HIDE DEF Turn
  <2> QED BY <1>2, <1>6, <1>7, <1>8 DEF Iterates
<1>10. move = [k \in 0..N |-> IF k = 0 THEN p ELSE Turn(move[k - 1])]
  BY <1>9, ZenonT(60)
<1> HIDE DEF move, Turn
<1> DEFINE S == {k \in Nat : k <= N => move[k] \in V}
<1>11. 0 \in S
  BY <1>2, <1>4, <1>10
<1>12. ASSUME NEW k \in Nat, k \in S PROVE k + 1 \in S
  <2>1. k + 1 <= N => k + 1 \in 0..N /\ (k + 1) - 1 = k /\ k <= N /\ k + 1 # 0
    BY <1>2
  <2>2. k + 1 <= N => move[k + 1] \in V
    BY <1>5, <1>10, <1>12, <2>1, ZenonT(60)
  <2>3. k + 1 \in Nat
    OBVIOUS
  <2> QED BY <2>2, <2>3, ZenonT(60)
<1> HIDE DEF S
<1>13. N \in S
  BY <1>2, <1>11, <1>12, NatInd, ZenonT(60)
<1>14. move[N] \in V
  BY <1>2, <1>13 DEF S
<1> QED BY <1>1, <1>14, ZenonT(60) DEF V

\* An alarm that has no predecessor and is the first of no list is in neither.
LEMMA NotLinked ==
    ASSUME NEW p, NEW S, NEW N, Good(p, S, N), NEW t \in Alarm,
           t \notin {p.alarms, p.deadlines}, p.ent[t].prev = None
    PROVE  InNone(S, N, t)
PROOF
<1> SUFFICES ASSUME NEW l \in ListName, NEW k \in 1..N[l], S[l][k] = t PROVE FALSE
  BY ZenonT(60) DEF InNone, InList
<1>1. Chain(p.ent, p[l], S[l], N[l])
  BY ZenonT(60) DEF Good
<1>2. p.ent[t].prev = IF k = 1 THEN None ELSE S[l][k - 1]
  BY <1>1 DEF Chain
<1>3. k = 1 => p[l] = t
  BY <1>1 DEF Chain
<1>4. k # 1 => k - 1 \in 1..N[l]
  BY <1>1 DEF Chain
<1>5. k # 1 => S[l][k - 1] # None
  BY <1>1, <1>4, FdAssumption DEF Chain
<1> QED BY <1>2, <1>3, <1>5, ZenonT(60) DEF ListName

\* An alarm is linked if it is in the lists.
LEMMA LinkedIs ==
    ASSUME NEW p, NEW D, Holds(p, D), NEW t \in Alarm
    PROVE  t \in {p.alarms, p.deadlines} \/ p.ent[t].prev # None <=> t \in D
PROOF
<1>1. PICK S, N : Good(p, S, N) /\ \A u \in Alarm : u \in D <=> ~InNone(S, N, u)
  BY ZenonT(60) DEF Holds
<1>2. t \in D => t \in {p.alarms, p.deadlines} \/ p.ent[t].prev # None
  BY <1>1, NotLinked, ZenonT(60)
<1>3. ASSUME t \notin D PROVE t \notin {p.alarms, p.deadlines} /\ p.ent[t].prev = None
  <2>1. InNone(S, N, t)
    BY <1>1, <1>3, ZenonT(60)
  <2>2. p.ent[t].prev = None
    BY <1>1, <2>1, ZenonT(60) DEF Good
  <2>3. "alarms" \in ListName /\ "deadlines" \in ListName /\ t # None
    BY FdAssumption, ZenonT(60) DEF ListName
  <2>4. p.alarms # t /\ p.deadlines # t
    BY <1>3, <2>3, HeadHeld, ZenonT(60)
  <2> QED BY <2>2, <2>4, ZenonT(60)
<1> QED BY <1>2, <1>3, ZenonT(60)

\* The alarms in the lists are those that are linked.
LEMMA ListsHold == ASSUME Lists(q) PROVE Holds(q, {t \in Alarm : Linked(t)})
PROOF
<1>1. PICK S, N : Good(q, S, N)
  BY ZenonT(60) DEF Lists
<1> DEFINE D == {t \in Alarm : ~InNone(S, N, t)}
<1>2. Holds(q, D)
  BY <1>1, ZenonT(60) DEF Holds
<1> HIDE DEF D
<1>3. \A t \in Alarm : Linked(t) <=> t \in D
  BY <1>2, LinkedIs, ZenonT(60) DEF Linked
<1>4. D = {t \in Alarm : Linked(t)}
  BY <1>3, ZenonT(60) DEF D
<1> QED BY <1>2, <1>4, ZenonT(60)

\* schedule() of an alarm that is in no list puts it in one.
LEMMA ScheduledKeeps ==
    ASSUME NEW z, NEW D, Holds(z, D), NEW t \in Alarm, t \notin D, NEW at \in Time, NEW by \in Time
    PROVE  Holds(Scheduled(z, t, at, by), D \cup {t})
PROOF
<1>1. PICK S, N : Good(z, S, N) /\ \A u \in Alarm : u \in D <=> ~InNone(S, N, u)
  BY ZenonT(60) DEF Holds
<1>2. InNone(S, N, t)
  BY <1>1, ZenonT(60)
<1> DEFINE until == IF by < at THEN at ELSE by
           p == [z EXCEPT !.ent[t].alarm = at, !.ent[t].deadline = until]
           x == [z.ent[t] EXCEPT !.alarm = at, !.deadline = until]
           e == [z.ent EXCEPT ![t] = x]
<1>3. z \in Queue /\ z.ent \in [Alarm -> Entry] /\ until \in Time
  BY <1>1, ZenonT(60) DEF Good, Queue
<1>4. x \in Entry /\ x.next = z.ent[t].next /\ x.prev = z.ent[t].prev
  <2>1. z.ent[t] \in Entry
    BY <1>3, ZenonT(60)
  <2> HIDE DEF until
  <2> QED BY <1>3, <2>1, ZenonT(60) DEF Entry
<1>5. p = [z EXCEPT !.ent = e]
  BY <1>3, ZenonT(60) DEF Queue
<1> HIDE DEF x, p
<1>6. /\ e \in [Alarm -> Entry] /\ e[t] = x
      /\ \A u \in Alarm : u # t => e[u] = z.ent[u]
  BY <1>3, <1>4, ZenonT(60)
<1> HIDE DEF e
<1>7. p \in Queue /\ p.ent = e /\ \A l \in ListName : p[l] = z[l]
  BY <1>3, <1>5, <1>6, ZenonT(60) DEF Queue, ListName
<1>8. ASSUME NEW l \in ListName PROVE Chain(p.ent, p[l], S[l], N[l])
  <2>1. Chain(z.ent, z[l], S[l], N[l])
    BY <1>1, ZenonT(60) DEF Good
  <2>2. \A k \in 1..N[l] : S[l][k] \in Alarm /\ S[l][k] # t
    BY <1>2, <2>1, ZenonT(60) DEF Chain, InNone, InList
  <2>3. \A k \in 1..N[l] : e[S[l][k]] = z.ent[S[l][k]]
    BY <1>6, <2>2
  <2>4. Chain(e, z[l], S[l], N[l])
    BY <2>1, <2>3, ChainFrame
  <2> QED BY <1>7, <2>4, ZenonT(60)
<1>9. \A u \in Alarm : InNone(S, N, u) => p.ent[u].prev = None /\ p.ent[u].next = None
  BY <1>1, <1>4, <1>6, <1>7 DEF Good
<1>10. Good(p, S, N)
  BY <1>1, <1>7, <1>8, <1>9, ZenonT(60) DEF Good
<1>11. PICK l \in ListName : Scheduled(z, t, at, by) = Insert(p, l, t)
  BY ZenonT(60) DEF Scheduled, ListName, p
<1>12. Holds(p, D)
  BY <1>1, <1>10, ZenonT(60) DEF Holds
<1> QED BY <1>11, <1>12, InsertHolds

\* The lists are empty at the start.
LEMMA InitLists == FdInit => Lists(q)
PROOF
<1> SUFFICES ASSUME FdInit PROVE Lists(q)
  BY ZenonT(60)
<1> DEFINE S == [l \in ListName |-> [k \in 1..0 |-> None]]
           N == [l \in ListName |-> 0]
<1>1. q.alarms = None /\ q.deadlines = None /\ q.ent = [t \in Alarm |-> Ent]
        /\ q = [alarms |-> q.alarms, deadlines |-> q.deadlines, ent |-> q.ent]
  BY ZenonT(60) DEF FdInit
<1>2. Ent \in Entry /\ Ent.prev = None /\ Ent.next = None
  BY FdAssumption DEF Ent, Entry, MaybeAlarm, Time
<1>3. q \in Queue
  BY <1>1, <1>2, ZenonT(60) DEF Queue, MaybeAlarm
<1>4. \A l \in ListName : q[l] = None /\ N[l] = 0 /\ S[l] \in [1..0 -> Alarm]
  BY <1>1 DEF ListName
<1> HIDE DEF S, N
<1>5. \A l \in ListName : Chain(q.ent, q[l], S[l], N[l])
  BY <1>4 DEF Chain
<1>6. \A l \in ListName : \A t : ~InList(S, N, l, t)
  BY <1>4 DEF InList
<1>7. Good(q, S, N)
  BY <1>1, <1>2, <1>3, <1>5, <1>6, ZenonT(60) DEF Good, ListName
<1> QED BY <1>7, ZenonT(60) DEF Lists

ListsInv == Lists(q) /\ now \in Time

\* Every step keeps the lists.
LEMMA ListsStep == ASSUME ListsInv, [FdNext]_fdVars PROVE ListsInv'
PROOF
<1>1. Lists(q) /\ now \in Time
  BY ZenonT(60) DEF ListsInv
<1> DEFINE D == {t \in Alarm : Linked(t)}
<1>2. Holds(q, D) /\ "deadlines" \in ListName /\ \A p, E : Holds(p, E) => Lists(p)
  BY <1>1, ListsHold, ZenonT(60) DEF Holds, Lists, ListName
<1>3. ASSUME NEW t \in Alarm PROVE Lists(Unscheduled(q, t))
  <2> HIDE DEF D
  <2> QED BY <1>2, UnscheduleHolds, ZenonT(60)
<1>4. CASE StartPoll
  <2>1. q' = Elapsed(q) /\ now' = now
    BY <1>4, ZenonT(60) DEF StartPoll
  <2> HIDE DEF D
  <2> QED BY <1>1, <1>2, <2>1, ElapsedKeeps, ZenonT(60) DEF ListsInv
<1>5. CASE CallAlarm
  <2>1. q' = Unscheduled(q, q.deadlines) /\ now' = now /\ q.deadlines # None
    BY <1>5, ZenonT(60) DEF CallAlarm, Due
  <2>2. q.deadlines \in Alarm
    BY <1>2, <2>1, HeadHeld, ZenonT(60)
  <2> QED BY <1>1, <1>3, <2>1, <2>2, ZenonT(60) DEF ListsInv
<1>6. ASSUME NEW t \in Alarm, NEW at \in Time, NEW by \in Time, Schedule(t, at, by) PROVE ListsInv'
  <2>1. q' = Scheduled(q, t, at, by) /\ ~Linked(t) /\ now' = now
    BY <1>6, ZenonT(60) DEF Schedule
  <2>2. t \notin D
    BY <2>1, ZenonT(60)
  <2> HIDE DEF D
  <2> QED BY <1>1, <1>2, <1>6, <2>1, <2>2, ScheduledKeeps, ZenonT(60) DEF ListsInv
<1>7. ASSUME NEW t \in Alarm, Unschedule(t) PROVE ListsInv'
  BY <1>1, <1>3, <1>7, ZenonT(60) DEF Unschedule, ListsInv
<1>8. CASE TimePasses
  <2>1. q' = q /\ now' \in Time
    BY <1>1, <1>8, FdAssumption DEF TimePasses, Time
  <2> QED BY <1>1, <2>1, ZenonT(60) DEF ListsInv
<1>9. CASE CallNoAlarm \/ CallDescr \/ SkipDescr \/ EndPoll \/ Return
             \/ (\E d \in Descr : Watch(d) \/ Unwatch(d)) \/ UNCHANGED fdVars
  <2>1. q' = q /\ now' = now
    BY <1>9, ZenonT(60) DEF CallNoAlarm, CallDescr, SkipDescr, EndPoll, Return, Watch, Unwatch, fdVars
  <2> QED BY <1>1, <2>1, ZenonT(60) DEF ListsInv
<1> QED BY <1>4, <1>5, <1>6, <1>7, <1>8, <1>9, ZenonT(60) DEF FdNext, Loop

\* The lists are lists, whatever callbacks do.
LEMMA ListsInvariance == FdSpec => []ListsInv
PROOF
<1>1. FdInit => ListsInv
  BY InitLists, FdAssumption DEF FdInit, ListsInv, Time
<1> QED BY <1>1, ListsStep, PTL DEF FdSpec

\* However many alarms there are, the two lists share no alarm, are linked both ways, end, and
\* are in order of time, whatever callbacks schedule and unschedule (schedule(), deadline(),
\* unschedule(), fd_poll()).
THEOREM ListsStayWellFormed == FdSpec => []ListsWellFormed
PROOF
<1>1. ListsInv => ListsWellFormed
  BY ListsAreWellFormed, ZenonT(60) DEF ListsInv
<1> QED BY <1>1, ListsInvariance, PTL

-----------------------------------------------------------------------------
(* The table                                                                *)

\* The type of the table, and of the index of the loop over it.
TableType ==
    /\ w \in [fdcount : 0..MaxWatched,
              fds : [0..MaxWatched - 1 -> [fd : Descr \cup {None}, revents : BOOLEAN]],
              callbacks : [0..MaxWatched - 1 -> Descr \cup {None}],
              index : [Descr -> -1..MaxWatched - 1], revents : [Descr -> BOOLEAN]]
    /\ i \in Nat

TableInv == TableType /\ TableMatches

\* Initially nothing is watched.
LEMMA InitTable == FdInit => TableInv
BY FdAssumption DEF FdInit, TableInv, TableType, TableMatches

\* watch() adds an entry at the end, or changes the events of one.
LEMMA WatchStep == ASSUME TableInv, NEW d \in Descr, Watch(d) PROVE TableInv'
<1> USE FdAssumption
<1>1. TableType /\ TableMatches
  BY ZenonT(60) DEF TableInv
<1>2. CASE IsWatched(d)
  <2>1. w' = [w EXCEPT !.fds[w.index[d]] = [fd |-> d, revents |-> w.revents[d]]] /\ i' = i
    BY <1>2, ZenonT(60) DEF Watch
  <2>2. w.index[d] \in 0..MaxWatched - 1 /\ w.callbacks[w.index[d]] = d
    BY <1>1, <1>2 DEF IsWatched, TableType
  <2>3. TableType'
    BY <1>1, <2>1, <2>2, ZenonT(60) DEF TableType
  <2>4. TableMatches'
    BY <1>1, <2>1, <2>2 DEF TableType, TableMatches
  <2> QED BY <2>3, <2>4, ZenonT(60) DEF TableInv
<1>3. CASE ~IsWatched(d)
  <2> DEFINE n == w.fdcount
  <2>1. /\ n < MaxWatched /\ i' = i
        /\ w' = [fdcount   |-> n + 1,
                 fds       |-> [w.fds EXCEPT ![n] = [fd |-> d, revents |-> FALSE]],
                 callbacks |-> [w.callbacks EXCEPT ![n] = d],
                 index     |-> [w.index EXCEPT ![d] = n],
                 revents   |-> [w.revents EXCEPT ![d] = FALSE]]
    BY <1>3, ZenonT(60) DEF Watch
  <2>2. n \in 0..MaxWatched - 1
    BY <1>1, <2>1 DEF TableType
  <2>3. TableType'
    BY <1>1, <2>1, <2>2 DEF TableType
  <2>4. \A k \in 0..MaxWatched - 1 : k < n => w.callbacks[k] # d
    BY <1>1, <1>3, <2>2 DEF TableType, TableMatches, IsWatched
  <2>5. TableMatches'
    BY <1>1, <2>1, <2>2, <2>4 DEF TableType, TableMatches
  <2> QED BY <2>3, <2>5, ZenonT(60) DEF TableInv
<1> QED BY <1>2, <1>3, ZenonT(60)

\* unwatch() moves the last entry into the place of the one that goes.
LEMMA UnwatchStep == ASSUME TableInv, NEW d \in Descr, Unwatch(d) PROVE TableInv'
<1> USE FdAssumption
<1>1. TableType /\ TableMatches
  BY ZenonT(60) DEF TableInv
<1> DEFINE last == w.fdcount - 1
           at == w.index[d]
           moved == w.callbacks[last]
<1>2. /\ at \in 0..MaxWatched - 1 /\ at < w.fdcount /\ w.callbacks[at] = d
      /\ last \in 0..MaxWatched - 1 /\ moved \in Descr
  BY <1>1 DEF Unwatch, TableType, TableMatches
<1>3. /\ w' = [fdcount   |-> last,
               fds       |-> [[w.fds EXCEPT ![at] = w.fds[last]] EXCEPT ![last].fd = None],
               callbacks |-> [[w.callbacks EXCEPT ![at] = moved] EXCEPT ![last] = None],
               index     |-> [[w.index EXCEPT ![moved] = at] EXCEPT ![d] = -1],
               revents   |-> w.revents]
      /\ i' = i
  BY ZenonT(60) DEF Unwatch, Unwatched
<1> DEFINE Entries == [0..MaxWatched - 1 -> [fd : Descr \cup {None}, revents : BOOLEAN]]
           F == [w.fds EXCEPT ![at] = w.fds[last]]
<1>4. TableType'
  <2>1. F \in Entries
    BY <1>1, <1>2, ZenonT(60) DEF TableType
  <2>2. [F EXCEPT ![last].fd = None] \in Entries
    <3> HIDE DEF F, last
    <3> QED BY <1>2, <2>1, ZenonT(60)
  <2>3. w'.fds \in Entries
    BY <1>3, <2>2
  <2> HIDE DEF F, Entries
  <2>4. /\ w'.callbacks \in [0..MaxWatched - 1 -> Descr \cup {None}]
        /\ w'.index \in [Descr -> -1..MaxWatched - 1]
        /\ w'.revents \in [Descr -> BOOLEAN] /\ w'.fdcount \in 0..MaxWatched /\ i' \in Nat
    <3>1. /\ w'.callbacks = [[w.callbacks EXCEPT ![at] = moved] EXCEPT ![last] = None]
          /\ w'.index = [[w.index EXCEPT ![moved] = at] EXCEPT ![d] = -1]
          /\ w'.revents = w.revents /\ w'.fdcount = last /\ i' = i
      BY <1>3, ZenonT(60)
    <3>2. w'.revents \in [Descr -> BOOLEAN] /\ w'.fdcount \in 0..MaxWatched /\ i' \in Nat
      BY <1>1, <1>2, <3>1 DEF TableType
    <3>3. w'.callbacks \in [0..MaxWatched - 1 -> Descr \cup {None}]
      BY <1>1, <1>2, <3>1, ZenonT(60) DEF TableType
    <3>4. w'.index \in [Descr -> -1..MaxWatched - 1]
      BY <1>1, <1>2, <3>1 DEF TableType
    <3> QED BY <3>2, <3>3, <3>4, ZenonT(60)
  <2>5. w' = [fdcount |-> w'.fdcount, fds |-> w'.fds, callbacks |-> w'.callbacks,
              index |-> w'.index, revents |-> w'.revents]
    BY <1>3, ZenonT(60)
  <2>6. w' \in [fdcount : 0..MaxWatched, fds : Entries,
               callbacks : [0..MaxWatched - 1 -> Descr \cup {None}],
               index : [Descr -> -1..MaxWatched - 1], revents : [Descr -> BOOLEAN]]
    BY <2>3, <2>4, <2>5
  <2> QED BY <2>4, <2>6, ZenonT(60) DEF TableType, Entries
<1>5. TableMatches'
  <2>1. /\ w'.fdcount = last
        /\ \A k \in 0..MaxWatched - 1 :
             /\ w'.callbacks[k] = IF k = last THEN None ELSE IF k = at THEN moved ELSE w.callbacks[k]
             /\ w'.fds[k].fd = IF k = last THEN None ELSE IF k = at THEN w.fds[last].fd ELSE w.fds[k].fd
        /\ \A x \in Descr : w'.index[x] = IF x = d THEN -1 ELSE IF x = moved THEN at ELSE w.index[x]
    <3>1. /\ w.fds \in Entries /\ w.callbacks \in [0..MaxWatched - 1 -> Descr \cup {None}]
          /\ w.index \in [Descr -> -1..MaxWatched - 1]
      BY <1>1, ZenonT(60) DEF TableType
    <3> QED BY <1>2, <1>3, <3>1, ZenonT(60)
  <2>2. /\ \A k \in 0..MaxWatched - 1 : k < w.fdcount =>
             w.callbacks[k] \in Descr /\ w.index[w.callbacks[k]] = k /\ w.fds[k].fd = w.callbacks[k]
        /\ \A k \in 0..MaxWatched - 1 : ~(k < w.fdcount) => w.callbacks[k] = None /\ w.fds[k].fd = None
        /\ \A x \in Descr : w.index[x] >= 0 => w.index[x] < w.fdcount /\ w.callbacks[w.index[x]] = x
        /\ \A x \in Descr : w.index[x] \in -1..MaxWatched - 1
        /\ w.fdcount \in Nat /\ last = w.fdcount - 1
    BY <1>1 DEF TableMatches, TableType
  <2> HIDE DEF last, at, moved
  <2>3. w.index[d] = at /\ w.callbacks[last] = moved
    BY ZenonT(60) DEF at, moved
  <2>4. ASSUME NEW k \in 0..MaxWatched - 1, k < last
        PROVE  w'.callbacks[k] \in Descr /\ w'.index[w'.callbacks[k]] = k /\ w'.fds[k].fd = w'.callbacks[k]
    <3>1. CASE k = at
      BY <1>2, <2>1, <2>2, <2>3, <2>4, <3>1
    <3>2. CASE k # at
      <4>1. k < w.fdcount /\ w'.callbacks[k] = w.callbacks[k] /\ w'.fds[k].fd = w.fds[k].fd
        BY <1>2, <2>1, <2>2, <2>4, <3>2
      <4>2. w.callbacks[k] # d /\ w.callbacks[k] # moved
        BY <1>2, <2>2, <2>3, <2>4, <3>2, <4>1
      <4> QED BY <2>1, <2>2, <4>1, <4>2
    <3> QED BY <3>1, <3>2
  <2>5. ASSUME NEW k \in 0..MaxWatched - 1, ~(k < last)
        PROVE  w'.callbacks[k] = None /\ w'.fds[k].fd = None
    <3>1. k = last \/ (~(k < w.fdcount) /\ k # at /\ k # last)
      BY <1>2, <2>2, <2>5
    <3> QED BY <2>1, <2>2, <3>1
  <2>6. ASSUME NEW x \in Descr, w'.index[x] >= 0
        PROVE  w'.index[x] < last /\ w'.callbacks[w'.index[x]] = x
    <3>1. x # d
      BY <2>1, <2>6
    <3>2. CASE x = moved
      <4>1. at # last
        BY <1>2, <2>3, <3>1, <3>2
      <4> QED BY <1>2, <2>1, <2>2, <3>1, <3>2, <4>1
    <3>3. CASE x # moved
      <4>1. w'.index[x] = w.index[x] /\ w.index[x] < w.fdcount /\ w.callbacks[w.index[x]] = x
              /\ w.index[x] \in 0..MaxWatched - 1
        BY <2>1, <2>2, <2>6, <3>1, <3>3
      <4>2. w.index[x] # last /\ w.index[x] # at
        BY <1>2, <2>3, <3>1, <3>3, <4>1, ZenonT(60)
      <4> QED BY <1>2, <2>1, <2>2, <4>1, <4>2
    <3> QED BY <3>2, <3>3
  <2> QED BY <2>1, <2>4, <2>5, <2>6, ZenonT(60) DEF TableMatches
<1> QED BY <1>4, <1>5, ZenonT(60) DEF TableInv

\* What fd_poll() does changes the events only.
LEMMA LoopStep == ASSUME TableInv, Loop PROVE TableInv'
<1> USE FdAssumption
<1>1. TableType /\ TableMatches
  BY ZenonT(60) DEF TableInv
<1>2. CASE StartPoll
  <2>1. PICK R : w' = [w EXCEPT !.fds = [k \in DOMAIN w.fds |->
                        IF k < w.fdcount THEN [w.fds[k] EXCEPT !.revents = w.fds[k].fd \in R]
                        ELSE w.fds[k]]]
    BY <1>2, ZenonT(60) DEF StartPoll
  <2>2. i' = 0
    BY <1>2, ZenonT(60) DEF StartPoll
  <2> DEFINE F == [k \in DOMAIN w.fds |->
                    IF k < w.fdcount THEN [w.fds[k] EXCEPT !.revents = w.fds[k].fd \in R]
                    ELSE w.fds[k]]
  <2>3. DOMAIN w.fds = 0..MaxWatched - 1
    BY <1>1, ZenonT(60) DEF TableType
  <2>4. ASSUME NEW k \in 0..MaxWatched - 1
        PROVE  F[k] \in [fd : Descr \cup {None}, revents : BOOLEAN] /\ F[k].fd = w.fds[k].fd
    <3>1. w.fds[k] \in [fd : Descr \cup {None}, revents : BOOLEAN]
      BY <1>1, ZenonT(60) DEF TableType
    <3>2. F[k] = IF k < w.fdcount THEN [w.fds[k] EXCEPT !.revents = w.fds[k].fd \in R] ELSE w.fds[k]
      BY <2>3, ZenonT(60)
    <3>3. (w.fds[k].fd \in R) \in BOOLEAN
      OBVIOUS
    <3> HIDE DEF F
    <3> QED BY <3>1, <3>2, <3>3, ZenonT(60)
  <2>5. F \in [0..MaxWatched - 1 -> [fd : Descr \cup {None}, revents : BOOLEAN]]
    BY <2>3, <2>4, ZenonT(60)
  <2>6. w' = [w EXCEPT !.fds = F]
    BY <2>1, ZenonT(60)
  <2> HIDE DEF F
  <2>7. TableType'
    BY <1>1, <2>2, <2>5, <2>6, ZenonT(60) DEF TableType
  <2>8. TableMatches'
    BY <1>1, <2>4, <2>6, ZenonT(60) DEF TableType, TableMatches
  <2> QED BY <2>7, <2>8, ZenonT(60) DEF TableInv
<1>3. CASE CallDescr
  <2>1. i \in 0..MaxWatched - 1 /\ w.callbacks[i] \in Descr
    BY <1>1, <1>3 DEF CallDescr, TableType, TableMatches
  <2>2. w' = [w EXCEPT !.revents[w.callbacks[i]] = TRUE] /\ i' = i
    BY <1>3 DEF CallDescr
  <2> QED BY <1>1, <2>1, <2>2, ZenonT(60) DEF TableInv, TableType, TableMatches
<1>4. CASE CallAlarm \/ CallNoAlarm \/ SkipDescr \/ EndPoll \/ Return
  <2>1. w' = w /\ i' \in Nat
    BY <1>1, <1>4 DEF CallAlarm, CallNoAlarm, SkipDescr, EndPoll, Return, TableType
  <2> QED BY <1>1, <2>1, ZenonT(60) DEF TableInv, TableType, TableMatches
<1> QED BY <1>2, <1>3, <1>4, ZenonT(60) DEF Loop

\* The table and its indices have their types, and agree, in every state.
THEOREM TableInvariance == FdSpec => []TableInv
<1>1. TableInv /\ [FdNext]_fdVars => TableInv'
  <2> SUFFICES ASSUME TableInv, [FdNext]_fdVars PROVE TableInv'
    BY ZenonT(60)
  <2>1. CASE Loop
    BY <2>1, LoopStep, ZenonT(60)
  <2>2. CASE TimePasses
    BY <2>2, ZenonT(60) DEF TimePasses, TableInv, TableType, TableMatches
  <2>3. ASSUME NEW t \in Alarm, NEW at \in Time, NEW by \in Time, Schedule(t, at, by) PROVE TableInv'
    BY <2>3, ZenonT(60) DEF Schedule, TableInv, TableType, TableMatches
  <2>4. ASSUME NEW t \in Alarm, Unschedule(t) PROVE TableInv'
    BY <2>4, ZenonT(60) DEF Unschedule, TableInv, TableType, TableMatches
  <2>5. ASSUME NEW d \in Descr, Watch(d) \/ Unwatch(d) PROVE TableInv'
    BY <2>5, WatchStep, UnwatchStep
  <2>6. CASE UNCHANGED fdVars
    BY <2>6, ZenonT(60) DEF fdVars, TableInv, TableType, TableMatches
  <2> QED BY <2>1, <2>2, <2>3, <2>4, <2>5, <2>6, ZenonT(60) DEF FdNext
<1> QED BY InitTable, <1>1, PTL DEF FdSpec

\* A watched descriptor is in the table once, where its alarm says, with that
\* alarm as its callback, whatever callbacks watch and unwatch (watch(),
\* unwatch(), fd_poll()).
THEOREM TableAgrees == FdSpec => []TableMatches
<1>1. TableInv => TableMatches
  BY ZenonT(60) DEF TableInv
<1> QED BY <1>1, TableInvariance, PTL

-----------------------------------------------------------------------------
(* The types                                                                *)

\* The rest of the variables.  A callback of a descriptor was called from within the table,
\* so that the loop does not go beyond its end when it returns.
RestType ==
    /\ polling \in {"setup", "top", "due", "alarm", "scan", "descr"}
    /\ ready \in BOOLEAN /\ i \in 0..MaxWatched
    /\ called \in Alarm \cup Descr \cup {None}
    /\ polling = "descr" => i < MaxWatched

\* Every step keeps the types of the other variables.
LEMMA RestStep == ASSUME ListsInv, TableInv, RestType, [FdNext]_fdVars PROVE RestType'
PROOF
<1>1. /\ w.fdcount \in 0..MaxWatched /\ MaxWatched \in Nat
      /\ \A k \in 0..MaxWatched - 1 : k < w.fdcount => w.callbacks[k] \in Descr
  BY FdAssumption, ZenonT(60) DEF TableInv, TableType, TableMatches
<1>2. CASE StartPoll
  <2>1. polling' = "due" /\ i' = 0 /\ called' = called /\ \E R : ready' = (R # {})
    BY <1>2, ZenonT(60) DEF StartPoll
  <2> QED BY <1>1, <2>1 DEF RestType
<1>3. CASE CallAlarm
  <2>1. q.deadlines # None /\ called' = q.deadlines /\ polling' = "alarm" /\ ready' = ready /\ i' = i
    BY <1>3, ZenonT(60) DEF CallAlarm, Due
  <2>2. q.deadlines \in Alarm
    BY <2>1, HeadListed, ZenonT(60) DEF ListsInv, Lists, ListName
  <2> QED BY <2>1, <2>2, ZenonT(60) DEF RestType
<1>4. CASE CallDescr
  BY <1>1, <1>4 DEF CallDescr, RestType
<1>5. CASE SkipDescr
  BY <1>1, <1>5 DEF SkipDescr, RestType
<1>6. CASE Return
  BY <1>1, <1>6 DEF Return, RestType
<1>7. CASE CallNoAlarm \/ EndPoll
  BY <1>7, ZenonT(60) DEF CallNoAlarm, EndPoll, RestType
<1>8. CASE TimePasses
  BY <1>8, ZenonT(60) DEF TimePasses, RestType
<1>9. ASSUME NEW t \in Alarm, NEW at \in Time, NEW by \in Time, Schedule(t, at, by) PROVE RestType'
  BY <1>9, ZenonT(60) DEF Schedule, RestType
<1>10. ASSUME NEW t \in Alarm, Unschedule(t) PROVE RestType'
  BY <1>10, ZenonT(60) DEF Unschedule, RestType
<1>11. ASSUME NEW d \in Descr, Watch(d) \/ Unwatch(d) PROVE RestType'
  BY <1>11, ZenonT(60) DEF Watch, Unwatch, RestType
<1>12. CASE UNCHANGED fdVars
  BY <1>12, ZenonT(60) DEF fdVars, RestType
<1> QED BY <1>2, <1>3, <1>4, <1>5, <1>6, <1>7, <1>8, <1>9, <1>10, <1>11, <1>12 DEF FdNext, Loop

\* Every variable of the event loop stays in its range: the index of the loop over the
\* descriptors, which callbacks may make fewer, among them (fd_poll()).
THEOREM TypeCorrect == FdSpec => []FdTypeOK
PROOF
<1>1. FdInit => RestType
  <2> SUFFICES ASSUME FdInit PROVE RestType
    BY ZenonT(60)
  <2>1. polling = "setup" /\ ready \in BOOLEAN /\ i = 0 /\ called = None
    BY ZenonT(60) DEF FdInit
  <2>2. i \in 0..MaxWatched
    BY <2>1, FdAssumption
  <2> QED BY <2>1, <2>2, ZenonT(60) DEF RestType
<1>2. ListsInv /\ TableInv /\ RestType => FdTypeOK
  BY ZenonT(60) DEF ListsInv, Lists, Good, Queue, Entry, MaybeAlarm, TableInv, TableType, RestType, FdTypeOK
<1> QED BY <1>1, <1>2, RestStep, ListsInvariance, TableInvariance, PTL DEF FdSpec

-----------------------------------------------------------------------------
(* Registering with the directory service                                   *)

Reachable == {"NONE", "BROADCAST", "DIRECT", "INDIRECT", "UNICAST"}

\* directory_update() is running.
Updating == polling = "alarm" /\ called = directory_alarm

\* The service is loaded before the loop begins; its alarm is in no list when the service is
\* not loaded, and when directory_update() is called, which schedules it without a look.
DirectoryInv ==
    /\ ListsInv
    /\ directory \in [reachable : Reachable, node : BOOLEAN] \cup {NotLoaded}
    /\ polling # "setup" => directory # NotLoaded
    /\ Updating \/ (polling = "setup" /\ directory = NotLoaded) => ~Linked(directory_alarm)
    /\ KeepsRegistering

\* Initially the lists are empty.
LEMMA DirectoryInitially == DirectoryInit => DirectoryInv
PROOF
<1> SUFFICES ASSUME DirectoryInit PROVE DirectoryInv
  BY ZenonT(60)
<1>1. FdInit /\ directory = NotLoaded
  BY ZenonT(60) DEF DirectoryInit
<1>2. ListsInv
  BY <1>1, InitLists, FdAssumption DEF FdInit, ListsInv, Time
<1>3. polling = "setup" /\ ~Linked(directory_alarm)
  BY <1>1, FdAssumption, DirectoryAssumption, ZenonT(60) DEF FdInit, Linked, Ent
<1>4. NotLoaded.reachable = "not loaded"
  BY ZenonT(60) DEF NotLoaded
<1> QED BY <1>1, <1>2, <1>3, <1>4, ZenonT(60) DEF DirectoryInv, Updating, KeepsRegistering

\* directory_registration() leaves the alarm in the lists, whether it was there or not.
LEMMA RegisteredHolds ==
    ASSUME NEW D, Holds(q, D), now \in Time, now + Soon <= MaxTime
    PROVE  Holds(Registered(q), D \cup {directory_alarm})
PROOF
<1>1. directory_alarm \in Alarm /\ now + Soon \in Time
  BY FdAssumption, DirectoryAssumption DEF Time
<1>2. Holds(Unscheduled(q, directory_alarm), D \ {directory_alarm})
  BY <1>1, UnscheduleHolds, ZenonT(60)
<1>3. (D \ {directory_alarm}) \cup {directory_alarm} = D \cup {directory_alarm}
  BY ZenonT(60)
<1>4. Holds(Registered(q), (D \ {directory_alarm}) \cup {directory_alarm})
  BY <1>1, <1>2, ScheduledKeeps, ZenonT(60) DEF Registered
<1> QED BY <1>3, <1>4, ZenonT(60)

\* Every step keeps the alarm of the service scheduled while there is a route to it, and those of
\* others until they are called.
LEMMA DirectoryStep ==
    ASSUME ~Configured, DirectoryInv, [DirectoryNext]_directoryVars
    PROVE  /\ DirectoryInv'
           /\ \A t \in Alarm \ {directory_alarm} : Linked(t) => Linked(t)' \/ called' = t
PROOF
<1> DEFINE D == {t \in Alarm : Linked(t)}
           a == directory_alarm
           Others == \A t \in Alarm \ {a} : Linked(t) => Linked(t)' \/ called' = t
<1>1. /\ Holds(q, D) /\ now \in Time /\ a \in Alarm
      /\ \A t \in Alarm : Linked(t) <=> t \in D
  BY ListsHold, DirectoryAssumption, ZenonT(60) DEF DirectoryInv, ListsInv
<1>2. ASSUME NEW E, Holds(q', E), now' \in Time,
             \A t \in Alarm \ {a} : t \in D => t \in E \/ called' = t
      PROVE  /\ ListsInv' /\ Others
             /\ Linked(a)' <=> a \in E
  <2> HIDE DEF D
  <2>1. \A t \in Alarm : Linked(t)' <=> t \in E
    BY <1>2, LinkedIs, ZenonT(60) DEF Linked
  <2>2. ListsInv'
    BY <1>2, ZenonT(60) DEF ListsInv, Lists, Holds
  <2> QED BY <1>1, <1>2, <2>1, <2>2, ZenonT(60)
<1> HIDE DEF D, Others
<1>3. CASE DirectoryServiceInit
  <2>1. /\ polling = "setup" /\ directory = NotLoaded /\ DirectoryUpdate
        /\ now' = now /\ polling' = polling
    BY <1>3, ZenonT(60) DEF DirectoryServiceInit
  <2>2. Loaded = [reachable |-> "NONE", node |-> FALSE] /\ ~AddressApplies
    BY <2>1, ZenonT(60) DEF Loaded, AddressApplies
  <2>3. directory' = [reachable |-> "NONE", node |-> FALSE] /\ q' = q
    BY <2>1, <2>2, ZenonT(60) DEF DirectoryUpdate, Discovered, IsReachable
  <2>4. ListsInv' /\ Others
    BY <1>1, <1>2, <2>1, <2>3, ZenonT(60)
  <2> QED BY <2>1, <2>3, <2>4, ZenonT(60) DEF DirectoryInv, Updating, KeepsRegistering, NotLoaded, Reachable, Others
<1>4. CASE DirectoryCallback
  <2> DEFINE old == directory.reachable
  <2>1. /\ Updating /\ DirectoryUpdate
        /\ now' = now /\ polling' = "scan" /\ up' = up
    BY <1>4, ZenonT(60) DEF DirectoryCallback, Updating
  <2>2. directory \in [reachable : Reachable, node : BOOLEAN] /\ directory # NotLoaded /\ a \notin D
    BY <1>1, <2>1, ZenonT(60) DEF DirectoryInv, Updating
  <2>3. Loaded = directory /\ ~AddressApplies /\ ~Discovered(old, old)
    BY <2>2, ZenonT(60) DEF Loaded, AddressApplies, Discovered
  <2>4. /\ directory' = [directory EXCEPT !.reachable = old] /\ now + Interval <= MaxTime
        /\ q' = IF IsReachable(old) THEN Scheduled(q, a, now + Interval, now + Interval) ELSE q
    BY <2>1, <2>3, ZenonT(60) DEF DirectoryUpdate
  <2>5. directory' = directory
    BY <2>2, <2>4, ZenonT(60)
  <2>6. now + Interval \in Time
    BY <1>1, <2>4, FdAssumption, DirectoryAssumption DEF Time
  <2>7. CASE IsReachable(old)
    <3>1. Holds(q', D \cup {a})
      BY <1>1, <2>2, <2>4, <2>6, <2>7, ScheduledKeeps, ZenonT(60)
    <3>2. ListsInv' /\ Others /\ Linked(a)'
      BY <1>1, <1>2, <2>1, <3>1
    <3> QED BY <2>1, <2>2, <2>5, <3>2, ZenonT(60) DEF DirectoryInv, Updating, KeepsRegistering, Others
  <2>8. CASE ~IsReachable(old)
    <3>1. q' = q
      BY <2>4, <2>8, ZenonT(60)
    <3>2. ListsInv' /\ Others
      BY <1>1, <1>2, <2>1, <3>1, ZenonT(60)
    <3>3. KeepsRegistering'
      BY <2>1, <2>5, <2>8, ZenonT(60) DEF IsReachable, KeepsRegistering
    <3> QED BY <2>1, <2>2, <2>5, <3>2, <3>3, ZenonT(60) DEF DirectoryInv, Updating, Others
  <2> QED BY <2>7, <2>8, ZenonT(60)
<1>5. ASSUME polling = "scan", polling' = "scan", now' = now, called' = called, directory # NotLoaded,
             directory' \in [reachable : Reachable, node : BOOLEAN], directory' # NotLoaded,
             (q' = q /\ KeepsRegistering') \/ (q' = Registered(q) /\ now + Soon <= MaxTime)
      PROVE  DirectoryInv' /\ Others
  <2>1. CASE q' = q /\ KeepsRegistering'
    <3>1. ListsInv' /\ Others
      BY <1>1, <1>2, <1>5, <2>1, ZenonT(60)
    <3> QED BY <1>5, <2>1, <3>1, ZenonT(60) DEF DirectoryInv, Updating
  <2>2. CASE q' = Registered(q) /\ now + Soon <= MaxTime
    <3>1. Holds(q', D \cup {a})
      BY <1>1, <2>2, RegisteredHolds, ZenonT(60)
    <3>2. ListsInv' /\ Others /\ Linked(a)'
      BY <1>1, <1>2, <1>5, <3>1, ZenonT(60)
    <3> QED BY <1>5, <3>2, ZenonT(60) DEF DirectoryInv, Updating, KeepsRegistering
  <2> QED BY <1>5, <2>1, <2>2, ZenonT(60)
<1>6. ASSUME Outside PROVE directory # NotLoaded /\ directory \in [reachable : Reachable, node : BOOLEAN]
                           /\ polling = "scan" /\ now + Soon <= MaxTime /\ ~Updating
  BY <1>6, ZenonT(60) DEF Outside, DirectoryInv, Updating
<1>7. CASE InterfaceUp
  <2>1. /\ Outside /\ q' = Registered(q) /\ directory' = directory
        /\ now' = now /\ polling' = polling /\ called' = called
    BY <1>7, ZenonT(60) DEF InterfaceUp
  <2> QED BY <1>5, <1>6, <2>1, ZenonT(60) DEF Others
<1>8. CASE InterfaceDown
  <2>1. /\ Outside /\ q' = q /\ directory' = directory /\ up' = FALSE
        /\ now' = now /\ polling' = polling /\ called' = called
    BY <1>8, ZenonT(60) DEF InterfaceDown, fdVars
  <2>2. KeepsRegistering'
    BY <2>1, ZenonT(60) DEF KeepsRegistering
  <2> QED BY <1>5, <1>6, <2>1, <2>2, ZenonT(60) DEF Others
<1>9. CASE GetNode
  <2>1. /\ Outside /\ q' = q /\ directory' = [reachable |-> "NONE", node |-> TRUE]
        /\ now' = now /\ polling' = polling /\ called' = called
    BY <1>9, ZenonT(60) DEF GetNode, fdVars
  <2>2. KeepsRegistering' /\ directory' # NotLoaded
    BY <2>1, ZenonT(60) DEF KeepsRegistering, NotLoaded
  <2>3. directory' \in [reachable : Reachable, node : BOOLEAN]
    BY <2>1, ZenonT(60) DEF Reachable
  <2> QED BY <1>5, <1>6, <2>1, <2>2, <2>3, ZenonT(60) DEF Others
<1>10. ASSUME NEW new \in Reachable, Outside, SetReachable(new), up' = up,
              now' = now, polling' = polling, called' = called
       PROVE  DirectoryInv' /\ Others
  <2>1. /\ directory' \in [reachable : Reachable, node : BOOLEAN] /\ directory'.reachable = new
        /\ q' = IF Discovered(directory.reachable, new) THEN Registered(q) ELSE q
    BY <1>6, <1>10, ZenonT(60) DEF SetReachable
  <2>2. directory' # NotLoaded
    <3>1. NotLoaded.reachable = "not loaded" /\ "not loaded" \notin Reachable
      BY ZenonT(60) DEF NotLoaded, Reachable
    <3> QED BY <1>10, <2>1, <3>1, ZenonT(60)
  <2>3. ASSUME ~Discovered(directory.reachable, new) PROVE q' = q /\ KeepsRegistering'
    <3>1. q' = q
      BY <2>1, <2>3, ZenonT(60)
    <3>2. new \in {"DIRECT", "INDIRECT", "UNICAST"} => directory.reachable \in {"DIRECT", "INDIRECT", "UNICAST"}
      BY <1>6, <1>10, <2>3, ZenonT(60) DEF Discovered, Reachable
    <3>3. directory.reachable \in {"DIRECT", "INDIRECT", "UNICAST"} /\ up => Linked(a)
      BY <1>6, <1>10, ZenonT(60) DEF DirectoryInv, KeepsRegistering, Updating
    <3> QED BY <1>10, <2>1, <3>1, <3>2, <3>3, ZenonT(60) DEF KeepsRegistering, Linked
  <2> QED BY <1>5, <1>6, <1>10, <2>1, <2>2, <2>3, ZenonT(60)
<1>11. CASE HeardUnicast
  BY <1>10, <1>11, ZenonT(60) DEF HeardUnicast, Reachable, Others
<1>12. ASSUME NEW new \in {"NONE", "BROADCAST", "DIRECT", "INDIRECT"}, RouteChanges(new)
       PROVE  DirectoryInv' /\ Others
  BY <1>10, <1>12, ZenonT(60) DEF RouteChanges, Reachable
<1>13. ASSUME NEW t \in Alarm \ {a}, NEW at \in now..MaxTime, OtherAlarm(t, at)
       PROVE  DirectoryInv' /\ Others
  <2>1. /\ ~Linked(t) /\ q' = Scheduled(q, t, at, at) /\ now' = now /\ polling' = polling
        /\ called' = called /\ directory' = directory /\ up' = up
    BY <1>13, ZenonT(60) DEF OtherAlarm, Schedule
  <2>2. at \in Time /\ t \notin D
    BY <1>1, <1>13, <2>1, FdAssumption DEF Time
  <2>3. Holds(q', D \cup {t})
    BY <1>1, <2>1, <2>2, ScheduledKeeps, ZenonT(60)
  <2>4. ListsInv' /\ Others /\ (Linked(a)' <=> Linked(a))
    BY <1>1, <1>2, <1>13, <2>1, <2>3, ZenonT(60)
  <2> QED BY <2>1, <2>4, ZenonT(60) DEF DirectoryInv, Updating, KeepsRegistering
<1>14. CASE LoopGoesOn
  <2>1. directory' = directory /\ up' = up
    BY <1>14, ZenonT(60) DEF LoopGoesOn
  <2>2. CASE StartPoll
    <3>1. q' = Elapsed(q) /\ now' = now /\ polling = "top" /\ polling' = "due" /\ called' = called
      BY <2>2, ZenonT(60) DEF StartPoll
    <3>2. ListsInv' /\ Others /\ (Linked(a)' <=> Linked(a))
      BY <1>1, <1>2, <3>1, ElapsedKeeps, ZenonT(60)
    <3> QED BY <2>1, <3>1, <3>2, ZenonT(60) DEF DirectoryInv, Updating, KeepsRegistering, Others
  <2>3. CASE CallAlarm
    <3> DEFINE t == q.deadlines
    <3>1. /\ q' = Unscheduled(q, t) /\ now' = now /\ t # None /\ called' = t
          /\ polling = "due" /\ polling' = "alarm"
      BY <2>3, ZenonT(60) DEF CallAlarm, Due
    <3>2. t \in Alarm
      BY <1>1, <3>1, HeadHeld, ZenonT(60) DEF ListName
    <3>3. Holds(q', D \ {t})
      BY <1>1, <3>1, <3>2, UnscheduleHolds, ZenonT(60)
    <3>4. ListsInv' /\ Others /\ (Linked(a)' <=> Linked(a) /\ a # t)
      BY <1>1, <1>2, <3>1, <3>3
    <3> QED BY <2>1, <3>1, <3>4, ZenonT(60) DEF DirectoryInv, Updating, KeepsRegistering, Others
  <2>4. CASE CallNoAlarm \/ EndPoll \/ TimePasses \/ (Return /\ (polling = "setup" => directory # NotLoaded)
                                                             /\ called # a)
    <3>1. q' = q /\ now' \in Time /\ called' = called
      BY <1>1, <2>4, FdAssumption DEF CallNoAlarm, EndPoll, TimePasses, Return, Time
    <3>2. ListsInv' /\ Others /\ (Linked(a)' <=> Linked(a))
      BY <1>1, <1>2, <3>1, ZenonT(60)
    <3>3. TimePasses \/ (polling' # "setup" /\ directory # NotLoaded /\ ~Updating /\ polling' # "alarm")
      BY <2>4, ZenonT(60) DEF CallNoAlarm, EndPoll, Return, InCallback, DirectoryInv, Updating
    <3>4. TimePasses => polling' = polling
      BY ZenonT(60) DEF TimePasses
    <3> QED BY <2>1, <3>1, <3>2, <3>3, <3>4, ZenonT(60) DEF DirectoryInv, Updating, KeepsRegistering, Others
  <2> QED BY <1>14, <2>2, <2>3, <2>4, ZenonT(60) DEF LoopGoesOn
<1>15. CASE UNCHANGED directoryVars
  <2>1. /\ q' = q /\ now' = now /\ polling' = polling /\ called' = called
        /\ directory' = directory /\ up' = up
    BY <1>15, ZenonT(60) DEF directoryVars, fdVars
  <2>2. ListsInv' /\ Others /\ (Linked(a)' <=> Linked(a))
    BY <1>1, <1>2, <2>1, ZenonT(60)
  <2> QED BY <2>1, <2>2, ZenonT(60) DEF DirectoryInv, Updating, KeepsRegistering, Others
<1> QED BY <1>3, <1>4, <1>7, <1>8, <1>9, <1>11, <1>12, <1>13, <1>14, <1>15 DEF DirectoryNext, Others

\* However routes and the interface come and go, and whatever other alarms there are, a node
\* that learns the way to the directory service from the mesh is scheduled to register with it
\* as long as there is a route (directory_update(), directory_registration(), set_reachable()).
\* An address that is configured is excluded: then the alarm is scheduled twice.
THEOREM RegistersAgain == ~Configured => (DirectorySpec => []KeepsRegistering)
PROOF
<1> SUFFICES ASSUME ~Configured PROVE DirectorySpec => []KeepsRegistering
  BY ZenonT(60)
<1>1. DirectoryInv /\ [DirectoryNext]_directoryVars => DirectoryInv'
  BY DirectoryStep, ZenonT(60)
<1>2. DirectoryInv => KeepsRegistering
  BY ZenonT(60) DEF DirectoryInv
<1> QED BY DirectoryInitially, <1>1, <1>2, PTL DEF DirectorySpec

\* The alarms in the lists are those that are linked.
ListsAreLinked == \A t \in Alarm : InLists(t) <=> Linked(t)

\* The alarms of others stay in the lists until they are called, as long as no address of the
\* service is configured: all that directory_update() and directory_registration() move about
\* is their own alarm (fdqueue.c, directory_client.c).
THEOREM OthersKept == ~Configured => (DirectorySpec => OthersStayScheduled)
PROOF
<1> SUFFICES ASSUME ~Configured PROVE DirectorySpec => OthersStayScheduled
  BY ZenonT(60)
<1>1. DirectoryInv /\ [DirectoryNext]_directoryVars => DirectoryInv'
  BY DirectoryStep, ZenonT(60)
<1>2. DirectoryInv => ListsAreLinked
  BY ListsAreWellFormed, ZenonT(60) DEF DirectoryInv, ListsInv, ListsWellFormed, ListsAreLinked, InLists
<1>3. DirectoryInv' => ListsAreLinked'
  BY <1>2, PTL
<1>4. DirectoryInv /\ [DirectoryNext]_directoryVars
        => [\A t \in Alarm \ {directory_alarm} : InLists(t) => InLists(t)' \/ called' = t]_directoryVars
  BY <1>1, <1>2, <1>3, DirectoryStep, ZenonT(60) DEF ListsAreLinked
<1> QED BY DirectoryInitially, <1>1, <1>4, PTL DEF DirectorySpec, OthersStayScheduled
=============================================================================

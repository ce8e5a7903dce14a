---------------------------- MODULE LookupProofs ----------------------------
(***************************************************************************)
(* What is proved of the two ways in which a telephone number is resolved  *)
(* for others, for any numbers, registrations, requests and lengths of     *)
(* buffers.                                                                *)
(*                                                                         *)
(* The directory service: the items are always a search tree in the order  *)
(* of add_item(), so that a lookup finds those who registered its number   *)
(* lately and nobody else.  The proof carries what is below each link      *)
(* (Tree).                                                                 *)
(*                                                                         *)
(* The DNA helper: a reply is passed on to the request that it answers     *)
(* only, whatever helper processes die, are killed and start in between.   *)
(***************************************************************************)
EXTENDS DirectoryService, DnaHelper, LoopTheorems

\* What a leaf that names no prover tries, one after the other.
USE SMTT(60), Z3T(60), ZenonT(20), SMTT(90), Z3T(90)

-----------------------------------------------------------------------------
(* The directory service                                                    *)
-----------------------------------------------------------------------------
(* Trees                                                                    *)

Item == [key : Number, value : Int, who : Entrant, expires : 0..MaxClock + Life, left : Nat, right : Nat]

\* The way that add_item() goes from item x, for what is registered.
GoesLeft(x, key, v) == x.key < key \/ (x.key = key /\ x.value < 2 * v)
GoesRight(x, key, v) == x.key > key \/ (x.key = key /\ x.value > 2 * v)

\* What is below the link to item c, when L and R are what is below the links of
\* each item.
Under(L, R, c) == IF c = NoItem THEN {} ELSE {c} \cup L[c] \cup R[c]

\* Links lead to later items, and everything below a link is where add_item()
\* would look for it.
Ordered(s, L, R) ==
    \A a \in 1..Len(s) :
      /\ s[a].left \in 0..Len(s) /\ s[a].right \in 0..Len(s)
      /\ L[a] = Under(L, R, s[a].left) /\ R[a] = Under(L, R, s[a].right)
      /\ \A j \in L[a] : j > a /\ GoesLeft(s[a], s[j].key, s[j].who)
      /\ \A j \in R[a] : j > a /\ GoesRight(s[a], s[j].key, s[j].who)

\* What is above an item is above the item that links to it, or is that item.
Linked(s, L, R) ==
    \A a, b \in 1..Len(s) :
      /\ s[a].left # NoItem => /\ s[a].left \in L[b] => a \in L[b] \/ a = b
                               /\ s[a].left \in R[b] => a \in R[b]
      /\ s[a].right # NoItem => /\ s[a].right \in R[b] => a \in R[b] \/ a = b
                                /\ s[a].right \in L[b] => a \in L[b]

\* Every item is below the root, and has an item that links to it.
Rooted(s, L, R) ==
    \A j \in 2..Len(s) :
      /\ j \in L[1] \cup R[1]
      /\ \E p \in 1..Len(s) : s[p].left = j \/ s[p].right = j

Tree(s, L, R) ==
    /\ L \in [1..Len(s) -> SUBSET (1..Len(s))] /\ R \in [1..Len(s) -> SUBSET (1..Len(s))]
    /\ Ordered(s, L, R) /\ Linked(s, L, R) /\ Rooted(s, L, R)

-----------------------------------------------------------------------------
(* Adding an item                                                           *)

\* The way of add_item() has led to x in n steps, or has ended before.
OnTheWay(s, L, R, key, v, x, n) ==
    /\ x.above = NoItem => x.item = (IF s = <<>> THEN NoItem ELSE 1)
    /\ x.above # NoItem =>
         /\ x.link = "left" => x.item = s[x.above].left /\ GoesLeft(s[x.above], key, v)
         /\ x.link = "right" => x.item = s[x.above].right /\ GoesRight(s[x.above], key, v)
         /\ \A b \in 1..Len(s) : /\ x.above \in L[b] => GoesLeft(s[b], key, v)
                                 /\ x.above \in R[b] => GoesRight(s[b], key, v)
    /\ \/ x.item = NoItem
       \/ s[x.item].key = key /\ s[x.item].value = 2 * v
       \/ x.item > n

Place(n) == [item : 0..n, above : 0..n, link : {"left", "right"}]

\* One step of it.
Onward(s, key, v, at) ==
    IF at.item = NoItem THEN at
    ELSE LET x == s[at.item] IN
         IF x.key = key /\ x.value = 2 * v THEN at
         ELSE IF x.key < key \/ (x.key = key /\ x.value < 2 * v)
              THEN [item |-> x.left, above |-> at.item, link |-> "left"]
              ELSE [item |-> x.right, above |-> at.item, link |-> "right"]

\* One turn of the loop of add_item(): it stays above the place of what is registered.
LEMMA OnwardStep ==
    ASSUME NEW s \in Seq(Item), NEW L, NEW R, Tree(s, L, R), NEW key \in Number, NEW v \in Entrant,
           NEW at \in Place(Len(s)), NEW n \in Nat, OnTheWay(s, L, R, key, v, at, n)
    PROVE  /\ Onward(s, key, v, at) \in Place(Len(s))
           /\ OnTheWay(s, L, R, key, v, Onward(s, key, v, at), n + 1)
PROOF
<1> DEFINE y == Onward(s, key, v, at)
           a == at.item
           x == s[a]
<1>1. at.item \in 0..Len(s) /\ at.above \in 0..Len(s) /\ at.link \in {"left", "right"} /\ Len(s) \in Nat
  BY DEF Place
<1>2. CASE a = NoItem \/ (x.key = key /\ x.value = 2 * v)
  <2>1. y = at
    BY <1>2, ZenonT(60) DEF Onward
  <2>2. OnTheWay(s, L, R, key, v, at, n + 1)
    BY <1>2, ZenonT(60) DEF OnTheWay
  <2> QED BY <2>1, <2>2, ZenonT(60)
<1>3. CASE a # NoItem /\ ~(x.key = key /\ x.value = 2 * v)
  <2>1. a \in 1..Len(s) /\ x \in Item /\ a > n
    BY <1>1, <1>3 DEF NoItem, OnTheWay
  <2>2. x.key \in Int /\ key \in Int /\ x.value \in Int /\ v \in Int
    BY <2>1, DirectoryServiceAssumption, ZenonT(60) DEF Item
  <2>3. /\ x.left \in 0..Len(s) /\ x.right \in 0..Len(s)
        /\ x.left # NoItem => x.left > a
        /\ x.right # NoItem => x.right > a
    BY <2>1, ZenonT(60) DEF Tree, Ordered, Under
  <2>4. \A b \in 1..Len(s) : /\ a \in L[b] => GoesLeft(s[b], key, v)
                             /\ a \in R[b] => GoesRight(s[b], key, v)
    <3>1. CASE at.above = NoItem
      <4>1. a = 1
        BY <1>3, <3>1, ZenonT(60) DEF OnTheWay
      <4> QED BY <4>1 DEF Tree, Ordered
    <3>2. CASE at.above # NoItem
      <4>1. at.above \in 1..Len(s)
        BY <1>1, <3>2 DEF NoItem
      <4>2. ASSUME NEW b \in 1..Len(s), a \in L[b] PROVE GoesLeft(s[b], key, v)
        BY <1>1, <1>3, <3>2, <4>1, <4>2, ZenonT(60) DEF OnTheWay, Tree, Linked
      <4>3. ASSUME NEW b \in 1..Len(s), a \in R[b] PROVE GoesRight(s[b], key, v)
        BY <1>1, <1>3, <3>2, <4>1, <4>3, ZenonT(60) DEF OnTheWay, Tree, Linked
      <4> QED BY <4>2, <4>3, ZenonT(60)
    <3> QED BY <3>1, <3>2, ZenonT(60)
  <2>5. CASE x.key < key \/ (x.key = key /\ x.value < 2 * v)
    <3>1. y = [item |-> x.left, above |-> a, link |-> "left"]
      BY <1>3, <2>5, ZenonT(60) DEF Onward
    <3>2. y.item = x.left /\ y.above = a /\ y.link = "left" /\ y \in Place(Len(s))
      BY <2>1, <2>3, <3>1 DEF Place
    <3>3. GoesLeft(x, key, v)
      BY <2>5, ZenonT(60) DEF GoesLeft
    <3>4. x.left = NoItem \/ x.left > n + 1
      BY <1>1, <2>1, <2>3
    <3>5. OnTheWay(s, L, R, key, v, y, n + 1)
      BY <1>3, <2>4, <3>2, <3>3, <3>4, ZenonT(60) DEF OnTheWay
    <3> QED BY <3>2, <3>5, ZenonT(60)
  <2>6. CASE ~(x.key < key \/ (x.key = key /\ x.value < 2 * v))
    <3>1. y = [item |-> x.right, above |-> a, link |-> "right"]
      BY <1>3, <2>6, ZenonT(60) DEF Onward
    <3>2. y.item = x.right /\ y.above = a /\ y.link = "right" /\ y \in Place(Len(s))
      BY <2>1, <2>3, <3>1 DEF Place
    <3>3. GoesRight(x, key, v)
      BY <1>3, <2>2, <2>6 DEF GoesRight
    <3>4. x.right = NoItem \/ x.right > n + 1
      BY <1>1, <2>1, <2>3
    <3>5. OnTheWay(s, L, R, key, v, y, n + 1)
      BY <1>3, <2>4, <3>2, <3>3, <3>4, ZenonT(60) DEF OnTheWay
    <3> QED BY <3>2, <3>5, ZenonT(60)
  <2> QED BY <2>5, <2>6, ZenonT(60)
<1> QED BY <1>2, <1>3, ZenonT(60)

\* Where add_item() ends up: at what is to be added, or at a free link.
LEMMA SpotFound ==
    ASSUME items \in Seq(Item), NEW L, NEW R, Tree(items, L, R), NEW key \in Number, NEW v \in Entrant
    PROVE  /\ Spot(key, v) \in Place(Len(items))
           /\ OnTheWay(items, L, R, key, v, Spot(key, v), Len(items))
PROOF
<1> DEFINE N == Len(items)
           V == Place(N)
           r == [item |-> Root, above |-> NoItem, link |-> "left"]
           G == [at \in V |-> Onward(items, key, v, at)]
           down == CHOOSE down : down = [n \in 0..N |->
                     IF n = 0 THEN [item |-> Root, above |-> NoItem, link |-> "left"]
                     ELSE LET at == down[n - 1] IN
                          IF at.item = NoItem THEN at
                          ELSE LET x == items[at.item] IN
                               IF x.key = key /\ x.value = 2 * v THEN at
                               ELSE IF x.key < key \/ (x.key = key /\ x.value < 2 * v)
                                    THEN [item |-> x.left, above |-> at.item, link |-> "left"]
                                    ELSE [item |-> x.right, above |-> at.item, link |-> "right"]]
<1>1. Spot(key, v) = down[N]
  BY ZenonT(60) DEF Spot
<1>2. N \in Nat /\ r.item = Root /\ r.above = NoItem /\ r.link = "left" /\ Root \in 0..N
  BY DEF Root, NoItem
<1>3. r \in V
  BY <1>2 DEF Place, NoItem
<1>4. OnTheWay(items, L, R, key, v, r, 0)
  BY <1>2 DEF OnTheWay, Root, NoItem
<1> HIDE DEF r
<1>5. \A at \in V : Onward(items, key, v, at) \in V
  <2> SUFFICES ASSUME NEW at \in V PROVE Onward(items, key, v, at) \in V
    BY ZenonT(60)
  <2>1. at.item \in 0..N /\ \A a \in 1..N : items[a].left \in 0..N /\ items[a].right \in 0..N
    BY ZenonT(60) DEF Place, Tree, Ordered
  <2> QED BY <2>1 DEF Onward, Place, NoItem
<1>6. G \in [V -> V] /\ \A at \in V : G[at] = Onward(items, key, v, at)
  BY <1>5, ZenonT(60)
<1> HIDE DEF G, V
<1>7. PICK f : Iterates(f, V, r, G, N)
  <2>1. N \in Nat /\ G \in [V -> V]
    BY <1>2, <1>6, ZenonT(60)
  <2> HIDE DEF N
  <2> QED BY ONLY <1>3, <2>1, Iteration, ZenonT(60)
<1>8. \A n \in 1..N : n - 1 \in 0..N /\ f[n - 1] \in V
  BY <1>2, <1>7 DEF Iterates
<1>9. f = [n \in 0..N |-> IF n = 0 THEN r ELSE Onward(items, key, v, f[n - 1])]
  BY <1>2, <1>6, <1>7, <1>8 DEF Iterates
<1>10. down = [n \in 0..N |-> IF n = 0 THEN r ELSE Onward(items, key, v, down[n - 1])]
  BY <1>9, ZenonT(60) DEF Onward, r
<1> HIDE DEF down
<1> DEFINE S == {n \in Nat : n <= N => down[n] \in V /\ OnTheWay(items, L, R, key, v, down[n], n)}
<1>11. 0 \in S
  BY <1>2, <1>3, <1>4, <1>10
<1>12. ASSUME NEW n \in Nat, n \in S PROVE n + 1 \in S
  <2> SUFFICES ASSUME n + 1 <= N
               PROVE  down[n + 1] \in V /\ OnTheWay(items, L, R, key, v, down[n + 1], n + 1)
    OBVIOUS
  <2>1. n + 1 \in 0..N /\ (n + 1) - 1 = n /\ n <= N /\ n + 1 # 0
    BY <1>2
  <2>2. down[n + 1] = Onward(items, key, v, down[n])
    BY <1>10, <2>1, ZenonT(60)
  <2>3. down[n] \in V /\ OnTheWay(items, L, R, key, v, down[n], n)
    BY <1>12, <2>1, ZenonT(60)
  <2> QED BY <2>2, <2>3, OnwardStep, ZenonT(60) DEF V
<1> HIDE DEF S
<1>13. N \in S
  BY <1>2, <1>11, <1>12, NatInd, ZenonT(60)
<1> QED BY <1>1, <1>2, <1>13 DEF S, V

\* t is s with an item for key and v at the free link of item p that add_item() found.
Grows(s, t, L, R, key, v, p, link) ==
    /\ link = "left" => s[p].left = NoItem /\ GoesLeft(s[p], key, v)
    /\ link = "right" => s[p].right = NoItem /\ GoesRight(s[p], key, v)
    /\ \A b \in 1..Len(s) : /\ p \in L[b] => GoesLeft(s[b], key, v)
                            /\ p \in R[b] => GoesRight(s[b], key, v)
    /\ Len(t) = Len(s) + 1
    /\ \A a \in 1..Len(s) :
         /\ t[a].key = s[a].key /\ t[a].value = s[a].value /\ t[a].who = s[a].who
         /\ t[a].left = (IF a = p /\ link = "left" THEN Len(s) + 1 ELSE s[a].left)
         /\ t[a].right = (IF a = p /\ link = "right" THEN Len(s) + 1 ELSE s[a].right)
    /\ t[Len(s) + 1].key = key /\ t[Len(s) + 1].who = v
    /\ t[Len(s) + 1].left = NoItem /\ t[Len(s) + 1].right = NoItem

\* A new item at the free link keeps the tree in order.
LEMMA Grown ==
    ASSUME NEW s \in Seq(Item), NEW L, NEW R, Tree(s, L, R), NEW key \in Number, NEW v \in Entrant,
           NEW p \in 1..Len(s), NEW link \in {"left", "right"}, NEW t \in Seq(Item),
           Grows(s, t, L, R, key, v, p, link)
    PROVE  \E L2, R2 : Tree(t, L2, R2)
PROOF
<1> USE DEF Grows
<1> DEFINE N == Len(s)
           M == N + 1
           lf(a) == a = p /\ link = "left"
           rt(a) == a = p /\ link = "right"
           L2 == [a \in 1..M |-> IF a = M THEN {}
                                 ELSE L[a] \cup (IF p \in L[a] \/ lf(a) THEN {M} ELSE {})]
           R2 == [a \in 1..M |-> IF a = M THEN {}
                                 ELSE R[a] \cup (IF p \in R[a] \/ rt(a) THEN {M} ELSE {})]
<1>1. N \in Nat /\ M \in Nat /\ M \notin 1..N /\ 1..M = 1..N \cup {M} /\ Len(t) = M /\ M # NoItem
  BY DEF NoItem
<1>2. \A a \in 1..N : /\ s[a].left \in 0..N /\ s[a].right \in 0..N
                      /\ L[a] = Under(L, R, s[a].left) /\ R[a] = Under(L, R, s[a].right)
                      /\ L[a] \subseteq 1..N /\ R[a] \subseteq 1..N
  BY ZenonT(60) DEF Tree, Ordered
<1>3. L2[M] = {} /\ R2[M] = {}
  BY <1>1, ZenonT(60)
<1>4. \A a \in 1..N : /\ L2[a] = L[a] \cup (IF p \in L[a] \/ lf(a) THEN {M} ELSE {})
                      /\ R2[a] = R[a] \cup (IF p \in R[a] \/ rt(a) THEN {M} ELSE {})
  BY <1>1, ZenonT(60)
<1>5. /\ L2 \in [1..M -> SUBSET (1..M)] /\ R2 \in [1..M -> SUBSET (1..M)]
  BY <1>1, <1>2, ZenonT(60)
<1> HIDE DEF L2, R2
<1>6. \A c \in 1..N : Under(L2, R2, c) =
        Under(L, R, c) \cup (IF p \in Under(L, R, c) THEN {M} ELSE {})
  <2> SUFFICES ASSUME NEW c \in 1..N
               PROVE  Under(L2, R2, c) = Under(L, R, c) \cup (IF p \in Under(L, R, c) THEN {M} ELSE {})
    BY ZenonT(60)
  <2>1. c # NoItem
    BY DEF NoItem
  <2>2. Under(L2, R2, c) = {c} \cup L2[c] \cup R2[c] /\ Under(L, R, c) = {c} \cup L[c] \cup R[c]
    BY <2>1, ZenonT(60) DEF Under
  <2>3. p = c => lf(c) \/ rt(c)
    BY ZenonT(60)
  <2>4. p \in Under(L, R, c) <=> (p \in L[c] \/ lf(c)) \/ (p \in R[c] \/ rt(c))
    BY <2>2, <2>3, ZenonT(60)
  <2> QED BY <1>4, <2>2, <2>4, ZenonT(60)
<1>7. \A a \in 1..N : L2[a] = Under(L2, R2, t[a].left)
  <2> SUFFICES ASSUME NEW a \in 1..N PROVE L2[a] = Under(L2, R2, t[a].left)
    BY ZenonT(60)
  <2>1. CASE lf(a)
    <3>1. L[a] = {} /\ t[a].left = M
      BY <1>2, <2>1, ZenonT(60) DEF Under
    <3> QED BY <1>1, <1>3, <1>4, <2>1, <3>1, ZenonT(60) DEF Under
  <2>2. CASE ~lf(a) /\ s[a].left = NoItem
    <3>1. L[a] = {} /\ t[a].left = NoItem
      BY <1>2, <2>2, ZenonT(60) DEF Under
    <3> QED BY <1>4, <2>2, <3>1, ZenonT(60) DEF Under
  <2>3. CASE ~lf(a) /\ s[a].left # NoItem
    <3>1. s[a].left \in 1..N /\ t[a].left = s[a].left /\ L[a] = Under(L, R, s[a].left)
      BY <1>1, <1>2, <2>3 DEF NoItem
    <3>2. Under(L2, R2, s[a].left) = L[a] \cup (IF p \in L[a] THEN {M} ELSE {})
      BY <1>6, <3>1, ZenonT(60)
    <3>3. L2[a] = L[a] \cup (IF p \in L[a] THEN {M} ELSE {})
      BY <1>4, <2>3, ZenonT(60)
    <3> QED BY <3>1, <3>2, <3>3, ZenonT(60)
  <2> QED BY <2>1, <2>2, <2>3, ZenonT(60)
<1>8. \A a \in 1..N : R2[a] = Under(L2, R2, t[a].right)
  <2> SUFFICES ASSUME NEW a \in 1..N PROVE R2[a] = Under(L2, R2, t[a].right)
    BY ZenonT(60)
  <2>1. CASE rt(a)
    <3>1. R[a] = {} /\ t[a].right = M
      BY <1>2, <2>1, ZenonT(60) DEF Under
    <3> QED BY <1>1, <1>3, <1>4, <2>1, <3>1, ZenonT(60) DEF Under
  <2>2. CASE ~rt(a) /\ s[a].right = NoItem
    <3>1. R[a] = {} /\ t[a].right = NoItem
      BY <1>2, <2>2, ZenonT(60) DEF Under
    <3> QED BY <1>4, <2>2, <3>1, ZenonT(60) DEF Under
  <2>3. CASE ~rt(a) /\ s[a].right # NoItem
    <3>1. s[a].right \in 1..N /\ t[a].right = s[a].right /\ R[a] = Under(L, R, s[a].right)
      BY <1>1, <1>2, <2>3 DEF NoItem
    <3>2. Under(L2, R2, s[a].right) = R[a] \cup (IF p \in R[a] THEN {M} ELSE {})
      BY <1>6, <3>1, ZenonT(60)
    <3>3. R2[a] = R[a] \cup (IF p \in R[a] THEN {M} ELSE {})
      BY <1>4, <2>3, ZenonT(60)
    <3> QED BY <3>1, <3>2, <3>3, ZenonT(60)
  <2> QED BY <2>1, <2>2, <2>3, ZenonT(60)
<1>9. \A a \in 1..N : \A j \in L2[a] : j > a /\ GoesLeft(t[a], t[j].key, t[j].who)
  <2> SUFFICES ASSUME NEW a \in 1..N, NEW j \in L2[a] PROVE j > a /\ GoesLeft(t[a], t[j].key, t[j].who)
    BY ZenonT(60)
  <2>1. CASE j \in L[a]
    <3>1. j > a /\ GoesLeft(s[a], s[j].key, s[j].who) /\ j \in 1..N
      BY <1>2, <2>1, ZenonT(60) DEF Tree, Ordered
    <3> QED BY <3>1, ZenonT(60) DEF GoesLeft
  <2>2. CASE j \notin L[a]
    <3>1. j = M /\ (p \in L[a] \/ lf(a))
      BY <1>4, <2>2
    <3>2. GoesLeft(s[a], key, v)
      BY <3>1, ZenonT(60)
    <3> QED BY <1>1, <3>1, <3>2 DEF GoesLeft
  <2> QED BY <2>1, <2>2, ZenonT(60)
<1>10. \A a \in 1..N : \A j \in R2[a] : j > a /\ GoesRight(t[a], t[j].key, t[j].who)
  <2> SUFFICES ASSUME NEW a \in 1..N, NEW j \in R2[a] PROVE j > a /\ GoesRight(t[a], t[j].key, t[j].who)
    BY ZenonT(60)
  <2>1. CASE j \in R[a]
    <3>1. j > a /\ GoesRight(s[a], s[j].key, s[j].who) /\ j \in 1..N
      BY <1>2, <2>1, ZenonT(60) DEF Tree, Ordered
    <3> QED BY <3>1, ZenonT(60) DEF GoesRight
  <2>2. CASE j \notin R[a]
    <3>1. j = M /\ (p \in R[a] \/ rt(a))
      BY <1>4, <2>2
    <3>2. GoesRight(s[a], key, v)
      BY <3>1, ZenonT(60)
    <3> QED BY <1>1, <3>1, <3>2 DEF GoesRight
  <2> QED BY <2>1, <2>2, ZenonT(60)
<1>11. Ordered(t, L2, R2)
  <2>1. \A a \in 1..N : t[a].left \in 0..M /\ t[a].right \in 0..M
    BY <1>1, <1>2
  <2>2. t[M].left \in 0..M /\ t[M].right \in 0..M /\ Under(L2, R2, NoItem) = {}
    BY <1>1 DEF NoItem, Under
  <2> SUFFICES ASSUME NEW a \in 1..M
               PROVE  /\ t[a].left \in 0..M /\ t[a].right \in 0..M
                      /\ L2[a] = Under(L2, R2, t[a].left) /\ R2[a] = Under(L2, R2, t[a].right)
                      /\ \A j \in L2[a] : j > a /\ GoesLeft(t[a], t[j].key, t[j].who)
                      /\ \A j \in R2[a] : j > a /\ GoesRight(t[a], t[j].key, t[j].who)
    BY <1>1, ZenonT(60) DEF Ordered
  <2>3. CASE a = M
    BY <1>3, <2>2, <2>3, ZenonT(60)
  <2>4. CASE a \in 1..N
    BY <1>7, <1>8, <1>9, <1>10, <2>1, <2>4, ZenonT(60)
  <2> QED BY <1>1, <2>3, <2>4, ZenonT(60)
<1>12. Linked(t, L2, R2)
  <2>1. ASSUME NEW a \in 1..M, NEW b \in 1..M, t[a].left # NoItem
        PROVE  /\ t[a].left \in L2[b] => a \in L2[b] \/ a = b
               /\ t[a].left \in R2[b] => a \in R2[b]
    <3>1. a \in 1..N
      BY <1>1, <2>1, ZenonT(60)
    <3>2. CASE b = M
      BY <1>3, <3>2, ZenonT(60)
    <3>3. CASE b \in 1..N /\ lf(a)
      BY <1>1, <1>2, <1>4, <3>1, <3>3
    <3>4. CASE b \in 1..N /\ ~lf(a)
      <4>1. t[a].left = s[a].left /\ s[a].left \in 1..N
        BY <1>1, <1>2, <2>1, <3>1, <3>4 DEF NoItem
      <4>2. /\ s[a].left \in L[b] => a \in L[b] \/ a = b
            /\ s[a].left \in R[b] => a \in R[b]
        BY <2>1, <3>1, <3>4, <4>1, ZenonT(60) DEF Tree, Linked
      <4> QED BY <1>1, <1>4, <3>4, <4>1, <4>2
    <3> QED BY <1>1, <3>2, <3>3, <3>4, ZenonT(60)
  <2>2. ASSUME NEW a \in 1..M, NEW b \in 1..M, t[a].right # NoItem
        PROVE  /\ t[a].right \in R2[b] => a \in R2[b] \/ a = b
               /\ t[a].right \in L2[b] => a \in L2[b]
    <3>1. a \in 1..N
      BY <1>1, <2>2, ZenonT(60)
    <3>2. CASE b = M
      BY <1>3, <3>2, ZenonT(60)
    <3>3. CASE b \in 1..N /\ rt(a)
      BY <1>1, <1>2, <1>4, <3>1, <3>3
    <3>4. CASE b \in 1..N /\ ~rt(a)
      <4>1. t[a].right = s[a].right /\ s[a].right \in 1..N
        BY <1>1, <1>2, <2>2, <3>1, <3>4 DEF NoItem
      <4>2. /\ s[a].right \in R[b] => a \in R[b] \/ a = b
            /\ s[a].right \in L[b] => a \in L[b]
        BY <2>2, <3>1, <3>4, <4>1, ZenonT(60) DEF Tree, Linked
      <4> QED BY <1>1, <1>4, <3>4, <4>1, <4>2
    <3> QED BY <1>1, <3>2, <3>3, <3>4, ZenonT(60)
  <2> QED BY <1>1, <2>1, <2>2, ZenonT(60) DEF Linked
<1>13. Rooted(t, L2, R2)
  <2> SUFFICES ASSUME NEW j \in 2..M
               PROVE  /\ j \in L2[1] \cup R2[1]
                      /\ \E a \in 1..M : t[a].left = j \/ t[a].right = j
    BY <1>1, ZenonT(60) DEF Rooted
  <2>1. 1 \in 1..N
    BY <1>1
  <2>2. CASE j = M
    <3>1. p = 1 \/ p \in L[1] \/ p \in R[1]
      BY DEF Tree, Rooted
    <3>2. lf(p) \/ rt(p)
      BY ZenonT(60)
    <3>3. M \in L2[1] \cup R2[1]
      BY <1>4, <2>1, <3>1, <3>2
    <3>4. p \in 1..M /\ (t[p].left = M \/ t[p].right = M)
      BY <1>1, <3>2, ZenonT(60)
    <3> QED BY <2>2, <3>3, <3>4, ZenonT(60)
  <2>3. CASE j # M
    <3>1. j \in 2..N /\ j # NoItem
      BY <1>1, <2>3 DEF NoItem
    <3>2. PICK a \in 1..N : s[a].left = j \/ s[a].right = j
      BY <3>1, ZenonT(60) DEF Tree, Rooted
    <3>3. t[a].left = j \/ t[a].right = j
      BY <3>1, <3>2, ZenonT(60)
    <3>4. j \in L2[1] \cup R2[1]
      BY <1>4, <2>1, <3>1 DEF Tree, Rooted
    <3> QED BY <1>1, <3>3, <3>4, ZenonT(60)
  <2> QED BY <2>2, <2>3, ZenonT(60)
<1>14. Tree(t, L2, R2)
  BY <1>1, <1>5, <1>11, <1>12, <1>13, ZenonT(60) DEF Tree
<1> QED BY <1>14, ZenonT(60)

-----------------------------------------------------------------------------
(* Looking a number up                                                      *)

\* One step of find_item().
Down(s, key, at) ==
    IF at = NoItem \/ s[at].key = key THEN at
    ELSE IF s[at].key < key THEN s[at].left ELSE s[at].right

\* find_item() stops at an item that has all the items with the key at or below it.
LEMMA ItemFound ==
    ASSUME items \in Seq(Item), NEW L, NEW R, Tree(items, L, R), NEW key \in Number
    PROVE  /\ find_item(key) \in 0..Len(items)
           /\ \A j \in 1..Len(items) : items[j].key = key =>
                /\ find_item(key) \in 1..Len(items)
                /\ j \in Under(L, R, find_item(key))
PROOF
<1> DEFINE N == Len(items)
           V == 0..N
           r == Root
           G == [at \in V |-> Down(items, key, at)]
           down == CHOOSE down : down = [n \in 0..N |->
                     IF n = 0 THEN Root
                     ELSE LET at == down[n - 1] IN
                          IF at = NoItem \/ items[at].key = key THEN at
                          ELSE IF items[at].key < key THEN items[at].left ELSE items[at].right]
<1>1. find_item(key) = down[N]
  BY ZenonT(60) DEF find_item
<1>2. N \in Nat /\ r \in V /\ (N > 0 => r = 1)
  BY DEF Root, NoItem
<1>3. \A a \in 1..N : items[a].left \in V /\ items[a].right \in V /\ items[a].key \in Int
  <2>1. \A a \in 1..N : items[a].left \in V /\ items[a].right \in V
    BY ZenonT(60) DEF Tree, Ordered
  <2>2. \A a \in 1..N : items[a].key \in Int
    <3>1. \A a \in 1..N : items[a] \in Item
      OBVIOUS
    <3> QED BY <3>1, DirectoryServiceAssumption, ZenonT(60) DEF Item
  <2> QED BY <2>1, <2>2, ZenonT(60)
<1>4. \A at \in V : Down(items, key, at) \in V
  <2> SUFFICES ASSUME NEW at \in V PROVE Down(items, key, at) \in V
    BY ZenonT(60)
  <2>1. at = NoItem \/ at \in 1..N
    BY <1>2 DEF NoItem
  <2> HIDE DEF V
  <2> QED BY <1>3, <2>1, ZenonT(60) DEF Down
<1>5. G \in [V -> V] /\ \A at \in V : G[at] = Down(items, key, at)
  BY <1>4, ZenonT(60)
<1> HIDE DEF G, r
<1>6. PICK f : Iterates(f, V, r, G, N)
  <2>1. N \in Nat /\ G \in [V -> V] /\ r \in V
    BY <1>2, <1>5, ZenonT(60)
  <2> HIDE DEF N, V
  <2> QED BY ONLY <2>1, Iteration, ZenonT(60)
<1>7. \A n \in 1..N : n - 1 \in 0..N /\ f[n - 1] \in V
  BY <1>2, <1>6 DEF Iterates
<1>8. f = [n \in 0..N |-> IF n = 0 THEN r ELSE Down(items, key, f[n - 1])]
  BY <1>2, <1>5, <1>6, <1>7 DEF Iterates
<1>9. down = [n \in 0..N |-> IF n = 0 THEN r ELSE Down(items, key, down[n - 1])]
  BY <1>8, ZenonT(60) DEF Down, r
<1> HIDE DEF down
<1> DEFINE S == {n \in Nat : n <= N => down[n] \in V}
<1>10. 0 \in S
  BY <1>2, <1>9
<1>11. ASSUME NEW n \in Nat, n \in S PROVE n + 1 \in S
  <2>1. n + 1 <= N => n + 1 \in 0..N /\ (n + 1) - 1 = n /\ n <= N /\ n + 1 # 0
    BY <1>2
  <2>2. n + 1 <= N => down[n + 1] = Down(items, key, down[n])
    BY <1>9, <2>1, ZenonT(60)
  <2>3. n + 1 <= N => down[n + 1] \in V
    BY <1>4, <1>11, <2>1, <2>2, ZenonT(60)
  <2>4. n + 1 \in Nat
    OBVIOUS
  <2> QED BY <2>3, <2>4, ZenonT(60)
<1> HIDE DEF S
<1>12. N \in S
  BY <1>2, <1>10, <1>11, NatInd, ZenonT(60)
<1>13. down[N] \in V
  BY <1>2, <1>12 DEF S
<1>14. ASSUME NEW j \in 1..N, items[j].key = key
       PROVE  down[N] \in 1..N /\ j \in Under(L, R, down[N])
  <2> DEFINE On(at, n) == /\ at \in 1..N /\ j \in Under(L, R, at)
                          /\ items[at].key = key \/ at > n
             T == {n \in Nat : n <= N => On(down[n], n)}
  <2>1. On(r, 0)
    <3>1. r = 1 /\ 1 \in 1..N
      BY <1>2
    <3>2. j = 1 \/ j \in L[1] \cup R[1]
      BY DEF Tree, Rooted
    <3> QED BY <3>1, <3>2 DEF Under, NoItem
  <2>2. ASSUME NEW at, NEW n \in Nat, On(at, n) PROVE On(Down(items, key, at), n + 1)
    <3>1. at \in 1..N /\ at # NoItem /\ j \in Under(L, R, at)
      BY <2>2 DEF NoItem
    <3>2. CASE items[at].key = key
      BY <2>2, <3>1, <3>2, ZenonT(60) DEF Down
    <3>3. CASE items[at].key # key
      <4>1. at > n /\ (j \in L[at] \/ j \in R[at])
        BY <2>2, <3>1, <3>3, <1>14, ZenonT(60) DEF Under
      <4>2. CASE j \in L[at]
        <5>1. items[at].key < key
          BY <1>14, <3>1, <3>3, <4>2, ZenonT(60) DEF Tree, Ordered, GoesLeft
        <5>2. Down(items, key, at) = items[at].left
          BY <3>1, <3>3, <5>1, ZenonT(60) DEF Down
        <5>3. L[at] = Under(L, R, items[at].left)
          BY <3>1, ZenonT(60) DEF Tree, Ordered
        <5>4. items[at].left # NoItem /\ items[at].left \in L[at]
          BY <4>2, <5>3, ZenonT(60) DEF Under
        <5>5. items[at].left > at /\ items[at].left \in 1..N
          BY <1>3, <3>1, <5>4, ZenonT(60) DEF Tree, Ordered
        <5> QED BY <3>1, <4>1, <4>2, <5>2, <5>3, <5>5
      <4>3. CASE j \in R[at]
        <5>1. items[at].key > key
          BY <1>14, <3>1, <3>3, <4>3, ZenonT(60) DEF Tree, Ordered, GoesRight
        <5>2. Down(items, key, at) = items[at].right
          BY <1>3, <3>1, <3>3, <5>1, DirectoryServiceAssumption DEF Down
        <5>3. R[at] = Under(L, R, items[at].right)
          BY <3>1, ZenonT(60) DEF Tree, Ordered
        <5>4. items[at].right # NoItem /\ items[at].right \in R[at]
          BY <4>3, <5>3, ZenonT(60) DEF Under
        <5>5. items[at].right > at /\ items[at].right \in 1..N
          BY <1>3, <3>1, <5>4, ZenonT(60) DEF Tree, Ordered
        <5> QED BY <3>1, <4>1, <4>3, <5>2, <5>3, <5>5
      <4> QED BY <4>1, <4>2, <4>3, ZenonT(60)
    <3> QED BY <3>2, <3>3, ZenonT(60)
  <2> HIDE DEF On
  <2>3. 0 \in T
    BY <1>2, <1>9, <2>1
  <2>4. ASSUME NEW n \in Nat, n \in T PROVE n + 1 \in T
    <3>1. n + 1 <= N => n + 1 \in 0..N /\ (n + 1) - 1 = n /\ n <= N /\ n + 1 # 0
      BY <1>2
    <3> QED BY <1>9, <2>2, <2>4, <3>1
  <2> HIDE DEF T
  <2>5. N \in T
    BY <1>2, <2>3, <2>4, NatInd, ZenonT(60)
  <2> QED BY <1>2, <2>5 DEF T, On
<1> QED BY <1>1, <1>13, <1>14, ZenonT(60)

\* One level of respond().
Wider(s, W) == W \cup ((UNION {{s[k].left, s[k].right} : k \in W}) \ {NoItem})

\* respond() goes over everything below the item it begins at.
LEMMA AllVisited ==
    ASSUME items \in Seq(Item), NEW L, NEW R, Tree(items, L, R), NEW top \in 0..Len(items)
    PROVE  Under(L, R, top) \subseteq Below(top) /\ Below(top) \subseteq 1..Len(items)
PROOF
<1> DEFINE N == Len(items)
           V == SUBSET (1..N)
           start == {top} \ {NoItem}
           G == [W \in V |-> Wider(items, W)]
           within == CHOOSE within : within = [n \in 0..N |->
                       IF n = 0 THEN {top} \ {NoItem}
                       ELSE within[n - 1] \cup
                            ((UNION {{items[k].left, items[k].right} : k \in within[n - 1]}) \ {NoItem})]
<1>1. Below(top) = within[N]
  BY ZenonT(60) DEF Below
<1>2. N \in Nat /\ start \in V
  BY DEF NoItem
<1>3. \A a \in 1..N : items[a].left \in 0..N /\ items[a].right \in 0..N
  BY ZenonT(60) DEF Tree, Ordered
<1>4. \A W \in V : Wider(items, W) \in V
  <2> SUFFICES ASSUME NEW W \in V, NEW x \in Wider(items, W) PROVE x \in 1..N
    BY ZenonT(60)
  <2>1. CASE x \in W
    BY <2>1, ZenonT(60)
  <2>2. CASE x \notin W
    <3>1. x # NoItem /\ x \in UNION {{items[k].left, items[k].right} : k \in W}
      BY <2>2, ZenonT(60) DEF Wider
    <3>2. PICK k \in W : x \in {items[k].left, items[k].right}
      BY <3>1, ZenonT(60)
    <3> QED BY <1>3, <3>1, <3>2 DEF NoItem
  <2> QED BY <2>1, <2>2, ZenonT(60)
<1>5. G \in [V -> V] /\ \A W \in V : G[W] = Wider(items, W)
  BY <1>4, ZenonT(60)
<1> HIDE DEF G, start, V
<1>6. PICK f : Iterates(f, V, start, G, N)
  <2>1. N \in Nat /\ G \in [V -> V]
    BY <1>2, <1>5, ZenonT(60)
  <2>2. start \in V
    BY <1>2, ZenonT(60)
  <2> HIDE DEF N
  <2> QED BY ONLY <2>1, <2>2, Iteration, ZenonT(60)
<1>7. \A n \in 1..N : n - 1 \in 0..N /\ f[n - 1] \in V
  BY <1>2, <1>6 DEF Iterates
<1>8. f = [n \in 0..N |-> IF n = 0 THEN start ELSE Wider(items, f[n - 1])]
  BY <1>2, <1>5, <1>6, <1>7 DEF Iterates
<1>9. within = [n \in 0..N |-> IF n = 0 THEN start ELSE Wider(items, within[n - 1])]
  BY <1>8, ZenonT(60) DEF Wider, start
<1> HIDE DEF within
<1> DEFINE In(W, n) == /\ W \in V
                       /\ top # NoItem => top \in W
                       /\ \A j \in Under(L, R, top) : j <= n => j \in W
           S == {n \in Nat : n <= N => In(within[n], n)}
<1>10. In(start, 0)
  <2>1. Under(L, R, top) \subseteq 1..N
    BY DEF Under, Tree, NoItem
  <2> QED BY <1>2, <2>1 DEF start
<1>11. ASSUME NEW W, NEW n \in Nat, In(W, n) PROVE In(Wider(items, W), n + 1)
  <2>1. Wider(items, W) \in V /\ W \subseteq Wider(items, W)
    BY <1>4, <1>11, ZenonT(60) DEF Wider
  <2>2. ASSUME NEW j \in Under(L, R, top), j <= n + 1 PROVE j \in Wider(items, W)
    <3>1. top # NoItem /\ top \in 1..N /\ j \in 1..N
      BY DEF Under, Tree, NoItem
    <3>2. CASE j <= n \/ j = top
      BY <1>11, <2>1, <3>1, <3>2, ZenonT(60)
    <3>3. CASE j = n + 1 /\ j # top
      <4>1. j \in L[top] \/ j \in R[top]
        BY <3>1, <3>3, ZenonT(60) DEF Under
      <4>2. j > top /\ j \in 2..N
        BY <3>1, <4>1 DEF Tree, Ordered
      <4>3. PICK p \in 1..N : items[p].left = j \/ items[p].right = j
        BY <4>2, ZenonT(60) DEF Tree, Rooted
      <4>4. j # NoItem
        BY <3>1 DEF NoItem
      <4>5. j \in L[p] \/ j \in R[p]
        BY <4>3, <4>4, ZenonT(60) DEF Tree, Ordered, Under
      <4>6. p < j
        BY <4>5, ZenonT(60) DEF Tree, Ordered
      <4>7. p \in L[top] \/ p \in R[top] \/ p = top
        BY <3>1, <4>1, <4>3, <4>4 DEF Tree, Linked
      <4>8. p \in Under(L, R, top) /\ p <= n
        BY <3>1, <3>3, <4>6, <4>7 DEF Under
      <4>9. p \in W
        BY <1>11, <4>8, ZenonT(60)
      <4> QED BY <4>3, <4>4, <4>9 DEF Wider
    <3> QED BY <2>2, <3>1, <3>2, <3>3
  <2> QED BY <1>11, <2>1, <2>2, ZenonT(60)
<1> HIDE DEF In
<1>12. 0 \in S
  BY <1>2, <1>9, <1>10
<1>13. ASSUME NEW n \in Nat, n \in S PROVE n + 1 \in S
  <2>1. n + 1 <= N => n + 1 \in 0..N /\ (n + 1) - 1 = n /\ n <= N /\ n + 1 # 0
    BY <1>2
  <2> QED BY <1>9, <1>11, <1>13, <2>1
<1> HIDE DEF S
<1>14. N \in S
  BY <1>2, <1>12, <1>13, NatInd, ZenonT(60)
<1>15. In(within[N], N)
  BY <1>2, <1>14 DEF S
<1>16. \A j \in Under(L, R, top) : j \in 1..N /\ j <= N
  BY DEF Under, Tree, NoItem
<1> QED BY <1>1, <1>15, <1>16, ZenonT(60) DEF In, V

-----------------------------------------------------------------------------
(* The invariant                                                            *)

\* An item says who registered and that they did so within Life of its expiry.
KeptItems ==
    \A k \in 1..Len(items) :
         LET x == items[k]  t == told[x.key][x.who] IN
         /\ x.value = Cut(x.who)
         /\ t.last >= 0 /\ x.expires <= t.last + Life

\* So do all items, and each first registration is in an item that expires Life after it.
Kept ==
    /\ KeptItems
    /\ \A n \in Number, v \in Entrant :
         LET t == told[n][v] IN
         /\ t = Never \/ t.first >= 0
         /\ t.last <= clock
         /\ t.first >= 0 => \E k \in 1..Len(items) :
              items[k].key = n /\ items[k].who = v /\ items[k].expires = t.first + Life

ServiceInv ==
    /\ items \in Seq(Item) /\ Len(items) <= MaxItems
    /\ \E L, R : Tree(items, L, R)
    /\ clock \in 0..MaxClock
    /\ told \in [Number -> [Entrant -> [first : -1..MaxClock, last : -1..MaxClock]]]
    /\ Kept

\* The invariant implies the types.
LEMMA ServiceInvTypeOK == ServiceInv => ServiceTypeOK
PROOF
<1> SUFFICES ASSUME ServiceInv PROVE ServiceTypeOK
  BY ZenonT(60)
<1> DEFINE Narrow == [key : Number, value : Int, who : Entrant, expires : 0..MaxClock + Life,
                      left : 0..MaxItems, right : 0..MaxItems]
<1>1. items \in Seq(Item) /\ Len(items) \in Nat /\ Len(items) <= MaxItems
  BY DEF ServiceInv
<1>2. \A k \in 1..Len(items) : items[k] \in Narrow
  <2> SUFFICES ASSUME NEW k \in 1..Len(items) PROVE items[k] \in Narrow
    BY ZenonT(60)
  <2>1. items[k] \in Item
    BY <1>1
  <2>2. items[k].left \in 0..Len(items) /\ items[k].right \in 0..Len(items)
    BY ZenonT(60) DEF ServiceInv, Tree, Ordered
  <2>3. items[k].left \in 0..MaxItems /\ items[k].right \in 0..MaxItems
    BY <1>1, <2>2, DirectoryServiceAssumption
  <2> QED BY <2>1, <2>3, ZenonT(60) DEF Item
<1> HIDE DEF Narrow
<1>3. items \in Seq(Narrow)
  BY <1>1, <1>2
<1> QED BY <1>1, <1>3, ZenonT(60) DEF ServiceInv, ServiceTypeOK, Narrow

\* The invariant implies that a lookup gives the registrations of its number.
LEMMA InvLookup == ServiceInv => LookupIsExact
PROOF
<1> SUFFICES ASSUME ServiceInv, NEW n \in Number
             PROVE  /\ {v \in Entrant : Recent(told[n][v].first)} \subseteq Lookup(n)
                    /\ Lookup(n) \subseteq {v \in Entrant : Recent(told[n][v].last)}
  BY ZenonT(60) DEF LookupIsExact
<1>1. PICK L, R : Tree(items, L, R)
  BY ZenonT(60) DEF ServiceInv
<1>2. items \in Seq(Item) /\ clock \in Int /\ Life \in Nat
  BY DirectoryServiceAssumption DEF ServiceInv
<1>3. find_item(n) \in 0..Len(items)
  BY <1>1, <1>2, ItemFound, ZenonT(60)
<1>4. Below(find_item(n)) \subseteq 1..Len(items)
  BY <1>1, <1>2, <1>3, AllVisited, ZenonT(60)
<1>5. ASSUME NEW v \in Entrant, Recent(told[n][v].first) PROVE v \in Lookup(n)
  <2>1. PICK k \in 1..Len(items) :
          items[k].key = n /\ items[k].who = v /\ items[k].expires = told[n][v].first + Life
    BY <1>5, ZenonT(60) DEF Recent, ServiceInv, Kept
  <2>2. k \in Under(L, R, find_item(n))
    BY <1>1, <1>2, <2>1, ItemFound, ZenonT(60)
  <2>3. k \in Below(find_item(n))
    BY <1>1, <1>2, <1>3, <2>2, AllVisited, ZenonT(60)
  <2>4. k \in respond(find_item(n))
    BY <1>5, <2>1, <2>3, ZenonT(60) DEF respond, Recent
  <2> QED BY <2>1, <2>4, ZenonT(60) DEF Lookup
<1>6. ASSUME NEW v \in Lookup(n) PROVE v \in Entrant /\ Recent(told[n][v].last)
  <2>1. PICK k \in respond(find_item(n)) : items[k].key = n /\ items[k].who = v
    BY ZenonT(60) DEF Lookup
  <2>2. k \in 1..Len(items) /\ items[k].expires > clock
    BY <1>4, <2>1, ZenonT(60) DEF respond
  <2>3. items[k] \in Item
    BY <1>2, <2>2
  <2>4. v \in Entrant /\ items[k].expires \in Int
    BY <2>1, <2>3, DirectoryServiceAssumption DEF Item
  <2>5. told[n][v].last \in Int
    BY <2>4, DirectoryServiceAssumption DEF ServiceInv
  <2>6. told[n][v].last >= 0 /\ items[k].expires <= told[n][v].last + Life
    BY <2>1, <2>2, ZenonT(60) DEF ServiceInv, Kept, KeptItems
  <2> QED BY <1>2, <2>2, <2>4, <2>5, <2>6 DEF Recent
<1> QED BY <1>5, <1>6, ZenonT(60)

\* The tree is empty at the start.
LEMMA ServiceInitInv == ServiceInit => ServiceInv
PROOF
<1> SUFFICES ASSUME ServiceInit PROVE ServiceInv
  BY ZenonT(60)
<1>1. items = <<>> /\ items \in Seq(Item) /\ Len(items) = 0 /\ 1..Len(items) = {}
  BY DEF ServiceInit
<1>2. Tree(items, <<>>, <<>>)
  BY <1>1 DEF Tree, Ordered, Linked, Rooted
<1>3. clock \in 0..MaxClock /\ Len(items) <= MaxItems
  BY <1>1, DirectoryServiceAssumption DEF ServiceInit
<1>4. Never \in [first : -1..MaxClock, last : -1..MaxClock] /\ Never.first = -1 /\ Never.last = -1
  BY DirectoryServiceAssumption DEF Never
<1>5. told \in [Number -> [Entrant -> [first : -1..MaxClock, last : -1..MaxClock]]]
  BY <1>4, ZenonT(60) DEF ServiceInit
<1>6. \A n \in Number, v \in Entrant : told[n][v] = Never
  BY ZenonT(60) DEF ServiceInit
<1>7. Kept
  <2>1. \A n \in Number, v \in Entrant :
          told[n][v] = Never /\ ~(told[n][v].first >= 0) /\ told[n][v].last <= clock
    BY <1>3, <1>4, <1>6, DirectoryServiceAssumption
  <2> QED BY <1>1, <2>1, ZenonT(60) DEF Kept, KeptItems
<1> QED BY <1>1, <1>2, <1>3, <1>5, <1>7, ZenonT(60) DEF ServiceInv

\* Time that passes changes no item.
LEMMA TickKeeps == ASSUME ServiceInv, ClockTicks PROVE ServiceInv'
PROOF
<1>1. items' = items /\ told' = told /\ clock' = clock + 1 /\ clock' \in 0..MaxClock /\ clock \in Int
  BY DirectoryServiceAssumption DEF ClockTicks, ServiceInv
<1>2. \A n \in Number, v \in Entrant : told[n][v].last \in Int
  BY DirectoryServiceAssumption DEF ServiceInv
<1>3. (\E L, R : Tree(items, L, R))'
  BY <1>1 DEF ServiceInv
<1>4. Kept'
  BY <1>1, <1>2 DEF ServiceInv, Kept, KeptItems, Cut
<1> QED BY <1>1, <1>3, <1>4, ZenonT(60) DEF ServiceInv

\* A registration for which an item is there already.
LEMMA RepeatKeeps ==
    ASSUME ServiceInv, NEW n \in Number, NEW v \in Entrant,
           NEW L, NEW R, Tree(items, L, R), Spot(n, v).item # NoItem
    PROVE  \E k \in 1..Len(items) : items[k].key = n /\ items[k].who = v
PROOF
<1> DEFINE k == Spot(n, v).item
<1>1. items \in Seq(Item)
  BY ZenonT(60) DEF ServiceInv
<1>2. Spot(n, v) \in Place(Len(items)) /\ OnTheWay(items, L, R, n, v, Spot(n, v), Len(items))
  BY <1>1, SpotFound, ZenonT(60)
<1>3. k \in 1..Len(items)
  BY <1>1, <1>2 DEF Place, NoItem
<1>4. items[k].key = n /\ items[k].value = 2 * v
  BY <1>2, <1>3 DEF OnTheWay
<1>5. items[k] \in Item /\ items[k].value = Cut(items[k].who)
  BY <1>1, <1>3 DEF ServiceInv, Kept, KeptItems
<1>6. items[k].who \in Int /\ v \in Int
  BY <1>5, DirectoryServiceAssumption, ZenonT(60) DEF Item
<1>7. items[k].who = v
  BY <1>4, <1>5, <1>6 DEF Cut
<1> QED BY <1>3, <1>4, <1>7, ZenonT(60)

\* A registration for which an item is made.
LEMMA NewKeeps ==
    ASSUME ServiceInv, NEW n \in Number, NEW v \in Entrant,
           NEW L, NEW R, Tree(items, L, R), Spot(n, v).item = NoItem,
           NEW t, t = Added(Spot(n, v), NewItem(n, v))
    PROVE  /\ t \in Seq(Item) /\ Len(t) = Len(items) + 1
           /\ \A k \in 1..Len(items) :
                /\ t[k].key = items[k].key /\ t[k].value = items[k].value
                /\ t[k].who = items[k].who /\ t[k].expires = items[k].expires
           /\ t[Len(items) + 1] = NewItem(n, v)
           /\ \E L2, R2 : Tree(t, L2, R2)
PROOF
<1> DEFINE x == Spot(n, v)
           it == NewItem(n, v)
           N == Len(items)
<1>1. items \in Seq(Item) /\ N \in Nat
  BY DEF ServiceInv
<1>2. x \in Place(N) /\ OnTheWay(items, L, R, n, v, x, N)
  BY <1>1, SpotFound, ZenonT(60)
<1>3. /\ it.key = n /\ it.value = Cut(v) /\ it.who = v /\ it.expires = clock + Life
      /\ it.left = NoItem /\ it.right = NoItem
  BY ZenonT(60) DEF NewItem
<1>4. it \in Item
  <2>1. Cut(v) \in Int /\ clock + Life \in 0..MaxClock + Life
    BY DirectoryServiceAssumption DEF Cut, ServiceInv
  <2> QED BY <2>1, ZenonT(60) DEF NewItem, Item, NoItem
<1> HIDE DEF it, x
<1>5. x.above \in 0..N /\ x.link \in {"left", "right"} /\ x.item = NoItem
  BY <1>2, ZenonT(60) DEF Place, x
<1>6. CASE x.above = NoItem
  <2>1. items = <<>> /\ N = 0
    BY <1>1, <1>2, <1>5, <1>6 DEF OnTheWay, NoItem
  <2>2. t = <<it>>
    BY <1>6, ZenonT(60) DEF Added, x, it
  <2>3. t \in Seq(Item) /\ Len(t) = 1 /\ t[1] = it /\ 1..N = {} /\ 1..Len(t) = {1}
    BY <1>4, <2>1, <2>2
  <2> DEFINE L2 == [a \in 1..1 |-> {}]
  <2>4. L2 \in [1..1 -> SUBSET (1..1)] /\ L2[1] = {}
    OBVIOUS
  <2> HIDE DEF L2
  <2>5. Ordered(t, L2, L2)
    BY <1>3, <2>3, <2>4 DEF Ordered, Under, NoItem
  <2>6. Linked(t, L2, L2) /\ Rooted(t, L2, L2)
    BY <1>3, <2>3, <2>4 DEF Linked, Rooted, NoItem
  <2>7. Tree(t, L2, L2)
    BY <2>3, <2>4, <2>5, <2>6 DEF Tree
  <2> QED BY <2>1, <2>3, <2>7 DEF it
<1>7. CASE x.above # NoItem
  <2> DEFINE p == x.above
             M == N + 1
             u == [items EXCEPT ![x.above][x.link] = Len(items) + 1]
  <2>1. p \in 1..N
    BY <1>1, <1>5, <1>7 DEF NoItem
  <2>2. t = Append(u, it)
    BY <1>7, ZenonT(60) DEF Added, x, it
  <2>3. \A a \in 1..N : items[a] \in Item
    BY <1>1
  <2>4. /\ u[p] = [items[p] EXCEPT ![x.link] = M]
        /\ \A a \in 1..N : a # p => u[a] = items[a]
        /\ DOMAIN u = 1..N
    BY <1>1, <2>1
  <2>5. M \in Nat
    BY <1>1
  <2> HIDE DEF u, M
  <2> DEFINE Same(y, z) == /\ y.key = z.key /\ y.value = z.value
                           /\ y.who = z.who /\ y.expires = z.expires
  <2>6. /\ u[p] \in Item /\ Same(u[p], items[p])
        /\ u[p].left = (IF x.link = "left" THEN M ELSE items[p].left)
        /\ u[p].right = (IF x.link = "right" THEN M ELSE items[p].right)
    <3>1. CASE x.link = "left"
      <4>1. u[p] = [items[p] EXCEPT !.left = M]
        BY <2>4, <3>1, ZenonT(60)
      <4>2. /\ u[p] \in Item /\ Same(u[p], items[p])
            /\ u[p].left = M /\ u[p].right = items[p].right
        <5>1. items[p] \in Item
          BY <2>1, <2>3, ZenonT(60)
        <5> QED BY <2>5, <4>1, <5>1, ZenonT(60) DEF Item
      <4> QED BY <3>1, <4>2, ZenonT(60)
    <3>2. CASE x.link = "right"
      <4>1. u[p] = [items[p] EXCEPT !.right = M]
        BY <2>4, <3>2, ZenonT(60)
      <4>2. /\ u[p] \in Item /\ Same(u[p], items[p])
            /\ u[p].right = M /\ u[p].left = items[p].left
        <5>1. items[p] \in Item
          BY <2>1, <2>3, ZenonT(60)
        <5> QED BY <2>5, <4>1, <5>1, ZenonT(60) DEF Item
      <4> QED BY <3>2, <4>2, ZenonT(60)
    <3> QED BY <1>5, <3>1, <3>2, ZenonT(60)
  <2>7. \A a \in 1..N : /\ u[a] \in Item /\ Same(u[a], items[a])
                        /\ u[a].left = (IF a = p /\ x.link = "left" THEN M ELSE items[a].left)
                        /\ u[a].right = (IF a = p /\ x.link = "right" THEN M ELSE items[a].right)
    BY <2>1, <2>3, <2>4, <2>6, ZenonT(60)
  <2>8. u \in Seq(Item) /\ Len(u) = N
    <3>1. u = [a \in 1..N |-> u[a]]
      BY <2>4, ZenonT(60) DEF u
    <3>2. u \in [1..N -> Item]
      BY <2>7, <3>1, ZenonT(60)
    <3> QED BY <1>1, <3>2
  <2>9. t \in Seq(Item) /\ Len(t) = M /\ t[M] = it /\ \A a \in 1..N : t[a] = u[a]
    BY <1>1, <1>4, <2>2, <2>8 DEF M
  <2>10. \A a \in 1..N :
           /\ t[a].key = items[a].key /\ t[a].value = items[a].value /\ t[a].who = items[a].who
           /\ t[a].expires = items[a].expires
           /\ t[a].left = (IF a = p /\ x.link = "left" THEN M ELSE items[a].left)
           /\ t[a].right = (IF a = p /\ x.link = "right" THEN M ELSE items[a].right)
    BY <2>7, <2>9
  <2>11. /\ x.link = "left" => items[p].left = NoItem /\ GoesLeft(items[p], n, v)
         /\ x.link = "right" => items[p].right = NoItem /\ GoesRight(items[p], n, v)
         /\ \A b \in 1..N : /\ p \in L[b] => GoesLeft(items[b], n, v)
                            /\ p \in R[b] => GoesRight(items[b], n, v)
    BY <1>2, <1>5, <1>7 DEF OnTheWay
  <2>12. \E L2, R2 : Tree(t, L2, R2)
    <3>1. Grows(items, t, L, R, n, v, p, x.link)
      BY <1>3, <2>9, <2>10, <2>11, ZenonT(60) DEF Grows, M
    <3> QED BY <1>1, <1>5, <2>1, <2>9, <3>1, Grown
  <2> QED BY <2>9, <2>10, <2>12, ZenonT(60) DEF M, it
<1> QED BY <1>6, <1>7, ZenonT(60)

\* add_record()
LEMMA AddKeeps ==
    ASSUME ServiceInv, NEW n \in Number, NEW v \in Entrant, AddRecord(n, v)
    PROVE  ServiceInv'
PROOF
<1> DEFINE TT == [first : -1..MaxClock, last : -1..MaxClock]
           old == told[n][v]
           new == [first |-> IF old = Never THEN clock ELSE old.first, last |-> clock]
<1>1. PICK L, R : Tree(items, L, R)
  BY ZenonT(60) DEF ServiceInv
<1>2. /\ items \in Seq(Item) /\ Len(items) \in Nat /\ Life \in Nat
      /\ clock' = clock /\ clock \in 0..MaxClock /\ clock \in Nat
      /\ told \in [Number -> [Entrant -> TT]]
  BY DirectoryServiceAssumption DEF ServiceInv, AddRecord
<1>3. \A a \in Number, b \in Entrant :
        told'[a][b] = IF a = n /\ b = v THEN new ELSE told[a][b]
  BY <1>2, ZenonT(60) DEF AddRecord
<1>4. new \in TT /\ new.last = clock /\ new.first = (IF old = Never THEN clock ELSE old.first)
  <2>1. old \in TT /\ clock \in -1..MaxClock
    BY <1>2, DirectoryServiceAssumption
  <2> QED BY <2>1, ZenonT(60)
<1> HIDE DEF new
<1>5. told' \in [Number -> [Entrant -> TT]]
  BY <1>2, <1>4, ZenonT(60) DEF AddRecord, new
<1> HIDE DEF TT
<1>6. \A a \in Number, b \in Entrant :
        /\ told[a][b].last \in Int /\ told[a][b].last <= clock
        /\ told[a][b] = Never \/ told[a][b].first >= 0
        /\ told[a][b].first \in Int
  BY <1>2, DirectoryServiceAssumption DEF TT, ServiceInv, Kept
<1>7. new # Never /\ new.first >= 0
  BY <1>2, <1>4, <1>6 DEF Never
<1>8. \A a \in Number, b \in Entrant :
        /\ told'[a][b] = Never \/ told'[a][b].first >= 0
        /\ told'[a][b].last <= clock /\ told'[a][b].last >= told[a][b].last
  BY <1>2, <1>3, <1>4, <1>6, <1>7
<1>9. CASE Spot(n, v).item # NoItem
  <2>1. items' = items
    BY <1>9, ZenonT(60) DEF AddRecord
  <2>2. PICK k \in 1..Len(items) : items[k].key = n /\ items[k].who = v
    BY <1>1, <1>9, RepeatKeeps, ZenonT(60)
  <2>3. old.last >= 0
    BY <2>2, ZenonT(60) DEF ServiceInv, Kept, KeptItems
  <2>4. old # Never /\ new.first = old.first
    BY <1>4, <2>3 DEF Never
  <2>5. \A a \in Number, b \in Entrant : told'[a][b].first = told[a][b].first
    BY <1>3, <2>4, ZenonT(60)
  <2>6. \A j \in 1..Len(items) : /\ items[j].key \in Number /\ items[j].who \in Entrant
                                 /\ items[j].expires \in Int
    <3>1. \A j \in 1..Len(items) : items[j] \in Item
      BY <1>2
    <3> QED BY <3>1, DirectoryServiceAssumption DEF Item
  <2>7. \A j \in 1..Len(items) :
          /\ items[j].value = Cut(items[j].who)
          /\ told'[items[j].key][items[j].who].last >= 0
          /\ items[j].expires <= told'[items[j].key][items[j].who].last + Life
    <3> SUFFICES ASSUME NEW j \in 1..Len(items)
                 PROVE  /\ items[j].value = Cut(items[j].who)
                        /\ told'[items[j].key][items[j].who].last >= 0
                        /\ items[j].expires <= told'[items[j].key][items[j].who].last + Life
      OBVIOUS
    <3> DEFINE a == items[j].key
               b == items[j].who
    <3>1. /\ items[j].value = Cut(b) /\ told[a][b].last >= 0
          /\ items[j].expires <= told[a][b].last + Life
      BY DEF ServiceInv, Kept, KeptItems
    <3>2. /\ told'[a][b].last >= told[a][b].last /\ told'[a][b].last \in Int
          /\ told[a][b].last \in Int /\ items[j].expires \in Int
      <4>1. a \in Number /\ b \in Entrant /\ items[j].expires \in Int
        BY <2>6, ZenonT(60)
      <4> QED BY <1>2, <1>3, <1>4, <1>6, <1>8, <4>1
    <3> HIDE DEF a, b
    <3>3. told'[a][b].last >= 0 /\ items[j].expires <= told'[a][b].last + Life
      BY <1>2, <3>1, <3>2
    <3> QED BY <3>1, <3>3, ZenonT(60) DEF a, b
  <2>8. Kept'
    <3>1. KeptItems'
      BY <2>1, <2>7, ZenonT(60) DEF KeptItems, Cut
    <3>2. ASSUME NEW a \in Number, NEW b \in Entrant, told'[a][b].first >= 0
          PROVE  \E j \in 1..Len(items) :
                   items[j].key = a /\ items[j].who = b /\ items[j].expires = told'[a][b].first + Life
      <4>1. told'[a][b].first = told[a][b].first
        BY <2>5, ZenonT(60)
      <4>2. PICK j \in 1..Len(items) :
              items[j].key = a /\ items[j].who = b /\ items[j].expires = told[a][b].first + Life
        BY <3>2, <4>1 DEF ServiceInv, Kept
      <4> QED BY <4>1, <4>2, ZenonT(60)
    <3> QED BY <1>2, <1>8, <2>1, <3>1, <3>2 DEF Kept
  <2>9. (\E M, W : Tree(items, M, W))'
    BY <1>1, <2>1, ZenonT(60)
  <2> QED BY <1>2, <1>5, <2>1, <2>8, <2>9, ZenonT(60) DEF ServiceInv, TT
<1>10. CASE Spot(n, v).item = NoItem
  <2> DEFINE t == Added(Spot(n, v), NewItem(n, v))
             N == Len(items)
  <2>1. items' = t /\ N < MaxItems
    BY <1>10, ZenonT(60) DEF AddRecord
  <2>2. /\ t \in Seq(Item) /\ Len(t) = N + 1
        /\ \A k \in 1..N : /\ t[k].key = items[k].key /\ t[k].value = items[k].value
                           /\ t[k].who = items[k].who /\ t[k].expires = items[k].expires
        /\ t[N + 1] = NewItem(n, v)
        /\ \E M, W : Tree(t, M, W)
    BY <1>1, <1>10, NewKeeps, ZenonT(60)
  <2> HIDE DEF t
  <2>3. /\ t[N + 1].key = n /\ t[N + 1].value = Cut(v) /\ t[N + 1].who = v
        /\ t[N + 1].expires = clock + Life
    BY <2>2 DEF NewItem
  <2>4. 1..N + 1 = 1..N \cup {N + 1} /\ N + 1 <= MaxItems /\ N + 1 \in 1..N + 1
    BY <1>2, <2>1, DirectoryServiceAssumption
  <2>5. \A j \in 1..N + 1 :
          /\ t[j].value = Cut(t[j].who)
          /\ told'[t[j].key][t[j].who].last >= 0
          /\ t[j].expires <= told'[t[j].key][t[j].who].last + Life
    <3> SUFFICES ASSUME NEW j \in 1..N + 1
                 PROVE  /\ t[j].value = Cut(t[j].who)
                        /\ told'[t[j].key][t[j].who].last >= 0
                        /\ t[j].expires <= told'[t[j].key][t[j].who].last + Life
      BY ZenonT(60)
    <3>1. CASE j = N + 1
      BY <1>2, <1>3, <1>4, <2>3, <3>1
    <3>2. CASE j \in 1..N
      <4> DEFINE a == items[j].key
                 b == items[j].who
      <4>1. items[j] \in Item
        BY <1>2, <3>2
      <4>2. a \in Number /\ b \in Entrant /\ items[j].expires \in Int
        BY <4>1, DirectoryServiceAssumption DEF Item
      <4>3. /\ items[j].value = Cut(b) /\ told[a][b].last >= 0
            /\ items[j].expires <= told[a][b].last + Life
        BY <3>2, ZenonT(60) DEF ServiceInv, Kept, KeptItems
      <4>4. /\ told'[a][b].last >= told[a][b].last /\ told'[a][b].last \in Int
            /\ told[a][b].last \in Int
        BY <1>2, <1>3, <1>4, <1>6, <1>8, <4>2
      <4> HIDE DEF a, b
      <4>5. told'[a][b].last >= 0 /\ items[j].expires <= told'[a][b].last + Life
        BY <1>2, <4>2, <4>3, <4>4
      <4> QED BY <2>2, <3>2, <4>3, <4>5, ZenonT(60) DEF a, b
    <3> QED BY <2>4, <3>1, <3>2, ZenonT(60)
  <2>6. ASSUME NEW a \in Number, NEW b \in Entrant, told'[a][b].first >= 0
        PROVE  \E k \in 1..N + 1 :
                 t[k].key = a /\ t[k].who = b /\ t[k].expires = told'[a][b].first + Life
    <3>1. CASE a = n /\ b = v /\ old = Never
      <4>1. told'[a][b].first = clock
        BY <1>3, <1>4, <3>1, ZenonT(60)
      <4> QED BY <2>3, <2>4, <3>1, <4>1, ZenonT(60)
    <3>2. CASE ~(a = n /\ b = v /\ old = Never)
      <4>1. told'[a][b].first = told[a][b].first
        BY <1>3, <1>4, <3>2
      <4>2. PICK k \in 1..N :
              items[k].key = a /\ items[k].who = b /\ items[k].expires = told[a][b].first + Life
        BY <2>6, <4>1 DEF ServiceInv, Kept
      <4> QED BY <2>2, <2>4, <4>1, <4>2, ZenonT(60)
    <3> QED BY <3>1, <3>2, ZenonT(60)
  <2>8. Kept'
    <3>1. Len(items') = N + 1
      BY <2>1, <2>2, ZenonT(60)
    <3>2. KeptItems'
      BY <2>1, <2>5, <3>1 DEF KeptItems, Cut
    <3> QED BY <1>2, <1>8, <2>1, <2>6, <3>1, <3>2 DEF Kept
  <2>9. (\E M, W : Tree(items, M, W))'
    BY <2>1, <2>2, ZenonT(60)
  <2> QED BY <1>2, <1>5, <2>1, <2>2, <2>4, <2>8, <2>9, ZenonT(60) DEF ServiceInv, TT
<1> QED BY <1>9, <1>10, ZenonT(60)

\* The items make a tree of the order of add_item() in every state of the service.
LEMMA ServiceInvariance == ServiceSpec => []ServiceInv
PROOF
<1>1. ServiceInv /\ [ServiceNext]_serviceVars => ServiceInv'
  <2> SUFFICES ASSUME ServiceInv, [ServiceNext]_serviceVars PROVE ServiceInv'
    BY ZenonT(60)
  <2>1. CASE \E n \in Number, v \in Entrant : AddRecord(n, v)
    BY <2>1, AddKeeps, ZenonT(60)
  <2>2. CASE ClockTicks
    BY <2>2, TickKeeps, ZenonT(60)
  <2>3. CASE UNCHANGED serviceVars
    <3>1. items' = items /\ clock' = clock /\ told' = told
      BY <2>3, ZenonT(60) DEF serviceVars
    <3>2. KeptItems'
      BY <3>1, ZenonT(60) DEF ServiceInv, Kept, KeptItems, Cut
    <3>3. Kept'
      BY <3>1, <3>2, ZenonT(60) DEF ServiceInv, Kept
    <3> QED BY <3>1, <3>3, ZenonT(60) DEF ServiceInv
  <2> QED BY <2>1, <2>2, <2>3, ZenonT(60) DEF ServiceNext
<1> QED BY <1>1, ServiceInitInv, PTL DEF ServiceSpec

\* The tree never outgrows its bound and every field stays in its range.
THEOREM ServiceTypeCorrect == ServiceSpec => []ServiceTypeOK
PROOF
<1> QED BY ServiceInvariance, ServiceInvTypeOK, PTL

\* However many register whatever numbers in whatever order, and however their
\* values are cut, a lookup passes on every entrant that first registered the number
\* in the last Life of the clock, and none that did not register it in that time:
\* add_item(), find_item() and respond() agree on the order of the tree.
THEOREM LookupExact == ServiceSpec => []LookupIsExact
PROOF
<1> QED BY ServiceInvariance, InvLookup, PTL

-----------------------------------------------------------------------------
(* The DNA helper                                                           *)

MaybeRequest == Request \cup {NoRequest}

DnaVariables ==
    [pid : {"none", "off", "some"}, stdin : BOOLEAN, stdout : BOOLEAN, stderr : BOOLEAN,
     started : BOOLEAN, watching : BOOLEAN, timeout : BOOLEAN, awaiting : BOOLEAN,
     harvester : BOOLEAN, restart : BOOLEAN, request : (Request \ Long) \cup {NoRequest},
     unsent : BOOLEAN, term : BOOLEAN, over : BOOLEAN]

\* What is to be sent is a request.
Sendable == {s \in DnaVariables : s.unsent => s.request # NoRequest}

HelperProcess ==
    [state : {"alive", "dead", "gone"}, ready : BOOLEAN, at : MaybeRequest, in : Seq(Request),
     out : Seq(Line), others : {0}]

Reply == {a \in [to : MaybeRequest, from : MaybeRequest] : a.to = a.from}

\* servald knows of a process as long as there is one, so that it does not start another.
DnaInv ==
    /\ h \in Sendable /\ helper \in HelperProcess /\ Len(helper.out) <= MaxLines
    /\ replied \in Reply
    /\ h.pid = "some" <=> helper.state # "gone"

\* The empty list is a list of lines and a list of requests.
LEMMA NoLines == /\ <<>> \in Seq(Line) /\ <<>> \in Seq(Request)
                 /\ Len(<<>>) = 0 /\ 0 <= MaxLines
PROOF
<1> QED BY DnaAssumption

\* The invariant implies the types.
LEMMA DnaInvTypeOK == DnaInv => DnaTypeOK
PROOF
<1> QED BY ZenonT(60) DEF DnaInv, DnaTypeOK, Sendable, DnaVariables, HelperProcess, MaybeRequest

\* The invariant implies that replies reach their request.
LEMMA InvReplies == DnaInv => RepliesReachTheirRequest
PROOF
<1> QED BY ZenonT(60) DEF DnaInv, RepliesReachTheirRequest, Reply

\* There is no helper and no request at the start.
LEMMA DnaInitInv == DnaInit => DnaInv
PROOF
<1> SUFFICES ASSUME DnaInit PROVE DnaInv
  BY ZenonT(60)
<1>1. Started \in Sendable /\ Started.pid = "some"
  BY ZenonT(60) DEF Started, Sendable, DnaVariables
<1>2. NewHelper \in HelperProcess /\ NewHelper.state = "alive" /\ Len(NewHelper.out) <= MaxLines
  BY DnaAssumption DEF NewHelper, HelperProcess, MaybeRequest
<1> QED BY <1>1, <1>2, ZenonT(60) DEF DnaInit, DnaInv, Reply, MaybeRequest

\* Killing the helper leaves no more to send.
LEMMA KillIs == ASSUME NEW s \in Sendable PROVE Kill(s) \in Sendable /\ Kill(s).pid = s.pid
PROOF
<1> DEFINE timeout == s.timeout /\ ~s.awaiting
           term == s.term \/ s.pid = "some"
<1>1. s \in DnaVariables /\ timeout \in BOOLEAN /\ term \in BOOLEAN
  BY ZenonT(60) DEF Sendable
<1>2. Kill(s) = [s EXCEPT !.awaiting = FALSE, !.timeout = timeout, !.term = term]
  BY ZenonT(60) DEF Kill
<1> HIDE DEF timeout, term
<1> QED BY <1>1, <1>2, ZenonT(60) DEF Sendable, DnaVariables

\* Once the helper is harvested there is nothing left to send.
LEMMA HarvestedIs == ASSUME NEW s \in Sendable PROVE Harvested(s) \in Sendable /\ Harvested(s).pid = "none"
PROOF
<1> QED BY ZenonT(60) DEF Harvested, Sendable, DnaVariables

\* A request that is accepted is what is sent next.
LEMMA AcceptedIs ==
    ASSUME NEW s \in Sendable, NEW r \in Request
    PROVE  Accepted(s, r) \in Sendable /\ Accepted(s, r).pid = s.pid
PROOF
<1> DEFINE t == IF r \in Long THEN [s EXCEPT !.unsent = FALSE] ELSE [s EXCEPT !.request = r, !.unsent = TRUE]
<1>1. t \in Sendable /\ t.pid = s.pid
  BY DnaAssumption, ZenonT(60) DEF Sendable, DnaVariables
<1>2. Accepted(s, r) = IF s.awaiting THEN s ELSE [t EXCEPT !.watching = s.started \/ @]
  BY ZenonT(60) DEF Accepted
<1> HIDE DEF t
<1> QED BY <1>1, <1>2 DEF Sendable, DnaVariables

\* Starting a helper leaves what is to be sent.
LEMMA StartIs == ASSUME NEW s \in Sendable PROVE Start(s) \in Sendable /\ Start(s).pid = "some"
PROOF
<1> QED BY ZenonT(60) DEF Start, Started, Sendable, DnaVariables

\* What the handling of lines leaves.
Handling(p) == [h : {s \in Sendable : s.pid = p}, replied : Reply]

\* A line of the helper is a reply to the request that was sent last, or none.
LEMMA LineHandled ==
    ASSUME NEW p, NEW x \in Handling(p), NEW line PROVE HandleReplyLine(x, line) \in Handling(p)
PROOF
<1>1. x.h \in Sendable /\ x.h.pid = p /\ x.replied \in Reply
  BY ZenonT(60) DEF Handling
<1>2. ASSUME NEW s \in Sendable, s.pid = p PROVE [x EXCEPT !.h = s] \in Handling(p)
  BY <1>1, <1>2, ZenonT(60) DEF Handling
<1>3. [x.h EXCEPT !.started = TRUE, !.watching = @ \/ x.h.unsent] \in Sendable
  BY <1>1, ZenonT(60) DEF Sendable, DnaVariables
<1>4. [x.h EXCEPT !.awaiting = FALSE, !.timeout = FALSE] \in Sendable
  BY <1>1, ZenonT(60) DEF Sendable, DnaVariables
<1>5. [x.h EXCEPT !.started = TRUE, !.watching = @ \/ x.h.unsent].pid = p
        /\ [x.h EXCEPT !.awaiting = FALSE, !.timeout = FALSE].pid = p
  BY <1>1, ZenonT(60) DEF Sendable, DnaVariables
<1>6. AnswersRequest(x.h, line) => [to |-> x.h.request, from |-> line] \in Reply
  BY ZenonT(60) DEF AnswersRequest, Reply, MaybeRequest
<1>7. AnswersRequest(x.h, line) => [x EXCEPT !.replied = [to |-> x.h.request, from |-> line]] \in Handling(p)
  BY <1>1, <1>6, ZenonT(60) DEF Handling
<1>8. Kill(x.h) \in Sendable /\ Kill(x.h).pid = p
  BY <1>1, KillIs, ZenonT(60)
<1> QED BY <1>2, <1>3, <1>4, <1>5, <1>7, <1>8, ZenonT(60) DEF HandleReplyLine

\* So are the lines of one read, one after the other (monitor_replies()).
LEMMA LinesAreHandled ==
    ASSUME DnaInv
    PROVE  LinesHandled.h \in Sendable /\ LinesHandled.h.pid = h.pid /\ LinesHandled.replied \in Reply
PROOF
<1> DEFINE N == Len(helper.out)
           V == Handling(h.pid)
           r == [h |-> h, replied |-> replied]
           G == [n \in 1..N |-> [x \in V |-> HandleReplyLine(x, helper.out[n])]]
           read == CHOOSE read : read = [n \in 0..Len(helper.out) |->
                     IF n = 0 THEN [h |-> h, replied |-> replied]
                     ELSE HandleReplyLine(read[n - 1], helper.out[n])]
<1>1. LinesHandled = read[N]
  BY ZenonT(60) DEF LinesHandled
<1>2. N \in Nat
  BY DEF DnaInv, HelperProcess
<1>3. r \in V
  BY ZenonT(60) DEF DnaInv, Handling
<1>4. G \in [1..N -> [V -> V]] /\ \A n \in 1..N : \A x \in V : G[n][x] = HandleReplyLine(x, helper.out[n])
  <2>1. \A n \in 1..N : \A x \in V : HandleReplyLine(x, helper.out[n]) \in V
    BY LineHandled, ZenonT(60)
  <2> HIDE DEF V
  <2> QED BY <2>1, ZenonT(60)
<1> HIDE DEF G, V, r
<1>5. PICK f : Runs(f, V, r, G, N)
  <2> HIDE DEF N
  <2> QED BY ONLY <1>2, <1>3, <1>4, Running, ZenonT(60)
<1>6. \A n \in 1..N : n - 1 \in 0..N /\ f[n - 1] \in V
  BY <1>2, <1>5 DEF Runs
<1>7. f = [n \in 0..N |-> IF n = 0 THEN r ELSE HandleReplyLine(f[n - 1], helper.out[n])]
  BY <1>2, <1>4, <1>5, <1>6 DEF Runs
<1>8. read = [n \in 0..N |-> IF n = 0 THEN r ELSE HandleReplyLine(read[n - 1], helper.out[n])]
  BY <1>7 DEF r
<1> HIDE DEF read
<1> DEFINE S == {n \in Nat : n <= N => read[n] \in V}
<1>9. 0 \in S
  BY <1>2, <1>3, <1>8
<1>10. ASSUME NEW n \in Nat, n \in S PROVE n + 1 \in S
  <2>1. n + 1 <= N => n + 1 \in 0..N /\ (n + 1) - 1 = n /\ n <= N /\ n + 1 # 0
    BY <1>2
  <2>2. \A x \in V : \A line : HandleReplyLine(x, line) \in V
    BY LineHandled, ZenonT(60) DEF V
  <2>3. n + 1 <= N => read[n + 1] = HandleReplyLine(read[n], helper.out[n + 1])
    BY <1>8, <2>1, ZenonT(60)
  <2>4. n + 1 <= N => read[n + 1] \in V
    BY <1>10, <2>1, <2>2, <2>3, ZenonT(60)
  <2>5. n + 1 \in Nat
    OBVIOUS
  <2> QED BY <2>4, <2>5, ZenonT(60)
<1> HIDE DEF S
<1>11. N \in S
  BY <1>2, <1>9, <1>10, NatInd, ZenonT(60)
<1>12. read[N] \in V
  BY <1>2, <1>11 DEF S
<1> QED BY <1>1, <1>12, ZenonT(60) DEF V, Handling

\* What servald does leaves the helper as it is, but for what it reads and writes.
LEMMA ServaldKeeps == ASSUME DnaInv, Servald PROVE DnaInv'
PROOF
<1>1. h \in Sendable /\ helper \in HelperProcess /\ Len(helper.out) <= MaxLines /\ replied \in Reply
  BY ZenonT(60) DEF DnaInv
<1>2. h.pid = "some" <=> helper.state # "gone"
  BY ZenonT(60) DEF DnaInv
<1>3. ASSUME h' \in Sendable, h'.pid = h.pid, helper' = helper, replied' = replied PROVE DnaInv'
  BY <1>1, <1>2, <1>3, ZenonT(60) DEF DnaInv
<1>4. CASE MonitorRequests
  <2>1. CASE ~Alive /\ h' = Kill([h EXCEPT !.stdin = FALSE, !.watching = FALSE]) /\ UNCHANGED helper
    <3>1. [h EXCEPT !.stdin = FALSE, !.watching = FALSE] \in Sendable
            /\ [h EXCEPT !.stdin = FALSE, !.watching = FALSE].pid = h.pid
      BY <1>1, ZenonT(60) DEF Sendable, DnaVariables
    <3> QED BY <1>3, <1>4, <2>1, <3>1, KillIs, ZenonT(60) DEF MonitorRequests
  <2>2. CASE h' = Kill(h) /\ UNCHANGED helper
    BY <1>1, <1>3, <1>4, <2>2, KillIs, ZenonT(60) DEF MonitorRequests
  <2>3. CASE /\ Alive /\ h.unsent /\ Len(helper.in) < MaxLines
             /\ h' = [h EXCEPT !.unsent = FALSE, !.awaiting = TRUE, !.timeout = TRUE, !.watching = FALSE]
             /\ helper' = [helper EXCEPT !.in = Append(@, h.request)]
    <3>1. h' \in Sendable /\ h'.pid = h.pid
      BY <1>1, <2>3, ZenonT(60) DEF Sendable, DnaVariables
    <3>2. h.request \in Request
      BY <1>1, <2>3, ZenonT(60) DEF Sendable, DnaVariables
    <3>3. Append(helper.in, h.request) \in Seq(Request)
      BY <1>1, <3>2 DEF HelperProcess
    <3>4. helper' \in HelperProcess /\ helper'.state = helper.state /\ helper'.out = helper.out
      BY <1>1, <2>3, <3>3, ZenonT(60) DEF HelperProcess
    <3>5. replied' = replied
      BY <1>4, ZenonT(60) DEF MonitorRequests
    <3> QED BY <1>1, <1>2, <3>1, <3>4, <3>5, ZenonT(60) DEF DnaInv
  <2>4. CASE Alive /\ ~h.unsent /\ h' = [h EXCEPT !.watching = FALSE] /\ UNCHANGED helper
    <3>1. h' \in Sendable /\ h'.pid = h.pid
      BY <1>1, <2>4, ZenonT(60) DEF Sendable, DnaVariables
    <3> QED BY <1>3, <1>4, <2>4, <3>1, ZenonT(60) DEF MonitorRequests
  <2> QED BY <1>4, <2>1, <2>2, <2>3, <2>4, ZenonT(60) DEF MonitorRequests
<1>5. CASE MonitorReplies
  <2> DEFINE s == LinesHandled
  <2>1. s.h \in Sendable /\ s.h.pid = h.pid /\ s.replied \in Reply
    BY LinesAreHandled, ZenonT(60)
  <2>2. /\ h' = Kill([s.h EXCEPT !.stdout = FALSE]) \/ h' = s.h
        /\ replied' = s.replied /\ helper' = [helper EXCEPT !.out = <<>>]
    BY <1>5, ZenonT(60) DEF MonitorReplies
  <2> HIDE DEF s
  <2>3. [s.h EXCEPT !.stdout = FALSE] \in Sendable /\ [s.h EXCEPT !.stdout = FALSE].pid = h.pid
    BY <2>1, ZenonT(60) DEF Sendable, DnaVariables
  <2>4. h' \in Sendable /\ h'.pid = h.pid
    BY <2>1, <2>2, <2>3, KillIs, ZenonT(60)
  <2>5. helper' \in HelperProcess /\ helper'.state = helper.state /\ Len(helper'.out) <= MaxLines
    BY <1>1, <2>2, NoLines, ZenonT(60) DEF HelperProcess
  <2> QED BY <1>2, <2>1, <2>2, <2>4, <2>5, ZenonT(60) DEF DnaInv
<1>6. CASE MonitorErrors
  <2>1. h' \in Sendable /\ h'.pid = h.pid
    BY <1>1, <1>6, ZenonT(60) DEF MonitorErrors, Sendable, DnaVariables
  <2> QED BY <1>3, <1>6, <2>1, ZenonT(60) DEF MonitorErrors
<1>7. CASE Harvester
  <2>1. Harvested(h) \in Sendable
    BY <1>1, HarvestedIs, ZenonT(60)
  <2>2. h' = [Harvested(h) EXCEPT !.pid = "off", !.restart = TRUE]
          /\ helper' = [helper EXCEPT !.state = "gone"] /\ replied' = replied
    BY <1>7, ZenonT(60) DEF Harvester
  <2>3. h' \in Sendable /\ h'.pid = "off"
    BY <2>1, <2>2, ZenonT(60) DEF Sendable, DnaVariables
  <2>4. helper' \in HelperProcess /\ helper'.state = "gone" /\ helper'.out = helper.out
    BY <1>1, <2>2, ZenonT(60) DEF HelperProcess
  <2> QED BY <1>1, <2>2, <2>3, <2>4, ZenonT(60) DEF DnaInv
<1>8. CASE RestartDelayer
  <2>1. h' = [h EXCEPT !.restart = FALSE, !.pid = IF @ = "off" THEN "none" ELSE @]
          /\ helper' = helper /\ replied' = replied
    BY <1>8, ZenonT(60) DEF RestartDelayer
  <2>2. h' \in Sendable /\ (h'.pid = "some" <=> h.pid = "some")
    BY <1>1, <2>1, ZenonT(60) DEF Sendable, DnaVariables
  <2> QED BY <1>1, <1>2, <2>1, <2>2, ZenonT(60) DEF DnaInv
<1>9. CASE ReplyTimeout
  <2>1. [h EXCEPT !.timeout = FALSE] \in Sendable /\ [h EXCEPT !.timeout = FALSE].pid = h.pid
    BY <1>1, ZenonT(60) DEF Sendable, DnaVariables
  <2>2. h' \in Sendable /\ h'.pid = h.pid
    BY <1>9, <2>1, KillIs, ZenonT(60) DEF ReplyTimeout
  <2> QED BY <1>3, <1>9, <2>2, ZenonT(60) DEF ReplyTimeout
<1> QED BY <1>4, <1>5, <1>6, <1>7, <1>8, <1>9, ZenonT(60) DEF Servald

\* A helper is started only when the one before is gone, so none is left behind.
LEMMA EnqueueKeeps == ASSUME DnaInv, NEW r \in Request, Enqueue(r) PROVE DnaInv'
PROOF
<1>1. h \in Sendable /\ helper \in HelperProcess /\ replied \in Reply /\ replied' = replied
        /\ Len(helper.out) <= MaxLines
  BY ZenonT(60) DEF DnaInv, Enqueue
<1>2. CASE Gone(h) /\ h' = Accepted(Start(h), r) /\ helper' = StartHelper
  <2>1. h' \in Sendable /\ h'.pid = "some"
    BY <1>1, <1>2, StartIs, AcceptedIs, ZenonT(60)
  <2>2. helper.state = "gone" /\ helper.others = 0
    BY <1>1, <1>2, ZenonT(60) DEF Gone, DnaInv, HelperProcess
  <2>3. helper' = [NewHelper EXCEPT !.others = 0]
    BY <1>2, <2>2, ZenonT(60) DEF StartHelper
  <2>4. helper' \in HelperProcess /\ helper'.state = "alive" /\ Len(helper'.out) <= MaxLines
    <3>1. helper' = [state |-> "alive", ready |-> FALSE, at |-> NoRequest, in |-> <<>>,
                     out |-> <<>>, others |-> 0]
      BY <2>3, ZenonT(60) DEF NewHelper
    <3> QED BY <3>1, NoLines, ZenonT(60) DEF HelperProcess, MaybeRequest
  <2> QED BY <1>1, <2>1, <2>4, ZenonT(60) DEF DnaInv
<1>3. CASE ~Gone(h) /\ h.stdin /\ h' = Accepted(h, r) /\ UNCHANGED helper
  <2>1. h' \in Sendable /\ h'.pid = h.pid
    BY <1>1, <1>3, AcceptedIs, ZenonT(60)
  <2> QED BY <1>1, <1>3, <2>1, ZenonT(60) DEF DnaInv
<1> QED BY <1>2, <1>3, ZenonT(60) DEF Enqueue

\* dna_helper_shutdown() keeps the invariant.
LEMMA ShutdownKeeps == ASSUME DnaInv, Shutdown PROVE DnaInv'
PROOF
<1>1. h \in Sendable /\ helper \in HelperProcess /\ replied \in Reply
  BY ZenonT(60) DEF DnaInv
<1> DEFINE s == Harvested(Kill(h))
<1>2. s \in Sendable /\ s.pid = "none"
  BY <1>1, KillIs, HarvestedIs, ZenonT(60)
<1>3. /\ h' = [s EXCEPT !.stdin = FALSE, !.stdout = FALSE, !.stderr = FALSE,
                 !.watching = FALSE, !.restart = FALSE, !.over = TRUE]
      /\ helper' = [helper EXCEPT !.state = "gone", !.out = <<>>] /\ replied' = replied
  BY ZenonT(60) DEF Shutdown
<1> HIDE DEF s
<1>4. h' \in Sendable /\ h'.pid = "none"
  BY <1>2, <1>3, ZenonT(60) DEF Sendable, DnaVariables
<1>5. helper' \in HelperProcess /\ helper'.state = "gone" /\ Len(helper'.out) <= MaxLines
  BY <1>1, <1>3, NoLines, ZenonT(60) DEF HelperProcess
<1> QED BY <1>1, <1>3, <1>4, <1>5, ZenonT(60) DEF DnaInv

\* What the helper does, servald does not know of.
LEMMA HelperKeeps == ASSUME DnaInv, HelperSays \/ HelperReads \/ HelperDies PROVE DnaInv'
PROOF
<1>1. /\ h \in Sendable /\ helper \in HelperProcess /\ Len(helper.out) <= MaxLines /\ replied \in Reply
      /\ h' = h /\ replied' = replied /\ helper.state = "alive"
  BY ZenonT(60) DEF DnaInv, HelperSays, HelperReads, HelperDies, Alive
<1>2. h.pid = "some"
  BY <1>1, ZenonT(60) DEF DnaInv
<1>3. ASSUME helper' \in HelperProcess, helper'.state # "gone", Len(helper'.out) <= MaxLines PROVE DnaInv'
  BY <1>1, <1>2, <1>3, ZenonT(60) DEF DnaInv
<1>4. CASE HelperSays
  <2>1. ASSUME NEW line \in Line
        PROVE  Says(line) \in HelperProcess /\ Says(line).state = "alive" /\ Len(Says(line).out) <= MaxLines
    <3>1. helper.out \in Seq(Line) /\ Len(helper.out) < MaxLines /\ MaxLines \in Nat
      BY <1>1, <1>4, DnaAssumption, ZenonT(60) DEF HelperSays, HelperProcess
    <3>2. Append(helper.out, line) \in Seq(Line) /\ Len(Append(helper.out, line)) <= MaxLines
      BY <3>1
    <3> QED BY <1>1, <3>2, ZenonT(60) DEF Says, HelperProcess
  <2>2. /\ "STARTED" \in Line /\ "other" \in Line /\ "DONE" \in Line
        /\ helper.at # NoRequest => helper.at \in Line
    BY <1>1, ZenonT(60) DEF Line, HelperProcess, MaybeRequest
  <2>3. PICK line \in Line : \/ helper' = Says(line)
                             \/ helper' = [Says(line) EXCEPT !.ready = TRUE]
                             \/ helper' = [Says(line) EXCEPT !.at = NoRequest]
    BY <1>4, <2>2, ZenonT(60) DEF HelperSays
  <2> DEFINE x == Says(line)
  <2>4. x \in HelperProcess /\ x.state = "alive" /\ Len(x.out) <= MaxLines
    BY <2>1, ZenonT(60)
  <2> HIDE DEF x
  <2>5. helper' = x \/ helper' = [x EXCEPT !.ready = TRUE] \/ helper' = [x EXCEPT !.at = NoRequest]
    BY <2>3, ZenonT(60) DEF x
  <2>6. helper' \in HelperProcess /\ helper'.state = "alive" /\ helper'.out = x.out
    BY <2>4, <2>5, ZenonT(60) DEF HelperProcess, MaybeRequest
  <2> QED BY <1>3, <2>4, <2>6, ZenonT(60)
<1>5. CASE HelperReads
  <2>1. helper.in \in Seq(Request) /\ helper.in # <<>>
          /\ helper' = [helper EXCEPT !.at = Head(helper.in), !.in = Tail(@)]
    BY <1>1, <1>5, ZenonT(60) DEF HelperReads, HelperProcess
  <2>2. Head(helper.in) \in Request /\ Tail(helper.in) \in Seq(Request)
    BY <2>1
  <2>3. helper' \in HelperProcess /\ helper'.state = "alive" /\ helper'.out = helper.out
    BY <1>1, <2>1, <2>2, ZenonT(60) DEF HelperProcess, MaybeRequest
  <2> QED BY <1>1, <1>3, <2>3, ZenonT(60)
<1>6. CASE HelperDies
  <2>1. helper' \in HelperProcess /\ helper'.state = "dead" /\ helper'.out = helper.out
    BY <1>1, <1>6, NoLines, ZenonT(60) DEF HelperDies, HelperProcess, MaybeRequest
  <2> QED BY <1>1, <1>3, <2>1, ZenonT(60)
<1> QED BY <1>4, <1>5, <1>6, ZenonT(60)

\* The invariant holds in every state of the server and its helper.
LEMMA DnaInvariance == DnaSpec => []DnaInv
PROOF
<1>1. ASSUME DnaInv, [DnaNext]_dnaVars PROVE DnaInv'
  <2>1. CASE UNCHANGED dnaVars
    BY <1>1, <2>1, ZenonT(60) DEF dnaVars, DnaInv
  <2> QED BY <1>1, <2>1, ServaldKeeps, EnqueueKeeps, ShutdownKeeps, HelperKeeps, ZenonT(60) DEF DnaNext
<1> QED BY <1>1, DnaInitInv, PTL DEF DnaSpec

\* The variables stay in their ranges, and no helper is left behind when another is
\* started ("Only try to restart a DNA helper process if the previous one is well and
\* truly gone", dna_helper_enqueue()).
THEOREM DnaTypeCorrect == DnaSpec => []DnaTypeOK
PROOF
<1> QED BY DnaInvariance, DnaInvTypeOK, PTL

\* A reply is passed on only to the request it answers, however many lines of a helper
\* are read at once and however late they are (handle_reply_line(), monitor_replies()).
THEOREM RepliesMatch == DnaSpec => []RepliesReachTheirRequest
PROOF
<1> QED BY DnaInvariance, InvReplies, PTL
=============================================================================

------------------------ MODULE RhizomeDirectProofs -------------------------
(***************************************************************************)
(* Proof that a synchronisation that went through leaves both ends with    *)
(* the newest version of every bundle that nobody else changed meanwhile,  *)
(* for any number of bundles, versions, sizes and places in the buffers.   *)
(*                                                                         *)
(* The invariant says of every such bundle: once the cursor has gone past  *)
(* the place of its newest version, both ends have that version, or the    *)
(* enquiry asks about it, or it is among the actions (Progress).  What a   *)
(* fill of the buffer has (FillIs) and what the comparison of two lists    *)
(* replies (ComparedTells) are proved by induction over the loops of the   *)
(* code.                                                                   *)
(***************************************************************************)
EXTENDS RhizomeDirect, FiniteSetTheorems, LoopTheorems

\* What a leaf that names no prover tries, one after the other.
USE SMTT(60), Z3T(60), ZenonT(20), SMTT(90), Z3T(90)

-----------------------------------------------------------------------------
(* Numbers and positions                                                    *)

\* The assumptions on the constants, one by one.
LEMMA Constants ==
    /\ MaxBid \in Nat /\ MaxVersion \in Nat /\ MaxTrouble \in Nat
    /\ Span \in Nat /\ Span > 0 /\ Bins \in Nat /\ Bins > 0
    /\ MaxBars \in Nat /\ MaxBars > 0 /\ MaxReply \in Nat /\ MaxReply > 0
    /\ Spare \in Nat /\ ReplyRoom \in Nat
    /\ SizeBin \in [Bid -> [1..MaxVersion -> 1..Bins]]
PROOF
<1>1. {Span, Bins, MaxBars, MaxReply} \subseteq Nat \ {0} /\ {Spare, ReplyRoom} \subseteq Nat
  BY DirectAssumption, ZenonT(60)
<1> QED BY <1>1, DirectAssumption

\* The fields of a BAR are numbers.
LEMMA BarFields ==
    ASSUME NEW r \in Bar
    PROVE  r.bin \in Nat /\ r.bid \in Nat /\ r.version \in Nat /\ r.bid \in Bid
PROOF
<1>1. r.bid \in 0..MaxBid /\ r.bin \in 1..Bins /\ r.version \in 1..MaxVersion
  BY ZenonT(60) DEF Bar, Bid
<1> QED BY <1>1, Constants DEF Bid

\* What division by the span of a prefix leaves over.
LEMMA DivBounds ==
    ASSUME NEW a \in Nat, NEW n \in Nat \ {0}
    PROVE  /\ a \div n \in Nat
           /\ (a \div n) * n <= a /\ a <= (a \div n) * n + n - 1
PROOF
<1> QED OBVIOUS

\* The greater of two numbers.
LEMMA MaxTwo ==
    ASSUME NEW a \in Nat, NEW b \in Nat
    PROVE  Max({a, b}) = (IF a >= b THEN a ELSE b)
PROOF
<1> DEFINE m == IF a >= b THEN a ELSE b
<1>1. m \in {a, b} /\ \A y \in {a, b} : m >= y
  OBVIOUS
<1>2. \A x \in {a, b} : (\A y \in {a, b} : x >= y) => x = m
  OBVIOUS
<1> HIDE DEF m
<1>3. Max({a, b}) \in {a, b} /\ \A y \in {a, b} : Max({a, b}) >= y
  BY <1>1, ZenonT(60) DEF Max
<1>4. Max({a, b}) = m
  BY <1>2, <1>3, ZenonT(60)
<1> QED BY <1>4, ZenonT(60) DEF m

-----------------------------------------------------------------------------
(* Lists in order                                                           *)

OnePerBid(S) == \A r, s \in S : r.bid = s.bid => r = s

\* A set of BARs of different bundles has a first one in the order of the queries.
LEMMA FirstBar ==
    ASSUME NEW S, S \subseteq Bar, S # {}, OnePerBid(S)
    PROVE  \E m \in S : \A r \in S : r # m => ~AtMost(r, m)
PROOF
<1>0. \A r \in S : r.bin \in Nat /\ r.bid \in Nat
  BY BarFields, ZenonT(60)
<1> DEFINE A == {r.bin : r \in S}
<1>1. A \subseteq Nat /\ A # {}
  BY <1>0, ZenonT(60)
<1>2. PICK x \in A : \A y \in A : x <= y
  BY <1>1, NatMin, ZenonT(60)
<1> DEFINE B == {r.bid : r \in {s \in S : s.bin = x}}
<1>3. B \subseteq Nat /\ B # {}
  BY <1>0, <1>2, ZenonT(60)
<1>4. PICK z \in B : \A y \in B : z <= y
  BY <1>3, NatMin, ZenonT(60)
<1>5. PICK m \in S : m.bin = x /\ m.bid = z
  BY <1>4, ZenonT(60)
<1>6. ASSUME NEW r \in S, r # m PROVE ~AtMost(r, m)
  <2>1. r.bin \in A /\ x <= r.bin /\ r.bid # m.bid
    BY <1>2, <1>5, <1>6, ZenonT(60) DEF OnePerBid
  <2>2. r.bin = x => z <= r.bid
    BY <1>4, ZenonT(60)
  <2> QED BY <1>0, <1>5, <2>1, <2>2 DEF AtMost
<1> QED BY <1>6, ZenonT(60)

Sorted(list) == \A j, k \in DOMAIN list : j < k => ~AtMost(list[k], list[j])

\* A finite set of BARs of different bundles can be listed in that order.
LEMMA OrderExists ==
    ASSUME NEW S, S \subseteq Bar, IsFiniteSet(S), OnePerBid(S)
    PROVE  \E list \in [1..Cardinality(S) -> S] : Sorted(list)
PROOF
<1> DEFINE Good(T) == \E list \in [1..Cardinality(T) -> T] : Sorted(list)
           K == {n \in Nat : \A T : T \subseteq S /\ IsFiniteSet(T) /\ Cardinality(T) = n => Good(T)}
<1>1. 0 \in K
  <2> SUFFICES ASSUME NEW T, T \subseteq S, IsFiniteSet(T), Cardinality(T) = 0 PROVE Good(T)
    BY ZenonT(60)
  <2>1. 1..Cardinality(T) = {}
    OBVIOUS
  <2> DEFINE f == [k \in {} |-> k]
  <2>2. f \in [1..Cardinality(T) -> T] /\ Sorted(f)
    BY <2>1, ZenonT(60) DEF Sorted
  <2> QED BY <2>2, ZenonT(60)
<1>2. ASSUME NEW n \in Nat, n \in K PROVE n + 1 \in K
  <2> SUFFICES ASSUME NEW T, T \subseteq S, IsFiniteSet(T), Cardinality(T) = n + 1 PROVE Good(T)
    OBVIOUS
  <2>1. T # {}
    BY FS_EmptySet
  <2>2. T \subseteq Bar /\ OnePerBid(T)
    BY ZenonT(60) DEF OnePerBid
  <2>3. PICK m \in T : \A r \in T : r # m => ~AtMost(r, m)
    BY <2>1, <2>2, FirstBar, ZenonT(60)
  <2> DEFINE U == T \ {m}
  <2>4. IsFiniteSet(U) /\ Cardinality(U) = n
    <3>1. IsFiniteSet(U) /\ Cardinality(U) = Cardinality(T) - 1
      BY FS_RemoveElement, ZenonT(60)
    <3> QED BY <3>1
  <2>5. PICK g \in [1..n -> U] : Sorted(g)
    BY <1>2, <2>4, ZenonT(60)
  <2> DEFINE f == [k \in 1..n + 1 |-> IF k = 1 THEN m ELSE g[k - 1]]
  <2>6. \A k \in 1..n + 1 : k # 1 => k - 1 \in 1..n /\ f[k] = g[k - 1] /\ g[k - 1] \in U
    BY <2>5
  <2>7. f \in [1..n + 1 -> T] /\ f[1] = m
    BY <2>6
  <2>8. Sorted(f)
    <3> SUFFICES ASSUME NEW j \in 1..n + 1, NEW k \in 1..n + 1, j < k PROVE ~AtMost(f[k], f[j])
      BY ZenonT(60) DEF Sorted
    <3>1. CASE j = 1
      <4>1. k # 1
        BY <3>1
      <4> QED BY <2>3, <2>6, <2>7, <3>1, <4>1, ZenonT(60)
    <3>2. CASE j # 1
      <4>1. k # 1 /\ k - 1 \in 1..n /\ j - 1 \in 1..n /\ j - 1 < k - 1
        BY <3>2
      <4>2. ~AtMost(g[k - 1], g[j - 1])
        BY <2>5, <4>1, ZenonT(60) DEF Sorted
      <4> QED BY <2>6, <3>2, <4>1, <4>2, ZenonT(60)
    <3> QED BY <3>1, <3>2, ZenonT(60)
  <2> HIDE DEF f
  <2> QED BY <2>7, <2>8, ZenonT(60)
<1> HIDE DEF K
<1>3. Cardinality(S) \in K
  BY <1>1, <1>2, NatInd, FS_CardinalityType, ZenonT(60)
<1> QED BY <1>3, ZenonT(60) DEF K

\* What the queries of the bins give, each ORDER BY BAR: every BAR of the set, in order.
LEMMA InOrderIs ==
    ASSUME NEW S, S \subseteq Bar, IsFiniteSet(S), OnePerBid(S)
    PROVE  /\ InOrder(S) \in Seq(Bar) /\ Sorted(InOrder(S))
           /\ \A k \in 1..Len(InOrder(S)) : InOrder(S)[k] \in S
           /\ \A r \in S : \E k \in 1..Len(InOrder(S)) : InOrder(S)[k] = r
PROOF
<1> DEFINE n == Cardinality(S)
           list == InOrder(S)
<1>1. n \in Nat
  BY FS_CardinalityType, ZenonT(60)
<1>2. \E l \in [1..n -> S] : Sorted(l)
  BY OrderExists, ZenonT(60)
<1>3. list \in [1..n -> S] /\ Sorted(list)
  BY <1>2, ZenonT(60) DEF InOrder, Sorted
<1> HIDE DEF list
<1>4. list \in Seq(Bar) /\ Len(list) = n
  BY <1>1, <1>3
<1>5. ASSUME NEW r \in S, \A k \in 1..n : list[k] # r PROVE FALSE
  <2> DEFINE U == S \ {r}
  <2>1. IsFiniteSet(U) /\ Cardinality(U) = n - 1
    BY FS_RemoveElement, ZenonT(60)
  <2>2. IsFiniteSet(1..n) /\ Cardinality(1..n) = n
    BY <1>1, FS_Interval
  <2>3. list \in [1..n -> U]
    BY <1>3, <1>5, ZenonT(60)
  <2>4. PICK j \in 1..n, k \in 1..n : j # k /\ list[j] = list[k]
    <3>1. Cardinality(U) < Cardinality(1..n)
      BY <1>1, <2>1, <2>2
    <3> HIDE DEF U, n
    <3> QED BY <2>1, <2>2, <2>3, <3>1, FS_PigeonHole, ZenonT(60)
  <2>5. list[j] \in Bar /\ list[k] \in Bar
    BY <1>3, ZenonT(60)
  <2>6. AtMost(list[j], list[k]) /\ AtMost(list[k], list[j])
    BY <2>4, <2>5, BarFields DEF AtMost
  <2> QED BY <1>1, <1>3, <2>4, <2>6 DEF Sorted
<1> QED BY <1>3, <1>4, <1>5, ZenonT(60) DEF list

-----------------------------------------------------------------------------
(* Filling a buffer                                                         *)

Stores == [Side -> [Bid -> Numbered]]

\* An end has bundle b, in the range of positions.
Within(side, b, from, to) ==
    /\ b \in Bid /\ store[side][b] # 0
    /\ AtMost(from, BarOf(side, b)) /\ AtMost(BarOf(side, b), to)

\* The BAR of a stored version.
LEMMA BarOfIs ==
    ASSUME store \in Stores, NEW side \in Side, NEW b \in Bid, store[side][b] # 0
    PROVE  /\ BarOf(side, b) \in Bar
           /\ BarOf(side, b).bid = b /\ BarOf(side, b).version = store[side][b]
           /\ BarOf(side, b).bin = SizeBin[b][store[side][b]]
PROOF
<1>1. store[side][b] \in 1..MaxVersion
  BY Constants DEF Stores, Numbered
<1>2. SizeBin[b][store[side][b]] \in 1..Bins
  BY <1>1, Constants, ZenonT(60)
<1> QED BY <1>1, <1>2, ZenonT(60) DEF BarOf, Bar

\* rhizome_direct_get_bars() gives the BARs of the bundles within its bounds, in order.
LEMMA BarsAre ==
    ASSUME store \in Stores, NEW side \in Side, NEW from, NEW to,
           NEW all, all = rhizome_direct_get_bars(side, from, to)
    PROVE  /\ all \in Seq(Bar) /\ Sorted(all)
           /\ \A k \in 1..Len(all) : all[k] = BarOf(side, all[k].bid) /\ Within(side, all[k].bid, from, to)
           /\ \A b : Within(side, b, from, to) => \E k \in 1..Len(all) : all[k] = BarOf(side, b)
PROOF
<1> DEFINE Had == {c \in Bid : store[side][c] # 0}
           bars == {BarOf(side, b) : b \in Had}
           S == {r \in bars : AtMost(from, r) /\ AtMost(r, to)}
<1>1. all = InOrder(S)
  BY ZenonT(60) DEF rhizome_direct_get_bars
<1>2. IsFiniteSet(Bid)
  BY Constants, FS_Interval DEF Bid
<1>3. IsFiniteSet(Had)
  BY <1>2, FS_Subset, ZenonT(60)
<1>4. IsFiniteSet(bars)
  <2> HIDE DEF Had
  <2> DEFINE F == [b \in Had |-> BarOf(side, b)]
  <2>1. F \in [Had -> bars] /\ \A r \in bars : \E b \in Had : F[b] = r
    BY ZenonT(60)
  <2>2. F \in Surjection(Had, bars)
    BY <2>1, ZenonT(60) DEF Surjection
  <2> HIDE DEF F, bars
  <2> QED BY <1>3, <2>2, FS_Surjection, ZenonT(60)
<1>5. S \subseteq Bar /\ OnePerBid(S)
  <2>1. ASSUME NEW r \in S PROVE r \in Bar /\ r = BarOf(side, r.bid)
    BY BarOfIs, ZenonT(60)
  <2> QED BY <2>1, ZenonT(60) DEF OnePerBid
<1>6. IsFiniteSet(S)
  BY <1>4, FS_Subset, ZenonT(60)
<1>7. ASSUME NEW r \in S PROVE r = BarOf(side, r.bid) /\ Within(side, r.bid, from, to)
  <2>1. PICK b \in Had : r = BarOf(side, b)
    BY ZenonT(60)
  <2>2. r.bid = b
    BY <2>1, BarOfIs, ZenonT(60)
  <2> QED BY <2>1, <2>2, ZenonT(60) DEF Within
<1>8. \A b : Within(side, b, from, to) => BarOf(side, b) \in S
  BY ZenonT(60) DEF Within
<1> HIDE DEF S
<1> QED BY <1>1, <1>5, <1>6, <1>7, <1>8, InOrderIs

\* The list of a fill has everything from where it begins to where the next begins,
\* and nothing that the end does not have.
\* What a fill of the buffer from one position to another has.
Filled(side, from, to, max, fill) ==
    /\ fill.bars \in Seq(Bar) /\ Len(fill.bars) <= max
    /\ \A k \in 1..Len(fill.bars) : /\ fill.bars[k] = BarOf(side, fill.bars[k].bid)
                                    /\ store[side][fill.bars[k].bid] # 0
    /\ Len(fill.bars) < max => \A b : Within(side, b, from, to) =>
         \E k \in 1..Len(fill.bars) : fill.bars[k] = BarOf(side, b)
    /\ \A b : Within(side, b, from, to) /\ ~AtMost(fill.next, BarOf(side, b)) =>
         \E k \in 1..Len(fill.bars) : fill.bars[k] = BarOf(side, b)
    /\ \/ fill.next = [bin |-> to.bin + 1, bid |-> Top] /\ fill.to = fill.next
       \/ \E r \in Bar : /\ fill.next = [bin |-> r.bin, bid |-> r.bid + 1]
                         /\ fill.to = [bin |-> r.bin, bid |-> r.bid]

\* A fill of the buffer has all bundles between its bounds, or as many as there is
\* room for and none after the last of them.
LEMMA FillIs ==
    ASSUME store \in Stores, NEW side \in Side, NEW from,
           NEW to, to.bin \in Nat, to.bid \in Nat, NEW max \in Nat, max > 0,
           NEW fill, fill = rhizome_direct_bundle_iterator_fill(side, from, to, max)
    PROVE  Filled(side, from, to, max, fill)
PROOF
<1> USE DEF Filled
<1> DEFINE all == rhizome_direct_get_bars(side, from, to)
           last == all[max]
           past == [bin |-> to.bin + 1, bid |-> Top]
<1>1. /\ all \in Seq(Bar) /\ Sorted(all)
      /\ \A k \in 1..Len(all) : all[k] = BarOf(side, all[k].bid) /\ Within(side, all[k].bid, from, to)
      /\ \A b : Within(side, b, from, to) => \E k \in 1..Len(all) : all[k] = BarOf(side, b)
  BY BarsAre
<1>2. CASE Len(all) < max
  <2>1. fill = [bars |-> all, to |-> past, next |-> past]
    BY <1>2, ZenonT(60) DEF rhizome_direct_bundle_iterator_fill
  <2>2. fill.bars = all /\ fill.to = past /\ fill.next = past
    BY <2>1
  <2> HIDE DEF all, past
  <2>3. \A k \in 1..Len(all) : store[side][all[k].bid] # 0
    BY <1>1, ZenonT(60) DEF Within
  <2> QED BY <1>1, <1>2, <2>2, <2>3 DEF past
<1>3. CASE ~(Len(all) < max)
  <2> DEFINE bars == SubSeq(all, 1, max)
  <2>1. fill = [bars |-> bars, to |-> [bin |-> last.bin, bid |-> last.bid],
                next |-> [bin |-> last.bin, bid |-> last.bid + 1]]
    BY <1>3, ZenonT(60) DEF rhizome_direct_bundle_iterator_fill
  <2>2. /\ fill.bars = bars /\ fill.to = [bin |-> last.bin, bid |-> last.bid]
        /\ fill.next = [bin |-> last.bin, bid |-> last.bid + 1]
    BY <2>1
  <2> HIDE DEF all
  <2>3. max \in 1..Len(all) /\ last \in Bar
    BY <1>1, <1>3
  <2>4. bars \in Seq(Bar) /\ Len(bars) = max /\ \A k \in 1..max : bars[k] = all[k]
    BY <1>1, <2>3
  <2> HIDE DEF bars
  <2>5. \A k \in 1..max : k \in 1..Len(all) /\ store[side][all[k].bid] # 0
    BY <1>1, <2>3 DEF Within
  <2>6. ASSUME NEW b, Within(side, b, from, to), ~AtMost(fill.next, BarOf(side, b))
        PROVE  \E k \in 1..max : bars[k] = BarOf(side, b)
    <3>1. PICK k \in 1..Len(all) : all[k] = BarOf(side, b)
      BY <1>1, <2>6, ZenonT(60)
    <3>2. CASE k <= max
      BY <2>4, <3>1, <3>2
    <3>3. CASE k > max
      <4>1. ~AtMost(all[k], last) /\ all[k] \in Bar
        <5>1. all[k] \in Bar /\ max < k /\ max \in 1..Len(all)
          BY <1>1, <2>3, <3>3
        <5>2. Sorted(all) /\ max \in DOMAIN all /\ k \in DOMAIN all /\ last = all[max]
          BY <1>1, <5>1
        <5> QED BY <5>1, <5>2, ZenonT(60) DEF Sorted
      <4>2. AtMost(fill.next, all[k])
        BY <2>2, <2>3, <4>1, BarFields DEF AtMost
      <4> QED BY <2>6, <3>1, <4>2, ZenonT(60)
    <3> QED BY <3>2, <3>3
  <2>7. last \in Bar
    BY <2>3, ZenonT(60)
  <2> HIDE DEF last
  <2>8. fill.bars \in Seq(Bar) /\ Len(fill.bars) = max
    BY <2>2, <2>4, ZenonT(60)
  <2>9. \A k \in 1..max : /\ fill.bars[k] = BarOf(side, fill.bars[k].bid)
                          /\ store[side][fill.bars[k].bid] # 0
    BY <1>1, <2>2, <2>4, <2>5, ZenonT(60)
  <2>10. \E r \in Bar : /\ fill.next = [bin |-> r.bin, bid |-> r.bid + 1]
                        /\ fill.to = [bin |-> r.bin, bid |-> r.bid]
    BY <2>2, <2>7, ZenonT(60)
  <2>11. \A b : Within(side, b, from, to) /\ ~AtMost(fill.next, BarOf(side, b)) =>
                \E k \in 1..max : fill.bars[k] = BarOf(side, b)
    BY <2>2, <2>6, ZenonT(60)
  <2> QED BY <2>8, <2>9, <2>10, <2>11
<1> QED BY <1>2, <1>3, ZenonT(60)

-----------------------------------------------------------------------------
(* Comparing two lists                                                      *)

Push(b) == [do |-> "push", bid |-> b]
Pull(b) == [do |-> "pull", bid |-> b]
Holds(list, x) == \E k \in 1..Len(list) : list[k] = x

\* One turn of the loop over the two lists.
Turn(theirs, ours, x) ==
    IF x.them > Len(theirs) /\ x.us > Len(ours) THEN x
    ELSE IF x.us > Len(ours) \/ (x.them <= Len(theirs) /\ Before(theirs[x.them], ours[x.us]))
    THEN [x EXCEPT !.them = @ + 1, !.reply = Append(@, [do |-> "push", bid |-> theirs[x.them].bid])]
    ELSE IF x.them > Len(theirs) \/ Before(ours[x.us], theirs[x.them])
    THEN [x EXCEPT !.us = @ + 1, !.reply = Append(@, [do |-> "pull", bid |-> ours[x.us].bid])]
    ELSE [x EXCEPT !.them = @ + 1, !.us = @ + 1]

Loops(theirs, ours) ==
    [them : 1..Len(theirs) + 1, us : 1..Len(ours) + 1, reply : Seq(Action)]

\* What has been gone over is in the reply, or is in both lists.
Told(theirs, ours, x) ==
    /\ \A k \in 1..Len(theirs) : k < x.them =>
         Holds(x.reply, Push(theirs[k].bid)) \/ Holds(ours, theirs[k])
    /\ \A k \in 1..Len(ours) : k < x.us =>
         Holds(x.reply, Pull(ours[k].bid)) \/ Holds(theirs, ours[k])

\* Appending to a list adds to what it holds.
LEMMA HoldsMore ==
    ASSUME NEW T, NEW list \in Seq(T), NEW x \in T, NEW y
    PROVE  /\ Append(list, x) \in Seq(T) /\ Holds(Append(list, x), x)
           /\ Holds(list, y) => Holds(Append(list, x), y)
PROOF
<1> DEFINE more == Append(list, x)
<1>1. more \in Seq(T) /\ Len(more) = Len(list) + 1 /\ Len(list) \in Nat
  OBVIOUS
<1>2. more[Len(list) + 1] = x /\ \A k \in 1..Len(list) : more[k] = list[k]
  OBVIOUS
<1> HIDE DEF more
<1>3. Holds(more, x)
  BY <1>1, <1>2 DEF Holds
<1>4. Holds(list, y) => Holds(more, y)
  BY <1>1, <1>2 DEF Holds
<1> QED BY <1>1, <1>3, <1>4, ZenonT(60) DEF more

\* What is below the next number is below this one, or is this one.
LEMMA BelowNext ==
    ASSUME NEW n \in Nat, NEW a \in 1..n + 1
    PROVE  \A k \in 1..n : k < a + 1 => k < a \/ k = a
OBVIOUS

\* One turn of the loop of rhizome_direct_get_fill_response(): the BAR that it goes
\* past is told about, and the loop comes nearer to its end.
LEMMA TurnTells ==
    ASSUME NEW theirs \in Seq(Bar), NEW ours \in Seq(Bar),
           NEW x \in Loops(theirs, ours), Told(theirs, ours, x), NEW n \in Nat,
           (x.them > Len(theirs) /\ x.us > Len(ours)) \/ x.them + x.us >= n + 2,
           NEW y, y = Turn(theirs, ours, x)
    PROVE  /\ y \in Loops(theirs, ours) /\ Told(theirs, ours, y)
           /\ (y.them > Len(theirs) /\ y.us > Len(ours)) \/ y.them + y.us >= n + 3
PROOF
<1>1. /\ x.them \in 1..Len(theirs) + 1 /\ x.us \in 1..Len(ours) + 1 /\ x.reply \in Seq(Action)
      /\ x = [them |-> x.them, us |-> x.us, reply |-> x.reply]
      /\ Len(theirs) \in Nat /\ Len(ours) \in Nat
  BY DEF Loops
<1>2. CASE x.them > Len(theirs) /\ x.us > Len(ours)
  BY <1>2, ZenonT(60) DEF Turn
<1>3. CASE /\ ~(x.them > Len(theirs) /\ x.us > Len(ours))
           /\ x.us > Len(ours) \/ (x.them <= Len(theirs) /\ Before(theirs[x.them], ours[x.us]))
  <2> DEFINE bar == theirs[x.them]
             act == Push(bar.bid)
  <2>1. x.them \in 1..Len(theirs) /\ bar \in Bar
    BY <1>1, <1>3
  <2>2. act \in Action
    BY <2>1, BarFields, ZenonT(60) DEF Push, Action
  <2>3. y = [them |-> x.them + 1, us |-> x.us, reply |-> Append(x.reply, act)]
    BY <1>1, <1>3, ZenonT(60) DEF Turn, Push
  <2>4. y.them = x.them + 1 /\ y.us = x.us /\ y.reply = Append(x.reply, act)
    BY <2>3
  <2> HIDE DEF act
  <2>5. /\ y.reply \in Seq(Action) /\ Holds(y.reply, act)
        /\ \A z : Holds(x.reply, z) => Holds(y.reply, z)
    BY <1>1, <2>2, <2>4, HoldsMore
  <2>6. y \in Loops(theirs, ours)
    BY <1>1, <2>1, <2>3, <2>4, <2>5 DEF Loops
  <2>7. \A k \in 1..Len(theirs) : k < y.them => k < x.them \/ k = x.them
    BY <1>1, <2>4, BelowNext, ZenonT(60)
  <2>8. Told(theirs, ours, y)
    <3>1. ASSUME NEW k \in 1..Len(theirs), k < y.them
          PROVE  Holds(y.reply, Push(theirs[k].bid)) \/ Holds(ours, theirs[k])
      <4>1. CASE k < x.them
        BY <2>5, <4>1, ZenonT(60) DEF Told
      <4>2. CASE k = x.them
        BY <2>5, <4>2, ZenonT(60) DEF act
      <4> QED BY <2>7, <3>1, <4>1, <4>2, ZenonT(60)
    <3>2. ASSUME NEW k \in 1..Len(ours), k < y.us
          PROVE  Holds(y.reply, Pull(ours[k].bid)) \/ Holds(theirs, ours[k])
      BY <2>4, <2>5, <3>2, ZenonT(60) DEF Told
    <3> QED BY <3>1, <3>2, ZenonT(60) DEF Told
  <2> QED BY <1>1, <1>3, <2>4, <2>6, <2>8
<1>4. CASE /\ ~(x.them > Len(theirs) /\ x.us > Len(ours))
           /\ ~(x.us > Len(ours) \/ (x.them <= Len(theirs) /\ Before(theirs[x.them], ours[x.us])))
           /\ x.them > Len(theirs) \/ Before(ours[x.us], theirs[x.them])
  <2> DEFINE bar == ours[x.us]
             act == Pull(bar.bid)
  <2>1. x.us \in 1..Len(ours) /\ bar \in Bar
    BY <1>1, <1>4
  <2>2. act \in Action
    BY <2>1, BarFields, ZenonT(60) DEF Pull, Action
  <2>3. y = [them |-> x.them, us |-> x.us + 1, reply |-> Append(x.reply, act)]
    BY <1>1, <1>4, ZenonT(60) DEF Turn, Pull
  <2>4. y.them = x.them /\ y.us = x.us + 1 /\ y.reply = Append(x.reply, act)
    BY <2>3
  <2> HIDE DEF act
  <2>5. /\ y.reply \in Seq(Action) /\ Holds(y.reply, act)
        /\ \A z : Holds(x.reply, z) => Holds(y.reply, z)
    BY <1>1, <2>2, <2>4, HoldsMore
  <2>6. y \in Loops(theirs, ours)
    BY <1>1, <2>1, <2>3, <2>4, <2>5 DEF Loops
  <2>7. \A k \in 1..Len(ours) : k < y.us => k < x.us \/ k = x.us
    BY <1>1, <2>4, BelowNext, ZenonT(60)
  <2>8. Told(theirs, ours, y)
    BY <2>4, <2>5, <2>7, ZenonT(60) DEF Told, act
  <2> QED BY <1>1, <1>4, <2>4, <2>6, <2>8
<1>5. CASE /\ ~(x.them > Len(theirs) /\ x.us > Len(ours))
           /\ ~(x.us > Len(ours) \/ (x.them <= Len(theirs) /\ Before(theirs[x.them], ours[x.us])))
           /\ ~(x.them > Len(theirs) \/ Before(ours[x.us], theirs[x.them]))
  <2>1. x.us \in 1..Len(ours) /\ x.them \in 1..Len(theirs)
    BY <1>1, <1>5
  <2> DEFINE r == theirs[x.them]
             s == ours[x.us]
  <2>2. r \in Bar /\ s \in Bar /\ ~Before(r, s) /\ ~Before(s, r)
    BY <1>1, <1>5, <2>1
  <2>3. r.bid = s.bid /\ r.bin = s.bin /\ r.version = s.version
    BY <2>2, BarFields DEF Before
  <2>4. r = s
    <3> HIDE DEF r, s
    <3>1. \A b \in Bar : b = [bid |-> b.bid, bin |-> b.bin, version |-> b.version]
      BY DEF Bar
    <3> QED BY <2>2, <2>3, <3>1, ZenonT(60)
  <2>5. Holds(ours, r) /\ Holds(theirs, s)
    BY <2>1, <2>4, ZenonT(60) DEF Holds
  <2>6. y = [them |-> x.them + 1, us |-> x.us + 1, reply |-> x.reply]
    BY <1>1, <1>5, ZenonT(60) DEF Turn
  <2>7. y.them = x.them + 1 /\ y.us = x.us + 1 /\ y.reply = x.reply /\ y \in Loops(theirs, ours)
    BY <1>1, <2>1, <2>6 DEF Loops
  <2>8. /\ \A k \in 1..Len(theirs) : k < y.them => k < x.them \/ k = x.them
        /\ \A k \in 1..Len(ours) : k < y.us => k < x.us \/ k = x.us
    BY <1>1, <2>7, BelowNext, ZenonT(60)
  <2>9. Told(theirs, ours, y)
    BY <2>5, <2>7, <2>8, ZenonT(60) DEF Told
  <2> QED BY <1>1, <1>5, <2>7, <2>9
<1> QED BY <1>2, <1>3, <1>4, <1>5, ZenonT(60)

\* Every BAR of one list is asked for, or is in the other list.
LEMMA ComparedTells ==
    ASSUME NEW theirs \in Seq(Bar), NEW ours \in Seq(Bar)
    PROVE  /\ Compared(theirs, ours) \in Seq(Action)
           /\ \A k \in 1..Len(theirs) :
                Holds(Compared(theirs, ours), Push(theirs[k].bid)) \/ Holds(ours, theirs[k])
           /\ \A k \in 1..Len(ours) :
                Holds(Compared(theirs, ours), Pull(ours[k].bid)) \/ Holds(theirs, ours[k])
PROOF
<1> DEFINE N == Len(theirs) + Len(ours)
           V == Loops(theirs, ours)
           r == [them |-> 1, us |-> 1, reply |-> <<>>]
           G == [x \in V |-> Turn(theirs, ours, x)]
           Step(x) ==
             IF x.them > Len(theirs) /\ x.us > Len(ours) THEN x
             ELSE IF x.us > Len(ours) \/ (x.them <= Len(theirs) /\ Before(theirs[x.them], ours[x.us]))
             THEN [x EXCEPT !.them = @ + 1,
                            !.reply = Append(@, [do |-> "push", bid |-> theirs[x.them].bid])]
             ELSE IF x.them > Len(theirs) \/ Before(ours[x.us], theirs[x.them])
             THEN [x EXCEPT !.us = @ + 1,
                            !.reply = Append(@, [do |-> "pull", bid |-> ours[x.us].bid])]
             ELSE [x EXCEPT !.them = @ + 1, !.us = @ + 1]
           loop == CHOOSE loop : loop = [n \in 0..Len(theirs) + Len(ours) |->
                     IF n = 0 THEN [them |-> 1, us |-> 1, reply |-> <<>>] ELSE Step(loop[n - 1])]
<1>1. Compared(theirs, ours) = loop[N].reply
  BY ZenonT(60) DEF Compared
<1>2. N \in Nat /\ Len(theirs) \in Nat /\ Len(ours) \in Nat
  OBVIOUS
<1>3. r \in V /\ r.them = 1 /\ r.us = 1
  BY <1>2 DEF Loops
<1>4. Told(theirs, ours, r)
  BY <1>2, <1>3 DEF Told
<1>5. \A x \in V : Turn(theirs, ours, x) \in V
  <2> SUFFICES ASSUME NEW x \in V PROVE Turn(theirs, ours, x) \in V
    BY ZenonT(60)
  <2>1. /\ x.them \in 1..Len(theirs) + 1 /\ x.us \in 1..Len(ours) + 1 /\ x.reply \in Seq(Action)
        /\ x = [them |-> x.them, us |-> x.us, reply |-> x.reply]
    BY ZenonT(60) DEF Loops
  <2>2. x.them \in 1..Len(theirs) => Append(x.reply, Push(theirs[x.them].bid)) \in Seq(Action)
    BY <2>1, BarFields DEF Push, Action
  <2>3. x.us \in 1..Len(ours) => Append(x.reply, Pull(ours[x.us].bid)) \in Seq(Action)
    BY <2>1, BarFields DEF Pull, Action
  <2> DEFINE over == x.them > Len(theirs) /\ x.us > Len(ours)
             push == x.us > Len(ours) \/ (x.them <= Len(theirs) /\ Before(theirs[x.them], ours[x.us]))
             pull == x.them > Len(theirs) \/ Before(ours[x.us], theirs[x.them])
  <2>4. CASE over
    BY <2>4, ZenonT(60) DEF Turn
  <2>5. CASE ~over /\ push
    <3>1. Turn(theirs, ours, x) =
            [them |-> x.them + 1, us |-> x.us, reply |-> Append(x.reply, Push(theirs[x.them].bid))]
      BY <2>1, <2>5, ZenonT(60) DEF Turn, Push
    <3>2. x.them \in 1..Len(theirs)
      BY <1>2, <2>1, <2>5
    <3> QED BY <1>2, <2>1, <2>2, <3>1, <3>2 DEF V, Loops
  <2>6. CASE ~over /\ ~push /\ pull
    <3>1. Turn(theirs, ours, x) =
            [them |-> x.them, us |-> x.us + 1, reply |-> Append(x.reply, Pull(ours[x.us].bid))]
      BY <2>1, <2>6, ZenonT(60) DEF Turn, Pull
    <3>2. x.us \in 1..Len(ours)
      BY <1>2, <2>1, <2>6
    <3> QED BY <1>2, <2>1, <2>3, <3>1, <3>2 DEF V, Loops
  <2>7. CASE ~over /\ ~push /\ ~pull
    <3>1. Turn(theirs, ours, x) = [them |-> x.them + 1, us |-> x.us + 1, reply |-> x.reply]
      BY <2>1, <2>7, ZenonT(60) DEF Turn
    <3>2. x.us \in 1..Len(ours) /\ x.them \in 1..Len(theirs)
      BY <1>2, <2>1, <2>7
    <3> QED BY <1>2, <2>1, <3>1, <3>2 DEF V, Loops
  <2> HIDE DEF over, push, pull
  <2> QED BY <2>4, <2>5, <2>6, <2>7, ZenonT(60)
<1>6. G \in [V -> V] /\ \A x \in V : G[x] = Turn(theirs, ours, x)
  BY <1>5, ZenonT(60)
<1> HIDE DEF G, V, r
<1>7. PICK f : Iterates(f, V, r, G, N)
  <2> HIDE DEF N
  <2> QED BY ONLY <1>2, <1>3, <1>6, Iteration, ZenonT(60)
<1>8. \A n \in 1..N : n - 1 \in 0..N /\ f[n - 1] \in V
  BY <1>2, <1>7 DEF Iterates
<1>9. f = [n \in 0..N |-> IF n = 0 THEN r ELSE Turn(theirs, ours, f[n - 1])]
  BY <1>2, <1>6, <1>7, <1>8 DEF Iterates
<1>10. loop = [n \in 0..N |-> IF n = 0 THEN r ELSE Turn(theirs, ours, loop[n - 1])]
  BY <1>9, ZenonT(60) DEF Turn, r
<1> HIDE DEF loop
<1> DEFINE On(x, n) == /\ x \in V /\ Told(theirs, ours, x)
                       /\ (x.them > Len(theirs) /\ x.us > Len(ours)) \/ x.them + x.us >= n + 2
           S == {n \in Nat : n <= N => On(loop[n], n)}
<1>11. On(r, 0)
  BY <1>3, <1>4
<1>12. ASSUME NEW x, NEW n \in Nat, On(x, n) PROVE On(Turn(theirs, ours, x), n + 1)
  <2> DEFINE y == Turn(theirs, ours, x)
  <2>1. /\ y \in Loops(theirs, ours) /\ Told(theirs, ours, y)
        /\ (y.them > Len(theirs) /\ y.us > Len(ours)) \/ y.them + y.us >= n + 3
    BY <1>12, TurnTells, ZenonT(60) DEF V
  <2> HIDE DEF y
  <2>2. On(y, n + 1)
    BY <2>1 DEF V
  <2> QED BY <2>2, ZenonT(60) DEF y
<1> HIDE DEF On
<1>13. 0 \in S
  BY <1>2, <1>10, <1>11
<1>14. ASSUME NEW n \in Nat, n \in S PROVE n + 1 \in S
  <2>1. n + 1 <= N => n + 1 \in 0..N /\ (n + 1) - 1 = n /\ n <= N /\ n + 1 # 0
    BY <1>2
  <2> QED BY <1>10, <1>12, <1>14, <2>1
<1> HIDE DEF S
<1>15. N \in S
  BY <1>2, <1>13, <1>14, NatInd, ZenonT(60)
<1>16. On(loop[N], N)
  BY <1>2, <1>15 DEF S
<1> DEFINE end == loop[N]
<1>17. /\ end.them \in 1..Len(theirs) + 1 /\ end.us \in 1..Len(ours) + 1 /\ end.reply \in Seq(Action)
  BY <1>16, ZenonT(60) DEF On, V, Loops
<1>18. end.them > Len(theirs) /\ end.us > Len(ours)
  BY <1>2, <1>16, <1>17 DEF On
<1>19. Told(theirs, ours, end)
  BY <1>16, ZenonT(60) DEF On
<1> HIDE DEF end
<1>20. /\ \A k \in 1..Len(theirs) : k < end.them
       /\ \A k \in 1..Len(ours) : k < end.us
  BY <1>2, <1>17, <1>18
<1>21. Compared(theirs, ours) = end.reply
  BY <1>1, ZenonT(60) DEF end
<1> QED BY <1>17, <1>19, <1>20, <1>21, ZenonT(60) DEF Told

-----------------------------------------------------------------------------
(* The invariant                                                            *)

Pickle == [bin : Nat, prefix : Nat]
Enquiry == [from : Pickle, to : Pickle, bars : Seq(Bar)]

SyncType ==
    [at : {"idle", "continue", "ask", "act"}, cursor : Position, request : Enquiry,
     actions : Seq(Action), newest : [Bid -> Numbered], whole : BOOLEAN, touched : SUBSET Bid]

Types ==
    /\ store \in Stores /\ trouble \in 0..MaxTrouble
    /\ sync \in SyncType /\ Len(sync.request.bars) <= MaxBars

\* Nothing newer than the newest version is anywhere, and that one is still there.
Bounded(b) ==
    /\ \A e \in Side : store[e][b] <= sync.newest[b]
    /\ \E e \in Side : store[e][b] = sync.newest[b]

\* Where the newest version of a bundle is gone over, and in which BAR.
NewestBar(b) == [bid |-> b, bin |-> SizeBin[b][sync.newest[b]], version |-> sync.newest[b]]

Passed(b) == ~AtMost(sync.cursor, NewestBar(b))

Settled(b) == \A e \in Side : store[e][b] >= sync.newest[b]

\* The enquiry has the newest version, or it is at the far end and in the range.
Asked(b) ==
    \/ Holds(sync.request.bars, NewestBar(b))
    \/ /\ store["them"][b] = sync.newest[b]
       /\ AtMost(UnpickledLow(sync.request.from), NewestBar(b))
       /\ AtMost(NewestBar(b), UnpickledHigh(sync.request.to))

\* The newest version is going to be pushed, or to be pulled.
Going(b) ==
    \/ Holds(sync.actions, Push(b)) /\ store["us"][b] >= sync.newest[b]
    \/ Holds(sync.actions, Pull(b)) /\ store["them"][b] >= sync.newest[b]

Progress(b) ==
    /\ sync.at = "idle" => Settled(b)
    /\ Passed(b) => /\ sync.at = "continue" => Settled(b)
                    /\ sync.at = "ask" => Settled(b) \/ Asked(b)
                    /\ sync.at = "act" => Settled(b) \/ Going(b)

Untouched == {b \in Bid : b \notin sync.touched}

DirectInv ==
    /\ Types
    /\ \A k \in 1..Len(sync.request.bars) :
         store["us"][sync.request.bars[k].bid] >= sync.request.bars[k].version
    /\ sync.at # "idle" => \A b \in Untouched : Bounded(b)
    /\ sync.whole => \A b \in Untouched : sync.newest[b] # 0 => Progress(b)

\* A stored version is a number.
LEMMA StoreAt ==
    ASSUME store \in Stores, NEW e \in Side, NEW b \in Bid
    PROVE  store[e][b] \in Nat /\ store[e][b] \in Numbered
PROOF
<1> QED BY Constants DEF Stores, Numbered

\* The invariant implies that a synchronisation that went through has both ends agree.
LEMMA InvAgrees == DirectInv => SyncAgrees
PROOF
<1> SUFFICES ASSUME DirectInv, sync.at = "idle", sync.whole, NEW e \in Side, NEW b \in Bid \ sync.touched
             PROVE  store[e][b] >= sync.newest[b]
  BY ZenonT(60) DEF SyncAgrees
<1>1. store[e][b] \in Nat /\ b \in Untouched
  BY StoreAt, ZenonT(60) DEF DirectInv, Types, Untouched
<1>2. sync.newest[b] # 0 => Settled(b)
  BY <1>1, ZenonT(60) DEF DirectInv, Progress
<1> QED BY <1>1, <1>2 DEF Settled

\* The invariant implies the types.
LEMMA InvTypeOK == DirectInv => DirectTypeOK
PROOF
<1> SUFFICES ASSUME DirectInv PROVE DirectTypeOK
  BY ZenonT(60)
<1>1. sync \in SyncType /\ sync.request \in Enquiry
  BY ZenonT(60) DEF DirectInv, Types, SyncType
<1> QED BY <1>1, ZenonT(60) DEF DirectInv, Types, SyncType, Enquiry, Stores, DirectTypeOK

\* A synchronisation that has not begun.
LEMMA StartPosition == NoSync \in SyncType /\ NoSync.request.bars = <<>> /\ NoSync.at = "idle" /\ ~NoSync.whole
PROOF
<1>1. [bin |-> 1, bid |-> 0] \in Position
  BY Constants DEF Position, Top
<1>2. Pickled([bin |-> 1, bid |-> 0]) \in Pickle
  <2>1. Pickled([bin |-> 1, bid |-> 0]) = [bin |-> 1, prefix |-> 0 \div Span]
    BY ZenonT(60) DEF Pickled
  <2>2. 0 \div Span \in Nat
    BY DivBounds, Constants
  <2> QED BY <2>1, <2>2 DEF Pickle
<1>3. NoEnquiry \in Enquiry /\ NoEnquiry.bars = <<>>
  BY <1>2 DEF NoEnquiry, Enquiry
<1>4. [b \in Bid |-> 0] \in [Bid -> Numbered]
  BY Constants DEF Numbered
<1> HIDE DEF NoEnquiry
<1> QED BY <1>1, <1>3, <1>4 DEF NoSync, SyncType

\* Nothing is being synchronised at the start.
LEMMA InitInv == DirectInit => DirectInv
PROOF
<1> SUFFICES ASSUME DirectInit PROVE DirectInv
  BY ZenonT(60)
<1>1. store \in Stores /\ sync = NoSync /\ trouble \in 0..MaxTrouble
  BY Constants DEF DirectInit, Stores
<1>2. Types /\ Len(sync.request.bars) = 0
  BY <1>1, StartPosition, Constants DEF Types
<1> QED BY <1>1, <1>2, StartPosition DEF DirectInv

\* Importing a version keeps the later one.
LEMMA MergedIs ==
    ASSUME store \in Stores, NEW side \in Side, NEW b \in Bid, NEW v \in Numbered,
           NEW s, s = Merged(side, b, v)
    PROVE  /\ s \in Stores
           /\ \A e \in Side, c \in Bid :
                s[e][c] = IF e = side /\ c = b /\ v > store[e][c] THEN v ELSE store[e][c]
           /\ \A e \in Side, c \in Bid : s[e][c] >= store[e][c]
PROOF
<1>1. store[side][b] \in Nat /\ v \in Nat /\ store[side][b] \in Numbered
  BY StoreAt, Constants DEF Numbered
<1>2. Max({store[side][b], v}) = (IF store[side][b] >= v THEN store[side][b] ELSE v)
  BY <1>1, MaxTwo, ZenonT(60)
<1>3. s = [store EXCEPT ![side][b] = Max({store[side][b], v})]
  BY ZenonT(60) DEF Merged
<1>4. s = [store EXCEPT ![side][b] = IF store[side][b] >= v THEN store[side][b] ELSE v]
  BY <1>2, <1>3, ZenonT(60)
<1>5. s \in Stores
  BY <1>1, <1>4 DEF Stores
<1>6. \A e \in Side, c \in Bid :
         s[e][c] = IF e = side /\ c = b /\ v > store[e][c] THEN v ELSE store[e][c]
  BY <1>1, <1>4 DEF Stores
<1>7. \A e \in Side, c \in Bid : store[e][c] \in Nat
  BY StoreAt, ZenonT(60)
<1> QED BY <1>1, <1>5, <1>6, <1>7

-----------------------------------------------------------------------------
(* The steps                                                                *)

\* The BAR of a version that is stored is a BAR.
LEMMA VersionBar ==
    ASSUME NEW b \in Bid, NEW v \in Numbered, v # 0
    PROVE  [bid |-> b, bin |-> SizeBin[b][v], version |-> v] \in Bar
PROOF
<1>1. v \in 1..MaxVersion
  BY Constants DEF Numbered
<1>2. SizeBin[b][v] \in 1..Bins
  BY <1>1, Constants, ZenonT(60)
<1> QED BY <1>1, <1>2, ZenonT(60) DEF Bar

\* A synchronisation starts with a cursor at the beginning, which nothing is before.
LEMMA StartKeeps == ASSUME DirectInv, rhizome_direct_start_sync_request PROVE DirectInv'
PROOF
<1>1. /\ sync' = [NoSync EXCEPT !.at = "continue", !.newest = Newest, !.whole = TRUE]
      /\ store' = store /\ trouble' = trouble
  BY ZenonT(60) DEF rhizome_direct_start_sync_request
<1>2. Types
  BY ZenonT(60) DEF DirectInv
<1>3. \A b \in Bid : /\ Newest[b] = Max({store["us"][b], store["them"][b]})
                     /\ store["us"][b] \in Nat /\ store["them"][b] \in Nat
  <2> SUFFICES ASSUME NEW b \in Bid
               PROVE  /\ Newest[b] = Max({store["us"][b], store["them"][b]})
                      /\ store["us"][b] \in Nat /\ store["them"][b] \in Nat
    BY ZenonT(60)
  <2>1. {store[e][b] : e \in Side} = {store["us"][b], store["them"][b]}
    BY ZenonT(60) DEF Side
  <2> QED BY <1>2, <2>1, StoreAt, ZenonT(60) DEF Newest, Types, Side
<1>4. \A b \in Bid : Newest[b] =
        IF store["us"][b] >= store["them"][b] THEN store["us"][b] ELSE store["them"][b]
  BY <1>3, MaxTwo, ZenonT(60)
<1>5. Newest \in [Bid -> Numbered]
  <2>1. \A b \in Bid : Newest[b] \in Numbered
    BY <1>2, <1>4, StoreAt, ZenonT(60) DEF Types, Side
  <2> QED BY <2>1, ZenonT(60) DEF Newest
<1>6. /\ sync' \in SyncType /\ sync'.newest = Newest /\ sync'.at = "continue"
      /\ sync'.request.bars = <<>> /\ sync'.cursor = [bin |-> 1, bid |-> 0] /\ sync'.touched = {}
  <2>1. NoSync \in SyncType /\ NoSync.request.bars = <<>>
    BY StartPosition, ZenonT(60)
  <2>2. NoSync.cursor = [bin |-> 1, bid |-> 0] /\ NoSync.touched = {}
    BY ZenonT(60) DEF NoSync
  <2> HIDE DEF NoSync
  <2> QED BY <1>1, <1>5, <2>1, <2>2, ZenonT(60) DEF SyncType
<1>7. Types'
  BY <1>1, <1>2, <1>6, Constants DEF Types
<1>8. \A b \in Bid : Bounded(b)'
  <2> SUFFICES ASSUME NEW b \in Bid
               PROVE  /\ \A e \in Side : store[e][b] <= Newest[b]
                      /\ \E e \in Side : store[e][b] = Newest[b]
    BY <1>1, <1>6, ZenonT(60) DEF Bounded
  <2>1. store["us"][b] <= Newest[b] /\ store["them"][b] <= Newest[b]
    <3>1. store["us"][b] \in Nat /\ store["them"][b] \in Nat
      BY <1>3, ZenonT(60)
    <3> QED BY <1>4, <3>1
  <2>2. store["us"][b] = Newest[b] \/ store["them"][b] = Newest[b]
    BY <1>4, ZenonT(60)
  <2> QED BY <2>1, <2>2, ZenonT(60) DEF Side
<1>9. ASSUME NEW b \in Bid, sync'.newest[b] # 0 PROVE Progress(b)'
  <2>1. NewestBar(b)' \in Bar
    BY <1>5, <1>6, <1>9, VersionBar, ZenonT(60) DEF NewestBar
  <2>2. NewestBar(b)'.bin >= 1 /\ NewestBar(b)'.bid >= 0 /\ NewestBar(b)'.bin \in Nat
    BY <2>1, BarFields DEF Bar
  <2>3. AtMost(sync.cursor, NewestBar(b))'
    BY <1>6, <2>2 DEF AtMost
  <2> QED BY <1>6, <2>3, ZenonT(60) DEF Progress, Passed
<1> QED BY <1>6, <1>7, <1>8, <1>9 DEF DirectInv, Untouched

\* A range that is sent and read again has what it had.
LEMMA RangeGrows ==
    ASSUME NEW c, c.bin \in Nat, c.bid \in Nat
    PROVE  /\ Pickled(c) \in Pickle
           /\ AtMost(UnpickledLow(Pickled(c)), c) /\ AtMost(c, UnpickledHigh(Pickled(c)))
           /\ UnpickledLow(Pickled(c)).bin \in Nat /\ UnpickledLow(Pickled(c)).bid \in Nat
           /\ UnpickledHigh(Pickled(c)).bin \in Nat /\ UnpickledHigh(Pickled(c)).bid \in Nat
PROOF
<1> DEFINE d == c.bid \div Span
           m == d * Span
<1>1. d \in Nat /\ m <= c.bid /\ c.bid <= m + Span - 1 /\ m \in Nat
  <2>1. c.bid \in Nat /\ Span \in Nat \ {0}
    BY Constants
  <2>2. d \in Nat /\ d * Span <= c.bid /\ c.bid <= d * Span + Span - 1
    BY <2>1, DivBounds, ZenonT(60)
  <2> HIDE DEF d
  <2>3. d * Span \in Nat
    BY <2>1, <2>2
  <2> QED BY <2>2, <2>3, ZenonT(60)
<1>2. /\ Pickled(c) = [bin |-> c.bin, prefix |-> d]
      /\ UnpickledLow(Pickled(c)) = [bin |-> c.bin, bid |-> m]
      /\ UnpickledHigh(Pickled(c)) = [bin |-> c.bin, bid |-> m + Span - 1]
  BY ZenonT(60) DEF Pickled, UnpickledLow, UnpickledHigh
<1> HIDE DEF m, d
<1> QED BY <1>1, <1>2, Constants DEF AtMost, Pickle

\* The order of the queries is transitive.
LEMMA AtMostTransitive ==
    ASSUME NEW p, NEW r, NEW t, p.bin \in Nat, p.bid \in Nat, r.bin \in Nat, r.bid \in Nat,
           t.bin \in Nat, t.bid \in Nat, AtMost(p, r), AtMost(r, t)
    PROVE  AtMost(p, t)
PROOF
<1> QED BY DEF AtMost

\* The next enquiry asks about everything between the cursor and where it is put.
LEMMA ContinueKeeps == ASSUME DirectInv, rhizome_direct_continue_sync_request PROVE DirectInv'
PROOF
<1> DEFINE end == [bin |-> Bins, bid |-> Top]
           fill == rhizome_direct_bundle_iterator_fill("us", sync.cursor, end, MaxBars)
           asked == [from |-> Pickled(sync.cursor), to |-> Pickled(fill.to), bars |-> fill.bars]
<1>1. /\ sync.at = "continue" /\ store' = store /\ trouble' = trouble
      /\ sync' = [sync EXCEPT !.at = "ask", !.cursor = fill.next, !.request = asked]
  BY ZenonT(60) DEF rhizome_direct_continue_sync_request
<1>2. Types /\ store \in Stores /\ sync \in SyncType /\ sync.cursor \in Position
  BY ZenonT(60) DEF DirectInv, Types, SyncType
<1>3. sync.cursor.bin \in Nat /\ sync.cursor.bid \in Nat /\ Top \in Nat /\ "us" \in Side /\ "them" \in Side
  BY <1>2, Constants DEF Position, Top, Side
<1>4. end.bin = Bins /\ end.bid = Top
  BY ZenonT(60)
<1> HIDE DEF end
<1>5. /\ fill.bars \in Seq(Bar) /\ Len(fill.bars) <= MaxBars
      /\ \A k \in 1..Len(fill.bars) : /\ fill.bars[k] = BarOf("us", fill.bars[k].bid)
                                      /\ store["us"][fill.bars[k].bid] # 0
      /\ \A b : Within("us", b, sync.cursor, end) /\ ~AtMost(fill.next, BarOf("us", b)) =>
           \E k \in 1..Len(fill.bars) : fill.bars[k] = BarOf("us", b)
      /\ \/ fill.next = [bin |-> Bins + 1, bid |-> Top] /\ fill.to = fill.next
         \/ \E r \in Bar : /\ fill.next = [bin |-> r.bin, bid |-> r.bid + 1]
                           /\ fill.to = [bin |-> r.bin, bid |-> r.bid]
  <2>1. end.bin \in Nat /\ end.bid \in Nat /\ MaxBars \in Nat /\ MaxBars > 0
    BY <1>3, <1>4, Constants, ZenonT(60)
  <2>2. PICK f : f = rhizome_direct_bundle_iterator_fill("us", sync.cursor, end, MaxBars)
    BY ZenonT(60)
  <2>3. f = fill
    BY <2>2, ZenonT(60)
  <2> HIDE DEF fill
  <2>4. Filled("us", sync.cursor, end, MaxBars, fill)
    BY <1>2, <1>3, <2>1, <2>2, <2>3, FillIs
  <2> QED BY <1>4, <2>4 DEF Filled
<1> HIDE DEF fill
<1>6. /\ fill.next \in Position /\ fill.next.bin \in Nat /\ fill.next.bid \in Nat
      /\ fill.to.bin \in Nat /\ fill.to.bid \in Nat
  <2>1. CASE fill.next = [bin |-> Bins + 1, bid |-> Top] /\ fill.to = fill.next
    BY <1>3, <2>1, Constants DEF Position
  <2>2. CASE \E r \in Bar : /\ fill.next = [bin |-> r.bin, bid |-> r.bid + 1]
                            /\ fill.to = [bin |-> r.bin, bid |-> r.bid]
    <3>1. PICK r \in Bar : /\ fill.next = [bin |-> r.bin, bid |-> r.bid + 1]
                           /\ fill.to = [bin |-> r.bin, bid |-> r.bid]
      BY <2>2, ZenonT(60)
    <3>2. r.bin \in 1..Bins /\ r.bid \in 0..MaxBid
      BY ZenonT(60) DEF Bar, Bid
    <3> QED BY <3>1, <3>2, Constants DEF Position, Top
  <2> QED BY <1>5, <2>1, <2>2, ZenonT(60)
<1>7. \A c : c.bin \in Nat /\ c.bid \in Nat /\ ~AtMost(fill.next, c) => AtMost(c, fill.to)
  <2> SUFFICES ASSUME NEW c, c.bin \in Nat, c.bid \in Nat, ~AtMost(fill.next, c)
               PROVE  AtMost(c, fill.to)
    BY ZenonT(60)
  <2>1. CASE fill.next = [bin |-> Bins + 1, bid |-> Top] /\ fill.to = fill.next
    BY <1>6, <2>1 DEF AtMost
  <2>2. CASE \E r \in Bar : /\ fill.next = [bin |-> r.bin, bid |-> r.bid + 1]
                            /\ fill.to = [bin |-> r.bin, bid |-> r.bid]
    BY <1>6, <2>2, BarFields DEF AtMost
  <2> QED BY <1>5, <2>1, <2>2, ZenonT(60)
<1>8. asked \in Enquiry /\ asked.from = Pickled(sync.cursor) /\ asked.to = Pickled(fill.to)
        /\ asked.bars = fill.bars
  BY <1>3, <1>5, <1>6, RangeGrows, ZenonT(60) DEF Enquiry
<1> HIDE DEF asked
<1>9. /\ sync' \in SyncType /\ sync'.at = "ask" /\ sync'.cursor = fill.next /\ sync'.request = asked
      /\ sync'.newest = sync.newest /\ sync'.whole = sync.whole /\ sync'.touched = sync.touched
  BY <1>1, <1>2, <1>6, <1>8, ZenonT(60) DEF SyncType
<1>10. Types'
  BY <1>1, <1>2, <1>5, <1>8, <1>9, ZenonT(60) DEF Types
<1>11. ASSUME NEW k \in 1..Len(fill.bars)
       PROVE  store["us"][fill.bars[k].bid] >= fill.bars[k].version
  <2>1. fill.bars[k].bid \in Bid
    BY <1>5, BarFields
  <2> QED BY <1>2, <1>3, <1>5, <2>1, BarOfIs, StoreAt
<1>12. \A b \in Untouched : Bounded(b)
  BY <1>1, ZenonT(60) DEF DirectInv
<1>13. ASSUME NEW b \in Untouched, sync.newest[b] # 0, sync.whole PROVE Progress(b)'
  <2> DEFINE bar == NewestBar(b)
  <2>1. b \in Bid /\ bar' = bar /\ bar \in Bar /\ bar.bin \in Nat /\ bar.bid \in Nat
    <3>1. b \in Bid /\ sync.newest[b] \in Numbered
      BY <1>2, ZenonT(60) DEF Untouched, SyncType
    <3>2. bar \in Bar
      BY <1>13, <3>1, VersionBar, ZenonT(60) DEF NewestBar
    <3>3. bar' = bar
      BY <1>9, ZenonT(60) DEF NewestBar
    <3> QED BY <3>1, <3>2, <3>3, BarFields, ZenonT(60)
  <2>2. Settled(b)' <=> Settled(b)
    BY <1>1, <1>9, ZenonT(60) DEF Settled
  <2>3. CASE ~AtMost(sync.cursor, bar)
    BY <1>1, <1>9, <1>13, <2>2, <2>3, ZenonT(60) DEF DirectInv, Progress, Passed
  <2>4. CASE AtMost(sync.cursor, bar) /\ ~AtMost(fill.next, bar)
    <3>1. AtMost(bar, fill.to) /\ AtMost(bar, end)
      <4>1. bar.bin \in 1..Bins /\ bar.bid \in 0..MaxBid
        BY <2>1, ZenonT(60) DEF Bar, Bid
      <4> QED BY <1>4, <1>7, <2>1, <2>4, <4>1, Constants DEF AtMost, Top
    <3>2. CASE store["us"][b] = sync.newest[b]
      <4>1. BarOf("us", b) = bar
        BY <3>2, ZenonT(60) DEF BarOf, NewestBar
      <4>2. Within("us", b, sync.cursor, end)
        BY <1>13, <2>1, <2>4, <3>1, <3>2, <4>1, ZenonT(60) DEF Within
      <4>3. Holds(fill.bars, bar)
        BY <1>5, <2>4, <4>1, <4>2, ZenonT(60) DEF Holds
      <4> QED BY <1>8, <1>9, <2>1, <4>3, ZenonT(60) DEF Progress, Asked
    <3>3. CASE store["us"][b] # sync.newest[b]
      <4>1. store["them"][b] = sync.newest[b]
        BY <1>12, <3>3, ZenonT(60) DEF Bounded, Side
      <4>2. AtMost(UnpickledLow(asked.from), bar)
        BY <1>3, <1>8, <2>1, <2>4, RangeGrows, AtMostTransitive
      <4>3. AtMost(bar, UnpickledHigh(asked.to))
        BY <1>6, <1>8, <2>1, <3>1, RangeGrows, AtMostTransitive
      <4> QED BY <1>1, <1>9, <2>1, <4>1, <4>2, <4>3, ZenonT(60) DEF Progress, Asked
    <3> QED BY <3>2, <3>3, ZenonT(60)
  <2>5. CASE AtMost(fill.next, bar)
    BY <1>9, <2>1, <2>5, ZenonT(60) DEF Progress, Passed
  <2> QED BY <2>3, <2>4, <2>5, ZenonT(60)
<1>14. Untouched' = Untouched
  BY <1>9, ZenonT(60) DEF Untouched
<1>15. \A b \in Untouched : Bounded(b)'
  BY <1>1, <1>9, <1>12, ZenonT(60) DEF Bounded
<1> QED BY <1>1, <1>8, <1>9, <1>10, <1>11, <1>13, <1>14, <1>15, ZenonT(60) DEF DirectInv

\* A synchronisation ends with its cursor past every bundle, or is not whole.
LEMMA ConcludeKeeps == ASSUME DirectInv, rhizome_direct_conclude_sync_request PROVE DirectInv'
PROOF
<1>1. /\ sync.at = "continue" /\ AtEnd /\ store' = store /\ trouble' = trouble
      /\ sync' = [sync EXCEPT !.at = "idle", !.cursor = NoSync.cursor]
  BY ZenonT(60) DEF rhizome_direct_conclude_sync_request
<1>2. Types /\ sync \in SyncType /\ NoSync.cursor \in Position /\ NoSync.cursor = [bin |-> 1, bid |-> 0]
  <2>1. NoSync.cursor = [bin |-> 1, bid |-> 0]
    BY ZenonT(60) DEF NoSync
  <2> QED BY <2>1, StartPosition, ZenonT(60) DEF DirectInv, Types, SyncType
<1>3. /\ sync' \in SyncType /\ sync'.at = "idle" /\ sync'.cursor = [bin |-> 1, bid |-> 0]
      /\ sync'.request = sync.request /\ sync'.newest = sync.newest
      /\ sync'.whole = sync.whole /\ sync'.touched = sync.touched
  <2> HIDE DEF NoSync
  <2> QED BY <1>1, <1>2, ZenonT(60) DEF SyncType
<1>4. Types'
  BY <1>1, <1>2, <1>3, ZenonT(60) DEF Types
<1>5. ASSUME NEW b \in Untouched, sync.newest[b] # 0, sync.whole PROVE Progress(b)'
  <2>1. b \in Bid /\ sync.newest[b] \in Numbered
    BY <1>2, ZenonT(60) DEF Untouched, SyncType
  <2>2. NewestBar(b) \in Bar
    BY <1>5, <2>1, VersionBar, ZenonT(60) DEF NewestBar
  <2>3. NewestBar(b).bin \in 1..Bins /\ NewestBar(b).bid \in 0..MaxBid
    BY <2>2, ZenonT(60) DEF Bar, Bid
  <2>4. sync.cursor.bin \in Nat /\ sync.cursor.bid \in Nat
    BY <1>2, Constants DEF SyncType, Position
  <2>5. Passed(b)
    <3>1. Bins \in Nat /\ MaxBid \in Nat
      BY Constants, ZenonT(60)
    <3>2. NewestBar(b).bin <= sync.cursor.bin /\ NewestBar(b).bid < sync.cursor.bid
            /\ NewestBar(b).bin \in Nat /\ NewestBar(b).bid \in Nat
      BY <1>1, <2>3, <2>4, <3>1 DEF AtEnd, Top
    <3> QED BY <2>4, <3>2 DEF Passed, AtMost
  <2>6. Settled(b)
    BY <1>1, <1>5, <2>5, ZenonT(60) DEF DirectInv, Progress
  <2>7. ~Passed(b)'
    <3>1. NewestBar(b)' = NewestBar(b)
      BY <1>3, ZenonT(60) DEF NewestBar
    <3> QED BY <1>3, <2>3, <3>1, Constants DEF Passed, AtMost
  <2> QED BY <1>1, <1>3, <2>6, <2>7, ZenonT(60) DEF Progress, Settled
<1>6. Untouched' = Untouched
  BY <1>3, ZenonT(60) DEF Untouched
<1> QED BY <1>1, <1>3, <1>4, <1>5, <1>6, ZenonT(60) DEF DirectInv

\* The lesser of two numbers.
LEMMA MinTwo ==
    ASSUME NEW a \in Nat, NEW c \in Nat
    PROVE  Min({a, c}) = IF a <= c THEN a ELSE c
PROOF
<1> DEFINE m == IF a <= c THEN a ELSE c
<1>1. m \in {a, c} /\ \A y \in {a, c} : m <= y
  OBVIOUS
<1>2. \A x \in {a, c} : (\A y \in {a, c} : x <= y) => x = m
  OBVIOUS
<1>3. Min({a, c}) = CHOOSE x \in {a, c} : \A y \in {a, c} : x <= y
  BY ZenonT(60) DEF Min
<1> QED BY <1>1, <1>2, <1>3, ZenonT(60)

\* What an enquiry without an answer, or one that was answered, leaves.
LEMMA NoEnquiryIs == NoEnquiry \in Enquiry /\ NoEnquiry.bars = <<>> /\ Len(NoEnquiry.bars) = 0
PROOF
<1>1. Pickled([bin |-> 1, bid |-> 0]) \in Pickle
  BY RangeGrows, ZenonT(60)
<1> QED BY <1>1 DEF NoEnquiry, Enquiry

\* An enquiry without an answer makes the synchronisation one that is not whole.
LEMMA NotRepliedKeeps == ASSUME DirectInv, NotReplied PROVE DirectInv'
PROOF
<1>1. /\ sync.at = "ask" /\ store' = store /\ trouble > 0 /\ trouble' = trouble - 1
      /\ sync' = [sync EXCEPT !.at = "continue", !.request = NoEnquiry, !.whole = FALSE]
  BY ZenonT(60) DEF NotReplied, Troubled
<1>2. Types /\ sync \in SyncType /\ MaxBars \in Nat
  BY Constants, ZenonT(60) DEF DirectInv, Types
<1>3. /\ sync' \in SyncType /\ sync'.request = NoEnquiry /\ ~sync'.whole
      /\ sync'.newest = sync.newest /\ sync'.touched = sync.touched
  BY <1>1, <1>2, NoEnquiryIs, ZenonT(60) DEF SyncType
<1>4. trouble' \in 0..MaxTrouble
  BY <1>1, <1>2, Constants DEF Types
<1>5. Types'
  BY <1>1, <1>2, <1>3, <1>4, NoEnquiryIs DEF Types
<1> QED BY <1>1, <1>3, <1>5, NoEnquiryIs DEF DirectInv, Bounded, Untouched

\* A transfer that fails makes the synchronisation one that is not whole.
LEMMA TransferFailsKeeps == ASSUME DirectInv, TransferFails PROVE DirectInv'
PROOF
<1>1. /\ sync.at = "act" /\ store' = store /\ trouble > 0 /\ trouble' = trouble - 1
      /\ sync.actions # <<>>
      /\ sync' = [sync EXCEPT !.actions = Tail(@), !.whole = FALSE]
  BY ZenonT(60) DEF TransferFails, Troubled
<1>2. Types /\ sync \in SyncType /\ sync.actions \in Seq(Action)
  BY ZenonT(60) DEF DirectInv, Types, SyncType
<1>3. /\ sync' \in SyncType /\ sync'.request = sync.request /\ ~sync'.whole
      /\ sync'.newest = sync.newest /\ sync'.touched = sync.touched
  <2>1. Tail(sync.actions) \in Seq(Action)
    BY <1>1, <1>2
  <2> QED BY <1>1, <1>2, <2>1, ZenonT(60) DEF SyncType
<1>4. trouble' \in 0..MaxTrouble
  BY <1>1, <1>2, Constants DEF Types
<1>5. Types'
  BY <1>1, <1>2, <1>3, <1>4, ZenonT(60) DEF Types
<1> QED BY <1>1, <1>3, <1>5, ZenonT(60) DEF DirectInv, Bounded, Untouched

\* Once every action is done there is nothing left that the enquiry asks about.
LEMMA ActedKeeps == ASSUME DirectInv, Acted PROVE DirectInv'
PROOF
<1>1. /\ sync.at = "act" /\ store' = store /\ trouble' = trouble /\ sync.actions = <<>>
      /\ sync' = [sync EXCEPT !.at = "continue"]
  BY ZenonT(60) DEF Acted
<1>2. Types /\ sync \in SyncType
  BY ZenonT(60) DEF DirectInv, Types
<1>3. /\ sync' \in SyncType /\ sync'.request = sync.request /\ sync'.whole = sync.whole
      /\ sync'.newest = sync.newest /\ sync'.touched = sync.touched
      /\ sync'.cursor = sync.cursor /\ sync'.at = "continue"
  BY <1>1, <1>2, ZenonT(60) DEF SyncType
<1>4. Types'
  BY <1>1, <1>2, <1>3, ZenonT(60) DEF Types
<1>5. ASSUME NEW b \in Untouched, sync.newest[b] # 0, sync.whole PROVE Progress(b)'
  <2>1. ~Going(b)
    BY <1>1 DEF Going, Holds
  <2>2. Passed(b)' <=> Passed(b)
    BY <1>3, ZenonT(60) DEF Passed, NewestBar
  <2>3. Settled(b)' <=> Settled(b)
    BY <1>1, <1>3, ZenonT(60) DEF Settled
  <2> QED BY <1>1, <1>3, <1>5, <2>1, <2>2, <2>3, ZenonT(60) DEF DirectInv, Progress
<1> QED BY <1>1, <1>3, <1>4, <1>5, ZenonT(60) DEF DirectInv, Bounded, Untouched

\* The reply tells an action for every bundle that the ends disagree on.
LEMMA RepliedKeeps == ASSUME DirectInv, Replied PROVE DirectInv'
PROOF
<1> DEFINE theirs == sync.request.bars
           ours == Ours(sync.request)
           reply == Compared(theirs, ours)
           limit == ActionLimit(sync.request)
           low == UnpickledLow(sync.request.from)
           high == UnpickledHigh(sync.request.to)
<1>1. /\ sync.at = "ask" /\ store' = store /\ trouble' = trouble
      /\ sync' = [sync EXCEPT !.at = "act", !.request = NoEnquiry,
                    !.actions = SubSeq(reply, 1, Min({Len(reply), limit})),
                    !.whole = @ /\ Len(reply) <= limit /\ Len(ours) < MaxReply]
  BY ZenonT(60) DEF Replied, rhizome_direct_get_fill_response
<1>2. /\ Types /\ store \in Stores /\ sync \in SyncType /\ sync.request \in Enquiry
      /\ theirs \in Seq(Bar) /\ sync.whole \in BOOLEAN
  BY ZenonT(60) DEF DirectInv, Types, SyncType, Enquiry
<1>3. /\ ours \in Seq(Bar)
      /\ \A k \in 1..Len(ours) : ours[k] = BarOf("them", ours[k].bid) /\ store["them"][ours[k].bid] # 0
      /\ Len(ours) < MaxReply => \A b : Within("them", b, low, high) =>
           \E k \in 1..Len(ours) : ours[k] = BarOf("them", b)
  <2>1. high.bin \in Nat /\ high.bid \in Nat
    <3>1. sync.request.to \in Pickle
      BY <1>2, ZenonT(60) DEF Enquiry
    <3>2. sync.request.to.bin \in Nat /\ sync.request.to.prefix \in Nat
      BY <3>1, ZenonT(60) DEF Pickle
    <3>3. sync.request.to.prefix * Span \in Nat /\ Span \in Nat /\ Span > 0
      BY <3>2, Constants
    <3>4. sync.request.to.prefix * Span + Span - 1 \in Nat
      BY <3>3
    <3> QED BY <3>2, <3>4, ZenonT(60) DEF UnpickledHigh
  <2>2. PICK f : f = rhizome_direct_bundle_iterator_fill("them", low, high, MaxReply)
    BY ZenonT(60)
  <2>3. ours = f.bars
    BY <2>2, ZenonT(60) DEF Ours
  <2> HIDE DEF low, high, ours
  <2>4. Filled("them", low, high, MaxReply, f)
    <3>1. "them" \in Side /\ MaxReply \in Nat /\ MaxReply > 0
      BY Constants, ZenonT(60) DEF Side
    <3> QED BY <1>2, <2>1, <2>2, <3>1, FillIs, ZenonT(60)
  <2> QED BY <2>3, <2>4, ZenonT(60) DEF Filled
<1> HIDE DEF ours, theirs, low, high
<1>4. /\ reply \in Seq(Action)
      /\ \A k \in 1..Len(theirs) : Holds(reply, Push(theirs[k].bid)) \/ Holds(ours, theirs[k])
      /\ \A k \in 1..Len(ours) : Holds(reply, Pull(ours[k].bid)) \/ Holds(theirs, ours[k])
  BY <1>2, <1>3, ComparedTells, ZenonT(60)
<1> HIDE DEF reply
<1>5. limit \in Nat
  <2>1. Len(sync.request.bars) \in Nat
    BY <1>2 DEF theirs
  <2>2. Slots(sync.request) \in Nat /\ ReplyRoom \in Nat
    BY <2>1, Constants DEF Slots
  <2> QED BY <2>2, MinTwo, ZenonT(60) DEF ActionLimit
<1> HIDE DEF limit
<1>6. Len(reply) \in Nat /\ Min({Len(reply), limit}) = IF Len(reply) <= limit THEN Len(reply) ELSE limit
  BY <1>4, <1>5, MinTwo
<1>7. SubSeq(reply, 1, Min({Len(reply), limit})) \in Seq(Action)
  <2>1. PICK n \in 0..Len(reply) : n = Min({Len(reply), limit})
    BY <1>5, <1>6
  <2>2. SubSeq(reply, 1, n) \in Seq(Action)
    BY <1>4, <1>6
  <2> QED BY <2>1, <2>2
<1>8. /\ sync' \in SyncType /\ sync'.at = "act" /\ sync'.cursor = sync.cursor /\ sync'.request = NoEnquiry
      /\ sync'.newest = sync.newest /\ sync'.touched = sync.touched
      /\ sync'.actions = SubSeq(reply, 1, Min({Len(reply), limit}))
      /\ sync'.whole = (sync.whole /\ Len(reply) <= limit /\ Len(ours) < MaxReply)
  BY <1>1, <1>2, <1>7, NoEnquiryIs, ZenonT(60) DEF SyncType
<1>9. Types'
  BY <1>1, <1>2, <1>8, NoEnquiryIs, Constants DEF Types
<1>10. ASSUME NEW b \in Untouched, sync.newest[b] # 0, sync'.whole PROVE Progress(b)'
  <2>1. sync.whole /\ Len(reply) <= limit /\ Len(ours) < MaxReply
    BY <1>8, <1>10, ZenonT(60)
  <2>2. sync'.actions = reply
    BY <1>4, <1>6, <1>8, <2>1
  <2>3. Passed(b)' <=> Passed(b)
    BY <1>8, ZenonT(60) DEF Passed, NewestBar
  <2>4. Settled(b)' <=> Settled(b)
    BY <1>1, <1>8, ZenonT(60) DEF Settled
  <2>5. Going(b)' <=> \/ Holds(reply, Push(b)) /\ store["us"][b] >= sync.newest[b]
                      \/ Holds(reply, Pull(b)) /\ store["them"][b] >= sync.newest[b]
    BY <1>1, <1>8, <2>2, ZenonT(60) DEF Going
  <2>6. b \in Bid /\ sync.newest[b] \in Numbered /\ sync.newest[b] \in Nat
    BY <1>2, Constants DEF Untouched, SyncType, Numbered
  <2>7. NewestBar(b).bid = b /\ NewestBar(b).version = sync.newest[b]
    BY ZenonT(60) DEF NewestBar
  <2>8. Holds(theirs, NewestBar(b)) => store["us"][b] >= sync.newest[b]
    BY <2>7, ZenonT(60) DEF DirectInv, Holds, theirs
  <2>9. Holds(ours, NewestBar(b)) => store["them"][b] >= sync.newest[b]
    <3> SUFFICES ASSUME NEW k \in 1..Len(ours), ours[k] = NewestBar(b)
                 PROVE  store["them"][b] >= sync.newest[b]
      BY ZenonT(60) DEF Holds
    <3>1. NewestBar(b) = BarOf("them", b)
      BY <1>3, <2>7, ZenonT(60)
    <3>2. store["them"][b] = sync.newest[b]
      BY <2>7, <3>1 DEF BarOf
    <3> QED BY <2>6, <3>2
  <2>10. ASSUME Holds(theirs, NewestBar(b)) PROVE Settled(b) \/ Going(b)'
    <3>1. Holds(reply, Push(b)) \/ Holds(ours, NewestBar(b))
      BY <1>4, <2>7, <2>10 DEF Holds
    <3> QED BY <2>5, <2>8, <2>9, <2>10, <3>1 DEF Settled, Side
  <2>11. ASSUME store["them"][b] = sync.newest[b], AtMost(low, NewestBar(b)), AtMost(NewestBar(b), high)
         PROVE  Settled(b) \/ Going(b)'
    <3>1. BarOf("them", b) = NewestBar(b)
      BY <2>11, ZenonT(60) DEF BarOf, NewestBar
    <3>2. Holds(ours, NewestBar(b))
      BY <1>3, <1>10, <2>1, <2>6, <2>11, <3>1, ZenonT(60) DEF Within, Holds
    <3>3. Holds(reply, Pull(b)) \/ Holds(theirs, NewestBar(b))
      BY <1>4, <2>7, <3>2 DEF Holds
    <3> QED BY <2>5, <2>9, <2>10, <3>2, <3>3
  <2>12. Passed(b) => Settled(b) \/ Asked(b)
    BY <1>1, <1>10, <2>1, ZenonT(60) DEF DirectInv, Progress
  <2>13. Asked(b) => Settled(b) \/ Going(b)'
    BY <2>10, <2>11, ZenonT(60) DEF Asked, theirs, low, high
  <2> QED BY <1>8, <2>3, <2>4, <2>12, <2>13, ZenonT(60) DEF Progress
<1> QED BY <1>1, <1>8, <1>9, <1>10, NoEnquiryIs DEF DirectInv, Bounded, Untouched

\* A transfer leaves the bundle settled, and takes no other back to an older version.
LEMMA TransferKeeps == ASSUME DirectInv, Transfer PROVE DirectInv'
PROOF
<1> DEFINE act == Head(sync.actions)
<1>1. /\ sync.at = "act" /\ sync.actions # <<>> /\ trouble' = trouble
      /\ store' = Carried(act) /\ sync' = [sync EXCEPT !.actions = Tail(@)]
  BY ZenonT(60) DEF Transfer
<1>2. Types /\ store \in Stores /\ sync \in SyncType /\ sync.actions \in Seq(Action)
  BY ZenonT(60) DEF DirectInv, Types, SyncType
<1>3. act \in Action /\ Tail(sync.actions) \in Seq(Action) /\ act = sync.actions[1]
  BY <1>1, <1>2
<1> HIDE DEF act
<1>4. act.bid \in Bid /\ act.do \in {"push", "pull"}
  BY <1>3, ZenonT(60) DEF Action
<1>5. "us" \in Side /\ "them" \in Side
  BY ZenonT(60) DEF Side
<1>6. /\ store["us"][act.bid] \in Numbered /\ store["them"][act.bid] \in Numbered
  BY <1>2, <1>4, <1>5, StoreAt, ZenonT(60)
<1>7. PICK to \in Side, from \in Side : store' = Merged(to, act.bid, store[from][act.bid])
        /\ (act.do = "push" => to = "them" /\ from = "us")
        /\ (act.do = "pull" => to = "us" /\ from = "them")
  BY <1>1, <1>4, <1>5, ZenonT(60) DEF Carried
<1>8. /\ store' \in Stores
      /\ \A e \in Side, c \in Bid : store'[e][c] =
           IF e = to /\ c = act.bid /\ store[from][act.bid] > store[e][c]
           THEN store[from][act.bid] ELSE store[e][c]
      /\ \A e \in Side, c \in Bid : store'[e][c] >= store[e][c]
  <2>1. store[from][act.bid] \in Numbered
    BY <1>2, <1>4, StoreAt, ZenonT(60)
  <2> QED BY <1>2, <1>4, <1>7, <2>1, MergedIs
<1>9. \A e \in Side, c \in Bid : store[e][c] \in Nat /\ store'[e][c] \in Nat
  BY <1>8, <1>2, Constants DEF Stores, Numbered
<1>10. /\ sync' \in SyncType /\ sync'.at = "act" /\ sync'.cursor = sync.cursor
       /\ sync'.request = sync.request /\ sync'.newest = sync.newest
       /\ sync'.whole = sync.whole /\ sync'.touched = sync.touched
       /\ sync'.actions = Tail(sync.actions)
  BY <1>1, <1>2, <1>3, ZenonT(60) DEF SyncType
<1>11. Types'
  BY <1>1, <1>2, <1>8, <1>10, ZenonT(60) DEF Types
<1>12. \A k \in 1..Len(sync.request.bars) :
         store'["us"][sync.request.bars[k].bid] >= sync.request.bars[k].version
  <2> SUFFICES ASSUME NEW k \in 1..Len(sync.request.bars)
               PROVE  store'["us"][sync.request.bars[k].bid] >= sync.request.bars[k].version
    BY ZenonT(60)
  <2>1. sync.request.bars[k] \in Bar
    BY <1>2 DEF SyncType, Enquiry
  <2>2. sync.request.bars[k].bid \in Bid /\ sync.request.bars[k].version \in Nat
    BY <2>1, BarFields, ZenonT(60)
  <2>3. store["us"][sync.request.bars[k].bid] >= sync.request.bars[k].version
    BY ZenonT(60) DEF DirectInv
  <2>4. store'["us"][sync.request.bars[k].bid] >= store["us"][sync.request.bars[k].bid]
    BY <1>5, <1>8, <2>2, ZenonT(60)
  <2> HIDE DEF DirectInv
  <2> QED BY <1>5, <1>9, <2>2, <2>3, <2>4
<1>13. \A b \in Untouched : b \in Bid /\ sync.newest[b] \in Nat
  BY <1>2, Constants DEF Untouched, SyncType, Numbered
<1>14. ASSUME NEW b \in Untouched PROVE Bounded(b)'
  <2>1. Bounded(b)
    BY <1>1, ZenonT(60) DEF DirectInv
  <2>2. ASSUME NEW e \in Side PROVE store'[e][b] <= sync.newest[b]
    BY <1>8, <1>13, <2>1 DEF Bounded
  <2>3. PICK e \in Side : store[e][b] = sync.newest[b]
    BY <2>1, ZenonT(60) DEF Bounded
  <2>4. store'[e][b] = sync.newest[b]
    <3>1. store'[e][b] >= sync.newest[b] /\ store'[e][b] <= sync.newest[b]
      BY <1>8, <1>13, <2>2, <2>3
    <3> QED BY <1>9, <1>13, <3>1
  <2> QED BY <1>10, <2>2, <2>4, ZenonT(60) DEF Bounded
<1>15. ASSUME NEW b \in Untouched, sync.newest[b] # 0, sync.whole PROVE Progress(b)'
  <2>1. Passed(b)' <=> Passed(b)
    BY <1>10, ZenonT(60) DEF Passed, NewestBar
  <2>2. \A e \in Side : store[e][b] >= sync.newest[b] => store'[e][b] >= sync.newest[b]
    BY <1>8, <1>9, <1>13
  <2>3. Settled(b) => Settled(b)'
    BY <1>10, <2>2, ZenonT(60) DEF Settled
  <2>4. ASSUME NEW x, Holds(sync.actions, x), x # act PROVE Holds(Tail(sync.actions), x)
    <3>1. PICK k \in 1..Len(sync.actions) : sync.actions[k] = x
      BY <2>4, ZenonT(60) DEF Holds
    <3>2. k # 1
      BY <1>3, <2>4, <3>1, ZenonT(60)
    <3>3. Len(Tail(sync.actions)) = Len(sync.actions) - 1 /\ Len(sync.actions) \in Nat
      BY <1>1, <1>2
    <3>4. k - 1 \in 1..Len(Tail(sync.actions))
      BY <3>2, <3>3
    <3>5. Tail(sync.actions)[k - 1] = sync.actions[k]
      BY <1>1, <1>2, <3>2, <3>3, <3>4
    <3> QED BY <3>1, <3>4, <3>5, ZenonT(60) DEF Holds
  <2>5. ASSUME Holds(sync.actions, Push(b)), store["us"][b] >= sync.newest[b]
        PROVE  Settled(b)' \/ Going(b)'
    <3>1. CASE act = Push(b)
      <4>1. to = "them" /\ from = "us" /\ act.bid = b
        BY <1>7, <3>1, ZenonT(60) DEF Push
      <4>2. store'["them"][b] >= store["us"][b]
        BY <1>5, <1>8, <1>9, <1>13, <4>1
      <4>3. store'["them"][b] >= sync.newest[b] /\ store'["us"][b] >= sync.newest[b]
        BY <1>5, <1>9, <1>13, <2>2, <2>5, <4>2
      <4> QED BY <1>10, <4>3, ZenonT(60) DEF Settled, Side
    <3>2. CASE act # Push(b)
      BY <1>5, <1>10, <2>2, <2>4, <2>5, <3>2, ZenonT(60) DEF Going
    <3> QED BY <3>1, <3>2, ZenonT(60)
  <2>6. ASSUME Holds(sync.actions, Pull(b)), store["them"][b] >= sync.newest[b]
        PROVE  Settled(b)' \/ Going(b)'
    <3>1. CASE act = Pull(b)
      <4>1. to = "us" /\ from = "them" /\ act.bid = b
        BY <1>7, <3>1, ZenonT(60) DEF Pull
      <4>2. store'["us"][b] >= store["them"][b]
        BY <1>5, <1>8, <1>9, <1>13, <4>1
      <4>3. store'["us"][b] >= sync.newest[b] /\ store'["them"][b] >= sync.newest[b]
        BY <1>5, <1>9, <1>13, <2>2, <2>6, <4>2
      <4> QED BY <1>10, <4>3, ZenonT(60) DEF Settled, Side
    <3>2. CASE act # Pull(b)
      BY <1>5, <1>10, <2>2, <2>4, <2>6, <3>2, ZenonT(60) DEF Going
    <3> QED BY <3>1, <3>2, ZenonT(60)
  <2>7. Passed(b) => Settled(b) \/ Going(b)
    BY <1>1, <1>15 DEF DirectInv, Progress
  <2>8. Going(b) => Settled(b)' \/ Going(b)'
    BY <2>5, <2>6, ZenonT(60) DEF Going
  <2> QED BY <1>10, <2>1, <2>3, <2>7, <2>8 DEF Progress
<1>16. Untouched' = Untouched
  BY <1>10 DEF Untouched
<1> QED BY <1>10, <1>11, <1>12, <1>14, <1>15, <1>16, ZenonT(60) DEF DirectInv

\* A bundle that arrives from elsewhere is one the synchronisation does not answer for.
LEMMA ArrivesKeeps ==
    ASSUME DirectInv, NEW side \in Side, NEW c \in Bid, NEW v \in Numbered, Arrives(side, c, v)
    PROVE  DirectInv'
PROOF
<1>1. /\ trouble > 0 /\ trouble' = trouble - 1 /\ store' = Merged(side, c, v)
      /\ sync' = [sync EXCEPT !.touched = @ \cup {c}]
  BY DEF Arrives, Troubled
<1>2. Types /\ store \in Stores /\ sync \in SyncType
  BY ZenonT(60) DEF DirectInv, Types
<1>3. /\ store' \in Stores
      /\ \A e \in Side, b \in Bid : store'[e][b] =
           IF e = side /\ b = c /\ v > store[e][b] THEN v ELSE store[e][b]
      /\ \A e \in Side, b \in Bid : store'[e][b] >= store[e][b]
  BY <1>1, <1>2, MergedIs
<1>4. /\ sync' \in SyncType /\ sync'.at = sync.at /\ sync'.cursor = sync.cursor
      /\ sync'.request = sync.request /\ sync'.newest = sync.newest
      /\ sync'.whole = sync.whole /\ sync'.touched = sync.touched \cup {c}
      /\ sync'.actions = sync.actions
  BY <1>1, <1>2, ZenonT(60) DEF SyncType
<1>5. trouble' \in 0..MaxTrouble
  BY <1>1, <1>2, Constants DEF Types
<1>6. Types'
  BY <1>2, <1>3, <1>4, <1>5 DEF Types
<1>7. \A k \in 1..Len(sync.request.bars) :
         store'["us"][sync.request.bars[k].bid] >= sync.request.bars[k].version
  <2> SUFFICES ASSUME NEW k \in 1..Len(sync.request.bars)
               PROVE  store'["us"][sync.request.bars[k].bid] >= sync.request.bars[k].version
    BY ZenonT(60)
  <2>1. sync.request.bars[k] \in Bar
    BY <1>2 DEF SyncType, Enquiry
  <2>2. sync.request.bars[k].bid \in Bid /\ sync.request.bars[k].version \in Nat /\ "us" \in Side
    BY <2>1, BarFields, ZenonT(60) DEF Side
  <2>3. store["us"][sync.request.bars[k].bid] >= sync.request.bars[k].version
    BY ZenonT(60) DEF DirectInv
  <2>4. store'["us"][sync.request.bars[k].bid] >= store["us"][sync.request.bars[k].bid]
    BY <1>3, <2>2, ZenonT(60)
  <2>5. store'["us"][sync.request.bars[k].bid] \in Nat /\ store["us"][sync.request.bars[k].bid] \in Nat
    <3>1. store["us"] \in [Bid -> Numbered] /\ store'["us"] \in [Bid -> Numbered]
      BY <1>2, <1>3, <2>2, ZenonT(60) DEF Stores
    <3>2. \A x \in Numbered : x \in Nat
      BY Constants DEF Numbered
    <3> QED BY <2>2, <3>1, <3>2, ZenonT(60)
  <2> HIDE DEF DirectInv
  <2> QED BY <2>2, <2>3, <2>4, <2>5
<1>8. \A b \in Untouched' : b \in Untouched /\ \A e \in Side : store'[e][b] = store[e][b]
  <2>1. \A b \in Untouched' : b \in Bid /\ b # c /\ b \notin sync.touched
    BY <1>4, ZenonT(60) DEF Untouched
  <2> QED BY <1>3, <2>1, ZenonT(60) DEF Untouched
<1>9. ASSUME NEW b \in Untouched' PROVE (Bounded(b) => Bounded(b)') /\ (Progress(b) => Progress(b)')
  <2>1. Bounded(b) => Bounded(b)'
    BY <1>4, <1>8, ZenonT(60) DEF Bounded
  <2>2. Settled(b)' <=> Settled(b)
    BY <1>4, <1>8, ZenonT(60) DEF Settled
  <2>3. NewestBar(b)' = NewestBar(b)
    BY <1>4, ZenonT(60) DEF NewestBar
  <2>4. Passed(b)' <=> Passed(b)
    BY <1>4, <2>3, ZenonT(60) DEF Passed
  <2>5. store'["us"][b] = store["us"][b] /\ store'["them"][b] = store["them"][b]
    BY <1>8 DEF Side
  <2>6. Asked(b)' <=> Asked(b)
    BY <1>4, <2>3, <2>5 DEF Asked
  <2>7. Going(b)' <=> Going(b)
    BY <1>4, <2>5, ZenonT(60) DEF Going
  <2> QED BY <1>4, <2>1, <2>2, <2>4, <2>6, <2>7 DEF Progress
<1> QED BY <1>4, <1>6, <1>7, <1>8, <1>9, ZenonT(60) DEF DirectInv

\* The invariant holds in every state of a synchronisation.
LEMMA Invariance == DirectSpec => []DirectInv
PROOF
<1>1. ASSUME DirectInv, [DirectNext]_directVars PROVE DirectInv'
  <2>1. CASE rhizome_direct_start_sync_request
    BY <1>1, <2>1, StartKeeps, ZenonT(60)
  <2>2. CASE rhizome_direct_continue_sync_request
    BY <1>1, <2>2, ContinueKeeps, ZenonT(60)
  <2>3. CASE rhizome_direct_conclude_sync_request
    BY <1>1, <2>3, ConcludeKeeps, ZenonT(60)
  <2>4. CASE Replied
    BY <1>1, <2>4, RepliedKeeps, ZenonT(60)
  <2>5. CASE NotReplied
    BY <1>1, <2>5, NotRepliedKeeps, ZenonT(60)
  <2>6. CASE Transfer
    BY <1>1, <2>6, TransferKeeps, ZenonT(60)
  <2>7. CASE TransferFails
    BY <1>1, <2>7, TransferFailsKeeps, ZenonT(60)
  <2>8. CASE Acted
    BY <1>1, <2>8, ActedKeeps, ZenonT(60)
  <2>9. CASE \E side \in Side, b \in Bid, v \in Numbered : Arrives(side, b, v)
    BY <1>1, <2>9, ArrivesKeeps
  <2>10. CASE UNCHANGED directVars
    BY <1>1, <2>10, ZenonT(60) DEF directVars, DirectInv, Types, Untouched, Bounded, Progress, Passed,
       Settled, Asked, Going, NewestBar
  <2> QED BY <1>1, <2>1, <2>2, <2>3, <2>4, <2>5, <2>6, <2>7, <2>8, <2>9, <2>10, ZenonT(60) DEF DirectNext
<1> QED BY <1>1, InitInv, PTL DEF DirectSpec

\* Every field of the synchronisation stays in its range, the cursor among them
\* (rhizome_direct_continue_sync_request(), rhizome_direct_bundle_iterator_fill()).
THEOREM TypeCorrect == DirectSpec => []DirectTypeOK
PROOF
<1> QED BY Invariance, InvTypeOK, PTL

\* A synchronisation in which nothing failed, and whose replies fitted, leaves both ends
\* with the newest version that either had of each bundle when it began, however many
\* bundles, sizes and buffers there are (rhizome_direct_get_fill_response()).
THEOREM SyncsAgree == DirectSpec => []SyncAgrees
PROOF
<1> QED BY Invariance, InvAgrees, PTL
=============================================================================

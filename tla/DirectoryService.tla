-------------------------- MODULE DirectoryService --------------------------
(***************************************************************************)
(* The directory service (directory_service.c): a helper program of the    *)
(* daemon that nodes register their telephone numbers with, and that       *)
(* answers the daemon's lookups.  Entries are kept in an unbalanced tree.  *)
(* The daemon drops replies about another number (handle_reply_line() in   *)
(* dna_helper.c).                                                          *)
(*                                                                         *)
(* A number is a position in the order of strcmp(), and so is what is      *)
(* registered for it; an entry's value names its number.  Values that are  *)
(* too long for an item are cut, and what is left comes before the whole.  *)
(***************************************************************************)
EXTENDS Integers, Sequences

CONSTANTS
    Number,       \* dids
    Entrant,      \* who registers: a value is a sid and a name
    TooLong,      \* those whose value does not fit in an item
    Life,         \* the 20 minutes after which an item expires
    MaxClock,     \* bound: the clock stops here
    MaxItems      \* bound: how large the tree grows

ASSUME DirectoryServiceAssumption ==
    /\ Number \subseteq Int /\ Entrant \subseteq Int
    /\ TooLong \subseteq Entrant
    /\ Life \in Nat /\ MaxClock \in Nat /\ MaxItems \in Nat

VARIABLES
    items,  \* the items, in the order they were made; the first is the root
    clock,  \* gettime_ms()
    told    \* history: when an entrant registered a number: [first, last], or never

serviceVars == <<items, clock, told>>

NoItem == 0
Never == [first |-> -1, last |-> -1]

ServiceInit ==
    /\ items = <<>>
    /\ clock = 0
    /\ told = [n \in Number |-> [v \in Entrant |-> Never]]

-----------------------------------------------------------------------------
(* The tree                                                                 *)

Root == IF items = <<>> THEN NoItem ELSE 1

\* What an item holds of a value: strncpy() to item->value.  Whole values are even.
Cut(v) == IF v \in TooLong THEN 2 * v - 1 ELSE 2 * v

\* Mutant: lookups go down the other way than add_item() does.
find_item_swapped(key) ==
    LET down[n \in 0..Len(items)] ==
          IF n = 0 THEN Root
          ELSE LET at == down[n - 1] IN
               IF at = NoItem \/ items[at].key = key THEN at
               ELSE IF items[at].key > key THEN items[at].left ELSE items[at].right
    IN down[Len(items)]

\* find_item(): the first item on the way down that has the key
find_item(key) ==
    LET down[n \in 0..Len(items)] ==
          IF n = 0 THEN Root
          ELSE LET at == down[n - 1] IN
               IF at = NoItem \/ items[at].key = key THEN at
               ELSE IF items[at].key < key THEN items[at].left ELSE items[at].right
    IN down[Len(items)]

\* Where add_item() ends up: at the item that has the key and the value, or at the
\* link that a new item takes.
Spot(key, v) ==
    LET down[n \in 0..Len(items)] ==
          IF n = 0 THEN [item |-> Root, above |-> NoItem, link |-> "left"]
          ELSE LET at == down[n - 1] IN
               IF at.item = NoItem THEN at
               ELSE LET x == items[at.item] IN
                    IF x.key = key /\ x.value = 2 * v THEN at
                    ELSE IF x.key < key \/ (x.key = key /\ x.value < 2 * v)
                         THEN [item |-> x.left, above |-> at.item, link |-> "left"]
                         ELSE [item |-> x.right, above |-> at.item, link |-> "right"]
    IN down[Len(items)]

\* create_item(), with what add_item() fills in
NewItem(key, v) ==
    [key |-> key, value |-> Cut(v), who |-> v, expires |-> clock + Life,
     left |-> NoItem, right |-> NoItem]

\* *last_ptr = item
Added(spot, item) ==
    IF spot.above = NoItem THEN <<item>>
    ELSE Append([items EXCEPT ![spot.above][spot.link] = Len(items) + 1], item)

\* respond(): what is printed of the tree below an item, all keys alike
Below(top) ==
    LET within[n \in 0..Len(items)] ==
          IF n = 0 THEN {top} \ {NoItem}
          ELSE within[n - 1] \cup
               ((UNION {{items[k].left, items[k].right} : k \in within[n - 1]}) \ {NoItem})
    IN within[Len(items)]

respond(top) == {k \in Below(top) : items[k].expires > clock}

\* What the daemon passes on of process_line(): handle_reply_line() compares the
\* number in a reply with the one it asked for.
Lookup(n) == {items[k].who : k \in {k \in respond(find_item(n)) : items[k].key = n}}

-----------------------------------------------------------------------------
(* Actions                                                                  *)

\* add_record(): a registration arrives, and add_item() keeps it.
AddRecord(n, v) ==
    /\ told' = [told EXCEPT ![n][v] = [first |-> IF @ = Never THEN clock ELSE @.first,
                                       last  |-> clock]]
    /\ LET spot == Spot(n, v) IN
       IF spot.item # NoItem THEN UNCHANGED items
       ELSE /\ Len(items) < MaxItems
            /\ items' = Added(spot, NewItem(n, v))
    /\ UNCHANGED clock

ClockTicks ==
    /\ clock < MaxClock
    /\ clock' = clock + 1
    /\ UNCHANGED <<items, told>>

ServiceNext ==
    \/ \E n \in Number, v \in Entrant : AddRecord(n, v)
    \/ ClockTicks

ServiceSpec == ServiceInit /\ [][ServiceNext]_serviceVars

-----------------------------------------------------------------------------
(* Properties                                                               *)

ServiceTypeOK ==
    /\ items \in Seq([key : Number, value : Int, who : Entrant, expires : 0..MaxClock + Life,
                      left : 0..MaxItems, right : 0..MaxItems])
    /\ Len(items) <= MaxItems
    /\ clock \in 0..MaxClock
    /\ told \in [Number -> [Entrant -> [first : -1..MaxClock, last : -1..MaxClock]]]

Recent(time) == time >= 0 /\ time + Life > clock

\* In whatever order numbers are registered, by however many, a lookup finds
\* those who first registered that number in the last 20 minutes, every one of
\* them, and nobody who did not register it in that time: one item can be the
\* root of all that share its number, and respond() goes over all that is below.
LookupIsExact ==
    \A n \in Number :
        /\ {v \in Entrant : Recent(told[n][v].first)} \subseteq Lookup(n)
        /\ Lookup(n) \subseteq {v \in Entrant : Recent(told[n][v].last)}
=============================================================================

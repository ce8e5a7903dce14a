--------------------------- MODULE RhizomeDirect ---------------------------
(***************************************************************************)
(* Rhizome Direct (rhizome_direct.c, rhizome_direct_http.c): a command     *)
(* brings its own store and that of a far end to hold the same bundles.    *)
(* It goes over the bundles in order of size and id and sends a buffer     *)
(* full of BARs (bundle advertisement records) after another, each with    *)
(* the range it covers.  The far end compares them with its own and        *)
(* replies with what it wants and what it has, and the command pushes and  *)
(* pulls accordingly.                                                      *)
(*                                                                         *)
(* A bundle id is a number of which the first bytes are b \div Span, and   *)
(* a payload's size is the number of its size bin, of which each is twice  *)
(* as wide as the one before.                                              *)
(***************************************************************************)
EXTENDS Integers, Sequences, FiniteSets, FiniteSetsExt

CONSTANTS
    MaxBid,       \* bundle ids are 0..MaxBid
    Span,         \* how many ids share the bytes that a range is sent with
    Bins,         \* size bins, up to limit_size_high
    MaxVersion,   \* of a bundle
    SizeBin,      \* size bin of each version of each bundle
    MaxBars,      \* BARs in a buffer of 64 KB
    MaxReply,     \* BARs the far end compares with one buffer
    Spare,        \* actions carried out besides two for each BAR
    ReplyRoom,    \* actions that fit into the buffer for the reply
    MaxTrouble    \* failures, and bundles that arrive in other ways

Bid == 0..MaxBid
Numbered == 0..MaxVersion

ASSUME DirectAssumption ==
    /\ MaxBid \in Nat /\ MaxVersion \in Nat /\ MaxTrouble \in Nat
    /\ {Span, Bins, MaxBars, MaxReply} \subseteq Nat \ {0}
    /\ {Spare, ReplyRoom} \subseteq Nat
    /\ SizeBin \in [Bid -> [1..MaxVersion -> 1..Bins]]

VARIABLES
    store,       \* the version of each bundle that each end has, 0 if none
    sync,        \* the synchronisation, sync.at its next step
    trouble      \* what may yet fail or arrive in other ways

directVars == <<store, sync, trouble>>

Side == {"us", "them"}

\* A position in the order in which bundles are gone over, all bits set for the
\* end of a size bin.
Top == MaxBid + 1
AtMost(p, q) == p.bin < q.bin \/ (p.bin = q.bin /\ p.bid <= q.bid)
Position == [bin : 1..(Bins + 2), bid : 0..(Top + Span)]

Bar == [bid : Bid, bin : 1..Bins, version : 1..MaxVersion]
Action == [do : {"push", "pull"}, bid : Bid]

-----------------------------------------------------------------------------
(* The cursor                                                               *)

\* "ORDER BY" of the query that the cursor is gone over with.
InOrder(bars) ==
    CHOOSE list \in [1..Cardinality(bars) -> bars] :
        \A j, k \in DOMAIN list : j < k => ~AtMost(list[k], list[j])

\* What an end has of a bundle, in a BAR.
BarOf(side, b) ==
    [bid |-> b, bin |-> SizeBin[b][store[side][b]], version |-> store[side][b]]

\* What an end has from one position to another, in order.
rhizome_direct_get_bars(side, from, to) ==
    LET bars == {BarOf(side, b) : b \in {c \in Bid : store[side][c] # 0}}
    IN  InOrder({r \in bars : AtMost(from, r) /\ AtMost(r, to)})

\* The buffer is filled with BARs: those, where the last one is, and where the
\* next fill begins.
rhizome_direct_bundle_iterator_fill(side, from, to, max) ==
    LET all == rhizome_direct_get_bars(side, from, to)
        last == all[max]
        past == [bin |-> to.bin + 1, bid |-> Top]
    IN  IF Len(all) < max
        THEN [bars |-> all, to |-> past, next |-> past]
        ELSE [bars |-> SubSeq(all, 1, max),
              to   |-> [bin |-> last.bin, bid |-> last.bid],
              next |-> [bin |-> last.bin, bid |-> last.bid + 1]]

\* A range is sent with the first bytes of the ids it begins and ends with, and
\* is read so that it has everything that begins with these.
Pickled(p) == [bin |-> p.bin, prefix |-> p.bid \div Span]
UnpickledLow(p) == [bin |-> p.bin, bid |-> p.prefix * Span]
\* Mutant: the end of the range is filled up like its beginning.
UnpickledHighShort(p) == [bin |-> p.bin, bid |-> p.prefix * Span]
UnpickledHigh(p) == [bin |-> p.bin, bid |-> p.prefix * Span + Span - 1]

-----------------------------------------------------------------------------
(* The far end                                                              *)

\* memcmp() of the bytes that have the id, the size and the version.
Before(r, s) ==
    \/ r.bid < s.bid
    \/ r.bid = s.bid /\ r.bin < s.bin
    \/ r.bid = s.bid /\ r.bin = s.bin /\ r.version < s.version

\* The two lists are gone over side by side.  BARs that are equal need nothing.
Compared(theirs, ours) ==
    LET Step(x) ==
            IF x.them > Len(theirs) /\ x.us > Len(ours) THEN x
            ELSE IF x.us > Len(ours) \/ (x.them <= Len(theirs) /\ Before(theirs[x.them], ours[x.us]))
            THEN [x EXCEPT !.them = @ + 1,
                           !.reply = Append(@, [do |-> "push", bid |-> theirs[x.them].bid])]
            ELSE IF x.them > Len(theirs) \/ Before(ours[x.us], theirs[x.them])
            THEN [x EXCEPT !.us = @ + 1,
                           !.reply = Append(@, [do |-> "pull", bid |-> ours[x.us].bid])]
            ELSE [x EXCEPT !.them = @ + 1, !.us = @ + 1]
        loop[n \in 0..Len(theirs) + Len(ours)] ==
            IF n = 0 THEN [them |-> 1, us |-> 1, reply |-> <<>>] ELSE Step(loop[n - 1])
    IN  loop[Len(theirs) + Len(ours)].reply

\* What the far end has in the range of a request, as much as it has room for.
Ours(request) ==
    rhizome_direct_bundle_iterator_fill("them",
        UnpickledLow(request.from), UnpickledHigh(request.to), MaxReply).bars

rhizome_direct_get_fill_response(request) == Compared(request.bars, Ours(request))

-----------------------------------------------------------------------------
(* The command                                                              *)

NoEnquiry == [from |-> Pickled([bin |-> 1, bid |-> 0]),
              to |-> Pickled([bin |-> 1, bid |-> 0]), bars |-> <<>>]

NoSync == [at |-> "idle", cursor |-> [bin |-> 1, bid |-> 0], request |-> NoEnquiry,
           actions |-> <<>>, newest |-> [b \in Bid |-> 0], whole |-> FALSE, touched |-> {}]

DirectInit ==
    /\ store \in [Side -> [Bid -> Numbered]]
    /\ sync = NoSync
    /\ trouble = MaxTrouble

Newest == [b \in Bid |-> Max({store[e][b] : e \in Side})]

rhizome_direct_start_sync_request ==
    /\ sync.at = "idle"
    /\ sync' = [NoSync EXCEPT !.at = "continue", !.newest = Newest, !.whole = TRUE]
    /\ UNCHANGED <<store, trouble>>

\* Out of bins, and out of ids.
AtEnd == sync.cursor.bin >= Bins /\ sync.cursor.bid >= Top

rhizome_direct_continue_sync_request ==
    /\ sync.at = "continue" /\ ~AtEnd
    /\ LET fill == rhizome_direct_bundle_iterator_fill("us", sync.cursor,
                       [bin |-> Bins, bid |-> Top], MaxBars)
       IN  sync' = [sync EXCEPT !.at = "ask", !.cursor = fill.next,
                        !.request = [from |-> Pickled(sync.cursor),
                                     to |-> Pickled(fill.to), bars |-> fill.bars]]
    /\ UNCHANGED <<store, trouble>>

\* sync.whole and sync.touched are kept: the properties speak of them.
rhizome_direct_conclude_sync_request ==
    /\ sync.at = "continue" /\ AtEnd
    /\ sync' = [sync EXCEPT !.at = "idle", !.cursor = NoSync.cursor]
    /\ UNCHANGED <<store, trouble>>

\* Mutant: as if the length of the request were that of its BARs.
SlotsPerBar(request) == 2 * Len(request.bars)

\* The reply is gone through as far as the request was long, not the reply, and no
\* further than it was read.  What lies behind it names no bundle.
Slots(request) == Spare + 2 * Len(request.bars)
ActionLimit(request) == Min({Slots(request), ReplyRoom})

\* The far end replies to the enquiry.
Replied ==
    /\ sync.at = "ask"
    /\ LET reply == rhizome_direct_get_fill_response(sync.request)
       IN  sync' = [sync EXCEPT !.at = "act", !.request = NoEnquiry,
                        !.actions = SubSeq(reply, 1, Min({Len(reply), ActionLimit(sync.request)})),
                        !.whole = @ /\ Len(reply) <= ActionLimit(sync.request)
                                    /\ Len(Ours(sync.request)) < MaxReply]
    /\ UNCHANGED <<store, trouble>>

Troubled == trouble > 0 /\ trouble' = trouble - 1

\* The far end cannot be reached, or no reply comes: the range is passed over.
NotReplied ==
    /\ sync.at = "ask"
    /\ sync' = [sync EXCEPT !.at = "continue", !.request = NoEnquiry, !.whole = FALSE]
    /\ Troubled /\ UNCHANGED store

\* A bundle is imported unless the version that is there is as new.
Merged(side, b, v) == [store EXCEPT ![side][b] = Max({@, v})]

\* The current version is pushed, or pulled.
Carried(act) ==
    IF act.do = "push" THEN Merged("them", act.bid, store["us"][act.bid])
                       ELSE Merged("us", act.bid, store["them"][act.bid])

Transfer ==
    /\ sync.at = "act" /\ sync.actions # <<>>
    /\ store' = Carried(Head(sync.actions))
    /\ sync' = [sync EXCEPT !.actions = Tail(@)]
    /\ UNCHANGED trouble

TransferFails ==
    /\ sync.at = "act" /\ sync.actions # <<>>
    /\ sync' = [sync EXCEPT !.actions = Tail(@), !.whole = FALSE]
    /\ Troubled /\ UNCHANGED store

Acted ==
    /\ sync.at = "act" /\ sync.actions = <<>>
    /\ sync' = [sync EXCEPT !.at = "continue"]
    /\ UNCHANGED <<store, trouble>>

\* Meanwhile either end, which is a daemon's store, gets bundles in other ways.
Arrives(side, b, v) ==
    /\ Troubled
    /\ v > store[side][b]
    /\ store' = Merged(side, b, v)
    /\ sync' = [sync EXCEPT !.touched = @ \cup {b}]

DirectNext ==
    \/ rhizome_direct_start_sync_request
    \/ rhizome_direct_continue_sync_request
    \/ rhizome_direct_conclude_sync_request
    \/ Replied \/ NotReplied
    \/ Transfer \/ TransferFails \/ Acted
    \/ \E side \in Side, b \in Bid, v \in Numbered : Arrives(side, b, v)

DirectSpec == DirectInit /\ [][DirectNext]_directVars

-----------------------------------------------------------------------------
(* Properties                                                               *)

DirectTypeOK ==
    /\ store \in [Side -> [Bid -> Numbered]]
    /\ trouble \in 0..MaxTrouble
    /\ sync.at \in {"idle", "continue", "ask", "act"}
    /\ sync.cursor \in Position
    /\ sync.request.bars \in Seq(Bar) /\ Len(sync.request.bars) <= MaxBars
    /\ sync.actions \in Seq(Action)
    /\ sync.newest \in [Bid -> Numbered]
    /\ sync.whole \in BOOLEAN /\ sync.touched \subseteq Bid

\* A synchronisation in which nothing failed, and whose replies fitted, leaves both
\* ends with the newest version that either had of each bundle when it began, but
\* for bundles that arrived in other ways meanwhile: the ranges of the fills leave
\* no gap, and the comparison of two lists leaves nothing out
\* (rhizome_direct_get_fill_response(): "if fulfilled, would result in both ends
\* having the same set of BARs for the specified cursor range").
SyncAgrees ==
    sync.at = "idle" /\ sync.whole =>
        \A e \in Side, b \in Bid \ sync.touched : store[e][b] >= sync.newest[b]

\* When the command is repeated both ends agree in the end, whatever failed and
\* arrived before, and although the reply to a request may be longer than what is
\* gone through of it ("simply re-attempt the sync until no actions result",
\* rhizome_direct_http_dispatch()).
RepeatedSyncsAgree == <>[](store["us"] = store["them"])
=============================================================================

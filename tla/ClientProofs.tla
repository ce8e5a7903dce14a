---------------------------- MODULE ClientProofs ----------------------------
(***************************************************************************)
(* What is proved of the two tables in which the server has its clients,   *)
(* for any clients, ports and sizes of the tables.                         *)
(*                                                                         *)
(* Bindings of MDP ports: a port of an identity is bound to one client at  *)
(* most, and while a slot is free only a goodbye or a forced binding takes *)
(* it away.  Monitor clients: whatever connects, closes or is told of      *)
(* events, the clients in use are the first of the table, and what is      *)
(* known of a client stays with it when it is moved.  The loops over the   *)
(* table are proved by induction.                                          *)
(***************************************************************************)
EXTENDS MdpBindings, Monitor, FiniteSetTheorems, FunctionTheorems, LoopTheorems

\* What a leaf that names no prover tries, one after the other.
USE SMTT(60), Z3T(60), ZenonT(20), SMTT(90), Z3T(90)

-----------------------------------------------------------------------------
(* Bindings of MDP ports                                                    *)

Binding == [port : Port \cup {0}, subscriber : Address, socket_name : Seq(Nat)]

\* A table in which no port of an identity is bound twice.
Unique(t) ==
    \A i, j \in Slot :
        t[i].port = t[j].port /\ t[i].subscriber = t[j].subscriber /\ t[i].port # 0 => i = j

\* Names of the same length with the same bytes are the same.
LEMMA SameSequence ==
    ASSUME NEW s \in Seq(Nat), NEW t \in Seq(Nat), Len(s) = Len(t), \A k \in 1..Len(t) : s[k] = t[k]
    PROVE  s = t
PROOF
<1>1. s \in [1..Len(s) -> Nat] /\ t \in [1..Len(t) -> Nat]
  OBVIOUS
<1>2. s = [k \in 1..Len(t) |-> s[k]] /\ t = [k \in 1..Len(t) |-> t[k]]
  BY <1>1, ZenonT(60)
<1>3. [k \in 1..Len(t) |-> s[k]] = [k \in 1..Len(t) |-> t[k]]
  BY ZenonT(60)
<1> QED BY <1>2, <1>3, ZenonT(60)

\* Freeing slots keeps a table's type and its bindings unique.
LEMMA FreeingKeeps ==
    ASSUME NEW t \in [Slot -> Binding], NEW u \in [Slot -> Binding], Unique(t),
           \A i \in Slot : u[i] = t[i] \/ u[i] = [t[i] EXCEPT !.port = 0]
    PROVE  Unique(u)
PROOF
<1>1. \A i \in Slot : u[i].port # 0 => u[i] = t[i]
  BY ZenonT(60) DEF Binding
<1> QED BY <1>1 DEF Unique

\* A table with the slots P freed is a table.
FreedIn(t, P) == [i \in Slot |-> IF i \in P THEN [t[i] EXCEPT !.port = 0] ELSE t[i]]

LEMMA FreedType ==
    ASSUME NEW t \in [Slot -> Binding], NEW P
    PROVE  /\ FreedIn(t, P) \in [Slot -> Binding]
           /\ \A i \in Slot : FreedIn(t, P)[i] = t[i] \/ FreedIn(t, P)[i] = [t[i] EXCEPT !.port = 0]
BY ZenonT(60) DEF Binding, FreedIn

\* The slots that can be chosen are slots; only the duplicate itself is
\* overwritten when there is one.
LEMMA ChosenSlot ==
    ASSUME NEW s, NEW port, NEW i \in SlotToUse(s, port)
    PROVE  /\ i \in Slot
           /\ Duplicate(s, port) # {} => i \in Duplicate(s, port)
PROOF
<1>1. CASE Duplicate(s, port) # {}
  <2>1. SlotToUse(s, port) = First(Duplicate(s, port))
    BY <1>1, ZenonT(60) DEF SlotToUse
  <2> QED BY <2>1, ZenonT(60) DEF First, Duplicate
<1>2. CASE Duplicate(s, port) = {} /\ Free # {}
  <2>1. SlotToUse(s, port) = First(Free)
    BY <1>2, ZenonT(60) DEF SlotToUse
  <2> QED BY <1>2, <2>1, ZenonT(60) DEF First, Free
<1>3. CASE Duplicate(s, port) = {} /\ Free = {}
  <2>1. SlotToUse(s, port) = Slot
    BY <1>3, ZenonT(60) DEF SlotToUse
  <2> QED BY <1>3, <2>1, ZenonT(60)
<1> QED BY <1>1, <1>2, <1>3, ZenonT(60)

\* A frame is given to a slot or to none.
LEMMA Delivered ==
    ASSUME NEW d, NEW port
    PROVE  DeliveredTo(d, port) \in Slot \cup {0}
BY ZenonT(60) DEF DeliveredTo, Match, First

\* The inductive invariant.
BindingsInv == BindingsTypeOK /\ UniqueBinding

\* Delivering a frame only frees slots.
LEMMA DeliverKeeps ==
    ASSUME BindingsInv, NEW d, NEW port, Deliver(d, port)
    PROVE  mdp_bindings' \in [Slot -> Binding] /\ UniqueBinding'
PROOF
<1> DEFINE gone == {i \in Match(d, port) : \A c \in MdpClient :
                     Path[c] = mdp_bindings[i].socket_name => socket[c] = "unlinked"}
           P == {j \in Slot : \E i \in gone :
                     SameName(mdp_bindings[j].socket_name, mdp_bindings[i].socket_name,
                              Len(mdp_bindings[i].socket_name))}
<1>1. mdp_bindings \in [Slot -> Binding] /\ Unique(mdp_bindings)
  BY ZenonT(60) DEF BindingsInv, BindingsTypeOK, UniqueBinding, Unique, Binding
<1>2. mdp_bindings' = FreedIn(mdp_bindings, P)
  BY ZenonT(60) DEF Deliver, FreedIn
<1> HIDE DEF P
<1>3. /\ mdp_bindings' \in [Slot -> Binding]
      /\ \A i \in Slot : \/ mdp_bindings'[i] = mdp_bindings[i]
                         \/ mdp_bindings'[i] = [mdp_bindings[i] EXCEPT !.port = 0]
  BY <1>1, <1>2, FreedType
<1>4. Unique(mdp_bindings')
  BY <1>1, <1>3, FreeingKeeps, ZenonT(60)
<1> QED BY <1>3, <1>4, ZenonT(60) DEF Unique, UniqueBinding

\* So does a goodbye.
LEMMA ReleaseKeeps ==
    ASSUME BindingsInv, NEW path, NEW len, mdp_bindings' = Released(path, len)
    PROVE  mdp_bindings' \in [Slot -> Binding] /\ UniqueBinding'
PROOF
<1> DEFINE P == {i \in Slot : SameName(mdp_bindings[i].socket_name, path, len)}
<1>1. mdp_bindings \in [Slot -> Binding] /\ Unique(mdp_bindings)
  BY ZenonT(60) DEF BindingsInv, BindingsTypeOK, UniqueBinding, Unique, Binding
<1>2. mdp_bindings' = FreedIn(mdp_bindings, P)
  BY ZenonT(60) DEF Released, FreedIn
<1> HIDE DEF P
<1>3. /\ mdp_bindings' \in [Slot -> Binding]
      /\ \A i \in Slot : \/ mdp_bindings'[i] = mdp_bindings[i]
                         \/ mdp_bindings'[i] = [mdp_bindings[i] EXCEPT !.port = 0]
  BY <1>1, <1>2, FreedType
<1>4. Unique(mdp_bindings')
  BY <1>1, <1>3, FreeingKeeps, ZenonT(60)
<1> QED BY <1>3, <1>4, ZenonT(60) DEF Unique, UniqueBinding

\* A bind request keeps the bindings unique.
LEMMA BindKeeps ==
    ASSUME BindingsInv, NEW c \in MdpClient, NEW s \in Address, NEW port \in Port,
           NEW force \in BOOLEAN, Bind(c, s, port, force)
    PROVE  BindingsInv'
PROOF
<1>1. socket' \in [MdpClient -> SocketState] /\ event' \in Event
  BY ZenonT(60) DEF BindingsInv, BindingsTypeOK, Bind, Handled, Event, Address
<1>2. CASE mdp_bindings' = mdp_bindings
  BY <1>1, <1>2, ZenonT(60) DEF BindingsInv, BindingsTypeOK, UniqueBinding
<1>3. CASE mdp_bindings' # mdp_bindings
  <2>1. PICK i \in SlotToUse(s, port) :
           mdp_bindings' = [mdp_bindings EXCEPT ![i] =
               [port |-> port, subscriber |-> s, socket_name |-> Path[c]]]
    BY <1>3, ZenonT(60) DEF Bind
  <2>2. i \in Slot /\ (Duplicate(s, port) # {} => i \in Duplicate(s, port))
    BY ChosenSlot, ZenonT(60)
  <2>3. mdp_bindings' \in [Slot -> Binding]
    BY <2>1, <2>2, MdpAssumption, ZenonT(60) DEF BindingsInv, BindingsTypeOK, Binding
  <2>4. \A j \in Slot : mdp_bindings[j].port = port /\ mdp_bindings[j].subscriber = s => j = i
    BY <2>2, MdpAssumption, ZenonT(60) DEF BindingsInv, UniqueBinding, Duplicate
  <2>5. /\ mdp_bindings'[i].port = port /\ mdp_bindings'[i].subscriber = s
        /\ \A j \in Slot : j # i => mdp_bindings'[j] = mdp_bindings[j]
    BY <2>1, <2>2, ZenonT(60) DEF BindingsInv, BindingsTypeOK
  <2>6. UniqueBinding'
    BY <2>4, <2>5 DEF BindingsInv, UniqueBinding
  <2> QED BY <1>1, <2>3, <2>6, ZenonT(60) DEF BindingsInv, BindingsTypeOK, Binding
<1> QED BY <1>2, <1>3, ZenonT(60)

\* The table is well typed and no port of an identity is ever bound twice.
THEOREM BindingsInvariance == BindingsSpec => []BindingsInv
PROOF
<1>1. BindingsInit => BindingsInv
  BY DEF BindingsInit, BindingsInv, BindingsTypeOK, UniqueBinding, FreeSlot, NoEvent, Handled, Event, SocketState, Address
<1>2. BindingsInv /\ [BindingsNext]_bindingsVars => BindingsInv'
  <2> SUFFICES ASSUME BindingsInv, [BindingsNext]_bindingsVars PROVE BindingsInv'
    BY ZenonT(60)
  <2> USE DEF Event, NoEvent, Handled, SocketState, Address
  <2>1. ASSUME NEW c \in MdpClient, ClientInit(c) PROVE BindingsInv'
    BY <2>1, ZenonT(60) DEF BindingsInv, BindingsTypeOK, UniqueBinding, ClientInit
  <2>2. ASSUME NEW c \in MdpClient, Goodbye(c) PROVE BindingsInv'
    <3>1. mdp_bindings' \in [Slot -> Binding] /\ UniqueBinding'
      BY <2>2, ReleaseKeeps, ZenonT(60) DEF Goodbye
    <3> QED BY <2>2, <3>1, ZenonT(60) DEF BindingsInv, BindingsTypeOK, Goodbye, Binding
  <2>3. ASSUME NEW c \in MdpClient, Killed(c) PROVE BindingsInv'
    BY <2>3, ZenonT(60) DEF BindingsInv, BindingsTypeOK, UniqueBinding, Killed
  <2>4. ASSUME NEW c \in MdpClient, NEW s \in Address, NEW port \in Port,
               NEW force \in BOOLEAN, Bind(c, s, port, force)
        PROVE  BindingsInv'
    BY <2>4, BindKeeps, ZenonT(60)
  <2>5. ASSUME NEW c \in MdpClient, NEW s \in Subscriber, NEW port \in Port, TxAway(c, s, port)
        PROVE  BindingsInv'
    BY <2>5, ZenonT(60) DEF BindingsInv, BindingsTypeOK, UniqueBinding, TxAway
  <2>6. ASSUME NEW c \in MdpClient, NEW s \in Subscriber, NEW port \in Port,
               NEW d \in Address, NEW dport \in Port, TxLocal(c, s, port, d, dport)
        PROVE  BindingsInv'
    <3>1. mdp_bindings' \in [Slot -> Binding] /\ UniqueBinding'
      BY <2>6, DeliverKeeps, ZenonT(60) DEF TxLocal
    <3>2. event' \in Event
      BY <2>6, Delivered, ZenonT(60) DEF TxLocal
    <3> QED BY <2>6, <3>1, <3>2, ZenonT(60) DEF BindingsInv, BindingsTypeOK, TxLocal, Binding
  <2>7. ASSUME NEW d \in Address, NEW port \in Port, Receive(d, port) PROVE BindingsInv'
    <3>1. mdp_bindings' \in [Slot -> Binding] /\ UniqueBinding'
      BY <2>7, DeliverKeeps, ZenonT(60) DEF Receive
    <3>2. event' \in Event
      BY <2>7, Delivered, ZenonT(60) DEF Receive
    <3> QED BY <2>7, <3>1, <3>2, ZenonT(60) DEF BindingsInv, BindingsTypeOK, Receive, Binding
  <2>8. CASE UNCHANGED bindingsVars
    BY <2>8, ZenonT(60) DEF bindingsVars, BindingsInv, BindingsTypeOK, UniqueBinding
  <2> QED BY <2>1, <2>2, <2>3, <2>4, <2>5, <2>6, <2>7, <2>8, ZenonT(60) DEF BindingsNext
<1> QED BY <1>1, <1>2, PTL DEF BindingsSpec

\* Whatever is freed, stolen or evicted, overlay_mdp_process_bind_request()
\* binds no port of an identity twice, in a table of any size.
THEOREM BindingsUnique == BindingsSpec => []UniqueBinding
BY BindingsInvariance, PTL DEF BindingsInv

\* The types that TLC checks.
THEOREM BindingsTypeCorrect == BindingsSpec => []BindingsTypeOK
BY BindingsInvariance, PTL DEF BindingsInv
-----------------------------------------------------------------------------
(* What takes a binding from a client                                       *)

\* What KeepsBinding says of a client and a slot.
BindingKept(c, i) ==
    socket[c] = "open" /\ Owns(c, i) /\ Free # {} =>
       \/ Owns(c, i)' /\ mdp_bindings'[i] = mdp_bindings[i]
       \/ event'.op = "goodbye" /\ event'.client = c
       \/ /\ event'.op = "bind" /\ event'.force
          /\ event'.port = mdp_bindings[i].port
          /\ event'.subscriber = mdp_bindings[i].subscriber

\* A slot that is not touched is kept.
LEMMA UntouchedKept ==
    ASSUME NEW c \in MdpClient, NEW i \in Slot, mdp_bindings'[i] = mdp_bindings[i]
    PROVE  BindingKept(c, i)
BY ZenonT(60) DEF BindingKept, Owns

\* A bind request overwrites the binding it is for, by force, or a free slot.
LEMMA BindTakes ==
    ASSUME BindingsInv, NEW d \in MdpClient, NEW s \in Address, NEW port \in Port,
           NEW force \in BOOLEAN, Bind(d, s, port, force),
           NEW c \in MdpClient, NEW i \in Slot
    PROVE  BindingKept(c, i)
PROOF
<1>1. CASE mdp_bindings'[i] = mdp_bindings[i]
  BY <1>1, UntouchedKept, ZenonT(60)
<1>2. CASE mdp_bindings'[i] # mdp_bindings[i]
  <2> DEFINE held == First(Duplicate(s, port))
             identical == \E j \in held :
                 SameName(mdp_bindings[j].socket_name, Path[d], RecvAddrLen(d))
             refused == held # {} /\ ~identical /\ ~force
  <2>1. /\ ~identical /\ ~refused
        /\ \E j \in SlotToUse(s, port) : mdp_bindings' = [mdp_bindings EXCEPT ![j] =
               [port |-> port, subscriber |-> s, socket_name |-> Path[d]]]
    BY <1>2, ZenonT(60) DEF Bind
  <2>2. i \in SlotToUse(s, port)
    BY <1>2, <2>1, ZenonT(60) DEF BindingsInv, BindingsTypeOK
  <2>3. event'.op = "bind" /\ event'.port = port /\ event'.subscriber = s /\ event'.force = force
    BY ZenonT(60) DEF Bind, Handled
  <2>4. CASE Duplicate(s, port) # {}
    <3>1. i \in held /\ i \in Duplicate(s, port)
      BY <2>2, <2>4, ChosenSlot, ZenonT(60) DEF SlotToUse
    <3>2. force
      BY <2>1, <3>1, ZenonT(60)
    <3>3. mdp_bindings[i].port = port /\ mdp_bindings[i].subscriber = s
      BY <3>1, ZenonT(60) DEF Duplicate
    <3> QED BY <2>3, <3>2, <3>3, ZenonT(60) DEF BindingKept
  <2>5. CASE Duplicate(s, port) = {} /\ Free # {}
    <3>1. i \in Free
      BY <2>2, <2>5, ZenonT(60) DEF SlotToUse, First
    <3> QED BY <3>1, ZenonT(60) DEF BindingKept, Owns, Free
  <2>6. CASE Free = {}
    BY <2>6, ZenonT(60) DEF BindingKept
  <2> QED BY <2>4, <2>5, <2>6, ZenonT(60)
<1> QED BY <1>1, <1>2, ZenonT(60)

\* A goodbye releases no binding of another client: the name it is compared with
\* has two bytes more than the client's own, zeros, and paths have one at their end.
LEMMA GoodbyeTakes ==
    ASSUME BindingsInv, NEW d \in MdpClient, Goodbye(d), NEW c \in MdpClient, NEW i \in Slot
    PROVE  BindingKept(c, i)
PROOF
<1>1. CASE ~Owns(c, i)
  BY <1>1, ZenonT(60) DEF BindingKept
<1>2. CASE Owns(c, i)
  <2>1. mdp_bindings[i].socket_name = Path[c] /\ Path[c] \in Seq(Nat) /\ Path[d] \in Seq(Nat)
    BY <1>2, MdpAssumption, ZenonT(60) DEF Owns
  <2>2. ~SameName(Path[c], Path[d], RecvAddrLen(d))
    <3> SUFFICES ASSUME SameName(Path[c], Path[d], RecvAddrLen(d)) PROVE FALSE
      BY ZenonT(60)
    <3> DEFINE n == Len(Path[d])
    <3>1. Len(Path[c]) = n + 2 /\ n \in Nat
      BY <2>1 DEF SameName, RecvAddrLen
    <3>2. Path[c][n + 1] = 0
      BY <3>1 DEF SameName, RecvAddrLen
    <3>3. \A k \in 1..Len(Path[c]) : Path[c][k] = 0 => k = Len(Path[c])
      BY MdpAssumption, ZenonT(60)
    <3>4. n + 1 = Len(Path[c])
      BY <3>1, <3>2, <3>3
    <3> QED BY <3>1, <3>4
  <2>3. mdp_bindings'[i] = mdp_bindings[i]
    BY <2>1, <2>2, ZenonT(60) DEF Goodbye, Released
  <2> QED BY <2>3, UntouchedKept, ZenonT(60)
<1> QED BY <1>1, <1>2, ZenonT(60)

\* A frame that cannot be delivered drops the bindings of a name whose socket has
\* been unlinked, and of no other.
LEMMA DeliverTakes ==
    ASSUME BindingsInv, NEW d, NEW port, Deliver(d, port), NEW c \in MdpClient, NEW i \in Slot
    PROVE  BindingKept(c, i)
PROOF
<1> SUFFICES ASSUME socket[c] = "open", Owns(c, i) PROVE mdp_bindings'[i] = mdp_bindings[i]
  BY UntouchedKept, ZenonT(60) DEF BindingKept
<1> DEFINE gone == {j \in Match(d, port) : \A e \in MdpClient :
                     Path[e] = mdp_bindings[j].socket_name => socket[e] = "unlinked"}
<1>1. ASSUME NEW j \in gone,
             SameName(mdp_bindings[i].socket_name, mdp_bindings[j].socket_name,
                      Len(mdp_bindings[j].socket_name))
      PROVE  FALSE
  <2>1. j \in Slot
    BY ZenonT(60) DEF Match, First
  <2>2. mdp_bindings[i].socket_name \in Seq(Nat) /\ mdp_bindings[j].socket_name \in Seq(Nat)
    BY <2>1, ZenonT(60) DEF BindingsInv, BindingsTypeOK
  <2>3. /\ Len(mdp_bindings[i].socket_name) = Len(mdp_bindings[j].socket_name)
        /\ \A k \in 1..Len(mdp_bindings[j].socket_name) :
              mdp_bindings[i].socket_name[k] = mdp_bindings[j].socket_name[k]
    BY <1>1 DEF SameName
  <2>4. mdp_bindings[i].socket_name = mdp_bindings[j].socket_name
    BY <2>2, <2>3, SameSequence, ZenonT(60)
  <2>5. Path[c] = mdp_bindings[j].socket_name
    BY <2>4, ZenonT(60) DEF Owns
  <2> QED BY <2>5, ZenonT(60)
<1>2. mdp_bindings'[i] = IF \E j \in gone : SameName(mdp_bindings[i].socket_name,
                                                    mdp_bindings[j].socket_name,
                                                    Len(mdp_bindings[j].socket_name))
                         THEN [mdp_bindings[i] EXCEPT !.port = 0] ELSE mdp_bindings[i]
  BY ZenonT(60) DEF Deliver
<1> HIDE DEF gone
<1> QED BY <1>1, <1>2, ZenonT(60)

\* While there is a free slot, a client whose socket is open loses a binding by its
\* own goodbye or to an MDP_FORCE of that very port, and by nothing else
\* (overlay_mdp_process_bind_request(), overlay_mdp_releasebindings()).
THEOREM BindingsKept == BindingsSpec => KeepsBinding
PROOF
<1>1. ASSUME BindingsInv, BindingsNext, NEW c \in MdpClient, NEW i \in Slot PROVE BindingKept(c, i)
  <2>1. ASSUME NEW d \in MdpClient, ClientInit(d) \/ Killed(d) PROVE BindingKept(c, i)
    BY <2>1, UntouchedKept, ZenonT(60) DEF ClientInit, Killed
  <2>2. ASSUME NEW d \in MdpClient, Goodbye(d) PROVE BindingKept(c, i)
    BY <1>1, <2>2, GoodbyeTakes, ZenonT(60)
  <2>3. ASSUME NEW d \in MdpClient, NEW s \in Address, NEW port \in Port,
               NEW force \in BOOLEAN, Bind(d, s, port, force)
        PROVE  BindingKept(c, i)
    BY <1>1, <2>3, BindTakes, ZenonT(60)
  <2>4. ASSUME NEW d \in MdpClient, NEW s \in Subscriber, NEW port \in Port, TxAway(d, s, port)
        PROVE  BindingKept(c, i)
    BY <2>4, UntouchedKept, ZenonT(60) DEF TxAway
  <2>5. ASSUME NEW d \in MdpClient, NEW s \in Subscriber, NEW port \in Port,
               NEW to \in Address, NEW dport \in Port, TxLocal(d, s, port, to, dport)
        PROVE  BindingKept(c, i)
    BY <1>1, <2>5, DeliverTakes, ZenonT(60) DEF TxLocal
  <2>6. ASSUME NEW to \in Address, NEW port \in Port, Receive(to, port) PROVE BindingKept(c, i)
    BY <1>1, <2>6, DeliverTakes, ZenonT(60) DEF Receive
  <2> QED BY <1>1, <2>1, <2>2, <2>3, <2>4, <2>5, <2>6, ZenonT(60) DEF BindingsNext
<1>2. BindingsInv /\ [BindingsNext]_bindingsVars => [\A c \in MdpClient, i \in Slot : BindingKept(c, i)]_bindingsVars
  BY <1>1, ZenonT(60)
<1>3. BindingsSpec => [][\A c \in MdpClient, i \in Slot : BindingKept(c, i)]_bindingsVars
  BY <1>2, BindingsInvariance, PTL DEF BindingsSpec
<1> QED BY <1>3, ZenonT(60) DEF KeepsBinding, BindingKept

-----------------------------------------------------------------------------
(* Monitor clients                                                          *)
-----------------------------------------------------------------------------
(* Tables                                                                   *)

Table == [count : Int, sockets : [SocketSlot -> Context], told : [Client -> Nat]]

\* The slots in use.
Used(t) == 0..t.count - 1

Fds(t) == {t.sockets[i].fd : i \in Used(t)}

\* The first slots of the table have one client each, and they are the ones that
\* are watched.
Good(t) ==
    /\ t \in Table /\ t.count \in 0..MaxSockets
    /\ \A i \in Used(t) : t.sockets[i].fd \in Client
    /\ \A i, j \in Used(t) : t.sockets[i].fd = t.sockets[j].fd => i = j
    /\ \A i \in SocketSlot : t.sockets[i].watched <=> i < t.count

\* The slots in use are slots of the table.
LEMMA UsedSlots == ASSUME NEW t, Good(t) PROVE Used(t) \subseteq SocketSlot
BY MonitorAssumption DEF Good, Used, SocketSlot

\* A context that is watched does not change when it is watched again.
LEMMA WatchedAgain ==
    ASSUME NEW x \in Context, x.watched
    PROVE  [x EXCEPT !.watched = TRUE] = x
BY ZenonT(60) DEF Context

\* monitor_close() of a slot in use: the last client takes its place.
LEMMA CloseMoves ==
    ASSUME NEW t, Good(t), NEW i \in Used(t)
    PROVE  LET u == MonitorClose(t, i) last == t.count - 1 IN
           /\ u \in Table /\ u.count = last /\ u.told = t.told
           /\ \A j \in 0..last - 1 : u.sockets[j] = IF j = i THEN t.sockets[last] ELSE t.sockets[j]
           /\ \A j \in SocketSlot : u.sockets[j].watched <=> j < last
PROOF
<1> DEFINE u == MonitorClose(t, i)
           last == t.count - 1
           closed == [t.sockets EXCEPT ![i].fd = NoClient, ![i].watched = FALSE]
           moved == [closed EXCEPT ![i] = [closed[last] EXCEPT !.watched = TRUE],
                                   ![last].watched = FALSE]
<1>1. /\ last \in SocketSlot /\ i \in SocketSlot /\ i \in 0..last /\ last \in Int /\ ~(last < 0)
      /\ t.sockets \in [SocketSlot -> Context] /\ last \in Used(t)
      /\ t.count \in Nat /\ MaxSockets \in Nat /\ \A j \in 0..last - 1 : j \in SocketSlot
  BY UsedSlots, MonitorAssumption DEF Good, Used, Table, SocketSlot
<1>2. /\ closed \in [SocketSlot -> Context] /\ closed[i].watched = FALSE
      /\ \A j \in SocketSlot : j # i => closed[j] = t.sockets[j]
  <2>1. \A x \in Context : [x EXCEPT !.fd = NoClient, !.watched = FALSE] \in Context
    BY ZenonT(60) DEF Context
  <2>2. \A x \in Context : [x EXCEPT !.fd = NoClient, !.watched = FALSE].watched = FALSE
    BY ZenonT(60) DEF Context
  <2>3. closed = [t.sockets EXCEPT ![i] = [t.sockets[i] EXCEPT !.fd = NoClient, !.watched = FALSE]]
    BY <1>1, ZenonT(60) DEF Context
  <2> QED BY <1>1, <2>1, <2>2, <2>3, ZenonT(60)
<1> HIDE DEF closed
<1>3. u = [t EXCEPT !.count = last, !.sockets = IF last = i THEN closed ELSE moved]
  BY <1>1, ZenonT(60) DEF MonitorClose, closed
<1>4. CASE last = i
  <2>1. u = [t EXCEPT !.count = last, !.sockets = closed]
    BY <1>3, <1>4, ZenonT(60)
  <2>2. u \in Table /\ u.count = last /\ u.told = t.told /\ u.sockets = closed
    BY <1>1, <1>2, <2>1, ZenonT(60) DEF Good, Table
  <2>3. \A j \in 0..last - 1 : j # i /\ j \in SocketSlot /\ u.sockets[j] = t.sockets[j]
    BY <1>1, <1>2, <1>4, <2>2 DEF SocketSlot
  <2>4. \A j \in SocketSlot : u.sockets[j].watched <=> j < last
    BY <1>1, <1>2, <1>4, <2>2 DEF SocketSlot, Good
  <2> QED BY <2>2, <2>3, <2>4, ZenonT(60)
<1>5. CASE last # i
  <2>1. closed[last] = t.sockets[last] /\ t.sockets[last] \in Context /\ t.sockets[last].watched
    BY <1>1, <1>2, <1>5 DEF Good
  <2>2. [closed[last] EXCEPT !.watched = TRUE] = t.sockets[last]
    BY <2>1, WatchedAgain, ZenonT(60)
  <2>3. moved = [closed EXCEPT ![i] = t.sockets[last],
                               ![last] = [t.sockets[last] EXCEPT !.watched = FALSE]]
    BY <1>1, <1>2, <1>5, <2>1, <2>2, ZenonT(60)
  <2>4. [t.sockets[last] EXCEPT !.watched = FALSE] \in Context
        /\ [t.sockets[last] EXCEPT !.watched = FALSE].watched = FALSE
    BY <2>1, ZenonT(60) DEF Context
  <2>5. /\ moved \in [SocketSlot -> Context] /\ moved[i] = t.sockets[last]
        /\ moved[last].watched = FALSE
        /\ \A j \in SocketSlot : j # i /\ j # last => moved[j] = t.sockets[j]
    BY <1>1, <1>2, <1>5, <2>1, <2>3, <2>4, ZenonT(60)
  <2> HIDE DEF moved
  <2>6. u \in Table /\ u.count = last /\ u.told = t.told /\ u.sockets = moved
    BY <1>1, <1>3, <1>5, <2>5, ZenonT(60) DEF Good, Table
  <2>7. \A j \in 0..last - 1 : u.sockets[j] = IF j = i THEN t.sockets[last] ELSE t.sockets[j]
    BY <1>1, <2>5, <2>6 DEF SocketSlot
  <2>8. ASSUME NEW j \in SocketSlot PROVE u.sockets[j].watched <=> j < last
    <3>1. j # i /\ j # last => (j < last <=> j < t.count)
      BY <1>1 DEF SocketSlot
    <3>2. CASE j = i
      BY <1>1, <1>5, <2>1, <2>5, <2>6, <3>2
    <3>3. CASE j = last
      BY <1>1, <2>5, <2>6, <3>3
    <3>4. CASE j # i /\ j # last
      BY <2>5, <2>6, <3>1, <3>4, ZenonT(60) DEF Good
    <3> QED BY <3>2, <3>3, <3>4, ZenonT(60)
  <2> QED BY <2>6, <2>7, <2>8, ZenonT(60)
<1> QED BY <1>4, <1>5, ZenonT(60)

\* So the table is as good as before, without the one client.
LEMMA CloseGood ==
    ASSUME NEW t, Good(t), NEW i \in Used(t)
    PROVE  LET u == MonitorClose(t, i) last == t.count - 1 IN
           /\ Good(u) /\ u.count = last /\ u.told = t.told
           /\ \A j \in Used(u) : u.sockets[j] = IF j = i THEN t.sockets[last] ELSE t.sockets[j]
           /\ Fds(u) = Fds(t) \ {t.sockets[i].fd}
PROOF
<1> DEFINE u == MonitorClose(t, i)
           last == t.count - 1
<1>1. /\ u \in Table /\ u.count = last /\ u.told = t.told
      /\ \A j \in 0..last - 1 : u.sockets[j] = IF j = i THEN t.sockets[last] ELSE t.sockets[j]
      /\ \A j \in SocketSlot : u.sockets[j].watched <=> j < last
  BY CloseMoves, ZenonT(60)
<1> HIDE DEF u
<1>2. t.count \in Nat /\ MaxSockets \in Nat /\ t.count <= MaxSockets
  BY MonitorAssumption DEF Good
<1>3. /\ \A j \in Used(u) : j \in Used(t) /\ j # last
      /\ \A j \in Used(t) : j # last => j \in Used(u)
      /\ last \in Used(t) /\ u.count \in 0..MaxSockets /\ Used(u) = 0..last - 1
  BY <1>1, <1>2 DEF Used
<1>4. /\ \A j \in Used(t) : t.sockets[j].fd \in Client
      /\ \A j, k \in Used(t) : t.sockets[j].fd = t.sockets[k].fd => j = k
  BY ZenonT(60) DEF Good
<1>5. \A j \in Used(u) : u.sockets[j].fd = IF j = i THEN t.sockets[last].fd ELSE t.sockets[j].fd
  BY <1>1, <1>3, ZenonT(60)
<1>6. Good(u)
  <2>1. \A j \in Used(u) : u.sockets[j].fd \in Client
    BY <1>3, <1>4, <1>5, ZenonT(60)
  <2>2. \A j, k \in Used(u) : u.sockets[j].fd = u.sockets[k].fd => j = k
    BY <1>3, <1>4, <1>5, ZenonT(60)
  <2> QED BY <1>1, <1>3, <2>1, <2>2 DEF Good
<1>7. Fds(u) = Fds(t) \ {t.sockets[i].fd}
  <2>1. ASSUME NEW j \in Used(u) PROVE u.sockets[j].fd \in Fds(t) \ {t.sockets[i].fd}
    BY <1>3, <1>4, <1>5, ZenonT(60) DEF Fds
  <2>2. ASSUME NEW j \in Used(t), t.sockets[j].fd # t.sockets[i].fd PROVE t.sockets[j].fd \in Fds(u)
    <3>1. CASE j = last
      BY <1>3, <1>5, <2>2, <3>1, ZenonT(60) DEF Fds
    <3>2. CASE j # last
      BY <1>3, <1>5, <2>2, <3>2, ZenonT(60) DEF Fds
    <3> QED BY <3>1, <3>2, ZenonT(60)
  <2> QED BY <2>1, <2>2, ZenonT(60) DEF Fds
<1> QED BY <1>1, <1>3, <1>6, <1>7, ZenonT(60) DEF u

-----------------------------------------------------------------------------
(* Telling an event                                                         *)

\* The client in slot j is closed when the event is told.
Gone(t, j, mask, dead) == mask \in t.sockets[j].flags /\ t.sockets[j].fd \in dead

Hears(t, j, mask, dead) == mask \in t.sockets[j].flags /\ t.sockets[j].fd \notin dead

\* Table w is what has become of t when slots i and up were told.
Walked(w, t, i, mask, dead) ==
    /\ Good(w) /\ w.count >= i
    /\ \A j \in 0..i - 1 : w.sockets[j] = t.sockets[j]
    /\ \A k \in Used(w) : k >= i => \E j \in Used(t) : j >= i /\ w.sockets[k] = t.sockets[j]
    /\ \A j \in Used(t) : t.sockets[j].fd \in Fds(w) <=> ~(j >= i /\ Gone(t, j, mask, dead))
    /\ \A c \in Client :
         w.told[c] = IF \E j \in Used(t) : j >= i /\ t.sockets[j].fd = c /\ Hears(t, j, mask, dead)
                     THEN 1 ELSE 0
    /\ dead = {} => w.sockets = t.sockets /\ w.count = t.count

\* One turn of the loop over the clients, which goes down: client i is told, or closed
\* and its place taken by a client that was told before.
LEMMA TellOne ==
    ASSUME NEW t, Good(t), NEW mask, NEW dead, NEW i \in Used(t), NEW w, Walked(w, t, i + 1, mask, dead)
    PROVE  Walked(TellSlot(w, i, mask, dead), t, i, mask, dead)
PROOF
<1> DEFINE u == TellSlot(w, i, mask, dead)
           c == t.sockets[i].fd
<1>1. /\ t.count \in Nat /\ i \in Nat /\ i < t.count /\ w.count \in Nat /\ w.count >= i + 1
      /\ i \in Used(w) /\ i \in 0..(i + 1) - 1
      /\ \A j \in 0..i - 1 : j \in 0..(i + 1) - 1
      /\ \A j \in Used(t) : j >= i <=> j = i \/ j >= i + 1
      /\ \A j \in Used(w) : j >= i <=> j = i \/ j >= i + 1
      /\ ~(i >= i + 1)
  BY MonitorAssumption DEF Walked, Good, Used
<1>2. w.sockets[i] = t.sockets[i] /\ c \in Client /\ c # NoClient
  BY <1>1, MonitorAssumption DEF Walked, Good
<1>3. \A j \in Used(t) : t.sockets[j].fd = c => j = i
  BY ZenonT(60) DEF Good
<1>4. c \in Fds(w)
  BY <1>1, <1>2 DEF Fds
<1>5. CASE mask \notin t.sockets[i].flags
  <2>1. u = w
    BY <1>2, <1>5 DEF TellSlot
  <2>2. \A k \in Used(w) : k >= i => \E j \in Used(t) : j >= i /\ w.sockets[k] = t.sockets[j]
    BY <1>1, <1>2, ZenonT(60) DEF Walked
  <2>3. \A j \in Used(t) : t.sockets[j].fd \in Fds(w) <=> ~(j >= i /\ Gone(t, j, mask, dead))
    BY <1>1, <1>4, <1>5, ZenonT(60) DEF Walked, Gone
  <2>4. \A d \in Client :
          w.told[d] = IF \E j \in Used(t) : j >= i /\ t.sockets[j].fd = d /\ Hears(t, j, mask, dead)
                      THEN 1 ELSE 0
    BY <1>1, <1>5, ZenonT(60) DEF Walked, Hears
  <2> QED BY <1>1, <2>1, <2>2, <2>3, <2>4 DEF Walked
<1>6. CASE mask \in t.sockets[i].flags /\ c \in dead
  <2>1. u = MonitorClose(w, i)
    BY <1>2, <1>6, ZenonT(60) DEF TellSlot
  <2>2. /\ Good(u) /\ u.count = w.count - 1 /\ u.told = w.told
        /\ \A j \in Used(u) : u.sockets[j] = IF j = i THEN w.sockets[w.count - 1] ELSE w.sockets[j]
        /\ Fds(u) = Fds(w) \ {c}
    <3>1. Good(w)
      BY ZenonT(60) DEF Walked
    <3> QED BY <1>1, <1>2, <2>1, <3>1, CloseGood
  <2> HIDE DEF u
  <2>3. u.count >= i /\ \A j \in 0..i - 1 : j \in Used(u) /\ j # i
    BY <1>1, <2>2 DEF Used
  <2>4. \A j \in 0..i - 1 : u.sockets[j] = t.sockets[j]
    BY <1>1, <2>2, <2>3 DEF Walked
  <2>5. ASSUME NEW k \in Used(u), k >= i PROVE \E j \in Used(t) : j >= i /\ u.sockets[k] = t.sockets[j]
    <3>1. k \in Used(w) /\ w.count - 1 \in Used(w) /\ k # w.count - 1
      BY <1>1, <2>2 DEF Used
    <3>2. k # i => k >= i + 1
      BY <1>1, <2>5, <3>1, ZenonT(60)
    <3>3. k = i => w.count - 1 >= i + 1
      BY <1>1, <3>1 DEF Used
    <3> QED BY <1>1, <2>2, <3>1, <3>2, <3>3 DEF Walked
  <2>6. \A j \in Used(t) : t.sockets[j].fd \in Fds(u) <=> ~(j >= i /\ Gone(t, j, mask, dead))
    BY <1>1, <1>3, <1>6, <2>2 DEF Walked, Gone
  <2>7. \A d \in Client :
          u.told[d] = IF \E j \in Used(t) : j >= i /\ t.sockets[j].fd = d /\ Hears(t, j, mask, dead)
                      THEN 1 ELSE 0
    BY <1>1, <1>6, <2>2 DEF Walked, Hears
  <2>8. dead # {}
    BY <1>6
  <2> QED BY <2>2, <2>3, <2>4, <2>5, <2>6, <2>7, <2>8, ZenonT(60) DEF Walked, u
<1>7. CASE mask \in t.sockets[i].flags /\ c \notin dead
  <2>1. u = [w EXCEPT !.told[c] = @ + 1]
    BY <1>2, <1>7, ZenonT(60) DEF TellSlot
  <2>2. w \in Table
    BY ZenonT(60) DEF Walked, Good
  <2>3. /\ u \in Table /\ u.sockets = w.sockets /\ u.count = w.count
        /\ u.told = [w.told EXCEPT ![c] = @ + 1]
    BY <1>2, <2>1, <2>2 DEF Table
  <2> HIDE DEF u
  <2>4. Good(u) /\ Used(u) = Used(w) /\ Fds(u) = Fds(w)
    <3>1. Used(u) = Used(w)
      BY <2>3, ZenonT(60) DEF Used
    <3>2. Fds(u) = Fds(w)
      BY <2>3, <3>1, ZenonT(60) DEF Fds
    <3>3. Good(w)
      BY ZenonT(60) DEF Walked
    <3> QED BY <2>3, <3>1, <3>2, <3>3, ZenonT(60) DEF Good
  <2>5. \A k \in Used(w) : k >= i => \E j \in Used(t) : j >= i /\ w.sockets[k] = t.sockets[j]
    BY <1>1, <1>2, ZenonT(60) DEF Walked
  <2>6. \A j \in Used(t) : t.sockets[j].fd \in Fds(w) <=> ~(j >= i /\ Gone(t, j, mask, dead))
    BY <1>1, <1>4, <1>7, ZenonT(60) DEF Walked, Gone
  <2>7. ~\E j \in Used(t) : j >= i + 1 /\ t.sockets[j].fd = c /\ Hears(t, j, mask, dead)
    BY <1>1, <1>3
  <2>8. u.told[c] = 1 /\ \A d \in Client : d # c => u.told[d] = w.told[d]
    BY <1>2, <2>2, <2>3, <2>7 DEF Walked, Table
  <2>9. Hears(t, i, mask, dead)
    BY <1>7, ZenonT(60) DEF Hears
  <2>10. ASSUME NEW d \in Client
        PROVE u.told[d] = IF \E j \in Used(t) : j >= i /\ t.sockets[j].fd = d /\ Hears(t, j, mask, dead)
                          THEN 1 ELSE 0
    <3>1. CASE d = c
      BY <1>1, <2>8, <2>9, <3>1
    <3>2. CASE d # c
      BY <1>1, <2>8, <3>2 DEF Walked
    <3> QED BY <3>1, <3>2, ZenonT(60)
  <2>11. \A j \in 0..i - 1 : u.sockets[j] = t.sockets[j]
    BY <1>1, <2>3 DEF Walked
  <2>12. u.count >= i /\ (dead = {} => u.sockets = t.sockets /\ u.count = t.count)
    BY <1>1, <2>3 DEF Walked
  <2>13. /\ \A k \in Used(u) : k >= i => \E j \in Used(t) : j >= i /\ u.sockets[k] = t.sockets[j]
         /\ \A j \in Used(t) : t.sockets[j].fd \in Fds(u) <=> ~(j >= i /\ Gone(t, j, mask, dead))
    BY <2>3, <2>4, <2>5, <2>6, ZenonT(60)
  <2> QED BY <2>4, <2>10, <2>11, <2>12, <2>13, ZenonT(60) DEF Walked, u
<1> QED BY <1>5, <1>6, <1>7

\* The recursion of the walk, in the last i that it has to reach, has a solution.
LEMMA WalkExists ==
    ASSUME NEW t, NEW mask, NEW dead, t.count \in 0..MaxSockets
    PROVE  \E f : f = [i \in 0..MaxSockets |->
                         IF i >= t.count THEN t ELSE TellSlot(f[i + 1], i, mask, dead)]
PROOF
<1> DEFINE V(f, i) == IF i >= t.count THEN t ELSE TellSlot(f[i + 1], i, mask, dead)
           Solves(f, k) == /\ f = [i \in 0..MaxSockets |-> f[i]]
                           /\ \A i \in 0..MaxSockets : i + k >= t.count => f[i] = V(f, i)
           S == {k \in Nat : \E f : Solves(f, k)}
<1>1. t.count \in Nat /\ t.count <= MaxSockets /\ MaxSockets \in Nat
  BY MonitorAssumption
<1>2. 0 \in S
  <2>1. Solves([i \in 0..MaxSockets |-> t], 0)
    BY <1>1
  <2> QED BY <2>1, ZenonT(60)
<1>3. ASSUME NEW k \in Nat, k \in S PROVE k + 1 \in S
  <2>1. PICK f : Solves(f, k)
    BY <1>3, ZenonT(60)
  <2> DEFINE m == t.count - (k + 1)
             g == [i \in 0..MaxSockets |-> IF i = m THEN V(f, m) ELSE f[i]]
  <2>2. CASE m < 0
    <3>1. \A i \in 0..MaxSockets : i + k >= t.count
      BY <1>1, <2>2
    <3>2. Solves(f, k + 1)
      BY <2>1, <3>1, ZenonT(60)
    <3> HIDE DEF Solves
    <3> QED BY <3>2
  <2>3. CASE m >= 0
    <3>1. m \in 0..MaxSockets /\ m + 1 \in 0..MaxSockets /\ m \in Nat
      BY <1>1, <2>3
    <3>2. /\ DOMAIN g = 0..MaxSockets /\ g = [i \in 0..MaxSockets |-> g[i]]
          /\ g[m] = V(f, m) /\ \A i \in 0..MaxSockets : i # m => g[i] = f[i]
      BY <3>1, ZenonT(60)
    <3> HIDE DEF g
    <3>3. ASSUME NEW i \in 0..MaxSockets, i + (k + 1) >= t.count PROVE g[i] = V(g, i)
      <4>1. i # m => i + k >= t.count
        BY <1>1, <3>3
      <4>2. i < t.count => i + 1 \in 0..MaxSockets /\ i + 1 # m
        BY <1>1, <3>3
      <4>3. V(g, i) = V(f, i)
        BY <1>1, <3>2, <4>2
      <4>4. i # m => g[i] = V(f, i)
        BY <2>1, <3>2, <4>1
      <4> QED BY <3>2, <4>3, <4>4, ZenonT(60)
    <3>4. Solves(g, k + 1)
      BY <3>2, <3>3, ZenonT(60)
    <3> HIDE DEF Solves
    <3> QED BY <3>4
  <2> QED BY <1>1, <2>2, <2>3
<1> HIDE DEF S
<1>4. MaxSockets \in S
  BY <1>1, <1>2, <1>3, NatInd, ZenonT(60)
<1>5. PICK f : Solves(f, MaxSockets)
  BY <1>4, ZenonT(60) DEF S
<1>6. \A i \in 0..MaxSockets : f[i] = V(f, i)
  BY <1>1, <1>5
<1>7. f = [i \in 0..MaxSockets |-> V(f, i)]
  BY <1>5, <1>6, ZenonT(60)
<1> QED BY <1>7, ZenonT(60)

\* All slots are told, from the last down to the first.
LEMMA TellAll ==
    ASSUME NEW t, Good(t), \A c \in Client : t.told[c] = 0, NEW mask, NEW dead
    PROVE  Walked(TellClients(t, mask, dead), t, 0, mask, dead)
PROOF
<1> DEFINE walk == CHOOSE f : f = [i \in 0..MaxSockets |->
                                     IF i >= t.count THEN t ELSE TellSlot(f[i + 1], i, mask, dead)]
<1>1. t.count \in Nat /\ t.count <= MaxSockets /\ MaxSockets \in Nat /\ t.count \in 0..MaxSockets
  BY MonitorAssumption DEF Good
<1>2. walk = [i \in 0..MaxSockets |->
                IF i >= t.count THEN t ELSE TellSlot(walk[i + 1], i, mask, dead)]
  BY <1>1, WalkExists
<1>3. TellClients(t, mask, dead) = walk[0]
  BY ZenonT(60) DEF TellClients
<1> HIDE DEF walk
<1>4. walk[t.count] = t /\ \A i \in Used(t) : walk[i] = TellSlot(walk[i + 1], i, mask, dead)
  BY <1>1, <1>2 DEF Used
<1> DEFINE S == {k \in Nat : k <= t.count => Walked(walk[t.count - k], t, t.count - k, mask, dead)}
<1>5. 0 \in S
  <2>1. \A j \in Used(t) : ~(j >= t.count) /\ t.sockets[j].fd \in Fds(t)
    BY <1>1 DEF Used, Fds
  <2>2. Walked(t, t, t.count, mask, dead)
    BY <1>1, <2>1 DEF Walked, Used
  <2> QED BY <1>1, <1>4, <2>2
<1>6. ASSUME NEW k \in Nat, k \in S PROVE k + 1 \in S
  <2> SUFFICES ASSUME k + 1 <= t.count
               PROVE  Walked(walk[t.count - (k + 1)], t, t.count - (k + 1), mask, dead)
    OBVIOUS
  <2> DEFINE i == t.count - (k + 1)
  <2>1. i \in Used(t) /\ i + 1 = t.count - k /\ k <= t.count
    BY <1>1 DEF Used
  <2>2. Walked(walk[i + 1], t, i + 1, mask, dead)
    BY <1>6, <2>1, ZenonT(60)
  <2> HIDE DEF i
  <2>3. Walked(walk[i], t, i, mask, dead)
    BY <1>4, <2>1, <2>2, TellOne
  <2> QED BY <2>3, ZenonT(60) DEF i
<1> HIDE DEF S
<1>7. t.count \in S
  BY <1>1, <1>5, <1>6, NatInd, ZenonT(60)
<1>8. t.count - t.count = 0
  BY <1>1
<1> QED BY <1>1, <1>3, <1>7, <1>8 DEF S

-----------------------------------------------------------------------------
(* The steps                                                                *)

\* There are as many clients as there are slots in use.
LEMMA CountIsCardinality == ASSUME NEW t, Good(t) PROVE t.count = Cardinality(Fds(t))
PROOF
<1> DEFINE n == t.count
           f == [k \in 1..n |-> t.sockets[k - 1].fd]
<1>1. n \in Nat /\ \A k \in 1..n : k - 1 \in Used(t)
  BY MonitorAssumption DEF Good, Used
<1>2. \A i \in Used(t) : i + 1 \in 1..n /\ (i + 1) - 1 = i
  BY <1>1 DEF Used
<1>3. f \in [1..n -> Fds(t)]
  BY <1>1, ZenonT(60) DEF Fds
<1>4. \A k, m \in 1..n : f[k] = f[m] => k = m
  <2>1. \A k, m \in 1..n : t.sockets[k - 1].fd = t.sockets[m - 1].fd => k - 1 = m - 1
    BY <1>1, ZenonT(60) DEF Good
  <2> QED BY <1>1, <2>1
<1>5. \A c \in Fds(t) : \E k \in 1..n : f[k] = c
  <2>1. ASSUME NEW i \in Used(t) PROVE \E k \in 1..n : f[k] = t.sockets[i].fd
    BY <1>2, ZenonT(60)
  <2> QED BY <2>1, ZenonT(60) DEF Fds
<1> HIDE DEF f
<1>6. f \in Bijection(1..n, Fds(t))
  BY <1>3, <1>4, <1>5, Fun_IsBij, ZenonT(60)
<1>7. ExistsBijection(1..n, Fds(t))
  BY <1>6, ZenonT(60) DEF ExistsBijection
<1> QED BY <1>1, <1>7, FS_CountingElements, ZenonT(60)

\* Forgetting who was told leaves the table as it is.
LEMMA UntoldGood ==
    ASSUME NEW t, Good(t)
    PROVE  LET u == Untold(t) IN
           /\ Good(u) /\ u.sockets = t.sockets /\ u.count = t.count
           /\ Used(u) = Used(t) /\ Fds(u) = Fds(t) /\ \A c \in Client : u.told[c] = 0
PROOF
<1> DEFINE u == Untold(t)
<1>1. u \in Table /\ u.sockets = t.sockets /\ u.count = t.count /\ u.told = [c \in Client |-> 0]
  BY ZenonT(60) DEF Untold, Good, Table
<1> HIDE DEF u
<1>2. Good(u) /\ Used(u) = Used(t) /\ Fds(u) = Fds(t)
  BY <1>1 DEF Good, Used, Fds
<1> QED BY <1>1, <1>2, ZenonT(60) DEF u

\* Table u is t but for what is known of the client in slot i.
Touched(t, u, i) ==
    /\ Good(u) /\ u.count = t.count
    /\ \A j \in SocketSlot : j # i => u.sockets[j] = t.sockets[j]
    /\ u.sockets[i].fd = t.sockets[i].fd

\* Giving a slot another context of the same client touches that slot only.
LEMMA SlotSet ==
    ASSUME NEW t, Good(t), NEW i \in Used(t), NEW x \in Context, x.fd = t.sockets[i].fd,
           x.watched = t.sockets[i].watched, NEW u, u = [t EXCEPT !.sockets[i] = x]
    PROVE  Touched(t, u, i) /\ u.told = t.told
PROOF
<1>1. i \in SocketSlot /\ t \in Table
  BY UsedSlots, ZenonT(60) DEF Good
<1>2. /\ u \in Table /\ u.count = t.count /\ u.told = t.told
      /\ u.sockets = [t.sockets EXCEPT ![i] = x]
  BY <1>1, ZenonT(60) DEF Table
<1>3. /\ \A j \in SocketSlot : j # i => u.sockets[j] = t.sockets[j]
      /\ u.sockets[i] = x
  BY <1>1, <1>2, ZenonT(60) DEF Table
<1>4. \A j \in SocketSlot : u.sockets[j].fd = t.sockets[j].fd /\ u.sockets[j].watched = t.sockets[j].watched
  BY <1>3, ZenonT(60)
<1>5. Used(u) = Used(t) /\ Used(t) \subseteq SocketSlot
  BY <1>2, UsedSlots, ZenonT(60) DEF Used
<1>6. Good(u)
  BY <1>2, <1>4, <1>5 DEF Good
<1> QED BY <1>2, <1>3, <1>6, ZenonT(60) DEF Touched

\* A slot that is touched keeps its client.
LEMMA TouchedFds ==
    ASSUME NEW t, Good(t), NEW i \in Used(t), NEW u, Touched(t, u, i)
    PROVE  Used(u) = Used(t) /\ Fds(u) = Fds(t)
PROOF
<1>1. Used(u) = Used(t) /\ Used(t) \subseteq SocketSlot
  BY UsedSlots, ZenonT(60) DEF Used, Touched
<1>2. \A j \in Used(t) : u.sockets[j].fd = t.sockets[j].fd
  BY <1>1, ZenonT(60) DEF Touched
<1> QED BY <1>1, <1>2, ZenonT(60) DEF Fds

\* Touching a slot twice touches it.
LEMMA TouchedTwice ==
    ASSUME NEW t, NEW u, NEW v, NEW i, Touched(t, u, i), Touched(u, v, i)
    PROVE  Touched(t, v, i)
BY ZenonT(60) DEF Touched

\* What is known of client c is the same in both tables.
Follows(t, u, c) ==
    \A i \in Used(t), j \in Used(u) :
      t.sockets[i].fd = c /\ u.sockets[j].fd = c => t.sockets[i] = u.sockets[j]

\* What is known of the other clients stays when a slot is touched.
LEMMA TouchedFollows ==
    ASSUME NEW t, Good(t), NEW i \in Used(t), NEW u, Touched(t, u, i), NEW c, c # t.sockets[i].fd
    PROVE  Follows(t, u, c)
PROOF
<1>1. Used(u) = Used(t) /\ Used(t) \subseteq SocketSlot
  BY UsedSlots, TouchedFds, ZenonT(60)
<1>2. \A j \in Used(t) : u.sockets[j].fd = t.sockets[j].fd /\ (j # i => u.sockets[j] = t.sockets[j])
  BY <1>1, ZenonT(60) DEF Touched
<1>3. \A j, k \in Used(t) : t.sockets[j].fd = t.sockets[k].fd => j = k
  BY ZenonT(60) DEF Good
<1> QED BY <1>1, <1>2, <1>3, ZenonT(60) DEF Follows

\* What is known of a client goes with it when monitor_close() moves it.
LEMMA CloseFollows ==
    ASSUME NEW t, Good(t), NEW i \in Used(t), NEW c
    PROVE  Follows(t, MonitorClose(t, i), c)
PROOF
<1> DEFINE u == MonitorClose(t, i)
           last == t.count - 1
<1>1. /\ u.count = last
      /\ \A j \in Used(u) : u.sockets[j] = IF j = i THEN t.sockets[last] ELSE t.sockets[j]
  BY CloseGood, ZenonT(60)
<1> HIDE DEF u
<1>2. last \in Used(t) /\ \A j \in Used(u) : j \in Used(t)
  BY <1>1, MonitorAssumption DEF Used, Good
<1>3. \A j, k \in Used(t) : t.sockets[j].fd = t.sockets[k].fd => j = k
  BY ZenonT(60) DEF Good
<1>4. Follows(t, u, c)
  BY <1>1, <1>2, <1>3, ZenonT(60) DEF Follows
<1> QED BY <1>4, ZenonT(60) DEF u

-----------------------------------------------------------------------------
(* The inductive invariant                                                  *)

MonInv ==
    /\ Good(mon) /\ open = Fds(mon)
    /\ served \in Client \cup {NoClient}
    /\ \A c \in Client : mon.told[c] \in 0..1

\* The clients in the table are those of the slots in use.
LEMMA InTableFds == ASSUME NEW t, Good(t) PROVE InTable(t) = Fds(t) /\ Fds(t) \subseteq Client
BY MonitorAssumption, ZenonT(60) DEF InTable, Fds, Used, Good

\* ContextOf() finds the one slot that a client has.
LEMMA ContextIs ==
    ASSUME NEW t, Good(t), NEW k \in Used(t)
    PROVE  t.sockets[CHOOSE i \in 0..t.count - 1 : t.sockets[i].fd = t.sockets[k].fd] = t.sockets[k]
PROOF
<1> DEFINE i == CHOOSE i \in 0..t.count - 1 : t.sockets[i].fd = t.sockets[k].fd
<1>1. i \in Used(t) /\ t.sockets[i].fd = t.sockets[k].fd
  BY ZenonT(60) DEF Used
<1> HIDE DEF i
<1>2. i = k
  BY <1>1, ZenonT(60) DEF Good
<1> QED BY <1>2, ZenonT(60) DEF i

\* What there is to show of each step.
LEMMA StepIntro ==
    ASSUME MonInv, Good(mon)', open' = Fds(mon)', served' \in Client \cup {NoClient},
           \A c \in Client : mon'.told[c] \in 0..1,
           \A c \in Client : c # served' => Follows(mon, mon', c)
    PROVE  MonInv' /\ KeptApart
PROOF
<1>1. Good(mon) /\ Good(mon')
  BY ZenonT(60) DEF MonInv
<1>2. MonInv'
  BY ZenonT(60) DEF MonInv
<1>3. ASSUME NEW c \in InTable(mon) \cap InTable(mon'), c # served' PROVE ContextOf(c)' = ContextOf(c)
  <2>1. c \in Fds(mon) /\ c \in Fds(mon') /\ c \in Client
    BY <1>1, InTableFds, ZenonT(60)
  <2>2. PICK k \in Used(mon) : mon.sockets[k].fd = c
    BY <2>1, ZenonT(60) DEF Fds
  <2>3. PICK m \in Used(mon') : mon'.sockets[m].fd = c
    BY <2>1, ZenonT(60) DEF Fds
  <2>4. ContextOf(c) = mon.sockets[k]
    BY <1>1, <2>2, ContextIs DEF ContextOf
  <2>5. ContextOf(c)' = mon'.sockets[m]
    BY <1>1, <2>3, ContextIs DEF ContextOf
  <2>6. mon.sockets[k] = mon'.sockets[m]
    BY <1>3, <2>1, <2>2, <2>3, ZenonT(60) DEF Follows
  <2> QED BY <2>4, <2>5, <2>6, ZenonT(60)
<1> QED BY <1>2, <1>3, ZenonT(60) DEF KeptApart

\* The table is empty at the start.
LEMMA MonitorInitInv == MonitorInit => MonInv
PROOF
<1> SUFFICES ASSUME MonitorInit PROVE MonInv
  BY ZenonT(60)
<1>1. Unused \in Context /\ Unused.watched = FALSE
  BY ZenonT(60) DEF Unused, Context
<1>2. /\ mon.count = 0 /\ mon.sockets = [i \in SocketSlot |-> Unused]
      /\ mon.told = [c \in Client |-> 0] /\ mon \in Table
  BY <1>1 DEF MonitorInit, Table
<1>3. Used(mon) = {}
  BY <1>2 DEF Used
<1>4. \A i \in SocketSlot : ~(i < 0)
  BY MonitorAssumption DEF SocketSlot
<1>5. Good(mon)
  BY <1>1, <1>2, <1>3, <1>4, MonitorAssumption DEF Good
<1>6. Fds(mon) = {}
  BY <1>3, ZenonT(60) DEF Fds
<1> QED BY <1>2, <1>5, <1>6 DEF MonInv, MonitorInit

\* A client that connects takes the slot behind the last one in use.
LEMMA NewClientStep == ASSUME MonInv, NEW c \in Client, monitor_new_client(c) PROVE MonInv' /\ KeptApart
PROOF
<1> DEFINE t == Untold(mon)
           n == mon.count
           x == [t.sockets[n] EXCEPT !.fd = c, !.watched = TRUE, !.state = "COMMAND"]
<1>1. /\ Good(t) /\ t.sockets = mon.sockets /\ t.count = n /\ Used(t) = Used(mon)
      /\ Fds(t) = Fds(mon) /\ t \in Table /\ \A d \in Client : t.told[d] = 0
  BY UntoldGood, ZenonT(60) DEF MonInv, Good
<1> HIDE DEF t
<1>2. n \in SocketSlot /\ n \in Nat /\ MaxSockets \in Nat /\ n < MaxSockets
  BY MonitorAssumption DEF monitor_new_client, MonInv, Good, SocketSlot
<1>3. t.sockets[n] \in Context
  BY <1>1, <1>2, ZenonT(60) DEF Table
<1>4. x \in Context /\ x.fd = c /\ x.watched
  BY <1>3, ZenonT(60) DEF Context
<1>5. mon' = [t EXCEPT !.count = @ + 1, !.sockets[n] = x]
  BY <1>1, <1>2, <1>3, ZenonT(60) DEF monitor_new_client, t, Table, Context
<1> HIDE DEF x
<1>6. /\ mon' \in Table /\ mon'.count = n + 1 /\ mon'.told = t.told
      /\ mon'.sockets = [mon.sockets EXCEPT ![n] = x]
  <2> DEFINE y == [mon.sockets EXCEPT ![n] = x]
  <2>1. y \in [SocketSlot -> Context]
    BY <1>1, <1>4, ZenonT(60) DEF Table
  <2>2. mon' = [t EXCEPT !.count = n + 1, !.sockets = y]
    BY <1>1, <1>5, ZenonT(60) DEF Table
  <2> HIDE DEF y
  <2>3. mon' = [count |-> n + 1, sockets |-> y, told |-> t.told]
    BY <1>1, <2>2, ZenonT(60) DEF Table
  <2>4. n + 1 \in Int /\ t.told \in [Client -> Nat]
    BY <1>1, <1>2 DEF Table
  <2>5. mon' \in Table /\ mon'.count = n + 1 /\ mon'.told = t.told /\ mon'.sockets = y
    BY <2>1, <2>3, <2>4, ZenonT(60) DEF Table
  <2> QED BY <2>5, ZenonT(60) DEF y
<1>7. /\ mon'.sockets[n] = x
      /\ \A j \in SocketSlot : j # n => mon'.sockets[j] = mon.sockets[j]
  BY <1>1, <1>2, <1>6, ZenonT(60) DEF Table
<1>8. /\ Used(mon') = Used(mon) \cup {n} /\ n \notin Used(mon)
      /\ \A j \in Used(mon) : j \in SocketSlot /\ j # n
  BY <1>2, <1>6 DEF Used, SocketSlot
<1>9. c \notin Fds(mon) /\ open' = Fds(mon) \cup {c} /\ served' = c
  BY ZenonT(60) DEF monitor_new_client, MonInv
<1>10. \A j \in Used(mon) : mon'.sockets[j] = mon.sockets[j] /\ mon.sockets[j].fd # c
  BY <1>7, <1>8, <1>9, ZenonT(60) DEF Fds
<1>11. Good(mon')
  <2>1. /\ \A j \in Used(mon) : mon.sockets[j].fd \in Client
        /\ \A i, j \in Used(mon) : mon.sockets[i].fd = mon.sockets[j].fd => i = j
        /\ \A i \in SocketSlot : mon.sockets[i].watched <=> i < n
    BY ZenonT(60) DEF MonInv, Good
  <2>2. \A i, j \in Used(mon') : mon'.sockets[i].fd = mon'.sockets[j].fd => i = j
    BY <1>4, <1>7, <1>8, <1>10, <2>1
  <2>3. \A i \in Used(mon') : mon'.sockets[i].fd \in Client
    BY <1>4, <1>7, <1>8, <1>10, <2>1, ZenonT(60)
  <2>4. ASSUME NEW i \in SocketSlot PROVE mon'.sockets[i].watched <=> i < n + 1
    <3>1. CASE i = n
      BY <1>2, <1>4, <1>7, <3>1
    <3>2. CASE i # n
      BY <1>2, <1>7, <2>1, <3>2 DEF SocketSlot
    <3> QED BY <3>1, <3>2, ZenonT(60)
  <2> QED BY <1>2, <1>6, <2>2, <2>3, <2>4 DEF Good
<1>12. Fds(mon') = Fds(mon) \cup {c}
  BY <1>4, <1>7, <1>8, <1>10 DEF Fds
<1>13. \A d \in Client : d # c => Follows(mon, mon', d)
  <2>1. \A i, j \in Used(mon) : mon.sockets[i].fd = mon.sockets[j].fd => i = j
    BY ZenonT(60) DEF MonInv, Good
  <2> QED BY <1>4, <1>7, <1>8, <1>10, <2>1 DEF Follows
<1>14. \A d \in Client : mon'.told[d] \in 0..1
  BY <1>1, <1>6
<1> QED BY <1>9, <1>11, <1>12, <1>13, <1>14, StepIntro

\* A client that is turned away changes nothing.
LEMMA BusyStep == ASSUME MonInv, NEW c \in Client, Busy(c) PROVE MonInv' /\ KeptApart
PROOF
<1>1. /\ Good(mon') /\ mon'.sockets = mon.sockets /\ Used(mon') = Used(mon)
      /\ Fds(mon') = Fds(mon) /\ \A d \in Client : mon'.told[d] = 0
  BY UntoldGood, ZenonT(60) DEF MonInv, Busy
<1>2. \A d \in Client : Follows(mon, mon', d)
  BY <1>1, ZenonT(60) DEF Follows, MonInv, Good
<1> QED BY <1>1, <1>2, StepIntro DEF Busy, MonInv

\* A slot that is polled is in use.
LEMMA PolledUsed ==
    ASSUME MonInv, NEW i, Polled(i)
    PROVE  i \in Used(mon) /\ mon.sockets[i].fd \in Client
PROOF
<1>1. i \in Used(mon)
  BY MonitorAssumption DEF Polled, MonInv, Good, Used, SocketSlot
<1> QED BY <1>1, ZenonT(60) DEF MonInv, Good

\* A client that closes its connection takes nobody else with it.
LEMMA DisconnectStep == ASSUME MonInv, NEW i, Disconnect(i) PROVE MonInv' /\ KeptApart
PROOF
<1> DEFINE t == Untold(mon)
           c == mon.sockets[i].fd
<1>1. i \in Used(mon) /\ c \in Client
  BY PolledUsed DEF Disconnect
<1>2. /\ Good(t) /\ t.sockets = mon.sockets /\ Used(t) = Used(mon)
      /\ Fds(t) = Fds(mon) /\ \A d \in Client : t.told[d] = 0
  BY UntoldGood, ZenonT(60) DEF MonInv
<1> HIDE DEF t
<1>3. mon' = MonitorClose(t, i) /\ open' = open \ {c} /\ served' = c
  BY ZenonT(60) DEF Disconnect, t
<1>4. Good(mon') /\ mon'.told = t.told /\ Fds(mon') = Fds(t) \ {c}
  BY <1>1, <1>2, <1>3, CloseGood
<1>5. \A d : Follows(t, mon', d)
  BY <1>1, <1>2, <1>3, CloseFollows, ZenonT(60)
<1>6. \A d : Follows(mon, mon', d)
  BY <1>2, <1>5 DEF Follows
<1>7. open' = Fds(mon')
  BY <1>2, <1>3, <1>4, ZenonT(60) DEF MonInv
<1>8. \A d \in Client : mon'.told[d] \in 0..1
  BY <1>2, <1>4
<1> QED BY <1>1, <1>3, <1>4, <1>6, <1>7, <1>8, StepIntro, ZenonT(60)

\* A line that is read changes the context of its own client alone.
LEMMA ReadLineStep == ASSUME MonInv, NEW i, ReadLine(i) PROVE MonInv' /\ KeptApart
PROOF
<1> DEFINE t == Untold(mon)
           c == mon.sockets[i].fd
<1>1. i \in Used(mon) /\ c \in Client
  BY PolledUsed, ZenonT(60) DEF ReadLine
<1>2. /\ Good(t) /\ t.sockets = mon.sockets /\ Used(t) = Used(mon)
      /\ Fds(t) = Fds(mon) /\ \A d \in Client : t.told[d] = 0
  BY UntoldGood, ZenonT(60) DEF MonInv
<1>3. PICK cmd \in ClientCommand :
         mon' = [t EXCEPT !.sockets[i].state = "DATA", !.sockets[i].command = cmd]
  BY ZenonT(60) DEF ReadLine
<1> DEFINE x == [t.sockets[i] EXCEPT !.state = "DATA", !.command = cmd]
<1> HIDE DEF t
<1>4. i \in SocketSlot /\ t \in Table /\ t.sockets[i] \in Context
  BY <1>1, <1>2, UsedSlots, ZenonT(60) DEF Good, Table
<1>5. mon' = [t EXCEPT !.sockets[i] = x]
  BY <1>3, <1>4, ZenonT(60) DEF Table, Context
<1>6. x \in Context /\ x.fd = t.sockets[i].fd /\ x.watched = t.sockets[i].watched
  BY <1>4, ZenonT(60) DEF Context
<1> HIDE DEF x
<1>7. Touched(t, mon', i) /\ mon'.told = t.told
  BY <1>1, <1>2, <1>5, <1>6, SlotSet
<1>8. Good(mon') /\ Fds(mon') = Fds(t)
  BY <1>1, <1>2, <1>7, TouchedFds DEF Touched
<1>9. \A d \in Client : d # c => Follows(t, mon', d)
  BY <1>1, <1>2, <1>7, TouchedFollows, ZenonT(60)
<1>10. \A d \in Client : d # c => Follows(mon, mon', d)
  BY <1>2, <1>9 DEF Follows
<1>11. \A d \in Client : mon'.told[d] \in 0..1
  BY <1>2, <1>7
<1>12. open' = Fds(mon') /\ served' = c
  BY <1>2, <1>8 DEF ReadLine, MonInv
<1> QED BY <1>1, <1>8, <1>10, <1>11, <1>12, StepIntro, ZenonT(60)

\* A command, when all clients can be written to, touches only its own slot.
LEMMA CommandTouches ==
    ASSUME NEW t, Good(t), \A c \in Client : t.told[c] = 0, NEW i \in Used(t), NEW cmd \in ClientCommand
    PROVE  /\ Touched(t, ProcessCommand(t, i, cmd, {}), i)
           /\ \A c \in Client : ProcessCommand(t, i, cmd, {}).told[c] \in 0..1
PROOF
<1> DEFINE u == ProcessCommand(t, i, cmd, {})
           a == t.sockets[i]
<1>1. i \in SocketSlot /\ t \in Table /\ a \in Context
  BY UsedSlots, ZenonT(60) DEF Good, Table
<1>2. cmd.op \in {"monitor", "ignore", "call"} /\ cmd.flag \in Flag /\ cmd.codecs \in SUBSET AudioCodec
  BY MonitorAssumption, ZenonT(60)
<1>3. CASE cmd.op = "monitor"
  <2> DEFINE x == [a EXCEPT !.flags = @ \cup {cmd.flag},
                            !.codecs = IF cmd.flag = "vomp" THEN @ \cup cmd.codecs ELSE @]
  <2>1. u = [t EXCEPT !.sockets[i] = x]
    BY <1>1, <1>3, ZenonT(60) DEF ProcessCommand, Table, Context
  <2>2. x \in Context /\ x.fd = a.fd /\ x.watched = a.watched
    BY <1>1, <1>2, ZenonT(60) DEF Context
  <2> HIDE DEF x, u
  <2>3. Touched(t, u, i) /\ u.told = t.told
    BY <2>1, <2>2, SlotSet, ZenonT(60)
  <2> QED BY <2>3 DEF u
<1>4. CASE cmd.op = "ignore"
  <2> DEFINE x == [a EXCEPT !.flags = @ \ {cmd.flag}]
  <2>1. u = [t EXCEPT !.sockets[i] = x]
    BY <1>1, <1>4, ZenonT(60) DEF ProcessCommand, Table, Context
  <2>2. x \in Context /\ x.fd = a.fd /\ x.watched = a.watched
    BY <1>1, ZenonT(60) DEF Context
  <2> HIDE DEF x, u
  <2>3. Touched(t, u, i) /\ u.told = t.told
    BY <2>1, <2>2, SlotSet, ZenonT(60)
  <2> QED BY <2>3 DEF u
<1>5. CASE cmd.op = "call"
  <2>1. u = TellClients(t, "vomp", {})
    BY <1>5, ZenonT(60) DEF ProcessCommand
  <2>2. Walked(u, t, 0, "vomp", {})
    BY <2>1, TellAll
  <2> HIDE DEF u
  <2>3. Touched(t, u, i) /\ \A c \in Client : u.told[c] \in 0..1
    BY <2>2 DEF Walked, Touched
  <2> QED BY <2>3, ZenonT(60) DEF u
<1> QED BY <1>2, <1>3, <1>4, <1>5, ZenonT(60)

\* The parser of a slot is reset without a change of client.
LEMMA ResetTouches ==
    ASSUME NEW t, Good(t), NEW i \in Used(t)
    PROVE  Touched(t, ResetParsing(t, i), i) /\ ResetParsing(t, i).told = t.told
PROOF
<1> DEFINE u == ResetParsing(t, i)
           x == [t.sockets[i] EXCEPT !.state = "COMMAND", !.command = NoCommand]
<1>1. i \in SocketSlot /\ t \in Table /\ t.sockets[i] \in Context
  BY UsedSlots, ZenonT(60) DEF Good, Table
<1>2. u = [t EXCEPT !.sockets[i] = x]
  BY <1>1, ZenonT(60) DEF ResetParsing, Table, Context
<1>3. x \in Context /\ x.fd = t.sockets[i].fd /\ x.watched = t.sockets[i].watched
  BY <1>1, ZenonT(60) DEF Context
<1> HIDE DEF x, u
<1>4. Touched(t, u, i) /\ u.told = t.told
  BY <1>2, <1>3, SlotSet, ZenonT(60)
<1> QED BY <1>4, ZenonT(60) DEF u

\* A command that is complete: what it does, the reset of the parser, and the
\* close of a client that has hung up, all to the client that sent it.
LEMMA CompleteStep ==
    ASSUME MonInv, NEW i, NEW cmd \in ClientCommand, NEW hup \in BOOLEAN, Complete(i, cmd, {}, hup)
    PROVE  MonInv' /\ KeptApart
PROOF
<1> DEFINE s == Untold(mon)
           c == mon.sockets[i].fd
           r == ProcessCommand(s, i, cmd, {})
           t == ResetParsing(r, i)
<1>1. i \in Used(mon) /\ c \in Client
  BY PolledUsed DEF Complete
<1>2. /\ Good(s) /\ s.sockets = mon.sockets /\ Used(s) = Used(mon)
      /\ Fds(s) = Fds(mon) /\ \A d \in Client : s.told[d] = 0
  BY UntoldGood DEF MonInv
<1>3. /\ mon' = IF hup THEN MonitorClose(t, i) ELSE t
      /\ open' = open \ ((InTable(mon) \ InTable(t)) \cup (IF hup THEN {t.sockets[i].fd} ELSE {}))
      /\ served' = c
  BY DEF Complete
<1> HIDE DEF s
<1>4. Touched(s, r, i) /\ \A d \in Client : r.told[d] \in 0..1
  BY <1>1, <1>2, CommandTouches
<1> HIDE DEF r
<1>5. Good(r) /\ Used(r) = Used(s)
  BY <1>1, <1>2, <1>4, TouchedFds DEF Touched
<1>6. Touched(r, t, i) /\ t.told = r.told
  BY <1>1, <1>2, <1>5, ResetTouches, ZenonT(60)
<1> HIDE DEF t
<1>7. Touched(s, t, i)
  BY <1>4, <1>6, TouchedTwice
<1>8. Good(t) /\ Used(t) = Used(s) /\ Fds(t) = Fds(s) /\ t.sockets[i].fd = c
  BY <1>1, <1>2, <1>7, TouchedFds DEF Touched
<1>9. \A d \in Client : d # c => Follows(s, t, d)
  BY <1>1, <1>2, <1>7, TouchedFollows
<1>10. \A d \in Client : d # c => Follows(mon, t, d)
  BY <1>2, <1>9 DEF Follows
<1>11. InTable(mon) = Fds(mon) /\ InTable(t) = Fds(mon) /\ open = Fds(mon)
  BY <1>2, <1>8, InTableFds DEF MonInv
<1>12. CASE ~hup
  <2>1. mon' = t /\ open' = Fds(mon)
    BY <1>3, <1>11, <1>12
  <2> QED BY <1>1, <1>2, <1>3, <1>4, <1>6, <1>8, <1>10, <2>1, StepIntro
<1>13. CASE hup
  <2>1. mon' = MonitorClose(t, i) /\ open' = Fds(mon) \ {c}
    BY <1>3, <1>8, <1>11, <1>13
  <2>2. /\ Good(mon') /\ mon'.told = t.told /\ Fds(mon') = Fds(t) \ {c}
        /\ \A j \in Used(mon') : \E k \in Used(t) : mon'.sockets[j] = t.sockets[k]
    <3>1. /\ Good(mon') /\ mon'.told = t.told /\ Fds(mon') = Fds(t) \ {c} /\ mon'.count = t.count - 1
          /\ \A j \in Used(mon') :
                mon'.sockets[j] = IF j = i THEN t.sockets[t.count - 1] ELSE t.sockets[j]
      BY <1>1, <1>2, <1>8, <2>1, CloseGood
    <3>2. t.count - 1 \in Used(t) /\ \A j \in Used(mon') : j \in Used(t)
      BY <1>1, <1>2, <1>8, <3>1, MonitorAssumption DEF Used, Good
    <3> QED BY <3>1, <3>2
  <2>3. \A d \in Client : d # c => Follows(mon, mon', d)
    BY <1>10, <2>2 DEF Follows
  <2>4. \A d \in Client : mon'.told[d] \in 0..1
    BY <1>4, <1>6, <2>2, ZenonT(60)
  <2> QED BY <1>1, <1>2, <1>3, <1>8, <2>1, <2>2, <2>3, <2>4, StepIntro
<1> QED BY <1>12, <1>13

\* An event is told to all.
LEMMA AnnounceStep ==
    ASSUME MonInv, NEW mask \in Flag, NEW dead \in SUBSET open, Announce(mask, dead)
    PROVE  MonInv' /\ KeptApart /\ ToldOnce
PROOF
<1> DEFINE t == Untold(mon)
<1>1. /\ Good(t) /\ t.sockets = mon.sockets /\ Used(t) = Used(mon)
      /\ Fds(t) = Fds(mon) /\ \A d \in Client : t.told[d] = 0
  BY UntoldGood DEF MonInv
<1>2. Walked(mon', t, 0, mask, dead)
  BY <1>1, TellAll DEF Announce
<1> HIDE DEF t
<1>3. /\ Good(mon) /\ Good(mon') /\ served' = NoClient
      /\ open' = open \ (InTable(mon) \ InTable(mon')) /\ open = Fds(mon)
  BY <1>2 DEF Walked, MonInv, Announce
<1>4. \A k \in Used(mon) : k >= 0 /\ ContextOf(mon.sockets[k].fd) = mon.sockets[k]
  BY <1>3, ContextIs DEF ContextOf, Used
<1>5. \A k \in Used(mon') : \E j \in Used(mon) : mon'.sockets[k] = mon.sockets[j]
  <2>1. \A k \in Used(mon') : k >= 0
    BY DEF Used
  <2> QED BY <1>1, <1>2, <2>1 DEF Walked
<1>6. \A j, k \in Used(mon) : mon.sockets[j].fd = mon.sockets[k].fd => j = k
  BY <1>3, ZenonT(60) DEF Good
<1>7. \A d \in Client : Follows(mon, mon', d)
  BY <1>5, <1>6, ZenonT(60) DEF Follows
<1>8. Fds(mon') \subseteq Fds(mon)
  BY <1>5, ZenonT(60) DEF Fds
<1>9. open' = Fds(mon')
  BY <1>3, <1>8, InTableFds
<1>10. \A d \in Client : mon'.told[d] \in 0..1
  BY <1>2 DEF Walked
<1>11. MonInv' /\ KeptApart
  BY <1>3, <1>7, <1>9, <1>10, StepIntro
<1>12. \A k \in Used(mon) : mon.sockets[k].fd \in Fds(mon') <=> ~Gone(mon, k, mask, dead)
  BY <1>1, <1>2, <1>4 DEF Walked, Gone
<1>13. open' = open \ {c \in dead : mask \in ContextOf(c).flags}
  BY <1>3, <1>4, <1>8, <1>9, <1>12 DEF Fds, Gone
<1>14. ASSUME NEW k \in Used(mon)
       PROVE  LET c == mon.sockets[k].fd IN
              mon'.told[c] = IF c \notin dead /\ mask \in ContextOf(c).flags THEN 1 ELSE 0
  <2> DEFINE c == mon.sockets[k].fd
  <2>1. c \in Client
    BY <1>3 DEF Good
  <2>2. mon'.told[c] = IF \E j \in Used(mon) : mon.sockets[j].fd = c /\ Hears(mon, j, mask, dead)
                       THEN 1 ELSE 0
    BY <1>1, <1>2, <1>4, <2>1 DEF Walked, Hears
  <2>3. (\E j \in Used(mon) : mon.sockets[j].fd = c /\ Hears(mon, j, mask, dead))
          <=> c \notin dead /\ mask \in ContextOf(c).flags
    BY <1>4, <1>6 DEF Hears
  <2> QED BY <2>2, <2>3
<1>15. ToldOnce
  BY <1>3, <1>13, <1>14 DEF ToldOnce, Fds
<1> QED BY <1>11, <1>15

-----------------------------------------------------------------------------
(* The theorems.  They are about a daemon in which no write fails while the *)
(* command of a client is being handled: otherwise that client may be moved *)
(* meanwhile, and the parser of another one is reset.                       *)

\* Every step keeps the invariant and the contexts of the clients it does not serve.
LEMMA MonitorStep ==
    ASSUME ~FailsInCommand, MonInv, MonitorNext
    PROVE  MonInv' /\ KeptApart /\ (served' = NoClient => ToldOnce)
PROOF
<1>1. ASSUME NEW c \in Client, monitor_new_client(c) \/ Busy(c)
      PROVE  MonInv' /\ KeptApart /\ served' # NoClient
  BY <1>1, NewClientStep, BusyStep, MonitorAssumption, ZenonT(60) DEF monitor_new_client, Busy
<1>2. ASSUME NEW i \in SocketSlot, Disconnect(i) \/ ReadLine(i)
      PROVE  MonInv' /\ KeptApart /\ served' # NoClient
  BY <1>2, DisconnectStep, ReadLineStep, PolledUsed, MonitorAssumption, ZenonT(60) DEF Disconnect, ReadLine
<1>3. ASSUME NEW i \in SocketSlot, NEW cmd \in ClientCommand, NEW hup \in BOOLEAN,
             NEW dead \in IF FailsInCommand THEN SUBSET open ELSE {{}}, Complete(i, cmd, dead, hup)
      PROVE  MonInv' /\ KeptApart /\ served' # NoClient
  <2>1. dead = {}
    BY <1>3, ZenonT(60)
  <2>2. Complete(i, cmd, {}, hup)
    BY <1>3, <2>1, ZenonT(60)
  <2> QED BY <2>2, CompleteStep, PolledUsed, MonitorAssumption, ZenonT(60) DEF Complete
<1>4. ASSUME NEW mask \in Flag, NEW dead \in SUBSET open, Announce(mask, dead)
      PROVE  MonInv' /\ KeptApart /\ ToldOnce
  BY <1>4, AnnounceStep, ZenonT(60)
<1> QED BY <1>1, <1>2, <1>3, <1>4, ZenonT(60) DEF MonitorNext

\* The clients in use are the first of the table, each of them once, in every state
\* of the server.
THEOREM MonitorInvariance == ~FailsInCommand => (MonitorSpec => []MonInv)
PROOF
<1> SUFFICES ASSUME ~FailsInCommand PROVE MonitorSpec => []MonInv
  BY ZenonT(60)
<1>1. MonInv /\ [MonitorNext]_monitorVars => MonInv'
  <2>1. MonInv /\ MonitorNext => MonInv'
    BY MonitorStep, ZenonT(60)
  <2>2. MonInv /\ UNCHANGED monitorVars => MonInv'
    BY ZenonT(60) DEF MonInv, monitorVars
  <2> QED BY <2>1, <2>2, ZenonT(60)
<1> QED BY <1>1, MonitorInitInv, PTL DEF MonitorSpec

\* The table has only contexts, never more clients than slots, and no client is
\* told an event twice.
THEOREM MonitorTypeCorrect == ~FailsInCommand => (MonitorSpec => []MonitorTypeOK)
PROOF
<1>1. MonInv => MonitorTypeOK
  <2> SUFFICES ASSUME MonInv PROVE MonitorTypeOK
    BY ZenonT(60)
  <2>1. mon \in Table /\ mon.count \in -1..MaxSockets
    BY MonitorAssumption DEF MonInv, Good
  <2>2. mon.told \in [Client -> 0..1]
    BY <2>1, ZenonT(60) DEF MonInv, Table
  <2>3. mon \in [count : -1..MaxSockets, sockets : [SocketSlot -> Context], told : [Client -> 0..1]]
    BY <2>1, <2>2, ZenonT(60) DEF Table
  <2>4. open \subseteq Client
    BY InTableFds, ZenonT(60) DEF MonInv
  <2> QED BY <2>3, <2>4, ZenonT(60) DEF MonitorTypeOK, MonInv
<1> QED BY <1>1, MonitorInvariance, PTL

\* Whatever closes, and in whatever order, monitor_close() leaves the clients that
\* remain in the first slots of the table, each of them once and watched: none is
\* lost, and none that is gone is polled.
THEOREM ClientsKept == ~FailsInCommand => (MonitorSpec => []NoClientLost)
PROOF
<1>1. MonInv => NoClientLost
  BY CountIsCardinality, ZenonT(60) DEF MonInv, NoClientLost, Good, Fds, Used
<1> QED BY <1>1, MonitorInvariance, PTL

\* What a client has asked for and the command it is sending move with it, also
\* while monitor_tell_clients() closes others on its way through the table, and
\* every client that monitors an event and can be written to is told of it once.
THEOREM ContextsFollow == ~FailsInCommand => (MonitorSpec => ContextFollows)
PROOF
<1> SUFFICES ASSUME ~FailsInCommand PROVE MonitorSpec => ContextFollows
  BY ZenonT(60)
<1>1. MonInv /\ MonitorNext => KeptApart /\ (served' = NoClient => ToldOnce)
  BY MonitorStep, ZenonT(60)
<1>2. MonInv /\ [MonitorNext]_monitorVars => [KeptApart /\ (served' = NoClient => ToldOnce)]_monitorVars
  BY <1>1, ZenonT(60)
<1>3. MonitorSpec => []MonInv
  BY MonitorInvariance, ZenonT(60)
<1> QED BY <1>2, <1>3, PTL DEF MonitorSpec, ContextFollows
=============================================================================

---------------------------- MODULE MdpBindings -----------------------------
(***************************************************************************)
(* The port bindings of the Mesh Datagram Protocol (overlay_mdp.c): local  *)
(* clients, known to the daemon by the path of their unix socket, bind     *)
(* ports of local identities, send frames from them and are given the      *)
(* frames that arrive for them.  Encryption, signing and the queueing of a *)
(* frame for the mesh decide nothing here and are left out.                *)
(***************************************************************************)
EXTENDS Integers, Sequences

CONSTANTS
    MdpClient,       \* local client processes
    Path,         \* Path[c]: the bytes of the path of c's socket, its NUL included
    Subscriber,   \* the local identities
    AnySid,          \* NULL: the binding for all of them, or a broadcast destination
    Port,         \* ports that clients use
    MaxBindings   \* MDP_MAX_BINDINGS

ASSUME MdpAssumption ==
    /\ Path \in [MdpClient -> Seq(Nat)]
    /\ \A c, d \in MdpClient : Path[c] = Path[d] => c = d
    /\ \A c \in MdpClient : \A k \in 1..Len(Path[c]) : Path[c][k] = 0 => k = Len(Path[c])
    /\ AnySid \notin Subscriber
    /\ Port \subseteq Nat \ {0}
    /\ MaxBindings \in Nat \ {0}

VARIABLES
    mdp_bindings,  \* the table of bindings; port 0 marks a free slot
    socket,        \* the state of each client's socket
    event          \* the datagram handled last, and what came of it

bindingsVars == <<mdp_bindings, socket, event>>

Slot == 1..MaxBindings
Address == Subscriber \cup {AnySid}

FreeSlot == [port |-> 0, subscriber |-> AnySid, socket_name |-> <<>>]

\* A client that ends well unlinks its socket; one that is killed leaves the
\* file behind.
SocketState == {"open", "unlinked", "orphaned"}

Event == [op : {"none", "bind", "goodbye", "tx", "frame"},
          client : MdpClient \cup {AnySid}, subscriber : Address, port : Port \cup {0},
          force : BOOLEAN, result : {"none", "ok", "error"}, to : Slot \cup {0}]

Handled(op, c, s, port, force, result, to) ==
    [op |-> op, client |-> c, subscriber |-> s, port |-> port, force |-> force,
     result |-> result, to |-> to]
NoEvent == Handled("none", AnySid, AnySid, 0, FALSE, "none", 0)

BindingsInit ==
    /\ mdp_bindings = [i \in Slot |-> FreeSlot]
    /\ socket = [c \in MdpClient |-> "unlinked"]
    /\ event = NoEvent

-----------------------------------------------------------------------------
(* Comparing socket names                                                   *)

\* The length recvfrom() gives for the address of c: its path and sun_family.
RecvAddrLen(c) == Len(Path[c]) + 2

\* name_len = len, and memcmp() finds the first len bytes of the zeroed receive
\* buffer, from sun_path on, equal to the stored name.
SameName(name, path, len) ==
    /\ Len(name) = len
    /\ \A i \in 1..len : name[i] = IF i <= Len(path) THEN path[i] ELSE 0

\* The client a binding belongs to.
Owns(c, i) == mdp_bindings[i].port # 0 /\ mdp_bindings[i].socket_name = Path[c]

\* overlay_mdp_releasebindings()
Released(path, len) ==
    [i \in Slot |-> IF SameName(mdp_bindings[i].socket_name, path, len)
                    THEN [mdp_bindings[i] EXCEPT !.port = 0] ELSE mdp_bindings[i]]

-----------------------------------------------------------------------------
(* overlay_mdp_poll(): MDP_BIND and MDP_GOODBYE                             *)

\* Mutant: the search stops at the first free slot, before a duplicate is seen.
DuplicateUpToFree(s, port) ==
    {i \in Slot : /\ mdp_bindings[i].port = port /\ mdp_bindings[i].subscriber = s
                  /\ \A j \in 1..i : mdp_bindings[j].port # 0}

\* The slots that bind this port of this identity.
Duplicate(s, port) ==
    {i \in Slot : mdp_bindings[i].port = port /\ mdp_bindings[i].subscriber = s}

Free == {i \in Slot : mdp_bindings[i].port = 0}

First(S) == {i \in S : \A j \in S : i <= j}

\* Mutant: any slot may be picked, free or not.
SlotToUseRandom(s, port) ==
    IF Duplicate(s, port) # {} THEN First(Duplicate(s, port)) ELSE Slot

\* The slot a new binding goes to: the one it steals, else the first free one,
\* else one at random.
SlotToUse(s, port) ==
    IF Duplicate(s, port) # {} THEN First(Duplicate(s, port))
    ELSE IF Free # {} THEN First(Free) ELSE Slot

\* overlay_mdp_process_bind_request(), and the reply to the client
Bind(c, s, port, force) ==
    LET held == First(Duplicate(s, port))
        identical == \E i \in held :
            SameName(mdp_bindings[i].socket_name, Path[c], RecvAddrLen(c))
        refused == held # {} /\ ~identical /\ ~force
    IN
    /\ socket[c] = "open"
    /\ IF identical \/ refused
       THEN UNCHANGED mdp_bindings
       ELSE \E i \in SlotToUse(s, port) :
              mdp_bindings' = [mdp_bindings EXCEPT ![i] =
                  [port |-> port, subscriber |-> s, socket_name |-> Path[c]]]
    /\ event' = Handled("bind", c, s, port, force, IF refused THEN "error" ELSE "ok", 0)
    /\ UNCHANGED socket

\* overlay_mdp_client_done() sends MDP_GOODBYE, unlinks and closes the socket.
Goodbye(c) ==
    /\ socket[c] = "open"
    /\ mdp_bindings' = Released(Path[c], RecvAddrLen(c))
    /\ socket' = [socket EXCEPT ![c] = "unlinked"]
    /\ event' = Handled("goodbye", c, AnySid, 0, FALSE, "none", 0)

-----------------------------------------------------------------------------
(* Frames                                                                   *)

\* overlay_saw_mdp_frame(): the first exact match, else the last binding for
\* all identities.  A broadcast goes to the first binding of the port.
Match(d, port) ==
    LET ofPort == {i \in Slot : mdp_bindings[i].port = port}
        exact  == {i \in ofPort : d = AnySid \/ mdp_bindings[i].subscriber = d}
        any    == {i \in ofPort : mdp_bindings[i].subscriber = AnySid}
    IN IF exact # {} THEN First(exact) ELSE {i \in any : \A j \in any : j <= i}

\* The frame is sent to the socket of the binding.  ENOENT, when the socket has
\* been unlinked, drops every binding of that name; other errors drop none.
\* Without a binding the daemon's own services see the frame.
Deliver(d, port) ==
    LET gone == {i \in Match(d, port) : \A c \in MdpClient :
                     Path[c] = mdp_bindings[i].socket_name => socket[c] = "unlinked"}
    IN mdp_bindings' = [j \in Slot |->
          IF \E i \in gone : SameName(mdp_bindings[j].socket_name, mdp_bindings[i].socket_name,
                                      Len(mdp_bindings[i].socket_name))
          THEN [mdp_bindings[j] EXCEPT !.port = 0] ELSE mdp_bindings[j]]

DeliveredTo(d, port) == IF Match(d, port) = {} THEN 0 ELSE CHOOSE i \in Match(d, port) : TRUE

\* overlay_saw_mdp_containing_frame(): a frame for d arrives from the mesh.
Receive(d, port) ==
    /\ Deliver(d, port)
    /\ event' = Handled("frame", AnySid, d, port, FALSE, "none", DeliveredTo(d, port))
    /\ UNCHANGED socket

\* overlay_mdp_check_binding(), for a frame from a client
CheckBinding(c, s, port) ==
    \E i \in Slot :
        /\ mdp_bindings[i].port = port
        /\ mdp_bindings[i].subscriber \in {AnySid, s}
        /\ SameName(mdp_bindings[i].socket_name, Path[c], RecvAddrLen(c) - 2)

\* overlay_mdp_dispatch(), MDP_TX of client c from s:port to a local identity
\* or to all nodes, which the daemon also delivers itself.
TxLocal(c, s, port, d, dport) ==
    /\ socket[c] = "open"
    /\ CheckBinding(c, s, port)
    /\ Deliver(d, dport)
    /\ event' = Handled("tx", c, s, port, FALSE, "ok", DeliveredTo(d, dport))
    /\ UNCHANGED socket

\* The same, to another node or refused: "you must bind to a source address".
TxAway(c, s, port) ==
    /\ socket[c] = "open"
    /\ event' = Handled("tx", c, s, port, FALSE,
                         IF CheckBinding(c, s, port) THEN "ok" ELSE "error", 0)
    /\ UNCHANGED <<mdp_bindings, socket>>

-----------------------------------------------------------------------------
(* The life of a client                                                     *)

\* overlay_mdp_client_init(): a process uses the same path each time.
ClientInit(c) ==
    /\ socket[c] = "unlinked"
    /\ socket' = [socket EXCEPT ![c] = "open"]
    /\ event' = NoEvent
    /\ UNCHANGED mdp_bindings

Killed(c) ==
    /\ socket[c] = "open"
    /\ socket' = [socket EXCEPT ![c] = "orphaned"]
    /\ event' = NoEvent
    /\ UNCHANGED mdp_bindings

BindingsNext ==
    \/ \E c \in MdpClient : ClientInit(c) \/ Goodbye(c) \/ Killed(c)
    \/ \E c \in MdpClient, s \in Address, port \in Port, force \in BOOLEAN :
          Bind(c, s, port, force)
    \/ \E c \in MdpClient, s \in Subscriber, port \in Port :
          \/ TxAway(c, s, port)
          \/ \E d \in Address, dport \in Port : TxLocal(c, s, port, d, dport)
    \/ \E d \in Address, port \in Port : Receive(d, port)

BindingsSpec == BindingsInit /\ [][BindingsNext]_bindingsVars

-----------------------------------------------------------------------------
(* Properties                                                               *)

BindingsTypeOK ==
    /\ mdp_bindings \in [Slot -> [port : Port \cup {0}, subscriber : Address,
                                  socket_name : Seq(Nat)]]
    /\ socket \in [MdpClient -> SocketState]
    /\ event \in Event

\* No port of an identity is bound twice, whatever is freed, stolen or evicted
\* in between (the search for a duplicate in overlay_mdp_process_bind_request()).
UniqueBinding ==
    \A i, j \in Slot :
        /\ mdp_bindings[i].port = mdp_bindings[j].port
        /\ mdp_bindings[i].subscriber = mdp_bindings[j].subscriber
        /\ mdp_bindings[i].port # 0
        => i = j

\* While there is a free slot, nothing but its own goodbye or an MDP_FORCE of
\* that very port takes a binding from a client whose socket is open.
KeepsBinding ==
    [][\A c \in MdpClient, i \in Slot :
          socket[c] = "open" /\ Owns(c, i) /\ Free # {} =>
             \/ Owns(c, i)' /\ mdp_bindings'[i] = mdp_bindings[i]
             \/ event'.op = "goodbye" /\ event'.client = c
             \/ /\ event'.op = "bind" /\ event'.force
                /\ event'.port = mdp_bindings[i].port
                /\ event'.subscriber = mdp_bindings[i].subscriber]_bindingsVars
=============================================================================

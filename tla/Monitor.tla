------------------------------ MODULE Monitor -------------------------------
(***************************************************************************)
(* The monitor interface (monitor.c): the table of connected clients, what *)
(* each has asked to be told, the commands they send, and the telling of   *)
(* events, which can close clients and move others within the table while  *)
(* a command of one of them is being handled.  How bytes become commands   *)
(* is modelled in MonitorParser.                                           *)
(***************************************************************************)
EXTENDS Integers, FiniteSets

CONSTANTS
    Client,      \* clients that connect
    NoClient,    \* a slot whose descriptor is -1
    Flag,        \* what can be monitored: MONITOR_VOMP and the others
    AudioCodec,       \* audio codecs
    ClientCommand,     \* the commands that clients send
    FailsInCommand, \* whether a write can fail while a command is handled
    MaxSockets   \* MAX_MONITOR_SOCKETS

ASSUME MonitorAssumption ==
    /\ NoClient \notin Client
    /\ "vomp" \in Flag
    /\ ClientCommand \subseteq [op : {"monitor", "ignore", "call"}, flag : Flag, codecs : SUBSET AudioCodec]
    /\ FailsInCommand \in BOOLEAN
    /\ MaxSockets \in Nat \ {0}

VARIABLES
    mon,    \* the table of clients, and whom the last event was told
    open,   \* clients whose connection the daemon has not closed
    served   \* the client whose command or data was handled in the last step

monitorVars == <<mon, open, served>>

SocketSlot == 0..MaxSockets - 1

NoCommand == [op |-> "none"]

\* struct monitor_context.  "command" is the line read, while the binary data
\* that goes with it is awaited.
Context == [fd : Client \cup {NoClient}, watched : BOOLEAN, flags : SUBSET Flag,
            codecs : SUBSET AudioCodec, state : {"COMMAND", "DATA"},
            command : ClientCommand \cup {NoCommand}]

Unused == [fd |-> NoClient, watched |-> FALSE, flags |-> {}, codecs |-> {},
           state |-> "COMMAND", command |-> NoCommand]

MonitorInit ==
    /\ mon = [count |-> 0, sockets |-> [i \in SocketSlot |-> Unused], told |-> [c \in Client |-> 0]]
    /\ open = {}
    /\ served = NoClient

-----------------------------------------------------------------------------
(* Operations on the table                                                  *)

\* Mutant: the last client is not moved into the slot that becomes free.
MonitorCloseNoMove(t, i) ==
    IF t.count <= 0 THEN [t EXCEPT !.count = -1]
    ELSE [t EXCEPT !.count = t.count - 1,
                   !.sockets[i] = [@ EXCEPT !.fd = NoClient, !.watched = FALSE]]

\* monitor_close(): the descriptor is closed and the last client of the table is
\* moved into the slot; the slot it leaves keeps its contents.
MonitorClose(t, i) ==
    LET last == t.count - 1
        closed == [t.sockets EXCEPT ![i].fd = NoClient, ![i].watched = FALSE]
    IN IF last < 0 THEN [t EXCEPT !.count = -1]
       ELSE [t EXCEPT !.count = last,
               !.sockets = IF last = i THEN closed
                           ELSE [closed EXCEPT ![i] = [closed[last] EXCEPT !.watched = TRUE],
                                               ![last].watched = FALSE]]

\* Writing a message to slot i, when a client in "dead" cannot be written to.
TellSlot(t, i, mask, dead) ==
    LET c == t.sockets[i].fd
    IN IF mask \notin t.sockets[i].flags THEN t
       ELSE IF c \in dead \cup {NoClient} THEN MonitorClose(t, i)
       ELSE [t EXCEPT !.told[c] = @ + 1]

\* Mutant: the table is walked from its first slot up.
TellClientsUpward(t, mask, dead) ==
    LET walk[i \in -1..MaxSockets - 1] ==
          IF i = -1 THEN t
          ELSE IF i < walk[i - 1].count THEN TellSlot(walk[i - 1], i, mask, dead)
          ELSE walk[i - 1]
    IN walk[MaxSockets - 1]

\* monitor_tell_clients() and monitor_announce_bundle(): from the last slot down
TellClients(t, mask, dead) ==
    LET walk[i \in 0..MaxSockets] ==
          IF i >= t.count THEN t ELSE TellSlot(walk[i + 1], i, mask, dead)
    IN walk[0]

\* The clients still in the table of those that were open.
InTable(t) == {t.sockets[i].fd : i \in 0..t.count - 1} \ {NoClient}

Untold(t) == [t EXCEPT !.told = [c \in Client |-> 0]]

-----------------------------------------------------------------------------
(* Connections                                                              *)

\* Mutant: the number of clients is not checked.
NewClientUnchecked(c) ==
    /\ c \notin open
    /\ mon' = [Untold(mon) EXCEPT !.count = @ + 1,
                  !.sockets[mon.count].fd = c, !.sockets[mon.count].watched = TRUE,
                  !.sockets[mon.count].state = "COMMAND"]
    /\ open' = open \cup {c}
    /\ served' = c

\* monitor_new_client(): the slot's descriptor and parser state are set.
monitor_new_client(c) ==
    /\ c \notin open
    /\ mon.count \in SocketSlot
    /\ mon' = [Untold(mon) EXCEPT !.count = @ + 1,
                  !.sockets[mon.count].fd = c, !.sockets[mon.count].watched = TRUE,
                  !.sockets[mon.count].state = "COMMAND"]
    /\ open' = open \cup {c}
    /\ served' = c

\* "CLOSE:All sockets busy"
Busy(c) ==
    /\ c \notin open
    /\ mon.count \notin SocketSlot
    /\ mon' = Untold(mon)
    /\ served' = c
    /\ UNCHANGED open

\* monitor_client_poll() is called for what is watched.
Polled(i) == i \in SocketSlot /\ mon.sockets[i].watched

\* End of file or an error: the client is closed.
Disconnect(i) ==
    /\ Polled(i)
    /\ mon' = MonitorClose(Untold(mon), i)
    /\ open' = open \ {mon.sockets[i].fd}
    /\ served' = mon.sockets[i].fd

-----------------------------------------------------------------------------
(* monitor_client_poll()                                                    *)

\* A whole line is read, but not all the data that goes with it.
ReadLine(i) ==
    /\ Polled(i) /\ mon.sockets[i].state = "COMMAND"
    /\ \E cmd \in ClientCommand :
         mon' = [Untold(mon) EXCEPT !.sockets[i].state = "DATA", !.sockets[i].command = cmd]
    /\ served' = mon.sockets[i].fd
    /\ UNCHANGED open

\* monitor_process_command(): monitor_set(), monitor_clear(), or one of the
\* commands about calls, which tell every client of MONITOR_VOMP.
ProcessCommand(t, i, cmd, dead) ==
    CASE cmd.op = "monitor" -> [t EXCEPT !.sockets[i].flags = @ \cup {cmd.flag},
                                  !.sockets[i].codecs = IF cmd.flag = "vomp"
                                                        THEN @ \cup cmd.codecs ELSE @]
      [] cmd.op = "ignore"  -> [t EXCEPT !.sockets[i].flags = @ \ {cmd.flag}]
      [] cmd.op = "call"    -> TellClients(t, "vomp", dead)

\* "reset parsing state", in the slot the client was in when it was polled
ResetParsing(t, i) ==
    [t EXCEPT !.sockets[i].state = "COMMAND", !.sockets[i].command = NoCommand]

\* A command is complete: it is handled, the parser is reset, and the client is
\* closed if it has hung up.
Complete(i, cmd, dead, hup) ==
    LET c == mon.sockets[i].fd
        t == ResetParsing(ProcessCommand(Untold(mon), i, cmd, dead), i)
    IN
    /\ Polled(i)
    /\ IF mon.sockets[i].state = "DATA" THEN cmd = mon.sockets[i].command ELSE cmd \in ClientCommand
    /\ mon' = IF hup THEN MonitorClose(t, i) ELSE t
    /\ open' = open \ ((InTable(mon) \ InTable(t)) \cup
                       (IF hup THEN {t.sockets[i].fd} ELSE {}))
    /\ served' = c

\* The rest of the daemon announces a peer, a bundle or the state of a call.
Announce(mask, dead) ==
    /\ mon' = TellClients(Untold(mon), mask, dead)
    /\ open' = open \ (InTable(mon) \ InTable(mon'))
    /\ served' = NoClient

MonitorNext ==
    \/ \E c \in Client : monitor_new_client(c) \/ Busy(c)
    \/ \E i \in SocketSlot :
         \/ Disconnect(i) \/ ReadLine(i)
         \/ \E cmd \in ClientCommand, hup \in BOOLEAN,
              dead \in IF FailsInCommand THEN SUBSET open ELSE {{}} : Complete(i, cmd, dead, hup)
    \/ \E mask \in Flag, dead \in SUBSET open : Announce(mask, dead)

MonitorSpec == MonitorInit /\ [][MonitorNext]_monitorVars

-----------------------------------------------------------------------------
(* Properties                                                               *)

MonitorTypeOK ==
    /\ mon \in [count : -1..MaxSockets, sockets : [SocketSlot -> Context], told : [Client -> 0..1]]
    /\ open \in SUBSET Client
    /\ served \in Client \cup {NoClient}

\* The clients in use are the first ones of the table, each once, and exactly
\* they are watched: whatever closes, no client is lost (monitor_close()).
NoClientLost ==
    /\ mon.count = Cardinality(open)
    /\ {mon.sockets[i].fd : i \in 0..mon.count - 1} = open
    /\ \A i \in SocketSlot : mon.sockets[i].watched <=> i < mon.count

ContextOf(c) == mon.sockets[CHOOSE i \in 0..mon.count - 1 : mon.sockets[i].fd = c]

KeptApart ==
    \A c \in InTable(mon) \cap InTable(mon') : c # served' => ContextOf(c)' = ContextOf(c)

ToldOnce ==
    \E mask \in Flag, dead \in SUBSET open :
       /\ open' = open \ {c \in dead : mask \in ContextOf(c).flags}
       /\ \A c \in open :
            mon'.told[c] = IF c \notin dead /\ mask \in ContextOf(c).flags THEN 1 ELSE 0

\* monitor_close() moves the last client into the place of the one that goes, also
\* while monitor_tell_clients() goes over the table.  What a client asked for and
\* the command it is sending follow it: a step that handles another client changes
\* neither.  And an event is told once to every client that monitors it and can be
\* written to, although the clients that cannot are closed on the way.
ContextFollows == [][KeptApart /\ (served' = NoClient => ToldOnce)]_monitorVars
=============================================================================

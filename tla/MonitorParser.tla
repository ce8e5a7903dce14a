--------------------------- MODULE MonitorParser ----------------------------
(***************************************************************************)
(* How monitor_client_poll() (monitor.c) turns the bytes of one connection *)
(* into commands: a line, and before it, after a "*" and up to a ":", the  *)
(* number of bytes of binary data that follow the line.  The bytes arrive  *)
(* in pieces, and the socket is read without blocking.                     *)
(***************************************************************************)
EXTENDS Integers, Sequences, SequencesExt

CONSTANTS
    Message,     \* the commands a client sends: a line and its data
    Pieces,      \* whether a command may arrive in pieces, or only as a whole
    MaxSent,     \* bound: the number of commands sent on a connection
    MaxLine,     \* MONITOR_LINE_LENGTH
    MaxData      \* MONITOR_DATA_SIZE

Digit == <<"1", "2", "3">>
NUL == "NUL"

\* What the client writes.
Wire(m) ==
    (IF m.data = <<>> THEN <<>> ELSE <<"*", Digit[Len(m.data)], ":">>)
        \o m.line \o <<"\n">> \o m.data

ASSUME ParserAssumption ==
    /\ Message \subseteq [line : Seq(STRING), data : Seq(STRING)]
    /\ \A m \in Message : Len(m.data) <= MaxData /\ MaxData <= Len(Digit)
    /\ Pieces \in BOOLEAN
    /\ MaxSent \in Nat /\ MaxLine \in Nat

VARIABLES
    c,        \* the context of the connection
    arrived,   \* bytes that have arrived and are not yet read
    coming,   \* bytes that the client has written and that have not arrived
    hup,      \* whether the client has closed its end
    sent,     \* the commands the client has sent
    handled   \* the commands that have been handled

parserVars == <<c, arrived, coming, hup, sent, handled>>

\* Static memory.  A byte written to line[-1] or to buffer[-1] falls into the
\* field before it: supported_codecs, which is no matter here, or state.
Zeroed == [line |-> [i \in -1..MaxLine |-> NUL], line_length |-> 0, state |-> "COMMAND",
           buffer |-> [i \in -1..MaxData |-> NUL], data_expected |-> 0, data_offset |-> 0]

ParserInit ==
    /\ c = Zeroed
    /\ arrived = <<>> /\ coming = <<>> /\ hup = FALSE
    /\ sent = <<>> /\ handled = <<>>

-----------------------------------------------------------------------------
(* The client                                                               *)

Send(m) ==
    /\ ~hup /\ c.state # "CLOSED"
    /\ Len(sent) < MaxSent
    /\ coming' = coming \o Wire(m)
    /\ sent' = Append(sent, m)
    /\ UNCHANGED <<c, arrived, hup, handled>>

\* Bytes arrive: any number of them, or all that have been written.
Arrive ==
    /\ \E n \in 1..Len(coming) :
         /\ Pieces \/ n = Len(coming)
         /\ arrived' = arrived \o SubSeq(coming, 1, n)
         /\ coming' = SubSeq(coming, n + 1, Len(coming))
    /\ UNCHANGED <<c, hup, sent, handled>>

\* The client closes its end once everything has arrived.
HangUp ==
    /\ ~hup /\ coming = <<>> /\ c.state # "CLOSED"
    /\ hup' = TRUE
    /\ UNCHANGED <<c, arrived, coming, sent, handled>>

-----------------------------------------------------------------------------
(* Reading a line                                                           *)

\* atoi(line + 1), of the one digit these lengths have
Atoi(line) ==
    IF \E d \in 1..Len(Digit) : line[1] = Digit[d]
    THEN CHOOSE d \in 1..Len(Digit) : line[1] = Digit[d] ELSE 0

\* Mutant: the line after the length is read from its second byte on.
ExamineFromSecond(x, bytes) ==
    LET n == x.line_length
    IN CASE x.line[n] = "\r" -> x
         [] x.data_expected = 0 /\ x.line[0] = "*" /\ x.line[n] = ":" ->
              [x EXCEPT !.line[n] = NUL, !.line_length = 1,
                        !.data_expected = Atoi([x.line EXCEPT ![n] = NUL])]
         [] x.line[n] = "\n" ->
              [x EXCEPT !.line[n] = NUL, !.state = "DATA", !.data_offset = 0]
         [] OTHER -> [x EXCEPT !.line_length = n + bytes]

\* What the loop does with line[line_length] after a read that returned
\* "bytes", which is 1 for a byte read and -1 for EAGAIN.
Examine(x, bytes) ==
    LET n == x.line_length
    IN CASE x.line[n] = "\r" -> x
         [] x.data_expected = 0 /\ x.line[0] = "*" /\ x.line[n] = ":" ->
              [x EXCEPT !.line[n] = NUL, !.line_length = 0,
                        !.data_expected = Atoi([x.line EXCEPT ![n] = NUL])]
         [] x.line[n] = "\n" ->
              [x EXCEPT !.line[n] = NUL, !.state = "DATA", !.data_offset = 0]
         [] OTHER -> [x EXCEPT !.line_length = n + bytes]

\* The loop over the bytes that have arrived, until the line ends or is too
\* long: the context, and the number of bytes read.
TakeByte(r, byte) ==
    CASE r.x.state # "COMMAND"         -> r
      [] r.x.line_length >= MaxLine    -> [r EXCEPT !.x.state = "CLOSED"]
      [] OTHER -> [x    |-> Examine([r.x EXCEPT !.line[r.x.line_length] = byte], 1),
                   read |-> r.read + 1]

Reading == FoldLeft(TakeByte, [x |-> c, read |-> 0], arrived)

\* What comes after the last byte: a read at the end of the file closes the
\* client, and one that would block is EAGAIN.
AfterLine(x) ==
    CASE x.state # "COMMAND"       -> x
      [] x.line_length >= MaxLine  -> [x EXCEPT !.state = "CLOSED"]
      [] hup                       -> [x EXCEPT !.state = "CLOSED"]
      [] OTHER                     -> Examine(x, -1)

-----------------------------------------------------------------------------
(* Reading the data                                                         *)

Wanted(x) == x.data_expected - x.data_offset

\* One read of up to Wanted(x) bytes of "avail" into the buffer.  A byte other
\* than zero that lands before the buffer makes the state an illegal one.
ReadData(x, avail) ==
    LET bytes == IF Len(avail) < Wanted(x) THEN Len(avail) ELSE Wanted(x)
    IN CASE Wanted(x) <= 0         -> x
         [] bytes = 0 /\ hup       -> [x EXCEPT !.state = "CLOSED"]
         [] bytes = 0 /\ ~hup      -> [x EXCEPT !.data_offset = @ - 1]
         [] OTHER -> [x EXCEPT !.data_offset = @ + bytes,
                        !.state = IF x.data_offset < 0 THEN "ILLEGAL" ELSE @,
                        !.buffer = [i \in DOMAIN @ |->
                            IF i \in x.data_offset..x.data_offset + bytes - 1
                            THEN avail[i - x.data_offset + 1] ELSE @[i]]]

DataBytes(x, avail) ==
    IF Wanted(x) <= 0 THEN 0
    ELSE IF Len(avail) < Wanted(x) THEN Len(avail) ELSE Wanted(x)

\* The command as monitor_process_command() sees it: the line up to its NUL.
Command(x) ==
    LET end == CHOOSE n \in 0..MaxLine : x.line[n] = NUL /\ \A k \in 0..n - 1 : x.line[k] # NUL
    IN [line |-> [i \in 1..end |-> x.line[i - 1]],
        data |-> [i \in 1..x.data_expected |-> x.buffer[i - 1]]]

\* "reset parsing state"
Reset(x) ==
    [x EXCEPT !.state = "COMMAND", !.data_expected = 0, !.data_offset = 0, !.line_length = 0]

-----------------------------------------------------------------------------
Closed(x) == IF hup THEN [x EXCEPT !.state = "CLOSED"] ELSE x

\* monitor_client_poll(), called while there is something to read or the client
\* has hung up: at most one command is handled, and a client that has hung up is
\* closed after it.
Poll ==
    LET r    == Reading
        l    == AfterLine(r.x)
        rest == SubSeq(arrived, r.read + 1, Len(arrived))
        d    == ReadData(l, rest)
        left == SubSeq(rest, DataBytes(l, rest) + 1, Len(rest))
    IN
    /\ c.state # "CLOSED"
    /\ arrived # <<>> \/ hup
    /\ \/ /\ l.state \in {"COMMAND", "CLOSED"}
          /\ c' = Closed(l)
          /\ arrived' = rest
          /\ UNCHANGED handled
       \/ /\ l.state = "DATA" /\ (d.state = "CLOSED" \/ d.data_offset < d.data_expected)
          /\ c' = Closed(d)
          /\ arrived' = left
          /\ UNCHANGED handled
       \/ /\ l.state = "DATA" /\ d.state # "CLOSED" /\ d.data_offset >= d.data_expected
          /\ handled' = Append(handled, Command(d))
          /\ c' = Closed(Reset(d))
          /\ arrived' = left
       \/ /\ l.state = "ILLEGAL"
          /\ c' = Closed(Reset(l))
          /\ UNCHANGED <<arrived, handled>>
    /\ UNCHANGED <<coming, hup, sent>>

\* monitor_new_client(), for the next client in the same slot
NewClient ==
    /\ c.state = "CLOSED"
    /\ c' = [c EXCEPT !.state = "COMMAND", !.line_length = 0]
    /\ arrived' = <<>> /\ coming' = <<>> /\ hup' = FALSE
    /\ sent' = <<>> /\ handled' = <<>>

ParserNext == (\E m \in Message : Send(m)) \/ Arrive \/ HangUp \/ Poll \/ NewClient

ParserSpec == ParserInit /\ [][ParserNext]_parserVars

-----------------------------------------------------------------------------
(* Properties                                                               *)

ParserTypeOK ==
    /\ c.line_length \in -1..MaxLine
    /\ c.state \in {"COMMAND", "DATA", "ILLEGAL", "CLOSED"}
    /\ c.data_expected \in 0..MaxData
    /\ c.data_offset \in -1..MaxData
    /\ Len(sent) <= MaxSent

\* The commands handled are the ones sent, each with its line and its data, in
\* order ("we have the next command and all of the binary data we were
\* expecting").
HandledAsSent == IsPrefix(handled, sent)
=============================================================================

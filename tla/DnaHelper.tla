----------------------------- MODULE DnaHelper -----------------------------
(***************************************************************************)
(* The DNA helper (dna_helper.c): an external program that servald starts, *)
(* to which it passes requests to resolve a telephone number through one   *)
(* pipe, and whose replies it reads from another.  One request is under    *)
(* way at a time.  The helper may be slow, may write what was not asked    *)
(* for, and may die at any moment; servald terminates it when it does not  *)
(* answer in time, waits for its death, pauses, and starts another.        *)
(*                                                                         *)
(* A line of the helper is read whole: the buffer that puts it together    *)
(* is not modelled.  Requests are shorter than PIPE_BUF, so that a write   *)
(* to the pipe takes all of one or nothing.                                *)
(***************************************************************************)
EXTENDS Naturals, Sequences

CONSTANTS
    Request,     \* requests: the subscriber that asks, and the number
    Long,        \* those that do not fit in request_buffer
    EarlyDeath,  \* whether a helper can fail before it has said STARTED
    MaxLines,    \* how many lines a pipe holds
    NoRequest

ASSUME DnaAssumption ==
    /\ Long \subseteq Request
    /\ EarlyDeath \in BOOLEAN
    /\ MaxLines \in Nat \ {0}
    /\ NoRequest \notin Request

VARIABLES
    h,        \* the variables of dna_helper.c
    helper,   \* the helper process and its pipes
    replied   \* the last reply that was passed on: to which request, from which

dnaVars == <<h, helper, replied>>

\* What the helper writes: lines that are not about a request, and replies.
Line == {"STARTED", "DONE", "other"} \cup Request

\* dna_helper_pid is "none" for -1, "off" for 0, and "some" for a process;
\* dna_helper_stdin, stdout and stderr say whether they are open; "request" is
\* request_buffer, and "unsent" that request_bufptr points to it.  "term" says
\* that the helper has been sent SIGTERM, and "over" that servald has ended.
Started ==
    [pid |-> "some", stdin |-> TRUE, stdout |-> TRUE, stderr |-> TRUE, started |-> FALSE,
     watching |-> FALSE, timeout |-> FALSE, awaiting |-> FALSE, harvester |-> TRUE,
     restart |-> FALSE, request |-> NoRequest, unsent |-> FALSE, term |-> FALSE, over |-> FALSE]

\* The helper is "alive", "dead" until it is waited for, and then "gone".
\* "others" counts the helpers that were left behind when another was started.
NewHelper == [state |-> "alive", ready |-> FALSE, at |-> NoRequest, in |-> <<>>, out |-> <<>>, others |-> 0]

DnaInit ==
    /\ h = Started
    /\ helper = NewHelper
    /\ replied = [to |-> NoRequest, from |-> NoRequest]

-----------------------------------------------------------------------------
(* Starting and stopping the helper                                         *)

\* dna_helper_start(), which leaves the request as it is
Start(s) == [Started EXCEPT !.request = s.request, !.unsent = s.unsent, !.restart = s.restart]

StartHelper == [NewHelper EXCEPT !.others = IF helper.state = "gone" THEN helper.others ELSE helper.others + 1]

\* dna_helper_kill()
Kill(s) ==
    [s EXCEPT !.awaiting = FALSE,
              !.timeout = s.timeout /\ ~s.awaiting,
              !.term = s.term \/ s.pid = "some"]

\* What dna_helper_harvest() does when waitpid() returns the helper
Harvested(s) ==
    [s EXCEPT !.pid = "none", !.harvester = FALSE, !.awaiting = FALSE,
              !.timeout = s.timeout /\ ~s.awaiting]

Harvester ==
    /\ h.harvester
    /\ h.pid = "some" /\ helper.state = "dead"
    /\ h' = [Harvested(h) EXCEPT !.pid = "off", !.restart = TRUE]
    /\ helper' = [helper EXCEPT !.state = "gone"]
    /\ UNCHANGED replied

\* Mutant: the helper is not enabled again.
RestartDelayerForgets ==
    /\ h.restart
    /\ h' = [h EXCEPT !.restart = FALSE]
    /\ UNCHANGED <<helper, replied>>

RestartDelayer ==
    /\ h.restart
    /\ h' = [h EXCEPT !.restart = FALSE, !.pid = IF @ = "off" THEN "none" ELSE @]
    /\ UNCHANGED <<helper, replied>>

\* reply_timeout().  The alarm is taken off the list before it is called.
ReplyTimeout ==
    /\ h.timeout
    /\ h' = IF h.awaiting THEN Kill([h EXCEPT !.timeout = FALSE]) ELSE [h EXCEPT !.timeout = FALSE]
    /\ UNCHANGED <<helper, replied>>

\* dna_helper_shutdown(), when servald ends: it waits until the helper is dead.
Shutdown ==
    /\ ~h.over
    /\ h' = [Harvested(Kill(h)) EXCEPT !.stdin = FALSE, !.stdout = FALSE, !.stderr = FALSE,
               !.watching = FALSE, !.restart = FALSE, !.over = TRUE]
    /\ helper' = [helper EXCEPT !.state = "gone", !.out = <<>>]
    /\ UNCHANGED replied

-----------------------------------------------------------------------------
(* Requests                                                                 *)

\* "Only try to restart a DNA helper process if the previous one is well and
\* truly gone."
Gone(s) == s.pid = "none" /\ ~s.stdin /\ ~s.stdout /\ ~s.stderr

\* The rest of dna_helper_enqueue(), for a helper whose stdin is open
Accepted(s, r) ==
    LET t == IF r \in Long THEN [s EXCEPT !.unsent = FALSE]
             ELSE [s EXCEPT !.request = r, !.unsent = TRUE]
    IN IF s.awaiting THEN s ELSE [t EXCEPT !.watching = s.started \/ @]

\* dna_helper_enqueue().  When the helper cannot be started nothing changes.
Enqueue(r) ==
    /\ ~h.over /\ h.pid # "off"
    /\ \/ Gone(h) /\ h' = Accepted(Start(h), r) /\ helper' = StartHelper
       \/ ~Gone(h) /\ h.stdin /\ h' = Accepted(h, r) /\ UNCHANGED helper
    /\ UNCHANGED replied

\* The process at the other end of the pipes
Alive == helper.state = "alive"

\* monitor_requests(): the reader is gone (poll() tells, or the write does), or
\* the request is written, and is then awaited.
MonitorRequests ==
    /\ h.watching
    /\ \/ /\ ~Alive
          /\ h' = Kill([h EXCEPT !.stdin = FALSE, !.watching = FALSE])
          /\ UNCHANGED helper
       \/ /\ ~Alive /\ h.unsent
          /\ h' = Kill(h)
          /\ UNCHANGED helper
       \/ /\ Alive /\ h.unsent /\ Len(helper.in) < MaxLines
          /\ h' = [h EXCEPT !.unsent = FALSE, !.awaiting = TRUE, !.timeout = TRUE, !.watching = FALSE]
          /\ helper' = [helper EXCEPT !.in = Append(@, h.request)]
       \/ /\ Alive /\ ~h.unsent
          /\ h' = [h EXCEPT !.watching = FALSE]
          /\ UNCHANGED helper
    /\ UNCHANGED replied

-----------------------------------------------------------------------------
(* Replies                                                                  *)

\* Mutant: the token and the number of a reply are not compared.
MatchesAny(s, line) == line \in Request

\* The checks of a reply: its token is request_buffer's, its number request_did
AnswersRequest(s, line) == line \in Request /\ line = s.request

\* handle_reply_line(), on the variables and the reply that is passed on
HandleReplyLine(s, line) ==
    IF ~s.h.started
    THEN IF line = "STARTED"
         THEN [s EXCEPT !.h = [s.h EXCEPT !.started = TRUE, !.watching = @ \/ s.h.unsent]]
         ELSE [s EXCEPT !.h = Kill(s.h)]
    ELSE IF ~s.h.awaiting THEN s
    ELSE IF line = "DONE" THEN [s EXCEPT !.h = [s.h EXCEPT !.awaiting = FALSE, !.timeout = FALSE]]
    ELSE IF AnswersRequest(s.h, line) THEN [s EXCEPT !.replied = [to |-> s.h.request, from |-> line]]
    ELSE s

\* The lines that are in the pipe, one after another
LinesHandled ==
    LET read[n \in 0..Len(helper.out)] ==
          IF n = 0 THEN [h |-> h, replied |-> replied]
          ELSE HandleReplyLine(read[n - 1], helper.out[n])
    IN  read[Len(helper.out)]

\* monitor_replies(): all that is in the pipe is read, and then its end is
\* handled, unless the helper has died since poll() returned.
MonitorReplies ==
    /\ h.stdout
    /\ \E hup \in BOOLEAN :
         /\ hup => ~Alive
         /\ helper.out = <<>> => hup
         /\ h' = IF hup THEN Kill([LinesHandled.h EXCEPT !.stdout = FALSE]) ELSE LinesHandled.h
         /\ replied' = LinesHandled.replied
    /\ helper' = [helper EXCEPT !.out = <<>>]

\* monitor_errors()
MonitorErrors ==
    /\ h.stderr /\ ~Alive
    /\ h' = [h EXCEPT !.stderr = FALSE]
    /\ UNCHANGED <<helper, replied>>

-----------------------------------------------------------------------------
(* The helper                                                               *)

Says(line) == [helper EXCEPT !.out = Append(@, line)]

HelperSays ==
    /\ Alive /\ Len(helper.out) < MaxLines
    /\ \/ /\ ~helper.ready
          /\ \/ helper' = [Says("STARTED") EXCEPT !.ready = TRUE]
             \/ EarlyDeath /\ helper' = Says("other")
       \/ /\ helper.ready /\ helper.at # NoRequest
          /\ \/ helper' = Says(helper.at)
             \/ helper' = Says("other")
             \/ helper' = [Says("DONE") EXCEPT !.at = NoRequest]
    /\ UNCHANGED <<h, replied>>

HelperReads ==
    /\ Alive /\ helper.ready /\ helper.at = NoRequest /\ helper.in # <<>>
    /\ helper' = [helper EXCEPT !.at = Head(helper.in), !.in = Tail(@)]
    /\ UNCHANGED <<h, replied>>

HelperDies ==
    /\ Alive /\ (helper.ready \/ EarlyDeath)
    /\ helper' = [helper EXCEPT !.state = "dead", !.at = NoRequest, !.in = <<>>]
    /\ UNCHANGED <<h, replied>>

-----------------------------------------------------------------------------
Servald == MonitorRequests \/ MonitorReplies \/ MonitorErrors
             \/ Harvester \/ RestartDelayer \/ ReplyTimeout

DnaNext ==
    \/ Servald
    \/ \E r \in Request : Enqueue(r)
    \/ Shutdown
    \/ HelperSays \/ HelperReads \/ HelperDies

DnaSpec == DnaInit /\ [][DnaNext]_dnaVars

-----------------------------------------------------------------------------
(* Properties                                                               *)

DnaTypeOK ==
    /\ h \in [pid : {"none", "off", "some"}, stdin : BOOLEAN, stdout : BOOLEAN, stderr : BOOLEAN,
              started : BOOLEAN, watching : BOOLEAN, timeout : BOOLEAN, awaiting : BOOLEAN,
              harvester : BOOLEAN, restart : BOOLEAN, request : (Request \ Long) \cup {NoRequest},
              unsent : BOOLEAN, term : BOOLEAN, over : BOOLEAN]
    /\ helper.state \in {"alive", "dead", "gone"} /\ helper.ready \in BOOLEAN
    /\ helper.at \in Request \cup {NoRequest} /\ helper.in \in Seq(Request)
    /\ helper.out \in Seq(Line) /\ Len(helper.out) <= MaxLines
    /\ helper.others = 0

\* A reply is passed on only to the request it answers, however late the helper
\* is with the replies to requests that were given up
\* (handle_reply_line(): "contains mismatched token -- ignored").
RepliesReachTheirRequest == replied.to = replied.from

\* While a reply is awaited other requests are dropped, and that comes to an end;
\* and a helper that is gone is started again, as long as requests arrive ("It
\* will be harvested at the next harvester() timeout, and restarted on the first
\* request that arrives after a suitable pause has elapsed.").
HelperRecovers ==
    /\ h.awaiting ~> ~h.awaiting
    /\ (helper.state # "alive") ~> (helper.state = "alive" \/ h.over)
=============================================================================

---------------------------- MODULE SqliteRetry -----------------------------
(***************************************************************************)
(* Waiting for a locked database (rhizome_database.c): one retry variable, *)
(* used for a succession of queries, each of which is prepared and then    *)
(* stepped until it succeeds, fails or is given up.                        *)
(***************************************************************************)
EXTENDS Integers

CONSTANTS
    serverMode,  \* whether this is the server process
    Limit,       \* for how long a busy query is to be retried
    Sleep,       \* the pause between two tries
    MaxBegin,    \* bound: no query begins later, and queries take no time then
    MaxElapsed   \* bound: no query begins with more on the clock of the variable

ASSUME RetryAssumption ==
    /\ serverMode \in BOOLEAN
    /\ Limit \in Nat /\ Sleep \in Nat \ {0} /\ MaxBegin \in Nat /\ MaxElapsed \in Nat

VARIABLES
    retry,   \* sqlite_retry_state
    now,     \* gettime_ms()
    phase,   \* what is being done for the query: "idle" between queries
    first,   \* when a query with this variable was busy first, or -1
    event    \* what the last step was: "again" is a retry, "giveup" is none

retryVars == <<retry, now, phase, first, event>>

\* sqlite_retry_state_init().  Of busytries, it matters whether it is zero.
Fresh == [elapsed |-> 0, start |-> -1, busy |-> FALSE]

RetryInit ==
    /\ retry = Fresh
    /\ now = 0
    /\ phase = "idle" /\ first = -1 /\ event = "none"

-----------------------------------------------------------------------------

\* The first half of _sqlite_retry()
Counted ==
    [elapsed   |-> IF retry.start = -1 THEN retry.elapsed ELSE retry.elapsed + (now - retry.start),
     start     |-> IF retry.start = -1 THEN now ELSE retry.start,
     busy      |-> TRUE]

\* Mutant: the start is forgotten when a try ends.
DoneForgetsStart(r) == [r EXCEPT !.busy = FALSE, !.start = -1]

\* _sqlite_retry_done(), and what _sqlite_retry() does when it gives up
Done(r) ==
    [elapsed |-> r.elapsed, start |-> IF serverMode THEN r.start ELSE -1, busy |-> FALSE]

Begin ==
    /\ phase = "idle" /\ now <= MaxBegin /\ retry.elapsed <= MaxElapsed
    /\ phase' = "prepare" /\ event' = "begin"
    /\ UNCHANGED <<retry, now, first>>

\* sqlite3_prepare_v2() or sqlite3_step() finds the database locked.
Busy ==
    /\ phase # "idle"
    /\ first' = IF first = -1 THEN now ELSE first
    /\ IF Counted.elapsed >= Limit
       THEN /\ retry' = Done(Counted)
            /\ phase' = "idle" /\ event' = "giveup"
            /\ UNCHANGED now
       ELSE /\ retry' = Counted
            /\ now' = now + Sleep
            /\ event' = "again"
            /\ UNCHANGED phase

\* Only _sqlite_step_retry() calls _sqlite_retry_done().
Prepared ==
    /\ phase = "prepare"
    /\ phase' = "step" /\ event' = "ok"
    /\ UNCHANGED <<retry, now, first>>

Stepped ==
    /\ phase = "step"
    /\ retry' = Done(retry)
    /\ phase' = "idle" /\ event' = "ok"
    /\ UNCHANGED <<now, first>>

\* Any other code is an error.
Failed ==
    /\ phase # "idle"
    /\ phase' = "idle" /\ event' = "error"
    /\ UNCHANGED <<retry, now, first>>

\* The caller is done with the variable; the next one makes a new one.
NewCaller ==
    /\ phase = "idle"
    /\ retry' = Fresh /\ now' = 0 /\ first' = -1 /\ event' = "none"
    /\ UNCHANGED phase

\* Queries, and what is between them, take time.
Tick ==
    /\ now < MaxBegin
    /\ now' = now + 1 /\ event' = "tick"
    /\ UNCHANGED <<retry, phase, first>>

RetryNext == Begin \/ Busy \/ Prepared \/ Stepped \/ Failed \/ NewCaller \/ Tick

RetrySpec == RetryInit /\ [][RetryNext]_retryVars

-----------------------------------------------------------------------------
RetryTypeOK ==
    /\ retry \in [elapsed : Nat, start : Nat \cup {-1}, busy : BOOLEAN]
    /\ now \in Nat /\ first \in Nat \cup {-1}
    /\ phase \in {"idle", "prepare", "step"}
    /\ event \in {"none", "begin", "again", "giveup", "ok", "error", "tick"}

\* The server waits once more only while less than the limit has passed since
\* it found the database locked first, in all the queries that share the
\* variable ("the timeout limit will apply to the cumulative latency").
CumulativeLatency == [][serverMode /\ event' = "again" => now - first' < Limit]_retryVars
=============================================================================

--------------------------- MODULE ServerLifecycle ---------------------------
(***************************************************************************)
(* Starting, stopping and watching over servald (server.c, and the start,  *)
(* stop and status commands of commandline.c).  Commands and servers are   *)
(* processes that meet in two files, the pid file and the stop file, and   *)
(* through signals.  Each step of a process is one access to a file, or    *)
(* one system call that another process can observe.                       *)
(***************************************************************************)
EXTENDS Integers, FiniteSets

CONSTANTS
    Pid,          \* process numbers; those of dead processes are used again
    Commands,     \* which of "start", "stop" and "status" are given
    MaxCommands,  \* bound: how many commands are given
    MaxCrashes,   \* bound: how often a server crashes
    Respawn,      \* server.respawn_on_crash
    Torn,         \* whether a pid file can be read before it has been written
    MaxTries      \* how many SIGHUPs a stop sends (5)

ASSUME LifecycleAssumption ==
    /\ Pid \subseteq Nat \ {0}
    /\ Commands \subseteq {"start", "stop", "status"}
    /\ MaxCommands \in Nat /\ MaxCrashes \in Nat /\ MaxTries \in Nat \ {0}
    /\ Respawn \in BOOLEAN /\ Torn \in BOOLEAN

VARIABLES
    pidfile,    \* its contents: a process, NoPidfile, or EmptyFile
    stopfile,   \* whether the stop file exists
    proc,       \* the processes
    given,      \* the number of commands given
    crashes     \* the number of crashes

lifecycleVars == <<pidfile, stopfile, proc, given, crashes>>

NoPidfile == 0
EmptyFile == -1

\* A process: where it is; where server_pid() returns to and what it returned;
\* what its stack holds of an earlier pid; the process a stop is about and the
\* signals sent to it; servalShutdown; and whether a SIGHUP is pending.
Dead == [at |-> "gone", return |-> "gone", saw |-> 0, buf |-> 0,
         target |-> 0, tries |-> 0, foreground |-> FALSE,
         servalShutdown |-> FALSE, hup |-> FALSE]

Lives(p) == proc[p].at # "gone"

\* The processes that are in their main loop, or on a way back to it.
Serving == {p \in Pid : \/ proc[p].at \in {"loop", "compare"}
                        \/ proc[p].at \in {"pid", "unlink"} /\ proc[p].return = "compare"}

LifecycleInit ==
    /\ pidfile = NoPidfile /\ stopfile = FALSE
    /\ proc = [p \in Pid |-> Dead]
    /\ given = 0 /\ crashes = 0

To(p, step) ==
    proc' = [proc EXCEPT ![p] = IF step = "gone" THEN Dead ELSE [proc[p] EXCEPT !.at = step]]

\* Calling server_pid().
Call(p, return) == proc' = [proc EXCEPT ![p].at = "pid", ![p].return = return]

-----------------------------------------------------------------------------
(* server_pid()                                                             *)

\* The file is read and its process looked for.  From a file that is still empty
\* fgets() reads nothing, and atoi() is applied to what the stack holds.
ReadPidfile(p) ==
    /\ proc[p].at = "pid"
    /\ \E n \in IF pidfile = NoPidfile THEN {0}
                ELSE IF pidfile = EmptyFile THEN {-1, proc[p].buf} \ {0}
                ELSE {pidfile} :
         LET found == n \in Pid /\ Lives(n)
         IN proc' = [proc EXCEPT ![p].at  = IF n = 0 \/ found THEN proc[p].return ELSE "unlink",
                                 ![p].saw = IF found THEN n ELSE 0,
                                 ![p].buf = IF n > 0 THEN n ELSE @]
    /\ Torn \/ pidfile # EmptyFile
    /\ UNCHANGED <<pidfile, stopfile, given, crashes>>

\* What a process still has to write goes to a file without a name once the pid
\* file is unlinked.
Unlinked(procs) ==
    [q \in Pid |-> IF procs[q].at = "write" THEN [procs[q] EXCEPT !.at = "lost"] ELSE procs[q]]

\* "Unlinking stale pidfile"
UnlinkStale(p) ==
    /\ proc[p].at = "unlink"
    /\ pidfile' = NoPidfile
    /\ proc' = Unlinked([proc EXCEPT ![p].at = proc[p].return])
    /\ UNCHANGED <<stopfile, given, crashes>>

-----------------------------------------------------------------------------
(* app_server_start() and server()                                          *)

\* "Server already running", unless "the pidfile identifies this process", which
\* is re-spawning.
Decide(p) ==
    /\ proc[p].at = "decide"
    /\ To(p, IF proc[p].saw \in {0, p} THEN "ready" ELSE "gone")
    /\ UNCHANGED <<pidfile, stopfile, given, crashes>>

\* server_remove_stopfile(); then the process becomes the server, or forks one.
Ready(p) ==
    /\ proc[p].at = "ready"
    /\ stopfile' = FALSE
    /\ To(p, IF proc[p].foreground THEN "create" ELSE "fork")
    /\ UNCHANGED <<pidfile, given, crashes>>

\* The grandchild executes "servald start foreground", and the command waits for
\* it to report for duty.
Fork(p) ==
    /\ proc[p].at = "fork"
    /\ \E q \in Pid :
         /\ ~Lives(q)
         /\ proc' = [proc EXCEPT ![p].at = "pid", ![p].return = "await",
                       ![q] = [Dead EXCEPT !.at = "pid", !.return = "decide", !.foreground = TRUE]]
    /\ UNCHANGED <<pidfile, stopfile, given, crashes>>

\* After 200 ms it looks again; after five seconds, or when it sees a server, it
\* ends.
Await(p) ==
    /\ proc[p].at = "await"
    /\ \/ proc[p].saw = 0 /\ Call(p, "await")
       \/ To(p, "gone")
    /\ UNCHANGED <<pidfile, stopfile, given, crashes>>

\* fopen(filename, "w") creates the file or empties it.
CreatePidfile(p) ==
    /\ proc[p].at = "create"
    /\ pidfile' = EmptyFile
    /\ To(p, "write")
    /\ UNCHANGED <<stopfile, given, crashes>>

\* fprintf() and fclose(), and overlayServerMode() begins.
WritePidfile(p) ==
    /\ proc[p].at \in {"write", "lost"}
    /\ pidfile' = IF proc[p].at = "write" THEN p ELSE pidfile
    /\ To(p, "loop")
    /\ UNCHANGED <<stopfile, given, crashes>>

-----------------------------------------------------------------------------
(* The server                                                               *)

\* server_shutdown_check(): with the flag set or the stop file present the server
\* cleans up; otherwise it looks at its pid file.
server_shutdown_check(p) ==
    /\ proc[p].at = "loop" /\ ~proc[p].hup
    /\ IF proc[p].servalShutdown \/ stopfile THEN To(p, "clean") ELSE Call(p, "compare")
    /\ UNCHANGED <<pidfile, stopfile, given, crashes>>

\* Mutant: only a pid file that names another process counts.
CompareOther(p) ==
    /\ proc[p].at = "compare"
    /\ To(p, IF proc[p].saw \in {0, p} THEN "loop" ELSE "gone")
    /\ UNCHANGED <<pidfile, stopfile, given, crashes>>

\* "If this server has been supplanted with another", or its pid file is gone,
\* it shuts down without clean-up.
Compare(p) ==
    /\ proc[p].at = "compare"
    /\ To(p, IF proc[p].saw = p THEN "loop" ELSE "gone")
    /\ UNCHANGED <<pidfile, stopfile, given, crashes>>

\* SIGHUP: signal_handler() of a server calls server_shutdown_check(), which cleans
\* up, or looks at the pid file if it has not done so for a second; then it sets
\* servalShutdown.  A process that has not set up its handlers is killed.
Hangup(p) ==
    /\ proc[p].hup
    /\ \/ /\ proc[p].at = "loop"
          /\ \E step \in IF proc[p].servalShutdown \/ stopfile THEN {"clean"} ELSE {"loop", "pid"} :
               proc' = [proc EXCEPT ![p].hup = FALSE, ![p].servalShutdown = TRUE,
                                    ![p].at = step,
                                    ![p].return = IF step = "pid" THEN "compare" ELSE @]
       \/ /\ \/ ~proc[p].foreground
             \/ proc[p].at \in {"decide", "ready"}
             \/ proc[p].at \in {"pid", "unlink"} /\ proc[p].return = "decide"
          /\ To(p, "gone")
    /\ UNCHANGED <<pidfile, stopfile, given, crashes>>

\* serverCleanUp(): the stop file goes, then the pid file, whosever they are;
\* then the server waits for its DNA helper and exits, and a stop that called it
\* removes the stop file once more.
CleanStopfile(p) ==
    /\ proc[p].at = "clean"
    /\ stopfile' = FALSE
    /\ To(p, "clean pid")
    /\ UNCHANGED <<pidfile, given, crashes>>

CleanPidfile(p) ==
    /\ proc[p].at = "clean pid"
    /\ pidfile' = NoPidfile
    /\ proc' = Unlinked([proc EXCEPT ![p].at = IF proc[p].foreground THEN "exit" ELSE "final"])
    /\ UNCHANGED <<stopfile, given, crashes>>

Exits(p) ==
    /\ proc[p].at = "exit"
    /\ To(p, "gone")
    /\ UNCHANGED <<pidfile, stopfile, given, crashes>>

\* The server is killed and leaves its files, or crash_handler() executes the same
\* process again.
Crash(p) ==
    /\ crashes < MaxCrashes
    /\ p \in Serving
    /\ crashes' = crashes + 1
    /\ \/ To(p, "gone")
       \/ /\ Respawn
          /\ proc' = [proc EXCEPT ![p] =
                [Dead EXCEPT !.at = "pid", !.return = "decide", !.foreground = TRUE]]
    /\ UNCHANGED <<pidfile, stopfile, given>>

-----------------------------------------------------------------------------
(* app_server_stop() and app_server_status()                                *)

\* "Not running, nothing to stop"
Target(p) ==
    /\ proc[p].at = "target"
    /\ IF proc[p].saw = 0 THEN To(p, "gone")
       ELSE proc' = [proc EXCEPT ![p].at = "stopfile", ![p].target = proc[p].saw]
    /\ UNCHANGED <<pidfile, stopfile, given, crashes>>

\* server_create_stopfile()
CreateStopfile(p) ==
    /\ proc[p].at = "stopfile"
    /\ stopfile' = TRUE
    /\ To(p, "kill")
    /\ UNCHANGED <<pidfile, given, crashes>>

\* A process that is gone is cleaned up after, "possibly we are racing with
\* another stop, or servald just died voluntarily".
SendHangup(p) ==
    /\ proc[p].at = "kill"
    /\ LET t == proc[p].target
       IN IF Lives(t) THEN proc' = [proc EXCEPT ![p].at = "pid", ![p].return = "running",
                                                ![p].tries = @ + 1, ![t].hup = TRUE]
          ELSE To(p, "clean")
    /\ UNCHANGED <<pidfile, stopfile, given, crashes>>

\* Mutant: the signals are not counted.
RunningOn(p) ==
    /\ proc[p].at = "running"
    /\ IF proc[p].saw # proc[p].target THEN To(p, "final")
       ELSE Call(p, "running") \/ To(p, "stopfile")
    /\ UNCHANGED <<pidfile, stopfile, given, crashes>>

\* The pid file no longer names the process, or it is looked at again, or two
\* seconds are over and the next signal is sent, if it is not the sixth.
Running(p) ==
    /\ proc[p].at = "running"
    /\ IF proc[p].saw # proc[p].target THEN To(p, "final")
       ELSE \/ Call(p, "running")
            \/ To(p, IF proc[p].tries < MaxTries THEN "stopfile" ELSE "gone")
    /\ UNCHANGED <<pidfile, stopfile, given, crashes>>

\* server_remove_stopfile()
Final(p) ==
    /\ proc[p].at = "final"
    /\ stopfile' = FALSE
    /\ To(p, "gone")
    /\ UNCHANGED <<pidfile, given, crashes>>

\* app_server_status()
Status(p) ==
    /\ proc[p].at = "status"
    /\ To(p, "gone")
    /\ UNCHANGED <<pidfile, stopfile, given, crashes>>

\* Somebody gives a command; all of them begin with server_pid().
Give(p, command) ==
    /\ given < MaxCommands
    /\ ~Lives(p)
    /\ given' = given + 1
    /\ proc' = [proc EXCEPT ![p] = [Dead EXCEPT !.at = "pid",
                  !.return = CASE command = "start"  -> "decide"
                               [] command = "stop"   -> "target"
                               [] command = "status" -> "status"]]
    /\ UNCHANGED <<pidfile, stopfile, crashes>>

-----------------------------------------------------------------------------
Step(p) ==
    \/ ReadPidfile(p) \/ UnlinkStale(p)
    \/ Decide(p) \/ Ready(p) \/ Fork(p) \/ Await(p)
    \/ CreatePidfile(p) \/ WritePidfile(p)
    \/ server_shutdown_check(p) \/ Compare(p) \/ Hangup(p)
    \/ CleanStopfile(p) \/ CleanPidfile(p) \/ Exits(p)
    \/ Target(p) \/ CreateStopfile(p) \/ SendHangup(p) \/ Running(p) \/ Final(p)
    \/ Status(p)

LifecycleNext ==
    \E p \in Pid : Step(p) \/ Crash(p) \/ \E command \in Commands : Give(p, command)

LifecycleSpec == LifecycleInit /\ [][LifecycleNext]_lifecycleVars

-----------------------------------------------------------------------------
(* Types                                                                    *)

LifecycleTypeOK ==
    /\ pidfile \in Pid \cup {NoPidfile, EmptyFile} /\ stopfile \in BOOLEAN
    /\ \A p \in Pid :
         /\ proc[p].saw \in Pid \cup {0} /\ proc[p].target \in Pid \cup {0}
         /\ proc[p].tries \in 0..MaxTries
    /\ given \in 0..MaxCommands /\ crashes \in 0..MaxCrashes
=============================================================================

------------------------------ MODULE FdQueue -------------------------------
(***************************************************************************)
(* The daemon's event loop (fdqueue.c): the two lists of alarms, the table *)
(* of watched descriptors, and fd_poll(), whose callbacks change both      *)
(* while fd_poll() walks over them.  Everything runs in one thread; a      *)
(* callback is any sequence of the four operations.                        *)
(***************************************************************************)
EXTENDS Integers, FiniteSets

CONSTANTS
    Alarm,      \* the alarms that are scheduled
    Descr,      \* the alarms that watch a descriptor (each its own)
    None,       \* NULL, and the descriptor -1
    MaxTime,    \* bound: the clock stops here
    MaxWatched, \* MAX_WATCHED_FDS
    Active        \* whether there is always some file activity

ASSUME FdAssumption ==
    /\ IsFiniteSet(Alarm) /\ None \notin Alarm \cup Descr
    /\ MaxTime \in Nat /\ MaxWatched \in Nat \ {0}
    /\ Active \in BOOLEAN

VARIABLES
    q,       \* next_alarm, next_deadline and the links and times of the alarms
    w,       \* fds, fd_callbacks, fdcount and the _poll_index of the alarms
    now,     \* gettime_ms()
    polling,      \* where fd_poll() is
    ready,   \* what poll() returned is greater than zero
    i,       \* the index of the loop over fds
    called   \* the alarm whose callback is running, or was the last to run

fdVars == <<q, w, now, polling, ready, i, called>>

Time == 0..MaxTime

Ent == [next |-> None, prev |-> None, alarm |-> 0, deadline |-> 0]

FdInit ==
    /\ q = [alarms |-> None, deadlines |-> None, ent |-> [t \in Alarm |-> Ent]]
    /\ w = [fdcount |-> 0, fds |-> [k \in 0..MaxWatched - 1 |-> [fd |-> None, revents |-> FALSE]],
            callbacks |-> [k \in 0..MaxWatched - 1 |-> None],
            index |-> [d \in Descr |-> -1], revents |-> [d \in Descr |-> FALSE]]
    /\ now = 0
    /\ polling = "setup"     \* what runs before the loop
    /\ ready = FALSE /\ i = 0 /\ called = None

-----------------------------------------------------------------------------
(* The lists                                                                *)

\* Where an alarm of time "at" goes: behind the alarms that are not later.
Place(p, head, at) ==
    LET walk[n \in 0..Cardinality(Alarm)] ==
          IF n = 0 THEN [last |-> None, node |-> head]
          ELSE LET x == walk[n - 1] IN
               IF x.node = None \/ p.ent[x.node].alarm > at THEN x
               ELSE [last |-> x.node, node |-> p.ent[x.node].next]
    IN walk[Cardinality(Alarm)]

\* The insertion that schedule() and deadline() have in common.
Insert(p, list, t) ==
    LET x  == Place(p, p[list], p.ent[t].alarm)
        e1 == IF x.last = None THEN p.ent ELSE [p.ent EXCEPT ![x.last].next = t]
        e2 == IF x.node = None THEN e1 ELSE [e1 EXCEPT ![x.node].prev = t]
    IN [p EXCEPT !.ent = [e2 EXCEPT ![t].prev = x.last, ![t].next = x.node],
                 ![list] = IF x.last = None THEN t ELSE @]

\* schedule(), once the caller has set the times: an alarm that has expired goes
\* straight to the deadlines.
Scheduled(p, t, at, by) ==
    LET set == [p EXCEPT !.ent[t].alarm = at, !.ent[t].deadline = IF by < at THEN at ELSE by]
    IN Insert(set, IF at <= now THEN "deadlines" ELSE "alarms", t)

\* Mutant: the alarm that is removed keeps its links.
UnscheduledKeepsLinks(p, t) ==
    LET prev == p.ent[t].prev
        next == p.ent[t].next
        e1 == IF prev = None THEN p.ent ELSE [p.ent EXCEPT ![prev].next = next]
        e2 == IF next = None THEN e1 ELSE [e1 EXCEPT ![next].prev = prev]
    IN [alarms    |-> IF prev = None /\ p.alarms = t THEN next ELSE p.alarms,
        deadlines |-> IF prev = None /\ p.alarms # t /\ p.deadlines = t THEN next ELSE p.deadlines,
        ent       |-> e2]

\* unschedule(), "safe to unschedule twice"
Unscheduled(p, t) ==
    LET prev == p.ent[t].prev
        next == p.ent[t].next
        e1 == IF prev = None THEN p.ent ELSE [p.ent EXCEPT ![prev].next = next]
        e2 == IF next = None THEN e1 ELSE [e1 EXCEPT ![next].prev = prev]
    IN [alarms    |-> IF prev = None /\ p.alarms = t THEN next ELSE p.alarms,
        deadlines |-> IF prev = None /\ p.alarms # t /\ p.deadlines = t THEN next ELSE p.deadlines,
        ent       |-> [e2 EXCEPT ![t].prev = None, ![t].next = None]]

\* "move alarms that have elapsed to the deadline queue"
Elapsed(p) ==
    LET move[n \in 0..Cardinality(Alarm)] ==
          IF n = 0 THEN p
          ELSE LET x == move[n - 1] IN
               IF x.alarms = None \/ x.ent[x.alarms].alarm > now THEN x
               ELSE Insert(Unscheduled(x, x.alarms), "deadlines", x.alarms)
    IN move[Cardinality(Alarm)]

Linked(t) == t \in {q.alarms, q.deadlines} \/ q.ent[t].prev # None

-----------------------------------------------------------------------------
(* The operations, as callbacks call them                                   *)

InCallback == polling \in {"setup", "alarm", "descr"}

\* The callers schedule an alarm that is not in a list, for now or later.
Schedule(t, at, by) ==
    /\ InCallback /\ ~Linked(t)
    /\ at >= now /\ by >= at
    /\ q' = Scheduled(q, t, at, by)
    /\ UNCHANGED <<w, now, polling, ready, i, called>>

Unschedule(t) ==
    /\ InCallback
    /\ q' = Unscheduled(q, t)
    /\ UNCHANGED <<w, now, polling, ready, i, called>>

IsWatched(d) == w.index[d] >= 0 /\ w.callbacks[w.index[d]] = d

\* watch(), for a descriptor that is new, or is watched already
Watch(d) ==
    /\ InCallback
    /\ IF IsWatched(d)
       THEN w' = [w EXCEPT !.fds[w.index[d]] = [fd |-> d, revents |-> w.revents[d]]]
       ELSE /\ w.fdcount < MaxWatched
            /\ w' = [fdcount   |-> w.fdcount + 1,
                     fds       |-> [w.fds EXCEPT ![w.fdcount] = [fd |-> d, revents |-> FALSE]],
                     callbacks |-> [w.callbacks EXCEPT ![w.fdcount] = d],
                     index     |-> [w.index EXCEPT ![d] = w.fdcount],
                     revents   |-> [w.revents EXCEPT ![d] = FALSE]]
    /\ UNCHANGED <<q, now, polling, ready, i, called>>

\* Mutant: the alarm that is moved keeps its old index.
UnwatchedKeepsIndex(d) ==
    LET last  == w.fdcount - 1
        at    == w.index[d]
        moved == w.callbacks[last]
    IN [fdcount   |-> last,
        fds       |-> [[w.fds EXCEPT ![at] = w.fds[last]] EXCEPT ![last].fd = None],
        callbacks |-> [[w.callbacks EXCEPT ![at] = moved] EXCEPT ![last] = None],
        index     |-> [w.index EXCEPT ![d] = -1],
        revents   |-> w.revents]

\* What unwatch() makes of the table: the last entry takes the place of the one
\* that goes ("squash fds").
Unwatched(d) ==
    LET last  == w.fdcount - 1
        at    == w.index[d]
        moved == w.callbacks[last]
    IN [fdcount   |-> last,
        fds       |-> [[w.fds EXCEPT ![at] = w.fds[last]] EXCEPT ![last].fd = None],
        callbacks |-> [[w.callbacks EXCEPT ![at] = moved] EXCEPT ![last] = None],
        index     |-> [[w.index EXCEPT ![moved] = at] EXCEPT ![d] = -1],
        revents   |-> w.revents]

Unwatch(d) ==
    /\ InCallback
    /\ w.index[d] >= 0 /\ w.fds[w.index[d]].fd = d
    /\ w' = Unwatched(d)
    /\ UNCHANGED <<q, now, polling, ready, i, called>>

\* A callback returns: fd_poll() goes on to the descriptors, or to the next one.
Return ==
    /\ InCallback
    /\ polling' = CASE polling = "setup" -> "top" [] OTHER -> "scan"
    /\ i' = IF polling = "descr" THEN i + 1 ELSE 0
    /\ UNCHANGED <<q, w, now, ready, called>>

-----------------------------------------------------------------------------
(* fd_poll()                                                                *)

\* Expired alarms are moved, and poll() is called: it reports some of the
\* descriptors, or none when it need not block or the time is up.
StartPoll ==
    /\ polling = "top"
    /\ LET p == Elapsed(q) IN
       /\ q' = p
       /\ \E R \in SUBSET {w.fds[k].fd : k \in 0..w.fdcount - 1} :
            /\ Active /\ w.fdcount > 0 => R # {}
            /\ ready' = (R # {})
            /\ w' = [w EXCEPT !.fds = [k \in DOMAIN w.fds |->
                        IF k < w.fdcount THEN [w.fds[k] EXCEPT !.revents = w.fds[k].fd \in R]
                        ELSE w.fds[k]]]
            /\ R = {} /\ p.deadlines = None /\ p.alarms # None => p.ent[p.alarms].alarm <= now
    /\ polling' = "due" /\ i' = 0
    /\ UNCHANGED <<now, called>>

\* Mutant: alarms wait for a poll() that reports no file activity.
DueIdle == q.deadlines # None /\ ~ready

\* "call one alarm function, but only if its deadline time has elapsed OR there
\* is no file activity"
Due == q.deadlines # None /\ (q.ent[q.deadlines].deadline <= now \/ ~ready)

CallAlarm ==
    /\ polling = "due" /\ Due
    /\ q' = Unscheduled(q, q.deadlines)
    /\ called' = q.deadlines
    /\ polling' = "alarm"
    /\ UNCHANGED <<w, now, ready, i>>

CallNoAlarm ==
    /\ polling = "due" /\ ~Due
    /\ polling' = "scan"
    /\ UNCHANGED <<q, w, now, ready, i, called>>

\* The loop over the descriptors: the callback of one that is ready is called.
CallDescr ==
    /\ polling = "scan" /\ ready /\ i < w.fdcount /\ w.fds[i].revents
    /\ called' = w.callbacks[i]
    /\ w' = [w EXCEPT !.revents[w.callbacks[i]] = TRUE]
    /\ polling' = "descr"
    /\ UNCHANGED <<q, now, ready, i>>

SkipDescr ==
    /\ polling = "scan" /\ ready /\ i < w.fdcount /\ ~w.fds[i].revents
    /\ i' = i + 1
    /\ UNCHANGED <<q, w, now, polling, ready, called>>

EndPoll ==
    /\ polling = "scan" /\ (~ready \/ i >= w.fdcount)
    /\ polling' = "top"
    /\ UNCHANGED <<q, w, now, ready, i, called>>

TimePasses ==
    /\ now < MaxTime
    /\ now' = now + 1
    /\ UNCHANGED <<q, w, polling, ready, i, called>>

-----------------------------------------------------------------------------
Loop == StartPoll \/ CallAlarm \/ CallNoAlarm \/ CallDescr \/ SkipDescr \/ EndPoll \/ Return

FdNext ==
    \/ Loop \/ TimePasses
    \/ \E t \in Alarm, at \in Time, by \in Time : Schedule(t, at, by)
    \/ \E t \in Alarm : Unschedule(t)
    \/ \E d \in Descr : Watch(d) \/ Unwatch(d)

FdSpec == FdInit /\ [][FdNext]_fdVars

-----------------------------------------------------------------------------
(* Properties                                                               *)

FdTypeOK ==
    /\ q \in [alarms : Alarm \cup {None}, deadlines : Alarm \cup {None},
              ent : [Alarm -> [next : Alarm \cup {None}, prev : Alarm \cup {None},
                               alarm : Time, deadline : Time]]]
    /\ w \in [fdcount : 0..MaxWatched,
              fds : [0..MaxWatched - 1 -> [fd : Descr \cup {None}, revents : BOOLEAN]],
              callbacks : [0..MaxWatched - 1 -> Descr \cup {None}],
              index : [Descr -> -1..MaxWatched - 1], revents : [Descr -> BOOLEAN]]
    /\ now \in Time
    /\ polling \in {"setup", "top", "due", "alarm", "scan", "descr"}
    /\ ready \in BOOLEAN /\ i \in 0..MaxWatched
    /\ called \in Alarm \cup Descr \cup {None}

\* The alarms that the walk from a head meets.
Members(head) ==
    LET met[n \in 0..Cardinality(Alarm)] ==
          IF n = 0 THEN {head} \ {None}
          ELSE met[n - 1] \cup ({q.ent[t].next : t \in met[n - 1]} \ {None})
    IN met[Cardinality(Alarm)]

\* The two lists share no alarm, are linked both ways, end, and are in order of
\* time, whatever callbacks schedule and unschedule, even twice (unschedule()).
ListsWellFormed ==
    /\ Members(q.alarms) \cap Members(q.deadlines) = {}
    /\ \A head \in {q.alarms, q.deadlines} \ {None} :
         /\ q.ent[head].prev = None
         /\ \E t \in Members(head) : q.ent[t].next = None
         /\ \A t \in Members(head) : LET next == q.ent[t].next IN
              next # None => q.ent[next].prev = t /\ q.ent[t].alarm <= q.ent[next].alarm
    /\ \A t \in Alarm : Linked(t) <=> t \in Members(q.alarms) \cup Members(q.deadlines)

\* A descriptor that is watched is in the table once, at the index its alarm
\* holds, with that alarm as its callback, however entries are moved; and the
\* entries beyond fdcount are empty (watch(), unwatch()).
TableMatches ==
    /\ \A k \in 0..MaxWatched - 1 :
         IF k < w.fdcount
         THEN /\ w.callbacks[k] \in Descr
              /\ w.index[w.callbacks[k]] = k
              /\ w.fds[k].fd = w.callbacks[k]
         ELSE w.callbacks[k] = None /\ w.fds[k].fd = None
    /\ \A d \in Descr : w.index[d] >= 0 =>
         w.index[d] < w.fdcount /\ w.callbacks[w.index[d]] = d

\* An alarm that is scheduled is called or unscheduled in the end, however many
\* callbacks there are to make and alarms are scheduled on the way.
AlarmsAreCalled == \A t \in Alarm : Linked(t) ~> ~Linked(t)
=============================================================================

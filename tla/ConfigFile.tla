----------------------------- MODULE ConfigFile -----------------------------
(***************************************************************************)
(* The configuration file serval.conf (conf.c) and the commands "config    *)
(* set" and "config del".  A command reads the whole file, changes its     *)
(* copy in memory, writes that to serval.conf.temp, and renames it.  Files *)
(* are inodes, which two processes share when both open the same name.     *)
(***************************************************************************)
EXTENDS Integers, FiniteSets

CONSTANTS
    Editor,       \* the processes that run one command after another
    Var,          \* names of variables, of which only the case may differ
    Value,        \* values
    MaxVars,      \* MAX_CONFIG_VARS
    MaxEdits,     \* bound: how many commands begin
    OneEditor     \* whether a command begins only when no other is running

ASSUME ConfigAssumption ==
    /\ IsFiniteSet(Var) /\ "none" \notin Var
    /\ MaxVars \in Nat /\ MaxEdits \in Nat /\ OneEditor \in BOOLEAN

VARIABLES
    conf,      \* the inode of serval.conf, 0 if there is none
    temp,      \* the inode of serval.conf.temp
    data,      \* the contents of the inodes
    editor,    \* what the processes are doing
    edits      \* the number of commands so far

configVars == <<conf, temp, data, editor, edits>>

Unset == "unset"
Inode == 1..(Cardinality(Editor) + 2)

\* Settings, and what a file holds before it is written, or is written by two at
\* once: a part of them.
NoVars == [v \in Var |-> Unset]
Settings == [Var -> Value \cup {Unset}]
Partial == [v \in Var |-> "partial"]

Used(s) == {v \in Var : s[v] # Unset}

\* A process: where it is, what it is to set, its copy of the settings, and the
\* inode it writes.
NotRunning == [at |-> "idle", var |-> "none", val |-> Unset, vars |-> NoVars, file |-> 0]

ConfigInit ==
    /\ conf = 0 /\ temp = 0
    /\ data = [n \in Inode |-> NoVars]
    /\ editor = [p \in Editor |-> NotRunning]
    /\ edits = 0

Ends(p) == editor' = [editor EXCEPT ![p] = NotRunning]

GoesOn(p, step, vars, file) ==
    editor' = [editor EXCEPT ![p] = [at |-> step, var |-> editor[p].var, val |-> editor[p].val,
                                     vars |-> vars, file |-> file]]

\* A command: set, or del when the value is Unset.
BeginEdit(p, v, x) ==
    /\ editor[p] = NotRunning /\ edits < MaxEdits
    /\ OneEditor => \A q \in Editor : editor[q] = NotRunning
    /\ editor' = [editor EXCEPT ![p] = [at |-> "read", var |-> v, val |-> x,
                                        vars |-> NoVars, file |-> 0]]
    /\ edits' = edits + 1
    /\ UNCHANGED <<conf, temp, data>>

\* read_config(): without a file there are no variables.  A file that is empty fails,
\* since there is no buffer for it, and so does one that ends within a line.
read_config(p) ==
    /\ editor[p].at = "read"
    /\ \/ conf = 0 /\ GoesOn(p, "change", NoVars, 0)
       \/ conf # 0 /\ data[conf] \in {NoVars, Partial} /\ Ends(p)
       \/ conf # 0 /\ data[conf] \notin {NoVars, Partial} /\ GoesOn(p, "change", data[conf], 0)
    /\ UNCHANGED <<conf, temp, data, edits>>

TooMany(e) == e.val # Unset /\ Cardinality(Used(e.vars)) >= MaxVars
NoBuffer(e) == e.val = Unset /\ e.vars = NoVars

\* confValueSet(): "too many variables", even to change one of them; to delete one
\* that is not set is no error.  Then confWrite(), unless there is no buffer.
confValueSet(p) ==
    LET e == editor[p] IN
    /\ e.at = "change"
    /\ \/ (TooMany(e) \/ NoBuffer(e)) /\ Ends(p)
       \/ ~TooMany(e) /\ ~NoBuffer(e) /\ GoesOn(p, "open", [e.vars EXCEPT ![e.var] = e.val], 0)
    /\ UNCHANGED <<conf, temp, data, edits>>

Available(n) == n \notin {conf, temp} /\ \A p \in Editor : editor[p].file # n

\* Mutant: the file itself is opened.
OpenInPlace(p) ==
    /\ editor[p].at = "open"
    /\ \E n \in Inode :
         /\ IF conf = 0 THEN Available(n) ELSE n = conf
         /\ conf' = n /\ temp' = n
         /\ data' = [data EXCEPT ![n] = Partial]
         /\ GoesOn(p, "write", editor[p].vars, n)
    /\ UNCHANGED <<edits>>

\* confWrite(): fopen() creates the temporary file, or empties the one there is.
OpenTemp(p) ==
    /\ editor[p].at = "open"
    /\ \E n \in Inode :
         /\ IF temp = 0 THEN Available(n) /\ \A k \in Inode : Available(k) => n <= k ELSE n = temp
         /\ temp' = n
         /\ data' = [data EXCEPT ![n] = Partial]
         /\ GoesOn(p, "write", editor[p].vars, n)
    /\ UNCHANGED <<conf, edits>>

\* fclose() writes the lines; over those of another process unless it has emptied
\* the file since, and then only settings that are as long leave a whole file.
CloseTemp(p) ==
    LET e == editor[p] IN
    /\ e.at = "write"
    /\ \E x \in IF data[e.file] = Partial THEN {e.vars} ELSE {e.vars, Partial} :
         data' = [data EXCEPT ![e.file] = x]
    /\ GoesOn(p, "rename", e.vars, e.file)
    /\ UNCHANGED <<conf, temp, edits>>

\* rename() of the name, whatever file it is of by now; without one it fails.
Rename(p) ==
    /\ editor[p].at = "rename"
    /\ conf' = IF temp = 0 THEN conf ELSE temp
    /\ temp' = 0
    /\ Ends(p)
    /\ UNCHANGED <<data, edits>>

\* A command is interrupted at any point.
Interrupt(p) ==
    /\ editor[p] # NotRunning
    /\ Ends(p)
    /\ UNCHANGED <<conf, temp, data, edits>>

ConfigNext ==
    \E p \in Editor :
      \/ \E v \in Var, x \in Value \cup {Unset} : BeginEdit(p, v, x)
      \/ read_config(p) \/ confValueSet(p)
      \/ OpenTemp(p) \/ CloseTemp(p) \/ Rename(p) \/ Interrupt(p)

ConfigSpec == ConfigInit /\ [][ConfigNext]_configVars

-----------------------------------------------------------------------------
(* Properties                                                               *)

ConfigTypeOK ==
    /\ conf \in Inode \cup {0} /\ temp \in Inode \cup {0} /\ edits \in 0..MaxEdits
    /\ data \in [Inode -> Settings \cup {Partial}]
    /\ \A p \in Editor : editor[p].vars \in Settings /\ editor[p].file \in Inode \cup {0}

\* The settings in force: those of serval.conf.
Current == IF conf = 0 THEN NoVars ELSE data[conf]

Store == INSTANCE SettingsStore WITH
           settings  <- Current,
           asked     <- [p \in Editor |-> [var |-> editor[p].var, val |-> editor[p].val]],
           NoCommand <- [var |-> "none", val |-> Unset]

\* Wherever commands are interrupted, each takes effect at one moment and on its own
\* variable, or not at all, and serval.conf is never partial: confWrite() writes
\* another file and renames it.
CommandsAreAtomic == Store!SettingsSpec
=============================================================================

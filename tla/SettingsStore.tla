--------------------------- MODULE SettingsStore ----------------------------
(***************************************************************************)
(* What the commands "config set" and "config del" promise: a command that *)
(* has been given takes effect at one moment, on its variable alone, or    *)
(* not at all; and until then the settings are those of the commands       *)
(* before it.                                                              *)
(***************************************************************************)
CONSTANTS
    Editor,     \* who gives commands
    Var,        \* names of variables
    Value,      \* values
    Unset,      \* the value of a variable that is not set
    NoCommand   \* that no command has been given

VARIABLES
    settings,   \* the value of every variable
    asked       \* the command each has given and that has not ended

settingsVars == <<settings, asked>>

SettingsInit ==
    /\ settings = [v \in Var |-> Unset]
    /\ asked = [p \in Editor |-> NoCommand]

Ask(p, v, x) ==
    /\ asked[p] = NoCommand
    /\ asked' = [asked EXCEPT ![p] = [var |-> v, val |-> x]]
    /\ UNCHANGED settings

TakeEffect(p) ==
    /\ asked[p] # NoCommand
    /\ settings' = [settings EXCEPT ![asked[p].var] = asked[p].val]
    /\ asked' = [asked EXCEPT ![p] = NoCommand]

GiveUp(p) ==
    /\ asked[p] # NoCommand
    /\ asked' = [asked EXCEPT ![p] = NoCommand]
    /\ UNCHANGED settings

SettingsNext ==
    \E p \in Editor :
      \/ \E v \in Var, x \in Value \cup {Unset} : Ask(p, v, x)
      \/ TakeEffect(p) \/ GiveUp(p)

SettingsSpec == SettingsInit /\ [][SettingsNext]_settingsVars
=============================================================================

------------------------------ MODULE Installer ------------------------------
(***************************************************************************)
(* `codefacts install`: the user selects agents, their configurations are  *)
(* read and the new ones computed, the user confirms, the installed        *)
(* package is verified, and then the plans are carried out one by one.     *)
(* Meanwhile other programs, the agents themselves among them, edit the    *)
(* same files.  The user may start over at any end.                        *)
(*                                                                         *)
(* A configuration file has our entry and all its other settings; that an  *)
(* edit of the text keeps the others is CodexToml's matter.                *)
(***************************************************************************)
EXTENDS Naturals, FiniteSets

CONSTANTS
    FileAgents,     \* agents configured by a file
    CommandAgents,  \* agents configured by their own command
    Settings,       \* what else a file can hold
    MaxEdits,       \* bound on edits of others
    MaxRuns         \* bound on runs of the installer

Agents == FileAgents \cup CommandAgents

ASSUME InstallerAssumption ==
    /\ FileAgents \cap CommandAgents = {}
    /\ MaxEdits \in Nat /\ MaxRuns \in Nat

VARIABLES
    config,     \* the files
    registered, \* agents whose command has taken our entry
    stage,      \* where runInteractiveInstall is
    selected,   \* the agents of this run
    before,     \* what it has read, by agent
    after,      \* what it will write
    pending,    \* agents whose plan is not made, or not carried out
    writing,    \* agents whose temporary file is written
    edits,      \* bound counter
    runs,       \* bound counter
    edited,     \* auxiliary: agents edited by others since they were read
    theirs,     \* auxiliary: the files as they were before this run, or as others left them
    had,        \* auxiliary: the registrations before this run
    verified    \* auxiliary: whether this run has found the package in order

locals == <<stage, selected, before, after, pending, writing>>
world  == <<config, registered>>
bounds == <<edits, runs>>
aux    == <<edited, theirs, had, verified>>
vars   == <<locals, world, bounds, aux>>

\* A file: its other settings, and our entry of an earlier or of this version.
Configuration == [others: Settings, entry: {"none", "old", "new"}]

Nothing == [a \in {} |-> {}]

Init ==
    /\ config \in [FileAgents -> Configuration]
    /\ registered \in SUBSET CommandAgents
    /\ stage = "select"
    /\ selected = {} /\ before = Nothing /\ after = Nothing /\ pending = {} /\ writing = {}
    /\ edits = 0 /\ runs = 0
    /\ edited = {} /\ theirs = config /\ had = registered /\ verified = FALSE

\* The run is over; its plans are gone.
End(how) ==
    /\ stage' = how
    /\ before' = Nothing /\ after' = Nothing /\ pending' = {} /\ writing' = {}
    /\ UNCHANGED selected

\* parseSelection; no agent is a cancellation.
Select ==
    /\ stage = "select"
    /\ \E chosen \in SUBSET Agents :
          /\ selected' = chosen
          /\ pending' = chosen
          /\ stage' = IF chosen = {} THEN "cancelled" ELSE "plan"
    /\ UNCHANGED <<before, after, writing, world, bounds, aux>>

\* Mutant: a file that does not parse counts as an empty one.
UpdatedFromEmpty(c) == [others |-> CHOOSE s \in Settings : TRUE, entry |-> "new"]

\* replaceCodexEntry, updateJsoncEntry: the entry is created or replaced.
Updated(c) == [c EXCEPT !.entry = "new"]

\* prepareInstall: one agent's file is read and its new text computed.
Plan ==
    /\ stage = "plan"
    /\ \E a \in pending :
          /\ pending' = pending \ {a}
          /\ edited' = edited \ {a}
          /\ IF a \in FileAgents
             THEN /\ before' = [b \in DOMAIN before \cup {a} |->
                                   IF b = a THEN config[a] ELSE before[b]]
                  /\ after' = [b \in DOMAIN after \cup {a} |->
                                   IF b = a THEN Updated(config[a]) ELSE after[b]]
             ELSE UNCHANGED <<before, after>>
    /\ stage' = IF pending' = {} THEN "confirm" ELSE "plan"
    /\ UNCHANGED <<selected, writing, world, bounds, theirs, had, verified>>

\* Mutant: the package is verified when an agent starts it.
ConfirmedUnverified == "apply"

Confirmed == "verify"

Confirm ==
    /\ stage = "confirm"
    /\ \/ /\ stage' = Confirmed /\ pending' = selected
          /\ UNCHANGED <<selected, before, after, writing>>
       \/ End("cancelled")
    /\ UNCHANGED <<world, bounds, aux>>

\* verifyInstalledPackage has found the native package in order.
Verified ==
    /\ stage = "verify"
    /\ stage' = "apply"
    /\ verified' = TRUE
    /\ UNCHANGED <<selected, before, after, pending, writing, world, bounds, edited, theirs, had>>

\* The plan of agent a is carried out.
Applied(a) ==
    IF pending = {a} THEN End("done")
    ELSE /\ pending' = pending \ {a}
         /\ writing' = writing \ {a}
         /\ UNCHANGED <<stage, selected, before, after>>

\* Commands come first.
RunCommand ==
    /\ stage = "apply"
    /\ \E a \in pending \cap CommandAgents :
          /\ registered' = registered \cup {a}
          /\ Applied(a)
    /\ UNCHANGED <<config, bounds, aux>>

\* Mutant: files are written in the order of their plans.
InAnyOrder == TRUE

CommandsDone == pending \cap CommandAgents = {}

\* Mutant: nothing is to be done where an entry of ours exists.
AnyEntry(a) == before[a].entry # "none"

\* The text computed is the one that was read.
Current(a) == before[a] = after[a]

SkipCurrent ==
    /\ stage = "apply" /\ CommandsDone
    /\ \E a \in pending \cap FileAgents : Current(a) /\ Applied(a)
    /\ UNCHANGED <<world, bounds, aux>>

\* writeTextAtomically: a temporary file, then its renaming.
WriteTemporary ==
    /\ stage = "apply" /\ CommandsDone /\ writing = {}
    /\ \E a \in pending \cap FileAgents : ~Current(a) /\ writing' = {a}
    /\ UNCHANGED <<stage, selected, before, after, pending, world, bounds, aux>>

Rename ==
    /\ stage = "apply"
    /\ \E a \in writing :
          /\ config' = [config EXCEPT ![a] = after[a]]
          /\ Applied(a)
    /\ UNCHANGED <<registered, bounds, aux>>

\* A selection that means nothing, a configuration that cannot be read or
\* parsed, a missing command, a package that does not verify, a command that
\* is refused, a write that fails, or the end of the process.
Fail ==
    /\ stage \in {"select", "plan", "confirm", "verify", "apply"}
    /\ End("failed")
    /\ UNCHANGED <<world, bounds, aux>>

Again ==
    /\ stage \in {"cancelled", "failed", "done"} /\ runs < MaxRuns
    /\ stage' = "select"
    /\ runs' = runs + 1
    /\ selected' = {}
    /\ edited' = {} /\ theirs' = config /\ had' = registered /\ verified' = FALSE
    /\ UNCHANGED <<before, after, pending, writing, world, edits>>

Run ==
    \/ Select \/ Plan \/ Confirm \/ Verified
    \/ RunCommand \/ SkipCurrent \/ WriteTemporary \/ Rename \/ Fail

\* Another program changes a file.
Edit ==
    /\ edits < MaxEdits
    /\ \E a \in FileAgents, c \in Configuration :
          /\ config[a] # c
          /\ config' = [config EXCEPT ![a] = c]
          /\ theirs' = [theirs EXCEPT ![a] = c]
          /\ edited' = edited \cup {a}
    /\ edits' = edits + 1
    /\ UNCHANGED <<locals, registered, runs, had, verified>>

Next == Run \/ Again \/ Edit

Spec == Init /\ [][Next]_vars

-----------------------------------------------------------------------------

Partial(S) == UNION {[T -> S] : T \in SUBSET FileAgents}

\* Every variable has its type, and a file is only written while its plan is
\* pending.
TypeOK ==
    /\ config \in [FileAgents -> Configuration] /\ registered \in SUBSET CommandAgents
    /\ stage \in {"select", "plan", "confirm", "verify", "apply", "cancelled", "failed", "done"}
    /\ selected \in SUBSET Agents
    /\ before \in Partial(Configuration) /\ after \in Partial(Configuration)
    /\ DOMAIN before = DOMAIN after
    /\ pending \in SUBSET selected
    /\ writing \subseteq pending \cap FileAgents /\ Cardinality(writing) <= 1
    /\ edits \in 0..MaxEdits /\ runs \in 0..MaxRuns
    /\ edited \in SUBSET FileAgents /\ theirs \in [FileAgents -> Configuration]
    /\ had \in SUBSET CommandAgents /\ verified \in BOOLEAN

\* What this run has changed.
Written == {a \in FileAgents : config[a] # theirs[a]}

\* A run that reports success has configured every agent selected, if nobody
\* else has changed the file since it was read (applyInstall).
SuccessIsConfigured ==
    stage = "done" =>
        /\ selected \cap CommandAgents \subseteq registered
        /\ \A a \in selected \cap FileAgents : config[a].entry = "new" \/ a \in edited

\* However a run ends, nothing is changed before the installed package is
\* verified (runInteractiveInstall; README, Interactive agent install).
NothingUnverified == Written # {} \/ registered # had => verified

\* An agent whose command refuses the entry leaves every file as it was, so
\* that the run can be repeated (applyInstall's order).
CommandsFirst == Written # {} => selected \cap CommandAgents \subseteq registered

\* A run takes no setting of another program away, however it ends, except one
\* that was changed after this run had read the file (prepareInstall,
\* applyInstall).
OthersUnlessEdited ==
    \A a \in FileAgents : config[a].others = theirs[a].others \/ a \in edited

\* The installer only creates or replaces our entry: the other settings are
\* what the other programs left there.  An edit between Plan and Rename
\* refutes it (README, section 6).
OnlyTheEntry == \A a \in FileAgents : config[a].others = theirs[a].others

=============================================================================

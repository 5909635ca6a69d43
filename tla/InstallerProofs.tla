--------------------------- MODULE InstallerProofs ---------------------------
(***************************************************************************)
(* Theorems about Installer, for any agents, settings and bounds.          *)
(***************************************************************************)
EXTENDS Installer, TLAPS

\* What the proofs need of the types.
Types ==
    /\ config \in [FileAgents -> Configuration] /\ theirs \in [FileAgents -> Configuration]
    /\ selected \subseteq Agents /\ pending \subseteq selected /\ writing \subseteq FileAgents
    /\ DOMAIN before = DOMAIN after
    /\ \A a \in DOMAIN after : after[a] \in Configuration

Early == {"select", "plan", "confirm", "verify"}

\* Before it is verified a run has changed nothing; when it writes a file its
\* commands are done.
Order ==
    /\ ~verified \/ stage \in Early => Written = {} /\ registered = had
    /\ stage = "apply" => verified
    /\ stage = "verify" => pending = selected
    /\ stage \in {"select", "cancelled", "failed", "done"} => pending = {}
    /\ stage = "apply" => selected \cap CommandAgents \subseteq registered \cup pending
    /\ writing # {} => stage = "apply" /\ pending \cap CommandAgents = {}
    /\ writing \subseteq pending
    /\ CommandsFirst

\* The plan made for agent a, and a file that is as the plan found it.
Planned(a) ==
    /\ a \in DOMAIN after /\ after[a].entry = "new"
    /\ after[a].others = before[a].others
    /\ a \in edited \/ config[a] = before[a]

\* Every agent still pending has a plan, every other has its entry.
Progress ==
    /\ stage = "plan" => \A a \in (selected \cap FileAgents) \ pending : Planned(a)
    /\ stage \in {"confirm", "verify"} => \A a \in selected \cap FileAgents : Planned(a)
    /\ stage = "apply" =>
          \A a \in selected \cap FileAgents :
              IF a \in pending THEN Planned(a) ELSE config[a].entry = "new" \/ a \in edited
    /\ SuccessIsConfigured

Inv == Types /\ Order /\ Progress

\* Nothing is planned or written initially.
LEMMA InitInv == Init => Inv
BY InstallerAssumption
   DEF Init, Nothing, Inv, Types, Order, Progress, Written, CommandsFirst, SuccessIsConfigured, Early

\* A run that ends changes nothing.
LEMMA EndKeeps ==
    ASSUME Inv, NEW how \in {"cancelled", "failed"}, End(how), UNCHANGED <<world, aux>>
    PROVE  Inv'
BY DEF End, Nothing, Inv, Types, Order, Progress, Written, CommandsFirst, SuccessIsConfigured, Early,
       world, aux, Configuration

\* Carrying out the plan of agent a keeps the rest, if it leaves a with what
\* was planned and every other file alone.
LEMMA AppliedKeeps ==
    ASSUME Inv, stage = "apply", NEW a \in pending, Applied(a),
           UNCHANGED aux, registered \subseteq registered',
           a \in CommandAgents => a \in registered' /\ config' = config,
           a \in FileAgents => pending \cap CommandAgents = {},
           \/ config' = config
           \/ a \in FileAgents /\ config' = [config EXCEPT ![a] = after[a]],
           a \in FileAgents => config'[a].entry = "new" \/ a \in edited,
           config' \in [FileAgents -> Configuration]
    PROVE  Inv'
<1>1. Types'
    BY DEF Applied, End, Nothing, Inv, Types, aux
<1>2. verified /\ aux' = aux
    BY DEF Inv, Order
<1>3. stage' \in {"apply", "done"} /\ selected' = selected
    BY DEF Applied, End
<1>4. pending' = pending \ {a} /\ writing' \subseteq writing \ {a}
    BY DEF Applied, End
<1>5. selected \cap CommandAgents \subseteq registered' \cup pending'
    BY <1>4 DEF Inv, Order
<1>6. Written' # {} => selected \cap CommandAgents \subseteq registered'
    <2>1. CASE config' = config
        BY <2>1, <1>2 DEF Written, aux, Inv, Order, CommandsFirst
    <2>2. CASE a \in FileAgents
        BY <2>2 DEF Inv, Order
    <2> QED
        BY <2>1, <2>2
<1>7. Order'
    BY <1>1, <1>2, <1>3, <1>4, <1>5, <1>6
       DEF Inv, Order, CommandsFirst, aux, Early, Applied, End
<1>8. ASSUME NEW b \in selected \cap FileAgents, b \notin pending'
      PROVE  config'[b].entry = "new" \/ b \in edited
    BY <1>3, <1>4, <1>8 DEF Inv, Progress, Types
<1>9. stage' = "apply" => before' = before /\ after' = after
    BY DEF Applied, End
<1>10. ASSUME NEW b \in selected \cap FileAgents, b \in pending', stage' = "apply"
       PROVE  Planned(b)'
    <2>1. b # a /\ b \in pending /\ Planned(b)
        BY <1>4, <1>10 DEF Inv, Progress
    <2>2. config'[b] = config[b]
        BY <2>1 DEF Inv, Types
    <2> QED
        BY <2>1, <2>2, <1>9, <1>10, <1>2 DEF Planned, aux
<1>11. stage' = "done" => pending' = {}
    BY DEF Applied, End
<1>12. Progress'
    BY <1>2, <1>3, <1>5, <1>8, <1>10, <1>11 DEF Progress, SuccessIsConfigured, aux
<1> QED
    BY <1>1, <1>7, <1>12 DEF Inv

\* The steps up to the confirmation change no configuration.
LEMMA EarlySteps ==
    ASSUME Inv, Select \/ Plan \/ Confirm \/ Verified
    PROVE  Inv'
<1>1. CASE Select
    BY <1>1 DEF Select, Inv, Types, Order, Progress, Planned, Written, CommandsFirst,
                SuccessIsConfigured, Early, world, aux, Agents
<1>2. CASE Plan
    <2>1. PICK a \in pending :
             /\ pending' = pending \ {a}
             /\ edited' = edited \ {a}
             /\ IF a \in FileAgents
                THEN /\ before' = [b \in DOMAIN before \cup {a} |->
                                      IF b = a THEN config[a] ELSE before[b]]
                     /\ after' = [b \in DOMAIN after \cup {a} |->
                                      IF b = a THEN Updated(config[a]) ELSE after[b]]
                ELSE UNCHANGED <<before, after>>
        BY <1>2 DEF Plan
    <2>2. /\ stage = "plan" /\ stage' \in {"plan", "confirm"}
          /\ stage' = "confirm" => pending' = {}
          /\ UNCHANGED <<selected, writing, config, registered, theirs, had, verified>>
        BY <1>2 DEF Plan, world
    <2>3. Types'
        <3>1. DOMAIN before' = DOMAIN after' /\ \A b \in DOMAIN after' : after'[b] \in Configuration
            BY <2>1 DEF Updated, Inv, Types, Configuration
        <3> QED
            BY <3>1, <2>1, <2>2 DEF Inv, Types
    <2>4. Order'
        BY <2>1, <2>2 DEF Inv, Types, Order, Written, CommandsFirst, Early
    <2>5. ASSUME NEW b \in (selected \cap FileAgents) \ pending' PROVE Planned(b)'
        <3>1. CASE b = a
            BY <2>1, <2>2, <3>1 DEF Planned, Updated, Inv, Types, Configuration
        <3>2. CASE b # a
            <4>1. Planned(b)
                BY <2>1, <2>2, <2>5, <3>2 DEF Inv, Progress
            <4>2. b \in DOMAIN after' /\ after'[b] = after[b] /\ before'[b] = before[b]
                BY <4>1, <2>1, <3>2 DEF Planned, Inv, Types
            <4> QED
                BY <4>1, <4>2, <2>1, <2>2, <3>2 DEF Planned
        <3> QED
            BY <3>1, <3>2
    <2> QED
        BY <2>2, <2>3, <2>4, <2>5 DEF Inv, Progress, SuccessIsConfigured
<1>3. CASE Confirm
    <2>1. CASE End("cancelled")
        BY <1>3, <2>1, EndKeeps DEF Confirm
    <2>2. CASE /\ stage' = Confirmed /\ pending' = selected
               /\ UNCHANGED <<selected, before, after, writing>>
        BY <1>3, <2>2 DEF Confirm, Confirmed, Inv, Types, Order, Progress, Planned, Written,
                          CommandsFirst, SuccessIsConfigured, Early, world, aux
    <2> QED
        BY <1>3, <2>1, <2>2 DEF Confirm
<1>4. CASE Verified
    BY <1>4 DEF Verified, Inv, Types, Order, Progress, Planned, Written, CommandsFirst,
                SuccessIsConfigured, Early, world
<1> QED
    BY <1>1, <1>2, <1>3, <1>4

\* The steps that carry out plans.
LEMMA ApplySteps ==
    ASSUME Inv, RunCommand \/ SkipCurrent \/ WriteTemporary \/ Rename
    PROVE  Inv'
<1>1. CASE RunCommand
    <2>1. PICK a \in pending \cap CommandAgents :
             registered' = registered \cup {a} /\ Applied(a)
        BY <1>1 DEF RunCommand
    <2>2. a \notin FileAgents
        BY InstallerAssumption
    <2> QED
        BY <1>1, <2>1, <2>2, AppliedKeeps DEF RunCommand, Inv, Types
<1>2. CASE SkipCurrent
    <2>1. PICK a \in pending \cap FileAgents : Current(a) /\ Applied(a)
        BY <1>2 DEF SkipCurrent
    <2>2. a \notin CommandAgents
        BY InstallerAssumption
    <2>3. stage = "apply" /\ Planned(a)
        BY <1>2, <2>1 DEF SkipCurrent, Inv, Progress, Types
    <2>4. config[a].entry = "new" \/ a \in edited
        BY <2>1, <2>3 DEF Planned, Current
    <2> QED
        BY <1>2, <2>1, <2>2, <2>3, <2>4, AppliedKeeps
           DEF SkipCurrent, CommandsDone, Inv, Types, world
<1>3. CASE WriteTemporary
    BY <1>3 DEF WriteTemporary, CommandsDone, Inv, Types, Order, Progress, Planned, Written,
                CommandsFirst, SuccessIsConfigured, Early, world, aux
<1>4. CASE Rename
    <2>1. PICK a \in writing : config' = [config EXCEPT ![a] = after[a]] /\ Applied(a)
        BY <1>4 DEF Rename
    <2>2. /\ a \in pending \cap FileAgents /\ a \notin CommandAgents
          /\ stage = "apply" /\ pending \cap CommandAgents = {}
        BY InstallerAssumption DEF Inv, Types, Order
    <2>3. Planned(a)
        BY <2>2 DEF Inv, Progress, Types
    <2>4. config'[a].entry = "new"
        BY <2>1, <2>2, <2>3 DEF Planned, Inv, Types
    <2>5. config' \in [FileAgents -> Configuration]
        BY <2>1, <2>3 DEF Planned, Inv, Types
    <2> QED
        BY <1>4, <2>1, <2>2, <2>4, <2>5, AppliedKeeps DEF Rename, Inv, Types
<1> QED
    BY <1>1, <1>2, <1>3, <1>4

\* The others' edits count as theirs, and a new run begins with nothing.
LEMMA OtherSteps ==
    ASSUME Inv, Fail \/ Again \/ Edit
    PROVE  Inv'
<1>1. CASE Fail
    BY <1>1, EndKeeps DEF Fail
<1>2. CASE Again
    BY <1>2 DEF Again, Inv, Types, Order, Progress, Written, CommandsFirst, SuccessIsConfigured,
                Early, world
<1>3. CASE Edit
    <2>1. PICK a \in FileAgents, c \in Configuration :
             /\ config' = [config EXCEPT ![a] = c]
             /\ theirs' = [theirs EXCEPT ![a] = c]
             /\ edited' = edited \cup {a}
        BY <1>3 DEF Edit
    <2>2. UNCHANGED <<stage, selected, before, after, pending, writing, registered, had, verified>>
        BY <1>3 DEF Edit, locals
    <2>3. Types'
        BY <2>1, <2>2 DEF Inv, Types
    <2>4. Written' \subseteq Written
        BY <2>1 DEF Written, Inv, Types
    <2>5. Order'
        BY <2>2, <2>3, <2>4 DEF Inv, Order, CommandsFirst
    <2>6. ASSUME NEW b \in FileAgents
          PROVE  b \in edited' \/ config'[b] = config[b]
        BY <2>1 DEF Inv, Types
    <2>7. \A b \in FileAgents : Planned(b) => Planned(b)'
        BY <2>1, <2>2, <2>6 DEF Planned
    <2>8. Progress'
        BY <2>1, <2>2, <2>6, <2>7 DEF Inv, Progress, SuccessIsConfigured
    <2> QED
        BY <2>3, <2>5, <2>8 DEF Inv
<1> QED
    BY <1>1, <1>2, <1>3

\* Inv holds in every state.
LEMMA InvHolds == Spec => []Inv
<1>1. Inv /\ UNCHANGED vars => Inv'
    BY DEF Inv, Types, Order, Progress, Planned, Written, CommandsFirst, SuccessIsConfigured,
           vars, locals, world, bounds, aux
<1>2. Inv /\ Next => Inv'
    BY EarlySteps, ApplySteps, OtherSteps DEF Next, Run
<1> QED
    BY <1>1, <1>2, InitInv, PTL DEF Spec

\* The others' settings are what this run found there: a file is only replaced
\* by what its plan kept of them.
LEMMA OthersStep ==
    ASSUME Inv, OthersUnlessEdited, [Next]_vars
    PROVE  OthersUnlessEdited'
<1>1. CASE Plan
    <2>1. Written = {} /\ UNCHANGED <<config, theirs>>
        BY <1>1 DEF Plan, world, Inv, Order, Early
    <2> QED
        BY <2>1 DEF Written, OthersUnlessEdited
<1>2. CASE Rename
    <2>1. PICK a \in writing : config' = [config EXCEPT ![a] = after[a]]
        BY <1>2 DEF Rename
    <2>2. a \in selected \cap FileAgents /\ a \in pending /\ stage = "apply"
        BY <2>1 DEF Inv, Types, Order
    <2>3. Planned(a)
        BY <2>2 DEF Inv, Progress
    <2>4. config'[a].others = theirs[a].others \/ a \in edited
        BY <2>1, <2>2, <2>3 DEF Planned, OthersUnlessEdited, Inv, Types
    <2>5. UNCHANGED <<theirs, edited>>
        BY <1>2 DEF Rename, aux
    <2> QED
        BY <2>1, <2>4, <2>5 DEF OthersUnlessEdited, Inv, Types
<1>3. CASE Edit
    <2>1. PICK a \in FileAgents, c \in Configuration :
             /\ config' = [config EXCEPT ![a] = c]
             /\ theirs' = [theirs EXCEPT ![a] = c]
             /\ edited' = edited \cup {a}
        BY <1>3 DEF Edit
    <2> QED
        BY <2>1 DEF OthersUnlessEdited, Inv, Types
<1>4. CASE Again
    BY <1>4 DEF Again, world, OthersUnlessEdited
<1>5. CASE Select \/ Confirm \/ Verified \/ RunCommand \/ SkipCurrent \/ WriteTemporary \/ Fail
    <2>1. UNCHANGED <<config, theirs, edited>>
        BY <1>5 DEF Select, Confirm, Verified, RunCommand, SkipCurrent, WriteTemporary, Fail, world, aux
    <2> QED
        BY <2>1 DEF OthersUnlessEdited
<1>6. CASE UNCHANGED vars
    BY <1>6 DEF vars, world, aux, OthersUnlessEdited
<1> QED
    BY <1>1, <1>2, <1>3, <1>4, <1>5, <1>6 DEF Next, Run

\* Nothing is changed before the installed package is verified, however a run
\* ends and whoever edits the files meanwhile (runInteractiveInstall).
THEOREM VerifiedFirst == Spec => []NothingUnverified
<1>1. Inv => NothingUnverified
    BY DEF Inv, Order, NothingUnverified
<1> QED
    BY <1>1, InvHolds, PTL

\* A refused command leaves every file alone (applyInstall).
THEOREM CommandsBeforeFiles == Spec => []CommandsFirst
<1>1. Inv => CommandsFirst
    BY DEF Inv, Order
<1> QED
    BY <1>1, InvHolds, PTL

\* A run that reports success has configured every agent nobody else touched
\* (applyInstall, skipping what is current).
THEOREM SuccessConfigures == Spec => []SuccessIsConfigured
<1>1. Inv => SuccessIsConfigured
    BY DEF Inv, Progress
<1> QED
    BY <1>1, InvHolds, PTL

\* What other programs have set is lost only if they set it between a run's
\* reading of the file and its renaming (prepareInstall, applyInstall).
THEOREM OthersSurvive == Spec => []OthersUnlessEdited
<1>1. Init => OthersUnlessEdited
    BY DEF Init, OthersUnlessEdited
<1> QED
    BY <1>1, InvHolds, OthersStep, PTL DEF Spec
=============================================================================

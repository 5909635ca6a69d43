------------------------------- MODULE Release -------------------------------
(***************************************************************************)
(* Publication of one version: jobs run publishReleasePackages against a   *)
(* registry that shows a package some time after it has accepted it, and   *)
(* are started again when they fail.  Every job brings the archives of     *)
(* some build; an archive stands for its integrity.                        *)
(***************************************************************************)
EXTENDS Naturals

CONSTANTS
    Jobs,        \* runs of the release workflow
    Builds,      \* what the archives can be built from
    Platforms,   \* the platform packages, assets.json
    Main,        \* the main package
    Archive,     \* the archive of a package in a build
    Staged,      \* sets of platform archives a job may find
    None,        \* no archive, no package
    MaxFaults    \* bound on failures that have no cause in the registry

Packages == Platforms \cup {Main}

ASSUME ReleaseAssumption ==
    /\ Platforms # {} /\ Main \notin Platforms /\ None \notin Packages
    /\ Archive \in [Builds ->
                      [Packages -> {Archive[b][p] : b \in Builds, p \in Packages}]]
    /\ \A b \in Builds, p \in Packages : Archive[b][p] # None
    /\ MaxFaults \in Nat

VARIABLES
    stage,      \* what a job is doing
    build,      \* whose archives it has
    staged,     \* the platform archives it has found
    left,       \* packages of this stage it has not dealt with
    absent,     \* the package it has found absent and will publish
    registry,   \* what the registry has accepted
    visible,    \* the packages it shows
    faults      \* bound counter

job  == <<stage, build, staged, left, absent>>
vars == <<job, registry, visible, faults>>

Init ==
    /\ stage = [j \in Jobs |-> "idle"]
    /\ build \in [Jobs -> Builds]
    /\ staged = [j \in Jobs |-> {}]
    /\ left = [j \in Jobs |-> {}]
    /\ absent = [j \in Jobs |-> None]
    /\ registry = [p \in Packages |-> None]
    /\ visible = {}
    /\ faults = 0

\* Mutant: packages that are there belong to the release.
Contained(found) == found \subseteq Platforms

\* The names found are exactly those of assets.json.
Exact(found) == found = Platforms

\* Mutant: the main package waits only for acceptance of the others.
AfterHasty(s) == CASE s = "publish" -> "main" [] s = "verify" -> "main" [] s = "main" -> "published"

\* All platform packages are published, then all are verified, then the main
\* package is published.
After(s) == CASE s = "publish" -> "verify" [] s = "verify" -> "main" [] s = "main" -> "published"

\* Mutant: the main package is among the archives of the platforms.
PackagesOfAll(s, found) ==
    CASE s = "published" -> {} [] s = "idle" -> {} [] OTHER -> found \cup {Main}

\* The packages a stage deals with.
PackagesOf(s, found) ==
    CASE s = "main"      -> {Main}
      [] s = "published" -> {}
      [] OTHER           -> found

Begin(j) ==
    /\ stage[j] \in {"idle", "failed"}
    /\ \E b \in Builds, found \in Staged :
          \/ /\ Exact(found)
             /\ stage' = [stage EXCEPT ![j] = "publish"]
             /\ build' = [build EXCEPT ![j] = b]
             /\ staged' = [staged EXCEPT ![j] = found]
             /\ left' = [left EXCEPT ![j] = PackagesOf("publish", found)]
          \/ /\ ~Exact(found)
             /\ stage' = [stage EXCEPT ![j] = "failed"]
             /\ UNCHANGED <<build, staged, left>>
    /\ UNCHANGED <<absent, registry, visible, faults>>

\* Job j has dealt with package p.
Finish(j, p) ==
    LET last == left[j] = {p}
        next == IF last THEN After(stage[j]) ELSE stage[j]
    IN  /\ stage' = [stage EXCEPT ![j] = next]
        /\ left' = [left EXCEPT ![j] = IF last THEN PackagesOf(next, staged[j])
                                               ELSE left[j] \ {p}]
        /\ absent' = [absent EXCEPT ![j] = None]
        /\ UNCHANGED <<build, staged>>

\* The error ends the job; nothing of what it knew is kept.
Throw(j) ==
    /\ stage' = [stage EXCEPT ![j] = "failed"]
    /\ left' = [left EXCEPT ![j] = {}]
    /\ absent' = [absent EXCEPT ![j] = None]
    /\ staged' = [staged EXCEPT ![j] = {}]
    /\ UNCHANGED build

\* Mutant: a version that exists is the one we would publish.
SameVersion(j, p) == TRUE

\* npm view shows the integrity of this job's archive.
SameIntegrity(j, p) == registry[p] = Archive[build[j]][p]

\* Mutant: a version that exists cannot be published again.
NothingSkipped(j, p) == FALSE

\* The package is there already, with the bytes this job would publish.
Skipped(j, p) == SameIntegrity(j, p)

\* publishArchive: what npm view says of the package decides ...
Look(j) ==
    /\ stage[j] \in {"publish", "main"} /\ absent[j] = None
    /\ \E p \in left[j] :
          \/ /\ p \notin visible
             /\ absent' = [absent EXCEPT ![j] = p]
             /\ UNCHANGED <<stage, build, staged, left>>
          \/ p \in visible /\ Skipped(j, p) /\ Finish(j, p)
          \/ p \in visible /\ ~Skipped(j, p) /\ Throw(j)
    /\ UNCHANGED <<registry, visible, faults>>

\* ... and an absent one is published; the registry takes a version once.
Publish(j) ==
    /\ absent[j] # None
    /\ LET p == absent[j]
       IN  \/ /\ registry[p] = None
              /\ registry' = [registry EXCEPT ![p] = Archive[build[j]][p]]
              /\ Finish(j, p)
           \/ /\ registry[p] # None
              /\ Throw(j)
              /\ UNCHANGED registry
    /\ UNCHANGED <<visible, faults>>

\* The registry takes the archive and its word is lost.
PublishUnanswered(j) ==
    /\ absent[j] # None /\ registry[absent[j]] = None
    /\ faults < MaxFaults
    /\ registry' = [registry EXCEPT ![absent[j]] = Archive[build[j]][absent[j]]]
    /\ Throw(j)
    /\ faults' = faults + 1
    /\ UNCHANGED visible

\* verifyArchivePublished: an absent package is looked for again, one that
\* shows the right integrity in time is done, any other is an error.
Verify(j) ==
    /\ stage[j] = "verify"
    /\ \E p \in left[j] \cap visible :
          \/ SameIntegrity(j, p) /\ Finish(j, p)
          \/ ~SameIntegrity(j, p) /\ Throw(j)
    /\ UNCHANGED <<registry, visible, faults>>

\* The deadline of the verification.
GiveUp(j) ==
    /\ stage[j] = "verify" /\ ~(left[j] \subseteq visible)
    /\ Throw(j)
    /\ UNCHANGED <<registry, visible, faults>>

\* Any command of npm fails, an answer comes after the deadline, or the job
\* is cancelled.
Fail(j) ==
    /\ stage[j] \in {"publish", "verify", "main"}
    /\ faults < MaxFaults
    /\ Throw(j)
    /\ faults' = faults + 1
    /\ UNCHANGED <<registry, visible>>

\* The registry shows a package it has accepted.
Appear(p) ==
    /\ registry[p] # None /\ p \notin visible
    /\ visible' = visible \cup {p}
    /\ UNCHANGED <<job, registry, faults>>

Step(j) == Look(j) \/ Publish(j) \/ Verify(j)

Next ==
    \/ \E j \in Jobs : Begin(j) \/ Step(j) \/ PublishUnanswered(j) \/ GiveUp(j) \/ Fail(j)
    \/ \E p \in Packages : Appear(p)

\* A failed job is started again some time, a job goes on, and the registry
\* shows what it has accepted some time.
Fairness ==
    /\ \A j \in Jobs : WF_vars(Begin(j)) /\ WF_vars(Step(j))
    /\ \A p \in Packages : WF_vars(Appear(p))

Spec == Init /\ [][Next]_vars /\ Fairness

-----------------------------------------------------------------------------

Stages == {"idle", "publish", "verify", "main", "published", "failed"}

\* Every variable has its type, a job only holds an absent package it has
\* still to publish, and its first two stages are about platform packages.
TypeOK ==
    /\ stage \in [Jobs -> Stages] /\ build \in [Jobs -> Builds]
    /\ staged \in [Jobs -> SUBSET Platforms] /\ left \in [Jobs -> SUBSET Packages]
    /\ absent \in [Jobs -> Packages \cup {None}]
    /\ \A j \in Jobs :
          /\ absent[j] # None => absent[j] \in left[j] /\ stage[j] \in {"publish", "main"}
          /\ stage[j] \in {"publish", "verify"} => left[j] \subseteq Platforms
    /\ registry \in [Packages -> {Archive[b][p] : b \in Builds, p \in Packages} \cup {None}]
    /\ \A p \in visible : p \in Packages /\ registry[p] # None
    /\ faults \in 0..MaxFaults

\* The registry holds all archives of build b.
Complete(b) == \A p \in Packages : registry[p] = Archive[b][p]

\* Whichever jobs of whichever builds overlap, fail and start again: once the
\* main package is accepted, it and all platform packages are of one build.
OneBuild == registry[Main] # None => \E b \in Builds : Complete(b)

\* The main package is never accepted before npm shows every platform package
\* it depends on (publishReleasePackages verifies all of them first).
PlatformsFirst == registry[Main] # None => Platforms \subseteq visible

\* A job that succeeds has made, or found, its own build the release.
SuccessIsRelease == \A j \in Jobs : stage[j] = "published" => Complete(build[j])

\* With archives of the same build, a release interrupted anywhere comes to
\* an end when it is resumed, archives accepted without an answer and packages
\* that are not shown yet included.
Resumes ==
    \A b \in Builds :
        [](\A j \in Jobs : build[j] = b) => <>(\E j \in Jobs : stage[j] = "published")

=============================================================================

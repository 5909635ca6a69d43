-------------------------- MODULE DistributionProofs --------------------------
(***************************************************************************)
(* Theorems about Release and Distribution, for any jobs, builds,          *)
(* manifests, platforms and any release before.  The distribution only     *)
(* narrows what jobs do, so the invariant of Release is its own; to it     *)
(* come where the packages in the registry are from, what is on the disk   *)
(* and what a launch knows.                                                *)
(***************************************************************************)
EXTENDS Distribution, TLAPS

-----------------------------------------------------------------------------
(* The release alone: any jobs, builds, platforms and archives.             *)

\* Package p is in the registry as job j would publish it.
Matches(j, p) == registry[p] = Archive[build[j]][p]

\* What the stage of a job says of the registry.
JobInv(j) ==
    /\ stage[j] \in {"publish", "verify", "main"} => staged[j] = Platforms
    /\ stage[j] = "publish" => \A p \in Platforms \ left[j] : Matches(j, p)
    /\ stage[j] \in {"verify", "main", "published"} => \A p \in Platforms : Matches(j, p)
    /\ stage[j] = "verify" => Platforms \ left[j] \subseteq visible
    /\ stage[j] = "main" => left[j] = {Main}
    /\ stage[j] \in {"main", "published"} => Platforms \subseteq visible
    /\ stage[j] = "published" => Matches(j, Main)

Inv ==
    /\ TypeOK
    /\ \A j \in Jobs : JobInv(j)
    /\ OneBuild
    /\ PlatformsFirst

\* The registry is immutable and goes on showing what it shows.
Grown ==
    /\ \A p \in Packages : registry[p] # None => registry'[p] = registry[p]
    /\ visible \subseteq visible'

\* Job j is not concerned.
Resting(j) ==
    /\ stage'[j] = stage[j] /\ build'[j] = build[j] /\ staged'[j] = staged[j]
    /\ left'[j] = left[j] /\ absent'[j] = absent[j]

\* Nothing has been published or begun initially.
LEMMA InitInv == Init => Inv
BY ReleaseAssumption
   DEF Init, Inv, TypeOK, JobInv, OneBuild, PlatformsFirst, Stages, Packages

\* No archive is nothing, so a package that matches is there for good.
LEMMA MatchesStays ==
    ASSUME TypeOK, Grown, NEW j \in Jobs, build'[j] = build[j], NEW p \in Packages, Matches(j, p)
    PROVE  Matches(j, p)'
<1>1. build[j] \in Builds
    BY DEF TypeOK
<1>2. Archive[build[j]][p] # None
    BY <1>1, ReleaseAssumption
<1>3. registry'[p] = registry[p]
    BY <1>2 DEF Grown, Matches
<1> QED
    BY <1>3 DEF Matches

\* What a job has established stays when the registry grows.
LEMMA RestingKeeps ==
    ASSUME TypeOK, Grown, NEW j \in Jobs, JobInv(j), Resting(j)
    PROVE  JobInv(j)'
<1>1. \A p \in Packages : Matches(j, p) => Matches(j, p)'
    BY MatchesStays DEF Resting
<1> QED
    BY <1>1 DEF JobInv, Grown, Resting, Packages

\* Types, the part that concerns one job.
JobType(j) ==
    /\ stage[j] \in Stages /\ build[j] \in Builds
    /\ staged[j] \in SUBSET Platforms /\ left[j] \in SUBSET Packages
    /\ absent[j] \in Packages \cup {None}
    /\ absent[j] # None => absent[j] \in left[j] /\ stage[j] \in {"publish", "main"}
    /\ stage[j] \in {"publish", "verify"} => left[j] \subseteq Platforms

\* A job that has dealt with a package rightly is right afterwards.
LEMMA FinishKeeps ==
    ASSUME TypeOK, Grown, NEW j \in Jobs, JobInv(j),
           stage[j] \in {"publish", "verify", "main"},
           NEW p \in left[j], Finish(j, p),
           registry'[p] = Archive[build[j]][p],
           stage[j] = "verify" => p \in visible
    PROVE  JobType(j)' /\ JobInv(j)'
<1>1. /\ build' = build /\ staged' = staged
      /\ absent'[j] = None
      /\ stage'[j] = IF left[j] = {p} THEN After(stage[j]) ELSE stage[j]
      /\ left'[j] = IF left[j] = {p} THEN PackagesOf(After(stage[j]), staged[j]) ELSE left[j] \ {p}
    BY DEF Finish, TypeOK
<1>2. p \in Packages /\ Matches(j, p)'
    BY <1>1 DEF TypeOK, Matches
<1>3. \A q \in Packages : Matches(j, q) => Matches(j, q)'
    BY <1>1, MatchesStays
<1>4. CASE left[j] # {p}
    BY <1>1, <1>2, <1>3, <1>4 DEF JobInv, JobType, Grown, TypeOK, Packages, Stages
<1>5. CASE left[j] = {p} /\ stage[j] = "publish"
    BY <1>1, <1>2, <1>3, <1>5
       DEF JobInv, JobType, Grown, TypeOK, Packages, Stages, After, PackagesOf
<1>6. CASE left[j] = {p} /\ stage[j] = "verify"
    BY <1>1, <1>2, <1>3, <1>6
       DEF JobInv, JobType, Grown, TypeOK, Packages, Stages, After, PackagesOf
<1>7. CASE left[j] = {p} /\ stage[j] = "main"
    <2>1. stage'[j] = "published" /\ left'[j] = {} /\ p = Main
        BY <1>1, <1>7 DEF After, PackagesOf, JobInv
    <2> QED
        BY <2>1, <1>1, <1>2, <1>3, <1>7 DEF JobInv, JobType, Grown, TypeOK, Packages, Stages
<1> QED
    BY <1>4, <1>5, <1>6, <1>7

\* A job that throws knows nothing any more.
LEMMA ThrowKeeps ==
    ASSUME TypeOK, NEW j \in Jobs, Throw(j)
    PROVE  JobType(j)' /\ JobInv(j)'
BY DEF Throw, TypeOK, JobType, JobInv, Stages, Packages

\* The step of one job, its own part and what it does to the registry.
Safe(j) ==
    /\ JobType(j)' /\ JobInv(j)'
    /\ \A k \in Jobs \ {j} : Resting(k)
    /\ Grown

\* Everything but publishing leaves the registry alone.
LEMMA QuietSteps ==
    ASSUME Inv, NEW j \in Jobs, Begin(j) \/ Look(j) \/ Verify(j) \/ GiveUp(j) \/ Fail(j)
    PROVE  Safe(j) /\ UNCHANGED <<registry, visible>>
<1> USE DEF Inv
<1>1. Grown /\ UNCHANGED <<registry, visible>>
    BY DEF Begin, Look, Verify, GiveUp, Fail, Grown, Finish, Throw
<1>2. \A k \in Jobs \ {j} : Resting(k)
    BY DEF Begin, Look, Verify, GiveUp, Fail, Resting, Finish, Throw, TypeOK
<1>3. CASE Begin(j)
    <2>1. PICK b \in Builds, found \in Staged :
             \/ /\ Exact(found)
                /\ stage' = [stage EXCEPT ![j] = "publish"]
                /\ build' = [build EXCEPT ![j] = b]
                /\ staged' = [staged EXCEPT ![j] = found]
                /\ left' = [left EXCEPT ![j] = PackagesOf("publish", found)]
             \/ /\ ~Exact(found)
                /\ stage' = [stage EXCEPT ![j] = "failed"]
                /\ UNCHANGED <<build, staged, left>>
        BY <1>3 DEF Begin
    <2>2. stage[j] \in {"idle", "failed"} /\ absent' = absent
        BY <1>3 DEF Begin
    <2> QED
        BY <2>1, <2>2, <1>1, <1>2
           DEF Safe, TypeOK, JobType, JobInv, Stages, Packages, Exact, PackagesOf
<1>4. CASE Look(j)
    <2>1. PICK p \in left[j] :
             \/ /\ p \notin visible
                /\ absent' = [absent EXCEPT ![j] = p]
                /\ UNCHANGED <<stage, build, staged, left>>
             \/ p \in visible /\ Skipped(j, p) /\ Finish(j, p)
             \/ p \in visible /\ ~Skipped(j, p) /\ Throw(j)
        BY <1>4 DEF Look
    <2>2. CASE absent' = [absent EXCEPT ![j] = p] /\ UNCHANGED <<stage, build, staged, left>>
        BY <2>2, <1>1, <1>2, <1>4
           DEF Look, Safe, TypeOK, JobType, JobInv, Matches, Stages, Packages
    <2>3. CASE Skipped(j, p) /\ Finish(j, p)
        BY <2>3, <1>1, <1>2, <1>4, FinishKeeps DEF Look, Safe, Skipped, SameIntegrity
    <2>4. CASE Throw(j)
        BY <2>4, <1>1, <1>2, ThrowKeeps DEF Safe
    <2> QED
        BY <2>1, <2>2, <2>3, <2>4
<1>5. CASE Verify(j)
    <2>1. PICK p \in left[j] \cap visible :
             \/ SameIntegrity(j, p) /\ Finish(j, p)
             \/ ~SameIntegrity(j, p) /\ Throw(j)
        BY <1>5 DEF Verify
    <2>2. CASE SameIntegrity(j, p) /\ Finish(j, p)
        BY <2>2, <1>1, <1>2, <1>5, FinishKeeps DEF Verify, Safe, SameIntegrity
    <2>3. CASE Throw(j)
        BY <2>3, <1>1, <1>2, ThrowKeeps DEF Safe
    <2> QED
        BY <2>1, <2>2, <2>3
<1>6. CASE GiveUp(j) \/ Fail(j)
    BY <1>6, <1>1, <1>2, ThrowKeeps DEF GiveUp, Fail, Safe
<1> QED
    BY <1>3, <1>4, <1>5, <1>6

\* Publishing takes a version that was not there; if it is the main package,
\* the job has seen all platform packages with its own integrities.
LEMMA PublishingSteps ==
    ASSUME Inv, NEW j \in Jobs, Publish(j) \/ PublishUnanswered(j)
    PROVE  /\ Safe(j) /\ UNCHANGED visible
           /\ \/ UNCHANGED registry
              \/ \E p \in left[j] :
                    /\ registry[p] = None /\ stage[j] \in {"publish", "main"}
                    /\ registry' = [registry EXCEPT ![p] = Archive[build[j]][p]]
<1> USE DEF Inv
<1> DEFINE p == absent[j]
<1>1. p \in left[j] /\ p \in Packages /\ stage[j] \in {"publish", "main"}
    BY DEF Publish, PublishUnanswered, TypeOK
<1>2. \A k \in Jobs \ {j} : Resting(k)
    BY DEF Publish, PublishUnanswered, Resting, Finish, Throw, TypeOK
<1>3. UNCHANGED visible
    BY DEF Publish, PublishUnanswered
<1>4. CASE registry[p] # None /\ UNCHANGED registry /\ Throw(j)
    BY <1>2, <1>3, <1>4, ThrowKeeps DEF Safe, Grown
<1>5. CASE /\ registry[p] = None
           /\ registry' = [registry EXCEPT ![p] = Archive[build[j]][p]]
           /\ Finish(j, p) \/ Throw(j)
    <2>1. Grown /\ registry'[p] = Archive[build[j]][p]
        BY <1>1, <1>3, <1>5 DEF Grown, TypeOK
    <2>2. JobType(j)' /\ JobInv(j)'
        BY <2>1, <1>1, <1>5, FinishKeeps, ThrowKeeps
    <2> QED
        BY <2>1, <2>2, <1>1, <1>2, <1>3, <1>5 DEF Safe
<1> QED
    BY <1>4, <1>5 DEF Publish, PublishUnanswered

\* A safe step of one job keeps the types and every job's invariant.
LEMMA SafeKeepsJobs ==
    ASSUME Inv, NEW j \in Jobs, Safe(j)
    PROVE  \A k \in Jobs : JobInv(k)'
<1> SUFFICES ASSUME NEW k \in Jobs, k # j PROVE JobInv(k)'
    BY DEF Safe
<1> QED
    BY RestingKeeps DEF Inv, Safe

\* OneBuild and PlatformsFirst only look at the registry.
LEMMA ReleaseStays ==
    ASSUME Inv, NEW j \in Jobs, Safe(j),
           \/ UNCHANGED registry
           \/ \E p \in left[j] :
                 /\ registry[p] = None /\ stage[j] \in {"publish", "main"}
                 /\ registry' = [registry EXCEPT ![p] = Archive[build[j]][p]]
    PROVE  OneBuild' /\ PlatformsFirst'
<1>1. CASE registry'[Main] = registry[Main]
    <2>1. ASSUME NEW b \in Builds, Complete(b) PROVE Complete(b)'
        <3>1. ASSUME NEW p \in Packages PROVE registry'[p] = Archive[b][p]
            <4>1. Archive[b][p] # None
                BY ReleaseAssumption
            <4> QED
                BY <2>1, <4>1 DEF Complete, Safe, Grown
        <3> QED
            BY <3>1 DEF Complete
    <2> QED
        BY <1>1, <2>1 DEF Inv, OneBuild, PlatformsFirst, Safe, Grown
<1>2. CASE registry'[Main] # registry[Main]
    <2>1. PICK p \in left[j] :
             /\ registry[p] = None /\ stage[j] \in {"publish", "main"}
             /\ registry' = [registry EXCEPT ![p] = Archive[build[j]][p]]
        BY <1>2
    <2>2. p = Main /\ stage[j] = "main" /\ build[j] \in Builds
        BY <2>1, <1>2, ReleaseAssumption DEF Inv, TypeOK
    <2>3. PICK b \in Builds : b = build[j]
        BY <2>2
    <2>4. Complete(b)'
        <3>1. registry'[Main] = Archive[b][Main]
            BY <2>1, <2>2, <2>3 DEF Inv, TypeOK, Packages
        <3>2. ASSUME NEW q \in Platforms PROVE registry'[q] = Archive[b][q]
            <4>1. registry[q] = Archive[b][q]
                BY <2>2, <2>3 DEF Inv, JobInv, Matches
            <4> QED
                BY <4>1, <2>1, <2>2, ReleaseAssumption DEF Inv, TypeOK, Packages
        <3> QED
            BY <3>1, <3>2 DEF Complete, Packages
    <2>5. Platforms \subseteq visible'
        BY <2>2 DEF Inv, JobInv, Safe, Grown
    <2> QED
        BY <2>4, <2>5 DEF OneBuild, PlatformsFirst
<1> QED
    BY <1>1, <1>2

\* Appear concerns no job.
LEMMA AppearInv ==
    ASSUME Inv, NEW p \in Packages, Appear(p)
    PROVE  Inv'
<1>1. Grown /\ \A j \in Jobs : Resting(j)
    BY DEF Appear, Grown, Resting, job
<1>2. \A j \in Jobs : JobInv(j)'
    BY <1>1, RestingKeeps DEF Inv
<1>3. TypeOK' /\ OneBuild' /\ PlatformsFirst'
    BY DEF Appear, job, Inv, TypeOK, OneBuild, Complete, PlatformsFirst
<1> QED
    BY <1>2, <1>3 DEF Inv

\* A step of one job changes nothing else of its kind.
LEMMA OneJob ==
    ASSUME TypeOK, NEW j \in Jobs,
           Begin(j) \/ Step(j) \/ PublishUnanswered(j) \/ GiveUp(j) \/ Fail(j)
    PROVE  /\ \E x : stage' = [stage EXCEPT ![j] = x]
           /\ build' \in [Jobs -> Builds]
           /\ \E x : staged' = [staged EXCEPT ![j] = x]
           /\ \E x : left' = [left EXCEPT ![j] = x]
           /\ \E x : absent' = [absent EXCEPT ![j] = x]
           /\ faults' \in 0..MaxFaults
<1> DEFINE Unchanged(f) == [f EXCEPT ![j] = f[j]]
<1>1. /\ stage = Unchanged(stage) /\ staged = Unchanged(staged)
      /\ left = Unchanged(left) /\ absent = Unchanged(absent)
    BY DEF TypeOK
<1> HIDE DEF Unchanged
<1>2. ASSUME Throw(j) \/ \E p \in Packages : Finish(j, p)
      PROVE  /\ \E x : stage' = [stage EXCEPT ![j] = x]
             /\ build' = build
             /\ \E x : staged' = [staged EXCEPT ![j] = x]
             /\ \E x : left' = [left EXCEPT ![j] = x]
             /\ \E x : absent' = [absent EXCEPT ![j] = x]
    BY <1>1, <1>2 DEF Throw, Finish, Unchanged
<1>3. CASE Begin(j)
    BY <1>1, <1>3 DEF Begin, TypeOK, Unchanged
<1>4. CASE Look(j)
    <2>1. CASE Throw(j) \/ \E p \in Packages : Finish(j, p)
        BY <1>2, <1>4, <2>1 DEF Look, TypeOK
    <2>2. CASE UNCHANGED <<stage, build, staged, left>> /\ \E p : absent' = [absent EXCEPT ![j] = p]
        <3>1. stage' = Unchanged(stage) /\ staged' = Unchanged(staged) /\ left' = Unchanged(left)
            BY <1>1, <2>2
        <3>2. build' \in [Jobs -> Builds] /\ faults' \in 0..MaxFaults
            BY <1>4, <2>2 DEF Look, TypeOK
        <3> QED
            BY <2>2, <3>1, <3>2 DEF Unchanged
    <2>3. /\ \E p \in left[j] :
                 \/ absent' = [absent EXCEPT ![j] = p] /\ UNCHANGED <<stage, build, staged, left>>
                 \/ Throw(j) \/ Finish(j, p)
          /\ left[j] \subseteq Packages
        BY <1>4 DEF Look, TypeOK
    <2> QED
        BY <2>1, <2>2, <2>3
<1>5. CASE Publish(j) \/ PublishUnanswered(j) \/ Verify(j) \/ GiveUp(j) \/ Fail(j)
    <2>1. Throw(j) \/ \E p \in Packages : Finish(j, p)
        BY <1>5 DEF Publish, PublishUnanswered, Verify, GiveUp, Fail, TypeOK
    <2>2. faults' \in 0..MaxFaults
        <3>1. MaxFaults \in Nat /\ faults \in 0..MaxFaults
            BY ReleaseAssumption DEF TypeOK
        <3>2. UNCHANGED faults \/ (faults < MaxFaults /\ faults' = faults + 1)
            BY <1>5 DEF Publish, PublishUnanswered, Verify, GiveUp, Fail
        <3> QED
            BY <3>1, <3>2
    <2> QED
        BY <1>2, <2>1, <2>2 DEF TypeOK
<1> QED
    BY <1>3, <1>4, <1>5 DEF Step

\* So all types stay when that job's do.
LEMMA TypeStays ==
    ASSUME Inv, NEW j \in Jobs,
           Begin(j) \/ Step(j) \/ PublishUnanswered(j) \/ GiveUp(j) \/ Fail(j),
           Safe(j), UNCHANGED visible,
           \/ UNCHANGED registry
           \/ \E p \in left[j] :
                 /\ registry[p] = None /\ stage[j] \in {"publish", "main"}
                 /\ registry' = [registry EXCEPT ![p] = Archive[build[j]][p]]
    PROVE  TypeOK'
<1> USE DEF Inv
<1>1. /\ stage' \in [Jobs -> Stages] /\ staged' \in [Jobs -> SUBSET Platforms]
      /\ left' \in [Jobs -> SUBSET Packages] /\ absent' \in [Jobs -> Packages \cup {None}]
      /\ build' \in [Jobs -> Builds] /\ faults' \in 0..MaxFaults
    BY OneJob DEF Safe, JobType, TypeOK
<1>2. ASSUME NEW k \in Jobs
      PROVE  /\ absent'[k] # None => absent'[k] \in left'[k] /\ stage'[k] \in {"publish", "main"}
             /\ stage'[k] \in {"publish", "verify"} => left'[k] \subseteq Platforms
    BY DEF Safe, JobType, Resting, TypeOK
<1>3. registry' \in [Packages -> {Archive[b][p] : b \in Builds, p \in Packages} \cup {None}]
    BY DEF TypeOK
<1>4. \A p \in visible' : p \in Packages /\ registry'[p] # None
    BY DEF Safe, Grown, TypeOK
<1> QED
    BY <1>1, <1>2, <1>3, <1>4 DEF TypeOK

\* Inv is inductive.
LEMMA NextInv ==
    ASSUME Inv, [Next]_vars
    PROVE  Inv'
<1>1. ASSUME NEW j \in Jobs,
             Begin(j) \/ Step(j) \/ PublishUnanswered(j) \/ GiveUp(j) \/ Fail(j)
      PROVE  Inv'
    <2>1. /\ Safe(j) /\ UNCHANGED visible
          /\ \/ UNCHANGED registry
             \/ \E p \in left[j] :
                   /\ registry[p] = None /\ stage[j] \in {"publish", "main"}
                   /\ registry' = [registry EXCEPT ![p] = Archive[build[j]][p]]
        BY <1>1, QuietSteps, PublishingSteps DEF Step
    <2>2. TypeOK'
        BY <1>1, <2>1, TypeStays
    <2>3. OneBuild' /\ PlatformsFirst'
        BY <2>1, ReleaseStays
    <2>4. \A k \in Jobs : JobInv(k)'
        BY <2>1, SafeKeepsJobs
    <2> QED
        BY <2>2, <2>3, <2>4 DEF Inv
<1>2. CASE UNCHANGED vars
    BY <1>2 DEF vars, job, Inv, TypeOK, JobInv, Matches, OneBuild, Complete, PlatformsFirst
<1> QED
    BY <1>1, <1>2, AppearInv DEF Next

\* Inv holds in every state.
LEMMA InvHolds == Spec => []Inv
<1> QED
    BY InitInv, NextInv, PTL DEF Spec

\* The release is of one build, however jobs of different builds overlap,
\* fail, lose the registry's word and start again (publishReleasePackages).
THEOREM OneBuildReleased == Spec => []OneBuild
BY InvHolds, PTL DEF Inv

\* The main package is accepted only when npm shows every platform package
\* (publishReleasePackages).
THEOREM PlatformsReleasedFirst == Spec => []PlatformsFirst
BY InvHolds, PTL DEF Inv

\* A job that succeeds has published, or found, all archives of its build.
THEOREM SuccessfulRelease == Spec => []SuccessIsRelease
<1>1. Inv => SuccessIsRelease
    BY DEF Inv, JobInv, Matches, SuccessIsRelease, Complete, Packages
<1> QED
    BY <1>1, InvHolds, PTL

\* Every variable of Release keeps its type.
THEOREM ReleaseTypes == Spec => []TypeOK
BY InvHolds, PTL DEF Inv

-----------------------------------------------------------------------------
(* The release behind its gate.                                            *)

Good(b) == Synchronized(Source[b]) /\ MayStage(Source[b], Tag)

Working(j) == stage[j] \in {"publish", "verify", "main"}

\* Whatever the registry has is staged from manifests that agree.
GateInv ==
    /\ \A j \in Jobs : Working(j) => Good(build[j])
    /\ \A p \in Packages : registry[p] # None =>
          \E b \in Builds : Good(b) /\ registry[p] = Archive[b][p]

ReleaseInv == Inv /\ GateInv

\* A job that refuses a build does what one does that finds an archive
\* missing; all else is done by Release, or concerns it not.
LEMMA StepRefines ==
    ASSUME [DistNext]_distVars
    PROVE  [Next]_vars
<1>1. ASSUME NEW j \in Jobs, BeginSynchronized(j)
      PROVE  Next
    BY <1>1 DEF BeginSynchronized, Next
<1>2. ASSUME NEW j \in Jobs, Refuse(j)
      PROVE  Next
    <2>1. PICK found \in Staged : ~Exact(found)
        BY DistributionAssumption DEF Exact
    <2>2. PICK b \in Builds : TRUE
        BY <1>2 DEF Refuse
    <2>3. Begin(j)
        BY <1>2, <2>1, <2>2 DEF Refuse, Begin
    <2> QED
        BY <2>3 DEF Next
<1>3. CASE Released
    BY <1>3 DEF Released, Next
<1>4. CASE Update \/ Abort \/ (\E f \in Files : Replace(f)) \/ Start \/ ReadMetadata
           \/ VerifyDigest \/ Spawn \/ Exit \/ UNCHANGED distVars
    BY <1>4 DEF Update, Abort, Replace, Start, ReadMetadata, VerifyDigest, Spawn, Exit, distVars
<1> QED
    BY <1>1, <1>2, <1>3, <1>4 DEF DistNext

\* What a step of a job that has begun does to it, and to the registry.
LEMMA WorkingSteps ==
    ASSUME Inv, NEW j \in Jobs, Step(j) \/ PublishUnanswered(j) \/ GiveUp(j) \/ Fail(j)
    PROVE  /\ Working(j) /\ build' = build
           /\ \A k \in Jobs \ {j} : stage'[k] = stage[k]
           /\ \/ UNCHANGED registry
              \/ \E p \in Packages : registry' = [registry EXCEPT ![p] = Archive[build[j]][p]]
<1>1. absent[j] # None => absent[j] \in Packages /\ stage[j] \in {"publish", "main"}
    BY DEF Inv, TypeOK
<1>2. DOMAIN stage = Jobs
    BY DEF Inv, TypeOK
<1> QED
    BY <1>1, <1>2 DEF Step, Look, Publish, Verify, PublishUnanswered, GiveUp, Fail, Finish, Throw, Working

\* Only packages of good builds come into the registry.
LEMMA GateKeeps ==
    ASSUME ReleaseInv, [DistNext]_distVars
    PROVE  GateInv'
<1> USE DEF ReleaseInv
<1>1. DOMAIN stage = Jobs /\ DOMAIN build = Jobs /\ DOMAIN registry = Packages /\ build \in [Jobs -> Builds]
    BY DEF Inv, TypeOK
<1>2. ASSUME NEW j \in Jobs, BeginSynchronized(j)
      PROVE  GateInv'
    <2>1. /\ stage'[j] = "publish" => Good(build'[j])
          /\ stage'[j] \in {"publish", "failed"}
          /\ \A k \in Jobs \ {j} : stage'[k] = stage[k] /\ build'[k] = build[k]
          /\ registry' = registry
        BY <1>1, <1>2 DEF BeginSynchronized, Begin, Good
    <2> QED
        BY <2>1 DEF GateInv, Working
<1>3. ASSUME NEW j \in Jobs, Refuse(j)
      PROVE  GateInv'
    BY <1>1, <1>3 DEF Refuse, GateInv, Working
<1>4. ASSUME NEW j \in Jobs, Step(j) \/ PublishUnanswered(j) \/ GiveUp(j) \/ Fail(j)
      PROVE  GateInv'
    <2>1. /\ Working(j) /\ build' = build
          /\ \A k \in Jobs \ {j} : stage'[k] = stage[k]
        BY <1>4, WorkingSteps
    <2>2. \A k \in Jobs : Working(k)' => Good(build'[k])
        BY <2>1 DEF GateInv, Working
    <2>3. CASE UNCHANGED registry
        BY <2>2, <2>3 DEF GateInv
    <2>4. ASSUME NEW p \in Packages, registry' = [registry EXCEPT ![p] = Archive[build[j]][p]]
          PROVE  GateInv'
        <3>1. Good(build[j]) /\ build[j] \in Builds
            BY <1>1, <2>1 DEF GateInv
        <3> QED
            BY <1>1, <2>2, <2>4, <3>1 DEF GateInv
    <2> QED
        BY <1>4, <2>3, <2>4, WorkingSteps
<1>5. CASE (\E p \in Packages : Appear(p)) \/ UNCHANGED vars
    BY <1>5 DEF Appear, job, vars, GateInv, Working
<1>6. CASE Update \/ Abort \/ (\E f \in Files : Replace(f)) \/ Start \/ ReadMetadata
           \/ VerifyDigest \/ Spawn \/ Exit \/ UNCHANGED distVars
    BY <1>5, <1>6 DEF Update, Abort, Replace, Start, ReadMetadata, VerifyDigest, Spawn, Exit, distVars
<1> QED
    BY <1>2, <1>3, <1>4, <1>5, <1>6 DEF DistNext, Released

LEMMA ReleaseKeeps ==
    ASSUME ReleaseInv, [DistNext]_distVars
    PROVE  ReleaseInv'
BY StepRefines, GateKeeps, NextInv DEF ReleaseInv

\* What the registry accepts stays.
LEMMA RegistryStays ==
    ASSUME ReleaseInv, [DistNext]_distVars, NEW p \in Packages, registry[p] # None
    PROVE  registry'[p] = registry[p]
<1>1. [Next]_vars
    BY StepRefines
<1>2. ASSUME NEW j \in Jobs, Begin(j) \/ Step(j) \/ PublishUnanswered(j) \/ GiveUp(j) \/ Fail(j)
      PROVE  registry'[p] = registry[p]
    BY <1>2, QuietSteps, PublishingSteps DEF Step, Safe, Grown, ReleaseInv
<1>3. CASE (\E q \in Packages : Appear(q)) \/ UNCHANGED vars
    BY <1>3 DEF Appear, vars
<1> QED
    BY <1>1, <1>2, <1>3 DEF Next

\* The packages of the release, as check-release-version and
\* stage-platform-package make them.
LEMMA PlatformPackage ==
    ASSUME ReleaseInv, NEW p \in Platforms, registry[p] # None
    PROVE  /\ registry[p].name = p /\ registry[p].on = p /\ registry[p].platform = p
           /\ registry[p].version = Tag
           /\ registry[p].digest = registry[p].file /\ registry[p].file.version = Tag
           /\ \E b \in Builds : registry[p] = Archive[b][p] /\ registry[p].file = Binary(b, p)
<1>1. p \in Packages /\ p # Main
    BY ReleaseAssumption DEF Packages
<1>2. PICK b \in Builds : Good(b) /\ registry[p] = Archive[b][p]
    BY <1>1 DEF ReleaseInv, GateInv
<1>3. registry[p] = StagePlatformPackage(b, p)
    BY <1>1, <1>2, DistributionAssumption DEF StagedArchive
<1>4. Source[b].npm = Tag /\ Source[b].cargo = Tag
    BY <1>2 DEF Good, Synchronized, MayStage
<1>5. Binary(b, p).version = Tag
    BY <1>4 DEF Binary
<1>6. registry[p].file = Binary(b, p)
    BY <1>3 DEF StagePlatformPackage
<1>7. /\ registry[p].name = p /\ registry[p].on = p /\ registry[p].platform = p
      /\ registry[p].version = Source[b].npm /\ registry[p].digest = Binary(b, p)
    BY <1>3 DEF StagePlatformPackage
<1> QED
    BY <1>2, <1>4, <1>5, <1>6, <1>7

LEMMA MainPackage ==
    ASSUME ReleaseInv, registry[Main] # None
    PROVE  /\ registry[Main].version = Tag
           /\ \A p \in Platforms : registry[Main].pins[p] = Tag
           /\ \E b \in Builds : registry[Main] = Archive[b][Main]
<1>1. Main \in Packages
    BY DEF Packages
<1>2. PICK b \in Builds : Good(b) /\ registry[Main] = Archive[b][Main]
    BY <1>1 DEF ReleaseInv, GateInv
<1>3. registry[Main] = StagePackage(b)
    BY <1>1, <1>2, DistributionAssumption DEF StagedArchive
<1>4. Source[b].npm = Tag /\ \A p \in Platforms : Source[b].pins[p] = Tag
    BY <1>2 DEF Good, Synchronized, MayStage
<1>5. registry[Main].version = Source[b].npm /\ registry[Main].pins = Source[b].pins
    BY <1>3 DEF StagePackage
<1> QED
    BY <1>2, <1>4, <1>5

\* All packages are there when the main package is.
LEMMA AllThere ==
    ASSUME ReleaseInv, registry[Main] # None, NEW p \in Platforms
    PROVE  p \in visible /\ registry[p] # None
BY DEF ReleaseInv, Inv, PlatformsFirst, TypeOK

-----------------------------------------------------------------------------
(* The machine.                                                            *)

\* Packages of the release before, or of this one once it is there.
IsRelease(main) == main = Previous[Main] \/ (main = registry[Main] /\ main # None)

IsNative(m) == m = Previous[Here] \/ (m = registry[Here] /\ m # None)

\* The native package that belongs to a main package, complete on the disk.
Consistent(main, native, binary) ==
    IsRelease(main) /\ native = Sibling(main, Here) /\ binary = native.file

DiskInv ==
    /\ DOMAIN disk = Files /\ unwritten \subseteq Files
    /\ disk["main"] \in {None, Torn} \/ IsRelease(disk["main"])
    /\ disk["metadata"] \in {None, Torn} \/ IsNative(disk["metadata"])
    /\ unwritten # {} =>
          /\ IsRelease(update.main) /\ (update.native = None \/ IsNative(update.native))
          /\ whole => update.native = Sibling(update.main, Here)
          /\ \A f \in Files \ unwritten : disk[f] = Content(update)[f]
    /\ whole /\ unwritten = {} =>
          disk["main"] = None \/ Consistent(disk["main"], disk["metadata"], disk["binary"])

LaunchInv ==
    /\ step \in {"locate", "verify", "spawn", "running"} => IsRelease(loaded)
    /\ step \in {"verify", "spawn", "running"} => where = Here /\ metadata = Sibling(loaded, Here)
    /\ step = "spawn" => late \/ disk["binary"] = metadata.digest
    /\ step = "running" => late \/ ran = metadata.digest
    /\ step \in {"locate", "verify", "spawn"} /\ ~disturbed => unwritten = {} /\ loaded = disk["main"]
    /\ LaunchesIfInstalled

DistInv == ReleaseInv /\ DiskInv /\ LaunchInv

\* A main package's native package is as the launcher expects it, and the only
\* one that is.
LEMMA SiblingFacts ==
    ASSUME ReleaseInv, NEW main, IsRelease(main)
    PROVE  LET s == Sibling(main, Here)
           IN  /\ main \notin {None, Torn}
               /\ s \notin {None, Torn} /\ IsNative(s)
               /\ s.name = Here /\ s.on = Here /\ s.platform = Here
               /\ s.version = main.version
               /\ s.digest = s.file /\ s.file \notin {None, Torn}
               /\ \A m : IsNative(m) /\ m.version = main.version => m = s
<1> USE DistributionAssumption
<1>1. registry[Here] # None => registry[Here].version = Tag
    BY PlatformPackage
<1>2. CASE main = Previous[Main]
    <2>1. Sibling(main, Here) = Previous[Here]
        BY <1>2 DEF Sibling
    <2> QED
        BY <1>1, <1>2, <2>1 DEF IsNative
<1>3. CASE main = registry[Main] /\ main # None
    <2>1. main.version = Tag /\ main # Torn
        BY <1>3, MainPackage
    <2>2. Sibling(main, Here) = registry[Here] /\ registry[Here] # None
        BY <1>3, <2>1, AllThere DEF Sibling
    <2>3. /\ registry[Here].name = Here /\ registry[Here].on = Here /\ registry[Here].platform = Here
          /\ registry[Here].digest = registry[Here].file
          /\ \E b \in Builds : registry[Here] = Archive[b][Here] /\ registry[Here].file = Binary(b, Here)
        BY <2>2, PlatformPackage
    <2> QED
        BY <1>1, <1>3, <2>1, <2>2, <2>3 DEF IsNative
<1> QED
    BY <1>2, <1>3 DEF IsRelease

\* npm finds a release, and the native package it is pinned to: a new main
\* package is only seen after the packages it depends on.
LEMMA LatestIsWhole ==
    ASSUME ReleaseInv
    PROVE  IsRelease(Latest) /\ Native(Latest.pins) = Sibling(Latest, Here)
<1> USE DistributionAssumption
<1>1. registry[Here] # None => registry[Here].version = Tag
    BY PlatformPackage
<1>2. Here \in visible => registry[Here] # None
    BY DEF ReleaseInv, Inv, TypeOK
<1>3. CASE Main \in visible
    <2>1. registry[Main] # None /\ Latest = registry[Main]
        BY <1>3 DEF ReleaseInv, Inv, TypeOK, Latest
    <2>2. registry[Main].pins[Here] = Tag /\ registry[Main].version = Tag /\ Here \in visible
        BY <2>1, MainPackage, AllThere
    <2> QED
        BY <1>1, <1>2, <2>1, <2>2 DEF Native, Sibling, IsRelease
<1>4. CASE Main \notin visible
    BY <1>1, <1>2, <1>4 DEF Latest, Native, Sibling, IsRelease
<1> QED
    BY <1>3, <1>4

\* Releases, their native packages and what belongs together stay so.
LEMMA ReleasesStay ==
    ASSUME ReleaseInv, [DistNext]_distVars, NEW main, IsRelease(main)
    PROVE  IsRelease(main)' /\ Sibling(main, Here)' = Sibling(main, Here)
<1> Main \in Packages /\ Here \in Packages
    BY DistributionAssumption DEF Packages
<1>1. CASE main = Previous[Main]
    BY <1>1 DEF IsRelease, Sibling
<1>2. CASE main = registry[Main] /\ main # None
    <2>1. registry[Here] # None
        BY <1>2, AllThere, DistributionAssumption
    <2> QED
        BY <1>2, <2>1, RegistryStays DEF IsRelease, Sibling
<1> QED
    BY <1>1, <1>2 DEF IsRelease

LEMMA NativesStay ==
    ASSUME ReleaseInv, [DistNext]_distVars, NEW m, IsNative(m)
    PROVE  IsNative(m)'
<1> Here \in Packages
    BY DistributionAssumption DEF Packages
<1> QED
    BY RegistryStays DEF IsNative

\* Steps that leave the disk alone.
LEMMA DiskStays ==
    ASSUME DistInv, [DistNext]_distVars, UNCHANGED machine
    PROVE  DiskInv'
<1> USE DEF DistInv, machine
<1>1. \A main : IsRelease(main) => IsRelease(main)' /\ Sibling(main, Here)' = Sibling(main, Here)
    BY ReleasesStay
<1>2. \A m : IsNative(m) => IsNative(m)'
    BY NativesStay
<1>3. Content(update)' = Content(update)
    BY DEF Content
<1> QED
    BY <1>1, <1>2, <1>3 DEF DiskInv, Consistent

\* Steps that leave the launch alone, and the disk or the launch undisturbed.
LEMMA LaunchStays ==
    ASSUME DistInv, [DistNext]_distVars,
           UNCHANGED <<step, where, loaded, metadata, ran>>,
           late => late',
           late' \/ disk'["binary"] = disk["binary"] \/ step # "spawn",
           \/ disturbed'
           \/ disturbed' = disturbed /\ (unwritten = {} => unwritten' = {} /\ disk' = disk)
              /\ (whole' => whole)
    PROVE  LaunchInv'
<1> USE DEF DistInv
<1>1. \A main : IsRelease(main) => IsRelease(main)' /\ Sibling(main, Here)' = Sibling(main, Here)
    BY ReleasesStay
<1>2. LaunchesIfInstalled'
    BY DEF LaunchInv, LaunchesIfInstalled
<1> QED
    BY <1>1, <1>2 DEF LaunchInv

LEMMA ReleasedKeeps ==
    ASSUME DistInv, [DistNext]_distVars, UNCHANGED <<machine, launch>>
    PROVE  DistInv'
<1>1. DiskInv'
    BY DiskStays
<1>2. LaunchInv'
    BY LaunchStays DEF machine, launch
<1> QED
    BY <1>1, <1>2, ReleaseKeeps DEF DistInv

LEMMA UpdateKeeps ==
    ASSUME DistInv, [DistNext]_distVars, Update
    PROVE  DistInv'
<1> USE DEF DistInv
<1>1. \A main : IsRelease(main) => IsRelease(main)' /\ Sibling(main, Here)' = Sibling(main, Here)
    BY ReleasesStay
<1>2. \A m : IsNative(m) => IsNative(m)'
    BY NativesStay
<1>3. /\ IsRelease(Latest) /\ Native(Latest.pins) = Sibling(Latest, Here)
      /\ IsNative(Sibling(Latest, Here))
    BY LatestIsWhole, SiblingFacts
<1>4. /\ update'.main = Latest
      /\ \/ update'.native = Sibling(Latest, Here)
         \/ update'.native = None /\ ~whole'
      /\ unwritten' = Files /\ disk' = disk
    BY <1>3 DEF Update
<1>5. DiskInv'
    BY <1>1, <1>2, <1>3, <1>4 DEF DiskInv, Files
<1>6. LaunchInv'
    BY LaunchStays DEF Update
<1> QED
    BY <1>5, <1>6, ReleaseKeeps

LEMMA AbortKeeps ==
    ASSUME DistInv, [DistNext]_distVars, Abort
    PROVE  DistInv'
<1> USE DEF DistInv
<1>1. \A main : IsRelease(main) => IsRelease(main)'
    BY ReleasesStay
<1>2. \A m : IsNative(m) => IsNative(m)'
    BY NativesStay
<1>3. DiskInv'
    BY <1>1, <1>2 DEF DiskInv, Abort
<1>4. LaunchInv'
    BY LaunchStays DEF Abort, launch
<1> QED
    BY <1>3, <1>4, ReleaseKeeps

\* The file that is written last makes the installation consistent.
LEMMA ReplaceKeeps ==
    ASSUME DistInv, [DistNext]_distVars, NEW f \in Files, Replace(f)
    PROVE  DistInv'
<1> USE DEF DistInv
<1>1. \A main : IsRelease(main) => IsRelease(main)' /\ Sibling(main, Here)' = Sibling(main, Here)
    BY ReleasesStay
<1>2. \A m : IsNative(m) => IsNative(m)'
    BY NativesStay
<1>3. LaunchInv'
    <2>1. CASE f = "binary"
        BY <2>1, LaunchStays DEF Replace
    <2>2. CASE f # "binary"
        <3>1. disk'["binary"] = disk["binary"]
            BY <2>2 DEF Replace, DiskInv, Files
        <3> QED
            BY <3>1, LaunchStays DEF Replace
    <2> QED
        BY <2>1, <2>2
<1>4. CASE disk' = [disk EXCEPT ![f] = Torn] /\ UNCHANGED <<update, unwritten>>
    <2>1. Content(update)' = Content(update)
        BY <1>4 DEF Content
    <2>2. /\ disk' = [disk EXCEPT ![f] = Torn] /\ update' = update /\ unwritten' = unwritten
          /\ whole' = whole /\ f \in unwritten
        BY <1>4 DEF Replace
    <2> QED
        BY <1>1, <1>2, <1>3, <2>1, <2>2, ReleaseKeeps DEF DiskInv
<1>5. CASE /\ disk' = [disk EXCEPT ![f] = Content(update)[f]]
           /\ unwritten' = unwritten \ {f}
           /\ update' = IF unwritten = {f} THEN Nowhere ELSE update
    <2>1. /\ f \in unwritten /\ whole' = whole /\ DOMAIN disk = Files /\ unwritten \subseteq Files
          /\ IsRelease(update.main) /\ (update.native = None \/ IsNative(update.native))
          /\ whole => update.native = Sibling(update.main, Here)
        BY DEF Replace, DiskInv
    <2>2. /\ Content(update)["main"] = update.main /\ Content(update)["metadata"] = update.native
          /\ update.native # None => Content(update)["binary"] = update.native.file
        BY DEF Content, Files
    <2>3. /\ DOMAIN disk' = Files /\ unwritten' \subseteq Files
          /\ \A g \in Files \ unwritten' : disk'[g] = Content(update)[g]
        BY <1>5, <2>1 DEF DiskInv
    <2>4. (disk["main"] \in {None, Torn} \/ IsRelease(disk["main"]))'
        BY <1>1, <1>5, <2>1, <2>2 DEF DiskInv
    <2>5. (disk["metadata"] \in {None, Torn} \/ IsNative(disk["metadata"]))'
        BY <1>2, <1>5, <2>1, <2>2 DEF DiskInv
    <2>6. CASE unwritten = {f}
        <3>1. unwritten' = {} /\ \A g \in Files : disk'[g] = Content(update)[g]
            BY <1>5, <2>3, <2>6
        <3>2. whole => Sibling(update.main, Here) # None
            BY <2>1, SiblingFacts
        <3>3. whole' => Consistent(disk["main"], disk["metadata"], disk["binary"])'
            BY <1>1, <2>1, <2>2, <3>1, <3>2 DEF Consistent, Files
        <3> QED
            BY <1>3, <2>3, <2>4, <2>5, <3>1, <3>3, ReleaseKeeps DEF DiskInv
    <2>7. CASE unwritten # {f}
        <3>1. update' = update /\ unwritten' # {} /\ unwritten # {}
            BY <1>5, <2>1, <2>7
        <3>2. Content(update)' = Content(update)
            BY <3>1 DEF Content
        <3> QED
            BY <1>1, <1>2, <1>3, <2>1, <2>3, <2>4, <2>5, <3>1, <3>2, ReleaseKeeps DEF DiskInv
    <2> QED
        BY <2>6, <2>7
<1> QED
    BY <1>4, <1>5 DEF Replace

\* A launch begins with a release, and with an installation that is complete
\* unless npm is at work or was stopped.
LEMMA StartKeeps ==
    ASSUME DistInv, [DistNext]_distVars, Start
    PROVE  DistInv'
<1> USE DEF DistInv
<1>1. UNCHANGED machine
    BY DEF Start
<1>2. \A main : IsRelease(main) => IsRelease(main)'
    BY ReleasesStay
<1>3. CASE disk["main"] = Torn /\ step' = "failed"
    <2>1. disturbed' = (unwritten # {})
        BY DEF Start
    <2>2. unwritten = {} => ~whole'
        BY <1>1, <1>3, SiblingFacts DEF Start, DiskInv, Consistent, machine
    <2>3. disturbed' \/ ~whole'
        BY <2>1, <2>2
    <2>4. LaunchInv'
        BY <1>3, <2>3 DEF LaunchInv, LaunchesIfInstalled
    <2> QED
        BY <1>1, <2>4, DiskStays, ReleaseKeeps
<1>4. CASE disk["main"] # Torn /\ step' \in {"done", "locate"} /\ loaded' = disk["main"]
    <2>1. LaunchInv'
        BY <1>1, <1>2, <1>4 DEF Start, DiskInv, LaunchInv, LaunchesIfInstalled, machine
    <2> QED
        BY <1>1, <2>1, DiskStays, ReleaseKeeps
<1> QED
    BY <1>3, <1>4 DEF Start

\* An installation no one is at work on, and no one has damaged, has what the
\* launch looks for.
LEMMA Undisturbed ==
    ASSUME DistInv, step \in {"locate", "verify", "spawn"}, ~disturbed, whole
    PROVE  Consistent(loaded, disk["metadata"], disk["binary"])
<1>1. IsRelease(loaded) /\ unwritten = {} /\ loaded = disk["main"] /\ loaded # None
    BY SiblingFacts DEF DistInv, LaunchInv
<1> QED
    BY <1>1 DEF DistInv, DiskInv

LEMMA ReadMetadataKeeps ==
    ASSUME DistInv, [DistNext]_distVars, ReadMetadata
    PROVE  DistInv'
<1> USE DEF DistInv
<1>1. UNCHANGED machine /\ step = "locate" /\ UNCHANGED <<where, loaded, ran, disturbed, late>>
    BY DEF ReadMetadata, Ends
<1>2. IsRelease(loaded) /\ IsRelease(loaded)' /\ Sibling(loaded, Here)' = Sibling(loaded, Here)
    BY <1>1, ReleasesStay DEF LaunchInv
<1>3. CASE Readable /\ Expected(disk["metadata"]) /\ metadata' = disk["metadata"] /\ step' = "verify"
    <2>1. disk["metadata"] = Sibling(loaded, Here) /\ where = Here
        BY <1>2, <1>3, SiblingFacts DEF DiskInv, Readable, Expected
    <2>2. LaunchInv'
        BY <1>1, <1>2, <1>3, <2>1 DEF LaunchInv, LaunchesIfInstalled, machine
    <2> QED
        BY <1>1, <2>2, DiskStays, ReleaseKeeps
<1>4. CASE (Readable => ~Expected(disk["metadata"])) /\ step' = "failed"
    <2>1. where # Here \/ disturbed \/ ~whole
        <3> SUFFICES ASSUME where = Here, ~disturbed, whole PROVE FALSE
            OBVIOUS
        <3>1. disk["metadata"] = Sibling(loaded, Here)
            BY <1>1, Undisturbed DEF Consistent
        <3> QED
            BY <1>2, <1>4, <3>1, SiblingFacts DEF Readable, Expected
    <2>2. LaunchInv'
        BY <1>1, <1>4, <2>1 DEF LaunchInv, LaunchesIfInstalled, machine
    <2> QED
        BY <1>1, <2>2, DiskStays, ReleaseKeeps
<1> QED
    BY <1>3, <1>4 DEF ReadMetadata, Ends

LEMMA VerifyDigestKeeps ==
    ASSUME DistInv, [DistNext]_distVars, VerifyDigest
    PROVE  DistInv'
<1> USE DEF DistInv
<1>1. /\ UNCHANGED machine /\ step = "verify"
      /\ UNCHANGED <<where, loaded, metadata, ran, disturbed>>
    BY DEF VerifyDigest, Ends
<1>2. /\ IsRelease(loaded) /\ IsRelease(loaded)' /\ Sibling(loaded, Here)' = Sibling(loaded, Here)
      /\ where = Here /\ metadata = Sibling(loaded, Here)
    BY <1>1, ReleasesStay DEF LaunchInv
<1>3. CASE DigestMatches(disk["binary"]) /\ step' \in {"done", "spawn"}
    <2>1. LaunchInv'
        BY <1>1, <1>2, <1>3 DEF LaunchInv, LaunchesIfInstalled, DigestMatches, machine
    <2> QED
        BY <1>1, <2>1, DiskStays, ReleaseKeeps
<1>4. CASE ~DigestMatches(disk["binary"]) /\ step' = "failed"
    <2>1. disturbed \/ ~whole
        BY <1>1, <1>2, <1>4, Undisturbed, SiblingFacts DEF Consistent, DigestMatches
    <2>2. LaunchInv'
        BY <1>1, <1>4, <2>1 DEF LaunchInv, LaunchesIfInstalled, machine
    <2> QED
        BY <1>1, <2>2, DiskStays, ReleaseKeeps
<1> QED
    BY <1>3, <1>4 DEF VerifyDigest, Ends

LEMMA SpawnKeeps ==
    ASSUME DistInv, [DistNext]_distVars, Spawn
    PROVE  DistInv'
<1> USE DEF DistInv
<1>1. /\ UNCHANGED machine /\ step = "spawn"
      /\ UNCHANGED <<where, loaded, metadata, disturbed, late>>
    BY DEF Spawn, Ends
<1>2. /\ IsRelease(loaded) /\ IsRelease(loaded)' /\ Sibling(loaded, Here)' = Sibling(loaded, Here)
      /\ where = Here /\ metadata = Sibling(loaded, Here)
    BY <1>1, ReleasesStay DEF LaunchInv
<1>3. CASE ran' = disk["binary"] /\ step' = "running"
    <2>1. LaunchInv'
        BY <1>1, <1>2, <1>3 DEF LaunchInv, LaunchesIfInstalled
    <2> QED
        BY <1>1, <2>1, DiskStays, ReleaseKeeps
<1>4. CASE disk["binary"] \in {None, Torn} /\ step' = "failed"
    <2>1. disturbed \/ ~whole
        BY <1>1, <1>2, <1>4, Undisturbed, SiblingFacts DEF Consistent
    <2>2. LaunchInv'
        BY <1>1, <1>4, <2>1 DEF LaunchInv, LaunchesIfInstalled, machine
    <2> QED
        BY <1>1, <2>2, DiskStays, ReleaseKeeps
<1> QED
    BY <1>3, <1>4 DEF Spawn, Ends

LEMMA ExitKeeps ==
    ASSUME DistInv, [DistNext]_distVars, Exit
    PROVE  DistInv'
<1>1. UNCHANGED machine /\ LaunchInv'
    BY DEF Exit, Ends, LaunchInv, LaunchesIfInstalled
<1> QED
    BY <1>1, DiskStays, ReleaseKeeps DEF DistInv

-----------------------------------------------------------------------------

LEMMA DistInitInv == DistInit => DistInv
<1> SUFFICES ASSUME DistInit PROVE DistInv
    OBVIOUS
<1>1. ReleaseInv
    BY InitInv DEF DistInit, Init, ReleaseInv, GateInv, Working
<1>2. disk = Content(Nowhere) \/ disk = Content([main |-> Previous[Main], native |-> Previous[Here]])
    BY DEF DistInit
<1>3. CASE disk = Content(Nowhere)
    BY <1>1, <1>3 DEF DistInit, DistInv, DiskInv, LaunchInv, LaunchesIfInstalled, Content, Nowhere, Files
<1>4. CASE disk = Content([main |-> Previous[Main], native |-> Previous[Here]])
    <2>1. /\ DOMAIN disk = Files /\ disk["main"] = Previous[Main] /\ disk["metadata"] = Previous[Here]
          /\ disk["binary"] = Previous[Here].file
        BY <1>4, DistributionAssumption DEF Content, Files
    <2> QED
        BY <1>1, <2>1 DEF DistInit, DistInv, DiskInv, LaunchInv, LaunchesIfInstalled,
                          Consistent, IsRelease, IsNative, Sibling
<1> QED
    BY <1>2, <1>3, <1>4

\* DistInv is inductive.
LEMMA DistNextInv ==
    ASSUME DistInv, [DistNext]_distVars
    PROVE  DistInv'
<1>1. CASE Released \/ (\E j \in Jobs : BeginSynchronized(j) \/ Refuse(j)) \/ UNCHANGED distVars
    BY <1>1, ReleasedKeeps DEF Released, BeginSynchronized, Refuse, distVars
<1> QED
    BY <1>1, UpdateKeeps, AbortKeeps, ReplaceKeeps, StartKeeps, ReadMetadataKeeps,
       VerifyDigestKeeps, SpawnKeeps, ExitKeeps DEF DistNext

LEMMA DistInvHolds == DistSpec => []DistInv
BY DistInitInv, DistNextInv, PTL DEF DistSpec

\* The distribution is a release: whatever it does, Release can do, so that
\* what is proved of Release holds of it (publishReleasePackages).
THEOREM DistributionReleases == DistSpec => Init /\ [][Next]_vars
<1>1. DistInit => Init
    BY DEF DistInit
<1> QED
    BY <1>1, StepRefines, PTL DEF DistSpec

\* A main package that can be installed pins packages that exist and that hold
\* binaries of its version (check-release-version, stage-platform-package and
\* publishReleasePackages).
THEOREM Synchronizes == DistSpec => []ReleasedIsSynchronized
<1>1. DistInv => ReleasedIsSynchronized
    BY MainPackage, PlatformPackage, AllThere DEF DistInv, ReleasedIsSynchronized
<1> QED
    BY <1>1, DistInvHolds, PTL

\* The process a user gets is the launcher's own binary, unless it was replaced
\* after its verification (ensureBinary, runBinary).
THEOREM Runs == DistSpec => []RunsItsRelease
<1>1. DistInv => RunsItsRelease
    BY SiblingFacts DEF DistInv, LaunchInv, RunsItsRelease
<1> QED
    BY <1>1, DistInvHolds, PTL

\* An undisturbed installation of a release can be launched (ensureBinary).
THEOREM Launches == DistSpec => []LaunchesIfInstalled
BY DistInvHolds, PTL DEF DistInv, LaunchInv

=============================================================================

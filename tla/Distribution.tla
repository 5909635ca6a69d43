----------------------------- MODULE Distribution -----------------------------
(***************************************************************************)
(* From the sources of a release to the process a user gets: the version   *)
(* check of the manifests, the staging of the packages, their publication  *)
(* (Release), their installation on one machine by npm, which is external  *)
(* and may be under way at any time, and the launcher that looks the       *)
(* native package up, verifies it and runs its binary.                     *)
(*                                                                         *)
(* Launches only read what is installed, so one at a time stands for all.  *)
(***************************************************************************)
EXTENDS Release, FiniteSets

CONSTANTS
    Source,    \* the manifests of a build
    Tag,       \* the version to release
    Previous,  \* the packages of the release before
    Here,      \* the platform npm installs for
    MaxLosses, \* bound on downloads lost and installations cut off
    Elsewhere, \* a platform no binary is published for
    Torn       \* the content of a file npm is about to replace

-----------------------------------------------------------------------------
(* Sources and packages.  A binary is known by its contents; its digest    *)
(* stands for them.                                                        *)

Binary(b, p) == [platform |-> p, version |-> Source[b].cargo, build |-> b]

\* Mutant: the binary's own version is not looked at.
SynchronizedButCargo(m) ==
    /\ m.npm = Tag /\ m.server = Tag /\ m.listed = Tag /\ m.named
    /\ DOMAIN m.pins = Platforms /\ \A p \in Platforms : m.pins[p] = Tag

\* Mutant: only the names of the optional dependencies are compared.
SynchronizedButPins(m) ==
    /\ m.cargo = m.npm /\ m.cargo = Tag
    /\ m.server = m.cargo /\ m.listed = m.cargo /\ m.named
    /\ DOMAIN m.pins = Platforms

\* check-release-version: Cargo.toml, package.json, server.json and the tag
\* have one version, to which every optional dependency is pinned, and these
\* are the platform packages.
Synchronized(m) ==
    /\ m.cargo = m.npm /\ m.cargo = Tag
    /\ m.server = m.cargo /\ m.listed = m.cargo /\ m.named
    /\ DOMAIN m.pins = Platforms /\ \A p \in Platforms : m.pins[p] = m.cargo

\* The versions stage-package and stage-platform-package insist on.
MayStage(m, version) == m.npm = version

StagePackage(b) == [name |-> Main, version |-> Source[b].npm, pins |-> Source[b].pins]

StagePlatformPackage(b, p) ==
    [name |-> p, version |-> Source[b].npm, on |-> p, platform |-> p,
     digest |-> Binary(b, p), file |-> Binary(b, p)]

StagedArchive ==
    [b \in Builds |-> [p \in Packages |-> IF p = Main THEN StagePackage(b)
                                                      ELSE StagePlatformPackage(b, p)]]

\* The archives are those staged, a job may find some of them missing, and the
\* release before was a release, of another version.
ASSUME DistributionAssumption ==
    /\ Archive = StagedArchive
    /\ \E found \in Staged : found # Platforms
    /\ Elsewhere \notin Packages /\ Here \in Platforms
    /\ Previous[Main].version # Tag
    /\ Previous[Main].pins[Here] = Previous[Main].version
    /\ LET p == Previous[Here]
       IN  /\ p.name = Here /\ p.on = Here /\ p.platform = Here
           /\ p.version = Previous[Main].version
           /\ p.digest = p.file /\ p.file \notin {None, Torn}
    /\ \A p \in {Main, Here} :
          /\ Previous[p] \notin {None, Torn}
          /\ \A b \in Builds : Archive[b][p] # Torn
    /\ \A b \in Builds : Binary(b, Here) \notin {None, Torn}
    /\ MaxLosses \in Nat

VARIABLES
    disk,      \* what is installed, by file
    update,    \* the packages npm is installing
    unwritten, \* the files it has still to write
    step,      \* where bin/codefacts.js is
    command,   \* what it has been asked for
    where,     \* the platform it runs on
    loaded,    \* the main package it belongs to
    metadata,  \* of the native package, as read
    ran,       \* the binary it has run
    losses,    \* bound counter
    whole,     \* auxiliary: the last installation has come to its end
    disturbed, \* auxiliary: npm was at work during this launch
    late       \* auxiliary: the binary was replaced after its verification

machine  == <<disk, update, unwritten, losses, whole>>
launch   == <<step, command, where, loaded, metadata, ran, disturbed, late>>
distVars == <<vars, machine, launch>>

Files == {"main", "metadata", "binary"}

Content(packages) ==
    [f \in Files |-> CASE f = "main"     -> packages.main
                       [] f = "metadata" -> packages.native
                       [] f = "binary"   -> IF packages.native = None THEN None
                                                                      ELSE packages.native.file]

Nowhere == [main |-> None, native |-> None]

DistInit ==
    /\ Init
    /\ disk \in {Content(Nowhere), Content([main |-> Previous[Main], native |-> Previous[Here]])}
    /\ update = Nowhere /\ unwritten = {} /\ losses = 0 /\ whole = TRUE
    /\ step = "idle" /\ command = "query" /\ where = Here
    /\ loaded = None /\ metadata = None /\ ran = None
    /\ disturbed = FALSE /\ late = FALSE

-----------------------------------------------------------------------------
(* The release.                                                            *)

\* A job goes on with a build whose manifests agree ...
BeginSynchronized(j) ==
    /\ Begin(j)
    /\ stage'[j] = "publish" => Synchronized(Source[build'[j]]) /\ MayStage(Source[build'[j]], Tag)
    /\ UNCHANGED <<machine, launch>>

\* ... and ends with any other.
Refuse(j) ==
    /\ stage[j] \in {"idle", "failed"}
    /\ \E b \in Builds : ~(Synchronized(Source[b]) /\ MayStage(Source[b], Tag))
    /\ stage' = [stage EXCEPT ![j] = "failed"]
    /\ UNCHANGED <<build, staged, left, absent, registry, visible, faults, machine, launch>>

Released ==
    /\ \/ \E j \in Jobs : Step(j) \/ PublishUnanswered(j) \/ GiveUp(j) \/ Fail(j)
       \/ \E p \in Packages : Appear(p)
    /\ UNCHANGED <<machine, launch>>

-----------------------------------------------------------------------------
(* npm on the machine.                                                     *)

Latest == IF Main \in visible THEN registry[Main] ELSE Previous[Main]

\* The package an optional dependency asks for, as far as npm shows it.
Native(pins) ==
    IF Here \in visible /\ registry[Here].version = pins[Here] THEN registry[Here]
    ELSE IF Previous[Here].version = pins[Here] THEN Previous[Here]
    ELSE None

\* An optional dependency that cannot be had is left out.
Update ==
    /\ unwritten = {} /\ disk["main"] # Latest
    /\ unwritten' = Files
    /\ \/ /\ update' = [main |-> Latest, native |-> Native(Latest.pins)]
          /\ whole' = TRUE
          /\ UNCHANGED losses
       \/ /\ losses < MaxLosses
          /\ update' = [main |-> Latest, native |-> None]
          /\ whole' = FALSE
          /\ losses' = losses + 1
    /\ disturbed' = TRUE
    /\ UNCHANGED <<vars, disk, step, command, where, loaded, metadata, ran, late>>

\* Files are replaced one by one, and none at once.
Replace(f) ==
    /\ f \in unwritten
    /\ \/ /\ disk[f] # Torn
          /\ disk' = [disk EXCEPT ![f] = Torn]
          /\ UNCHANGED <<update, unwritten>>
       \/ /\ disk[f] = Torn
          /\ disk' = [disk EXCEPT ![f] = Content(update)[f]]
          /\ unwritten' = unwritten \ {f}
          /\ update' = IF unwritten = {f} THEN Nowhere ELSE update
    /\ late' = (late \/ f = "binary")
    /\ UNCHANGED <<vars, losses, whole, step, command, where, loaded, metadata, ran, disturbed>>

\* npm is killed.
Abort ==
    /\ unwritten # {} /\ losses < MaxLosses
    /\ unwritten' = {} /\ update' = Nowhere
    /\ whole' = FALSE
    /\ losses' = losses + 1
    /\ UNCHANGED <<vars, disk, launch>>

-----------------------------------------------------------------------------
(* The launcher.                                                           *)

Ends(how) == step' = how /\ UNCHANGED <<loaded, metadata, ran>>

\* The modules and the package's own metadata are loaded, and the command is
\* looked at: help and version need no binary.
Start ==
    /\ step \in {"idle", "done", "failed"} /\ disk["main"] # None
    /\ command' \in {"version", "--install", "query"}
    /\ where' \in Platforms \cup {Elsewhere}
    /\ \/ /\ disk["main"] = Torn
          /\ step' = "failed" /\ loaded' = None
       \/ /\ disk["main"] # Torn
          /\ step' = IF command' = "version" THEN "done" ELSE "locate"
          /\ loaded' = disk["main"]
    /\ metadata' = None /\ ran' = None
    /\ disturbed' = (unwritten # {}) /\ late' = FALSE
    /\ UNCHANGED <<vars, machine>>

\* Mutant: any version of the native package will do.
AnyVersion(m) == m.name = where /\ m.on = where /\ m.platform = where

\* ensureBinary: the native package has the name, the version, the constraint
\* and the descriptor expected.
Expected(m) ==
    m.name = where /\ m.version = loaded.version /\ m.on = where /\ m.platform = where

\* The package of this platform is found and its metadata can be read.
Readable == where = Here /\ disk["metadata"] \notin {None, Torn}

ReadMetadata ==
    /\ step = "locate"
    /\ \/ /\ Readable /\ Expected(disk["metadata"])
          /\ metadata' = disk["metadata"]
          /\ step' = "verify"
          /\ UNCHANGED <<loaded, ran>>
       \/ /\ Readable => ~Expected(disk["metadata"])
          /\ Ends("failed")
    /\ UNCHANGED <<vars, machine, command, where, disturbed, late>>

\* Mutant: the digest is not compared.
IsThere(file) == file \notin {None, Torn}

\* The digest of the file is the one in the metadata.
DigestMatches(file) == file = metadata.digest

\* --install prints the path of a verified binary, any other command runs it.
VerifyDigest ==
    /\ step = "verify"
    /\ \/ /\ DigestMatches(disk["binary"])
          /\ Ends(IF command = "--install" THEN "done" ELSE "spawn")
          /\ late' = FALSE
       \/ /\ ~DigestMatches(disk["binary"])
          /\ Ends("failed")
          /\ UNCHANGED late
    /\ UNCHANGED <<vars, machine, command, where, disturbed>>

\* runBinary: whatever is at the path now.
Spawn ==
    /\ step = "spawn"
    /\ \/ /\ disk["binary"] \in {None, Torn}
          /\ Ends("failed")
       \/ /\ disk["binary"] \notin {None, Torn}
          /\ ran' = disk["binary"]
          /\ step' = "running"
          /\ UNCHANGED <<loaded, metadata>>
    /\ UNCHANGED <<vars, machine, command, where, disturbed, late>>

\* The binary's exit code, or 1 for a signal, becomes the launcher's.
Exit ==
    /\ step = "running"
    /\ Ends("done")
    /\ UNCHANGED <<vars, machine, command, where, disturbed, late>>

DistNext ==
    \/ \E j \in Jobs : BeginSynchronized(j) \/ Refuse(j)
    \/ Released
    \/ Update \/ Abort
    \/ \E f \in Files : Replace(f)
    \/ Start \/ ReadMetadata \/ VerifyDigest \/ Spawn \/ Exit

DistSpec == DistInit /\ [][DistNext]_distVars

-----------------------------------------------------------------------------

\* Once the main package can be installed, every package it is pinned to
\* exists under that version, and its binary says the same version, whichever
\* builds with whichever manifests were tried (check-release-version,
\* stage-platform-package and publishReleasePackages together).
ReleasedIsSynchronized ==
    registry[Main] # None =>
        \A p \in Platforms :
            /\ registry[p] # None
            /\ registry[p].version = registry[Main].version
            /\ registry[Main].pins[p] = registry[p].version
            /\ registry[p].file.version = registry[p].version

\* The platform's package in the release a main package belongs to.
Sibling(main, p) == IF main = Previous[Main] THEN Previous[p] ELSE registry[p]

\* The process a user gets is the binary released with the launcher, for the
\* platform it runs on, however launches and updates interleave; only a binary
\* replaced after its verification may be another one (ensureBinary).
RunsItsRelease ==
    step = "running" => late \/ ran = Sibling(loaded, where).file

\* A launch of an undisturbed installation of any published release succeeds
\* on the platform it was installed for: no order of publication and no
\* manifest a job accepts makes it fail.
LaunchesIfInstalled ==
    step = "failed" => where # Here \/ disturbed \/ ~whole

=============================================================================

---------------------------- MODULE Publication ----------------------------
(***************************************************************************)
(* Everything this program publishes under a name others read:             *)
(*                                                                         *)
(*   "run"        storage.RunStore.Write: a directory made at its final    *)
(*                name, then five files, each by a temporary and a rename; *)
(*   "artifacts"  attestation.WriteSigningArtifacts: the public key, then  *)
(*                the bundle, each by a temporary and a link;              *)
(*   "evaluation" repopass-acceptance-registry's publishNoReplace;         *)
(*   "kit"        repopass-kit's writeNewFileAtomically;                   *)
(*   "release"    repopass-release-qualify: a sealed copy of the directory *)
(*                the build made, qualified and renamed to dist;           *)
(*   the package  sourcequalification's assemble commands: lane            *)
(*   families     directories read, checked, staged and renamed;           *)
(*   the sidecar  releaseindex.publishNewDirectory: a staged directory     *)
(*   families     renamed to its destination and verified there.           *)
(*                                                                         *)
(* Several processes publish to one destination, any call may fail, a      *)
(* process may be killed and the machine may lose power.  A power loss     *)
(* keeps what was synced: a file's data by its own sync, a name by the     *)
(* sync of its directory; everything else it may drop.  A removal is taken *)
(* to be final.                                                            *)
(***************************************************************************)
EXTENDS ReleaseQualification, SourcePackage, FiniteSets

CONSTANTS Publishers,   \* processes that publish to the same destination
          Families,     \* the families of this instance
          EditLimit     \* bound on the edits of a release under construction

ASSUME EditLimitAssumption == EditLimit \in Nat

VARIABLES family,     \* what this behaviour publishes
          there,      \* does the destination directory exist
          dest,       \* the files under their final names
          durable,    \* the names whose directory entry is on disk
          dirDurable, \* is the destination directory's own entry on disk
          source,     \* the directories a release or a package is made from
          edits,      \* edits of source so far
          lost,       \* the machine has lost power
          pub         \* the processes

vars == <<family, there, dest, durable, dirDurable, source, edits, lost, pub>>

(***************************************************************************)
(* Files and the names of each family.                                     *)
(***************************************************************************)
Empty == [n \in {} |-> 0]

PublishSignedSidecars == <<"release-index.json", "signature.dsse.json", "signer-public-key.pem">>
PublishSignedPolicySidecars == <<"release-authority-public-key.pem", "release-key-policy.dsse.json">>
PublishSignedOfflineTrustPolicySidecars ==
  <<"offline-trust-policy-authority-public-key.pem", "offline-trust-policy.dsse.json">>
PublishSignedOfflineTrustPolicyAuthorityTransitionSidecars ==
  <<"offline-trust-policy-authority-public-key.pem",
    "offline-trust-policy-authority-transition.dsse.json",
    "offline-trust-policy-authority-trust-root-public-key.pem">>
PublishSignedOfflineTrustPolicyAuthorityTransitionChainSidecars ==
  <<"offline-trust-policy-authority-public-key.pem",
    "offline-trust-policy-authority-transition-chain.json",
    "offline-trust-policy-authority-trust-root-public-key.pem">>
PublishAuthorityTransitionSidecars ==
  <<"release-authority-public-key.pem", "release-authority-transition.dsse.json",
    "release-authority-trust-root-public-key.pem">>
PublishAuthorityTransitionChainSidecars ==
  <<"release-authority-public-key.pem", "release-authority-transition-chain.json",
    "release-authority-trust-root-public-key.pem">>

SidecarFamilies == {PublishSignedSidecars, PublishSignedPolicySidecars,
                    PublishSignedOfflineTrustPolicySidecars,
                    PublishSignedOfflineTrustPolicyAuthorityTransitionSidecars,
                    PublishSignedOfflineTrustPolicyAuthorityTransitionChainSidecars,
                    PublishAuthorityTransitionSidecars, PublishAuthorityTransitionChainSidecars}

PackageFiles == <<"archive", "manifest", "linux-receipt", "windows-receipt">>
ToolFiles == <<"linux-controller", "windows-controller", "tool-manifest">>
PackageFamilies == {PackageFiles, ToolFiles}

ASSUME FamiliesAssumption ==
  Families \subseteq {<<"run">>, <<"artifacts">>, <<"evaluation">>, <<"kit">>, <<"release">>}
                      \cup SidecarFamilies \cup PackageFamilies

\* The last two come out of a map: either order.
RunFiles(swapped) ==
  <<"verification.json", "report.html", "observations.ndjson">> \o
  IF swapped THEN <<"policy-decisions.json", "assertions.json">>
             ELSE <<"assertions.json", "policy-decisions.json">>

Files(p) ==
  CASE family = <<"run">>        -> RunFiles(pub[p].option)
    [] family = <<"artifacts">>  -> IF pub[p].option THEN <<"public-key", "bundle">> ELSE <<"bundle">>
    [] family = <<"evaluation">> -> <<"evaluation">>
    [] family = <<"kit">>        -> <<"kit">>
    [] family = <<"release">>    -> InventoryOrder
    [] OTHER                     -> family

NamesOf(p) == {Files(p)[i] : i \in 1 .. Len(Files(p))}

\* The families that publish a whole directory.
Staged == family \in SidecarFamilies \cup PackageFamilies \/ family = <<"release">>
Linked == family \in {<<"artifacts">>, <<"evaluation">>, <<"kit">>}

\* What p reports.  A name in confirmed is one p says is there to stay.
Outcome(result, published, confirmed) ==
  [result |-> result, published |-> published, confirmed |-> confirmed]
Pending == Outcome("pending", {}, {})

Idle == [pc |-> "idle", option |-> FALSE, temp |-> Empty, at |-> 0, input |-> Empty,
         troubled |-> FALSE, entriesSynced |-> FALSE, left |-> FALSE, outcome |-> Pending]

\* What lies ready to be published.
Sources ==
  CASE family = <<"release">> -> ReleaseOf([revision |-> "tested", serial |-> 1])
    [] family = PackageFiles  -> [lane \in Lanes |-> LaneDirectory(lane, "tested", 1, "PASS")]
    [] family = ToolFiles     ->
         [n \in {"package", "linux-controller", "windows-controller"} |->
            CASE n = "package" -> PackageOf(LaneDirectory("linux", "tested", 1, "PASS"),
                                            LaneDirectory("windows", "tested", 1, "PASS"))
              [] n = "linux-controller" -> [os |-> "linux", revision |-> "tested", serial |-> 1]
              [] n = "windows-controller" -> [os |-> "windows", revision |-> "tested", serial |-> 1]]
    [] OTHER                  -> Empty

Init ==
  /\ family \in Families
  /\ there = Linked
  /\ dirDurable = Linked
  /\ dest = Empty /\ durable = {}
  /\ source = Sources
  /\ edits = 0 /\ lost = FALSE
  /\ pub = [p \in Publishers |-> Idle]

SetPub(p, r) == pub' = [pub EXCEPT ![p] = r]

With(f, n, file) == [m \in DOMAIN f \cup {n} |-> IF m = n THEN file ELSE f[m]]
Without(f, n) == [m \in DOMAIN f \ {n} |-> f[m]]

\* Which files p has published and still has under their final names.
Mine(p) == {n \in DOMAIN dest : dest[n].by = p}

Disk == <<there, dest, durable, dirDurable>>

\* p returns.  Its deferred functions remove its temporaries.
Return(p, outcome) ==
  SetPub(p, [pub[p] EXCEPT !.pc = "done", !.temp = Empty, !.outcome = outcome])

Goto(p, pc) == SetPub(p, [pub[p] EXCEPT !.pc = pc])

Failed == Outcome("error", {}, {})

(***************************************************************************)
(* Preparation.                                                            *)
(***************************************************************************)
Started(p, pc, option) == [pub[p] EXCEPT !.pc = pc, !.option = option, !.at = 1]

\* A document, a path or a destination is refused before anything is written.
Refuse(p) ==
  /\ pub[p].pc = "idle"
  /\ Return(p, Failed)
  /\ UNCHANGED <<family, source, edits, lost, Disk>>

\* RunStore.Write makes its directory here, and only where there is none.
MakeRunDirectory(p) ==
  /\ family = <<"run">> /\ pub[p].pc = "idle" /\ ~ there
  /\ there' = TRUE
  /\ \E swapped \in BOOLEAN : SetPub(p, Started(p, "write", swapped))
  /\ UNCHANGED <<family, dest, durable, dirDurable, source, edits, lost>>

\* The key is loaded only if neither artifact is there yet.
LoadPrivateKeyForArtifacts(p) ==
  /\ family = <<"artifacts">> /\ pub[p].pc = "idle"
  /\ \E withKey \in BOOLEAN :
       /\ (IF withKey THEN {"public-key", "bundle"} ELSE {"bundle"}) \cap DOMAIN dest = {}
       /\ SetPub(p, Started(p, "write", withKey))
  /\ UNCHANGED <<family, source, edits, lost, Disk>>

\* Reads the registry and evaluates it; looks at no destination.
dispatch(p) ==
  /\ family = <<"evaluation">> /\ pub[p].pc = "idle"
  /\ SetPub(p, Started(p, "write", FALSE))
  /\ UNCHANGED <<family, source, edits, lost, Disk>>

readRegularBinary(p) ==
  /\ family = <<"kit">> /\ pub[p].pc = "idle"
  /\ SetPub(p, Started(p, "write", FALSE))
  /\ UNCHANGED <<family, source, edits, lost, Disk>>

\* A new staging directory beside a destination that is not there.
publishNewDirectory(p) ==
  /\ family \in SidecarFamilies /\ pub[p].pc = "idle" /\ ~ there
  /\ SetPub(p, Started(p, "write", FALSE))
  /\ UNCHANGED <<family, source, edits, lost, Disk>>

\* A new sealed directory beside a destination that is not there.
SealSnapshot(p) ==
  /\ family = <<"release">> /\ pub[p].pc = "idle" /\ ~ there
  /\ qualificationInventoryExact(source)
  /\ SetPub(p, Started(p, "copy", FALSE))
  /\ UNCHANGED <<family, source, edits, lost, Disk>>

(***************************************************************************)
(* sourcequalification.Assemble and AssembleTools: what they read.         *)
(***************************************************************************)
Assemble(p) ==
  /\ family \in PackageFamilies /\ pub[p].pc = "idle" /\ ~ there
  /\ SetPub(p, Started(p, "read", FALSE))
  /\ UNCHANGED <<family, source, edits, lost, Disk>>

Inputs == IF family = PackageFiles THEN <<"linux", "windows">>
          ELSE <<"package", "linux-controller", "windows-controller">>

\* Every file is read twice and looked at once more when all were read, so
\* that what a directory is taken to hold is what it held at that moment.
readExactPackageDirectory(p) ==
  /\ pub[p].pc = "read"
  /\ \/ SetPub(p, [pub[p] EXCEPT
          !.input = With(@, Inputs[pub[p].at], source[Inputs[pub[p].at]]),
          !.pc = IF pub[p].at = Len(Inputs) THEN "assemble" ELSE "read",
          !.at = IF pub[p].at = Len(Inputs) THEN 1 ELSE @ + 1])
     \/ Return(p, Failed)
  /\ UNCHANGED <<family, source, edits, lost, Disk>>

\* The caller says which subject and which run a package is to be about.
Expected == [subject |-> "tested", run |-> 1]

Assembles(input) ==
  IF family = PackageFiles THEN assemblesPackage(input["linux"], input["windows"], Expected)
  ELSE assemblesTools(input["package"], input["linux-controller"], input["windows-controller"])

Assembled(input) ==
  IF family = PackageFiles THEN PackageOf(input["linux"], input["windows"])
  ELSE ToolsOf(input["package"], input["linux-controller"], input["windows-controller"])

\* The checks, then a private staging directory beside the output.
createPrivateQualificationStaging(p) ==
  /\ pub[p].pc = "assemble"
  /\ \/ Assembles(pub[p].input) /\ Goto(p, "write")
     \/ Return(p, Failed)
  /\ UNCHANGED <<family, source, edits, lost, Disk>>

(***************************************************************************)
(* Writing: one temporary at a time, or one staged file at a time.         *)
(***************************************************************************)
Current(p) == Files(p)[pub[p].at]

\* The file p is about to publish was written after another was published:
\* an error now must still say so.
Abandon(p) ==
  IF family = <<"artifacts">> /\ pub[p].at = 2
  THEN Outcome("error", {"public-key"}, {"public-key"})
  ELSE Failed

Data(p) == IF family \in PackageFamilies THEN Assembled(pub[p].input)[Current(p)] ELSE Current(p)

Written(p, state) ==
  [pub[p] EXCEPT !.temp = With(@, Current(p), [by |-> p, data |-> Data(p), state |-> state])]

WriteFile(p) ==
  /\ pub[p].pc = "write"
  /\ \/ SetPub(p, [Written(p, "cached") EXCEPT !.pc = "sync"])
     \/ Return(p, Abandon(p))
  /\ UNCHANGED <<family, source, edits, lost, Disk>>

SyncFile(p) ==
  /\ pub[p].pc = "sync" /\ ~ Staged
  /\ \/ SetPub(p, [Written(p, "synced") EXCEPT !.pc = "place"])
     \/ Return(p, Abandon(p))
  /\ UNCHANGED <<family, source, edits, lost, Disk>>

SyncStagedFile(p) ==
  /\ pub[p].pc = "sync" /\ Staged
  /\ \/ IF pub[p].at < Len(Files(p))
        THEN SetPub(p, [Written(p, "synced") EXCEPT !.pc = "write", !.at = @ + 1])
        ELSE SetPub(p, [Written(p, "synced") EXCEPT !.pc = "syncStaging"])
     \/ Return(p, Failed)
  /\ UNCHANGED <<family, source, edits, lost, Disk>>

(***************************************************************************)
(* storage.RunStore.Write.                                                 *)
(***************************************************************************)
RenameIntoRun(p) ==
  /\ pub[p].pc = "place" /\ family = <<"run">>
  /\ \/ /\ dest' = With(dest, Current(p), pub[p].temp[Current(p)])
        /\ durable' = durable \ {Current(p)}
        /\ IF pub[p].at = Len(Files(p))
           THEN Return(p, Outcome("ok", NamesOf(p), {}))
           ELSE SetPub(p, [pub[p] EXCEPT !.pc = "write", !.at = @ + 1, !.temp = Empty])
     \/ Return(p, Failed) /\ UNCHANGED <<dest, durable>>
  /\ UNCHANGED <<family, there, dirDurable, source, edits, lost>>

\* A run is what its verification.json says, if that is whole.
Read == IF there /\ "verification.json" \in DOMAIN dest /\ dest["verification.json"].state # "torn"
        THEN <<dest["verification.json"]>>
        ELSE <<>>

(***************************************************************************)
(* attestation.writeNewArtifact.                                           *)
(***************************************************************************)
publishBundleNoReplace_replacing(p) ==
  /\ pub[p].pc = "place" /\ family = <<"artifacts">>
  /\ \/ /\ dest' = With(dest, Current(p), pub[p].temp[Current(p)])
        /\ durable' = durable \ {Current(p)}
        /\ \E troubled \in BOOLEAN :
             SetPub(p, [pub[p] EXCEPT !.pc = "confirm", !.troubled = troubled])
     \/ Return(p, Abandon(p)) /\ UNCHANGED <<dest, durable>>
  /\ UNCHANGED <<family, there, dirDurable, source, edits, lost>>

\* os.Link refuses an existing name; removing the temporary may then fail,
\* once here and once in removeOwnedTemporary.
publishBundleNoReplace(p) ==
  /\ pub[p].pc = "place" /\ family = <<"artifacts">>
  /\ \/ /\ Current(p) \notin DOMAIN dest
        /\ dest' = With(dest, Current(p), pub[p].temp[Current(p)])
        /\ durable' = durable \ {Current(p)}
        /\ \E troubled \in BOOLEAN :
             SetPub(p, [pub[p] EXCEPT !.pc = "confirm", !.troubled = troubled])
     \/ Return(p, Abandon(p)) /\ UNCHANGED <<dest, durable>>
  /\ UNCHANGED <<family, there, dirDurable, source, edits, lost>>

\* What a failure after the link says of the artifact just published; the key,
\* if there is one, was published and confirmed before.
PublishedError(p, confirmed) ==
  LET before == IF pub[p].at = 2 THEN {"public-key"} ELSE {} IN
  Outcome("error", before \cup {Current(p)}, before \cup (IF confirmed THEN {Current(p)} ELSE {}))

ConfirmArtifact(p) ==
  /\ pub[p].pc = "confirm"
  /\ \/ Goto(p, "syncParent") \/ Return(p, PublishedError(p, FALSE))
  /\ UNCHANGED <<family, source, edits, lost, Disk>>

syncBundleDirectorySkipped(p) ==
  /\ pub[p].pc = "syncParent" /\ family = <<"artifacts">>
  /\ \/ /\ IF pub[p].troubled THEN Return(p, PublishedError(p, TRUE))
           ELSE IF pub[p].at < Len(Files(p))
           THEN SetPub(p, [pub[p] EXCEPT !.pc = "inspect", !.at = @ + 1, !.temp = Empty])
           ELSE Return(p, Outcome("ok", NamesOf(p), NamesOf(p)))
        /\ UNCHANGED durable
     \/ Return(p, PublishedError(p, FALSE)) /\ UNCHANGED durable
  /\ UNCHANGED <<family, there, dest, dirDurable, source, edits, lost>>

syncBundleDirectory(p) ==
  /\ pub[p].pc = "syncParent" /\ family = <<"artifacts">>
  /\ \/ /\ IF pub[p].troubled THEN Return(p, PublishedError(p, TRUE))
           ELSE IF pub[p].at < Len(Files(p))
           THEN SetPub(p, [pub[p] EXCEPT !.pc = "inspect", !.at = @ + 1, !.temp = Empty])
           ELSE Return(p, Outcome("ok", NamesOf(p), NamesOf(p)))
        /\ durable' = DOMAIN dest
     \/ Return(p, PublishedError(p, FALSE)) /\ UNCHANGED durable
  /\ UNCHANGED <<family, there, dest, dirDurable, source, edits, lost>>

\* Each artifact's destination is looked at again before its temporary is made.
inspectNewArtifactDestination(p) ==
  /\ pub[p].pc = "inspect"
  /\ \/ Current(p) \notin DOMAIN dest /\ Goto(p, "write")
     \/ Return(p, Abandon(p))
  /\ UNCHANGED <<family, source, edits, lost, Disk>>

(***************************************************************************)
(* repopass-kit and repopass-acceptance-registry.                          *)
(***************************************************************************)
\* Link, and nothing after it.
writeNewFileAtomically(p) ==
  /\ pub[p].pc = "place" /\ family = <<"kit">>
  /\ \/ /\ "kit" \notin DOMAIN dest
        /\ dest' = With(dest, "kit", pub[p].temp["kit"])
        /\ Return(p, Outcome("ok", {"kit"}, {}))
     \/ Return(p, Failed) /\ UNCHANGED dest
  /\ UNCHANGED <<family, there, durable, dirDurable, source, edits, lost>>

publishNoReplace(p) ==
  /\ pub[p].pc = "place" /\ family = <<"evaluation">>
  /\ \/ /\ "evaluation" \notin DOMAIN dest
        /\ dest' = With(dest, "evaluation", pub[p].temp["evaluation"])
        /\ Goto(p, "readBack")
     \/ Return(p, Failed) /\ UNCHANGED dest
  /\ UNCHANGED <<family, there, durable, dirDurable, source, edits, lost>>

\* The temporary is removed and the file read back; any trouble withdraws the
\* file, and nobody looks whether that worked.
readBack(p) ==
  /\ pub[p].pc = "readBack"
  /\ \/ Return(p, Outcome("ok", {"evaluation"}, {})) /\ UNCHANGED <<dest, durable>>
     \/ /\ dest' = Without(dest, "evaluation") /\ durable' = durable \ {"evaluation"}
        /\ Return(p, Failed)
     \/ /\ SetPub(p, [pub[p] EXCEPT !.pc = "done", !.temp = Empty, !.left = TRUE, !.outcome = Failed])
        /\ UNCHANGED <<dest, durable>>
  /\ UNCHANGED <<family, there, dirDurable, source, edits, lost>>

(***************************************************************************)
(* releaseindex.publishNewDirectory.                                       *)
(***************************************************************************)
SyncStagingSkipped(p) ==
  /\ pub[p].pc = "syncStaging"
  /\ Goto(p, "rename")
  /\ UNCHANGED <<family, source, edits, lost, Disk>>

\* The staged directory's names reach the disk.
SyncStaging(p) ==
  /\ pub[p].pc = "syncStaging"
  /\ \/ SetPub(p, [pub[p] EXCEPT !.pc = "rename", !.entriesSynced = TRUE])
     \/ Return(p, Failed)
  /\ UNCHANGED <<family, source, edits, lost, Disk>>

\* RENAME_NOREPLACE: the whole directory appears at once or not at all.
atomicPublishDirectory(p) ==
  /\ pub[p].pc = "rename" /\ family \in SidecarFamilies
  /\ \/ /\ ~ there
        /\ there' = TRUE /\ dirDurable' = FALSE
        /\ dest' = pub[p].temp
        /\ durable' = IF pub[p].entriesSynced THEN DOMAIN pub[p].temp ELSE {}
        /\ SetPub(p, [pub[p] EXCEPT !.pc = "syncDestination", !.temp = Empty])
     \/ Return(p, Failed) /\ UNCHANGED Disk
  /\ UNCHANGED <<family, source, edits, lost>>

Withdraw(p) == SetPub(p, [pub[p] EXCEPT !.pc = "withdraw", !.left = TRUE])

\* Identity, then the parent's sync, then a comparison of every file.
syncDirectory(p) ==
  /\ pub[p].pc = "syncDestination"
  /\ \/ dirDurable' = TRUE /\ Goto(p, "verify")
     \/ Withdraw(p) /\ UNCHANGED dirDurable
  /\ UNCHANGED <<family, there, dest, durable, source, edits, lost>>

verifyPublishedDirectory(p) ==
  /\ pub[p].pc = "verify"
  /\ \/ Return(p, Outcome("ok", NamesOf(p), NamesOf(p)))
     \/ Withdraw(p)
  /\ UNCHANGED <<family, source, edits, lost, Disk>>

\* The files go one by one, the directory last; the first refusal ends it.
cleanupPublishedDirectory(p) ==
  /\ pub[p].pc = "withdraw" /\ family \in SidecarFamilies
  /\ \/ /\ dest # Empty
        /\ \E n \in DOMAIN dest : dest' = Without(dest, n) /\ durable' = durable \ {n}
        /\ UNCHANGED <<there, dirDurable, pub>>
     \/ /\ dest = Empty
        /\ there' = FALSE /\ dirDurable' = FALSE
        /\ SetPub(p, [pub[p] EXCEPT !.pc = "done", !.left = FALSE, !.outcome = Failed])
        /\ UNCHANGED <<dest, durable>>
     \/ Return(p, Failed) /\ UNCHANGED Disk
  /\ UNCHANGED <<family, source, edits, lost>>

(***************************************************************************)
(* sourcequalification's package and tool directories.                     *)
(***************************************************************************)
publishPackageDirectoryNoReplace(p) ==
  /\ pub[p].pc = "rename" /\ family \in PackageFamilies
  /\ \/ /\ ~ there
        /\ there' = TRUE /\ dirDurable' = FALSE
        /\ dest' = pub[p].temp
        /\ durable' = IF pub[p].entriesSynced THEN DOMAIN pub[p].temp ELSE {}
        /\ SetPub(p, [pub[p] EXCEPT !.pc = "releaseStaging", !.temp = Empty])
     \/ Return(p, Failed) /\ UNCHANGED Disk
  /\ UNCHANGED <<family, source, edits, lost>>

releaseStaging(p) ==
  /\ pub[p].pc = "releaseStaging"
  /\ Goto(p, "syncPackageParent") \/ Withdraw(p)
  /\ UNCHANGED <<family, source, edits, lost, Disk>>

syncPublishedPackageParent(p) ==
  /\ pub[p].pc = "syncPackageParent"
  /\ \/ dirDurable' = TRUE /\ Return(p, Outcome("ok", NamesOf(p), NamesOf(p)))
     \/ Withdraw(p) /\ UNCHANGED dirDurable
  /\ UNCHANGED <<family, there, dest, durable, source, edits, lost>>

\* Only a directory that is still the one published is removed.
cleanupPublishedPackage(p) ==
  /\ pub[p].pc = "withdraw" /\ family \in PackageFamilies
  /\ \/ /\ dest # Empty /\ Mine(p) = DOMAIN dest
        /\ \E n \in DOMAIN dest : dest' = Without(dest, n) /\ durable' = durable \ {n}
        /\ UNCHANGED <<there, dirDurable, pub>>
     \/ /\ dest = Empty
        /\ there' = FALSE /\ dirDurable' = FALSE
        /\ SetPub(p, [pub[p] EXCEPT !.pc = "done", !.left = FALSE, !.outcome = Failed])
        /\ UNCHANGED <<dest, durable>>
     \/ Return(p, Failed) /\ UNCHANGED Disk
  /\ UNCHANGED <<family, source, edits, lost>>

(***************************************************************************)
(* repopass-release-qualify.                                               *)
(***************************************************************************)
\* One file through one handle, read twice: what is copied was there.
copyStableQualificationFile(p) ==
  /\ pub[p].pc = "copy"
  /\ \/ /\ Current(p) \in DOMAIN source
        /\ SetPub(p, [pub[p] EXCEPT
             !.pc = IF pub[p].at = Len(Files(p)) THEN "qualify" ELSE "copy",
             !.at = IF pub[p].at = Len(Files(p)) THEN @ ELSE @ + 1,
             !.temp = With(@, Current(p), [by |-> p, data |-> source[Current(p)], state |-> "synced"])])
     \/ Return(p, Failed)
  /\ UNCHANGED <<family, source, edits, lost, Disk>>

Contents(files) == [n \in DOMAIN files |-> files[n].data]

\* The sealed copy is qualified, not the directory it was copied from.
PreparePrePublish(p) ==
  /\ pub[p].pc = "qualify"
  /\ \/ /\ qualificationInventoryExact(source) /\ qualificationInventoryExact(pub[p].temp)
        /\ QualifyPrePublish(Contents(pub[p].temp))
        /\ Goto(p, "removeConstruction")
     \/ Return(p, Failed)
  /\ UNCHANGED <<family, source, edits, lost, Disk>>

\* RemoveAll may stop half way.
removeConstructionDirectory(p) ==
  /\ pub[p].pc = "removeConstruction"
  /\ \E kept \in SUBSET DOMAIN source :
       /\ source' = [n \in kept |-> source[n]]
       /\ \/ kept = {} /\ Goto(p, "rename")
          \/ Return(p, Failed)
  /\ UNCHANGED <<family, edits, lost, Disk>>

\* The log is written, the snapshot qualified again and renamed: the rename is
\* the last thing the process does.
publishQualifiedDirectory(p) ==
  /\ pub[p].pc = "rename" /\ family = <<"release">>
  /\ \/ /\ QualifyPrePublish(Contents(pub[p].temp)) /\ ~ there
        /\ there' = TRUE /\ dest' = pub[p].temp
        /\ Return(p, Outcome("ok", NamesOf(p), {}))
     \/ Return(p, Failed) /\ UNCHANGED <<there, dest>>
  /\ UNCHANGED <<family, durable, dirDurable, source, edits, lost>>

(***************************************************************************)
(* Everybody else.                                                         *)
(***************************************************************************)
\* The build goes on in the construction directory, and other lanes, packages
\* and controllers take the place of those that were there.
Built(n) ==
  CASE n \in Lanes      -> {LaneDirectory(n, subject, run, status) :
                             subject \in Subjects, run \in Runs, status \in {"PASS", "FAIL"}}
    [] n = "package"    -> {PackageOf(LaneDirectory("linux", subject, 1, "PASS"),
                                      LaneDirectory("windows", subject, run, "PASS")) :
                             subject \in Subjects, run \in Runs}
    [] n = "linux-controller"   -> Controllers("linux")
    [] n = "windows-controller" -> Controllers("windows")
    [] n = "verifier"   -> Executables
    [] n = "kit"        -> [binary : Executables, canonical : BOOLEAN]
    [] n = "SHA256SUMS" -> {[kit |-> Build(e), verifier |-> f] : e, f \in Executables}

EditSource ==
  /\ edits < EditLimit
  /\ \E n \in DOMAIN source : \E data \in Built(n) : source' = [source EXCEPT ![n] = data]
  /\ edits' = edits + 1
  /\ UNCHANGED <<family, there, dest, durable, dirDurable, lost, pub>>

Active(p) == pub[p].pc \notin {"idle", "done", "killed"}

Kill(p) ==
  /\ Active(p)
  /\ Goto(p, "killed")
  /\ UNCHANGED <<family, source, edits, lost, Disk>>

PowerLoss ==
  /\ ~ lost /\ lost' = TRUE
  /\ \E keepDir \in IF dirDurable THEN {TRUE} ELSE BOOLEAN, kept \in SUBSET DOMAIN dest :
       /\ durable \cap DOMAIN dest \subseteq kept
       /\ there' = (there /\ keepDir)
       /\ dest' = IF there' THEN [n \in kept |-> [dest[n] EXCEPT !.state = IF @ = "synced" THEN @ ELSE "torn"]]
                  ELSE Empty
       /\ durable' = DOMAIN dest' /\ dirDurable' = there'
  /\ pub' = [p \in Publishers |-> IF Active(p) THEN [pub[p] EXCEPT !.pc = "killed"] ELSE pub[p]]
  /\ UNCHANGED <<family, source, edits>>

Next ==
  \/ \E p \in Publishers :
       \/ Refuse(p) \/ MakeRunDirectory(p) \/ LoadPrivateKeyForArtifacts(p) \/ dispatch(p)
       \/ readRegularBinary(p) \/ publishNewDirectory(p) \/ SealSnapshot(p)
       \/ Assemble(p) \/ readExactPackageDirectory(p) \/ createPrivateQualificationStaging(p)
       \/ WriteFile(p) \/ SyncFile(p) \/ SyncStagedFile(p) \/ RenameIntoRun(p)
       \/ publishBundleNoReplace(p) \/ ConfirmArtifact(p) \/ syncBundleDirectory(p)
       \/ inspectNewArtifactDestination(p)
       \/ writeNewFileAtomically(p) \/ publishNoReplace(p) \/ readBack(p)
       \/ SyncStaging(p) \/ atomicPublishDirectory(p) \/ syncDirectory(p)
       \/ verifyPublishedDirectory(p) \/ cleanupPublishedDirectory(p)
       \/ publishPackageDirectoryNoReplace(p) \/ releaseStaging(p)
       \/ syncPublishedPackageParent(p) \/ cleanupPublishedPackage(p)
       \/ copyStableQualificationFile(p) \/ PreparePrePublish(p) \/ removeConstructionDirectory(p)
       \/ publishQualifiedDirectory(p) \/ Kill(p)
  \/ EditSource \/ PowerLoss

Spec == Init /\ [][Next]_vars

(***************************************************************************)
(* Properties.                                                             *)
(***************************************************************************)
\* Nobody who looks at a destination ever finds half of something: no file
\* under its final name is torn; a directory that appears by a rename holds
\* every file of one publisher, unless that publisher is taking it back or
\* could not (repopass-release-qualify syncs no directory, so this is not said
\* of dist after a power loss); a bundle written with its public key is never there without it,
\* not even after a power loss; and, power permitting, the files of a run
\* directory belong to one run and include the verification they explain.
PublishedIsWhole ==
  /\ \A n \in DOMAIN dest : dest[n].state = "synced"
  /\ (Staged /\ there /\ ~ (family = <<"release">> /\ lost)) =>
       \E p \in Publishers :
         \/ \A n \in NamesOf(p) : n \in DOMAIN dest /\ dest[n].by = p
         \/ pub[p].left /\ Mine(p) = DOMAIN dest
  /\ \A p \in Publishers :
       (family = <<"artifacts">> /\ pub[p].option /\ "bundle" \in Mine(p)) => "public-key" \in Mine(p)
  /\ (family = <<"run">> /\ ~ lost /\ dest # Empty) =>
       \E p \in Publishers : Mine(p) = DOMAIN dest /\ Read # <<>>

\* What a command says is there to stay survives a power loss: every sidecar
\* of a successful publication, every signing artifact of a successful attest,
\* and whatever a failed attest lists as published with its durability
\* confirmed.
DurabilityIsTrue ==
  \A p \in Publishers : pub[p].outcome.confirmed \subseteq Mine(p)

\* What a command says it published is there and is its own, and what it does
\* not say it published is not: so of two commands that publish under one name
\* at most one succeeds, and a failed repopass-release-qualify leaves no dist.
\* A run directory and a withdrawal that failed are what remains.
OutcomeIsTrue ==
  \A p \in Publishers :
    (pub[p].pc = "done" /\ ~ lost) =>
      /\ pub[p].outcome.published \subseteq Mine(p)
      /\ (family # <<"run">> /\ ~ pub[p].left) => Mine(p) = pub[p].outcome.published

\* dist holds one release, however the construction directory was edited while
\* it was copied: a verifier of the tested revision, the canonical kit of that
\* same verifier and the checksums of both.  A package is two passing lanes of
\* the one run and subject it was asked for, whatever lane took another's place
\* meanwhile, and a tool directory is one that a verifier on either platform
\* accepts together with the package it was assembled from.
ReleasedIsQualified ==
  /\ (family = <<"release">> /\ there /\ ~ lost) =>
       \E e \in Executables : e.revision = "tested" /\ Contents(dest) = ReleaseOf(e)
  /\ (family \in PackageFamilies /\ there) =>
       \E p \in Publishers :
         \/ pub[p].left
         \/ /\ Mine(p) = NamesOf(p) /\ DOMAIN dest = NamesOf(p)
            /\ IF family = PackageFiles
               THEN /\ inspectQualificationPackage(Contents(dest))
                    /\ qualificationPackageMatchesExpectation(Contents(dest), Expected)
               ELSE LET package == pub[p].input["package"]
                        about == [subject |-> package["linux-receipt"].subject,
                                  run |-> package["linux-receipt"].run]
                    IN  \A self \in {dest["linux-controller"].data, dest["windows-controller"].data} :
                          verifyQualificationSubject(package, dest["tool-manifest"].data, self, about)

=============================================================================

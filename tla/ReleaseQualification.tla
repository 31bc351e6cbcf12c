------------------------ MODULE ReleaseQualification ------------------------
(***************************************************************************)
(* What a release directory must hold before repopass-release-qualify      *)
(* publishes it: releasekit builds the portable kit, releasequalification  *)
(* inspects executables, kits and SHA256SUMS.                              *)
(*                                                                         *)
(* A directory is a function from the names present to their contents.  An *)
(* executable is the revision it was built from and a serial number that   *)
(* tells two builds of one revision apart; a kit is the executable it      *)
(* embeds and whether its bytes are the canonical archive of it; SHA256SUMS *)
(* is the pair of contents it lists.  The release's four executables and   *)
(* two kits are one of each here: the checks treat them one by one.        *)
(***************************************************************************)
EXTENDS Naturals, Sequences

Executables == {[revision |-> "tested", serial |-> 1], [revision |-> "tested", serial |-> 2],
                [revision |-> "other", serial |-> 1]}

buildRaw(binary) == [binary |-> binary, canonical |-> TRUE]

\* releasekit.Validate rebuilds the archive from the binary it holds.
Validate(kit) == kit.canonical

Build(binary) == CHOOSE kit \in {buildRaw(binary)} : Validate(kit)

\* The sorted inventory: upper case sorts first.
InventoryOrder == <<"SHA256SUMS", "kit", "verifier">>

prePublishNames == {InventoryOrder[i] : i \in 1 .. Len(InventoryOrder)}

qualificationInventoryExact(directory) == DOMAIN directory = prePublishNames

\* The results an executable's embedded build information earns; none is good.
ValidateBuildInfo(executable) ==
  IF executable.revision = "tested" THEN {} ELSE {"SOURCE_REVISION_MISMATCH"}

InspectArtifact(executable) ==
  [content |-> executable, results |-> ValidateBuildInfo(executable)]

\* The kit's bytes are one canonical archive.
parseQualificationKit(kit) == kit.canonical

InspectPortableKitAnyBinary(kit, standalone) ==
  LET results == ValidateBuildInfo(kit.binary) IN
  [content |-> kit, results |-> results,
   failed  |-> ~ parseQualificationKit(kit) \/ results # {}]

InspectPortableKit(kit, standalone) ==
  LET results == ValidateBuildInfo(kit.binary) IN
  [content |-> kit, results |-> results,
   failed  |-> ~ parseQualificationKit(kit) \/ kit.binary # standalone \/ results # {}]

checksumsOf(directory) == [kit |-> directory["kit"], verifier |-> directory["verifier"]]

qualificationChecksumSnapshotExact(directory) ==
  directory["SHA256SUMS"] = checksumsOf(directory)

\* The results of executables and kits together; qualification wants none.
aggregateQualificationResults(artifact, kit) == artifact.results \cup kit.results

QualifyPrePublish(directory) ==
  /\ qualificationInventoryExact(directory)
  /\ LET artifact == InspectArtifact(directory["verifier"])
         kit      == InspectPortableKit(directory["kit"], directory["verifier"])
     IN  /\ ~ kit.failed
         /\ qualificationChecksumSnapshotExact(directory)
         /\ aggregateQualificationResults(artifact, kit) = {}

\* A release built in one go from one executable.
ReleaseOf(executable) ==
  [n \in prePublishNames |->
     CASE n = "verifier"   -> executable
       [] n = "kit"        -> Build(executable)
       [] n = "SHA256SUMS" -> [kit |-> Build(executable), verifier |-> executable]]

=============================================================================

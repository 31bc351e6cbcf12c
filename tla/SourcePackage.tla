--------------------------- MODULE SourcePackage ---------------------------
(***************************************************************************)
(* The documents of a source qualification                                 *)
(* (internal/sourcequalification): the lane directories that               *)
(* repopass-source-qualify assembles into a package, the tool directory it *)
(* assembles for a package, and what a verifier asks of both.              *)
(*                                                                         *)
(* A subject stands for its revisions and its tree; an archive is the      *)
(* subject whose tree it holds; a manifest names a subject and an archive. *)
(* A receipt is what one lane says of a run; an executable is known by its *)
(* operating system, its revision and a serial number that tells two       *)
(* builds apart.                                                           *)
(***************************************************************************)
EXTENDS Naturals, Sequences

Lanes == {"linux", "windows"}
Subjects == {"tested", "other"}
Runs == {1, 2}

Controllers(os) == [os : {os}, revision : Subjects, serial : {1, 2}]

marshalSourceManifest(subject, archive) == [subject |-> subject, archive |-> archive]

\* The lane directory of a run over a subject, by the controller of that
\* subject.
LaneDirectory(lane, subject, run, status) ==
  LET manifest == marshalSourceManifest(subject, subject) IN
  [archive |-> subject, manifest |-> manifest,
   receipt |-> [lane |-> lane, subject |-> subject, run |-> run,
                archive |-> subject, manifest |-> manifest,
                controller |-> [os |-> lane, revision |-> subject, serial |-> 1],
                status |-> status]]

(***************************************************************************)
(* Receipts and packages.                                                  *)
(***************************************************************************)
validateReceiptRun(receipt, expectedLane) == receipt.lane = expectedLane

validateReceiptController(receipt) == receipt.controller.revision = receipt.subject

parseCanonicalReceipt(receipt, expectedLane) ==
  validateReceiptRun(receipt, expectedLane) /\ validateReceiptController(receipt)

\* The manifest is the one the archive gives for the expected subject, and
\* the archive holds that subject's tree.
verifySourcePackage(archive, manifest, expected) ==
  /\ manifest.subject = expected
  /\ archive = expected
  /\ manifest = marshalSourceManifest(expected, archive)

verifyReceiptPackageBindings(package) ==
  LET linux == package["linux-receipt"]
      windows == package["windows-receipt"]
  IN  /\ parseCanonicalReceipt(linux, "linux") /\ parseCanonicalReceipt(windows, "windows")
      /\ linux.subject = windows.subject /\ linux.run = windows.run
      /\ linux.archive = windows.archive /\ linux.manifest = windows.manifest
      /\ linux.archive = package["archive"] /\ linux.manifest = package["manifest"]
      /\ verifySourcePackage(package["archive"], package["manifest"], linux.subject)

\* The four files of a package, from two lane directories.
PackageOf(linux, windows) ==
  [n \in {"archive", "manifest", "linux-receipt", "windows-receipt"} |->
     CASE n = "archive" -> linux.archive
       [] n = "manifest" -> linux.manifest
       [] n = "linux-receipt" -> linux.receipt
       [] n = "windows-receipt" -> windows.receipt]

qualificationPackageMatchesExpectation(package, expected) ==
  \A n \in {"linux-receipt", "windows-receipt"} :
    package[n].subject = expected.subject /\ package[n].run = expected.run

\* A verifier's reading of a package; the assembler asks the same.
inspectQualificationPackage(package) ==
  /\ verifyReceiptPackageBindings(package)
  /\ \A n \in {"linux-receipt", "windows-receipt"} : package[n].status = "PASS"

assemblesPackage(linux, windows, expected) ==
  /\ windows.archive = linux.archive /\ windows.manifest = linux.manifest
  /\ inspectQualificationPackage(PackageOf(linux, windows))
  /\ qualificationPackageMatchesExpectation(PackageOf(linux, windows), expected)

(***************************************************************************)
(* Tools.                                                                  *)
(***************************************************************************)
validQualificationControllerBuildInfo(controller, expectedOS, testedRevision) ==
  controller.os = expectedOS /\ controller.revision = testedRevision

\* The controller at a path is the one that wrote the receipt.
inspectQualificationController(controller, receipt) ==
  /\ validQualificationControllerBuildInfo(controller, receipt.lane, receipt.subject)
  /\ controller = receipt.controller

expectedToolManifest(subject, linux, windows) ==
  [subject |-> subject, linux |-> linux, windows |-> windows]

assemblesTools(package, linux, windows) ==
  /\ inspectQualificationPackage(package)
  /\ inspectQualificationController(linux, package["linux-receipt"])
  /\ inspectQualificationController(windows, package["windows-receipt"])

ToolsOf(package, linux, windows) ==
  [n \in {"linux-controller", "windows-controller", "tool-manifest"} |->
     CASE n = "linux-controller" -> linux
       [] n = "windows-controller" -> windows
       [] n = "tool-manifest" ->
            expectedToolManifest(package["linux-receipt"].subject, linux, windows)]

qualificationToolMatchesController(tool, expectedOS, subject, controller) ==
  tool.os = expectedOS /\ tool.revision = subject /\ tool = controller

\* self is the executable that verifies, on the platform of its lane.
bindQualificationToolManifest(manifest, package, self) ==
  LET subject == package["linux-receipt"].subject IN
  /\ manifest.subject = subject
  /\ qualificationToolMatchesController(manifest.linux, "linux", subject, package["linux-receipt"].controller)
  /\ qualificationToolMatchesController(manifest.windows, "windows", subject, package["windows-receipt"].controller)
  /\ self = IF self.os = "linux" THEN manifest.linux ELSE manifest.windows

verifyQualificationSubject(package, manifest, self, expected) ==
  /\ inspectQualificationPackage(package)
  /\ qualificationPackageMatchesExpectation(package, expected)
  /\ bindQualificationToolManifest(manifest, package, self)
=============================================================================

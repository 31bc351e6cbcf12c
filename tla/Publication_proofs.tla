------------------------ MODULE Publication_proofs ------------------------
(***************************************************************************)
(* What the publishing commands guarantee for any number of processes with *)
(* one destination, every family of files, kills and power loss.           *)
(*                                                                         *)
(* The inductive invariant is about ownership.  Under a name that is       *)
(* created by a link, or a directory that is created by a rename without   *)
(* replacement, only its creator acts; so what a process knows of its own  *)
(* files (Placed) and what it reported of them (Answered) stays true,      *)
(* until it takes them back itself.  A power loss keeps what is durable,   *)
(* and what was reported as confirmed is durable.                          *)
(***************************************************************************)
EXTENDS Publication, TLAPS

(* The families, by how they publish.                                      *)
OfRun == family = <<"run">>
OfArtifacts == family = <<"artifacts">>
OfEvaluation == family = <<"evaluation">>
OfKit == family = <<"kit">>
OfRelease == family = <<"release">>
OfSidecar == family \in SidecarFamilies
OfPackage == family \in PackageFamilies

\* The directories whose entries are synced before they are renamed.
Careful == OfSidecar \/ OfPackage

\* Where a process that renamed its directory may be.
Holding == {"syncDestination", "verify", "releaseStaging", "syncPackageParent", "withdraw"}

\* Where a process works on its own files.
Drafting == {"write", "sync", "place", "syncStaging", "rename", "copy", "qualify",
             "removeConstruction"}

\* Where a process writes its files under names of its own.
Writing == {"write", "sync", "place"}

Ended == {"done", "killed"}

-----------------------------------------------------------------------------
(* The inductive invariant: one process.                                   *)

Fields == {"pc", "option", "temp", "at", "input", "troubled", "entriesSynced", "left", "outcome"}

IsFile(file) == DOMAIN file = {"by", "data", "state"}

\* Which stages belong to which family, and where in its files a process is.
Sited(p) ==
  /\ DOMAIN pub[p] = Fields
  /\ pub[p].at \in Nat
  /\ pub[p].pc = "idle" => pub[p].at = 0 /\ pub[p].temp = Empty
  /\ pub[p].pc \notin {"withdraw", "done", "killed"} => ~ pub[p].left
  /\ pub[p].pc # "done" => pub[p].outcome = Pending
  /\ pub[p].pc \in {"write", "sync"} => ~ OfRelease
  /\ pub[p].pc = "place" => ~ Staged
  /\ pub[p].pc \in {"confirm", "syncParent", "inspect"} => OfArtifacts
  /\ pub[p].pc = "inspect" => pub[p].at = 2
  /\ pub[p].pc = "readBack" => OfEvaluation
  /\ pub[p].pc = "syncStaging" => Careful
  /\ pub[p].pc = "rename" => Staged
  /\ pub[p].pc \in {"copy", "qualify", "removeConstruction"} => OfRelease
  /\ pub[p].pc \in {"read", "assemble", "releaseStaging", "syncPackageParent"} => OfPackage
  /\ pub[p].pc \in {"syncDestination", "verify"} => OfSidecar
  /\ pub[p].pc = "withdraw" => Careful
  /\ pub[p].pc = "assemble" => pub[p].at = 1
  /\ pub[p].pc \in {"write", "sync", "place", "confirm", "syncParent", "inspect", "copy"} =>
       pub[p].at \in 1 .. Len(Files(p))
  /\ pub[p].pc \in {"read", "assemble", "inspect"} => pub[p].temp = Empty
  /\ pub[p].pc = "read" => pub[p].at \in 1 .. Len(Inputs)

\* The first k files of p.
FirstFiles(p, k) == {Files(p)[i] : i \in 1 .. k}

\* What lies in p's temporaries.
Drafted(p) ==
  /\ pub[p].pc \in Drafting =>
       \A n \in DOMAIN pub[p].temp :
         /\ IsFile(pub[p].temp[n])
         /\ pub[p].temp[n].by = p
         /\ pub[p].temp[n].state = "synced" \/ (pub[p].pc = "sync" /\ n = Current(p))
         /\ OfPackage => pub[p].temp[n].data = Assembled(pub[p].input)[n]
         /\ OfRelease => pub[p].temp[n].data \in Built(n)
  /\ pub[p].pc \in {"write", "copy"} =>
       DOMAIN pub[p].temp = IF Staged THEN FirstFiles(p, pub[p].at - 1) ELSE {}
  /\ pub[p].pc \in {"sync", "place"} =>
       DOMAIN pub[p].temp = IF Staged THEN FirstFiles(p, pub[p].at) ELSE {Current(p)}
  /\ pub[p].pc \in {"syncStaging", "qualify", "removeConstruction", "rename"} =>
       DOMAIN pub[p].temp = NamesOf(p)
  /\ pub[p].pc = "rename" /\ Careful => pub[p].entriesSynced
  /\ OfPackage /\ pub[p].pc \in Drafting => Assembles(pub[p].input)

\* The files before the one p is at.
Before(p) == IF pub[p].at = 2 THEN {"public-key"} ELSE {}

\* What of the destination is p's.
Placed(p) ==
  /\ pub[p].pc = "idle" => Mine(p) = {}
  /\ pub[p].pc \in Drafting \cup {"read", "assemble"} /\ ~ OfArtifacts /\ ~ OfRun => Mine(p) = {}
  /\ OfArtifacts =>
       /\ pub[p].pc \in {"write", "sync", "place", "inspect"} => Mine(p) = Before(p)
       /\ pub[p].pc \in {"confirm", "syncParent"} => Mine(p) = Before(p) \cup {Current(p)}
       /\ pub[p].pc \in {"write", "sync", "place", "inspect", "confirm", "syncParent"} =>
            Before(p) \subseteq durable
       /\ pub[p].option /\ "bundle" \in Mine(p) => "public-key" \in Mine(p) \cap durable
  /\ OfRun /\ pub[p].pc \in Writing => there /\ Mine(p) = DOMAIN dest
  /\ pub[p].pc = "readBack" => Mine(p) = {"evaluation"}
  /\ pub[p].pc \in Holding =>
       /\ there
       /\ Mine(p) = DOMAIN dest
       /\ pub[p].pc = "withdraw" => pub[p].left
       /\ pub[p].pc # "withdraw" => DOMAIN dest = NamesOf(p)
       /\ pub[p].pc = "verify" => dirDurable

\* What p said is so.
Answered(p) ==
  /\ pub[p].outcome.confirmed \subseteq Mine(p) \cap durable
  /\ pub[p].outcome.confirmed # {} => dirDurable
  /\ pub[p].pc = "done" /\ ~ lost =>
       /\ pub[p].outcome.published \subseteq Mine(p)
       /\ ~ OfRun /\ ~ pub[p].left => Mine(p) = pub[p].outcome.published

ProcessOK(p) == Sited(p) /\ Drafted(p) /\ Placed(p) /\ Answered(p)

-----------------------------------------------------------------------------
(* The inductive invariant: the destination.                               *)

DiskOK ==
  /\ family \in Families
  /\ DOMAIN pub = Publishers
  /\ durable \subseteq DOMAIN dest
  /\ ~ there => DOMAIN dest = {}
  /\ Linked => there /\ dirDurable
  /\ \A n \in DOMAIN dest :
       IsFile(dest[n]) /\ dest[n].by \in Publishers /\ dest[n].state = "synced"
  /\ Careful => durable = DOMAIN dest
  /\ OfRelease => \A n \in DOMAIN source : source[n] \in Built(n)

\* p's directory is there, whole or given up.
Holds(p) ==
  /\ pub[p].pc \in Holding \cup Ended
  /\ Mine(p) = DOMAIN dest
  /\ \/ pub[p].left
     \/ /\ DOMAIN dest = NamesOf(p)
        /\ OfPackage => /\ Assembles(pub[p].input)
                        /\ \A n \in DOMAIN dest : dest[n].data = Assembled(pub[p].input)[n]

Owned ==
  /\ Careful /\ there => \E p \in Publishers : Holds(p)
  /\ \A p, q \in Publishers : pub[p].pc \in Holding /\ pub[q].pc \in Holding => p = q
  /\ OfRun => \A p, q \in Publishers : pub[p].pc \in Writing /\ pub[q].pc \in Writing => p = q

Qualified ==
  OfRelease /\ there /\ ~ lost =>
    /\ \E p \in Publishers : DOMAIN dest = NamesOf(p) /\ Mine(p) = DOMAIN dest
    /\ \E e \in Executables : e.revision = "tested" /\ Contents(dest) = ReleaseOf(e)

\* Until the power is lost one process writes to a run directory.
OneRun ==
  OfRun /\ ~ lost =>
    /\ \A p \in Publishers : pub[p].at > 0 => there
    /\ \A p, q \in Publishers : pub[p].at > 0 /\ pub[q].at > 0 => p = q
    /\ \A n \in DOMAIN dest : pub[dest[n].by].at > 0
    /\ \A p \in Publishers :
         pub[p].pc \in Writing => FirstFiles(p, pub[p].at - 1) \subseteq DOMAIN dest
    /\ dest # Empty => "verification.json" \in DOMAIN dest

Inv ==
  /\ DiskOK
  /\ \A p \in Publishers : ProcessOK(p)
  /\ Owned /\ Qualified /\ OneRun

-----------------------------------------------------------------------------
(* The families and their files.                                           *)

(* Every behaviour publishes one family, which publishes in one way.       *)
LEMMA Kinds ==
  ASSUME family \in Families
  PROVE  /\ OfRun \/ OfArtifacts \/ OfEvaluation \/ OfKit \/ OfRelease \/ OfSidecar \/ OfPackage
         /\ OfRun => ~ (OfArtifacts \/ OfEvaluation \/ OfKit \/ OfRelease \/ OfSidecar \/ OfPackage)
         /\ OfArtifacts => ~ (OfEvaluation \/ OfKit \/ OfRelease \/ OfSidecar \/ OfPackage)
         /\ OfEvaluation => ~ (OfKit \/ OfRelease \/ OfSidecar \/ OfPackage)
         /\ OfKit => ~ (OfRelease \/ OfSidecar \/ OfPackage)
         /\ OfRelease => ~ (OfSidecar \/ OfPackage)
         /\ OfSidecar => ~ OfPackage
         /\ Staged <=> OfRelease \/ Careful
         /\ Linked <=> OfArtifacts \/ OfEvaluation \/ OfKit
<1>1. OfRun \/ OfArtifacts \/ OfEvaluation \/ OfKit \/ OfRelease \/ OfSidecar \/ OfPackage
  BY FamiliesAssumption DEF OfRun, OfArtifacts, OfEvaluation, OfKit, OfRelease, OfSidecar, OfPackage
<1>2. /\ OfRun => Len(family) = 1 /\ family[1] = "run"
      /\ OfArtifacts => Len(family) = 1 /\ family[1] = "artifacts"
      /\ OfEvaluation => Len(family) = 1 /\ family[1] = "evaluation"
      /\ OfKit => Len(family) = 1 /\ family[1] = "kit"
      /\ OfRelease => Len(family) = 1 /\ family[1] = "release"
  BY DEF OfRun, OfArtifacts, OfEvaluation, OfKit, OfRelease
<1>3. OfPackage => Len(family) \in {3, 4} /\ family[1] \in {"archive", "linux-controller"}
  BY DEF OfPackage, PackageFamilies, PackageFiles, ToolFiles
<1>4. OfSidecar => /\ Len(family) \in {2, 3}
                   /\ family[1] \in {"release-index.json", "release-authority-public-key.pem",
                                     "offline-trust-policy-authority-public-key.pem"}
  BY DEF OfSidecar, SidecarFamilies, PublishSignedSidecars, PublishSignedPolicySidecars,
     PublishSignedOfflineTrustPolicySidecars,
     PublishSignedOfflineTrustPolicyAuthorityTransitionSidecars,
     PublishSignedOfflineTrustPolicyAuthorityTransitionChainSidecars,
     PublishAuthorityTransitionSidecars, PublishAuthorityTransitionChainSidecars
<1>5. Staged <=> OfRelease \/ Careful
  BY DEF Staged, Careful, OfRelease, OfSidecar, OfPackage
<1>6. Linked <=> OfArtifacts \/ OfEvaluation \/ OfKit
  BY DEF Linked, OfArtifacts, OfEvaluation, OfKit
<1> QED  BY <1>1, <1>2, <1>3, <1>4, <1>5, <1>6

(* What each family consists of.                                           *)
LEMMA FileNames ==
  ASSUME family \in Families, NEW p
  PROVE  /\ Len(Files(p)) \in Nat \ {0}
         /\ OfRun => Len(Files(p)) = 5 /\ Files(p)[1] = "verification.json"
         /\ OfArtifacts => Files(p) = IF pub[p].option THEN <<"public-key", "bundle">> ELSE <<"bundle">>
         /\ OfEvaluation => Files(p) = <<"evaluation">>
         /\ OfKit => Files(p) = <<"kit">>
         /\ OfRelease => Files(p) = InventoryOrder
         /\ Careful => Files(p) = family
<1>1. /\ OfArtifacts => Files(p) = IF pub[p].option THEN <<"public-key", "bundle">> ELSE <<"bundle">>
      /\ OfEvaluation => Files(p) = <<"evaluation">>
      /\ OfKit => Files(p) = <<"kit">>
      /\ OfRelease => Files(p) = InventoryOrder
  BY Kinds DEF Files, OfRun, OfArtifacts, OfEvaluation, OfKit, OfRelease
<1>2. Careful => Files(p) = family
  BY Kinds DEF Files, Careful, OfRun, OfArtifacts, OfEvaluation, OfKit, OfRelease
<1>3. OfRun => Len(Files(p)) = 5 /\ Files(p)[1] = "verification.json"
  <2> SUFFICES ASSUME OfRun PROVE Len(Files(p)) = 5 /\ Files(p)[1] = "verification.json"
    OBVIOUS
  <2>1. Files(p) = RunFiles(pub[p].option)
    BY DEF Files, OfRun
  <2>2. CASE pub[p].option
    <3>1. RunFiles(pub[p].option) = <<"verification.json", "report.html", "observations.ndjson">>
                                    \o <<"policy-decisions.json", "assertions.json">>
      BY <2>2 DEF RunFiles
    <3> QED  BY <2>1, <3>1
  <2>3. CASE ~ pub[p].option
    <3>1. RunFiles(pub[p].option) = <<"verification.json", "report.html", "observations.ndjson">>
                                    \o <<"assertions.json", "policy-decisions.json">>
      BY <2>3 DEF RunFiles
    <3> QED  BY <2>1, <3>1
  <2> QED  BY <2>2, <2>3
<1>4. Careful => Len(family) \in Nat \ {0}
  BY DEF Careful, OfSidecar, OfPackage, PackageFamilies, PackageFiles, ToolFiles,
     SidecarFamilies, PublishSignedSidecars, PublishSignedPolicySidecars,
     PublishSignedOfflineTrustPolicySidecars,
     PublishSignedOfflineTrustPolicyAuthorityTransitionSidecars,
     PublishSignedOfflineTrustPolicyAuthorityTransitionChainSidecars,
     PublishAuthorityTransitionSidecars, PublishAuthorityTransitionChainSidecars
<1>5. OfRelease => Len(Files(p)) = 3
  BY <1>1 DEF InventoryOrder
<1>6. OfArtifacts => Len(Files(p)) \in {1, 2}
  BY <1>1
<1> QED  BY Kinds, <1>1, <1>2, <1>3, <1>4, <1>5, <1>6 DEF Careful

-----------------------------------------------------------------------------
(* One process acts and the others stand by.                               *)

(* p's record after it returned.                                           *)
LEMMA ReturnFacts ==
  ASSUME DOMAIN pub = Publishers, NEW p \in Publishers, DOMAIN pub[p] = Fields,
         NEW o, Return(p, o)
  PROVE  /\ DOMAIN pub' = Publishers
         /\ \A q \in Publishers : q # p => pub'[q] = pub[q]
         /\ DOMAIN pub'[p] = Fields
         /\ pub'[p].pc = "done" /\ pub'[p].temp = Empty /\ pub'[p].outcome = o
         /\ pub'[p].option = pub[p].option /\ pub'[p].at = pub[p].at
         /\ pub'[p].input = pub[p].input /\ pub'[p].left = pub[p].left
         /\ pub'[p].entriesSynced = pub[p].entriesSynced
BY DEF Return, SetPub, Fields

(* p's record after a step that only moved it on.                          *)
LEMMA GotoFacts ==
  ASSUME DOMAIN pub = Publishers, NEW p \in Publishers, DOMAIN pub[p] = Fields,
         NEW pc, Goto(p, pc)
  PROVE  /\ DOMAIN pub' = Publishers
         /\ \A q \in Publishers : q # p => pub'[q] = pub[q]
         /\ DOMAIN pub'[p] = Fields
         /\ pub'[p].pc = pc /\ pub'[p].temp = pub[p].temp /\ pub'[p].outcome = pub[p].outcome
         /\ pub'[p].option = pub[p].option /\ pub'[p].at = pub[p].at
         /\ pub'[p].input = pub[p].input /\ pub'[p].left = pub[p].left
         /\ pub'[p].entriesSynced = pub[p].entriesSynced
BY DEF Goto, SetPub, Fields

(* p's record after it started.                                            *)
LEMMA StartFacts ==
  ASSUME DOMAIN pub = Publishers, NEW p \in Publishers, DOMAIN pub[p] = Fields,
         NEW pc, NEW option, SetPub(p, Started(p, pc, option))
  PROVE  /\ DOMAIN pub' = Publishers
         /\ \A q \in Publishers : q # p => pub'[q] = pub[q]
         /\ DOMAIN pub'[p] = Fields
         /\ pub'[p].pc = pc /\ pub'[p].temp = pub[p].temp /\ pub'[p].outcome = pub[p].outcome
         /\ pub'[p].option = option /\ pub'[p].at = 1
         /\ pub'[p].input = pub[p].input /\ pub'[p].left = pub[p].left
         /\ pub'[p].entriesSynced = pub[p].entriesSynced
BY DEF Started, SetPub, Fields

(* p's record after its directory was given up.                            *)
LEMMA WithdrawFacts ==
  ASSUME DOMAIN pub = Publishers, NEW p \in Publishers, DOMAIN pub[p] = Fields,
         Withdraw(p)
  PROVE  /\ DOMAIN pub' = Publishers
         /\ \A q \in Publishers : q # p => pub'[q] = pub[q]
         /\ DOMAIN pub'[p] = Fields
         /\ pub'[p].pc = "withdraw" /\ pub'[p].temp = pub[p].temp /\ pub'[p].outcome = pub[p].outcome
         /\ pub'[p].option = pub[p].option /\ pub'[p].at = pub[p].at
         /\ pub'[p].input = pub[p].input /\ pub'[p].left = TRUE
BY DEF Withdraw, SetPub, Fields

(* A process that does nothing is not harmed by what keeps its own files   *)
(* and their durability, and the directory it holds.                       *)
LEMMA Bystander ==
  ASSUME NEW q \in Publishers, ProcessOK(q), pub'[q] = pub[q],
         family' = family, lost' = lost,
         Mine(q)' = Mine(q), Mine(q) \cap durable \subseteq durable',
         pub[q].pc \in Holding \/ (OfRun /\ pub[q].pc \in Writing) =>
           there' = there /\ DOMAIN dest' = DOMAIN dest /\ (dirDurable => dirDurable'),
         pub[q].outcome.confirmed # {} /\ dirDurable => dirDurable'
  PROVE  ProcessOK(q)'
<1>1. Files(q)' = Files(q)
  BY DEF Files
<1>2. Inputs' = Inputs /\ Staged' = Staged /\ Linked' = Linked /\ Careful' = Careful
  BY DEF Inputs, Staged, Linked, Careful, OfSidecar, OfPackage
<1>3. Sited(q)'
  BY <1>1, <1>2 DEF ProcessOK, Sited, OfRelease, OfArtifacts, OfEvaluation, OfPackage, OfSidecar
<1>4. /\ NamesOf(q)' = NamesOf(q) /\ Current(q)' = Current(q) /\ Before(q)' = Before(q)
      /\ \A k : FirstFiles(q, k)' = FirstFiles(q, k)
  BY <1>1 DEF NamesOf, Current, Before, FirstFiles
<1>5. \A i : Assembles(i)' = Assembles(i) /\ Assembled(i)' = Assembled(i)
  BY DEF Assembles, Assembled
<1>6. Drafted(q)'
  BY <1>1, <1>2, <1>4, <1>5 DEF ProcessOK, Drafted, OfPackage, OfRelease, IsFile
<1>7. Placed(q)'
  <2>1. Before(q) \subseteq Mine(q) \/ pub[q].pc \notin {"write", "sync", "place", "inspect", "confirm", "syncParent"}
        \/ ~ OfArtifacts
    BY DEF ProcessOK, Placed
  <2> QED  BY <1>1, <1>2, <1>4, <2>1 DEF ProcessOK, Placed, OfArtifacts, OfRun
<1>8. Answered(q)'
  BY DEF ProcessOK, Answered, OfRun
<1> QED  BY <1>3, <1>6, <1>7, <1>8 DEF ProcessOK

(* A step of p that leaves the destination alone keeps the invariant, if   *)
(* p's own part of it holds afterwards, p does not forget the directory it *)
(* published, and does not get ahead of what it wrote to a run directory.  *)
LEMMA QuietStep ==
  ASSUME Inv, NEW p \in Publishers,
         family' = family, lost' = lost, UNCHANGED Disk,
         OfRelease => \A n \in DOMAIN source' : source'[n] \in Built(n),
         DOMAIN pub' = Publishers, \A q \in Publishers : q # p => pub'[q] = pub[q],
         ProcessOK(p)',
         pub'[p].pc \in Holding => pub[p].pc \in Holding,
         pub[p].pc \in Holding \cup Ended =>
           /\ pub'[p].pc \in Holding \cup Ended
           /\ pub[p].left => pub'[p].left
           /\ pub'[p].input = pub[p].input
           /\ pub'[p].option = pub[p].option,
         OfRun => /\ pub'[p].at > 0 <=> pub[p].at > 0
                  /\ pub'[p].pc \in Writing =>
                       /\ pub[p].pc \in Writing
                       /\ pub'[p].at = pub[p].at /\ pub'[p].option = pub[p].option
  PROVE  Inv'
<1>1. there' = there /\ dest' = dest /\ durable' = durable /\ dirDurable' = dirDurable
  BY DEF Disk
<1>2. \A q \in Publishers : Mine(q)' = Mine(q)
  BY <1>1 DEF Mine
<1>3. \A q \in Publishers : ProcessOK(q)'
  <2> SUFFICES ASSUME NEW q \in Publishers, q # p PROVE ProcessOK(q)'
    OBVIOUS
  <2>1. ProcessOK(q) /\ pub'[q] = pub[q]
    BY DEF Inv
  <2> QED  BY <2>1, <1>1, <1>2, Bystander
<1>4. OfRelease' = OfRelease /\ Careful' = Careful /\ Linked' = Linked /\ OfRun' = OfRun /\ OfPackage' = OfPackage
  BY DEF OfRelease, Careful, OfSidecar, OfPackage, Linked, OfRun
<1>5. DiskOK'
  <2>1. \A n : IsFile(dest[n])' = IsFile(dest[n]) /\ Built(n)' = Built(n)
    BY <1>1 DEF IsFile, Built
  <2> QED  BY <1>1, <1>4, <2>1 DEF Inv, DiskOK, IsFile
<1>6. family \in Families
  BY DEF Inv, DiskOK
<1>7. \A q \in Publishers : (Careful \/ OfRelease) => NamesOf(q)' = NamesOf(q)
  <2> SUFFICES ASSUME NEW q \in Publishers, Careful \/ OfRelease PROVE NamesOf(q)' = NamesOf(q)
    OBVIOUS
  <2>1. Files(q)' = Files(q)
    <3>1. CASE Careful
      BY <3>1, <1>6, Kinds DEF Files, Careful, OfRun, OfArtifacts, OfEvaluation, OfKit, OfRelease
    <3>2. CASE OfRelease
      BY <3>2, <1>6, Kinds DEF Files, OfRun, OfArtifacts, OfEvaluation, OfKit, OfRelease
    <3> QED  BY <3>1, <3>2
  <2> QED  BY <2>1 DEF NamesOf
<1>8. Owned'
  <2>1. \A i : Assembles(i)' = Assembles(i) /\ Assembled(i)' = Assembled(i)
    BY DEF Assembles, Assembled
  <2>2. ASSUME Careful, NEW q \in Publishers, Holds(q) PROVE Holds(q)'
    <3>1. /\ pub'[q].pc \in Holding \cup Ended
          /\ pub[q].left => pub'[q].left
          /\ pub'[q].input = pub[q].input
      BY <2>2 DEF Holds
    <3> QED  BY <2>1, <2>2, <3>1, <1>1, <1>2, <1>4, <1>7 DEF Holds
  <2> QED  BY <2>2, <1>1, <1>4 DEF Inv, Owned
<1>9. Qualified'
  <2>1. Contents(dest)' = Contents(dest)
    BY <1>1 DEF Contents
  <2> QED  BY <2>1, <1>1, <1>2, <1>4, <1>7 DEF Inv, Qualified
<1>10. OneRun'
  <2> SUFFICES ASSUME OfRun, ~ lost PROVE OneRun'
    BY <1>4 DEF OneRun
  <2>1. \A q \in Publishers : pub'[q].at > 0 <=> pub[q].at > 0
    OBVIOUS
  <2>2. \A q \in Publishers : pub'[q].pc \in Writing =>
          /\ pub[q].pc \in Writing
          /\ FirstFiles(q, pub[q].at - 1)' = FirstFiles(q, pub[q].at - 1)
          /\ pub'[q].at = pub[q].at
    BY DEF FirstFiles, Files
  <2>3. \A n \in DOMAIN dest : dest[n].by \in Publishers
    BY DEF Inv, DiskOK
  <2>4. ASSUME NEW q \in Publishers, pub'[q].pc \in Writing
        PROVE  FirstFiles(q, pub[q].at - 1)' \subseteq DOMAIN dest'
    BY <2>2, <2>4, <1>1 DEF Inv, OneRun
  <2> QED  BY <2>1, <2>3, <2>4, <1>1 DEF Inv, OneRun
<1> QED  BY <1>3, <1>5, <1>8, <1>9, <1>10 DEF Inv

(* p returns with an answer that is true of its files.                     *)
LEMMA ReturnKeepsInv ==
  ASSUME Inv, NEW p \in Publishers, NEW o, Return(p, o), pub[p].pc \notin Ended,
         family' = family, lost' = lost, UNCHANGED Disk,
         OfRelease => \A n \in DOMAIN source' : source'[n] \in Built(n),
         o.confirmed \subseteq Mine(p) \cap durable,
         o.confirmed # {} => dirDurable,
         ~ lost => o.published \subseteq Mine(p) /\ (~ OfRun /\ ~ pub[p].left => Mine(p) = o.published)
  PROVE  Inv'
<1>1. DOMAIN pub = Publishers /\ ProcessOK(p) /\ DOMAIN pub[p] = Fields
  BY DEF Inv, DiskOK, ProcessOK, Sited
<1>2. /\ DOMAIN pub' = Publishers
      /\ \A q \in Publishers : q # p => pub'[q] = pub[q]
      /\ DOMAIN pub'[p] = Fields
      /\ pub'[p].pc = "done" /\ pub'[p].temp = Empty /\ pub'[p].outcome = o
      /\ pub'[p].option = pub[p].option /\ pub'[p].at = pub[p].at
      /\ pub'[p].input = pub[p].input /\ pub'[p].left = pub[p].left
  BY <1>1, ReturnFacts
<1>3. there' = there /\ dest' = dest /\ durable' = durable /\ dirDurable' = dirDurable
  BY DEF Disk
<1>4. Mine(p)' = Mine(p)
  BY <1>3 DEF Mine
<1>5. Sited(p)'
  BY <1>1, <1>2 DEF ProcessOK, Sited
<1>6. Drafted(p)'
  BY <1>2 DEF Drafted, Drafting
<1>7. Placed(p)'
  BY <1>1, <1>2, <1>3, <1>4 DEF ProcessOK, Placed, Drafting, Writing, Holding, Ended, OfArtifacts
<1>8. Answered(p)'
  BY <1>2, <1>3, <1>4 DEF Answered, OfRun
<1>9. ProcessOK(p)'
  BY <1>5, <1>6, <1>7, <1>8 DEF ProcessOK
<1> QED  BY <1>2, <1>9, QuietStep DEF Holding, Ended, Writing

(* p fails without having left anything.                                   *)
LEMMA FailKeepsInv ==
  ASSUME Inv, NEW p \in Publishers, Return(p, Failed), pub[p].pc \notin Ended,
         family' = family, lost' = lost, UNCHANGED Disk,
         OfRelease => \A n \in DOMAIN source' : source'[n] \in Built(n),
         OfRun \/ pub[p].left \/ Mine(p) = {}
  PROVE  Inv'
BY ReturnKeepsInv DEF Failed, Outcome

(* What is typed stays typed while nobody builds.                          *)
LEMMA SourceStays ==
  ASSUME Inv, source' = source
  PROVE  OfRelease => \A n \in DOMAIN source' : source'[n] \in Built(n)
BY DEF Inv, DiskOK

(* An answer that is not given yet promises nothing.                       *)
LEMMA PendingFacts == Pending.published = {} /\ Pending.confirmed = {}
BY DEF Pending, Outcome

LEMMA RefuseKeepsInv == ASSUME Inv, NEW p \in Publishers, Refuse(p) PROVE Inv'
<1>1. Mine(p) = {} /\ pub[p].pc \notin Ended
  BY DEF Refuse, Inv, ProcessOK, Placed, Ended
<1> QED  BY <1>1, FailKeepsInv, SourceStays DEF Refuse, Failed

(* A process that starts to write where it owns nothing yet.               *)
LEMMA StartKeepsInv ==
  ASSUME Inv, NEW p \in Publishers, NEW option, NEW pc \in {"write", "copy", "read"},
         SetPub(p, Started(p, pc, option)), pub[p].pc = "idle",
         pc = "write" => ~ OfRelease, pc = "copy" => OfRelease, pc = "read" => OfPackage,
         pc = "write" => ~ OfPackage, ~ OfRun,
         family' = family, lost' = lost, UNCHANGED Disk, source' = source
  PROVE  Inv'
<1>1. DOMAIN pub = Publishers /\ ProcessOK(p) /\ DOMAIN pub[p] = Fields /\ family \in Families
  BY DEF Inv, DiskOK, ProcessOK, Sited
<1>2. /\ DOMAIN pub' = Publishers
      /\ \A q \in Publishers : q # p => pub'[q] = pub[q]
      /\ DOMAIN pub'[p] = Fields
      /\ pub'[p].pc = pc /\ pub'[p].temp = pub[p].temp /\ pub'[p].outcome = pub[p].outcome
      /\ pub'[p].option = option /\ pub'[p].at = 1
      /\ pub'[p].input = pub[p].input /\ pub'[p].left = pub[p].left
  BY <1>1, StartFacts
<1>3. there' = there /\ dest' = dest /\ durable' = durable /\ dirDurable' = dirDurable
  BY DEF Disk
<1>4. Mine(p)' = Mine(p) /\ Mine(p) = {} /\ pub[p].temp = Empty /\ pub[p].outcome = Pending /\ ~ pub[p].left
  BY <1>1, <1>3 DEF Mine, ProcessOK, Placed, Sited
<1>5. 1 \in 1 .. Len(Files(p)')
  <2>1. CASE OfArtifacts
    <3>1. Files(p)' = IF option THEN <<"public-key", "bundle">> ELSE <<"bundle">>
      BY <2>1, <1>1, <1>2, Kinds DEF Files, OfArtifacts, OfRun
    <3> QED  BY <3>1
  <2>2. CASE ~ OfArtifacts
    <3>1. Files(p)' = Files(p)
      BY <2>2 DEF Files, OfArtifacts, OfRun
    <3> QED  BY <3>1, <1>1, FileNames
  <2> QED  BY <2>1, <2>2
<1>6. 1 \in 1 .. Len(Inputs)'
  BY DEF Inputs
<1>7. Sited(p)'
  BY <1>1, <1>2, <1>4, <1>5, <1>6 DEF Sited, OfRelease, OfPackage
<1>8. Drafted(p)'
  <2>1. DOMAIN pub'[p].temp = {}
    BY <1>2, <1>4 DEF Empty
  <2>2. FirstFiles(p, pub[p].at - 1)' = {}
    BY <1>2 DEF FirstFiles
  <2>3. pc \in {"write", "copy"} => ~ OfPackage
    BY <1>1, Kinds
  <2> QED  BY <1>2, <2>1, <2>2, <2>3 DEF Drafted, Drafting, OfPackage
<1>9. Placed(p)'
  <2>1. Before(p)' = {}
    BY <1>2 DEF Before
  <2>2. OfRun' = OfRun
    BY DEF OfRun
  <2> QED  BY <1>2, <1>3, <1>4, <2>1, <2>2 DEF Placed, Drafting, Writing, Holding
<1>10. Answered(p)'
  BY <1>2, <1>4, PendingFacts DEF Answered
<1>11. ProcessOK(p)'
  BY <1>7, <1>8, <1>9, <1>10 DEF ProcessOK
<1> QED  BY <1>2, <1>11, QuietStep, SourceStays DEF Holding, Ended, Writing

LEMMA LoadPrivateKeyKeepsInv ==
  ASSUME Inv, NEW p \in Publishers, LoadPrivateKeyForArtifacts(p) PROVE Inv'
<1>1. ~ OfRelease /\ ~ OfPackage /\ ~ OfRun
  BY Kinds DEF LoadPrivateKeyForArtifacts, Inv, DiskOK, OfArtifacts
<1> QED  BY <1>1, StartKeepsInv DEF LoadPrivateKeyForArtifacts

LEMMA dispatchKeepsInv == ASSUME Inv, NEW p \in Publishers, dispatch(p) PROVE Inv'
<1>1. ~ OfRelease /\ ~ OfPackage /\ ~ OfRun
  BY Kinds DEF dispatch, Inv, DiskOK, OfEvaluation
<1> QED  BY <1>1, StartKeepsInv DEF dispatch

LEMMA readRegularBinaryKeepsInv ==
  ASSUME Inv, NEW p \in Publishers, readRegularBinary(p) PROVE Inv'
<1>1. ~ OfRelease /\ ~ OfPackage /\ ~ OfRun
  BY Kinds DEF readRegularBinary, Inv, DiskOK, OfKit
<1> QED  BY <1>1, StartKeepsInv DEF readRegularBinary

LEMMA publishNewDirectoryKeepsInv ==
  ASSUME Inv, NEW p \in Publishers, publishNewDirectory(p) PROVE Inv'
<1>1. ~ OfRelease /\ ~ OfPackage /\ ~ OfRun
  BY Kinds DEF publishNewDirectory, Inv, DiskOK, OfSidecar
<1> QED  BY <1>1, StartKeepsInv DEF publishNewDirectory

LEMMA SealSnapshotKeepsInv == ASSUME Inv, NEW p \in Publishers, SealSnapshot(p) PROVE Inv'
<1>1. OfRelease /\ ~ OfPackage /\ ~ OfRun
  BY Kinds DEF SealSnapshot, Inv, DiskOK, OfRelease
<1> QED  BY <1>1, StartKeepsInv DEF SealSnapshot

LEMMA AssembleKeepsInv == ASSUME Inv, NEW p \in Publishers, Assemble(p) PROVE Inv'
<1>1. OfPackage /\ ~ OfRelease /\ ~ OfRun
  BY Kinds DEF Assemble, Inv, DiskOK, OfPackage
<1> QED  BY <1>1, StartKeepsInv DEF Assemble

-----------------------------------------------------------------------------
(* A process works on its own files.                                       *)

(* While p works on its temporaries, nothing it knows of the destination   *)
(* changes.                                                                *)
LEMMA DraftStep ==
  ASSUME Inv, NEW p \in Publishers,
         family' = family, lost' = lost, UNCHANGED Disk,
         OfRelease => \A n \in DOMAIN source' : source'[n] \in Built(n),
         DOMAIN pub' = Publishers, \A q \in Publishers : q # p => pub'[q] = pub[q],
         pub[p].pc \in Drafting \cup {"read", "assemble"},
         pub'[p].pc \in Drafting \cup {"read", "assemble"},
         pub'[p].option = pub[p].option, pub'[p].outcome = pub[p].outcome,
         OfArtifacts \/ OfRun =>
           /\ pub'[p].at = pub[p].at
           /\ pub[p].pc \in Writing
           /\ pub'[p].pc \in Writing,
         Sited(p)', Drafted(p)'
  PROVE  Inv'
<1>1. there' = there /\ dest' = dest /\ durable' = durable /\ dirDurable' = dirDurable
  BY DEF Disk
<1>2. ProcessOK(p)
  BY DEF Inv
<1>3. Mine(p)' = Mine(p) /\ Files(p)' = Files(p)
  BY <1>1 DEF Mine, Files
<1>4. Placed(p)'
  <2>1. OfArtifacts => Before(p)' = Before(p)
    BY DEF Before
  <2>2. OfArtifacts' = OfArtifacts /\ OfRun' = OfRun
    BY DEF OfArtifacts, OfRun
  <2>3. pub'[p].pc \notin Holding \cup {"idle", "readBack", "confirm", "syncParent", "inspect"}
    BY DEF Drafting, Holding
  <2>4. ~ OfArtifacts /\ ~ OfRun => Mine(p) = {}
    BY <1>2 DEF ProcessOK, Placed
  <2>5. OfArtifacts => /\ Mine(p) = Before(p) /\ Before(p) \subseteq durable
                       /\ pub[p].option /\ "bundle" \in Mine(p) => "public-key" \in Mine(p) \cap durable
    BY <1>2 DEF ProcessOK, Placed, Writing
  <2>6. OfRun => there /\ Mine(p) = DOMAIN dest
    BY <1>2 DEF ProcessOK, Placed
  <2> QED  BY <1>1, <1>3, <2>1, <2>2, <2>3, <2>4, <2>5, <2>6 DEF Placed
<1>5. Answered(p)'
  <2>1. pub[p].pc # "done" /\ pub'[p].pc # "done"
    BY DEF Drafting
  <2>2. pub[p].outcome = Pending
    BY <1>2, <2>1 DEF ProcessOK, Sited
  <2> QED  BY <2>1, <2>2, PendingFacts DEF Answered
<1>6. ProcessOK(p)'
  BY <1>4, <1>5 DEF ProcessOK
<1>7. pub'[p].pc \notin Holding /\ pub[p].pc \notin Holding \cup Ended
  BY DEF Drafting, Holding, Ended
<1> QED  BY <1>6, <1>7, QuietStep

(* One file more.                                                          *)
LEMMA NextFile ==
  ASSUME NEW p, NEW k \in Nat \ {0}
  PROVE  FirstFiles(p, k) = FirstFiles(p, k - 1) \cup {Files(p)[k]}
<1>1. 1 .. k = (1 .. (k - 1)) \cup {k}
  OBVIOUS
<1> QED  BY <1>1 DEF FirstFiles

LEMMA readExactPackageDirectoryKeepsInv ==
  ASSUME Inv, NEW p \in Publishers, readExactPackageDirectory(p) PROVE Inv'
<1>1. DOMAIN pub = Publishers /\ DOMAIN pub[p] = Fields /\ ProcessOK(p) /\ family \in Families
  BY DEF Inv, DiskOK, ProcessOK, Sited
<1>2. /\ pub[p].pc = "read" /\ family' = family /\ lost' = lost /\ source' = source /\ UNCHANGED Disk
      /\ OfPackage /\ ~ OfArtifacts /\ ~ OfRun /\ ~ OfRelease
  BY <1>1, Kinds DEF readExactPackageDirectory, ProcessOK, Sited
<1>3. CASE Return(p, Failed)
  <2>1. Mine(p) = {} /\ pub[p].pc \notin Ended
    BY <1>1, <1>2 DEF ProcessOK, Placed, Ended
  <2> QED  BY <1>2, <1>3, <2>1, FailKeepsInv, SourceStays
<1>4. CASE SetPub(p, [pub[p] EXCEPT
          !.input = With(@, Inputs[pub[p].at], source[Inputs[pub[p].at]]),
          !.pc = IF pub[p].at = Len(Inputs) THEN "assemble" ELSE "read",
          !.at = IF pub[p].at = Len(Inputs) THEN 1 ELSE @ + 1])
  <2>1. /\ DOMAIN pub' = Publishers /\ \A q \in Publishers : q # p => pub'[q] = pub[q]
        /\ DOMAIN pub'[p] = Fields
        /\ pub'[p].pc = IF pub[p].at = Len(Inputs) THEN "assemble" ELSE "read"
        /\ pub'[p].at = IF pub[p].at = Len(Inputs) THEN 1 ELSE pub[p].at + 1
        /\ pub'[p].option = pub[p].option /\ pub'[p].outcome = pub[p].outcome
        /\ pub'[p].temp = pub[p].temp /\ pub'[p].left = pub[p].left
    BY <1>1, <1>4 DEF SetPub, Fields
  <2>2. Len(Inputs) \in Nat /\ Inputs' = Inputs
    BY <1>2 DEF Inputs
  <2>3. Sited(p)'
    BY <1>1, <1>2, <2>1, <2>2 DEF ProcessOK, Sited, OfPackage
  <2>4. Drafted(p)'
    BY <2>1 DEF Drafted, Drafting
  <2> QED  BY <1>2, <2>1, <2>3, <2>4, DraftStep, SourceStays
<1> QED  BY <1>3, <1>4 DEF readExactPackageDirectory

LEMMA createPrivateQualificationStagingKeepsInv ==
  ASSUME Inv, NEW p \in Publishers, createPrivateQualificationStaging(p) PROVE Inv'
<1>1. DOMAIN pub = Publishers /\ DOMAIN pub[p] = Fields /\ ProcessOK(p) /\ family \in Families
  BY DEF Inv, DiskOK, ProcessOK, Sited
<1>2. /\ pub[p].pc = "assemble" /\ family' = family /\ lost' = lost /\ source' = source /\ UNCHANGED Disk
      /\ OfPackage /\ ~ OfArtifacts /\ ~ OfRun /\ ~ OfRelease
  BY <1>1, Kinds DEF createPrivateQualificationStaging, ProcessOK, Sited
<1>3. CASE Return(p, Failed)
  <2>1. Mine(p) = {} /\ pub[p].pc \notin Ended
    BY <1>1, <1>2 DEF ProcessOK, Placed, Ended
  <2> QED  BY <1>2, <1>3, <2>1, FailKeepsInv, SourceStays
<1>4. CASE Assembles(pub[p].input) /\ Goto(p, "write")
  <2>1. /\ DOMAIN pub' = Publishers /\ \A q \in Publishers : q # p => pub'[q] = pub[q]
        /\ DOMAIN pub'[p] = Fields
        /\ pub'[p].pc = "write" /\ pub'[p].at = pub[p].at /\ pub'[p].input = pub[p].input
        /\ pub'[p].option = pub[p].option /\ pub'[p].outcome = pub[p].outcome
        /\ pub'[p].temp = pub[p].temp /\ pub'[p].left = pub[p].left
    BY <1>1, <1>4, GotoFacts
  <2>2. Files(p)' = Files(p) /\ Len(Files(p)) \in Nat \ {0}
    BY <1>1, <1>2, <2>1, FileNames DEF Files
  <2>3. pub[p].at = 1 /\ pub[p].temp = Empty
    BY <1>1, <1>2 DEF ProcessOK, Sited
  <2>4. Sited(p)'
    BY <1>1, <1>2, <2>1, <2>2, <2>3 DEF ProcessOK, Sited, OfRelease
  <2>5. Drafted(p)'
    <3>1. FirstFiles(p, pub[p].at - 1)' = {}
      BY <2>1, <2>3 DEF FirstFiles
    <3>2. DOMAIN pub'[p].temp = {}
      BY <2>1, <2>3 DEF Empty
    <3>3. Assembles(pub[p].input)'
      BY <1>2, <1>4, <2>1 DEF Assembles
    <3> QED  BY <2>1, <3>1, <3>2, <3>3 DEF Drafted, Drafting
  <2> QED  BY <1>2, <2>1, <2>4, <2>5, DraftStep, SourceStays DEF Drafting, Writing
<1> QED  BY <1>3, <1>4 DEF createPrivateQualificationStaging

(* p gives up before its current file is published.                        *)
LEMMA AbandonKeepsInv ==
  ASSUME Inv, NEW p \in Publishers, Return(p, Abandon(p)),
         pub[p].pc \in {"write", "sync", "place", "inspect"},
         family' = family, lost' = lost, source' = source, UNCHANGED Disk
  PROVE  Inv'
<1>1. ProcessOK(p) /\ family \in Families
  BY DEF Inv, DiskOK
<1>2. pub[p].pc \notin Ended
  BY DEF Ended
<1>3. CASE OfArtifacts /\ pub[p].at = 2
  <2>1. Abandon(p) = Outcome("error", {"public-key"}, {"public-key"})
    BY <1>3 DEF Abandon, OfArtifacts
  <2>2. Mine(p) = {"public-key"} /\ "public-key" \in durable
    BY <1>1, <1>3 DEF ProcessOK, Placed, Before
  <2>3. dirDurable /\ ~ OfRelease
    BY <1>1, <1>3, Kinds DEF Inv, DiskOK
  <2> QED  BY <1>2, <2>1, <2>2, <2>3, ReturnKeepsInv DEF Outcome
<1>4. CASE ~ (OfArtifacts /\ pub[p].at = 2)
  <2>1. Abandon(p) = Failed
    BY <1>4 DEF Abandon, OfArtifacts
  <2>2. OfRun \/ Mine(p) = {}
    BY <1>1, <1>4 DEF ProcessOK, Placed, Before, Sited, Drafting
  <2> QED  BY <1>2, <2>1, <2>2, FailKeepsInv, SourceStays
<1> QED  BY <1>3, <1>4

(* The files of p do not depend on where it is.                            *)
LEMMA SameFiles ==
  ASSUME NEW p, family' = family, pub'[p].option = pub[p].option
  PROVE  /\ Files(p)' = Files(p) /\ NamesOf(p)' = NamesOf(p)
         /\ Staged' = Staged /\ Careful' = Careful /\ OfPackage' = OfPackage /\ OfRelease' = OfRelease
         /\ OfArtifacts' = OfArtifacts /\ OfRun' = OfRun /\ OfSidecar' = OfSidecar
         /\ OfEvaluation' = OfEvaluation /\ OfKit' = OfKit
         /\ \A k : FirstFiles(p, k)' = FirstFiles(p, k)
         /\ \A i : Assembles(i)' = Assembles(i) /\ Assembled(i)' = Assembled(i)
         /\ Inputs' = Inputs
<1>1. Files(p)' = Files(p)
  BY DEF Files
<1>2. \A i : Assembles(i)' = Assembles(i) /\ Assembled(i)' = Assembled(i)
  BY DEF Assembles, Assembled
<1> QED  BY <1>1, <1>2 DEF NamesOf, Staged, Careful, OfPackage, OfRelease, OfArtifacts, OfRun, OfSidecar,
            OfEvaluation, OfKit, FirstFiles, Inputs

(* p's temporaries after a step, in terms of the files p had before it.    *)
LEMMA DraftedFrom ==
  ASSUME NEW p, family' = family, pub'[p].option = pub[p].option, pub'[p].input = pub[p].input,
         pub'[p].pc \in Drafting,
         \A n \in DOMAIN pub'[p].temp :
           /\ IsFile(pub'[p].temp[n])
           /\ pub'[p].temp[n].by = p
           /\ pub'[p].temp[n].state = "synced" \/ (pub'[p].pc = "sync" /\ n = Files(p)[pub'[p].at])
           /\ OfPackage => pub'[p].temp[n].data = Assembled(pub[p].input)[n]
           /\ OfRelease => pub'[p].temp[n].data \in Built(n),
         pub'[p].pc \in {"write", "copy"} =>
           DOMAIN pub'[p].temp = IF Staged THEN FirstFiles(p, pub'[p].at - 1) ELSE {},
         pub'[p].pc \in {"sync", "place"} =>
           DOMAIN pub'[p].temp = IF Staged THEN FirstFiles(p, pub'[p].at) ELSE {Files(p)[pub'[p].at]},
         pub'[p].pc \in {"syncStaging", "qualify", "removeConstruction", "rename"} =>
           DOMAIN pub'[p].temp = NamesOf(p),
         pub'[p].pc = "rename" /\ Careful => pub'[p].entriesSynced,
         OfPackage => Assembles(pub[p].input)
  PROVE  Drafted(p)'
<1>1. /\ Files(p)' = Files(p) /\ NamesOf(p)' = NamesOf(p) /\ Staged' = Staged /\ Careful' = Careful
      /\ OfPackage' = OfPackage /\ OfRelease' = OfRelease
      /\ Assembles(pub[p].input)' = Assembles(pub[p].input)
      /\ Assembled(pub[p].input)' = Assembled(pub[p].input)
  <2>1. /\ Assembles(pub[p].input)' = Assembles(pub[p].input)
        /\ Assembled(pub[p].input)' = Assembled(pub[p].input)
    BY DEF Assembles, Assembled
  <2> QED  BY <2>1, SameFiles
<1>2. /\ FirstFiles(p, pub[p].at - 1)' = FirstFiles(p, pub'[p].at - 1)
      /\ FirstFiles(p, pub[p].at)' = FirstFiles(p, pub'[p].at)
  BY <1>1 DEF FirstFiles
<1>3. Current(p)' = Files(p)[pub'[p].at]
  BY <1>1 DEF Current
<1>4. \A n : Built(n)' = Built(n)
  BY DEF Built
<1> QED  BY <1>1, <1>2, <1>3, <1>4 DEF Drafted, IsFile

LEMMA WriteFileKeepsInv == ASSUME Inv, NEW p \in Publishers, WriteFile(p) PROVE Inv'
<1>1. DOMAIN pub = Publishers /\ DOMAIN pub[p] = Fields /\ ProcessOK(p) /\ family \in Families
  BY DEF Inv, DiskOK, ProcessOK, Sited
<1>2. pub[p].pc = "write" /\ family' = family /\ lost' = lost /\ source' = source /\ UNCHANGED Disk
  BY DEF WriteFile
<1>3. CASE Return(p, Abandon(p))
  BY <1>2, <1>3, AbandonKeepsInv
<1>4. CASE SetPub(p, [Written(p, "cached") EXCEPT !.pc = "sync"])
  <2> DEFINE file == [by |-> p, data |-> Data(p), state |-> "cached"]
  <2>1. /\ DOMAIN pub' = Publishers /\ \A q \in Publishers : q # p => pub'[q] = pub[q]
        /\ DOMAIN pub'[p] = Fields
        /\ pub'[p].pc = "sync" /\ pub'[p].at = pub[p].at /\ pub'[p].input = pub[p].input
        /\ pub'[p].option = pub[p].option /\ pub'[p].outcome = pub[p].outcome
        /\ pub'[p].temp = With(pub[p].temp, Current(p), file) /\ pub'[p].left = pub[p].left
    BY <1>1, <1>4 DEF SetPub, Fields, Written
  <2>2. Sited(p)'
    BY <1>1, <1>2, <2>1, SameFiles DEF ProcessOK, Sited
  <2>3. Drafted(p)'
    <3>1. /\ DOMAIN pub'[p].temp = DOMAIN pub[p].temp \cup {Current(p)}
          /\ pub'[p].temp[Current(p)] = file
          /\ \A m \in DOMAIN pub[p].temp : m # Current(p) => pub'[p].temp[m] = pub[p].temp[m]
      BY <2>1 DEF With
    <3>2. Current(p)' = Current(p)
      BY <1>2, <2>1, SameFiles DEF Current
    <3>3. pub[p].at \in Nat \ {0} /\ ~ OfRelease
      BY <1>1, <1>2 DEF ProcessOK, Sited
    <3>4. DOMAIN pub'[p].temp = IF Staged THEN FirstFiles(p, pub[p].at) ELSE {Current(p)}
      BY <1>1, <1>2, <3>1, <3>3, NextFile DEF ProcessOK, Drafted, Current
    <3>5. OfPackage => Assembles(pub[p].input)
      BY <1>1, <1>2 DEF ProcessOK, Drafted, Drafting
    <3>6. \A n \in DOMAIN pub'[p].temp :
             /\ IsFile(pub'[p].temp[n])
             /\ pub'[p].temp[n].by = p
             /\ pub'[p].temp[n].state = "synced" \/ n = Current(p)
             /\ OfPackage => pub'[p].temp[n].data = Assembled(pub[p].input)[n]
      <4> SUFFICES ASSUME NEW n \in DOMAIN pub'[p].temp
                   PROVE  /\ IsFile(pub'[p].temp[n])
                          /\ pub'[p].temp[n].by = p
                          /\ pub'[p].temp[n].state = "synced" \/ n = Current(p)
                          /\ OfPackage => pub'[p].temp[n].data = Assembled(pub[p].input)[n]
        OBVIOUS
      <4>1. CASE n = Current(p)
        BY <4>1, <3>1 DEF IsFile, Data, OfPackage
      <4>2. CASE n # Current(p)
        BY <4>2, <3>1, <1>1, <1>2 DEF ProcessOK, Drafted, Drafting
      <4> QED  BY <4>1, <4>2
    <3> QED  BY <1>2, <2>1, <3>3, <3>4, <3>5, <3>6, DraftedFrom DEF Current, Drafting
  <2> QED  BY <1>2, <2>1, <2>2, <2>3, DraftStep, SourceStays DEF Drafting, Writing
<1> QED  BY <1>2, <1>3, <1>4 DEF WriteFile

LEMMA SyncFileKeepsInv == ASSUME Inv, NEW p \in Publishers, SyncFile(p) PROVE Inv'
<1>1. DOMAIN pub = Publishers /\ DOMAIN pub[p] = Fields /\ ProcessOK(p) /\ family \in Families
  BY DEF Inv, DiskOK, ProcessOK, Sited
<1>2. pub[p].pc = "sync" /\ ~ Staged /\ family' = family /\ lost' = lost /\ source' = source /\ UNCHANGED Disk
  BY DEF SyncFile
<1>3. CASE Return(p, Abandon(p))
  BY <1>2, <1>3, AbandonKeepsInv
<1>4. CASE SetPub(p, [Written(p, "synced") EXCEPT !.pc = "place"])
  <2> DEFINE file == [by |-> p, data |-> Data(p), state |-> "synced"]
  <2>1. /\ DOMAIN pub' = Publishers /\ \A q \in Publishers : q # p => pub'[q] = pub[q]
        /\ DOMAIN pub'[p] = Fields
        /\ pub'[p].pc = "place" /\ pub'[p].at = pub[p].at /\ pub'[p].input = pub[p].input
        /\ pub'[p].option = pub[p].option /\ pub'[p].outcome = pub[p].outcome
        /\ pub'[p].temp = With(pub[p].temp, Current(p), file) /\ pub'[p].left = pub[p].left
    BY <1>1, <1>4 DEF SetPub, Fields, Written
  <2>2. Sited(p)'
    BY <1>1, <1>2, <2>1, SameFiles DEF ProcessOK, Sited
  <2>3. Drafted(p)'
    <3>1. DOMAIN pub'[p].temp = {Current(p)} /\ pub'[p].temp[Current(p)] = file
      BY <1>1, <1>2, <2>1 DEF ProcessOK, Drafted, With
    <3>2. ~ OfPackage /\ ~ OfRelease /\ ~ Careful
      BY <1>1, <1>2, Kinds DEF Careful
    <3>3. IsFile(file)
      BY DEF IsFile
    <3> QED  BY <1>2, <2>1, <3>1, <3>2, <3>3, DraftedFrom DEF Current, Drafting
  <2> QED  BY <1>2, <2>1, <2>2, <2>3, DraftStep, SourceStays DEF Drafting, Writing
<1> QED  BY <1>2, <1>3, <1>4 DEF SyncFile

LEMMA SyncStagedFileKeepsInv == ASSUME Inv, NEW p \in Publishers, SyncStagedFile(p) PROVE Inv'
<1>1. DOMAIN pub = Publishers /\ DOMAIN pub[p] = Fields /\ ProcessOK(p) /\ family \in Families
  BY DEF Inv, DiskOK, ProcessOK, Sited
<1>2. pub[p].pc = "sync" /\ Staged /\ family' = family /\ lost' = lost /\ source' = source /\ UNCHANGED Disk
  BY DEF SyncStagedFile
<1>3. ~ OfRelease /\ Careful /\ ~ OfArtifacts /\ ~ OfRun
  BY <1>1, <1>2, Kinds DEF ProcessOK, Sited, Careful
<1>4. Mine(p) = {} /\ pub[p].pc \notin Ended
  BY <1>1, <1>2, <1>3 DEF ProcessOK, Placed, Drafting, Writing, Ended
<1>5. CASE Return(p, Failed)
  BY <1>2, <1>4, <1>5, FailKeepsInv, SourceStays
<1> DEFINE file == [by |-> p, data |-> Data(p), state |-> "synced"]
<1>6. CASE ~ Return(p, Failed)
  <2>0. \/ /\ pub[p].at < Len(Files(p))
           /\ SetPub(p, [Written(p, "synced") EXCEPT !.pc = "write", !.at = @ + 1])
        \/ /\ ~ (pub[p].at < Len(Files(p)))
           /\ SetPub(p, [Written(p, "synced") EXCEPT !.pc = "syncStaging"])
    BY <1>6 DEF SyncStagedFile
  <2>1. /\ DOMAIN pub' = Publishers /\ \A q \in Publishers : q # p => pub'[q] = pub[q]
        /\ DOMAIN pub'[p] = Fields /\ pub'[p].input = pub[p].input
        /\ pub'[p].option = pub[p].option /\ pub'[p].outcome = pub[p].outcome
        /\ pub'[p].temp = With(pub[p].temp, Current(p), file) /\ pub'[p].left = pub[p].left
        /\ \/ pub[p].at < Len(Files(p)) /\ pub'[p].pc = "write" /\ pub'[p].at = pub[p].at + 1
           \/ ~ (pub[p].at < Len(Files(p))) /\ pub'[p].pc = "syncStaging" /\ pub'[p].at = pub[p].at
    BY <1>1, <2>0, ZenonT(30) DEF SetPub, Fields, Written
  <2>2. pub[p].at \in 1 .. Len(Files(p)) /\ Len(Files(p)) \in Nat
    BY <1>1, <1>2, FileNames DEF ProcessOK, Sited
  <2>3. Sited(p)'
    <3>1. /\ pub'[p].at \in Nat
          /\ pub'[p].pc = "write" => pub'[p].at \in 1 .. Len(Files(p))
      BY <2>1, <2>2
    <3>2. pub[p].outcome = Pending /\ ~ pub[p].left
      BY <1>1, <1>2 DEF ProcessOK, Sited
    <3>3. Files(p)' = Files(p) /\ OfRelease' = OfRelease /\ Careful' = Careful
      BY <1>2, <2>1, SameFiles
    <3> QED  BY <1>3, <2>1, <3>1, <3>2, <3>3 DEF Sited
  <2>4. Drafted(p)'
    <3>1. /\ DOMAIN pub'[p].temp = DOMAIN pub[p].temp \cup {Current(p)}
          /\ pub'[p].temp[Current(p)] = file
          /\ \A m \in DOMAIN pub[p].temp : m # Current(p) => pub'[p].temp[m] = pub[p].temp[m]
      BY <2>1 DEF With
    <3>2. DOMAIN pub'[p].temp = FirstFiles(p, pub[p].at)
      <4>1. Current(p) \in FirstFiles(p, pub[p].at)
        BY <2>2 DEF FirstFiles, Current
      <4> QED  BY <1>1, <1>2, <3>1, <4>1 DEF ProcessOK, Drafted
    <3>3. \A n \in DOMAIN pub'[p].temp :
             /\ IsFile(pub'[p].temp[n])
             /\ pub'[p].temp[n].by = p
             /\ pub'[p].temp[n].state = "synced"
             /\ OfPackage => pub'[p].temp[n].data = Assembled(pub[p].input)[n]
      <4> SUFFICES ASSUME NEW n \in DOMAIN pub'[p].temp
                   PROVE  /\ IsFile(pub'[p].temp[n])
                          /\ pub'[p].temp[n].by = p
                          /\ pub'[p].temp[n].state = "synced"
                          /\ OfPackage => pub'[p].temp[n].data = Assembled(pub[p].input)[n]
        OBVIOUS
      <4>1. CASE n = Current(p)
        BY <4>1, <3>1 DEF IsFile, Data, OfPackage
      <4>2. CASE n # Current(p)
        BY <4>2, <3>1, <1>1, <1>2 DEF ProcessOK, Drafted, Drafting
      <4> QED  BY <4>1, <4>2
    <3>4. OfPackage => Assembles(pub[p].input)
      BY <1>1, <1>2 DEF ProcessOK, Drafted, Drafting
    <3>5. CASE pub'[p].pc = "write"
      <4>1. pub'[p].at - 1 = pub[p].at
        BY <3>5, <2>1, <2>2
      <4> QED  BY <1>2, <1>3, <2>1, <3>2, <3>3, <3>4, <3>5, <4>1, DraftedFrom DEF Drafting
    <3>6. CASE pub'[p].pc = "syncStaging"
      <4>1. pub[p].at = Len(Files(p))
        BY <3>6, <2>1, <2>2
      <4>2. DOMAIN pub'[p].temp = NamesOf(p)
        BY <4>1, <3>2 DEF FirstFiles, NamesOf
      <4> QED  BY <1>2, <1>3, <2>1, <3>3, <3>4, <3>6, <4>2, DraftedFrom DEF Drafting
    <3> QED  BY <2>1, <3>5, <3>6
  <2> QED  BY <1>2, <1>3, <2>1, <2>3, <2>4, DraftStep, SourceStays DEF Drafting, Writing
<1> QED  BY <1>5, <1>6

LEMMA SyncStagingKeepsInv == ASSUME Inv, NEW p \in Publishers, SyncStaging(p) PROVE Inv'
<1>1. DOMAIN pub = Publishers /\ DOMAIN pub[p] = Fields /\ ProcessOK(p) /\ family \in Families
  BY DEF Inv, DiskOK, ProcessOK, Sited
<1>2. pub[p].pc = "syncStaging" /\ family' = family /\ lost' = lost /\ source' = source /\ UNCHANGED Disk
  BY DEF SyncStaging
<1>3. ~ OfRelease /\ Careful /\ ~ OfArtifacts /\ ~ OfRun /\ Staged
  BY <1>1, <1>2, Kinds DEF ProcessOK, Sited, Careful
<1>4. Mine(p) = {} /\ pub[p].pc \notin Ended
  BY <1>1, <1>2, <1>3 DEF ProcessOK, Placed, Drafting, Writing, Ended
<1>5. CASE Return(p, Failed)
  BY <1>2, <1>4, <1>5, FailKeepsInv, SourceStays
<1>6. CASE SetPub(p, [pub[p] EXCEPT !.pc = "rename", !.entriesSynced = TRUE])
  <2>1. /\ DOMAIN pub' = Publishers /\ \A q \in Publishers : q # p => pub'[q] = pub[q]
        /\ DOMAIN pub'[p] = Fields
        /\ pub'[p].pc = "rename" /\ pub'[p].at = pub[p].at /\ pub'[p].input = pub[p].input
        /\ pub'[p].option = pub[p].option /\ pub'[p].outcome = pub[p].outcome
        /\ pub'[p].temp = pub[p].temp /\ pub'[p].left = pub[p].left
        /\ pub'[p].entriesSynced = TRUE
    BY <1>1, <1>6 DEF SetPub, Fields
  <2>2. Sited(p)'
    BY <1>1, <1>2, <1>3, <2>1, SameFiles DEF ProcessOK, Sited
  <2>3. Drafted(p)'
    <3>1. /\ \A n \in DOMAIN pub[p].temp :
               /\ IsFile(pub[p].temp[n]) /\ pub[p].temp[n].by = p /\ pub[p].temp[n].state = "synced"
               /\ OfPackage => pub[p].temp[n].data = Assembled(pub[p].input)[n]
          /\ DOMAIN pub[p].temp = NamesOf(p)
          /\ OfPackage => Assembles(pub[p].input)
      BY <1>1, <1>2 DEF ProcessOK, Drafted, Drafting
    <3> QED  BY <1>2, <1>3, <2>1, <3>1, DraftedFrom DEF Drafting
  <2> QED  BY <1>2, <1>3, <2>1, <2>2, <2>3, DraftStep, SourceStays DEF Drafting, Writing
<1> QED  BY <1>5, <1>6 DEF SyncStaging

LEMMA copyStableQualificationFileKeepsInv ==
  ASSUME Inv, NEW p \in Publishers, copyStableQualificationFile(p) PROVE Inv'
<1>1. DOMAIN pub = Publishers /\ DOMAIN pub[p] = Fields /\ ProcessOK(p) /\ family \in Families
  BY DEF Inv, DiskOK, ProcessOK, Sited
<1>2. pub[p].pc = "copy" /\ family' = family /\ lost' = lost /\ source' = source /\ UNCHANGED Disk
  BY DEF copyStableQualificationFile
<1>3. OfRelease /\ ~ OfPackage /\ ~ OfArtifacts /\ ~ OfRun /\ Staged /\ ~ Careful
  BY <1>1, <1>2, Kinds DEF ProcessOK, Sited, Careful
<1>4. Mine(p) = {} /\ pub[p].pc \notin Ended
  BY <1>1, <1>2, <1>3 DEF ProcessOK, Placed, Drafting, Writing, Ended
<1>5. CASE Return(p, Failed)
  BY <1>2, <1>4, <1>5, FailKeepsInv, SourceStays
<1> DEFINE file == [by |-> p, data |-> source[Current(p)], state |-> "synced"]
<1>6. CASE ~ Return(p, Failed)
  <2>0. SetPub(p, [pub[p] EXCEPT
             !.pc = IF pub[p].at = Len(Files(p)) THEN "qualify" ELSE "copy",
             !.at = IF pub[p].at = Len(Files(p)) THEN @ ELSE @ + 1,
             !.temp = With(@, Current(p), file)])
    BY <1>6 DEF copyStableQualificationFile
  <2>1. /\ DOMAIN pub' = Publishers /\ \A q \in Publishers : q # p => pub'[q] = pub[q]
        /\ DOMAIN pub'[p] = Fields /\ pub'[p].input = pub[p].input
        /\ pub'[p].pc = IF pub[p].at = Len(Files(p)) THEN "qualify" ELSE "copy"
        /\ pub'[p].at = IF pub[p].at = Len(Files(p)) THEN pub[p].at ELSE pub[p].at + 1
        /\ pub'[p].option = pub[p].option /\ pub'[p].outcome = pub[p].outcome
        /\ pub'[p].temp = With(pub[p].temp, Current(p), file) /\ pub'[p].left = pub[p].left
    BY <1>1, <2>0 DEF SetPub, Fields
  <2>2. pub[p].at \in 1 .. Len(Files(p)) /\ Len(Files(p)) \in Nat
    BY <1>1, <1>2, FileNames DEF ProcessOK, Sited
  <2>3. Sited(p)'
    <3>1. /\ pub'[p].at \in Nat
          /\ pub'[p].pc = "copy" => pub'[p].at \in 1 .. Len(Files(p))
      BY <2>1, <2>2
    <3>2. pub[p].outcome = Pending /\ ~ pub[p].left
      BY <1>1, <1>2 DEF ProcessOK, Sited
    <3>3. Files(p)' = Files(p) /\ OfRelease' = OfRelease
      BY <1>2, <2>1, SameFiles
    <3> QED  BY <1>3, <2>1, <3>1, <3>2, <3>3 DEF Sited
  <2>4. Drafted(p)'
    <3>1. /\ DOMAIN pub'[p].temp = DOMAIN pub[p].temp \cup {Current(p)}
          /\ pub'[p].temp[Current(p)] = file
          /\ \A m \in DOMAIN pub[p].temp : m # Current(p) => pub'[p].temp[m] = pub[p].temp[m]
      BY <2>1 DEF With
    <3>2. DOMAIN pub'[p].temp = FirstFiles(p, pub[p].at)
      BY <1>1, <1>2, <1>3, <2>2, <3>1, NextFile DEF ProcessOK, Drafted, Current
    <3>3. Current(p) \in DOMAIN source /\ source[Current(p)] \in Built(Current(p))
      BY <1>3, <1>6 DEF copyStableQualificationFile, Inv, DiskOK
    <3>4. \A n \in DOMAIN pub'[p].temp :
             /\ IsFile(pub'[p].temp[n])
             /\ pub'[p].temp[n].by = p
             /\ pub'[p].temp[n].state = "synced"
             /\ pub'[p].temp[n].data \in Built(n)
      <4> SUFFICES ASSUME NEW n \in DOMAIN pub'[p].temp
                   PROVE  /\ IsFile(pub'[p].temp[n])
                          /\ pub'[p].temp[n].by = p
                          /\ pub'[p].temp[n].state = "synced"
                          /\ pub'[p].temp[n].data \in Built(n)
        OBVIOUS
      <4>1. CASE n = Current(p)
        BY <4>1, <3>1, <3>3 DEF IsFile
      <4>2. CASE n # Current(p)
        BY <4>2, <3>1, <1>1, <1>2, <1>3 DEF ProcessOK, Drafted, Drafting
      <4> QED  BY <4>1, <4>2
    <3>5. CASE pub[p].at = Len(Files(p))
      <4>1. DOMAIN pub'[p].temp = NamesOf(p)
        BY <3>5, <3>2 DEF FirstFiles, NamesOf
      <4> QED  BY <1>2, <1>3, <2>1, <3>4, <3>5, <4>1, DraftedFrom DEF Drafting
    <3>6. CASE pub[p].at # Len(Files(p))
      <4>1. pub'[p].at - 1 = pub[p].at
        BY <3>6, <2>1, <2>2
      <4> QED  BY <1>2, <1>3, <2>1, <3>2, <3>4, <3>6, <4>1, DraftedFrom DEF Drafting
    <3> QED  BY <3>5, <3>6
  <2> QED  BY <1>2, <1>3, <2>1, <2>3, <2>4, DraftStep, SourceStays DEF Drafting, Writing
<1> QED  BY <1>5, <1>6

LEMMA PreparePrePublishKeepsInv == ASSUME Inv, NEW p \in Publishers, PreparePrePublish(p) PROVE Inv'
<1>1. DOMAIN pub = Publishers /\ DOMAIN pub[p] = Fields /\ ProcessOK(p) /\ family \in Families
  BY DEF Inv, DiskOK, ProcessOK, Sited
<1>2. pub[p].pc = "qualify" /\ family' = family /\ lost' = lost /\ source' = source /\ UNCHANGED Disk
  BY DEF PreparePrePublish
<1>3. OfRelease /\ ~ OfPackage /\ ~ OfArtifacts /\ ~ OfRun /\ Staged /\ ~ Careful
  BY <1>1, <1>2, Kinds DEF ProcessOK, Sited, Careful
<1>4. Mine(p) = {} /\ pub[p].pc \notin Ended
  BY <1>1, <1>2, <1>3 DEF ProcessOK, Placed, Drafting, Writing, Ended
<1>5. CASE Return(p, Failed)
  BY <1>2, <1>4, <1>5, FailKeepsInv, SourceStays
<1>6. CASE Goto(p, "removeConstruction")
  <2>1. /\ DOMAIN pub' = Publishers /\ \A q \in Publishers : q # p => pub'[q] = pub[q]
        /\ DOMAIN pub'[p] = Fields
        /\ pub'[p].pc = "removeConstruction" /\ pub'[p].at = pub[p].at /\ pub'[p].input = pub[p].input
        /\ pub'[p].option = pub[p].option /\ pub'[p].outcome = pub[p].outcome
        /\ pub'[p].temp = pub[p].temp /\ pub'[p].left = pub[p].left
    BY <1>1, <1>6, GotoFacts
  <2>2. Sited(p)'
    BY <1>1, <1>2, <1>3, <2>1, SameFiles DEF ProcessOK, Sited
  <2>3. Drafted(p)'
    <3>1. /\ \A n \in DOMAIN pub[p].temp :
               /\ IsFile(pub[p].temp[n]) /\ pub[p].temp[n].by = p /\ pub[p].temp[n].state = "synced"
               /\ pub[p].temp[n].data \in Built(n)
          /\ DOMAIN pub[p].temp = NamesOf(p)
      BY <1>1, <1>2, <1>3 DEF ProcessOK, Drafted, Drafting
    <3> QED  BY <1>2, <1>3, <2>1, <3>1, DraftedFrom DEF Drafting
  <2> QED  BY <1>2, <1>3, <2>1, <2>2, <2>3, DraftStep, SourceStays DEF Drafting, Writing
<1> QED  BY <1>5, <1>6 DEF PreparePrePublish

LEMMA removeConstructionDirectoryKeepsInv ==
  ASSUME Inv, NEW p \in Publishers, removeConstructionDirectory(p) PROVE Inv'
<1>1. DOMAIN pub = Publishers /\ DOMAIN pub[p] = Fields /\ ProcessOK(p) /\ family \in Families
  BY DEF Inv, DiskOK, ProcessOK, Sited
<1>2. pub[p].pc = "removeConstruction" /\ family' = family /\ lost' = lost /\ UNCHANGED Disk
  BY DEF removeConstructionDirectory
<1>3. OfRelease /\ ~ OfPackage /\ ~ OfArtifacts /\ ~ OfRun /\ Staged /\ ~ Careful
  BY <1>1, <1>2, Kinds DEF ProcessOK, Sited, Careful
<1>4. Mine(p) = {} /\ pub[p].pc \notin Ended
  BY <1>1, <1>2, <1>3 DEF ProcessOK, Placed, Drafting, Writing, Ended
<1>5. \A n \in DOMAIN source' : source'[n] \in Built(n)
  BY <1>3 DEF removeConstructionDirectory, Inv, DiskOK
<1>6. CASE Return(p, Failed)
  BY <1>2, <1>4, <1>5, <1>6, FailKeepsInv
<1>7. CASE Goto(p, "rename")
  <2>1. /\ DOMAIN pub' = Publishers /\ \A q \in Publishers : q # p => pub'[q] = pub[q]
        /\ DOMAIN pub'[p] = Fields
        /\ pub'[p].pc = "rename" /\ pub'[p].at = pub[p].at /\ pub'[p].input = pub[p].input
        /\ pub'[p].option = pub[p].option /\ pub'[p].outcome = pub[p].outcome
        /\ pub'[p].temp = pub[p].temp /\ pub'[p].left = pub[p].left
    BY <1>1, <1>7, GotoFacts
  <2>2. Sited(p)'
    BY <1>1, <1>2, <1>3, <2>1, SameFiles DEF ProcessOK, Sited
  <2>3. Drafted(p)'
    <3>1. /\ \A n \in DOMAIN pub[p].temp :
               /\ IsFile(pub[p].temp[n]) /\ pub[p].temp[n].by = p /\ pub[p].temp[n].state = "synced"
               /\ pub[p].temp[n].data \in Built(n)
          /\ DOMAIN pub[p].temp = NamesOf(p)
      BY <1>1, <1>2, <1>3 DEF ProcessOK, Drafted, Drafting
    <3> QED  BY <1>2, <1>3, <2>1, <3>1, DraftedFrom DEF Drafting
  <2> QED  BY <1>2, <1>3, <1>5, <2>1, <2>2, <2>3, DraftStep DEF Drafting, Writing
<1> QED  BY <1>6, <1>7 DEF removeConstructionDirectory

(* p is killed where it is.                                                *)
LEMMA KillKeepsInv == ASSUME Inv, NEW p \in Publishers, Kill(p) PROVE Inv'
<1>1. DOMAIN pub = Publishers /\ DOMAIN pub[p] = Fields /\ ProcessOK(p)
  BY DEF Inv, DiskOK, ProcessOK, Sited
<1>2. /\ pub[p].pc \notin {"idle", "done", "killed"}
      /\ family' = family /\ lost' = lost /\ source' = source /\ UNCHANGED Disk
  BY DEF Kill, Active
<1>3. /\ DOMAIN pub' = Publishers /\ \A q \in Publishers : q # p => pub'[q] = pub[q]
      /\ DOMAIN pub'[p] = Fields
      /\ pub'[p].pc = "killed" /\ pub'[p].at = pub[p].at /\ pub'[p].input = pub[p].input
      /\ pub'[p].option = pub[p].option /\ pub'[p].outcome = pub[p].outcome
      /\ pub'[p].temp = pub[p].temp /\ pub'[p].left = pub[p].left
  BY <1>1, GotoFacts DEF Kill
<1>4. dest' = dest /\ durable' = durable /\ Mine(p)' = Mine(p)
  BY <1>2 DEF Disk, Mine
<1>5. pub[p].outcome = Pending
  BY <1>1, <1>2 DEF ProcessOK, Sited
<1>6. Sited(p)'
  BY <1>1, <1>3, <1>5 DEF ProcessOK, Sited
<1>7. Drafted(p)'
  BY <1>3 DEF Drafted, Drafting
<1>8. Placed(p)'
  BY <1>1, <1>2, <1>3, <1>4 DEF ProcessOK, Placed, Drafting, Writing, Holding, OfArtifacts
<1>9. Answered(p)'
  BY <1>3, <1>5, PendingFacts DEF Answered
<1>10. ProcessOK(p)'
  BY <1>6, <1>7, <1>8, <1>9 DEF ProcessOK
<1> QED  BY <1>2, <1>3, <1>10, QuietStep, SourceStays DEF Holding, Ended, Writing

-----------------------------------------------------------------------------
(* Links: the signing artifacts, the evaluation and the kit.               *)

(* A step of p under names that only links create.                         *)
LEMMA LinkStep ==
  ASSUME Inv, NEW p \in Publishers, Linked,
         family' = family, lost' = lost, source' = source, there' = there, dirDurable' = dirDurable,
         DOMAIN pub' = Publishers, \A q \in Publishers : q # p => pub'[q] = pub[q],
         ProcessOK(p)', pub'[p].pc \notin Holding,
         \A q \in Publishers : q # p => Mine(q)' = Mine(q) /\ Mine(q) \cap durable \subseteq durable',
         durable' \subseteq DOMAIN dest',
         \A n \in DOMAIN dest' :
           IsFile(dest'[n]) /\ dest'[n].by \in Publishers /\ dest'[n].state = "synced"
  PROVE  Inv'
<1>1. family \in Families /\ there /\ dirDurable /\ ~ OfRelease /\ ~ OfRun /\ ~ Careful
  BY Kinds DEF Inv, DiskOK, Careful
<1>2. \A q \in Publishers : pub[q].pc \notin Holding
  BY <1>1 DEF Inv, ProcessOK, Sited, Holding, Careful
<1>3. \A q \in Publishers : ProcessOK(q)'
  <2> SUFFICES ASSUME NEW q \in Publishers, q # p PROVE ProcessOK(q)'
    OBVIOUS
  <2>1. ProcessOK(q) /\ pub'[q] = pub[q] /\ pub[q].pc \notin Holding
    BY <1>2 DEF Inv
  <2> QED  BY <2>1, <1>1, Bystander
<1>4. OfRelease' = OfRelease /\ Careful' = Careful /\ Linked' = Linked /\ OfRun' = OfRun
  BY DEF OfRelease, Careful, OfSidecar, OfPackage, Linked, OfRun
<1>5. DiskOK'
  BY <1>1, <1>4 DEF DiskOK, IsFile
<1>6. Owned'
  <2>1. \A q \in Publishers : pub'[q].pc \notin Holding
    BY <1>2
  <2> QED  BY <2>1, <1>1, <1>4 DEF Owned
<1>7. Qualified' /\ OneRun'
  BY <1>1, <1>4 DEF Qualified, OneRun
<1> QED  BY <1>3, <1>5, <1>6, <1>7 DEF Inv

(* A new name for p's file.                                                *)
LEMMA LinkFacts ==
  ASSUME Inv, NEW p \in Publishers, NEW n, NEW file, n \notin DOMAIN dest, dest' = With(dest, n, file),
         IsFile(file), file.by = p, file.state = "synced"
  PROVE  /\ Mine(p)' = Mine(p) \cup {n}
         /\ \A q \in Publishers : q # p => Mine(q)' = Mine(q)
         /\ DOMAIN dest' = DOMAIN dest \cup {n} /\ n \notin durable
         /\ \A m \in DOMAIN dest' :
              IsFile(dest'[m]) /\ dest'[m].by \in Publishers /\ dest'[m].state = "synced"
<1>1. /\ DOMAIN dest' = DOMAIN dest \cup {n} /\ dest'[n] = file
      /\ \A m \in DOMAIN dest : dest'[m] = dest[m]
  BY DEF With
<1>2. /\ durable \subseteq DOMAIN dest
      /\ \A m \in DOMAIN dest : IsFile(dest[m]) /\ dest[m].by \in Publishers /\ dest[m].state = "synced"
  BY DEF Inv, DiskOK
<1>3. Mine(p)' = Mine(p) \cup {n}
  BY <1>1 DEF Mine
<1>4. ASSUME NEW q \in Publishers, q # p PROVE Mine(q)' = Mine(q)
  BY <1>1, <1>4 DEF Mine
<1> QED  BY <1>1, <1>2, <1>3, <1>4

(* Which artifact a signing command is at.                                 *)
LEMMA ArtifactNames ==
  ASSUME family \in Families, OfArtifacts, NEW p
  PROVE  /\ Len(Files(p)) = IF pub[p].option THEN 2 ELSE 1
         /\ NamesOf(p) = IF pub[p].option THEN {"public-key", "bundle"} ELSE {"bundle"}
         /\ pub[p].at = 2 /\ pub[p].option => Current(p) = "bundle"
         /\ pub[p].at = 1 => Current(p) = IF pub[p].option THEN "public-key" ELSE "bundle"
<1>1. CASE pub[p].option
  <2>1. Files(p) = <<"public-key", "bundle">>
    BY <1>1, FileNames
  <2>2. 1 .. 2 = {1, 2}
    OBVIOUS
  <2>3. NamesOf(p) = {"public-key", "bundle"}
    BY <2>1, <2>2 DEF NamesOf
  <2> QED  BY <1>1, <2>1, <2>3 DEF Current
<1>2. CASE ~ pub[p].option
  <2>1. Files(p) = <<"bundle">>
    BY <1>2, FileNames
  <2>2. 1 .. 1 = {1}
    OBVIOUS
  <2>3. NamesOf(p) = {"bundle"}
    BY <2>1, <2>2 DEF NamesOf
  <2> QED  BY <1>2, <2>1, <2>3 DEF Current
<1> QED  BY <1>1, <1>2

(* It is at its first artifact, or at the bundle after the key.            *)
LEMMA ArtifactAt ==
  ASSUME family \in Families, OfArtifacts, NEW p, pub[p].at \in 1 .. Len(Files(p))
  PROVE  pub[p].at = 1 \/ (pub[p].at = 2 /\ pub[p].option)
<1>1. CASE pub[p].option
  <2>1. Len(Files(p)) = 2
    BY <1>1, ArtifactNames
  <2>2. pub[p].at \in 1 .. 2
    BY <2>1
  <2> QED  BY <1>1, <2>2
<1>2. CASE ~ pub[p].option
  <2>1. Len(Files(p)) = 1
    BY <1>2, ArtifactNames
  <2>2. pub[p].at \in 1 .. 1
    BY <2>1
  <2> QED  BY <2>2
<1> QED  BY <1>1, <1>2

LEMMA publishBundleNoReplaceKeepsInv ==
  ASSUME Inv, NEW p \in Publishers, publishBundleNoReplace(p) PROVE Inv'
<1>1. DOMAIN pub = Publishers /\ DOMAIN pub[p] = Fields /\ ProcessOK(p) /\ family \in Families
  BY DEF Inv, DiskOK, ProcessOK, Sited
<1>2. /\ pub[p].pc = "place" /\ OfArtifacts /\ family' = family /\ lost' = lost /\ source' = source
      /\ there' = there /\ dirDurable' = dirDurable
  BY DEF publishBundleNoReplace, OfArtifacts
<1>3. CASE Return(p, Abandon(p)) /\ UNCHANGED <<dest, durable>>
  BY <1>2, <1>3, AbandonKeepsInv DEF Disk
<1>4. ASSUME NEW troubled \in BOOLEAN,
             Current(p) \notin DOMAIN dest,
             dest' = With(dest, Current(p), pub[p].temp[Current(p)]),
             durable' = durable \ {Current(p)},
             SetPub(p, [pub[p] EXCEPT !.pc = "confirm", !.troubled = troubled])
      PROVE  Inv'
  <2>1. /\ DOMAIN pub' = Publishers /\ \A q \in Publishers : q # p => pub'[q] = pub[q]
        /\ DOMAIN pub'[p] = Fields
        /\ pub'[p].pc = "confirm" /\ pub'[p].at = pub[p].at /\ pub'[p].input = pub[p].input
        /\ pub'[p].option = pub[p].option /\ pub'[p].outcome = pub[p].outcome
        /\ pub'[p].temp = pub[p].temp /\ pub'[p].left = pub[p].left
    BY <1>1, <1>4 DEF SetPub, Fields
  <2>2. ~ Staged /\ ~ OfRun /\ Linked
    BY <1>1, <1>2, Kinds DEF ProcessOK, Sited
  <2>3. LET file == pub[p].temp[Current(p)]
        IN  IsFile(file) /\ file.by = p /\ file.state = "synced"
    BY <1>1, <1>2, <2>2 DEF ProcessOK, Drafted, Drafting
  <2>4. /\ Mine(p)' = Mine(p) \cup {Current(p)}
        /\ \A q \in Publishers : q # p => Mine(q)' = Mine(q)
        /\ DOMAIN dest' = DOMAIN dest \cup {Current(p)} /\ Current(p) \notin durable
        /\ \A m \in DOMAIN dest' :
             IsFile(dest'[m]) /\ dest'[m].by \in Publishers /\ dest'[m].state = "synced"
    BY <1>4, <2>3, LinkFacts
  <2>5. durable' = durable /\ durable' \subseteq DOMAIN dest'
    BY <1>4, <2>4 DEF Inv, DiskOK
  <2>6. /\ Files(p)' = Files(p) /\ Current(p)' = Current(p) /\ Before(p)' = Before(p)
        /\ OfArtifacts' = OfArtifacts
    BY <1>2, <2>1, SameFiles DEF Current, Before
  <2>7. /\ pub[p].at \in 1 .. Len(Files(p)) /\ pub[p].outcome = Pending /\ pub[p].at \in Nat /\ ~ pub[p].left
        /\ Mine(p) = Before(p) /\ Before(p) \subseteq durable
    BY <1>1, <1>2 DEF ProcessOK, Sited, Placed
  <2>8. Sited(p)'
    BY <1>2, <2>1, <2>6, <2>7 DEF Sited
  <2>9. Drafted(p)'
    BY <2>1 DEF Drafted, Drafting
  <2>10. Placed(p)'
    <3>1. pub[p].option /\ "bundle" \in Mine(p)' => "public-key" \in Mine(p)' /\ "public-key" \in durable'
      <4>1. CASE pub[p].at = 2
        BY <4>1, <2>4, <2>5, <2>7 DEF Before
      <4>2. CASE pub[p].at # 2
        <5>1. pub[p].option => pub[p].at = 1 /\ Current(p) = "public-key"
          BY <4>2, <1>1, <1>2, <2>7, ArtifactNames, ArtifactAt
        <5> QED  BY <5>1, <4>2, <2>4, <2>7 DEF Before
      <4> QED  BY <4>1, <4>2
    <3> QED  BY <1>2, <2>1, <2>4, <2>5, <2>6, <2>7, <3>1 DEF Placed, Drafting, Writing, Holding
  <2>11. Answered(p)'
    BY <2>1, <2>7, PendingFacts DEF Answered
  <2>12. ProcessOK(p)' /\ pub'[p].pc \notin Holding
    BY <2>1, <2>8, <2>9, <2>10, <2>11 DEF ProcessOK, Holding
  <2> QED  BY <1>2, <2>1, <2>2, <2>4, <2>5, <2>12, LinkStep
<1> QED  BY <1>3, <1>4 DEF publishBundleNoReplace

(* What a signing command knows once its artifact has its name.            *)
LEMMA ArtifactPlaced ==
  ASSUME Inv, NEW p \in Publishers, pub[p].pc \in {"confirm", "syncParent"}
  PROVE  /\ OfArtifacts /\ ~ OfRun /\ ~ OfRelease /\ Linked /\ dirDurable /\ family \in Families
         /\ pub[p].at \in 1 .. Len(Files(p)) /\ pub[p].outcome = Pending
         /\ Mine(p) = Before(p) \cup {Current(p)} /\ Before(p) \subseteq durable
         /\ pub[p].pc \notin Ended
         /\ PublishedError(p, FALSE).published = Mine(p)
         /\ PublishedError(p, FALSE).confirmed = Before(p)
         /\ PublishedError(p, TRUE).published = Mine(p)
         /\ PublishedError(p, TRUE).confirmed = Mine(p)
<1>1. ProcessOK(p) /\ family \in Families
  BY DEF Inv, DiskOK
<1>2. OfArtifacts /\ pub[p].at \in 1 .. Len(Files(p)) /\ pub[p].outcome = Pending
  BY <1>1 DEF ProcessOK, Sited
<1>3. ~ OfRun /\ ~ OfRelease /\ Linked
  BY <1>1, <1>2, Kinds
<1>4. dirDurable
  BY <1>3 DEF Inv, DiskOK
<1>5. Mine(p) = Before(p) \cup {Current(p)} /\ Before(p) \subseteq durable
  BY <1>1, <1>2 DEF ProcessOK, Placed
<1>6. /\ PublishedError(p, FALSE).published = Before(p) \cup {Current(p)}
      /\ PublishedError(p, FALSE).confirmed = Before(p)
      /\ PublishedError(p, TRUE).published = Before(p) \cup {Current(p)}
      /\ PublishedError(p, TRUE).confirmed = Before(p) \cup {Current(p)}
  BY DEF PublishedError, Before, Outcome
<1> QED  BY <1>1, <1>2, <1>3, <1>4, <1>5, <1>6 DEF Ended

LEMMA ConfirmArtifactKeepsInv == ASSUME Inv, NEW p \in Publishers, ConfirmArtifact(p) PROVE Inv'
<1>1. DOMAIN pub = Publishers /\ DOMAIN pub[p] = Fields /\ ProcessOK(p)
  BY DEF Inv, DiskOK, ProcessOK, Sited
<1>2. pub[p].pc = "confirm" /\ family' = family /\ lost' = lost /\ source' = source /\ UNCHANGED Disk
  BY DEF ConfirmArtifact
<1>3. CASE Return(p, PublishedError(p, FALSE))
  BY <1>2, <1>3, ArtifactPlaced, ReturnKeepsInv
<1>4. CASE Goto(p, "syncParent")
  <2>1. /\ DOMAIN pub' = Publishers /\ \A q \in Publishers : q # p => pub'[q] = pub[q]
        /\ DOMAIN pub'[p] = Fields
        /\ pub'[p].pc = "syncParent" /\ pub'[p].at = pub[p].at /\ pub'[p].input = pub[p].input
        /\ pub'[p].option = pub[p].option /\ pub'[p].outcome = pub[p].outcome
        /\ pub'[p].temp = pub[p].temp /\ pub'[p].left = pub[p].left
    BY <1>1, <1>4, GotoFacts
  <2>2. Mine(p)' = Mine(p) /\ durable' = durable
    BY <1>2 DEF Disk, Mine
  <2>3. /\ Files(p)' = Files(p) /\ Current(p)' = Current(p) /\ Before(p)' = Before(p)
        /\ OfArtifacts' = OfArtifacts
    BY <1>2, <2>1, SameFiles DEF Current, Before
  <2>4. Sited(p)'
    BY <1>1, <1>2, <2>1, <2>3 DEF ProcessOK, Sited
  <2>5. Drafted(p)'
    BY <2>1 DEF Drafted, Drafting
  <2>6. Placed(p)'
    BY <1>1, <1>2, <2>1, <2>2, <2>3 DEF ProcessOK, Placed, Drafting, Writing, Holding
  <2>7. Answered(p)'
    BY <1>2, <2>1, ArtifactPlaced, PendingFacts DEF Answered
  <2>8. ProcessOK(p)'
    BY <2>4, <2>5, <2>6, <2>7 DEF ProcessOK
  <2> QED  BY <1>2, <2>1, <2>8, ArtifactPlaced, QuietStep, SourceStays DEF Holding, Ended, Writing
<1> QED  BY <1>3, <1>4 DEF ConfirmArtifact

(* p ends with an answer that is true of its linked files.                 *)
LEMMA LinkEnd ==
  ASSUME Inv, NEW p \in Publishers, Linked,
         family' = family, lost' = lost, source' = source, there' = there, dirDurable' = dirDurable,
         DOMAIN pub' = Publishers, \A q \in Publishers : q # p => pub'[q] = pub[q],
         DOMAIN pub'[p] = Fields, pub'[p].pc = "done", pub'[p].at = pub[p].at,
         pub'[p].option = pub[p].option,
         pub'[p].outcome.confirmed \subseteq Mine(p)' \cap durable',
         ~ lost => /\ pub'[p].outcome.published \subseteq Mine(p)'
                   /\ ~ pub'[p].left => Mine(p)' = pub'[p].outcome.published,
         OfArtifacts => (pub[p].option /\ "bundle" \in Mine(p)' => "public-key" \in Mine(p)' \cap durable'),
         \A q \in Publishers : q # p => Mine(q)' = Mine(q) /\ Mine(q) \cap durable \subseteq durable',
         durable' \subseteq DOMAIN dest',
         \A n \in DOMAIN dest' :
           IsFile(dest'[n]) /\ dest'[n].by \in Publishers /\ dest'[n].state = "synced"
  PROVE  Inv'
<1>1. ProcessOK(p) /\ dirDurable
  BY DEF Inv, DiskOK
<1>2. Sited(p)'
  BY <1>1 DEF ProcessOK, Sited
<1>3. Drafted(p)'
  BY DEF Drafted, Drafting
<1>4. Placed(p)'
  BY DEF Placed, Drafting, Writing, Holding, OfArtifacts
<1>5. Answered(p)'
  BY <1>1 DEF Answered
<1>6. ProcessOK(p)' /\ pub'[p].pc \notin Holding
  BY <1>2, <1>3, <1>4, <1>5 DEF ProcessOK, Holding
<1> QED  BY <1>6, LinkStep

LEMMA syncBundleDirectoryKeepsInv ==
  ASSUME Inv, NEW p \in Publishers, syncBundleDirectory(p) PROVE Inv'
<1>1. DOMAIN pub = Publishers /\ DOMAIN pub[p] = Fields /\ ProcessOK(p)
  BY DEF Inv, DiskOK, ProcessOK, Sited
<1>2. /\ pub[p].pc = "syncParent" /\ family' = family /\ lost' = lost /\ source' = source
      /\ there' = there /\ dest' = dest /\ dirDurable' = dirDurable
  BY DEF syncBundleDirectory
<1>3. CASE Return(p, PublishedError(p, FALSE)) /\ UNCHANGED durable
  <2>1. UNCHANGED Disk
    BY <1>2, <1>3 DEF Disk
  <2> QED  BY <1>2, <1>3, <2>1, ArtifactPlaced, ReturnKeepsInv
<1>4. CASE durable' = DOMAIN dest
  <2>1. /\ OfArtifacts /\ ~ OfRun /\ ~ OfRelease /\ Linked /\ dirDurable /\ family \in Families
        /\ pub[p].at \in 1 .. Len(Files(p)) /\ pub[p].outcome = Pending
        /\ Mine(p) = Before(p) \cup {Current(p)}
    BY <1>2, ArtifactPlaced
  <2>2. /\ Mine(p)' = Mine(p) /\ Mine(p) \subseteq durable'
        /\ \A q \in Publishers : q # p => Mine(q)' = Mine(q) /\ Mine(q) \cap durable \subseteq durable'
    BY <1>2, <1>4 DEF Mine
  <2>3. /\ durable' \subseteq DOMAIN dest'
        /\ \A n \in DOMAIN dest' :
             IsFile(dest'[n]) /\ dest'[n].by \in Publishers /\ dest'[n].state = "synced"
    BY <1>2, <1>4 DEF Inv, DiskOK
  <2>4. pub[p].option /\ "bundle" \in Mine(p) => "public-key" \in Mine(p)
    BY <1>1, <2>1 DEF ProcessOK, Placed
  <2>5. CASE Return(p, PublishedError(p, TRUE))
    <3>1. PublishedError(p, TRUE).published = Mine(p) /\ PublishedError(p, TRUE).confirmed = Mine(p)
      BY <1>2, ArtifactPlaced
    <3> HIDE DEF PublishedError
    <3>2. /\ DOMAIN pub' = Publishers /\ \A q \in Publishers : q # p => pub'[q] = pub[q]
          /\ DOMAIN pub'[p] = Fields /\ pub'[p].pc = "done" /\ pub'[p].at = pub[p].at
          /\ pub'[p].option = pub[p].option /\ pub'[p].outcome = PublishedError(p, TRUE)
      BY <1>1, <2>5, ReturnFacts
    <3>3. /\ pub'[p].outcome.confirmed \subseteq Mine(p)' \cap durable'
          /\ pub'[p].outcome.published = Mine(p)'
          /\ pub[p].option /\ "bundle" \in Mine(p)' => "public-key" \in Mine(p)' \cap durable'
      BY <2>2, <2>4, <3>1, <3>2
    <3> QED  BY <1>2, <2>1, <2>2, <2>3, <3>2, <3>3, LinkEnd
  <2>6. CASE ~ (pub[p].at < Len(Files(p))) /\ Return(p, Outcome("ok", NamesOf(p), NamesOf(p)))
    <3>1. NamesOf(p) = Mine(p)
      <4>1. CASE pub[p].option
        <5>1. pub[p].at = 2
          BY <4>1, <2>1, <2>6, ArtifactNames, ArtifactAt
        <5> QED  BY <4>1, <5>1, <2>1, ArtifactNames DEF Before
      <4>2. CASE ~ pub[p].option
        <5>1. pub[p].at = 1
          BY <4>2, <2>1, ArtifactAt
        <5> QED  BY <4>2, <5>1, <2>1, ArtifactNames DEF Before
      <4> QED  BY <4>1, <4>2
    <3>2. /\ DOMAIN pub' = Publishers /\ \A q \in Publishers : q # p => pub'[q] = pub[q]
          /\ DOMAIN pub'[p] = Fields /\ pub'[p].pc = "done" /\ pub'[p].at = pub[p].at
          /\ pub'[p].option = pub[p].option /\ pub'[p].outcome = Outcome("ok", NamesOf(p), NamesOf(p))
      BY <1>1, <2>6, ReturnFacts
    <3>3. /\ pub'[p].outcome.confirmed \subseteq Mine(p)' \cap durable'
          /\ pub'[p].outcome.published = Mine(p)'
          /\ pub[p].option /\ "bundle" \in Mine(p)' => "public-key" \in Mine(p)' \cap durable'
      BY <2>2, <2>4, <3>1, <3>2 DEF Outcome
    <3> QED  BY <1>2, <2>1, <2>2, <2>3, <3>2, <3>3, LinkEnd
  <2>7. CASE /\ pub[p].at < Len(Files(p))
             /\ SetPub(p, [pub[p] EXCEPT !.pc = "inspect", !.at = @ + 1, !.temp = Empty])
    <3>1. pub[p].at = 1 /\ pub[p].option /\ Len(Files(p)) = 2
      <4>1. pub[p].at = 1 \/ pub[p].at = 2
        BY <2>1, ArtifactAt
      <4>2. pub[p].option
        <5>1. pub[p].at < Len(Files(p))
          BY <2>7
        <5>2. CASE ~ pub[p].option
          <6>1. Len(Files(p)) = 1
            BY <5>2, <2>1, ArtifactNames
          <6>2. pub[p].at < 1
            BY <5>1, <6>1
          <6> QED  BY <4>1, <6>2
        <5> QED  BY <5>2
      <4>3. Len(Files(p)) = 2
        BY <4>2, <2>1, ArtifactNames
      <4> QED  BY <4>1, <4>2, <4>3, <2>7
    <3>2. /\ DOMAIN pub' = Publishers /\ \A q \in Publishers : q # p => pub'[q] = pub[q]
          /\ DOMAIN pub'[p] = Fields
          /\ pub'[p].pc = "inspect" /\ pub'[p].at = pub[p].at + 1 /\ pub'[p].temp = Empty
          /\ pub'[p].option = pub[p].option /\ pub'[p].outcome = pub[p].outcome
          /\ pub'[p].left = pub[p].left /\ ~ pub[p].left
      BY <1>1, <1>2, <2>7 DEF SetPub, Fields, ProcessOK, Sited
    <3>3. Mine(p) = {"public-key"}
      BY <3>1, <2>1, ArtifactNames DEF Before
    <3>4. Files(p)' = Files(p) /\ OfArtifacts' = OfArtifacts /\ pub'[p].at = 2 /\ Before(p)' = {"public-key"}
      <4>1. pub'[p].at = 2
        BY <3>1, <3>2
      <4> QED  BY <1>2, <3>2, <4>1, SameFiles DEF Before
    <3>5. Sited(p)'
      <4>1. 2 \in 1 .. Len(Files(p))
        BY <3>1
      <4> QED  BY <2>1, <3>2, <3>4, <4>1 DEF Sited
    <3>6. Drafted(p)'
      BY <3>2 DEF Drafted, Drafting
    <3>7. Placed(p)'
      BY <2>1, <2>2, <3>2, <3>3, <3>4 DEF Placed, Drafting, Writing, Holding
    <3>8. Answered(p)'
      BY <2>1, <3>2, PendingFacts DEF Answered
    <3>9. ProcessOK(p)' /\ pub'[p].pc \notin Holding
      BY <3>2, <3>5, <3>6, <3>7, <3>8 DEF ProcessOK, Holding
    <3> QED  BY <1>2, <2>1, <2>2, <2>3, <3>2, <3>9, LinkStep
  <2> QED  BY <1>3, <2>5, <2>6, <2>7 DEF syncBundleDirectory
<1> QED  BY <1>3, <1>4 DEF syncBundleDirectory

LEMMA inspectNewArtifactDestinationKeepsInv ==
  ASSUME Inv, NEW p \in Publishers, inspectNewArtifactDestination(p) PROVE Inv'
<1>1. DOMAIN pub = Publishers /\ DOMAIN pub[p] = Fields /\ ProcessOK(p) /\ family \in Families
  BY DEF Inv, DiskOK, ProcessOK, Sited
<1>2. pub[p].pc = "inspect" /\ family' = family /\ lost' = lost /\ source' = source /\ UNCHANGED Disk
  BY DEF inspectNewArtifactDestination
<1>3. CASE Return(p, Abandon(p))
  BY <1>2, <1>3, AbandonKeepsInv
<1>4. CASE Goto(p, "write")
  <2>1. /\ DOMAIN pub' = Publishers /\ \A q \in Publishers : q # p => pub'[q] = pub[q]
        /\ DOMAIN pub'[p] = Fields
        /\ pub'[p].pc = "write" /\ pub'[p].at = pub[p].at /\ pub'[p].input = pub[p].input
        /\ pub'[p].option = pub[p].option /\ pub'[p].outcome = pub[p].outcome
        /\ pub'[p].temp = pub[p].temp /\ pub'[p].left = pub[p].left
    BY <1>1, <1>4, GotoFacts
  <2>2. /\ OfArtifacts /\ pub[p].temp = Empty /\ pub[p].at \in 1 .. Len(Files(p))
        /\ pub[p].outcome = Pending /\ ~ pub[p].left
    BY <1>1, <1>2 DEF ProcessOK, Sited
  <2>3. ~ OfRelease /\ ~ OfRun /\ ~ Staged /\ ~ OfPackage
    BY <1>1, <2>2, Kinds DEF Careful
  <2>4. /\ Files(p)' = Files(p) /\ OfArtifacts' = OfArtifacts /\ OfRelease' = OfRelease
        /\ Before(p)' = Before(p) /\ OfPackage' = OfPackage /\ Staged' = Staged /\ OfRun' = OfRun
    BY <1>2, <2>1, SameFiles DEF Before
  <2>5. Sited(p)'
    BY <1>1, <2>1, <2>2, <2>3, <2>4 DEF ProcessOK, Sited
  <2>6. Drafted(p)'
    BY <2>1, <2>2, <2>3, <2>4 DEF Drafted, Drafting, Empty
  <2>7. Mine(p)' = Mine(p) /\ durable' = durable
    BY <1>2 DEF Disk, Mine
  <2>8. Placed(p)'
    BY <1>1, <1>2, <2>1, <2>2, <2>3, <2>4, <2>7 DEF ProcessOK, Placed, Drafting, Writing, Holding
  <2>9. Answered(p)'
    BY <2>1, <2>2, PendingFacts DEF Answered
  <2>10. ProcessOK(p)'
    BY <2>5, <2>6, <2>8, <2>9 DEF ProcessOK
  <2> QED  BY <1>2, <2>1, <2>3, <2>10, QuietStep, SourceStays DEF Holding, Ended, Writing
<1> QED  BY <1>3, <1>4 DEF inspectNewArtifactDestination

(* The link of a family of one file: the temporary is p's, and whole.      *)
LEMMA OneLink ==
  ASSUME Inv, NEW p \in Publishers, NEW n, n \notin DOMAIN dest, pub[p].pc = "place",
         OfKit \/ OfEvaluation, Files(p) = <<n>>, dest' = With(dest, n, pub[p].temp[n])
  PROVE  /\ Linked /\ ~ OfRun /\ ~ OfArtifacts /\ family \in Families
         /\ Mine(p)' = {n} /\ n \notin durable
         /\ \A q \in Publishers : q # p => Mine(q)' = Mine(q)
         /\ DOMAIN dest' = DOMAIN dest \cup {n}
         /\ \A m \in DOMAIN dest' :
              IsFile(dest'[m]) /\ dest'[m].by \in Publishers /\ dest'[m].state = "synced"
<1>1. ProcessOK(p) /\ family \in Families
  BY DEF Inv, DiskOK
<1>2. Linked /\ ~ OfRun /\ ~ OfArtifacts /\ ~ Staged
  BY <1>1, Kinds DEF Careful
<1>3. Mine(p) = {}
  BY <1>1, <1>2 DEF ProcessOK, Placed, Drafting, Writing
<1>4. Current(p) = n
  <2>1. pub[p].at \in 1 .. Len(Files(p))
    BY <1>1 DEF ProcessOK, Sited
  <2>2. Len(Files(p)) = 1
    OBVIOUS
  <2>3. pub[p].at \in 1 .. 1
    BY <2>1, <2>2
  <2> QED  BY <2>3 DEF Current
<1>5. IsFile(pub[p].temp[n]) /\ pub[p].temp[n].by = p /\ pub[p].temp[n].state = "synced"
  BY <1>1, <1>2, <1>4 DEF ProcessOK, Drafted, Drafting
<1>6. /\ Mine(p)' = Mine(p) \cup {n}
      /\ \A q \in Publishers : q # p => Mine(q)' = Mine(q)
      /\ DOMAIN dest' = DOMAIN dest \cup {n} /\ n \notin durable
      /\ \A m \in DOMAIN dest' :
           IsFile(dest'[m]) /\ dest'[m].by \in Publishers /\ dest'[m].state = "synced"
  BY <1>5, LinkFacts
<1> QED  BY <1>1, <1>2, <1>3, <1>6

LEMMA writeNewFileAtomicallyKeepsInv ==
  ASSUME Inv, NEW p \in Publishers, writeNewFileAtomically(p) PROVE Inv'
<1>1. DOMAIN pub = Publishers /\ DOMAIN pub[p] = Fields /\ ProcessOK(p) /\ family \in Families
  BY DEF Inv, DiskOK, ProcessOK, Sited
<1>2. /\ pub[p].pc = "place" /\ OfKit /\ family' = family /\ lost' = lost /\ source' = source
      /\ there' = there /\ durable' = durable /\ dirDurable' = dirDurable
  BY DEF writeNewFileAtomically, OfKit
<1>3. CASE Return(p, Failed) /\ UNCHANGED dest
  <2>1. UNCHANGED Disk
    BY <1>2, <1>3 DEF Disk
  <2>2. Mine(p) = {} /\ pub[p].pc \notin Ended
    BY <1>1, <1>2, Kinds DEF ProcessOK, Placed, Drafting, Writing, Ended
  <2> QED  BY <1>2, <1>3, <2>1, <2>2, FailKeepsInv, SourceStays
<1>4. CASE /\ "kit" \notin DOMAIN dest
           /\ dest' = With(dest, "kit", pub[p].temp["kit"])
           /\ Return(p, Outcome("ok", {"kit"}, {}))
  <2>1. /\ Linked /\ ~ OfArtifacts
        /\ Mine(p)' = {"kit"}
        /\ \A q \in Publishers : q # p => Mine(q)' = Mine(q)
        /\ DOMAIN dest' = DOMAIN dest \cup {"kit"}
        /\ \A m \in DOMAIN dest' :
             IsFile(dest'[m]) /\ dest'[m].by \in Publishers /\ dest'[m].state = "synced"
    BY <1>1, <1>2, <1>4, OneLink, FileNames
  <2>2. /\ DOMAIN pub' = Publishers /\ \A q \in Publishers : q # p => pub'[q] = pub[q]
        /\ DOMAIN pub'[p] = Fields /\ pub'[p].pc = "done" /\ pub'[p].at = pub[p].at
        /\ pub'[p].option = pub[p].option /\ pub'[p].outcome = Outcome("ok", {"kit"}, {})
    BY <1>1, <1>4, ReturnFacts
  <2>3. pub'[p].outcome.published = {"kit"} /\ pub'[p].outcome.confirmed = {}
    BY <2>2 DEF Outcome
  <2>4. durable' \subseteq DOMAIN dest'
    BY <1>2, <2>1 DEF Inv, DiskOK
  <2>5. \A q \in Publishers : q # p => Mine(q)' = Mine(q) /\ Mine(q) \cap durable \subseteq durable'
    BY <1>2, <2>1
  <2>6. /\ pub'[p].outcome.confirmed \subseteq Mine(p)' \cap durable'
        /\ Mine(p)' = pub'[p].outcome.published
    BY <2>1, <2>3
  <2> QED  BY <1>2, <2>1, <2>2, <2>4, <2>5, <2>6, LinkEnd
<1> QED  BY <1>3, <1>4 DEF writeNewFileAtomically

LEMMA publishNoReplaceKeepsInv == ASSUME Inv, NEW p \in Publishers, publishNoReplace(p) PROVE Inv'
<1>1. DOMAIN pub = Publishers /\ DOMAIN pub[p] = Fields /\ ProcessOK(p) /\ family \in Families
  BY DEF Inv, DiskOK, ProcessOK, Sited
<1>2. /\ pub[p].pc = "place" /\ OfEvaluation /\ family' = family /\ lost' = lost /\ source' = source
      /\ there' = there /\ durable' = durable /\ dirDurable' = dirDurable
  BY DEF publishNoReplace, OfEvaluation
<1>3. CASE Return(p, Failed) /\ UNCHANGED dest
  <2>1. UNCHANGED Disk
    BY <1>2, <1>3 DEF Disk
  <2>2. Mine(p) = {} /\ pub[p].pc \notin Ended
    BY <1>1, <1>2, Kinds DEF ProcessOK, Placed, Drafting, Writing, Ended
  <2> QED  BY <1>2, <1>3, <2>1, <2>2, FailKeepsInv, SourceStays
<1>4. CASE /\ "evaluation" \notin DOMAIN dest
           /\ dest' = With(dest, "evaluation", pub[p].temp["evaluation"])
           /\ Goto(p, "readBack")
  <2>1. /\ Linked /\ ~ OfArtifacts
        /\ Mine(p)' = {"evaluation"}
        /\ \A q \in Publishers : q # p => Mine(q)' = Mine(q)
        /\ DOMAIN dest' = DOMAIN dest \cup {"evaluation"}
        /\ \A m \in DOMAIN dest' :
             IsFile(dest'[m]) /\ dest'[m].by \in Publishers /\ dest'[m].state = "synced"
    BY <1>1, <1>2, <1>4, OneLink, FileNames
  <2>2. /\ DOMAIN pub' = Publishers /\ \A q \in Publishers : q # p => pub'[q] = pub[q]
        /\ DOMAIN pub'[p] = Fields
        /\ pub'[p].pc = "readBack" /\ pub'[p].at = pub[p].at /\ pub'[p].left = pub[p].left
        /\ pub'[p].option = pub[p].option /\ pub'[p].outcome = pub[p].outcome
    BY <1>1, <1>4, GotoFacts
  <2>3. durable' \subseteq DOMAIN dest'
    BY <1>2, <2>1 DEF Inv, DiskOK
  <2>4. pub[p].outcome = Pending /\ pub[p].at \in Nat /\ ~ pub[p].left
    BY <1>1, <1>2 DEF ProcessOK, Sited
  <2>5. OfEvaluation' = OfEvaluation /\ OfArtifacts' = OfArtifacts
    BY <1>2 DEF OfEvaluation, OfArtifacts
  <2>6. Sited(p)'
    BY <1>2, <2>2, <2>4, <2>5 DEF Sited
  <2>7. Drafted(p)'
    BY <2>2 DEF Drafted, Drafting
  <2>8. Placed(p)'
    BY <2>1, <2>2, <2>5 DEF Placed, Drafting, Writing, Holding
  <2>9. Answered(p)'
    BY <2>2, <2>4, PendingFacts DEF Answered
  <2>10. ProcessOK(p)' /\ pub'[p].pc \notin Holding
    BY <2>2, <2>6, <2>7, <2>8, <2>9 DEF ProcessOK, Holding
  <2> QED  BY <1>2, <2>1, <2>2, <2>3, <2>10, LinkStep
<1> QED  BY <1>3, <1>4 DEF publishNoReplace

LEMMA readBackKeepsInv == ASSUME Inv, NEW p \in Publishers, readBack(p) PROVE Inv'
<1>1. DOMAIN pub = Publishers /\ DOMAIN pub[p] = Fields /\ ProcessOK(p) /\ family \in Families
  BY DEF Inv, DiskOK, ProcessOK, Sited
<1>2. /\ pub[p].pc = "readBack" /\ family' = family /\ lost' = lost /\ source' = source
      /\ there' = there /\ dirDurable' = dirDurable
  BY DEF readBack
<1>3. OfEvaluation /\ Mine(p) = {"evaluation"}
  BY <1>1, <1>2 DEF ProcessOK, Sited, Placed
<1>4. Linked /\ ~ OfArtifacts /\ ~ OfRun
  BY <1>1, <1>3, Kinds
<1>5. /\ durable \subseteq DOMAIN dest
      /\ \A n \in DOMAIN dest : IsFile(dest[n]) /\ dest[n].by \in Publishers /\ dest[n].state = "synced"
  BY DEF Inv, DiskOK
<1>6. CASE Return(p, Outcome("ok", {"evaluation"}, {})) /\ UNCHANGED <<dest, durable>>
  <2>1. /\ DOMAIN pub' = Publishers /\ \A q \in Publishers : q # p => pub'[q] = pub[q]
        /\ DOMAIN pub'[p] = Fields /\ pub'[p].pc = "done" /\ pub'[p].at = pub[p].at
        /\ pub'[p].option = pub[p].option /\ pub'[p].outcome = Outcome("ok", {"evaluation"}, {})
    BY <1>1, <1>6, ReturnFacts
  <2>2. pub'[p].outcome.published = {"evaluation"} /\ pub'[p].outcome.confirmed = {}
    BY <2>1 DEF Outcome
  <2>3. \A q \in Publishers : Mine(q)' = Mine(q)
    BY <1>6 DEF Mine
  <2> QED  BY <1>2, <1>3, <1>4, <1>5, <1>6, <2>1, <2>2, <2>3, LinkEnd
<1>7. CASE /\ dest' = Without(dest, "evaluation") /\ durable' = durable \ {"evaluation"}
           /\ Return(p, Failed)
  <2>1. /\ DOMAIN pub' = Publishers /\ \A q \in Publishers : q # p => pub'[q] = pub[q]
        /\ DOMAIN pub'[p] = Fields /\ pub'[p].pc = "done" /\ pub'[p].at = pub[p].at
        /\ pub'[p].option = pub[p].option /\ pub'[p].outcome = Failed
    BY <1>1, <1>7, ReturnFacts
  <2>2. pub'[p].outcome.published = {} /\ pub'[p].outcome.confirmed = {}
    BY <2>1 DEF Failed, Outcome
  <2>3. /\ DOMAIN dest' = DOMAIN dest \ {"evaluation"}
        /\ \A n \in DOMAIN dest' : dest'[n] = dest[n]
    BY <1>7 DEF Without
  <2>4. "evaluation" \in DOMAIN dest /\ dest["evaluation"].by = p
    BY <1>3 DEF Mine
  <2>5. Mine(p)' = {}
    BY <1>3, <2>3 DEF Mine
  <2>6. ASSUME NEW q \in Publishers, q # p
        PROVE  Mine(q)' = Mine(q) /\ Mine(q) \cap durable \subseteq durable'
    BY <1>7, <2>3, <2>4, <2>6 DEF Mine
  <2>7. durable' \subseteq DOMAIN dest'
    BY <1>5, <1>7, <2>3
  <2>8. \A n \in DOMAIN dest' :
          IsFile(dest'[n]) /\ dest'[n].by \in Publishers /\ dest'[n].state = "synced"
    BY <1>5, <2>3
  <2> QED  BY <1>2, <1>4, <2>1, <2>2, <2>5, <2>6, <2>7, <2>8, LinkEnd
<1>8. CASE /\ SetPub(p, [pub[p] EXCEPT !.pc = "done", !.temp = Empty, !.left = TRUE, !.outcome = Failed])
           /\ UNCHANGED <<dest, durable>>
  <2>1. /\ DOMAIN pub' = Publishers /\ \A q \in Publishers : q # p => pub'[q] = pub[q]
        /\ DOMAIN pub'[p] = Fields /\ pub'[p].pc = "done" /\ pub'[p].at = pub[p].at
        /\ pub'[p].option = pub[p].option /\ pub'[p].outcome = Failed /\ pub'[p].left = TRUE
    BY <1>1, <1>8 DEF SetPub, Fields
  <2>2. pub'[p].outcome.published = {} /\ pub'[p].outcome.confirmed = {}
    BY <2>1 DEF Failed, Outcome
  <2>3. \A q \in Publishers : Mine(q)' = Mine(q)
    BY <1>8 DEF Mine
  <2> QED  BY <1>2, <1>4, <1>5, <1>8, <2>1, <2>2, <2>3, LinkEnd
<1> QED  BY <1>6, <1>7, <1>8 DEF readBack

-----------------------------------------------------------------------------
(* Directories that are staged, synced, renamed and perhaps taken back: the *)
(* sidecars, the packages and the tools.                                   *)

(* Who holds the directory owns it alone.                                  *)
LEMMA HolderAlone ==
  ASSUME Inv, NEW p \in Publishers, pub[p].pc \in Holding
  PROVE  /\ there /\ Careful /\ Mine(p) = DOMAIN dest /\ pub[p].outcome = Pending
         /\ \A q \in Publishers : q # p => Mine(q) = {} /\ pub[q].pc \notin Holding
<1>1. ProcessOK(p)
  BY DEF Inv
<1>2. there /\ Mine(p) = DOMAIN dest
  BY <1>1 DEF ProcessOK, Placed
<1>3. Careful /\ pub[p].outcome = Pending
  BY <1>1 DEF ProcessOK, Sited, Holding, Careful
<1>4. ASSUME NEW q \in Publishers, q # p PROVE Mine(q) = {} /\ pub[q].pc \notin Holding
  <2>1. pub[q].pc \notin Holding
    BY <1>4 DEF Inv, Owned
  <2>2. Mine(q) = {}
    BY <1>2, <1>4 DEF Mine
  <2> QED  BY <2>1, <2>2
<1> QED  BY <1>2, <1>3, <1>4

(* Where there is no directory nobody owns or holds anything.              *)
LEMMA NobodyHolds ==
  ASSUME Inv, ~ there, NEW q \in Publishers
  PROVE  Mine(q) = {} /\ pub[q].pc \notin Holding
<1>1. DOMAIN dest = {}
  BY DEF Inv, DiskOK
<1>2. ProcessOK(q)
  BY DEF Inv
<1>3. pub[q].pc \notin Holding
  BY <1>2 DEF ProcessOK, Placed
<1> QED  BY <1>1, <1>3 DEF Mine

(* A step of the only process that owns a part of the directory.           *)
LEMMA TreeStep ==
  ASSUME Inv, NEW p \in Publishers, Careful,
         family' = family, lost' = lost, source' = source,
         DOMAIN pub' = Publishers, \A q \in Publishers : q # p => pub'[q] = pub[q],
         ProcessOK(p)',
         \A q \in Publishers : q # p => Mine(q) = {} /\ Mine(q)' = {} /\ pub[q].pc \notin Holding,
         durable' = DOMAIN dest', ~ there' => DOMAIN dest' = {},
         \A n \in DOMAIN dest' :
           IsFile(dest'[n]) /\ dest'[n].by \in Publishers /\ dest'[n].state = "synced",
         there' => Holds(p)'
  PROVE  Inv'
<1>1. family \in Families /\ ~ OfRelease /\ ~ OfRun /\ ~ Linked
  BY Kinds DEF Inv, DiskOK, Careful
<1>2. \A q \in Publishers : ProcessOK(q)'
  <2> SUFFICES ASSUME NEW q \in Publishers, q # p PROVE ProcessOK(q)'
    OBVIOUS
  <2>1. ProcessOK(q) /\ pub'[q] = pub[q] /\ pub[q].pc \notin Holding /\ Mine(q)' = Mine(q) /\ Mine(q) = {}
    BY DEF Inv
  <2>2. pub[q].outcome.confirmed = {}
    BY <2>1 DEF ProcessOK, Answered
  <2> QED  BY <1>1, <2>1, <2>2, Bystander
<1>3. OfRelease' = OfRelease /\ Careful' = Careful /\ Linked' = Linked /\ OfRun' = OfRun
  BY DEF OfRelease, Careful, OfSidecar, OfPackage, Linked, OfRun
<1>4. DiskOK'
  BY <1>1, <1>3 DEF DiskOK, IsFile
<1>5. Owned'
  BY <1>1, <1>3 DEF Owned
<1>6. Qualified' /\ OneRun'
  BY <1>1, <1>3 DEF Qualified, OneRun
<1> QED  BY <1>2, <1>4, <1>5, <1>6 DEF Inv

(* p's staging directory gets the final name.                              *)
LEMMA RenameKeepsInv ==
  ASSUME Inv, NEW p \in Publishers, pub[p].pc = "rename", ~ there, NEW pc,
         \/ pc = "syncDestination" /\ OfSidecar
         \/ pc = "releaseStaging" /\ OfPackage,
         there' = TRUE, dirDurable' = FALSE, dest' = pub[p].temp,
         durable' = IF pub[p].entriesSynced THEN DOMAIN pub[p].temp ELSE {},
         SetPub(p, [pub[p] EXCEPT !.pc = pc, !.temp = Empty]),
         family' = family, lost' = lost, source' = source
  PROVE  Inv'
<1>1. DOMAIN pub = Publishers /\ DOMAIN pub[p] = Fields /\ ProcessOK(p) /\ family \in Families
  BY DEF Inv, DiskOK, ProcessOK, Sited
<1>2. Careful /\ ~ OfArtifacts /\ ~ OfRun /\ pc \in Holding /\ pc # "withdraw" /\ pc # "verify" /\ pc # "done"
  BY <1>1, Kinds DEF Careful, Holding
<1>3. /\ DOMAIN pub' = Publishers /\ \A q \in Publishers : q # p => pub'[q] = pub[q]
      /\ DOMAIN pub'[p] = Fields
      /\ pub'[p].pc = pc /\ pub'[p].at = pub[p].at /\ pub'[p].input = pub[p].input
      /\ pub'[p].option = pub[p].option /\ pub'[p].outcome = pub[p].outcome
      /\ pub'[p].left = pub[p].left
  BY <1>1 DEF SetPub, Fields
<1>4. /\ pub[p].entriesSynced /\ DOMAIN pub[p].temp = NamesOf(p)
      /\ \A n \in DOMAIN pub[p].temp :
           /\ IsFile(pub[p].temp[n]) /\ pub[p].temp[n].by = p /\ pub[p].temp[n].state = "synced"
           /\ OfPackage => pub[p].temp[n].data = Assembled(pub[p].input)[n]
      /\ OfPackage => Assembles(pub[p].input)
  BY <1>1, <1>2 DEF ProcessOK, Drafted, Drafting
<1>5. durable' = DOMAIN dest' /\ Mine(p)' = DOMAIN dest' /\ DOMAIN dest' = NamesOf(p)
  BY <1>4 DEF Mine
<1>6. ASSUME NEW q \in Publishers, q # p
      PROVE  Mine(q) = {} /\ Mine(q)' = {} /\ pub[q].pc \notin Holding
  <2>1. Mine(q)' = {}
    BY <1>4, <1>6 DEF Mine
  <2> QED  BY <2>1, NobodyHolds
<1>7. \A n \in DOMAIN dest' :
        IsFile(dest'[n]) /\ dest'[n].by \in Publishers /\ dest'[n].state = "synced"
  BY <1>4
<1>8. /\ NamesOf(p)' = NamesOf(p) /\ OfPackage' = OfPackage /\ OfSidecar' = OfSidecar
      /\ OfArtifacts' = OfArtifacts /\ OfRun' = OfRun /\ Careful' = Careful
  BY <1>3, SameFiles
<1>9. pub[p].outcome = Pending /\ ~ pub[p].left /\ pub[p].at \in Nat
  BY <1>1 DEF ProcessOK, Sited
<1>10. Sited(p)'
  BY <1>3, <1>8, <1>9 DEF Sited
<1>11. Drafted(p)'
  BY <1>2, <1>3 DEF Drafted, Drafting, Holding
<1>12. Placed(p)'
  BY <1>2, <1>3, <1>5, <1>8, <1>9 DEF Placed, Drafting, Writing, Holding
<1>13. Answered(p)'
  BY <1>2, <1>3, <1>9, PendingFacts DEF Answered
<1>14. ProcessOK(p)'
  BY <1>10, <1>11, <1>12, <1>13 DEF ProcessOK
<1>15. Holds(p)'
  <2>1. /\ Assembles(pub[p].input)' = Assembles(pub[p].input)
        /\ Assembled(pub[p].input)' = Assembled(pub[p].input)
    BY <1>3 DEF Assembles, Assembled
  <2> QED  BY <1>2, <1>3, <1>4, <1>5, <1>8, <2>1 DEF Holds
<1> QED  BY <1>2, <1>3, <1>5, <1>6, <1>7, <1>14, <1>15, TreeStep

LEMMA atomicPublishDirectoryKeepsInv ==
  ASSUME Inv, NEW p \in Publishers, atomicPublishDirectory(p) PROVE Inv'
<1>1. ProcessOK(p) /\ family \in Families
  BY DEF Inv, DiskOK
<1>2. pub[p].pc = "rename" /\ OfSidecar /\ family' = family /\ lost' = lost /\ source' = source
  BY DEF atomicPublishDirectory, OfSidecar
<1>3. CASE Return(p, Failed) /\ UNCHANGED Disk
  <2>1. Mine(p) = {} /\ pub[p].pc \notin Ended
    BY <1>1, <1>2, Kinds DEF ProcessOK, Placed, Drafting, Writing, Ended
  <2> QED  BY <1>2, <1>3, <2>1, FailKeepsInv, SourceStays
<1>4. CASE ~ (Return(p, Failed) /\ UNCHANGED Disk)
  BY <1>2, <1>4, RenameKeepsInv DEF atomicPublishDirectory
<1> QED  BY <1>3, <1>4

LEMMA publishPackageDirectoryNoReplaceKeepsInv ==
  ASSUME Inv, NEW p \in Publishers, publishPackageDirectoryNoReplace(p) PROVE Inv'
<1>1. ProcessOK(p) /\ family \in Families
  BY DEF Inv, DiskOK
<1>2. pub[p].pc = "rename" /\ OfPackage /\ family' = family /\ lost' = lost /\ source' = source
  BY DEF publishPackageDirectoryNoReplace, OfPackage
<1>3. CASE Return(p, Failed) /\ UNCHANGED Disk
  <2>1. Mine(p) = {} /\ pub[p].pc \notin Ended
    BY <1>1, <1>2, Kinds DEF ProcessOK, Placed, Drafting, Writing, Ended
  <2> QED  BY <1>2, <1>3, <2>1, FailKeepsInv, SourceStays
<1>4. CASE ~ (Return(p, Failed) /\ UNCHANGED Disk)
  BY <1>2, <1>4, RenameKeepsInv DEF publishPackageDirectoryNoReplace
<1> QED  BY <1>3, <1>4

(* The holder's directory is whole or given up.                            *)
LEMMA HolderHolds ==
  ASSUME Inv, NEW p \in Publishers, pub[p].pc \in Holding
  PROVE  Holds(p)
<1>1. ProcessOK(p) /\ family \in Families
  BY DEF Inv, DiskOK
<1>2. /\ there /\ Careful /\ Mine(p) = DOMAIN dest
      /\ \A q \in Publishers : q # p => Mine(q) = {}
  BY HolderAlone
<1>3. CASE pub[p].pc = "withdraw"
  BY <1>1, <1>2, <1>3 DEF ProcessOK, Placed, Holds
<1>4. CASE pub[p].pc # "withdraw"
  <2>1. DOMAIN dest = NamesOf(p)
    BY <1>1, <1>4 DEF ProcessOK, Placed
  <2>2. Files(p)[1] \in DOMAIN dest
    BY <1>1, <2>1, FileNames DEF NamesOf
  <2>3. PICK q \in Publishers : Holds(q)
    BY <1>2 DEF Inv, Owned
  <2>4. q = p
    BY <1>2, <2>2, <2>3 DEF Holds
  <2> QED  BY <2>3, <2>4
<1> QED  BY <1>3, <1>4

(* p gives its directory up.                                               *)
LEMMA WithdrawKeepsInv ==
  ASSUME Inv, NEW p \in Publishers, pub[p].pc \in Holding, Withdraw(p),
         family' = family, lost' = lost, source' = source, UNCHANGED Disk
  PROVE  Inv'
<1>1. DOMAIN pub = Publishers /\ DOMAIN pub[p] = Fields /\ ProcessOK(p) /\ family \in Families
  BY DEF Inv, DiskOK, ProcessOK, Sited
<1>2. /\ DOMAIN pub' = Publishers /\ \A q \in Publishers : q # p => pub'[q] = pub[q]
      /\ DOMAIN pub'[p] = Fields
      /\ pub'[p].pc = "withdraw" /\ pub'[p].outcome = pub[p].outcome
      /\ pub'[p].option = pub[p].option /\ pub'[p].at = pub[p].at
      /\ pub'[p].input = pub[p].input /\ pub'[p].left = TRUE
  BY <1>1, WithdrawFacts
<1>3. there /\ Careful /\ Mine(p) = DOMAIN dest /\ pub[p].outcome = Pending
  BY HolderAlone
<1>4. there' = there /\ dest' = dest /\ Mine(p)' = Mine(p)
  BY DEF Disk, Mine
<1>5. ~ OfArtifacts /\ ~ OfRun /\ Careful' = Careful /\ OfArtifacts' = OfArtifacts
  BY <1>1, <1>2, <1>3, Kinds, SameFiles DEF Careful
<1>6. Sited(p)'
  BY <1>1, <1>2, <1>3, <1>5 DEF ProcessOK, Sited
<1>7. Drafted(p)'
  BY <1>2 DEF Drafted, Drafting
<1>8. Placed(p)'
  BY <1>2, <1>3, <1>4, <1>5 DEF Placed, Drafting, Writing
<1>9. Answered(p)'
  BY <1>2, <1>3, PendingFacts DEF Answered
<1>10. ProcessOK(p)'
  BY <1>6, <1>7, <1>8, <1>9 DEF ProcessOK
<1> QED  BY <1>2, <1>5, <1>10, QuietStep, SourceStays DEF Holding, Ended, Writing

(* The holder goes on while the directory stays as it is, though its entry *)
(* may have reached the disk.                                              *)
LEMMA HolderStep ==
  ASSUME Inv, NEW p \in Publishers, pub[p].pc \in Holding, pub[p].pc # "withdraw",
         family' = family, lost' = lost, source' = source,
         there' = there, dest' = dest, durable' = durable,
         DOMAIN pub' = Publishers, \A q \in Publishers : q # p => pub'[q] = pub[q],
         DOMAIN pub'[p] = Fields,
         pub'[p].at = pub[p].at, pub'[p].input = pub[p].input, pub'[p].option = pub[p].option,
         pub'[p].left = pub[p].left,
         \/ pub'[p].pc = "verify" /\ OfSidecar /\ dirDurable' /\ pub'[p].outcome = pub[p].outcome
         \/ pub'[p].pc = "syncPackageParent" /\ OfPackage /\ pub'[p].outcome = pub[p].outcome
         \/ pub'[p].pc = "done" /\ dirDurable' /\ pub'[p].outcome = Outcome("ok", NamesOf(p), NamesOf(p))
  PROVE  Inv'
<1>1. ProcessOK(p) /\ family \in Families
  BY DEF Inv, DiskOK
<1>2. /\ there /\ Careful /\ Mine(p) = DOMAIN dest /\ pub[p].outcome = Pending
      /\ \A q \in Publishers : q # p => Mine(q) = {} /\ pub[q].pc \notin Holding
  BY HolderAlone
<1>3. \A q \in Publishers : Mine(q)' = Mine(q)
  BY DEF Mine
<1>4. DOMAIN dest = NamesOf(p) /\ ~ pub[p].left /\ pub[p].at \in Nat
  BY <1>1 DEF ProcessOK, Sited, Placed, Holding
<1>5. /\ durable = DOMAIN dest
      /\ \A n \in DOMAIN dest : IsFile(dest[n]) /\ dest[n].by \in Publishers /\ dest[n].state = "synced"
  BY <1>2 DEF Inv, DiskOK
<1>6. /\ NamesOf(p)' = NamesOf(p) /\ OfPackage' = OfPackage /\ OfSidecar' = OfSidecar
      /\ OfArtifacts' = OfArtifacts /\ OfRun' = OfRun /\ Careful' = Careful
  BY SameFiles
<1>7. ~ OfArtifacts /\ ~ OfRun
  BY <1>1, <1>2, Kinds DEF Careful
<1>8. Sited(p)'
  BY <1>2, <1>4, <1>6 DEF Sited
<1>9. Drafted(p)'
  BY DEF Drafted, Drafting
<1>10. Placed(p)'
  BY <1>2, <1>3, <1>4, <1>6, <1>7 DEF Placed, Drafting, Writing, Holding
<1>11. Answered(p)'
  <2>1. CASE pub'[p].pc # "done"
    BY <2>1, <1>2, PendingFacts DEF Answered
  <2>2. CASE pub'[p].pc = "done"
    <3>1. pub'[p].outcome.published = NamesOf(p) /\ pub'[p].outcome.confirmed = NamesOf(p) /\ dirDurable'
      BY <2>2 DEF Outcome
    <3> QED  BY <3>1, <1>2, <1>3, <1>4, <1>5 DEF Answered
  <2> QED  BY <2>1, <2>2
<1>12. ProcessOK(p)'
  BY <1>8, <1>9, <1>10, <1>11 DEF ProcessOK
<1>13. Holds(p)'
  <2>1. /\ Assembles(pub[p].input)' = Assembles(pub[p].input)
        /\ Assembled(pub[p].input)' = Assembled(pub[p].input)
    BY DEF Assembles, Assembled
  <2>2. pub'[p].pc \in Holding \cup Ended
    BY DEF Holding, Ended
  <2>3. Holds(p)
    BY HolderHolds
  <2> QED  BY <1>2, <1>3, <1>4, <1>6, <2>1, <2>2, <2>3 DEF Holds
<1> QED  BY <1>2, <1>3, <1>5, <1>12, <1>13, TreeStep

LEMMA syncDirectoryKeepsInv == ASSUME Inv, NEW p \in Publishers, syncDirectory(p) PROVE Inv'
<1>1. DOMAIN pub = Publishers /\ DOMAIN pub[p] = Fields /\ ProcessOK(p)
  BY DEF Inv, DiskOK, ProcessOK, Sited
<1>2. /\ pub[p].pc = "syncDestination" /\ family' = family /\ lost' = lost /\ source' = source
      /\ there' = there /\ dest' = dest /\ durable' = durable /\ OfSidecar
      /\ pub[p].pc \in Holding /\ pub[p].pc # "withdraw"
  BY <1>1 DEF syncDirectory, ProcessOK, Sited, Holding
<1>3. CASE Withdraw(p) /\ UNCHANGED dirDurable
  <2>1. UNCHANGED Disk
    BY <1>2, <1>3 DEF Disk
  <2> QED  BY <1>2, <1>3, <2>1, WithdrawKeepsInv
<1>4. CASE dirDurable' = TRUE /\ Goto(p, "verify")
  <2>1. /\ DOMAIN pub' = Publishers /\ \A q \in Publishers : q # p => pub'[q] = pub[q]
        /\ DOMAIN pub'[p] = Fields
        /\ pub'[p].pc = "verify" /\ pub'[p].at = pub[p].at /\ pub'[p].input = pub[p].input
        /\ pub'[p].option = pub[p].option /\ pub'[p].outcome = pub[p].outcome
        /\ pub'[p].left = pub[p].left
    BY <1>1, <1>4, GotoFacts
  <2> QED  BY <1>2, <1>4, <2>1, HolderStep
<1> QED  BY <1>3, <1>4 DEF syncDirectory

LEMMA verifyPublishedDirectoryKeepsInv ==
  ASSUME Inv, NEW p \in Publishers, verifyPublishedDirectory(p) PROVE Inv'
<1>1. DOMAIN pub = Publishers /\ DOMAIN pub[p] = Fields /\ ProcessOK(p)
  BY DEF Inv, DiskOK, ProcessOK, Sited
<1>2. /\ pub[p].pc = "verify" /\ family' = family /\ lost' = lost /\ source' = source /\ UNCHANGED Disk
      /\ pub[p].pc \in Holding /\ pub[p].pc # "withdraw"
  BY DEF verifyPublishedDirectory, Holding
<1>3. CASE Withdraw(p)
  BY <1>2, <1>3, WithdrawKeepsInv
<1>4. CASE Return(p, Outcome("ok", NamesOf(p), NamesOf(p)))
  <2>1. /\ DOMAIN pub' = Publishers /\ \A q \in Publishers : q # p => pub'[q] = pub[q]
        /\ DOMAIN pub'[p] = Fields
        /\ pub'[p].pc = "done" /\ pub'[p].outcome = Outcome("ok", NamesOf(p), NamesOf(p))
        /\ pub'[p].option = pub[p].option /\ pub'[p].at = pub[p].at
        /\ pub'[p].input = pub[p].input /\ pub'[p].left = pub[p].left
    BY <1>1, <1>4, ReturnFacts
  <2>2. there' = there /\ dest' = dest /\ durable' = durable /\ dirDurable' = dirDurable /\ dirDurable
    BY <1>1, <1>2 DEF Disk, ProcessOK, Placed
  <2> QED  BY <1>2, <2>1, <2>2, HolderStep
<1> QED  BY <1>3, <1>4 DEF verifyPublishedDirectory

LEMMA releaseStagingKeepsInv == ASSUME Inv, NEW p \in Publishers, releaseStaging(p) PROVE Inv'
<1>1. DOMAIN pub = Publishers /\ DOMAIN pub[p] = Fields /\ ProcessOK(p)
  BY DEF Inv, DiskOK, ProcessOK, Sited
<1>2. /\ pub[p].pc = "releaseStaging" /\ family' = family /\ lost' = lost /\ source' = source
      /\ UNCHANGED Disk /\ pub[p].pc \in Holding /\ pub[p].pc # "withdraw" /\ OfPackage
  BY <1>1 DEF releaseStaging, Holding, ProcessOK, Sited
<1>3. CASE Withdraw(p)
  BY <1>2, <1>3, WithdrawKeepsInv
<1>4. CASE Goto(p, "syncPackageParent")
  <2>1. /\ DOMAIN pub' = Publishers /\ \A q \in Publishers : q # p => pub'[q] = pub[q]
        /\ DOMAIN pub'[p] = Fields
        /\ pub'[p].pc = "syncPackageParent" /\ pub'[p].at = pub[p].at /\ pub'[p].input = pub[p].input
        /\ pub'[p].option = pub[p].option /\ pub'[p].outcome = pub[p].outcome
        /\ pub'[p].left = pub[p].left
    BY <1>1, <1>4, GotoFacts
  <2>2. there' = there /\ dest' = dest /\ durable' = durable
    BY <1>2 DEF Disk
  <2> QED  BY <1>2, <2>1, <2>2, HolderStep
<1> QED  BY <1>3, <1>4 DEF releaseStaging

LEMMA syncPublishedPackageParentKeepsInv ==
  ASSUME Inv, NEW p \in Publishers, syncPublishedPackageParent(p) PROVE Inv'
<1>1. DOMAIN pub = Publishers /\ DOMAIN pub[p] = Fields
  BY DEF Inv, DiskOK, ProcessOK, Sited
<1>2. /\ pub[p].pc = "syncPackageParent" /\ family' = family /\ lost' = lost /\ source' = source
      /\ there' = there /\ dest' = dest /\ durable' = durable
      /\ pub[p].pc \in Holding /\ pub[p].pc # "withdraw"
  BY DEF syncPublishedPackageParent, Holding
<1>3. CASE Withdraw(p) /\ UNCHANGED dirDurable
  <2>1. UNCHANGED Disk
    BY <1>2, <1>3 DEF Disk
  <2> QED  BY <1>2, <1>3, <2>1, WithdrawKeepsInv
<1>4. CASE dirDurable' = TRUE /\ Return(p, Outcome("ok", NamesOf(p), NamesOf(p)))
  <2>1. /\ DOMAIN pub' = Publishers /\ \A q \in Publishers : q # p => pub'[q] = pub[q]
        /\ DOMAIN pub'[p] = Fields
        /\ pub'[p].pc = "done" /\ pub'[p].outcome = Outcome("ok", NamesOf(p), NamesOf(p))
        /\ pub'[p].option = pub[p].option /\ pub'[p].at = pub[p].at
        /\ pub'[p].input = pub[p].input /\ pub'[p].left = pub[p].left
    BY <1>1, <1>4, ReturnFacts
  <2> QED  BY <1>2, <1>4, <2>1, HolderStep
<1> QED  BY <1>3, <1>4 DEF syncPublishedPackageParent

(* The holder takes its directory back, file by file.                      *)
LEMMA CleanupKeepsInv ==
  ASSUME Inv, NEW p \in Publishers, pub[p].pc = "withdraw",
         family' = family, lost' = lost, source' = source,
         \/ /\ \E n \in DOMAIN dest : dest' = Without(dest, n) /\ durable' = durable \ {n}
            /\ UNCHANGED <<there, dirDurable, pub>>
         \/ /\ dest = Empty
            /\ there' = FALSE /\ dirDurable' = FALSE
            /\ SetPub(p, [pub[p] EXCEPT !.pc = "done", !.left = FALSE, !.outcome = Failed])
            /\ UNCHANGED <<dest, durable>>
         \/ Return(p, Failed) /\ UNCHANGED Disk
  PROVE  Inv'
<1>1. DOMAIN pub = Publishers /\ DOMAIN pub[p] = Fields /\ ProcessOK(p) /\ family \in Families
  BY DEF Inv, DiskOK, ProcessOK, Sited
<1>2. /\ there /\ Careful /\ Mine(p) = DOMAIN dest /\ pub[p].outcome = Pending /\ pub[p].left
      /\ \A q \in Publishers : q # p => Mine(q) = {} /\ pub[q].pc \notin Holding
  BY <1>1, HolderAlone DEF Holding, ProcessOK, Placed
<1>3. /\ durable = DOMAIN dest
      /\ \A n \in DOMAIN dest : IsFile(dest[n]) /\ dest[n].by \in Publishers /\ dest[n].state = "synced"
  BY <1>2 DEF Inv, DiskOK
<1>4. ~ OfArtifacts /\ ~ OfRun /\ Careful' = Careful /\ OfArtifacts' = OfArtifacts
  BY <1>1, <1>2, Kinds DEF Careful, OfSidecar, OfPackage, OfArtifacts
<1>5. CASE Return(p, Failed) /\ UNCHANGED Disk
  <2>1. pub[p].pc \notin Ended
    BY DEF Ended
  <2> QED  BY <1>2, <1>5, <2>1, FailKeepsInv, SourceStays
<1>6. CASE /\ dest = Empty
           /\ there' = FALSE /\ dirDurable' = FALSE
           /\ SetPub(p, [pub[p] EXCEPT !.pc = "done", !.left = FALSE, !.outcome = Failed])
           /\ UNCHANGED <<dest, durable>>
  <2>1. /\ DOMAIN pub' = Publishers /\ \A q \in Publishers : q # p => pub'[q] = pub[q]
        /\ DOMAIN pub'[p] = Fields
        /\ pub'[p].pc = "done" /\ pub'[p].at = pub[p].at /\ pub'[p].outcome = Failed
    BY <1>1, <1>6 DEF SetPub, Fields
  <2>2. DOMAIN dest' = {} /\ durable' = {} /\ \A q \in Publishers : Mine(q)' = {}
    BY <1>3, <1>6 DEF Mine, Empty
  <2>3. Sited(p)'
    BY <1>1, <2>1 DEF ProcessOK, Sited
  <2>4. Drafted(p)'
    BY <2>1 DEF Drafted, Drafting
  <2>5. Placed(p)'
    BY <1>4, <2>1, <2>2 DEF Placed, Drafting, Writing, Holding
  <2>6. Answered(p)'
    BY <2>1, <2>2 DEF Answered, Failed, Outcome
  <2>7. ProcessOK(p)'
    BY <2>3, <2>4, <2>5, <2>6 DEF ProcessOK
  <2> QED  BY <1>2, <1>6, <2>1, <2>2, <2>7, TreeStep
<1>7. ASSUME NEW n \in DOMAIN dest, dest' = Without(dest, n), durable' = durable \ {n},
             UNCHANGED <<there, dirDurable, pub>>
      PROVE  Inv'
  <2>1. /\ DOMAIN dest' = DOMAIN dest \ {n} /\ \A m \in DOMAIN dest' : dest'[m] = dest[m]
        /\ durable' = DOMAIN dest'
    BY <1>3, <1>7 DEF Without
  <2>2. Mine(p)' = DOMAIN dest' /\ \A q \in Publishers : q # p => Mine(q)' = {}
    BY <1>2, <2>1 DEF Mine
  <2>3. Sited(p)'
    BY <1>1, <1>4, <1>7 DEF ProcessOK, Sited
  <2>4. Drafted(p)'
    BY <1>7 DEF Drafted, Drafting
  <2>5. Placed(p)'
    BY <1>2, <1>4, <1>7, <2>2 DEF Placed, Drafting, Writing
  <2>6. Answered(p)'
    BY <1>2, <1>7, PendingFacts DEF Answered
  <2>7. ProcessOK(p)'
    BY <2>3, <2>4, <2>5, <2>6 DEF ProcessOK
  <2>8. Holds(p)'
    BY <1>2, <1>7, <2>2 DEF Holds, Holding
  <2>9. there' /\ DOMAIN pub' = Publishers /\ \A q \in Publishers : q # p => pub'[q] = pub[q]
    BY <1>1, <1>2, <1>7
  <2>10. \A m \in DOMAIN dest' : IsFile(dest'[m]) /\ dest'[m].by \in Publishers /\ dest'[m].state = "synced"
    BY <1>3, <2>1
  <2> QED  BY <1>2, <2>1, <2>2, <2>7, <2>8, <2>9, <2>10, TreeStep
<1> QED  BY <1>5, <1>6, <1>7

LEMMA cleanupPublishedDirectoryKeepsInv ==
  ASSUME Inv, NEW p \in Publishers, cleanupPublishedDirectory(p) PROVE Inv'
BY CleanupKeepsInv DEF cleanupPublishedDirectory

LEMMA cleanupPublishedPackageKeepsInv ==
  ASSUME Inv, NEW p \in Publishers, cleanupPublishedPackage(p) PROVE Inv'
BY CleanupKeepsInv DEF cleanupPublishedPackage

-----------------------------------------------------------------------------
(* The release directory.                                                  *)

(* A release that qualifies was built in one go from a tested executable.  *)
LEMMA QualifiedRelease ==
  ASSUME NEW directory, directory = [n \in DOMAIN directory |-> directory[n]],
         \A n \in DOMAIN directory : directory[n] \in Built(n),
         QualifyPrePublish(directory)
  PROVE  \E e \in Executables : e.revision = "tested" /\ directory = ReleaseOf(e)
<1>1. prePublishNames = {"SHA256SUMS", "kit", "verifier"}
  <2>1. 1 .. 3 = {1, 2, 3}
    OBVIOUS
  <2>2. Len(InventoryOrder) = 3
    BY DEF InventoryOrder
  <2>3. InventoryOrder[1] = "SHA256SUMS" /\ InventoryOrder[2] = "kit" /\ InventoryOrder[3] = "verifier"
    BY DEF InventoryOrder
  <2> QED  BY <2>1, <2>2, <2>3 DEF prePublishNames
<1>2. DOMAIN directory = {"SHA256SUMS", "kit", "verifier"}
  BY <1>1 DEF QualifyPrePublish, qualificationInventoryExact
<1>3. /\ directory["verifier"] \in Executables
      /\ directory["kit"] \in [binary : Executables, canonical : BOOLEAN]
  BY <1>2 DEF Built, Lanes
<1>4. /\ directory["verifier"].revision = "tested"
      /\ directory["kit"].canonical /\ directory["kit"].binary = directory["verifier"]
      /\ directory["SHA256SUMS"] = [kit |-> directory["kit"], verifier |-> directory["verifier"]]
  BY DEF QualifyPrePublish, InspectArtifact, InspectPortableKit, ValidateBuildInfo, parseQualificationKit,
     qualificationChecksumSnapshotExact, checksumsOf, aggregateQualificationResults
<1>5. Build(directory["verifier"]) = [binary |-> directory["verifier"], canonical |-> TRUE]
  BY DEF Build, buildRaw, Validate
<1>6. directory["kit"] = Build(directory["verifier"])
  BY <1>3, <1>4, <1>5
<1>7. directory = ReleaseOf(directory["verifier"])
  BY <1>1, <1>2, <1>4, <1>6 DEF ReleaseOf
<1> QED  BY <1>3, <1>4, <1>7

LEMMA publishQualifiedDirectoryKeepsInv ==
  ASSUME Inv, NEW p \in Publishers, publishQualifiedDirectory(p) PROVE Inv'
<1>1. DOMAIN pub = Publishers /\ DOMAIN pub[p] = Fields /\ ProcessOK(p) /\ family \in Families
  BY DEF Inv, DiskOK, ProcessOK, Sited
<1>2. /\ pub[p].pc = "rename" /\ OfRelease /\ family' = family /\ lost' = lost /\ source' = source
      /\ durable' = durable /\ dirDurable' = dirDurable
  BY DEF publishQualifiedDirectory, OfRelease
<1>3. ~ OfArtifacts /\ ~ OfRun /\ ~ Careful /\ ~ Linked /\ ~ OfPackage
  BY <1>1, <1>2, Kinds DEF Careful
<1>4. CASE Return(p, Failed) /\ UNCHANGED <<there, dest>>
  <2>1. UNCHANGED Disk
    BY <1>2, <1>4 DEF Disk
  <2>2. Mine(p) = {} /\ pub[p].pc \notin Ended
    BY <1>1, <1>2, <1>3 DEF ProcessOK, Placed, Drafting, Writing, Ended
  <2> QED  BY <1>2, <1>4, <2>1, <2>2, FailKeepsInv, SourceStays
<1>5. CASE /\ QualifyPrePublish(Contents(pub[p].temp)) /\ ~ there
           /\ there' = TRUE /\ dest' = pub[p].temp
           /\ Return(p, Outcome("ok", NamesOf(p), {}))
  <2>1. /\ DOMAIN pub' = Publishers /\ \A q \in Publishers : q # p => pub'[q] = pub[q]
        /\ DOMAIN pub'[p] = Fields
        /\ pub'[p].pc = "done" /\ pub'[p].outcome = Outcome("ok", NamesOf(p), {})
        /\ pub'[p].option = pub[p].option /\ pub'[p].at = pub[p].at
        /\ pub'[p].input = pub[p].input /\ pub'[p].left = pub[p].left
    BY <1>1, <1>5, ReturnFacts
  <2>2. /\ DOMAIN pub[p].temp = NamesOf(p)
        /\ \A n \in DOMAIN pub[p].temp :
             /\ IsFile(pub[p].temp[n]) /\ pub[p].temp[n].by = p /\ pub[p].temp[n].state = "synced"
             /\ pub[p].temp[n].data \in Built(n)
    BY <1>1, <1>2 DEF ProcessOK, Drafted, Drafting
  <2>3. Mine(p)' = DOMAIN dest' /\ DOMAIN dest' = NamesOf(p)
    BY <1>5, <2>2 DEF Mine
  <2>4. ASSUME NEW q \in Publishers, q # p
        PROVE  Mine(q) = {} /\ Mine(q)' = {} /\ pub[q].pc \notin Holding
    <3>1. Mine(q)' = {}
      BY <1>5, <2>2, <2>4 DEF Mine
    <3> QED  BY <3>1, <1>5, NobodyHolds
  <2>5. ASSUME NEW q \in Publishers, q # p PROVE ProcessOK(q)'
    <3>1. ProcessOK(q) /\ pub'[q] = pub[q] /\ Mine(q)' = Mine(q)
      BY <2>1, <2>4, <2>5 DEF Inv
    <3> QED  BY <1>2, <1>3, <2>4, <2>5, <3>1, Bystander
  <2>6. ProcessOK(p)'
    <3>1. Sited(p)'
      BY <1>1, <2>1 DEF ProcessOK, Sited
    <3>2. Drafted(p)'
      BY <2>1 DEF Drafted, Drafting
    <3>3. Placed(p)'
      <4>1. ~ OfArtifacts'
        BY <1>2, <1>3 DEF OfArtifacts
      <4> QED  BY <2>1, <4>1 DEF Placed, Drafting, Writing, Holding
    <3>4. Answered(p)'
      <4>1. pub'[p].outcome.published = NamesOf(p) /\ pub'[p].outcome.confirmed = {}
        BY <2>1 DEF Outcome
      <4> QED  BY <2>3, <4>1 DEF Answered
    <3> QED  BY <3>1, <3>2, <3>3, <3>4 DEF ProcessOK
  <2>7. OfRelease' = OfRelease /\ Careful' = Careful /\ Linked' = Linked /\ OfRun' = OfRun /\ NamesOf(p)' = NamesOf(p)
    BY <1>2, <2>1, SameFiles DEF Linked
  <2>8. DiskOK'
    <3>1. durable' \subseteq DOMAIN dest'
      BY <1>2, <1>5 DEF Inv, DiskOK
    <3>2. \A n \in DOMAIN dest' : IsFile(dest'[n]) /\ dest'[n].by \in Publishers /\ dest'[n].state = "synced"
      BY <1>5, <2>2
    <3>3. \A n \in DOMAIN source' : source'[n] \in Built(n)'
      <4>1. \A n : Built(n)' = Built(n)
        BY DEF Built
      <4> QED  BY <1>2, <4>1 DEF Inv, DiskOK
    <3> QED  BY <1>1, <1>2, <1>3, <1>5, <2>1, <2>7, <3>1, <3>2, <3>3 DEF DiskOK, IsFile
  <2>9. Owned'
    <3>1. \A q \in Publishers : pub'[q].pc \notin Holding
      BY <2>1, <2>4 DEF Holding
    <3> QED  BY <1>3, <2>7, <3>1 DEF Owned
  <2>10. Qualified'
    <3>1. /\ DOMAIN Contents(pub[p].temp) = DOMAIN pub[p].temp
          /\ \A n \in DOMAIN pub[p].temp : Contents(pub[p].temp)[n] = pub[p].temp[n].data
          /\ Contents(pub[p].temp) = [n \in DOMAIN Contents(pub[p].temp) |-> Contents(pub[p].temp)[n]]
      BY DEF Contents
    <3>2. \A n \in DOMAIN Contents(pub[p].temp) : Contents(pub[p].temp)[n] \in Built(n)
      BY <2>2, <3>1
    <3>3. \E e \in Executables : e.revision = "tested" /\ Contents(pub[p].temp) = ReleaseOf(e)
      BY <1>5, <3>1, <3>2, QualifiedRelease
    <3>4. Contents(dest)' = Contents(pub[p].temp)
      BY <1>5 DEF Contents
    <3> QED  BY <2>3, <2>7, <3>3, <3>4 DEF Qualified
  <2>11. OneRun'
    BY <1>3, <2>7 DEF OneRun
  <2> QED  BY <2>5, <2>6, <2>8, <2>9, <2>10, <2>11 DEF Inv
<1> QED  BY <1>4, <1>5 DEF publishQualifiedDirectory

(* While no process acts, only what is being built may change.             *)
LEMMA StandStill ==
  ASSUME Inv, family' = family, there' = there, dest' = dest, durable' = durable,
         dirDurable' = dirDurable, lost' = lost, pub' = pub,
         OfRelease => \A n \in DOMAIN source' : source'[n] \in Built(n)
  PROVE  Inv'
<1>1. /\ family' = family /\ there' = there /\ dest' = dest /\ durable' = durable
      /\ dirDurable' = dirDurable /\ lost' = lost /\ pub' = pub
  OBVIOUS
<1>2. OfRelease => \A n \in DOMAIN source' : source'[n] \in Built(n)
  OBVIOUS
<1>3. DiskOK'
  <2>1. /\ OfRelease' = OfRelease /\ Careful' = Careful /\ Linked' = Linked
        /\ \A n : Built(n)' = Built(n)
    BY <1>1 DEF OfRelease, Careful, OfSidecar, OfPackage, Linked, Built
  <2> QED  BY <1>1, <1>2, <2>1 DEF Inv, DiskOK, IsFile
<1>4. \A q \in Publishers : Mine(q)' = Mine(q)
  BY <1>1 DEF Mine
<1>5. ASSUME NEW q \in Publishers PROVE ProcessOK(q)'
  <2>1. ProcessOK(q)
    BY DEF Inv
  <2> QED  BY <1>1, <1>4, <2>1, Bystander
<1>6. Owned'
  <2>1. \A q \in Publishers : Holds(q)' <=> Holds(q)
    BY <1>1, <1>4 DEF Holds, NamesOf, Files, OfPackage, Assembles, Assembled
  <2> QED  BY <1>1, <2>1 DEF Inv, Owned, Careful, OfSidecar, OfPackage, OfRun
<1>7. Qualified'
  <2>1. Contents(dest)' = Contents(dest) /\ OfRelease' = OfRelease
    BY <1>1 DEF Contents, OfRelease
  <2>2. \A q \in Publishers : NamesOf(q)' = NamesOf(q)
    BY <1>1 DEF NamesOf, Files
  <2> QED  BY <1>1, <1>4, <2>1, <2>2 DEF Inv, Qualified
<1>8. OneRun'
  BY <1>1 DEF Inv, OneRun, OfRun, FirstFiles, Files
<1> QED  BY <1>3, <1>5, <1>6, <1>7, <1>8 DEF Inv

(* Whatever the build puts into the construction directory is typed, and   *)
(* what was published does not depend on it.                               *)
LEMMA EditSourceKeepsInv == ASSUME Inv, EditSource PROVE Inv'
<1>1. OfRelease => \A n \in DOMAIN source' : source'[n] \in Built(n)
  BY DEF EditSource, Inv, DiskOK
<1> QED  BY <1>1, StandStill DEF EditSource

-----------------------------------------------------------------------------
(* The run directory.                                                      *)

(* A step of the only process that writes to the run directory.            *)
LEMMA RunStep ==
  ASSUME Inv, NEW p \in Publishers, OfRun,
         family' = family, lost' = lost, source' = source, there', dirDurable' = dirDurable,
         DOMAIN pub' = Publishers, \A q \in Publishers : q # p => pub'[q] = pub[q],
         ProcessOK(p)', pub'[p].pc \notin Holding,
         \A q \in Publishers : q # p => Mine(q) = {} /\ Mine(q)' = {} /\ pub[q].pc \notin Writing,
         durable' \subseteq DOMAIN dest',
         \A n \in DOMAIN dest' :
           IsFile(dest'[n]) /\ dest'[n].by \in Publishers /\ dest'[n].state = "synced",
         OneRun'
  PROVE  Inv'
<1>1. family \in Families /\ ~ OfRelease /\ ~ Careful /\ ~ Linked
  BY Kinds DEF Inv, DiskOK, Careful
<1>2. \A q \in Publishers : pub[q].pc \notin Holding
  BY <1>1 DEF Inv, ProcessOK, Sited, Holding, Careful
<1>3. \A q \in Publishers : ProcessOK(q)'
  <2> SUFFICES ASSUME NEW q \in Publishers, q # p PROVE ProcessOK(q)'
    OBVIOUS
  <2>1. ProcessOK(q) /\ pub'[q] = pub[q] /\ Mine(q)' = Mine(q) /\ Mine(q) = {} /\ pub[q].pc \notin Holding
    BY <1>2 DEF Inv
  <2> QED  BY <2>1, Bystander
<1>4. OfRelease' = OfRelease /\ Careful' = Careful /\ Linked' = Linked /\ OfRun' = OfRun
  BY DEF OfRelease, Careful, OfSidecar, OfPackage, Linked, OfRun
<1>5. DiskOK'
  BY <1>1, <1>4 DEF DiskOK, IsFile
<1>6. Owned'
  BY <1>1, <1>2, <1>4 DEF Owned
<1>7. Qualified'
  BY <1>1, <1>4 DEF Qualified
<1> QED  BY <1>3, <1>5, <1>6, <1>7 DEF Inv

LEMMA MakeRunDirectoryKeepsInv == ASSUME Inv, NEW p \in Publishers, MakeRunDirectory(p) PROVE Inv'
<1>1. DOMAIN pub = Publishers /\ DOMAIN pub[p] = Fields /\ ProcessOK(p) /\ family \in Families
  BY DEF Inv, DiskOK, ProcessOK, Sited
<1>2. /\ pub[p].pc = "idle" /\ OfRun /\ ~ there /\ there' = TRUE
      /\ family' = family /\ lost' = lost /\ source' = source
      /\ dest' = dest /\ durable' = durable /\ dirDurable' = dirDurable
  BY DEF MakeRunDirectory, OfRun
<1>3. ~ OfArtifacts /\ ~ OfRelease /\ ~ OfPackage /\ ~ Careful /\ ~ Staged
  BY <1>1, <1>2, Kinds DEF Careful
<1>4. PICK swapped \in BOOLEAN : SetPub(p, Started(p, "write", swapped))
  BY DEF MakeRunDirectory
<1>5. /\ DOMAIN pub' = Publishers
      /\ \A q \in Publishers : q # p => pub'[q] = pub[q]
      /\ DOMAIN pub'[p] = Fields
      /\ pub'[p].pc = "write" /\ pub'[p].temp = pub[p].temp /\ pub'[p].outcome = pub[p].outcome
      /\ pub'[p].option = swapped /\ pub'[p].at = 1
      /\ pub'[p].input = pub[p].input /\ pub'[p].left = pub[p].left
  BY <1>1, <1>4, StartFacts
<1>6. DOMAIN dest = {} /\ durable = {}
  BY <1>2 DEF Inv, DiskOK
<1>7. \A q \in Publishers : Mine(q) = {} /\ Mine(q)' = {}
  BY <1>2, <1>6 DEF Mine
<1>8. pub[p].temp = Empty /\ pub[p].outcome = Pending /\ ~ pub[p].left
  BY <1>1, <1>2 DEF ProcessOK, Sited
<1>9. \A q \in Publishers : pub[q].pc \notin Writing
  BY <1>2 DEF Inv, ProcessOK, Placed
<1>10. /\ OfRun' = OfRun /\ OfArtifacts' = OfArtifacts /\ OfRelease' = OfRelease /\ OfPackage' = OfPackage
       /\ Staged' = Staged
  BY <1>2 DEF OfRun, OfArtifacts, OfRelease, OfPackage, Staged
<1>11. 1 \in 1 .. Len(Files(p)')
  <2>1. Files(p)' = RunFiles(swapped)
    BY <1>2, <1>5 DEF Files, OfRun
  <2>2. RunFiles(swapped) = <<"verification.json", "report.html", "observations.ndjson">>
                              \o <<"policy-decisions.json", "assertions.json">>
        \/ RunFiles(swapped) = <<"verification.json", "report.html", "observations.ndjson">>
                              \o <<"assertions.json", "policy-decisions.json">>
    BY DEF RunFiles
  <2>3. Len(RunFiles(swapped)) = 5
    BY <2>2
  <2> QED  BY <2>1, <2>3
<1>12. Sited(p)'
  BY <1>2, <1>3, <1>5, <1>8, <1>10, <1>11 DEF Sited
<1>13. Drafted(p)'
  <2>1. DOMAIN pub'[p].temp = {}
    BY <1>5, <1>8 DEF Empty
  <2> QED  BY <1>3, <1>5, <1>10, <2>1 DEF Drafted, Drafting
<1>14. Placed(p)'
  BY <1>2, <1>3, <1>5, <1>6, <1>7, <1>10 DEF Placed, Drafting, Holding
<1>15. Answered(p)'
  BY <1>5, <1>8, PendingFacts DEF Answered
<1>16. ProcessOK(p)' /\ pub'[p].pc \notin Holding
  BY <1>5, <1>12, <1>13, <1>14, <1>15 DEF ProcessOK, Holding
<1>17. OneRun'
  <2> SUFFICES ASSUME ~ lost PROVE OneRun'
    BY <1>2 DEF OneRun
  <2>1. \A q \in Publishers : q # p => ~ (pub'[q].at > 0) /\ pub'[q].pc \notin Writing
    BY <1>2, <1>5, <1>9 DEF Inv, OneRun
  <2>2. FirstFiles(p, pub[p].at - 1)' = {}
    BY <1>5 DEF FirstFiles
  <2>3. dest = Empty
    BY <1>2, <1>6 DEF Inv, OneRun
  <2> QED  BY <1>2, <1>6, <2>1, <2>2, <2>3 DEF OneRun
<1>18. \A n \in DOMAIN dest' : IsFile(dest'[n]) /\ dest'[n].by \in Publishers /\ dest'[n].state = "synced"
  BY <1>2, <1>6
<1> QED  BY <1>2, <1>5, <1>6, <1>7, <1>9, <1>16, <1>17, <1>18, RunStep

LEMMA RenameIntoRunKeepsInv == ASSUME Inv, NEW p \in Publishers, RenameIntoRun(p) PROVE Inv'
<1>1. DOMAIN pub = Publishers /\ DOMAIN pub[p] = Fields /\ ProcessOK(p) /\ family \in Families
  BY DEF Inv, DiskOK, ProcessOK, Sited
<1>2. /\ pub[p].pc = "place" /\ OfRun /\ there' = there
      /\ family' = family /\ lost' = lost /\ source' = source /\ dirDurable' = dirDurable
  BY DEF RenameIntoRun, OfRun
<1>3. ~ OfArtifacts /\ ~ OfRelease /\ ~ OfPackage /\ ~ Careful /\ ~ Staged
  BY <1>1, <1>2, Kinds DEF Careful
<1>4. CASE Return(p, Failed) /\ UNCHANGED <<dest, durable>>
  <2>1. UNCHANGED Disk /\ pub[p].pc \notin Ended
    BY <1>2, <1>4 DEF Disk, Ended
  <2> QED  BY <1>2, <1>4, <2>1, FailKeepsInv, SourceStays
<1>5. CASE ~ (Return(p, Failed) /\ UNCHANGED <<dest, durable>>)
  <2> DEFINE n == Current(p)
  <2>1. /\ dest' = With(dest, n, pub[p].temp[n]) /\ durable' = durable \ {n}
        /\ IF pub[p].at = Len(Files(p))
           THEN Return(p, Outcome("ok", NamesOf(p), {}))
           ELSE SetPub(p, [pub[p] EXCEPT !.pc = "write", !.at = @ + 1, !.temp = Empty])
    BY <1>5 DEF RenameIntoRun
  <2>2. /\ there /\ Mine(p) = DOMAIN dest /\ pub[p].at \in 1 .. Len(Files(p)) /\ pub[p].at \in Nat
        /\ pub[p].outcome = Pending /\ ~ pub[p].left
    BY <1>1, <1>2 DEF ProcessOK, Placed, Sited, Writing
  <2>3. IsFile(pub[p].temp[n]) /\ pub[p].temp[n].by = p /\ pub[p].temp[n].state = "synced"
    BY <1>1, <1>2, <1>3 DEF ProcessOK, Drafted, Drafting
  <2> HIDE DEF n
  <2>4. /\ DOMAIN dest' = DOMAIN dest \cup {n} /\ dest'[n] = pub[p].temp[n]
        /\ \A m \in DOMAIN dest : m # n => dest'[m] = dest[m]
    BY <2>1 DEF With
  <2>5. Mine(p)' = DOMAIN dest'
    BY <2>2, <2>3, <2>4 DEF Mine
  <2>6. ASSUME NEW q \in Publishers, q # p
        PROVE  Mine(q) = {} /\ Mine(q)' = {} /\ pub[q].pc \notin Writing
    <3>1. Mine(q) = {} /\ Mine(q)' = {}
      BY <2>2, <2>5, <2>6 DEF Mine
    <3>2. pub[q].pc \notin Writing
      BY <1>2, <2>6 DEF Inv, Owned, Writing
    <3> QED  BY <3>1, <3>2
  <2>7. \A m \in DOMAIN dest' : IsFile(dest'[m]) /\ dest'[m].by \in Publishers /\ dest'[m].state = "synced"
    BY <2>3, <2>4 DEF Inv, DiskOK
  <2>8. durable' \subseteq DOMAIN dest'
    BY <2>1, <2>4 DEF Inv, DiskOK
  <2>9. /\ DOMAIN pub' = Publishers /\ \A q \in Publishers : q # p => pub'[q] = pub[q]
        /\ DOMAIN pub'[p] = Fields /\ pub'[p].temp = Empty
        /\ pub'[p].option = pub[p].option /\ pub'[p].left = pub[p].left
        /\ \/ /\ pub[p].at = Len(Files(p)) /\ pub'[p].pc = "done" /\ pub'[p].at = pub[p].at
              /\ pub'[p].outcome = Outcome("ok", NamesOf(p), {})
           \/ /\ pub[p].at # Len(Files(p)) /\ pub'[p].pc = "write" /\ pub'[p].at = pub[p].at + 1
              /\ pub'[p].outcome = pub[p].outcome
    <3>1. CASE pub[p].at = Len(Files(p))
      BY <3>1, <1>1, <2>1, ReturnFacts
    <3>2. CASE pub[p].at # Len(Files(p))
      <4>1. SetPub(p, [pub[p] EXCEPT !.pc = "write", !.at = @ + 1, !.temp = Empty])
        BY <3>2, <2>1
      <4> QED  BY <3>2, <4>1, <1>1 DEF SetPub, Fields
    <3> QED  BY <3>1, <3>2
  <2>10. /\ Files(p)' = Files(p) /\ Staged' = Staged /\ OfPackage' = OfPackage /\ OfRelease' = OfRelease
         /\ OfArtifacts' = OfArtifacts /\ OfRun' = OfRun
    BY <1>2, <2>9, SameFiles
  <2>11. Len(Files(p)) \in Nat /\ Files(p)[1] = "verification.json"
    BY <1>1, <1>2, FileNames
  <2>12. ~ lost => FirstFiles(p, pub[p].at) \subseteq DOMAIN dest'
    <3>1. FirstFiles(p, pub[p].at) = FirstFiles(p, pub[p].at - 1) \cup {n}
      BY <2>2, NextFile DEF n, Current
    <3>2. ~ lost => FirstFiles(p, pub[p].at - 1) \subseteq DOMAIN dest
      BY <1>2 DEF Inv, OneRun, Writing
    <3> QED  BY <2>4, <3>1, <3>2
  <2>13. ~ lost => "verification.json" \in DOMAIN dest'
    <3>1. "verification.json" \in FirstFiles(p, pub[p].at)
      BY <2>2, <2>11 DEF FirstFiles
    <3> QED  BY <3>1, <2>12
  <2>14. OneRun'
    <3> SUFFICES ASSUME ~ lost PROVE OneRun'
      BY <1>2 DEF OneRun
    <3>1. /\ \A q, r \in Publishers : pub[q].at > 0 /\ pub[r].at > 0 => q = r
          /\ \A q \in Publishers : pub[q].at > 0 => there
      BY <1>2 DEF Inv, OneRun
    <3>2. pub[p].at > 0 /\ pub'[p].at > 0
      BY <2>2, <2>9
    <3>3. \A q, r \in Publishers : pub'[q].at > 0 /\ pub'[r].at > 0 => q = r
      BY <2>9, <3>1, <3>2
    <3>4. \A m \in DOMAIN dest' : dest'[m].by = p
      BY <2>5 DEF Mine
    <3>5. ASSUME NEW q \in Publishers, pub'[q].pc \in Writing
          PROVE  FirstFiles(q, pub[q].at - 1)' \subseteq DOMAIN dest'
      <4>1. q = p
        BY <3>5, <2>6, <2>9
      <4>2. pub'[p].at - 1 = pub[p].at
        BY <3>5, <4>1, <2>2, <2>9 DEF Writing
      <4>3. FirstFiles(p, pub[p].at - 1)' = FirstFiles(p, pub[p].at)
        BY <4>2, <2>10 DEF FirstFiles
      <4> QED  BY <4>1, <4>3, <2>12
    <3> QED  BY <1>2, <2>2, <2>13, <3>2, <3>3, <3>4, <3>5 DEF OneRun
  <2>15. Sited(p)'
    <3>1. /\ pub'[p].at \in Nat
          /\ pub'[p].pc = "write" => pub'[p].at \in 1 .. Len(Files(p))
      BY <2>2, <2>9, <2>11
    <3> QED  BY <1>3, <2>2, <2>9, <2>10, <3>1 DEF Sited
  <2>16. Drafted(p)'
    <3>1. DOMAIN pub'[p].temp = {}
      BY <2>9 DEF Empty
    <3> QED  BY <1>3, <2>9, <2>10, <3>1 DEF Drafted, Drafting
  <2>17. Placed(p)'
    BY <1>2, <1>3, <2>2, <2>5, <2>9, <2>10 DEF Placed, Drafting, Holding
  <2>18. Answered(p)'
    <3>1. CASE pub'[p].pc # "done"
      BY <3>1, <2>2, <2>9, PendingFacts DEF Answered
    <3>2. CASE pub'[p].pc = "done"
      <4>1. pub'[p].outcome.published = NamesOf(p) /\ pub'[p].outcome.confirmed = {}
        BY <3>2, <2>9 DEF Outcome
      <4>2. ~ lost => NamesOf(p) \subseteq Mine(p)'
        BY <3>2, <2>5, <2>9, <2>12 DEF FirstFiles, NamesOf
      <4> QED  BY <1>2, <2>10, <4>1, <4>2 DEF Answered
    <3> QED  BY <3>1, <3>2
  <2>19. ProcessOK(p)' /\ pub'[p].pc \notin Holding
    BY <2>9, <2>15, <2>16, <2>17, <2>18 DEF ProcessOK, Holding
  <2> QED  BY <1>2, <2>2, <2>6, <2>7, <2>8, <2>9, <2>14, <2>19, RunStep
<1> QED  BY <1>4, <1>5

-----------------------------------------------------------------------------
(* A power loss drops what is not durable and stops everybody.             *)
LEMMA PowerLossKeepsInv == ASSUME Inv, PowerLoss PROVE Inv'
<1>1. /\ DOMAIN pub = Publishers /\ family \in Families
      /\ durable \subseteq DOMAIN dest /\ (~ there => DOMAIN dest = {})
      /\ \A n \in DOMAIN dest : IsFile(dest[n]) /\ dest[n].by \in Publishers /\ dest[n].state = "synced"
  BY DEF Inv, DiskOK
<1>2. family' = family /\ source' = source /\ lost' = TRUE
  BY DEF PowerLoss
<1>3. PICK keepDir \in BOOLEAN, kept \in SUBSET DOMAIN dest :
        /\ dirDurable => keepDir
        /\ durable \cap DOMAIN dest \subseteq kept
        /\ there' = (there /\ keepDir)
        /\ dest' = IF there' THEN [n \in kept |-> [dest[n] EXCEPT !.state = IF @ = "synced" THEN @ ELSE "torn"]]
                   ELSE Empty
        /\ durable' = DOMAIN dest' /\ dirDurable' = there'
  BY DEF PowerLoss
<1>4. /\ there' => DOMAIN dest' = kept
      /\ ~ there' => DOMAIN dest' = {}
      /\ DOMAIN dest' \subseteq DOMAIN dest
  BY <1>3 DEF Empty
<1>5. \A n \in DOMAIN dest' :
        /\ IsFile(dest'[n]) /\ dest'[n].by = dest[n].by /\ dest'[n].data = dest[n].data
        /\ dest'[n].state = "synced" /\ dest'[n].by \in Publishers
  <2> SUFFICES ASSUME NEW n \in DOMAIN dest'
               PROVE  /\ IsFile(dest'[n]) /\ dest'[n].by = dest[n].by /\ dest'[n].data = dest[n].data
                      /\ dest'[n].state = "synced" /\ dest'[n].by \in Publishers
    OBVIOUS
  <2>1. n \in kept /\ there'
    BY <1>4
  <2>2. dest'[n] = [dest[n] EXCEPT !.state = IF @ = "synced" THEN @ ELSE "torn"]
    BY <1>3, <2>1
  <2>3. IsFile(dest[n]) /\ dest[n].by \in Publishers /\ dest[n].state = "synced"
    BY <1>1, <2>1
  <2> QED  BY <2>2, <2>3 DEF IsFile
<1>6. /\ DOMAIN pub' = Publishers
      /\ \A q \in Publishers :
           pub'[q] = IF Active(q) THEN [pub[q] EXCEPT !.pc = "killed"] ELSE pub[q]
  BY DEF PowerLoss
<1>7. ASSUME NEW q \in Publishers
      PROVE  /\ DOMAIN pub'[q] = Fields
             /\ pub'[q].pc = IF pub[q].pc \in {"idle", "done", "killed"} THEN pub[q].pc ELSE "killed"
             /\ pub'[q].option = pub[q].option /\ pub'[q].at = pub[q].at /\ pub'[q].temp = pub[q].temp
             /\ pub'[q].outcome = pub[q].outcome /\ pub'[q].left = pub[q].left
             /\ pub'[q].input = pub[q].input
  <2>1. DOMAIN pub[q] = Fields
    BY DEF Inv, ProcessOK, Sited
  <2> QED  BY <1>6, <2>1 DEF Active, Fields
<1>8. OfRelease' = OfRelease /\ Careful' = Careful /\ Linked' = Linked /\ OfRun' = OfRun
      /\ OfPackage' = OfPackage /\ OfArtifacts' = OfArtifacts
  BY <1>2 DEF OfRelease, Careful, OfSidecar, OfPackage, Linked, OfRun, OfArtifacts
<1>9. Linked => there /\ dirDurable /\ there'
  BY <1>3 DEF Inv, DiskOK
<1>10. DiskOK'
  <2>1. \A n : Built(n)' = Built(n)
    BY DEF Built
  <2> QED  BY <1>1, <1>2, <1>3, <1>4, <1>5, <1>6, <1>8, <1>9, <2>1 DEF Inv, DiskOK, IsFile
<1>11. \A q \in Publishers : Mine(q)' = Mine(q) \cap DOMAIN dest'
  BY <1>4, <1>5 DEF Mine
<1>12. ASSUME NEW q \in Publishers PROVE ProcessOK(q)'
  <2>1. ProcessOK(q)
    BY DEF Inv
  <2>2. pub'[q].pc \in {"idle", "done", "killed"}
    BY <1>7
  <2>3. Sited(q)'
    BY <1>7, <2>1, <2>2 DEF ProcessOK, Sited
  <2>4. Drafted(q)'
    BY <2>2 DEF Drafted, Drafting
  <2>5. Placed(q)'
    <3>1. pub'[q].pc = "idle" => Mine(q)' = {}
      BY <1>7, <1>11, <2>1 DEF ProcessOK, Placed
    <3>2. OfArtifacts /\ pub[q].option /\ "bundle" \in Mine(q)' => "public-key" \in Mine(q)' \cap durable'
      <4> SUFFICES ASSUME OfArtifacts, pub[q].option, "bundle" \in Mine(q)'
                   PROVE  "public-key" \in Mine(q)' /\ "public-key" \in durable'
        OBVIOUS
      <4>1. "public-key" \in Mine(q) /\ "public-key" \in durable
        BY <1>11, <2>1 DEF ProcessOK, Placed
      <4>2. there'
        BY <1>1, <1>9, Kinds
      <4>3. "public-key" \in DOMAIN dest'
        BY <1>1, <1>3, <1>4, <4>1, <4>2
      <4> QED  BY <1>3, <1>11, <4>1, <4>3
    <3> QED  BY <1>7, <1>8, <2>2, <3>1, <3>2 DEF Placed, Drafting, Writing, Holding
  <2>6. Answered(q)'
    <3>1. pub[q].outcome.confirmed \subseteq Mine(q) \cap durable
      BY <2>1 DEF ProcessOK, Answered
    <3>2. ASSUME pub[q].outcome.confirmed # {} PROVE there' /\ durable \subseteq DOMAIN dest'
      <4>1. dirDurable
        BY <3>2, <2>1 DEF ProcessOK, Answered
      <4>2. there
        BY <3>1, <3>2, <1>1 DEF Mine
      <4> QED  BY <4>1, <4>2, <1>1, <1>3, <1>4
    <3> QED  BY <1>2, <1>3, <1>7, <1>11, <3>1, <3>2 DEF Answered
  <2> QED  BY <2>3, <2>4, <2>5, <2>6 DEF ProcessOK
<1>13. Owned'
  <2>1. \A q \in Publishers : pub'[q].pc \notin Holding /\ pub'[q].pc \notin Writing
    BY <1>7 DEF Holding, Writing
  <2>2. ASSUME Careful, there' PROVE \E q \in Publishers : Holds(q)'
    <3>1. PICK q \in Publishers : Holds(q)
      BY <1>3, <2>2 DEF Inv, Owned
    <3>2. DOMAIN dest' = DOMAIN dest
      BY <1>3, <1>4, <2>2 DEF Inv, DiskOK
    <3>3. pub'[q].pc \in Holding \cup Ended
      BY <3>1, <1>7 DEF Holds, Holding, Ended
    <3>4. NamesOf(q)' = NamesOf(q)
      BY <1>2, <1>7, SameFiles
    <3>5. /\ Assembles(pub[q].input)' = Assembles(pub[q].input)
          /\ Assembled(pub[q].input)' = Assembled(pub[q].input)
      BY <1>2, <1>7 DEF Assembles, Assembled
    <3>6. Mine(q)' = DOMAIN dest'
      BY <1>11, <3>1, <3>2 DEF Holds
    <3>7. Holds(q)'
      BY <1>5, <1>7, <1>8, <3>1, <3>2, <3>3, <3>4, <3>5, <3>6 DEF Holds
    <3> QED  BY <3>7
  <2> QED  BY <1>8, <2>1, <2>2 DEF Owned
<1>14. Qualified' /\ OneRun'
  BY <1>2 DEF Qualified, OneRun
<1> QED  BY <1>10, <1>12, <1>13, <1>14 DEF Inv

-----------------------------------------------------------------------------
(* The invariant, and what it says.                                        *)

(* Nothing is published yet.                                               *)
LEMMA InitHasInv == ASSUME Init PROVE Inv
<1>1. /\ family \in Families /\ DOMAIN dest = {} /\ durable = {} /\ DOMAIN pub = Publishers
      /\ \A p \in Publishers : pub[p] = Idle /\ Mine(p) = {}
      /\ there = Linked /\ dirDurable = Linked
  BY DEF Init, Empty, Mine
<1>2. ASSUME NEW p \in Publishers PROVE ProcessOK(p)
  <2>1. /\ DOMAIN pub[p] = Fields /\ pub[p].pc = "idle" /\ pub[p].at = 0 /\ pub[p].temp = Empty
        /\ ~ pub[p].left /\ pub[p].outcome = Pending
    BY <1>1 DEF Idle, Fields
  <2>2. Sited(p)
    BY <2>1 DEF Sited
  <2>3. Drafted(p)
    BY <2>1 DEF Drafted, Drafting
  <2>4. Placed(p)
    BY <1>1, <2>1 DEF Placed, Drafting, Writing, Holding
  <2>5. Answered(p)
    BY <2>1, PendingFacts DEF Answered
  <2> QED  BY <2>2, <2>3, <2>4, <2>5 DEF ProcessOK
<1>3. DiskOK
  <2>1. OfRelease => \A n \in DOMAIN source : source[n] \in Built(n)
    <3> SUFFICES ASSUME OfRelease, NEW n \in DOMAIN source PROVE source[n] \in Built(n)
      OBVIOUS
    <3> DEFINE e == [revision |-> "tested", serial |-> 1]
    <3>1. source = ReleaseOf(e)
      <4>1. family # PackageFiles /\ family # ToolFiles
        BY <1>1, Kinds DEF OfPackage, PackageFamilies
      <4> QED  BY <4>1 DEF Init, Sources, OfRelease
    <3>2. n \in prePublishNames
      BY <3>1 DEF ReleaseOf
    <3>3. n \in {"SHA256SUMS", "kit", "verifier"}
      <4>1. 1 .. 3 = {1, 2, 3}
        OBVIOUS
      <4>2. Len(InventoryOrder) = 3
        BY DEF InventoryOrder
      <4>3. InventoryOrder[1] = "SHA256SUMS" /\ InventoryOrder[2] = "kit" /\ InventoryOrder[3] = "verifier"
        BY DEF InventoryOrder
      <4> QED  BY <3>2, <4>1, <4>2, <4>3 DEF prePublishNames
    <3>4. e \in Executables
      BY DEF Executables
    <3>5. Build(e) = [binary |-> e, canonical |-> TRUE]
      BY DEF Build, buildRaw, Validate
    <3> HIDE DEF e
    <3>6. CASE n = "verifier"
      BY <3>1, <3>2, <3>4, <3>6 DEF ReleaseOf, Built, Lanes
    <3>7. CASE n = "kit"
      BY <3>1, <3>2, <3>4, <3>5, <3>7 DEF ReleaseOf, Built, Lanes
    <3>8. CASE n = "SHA256SUMS"
      BY <3>1, <3>2, <3>4, <3>8 DEF ReleaseOf, Built, Lanes
    <3> QED  BY <3>3, <3>6, <3>7, <3>8
  <2>2. Careful => durable = DOMAIN dest
    BY <1>1
  <2> QED  BY <1>1, <2>1, <2>2 DEF DiskOK
<1>4. Owned
  <2>1. \A p \in Publishers : pub[p].pc \notin Holding /\ pub[p].pc \notin Writing
    BY <1>1 DEF Idle, Holding, Writing
  <2>2. Careful => ~ there
    BY <1>1, Kinds DEF Careful
  <2> QED  BY <2>1, <2>2 DEF Owned
<1>5. Qualified
  BY <1>1, Kinds DEF Qualified
<1>6. OneRun
  BY <1>1 DEF Init, OneRun, Idle, Writing
<1> QED  BY <1>2, <1>3, <1>4, <1>5, <1>6 DEF Inv

(* Every step keeps it.                                                    *)
LEMMA NextKeepsInv == ASSUME Inv, [Next]_vars PROVE Inv'
<1>1. CASE UNCHANGED vars
  BY <1>1, StandStill, SourceStays DEF vars
<1>2. CASE \E p \in Publishers :
       \/ Refuse(p) \/ MakeRunDirectory(p) \/ LoadPrivateKeyForArtifacts(p) \/ dispatch(p)
       \/ readRegularBinary(p) \/ publishNewDirectory(p) \/ SealSnapshot(p)
       \/ Assemble(p) \/ readExactPackageDirectory(p) \/ createPrivateQualificationStaging(p)
       \/ WriteFile(p) \/ SyncFile(p) \/ SyncStagedFile(p) \/ RenameIntoRun(p)
  BY <1>2, RefuseKeepsInv, MakeRunDirectoryKeepsInv, LoadPrivateKeyKeepsInv, dispatchKeepsInv,
     readRegularBinaryKeepsInv, publishNewDirectoryKeepsInv, SealSnapshotKeepsInv, AssembleKeepsInv,
     readExactPackageDirectoryKeepsInv, createPrivateQualificationStagingKeepsInv, WriteFileKeepsInv,
     SyncFileKeepsInv, SyncStagedFileKeepsInv, RenameIntoRunKeepsInv
<1>3. CASE \E p \in Publishers :
       \/ publishBundleNoReplace(p) \/ ConfirmArtifact(p) \/ syncBundleDirectory(p)
       \/ inspectNewArtifactDestination(p)
       \/ writeNewFileAtomically(p) \/ publishNoReplace(p) \/ readBack(p)
       \/ SyncStaging(p) \/ atomicPublishDirectory(p) \/ syncDirectory(p)
       \/ verifyPublishedDirectory(p) \/ cleanupPublishedDirectory(p)
  BY <1>3, publishBundleNoReplaceKeepsInv, ConfirmArtifactKeepsInv, syncBundleDirectoryKeepsInv,
     inspectNewArtifactDestinationKeepsInv, writeNewFileAtomicallyKeepsInv, publishNoReplaceKeepsInv,
     readBackKeepsInv, SyncStagingKeepsInv, atomicPublishDirectoryKeepsInv, syncDirectoryKeepsInv,
     verifyPublishedDirectoryKeepsInv, cleanupPublishedDirectoryKeepsInv
<1>4. CASE \E p \in Publishers :
       \/ publishPackageDirectoryNoReplace(p) \/ releaseStaging(p)
       \/ syncPublishedPackageParent(p) \/ cleanupPublishedPackage(p)
       \/ copyStableQualificationFile(p) \/ PreparePrePublish(p) \/ removeConstructionDirectory(p)
       \/ publishQualifiedDirectory(p) \/ Kill(p)
  BY <1>4, publishPackageDirectoryNoReplaceKeepsInv, releaseStagingKeepsInv,
     syncPublishedPackageParentKeepsInv, cleanupPublishedPackageKeepsInv,
     copyStableQualificationFileKeepsInv, PreparePrePublishKeepsInv, removeConstructionDirectoryKeepsInv,
     publishQualifiedDirectoryKeepsInv, KillKeepsInv
<1>5. CASE EditSource \/ PowerLoss
  BY <1>5, EditSourceKeepsInv, PowerLossKeepsInv
<1> QED  BY <1>1, <1>2, <1>3, <1>4, <1>5 DEF Next

(* The inductive invariant holds of every behaviour: who created a name    *)
(* owns it alone, and knows what of it is on disk.                         *)
THEOREM PublicationInvariant == Spec => []Inv
BY InitHasInv, NextKeepsInv, PTL DEF Spec

(* A directory that is there is whole or given up by its owner.            *)
LEMMA InvPublished == ASSUME Inv PROVE PublishedIsWhole
<1>1. family \in Families /\ \A n \in DOMAIN dest : dest[n].by \in Publishers /\ dest[n].state = "synced"
  BY DEF Inv, DiskOK
<1>2. ASSUME Staged, there, ~ (family = <<"release">> /\ lost)
      PROVE  \E p \in Publishers :
               \/ \A n \in NamesOf(p) : n \in DOMAIN dest /\ dest[n].by = p
               \/ pub[p].left /\ Mine(p) = DOMAIN dest
  <2>1. CASE Careful
    <3>1. PICK p \in Publishers : Holds(p)
      BY <1>2, <2>1 DEF Inv, Owned
    <3>2. CASE pub[p].left
      BY <3>1, <3>2 DEF Holds
    <3>3. CASE DOMAIN dest = NamesOf(p)
      BY <3>1, <3>3 DEF Holds, Mine
    <3> QED  BY <3>1, <3>2, <3>3 DEF Holds
  <2>2. CASE OfRelease
    <3>1. PICK p \in Publishers : DOMAIN dest = NamesOf(p) /\ Mine(p) = DOMAIN dest
      BY <1>2, <2>2 DEF Inv, Qualified, OfRelease
    <3> QED  BY <3>1 DEF Mine
  <2> QED  BY <1>1, <1>2, <2>1, <2>2, Kinds
<1>3. ASSUME NEW p \in Publishers, family = <<"artifacts">>, pub[p].option, "bundle" \in Mine(p)
      PROVE  "public-key" \in Mine(p)
  BY <1>3 DEF Inv, ProcessOK, Placed, OfArtifacts
<1>4. ASSUME family = <<"run">>, ~ lost, dest # Empty
      PROVE  \E p \in Publishers : Mine(p) = DOMAIN dest /\ Read # <<>>
  <2>1. /\ "verification.json" \in DOMAIN dest
        /\ \A n \in DOMAIN dest : pub[dest[n].by].at > 0
        /\ \A p, q \in Publishers : pub[p].at > 0 /\ pub[q].at > 0 => p = q
    BY <1>4 DEF Inv, OneRun, OfRun
  <2> DEFINE p == dest["verification.json"].by
  <2>2. p \in Publishers /\ pub[p].at > 0
    BY <1>1, <2>1
  <2>3. \A n \in DOMAIN dest : dest[n].by = p
    BY <1>1, <2>1, <2>2
  <2>4. Mine(p) = DOMAIN dest
    BY <2>3 DEF Mine
  <2>5. there
    BY <2>1 DEF Inv, DiskOK
  <2>6. Read = <<dest["verification.json"]>>
    BY <1>1, <2>1, <2>5 DEF Read
  <2>7. Read # <<>>
    BY <2>6
  <2> QED  BY <2>2, <2>4, <2>7
<1> QED  BY <1>1, <1>2, <1>3, <1>4 DEF PublishedIsWhole

(* What a tool directory is assembled from, a verifier accepts with it.    *)
LEMMA ToolsAreAccepted ==
  ASSUME NEW package, NEW linux, NEW windows, assemblesTools(package, linux, windows),
         NEW self \in {linux, windows}
  PROVE  verifyQualificationSubject(package,
           expectedToolManifest(package["linux-receipt"].subject, linux, windows), self,
           [subject |-> package["linux-receipt"].subject, run |-> package["linux-receipt"].run])
<1>1. /\ inspectQualificationPackage(package)
      /\ inspectQualificationController(linux, package["linux-receipt"])
      /\ inspectQualificationController(windows, package["windows-receipt"])
  BY DEF assemblesTools
<1>2. /\ package["linux-receipt"].lane = "linux" /\ package["windows-receipt"].lane = "windows"
      /\ package["linux-receipt"].subject = package["windows-receipt"].subject
      /\ package["linux-receipt"].run = package["windows-receipt"].run
  BY <1>1 DEF inspectQualificationPackage, verifyReceiptPackageBindings, parseCanonicalReceipt,
     validateReceiptRun
<1>3. /\ linux.os = "linux" /\ linux.revision = package["linux-receipt"].subject
      /\ linux = package["linux-receipt"].controller
      /\ windows.os = "windows" /\ windows.revision = package["linux-receipt"].subject
      /\ windows = package["windows-receipt"].controller
  BY <1>1, <1>2 DEF inspectQualificationController, validQualificationControllerBuildInfo
<1>4. qualificationPackageMatchesExpectation(package,
        [subject |-> package["linux-receipt"].subject, run |-> package["linux-receipt"].run])
  BY <1>2 DEF qualificationPackageMatchesExpectation
<1>5. bindQualificationToolManifest(
        expectedToolManifest(package["linux-receipt"].subject, linux, windows), package, self)
  BY <1>3 DEF bindQualificationToolManifest, expectedToolManifest, qualificationToolMatchesController
<1> QED  BY <1>1, <1>4, <1>5 DEF verifyQualificationSubject

(* What is in dist or in a package's or tools' place was qualified.        *)
LEMMA InvQualified == ASSUME Inv PROVE ReleasedIsQualified
<1>1. family \in Families
  BY DEF Inv, DiskOK
<1>2. ASSUME family = <<"release">>, there, ~ lost
      PROVE  \E e \in Executables : e.revision = "tested" /\ Contents(dest) = ReleaseOf(e)
  BY <1>2 DEF Inv, Qualified, OfRelease
<1> DEFINE About(p) == [subject |-> pub[p].input["package"]["linux-receipt"].subject,
                        run |-> pub[p].input["package"]["linux-receipt"].run]
<1>3. ASSUME OfPackage, there
      PROVE  \E p \in Publishers :
               \/ pub[p].left
               \/ /\ Mine(p) = NamesOf(p) /\ DOMAIN dest = NamesOf(p)
                  /\ IF family = PackageFiles
                     THEN /\ inspectQualificationPackage(Contents(dest))
                          /\ qualificationPackageMatchesExpectation(Contents(dest), Expected)
                     ELSE \A self \in {dest["linux-controller"].data, dest["windows-controller"].data} :
                            verifyQualificationSubject(pub[p].input["package"], dest["tool-manifest"].data,
                                                       self, About(p))
  <2>1. PICK p \in Publishers : Holds(p)
    BY <1>3 DEF Inv, Owned, Careful
  <2>2. CASE pub[p].left
    BY <2>2
  <2>3. CASE ~ pub[p].left
    <3>1. /\ Mine(p) = NamesOf(p) /\ DOMAIN dest = NamesOf(p) /\ Assembles(pub[p].input)
          /\ \A n \in DOMAIN dest : dest[n].data = Assembled(pub[p].input)[n]
      BY <1>3, <2>1, <2>3 DEF Holds
    <3>2. Files(p) = family
      BY <1>1, <1>3, FileNames DEF Careful
    <3>3. CASE family = PackageFiles
      <4>1. NamesOf(p) = {"archive", "manifest", "linux-receipt", "windows-receipt"}
        <5>1. 1 .. 4 = {1, 2, 3, 4}
          OBVIOUS
        <5>2. /\ Len(Files(p)) = 4 /\ Files(p)[1] = "archive" /\ Files(p)[2] = "manifest"
              /\ Files(p)[3] = "linux-receipt" /\ Files(p)[4] = "windows-receipt"
          BY <3>2, <3>3 DEF PackageFiles
        <5> QED  BY <5>1, <5>2 DEF NamesOf
      <4> DEFINE package == PackageOf(pub[p].input["linux"], pub[p].input["windows"])
      <4>2. Assembled(pub[p].input) = package
        BY <3>3 DEF Assembled
      <4>3. inspectQualificationPackage(package) /\ qualificationPackageMatchesExpectation(package, Expected)
        BY <3>1, <3>3 DEF Assembles, assemblesPackage
      <4>4. package = [n \in NamesOf(p) |-> package[n]]
        BY <4>1 DEF PackageOf
      <4> HIDE DEF package
      <4>5. Contents(dest) = package
        BY <3>1, <4>2, <4>4 DEF Contents
      <4> QED  BY <3>1, <3>3, <4>3, <4>5
    <3>4. CASE family # PackageFiles
      <4>1. family = ToolFiles
        BY <1>3, <3>4 DEF OfPackage, PackageFamilies
      <4>2. {"linux-controller", "windows-controller", "tool-manifest"} \subseteq DOMAIN dest
        <5>1. /\ Len(Files(p)) = 3 /\ Files(p)[1] = "linux-controller" /\ Files(p)[2] = "windows-controller"
              /\ Files(p)[3] = "tool-manifest"
          BY <3>2, <4>1 DEF ToolFiles
        <5> QED  BY <3>1, <5>1 DEF NamesOf
      <4> DEFINE package == pub[p].input["package"]
                 linux == pub[p].input["linux-controller"]
                 windows == pub[p].input["windows-controller"]
      <4>3. Assembled(pub[p].input) = ToolsOf(package, linux, windows)
        BY <3>4 DEF Assembled
      <4>4. assemblesTools(package, linux, windows)
        BY <3>1, <3>4 DEF Assembles
      <4>5. /\ dest["linux-controller"].data = linux /\ dest["windows-controller"].data = windows
            /\ dest["tool-manifest"].data = expectedToolManifest(package["linux-receipt"].subject, linux, windows)
        BY <3>1, <4>2, <4>3 DEF ToolsOf
      <4>6. \A self \in {linux, windows} :
              verifyQualificationSubject(package,
                expectedToolManifest(package["linux-receipt"].subject, linux, windows), self, About(p))
        BY <4>4, ToolsAreAccepted
      <4> QED  BY <3>1, <3>4, <4>5, <4>6
    <3> QED  BY <3>3, <3>4
  <2> QED  BY <2>2, <2>3
<1> QED  BY <1>2, <1>3 DEF ReleasedIsQualified, OfPackage

(* Nobody who looks at a destination finds half of something, for any      *)
(* number of publishing processes, kills and edits and a power loss: what  *)
(* storage.RunStore.Write, attestation.WriteSigningArtifacts and the       *)
(* directory renames are for.                                              *)
THEOREM NothingHalfPublished == Spec => []PublishedIsWhole
BY PublicationInvariant, InvPublished, PTL

(* What a command reports as there to stay is there, before and after a    *)
(* power loss.                                                             *)
THEOREM ConfirmedStays == Spec => []DurabilityIsTrue
<1>1. Inv => DurabilityIsTrue
  BY DEF Inv, ProcessOK, Answered, DurabilityIsTrue
<1> QED  BY <1>1, PublicationInvariant, PTL

(* What a command reports as published is there under its own names, and   *)
(* nothing else of it is: of two commands with one destination at most one *)
(* succeeds.                                                               *)
THEOREM AnswersAreTrue == Spec => []OutcomeIsTrue
<1>1. Inv => OutcomeIsTrue
  BY DEF Inv, ProcessOK, Answered, OutcomeIsTrue, OfRun
<1> QED  BY <1>1, PublicationInvariant, PTL

(* dist holds one qualified release, a package two passing lanes of the    *)
(* run and subject asked for, a tool directory what both verifiers accept, *)
(* whatever is edited while they are copied.                               *)
THEOREM OnlyQualifiedIsReleased == Spec => []ReleasedIsQualified
BY PublicationInvariant, InvQualified, PTL

=============================================================================

------------------------ MODULE VerifyCommand_proofs ------------------------
(***************************************************************************)
(* What repopass verify concludes, proved for every set of outcomes that   *)
(* the contract of a run allows, every repeat count and every set of       *)
(* required observers; and the table of overall statuses.                  *)
(***************************************************************************)
EXTENDS VerifyCommand, VerdictTable, SequenceTheorems, WellFoundedInduction, TLAPS

(***************************************************************************)
(* The inductive invariant.                                                *)
(***************************************************************************)
Stages == {"probe", "execute", "removeWorkRoot", "resnapshot", "build", "write", "done"}

\* The types of the variables, and the bound on the repeats: the loop is
\* entered again only while a repeat is missing.
Types ==
    /\ pc \in Stages
    /\ requested \in Requests
    /\ source \in {"planned", "changed"}
    /\ runs \in Seq(Outcomes)
    /\ assertions \in Seq(Statuses)
    /\ matching \in Nat
    /\ cleanup \in Cleanup
    /\ workRoot \in {"absent", "present"}
    /\ Len(runs) <= requested
    /\ pc \in {"probe", "execute"} => Len(runs) < requested

\* What the loop keeps of every repeat.
Accumulated ==
    \A i \in 1 .. Len(runs) :
        /\ (\A k \in 1 .. Len(assertions) : assertions[k] = "passed") =>
               \A k \in 1 .. Len(runs[i].statuses) : runs[i].statuses[k] = "passed"
        /\ features \subseteq runs[i].complete
        /\ runs[i].errors \subseteq findings \cup {NoError}
        /\ CleanupRank(runs[i].cleanup) <= CleanupRank(cleanup)

\* A count that has kept up with the repeats is the count of all of them.
Counted ==
    /\ matching <= Len(runs)
    /\ \A d \in DOMAIN fingerprintCounts :
           /\ fingerprintCounts[d] \in Nat
           /\ fingerprintCounts[d] <= Len(runs)
           /\ fingerprintCounts[d] = Len(runs) =>
                  \A i \in 1 .. Len(runs) : assertionFingerprint(runs[i]) = d
    /\ (matching = Len(runs) /\ runs # << >>) =>
           \A i, j \in 1 .. Len(runs) :
               assertionFingerprint(runs[i]) = assertionFingerprint(runs[j])

\* What the later stages have established.
Staged ==
    /\ pc \in {"resnapshot", "build", "write", "done"} /\ result.status # "failed" =>
           workRoot = "absent" \/ "CLEANUP_FAILED" \in findings
    /\ pc \in {"build", "write", "done"} /\ result.status # "failed" =>
           \/ source = "planned"
           \/ "SOURCE_DIGEST_MISMATCH" \in findings
           \/ Meets(RefetchCodes, findings)

\* The result is what Build makes of a state that has not changed since, and
\* Build has compared the cleanup verdict with the findings.
Concluded ==
    /\ "status" \in DOMAIN result
    /\ result.status = "failed" => pc = "done"
    /\ HasResult =>
        /\ pc \in {"write", "done"}
        /\ result.status # "failed"
        /\ cleanup \in {"clean", "allowed-residue"} =>
               runs # << >> /\ ~Meets(ResidueCodes \cup TechnicalCodes, findings)
        /\ result.verdicts = verdicts
        /\ result.overall = aggregate(verdicts)

Inv == Types /\ Accumulated /\ Counted /\ Staged /\ Concluded

(***************************************************************************)
(* Facts about the verdicts.                                               *)
(***************************************************************************)
\* The caller's verdict never gets better: aggregateCleanupVerdict keeps the
\* worse of the two.
LEMMA KeepsTheWorse ==
    ASSUME NEW left \in Cleanup, NEW right \in Cleanup
    PROVE  /\ aggregateCleanupVerdict(left, right) \in Cleanup
           /\ CleanupRank(left) <= CleanupRank(aggregateCleanupVerdict(left, right))
           /\ CleanupRank(right) <= CleanupRank(aggregateCleanupVerdict(left, right))
           /\ CleanupRank(left) \in 1 .. 4 /\ CleanupRank(right) \in 1 .. 4
  BY DEF Cleanup, CleanupRank, aggregateCleanupVerdict

LEMMA RankIsNumber == \A c \in Cleanup : CleanupRank(c) \in 1 .. 4
  BY KeepsTheWorse

\* A nonempty set of natural numbers has a least element.
LEMMA LeastNatural ==
    ASSUME NEW T, T \subseteq Nat, T # {}
    PROVE  \E x \in T : \A y \in T : x <= y
<1> DEFINE less == {ss \in Nat \X Nat : ss[1] < ss[2]}
<1>1. IsWellFoundedOn(less, Nat)
  BY NatLessThanWellFounded DEF OpToRel
<1>2. PICK x \in T : \A y \in T : ~ (<<y, x>> \in less)
  <2> HIDE DEF less
  <2> QED  BY <1>1, WFMin
<1>3. \A y \in T : ~ (y < x)
  BY <1>2
<1> QED  BY <1>3

\* The first assertion that did not pass has a status of its own; if there is
\* none, all have passed.
LEMMA FirstNotPassedDecides ==
    ASSUME NEW s \in Seq(Statuses)
    PROVE  /\ FirstNotPassed(s) \in Statuses
           /\ FirstNotPassed(s) = "passed" => \A k \in 1 .. Len(s) : s[k] = "passed"
<1> DEFINE bad == {i \in DOMAIN s : s[i] # "passed"}
<1>1. CASE bad = {}
  BY <1>1 DEF FirstNotPassed, Statuses
<1>2. CASE bad # {}
  <2>1. bad \subseteq Nat
    OBVIOUS
  <2>2. \E x \in bad : \A y \in bad : x <= y
    <3> HIDE DEF bad
    <3> QED  BY <2>1, <1>2, LeastNatural
  <2>3. (CHOOSE i \in bad : \A j \in bad : i <= j) \in bad
    <3> HIDE DEF bad
    <3> QED  BY <2>2
  <2> QED  BY <2>3, <1>2 DEF FirstNotPassed
<1> QED  BY <1>1, <1>2

\* What a functional pass tells: no failing code, a repeat that completed, and
\* no assertion but passed ones.
LEMMA PassMeans ==
    ASSUME NEW errors, NEW s \in Seq(Statuses), NEW n,
           functionalVerdict(errors, s, n) = "pass"
    PROVE  /\ ~Meets(BlockedCodes, errors) /\ ~Meets(FailCodes, errors)
           /\ ~Meets(InconclusiveCodes, errors)
           /\ n # 0
           /\ \A k \in 1 .. Len(s) : s[k] = "passed"
<1>1. ~Meets(BlockedCodes, errors) /\ ~Meets(FailCodes, errors)
  BY DEF functionalVerdict
<1>2. FirstNotPassed(s) \in Statuses
  BY FirstNotPassedDecides
<1>3. FirstNotPassed(s) = "passed" /\ ~Meets(InconclusiveCodes, errors) /\ n # 0
  BY <1>1, <1>2 DEF functionalVerdict, Statuses
<1> QED  BY <1>1, <1>3, FirstNotPassedDecides

\* aggregate answers with one of the seven statuses, and verified only from
\* good verdicts in every dimension.
LEMMA AggregateMeans ==
    ASSUME NEW w
    PROVE  /\ aggregate(w) \in Overall
           /\ aggregate(w) \in {"verified", "verified-with-warnings"} =>
                  /\ w.functional = "pass"
                  /\ w.capability \in {"conforming", "warning"}
                  /\ w.cleanup \in {"clean", "allowed-residue"}
                  /\ w.reproducibility \notin {"flaky", "not-reproducible"}
  BY DEF aggregate, Overall

\* A code of a verdict's class in any repeat is in the findings.
LEMMA CodesReachFindings ==
    ASSUME Accumulated, NEW i \in 1 .. Len(runs), NEW codes \in SUBSET VerdictCodes,
           Meets(codes, runs[i].errors)
    PROVE  Meets(codes, findings)
  BY NoErrorAssumption DEF Accumulated, Meets

(***************************************************************************)
(* The invariant is inductive.                                             *)
(***************************************************************************)
LEMMA InitInv == Init => Inv
<1> SUFFICES ASSUME Init PROVE Inv
  OBVIOUS
<1> USE DEF Init
<1>1. Types
  BY RequestsAssumption DEF Types, Stages, Cleanup
<1>2. Accumulated
  BY DEF Accumulated
<1>3. Counted
  BY DEF Counted
<1>4. Staged
  BY DEF Staged
<1>5. Concluded
  BY DEF Concluded, HasResult, NoResult
<1> QED  BY <1>1, <1>2, <1>3, <1>4, <1>5 DEF Inv

\* A stage before Build leaves no result behind.
LEMMA NoResultYet ==
    ASSUME Inv, pc \notin {"write", "done"}
    PROVE  ~HasResult
  BY DEF Inv, Concluded

\* What holds of the loop depends on nothing else.
LEMMA LoopUnchanged ==
    ASSUME Inv, UNCHANGED loop, findings \subseteq findings',
           runs # << >> => CleanupRank(cleanup) <= CleanupRank(cleanup'),
           cleanup \in Cleanup, cleanup' \in Cleanup
    PROVE  Accumulated' /\ Counted'
<1> USE DEF Inv, loop
<1>1. Counted'
  BY DEF Counted, assertionFingerprint
<1>2. Accumulated'
  <2> SUFFICES ASSUME NEW i \in 1 .. Len(runs)
               PROVE  /\ features \subseteq runs[i].complete
                      /\ runs[i].errors \subseteq findings' \cup {NoError}
                      /\ CleanupRank(runs[i].cleanup) <= CleanupRank(cleanup')
                      /\ (\A k \in 1 .. Len(assertions) : assertions[k] = "passed") =>
                            \A k \in 1 .. Len(runs[i].statuses) : runs[i].statuses[k] = "passed"
    BY DEF Accumulated
  <2>1. runs # << >> /\ runs[i].cleanup \in Cleanup
    BY OutcomesAssumption DEF Types
  <2>2. CleanupRank(runs[i].cleanup) <= CleanupRank(cleanup)
    BY DEF Accumulated
  <2>3. CleanupRank(runs[i].cleanup) <= CleanupRank(cleanup')
    BY <2>1, <2>2, KeepsTheWorse
  <2> QED  BY <2>3 DEF Accumulated
<1> QED  BY <1>1, <1>2

\* One more repeat: its assertions are appended, its fingerprint counted, its
\* coverage intersected, its codes added and its cleanup verdict kept if worse.
LEMMA RepeatKeepsInv == Inv /\ executeRepeat => Inv'
<1> SUFFICES ASSUME Inv, executeRepeat PROVE Inv'
  OBVIOUS
<1>1. PICK o \in Outcomes :
        /\ accumulate(o)
        /\ pc' = IF o.returned = NoError /\ completed + 1 < requested
                 THEN "execute" ELSE "removeWorkRoot"
  BY DEF executeRepeat
<1>2. /\ pc = "execute" /\ source = "planned"
      /\ UNCHANGED <<requested, source, workRoot, result>>
  BY DEF executeRepeat
<1>3. /\ o.statuses \in Seq(Statuses) /\ o.cleanup \in Cleanup
      /\ requested \in Nat /\ runs \in Seq(Outcomes) /\ Len(runs) \in Nat
      /\ assertions \in Seq(Statuses) /\ cleanup \in Cleanup
  BY OutcomesAssumption, RequestsAssumption DEF Inv, Types
<1>4. /\ runs' = Append(runs, o) /\ runs' \in Seq(Outcomes)
      /\ Len(runs') = Len(runs) + 1
      /\ \A i \in 1 .. Len(runs) : runs'[i] = runs[i]
      /\ runs'[Len(runs) + 1] = o
  BY <1>1, <1>3 DEF accumulate
<1>5. Types'
  <2>1. assertions' \in Seq(Statuses)
    BY <1>1, <1>3 DEF accumulate
  <2>2. matching' \in Nat
    BY <1>1 DEF accumulate, countOf, Inv, Types, Counted
  <2>3. cleanup' \in Cleanup
    BY <1>1, <1>3, KeepsTheWorse DEF accumulate
  <2>4. /\ pc' \in Stages /\ Len(runs') <= requested'
        /\ pc' \in {"probe", "execute"} => Len(runs') < requested'
    BY <1>1, <1>2, <1>3, <1>4 DEF Inv, Types, completed, Stages
  <2> QED  BY <1>2, <1>4, <2>1, <2>2, <2>3, <2>4 DEF Inv, Types
<1>6. Accumulated'
  <2> SUFFICES ASSUME NEW i \in 1 .. Len(runs')
               PROVE  /\ (\A k \in 1 .. Len(assertions') : assertions'[k] = "passed") =>
                            \A k \in 1 .. Len(runs'[i].statuses) : runs'[i].statuses[k] = "passed"
                      /\ features' \subseteq runs'[i].complete
                      /\ runs'[i].errors \subseteq findings' \cup {NoError}
                      /\ CleanupRank(runs'[i].cleanup) <= CleanupRank(cleanup')
    BY DEF Accumulated
  <2>1. /\ assertions' = assertions \o o.statuses
        /\ Len(assertions') = Len(assertions) + Len(o.statuses)
        /\ \A k \in 1 .. Len(assertions) : assertions'[k] = assertions[k]
        /\ \A k \in 1 .. Len(o.statuses) : assertions'[Len(assertions) + k] = o.statuses[k]
    BY <1>1, <1>3 DEF accumulate
  <2>2. Len(assertions) \in Nat /\ Len(o.statuses) \in Nat
    BY <1>3
  <2>3. /\ CleanupRank(cleanup) <= CleanupRank(cleanup')
        /\ CleanupRank(o.cleanup) <= CleanupRank(cleanup')
        /\ cleanup' \in Cleanup
    BY <1>1, <1>3, KeepsTheWorse DEF accumulate
  <2>4. CASE i = Len(runs) + 1
    <3>1. features' \subseteq o.complete
      BY <1>1 DEF accumulate, mergeRunnerFeatures
    <3>2. o.errors \subseteq findings' \cup {NoError}
      BY <1>1 DEF accumulate
    <3>3. ASSUME \A k \in 1 .. Len(assertions') : assertions'[k] = "passed"
          PROVE  \A k \in 1 .. Len(o.statuses) : o.statuses[k] = "passed"
      <4> SUFFICES ASSUME NEW k \in 1 .. Len(o.statuses) PROVE o.statuses[k] = "passed"
        OBVIOUS
      <4>1. Len(assertions) + k \in 1 .. Len(assertions')
        BY <2>1, <2>2
      <4>2. assertions'[Len(assertions) + k] = "passed"
        BY <4>1, <3>3
      <4> QED  BY <4>2, <2>1
    <3> QED  BY <2>4, <1>4, <2>3, <3>1, <3>2, <3>3
  <2>5. CASE i \in 1 .. Len(runs)
    <3>1. runs'[i] = runs[i] /\ runs # << >> /\ runs[i] \in Outcomes
      BY <2>5, <1>3, <1>4
    <3>2. features' \subseteq runs[i].complete
      BY <1>1, <2>5, <3>1 DEF accumulate, mergeRunnerFeatures, Inv, Accumulated
    <3>3. runs[i].errors \subseteq findings' \cup {NoError}
      BY <1>1, <2>5 DEF accumulate, Inv, Accumulated
    <3>4. CleanupRank(runs[i].cleanup) <= CleanupRank(cleanup')
      <4>1. CleanupRank(runs[i].cleanup) <= CleanupRank(cleanup)
        BY <2>5 DEF Inv, Accumulated
      <4>2. runs[i].cleanup \in Cleanup
        BY <3>1, OutcomesAssumption
      <4> QED  BY <4>1, <4>2, <2>3, <1>3, RankIsNumber
    <3>5. ASSUME \A k \in 1 .. Len(assertions') : assertions'[k] = "passed"
          PROVE  \A k \in 1 .. Len(runs[i].statuses) : runs[i].statuses[k] = "passed"
      <4>1. \A k \in 1 .. Len(assertions) : assertions[k] = "passed"
        BY <2>1, <2>2, <3>5
      <4> QED  BY <4>1, <2>5 DEF Inv, Accumulated
    <3> QED  BY <3>1, <3>2, <3>3, <3>4, <3>5
  <2> QED  BY <2>4, <2>5, <1>3, <1>4
<1>7. Counted'
  <2> DEFINE digest == assertionFingerprint(o)
             before == countOf(digest)
  <2>1. /\ before \in Nat /\ before <= Len(runs)
        /\ before = Len(runs) => \A i \in 1 .. Len(runs) : assertionFingerprint(runs[i]) = digest
    BY <1>3 DEF countOf, Inv, Counted
  <2>2. before = Len(runs) => \A i \in 1 .. Len(runs') : assertionFingerprint(runs'[i]) = digest
    BY <1>3, <1>4, <2>1
  <2>3. /\ DOMAIN fingerprintCounts' = DOMAIN fingerprintCounts \cup {digest}
        /\ fingerprintCounts'[digest] = before + 1
        /\ \A d \in DOMAIN fingerprintCounts : d # digest => fingerprintCounts'[d] = fingerprintCounts[d]
        /\ matching' = IF before + 1 > matching THEN before + 1 ELSE matching
    BY <1>1 DEF accumulate
  <2> HIDE DEF digest, before
  <2>4. ASSUME NEW d \in DOMAIN fingerprintCounts'
        PROVE  /\ fingerprintCounts'[d] \in Nat
               /\ fingerprintCounts'[d] <= Len(runs')
               /\ fingerprintCounts'[d] = Len(runs') =>
                      \A i \in 1 .. Len(runs') : assertionFingerprint(runs'[i]) = d
    <3>1. CASE d = digest
      BY <3>1, <2>1, <2>2, <2>3, <1>3, <1>4
    <3>2. CASE d # digest
      BY <3>2, <2>3, <1>3, <1>4 DEF Inv, Counted
    <3> QED  BY <3>1, <3>2
  <2>5. matching \in Nat /\ matching <= Len(runs)
    BY DEF Inv, Types, Counted
  <2>6. matching' <= Len(runs')
    BY <2>1, <2>3, <2>5, <1>3, <1>4
  <2>7. ASSUME matching' = Len(runs')
        PROVE  \A i, j \in 1 .. Len(runs') :
                 assertionFingerprint(runs'[i]) = assertionFingerprint(runs'[j])
    <3>1. before = Len(runs)
      BY <2>1, <2>3, <2>5, <2>7, <1>3, <1>4
    <3> QED  BY <3>1, <2>2
  <2>8. /\ \A d \in DOMAIN fingerprintCounts' :
               /\ fingerprintCounts'[d] \in Nat
               /\ fingerprintCounts'[d] <= Len(runs')
               /\ fingerprintCounts'[d] = Len(runs') =>
                      \A i \in 1 .. Len(runs') : assertionFingerprint(runs'[i]) = d
        /\ (matching' = Len(runs') /\ runs' # << >>) =>
               \A i, j \in 1 .. Len(runs') :
                   assertionFingerprint(runs'[i]) = assertionFingerprint(runs'[j])
    BY <2>4, <2>7
  <2> QED  BY <2>6, <2>8 DEF Counted, assertionFingerprint
<1>8. Staged' /\ Concluded'
  BY <1>1, <1>2, NoResultYet DEF Inv, Staged, Concluded, HasResult
<1> QED  BY <1>5, <1>6, <1>7, <1>8 DEF Inv

LEMMA ProbeKeepsInv == Inv /\ probe => Inv'
<1> SUFFICES ASSUME Inv, probe PROVE Inv'
  OBVIOUS
<1>1. Types'
  BY DEF probe, loop, Inv, Types, Stages
<1>2. Accumulated' /\ Counted'
  BY LoopUnchanged, RankIsNumber DEF probe, Inv, Types
<1>3. Staged' /\ Concluded'
  BY NoResultYet DEF probe, Inv, Staged, Concluded, HasResult
<1> QED  BY <1>1, <1>2, <1>3 DEF Inv

LEMMA PrepareFailureKeepsInv == Inv /\ prepareFailure => Inv'
<1> SUFFICES ASSUME Inv, prepareFailure PROVE Inv'
  OBVIOUS
<1>1. /\ cleanup' \in Cleanup /\ cleanup \in Cleanup
      /\ CleanupRank(cleanup) <= CleanupRank(cleanup')
  <2>1. cleanup \in Cleanup /\ "not-tested" \in Cleanup
    BY DEF Inv, Types, Cleanup
  <2> QED  BY <2>1, KeepsTheWorse DEF prepareFailure
<1>2. Types'
  BY <1>1 DEF prepareFailure, loop, Inv, Types, Stages
<1>3. Accumulated' /\ Counted'
  BY <1>1, LoopUnchanged DEF prepareFailure
<1>4. Staged' /\ Concluded'
  BY NoResultYet DEF prepareFailure, Inv, Staged, Concluded, HasResult
<1> QED  BY <1>2, <1>3, <1>4 DEF Inv

LEMMA RemoveWorkRootKeepsInv == Inv /\ removeWorkRoot => Inv'
<1> SUFFICES ASSUME Inv, removeWorkRoot PROVE Inv'
  OBVIOUS
<1>1. /\ cleanup' \in Cleanup /\ cleanup \in Cleanup
      /\ CleanupRank(cleanup) <= CleanupRank(cleanup')
  <2>1. cleanup \in Cleanup /\ "not-tested" \in Cleanup
    BY DEF Inv, Types, Cleanup
  <2> QED  BY <2>1, KeepsTheWorse, RankIsNumber DEF removeWorkRoot
<1>2. Types'
  BY <1>1 DEF removeWorkRoot, loop, Inv, Types, Stages
<1>3. Accumulated' /\ Counted'
  BY <1>1, LoopUnchanged DEF removeWorkRoot
<1>4. Staged' /\ Concluded'
  BY NoResultYet DEF removeWorkRoot, Inv, Staged, Concluded, HasResult
<1> QED  BY <1>2, <1>3, <1>4 DEF Inv

LEMMA ResnapshotKeepsInv == Inv /\ resnapshot => Inv'
<1> SUFFICES ASSUME Inv, resnapshot PROVE Inv'
  OBVIOUS
<1>1. /\ cleanup' \in Cleanup /\ cleanup \in Cleanup
      /\ runs # << >> => CleanupRank(cleanup) <= CleanupRank(cleanup')
  <2>1. cleanup \in Cleanup /\ "not-tested" \in Cleanup /\ runs \in Seq(Outcomes)
    BY DEF Inv, Types, Cleanup
  <2>2. runs # << >> => completed # 0
    BY <2>1 DEF completed
  <2> QED  BY <2>1, <2>2, RankIsNumber DEF resnapshot
<1>2. Types'
  BY <1>1 DEF resnapshot, loop, Inv, Types, Stages
<1>3. Accumulated' /\ Counted'
  BY <1>1, LoopUnchanged DEF resnapshot
<1>4. Staged'
  BY DEF resnapshot, Inv, Staged, Types, Meets
<1>5. Concluded'
  BY NoResultYet DEF resnapshot, Inv, Concluded, HasResult
<1> QED  BY <1>2, <1>3, <1>4, <1>5 DEF Inv

\* Build concludes from the state as it is, and only if the caller's cleanup
\* verdict is the one that follows from the observations and the findings.
LEMMA BuildKeepsInv == Inv /\ Build => Inv'
<1> SUFFICES ASSUME Inv, Build PROVE Inv'
  OBVIOUS
<1>1. Types'
  BY DEF Build, loop, Inv, Types, Stages
<1>2. Accumulated' /\ Counted'
  BY LoopUnchanged, RankIsNumber DEF Build, Inv, Types
<1>3. Staged'
  BY NoResultYet DEF Build, Inv, Staged, Concluded, HasResult
<1>4. verdicts' = verdicts
  BY DEF Build, verdicts, loop, completed, coverage
<1>5. Concluded'
  <2>1. CASE /\ result' = [status |-> "built", verdicts |-> verdicts, overall |-> aggregate(verdicts)]
             /\ pc' = "write" /\ callerAgrees
    <3>1. cleanup \in {"clean", "allowed-residue"} =>
            runs # << >> /\ ~Meets(ResidueCodes \cup TechnicalCodes, findings)
      BY <2>1 DEF callerAgrees, cleanupVerdict, completed, Meets
    <3>2. cleanup' = cleanup /\ runs' = runs /\ findings' = findings
      BY DEF Build, loop
    <3>3. aggregate(verdicts') = aggregate(verdicts)
      BY <1>4
    <3> QED  BY <2>1, <3>1, <3>2, <3>3, <1>4 DEF Concluded, HasResult
  <2>2. CASE result' = [status |-> "rejected"] /\ pc' = "done"
    BY <2>2 DEF Concluded, HasResult
  <2> QED  BY <2>1, <2>2 DEF Build, accepted
<1> QED  BY <1>1, <1>2, <1>3, <1>5 DEF Inv

LEMMA StoreWriteKeepsInv == Inv /\ storeWrite => Inv'
<1> SUFFICES ASSUME Inv, storeWrite PROVE Inv'
  OBVIOUS
<1>1. PICK status \in {"written", "unwritten"} : result' = [result EXCEPT !.status = status]
  BY DEF storeWrite
<1>2. /\ DOMAIN result' = DOMAIN result
      /\ result'.status = status
      /\ "overall" \in DOMAIN result => result'.overall = result.overall
      /\ result'.verdicts = result.verdicts
  BY <1>1 DEF Inv, Concluded
<1>3. Types'
  BY DEF storeWrite, loop, Inv, Types, Stages
<1>4. Accumulated' /\ Counted'
  BY LoopUnchanged, RankIsNumber DEF storeWrite, Inv, Types
<1>5. Staged'
  BY DEF storeWrite, Inv, Staged, Concluded
<1>6. verdicts' = verdicts
  BY DEF storeWrite, verdicts, loop, completed, coverage
<1>7. Concluded'
  <2>1. aggregate(verdicts') = aggregate(verdicts)
    BY <1>6
  <2> QED  BY <1>1, <1>2, <1>6, <2>1 DEF storeWrite, loop, Inv, Concluded, HasResult
<1> QED  BY <1>3, <1>4, <1>5, <1>7 DEF Inv

LEMMA SourceChangesKeepsInv == Inv /\ SourceChanges => Inv'
<1> SUFFICES ASSUME Inv, SourceChanges PROVE Inv'
  OBVIOUS
<1>1. Types'
  BY DEF SourceChanges, loop, Inv, Types, Stages
<1>2. Accumulated' /\ Counted'
  BY LoopUnchanged, RankIsNumber DEF SourceChanges, Inv, Types
<1>3. Staged' /\ Concluded'
  BY NoResultYet DEF SourceChanges, Inv, Staged, Concluded, HasResult
<1> QED  BY <1>1, <1>2, <1>3 DEF Inv

LEMMA StutterKeepsInv == Inv /\ UNCHANGED vars => Inv'
<1> SUFFICES ASSUME Inv, UNCHANGED vars PROVE Inv'
  OBVIOUS
<1> USE DEF vars
<1>1. Types'
  BY DEF loop, Inv, Types
<1>2. Accumulated' /\ Counted'
  BY LoopUnchanged, RankIsNumber DEF Inv, Types
<1>3. Staged'
  BY DEF Inv, Staged
<1>4. verdicts' = verdicts
  BY DEF verdicts, loop, completed, coverage
<1>5. Concluded'
  <2>1. aggregate(verdicts') = aggregate(verdicts)
    BY <1>4
  <2> QED  BY <1>4, <2>1 DEF loop, Inv, Concluded, HasResult
<1> QED  BY <1>1, <1>2, <1>3, <1>5 DEF Inv

\* The invariant holds of every behaviour of runVerify.
THEOREM VerifyInvariant == Spec => []Inv
<1>1. Init => Inv
  BY InitInv
<1>2. Inv /\ [Next]_vars => Inv'
  BY ProbeKeepsInv, PrepareFailureKeepsInv, RepeatKeepsInv, RemoveWorkRootKeepsInv,
     ResnapshotKeepsInv, BuildKeepsInv, StoreWriteKeepsInv, SourceChangesKeepsInv, StutterKeepsInv
     DEF Next, Finished
<1> QED  BY <1>1, <1>2, PTL DEF Spec

(***************************************************************************)
(* The properties.                                                         *)
(***************************************************************************)
\* However often repopass verify repeats a plan, it repeats it no more often
\* than asked, and Build answers with one of the seven statuses.
THEOREM VerifyTypes == Spec => []TypeOK
<1>1. Inv => TypeOK
  BY AggregateMeans DEF Inv, Types, Concluded, TypeOK, Stages, completed
<1> QED  BY <1>1, VerifyInvariant, PTL

\* A verified result is earned by every repeat: runVerify never reports
\* verified, with or without warnings, of a plan some repeat of which was
\* missing, failed an assertion, left residue, lacked coverage or reported a
\* failing code, nor of a source found changed or with its work directory
\* still there.
THEOREM VerifiedEarned == Spec => []VerifiedIsEarned
<1>1. Inv => VerifiedIsEarned
  <2> SUFFICES ASSUME Inv, HasResult, result.overall \in {"verified", "verified-with-warnings"}
               PROVE  /\ completed = requested
                      /\ \A i \in DOMAIN runs :
                           LET o == runs[i]
                           IN  /\ \A k \in DOMAIN o.statuses : o.statuses[k] = "passed"
                               /\ o.cleanup \in {"clean", "allowed-residue"}
                               /\ Required \subseteq o.complete
                               /\ ~Meets(VerdictCodes, o.errors)
                      /\ source = "planned" \/ Meets(RefetchCodes, findings)
                      /\ workRoot = "absent"
    BY DEF VerifiedIsEarned
  <2>1. /\ runs \in Seq(Outcomes) /\ assertions \in Seq(Statuses) /\ cleanup \in Cleanup
        /\ requested \in 1 .. 10 /\ Len(runs) <= requested /\ Len(runs) \in Nat
    BY RequestsAssumption DEF Inv, Types
  <2>2. aggregate(verdicts) \in {"verified", "verified-with-warnings"}
    BY DEF Inv, Concluded
  <2>3. /\ verdicts.functional = "pass"
        /\ verdicts.capability \in {"conforming", "warning"}
        /\ verdicts.cleanup \in {"clean", "allowed-residue"}
        /\ verdicts.reproducibility \notin {"flaky", "not-reproducible"}
    BY <2>2, AggregateMeans
  <2>4. functionalVerdict(findings, assertions, completed) = "pass"
    BY <2>3 DEF verdicts
  <2>5. /\ ~Meets(BlockedCodes, findings) /\ ~Meets(FailCodes, findings)
        /\ ~Meets(InconclusiveCodes, findings) /\ Len(runs) # 0
        /\ \A k \in 1 .. Len(assertions) : assertions[k] = "passed"
    BY <2>1, <2>4, PassMeans DEF completed
  <2>6. ~Meets(NonconformingCodes, findings) /\ coverage = Required
    BY <2>3 DEF verdicts, capabilityVerdict
  <2>7. /\ cleanup \in {"clean", "allowed-residue"}
        /\ ~Meets(ResidueCodes \cup TechnicalCodes, findings)
    BY <2>3 DEF verdicts, Inv, Concluded
  <2>8. Len(runs) = requested
    BY <2>1, <2>3, <2>5 DEF verdicts, reproducibilityVerdict, completed
  <2>9. ASSUME NEW i \in 1 .. Len(runs)
        PROVE  /\ \A k \in 1 .. Len(runs[i].statuses) : runs[i].statuses[k] = "passed"
               /\ runs[i].cleanup \in {"clean", "allowed-residue"}
               /\ Required \subseteq runs[i].complete
               /\ ~Meets(VerdictCodes, runs[i].errors)
    <3>1. \A k \in 1 .. Len(runs[i].statuses) : runs[i].statuses[k] = "passed"
      BY <2>5 DEF Inv, Accumulated
    <3>2. runs[i] \in Outcomes /\ runs # << >>
      BY <2>1
    <3>3. runs[i].cleanup \in Cleanup /\ CleanupRank(runs[i].cleanup) <= CleanupRank(cleanup)
      BY <3>2, OutcomesAssumption DEF Inv, Accumulated
    <3>4. runs[i].cleanup \in {"clean", "allowed-residue"}
      BY <3>3, <2>7 DEF CleanupRank, Cleanup
    <3>5. Required \subseteq runs[i].complete
      BY <3>2, <2>6 DEF coverage, Inv, Accumulated
    <3>6. ~Meets(VerdictCodes, findings)
      BY <2>5, <2>6, <2>7 DEF Meets, VerdictCodes
    <3>7. ~Meets(VerdictCodes, runs[i].errors)
      BY <3>6, CodesReachFindings DEF Inv
    <3> QED  BY <3>1, <3>4, <3>5, <3>7
  <2>10. DOMAIN runs = 1 .. Len(runs) /\ \A i \in 1 .. Len(runs) : DOMAIN runs[i].statuses = 1 .. Len(runs[i].statuses)
    BY <2>1, OutcomesAssumption
  <2>11. source = "planned" \/ Meets(RefetchCodes, findings)
    BY <2>5 DEF Inv, Staged, Concluded, Meets, InconclusiveCodes
  <2>12. workRoot = "absent"
    BY <2>7 DEF Inv, Staged, Concluded, Meets, TechnicalCodes
  <2> QED  BY <2>8, <2>9, <2>10, <2>11, <2>12 DEF completed
<1> QED  BY <1>1, VerifyInvariant, PTL

\* Stable is never said of repeats that differ or that did not all run: the
\* count runVerify keeps per fingerprint reaches the number of repeats only if
\* every one of them has that fingerprint.
THEOREM StableEarned == Spec => []StableIsEarned
<1>1. Inv => StableIsEarned
  <2> SUFFICES ASSUME Inv, HasResult, result.verdicts.reproducibility = "stable"
               PROVE  /\ completed = requested /\ requested > 1
                      /\ \A i, j \in DOMAIN runs :
                            assertionFingerprint(runs[i]) = assertionFingerprint(runs[j])
    BY DEF StableIsEarned
  <2>1. reproducibilityVerdict(requested, completed, matching, requested) = "stable"
    BY DEF Inv, Concluded, verdicts
  <2>2. /\ requested \in 1 .. 10 /\ runs \in Seq(Outcomes) /\ matching \in Nat
    BY RequestsAssumption DEF Inv, Types
  <2>3. Len(runs) = requested /\ requested > 1 /\ matching = requested
    BY <2>1, <2>2 DEF reproducibilityVerdict, completed
  <2>4. runs # << >> /\ DOMAIN runs = 1 .. Len(runs)
    BY <2>2, <2>3
  <2> QED  BY <2>3, <2>4 DEF Inv, Counted, completed
<1> QED  BY <1>1, VerifyInvariant, PTL

\* A repeat that left undeclared residue, could not be inspected or broke the
\* declared capabilities shows in the result, whatever the other repeats did.
THEOREM BadRepeatIsShown == Spec => []BadRepeatShows
<1>1. Inv => BadRepeatShows
  <2> SUFFICES ASSUME Inv, HasResult, NEW i \in DOMAIN runs
               PROVE  /\ runs[i].cleanup = "undeclared-residue" =>
                           result.verdicts.cleanup = "undeclared-residue"
                      /\ Meets(NonconformingCodes, runs[i].errors) =>
                           result.verdicts.capability = "nonconforming"
                      /\ runs[i].cleanup = "not-tested" =>
                           result.verdicts.cleanup \in {"not-tested", "undeclared-residue"}
    BY DEF BadRepeatShows
  <2>1. /\ i \in 1 .. Len(runs) /\ runs[i] \in Outcomes /\ cleanup \in Cleanup
    BY DEF Inv, Types
  <2>2. /\ result.verdicts.cleanup = cleanup
        /\ result.verdicts.capability = capabilityVerdict(findings, coverage = Required)
    BY DEF Inv, Concluded, verdicts
  <2>3. runs[i].cleanup \in Cleanup /\ CleanupRank(runs[i].cleanup) <= CleanupRank(cleanup)
    BY <2>1, OutcomesAssumption DEF Inv, Accumulated
  <2>4. /\ runs[i].cleanup = "undeclared-residue" => cleanup = "undeclared-residue"
        /\ runs[i].cleanup = "not-tested" => cleanup \in {"not-tested", "undeclared-residue"}
    BY <2>1, <2>3 DEF CleanupRank, Cleanup
  <2>5. Meets(NonconformingCodes, runs[i].errors) => Meets(NonconformingCodes, findings)
    BY <2>1, CodesReachFindings DEF Inv, VerdictCodes
  <2> QED  BY <2>2, <2>4, <2>5 DEF capabilityVerdict
<1> QED  BY <1>1, VerifyInvariant, PTL

(***************************************************************************)
(* The table of overall statuses.                                          *)
(***************************************************************************)
\* The nested conditions of verification.aggregate are the first-match table
\* of spec/status-error-model.md, for every record of verdicts.
THEOREM TableIsFollowed == VerdictInit => AggregateFollowsTable
<1> SUFFICES ASSUME v \in Verdicts PROVE AggregateFollowsTable
  BY DEF VerdictInit
<1> DEFINE A(i) == Rows[i][1]
           B(i) == Rows[i][2]
<1>1. DOMAIN Rows = 1 .. 11
  BY DEF Rows
<1>2. /\ A(1) <=> v.evidence \in {"tampered", "untrusted-signer"}
      /\ A(2) <=> v.freshness # "current"
      /\ A(3) <=> v.functional = "blocked"
      /\ A(4) <=> v.functional = "inconclusive"
      /\ A(5) <=> v.functional = "fail"
  BY DEF Rows
<1>3. /\ A(6) <=> v.capability = "nonconforming" \/ v.cleanup = "undeclared-residue"
      /\ A(7) <=> \/ v.capability = "incomplete" \/ v.cleanup = "not-tested"
                  \/ v.reproducibility \in {"flaky", "not-reproducible"}
  BY DEF Rows
<1>4. /\ A(8) <=> v.functional = "pass" /\ v.capability = "warning" /\ Kept
      /\ A(9) <=> v.functional = "pass" /\ v.capability = "conforming" /\ v.cleanup = "allowed-residue"
      /\ A(10) <=> /\ v.functional = "pass" /\ v.capability = "conforming" /\ v.cleanup = "clean"
                    /\ (v.reproducibility = "not-tested" \/ v.evidence \in {"none", "unsigned", "self-signed"})
      /\ A(11) <=> v.functional = "pass" /\ v.capability = "conforming" /\ v.cleanup = "clean"
  BY DEF Rows
<1>5. /\ B(1) = "nonconforming" /\ B(2) = "stale" /\ B(3) = "blocked" /\ B(4) = "inconclusive"
      /\ B(5) = "failed" /\ B(6) = "nonconforming" /\ B(7) = "inconclusive"
      /\ \A i \in 8 .. 10 : B(i) = "verified-with-warnings"
      /\ B(11) = "verified"
  BY DEF Rows
<1> DEFINE Picks(i) == A(i) /\ (\A j \in 1 .. (i - 1) : ~A(j)) /\ aggregate(v) = B(i)
<1>6. SUFFICES \E i \in 1 .. 11 : Picks(i)
  BY <1>1 DEF AggregateFollowsTable
<1>7. /\ v.functional \in {"pass", "fail", "blocked", "inconclusive"}
      /\ v.capability \in {"conforming", "warning", "nonconforming", "incomplete"}
      /\ v.cleanup \in Cleanup
  BY DEF Verdicts
<1> HIDE DEF A, B
<1>11. CASE A(1)
  <2>1. aggregate(v) = B(1)
    BY <1>11, <1>2, <1>3, <1>4, <1>5, <1>7 DEF aggregate, Kept
  <2> QED  BY <2>1, <1>11 DEF Picks
<1>12. CASE A(2) /\ ~A(1)
  <2>1. aggregate(v) = B(2)
    BY <1>12, <1>2, <1>3, <1>4, <1>5, <1>7 DEF aggregate, Kept
  <2> QED  BY <2>1, <1>12 DEF Picks
<1>13. CASE A(3) /\ ~A(1) /\ ~A(2)
  <2>1. aggregate(v) = B(3)
    BY <1>13, <1>2, <1>3, <1>4, <1>5, <1>7 DEF aggregate, Kept
  <2> QED  BY <2>1, <1>13 DEF Picks
<1>14. CASE A(4) /\ ~A(1) /\ ~A(2) /\ ~A(3)
  <2>1. aggregate(v) = B(4)
    BY <1>14, <1>2, <1>3, <1>4, <1>5, <1>7 DEF aggregate, Kept
  <2> QED  BY <2>1, <1>14 DEF Picks
<1>15. CASE A(5) /\ ~A(1) /\ ~A(2) /\ ~A(3) /\ ~A(4)
  <2>1. aggregate(v) = B(5)
    BY <1>15, <1>2, <1>3, <1>4, <1>5, <1>7 DEF aggregate, Kept
  <2> QED  BY <2>1, <1>15 DEF Picks
<1>16. CASE A(6) /\ ~A(1) /\ ~A(2) /\ ~A(3) /\ ~A(4) /\ ~A(5)
  <2>1. aggregate(v) = B(6)
    BY <1>16, <1>2, <1>3, <1>4, <1>5, <1>7 DEF aggregate, Kept
  <2> QED  BY <2>1, <1>16 DEF Picks
<1>17. CASE A(7) /\ ~A(1) /\ ~A(2) /\ ~A(3) /\ ~A(4) /\ ~A(5) /\ ~A(6)
  <2>1. aggregate(v) = B(7)
    BY <1>17, <1>2, <1>3, <1>4, <1>5, <1>7 DEF aggregate, Kept
  <2> QED  BY <2>1, <1>17 DEF Picks
<1>18. CASE A(8) /\ ~A(1) /\ ~A(2) /\ ~A(3) /\ ~A(4) /\ ~A(5) /\ ~A(6) /\ ~A(7)
  <2>1. aggregate(v) = B(8)
    BY <1>18, <1>2, <1>3, <1>4, <1>5, <1>7 DEF aggregate, Kept
  <2> QED  BY <2>1, <1>18 DEF Picks
<1>19. CASE A(9) /\ ~A(1) /\ ~A(2) /\ ~A(3) /\ ~A(4) /\ ~A(5) /\ ~A(6) /\ ~A(7) /\ ~A(8)
  <2>1. aggregate(v) = B(9)
    BY <1>19, <1>2, <1>3, <1>4, <1>5, <1>7 DEF aggregate, Kept
  <2> QED  BY <2>1, <1>19 DEF Picks
<1>20. CASE A(10) /\ ~A(1) /\ ~A(2) /\ ~A(3) /\ ~A(4) /\ ~A(5) /\ ~A(6) /\ ~A(7) /\ ~A(8) /\ ~A(9)
  <2>1. aggregate(v) = B(10)
    BY <1>20, <1>2, <1>3, <1>4, <1>5, <1>7 DEF aggregate, Kept
  <2> QED  BY <2>1, <1>20 DEF Picks
<1>21. CASE A(11) /\ ~A(1) /\ ~A(2) /\ ~A(3) /\ ~A(4) /\ ~A(5) /\ ~A(6) /\ ~A(7) /\ ~A(8) /\ ~A(9) /\ ~A(10)
  <2>1. aggregate(v) = B(11)
    BY <1>21, <1>2, <1>3, <1>4, <1>5, <1>7 DEF aggregate, Kept
  <2> QED  BY <2>1, <1>21 DEF Picks
<1> QED
  <2>1. A(1) \/ A(2) \/ A(3) \/ A(4) \/ A(5) \/ A(6) \/ A(7) \/ A(8) \/ A(9) \/ A(10) \/ A(11)
    BY <1>2, <1>3, <1>4, <1>7 DEF Cleanup, Kept
  <2> QED  BY <2>1, <1>11, <1>12, <1>13, <1>14, <1>15, <1>16, <1>17, <1>18, <1>19, <1>20, <1>21

=============================================================================

--------------------------- MODULE RetainedState ---------------------------
(***************************************************************************)
(* What the runner learns of a workload by comparing two pictures of the   *)
(* sandbox, taken before the first command and after the last: the files   *)
(* under /outputs (filesystem_observer.go), the engine's diff of the       *)
(* container (engine_diff_observer.go) and the cgroup's counters           *)
(* (resource_observer.go).                                                 *)
(*                                                                         *)
(* A path under /outputs is a sequence of names; a declared write pattern  *)
(* is [kind, base], kind "exact" for a plain path, "child" for base/* and  *)
(* "tree" for base/**.                                                     *)
(***************************************************************************)
EXTENDS Naturals, Sequences, FiniteSets

LOCAL INSTANCE TLC

CONSTANTS
  Paths,            \* paths a workload may touch
  DeclaredWrites,   \* [phase -> set of declared write patterns]
  PatternLimit,     \* filesystemDeclarationPatternLimit
  ChangeLimit,      \* filesystemChangeLimit
  EntryLimit        \* filesystemEntryLimit

ASSUME RetainedAssumption ==
  /\ PatternLimit \in Nat /\ ChangeLimit \in Nat /\ EntryLimit \in Nat

\* A pattern the validator refuses (a backslash, a control character, a path
\* outside /outputs, one that is not clean).
InvalidPattern == [kind |-> "invalid", base |-> <<>>]

\* validFilesystemDeclarationPattern
validFilesystemDeclarationPattern(pattern) ==
  pattern.kind \in {"exact", "child", "tree"}

Under(base, path) ==
  Len(base) <= Len(path) /\ SubSeq(path, 1, Len(base)) = base

\* filesystemDeclarationPatternMatches, and matches of the Python helper.
PatternMatches(pattern, path) ==
  CASE pattern.kind = "exact" -> path = pattern.base
    [] pattern.kind = "child" ->
         Under(pattern.base, path) /\ Len(path) = Len(pattern.base) + 1
    [] pattern.kind = "tree"  -> Under(pattern.base, path)
    [] OTHER -> FALSE

-----------------------------------------------------------------------------
(* The retained files.  A snapshot maps the paths that exist to what can be *)
(* seen of them: type, mode, size and digest as one value.                  *)

NoSnapshot == [p \in {} |-> "none"]

InitialFilesystemState ==
  [baseline |-> NoSnapshot, baselineReady |-> FALSE, baselineIdentityVerified |-> FALSE,
   final |-> NoSnapshot, finalReady |-> FALSE, finalIdentityVerified |-> FALSE,
   workloadQuiescenceVerified |-> FALSE, failure |-> "", patterns |-> {},
   ambiguous |-> FALSE]

\* The helper's walk (nodeFilesystemSnapshotScript and its Python twin) and
\* the control it writes: nothing runs beside it that could change the tree,
\* and a tree over its limit is refused.
snapshotControl(fs) ==
  IF Cardinality(DOMAIN fs) > EntryLimit THEN [ok |-> FALSE, error |-> "snapshot-unavailable"]
  ELSE [ok |-> TRUE, entries |-> fs]

\* decodeFilesystemEntry with validFilesystemSnapshotEntry
decodeFilesystemEntry(entry) == entry.type \in {"dir", "file", "symlink", "other"}

\* decodeFilesystemEntries
decodeFilesystemEntries(entries) ==
  /\ Cardinality(DOMAIN entries) <= EntryLimit
  /\ \A p \in DOMAIN entries : decodeFilesystemEntry(entries[p])

\* decodeFilesystemControl
decodeFilesystemControl(reply) ==
  IF reply.ok /\ decodeFilesystemEntries(reply.entries) THEN reply ELSE [ok |-> FALSE]

\* collectFilesystemSnapshot: the helper must also end cleanly.
collectFilesystemSnapshot(fs, clean) ==
  IF clean THEN decodeFilesystemControl(snapshotControl(fs)) ELSE [ok |-> FALSE]

\* diffFilesystemSnapshots
ChangeKind(before, after, p) ==
  IF p \notin DOMAIN before THEN "create"
  ELSE IF p \notin DOMAIN after THEN "delete"
  ELSE IF before[p].type # after[p].type THEN "type-change" ELSE "modify"

diffFilesystemSnapshots(before, after) ==
  {[path |-> p, kind |-> ChangeKind(before, after, p)] :
     p \in {q \in DOMAIN before \cup DOMAIN after :
              ~(/\ q \in DOMAIN before /\ q \in DOMAIN after
                /\ before[q] = after[q])}}

\* markFilesystemDeclarationAmbiguous
Ambiguous(fs) == [fs EXCEPT !.ambiguous = TRUE, !.patterns = {}]

\* Mutant: a phase takes back what the ones before it were granted.
recordFilesystemPhaseDispatch_last(fs, phase) ==
  IF fs.ambiguous \/ phase \notin DOMAIN DeclaredWrites THEN fs
  ELSE [fs EXCEPT !.patterns = DeclaredWrites[phase]]

\* recordFilesystemPhaseDispatch: what a phase may write is granted once it
\* was dispatched; an invalid or an excessive grant ends the comparison.
recordFilesystemPhaseDispatch(fs, phase) ==
  IF fs.ambiguous \/ phase \notin DOMAIN DeclaredWrites THEN fs
  ELSE IF \E p \in DeclaredWrites[phase] : ~validFilesystemDeclarationPattern(p) THEN Ambiguous(fs)
  ELSE IF Cardinality(fs.patterns \cup DeclaredWrites[phase]) > PatternLimit THEN Ambiguous(fs)
  ELSE [fs EXCEPT !.patterns = @ \cup DeclaredWrites[phase]]

\* The part of compareFilesystemRetainedState that decides whether the
\* comparison can be made.
RetainedPrerequisites(fs) ==
  /\ fs.failure = ""
  /\ fs.baselineReady /\ fs.finalReady
  /\ fs.baselineIdentityVerified /\ fs.finalIdentityVerified
  /\ fs.workloadQuiescenceVerified

UndeclaredChanges(fs) ==
  {c \in diffFilesystemSnapshots(fs.baseline, fs.final) :
     \A p \in fs.patterns : ~PatternMatches(p, c.path)}

\* validateFilesystemChangeBound
validateFilesystemChangeBound(before, after) ==
  Cardinality(diffFilesystemSnapshots(before, after)) <= ChangeLimit

\* compareFilesystemRetainedState
compareFilesystemRetainedState(fs) ==
  IF fs.ambiguous \/ ~RetainedPrerequisites(fs)
     \/ ~validateFilesystemChangeBound(fs.baseline, fs.final)
  THEN [result |-> "not-tested"]
  ELSE LET compared == Cardinality(diffFilesystemSnapshots(fs.baseline, fs.final))
           undeclared == Cardinality(UndeclaredChanges(fs))
       IN  [result |-> IF undeclared > 0 THEN "nonconforming-retained-state"
                       ELSE "conforming-retained-state",
            declaredPatternCount |-> Cardinality(fs.patterns), comparedChangeCount |-> compared,
            allowedChangeCount |-> compared - undeclared, undeclaredChangeCount |-> undeclared]

\* filesystemDeclarationFinding
filesystemDeclarationFinding(comparison) == comparison.result = "nonconforming-retained-state"

\* summarizeFilesystemRetainedState: the event, with the details a reader of
\* it tells apart.
summarizeFilesystemRetainedState(fs) ==
  LET comparison == compareFilesystemRetainedState(fs)
      observed == RetainedPrerequisites(fs)
  IN  [operation |-> "filesystem.retained-state.summary",
       coverage |-> IF observed THEN "high" ELSE "unavailable",
       result |-> IF observed THEN "observed" ELSE "unavailable",
       confidence |-> IF observed THEN "high" ELSE "unknown",
       details |-> [declarationComparisonResult |-> comparison.result]
         @@ (IF observed THEN [changeCount |-> Cardinality(diffFilesystemSnapshots(fs.baseline, fs.final))]
             ELSE <<>>)
         @@ (IF comparison.result = "not-tested" THEN <<>>
             ELSE [declaredPatternCount |-> comparison.declaredPatternCount,
                   comparedChangeCount |-> comparison.comparedChangeCount,
                   allowedChangeCount |-> comparison.allowedChangeCount,
                   undeclaredChangeCount |-> comparison.undeclaredChangeCount])
         @@ (IF fs.failure # "" THEN [failure |-> fs.failure] ELSE <<>>)]

-----------------------------------------------------------------------------
(* The engine's own diff, kept as one opaque commitment.                    *)

InitialEngineDiffState ==
  [final |-> 0, finalReady |-> FALSE, finalIdentityVerified |-> FALSE,
   workloadQuiescenceVerified |-> FALSE]

\* collectDockerEngineDiff: a transcript of some bytes, which nobody reads.
collectDockerEngineDiff == 1

\* summarizeDockerEngineDiff
summarizeDockerEngineDiff(ed) ==
  LET observed == ed.finalReady /\ ed.finalIdentityVerified /\ ed.workloadQuiescenceVerified
  IN  [operation |-> "filesystem.engine-diff.summary",
       coverage |-> IF observed THEN "best-effort" ELSE "unavailable",
       result |-> IF observed THEN "observed" ELSE "unavailable",
       confidence |-> IF observed THEN "high" ELSE "unknown",
       details |-> IF observed THEN [finalByteCount |-> ed.final, finalNonEmpty |-> ed.final > 0]
                   ELSE <<>>]

\* combineFilesystemWriteCoverage
combineFilesystemWriteCoverage(coverages) ==
  IF "best-effort" \in coverages THEN "best-effort" ELSE "unavailable"

-----------------------------------------------------------------------------
(* The cgroup.  A snapshot is [limits, events, usage]: limits is whether    *)
(* the enforced limits are the planned ones, events counts limit events     *)
(* and usage any cumulative counter.                                        *)

ResourceSnapshot == [limits : BOOLEAN, events : Nat, usage : Nat]

InitialResourceState ==
  [active |-> [limits |-> TRUE, events |-> 0, usage |-> 0], activeReady |-> FALSE,
   final |-> [limits |-> TRUE, events |-> 0, usage |-> 0], finalReady |-> FALSE,
   identityVerified |-> FALSE, errors |-> {}]

\* validateLinuxResourceBinding: memory, swap, tasks, CPU and the rounded
\* writable size are exactly the planned ones.
validateLinuxResourceBinding(s) == s.limits

\* validateLinuxResourcePreflight
validateLinuxResourcePreflight(s) == validateLinuxResourceBinding(s) /\ s.events = 0

\* validateLinuxResourceMonotonic
validateLinuxResourceMonotonic(active, final) ==
  final.usage >= active.usage /\ final.events >= active.events

\* resourceLimitEventError
resourceLimitEventError(active, final) == final.events - active.events > 0

\* Mutant: the limit events are not compared.
FinalResources_quiet(rs, identity, collected, s) ==
  IF ~identity \/ ~collected THEN [rs EXCEPT !.errors = @ \cup {"OBSERVER_INCOMPLETE"}]
  ELSE [rs EXCEPT !.identityVerified = TRUE, !.final = s, !.finalReady = TRUE]

\* The final resource snapshot in Run: a complete one is compared with the
\* one before the workload, anything else is reported as incomplete.
FinalResources(rs, identity, collected, s) ==
  IF ~identity THEN [rs EXCEPT !.errors = @ \cup {"OBSERVER_INCOMPLETE"}]
  ELSE IF ~collected \/ ~validateLinuxResourceBinding(s)
          \/ (rs.activeReady /\ ~validateLinuxResourceMonotonic(rs.active, s))
  THEN [rs EXCEPT !.identityVerified = TRUE, !.errors = @ \cup {"OBSERVER_INCOMPLETE"}]
  ELSE [rs EXCEPT !.identityVerified = TRUE, !.final = s, !.finalReady = TRUE,
                  !.errors = IF rs.activeReady /\ resourceLimitEventError(rs.active, s)
                             THEN @ \cup {"RESOURCE_LIMIT_EXCEEDED"} ELSE @]

\* summarizeResourceUsage: the coverage of the summary; the size of the
\* exported outputs makes it high.
resourceCoverage(rs, outputBytesKnown) ==
  IF ~(rs.activeReady /\ rs.finalReady /\ rs.identityVerified) THEN "unavailable"
  ELSE IF outputBytesKnown THEN "high" ELSE "best-effort"
=============================================================================

------------------------ MODULE LaneController_proofs ------------------------
(***************************************************************************)
(* What ProduceLane guarantees for any number of producers given one       *)
(* output, any number of gates and whatever an executor may report.        *)
(*                                                                         *)
(* The inductive invariant has three parts.  LocalOK follows one producer  *)
(* from the gates to its outcome: a gate that did not pass leaves an error *)
(* behind and the error decides the status.  DiskOK says what a producer   *)
(* may rely on under its own names, and under the output while it holds    *)
(* it.  Earned says that a passing lane at the output belongs to a         *)
(* producer past its promotion, which nothing of what it still does can    *)
(* make unsound.  A fourth part, Tidy, is proved inductive on top of these *)
(* three: it says where a directory that could not be removed is           *)
(* remembered until ProduceLane returns.                                   *)
(***************************************************************************)
EXTENDS LaneController, WellFoundedInduction, TLAPS

Status == {"PASS", "FAIL", "BLOCKED", "NOT_RUN"}
GateRecord == [status : Status, exit : Exit, timed : BOOLEAN]
Errors == {"none", "CLEANUP_FAILED", "OUTPUT_LIMIT", "DESTINATION_EXISTS", "ARCHIVE_INVALID",
           "RECEIPT_INVALID", "SOURCE_DIRTY", "GATE_BLOCKED", "GATE_NOT_RUN", "GATE_FAILED",
           "INVALID_INPUT"}

\* Errors that are failures whatever the gates did.
Plain == {"CLEANUP_FAILED", "DESTINATION_EXISTS", "ARCHIVE_INVALID", "RECEIPT_INVALID",
          "SOURCE_DIRTY", "INVALID_INPUT"}

LocalType == [gates : [1..Gates -> GateRecord] \cup {<<>>}, err : Errors, status : Status,
              job : {"lane", "tombstone", "promote", "withdraw"},
              then : Plain \cup {"none", "tombstone"}, code : Errors,
              ready : BOOLEAN, cancelled : BOOLEAN, ran : 0..Gates, sound : BOOLEAN]

Before == {"idle", "allocate", "history", "configure", "validate", "snapshot", "bind"}
Publishing == {"staging", "fill", "rename", "release", "sync", "unstage"}
Judging == {"verify", "readback", "clean", "promote", "promoteRename"}
Steps == Before \cup Publishing \cup Judging \cup Gone
         \cup {"gate", "unbind", "receipt", "retract", "unlink", "withdraw", "promoteSync"}

Content == {Absent} \cup [kind : {"lane", "tombstone", "empty"}, owner : Proc,
                          status : Status, whole : BOOLEAN]

Outcome == {NoResult} \cup [code : Errors \cup {"OK"}, status : Status, published : BOOLEAN]

Kinds == {"stage", "lane", "tombstone"}

Types ==
    /\ disk \in [Name -> Content]
    /\ survivors \subseteq Content
    /\ disk[Output] \in survivors
    /\ workspace \in [Proc -> {"absent", "empty", "used"}]
    /\ pc \in [Proc -> Steps]
    /\ local \in [Proc -> LocalType]
    /\ result \in [Proc -> Outcome]

-----------------------------------------------------------------------------
(* One producer, from its gates to its outcome. *)

Passed(g) == g.status = "PASS" /\ g.exit = "zero" /\ g.timed

\* The gates up to k passed and none after it was run.
PassedUpTo(l, k) ==
    /\ l.gates \in [1..Gates -> GateRecord]
    /\ \A i \in 1..Gates : i <= k => Passed(l.gates[i])
    /\ \A i \in 1..Gates : k < i => l.gates[i] = NotRun

\* Gate k ended the loop, or was where it was cancelled.
EndedAt(l, k) ==
    /\ l.gates \in [1..Gates -> GateRecord]
    /\ \A i \in 1..Gates : i < k => Passed(l.gates[i])
    /\ \A i \in 1..Gates : k < i => l.gates[i] = NotRun
    /\ \/ l.err = "GATE_NOT_RUN" /\ l.gates[k] = NotRun
       \/ /\ l.err = "GATE_BLOCKED"
          /\ l.gates[k].status = "BLOCKED" /\ l.gates[k].exit = "none" /\ l.gates[k].timed
       \/ /\ l.err \in {"GATE_FAILED", "CLEANUP_FAILED", "OUTPUT_LIMIT"}
          /\ l.gates[k].status = "FAIL" /\ l.gates[k].timed

GatesEnded(l) ==
    \/ l.err = "none" /\ l.sound /\ l.ran = Gates /\ PassedUpTo(l, Gates)
    \/ \E k \in 1..Gates : EndedAt(l, k)

\* The runner refused its request: there are no records.
Refused(l) == l.gates = <<>> /\ l.err = "INVALID_INPUT" /\ l.ran = 0

\* The status follows from the error.
Decided(l) ==
    \/ l.err = "none" /\ l.status = "PASS"
    \/ /\ l.err # "none" /\ l.status # "PASS"
       /\ l.status = attemptTombstoneStatusForCode(qualificationLaneErrorCode(l.err, l.status))

LocalOK(s, l) ==
    /\ s \in Before \cup {"gate", "unbind", "receipt"} \cup Judging => l.job = "lane"
    /\ s \in Publishing => l.job \in {"lane", "tombstone"}
    /\ s \in Before => l.err = "none" /\ l.sound /\ l.ran = 0 /\ ~l.ready /\ PassedUpTo(l, 0)
    /\ s = "gate" => l.err = "none" /\ l.sound /\ l.ran < Gates /\ PassedUpTo(l, l.ran)
    /\ s = "unbind" => GatesEnded(l)
    /\ s = "receipt" => GatesEnded(l) \/ Refused(l)
    /\ (s \in Publishing \cup {"verify", "readback"} /\ l.job = "lane") =>
           Decided(l) /\ (l.status = "PASS" => l.sound)
    /\ (s \in {"unstage", "retract", "unlink"} /\ l.job \in {"lane", "tombstone"}) => l.then \in Plain
    /\ s \in {"clean", "promote", "promoteRename"} =>
           normalizeProduceLaneOutcome(l) /\ (l.status = "PASS" => l.sound)
    /\ s \in {"promote", "promoteRename"} => l.ready
    /\ s = "promoteSync" => l.job = "promote"
    /\ s = "withdraw" => l.job = "withdraw"
    /\ l.job = "withdraw" => l.then \in {"tombstone", "INVALID_INPUT", "DESTINATION_EXISTS"}

-----------------------------------------------------------------------------
(* What a producer may rely on.  d and sv stand for disk and survivors; s, *)
(* l, w and r for its step, variables, workspace and result.               *)

\* The producer has been past its promotion: nothing it does now is about its
\* lane's soundness.
LateAt(s, l) ==
    \/ s \in Gone \cup {"promoteSync"}
    \/ s \in {"retract", "unlink"} /\ l.job = "promote"
    \/ s \in {"withdraw", "retract", "unlink"} /\ l.job = "withdraw" /\ l.then # "tombstone"

Owned(c, p) == c # Absent /\ c.owner = p
Filled(c) == c # Absent /\ c.whole

ArtifactOf(p, l) ==
    Package(p, l.job, IF l.job = "lane" THEN l.status ELSE attemptTombstoneStatusForCode(l.code), TRUE)

NamesOK(d, p) ==
    /\ \A k \in Kinds : d[<<k, p>>] = Absent \/ d[<<k, p>>].owner = p
    /\ d[<<"stage", p>>] = Absent \/ d[<<"stage", p>>].kind = "lane"

Reached(d, p, s, l, w) ==
    /\ s = "rename" => d[<<l.job, p>>] = ArtifactOf(p, l)
    /\ (s \in {"release", "sync"} /\ l.job = "tombstone") => d[Output] = ArtifactOf(p, l)
    /\ (s \in {"clean", "promote", "promoteRename"} /\ l.ready) =>
           Filled(d[<<"stage", p>>]) /\ d[<<"stage", p>>].status = l.status
    /\ s \in {"promote", "promoteRename", "promoteSync"} => w = "absent"
    /\ s = "promoteSync" => d[Output] = Package(p, "lane", l.status, TRUE)
    /\ (s = "unlink" /\ l.job \in {"tombstone", "promote"}) => Owned(d[Output], p)

Told(d, sv, p, s, r) ==
    /\ s # "returned" => r = NoResult
    /\ (r # NoResult /\ r.published) =>
           /\ sv = {d[Output]} /\ Owned(d[Output], p) /\ Filled(d[Output])
           /\ d[Output].status = r.status
           /\ r.code = "OK" => d[Output].kind = "lane"

DiskOK(p) ==
    /\ NamesOK(disk, p)
    /\ Reached(disk, p, pc[p], local[p], workspace[p])
    /\ Told(disk, survivors, p, pc[p], result[p])

\* A passing lane.
PassingLane(c) == c # Absent /\ c.kind = "lane" /\ c.status = "PASS"

Earned ==
    \A c \in survivors : PassingLane(c) =>
        local[c.owner].sound /\ workspace[c.owner] = "absent" /\ LateAt(pc[c.owner], local[c.owner])

Inv ==
    /\ Types
    /\ \A p \in Proc : LocalOK(pc[p], local[p]) /\ DiskOK(p)
    /\ Earned

-----------------------------------------------------------------------------
(* Facts about names, records and statuses. *)

\* The output and the names of the producers are different names.
LEMMA NameFacts ==
    /\ Output \in Name
    /\ \A k \in Kinds, p \in Proc : <<k, p>> \in Name /\ <<k, p>> # Output
    /\ \A k, j \in Kinds, p, q \in Proc : <<k, p>> = <<j, q>> <=> k = j /\ p = q
  BY DEF Output, Name, Kinds

LEMMA LocalsFacts ==
    /\ Locals \in LocalType
    /\ \A s \in Before \cup Gone : LocalOK(s, Locals)
<1>1. NotRun \in GateRecord
  BY DEF NotRun, GateRecord, Status, Exit
<1>2. Locals \in LocalType
  BY <1>1, GatesAssumption DEF Locals, LocalType, Status, Errors
<1>3. /\ Locals.job = "lane" /\ Locals.err = "none" /\ Locals.sound /\ Locals.ran = 0 /\ ~Locals.ready
      /\ PassedUpTo(Locals, 0)
  BY <1>1 DEF Locals, PassedUpTo
<1> HIDE DEF Locals
<1> QED  BY <1>2, <1>3 DEF LocalOK, Before, Gone, Publishing, Judging

LEMMA EndedFacts ==
    ASSUME Types, NEW p \in Proc
    PROVE  Ended(p) \in LocalType /\ \A s \in Gone : LocalOK(s, Ended(p))
<1>1. Locals \in LocalType
  BY LocalsFacts
<1>2. Ended(p) \in LocalType /\ Ended(p).job = Locals.job
  BY <1>1 DEF Ended, LocalType, Types
<1>3. Locals.job = "lane"
  BY DEF Locals
<1> QED  BY <1>2, <1>3 DEF LocalOK, Before, Gone, Publishing, Judging

\* A tombstone never says PASS.
LEMMA TombstoneStatus ==
    \A code : attemptTombstoneStatusForCode(code) \in {"FAIL", "BLOCKED", "NOT_RUN"}
  BY DEF attemptTombstoneStatusForCode

LEMMA PlainIsFail ==
    \A e \in Plain : /\ e \in Errors /\ e # "none"
                     /\ attemptTombstoneStatusForCode(e) = "FAIL"
                     /\ qualificationLaneErrorCode(e, "FAIL") = e
  BY DEF Plain, Errors, attemptTombstoneStatusForCode, qualificationLaneErrorCode

\* A nonempty set of numbers up to n has a greatest element.
LEMMA GreatestOf ==
    ASSUME NEW n \in Nat, NEW T, T \subseteq 1..n, T # {}
    PROVE  Max(T) \in T /\ \A y \in T : y <= Max(T)
<1> DEFINE U == {n - x : x \in T}
           less == {ss \in Nat \X Nat : ss[1] < ss[2]}
<1>1. U \subseteq Nat /\ U # {}
  OBVIOUS
<1>2. IsWellFoundedOn(less, Nat)
  BY NatLessThanWellFounded DEF OpToRel
<1>3. PICK u \in U : \A y \in U : ~ (<<y, u>> \in less)
  <2> HIDE DEF U, less
  <2> QED  BY <1>1, <1>2, WFMin
<1>4. PICK x \in T : u = n - x
  OBVIOUS
<1>5. \A y \in T : y <= x
  <2> SUFFICES ASSUME NEW y \in T PROVE y <= x
    OBVIOUS
  <2>1. n - y \in U /\ n - y \in Nat /\ u \in Nat
    BY <1>1
  <2>2. ~ (n - y < u)
    BY <2>1, <1>3
  <2> QED  BY <2>2, <1>4
<1>6. \E z \in T : \A y \in T : z >= y
  BY <1>5
<1> QED  BY <1>6 DEF Max

\* A process that is judged to have passed did all that was expected of it,
\* and every other verdict comes with its error.
LEMMA Judgement ==
    ASSUME NEW r, r.flags \in SUBSET Flag, r.exit \in Exit, r.err \in BOOLEAN, r.meets \in BOOLEAN
    PROVE  LET verdict == evaluateGateResult(r)
           IN  \/ /\ verdict.status = "PASS" /\ verdict.exit = "zero" /\ verdict.err = "none"
                  /\ r.flags = {} /\ r.exit = "zero" /\ r.meets /\ ~r.err
               \/ verdict.status = "BLOCKED" /\ verdict.exit = "none" /\ verdict.err = "GATE_BLOCKED"
               \/ /\ verdict.status = "FAIL" /\ verdict.exit \in Exit
                  /\ verdict.err \in {"GATE_FAILED", "CLEANUP_FAILED", "OUTPUT_LIMIT"}
  BY DEF evaluateGateResult, validGateExitCode, Flag, Exit

-----------------------------------------------------------------------------
(* A step of one producer, as the others see it. *)

Others(p) ==
    \A q \in Proc \ {p} :
        /\ pc'[q] = pc[q] /\ local'[q] = local[q]
        /\ workspace'[q] = workspace[q] /\ result'[q] = result[q]
        /\ \A k \in Kinds : disk'[<<k, q>>] = disk[<<k, q>>]

\* The output is taken only where there is none, and changed by its owner.
Polite(p) ==
    /\ disk'[Output] = disk[Output] \/ disk[Output] = Absent \/ disk[Output].owner = p
    /\ survivors' \subseteq survivors \cup {disk'[Output]}

\* A passing lane at the output stays earned, or becomes so.
StaysEarned(p) ==
    /\ LateAt(pc[p], local[p]) =>
           /\ LateAt(pc'[p], local'[p])
           /\ local'[p].sound = local[p].sound /\ workspace'[p] = workspace[p]
    /\ (disk'[Output] \notin survivors /\ PassingLane(disk'[Output])) =>
           /\ disk'[Output].owner = p
           /\ local'[p].sound /\ workspace'[p] = "absent" /\ LateAt(pc'[p], local'[p])

\* A step of p that leaves the others' names alone and is polite about the
\* output keeps the invariant if it does so for p.
LEMMA Combine ==
    ASSUME Inv, NEW p \in Proc, Types', Others(p), Polite(p), StaysEarned(p),
           LocalOK(pc'[p], local'[p]), NamesOK(disk', p),
           Reached(disk', p, pc'[p], local'[p], workspace'[p]),
           Told(disk', survivors', p, pc'[p], result'[p])
    PROVE  Inv'
<1>1. ASSUME NEW q \in Proc, q # p
      PROVE  LocalOK(pc'[q], local'[q]) /\ DiskOK(q)'
  <2> DEFINE s == pc[q]
             l == local[q]
             w == workspace[q]
             r == result[q]
  <2>1. /\ pc'[q] = s /\ local'[q] = l /\ workspace'[q] = w /\ result'[q] = r
        /\ \A k \in Kinds : disk'[<<k, q>>] = disk[<<k, q>>]
    BY <1>1 DEF Others
  <2>2. /\ LocalOK(s, l) /\ NamesOK(disk, q) /\ Reached(disk, q, s, l, w)
        /\ Told(disk, survivors, q, s, r)
    BY DEF Inv, DiskOK
  <2>3. Owned(disk[Output], q) =>
          disk'[Output] = disk[Output] /\ survivors' \subseteq survivors \cup {disk[Output]}
    BY <1>1 DEF Polite, Owned
  <2>4. disk'[Output] \in survivors'
    BY DEF Types
  <2>5. l.job \in {"lane", "tombstone", "promote", "withdraw"}
    BY DEF Inv, Types, LocalType
  <2>6. NamesOK(disk', q)
    BY <2>1, <2>2 DEF NamesOK, Kinds
  <2>7. s = "rename" => l.job \in Kinds
    BY <2>2 DEF LocalOK, Publishing, Kinds
  <2>8. Owned(ArtifactOf(q, l), q)
    <3>1. ArtifactOf(q, l).kind # Absent.kind /\ ArtifactOf(q, l).owner = q
      BY <2>5 DEF ArtifactOf, Package, Absent
    <3> QED  BY <3>1 DEF Owned
  <2>9. Owned(Package(q, "lane", l.status, TRUE), q)
    <3>1. Package(q, "lane", l.status, TRUE).kind # Absent.kind
      BY DEF Package, Absent
    <3> QED  BY <3>1 DEF Owned, Package
  <2> HIDE DEF s, l, w, r
  <2>10. Reached(disk', q, s, l, w)
    BY <2>1, <2>2, <2>3, <2>7, <2>8, <2>9 DEF Reached, Kinds
  <2>11. Told(disk', survivors', q, s, r)
    BY <2>2, <2>3, <2>4 DEF Told
  <2> QED  BY <2>1, <2>2, <2>6, <2>10, <2>11 DEF DiskOK
<1>2. Earned'
  <2> SUFFICES ASSUME NEW c \in survivors', PassingLane(c)
               PROVE  /\ local'[c.owner].sound /\ workspace'[c.owner] = "absent"
                      /\ LateAt(pc'[c.owner], local'[c.owner])
    BY DEF Earned
  <2>1. CASE c \in survivors
    <3>1. c.owner \in Proc
      BY <2>1 DEF Inv, Types, Content, PassingLane
    <3>2. /\ local[c.owner].sound /\ workspace[c.owner] = "absent"
          /\ LateAt(pc[c.owner], local[c.owner])
      BY <2>1 DEF Inv, Earned
    <3>3. CASE c.owner = p
      BY <3>2, <3>3 DEF StaysEarned
    <3>4. CASE c.owner # p
      BY <3>1, <3>2, <3>4 DEF Others
    <3> QED  BY <3>3, <3>4
  <2>2. CASE c \notin survivors
    <3>1. c = disk'[Output]
      BY <2>2 DEF Polite
    <3> QED  BY <3>1, <2>2 DEF StaysEarned
  <2> QED  BY <2>1, <2>2
<1> QED  BY <1>1, <1>2 DEF Inv, DiskOK

-----------------------------------------------------------------------------
(* The shape of a step: p goes to s with variables l, workspace w and      *)
(* result r.                                                               *)

Sets(new, old, p, v) == new = [old EXCEPT ![p] = v] \/ (new = old /\ v = old[p])

Turn(p, s, l, w, r) ==
    /\ s \in Steps /\ l \in LocalType /\ w \in {"absent", "empty", "used"} /\ r \in Outcome
    /\ Sets(pc', pc, p, s) /\ Sets(local', local, p, l)
    /\ Sets(workspace', workspace, p, w) /\ Sets(result', result, p, r)
    /\ LocalOK(s, l)
    /\ LateAt(pc[p], local[p]) => LateAt(s, l) /\ l.sound = local[p].sound /\ w = workspace[p]

LEMMA TurnFacts ==
    ASSUME Types, NEW p \in Proc, NEW s, NEW l, NEW w, NEW r, Turn(p, s, l, w, r)
    PROVE  /\ pc'[p] = s /\ local'[p] = l /\ workspace'[p] = w /\ result'[p] = r
           /\ pc' \in [Proc -> Steps] /\ local' \in [Proc -> LocalType]
           /\ workspace' \in [Proc -> {"absent", "empty", "used"}] /\ result' \in [Proc -> Outcome]
           /\ \A q \in Proc \ {p} : /\ pc'[q] = pc[q] /\ local'[q] = local[q]
                                    /\ workspace'[q] = workspace[q] /\ result'[q] = result[q]
<1> USE DEF Turn, Sets, Types
<1>1. /\ pc'[p] = s /\ pc' \in [Proc -> Steps]
      /\ \A q \in Proc \ {p} : pc'[q] = pc[q]
  OBVIOUS
<1>2. /\ local'[p] = l /\ local' \in [Proc -> LocalType]
      /\ \A q \in Proc \ {p} : local'[q] = local[q]
  OBVIOUS
<1>3. /\ workspace'[p] = w /\ workspace' \in [Proc -> {"absent", "empty", "used"}]
      /\ \A q \in Proc \ {p} : workspace'[q] = workspace[q]
  OBVIOUS
<1>4. /\ result'[p] = r /\ result' \in [Proc -> Outcome]
      /\ \A q \in Proc \ {p} : result'[q] = result[q]
  OBVIOUS
<1> QED  BY <1>1, <1>2, <1>3, <1>4

\* The disk changes under names of p and perhaps at the output.
Writes(p) ==
    /\ disk' \in [Name -> Content] /\ survivors' \subseteq survivors \cup {disk'[Output]}
    /\ disk'[Output] \in survivors'
    /\ \A q \in Proc \ {p}, k \in Kinds : disk'[<<k, q>>] = disk[<<k, q>>]
    /\ NamesOK(disk', p)

\* Such a step of such a shape keeps the invariant.
LEMMA TurnKeepsInv ==
    ASSUME Inv, NEW p \in Proc, NEW s, NEW l, NEW w, NEW r, Turn(p, s, l, w, r), Writes(p),
           disk'[Output] = disk[Output] \/ disk[Output] = Absent \/ disk[Output].owner = p,
           (disk'[Output] \notin survivors /\ PassingLane(disk'[Output])) =>
               disk'[Output].owner = p /\ l.sound /\ w = "absent" /\ LateAt(s, l),
           Reached(disk', p, s, l, w), Told(disk', survivors', p, s, r)
    PROVE  Inv'
<1>1. Types
  BY DEF Inv
<1>2. /\ pc'[p] = s /\ local'[p] = l /\ workspace'[p] = w /\ result'[p] = r
      /\ pc' \in [Proc -> Steps] /\ local' \in [Proc -> LocalType]
      /\ workspace' \in [Proc -> {"absent", "empty", "used"}] /\ result' \in [Proc -> Outcome]
      /\ \A q \in Proc \ {p} : /\ pc'[q] = pc[q] /\ local'[q] = local[q]
                               /\ workspace'[q] = workspace[q] /\ result'[q] = result[q]
  BY <1>1, TurnFacts
<1>3. Types'
  <2>1. survivors' \subseteq Content
    BY <1>1, NameFacts DEF Writes, Types
  <2> QED  BY <1>2, <2>1 DEF Types, Writes
<1>4. Others(p)
  BY <1>2 DEF Others, Writes
<1>5. Polite(p)
  BY DEF Polite, Writes
<1>6. StaysEarned(p)
  BY <1>2 DEF StaysEarned, Turn
<1>7. LocalOK(pc'[p], local'[p]) /\ NamesOK(disk', p)
  BY <1>2 DEF Turn, Writes
<1> QED  BY <1>2, <1>3, <1>4, <1>5, <1>6, <1>7, Combine

\* The steps at which something is known of the disk.
Knowing == {"rename", "release", "sync", "clean", "promote", "promoteRename", "promoteSync", "unlink"}

\* A step that leaves the disk alone and tells nobody of a publication.
LEMMA Quiet ==
    ASSUME Inv, NEW p \in Proc, NEW s, NEW l, NEW w, NEW r, Turn(p, s, l, w, r), SameDisk,
           s \in Knowing => Reached(disk, p, s, l, w),
           r = NoResult \/ (s = "returned" /\ ~r.published)
    PROVE  Inv'
<1>1. disk' = disk /\ survivors' = survivors
  BY DEF SameDisk
<1>2. Writes(p)
  BY <1>1 DEF Writes, Inv, Types, DiskOK
<1>3. disk'[Output] \in survivors
  BY <1>1 DEF Inv, Types
<1>4. Reached(disk', p, s, l, w)
  BY <1>1 DEF Knowing, Reached
<1>5. Told(disk', survivors', p, s, r)
  BY DEF Told
<1> QED  BY <1>1, <1>2, <1>3, <1>4, <1>5, TurnKeepsInv

-----------------------------------------------------------------------------
(* The ways a handler ends. *)

\* p goes somewhere where nothing is known of the disk, and tells nobody of a
\* publication.
Moves(p) ==
    \E s \in Steps \ Knowing, l \in LocalType, w \in {"absent", "empty", "used"}, r \in Outcome :
        Turn(p, s, l, w, r) /\ (r = NoResult \/ (s = "returned" /\ ~r.published))

\* What the invariant says of one producer.
LEMMA Here ==
    ASSUME Inv, NEW p \in Proc
    PROVE  /\ Types /\ local[p] \in LocalType /\ pc[p] \in Steps
           /\ workspace[p] \in {"absent", "empty", "used"}
           /\ LocalOK(pc[p], local[p]) /\ NamesOK(disk, p)
           /\ Reached(disk, p, pc[p], local[p], workspace[p])
           /\ Told(disk, survivors, p, pc[p], result[p])
           /\ pc[p] # "returned" => result[p] = NoResult
  BY DEF Inv, Types, DiskOK, Told

LEMMA MovedQuietly ==
    ASSUME Inv, NEW p \in Proc, Moves(p), SameDisk
    PROVE  Inv'
<1>1. PICK s \in Steps \ Knowing, l \in LocalType, w \in {"absent", "empty", "used"}, r \in Outcome :
          Turn(p, s, l, w, r) /\ (r = NoResult \/ (s = "returned" /\ ~r.published))
  BY DEF Moves
<1> QED  BY <1>1, Quiet

LEMMA MovedWriting ==
    ASSUME Inv, NEW p \in Proc, Moves(p), Writes(p),
           disk'[Output] = disk[Output] \/ Owned(disk[Output], p),
           disk'[Output] \in survivors \/ ~PassingLane(disk'[Output])
    PROVE  Inv'
<1>1. PICK s \in Steps \ Knowing, l \in LocalType, w \in {"absent", "empty", "used"}, r \in Outcome :
          Turn(p, s, l, w, r) /\ (r = NoResult \/ (s = "returned" /\ ~r.published))
  BY DEF Moves
<1>2. Reached(disk', p, s, l, w)
  BY DEF Knowing, Reached
<1>3. Told(disk', survivors', p, s, r)
  BY <1>1 DEF Told
<1> QED  BY <1>1, <1>2, <1>3, TurnKeepsInv DEF Owned

\* ProduceLane returns.
LEMMA ReturnTurns ==
    ASSUME Inv, NEW p \in Proc, NEW code \in Errors \cup {"OK"}, NEW status \in Status,
           NEW published \in BOOLEAN, Return(p, code, status, published),
           NEW w \in {"absent", "empty", "used"}, Sets(workspace', workspace, p, w),
           LateAt(pc[p], local[p]) => w = workspace[p]
    PROVE  Turn(p, "returned", Ended(p), w,
                [code |-> code, status |-> status, published |-> published])
<1> DEFINE r == [code |-> code, status |-> status, published |-> published]
<1> SUFFICES Turn(p, "returned", Ended(p), w, r)
  OBVIOUS
<1>1. r \in Outcome
  BY DEF Outcome
<1>2. Ended(p) \in LocalType /\ LocalOK("returned", Ended(p))
  BY EndedFacts DEF Inv, Gone
<1>3. Ended(p).sound = local[p].sound
  BY LocalsFacts DEF Ended, LocalType
<1>4. Sets(pc', pc, p, "returned") /\ Sets(local', local, p, Ended(p)) /\ Sets(result', result, p, r)
  BY DEF Return, Update, Sets
<1>5. LateAt("returned", Ended(p)) /\ "returned" \in Steps
  BY DEF LateAt, Gone, Steps
<1> HIDE DEF r
<1> QED  BY <1>1, <1>2, <1>3, <1>4, <1>5 DEF Turn

LEMMA Returned ==
    ASSUME Inv, NEW p \in Proc, NEW code \in Errors \cup {"OK"}, NEW status \in Status,
           Return(p, code, status, FALSE),
           NEW w \in {"absent", "empty", "used"}, Sets(workspace', workspace, p, w),
           LateAt(pc[p], local[p]) => w = workspace[p]
    PROVE  Moves(p)
<1> DEFINE r == [code |-> code, status |-> status, published |-> FALSE]
<1>1. Turn(p, "returned", Ended(p), w, r)
  BY ReturnTurns
<1>2. "returned" \in Steps \ Knowing /\ Ended(p) \in LocalType /\ r \in Outcome
  BY <1>1 DEF Turn, Knowing
<1>3. ~r.published
  OBVIOUS
<1> HIDE DEF r
<1> QED  BY <1>1, <1>2, <1>3 DEF Moves

\* p goes on to s.
LEMMA GoesOn ==
    ASSUME Inv, NEW p \in Proc, pc[p] # "returned", NEW s \in Steps, NEW l \in LocalType,
           Goto(p, s), UNCHANGED workspace, Sets(local', local, p, l), LocalOK(s, l),
           LateAt(pc[p], local[p]) => LateAt(s, l) /\ l.sound = local[p].sound
    PROVE  /\ Turn(p, s, l, workspace[p], NoResult)
           /\ s \notin Knowing => Moves(p)
<1>1. result[p] = NoResult /\ NoResult \in Outcome /\ workspace[p] \in {"absent", "empty", "used"}
  BY Here DEF Outcome
<1>2. Turn(p, s, l, workspace[p], NoResult)
  BY <1>1 DEF Turn, Goto, Sets
<1> QED  BY <1>1, <1>2 DEF Moves

\* A lane's error is kept for the read-back.
LEMMA ErrorMoves ==
    ASSUME Inv, NEW p \in Proc, pc[p] # "returned", ~LateAt(pc[p], local[p]),
           NEW l \in LocalType, l.job = "lane", NEW err \in Plain,
           LaneError(p, l, err), UNCHANGED workspace
    PROVE  Moves(p)
<1> DEFINE m == [l EXCEPT !.err = err, !.status = "FAIL"]
<1>1. m \in LocalType /\ m.job = "lane" /\ m.err = err /\ m.status = "FAIL"
  BY PlainIsFail DEF LocalType, Status
<1>2. Goto(p, "readback") /\ Sets(local', local, p, m)
  BY DEF LaneError, Update, Sets
<1> HIDE DEF m
<1>3. Decided(m)
  BY <1>1, PlainIsFail DEF Decided
<1>4. LocalOK("readback", m)
  BY <1>1, <1>3 DEF LocalOK, Before, Publishing, Judging
<1>5. "readback" \in Steps \ Knowing
  BY DEF Steps, Judging, Knowing
<1> QED  BY <1>1, <1>2, <1>4, <1>5, GoesOn

\* A publication returns its error.
LEMMA FailedMoves ==
    ASSUME Inv, NEW p \in Proc, pc[p] # "returned", ~LateAt(pc[p], local[p]),
           NEW err \in Plain, PublicationFailed(p, err), UNCHANGED workspace
    PROVE  Moves(p)
<1>1. local[p] \in LocalType
  BY Here
<1>2. CASE local[p].job = "lane" /\ LaneError(p, local[p], err)
  BY <1>1, <1>2, ErrorMoves
<1>3. CASE Return(p, local[p].code, attemptTombstoneStatusForCode(local[p].code), FALSE)
  <2>1. local[p].code \in Errors \cup {"OK"}
        /\ attemptTombstoneStatusForCode(local[p].code) \in Status
    BY <1>1, TombstoneStatus DEF LocalType, Status
  <2>2. workspace[p] \in {"absent", "empty", "used"} /\ Sets(workspace', workspace, p, workspace[p])
    BY Here DEF Sets
  <2> QED  BY <1>3, <2>1, <2>2, Returned
<1> QED  BY <1>2, <1>3 DEF PublicationFailed

\* A step that keeps workspace and returns without having published.
LEMMA FailureMoves ==
    ASSUME Inv, NEW p \in Proc, NEW code \in Errors, controllerFailure(p, code), UNCHANGED workspace
    PROVE  Moves(p)
<1>1. workspace[p] \in {"absent", "empty", "used"} /\ Sets(workspace', workspace, p, workspace[p])
  BY Here DEF Sets
<1>2. Return(p, code, "FAIL", FALSE) /\ "FAIL" \in Status
  BY DEF controllerFailure, Status
<1> QED  BY <1>1, <1>2, Returned

\* A withdrawal begins.
LEMMA WithdrawMoves ==
    ASSUME Inv, NEW p \in Proc, pc[p] # "returned", NEW l \in LocalType,
           NEW then \in {"tombstone", "INVALID_INPUT", "DESTINATION_EXISTS"},
           Withdraw(p, l, then), NEW w \in {"absent", "empty", "used"},
           Sets(workspace', workspace, p, w),
           LateAt(pc[p], local[p]) => then # "tombstone" /\ l.sound = local[p].sound /\ w = workspace[p]
    PROVE  Moves(p)
<1> DEFINE m == [l EXCEPT !.job = "withdraw", !.then = then]
<1>1. m \in LocalType /\ m.job = "withdraw" /\ m.then = then /\ m.sound = l.sound
  BY DEF LocalType, Plain
<1>2. Sets(pc', pc, p, "withdraw") /\ Sets(local', local, p, m) /\ Sets(result', result, p, NoResult)
  BY Here DEF Withdraw, Update, Goto, Sets
<1> HIDE DEF m
<1>3. LocalOK("withdraw", m)
  BY <1>1 DEF LocalOK, Before, Publishing, Judging
<1>4. "withdraw" \in Steps \ Knowing /\ NoResult \in Outcome
  BY DEF Steps, Judging, Knowing, Outcome
<1>5. LateAt(pc[p], local[p]) => LateAt("withdraw", m) /\ m.sound = local[p].sound
  BY <1>1 DEF LateAt
<1>6. Turn(p, "withdraw", m, w, NoResult)
  BY <1>1, <1>2, <1>3, <1>4, <1>5 DEF Turn
<1> QED  BY <1>1, <1>4, <1>6 DEF Moves

\* The stage is gone: a tombstone follows, or ProduceLane returns.
LEMMA WithdrawnMoves ==
    ASSUME Inv, NEW p \in Proc, pc[p] \in {"withdraw", "retract", "unlink"},
           local[p].job = "withdraw", Withdrawn(p), UNCHANGED workspace
    PROVE  Moves(p)
<1>1. /\ local[p] \in LocalType
      /\ local[p].then \in {"tombstone", "INVALID_INPUT", "DESTINATION_EXISTS"}
  BY Here DEF LocalOK
<1>2. CASE /\ local[p].then = "tombstone"
           /\ Update(p, [local[p] EXCEPT !.job = "tombstone"]) /\ Goto(p, "staging")
  <2> DEFINE m == [local[p] EXCEPT !.job = "tombstone"]
  <2>1. m \in LocalType /\ m.job = "tombstone" /\ Sets(local', local, p, m)
    BY <1>1, <1>2 DEF LocalType, Update, Sets
  <2> HIDE DEF m
  <2>2. LocalOK("staging", m)
    BY <2>1 DEF LocalOK, Before, Publishing, Judging
  <2>3. ~LateAt(pc[p], local[p])
    BY <1>2 DEF LateAt, Gone
  <2>4. "staging" \in Steps \ Knowing
    BY DEF Steps, Publishing, Knowing
  <2> QED  BY <1>2, <2>1, <2>2, <2>3, <2>4, GoesOn
<1>3. CASE local[p].then # "tombstone" /\ controllerFailure(p, local[p].then)
  BY <1>1, <1>3, FailureMoves DEF Errors
<1> QED  BY <1>2, <1>3 DEF Withdrawn

\* A retraction is over, one way or the other.
LEMMA RetractedMoves ==
    ASSUME Inv, NEW p \in Proc, pc[p] \in {"retract", "unlink"}, NEW ok \in BOOLEAN,
           Retracted(p, ok), UNCHANGED workspace
    PROVE  Moves(p)
<1>1. /\ local[p] \in LocalType /\ LocalOK(pc[p], local[p])
      /\ workspace[p] \in {"absent", "empty", "used"} /\ Sets(workspace', workspace, p, workspace[p])
  BY Here DEF Sets
<1>2. CASE /\ local[p].job \in {"lane", "tombstone"}
           /\ PublicationFailed(p, IF ok THEN local[p].then ELSE "CLEANUP_FAILED")
  <2>1. (IF ok THEN local[p].then ELSE "CLEANUP_FAILED") \in Plain
    BY <1>1, <1>2 DEF LocalOK, Plain
  <2>2. ~LateAt(pc[p], local[p])
    BY <1>2 DEF LateAt, Gone
  <2> QED  BY <1>2, <2>1, <2>2, FailedMoves
<1>3. CASE local[p].job = "promote" /\ Withdraw(p, local[p], "DESTINATION_EXISTS")
  BY <1>1, <1>3, WithdrawMoves
<1>4. CASE /\ local[p].job = "withdraw"
           /\ IF ok THEN Withdrawn(p) ELSE controllerFailure(p, "CLEANUP_FAILED")
  BY <1>4, WithdrawnMoves, FailureMoves DEF Errors
<1> QED  BY <1>2, <1>3, <1>4 DEF Retracted

-----------------------------------------------------------------------------
(* From the request to the gates. *)

\* A step to one of the places before the gates that keeps the variables.
LEMMA Onward ==
    ASSUME Inv, NEW p \in Proc, pc[p] \in Before, NEW s \in Before, Goto(p, s), UNCHANGED <<workspace, local>>
    PROVE  Moves(p)
<1>1. local[p] \in LocalType /\ LocalOK(pc[p], local[p]) /\ Sets(local', local, p, local[p])
  BY Here DEF Sets
<1>2. pc[p] # "returned" /\ ~LateAt(pc[p], local[p]) /\ s \in Steps \ Knowing
  BY DEF Before, LateAt, Gone, Steps, Knowing
<1>3. LocalOK(s, local[p])
  BY <1>1 DEF LocalOK, Before, Publishing, Judging
<1> QED  BY <1>1, <1>2, <1>3, GoesOn

\* The producers that are not yet at their gates.
LEMMA BeforeFacts ==
    ASSUME Inv, NEW p \in Proc, pc[p] \in Before
    PROVE  /\ pc[p] # "returned" /\ ~LateAt(pc[p], local[p]) /\ local[p] \in LocalType
           /\ local[p].job = "lane" /\ local[p].err = "none" /\ local[p].sound /\ local[p].ran = 0
           /\ ~local[p].ready /\ PassedUpTo(local[p], 0)
  BY Here DEF Before, LateAt, Gone, LocalOK

LEMMA ProduceLaneKeepsInv ==
    ASSUME Inv, NEW p \in Proc, ProduceLane(p)
    PROVE  Inv'
<1>1. pc[p] \in Before /\ "allocate" \in Steps \ Knowing /\ "allocate" \in Before
  BY DEF ProduceLane, At, Before, Steps, Knowing
<1>2. CASE /\ workspace' = [workspace EXCEPT ![p] = "used"]
           /\ Goto(p, "allocate") /\ UNCHANGED local
  <2>1. local[p] \in LocalType /\ result[p] = NoResult /\ ~LateAt(pc[p], local[p])
        /\ LocalOK(pc[p], local[p])
    BY <1>1, Here, BeforeFacts
  <2>2. LocalOK("allocate", local[p])
    BY <1>1, <2>1 DEF LocalOK, Before, Publishing, Judging
  <2>3. Turn(p, "allocate", local[p], "used", NoResult) /\ NoResult \in Outcome
    BY <1>1, <1>2, <2>1, <2>2 DEF Turn, Sets, Goto, Outcome
  <2>4. Moves(p)
    BY <1>1, <2>1, <2>3 DEF Moves
  <2> QED  BY <2>4, MovedQuietly DEF ProduceLane
<1>3. CASE /\ workspace' \in {workspace, [workspace EXCEPT ![p] = "empty"]}
           /\ controllerFailure(p, "INVALID_INPUT")
  <2>1. \E w \in {"absent", "empty", "used"} : Sets(workspace', workspace, p, w)
    BY <1>3, Here DEF Sets
  <2>2. ~LateAt(pc[p], local[p]) /\ Return(p, "INVALID_INPUT", "FAIL", FALSE)
    BY <1>1, <1>3, BeforeFacts DEF controllerFailure
  <2>3. Moves(p)
    BY <2>1, <2>2, Returned DEF Errors, Status
  <2> QED  BY <2>3, MovedQuietly DEF ProduceLane
<1> QED  BY <1>2, <1>3 DEF ProduceLane

LEMMA allocateStageKeepsInv ==
    ASSUME Inv, NEW p \in Proc, allocateStage(p)
    PROVE  Inv'
<1>1. pc[p] \in Before /\ "history" \in Before /\ SameDisk
  BY DEF allocateStage, At, Before
<1>2. CASE Goto(p, "history") /\ UNCHANGED <<workspace, local>>
  BY <1>1, <1>2, Onward, MovedQuietly
<1>3. CASE /\ workspace' = [workspace EXCEPT ![p] = "absent"]
           /\ controllerFailure(p, "INVALID_INPUT")
  <2>1. Sets(workspace', workspace, p, "absent") /\ ~LateAt(pc[p], local[p])
        /\ Return(p, "INVALID_INPUT", "FAIL", FALSE)
    BY <1>1, <1>3, BeforeFacts DEF Sets, controllerFailure
  <2>2. Moves(p)
    BY <2>1, Returned DEF Errors, Status
  <2> QED  BY <1>1, <2>2, MovedQuietly
<1>4. CASE controllerFailure(p, "CLEANUP_FAILED") /\ UNCHANGED workspace
  BY <1>1, <1>4, FailureMoves, MovedQuietly DEF Errors
<1> QED  BY <1>2, <1>3, <1>4 DEF allocateStage

\* An outcome without a lane has the status of its code.
LEMMA NoLaneKeepsInv ==
    ASSUME Inv, NEW p \in Proc, pc[p] \in Before, SameDisk, UNCHANGED workspace,
           NEW codes \in SUBSET (Errors \ {"none"}), NoLane(p, codes)
    PROVE  Inv'
<1>1. PICK code \in codes :
          Update(p, [local[p] EXCEPT !.code = code, !.status = attemptTombstoneStatusForCode(code)])
  BY DEF NoLane
<1> DEFINE m == [local[p] EXCEPT !.code = code, !.status = attemptTombstoneStatusForCode(code)]
<1>2. /\ pc[p] # "returned" /\ ~LateAt(pc[p], local[p]) /\ local[p] \in LocalType
      /\ local[p].job = "lane" /\ ~local[p].ready
  BY BeforeFacts
<1>3. attemptTombstoneStatusForCode(code) \in {"FAIL", "BLOCKED", "NOT_RUN"}
  BY TombstoneStatus
<1>4. /\ m \in LocalType /\ m.job = "lane" /\ m.code = code /\ m.ready = local[p].ready
      /\ m.status = attemptTombstoneStatusForCode(code)
  BY <1>2, <1>3 DEF LocalType, Status
<1>5. Sets(local', local, p, m) /\ Goto(p, "clean") /\ "clean" \in Steps
  BY <1>1 DEF Update, Sets, NoLane, Steps, Judging
<1> HIDE DEF m
<1>6. normalizeProduceLaneOutcome(m) /\ m.status # "PASS"
  BY <1>3, <1>4 DEF normalizeProduceLaneOutcome
<1>7. LocalOK("clean", m)
  BY <1>4, <1>6 DEF LocalOK, Before, Publishing, Judging
<1>8. Turn(p, "clean", m, workspace[p], NoResult)
  BY <1>2, <1>4, <1>5, <1>7, GoesOn
<1>9. Reached(disk, p, "clean", m, workspace[p])
  BY <1>2, <1>4 DEF Reached
<1> QED  BY <1>8, <1>9, Quiet

LEMMA EarlyStepsKeepInv ==
    ASSUME Inv, NEW p \in Proc,
           HasPriorExecution(p) \/ buildProductionLaneConfiguration(p)
           \/ validateQualificationLaneRequest(p) \/ sourceFromRepositorySnapshot(p)
    PROVE  Inv'
<1>1. CASE HasPriorExecution(p)
  <2>1. pc[p] \in Before /\ "configure" \in Before /\ SameDisk /\ UNCHANGED workspace
    BY <1>1 DEF HasPriorExecution, At, Before
  <2>2. CASE Goto(p, "configure") /\ UNCHANGED local
    BY <2>1, <2>2, Onward, MovedQuietly
  <2>3. CASE NoLane(p, {"GATE_BLOCKED", "GATE_FAILED"})
    BY <2>1, <2>3, NoLaneKeepsInv DEF Errors
  <2> QED  BY <1>1, <2>2, <2>3 DEF HasPriorExecution
<1>2. CASE buildProductionLaneConfiguration(p)
  <2>1. pc[p] \in Before /\ "validate" \in Before /\ SameDisk /\ UNCHANGED workspace
    BY <1>2 DEF buildProductionLaneConfiguration, At, Before
  <2>2. CASE Goto(p, "validate") /\ UNCHANGED local
    BY <2>1, <2>2, Onward, MovedQuietly
  <2>3. CASE NoLane(p, {"INVALID_INPUT"})
    BY <2>1, <2>3, NoLaneKeepsInv DEF Errors
  <2> QED  BY <1>2, <2>2, <2>3 DEF buildProductionLaneConfiguration
<1>3. CASE validateQualificationLaneRequest(p)
  <2>1. pc[p] \in Before /\ "snapshot" \in Before /\ SameDisk /\ UNCHANGED workspace
    BY <1>3 DEF validateQualificationLaneRequest, At, Before
  <2>2. CASE Goto(p, "snapshot") /\ UNCHANGED local
    BY <2>1, <2>2, Onward, MovedQuietly
  <2>3. CASE LaneError(p, local[p], "INVALID_INPUT")
    BY <2>1, <2>3, BeforeFacts, ErrorMoves, MovedQuietly DEF Plain
  <2> QED  BY <1>3, <2>2, <2>3 DEF validateQualificationLaneRequest
<1>4. CASE sourceFromRepositorySnapshot(p)
  <2>1. pc[p] \in Before /\ "bind" \in Before /\ SameDisk /\ UNCHANGED workspace
    BY <1>4 DEF sourceFromRepositorySnapshot, At, Before
  <2>2. CASE Goto(p, "bind") /\ UNCHANGED local
    BY <2>1, <2>2, Onward, MovedQuietly
  <2>3. ASSUME NEW err \in {"INVALID_INPUT", "ARCHIVE_INVALID", "RECEIPT_INVALID"},
               LaneError(p, local[p], err)
        PROVE  Inv'
    <3>1. err \in Plain
      BY DEF Plain
    <3> QED  BY <2>1, <2>3, <3>1, BeforeFacts, ErrorMoves, MovedQuietly
  <2> QED  BY <1>4, <2>2, <2>3 DEF sourceFromRepositorySnapshot
<1> QED  BY <1>1, <1>2, <1>3, <1>4

\* Someone on the way through the gates goes on.
LEMMA GateTurn ==
    ASSUME Inv, NEW p \in Proc, pc[p] \in {"bind", "gate", "unbind"}, NEW s \in {"gate", "unbind", "receipt"},
           NEW l \in LocalType, Sets(local', local, p, l), Goto(p, s), SameDisk, UNCHANGED workspace,
           l.job = "lane",
           s = "gate" => l.err = "none" /\ l.sound /\ l.ran < Gates /\ PassedUpTo(l, l.ran),
           s = "unbind" => GatesEnded(l),
           s = "receipt" => GatesEnded(l) \/ Refused(l)
    PROVE  Inv'
<1>1. LocalOK(s, l)
  BY DEF LocalOK, Before, Publishing, Judging
<1>2. s \in Steps \ Knowing /\ pc[p] # "returned" /\ ~LateAt(pc[p], local[p])
  BY DEF Steps, Knowing, LateAt, Gone
<1> QED  BY <1>1, <1>2, GoesOn, MovedQuietly

\* The record of a gate that ended the loop.
LEMMA EndingGate ==
    ASSUME NEW l \in LocalType, NEW k \in 1..Gates, NEW record \in GateRecord, NEW err \in Errors,
           l.gates \in [1..Gates -> GateRecord],
           \A i \in 1..Gates : i < k => Passed(l.gates[i]),
           \A i \in 1..Gates : k < i => l.gates[i] = NotRun,
           \/ err = "GATE_BLOCKED" /\ record.status = "BLOCKED" /\ record.exit = "none" /\ record.timed
           \/ /\ err \in {"GATE_FAILED", "CLEANUP_FAILED", "OUTPUT_LIMIT"}
              /\ record.status = "FAIL" /\ record.timed,
           NEW m \in LocalType, m.err = err, m.gates = [l.gates EXCEPT ![k] = record]
    PROVE  GatesEnded(m)
<1>1. m.gates[k] = record /\ \A i \in 1..Gates : i # k => m.gates[i] = l.gates[i]
  OBVIOUS
<1>2. m.gates \in [1..Gates -> GateRecord]
  OBVIOUS
<1>3. EndedAt(m, k)
  BY <1>1, <1>2, GatesAssumption DEF EndedAt
<1> QED  BY <1>3 DEF GatesEnded

LEMMA BindingFailure ==
    \A status \in {"FAIL", "BLOCKED"} :
        /\ markGateBindingFailure(status) \in GateRecord
        /\ markGateBindingFailure(status).status = status
        /\ markGateBindingFailure(status).exit = "none" /\ markGateBindingFailure(status).timed
  BY DEF markGateBindingFailure, GateRecord, Status, Exit

LEMMA BindApplicationsKeepsInv ==
    ASSUME Inv, NEW p \in Proc, BindApplications(p)
    PROVE  Inv'
<1>1. pc[p] = "bind" /\ pc[p] \in Before /\ SameDisk /\ UNCHANGED workspace
  BY DEF BindApplications, At, Before
<1>2. /\ local[p] \in LocalType /\ local[p].job = "lane" /\ local[p].err = "none" /\ local[p].sound
      /\ local[p].ran = 0 /\ PassedUpTo(local[p], 0) /\ 1 \in 1..Gates /\ 0 < Gates
  BY <1>1, BeforeFacts, GatesAssumption
<1>3. CASE Goto(p, "gate") /\ UNCHANGED local
  BY <1>1, <1>2, <1>3, GateTurn DEF Sets
<1>4. CASE /\ Update(p, [local[p] EXCEPT !.gates[1] = markGateBindingFailure("BLOCKED"),
                             !.err = "GATE_BLOCKED", !.sound = FALSE])
           /\ Goto(p, "receipt")
  <2> DEFINE record == markGateBindingFailure("BLOCKED")
             m == [local[p] EXCEPT !.gates[1] = record, !.err = "GATE_BLOCKED", !.sound = FALSE]
  <2>1. record \in GateRecord /\ record.status = "BLOCKED" /\ record.exit = "none" /\ record.timed
    BY BindingFailure
  <2>2. Sets(local', local, p, m)
    BY <1>4 DEF Update, Sets
  <2> HIDE DEF record
  <2>3. /\ m \in LocalType /\ m.job = "lane" /\ m.err = "GATE_BLOCKED"
        /\ m.gates = [local[p].gates EXCEPT ![1] = record]
    <3>1. local[p].gates \in [1..Gates -> GateRecord]
      BY <1>2 DEF PassedUpTo
    <3>2. [local[p].gates EXCEPT ![1] = record] \in [1..Gates -> GateRecord]
      BY <2>1, <3>1
    <3> QED  BY <1>2, <3>2 DEF LocalType, Errors
  <2> HIDE DEF m
  <2>4. GatesEnded(m)
    BY <1>2, <2>1, <2>3, EndingGate, GatesAssumption DEF PassedUpTo, Errors
  <2> QED  BY <1>1, <1>4, <2>2, <2>3, <2>4, GateTurn
<1>5. CASE /\ Update(p, [local[p] EXCEPT !.err = "GATE_NOT_RUN"])
           /\ Goto(p, "receipt")
  <2> DEFINE m == [local[p] EXCEPT !.err = "GATE_NOT_RUN"]
  <2>1. /\ m \in LocalType /\ m.job = "lane" /\ m.err = "GATE_NOT_RUN" /\ m.gates = local[p].gates
        /\ Sets(local', local, p, m)
    BY <1>2, <1>5 DEF LocalType, Errors, Update, Sets
  <2> HIDE DEF m
  <2>2. EndedAt(m, 1)
    BY <1>2, <2>1 DEF EndedAt, PassedUpTo
  <2> QED  BY <1>1, <1>2, <1>5, <2>1, <2>2, GateTurn DEF GatesEnded
<1>6. CASE /\ Update(p, [local[p] EXCEPT !.gates = <<>>, !.err = "INVALID_INPUT"])
           /\ Goto(p, "receipt")
  <2> DEFINE m == [local[p] EXCEPT !.gates = <<>>, !.err = "INVALID_INPUT"]
  <2>1. /\ m \in LocalType /\ m.job = "lane" /\ Refused(m)
        /\ Sets(local', local, p, m)
    BY <1>2, <1>6 DEF LocalType, Errors, Update, Sets, Refused
  <2> HIDE DEF m
  <2> QED  BY <1>1, <1>6, <2>1, GateTurn
<1> QED  BY <1>3, <1>4, <1>5, <1>6 DEF BindApplications

\* The result of a process, logged or not, is judged: it passes only when
\* everything observed was the expected, and every other verdict carries its
\* error.
LEMMA ProcessJudged ==
    ASSUME NEW r \in ProcessResult, NEW cut \in BOOLEAN, NEW logged \in BOOLEAN
    PROVE  LET seen == IF cut THEN [r EXCEPT !.flags = @ \cup {"cancelled", "source-changed"}] ELSE r
               verdict == IF logged THEN evaluateGateResult(seen)
                          ELSE [status |-> "FAIL", exit |-> validGateExitCode(r.exit),
                                err |-> "GATE_FAILED"]
               expected == /\ logged /\ seen.flags = {} /\ seen.exit = "zero"
                           /\ seen.meets /\ ~seen.err
           IN  \/ /\ verdict.status = "PASS" /\ verdict.exit = "zero" /\ verdict.err = "none"
                  /\ expected
               \/ verdict.status = "BLOCKED" /\ verdict.exit = "none" /\ verdict.err = "GATE_BLOCKED"
               \/ /\ verdict.status = "FAIL" /\ verdict.exit \in Exit
                  /\ verdict.err \in {"GATE_FAILED", "CLEANUP_FAILED", "OUTPUT_LIMIT"}
<1> DEFINE seen == IF cut THEN [r EXCEPT !.flags = @ \cup {"cancelled", "source-changed"}] ELSE r
           silent == [status |-> "FAIL", exit |-> validGateExitCode(r.exit), err |-> "GATE_FAILED"]
<1>1. /\ seen.flags \in SUBSET Flag /\ seen.exit \in Exit /\ seen.err \in BOOLEAN
      /\ seen.meets \in BOOLEAN
  BY DEF ProcessResult, Flag
<1>2. silent.status = "FAIL" /\ silent.exit \in Exit /\ silent.err = "GATE_FAILED"
  BY DEF ProcessResult, validGateExitCode, Exit
<1> HIDE DEF seen, silent
<1>3. \/ /\ evaluateGateResult(seen).status = "PASS" /\ evaluateGateResult(seen).exit = "zero"
         /\ evaluateGateResult(seen).err = "none"
         /\ seen.flags = {} /\ seen.exit = "zero" /\ seen.meets /\ ~seen.err
      \/ /\ evaluateGateResult(seen).status = "BLOCKED" /\ evaluateGateResult(seen).exit = "none"
         /\ evaluateGateResult(seen).err = "GATE_BLOCKED"
      \/ /\ evaluateGateResult(seen).status = "FAIL" /\ evaluateGateResult(seen).exit \in Exit
         /\ evaluateGateResult(seen).err \in {"GATE_FAILED", "CLEANUP_FAILED", "OUTPUT_LIMIT"}
  BY <1>1, Judgement
<1> QED  BY <1>2, <1>3 DEF seen, silent

\* A gate process is run and its result judged.
GateRun(p, r, cut, logged) ==
    LET i == local[p].ran + 1
        seen == IF cut THEN [r EXCEPT !.flags = @ \cup {"cancelled", "source-changed"}]
                ELSE r
        verdict == IF logged THEN evaluateGateResult(seen)
                   ELSE [status |-> "FAIL", exit |-> validGateExitCode(r.exit),
                         err |-> "GATE_FAILED"]
        expected == /\ logged /\ seen.flags = {} /\ seen.exit = "zero"
                    /\ seen.meets /\ ~seen.err
    IN  /\ Update(p, [local[p] EXCEPT
               !.cancelled = cut,
               !.gates[i] = [status |-> verdict.status, exit |-> verdict.exit,
                             timed |-> TRUE],
               !.err = verdict.err, !.ran = i, !.sound = @ /\ expected])
        /\ Goto(p, IF verdict.err = "none" /\ i < Gates THEN "gate" ELSE "unbind")

LEMMA runRequiredGatesKeepsInv ==
    ASSUME Inv, NEW p \in Proc, runRequiredGates(p)
    PROVE  Inv'
<1> DEFINE i == local[p].ran + 1
<1>1. pc[p] = "gate" /\ SameDisk /\ UNCHANGED workspace
  BY DEF runRequiredGates, At
<1>2. /\ local[p] \in LocalType /\ local[p].job = "lane" /\ local[p].err = "none" /\ local[p].sound
      /\ local[p].ran < Gates /\ PassedUpTo(local[p], local[p].ran)
  BY <1>1, Here DEF LocalOK
<1>3. /\ local[p].ran \in Nat /\ Gates \in Nat /\ i \in 1..Gates
      /\ local[p].gates \in [1..Gates -> GateRecord]
  BY <1>2, GatesAssumption DEF LocalType, PassedUpTo
<1>4. /\ \A j \in 1..Gates : j < i => Passed(local[p].gates[j])
      /\ \A j \in 1..Gates : i < j => local[p].gates[j] = NotRun
      /\ local[p].gates[i] = NotRun
  BY <1>2, <1>3 DEF PassedUpTo
<1> HIDE DEF i
<1>5. CASE /\ Update(p, [local[p] EXCEPT !.err = "GATE_NOT_RUN"]) /\ Goto(p, "unbind")
  <2> DEFINE m == [local[p] EXCEPT !.err = "GATE_NOT_RUN"]
  <2>1. /\ m \in LocalType /\ m.job = "lane" /\ m.err = "GATE_NOT_RUN" /\ m.gates = local[p].gates
        /\ Sets(local', local, p, m)
    BY <1>2, <1>5 DEF LocalType, Errors, Update, Sets
  <2> HIDE DEF m
  <2>2. EndedAt(m, i)
    BY <1>3, <1>4, <2>1 DEF EndedAt
  <2> QED  BY <1>1, <1>3, <1>5, <2>1, <2>2, GateTurn DEF GatesEnded
<1>6. CASE /\ Update(p, [local[p] EXCEPT !.gates[i] = markGateBindingFailure("FAIL"),
                             !.err = "GATE_FAILED", !.sound = FALSE])
           /\ Goto(p, "unbind")
  <2> DEFINE record == markGateBindingFailure("FAIL")
             m == [local[p] EXCEPT !.gates[i] = record, !.err = "GATE_FAILED", !.sound = FALSE]
  <2>1. record \in GateRecord /\ record.status = "FAIL" /\ record.exit = "none" /\ record.timed
    BY BindingFailure
  <2>2. Sets(local', local, p, m)
    BY <1>6 DEF Update, Sets
  <2> HIDE DEF record
  <2>3. /\ m \in LocalType /\ m.job = "lane" /\ m.err = "GATE_FAILED"
        /\ m.gates = [local[p].gates EXCEPT ![i] = record]
    BY <1>2, <1>3, <2>1 DEF LocalType, Errors
  <2> HIDE DEF m
  <2>4. GatesEnded(m)
    BY <1>2, <1>3, <1>4, <2>1, <2>3, EndingGate DEF Errors
  <2> QED  BY <1>1, <1>6, <2>2, <2>3, <2>4, GateTurn
<1>7. ASSUME NEW r \in Results, NEW cut \in BOOLEAN, NEW logged \in BOOLEAN,
             GateRun(p, r, cut, logged)
      PROVE  Inv'
  <2> DEFINE seen == IF cut THEN [r EXCEPT !.flags = @ \cup {"cancelled", "source-changed"}] ELSE r
             verdict == IF logged THEN evaluateGateResult(seen)
                        ELSE [status |-> "FAIL", exit |-> validGateExitCode(r.exit),
                              err |-> "GATE_FAILED"]
             expected == /\ logged /\ seen.flags = {} /\ seen.exit = "zero"
                         /\ seen.meets /\ ~seen.err
             record == [status |-> verdict.status, exit |-> verdict.exit, timed |-> TRUE]
             m == [local[p] EXCEPT !.cancelled = cut, !.gates[i] = record,
                       !.err = verdict.err, !.ran = i, !.sound = @ /\ expected]
             s == IF verdict.err = "none" /\ i < Gates THEN "gate" ELSE "unbind"
  <2>1. \/ /\ verdict.status = "PASS" /\ verdict.exit = "zero" /\ verdict.err = "none"
           /\ expected
        \/ verdict.status = "BLOCKED" /\ verdict.exit = "none" /\ verdict.err = "GATE_BLOCKED"
        \/ /\ verdict.status = "FAIL" /\ verdict.exit \in Exit
           /\ verdict.err \in {"GATE_FAILED", "CLEANUP_FAILED", "OUTPUT_LIMIT"}
    BY ProcessJudged, ResultsAssumption
  <2>2. Sets(local', local, p, m) /\ Goto(p, s)
    BY <1>7 DEF GateRun, Update, Sets, i
  <2>3. expected \in BOOLEAN
    OBVIOUS
  <2> HIDE DEF verdict, expected
  <2>4. /\ record \in GateRecord /\ record.status = verdict.status /\ record.exit = verdict.exit
        /\ record.timed
    BY <2>1 DEF GateRecord, Status, Exit
  <2>5. verdict.err \in Errors
    BY <2>1 DEF Errors
  <2> HIDE DEF record
  <2>6. /\ m \in LocalType /\ m.job = "lane" /\ m.err = verdict.err /\ m.ran = i
        /\ m.sound = (local[p].sound /\ expected)
        /\ m.gates = [local[p].gates EXCEPT ![i] = record]
    <3>1. [local[p].gates EXCEPT ![i] = record] \in [1..Gates -> GateRecord]
      BY <1>3, <2>4
    <3>2. (local[p].sound /\ expected) \in BOOLEAN /\ i \in 0..Gates
      BY <1>3
    <3> QED  BY <1>2, <2>3, <2>5, <3>1, <3>2 DEF LocalType
  <2> HIDE DEF m
  <2>7. CASE verdict.err # "none"
    <3>1. GatesEnded(m)
      BY <1>2, <1>3, <1>4, <2>1, <2>4, <2>5, <2>6, <2>7, EndingGate
    <3>2. s = "unbind"
      BY <2>7
    <3> HIDE DEF s
    <3> QED  BY <1>1, <2>2, <2>6, <3>1, <3>2, GateTurn
  <2>8. CASE verdict.err = "none"
    <3>1. m.sound /\ Passed(record)
      BY <1>2, <2>1, <2>4, <2>6, <2>8 DEF Passed
    <3>2. PassedUpTo(m, i)
      <4>1. m.gates[i] = record /\ \A j \in 1..Gates : j # i => m.gates[j] = local[p].gates[j]
        BY <1>3, <2>6
      <4>2. m.gates \in [1..Gates -> GateRecord]
        BY <1>3, <2>4, <2>6
      <4> QED  BY <1>3, <1>4, <3>1, <4>1, <4>2 DEF PassedUpTo
    <3>3. CASE i < Gates
      <4>1. s = "gate"
        BY <2>8, <3>3
      <4> HIDE DEF s
      <4> QED  BY <1>1, <2>2, <2>6, <2>8, <3>1, <3>2, <3>3, <4>1, GateTurn
    <3>4. CASE ~(i < Gates)
      <4>1. s = "unbind" /\ i = Gates
        BY <1>3, <3>4
      <4>2. GatesEnded(m)
        BY <2>6, <2>8, <3>1, <3>2, <4>1 DEF GatesEnded
      <4> HIDE DEF s
      <4> QED  BY <1>1, <2>2, <2>6, <4>1, <4>2, GateTurn
    <3> QED  BY <3>3, <3>4
  <2> QED  BY <2>7, <2>8
<1>8. \/ Update(p, [local[p] EXCEPT !.err = "GATE_NOT_RUN"]) /\ Goto(p, "unbind")
      \/ /\ Update(p, [local[p] EXCEPT !.gates[i] = markGateBindingFailure("FAIL"),
                           !.err = "GATE_FAILED", !.sound = FALSE])
         /\ Goto(p, "unbind")
      \/ \E r \in Results, cut \in BOOLEAN, logged \in BOOLEAN : GateRun(p, r, cut, logged)
  BY Zenon DEF runRequiredGates, GateRun, i
<1> QED  BY <1>5, <1>6, <1>7, <1>8

\* A cleanup failure goes to the last gate that was started.
LEMMA CleanupFailureEnds ==
    ASSUME NEW l \in LocalType, GatesEnded(l), NEW m \in LocalType, m.err = "CLEANUP_FAILED",
           m.gates = markLastEvaluatedGateCleanupFailure(l.gates)
    PROVE  GatesEnded(m)
<1> DEFINE g == l.gates
           T == {i \in DOMAIN g : g[i].timed} \cup {1}
           k == Max(T)
           record == markGateBindingFailure("FAIL")
<1>1. g \in [1..Gates -> GateRecord] /\ DOMAIN g = 1..Gates /\ Gates \in Nat /\ 1 \in 1..Gates
  BY GatesAssumption DEF GatesEnded, PassedUpTo, EndedAt
<1>2. T \subseteq 1..Gates /\ T # {}
  BY <1>1
<1>3. m.gates = [g EXCEPT ![k] = record]
  BY DEF markLastEvaluatedGateCleanupFailure
<1>4. record \in GateRecord /\ record.status = "FAIL" /\ record.timed
  BY BindingFailure
<1> HIDE DEF record
<1>5. k \in T /\ \A y \in T : y <= k
  <2> HIDE DEF T
  <2> QED  BY <1>1, <1>2, GreatestOf
<1> HIDE DEF k
<1>6. k \in 1..Gates /\ (k = 1 \/ g[k].timed) /\ \A i \in 1..Gates : k < i => ~g[i].timed
  <2>1. k \in 1..Gates /\ (k = 1 \/ g[k].timed)
    BY <1>2, <1>5
  <2>2. ASSUME NEW i \in 1..Gates, k < i, g[i].timed  PROVE FALSE
    <3>1. i \in T
      BY <1>1, <2>2
    <3> QED  BY <1>5, <2>1, <2>2, <3>1
  <2> QED  BY <2>1, <2>2
<1>7. NotRun.timed = FALSE
  BY DEF NotRun
<1> HIDE DEF g, T
<1>8. /\ \A i \in 1..Gates : i < k => Passed(g[i])
      /\ \A i \in 1..Gates : k < i => g[i] = NotRun
  <2>1. CASE PassedUpTo(l, Gates)
    BY <1>1, <1>6, <2>1 DEF PassedUpTo, Passed, g
  <2>2. ASSUME NEW j \in 1..Gates, EndedAt(l, j)
        PROVE  <1>8
    <3>1. /\ \A i \in 1..Gates : i < j => Passed(g[i])
          /\ \A i \in 1..Gates : j < i => g[i] = NotRun
          /\ g[j] = NotRun \/ g[j].timed
      BY <2>2 DEF EndedAt, g
    <3>2. \A i \in 1..Gates : k < i => g[i] = NotRun
      BY <1>1, <1>6, <3>1 DEF Passed
    <3>3. \A i \in 1..Gates : i < k => Passed(g[i])
      BY <1>1, <1>6, <1>7, <3>1
    <3> QED  BY <3>2, <3>3
  <2> QED  BY <2>1, <2>2 DEF GatesEnded
<1> QED  BY <1>1, <1>3, <1>4, <1>6, <1>8, EndingGate DEF Errors, g

LEMMA releaseBindingKeepsInv ==
    ASSUME Inv, NEW p \in Proc, releaseBinding(p)
    PROVE  Inv'
<1>1. pc[p] = "unbind" /\ SameDisk /\ UNCHANGED workspace /\ Goto(p, "receipt")
  BY DEF releaseBinding, At
<1>2. local[p] \in LocalType /\ local[p].job = "lane" /\ GatesEnded(local[p])
  BY <1>1, Here DEF LocalOK
<1>3. CASE UNCHANGED local
  BY <1>1, <1>2, <1>3, GateTurn DEF Sets
<1>4. CASE Update(p, [local[p] EXCEPT !.gates = markLastEvaluatedGateCleanupFailure(@),
                          !.err = "CLEANUP_FAILED", !.sound = FALSE])
  <2> DEFINE g == markLastEvaluatedGateCleanupFailure(local[p].gates)
             m == [local[p] EXCEPT !.gates = g, !.err = "CLEANUP_FAILED", !.sound = FALSE]
  <2>1. Sets(local', local, p, m)
    BY <1>4 DEF Update, Sets
  <2>2. g \in [1..Gates -> GateRecord]
    <3>1. local[p].gates \in [1..Gates -> GateRecord] /\ markGateBindingFailure("FAIL") \in GateRecord
      BY <1>2, BindingFailure DEF GatesEnded, PassedUpTo, EndedAt
    <3> QED  BY <3>1 DEF markLastEvaluatedGateCleanupFailure
  <2> HIDE DEF g
  <2>3. m \in LocalType /\ m.job = "lane" /\ m.err = "CLEANUP_FAILED" /\ m.gates = g
    BY <1>2, <2>2 DEF LocalType, Errors
  <2> HIDE DEF m
  <2>4. GatesEnded(m)
    BY <1>2, <2>3, CleanupFailureEnds DEF g
  <2> QED  BY <1>1, <2>1, <2>3, <2>4, GateTurn
<1> QED  BY <1>3, <1>4 DEF releaseBinding

-----------------------------------------------------------------------------
(* The receipt. *)

\* Whatever way the gates ended, the validator accepts their records, the
\* error decides the aggregate, and only a sound run aggregates to PASS.
LEMMA EndedGatesAreValid ==
    ASSUME NEW l \in LocalType, GatesEnded(l)
    PROVE  LET status == AggregateQualificationStatus(l.gates)
           IN  /\ ReceiptIsValid(l)
               /\ status \in Status
               /\ l.err = "none" => status = "PASS" /\ l.sound /\ l.ran = Gates
               /\ l.err # "none" =>
                      /\ status # "PASS"
                      /\ status = attemptTombstoneStatusForCode(qualificationLaneErrorCode(l.err, status))
<1> DEFINE g == l.gates
           status == AggregateQualificationStatus(g)
<1>1. g \in [1..Gates -> GateRecord] /\ DOMAIN g = 1..Gates /\ Gates \in Nat /\ 1 \in 1..Gates
  BY GatesAssumption DEF GatesEnded, PassedUpTo, EndedAt
<1>2. NotRun.status = "NOT_RUN" /\ NotRun.exit = "none" /\ NotRun.timed = FALSE
  BY DEF NotRun
<1>3. /\ validateReceiptGateOutcome(NotRun)
      /\ \A x : Passed(x) => validateReceiptGateOutcome(x)
  BY <1>2 DEF validateReceiptGateOutcome, Passed
<1>4. \A S : (\E i \in 1..Gates : g[i].status = S) <=> S \in Statuses(g)
  BY <1>1 DEF Statuses
<1>5. ReceiptIsValid(l) <=> ((status = "PASS") <=> (l.err = "none")) /\ validateReceiptGates(g)
  BY <1>1 DEF ReceiptIsValid, qualificationLaneGateStatus
<1> HIDE DEF g
<1>6. CASE l.err = "none" /\ l.sound /\ l.ran = Gates /\ PassedUpTo(l, Gates)
  <2>1. \A i \in 1..Gates : Passed(g[i])
    BY <1>1, <1>6 DEF PassedUpTo, g
  <2>2. status = "PASS"
    BY <1>4, <2>1 DEF AggregateQualificationStatus, Passed
  <2>3. validateReceiptGates(g)
    BY <1>1, <1>3, <2>1 DEF validateReceiptGates, Passed
  <2> QED  BY <1>5, <1>6, <2>2, <2>3 DEF g, Status
<1>7. ASSUME NEW k \in 1..Gates, EndedAt(l, k)
      PROVE  /\ l.err # "none" /\ status \in Status /\ status # "PASS"
             /\ status = attemptTombstoneStatusForCode(qualificationLaneErrorCode(l.err, status))
             /\ validateReceiptGates(g)
  <2>1. /\ \A i \in 1..Gates : i < k => Passed(g[i])
        /\ \A i \in 1..Gates : k < i => g[i] = NotRun
        /\ \/ l.err = "GATE_NOT_RUN" /\ g[k] = NotRun
           \/ /\ l.err = "GATE_BLOCKED"
              /\ g[k].status = "BLOCKED" /\ g[k].exit = "none" /\ g[k].timed
           \/ /\ l.err \in {"GATE_FAILED", "CLEANUP_FAILED", "OUTPUT_LIMIT"}
              /\ g[k].status = "FAIL" /\ g[k].timed
    BY <1>7 DEF EndedAt, g
  <2>2. \A i \in 1..Gates : i = k \/ g[i].status \in {"PASS", "NOT_RUN"}
    BY <1>1, <1>2, <2>1 DEF Passed
  <2>3. validateReceiptGateOutcome(g[k])
    BY <1>3, <2>1 DEF validateReceiptGateOutcome
  <2>4. \A i \in 1..Gates : validateReceiptGateOutcome(g[i])
    BY <1>1, <1>3, <2>1, <2>3
  <2>5. \A i, j \in 1..Gates :
           i < j /\ g[i].status \in {"FAIL", "BLOCKED"} => g[j].status = "NOT_RUN"
    BY <1>1, <1>2, <2>1, <2>2
  <2>6. validateReceiptGates(g)
    BY <1>1, <2>4, <2>5 DEF validateReceiptGates
  <2>7. g[k].status \in Statuses(g)
    BY <1>4
  <2>8. \A S \in {"FAIL", "BLOCKED"} : S \in Statuses(g) => S = g[k].status
    BY <1>4, <2>2
  <2>9. status = g[k].status /\ status \in {"FAIL", "BLOCKED", "NOT_RUN"}
    BY <1>2, <2>1, <2>7, <2>8 DEF AggregateQualificationStatus
  <2> HIDE DEF status
  <2>10. status = attemptTombstoneStatusForCode(qualificationLaneErrorCode(l.err, status))
    BY <1>2, <2>1, <2>9 DEF attemptTombstoneStatusForCode, qualificationLaneErrorCode
  <2>11. l.err # "none"
    BY <2>1
  <2> QED  BY <2>6, <2>9, <2>10, <2>11 DEF Status
<1>8. CASE \E k \in 1..Gates : EndedAt(l, k)
  <2>1. PICK k \in 1..Gates : EndedAt(l, k)
    BY <1>8
  <2>2. /\ l.err # "none" /\ status \in Status /\ status # "PASS"
        /\ status = attemptTombstoneStatusForCode(qualificationLaneErrorCode(l.err, status))
        /\ validateReceiptGates(g)
    BY <1>7, <2>1
  <2> QED  BY <1>5, <2>2 DEF g
<1> QED  BY <1>6, <1>8 DEF GatesEnded

\* No records are not a record of every gate.
LEMMA NoneIsNotValid ==
    ASSUME NEW l, Refused(l)
    PROVE  ~ReceiptIsValid(l)
<1>1. DOMAIN <<>> = {} /\ 1 \in 1..Gates
  BY GatesAssumption
<1>2. l.gates = <<>> /\ DOMAIN l.gates # 1..Gates
  BY <1>1 DEF Refused
<1> QED  BY <1>2 DEF ReceiptIsValid, qualificationLaneGateStatus

LEMMA marshalCanonicalReceiptKeepsInv ==
    ASSUME Inv, NEW p \in Proc, marshalCanonicalReceipt(p)
    PROVE  Inv'
<1> DEFINE l == local[p]
           d == GatesDone(l)
<1>1. pc[p] = "receipt" /\ SameDisk /\ UNCHANGED workspace
  BY DEF marshalCanonicalReceipt, At
<1>2. /\ l \in LocalType /\ l.job = "lane" /\ (GatesEnded(l) \/ Refused(l))
      /\ pc[p] # "returned" /\ ~LateAt(pc[p], l)
  BY <1>1, Here DEF LocalOK, LateAt, Gone
<1>3. /\ d \in LocalType /\ d.job = "lane" /\ d.err = l.err
      /\ d.sound = (l.sound /\ l.ran = Gates)
  <2>1. Locals.gates \in [1..Gates -> GateRecord] \cup {<<>>} /\ 0 \in 0..Gates
    BY LocalsFacts, GatesAssumption DEF LocalType
  <2>2. (l.sound /\ l.ran = Gates) \in BOOLEAN
    OBVIOUS
  <2> QED  BY <1>2, <2>1, <2>2 DEF GatesDone, LocalType
<1> HIDE DEF d
<1>4. CASE /\ ReceiptIsValid(l) /\ Goto(p, "staging")
           /\ Update(p, [d EXCEPT !.status = AggregateQualificationStatus(l.gates)])
  <2> DEFINE status == AggregateQualificationStatus(l.gates)
             m == [d EXCEPT !.status = status]
  <2>1. /\ status \in Status
        /\ l.err = "none" => status = "PASS" /\ l.sound /\ l.ran = Gates
        /\ l.err # "none" =>
               /\ status # "PASS"
               /\ status = attemptTombstoneStatusForCode(qualificationLaneErrorCode(l.err, status))
    <3>1. ~Refused(l)
      BY <1>4, NoneIsNotValid
    <3> QED  BY <1>2, <3>1, EndedGatesAreValid
  <2>2. Sets(local', local, p, m)
    BY <1>4 DEF Update, Sets
  <2> HIDE DEF status
  <2>3. /\ m \in LocalType /\ m.job = "lane" /\ m.err = l.err /\ m.status = status
        /\ m.sound = (l.sound /\ l.ran = Gates)
    BY <1>3, <2>1 DEF LocalType
  <2> HIDE DEF m
  <2>4. Decided(m) /\ (m.status = "PASS" => m.sound)
    BY <2>1, <2>3 DEF Decided
  <2>5. LocalOK("staging", m)
    BY <2>3, <2>4 DEF LocalOK, Before, Publishing, Judging
  <2>6. "staging" \in Steps \ Knowing
    BY DEF Steps, Publishing, Knowing
  <2> QED  BY <1>1, <1>2, <1>4, <2>2, <2>3, <2>5, <2>6, GoesOn, MovedQuietly
<1>5. CASE LaneError(p, d, "RECEIPT_INVALID")
  BY <1>1, <1>2, <1>3, <1>5, ErrorMoves, MovedQuietly DEF Plain
<1> QED  BY <1>4, <1>5 DEF marshalCanonicalReceipt, d

-----------------------------------------------------------------------------
(* What is written. *)

\* The name n now holds c and no other name changed.
Becomes(n, c) ==
    /\ disk' \in [Name -> Content] /\ disk'[n] = c
    /\ \A m \in Name : m # n => disk'[m] = disk[m]
    /\ survivors' \subseteq survivors \cup {disk'[Output]} /\ disk'[Output] \in survivors'

LEMMA PutOne ==
    ASSUME Types, NEW n \in Name, NEW c \in Content, Put(One(n, c))
    PROVE  Becomes(n, c)
<1>1. \A m \in Name : disk'[m] = IF m = n THEN c ELSE disk[m]
  BY DEF Put, One
<1>2. disk' \in [Name -> Content]
  BY <1>1 DEF Put, One, Types
<1> QED  BY <1>1, <1>2 DEF Put, Becomes

LEMMA RemoveOne ==
    ASSUME Types, NEW n \in Name, disk' = [disk EXCEPT ![n] = Absent], syncPackageDirectory
    PROVE  Becomes(n, Absent)
<1>1. Absent \in Content
  BY DEF Content
<1>2. disk' \in [Name -> Content] /\ disk'[n] = Absent /\ \A m \in Name : m # n => disk'[m] = disk[m]
  BY <1>1 DEF Types
<1> QED  BY <1>2 DEF syncPackageDirectory, Becomes

\* A producer changes one of its own names: the output does not change.
LEMMA OwnName ==
    ASSUME Inv, NEW p \in Proc, NEW k \in Kinds, NEW c \in Content, c = Absent \/ c.owner = p,
           (k = "stage" /\ c # Absent) => c.kind = "lane", Becomes(<<k, p>>, c)
    PROVE  /\ Writes(p) /\ disk'[Output] = disk[Output] /\ disk'[Output] \in survivors
           /\ disk'[<<k, p>>] = c
           /\ \A j \in Kinds : j # k => disk'[<<j, p>>] = disk[<<j, p>>]
<1>1. Types /\ NamesOK(disk, p)
  BY Here
<1>2. <<k, p>> \in Name /\ <<k, p>> # Output /\ Output \in Name
  BY NameFacts
<1>3. /\ disk' \in [Name -> Content] /\ disk'[<<k, p>>] = c
      /\ \A m \in Name : m # <<k, p>> => disk'[m] = disk[m]
      /\ survivors' \subseteq survivors \cup {disk'[Output]} /\ disk'[Output] \in survivors'
  BY DEF Becomes
<1>4. disk'[Output] = disk[Output] /\ disk[Output] \in survivors
  BY <1>1, <1>2, <1>3 DEF Types
<1>5. \A j \in Kinds, q \in Proc : (j # k \/ q # p) => disk'[<<j, q>>] = disk[<<j, q>>]
  BY <1>3, NameFacts
<1>6. NamesOK(disk', p)
  BY <1>1, <1>3, <1>5 DEF NamesOK, Kinds
<1> QED  BY <1>3, <1>4, <1>5, <1>6 DEF Writes

\* A producer changes the output.
LEMMA OutputName ==
    ASSUME Inv, NEW p \in Proc, NEW c, Becomes(Output, c)
    PROVE  Writes(p) /\ disk'[Output] = c
<1>1. Types /\ NamesOK(disk, p)
  BY Here
<1>2. \A j \in Kinds, q \in Proc : disk'[<<j, q>>] = disk[<<j, q>>]
  BY NameFacts DEF Becomes
<1>3. NamesOK(disk', p)
  BY <1>1, <1>2 DEF NamesOK, Kinds
<1> QED  BY <1>2, <1>3 DEF Writes, Becomes

\* A directory of p goes from one of its names to another or to the output.
LEMMA RenameFacts ==
    ASSUME Inv, NEW p \in Proc, NEW k \in Kinds, NEW to \in Name, to # <<k, p>>,
           to = Output \/ (to = <<"stage", p>> /\ disk[<<k, p>>] # Absent /\ disk[<<k, p>>].kind = "lane"),
           Rename(<<k, p>>, to)
    PROVE  Writes(p) /\ disk'[to] = disk[<<k, p>>] /\ (to # Output => disk'[Output] = disk[Output])
<1>1. Types /\ NamesOK(disk, p)
  BY Here
<1>2. <<k, p>> \in Name /\ <<k, p>> # Output /\ Output \in Name /\ Absent \in Content
  BY NameFacts DEF Content
<1>3. /\ \A n \in Name : disk'[n] = IF n = to THEN disk[<<k, p>>]
                                    ELSE IF n = <<k, p>> THEN Absent ELSE disk[n]
      /\ survivors' = survivors \cup {disk'[Output]}
  BY DEF Rename, Put
<1>4. disk' \in [Name -> Content]
  <2>1. disk[<<k, p>>] \in Content /\ \A n \in Name : disk[n] \in Content
    BY <1>1, <1>2 DEF Types
  <2> QED  BY <1>2, <1>3, <2>1 DEF Rename, Put
<1>5. \A j \in Kinds, q \in Proc \ {p} : disk'[<<j, q>>] = disk[<<j, q>>]
  BY <1>3, NameFacts DEF Kinds
<1>6. NamesOK(disk', p)
  <2>1. \A j \in Kinds : \/ disk'[<<j, p>>] = disk[<<k, p>>] /\ <<j, p>> = to
                         \/ disk'[<<j, p>>] = Absent
                         \/ disk'[<<j, p>>] = disk[<<j, p>>]
    BY <1>3, NameFacts
  <2>2. \A j \in Kinds : disk'[<<j, p>>] = Absent \/ disk'[<<j, p>>].owner = p
    BY <1>1, <2>1 DEF NamesOK
  <2>3. disk'[<<"stage", p>>] = Absent \/ disk'[<<"stage", p>>].kind = "lane"
    BY <1>1, <2>1, NameFacts DEF NamesOK, Kinds
  <2> QED  BY <2>2, <2>3 DEF NamesOK
<1> QED  BY <1>2, <1>3, <1>4, <1>5, <1>6 DEF Writes

-----------------------------------------------------------------------------
(* Publication. *)

LEMMA PublishingFacts ==
    ASSUME Inv, NEW p \in Proc, pc[p] \in Publishing
    PROVE  /\ local[p] \in LocalType /\ local[p].job \in {"lane", "tombstone"}
           /\ local[p].job \in Kinds /\ local[p].job # "stage"
           /\ Staging(p) = <<local[p].job, p>> /\ Staging(p) \in Name
           /\ pc[p] # "returned" /\ ~LateAt(pc[p], local[p])
           /\ \A s \in Publishing \ {"unstage"} : LocalOK(s, local[p])
           /\ Artifact(p, TRUE) = ArtifactOf(p, local[p])
           /\ \A b \in BOOLEAN : /\ Artifact(p, b) \in Content /\ Artifact(p, b) # Absent
                                 /\ Artifact(p, b).owner = p /\ Artifact(p, b).whole = b
                                 /\ Artifact(p, b).kind = local[p].job
<1> DEFINE l == local[p]
<1>1. l \in LocalType /\ LocalOK(pc[p], l)
  BY Here
<1>2. l.job \in {"lane", "tombstone"}
  BY <1>1 DEF LocalOK
<1>3. pc[p] # "returned" /\ ~LateAt(pc[p], l)
  BY DEF Publishing, LateAt, Gone
<1>4. \A s \in Publishing \ {"unstage"} : LocalOK(s, l)
  BY <1>1 DEF LocalOK, Before, Publishing, Judging
<1>5. Artifact(p, TRUE) = ArtifactOf(p, l)
  BY DEF Artifact, ArtifactOf
<1>6. ASSUME NEW b \in BOOLEAN
      PROVE  /\ Artifact(p, b) \in Content /\ Artifact(p, b) # Absent
             /\ Artifact(p, b).owner = p /\ Artifact(p, b).whole = b
             /\ Artifact(p, b).kind = l.job
  <2> DEFINE st == IF l.job = "lane" THEN l.status ELSE attemptTombstoneStatusForCode(l.code)
             a == [kind |-> l.job, owner |-> p, status |-> st, whole |-> b]
  <2>1. st \in Status
    BY <1>1, TombstoneStatus DEF LocalType, Status
  <2>2. Artifact(p, b) = a
    BY DEF Artifact, Package
  <2> HIDE DEF st
  <2>3. a \in Content /\ a.kind = l.job /\ a.owner = p /\ a.whole = b
    BY <1>2, <2>1 DEF Content
  <2>4. Absent.kind = "absent"
    BY DEF Absent
  <2> QED  BY <1>2, <2>2, <2>3, <2>4
<1>7. l.job \in Kinds /\ Staging(p) = <<l.job, p>>
  BY <1>2 DEF Staging, Kinds
<1>8. Staging(p) \in Name
  BY <1>7, NameFacts
<1> QED  BY <1>1, <1>2, <1>3, <1>4, <1>5, <1>6, <1>7, <1>8

\* A step of a publication fails and what was made is taken back.
LEMMA FailMoves ==
    ASSUME Inv, NEW p \in Proc, pc[p] \in Publishing \cup {"verify"}, NEW s \in {"unstage", "retract"},
           s = "unstage" => pc[p] \in Publishing, NEW err \in Plain, Fail(p, s, err), UNCHANGED workspace
    PROVE  Moves(p)
<1> DEFINE m == [local[p] EXCEPT !.then = err]
<1>1. local[p] \in LocalType /\ LocalOK(pc[p], local[p])
  BY Here
<1>2. local[p].job \in {"lane", "tombstone"}
  BY <1>1 DEF LocalOK, Judging
<1>3. /\ m \in LocalType /\ m.then = err /\ m.job = local[p].job /\ m.err = local[p].err
      /\ m.status = local[p].status /\ m.sound = local[p].sound
  BY <1>1 DEF LocalType
<1>4. Sets(local', local, p, m) /\ Goto(p, s)
  BY DEF Fail, Update, Sets
<1> HIDE DEF m
<1>5. LocalOK(s, m)
  BY <1>1, <1>2, <1>3 DEF LocalOK, Before, Publishing, Judging, Decided
<1>6. s \in Steps \ Knowing /\ pc[p] # "returned" /\ ~LateAt(pc[p], local[p])
  BY DEF Steps, Publishing, Knowing, LateAt, Gone
<1> QED  BY <1>3, <1>4, <1>5, <1>6, GoesOn

LEMMA createPrivateQualificationStagingKeepsInv ==
    ASSUME Inv, NEW p \in Proc, createPrivateQualificationStaging(p)
    PROVE  Inv'
<1>1. pc[p] = "staging" /\ pc[p] \in Publishing /\ UNCHANGED workspace /\ Types
  BY Here DEF createPrivateQualificationStaging, At, Publishing
<1>2. /\ local[p] \in LocalType /\ local[p].job \in Kinds /\ local[p].job # "stage"
      /\ Staging(p) = <<local[p].job, p>> /\ Staging(p) \in Name
      /\ pc[p] # "returned" /\ ~LateAt(pc[p], local[p])
      /\ LocalOK("fill", local[p])
      /\ Artifact(p, FALSE) \in Content /\ Artifact(p, FALSE).owner = p
  BY <1>1, PublishingFacts DEF Publishing
<1>3. CASE Put(One(Staging(p), Artifact(p, FALSE))) /\ Goto(p, "fill") /\ UNCHANGED local
  <2>1. Becomes(Staging(p), Artifact(p, FALSE))
    BY <1>1, <1>2, <1>3, PutOne
  <2>2. Writes(p) /\ disk'[Output] = disk[Output] /\ disk'[Output] \in survivors
    BY <1>2, <2>1, OwnName
  <2>3. "fill" \in Steps \ Knowing /\ Sets(local', local, p, local[p])
    BY <1>3 DEF Steps, Publishing, Knowing, Sets
  <2>4. Moves(p)
    BY <1>1, <1>2, <1>3, <2>3, GoesOn
  <2> QED  BY <2>2, <2>4, MovedWriting
<1>4. CASE /\ PublicationFailed(p, Refusal(p))
           /\ SameDisk \/ Put(One(Staging(p), Package(p, "empty", "FAIL", FALSE)))
  <2>1. Refusal(p) \in Plain
    BY DEF Refusal, Plain
  <2>2. Moves(p)
    BY <1>1, <1>2, <1>4, <2>1, FailedMoves
  <2>3. CASE SameDisk
    BY <2>2, <2>3, MovedQuietly
  <2>4. CASE Put(One(Staging(p), Package(p, "empty", "FAIL", FALSE)))
    <3> DEFINE c == Package(p, "empty", "FAIL", FALSE)
    <3>1. c \in Content /\ c.owner = p
      BY DEF Package, Content, Status
    <3> HIDE DEF c
    <3>2. Becomes(Staging(p), c)
      BY <1>1, <1>2, <2>4, <3>1, PutOne DEF c
    <3>3. Writes(p) /\ disk'[Output] = disk[Output] /\ disk'[Output] \in survivors
      BY <1>2, <3>1, <3>2, OwnName
    <3> QED  BY <2>2, <3>3, MovedWriting
  <2> QED  BY <1>4, <2>3, <2>4
<1> QED  BY <1>3, <1>4 DEF createPrivateQualificationStaging

LEMMA writePrivatePackageFilesKeepsInv ==
    ASSUME Inv, NEW p \in Proc, writePrivatePackageFiles(p)
    PROVE  Inv'
<1>1. pc[p] = "fill" /\ pc[p] \in Publishing /\ UNCHANGED workspace /\ Types
  BY Here DEF writePrivatePackageFiles, At, Publishing
<1>2. CASE Put(One(Staging(p), Artifact(p, TRUE))) /\ Goto(p, "rename") /\ UNCHANGED local
  <2>1. /\ local[p] \in LocalType /\ local[p].job \in Kinds /\ local[p].job # "stage"
        /\ Staging(p) = <<local[p].job, p>> /\ Staging(p) \in Name
        /\ pc[p] # "returned" /\ ~LateAt(pc[p], local[p]) /\ LocalOK("rename", local[p])
        /\ Artifact(p, TRUE) \in Content /\ Artifact(p, TRUE).owner = p
        /\ Artifact(p, TRUE) = ArtifactOf(p, local[p])
    BY <1>1, PublishingFacts DEF Publishing
  <2>2. Becomes(Staging(p), Artifact(p, TRUE)) /\ Becomes(<<local[p].job, p>>, Artifact(p, TRUE))
    BY <1>1, <1>2, <2>1, PutOne
  <2>3. /\ Writes(p) /\ disk'[Output] = disk[Output] /\ disk'[Output] \in survivors
        /\ disk'[<<local[p].job, p>>] = ArtifactOf(p, local[p])
    BY <2>1, <2>2, OwnName
  <2>4. Turn(p, "rename", local[p], workspace[p], NoResult)
    <3>1. "rename" \in Steps /\ Sets(local', local, p, local[p])
      BY <1>2 DEF Steps, Publishing, Sets
    <3> QED  BY <1>1, <1>2, <2>1, <3>1, GoesOn
  <2>5. Reached(disk', p, "rename", local[p], workspace[p])
    BY <2>3 DEF Reached
  <2>6. Told(disk', survivors', p, "rename", NoResult)
    BY DEF Told
  <2> QED  BY <2>3, <2>4, <2>5, <2>6, TurnKeepsInv
<1>3. CASE SameDisk /\ Fail(p, "unstage", "INVALID_INPUT")
  BY <1>1, <1>3, FailMoves, MovedQuietly DEF Plain
<1> QED  BY <1>2, <1>3 DEF writePrivatePackageFiles

\* A tombstone at the output is not a passing lane.
LEMMA publishPackageDirectoryNoReplaceKeepsInv ==
    ASSUME Inv, NEW p \in Proc, publishPackageDirectoryNoReplace(p)
    PROVE  Inv'
<1>1. pc[p] = "rename" /\ pc[p] \in Publishing /\ UNCHANGED workspace
  BY DEF publishPackageDirectoryNoReplace, At, Publishing
<1>2. CASE MayRename(Target(p)) /\ Rename(Staging(p), Target(p)) /\ Goto(p, "release") /\ UNCHANGED local
  <2> DEFINE l == local[p]
             a == Artifact(p, TRUE)
  <2>1. /\ l \in LocalType /\ l.job \in {"lane", "tombstone"} /\ l.job \in Kinds /\ l.job # "stage"
        /\ Staging(p) = <<l.job, p>>
        /\ pc[p] # "returned" /\ ~LateAt(pc[p], l) /\ LocalOK("release", l)
        /\ a = ArtifactOf(p, l) /\ a # Absent /\ a.owner = p /\ a.kind = l.job
    BY <1>1, PublishingFacts DEF Publishing
  <2>2. disk[<<l.job, p>>] = a
    BY <1>1, <2>1, Here DEF Reached
  <2>3. Turn(p, "release", l, workspace[p], NoResult)
    <3>1. "release" \in Steps /\ Sets(local', local, p, l)
      BY <1>2 DEF Steps, Publishing, Sets
    <3> QED  BY <1>1, <1>2, <2>1, <3>1, GoesOn
  <2>4. Told(disk', survivors', p, "release", NoResult)
    BY DEF Told
  <2> HIDE DEF a
  <2>5. CASE l.job = "lane"
    <3>1. Target(p) = <<"stage", p>> /\ Target(p) \in Name /\ Target(p) # <<l.job, p>> /\ Target(p) # Output
      BY <2>1, <2>5, NameFacts DEF Target, Stage, Kinds
    <3>2. Writes(p) /\ disk'[Output] = disk[Output]
      BY <1>2, <2>1, <2>2, <2>5, <3>1, RenameFacts
    <3>3. disk[Output] \in survivors
      BY Here DEF Types
    <3>4. Reached(disk', p, "release", l, workspace[p])
      BY <2>5 DEF Reached
    <3> QED  BY <2>3, <2>4, <3>2, <3>3, <3>4, TurnKeepsInv
  <2>6. CASE l.job = "tombstone"
    <3>1. Target(p) = Output /\ Output \in Name /\ Output # <<l.job, p>>
      BY <2>1, <2>6, NameFacts DEF Target
    <3>2. Writes(p) /\ disk'[Output] = a
      BY <1>2, <2>1, <2>2, <3>1, RenameFacts
    <3>3. disk[Output] = Absent
      BY <1>2, <3>1 DEF MayRename
    <3>4. Reached(disk', p, "release", l, workspace[p])
      BY <2>1, <3>2 DEF Reached
    <3>5. ~PassingLane(disk'[Output])
      BY <2>1, <2>6, <3>2 DEF PassingLane
    <3> QED  BY <2>3, <2>4, <3>2, <3>3, <3>4, <3>5, TurnKeepsInv
  <2> QED  BY <2>1, <2>5, <2>6
<1>3. CASE SameDisk /\ Fail(p, "unstage", Refusal(p))
  <2>1. Refusal(p) \in Plain
    BY DEF Refusal, Plain
  <2> QED  BY <1>1, <1>3, <2>1, FailMoves, MovedQuietly
<1> QED  BY <1>2, <1>3 DEF publishPackageDirectoryNoReplace

LEMMA releaseStagingKeepsInv ==
    ASSUME Inv, NEW p \in Proc, releaseStaging(p)
    PROVE  Inv'
<1>1. pc[p] = "release" /\ pc[p] \in Publishing /\ UNCHANGED workspace /\ SameDisk
  BY DEF releaseStaging, At, Publishing
<1>2. CASE Goto(p, "sync") /\ UNCHANGED local
  <2>1. /\ local[p] \in LocalType /\ pc[p] # "returned" /\ ~LateAt(pc[p], local[p])
        /\ LocalOK("sync", local[p])
    BY <1>1, PublishingFacts DEF Publishing
  <2>2. Turn(p, "sync", local[p], workspace[p], NoResult)
    <3>1. "sync" \in Steps /\ Sets(local', local, p, local[p])
      BY <1>2 DEF Steps, Publishing, Sets
    <3> QED  BY <1>1, <1>2, <2>1, <3>1, GoesOn
  <2>3. Reached(disk, p, "sync", local[p], workspace[p])
    BY <1>1, Here DEF Reached
  <2> QED  BY <1>1, <2>2, <2>3, Quiet
<1>3. CASE Fail(p, "retract", "CLEANUP_FAILED")
  BY <1>1, <1>3, FailMoves, MovedQuietly DEF Plain
<1> QED  BY <1>2, <1>3 DEF releaseStaging

LEMMA syncPublishedPackageParentKeepsInv ==
    ASSUME Inv, NEW p \in Proc, syncPublishedPackageParent(p)
    PROVE  Inv'
<1>1. pc[p] = "sync" /\ pc[p] \in Publishing /\ UNCHANGED workspace
  BY DEF syncPublishedPackageParent, At, Publishing
<1>2. CASE SameDisk /\ Fail(p, "retract", "INVALID_INPUT")
  BY <1>1, <1>2, FailMoves, MovedQuietly DEF Plain
<1>3. CASE /\ UNCHANGED disk /\ syncPackageDirectory
           /\ \/ local[p].job = "lane" /\ Goto(p, "verify") /\ UNCHANGED local
              \/ /\ local[p].job = "tombstone"
                 /\ Return(p, local[p].code, attemptTombstoneStatusForCode(local[p].code), TRUE)
  <2> DEFINE l == local[p]
  <2>1. /\ l \in LocalType /\ pc[p] # "returned" /\ ~LateAt(pc[p], l) /\ LocalOK("sync", l)
        /\ Artifact(p, TRUE) = ArtifactOf(p, l) /\ Artifact(p, TRUE) # Absent
        /\ Artifact(p, TRUE).owner = p /\ Artifact(p, TRUE).whole
    BY <1>1, PublishingFacts DEF Publishing
  <2>2. /\ Types /\ NamesOK(disk, p) /\ Reached(disk, p, "sync", l, workspace[p])
        /\ workspace[p] \in {"absent", "empty", "used"}
    BY <1>1, Here
  <2>3. /\ Writes(p) /\ disk'[Output] = disk[Output] /\ disk'[Output] \in survivors
        /\ survivors' = {disk'[Output]}
    BY <1>3, <2>2 DEF Writes, Types, syncPackageDirectory
  <2>4. CASE l.job = "lane" /\ Goto(p, "verify") /\ UNCHANGED local
    <3>1. LocalOK("verify", l)
      BY <2>1, <2>4 DEF LocalOK, Before, Publishing, Judging
    <3>2. "verify" \in Steps \ Knowing /\ Sets(local', local, p, l)
      BY <2>4 DEF Steps, Judging, Knowing, Sets
    <3>3. Moves(p)
      BY <1>1, <2>1, <2>4, <3>1, <3>2, GoesOn
    <3> QED  BY <2>3, <3>3, MovedWriting
  <2>5. CASE /\ l.job = "tombstone"
             /\ Return(p, l.code, attemptTombstoneStatusForCode(l.code), TRUE)
    <3> DEFINE st == attemptTombstoneStatusForCode(l.code)
               r == [code |-> l.code, status |-> st, published |-> TRUE]
    <3>1. l.code \in Errors /\ st \in Status
      BY <2>1, TombstoneStatus DEF LocalType, Status
    <3>2. Sets(workspace', workspace, p, workspace[p])
      BY <1>1 DEF Sets
    <3> HIDE DEF st
    <3>3. Turn(p, "returned", Ended(p), workspace[p], r)
      BY <2>1, <2>2, <2>5, <3>1, <3>2, ReturnTurns DEF st
    <3>4. disk[Output] = Artifact(p, TRUE)
      BY <2>1, <2>2, <2>5 DEF Reached
    <3>5. Artifact(p, TRUE).status = st
      BY <2>5 DEF Artifact, Package, st
    <3>6. r.status = st /\ r.code # "OK"
      BY <3>1 DEF Errors
    <3> HIDE DEF r
    <3>7. Told(disk', survivors', p, "returned", r)
      BY <2>1, <2>3, <3>4, <3>5, <3>6 DEF Told, Owned, Filled
    <3>8. Reached(disk', p, "returned", Ended(p), workspace[p])
      BY DEF Reached
    <3> QED  BY <2>3, <3>3, <3>7, <3>8, TurnKeepsInv
  <2> QED  BY <1>3, <2>4, <2>5
<1> QED  BY <1>2, <1>3 DEF syncPublishedPackageParent

LEMMA cleanupStagingKeepsInv ==
    ASSUME Inv, NEW p \in Proc, cleanupStaging(p)
    PROVE  Inv'
<1>1. pc[p] = "unstage" /\ pc[p] \in Publishing /\ UNCHANGED workspace
  BY DEF cleanupStaging, At, Publishing
<1>2. /\ local[p].job \in {"lane", "tombstone"} /\ local[p].job \in Kinds /\ local[p].job # "stage"
      /\ Staging(p) = <<local[p].job, p>> /\ Staging(p) \in Name
      /\ pc[p] # "returned" /\ ~LateAt(pc[p], local[p])
  BY <1>1, PublishingFacts
<1>3. local[p].then \in Plain /\ "CLEANUP_FAILED" \in Plain
  BY <1>1, <1>2, Here DEF LocalOK, Plain
<1>4. CASE Put(One(Staging(p), Absent)) /\ PublicationFailed(p, local[p].then)
  <2>1. Moves(p)
    BY <1>1, <1>2, <1>3, <1>4, FailedMoves
  <2>2. Absent \in Content
    BY DEF Content
  <2>3. Becomes(Staging(p), Absent)
    BY <1>2, <1>4, <2>2, Here, PutOne
  <2>4. Writes(p) /\ disk'[Output] = disk[Output] /\ disk'[Output] \in survivors
    BY <1>2, <2>2, <2>3, OwnName
  <2> QED  BY <2>1, <2>4, MovedWriting
<1>5. CASE SameDisk /\ PublicationFailed(p, "CLEANUP_FAILED")
  BY <1>1, <1>2, <1>3, <1>5, FailedMoves, MovedQuietly
<1> QED  BY <1>4, <1>5 DEF cleanupStaging

-----------------------------------------------------------------------------
(* Withdrawal. *)

\* What is withdrawn is a name of the producer, or the output where it holds it.
LEMMA RetractedNameFacts ==
    ASSUME Inv, NEW p \in Proc, pc[p] \in {"retract", "unlink"}
    PROVE  /\ RetractedName(p) \in Name
           /\ \/ RetractedName(p) = <<"stage", p>> /\ local[p].job \in {"lane", "withdraw"}
              \/ RetractedName(p) = Output /\ local[p].job \in {"tombstone", "promote"}
<1>1. local[p].job \in {"lane", "tombstone", "promote", "withdraw"}
  BY Here DEF LocalType
<1>2. \/ RetractedName(p) = <<"stage", p>> /\ local[p].job \in {"lane", "withdraw"}
      \/ RetractedName(p) = Output /\ local[p].job \in {"tombstone", "promote"}
  BY <1>1 DEF RetractedName, Stage
<1>3. <<"stage", p>> \in Name /\ Output \in Name
  BY NameFacts DEF Kinds
<1> QED  BY <1>2, <1>3

LEMMA cleanupPublishedPackageKeepsInv ==
    ASSUME Inv, NEW p \in Proc, cleanupPublishedPackage(p)
    PROVE  Inv'
<1> DEFINE n == RetractedName(p)
           l == local[p]
<1>1. pc[p] = "retract" /\ UNCHANGED workspace
  BY DEF cleanupPublishedPackage, At
<1>2. CASE SameDisk /\ Retracted(p, FALSE)
  BY <1>1, <1>2, RetractedMoves, MovedQuietly
<1>3. CASE /\ IsOwn(p, n) /\ IsWhole(n)
           /\ Put(One(n, [disk[n] EXCEPT !.whole = FALSE]))
           /\ Goto(p, "unlink") /\ UNCHANGED local
  <2> DEFINE c == [disk[n] EXCEPT !.whole = FALSE]
  <2>1. /\ n \in Name
        /\ \/ n = <<"stage", p>> /\ l.job \in {"lane", "withdraw"}
           \/ n = Output /\ l.job \in {"tombstone", "promote"}
    BY <1>1, RetractedNameFacts
  <2>2. /\ Types /\ l \in LocalType /\ LocalOK("retract", l) /\ NamesOK(disk, p)
    BY <1>1, Here
  <2>3. disk[n] \in Content /\ disk[n] # Absent /\ disk[n].owner = p
    BY <1>3, <2>1, <2>2 DEF IsOwn, Types
  <2>4. /\ c \in Content /\ c.owner = p /\ c.kind = disk[n].kind /\ c.status = disk[n].status
        /\ c # Absent
    <3>1. c \in Content /\ c.owner = p /\ c.kind = disk[n].kind /\ c.status = disk[n].status
      BY <2>3 DEF Content
    <3>2. disk[n].kind # "absent" /\ Absent.kind = "absent"
      BY <2>3 DEF Content, Absent
    <3> QED  BY <3>1, <3>2
  <2>5. Becomes(n, c)
    BY <1>3, <2>1, <2>2, <2>4, PutOne
  <2> HIDE DEF n, c
  <2>6. LocalOK("unlink", l) /\ (LateAt("retract", l) => LateAt("unlink", l))
    BY <2>2 DEF LocalOK, Before, Publishing, Judging, LateAt, Gone
  <2>7. Turn(p, "unlink", l, workspace[p], NoResult)
    <3>1. "unlink" \in Steps /\ Sets(local', local, p, l)
      BY <1>3 DEF Steps, Sets
    <3> QED  BY <1>1, <1>3, <2>2, <2>6, <3>1, GoesOn
  <2>8. Told(disk', survivors', p, "unlink", NoResult)
    BY DEF Told
  <2>9. CASE n = <<"stage", p>> /\ l.job \in {"lane", "withdraw"}
    <3>1. disk[<<"stage", p>>].kind = "lane"
      BY <2>2, <2>3, <2>9 DEF NamesOK
    <3>2. Writes(p) /\ disk'[Output] = disk[Output] /\ disk'[Output] \in survivors
      BY <2>4, <2>5, <2>9, <3>1, OwnName DEF Kinds
    <3>3. Reached(disk', p, "unlink", l, workspace[p])
      BY <2>9 DEF Reached
    <3> QED  BY <2>7, <2>8, <3>2, <3>3, TurnKeepsInv
  <2>10. CASE n = Output /\ l.job \in {"tombstone", "promote"}
    <3>1. Writes(p) /\ disk'[Output] = c /\ disk[Output].owner = p
      BY <2>3, <2>5, <2>10, OutputName
    <3>2. Reached(disk', p, "unlink", l, workspace[p])
      BY <2>4, <3>1 DEF Reached, Owned
    <3>3. PassingLane(c) => l.sound /\ workspace[p] = "absent" /\ LateAt("unlink", l)
      <4>1. PassingLane(c) => PassingLane(disk[Output])
        BY <2>3, <2>4, <2>10 DEF PassingLane
      <4>2. disk[Output] \in survivors
        BY <2>2 DEF Types
      <4>3. PassingLane(disk[Output]) => l.sound /\ workspace[p] = "absent" /\ LateAt("retract", l)
        BY <1>1, <3>1, <4>2 DEF Inv, Earned
      <4> QED  BY <2>6, <4>1, <4>3
    <3> QED  BY <2>4, <2>7, <2>8, <3>1, <3>2, <3>3, TurnKeepsInv
  <2> QED  BY <2>1, <2>9, <2>10
<1> QED  BY <1>2, <1>3 DEF cleanupPublishedPackage

LEMMA unlinkPublishedPackageKeepsInv ==
    ASSUME Inv, NEW p \in Proc, unlinkPublishedPackage(p)
    PROVE  Inv'
<1> DEFINE n == RetractedName(p)
<1>1. pc[p] = "unlink" /\ UNCHANGED workspace
  BY DEF unlinkPublishedPackage, At
<1>2. /\ n \in Name
      /\ \/ n = <<"stage", p>> /\ local[p].job \in {"lane", "withdraw"}
         \/ n = Output /\ local[p].job \in {"tombstone", "promote"}
  BY <1>1, RetractedNameFacts
<1>3. Types /\ Absent \in Content /\ Reached(disk, p, "unlink", local[p], workspace[p])
  BY <1>1, Here DEF Content
<1>4. \/ /\ disk' = [disk EXCEPT ![n] = Absent] /\ syncPackageDirectory
         /\ Retracted(p, TRUE)
      \/ Put(One(n, Absent)) /\ Retracted(p, FALSE)
      \/ SameDisk /\ Retracted(p, FALSE)
  BY DEF unlinkPublishedPackage
<1>5. Moves(p)
  BY <1>1, <1>4, RetractedMoves
<1> HIDE DEF n
<1>6. CASE SameDisk
  BY <1>5, <1>6, MovedQuietly
<1>7. CASE Becomes(n, Absent)
  <2>1. CASE n = <<"stage", p>>
    <3>1. Writes(p) /\ disk'[Output] = disk[Output] /\ disk'[Output] \in survivors
      BY <1>3, <1>7, <2>1, OwnName DEF Kinds
    <3> QED  BY <1>5, <3>1, MovedWriting
  <2>2. CASE n = Output /\ local[p].job \in {"tombstone", "promote"}
    <3>1. Writes(p) /\ disk'[Output] = Absent
      BY <1>7, <2>2, OutputName
    <3>2. Owned(disk[Output], p)
      BY <1>3, <2>2 DEF Reached
    <3>3. ~PassingLane(disk'[Output])
      BY <3>1 DEF PassingLane
    <3> QED  BY <1>5, <3>1, <3>2, <3>3, MovedWriting
  <2> QED  BY <1>2, <2>1, <2>2
<1> QED  BY <1>2, <1>3, <1>4, <1>6, <1>7, PutOne, RemoveOne

LEMMA withdrawControllerLaneStageKeepsInv ==
    ASSUME Inv, NEW p \in Proc, withdrawControllerLaneStage(p)
    PROVE  Inv'
<1>1. pc[p] = "withdraw" /\ UNCHANGED workspace /\ SameDisk
  BY DEF withdrawControllerLaneStage, At
<1>2. local[p] \in LocalType /\ LocalOK("withdraw", local[p]) /\ local[p].job = "withdraw"
  BY <1>1, Here DEF LocalOK
<1>3. CASE Withdrawn(p)
  BY <1>1, <1>2, <1>3, WithdrawnMoves, MovedQuietly
<1>4. CASE Goto(p, "retract") /\ UNCHANGED local
  <2>1. LocalOK("retract", local[p]) /\ (LateAt("withdraw", local[p]) => LateAt("retract", local[p]))
    BY <1>2 DEF LocalOK, Before, Publishing, Judging, LateAt, Gone
  <2>2. "retract" \in Steps \ Knowing /\ Sets(local', local, p, local[p])
    BY <1>4 DEF Steps, Knowing, Sets
  <2> QED  BY <1>1, <1>2, <1>4, <2>1, <2>2, GoesOn, MovedQuietly
<1>5. CASE controllerFailure(p, "CLEANUP_FAILED")
  BY <1>1, <1>5, FailureMoves, MovedQuietly DEF Errors
<1> QED  BY <1>3, <1>4, <1>5 DEF withdrawControllerLaneStage

-----------------------------------------------------------------------------
(* From the stage to the outcome. *)

LEMMA verifyQualificationLanePublicationSourceKeepsInv ==
    ASSUME Inv, NEW p \in Proc, verifyQualificationLanePublicationSource(p)
    PROVE  Inv'
<1>1. pc[p] = "verify" /\ UNCHANGED workspace /\ SameDisk
  BY DEF verifyQualificationLanePublicationSource, At
<1>2. /\ local[p] \in LocalType /\ LocalOK("verify", local[p]) /\ local[p].job = "lane"
      /\ pc[p] # "returned" /\ ~LateAt(pc[p], local[p])
  BY <1>1, Here DEF LocalOK, Judging, LateAt, Gone
<1>3. CASE Goto(p, "readback") /\ UNCHANGED local
  <2>1. LocalOK("readback", local[p])
    BY <1>2 DEF LocalOK, Before, Publishing, Judging
  <2>2. "readback" \in Steps \ Knowing /\ Sets(local', local, p, local[p])
    BY <1>3 DEF Steps, Judging, Knowing, Sets
  <2> QED  BY <1>1, <1>2, <1>3, <2>1, <2>2, GoesOn, MovedQuietly
<1>4. CASE LaneError(p, local[p], "CLEANUP_FAILED")
  BY <1>1, <1>2, <1>4, ErrorMoves, MovedQuietly DEF Plain
<1>5. CASE /\ Update(p, [local[p] EXCEPT !.then = "SOURCE_DIRTY", !.sound = FALSE])
           /\ Goto(p, "retract")
  <2> DEFINE m == [local[p] EXCEPT !.then = "SOURCE_DIRTY", !.sound = FALSE]
  <2>1. /\ m \in LocalType /\ m.job = "lane" /\ m.then = "SOURCE_DIRTY"
        /\ Sets(local', local, p, m)
    BY <1>2, <1>5 DEF LocalType, Plain, Update, Sets
  <2> HIDE DEF m
  <2>2. LocalOK("retract", m)
    BY <2>1 DEF LocalOK, Before, Publishing, Judging, Plain
  <2>3. "retract" \in Steps \ Knowing
    BY DEF Steps, Knowing
  <2> QED  BY <1>1, <1>2, <1>5, <2>1, <2>2, <2>3, GoesOn, MovedQuietly
<1>6. CASE Fail(p, "retract", "INVALID_INPUT")
  BY <1>1, <1>6, FailMoves, MovedQuietly DEF Plain
<1> QED  BY <1>3, <1>4, <1>5, <1>6 DEF verifyQualificationLanePublicationSource

LEMMA ErrorCodeIsCode ==
    \A err, status : qualificationLaneErrorCode(err, status) \in Errors \ {"none"}
  BY DEF qualificationLaneErrorCode, Errors

\* The outcome of the stage, as it is left for the cleanup.
StageOutcome(l, ready, status, c) ==
    [l EXCEPT !.ready = ready, !.status = status, !.code = c, !.err = "none"]

LEMMA OutcomeTurn ==
    ASSUME Inv, NEW p \in Proc, pc[p] = "readback", SameDisk, UNCHANGED workspace, Goto(p, "clean"),
           NEW ready \in BOOLEAN, NEW status \in Status, NEW c \in Errors,
           Update(p, StageOutcome(local[p], ready, status, c)),
           \/ status = "PASS" /\ ready /\ c = "none" /\ local[p].sound
           \/ status # "PASS" /\ c # "none" /\ status = attemptTombstoneStatusForCode(c),
           ready => Filled(disk[<<"stage", p>>]) /\ disk[<<"stage", p>>].status = status
    PROVE  Inv'
<1> DEFINE m == StageOutcome(local[p], ready, status, c)
<1>1. /\ local[p] \in LocalType /\ local[p].job = "lane"
      /\ pc[p] # "returned" /\ ~LateAt(pc[p], local[p])
  BY Here DEF LocalOK, Judging, LateAt, Gone
<1>2. /\ m \in LocalType /\ m.job = "lane" /\ m.ready = ready /\ m.status = status /\ m.code = c
      /\ m.sound = local[p].sound
  BY <1>1 DEF StageOutcome, LocalType, Errors
<1>3. Sets(local', local, p, m) /\ "clean" \in Steps
  BY DEF Update, Sets, Steps, Judging
<1> HIDE DEF m
<1>4. normalizeProduceLaneOutcome(m) /\ (m.status = "PASS" => m.sound)
  BY <1>2 DEF normalizeProduceLaneOutcome
<1>5. LocalOK("clean", m)
  BY <1>2, <1>4 DEF LocalOK, Before, Publishing, Judging
<1>6. Turn(p, "clean", m, workspace[p], NoResult)
  BY <1>1, <1>2, <1>3, <1>5, GoesOn
<1>7. Reached(disk, p, "clean", m, workspace[p])
  BY <1>2 DEF Reached
<1> QED  BY <1>6, <1>7, Quiet

LEMMA produceControllerLaneStageKeepsInv ==
    ASSUME Inv, NEW p \in Proc, produceControllerLaneStage(p)
    PROVE  Inv'
<1> DEFINE l == local[p]
           code == IF l.err = "none" THEN "none" ELSE qualificationLaneErrorCode(l.err, l.status)
<1>1. pc[p] = "readback" /\ UNCHANGED workspace /\ SameDisk /\ Goto(p, "clean")
  BY DEF produceControllerLaneStage, At
<1>2. /\ l \in LocalType /\ l.status \in Status /\ l.err \in Errors
      /\ Decided(l) /\ (l.status = "PASS" => l.sound)
  BY <1>1, Here DEF LocalOK, LocalType, Judging
<1>3. /\ code \in Errors /\ (code = "none" <=> l.err = "none")
      /\ \/ l.status = "PASS" /\ code = "none" /\ l.sound
         \/ l.status # "PASS" /\ code # "none" /\ l.status = attemptTombstoneStatusForCode(code)
  BY <1>2, ErrorCodeIsCode DEF Decided, Errors
<1>4. \/ /\ IsWhole(Stage(p)) /\ disk[Stage(p)].status = l.status
         /\ Update(p, StageOutcome(l, TRUE, l.status, code))
      \/ Update(p, StageOutcome(l, FALSE, "FAIL", "RECEIPT_INVALID"))
      \/ code # "none" /\ Update(p, StageOutcome(l, FALSE, l.status, code))
  BY DEF produceControllerLaneStage, StageOutcome
<1> HIDE DEF code
<1>5. CASE /\ IsWhole(Stage(p)) /\ disk[Stage(p)].status = l.status
           /\ Update(p, StageOutcome(l, TRUE, l.status, code))
  <2>1. Filled(disk[<<"stage", p>>]) /\ disk[<<"stage", p>>].status = l.status
    BY <1>5 DEF IsWhole, Stage, Filled
  <2> QED  BY <1>1, <1>2, <1>3, <1>5, <2>1, OutcomeTurn
<1>6. CASE Update(p, StageOutcome(l, FALSE, "FAIL", "RECEIPT_INVALID"))
  <2>1. "RECEIPT_INVALID" \in Errors /\ attemptTombstoneStatusForCode("RECEIPT_INVALID") = "FAIL"
        /\ "FAIL" \in Status
    BY DEF Errors, attemptTombstoneStatusForCode, Status
  <2> QED  BY <1>1, <1>6, <2>1, OutcomeTurn
<1>7. CASE code # "none" /\ Update(p, StageOutcome(l, FALSE, l.status, code))
  BY <1>1, <1>2, <1>3, <1>7, OutcomeTurn
<1> QED  BY <1>4, <1>5, <1>6, <1>7

LEMMA cleanupWorkspaceKeepsInv ==
    ASSUME Inv, NEW p \in Proc, cleanupWorkspace(p)
    PROVE  Inv'
<1> DEFINE l == local[p]
           valid == normalizeProduceLaneOutcome(l)
<1>1. pc[p] = "clean" /\ SameDisk
  BY DEF cleanupWorkspace, At
<1>2. /\ l \in LocalType /\ l.job = "lane" /\ LocalOK("clean", l) /\ result[p] = NoResult
      /\ pc[p] # "returned" /\ ~LateAt(pc[p], l)
      /\ Reached(disk, p, "clean", l, workspace[p])
      /\ workspace[p] \in {"absent", "empty", "used"}
  BY <1>1, Here DEF LocalOK, Judging, LateAt, Gone
<1>3. CASE /\ workspace' = [workspace EXCEPT ![p] = "absent"]
           /\ l.ready /\ valid /\ Goto(p, "promote") /\ UNCHANGED local
  <2>1. LocalOK("promote", l)
    BY <1>2, <1>3 DEF LocalOK, Before, Publishing, Judging
  <2>2. Turn(p, "promote", l, "absent", NoResult)
    BY <1>2, <1>3, <2>1 DEF Turn, Sets, Goto, Steps, Judging, Outcome
  <2>3. Reached(disk, p, "promote", l, "absent")
    BY <1>2 DEF Reached
  <2> QED  BY <1>1, <2>2, <2>3, Quiet
<1>4. ASSUME NEW then \in {"tombstone", "INVALID_INPUT"},
             workspace' = [workspace EXCEPT ![p] = "absent"], Withdraw(p, l, then)
      PROVE  Inv'
  <2>1. Sets(workspace', workspace, p, "absent")
    BY <1>4 DEF Sets
  <2>2. Moves(p)
    BY <1>2, <1>4, <2>1, WithdrawMoves
  <2> QED  BY <1>1, <2>2, MovedQuietly
<1>5. CASE Withdraw(p, [l EXCEPT !.code = "CLEANUP_FAILED"], "tombstone") /\ UNCHANGED workspace
  <2>1. [l EXCEPT !.code = "CLEANUP_FAILED"] \in LocalType
    BY <1>2 DEF LocalType, Errors
  <2>2. Sets(workspace', workspace, p, workspace[p])
    BY <1>5 DEF Sets
  <2>3. Moves(p)
    BY <1>2, <1>5, <2>1, <2>2, WithdrawMoves
  <2> QED  BY <1>1, <2>3, MovedQuietly
<1>6. \/ /\ workspace' = [workspace EXCEPT ![p] = "absent"]
         /\ \/ l.ready /\ valid /\ Goto(p, "promote") /\ UNCHANGED local
            \/ Withdraw(p, l, "tombstone")
            \/ Withdraw(p, l, "INVALID_INPUT")
      \/ Withdraw(p, [l EXCEPT !.code = "CLEANUP_FAILED"], "tombstone") /\ UNCHANGED workspace
  BY DEF cleanupWorkspace
<1> QED  BY <1>3, <1>4, <1>5, <1>6

LEMMA promoteControllerLaneStageKeepsInv ==
    ASSUME Inv, NEW p \in Proc, promoteControllerLaneStage(p)
    PROVE  Inv'
<1>1. pc[p] = "promote" /\ UNCHANGED workspace /\ SameDisk
  BY DEF promoteControllerLaneStage, At
<1>2. /\ local[p] \in LocalType /\ LocalOK("promote", local[p])
      /\ pc[p] # "returned" /\ ~LateAt(pc[p], local[p])
      /\ Reached(disk, p, "promote", local[p], workspace[p])
      /\ workspace[p] \in {"absent", "empty", "used"} /\ Sets(workspace', workspace, p, workspace[p])
  BY <1>1, Here DEF LateAt, Gone, Sets
<1>3. CASE Goto(p, "promoteRename") /\ UNCHANGED local
  <2>1. LocalOK("promoteRename", local[p])
    BY <1>2 DEF LocalOK, Before, Publishing, Judging
  <2>2. "promoteRename" \in Steps /\ Sets(local', local, p, local[p])
    BY <1>3 DEF Steps, Judging, Sets
  <2>3. Turn(p, "promoteRename", local[p], workspace[p], NoResult)
    BY <1>1, <1>2, <1>3, <2>1, <2>2, GoesOn
  <2>4. Reached(disk, p, "promoteRename", local[p], workspace[p])
    BY <1>2 DEF Reached
  <2> QED  BY <1>1, <2>3, <2>4, Quiet
<1>4. CASE Withdraw(p, local[p], "DESTINATION_EXISTS")
  BY <1>1, <1>2, <1>4, WithdrawMoves, MovedQuietly
<1> QED  BY <1>3, <1>4 DEF promoteControllerLaneStage

\* The promotion: the stage holds the producer's own whole lane with its
\* status, and a passing one is sound and its workspace gone.
LEMMA promoteNoReplaceKeepsInv ==
    ASSUME Inv, NEW p \in Proc, promoteNoReplace(p)
    PROVE  Inv'
<1> DEFINE l == local[p]
<1>1. pc[p] = "promoteRename" /\ UNCHANGED workspace
  BY DEF promoteNoReplace, At
<1>2. /\ Types /\ l \in LocalType /\ LocalOK("promoteRename", l) /\ NamesOK(disk, p)
      /\ pc[p] # "returned" /\ ~LateAt(pc[p], l)
      /\ Reached(disk, p, "promoteRename", l, workspace[p])
      /\ workspace[p] \in {"absent", "empty", "used"} /\ Sets(workspace', workspace, p, workspace[p])
  BY <1>1, Here DEF LateAt, Gone, Sets
<1>3. CASE SameDisk /\ Withdraw(p, l, "DESTINATION_EXISTS")
  BY <1>2, <1>3, WithdrawMoves, MovedQuietly
<1>4. CASE /\ MayRename(Output) /\ Rename(Stage(p), Output)
           /\ Update(p, [l EXCEPT !.job = "promote"]) /\ Goto(p, "promoteSync")
  <2> DEFINE m == [l EXCEPT !.job = "promote"]
             c == disk[<<"stage", p>>]
  <2>1. m \in LocalType /\ m.job = "promote" /\ m.status = l.status /\ m.sound = l.sound
        /\ Sets(local', local, p, m)
    BY <1>2, <1>4 DEF LocalType, Update, Sets
  <2> HIDE DEF m
  <2>2. LocalOK("promoteSync", m)
    BY <2>1 DEF LocalOK, Before, Publishing, Judging
  <2>3. "promoteSync" \in Steps
    BY DEF Steps
  <2>4. Turn(p, "promoteSync", m, workspace[p], NoResult)
    BY <1>1, <1>2, <1>4, <2>1, <2>2, <2>3, GoesOn
  <2>5. l.ready /\ (l.status = "PASS" => l.sound)
    BY <1>2 DEF LocalOK
  <2>6. workspace[p] = "absent" /\ Filled(c) /\ c.status = l.status /\ c.owner = p /\ c.kind = "lane"
    BY <1>2, <2>5 DEF Reached, NamesOK, Kinds, Filled
  <2>7. c \in Content
    BY <1>2, NameFacts DEF Types, Kinds
  <2>8. c = Package(p, "lane", m.status, TRUE)
    <3>1. c \in [kind : {"lane", "tombstone", "empty"}, owner : Proc, status : Status, whole : BOOLEAN]
      BY <2>6, <2>7 DEF Filled, Content
    <3>2. c.whole = TRUE
      BY <2>6, <3>1 DEF Filled
    <3> QED  BY <2>1, <2>6, <3>1, <3>2 DEF Package
  <2>9. Stage(p) = <<"stage", p>> /\ "stage" \in Kinds /\ Output \in Name /\ Output # <<"stage", p>>
    BY NameFacts DEF Stage, Kinds
  <2>10. Writes(p) /\ disk'[Output] = c
    BY <1>4, <2>9, RenameFacts
  <2>11. disk[Output] = Absent
    BY <1>4 DEF MayRename
  <2> HIDE DEF c
  <2>12. Reached(disk', p, "promoteSync", m, workspace[p])
    BY <2>6, <2>8, <2>10 DEF Reached
  <2>13. Told(disk', survivors', p, "promoteSync", NoResult)
    BY DEF Told
  <2>14. PassingLane(c) => m.sound /\ LateAt("promoteSync", m)
    BY <2>1, <2>5, <2>6 DEF PassingLane, LateAt
  <2> QED  BY <2>4, <2>6, <2>10, <2>11, <2>12, <2>13, <2>14, TurnKeepsInv
<1> QED  BY <1>3, <1>4 DEF promoteNoReplace

LEMMA syncPromotedStageKeepsInv ==
    ASSUME Inv, NEW p \in Proc, syncPromotedStage(p)
    PROVE  Inv'
<1> DEFINE l == local[p]
<1>1. pc[p] = "promoteSync" /\ UNCHANGED workspace
  BY DEF syncPromotedStage, At
<1>2. /\ Types /\ l \in LocalType /\ LocalOK("promoteSync", l) /\ NamesOK(disk, p)
      /\ Reached(disk, p, "promoteSync", l, workspace[p]) /\ l.job = "promote"
      /\ workspace[p] \in {"absent", "empty", "used"} /\ Sets(workspace', workspace, p, workspace[p])
  BY <1>1, Here DEF LocalOK, Sets
<1>3. CASE SameDisk /\ Goto(p, "retract") /\ UNCHANGED local
  <2>1. LocalOK("retract", l) /\ LateAt("retract", l)
    BY <1>2 DEF LocalOK, Before, Publishing, Judging, LateAt
  <2>2. "retract" \in Steps \ Knowing /\ Sets(local', local, p, l)
    BY <1>3 DEF Steps, Knowing, Sets
  <2> QED  BY <1>1, <1>2, <1>3, <2>1, <2>2, GoesOn, MovedQuietly
<1>4. CASE /\ UNCHANGED disk /\ syncPackageDirectory
           /\ Return(p, IF l.status = "PASS" THEN "OK" ELSE l.code, l.status, TRUE)
  <2> DEFINE code == IF l.status = "PASS" THEN "OK" ELSE l.code
             r == [code |-> code, status |-> l.status, published |-> TRUE]
             c == Package(p, "lane", l.status, TRUE)
  <2>1. code \in Errors \cup {"OK"} /\ l.status \in Status
    BY <1>2 DEF LocalType
  <2> HIDE DEF code
  <2>2. Turn(p, "returned", Ended(p), workspace[p], r)
    BY <1>2, <1>4, <2>1, ReturnTurns DEF code
  <2>3. disk[Output] = c
    BY <1>2 DEF Reached
  <2>4. c.kind = "lane" /\ c.owner = p /\ c.status = l.status /\ c.whole /\ Absent.kind # "lane"
    BY DEF Package, Absent
  <2>5. r.status = l.status
    OBVIOUS
  <2> HIDE DEF c, r
  <2>6. /\ Writes(p) /\ disk'[Output] = disk[Output] /\ disk'[Output] \in survivors
        /\ survivors' = {disk'[Output]}
    BY <1>2, <1>4 DEF Writes, Types, syncPackageDirectory
  <2>7. Told(disk', survivors', p, "returned", r)
    BY <2>3, <2>4, <2>5, <2>6 DEF Told, Owned, Filled
  <2>8. Reached(disk', p, "returned", Ended(p), workspace[p])
    BY DEF Reached
  <2> QED  BY <2>2, <2>6, <2>7, <2>8, TurnKeepsInv
<1> QED  BY <1>3, <1>4 DEF syncPromotedStage

-----------------------------------------------------------------------------
(* The environment, and the whole. *)

LEMMA CancelKeepsInv ==
    ASSUME Inv, NEW p \in Proc, Cancel(p)
    PROVE  Inv'
<1> DEFINE m == [local[p] EXCEPT !.cancelled = TRUE]
<1>1. /\ pc[p] \in {"history", "configure", "validate", "snapshot", "bind", "gate"}
      /\ UNCHANGED <<disk, survivors, workspace, pc, result>> /\ Sets(local', local, p, m)
  BY DEF Cancel, Update, Sets
<1>2. /\ local[p] \in LocalType /\ LocalOK(pc[p], local[p]) /\ pc[p] \in Steps \ Knowing
      /\ ~LateAt(pc[p], local[p]) /\ result[p] = NoResult
      /\ workspace[p] \in {"absent", "empty", "used"} /\ NoResult \in Outcome
  BY <1>1, Here DEF LateAt, Gone, Knowing, Outcome
<1>3. /\ m \in LocalType /\ m.job = local[p].job /\ m.err = local[p].err /\ m.sound = local[p].sound
      /\ m.ran = local[p].ran /\ m.ready = local[p].ready /\ m.gates = local[p].gates
      /\ m.then = local[p].then
  BY <1>2 DEF LocalType
<1> HIDE DEF m
<1>4. LocalOK(pc[p], m)
  BY <1>1, <1>2, <1>3 DEF LocalOK, Before, Publishing, Judging, PassedUpTo
<1>5. Turn(p, pc[p], m, workspace[p], NoResult)
  BY <1>1, <1>2, <1>3, <1>4 DEF Turn, Sets
<1>6. Moves(p)
  BY <1>2, <1>3, <1>5 DEF Moves
<1> QED  BY <1>1, <1>6, MovedQuietly DEF SameDisk

LEMMA KillKeepsInv ==
    ASSUME Inv, NEW p \in Proc, Kill(p)
    PROVE  Inv'
<1>1. /\ pc[p] # "returned" /\ Goto(p, "dead") /\ SameDisk /\ UNCHANGED workspace
      /\ Sets(local', local, p, Ended(p))
  BY DEF Kill, Gone, Update, Sets
<1>2. Ended(p) \in LocalType /\ LocalOK("dead", Ended(p))
  BY EndedFacts DEF Inv, Gone
<1>3. Ended(p).sound = local[p].sound
  BY LocalsFacts DEF Ended, LocalType
<1>4. "dead" \in Steps \ Knowing /\ LateAt("dead", Ended(p))
  BY DEF Steps, Gone, Knowing, LateAt
<1> QED  BY <1>1, <1>2, <1>3, <1>4, GoesOn, MovedQuietly

\* Everyone under way dies; the output is something that could survive, and
\* whoever was told of a publication knows that there is only one such thing.
LEMMA PowerLossKeepsInv ==
    ASSUME Inv, PowerLoss
    PROVE  Inv'
<1>1. PICK content \in survivors :
          /\ disk' = [n \in Name |-> IF n = Output THEN content ELSE Absent]
          /\ survivors' = {content}
  BY DEF PowerLoss
<1>2. /\ pc' = [p \in Proc |-> IF pc[p] \in Gone \cup {"idle"} THEN pc[p] ELSE "dead"]
      /\ local' = [p \in Proc |-> Ended(p)] /\ UNCHANGED <<workspace, result>>
  BY DEF PowerLoss
<1>3. Types /\ content \in Content /\ Absent \in Content /\ Output \in Name
  BY NameFacts DEF Inv, Types, Content
<1>4. disk'[Output] = content /\ \A k \in Kinds, p \in Proc : disk'[<<k, p>>] = Absent
  BY <1>1, <1>3, NameFacts
<1>5. Types'
  <2>1. disk' \in [Name -> Content] /\ survivors' \subseteq Content /\ disk'[Output] \in survivors'
    BY <1>1, <1>3, <1>4
  <2>2. pc' \in [Proc -> Steps]
    BY <1>2, <1>3 DEF Types, Steps, Gone
  <2>3. local' \in [Proc -> LocalType]
    BY <1>2, <1>3, EndedFacts
  <2> QED  BY <1>2, <1>3, <2>1, <2>2, <2>3 DEF Types
<1>6. ASSUME NEW p \in Proc
      PROVE  /\ LocalOK(pc'[p], local'[p]) /\ DiskOK(p)'
             /\ local'[p].sound = local[p].sound
             /\ pc[p] \notin {"idle"} => LateAt(pc'[p], local'[p])
  <2>1. /\ pc'[p] = (IF pc[p] \in Gone \cup {"idle"} THEN pc[p] ELSE "dead")
        /\ local'[p] = Ended(p) /\ result'[p] = result[p]
    BY <1>2
  <2>2. pc'[p] \in Gone \/ (pc'[p] = "idle" /\ pc[p] = "idle")
    BY <2>1 DEF Gone
  <2>3. Ended(p).sound = local[p].sound
    BY LocalsFacts DEF Ended, LocalType
  <2>4. LocalOK(pc'[p], local'[p])
    <3>1. CASE pc'[p] \in Gone
      BY <1>3, <2>1, <3>1, EndedFacts
    <3>2. CASE pc'[p] = "idle" /\ pc[p] = "idle"
      <4>1. local[p].sound = TRUE
        BY <3>2, Here DEF LocalOK, Before, LocalType
      <4>2. Ended(p) = Locals
        BY <4>1, LocalsFacts DEF Ended, LocalType, Locals
      <4> QED  BY <2>1, <3>2, <4>2, LocalsFacts DEF Before
    <3> QED  BY <2>2, <3>1, <3>2
  <2>5. NamesOK(disk', p)
    BY <1>4 DEF NamesOK, Kinds
  <2>6. Reached(disk', p, pc'[p], local'[p], workspace'[p])
    BY <2>2 DEF Reached, Gone
  <2>7. Told(disk', survivors', p, pc'[p], result'[p])
    <3>1. Told(disk, survivors, p, pc[p], result[p])
      BY Here
    <3>2. (result[p] # NoResult /\ result[p].published) => content = disk[Output]
      BY <3>1, <1>1 DEF Told
    <3>3. pc'[p] # "returned" => pc[p] # "returned"
      BY <2>1 DEF Gone
    <3> QED  BY <1>1, <1>4, <2>1, <3>1, <3>2, <3>3 DEF Told
  <2>8. pc[p] \notin {"idle"} => LateAt(pc'[p], local'[p])
    BY <2>2 DEF LateAt
  <2> QED  BY <2>1, <2>3, <2>4, <2>5, <2>6, <2>7, <2>8 DEF DiskOK
<1>7. Earned'
  <2>1. ASSUME PassingLane(content)
        PROVE  /\ local'[content.owner].sound /\ workspace'[content.owner] = "absent"
               /\ LateAt(pc'[content.owner], local'[content.owner])
    <3>1. content.owner \in Proc
      BY <1>3, <2>1 DEF PassingLane, Content
    <3>2. /\ local[content.owner].sound /\ workspace[content.owner] = "absent"
          /\ LateAt(pc[content.owner], local[content.owner])
      BY <2>1 DEF Inv, Earned
    <3>3. pc[content.owner] # "idle"
      BY <3>2 DEF LateAt, Gone
    <3> QED  BY <1>2, <1>6, <3>1, <3>2, <3>3
  <2> QED  BY <1>1, <2>1 DEF Earned
<1> QED  BY <1>5, <1>6, <1>7 DEF Inv

LEMMA InitInv ==
    Init => Inv
<1> SUFFICES ASSUME Init PROVE Inv
  OBVIOUS
<1>1. Locals \in LocalType /\ LocalOK("idle", Locals) /\ NoResult \in Outcome /\ Absent \in Content
      /\ Output \in Name /\ "idle" \in Steps
  BY LocalsFacts, NameFacts DEF Before, Outcome, Content, Steps
<1>2. Types
  BY <1>1 DEF Init, Types
<1>3. ASSUME NEW p \in Proc PROVE LocalOK(pc[p], local[p]) /\ DiskOK(p)
  <2>1. pc[p] = "idle" /\ local[p] = Locals /\ result[p] = NoResult
    BY DEF Init
  <2>2. \A k \in Kinds : disk[<<k, p>>] = Absent
    BY NameFacts DEF Init
  <2>3. NamesOK(disk, p)
    BY <2>2 DEF NamesOK, Kinds
  <2>4. Reached(disk, p, pc[p], local[p], workspace[p]) /\ Told(disk, survivors, p, pc[p], result[p])
    BY <2>1 DEF Reached, Told
  <2> QED  BY <1>1, <2>1, <2>3, <2>4 DEF DiskOK
<1>4. Earned
  BY DEF Init, Earned, PassingLane
<1> QED  BY <1>2, <1>3, <1>4 DEF Inv

LEMMA StutterKeepsInv ==
    ASSUME Inv, UNCHANGED vars
    PROVE  Inv'
<1>1. Types' /\ Earned'
  BY DEF vars, Inv, Types, Earned
<1>2. ASSUME NEW p \in Proc PROVE LocalOK(pc'[p], local'[p]) /\ DiskOK(p)'
  BY DEF vars, Inv, DiskOK
<1> QED  BY <1>1, <1>2 DEF Inv

LEMMA NextKeepsInv ==
    ASSUME Inv, [Next]_vars
    PROVE  Inv'
<1>1. ASSUME NEW p \in Proc, Step(p) PROVE Inv'
  BY <1>1, ProduceLaneKeepsInv, allocateStageKeepsInv, EarlyStepsKeepInv, BindApplicationsKeepsInv,
     runRequiredGatesKeepsInv, releaseBindingKeepsInv, marshalCanonicalReceiptKeepsInv,
     createPrivateQualificationStagingKeepsInv, writePrivatePackageFilesKeepsInv,
     publishPackageDirectoryNoReplaceKeepsInv, releaseStagingKeepsInv,
     syncPublishedPackageParentKeepsInv, cleanupStagingKeepsInv, cleanupPublishedPackageKeepsInv,
     unlinkPublishedPackageKeepsInv, withdrawControllerLaneStageKeepsInv,
     verifyQualificationLanePublicationSourceKeepsInv, produceControllerLaneStageKeepsInv,
     cleanupWorkspaceKeepsInv, promoteControllerLaneStageKeepsInv, promoteNoReplaceKeepsInv,
     syncPromotedStageKeepsInv DEF Step
<1>2. ASSUME NEW p \in Proc, Cancel(p) \/ Kill(p) PROVE Inv'
  BY <1>2, CancelKeepsInv, KillKeepsInv
<1>3. CASE PowerLoss
  BY <1>3, PowerLossKeepsInv
<1>4. CASE AllGone \/ UNCHANGED vars
  BY <1>4, StutterKeepsInv DEF AllGone
<1> QED  BY <1>1, <1>2, <1>3, <1>4 DEF Next

\* For any number of producers and gates: the invariant holds throughout.
THEOREM LaneInvariant == Spec => []Inv
<1>1. Init => Inv
  BY InitInv
<1>2. Inv /\ [Next]_vars => Inv'
  BY NextKeepsInv
<1> QED  BY <1>1, <1>2, PTL DEF Spec

\* ProduceLane's word can be relied on: whoever was told that its lane or its
\* tombstone is published finds exactly that at the output, whole, with the
\* status it was told, also after a power loss and whatever the other
\* producers with the same output did, were killed in or were told.
THEOREM ReportsAreTrue == Spec => []ReportIsTrue
<1>1. Inv => ReportIsTrue
  BY DEF Inv, DiskOK, Told, Owned, Filled, ReportIsTrue
<1> QED  BY <1>1, LaneInvariant, PTL

\* A passing lane that is, or after a power loss may be, at the output was
\* earned by its producer: every gate ran and all that was observed was the
\* expected, and the private workspace was removed before the promotion.
THEOREM PassesAreEarned == Spec => []PassIsEarned
<1>1. Inv => PassIsEarned
  BY DEF Inv, Earned, PassingLane, PassIsEarned
<1> QED  BY <1>1, LaneInvariant, PTL

\* The receipt validator accepts the records the gate runner leaves in every
\* way a run of the gates can end; it refuses only the run that never began
\* because the request was found invalid when it was looked at again.  The
\* outcome's code stands for its status.
THEOREM OutcomesValid == Spec => []OutcomesAreValid
<1>1. ASSUME Inv, NEW p \in Proc
      PROVE  /\ At(p, "receipt") => \/ ReceiptIsValid(local[p])
                                    \/ local[p].gates = <<>> /\ local[p].ran = 0
             /\ At(p, "clean") => normalizeProduceLaneOutcome(local[p])
  <2>1. local[p] \in LocalType /\ LocalOK(pc[p], local[p])
    BY <1>1, Here
  <2>2. At(p, "receipt") => GatesEnded(local[p]) \/ Refused(local[p])
    BY <2>1 DEF At, LocalOK
  <2>3. GatesEnded(local[p]) => ReceiptIsValid(local[p])
    BY <2>1, EndedGatesAreValid
  <2> QED  BY <2>1, <2>2, <2>3 DEF At, LocalOK, Refused
<1>2. Inv => OutcomesAreValid
  BY <1>1 DEF OutcomesAreValid
<1> QED  BY <1>2, LaneInvariant, PTL

-----------------------------------------------------------------------------
(* What a producer leaves behind.  The invariant above does not say where  *)
(* a directory that could not be removed is remembered; Tidy does.         *)

Messy(c) == c.kind \notin {"absent", "empty"}

\* The lane's staging directory is in use, or its removal has failed and the
\* outcome will say so.
LaneInUse(d, p, s, l) ==
    \/ s \in Gone
    \/ s \in {"fill", "rename", "unstage"} /\ l.job = "lane"
    \/ s = "readback" /\ l.err = "CLEANUP_FAILED" /\ d[Stage(p)] = Absent
    \/ s = "clean" /\ ~l.ready /\ l.code = "CLEANUP_FAILED"
    \/ /\ s \in {"withdraw", "retract", "unlink"} /\ l.job = "withdraw"
       /\ l.then = "tombstone" /\ l.code = "CLEANUP_FAILED"
    \/ l.job = "tombstone" /\ l.code = "CLEANUP_FAILED"

Unused == Before \cup {"gate", "unbind", "receipt"}

\* d stands for disk; s, l and w for the producer's step, variables and
\* workspace.
TidyAt(d, p, s, l, w) ==
    /\ (s \in Unused \/ (s \in {"staging", "fill", "rename", "unstage"} /\ l.job = "lane")) =>
           d[Stage(p)] = Absent
    /\ s = "idle" => w = "absent"
    /\ l.job # "lane" =>
           \/ w = "absent"
           \/ /\ l.code = "CLEANUP_FAILED"
              /\ l.job = "tombstone" \/ (l.job = "withdraw" /\ l.then = "tombstone")
    /\ l.job \in {"tombstone", "promote"} => d[Stage(p)] = Absent
    /\ Messy(d[<<"lane", p>>]) => LaneInUse(d, p, s, l)

Tidy == \A p \in Proc : TidyAt(disk, p, pc[p], local[p], workspace[p])

\* A producer that returns now leaves nothing behind, or says so.
Leaves(p) ==
    (result[p] = NoResult /\ result'[p] # NoResult /\ result'[p].code # "CLEANUP_FAILED") =>
        /\ workspace'[p] # "used"
        /\ ~Messy(disk'[Stage(p)]) /\ ~Messy(disk'[<<"lane", p>>])

\* A step of p of which nothing is to be said of the others.
Neat(p) ==
    Others(p) /\ TidyAt(disk', p, pc'[p], local'[p], workspace'[p]) /\ Leaves(p)

LEMMA AbsentIsNotMessy == ~Messy(Absent) /\ \A q, st, b : ~Messy(Package(q, "empty", st, b))
  BY DEF Messy, Absent, Package

\* What is known before a step of p.
LEMMA HereTidy ==
    ASSUME Inv, Tidy, NEW p \in Proc
    PROVE  /\ pc \in [Proc -> Steps] /\ local \in [Proc -> LocalType] /\ disk \in [Name -> Content]
           /\ workspace \in [Proc -> {"absent", "empty", "used"}] /\ result \in [Proc -> Outcome]
           /\ local[p] \in LocalType /\ pc[p] \in Steps
           /\ LocalOK(pc[p], local[p]) /\ NamesOK(disk, p)
           /\ Reached(disk, p, pc[p], local[p], workspace[p])
           /\ TidyAt(disk, p, pc[p], local[p], workspace[p])
           /\ Stage(p) = <<"stage", p>>
           /\ Stage(p) \in Name /\ <<"lane", p>> \in Name /\ Stage(p) # <<"lane", p>>
  BY Here, NameFacts DEF Types, Tidy, Stage, Kinds

\* No name of another producer changes.
Apart(p) == \A q \in Proc \ {p}, k \in Kinds : disk'[<<k, q>>] = disk[<<k, q>>]

\* p's own variables and its names change.
LEMMA NeatTurn ==
    ASSUME Inv, Tidy, NEW p \in Proc, NEW s, NEW l, NEW w, NEW r, Apart(p),
           Sets(pc', pc, p, s), Sets(local', local, p, l),
           Sets(workspace', workspace, p, w), Sets(result', result, p, r),
           TidyAt(disk', p, s, l, w),
           (result[p] = NoResult /\ r # NoResult /\ r.code # "CLEANUP_FAILED") =>
               w # "used" /\ ~Messy(disk'[Stage(p)]) /\ ~Messy(disk'[<<"lane", p>>])
    PROVE  Neat(p)
<1>1. /\ pc \in [Proc -> Steps] /\ local \in [Proc -> LocalType]
      /\ workspace \in [Proc -> {"absent", "empty", "used"}] /\ result \in [Proc -> Outcome]
  BY HereTidy
<1>2. pc'[p] = s /\ local'[p] = l /\ workspace'[p] = w /\ result'[p] = r
  BY <1>1 DEF Sets
<1>3. Others(p)
  BY <1>1, <1>2 DEF Sets, Others, Apart
<1> QED  BY <1>2, <1>3 DEF Neat, Leaves

\* A step that leaves the disk and the other producers alone.
LEMMA NeatQuietly ==
    ASSUME Inv, Tidy, NEW p \in Proc, NEW s, NEW l, NEW w, NEW r, SameDisk,
           Sets(pc', pc, p, s), Sets(local', local, p, l),
           Sets(workspace', workspace, p, w), Sets(result', result, p, r),
           TidyAt(disk, p, s, l, w),
           (result[p] = NoResult /\ r # NoResult /\ r.code # "CLEANUP_FAILED") =>
               w # "used" /\ ~Messy(disk[Stage(p)]) /\ ~Messy(disk[<<"lane", p>>])
    PROVE  Neat(p)
<1>1. disk' = disk /\ Apart(p)
  BY DEF SameDisk, Apart
<1> QED  BY <1>1, NeatTurn

\* What a step does to p's variables, in the words of the handlers.
LEMMA GotoSets ==
    ASSUME NEW p \in Proc, NEW s, Goto(p, s)
    PROVE  Sets(pc', pc, p, s) /\ Sets(result', result, p, result[p])
  BY DEF Goto, Sets

LEMMA SameSets ==
    ASSUME NEW p \in Proc
    PROVE  /\ UNCHANGED local => Sets(local', local, p, local[p])
           /\ UNCHANGED workspace => Sets(workspace', workspace, p, workspace[p])
           /\ \A l : Update(p, l) => Sets(local', local, p, l)
  BY DEF Sets, Update

LEMMA ReturnSets ==
    ASSUME NEW p \in Proc, NEW code, NEW status, NEW published, Return(p, code, status, published)
    PROVE  /\ Sets(pc', pc, p, "returned") /\ Sets(local', local, p, Ended(p))
           /\ Sets(result', result, p, [code |-> code, status |-> status, published |-> published])
  BY DEF Return, Sets, Update

LEMMA EndedIsTidy ==
    ASSUME NEW p \in Proc, NEW d, NEW w, NEW s \in Gone
    PROVE  TidyAt(d, p, s, Ended(p), w)
<1>1. Ended(p).job = "lane"
  BY DEF Ended, Locals
<1> QED  BY <1>1 DEF TidyAt, LaneInUse, Gone, Unused, Before

-----------------------------------------------------------------------------
(* Before the publication nothing has been made but the workspace. *)

LEMMA ProduceLaneNeat ==
    ASSUME Inv, Tidy, NEW p \in Proc, ProduceLane(p)
    PROVE  Neat(p)
<1>1. pc[p] = "idle" /\ SameDisk
  BY DEF ProduceLane, At
<1>2. /\ TidyAt(disk, p, "idle", local[p], workspace[p]) /\ LocalOK("idle", local[p])
      /\ workspace \in [Proc -> {"absent", "empty", "used"}]
  BY <1>1, HereTidy
<1>3. /\ disk[Stage(p)] = Absent /\ ~Messy(disk[<<"lane", p>>]) /\ workspace[p] = "absent"
      /\ local[p].job = "lane"
  BY <1>2 DEF TidyAt, Unused, Before, LaneInUse, Gone, LocalOK
<1>4. CASE workspace' = [workspace EXCEPT ![p] = "used"] /\ Goto(p, "allocate") /\ UNCHANGED local
  <2>1. TidyAt(disk, p, "allocate", local[p], "used")
    BY <1>3 DEF TidyAt
  <2>2. Sets(workspace', workspace, p, "used")
    BY <1>4 DEF Sets
  <2> QED  BY <1>1, <1>4, <2>1, <2>2, GotoSets, SameSets, NeatQuietly
<1>5. CASE /\ workspace' \in {workspace, [workspace EXCEPT ![p] = "empty"]}
           /\ controllerFailure(p, "INVALID_INPUT")
  <2>1. PICK w \in {"absent", "empty"} : Sets(workspace', workspace, p, w)
    BY <1>3, <1>5 DEF Sets
  <2>2. Return(p, "INVALID_INPUT", "FAIL", FALSE)
    BY <1>5 DEF controllerFailure
  <2>3. TidyAt(disk, p, "returned", Ended(p), w)
    BY EndedIsTidy DEF Gone
  <2> QED  BY <1>1, <1>3, <2>1, <2>2, <2>3, ReturnSets, AbsentIsNotMessy, NeatQuietly
<1> QED  BY <1>4, <1>5 DEF ProduceLane

LEMMA allocateStageNeat ==
    ASSUME Inv, Tidy, NEW p \in Proc, allocateStage(p)
    PROVE  Neat(p)
<1>1. pc[p] = "allocate" /\ SameDisk
  BY DEF allocateStage, At
<1>2. TidyAt(disk, p, "allocate", local[p], workspace[p]) /\ LocalOK("allocate", local[p])
  BY <1>1, HereTidy
<1>3. /\ disk[Stage(p)] = Absent /\ ~Messy(disk[<<"lane", p>>]) /\ local[p].job = "lane"
  BY <1>2 DEF TidyAt, Unused, Before, LaneInUse, Gone, LocalOK
<1>4. CASE Goto(p, "history") /\ UNCHANGED <<workspace, local>>
  <2>1. TidyAt(disk, p, "history", local[p], workspace[p])
    BY <1>3 DEF TidyAt
  <2> QED  BY <1>1, <1>4, <2>1, GotoSets, SameSets, NeatQuietly
<1>5. CASE /\ workspace' = [workspace EXCEPT ![p] = "absent"]
           /\ controllerFailure(p, "INVALID_INPUT")
  <2>1. Sets(workspace', workspace, p, "absent")
    BY <1>5 DEF Sets
  <2>2. Return(p, "INVALID_INPUT", "FAIL", FALSE)
    BY <1>5 DEF controllerFailure
  <2>3. TidyAt(disk, p, "returned", Ended(p), "absent")
    BY EndedIsTidy DEF Gone
  <2> QED  BY <1>1, <1>3, <2>1, <2>2, <2>3, ReturnSets, AbsentIsNotMessy, NeatQuietly
<1>6. CASE controllerFailure(p, "CLEANUP_FAILED") /\ UNCHANGED workspace
  <2>1. Return(p, "CLEANUP_FAILED", "FAIL", FALSE)
    BY <1>6 DEF controllerFailure
  <2>2. TidyAt(disk, p, "returned", Ended(p), workspace[p])
    BY EndedIsTidy DEF Gone
  <2> QED  BY <1>1, <1>6, <2>1, <2>2, ReturnSets, SameSets, NeatQuietly
<1> QED  BY <1>4, <1>5, <1>6 DEF allocateStage

\* From one of these steps p goes on with a lane and no error of a removal.
LEMMA NothingMade ==
    ASSUME Inv, Tidy, NEW p \in Proc, pc[p] \in Unused, SameDisk, UNCHANGED workspace,
           NEW s, NEW l, Goto(p, s), Sets(local', local, p, l), l.job = "lane", s # "idle"
    PROVE  Neat(p)
<1>1. TidyAt(disk, p, pc[p], local[p], workspace[p]) /\ LocalOK(pc[p], local[p])
  BY HereTidy
<1>2. disk[Stage(p)] = Absent /\ ~Messy(disk[<<"lane", p>>])
  BY <1>1 DEF TidyAt, Unused, Before, LaneInUse, Gone, LocalOK
<1>3. TidyAt(disk, p, s, l, workspace[p])
  BY <1>2 DEF TidyAt
<1> QED  BY <1>3, GotoSets, SameSets, NeatQuietly

LEMMA EarlyStepsNeat ==
    ASSUME Inv, Tidy, NEW p \in Proc,
           \/ HasPriorExecution(p) \/ buildProductionLaneConfiguration(p)
           \/ validateQualificationLaneRequest(p) \/ sourceFromRepositorySnapshot(p)
    PROVE  Neat(p)
<1>1. /\ pc[p] \in {"history", "configure", "validate", "snapshot"} /\ SameDisk /\ UNCHANGED workspace
  BY DEF HasPriorExecution, buildProductionLaneConfiguration, validateQualificationLaneRequest,
         sourceFromRepositorySnapshot, At
<1>2. pc[p] \in Unused /\ local[p].job = "lane" /\ local[p] \in LocalType
  BY <1>1, HereTidy DEF LocalOK, Before, Unused
<1>3. \E s \in {"configure", "validate", "snapshot", "bind", "clean", "readback"} : \E l :
          Goto(p, s) /\ Sets(local', local, p, l) /\ l.job = "lane"
  <2>1. CASE UNCHANGED local /\ \E s \in {"configure", "validate", "snapshot", "bind"} : Goto(p, s)
    BY <1>2, <2>1, SameSets
  <2>2. ASSUME NEW codes, NoLane(p, codes)
        PROVE  \E l : Goto(p, "clean") /\ Sets(local', local, p, l) /\ l.job = "lane"
    <3>1. PICK code \in codes : Update(p, [local[p] EXCEPT !.code = code,
                          !.status = attemptTombstoneStatusForCode(code)])
      BY <2>2 DEF NoLane
    <3> DEFINE l == [local[p] EXCEPT !.code = code, !.status = attemptTombstoneStatusForCode(code)]
    <3>2. l.job = "lane"
      BY <1>2 DEF LocalType
    <3>3. Sets(local', local, p, l)
      BY <3>1, SameSets
    <3> QED  BY <2>2, <3>2, <3>3 DEF NoLane
  <2>3. ASSUME NEW err, LaneError(p, local[p], err)
        PROVE  \E l : Goto(p, "readback") /\ Sets(local', local, p, l) /\ l.job = "lane"
    <3> DEFINE l == [local[p] EXCEPT !.err = err, !.status = "FAIL"]
    <3>1. l.job = "lane"
      BY <1>2 DEF LocalType
    <3>2. Sets(local', local, p, l)
      BY <2>3, SameSets DEF LaneError
    <3> QED  BY <2>3, <3>1, <3>2 DEF LaneError
  <2> QED  BY <2>1, <2>2, <2>3 DEF HasPriorExecution, buildProductionLaneConfiguration,
              validateQualificationLaneRequest, sourceFromRepositorySnapshot
<1> QED  BY <1>1, <1>2, <1>3, NothingMade

LEMMA BindApplicationsNeat ==
    ASSUME Inv, Tidy, NEW p \in Proc, BindApplications(p)
    PROVE  Neat(p)
<1>1. pc[p] = "bind" /\ pc[p] \in Unused /\ SameDisk /\ UNCHANGED workspace
  BY DEF BindApplications, At, Unused, Before
<1>2. local[p].job = "lane" /\ local[p] \in LocalType
  BY <1>1, HereTidy DEF LocalOK, Before
<1>3. CASE Goto(p, "gate") /\ UNCHANGED local
  BY <1>1, <1>2, <1>3, SameSets, NothingMade
<1>4. CASE /\ Update(p, [local[p] EXCEPT !.gates[1] = markGateBindingFailure("BLOCKED"),
                            !.err = "GATE_BLOCKED", !.sound = FALSE])
           /\ Goto(p, "receipt")
  <2> DEFINE l == [local[p] EXCEPT !.gates[1] = markGateBindingFailure("BLOCKED"),
                                   !.err = "GATE_BLOCKED", !.sound = FALSE]
  <2>1. l.job = "lane"
    BY <1>2 DEF LocalType
  <2>2. Sets(local', local, p, l)
    BY <1>4, SameSets
  <2> HIDE DEF l
  <2> QED  BY <1>1, <1>4, <2>1, <2>2, NothingMade
<1>5. CASE Update(p, [local[p] EXCEPT !.err = "GATE_NOT_RUN"]) /\ Goto(p, "receipt")
  <2> DEFINE l == [local[p] EXCEPT !.err = "GATE_NOT_RUN"]
  <2>1. l.job = "lane"
    BY <1>2 DEF LocalType
  <2>2. Sets(local', local, p, l)
    BY <1>5, SameSets
  <2> HIDE DEF l
  <2> QED  BY <1>1, <1>5, <2>1, <2>2, NothingMade
<1>6. CASE /\ Update(p, [local[p] EXCEPT !.gates = <<>>, !.err = "INVALID_INPUT"])
           /\ Goto(p, "receipt")
  <2> DEFINE l == [local[p] EXCEPT !.gates = <<>>, !.err = "INVALID_INPUT"]
  <2>1. l.job = "lane"
    BY <1>2 DEF LocalType
  <2>2. Sets(local', local, p, l)
    BY <1>6, SameSets
  <2> HIDE DEF l
  <2> QED  BY <1>1, <1>6, <2>1, <2>2, NothingMade
<1> QED  BY <1>3, <1>4, <1>5, <1>6 DEF BindApplications

LEMMA runRequiredGatesNeat ==
    ASSUME Inv, Tidy, NEW p \in Proc, runRequiredGates(p)
    PROVE  Neat(p)
<1>1. pc[p] = "gate" /\ pc[p] \in Unused /\ SameDisk /\ UNCHANGED workspace
  BY DEF runRequiredGates, At, Unused
<1>2. local[p].job = "lane" /\ local[p] \in LocalType
  BY <1>1, HereTidy DEF LocalOK
<1> DEFINE i == local[p].ran + 1
<1> HIDE DEF i
<1>3. CASE Update(p, [local[p] EXCEPT !.err = "GATE_NOT_RUN"]) /\ Goto(p, "unbind")
  <2> DEFINE l == [local[p] EXCEPT !.err = "GATE_NOT_RUN"]
  <2>1. l.job = "lane" /\ Sets(local', local, p, l)
    BY <1>2, <1>3 DEF LocalType, Update, Sets
  <2> HIDE DEF l
  <2> QED  BY <1>1, <1>3, <2>1, NothingMade
<1>4. CASE /\ Update(p, [local[p] EXCEPT !.gates[i] = markGateBindingFailure("FAIL"),
                             !.err = "GATE_FAILED", !.sound = FALSE])
           /\ Goto(p, "unbind")
  <2> DEFINE l == [local[p] EXCEPT !.gates[i] = markGateBindingFailure("FAIL"),
                                   !.err = "GATE_FAILED", !.sound = FALSE]
  <2>1. l.job = "lane"
    BY <1>2 DEF LocalType
  <2>2. Sets(local', local, p, l)
    BY <1>4 DEF Update, Sets
  <2> HIDE DEF l
  <2> QED  BY <1>1, <1>4, <2>1, <2>2, NothingMade
<1>5. ASSUME NEW r \in Results, NEW cut \in BOOLEAN, NEW logged \in BOOLEAN,
             GateRun(p, r, cut, logged)
      PROVE  Neat(p)
  <2> DEFINE seen == IF cut THEN [r EXCEPT !.flags = @ \cup {"cancelled", "source-changed"}] ELSE r
             verdict == IF logged THEN evaluateGateResult(seen)
                        ELSE [status |-> "FAIL", exit |-> validGateExitCode(r.exit),
                              err |-> "GATE_FAILED"]
             expected == /\ logged /\ seen.flags = {} /\ seen.exit = "zero"
                         /\ seen.meets /\ ~seen.err
             record == [status |-> verdict.status, exit |-> verdict.exit, timed |-> TRUE]
             l == [local[p] EXCEPT !.cancelled = cut, !.gates[i] = record,
                       !.err = verdict.err, !.ran = i, !.sound = @ /\ expected]
             s == IF verdict.err = "none" /\ i < Gates THEN "gate" ELSE "unbind"
  <2>1. Sets(local', local, p, l) /\ Goto(p, s)
    BY <1>5 DEF GateRun, Update, Sets, i
  <2>2. s # "idle"
    OBVIOUS
  <2> HIDE DEF verdict, expected, record
  <2>3. l.job = "lane"
    BY <1>2 DEF LocalType
  <2> HIDE DEF l, s
  <2> QED  BY <1>1, <2>1, <2>2, <2>3, NothingMade
<1>6. \/ Update(p, [local[p] EXCEPT !.err = "GATE_NOT_RUN"]) /\ Goto(p, "unbind")
      \/ /\ Update(p, [local[p] EXCEPT !.gates[i] = markGateBindingFailure("FAIL"),
                           !.err = "GATE_FAILED", !.sound = FALSE])
         /\ Goto(p, "unbind")
      \/ \E r \in Results, cut \in BOOLEAN, logged \in BOOLEAN : GateRun(p, r, cut, logged)
  BY Zenon DEF runRequiredGates, GateRun, i
<1> QED  BY <1>3, <1>4, <1>5, <1>6

LEMMA releaseBindingNeat ==
    ASSUME Inv, Tidy, NEW p \in Proc, releaseBinding(p)
    PROVE  Neat(p)
<1>1. pc[p] = "unbind" /\ pc[p] \in Unused /\ SameDisk /\ UNCHANGED workspace /\ Goto(p, "receipt")
  BY DEF releaseBinding, At, Unused
<1>2. local[p].job = "lane" /\ local[p] \in LocalType
  BY <1>1, HereTidy DEF LocalOK
<1>3. CASE UNCHANGED local
  BY <1>1, <1>2, <1>3, SameSets, NothingMade
<1>4. CASE Update(p, [local[p] EXCEPT !.gates = markLastEvaluatedGateCleanupFailure(@),
                         !.err = "CLEANUP_FAILED", !.sound = FALSE])
  <2> DEFINE l == [local[p] EXCEPT !.gates = markLastEvaluatedGateCleanupFailure(@),
                         !.err = "CLEANUP_FAILED", !.sound = FALSE]
  <2>1. l.job = "lane"
    BY <1>2 DEF LocalType
  <2>2. Sets(local', local, p, l)
    BY <1>4, SameSets
  <2> HIDE DEF l
  <2> QED  BY <1>1, <2>1, <2>2, NothingMade
<1> QED  BY <1>3, <1>4 DEF releaseBinding

LEMMA marshalCanonicalReceiptNeat ==
    ASSUME Inv, Tidy, NEW p \in Proc, marshalCanonicalReceipt(p)
    PROVE  Neat(p)
<1>1. pc[p] = "receipt" /\ pc[p] \in Unused /\ SameDisk /\ UNCHANGED workspace
  BY DEF marshalCanonicalReceipt, At, Unused
<1>2. local[p].job = "lane" /\ local[p] \in LocalType
  BY <1>1, HereTidy DEF LocalOK
<1> DEFINE g == GatesDone(local[p])
<1>3. g.job = "lane" /\ DOMAIN g = DOMAIN local[p]
  BY <1>2 DEF GatesDone, LocalType
<1> HIDE DEF g
<1>4. CASE /\ Update(p, [g EXCEPT !.status = AggregateQualificationStatus(local[p].gates)])
           /\ Goto(p, "staging")
  <2> DEFINE l == [g EXCEPT !.status = AggregateQualificationStatus(local[p].gates)]
  <2>1. l.job = "lane"
    BY <1>2, <1>3 DEF LocalType
  <2>2. Sets(local', local, p, l)
    BY <1>4, SameSets
  <2> HIDE DEF l
  <2> QED  BY <1>1, <1>4, <2>1, <2>2, NothingMade
<1>5. CASE LaneError(p, g, "RECEIPT_INVALID")
  <2> DEFINE l == [g EXCEPT !.err = "RECEIPT_INVALID", !.status = "FAIL"]
  <2>1. l.job = "lane"
    BY <1>2, <1>3 DEF LocalType
  <2>2. Sets(local', local, p, l) /\ Goto(p, "readback")
    BY <1>5, SameSets DEF LaneError
  <2> HIDE DEF l
  <2> QED  BY <1>1, <2>1, <2>2, NothingMade
<1> QED  BY <1>4, <1>5 DEF marshalCanonicalReceipt, g

-----------------------------------------------------------------------------
(* The ways a publication ends. *)

\* p goes on; what it knows of its disk stays true.
LEMMA NeatGoto ==
    ASSUME Inv, Tidy, NEW p \in Proc, NEW s, NEW l, Goto(p, s), Sets(local', local, p, l),
           UNCHANGED workspace, Apart(p), TidyAt(disk', p, s, l, workspace[p])
    PROVE  Neat(p)
  BY GotoSets, SameSets, NeatTurn

LEMMA NeatError ==
    ASSUME Inv, Tidy, NEW p \in Proc, local[p].job = "lane", NEW err, LaneError(p, local[p], err),
           UNCHANGED workspace, Apart(p),
           Messy(disk'[<<"lane", p>>]) => err = "CLEANUP_FAILED" /\ disk'[Stage(p)] = Absent
    PROVE  Neat(p)
<1> DEFINE m == [local[p] EXCEPT !.err = err, !.status = "FAIL"]
<1>1. m.job = "lane" /\ m.err = err
  BY HereTidy DEF LocalType
<1>2. Goto(p, "readback") /\ Sets(local', local, p, m)
  BY SameSets DEF LaneError
<1> HIDE DEF m
<1>3. TidyAt(disk', p, "readback", m, workspace[p])
  BY <1>1 DEF TidyAt, LaneInUse, Unused, Before
<1> QED  BY <1>2, <1>3, NeatGoto

LEMMA NeatReturn ==
    ASSUME Inv, Tidy, NEW p \in Proc, NEW code, NEW status, NEW published,
           Return(p, code, status, published), UNCHANGED workspace, Apart(p),
           code # "CLEANUP_FAILED" =>
               /\ workspace[p] # "used"
               /\ ~Messy(disk'[Stage(p)]) /\ ~Messy(disk'[<<"lane", p>>])
    PROVE  Neat(p)
<1>1. TidyAt(disk', p, "returned", Ended(p), workspace[p])
  BY EndedIsTidy DEF Gone
<1> DEFINE r == [code |-> code, status |-> status, published |-> published]
<1>2. r.code = code /\ Sets(result', result, p, r)
  BY ReturnSets
<1> HIDE DEF r
<1> QED  BY <1>1, <1>2, ReturnSets, SameSets, NeatTurn

\* What a producer that publishes a tombstone leaves behind is reported.
LEMMA TombstoneTells ==
    ASSUME Inv, Tidy, NEW p \in Proc, local[p].job = "tombstone", pc[p] \notin Gone,
           local[p].code # "CLEANUP_FAILED"
    PROVE  /\ workspace[p] # "used"
           /\ disk[Stage(p)] = Absent /\ ~Messy(disk[<<"lane", p>>])
<1>1. TidyAt(disk, p, pc[p], local[p], workspace[p]) /\ LocalOK(pc[p], local[p])
  BY HereTidy
<1>2. pc[p] \notin {"clean", "readback"}
  BY <1>1 DEF LocalOK, Judging
<1> QED  BY <1>1, <1>2 DEF TidyAt, LaneInUse

LEMMA NeatFailed ==
    ASSUME Inv, Tidy, NEW p \in Proc, pc[p] \notin Gone, NEW err, PublicationFailed(p, err),
           UNCHANGED workspace, Apart(p),
           local[p].job = "tombstone" =>
               disk'[Stage(p)] = disk[Stage(p)] /\ disk'[<<"lane", p>>] = disk[<<"lane", p>>],
           (local[p].job = "lane" /\ Messy(disk'[<<"lane", p>>])) =>
               err = "CLEANUP_FAILED" /\ disk'[Stage(p)] = Absent
    PROVE  Neat(p)
<1>1. CASE local[p].job = "lane" /\ LaneError(p, local[p], err)
  BY <1>1, NeatError
<1>2. CASE /\ local[p].job = "tombstone"
           /\ Return(p, local[p].code, attemptTombstoneStatusForCode(local[p].code), FALSE)
  BY <1>2, TombstoneTells, AbsentIsNotMessy, NeatReturn
<1> QED  BY <1>1, <1>2 DEF PublicationFailed

LEMMA NeatFailure ==
    ASSUME Inv, Tidy, NEW p \in Proc, controllerFailure(p, "CLEANUP_FAILED"),
           UNCHANGED workspace, Apart(p)
    PROVE  Neat(p)
  BY NeatReturn DEF controllerFailure

LEMMA NeatWithdraw ==
    ASSUME Inv, Tidy, NEW p \in Proc, NEW l \in LocalType, NEW then, Withdraw(p, l, then),
           NEW w, Sets(workspace', workspace, p, w), Apart(p),
           w = "absent" \/ (then = "tombstone" /\ l.code = "CLEANUP_FAILED"),
           Messy(disk'[<<"lane", p>>]) => then = "tombstone" /\ l.code = "CLEANUP_FAILED"
    PROVE  Neat(p)
<1> DEFINE m == [l EXCEPT !.job = "withdraw", !.then = then]
<1>1. m.job = "withdraw" /\ m.then = then /\ m.code = l.code
  BY DEF LocalType
<1>2. Goto(p, "withdraw") /\ Sets(local', local, p, m)
  BY SameSets DEF Withdraw
<1> HIDE DEF m
<1>3. TidyAt(disk', p, "withdraw", m, w)
  BY <1>1 DEF TidyAt, LaneInUse, Unused, Before
<1> QED  BY <1>2, <1>3, GotoSets, NeatTurn

LEMMA NeatWithdrawn ==
    ASSUME Inv, Tidy, NEW p \in Proc, pc[p] \in {"withdraw", "retract", "unlink"},
           local[p].job = "withdraw", Withdrawn(p), UNCHANGED workspace, Apart(p),
           disk'[Stage(p)] = Absent, disk'[<<"lane", p>>] = disk[<<"lane", p>>]
    PROVE  Neat(p)
<1>1. TidyAt(disk, p, pc[p], local[p], workspace[p]) /\ local[p] \in LocalType
  BY HereTidy
<1>2. /\ workspace[p] = "absent" \/ (local[p].code = "CLEANUP_FAILED" /\ local[p].then = "tombstone")
      /\ Messy(disk'[<<"lane", p>>]) =>
             local[p].code = "CLEANUP_FAILED" /\ local[p].then = "tombstone"
  BY <1>1 DEF TidyAt, LaneInUse, Gone
<1>3. CASE /\ local[p].then = "tombstone"
           /\ Update(p, [local[p] EXCEPT !.job = "tombstone"]) /\ Goto(p, "staging")
  <2> DEFINE m == [local[p] EXCEPT !.job = "tombstone"]
  <2>1. m.job = "tombstone" /\ m.code = local[p].code /\ Sets(local', local, p, m)
    BY <1>1, <1>3, SameSets DEF LocalType
  <2> HIDE DEF m
  <2>2. TidyAt(disk', p, "staging", m, workspace[p])
    BY <1>2, <2>1 DEF TidyAt, LaneInUse, Unused, Before
  <2> QED  BY <1>3, <2>1, <2>2, NeatGoto
<1>4. CASE local[p].then # "tombstone" /\ controllerFailure(p, local[p].then)
  BY <1>2, <1>4, AbsentIsNotMessy, NeatReturn DEF controllerFailure
<1> QED  BY <1>3, <1>4 DEF Withdrawn

LEMMA NeatRetracted ==
    ASSUME Inv, Tidy, NEW p \in Proc, pc[p] \in {"retract", "unlink"}, NEW ok \in BOOLEAN,
           Retracted(p, ok), UNCHANGED workspace, Apart(p),
           disk'[<<"lane", p>>] = disk[<<"lane", p>>],
           local[p].job = "tombstone" => disk'[Stage(p)] = disk[Stage(p)],
           (ok /\ local[p].job = "withdraw") => disk'[Stage(p)] = Absent
    PROVE  Neat(p)
<1>1. TidyAt(disk, p, pc[p], local[p], workspace[p]) /\ local[p] \in LocalType
  BY HereTidy
<1>2. local[p].job \in {"lane", "promote"} => ~Messy(disk[<<"lane", p>>])
  BY <1>1 DEF TidyAt, LaneInUse, Gone
<1>3. pc[p] \notin Gone
  BY DEF Gone
<1>4. CASE /\ local[p].job \in {"lane", "tombstone"}
           /\ PublicationFailed(p, IF ok THEN local[p].then ELSE "CLEANUP_FAILED")
  BY <1>2, <1>3, <1>4, NeatFailed
<1>5. CASE local[p].job = "promote" /\ Withdraw(p, local[p], "DESTINATION_EXISTS")
  <2>1. workspace[p] = "absent"
    BY <1>1, <1>5 DEF TidyAt
  <2> QED  BY <1>1, <1>2, <1>5, <2>1, SameSets, NeatWithdraw
<1>6. CASE /\ local[p].job = "withdraw"
           /\ IF ok THEN Withdrawn(p) ELSE controllerFailure(p, "CLEANUP_FAILED")
  BY <1>6, NeatWithdrawn, NeatFailure
<1> QED  BY <1>4, <1>5, <1>6 DEF Retracted

-----------------------------------------------------------------------------
(* Publication. *)

LEMMA SameIsApart ==
    ASSUME NEW p \in Proc
    PROVE  /\ UNCHANGED disk => Apart(p)
           /\ SameDisk => Apart(p) /\ disk' = disk
           /\ Writes(p) => Apart(p)
  BY DEF Apart, SameDisk, Writes

\* The staging directory is p's own and not the stage.
LEMMA StagingChanges ==
    ASSUME Inv, NEW p \in Proc, pc[p] \in Publishing, NEW c \in Content, c = Absent \/ c.owner = p,
           Put(One(Staging(p), c))
    PROVE  /\ Apart(p) /\ disk'[Stage(p)] = disk[Stage(p)]
           /\ disk'[<<local[p].job, p>>] = c
           /\ local[p].job = "tombstone" => disk'[<<"lane", p>>] = disk[<<"lane", p>>]
<1>1. /\ local[p].job \in {"lane", "tombstone"}
      /\ local[p].job \in Kinds /\ local[p].job # "stage"
      /\ Staging(p) = <<local[p].job, p>> /\ Staging(p) \in Name
  BY PublishingFacts
<1>2. Stage(p) = <<"stage", p>> /\ "stage" \in Kinds /\ "lane" \in Kinds
  BY DEF Stage, Kinds
<1>3. Becomes(<<local[p].job, p>>, c)
  BY <1>1, Here, PutOne
<1> QED  BY <1>1, <1>2, <1>3, OwnName, SameIsApart

LEMMA createPrivateQualificationStagingNeat ==
    ASSUME Inv, Tidy, NEW p \in Proc, createPrivateQualificationStaging(p)
    PROVE  Neat(p)
<1>1. pc[p] = "staging" /\ pc[p] \in Publishing /\ pc[p] \notin Gone /\ UNCHANGED workspace /\ Types
  BY Here DEF createPrivateQualificationStaging, At, Publishing, Gone
<1>2. /\ local[p] \in LocalType /\ local[p].job \in {"lane", "tombstone"}
      /\ local[p].job \in Kinds /\ local[p].job # "stage"
      /\ Staging(p) = <<local[p].job, p>> /\ Staging(p) \in Name
      /\ Artifact(p, FALSE) \in Content /\ Artifact(p, FALSE).owner = p
  BY <1>1, PublishingFacts
<1>3. TidyAt(disk, p, "staging", local[p], workspace[p])
  BY <1>1, HereTidy
<1>4. local[p].job = "lane" => disk[Stage(p)] = Absent /\ ~Messy(disk[<<"lane", p>>])
  BY <1>3 DEF TidyAt, LaneInUse, Gone
<1>7. CASE Put(One(Staging(p), Artifact(p, FALSE))) /\ Goto(p, "fill") /\ UNCHANGED local
  <2>1. /\ Apart(p) /\ disk'[Stage(p)] = disk[Stage(p)]
        /\ local[p].job = "tombstone" => disk'[<<"lane", p>>] = disk[<<"lane", p>>]
    BY <1>1, <1>2, <1>7, StagingChanges
  <2>2. TidyAt(disk', p, "fill", local[p], workspace[p])
    BY <1>2, <1>3, <2>1 DEF TidyAt, LaneInUse, Unused, Before, Gone
  <2> QED  BY <1>1, <1>7, <2>1, <2>2, SameSets, NeatGoto
<1>8. CASE PublicationFailed(p, Refusal(p)) /\ SameDisk
  BY <1>1, <1>4, <1>8, SameIsApart, NeatFailed
<1>9. CASE /\ PublicationFailed(p, Refusal(p))
           /\ Put(One(Staging(p), Package(p, "empty", "FAIL", FALSE)))
  <2> DEFINE c == Package(p, "empty", "FAIL", FALSE)
  <2>1. c \in Content /\ c.owner = p /\ ~Messy(c)
    BY AbsentIsNotMessy DEF Package, Content, Status
  <2> HIDE DEF c
  <2>2. /\ Apart(p) /\ disk'[Stage(p)] = disk[Stage(p)] /\ disk'[<<local[p].job, p>>] = c
        /\ local[p].job = "tombstone" => disk'[<<"lane", p>>] = disk[<<"lane", p>>]
    BY <1>1, <1>9, <2>1, StagingChanges DEF c
  <2> QED  BY <1>1, <1>9, <2>1, <2>2, NeatFailed
<1> QED  BY <1>7, <1>8, <1>9 DEF createPrivateQualificationStaging

\* While it publishes, p is as tidy at one step as at another.
LEMMA PublishingIsTidy ==
    ASSUME NEW p \in Proc, NEW d, NEW s \in {"fill", "rename", "unstage"},
           NEW t \in {"fill", "rename", "unstage"}, NEW l, NEW m, NEW w,
           m.job = l.job, m.code = l.code, l.job \in {"lane", "tombstone"}, TidyAt(d, p, s, l, w)
    PROVE  TidyAt(d, p, t, m, w)
  BY DEF TidyAt, LaneInUse, Unused, Before, Gone

\* A publication fails and goes to clean up its staging directory.
LEMMA NeatFail ==
    ASSUME Inv, Tidy, NEW p \in Proc, pc[p] \in {"fill", "rename"}, NEW err, Fail(p, "unstage", err),
           SameDisk, UNCHANGED workspace
    PROVE  Neat(p)
<1> DEFINE m == [local[p] EXCEPT !.then = err]
<1>1. /\ local[p] \in LocalType /\ local[p].job \in {"lane", "tombstone"}
      /\ TidyAt(disk, p, pc[p], local[p], workspace[p])
  BY HereTidy, PublishingFacts DEF Publishing
<1>2. m.job = local[p].job /\ m.code = local[p].code
  BY <1>1 DEF LocalType
<1>3. Sets(local', local, p, m) /\ Goto(p, "unstage")
  BY SameSets DEF Fail
<1> HIDE DEF m
<1>4. TidyAt(disk, p, "unstage", m, workspace[p])
  BY <1>1, <1>2, PublishingIsTidy
<1> QED  BY <1>3, <1>4, SameIsApart, NeatGoto

LEMMA writePrivatePackageFilesNeat ==
    ASSUME Inv, Tidy, NEW p \in Proc, writePrivatePackageFiles(p)
    PROVE  Neat(p)
<1>1. pc[p] = "fill" /\ pc[p] \in Publishing /\ UNCHANGED workspace /\ Types
  BY Here DEF writePrivatePackageFiles, At, Publishing
<1>2. /\ local[p] \in LocalType /\ local[p].job \in {"lane", "tombstone"}
      /\ local[p].job \in Kinds /\ local[p].job # "stage"
      /\ Staging(p) = <<local[p].job, p>> /\ Staging(p) \in Name
      /\ Artifact(p, TRUE) \in Content /\ Artifact(p, TRUE).owner = p
  BY <1>1, PublishingFacts
<1>3. TidyAt(disk, p, "fill", local[p], workspace[p])
  BY <1>1, HereTidy
<1>4. CASE Put(One(Staging(p), Artifact(p, TRUE))) /\ Goto(p, "rename") /\ UNCHANGED local
  <2>1. /\ Apart(p) /\ disk'[Stage(p)] = disk[Stage(p)]
        /\ local[p].job = "tombstone" => disk'[<<"lane", p>>] = disk[<<"lane", p>>]
    BY <1>1, <1>2, <1>4, StagingChanges
  <2>2. TidyAt(disk', p, "rename", local[p], workspace[p])
    BY <1>2, <1>3, <2>1 DEF TidyAt, LaneInUse, Unused, Before, Gone
  <2> QED  BY <1>1, <1>4, <2>1, <2>2, SameSets, NeatGoto
<1>5. CASE SameDisk /\ Fail(p, "unstage", "INVALID_INPUT")
  BY <1>1, <1>5, NeatFail
<1> QED  BY <1>4, <1>5 DEF writePrivatePackageFiles

LEMMA publishPackageDirectoryNoReplaceNeat ==
    ASSUME Inv, Tidy, NEW p \in Proc, publishPackageDirectoryNoReplace(p)
    PROVE  Neat(p)
<1>1. pc[p] = "rename" /\ pc[p] \in Publishing /\ UNCHANGED workspace
  BY DEF publishPackageDirectoryNoReplace, At, Publishing
<1>2. /\ local[p] \in LocalType /\ local[p].job \in {"lane", "tombstone"}
      /\ local[p].job \in Kinds /\ local[p].job # "stage"
      /\ Staging(p) = <<local[p].job, p>> /\ Staging(p) \in Name
      /\ ArtifactOf(p, local[p]) # Absent /\ ArtifactOf(p, local[p]).kind = local[p].job
  BY <1>1, PublishingFacts
<1>3. /\ TidyAt(disk, p, "rename", local[p], workspace[p])
      /\ disk[<<local[p].job, p>>] = ArtifactOf(p, local[p])
      /\ Stage(p) = <<"stage", p>> /\ Stage(p) \in Name /\ <<"lane", p>> \in Name
      /\ Stage(p) # <<"lane", p>>
  BY <1>1, HereTidy DEF Reached
<1>4. CASE Rename(Staging(p), Target(p)) /\ Goto(p, "release") /\ UNCHANGED local
  <2>1. CASE local[p].job = "lane"
    <3>1. Target(p) = Stage(p) /\ "lane" \in Kinds
      BY <2>1 DEF Target, Kinds
    <3>2. Apart(p)
      BY <1>2, <1>3, <1>4, <2>1, <3>1, RenameFacts, SameIsApart
    <3>3. disk'[<<"lane", p>>] = Absent
      BY <1>2, <1>3, <1>4, <2>1, <3>1 DEF Rename, Put
    <3>4. TidyAt(disk', p, "release", local[p], workspace[p])
      BY <2>1, <3>3, AbsentIsNotMessy DEF TidyAt, Unused, Before
    <3> QED  BY <1>1, <1>4, <3>2, <3>4, SameSets, NeatGoto
  <2>2. CASE local[p].job = "tombstone"
    <3>1. Target(p) = Output /\ "tombstone" \in Kinds /\ "stage" \in Kinds /\ "lane" \in Kinds
      BY <2>2 DEF Target, Kinds
    <3>2. Apart(p)
      BY <1>2, <1>4, <2>2, <3>1, NameFacts, RenameFacts, SameIsApart
    <3>3. <<"lane", p>> \notin {Staging(p), Output} /\ Stage(p) \notin {Staging(p), Output}
      BY <1>2, <1>3, <2>2, <3>1, NameFacts
    <3>4. disk'[<<"lane", p>>] = disk[<<"lane", p>>] /\ disk'[Stage(p)] = disk[Stage(p)]
      BY <1>3, <1>4, <3>1, <3>3 DEF Rename, Put
    <3>5. TidyAt(disk', p, "release", local[p], workspace[p])
      BY <1>3, <2>2, <3>4 DEF TidyAt, LaneInUse, Unused, Before, Gone
    <3> QED  BY <1>1, <1>4, <3>2, <3>5, SameSets, NeatGoto
  <2> QED  BY <1>2, <2>1, <2>2
<1>5. CASE SameDisk /\ Fail(p, "unstage", Refusal(p))
  BY <1>1, <1>5, NeatFail
<1> QED  BY <1>4, <1>5 DEF publishPackageDirectoryNoReplace

\* After the rename nothing is in the lane's staging directory unless it was
\* there before the tombstone.
LEMMA LaterIsTidy ==
    ASSUME NEW p \in Proc, NEW d, NEW l, NEW m, NEW w,
           NEW s \in {"release", "sync", "verify"}, NEW t \in {"sync", "verify", "retract"},
           m.job = l.job, m.code = l.code, l.job \in {"lane", "tombstone"}, TidyAt(d, p, s, l, w)
    PROVE  TidyAt(d, p, t, m, w)
  BY DEF TidyAt, LaneInUse, Unused, Before, Gone

\* The publication fails and is taken back.
LEMMA NeatRetract ==
    ASSUME Inv, Tidy, NEW p \in Proc, pc[p] \in {"release", "sync", "verify"}, NEW m,
           local[p].job \in {"lane", "tombstone"}, m.job = local[p].job, m.code = local[p].code,
           Sets(local', local, p, m), NEW t \in {"sync", "verify", "retract"},
           Goto(p, t), SameDisk, UNCHANGED workspace
    PROVE  Neat(p)
<1> DEFINE l == local[p]
           s == pc[p]
<1>1. TidyAt(disk, p, s, l, workspace[p])
  BY HereTidy
<1>2. m.job = l.job /\ m.code = l.code /\ l.job \in {"lane", "tombstone"} /\ s \in {"release", "sync", "verify"}
  OBVIOUS
<1> HIDE DEF l, s
<1>3. TidyAt(disk, p, t, m, workspace[p])
  BY <1>1, <1>2, LaterIsTidy
<1> QED  BY <1>3, SameIsApart, NeatGoto

LEMMA FailSets ==
    ASSUME Inv, NEW p \in Proc, NEW s, NEW err, Fail(p, s, err)
    PROVE  \E m : /\ m.job = local[p].job /\ m.code = local[p].code
                  /\ Sets(local', local, p, m) /\ Goto(p, s)
<1> DEFINE m == [local[p] EXCEPT !.then = err]
<1>1. m.job = local[p].job /\ m.code = local[p].code
  BY Here DEF LocalType
<1>2. Sets(local', local, p, m) /\ Goto(p, s)
  BY SameSets DEF Fail
<1> HIDE DEF m
<1> QED  BY <1>1, <1>2

LEMMA releaseStagingNeat ==
    ASSUME Inv, Tidy, NEW p \in Proc, releaseStaging(p)
    PROVE  Neat(p)
<1>1. pc[p] = "release" /\ SameDisk /\ UNCHANGED workspace
  BY DEF releaseStaging, At
<1>2. local[p].job \in {"lane", "tombstone"}
  BY <1>1, PublishingFacts DEF Publishing
<1>3. CASE Goto(p, "sync") /\ UNCHANGED local
  BY <1>1, <1>2, <1>3, SameSets, NeatRetract
<1>4. CASE Fail(p, "retract", "CLEANUP_FAILED")
  BY <1>1, <1>2, <1>4, FailSets, NeatRetract
<1> QED  BY <1>3, <1>4 DEF releaseStaging

LEMMA syncPublishedPackageParentNeat ==
    ASSUME Inv, Tidy, NEW p \in Proc, syncPublishedPackageParent(p)
    PROVE  Neat(p)
<1>1. pc[p] = "sync" /\ pc[p] \notin Gone /\ UNCHANGED disk /\ UNCHANGED workspace
  BY DEF syncPublishedPackageParent, At, SameDisk, Gone
<1>2. local[p].job \in {"lane", "tombstone"} /\ TidyAt(disk, p, "sync", local[p], workspace[p])
  BY <1>1, PublishingFacts, HereTidy DEF Publishing
<1>3. CASE Goto(p, "verify") /\ UNCHANGED local
  <2>1. TidyAt(disk', p, "verify", local[p], workspace[p])
    BY <1>1, <1>2, LaterIsTidy
  <2> QED  BY <1>1, <1>3, <2>1, SameSets, SameIsApart, NeatGoto
<1>4. CASE /\ local[p].job = "tombstone"
           /\ Return(p, local[p].code, attemptTombstoneStatusForCode(local[p].code), TRUE)
  BY <1>1, <1>4, TombstoneTells, AbsentIsNotMessy, SameIsApart, NeatReturn
<1>5. CASE SameDisk /\ Fail(p, "retract", "INVALID_INPUT")
  BY <1>1, <1>2, <1>5, FailSets, NeatRetract
<1> QED  BY <1>3, <1>4, <1>5 DEF syncPublishedPackageParent

LEMMA cleanupStagingNeat ==
    ASSUME Inv, Tidy, NEW p \in Proc, cleanupStaging(p)
    PROVE  Neat(p)
<1>1. pc[p] = "unstage" /\ pc[p] \in Publishing /\ pc[p] \notin Gone /\ UNCHANGED workspace
  BY DEF cleanupStaging, At, Publishing, Gone
<1>2. TidyAt(disk, p, "unstage", local[p], workspace[p]) /\ Absent \in Content
  BY <1>1, HereTidy DEF Content
<1>3. CASE Put(One(Staging(p), Absent)) /\ PublicationFailed(p, local[p].then)
  <2>1. /\ Apart(p) /\ disk'[Stage(p)] = disk[Stage(p)]
        /\ disk'[<<local[p].job, p>>] = Absent
        /\ local[p].job = "tombstone" => disk'[<<"lane", p>>] = disk[<<"lane", p>>]
    BY <1>1, <1>2, <1>3, StagingChanges
  <2> QED  BY <1>1, <1>3, <2>1, AbsentIsNotMessy, NeatFailed
<1>4. CASE SameDisk /\ PublicationFailed(p, "CLEANUP_FAILED")
  <2>1. local[p].job = "lane" => disk[Stage(p)] = Absent
    BY <1>2 DEF TidyAt
  <2> QED  BY <1>1, <1>4, <2>1, SameIsApart, NeatFailed
<1> QED  BY <1>3, <1>4 DEF cleanupStaging

-----------------------------------------------------------------------------
(* Withdrawal and promotion. *)

\* What is removed is the stage or the output.
LEMMA RetractedChanges ==
    ASSUME Inv, NEW p \in Proc, pc[p] \in {"retract", "unlink"}, NEW c \in Content,
           Becomes(RetractedName(p), c)
    PROVE  /\ Apart(p) /\ disk'[<<"lane", p>>] = disk[<<"lane", p>>]
           /\ local[p].job \in {"lane", "withdraw"} => disk'[Stage(p)] = c
           /\ local[p].job \in {"tombstone", "promote"} => disk'[Stage(p)] = disk[Stage(p)]
<1>1. /\ RetractedName(p) \in Name
      /\ \/ RetractedName(p) = <<"stage", p>> /\ local[p].job \in {"lane", "withdraw"}
         \/ RetractedName(p) = Output /\ local[p].job \in {"tombstone", "promote"}
  BY RetractedNameFacts
<1>2. \A m \in Name : m # RetractedName(p) => disk'[m] = disk[m]
  BY DEF Becomes
<1>3. \A q \in Proc \ {p}, k \in Kinds : <<k, q>> \in Name /\ <<k, q>> # RetractedName(p)
  BY <1>1, NameFacts DEF Kinds
<1>4. Stage(p) = <<"stage", p>> /\ Stage(p) \in Name /\ <<"lane", p>> \in Name /\ <<"lane", p>> # RetractedName(p)
  BY <1>1, NameFacts DEF Kinds, Stage
<1>5. Stage(p) # Output
  BY NameFacts DEF Kinds, Stage
<1>6. disk'[RetractedName(p)] = c
  BY DEF Becomes
<1> QED  BY <1>1, <1>2, <1>3, <1>4, <1>5, <1>6 DEF Apart

LEMMA cleanupPublishedPackageNeat ==
    ASSUME Inv, Tidy, NEW p \in Proc, cleanupPublishedPackage(p)
    PROVE  Neat(p)
<1> DEFINE n == RetractedName(p)
           c == [disk[n] EXCEPT !.whole = FALSE]
<1>1. pc[p] = "retract" /\ UNCHANGED workspace
  BY DEF cleanupPublishedPackage, At
<1>2. CASE SameDisk /\ Retracted(p, FALSE)
  BY <1>1, <1>2, SameIsApart, NeatRetracted
<1>3. CASE /\ IsOwn(p, n) /\ Put(One(n, c)) /\ Goto(p, "unlink") /\ UNCHANGED local
  <2>1. n \in Name /\ Types /\ TidyAt(disk, p, "retract", local[p], workspace[p])
        /\ local[p] \in LocalType
    BY <1>1, RetractedNameFacts, HereTidy, Here
  <2>2. disk[n] \in Content /\ disk[n] # Absent
    BY <1>3, <2>1 DEF IsOwn, Types
  <2>3. c \in Content
    BY <2>2 DEF Content
  <2> HIDE DEF c, n
  <2>4. Becomes(n, c)
    BY <1>3, <2>1, <2>3, PutOne
  <2>5. /\ Apart(p) /\ disk'[<<"lane", p>>] = disk[<<"lane", p>>]
        /\ local[p].job \in {"tombstone", "promote"} => disk'[Stage(p)] = disk[Stage(p)]
    BY <1>1, <2>3, <2>4, RetractedChanges DEF n
  <2>6. TidyAt(disk', p, "unlink", local[p], workspace[p])
    BY <2>1, <2>5 DEF TidyAt, LaneInUse, Unused, Before, Gone
  <2> QED  BY <1>1, <1>3, <2>5, <2>6, SameSets, NeatGoto
<1> QED  BY <1>2, <1>3 DEF cleanupPublishedPackage

LEMMA unlinkPublishedPackageNeat ==
    ASSUME Inv, Tidy, NEW p \in Proc, unlinkPublishedPackage(p)
    PROVE  Neat(p)
<1> DEFINE n == RetractedName(p)
<1>1. pc[p] = "unlink" /\ UNCHANGED workspace /\ n \in Name /\ Types /\ Absent \in Content
  BY RetractedNameFacts, Here DEF unlinkPublishedPackage, At, Content
<1>2. CASE SameDisk /\ Retracted(p, FALSE)
  BY <1>1, <1>2, SameIsApart, NeatRetracted
<1>3. ASSUME NEW ok \in BOOLEAN, Becomes(n, Absent), Retracted(p, ok)
      PROVE  Neat(p)
  <2>1. /\ Apart(p) /\ disk'[<<"lane", p>>] = disk[<<"lane", p>>]
        /\ local[p].job \in {"lane", "withdraw"} => disk'[Stage(p)] = Absent
        /\ local[p].job \in {"tombstone", "promote"} => disk'[Stage(p)] = disk[Stage(p)]
    BY <1>1, <1>3, RetractedChanges
  <2> QED  BY <1>1, <1>3, <2>1, NeatRetracted
<1>4. \/ /\ disk' = [disk EXCEPT ![n] = Absent] /\ syncPackageDirectory
         /\ Retracted(p, TRUE)
      \/ Put(One(n, Absent)) /\ Retracted(p, FALSE)
      \/ SameDisk /\ Retracted(p, FALSE)
  BY DEF unlinkPublishedPackage
<1> HIDE DEF n
<1> QED  BY <1>1, <1>2, <1>3, <1>4, PutOne, RemoveOne

LEMMA withdrawControllerLaneStageNeat ==
    ASSUME Inv, Tidy, NEW p \in Proc, withdrawControllerLaneStage(p)
    PROVE  Neat(p)
<1>1. pc[p] = "withdraw" /\ SameDisk /\ disk' = disk /\ Apart(p) /\ UNCHANGED workspace
  BY SameIsApart DEF withdrawControllerLaneStage, At
<1>2. local[p].job = "withdraw" /\ TidyAt(disk, p, "withdraw", local[p], workspace[p])
  BY <1>1, HereTidy DEF LocalOK
<1>3. CASE disk[Stage(p)] = Absent /\ Withdrawn(p)
  BY <1>1, <1>2, <1>3, NeatWithdrawn
<1>4. CASE Goto(p, "retract") /\ UNCHANGED local
  <2>1. TidyAt(disk', p, "retract", local[p], workspace[p])
    BY <1>1, <1>2 DEF TidyAt, LaneInUse, Unused, Before, Gone
  <2> QED  BY <1>1, <1>4, <2>1, SameSets, NeatGoto
<1>5. CASE controllerFailure(p, "CLEANUP_FAILED")
  BY <1>1, <1>5, NeatFailure
<1> QED  BY <1>3, <1>4, <1>5 DEF withdrawControllerLaneStage

LEMMA verifyQualificationLanePublicationSourceNeat ==
    ASSUME Inv, Tidy, NEW p \in Proc, verifyQualificationLanePublicationSource(p)
    PROVE  Neat(p)
<1>1. pc[p] = "verify" /\ SameDisk /\ disk' = disk /\ Apart(p) /\ UNCHANGED workspace
  BY SameIsApart DEF verifyQualificationLanePublicationSource, At
<1>2. /\ local[p].job = "lane" /\ local[p] \in LocalType
      /\ TidyAt(disk, p, "verify", local[p], workspace[p])
  BY <1>1, HereTidy DEF LocalOK, Judging
<1>3. ~Messy(disk[<<"lane", p>>])
  BY <1>2 DEF TidyAt, LaneInUse, Gone
<1>4. CASE Goto(p, "readback") /\ UNCHANGED local
  <2>1. TidyAt(disk', p, "readback", local[p], workspace[p])
    BY <1>1, <1>2, <1>3 DEF TidyAt, Unused, Before
  <2> QED  BY <1>1, <1>4, <2>1, SameSets, NeatGoto
<1>5. CASE LaneError(p, local[p], "CLEANUP_FAILED")
  BY <1>1, <1>2, <1>3, <1>5, NeatError
<1>6. CASE /\ Update(p, [local[p] EXCEPT !.then = "SOURCE_DIRTY", !.sound = FALSE])
           /\ Goto(p, "retract")
  <2> DEFINE m == [local[p] EXCEPT !.then = "SOURCE_DIRTY", !.sound = FALSE]
  <2>1. m.job = local[p].job /\ m.code = local[p].code /\ Sets(local', local, p, m)
    BY <1>2, <1>6, SameSets DEF LocalType
  <2> HIDE DEF m
  <2> QED  BY <1>1, <1>2, <1>6, <2>1, NeatRetract
<1>7. CASE Fail(p, "retract", "INVALID_INPUT")
  BY <1>1, <1>2, <1>7, FailSets, NeatRetract
<1> QED  BY <1>4, <1>5, <1>6, <1>7 DEF verifyQualificationLanePublicationSource

LEMMA produceControllerLaneStageNeat ==
    ASSUME Inv, Tidy, NEW p \in Proc, produceControllerLaneStage(p)
    PROVE  Neat(p)
<1> DEFINE l == local[p]
           code == IF l.err = "none" THEN "none" ELSE qualificationLaneErrorCode(l.err, l.status)
           m(ready, status, c) == [l EXCEPT !.ready = ready, !.status = status, !.code = c, !.err = "none"]
<1>1. /\ pc[p] = "readback" /\ SameDisk /\ disk' = disk /\ Apart(p) /\ UNCHANGED workspace
      /\ Goto(p, "clean")
  BY SameIsApart DEF produceControllerLaneStage, At
<1>2. l.job = "lane" /\ l \in LocalType /\ TidyAt(disk, p, "readback", l, workspace[p])
  BY <1>1, HereTidy DEF LocalOK, Judging
<1>3. \/ IsWhole(Stage(p)) /\ \E ready \in BOOLEAN : \E status, c : Update(p, m(ready, status, c))
      \/ code # "none" /\ Update(p, m(FALSE, l.status, code))
      \/ code = "none" /\ Update(p, m(FALSE, "FAIL", "RECEIPT_INVALID"))
  BY DEF produceControllerLaneStage
<1>4. Messy(disk[<<"lane", p>>]) => l.err = "CLEANUP_FAILED" /\ disk[Stage(p)] = Absent
  BY <1>2 DEF TidyAt, LaneInUse, Gone
<1>5. l.err = "CLEANUP_FAILED" => code = "CLEANUP_FAILED"
  BY DEF qualificationLaneErrorCode
<1> HIDE DEF code
<1>6. ASSUME NEW ready \in BOOLEAN, NEW status, NEW c, Update(p, m(ready, status, c)),
             Messy(disk[<<"lane", p>>]) => ~ready /\ c = "CLEANUP_FAILED"
      PROVE  Neat(p)
  <2> DEFINE k == m(ready, status, c)
  <2>1. k.job = "lane" /\ k.ready = ready /\ k.code = c /\ Sets(local', local, p, k)
    BY <1>2, <1>6, SameSets DEF LocalType
  <2> HIDE DEF k
  <2>2. TidyAt(disk', p, "clean", k, workspace[p])
    BY <1>1, <1>6, <2>1 DEF TidyAt, LaneInUse, Unused, Before
  <2> QED  BY <1>1, <2>1, <2>2, NeatGoto
<1>7. IsWhole(Stage(p)) => ~Messy(disk[<<"lane", p>>])
  BY <1>4 DEF IsWhole
<1> HIDE DEF m
<1> QED  BY <1>3, <1>4, <1>5, <1>6, <1>7

LEMMA cleanupWorkspaceNeat ==
    ASSUME Inv, Tidy, NEW p \in Proc, cleanupWorkspace(p)
    PROVE  Neat(p)
<1> DEFINE l == local[p]
<1>1. pc[p] = "clean" /\ SameDisk /\ disk' = disk /\ Apart(p)
  BY SameIsApart DEF cleanupWorkspace, At
<1>2. /\ l.job = "lane" /\ l \in LocalType /\ normalizeProduceLaneOutcome(l)
      /\ TidyAt(disk, p, "clean", l, workspace[p])
  BY <1>1, HereTidy DEF LocalOK, Judging
<1>3. Messy(disk[<<"lane", p>>]) => ~l.ready /\ l.code = "CLEANUP_FAILED"
  BY <1>2 DEF TidyAt, LaneInUse, Gone
<1>4. CASE /\ Withdraw(p, [l EXCEPT !.code = "CLEANUP_FAILED"], "tombstone")
           /\ UNCHANGED workspace
  <2> DEFINE m == [l EXCEPT !.code = "CLEANUP_FAILED"]
  <2>1. m \in LocalType /\ m.code = "CLEANUP_FAILED"
    BY <1>2 DEF LocalType, Errors
  <2> HIDE DEF m
  <2> QED  BY <1>1, <1>4, <2>1, SameSets, NeatWithdraw DEF m
<1>5. CASE workspace' = [workspace EXCEPT ![p] = "absent"]
  <2>1. Sets(workspace', workspace, p, "absent")
    BY <1>5 DEF Sets
  <2>2. CASE l.ready /\ Goto(p, "promote") /\ UNCHANGED local
    <3>1. TidyAt(disk', p, "promote", l, "absent")
      BY <1>1, <1>2, <1>3, <2>2 DEF TidyAt, Unused, Before
    <3> QED  BY <1>1, <2>1, <2>2, <3>1, GotoSets, SameSets, NeatTurn
  <2>3. CASE ~l.ready /\ Withdraw(p, l, "tombstone")
    BY <1>1, <1>2, <1>3, <2>1, <2>3, NeatWithdraw
  <2> QED  BY <1>2, <1>5, <1>4, <2>2, <2>3 DEF cleanupWorkspace
<1> QED  BY <1>4, <1>5 DEF cleanupWorkspace

\* Before the promotion the workspace is gone.
LEMMA PromotingFacts ==
    ASSUME Inv, Tidy, NEW p \in Proc, pc[p] \in {"promote", "promoteRename"}
    PROVE  /\ local[p].job = "lane" /\ local[p] \in LocalType
           /\ TidyAt(disk, p, pc[p], local[p], workspace[p])
           /\ workspace[p] = "absent" /\ ~Messy(disk[<<"lane", p>>])
<1>1. /\ local[p].job = "lane" /\ local[p] \in LocalType /\ workspace[p] = "absent"
      /\ TidyAt(disk, p, pc[p], local[p], workspace[p])
  BY HereTidy DEF LocalOK, Judging, Reached
<1> QED  BY <1>1 DEF TidyAt, LaneInUse, Gone

LEMMA promoteControllerLaneStageNeat ==
    ASSUME Inv, Tidy, NEW p \in Proc, promoteControllerLaneStage(p)
    PROVE  Neat(p)
<1>1. pc[p] = "promote" /\ SameDisk /\ disk' = disk /\ Apart(p) /\ UNCHANGED workspace
  BY SameIsApart DEF promoteControllerLaneStage, At
<1>2. /\ local[p].job = "lane" /\ local[p] \in LocalType
      /\ workspace[p] = "absent" /\ ~Messy(disk[<<"lane", p>>])
  BY <1>1, PromotingFacts
<1>3. CASE Goto(p, "promoteRename") /\ UNCHANGED local
  <2>1. TidyAt(disk', p, "promoteRename", local[p], workspace[p])
    BY <1>1, <1>2 DEF TidyAt, Unused, Before
  <2> QED  BY <1>1, <1>3, <2>1, SameSets, NeatGoto
<1>4. CASE Withdraw(p, local[p], "DESTINATION_EXISTS")
  BY <1>1, <1>2, <1>4, SameSets, NeatWithdraw
<1> QED  BY <1>3, <1>4 DEF promoteControllerLaneStage

LEMMA promoteNoReplaceNeat ==
    ASSUME Inv, Tidy, NEW p \in Proc, promoteNoReplace(p)
    PROVE  Neat(p)
<1>1. pc[p] = "promoteRename" /\ UNCHANGED workspace
  BY DEF promoteNoReplace, At
<1>2. /\ local[p].job = "lane" /\ local[p] \in LocalType
      /\ workspace[p] = "absent" /\ ~Messy(disk[<<"lane", p>>])
  BY <1>1, PromotingFacts
<1>3. CASE /\ Rename(Stage(p), Output)
           /\ Update(p, [local[p] EXCEPT !.job = "promote"]) /\ Goto(p, "promoteSync")
  <2> DEFINE m == [local[p] EXCEPT !.job = "promote"]
  <2>1. m.job = "promote" /\ Sets(local', local, p, m)
    BY <1>2, <1>3, SameSets DEF LocalType
  <2> HIDE DEF m
  <2>2. /\ Stage(p) = <<"stage", p>> /\ Stage(p) \in Name /\ <<"lane", p>> \in Name
        /\ Stage(p) # <<"lane", p>> /\ Output \in Name /\ <<"lane", p>> # Output /\ Stage(p) # Output
        /\ "stage" \in Kinds
    BY HereTidy, NameFacts DEF Kinds
  <2>3. Apart(p)
    BY <1>3, <2>2, RenameFacts, SameIsApart
  <2>4. disk'[Stage(p)] = Absent /\ disk'[<<"lane", p>>] = disk[<<"lane", p>>]
    BY <1>3, <2>2 DEF Rename, Put
  <2>5. TidyAt(disk', p, "promoteSync", m, workspace[p])
    BY <1>2, <2>1, <2>4 DEF TidyAt, Unused, Before
  <2> QED  BY <1>1, <1>3, <2>1, <2>3, <2>5, NeatGoto
<1>4. CASE SameDisk /\ Withdraw(p, local[p], "DESTINATION_EXISTS")
  BY <1>1, <1>2, <1>4, SameIsApart, SameSets, NeatWithdraw
<1> QED  BY <1>3, <1>4 DEF promoteNoReplace

LEMMA syncPromotedStageNeat ==
    ASSUME Inv, Tidy, NEW p \in Proc, syncPromotedStage(p)
    PROVE  Neat(p)
<1>1. pc[p] = "promoteSync" /\ UNCHANGED disk /\ Apart(p) /\ UNCHANGED workspace
  BY SameIsApart DEF syncPromotedStage, At, SameDisk
<1>2. /\ local[p].job = "promote" /\ local[p] \in LocalType /\ workspace[p] = "absent"
      /\ TidyAt(disk, p, "promoteSync", local[p], workspace[p])
  BY <1>1, HereTidy DEF LocalOK, Reached
<1>3. disk[Stage(p)] = Absent /\ ~Messy(disk[<<"lane", p>>])
  BY <1>2 DEF TidyAt, LaneInUse, Gone
<1>4. CASE Return(p, IF local[p].status = "PASS" THEN "OK" ELSE local[p].code, local[p].status, TRUE)
  BY <1>1, <1>2, <1>3, <1>4, AbsentIsNotMessy, NeatReturn
<1>5. CASE Goto(p, "retract") /\ UNCHANGED local
  <2>1. TidyAt(disk', p, "retract", local[p], workspace[p])
    BY <1>1, <1>2, <1>3 DEF TidyAt, Unused, Before
  <2> QED  BY <1>1, <1>5, <2>1, SameSets, NeatGoto
<1> QED  BY <1>4, <1>5 DEF syncPromotedStage

-----------------------------------------------------------------------------
(* The environment, and the whole. *)

LEMMA CancelNeat ==
    ASSUME Inv, Tidy, NEW p \in Proc, Cancel(p)
    PROVE  Neat(p)
<1> DEFINE m == [local[p] EXCEPT !.cancelled = TRUE]
<1>1. /\ pc[p] \in {"history", "configure", "validate", "snapshot", "bind", "gate"}
      /\ SameDisk /\ UNCHANGED <<pc, result, workspace>> /\ Update(p, m)
  BY DEF Cancel, SameDisk
<1>2. /\ local[p].job = "lane" /\ local[p] \in LocalType
      /\ TidyAt(disk, p, pc[p], local[p], workspace[p])
  BY <1>1, HereTidy DEF LocalOK, Before
<1>3. ~Messy(disk[<<"lane", p>>]) /\ disk[Stage(p)] = Absent
  BY <1>1, <1>2 DEF TidyAt, LaneInUse, Gone, Unused, Before
<1>4. m.job = "lane" /\ Sets(local', local, p, m)
  BY <1>1, <1>2, SameSets DEF LocalType
<1> HIDE DEF m
<1>5. TidyAt(disk, p, pc[p], m, workspace[p])
  BY <1>1, <1>3, <1>4 DEF TidyAt
<1>6. Sets(pc', pc, p, pc[p]) /\ Sets(result', result, p, result[p])
  BY <1>1 DEF Sets
<1> QED  BY <1>1, <1>4, <1>5, <1>6, SameSets, NeatQuietly

LEMMA KillNeat ==
    ASSUME Inv, Tidy, NEW p \in Proc, Kill(p)
    PROVE  Neat(p)
<1>1. TidyAt(disk', p, "dead", Ended(p), workspace[p])
  BY EndedIsTidy DEF Gone
<1> QED  BY <1>1, SameIsApart, SameSets, NeatGoto DEF Kill

\* A step of one producer leaves the others as tidy as they were.
LEMMA NeatIsTidy ==
    ASSUME Inv, Tidy, NEW p \in Proc, Neat(p)
    PROVE  Tidy' /\ \A q \in Proc : Leaves(q)
<1>1. ASSUME NEW q \in Proc, q # p
      PROVE  TidyAt(disk', q, pc'[q], local'[q], workspace'[q]) /\ Leaves(q)
  <2>1. /\ pc'[q] = pc[q] /\ local'[q] = local[q] /\ workspace'[q] = workspace[q]
        /\ result'[q] = result[q]
        /\ disk'[Stage(q)] = disk[Stage(q)] /\ disk'[<<"lane", q>>] = disk[<<"lane", q>>]
    BY <1>1 DEF Neat, Others, Kinds, Stage
  <2>2. TidyAt(disk, q, pc[q], local[q], workspace[q])
    BY DEF Tidy
  <2>3. TidyAt(disk', q, pc[q], local[q], workspace[q])
    BY <2>1, <2>2 DEF TidyAt, LaneInUse
  <2> QED  BY <2>1, <2>3 DEF Leaves
<1> QED  BY <1>1 DEF Neat, Tidy

LEMMA PowerLossTidy ==
    ASSUME Inv, Tidy, PowerLoss
    PROVE  Tidy' /\ \A q \in Proc : Leaves(q)
<1> SUFFICES ASSUME NEW q \in Proc
             PROVE  TidyAt(disk', q, pc'[q], local'[q], workspace'[q]) /\ Leaves(q)
  BY DEF Tidy
<1>1. /\ pc'[q] = IF pc[q] \in Gone \cup {"idle"} THEN pc[q] ELSE "dead"
      /\ local'[q] = Ended(q) /\ workspace'[q] = workspace[q] /\ result' = result
  BY DEF PowerLoss
<1>2. disk'[Stage(q)] = Absent /\ disk'[<<"lane", q>>] = Absent
  <2>1. Stage(q) \in Name /\ <<"lane", q>> \in Name /\ Stage(q) # Output /\ <<"lane", q>> # Output
    BY NameFacts DEF Stage, Kinds
  <2> QED  BY <2>1 DEF PowerLoss
<1>3. TidyAt(disk, q, pc[q], local[q], workspace[q])
  BY DEF Tidy
<1>4. Ended(q).job = "lane"
  BY DEF Ended, Locals
<1>5. TidyAt(disk', q, pc'[q], local'[q], workspace'[q])
  BY <1>1, <1>2, <1>3, <1>4, AbsentIsNotMessy DEF TidyAt, Gone
<1> QED  BY <1>1, <1>5 DEF Leaves

LEMMA InitTidy == Init => Tidy
<1> SUFFICES ASSUME Init, NEW p \in Proc
             PROVE  TidyAt(disk, p, pc[p], local[p], workspace[p])
  BY DEF Tidy
<1>1. disk[Stage(p)] = Absent /\ disk[<<"lane", p>>] = Absent
  BY NameFacts DEF Init, Stage, Kinds
<1>2. workspace[p] = "absent" /\ local[p].job = "lane"
  BY DEF Init, Locals
<1> QED  BY <1>1, <1>2, AbsentIsNotMessy DEF TidyAt

LEMMA StepNeat ==
    ASSUME Inv, Tidy, NEW p \in Proc, Step(p)
    PROVE  Neat(p)
  BY ProduceLaneNeat, allocateStageNeat, EarlyStepsNeat, BindApplicationsNeat, runRequiredGatesNeat,
     releaseBindingNeat, marshalCanonicalReceiptNeat, createPrivateQualificationStagingNeat,
     writePrivatePackageFilesNeat, publishPackageDirectoryNoReplaceNeat, releaseStagingNeat,
     syncPublishedPackageParentNeat, cleanupStagingNeat, cleanupPublishedPackageNeat,
     unlinkPublishedPackageNeat, withdrawControllerLaneStageNeat,
     verifyQualificationLanePublicationSourceNeat, produceControllerLaneStageNeat,
     cleanupWorkspaceNeat, promoteControllerLaneStageNeat, promoteNoReplaceNeat,
     syncPromotedStageNeat DEF Step

LEMMA NextIsTidy ==
    ASSUME Inv, Tidy, [Next]_vars
    PROVE  Tidy' /\ \A q \in Proc : Leaves(q)
<1>1. CASE UNCHANGED vars
  BY <1>1 DEF vars, Tidy, TidyAt, LaneInUse, Leaves
<1>2. ASSUME NEW p \in Proc, Step(p) \/ Cancel(p) \/ Kill(p)
      PROVE  Tidy' /\ \A q \in Proc : Leaves(q)
  BY <1>2, StepNeat, CancelNeat, KillNeat, NeatIsTidy
<1>3. CASE PowerLoss
  BY <1>3, PowerLossTidy
<1> QED  BY <1>1, <1>2, <1>3 DEF Next, AllGone

\* A producer that returns leaves no private log, no stage and no staging
\* directory of its lane behind without saying CLEANUP_FAILED, whatever
\* fails on the way and whatever the other producers do.
THEOREM LeftoversReported == Spec => LeftoversAreReported
<1>1. Inv /\ Tidy /\ [Next]_vars => Tidy'
  BY NextIsTidy
<1>2. ASSUME Inv, Tidy, [Next]_vars
      PROVE  [\A p \in Proc :
                 result[p] = NoResult /\ result'[p] # NoResult /\ result'[p].code # "CLEANUP_FAILED" =>
                     /\ workspace'[p] # "used"
                     /\ \A n \in {Stage(p), <<"lane", p>>} : disk'[n].kind \in {"absent", "empty"}]_vars
  BY <1>2, NextIsTidy DEF Leaves, Messy
<1> QED  BY <1>1, <1>2, InitTidy, LaneInvariant, PTL DEF Spec, LeftoversAreReported
=============================================================================

------------------------ MODULE RunLifecycle_proofs ------------------------
(***************************************************************************)
(* Proofs about Runner.Run, for every plan, every readiness bound, and     *)
(* every interleaving of the runner, the service goroutine and the         *)
(* caller's cancellation.                                                  *)
(*                                                                         *)
(* The promises are about what Run returns, so none of them is inductive:  *)
(* that a finished run reported what it left behind rests on facts about   *)
(* every stage before.  Inv says, stage by stage, what finalization has    *)
(* already settled and which failures it has already recorded; the two     *)
(* facts that carry it past the end of Run are that a service that was not *)
(* joined has left CLEANUP_FAILED behind, and that nothing but such a      *)
(* service can stir the sandbox once the workload is quiet.                *)
(***************************************************************************)
EXTENDS RunLifecycle, TLAPS

(* What the runner's local variables may hold.                             *)
RunCodes == Codes \ {"CLEANUP_RESIDUE", "SANDBOX_DESTROY_FAILED"}

Evidence == Observers \cup {"trace"}

Locals ==
    [id : BOOLEAN, peerID : BOOLEAN, next : Nat, turn : Nat, signalled : BOOLEAN,
     primary : RunCodes \cup {NoError}, finalization : Seq(FinalizationCodes),
     resource : {NoError, "RESOURCE_LIMIT_EXCEEDED", "OBSERVER_INCOMPLETE"},
     sessions : SUBSET {"trace", "port"}, ready : SUBSET Evidence, final : SUBSET Evidence,
     quiesced : BOOLEAN, exportSafe : BOOLEAN, journey : Statuses, exported : BOOLEAN,
     peerRemoved : BOOLEAN, emitted : Nat, summary : Summary]

Engines == [target : {"absent", "created", "running"}, peer : BOOLEAN,
            workload : BOOLEAN, produced : BOOLEAN]

Services == [state : {"none", "starting", "running", "returned"},
             result : RunCodes \cup {NoError}, cancelled : BOOLEAN]

\* The finalization errors recorded so far, and two of them.
Fin(l) == {l.finalization[i] : i \in DOMAIN l.finalization}
CleanupFailed(l) == "CLEANUP_FAILED" \in Fin(l)
DestroyFailed(l) == "SANDBOX_DESTROY_FAILED" \in Fin(l)

(* The stages, by what has been settled.                                   *)
Opening == {"create", "start", "preflight", "init", "baseline", "probe", "trace", "unavailable"}
Working == {"step", "service", "readiness", "journey", "signal", "wait"}
Gathering == {"stop", "final", "resource", "disposable", "identity", "inventory"}
Exporting == {"repair", "export"}
Removing == {"peer", "remove", "finish", "done"}

-----------------------------------------------------------------------------
(* The inductive invariant.                                                *)

Types ==
    /\ plan \in Plans
    /\ pc \in Stages
    /\ ctx \in {"live", "cancelled"}
    /\ engine \in Engines
    /\ service \in Services
    /\ local \in Locals
    /\ stirred \in BOOLEAN

\* The loops stay within their bounds.
Bounds ==
    /\ local.next \in 1..(Len(plan.commands) + 1)
    /\ pc \in {"service", "readiness", "journey"} => local.next <= Len(plan.commands)
    /\ pc = "readiness" => local.turn < MaxReadinessAttempts

\* Where the service goroutine may be, and what the runner has recorded of
\* it: past the join it is absent, or cancelled and, unless it returned,
\* reported.
Joined ==
    /\ pc \in Opening => service.state = "none"
    /\ pc \in {"quiesce"} \cup Gathering \cup Exporting \cup Removing =>
           \/ service.state = "none"
           \/ service.cancelled /\ (service.state # "returned" => CleanupFailed(local))

\* Once the workload is quiet only a service that was not joined can stir it.
Quiet ==
    /\ local.quiesced => pc \in Gathering \cup Exporting \cup Removing
    /\ pc \in Gathering \cup Exporting => local.quiesced
    /\ stirred => CleanupFailed(local)
    /\ local.quiesced /\ engine.workload => CleanupFailed(local)

\* The cleanup summary as the stages build it up, and the observation that
\* is made of it exactly once.
Opened == newCleanupResidueSummary("inventory-not-attempted")

\* An observation that Build accepts, or the one that it is known to refuse.
Recognised(d, allowed) == cleanupObservationValid(d, allowed) \/ DisposableReappeared(d)

Summarised ==
    /\ pc \in Opening \cup Working \cup {"quiesce", "stop", "final", "resource", "disposable"} =>
           local.summary = Opened
    /\ pc = "identity" =>
           local.summary = [Opened EXCEPT !.quiescent = TRUE, !.disposable = TRUE]
    /\ pc = "inventory" =>
           local.summary = [Opened EXCEPT !.quiescent = TRUE, !.disposable = TRUE,
                                          !.identity = TRUE]
    /\ pc \notin Exporting \cup Removing => local.emitted = 0
    /\ pc \in Exporting \cup Removing =>
           /\ local.emitted = 1
           /\ Recognised(local.summary, plan.allowed)
           /\ local.summary.verdict = "not-tested" =>
                  local.finalization # << >> \/ local.primary # NoError
    /\ pc \in Exporting => local.summary.residue # "unsafe"
    /\ pc = "unavailable" => local.primary # NoError
    /\ local.summary.verdict = "clean" => ~engine.produced \/ CleanupFailed(local)

\* What is gone, and what is reported because it may not be.
Released ==
    /\ pc \in {"identity", "inventory"} \cup Exporting => local.id
    /\ pc \in Opening \cup {"final", "resource", "disposable", "identity", "inventory"}
              \cup Exporting \cup Removing => local.sessions = {}
    /\ local.peerRemoved => pc \in {"remove", "finish", "done"} /\ ~engine.peer
    /\ pc \in {"remove", "finish", "done"} =>
           (local.peerID /\ engine.peer => DestroyFailed(local))
    /\ pc \in {"finish", "done"} => (engine.target # "absent" => DestroyFailed(local))

\* What Run returned follows from what it had recorded.
Concluded ==
    /\ pc # "done" => outcome = NoOutcome
    /\ pc = "done" =>
           /\ MayReturn(outcome)
           /\ Fin(local) \subseteq outcome.errors
           /\ outcome.cleanup = cleanupOutcome(local)
           /\ outcome.compared => local.peerRemoved
           /\ outcome.valid \/ DisposableReappeared(local.summary)

Inv == Types /\ Bounds /\ Joined /\ Quiet /\ Summarised /\ Released /\ Concluded
-----------------------------------------------------------------------------
(* Lemmas about the operators.                                             *)

(* Recording a finalization error keeps the slice well typed and adds the  *)
(* code to the errors recorded.                                            *)
LEMMA RecordFacts ==
    ASSUME NEW f \in Seq(FinalizationCodes), NEW c \in FinalizationCodes
    PROVE  /\ Append(f, c) \in Seq(FinalizationCodes)
           /\ Append(f, c) # << >>
           /\ {Append(f, c)[i] : i \in DOMAIN Append(f, c)} = {f[i] : i \in DOMAIN f} \cup {c}
  <1> DEFINE g == Append(f, c)
  <1>1. g \in Seq(FinalizationCodes) /\ Len(g) = Len(f) + 1 /\ Len(f) \in Nat
        /\ DOMAIN g = 1..(Len(f) + 1) /\ DOMAIN f = 1..Len(f)
    OBVIOUS
  <1>2. \A i \in 1..Len(f) : g[i] = f[i]
    OBVIOUS
  <1>3. g[Len(f) + 1] = c
    OBVIOUS
  <1>4. g # << >>
    BY <1>1
  <1>5. {g[i] : i \in DOMAIN g} \subseteq {f[i] : i \in DOMAIN f} \cup {c}
    <2> SUFFICES ASSUME NEW i \in 1..(Len(f) + 1)
                 PROVE  g[i] \in {f[j] : j \in DOMAIN f} \cup {c}
      BY <1>1
    <2>1. CASE i = Len(f) + 1
      BY <2>1, <1>3
    <2>2. CASE i # Len(f) + 1
      <3>1. i \in 1..Len(f)
        BY <2>2, <1>1
      <3> QED
        BY <3>1, <1>2, <1>1
    <2> QED
      BY <2>1, <2>2
  <1>6. {f[i] : i \in DOMAIN f} \cup {c} \subseteq {g[i] : i \in DOMAIN g}
    <2>1. \A i \in DOMAIN f : i \in DOMAIN g /\ g[i] = f[i]
      BY <1>1, <1>2
    <2>2. Len(f) + 1 \in DOMAIN g
      BY <1>1
    <2> QED
      BY <2>1, <2>2, <1>3
  <1> QED
    BY <1>1, <1>4, <1>5, <1>6

(* The codes the runner and the service may end with, and no code is the   *)
(* absence of an error.                                                    *)
LEMMA CodeFacts ==
    /\ {"SANDBOX_PREPARE_FAILED", "SANDBOX_START_FAILED", "OBSERVER_START_FAILED",
        "RUNNER_FEATURE_UNAVAILABLE", "RUNTIME_VERSION_UNRESOLVED", "SETUP_FAILED",
        "BUILD_FAILED", "CLEANUP_FAILED", "JOURNEY_ASSERTION_FAILED", "TIMEOUT",
        "CANCELLED", "SERVICE_START_FAILED", "READINESS_FAILED", "PROCESS_LEAK",
        "OBSERVER_INCOMPLETE", "RESOURCE_LIMIT_EXCEEDED"} \subseteq RunCodes
    /\ NoError \notin RunCodes
    /\ {"CLEANUP_FAILED", "SANDBOX_DESTROY_FAILED", "RESOURCE_LIMIT_EXCEEDED",
        "FORBIDDEN_FILESYSTEM_ACCESS"} = FinalizationCodes
    /\ NoError \notin FinalizationCodes /\ NoError # "CLEANUP_RESIDUE"
  BY CodesAssumption
  DEF RunCodes, Codes, VerdictCodes, BlockedCodes, FailCodes, InconclusiveCodes,
      NonconformingCodes, ResidueCodes, TechnicalCodes, FinalizationCodes

(* A new primary error, or a recorded finalization error, leaves the other *)
(* local variables alone.                                                  *)
LEMMA PrimaryFacts ==
    ASSUME NEW l \in Locals, NEW c \in RunCodes \cup {NoError}
    PROVE  /\ Primary(l, c) \in Locals
           /\ Primary(l, c).primary = c
           /\ \A f \in DOMAIN l \ {"primary"} : Primary(l, c)[f] = l[f]
  BY DEF Locals, Primary

LEMMA FinalizationFacts ==
    ASSUME NEW l \in Locals, NEW c \in FinalizationCodes
    PROVE  /\ Finalization(l, c) \in Locals
           /\ Finalization(l, c).finalization # << >>
           /\ Fin(Finalization(l, c)) = Fin(l) \cup {c}
           /\ \A f \in DOMAIN l \ {"finalization"} : Finalization(l, c)[f] = l[f]
  <1>1. l.finalization \in Seq(FinalizationCodes)
    BY DEF Locals
  <1>2. Finalization(l, c).finalization = Append(l.finalization, c)
    BY DEF Locals, Finalization
  <1>3. Finalization(l, c) \in Locals
    BY <1>1, RecordFacts DEF Locals, Finalization
  <1>4. \A f \in DOMAIN l \ {"finalization"} : Finalization(l, c)[f] = l[f]
    BY DEF Locals, Finalization
  <1> QED
    BY <1>1, <1>2, <1>3, <1>4, RecordFacts DEF Fin

(* An undecided summary is a valid observation when its failure class      *)
(* belongs to the first boundary flag that is missing.                     *)
LEMMA UndecidedIsValid ==
    ASSUME NEW d \in Summary, NEW allowed, NEW n \in 0..4,
           d.verdict = "not-tested", d.failure # "none", FailureStage(d.failure) = n,
           n < 4 => d.residue = "none",
           d.quiescent <=> 1 <= n, d.disposable <=> 2 <= n,
           d.identity <=> 3 <= n, d.complete <=> 4 <= n
    PROVE  cleanupObservationValid(d, allowed)
  <1> DEFINE b == BoundaryFlags(d)
  <1>1. b[1] = d.quiescent /\ b[2] = d.disposable /\ b[3] = d.identity /\ b[4] = d.complete
    BY DEF BoundaryFlags
  <1>2. \A i \in 1..4 : i = 1 \/ i = 2 \/ i = 3 \/ i = 4
    OBVIOUS
  <1>3. \A i \in 1..4 : b[i] <=> i <= n
    BY <1>1, <1>2
  <1>4. FlagsAreMonotonic(d)
    BY <1>3 DEF FlagsAreMonotonic
  <1>5. ~d.complete => d.residue = "none"
    OBVIOUS
  <1> QED
    BY <1>3, <1>4, <1>5 DEF cleanupObservationValid

(* A decided summary is a valid observation when every flag is set and its *)
(* verdict is the one the inventory leads to.                              *)
LEMMA DecidedIsValid ==
    ASSUME NEW d \in Summary, plan \in Plans, d.failure = "none",
           d.verdict = classifyCleanupInventory(d.residue),
           d.quiescent, d.disposable, d.identity, d.complete
    PROVE  cleanupObservationValid(d, plan.allowed)
  <1> DEFINE b == BoundaryFlags(d)
  <1>1. b[1] = d.quiescent /\ b[2] = d.disposable /\ b[3] = d.identity /\ b[4] = d.complete
    BY DEF BoundaryFlags
  <1>2. \A i \in 1..4 : i = 1 \/ i = 2 \/ i = 3 \/ i = 4
    OBVIOUS
  <1>3. \A i \in 1..4 : b[i]
    BY <1>1, <1>2
  <1>4. /\ d.verdict # "not-tested"
        /\ d.verdict = "clean" => d.residue = "none"
        /\ d.verdict = "allowed-residue" => d.residue = "plain" /\ plan.allowed
        /\ d.verdict = "undeclared-residue" =>
               d.residue = "unsafe" \/ (d.residue = "plain" /\ ~plan.allowed)
    BY PlansAssumption DEF classifyCleanupInventory, Summary, IsPlan
  <1> QED
    BY <1>3, <1>4 DEF cleanupObservationValid

-----------------------------------------------------------------------------
(* What a step before quiescence, and one after it, leaves to be shown.    *)

\* The locals that only finalization touches.
Untouched(l, m) ==
    /\ m.quiesced = l.quiesced /\ m.summary = l.summary /\ m.emitted = l.emitted
    /\ m.peerRemoved = l.peerRemoved
    /\ Fin(l) \subseteq Fin(m)

(* Before quiescence the summary is untouched and nothing is removed: only *)
(* the loop bounds and the service are left to be shown.                   *)
LEMMA EarlyStep ==
    ASSUME Inv, pc \in Opening \cup Working,
           plan' = plan, ctx' = ctx, stirred' = stirred, outcome' = outcome,
           engine' \in Engines, service' \in Services, local' \in Locals,
           Untouched(local, local'),
           pc' \in Opening \cup Working \cup {"quiesce"},
           Bounds', Joined',
           pc' \in Opening => local'.sessions = {},
           pc' = "unavailable" => local'.primary # NoError
    PROVE  Inv'
  <1>1. Types'
    BY DEF Inv, Types, Stages, Opening, Working
  <1>2. ~local.quiesced /\ ~local'.quiesced /\ ~local'.peerRemoved
    BY DEF Inv, Types, Locals, Quiet, Released, Untouched, Opening, Working, Gathering,
           Exporting, Removing
  <1>3. CleanupFailed(local) => CleanupFailed(local')
    BY DEF Untouched, CleanupFailed
  <1>4. Quiet'
    BY <1>2, <1>3 DEF Inv, Quiet, Opening, Working, Gathering, Exporting
  <1>5. local'.summary = Opened /\ local'.emitted = 0
    BY DEF Inv, Summarised, Untouched, Opening, Working, Exporting, Removing
  <1>6. Opened.verdict = "not-tested"
    BY DEF Opened, newCleanupResidueSummary
  <1>7. Summarised'
    BY <1>5, <1>6 DEF Summarised, Opened, Opening, Working, Exporting, Removing
  <1>8. Released'
    BY <1>2 DEF Released, Opening, Working, Exporting, Removing
  <1>9. Concluded'
    BY DEF Inv, Concluded, Opening, Working
  <1> QED
    BY <1>1, <1>4, <1>7, <1>8, <1>9 DEF Inv

(* From quiescence on the service and the history are as they were, and    *)
(* errors are only added: the summary and the removals are left.           *)
LEMMA LateStep ==
    ASSUME Inv,
           pc \in {"quiesce", "unavailable", "peer", "remove"} \cup Gathering \cup Exporting,
           plan' = plan, ctx' = ctx, stirred' = stirred, outcome' = outcome, service' = service,
           engine' \in Engines, local' \in Locals,
           Fin(local) \subseteq Fin(local'), local'.next = local.next,
           pc' \in {"peer", "remove", "finish"} \cup Gathering \cup Exporting,
           pc' \in Gathering \cup Exporting => local'.quiesced,
           engine'.workload => engine.workload /\ (local'.quiesced => local.quiesced),
           Summarised', Released'
    PROVE  Inv'
  <1>1. Types'
    BY DEF Inv, Types, Stages, Gathering, Exporting
  <1>2. Bounds'
    BY DEF Inv, Bounds, Gathering, Exporting
  <1>3. CleanupFailed(local) => CleanupFailed(local')
    BY DEF CleanupFailed
  <1>4. \/ service.state = "none"
        \/ service.cancelled /\ (service.state # "returned" => CleanupFailed(local))
    BY DEF Inv, Joined, Opening, Gathering, Exporting, Removing
  <1>5. Joined'
    BY <1>3, <1>4 DEF Joined, Opening, Gathering, Exporting
  <1>6. Quiet'
    BY <1>3 DEF Inv, Quiet, Gathering, Exporting, Removing
  <1>7. Concluded'
    BY DEF Inv, Concluded, Gathering, Exporting
  <1> QED
    BY <1>1, <1>2, <1>5, <1>6, <1>7 DEF Inv
-----------------------------------------------------------------------------
(* Sandbox start.                                                          *)

(* What every step before quiescence starts from.                          *)
LEMMA Start ==
    ASSUME Inv
    PROVE  /\ plan \in Plans /\ engine \in Engines /\ service \in Services /\ local \in Locals
           /\ local.next \in 1..(Len(plan.commands) + 1)
           /\ Untouched(local, local)
           /\ pc \in Opening => service.state = "none" /\ local.sessions = {}
  BY DEF Inv, Types, Bounds, Joined, Released, Untouched

(* A primary error leaves the rest of the locals alone, and the other      *)
(* updates of the opening stages leave what finalization needs.            *)
LEMMA PrimaryUntouched ==
    ASSUME NEW l \in Locals, NEW c \in RunCodes \cup {NoError}
    PROVE  /\ Primary(l, c) \in Locals /\ Untouched(l, Primary(l, c))
           /\ Primary(l, c).primary = c
           /\ Primary(l, c).next = l.next /\ Primary(l, c).sessions = l.sessions
           /\ Primary(l, c).turn = l.turn
  BY DEF Locals, Primary, Untouched, Fin

LEMMA CreateKeepsInv == Inv /\ create => Inv'
  <1> SUFFICES ASSUME Inv, create PROVE Inv'
    OBVIOUS
  <1> USE Start
  <1>1. engine' \in Engines
    BY DEF create, Engines
  <1>2. PICK id \in BOOLEAN, c \in RunCodes \cup {NoError} :
            /\ local' = Primary([local EXCEPT !.id = id], c)
            /\ pc' = "start" \/ (pc' = "unavailable" /\ c # NoError)
    <2>1. CASE MaySucceed /\ Goto("start") /\ \E id \in BOOLEAN :
                 local' = [local EXCEPT
                     !.id = id,
                     !.primary = IF ~id /\ Required("resource-usage")
                                 THEN "OBSERVER_START_FAILED" ELSE NoError]
      <3>1. PICK id \in BOOLEAN :
                 local' = [local EXCEPT
                     !.id = id,
                     !.primary = IF ~id /\ Required("resource-usage")
                                 THEN "OBSERVER_START_FAILED" ELSE NoError]
        BY <2>1
      <3>2. PICK c \in RunCodes \cup {NoError} : local' = [local EXCEPT !.id = id, !.primary = c]
        BY <3>1, CodeFacts
      <3>3. local' = Primary([local EXCEPT !.id = id], c)
        BY <3>2 DEF Primary, Locals
      <3> QED
        BY <2>1, <3>3 DEF Goto
    <2>2. CASE local' = Primary(local, "SANDBOX_PREPARE_FAILED") /\ Goto("unavailable")
      <3>1. [local EXCEPT !.id = local.id] = local /\ local.id \in BOOLEAN
        BY DEF Locals
      <3> QED
        BY <2>2, <3>1, CodeFacts DEF Goto
    <2> QED
      BY <2>1, <2>2 DEF create
  <1> DEFINE l == [local EXCEPT !.id = id]
  <1>3. l \in Locals /\ Untouched(local, l) /\ l.next = local.next /\ l.sessions = local.sessions
    BY DEF Locals, Untouched, Fin
  <1>4. /\ local' \in Locals /\ Untouched(local, local') /\ local'.next = local.next
        /\ local'.sessions = local.sessions /\ local'.primary = c
    BY <1>2, <1>3, PrimaryUntouched DEF Untouched
  <1>5. Bounds' /\ Joined'
    BY <1>2, <1>4 DEF create, At, Frame, Bounds, Joined, Opening, Gathering, Exporting, Removing
  <1> QED
    BY <1>1, <1>2, <1>4, <1>5, EarlyStep DEF create, At, Frame, Opening, Working

LEMMA StartKeepsInv == Inv /\ start => Inv'
  <1> SUFFICES ASSUME Inv, start PROVE Inv'
    OBVIOUS
  <1> USE Start
  <1>1. engine' \in Engines
    BY DEF start, Engines
  <1>2. \/ pc' = "preflight" /\ local' = local
        \/ pc' = "unavailable" /\ local' = Primary(local, "SANDBOX_START_FAILED")
    BY DEF start, Goto
  <1>3. /\ local' \in Locals /\ Untouched(local, local') /\ local'.next = local.next
        /\ local'.sessions = local.sessions /\ (pc' = "unavailable" => local'.primary # NoError)
    <2>1. "SANDBOX_START_FAILED" \in RunCodes \cup {NoError} /\ "SANDBOX_START_FAILED" # NoError
      BY CodeFacts
    <2> QED
      BY <1>2, <2>1, PrimaryUntouched
  <1>4. Bounds' /\ Joined'
    BY <1>2, <1>3 DEF start, At, Frame, Bounds, Joined, Opening, Gathering, Exporting, Removing
  <1> QED
    BY <1>1, <1>2, <1>3, <1>4, EarlyStep DEF start, At, Frame, Opening, Working

(* The stages between the start of the sandbox and the command loop leave  *)
(* the engine alone: they go on, or straight to quiescence.                *)
LEMMA OpeningStep ==
    ASSUME Inv, pc \in Opening, EngineUnchanged, Frame,
           local' \in Locals, Untouched(local, local'), local'.next = local.next,
           pc' \in (Opening \ {"unavailable"}) \cup {"step", "quiesce"},
           pc' \in Opening => local'.sessions = {}
    PROVE  Inv'
  <1>1. Bounds' /\ Joined'
    BY Start DEF EngineUnchanged, Frame, Bounds, Joined, Opening, Gathering, Exporting, Removing
  <1> QED
    BY <1>1, Start, EarlyStep DEF EngineUnchanged, Frame, Opening, Working

LEMMA PreflightKeepsInv == Inv /\ resourcePreflight => Inv'
  <1> SUFFICES ASSUME Inv, resourcePreflight PROVE Inv'
    OBVIOUS
  <1> USE Start
  <1> DEFINE l == [local EXCEPT !.ready = @ \cup {"resource-usage"}]
  <1>1. /\ local' = local \/ local' = l \/ local' = Primary(local, "OBSERVER_START_FAILED")
        /\ pc' \in {"init", "quiesce"}
    BY DEF resourcePreflight, Goto
  <1>2. l \in Locals /\ Untouched(local, l) /\ l.next = local.next /\ l.sessions = local.sessions
    BY DEF Locals, Untouched, Fin, Evidence, Observers
  <1> HIDE DEF l
  <1>3. /\ local' \in Locals /\ Untouched(local, local') /\ local'.next = local.next
        /\ local'.sessions = local.sessions
    <2>1. "OBSERVER_START_FAILED" \in RunCodes \cup {NoError}
      BY CodeFacts
    <2> QED
      BY <1>1, <1>2, <2>1, PrimaryUntouched
  <1> QED
    BY <1>1, <1>3, OpeningStep DEF resourcePreflight, At, Opening

LEMMA InitializeKeepsInv == Inv /\ initializeOutputDirectories => Inv'
  <1> SUFFICES ASSUME Inv, initializeOutputDirectories PROVE Inv'
    OBVIOUS
  <1> USE Start
  <1>1. /\ local' = local \/ local' = Primary(local, "SANDBOX_START_FAILED")
        /\ pc' \in {"baseline", "quiesce"}
    BY DEF initializeOutputDirectories, Goto
  <1>2. /\ local' \in Locals /\ Untouched(local, local') /\ local'.next = local.next
        /\ local'.sessions = local.sessions
    <2>1. "SANDBOX_START_FAILED" \in RunCodes \cup {NoError}
      BY CodeFacts
    <2> QED
      BY <1>1, <2>1, PrimaryUntouched
  <1> QED
    BY <1>1, <1>2, OpeningStep DEF initializeOutputDirectories, At, Opening

LEMMA BaselineKeepsInv == Inv /\ filesystemBaseline => Inv'
  <1> SUFFICES ASSUME Inv, filesystemBaseline PROVE Inv'
    OBVIOUS
  <1> USE Start
  <1> DEFINE l == [local EXCEPT !.ready = @ \cup {"filesystem-write"}]
  <1>1. (local' = local \/ local' = l) /\ pc' = "probe"
    BY DEF filesystemBaseline, Goto
  <1>2. l \in Locals /\ Untouched(local, l) /\ l.next = local.next /\ l.sessions = local.sessions
    BY DEF Locals, Untouched, Fin, Evidence, Observers
  <1> QED
    BY <1>1, <1>2, OpeningStep DEF filesystemBaseline, At, Opening

LEMMA ProbesKeepInv == Inv /\ probes => Inv'
  <1> SUFFICES ASSUME Inv, probes PROVE Inv'
    OBVIOUS
  <1> USE Start
  <1> DEFINE l == [local EXCEPT !.exportSafe = TRUE]
  <1>1. /\ \/ local' = l
           \/ \E code \in {"RUNNER_FEATURE_UNAVAILABLE", "RUNTIME_VERSION_UNRESOLVED"} :
                  local' = Primary(local, code)
        /\ pc' \in {"trace", "quiesce"}
    BY DEF probes, Goto
  <1>2. l \in Locals /\ Untouched(local, l) /\ l.next = local.next /\ l.sessions = local.sessions
    BY DEF Locals, Untouched, Fin
  <1> HIDE DEF l
  <1>3. /\ local' \in Locals /\ Untouched(local, local') /\ local'.next = local.next
        /\ local'.sessions = local.sessions
    <2>1. {"RUNNER_FEATURE_UNAVAILABLE", "RUNTIME_VERSION_UNRESOLVED"} \subseteq RunCodes \cup {NoError}
      BY CodeFacts
    <2> QED
      BY <1>1, <1>2, <2>1, PrimaryUntouched
  <1> QED
    BY <1>1, <1>3, OpeningStep DEF probes, At, Opening

LEMMA TraceKeepsInv == Inv /\ startOutputsActivityTrace => Inv'
  <1> SUFFICES ASSUME Inv, startOutputsActivityTrace PROVE Inv'
    OBVIOUS
  <1> USE Start
  <1> DEFINE l == [local EXCEPT !.sessions = @ \cup {"trace"}, !.ready = @ \cup {"trace"}]
  <1>1. (local' = local \/ local' = l) /\ pc' = "step"
    BY DEF startOutputsActivityTrace, Goto
  <1>2. l \in Locals /\ Untouched(local, l) /\ l.next = local.next
    BY ZenonT(30) DEF Locals, Untouched, Fin, Evidence
  <1> QED
    BY <1>1, <1>2, OpeningStep DEF startOutputsActivityTrace, At, Opening
-----------------------------------------------------------------------------
(* The command loop.                                                       *)

(* The loop and the service's stages go on, or to quiescence once the      *)
(* service is accounted for.                                               *)
LEMMA WorkingStep ==
    ASSUME Inv, pc \in Working, Frame,
           engine' \in Engines, service' \in Services, local' \in Locals,
           Untouched(local, local'), Bounds', pc' \in Working \cup {"quiesce"},
           pc' = "quiesce" =>
               \/ service'.state = "none"
               \/ service'.cancelled /\ (service'.state # "returned" => CleanupFailed(local'))
    PROVE  Inv'
  <1>1. Joined'
    BY DEF Joined, Opening, Working, Gathering, Exporting, Removing
  <1> QED
    BY <1>1, EarlyStep DEF Frame, Opening, Working

(* How a foreground command may end.                                       *)
LEMMA StepResultsTyped ==
    ASSUME NEW command \in {"setup", "build", "exercise", "cleanup"}
    PROVE  StepResults(command) \subseteq RunCodes \cup {NoError}
  <1>1. phaseFailureCode(command) \in RunCodes
    <2>1. /\ "SETUP_FAILED" \in RunCodes /\ "BUILD_FAILED" \in RunCodes
          /\ "CLEANUP_FAILED" \in RunCodes /\ "JOURNEY_ASSERTION_FAILED" \in RunCodes
      BY CodeFacts
    <2> QED
      BY <2>1 DEF phaseFailureCode
  <1>2. "CANCELLED" \in RunCodes /\ "TIMEOUT" \in RunCodes /\ "SANDBOX_START_FAILED" \in RunCodes
    BY CodeFacts
  <1> QED
    BY <1>1, <1>2 DEF StepResults

LEMMA FinalizeFacts ==
    ASSUME Inv
    PROVE  /\ Finalize \in {"signal", "quiesce"}
           /\ Finalize = "quiesce" => service.state = "none"
  BY DEF Finalize

(* The command at hand.                                                    *)
LEMMA CommandFacts ==
    ASSUME Inv, local.next <= Len(plan.commands)
    PROVE  /\ plan.commands[local.next] \in {"setup", "build", "exercise", "cleanup", "service"}
           /\ Len(plan.commands) \in Nat
  <1>1. plan.commands \in Seq({"setup", "build", "exercise", "cleanup", "service"})
    BY Start, PlansAssumption DEF IsPlan
  <1>2. local.next \in 1..Len(plan.commands)
    BY <1>1, Start
  <1> QED
    BY <1>1, <1>2

LEMMA RunStepKeepsInv == Inv /\ runStep => Inv'
  <1> SUFFICES ASSUME Inv, runStep PROVE Inv'
    OBVIOUS
  <1> USE Start
  <1> DEFINE command == plan.commands[local.next]
  <1>1. command \in {"setup", "build", "exercise", "cleanup"} /\ Len(plan.commands) \in Nat
    BY CommandFacts DEF runStep
  <1>2. PICK result \in StepResults(command), status \in Statuses :
            /\ local' = [local EXCEPT
                  !.primary = result,
                  !.next = @ + 1,
                  !.exportSafe = @ /\ StepExportSafe(result),
                  !.journey = IF command = "exercise" THEN status ELSE @]
            /\ Goto(IF result = NoError THEN "step" ELSE Finalize)
    BY DEF runStep
  <1>3. result \in RunCodes \cup {NoError}
    BY <1>1, <1>2, StepResultsTyped
  <1>4. PICK journey \in Statuses, safe \in BOOLEAN :
            local' = [local EXCEPT !.primary = result, !.next = @ + 1, !.exportSafe = safe,
                                   !.journey = journey]
    <2> DEFINE j == IF command = "exercise" THEN status ELSE local.journey
               s == local.exportSafe /\ StepExportSafe(result)
    <2>1. j \in Statuses /\ s \in BOOLEAN
      BY DEF Locals, StepExportSafe
    <2>2. local' = [local EXCEPT !.primary = result, !.next = @ + 1, !.exportSafe = s,
                                 !.journey = j]
      BY <1>2
    <2> HIDE DEF j, s
    <2> QED
      BY <2>1, <2>2
  <1>5. local' \in Locals /\ Untouched(local, local') /\ local'.next = local.next + 1
    <2>1. local' \in Locals
      <3> DEFINE n == local.next + 1
      <3>1. n \in Nat
        OBVIOUS
      <3>2. local' = [local EXCEPT !.primary = result, !.next = n, !.exportSafe = safe,
                                   !.journey = journey]
        BY <1>4
      <3> HIDE DEF n
      <3> QED
        BY <1>3, <3>1, <3>2 DEF Locals
    <2>2. /\ local'.finalization = local.finalization /\ local'.quiesced = local.quiesced
          /\ local'.summary = local.summary /\ local'.emitted = local.emitted
          /\ local'.peerRemoved = local.peerRemoved /\ local'.next = local.next + 1
      BY <1>4 DEF Locals
    <2> QED
      BY <2>1, <2>2 DEF Untouched, Fin
  <1>6. engine' \in Engines
    <2>1. PICK alive, wrote \in BOOLEAN :
              engine' = [engine EXCEPT !.workload = @ \/ alive, !.produced = @ \/ wrote]
      BY DEF runStep, WorkloadEffect
    <2> QED
      BY <2>1 DEF Engines
  <1>7. pc' \in {"step", "signal", "quiesce"} /\ (pc' = "quiesce" => service.state = "none")
    BY <1>2, FinalizeFacts DEF Goto
  <1>8. Bounds'
    <2>1. local.next <= Len(plan.commands) /\ plan' = plan
      BY DEF runStep, Frame
    <2> QED
      BY <2>1, <1>1, <1>5, <1>7 DEF Bounds
  <1> QED
    BY <1>5, <1>6, <1>7, <1>8, WorkingStep DEF runStep, At, Working

LEMMA StepsDoneKeepsInv == Inv /\ stepsDone => Inv'
  <1> SUFFICES ASSUME Inv, stepsDone PROVE Inv'
    OBVIOUS
  <1> USE Start
  <1>1. pc' \in {"signal", "quiesce"} /\ (pc' = "quiesce" => service.state = "none")
    BY FinalizeFacts DEF stepsDone, Goto
  <1>2. Bounds'
    BY <1>1 DEF stepsDone, Frame, Bounds
  <1> QED
    BY <1>1, <1>2, WorkingStep DEF stepsDone, At, Working, EngineUnchanged

LEMMA StartPeerKeepsInv == Inv /\ startPeerPortObservation => Inv'
  <1> SUFFICES ASSUME Inv, startPeerPortObservation PROVE Inv'
    OBVIOUS
  <1> USE Start
  <1>1. engine' \in Engines
    BY DEF startPeerPortObservation, Engines
  <1>2. local' \in Locals /\ Untouched(local, local') /\ local'.next = local.next
    <2>1. CASE local' = local
      BY <2>1
    <2>2. CASE \E session \in BOOLEAN :
                 local' = [local EXCEPT !.peerID = TRUE,
                     !.sessions = IF session THEN @ \cup {"port"} ELSE @,
                     !.ready = IF session THEN @ \cup {"port-listen"} ELSE @]
      <3>1. PICK sessions \in SUBSET {"trace", "port"}, ready \in SUBSET Evidence :
              local' = [local EXCEPT !.peerID = TRUE, !.sessions = sessions, !.ready = ready]
        <4>1. PICK session \in BOOLEAN :
                 local' = [local EXCEPT !.peerID = TRUE,
                     !.sessions = IF session THEN @ \cup {"port"} ELSE @,
                     !.ready = IF session THEN @ \cup {"port-listen"} ELSE @]
          BY <2>2
        <4> DEFINE s == IF session THEN local.sessions \cup {"port"} ELSE local.sessions
                   r == IF session THEN local.ready \cup {"port-listen"} ELSE local.ready
        <4>2. s \in SUBSET {"trace", "port"} /\ r \in SUBSET Evidence
          BY DEF Locals, Evidence, Observers
        <4>3. local' = [local EXCEPT !.peerID = TRUE, !.sessions = s, !.ready = r]
          BY <4>1
        <4> HIDE DEF s, r
        <4> QED
          BY <4>2, <4>3
      <3> QED
        BY <3>1 DEF Locals, Untouched, Fin
    <2> QED
      BY <2>1, <2>2 DEF startPeerPortObservation
  <1>3. Bounds'
    BY <1>2 DEF startPeerPortObservation, Frame, Goto, Bounds
  <1> QED
    BY <1>1, <1>2, <1>3, WorkingStep DEF startPeerPortObservation, At, Goto, Working

LEMMA StartServiceKeepsInv == Inv /\ startService => Inv'
  <1> SUFFICES ASSUME Inv, startService PROVE Inv'
    OBVIOUS
  <1> USE Start
  <1>1. service' \in Services
    BY DEF startService, Services
  <1>2. local' \in Locals /\ Untouched(local, local') /\ local'.next = local.next /\ local'.turn = 0
    BY DEF startService, Locals, Untouched, Fin
  <1>3. Bounds'
    BY <1>2, AttemptsAssumption DEF startService, At, Frame, Goto, Inv, Bounds
  <1> QED
    BY <1>1, <1>2, <1>3, WorkingStep DEF startService, At, Goto, Working
(* The service and the readiness loop end with codes of their own.         *)
LEMMA ServiceExitTyped ==
    ASSUME Inv
    PROVE  /\ ServiceExit \in RunCodes \cup {NoError}
           /\ readinessTerminalError \in RunCodes \cup {NoError}
           /\ "PROCESS_LEAK" \in RunCodes \cup {NoError}
           /\ "CANCELLED" \in RunCodes \cup {NoError}
  <1>1. service.result \in RunCodes \cup {NoError}
    BY Start DEF Services
  <1>2. /\ "SERVICE_START_FAILED" \in RunCodes /\ "CANCELLED" \in RunCodes
        /\ "READINESS_FAILED" \in RunCodes /\ "PROCESS_LEAK" \in RunCodes
    BY CodeFacts
  <1> QED
    BY <1>1, <1>2 DEF ServiceExit, readinessTerminalError

LEMMA ReadinessKeepsInv == Inv /\ waitForReadiness => Inv'
  <1> SUFFICES ASSUME Inv, waitForReadiness PROVE Inv'
    OBVIOUS
  <1>1. \/ /\ pc' = "signal"
           /\ \E code \in RunCodes \cup {NoError} : local' = Primary(local, code)
        \/ /\ pc' \in {"readiness", "journey"}
           /\ \E n \in Nat : /\ local' = [local EXCEPT !.turn = n]
                             /\ pc' = "readiness" => n < MaxReadinessAttempts
    <2>1. local.turn + 1 \in Nat
      BY Start DEF Locals
    <2> QED
      BY <2>1, ServiceExitTyped DEF waitForReadiness, Goto
  <1>2. \A n \in Nat : LET l == [local EXCEPT !.turn = n] IN
            /\ l \in Locals /\ Untouched(local, l) /\ l.next = local.next /\ l.turn = n
    BY Start DEF Locals, Untouched, Fin
  <1>3. /\ local' \in Locals /\ Untouched(local, local') /\ local'.next = local.next
        /\ pc' = "readiness" => local'.turn < MaxReadinessAttempts
    <2>1. CASE pc' = "signal" /\ \E code \in RunCodes \cup {NoError} : local' = Primary(local, code)
      BY <2>1, Start, PrimaryUntouched
    <2>2. CASE /\ pc' \in {"readiness", "journey"}
               /\ \E n \in Nat : /\ local' = [local EXCEPT !.turn = n]
                                 /\ pc' = "readiness" => n < MaxReadinessAttempts
      BY <2>2, <1>2
    <2> QED
      BY <1>1, <2>1, <2>2
  <1>4. Bounds'
    BY <1>1, <1>3 DEF waitForReadiness, At, Frame, Inv, Bounds
  <1> QED
    BY <1>1, <1>3, <1>4, Start, WorkingStep DEF waitForReadiness, At, EngineUnchanged, Working

(* A failed journey step ends with a code of the journey and leaves the    *)
(* ordered assertion a status.                                             *)
LEMMA JourneyTyped ==
    \A code \in DOMAIN JourneyFailures :
        code \in RunCodes /\ JourneyFailures[code] \subseteq Statuses
  <1>1. DOMAIN JourneyFailures = {"JOURNEY_ASSERTION_FAILED", "OBSERVER_INCOMPLETE", "TIMEOUT",
                                  "PROCESS_LEAK", "CANCELLED"}
    BY DEF JourneyFailures
  <1>2. /\ JourneyFailures["JOURNEY_ASSERTION_FAILED"] = {"failed", "blocked"}
        /\ JourneyFailures["OBSERVER_INCOMPLETE"] = {"inconclusive", "blocked"}
        /\ JourneyFailures["TIMEOUT"] = {"blocked"}
        /\ JourneyFailures["PROCESS_LEAK"] = {"blocked"}
        /\ JourneyFailures["CANCELLED"] = {"blocked"}
    BY DEF JourneyFailures
  <1>3. {"JOURNEY_ASSERTION_FAILED", "OBSERVER_INCOMPLETE", "TIMEOUT", "PROCESS_LEAK",
         "CANCELLED"} \subseteq RunCodes
    BY CodeFacts
  <1> QED
    BY <1>1, <1>2, <1>3 DEF Statuses

LEMMA JourneyKeepsInv == Inv /\ executeHTTPJourney => Inv'
  <1> SUFFICES ASSUME Inv, executeHTTPJourney PROVE Inv'
    OBVIOUS
  <1>1. engine' \in Engines
    <2>1. CASE engine' = engine
      BY <2>1, Start
    <2>2. CASE \E wrote \in BOOLEAN : engine' = [engine EXCEPT !.produced = @ \/ wrote]
      BY <2>2, Start DEF Engines
    <2> QED
      BY <2>1, <2>2 DEF executeHTTPJourney
  <1>2. \/ /\ pc' = "signal"
           /\ \E code \in RunCodes \cup {NoError}, status \in Statuses :
                  local' = [local EXCEPT !.primary = code, !.journey = status]
        \/ pc' = "journey" /\ local' = [local EXCEPT !.turn = @ + 1]
        \/ pc' = "step" /\ local' = [local EXCEPT !.journey = "passed", !.next = @ + 1]
    <2>1. local.journey \in Statuses
      BY Start DEF Locals
    <2>2. \A code : Primary(local, code) = [local EXCEPT !.primary = code, !.journey = local.journey]
      BY Start DEF Primary, Locals
    <2>3. CASE /\ \/ ctx = "cancelled" /\ local' = Primary(local, "CANCELLED")
                  \/ service.state = "returned" /\ local' = Primary(local, ServiceExit)
               /\ Goto("signal")
      <3>1. PICK code \in RunCodes \cup {NoError} : local' = Primary(local, code)
        BY <2>3, ServiceExitTyped
      <3> QED
        BY <3>1, <2>1, <2>2, <2>3 DEF Goto
    <2>4. CASE /\ \E code \in DOMAIN JourneyFailures : \E status \in JourneyFailures[code] :
                      local' = [local EXCEPT !.primary = code, !.journey = status]
               /\ Goto("signal")
      <3>0. PICK code \in DOMAIN JourneyFailures : \E status \in JourneyFailures[code] :
                local' = [local EXCEPT !.primary = code, !.journey = status]
        BY <2>4
      <3>1. PICK status \in JourneyFailures[code] :
                local' = [local EXCEPT !.primary = code, !.journey = status]
        BY <3>0
      <3>2. code \in RunCodes \cup {NoError} /\ status \in Statuses
        BY <3>1, JourneyTyped
      <3> QED
        BY <3>1, <3>2, <2>4 DEF Goto
    <2>5. CASE \/ local' = [local EXCEPT !.turn = @ + 1] /\ Goto("journey")
               \/ local' = [local EXCEPT !.journey = "passed", !.next = @ + 1] /\ Goto("step")
      BY <2>5 DEF Goto
    <2> QED
      BY <2>3, <2>4, <2>5 DEF executeHTTPJourney
  <1>3. /\ local' \in Locals /\ Untouched(local, local')
        /\ local'.next = IF pc' = "step" THEN local.next + 1 ELSE local.next
    <2>1. CASE /\ pc' = "signal"
               /\ \E code \in RunCodes \cup {NoError}, status \in Statuses :
                      local' = [local EXCEPT !.primary = code, !.journey = status]
      <3>1. PICK code \in RunCodes \cup {NoError}, status \in Statuses :
                local' = [local EXCEPT !.primary = code, !.journey = status]
        BY <2>1
      <3>2. local \in Locals
        BY Start
      <3>3. local' \in Locals
        BY <3>1, <3>2 DEF Locals
      <3>4. Untouched(local, local') /\ local'.next = local.next
        BY <3>1, <3>2 DEF Locals, Untouched, Fin
      <3> QED
        BY <2>1, <3>3, <3>4
    <2>2. CASE pc' = "journey" /\ local' = [local EXCEPT !.turn = @ + 1]
      <3> DEFINE n == local.turn + 1
      <3>1. n \in Nat /\ local' = [local EXCEPT !.turn = n]
        BY <2>2, Start DEF Locals
      <3> HIDE DEF n
      <3> QED
        BY <2>2, <3>1, Start DEF Locals, Untouched, Fin
    <2>3. CASE pc' = "step" /\ local' = [local EXCEPT !.journey = "passed", !.next = @ + 1]
      <3> DEFINE n == local.next + 1
      <3>1. n \in Nat /\ local' = [local EXCEPT !.journey = "passed", !.next = n]
        BY <2>3, Start DEF Locals
      <3>2. "passed" \in Statuses
        BY DEF Statuses
      <3> HIDE DEF n
      <3>3. local' \in Locals /\ Untouched(local, local') /\ local'.next = n
        BY <3>1, <3>2, Start DEF Locals, Untouched, Fin
      <3> QED
        BY <2>3, <3>3 DEF n
    <2> QED
      BY <1>2, <2>1, <2>2, <2>3
  <1>4. Bounds'
    <2>1. local.next <= Len(plan.commands) /\ plan' = plan /\ Len(plan.commands) \in Nat
      BY CommandFacts DEF executeHTTPJourney, At, Frame, Inv, Bounds
    <2>2. local.next \in 1..(Len(plan.commands) + 1)
      BY Start
    <2>3. pc' \in {"signal", "journey", "step"}
      BY <1>2
    <2>4. /\ local'.next \in 1..(Len(plan.commands) + 1)
          /\ pc' # "step" => local'.next <= Len(plan.commands)
      BY <1>3, <2>1, <2>2
    <2> QED
      BY <2>1, <2>3, <2>4 DEF Bounds
  <1> QED
    BY <1>1, <1>2, <1>3, <1>4, Start, WorkingStep DEF executeHTTPJourney, At, Working
-----------------------------------------------------------------------------
(* The service is signalled and joined.                                    *)

LEMMA FinalizationUntouched ==
    ASSUME NEW l \in Locals, NEW c \in FinalizationCodes
    PROVE  /\ Finalization(l, c) \in Locals /\ Untouched(l, Finalization(l, c))
           /\ Fin(Finalization(l, c)) = Fin(l) \cup {c}
           /\ Finalization(l, c).finalization # << >>
           /\ Finalization(l, c).next = l.next /\ Finalization(l, c).turn = l.turn
           /\ Finalization(l, c).sessions = l.sessions /\ Finalization(l, c).id = l.id
           /\ Finalization(l, c).peerID = l.peerID /\ Finalization(l, c).primary = l.primary
  <1>1. \A f \in {"quiesced", "summary", "emitted", "peerRemoved", "next", "turn", "sessions", "id",
                  "peerID", "primary"} : f \in DOMAIN l \ {"finalization"}
    BY DEF Locals
  <1> QED
    BY <1>1, FinalizationFacts DEF Untouched

LEMMA SignalKeepsInv == Inv /\ signalService => Inv'
  <1> SUFFICES ASSUME Inv, signalService PROVE Inv'
    OBVIOUS
  <1>1. engine' \in Engines /\ service' \in Services
    <2>1. engine \in Engines /\ service \in Services
      BY Start
    <2> QED
      BY <2>1 DEF signalService, Engines, Services
  <1>2. local' \in Locals /\ Untouched(local, local') /\ local'.next = local.next
    <2>1. CASE local' = local
      BY <2>1, Start
    <2>2. CASE local' = [Finalization(local, "CLEANUP_FAILED") EXCEPT !.signalled = FALSE]
      <3> DEFINE l == Finalization(local, "CLEANUP_FAILED")
      <3>1. l \in Locals /\ Untouched(local, l) /\ l.next = local.next
        BY Start, CodeFacts, FinalizationUntouched
      <3>2. local' = [l EXCEPT !.signalled = FALSE]
        BY <2>2
      <3> HIDE DEF l
      <3>3. local' \in Locals /\ Untouched(l, local') /\ local'.next = l.next
        BY <3>1, <3>2 DEF Locals, Untouched, Fin
      <3> QED
        BY <3>1, <3>3 DEF Untouched
    <2> QED
      BY <2>1, <2>2 DEF signalService
  <1>3. pc = "signal" /\ pc' = "wait" /\ Frame
    BY DEF signalService, At, Goto
  <1>4. Bounds'
    BY <1>2, <1>3, Start DEF Frame, Bounds
  <1> QED
    BY <1>1, <1>2, <1>3, <1>4, WorkingStep DEF Working

LEMMA WaitKeepsInv == Inv /\ waitServiceResult => Inv'
  <1> SUFFICES ASSUME Inv, waitServiceResult PROVE Inv'
    OBVIOUS
  <1>1. /\ service' \in Services /\ service'.cancelled /\ service'.state = service.state
        /\ service.result \in RunCodes \cup {NoError}
    <2>1. service \in Services
      BY Start
    <2> QED
      BY <2>1 DEF waitServiceResult, Services
  <1>2. /\ local' \in Locals /\ Untouched(local, local') /\ local'.next = local.next
        /\ service.state # "returned" => CleanupFailed(local')
    <2>0. local \in Locals
      BY Start
    <2>1. CASE /\ service.state = "returned"
               /\ local' = [local EXCEPT
                     !.primary = IF local.primary = NoError /\ local.signalled
                                 THEN service.result ELSE @,
                     !.exportSafe = @ /\ service.result = NoError]
      <3> DEFINE c == IF local.primary = NoError /\ local.signalled
                      THEN service.result ELSE local.primary
                 s == local.exportSafe /\ service.result = NoError
      <3>1. c \in RunCodes \cup {NoError} /\ s \in BOOLEAN
        BY <1>1, <2>0 DEF Locals
      <3>2. local' = [local EXCEPT !.primary = c, !.exportSafe = s]
        BY <2>1
      <3> HIDE DEF c, s
      <3>3. local' \in Locals
        BY <2>0, <3>1, <3>2 DEF Locals
      <3>4. Untouched(local, local') /\ local'.next = local.next
        BY <2>0, <3>1, <3>2 DEF Locals, Untouched, Fin
      <3> QED
        BY <2>1, <3>3, <3>4
    <2>2. CASE local' = Finalization(local, "CLEANUP_FAILED")
      <3>1. "CLEANUP_FAILED" \in FinalizationCodes
        BY CodeFacts
      <3> QED
        BY <2>0, <2>2, <3>1, FinalizationUntouched DEF CleanupFailed
    <2> QED
      BY <2>1, <2>2 DEF waitServiceResult
  <1>3. pc = "wait" /\ pc' = "quiesce" /\ Frame /\ engine' \in Engines
    BY Start DEF waitServiceResult, At, Goto
  <1>4. Bounds'
    BY <1>2, <1>3, Start DEF Frame, Bounds
  <1> QED
    BY <1>1, <1>2, <1>3, <1>4, WorkingStep DEF Working
-----------------------------------------------------------------------------
(* Finalization.                                                           *)

(* The summary is ended undecided, with the failure recorded.              *)
LEMMA UndecidedFacts ==
    ASSUME NEW l \in Locals, NEW failure \in Failures
    PROVE  LET u == Undecided(l, failure) IN
           /\ u \in Locals
           /\ u.finalization # << >>
           /\ Fin(u) = Fin(l) \cup {"CLEANUP_FAILED"}
           /\ u.emitted = l.emitted + 1
           /\ u.summary = [l.summary EXCEPT !.failure = failure]
           /\ u.next = l.next /\ u.quiesced = l.quiesced /\ u.sessions = l.sessions
           /\ u.peerRemoved = l.peerRemoved /\ u.primary = l.primary
  <1> DEFINE f == Finalization(l, "CLEANUP_FAILED")
             n == l.emitted + 1
             s == [l.summary EXCEPT !.failure = failure]
             u == Undecided(l, failure)
  <1>1. /\ f \in Locals /\ Fin(f) = Fin(l) \cup {"CLEANUP_FAILED"} /\ f.finalization # << >>
        /\ Untouched(l, f) /\ f.next = l.next /\ f.sessions = l.sessions /\ f.primary = l.primary
    BY CodeFacts, FinalizationUntouched
  <1>2. f.summary = l.summary /\ f.emitted = l.emitted
    BY <1>1 DEF Untouched
  <1>3. n \in Nat /\ s \in Summary
    BY DEF Locals, Summary
  <1>4. u = [f EXCEPT !.summary = s, !.emitted = n]
    BY <1>1, <1>2 DEF Undecided, Locals
  <1> HIDE DEF f, n, s, u
  <1>5. u \in Locals
    BY <1>1, <1>3, <1>4 DEF Locals
  <1>6. /\ u.finalization = f.finalization /\ u.emitted = n /\ u.summary = s
        /\ u.next = f.next /\ u.quiesced = f.quiesced /\ u.sessions = f.sessions
        /\ u.peerRemoved = f.peerRemoved /\ u.primary = f.primary
    BY <1>1, <1>3, <1>4 DEF Locals
  <1>7. Fin(u) = Fin(f)
    BY <1>6 DEF Fin
  <1> QED
    BY <1>1, <1>5, <1>6, <1>7 DEF Untouched, n, s, u

(* A step that ends finalization's evidence, or exports the outputs after  *)
(* it: what the observation needs.                                         *)
LEMMA PeerStep ==
    ASSUME Inv, pc \in {"quiesce", "unavailable"} \cup Gathering \cup Exporting,
           pc' \in {"peer"} \cup Exporting,
           pc' \in Exporting => local'.id /\ local'.quiesced /\ local'.summary.residue # "unsafe",
           EngineUnchanged, Frame, local' \in Locals, Fin(local) \subseteq Fin(local'),
           local'.next = local.next, local'.quiesced = local.quiesced,
           local'.sessions = {}, local'.peerRemoved = local.peerRemoved,
           local'.emitted = 1, Recognised(local'.summary, plan.allowed),
           local'.summary.verdict = "not-tested" =>
               local'.finalization # << >> \/ local'.primary # NoError,
           local'.summary.verdict = "clean" => ~engine.produced \/ CleanupFailed(local')
    PROVE  Inv'
  <1>1. ~local.peerRemoved
    BY DEF Inv, Released, Gathering, Exporting
  <1>2. Released'
    BY <1>1 DEF Released, Exporting
  <1>3. Summarised'
    BY DEF EngineUnchanged, Frame, Summarised, Opening, Working, Exporting, Removing
  <1> QED
    BY <1>2, <1>3, Start, LateStep DEF EngineUnchanged, Frame, Gathering, Exporting

(* A step that gathers evidence and leaves the summary as it was opened.   *)
LEMMA GatherStep ==
    ASSUME Inv, pc \in {"quiesce", "stop", "final", "resource"},
           pc' \in {"stop", "final", "resource", "disposable"},
           service' = service, Frame, engine' \in Engines, local' \in Locals,
           Fin(local) \subseteq Fin(local'),
           local'.next = local.next, local'.quiesced,
           local'.summary = local.summary, local'.emitted = local.emitted,
           local'.peerRemoved = local.peerRemoved,
           pc' # "stop" => local'.sessions = {},
           engine'.workload => engine.workload /\ (local'.quiesced => local.quiesced)
    PROVE  Inv'
  <1>1. ~local.peerRemoved /\ local'.summary = Opened /\ local'.emitted = 0
    BY DEF Inv, Released, Summarised, Exporting, Removing
  <1>2. Released'
    BY <1>1 DEF Released, Opening, Exporting, Removing
  <1>3. Opened.verdict = "not-tested"
    BY DEF Opened, newCleanupResidueSummary
  <1>4. Summarised'
    BY <1>1, <1>3 DEF Frame, Summarised, Opened, Opening, Working, Exporting, Removing
  <1> QED
    BY <1>2, <1>4, Start, LateStep DEF Frame, Gathering, Exporting

(* The summary as it is opened, and each further flag.                     *)
LEMMA OpenedFacts ==
    /\ Opened \in Summary
    /\ Opened.verdict = "not-tested" /\ Opened.residue = "none"
    /\ ~Opened.quiescent /\ ~Opened.disposable /\ ~Opened.identity /\ ~Opened.complete
  BY DEF Opened, newCleanupResidueSummary, Summary, Cleanup, Failures

(* What a failed quiescence leaves: the sessions aborted, no evidence, and *)
(* the failure recorded.                                                   *)
LEMMA QuiesceFailureKeepsInv ==
    ASSUME Inv, pc = "quiesce", pc' = "peer", service' = service, Frame,
           NEW alive \in {FALSE, engine.workload}, engine' = [engine EXCEPT !.workload = alive],
           NEW code \in {NoError, "RESOURCE_LIMIT_EXCEEDED", "OBSERVER_INCOMPLETE"},
           local' = [Undecided(local, "workload-quiescence-failed") EXCEPT
                         !.sessions = {}, !.resource = code]
    PROVE  Inv'
  <1> DEFINE u == Undecided(local, "workload-quiescence-failed")
  <1>1. "workload-quiescence-failed" \in Failures /\ local \in Locals
    BY Start DEF Failures
  <1>2. /\ u \in Locals /\ u.finalization # << >> /\ Fin(u) = Fin(local) \cup {"CLEANUP_FAILED"}
        /\ u.emitted = local.emitted + 1 /\ u.next = local.next /\ u.quiesced = local.quiesced
        /\ u.summary = [local.summary EXCEPT !.failure = "workload-quiescence-failed"]
        /\ u.peerRemoved = local.peerRemoved
    BY <1>1, UndecidedFacts
  <1>3. local' = [u EXCEPT !.sessions = {}, !.resource = code]
    OBVIOUS
  <1> HIDE DEF u
  <1>4. local' \in Locals
    BY <1>2, <1>3 DEF Locals
  <1>5. /\ local'.finalization = u.finalization /\ local'.emitted = u.emitted
        /\ local'.next = u.next /\ local'.quiesced = u.quiesced /\ local'.summary = u.summary
        /\ local'.peerRemoved = u.peerRemoved /\ local'.sessions = {}
    BY <1>2, <1>3 DEF Locals
  <1>6. Fin(local') = Fin(local) \cup {"CLEANUP_FAILED"}
    <2>1. Fin(local') = Fin(u)
      BY <1>5 DEF Fin
    <2> QED
      BY <1>2, <2>1
  <1>7. local.summary = Opened /\ local.emitted = 0 /\ ~local.peerRemoved
    BY DEF Inv, Summarised, Released, Exporting, Removing
  <1> DEFINE d == local'.summary
  <1>8. /\ d \in Summary /\ d.verdict = "not-tested" /\ d.failure = "workload-quiescence-failed"
        /\ d.residue = "none"
        /\ ~d.quiescent /\ ~d.disposable /\ ~d.identity /\ ~d.complete
    BY <1>1, <1>2, <1>5, <1>7, OpenedFacts DEF Summary
  <1>9. FailureStage(d.failure) = 0
    BY <1>8 DEF FailureStage
  <1>10. Recognised(d, plan.allowed)
    <2>1. cleanupObservationValid(d, plan.allowed)
      BY <1>8, <1>9, UndecidedIsValid
    <2> QED
      BY <2>1 DEF Recognised
  <1> HIDE DEF d
  <1>11. Summarised'
    BY <1>2, <1>5, <1>6, <1>7, <1>8, <1>10
    DEF d, Frame, Summarised, Opening, Working, Exporting, Removing
  <1>12. Released'
    BY <1>2, <1>5, <1>7 DEF Released, Exporting
  <1>13. engine' \in Engines /\ (engine'.workload => engine.workload)
    BY Start DEF Engines
  <1> QED
    BY <1>2, <1>4, <1>5, <1>6, <1>11, <1>12, <1>13, LateStep DEF Frame, Gathering, Exporting

LEMMA QuiesceKeepsInv == Inv /\ quiesceWorkloadProcesses => Inv'
  <1> SUFFICES ASSUME Inv, quiesceWorkloadProcesses PROVE Inv'
    OBVIOUS
  <1>0. pc = "quiesce" /\ service' = service /\ Frame
    BY DEF quiesceWorkloadProcesses, At
  <1>1. CASE /\ engine' = [engine EXCEPT !.workload = FALSE]
             /\ local' = [local EXCEPT !.quiesced = TRUE]
             /\ Goto("stop")
    <2>1. engine' \in Engines /\ ~engine'.workload
      BY <1>1, Start DEF Engines
    <2>2. local \in Locals
      BY Start
    <2>3. /\ local' \in Locals /\ local'.next = local.next /\ local'.quiesced
          /\ local'.summary = local.summary /\ local'.emitted = local.emitted
          /\ local'.peerRemoved = local.peerRemoved
          /\ local'.finalization = local.finalization
      BY <1>1, <2>2 DEF Locals
    <2>4. Fin(local) \subseteq Fin(local')
      BY <2>3 DEF Fin
    <2> QED
      BY <1>0, <1>1, <2>1, <2>3, <2>4, GatherStep DEF Goto
  <1>2. CASE /\ \E alive \in {FALSE, engine.workload} : engine' = [engine EXCEPT !.workload = alive]
             /\ local' = [Finalization(local, "CLEANUP_FAILED") EXCEPT
                    !.sessions = {},
                    !.resource = IF Required("resource-usage") THEN "OBSERVER_INCOMPLETE" ELSE @,
                    !.summary.failure = "workload-quiescence-failed",
                    !.emitted = @ + 1]
             /\ Goto("peer")
    <2> DEFINE f == Finalization(local, "CLEANUP_FAILED")
               code == IF Required("resource-usage") THEN "OBSERVER_INCOMPLETE" ELSE local.resource
    <2>1. f \in Locals /\ f.resource = local.resource /\ local \in Locals
      <3>1. local \in Locals /\ "CLEANUP_FAILED" \in FinalizationCodes
        BY Start, CodeFacts
      <3>2. f.resource = local.resource
        BY <3>1 DEF Finalization, Locals
      <3> QED
        BY <3>1, <3>2, FinalizationUntouched
    <2>2. code \in {NoError, "RESOURCE_LIMIT_EXCEEDED", "OBSERVER_INCOMPLETE"}
      BY <2>1 DEF Locals
    <2>3. local' = [Undecided(local, "workload-quiescence-failed") EXCEPT
                        !.sessions = {}, !.resource = code]
      <3>1. local' = [f EXCEPT !.sessions = {}, !.resource = code,
                               !.summary.failure = "workload-quiescence-failed", !.emitted = @ + 1]
        BY <1>2, <2>1
      <3> HIDE DEF f, code
      <3>2. local' = [[f EXCEPT !.summary.failure = "workload-quiescence-failed",
                                !.emitted = @ + 1] EXCEPT !.sessions = {}, !.resource = code]
        BY <3>1, <2>1 DEF Locals
      <3> QED
        BY <3>2 DEF Undecided, f
    <2>4. PICK alive \in {FALSE, engine.workload} : engine' = [engine EXCEPT !.workload = alive]
      BY <1>2
    <2>5. pc' = "peer"
      BY <1>2 DEF Goto
    <2> HIDE DEF code
    <2> QED
      BY <1>0, <2>2, <2>3, <2>4, <2>5, QuiesceFailureKeepsInv
  <1> QED
    BY <1>1, <1>2 DEF quiesceWorkloadProcesses

LEMMA StopKeepsInv == Inv /\ stopSessions => Inv'
  <1> SUFFICES ASSUME Inv, stopSessions PROVE Inv'
    OBVIOUS
  <1>0. pc = "stop" /\ pc' = "final" /\ EngineUnchanged /\ Frame /\ local \in Locals
    BY Start DEF stopSessions, At, Goto
  <1>1. PICK trusted \in SUBSET local.sessions :
            local' = [local EXCEPT !.sessions = {}, !.final = @ \cup
               {IF s = "port" THEN "port-listen" ELSE s : s \in trusted}]
    BY DEF stopSessions
  <1> DEFINE found == local.final \cup {IF s = "port" THEN "port-listen" ELSE s : s \in trusted}
  <1>2. found \in SUBSET Evidence
    <2>1. local.final \in SUBSET Evidence /\ trusted \subseteq {"trace", "port"}
      BY <1>0, <1>1 DEF Locals
    <2>2. "trace" \in Evidence /\ "port-listen" \in Evidence
      BY DEF Evidence, Observers
    <2> QED
      BY <2>1, <2>2
  <1>3. local' = [local EXCEPT !.sessions = {}, !.final = found]
    BY <1>1
  <1> HIDE DEF found
  <1>4. /\ local' \in Locals /\ local'.next = local.next /\ local'.quiesced = local.quiesced
        /\ local'.summary = local.summary /\ local'.emitted = local.emitted
        /\ local'.peerRemoved = local.peerRemoved /\ local'.sessions = {}
        /\ local'.finalization = local.finalization
    BY <1>0, <1>2, <1>3 DEF Locals
  <1>5. Fin(local) \subseteq Fin(local') /\ local.quiesced
    BY <1>0, <1>4 DEF Fin, Inv, Quiet, Gathering
  <1> QED
    BY <1>0, <1>4, <1>5, Start, GatherStep DEF EngineUnchanged

LEMMA FilesystemFinalKeepsInv == Inv /\ filesystemFinal => Inv'
  <1> SUFFICES ASSUME Inv, filesystemFinal PROVE Inv'
    OBVIOUS
  <1>0. pc = "final" /\ pc' = "resource" /\ EngineUnchanged /\ Frame /\ local \in Locals
    BY Start DEF filesystemFinal, At, Goto
  <1>1. local.quiesced /\ local.sessions = {}
    BY <1>0 DEF Inv, Quiet, Released, Gathering
  <1> DEFINE l == [local EXCEPT !.final = @ \cup {"filesystem-write"}]
  <1>2. local' = local \/ local' = l
    BY DEF filesystemFinal
  <1>3. /\ l \in Locals /\ l.next = local.next /\ l.quiesced = local.quiesced
        /\ l.summary = local.summary /\ l.emitted = local.emitted
        /\ l.peerRemoved = local.peerRemoved /\ l.sessions = local.sessions
        /\ l.finalization = local.finalization
    BY <1>0 DEF Locals, Evidence, Observers
  <1> HIDE DEF l
  <1>4. Fin(l) = Fin(local)
    BY <1>3 DEF Fin
  <1> QED
    BY <1>0, <1>1, <1>2, <1>3, <1>4, Start, GatherStep DEF EngineUnchanged

LEMMA ResourceFinalKeepsInv == Inv /\ resourceFinal => Inv'
  <1> SUFFICES ASSUME Inv, resourceFinal PROVE Inv'
    OBVIOUS
  <1>0. pc = "resource" /\ pc' = "disposable" /\ EngineUnchanged /\ Frame /\ local \in Locals
    BY Start DEF resourceFinal, At, Goto
  <1>1. local.quiesced /\ local.sessions = {}
    BY <1>0 DEF Inv, Quiet, Released, Gathering
  <1>2. \/ local' = local
        \/ \E code \in {NoError, "RESOURCE_LIMIT_EXCEEDED", "OBSERVER_INCOMPLETE"},
              final \in SUBSET Evidence :
                local' = [local EXCEPT !.final = final, !.resource = code]
    <2>1. CASE \E code \in IF "resource-usage" \in local.ready
                         THEN {NoError, "RESOURCE_LIMIT_EXCEEDED"} ELSE {NoError} :
                 local' = [local EXCEPT !.final = @ \cup {"resource-usage"}, !.resource = code]
      <3>1. PICK code \in {NoError, "RESOURCE_LIMIT_EXCEEDED"} :
                 local' = [local EXCEPT !.final = @ \cup {"resource-usage"}, !.resource = code]
        BY <2>1
      <3> DEFINE f == local.final \cup {"resource-usage"}
      <3>2. f \in SUBSET Evidence /\ local' = [local EXCEPT !.final = f, !.resource = code]
        BY <1>0, <3>1 DEF Locals, Evidence, Observers
      <3> HIDE DEF f
      <3> QED
        BY <3>1, <3>2
    <2>2. CASE local' = [local EXCEPT !.resource = "OBSERVER_INCOMPLETE"]
      <3>1. local.final \in SUBSET Evidence
        BY <1>0 DEF Locals
      <3>2. local' = [local EXCEPT !.final = local.final, !.resource = "OBSERVER_INCOMPLETE"]
        BY <1>0, <2>2 DEF Locals
      <3> QED
        BY <3>1, <3>2
    <2> QED
      BY <2>1, <2>2 DEF resourceFinal
  <1>3. /\ local' \in Locals /\ local'.next = local.next /\ local'.quiesced = local.quiesced
        /\ local'.summary = local.summary /\ local'.emitted = local.emitted
        /\ local'.peerRemoved = local.peerRemoved /\ local'.sessions = local.sessions
        /\ local'.finalization = local.finalization
    <2>1. CASE local' = local
      BY <2>1, <1>0
    <2>2. ASSUME NEW code \in {NoError, "RESOURCE_LIMIT_EXCEEDED", "OBSERVER_INCOMPLETE"},
                 NEW final \in SUBSET Evidence,
                 local' = [local EXCEPT !.final = final, !.resource = code]
          PROVE  /\ local' \in Locals /\ local'.next = local.next
                 /\ local'.quiesced = local.quiesced /\ local'.summary = local.summary
                 /\ local'.emitted = local.emitted /\ local'.peerRemoved = local.peerRemoved
                 /\ local'.sessions = local.sessions
                 /\ local'.finalization = local.finalization
      BY <2>2, <1>0 DEF Locals
    <2> QED
      BY <1>2, <2>1, <2>2
  <1>4. Fin(local') = Fin(local)
    BY <1>3 DEF Fin
  <1> QED
    BY <1>0, <1>1, <1>3, <1>4, Start, GatherStep DEF EngineUnchanged

(* The evidence ends undecided with an observation that is recognised.     *)
LEMMA RecognisedStep ==
    ASSUME Inv, pc \in {"disposable", "identity", "inventory"}, pc' = "peer",
           EngineUnchanged, Frame,
           NEW failure \in Failures \ {"none"}, NEW d \in Summary,
           local' = [Undecided(local, failure) EXCEPT !.summary = d],
           d.verdict = "not-tested", Recognised(d, plan.allowed)
    PROVE  Inv'
  <1> DEFINE u == Undecided(local, failure)
  <1>1. local \in Locals
    BY Start
  <1>2. /\ u \in Locals /\ u.finalization # << >> /\ Fin(u) = Fin(local) \cup {"CLEANUP_FAILED"}
        /\ u.emitted = local.emitted + 1 /\ u.next = local.next /\ u.quiesced = local.quiesced
        /\ u.sessions = local.sessions /\ u.peerRemoved = local.peerRemoved
    BY <1>1, UndecidedFacts
  <1> HIDE DEF u
  <1>3. local' = [u EXCEPT !.summary = d]
    BY DEF u
  <1>4. /\ local' \in Locals /\ local'.finalization = u.finalization /\ local'.emitted = u.emitted
        /\ local'.next = u.next /\ local'.quiesced = u.quiesced
        /\ local'.sessions = u.sessions /\ local'.peerRemoved = u.peerRemoved
        /\ local'.summary = d
    BY <1>2, <1>3, ZenonT(30) DEF Locals
  <1>5. Fin(local') = Fin(u)
    BY <1>4 DEF Fin
  <1>6. local.emitted = 0 /\ local.sessions = {}
    BY DEF Inv, Summarised, Released, Exporting, Removing
  <1> QED
    BY <1>2, <1>4, <1>5, <1>6, PeerStep DEF Gathering, Exporting, CleanupFailed

(* The evidence ends undecided at the stage its failure class belongs to.  *)
LEMMA UndecidedStep ==
    ASSUME Inv, pc \in {"disposable", "identity", "inventory"}, pc' = "peer",
           EngineUnchanged, Frame,
           NEW failure \in Failures \ {"none"}, NEW d \in Summary, NEW n \in 0..4,
           local' = [Undecided(local, failure) EXCEPT !.summary = d],
           d.verdict = "not-tested", d.failure = failure, FailureStage(failure) = n,
           n < 4 => d.residue = "none",
           d.quiescent <=> 1 <= n, d.disposable <=> 2 <= n,
           d.identity <=> 3 <= n, d.complete <=> 4 <= n
    PROVE  Inv'
  <1>1. cleanupObservationValid(d, plan.allowed)
    BY UndecidedIsValid
  <1>2. Recognised(d, plan.allowed)
    BY <1>1 DEF Recognised
  <1> QED
    BY <1>2, RecognisedStep

(* The next boundary flag is set.                                          *)
LEMMA FlagStep ==
    ASSUME Inv, pc \in {"disposable", "identity"}, pc' \in {"identity", "inventory"},
           EngineUnchanged, Frame, local.id, NEW d \in Summary,
           local' = [local EXCEPT !.summary = d], d.verdict = "not-tested",
           pc' = "identity" => d = [Opened EXCEPT !.quiescent = TRUE, !.disposable = TRUE],
           pc' = "inventory" => d = [Opened EXCEPT !.quiescent = TRUE, !.disposable = TRUE,
                                                   !.identity = TRUE]
    PROVE  Inv'
  <1>1. local \in Locals
    BY Start
  <1>2. /\ local' \in Locals /\ local'.finalization = local.finalization
        /\ local'.emitted = local.emitted /\ local'.next = local.next /\ local'.id = local.id
        /\ local'.quiesced = local.quiesced /\ local'.sessions = local.sessions
        /\ local'.peerRemoved = local.peerRemoved /\ local'.summary = d
    BY <1>1 DEF Locals
  <1>3. Fin(local') = Fin(local)
    BY <1>2 DEF Fin
  <1>4. local.emitted = 0 /\ local.sessions = {} /\ ~local.peerRemoved /\ local.quiesced
    BY DEF Inv, Summarised, Released, Quiet, Gathering, Exporting, Removing
  <1>5. Summarised'
    BY <1>2, <1>4 DEF Summarised, Opening, Working, Exporting, Removing
  <1>6. Released'
    BY <1>2, <1>4 DEF Released, Opening, Exporting, Removing
  <1> QED
    BY <1>2, <1>3, <1>4, <1>5, <1>6, Start, LateStep DEF EngineUnchanged, Frame, Gathering, Exporting

(* Where the failure classes of the later stages may arise.                *)
LEMMA FailureFacts ==
    /\ FailureStage("immutable-container-identity-unavailable") = 0
    /\ FailureStage("sandbox-boundary-unavailable") = 0
    /\ FailureStage("disposable-removal-failed") = 1
    /\ FailureStage("container-identity-readback-failed") = 2
    /\ FailureStage("inventory-failed") = 3
    /\ FailureStage("classification-failed") = 4
    /\ {"immutable-container-identity-unavailable", "disposable-removal-failed",
        "sandbox-boundary-unavailable", "container-identity-readback-failed", "inventory-failed",
        "classification-failed"} \subseteq Failures \ {"none"}
  BY DEF FailureStage, Failures

LEMMA DisposableKeepsInv == Inv /\ removeCleanupDisposableDirectories => Inv'
  <1> SUFFICES ASSUME Inv, removeCleanupDisposableDirectories PROVE Inv'
    OBVIOUS
  <1>0. pc = "disposable" /\ EngineUnchanged /\ Frame /\ local \in Locals
    BY Start DEF removeCleanupDisposableDirectories, At
  <1>1. local.summary = Opened
    BY <1>0 DEF Inv, Summarised
  <1>2. CASE /\ local.id
             /\ local' = [local EXCEPT !.summary.quiescent = TRUE, !.summary.disposable = TRUE]
             /\ Goto("identity")
    <2> DEFINE d == [Opened EXCEPT !.quiescent = TRUE, !.disposable = TRUE]
    <2>1. d \in Summary /\ d.verdict = "not-tested"
      BY OpenedFacts DEF Summary
    <2>2. local' = [local EXCEPT !.summary = d]
      BY <1>0, <1>1, <1>2 DEF Locals
    <2> QED
      BY <1>0, <1>2, <2>1, <2>2, FlagStep DEF Goto
  <1>3. CASE /\ local' = [Undecided(local, "disposable-removal-failed") EXCEPT
                              !.summary.quiescent = TRUE]
             /\ Goto("peer")
    <2> DEFINE u == Undecided(local, "disposable-removal-failed")
               d == [[Opened EXCEPT !.failure = "disposable-removal-failed"] EXCEPT
                         !.quiescent = TRUE]
    <2>1. /\ d \in Summary /\ d.verdict = "not-tested" /\ d.failure = "disposable-removal-failed"
          /\ d.residue = "none" /\ d.quiescent /\ ~d.disposable /\ ~d.identity /\ ~d.complete
      BY OpenedFacts, FailureFacts DEF Summary
    <2>2. u.summary = [Opened EXCEPT !.failure = "disposable-removal-failed"] /\ u \in Locals
      BY <1>0, <1>1, UndecidedFacts, FailureFacts
    <2>3. local' = [u EXCEPT !.summary = d]
      <3>1. local' = [u EXCEPT !.summary.quiescent = TRUE]
        BY <1>3
      <3> HIDE DEF u
      <3> QED
        BY <3>1, <2>2 DEF Locals
    <2> HIDE DEF d
    <2>4. /\ d.quiescent <=> 1 <= 1
          /\ d.disposable <=> 2 <= 1
          /\ d.identity <=> 3 <= 1
          /\ d.complete <=> 4 <= 1
      BY <2>1
    <2>5. pc' = "peer" /\ 1 \in 0..4 /\ FailureStage("disposable-removal-failed") = 1
          /\ "disposable-removal-failed" \in Failures \ {"none"}
      BY <1>3, FailureFacts DEF Goto
    <2> QED
      BY <1>0, <2>1, <2>3, <2>4, <2>5, UndecidedStep
  <1>4. CASE /\ local' = Undecided(local, "immutable-container-identity-unavailable")
             /\ Goto("peer")
    <2> DEFINE u == Undecided(local, "immutable-container-identity-unavailable")
               d == [Opened EXCEPT !.failure = "immutable-container-identity-unavailable"]
    <2>1. /\ d \in Summary /\ d.verdict = "not-tested" /\ d.residue = "none"
          /\ d.failure = "immutable-container-identity-unavailable"
          /\ ~d.quiescent /\ ~d.disposable /\ ~d.identity /\ ~d.complete
      BY OpenedFacts, FailureFacts DEF Summary
    <2>2. u.summary = d /\ u \in Locals
      BY <1>0, <1>1, UndecidedFacts, FailureFacts
    <2>3. local' = [u EXCEPT !.summary = d]
      <3>1. local' = u
        BY <1>4
      <3> HIDE DEF u, d
      <3> QED
        BY <3>1, <2>2 DEF Locals
    <2> HIDE DEF d
    <2> QED
      BY <1>0, <1>4, <2>1, <2>3, FailureFacts, UndecidedStep DEF Goto
  <1> QED
    BY <1>2, <1>3, <1>4 DEF removeCleanupDisposableDirectories

LEMMA IdentityKeepsInv == Inv /\ inspectContainerIdentity => Inv'
  <1> SUFFICES ASSUME Inv, inspectContainerIdentity PROVE Inv'
    OBVIOUS
  <1> DEFINE s == [Opened EXCEPT !.quiescent = TRUE, !.disposable = TRUE]
  <1>0. pc = "identity" /\ EngineUnchanged /\ Frame /\ local \in Locals
    BY Start DEF inspectContainerIdentity, At
  <1>1. local.summary = s /\ local.id
    BY <1>0 DEF Inv, Summarised, Released
  <1>2. CASE local' = [local EXCEPT !.summary.identity = TRUE] /\ Goto("inventory")
    <2> DEFINE d == [Opened EXCEPT !.quiescent = TRUE, !.disposable = TRUE, !.identity = TRUE]
    <2>1. d \in Summary /\ d.verdict = "not-tested" /\ d = [s EXCEPT !.identity = TRUE]
      BY OpenedFacts DEF Summary
    <2>2. local' = [local EXCEPT !.summary = d]
      BY <1>0, <1>1, <1>2, <2>1 DEF Locals
    <2> QED
      BY <1>0, <1>1, <1>2, <2>1, <2>2, FlagStep DEF Goto
  <1>3. CASE /\ local' = Undecided(local, "container-identity-readback-failed")
             /\ Goto("peer")
    <2> DEFINE u == Undecided(local, "container-identity-readback-failed")
               d == [s EXCEPT !.failure = "container-identity-readback-failed"]
    <2>1. /\ d \in Summary /\ d.verdict = "not-tested" /\ d.residue = "none"
          /\ d.failure = "container-identity-readback-failed"
          /\ d.quiescent /\ d.disposable /\ ~d.identity /\ ~d.complete
      BY OpenedFacts, FailureFacts DEF Summary
    <2>2. u.summary = d /\ u \in Locals
      <3>1. "container-identity-readback-failed" \in Failures
        BY FailureFacts
      <3>2. /\ u.summary = [local.summary EXCEPT !.failure = "container-identity-readback-failed"]
            /\ u \in Locals
        BY <1>0, <3>1, UndecidedFacts
      <3> QED
        BY <1>1, <3>2
    <2>3. local' = [u EXCEPT !.summary = d]
      <3>1. local' = u
        BY <1>3
      <3> HIDE DEF u, d
      <3> QED
        BY <3>1, <2>2 DEF Locals
    <2> HIDE DEF d
    <2> QED
      BY <1>0, <1>3, <2>1, <2>3, FailureFacts, UndecidedStep DEF Goto
  <1> QED
    BY <1>2, <1>3 DEF inspectContainerIdentity

(* The summary is replaced and the observation counted.                    *)
LEMMA EmitFacts ==
    ASSUME NEW l \in Locals, NEW d \in Summary
    PROVE  LET m == [l EXCEPT !.summary = d, !.emitted = 1] IN
           /\ m \in Locals /\ m.finalization = l.finalization
           /\ m.emitted = 1 /\ m.next = l.next /\ m.id = l.id /\ m.quiesced = l.quiesced
           /\ m.sessions = l.sessions /\ m.peerRemoved = l.peerRemoved /\ m.summary = d
           /\ m.primary = l.primary
  BY DEF Locals

(* The inventory is classified.                                            *)
LEMMA DecidedKeepsInv ==
    ASSUME Inv, pc = "inventory", EngineUnchanged, Frame,
           NEW residue \in PossibleResidue, NEW d,
           d = [local.summary EXCEPT !.verdict = classifyCleanupInventory(residue),
                                     !.failure = "none", !.complete = TRUE, !.residue = residue],
           local' = [local EXCEPT !.summary = d, !.emitted = 1],
           pc' = IF local.exportSafe /\ residue # "unsafe" THEN "repair" ELSE "peer"
    PROVE  Inv'
  <1> DEFINE s == [Opened EXCEPT !.quiescent = TRUE, !.disposable = TRUE, !.identity = TRUE]
             v == classifyCleanupInventory(residue)
  <1>1. /\ local.summary = s /\ local.id /\ local.emitted = 0 /\ local.quiesced
        /\ local.sessions = {} /\ local \in Locals /\ plan \in Plans
    BY Start DEF Inv, Summarised, Released, Quiet, Gathering, Exporting, Removing
  <1>2. residue \in {"none", "plain", "unsafe"} /\ (residue = "none" => ~engine.produced)
    BY DEF PossibleResidue
  <1>3. /\ v \in Cleanup /\ v # "not-tested"
        /\ v = "clean" => residue = "none"
    BY <1>2 DEF classifyCleanupInventory, Cleanup
  <1>4. s \in Summary /\ s.quiescent /\ s.disposable /\ s.identity
    BY OpenedFacts DEF Summary
  <1>5. d = [s EXCEPT !.verdict = v, !.failure = "none", !.complete = TRUE, !.residue = residue]
    BY <1>1
  <1> HIDE DEF s, v
  <1>6. /\ d \in Summary /\ d.verdict = v /\ d.failure = "none" /\ d.residue = residue
        /\ d.quiescent /\ d.disposable /\ d.identity /\ d.complete
    BY <1>2, <1>3, <1>4, <1>5 DEF Summary, Failures
  <1>7. Recognised(d, plan.allowed)
    <2>1. cleanupObservationValid(d, plan.allowed)
      BY <1>1, <1>6, DecidedIsValid DEF v
    <2> QED
      BY <2>1 DEF Recognised
  <1>8. /\ local' \in Locals /\ local'.finalization = local.finalization
        /\ local'.emitted = 1 /\ local'.next = local.next /\ local'.id = local.id
        /\ local'.quiesced = local.quiesced /\ local'.sessions = local.sessions
        /\ local'.peerRemoved = local.peerRemoved /\ local'.summary = d
    BY <1>1, <1>6, EmitFacts
  <1>9. Fin(local') = Fin(local)
    BY <1>8 DEF Fin
  <1>10. /\ pc' \in {"peer"} \cup Exporting
         /\ pc' \in Exporting => residue # "unsafe"
    BY DEF Exporting
  <1> QED
    BY <1>1, <1>2, <1>3, <1>6, <1>7, <1>8, <1>9, <1>10, PeerStep DEF Gathering

LEMMA InventoryKeepsInv == Inv /\ collectCleanupInventory => Inv'
  <1> SUFFICES ASSUME Inv, collectCleanupInventory PROVE Inv'
    OBVIOUS
  <1> DEFINE s == [Opened EXCEPT !.quiescent = TRUE, !.disposable = TRUE, !.identity = TRUE]
  <1>0. pc = "inventory" /\ EngineUnchanged /\ Frame /\ local \in Locals
    BY Start DEF collectCleanupInventory, At
  <1>1. local.summary = s
    BY <1>0 DEF Inv, Summarised
  <1>2. CASE local' = Undecided(local, "inventory-failed") /\ Goto("peer")
    <2> DEFINE u == Undecided(local, "inventory-failed")
               d == [s EXCEPT !.failure = "inventory-failed"]
    <2>1. /\ d \in Summary /\ d.verdict = "not-tested" /\ d.residue = "none"
          /\ d.failure = "inventory-failed"
          /\ d.quiescent /\ d.disposable /\ d.identity /\ ~d.complete
      BY OpenedFacts, FailureFacts DEF Summary
    <2>2. u.summary = d /\ u \in Locals
      <3>1. "inventory-failed" \in Failures
        BY FailureFacts
      <3>2. u.summary = [local.summary EXCEPT !.failure = "inventory-failed"] /\ u \in Locals
        BY <1>0, <3>1, UndecidedFacts
      <3> QED
        BY <1>1, <3>2
    <2>3. local' = [u EXCEPT !.summary = d]
      <3>1. local' = u
        BY <1>2
      <3> HIDE DEF u, d
      <3> QED
        BY <3>1, <2>2 DEF Locals
    <2> HIDE DEF d
    <2> QED
      BY <1>0, <1>2, <2>1, <2>3, FailureFacts, UndecidedStep DEF Goto
  <1>5. CASE local' = Undecided(local, "disposable-removal-failed") /\ Goto("peer")
    <2> DEFINE u == Undecided(local, "disposable-removal-failed")
               d == [s EXCEPT !.failure = "disposable-removal-failed"]
    <2>1. /\ d \in Summary /\ d.verdict = "not-tested" /\ d.residue = "none"
          /\ d.failure = "disposable-removal-failed"
          /\ d.quiescent /\ d.disposable /\ d.identity /\ ~d.complete
      BY OpenedFacts, FailureFacts DEF Summary
    <2>2. u.summary = d /\ u \in Locals
      <3>1. "disposable-removal-failed" \in Failures
        BY FailureFacts
      <3>2. u.summary = [local.summary EXCEPT !.failure = "disposable-removal-failed"] /\ u \in Locals
        BY <1>0, <3>1, UndecidedFacts
      <3> QED
        BY <1>1, <3>2
    <2>3. local' = [u EXCEPT !.summary = d]
      <3>1. local' = u
        BY <1>5
      <3> HIDE DEF u, d
      <3> QED
        BY <3>1, <2>2 DEF Locals
    <2> HIDE DEF d
    <2>4. Recognised(d, plan.allowed)
      BY <2>1 DEF Recognised, DisposableReappeared
    <2> QED
      BY <1>0, <1>5, <2>1, <2>3, <2>4, FailureFacts, RecognisedStep DEF Goto
  <1>3. CASE /\ \E residue \in PossibleResidue :
                    local' = [Undecided(local, "classification-failed") EXCEPT
                                  !.summary.complete = TRUE, !.summary.residue = residue]
             /\ Goto("peer")
    <2>0. PICK residue \in PossibleResidue :
              local' = [Undecided(local, "classification-failed") EXCEPT
                            !.summary.complete = TRUE, !.summary.residue = residue]
      BY <1>3
    <2>1. residue \in {"none", "plain", "unsafe"}
      BY DEF PossibleResidue
    <2> DEFINE u == Undecided(local, "classification-failed")
               r == [s EXCEPT !.failure = "classification-failed"]
               d == [r EXCEPT !.complete = TRUE, !.residue = residue]
    <2>2. /\ r \in Summary /\ r.verdict = "not-tested" /\ r.failure = "classification-failed"
          /\ r.quiescent /\ r.disposable /\ r.identity
      BY OpenedFacts, FailureFacts DEF Summary
    <2>3. u.summary = r /\ u \in Locals
      <3>1. "classification-failed" \in Failures
        BY FailureFacts
      <3>2. u.summary = [local.summary EXCEPT !.failure = "classification-failed"] /\ u \in Locals
        BY <1>0, <3>1, UndecidedFacts
      <3> QED
        BY <1>1, <3>2
    <2> HIDE DEF r
    <2>4. /\ d \in Summary /\ d.verdict = "not-tested" /\ d.failure = "classification-failed"
          /\ d.quiescent /\ d.disposable /\ d.identity /\ d.complete
      BY <2>1, <2>2 DEF Summary
    <2>5. local' = [u EXCEPT !.summary = d]
      <3>1. local' = [u EXCEPT !.summary.complete = TRUE, !.summary.residue = residue]
        BY <2>0
      <3> HIDE DEF u
      <3> QED
        BY <3>1, <2>3 DEF Locals
    <2> HIDE DEF d
    <2>6. /\ d.quiescent <=> 1 <= 4
          /\ d.disposable <=> 2 <= 4
          /\ d.identity <=> 3 <= 4
          /\ d.complete <=> 4 <= 4
      BY <2>4
    <2>7. pc' = "peer" /\ 4 \in 0..4 /\ FailureStage("classification-failed") = 4
          /\ "classification-failed" \in Failures \ {"none"} /\ ~(4 < 4)
      BY <1>3, FailureFacts DEF Goto
    <2> QED
      BY <1>0, <2>4, <2>5, <2>6, <2>7, UndecidedStep
  <1>4. CASE \E residue \in PossibleResidue :
              /\ local' = [local EXCEPT
                     !.summary.verdict = classifyCleanupInventory(residue),
                     !.summary.failure = "none",
                     !.summary.complete = TRUE,
                     !.summary.residue = residue,
                     !.emitted = @ + 1]
              /\ Goto(IF local.exportSafe /\ residue # "unsafe" THEN "repair" ELSE "peer")
    <2>1. PICK residue \in PossibleResidue :
              /\ local' = [local EXCEPT
                     !.summary.verdict = classifyCleanupInventory(residue),
                     !.summary.failure = "none",
                     !.summary.complete = TRUE,
                     !.summary.residue = residue,
                     !.emitted = @ + 1]
              /\ Goto(IF local.exportSafe /\ residue # "unsafe" THEN "repair" ELSE "peer")
      BY <1>4
    <2> DEFINE v == classifyCleanupInventory(residue)
               d == [local.summary EXCEPT !.verdict = v, !.failure = "none", !.complete = TRUE,
                                          !.residue = residue]
    <2>2. local.emitted + 1 = 1
      BY <1>0 DEF Inv, Summarised, Exporting, Removing
    <2>3. local' = [local EXCEPT !.summary.verdict = v, !.summary.failure = "none",
                                 !.summary.complete = TRUE, !.summary.residue = residue,
                                 !.emitted = 1]
      BY <2>1, <2>2
    <2> HIDE DEF v
    <2>4. local' = [local EXCEPT !.summary = d, !.emitted = 1]
      BY <1>0, <2>3 DEF Locals
    <2> HIDE DEF d
    <2>5. d = [local.summary EXCEPT !.verdict = classifyCleanupInventory(residue),
                                    !.failure = "none", !.complete = TRUE, !.residue = residue]
      BY DEF d, v
    <2>6. pc' = IF local.exportSafe /\ residue # "unsafe" THEN "repair" ELSE "peer"
      BY <2>1 DEF Goto
    <2> QED
      BY <1>0, <2>4, <2>5, <2>6, DecidedKeepsInv
  <1> QED
    BY <1>2, <1>3, <1>4, <1>5 DEF collectCleanupInventory

(* Once the observation is made it stays as it is.                         *)
LEMMA Emitted ==
    ASSUME Inv, pc \in Exporting \cup Removing
    PROVE  /\ local \in Locals /\ local.emitted = 1 /\ local.sessions = {}
           /\ Recognised(local.summary, plan.allowed)
           /\ local.summary.verdict = "not-tested" =>
                  local.finalization # << >> \/ local.primary # NoError
           /\ local.summary.verdict = "clean" => ~engine.produced \/ CleanupFailed(local)
           /\ pc \in Exporting => local.id /\ local.quiesced /\ local.summary.residue # "unsafe"
           /\ pc \in Exporting \cup {"peer"} => ~local.peerRemoved
  BY Start DEF Inv, Summarised, Released, Quiet, Exporting, Removing

(* A step of the export leaves the observation alone: it sets exported, or *)
(* records an error, or neither.                                           *)
LEMMA ExportStep ==
    ASSUME Inv, pc \in Exporting, pc' \in {"peer"} \cup Exporting, EngineUnchanged, Frame,
           \/ local' = local
           \/ local' = [local EXCEPT !.exported = TRUE]
           \/ \E code \in FinalizationCodes : local' = Finalization(local, code)
    PROVE  Inv'
  <1>1. local \in Locals
    BY Start
  <1>2. /\ local' \in Locals /\ Untouched(local, local')
        /\ local'.next = local.next /\ local'.id = local.id /\ local'.sessions = local.sessions
        /\ local'.primary = local.primary
        /\ local.finalization # << >> => local'.finalization # << >>
    <2>1. CASE local' = local
      BY <2>1, Start
    <2>2. CASE local' = [local EXCEPT !.exported = TRUE]
      <3>1. /\ local' \in Locals /\ local'.finalization = local.finalization
            /\ local'.next = local.next /\ local'.id = local.id /\ local'.sessions = local.sessions
            /\ local'.primary = local.primary /\ local'.quiesced = local.quiesced
            /\ local'.summary = local.summary /\ local'.emitted = local.emitted
            /\ local'.peerRemoved = local.peerRemoved
        BY <1>1, <2>2 DEF Locals
      <3> QED
        BY <3>1 DEF Untouched, Fin
    <2>3. CASE \E code \in FinalizationCodes : local' = Finalization(local, code)
      BY <1>1, <2>3, FinalizationUntouched
    <2> QED
      BY <2>1, <2>2, <2>3
  <1>3. CleanupFailed(local) => CleanupFailed(local')
    BY <1>2 DEF Untouched, CleanupFailed
  <1> QED
    BY <1>2, <1>3, Emitted, PeerStep DEF Untouched

LEMMA RepairKeepsInv == Inv /\ repairOutputPermissions => Inv'
  <1> SUFFICES ASSUME Inv, repairOutputPermissions PROVE Inv'
    OBVIOUS
  <1>1. "CLEANUP_FAILED" \in FinalizationCodes
    BY CodeFacts
  <1> QED
    BY <1>1, ExportStep DEF repairOutputPermissions, At, Goto, Exporting

LEMMA ExportKeepsInv == Inv /\ exportOutputs => Inv'
  <1> SUFFICES ASSUME Inv, exportOutputs PROVE Inv'
    OBVIOUS
  <1>1. {"CLEANUP_FAILED", "RESOURCE_LIMIT_EXCEEDED", "FORBIDDEN_FILESYSTEM_ACCESS"}
            \subseteq FinalizationCodes
    BY CodeFacts
  <1> QED
    BY <1>1, ExportStep DEF exportOutputs, At, Goto, Exporting

LEMMA UnavailableKeepsInv == Inv /\ boundaryUnavailable => Inv'
  <1> SUFFICES ASSUME Inv, boundaryUnavailable PROVE Inv'
    OBVIOUS
  <1> DEFINE d == newCleanupResidueSummary("sandbox-boundary-unavailable")
  <1>0. pc = "unavailable" /\ pc' = "peer" /\ EngineUnchanged /\ Frame /\ local \in Locals
    BY Start DEF boundaryUnavailable, At, Goto
  <1>1. local.emitted + 1 = 1 /\ local.sessions = {} /\ local.primary # NoError
    BY <1>0 DEF Inv, Summarised, Released, Opening, Exporting, Removing
  <1>2. local' = [local EXCEPT !.summary = d, !.emitted = 1]
    BY <1>1 DEF boundaryUnavailable
  <1>3. /\ d \in Summary /\ d.verdict = "not-tested" /\ d.residue = "none"
        /\ d.failure = "sandbox-boundary-unavailable"
        /\ ~d.quiescent /\ ~d.disposable /\ ~d.identity /\ ~d.complete
    BY DEF newCleanupResidueSummary, Summary, Cleanup, Failures
  <1> HIDE DEF d
  <1>4. Recognised(d, plan.allowed)
    <2>1. cleanupObservationValid(d, plan.allowed)
      BY <1>3, FailureFacts, UndecidedIsValid
    <2> QED
      BY <2>1 DEF Recognised
  <1>5. /\ local' \in Locals /\ local'.finalization = local.finalization
        /\ local'.emitted = 1 /\ local'.next = local.next
        /\ local'.quiesced = local.quiesced /\ local'.sessions = local.sessions
        /\ local'.peerRemoved = local.peerRemoved /\ local'.summary = d
        /\ local'.primary = local.primary
    BY <1>0, <1>2, <1>3, EmitFacts
  <1>6. Fin(local') = Fin(local)
    BY <1>5 DEF Fin
  <1> QED
    BY <1>0, <1>1, <1>3, <1>4, <1>5, <1>6, PeerStep DEF Exporting

(* A step that removes something keeps the observation and the errors: the *)
(* removal is left to be shown.                                            *)
LEMMA RemoveStep ==
    ASSUME Inv, pc \in {"peer", "remove"}, pc' \in {"remove", "finish"}, service' = service, Frame,
           engine' \in Engines, engine'.produced = engine.produced,
           engine'.workload => engine.workload,
           local' \in Locals, local'.next = local.next, local'.quiesced = local.quiesced,
           local'.summary = local.summary, local'.emitted = local.emitted,
           local'.sessions = local.sessions, local'.primary = local.primary,
           local.finalization # << >> => local'.finalization # << >>,
           Fin(local) \subseteq Fin(local'),
           local'.peerRemoved => ~engine'.peer,
           local'.peerID /\ engine'.peer => DestroyFailed(local'),
           pc' = "finish" => (engine'.target # "absent" => DestroyFailed(local'))
    PROVE  Inv'
  <1>1. pc \in Exporting \cup Removing
    BY DEF Removing
  <1>2. CleanupFailed(local) => CleanupFailed(local')
    BY DEF CleanupFailed
  <1>3. Summarised'
    BY <1>1, <1>2, Emitted DEF Frame, Summarised, Opening, Working, Exporting, Removing
  <1>4. Released'
    BY <1>1, Emitted DEF Released, Exporting
  <1> QED
    BY <1>3, <1>4, LateStep DEF Frame, Gathering, Exporting

LEMMA RemovePeerKeepsInv == Inv /\ removePeerPortContainer => Inv'
  <1> SUFFICES ASSUME Inv, removePeerPortContainer PROVE Inv'
    OBVIOUS
  <1>0. /\ pc = "peer" /\ pc' = "remove" /\ service' = service /\ Frame
        /\ local \in Locals /\ engine \in Engines /\ ~local.peerRemoved
    BY Start, Emitted DEF removePeerPortContainer, At, Goto, Exporting, Removing
  <1>1. CASE local' = [local EXCEPT !.peerRemoved = TRUE] /\ engine' = [engine EXCEPT !.peer = FALSE]
    <2>1. /\ engine' \in Engines /\ engine'.produced = engine.produced /\ ~engine'.peer
          /\ engine'.workload = engine.workload
      BY <1>0, <1>1 DEF Engines
    <2>2. /\ local' \in Locals /\ local'.next = local.next /\ local'.quiesced = local.quiesced
          /\ local'.summary = local.summary /\ local'.emitted = local.emitted
          /\ local'.sessions = local.sessions /\ local'.primary = local.primary
          /\ local'.finalization = local.finalization
      BY <1>0, <1>1 DEF Locals
    <2>3. Fin(local') = Fin(local)
      BY <2>2 DEF Fin
    <2> QED
      BY <1>0, <2>1, <2>2, <2>3, RemoveStep
  <1>2. CASE /\ local' = Finalization(local, "SANDBOX_DESTROY_FAILED")
             /\ \E peer \in BOOLEAN : engine' = [engine EXCEPT !.peer = peer]
    <2>1. /\ engine' \in Engines /\ engine'.produced = engine.produced
          /\ engine'.workload = engine.workload
      BY <1>0, <1>2 DEF Engines
    <2>2. "SANDBOX_DESTROY_FAILED" \in FinalizationCodes
      BY CodeFacts
    <2>3. /\ local' \in Locals /\ local'.next = local.next /\ Untouched(local, local')
          /\ local'.sessions = local.sessions /\ local'.primary = local.primary
          /\ local'.finalization # << >> /\ DestroyFailed(local')
      BY <1>0, <1>2, <2>2, FinalizationUntouched DEF DestroyFailed
    <2> QED
      BY <1>0, <2>1, <2>3, RemoveStep DEF Untouched
  <1>3. CASE ~local.peerID /\ local' = local /\ engine' = engine
    BY <1>0, <1>3, RemoveStep
  <1> QED
    BY <1>1, <1>2, <1>3 DEF removePeerPortContainer

LEMMA RemoveContainerKeepsInv == Inv /\ removeContainer => Inv'
  <1> SUFFICES ASSUME Inv, removeContainer PROVE Inv'
    OBVIOUS
  <1> DEFINE gone == [engine EXCEPT !.target = "absent", !.workload = FALSE]
  <1>0. /\ pc = "remove" /\ pc' = "finish" /\ service' = service /\ Frame
        /\ local \in Locals /\ engine \in Engines
    BY Start DEF removeContainer, At, Goto
  <1>1. /\ local.peerRemoved => ~engine.peer
        /\ local.peerID /\ engine.peer => DestroyFailed(local)
    BY <1>0 DEF Inv, Released
  <1>2. /\ gone \in Engines /\ gone.produced = engine.produced /\ gone.peer = engine.peer
        /\ gone.target = "absent" /\ ~gone.workload
    BY <1>0 DEF Engines
  <1>3. engine' \in {engine, gone}
    BY DEF removeContainer
  <1>4. CASE engine' = gone /\ local' = local
    <2> HIDE DEF gone
    <2> QED
      BY <1>0, <1>1, <1>2, <1>4, RemoveStep
  <1>5. CASE local' = Finalization(local, "SANDBOX_DESTROY_FAILED")
    <2>1. "SANDBOX_DESTROY_FAILED" \in FinalizationCodes
      BY CodeFacts
    <2>2. /\ local' \in Locals /\ local'.next = local.next /\ Untouched(local, local')
          /\ local'.sessions = local.sessions /\ local'.primary = local.primary
          /\ local'.finalization # << >> /\ DestroyFailed(local')
      BY <1>0, <1>5, <2>1, FinalizationUntouched DEF DestroyFailed
    <2>3. local'.peerRemoved = local.peerRemoved
      BY <2>2 DEF Untouched
    <2> HIDE DEF gone
    <2>4. /\ engine' \in Engines /\ engine'.produced = engine.produced /\ engine'.peer = engine.peer
          /\ engine'.workload => engine.workload
      BY <1>0, <1>2, <1>3
    <2> QED
      BY <1>0, <1>1, <2>2, <2>3, <2>4, RemoveStep DEF Untouched
  <1> QED
    BY <1>4, <1>5 DEF removeContainer

-----------------------------------------------------------------------------
(* The outcome.                                                            *)

(* An assertion failure is an error of the journey; without one every      *)
(* assertion passed.                                                       *)
LEMMA AssertionFacts ==
    ASSUME NEW statuses
    PROVE  /\ assertionFailure(statuses) \in {"JOURNEY_ASSERTION_FAILED", "OBSERVER_INCOMPLETE", NoError}
           /\ assertionFailure(statuses) = NoError =>
                  \A i \in DOMAIN statuses : statuses[i] = "passed"
  <1>1. NoError # "JOURNEY_ASSERTION_FAILED" /\ NoError # "OBSERVER_INCOMPLETE"
    BY CodeFacts
  <1> QED
    BY <1>1 DEF assertionFailure

\* The errors of a run as finish puts them together.
ReturnedOf(l, statuses) ==
    IF l.primary # NoError THEN l.primary
    ELSE IF l.finalization # << >> THEN Head(l.finalization)
    ELSE IF l.resource # NoError THEN l.resource
    ELSE assertionFailure(statuses)

ReportedOf(l, statuses, found) ==
    {l.primary, l.resource, ReturnedOf(l, statuses)} \cup Fin(l)
    \cup (IF l.summary.verdict = "undeclared-residue" THEN {"CLEANUP_RESIDUE"} ELSE {})
    \cup found

OutcomeOf(l, statuses, found, complete, compared, valid) ==
    [returned |-> ReturnedOf(l, statuses),
     errors |-> ReportedOf(l, statuses, found) \ {NoError},
     cleanup |-> cleanupOutcome(l), observed |-> l.summary.verdict, emitted |-> l.emitted,
     valid |-> valid, statuses |-> statuses, complete |-> complete, compared |-> compared]

(* However the errors are put together, the outcome keeps the contract.    *)
LEMMA OutcomeFacts ==
    ASSUME NEW l \in Locals, NEW statuses, NEW complete, NEW compared, NEW valid,
           ~valid => l.summary.verdict = "not-tested",
           NEW found \in SUBSET {"UNDECLARED_FILESYSTEM_WRITE", "UNDECLARED_PORT_LISTEN"},
           l.emitted = 1,
           l.summary.verdict = "not-tested" => l.finalization # << >> \/ l.primary # NoError
    PROVE  /\ MayReturn(OutcomeOf(l, statuses, found, complete, compared, valid))
           /\ Fin(l) \subseteq OutcomeOf(l, statuses, found, complete, compared, valid).errors
  <1> DEFINE returned == ReturnedOf(l, statuses)
             reported == ReportedOf(l, statuses, found)
             o == OutcomeOf(l, statuses, found, complete, compared, valid)
  <1>a. returned = IF l.primary # NoError THEN l.primary
                   ELSE IF l.finalization # << >> THEN Head(l.finalization)
                   ELSE IF l.resource # NoError THEN l.resource
                   ELSE assertionFailure(statuses)
    BY DEF ReturnedOf
  <1>b. reported = {l.primary, l.resource, returned} \cup Fin(l)
                   \cup (IF l.summary.verdict = "undeclared-residue"
                         THEN {"CLEANUP_RESIDUE"} ELSE {})
                   \cup found
    BY DEF ReportedOf
  <1>c. o = [returned |-> returned, errors |-> reported \ {NoError},
             cleanup |-> cleanupOutcome(l), observed |-> l.summary.verdict,
             emitted |-> l.emitted, valid |-> valid, statuses |-> statuses,
             complete |-> complete, compared |-> compared]
    BY DEF OutcomeOf
  <1> HIDE DEF returned, reported, o
  <1> DEFINE v == l.summary.verdict
             f == l.finalization
             Plain == RunCodes \cup {NoError}
  <1>1. l.primary \in Plain /\ l.resource \in Plain /\ f \in Seq(FinalizationCodes) /\ v \in Cleanup
    <2>1. {"RESOURCE_LIMIT_EXCEEDED", "OBSERVER_INCOMPLETE"} \subseteq RunCodes
      BY CodeFacts
    <2>2. l.summary \in Summary
      BY DEF Locals
    <2> QED
      BY <2>1, <2>2 DEF Locals, Summary
  <1>2. /\ o.returned = returned /\ o.errors = reported \ {NoError} /\ o.cleanup = cleanupOutcome(l)
        /\ o.observed = v /\ o.emitted = 1 /\ o.statuses = statuses /\ o.valid = valid
    BY <1>c
  <1>3. /\ Fin(l) \subseteq FinalizationCodes
        /\ f # << >> => Head(f) \in Fin(l)
        /\ f = << >> => Fin(l) = {}
    <2>1. \A i \in DOMAIN f : f[i] \in FinalizationCodes
      BY <1>1
    <2>2. f # << >> => 1 \in DOMAIN f /\ Head(f) = f[1]
      BY <1>1
    <2>3. f = << >> => DOMAIN f = {}
      OBVIOUS
    <2> QED
      BY <2>1, <2>2, <2>3 DEF Fin
  <1>4. assertionFailure(statuses) \in Plain
    <2>1. "JOURNEY_ASSERTION_FAILED" \in RunCodes /\ "OBSERVER_INCOMPLETE" \in RunCodes
      BY CodeFacts
    <2> QED
      BY <2>1, AssertionFacts
  <1>5. /\ "CLEANUP_RESIDUE" \notin Plain /\ "SANDBOX_DESTROY_FAILED" \notin Plain
        /\ "CLEANUP_RESIDUE" \notin FinalizationCodes /\ NoError \notin FinalizationCodes
        /\ NoError # "CLEANUP_RESIDUE" /\ NoError # "SANDBOX_DESTROY_FAILED"
    <2>1. NoError # "SANDBOX_DESTROY_FAILED" /\ NoError # "CLEANUP_RESIDUE"
      BY CodeFacts
    <2>2. "CLEANUP_RESIDUE" \notin RunCodes /\ "SANDBOX_DESTROY_FAILED" \notin RunCodes
      BY DEF RunCodes
    <2>3. NoError \notin FinalizationCodes /\ "CLEANUP_RESIDUE" \notin FinalizationCodes
      BY CodeFacts
    <2> QED
      BY <2>1, <2>2, <2>3
  <1> HIDE DEF Plain, v, f
  <1>6. returned \in Plain \cup Fin(l)
    BY <1>a, <1>1, <1>3, <1>4 DEF f
  <1>7. returned = NoError =>
            l.primary = NoError /\ f = << >> /\ l.resource = NoError
            /\ assertionFailure(statuses) = NoError
    BY <1>a, <1>3, <1>5 DEF f
  <1>8. o.cleanup = IF v = "undeclared-residue" THEN "undeclared-residue"
                    ELSE IF f # << >> THEN "not-tested" ELSE v
    BY <1>2 DEF cleanupOutcome, v, f
  <1>9. Fin(l) \subseteq o.errors
    BY <1>b, <1>2, <1>3, <1>5
  <1>10. returned = NoError => o.errors \subseteq FindingCodes /\ o.cleanup # "not-tested"
    <2> SUFFICES ASSUME returned = NoError
                 PROVE  o.errors \subseteq FindingCodes /\ o.cleanup # "not-tested"
      OBVIOUS
    <2>1. v # "not-tested"
      BY <1>7 DEF v, f
    <2>2. reported \subseteq {NoError, "CLEANUP_RESIDUE"} \cup found
      BY <1>b, <1>3, <1>7
    <2> QED
      BY <1>2, <1>7, <1>8, <2>1, <2>2 DEF FindingCodes
  <1>11. "CLEANUP_RESIDUE" \in o.errors <=> v = "undeclared-residue"
    <2>1. "CLEANUP_RESIDUE" \notin {l.primary, l.resource, returned} \cup Fin(l) \cup found
      BY <1>1, <1>3, <1>5, <1>6
    <2> QED
      BY <1>b, <1>2, <1>5, <2>1 DEF v
  <1>12. o.cleanup \in {"clean", "allowed-residue"} =>
             v = o.cleanup /\ "SANDBOX_DESTROY_FAILED" \notin o.errors
    <2> SUFFICES ASSUME o.cleanup \in {"clean", "allowed-residue"}
                 PROVE  v = o.cleanup /\ "SANDBOX_DESTROY_FAILED" \notin o.errors
      OBVIOUS
    <2>1. f = << >> /\ v = o.cleanup /\ v # "undeclared-residue"
      BY <1>8
    <2>2. Fin(l) = {}
      BY <1>3, <2>1
    <2>3. "SANDBOX_DESTROY_FAILED" \notin reported
      BY <1>b, <1>1, <1>5, <1>6, <2>1, <2>2 DEF v
    <2> QED
      BY <1>2, <2>1, <2>3
  <1>13. o.cleanup = "not-tested" /\ v # "not-tested" => Meets(FinalizationCodes, o.errors)
    <2> SUFFICES ASSUME o.cleanup = "not-tested", v # "not-tested"
                 PROVE  Meets(FinalizationCodes, o.errors)
      OBVIOUS
    <2>1. f # << >>
      BY <1>8
    <2>2. Head(f) \in Fin(l)
      BY <1>3, <2>1
    <2> QED
      BY <1>3, <1>9, <2>2 DEF Meets
  <1>14. returned # NoError => returned \in o.errors
    BY <1>b, <1>2
  <1>15. v = "undeclared-residue" <=> o.cleanup = "undeclared-residue"
    BY <1>8
  <1>16. returned = NoError => \A i \in DOMAIN o.statuses : o.statuses[i] = "passed"
    BY <1>2, <1>7, AssertionFacts
  <1>18. ~o.valid => o.observed = "not-tested"
    BY <1>2 DEF v
  <1>17. MayReturn(o)
    BY <1>2, <1>18, <1>10, <1>11, <1>12, <1>13, <1>14, <1>15, <1>16 DEF MayReturn
  <1> QED
    BY <1>9, <1>17 DEF o

LEMMA FinishKeepsInv == Inv /\ finish => Inv'
  <1> SUFFICES ASSUME Inv, finish PROVE Inv'
    OBVIOUS
  <1>0. /\ pc = "finish" /\ pc' = "done" /\ engine' = engine /\ service' = service
        /\ plan' = plan /\ ctx' = ctx /\ stirred' = stirred
        /\ local \in Locals /\ engine \in Engines /\ service \in Services
    BY Start DEF finish, At, Goto, EngineUnchanged
  <1>1. PICK copies \in BOOLEAN, found \in PossibleFindings, file \in fileStatuses :
           LET l == IF copies THEN local ELSE Finalization(local, "CLEANUP_FAILED")
               failure == assertionFailure(assertionStatuses(file))
               returned == IF l.primary # NoError THEN l.primary
                           ELSE IF l.finalization # << >> THEN Head(l.finalization)
                           ELSE IF l.resource # NoError THEN l.resource
                           ELSE failure
               reported == {l.primary, l.resource, returned}
                           \cup {l.finalization[i] : i \in DOMAIN l.finalization}
                           \cup (IF l.summary.verdict = "undeclared-residue"
                                 THEN {"CLEANUP_RESIDUE"} ELSE {})
                           \cup found
           IN  /\ local' = l
               /\ outcome' = [returned |-> returned,
                              errors |-> reported \ {NoError},
                              cleanup |-> cleanupOutcome(l),
                              observed |-> l.summary.verdict,
                              emitted |-> l.emitted,
                              valid |-> cleanupObservationValid(l.summary, plan.allowed),
                              statuses |-> assertionStatuses(file),
                              complete |-> completeObservers,
                              compared |-> portsCompared]
    BY DEF finish
  <1>2. local' = local \/ local' = Finalization(local, "CLEANUP_FAILED")
    BY <1>1
  <1>3. /\ local' \in Locals /\ Untouched(local, local') /\ local'.next = local.next
        /\ local'.primary = local.primary /\ local'.sessions = local.sessions
        /\ local'.peerID = local.peerID
        /\ local.finalization # << >> => local'.finalization # << >>
    <2>1. "CLEANUP_FAILED" \in FinalizationCodes
      BY CodeFacts
    <2> QED
      BY <1>0, <1>2, <2>1, Start, FinalizationUntouched
  <1>4. /\ CleanupFailed(local) => CleanupFailed(local')
        /\ DestroyFailed(local) => DestroyFailed(local')
        /\ local'.summary = local.summary /\ local'.emitted = local.emitted
        /\ local'.quiesced = local.quiesced /\ local'.peerRemoved = local.peerRemoved
    BY <1>3 DEF Untouched, CleanupFailed, DestroyFailed
  <1>5. /\ local.emitted = 1 /\ local.sessions = {}
        /\ Recognised(local.summary, plan.allowed)
        /\ local.summary.verdict = "not-tested" =>
               local.finalization # << >> \/ local.primary # NoError
        /\ local.summary.verdict = "clean" => ~engine.produced \/ CleanupFailed(local)
    BY <1>0, Emitted DEF Removing
  <1> DEFINE valid == cleanupObservationValid(local'.summary, plan.allowed)
  <1>6. outcome' = OutcomeOf(local', assertionStatuses(file), found, completeObservers,
                             portsCompared, valid)
    BY <1>1 DEF Fin, OutcomeOf, ReturnedOf, ReportedOf
  <1>15. valid \/ DisposableReappeared(local'.summary)
    BY <1>4, <1>5 DEF Recognised
  <1>16. ~valid => local'.summary.verdict = "not-tested"
    BY <1>15 DEF DisposableReappeared
  <1> HIDE DEF valid
  <1>7. found \in SUBSET {"UNDECLARED_FILESYSTEM_WRITE", "UNDECLARED_PORT_LISTEN"}
    BY <1>1 DEF PossibleFindings
  <1>8. MayReturn(outcome') /\ Fin(local') \subseteq outcome'.errors
    <2>1. /\ local' \in Locals /\ local'.emitted = 1
          /\ local'.summary.verdict = "not-tested" =>
                 local'.finalization # << >> \/ local'.primary # NoError
      BY <1>3, <1>4, <1>5
    <2> QED
      BY <1>6, <1>7, <1>16, <2>1, OutcomeFacts
  <1>9. /\ outcome'.cleanup = cleanupOutcome(local')
        /\ outcome'.compared => local'.peerRemoved
        /\ outcome'.valid \/ DisposableReappeared(local'.summary)
    <2>1. /\ outcome'.compared = portsCompared /\ outcome'.cleanup = cleanupOutcome(local')
          /\ outcome'.valid = valid
      BY <1>6 DEF OutcomeOf
    <2>2. portsCompared => local.peerRemoved
      BY DEF portsCompared
    <2> QED
      BY <1>4, <1>15, <2>1, <2>2
  <1>10. Types' /\ Bounds'
    BY <1>0, <1>3 DEF Inv, Types, Bounds, Stages
  <1>11. Joined' /\ Quiet'
    BY <1>0, <1>4 DEF Inv, Joined, Quiet, Opening, Gathering, Exporting, Removing
  <1>12. Summarised'
    BY <1>0, <1>3, <1>4, <1>5 DEF Summarised, Opening, Working, Exporting, Removing
  <1>13. Released'
    BY <1>0, <1>3, <1>4, <1>5 DEF Inv, Released, Opening, Exporting, Removing
  <1>14. Concluded'
    BY <1>0, <1>8, <1>9 DEF Concluded, MayReturn
  <1> QED
    BY <1>10, <1>11, <1>12, <1>13, <1>14 DEF Inv

-----------------------------------------------------------------------------
(* The service goroutine and the caller.                                   *)

(* The exec lands: after quiescence only for a service that was reported.  *)
LEMMA DispatchKeepsInv == Inv /\ serviceDispatch => Inv'
  <1> SUFFICES ASSUME Inv, serviceDispatch PROVE Inv'
    OBVIOUS
  <1>0. /\ service.state = "starting" /\ service' = [service EXCEPT !.state = "running"]
        /\ plan' = plan /\ pc' = pc /\ ctx' = ctx /\ local' = local /\ outcome' = outcome
        /\ stirred' = (stirred \/ local.quiesced)
        /\ service \in Services /\ engine \in Engines /\ local \in Locals
    BY Start DEF serviceDispatch
  <1>1. PICK wrote \in BOOLEAN :
            engine' = [engine EXCEPT !.workload = TRUE, !.produced = @ \/ wrote]
    BY DEF serviceDispatch
  <1>2. /\ engine' \in Engines /\ engine'.peer = engine.peer /\ engine'.target = engine.target
    BY <1>0, <1>1 DEF Engines
  <1>3. service' \in Services /\ service'.state = "running" /\ service'.cancelled = service.cancelled
    BY <1>0 DEF Services
  <1>4. stirred' \in BOOLEAN
    BY <1>0 DEF Inv, Types, Locals
  <1>5. /\ pc \notin Opening
        /\ pc \in {"quiesce"} \cup Gathering \cup Exporting \cup Removing =>
               service.cancelled /\ CleanupFailed(local)
    BY <1>0 DEF Inv, Joined
  <1>6. local.quiesced => CleanupFailed(local)
    BY <1>5 DEF Inv, Quiet
  <1>7. Types' /\ Bounds'
    BY <1>0, <1>2, <1>3, <1>4 DEF Inv, Types, Bounds
  <1>8. Joined'
    BY <1>0, <1>3, <1>5 DEF Joined
  <1>9. Quiet'
    BY <1>0, <1>6 DEF Inv, Quiet
  <1>10. local.summary.verdict = "clean" => CleanupFailed(local)
    <2>1. Opened.verdict = "not-tested"
      BY OpenedFacts
    <2>2. pc \in Opening \cup Working \cup {"quiesce", "stop", "final", "resource", "disposable"} =>
              local.summary.verdict = "not-tested"
      BY <2>1 DEF Inv, Summarised
    <2> QED
      BY <1>5, <2>2 DEF Inv, Types, Stages, Opening, Working, Gathering, Exporting, Removing
  <1>11. Summarised'
    BY <1>0, <1>10 DEF Inv, Summarised
  <1>12. Released' /\ Concluded'
    BY <1>0, <1>2 DEF Inv, Released, Concluded
  <1> QED
    BY <1>7, <1>8, <1>9, <1>11, <1>12 DEF Inv

LEMMA ServiceReturnKeepsInv == Inv /\ runAttachedService => Inv'
  <1> SUFFICES ASSUME Inv, runAttachedService PROVE Inv'
    OBVIOUS
  <1>0. /\ plan' = plan /\ pc' = pc /\ ctx' = ctx /\ local' = local /\ outcome' = outcome
        /\ stirred' = stirred /\ engine' = engine /\ service \in Services
        /\ service.state \in {"starting", "running"}
    BY Start DEF runAttachedService
  <1>1. PICK result \in RunCodes \cup {NoError} :
            service' = [service EXCEPT !.state = "returned", !.result = result]
    <2>1. "CANCELLED" \in RunCodes /\ "TIMEOUT" \in RunCodes /\ "SERVICE_START_FAILED" \in RunCodes
      BY CodeFacts
    <2> DEFINE R == IF ctx = "cancelled" \/ service.cancelled THEN {"CANCELLED"}
                    ELSE {"TIMEOUT", "SERVICE_START_FAILED"}
                         \cup (IF service.state = "running" THEN {NoError} ELSE {})
    <2>2. \E result \in R : service' = [service EXCEPT !.state = "returned", !.result = result]
      BY DEF runAttachedService
    <2>3. R \subseteq RunCodes \cup {NoError}
      BY <2>1
    <2> HIDE DEF R
    <2> QED
      BY <2>2, <2>3
  <1>2. /\ service' \in Services /\ service'.state = "returned"
        /\ service'.cancelled = service.cancelled
    BY <1>0, <1>1 DEF Services
  <1>3. Types' /\ Bounds'
    BY <1>0, <1>2 DEF Inv, Types, Bounds
  <1>4. Joined'
    BY <1>0, <1>2 DEF Inv, Joined
  <1>5. Quiet' /\ Summarised'
    BY <1>0 DEF Inv, Quiet, Summarised
  <1>6. Released' /\ Concluded'
    BY <1>0 DEF Inv, Released, Concluded
  <1> QED
    BY <1>3, <1>4, <1>5, <1>6 DEF Inv

LEMMA CancelKeepsInv == Inv /\ Cancel => Inv'
  <1> SUFFICES ASSUME Inv, Cancel PROVE Inv'
    OBVIOUS
  <1>0. /\ plan' = plan /\ pc' = pc /\ ctx' = "cancelled" /\ local' = local /\ outcome' = outcome
        /\ stirred' = stirred /\ engine' = engine /\ service' = service
    BY DEF Cancel
  <1>1. Types' /\ Bounds'
    BY <1>0 DEF Inv, Types, Bounds
  <1>2. Joined' /\ Quiet' /\ Summarised'
    BY <1>0 DEF Inv, Joined, Quiet, Summarised
  <1>3. Released' /\ Concluded'
    BY <1>0 DEF Inv, Released, Concluded
  <1> QED
    BY <1>1, <1>2, <1>3 DEF Inv

LEMMA StutterKeepsInv == Inv /\ UNCHANGED vars => Inv'
  BY DEF Inv, Types, Bounds, Joined, Quiet, Summarised, Released, Concluded, vars

-----------------------------------------------------------------------------
(* The theorems.                                                           *)

LEMMA InitEstablishesInv == Init => Inv
  <1> SUFFICES ASSUME Init PROVE Inv
    OBVIOUS
  <1>1. plan \in Plans /\ Len(plan.commands) \in Nat
    BY PlansAssumption DEF Init, IsPlan
  <1>2. Fin(local) = {} /\ local.finalization = << >>
    BY DEF Init, Fin
  <1>3. local \in Locals
    <2>1. << >> \in Seq(FinalizationCodes) /\ "blocked" \in Statuses
      BY DEF Statuses
    <2>2. newCleanupResidueSummary("inventory-not-attempted") \in Summary
      BY OpenedFacts DEF Opened
    <2> QED
      BY <2>1, <2>2 DEF Init, Locals
  <1>4. engine \in Engines /\ service \in Services
    BY DEF Init, Engines, Services
  <1>5. Types
    BY <1>1, <1>3, <1>4 DEF Init, Types, Stages
  <1>6. Bounds
    BY <1>1 DEF Init, Bounds
  <1>7. Joined /\ Quiet
    BY <1>2 DEF Init, Joined, Quiet, Opening, Gathering, Exporting, Removing
  <1>8. Summarised
    <2>1. local.summary = Opened /\ local.emitted = 0 /\ pc = "create"
      BY DEF Init, Opened
    <2> QED
      BY <2>1, OpenedFacts DEF Summarised, Exporting, Removing
  <1>9. Released
    BY DEF Init, Released, Opening, Exporting, Removing
  <1>10. Concluded
    BY DEF Init, Concluded
  <1> QED
    BY <1>5, <1>6, <1>7, <1>8, <1>9, <1>10 DEF Inv

LEMMA NextKeepsInv == Inv /\ [Next]_vars => Inv'
  <1>1. Inv /\ Run => Inv'
    BY CreateKeepsInv, StartKeepsInv, PreflightKeepsInv, InitializeKeepsInv, BaselineKeepsInv,
       ProbesKeepInv, TraceKeepsInv, RunStepKeepsInv, StepsDoneKeepsInv, StartPeerKeepsInv,
       StartServiceKeepsInv, ReadinessKeepsInv, JourneyKeepsInv, SignalKeepsInv, WaitKeepsInv,
       QuiesceKeepsInv, StopKeepsInv, FilesystemFinalKeepsInv, ResourceFinalKeepsInv,
       DisposableKeepsInv, IdentityKeepsInv, InventoryKeepsInv, RepairKeepsInv, ExportKeepsInv,
       UnavailableKeepsInv, RemovePeerKeepsInv, RemoveContainerKeepsInv, FinishKeepsInv
    DEF Run
  <1>2. Inv /\ Returned => Inv'
    BY StutterKeepsInv DEF Returned
  <1> QED
    BY <1>1, <1>2, DispatchKeepsInv, ServiceReturnKeepsInv, CancelKeepsInv, StutterKeepsInv DEF Next

(* What finalization has settled and recorded at every stage of Run holds  *)
(* throughout, for every plan and every interleaving.                      *)
THEOREM RunInvariant == Spec => []Inv
  <1>1. Init => Inv
    BY InitEstablishesInv
  <1>2. Inv /\ [Next]_vars => Inv'
    BY NextKeepsInv
  <1> QED
    BY <1>1, <1>2, PTL DEF Spec

(* Run's state is well typed, and neither the command loop nor the         *)
(* readiness loop leaves its bounds.                                       *)
THEOREM RunTypes == Spec => []TypeOK
  <1>1. Inv => TypeOK
    <2> SUFFICES ASSUME Inv PROVE TypeOK
      OBVIOUS
    <2>1. RunCodes \subseteq Codes
      BY DEF RunCodes
    <2>2. {NoError, "RESOURCE_LIMIT_EXCEEDED", "OBSERVER_INCOMPLETE"} \subseteq Codes \cup {NoError}
      BY CodeFacts DEF RunCodes
    <2>3. service \in [state : {"none", "starting", "running", "returned"},
                       result : Codes \cup {NoError}, cancelled : BOOLEAN]
      BY <2>1 DEF Inv, Types, Services
    <2>4. /\ local.primary \in Codes \cup {NoError} /\ local.resource \in Codes \cup {NoError}
          /\ local.finalization \in Seq(FinalizationCodes) /\ local.summary \in Summary
          /\ local.journey \in Statuses
      BY <2>1, <2>2 DEF Inv, Types, Locals
    <2> QED
      BY <2>3, <2>4 DEF Inv, Types, Bounds, Engines, TypeOK
  <1> QED
    BY <1>1, RunInvariant, PTL

(* When Run returns, what may still exist has been reported and the service *)
(* that is still there has been cancelled.                                 *)
THEOREM NothingIsLeftBehind == Spec => []NothingLeftBehind
  <1>1. Inv => NothingLeftBehind
    <2> SUFFICES ASSUME Inv, HasReturned
                 PROVE  /\ engine.target # "absent" \/ (local.peerID /\ engine.peer) =>
                               "SANDBOX_DESTROY_FAILED" \in outcome.errors
                        /\ local.sessions = {}
                        /\ service.state \in {"starting", "running"} => service.cancelled
      BY DEF NothingLeftBehind
    <2>1. pc = "done" /\ Fin(local) \subseteq outcome.errors
      BY DEF HasReturned, Inv, Concluded
    <2> QED
      BY <2>1 DEF Inv, Joined, Released, DestroyFailed, Removing
  <1> QED
    BY <1>1, RunInvariant, PTL

(* A clean or allowed verdict is earned: the sandbox is gone, nothing       *)
(* stirred after quiescence, the service is over, and clean means that the *)
(* workload left nothing.                                                  *)
THEOREM CleanIsEarned == Spec => []EarnedClean
  <1>1. Inv => EarnedClean
    <2> SUFFICES ASSUME Inv, HasReturned, outcome.cleanup \in {"clean", "allowed-residue"}
                 PROVE  /\ ~stirred
                        /\ engine.target = "absent"
                        /\ service.state \in {"none", "returned"}
                        /\ outcome.cleanup = "clean" => ~engine.produced
      BY DEF EarnedClean
    <2>1. pc = "done" /\ outcome.cleanup = cleanupOutcome(local)
      BY DEF HasReturned, Inv, Concluded
    <2>2. local.finalization = << >> /\ outcome.cleanup = local.summary.verdict
      BY <2>1 DEF cleanupOutcome
    <2>3. Fin(local) = {}
      BY <2>2 DEF Fin
    <2>4. ~CleanupFailed(local) /\ ~DestroyFailed(local)
      BY <2>3 DEF CleanupFailed, DestroyFailed
    <2>5. ~stirred /\ engine.target = "absent"
      BY <2>1, <2>4 DEF Inv, Quiet, Released
    <2>6. service.state \in {"none", "returned"}
      BY <2>1, <2>4 DEF Inv, Joined, Removing
    <2>7. outcome.cleanup = "clean" => ~engine.produced
      BY <2>2, <2>4 DEF Inv, Summarised
    <2> QED
      BY <2>5, <2>6, <2>7
  <1> QED
    BY <1>1, RunInvariant, PTL

(* Full coverage and compared ports rest on a workload that stayed quiet,  *)
(* or the run reports CLEANUP_FAILED; Run compares ports only once the     *)
(* observer's container is gone.                                           *)
THEOREM CompleteIsEarned == Spec => []EvidenceIsEarned
  <1>1. Inv => EvidenceIsEarned
    <2> SUFFICES ASSUME Inv, HasReturned
                 PROVE  /\ stirred => "CLEANUP_FAILED" \in outcome.errors
                        /\ outcome.compared => ~engine.peer
      BY DEF EvidenceIsEarned
    <2>1. /\ pc = "done" /\ Fin(local) \subseteq outcome.errors
          /\ outcome.compared => local.peerRemoved
      BY DEF HasReturned, Inv, Concluded
    <2> QED
      BY <2>1 DEF Inv, Quiet, Released, CleanupFailed
  <1> QED
    BY <1>1, RunInvariant, PTL

(* Whatever the plan and whatever failed, the outcome keeps the promises    *)
(* that the verify command builds on, and Build accepts its cleanup        *)
(* observation unless the disposable directories came back after Run had   *)
(* removed them.                                                           *)
THEOREM ContractIsKept == Spec => []OutcomeInContract
  <1>1. Inv => OutcomeInContract
    BY DEF OutcomeInContract, HasReturned, Inv, Concluded
  <1> QED
    BY <1>1, RunInvariant, PTL

-----------------------------------------------------------------------------
(* Outputs cross to the host in exportOutputs only.                        *)
LEMMA OnlyExportExports ==
    ASSUME Inv, Next, ~exportOutputs
    PROVE  local'.exported = local.exported
  <1> DEFINE Same == local'.exported = local.exported
  <1>0. local \in Locals
    BY Start
  <1>a. \A c : /\ Primary(local, c).exported = local.exported
               /\ Finalization(local, c).exported = local.exported
               /\ DOMAIN Finalization(local, c) = DOMAIN local
               /\ "exported" \in DOMAIN local
    BY <1>0 DEF Primary, Finalization, Locals
  <1>b. \A c : /\ Undecided(local, c).exported = local.exported
               /\ DOMAIN Undecided(local, c) = DOMAIN local
    BY <1>0, <1>a DEF Undecided, Locals
  <1>1. create => Same
    BY <1>0, <1>a, <1>b DEF create, EngineUnchanged
  <1>2. start => Same
    BY <1>0, <1>a, <1>b DEF start, EngineUnchanged
  <1>3. resourcePreflight => Same
    BY <1>0, <1>a, <1>b DEF resourcePreflight, EngineUnchanged
  <1>4. initializeOutputDirectories => Same
    BY <1>0, <1>a, <1>b DEF initializeOutputDirectories, EngineUnchanged
  <1>5. filesystemBaseline => Same
    BY <1>0, <1>a, <1>b DEF filesystemBaseline, EngineUnchanged
  <1>6. probes => Same
    BY <1>0, <1>a, <1>b DEF probes, EngineUnchanged
  <1>7. startOutputsActivityTrace => Same
    BY <1>0, <1>a, <1>b DEF startOutputsActivityTrace, EngineUnchanged
  <1>8. runStep => Same
    BY <1>0, <1>a, <1>b DEF runStep, EngineUnchanged
  <1>9. stepsDone => Same
    BY <1>0, <1>a, <1>b DEF stepsDone, EngineUnchanged
  <1>10. startPeerPortObservation => Same
    BY <1>0, <1>a, <1>b DEF startPeerPortObservation, EngineUnchanged
  <1>11. startService => Same
    BY <1>0, <1>a, <1>b DEF startService, EngineUnchanged
  <1>12. waitForReadiness => Same
    BY <1>0, <1>a, <1>b DEF waitForReadiness, EngineUnchanged
  <1>13. executeHTTPJourney => Same
    <2> SUFFICES ASSUME executeHTTPJourney PROVE Same
      OBVIOUS
    <2>1. CASE \E code : local' = Primary(local, code)
      BY <2>1, <1>a
    <2>2. CASE \E code \in DOMAIN JourneyFailures : \E status \in JourneyFailures[code] :
                   local' = [local EXCEPT !.primary = code, !.journey = status]
      BY <2>2, <1>a
    <2>3. CASE local' = [local EXCEPT !.turn = @ + 1]
      BY <2>3, <1>a
    <2>4. CASE local' = [local EXCEPT !.journey = "passed", !.next = @ + 1]
      BY <2>4, <1>a
    <2> QED
      BY <2>1, <2>2, <2>3, <2>4 DEF executeHTTPJourney
  <1>14. signalService => Same
    BY <1>0, <1>a, <1>b DEF signalService, EngineUnchanged
  <1>15. waitServiceResult => Same
    BY <1>0, <1>a, <1>b DEF waitServiceResult, EngineUnchanged
  <1>16. quiesceWorkloadProcesses => Same
    BY <1>0, <1>a, <1>b DEF quiesceWorkloadProcesses, EngineUnchanged
  <1>17. stopSessions => Same
    BY <1>0, <1>a, <1>b DEF stopSessions, EngineUnchanged
  <1>18. filesystemFinal => Same
    BY <1>0, <1>a, <1>b DEF filesystemFinal, EngineUnchanged
  <1>19. resourceFinal => Same
    BY <1>0, <1>a, <1>b DEF resourceFinal, EngineUnchanged
  <1>20. removeCleanupDisposableDirectories => Same
    <2>1. [local EXCEPT !.summary.quiescent = TRUE, !.summary.disposable = TRUE].exported
              = local.exported
      BY <1>a
    <2>2. \A c : [Undecided(local, c) EXCEPT !.summary.quiescent = TRUE].exported = local.exported
      BY <1>a, <1>b
    <2> QED
      BY <1>b, <2>1, <2>2 DEF removeCleanupDisposableDirectories
  <1>21. inspectContainerIdentity => Same
    BY <1>0, <1>a, <1>b DEF inspectContainerIdentity, EngineUnchanged
  <1>22. collectCleanupInventory => Same
    <2> SUFFICES ASSUME collectCleanupInventory PROVE Same
      OBVIOUS
    <2>1. CASE \E failure : local' = Undecided(local, failure)
      BY <2>1, <1>b
    <2>2. CASE \E residue \in PossibleResidue :
                   local' = [Undecided(local, "classification-failed") EXCEPT
                                 !.summary.complete = TRUE, !.summary.residue = residue]
      <3>1. PICK residue \in PossibleResidue :
                   local' = [Undecided(local, "classification-failed") EXCEPT
                                 !.summary.complete = TRUE, !.summary.residue = residue]
        BY <2>2
      <3> DEFINE u == Undecided(local, "classification-failed")
      <3>2. u.exported = local.exported /\ DOMAIN u = DOMAIN local /\ "exported" \in DOMAIN u
        BY <1>a, <1>b
      <3>3. local' = [u EXCEPT !.summary.complete = TRUE, !.summary.residue = residue]
        BY <3>1
      <3> HIDE DEF u
      <3> QED
        BY <3>2, <3>3
    <2>3. CASE \E residue \in PossibleResidue :
                   local' = [local EXCEPT
                                !.summary.verdict = classifyCleanupInventory(residue),
                                !.summary.failure = "none",
                                !.summary.complete = TRUE,
                                !.summary.residue = residue,
                                !.emitted = @ + 1]
      <3>1. PICK residue \in PossibleResidue :
                   local' = [local EXCEPT
                                !.summary.verdict = classifyCleanupInventory(residue),
                                !.summary.failure = "none",
                                !.summary.complete = TRUE,
                                !.summary.residue = residue,
                                !.emitted = @ + 1]
        BY <2>3
      <3> QED
        BY <3>1, <1>a
    <2> QED
      BY <2>1, <2>2, <2>3 DEF collectCleanupInventory
  <1>23. repairOutputPermissions => Same
    BY <1>0, <1>a, <1>b DEF repairOutputPermissions, EngineUnchanged
  <1>24. boundaryUnavailable => Same
    BY <1>0, <1>a, <1>b DEF boundaryUnavailable, EngineUnchanged
  <1>25. removePeerPortContainer => Same
    BY <1>0, <1>a, <1>b DEF removePeerPortContainer, EngineUnchanged
  <1>26. removeContainer => Same
    BY <1>0, <1>a, <1>b DEF removeContainer, EngineUnchanged
  <1>27. finish => Same
    BY <1>0, <1>a, <1>b DEF finish, EngineUnchanged
  <1>28. serviceDispatch => Same
    BY <1>0, <1>a, <1>b DEF serviceDispatch, EngineUnchanged
  <1>29. runAttachedService => Same
    BY <1>0, <1>a, <1>b DEF runAttachedService, EngineUnchanged
  <1>30. Cancel => Same
    BY <1>0, <1>a, <1>b DEF Cancel, EngineUnchanged
  <1>31. Returned => Same
    BY <1>0, <1>a, <1>b DEF Returned, vars, EngineUnchanged
  <1> QED
    BY <1>1, <1>2, <1>3, <1>4, <1>5, <1>6, <1>7, <1>8, <1>9, <1>10, <1>11, <1>12, <1>13, <1>14, <1>15, <1>16, <1>17, <1>18, <1>19, <1>20, <1>21, <1>22, <1>23, <1>24, <1>25, <1>26, <1>27, <1>28, <1>29, <1>30, <1>31 DEF Next, Run

(* Outputs cross to the host only out of an identified, quiet sandbox      *)
(* without links or special files, unless the service is already reported. *)
THEOREM ExportGuarded == Spec => ExportIsGuarded
  <1> DEFINE Guarded == local'.exported /\ ~local.exported =>
                 /\ local.id /\ local.quiesced
                 /\ local.summary.residue # "unsafe"
                 /\ engine.workload => "CLEANUP_FAILED" \in {local.finalization[i] :
                                                            i \in DOMAIN local.finalization}
  <1>1. Inv /\ [Next]_vars => [Guarded]_vars
    <2> SUFFICES ASSUME Inv, Next PROVE Guarded
      OBVIOUS
    <2>1. CASE exportOutputs
      <3>1. pc \in Exporting
        BY <2>1 DEF exportOutputs, At, Exporting
      <3>2. /\ local.id /\ local.quiesced /\ local.summary.residue # "unsafe"
            /\ engine.workload => CleanupFailed(local)
        BY <3>1 DEF Inv, Quiet, Summarised, Released
      <3> QED
        BY <3>2 DEF CleanupFailed, Fin
    <2>2. CASE ~exportOutputs
      BY <2>2, OnlyExportExports
    <2> QED
      BY <2>1, <2>2
  <1> QED
    BY <1>1, RunInvariant, PTL DEF Spec, ExportIsGuarded
=============================================================================

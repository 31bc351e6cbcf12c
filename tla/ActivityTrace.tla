--------------------------- MODULE ActivityTrace ---------------------------
(***************************************************************************)
(* What the runner observes of /outputs while a workload runs              *)
(* (internal/execution/activity_trace_observer.go,                         *)
(* operation_notification_observer.go and the parts of runner.go that      *)
(* drive them).  A helper inside the sandbox watches the directory; the    *)
(* controller tells it, over a pipe, which phase is being dispatched and   *)
(* what that phase may write, and takes its frames from a FrameStream.     *)
(* Beside it run the observers of RetainedState, which compare a picture   *)
(* before the workload with one after it.                                  *)
(*                                                                         *)
(* Mode "compare" is a Python plan of synchronous commands only, "python"  *)
(* any other Python plan and "node" a Node plan.                           *)
(***************************************************************************)
EXTENDS FrameStream, RetainedState

LOCAL Sets == INSTANCE FiniteSetsExt
LOCAL INSTANCE TLC

CONSTANTS
  Modes,               \* the kinds of plan explored
  Steps,               \* sequence of the phases of the commands
  WindowLimit,         \* activityTraceOperationWindowLimit
  RuleLimit,           \* activityTraceOperationRuleLimit
  NotificationLimit,   \* activityTraceNotificationLimit
  QueueLimit,          \* length of the kernel's notification queue
  ReadLimit,           \* notifications that fit into one read of the queue
  InitialFiles,        \* /outputs before the first command
  MaxWrites,           \* bound: writes of the workload, per kind of plan
  MaxStrayWrites,      \* bound: writes there may be before one of a stray process
  MaxFaults,           \* bound: failed calls, missed deadlines and crashes
  MaxLimitEvents       \* bound: resource limit events, per kind of plan

ASSUME TraceAssumption ==
  /\ Steps \in Seq(STRING) /\ Len(Steps) > 0
  /\ WindowLimit \in Nat \ {0} /\ RuleLimit \in Nat /\ NotificationLimit \in Nat
  /\ QueueLimit \in Nat \ {0} /\ ReadLimit \in Nat \ {0} /\ MaxFaults \in Nat /\ MaxStrayWrites \in Nat
  /\ MaxWrites \in [Modes -> Nat] /\ MaxLimitEvents \in [Modes -> Nat]
  /\ \A phase \in DOMAIN DeclaredWrites : IsFiniteSet(DeclaredWrites[phase])

VARIABLES
  mode,       \* the kind of plan
  ctl,        \* the runner's place and its activityTraceObservationState
  cmp,        \* its operationNotificationObservationState
  filesystem, \* its state of the retained files
  engine,     \* its state of the engine's diff
  resource,   \* its state of the cgroup
  control,    \* the helper's standard input: [queue, closed]
  stream,     \* the helper's standard output
  helper,     \* the helper process
  kernel,     \* notifications the helper has not read
  files,      \* /outputs
  cgroup,     \* the counters of the sandbox
  work,       \* workload: [running, stray]
  writes,     \* history: what was written since the helper was ready
  faults      \* how many faults there were

traceVars == <<mode, ctl, cmp, filesystem, engine, resource, control, stream,
               helper, kernel, files, cgroup, work, writes, faults>>
observed  == <<filesystem, engine, resource>>
sandbox   == <<files, cgroup, work, writes, kernel>>

Parent(p) == SubSeq(p, 1, Len(p) - 1)

\* A path is a sequence of names, and what exists is in a directory.
ASSUME FilesAssumption ==
  /\ \A p \in Paths \cup DOMAIN InitialFiles : p \in Seq(STRING) /\ p # <<>>
  /\ InitialFiles \in [DOMAIN InitialFiles -> [type : {"dir", "file", "symlink", "other"}, value : Nat]]
  /\ \A p \in DOMAIN InitialFiles :
       Len(p) > 1 => Parent(p) \in DOMAIN InitialFiles /\ InitialFiles[Parent(p)].type = "dir"

-----------------------------------------------------------------------------
(* The helper, Python (inotify) or Node (fs.watch).                         *)

\* The directories the helper watches when it starts: add_tree, addTree.
Tree(fs) == {<<>>} \cup {p \in DOMAIN fs : fs[p].type = "dir"}

StartedHelper ==
  [state |-> "starting", phase |-> "unknown", rules |-> {}, windows |-> 0,
   declared |-> 0, seen |-> <<>>, failure |-> "", watched |-> {},
   readable |-> {}, batch |-> <<>>, clean |-> TRUE]

\* latch: the first failure stays, and nothing is watched after it.
latch(h, reason) ==
  IF h.failure # "" THEN h ELSE [h EXCEPT !.failure = reason, !.watched = {}]

\* record, for one notification.
record(h, event) ==
  IF h.failure # "" THEN h
  ELSE IF event.kind = "queue-overflow" THEN latch(h, "notification-overflow")
  ELSE IF Parent(event.path) \notin h.watched THEN latch(h, "notification-gap")
  ELSE IF event.kind = "self" \/ h.phase = "unknown" THEN latch(h, "notification-gap")
  ELSE IF event.kind = "create-dir" THEN latch(h, "new-directory-watch-gap")
  ELSE LET entry == [kind |-> event.kind, phase |-> h.phase, path |-> event.path,
                     matched |-> \E r \in h.rules : PatternMatches(r, event.path)]
           counted == [h EXCEPT !.seen = Append(@, entry)]
       IN  IF Len(counted.seen) > NotificationLimit
           THEN latch(counted, "notification-overflow") ELSE counted

\* The same for the Node helper: it does not see an overflow of the kernel's
\* queue or a phase it was not told, and watches the directories it hears of.
nodeRecord(h, event) ==
  IF h.failure # "" \/ event.kind \in {"queue-overflow", "self"} THEN h
  ELSE LET counted == [h EXCEPT !.seen = Append(@,
                         [kind |-> event.kind, phase |-> h.phase, path |-> event.path,
                          matched |-> FALSE])]
       IN  IF Len(counted.seen) > NotificationLimit
           THEN latch(counted, "notification-overflow")
           ELSE IF event.kind = "create-dir" /\ event.path \in Tree(files)
           THEN [counted EXCEPT !.watched = @ \cup {event.path}] ELSE counted

\* The frames the helper sends.
ReadyFrame == [type |-> "ready"]
AckFrame(h) == [type |-> "phase-ack", phase |-> h.phase,
                ruleCount |-> Cardinality(h.rules), windowSequence |-> h.windows]
FailedFrame(h) == [type |-> "failed", failure |-> h.failure]

PhaseNames == {"setup", "build", "run", "exercise", "cleanup", "unknown"}
RenameHints == {"create", "create-dir", "delete", "rename"}

Count(seen, Test(_)) == Cardinality({i \in DOMAIN seen : Test(seen[i])})
SumOver(counts) == Sets!MapThenSumSet(LAMBDA k : counts[k], DOMAIN counts)

\* final(ok): the counts, and what the comparison came to.
FinalFrame(h, ok) ==
  LET undeclared == Count(h.seen, LAMBDA e : ~e.matched)
  IN  [type |-> "final", ok |-> ok /\ h.failure = "", failure |-> "",
       notificationCount |-> Len(h.seen),
       renameHintCount |-> Count(h.seen, LAMBDA e : e.kind \in RenameHints),
       changeHintCount |-> Count(h.seen, LAMBDA e : e.kind \notin RenameHints),
       phaseCounts |-> [p \in PhaseNames |-> Count(h.seen, LAMBDA e : e.phase = p)],
       windowCount |-> h.windows, declaredPatternCount |-> h.declared,
       comparedNotificationCount |-> Len(h.seen),
       allowedNotificationCount |-> Len(h.seen) - undeclared,
       undeclaredNotificationCount |-> undeclared,
       comparisonResult |-> IF undeclared > 0 THEN "nonconforming-notifications"
                            ELSE "no-undeclared-observed"]

Exit(h) == [h EXCEPT !.state = "exited", !.watched = {}, !.readable = {}]

Emit(frame) == stream' = WriteFrame(stream, frame)

\* The first line of input: the helper puts its watches in place and answers.
\* Without a valid start, or without a watch, it gives up.
HelperStart(watching) ==
  /\ helper.state = "starting" /\ MayWrite(stream)
  /\ \/ /\ control.queue # <<>>
        /\ control' = [control EXCEPT !.queue = Tail(@)]
        /\ IF watching
           THEN /\ helper' = [helper EXCEPT !.state = "loop", !.watched = Tree(files)]
                /\ Emit(ReadyFrame)
           ELSE /\ helper' = Exit(latch(helper, "notification-gap"))
                /\ Emit(FinalFrame(helper', FALSE))
     \/ /\ control.queue = <<>> /\ control.closed
        /\ helper' = Exit(latch(helper, "notification-gap"))
        /\ UNCHANGED <<control, stream>>
  /\ UNCHANGED <<mode, ctl, cmp, observed, sandbox>>

\* select in the Python helper: what is readable at one moment.
HelperSelect ==
  /\ helper.state = "loop" /\ mode # "node"
  /\ LET ready == (IF helper.watched # {} /\ kernel # <<>> THEN {"kernel"} ELSE {})
                  \cup (IF control.queue # <<>> \/ control.closed THEN {"control"} ELSE {})
     IN  /\ ready # {}
         /\ helper' = [helper EXCEPT !.readable = ready,
                         !.state = IF "kernel" \in ready THEN "read" ELSE "control"]
  /\ UNCHANGED <<mode, ctl, cmp, observed, control, stream, sandbox>>

\* The notifications come first, as many as fit into one read.
HelperRead ==
  /\ helper.state = "read"
  /\ LET n == IF Len(kernel) <= ReadLimit THEN Len(kernel) ELSE ReadLimit
     IN  /\ helper' = [helper EXCEPT !.state = "record", !.batch = SubSeq(kernel, 1, n)]
         /\ kernel' = SubSeq(kernel, n + 1, Len(kernel))
  /\ UNCHANGED <<mode, ctl, cmp, observed, control, stream, files, cgroup, work, writes>>

\* They are recorded one after another, up to the first failure.
HelperRecord ==
  /\ helper.state = "record"
  /\ LET h == record(helper, Head(helper.batch))
         more == h.failure = "" /\ Tail(helper.batch) # <<>>
     IN  helper' = [h EXCEPT !.batch = IF more THEN Tail(@) ELSE <<>>,
                             !.state = IF more THEN "record"
                                       ELSE IF "control" \in h.readable THEN "control" ELSE "loop"]
  /\ UNCHANGED <<mode, ctl, cmp, observed, control, stream, sandbox>>

\* pending_notifications
pendingNotifications == helper.watched # {} /\ kernel # <<>>

\* Mutant: the same at either command.
Pended_never(h) == h

Pended(h) == IF h.failure = "" /\ pendingNotifications THEN latch(h, "notification-gap") ELSE h

\* Mutant: waiting notifications are not looked for.
openWindow_late(h, command) ==
  [h EXCEPT !.phase = command.phase, !.rules = command.rules, !.windows = @ + 1,
            !.declared = @ + Cardinality(command.rules), !.state = "loop"]

\* A phase command opens a window; a notification that is still waiting
\* belongs to the one before it and ends the comparison.
openWindow(h, command) ==
  [Pended(h) EXCEPT !.phase = command.phase, !.rules = command.rules,
                    !.windows = @ + 1, !.declared = @ + Cardinality(command.rules),
                    !.state = "loop"]

\* The answer to a stop command.
stopFrame(h) == IF h.failure # "" THEN FailedFrame(h) ELSE FinalFrame(h, TRUE)

\* One command of the Python helper, or the end of its input.
HelperControl ==
  /\ helper.state = "control" /\ MayWrite(stream)
  /\ IF control.queue = <<>>
     THEN /\ helper' = Exit(latch(helper, "notification-gap"))
          /\ Emit(FailedFrame(helper'))
          /\ UNCHANGED control
     ELSE LET command == Head(control.queue) IN
          /\ control' = [control EXCEPT !.queue = Tail(@)]
          /\ IF command.command = "stop"
             THEN helper' = Exit(Pended(helper)) /\ Emit(stopFrame(Pended(helper)))
             ELSE IF helper.windows >= WindowLimit
             THEN /\ helper' = Exit(latch(helper, "notification-gap"))
                  /\ Emit(FailedFrame(helper'))
             ELSE helper' = openWindow(helper, command) /\ Emit(AckFrame(helper'))
  /\ UNCHANGED <<mode, ctl, cmp, observed, sandbox>>

\* The Node helper: its event loop takes a notification or a line of input,
\* and nothing makes it take the one before the other.
NodeNotification ==
  /\ helper.state = "loop" /\ mode = "node" /\ kernel # <<>> /\ MayWrite(stream)
  /\ kernel' = Tail(kernel)
  /\ LET h == nodeRecord(helper, Head(kernel))
     IN  IF h.failure = "" THEN helper' = h /\ UNCHANGED stream
         ELSE helper' = Exit(h) /\ Emit(FinalFrame(h, FALSE))
  /\ UNCHANGED <<mode, ctl, cmp, observed, control, files, cgroup, work, writes>>

NodeCommand ==
  /\ helper.state = "loop" /\ mode = "node" /\ MayWrite(stream)
  /\ IF control.queue # <<>>
     THEN LET command == Head(control.queue) IN
          /\ control' = [control EXCEPT !.queue = Tail(@)]
          /\ IF command.command = "stop"
             THEN helper' = Exit(helper) /\ Emit(FinalFrame(helper, TRUE))
             ELSE helper' = [helper EXCEPT !.phase = command.phase] /\ UNCHANGED stream
     ELSE /\ control.closed
          /\ helper' = Exit(latch(helper, "notification-gap"))
          /\ Emit(FinalFrame(helper', FALSE))
          /\ UNCHANGED control
  /\ UNCHANGED <<mode, ctl, cmp, observed, sandbox>>

\* The helper shares the sandbox with the workload and may be killed there.
HelperCrash ==
  /\ helper.state \notin {"none", "exited"}
  /\ helper' = [Exit(helper) EXCEPT !.clean = FALSE]
  /\ UNCHANGED <<mode, ctl, cmp, observed, control, stream, sandbox>>

-----------------------------------------------------------------------------
(* The workload, and what the kernel tells the helper of it.                *)

Overflowed == [kind |-> "queue-overflow", path |-> <<>>]

\* A notification equal to the last one unread is merged with it; one that
\* does not fit leaves the mark of an overflow.
Notify(queue, event) ==
  IF Parent(event.path) \notin helper.watched THEN queue
  ELSE IF queue # <<>> /\ queue[Len(queue)] \in {event, Overflowed} THEN queue
  ELSE IF Len(queue) >= QueueLimit THEN Append(queue, Overflowed)
  ELSE Append(queue, event)

\* An operation of the workload makes one notification or two.
Write(event) == [step |-> ctl.step, path |-> event.path]

Touch(event, after) ==
  /\ files' = after
  /\ kernel' = Notify(kernel, event)
  /\ writes' = Append(writes, Write(event))

TouchTwice(first, second, after) ==
  /\ files' = after
  /\ kernel' = Notify(Notify(kernel, first), second)
  /\ writes' = Append(Append(writes, Write(first)), Write(second))

Exists(p) == p \in DOMAIN files
IsFile(p) == Exists(p) /\ files[p].type = "file"
MayCreate(p) == ~Exists(p) /\ (Len(p) = 1 \/ (Exists(Parent(p)) /\ files[Parent(p)].type = "dir"))
Without(fs, p) == [q \in DOMAIN fs \ {p} |-> fs[q]]
With(fs, p, entry) == [q \in DOMAIN fs \cup {p} |-> IF q = p THEN entry ELSE fs[q]]

\* /outputs is a tmpfs, where the size of a directory counts its entries; of
\* that the kernel tells the helper nothing.
Resized(fs, p, change) ==
  IF Parent(p) \in DOMAIN fs THEN [fs EXCEPT ![Parent(p)].value = @ + change] ELSE fs
Added(fs, p, entry) == Resized(With(fs, p, entry), p, 1)
Removed(fs, p) == Resized(Without(fs, p), p, 0 - 1)

Event(kind, p) == [kind |-> kind, path |-> p]

CreateFile(p) ==
  MayCreate(p) /\ Touch(Event("create", p), Added(files, p, [type |-> "file", value |-> 1]))
CreateDir(p) ==
  MayCreate(p) /\ Touch(Event("create-dir", p), Added(files, p, [type |-> "dir", value |-> 0]))
WriteFile(p) ==
  IsFile(p) /\ Touch(Event("write", p), With(files, p, [type |-> "file", value |-> 1]))
DeleteFile(p) == IsFile(p) /\ Touch(Event("delete", p), Removed(files, p))
RenameFile(p, q) ==
  /\ IsFile(p) /\ MayCreate(q)
  /\ TouchTwice(Event("rename", p), Event("rename", q), Added(Removed(files, p), q, files[p]))
DeleteDir(p) ==
  /\ Exists(p) /\ files[p].type = "dir" /\ \A q \in DOMAIN files : Parent(q) # p
  /\ IF p \in helper.watched
     THEN TouchTwice(Event("self", p), Event("delete", p), Removed(files, p))
     ELSE Touch(Event("delete", p), Removed(files, p))

WorkloadWrites ==
  /\ work.running \/ (work.stray /\ Len(writes) < MaxStrayWrites)
  /\ ctl.pc # "done"              \* the sandbox is removed after that
  /\ Len(writes) < MaxWrites[mode]
  /\ \E p \in Paths : \/ CreateFile(p) \/ CreateDir(p) \/ WriteFile(p) \/ DeleteFile(p) \/ DeleteDir(p)
                      \/ \E q \in Paths : RenameFile(p, q)
  /\ UNCHANGED <<mode, ctl, cmp, observed, control, stream, helper, cgroup, work>>

-----------------------------------------------------------------------------
(* The controller.                                                          *)

NoResult == [type |-> "none", failure |-> ""]

InitialActivity ==
  [pc |-> "preflight", step |-> 1, session |-> FALSE, windowSequence |-> 0,
   startIdentityVerified |-> FALSE, readyIdentityVerified |-> FALSE,
   stopIdentityVerified |-> FALSE, finalIdentityVerified |-> FALSE,
   workloadQuiescenceVerified |-> FALSE, ready |-> FALSE, finalReady |-> FALSE,
   phaseSignalsComplete |-> FALSE, result |-> NoResult, failure |-> "", broken |-> FALSE,
   abandoned |-> FALSE]

\* newOperationNotificationObservationState
InitialComparison ==
  [phaseAcknowledgementsComplete |-> TRUE, preDispatchQuiescenceVerified |-> TRUE,
   postDispatchQuiescenceVerified |-> TRUE, preChecks |-> 0, postChecks |-> 0,
   confirmedDispatches |-> 0, failure |-> ""]

\* operationNotificationEligible
eligible == mode = "compare"

FirstFailure(state, reason) == IF state.failure = "" THEN [state EXCEPT !.failure = reason] ELSE state

\* Mutant: the input stays open.
abort_open(c) == c

\* abort: the helper's input is closed and its process cancelled.
abort(c) == [c EXCEPT !.closed = TRUE]

\* abort waits for the process, and gives up on it after a while.
Joined == \/ ~control.closed \/ ctl.pc \in {"awaitFinal", "awaitExit"}
          \/ helper.state \in {"none", "exited"} \/ ctl.abandoned

AbortGivesUp ==
  /\ ~Joined
  /\ ctl' = [ctl EXCEPT !.abandoned = TRUE]
  /\ UNCHANGED <<mode, cmp, observed, control, stream, helper, sandbox>>

\* The phase of the command at hand; after the last one, cleanup.
CurrentPhase == IF ctl.step <= Len(Steps) /\ ~ctl.broken THEN Steps[ctl.step] ELSE "cleanup"

AfterMark == IF ctl.step <= Len(Steps) /\ ~ctl.broken THEN "dispatch" ELSE "quiesce"

\* The resource preflight, initializeOutputDirectories, the baseline of the
\* retained files and the three probes of the sandbox.  All but the baseline
\* end the run when they fail, and nothing after them is done.
Preflight(limited, initialized, identity, collected, probed) ==
  /\ ctl.pc = "preflight"
  /\ resource' = IF limited /\ validateLinuxResourcePreflight(cgroup)
                 THEN [resource EXCEPT !.active = cgroup, !.activeReady = TRUE] ELSE resource
  /\ LET prepared == resource'.activeReady /\ initialized IN
     /\ filesystem' =
          IF ~prepared THEN filesystem
          ELSE IF identity /\ collectFilesystemSnapshot(files, collected).ok
          THEN [filesystem EXCEPT !.baselineIdentityVerified = TRUE, !.baseline = files,
                                  !.baselineReady = TRUE]
          ELSE [filesystem EXCEPT !.baselineIdentityVerified = identity,
                                  !.failure = "baseline-snapshot-failed"]
     /\ ctl' = IF prepared /\ probed THEN [ctl EXCEPT !.pc = "start"]
               ELSE [ctl EXCEPT !.pc = "mark", !.broken = TRUE]
  /\ UNCHANGED <<mode, cmp, engine, control, stream, helper, sandbox>>

\* startOutputsActivityTrace, up to the ready frame.
StartTrace(identity, started) ==
  /\ ctl.pc = "start"
  /\ IF identity /\ started
     THEN /\ ctl' = [ctl EXCEPT !.startIdentityVerified = TRUE, !.pc = "awaitReady"]
          /\ helper' = StartedHelper
          /\ control' = [queue |-> <<[command |-> "start"]>>, closed |-> FALSE]
          /\ stream' = IF mode = "node" THEN NewStream(2, FALSE, 2)
                       ELSE NewStream(WindowLimit + 2, TRUE, 2)
     ELSE /\ ctl' = [ctl EXCEPT !.startIdentityVerified = identity, !.pc = "pre",
                       !.failure = IF identity THEN "ready-transport-failed"
                                   ELSE "start-container-identity-failed"]
          /\ UNCHANGED <<helper, control, stream>>
  /\ UNCHANGED <<mode, cmp, observed, sandbox>>

\* next, when a frame is there and when the deadline passes first.
Taken == /\ stream.events # <<>>
         /\ stream' = TakeFrame(stream)

\* Nothing will come any more, so that the deadline passes.
Silent == stream.events = <<>> /\ helper.state = "exited"

Expired(inTime) == (~inTime \/ Silent) /\ UNCHANGED stream

AwaitReady(inTime) ==
  /\ ctl.pc = "awaitReady"
  /\ \/ /\ Taken /\ inTime
        /\ Head(stream.events) = ReadyFrame
        /\ ctl' = [ctl EXCEPT !.pc = "readyIdentity", !.session = TRUE, !.ready = TRUE]
        /\ UNCHANGED control
     \/ /\ (Taken /\ Head(stream.events) # ReadyFrame) \/ Expired(inTime)
        /\ ctl' = [ctl EXCEPT !.pc = "pre", !.failure = "ready-transport-failed"]
        /\ control' = abort(control)
  /\ UNCHANGED <<mode, cmp, observed, helper, sandbox>>

ReadyIdentity(identity) ==
  /\ ctl.pc = "readyIdentity"
  /\ IF identity
     THEN /\ ctl' = [ctl EXCEPT !.pc = "pre", !.readyIdentityVerified = TRUE,
                                !.phaseSignalsComplete = TRUE]
          /\ UNCHANGED control
     ELSE /\ ctl' = [ctl EXCEPT !.pc = "pre", !.session = FALSE, !.ready = FALSE,
                                !.failure = "ready-container-identity-failed"]
          /\ control' = abort(control)
  /\ UNCHANGED <<mode, cmp, observed, stream, helper, sandbox>>

\* Mutant: a check is counted twice.
QuiescenceBoundary_twice(c, identity, pre) ==
  IF ~eligible THEN c
  ELSE IF pre THEN [c EXCEPT !.preChecks = @ + 2] ELSE [c EXCEPT !.postChecks = @ + 1]

\* verifyOperationNotificationQuiescenceBoundary
QuiescenceBoundary(c, identity, pre) ==
  IF ~eligible THEN c
  ELSE IF identity /\ ~work.running /\ ~work.stray
  THEN IF pre THEN [c EXCEPT !.preChecks = @ + 1] ELSE [c EXCEPT !.postChecks = @ + 1]
  ELSE IF pre
  THEN FirstFailure([c EXCEPT !.preDispatchQuiescenceVerified = FALSE], "pre-dispatch-quiescence-failed")
  ELSE FirstFailure([c EXCEPT !.postDispatchQuiescenceVerified = FALSE], "post-dispatch-quiescence-failed")

PreCheck(identity) ==
  /\ ctl.pc = "pre"
  /\ cmp' = QuiescenceBoundary(cmp, identity, TRUE)
  /\ ctl' = [ctl EXCEPT !.pc = "mark"]
  /\ UNCHANGED <<mode, observed, control, stream, helper, sandbox>>

\* compileOperationNotificationRules; a plan that is not compared sends none.
RulesOf(phase) ==
  IF eligible /\ phase \in DOMAIN DeclaredWrites THEN DeclaredWrites[phase] ELSE {}

rulesCompile(phase) ==
  /\ Cardinality(RulesOf(phase)) <= RuleLimit
  /\ \A p \in RulesOf(phase) : validFilesystemDeclarationPattern(p)

\* A phase command that failed ends the session, not the run.
PhaseControlFailed ==
  /\ control' = abort(control)
  /\ ctl' = [(IF eligible THEN ctl ELSE FirstFailure(ctl, "phase-control-failed"))
               EXCEPT !.phaseSignalsComplete = FALSE, !.session = FALSE, !.pc = AfterMark]
  /\ cmp' = IF eligible THEN [cmp EXCEPT !.phaseAcknowledgementsComplete = FALSE,
                                         !.failure = "phase-control-failed"] ELSE cmp

\* markOutputsActivityPhase: markOperationNotificationPhase for a compared
\* plan, the same command without rules for another Python plan, and
\* markActivityTracePhase for Node.  A compared plan is not told of cleanup.
MarkPhase(written) ==
  /\ ctl.pc = "mark"
  /\ IF eligible /\ AfterMark = "quiesce"
     THEN ctl' = [ctl EXCEPT !.pc = "quiesce"] /\ UNCHANGED <<cmp, control>>
     ELSE IF ~ctl.session
     THEN /\ ctl' = [ctl EXCEPT !.pc = AfterMark]
          /\ cmp' = IF eligible THEN [cmp EXCEPT !.phaseAcknowledgementsComplete = FALSE,
                                                 !.failure = "observer-not-ready"] ELSE cmp
          /\ UNCHANGED control
     ELSE IF /\ written
             /\ mode # "node" => rulesCompile(CurrentPhase) /\ ctl.windowSequence < WindowLimit
     THEN /\ control' = [control EXCEPT !.queue = Append(@,
                           [command |-> "phase", phase |-> CurrentPhase,
                            rules |-> RulesOf(CurrentPhase)])]
          /\ ctl' = [ctl EXCEPT !.pc = IF mode = "node" THEN AfterMark ELSE "awaitAck"]
          /\ UNCHANGED cmp
     ELSE PhaseControlFailed
  /\ UNCHANGED <<mode, observed, stream, helper, sandbox>>

\* decodeOperationNotificationPhaseAck
validPhaseAck(frame) ==
  /\ frame.type = "phase-ack"
  /\ frame.phase = CurrentPhase
  /\ frame.ruleCount = Cardinality(RulesOf(CurrentPhase))
  /\ frame.windowSequence = ctl.windowSequence + 1
  /\ frame.windowSequence <= WindowLimit

AwaitAck(inTime) ==
  /\ ctl.pc = "awaitAck"
  /\ \/ /\ Taken /\ inTime
        /\ validPhaseAck(Head(stream.events))
        /\ ctl' = [ctl EXCEPT !.pc = AfterMark, !.windowSequence = @ + 1]
        /\ UNCHANGED <<cmp, control>>
     \/ /\ (Taken /\ ~validPhaseAck(Head(stream.events))) \/ Expired(inTime)
        /\ PhaseControlFailed
  /\ UNCHANGED <<mode, observed, helper, sandbox>>

\* runStep begins ...
Dispatch ==
  /\ ctl.pc = "dispatch"
  /\ ctl' = [ctl EXCEPT !.pc = "running"]
  /\ work' = [work EXCEPT !.running = TRUE]
  /\ UNCHANGED <<mode, cmp, observed, control, stream, helper, files, cgroup, writes, kernel>>

\* ... and returns: with or without an error, having confirmed the dispatch
\* or not, with or without a process left behind or a limit run into.
\* recordOperationNotificationDispatch
Return(confirmed, failed, stray, limited) ==
  /\ ctl.pc = "running"
  /\ work' = [running |-> FALSE, stray |-> work.stray \/ stray]
  /\ IF limited
     THEN /\ cgroup.events < MaxLimitEvents[mode]
          /\ cgroup' = [cgroup EXCEPT !.events = @ + 1, !.usage = @ + 1]
     ELSE cgroup' = cgroup
  /\ cmp' = IF ~eligible THEN cmp
            ELSE IF confirmed THEN [cmp EXCEPT !.confirmedDispatches = @ + 1]
            ELSE FirstFailure(cmp, "workload-dispatch-unconfirmed")
  /\ ctl' = [ctl EXCEPT !.pc = "post", !.broken = failed]
  /\ UNCHANGED <<mode, observed, control, stream, helper, files, writes, kernel>>

PostCheck(identity) ==
  /\ ctl.pc = "post"
  /\ cmp' = QuiescenceBoundary(cmp, identity, FALSE)
  /\ filesystem' = recordFilesystemPhaseDispatch(filesystem, Steps[ctl.step])
  /\ ctl' = [ctl EXCEPT !.step = @ + 1,
               !.pc = IF ctl.step < Len(Steps) /\ ~ctl.broken THEN "pre" ELSE "mark"]
  /\ UNCHANGED <<mode, engine, resource, control, stream, helper, sandbox>>

\* quiesceWorkload: no process of the workload is left, or nothing that needs
\* a quiet workload is looked at.
Quiesce(ok) ==
  /\ ctl.pc = "quiesce"
  /\ IF ok
     THEN /\ work' = [running |-> FALSE, stray |-> FALSE]
          /\ ctl' = [ctl EXCEPT !.pc = "stop", !.workloadQuiescenceVerified = TRUE]
          /\ filesystem' = [filesystem EXCEPT !.workloadQuiescenceVerified = TRUE]
          /\ engine' = [engine EXCEPT !.workloadQuiescenceVerified = TRUE]
          /\ UNCHANGED <<resource, control>>
     ELSE /\ ctl' = [ctl EXCEPT !.pc = "done", !.failure = "workload-quiescence-failed"]
          /\ filesystem' = [filesystem EXCEPT !.failure = "workload-quiescence-failed"]
          /\ resource' = [resource EXCEPT !.errors = @ \cup {"OBSERVER_INCOMPLETE"}]
          /\ control' = IF ctl.session THEN abort(control) ELSE control
          /\ UNCHANGED <<work, engine>>
  /\ UNCHANGED <<mode, cmp, stream, helper, files, cgroup, writes, kernel>>

\* finish, up to the stop command and the end of the input.
StopTrace(identity, written) ==
  /\ ctl.pc = "stop"
  /\ IF ~ctl.session THEN ctl' = [ctl EXCEPT !.pc = "retained"] /\ UNCHANGED control
     ELSE IF ~identity
     THEN /\ ctl' = [ctl EXCEPT !.pc = "retained", !.failure = "stop-container-identity-failed"]
          /\ control' = abort(control)
     ELSE IF ~written
     THEN /\ ctl' = [ctl EXCEPT !.pc = "retained", !.stopIdentityVerified = TRUE,
                                !.failure = "final-transport-failed"]
          /\ control' = abort(control)
     ELSE /\ ctl' = [ctl EXCEPT !.pc = "awaitFinal", !.stopIdentityVerified = TRUE]
          /\ control' = [queue |-> Append(control.queue, [command |-> "stop"]), closed |-> TRUE]
  /\ UNCHANGED <<mode, cmp, observed, stream, helper, sandbox>>

\* validOperationNotificationResult
validOperationNotificationResult(frame) ==
  /\ \A n \in {frame.windowCount, frame.declaredPatternCount,
               frame.undeclaredNotificationCount} : n <= NotificationLimit
  /\ frame.windowCount <= WindowLimit
  /\ frame.declaredPatternCount <= frame.windowCount * RuleLimit
  /\ frame.comparedNotificationCount = frame.notificationCount
  /\ frame.allowedNotificationCount + frame.undeclaredNotificationCount = frame.notificationCount
  /\ frame.comparisonResult = "no-undeclared-observed" <=> frame.undeclaredNotificationCount = 0

\* decodeActivityTraceFailedFrame
decodedFailed(frame) ==
  /\ frame.type = "failed" /\ mode # "node"
  /\ frame.failure \in {"notification-overflow", "new-directory-watch-gap", "notification-gap"}

\* decodeActivityTraceFinalFrame
decodedFinal(frame) ==
  \/ decodedFailed(frame)
  \/ /\ frame.type = "final"
     /\ frame.ok /\ frame.notificationCount <= NotificationLimit
     /\ frame.renameHintCount + frame.changeHintCount = frame.notificationCount
     /\ SumOver(frame.phaseCounts) = frame.notificationCount
     /\ mode # "node" => validOperationNotificationResult(frame)

AwaitFinal(inTime) ==
  /\ ctl.pc = "awaitFinal"
  /\ \/ /\ Taken /\ inTime
        /\ decodedFinal(Head(stream.events))
        /\ ctl' = [ctl EXCEPT !.pc = "awaitExit", !.result = Head(stream.events)]
        /\ UNCHANGED control
     \/ /\ (Taken /\ ~decodedFinal(Head(stream.events))) \/ Expired(inTime)
        /\ ctl' = [ctl EXCEPT !.pc = "retained", !.failure = "final-transport-failed"]
        /\ control' = abort(control)
  /\ UNCHANGED <<mode, cmp, observed, helper, sandbox>>

\* The helper must leave in the way its last frame announced.
AwaitExit(inTime) ==
  /\ ctl.pc = "awaitExit"
  /\ \/ /\ inTime /\ helper.state = "exited" /\ helper.clean /\ complete(stream)
        /\ ctl' = [ctl EXCEPT !.pc = "finalIdentity", !.finalReady = TRUE]
        /\ UNCHANGED control
     \/ /\ ~inTime \/ (helper.state = "exited" /\ ~(helper.clean /\ complete(stream)))
        /\ ctl' = [ctl EXCEPT !.pc = "retained", !.failure = "final-transport-failed",
                              !.result = NoResult]
        /\ control' = abort(control)
  /\ UNCHANGED <<mode, cmp, observed, stream, helper, sandbox>>

FinalIdentity(identity) ==
  /\ ctl.pc = "finalIdentity"
  /\ ctl' = IF identity THEN [ctl EXCEPT !.pc = "retained", !.finalIdentityVerified = TRUE]
            ELSE [ctl EXCEPT !.pc = "retained", !.failure = "final-container-identity-failed"]
  /\ UNCHANGED <<mode, cmp, observed, control, stream, helper, sandbox>>

\* The pictures after the workload: the retained files ...
FinalFiles(identity, collected) ==
  /\ ctl.pc = "retained"
  /\ ctl' = [ctl EXCEPT !.pc = "engine"]
  /\ filesystem' =
       IF ~filesystem.baselineReady THEN filesystem
       ELSE IF ~identity THEN [filesystem EXCEPT !.failure = "container-identity-readback-failed"]
       ELSE LET verified == [filesystem EXCEPT !.finalIdentityVerified = TRUE] IN
            IF ~collectFilesystemSnapshot(files, collected).ok
            THEN [verified EXCEPT !.failure = "final-snapshot-failed"]
            ELSE IF ~validateFilesystemChangeBound(filesystem.baseline, files)
            THEN [verified EXCEPT !.failure = "retained-state-change-bound-exceeded"]
            ELSE [verified EXCEPT !.final = files, !.finalReady = TRUE]
  /\ UNCHANGED <<mode, cmp, engine, resource, control, stream, helper, sandbox>>

\* ... the engine's diff ...
FinalEngineDiff(identity, collected) ==
  /\ ctl.pc = "engine"
  /\ ctl' = [ctl EXCEPT !.pc = "resources"]
  /\ engine' = [engine EXCEPT !.finalIdentityVerified = identity,
                              !.finalReady = identity /\ collected,
                              !.final = IF identity /\ collected THEN collectDockerEngineDiff ELSE @]
  /\ UNCHANGED <<mode, cmp, filesystem, resource, control, stream, helper, sandbox>>

\* ... and the counters.
FinalCounters(identity, collected) ==
  /\ ctl.pc = "resources"
  /\ ctl' = [ctl EXCEPT !.pc = "done"]
  /\ resource' = FinalResources(resource, identity, collected, cgroup)
  /\ UNCHANGED <<mode, cmp, filesystem, engine, control, stream, helper, sandbox>>

-----------------------------------------------------------------------------
(* What Run publishes.                                                      *)

\* The condition of summarizeOutputsActivityTrace.
traceObserved ==
  /\ ctl.failure = "" /\ ctl.result.failure = ""
  /\ ctl.startIdentityVerified /\ ctl.readyIdentityVerified
  /\ ctl.stopIdentityVerified /\ ctl.finalIdentityVerified
  /\ ctl.workloadQuiescenceVerified /\ ctl.ready /\ ctl.finalReady
  /\ ctl.phaseSignalsComplete

\* Mutant: the failure is always published, and no count.
summarizeOutputsActivityTrace_stale ==
  [operation |-> "filesystem.activity-trace.summary",
   coverage |-> IF traceObserved THEN "best-effort" ELSE "unavailable",
   result |-> IF traceObserved THEN "observed" ELSE "unavailable",
   confidence |-> IF traceObserved THEN "high" ELSE "unknown",
   details |-> [failure |-> ctl.failure]]

\* summarizeOutputsActivityTrace
summarizeOutputsActivityTrace ==
  [operation |-> "filesystem.activity-trace.summary",
   coverage |-> IF traceObserved THEN "best-effort" ELSE "unavailable",
   result |-> IF traceObserved THEN "observed" ELSE "unavailable",
   confidence |-> IF traceObserved THEN "high" ELSE "unknown",
   details |->
     [startIdentityVerified |-> ctl.startIdentityVerified,
      readyIdentityVerified |-> ctl.readyIdentityVerified,
      stopIdentityVerified |-> ctl.stopIdentityVerified,
      finalIdentityVerified |-> ctl.finalIdentityVerified,
      workloadQuiescenceVerified |-> ctl.workloadQuiescenceVerified]
     @@ (IF traceObserved
         THEN [notificationCount |-> ctl.result.notificationCount,
               renameHintCount |-> ctl.result.renameHintCount,
               changeHintCount |-> ctl.result.changeHintCount,
               phaseCounts |-> ctl.result.phaseCounts]
         ELSE <<>>)
     @@ (IF ctl.failure # "" \/ ctl.result.failure # ""
         THEN [failure |-> IF ctl.failure # "" THEN ctl.failure ELSE ctl.result.failure] ELSE <<>>)]

\* The condition of summarizeOperationNotifications.
comparisonComplete ==
  /\ eligible /\ cmp.failure = "" /\ ctl.failure = ""
  /\ cmp.phaseAcknowledgementsComplete
  /\ cmp.preDispatchQuiescenceVerified /\ cmp.postDispatchQuiescenceVerified
  /\ ctl.startIdentityVerified /\ ctl.readyIdentityVerified
  /\ ctl.stopIdentityVerified /\ ctl.finalIdentityVerified
  /\ ctl.workloadQuiescenceVerified /\ ctl.ready /\ ctl.finalReady
  /\ ctl.phaseSignalsComplete /\ ctl.result.type = "final"
  /\ cmp.preChecks > 0
  /\ cmp.preChecks = ctl.result.windowCount
  /\ cmp.postChecks = ctl.result.windowCount
  /\ cmp.confirmedDispatches = ctl.result.windowCount

comparisonResult == IF comparisonComplete THEN ctl.result.comparisonResult ELSE "not-tested"

\* The failure published with a comparison that was not made; it may be none.
comparisonFailure ==
  IF cmp.failure # "" THEN cmp.failure
  ELSE IF ~eligible THEN "profile-not-eligible"
  ELSE IF comparisonComplete THEN ""
  ELSE IF ctl.failure # "" THEN ctl.failure ELSE ctl.result.failure

\* summarizeOperationNotifications
summarizeOperationNotifications ==
  [operation |-> "filesystem.operation-notification.summary",
   coverage |-> IF comparisonComplete THEN "best-effort" ELSE "unavailable",
   result |-> IF comparisonComplete THEN "observed" ELSE "unavailable",
   confidence |-> IF comparisonComplete THEN "high" ELSE "unknown",
   details |->
     [comparisonResult |-> comparisonResult,
      preDispatchQuiescenceVerified |-> cmp.preDispatchQuiescenceVerified,
      postDispatchQuiescenceVerified |-> cmp.postDispatchQuiescenceVerified,
      phaseAcknowledgementsComplete |-> cmp.phaseAcknowledgementsComplete]
     @@ (IF comparisonComplete
         THEN [windowCount |-> ctl.result.windowCount, quiescenceWindowCount |-> cmp.preChecks,
               declaredPatternCount |-> ctl.result.declaredPatternCount,
               comparedNotificationCount |-> ctl.result.comparedNotificationCount,
               allowedNotificationCount |-> ctl.result.allowedNotificationCount,
               undeclaredNotificationCount |-> ctl.result.undeclaredNotificationCount]
         ELSE <<>>)
     @@ (IF comparisonFailure # "" THEN [failure |-> comparisonFailure] ELSE <<>>)]

\* The summaries a run adds to its observations, in order.
Published ==
  <<summarizeFilesystemRetainedState(filesystem), summarizeDockerEngineDiff(engine),
    summarizeOutputsActivityTrace, summarizeOperationNotifications>>

filesystemWriteObservation ==
  combineFilesystemWriteCoverage(
    {IF RetainedPrerequisites(filesystem) THEN "best-effort" ELSE "unavailable",
     Published[2].coverage, Published[3].coverage})

TraceAt(pc) ==
  /\ mode \in Modes
  /\ ctl = [InitialActivity EXCEPT !.pc = pc] /\ cmp = InitialComparison
  /\ filesystem = InitialFilesystemState /\ engine = InitialEngineDiffState
  /\ resource = InitialResourceState
  /\ control = [queue |-> <<>>, closed |-> FALSE] /\ stream = NewStream(2, FALSE, 2)
  /\ helper = [StartedHelper EXCEPT !.state = "none"]
  /\ kernel = <<>> /\ files = InitialFiles
  /\ cgroup = [limits |-> TRUE, events |-> 0, usage |-> 0]
  /\ work = [running |-> FALSE, stray |-> FALSE] /\ writes = <<>> /\ faults = 0

TraceInit == TraceAt("preflight")

\* Every FALSE is a fault.
Spend(oks) ==
  /\ faults' = faults + Cardinality({i \in DOMAIN oks : ~oks[i]})
  /\ faults' <= MaxFaults

HelperNext ==
  \/ \E a \in BOOLEAN : Spend(<<a>>) /\ HelperStart(a)
  \/ /\ HelperSelect \/ HelperRead \/ HelperRecord \/ HelperControl \/ NodeNotification \/ NodeCommand
     /\ UNCHANGED faults

ControllerStep ==
  \/ \E a, b, c, d, e \in BOOLEAN : Preflight(a, b, c, d, e) /\ Spend(<<a, b, c, d, e>>)
  \/ \E a, b, c, d \in BOOLEAN : Return(a, b, c, d) /\ Spend(<<a>>)
  \/ \E a, b \in BOOLEAN :
       Spend(<<a, b>>) /\ (StartTrace(a, b) \/ StopTrace(a, b) \/ FinalFiles(a, b)
                           \/ FinalEngineDiff(a, b) \/ FinalCounters(a, b))
  \/ \E a \in BOOLEAN :
       Spend(<<a>>) /\ (\/ ReadyIdentity(a) \/ PreCheck(a) \/ MarkPhase(a) \/ PostCheck(a)
                        \/ Quiesce(a) \/ FinalIdentity(a)
                        \/ AwaitReady(a) \/ AwaitAck(a) \/ AwaitFinal(a) \/ AwaitExit(a))
  \/ Dispatch /\ UNCHANGED faults

ControllerNext == (Joined /\ ControllerStep) \/ (Spend(<<FALSE>>) /\ AbortGivesUp)

WorkloadNext == WorkloadWrites /\ UNCHANGED faults

TraceNext ==
  ControllerNext \/ HelperNext \/ WorkloadNext \/ (Spend(<<FALSE>>) /\ HelperCrash)

\* Every wait of the controller has a deadline and the helper is a process
\* of its own that the system schedules.
TraceFairness == WF_traceVars(ControllerNext) /\ WF_traceVars(HelperNext)

TraceSpec == TraceInit /\ [][TraceNext]_traceVars /\ TraceFairness

-----------------------------------------------------------------------------
Done == ctl.pc = "done"
Written == {writes[i].path : i \in 1..Len(writes)}

TraceTypeOK ==
  /\ mode \in Modes
  /\ ctl.step \in 1..(Len(Steps) + 1) /\ ctl.windowSequence \in 0..WindowLimit
  /\ helper.windows \in 0..WindowLimit /\ Len(helper.seen) <= NotificationLimit + 1
  /\ Len(kernel) <= QueueLimit + 1 /\ Len(stream.events) <= ChannelSize
  /\ cmp.preChecks \in 0..Len(Steps) /\ cmp.confirmedDispatches \in 0..Len(Steps)
  /\ resource.errors \subseteq {"OBSERVER_INCOMPLETE", "RESOURCE_LIMIT_EXCEEDED"}

\* A run that publishes "no undeclared operations observed"
\* (summarizeOperationNotifications) had no write, by any process, that the
\* rules of the phase being dispatched at that time did not allow.
ClearIsSound ==
  Done /\ comparisonResult = "no-undeclared-observed" =>
    \A i \in 1..Len(writes) :
      /\ writes[i].step <= Len(Steps)
      /\ \E r \in RulesOf(Steps[writes[i].step]) : PatternMatches(r, writes[i].path)

\* The two comparisons of one run contradict each other in one way only: of
\* what the notifications clear, the retained files
\* (compareFilesystemRetainedState) convict at most a directory of whose
\* entries one was written, because its size is compared too.  In no other
\* case does selectFilesystemDeclarationFinding have a choice to make.
ObserversAgree ==
  /\ Done /\ comparisonResult = "no-undeclared-observed"
  /\ filesystemDeclarationFinding(compareFilesystemRetainedState(filesystem))
  => \A c \in UndeclaredChanges(filesystem) :
       /\ c.kind = "modify" /\ c.path \in {Parent(p) : p \in Written}
       /\ filesystem.final[c.path].type = "dir"

\* A Python trace that is published as observed (summarizeOutputsActivityTrace)
\* has counted every path that was written while the workload ran: a
\* notification that was lost, late or beyond a limit makes it unavailable.
TraceIsWhole ==
  Done /\ traceObserved /\ mode # "node" =>
    {helper.seen[i].path : i \in 1..Len(helper.seen)} = Written

\* A resource limit the workload ran into is never passed over in silence:
\* the run ends with a resource error (resourceLimitEventError, or an
\* incomplete observer), and a summary that claims coverage
\* (summarizeResourceUsage) counts every limit event.
LimitEventsSurface ==
  Done => /\ cgroup.events > 0 => resource.errors # {}
          /\ \A exported \in BOOLEAN :
               resourceCoverage(resource, exported) # "unavailable" =>
                 resource.final.events = cgroup.events

\* Whatever fails, times out or crashes, the controller gets to the end and
\* the helper does not stay behind (abort closes its input).
SessionEnds == <>(Done /\ helper.state \in {"none", "exited"})
=============================================================================

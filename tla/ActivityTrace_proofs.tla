------------------------ MODULE ActivityTrace_proofs ------------------------
(***************************************************************************)
(* What the activity trace publishes, proved for every sequence of         *)
(* commands, every declaration of writes, every tree of files and every    *)
(* limit, in every mode, with the controller, the helper, the workload,    *)
(* crashes and failed calls interleaved in any way.                        *)
(*                                                                         *)
(* The inductive invariant TraceInv says, besides types and bounds: at     *)
(* most one command or frame is under way, and it belongs to the step the  *)
(* controller waits in (Exchange), so the rules in force in the helper are *)
(* those of the step that runs; while the helper lives, the writes so far  *)
(* are exactly what it has recorded, read, or has still to read, unless a  *)
(* notification that ends the trace is among them (Whole); and a final     *)
(* frame speaks for the whole session because the helper writes it after   *)
(* the workload has been quiesced and its queue is empty (Testimony).      *)
(***************************************************************************)
EXTENDS ActivityTrace, FiniteSetTheorems, SequenceTheorems, TLAPS

\* The types.
StreamStates(set) ==
  [events : Seq(set), frameCount : Nat, consumed : Nat, invalid : BOOLEAN,
   frameCountLimit : Nat, requireConsumed : BOOLEAN, minimumFrames : Nat]

Names == Seq(STRING)
PathSet == Names \ {<<>>}
Kinds == {"create", "create-dir", "write", "delete", "rename", "self", "queue-overflow"}
\* A notification that makes the helper fail when it reads it.
Poison == {"create-dir", "self", "queue-overflow"}
Events == [kind : Kinds, path : Names]
FileEntries == [type : {"dir", "file", "symlink", "other"}, value : Int]
Snapshots == UNION {[D -> FileEntries] : D \in SUBSET PathSet}
PhaseSet == {"unknown", "cleanup"} \cup {Steps[i] : i \in DOMAIN Steps}
Rules == UNION {DeclaredWrites[phase] : phase \in DOMAIN DeclaredWrites}
Records == [kind : Kinds, phase : PhaseSet, path : Names, matched : BOOLEAN]
HelperFailures == {"", "notification-gap", "notification-overflow", "new-directory-watch-gap"}

HelperStates ==
  [state : {"none", "starting", "loop", "read", "record", "control", "exited"}, phase : PhaseSet,
   rules : SUBSET Rules, windows : Nat, declared : Nat, seen : Seq(Records),
   failure : HelperFailures, watched : SUBSET Names, readable : SUBSET {"kernel", "control"},
   batch : Seq(Events), clean : BOOLEAN]

\* The frames the helper writes, and what a broken stream gives instead.
TraceFrames ==
  {ReadyFrame, StreamError} \cup {AckFrame(h) : h \in HelperStates}
    \cup {FailedFrame(h) : h \in HelperStates}
    \cup {FinalFrame(h, TRUE) : h \in HelperStates} \cup {FinalFrame(h, FALSE) : h \in HelperStates}

RuleSets == {set \in SUBSET Rules : IsFiniteSet(set)}
PhaseCommands == [command : {"phase"}, phase : PhaseSet, rules : RuleSets]
StartCommand == [command |-> "start"]
StopCommand == [command |-> "stop"]
Commands == {StartCommand, StopCommand} \cup PhaseCommands

\* The steps of the controller before the first phase, the steps after the
\* stop command, and the steps at which no command is under way.
Early == {"preflight", "start", "awaitReady", "readyIdentity"}
Late == {"awaitFinal", "awaitExit", "finalIdentity", "retained", "engine", "resources"}
Talking == {"readyIdentity", "pre", "mark", "dispatch", "running", "post", "quiesce", "stop"}
Stages == Early \cup Late \cup Talking \cup {"awaitAck", "done"}

TraceFailures ==
  {"", "ready-transport-failed", "start-container-identity-failed", "ready-container-identity-failed",
   "phase-control-failed", "workload-quiescence-failed", "stop-container-identity-failed",
   "final-transport-failed", "final-container-identity-failed"}

ControllerStates ==
  [pc : Stages, step : Nat, session : BOOLEAN, windowSequence : Nat,
   startIdentityVerified : BOOLEAN, readyIdentityVerified : BOOLEAN,
   stopIdentityVerified : BOOLEAN, finalIdentityVerified : BOOLEAN,
   workloadQuiescenceVerified : BOOLEAN, ready : BOOLEAN, finalReady : BOOLEAN,
   phaseSignalsComplete : BOOLEAN, result : TraceFrames \cup {NoResult}, failure : TraceFailures,
   broken : BOOLEAN, abandoned : BOOLEAN]

ComparisonStates ==
  [phaseAcknowledgementsComplete : BOOLEAN, preDispatchQuiescenceVerified : BOOLEAN,
   postDispatchQuiescenceVerified : BOOLEAN, preChecks : Nat, postChecks : Nat,
   confirmedDispatches : Nat,
   failure : {"", "pre-dispatch-quiescence-failed", "post-dispatch-quiescence-failed",
              "phase-control-failed", "observer-not-ready", "workload-dispatch-unconfirmed"}]

FilesystemStates ==
  [baseline : Snapshots, baselineReady : BOOLEAN, baselineIdentityVerified : BOOLEAN,
   final : Snapshots, finalReady : BOOLEAN, finalIdentityVerified : BOOLEAN,
   workloadQuiescenceVerified : BOOLEAN,
   failure : {"", "container-identity-readback-failed", "baseline-snapshot-failed",
              "workload-quiescence-failed", "final-snapshot-failed",
              "retained-state-change-bound-exceeded"},
   patterns : SUBSET Rules, ambiguous : BOOLEAN]

ResourceStates ==
  [active : ResourceSnapshot, activeReady : BOOLEAN, final : ResourceSnapshot, finalReady : BOOLEAN,
   identityVerified : BOOLEAN, errors : SUBSET {"OBSERVER_INCOMPLETE", "RESOURCE_LIMIT_EXCEEDED"}]

EngineStates ==
  [final : {0, 1}, finalReady : BOOLEAN, finalIdentityVerified : BOOLEAN,
   workloadQuiescenceVerified : BOOLEAN]

TraceTypes ==
  /\ mode \in Modes /\ ctl \in ControllerStates /\ cmp \in ComparisonStates
  /\ filesystem \in FilesystemStates /\ engine \in EngineStates /\ resource \in ResourceStates
  /\ control \in [queue : Seq(Commands), closed : BOOLEAN]
  /\ stream \in StreamStates(TraceFrames) /\ helper \in HelperStates /\ kernel \in Seq(Events)
  /\ files \in Snapshots /\ cgroup \in ResourceSnapshot
  /\ work \in [running : BOOLEAN, stray : BOOLEAN] /\ writes \in Seq([step : Nat, path : PathSet])

Python == mode # "node"
\* The helper has its watches; it is in its loop; it has not failed.
Started == helper.state \notin {"none", "starting"}
Working == helper.state \in {"loop", "read", "record", "control"}
Live == Working /\ helper.failure = ""
\* No process of the workload can write.
Quiet == ~work.running /\ ~work.stray

\* The session can still be published as observed.
Good == ctl.failure = "" /\ (ctl.pc \in Early \/ ctl.phaseSignalsComplete)

\* Where the controller stands: what has not begun yet, which steps need a
\* phase, and that nothing runs outside the running step.
Progress ==
  /\ ctl.step >= 1 /\ ctl.step <= Len(Steps) + 1
  /\ ctl.pc \in Early =>
       writes = <<>> /\ Quiet /\ ctl.step = 1 /\ ~ctl.broken /\ ~ctl.phaseSignalsComplete
  /\ ctl.pc \in {"preflight", "start"} =>
       helper.state = "none" /\ control.queue = <<>> /\ ~control.closed
  /\ ctl.pc \in {"pre", "dispatch", "running", "post"} => ctl.step <= Len(Steps)
  /\ ctl.pc = "awaitAck" /\ eligible => ctl.step <= Len(Steps) /\ ~ctl.broken
  /\ ctl.pc \in {"dispatch", "running"} => ~ctl.broken
  /\ work.running => ctl.pc = "running"
  /\ ctl.pc \in {"stop"} \cup Late => Quiet
  /\ ctl.finalReady => ctl.pc \in {"finalIdentity", "retained", "engine", "resources", "done"}
  /\ (Good /\ ctl.pc \notin Early) \/ ctl.pc = "readyIdentity" => ctl.session

\* Where the helper stands: nothing before it has started, its watches are
\* gone once it has failed, and it acts on a command only if there is one.
HelperStaged ==
  /\ ~Started => /\ helper.watched = {} /\ helper.seen = <<>> /\ helper.failure = ""
                 /\ kernel = <<>> /\ helper.batch = <<>> /\ stream.events = <<>> /\ helper.rules = {}
  /\ helper.state = "exited" \/ helper.failure # "" => helper.watched = {}
  /\ Live => <<>> \in helper.watched
  /\ helper.state \in {"read", "record"} => helper.failure = ""
  /\ helper.state = "read" => kernel # <<>>
  /\ helper.state = "record" => helper.batch # <<>>
  /\ helper.state \in {"loop", "read", "control"} => helper.batch = <<>>
  /\ helper.state \in {"read", "record", "control"} => Python
  /\ helper.state = "control" \/ (helper.state \in {"read", "record"} /\ "control" \in helper.readable)
       => control.queue # <<>> \/ control.closed

\* The start command is the first, and only a helper that has not started
\* finds it.
Commanded ==
  \A i \in DOMAIN control.queue :
    control.queue[i] = StartCommand => i = 1 /\ helper.state \in {"none", "starting", "exited"}

PhaseCommand == [command |-> "phase", phase |-> CurrentPhase, rules |-> RulesOf(CurrentPhase)]

\* At most one command or one frame is under way, and it is the one the
\* controller waits for.
Exchange ==
  Python /\ Good =>
    /\ Len(control.queue) <= 1 /\ Len(stream.events) <= 1
    /\ control.queue = <<>> \/ stream.events = <<>>
    /\ ctl.pc \in Talking => control.queue = <<>> /\ stream.events = <<>>
    /\ control.closed => ctl.pc \in Late \cup {"done"}
    /\ control.closed /\ control.queue = <<>> => helper.state = "exited"
    /\ control.closed /\ ctl.pc # "awaitFinal" => helper.state = "exited" /\ stream.events = <<>>
    /\ ctl.pc \in Late \cup {"done"} => control.closed
    /\ control.queue # <<>> =>
         \/ ctl.pc = "awaitReady" /\ Head(control.queue) = StartCommand /\ helper.state \in {"starting", "exited"}
         \/ ctl.pc = "awaitAck" /\ Head(control.queue) = PhaseCommand
         \/ ctl.pc = "awaitFinal" /\ Head(control.queue) = StopCommand
    /\ ctl.pc \notin {"preflight", "start", "awaitReady"} => Started

\* What the helper has heard or will hear of.
PathsOf(q) == {q[i].path : i \in DOMAIN q}
Poisoned == (\E i \in DOMAIN kernel : kernel[i].kind \in Poison)
            \/ (\E i \in DOMAIN helper.batch : helper.batch[i].kind \in Poison)
Heard == PathsOf(helper.seen) \cup PathsOf(helper.batch) \cup PathsOf(kernel)

\* What exists is in a directory.
TreeClosed ==
  \A p \in DOMAIN files : Len(p) > 1 => Parent(p) \in DOMAIN files /\ files[Parent(p)].type = "dir"

\* Either a notification that ends the trace is on its way, or every
\* directory is watched and every write has its notification: recorded, read
\* or still in the kernel's queue.
Whole == Python /\ Good /\ Live => Poisoned \/ (Tree(files) \subseteq helper.watched /\ Written = Heard)

\* A plan whose comparison can still be made.
Clean == eligible /\ Good /\ cmp.failure = ""

\* The rules of the step the write was made in allow it; the helper has
\* recorded it, by those rules or as unmatched; it will, by those rules.
Allowed(w) == w.step <= Len(Steps) /\ \E r \in RulesOf(Steps[w.step]) : PatternMatches(r, w.path)
Recorded(w) ==
  \E i \in DOMAIN helper.seen : helper.seen[i].path = w.path /\ (helper.seen[i].matched => Allowed(w))
Waits(w) ==
  /\ w.step <= Len(Steps) /\ helper.rules = RulesOf(Steps[w.step])
  /\ w.path \in PathsOf(helper.batch) \cup PathsOf(kernel)

\* A plan that is compared: the rules the helper matches with are the ones of
\* the step that runs, as long as a write of that step can still be recorded.
Compared ==
  Clean =>
    /\ work.stray => ctl.pc = "post"
    /\ ctl.pc = "awaitAck" /\ control.queue = <<>> /\ Live => helper.rules = RulesOf(CurrentPhase)
    /\ ctl.pc \in {"dispatch", "running", "post"} /\ Live => helper.rules = RulesOf(Steps[ctl.step])
    /\ Live /\ ~Poisoned => \A i \in DOMAIN writes : Recorded(writes[i]) \/ Waits(writes[i])

\* A plan that is compared: writes belong to steps that were dispatched, and
\* the retained files are compared with those steps' rules.
Granted ==
  Clean =>
    \A i \in DOMAIN writes :
      /\ writes[i].step <= ctl.step
      /\ writes[i].step = ctl.step => ctl.pc \in {"running", "post"}
      /\ writes[i].step < ctl.step /\ ~filesystem.ambiguous =>
           RulesOf(Steps[writes[i].step]) \subseteq filesystem.patterns

Same(f, g, p) == (p \in DOMAIN f <=> p \in DOMAIN g) /\ (p \in DOMAIN f => f[p] = g[p])

Directory(f, p) == p \in DOMAIN f /\ f[p].type = "dir"
\* A path is as it was, unless it was written or it is a directory of whose
\* entries one was.
Kept(f, g, p, W) ==
  p \in W \/ Same(f, g, p) \/ (p \in {Parent(w) : w \in W} /\ Directory(f, p) /\ Directory(g, p))

\* A path nobody wrote is as it was at the baseline, but for the size of a
\* directory.
Changed ==
  /\ filesystem.baselineReady => \A p : Kept(filesystem.baseline, files, p, Written)
  /\ filesystem.baselineReady /\ filesystem.finalReady =>
       \A p : Kept(filesystem.baseline, filesystem.final, p, Written)
  /\ filesystem.finalReady => filesystem.baselineReady /\ ctl.pc \in {"engine", "resources", "done"}

\* What a frame says, while it is on its way and once it is the result.
Testified(frame) ==
  /\ frame.type = "failed" => frame.failure # ""
  /\ frame.type = "final" /\ frame.ok =>
       /\ helper.state = "exited" 
       /\ Python /\ Good => ctl.pc \in Late \cup {"done"} /\ Written = PathsOf(helper.seen)
       /\ Python /\ frame.comparisonResult = "no-undeclared-observed" => \A i \in DOMAIN helper.seen : helper.seen[i].matched
       /\ Clean => \A i \in DOMAIN writes : Recorded(writes[i])

Testimony ==
  /\ \A i \in DOMAIN stream.events : Testified(stream.events[i])
  /\ Testified(ctl.result)
  /\ ctl.pc = "awaitExit" \/ ctl.finalReady =>
       ctl.result.type = "failed" \/ (ctl.result.type = "final" /\ ctl.result.ok)

\* The counters: there is a first snapshot unless the run ended before it, the
\* last one is current, and a limit event leaves an error.
Limits ==
  /\ ctl.pc = "preflight" \/ ctl.broken \/ resource.activeReady
  /\ cgroup.events > 0 => resource.activeReady
  /\ resource.activeReady => resource.active.events = 0
  /\ cgroup.limits
  /\ resource.finalReady => ctl.pc = "done" /\ resource.final.events = cgroup.events
  /\ ctl.pc = "done" /\ cgroup.events > 0 => resource.errors # {}

\* The queues and counts.
Bounds ==
  /\ ctl.windowSequence <= WindowLimit /\ helper.windows <= WindowLimit
  /\ helper.failure = "" => Len(helper.seen) <= NotificationLimit
  /\ Len(helper.seen) <= NotificationLimit + 1
  /\ Len(kernel) <= QueueLimit \/ (Len(kernel) = QueueLimit + 1 /\ kernel[Len(kernel)] = Overflowed)
  /\ Len(stream.events) <= ChannelSize
  /\ cmp.preChecks <= Len(Steps) /\ cmp.preChecks <= ctl.step
  /\ cmp.confirmedDispatches <= Len(Steps) /\ cmp.confirmedDispatches <= ctl.step
  /\ ctl.pc \in Early \cup {"pre"} => cmp.preChecks < ctl.step
  /\ ctl.pc \notin {"post"} => cmp.confirmedDispatches < ctl.step

TraceInv ==
  /\ TraceTypes /\ Progress /\ HelperStaged /\ Commanded /\ Exchange /\ TreeClosed /\ Whole
  /\ Compared /\ Granted /\ Changed /\ Testimony /\ Limits /\ Bounds

-----------------------------------------------------------------------------
(* The stream of frames. *)

\* Every frame of t is one of s, the given one or the error of the stream.
Grown(t, s, frame) ==
  \A i \in DOMAIN t.events :
    \/ t.events[i] = frame \/ t.events[i] = StreamError
    \/ \E j \in DOMAIN s.events : t.events[i] = s.events[j]

LEMMA AppendIn ==
  ASSUME NEW S, NEW q \in Seq(S), NEW x \in S
  PROVE  /\ Append(q, x) \in Seq(S) /\ DOMAIN Append(q, x) = 1..(Len(q) + 1)
         /\ \A i \in DOMAIN Append(q, x) : Append(q, x)[i] = x \/ \E j \in DOMAIN q : Append(q, x)[i] = q[j]
  OBVIOUS

LEMMA TailIn ==
  ASSUME NEW S, NEW q \in Seq(S), q # <<>>
  PROVE  /\ Tail(q) \in Seq(S) /\ Head(q) \in S /\ Head(q) = q[1] /\ 1 \in DOMAIN q
         /\ Len(Tail(q)) = Len(q) - 1
         /\ \A i \in DOMAIN Tail(q) : \E j \in DOMAIN q : Tail(q)[i] = q[j]
<1>1. Len(q) \in Nat \ {0}
  OBVIOUS
<1>2. \A i \in DOMAIN Tail(q) : i + 1 \in DOMAIN q /\ Tail(q)[i] = q[i + 1]
  BY <1>1
<1> QED BY <1>1, <1>2

\* A stream with other events, counts and validity.
Stream(s, q, n, c, b) ==
  [events |-> q, frameCount |-> n, consumed |-> c, invalid |-> b,
   frameCountLimit |-> s.frameCountLimit, requireConsumed |-> s.requireConsumed,
   minimumFrames |-> s.minimumFrames]

LEMMA WriteFrameGrows ==
  ASSUME NEW S, NEW s \in StreamStates(S), NEW frame \in S, StreamError \in S
  PROVE  WriteFrame(s, frame) \in StreamStates(S) /\ Grown(WriteFrame(s, frame), s, frame)
<1> DEFINE e == Append(s.events, StreamError)
           f == Append(s.events, frame)
           n == s.frameCount + 1
<1>1. s.events \in Seq(S) /\ s.frameCount \in Nat /\ s.consumed \in Nat /\ n \in Nat /\ s.invalid \in BOOLEAN
  BY DEF StreamStates
<1>2. e \in Seq(S) /\ \A i \in DOMAIN e : e[i] = StreamError \/ \E j \in DOMAIN s.events : e[i] = s.events[j]
  BY <1>1, AppendIn
<1>3. f \in Seq(S) /\ \A i \in DOMAIN f : f[i] = frame \/ \E j \in DOMAIN s.events : f[i] = s.events[j]
  BY <1>1, AppendIn
<1>4. \A t \in StreamStates(S) : t.events = s.events \/ t.events = e \/ t.events = f => Grown(t, s, frame)
  BY <1>2, <1>3 DEF Grown
<1>5. \E q \in {s.events, e, f}, m \in {s.frameCount, n}, b \in BOOLEAN :
        WriteFrame(s, frame) = Stream(s, q, m, s.consumed, b)
  BY <1>1 DEF WriteFrame, invalidateLocked, StreamStates, Stream
<1> HIDE DEF e, f, n
<1>6. PICK q \in {s.events, e, f}, m \in {s.frameCount, n}, b \in BOOLEAN :
        WriteFrame(s, frame) = Stream(s, q, m, s.consumed, b)
  BY <1>5
<1>8. q \in Seq(S) /\ m \in Nat
  BY <1>1, <1>2, <1>3
<1>9. Stream(s, q, m, s.consumed, b) \in StreamStates(S) /\ Stream(s, q, m, s.consumed, b).events = q
  BY <1>1, <1>8 DEF StreamStates, Stream
<1>7. WriteFrame(s, frame) \in StreamStates(S) /\ WriteFrame(s, frame).events = q
  BY <1>6, <1>9
<1> QED BY <1>4, <1>7

LEMMA TakeFrameShrinks ==
  ASSUME NEW S, NEW s \in StreamStates(S), s.events # <<>>
  PROVE  /\ TakeFrame(s) \in StreamStates(S) /\ Head(s.events) \in S
         /\ Head(s.events) = s.events[1] /\ 1 \in DOMAIN s.events
         /\ TakeFrame(s).events = Tail(s.events)
         /\ \A i \in DOMAIN TakeFrame(s).events : \E j \in DOMAIN s.events : TakeFrame(s).events[i] = s.events[j]
<1> DEFINE n == IF Head(s.events) = StreamError THEN s.consumed ELSE s.consumed + 1
<1>1. s.events \in Seq(S) /\ s.consumed \in Nat /\ s.frameCount \in Nat /\ n \in Nat /\ s.invalid \in BOOLEAN
  BY DEF StreamStates
<1>2. Tail(s.events) \in Seq(S) /\ Head(s.events) \in S /\ Head(s.events) = s.events[1]
      /\ 1 \in DOMAIN s.events
      /\ \A i \in DOMAIN Tail(s.events) : \E j \in DOMAIN s.events : Tail(s.events)[i] = s.events[j]
  BY <1>1, TailIn
<1>3. TakeFrame(s) = [s EXCEPT !.events = Tail(s.events), !.consumed = n]
  BY <1>1 DEF TakeFrame
<1>4. TakeFrame(s) \in StreamStates(S) /\ TakeFrame(s).events = Tail(s.events)
  <2> DEFINE q == Tail(s.events)
             Q == Seq(S)
  <2>1. q \in Q /\ s \in [events : Q, frameCount : Nat, consumed : Nat, invalid : BOOLEAN,
                           frameCountLimit : Nat, requireConsumed : BOOLEAN, minimumFrames : Nat]
    BY <1>2 DEF StreamStates
  <2> HIDE DEF q, Q, n
  <2>2. [s EXCEPT !.events = q, !.consumed = n].events = q
        /\ [s EXCEPT !.events = q, !.consumed = n] \in
             [events : Q, frameCount : Nat, consumed : Nat, invalid : BOOLEAN,
              frameCountLimit : Nat, requireConsumed : BOOLEAN, minimumFrames : Nat]
    BY <1>1, <2>1
  <2> QED BY <1>3, <2>2 DEF q, Q, StreamStates
<1> QED BY <1>2, <1>4


LEMMA WriteFrameLength ==
  ASSUME NEW S, NEW s \in StreamStates(S), NEW frame \in S, StreamError \in S,
         Len(s.events) <= ChannelSize
  PROVE  /\ Len(WriteFrame(s, frame).events) <= Len(s.events) + 1
         /\ MayWrite(s) => Len(WriteFrame(s, frame).events) <= ChannelSize
<1> USE ChannelSizeAssumption
<1> DEFINE n == Len(s.events)
<1>1. s.events \in Seq(S) /\ n \in Nat /\ s.invalid \in BOOLEAN
  BY DEF StreamStates
<1>2. Len(Append(s.events, StreamError)) = n + 1 /\ Len(Append(s.events, frame)) = n + 1
  BY <1>1
<1>3. \/ WriteFrame(s, frame).events = s.events
      \/ n < ChannelSize /\ WriteFrame(s, frame).events = Append(s.events, StreamError)
      \/ ~s.invalid /\ WriteFrame(s, frame).events = Append(s.events, frame)
  BY <1>1 DEF WriteFrame, invalidateLocked, StreamStates
<1> HIDE DEF n
<1> QED BY <1>1, <1>2, <1>3 DEF n, MayWrite

-----------------------------------------------------------------------------
(* The activity trace. *)


\* What the actions of the controller leave alone.
LEMMA ControllerFrame ==
  ASSUME UNCHANGED <<mode, helper, kernel, files, writes>>
  PROVE  /\ (Python' <=> Python) /\ (Started' <=> Started) /\ (Live' <=> Live) /\ (Poisoned' <=> Poisoned)
         /\ Heard' = Heard /\ Written' = Written /\ Tree(files)' = Tree(files) /\ (TreeClosed' <=> TreeClosed)
         /\ (eligible' <=> eligible) /\ PathsOf(helper.seen)' = PathsOf(helper.seen)
         /\ \A w : (Recorded(w)' <=> Recorded(w)) /\ (Waits(w)' <=> Waits(w))
         /\ \A phase : RulesOf(phase)' = RulesOf(phase)
<1>1. (eligible' <=> eligible) /\ (Python' <=> Python) /\ (Started' <=> Started) /\ (Live' <=> Live)
  BY DEF eligible, Python, Started, Live, Working
<1>2. \A phase : RulesOf(phase)' = RulesOf(phase)
  BY <1>1 DEF RulesOf
<1>3. \A q : PathsOf(q)' = PathsOf(q)
  BY DEF PathsOf
<1>4. Heard' = Heard /\ Written' = Written /\ PathsOf(helper.seen)' = PathsOf(helper.seen)
  BY DEF Heard, PathsOf, Written
<1>5. Tree(files)' = Tree(files) /\ (TreeClosed' <=> TreeClosed) /\ (Poisoned' <=> Poisoned)
  BY DEF Tree, TreeClosed, Poisoned
<1>6. \A w : Allowed(w)' <=> Allowed(w)
  BY <1>2 DEF Allowed
<1>7. \A w : (Recorded(w)' <=> Recorded(w)) /\ (Waits(w)' <=> Waits(w))
  BY <1>2, <1>6 DEF Recorded, Waits, PathsOf
<1> QED BY <1>1, <1>2, <1>4, <1>5, <1>7

LEMMA AppendsOne ==
  ASSUME NEW S, NEW q \in Seq(S), NEW x \in S
  PROVE  /\ Append(q, x) \in Seq(S) /\ Append(q, x) # <<>>
         /\ q = <<>> => Head(Append(q, x)) = x /\ Len(Append(q, x)) = 1
<1>1. Len(q) \in Nat /\ Len(Append(q, x)) = Len(q) + 1 /\ Append(q, x) \in Seq(S)
  OBVIOUS
<1>2. Append(q, x) # <<>>
  BY <1>1
<1>3. q = <<>> => Len(q) = 0 /\ Append(q, x)[1] = x
  OBVIOUS
<1> QED BY <1>1, <1>2, <1>3

LEMMA AppendKeeps ==
  ASSUME NEW S, NEW q \in Seq(S), NEW x \in S
  PROVE  \A i : i \in DOMAIN Append(q, x) /\ ~(Append(q, x)[i] = x) => i \in DOMAIN q /\ Append(q, x)[i] = q[i]
<1>1. Len(q) \in Nat /\ Len(Append(q, x)) = Len(q) + 1
  OBVIOUS
<1> QED BY <1>1

LEMMA BoundaryChecked ==
  ASSUME NEW c \in ComparisonStates, NEW identity \in BOOLEAN, NEW pre \in BOOLEAN,
         work \in [running : BOOLEAN, stray : BOOLEAN]
  PROVE  LET d == QuiescenceBoundary(c, identity, pre) IN
         /\ d \in ComparisonStates /\ d.confirmedDispatches = c.confirmedDispatches
         /\ (d.preChecks = c.preChecks \/ (pre /\ d.preChecks = c.preChecks + 1)) /\ d.preChecks \in Nat
         /\ (d.failure = "" => c.failure = "") /\ (eligible /\ d.failure = "" => ~work.stray)
<1> DEFINE d == QuiescenceBoundary(c, identity, pre)
<1>0. c.preChecks \in Nat /\ c.postChecks \in Nat
  BY DEF ComparisonStates
<1>1. CASE ~eligible
  BY <1>1 DEF QuiescenceBoundary, ComparisonStates
<1>2. CASE eligible /\ identity /\ ~work.running /\ ~work.stray
  <2>1. CASE pre
    <3> DEFINE n == c.preChecks + 1
    <3>1. d = [c EXCEPT !.preChecks = n]
      BY <1>2, <2>1 DEF QuiescenceBoundary
    <3>0. n \in Nat /\ c.preChecks \in Nat
      <4>1. c.preChecks \in Nat /\ c.postChecks \in Nat
        BY <1>0
      <4> QED BY <4>1
    <3> HIDE DEF d, n
    <3>3. d \in ComparisonStates /\ d.confirmedDispatches = c.confirmedDispatches
          /\ d.preChecks = n /\ d.failure = c.failure
      BY <3>0, <3>1 DEF ComparisonStates
    <3>2. d \in ComparisonStates /\ d.confirmedDispatches = c.confirmedDispatches
          /\ d.preChecks = c.preChecks + 1 /\ d.preChecks \in Nat /\ d.failure = c.failure
      BY <3>3, <3>0 DEF n
    <3> QED BY <3>2, <1>2, <2>1 DEF d
  <2>2. CASE ~pre
    <3> DEFINE n == c.postChecks + 1
    <3>1. d = [c EXCEPT !.postChecks = n]
      BY <1>2, <2>2 DEF QuiescenceBoundary
    <3>0. n \in Nat /\ c.preChecks \in Nat
      <4>1. c.preChecks \in Nat /\ c.postChecks \in Nat
        BY <1>0
      <4> QED BY <4>1
    <3> HIDE DEF d, n
    <3>3. d \in ComparisonStates /\ d.confirmedDispatches = c.confirmedDispatches
          /\ d.preChecks = c.preChecks /\ d.failure = c.failure
      BY <3>0, <3>1 DEF ComparisonStates
    <3>2. d \in ComparisonStates /\ d.confirmedDispatches = c.confirmedDispatches
          /\ d.preChecks = c.preChecks /\ d.preChecks \in Nat /\ d.failure = c.failure
      BY <3>3, <3>0 DEF n
    <3> QED BY <3>2, <1>2 DEF d
  <2> QED BY <2>1, <2>2
<1>3. CASE eligible /\ ~(identity /\ ~work.running /\ ~work.stray)
  <2> DEFINE u == IF pre THEN [c EXCEPT !.preDispatchQuiescenceVerified = FALSE]
                  ELSE [c EXCEPT !.postDispatchQuiescenceVerified = FALSE]
             r == IF pre THEN "pre-dispatch-quiescence-failed" ELSE "post-dispatch-quiescence-failed"
  <2>1. d = IF u.failure = "" THEN [u EXCEPT !.failure = r] ELSE u
    BY <1>3 DEF QuiescenceBoundary, FirstFailure
  <2>2. u \in ComparisonStates /\ u.confirmedDispatches = c.confirmedDispatches
        /\ u.preChecks = c.preChecks /\ u.failure = c.failure
    BY DEF ComparisonStates
  <2>3. r \in {"pre-dispatch-quiescence-failed", "post-dispatch-quiescence-failed"}
    OBVIOUS
  <2> HIDE DEF u, r, d
  <2>4. d \in ComparisonStates /\ d.confirmedDispatches = c.confirmedDispatches
        /\ d.preChecks = c.preChecks /\ d.preChecks \in Nat /\ d.failure # ""
    BY <2>1, <2>2, <2>3 DEF ComparisonStates
  <2> QED BY <2>4 DEF d
<1> QED BY <1>1, <1>2, <1>3

\* What a phase command that failed leaves behind.
LEMMA PhaseControlFailedDoes ==
  ASSUME ctl \in ControllerStates, cmp \in ComparisonStates,
         control \in [queue : Seq(Commands), closed : BOOLEAN], PhaseControlFailed
  PROVE  /\ ctl' \in ControllerStates /\ ctl'.pc = AfterMark /\ ctl'.step = ctl.step /\ ~ctl'.session
         /\ ctl'.windowSequence = ctl.windowSequence /\ ctl'.finalReady = ctl.finalReady
         /\ ~ctl'.phaseSignalsComplete /\ ctl'.result = ctl.result /\ ctl'.broken = ctl.broken
         /\ cmp' \in ComparisonStates /\ cmp'.preChecks = cmp.preChecks
         /\ cmp'.confirmedDispatches = cmp.confirmedDispatches
         /\ control' \in [queue : Seq(Commands), closed : BOOLEAN]
         /\ control'.queue = control.queue /\ control'.closed
<1>1. control' = [control EXCEPT !.closed = TRUE]
  BY DEF PhaseControlFailed, abort
<1>2. /\ control' \in [queue : Seq(Commands), closed : BOOLEAN]
      /\ control'.queue = control.queue /\ control'.closed
  BY <1>1
<1>3. cmp' = cmp \/ cmp' = [cmp EXCEPT !.phaseAcknowledgementsComplete = FALSE, !.failure = "phase-control-failed"]
  BY DEF PhaseControlFailed
<1>4. cmp' \in ComparisonStates /\ cmp'.preChecks = cmp.preChecks /\ cmp'.confirmedDispatches = cmp.confirmedDispatches
  BY <1>3 DEF ComparisonStates
<1>5. AfterMark \in Stages
  BY DEF AfterMark, Stages, Talking
<1>6. PICK c \in ControllerStates :
        /\ c = ctl \/ c = [ctl EXCEPT !.failure = "phase-control-failed"]
        /\ ctl' = [c EXCEPT !.phaseSignalsComplete = FALSE, !.session = FALSE, !.pc = AfterMark]
  <2>1. [ctl EXCEPT !.failure = "phase-control-failed"] \in ControllerStates
    BY DEF ControllerStates, TraceFailures
  <2> QED BY <2>1 DEF PhaseControlFailed, FirstFailure
<1>7. /\ c.step = ctl.step /\ c.windowSequence = ctl.windowSequence /\ c.finalReady = ctl.finalReady
      /\ c.result = ctl.result /\ c.broken = ctl.broken
  BY <1>6 DEF ControllerStates
<1>8. /\ ctl' \in ControllerStates /\ ctl'.pc = AfterMark /\ ctl'.step = c.step /\ ~ctl'.session
      /\ ctl'.windowSequence = c.windowSequence /\ ctl'.finalReady = c.finalReady
      /\ ~ctl'.phaseSignalsComplete /\ ctl'.result = c.result /\ ctl'.broken = c.broken
  BY <1>5, <1>6 DEF ControllerStates
<1> QED BY <1>2, <1>4, <1>7, <1>8

LEMMA PhaseDispatched ==
  ASSUME NEW fs \in FilesystemStates, NEW phase
  PROVE  LET d == recordFilesystemPhaseDispatch(fs, phase) IN
         /\ d \in FilesystemStates /\ d.baseline = fs.baseline /\ d.baselineReady = fs.baselineReady
         /\ d.final = fs.final /\ d.finalReady = fs.finalReady
         /\ ~d.ambiguous => /\ ~fs.ambiguous /\ fs.patterns \subseteq d.patterns
                            /\ RulesOf(phase) \subseteq d.patterns
<1> DEFINE d == recordFilesystemPhaseDispatch(fs, phase)
<1>1. CASE d = fs /\ (fs.ambiguous \/ phase \notin DOMAIN DeclaredWrites)
  BY <1>1 DEF RulesOf
<1>2. CASE d = [fs EXCEPT !.ambiguous = TRUE, !.patterns = {}]
  <2> HIDE DEF d
  <2>1. d \in FilesystemStates /\ d.baseline = fs.baseline /\ d.baselineReady = fs.baselineReady
        /\ d.final = fs.final /\ d.finalReady = fs.finalReady /\ d.ambiguous
    BY <1>2 DEF FilesystemStates
  <2> QED BY <2>1 DEF d
<1>3. CASE /\ d = [fs EXCEPT !.patterns = fs.patterns \cup DeclaredWrites[phase]]
           /\ ~fs.ambiguous /\ phase \in DOMAIN DeclaredWrites
  <2> DEFINE p == fs.patterns \cup DeclaredWrites[phase]
  <2>1. p \in SUBSET Rules
    BY <1>3 DEF FilesystemStates, Rules
  <2>2. RulesOf(phase) \subseteq p /\ fs.patterns \subseteq p
    BY <1>3 DEF RulesOf
  <2>3. d = [fs EXCEPT !.patterns = p]
    BY <1>3
  <2> HIDE DEF d, p
  <2>4. d \in FilesystemStates /\ d.baseline = fs.baseline /\ d.baselineReady = fs.baselineReady
        /\ d.final = fs.final /\ d.finalReady = fs.finalReady /\ d.patterns = p /\ d.ambiguous = fs.ambiguous
    BY <2>1, <2>3 DEF FilesystemStates
  <2> QED BY <2>2, <2>4, <1>3 DEF d
<1> QED BY <1>1, <1>2, <1>3 DEF recordFilesystemPhaseDispatch, Ambiguous

LEMMA NewStreamIs ==
  ASSUME NEW n \in Nat, NEW b \in BOOLEAN, NEW m \in Nat
  PROVE  /\ NewStream(n, b, m) \in StreamStates(TraceFrames) /\ NewStream(n, b, m).events = <<>>
         /\ DOMAIN NewStream(n, b, m).events = {} /\ Len(NewStream(n, b, m).events) = 0
<1>1. <<>> \in Seq(TraceFrames) /\ DOMAIN <<>> = {} /\ Len(<<>>) = 0
  OBVIOUS
<1> QED BY <1>1 DEF NewStream, StreamStates

LEMMA WriteAt ==
  ASSUME writes \in Seq([step : Nat, path : PathSet]), NEW i \in DOMAIN writes
  PROVE  writes[i].step \in Nat /\ writes[i].path \in PathSet
<1> DEFINE W == [step : Nat, path : PathSet]
<1>1. \A w \in W : w.step \in Nat /\ w.path \in PathSet
  OBVIOUS
<1>2. writes \in Seq(W)
  OBVIOUS
<1> HIDE DEF W
<1>3. writes[i] \in W
  BY <1>2
<1> QED BY <1>1, <1>3

LEMMA Below ==
  \A a, b, c \in Nat : a <= b /\ b <= c => a <= c
  OBVIOUS

LEMMA TraceFramesHold ==
  /\ ReadyFrame \in TraceFrames /\ StreamError \in TraceFrames
  /\ \A h \in HelperStates : /\ AckFrame(h) \in TraceFrames /\ FailedFrame(h) \in TraceFrames
                             /\ FinalFrame(h, TRUE) \in TraceFrames /\ FinalFrame(h, FALSE) \in TraceFrames
  BY DEF TraceFrames

LEMMA TraceFrameTypes ==
  /\ ReadyFrame.type = "ready" /\ StreamError.type = "error" /\ NoResult.type = "none" /\ NoResult.failure = ""
  BY DEF ReadyFrame, StreamError, NoResult

LEMMA RulesIn ==
  ASSUME NEW phase
  PROVE  RulesOf(phase) \in SUBSET Rules /\ IsFiniteSet(RulesOf(phase))
  BY TraceAssumption, FS_EmptySet DEF RulesOf, Rules

LEMMA AbortGivesUpKeeps ==
  ASSUME TraceInv, AbortGivesUp
  PROVE  TraceInv'
<1> USE TraceAssumption, ChannelSizeAssumption
<1>0. AbortGivesUp
  OBVIOUS
<1>q. /\ TraceTypes /\ Progress /\ HelperStaged /\ Commanded /\ Exchange /\ TreeClosed /\ Whole
      /\ Compared /\ Granted /\ Changed /\ Testimony /\ Limits /\ Bounds
  BY DEF TraceInv
<1>y. /\ mode \in Modes /\ ctl \in ControllerStates /\ cmp \in ComparisonStates
      /\ filesystem \in FilesystemStates /\ engine \in EngineStates /\ resource \in ResourceStates
      /\ control \in [queue : Seq(Commands), closed : BOOLEAN]
      /\ stream \in StreamStates(TraceFrames) /\ helper \in HelperStates /\ kernel \in Seq(Events)
      /\ files \in Snapshots /\ cgroup \in ResourceSnapshot
      /\ work \in [running : BOOLEAN, stray : BOOLEAN] /\ writes \in Seq([step : Nat, path : PathSet])
  BY <1>q DEF TraceTypes
<1>b. Len(stream.events) <= ChannelSize /\ ChannelSize \in Nat
  BY <1>q DEF Bounds
<1>m. control.queue \in Seq(Commands) /\ stream.events \in Seq(TraceFrames) /\ Len(stream.events) \in Nat
      /\ (writes = <<>> => DOMAIN writes = {})
  BY <1>y DEF StreamStates
<1>k. Len(Steps) \in Nat /\ Len(Steps) >= 1
  BY TraceAssumption
<1>n. /\ ctl.step \in Nat /\ ctl.windowSequence \in Nat /\ cmp.preChecks \in Nat /\ cmp.confirmedDispatches \in Nat
      /\ Len(Steps) \in Nat /\ Len(Steps) >= 1
  BY <1>y, <1>k DEF ControllerStates, ComparisonStates
<1>u. UNCHANGED <<mode, helper, kernel, files, writes>>
  BY <1>0 DEF AbortGivesUp, observed, sandbox
<1>f. /\ (Python' <=> Python) /\ (Started' <=> Started) /\ (Live' <=> Live) /\ (Poisoned' <=> Poisoned)
      /\ Heard' = Heard /\ Written' = Written /\ Tree(files)' = Tree(files) /\ (TreeClosed' <=> TreeClosed)
      /\ (eligible' <=> eligible) /\ PathsOf(helper.seen)' = PathsOf(helper.seen)
      /\ (\A w : (Recorded(w)' <=> Recorded(w)) /\ (Waits(w)' <=> Waits(w)))
      /\ (\A phase : RulesOf(phase)' = RulesOf(phase)) /\ (eligible => Python)
  BY <1>u, ControllerFrame DEF eligible, Python
<1>x. TRUE
  OBVIOUS
<1>1. /\ UNCHANGED <<mode, kernel, files, writes, helper, cmp, filesystem, engine, resource, control, stream, cgroup, work>>
      /\ ctl' = [ctl EXCEPT !.abandoned = TRUE]
  BY <1>0 DEF AbortGivesUp, observed, sandbox, abort, AfterMark, FirstFailure
<1>2. ctl' \in ControllerStates /\ ctl'.pc = ctl.pc /\ ctl'.step = ctl.step /\ ctl'.session = ctl.session /\ ctl'.windowSequence = ctl.windowSequence /\ ctl'.finalReady = ctl.finalReady /\ ctl'.phaseSignalsComplete = ctl.phaseSignalsComplete /\ ctl'.result = ctl.result /\ ctl'.failure = ctl.failure /\ ctl'.broken = ctl.broken
  BY <1>1, <1>y, <1>n, <1>m, <1>x, TraceFrameTypes DEF ControllerStates, Stages, Early, Late, Talking, TraceFailures
<1>3. TraceTypes'
  BY <1>1, <1>2, <1>y DEF TraceTypes
<1>4. (Good' => Good) /\ (Clean' => Clean)
  BY <1>1, <1>2, <1>f DEF Good, Clean, Early
<1>5. Progress'
  BY <1>1, <1>2, <1>4, <1>q, <1>n, <1>m, <1>f DEF Progress, Quiet, Good, Early, Late, AfterMark
<1>6. HelperStaged'
  BY <1>1, <1>2, <1>4, <1>q, <1>n, <1>m, <1>f DEF HelperStaged, Exchange
<1>7. Commanded'
  BY <1>1, <1>2, <1>4, <1>q, <1>n, <1>m, <1>f DEF Commanded
<1>8. Exchange'
  BY <1>1, <1>2, <1>4, <1>q, <1>n, <1>m, <1>f DEF Exchange, Progress, Good, Early, Late, Talking, PhaseCommand, CurrentPhase, AfterMark, HelperStaged
<1>9. Whole'
  BY <1>1, <1>2, <1>4, <1>q, <1>n, <1>m, <1>f DEF Whole
<1>10. Compared'
  BY <1>1, <1>2, <1>4, <1>q, <1>n, <1>m, <1>f DEF Compared, Clean, Good, Progress, Exchange, Quiet, Early, Late, CurrentPhase, AfterMark
<1>11. Granted'
  BY <1>1, <1>2, <1>4, <1>q, <1>n, <1>m, <1>f DEF Granted, Clean, Good, Early, Late, Progress
<1>12. Changed'
  BY <1>1, <1>2, <1>4, <1>q, <1>n, <1>m, <1>f DEF Changed
<1>13. Limits'
  BY <1>1, <1>2, <1>4, <1>q, <1>n, <1>m, <1>f DEF Limits, Early, Late, Talking, AfterMark, Progress
<1>14. Bounds'
  BY <1>1, <1>2, <1>4, <1>q, <1>n, <1>m, <1>f DEF Bounds, Early, Late, Talking, AfterMark, Progress
<1>15. Testimony'
  <2>1. Python /\ Good' /\ ctl.pc \in Late \cup {"done"} => ctl'.pc \in Late \cup {"done"}
    BY <1>1, <1>2 DEF Late
  <2>2. \A f : Testified(f) => Testified(f)'
    BY <2>1, <1>1, <1>2, <1>4, <1>f DEF Testified
  <2>4. \A f : ctl'.result = f /\ Testified(f)' => Testified(ctl.result)'
    BY DEF Testified
  <2>5. \A f : f = NoResult => Testified(f)'
    BY TraceFrameTypes DEF Testified
  <2>6. \A f : f = ctl.result => Testified(f)'
    BY <2>2, <1>q DEF Testimony
  <2>7. ctl'.result = ctl.result \/ ctl'.result = NoResult
    BY <1>1, <1>2
  <2>3. Testified(ctl.result)'
    BY <2>4, <2>6, <2>5, <2>7
  <2> QED BY <2>2, <2>3, <1>1, <1>2, <1>q, TraceFrameTypes DEF Testimony, Progress
<1> QED BY <1>3, <1>5, <1>6, <1>7, <1>8, <1>9, <1>10, <1>11, <1>12, <1>13, <1>14, <1>15, <1>q, <1>f DEF TraceInv

LEMMA AwaitReadyKeeps ==
  ASSUME TraceInv, NEW inTime \in BOOLEAN, AwaitReady(inTime)
  PROVE  TraceInv'
<1> USE TraceAssumption, ChannelSizeAssumption
<1>0. AwaitReady(inTime)
  OBVIOUS
<1>q. /\ TraceTypes /\ Progress /\ HelperStaged /\ Commanded /\ Exchange /\ TreeClosed /\ Whole
      /\ Compared /\ Granted /\ Changed /\ Testimony /\ Limits /\ Bounds
  BY DEF TraceInv
<1>y. /\ mode \in Modes /\ ctl \in ControllerStates /\ cmp \in ComparisonStates
      /\ filesystem \in FilesystemStates /\ engine \in EngineStates /\ resource \in ResourceStates
      /\ control \in [queue : Seq(Commands), closed : BOOLEAN]
      /\ stream \in StreamStates(TraceFrames) /\ helper \in HelperStates /\ kernel \in Seq(Events)
      /\ files \in Snapshots /\ cgroup \in ResourceSnapshot
      /\ work \in [running : BOOLEAN, stray : BOOLEAN] /\ writes \in Seq([step : Nat, path : PathSet])
  BY <1>q DEF TraceTypes
<1>b. Len(stream.events) <= ChannelSize /\ ChannelSize \in Nat
  BY <1>q DEF Bounds
<1>m. control.queue \in Seq(Commands) /\ stream.events \in Seq(TraceFrames) /\ Len(stream.events) \in Nat
      /\ (writes = <<>> => DOMAIN writes = {})
  BY <1>y DEF StreamStates
<1>k. Len(Steps) \in Nat /\ Len(Steps) >= 1
  BY TraceAssumption
<1>n. /\ ctl.step \in Nat /\ ctl.windowSequence \in Nat /\ cmp.preChecks \in Nat /\ cmp.confirmedDispatches \in Nat
      /\ Len(Steps) \in Nat /\ Len(Steps) >= 1
  BY <1>y, <1>k DEF ControllerStates, ComparisonStates
<1>t. stream.events # <<>> =>
        /\ TakeFrame(stream) \in StreamStates(TraceFrames) /\ Head(stream.events) \in TraceFrames
        /\ Head(stream.events) = stream.events[1] /\ 1 \in DOMAIN stream.events
        /\ Len(TakeFrame(stream).events) = Len(stream.events) - 1
        /\ Len(stream.events) \in Nat \ {0}
        /\ (Len(stream.events) <= 1 => TakeFrame(stream).events = <<>>)
        /\ \A i \in DOMAIN TakeFrame(stream).events :
             \E j \in DOMAIN stream.events : TakeFrame(stream).events[i] = stream.events[j]
  <2>1. ASSUME stream.events # <<>>
        PROVE  /\ TakeFrame(stream) \in StreamStates(TraceFrames) /\ Head(stream.events) \in TraceFrames
               /\ Head(stream.events) = stream.events[1] /\ 1 \in DOMAIN stream.events
               /\ TakeFrame(stream).events = Tail(stream.events)
               /\ \A i \in DOMAIN TakeFrame(stream).events :
                    \E j \in DOMAIN stream.events : TakeFrame(stream).events[i] = stream.events[j]
    BY <2>1, <1>y, TakeFrameShrinks
  <2>2. stream.events # <<>> =>
          /\ Len(stream.events) \in Nat \ {0} /\ Len(Tail(stream.events)) = Len(stream.events) - 1
          /\ (Len(stream.events) <= 1 => Tail(stream.events) = <<>>)
    BY <1>m
  <2> QED BY <2>1, <2>2
<1>u. UNCHANGED <<mode, helper, kernel, files, writes>>
  BY <1>0 DEF AwaitReady, Taken, Expired, observed, sandbox
<1>f. /\ (Python' <=> Python) /\ (Started' <=> Started) /\ (Live' <=> Live) /\ (Poisoned' <=> Poisoned)
      /\ Heard' = Heard /\ Written' = Written /\ Tree(files)' = Tree(files) /\ (TreeClosed' <=> TreeClosed)
      /\ (eligible' <=> eligible) /\ PathsOf(helper.seen)' = PathsOf(helper.seen)
      /\ (\A w : (Recorded(w)' <=> Recorded(w)) /\ (Waits(w)' <=> Waits(w)))
      /\ (\A phase : RulesOf(phase)' = RulesOf(phase)) /\ (eligible => Python)
  BY <1>u, ControllerFrame DEF eligible, Python
<1>x. TRUE
  OBVIOUS
<1>1. CASE stream' = TakeFrame(stream) /\ stream.events # <<>> /\ Head(stream.events) = ReadyFrame /\ ctl' = [ctl EXCEPT !.pc = "readyIdentity", !.session = TRUE, !.ready = TRUE] /\ control' = control
  <2>1. /\ ctl.pc = "awaitReady" /\ stream.events # <<>> /\ Head(stream.events) = ReadyFrame
        /\ UNCHANGED <<mode, kernel, files, writes, helper, cmp, filesystem, engine, resource, control, cgroup, work>>
        /\ ctl' = [ctl EXCEPT !.pc = "readyIdentity", !.session = TRUE, !.ready = TRUE]
        /\ stream' = TakeFrame(stream)
    BY <1>1, <1>0 DEF AwaitReady, Taken, Expired, observed, sandbox, abort, AfterMark, FirstFailure
  <2>2. ctl' \in ControllerStates /\ ctl'.pc = "readyIdentity" /\ ctl'.step = ctl.step /\ ctl'.session = TRUE /\ ctl'.windowSequence = ctl.windowSequence /\ ctl'.finalReady = ctl.finalReady /\ ctl'.phaseSignalsComplete = ctl.phaseSignalsComplete /\ ctl'.result = ctl.result /\ ctl'.failure = ctl.failure /\ ctl'.broken = ctl.broken
    BY <2>1, <1>y, <1>n, <1>m, <1>t, <1>x, TraceFrameTypes DEF ControllerStates, Stages, Early, Late, Talking, TraceFailures
  <2>3. /\ stream' \in StreamStates(TraceFrames) /\ (Len(stream.events) <= 1 => stream'.events = <<>>)
        /\ Len(stream'.events) <= Len(stream.events) /\ Len(stream'.events) \in Nat
        /\ \A i \in DOMAIN stream'.events : \E j \in DOMAIN stream.events : stream'.events[i] = stream.events[j]
    BY <2>1, <1>t
  <2>4. Len(stream'.events) <= ChannelSize
    BY <2>3, <1>m, <1>b, Below
  <2>5. TraceTypes'
    BY <2>1, <2>2, <2>3, <2>4, <1>y DEF TraceTypes
  <2>6. (Good' => Good) /\ (Clean' => Clean)
    BY <2>1, <2>2, <2>3, <2>4, <1>f DEF Good, Clean, Early
  <2>7. Progress'
    BY <2>1, <2>2, <2>3, <2>4, <2>6, <1>q, <1>n, <1>m, <1>f, <1>t DEF Progress, Quiet, Good, Early, Late, AfterMark
  <2>8. HelperStaged'
    BY <2>1, <2>2, <2>3, <2>4, <2>6, <1>q, <1>n, <1>m, <1>f, <1>t DEF HelperStaged, Exchange
  <2>9. Commanded'
    BY <2>1, <2>2, <2>3, <2>4, <2>6, <1>q, <1>n, <1>m, <1>f DEF Commanded
  <2>10. Exchange'
    BY <2>1, <2>2, <2>3, <2>4, <2>6, <1>q, <1>n, <1>m, <1>f, <1>t DEF Exchange, Progress, Good, Early, Late, Talking, PhaseCommand, CurrentPhase, AfterMark, HelperStaged
  <2>11. Whole'
    BY <2>1, <2>2, <2>3, <2>4, <2>6, <1>q, <1>n, <1>m, <1>f DEF Whole
  <2>12. Compared'
    BY <2>1, <2>2, <2>3, <2>4, <2>6, <1>q, <1>n, <1>m, <1>f DEF Compared, Clean, Good, Progress, Exchange, Quiet, Early, Late, CurrentPhase, AfterMark
  <2>13. Granted'
    BY <2>1, <2>2, <2>3, <2>4, <2>6, <1>q, <1>n, <1>m, <1>f DEF Granted, Clean, Good, Early, Late, Progress
  <2>14. Changed'
    BY <2>1, <2>2, <2>3, <2>4, <2>6, <1>q, <1>n, <1>m, <1>f DEF Changed
  <2>15. Limits'
    BY <2>1, <2>2, <2>3, <2>4, <2>6, <1>q, <1>n, <1>m, <1>f DEF Limits, Early, Late, Talking, AfterMark, Progress
  <2>16. Bounds'
    BY <2>1, <2>2, <2>3, <2>4, <2>6, <1>q, <1>n, <1>m, <1>f DEF Bounds, Early, Late, Talking, AfterMark, Progress
  <2>17. Testimony'
    <3>1. Python /\ Good' /\ ctl.pc \in Late \cup {"done"} => ctl'.pc \in Late \cup {"done"}
      BY <2>1, <2>2, <2>3, <2>4 DEF Late
    <3>2. \A f : Testified(f) => Testified(f)'
      BY <3>1, <2>1, <2>2, <2>3, <2>4, <2>6, <1>f DEF Testified
    <3>3. \A i \in DOMAIN stream'.events : Testified(stream.events[i])'
      BY <3>2, <2>1, <2>2, <2>3, <2>4, <1>q DEF Testimony
    <3>4. \A f : ctl'.result = f /\ Testified(f)' => Testified(ctl.result)'
      BY DEF Testified
    <3>5. Testified(Head(stream.events)) /\ Testified(ctl.result)
      BY <1>q, <1>t, <2>1, <2>2, <2>3, <2>4 DEF Testimony
    <3>6. \A f : f = Head(stream.events) \/ f = ctl.result => Testified(f)'
      BY <3>2, <3>5
    <3>7. Testified(ctl.result)'
      BY <3>4, <3>6, <2>1, <2>2, <2>3, <2>4
    <3> QED BY <3>3, <3>7, <2>1, <2>2, <2>3, <2>4, <1>q, TraceFrameTypes DEF Testimony, Progress, decodedFinal, decodedFailed
  <2> QED BY <2>5, <2>7, <2>8, <2>9, <2>10, <2>11, <2>12, <2>13, <2>14, <2>15, <2>16, <2>17, <1>q, <1>f DEF TraceInv
<1>2. CASE stream' = TakeFrame(stream) /\ stream.events # <<>> /\ ctl' = [ctl EXCEPT !.pc = "pre", !.failure = "ready-transport-failed"] /\ control' = abort(control)
  <2>1. /\ ctl.pc = "awaitReady" /\ stream.events # <<>>
        /\ UNCHANGED <<mode, kernel, files, writes, helper, cmp, filesystem, engine, resource, cgroup, work>>
        /\ ctl' = [ctl EXCEPT !.pc = "pre", !.failure = "ready-transport-failed"]
        /\ control' = [control EXCEPT !.closed = TRUE]
        /\ stream' = TakeFrame(stream)
    BY <1>2, <1>0 DEF AwaitReady, Taken, Expired, observed, sandbox, abort, AfterMark, FirstFailure
  <2>2. ctl' \in ControllerStates /\ ctl'.pc = "pre" /\ ctl'.step = ctl.step /\ ctl'.session = ctl.session /\ ctl'.windowSequence = ctl.windowSequence /\ ctl'.finalReady = ctl.finalReady /\ ctl'.phaseSignalsComplete = ctl.phaseSignalsComplete /\ ctl'.result = ctl.result /\ ctl'.failure = "ready-transport-failed" /\ ctl'.broken = ctl.broken
    BY <2>1, <1>y, <1>n, <1>m, <1>t, <1>x, TraceFrameTypes DEF ControllerStates, Stages, Early, Late, Talking, TraceFailures
  <2>3. control' \in [queue : Seq(Commands), closed : BOOLEAN] /\ control'.queue = control.queue /\ control'.closed = TRUE
    BY <2>1, <1>y, <1>n, <1>m, <1>x, TraceFrameTypes
  <2>4. /\ stream' \in StreamStates(TraceFrames) /\ (Len(stream.events) <= 1 => stream'.events = <<>>)
        /\ Len(stream'.events) <= Len(stream.events) /\ Len(stream'.events) \in Nat
        /\ \A i \in DOMAIN stream'.events : \E j \in DOMAIN stream.events : stream'.events[i] = stream.events[j]
    BY <2>1, <1>t
  <2>5. Len(stream'.events) <= ChannelSize
    BY <2>4, <1>m, <1>b, Below
  <2>6. TraceTypes'
    BY <2>1, <2>2, <2>3, <2>4, <2>5, <1>y DEF TraceTypes
  <2>7. (Good' => Good) /\ (Clean' => Clean)
    BY <2>1, <2>2, <2>3, <2>4, <2>5, <1>f DEF Good, Clean, Early
  <2>8. Progress'
    BY <2>1, <2>2, <2>3, <2>4, <2>5, <2>7, <1>q, <1>n, <1>m, <1>f, <1>t DEF Progress, Quiet, Good, Early, Late, AfterMark
  <2>9. HelperStaged'
    BY <2>1, <2>2, <2>3, <2>4, <2>5, <2>7, <1>q, <1>n, <1>m, <1>f, <1>t DEF HelperStaged, Exchange
  <2>10. Commanded'
    BY <2>1, <2>2, <2>3, <2>4, <2>5, <2>7, <1>q, <1>n, <1>m, <1>f DEF Commanded
  <2>11. Exchange'
    BY <2>1, <2>2, <2>3, <2>4, <2>5, <2>7, <1>q, <1>n, <1>m, <1>f, <1>t DEF Exchange, Progress, Good, Early, Late, Talking, PhaseCommand, CurrentPhase, AfterMark, HelperStaged
  <2>12. Whole'
    BY <2>1, <2>2, <2>3, <2>4, <2>5, <2>7, <1>q, <1>n, <1>m, <1>f DEF Whole
  <2>13. Compared'
    BY <2>1, <2>2, <2>3, <2>4, <2>5, <2>7, <1>q, <1>n, <1>m, <1>f DEF Compared, Clean, Good, Progress, Exchange, Quiet, Early, Late, CurrentPhase, AfterMark
  <2>14. Granted'
    BY <2>1, <2>2, <2>3, <2>4, <2>5, <2>7, <1>q, <1>n, <1>m, <1>f DEF Granted, Clean, Good, Early, Late, Progress
  <2>15. Changed'
    BY <2>1, <2>2, <2>3, <2>4, <2>5, <2>7, <1>q, <1>n, <1>m, <1>f DEF Changed
  <2>16. Limits'
    BY <2>1, <2>2, <2>3, <2>4, <2>5, <2>7, <1>q, <1>n, <1>m, <1>f DEF Limits, Early, Late, Talking, AfterMark, Progress
  <2>17. Bounds'
    BY <2>1, <2>2, <2>3, <2>4, <2>5, <2>7, <1>q, <1>n, <1>m, <1>f DEF Bounds, Early, Late, Talking, AfterMark, Progress
  <2>18. Testimony'
    <3>1. Python /\ Good' /\ ctl.pc \in Late \cup {"done"} => ctl'.pc \in Late \cup {"done"}
      BY <2>1, <2>2, <2>3, <2>4, <2>5 DEF Late
    <3>2. \A f : Testified(f) => Testified(f)'
      BY <3>1, <2>1, <2>2, <2>3, <2>4, <2>5, <2>7, <1>f DEF Testified
    <3>3. \A i \in DOMAIN stream'.events : Testified(stream.events[i])'
      BY <3>2, <2>1, <2>2, <2>3, <2>4, <2>5, <1>q DEF Testimony
    <3>4. \A f : ctl'.result = f /\ Testified(f)' => Testified(ctl.result)'
      BY DEF Testified
    <3>5. Testified(Head(stream.events)) /\ Testified(ctl.result)
      BY <1>q, <1>t, <2>1, <2>2, <2>3, <2>4, <2>5 DEF Testimony
    <3>6. \A f : f = Head(stream.events) \/ f = ctl.result => Testified(f)'
      BY <3>2, <3>5
    <3>7. Testified(ctl.result)'
      BY <3>4, <3>6, <2>1, <2>2, <2>3, <2>4, <2>5
    <3> QED BY <3>3, <3>7, <2>1, <2>2, <2>3, <2>4, <2>5, <1>q, TraceFrameTypes DEF Testimony, Progress, decodedFinal, decodedFailed
  <2> QED BY <2>6, <2>8, <2>9, <2>10, <2>11, <2>12, <2>13, <2>14, <2>15, <2>16, <2>17, <2>18, <1>q, <1>f DEF TraceInv
<1>3. CASE stream' = stream /\ ctl' = [ctl EXCEPT !.pc = "pre", !.failure = "ready-transport-failed"] /\ control' = abort(control)
  <2>1. /\ ctl.pc = "awaitReady"
        /\ UNCHANGED <<mode, kernel, files, writes, helper, cmp, filesystem, engine, resource, stream, cgroup, work>>
        /\ ctl' = [ctl EXCEPT !.pc = "pre", !.failure = "ready-transport-failed"]
        /\ control' = [control EXCEPT !.closed = TRUE]
    BY <1>3, <1>0 DEF AwaitReady, Taken, Expired, observed, sandbox, abort, AfterMark, FirstFailure
  <2>2. ctl' \in ControllerStates /\ ctl'.pc = "pre" /\ ctl'.step = ctl.step /\ ctl'.session = ctl.session /\ ctl'.windowSequence = ctl.windowSequence /\ ctl'.finalReady = ctl.finalReady /\ ctl'.phaseSignalsComplete = ctl.phaseSignalsComplete /\ ctl'.result = ctl.result /\ ctl'.failure = "ready-transport-failed" /\ ctl'.broken = ctl.broken
    BY <2>1, <1>y, <1>n, <1>m, <1>x, TraceFrameTypes DEF ControllerStates, Stages, Early, Late, Talking, TraceFailures
  <2>3. control' \in [queue : Seq(Commands), closed : BOOLEAN] /\ control'.queue = control.queue /\ control'.closed = TRUE
    BY <2>1, <1>y, <1>n, <1>m, <1>x, TraceFrameTypes
  <2>4. TraceTypes'
    BY <2>1, <2>2, <2>3, <1>y DEF TraceTypes
  <2>5. (Good' => Good) /\ (Clean' => Clean)
    BY <2>1, <2>2, <2>3, <1>f DEF Good, Clean, Early
  <2>6. Progress'
    BY <2>1, <2>2, <2>3, <2>5, <1>q, <1>n, <1>m, <1>f DEF Progress, Quiet, Good, Early, Late, AfterMark
  <2>7. HelperStaged'
    BY <2>1, <2>2, <2>3, <2>5, <1>q, <1>n, <1>m, <1>f DEF HelperStaged, Exchange
  <2>8. Commanded'
    BY <2>1, <2>2, <2>3, <2>5, <1>q, <1>n, <1>m, <1>f DEF Commanded
  <2>9. Exchange'
    BY <2>1, <2>2, <2>3, <2>5, <1>q, <1>n, <1>m, <1>f DEF Exchange, Progress, Good, Early, Late, Talking, PhaseCommand, CurrentPhase, AfterMark, HelperStaged
  <2>10. Whole'
    BY <2>1, <2>2, <2>3, <2>5, <1>q, <1>n, <1>m, <1>f DEF Whole
  <2>11. Compared'
    BY <2>1, <2>2, <2>3, <2>5, <1>q, <1>n, <1>m, <1>f DEF Compared, Clean, Good, Progress, Exchange, Quiet, Early, Late, CurrentPhase, AfterMark
  <2>12. Granted'
    BY <2>1, <2>2, <2>3, <2>5, <1>q, <1>n, <1>m, <1>f DEF Granted, Clean, Good, Early, Late, Progress
  <2>13. Changed'
    BY <2>1, <2>2, <2>3, <2>5, <1>q, <1>n, <1>m, <1>f DEF Changed
  <2>14. Limits'
    BY <2>1, <2>2, <2>3, <2>5, <1>q, <1>n, <1>m, <1>f DEF Limits, Early, Late, Talking, AfterMark, Progress
  <2>15. Bounds'
    BY <2>1, <2>2, <2>3, <2>5, <1>q, <1>n, <1>m, <1>f DEF Bounds, Early, Late, Talking, AfterMark, Progress
  <2>16. Testimony'
    <3>1. Python /\ Good' /\ ctl.pc \in Late \cup {"done"} => ctl'.pc \in Late \cup {"done"}
      BY <2>1, <2>2, <2>3 DEF Late
    <3>2. \A f : Testified(f) => Testified(f)'
      BY <3>1, <2>1, <2>2, <2>3, <2>5, <1>f DEF Testified
    <3>4. \A f : ctl'.result = f /\ Testified(f)' => Testified(ctl.result)'
      BY DEF Testified
    <3>5. \A f : f = NoResult => Testified(f)'
      BY TraceFrameTypes DEF Testified
    <3>6. \A f : f = ctl.result => Testified(f)'
      BY <3>2, <1>q DEF Testimony
    <3>7. ctl'.result = ctl.result \/ ctl'.result = NoResult
      BY <2>1, <2>2, <2>3
    <3>3. Testified(ctl.result)'
      BY <3>4, <3>6, <3>5, <3>7
    <3> QED BY <3>2, <3>3, <2>1, <2>2, <2>3, <1>q, TraceFrameTypes DEF Testimony, Progress
  <2> QED BY <2>4, <2>6, <2>7, <2>8, <2>9, <2>10, <2>11, <2>12, <2>13, <2>14, <2>15, <2>16, <1>q, <1>f DEF TraceInv
<1> QED BY <1>0, <1>1, <1>2, <1>3 DEF AwaitReady, Taken, Expired

LEMMA ReadyIdentityKeeps ==
  ASSUME TraceInv, NEW identity \in BOOLEAN, ReadyIdentity(identity)
  PROVE  TraceInv'
<1> USE TraceAssumption, ChannelSizeAssumption
<1>0. ReadyIdentity(identity)
  OBVIOUS
<1>q. /\ TraceTypes /\ Progress /\ HelperStaged /\ Commanded /\ Exchange /\ TreeClosed /\ Whole
      /\ Compared /\ Granted /\ Changed /\ Testimony /\ Limits /\ Bounds
  BY DEF TraceInv
<1>y. /\ mode \in Modes /\ ctl \in ControllerStates /\ cmp \in ComparisonStates
      /\ filesystem \in FilesystemStates /\ engine \in EngineStates /\ resource \in ResourceStates
      /\ control \in [queue : Seq(Commands), closed : BOOLEAN]
      /\ stream \in StreamStates(TraceFrames) /\ helper \in HelperStates /\ kernel \in Seq(Events)
      /\ files \in Snapshots /\ cgroup \in ResourceSnapshot
      /\ work \in [running : BOOLEAN, stray : BOOLEAN] /\ writes \in Seq([step : Nat, path : PathSet])
  BY <1>q DEF TraceTypes
<1>b. Len(stream.events) <= ChannelSize /\ ChannelSize \in Nat
  BY <1>q DEF Bounds
<1>m. control.queue \in Seq(Commands) /\ stream.events \in Seq(TraceFrames) /\ Len(stream.events) \in Nat
      /\ (writes = <<>> => DOMAIN writes = {})
  BY <1>y DEF StreamStates
<1>k. Len(Steps) \in Nat /\ Len(Steps) >= 1
  BY TraceAssumption
<1>n. /\ ctl.step \in Nat /\ ctl.windowSequence \in Nat /\ cmp.preChecks \in Nat /\ cmp.confirmedDispatches \in Nat
      /\ Len(Steps) \in Nat /\ Len(Steps) >= 1
  BY <1>y, <1>k DEF ControllerStates, ComparisonStates
<1>u. UNCHANGED <<mode, helper, kernel, files, writes>>
  BY <1>0 DEF ReadyIdentity, observed, sandbox
<1>f. /\ (Python' <=> Python) /\ (Started' <=> Started) /\ (Live' <=> Live) /\ (Poisoned' <=> Poisoned)
      /\ Heard' = Heard /\ Written' = Written /\ Tree(files)' = Tree(files) /\ (TreeClosed' <=> TreeClosed)
      /\ (eligible' <=> eligible) /\ PathsOf(helper.seen)' = PathsOf(helper.seen)
      /\ (\A w : (Recorded(w)' <=> Recorded(w)) /\ (Waits(w)' <=> Waits(w)))
      /\ (\A phase : RulesOf(phase)' = RulesOf(phase)) /\ (eligible => Python)
  BY <1>u, ControllerFrame DEF eligible, Python
<1>x. TRUE
  OBVIOUS
<1>1. CASE identity
  <2>1. /\ ctl.pc = "readyIdentity"
        /\ UNCHANGED <<mode, kernel, files, writes, helper, cmp, filesystem, engine, resource, control, stream, cgroup, work>>
        /\ ctl' = [ctl EXCEPT !.pc = "pre", !.readyIdentityVerified = TRUE, !.phaseSignalsComplete = TRUE]
    BY <1>1, <1>0 DEF ReadyIdentity, observed, sandbox, abort, AfterMark, FirstFailure
  <2>2. ctl' \in ControllerStates /\ ctl'.pc = "pre" /\ ctl'.step = ctl.step /\ ctl'.session = ctl.session /\ ctl'.windowSequence = ctl.windowSequence /\ ctl'.finalReady = ctl.finalReady /\ ctl'.phaseSignalsComplete = TRUE /\ ctl'.result = ctl.result /\ ctl'.failure = ctl.failure /\ ctl'.broken = ctl.broken
    BY <2>1, <1>y, <1>n, <1>m, <1>x, TraceFrameTypes DEF ControllerStates, Stages, Early, Late, Talking, TraceFailures
  <2>3. TraceTypes'
    BY <2>1, <2>2, <1>y DEF TraceTypes
  <2>4. (Good' => Good) /\ (Clean' => Clean)
    BY <2>1, <2>2, <1>f DEF Good, Clean, Early
  <2>5. Progress'
    BY <2>1, <2>2, <2>4, <1>q, <1>n, <1>m, <1>f DEF Progress, Quiet, Good, Early, Late, AfterMark
  <2>6. HelperStaged'
    BY <2>1, <2>2, <2>4, <1>q, <1>n, <1>m, <1>f DEF HelperStaged, Exchange
  <2>7. Commanded'
    BY <2>1, <2>2, <2>4, <1>q, <1>n, <1>m, <1>f DEF Commanded
  <2>8. Exchange'
    BY <2>1, <2>2, <2>4, <1>q, <1>n, <1>m, <1>f DEF Exchange, Progress, Good, Early, Late, Talking, PhaseCommand, CurrentPhase, AfterMark, HelperStaged
  <2>9. Whole'
    BY <2>1, <2>2, <2>4, <1>q, <1>n, <1>m, <1>f DEF Whole
  <2>10. Compared'
    BY <2>1, <2>2, <2>4, <1>q, <1>n, <1>m, <1>f DEF Compared, Clean, Good, Progress, Exchange, Quiet, Early, Late, CurrentPhase, AfterMark
  <2>11. Granted'
    BY <2>1, <2>2, <2>4, <1>q, <1>n, <1>m, <1>f DEF Granted, Clean, Good, Early, Late, Progress
  <2>12. Changed'
    BY <2>1, <2>2, <2>4, <1>q, <1>n, <1>m, <1>f DEF Changed
  <2>13. Limits'
    BY <2>1, <2>2, <2>4, <1>q, <1>n, <1>m, <1>f DEF Limits, Early, Late, Talking, AfterMark, Progress
  <2>14. Bounds'
    BY <2>1, <2>2, <2>4, <1>q, <1>n, <1>m, <1>f DEF Bounds, Early, Late, Talking, AfterMark, Progress
  <2>15. Testimony'
    <3>1. Python /\ Good' /\ ctl.pc \in Late \cup {"done"} => ctl'.pc \in Late \cup {"done"}
      BY <2>1, <2>2 DEF Late
    <3>2. \A f : Testified(f) => Testified(f)'
      BY <3>1, <2>1, <2>2, <2>4, <1>f DEF Testified
    <3>4. \A f : ctl'.result = f /\ Testified(f)' => Testified(ctl.result)'
      BY DEF Testified
    <3>5. \A f : f = NoResult => Testified(f)'
      BY TraceFrameTypes DEF Testified
    <3>6. \A f : f = ctl.result => Testified(f)'
      BY <3>2, <1>q DEF Testimony
    <3>7. ctl'.result = ctl.result \/ ctl'.result = NoResult
      BY <2>1, <2>2
    <3>3. Testified(ctl.result)'
      BY <3>4, <3>6, <3>5, <3>7
    <3> QED BY <3>2, <3>3, <2>1, <2>2, <1>q, TraceFrameTypes DEF Testimony, Progress
  <2> QED BY <2>3, <2>5, <2>6, <2>7, <2>8, <2>9, <2>10, <2>11, <2>12, <2>13, <2>14, <2>15, <1>q, <1>f DEF TraceInv
<1>2. CASE ~identity
  <2>1. /\ ctl.pc = "readyIdentity"
        /\ UNCHANGED <<mode, kernel, files, writes, helper, cmp, filesystem, engine, resource, stream, cgroup, work>>
        /\ ctl' = [ctl EXCEPT !.pc = "pre", !.session = FALSE, !.ready = FALSE, !.failure = "ready-container-identity-failed"]
        /\ control' = [control EXCEPT !.closed = TRUE]
    BY <1>2, <1>0 DEF ReadyIdentity, observed, sandbox, abort, AfterMark, FirstFailure
  <2>2. ctl' \in ControllerStates /\ ctl'.pc = "pre" /\ ctl'.step = ctl.step /\ ctl'.session = FALSE /\ ctl'.windowSequence = ctl.windowSequence /\ ctl'.finalReady = ctl.finalReady /\ ctl'.phaseSignalsComplete = ctl.phaseSignalsComplete /\ ctl'.result = ctl.result /\ ctl'.failure = "ready-container-identity-failed" /\ ctl'.broken = ctl.broken
    BY <2>1, <1>y, <1>n, <1>m, <1>x, TraceFrameTypes DEF ControllerStates, Stages, Early, Late, Talking, TraceFailures
  <2>3. control' \in [queue : Seq(Commands), closed : BOOLEAN] /\ control'.queue = control.queue /\ control'.closed = TRUE
    BY <2>1, <1>y, <1>n, <1>m, <1>x, TraceFrameTypes
  <2>4. TraceTypes'
    BY <2>1, <2>2, <2>3, <1>y DEF TraceTypes
  <2>5. (Good' => Good) /\ (Clean' => Clean)
    BY <2>1, <2>2, <2>3, <1>f DEF Good, Clean, Early
  <2>6. Progress'
    BY <2>1, <2>2, <2>3, <2>5, <1>q, <1>n, <1>m, <1>f DEF Progress, Quiet, Good, Early, Late, AfterMark
  <2>7. HelperStaged'
    BY <2>1, <2>2, <2>3, <2>5, <1>q, <1>n, <1>m, <1>f DEF HelperStaged, Exchange
  <2>8. Commanded'
    BY <2>1, <2>2, <2>3, <2>5, <1>q, <1>n, <1>m, <1>f DEF Commanded
  <2>9. Exchange'
    BY <2>1, <2>2, <2>3, <2>5, <1>q, <1>n, <1>m, <1>f DEF Exchange, Progress, Good, Early, Late, Talking, PhaseCommand, CurrentPhase, AfterMark, HelperStaged
  <2>10. Whole'
    BY <2>1, <2>2, <2>3, <2>5, <1>q, <1>n, <1>m, <1>f DEF Whole
  <2>11. Compared'
    BY <2>1, <2>2, <2>3, <2>5, <1>q, <1>n, <1>m, <1>f DEF Compared, Clean, Good, Progress, Exchange, Quiet, Early, Late, CurrentPhase, AfterMark
  <2>12. Granted'
    BY <2>1, <2>2, <2>3, <2>5, <1>q, <1>n, <1>m, <1>f DEF Granted, Clean, Good, Early, Late, Progress
  <2>13. Changed'
    BY <2>1, <2>2, <2>3, <2>5, <1>q, <1>n, <1>m, <1>f DEF Changed
  <2>14. Limits'
    BY <2>1, <2>2, <2>3, <2>5, <1>q, <1>n, <1>m, <1>f DEF Limits, Early, Late, Talking, AfterMark, Progress
  <2>15. Bounds'
    BY <2>1, <2>2, <2>3, <2>5, <1>q, <1>n, <1>m, <1>f DEF Bounds, Early, Late, Talking, AfterMark, Progress
  <2>16. Testimony'
    <3>1. Python /\ Good' /\ ctl.pc \in Late \cup {"done"} => ctl'.pc \in Late \cup {"done"}
      BY <2>1, <2>2, <2>3 DEF Late
    <3>2. \A f : Testified(f) => Testified(f)'
      BY <3>1, <2>1, <2>2, <2>3, <2>5, <1>f DEF Testified
    <3>4. \A f : ctl'.result = f /\ Testified(f)' => Testified(ctl.result)'
      BY DEF Testified
    <3>5. \A f : f = NoResult => Testified(f)'
      BY TraceFrameTypes DEF Testified
    <3>6. \A f : f = ctl.result => Testified(f)'
      BY <3>2, <1>q DEF Testimony
    <3>7. ctl'.result = ctl.result \/ ctl'.result = NoResult
      BY <2>1, <2>2, <2>3
    <3>3. Testified(ctl.result)'
      BY <3>4, <3>6, <3>5, <3>7
    <3> QED BY <3>2, <3>3, <2>1, <2>2, <2>3, <1>q, TraceFrameTypes DEF Testimony, Progress
  <2> QED BY <2>4, <2>6, <2>7, <2>8, <2>9, <2>10, <2>11, <2>12, <2>13, <2>14, <2>15, <2>16, <1>q, <1>f DEF TraceInv
<1> QED BY <1>0, <1>1, <1>2 DEF ReadyIdentity

LEMMA DispatchKeeps ==
  ASSUME TraceInv, Dispatch
  PROVE  TraceInv'
<1> USE TraceAssumption, ChannelSizeAssumption
<1>0. Dispatch
  OBVIOUS
<1>q. /\ TraceTypes /\ Progress /\ HelperStaged /\ Commanded /\ Exchange /\ TreeClosed /\ Whole
      /\ Compared /\ Granted /\ Changed /\ Testimony /\ Limits /\ Bounds
  BY DEF TraceInv
<1>y. /\ mode \in Modes /\ ctl \in ControllerStates /\ cmp \in ComparisonStates
      /\ filesystem \in FilesystemStates /\ engine \in EngineStates /\ resource \in ResourceStates
      /\ control \in [queue : Seq(Commands), closed : BOOLEAN]
      /\ stream \in StreamStates(TraceFrames) /\ helper \in HelperStates /\ kernel \in Seq(Events)
      /\ files \in Snapshots /\ cgroup \in ResourceSnapshot
      /\ work \in [running : BOOLEAN, stray : BOOLEAN] /\ writes \in Seq([step : Nat, path : PathSet])
  BY <1>q DEF TraceTypes
<1>b. Len(stream.events) <= ChannelSize /\ ChannelSize \in Nat
  BY <1>q DEF Bounds
<1>m. control.queue \in Seq(Commands) /\ stream.events \in Seq(TraceFrames) /\ Len(stream.events) \in Nat
      /\ (writes = <<>> => DOMAIN writes = {})
  BY <1>y DEF StreamStates
<1>k. Len(Steps) \in Nat /\ Len(Steps) >= 1
  BY TraceAssumption
<1>n. /\ ctl.step \in Nat /\ ctl.windowSequence \in Nat /\ cmp.preChecks \in Nat /\ cmp.confirmedDispatches \in Nat
      /\ Len(Steps) \in Nat /\ Len(Steps) >= 1
  BY <1>y, <1>k DEF ControllerStates, ComparisonStates
<1>u. UNCHANGED <<mode, helper, kernel, files, writes>>
  BY <1>0 DEF Dispatch, observed, sandbox
<1>f. /\ (Python' <=> Python) /\ (Started' <=> Started) /\ (Live' <=> Live) /\ (Poisoned' <=> Poisoned)
      /\ Heard' = Heard /\ Written' = Written /\ Tree(files)' = Tree(files) /\ (TreeClosed' <=> TreeClosed)
      /\ (eligible' <=> eligible) /\ PathsOf(helper.seen)' = PathsOf(helper.seen)
      /\ (\A w : (Recorded(w)' <=> Recorded(w)) /\ (Waits(w)' <=> Waits(w)))
      /\ (\A phase : RulesOf(phase)' = RulesOf(phase)) /\ (eligible => Python)
  BY <1>u, ControllerFrame DEF eligible, Python
<1>x. TRUE
  OBVIOUS
<1>1. /\ ctl.pc = "dispatch"
      /\ UNCHANGED <<mode, kernel, files, writes, helper, cmp, filesystem, engine, resource, control, stream, cgroup>>
      /\ ctl' = [ctl EXCEPT !.pc = "running"]
      /\ work' = [work EXCEPT !.running = TRUE]
  BY <1>0 DEF Dispatch, observed, sandbox, abort, AfterMark, FirstFailure
<1>2. ctl' \in ControllerStates /\ ctl'.pc = "running" /\ ctl'.step = ctl.step /\ ctl'.session = ctl.session /\ ctl'.windowSequence = ctl.windowSequence /\ ctl'.finalReady = ctl.finalReady /\ ctl'.phaseSignalsComplete = ctl.phaseSignalsComplete /\ ctl'.result = ctl.result /\ ctl'.failure = ctl.failure /\ ctl'.broken = ctl.broken
  BY <1>1, <1>y, <1>n, <1>m, <1>x, TraceFrameTypes DEF ControllerStates, Stages, Early, Late, Talking, TraceFailures
<1>3. work' \in [running : BOOLEAN, stray : BOOLEAN] /\ work'.running /\ work'.stray = work.stray
  BY <1>1, <1>y, <1>n, <1>m, <1>x, TraceFrameTypes
<1>4. TraceTypes'
  BY <1>1, <1>2, <1>3, <1>y DEF TraceTypes
<1>5. (Good' => Good) /\ (Clean' => Clean)
  BY <1>1, <1>2, <1>3, <1>f DEF Good, Clean, Early
<1>6. Progress'
  BY <1>1, <1>2, <1>3, <1>5, <1>q, <1>n, <1>m, <1>f DEF Progress, Quiet, Good, Early, Late, AfterMark
<1>7. HelperStaged'
  BY <1>1, <1>2, <1>3, <1>5, <1>q, <1>n, <1>m, <1>f DEF HelperStaged, Exchange
<1>8. Commanded'
  BY <1>1, <1>2, <1>3, <1>5, <1>q, <1>n, <1>m, <1>f DEF Commanded
<1>9. Exchange'
  BY <1>1, <1>2, <1>3, <1>5, <1>q, <1>n, <1>m, <1>f DEF Exchange, Progress, Good, Early, Late, Talking, PhaseCommand, CurrentPhase, AfterMark, HelperStaged
<1>10. Whole'
  BY <1>1, <1>2, <1>3, <1>5, <1>q, <1>n, <1>m, <1>f DEF Whole
<1>11. Compared'
  BY <1>1, <1>2, <1>3, <1>5, <1>q, <1>n, <1>m, <1>f DEF Compared, Clean, Good, Progress, Exchange, Quiet, Early, Late, CurrentPhase, AfterMark
<1>12. Granted'
  BY <1>1, <1>2, <1>3, <1>5, <1>q, <1>n, <1>m, <1>f DEF Granted, Clean, Good, Early, Late, Progress
<1>13. Changed'
  BY <1>1, <1>2, <1>3, <1>5, <1>q, <1>n, <1>m, <1>f DEF Changed
<1>14. Limits'
  BY <1>1, <1>2, <1>3, <1>5, <1>q, <1>n, <1>m, <1>f DEF Limits, Early, Late, Talking, AfterMark, Progress
<1>15. Bounds'
  BY <1>1, <1>2, <1>3, <1>5, <1>q, <1>n, <1>m, <1>f DEF Bounds, Early, Late, Talking, AfterMark, Progress
<1>16. Testimony'
  <2>1. Python /\ Good' /\ ctl.pc \in Late \cup {"done"} => ctl'.pc \in Late \cup {"done"}
    BY <1>1, <1>2, <1>3 DEF Late
  <2>2. \A f : Testified(f) => Testified(f)'
    BY <2>1, <1>1, <1>2, <1>3, <1>5, <1>f DEF Testified
  <2>4. \A f : ctl'.result = f /\ Testified(f)' => Testified(ctl.result)'
    BY DEF Testified
  <2>5. \A f : f = NoResult => Testified(f)'
    BY TraceFrameTypes DEF Testified
  <2>6. \A f : f = ctl.result => Testified(f)'
    BY <2>2, <1>q DEF Testimony
  <2>7. ctl'.result = ctl.result \/ ctl'.result = NoResult
    BY <1>1, <1>2, <1>3
  <2>3. Testified(ctl.result)'
    BY <2>4, <2>6, <2>5, <2>7
  <2> QED BY <2>2, <2>3, <1>1, <1>2, <1>3, <1>q, TraceFrameTypes DEF Testimony, Progress
<1> QED BY <1>4, <1>6, <1>7, <1>8, <1>9, <1>10, <1>11, <1>12, <1>13, <1>14, <1>15, <1>16, <1>q, <1>f DEF TraceInv

LEMMA FinalIdentityKeeps ==
  ASSUME TraceInv, NEW identity \in BOOLEAN, FinalIdentity(identity)
  PROVE  TraceInv'
<1> USE TraceAssumption, ChannelSizeAssumption
<1>0. FinalIdentity(identity)
  OBVIOUS
<1>q. /\ TraceTypes /\ Progress /\ HelperStaged /\ Commanded /\ Exchange /\ TreeClosed /\ Whole
      /\ Compared /\ Granted /\ Changed /\ Testimony /\ Limits /\ Bounds
  BY DEF TraceInv
<1>y. /\ mode \in Modes /\ ctl \in ControllerStates /\ cmp \in ComparisonStates
      /\ filesystem \in FilesystemStates /\ engine \in EngineStates /\ resource \in ResourceStates
      /\ control \in [queue : Seq(Commands), closed : BOOLEAN]
      /\ stream \in StreamStates(TraceFrames) /\ helper \in HelperStates /\ kernel \in Seq(Events)
      /\ files \in Snapshots /\ cgroup \in ResourceSnapshot
      /\ work \in [running : BOOLEAN, stray : BOOLEAN] /\ writes \in Seq([step : Nat, path : PathSet])
  BY <1>q DEF TraceTypes
<1>b. Len(stream.events) <= ChannelSize /\ ChannelSize \in Nat
  BY <1>q DEF Bounds
<1>m. control.queue \in Seq(Commands) /\ stream.events \in Seq(TraceFrames) /\ Len(stream.events) \in Nat
      /\ (writes = <<>> => DOMAIN writes = {})
  BY <1>y DEF StreamStates
<1>k. Len(Steps) \in Nat /\ Len(Steps) >= 1
  BY TraceAssumption
<1>n. /\ ctl.step \in Nat /\ ctl.windowSequence \in Nat /\ cmp.preChecks \in Nat /\ cmp.confirmedDispatches \in Nat
      /\ Len(Steps) \in Nat /\ Len(Steps) >= 1
  BY <1>y, <1>k DEF ControllerStates, ComparisonStates
<1>u. UNCHANGED <<mode, helper, kernel, files, writes>>
  BY <1>0 DEF FinalIdentity, observed, sandbox
<1>f. /\ (Python' <=> Python) /\ (Started' <=> Started) /\ (Live' <=> Live) /\ (Poisoned' <=> Poisoned)
      /\ Heard' = Heard /\ Written' = Written /\ Tree(files)' = Tree(files) /\ (TreeClosed' <=> TreeClosed)
      /\ (eligible' <=> eligible) /\ PathsOf(helper.seen)' = PathsOf(helper.seen)
      /\ (\A w : (Recorded(w)' <=> Recorded(w)) /\ (Waits(w)' <=> Waits(w)))
      /\ (\A phase : RulesOf(phase)' = RulesOf(phase)) /\ (eligible => Python)
  BY <1>u, ControllerFrame DEF eligible, Python
<1>x. TRUE
  OBVIOUS
<1>1. CASE identity
  <2>1. /\ ctl.pc = "finalIdentity"
        /\ UNCHANGED <<mode, kernel, files, writes, helper, cmp, filesystem, engine, resource, control, stream, cgroup, work>>
        /\ ctl' = [ctl EXCEPT !.pc = "retained", !.finalIdentityVerified = TRUE]
    BY <1>1, <1>0 DEF FinalIdentity, observed, sandbox, abort, AfterMark, FirstFailure
  <2>2. ctl' \in ControllerStates /\ ctl'.pc = "retained" /\ ctl'.step = ctl.step /\ ctl'.session = ctl.session /\ ctl'.windowSequence = ctl.windowSequence /\ ctl'.finalReady = ctl.finalReady /\ ctl'.phaseSignalsComplete = ctl.phaseSignalsComplete /\ ctl'.result = ctl.result /\ ctl'.failure = ctl.failure /\ ctl'.broken = ctl.broken
    BY <2>1, <1>y, <1>n, <1>m, <1>x, TraceFrameTypes DEF ControllerStates, Stages, Early, Late, Talking, TraceFailures
  <2>3. TraceTypes'
    BY <2>1, <2>2, <1>y DEF TraceTypes
  <2>4. (Good' => Good) /\ (Clean' => Clean)
    BY <2>1, <2>2, <1>f DEF Good, Clean, Early
  <2>5. Progress'
    BY <2>1, <2>2, <2>4, <1>q, <1>n, <1>m, <1>f DEF Progress, Quiet, Good, Early, Late, AfterMark
  <2>6. HelperStaged'
    BY <2>1, <2>2, <2>4, <1>q, <1>n, <1>m, <1>f DEF HelperStaged, Exchange
  <2>7. Commanded'
    BY <2>1, <2>2, <2>4, <1>q, <1>n, <1>m, <1>f DEF Commanded
  <2>8. Exchange'
    BY <2>1, <2>2, <2>4, <1>q, <1>n, <1>m, <1>f DEF Exchange, Progress, Good, Early, Late, Talking, PhaseCommand, CurrentPhase, AfterMark, HelperStaged
  <2>9. Whole'
    BY <2>1, <2>2, <2>4, <1>q, <1>n, <1>m, <1>f DEF Whole
  <2>10. Compared'
    BY <2>1, <2>2, <2>4, <1>q, <1>n, <1>m, <1>f DEF Compared, Clean, Good, Progress, Exchange, Quiet, Early, Late, CurrentPhase, AfterMark
  <2>11. Granted'
    BY <2>1, <2>2, <2>4, <1>q, <1>n, <1>m, <1>f DEF Granted, Clean, Good, Early, Late, Progress
  <2>12. Changed'
    BY <2>1, <2>2, <2>4, <1>q, <1>n, <1>m, <1>f DEF Changed
  <2>13. Limits'
    BY <2>1, <2>2, <2>4, <1>q, <1>n, <1>m, <1>f DEF Limits, Early, Late, Talking, AfterMark, Progress
  <2>14. Bounds'
    BY <2>1, <2>2, <2>4, <1>q, <1>n, <1>m, <1>f DEF Bounds, Early, Late, Talking, AfterMark, Progress
  <2>15. Testimony'
    <3>1. Python /\ Good' /\ ctl.pc \in Late \cup {"done"} => ctl'.pc \in Late \cup {"done"}
      BY <2>1, <2>2 DEF Late
    <3>2. \A f : Testified(f) => Testified(f)'
      BY <3>1, <2>1, <2>2, <2>4, <1>f DEF Testified
    <3>4. \A f : ctl'.result = f /\ Testified(f)' => Testified(ctl.result)'
      BY DEF Testified
    <3>5. \A f : f = NoResult => Testified(f)'
      BY TraceFrameTypes DEF Testified
    <3>6. \A f : f = ctl.result => Testified(f)'
      BY <3>2, <1>q DEF Testimony
    <3>7. ctl'.result = ctl.result \/ ctl'.result = NoResult
      BY <2>1, <2>2
    <3>3. Testified(ctl.result)'
      BY <3>4, <3>6, <3>5, <3>7
    <3> QED BY <3>2, <3>3, <2>1, <2>2, <1>q, TraceFrameTypes DEF Testimony, Progress
  <2> QED BY <2>3, <2>5, <2>6, <2>7, <2>8, <2>9, <2>10, <2>11, <2>12, <2>13, <2>14, <2>15, <1>q, <1>f DEF TraceInv
<1>2. CASE ~identity
  <2>1. /\ ctl.pc = "finalIdentity"
        /\ UNCHANGED <<mode, kernel, files, writes, helper, cmp, filesystem, engine, resource, control, stream, cgroup, work>>
        /\ ctl' = [ctl EXCEPT !.pc = "retained", !.failure = "final-container-identity-failed"]
    BY <1>2, <1>0 DEF FinalIdentity, observed, sandbox, abort, AfterMark, FirstFailure
  <2>2. ctl' \in ControllerStates /\ ctl'.pc = "retained" /\ ctl'.step = ctl.step /\ ctl'.session = ctl.session /\ ctl'.windowSequence = ctl.windowSequence /\ ctl'.finalReady = ctl.finalReady /\ ctl'.phaseSignalsComplete = ctl.phaseSignalsComplete /\ ctl'.result = ctl.result /\ ctl'.failure = "final-container-identity-failed" /\ ctl'.broken = ctl.broken
    BY <2>1, <1>y, <1>n, <1>m, <1>x, TraceFrameTypes DEF ControllerStates, Stages, Early, Late, Talking, TraceFailures
  <2>3. TraceTypes'
    BY <2>1, <2>2, <1>y DEF TraceTypes
  <2>4. (Good' => Good) /\ (Clean' => Clean)
    BY <2>1, <2>2, <1>f DEF Good, Clean, Early
  <2>5. Progress'
    BY <2>1, <2>2, <2>4, <1>q, <1>n, <1>m, <1>f DEF Progress, Quiet, Good, Early, Late, AfterMark
  <2>6. HelperStaged'
    BY <2>1, <2>2, <2>4, <1>q, <1>n, <1>m, <1>f DEF HelperStaged, Exchange
  <2>7. Commanded'
    BY <2>1, <2>2, <2>4, <1>q, <1>n, <1>m, <1>f DEF Commanded
  <2>8. Exchange'
    BY <2>1, <2>2, <2>4, <1>q, <1>n, <1>m, <1>f DEF Exchange, Progress, Good, Early, Late, Talking, PhaseCommand, CurrentPhase, AfterMark, HelperStaged
  <2>9. Whole'
    BY <2>1, <2>2, <2>4, <1>q, <1>n, <1>m, <1>f DEF Whole
  <2>10. Compared'
    BY <2>1, <2>2, <2>4, <1>q, <1>n, <1>m, <1>f DEF Compared, Clean, Good, Progress, Exchange, Quiet, Early, Late, CurrentPhase, AfterMark
  <2>11. Granted'
    BY <2>1, <2>2, <2>4, <1>q, <1>n, <1>m, <1>f DEF Granted, Clean, Good, Early, Late, Progress
  <2>12. Changed'
    BY <2>1, <2>2, <2>4, <1>q, <1>n, <1>m, <1>f DEF Changed
  <2>13. Limits'
    BY <2>1, <2>2, <2>4, <1>q, <1>n, <1>m, <1>f DEF Limits, Early, Late, Talking, AfterMark, Progress
  <2>14. Bounds'
    BY <2>1, <2>2, <2>4, <1>q, <1>n, <1>m, <1>f DEF Bounds, Early, Late, Talking, AfterMark, Progress
  <2>15. Testimony'
    <3>1. Python /\ Good' /\ ctl.pc \in Late \cup {"done"} => ctl'.pc \in Late \cup {"done"}
      BY <2>1, <2>2 DEF Late
    <3>2. \A f : Testified(f) => Testified(f)'
      BY <3>1, <2>1, <2>2, <2>4, <1>f DEF Testified
    <3>4. \A f : ctl'.result = f /\ Testified(f)' => Testified(ctl.result)'
      BY DEF Testified
    <3>5. \A f : f = NoResult => Testified(f)'
      BY TraceFrameTypes DEF Testified
    <3>6. \A f : f = ctl.result => Testified(f)'
      BY <3>2, <1>q DEF Testimony
    <3>7. ctl'.result = ctl.result \/ ctl'.result = NoResult
      BY <2>1, <2>2
    <3>3. Testified(ctl.result)'
      BY <3>4, <3>6, <3>5, <3>7
    <3> QED BY <3>2, <3>3, <2>1, <2>2, <1>q, TraceFrameTypes DEF Testimony, Progress
  <2> QED BY <2>3, <2>5, <2>6, <2>7, <2>8, <2>9, <2>10, <2>11, <2>12, <2>13, <2>14, <2>15, <1>q, <1>f DEF TraceInv
<1> QED BY <1>0, <1>1, <1>2 DEF FinalIdentity

LEMMA AwaitExitKeeps ==
  ASSUME TraceInv, NEW inTime \in BOOLEAN, AwaitExit(inTime)
  PROVE  TraceInv'
<1> USE TraceAssumption, ChannelSizeAssumption
<1>0. AwaitExit(inTime)
  OBVIOUS
<1>q. /\ TraceTypes /\ Progress /\ HelperStaged /\ Commanded /\ Exchange /\ TreeClosed /\ Whole
      /\ Compared /\ Granted /\ Changed /\ Testimony /\ Limits /\ Bounds
  BY DEF TraceInv
<1>y. /\ mode \in Modes /\ ctl \in ControllerStates /\ cmp \in ComparisonStates
      /\ filesystem \in FilesystemStates /\ engine \in EngineStates /\ resource \in ResourceStates
      /\ control \in [queue : Seq(Commands), closed : BOOLEAN]
      /\ stream \in StreamStates(TraceFrames) /\ helper \in HelperStates /\ kernel \in Seq(Events)
      /\ files \in Snapshots /\ cgroup \in ResourceSnapshot
      /\ work \in [running : BOOLEAN, stray : BOOLEAN] /\ writes \in Seq([step : Nat, path : PathSet])
  BY <1>q DEF TraceTypes
<1>b. Len(stream.events) <= ChannelSize /\ ChannelSize \in Nat
  BY <1>q DEF Bounds
<1>m. control.queue \in Seq(Commands) /\ stream.events \in Seq(TraceFrames) /\ Len(stream.events) \in Nat
      /\ (writes = <<>> => DOMAIN writes = {})
  BY <1>y DEF StreamStates
<1>k. Len(Steps) \in Nat /\ Len(Steps) >= 1
  BY TraceAssumption
<1>n. /\ ctl.step \in Nat /\ ctl.windowSequence \in Nat /\ cmp.preChecks \in Nat /\ cmp.confirmedDispatches \in Nat
      /\ Len(Steps) \in Nat /\ Len(Steps) >= 1
  BY <1>y, <1>k DEF ControllerStates, ComparisonStates
<1>u. UNCHANGED <<mode, helper, kernel, files, writes>>
  BY <1>0 DEF AwaitExit, observed, sandbox
<1>f. /\ (Python' <=> Python) /\ (Started' <=> Started) /\ (Live' <=> Live) /\ (Poisoned' <=> Poisoned)
      /\ Heard' = Heard /\ Written' = Written /\ Tree(files)' = Tree(files) /\ (TreeClosed' <=> TreeClosed)
      /\ (eligible' <=> eligible) /\ PathsOf(helper.seen)' = PathsOf(helper.seen)
      /\ (\A w : (Recorded(w)' <=> Recorded(w)) /\ (Waits(w)' <=> Waits(w)))
      /\ (\A phase : RulesOf(phase)' = RulesOf(phase)) /\ (eligible => Python)
  BY <1>u, ControllerFrame DEF eligible, Python
<1>x. TRUE
  OBVIOUS
<1>1. CASE ctl' = [ctl EXCEPT !.pc = "finalIdentity", !.finalReady = TRUE] /\ control' = control
  <2>1. /\ ctl.pc = "awaitExit"
        /\ UNCHANGED <<mode, kernel, files, writes, helper, cmp, filesystem, engine, resource, control, stream, cgroup, work>>
        /\ ctl' = [ctl EXCEPT !.pc = "finalIdentity", !.finalReady = TRUE]
    BY <1>1, <1>0 DEF AwaitExit, observed, sandbox, abort, AfterMark, FirstFailure
  <2>2. ctl' \in ControllerStates /\ ctl'.pc = "finalIdentity" /\ ctl'.step = ctl.step /\ ctl'.session = ctl.session /\ ctl'.windowSequence = ctl.windowSequence /\ ctl'.finalReady = TRUE /\ ctl'.phaseSignalsComplete = ctl.phaseSignalsComplete /\ ctl'.result = ctl.result /\ ctl'.failure = ctl.failure /\ ctl'.broken = ctl.broken
    BY <2>1, <1>y, <1>n, <1>m, <1>x, TraceFrameTypes DEF ControllerStates, Stages, Early, Late, Talking, TraceFailures
  <2>3. TraceTypes'
    BY <2>1, <2>2, <1>y DEF TraceTypes
  <2>4. (Good' => Good) /\ (Clean' => Clean)
    BY <2>1, <2>2, <1>f DEF Good, Clean, Early
  <2>5. Progress'
    BY <2>1, <2>2, <2>4, <1>q, <1>n, <1>m, <1>f DEF Progress, Quiet, Good, Early, Late, AfterMark
  <2>6. HelperStaged'
    BY <2>1, <2>2, <2>4, <1>q, <1>n, <1>m, <1>f DEF HelperStaged, Exchange
  <2>7. Commanded'
    BY <2>1, <2>2, <2>4, <1>q, <1>n, <1>m, <1>f DEF Commanded
  <2>8. Exchange'
    BY <2>1, <2>2, <2>4, <1>q, <1>n, <1>m, <1>f DEF Exchange, Progress, Good, Early, Late, Talking, PhaseCommand, CurrentPhase, AfterMark, HelperStaged
  <2>9. Whole'
    BY <2>1, <2>2, <2>4, <1>q, <1>n, <1>m, <1>f DEF Whole
  <2>10. Compared'
    BY <2>1, <2>2, <2>4, <1>q, <1>n, <1>m, <1>f DEF Compared, Clean, Good, Progress, Exchange, Quiet, Early, Late, CurrentPhase, AfterMark
  <2>11. Granted'
    BY <2>1, <2>2, <2>4, <1>q, <1>n, <1>m, <1>f DEF Granted, Clean, Good, Early, Late, Progress
  <2>12. Changed'
    BY <2>1, <2>2, <2>4, <1>q, <1>n, <1>m, <1>f DEF Changed
  <2>13. Limits'
    BY <2>1, <2>2, <2>4, <1>q, <1>n, <1>m, <1>f DEF Limits, Early, Late, Talking, AfterMark, Progress
  <2>14. Bounds'
    BY <2>1, <2>2, <2>4, <1>q, <1>n, <1>m, <1>f DEF Bounds, Early, Late, Talking, AfterMark, Progress
  <2>15. Testimony'
    <3>1. Python /\ Good' /\ ctl.pc \in Late \cup {"done"} => ctl'.pc \in Late \cup {"done"}
      BY <2>1, <2>2 DEF Late
    <3>2. \A f : Testified(f) => Testified(f)'
      BY <3>1, <2>1, <2>2, <2>4, <1>f DEF Testified
    <3>4. \A f : ctl'.result = f /\ Testified(f)' => Testified(ctl.result)'
      BY DEF Testified
    <3>5. \A f : f = NoResult => Testified(f)'
      BY TraceFrameTypes DEF Testified
    <3>6. \A f : f = ctl.result => Testified(f)'
      BY <3>2, <1>q DEF Testimony
    <3>7. ctl'.result = ctl.result \/ ctl'.result = NoResult
      BY <2>1, <2>2
    <3>3. Testified(ctl.result)'
      BY <3>4, <3>6, <3>5, <3>7
    <3> QED BY <3>2, <3>3, <2>1, <2>2, <1>q, TraceFrameTypes DEF Testimony, Progress
  <2> QED BY <2>3, <2>5, <2>6, <2>7, <2>8, <2>9, <2>10, <2>11, <2>12, <2>13, <2>14, <2>15, <1>q, <1>f DEF TraceInv
<1>2. CASE ctl' = [ctl EXCEPT !.pc = "retained", !.failure = "final-transport-failed", !.result = NoResult] /\ control' = abort(control)
  <2>1. /\ ctl.pc = "awaitExit"
        /\ UNCHANGED <<mode, kernel, files, writes, helper, cmp, filesystem, engine, resource, stream, cgroup, work>>
        /\ ctl' = [ctl EXCEPT !.pc = "retained", !.failure = "final-transport-failed", !.result = NoResult]
        /\ control' = [control EXCEPT !.closed = TRUE]
    BY <1>2, <1>0 DEF AwaitExit, observed, sandbox, abort, AfterMark, FirstFailure
  <2>2. ctl' \in ControllerStates /\ ctl'.pc = "retained" /\ ctl'.step = ctl.step /\ ctl'.session = ctl.session /\ ctl'.windowSequence = ctl.windowSequence /\ ctl'.finalReady = ctl.finalReady /\ ctl'.phaseSignalsComplete = ctl.phaseSignalsComplete /\ ctl'.result = NoResult /\ ctl'.failure = "final-transport-failed" /\ ctl'.broken = ctl.broken
    BY <2>1, <1>y, <1>n, <1>m, <1>x, TraceFrameTypes DEF ControllerStates, Stages, Early, Late, Talking, TraceFailures
  <2>3. control' \in [queue : Seq(Commands), closed : BOOLEAN] /\ control'.queue = control.queue /\ control'.closed = TRUE
    BY <2>1, <1>y, <1>n, <1>m, <1>x, TraceFrameTypes
  <2>4. TraceTypes'
    BY <2>1, <2>2, <2>3, <1>y DEF TraceTypes
  <2>5. (Good' => Good) /\ (Clean' => Clean)
    BY <2>1, <2>2, <2>3, <1>f DEF Good, Clean, Early
  <2>6. Progress'
    BY <2>1, <2>2, <2>3, <2>5, <1>q, <1>n, <1>m, <1>f DEF Progress, Quiet, Good, Early, Late, AfterMark
  <2>7. HelperStaged'
    BY <2>1, <2>2, <2>3, <2>5, <1>q, <1>n, <1>m, <1>f DEF HelperStaged, Exchange
  <2>8. Commanded'
    BY <2>1, <2>2, <2>3, <2>5, <1>q, <1>n, <1>m, <1>f DEF Commanded
  <2>9. Exchange'
    BY <2>1, <2>2, <2>3, <2>5, <1>q, <1>n, <1>m, <1>f DEF Exchange, Progress, Good, Early, Late, Talking, PhaseCommand, CurrentPhase, AfterMark, HelperStaged
  <2>10. Whole'
    BY <2>1, <2>2, <2>3, <2>5, <1>q, <1>n, <1>m, <1>f DEF Whole
  <2>11. Compared'
    BY <2>1, <2>2, <2>3, <2>5, <1>q, <1>n, <1>m, <1>f DEF Compared, Clean, Good, Progress, Exchange, Quiet, Early, Late, CurrentPhase, AfterMark
  <2>12. Granted'
    BY <2>1, <2>2, <2>3, <2>5, <1>q, <1>n, <1>m, <1>f DEF Granted, Clean, Good, Early, Late, Progress
  <2>13. Changed'
    BY <2>1, <2>2, <2>3, <2>5, <1>q, <1>n, <1>m, <1>f DEF Changed
  <2>14. Limits'
    BY <2>1, <2>2, <2>3, <2>5, <1>q, <1>n, <1>m, <1>f DEF Limits, Early, Late, Talking, AfterMark, Progress
  <2>15. Bounds'
    BY <2>1, <2>2, <2>3, <2>5, <1>q, <1>n, <1>m, <1>f DEF Bounds, Early, Late, Talking, AfterMark, Progress
  <2>16. Testimony'
    <3>1. Python /\ Good' /\ ctl.pc \in Late \cup {"done"} => ctl'.pc \in Late \cup {"done"}
      BY <2>1, <2>2, <2>3 DEF Late
    <3>2. \A f : Testified(f) => Testified(f)'
      BY <3>1, <2>1, <2>2, <2>3, <2>5, <1>f DEF Testified
    <3>4. \A f : ctl'.result = f /\ Testified(f)' => Testified(ctl.result)'
      BY DEF Testified
    <3>5. \A f : f = NoResult => Testified(f)'
      BY TraceFrameTypes DEF Testified
    <3>6. \A f : f = ctl.result => Testified(f)'
      BY <3>2, <1>q DEF Testimony
    <3>7. ctl'.result = ctl.result \/ ctl'.result = NoResult
      BY <2>1, <2>2, <2>3
    <3>3. Testified(ctl.result)'
      BY <3>4, <3>6, <3>5, <3>7
    <3> QED BY <3>2, <3>3, <2>1, <2>2, <2>3, <1>q, TraceFrameTypes DEF Testimony, Progress
  <2> QED BY <2>4, <2>6, <2>7, <2>8, <2>9, <2>10, <2>11, <2>12, <2>13, <2>14, <2>15, <2>16, <1>q, <1>f DEF TraceInv
<1> QED BY <1>0, <1>1, <1>2 DEF AwaitExit

LEMMA AwaitFinalKeeps ==
  ASSUME TraceInv, NEW inTime \in BOOLEAN, AwaitFinal(inTime)
  PROVE  TraceInv'
<1> USE TraceAssumption, ChannelSizeAssumption
<1>0. AwaitFinal(inTime)
  OBVIOUS
<1>q. /\ TraceTypes /\ Progress /\ HelperStaged /\ Commanded /\ Exchange /\ TreeClosed /\ Whole
      /\ Compared /\ Granted /\ Changed /\ Testimony /\ Limits /\ Bounds
  BY DEF TraceInv
<1>y. /\ mode \in Modes /\ ctl \in ControllerStates /\ cmp \in ComparisonStates
      /\ filesystem \in FilesystemStates /\ engine \in EngineStates /\ resource \in ResourceStates
      /\ control \in [queue : Seq(Commands), closed : BOOLEAN]
      /\ stream \in StreamStates(TraceFrames) /\ helper \in HelperStates /\ kernel \in Seq(Events)
      /\ files \in Snapshots /\ cgroup \in ResourceSnapshot
      /\ work \in [running : BOOLEAN, stray : BOOLEAN] /\ writes \in Seq([step : Nat, path : PathSet])
  BY <1>q DEF TraceTypes
<1>b. Len(stream.events) <= ChannelSize /\ ChannelSize \in Nat
  BY <1>q DEF Bounds
<1>m. control.queue \in Seq(Commands) /\ stream.events \in Seq(TraceFrames) /\ Len(stream.events) \in Nat
      /\ (writes = <<>> => DOMAIN writes = {})
  BY <1>y DEF StreamStates
<1>k. Len(Steps) \in Nat /\ Len(Steps) >= 1
  BY TraceAssumption
<1>n. /\ ctl.step \in Nat /\ ctl.windowSequence \in Nat /\ cmp.preChecks \in Nat /\ cmp.confirmedDispatches \in Nat
      /\ Len(Steps) \in Nat /\ Len(Steps) >= 1
  BY <1>y, <1>k DEF ControllerStates, ComparisonStates
<1>t. stream.events # <<>> =>
        /\ TakeFrame(stream) \in StreamStates(TraceFrames) /\ Head(stream.events) \in TraceFrames
        /\ Head(stream.events) = stream.events[1] /\ 1 \in DOMAIN stream.events
        /\ Len(TakeFrame(stream).events) = Len(stream.events) - 1
        /\ Len(stream.events) \in Nat \ {0}
        /\ (Len(stream.events) <= 1 => TakeFrame(stream).events = <<>>)
        /\ \A i \in DOMAIN TakeFrame(stream).events :
             \E j \in DOMAIN stream.events : TakeFrame(stream).events[i] = stream.events[j]
  <2>1. ASSUME stream.events # <<>>
        PROVE  /\ TakeFrame(stream) \in StreamStates(TraceFrames) /\ Head(stream.events) \in TraceFrames
               /\ Head(stream.events) = stream.events[1] /\ 1 \in DOMAIN stream.events
               /\ TakeFrame(stream).events = Tail(stream.events)
               /\ \A i \in DOMAIN TakeFrame(stream).events :
                    \E j \in DOMAIN stream.events : TakeFrame(stream).events[i] = stream.events[j]
    BY <2>1, <1>y, TakeFrameShrinks
  <2>2. stream.events # <<>> =>
          /\ Len(stream.events) \in Nat \ {0} /\ Len(Tail(stream.events)) = Len(stream.events) - 1
          /\ (Len(stream.events) <= 1 => Tail(stream.events) = <<>>)
    BY <1>m
  <2> QED BY <2>1, <2>2
<1>u. UNCHANGED <<mode, helper, kernel, files, writes>>
  BY <1>0 DEF AwaitFinal, Taken, Expired, observed, sandbox
<1>f. /\ (Python' <=> Python) /\ (Started' <=> Started) /\ (Live' <=> Live) /\ (Poisoned' <=> Poisoned)
      /\ Heard' = Heard /\ Written' = Written /\ Tree(files)' = Tree(files) /\ (TreeClosed' <=> TreeClosed)
      /\ (eligible' <=> eligible) /\ PathsOf(helper.seen)' = PathsOf(helper.seen)
      /\ (\A w : (Recorded(w)' <=> Recorded(w)) /\ (Waits(w)' <=> Waits(w)))
      /\ (\A phase : RulesOf(phase)' = RulesOf(phase)) /\ (eligible => Python)
  BY <1>u, ControllerFrame DEF eligible, Python
<1>x. TRUE
  OBVIOUS
<1>1. CASE stream' = TakeFrame(stream) /\ stream.events # <<>> /\ decodedFinal(Head(stream.events)) /\ ctl' = [ctl EXCEPT !.pc = "awaitExit", !.result = Head(stream.events)] /\ control' = control
  <2>1. /\ ctl.pc = "awaitFinal" /\ stream.events # <<>> /\ decodedFinal(Head(stream.events))
        /\ UNCHANGED <<mode, kernel, files, writes, helper, cmp, filesystem, engine, resource, control, cgroup, work>>
        /\ ctl' = [ctl EXCEPT !.pc = "awaitExit", !.result = Head(stream.events)]
        /\ stream' = TakeFrame(stream)
    BY <1>1, <1>0 DEF AwaitFinal, Taken, Expired, observed, sandbox, abort, AfterMark, FirstFailure
  <2>2. ctl' \in ControllerStates /\ ctl'.pc = "awaitExit" /\ ctl'.step = ctl.step /\ ctl'.session = ctl.session /\ ctl'.windowSequence = ctl.windowSequence /\ ctl'.finalReady = ctl.finalReady /\ ctl'.phaseSignalsComplete = ctl.phaseSignalsComplete /\ ctl'.result = Head(stream.events) /\ ctl'.failure = ctl.failure /\ ctl'.broken = ctl.broken
    BY <2>1, <1>y, <1>n, <1>m, <1>t, <1>x, TraceFrameTypes DEF ControllerStates, Stages, Early, Late, Talking, TraceFailures
  <2>3. /\ stream' \in StreamStates(TraceFrames) /\ (Len(stream.events) <= 1 => stream'.events = <<>>)
        /\ Len(stream'.events) <= Len(stream.events) /\ Len(stream'.events) \in Nat
        /\ \A i \in DOMAIN stream'.events : \E j \in DOMAIN stream.events : stream'.events[i] = stream.events[j]
    BY <2>1, <1>t
  <2>4. Len(stream'.events) <= ChannelSize
    BY <2>3, <1>m, <1>b, Below
  <2>5. TraceTypes'
    BY <2>1, <2>2, <2>3, <2>4, <1>y DEF TraceTypes
  <2>6. (Good' => Good) /\ (Clean' => Clean)
    BY <2>1, <2>2, <2>3, <2>4, <1>f DEF Good, Clean, Early
  <2>7. Progress'
    BY <2>1, <2>2, <2>3, <2>4, <2>6, <1>q, <1>n, <1>m, <1>f, <1>t DEF Progress, Quiet, Good, Early, Late, AfterMark
  <2>8. HelperStaged'
    BY <2>1, <2>2, <2>3, <2>4, <2>6, <1>q, <1>n, <1>m, <1>f, <1>t DEF HelperStaged, Exchange
  <2>9. Commanded'
    BY <2>1, <2>2, <2>3, <2>4, <2>6, <1>q, <1>n, <1>m, <1>f DEF Commanded
  <2>10. Exchange'
    BY <2>1, <2>2, <2>3, <2>4, <2>6, <1>q, <1>n, <1>m, <1>f, <1>t DEF Exchange, Progress, Good, Early, Late, Talking, PhaseCommand, CurrentPhase, AfterMark, HelperStaged
  <2>11. Whole'
    BY <2>1, <2>2, <2>3, <2>4, <2>6, <1>q, <1>n, <1>m, <1>f DEF Whole
  <2>12. Compared'
    BY <2>1, <2>2, <2>3, <2>4, <2>6, <1>q, <1>n, <1>m, <1>f DEF Compared, Clean, Good, Progress, Exchange, Quiet, Early, Late, CurrentPhase, AfterMark
  <2>13. Granted'
    <3>1. UNCHANGED <<writes>> /\ ctl'.step = ctl.step /\ ctl.pc = "awaitFinal"
         /\ filesystem'.ambiguous = filesystem.ambiguous /\ filesystem'.patterns = filesystem.patterns
      BY <2>1, <2>2, <2>3, <2>4
    <3>2. Clean' => \A i \in DOMAIN writes :
           /\ writes[i].step <= ctl.step /\ writes[i].step # ctl.step
           /\ writes[i].step < ctl.step /\ ~filesystem.ambiguous =>
                RulesOf(Steps[writes[i].step]) \subseteq filesystem.patterns
      BY <2>6, <1>q, <3>1 DEF Granted
    <3> QED BY <3>1, <3>2, <1>f DEF Granted
  <2>14. Changed'
    BY <2>1, <2>2, <2>3, <2>4, <2>6, <1>q, <1>n, <1>m, <1>f DEF Changed
  <2>15. Limits'
    BY <2>1, <2>2, <2>3, <2>4, <2>6, <1>q, <1>n, <1>m, <1>f DEF Limits, Early, Late, Talking, AfterMark, Progress
  <2>16. Bounds'
    BY <2>1, <2>2, <2>3, <2>4, <2>6, <1>q, <1>n, <1>m, <1>f DEF Bounds, Early, Late, Talking, AfterMark, Progress
  <2>17. Testimony'
    <3>1. Python /\ Good' /\ ctl.pc \in Late \cup {"done"} => ctl'.pc \in Late \cup {"done"}
      BY <2>1, <2>2, <2>3, <2>4 DEF Late
    <3>2. \A f : Testified(f) => Testified(f)'
      BY <3>1, <2>1, <2>2, <2>3, <2>4, <2>6, <1>f DEF Testified
    <3>3. \A i \in DOMAIN stream'.events : Testified(stream.events[i])'
      BY <3>2, <2>1, <2>2, <2>3, <2>4, <1>q DEF Testimony
    <3>4. \A f : ctl'.result = f /\ Testified(f)' => Testified(ctl.result)'
      BY DEF Testified
    <3>5. Testified(Head(stream.events)) /\ Testified(ctl.result)
      BY <1>q, <1>t, <2>1, <2>2, <2>3, <2>4 DEF Testimony
    <3>6. \A f : f = Head(stream.events) \/ f = ctl.result => Testified(f)'
      BY <3>2, <3>5
    <3>7. Testified(ctl.result)'
      BY <3>4, <3>6, <2>1, <2>2, <2>3, <2>4
    <3> QED BY <3>3, <3>7, <2>1, <2>2, <2>3, <2>4, <1>q, TraceFrameTypes DEF Testimony, Progress, decodedFinal, decodedFailed
  <2> QED BY <2>5, <2>7, <2>8, <2>9, <2>10, <2>11, <2>12, <2>13, <2>14, <2>15, <2>16, <2>17, <1>q, <1>f DEF TraceInv
<1>2. CASE stream' = TakeFrame(stream) /\ stream.events # <<>> /\ ctl' = [ctl EXCEPT !.pc = "retained", !.failure = "final-transport-failed"] /\ control' = abort(control)
  <2>1. /\ ctl.pc = "awaitFinal" /\ stream.events # <<>>
        /\ UNCHANGED <<mode, kernel, files, writes, helper, cmp, filesystem, engine, resource, cgroup, work>>
        /\ ctl' = [ctl EXCEPT !.pc = "retained", !.failure = "final-transport-failed"]
        /\ control' = [control EXCEPT !.closed = TRUE]
        /\ stream' = TakeFrame(stream)
    BY <1>2, <1>0 DEF AwaitFinal, Taken, Expired, observed, sandbox, abort, AfterMark, FirstFailure
  <2>2. ctl' \in ControllerStates /\ ctl'.pc = "retained" /\ ctl'.step = ctl.step /\ ctl'.session = ctl.session /\ ctl'.windowSequence = ctl.windowSequence /\ ctl'.finalReady = ctl.finalReady /\ ctl'.phaseSignalsComplete = ctl.phaseSignalsComplete /\ ctl'.result = ctl.result /\ ctl'.failure = "final-transport-failed" /\ ctl'.broken = ctl.broken
    BY <2>1, <1>y, <1>n, <1>m, <1>t, <1>x, TraceFrameTypes DEF ControllerStates, Stages, Early, Late, Talking, TraceFailures
  <2>3. control' \in [queue : Seq(Commands), closed : BOOLEAN] /\ control'.queue = control.queue /\ control'.closed = TRUE
    BY <2>1, <1>y, <1>n, <1>m, <1>x, TraceFrameTypes
  <2>4. /\ stream' \in StreamStates(TraceFrames) /\ (Len(stream.events) <= 1 => stream'.events = <<>>)
        /\ Len(stream'.events) <= Len(stream.events) /\ Len(stream'.events) \in Nat
        /\ \A i \in DOMAIN stream'.events : \E j \in DOMAIN stream.events : stream'.events[i] = stream.events[j]
    BY <2>1, <1>t
  <2>5. Len(stream'.events) <= ChannelSize
    BY <2>4, <1>m, <1>b, Below
  <2>6. TraceTypes'
    BY <2>1, <2>2, <2>3, <2>4, <2>5, <1>y DEF TraceTypes
  <2>7. (Good' => Good) /\ (Clean' => Clean)
    BY <2>1, <2>2, <2>3, <2>4, <2>5, <1>f DEF Good, Clean, Early
  <2>8. Progress'
    BY <2>1, <2>2, <2>3, <2>4, <2>5, <2>7, <1>q, <1>n, <1>m, <1>f, <1>t DEF Progress, Quiet, Good, Early, Late, AfterMark
  <2>9. HelperStaged'
    BY <2>1, <2>2, <2>3, <2>4, <2>5, <2>7, <1>q, <1>n, <1>m, <1>f, <1>t DEF HelperStaged, Exchange
  <2>10. Commanded'
    BY <2>1, <2>2, <2>3, <2>4, <2>5, <2>7, <1>q, <1>n, <1>m, <1>f DEF Commanded
  <2>11. Exchange'
    BY <2>1, <2>2, <2>3, <2>4, <2>5, <2>7, <1>q, <1>n, <1>m, <1>f, <1>t DEF Exchange, Progress, Good, Early, Late, Talking, PhaseCommand, CurrentPhase, AfterMark, HelperStaged
  <2>12. Whole'
    BY <2>1, <2>2, <2>3, <2>4, <2>5, <2>7, <1>q, <1>n, <1>m, <1>f DEF Whole
  <2>13. Compared'
    BY <2>1, <2>2, <2>3, <2>4, <2>5, <2>7, <1>q, <1>n, <1>m, <1>f DEF Compared, Clean, Good, Progress, Exchange, Quiet, Early, Late, CurrentPhase, AfterMark
  <2>14. Granted'
    BY <2>1, <2>2, <2>3, <2>4, <2>5, <2>7, <1>q, <1>n, <1>m, <1>f DEF Granted, Clean, Good, Early, Late, Progress
  <2>15. Changed'
    BY <2>1, <2>2, <2>3, <2>4, <2>5, <2>7, <1>q, <1>n, <1>m, <1>f DEF Changed
  <2>16. Limits'
    BY <2>1, <2>2, <2>3, <2>4, <2>5, <2>7, <1>q, <1>n, <1>m, <1>f DEF Limits, Early, Late, Talking, AfterMark, Progress
  <2>17. Bounds'
    BY <2>1, <2>2, <2>3, <2>4, <2>5, <2>7, <1>q, <1>n, <1>m, <1>f DEF Bounds, Early, Late, Talking, AfterMark, Progress
  <2>18. Testimony'
    <3>1. Python /\ Good' /\ ctl.pc \in Late \cup {"done"} => ctl'.pc \in Late \cup {"done"}
      BY <2>1, <2>2, <2>3, <2>4, <2>5 DEF Late
    <3>2. \A f : Testified(f) => Testified(f)'
      BY <3>1, <2>1, <2>2, <2>3, <2>4, <2>5, <2>7, <1>f DEF Testified
    <3>3. \A i \in DOMAIN stream'.events : Testified(stream.events[i])'
      BY <3>2, <2>1, <2>2, <2>3, <2>4, <2>5, <1>q DEF Testimony
    <3>4. \A f : ctl'.result = f /\ Testified(f)' => Testified(ctl.result)'
      BY DEF Testified
    <3>5. Testified(Head(stream.events)) /\ Testified(ctl.result)
      BY <1>q, <1>t, <2>1, <2>2, <2>3, <2>4, <2>5 DEF Testimony
    <3>6. \A f : f = Head(stream.events) \/ f = ctl.result => Testified(f)'
      BY <3>2, <3>5
    <3>7. Testified(ctl.result)'
      BY <3>4, <3>6, <2>1, <2>2, <2>3, <2>4, <2>5
    <3> QED BY <3>3, <3>7, <2>1, <2>2, <2>3, <2>4, <2>5, <1>q, TraceFrameTypes DEF Testimony, Progress, decodedFinal, decodedFailed
  <2> QED BY <2>6, <2>8, <2>9, <2>10, <2>11, <2>12, <2>13, <2>14, <2>15, <2>16, <2>17, <2>18, <1>q, <1>f DEF TraceInv
<1>3. CASE stream' = stream /\ ctl' = [ctl EXCEPT !.pc = "retained", !.failure = "final-transport-failed"] /\ control' = abort(control)
  <2>1. /\ ctl.pc = "awaitFinal"
        /\ UNCHANGED <<mode, kernel, files, writes, helper, cmp, filesystem, engine, resource, stream, cgroup, work>>
        /\ ctl' = [ctl EXCEPT !.pc = "retained", !.failure = "final-transport-failed"]
        /\ control' = [control EXCEPT !.closed = TRUE]
    BY <1>3, <1>0 DEF AwaitFinal, Taken, Expired, observed, sandbox, abort, AfterMark, FirstFailure
  <2>2. ctl' \in ControllerStates /\ ctl'.pc = "retained" /\ ctl'.step = ctl.step /\ ctl'.session = ctl.session /\ ctl'.windowSequence = ctl.windowSequence /\ ctl'.finalReady = ctl.finalReady /\ ctl'.phaseSignalsComplete = ctl.phaseSignalsComplete /\ ctl'.result = ctl.result /\ ctl'.failure = "final-transport-failed" /\ ctl'.broken = ctl.broken
    BY <2>1, <1>y, <1>n, <1>m, <1>x, TraceFrameTypes DEF ControllerStates, Stages, Early, Late, Talking, TraceFailures
  <2>3. control' \in [queue : Seq(Commands), closed : BOOLEAN] /\ control'.queue = control.queue /\ control'.closed = TRUE
    BY <2>1, <1>y, <1>n, <1>m, <1>x, TraceFrameTypes
  <2>4. TraceTypes'
    BY <2>1, <2>2, <2>3, <1>y DEF TraceTypes
  <2>5. (Good' => Good) /\ (Clean' => Clean)
    BY <2>1, <2>2, <2>3, <1>f DEF Good, Clean, Early
  <2>6. Progress'
    BY <2>1, <2>2, <2>3, <2>5, <1>q, <1>n, <1>m, <1>f DEF Progress, Quiet, Good, Early, Late, AfterMark
  <2>7. HelperStaged'
    BY <2>1, <2>2, <2>3, <2>5, <1>q, <1>n, <1>m, <1>f DEF HelperStaged, Exchange
  <2>8. Commanded'
    BY <2>1, <2>2, <2>3, <2>5, <1>q, <1>n, <1>m, <1>f DEF Commanded
  <2>9. Exchange'
    BY <2>1, <2>2, <2>3, <2>5, <1>q, <1>n, <1>m, <1>f DEF Exchange, Progress, Good, Early, Late, Talking, PhaseCommand, CurrentPhase, AfterMark, HelperStaged
  <2>10. Whole'
    BY <2>1, <2>2, <2>3, <2>5, <1>q, <1>n, <1>m, <1>f DEF Whole
  <2>11. Compared'
    BY <2>1, <2>2, <2>3, <2>5, <1>q, <1>n, <1>m, <1>f DEF Compared, Clean, Good, Progress, Exchange, Quiet, Early, Late, CurrentPhase, AfterMark
  <2>12. Granted'
    BY <2>1, <2>2, <2>3, <2>5, <1>q, <1>n, <1>m, <1>f DEF Granted, Clean, Good, Early, Late, Progress
  <2>13. Changed'
    BY <2>1, <2>2, <2>3, <2>5, <1>q, <1>n, <1>m, <1>f DEF Changed
  <2>14. Limits'
    BY <2>1, <2>2, <2>3, <2>5, <1>q, <1>n, <1>m, <1>f DEF Limits, Early, Late, Talking, AfterMark, Progress
  <2>15. Bounds'
    BY <2>1, <2>2, <2>3, <2>5, <1>q, <1>n, <1>m, <1>f DEF Bounds, Early, Late, Talking, AfterMark, Progress
  <2>16. Testimony'
    <3>1. Python /\ Good' /\ ctl.pc \in Late \cup {"done"} => ctl'.pc \in Late \cup {"done"}
      BY <2>1, <2>2, <2>3 DEF Late
    <3>2. \A f : Testified(f) => Testified(f)'
      BY <3>1, <2>1, <2>2, <2>3, <2>5, <1>f DEF Testified
    <3>4. \A f : ctl'.result = f /\ Testified(f)' => Testified(ctl.result)'
      BY DEF Testified
    <3>5. \A f : f = NoResult => Testified(f)'
      BY TraceFrameTypes DEF Testified
    <3>6. \A f : f = ctl.result => Testified(f)'
      BY <3>2, <1>q DEF Testimony
    <3>7. ctl'.result = ctl.result \/ ctl'.result = NoResult
      BY <2>1, <2>2, <2>3
    <3>3. Testified(ctl.result)'
      BY <3>4, <3>6, <3>5, <3>7
    <3> QED BY <3>2, <3>3, <2>1, <2>2, <2>3, <1>q, TraceFrameTypes DEF Testimony, Progress
  <2> QED BY <2>4, <2>6, <2>7, <2>8, <2>9, <2>10, <2>11, <2>12, <2>13, <2>14, <2>15, <2>16, <1>q, <1>f DEF TraceInv
<1> QED BY <1>0, <1>1, <1>2, <1>3 DEF AwaitFinal, Taken, Expired

LEMMA StopTraceKeeps ==
  ASSUME TraceInv, NEW identity \in BOOLEAN, NEW written \in BOOLEAN, StopTrace(identity, written)
  PROVE  TraceInv'
<1> USE TraceAssumption, ChannelSizeAssumption
<1>0. StopTrace(identity, written)
  OBVIOUS
<1>q. /\ TraceTypes /\ Progress /\ HelperStaged /\ Commanded /\ Exchange /\ TreeClosed /\ Whole
      /\ Compared /\ Granted /\ Changed /\ Testimony /\ Limits /\ Bounds
  BY DEF TraceInv
<1>y. /\ mode \in Modes /\ ctl \in ControllerStates /\ cmp \in ComparisonStates
      /\ filesystem \in FilesystemStates /\ engine \in EngineStates /\ resource \in ResourceStates
      /\ control \in [queue : Seq(Commands), closed : BOOLEAN]
      /\ stream \in StreamStates(TraceFrames) /\ helper \in HelperStates /\ kernel \in Seq(Events)
      /\ files \in Snapshots /\ cgroup \in ResourceSnapshot
      /\ work \in [running : BOOLEAN, stray : BOOLEAN] /\ writes \in Seq([step : Nat, path : PathSet])
  BY <1>q DEF TraceTypes
<1>b. Len(stream.events) <= ChannelSize /\ ChannelSize \in Nat
  BY <1>q DEF Bounds
<1>m. control.queue \in Seq(Commands) /\ stream.events \in Seq(TraceFrames) /\ Len(stream.events) \in Nat
      /\ (writes = <<>> => DOMAIN writes = {})
  BY <1>y DEF StreamStates
<1>k. Len(Steps) \in Nat /\ Len(Steps) >= 1
  BY TraceAssumption
<1>n. /\ ctl.step \in Nat /\ ctl.windowSequence \in Nat /\ cmp.preChecks \in Nat /\ cmp.confirmedDispatches \in Nat
      /\ Len(Steps) \in Nat /\ Len(Steps) >= 1
  BY <1>y, <1>k DEF ControllerStates, ComparisonStates
<1>u. UNCHANGED <<mode, helper, kernel, files, writes>>
  BY <1>0 DEF StopTrace, observed, sandbox
<1>f. /\ (Python' <=> Python) /\ (Started' <=> Started) /\ (Live' <=> Live) /\ (Poisoned' <=> Poisoned)
      /\ Heard' = Heard /\ Written' = Written /\ Tree(files)' = Tree(files) /\ (TreeClosed' <=> TreeClosed)
      /\ (eligible' <=> eligible) /\ PathsOf(helper.seen)' = PathsOf(helper.seen)
      /\ (\A w : (Recorded(w)' <=> Recorded(w)) /\ (Waits(w)' <=> Waits(w)))
      /\ (\A phase : RulesOf(phase)' = RulesOf(phase)) /\ (eligible => Python)
  BY <1>u, ControllerFrame DEF eligible, Python
<1>x. /\ Append(control.queue, StopCommand) \in Seq(Commands)
      /\ Append(control.queue, StopCommand) # <<>>
      /\ (control.queue = <<>> => /\ Head(Append(control.queue, StopCommand)) = StopCommand
                                 /\ Len(Append(control.queue, StopCommand)) = 1)
      /\ (\A i \in DOMAIN Append(control.queue, StopCommand) :
            Append(control.queue, StopCommand)[i] = StartCommand =>
              i \in DOMAIN control.queue /\ control.queue[i] = StartCommand)
  <2>1. StopCommand \in Commands /\ StopCommand # StartCommand
    BY DEF Commands, StopCommand, StartCommand
  <2>2. /\ Append(control.queue, StopCommand) \in Seq(Commands) /\ Append(control.queue, StopCommand) # <<>>
        /\ (control.queue = <<>> => Head(Append(control.queue, StopCommand)) = StopCommand
                                      /\ Len(Append(control.queue, StopCommand)) = 1)
    BY <2>1, <1>m, AppendsOne, Zenon
  <2>3. ASSUME NEW i \in DOMAIN Append(control.queue, StopCommand),
               Append(control.queue, StopCommand)[i] = StartCommand
        PROVE  i \in DOMAIN control.queue /\ control.queue[i] = StartCommand
    <3>1. ~(Append(control.queue, StopCommand)[i] = StopCommand)
      BY <2>1, <2>3
    <3>2. i \in DOMAIN control.queue /\ Append(control.queue, StopCommand)[i] = control.queue[i]
      <4>1. \A j : j \in DOMAIN Append(control.queue, StopCommand) /\ ~(Append(control.queue, StopCommand)[j] = StopCommand) =>
                    j \in DOMAIN control.queue /\ Append(control.queue, StopCommand)[j] = control.queue[j]
        <5>1. control.queue \in Seq(Commands) /\ StopCommand \in Commands
          BY <2>1, <1>m
        <5> QED BY <5>1, AppendKeeps
      <4> QED BY <4>1, <3>1, Zenon
    <3> QED BY <3>2, <2>3
  <2> QED BY <2>2, <2>3
<1>1. CASE ~ctl.session
  <2>1. /\ ctl.pc = "stop" /\ ~ctl.session
        /\ UNCHANGED <<mode, kernel, files, writes, helper, cmp, filesystem, engine, resource, control, stream, cgroup, work>>
        /\ ctl' = [ctl EXCEPT !.pc = "retained"]
    BY <1>1, <1>0 DEF StopTrace, observed, sandbox, abort, AfterMark, FirstFailure, StopCommand
  <2>2. ctl' \in ControllerStates /\ ctl'.pc = "retained" /\ ctl'.step = ctl.step /\ ctl'.session = ctl.session /\ ctl'.windowSequence = ctl.windowSequence /\ ctl'.finalReady = ctl.finalReady /\ ctl'.phaseSignalsComplete = ctl.phaseSignalsComplete /\ ctl'.result = ctl.result /\ ctl'.failure = ctl.failure /\ ctl'.broken = ctl.broken
    BY <2>1, <1>y, <1>n, <1>m, <1>x, TraceFrameTypes DEF ControllerStates, Stages, Early, Late, Talking, TraceFailures
  <2>3. TraceTypes'
    BY <2>1, <2>2, <1>y DEF TraceTypes
  <2>4. (Good' => Good) /\ (Clean' => Clean)
    BY <2>1, <2>2, <1>f, <1>x DEF Good, Clean, Early
  <2>5. Progress'
    BY <2>1, <2>2, <2>4, <1>q, <1>n, <1>m, <1>f, <1>x DEF Progress, Quiet, Good, Early, Late, AfterMark
  <2>6. HelperStaged'
    BY <2>1, <2>2, <2>4, <1>q, <1>n, <1>m, <1>f, <1>x DEF HelperStaged, Exchange
  <2>7. Commanded'
    BY <2>1, <2>2, <2>4, <1>q, <1>n, <1>m, <1>f, <1>x DEF Commanded
  <2>8. Exchange'
    BY <2>1, <2>2, <2>4, <1>q, <1>n, <1>m, <1>f, <1>x DEF Exchange, Progress, Good, Early, Late, Talking, PhaseCommand, CurrentPhase, AfterMark, HelperStaged
  <2>9. Whole'
    BY <2>1, <2>2, <2>4, <1>q, <1>n, <1>m, <1>f, <1>x DEF Whole
  <2>10. Compared'
    BY <2>1, <2>2, <2>4, <1>q, <1>n, <1>m, <1>f, <1>x DEF Compared, Clean, Good, Progress, Exchange, Quiet, Early, Late, CurrentPhase, AfterMark
  <2>11. Granted'
    BY <2>1, <2>2, <2>4, <1>q, <1>n, <1>m, <1>f, <1>x DEF Granted, Clean, Good, Early, Late, Progress
  <2>12. Changed'
    BY <2>1, <2>2, <2>4, <1>q, <1>n, <1>m, <1>f, <1>x DEF Changed
  <2>13. Limits'
    BY <2>1, <2>2, <2>4, <1>q, <1>n, <1>m, <1>f, <1>x DEF Limits, Early, Late, Talking, AfterMark, Progress
  <2>14. Bounds'
    BY <2>1, <2>2, <2>4, <1>q, <1>n, <1>m, <1>f, <1>x DEF Bounds, Early, Late, Talking, AfterMark, Progress
  <2>15. Testimony'
    <3>1. Python /\ Good' /\ ctl.pc \in Late \cup {"done"} => ctl'.pc \in Late \cup {"done"}
      BY <2>1, <2>2 DEF Late
    <3>2. \A f : Testified(f) => Testified(f)'
      BY <3>1, <2>1, <2>2, <2>4, <1>f DEF Testified
    <3>4. \A f : ctl'.result = f /\ Testified(f)' => Testified(ctl.result)'
      BY DEF Testified
    <3>5. \A f : f = NoResult => Testified(f)'
      BY TraceFrameTypes DEF Testified
    <3>6. \A f : f = ctl.result => Testified(f)'
      BY <3>2, <1>q DEF Testimony
    <3>7. ctl'.result = ctl.result \/ ctl'.result = NoResult
      BY <2>1, <2>2, <1>x
    <3>3. Testified(ctl.result)'
      BY <3>4, <3>6, <3>5, <3>7
    <3> QED BY <3>2, <3>3, <2>1, <2>2, <1>q, TraceFrameTypes, <1>x DEF Testimony, Progress
  <2> QED BY <2>3, <2>5, <2>6, <2>7, <2>8, <2>9, <2>10, <2>11, <2>12, <2>13, <2>14, <2>15, <1>q, <1>f DEF TraceInv
<1>2. CASE ctl.session /\ ~identity
  <2>1. /\ ctl.pc = "stop"
        /\ UNCHANGED <<mode, kernel, files, writes, helper, cmp, filesystem, engine, resource, stream, cgroup, work>>
        /\ ctl' = [ctl EXCEPT !.pc = "retained", !.failure = "stop-container-identity-failed"]
        /\ control' = [control EXCEPT !.closed = TRUE]
    BY <1>2, <1>0 DEF StopTrace, observed, sandbox, abort, AfterMark, FirstFailure, StopCommand
  <2>2. ctl' \in ControllerStates /\ ctl'.pc = "retained" /\ ctl'.step = ctl.step /\ ctl'.session = ctl.session /\ ctl'.windowSequence = ctl.windowSequence /\ ctl'.finalReady = ctl.finalReady /\ ctl'.phaseSignalsComplete = ctl.phaseSignalsComplete /\ ctl'.result = ctl.result /\ ctl'.failure = "stop-container-identity-failed" /\ ctl'.broken = ctl.broken
    BY <2>1, <1>y, <1>n, <1>m, <1>x, TraceFrameTypes DEF ControllerStates, Stages, Early, Late, Talking, TraceFailures
  <2>3. control' \in [queue : Seq(Commands), closed : BOOLEAN] /\ control'.queue = control.queue /\ control'.closed = TRUE
    BY <2>1, <1>y, <1>n, <1>m, <1>x, TraceFrameTypes
  <2>4. TraceTypes'
    BY <2>1, <2>2, <2>3, <1>y DEF TraceTypes
  <2>5. (Good' => Good) /\ (Clean' => Clean)
    BY <2>1, <2>2, <2>3, <1>f, <1>x DEF Good, Clean, Early
  <2>6. Progress'
    BY <2>1, <2>2, <2>3, <2>5, <1>q, <1>n, <1>m, <1>f, <1>x DEF Progress, Quiet, Good, Early, Late, AfterMark
  <2>7. HelperStaged'
    BY <2>1, <2>2, <2>3, <2>5, <1>q, <1>n, <1>m, <1>f, <1>x DEF HelperStaged, Exchange
  <2>8. Commanded'
    BY <2>1, <2>2, <2>3, <2>5, <1>q, <1>n, <1>m, <1>f, <1>x DEF Commanded
  <2>9. Exchange'
    BY <2>1, <2>2, <2>3, <2>5, <1>q, <1>n, <1>m, <1>f, <1>x DEF Exchange, Progress, Good, Early, Late, Talking, PhaseCommand, CurrentPhase, AfterMark, HelperStaged
  <2>10. Whole'
    BY <2>1, <2>2, <2>3, <2>5, <1>q, <1>n, <1>m, <1>f, <1>x DEF Whole
  <2>11. Compared'
    BY <2>1, <2>2, <2>3, <2>5, <1>q, <1>n, <1>m, <1>f, <1>x DEF Compared, Clean, Good, Progress, Exchange, Quiet, Early, Late, CurrentPhase, AfterMark
  <2>12. Granted'
    BY <2>1, <2>2, <2>3, <2>5, <1>q, <1>n, <1>m, <1>f, <1>x DEF Granted, Clean, Good, Early, Late, Progress
  <2>13. Changed'
    BY <2>1, <2>2, <2>3, <2>5, <1>q, <1>n, <1>m, <1>f, <1>x DEF Changed
  <2>14. Limits'
    BY <2>1, <2>2, <2>3, <2>5, <1>q, <1>n, <1>m, <1>f, <1>x DEF Limits, Early, Late, Talking, AfterMark, Progress
  <2>15. Bounds'
    BY <2>1, <2>2, <2>3, <2>5, <1>q, <1>n, <1>m, <1>f, <1>x DEF Bounds, Early, Late, Talking, AfterMark, Progress
  <2>16. Testimony'
    <3>1. Python /\ Good' /\ ctl.pc \in Late \cup {"done"} => ctl'.pc \in Late \cup {"done"}
      BY <2>1, <2>2, <2>3 DEF Late
    <3>2. \A f : Testified(f) => Testified(f)'
      BY <3>1, <2>1, <2>2, <2>3, <2>5, <1>f DEF Testified
    <3>4. \A f : ctl'.result = f /\ Testified(f)' => Testified(ctl.result)'
      BY DEF Testified
    <3>5. \A f : f = NoResult => Testified(f)'
      BY TraceFrameTypes DEF Testified
    <3>6. \A f : f = ctl.result => Testified(f)'
      BY <3>2, <1>q DEF Testimony
    <3>7. ctl'.result = ctl.result \/ ctl'.result = NoResult
      BY <2>1, <2>2, <2>3, <1>x
    <3>3. Testified(ctl.result)'
      BY <3>4, <3>6, <3>5, <3>7
    <3> QED BY <3>2, <3>3, <2>1, <2>2, <2>3, <1>q, TraceFrameTypes, <1>x DEF Testimony, Progress
  <2> QED BY <2>4, <2>6, <2>7, <2>8, <2>9, <2>10, <2>11, <2>12, <2>13, <2>14, <2>15, <2>16, <1>q, <1>f DEF TraceInv
<1>3. CASE ctl.session /\ identity /\ ~written
  <2>1. /\ ctl.pc = "stop"
        /\ UNCHANGED <<mode, kernel, files, writes, helper, cmp, filesystem, engine, resource, stream, cgroup, work>>
        /\ ctl' = [ctl EXCEPT !.pc = "retained", !.stopIdentityVerified = TRUE, !.failure = "final-transport-failed"]
        /\ control' = [control EXCEPT !.closed = TRUE]
    BY <1>3, <1>0 DEF StopTrace, observed, sandbox, abort, AfterMark, FirstFailure, StopCommand
  <2>2. ctl' \in ControllerStates /\ ctl'.pc = "retained" /\ ctl'.step = ctl.step /\ ctl'.session = ctl.session /\ ctl'.windowSequence = ctl.windowSequence /\ ctl'.finalReady = ctl.finalReady /\ ctl'.phaseSignalsComplete = ctl.phaseSignalsComplete /\ ctl'.result = ctl.result /\ ctl'.failure = "final-transport-failed" /\ ctl'.broken = ctl.broken
    BY <2>1, <1>y, <1>n, <1>m, <1>x, TraceFrameTypes DEF ControllerStates, Stages, Early, Late, Talking, TraceFailures
  <2>3. control' \in [queue : Seq(Commands), closed : BOOLEAN] /\ control'.queue = control.queue /\ control'.closed = TRUE
    BY <2>1, <1>y, <1>n, <1>m, <1>x, TraceFrameTypes
  <2>4. TraceTypes'
    BY <2>1, <2>2, <2>3, <1>y DEF TraceTypes
  <2>5. (Good' => Good) /\ (Clean' => Clean)
    BY <2>1, <2>2, <2>3, <1>f, <1>x DEF Good, Clean, Early
  <2>6. Progress'
    BY <2>1, <2>2, <2>3, <2>5, <1>q, <1>n, <1>m, <1>f, <1>x DEF Progress, Quiet, Good, Early, Late, AfterMark
  <2>7. HelperStaged'
    BY <2>1, <2>2, <2>3, <2>5, <1>q, <1>n, <1>m, <1>f, <1>x DEF HelperStaged, Exchange
  <2>8. Commanded'
    BY <2>1, <2>2, <2>3, <2>5, <1>q, <1>n, <1>m, <1>f, <1>x DEF Commanded
  <2>9. Exchange'
    BY <2>1, <2>2, <2>3, <2>5, <1>q, <1>n, <1>m, <1>f, <1>x DEF Exchange, Progress, Good, Early, Late, Talking, PhaseCommand, CurrentPhase, AfterMark, HelperStaged
  <2>10. Whole'
    BY <2>1, <2>2, <2>3, <2>5, <1>q, <1>n, <1>m, <1>f, <1>x DEF Whole
  <2>11. Compared'
    BY <2>1, <2>2, <2>3, <2>5, <1>q, <1>n, <1>m, <1>f, <1>x DEF Compared, Clean, Good, Progress, Exchange, Quiet, Early, Late, CurrentPhase, AfterMark
  <2>12. Granted'
    BY <2>1, <2>2, <2>3, <2>5, <1>q, <1>n, <1>m, <1>f, <1>x DEF Granted, Clean, Good, Early, Late, Progress
  <2>13. Changed'
    BY <2>1, <2>2, <2>3, <2>5, <1>q, <1>n, <1>m, <1>f, <1>x DEF Changed
  <2>14. Limits'
    BY <2>1, <2>2, <2>3, <2>5, <1>q, <1>n, <1>m, <1>f, <1>x DEF Limits, Early, Late, Talking, AfterMark, Progress
  <2>15. Bounds'
    BY <2>1, <2>2, <2>3, <2>5, <1>q, <1>n, <1>m, <1>f, <1>x DEF Bounds, Early, Late, Talking, AfterMark, Progress
  <2>16. Testimony'
    <3>1. Python /\ Good' /\ ctl.pc \in Late \cup {"done"} => ctl'.pc \in Late \cup {"done"}
      BY <2>1, <2>2, <2>3 DEF Late
    <3>2. \A f : Testified(f) => Testified(f)'
      BY <3>1, <2>1, <2>2, <2>3, <2>5, <1>f DEF Testified
    <3>4. \A f : ctl'.result = f /\ Testified(f)' => Testified(ctl.result)'
      BY DEF Testified
    <3>5. \A f : f = NoResult => Testified(f)'
      BY TraceFrameTypes DEF Testified
    <3>6. \A f : f = ctl.result => Testified(f)'
      BY <3>2, <1>q DEF Testimony
    <3>7. ctl'.result = ctl.result \/ ctl'.result = NoResult
      BY <2>1, <2>2, <2>3, <1>x
    <3>3. Testified(ctl.result)'
      BY <3>4, <3>6, <3>5, <3>7
    <3> QED BY <3>2, <3>3, <2>1, <2>2, <2>3, <1>q, TraceFrameTypes, <1>x DEF Testimony, Progress
  <2> QED BY <2>4, <2>6, <2>7, <2>8, <2>9, <2>10, <2>11, <2>12, <2>13, <2>14, <2>15, <2>16, <1>q, <1>f DEF TraceInv
<1>4. CASE ctl.session /\ identity /\ written
  <2>1. /\ ctl.pc = "stop"
        /\ UNCHANGED <<mode, kernel, files, writes, helper, cmp, filesystem, engine, resource, stream, cgroup, work>>
        /\ ctl' = [ctl EXCEPT !.pc = "awaitFinal", !.stopIdentityVerified = TRUE]
        /\ control' = [queue |-> Append(control.queue, StopCommand), closed |-> TRUE]
    BY <1>4, <1>0 DEF StopTrace, observed, sandbox, abort, AfterMark, FirstFailure, StopCommand
  <2>2. ctl' \in ControllerStates /\ ctl'.pc = "awaitFinal" /\ ctl'.step = ctl.step /\ ctl'.session = ctl.session /\ ctl'.windowSequence = ctl.windowSequence /\ ctl'.finalReady = ctl.finalReady /\ ctl'.phaseSignalsComplete = ctl.phaseSignalsComplete /\ ctl'.result = ctl.result /\ ctl'.failure = ctl.failure /\ ctl'.broken = ctl.broken
    BY <2>1, <1>y, <1>n, <1>m, <1>x, TraceFrameTypes DEF ControllerStates, Stages, Early, Late, Talking, TraceFailures
  <2>3. control' \in [queue : Seq(Commands), closed : BOOLEAN] /\ control'.queue = Append(control.queue, StopCommand) /\ control'.closed = TRUE
    BY <2>1, <1>y, <1>n, <1>m, <1>x, TraceFrameTypes
  <2>4. TraceTypes'
    BY <2>1, <2>2, <2>3, <1>y DEF TraceTypes
  <2>5. (Good' => Good) /\ (Clean' => Clean)
    BY <2>1, <2>2, <2>3, <1>f, <1>x DEF Good, Clean, Early
  <2>6. Progress'
    BY <2>1, <2>2, <2>3, <2>5, <1>q, <1>n, <1>m, <1>f, <1>x DEF Progress, Quiet, Good, Early, Late, AfterMark
  <2>7. HelperStaged'
    BY <2>1, <2>2, <2>3, <2>5, <1>q, <1>n, <1>m, <1>f, <1>x DEF HelperStaged, Exchange
  <2>8. Commanded'
    BY <2>1, <2>2, <2>3, <2>5, <1>q, <1>n, <1>m, <1>f, <1>x DEF Commanded
  <2>9. Exchange'
    <3>1. Python /\ Good' => control.queue = <<>> /\ stream.events = <<>> /\ Started
      BY <2>1, <2>2, <2>3, <2>5, <1>q DEF Exchange, Talking
    <3>2. Len(control'.queue) <= 1 \/ control.queue # <<>>
      BY <2>1, <2>2, <2>3, <1>x
    <3>3. Len(stream.events) <= 1 \/ stream.events # <<>>
      OBVIOUS
    <3> QED BY <3>1, <3>2, <3>3, <2>1, <2>2, <2>3, <1>x, <1>f DEF Exchange, Talking, Late
  <2>10. Whole'
    BY <2>1, <2>2, <2>3, <2>5, <1>q, <1>n, <1>m, <1>f, <1>x DEF Whole
  <2>11. Compared'
    BY <2>1, <2>2, <2>3, <2>5, <1>q, <1>n, <1>m, <1>f, <1>x DEF Compared, Clean, Good, Progress, Exchange, Quiet, Early, Late, CurrentPhase, AfterMark
  <2>12. Granted'
    <3>1. UNCHANGED <<writes>> /\ ctl'.step = ctl.step /\ ctl.pc = "stop"
         /\ filesystem'.ambiguous = filesystem.ambiguous /\ filesystem'.patterns = filesystem.patterns
      BY <2>1, <2>2, <2>3
    <3>2. Clean' => \A i \in DOMAIN writes :
           /\ writes[i].step <= ctl.step /\ writes[i].step # ctl.step
           /\ writes[i].step < ctl.step /\ ~filesystem.ambiguous =>
                RulesOf(Steps[writes[i].step]) \subseteq filesystem.patterns
      BY <2>5, <1>q, <3>1 DEF Granted
    <3> QED BY <3>1, <3>2, <1>f DEF Granted
  <2>13. Changed'
    BY <2>1, <2>2, <2>3, <2>5, <1>q, <1>n, <1>m, <1>f, <1>x DEF Changed
  <2>14. Limits'
    BY <2>1, <2>2, <2>3, <2>5, <1>q, <1>n, <1>m, <1>f, <1>x DEF Limits, Early, Late, Talking, AfterMark, Progress
  <2>15. Bounds'
    BY <2>1, <2>2, <2>3, <2>5, <1>q, <1>n, <1>m, <1>f, <1>x DEF Bounds, Early, Late, Talking, AfterMark, Progress
  <2>16. Testimony'
    <3>1. Python /\ Good' /\ ctl.pc \in Late \cup {"done"} => ctl'.pc \in Late \cup {"done"}
      BY <2>1, <2>2, <2>3 DEF Late
    <3>2. \A f : Testified(f) => Testified(f)'
      BY <3>1, <2>1, <2>2, <2>3, <2>5, <1>f DEF Testified
    <3>4. \A f : ctl'.result = f /\ Testified(f)' => Testified(ctl.result)'
      BY DEF Testified
    <3>5. \A f : f = NoResult => Testified(f)'
      BY TraceFrameTypes DEF Testified
    <3>6. \A f : f = ctl.result => Testified(f)'
      BY <3>2, <1>q DEF Testimony
    <3>7. ctl'.result = ctl.result \/ ctl'.result = NoResult
      BY <2>1, <2>2, <2>3, <1>x
    <3>3. Testified(ctl.result)'
      BY <3>4, <3>6, <3>5, <3>7
    <3> QED BY <3>2, <3>3, <2>1, <2>2, <2>3, <1>q, TraceFrameTypes, <1>x DEF Testimony, Progress
  <2> QED BY <2>4, <2>6, <2>7, <2>8, <2>9, <2>10, <2>11, <2>12, <2>13, <2>14, <2>15, <2>16, <1>q, <1>f DEF TraceInv
<1> QED BY <1>0, <1>1, <1>2, <1>3, <1>4 DEF StopTrace

LEMMA FinalEngineDiffKeeps ==
  ASSUME TraceInv, NEW identity \in BOOLEAN, NEW collected \in BOOLEAN, FinalEngineDiff(identity, collected)
  PROVE  TraceInv'
<1> USE TraceAssumption, ChannelSizeAssumption
<1>0. FinalEngineDiff(identity, collected)
  OBVIOUS
<1>q. /\ TraceTypes /\ Progress /\ HelperStaged /\ Commanded /\ Exchange /\ TreeClosed /\ Whole
      /\ Compared /\ Granted /\ Changed /\ Testimony /\ Limits /\ Bounds
  BY DEF TraceInv
<1>y. /\ mode \in Modes /\ ctl \in ControllerStates /\ cmp \in ComparisonStates
      /\ filesystem \in FilesystemStates /\ engine \in EngineStates /\ resource \in ResourceStates
      /\ control \in [queue : Seq(Commands), closed : BOOLEAN]
      /\ stream \in StreamStates(TraceFrames) /\ helper \in HelperStates /\ kernel \in Seq(Events)
      /\ files \in Snapshots /\ cgroup \in ResourceSnapshot
      /\ work \in [running : BOOLEAN, stray : BOOLEAN] /\ writes \in Seq([step : Nat, path : PathSet])
  BY <1>q DEF TraceTypes
<1>b. Len(stream.events) <= ChannelSize /\ ChannelSize \in Nat
  BY <1>q DEF Bounds
<1>m. control.queue \in Seq(Commands) /\ stream.events \in Seq(TraceFrames) /\ Len(stream.events) \in Nat
      /\ (writes = <<>> => DOMAIN writes = {})
  BY <1>y DEF StreamStates
<1>k. Len(Steps) \in Nat /\ Len(Steps) >= 1
  BY TraceAssumption
<1>n. /\ ctl.step \in Nat /\ ctl.windowSequence \in Nat /\ cmp.preChecks \in Nat /\ cmp.confirmedDispatches \in Nat
      /\ Len(Steps) \in Nat /\ Len(Steps) >= 1
  BY <1>y, <1>k DEF ControllerStates, ComparisonStates
<1>u. UNCHANGED <<mode, helper, kernel, files, writes>>
  BY <1>0 DEF FinalEngineDiff, observed, sandbox
<1>f. /\ (Python' <=> Python) /\ (Started' <=> Started) /\ (Live' <=> Live) /\ (Poisoned' <=> Poisoned)
      /\ Heard' = Heard /\ Written' = Written /\ Tree(files)' = Tree(files) /\ (TreeClosed' <=> TreeClosed)
      /\ (eligible' <=> eligible) /\ PathsOf(helper.seen)' = PathsOf(helper.seen)
      /\ (\A w : (Recorded(w)' <=> Recorded(w)) /\ (Waits(w)' <=> Waits(w)))
      /\ (\A phase : RulesOf(phase)' = RulesOf(phase)) /\ (eligible => Python)
  BY <1>u, ControllerFrame DEF eligible, Python
<1>x. engine' \in EngineStates
  BY <1>0, <1>y DEF FinalEngineDiff, EngineStates, collectDockerEngineDiff
<1>1. /\ ctl.pc = "engine"
      /\ UNCHANGED <<mode, kernel, files, writes, helper, cmp, filesystem, resource, control, stream, cgroup, work>>
      /\ ctl' = [ctl EXCEPT !.pc = "resources"]
      /\ TRUE
  BY <1>0 DEF FinalEngineDiff, observed, sandbox, abort, AfterMark, FirstFailure
<1>2. ctl' \in ControllerStates /\ ctl'.pc = "resources" /\ ctl'.step = ctl.step /\ ctl'.session = ctl.session /\ ctl'.windowSequence = ctl.windowSequence /\ ctl'.finalReady = ctl.finalReady /\ ctl'.phaseSignalsComplete = ctl.phaseSignalsComplete /\ ctl'.result = ctl.result /\ ctl'.failure = ctl.failure /\ ctl'.broken = ctl.broken
  BY <1>1, <1>y, <1>n, <1>m, <1>x, TraceFrameTypes DEF ControllerStates, Stages, Early, Late, Talking, TraceFailures
<1>3. engine' \in EngineStates
  BY <1>1, <1>y, <1>n, <1>m, <1>x, TraceFrameTypes DEF EngineStates
<1>4. TraceTypes'
  BY <1>1, <1>2, <1>3, <1>y DEF TraceTypes
<1>5. (Good' => Good) /\ (Clean' => Clean)
  BY <1>1, <1>2, <1>3, <1>f DEF Good, Clean, Early
<1>6. Progress'
  BY <1>1, <1>2, <1>3, <1>5, <1>q, <1>n, <1>m, <1>f DEF Progress, Quiet, Good, Early, Late, AfterMark
<1>7. HelperStaged'
  BY <1>1, <1>2, <1>3, <1>5, <1>q, <1>n, <1>m, <1>f DEF HelperStaged, Exchange
<1>8. Commanded'
  BY <1>1, <1>2, <1>3, <1>5, <1>q, <1>n, <1>m, <1>f DEF Commanded
<1>9. Exchange'
  BY <1>1, <1>2, <1>3, <1>5, <1>q, <1>n, <1>m, <1>f DEF Exchange, Progress, Good, Early, Late, Talking, PhaseCommand, CurrentPhase, AfterMark, HelperStaged
<1>10. Whole'
  BY <1>1, <1>2, <1>3, <1>5, <1>q, <1>n, <1>m, <1>f DEF Whole
<1>11. Compared'
  BY <1>1, <1>2, <1>3, <1>5, <1>q, <1>n, <1>m, <1>f DEF Compared, Clean, Good, Progress, Exchange, Quiet, Early, Late, CurrentPhase, AfterMark
<1>12. Granted'
  BY <1>1, <1>2, <1>3, <1>5, <1>q, <1>n, <1>m, <1>f DEF Granted, Clean, Good, Early, Late, Progress
<1>13. Changed'
  BY <1>1, <1>2, <1>3, <1>5, <1>q, <1>n, <1>m, <1>f DEF Changed
<1>14. Limits'
  BY <1>1, <1>2, <1>3, <1>5, <1>q, <1>n, <1>m, <1>f DEF Limits, Early, Late, Talking, AfterMark, Progress
<1>15. Bounds'
  BY <1>1, <1>2, <1>3, <1>5, <1>q, <1>n, <1>m, <1>f DEF Bounds, Early, Late, Talking, AfterMark, Progress
<1>16. Testimony'
  <2>1. Python /\ Good' /\ ctl.pc \in Late \cup {"done"} => ctl'.pc \in Late \cup {"done"}
    BY <1>1, <1>2, <1>3 DEF Late
  <2>2. \A f : Testified(f) => Testified(f)'
    BY <2>1, <1>1, <1>2, <1>3, <1>5, <1>f DEF Testified
  <2>4. \A f : ctl'.result = f /\ Testified(f)' => Testified(ctl.result)'
    BY DEF Testified
  <2>5. \A f : f = NoResult => Testified(f)'
    BY TraceFrameTypes DEF Testified
  <2>6. \A f : f = ctl.result => Testified(f)'
    BY <2>2, <1>q DEF Testimony
  <2>7. ctl'.result = ctl.result \/ ctl'.result = NoResult
    BY <1>1, <1>2, <1>3
  <2>3. Testified(ctl.result)'
    BY <2>4, <2>6, <2>5, <2>7
  <2> QED BY <2>2, <2>3, <1>1, <1>2, <1>3, <1>q, TraceFrameTypes DEF Testimony, Progress
<1> QED BY <1>4, <1>6, <1>7, <1>8, <1>9, <1>10, <1>11, <1>12, <1>13, <1>14, <1>15, <1>16, <1>q, <1>f DEF TraceInv

LEMMA QuiesceKeeps ==
  ASSUME TraceInv, NEW ok \in BOOLEAN, Quiesce(ok)
  PROVE  TraceInv'
<1> USE TraceAssumption, ChannelSizeAssumption
<1>0. Quiesce(ok)
  OBVIOUS
<1>q. /\ TraceTypes /\ Progress /\ HelperStaged /\ Commanded /\ Exchange /\ TreeClosed /\ Whole
      /\ Compared /\ Granted /\ Changed /\ Testimony /\ Limits /\ Bounds
  BY DEF TraceInv
<1>y. /\ mode \in Modes /\ ctl \in ControllerStates /\ cmp \in ComparisonStates
      /\ filesystem \in FilesystemStates /\ engine \in EngineStates /\ resource \in ResourceStates
      /\ control \in [queue : Seq(Commands), closed : BOOLEAN]
      /\ stream \in StreamStates(TraceFrames) /\ helper \in HelperStates /\ kernel \in Seq(Events)
      /\ files \in Snapshots /\ cgroup \in ResourceSnapshot
      /\ work \in [running : BOOLEAN, stray : BOOLEAN] /\ writes \in Seq([step : Nat, path : PathSet])
  BY <1>q DEF TraceTypes
<1>b. Len(stream.events) <= ChannelSize /\ ChannelSize \in Nat
  BY <1>q DEF Bounds
<1>m. control.queue \in Seq(Commands) /\ stream.events \in Seq(TraceFrames) /\ Len(stream.events) \in Nat
      /\ (writes = <<>> => DOMAIN writes = {})
  BY <1>y DEF StreamStates
<1>k. Len(Steps) \in Nat /\ Len(Steps) >= 1
  BY TraceAssumption
<1>n. /\ ctl.step \in Nat /\ ctl.windowSequence \in Nat /\ cmp.preChecks \in Nat /\ cmp.confirmedDispatches \in Nat
      /\ Len(Steps) \in Nat /\ Len(Steps) >= 1
  BY <1>y, <1>k DEF ControllerStates, ComparisonStates
<1>u. UNCHANGED <<mode, helper, kernel, files, writes>>
  BY <1>0 DEF Quiesce, observed, sandbox
<1>f. /\ (Python' <=> Python) /\ (Started' <=> Started) /\ (Live' <=> Live) /\ (Poisoned' <=> Poisoned)
      /\ Heard' = Heard /\ Written' = Written /\ Tree(files)' = Tree(files) /\ (TreeClosed' <=> TreeClosed)
      /\ (eligible' <=> eligible) /\ PathsOf(helper.seen)' = PathsOf(helper.seen)
      /\ (\A w : (Recorded(w)' <=> Recorded(w)) /\ (Waits(w)' <=> Waits(w)))
      /\ (\A phase : RulesOf(phase)' = RulesOf(phase)) /\ (eligible => Python)
  BY <1>u, ControllerFrame DEF eligible, Python
<1>x. TRUE
  OBVIOUS
<1>1. CASE ok
  <2>1. /\ ctl.pc = "quiesce"
        /\ UNCHANGED <<mode, kernel, files, writes, helper, cmp, resource, control, stream, cgroup>>
        /\ ctl' = [ctl EXCEPT !.pc = "stop", !.workloadQuiescenceVerified = TRUE]
        /\ filesystem' = [filesystem EXCEPT !.workloadQuiescenceVerified = TRUE]
        /\ engine' = [engine EXCEPT !.workloadQuiescenceVerified = TRUE]
        /\ work' = [running |-> FALSE, stray |-> FALSE]
    BY <1>1, <1>0 DEF Quiesce, observed, sandbox, abort, AfterMark, FirstFailure
  <2>2. ctl' \in ControllerStates /\ ctl'.pc = "stop" /\ ctl'.step = ctl.step /\ ctl'.session = ctl.session /\ ctl'.windowSequence = ctl.windowSequence /\ ctl'.finalReady = ctl.finalReady /\ ctl'.phaseSignalsComplete = ctl.phaseSignalsComplete /\ ctl'.result = ctl.result /\ ctl'.failure = ctl.failure /\ ctl'.broken = ctl.broken
    BY <2>1, <1>y, <1>n, <1>m, <1>x, TraceFrameTypes DEF ControllerStates, Stages, Early, Late, Talking, TraceFailures
  <2>3. filesystem' \in FilesystemStates /\ filesystem'.baseline = filesystem.baseline /\ filesystem'.baselineReady = filesystem.baselineReady /\ filesystem'.final = filesystem.final /\ filesystem'.finalReady = filesystem.finalReady /\ filesystem'.patterns = filesystem.patterns /\ filesystem'.ambiguous = filesystem.ambiguous
    BY <2>1, <1>y, <1>n, <1>m, <1>x, TraceFrameTypes DEF FilesystemStates
  <2>4. engine' \in EngineStates
    BY <2>1, <1>y, <1>n, <1>m, <1>x, TraceFrameTypes DEF EngineStates
  <2>5. work' \in [running : BOOLEAN, stray : BOOLEAN] /\ ~work'.running /\ ~work'.stray
    BY <2>1, <1>y, <1>n, <1>m, <1>x, TraceFrameTypes
  <2>6. TraceTypes'
    BY <2>1, <2>2, <2>3, <2>4, <2>5, <1>y DEF TraceTypes
  <2>7. (Good' => Good) /\ (Clean' => Clean)
    BY <2>1, <2>2, <2>3, <2>4, <2>5, <1>f DEF Good, Clean, Early
  <2>8. Progress'
    BY <2>1, <2>2, <2>3, <2>4, <2>5, <2>7, <1>q, <1>n, <1>m, <1>f DEF Progress, Quiet, Good, Early, Late, AfterMark
  <2>9. HelperStaged'
    BY <2>1, <2>2, <2>3, <2>4, <2>5, <2>7, <1>q, <1>n, <1>m, <1>f DEF HelperStaged, Exchange
  <2>10. Commanded'
    BY <2>1, <2>2, <2>3, <2>4, <2>5, <2>7, <1>q, <1>n, <1>m, <1>f DEF Commanded
  <2>11. Exchange'
    BY <2>1, <2>2, <2>3, <2>4, <2>5, <2>7, <1>q, <1>n, <1>m, <1>f DEF Exchange, Progress, Good, Early, Late, Talking, PhaseCommand, CurrentPhase, AfterMark, HelperStaged
  <2>12. Whole'
    BY <2>1, <2>2, <2>3, <2>4, <2>5, <2>7, <1>q, <1>n, <1>m, <1>f DEF Whole
  <2>13. Compared'
    BY <2>1, <2>2, <2>3, <2>4, <2>5, <2>7, <1>q, <1>n, <1>m, <1>f DEF Compared, Clean, Good, Progress, Exchange, Quiet, Early, Late, CurrentPhase, AfterMark
  <2>14. Granted'
    <3>1. UNCHANGED <<writes>> /\ ctl'.step = ctl.step /\ ctl.pc = "quiesce"
         /\ filesystem'.ambiguous = filesystem.ambiguous /\ filesystem'.patterns = filesystem.patterns
      BY <2>1, <2>2, <2>3, <2>4, <2>5
    <3>2. Clean' => \A i \in DOMAIN writes :
           /\ writes[i].step <= ctl.step /\ writes[i].step # ctl.step
           /\ writes[i].step < ctl.step /\ ~filesystem.ambiguous =>
                RulesOf(Steps[writes[i].step]) \subseteq filesystem.patterns
      BY <2>7, <1>q, <3>1 DEF Granted
    <3> QED BY <3>1, <3>2, <1>f DEF Granted
  <2>15. Changed'
    BY <2>1, <2>2, <2>3, <2>4, <2>5, <2>7, <1>q, <1>n, <1>m, <1>f DEF Changed
  <2>16. Limits'
    BY <2>1, <2>2, <2>3, <2>4, <2>5, <2>7, <1>q, <1>n, <1>m, <1>f DEF Limits, Early, Late, Talking, AfterMark, Progress
  <2>17. Bounds'
    BY <2>1, <2>2, <2>3, <2>4, <2>5, <2>7, <1>q, <1>n, <1>m, <1>f DEF Bounds, Early, Late, Talking, AfterMark, Progress
  <2>18. Testimony'
    <3>1. Python /\ Good' /\ ctl.pc \in Late \cup {"done"} => ctl'.pc \in Late \cup {"done"}
      BY <2>1, <2>2, <2>3, <2>4, <2>5 DEF Late
    <3>2. \A f : Testified(f) => Testified(f)'
      BY <3>1, <2>1, <2>2, <2>3, <2>4, <2>5, <2>7, <1>f DEF Testified
    <3>4. \A f : ctl'.result = f /\ Testified(f)' => Testified(ctl.result)'
      BY DEF Testified
    <3>5. \A f : f = NoResult => Testified(f)'
      BY TraceFrameTypes DEF Testified
    <3>6. \A f : f = ctl.result => Testified(f)'
      BY <3>2, <1>q DEF Testimony
    <3>7. ctl'.result = ctl.result \/ ctl'.result = NoResult
      BY <2>1, <2>2, <2>3, <2>4, <2>5
    <3>3. Testified(ctl.result)'
      BY <3>4, <3>6, <3>5, <3>7
    <3> QED BY <3>2, <3>3, <2>1, <2>2, <2>3, <2>4, <2>5, <1>q, TraceFrameTypes DEF Testimony, Progress
  <2> QED BY <2>6, <2>8, <2>9, <2>10, <2>11, <2>12, <2>13, <2>14, <2>15, <2>16, <2>17, <2>18, <1>q, <1>f DEF TraceInv
<1>2. CASE ~ok /\ ctl.session
  <2>1. /\ ctl.pc = "quiesce"
        /\ UNCHANGED <<mode, kernel, files, writes, helper, cmp, engine, stream, cgroup, work>>
        /\ ctl' = [ctl EXCEPT !.pc = "done", !.failure = "workload-quiescence-failed"]
        /\ filesystem' = [filesystem EXCEPT !.failure = "workload-quiescence-failed"]
        /\ resource' = [resource EXCEPT !.errors = @ \cup {"OBSERVER_INCOMPLETE"}]
        /\ control' = [control EXCEPT !.closed = TRUE]
    BY <1>2, <1>0 DEF Quiesce, observed, sandbox, abort, AfterMark, FirstFailure
  <2>2. ctl' \in ControllerStates /\ ctl'.pc = "done" /\ ctl'.step = ctl.step /\ ctl'.session = ctl.session /\ ctl'.windowSequence = ctl.windowSequence /\ ctl'.finalReady = ctl.finalReady /\ ctl'.phaseSignalsComplete = ctl.phaseSignalsComplete /\ ctl'.result = ctl.result /\ ctl'.failure = "workload-quiescence-failed" /\ ctl'.broken = ctl.broken
    BY <2>1, <1>y, <1>n, <1>m, <1>x, TraceFrameTypes DEF ControllerStates, Stages, Early, Late, Talking, TraceFailures
  <2>3. filesystem' \in FilesystemStates /\ filesystem'.baseline = filesystem.baseline /\ filesystem'.baselineReady = filesystem.baselineReady /\ filesystem'.final = filesystem.final /\ filesystem'.finalReady = filesystem.finalReady /\ filesystem'.patterns = filesystem.patterns /\ filesystem'.ambiguous = filesystem.ambiguous
    BY <2>1, <1>y, <1>n, <1>m, <1>x, TraceFrameTypes DEF FilesystemStates
  <2>4. resource' \in ResourceStates /\ resource'.active = resource.active /\ resource'.activeReady = resource.activeReady /\ resource'.final = resource.final /\ resource'.finalReady = resource.finalReady /\ resource'.errors = resource.errors \cup {"OBSERVER_INCOMPLETE"}
    BY <2>1, <1>y, <1>n, <1>m, <1>x, TraceFrameTypes DEF ResourceStates
  <2>5. control' \in [queue : Seq(Commands), closed : BOOLEAN] /\ control'.queue = control.queue /\ control'.closed = TRUE
    BY <2>1, <1>y, <1>n, <1>m, <1>x, TraceFrameTypes
  <2>6. TraceTypes'
    BY <2>1, <2>2, <2>3, <2>4, <2>5, <1>y DEF TraceTypes
  <2>7. (Good' => Good) /\ (Clean' => Clean)
    BY <2>1, <2>2, <2>3, <2>4, <2>5, <1>f DEF Good, Clean, Early
  <2>8. Progress'
    BY <2>1, <2>2, <2>3, <2>4, <2>5, <2>7, <1>q, <1>n, <1>m, <1>f DEF Progress, Quiet, Good, Early, Late, AfterMark
  <2>9. HelperStaged'
    BY <2>1, <2>2, <2>3, <2>4, <2>5, <2>7, <1>q, <1>n, <1>m, <1>f DEF HelperStaged, Exchange
  <2>10. Commanded'
    BY <2>1, <2>2, <2>3, <2>4, <2>5, <2>7, <1>q, <1>n, <1>m, <1>f DEF Commanded
  <2>11. Exchange'
    BY <2>1, <2>2, <2>3, <2>4, <2>5, <2>7, <1>q, <1>n, <1>m, <1>f DEF Exchange, Progress, Good, Early, Late, Talking, PhaseCommand, CurrentPhase, AfterMark, HelperStaged
  <2>12. Whole'
    BY <2>1, <2>2, <2>3, <2>4, <2>5, <2>7, <1>q, <1>n, <1>m, <1>f DEF Whole
  <2>13. Compared'
    BY <2>1, <2>2, <2>3, <2>4, <2>5, <2>7, <1>q, <1>n, <1>m, <1>f DEF Compared, Clean, Good, Progress, Exchange, Quiet, Early, Late, CurrentPhase, AfterMark
  <2>14. Granted'
    BY <2>1, <2>2, <2>3, <2>4, <2>5, <2>7, <1>q, <1>n, <1>m, <1>f DEF Granted, Clean, Good, Early, Late, Progress
  <2>15. Changed'
    BY <2>1, <2>2, <2>3, <2>4, <2>5, <2>7, <1>q, <1>n, <1>m, <1>f DEF Changed
  <2>16. Limits'
    BY <2>1, <2>2, <2>3, <2>4, <2>5, <2>7, <1>q, <1>n, <1>m, <1>f DEF Limits, Early, Late, Talking, AfterMark, Progress
  <2>17. Bounds'
    BY <2>1, <2>2, <2>3, <2>4, <2>5, <2>7, <1>q, <1>n, <1>m, <1>f DEF Bounds, Early, Late, Talking, AfterMark, Progress
  <2>18. Testimony'
    <3>1. Python /\ Good' /\ ctl.pc \in Late \cup {"done"} => ctl'.pc \in Late \cup {"done"}
      BY <2>1, <2>2, <2>3, <2>4, <2>5 DEF Late
    <3>2. \A f : Testified(f) => Testified(f)'
      BY <3>1, <2>1, <2>2, <2>3, <2>4, <2>5, <2>7, <1>f DEF Testified
    <3>4. \A f : ctl'.result = f /\ Testified(f)' => Testified(ctl.result)'
      BY DEF Testified
    <3>5. \A f : f = NoResult => Testified(f)'
      BY TraceFrameTypes DEF Testified
    <3>6. \A f : f = ctl.result => Testified(f)'
      BY <3>2, <1>q DEF Testimony
    <3>7. ctl'.result = ctl.result \/ ctl'.result = NoResult
      BY <2>1, <2>2, <2>3, <2>4, <2>5
    <3>3. Testified(ctl.result)'
      BY <3>4, <3>6, <3>5, <3>7
    <3> QED BY <3>2, <3>3, <2>1, <2>2, <2>3, <2>4, <2>5, <1>q, TraceFrameTypes DEF Testimony, Progress
  <2> QED BY <2>6, <2>8, <2>9, <2>10, <2>11, <2>12, <2>13, <2>14, <2>15, <2>16, <2>17, <2>18, <1>q, <1>f DEF TraceInv
<1>3. CASE ~ok /\ ~ctl.session
  <2>1. /\ ctl.pc = "quiesce"
        /\ UNCHANGED <<mode, kernel, files, writes, helper, cmp, engine, control, stream, cgroup, work>>
        /\ ctl' = [ctl EXCEPT !.pc = "done", !.failure = "workload-quiescence-failed"]
        /\ filesystem' = [filesystem EXCEPT !.failure = "workload-quiescence-failed"]
        /\ resource' = [resource EXCEPT !.errors = @ \cup {"OBSERVER_INCOMPLETE"}]
    BY <1>3, <1>0 DEF Quiesce, observed, sandbox, abort, AfterMark, FirstFailure
  <2>2. ctl' \in ControllerStates /\ ctl'.pc = "done" /\ ctl'.step = ctl.step /\ ctl'.session = ctl.session /\ ctl'.windowSequence = ctl.windowSequence /\ ctl'.finalReady = ctl.finalReady /\ ctl'.phaseSignalsComplete = ctl.phaseSignalsComplete /\ ctl'.result = ctl.result /\ ctl'.failure = "workload-quiescence-failed" /\ ctl'.broken = ctl.broken
    BY <2>1, <1>y, <1>n, <1>m, <1>x, TraceFrameTypes DEF ControllerStates, Stages, Early, Late, Talking, TraceFailures
  <2>3. filesystem' \in FilesystemStates /\ filesystem'.baseline = filesystem.baseline /\ filesystem'.baselineReady = filesystem.baselineReady /\ filesystem'.final = filesystem.final /\ filesystem'.finalReady = filesystem.finalReady /\ filesystem'.patterns = filesystem.patterns /\ filesystem'.ambiguous = filesystem.ambiguous
    BY <2>1, <1>y, <1>n, <1>m, <1>x, TraceFrameTypes DEF FilesystemStates
  <2>4. resource' \in ResourceStates /\ resource'.active = resource.active /\ resource'.activeReady = resource.activeReady /\ resource'.final = resource.final /\ resource'.finalReady = resource.finalReady /\ resource'.errors = resource.errors \cup {"OBSERVER_INCOMPLETE"}
    BY <2>1, <1>y, <1>n, <1>m, <1>x, TraceFrameTypes DEF ResourceStates
  <2>5. TraceTypes'
    BY <2>1, <2>2, <2>3, <2>4, <1>y DEF TraceTypes
  <2>6. (Good' => Good) /\ (Clean' => Clean)
    BY <2>1, <2>2, <2>3, <2>4, <1>f DEF Good, Clean, Early
  <2>7. Progress'
    BY <2>1, <2>2, <2>3, <2>4, <2>6, <1>q, <1>n, <1>m, <1>f DEF Progress, Quiet, Good, Early, Late, AfterMark
  <2>8. HelperStaged'
    BY <2>1, <2>2, <2>3, <2>4, <2>6, <1>q, <1>n, <1>m, <1>f DEF HelperStaged, Exchange
  <2>9. Commanded'
    BY <2>1, <2>2, <2>3, <2>4, <2>6, <1>q, <1>n, <1>m, <1>f DEF Commanded
  <2>10. Exchange'
    BY <2>1, <2>2, <2>3, <2>4, <2>6, <1>q, <1>n, <1>m, <1>f DEF Exchange, Progress, Good, Early, Late, Talking, PhaseCommand, CurrentPhase, AfterMark, HelperStaged
  <2>11. Whole'
    BY <2>1, <2>2, <2>3, <2>4, <2>6, <1>q, <1>n, <1>m, <1>f DEF Whole
  <2>12. Compared'
    BY <2>1, <2>2, <2>3, <2>4, <2>6, <1>q, <1>n, <1>m, <1>f DEF Compared, Clean, Good, Progress, Exchange, Quiet, Early, Late, CurrentPhase, AfterMark
  <2>13. Granted'
    BY <2>1, <2>2, <2>3, <2>4, <2>6, <1>q, <1>n, <1>m, <1>f DEF Granted, Clean, Good, Early, Late, Progress
  <2>14. Changed'
    BY <2>1, <2>2, <2>3, <2>4, <2>6, <1>q, <1>n, <1>m, <1>f DEF Changed
  <2>15. Limits'
    BY <2>1, <2>2, <2>3, <2>4, <2>6, <1>q, <1>n, <1>m, <1>f DEF Limits, Early, Late, Talking, AfterMark, Progress
  <2>16. Bounds'
    BY <2>1, <2>2, <2>3, <2>4, <2>6, <1>q, <1>n, <1>m, <1>f DEF Bounds, Early, Late, Talking, AfterMark, Progress
  <2>17. Testimony'
    <3>1. Python /\ Good' /\ ctl.pc \in Late \cup {"done"} => ctl'.pc \in Late \cup {"done"}
      BY <2>1, <2>2, <2>3, <2>4 DEF Late
    <3>2. \A f : Testified(f) => Testified(f)'
      BY <3>1, <2>1, <2>2, <2>3, <2>4, <2>6, <1>f DEF Testified
    <3>4. \A f : ctl'.result = f /\ Testified(f)' => Testified(ctl.result)'
      BY DEF Testified
    <3>5. \A f : f = NoResult => Testified(f)'
      BY TraceFrameTypes DEF Testified
    <3>6. \A f : f = ctl.result => Testified(f)'
      BY <3>2, <1>q DEF Testimony
    <3>7. ctl'.result = ctl.result \/ ctl'.result = NoResult
      BY <2>1, <2>2, <2>3, <2>4
    <3>3. Testified(ctl.result)'
      BY <3>4, <3>6, <3>5, <3>7
    <3> QED BY <3>2, <3>3, <2>1, <2>2, <2>3, <2>4, <1>q, TraceFrameTypes DEF Testimony, Progress
  <2> QED BY <2>5, <2>7, <2>8, <2>9, <2>10, <2>11, <2>12, <2>13, <2>14, <2>15, <2>16, <2>17, <1>q, <1>f DEF TraceInv
<1> QED BY <1>0, <1>1, <1>2, <1>3 DEF Quiesce

LEMMA PreCheckKeeps ==
  ASSUME TraceInv, NEW identity \in BOOLEAN, PreCheck(identity)
  PROVE  TraceInv'
<1> USE TraceAssumption, ChannelSizeAssumption
<1>0. PreCheck(identity)
  OBVIOUS
<1>q. /\ TraceTypes /\ Progress /\ HelperStaged /\ Commanded /\ Exchange /\ TreeClosed /\ Whole
      /\ Compared /\ Granted /\ Changed /\ Testimony /\ Limits /\ Bounds
  BY DEF TraceInv
<1>y. /\ mode \in Modes /\ ctl \in ControllerStates /\ cmp \in ComparisonStates
      /\ filesystem \in FilesystemStates /\ engine \in EngineStates /\ resource \in ResourceStates
      /\ control \in [queue : Seq(Commands), closed : BOOLEAN]
      /\ stream \in StreamStates(TraceFrames) /\ helper \in HelperStates /\ kernel \in Seq(Events)
      /\ files \in Snapshots /\ cgroup \in ResourceSnapshot
      /\ work \in [running : BOOLEAN, stray : BOOLEAN] /\ writes \in Seq([step : Nat, path : PathSet])
  BY <1>q DEF TraceTypes
<1>b. Len(stream.events) <= ChannelSize /\ ChannelSize \in Nat
  BY <1>q DEF Bounds
<1>m. control.queue \in Seq(Commands) /\ stream.events \in Seq(TraceFrames) /\ Len(stream.events) \in Nat
      /\ (writes = <<>> => DOMAIN writes = {})
  BY <1>y DEF StreamStates
<1>k. Len(Steps) \in Nat /\ Len(Steps) >= 1
  BY TraceAssumption
<1>n. /\ ctl.step \in Nat /\ ctl.windowSequence \in Nat /\ cmp.preChecks \in Nat /\ cmp.confirmedDispatches \in Nat
      /\ Len(Steps) \in Nat /\ Len(Steps) >= 1
  BY <1>y, <1>k DEF ControllerStates, ComparisonStates
<1>u. UNCHANGED <<mode, helper, kernel, files, writes>>
  BY <1>0 DEF PreCheck, observed, sandbox
<1>f. /\ (Python' <=> Python) /\ (Started' <=> Started) /\ (Live' <=> Live) /\ (Poisoned' <=> Poisoned)
      /\ Heard' = Heard /\ Written' = Written /\ Tree(files)' = Tree(files) /\ (TreeClosed' <=> TreeClosed)
      /\ (eligible' <=> eligible) /\ PathsOf(helper.seen)' = PathsOf(helper.seen)
      /\ (\A w : (Recorded(w)' <=> Recorded(w)) /\ (Waits(w)' <=> Waits(w)))
      /\ (\A phase : RulesOf(phase)' = RulesOf(phase)) /\ (eligible => Python)
  BY <1>u, ControllerFrame DEF eligible, Python
<1>x. /\ cmp' \in ComparisonStates /\ cmp'.confirmedDispatches = cmp.confirmedDispatches
      /\ (cmp'.preChecks = cmp.preChecks \/ cmp'.preChecks = cmp.preChecks + 1) /\ cmp'.preChecks \in Nat
      /\ (cmp'.failure = "" => cmp.failure = "") /\ (eligible /\ cmp'.failure = "" => ~work.stray)
  <2>1. cmp' = QuiescenceBoundary(cmp, identity, TRUE)
    BY <1>0 DEF PreCheck
  <2> QED BY <2>1, <1>y, <1>n, BoundaryChecked
<1>1. /\ ctl.pc = "pre"
      /\ UNCHANGED <<mode, kernel, files, writes, helper, filesystem, engine, resource, control, stream, cgroup, work>>
      /\ ctl' = [ctl EXCEPT !.pc = "mark"]
      /\ TRUE
  BY <1>0 DEF PreCheck, observed, sandbox, abort, AfterMark, FirstFailure
<1>2. ctl' \in ControllerStates /\ ctl'.pc = "mark" /\ ctl'.step = ctl.step /\ ctl'.session = ctl.session /\ ctl'.windowSequence = ctl.windowSequence /\ ctl'.finalReady = ctl.finalReady /\ ctl'.phaseSignalsComplete = ctl.phaseSignalsComplete /\ ctl'.result = ctl.result /\ ctl'.failure = ctl.failure /\ ctl'.broken = ctl.broken
  BY <1>1, <1>y, <1>n, <1>m, <1>x, TraceFrameTypes DEF ControllerStates, Stages, Early, Late, Talking, TraceFailures
<1>3. /\ cmp' \in ComparisonStates /\ cmp'.confirmedDispatches = cmp.confirmedDispatches
      /\ (cmp'.preChecks = cmp.preChecks \/ cmp'.preChecks = cmp.preChecks + 1) /\ cmp'.preChecks \in Nat
      /\ (cmp'.failure = "" => cmp.failure = "") /\ (eligible /\ cmp'.failure = "" => ~work.stray)
  BY <1>1, <1>y, <1>n, <1>m, <1>x, TraceFrameTypes DEF ComparisonStates
<1>4. TraceTypes'
  BY <1>1, <1>2, <1>3, <1>y DEF TraceTypes
<1>5. (Good' => Good) /\ (Clean' => Clean)
  BY <1>1, <1>2, <1>3, <1>f DEF Good, Clean, Early
<1>6. Progress'
  BY <1>1, <1>2, <1>3, <1>5, <1>q, <1>n, <1>m, <1>f DEF Progress, Quiet, Good, Early, Late, AfterMark
<1>7. HelperStaged'
  BY <1>1, <1>2, <1>3, <1>5, <1>q, <1>n, <1>m, <1>f DEF HelperStaged, Exchange
<1>8. Commanded'
  BY <1>1, <1>2, <1>3, <1>5, <1>q, <1>n, <1>m, <1>f DEF Commanded
<1>9. Exchange'
  BY <1>1, <1>2, <1>3, <1>5, <1>q, <1>n, <1>m, <1>f DEF Exchange, Progress, Good, Early, Late, Talking, PhaseCommand, CurrentPhase, AfterMark, HelperStaged
<1>10. Whole'
  BY <1>1, <1>2, <1>3, <1>5, <1>q, <1>n, <1>m, <1>f DEF Whole
<1>11. Compared'
  BY <1>1, <1>2, <1>3, <1>5, <1>q, <1>n, <1>m, <1>f DEF Compared, Clean, Good, Progress, Exchange, Quiet, Early, Late, CurrentPhase, AfterMark
<1>12. Granted'
  BY <1>1, <1>2, <1>3, <1>5, <1>q, <1>n, <1>m, <1>f DEF Granted, Clean, Good, Early, Late, Progress
<1>13. Changed'
  BY <1>1, <1>2, <1>3, <1>5, <1>q, <1>n, <1>m, <1>f DEF Changed
<1>14. Limits'
  BY <1>1, <1>2, <1>3, <1>5, <1>q, <1>n, <1>m, <1>f DEF Limits, Early, Late, Talking, AfterMark, Progress
<1>15. Bounds'
  <2>0. cmp.preChecks < ctl.step /\ ctl.step <= Len(Steps)
    BY <1>1, <1>2, <1>3, <1>q DEF Bounds, Progress
  <2>3. \A a, b, c \in Nat : a < b /\ (c = a \/ c = a + 1) => c <= b
    OBVIOUS
  <2>1. cmp'.preChecks <= ctl.step /\ ctl.step <= Len(Steps)
    BY <2>0, <2>3, <1>1, <1>2, <1>3, <1>n
  <2>2. cmp'.preChecks <= Len(Steps)
    BY <2>1, <1>1, <1>2, <1>3, <1>n, Below
  <2> QED BY <2>1, <2>2, <1>1, <1>2, <1>3, <1>q DEF Bounds, Early
<1>16. Testimony'
  <2>1. Python /\ Good' /\ ctl.pc \in Late \cup {"done"} => ctl'.pc \in Late \cup {"done"}
    BY <1>1, <1>2, <1>3 DEF Late
  <2>2. \A f : Testified(f) => Testified(f)'
    BY <2>1, <1>1, <1>2, <1>3, <1>5, <1>f DEF Testified
  <2>4. \A f : ctl'.result = f /\ Testified(f)' => Testified(ctl.result)'
    BY DEF Testified
  <2>5. \A f : f = NoResult => Testified(f)'
    BY TraceFrameTypes DEF Testified
  <2>6. \A f : f = ctl.result => Testified(f)'
    BY <2>2, <1>q DEF Testimony
  <2>7. ctl'.result = ctl.result \/ ctl'.result = NoResult
    BY <1>1, <1>2, <1>3
  <2>3. Testified(ctl.result)'
    BY <2>4, <2>6, <2>5, <2>7
  <2> QED BY <2>2, <2>3, <1>1, <1>2, <1>3, <1>q, TraceFrameTypes DEF Testimony, Progress
<1> QED BY <1>4, <1>6, <1>7, <1>8, <1>9, <1>10, <1>11, <1>12, <1>13, <1>14, <1>15, <1>16, <1>q, <1>f DEF TraceInv

LEMMA MarkPhaseKeeps ==
  ASSUME TraceInv, NEW written \in BOOLEAN, MarkPhase(written)
  PROVE  TraceInv'
<1> USE TraceAssumption, ChannelSizeAssumption
<1>0. MarkPhase(written)
  OBVIOUS
<1>q. /\ TraceTypes /\ Progress /\ HelperStaged /\ Commanded /\ Exchange /\ TreeClosed /\ Whole
      /\ Compared /\ Granted /\ Changed /\ Testimony /\ Limits /\ Bounds
  BY DEF TraceInv
<1>y. /\ mode \in Modes /\ ctl \in ControllerStates /\ cmp \in ComparisonStates
      /\ filesystem \in FilesystemStates /\ engine \in EngineStates /\ resource \in ResourceStates
      /\ control \in [queue : Seq(Commands), closed : BOOLEAN]
      /\ stream \in StreamStates(TraceFrames) /\ helper \in HelperStates /\ kernel \in Seq(Events)
      /\ files \in Snapshots /\ cgroup \in ResourceSnapshot
      /\ work \in [running : BOOLEAN, stray : BOOLEAN] /\ writes \in Seq([step : Nat, path : PathSet])
  BY <1>q DEF TraceTypes
<1>b. Len(stream.events) <= ChannelSize /\ ChannelSize \in Nat
  BY <1>q DEF Bounds
<1>m. control.queue \in Seq(Commands) /\ stream.events \in Seq(TraceFrames) /\ Len(stream.events) \in Nat
      /\ (writes = <<>> => DOMAIN writes = {})
  BY <1>y DEF StreamStates
<1>k. Len(Steps) \in Nat /\ Len(Steps) >= 1
  BY TraceAssumption
<1>n. /\ ctl.step \in Nat /\ ctl.windowSequence \in Nat /\ cmp.preChecks \in Nat /\ cmp.confirmedDispatches \in Nat
      /\ Len(Steps) \in Nat /\ Len(Steps) >= 1
  BY <1>y, <1>k DEF ControllerStates, ComparisonStates
<1>u. UNCHANGED <<mode, helper, kernel, files, writes>>
  BY <1>0 DEF MarkPhase, observed, sandbox
<1>f. /\ (Python' <=> Python) /\ (Started' <=> Started) /\ (Live' <=> Live) /\ (Poisoned' <=> Poisoned)
      /\ Heard' = Heard /\ Written' = Written /\ Tree(files)' = Tree(files) /\ (TreeClosed' <=> TreeClosed)
      /\ (eligible' <=> eligible) /\ PathsOf(helper.seen)' = PathsOf(helper.seen)
      /\ (\A w : (Recorded(w)' <=> Recorded(w)) /\ (Waits(w)' <=> Waits(w)))
      /\ (\A phase : RulesOf(phase)' = RulesOf(phase)) /\ (eligible => Python)
  BY <1>u, ControllerFrame DEF eligible, Python
<1>a. /\ AfterMark \in {"dispatch", "quiesce"}
      /\ AfterMark = "dispatch" <=> ctl.step <= Len(Steps) /\ ~ctl.broken
      /\ AfterMark = "dispatch" => CurrentPhase = Steps[ctl.step]
  BY DEF AfterMark, CurrentPhase
<1>c. /\ Append(control.queue, PhaseCommand) \in Seq(Commands) /\ Append(control.queue, PhaseCommand) # <<>>
      /\ (control.queue = <<>> => /\ Head(Append(control.queue, PhaseCommand)) = PhaseCommand
                                 /\ Len(Append(control.queue, PhaseCommand)) = 1)
      /\ (\A i \in DOMAIN Append(control.queue, PhaseCommand) :
            Append(control.queue, PhaseCommand)[i] = StartCommand =>
              i \in DOMAIN control.queue /\ control.queue[i] = StartCommand)
  <2>1. CurrentPhase \in PhaseSet
    BY <1>y, <1>q, <1>n DEF CurrentPhase, PhaseSet, Progress
  <2>2. PhaseCommand \in Commands /\ PhaseCommand # StartCommand
    BY <2>1, RulesIn DEF PhaseCommand, Commands, PhaseCommands, RuleSets, StartCommand
  <2> HIDE DEF PhaseCommand
  <2>3. /\ Append(control.queue, PhaseCommand) \in Seq(Commands) /\ Append(control.queue, PhaseCommand) # <<>>
        /\ (control.queue = <<>> => /\ Head(Append(control.queue, PhaseCommand)) = PhaseCommand
                                   /\ Len(Append(control.queue, PhaseCommand)) = 1)
    BY <2>2, <1>m, AppendsOne
  <2>4. \A i \in DOMAIN Append(control.queue, PhaseCommand) :
          Append(control.queue, PhaseCommand)[i] = StartCommand =>
            i \in DOMAIN control.queue /\ control.queue[i] = StartCommand
    BY <2>2, <1>m, AppendKeeps
  <2> QED BY <2>3, <2>4
<1>x. /\ AfterMark \in {"dispatch", "quiesce"}
      /\ AfterMark = "dispatch" <=> ctl.step <= Len(Steps) /\ ~ctl.broken
      /\ AfterMark = "dispatch" => CurrentPhase = Steps[ctl.step]
      /\ PhaseControlFailed =>
           /\ ctl' \in ControllerStates /\ ctl'.pc = AfterMark /\ ctl'.step = ctl.step /\ ~ctl'.session
           /\ ctl'.windowSequence = ctl.windowSequence /\ ctl'.finalReady = ctl.finalReady
           /\ ~ctl'.phaseSignalsComplete /\ ctl'.result = ctl.result /\ ctl'.broken = ctl.broken
           /\ cmp' \in ComparisonStates /\ cmp'.preChecks = cmp.preChecks
           /\ cmp'.confirmedDispatches = cmp.confirmedDispatches
           /\ control' \in [queue : Seq(Commands), closed : BOOLEAN]
           /\ control'.queue = control.queue /\ control'.closed
      /\ Append(control.queue, PhaseCommand) \in Seq(Commands) /\ Append(control.queue, PhaseCommand) # <<>>
      /\ (control.queue = <<>> => /\ Head(Append(control.queue, PhaseCommand)) = PhaseCommand
                                 /\ Len(Append(control.queue, PhaseCommand)) = 1)
      /\ (\A i \in DOMAIN Append(control.queue, PhaseCommand) :
            Append(control.queue, PhaseCommand)[i] = StartCommand =>
              i \in DOMAIN control.queue /\ control.queue[i] = StartCommand)
  BY <1>a, <1>c, <1>y, PhaseControlFailedDoes
<1>1. CASE eligible /\ AfterMark = "quiesce"
  <2>1. /\ ctl.pc = "mark"
        /\ UNCHANGED <<mode, kernel, files, writes, helper, cmp, filesystem, engine, resource, control, stream, cgroup, work>>
        /\ ctl' = [ctl EXCEPT !.pc = "quiesce"]
    BY <1>1, <1>0 DEF MarkPhase, observed, sandbox, abort, AfterMark, FirstFailure, PhaseCommand, StopCommand, Python, eligible
  <2>2. ctl' \in ControllerStates /\ ctl'.pc = "quiesce" /\ ctl'.step = ctl.step /\ ctl'.session = ctl.session /\ ctl'.windowSequence = ctl.windowSequence /\ ctl'.finalReady = ctl.finalReady /\ ctl'.phaseSignalsComplete = ctl.phaseSignalsComplete /\ ctl'.result = ctl.result /\ ctl'.failure = ctl.failure /\ ctl'.broken = ctl.broken
    BY <2>1, <1>y, <1>n, <1>m, <1>x, TraceFrameTypes DEF ControllerStates, Stages, Early, Late, Talking, TraceFailures
  <2>3. TraceTypes'
    BY <2>1, <2>2, <1>y DEF TraceTypes
  <2>4. (Good' => Good) /\ (Clean' => Clean)
    BY <2>1, <2>2, <1>f, <1>x DEF Good, Clean, Early
  <2>5. Progress'
    BY <2>1, <2>2, <2>4, <1>q, <1>n, <1>m, <1>f, <1>x DEF Progress, Quiet, Good, Early, Late, AfterMark
  <2>6. HelperStaged'
    BY <2>1, <2>2, <2>4, <1>q, <1>n, <1>m, <1>f, <1>x DEF HelperStaged, Exchange
  <2>7. Commanded'
    BY <2>1, <2>2, <2>4, <1>q, <1>n, <1>m, <1>f, <1>x DEF Commanded
  <2>8. Exchange'
    BY <2>1, <2>2, <2>4, <1>q, <1>n, <1>m, <1>f, <1>x DEF Exchange, Progress, Good, Early, Late, Talking, PhaseCommand, CurrentPhase, AfterMark, HelperStaged
  <2>9. Whole'
    BY <2>1, <2>2, <2>4, <1>q, <1>n, <1>m, <1>f, <1>x DEF Whole
  <2>10. Compared'
    BY <2>1, <2>2, <2>4, <1>q, <1>n, <1>m, <1>f, <1>x DEF Compared, Clean, Good, Progress, Exchange, Quiet, Early, Late, CurrentPhase, AfterMark
  <2>11. Granted'
    BY <2>1, <2>2, <2>4, <1>q, <1>n, <1>m, <1>f, <1>x DEF Granted, Clean, Good, Early, Late, Progress
  <2>12. Changed'
    BY <2>1, <2>2, <2>4, <1>q, <1>n, <1>m, <1>f, <1>x DEF Changed
  <2>13. Limits'
    BY <2>1, <2>2, <2>4, <1>q, <1>n, <1>m, <1>f, <1>x DEF Limits, Early, Late, Talking, AfterMark, Progress
  <2>14. Bounds'
    BY <2>1, <2>2, <2>4, <1>q, <1>n, <1>m, <1>f, <1>x DEF Bounds, Early, Late, Talking, AfterMark, Progress
  <2>15. Testimony'
    <3>1. Python /\ Good' /\ ctl.pc \in Late \cup {"done"} => ctl'.pc \in Late \cup {"done"}
      BY <2>1, <2>2 DEF Late
    <3>2. \A f : Testified(f) => Testified(f)'
      BY <3>1, <2>1, <2>2, <2>4, <1>f DEF Testified
    <3>4. \A f : ctl'.result = f /\ Testified(f)' => Testified(ctl.result)'
      BY DEF Testified
    <3>5. \A f : f = NoResult => Testified(f)'
      BY TraceFrameTypes DEF Testified
    <3>6. \A f : f = ctl.result => Testified(f)'
      BY <3>2, <1>q DEF Testimony
    <3>7. ctl'.result = ctl.result \/ ctl'.result = NoResult
      BY <2>1, <2>2, <1>x
    <3>3. Testified(ctl.result)'
      BY <3>4, <3>6, <3>5, <3>7
    <3> QED BY <3>2, <3>3, <2>1, <2>2, <1>q, TraceFrameTypes, <1>x DEF Testimony, Progress
  <2> QED BY <2>3, <2>5, <2>6, <2>7, <2>8, <2>9, <2>10, <2>11, <2>12, <2>13, <2>14, <2>15, <1>q, <1>f DEF TraceInv
<1>2. CASE ~(eligible /\ AfterMark = "quiesce") /\ ~ctl.session /\ eligible
  <2>1. /\ ctl.pc = "mark" /\ ~ctl.session
        /\ UNCHANGED <<mode, kernel, files, writes, helper, filesystem, engine, resource, control, stream, cgroup, work>>
        /\ ctl' = [ctl EXCEPT !.pc = AfterMark]
        /\ cmp' = [cmp EXCEPT !.phaseAcknowledgementsComplete = FALSE, !.failure = "observer-not-ready"]
    BY <1>2, <1>0 DEF MarkPhase, observed, sandbox, abort, AfterMark, FirstFailure, PhaseCommand, StopCommand, Python, eligible
  <2>2. ctl' \in ControllerStates /\ ctl'.pc = AfterMark /\ ctl'.step = ctl.step /\ ctl'.session = ctl.session /\ ctl'.windowSequence = ctl.windowSequence /\ ctl'.finalReady = ctl.finalReady /\ ctl'.phaseSignalsComplete = ctl.phaseSignalsComplete /\ ctl'.result = ctl.result /\ ctl'.failure = ctl.failure /\ ctl'.broken = ctl.broken
    BY <2>1, <1>y, <1>n, <1>m, <1>x, TraceFrameTypes DEF ControllerStates, Stages, Early, Late, Talking, TraceFailures
  <2>3. cmp' \in ComparisonStates /\ cmp'.failure = "observer-not-ready" /\ cmp'.preChecks = cmp.preChecks /\ cmp'.confirmedDispatches = cmp.confirmedDispatches
    BY <2>1, <1>y, <1>n, <1>m, <1>x, TraceFrameTypes DEF ComparisonStates
  <2>4. TraceTypes'
    BY <2>1, <2>2, <2>3, <1>y DEF TraceTypes
  <2>5. (Good' => Good) /\ (Clean' => Clean)
    BY <2>1, <2>2, <2>3, <1>f, <1>x DEF Good, Clean, Early
  <2>6. Progress'
    BY <2>1, <2>2, <2>3, <2>5, <1>q, <1>n, <1>m, <1>f, <1>x DEF Progress, Quiet, Good, Early, Late, AfterMark
  <2>7. HelperStaged'
    BY <2>1, <2>2, <2>3, <2>5, <1>q, <1>n, <1>m, <1>f, <1>x DEF HelperStaged, Exchange
  <2>8. Commanded'
    BY <2>1, <2>2, <2>3, <2>5, <1>q, <1>n, <1>m, <1>f, <1>x DEF Commanded
  <2>9. Exchange'
    BY <2>1, <2>2, <2>3, <2>5, <1>q, <1>n, <1>m, <1>f, <1>x DEF Exchange, Progress, Good, Early, Late, Talking, PhaseCommand, CurrentPhase, AfterMark, HelperStaged
  <2>10. Whole'
    BY <2>1, <2>2, <2>3, <2>5, <1>q, <1>n, <1>m, <1>f, <1>x DEF Whole
  <2>11. Compared'
    BY <2>1, <2>2, <2>3, <2>5, <1>q, <1>n, <1>m, <1>f, <1>x DEF Compared, Clean, Good, Progress, Exchange, Quiet, Early, Late, CurrentPhase, AfterMark
  <2>12. Granted'
    BY <2>1, <2>2, <2>3, <2>5, <1>q, <1>n, <1>m, <1>f, <1>x DEF Granted, Clean, Good, Early, Late, Progress
  <2>13. Changed'
    BY <2>1, <2>2, <2>3, <2>5, <1>q, <1>n, <1>m, <1>f, <1>x DEF Changed
  <2>14. Limits'
    BY <2>1, <2>2, <2>3, <2>5, <1>q, <1>n, <1>m, <1>f, <1>x DEF Limits, Early, Late, Talking, AfterMark, Progress
  <2>15. Bounds'
    BY <2>1, <2>2, <2>3, <2>5, <1>q, <1>n, <1>m, <1>f, <1>x DEF Bounds, Early, Late, Talking, AfterMark, Progress
  <2>16. Testimony'
    <3>1. Python /\ Good' /\ ctl.pc \in Late \cup {"done"} => ctl'.pc \in Late \cup {"done"}
      BY <2>1, <2>2, <2>3 DEF Late
    <3>2. \A f : Testified(f) => Testified(f)'
      BY <3>1, <2>1, <2>2, <2>3, <2>5, <1>f DEF Testified
    <3>4. \A f : ctl'.result = f /\ Testified(f)' => Testified(ctl.result)'
      BY DEF Testified
    <3>5. \A f : f = NoResult => Testified(f)'
      BY TraceFrameTypes DEF Testified
    <3>6. \A f : f = ctl.result => Testified(f)'
      BY <3>2, <1>q DEF Testimony
    <3>7. ctl'.result = ctl.result \/ ctl'.result = NoResult
      BY <2>1, <2>2, <2>3, <1>x
    <3>3. Testified(ctl.result)'
      BY <3>4, <3>6, <3>5, <3>7
    <3> QED BY <3>2, <3>3, <2>1, <2>2, <2>3, <1>q, TraceFrameTypes, <1>x DEF Testimony, Progress
  <2> QED BY <2>4, <2>6, <2>7, <2>8, <2>9, <2>10, <2>11, <2>12, <2>13, <2>14, <2>15, <2>16, <1>q, <1>f DEF TraceInv
<1>3. CASE ~(eligible /\ AfterMark = "quiesce") /\ ~ctl.session /\ ~eligible
  <2>1. /\ ctl.pc = "mark" /\ ~ctl.session /\ ~eligible
        /\ UNCHANGED <<mode, kernel, files, writes, helper, cmp, filesystem, engine, resource, control, stream, cgroup, work>>
        /\ ctl' = [ctl EXCEPT !.pc = AfterMark]
    BY <1>3, <1>0 DEF MarkPhase, observed, sandbox, abort, AfterMark, FirstFailure, PhaseCommand, StopCommand, Python, eligible
  <2>2. ctl' \in ControllerStates /\ ctl'.pc = AfterMark /\ ctl'.step = ctl.step /\ ctl'.session = ctl.session /\ ctl'.windowSequence = ctl.windowSequence /\ ctl'.finalReady = ctl.finalReady /\ ctl'.phaseSignalsComplete = ctl.phaseSignalsComplete /\ ctl'.result = ctl.result /\ ctl'.failure = ctl.failure /\ ctl'.broken = ctl.broken
    BY <2>1, <1>y, <1>n, <1>m, <1>x, TraceFrameTypes DEF ControllerStates, Stages, Early, Late, Talking, TraceFailures
  <2>3. TraceTypes'
    BY <2>1, <2>2, <1>y DEF TraceTypes
  <2>4. (Good' => Good) /\ (Clean' => Clean)
    BY <2>1, <2>2, <1>f, <1>x DEF Good, Clean, Early
  <2>5. Progress'
    BY <2>1, <2>2, <2>4, <1>q, <1>n, <1>m, <1>f, <1>x DEF Progress, Quiet, Good, Early, Late, AfterMark
  <2>6. HelperStaged'
    BY <2>1, <2>2, <2>4, <1>q, <1>n, <1>m, <1>f, <1>x DEF HelperStaged, Exchange
  <2>7. Commanded'
    BY <2>1, <2>2, <2>4, <1>q, <1>n, <1>m, <1>f, <1>x DEF Commanded
  <2>8. Exchange'
    BY <2>1, <2>2, <2>4, <1>q, <1>n, <1>m, <1>f, <1>x DEF Exchange, Progress, Good, Early, Late, Talking, PhaseCommand, CurrentPhase, AfterMark, HelperStaged
  <2>9. Whole'
    BY <2>1, <2>2, <2>4, <1>q, <1>n, <1>m, <1>f, <1>x DEF Whole
  <2>10. Compared'
    BY <2>1, <2>2, <2>4, <1>q, <1>n, <1>m, <1>f, <1>x DEF Compared, Clean, Good, Progress, Exchange, Quiet, Early, Late, CurrentPhase, AfterMark
  <2>11. Granted'
    BY <2>1, <2>2, <2>4, <1>q, <1>n, <1>m, <1>f, <1>x DEF Granted, Clean, Good, Early, Late, Progress
  <2>12. Changed'
    BY <2>1, <2>2, <2>4, <1>q, <1>n, <1>m, <1>f, <1>x DEF Changed
  <2>13. Limits'
    BY <2>1, <2>2, <2>4, <1>q, <1>n, <1>m, <1>f, <1>x DEF Limits, Early, Late, Talking, AfterMark, Progress
  <2>14. Bounds'
    BY <2>1, <2>2, <2>4, <1>q, <1>n, <1>m, <1>f, <1>x DEF Bounds, Early, Late, Talking, AfterMark, Progress
  <2>15. Testimony'
    <3>1. Python /\ Good' /\ ctl.pc \in Late \cup {"done"} => ctl'.pc \in Late \cup {"done"}
      BY <2>1, <2>2 DEF Late
    <3>2. \A f : Testified(f) => Testified(f)'
      BY <3>1, <2>1, <2>2, <2>4, <1>f DEF Testified
    <3>4. \A f : ctl'.result = f /\ Testified(f)' => Testified(ctl.result)'
      BY DEF Testified
    <3>5. \A f : f = NoResult => Testified(f)'
      BY TraceFrameTypes DEF Testified
    <3>6. \A f : f = ctl.result => Testified(f)'
      BY <3>2, <1>q DEF Testimony
    <3>7. ctl'.result = ctl.result \/ ctl'.result = NoResult
      BY <2>1, <2>2, <1>x
    <3>3. Testified(ctl.result)'
      BY <3>4, <3>6, <3>5, <3>7
    <3> QED BY <3>2, <3>3, <2>1, <2>2, <1>q, TraceFrameTypes, <1>x DEF Testimony, Progress
  <2> QED BY <2>3, <2>5, <2>6, <2>7, <2>8, <2>9, <2>10, <2>11, <2>12, <2>13, <2>14, <2>15, <1>q, <1>f DEF TraceInv
<1>4. CASE ~(eligible /\ AfterMark = "quiesce") /\ ctl.session /\ ~PhaseControlFailed /\ mode = "node"
  <2>1. /\ ctl.pc = "mark" /\ mode = "node" /\ ~Python /\ ~eligible
        /\ UNCHANGED <<mode, kernel, files, writes, helper, cmp, filesystem, engine, resource, stream, cgroup, work>>
        /\ ctl' = [ctl EXCEPT !.pc = AfterMark]
        /\ control' = [control EXCEPT !.queue = Append(control.queue, PhaseCommand)]
    BY <1>4, <1>0 DEF MarkPhase, observed, sandbox, abort, AfterMark, FirstFailure, PhaseCommand, StopCommand, Python, eligible
  <2>2. ctl' \in ControllerStates /\ ctl'.pc = AfterMark /\ ctl'.step = ctl.step /\ ctl'.session = ctl.session /\ ctl'.windowSequence = ctl.windowSequence /\ ctl'.finalReady = ctl.finalReady /\ ctl'.phaseSignalsComplete = ctl.phaseSignalsComplete /\ ctl'.result = ctl.result /\ ctl'.failure = ctl.failure /\ ctl'.broken = ctl.broken
    BY <2>1, <1>y, <1>n, <1>m, <1>x, TraceFrameTypes DEF ControllerStates, Stages, Early, Late, Talking, TraceFailures
  <2>3. control' \in [queue : Seq(Commands), closed : BOOLEAN] /\ control'.queue = Append(control.queue, PhaseCommand) /\ control'.closed = control.closed
    BY <2>1, <1>y, <1>n, <1>m, <1>x, TraceFrameTypes
  <2>4. TraceTypes'
    BY <2>1, <2>2, <2>3, <1>y DEF TraceTypes
  <2>5. (Good' => Good) /\ (Clean' => Clean)
    BY <2>1, <2>2, <2>3, <1>f, <1>x DEF Good, Clean, Early
  <2>6. Progress'
    BY <2>1, <2>2, <2>3, <2>5, <1>q, <1>n, <1>m, <1>f, <1>x DEF Progress, Quiet, Good, Early, Late, AfterMark
  <2>7. HelperStaged'
    BY <2>1, <2>2, <2>3, <2>5, <1>q, <1>n, <1>m, <1>f, <1>x DEF HelperStaged, Exchange
  <2>8. Commanded'
    BY <2>1, <2>2, <2>3, <2>5, <1>q, <1>n, <1>m, <1>f, <1>x DEF Commanded
  <2>9. Exchange'
    BY <2>1, <2>2, <2>3, <2>5, <1>q, <1>n, <1>m, <1>f, <1>x DEF Exchange, Progress, Good, Early, Late, Talking, PhaseCommand, CurrentPhase, AfterMark, HelperStaged
  <2>10. Whole'
    BY <2>1, <2>2, <2>3, <2>5, <1>q, <1>n, <1>m, <1>f, <1>x DEF Whole
  <2>11. Compared'
    BY <2>1, <2>2, <2>3, <2>5, <1>q, <1>n, <1>m, <1>f, <1>x DEF Compared, Clean, Good, Progress, Exchange, Quiet, Early, Late, CurrentPhase, AfterMark
  <2>12. Granted'
    BY <2>1, <2>2, <2>3, <2>5, <1>q, <1>n, <1>m, <1>f, <1>x DEF Granted, Clean, Good, Early, Late, Progress
  <2>13. Changed'
    BY <2>1, <2>2, <2>3, <2>5, <1>q, <1>n, <1>m, <1>f, <1>x DEF Changed
  <2>14. Limits'
    BY <2>1, <2>2, <2>3, <2>5, <1>q, <1>n, <1>m, <1>f, <1>x DEF Limits, Early, Late, Talking, AfterMark, Progress
  <2>15. Bounds'
    BY <2>1, <2>2, <2>3, <2>5, <1>q, <1>n, <1>m, <1>f, <1>x DEF Bounds, Early, Late, Talking, AfterMark, Progress
  <2>16. Testimony'
    <3>1. Python /\ Good' /\ ctl.pc \in Late \cup {"done"} => ctl'.pc \in Late \cup {"done"}
      BY <2>1, <2>2, <2>3 DEF Late
    <3>2. \A f : Testified(f) => Testified(f)'
      BY <3>1, <2>1, <2>2, <2>3, <2>5, <1>f DEF Testified
    <3>4. \A f : ctl'.result = f /\ Testified(f)' => Testified(ctl.result)'
      BY DEF Testified
    <3>5. \A f : f = NoResult => Testified(f)'
      BY TraceFrameTypes DEF Testified
    <3>6. \A f : f = ctl.result => Testified(f)'
      BY <3>2, <1>q DEF Testimony
    <3>7. ctl'.result = ctl.result \/ ctl'.result = NoResult
      BY <2>1, <2>2, <2>3, <1>x
    <3>3. Testified(ctl.result)'
      BY <3>4, <3>6, <3>5, <3>7
    <3> QED BY <3>2, <3>3, <2>1, <2>2, <2>3, <1>q, TraceFrameTypes, <1>x DEF Testimony, Progress
  <2> QED BY <2>4, <2>6, <2>7, <2>8, <2>9, <2>10, <2>11, <2>12, <2>13, <2>14, <2>15, <2>16, <1>q, <1>f DEF TraceInv
<1>5. CASE ~(eligible /\ AfterMark = "quiesce") /\ ctl.session /\ ~PhaseControlFailed /\ mode # "node"
  <2>1. /\ ctl.pc = "mark" /\ (eligible => AfterMark = "dispatch")
        /\ UNCHANGED <<mode, kernel, files, writes, helper, cmp, filesystem, engine, resource, stream, cgroup, work>>
        /\ ctl' = [ctl EXCEPT !.pc = "awaitAck"]
        /\ control' = [control EXCEPT !.queue = Append(control.queue, PhaseCommand)]
    BY <1>5, <1>0 DEF MarkPhase, observed, sandbox, abort, AfterMark, FirstFailure, PhaseCommand, StopCommand, Python, eligible
  <2>2. ctl' \in ControllerStates /\ ctl'.pc = "awaitAck" /\ ctl'.step = ctl.step /\ ctl'.session = ctl.session /\ ctl'.windowSequence = ctl.windowSequence /\ ctl'.finalReady = ctl.finalReady /\ ctl'.phaseSignalsComplete = ctl.phaseSignalsComplete /\ ctl'.result = ctl.result /\ ctl'.failure = ctl.failure /\ ctl'.broken = ctl.broken
    BY <2>1, <1>y, <1>n, <1>m, <1>x, TraceFrameTypes DEF ControllerStates, Stages, Early, Late, Talking, TraceFailures
  <2>3. control' \in [queue : Seq(Commands), closed : BOOLEAN] /\ control'.queue = Append(control.queue, PhaseCommand) /\ control'.closed = control.closed
    BY <2>1, <1>y, <1>n, <1>m, <1>x, TraceFrameTypes
  <2>4. TraceTypes'
    BY <2>1, <2>2, <2>3, <1>y DEF TraceTypes
  <2>5. (Good' => Good) /\ (Clean' => Clean)
    BY <2>1, <2>2, <2>3, <1>f, <1>x DEF Good, Clean, Early
  <2>6. Progress'
    BY <2>1, <2>2, <2>3, <2>5, <1>q, <1>n, <1>m, <1>f, <1>x DEF Progress, Quiet, Good, Early, Late, AfterMark
  <2>7. HelperStaged'
    BY <2>1, <2>2, <2>3, <2>5, <1>q, <1>n, <1>m, <1>f, <1>x DEF HelperStaged, Exchange
  <2>8. Commanded'
    BY <2>1, <2>2, <2>3, <2>5, <1>q, <1>n, <1>m, <1>f, <1>x DEF Commanded
  <2>9. Exchange'
    <3>1. Python /\ Good' => control.queue = <<>> /\ stream.events = <<>> /\ Started /\ ~control.closed
      BY <2>1, <2>2, <2>3, <2>5, <1>q DEF Exchange, Talking, Late, Progress
    <3>2. Len(control'.queue) <= 1 \/ control.queue # <<>>
      BY <2>1, <2>2, <2>3, <1>x
    <3>3. Len(stream.events) <= 1 \/ stream.events # <<>>
      OBVIOUS
    <3>4. PhaseCommand' = PhaseCommand
      BY <2>1, <2>2, <2>3, <1>f DEF PhaseCommand, CurrentPhase
    <3>5. ctl'.pc = "awaitAck" /\ ctl'.pc \notin Talking \cup Late \cup {"done", "preflight", "start", "awaitReady"}
      BY <2>1, <2>2, <2>3 DEF Talking, Late
    <3> QED BY <3>1, <3>2, <3>3, <3>4, <3>5, <2>1, <2>2, <2>3, <1>x, <1>f DEF Exchange
  <2>10. Whole'
    BY <2>1, <2>2, <2>3, <2>5, <1>q, <1>n, <1>m, <1>f, <1>x DEF Whole
  <2>11. Compared'
    BY <2>1, <2>2, <2>3, <2>5, <1>q, <1>n, <1>m, <1>f, <1>x DEF Compared, Clean, Good, Progress, Exchange, Quiet, Early, Late, CurrentPhase, AfterMark
  <2>12. Granted'
    <3>1. UNCHANGED <<writes>> /\ ctl'.step = ctl.step /\ ctl.pc = "mark"
         /\ filesystem'.ambiguous = filesystem.ambiguous /\ filesystem'.patterns = filesystem.patterns
      BY <2>1, <2>2, <2>3
    <3>2. Clean' => \A i \in DOMAIN writes :
           /\ writes[i].step <= ctl.step /\ writes[i].step # ctl.step
           /\ writes[i].step < ctl.step /\ ~filesystem.ambiguous =>
                RulesOf(Steps[writes[i].step]) \subseteq filesystem.patterns
      BY <2>5, <1>q, <3>1 DEF Granted
    <3> QED BY <3>1, <3>2, <1>f DEF Granted
  <2>13. Changed'
    BY <2>1, <2>2, <2>3, <2>5, <1>q, <1>n, <1>m, <1>f, <1>x DEF Changed
  <2>14. Limits'
    BY <2>1, <2>2, <2>3, <2>5, <1>q, <1>n, <1>m, <1>f, <1>x DEF Limits, Early, Late, Talking, AfterMark, Progress
  <2>15. Bounds'
    BY <2>1, <2>2, <2>3, <2>5, <1>q, <1>n, <1>m, <1>f, <1>x DEF Bounds, Early, Late, Talking, AfterMark, Progress
  <2>16. Testimony'
    <3>1. Python /\ Good' /\ ctl.pc \in Late \cup {"done"} => ctl'.pc \in Late \cup {"done"}
      BY <2>1, <2>2, <2>3 DEF Late
    <3>2. \A f : Testified(f) => Testified(f)'
      BY <3>1, <2>1, <2>2, <2>3, <2>5, <1>f DEF Testified
    <3>4. \A f : ctl'.result = f /\ Testified(f)' => Testified(ctl.result)'
      BY DEF Testified
    <3>5. \A f : f = NoResult => Testified(f)'
      BY TraceFrameTypes DEF Testified
    <3>6. \A f : f = ctl.result => Testified(f)'
      BY <3>2, <1>q DEF Testimony
    <3>7. ctl'.result = ctl.result \/ ctl'.result = NoResult
      BY <2>1, <2>2, <2>3, <1>x
    <3>3. Testified(ctl.result)'
      BY <3>4, <3>6, <3>5, <3>7
    <3> QED BY <3>2, <3>3, <2>1, <2>2, <2>3, <1>q, TraceFrameTypes, <1>x DEF Testimony, Progress
  <2> QED BY <2>4, <2>6, <2>7, <2>8, <2>9, <2>10, <2>11, <2>12, <2>13, <2>14, <2>15, <2>16, <1>q, <1>f DEF TraceInv
<1>6. CASE PhaseControlFailed
  <2>1. /\ ctl.pc = "mark" /\ PhaseControlFailed
        /\ UNCHANGED <<mode, kernel, files, writes, helper, filesystem, engine, resource, stream, cgroup, work>>
        /\ TRUE
        /\ TRUE
        /\ TRUE
    BY <1>6, <1>0 DEF MarkPhase, observed, sandbox, abort, AfterMark, FirstFailure, PhaseCommand, StopCommand, Python, eligible
  <2>2. /\ ctl' \in ControllerStates /\ ctl'.pc = AfterMark /\ ctl'.step = ctl.step /\ ~ctl'.session
        /\ ctl'.windowSequence = ctl.windowSequence /\ ctl'.finalReady = ctl.finalReady
        /\ ~ctl'.phaseSignalsComplete /\ ctl'.result = ctl.result /\ ctl'.broken = ctl.broken
    BY <2>1, <1>y, <1>n, <1>m, <1>x, TraceFrameTypes DEF ControllerStates, Stages, Early, Late, Talking, TraceFailures
  <2>3. cmp' \in ComparisonStates /\ cmp'.preChecks = cmp.preChecks /\ cmp'.confirmedDispatches = cmp.confirmedDispatches
    BY <2>1, <1>y, <1>n, <1>m, <1>x, TraceFrameTypes DEF ComparisonStates
  <2>4. control' \in [queue : Seq(Commands), closed : BOOLEAN] /\ control'.queue = control.queue /\ control'.closed
    BY <2>1, <1>y, <1>n, <1>m, <1>x, TraceFrameTypes
  <2>5. TraceTypes'
    BY <2>1, <2>2, <2>3, <2>4, <1>y DEF TraceTypes
  <2>6. (Good' => Good) /\ (Clean' => Clean)
    BY <2>1, <2>2, <2>3, <2>4, <1>f, <1>x DEF Good, Clean, Early
  <2>7. Progress'
    BY <2>1, <2>2, <2>3, <2>4, <2>6, <1>q, <1>n, <1>m, <1>f, <1>x DEF Progress, Quiet, Good, Early, Late, AfterMark
  <2>8. HelperStaged'
    BY <2>1, <2>2, <2>3, <2>4, <2>6, <1>q, <1>n, <1>m, <1>f, <1>x DEF HelperStaged, Exchange
  <2>9. Commanded'
    BY <2>1, <2>2, <2>3, <2>4, <2>6, <1>q, <1>n, <1>m, <1>f, <1>x DEF Commanded
  <2>10. Exchange'
    BY <2>1, <2>2, <2>3, <2>4, <2>6, <1>q, <1>n, <1>m, <1>f, <1>x DEF Exchange, Progress, Good, Early, Late, Talking, PhaseCommand, CurrentPhase, AfterMark, HelperStaged
  <2>11. Whole'
    BY <2>1, <2>2, <2>3, <2>4, <2>6, <1>q, <1>n, <1>m, <1>f, <1>x DEF Whole
  <2>12. Compared'
    BY <2>1, <2>2, <2>3, <2>4, <2>6, <1>q, <1>n, <1>m, <1>f, <1>x DEF Compared, Clean, Good, Progress, Exchange, Quiet, Early, Late, CurrentPhase, AfterMark
  <2>13. Granted'
    BY <2>1, <2>2, <2>3, <2>4, <2>6, <1>q, <1>n, <1>m, <1>f, <1>x DEF Granted, Clean, Good, Early, Late, Progress
  <2>14. Changed'
    BY <2>1, <2>2, <2>3, <2>4, <2>6, <1>q, <1>n, <1>m, <1>f, <1>x DEF Changed
  <2>15. Limits'
    BY <2>1, <2>2, <2>3, <2>4, <2>6, <1>q, <1>n, <1>m, <1>f, <1>x DEF Limits, Early, Late, Talking, AfterMark, Progress
  <2>16. Bounds'
    BY <2>1, <2>2, <2>3, <2>4, <2>6, <1>q, <1>n, <1>m, <1>f, <1>x DEF Bounds, Early, Late, Talking, AfterMark, Progress
  <2>17. Testimony'
    <3>1. Python /\ Good' /\ ctl.pc \in Late \cup {"done"} => ctl'.pc \in Late \cup {"done"}
      BY <2>1, <2>2, <2>3, <2>4 DEF Late
    <3>2. \A f : Testified(f) => Testified(f)'
      BY <3>1, <2>1, <2>2, <2>3, <2>4, <2>6, <1>f DEF Testified
    <3>4. \A f : ctl'.result = f /\ Testified(f)' => Testified(ctl.result)'
      BY DEF Testified
    <3>5. \A f : f = NoResult => Testified(f)'
      BY TraceFrameTypes DEF Testified
    <3>6. \A f : f = ctl.result => Testified(f)'
      BY <3>2, <1>q DEF Testimony
    <3>7. ctl'.result = ctl.result \/ ctl'.result = NoResult
      BY <2>1, <2>2, <2>3, <2>4, <1>x
    <3>3. Testified(ctl.result)'
      BY <3>4, <3>6, <3>5, <3>7
    <3> QED BY <3>2, <3>3, <2>1, <2>2, <2>3, <2>4, <1>q, TraceFrameTypes, <1>x DEF Testimony, Progress
  <2> QED BY <2>5, <2>7, <2>8, <2>9, <2>10, <2>11, <2>12, <2>13, <2>14, <2>15, <2>16, <2>17, <1>q, <1>f DEF TraceInv
<1> QED BY <1>0, <1>1, <1>2, <1>3, <1>4, <1>5, <1>6 DEF MarkPhase, PhaseCommand

LEMMA AwaitAckKeeps ==
  ASSUME TraceInv, NEW inTime \in BOOLEAN, AwaitAck(inTime)
  PROVE  TraceInv'
<1> USE TraceAssumption, ChannelSizeAssumption
<1>0. AwaitAck(inTime)
  OBVIOUS
<1>q. /\ TraceTypes /\ Progress /\ HelperStaged /\ Commanded /\ Exchange /\ TreeClosed /\ Whole
      /\ Compared /\ Granted /\ Changed /\ Testimony /\ Limits /\ Bounds
  BY DEF TraceInv
<1>y. /\ mode \in Modes /\ ctl \in ControllerStates /\ cmp \in ComparisonStates
      /\ filesystem \in FilesystemStates /\ engine \in EngineStates /\ resource \in ResourceStates
      /\ control \in [queue : Seq(Commands), closed : BOOLEAN]
      /\ stream \in StreamStates(TraceFrames) /\ helper \in HelperStates /\ kernel \in Seq(Events)
      /\ files \in Snapshots /\ cgroup \in ResourceSnapshot
      /\ work \in [running : BOOLEAN, stray : BOOLEAN] /\ writes \in Seq([step : Nat, path : PathSet])
  BY <1>q DEF TraceTypes
<1>b. Len(stream.events) <= ChannelSize /\ ChannelSize \in Nat
  BY <1>q DEF Bounds
<1>m. control.queue \in Seq(Commands) /\ stream.events \in Seq(TraceFrames) /\ Len(stream.events) \in Nat
      /\ (writes = <<>> => DOMAIN writes = {})
  BY <1>y DEF StreamStates
<1>k. Len(Steps) \in Nat /\ Len(Steps) >= 1
  BY TraceAssumption
<1>n. /\ ctl.step \in Nat /\ ctl.windowSequence \in Nat /\ cmp.preChecks \in Nat /\ cmp.confirmedDispatches \in Nat
      /\ Len(Steps) \in Nat /\ Len(Steps) >= 1
  BY <1>y, <1>k DEF ControllerStates, ComparisonStates
<1>t. stream.events # <<>> =>
        /\ TakeFrame(stream) \in StreamStates(TraceFrames) /\ Head(stream.events) \in TraceFrames
        /\ Head(stream.events) = stream.events[1] /\ 1 \in DOMAIN stream.events
        /\ Len(TakeFrame(stream).events) = Len(stream.events) - 1
        /\ Len(stream.events) \in Nat \ {0}
        /\ (Len(stream.events) <= 1 => TakeFrame(stream).events = <<>>)
        /\ \A i \in DOMAIN TakeFrame(stream).events :
             \E j \in DOMAIN stream.events : TakeFrame(stream).events[i] = stream.events[j]
  <2>1. ASSUME stream.events # <<>>
        PROVE  /\ TakeFrame(stream) \in StreamStates(TraceFrames) /\ Head(stream.events) \in TraceFrames
               /\ Head(stream.events) = stream.events[1] /\ 1 \in DOMAIN stream.events
               /\ TakeFrame(stream).events = Tail(stream.events)
               /\ \A i \in DOMAIN TakeFrame(stream).events :
                    \E j \in DOMAIN stream.events : TakeFrame(stream).events[i] = stream.events[j]
    BY <2>1, <1>y, TakeFrameShrinks
  <2>2. stream.events # <<>> =>
          /\ Len(stream.events) \in Nat \ {0} /\ Len(Tail(stream.events)) = Len(stream.events) - 1
          /\ (Len(stream.events) <= 1 => Tail(stream.events) = <<>>)
    BY <1>m
  <2> QED BY <2>1, <2>2
<1>u. UNCHANGED <<mode, helper, kernel, files, writes>>
  BY <1>0 DEF AwaitAck, Taken, Expired, observed, sandbox
<1>f. /\ (Python' <=> Python) /\ (Started' <=> Started) /\ (Live' <=> Live) /\ (Poisoned' <=> Poisoned)
      /\ Heard' = Heard /\ Written' = Written /\ Tree(files)' = Tree(files) /\ (TreeClosed' <=> TreeClosed)
      /\ (eligible' <=> eligible) /\ PathsOf(helper.seen)' = PathsOf(helper.seen)
      /\ (\A w : (Recorded(w)' <=> Recorded(w)) /\ (Waits(w)' <=> Waits(w)))
      /\ (\A phase : RulesOf(phase)' = RulesOf(phase)) /\ (eligible => Python)
  BY <1>u, ControllerFrame DEF eligible, Python
<1>a. /\ AfterMark \in {"dispatch", "quiesce"}
      /\ AfterMark = "dispatch" <=> ctl.step <= Len(Steps) /\ ~ctl.broken
      /\ AfterMark = "dispatch" => CurrentPhase = Steps[ctl.step]
  BY DEF AfterMark, CurrentPhase
<1>c. AfterMark \in Stages /\ ctl.windowSequence + 1 \in Nat
  BY <1>a, <1>n DEF Stages, Talking
<1>z. \A d : d = [ctl EXCEPT !.windowSequence = ctl.windowSequence + 1, !.pc = AfterMark] =>
        /\ d \in ControllerStates /\ d.pc = AfterMark /\ d.windowSequence = ctl.windowSequence + 1
        /\ d.step = ctl.step /\ d.session = ctl.session /\ d.finalReady = ctl.finalReady
        /\ d.phaseSignalsComplete = ctl.phaseSignalsComplete /\ d.result = ctl.result
        /\ d.failure = ctl.failure /\ d.broken = ctl.broken
  <2> DEFINE n == ctl.windowSequence + 1
  <2>1. n \in Nat /\ AfterMark \in Stages /\ ctl \in ControllerStates
    BY <1>c, <1>y
  <2> HIDE DEF n
  <2>2. \A d : d = [ctl EXCEPT !.windowSequence = n, !.pc = AfterMark] =>
        /\ d \in ControllerStates /\ d.pc = AfterMark /\ d.windowSequence = n
        /\ d.step = ctl.step /\ d.session = ctl.session /\ d.finalReady = ctl.finalReady
        /\ d.phaseSignalsComplete = ctl.phaseSignalsComplete /\ d.result = ctl.result
        /\ d.failure = ctl.failure /\ d.broken = ctl.broken
    BY <2>1 DEF ControllerStates
  <2> QED BY <2>2 DEF n
<1>x. /\ AfterMark \in {"dispatch", "quiesce"}
      /\ AfterMark = "dispatch" <=> ctl.step <= Len(Steps) /\ ~ctl.broken
      /\ AfterMark = "dispatch" => CurrentPhase = Steps[ctl.step]
      /\ PhaseControlFailed =>
           /\ ctl' \in ControllerStates /\ ctl'.pc = AfterMark /\ ctl'.step = ctl.step /\ ~ctl'.session
           /\ ctl'.windowSequence = ctl.windowSequence /\ ctl'.finalReady = ctl.finalReady
           /\ ~ctl'.phaseSignalsComplete /\ ctl'.result = ctl.result /\ ctl'.broken = ctl.broken
           /\ cmp' \in ComparisonStates /\ cmp'.preChecks = cmp.preChecks
           /\ cmp'.confirmedDispatches = cmp.confirmedDispatches
           /\ control' \in [queue : Seq(Commands), closed : BOOLEAN]
           /\ control'.queue = control.queue /\ control'.closed
      /\ AfterMark \in Stages /\ ctl.windowSequence + 1 \in Nat
  BY <1>a, <1>c, <1>y, PhaseControlFailedDoes
<1>1. CASE stream' = TakeFrame(stream) /\ stream.events # <<>> /\ validPhaseAck(Head(stream.events)) /\ ctl' = [ctl EXCEPT !.pc = AfterMark, !.windowSequence = ctl.windowSequence + 1] /\ UNCHANGED <<cmp, control>>
  <2>1. /\ ctl.pc = "awaitAck" /\ stream.events # <<>> /\ ctl.windowSequence + 1 <= WindowLimit
        /\ UNCHANGED <<mode, kernel, files, writes, helper, cmp, filesystem, engine, resource, control, cgroup, work>>
        /\ ctl' = [ctl EXCEPT !.windowSequence = ctl.windowSequence + 1, !.pc = AfterMark]
        /\ stream' = TakeFrame(stream)
    BY <1>1, <1>0 DEF AwaitAck, Taken, Expired, observed, sandbox, abort, AfterMark, FirstFailure, validPhaseAck
  <2>2. /\ ctl' \in ControllerStates /\ ctl'.pc = AfterMark /\ ctl'.windowSequence = ctl.windowSequence + 1
        /\ ctl'.step = ctl.step /\ ctl'.session = ctl.session /\ ctl'.finalReady = ctl.finalReady
        /\ ctl'.phaseSignalsComplete = ctl.phaseSignalsComplete /\ ctl'.result = ctl.result
        /\ ctl'.failure = ctl.failure /\ ctl'.broken = ctl.broken
    BY <2>1, <1>z
  <2>3. /\ stream' \in StreamStates(TraceFrames) /\ (Len(stream.events) <= 1 => stream'.events = <<>>)
        /\ Len(stream'.events) <= Len(stream.events) /\ Len(stream'.events) \in Nat
        /\ \A i \in DOMAIN stream'.events : \E j \in DOMAIN stream.events : stream'.events[i] = stream.events[j]
    BY <2>1, <1>t
  <2>4. Len(stream'.events) <= ChannelSize
    BY <2>3, <1>m, <1>b, Below
  <2>5. TraceTypes'
    BY <2>1, <2>2, <2>3, <2>4, <1>y DEF TraceTypes
  <2>6. (Good' => Good) /\ (Clean' => Clean)
    BY <2>1, <2>2, <2>3, <2>4, <1>f, <1>x DEF Good, Clean, Early
  <2>7. Progress'
    BY <2>1, <2>2, <2>3, <2>4, <2>6, <1>q, <1>n, <1>m, <1>f, <1>t, <1>x DEF Progress, Quiet, Good, Early, Late, AfterMark
  <2>8. HelperStaged'
    BY <2>1, <2>2, <2>3, <2>4, <2>6, <1>q, <1>n, <1>m, <1>f, <1>t, <1>x DEF HelperStaged, Exchange
  <2>9. Commanded'
    BY <2>1, <2>2, <2>3, <2>4, <2>6, <1>q, <1>n, <1>m, <1>f, <1>x DEF Commanded
  <2>10. Exchange'
    BY <2>1, <2>2, <2>3, <2>4, <2>6, <1>q, <1>n, <1>m, <1>f, <1>t, <1>x DEF Exchange, Progress, Good, Early, Late, Talking, PhaseCommand, CurrentPhase, AfterMark, HelperStaged
  <2>11. Whole'
    BY <2>1, <2>2, <2>3, <2>4, <2>6, <1>q, <1>n, <1>m, <1>f, <1>x DEF Whole
  <2>12. Compared'
    BY <2>1, <2>2, <2>3, <2>4, <2>6, <1>q, <1>n, <1>m, <1>f, <1>x DEF Compared, Clean, Good, Progress, Exchange, Quiet, Early, Late, CurrentPhase, AfterMark
  <2>13. Granted'
    <3>1. UNCHANGED <<writes>> /\ ctl'.step = ctl.step /\ ctl.pc = "awaitAck"
         /\ filesystem'.ambiguous = filesystem.ambiguous /\ filesystem'.patterns = filesystem.patterns
      BY <2>1, <2>2, <2>3, <2>4
    <3>2. Clean' => \A i \in DOMAIN writes :
           /\ writes[i].step <= ctl.step /\ writes[i].step # ctl.step
           /\ writes[i].step < ctl.step /\ ~filesystem.ambiguous =>
                RulesOf(Steps[writes[i].step]) \subseteq filesystem.patterns
      BY <2>6, <1>q, <3>1 DEF Granted
    <3> QED BY <3>1, <3>2, <1>f DEF Granted
  <2>14. Changed'
    BY <2>1, <2>2, <2>3, <2>4, <2>6, <1>q, <1>n, <1>m, <1>f, <1>x DEF Changed
  <2>15. Limits'
    BY <2>1, <2>2, <2>3, <2>4, <2>6, <1>q, <1>n, <1>m, <1>f, <1>x DEF Limits, Early, Late, Talking, AfterMark, Progress
  <2>16. Bounds'
    BY <2>1, <2>2, <2>3, <2>4, <2>6, <1>q, <1>n, <1>m, <1>f, <1>x DEF Bounds, Early, Late, Talking, AfterMark, Progress
  <2>17. Testimony'
    <3>1. Python /\ Good' /\ ctl.pc \in Late \cup {"done"} => ctl'.pc \in Late \cup {"done"}
      BY <2>1, <2>2, <2>3, <2>4 DEF Late
    <3>2. \A f : Testified(f) => Testified(f)'
      BY <3>1, <2>1, <2>2, <2>3, <2>4, <2>6, <1>f DEF Testified
    <3>3. \A i \in DOMAIN stream'.events : Testified(stream.events[i])'
      BY <3>2, <2>1, <2>2, <2>3, <2>4, <1>q DEF Testimony
    <3>4. \A f : ctl'.result = f /\ Testified(f)' => Testified(ctl.result)'
      BY DEF Testified
    <3>5. Testified(Head(stream.events)) /\ Testified(ctl.result)
      BY <1>q, <1>t, <2>1, <2>2, <2>3, <2>4 DEF Testimony
    <3>6. \A f : f = Head(stream.events) \/ f = ctl.result => Testified(f)'
      BY <3>2, <3>5
    <3>7. Testified(ctl.result)'
      BY <3>4, <3>6, <2>1, <2>2, <2>3, <2>4
    <3> QED BY <3>3, <3>7, <2>1, <2>2, <2>3, <2>4, <1>q, TraceFrameTypes, <1>x DEF Testimony, Progress, decodedFinal, decodedFailed
  <2> QED BY <2>5, <2>7, <2>8, <2>9, <2>10, <2>11, <2>12, <2>13, <2>14, <2>15, <2>16, <2>17, <1>q, <1>f DEF TraceInv
<1>2. CASE stream' = TakeFrame(stream) /\ stream.events # <<>> /\ PhaseControlFailed
  <2>1. /\ ctl.pc = "awaitAck" /\ stream.events # <<>> /\ PhaseControlFailed
        /\ UNCHANGED <<mode, kernel, files, writes, helper, filesystem, engine, resource, cgroup, work>>
        /\ TRUE
        /\ TRUE
        /\ TRUE
        /\ stream' = TakeFrame(stream)
    BY <1>2, <1>0 DEF AwaitAck, Taken, Expired, observed, sandbox, abort, AfterMark, FirstFailure, validPhaseAck
  <2>2. /\ ctl' \in ControllerStates /\ ctl'.pc = AfterMark /\ ctl'.step = ctl.step /\ ~ctl'.session
        /\ ctl'.windowSequence = ctl.windowSequence /\ ctl'.finalReady = ctl.finalReady
        /\ ~ctl'.phaseSignalsComplete /\ ctl'.result = ctl.result /\ ctl'.broken = ctl.broken
    BY <2>1, <1>y, <1>n, <1>m, <1>t, <1>x, TraceFrameTypes DEF ControllerStates, Stages, Early, Late, Talking, TraceFailures
  <2>3. cmp' \in ComparisonStates /\ cmp'.preChecks = cmp.preChecks /\ cmp'.confirmedDispatches = cmp.confirmedDispatches
    BY <2>1, <1>y, <1>n, <1>m, <1>x, TraceFrameTypes DEF ComparisonStates
  <2>4. control' \in [queue : Seq(Commands), closed : BOOLEAN] /\ control'.queue = control.queue /\ control'.closed
    BY <2>1, <1>y, <1>n, <1>m, <1>x, TraceFrameTypes
  <2>5. /\ stream' \in StreamStates(TraceFrames) /\ (Len(stream.events) <= 1 => stream'.events = <<>>)
        /\ Len(stream'.events) <= Len(stream.events) /\ Len(stream'.events) \in Nat
        /\ \A i \in DOMAIN stream'.events : \E j \in DOMAIN stream.events : stream'.events[i] = stream.events[j]
    BY <2>1, <1>t
  <2>6. Len(stream'.events) <= ChannelSize
    BY <2>5, <1>m, <1>b, Below
  <2>7. TraceTypes'
    BY <2>1, <2>2, <2>3, <2>4, <2>5, <2>6, <1>y DEF TraceTypes
  <2>8. (Good' => Good) /\ (Clean' => Clean)
    BY <2>1, <2>2, <2>3, <2>4, <2>5, <2>6, <1>f, <1>x DEF Good, Clean, Early
  <2>9. Progress'
    BY <2>1, <2>2, <2>3, <2>4, <2>5, <2>6, <2>8, <1>q, <1>n, <1>m, <1>f, <1>t, <1>x DEF Progress, Quiet, Good, Early, Late, AfterMark
  <2>10. HelperStaged'
    BY <2>1, <2>2, <2>3, <2>4, <2>5, <2>6, <2>8, <1>q, <1>n, <1>m, <1>f, <1>t, <1>x DEF HelperStaged, Exchange
  <2>11. Commanded'
    BY <2>1, <2>2, <2>3, <2>4, <2>5, <2>6, <2>8, <1>q, <1>n, <1>m, <1>f, <1>x DEF Commanded
  <2>12. Exchange'
    BY <2>1, <2>2, <2>3, <2>4, <2>5, <2>6, <2>8, <1>q, <1>n, <1>m, <1>f, <1>t, <1>x DEF Exchange, Progress, Good, Early, Late, Talking, PhaseCommand, CurrentPhase, AfterMark, HelperStaged
  <2>13. Whole'
    BY <2>1, <2>2, <2>3, <2>4, <2>5, <2>6, <2>8, <1>q, <1>n, <1>m, <1>f, <1>x DEF Whole
  <2>14. Compared'
    BY <2>1, <2>2, <2>3, <2>4, <2>5, <2>6, <2>8, <1>q, <1>n, <1>m, <1>f, <1>x DEF Compared, Clean, Good, Progress, Exchange, Quiet, Early, Late, CurrentPhase, AfterMark
  <2>15. Granted'
    BY <2>1, <2>2, <2>3, <2>4, <2>5, <2>6, <2>8, <1>q, <1>n, <1>m, <1>f, <1>x DEF Granted, Clean, Good, Early, Late, Progress
  <2>16. Changed'
    BY <2>1, <2>2, <2>3, <2>4, <2>5, <2>6, <2>8, <1>q, <1>n, <1>m, <1>f, <1>x DEF Changed
  <2>17. Limits'
    BY <2>1, <2>2, <2>3, <2>4, <2>5, <2>6, <2>8, <1>q, <1>n, <1>m, <1>f, <1>x DEF Limits, Early, Late, Talking, AfterMark, Progress
  <2>18. Bounds'
    BY <2>1, <2>2, <2>3, <2>4, <2>5, <2>6, <2>8, <1>q, <1>n, <1>m, <1>f, <1>x DEF Bounds, Early, Late, Talking, AfterMark, Progress
  <2>19. Testimony'
    <3>1. Python /\ Good' /\ ctl.pc \in Late \cup {"done"} => ctl'.pc \in Late \cup {"done"}
      BY <2>1, <2>2, <2>3, <2>4, <2>5, <2>6 DEF Late
    <3>2. \A f : Testified(f) => Testified(f)'
      BY <3>1, <2>1, <2>2, <2>3, <2>4, <2>5, <2>6, <2>8, <1>f DEF Testified
    <3>3. \A i \in DOMAIN stream'.events : Testified(stream.events[i])'
      BY <3>2, <2>1, <2>2, <2>3, <2>4, <2>5, <2>6, <1>q DEF Testimony
    <3>4. \A f : ctl'.result = f /\ Testified(f)' => Testified(ctl.result)'
      BY DEF Testified
    <3>5. Testified(Head(stream.events)) /\ Testified(ctl.result)
      BY <1>q, <1>t, <2>1, <2>2, <2>3, <2>4, <2>5, <2>6 DEF Testimony
    <3>6. \A f : f = Head(stream.events) \/ f = ctl.result => Testified(f)'
      BY <3>2, <3>5
    <3>7. Testified(ctl.result)'
      BY <3>4, <3>6, <2>1, <2>2, <2>3, <2>4, <2>5, <2>6
    <3> QED BY <3>3, <3>7, <2>1, <2>2, <2>3, <2>4, <2>5, <2>6, <1>q, TraceFrameTypes, <1>x DEF Testimony, Progress, decodedFinal, decodedFailed
  <2> QED BY <2>7, <2>9, <2>10, <2>11, <2>12, <2>13, <2>14, <2>15, <2>16, <2>17, <2>18, <2>19, <1>q, <1>f DEF TraceInv
<1>3. CASE stream' = stream /\ PhaseControlFailed
  <2>1. /\ ctl.pc = "awaitAck" /\ PhaseControlFailed
        /\ UNCHANGED <<mode, kernel, files, writes, helper, filesystem, engine, resource, stream, cgroup, work>>
        /\ TRUE
        /\ TRUE
        /\ TRUE
    BY <1>3, <1>0 DEF AwaitAck, Taken, Expired, observed, sandbox, abort, AfterMark, FirstFailure, validPhaseAck
  <2>2. /\ ctl' \in ControllerStates /\ ctl'.pc = AfterMark /\ ctl'.step = ctl.step /\ ~ctl'.session
        /\ ctl'.windowSequence = ctl.windowSequence /\ ctl'.finalReady = ctl.finalReady
        /\ ~ctl'.phaseSignalsComplete /\ ctl'.result = ctl.result /\ ctl'.broken = ctl.broken
    BY <2>1, <1>y, <1>n, <1>m, <1>x, TraceFrameTypes DEF ControllerStates, Stages, Early, Late, Talking, TraceFailures
  <2>3. cmp' \in ComparisonStates /\ cmp'.preChecks = cmp.preChecks /\ cmp'.confirmedDispatches = cmp.confirmedDispatches
    BY <2>1, <1>y, <1>n, <1>m, <1>x, TraceFrameTypes DEF ComparisonStates
  <2>4. control' \in [queue : Seq(Commands), closed : BOOLEAN] /\ control'.queue = control.queue /\ control'.closed
    BY <2>1, <1>y, <1>n, <1>m, <1>x, TraceFrameTypes
  <2>5. TraceTypes'
    BY <2>1, <2>2, <2>3, <2>4, <1>y DEF TraceTypes
  <2>6. (Good' => Good) /\ (Clean' => Clean)
    BY <2>1, <2>2, <2>3, <2>4, <1>f, <1>x DEF Good, Clean, Early
  <2>7. Progress'
    BY <2>1, <2>2, <2>3, <2>4, <2>6, <1>q, <1>n, <1>m, <1>f, <1>x DEF Progress, Quiet, Good, Early, Late, AfterMark
  <2>8. HelperStaged'
    BY <2>1, <2>2, <2>3, <2>4, <2>6, <1>q, <1>n, <1>m, <1>f, <1>x DEF HelperStaged, Exchange
  <2>9. Commanded'
    BY <2>1, <2>2, <2>3, <2>4, <2>6, <1>q, <1>n, <1>m, <1>f, <1>x DEF Commanded
  <2>10. Exchange'
    BY <2>1, <2>2, <2>3, <2>4, <2>6, <1>q, <1>n, <1>m, <1>f, <1>x DEF Exchange, Progress, Good, Early, Late, Talking, PhaseCommand, CurrentPhase, AfterMark, HelperStaged
  <2>11. Whole'
    BY <2>1, <2>2, <2>3, <2>4, <2>6, <1>q, <1>n, <1>m, <1>f, <1>x DEF Whole
  <2>12. Compared'
    BY <2>1, <2>2, <2>3, <2>4, <2>6, <1>q, <1>n, <1>m, <1>f, <1>x DEF Compared, Clean, Good, Progress, Exchange, Quiet, Early, Late, CurrentPhase, AfterMark
  <2>13. Granted'
    BY <2>1, <2>2, <2>3, <2>4, <2>6, <1>q, <1>n, <1>m, <1>f, <1>x DEF Granted, Clean, Good, Early, Late, Progress
  <2>14. Changed'
    BY <2>1, <2>2, <2>3, <2>4, <2>6, <1>q, <1>n, <1>m, <1>f, <1>x DEF Changed
  <2>15. Limits'
    BY <2>1, <2>2, <2>3, <2>4, <2>6, <1>q, <1>n, <1>m, <1>f, <1>x DEF Limits, Early, Late, Talking, AfterMark, Progress
  <2>16. Bounds'
    BY <2>1, <2>2, <2>3, <2>4, <2>6, <1>q, <1>n, <1>m, <1>f, <1>x DEF Bounds, Early, Late, Talking, AfterMark, Progress
  <2>17. Testimony'
    <3>1. Python /\ Good' /\ ctl.pc \in Late \cup {"done"} => ctl'.pc \in Late \cup {"done"}
      BY <2>1, <2>2, <2>3, <2>4 DEF Late
    <3>2. \A f : Testified(f) => Testified(f)'
      BY <3>1, <2>1, <2>2, <2>3, <2>4, <2>6, <1>f DEF Testified
    <3>4. \A f : ctl'.result = f /\ Testified(f)' => Testified(ctl.result)'
      BY DEF Testified
    <3>5. \A f : f = NoResult => Testified(f)'
      BY TraceFrameTypes DEF Testified
    <3>6. \A f : f = ctl.result => Testified(f)'
      BY <3>2, <1>q DEF Testimony
    <3>7. ctl'.result = ctl.result \/ ctl'.result = NoResult
      BY <2>1, <2>2, <2>3, <2>4, <1>x
    <3>3. Testified(ctl.result)'
      BY <3>4, <3>6, <3>5, <3>7
    <3> QED BY <3>2, <3>3, <2>1, <2>2, <2>3, <2>4, <1>q, TraceFrameTypes, <1>x DEF Testimony, Progress
  <2> QED BY <2>5, <2>7, <2>8, <2>9, <2>10, <2>11, <2>12, <2>13, <2>14, <2>15, <2>16, <2>17, <1>q, <1>f DEF TraceInv
<1> QED BY <1>0, <1>1, <1>2, <1>3 DEF AwaitAck, Taken, Expired

LEMMA ReturnKeeps ==
  ASSUME TraceInv, NEW confirmed \in BOOLEAN, NEW failed \in BOOLEAN, NEW stray \in BOOLEAN, NEW limited \in BOOLEAN, Return(confirmed, failed, stray, limited)
  PROVE  TraceInv'
<1> USE TraceAssumption, ChannelSizeAssumption
<1>0. Return(confirmed, failed, stray, limited)
  OBVIOUS
<1>q. /\ TraceTypes /\ Progress /\ HelperStaged /\ Commanded /\ Exchange /\ TreeClosed /\ Whole
      /\ Compared /\ Granted /\ Changed /\ Testimony /\ Limits /\ Bounds
  BY DEF TraceInv
<1>y. /\ mode \in Modes /\ ctl \in ControllerStates /\ cmp \in ComparisonStates
      /\ filesystem \in FilesystemStates /\ engine \in EngineStates /\ resource \in ResourceStates
      /\ control \in [queue : Seq(Commands), closed : BOOLEAN]
      /\ stream \in StreamStates(TraceFrames) /\ helper \in HelperStates /\ kernel \in Seq(Events)
      /\ files \in Snapshots /\ cgroup \in ResourceSnapshot
      /\ work \in [running : BOOLEAN, stray : BOOLEAN] /\ writes \in Seq([step : Nat, path : PathSet])
  BY <1>q DEF TraceTypes
<1>b. Len(stream.events) <= ChannelSize /\ ChannelSize \in Nat
  BY <1>q DEF Bounds
<1>m. control.queue \in Seq(Commands) /\ stream.events \in Seq(TraceFrames) /\ Len(stream.events) \in Nat
      /\ (writes = <<>> => DOMAIN writes = {})
  BY <1>y DEF StreamStates
<1>k. Len(Steps) \in Nat /\ Len(Steps) >= 1
  BY TraceAssumption
<1>n. /\ ctl.step \in Nat /\ ctl.windowSequence \in Nat /\ cmp.preChecks \in Nat /\ cmp.confirmedDispatches \in Nat
      /\ Len(Steps) \in Nat /\ Len(Steps) >= 1
  BY <1>y, <1>k DEF ControllerStates, ComparisonStates
<1>u. UNCHANGED <<mode, helper, kernel, files, writes>>
  BY <1>0 DEF Return, observed, sandbox
<1>f. /\ (Python' <=> Python) /\ (Started' <=> Started) /\ (Live' <=> Live) /\ (Poisoned' <=> Poisoned)
      /\ Heard' = Heard /\ Written' = Written /\ Tree(files)' = Tree(files) /\ (TreeClosed' <=> TreeClosed)
      /\ (eligible' <=> eligible) /\ PathsOf(helper.seen)' = PathsOf(helper.seen)
      /\ (\A w : (Recorded(w)' <=> Recorded(w)) /\ (Waits(w)' <=> Waits(w)))
      /\ (\A phase : RulesOf(phase)' = RulesOf(phase)) /\ (eligible => Python)
  BY <1>u, ControllerFrame DEF eligible, Python
<1>w. ctl.pc = "running" /\ ~ctl.broken
  BY <1>0, <1>q DEF Return, Progress
<1>v. resource.activeReady
  BY <1>q, <1>w DEF Limits
<1>g. cgroup' \in ResourceSnapshot /\ cgroup'.limits = cgroup.limits
  <2>1. cgroup' = cgroup \/ cgroup' = [cgroup EXCEPT !.events = cgroup.events + 1, !.usage = cgroup.usage + 1]
    BY <1>0 DEF Return
  <2>2. cgroup.events + 1 \in Nat /\ cgroup.usage + 1 \in Nat
    BY <1>y DEF ResourceSnapshot
  <2> DEFINE m == cgroup.events + 1
             n == cgroup.usage + 1
  <2>4. m \in Nat /\ n \in Nat /\ (cgroup' = cgroup \/ cgroup' = [cgroup EXCEPT !.events = m, !.usage = n])
    BY <2>1, <2>2
  <2> HIDE DEF m, n
  <2> QED BY <2>4, <1>y DEF ResourceSnapshot
<1>x. /\ work' \in [running : BOOLEAN, stray : BOOLEAN] /\ ~work'.running
      /\ cgroup' \in ResourceSnapshot /\ cgroup'.limits = cgroup.limits /\ resource.activeReady
      /\ cmp' \in ComparisonStates /\ cmp'.preChecks = cmp.preChecks /\ (cmp'.failure = "" => cmp.failure = "")
      /\ cmp'.confirmedDispatches \in {cmp.confirmedDispatches, cmp.confirmedDispatches + 1}
      /\ cmp'.confirmedDispatches \in Nat
  <2>1. work' \in [running : BOOLEAN, stray : BOOLEAN] /\ ~work'.running
    BY <1>0, <1>y DEF Return
  <2>2. CASE cmp' = cmp
    BY <2>1, <2>2, <1>g, <1>v, <1>y, <1>n
  <2>3. CASE eligible /\ confirmed
    <3> DEFINE n == cmp.confirmedDispatches + 1
    <3>1. cmp' = [cmp EXCEPT !.confirmedDispatches = n]
      BY <1>0, <2>3 DEF Return
    <3>2. n \in Nat
      BY <1>n
    <3> HIDE DEF n
    <3>3. /\ cmp' \in ComparisonStates /\ cmp'.preChecks = cmp.preChecks /\ cmp'.failure = cmp.failure
          /\ cmp'.confirmedDispatches = n
      BY <3>1, <3>2, <1>y DEF ComparisonStates
    <3> QED BY <2>1, <1>g, <1>v, <3>2, <3>3 DEF n
  <2>4. CASE cmp' = [cmp EXCEPT !.failure = "workload-dispatch-unconfirmed"]
    <3>3. /\ cmp' \in ComparisonStates /\ cmp'.preChecks = cmp.preChecks /\ cmp'.failure # ""
          /\ cmp'.confirmedDispatches = cmp.confirmedDispatches
      BY <2>4, <1>y DEF ComparisonStates
    <3> QED BY <2>1, <1>g, <1>v, <3>3, <1>n
  <2> QED BY <2>2, <2>3, <2>4, <1>0 DEF Return, FirstFailure
<1>1. /\ ctl.pc = "running"
      /\ UNCHANGED <<mode, kernel, files, writes, helper, filesystem, engine, resource, control, stream>>
      /\ ctl' = [ctl EXCEPT !.pc = "post", !.broken = failed]
      /\ TRUE
      /\ TRUE
      /\ TRUE
  BY <1>0 DEF Return, observed, sandbox, abort, AfterMark, FirstFailure
<1>2. ctl' \in ControllerStates /\ ctl'.pc = "post" /\ ctl'.step = ctl.step /\ ctl'.session = ctl.session /\ ctl'.windowSequence = ctl.windowSequence /\ ctl'.finalReady = ctl.finalReady /\ ctl'.phaseSignalsComplete = ctl.phaseSignalsComplete /\ ctl'.result = ctl.result /\ ctl'.failure = ctl.failure /\ ctl'.broken = failed
  BY <1>1, <1>y, <1>n, <1>m, <1>x, TraceFrameTypes DEF ControllerStates, Stages, Early, Late, Talking, TraceFailures
<1>3. /\ cmp' \in ComparisonStates /\ cmp'.preChecks = cmp.preChecks /\ (cmp'.failure = "" => cmp.failure = "")
      /\ cmp'.confirmedDispatches \in {cmp.confirmedDispatches, cmp.confirmedDispatches + 1} /\ cmp'.confirmedDispatches \in Nat
  BY <1>1, <1>y, <1>n, <1>m, <1>x, TraceFrameTypes DEF ComparisonStates
<1>4. cgroup' \in ResourceSnapshot /\ cgroup'.limits = cgroup.limits
  BY <1>1, <1>y, <1>n, <1>m, <1>x, TraceFrameTypes DEF ResourceSnapshot
<1>5. work' \in [running : BOOLEAN, stray : BOOLEAN] /\ ~work'.running
  BY <1>1, <1>y, <1>n, <1>m, <1>x, TraceFrameTypes
<1>6. TraceTypes'
  BY <1>1, <1>2, <1>3, <1>4, <1>5, <1>y DEF TraceTypes
<1>7. (Good' => Good) /\ (Clean' => Clean)
  BY <1>1, <1>2, <1>3, <1>4, <1>5, <1>f, <1>x DEF Good, Clean, Early
<1>8. Progress'
  BY <1>1, <1>2, <1>3, <1>4, <1>5, <1>7, <1>q, <1>n, <1>m, <1>f, <1>x DEF Progress, Quiet, Good, Early, Late, AfterMark
<1>9. HelperStaged'
  BY <1>1, <1>2, <1>3, <1>4, <1>5, <1>7, <1>q, <1>n, <1>m, <1>f, <1>x DEF HelperStaged, Exchange
<1>10. Commanded'
  BY <1>1, <1>2, <1>3, <1>4, <1>5, <1>7, <1>q, <1>n, <1>m, <1>f, <1>x DEF Commanded
<1>11. Exchange'
  BY <1>1, <1>2, <1>3, <1>4, <1>5, <1>7, <1>q, <1>n, <1>m, <1>f, <1>x DEF Exchange, Progress, Good, Early, Late, Talking, PhaseCommand, CurrentPhase, AfterMark, HelperStaged
<1>12. Whole'
  BY <1>1, <1>2, <1>3, <1>4, <1>5, <1>7, <1>q, <1>n, <1>m, <1>f, <1>x DEF Whole
<1>13. Compared'
  BY <1>1, <1>2, <1>3, <1>4, <1>5, <1>7, <1>q, <1>n, <1>m, <1>f, <1>x DEF Compared, Clean, Good, Progress, Exchange, Quiet, Early, Late, CurrentPhase, AfterMark
<1>14. Granted'
  BY <1>1, <1>2, <1>3, <1>4, <1>5, <1>7, <1>q, <1>n, <1>m, <1>f, <1>x DEF Granted, Clean, Good, Early, Late, Progress
<1>15. Changed'
  BY <1>1, <1>2, <1>3, <1>4, <1>5, <1>7, <1>q, <1>n, <1>m, <1>f, <1>x DEF Changed
<1>16. Limits'
  BY <1>1, <1>2, <1>3, <1>4, <1>5, <1>7, <1>q, <1>n, <1>m, <1>f, <1>x DEF Limits, Early, Late, Talking, AfterMark, Progress
<1>17. Bounds'
  <2>0. cmp.confirmedDispatches < ctl.step /\ ctl.step <= Len(Steps)
    BY <1>1, <1>2, <1>3, <1>4, <1>5, <1>q DEF Bounds, Progress
  <2>3. \A a, b, c \in Nat : a < b /\ (c = a \/ c = a + 1) => c <= b
    OBVIOUS
  <2>1. cmp'.confirmedDispatches <= ctl.step /\ ctl.step <= Len(Steps)
    BY <2>0, <2>3, <1>1, <1>2, <1>3, <1>4, <1>5, <1>n
  <2>2. cmp'.confirmedDispatches <= Len(Steps)
    BY <2>1, <1>1, <1>2, <1>3, <1>4, <1>5, <1>n, Below
  <2> QED BY <2>1, <2>2, <1>1, <1>2, <1>3, <1>4, <1>5, <1>q DEF Bounds, Early
<1>18. Testimony'
  <2>1. Python /\ Good' /\ ctl.pc \in Late \cup {"done"} => ctl'.pc \in Late \cup {"done"}
    BY <1>1, <1>2, <1>3, <1>4, <1>5 DEF Late
  <2>2. \A f : Testified(f) => Testified(f)'
    BY <2>1, <1>1, <1>2, <1>3, <1>4, <1>5, <1>7, <1>f DEF Testified
  <2>4. \A f : ctl'.result = f /\ Testified(f)' => Testified(ctl.result)'
    BY DEF Testified
  <2>5. \A f : f = NoResult => Testified(f)'
    BY TraceFrameTypes DEF Testified
  <2>6. \A f : f = ctl.result => Testified(f)'
    BY <2>2, <1>q DEF Testimony
  <2>7. ctl'.result = ctl.result \/ ctl'.result = NoResult
    BY <1>1, <1>2, <1>3, <1>4, <1>5, <1>x
  <2>3. Testified(ctl.result)'
    BY <2>4, <2>6, <2>5, <2>7
  <2> QED BY <2>2, <2>3, <1>1, <1>2, <1>3, <1>4, <1>5, <1>q, TraceFrameTypes, <1>x DEF Testimony, Progress
<1> QED BY <1>6, <1>8, <1>9, <1>10, <1>11, <1>12, <1>13, <1>14, <1>15, <1>16, <1>17, <1>18, <1>q, <1>f DEF TraceInv

LEMMA PostCheckKeeps ==
  ASSUME TraceInv, NEW identity \in BOOLEAN, PostCheck(identity)
  PROVE  TraceInv'
<1> USE TraceAssumption, ChannelSizeAssumption
<1>0. PostCheck(identity)
  OBVIOUS
<1>q. /\ TraceTypes /\ Progress /\ HelperStaged /\ Commanded /\ Exchange /\ TreeClosed /\ Whole
      /\ Compared /\ Granted /\ Changed /\ Testimony /\ Limits /\ Bounds
  BY DEF TraceInv
<1>y. /\ mode \in Modes /\ ctl \in ControllerStates /\ cmp \in ComparisonStates
      /\ filesystem \in FilesystemStates /\ engine \in EngineStates /\ resource \in ResourceStates
      /\ control \in [queue : Seq(Commands), closed : BOOLEAN]
      /\ stream \in StreamStates(TraceFrames) /\ helper \in HelperStates /\ kernel \in Seq(Events)
      /\ files \in Snapshots /\ cgroup \in ResourceSnapshot
      /\ work \in [running : BOOLEAN, stray : BOOLEAN] /\ writes \in Seq([step : Nat, path : PathSet])
  BY <1>q DEF TraceTypes
<1>b. Len(stream.events) <= ChannelSize /\ ChannelSize \in Nat
  BY <1>q DEF Bounds
<1>m. control.queue \in Seq(Commands) /\ stream.events \in Seq(TraceFrames) /\ Len(stream.events) \in Nat
      /\ (writes = <<>> => DOMAIN writes = {})
  BY <1>y DEF StreamStates
<1>k. Len(Steps) \in Nat /\ Len(Steps) >= 1
  BY TraceAssumption
<1>n. /\ ctl.step \in Nat /\ ctl.windowSequence \in Nat /\ cmp.preChecks \in Nat /\ cmp.confirmedDispatches \in Nat
      /\ Len(Steps) \in Nat /\ Len(Steps) >= 1
  BY <1>y, <1>k DEF ControllerStates, ComparisonStates
<1>u. UNCHANGED <<mode, helper, kernel, files, writes>>
  BY <1>0 DEF PostCheck, observed, sandbox
<1>f. /\ (Python' <=> Python) /\ (Started' <=> Started) /\ (Live' <=> Live) /\ (Poisoned' <=> Poisoned)
      /\ Heard' = Heard /\ Written' = Written /\ Tree(files)' = Tree(files) /\ (TreeClosed' <=> TreeClosed)
      /\ (eligible' <=> eligible) /\ PathsOf(helper.seen)' = PathsOf(helper.seen)
      /\ (\A w : (Recorded(w)' <=> Recorded(w)) /\ (Waits(w)' <=> Waits(w)))
      /\ (\A phase : RulesOf(phase)' = RulesOf(phase)) /\ (eligible => Python)
  BY <1>u, ControllerFrame DEF eligible, Python
<1>w. ctl.pc = "post" /\ ctl.step <= Len(Steps) /\ ctl.step + 1 \in Nat
  BY <1>0, <1>q, <1>n DEF PostCheck, Progress
<1>c. /\ cmp' \in ComparisonStates /\ cmp'.confirmedDispatches = cmp.confirmedDispatches
      /\ cmp'.preChecks = cmp.preChecks /\ (cmp'.failure = "" => cmp.failure = "")
      /\ (eligible /\ cmp'.failure = "" => ~work.stray)
  <2>1. cmp' = QuiescenceBoundary(cmp, identity, FALSE)
    BY <1>0 DEF PostCheck
  <2> QED BY <2>1, <1>y, <1>n, BoundaryChecked
<1>g. /\ filesystem' \in FilesystemStates /\ filesystem'.baseline = filesystem.baseline
      /\ filesystem'.baselineReady = filesystem.baselineReady
      /\ filesystem'.final = filesystem.final /\ filesystem'.finalReady = filesystem.finalReady
      /\ ~filesystem'.ambiguous => /\ ~filesystem.ambiguous /\ filesystem.patterns \subseteq filesystem'.patterns
                                   /\ RulesOf(Steps[ctl.step]) \subseteq filesystem'.patterns
  <2>1. filesystem' = recordFilesystemPhaseDispatch(filesystem, Steps[ctl.step])
    BY <1>0 DEF PostCheck
  <2> QED BY <2>1, <1>y, PhaseDispatched
<1>z. \E pc \in {"pre", "mark"} :
        /\ ctl' \in ControllerStates /\ ctl'.pc = pc /\ (pc = "pre" => ctl.step < Len(Steps)) /\ ctl'.step = ctl.step + 1
        /\ ctl'.session = ctl.session /\ ctl'.windowSequence = ctl.windowSequence /\ ctl'.finalReady = ctl.finalReady
        /\ ctl'.phaseSignalsComplete = ctl.phaseSignalsComplete /\ ctl'.result = ctl.result
        /\ ctl'.failure = ctl.failure /\ ctl'.broken = ctl.broken
  <2> DEFINE n == ctl.step + 1
             pc == IF ctl.step < Len(Steps) /\ ~ctl.broken THEN "pre" ELSE "mark"
  <2>1. ctl' = [ctl EXCEPT !.step = n, !.pc = pc] /\ n \in Nat
    BY <1>0, <1>w DEF PostCheck
  <2>2. pc \in {"pre", "mark"} /\ (pc = "pre" => ctl.step < Len(Steps))
    OBVIOUS
  <2> HIDE DEF n, pc
  <2>3. pc \in Stages
    BY <2>2 DEF Stages, Talking
  <2>4. /\ ctl' \in ControllerStates /\ ctl'.pc = pc /\ ctl'.step = n
        /\ ctl'.session = ctl.session /\ ctl'.windowSequence = ctl.windowSequence /\ ctl'.finalReady = ctl.finalReady
        /\ ctl'.phaseSignalsComplete = ctl.phaseSignalsComplete /\ ctl'.result = ctl.result
        /\ ctl'.failure = ctl.failure /\ ctl'.broken = ctl.broken
    BY <2>1, <2>3, <1>y DEF ControllerStates
  <2> QED BY <2>2, <2>4 DEF n
<1>x. /\ ctl' \in ControllerStates /\ ctl'.pc \in {"pre", "mark"} /\ (ctl'.pc = "pre" => ctl.step < Len(Steps))
      /\ ctl'.step = ctl.step + 1 /\ ctl'.step \in Nat /\ ctl.step <= Len(Steps)
      /\ ctl'.session = ctl.session /\ ctl'.windowSequence = ctl.windowSequence /\ ctl'.finalReady = ctl.finalReady
      /\ ctl'.phaseSignalsComplete = ctl.phaseSignalsComplete /\ ctl'.result = ctl.result
      /\ ctl'.failure = ctl.failure /\ ctl'.broken = ctl.broken
      /\ cmp' \in ComparisonStates /\ cmp'.confirmedDispatches = cmp.confirmedDispatches
      /\ cmp'.preChecks = cmp.preChecks /\ (cmp'.failure = "" => cmp.failure = "")
      /\ (eligible /\ cmp'.failure = "" => ~work.stray)
      /\ ctl'.step >= 1 /\ ctl'.step <= Len(Steps) + 1 /\ (ctl'.pc = "pre" => ctl'.step <= Len(Steps))
  <2>1. \A a, b, c \in Nat : a <= b /\ c = a + 1 => c >= 1 /\ c <= b + 1 /\ (a < b => c <= b)
    OBVIOUS
  <2>2. ctl'.step >= 1 /\ ctl'.step <= Len(Steps) + 1 /\ (ctl.step < Len(Steps) => ctl'.step <= Len(Steps))
    BY <2>1, <1>z, <1>w, <1>n
  <2> QED BY <2>2, <1>z, <1>c, <1>w
<1>1. /\ ctl.pc = "post"
      /\ UNCHANGED <<mode, kernel, files, writes, helper, engine, resource, control, stream, cgroup, work>>
      /\ TRUE
      /\ TRUE
      /\ TRUE
  BY <1>0 DEF PostCheck, observed, sandbox, abort, AfterMark, FirstFailure
<1>2. /\ ctl' \in ControllerStates /\ ctl'.pc \in {"pre", "mark"} /\ (ctl'.pc = "pre" => ctl.step < Len(Steps))
        /\ ctl'.step = ctl.step + 1 /\ ctl'.step \in Nat /\ ctl.step <= Len(Steps)
  BY <1>1, <1>x
<1>3. /\ cmp' \in ComparisonStates /\ cmp'.confirmedDispatches = cmp.confirmedDispatches
        /\ cmp'.preChecks = cmp.preChecks /\ (cmp'.failure = "" => cmp.failure = "") /\ (eligible /\ cmp'.failure = "" => ~work.stray)
  BY <1>1, <1>x
<1>4. /\ filesystem' \in FilesystemStates /\ filesystem'.baseline = filesystem.baseline
        /\ filesystem'.baselineReady = filesystem.baselineReady
        /\ filesystem'.final = filesystem.final /\ filesystem'.finalReady = filesystem.finalReady
  BY <1>1, <1>g
<1>5. TraceTypes'
  BY <1>1, <1>2, <1>3, <1>4, <1>y DEF TraceTypes
<1>6. (Good' => Good) /\ (Clean' => Clean)
  BY <1>1, <1>2, <1>3, <1>4, <1>f, <1>x DEF Good, Clean, Early
<1>7. Progress'
  <2>1. ctl'.step >= 1 /\ ctl'.step <= Len(Steps) + 1 /\ (ctl'.pc = "pre" => ctl'.step <= Len(Steps))
    BY <1>x
  <2> QED BY <2>1, <1>1, <1>2, <1>3, <1>4, <1>6, <1>q, <1>x, <1>f DEF Progress, Good, Early, Late
<1>8. HelperStaged'
  BY <1>1, <1>2, <1>3, <1>4, <1>6, <1>q, <1>n, <1>m, <1>f, <1>x DEF HelperStaged, Exchange
<1>9. Commanded'
  BY <1>1, <1>2, <1>3, <1>4, <1>6, <1>q, <1>n, <1>m, <1>f, <1>x DEF Commanded
<1>10. Exchange'
  BY <1>1, <1>2, <1>3, <1>4, <1>6, <1>q, <1>n, <1>m, <1>f, <1>x DEF Exchange, Progress, Good, Early, Late, Talking, PhaseCommand, CurrentPhase, AfterMark, HelperStaged
<1>11. Whole'
  BY <1>1, <1>2, <1>3, <1>4, <1>6, <1>q, <1>n, <1>m, <1>f, <1>x DEF Whole
<1>12. Compared'
  BY <1>1, <1>2, <1>3, <1>4, <1>6, <1>q, <1>n, <1>m, <1>f, <1>x DEF Compared, Clean, Good, Progress, Exchange, Quiet, Early, Late, CurrentPhase, AfterMark
<1>13. Granted'
  <2>1. ASSUME Clean', NEW i \in DOMAIN writes
       PROVE  /\ writes[i].step <= ctl'.step /\ writes[i].step # ctl'.step
              /\ ~filesystem'.ambiguous => RulesOf(Steps[writes[i].step]) \subseteq filesystem'.patterns
    <3>1. writes[i].step \in Nat /\ writes[i].step <= ctl.step
      <4>1. writes[i].step \in Nat
        BY <1>y, WriteAt
      <4>2. Clean
        BY <2>1, <1>6
      <4>3. \A j \in DOMAIN writes : writes[j].step <= ctl.step
        BY <4>2, <1>q DEF Granted
      <4> QED BY <4>1, <4>3
    <3>2. writes[i].step <= ctl'.step /\ writes[i].step # ctl'.step
      <4>1. \A a, b, c \in Nat : a <= b /\ c = b + 1 => a <= c /\ a # c
        OBVIOUS
      <4> QED BY <3>1, <4>1, <1>x, <1>n
    <3>3. writes[i].step = ctl.step \/ writes[i].step < ctl.step
      BY <3>1, <1>n
    <3>4. writes[i].step < ctl.step /\ ~filesystem.ambiguous => RulesOf(Steps[writes[i].step]) \subseteq filesystem.patterns
      BY <2>1, <1>6, <1>q DEF Granted
    <3> QED BY <3>2, <3>3, <3>4, <1>g
  <2> QED BY <2>1, <1>1, <1>2, <1>3, <1>4, <1>f DEF Granted
<1>14. Changed'
  BY <1>1, <1>2, <1>3, <1>4, <1>6, <1>q, <1>n, <1>m, <1>f, <1>x DEF Changed
<1>15. Limits'
  BY <1>1, <1>2, <1>3, <1>4, <1>6, <1>q, <1>n, <1>m, <1>f, <1>x DEF Limits, Early, Late, Talking, AfterMark, Progress
<1>16. Bounds'
  <2>1. \A a, b, c \in Nat : a <= b /\ c = b + 1 => a < c /\ a <= c
    OBVIOUS
  <2>2. cmp.preChecks < ctl'.step /\ cmp.preChecks <= ctl'.step
       /\ cmp.confirmedDispatches < ctl'.step /\ cmp.confirmedDispatches <= ctl'.step
    BY <2>1, <1>x, <1>n, <1>q DEF Bounds
  <2> QED BY <2>2, <1>1, <1>2, <1>3, <1>4, <1>x, <1>q DEF Bounds, Early
<1>17. Testimony'
  <2>1. Python /\ Good' /\ ctl.pc \in Late \cup {"done"} => ctl'.pc \in Late \cup {"done"}
    BY <1>1, <1>2, <1>3, <1>4 DEF Late
  <2>2. \A f : Testified(f) => Testified(f)'
    BY <2>1, <1>1, <1>2, <1>3, <1>4, <1>6, <1>f DEF Testified
  <2>4. \A f : ctl'.result = f /\ Testified(f)' => Testified(ctl.result)'
    BY DEF Testified
  <2>5. \A f : f = NoResult => Testified(f)'
    BY TraceFrameTypes DEF Testified
  <2>6. \A f : f = ctl.result => Testified(f)'
    BY <2>2, <1>q DEF Testimony
  <2>7. ctl'.result = ctl.result \/ ctl'.result = NoResult
    BY <1>1, <1>2, <1>3, <1>4, <1>x
  <2>3. Testified(ctl.result)'
    BY <2>4, <2>6, <2>5, <2>7
  <2> QED BY <2>2, <2>3, <1>1, <1>2, <1>3, <1>4, <1>q, TraceFrameTypes, <1>x DEF Testimony, Progress
<1> QED BY <1>5, <1>7, <1>8, <1>9, <1>10, <1>11, <1>12, <1>13, <1>14, <1>15, <1>16, <1>17, <1>q, <1>f DEF TraceInv

LEMMA FinalCountersKeeps ==
  ASSUME TraceInv, NEW identity \in BOOLEAN, NEW collected \in BOOLEAN, FinalCounters(identity, collected)
  PROVE  TraceInv'
<1> USE TraceAssumption, ChannelSizeAssumption
<1>0. FinalCounters(identity, collected)
  OBVIOUS
<1>q. /\ TraceTypes /\ Progress /\ HelperStaged /\ Commanded /\ Exchange /\ TreeClosed /\ Whole
      /\ Compared /\ Granted /\ Changed /\ Testimony /\ Limits /\ Bounds
  BY DEF TraceInv
<1>y. /\ mode \in Modes /\ ctl \in ControllerStates /\ cmp \in ComparisonStates
      /\ filesystem \in FilesystemStates /\ engine \in EngineStates /\ resource \in ResourceStates
      /\ control \in [queue : Seq(Commands), closed : BOOLEAN]
      /\ stream \in StreamStates(TraceFrames) /\ helper \in HelperStates /\ kernel \in Seq(Events)
      /\ files \in Snapshots /\ cgroup \in ResourceSnapshot
      /\ work \in [running : BOOLEAN, stray : BOOLEAN] /\ writes \in Seq([step : Nat, path : PathSet])
  BY <1>q DEF TraceTypes
<1>b. Len(stream.events) <= ChannelSize /\ ChannelSize \in Nat
  BY <1>q DEF Bounds
<1>m. control.queue \in Seq(Commands) /\ stream.events \in Seq(TraceFrames) /\ Len(stream.events) \in Nat
      /\ (writes = <<>> => DOMAIN writes = {})
  BY <1>y DEF StreamStates
<1>k. Len(Steps) \in Nat /\ Len(Steps) >= 1
  BY TraceAssumption
<1>n. /\ ctl.step \in Nat /\ ctl.windowSequence \in Nat /\ cmp.preChecks \in Nat /\ cmp.confirmedDispatches \in Nat
      /\ Len(Steps) \in Nat /\ Len(Steps) >= 1
  BY <1>y, <1>k DEF ControllerStates, ComparisonStates
<1>u. UNCHANGED <<mode, helper, kernel, files, writes>>
  BY <1>0 DEF FinalCounters, observed, sandbox
<1>f. /\ (Python' <=> Python) /\ (Started' <=> Started) /\ (Live' <=> Live) /\ (Poisoned' <=> Poisoned)
      /\ Heard' = Heard /\ Written' = Written /\ Tree(files)' = Tree(files) /\ (TreeClosed' <=> TreeClosed)
      /\ (eligible' <=> eligible) /\ PathsOf(helper.seen)' = PathsOf(helper.seen)
      /\ (\A w : (Recorded(w)' <=> Recorded(w)) /\ (Waits(w)' <=> Waits(w)))
      /\ (\A phase : RulesOf(phase)' = RulesOf(phase)) /\ (eligible => Python)
  BY <1>u, ControllerFrame DEF eligible, Python
<1>w. ctl.pc = "resources" /\ resource' = FinalResources(resource, identity, collected, cgroup)
  BY <1>0 DEF FinalCounters
<1>v. ~resource.finalReady /\ (cgroup.events > 0 => resource.activeReady /\ resource.active.events = 0)
  BY <1>w, <1>q DEF Limits
<1>x. /\ resource' \in ResourceStates /\ resource'.active = resource.active /\ resource'.activeReady = resource.activeReady
      /\ (resource'.finalReady => resource'.final = cgroup) /\ (cgroup.events > 0 => resource'.errors # {})
  <2>1. CASE resource' = [resource EXCEPT !.errors = resource.errors \cup {"OBSERVER_INCOMPLETE"}]
    BY <2>1, <1>v, <1>y DEF ResourceStates
  <2>2. CASE resource' = [resource EXCEPT !.identityVerified = TRUE, !.errors = resource.errors \cup {"OBSERVER_INCOMPLETE"}]
    BY <2>2, <1>v, <1>y DEF ResourceStates
  <2>3. CASE /\ resource' = [resource EXCEPT !.identityVerified = TRUE, !.final = cgroup, !.finalReady = TRUE,
                               !.errors = resource.errors \cup {"RESOURCE_LIMIT_EXCEEDED"}]
    BY <2>3, <1>v, <1>y DEF ResourceStates
  <2>4. CASE /\ resource' = [resource EXCEPT !.identityVerified = TRUE, !.final = cgroup, !.finalReady = TRUE,
                               !.errors = resource.errors]
             /\ ~(resource.activeReady /\ resourceLimitEventError(resource.active, cgroup))
    <3>1. /\ resource' \in ResourceStates /\ resource'.active = resource.active
          /\ resource'.activeReady = resource.activeReady /\ resource'.final = cgroup
      BY <2>4, <1>y DEF ResourceStates
    <3>2. ~(cgroup.events > 0)
      BY <2>4, <1>v, <1>y DEF resourceLimitEventError, ResourceSnapshot
    <3> QED BY <3>1, <3>2
  <2> QED BY <2>1, <2>2, <2>3, <2>4, <1>w DEF FinalResources
<1>1. /\ ctl.pc = "resources"
      /\ UNCHANGED <<mode, kernel, files, writes, helper, cmp, filesystem, engine, control, stream, cgroup, work>>
      /\ ctl' = [ctl EXCEPT !.pc = "done"]
      /\ TRUE
  BY <1>0 DEF FinalCounters, observed, sandbox, abort, AfterMark, FirstFailure
<1>2. ctl' \in ControllerStates /\ ctl'.pc = "done" /\ ctl'.step = ctl.step /\ ctl'.session = ctl.session /\ ctl'.windowSequence = ctl.windowSequence /\ ctl'.finalReady = ctl.finalReady /\ ctl'.phaseSignalsComplete = ctl.phaseSignalsComplete /\ ctl'.result = ctl.result /\ ctl'.failure = ctl.failure /\ ctl'.broken = ctl.broken
  BY <1>1, <1>y, <1>n, <1>m, <1>x, TraceFrameTypes DEF ControllerStates, Stages, Early, Late, Talking, TraceFailures
<1>3. /\ resource' \in ResourceStates /\ resource'.active = resource.active /\ resource'.activeReady = resource.activeReady
      /\ (resource'.finalReady => resource'.final = cgroup) /\ (cgroup.events > 0 => resource'.errors # {})
  BY <1>1, <1>x
<1>4. TraceTypes'
  BY <1>1, <1>2, <1>3, <1>y DEF TraceTypes
<1>5. (Good' => Good) /\ (Clean' => Clean)
  BY <1>1, <1>2, <1>3, <1>f, <1>x DEF Good, Clean, Early
<1>6. Progress'
  BY <1>1, <1>2, <1>3, <1>5, <1>q, <1>n, <1>m, <1>f, <1>x DEF Progress, Quiet, Good, Early, Late, AfterMark
<1>7. HelperStaged'
  BY <1>1, <1>2, <1>3, <1>5, <1>q, <1>n, <1>m, <1>f, <1>x DEF HelperStaged, Exchange
<1>8. Commanded'
  BY <1>1, <1>2, <1>3, <1>5, <1>q, <1>n, <1>m, <1>f, <1>x DEF Commanded
<1>9. Exchange'
  BY <1>1, <1>2, <1>3, <1>5, <1>q, <1>n, <1>m, <1>f, <1>x DEF Exchange, Progress, Good, Early, Late, Talking, PhaseCommand, CurrentPhase, AfterMark, HelperStaged
<1>10. Whole'
  BY <1>1, <1>2, <1>3, <1>5, <1>q, <1>n, <1>m, <1>f, <1>x DEF Whole
<1>11. Compared'
  BY <1>1, <1>2, <1>3, <1>5, <1>q, <1>n, <1>m, <1>f, <1>x DEF Compared, Clean, Good, Progress, Exchange, Quiet, Early, Late, CurrentPhase, AfterMark
<1>12. Granted'
  BY <1>1, <1>2, <1>3, <1>5, <1>q, <1>n, <1>m, <1>f, <1>x DEF Granted, Clean, Good, Early, Late, Progress
<1>13. Changed'
  BY <1>1, <1>2, <1>3, <1>5, <1>q, <1>n, <1>m, <1>f, <1>x DEF Changed
<1>14. Limits'
  BY <1>1, <1>2, <1>3, <1>5, <1>q, <1>n, <1>m, <1>f, <1>x DEF Limits, Early, Late, Talking, AfterMark, Progress
<1>15. Bounds'
  BY <1>1, <1>2, <1>3, <1>5, <1>q, <1>n, <1>m, <1>f, <1>x DEF Bounds, Early, Late, Talking, AfterMark, Progress
<1>16. Testimony'
  <2>1. Python /\ Good' /\ ctl.pc \in Late \cup {"done"} => ctl'.pc \in Late \cup {"done"}
    BY <1>1, <1>2, <1>3 DEF Late
  <2>2. \A f : Testified(f) => Testified(f)'
    BY <2>1, <1>1, <1>2, <1>3, <1>5, <1>f DEF Testified
  <2>4. \A f : ctl'.result = f /\ Testified(f)' => Testified(ctl.result)'
    BY DEF Testified
  <2>5. \A f : f = NoResult => Testified(f)'
    BY TraceFrameTypes DEF Testified
  <2>6. \A f : f = ctl.result => Testified(f)'
    BY <2>2, <1>q DEF Testimony
  <2>7. ctl'.result = ctl.result \/ ctl'.result = NoResult
    BY <1>1, <1>2, <1>3, <1>x
  <2>3. Testified(ctl.result)'
    BY <2>4, <2>6, <2>5, <2>7
  <2> QED BY <2>2, <2>3, <1>1, <1>2, <1>3, <1>q, TraceFrameTypes, <1>x DEF Testimony, Progress
<1> QED BY <1>4, <1>6, <1>7, <1>8, <1>9, <1>10, <1>11, <1>12, <1>13, <1>14, <1>15, <1>16, <1>q, <1>f DEF TraceInv

LEMMA FinalFilesKeeps ==
  ASSUME TraceInv, NEW identity \in BOOLEAN, NEW collected \in BOOLEAN, FinalFiles(identity, collected)
  PROVE  TraceInv'
<1> USE TraceAssumption, ChannelSizeAssumption
<1>0. FinalFiles(identity, collected)
  OBVIOUS
<1>q. /\ TraceTypes /\ Progress /\ HelperStaged /\ Commanded /\ Exchange /\ TreeClosed /\ Whole
      /\ Compared /\ Granted /\ Changed /\ Testimony /\ Limits /\ Bounds
  BY DEF TraceInv
<1>y. /\ mode \in Modes /\ ctl \in ControllerStates /\ cmp \in ComparisonStates
      /\ filesystem \in FilesystemStates /\ engine \in EngineStates /\ resource \in ResourceStates
      /\ control \in [queue : Seq(Commands), closed : BOOLEAN]
      /\ stream \in StreamStates(TraceFrames) /\ helper \in HelperStates /\ kernel \in Seq(Events)
      /\ files \in Snapshots /\ cgroup \in ResourceSnapshot
      /\ work \in [running : BOOLEAN, stray : BOOLEAN] /\ writes \in Seq([step : Nat, path : PathSet])
  BY <1>q DEF TraceTypes
<1>b. Len(stream.events) <= ChannelSize /\ ChannelSize \in Nat
  BY <1>q DEF Bounds
<1>m. control.queue \in Seq(Commands) /\ stream.events \in Seq(TraceFrames) /\ Len(stream.events) \in Nat
      /\ (writes = <<>> => DOMAIN writes = {})
  BY <1>y DEF StreamStates
<1>k. Len(Steps) \in Nat /\ Len(Steps) >= 1
  BY TraceAssumption
<1>n. /\ ctl.step \in Nat /\ ctl.windowSequence \in Nat /\ cmp.preChecks \in Nat /\ cmp.confirmedDispatches \in Nat
      /\ Len(Steps) \in Nat /\ Len(Steps) >= 1
  BY <1>y, <1>k DEF ControllerStates, ComparisonStates
<1>u. UNCHANGED <<mode, helper, kernel, files, writes>>
  BY <1>0 DEF FinalFiles, observed, sandbox
<1>f. /\ (Python' <=> Python) /\ (Started' <=> Started) /\ (Live' <=> Live) /\ (Poisoned' <=> Poisoned)
      /\ Heard' = Heard /\ Written' = Written /\ Tree(files)' = Tree(files) /\ (TreeClosed' <=> TreeClosed)
      /\ (eligible' <=> eligible) /\ PathsOf(helper.seen)' = PathsOf(helper.seen)
      /\ (\A w : (Recorded(w)' <=> Recorded(w)) /\ (Waits(w)' <=> Waits(w)))
      /\ (\A phase : RulesOf(phase)' = RulesOf(phase)) /\ (eligible => Python)
  BY <1>u, ControllerFrame DEF eligible, Python
<1>w. ctl.pc = "retained" /\ ~filesystem.finalReady
  BY <1>0, <1>q DEF FinalFiles, Changed
<1>x. /\ filesystem' \in FilesystemStates /\ filesystem'.baseline = filesystem.baseline
      /\ filesystem'.baselineReady = filesystem.baselineReady
      /\ (filesystem'.finalReady => filesystem.baselineReady /\ filesystem'.final = files)
      /\ filesystem'.patterns = filesystem.patterns /\ filesystem'.ambiguous = filesystem.ambiguous
  <2>1. CASE filesystem' = filesystem
    BY <2>1, <1>w, <1>y
  <2>2. CASE filesystem' = [filesystem EXCEPT !.failure = "container-identity-readback-failed"]
    BY <2>2, <1>w, <1>y DEF FilesystemStates
  <2>3. CASE \E r \in {"final-snapshot-failed", "retained-state-change-bound-exceeded"} :
               filesystem' = [filesystem EXCEPT !.finalIdentityVerified = TRUE, !.failure = r]
    BY <2>3, <1>w, <1>y DEF FilesystemStates
  <2>4. CASE /\ filesystem' = [filesystem EXCEPT !.finalIdentityVerified = TRUE, !.final = files, !.finalReady = TRUE]
             /\ filesystem.baselineReady
    BY <2>4, <1>y DEF FilesystemStates
  <2> QED BY <2>1, <2>2, <2>3, <2>4, <1>0 DEF FinalFiles
<1>1. /\ ctl.pc = "retained"
      /\ UNCHANGED <<mode, kernel, files, writes, helper, cmp, engine, resource, control, stream, cgroup, work>>
      /\ ctl' = [ctl EXCEPT !.pc = "engine"]
      /\ TRUE
  BY <1>0 DEF FinalFiles, observed, sandbox, abort, AfterMark, FirstFailure
<1>2. ctl' \in ControllerStates /\ ctl'.pc = "engine" /\ ctl'.step = ctl.step /\ ctl'.session = ctl.session /\ ctl'.windowSequence = ctl.windowSequence /\ ctl'.finalReady = ctl.finalReady /\ ctl'.phaseSignalsComplete = ctl.phaseSignalsComplete /\ ctl'.result = ctl.result /\ ctl'.failure = ctl.failure /\ ctl'.broken = ctl.broken
  BY <1>1, <1>y, <1>n, <1>m, <1>x, TraceFrameTypes DEF ControllerStates, Stages, Early, Late, Talking, TraceFailures
<1>3. /\ filesystem' \in FilesystemStates /\ filesystem'.baseline = filesystem.baseline
      /\ filesystem'.baselineReady = filesystem.baselineReady
      /\ (filesystem'.finalReady => filesystem.baselineReady /\ filesystem'.final = files)
      /\ filesystem'.patterns = filesystem.patterns /\ filesystem'.ambiguous = filesystem.ambiguous
  BY <1>1, <1>x
<1>4. TraceTypes'
  BY <1>1, <1>2, <1>3, <1>y DEF TraceTypes
<1>5. (Good' => Good) /\ (Clean' => Clean)
  BY <1>1, <1>2, <1>3, <1>f, <1>x DEF Good, Clean, Early
<1>6. Progress'
  BY <1>1, <1>2, <1>3, <1>5, <1>q, <1>n, <1>m, <1>f, <1>x DEF Progress, Quiet, Good, Early, Late, AfterMark
<1>7. HelperStaged'
  BY <1>1, <1>2, <1>3, <1>5, <1>q, <1>n, <1>m, <1>f, <1>x DEF HelperStaged, Exchange
<1>8. Commanded'
  BY <1>1, <1>2, <1>3, <1>5, <1>q, <1>n, <1>m, <1>f, <1>x DEF Commanded
<1>9. Exchange'
  BY <1>1, <1>2, <1>3, <1>5, <1>q, <1>n, <1>m, <1>f, <1>x DEF Exchange, Progress, Good, Early, Late, Talking, PhaseCommand, CurrentPhase, AfterMark, HelperStaged
<1>10. Whole'
  BY <1>1, <1>2, <1>3, <1>5, <1>q, <1>n, <1>m, <1>f, <1>x DEF Whole
<1>11. Compared'
  BY <1>1, <1>2, <1>3, <1>5, <1>q, <1>n, <1>m, <1>f, <1>x DEF Compared, Clean, Good, Progress, Exchange, Quiet, Early, Late, CurrentPhase, AfterMark
<1>12. Granted'
  BY <1>1, <1>2, <1>3, <1>5, <1>q, <1>n, <1>m, <1>f, <1>x DEF Granted, Clean, Good, Early, Late, Progress
<1>13. Changed'
  BY <1>1, <1>2, <1>3, <1>5, <1>q, <1>n, <1>m, <1>f, <1>x DEF Changed
<1>14. Limits'
  BY <1>1, <1>2, <1>3, <1>5, <1>q, <1>n, <1>m, <1>f, <1>x DEF Limits, Early, Late, Talking, AfterMark, Progress
<1>15. Bounds'
  BY <1>1, <1>2, <1>3, <1>5, <1>q, <1>n, <1>m, <1>f, <1>x DEF Bounds, Early, Late, Talking, AfterMark, Progress
<1>16. Testimony'
  <2>1. Python /\ Good' /\ ctl.pc \in Late \cup {"done"} => ctl'.pc \in Late \cup {"done"}
    BY <1>1, <1>2, <1>3 DEF Late
  <2>2. \A f : Testified(f) => Testified(f)'
    BY <2>1, <1>1, <1>2, <1>3, <1>5, <1>f DEF Testified
  <2>4. \A f : ctl'.result = f /\ Testified(f)' => Testified(ctl.result)'
    BY DEF Testified
  <2>5. \A f : f = NoResult => Testified(f)'
    BY TraceFrameTypes DEF Testified
  <2>6. \A f : f = ctl.result => Testified(f)'
    BY <2>2, <1>q DEF Testimony
  <2>7. ctl'.result = ctl.result \/ ctl'.result = NoResult
    BY <1>1, <1>2, <1>3, <1>x
  <2>3. Testified(ctl.result)'
    BY <2>4, <2>6, <2>5, <2>7
  <2> QED BY <2>2, <2>3, <1>1, <1>2, <1>3, <1>q, TraceFrameTypes, <1>x DEF Testimony, Progress
<1> QED BY <1>4, <1>6, <1>7, <1>8, <1>9, <1>10, <1>11, <1>12, <1>13, <1>14, <1>15, <1>16, <1>q, <1>f DEF TraceInv

LEMMA PreflightKeeps ==
  ASSUME TraceInv, NEW limited \in BOOLEAN, NEW initialized \in BOOLEAN, NEW identity \in BOOLEAN, NEW collected \in BOOLEAN, NEW probed \in BOOLEAN, Preflight(limited, initialized, identity, collected, probed)
  PROVE  TraceInv'
<1> USE TraceAssumption, ChannelSizeAssumption
<1>0. Preflight(limited, initialized, identity, collected, probed)
  OBVIOUS
<1>q. /\ TraceTypes /\ Progress /\ HelperStaged /\ Commanded /\ Exchange /\ TreeClosed /\ Whole
      /\ Compared /\ Granted /\ Changed /\ Testimony /\ Limits /\ Bounds
  BY DEF TraceInv
<1>y. /\ mode \in Modes /\ ctl \in ControllerStates /\ cmp \in ComparisonStates
      /\ filesystem \in FilesystemStates /\ engine \in EngineStates /\ resource \in ResourceStates
      /\ control \in [queue : Seq(Commands), closed : BOOLEAN]
      /\ stream \in StreamStates(TraceFrames) /\ helper \in HelperStates /\ kernel \in Seq(Events)
      /\ files \in Snapshots /\ cgroup \in ResourceSnapshot
      /\ work \in [running : BOOLEAN, stray : BOOLEAN] /\ writes \in Seq([step : Nat, path : PathSet])
  BY <1>q DEF TraceTypes
<1>b. Len(stream.events) <= ChannelSize /\ ChannelSize \in Nat
  BY <1>q DEF Bounds
<1>m. control.queue \in Seq(Commands) /\ stream.events \in Seq(TraceFrames) /\ Len(stream.events) \in Nat
      /\ (writes = <<>> => DOMAIN writes = {})
  BY <1>y DEF StreamStates
<1>k. Len(Steps) \in Nat /\ Len(Steps) >= 1
  BY TraceAssumption
<1>n. /\ ctl.step \in Nat /\ ctl.windowSequence \in Nat /\ cmp.preChecks \in Nat /\ cmp.confirmedDispatches \in Nat
      /\ Len(Steps) \in Nat /\ Len(Steps) >= 1
  BY <1>y, <1>k DEF ControllerStates, ComparisonStates
<1>u. UNCHANGED <<mode, helper, kernel, files, writes>>
  BY <1>0 DEF Preflight, observed, sandbox
<1>f. /\ (Python' <=> Python) /\ (Started' <=> Started) /\ (Live' <=> Live) /\ (Poisoned' <=> Poisoned)
      /\ Heard' = Heard /\ Written' = Written /\ Tree(files)' = Tree(files) /\ (TreeClosed' <=> TreeClosed)
      /\ (eligible' <=> eligible) /\ PathsOf(helper.seen)' = PathsOf(helper.seen)
      /\ (\A w : (Recorded(w)' <=> Recorded(w)) /\ (Waits(w)' <=> Waits(w)))
      /\ (\A phase : RulesOf(phase)' = RulesOf(phase)) /\ (eligible => Python)
  BY <1>u, ControllerFrame DEF eligible, Python
<1>w. /\ ctl.pc = "preflight" /\ ~filesystem.finalReady /\ writes = <<>> /\ ~resource.finalReady
      /\ ~ctl.phaseSignalsComplete
  BY <1>0, <1>q DEF Preflight, Changed, Progress, Early, Limits
<1>g. /\ filesystem' \in FilesystemStates /\ ~filesystem'.finalReady
      /\ (filesystem'.baselineReady => filesystem'.baseline = files
                                       \/ (filesystem.baselineReady /\ filesystem'.baseline = filesystem.baseline))
      /\ filesystem'.patterns = filesystem.patterns /\ filesystem'.ambiguous = filesystem.ambiguous
  <2>1. CASE filesystem' = filesystem
    BY <2>1, <1>w, <1>y DEF FilesystemStates
  <2>2. CASE filesystem' = [filesystem EXCEPT !.baselineIdentityVerified = identity, !.failure = "baseline-snapshot-failed"]
    BY <2>2, <1>w, <1>y DEF FilesystemStates
  <2>3. CASE filesystem' = [filesystem EXCEPT !.baselineIdentityVerified = TRUE, !.baseline = files, !.baselineReady = TRUE]
    BY <2>3, <1>w, <1>y DEF FilesystemStates
  <2> QED BY <2>1, <2>2, <2>3, <1>0 DEF Preflight
<1>r. /\ resource' \in ResourceStates /\ ~resource'.finalReady
      /\ (resource.activeReady => resource'.activeReady) /\ (resource'.activeReady => resource'.active.events = 0)
      /\ (cgroup.events > 0 => resource'.activeReady)
  <2>1. CASE resource' = resource
    BY <2>1, <1>w, <1>y, <1>q DEF Limits
  <2>2. CASE resource' = [resource EXCEPT !.active = cgroup, !.activeReady = TRUE] /\ cgroup.events = 0
    BY <2>2, <1>w, <1>y DEF ResourceStates
  <2> QED BY <2>1, <2>2, <1>0 DEF Preflight, validateLinuxResourcePreflight
<1>x. /\ filesystem' \in FilesystemStates /\ ~filesystem'.finalReady
      /\ (filesystem'.baselineReady => filesystem'.baseline = files
                                       \/ (filesystem.baselineReady /\ filesystem'.baseline = filesystem.baseline))
      /\ filesystem'.patterns = filesystem.patterns /\ filesystem'.ambiguous = filesystem.ambiguous
      /\ resource' \in ResourceStates /\ ~resource'.finalReady
      /\ (resource.activeReady => resource'.activeReady) /\ (resource'.activeReady => resource'.active.events = 0)
      /\ (cgroup.events > 0 => resource'.activeReady)
      /\ ~ctl.phaseSignalsComplete /\ writes = <<>>
  BY <1>g, <1>r, <1>w
<1>1. CASE resource'.activeReady /\ initialized /\ probed
  <2>1. /\ ctl.pc = "preflight" /\ resource'.activeReady
        /\ UNCHANGED <<mode, kernel, files, writes, helper, cmp, engine, control, stream, cgroup, work>>
        /\ ctl' = [ctl EXCEPT !.pc = "start"]
        /\ TRUE
        /\ TRUE
    BY <1>1, <1>0 DEF Preflight, observed, sandbox, abort, AfterMark, FirstFailure
  <2>2. ctl' \in ControllerStates /\ ctl'.pc = "start" /\ ctl'.step = ctl.step /\ ctl'.session = ctl.session /\ ctl'.windowSequence = ctl.windowSequence /\ ctl'.finalReady = ctl.finalReady /\ ctl'.phaseSignalsComplete = ctl.phaseSignalsComplete /\ ctl'.result = ctl.result /\ ctl'.failure = ctl.failure /\ ctl'.broken = ctl.broken
    BY <2>1, <1>y, <1>n, <1>m, <1>x, TraceFrameTypes DEF ControllerStates, Stages, Early, Late, Talking, TraceFailures
  <2>3. filesystem' \in FilesystemStates /\ ~filesystem'.finalReady /\ filesystem'.patterns = filesystem.patterns /\ filesystem'.ambiguous = filesystem.ambiguous
    BY <2>1, <1>x
  <2>4. resource' \in ResourceStates /\ ~resource'.finalReady
    BY <2>1, <1>x
  <2>5. TraceTypes'
    BY <2>1, <2>2, <2>3, <2>4, <1>y DEF TraceTypes
  <2>6. (Good' => Good) /\ (Clean' => Clean)
    BY <2>1, <2>2, <2>3, <2>4, <1>f, <1>x DEF Good, Clean, Early
  <2>7. Progress'
    BY <2>1, <2>2, <2>3, <2>4, <2>6, <1>q, <1>n, <1>m, <1>f, <1>x DEF Progress, Quiet, Good, Early, Late, AfterMark
  <2>8. HelperStaged'
    BY <2>1, <2>2, <2>3, <2>4, <2>6, <1>q, <1>n, <1>m, <1>f, <1>x DEF HelperStaged, Exchange
  <2>9. Commanded'
    BY <2>1, <2>2, <2>3, <2>4, <2>6, <1>q, <1>n, <1>m, <1>f, <1>x DEF Commanded
  <2>10. Exchange'
    BY <2>1, <2>2, <2>3, <2>4, <2>6, <1>q, <1>n, <1>m, <1>f, <1>x DEF Exchange, Progress, Good, Early, Late, Talking, PhaseCommand, CurrentPhase, AfterMark, HelperStaged
  <2>11. Whole'
    BY <2>1, <2>2, <2>3, <2>4, <2>6, <1>q, <1>n, <1>m, <1>f, <1>x DEF Whole
  <2>12. Compared'
    BY <2>1, <2>2, <2>3, <2>4, <2>6, <1>q, <1>n, <1>m, <1>f, <1>x DEF Compared, Clean, Good, Progress, Exchange, Quiet, Early, Late, CurrentPhase, AfterMark
  <2>13. Granted'
    BY <2>1, <2>2, <2>3, <2>4, <2>6, <1>q, <1>n, <1>m, <1>f, <1>x DEF Granted, Clean, Good, Early, Late, Progress
  <2>14. Changed'
    <3>1. \A p, W : Kept(files, files, p, W)
      BY DEF Kept, Same
    <3> QED BY <3>1, <2>1, <2>2, <2>3, <2>4, <1>x, <1>f, <1>q DEF Changed
  <2>15. Limits'
    BY <2>1, <2>2, <2>3, <2>4, <2>6, <1>q, <1>n, <1>m, <1>f, <1>x DEF Limits, Early, Late, Talking, AfterMark, Progress
  <2>16. Bounds'
    BY <2>1, <2>2, <2>3, <2>4, <2>6, <1>q, <1>n, <1>m, <1>f, <1>x DEF Bounds, Early, Late, Talking, AfterMark, Progress
  <2>17. Testimony'
    <3>1. Python /\ Good' /\ ctl.pc \in Late \cup {"done"} => ctl'.pc \in Late \cup {"done"}
      BY <2>1, <2>2, <2>3, <2>4 DEF Late
    <3>2. \A f : Testified(f) => Testified(f)'
      BY <3>1, <2>1, <2>2, <2>3, <2>4, <2>6, <1>f DEF Testified
    <3>4. \A f : ctl'.result = f /\ Testified(f)' => Testified(ctl.result)'
      BY DEF Testified
    <3>5. \A f : f = NoResult => Testified(f)'
      BY TraceFrameTypes DEF Testified
    <3>6. \A f : f = ctl.result => Testified(f)'
      BY <3>2, <1>q DEF Testimony
    <3>7. ctl'.result = ctl.result \/ ctl'.result = NoResult
      BY <2>1, <2>2, <2>3, <2>4, <1>x
    <3>3. Testified(ctl.result)'
      BY <3>4, <3>6, <3>5, <3>7
    <3> QED BY <3>2, <3>3, <2>1, <2>2, <2>3, <2>4, <1>q, TraceFrameTypes, <1>x DEF Testimony, Progress
  <2> QED BY <2>5, <2>7, <2>8, <2>9, <2>10, <2>11, <2>12, <2>13, <2>14, <2>15, <2>16, <2>17, <1>q, <1>f DEF TraceInv
<1>2. CASE ~(resource'.activeReady /\ initialized /\ probed)
  <2>1. /\ ctl.pc = "preflight"
        /\ UNCHANGED <<mode, kernel, files, writes, helper, cmp, engine, control, stream, cgroup, work>>
        /\ ctl' = [ctl EXCEPT !.pc = "mark", !.broken = TRUE]
        /\ TRUE
        /\ TRUE
    BY <1>2, <1>0 DEF Preflight, observed, sandbox, abort, AfterMark, FirstFailure
  <2>2. ctl' \in ControllerStates /\ ctl'.pc = "mark" /\ ctl'.step = ctl.step /\ ctl'.session = ctl.session /\ ctl'.windowSequence = ctl.windowSequence /\ ctl'.finalReady = ctl.finalReady /\ ctl'.phaseSignalsComplete = ctl.phaseSignalsComplete /\ ctl'.result = ctl.result /\ ctl'.failure = ctl.failure /\ ctl'.broken = TRUE
    BY <2>1, <1>y, <1>n, <1>m, <1>x, TraceFrameTypes DEF ControllerStates, Stages, Early, Late, Talking, TraceFailures
  <2>3. filesystem' \in FilesystemStates /\ ~filesystem'.finalReady /\ filesystem'.patterns = filesystem.patterns /\ filesystem'.ambiguous = filesystem.ambiguous
    BY <2>1, <1>x
  <2>4. resource' \in ResourceStates /\ ~resource'.finalReady
    BY <2>1, <1>x
  <2>5. TraceTypes'
    BY <2>1, <2>2, <2>3, <2>4, <1>y DEF TraceTypes
  <2>6. (Good' => Good) /\ (Clean' => Clean)
    BY <2>1, <2>2, <2>3, <2>4, <1>f, <1>x DEF Good, Clean, Early
  <2>7. Progress'
    BY <2>1, <2>2, <2>3, <2>4, <2>6, <1>q, <1>n, <1>m, <1>f, <1>x DEF Progress, Quiet, Good, Early, Late, AfterMark
  <2>8. HelperStaged'
    BY <2>1, <2>2, <2>3, <2>4, <2>6, <1>q, <1>n, <1>m, <1>f, <1>x DEF HelperStaged, Exchange
  <2>9. Commanded'
    BY <2>1, <2>2, <2>3, <2>4, <2>6, <1>q, <1>n, <1>m, <1>f, <1>x DEF Commanded
  <2>10. Exchange'
    BY <2>1, <2>2, <2>3, <2>4, <2>6, <1>q, <1>n, <1>m, <1>f, <1>x DEF Exchange, Progress, Good, Early, Late, Talking, PhaseCommand, CurrentPhase, AfterMark, HelperStaged
  <2>11. Whole'
    BY <2>1, <2>2, <2>3, <2>4, <2>6, <1>q, <1>n, <1>m, <1>f, <1>x DEF Whole
  <2>12. Compared'
    BY <2>1, <2>2, <2>3, <2>4, <2>6, <1>q, <1>n, <1>m, <1>f, <1>x DEF Compared, Clean, Good, Progress, Exchange, Quiet, Early, Late, CurrentPhase, AfterMark
  <2>13. Granted'
    BY <2>1, <2>2, <2>3, <2>4, <2>6, <1>q, <1>n, <1>m, <1>f, <1>x DEF Granted, Clean, Good, Early, Late, Progress
  <2>14. Changed'
    <3>1. \A p, W : Kept(files, files, p, W)
      BY DEF Kept, Same
    <3> QED BY <3>1, <2>1, <2>2, <2>3, <2>4, <1>x, <1>f, <1>q DEF Changed
  <2>15. Limits'
    BY <2>1, <2>2, <2>3, <2>4, <2>6, <1>q, <1>n, <1>m, <1>f, <1>x DEF Limits, Early, Late, Talking, AfterMark, Progress
  <2>16. Bounds'
    BY <2>1, <2>2, <2>3, <2>4, <2>6, <1>q, <1>n, <1>m, <1>f, <1>x DEF Bounds, Early, Late, Talking, AfterMark, Progress
  <2>17. Testimony'
    <3>1. Python /\ Good' /\ ctl.pc \in Late \cup {"done"} => ctl'.pc \in Late \cup {"done"}
      BY <2>1, <2>2, <2>3, <2>4 DEF Late
    <3>2. \A f : Testified(f) => Testified(f)'
      BY <3>1, <2>1, <2>2, <2>3, <2>4, <2>6, <1>f DEF Testified
    <3>4. \A f : ctl'.result = f /\ Testified(f)' => Testified(ctl.result)'
      BY DEF Testified
    <3>5. \A f : f = NoResult => Testified(f)'
      BY TraceFrameTypes DEF Testified
    <3>6. \A f : f = ctl.result => Testified(f)'
      BY <3>2, <1>q DEF Testimony
    <3>7. ctl'.result = ctl.result \/ ctl'.result = NoResult
      BY <2>1, <2>2, <2>3, <2>4, <1>x
    <3>3. Testified(ctl.result)'
      BY <3>4, <3>6, <3>5, <3>7
    <3> QED BY <3>2, <3>3, <2>1, <2>2, <2>3, <2>4, <1>q, TraceFrameTypes, <1>x DEF Testimony, Progress
  <2> QED BY <2>5, <2>7, <2>8, <2>9, <2>10, <2>11, <2>12, <2>13, <2>14, <2>15, <2>16, <2>17, <1>q, <1>f DEF TraceInv
<1> QED BY <1>0, <1>1, <1>2 DEF Preflight

LEMMA StartTraceKeeps ==
  ASSUME TraceInv, NEW identity \in BOOLEAN, NEW started \in BOOLEAN, StartTrace(identity, started)
  PROVE  TraceInv'
<1> USE TraceAssumption, ChannelSizeAssumption
<1>0. StartTrace(identity, started)
  OBVIOUS
<1>q. /\ TraceTypes /\ Progress /\ HelperStaged /\ Commanded /\ Exchange /\ TreeClosed /\ Whole
      /\ Compared /\ Granted /\ Changed /\ Testimony /\ Limits /\ Bounds
  BY DEF TraceInv
<1>y. /\ mode \in Modes /\ ctl \in ControllerStates /\ cmp \in ComparisonStates
      /\ filesystem \in FilesystemStates /\ engine \in EngineStates /\ resource \in ResourceStates
      /\ control \in [queue : Seq(Commands), closed : BOOLEAN]
      /\ stream \in StreamStates(TraceFrames) /\ helper \in HelperStates /\ kernel \in Seq(Events)
      /\ files \in Snapshots /\ cgroup \in ResourceSnapshot
      /\ work \in [running : BOOLEAN, stray : BOOLEAN] /\ writes \in Seq([step : Nat, path : PathSet])
  BY <1>q DEF TraceTypes
<1>b. Len(stream.events) <= ChannelSize /\ ChannelSize \in Nat
  BY <1>q DEF Bounds
<1>m. control.queue \in Seq(Commands) /\ stream.events \in Seq(TraceFrames) /\ Len(stream.events) \in Nat
      /\ (writes = <<>> => DOMAIN writes = {})
  BY <1>y DEF StreamStates
<1>k. Len(Steps) \in Nat /\ Len(Steps) >= 1
  BY TraceAssumption
<1>n. /\ ctl.step \in Nat /\ ctl.windowSequence \in Nat /\ cmp.preChecks \in Nat /\ cmp.confirmedDispatches \in Nat
      /\ Len(Steps) \in Nat /\ Len(Steps) >= 1
  BY <1>y, <1>k DEF ControllerStates, ComparisonStates
<1>u. UNCHANGED <<mode, kernel, files, writes>> /\ ctl.pc = "start"
  BY <1>0 DEF StartTrace, observed, sandbox
<1>s. /\ ~Started /\ helper.seen = <<>> /\ helper.watched = {} /\ helper.batch = <<>> /\ helper.rules = {}
      /\ helper.failure = "" /\ kernel = <<>> /\ stream.events = <<>> /\ writes = <<>> /\ helper.state = "none"
  BY <1>u, <1>q DEF Progress, HelperStaged, Started, Early
<1>h. /\ helper' \in HelperStates /\ helper'.state \in {"none", "starting"} /\ helper'.seen = <<>> /\ helper'.watched = {}
      /\ helper'.batch = <<>> /\ helper'.rules = {} /\ helper'.failure = "" /\ helper'.windows \in Nat /\ helper'.windows <= WindowLimit
  <2>1. CASE helper' = helper
    BY <2>1, <1>s, <1>y, <1>q DEF Bounds, HelperStates
  <2>2. CASE helper' = StartedHelper
    <3>1. helper' = [state |-> "starting", phase |-> "unknown", rules |-> {}, windows |-> 0,
                     declared |-> 0, seen |-> <<>>, failure |-> "", watched |-> {},
                     readable |-> {}, batch |-> <<>>, clean |-> TRUE]
      BY <2>2 DEF StartedHelper
    <3>2. "unknown" \in PhaseSet /\ <<>> \in Seq(Records) /\ <<>> \in Seq(Events) /\ "" \in HelperFailures
          /\ 0 <= WindowLimit
      BY DEF PhaseSet, HelperFailures
    <3> QED BY <3>1, <3>2 DEF HelperStates
  <2> QED BY <2>1, <2>2, <1>0 DEF StartTrace
<1>f. /\ (Python' <=> Python) /\ (Started' <=> Started) /\ (Live' <=> Live) /\ (Poisoned' <=> Poisoned)
      /\ Heard' = Heard /\ Written' = Written /\ Tree(files)' = Tree(files) /\ (TreeClosed' <=> TreeClosed)
      /\ (eligible' <=> eligible) /\ PathsOf(helper.seen)' = PathsOf(helper.seen)
      /\ (\A phase : RulesOf(phase)' = RulesOf(phase)) /\ (eligible => Python) /\ ~Live /\ ~Started
      /\ helper.state # "exited" /\ helper'.state # "exited" /\ helper'.state \in {"none", "starting"}
      /\ DOMAIN writes = {} /\ DOMAIN writes' = {} /\ DOMAIN stream.events = {}
  <2>1. /\ (Python' <=> Python) /\ (eligible' <=> eligible) /\ (Started' <=> Started) /\ (Live' <=> Live) /\ ~Live /\ ~Started
    BY <1>u, <1>s, <1>h DEF Python, Started, Live, eligible, Working
  <2>2. Written' = Written /\ Tree(files)' = Tree(files) /\ (TreeClosed' <=> TreeClosed)
    BY <1>u DEF Written, Tree, TreeClosed
  <2>3. (Poisoned' <=> Poisoned) /\ Heard' = Heard /\ PathsOf(helper.seen)' = PathsOf(helper.seen)
    BY <1>u, <1>s, <1>h DEF Poisoned, Heard, PathsOf
  <2>4. \A phase : RulesOf(phase)' = RulesOf(phase)
    BY <2>1 DEF RulesOf
  <2>5. DOMAIN writes = {} /\ DOMAIN writes' = {} /\ DOMAIN stream.events = {}
    BY <1>s, <1>u, <1>m
  <2>6. eligible => Python
    BY DEF eligible, Python
  <2> QED BY <2>1, <2>2, <2>3, <2>4, <2>5, <2>6, <1>s, <1>h
<1>o. /\ <<StartCommand>> \in Seq(Commands) /\ <<StartCommand>> # <<>>
      /\ Head(<<StartCommand>>) = StartCommand /\ Len(<<StartCommand>>) = 1
      /\ (\A i \in DOMAIN <<StartCommand>> : i = 1)
  <2>1. StartCommand \in Commands
    BY DEF Commands
  <2> QED BY <2>1
<1>v. StartedHelper.state = "starting"
  BY DEF StartedHelper
<1>w. \A s : s = (IF mode = "node" THEN NewStream(2, FALSE, 2) ELSE NewStream(WindowLimit + 2, TRUE, 2)) =>
        s \in StreamStates(TraceFrames) /\ s.events = <<>> /\ DOMAIN s.events = {} /\ Len(s.events) = 0
  <2> DEFINE n == WindowLimit + 2
  <2>1. n \in Nat
    OBVIOUS
  <2> HIDE DEF n
  <2>2. /\ NewStream(n, TRUE, 2) \in StreamStates(TraceFrames) /\ NewStream(n, TRUE, 2).events = <<>>
        /\ DOMAIN NewStream(n, TRUE, 2).events = {} /\ Len(NewStream(n, TRUE, 2).events) = 0
    BY <2>1, NewStreamIs
  <2>3. /\ NewStream(2, FALSE, 2) \in StreamStates(TraceFrames) /\ NewStream(2, FALSE, 2).events = <<>>
        /\ DOMAIN NewStream(2, FALSE, 2).events = {} /\ Len(NewStream(2, FALSE, 2).events) = 0
    BY NewStreamIs
  <2> QED BY <2>2, <2>3 DEF n
<1>x. /\ helper' \in HelperStates /\ helper'.state \in {"none", "starting"} /\ helper'.seen = <<>> /\ helper'.watched = {}
      /\ helper'.batch = <<>> /\ helper'.rules = {} /\ helper'.failure = "" /\ helper'.windows \in Nat /\ helper'.windows <= WindowLimit
      /\ ~Started /\ helper.seen = <<>> /\ helper.watched = {} /\ helper.batch = <<>> /\ helper.rules = {}
      /\ helper.failure = "" /\ kernel = <<>> /\ stream.events = <<>> /\ writes = <<>> /\ helper.state = "none"
      /\ <<StartCommand>> \in Seq(Commands) /\ <<StartCommand>> # <<>>
      /\ Head(<<StartCommand>>) = StartCommand /\ Len(<<StartCommand>>) = 1
      /\ (\A i \in DOMAIN <<StartCommand>> : i = 1)
  BY <1>s, <1>h, <1>o
<1>1. CASE identity /\ started
  <2>1. /\ ctl.pc = "start"
        /\ UNCHANGED <<mode, kernel, files, writes, cmp, filesystem, engine, resource, cgroup, work>>
        /\ helper' = StartedHelper
        /\ ctl' = [ctl EXCEPT !.startIdentityVerified = TRUE, !.pc = "awaitReady"]
        /\ control' = [queue |-> <<StartCommand>>, closed |-> FALSE]
        /\ stream' = IF mode = "node" THEN NewStream(2, FALSE, 2) ELSE NewStream(WindowLimit + 2, TRUE, 2)
    BY <1>1, <1>0 DEF StartTrace, observed, sandbox, abort, AfterMark, FirstFailure, StartCommand
  <2>2. helper' \in HelperStates /\ helper'.state = "starting"
    BY <2>1, <1>x, <1>v
  <2>3. ctl' \in ControllerStates /\ ctl'.pc = "awaitReady" /\ ctl'.step = ctl.step /\ ctl'.session = ctl.session /\ ctl'.windowSequence = ctl.windowSequence /\ ctl'.finalReady = ctl.finalReady /\ ctl'.phaseSignalsComplete = ctl.phaseSignalsComplete /\ ctl'.result = ctl.result /\ ctl'.failure = ctl.failure /\ ctl'.broken = ctl.broken
    BY <2>1, <1>y, <1>n, <1>m, <1>x, TraceFrameTypes DEF ControllerStates, Stages, Early, Late, Talking, TraceFailures
  <2>4. control' \in [queue : Seq(Commands), closed : BOOLEAN] /\ control'.queue = <<StartCommand>> /\ control'.closed = FALSE
    BY <2>1, <1>y, <1>n, <1>m, <1>x, TraceFrameTypes
  <2>5. stream' \in StreamStates(TraceFrames) /\ stream'.events = <<>> /\ DOMAIN stream'.events = {} /\ Len(stream'.events) = 0
    BY <2>1, <1>w
  <2>6. TraceTypes'
    BY <2>1, <2>2, <2>3, <2>4, <2>5, <1>y DEF TraceTypes
  <2>7. (Good' => Good) /\ (Clean' => Clean)
    BY <2>1, <2>2, <2>3, <2>4, <2>5, <1>f, <1>x DEF Good, Clean, Early
  <2>8. Progress'
    BY <2>1, <2>2, <2>3, <2>4, <2>5, <2>7, <1>q, <1>n, <1>m, <1>f, <1>x DEF Progress, Quiet, Good, Early, Late, AfterMark
  <2>9. HelperStaged'
    BY <2>1, <2>2, <2>3, <2>4, <2>5, <2>7, <1>q, <1>n, <1>m, <1>f, <1>x DEF HelperStaged, Exchange
  <2>10. Commanded'
    BY <2>1, <2>2, <2>3, <2>4, <2>5, <2>7, <1>q, <1>n, <1>m, <1>f, <1>x DEF Commanded
  <2>11. Exchange'
    BY <2>1, <2>2, <2>3, <2>4, <2>5, <2>7, <1>q, <1>n, <1>m, <1>f, <1>x DEF Exchange, Progress, Good, Early, Late, Talking, PhaseCommand, CurrentPhase, AfterMark, HelperStaged
  <2>12. Whole'
    BY <2>1, <2>2, <2>3, <2>4, <2>5, <2>7, <1>q, <1>n, <1>m, <1>f, <1>x DEF Whole
  <2>13. Compared'
    BY <2>1, <2>2, <2>3, <2>4, <2>5, <2>7, <1>q, <1>n, <1>m, <1>f, <1>x DEF Compared, Clean, Good, Progress, Exchange, Quiet, Early, Late, CurrentPhase, AfterMark
  <2>14. Granted'
    BY <2>1, <2>2, <2>3, <2>4, <2>5, <2>7, <1>q, <1>n, <1>m, <1>f, <1>x DEF Granted, Clean, Good, Early, Late, Progress
  <2>15. Changed'
    BY <2>1, <2>2, <2>3, <2>4, <2>5, <2>7, <1>q, <1>n, <1>m, <1>f, <1>x DEF Changed
  <2>16. Limits'
    BY <2>1, <2>2, <2>3, <2>4, <2>5, <2>7, <1>q, <1>n, <1>m, <1>f, <1>x DEF Limits, Early, Late, Talking, AfterMark, Progress
  <2>17. Bounds'
    BY <2>1, <2>2, <2>3, <2>4, <2>5, <2>7, <1>q, <1>n, <1>m, <1>f, <1>x DEF Bounds, Early, Late, Talking, AfterMark, Progress
  <2>18. Testimony'
    <3>1. Python /\ Good' /\ ctl.pc \in Late \cup {"done"} => ctl'.pc \in Late \cup {"done"}
      BY <2>1, <2>2, <2>3, <2>4, <2>5 DEF Late
    <3>2. \A f : Testified(f) => Testified(f)'
      BY <3>1, <2>1, <2>2, <2>3, <2>4, <2>5, <2>7, <1>f DEF Testified
    <3>4. \A f : ctl'.result = f /\ Testified(f)' => Testified(ctl.result)'
      BY DEF Testified
    <3>5. \A f : f = NoResult => Testified(f)'
      BY TraceFrameTypes DEF Testified
    <3>6. \A f : f = ctl.result => Testified(f)'
      BY <3>2, <1>q DEF Testimony
    <3>7. ctl'.result = ctl.result \/ ctl'.result = NoResult
      BY <2>1, <2>2, <2>3, <2>4, <2>5, <1>x
    <3>3. Testified(ctl.result)'
      BY <3>4, <3>6, <3>5, <3>7
    <3> QED BY <3>2, <3>3, <2>1, <2>2, <2>3, <2>4, <2>5, <1>q, TraceFrameTypes, <1>x DEF Testimony, Progress
  <2> QED BY <2>6, <2>8, <2>9, <2>10, <2>11, <2>12, <2>13, <2>14, <2>15, <2>16, <2>17, <2>18, <1>q, <1>f DEF TraceInv
<1>2. CASE ~(identity /\ started)
  <2>1. /\ ctl.pc = "start"
        /\ UNCHANGED <<mode, kernel, files, writes, helper, cmp, filesystem, engine, resource, control, stream, cgroup, work>>
        /\ ctl' = [ctl EXCEPT !.startIdentityVerified = identity, !.pc = "pre",
            !.failure = IF identity THEN "ready-transport-failed" ELSE "start-container-identity-failed"]
    BY <1>2, <1>0 DEF StartTrace, observed, sandbox, abort, AfterMark, FirstFailure, StartCommand
  <2>2. ctl' \in ControllerStates /\ ctl'.pc = "pre" /\ ctl'.step = ctl.step /\ ctl'.session = ctl.session /\ ctl'.windowSequence = ctl.windowSequence /\ ctl'.finalReady = ctl.finalReady /\ ctl'.phaseSignalsComplete = ctl.phaseSignalsComplete /\ ctl'.result = ctl.result /\ ctl'.failure = (IF identity THEN "ready-transport-failed" ELSE "start-container-identity-failed") /\ ctl'.failure # "" /\ ctl'.broken = ctl.broken
    BY <2>1, <1>y, <1>n, <1>m, <1>x, TraceFrameTypes DEF ControllerStates, Stages, Early, Late, Talking, TraceFailures
  <2>3. TraceTypes'
    BY <2>1, <2>2, <1>y DEF TraceTypes
  <2>4. (Good' => Good) /\ (Clean' => Clean)
    BY <2>1, <2>2, <1>f, <1>x DEF Good, Clean, Early
  <2>5. Progress'
    BY <2>1, <2>2, <2>4, <1>q, <1>n, <1>m, <1>f, <1>x DEF Progress, Quiet, Good, Early, Late, AfterMark
  <2>6. HelperStaged'
    BY <2>1, <2>2, <2>4, <1>q, <1>n, <1>m, <1>f, <1>x DEF HelperStaged, Exchange
  <2>7. Commanded'
    BY <2>1, <2>2, <2>4, <1>q, <1>n, <1>m, <1>f, <1>x DEF Commanded
  <2>8. Exchange'
    BY <2>1, <2>2, <2>4, <1>q, <1>n, <1>m, <1>f, <1>x DEF Exchange, Progress, Good, Early, Late, Talking, PhaseCommand, CurrentPhase, AfterMark, HelperStaged
  <2>9. Whole'
    BY <2>1, <2>2, <2>4, <1>q, <1>n, <1>m, <1>f, <1>x DEF Whole
  <2>10. Compared'
    BY <2>1, <2>2, <2>4, <1>q, <1>n, <1>m, <1>f, <1>x DEF Compared, Clean, Good, Progress, Exchange, Quiet, Early, Late, CurrentPhase, AfterMark
  <2>11. Granted'
    BY <2>1, <2>2, <2>4, <1>q, <1>n, <1>m, <1>f, <1>x DEF Granted, Clean, Good, Early, Late, Progress
  <2>12. Changed'
    BY <2>1, <2>2, <2>4, <1>q, <1>n, <1>m, <1>f, <1>x DEF Changed
  <2>13. Limits'
    BY <2>1, <2>2, <2>4, <1>q, <1>n, <1>m, <1>f, <1>x DEF Limits, Early, Late, Talking, AfterMark, Progress
  <2>14. Bounds'
    BY <2>1, <2>2, <2>4, <1>q, <1>n, <1>m, <1>f, <1>x DEF Bounds, Early, Late, Talking, AfterMark, Progress
  <2>15. Testimony'
    <3>1. Python /\ Good' /\ ctl.pc \in Late \cup {"done"} => ctl'.pc \in Late \cup {"done"}
      BY <2>1, <2>2 DEF Late
    <3>2. \A f : Testified(f) => Testified(f)'
      BY <3>1, <2>1, <2>2, <2>4, <1>f DEF Testified
    <3>4. \A f : ctl'.result = f /\ Testified(f)' => Testified(ctl.result)'
      BY DEF Testified
    <3>5. \A f : f = NoResult => Testified(f)'
      BY TraceFrameTypes DEF Testified
    <3>6. \A f : f = ctl.result => Testified(f)'
      BY <3>2, <1>q DEF Testimony
    <3>7. ctl'.result = ctl.result \/ ctl'.result = NoResult
      BY <2>1, <2>2, <1>x
    <3>3. Testified(ctl.result)'
      BY <3>4, <3>6, <3>5, <3>7
    <3> QED BY <3>2, <3>3, <2>1, <2>2, <1>q, TraceFrameTypes, <1>x DEF Testimony, Progress
  <2> QED BY <2>3, <2>5, <2>6, <2>7, <2>8, <2>9, <2>10, <2>11, <2>12, <2>13, <2>14, <2>15, <1>q, <1>f DEF TraceInv
<1> QED BY <1>0, <1>1, <1>2 DEF StartTrace


-----------------------------------------------------------------------------
(* The helper. *)

HelperLeaves == UNCHANGED <<mode, ctl, cmp, filesystem, engine, resource, files, cgroup, work, writes>>

LEMMA HelperFrame ==
  ASSUME HelperLeaves
  PROVE  /\ (Python' <=> Python) /\ (eligible' <=> eligible) /\ (Good' <=> Good) /\ (Clean' <=> Clean)
         /\ Written' = Written /\ Tree(files)' = Tree(files) /\ (TreeClosed' <=> TreeClosed)
         /\ (\A phase : RulesOf(phase)' = RulesOf(phase)) /\ CurrentPhase' = CurrentPhase
         /\ PhaseCommand' = PhaseCommand /\ (\A w : Allowed(w)' <=> Allowed(w))
         /\ (Granted' <=> Granted) /\ (Changed' <=> Changed) /\ (Limits' <=> Limits)
<1>1. /\ UNCHANGED mode /\ UNCHANGED ctl /\ UNCHANGED cmp /\ UNCHANGED filesystem /\ UNCHANGED resource
      /\ UNCHANGED files /\ UNCHANGED cgroup /\ UNCHANGED work /\ UNCHANGED writes
  BY DEF HelperLeaves
<1>2. (Python' <=> Python) /\ (eligible' <=> eligible) /\ (Good' <=> Good) /\ (Clean' <=> Clean)
  BY <1>1 DEF Python, eligible, Good, Clean
<1>3. Written' = Written /\ Tree(files)' = Tree(files) /\ (TreeClosed' <=> TreeClosed)
  BY <1>1 DEF Written, Tree, TreeClosed
<1>4. \A phase : RulesOf(phase)' = RulesOf(phase)
  BY <1>2 DEF RulesOf
<1>5. CurrentPhase' = CurrentPhase /\ PhaseCommand' = PhaseCommand
  BY <1>1, <1>4 DEF CurrentPhase, PhaseCommand
<1>6. \A w : Allowed(w)' <=> Allowed(w)
  BY <1>4 DEF Allowed
<1>7. Granted' <=> Granted
  BY <1>1, <1>2, <1>4 DEF Granted
<1>8. (Changed' <=> Changed) /\ (Limits' <=> Limits)
  BY <1>1, <1>3 DEF Changed, Limits
<1> QED BY <1>2, <1>3, <1>4, <1>5, <1>6, <1>7, <1>8

HelperBounds ==
  /\ helper.windows <= WindowLimit /\ (helper.failure = "" => Len(helper.seen) <= NotificationLimit)
  /\ Len(helper.seen) <= NotificationLimit + 1

KernelBound(queue) ==
  Len(queue) <= QueueLimit \/ (Len(queue) = QueueLimit + 1 /\ queue[Len(queue)] = Overflowed)

\* What is left to show of a step of the helper.
LEMMA HelperAssembles ==
  ASSUME TraceInv, HelperLeaves, helper.state # "none", helper' \in HelperStates,
         control' \in [queue : Seq(Commands), closed : BOOLEAN], stream' \in StreamStates(TraceFrames),
         kernel' \in Seq(Events), HelperBounds', KernelBound(kernel)', Len(stream'.events) <= ChannelSize,
         HelperStaged', Commanded', Exchange', Whole', Compared', Testimony'
  PROVE  TraceInv'
<1>1. /\ UNCHANGED mode /\ UNCHANGED ctl /\ UNCHANGED cmp /\ UNCHANGED filesystem /\ UNCHANGED engine
      /\ UNCHANGED resource /\ UNCHANGED files /\ UNCHANGED cgroup /\ UNCHANGED work /\ UNCHANGED writes
  BY DEF HelperLeaves
<1>2. TraceTypes /\ Progress /\ TreeClosed /\ Granted /\ Changed /\ Limits /\ Bounds
  BY DEF TraceInv
<1>3. (Good' <=> Good) /\ (TreeClosed' <=> TreeClosed) /\ (Granted' <=> Granted) /\ (Changed' <=> Changed)
      /\ (Limits' <=> Limits)
  BY HelperFrame
<1>4. TraceTypes'
  BY <1>1, <1>2 DEF TraceTypes
<1>5. Progress'
  BY <1>1, <1>2, <1>3 DEF Progress, Quiet, eligible
<1>6. Bounds'
  BY <1>1, <1>2 DEF Bounds, HelperBounds, KernelBound
<1> QED BY <1>2, <1>3, <1>4, <1>5, <1>6 DEF TraceInv

LEMMA FailedFrameIs ==
  ASSUME NEW h
  PROVE  FailedFrame(h).type = "failed" /\ FailedFrame(h).failure = h.failure
  BY DEF FailedFrame

LEMMA FinalFrameIs ==
  ASSUME NEW h \in HelperStates, NEW ok \in BOOLEAN
  PROVE  /\ FinalFrame(h, ok).type = "final" /\ (FinalFrame(h, ok).ok <=> ok /\ h.failure = "")
         /\ FinalFrame(h, ok).comparisonResult = "no-undeclared-observed" =>
              \A i \in DOMAIN h.seen : h.seen[i].matched
<1> DEFINE U == {i \in DOMAIN h.seen : ~h.seen[i].matched}
           u == Count(h.seen, LAMBDA e : ~e.matched)
<1>1. FinalFrame(h, ok).type = "final" /\ (FinalFrame(h, ok).ok <=> ok /\ h.failure = "")
  BY DEF FinalFrame
<1>2. FinalFrame(h, ok).comparisonResult = IF u > 0 THEN "nonconforming-notifications" ELSE "no-undeclared-observed"
  BY DEF FinalFrame
<1>3. u = Cardinality(U)
  BY DEF Count
<1>4. IsFiniteSet(U)
  <2>1. IsFiniteSet(1..Len(h.seen)) /\ DOMAIN h.seen = 1..Len(h.seen)
    BY FS_Interval DEF HelperStates
  <2> QED BY <2>1, FS_Subset
<1>5. U # {} => Cardinality(U) > 0
  BY <1>4, FS_EmptySet, FS_CardinalityType
<1> HIDE DEF u
<1>6. FinalFrame(h, ok).comparisonResult = "no-undeclared-observed" => U = {}
  BY <1>2, <1>3, <1>5
<1> QED BY <1>1, <1>6

LEMMA AckFrameIs == \A h : AckFrame(h).type = "phase-ack"
  BY DEF AckFrame

\* What a latched failure and an exit leave alone.
Similar(g, h) ==
  /\ g \in HelperStates /\ g.seen = h.seen /\ g.batch = h.batch /\ g.windows = h.windows /\ g.rules = h.rules
  /\ g.phase = h.phase /\ g.declared = h.declared

LEMMA Latched ==
  ASSUME NEW h \in HelperStates, h.failure # "" => h.watched = {}, NEW reason \in HelperFailures \ {""}
  PROVE  /\ Similar(latch(h, reason), h) /\ latch(h, reason).failure # "" /\ latch(h, reason).watched = {}
         /\ latch(h, reason).state = h.state /\ latch(h, reason).readable = h.readable
         /\ latch(h, reason) \in HelperStates
<1>1. CASE h.failure # ""
  BY <1>1 DEF latch, Similar
<1>2. CASE h.failure = ""
  <2>1. latch(h, reason) = [h EXCEPT !.failure = reason, !.watched = {}]
    BY <1>2 DEF latch
  <2>2. [h EXCEPT !.failure = reason, !.watched = {}] \in HelperStates
    BY DEF HelperStates
  <2> QED BY <2>1, <2>2 DEF HelperStates, Similar
<1> QED BY <1>1, <1>2

LEMMA Exited ==
  ASSUME NEW h \in HelperStates
  PROVE  /\ Similar(Exit(h), h) /\ Exit(h).failure = h.failure /\ Exit(h).watched = {} /\ Exit(h).state = "exited"
         /\ Exit(h) \in HelperStates
<1>1. Exit(h) = [h EXCEPT !.state = "exited", !.watched = {}, !.readable = {}]
  BY DEF Exit
<1>2. Exit(h) \in HelperStates
  BY <1>1 DEF HelperStates
<1> QED BY <1>1, <1>2 DEF HelperStates, Similar

LEMMA Unspoken ==
  ASSUME Testimony, ctl' = ctl, helper.state # "exited", stream' = stream
  PROVE  Testimony'
<1>1. \A f : Testified(f) => Testified(f)'
  BY DEF Testified
<1>2. \A f : f = ctl.result => Testified(f)'
  BY <1>1 DEF Testimony
<1>3. \A f : ctl' = ctl /\ f = ctl.result /\ Testified(f)' => Testified(ctl.result)'
  BY DEF Testified
<1>4. Testified(ctl.result)'
  BY <1>2, <1>3
<1> QED BY <1>1, <1>4 DEF Testimony

LEMMA Spoken ==
  ASSUME TraceInv, ctl' = ctl, helper.state # "exited", NEW frame \in TraceFrames, MayWrite(stream),
         stream' = WriteFrame(stream, frame), Testified(frame)'
  PROVE  /\ Testimony' /\ stream' \in StreamStates(TraceFrames) /\ Len(stream'.events) <= ChannelSize
         /\ (stream.events = <<>> => Len(stream'.events) <= 1)
<1>1. Testimony /\ stream \in StreamStates(TraceFrames) /\ Len(stream.events) <= ChannelSize
  BY DEF TraceInv, TraceTypes, Bounds
<1>2. stream' \in StreamStates(TraceFrames) /\ Grown(stream', stream, frame)
  BY <1>1, WriteFrameGrows, TraceFramesHold
<1>3. Len(stream'.events) <= ChannelSize /\ Len(stream'.events) <= Len(stream.events) + 1
  BY <1>1, WriteFrameLength, TraceFramesHold
<1>4. stream.events = <<>> => Len(stream'.events) <= 1
  <2>1. stream.events = <<>> => Len(stream.events) = 0
    BY <1>1 DEF StreamStates
  <2> QED BY <1>3, <2>1
<1>5. \A f : Testified(f) => Testified(f)'
  BY DEF Testified
<1>6. \A f : f = StreamError => Testified(f)'
  BY TraceFrameTypes DEF Testified
<1>7. \A i \in DOMAIN stream.events : \A f : f = stream.events[i] => Testified(f)'
  BY <1>1, <1>5 DEF Testimony
<1>8. \A i \in DOMAIN stream'.events : \A f : f = stream'.events[i] => Testified(f)'
  BY <1>2, <1>6, <1>7 DEF Grown
<1>9. \A f : f = ctl.result => Testified(f)'
  BY <1>1, <1>5 DEF Testimony
<1>10. Testified(ctl.result)'
  <2>1. \A f : ctl' = ctl /\ f = ctl.result /\ Testified(f)' => Testified(ctl.result)'
    BY DEF Testified
  <2> QED BY <2>1, <1>9
<1>11. \A i \in DOMAIN stream'.events : Testified(stream.events[i])'
  <2>1. \A i : \A f : f = stream'.events[i] /\ Testified(f)' => Testified(stream.events[i])'
    BY DEF Testified
  <2> QED BY <2>1, <1>8
<1>12. Testimony'
  BY <1>1, <1>10, <1>11 DEF Testimony
<1> QED BY <1>2, <1>3, <1>4, <1>12


LEMMA HelperCrashKeeps ==
  ASSUME TraceInv, HelperCrash
  PROVE  TraceInv'
<1> USE TraceAssumption, ChannelSizeAssumption
<1>q. /\ TraceTypes /\ Progress /\ HelperStaged /\ Commanded /\ Exchange /\ TreeClosed /\ Whole
      /\ Compared /\ Granted /\ Changed /\ Testimony /\ Limits /\ Bounds
  BY DEF TraceInv
<1>y. /\ control \in [queue : Seq(Commands), closed : BOOLEAN] /\ control.queue \in Seq(Commands)
      /\ stream \in StreamStates(TraceFrames) /\ helper \in HelperStates /\ kernel \in Seq(Events)
      /\ writes \in Seq([step : Nat, path : PathSet]) /\ files \in Snapshots
  BY <1>q DEF TraceTypes
<1>b. HelperBounds /\ KernelBound(kernel) /\ Len(stream.events) <= ChannelSize
  BY <1>q DEF Bounds, HelperBounds, KernelBound
<1>u. /\ HelperLeaves /\ UNCHANGED control /\ UNCHANGED stream /\ UNCHANGED kernel
      /\ helper.state \notin {"none", "exited"} /\ helper' = [Exit(helper) EXCEPT !.clean = FALSE]
  BY DEF HelperCrash, HelperLeaves, observed, sandbox
<1>f. /\ (Python' <=> Python) /\ (eligible' <=> eligible) /\ (Good' <=> Good) /\ (Clean' <=> Clean)
      /\ Written' = Written /\ Tree(files)' = Tree(files)
      /\ (\A phase : RulesOf(phase)' = RulesOf(phase)) /\ CurrentPhase' = CurrentPhase
      /\ PhaseCommand' = PhaseCommand /\ (\A w : Allowed(w)' <=> Allowed(w)) /\ (Clean => Python /\ Good)
  BY <1>u, HelperFrame DEF Clean, eligible, Python
<1>1. /\ helper' \in HelperStates /\ helper'.state = "exited" /\ helper'.watched = {} /\ helper'.seen = helper.seen
      /\ helper'.batch = helper.batch /\ helper'.rules = helper.rules /\ helper'.windows = helper.windows
      /\ helper'.failure = helper.failure
  <2> DEFINE h == Exit(helper)
  <2>1. Similar(h, helper) /\ h.failure = helper.failure /\ h.watched = {} /\ h.state = "exited" /\ h \in HelperStates
    BY <1>y, Exited
  <2>2. helper' = [h EXCEPT !.clean = FALSE]
    BY <1>u
  <2> HIDE DEF h
  <2>3. /\ helper' \in HelperStates /\ helper'.state = h.state /\ helper'.watched = h.watched /\ helper'.seen = h.seen
        /\ helper'.batch = h.batch /\ helper'.rules = h.rules /\ helper'.windows = h.windows
        /\ helper'.failure = h.failure
    BY <2>1, <2>2 DEF HelperStates
  <2> QED BY <2>1, <2>3 DEF Similar
<1>2. Started' /\ ~Live'
  BY <1>1 DEF Started, Live, Working
<1>3. HelperBounds' /\ KernelBound(kernel)'
  BY <1>1, <1>b, <1>u DEF HelperBounds, KernelBound
<1>4. HelperStaged'
  BY <1>1, <1>2, <1>f, <1>q, <1>u DEF HelperStaged
<1>5. Commanded'
  BY <1>1, <1>q, <1>u DEF Commanded
<1>6. Exchange'
  <2>1. ctl' = ctl
    BY <1>u DEF HelperLeaves
  <2> QED BY <2>1, <1>1, <1>2, <1>f, <1>q, <1>u DEF Exchange
<1>7. Whole' /\ Compared'
  <2>1. UNCHANGED ctl /\ UNCHANGED work
    BY <1>u DEF HelperLeaves
  <2> QED BY <2>1, <1>2, <1>f, <1>q DEF Whole, Compared
<1>8. Testimony'
  BY <1>q, <1>u, Unspoken DEF HelperLeaves
<1> QED BY <1>1, <1>3, <1>4, <1>5, <1>6, <1>7, <1>8, <1>u, <1>y, <1>b, HelperAssembles

LEMMA HelperSelectKeeps ==
  ASSUME TraceInv, HelperSelect
  PROVE  TraceInv'
<1> USE TraceAssumption, ChannelSizeAssumption
<1>q. /\ TraceTypes /\ Progress /\ HelperStaged /\ Commanded /\ Exchange /\ TreeClosed /\ Whole
      /\ Compared /\ Granted /\ Changed /\ Testimony /\ Limits /\ Bounds
  BY DEF TraceInv
<1>y. /\ control \in [queue : Seq(Commands), closed : BOOLEAN] /\ control.queue \in Seq(Commands)
      /\ stream \in StreamStates(TraceFrames) /\ helper \in HelperStates /\ kernel \in Seq(Events)
      /\ writes \in Seq([step : Nat, path : PathSet]) /\ files \in Snapshots
  BY <1>q DEF TraceTypes
<1>b. HelperBounds /\ KernelBound(kernel) /\ Len(stream.events) <= ChannelSize
  BY <1>q DEF Bounds, HelperBounds, KernelBound
<1>u. /\ HelperLeaves /\ UNCHANGED control /\ UNCHANGED stream /\ UNCHANGED kernel
      /\ helper.state = "loop" /\ Python
  BY DEF HelperSelect, HelperLeaves, observed, sandbox, Python
<1>f. /\ (Python' <=> Python) /\ (eligible' <=> eligible) /\ (Good' <=> Good) /\ (Clean' <=> Clean)
      /\ Written' = Written /\ Tree(files)' = Tree(files)
      /\ (\A phase : RulesOf(phase)' = RulesOf(phase)) /\ CurrentPhase' = CurrentPhase
      /\ PhaseCommand' = PhaseCommand /\ (\A w : Allowed(w)' <=> Allowed(w)) /\ (Clean => Python /\ Good)
  BY <1>u, HelperFrame DEF Clean, eligible, Python
<1> DEFINE ready == (IF helper.watched # {} /\ kernel # <<>> THEN {"kernel"} ELSE {})
                    \cup (IF control.queue # <<>> \/ control.closed THEN {"control"} ELSE {})
           state == IF "kernel" \in ready THEN "read" ELSE "control"
<1>0. ready # {} /\ helper' = [helper EXCEPT !.readable = ready, !.state = state]
  BY DEF HelperSelect
<1>r. /\ ready \in SUBSET {"kernel", "control"} /\ state \in {"read", "control"}
      /\ state = "read" => helper.watched # {} /\ kernel # <<>>
      /\ "control" \in ready => control.queue # <<>> \/ control.closed
      /\ state = "control" => "control" \in ready
  BY <1>0
<1> HIDE DEF ready, state
<1>1. /\ helper' \in HelperStates /\ helper'.state = state /\ helper'.watched = helper.watched /\ helper'.seen = helper.seen
      /\ helper'.batch = helper.batch /\ helper'.rules = helper.rules /\ helper'.windows = helper.windows
      /\ helper'.failure = helper.failure /\ helper'.readable = ready
  BY <1>0, <1>r, <1>y DEF HelperStates
<1>2. Started' /\ Started /\ (Live' <=> Live)
  BY <1>1, <1>r, <1>u DEF Started, Live, Working
<1>3. HelperBounds' /\ KernelBound(kernel)'
  BY <1>1, <1>b, <1>u DEF HelperBounds, KernelBound
<1>4. HelperStaged'
  BY <1>1, <1>2, <1>f, <1>q, <1>u, <1>r DEF HelperStaged
<1>5. Commanded'
  BY <1>1, <1>q, <1>u DEF Commanded
<1>6. Exchange'
  <2>1. ctl' = ctl
    BY <1>u DEF HelperLeaves
  <2> QED BY <2>1, <1>1, <1>2, <1>f, <1>q, <1>u, <1>r DEF Exchange
<1>7. Whole' /\ Compared'
  <2>1. UNCHANGED ctl /\ UNCHANGED work /\ UNCHANGED writes
    BY <1>u DEF HelperLeaves
  <2>2. (Poisoned' <=> Poisoned) /\ Heard' = Heard
    BY <1>1, <1>u DEF Poisoned, Heard, PathsOf
  <2>3. \A w : (Recorded(w)' <=> Recorded(w)) /\ (Waits(w)' <=> Waits(w))
    BY <1>1, <1>u, <1>f DEF Recorded, Waits, PathsOf
  <2> QED BY <2>1, <2>2, <2>3, <1>1, <1>2, <1>f, <1>q, <1>u DEF Whole, Compared
<1>8. Testimony'
  BY <1>q, <1>u, Unspoken DEF HelperLeaves
<1> QED BY <1>1, <1>3, <1>4, <1>5, <1>6, <1>7, <1>8, <1>u, <1>y, <1>b, HelperAssembles


\* What is in a queue.
Within(q) == {q[i] : i \in DOMAIN q}

LEMMA Halves ==
  ASSUME NEW S, NEW q \in Seq(S), NEW n \in 1..Len(q)
  PROVE  LET a == SubSeq(q, 1, n)
             b == SubSeq(q, n + 1, Len(q))
         IN  /\ a \in Seq(S) /\ a # <<>> /\ b \in Seq(S) /\ Len(b) = Len(q) - n
             /\ Within(a) \cup Within(b) = Within(q)
<1> DEFINE a == SubSeq(q, 1, n)
           b == SubSeq(q, n + 1, Len(q))
<1>1. Len(q) \in Nat /\ n \in Nat /\ DOMAIN q = 1..Len(q) /\ n >= 1 /\ n <= Len(q)
  OBVIOUS
<1>2. a \in Seq(S) /\ Len(a) = n /\ \A i \in 1..n : a[i] = q[i]
  BY <1>1
<1>3. b \in Seq(S) /\ Len(b) = Len(q) - n /\ \A i \in 1..(Len(q) - n) : b[i] = q[n + i]
  <2>1. \A i \in (n + 1)..Len(q) : q[i] \in S
    BY <1>1
  <2>2. n + 1 \in Int /\ Len(q) \in Int
    BY <1>1
  <2>3. /\ b \in Seq(S) /\ Len(b) = IF n + 1 <= Len(q) THEN Len(q) - (n + 1) + 1 ELSE 0
        /\ \A i \in 1..(Len(q) - (n + 1) + 1) : b[i] = q[(n + 1) + i - 1]
    BY <2>1, <2>2, SubSeqProperties
  <2> HIDE DEF b
  <2>4. \A l, m \in Nat : m <= l =>
          /\ l - (m + 1) + 1 = l - m /\ (~(m + 1 <= l) => l - m = 0)
          /\ \A i \in 1..(l - m) : (m + 1) + i - 1 = m + i
    OBVIOUS
  <2>5. /\ Len(q) - (n + 1) + 1 = Len(q) - n /\ (~(n + 1 <= Len(q)) => Len(q) - n = 0)
        /\ \A i \in 1..(Len(q) - n) : (n + 1) + i - 1 = n + i
    BY <1>1, <2>4
  <2> QED BY <2>3, <2>5
<1>4. DOMAIN a = 1..n /\ DOMAIN b = 1..(Len(q) - n)
  BY <1>2, <1>3
<1> HIDE DEF a, b
<1>5. Within(a) \cup Within(b) \subseteq Within(q)
  <2>1. \A i \in 1..n : i \in DOMAIN q
    BY <1>1
  <2>2. \A i \in 1..(Len(q) - n) : n + i \in DOMAIN q
    BY <1>1
  <2>3. Within(a) \subseteq Within(q)
    BY <2>1, <1>2, <1>4 DEF Within
  <2>4. Within(b) \subseteq Within(q)
    BY <2>2, <1>3, <1>4 DEF Within
  <2> QED BY <2>3, <2>4
<1>6. ASSUME NEW i \in DOMAIN q
      PROVE  q[i] \in Within(a) \cup Within(b)
  <2>1. CASE i <= n
    BY <2>1, <1>1, <1>2, <1>4 DEF Within
  <2>2. CASE i > n
    <3>1. i - n \in 1..(Len(q) - n) /\ n + (i - n) = i
      BY <2>2, <1>1
    <3>2. b[i - n] = q[i]
      BY <3>1, <1>3
    <3> QED BY <3>1, <3>2, <1>4 DEF Within
  <2> QED BY <2>1, <2>2, <1>1
<1>7. Within(a) \cup Within(b) = Within(q)
  BY <1>5, <1>6 DEF Within
<1>8. a # <<>>
  BY <1>1, <1>2
<1> QED BY <1>2, <1>3, <1>7, <1>8 DEF a, b

LEMMA PathsWithin == \A q : PathsOf(q) = {e.path : e \in Within(q)}
  BY DEF PathsOf, Within

LEMMA PoisonWithin == Poisoned <=> \E e \in Within(kernel) \cup Within(helper.batch) : e.kind \in Poison
  BY DEF Poisoned, Within

LEMMA HelperReadKeeps ==
  ASSUME TraceInv, HelperRead
  PROVE  TraceInv'
<1> USE TraceAssumption, ChannelSizeAssumption
<1>q. /\ TraceTypes /\ Progress /\ HelperStaged /\ Commanded /\ Exchange /\ TreeClosed /\ Whole
      /\ Compared /\ Granted /\ Changed /\ Testimony /\ Limits /\ Bounds
  BY DEF TraceInv
<1>y. /\ control \in [queue : Seq(Commands), closed : BOOLEAN] /\ control.queue \in Seq(Commands)
      /\ stream \in StreamStates(TraceFrames) /\ helper \in HelperStates /\ kernel \in Seq(Events)
      /\ writes \in Seq([step : Nat, path : PathSet]) /\ files \in Snapshots
  BY <1>q DEF TraceTypes
<1>b. HelperBounds /\ KernelBound(kernel) /\ Len(stream.events) <= ChannelSize
  BY <1>q DEF Bounds, HelperBounds, KernelBound
<1>u. /\ HelperLeaves /\ UNCHANGED control /\ UNCHANGED stream /\ helper.state = "read"
  BY DEF HelperRead, HelperLeaves, observed
<1>f. /\ (Python' <=> Python) /\ (eligible' <=> eligible) /\ (Good' <=> Good) /\ (Clean' <=> Clean)
      /\ Written' = Written /\ Tree(files)' = Tree(files)
      /\ (\A phase : RulesOf(phase)' = RulesOf(phase)) /\ CurrentPhase' = CurrentPhase
      /\ PhaseCommand' = PhaseCommand /\ (\A w : Allowed(w)' <=> Allowed(w)) /\ (Clean => Python /\ Good)
  BY <1>u, HelperFrame DEF Clean, eligible, Python
<1>s. kernel # <<>> /\ helper.batch = <<>> /\ helper.failure = "" /\ Python
  BY <1>q, <1>u DEF HelperStaged
<1> DEFINE n == IF Len(kernel) <= ReadLimit THEN Len(kernel) ELSE ReadLimit
           a == SubSeq(kernel, 1, n)
           b == SubSeq(kernel, n + 1, Len(kernel))
<1>0. helper' = [helper EXCEPT !.state = "record", !.batch = a] /\ kernel' = b
  BY DEF HelperRead
<1>n. n \in 1..Len(kernel)
  <2>1. Len(kernel) \in Nat /\ Len(kernel) >= 1
    <3>1. \A q \in Seq(Events) : q # <<>> => Len(q) \in Nat /\ Len(q) >= 1
      OBVIOUS
    <3> QED BY <3>1, <1>s, <1>y
  <2>2. n = Len(kernel) \/ (n = ReadLimit /\ ReadLimit <= Len(kernel))
    BY <2>1
  <2> HIDE DEF n
  <2> QED BY <2>1, <2>2
<1> HIDE DEF n
<1>r. a \in Seq(Events) /\ a # <<>> /\ b \in Seq(Events) /\ Len(b) = Len(kernel) - n /\ Within(a) \cup Within(b) = Within(kernel)
  BY <1>n, <1>y, Halves
<1> HIDE DEF a, b
<1>1. /\ helper' \in HelperStates /\ helper'.state = "record" /\ helper'.watched = helper.watched /\ helper'.seen = helper.seen
      /\ helper'.batch = a /\ helper'.rules = helper.rules /\ helper'.windows = helper.windows
      /\ helper'.failure = helper.failure /\ helper'.readable = helper.readable
  BY <1>0, <1>r, <1>y DEF HelperStates
<1>2. Started' /\ Started /\ (Live' <=> Live)
  BY <1>1, <1>u DEF Started, Live, Working
<1>3. HelperBounds' /\ KernelBound(kernel)'
  <2>1. HelperBounds'
    BY <1>1, <1>b DEF HelperBounds
  <2>2. Len(kernel) \in Nat /\ Len(kernel) <= QueueLimit + 1
    BY <1>b, <1>y DEF KernelBound
  <2>3. Len(b) <= QueueLimit
    BY <2>2, <1>r, <1>n
  <2> QED BY <2>1, <2>3, <1>0 DEF KernelBound
<1>4. HelperStaged'
  BY <1>1, <1>2, <1>f, <1>q, <1>u, <1>r, <1>s DEF HelperStaged
<1>5. Commanded'
  BY <1>1, <1>q, <1>u DEF Commanded
<1>6. Exchange'
  <2>1. ctl' = ctl
    BY <1>u DEF HelperLeaves
  <2> QED BY <2>1, <1>1, <1>2, <1>f, <1>q, <1>u DEF Exchange
<1>7. Whole' /\ Compared'
  <2>1. UNCHANGED ctl /\ UNCHANGED work /\ UNCHANGED writes
    BY <1>u DEF HelperLeaves
  <2>e. Within(helper.batch) = {}
    <3>1. DOMAIN <<>> = {}
      OBVIOUS
    <3> QED BY <3>1, <1>s DEF Within
  <2>w. Within(kernel)' \cup Within(helper.batch)' = Within(kernel) \cup Within(helper.batch)
    <3>1. Within(kernel)' = Within(b) /\ Within(helper.batch)' = Within(a)
      BY <1>0, <1>1 DEF Within
    <3> QED BY <3>1, <2>e, <1>r
  <2>p. PathsOf(helper.batch)' \cup PathsOf(kernel)' = PathsOf(helper.batch) \cup PathsOf(kernel)
    <3>1. /\ PathsOf(kernel)' = {e.path : e \in Within(kernel)'} /\ PathsOf(helper.batch)' = {e.path : e \in Within(helper.batch)'}
          /\ PathsOf(kernel) = {e.path : e \in Within(kernel)} /\ PathsOf(helper.batch) = {e.path : e \in Within(helper.batch)}
      BY DEF PathsOf, Within
    <3> QED BY <3>1, <2>w
  <2>2. (Poisoned' <=> Poisoned) /\ Heard' = Heard
    <3>1. Poisoned' <=> \E e \in Within(kernel)' \cup Within(helper.batch)' : e.kind \in Poison
      BY DEF Poisoned, Within
    <3>2. PathsOf(helper.seen)' = PathsOf(helper.seen)
      BY <1>1 DEF PathsOf
    <3> QED BY <3>1, <3>2, <2>p, <2>w, PoisonWithin DEF Heard
  <2>3. \A w : (Recorded(w)' <=> Recorded(w)) /\ (Waits(w)' <=> Waits(w))
    BY <2>p, <1>1, <1>u, <1>f DEF Recorded, Waits
  <2> QED BY <2>1, <2>2, <2>3, <1>1, <1>2, <1>f, <1>q, <1>u DEF Whole, Compared
<1>8. Testimony'
  BY <1>q, <1>u, Unspoken DEF HelperLeaves
<1>9. kernel' \in Seq(Events)
  BY <1>0, <1>r
<1> QED BY <1>1, <1>3, <1>4, <1>5, <1>6, <1>7, <1>8, <1>9, <1>u, <1>y, <1>b, HelperAssembles


LEMMA Increments ==
  /\ \A a, b \in Nat : a <= b => a <= b + 1 /\ a + 1 <= b + 1 /\ a + 1 \in Nat
  /\ \A a, b \in Nat : ~(a > b) => a <= b
  OBVIOUS

LEMMA AppendIs == \A S : \A q \in Seq(S) : \A x \in S : Append(q, x) \in Seq(S) /\ Len(Append(q, x)) = Len(q) + 1
  OBVIOUS

LEMMA LengthIs == \A S : \A q \in Seq(S) : Len(q) \in Nat
  OBVIOUS

LEMMA WithinAppend ==
  ASSUME NEW S, NEW q \in Seq(S), NEW x \in S
  PROVE  /\ Append(q, x) \in Seq(S) /\ Len(Append(q, x)) = Len(q) + 1 /\ Within(Append(q, x)) = Within(q) \cup {x}
         /\ DOMAIN q \subseteq DOMAIN Append(q, x) /\ \A i \in DOMAIN q : Append(q, x)[i] = q[i]
<1>1. Len(q) \in Nat /\ Len(Append(q, x)) = Len(q) + 1 /\ DOMAIN q = 1..Len(q) /\ Append(q, x) \in Seq(S)
      /\ DOMAIN Append(q, x) = 1..(Len(q) + 1)
  OBVIOUS
<1>2. DOMAIN q \subseteq DOMAIN Append(q, x) /\ Len(q) + 1 \in DOMAIN Append(q, x)
      /\ \A i \in DOMAIN Append(q, x) : i \in DOMAIN q \/ i = Len(q) + 1
  BY <1>1
<1>3. (\A i \in DOMAIN q : Append(q, x)[i] = q[i]) /\ Append(q, x)[Len(q) + 1] = x
  BY <1>1
<1>4. Within(q) \cup {x} \subseteq Within(Append(q, x))
  BY <1>2, <1>3 DEF Within
<1>5. Within(Append(q, x)) \subseteq Within(q) \cup {x}
  BY <1>2, <1>3 DEF Within
<1> QED BY <1>1, <1>2, <1>3, <1>4, <1>5

LEMMA WithinTail ==
  ASSUME NEW S, NEW q \in Seq(S), q # <<>>
  PROVE  /\ Head(q) \in S /\ Tail(q) \in Seq(S) /\ Within(q) = {Head(q)} \cup Within(Tail(q))
         /\ Len(Tail(q)) = Len(q) - 1
<1>1. Len(q) \in Nat /\ Len(q) >= 1 /\ Head(q) = q[1] /\ DOMAIN q = 1..Len(q)
  OBVIOUS
<1>2. Tail(q) \in Seq(S) /\ Len(Tail(q)) = Len(q) - 1 /\ Head(q) \in S
  BY <1>1
<1>3. DOMAIN Tail(q) = 1..(Len(q) - 1) /\ \A i \in 1..(Len(q) - 1) : Tail(q)[i] = q[i + 1]
  BY <1>1, <1>2
<1>4. \A i \in 1..(Len(q) - 1) : i + 1 \in DOMAIN q
  BY <1>1
<1>5. \A i \in DOMAIN q : i = 1 \/ (i - 1 \in 1..(Len(q) - 1) /\ (i - 1) + 1 = i)
  BY <1>1
<1>6. {Head(q)} \cup Within(Tail(q)) \subseteq Within(q)
  BY <1>1, <1>3, <1>4 DEF Within
<1>7. ASSUME NEW i \in DOMAIN q
      PROVE  q[i] \in {Head(q)} \cup Within(Tail(q))
  <2>1. CASE i = 1
    BY <2>1, <1>1
  <2>2. CASE i # 1
    <3>1. i - 1 \in 1..(Len(q) - 1) /\ (i - 1) + 1 = i
      BY <2>2, <1>5
    <3>2. Tail(q)[i - 1] = q[i] /\ i - 1 \in DOMAIN Tail(q)
      BY <3>1, <1>3
    <3> QED BY <3>2 DEF Within
  <2> QED BY <2>1, <2>2
<1> QED BY <1>2, <1>6, <1>7 DEF Within

\* What the paths, the poison and the windows come to, in terms of what is in a queue.
LEMMA HeardWithin ==
  /\ Heard = {e.path : e \in Within(helper.seen)} \cup {e.path : e \in Within(helper.batch) \cup Within(kernel)}
  /\ Heard' = {e.path : e \in Within(helper'.seen)} \cup {e.path : e \in Within(helper'.batch) \cup Within(kernel')}
  /\ Poisoned <=> \E e \in Within(helper.batch) \cup Within(kernel) : e.kind \in Poison
  /\ Poisoned' <=> \E e \in Within(helper'.batch) \cup Within(kernel') : e.kind \in Poison
  /\ \A p : p \in PathsOf(helper.batch) \cup PathsOf(kernel)
              <=> \E e \in Within(helper.batch) \cup Within(kernel) : e.path = p
  /\ \A p : p \in PathsOf(helper.batch)' \cup PathsOf(kernel)'
              <=> \E e \in Within(helper'.batch) \cup Within(kernel') : e.path = p
<1>1. Heard = {e.path : e \in Within(helper.seen)} \cup {e.path : e \in Within(helper.batch) \cup Within(kernel)}
  BY DEF Heard, PathsOf, Within
<1>2. Heard' = {e.path : e \in Within(helper'.seen)} \cup {e.path : e \in Within(helper'.batch) \cup Within(kernel')}
  BY DEF Heard, PathsOf, Within
<1>3. Poisoned <=> \E e \in Within(helper.batch) \cup Within(kernel) : e.kind \in Poison
  BY DEF Poisoned, Within
<1>4. Poisoned' <=> \E e \in Within(helper'.batch) \cup Within(kernel') : e.kind \in Poison
  BY DEF Poisoned, Within
<1>5. \A p : p \in PathsOf(helper.batch) \cup PathsOf(kernel)
              <=> \E e \in Within(helper.batch) \cup Within(kernel) : e.path = p
  BY DEF PathsOf, Within
<1>6. \A p : p \in PathsOf(helper.batch)' \cup PathsOf(kernel)'
              <=> \E e \in Within(helper'.batch) \cup Within(kernel') : e.path = p
  BY DEF PathsOf, Within
<1> QED BY <1>1, <1>2, <1>3, <1>4, <1>5, <1>6

\* A step after which the helper does not listen any more.
LEMMA Deafened ==
  ASSUME TraceInv, HelperLeaves, ~Live'
  PROVE  Whole' /\ Compared'
<1>1. UNCHANGED ctl /\ UNCHANGED work
  BY DEF HelperLeaves
<1>2. Clean' <=> Clean
  BY HelperFrame
<1> QED BY <1>1, <1>2 DEF Whole, Compared, TraceInv

\* What a helper that recorded a notification is.
Refused(g, h) ==
  /\ g \in HelperStates /\ g.failure # "" /\ g.watched = {} /\ g.windows = h.windows /\ g.readable = h.readable
  /\ Len(g.seen) <= NotificationLimit + 1

Took(g, h, event) ==
  /\ g \in HelperStates /\ g.failure = "" /\ g.watched = h.watched /\ g.windows = h.windows
  /\ g.readable = h.readable /\ g.rules = h.rules /\ Len(g.seen) <= NotificationLimit
  /\ event.kind \notin Poison
  /\ \E entry \in Records : /\ g.seen = Append(h.seen, entry) /\ entry.path = event.path
                            /\ entry.matched => \E r \in h.rules : PatternMatches(r, event.path)

Counted(h) == h.failure = "" /\ Len(h.seen) <= NotificationLimit

LEMMA Records1 ==
  ASSUME NEW h \in HelperStates, Counted(h), NEW event \in Events
  PROVE  Refused(record(h, event), h) \/ Took(record(h, event), h, event)
<1>n. /\ NotificationLimit \in Nat /\ (\A a, b \in Nat : a <= b => a <= b + 1 /\ a + 1 <= b + 1 /\ a + 1 \in Nat)
      /\ (\A a, b \in Nat : ~(a > b) => a <= b)
  BY Increments, TraceAssumption, Zenon
<1>e. h.failure = ""
  BY DEF Counted
<1>0. h.seen \in Seq(Records) /\ Len(h.seen) \in Nat /\ h.phase \in PhaseSet
  <2>1. h.seen \in Seq(Records) /\ h.phase \in PhaseSet
    BY DEF HelperStates
  <2> QED BY <2>1, LengthIs
<1>1. ASSUME NEW reason \in HelperFailures \ {""}
      PROVE  Refused(latch(h, reason), h)
  <2>1. /\ Similar(latch(h, reason), h) /\ latch(h, reason).failure # "" /\ latch(h, reason).watched = {}
        /\ latch(h, reason).readable = h.readable /\ latch(h, reason) \in HelperStates
    BY Latched, <1>e
  <2> QED BY <2>1, <1>0, <1>n DEF Refused, Similar, Counted
<1>2. {"notification-overflow", "notification-gap", "new-directory-watch-gap"} \subseteq HelperFailures \ {""}
  BY DEF HelperFailures
<1> DEFINE m == \E r \in h.rules : PatternMatches(r, event.path)
           entry == [kind |-> event.kind, phase |-> h.phase, path |-> event.path, matched |-> m]
           s == Append(h.seen, entry)
           counted == [h EXCEPT !.seen = s]
<1>3. \/ \E reason \in HelperFailures \ {""} : record(h, event) = latch(h, reason)
      \/ event.kind \notin Poison /\ record(h, event) = IF Len(counted.seen) > NotificationLimit
                              THEN latch(counted, "notification-overflow") ELSE counted
  BY <1>2, <1>e DEF record, Poison
<1>4. entry \in Records /\ entry.path = event.path /\ entry.matched = m
  <2>1. event.kind \in Kinds /\ event.path \in Names /\ m \in BOOLEAN
    BY DEF Events
  <2> HIDE DEF m
  <2> QED BY <2>1, <1>0 DEF Records
<1> HIDE DEF m, entry
<1>5. s \in Seq(Records) /\ Len(s) = Len(h.seen) + 1
  <2>1. \A x \in Records : Append(h.seen, x) \in Seq(Records) /\ Len(Append(h.seen, x)) = Len(h.seen) + 1
    BY <1>0, AppendIs, Zenon
  <2> QED BY <1>4, <2>1
<1>6. Len(s) <= NotificationLimit + 1 /\ Len(s) \in Nat
  BY <1>0, <1>5, <1>n DEF Counted
<1>s. s = Append(h.seen, entry)
  OBVIOUS
<1> HIDE DEF s
<1>7. /\ counted \in HelperStates /\ counted.seen = s /\ counted.failure = "" /\ counted.watched = h.watched
      /\ counted.windows = h.windows /\ counted.readable = h.readable /\ counted.rules = h.rules
  BY <1>5, <1>e DEF HelperStates
<1> HIDE DEF counted
<1>8. Refused(latch(counted, "notification-overflow"), h)
  <2> DEFINE g == latch(counted, "notification-overflow")
  <2>1. Similar(g, counted) /\ g.failure # "" /\ g.watched = {} /\ g.readable = counted.readable /\ g \in HelperStates
    BY <1>2, <1>7, Latched
  <2> HIDE DEF g
  <2>2. Refused(g, h)
    BY <2>1, <1>6, <1>7 DEF Refused, Similar
  <2> QED BY <2>2 DEF g
<1>9. ASSUME event.kind \notin Poison, ~(Len(s) > NotificationLimit)
      PROVE  Took(counted, h, event)
  <2>1. Len(s) <= NotificationLimit
    BY <1>9, <1>6, <1>n
  <2>2. entry.matched => \E r \in h.rules : PatternMatches(r, event.path)
    BY <1>4 DEF m
  <2> QED BY <2>1, <2>2, <1>4, <1>s, <1>7, <1>9 DEF Took
<1>10. CASE \E reason \in HelperFailures \ {""} : record(h, event) = latch(h, reason)
  BY <1>1, <1>10
<1>11. CASE event.kind \notin Poison /\ record(h, event) = IF Len(counted.seen) > NotificationLimit
                                     THEN latch(counted, "notification-overflow") ELSE counted
  BY <1>7, <1>8, <1>9, <1>11
<1> QED BY <1>3, <1>10, <1>11

LEMMA HelperRecordKeeps ==
  ASSUME TraceInv, HelperRecord
  PROVE  TraceInv'
<1> USE TraceAssumption, ChannelSizeAssumption
<1>q. /\ TraceTypes /\ Progress /\ HelperStaged /\ Commanded /\ Exchange /\ TreeClosed /\ Whole
      /\ Compared /\ Granted /\ Changed /\ Testimony /\ Limits /\ Bounds
  BY DEF TraceInv
<1>y. /\ control \in [queue : Seq(Commands), closed : BOOLEAN] /\ control.queue \in Seq(Commands)
      /\ stream \in StreamStates(TraceFrames) /\ helper \in HelperStates /\ kernel \in Seq(Events)
      /\ writes \in Seq([step : Nat, path : PathSet]) /\ files \in Snapshots
  BY <1>q DEF TraceTypes
<1>b. HelperBounds /\ KernelBound(kernel) /\ Len(stream.events) <= ChannelSize
  BY <1>q DEF Bounds, HelperBounds, KernelBound
<1>u. /\ HelperLeaves /\ UNCHANGED control /\ UNCHANGED stream /\ UNCHANGED kernel /\ helper.state = "record"
  BY DEF HelperRecord, HelperLeaves, observed, sandbox
<1>f. /\ (Python' <=> Python) /\ (eligible' <=> eligible) /\ (Good' <=> Good) /\ (Clean' <=> Clean)
      /\ Written' = Written /\ Tree(files)' = Tree(files)
      /\ (\A phase : RulesOf(phase)' = RulesOf(phase)) /\ CurrentPhase' = CurrentPhase
      /\ PhaseCommand' = PhaseCommand /\ (\A w : Allowed(w)' <=> Allowed(w)) /\ (Clean => Python /\ Good)
  BY <1>u, HelperFrame DEF Clean, eligible, Python
<1>s. helper.batch # <<>> /\ helper.failure = "" /\ Python /\ Live /\ Started
      /\ ("control" \in helper.readable => control.queue # <<>> \/ control.closed)
  BY <1>q, <1>u DEF HelperStaged, Live, Working, Started
<1> DEFINE event == Head(helper.batch)
           g == record(helper, event)
           more == g.failure = "" /\ Tail(helper.batch) # <<>>
           rest == IF more THEN Tail(helper.batch) ELSE <<>>
           state == IF more THEN "record" ELSE IF "control" \in g.readable THEN "control" ELSE "loop"
<1>t. /\ event \in Events /\ Tail(helper.batch) \in Seq(Events)
      /\ Within(helper.batch) = {event} \cup Within(Tail(helper.batch))
  <2>1. helper.batch \in Seq(Events)
    BY <1>y DEF HelperStates
  <2> QED BY <2>1, <1>s, WithinTail
<1>g. Refused(g, helper) \/ Took(g, helper, event)
  BY <1>t, <1>s, <1>y, <1>b, Records1 DEF HelperBounds, Counted
<1>h. g \in HelperStates /\ g.batch = helper.batch /\ g.readable = helper.readable /\ g.windows = helper.windows
  <2>1. g.batch = helper.batch
    BY <1>s, <1>y DEF record, latch, HelperStates
  <2> QED BY <2>1, <1>g DEF Refused, Took
<1>0. helper' = [g EXCEPT !.batch = rest, !.state = state]
  BY <1>h DEF HelperRecord
<1>r. /\ rest \in Seq(Events) /\ state \in {"record", "control", "loop"} /\ (state = "record" <=> more)
      /\ (rest # <<>> <=> more) /\ (state = "control" => "control" \in helper.readable)
      /\ (g.failure = "" => rest = Tail(helper.batch))
  <2>1. <<>> \in Seq(Events)
    OBVIOUS
  <2> QED BY <2>1, <1>t, <1>h
<1>m. more => g.failure = ""
  OBVIOUS
<1> HIDE DEF event, g, more, rest, state
<1>1. /\ helper' \in HelperStates /\ helper'.state = state /\ helper'.watched = g.watched /\ helper'.seen = g.seen
      /\ helper'.batch = rest /\ helper'.rules = g.rules /\ helper'.windows = g.windows
      /\ helper'.failure = g.failure /\ helper'.readable = g.readable
  BY <1>0, <1>r, <1>h DEF HelperStates
<1>2. Started' /\ (Live' <=> g.failure = "")
  BY <1>1, <1>r DEF Started, Live, Working
<1>3. HelperBounds' /\ KernelBound(kernel)'
  <2>1. Len(g.seen) <= NotificationLimit + 1 /\ (g.failure = "" => Len(g.seen) <= NotificationLimit)
    <3>1. g.seen \in Seq(Records)
      BY <1>h DEF HelperStates
    <3>2. Len(g.seen) \in Nat /\ \A a, b \in Nat : a <= b => a <= b + 1
      BY <3>1, LengthIs
    <3> QED BY <3>2, <1>g DEF Refused, Took
  <2> QED BY <2>1, <1>1, <1>h, <1>b, <1>u DEF HelperBounds, KernelBound
<1>4. HelperStaged'
  <2>1. g.failure = "" => g.watched = helper.watched
    BY <1>g DEF Took, Refused
  <2>2. g.failure # "" => g.watched = {}
    BY <1>g DEF Took, Refused
  <2> QED BY <2>1, <2>2, <1>1, <1>2, <1>f, <1>h, <1>m, <1>q, <1>u, <1>r, <1>s DEF HelperStaged
<1>5. Commanded'
  BY <1>1, <1>q, <1>u DEF Commanded
<1>6. Exchange'
  <2>1. ctl' = ctl
    BY <1>u DEF HelperLeaves
  <2> QED BY <2>1, <1>1, <1>2, <1>f, <1>q, <1>u, <1>s DEF Exchange
<1>7. Whole' /\ Compared'
  <2>1. CASE g.failure # ""
    BY <2>1, <1>2, <1>u, Deafened
  <2>2. CASE g.failure = ""
    <3>1. UNCHANGED ctl /\ UNCHANGED work /\ UNCHANGED writes /\ UNCHANGED kernel
      BY <1>u DEF HelperLeaves
    <3>2. Took(g, helper, event)
      BY <2>2, <1>g DEF Refused
    <3>3. PICK entry \in Records : /\ g.seen = Append(helper.seen, entry) /\ entry.path = event.path
                                   /\ entry.matched => \E r \in helper.rules : PatternMatches(r, event.path)
      BY <3>2 DEF Took
    <3>4. event.kind \notin Poison /\ helper'.watched = helper.watched /\ helper'.rules = helper.rules
      BY <3>2, <1>1 DEF Took
    <3>5. /\ Within(g.seen) = Within(helper.seen) \cup {entry}
          /\ DOMAIN helper.seen \subseteq DOMAIN g.seen /\ \A i \in DOMAIN helper.seen : g.seen[i] = helper.seen[i]
      <4>1. helper.seen \in Seq(Records)
        BY <1>y DEF HelperStates
      <4> QED BY <4>1, <3>3, WithinAppend
    <3>6. Within(helper.batch) = {event} \cup Within(helper'.batch)
      BY <1>t, <1>1, <1>r, <2>2
    <3>7. Poisoned' <=> Poisoned
      BY <3>6, <3>4, <3>1, HeardWithin
    <3>8. Heard' = Heard
      <4> DEFINE B == Within(helper'.batch)
                 K == Within(kernel)
      <4>1. Heard = {e.path : e \in Within(helper.seen)} \cup {e.path : e \in {event} \cup B \cup K}
        BY <3>6, HeardWithin
      <4>2. Heard' = {e.path : e \in Within(helper.seen) \cup {entry}} \cup {e.path : e \in B \cup K}
        BY <3>1, <3>5, <1>1, HeardWithin
      <4> HIDE DEF B, K
      <4> QED BY <4>1, <4>2, <3>3
    <3>9. Whole'
      BY <3>1, <3>4, <3>7, <3>8, <1>1, <1>2, <1>f, <1>q, <1>s DEF Whole
    <3>10. \A w : Recorded(w) => Recorded(w)'
      <4>1. \A i \in DOMAIN helper.seen : i \in DOMAIN helper'.seen /\ helper'.seen[i] = helper.seen[i]
        BY <3>5, <1>1
      <4> QED BY <4>1, <1>f DEF Recorded
    <3>11. ASSUME NEW w, Waits(w)
           PROVE  Recorded(w)' \/ Waits(w)'
      <4>1. PICK e \in Within(helper.batch) \cup Within(kernel) : e.path = w.path
        BY <3>11, HeardWithin DEF Waits
      <4>2. CASE e = event
        <5>1. entry.path = w.path
          BY <4>1, <4>2, <3>3
        <5>2. entry.matched => Allowed(w)
          BY <5>1, <3>3, <3>11 DEF Waits, Allowed
        <5>3. PICK i \in DOMAIN g.seen : g.seen[i] = entry
          BY <3>5 DEF Within
        <5> QED BY <5>1, <5>2, <5>3, <1>1, <1>f DEF Recorded
      <4>3. CASE e # event
        <5>1. e \in Within(helper'.batch) \cup Within(kernel')
          BY <4>1, <4>3, <3>6, <3>1
        <5>2. w.path \in PathsOf(helper.batch)' \cup PathsOf(kernel)'
          BY <5>1, <4>1, HeardWithin
        <5> QED BY <5>2, <3>11, <3>4, <1>f DEF Waits
      <4> QED BY <4>2, <4>3
    <3>12. Compared'
      BY <3>1, <3>4, <3>7, <3>10, <3>11, <1>1, <1>2, <1>f, <1>q, <1>s, <1>u DEF Compared
    <3> QED BY <3>9, <3>12
  <2> QED BY <2>1, <2>2
<1>8. Testimony'
  BY <1>q, <1>u, Unspoken DEF HelperLeaves
<1>9. kernel' \in Seq(Events)
  BY <1>u, <1>y
<1> QED BY <1>1, <1>3, <1>4, <1>5, <1>6, <1>7, <1>8, <1>9, <1>u, <1>y, <1>b, HelperAssembles


\* Only the first command of a queue may be the start command.
LEMMA TailCommands ==
  ASSUME Commanded, control \in [queue : Seq(Commands), closed : BOOLEAN], control.queue # <<>>,
         control' = [control EXCEPT !.queue = Tail(@)]
  PROVE  /\ control' \in [queue : Seq(Commands), closed : BOOLEAN] /\ Commanded'
         /\ control'.queue = Tail(control.queue) /\ control'.closed = control.closed
         /\ (Len(control.queue) <= 1 => control'.queue = <<>>) /\ Head(control.queue) \in Commands
         /\ (helper.state \notin {"none", "starting", "exited"} => Head(control.queue) # StartCommand)
<1>1. control.queue \in Seq(Commands)
  OBVIOUS
<1> DEFINE q == control.queue
<1>2. Len(q) \in Nat /\ Len(q) >= 1 /\ Head(q) = q[1] /\ 1 \in DOMAIN q /\ Head(q) \in Commands
  BY <1>1
<1>3. Tail(q) \in Seq(Commands) /\ (Len(q) <= 1 => Tail(q) = <<>>)
  BY <1>1, <1>2
<1>4. \A i \in DOMAIN Tail(q) : i + 1 \in DOMAIN q /\ Tail(q)[i] = q[i + 1] /\ i + 1 # 1
  <2>1. DOMAIN Tail(q) = 1..(Len(q) - 1) /\ DOMAIN q = 1..Len(q)
    BY <1>1, <1>2
  <2>2. \A i \in 1..(Len(q) - 1) : i + 1 \in 1..Len(q) /\ i + 1 # 1
    BY <1>2
  <2>3. \A i \in 1..(Len(q) - 1) : Tail(q)[i] = q[i + 1]
    BY <1>1, <1>2
  <2> QED BY <2>1, <2>2, <2>3
<1>t. control' = [control EXCEPT !.queue = Tail(q)]
  OBVIOUS
<1> DEFINE t == Tail(q)
<1>r. t \in Seq(Commands)
  BY <1>3
<1>s. control' = [control EXCEPT !.queue = t]
  BY <1>t
<1> HIDE DEF t
<1>5. /\ control' \in [queue : Seq(Commands), closed : BOOLEAN] /\ control'.queue = t /\ control'.closed = control.closed
  BY <1>r, <1>s
<1> HIDE DEF q
<1>6. Commanded'
  <2>1. \A i \in DOMAIN t : t[i] # StartCommand
    BY <1>4 DEF Commanded, q, t
  <2> QED BY <2>1, <1>5 DEF Commanded
<1>7. helper.state \notin {"none", "starting", "exited"} => Head(q) # StartCommand
  BY <1>2 DEF Commanded, q
<1> QED BY <1>2, <1>3, <1>5, <1>6, <1>7 DEF q, t

\* A step with which the helper ends.
LEMMA Leaving ==
  ASSUME TraceInv, HelperLeaves, helper.state \notin {"none", "exited"},
         helper' \in HelperStates, helper'.state = "exited", helper'.watched = {}, HelperBounds',
         control' \in [queue : Seq(Commands), closed : BOOLEAN],
         control'.closed = control.closed, Commanded',
         control' = control \/ (control.queue # <<>> /\ (Len(control.queue) <= 1 => control'.queue = <<>>)),
         kernel' \in Seq(Events), KernelBound(kernel)',
         stream' \in StreamStates(TraceFrames), Len(stream'.events) <= ChannelSize, Testimony',
         Python /\ Good =>
           stream' = stream \/ (control' # control /\ control.queue # <<>> /\ Len(stream'.events) <= 1)
  PROVE  TraceInv'
<1>q. HelperStaged /\ Exchange
  BY DEF TraceInv
<1>u. ctl' = ctl
  BY DEF HelperLeaves
<1>f. (Python' <=> Python) /\ (Good' <=> Good) /\ PhaseCommand' = PhaseCommand
  BY HelperFrame
<1>1. ~Live' /\ Started'
  BY DEF Live, Working, Started
<1>2. HelperStaged'
  BY <1>1 DEF HelperStaged
<1>3. Exchange'
  <2>1. CASE control' = control /\ (Python /\ Good => stream' = stream)
    BY <2>1, <1>1, <1>u, <1>f, <1>q DEF Exchange
  <2>2. CASE control.queue # <<>> /\ (Len(control.queue) <= 1 => control'.queue = <<>>)
             /\ (Python /\ Good => Len(stream'.events) <= 1)
    <3>1. SUFFICES ASSUME Python, Good
                   PROVE  Exchange'
      BY <1>f DEF Exchange
    <3>2. control'.queue = <<>> /\ Len(control'.queue) = 0
      BY <2>2, <3>1, <1>q DEF Exchange
    <3>3. ctl.pc \in {"awaitReady", "awaitAck", "awaitFinal"} /\ stream.events = <<>>
      BY <2>2, <3>1, <1>q DEF Exchange
    <3> QED BY <2>2, <3>1, <3>2, <3>3, <1>1, <1>u, <1>f, <1>q DEF Exchange, Talking, Late
  <2>3. stream' = stream /\ Python /\ Good => Len(stream'.events) <= 1
    BY <1>q DEF Exchange
  <2> QED BY <2>1, <2>2, <2>3
<1>4. Whole' /\ Compared'
  BY <1>1, Deafened
<1> QED BY <1>2, <1>3, <1>4, HelperAssembles

\* The frame with which a helper ends that has failed says nothing.
LEMMA Lamented ==
  ASSUME NEW h \in HelperStates
  PROVE  /\ FinalFrame(h, FALSE) \in TraceFrames /\ FailedFrame(h) \in TraceFrames
         /\ \A f : f = FinalFrame(h, FALSE) => Testified(f)'
         /\ h.failure # "" => \A f : f = FailedFrame(h) => Testified(f)'
<1>1. FinalFrame(h, FALSE).type = "final" /\ ~FinalFrame(h, FALSE).ok
  BY FinalFrameIs
<1>2. FailedFrame(h).type = "failed" /\ FailedFrame(h).failure = h.failure
  BY FailedFrameIs
<1>3. \A f : f.type = "final" /\ ~f.ok => Testified(f)'
  BY DEF Testified
<1>4. \A f : f.type = "failed" /\ f.failure # "" => Testified(f)'
  BY DEF Testified
<1>5. FinalFrame(h, FALSE) \in TraceFrames /\ FailedFrame(h) \in TraceFrames
  BY TraceFramesHold
<1>6. \A f : f = FinalFrame(h, FALSE) => Testified(f)'
  BY <1>1, <1>3
<1>7. h.failure # "" => \A f : f = FailedFrame(h) => Testified(f)'
  BY <1>2, <1>4
<1> QED BY <1>5, <1>6, <1>7

LEMMA ExitLatched ==
  ASSUME TraceInv, helper' = Exit(latch(helper, "notification-gap"))
  PROVE  /\ helper' \in HelperStates /\ helper'.state = "exited" /\ helper'.watched = {} /\ helper'.failure # ""
         /\ HelperBounds'
<1>1. helper \in HelperStates /\ HelperBounds /\ HelperStaged
  BY DEF TraceInv, TraceTypes, Bounds, HelperBounds
<1> DEFINE g == latch(helper, "notification-gap")
<1>2. Similar(g, helper) /\ g.failure # "" /\ g \in HelperStates
  BY <1>1, Latched DEF HelperFailures, HelperStaged
<1> HIDE DEF g
<1>3. Similar(Exit(g), g) /\ Exit(g).failure = g.failure /\ Exit(g).watched = {} /\ Exit(g).state = "exited"
      /\ Exit(g) \in HelperStates
  BY <1>2, Exited
<1>4. helper' = Exit(g)
  BY DEF g
<1>5. helper'.seen = helper.seen /\ helper'.windows = helper.windows /\ helper'.failure # ""
  BY <1>2, <1>3, <1>4 DEF Similar
<1>6. HelperBounds'
  BY <1>1, <1>5 DEF HelperBounds
<1> QED BY <1>3, <1>4, <1>5, <1>6

LEMMA HelperStartKeeps ==
  ASSUME TraceInv, NEW watching \in BOOLEAN, HelperStart(watching)
  PROVE  TraceInv'
<1> USE TraceAssumption, ChannelSizeAssumption
<1>q. /\ TraceTypes /\ Progress /\ HelperStaged /\ Commanded /\ Exchange /\ TreeClosed /\ Whole
      /\ Compared /\ Granted /\ Changed /\ Testimony /\ Limits /\ Bounds
  BY DEF TraceInv
<1>y. /\ control \in [queue : Seq(Commands), closed : BOOLEAN] /\ control.queue \in Seq(Commands)
      /\ stream \in StreamStates(TraceFrames) /\ helper \in HelperStates /\ kernel \in Seq(Events)
      /\ writes \in Seq([step : Nat, path : PathSet]) /\ files \in Snapshots
  BY <1>q DEF TraceTypes
<1>b. HelperBounds /\ KernelBound(kernel) /\ Len(stream.events) <= ChannelSize
  BY <1>q DEF Bounds, HelperBounds, KernelBound
<1>u. /\ HelperLeaves /\ UNCHANGED kernel /\ helper.state = "starting" /\ MayWrite(stream)
  BY DEF HelperStart, HelperLeaves, observed, sandbox
<1>f. /\ (Python' <=> Python) /\ (eligible' <=> eligible) /\ (Good' <=> Good) /\ (Clean' <=> Clean)
      /\ Written' = Written /\ Tree(files)' = Tree(files)
      /\ (\A phase : RulesOf(phase)' = RulesOf(phase)) /\ CurrentPhase' = CurrentPhase
      /\ PhaseCommand' = PhaseCommand /\ (\A w : Allowed(w)' <=> Allowed(w)) /\ (Clean => Python /\ Good)
  BY <1>u, HelperFrame DEF Clean, eligible, Python
<1>k. kernel' \in Seq(Events) /\ KernelBound(kernel)'
  BY <1>u, <1>y, <1>b DEF KernelBound
<1>s. /\ helper.watched = {} /\ helper.seen = <<>> /\ helper.failure = "" /\ kernel = <<>> /\ helper.batch = <<>>
      /\ stream.events = <<>> /\ helper.rules = {} /\ ~Started
  BY <1>q, <1>u DEF HelperStaged, Started
<1>p. Python /\ Good => ctl.pc \in {"preflight", "start", "awaitReady"} /\ ~control.closed /\ writes = <<>>
  BY <1>q, <1>s DEF Exchange, Progress, Early, Late
<1>1. CASE control.queue = <<>> /\ control.closed /\ helper' = Exit(latch(helper, "notification-gap"))
           /\ control' = control /\ stream' = stream
  <2>1. Testimony'
    BY <1>1, <1>q, <1>u, Unspoken DEF HelperLeaves
  <2>2. Commanded'
    BY <1>1, <1>q, ExitLatched DEF Commanded
  <2> QED BY <2>1, <2>2, <1>1, <1>u, <1>k, <1>y, <1>b, ExitLatched, Leaving
<1>2. CASE control.queue # <<>> /\ control' = [control EXCEPT !.queue = Tail(@)] /\ ~watching
           /\ helper' = Exit(latch(helper, "notification-gap")) /\ stream' = WriteFrame(stream, FinalFrame(helper', FALSE))
  <2>1. /\ helper' \in HelperStates /\ helper'.state = "exited" /\ helper'.watched = {} /\ HelperBounds'
    BY <1>2, ExitLatched
  <2>2. PICK frame \in TraceFrames : stream' = WriteFrame(stream, frame) /\ Testified(frame)'
    BY <2>1, <1>2, Lamented
  <2>3. /\ Testimony' /\ stream' \in StreamStates(TraceFrames) /\ Len(stream'.events) <= ChannelSize
        /\ Len(stream'.events) <= 1
    BY <2>2, <1>s, <1>u, Spoken DEF HelperLeaves
  <2>4. /\ control' \in [queue : Seq(Commands), closed : BOOLEAN] /\ Commanded' /\ control'.closed = control.closed
        /\ (Len(control.queue) <= 1 => control'.queue = <<>>)
    BY <1>2, <1>q, <1>y, TailCommands
  <2>5. Python /\ Good => control' # control
    BY <2>4, <1>2, <1>q DEF Exchange
  <2> QED BY <2>1, <2>3, <2>4, <2>5, <1>2, <1>u, <1>k, Leaving
<1>3. CASE control.queue # <<>> /\ control' = [control EXCEPT !.queue = Tail(@)]
           /\ helper' = [helper EXCEPT !.state = "loop", !.watched = Tree(files)]
           /\ stream' = WriteFrame(stream, ReadyFrame)
  <2>1. Tree(files) \in SUBSET Names /\ <<>> \in Tree(files)
    <3>1. DOMAIN files \subseteq PathSet
      BY <1>y DEF Snapshots
    <3>2. <<>> \in Names /\ PathSet \subseteq Names
      BY DEF Names, PathSet
    <3> QED BY <3>1, <3>2 DEF Tree
  <2>2. /\ helper' \in HelperStates /\ helper'.state = "loop" /\ helper'.watched = Tree(files)
        /\ helper'.seen = <<>> /\ helper'.batch = <<>> /\ helper'.failure = "" /\ helper'.windows = helper.windows
    BY <2>1, <1>3, <1>y, <1>s DEF HelperStates
  <2>3. HelperBounds'
    BY <2>2, <1>s, <1>b DEF HelperBounds
  <2>4. \E frame \in TraceFrames : stream' = WriteFrame(stream, frame) /\ Testified(frame)'
    <3>1. \A f : f = ReadyFrame => Testified(f)'
      BY TraceFrameTypes DEF Testified
    <3> QED BY <3>1, <1>3, TraceFramesHold
  <2>5. /\ Testimony' /\ stream' \in StreamStates(TraceFrames) /\ Len(stream'.events) <= ChannelSize
        /\ Len(stream'.events) <= 1
    <3>1. PICK frame \in TraceFrames : stream' = WriteFrame(stream, frame) /\ Testified(frame)'
      BY <2>4
    <3> QED BY <3>1, <1>s, <1>u, Spoken DEF HelperLeaves
  <2>6. /\ control' \in [queue : Seq(Commands), closed : BOOLEAN] /\ Commanded' /\ control'.closed = control.closed
        /\ (Len(control.queue) <= 1 => control'.queue = <<>>)
    BY <1>3, <1>q, <1>y, TailCommands
  <2>7. Started' /\ Live'
    BY <2>2 DEF Started, Live, Working
  <2>8. HelperStaged'
    BY <2>1, <2>2, <2>7 DEF HelperStaged
  <2>9. Exchange'
    <3>1. SUFFICES ASSUME Python, Good
                   PROVE  Exchange'
      BY <1>f DEF Exchange
    <3>2. control'.queue = <<>> /\ Len(control'.queue) = 0 /\ ctl' = ctl
      BY <3>1, <2>6, <1>q, <1>u DEF Exchange, HelperLeaves
    <3>3. ctl'.pc \in {"preflight", "start", "awaitReady"} /\ ~control'.closed
      BY <3>1, <3>2, <2>6, <1>p
    <3> QED BY <3>1, <3>2, <3>3, <2>5, <2>7 DEF Exchange, Talking, Late
  <2>10. DOMAIN <<>> = {}
    OBVIOUS
  <2>11. Whole'
    <3>1. Heard' = {}
      BY <2>2, <2>10, <1>u, <1>s DEF Heard, PathsOf
    <3>2. writes = <<>> => Written = {}
      BY DEF Written
    <3> QED BY <3>1, <3>2, <2>2, <1>p, <1>f DEF Whole
  <2>12. Compared'
    <3>1. UNCHANGED ctl /\ UNCHANGED work /\ UNCHANGED writes
      BY <1>u DEF HelperLeaves
    <3>2. Clean => ctl.pc \in {"preflight", "start", "awaitReady"} /\ DOMAIN writes = {}
      BY <1>p, <1>f, <2>10
    <3> QED BY <3>1, <3>2, <1>f, <1>q DEF Compared
  <2> QED BY <2>2, <2>3, <2>5, <2>6, <2>8, <2>9, <2>11, <2>12, <1>u, <1>k, HelperAssembles
<1> QED BY <1>1, <1>2, <1>3 DEF HelperStart, Emit


\* What the helper is after it looked for notifications that wait.
Checked(g) ==
  /\ Similar(g, helper) /\ (g.failure # "" => g.watched = {})
  /\ g.failure = "" => /\ helper.failure = "" /\ g.watched = helper.watched
                       /\ helper.watched = {} \/ kernel = <<>>

LEMMA PendedIs ==
  ASSUME helper \in HelperStates, helper.failure # "" => helper.watched = {}
  PROVE  Checked(Pended(helper)) /\ (Pended(helper).failure = "" => Pended(helper) = helper)
<1>0. "notification-gap" \in HelperFailures \ {""}
  BY DEF HelperFailures
<1>1. CASE helper.failure = "" /\ pendingNotifications
  <2>1. Pended(helper) = latch(helper, "notification-gap")
    BY <1>1 DEF Pended
  <2>2. /\ Similar(latch(helper, "notification-gap"), helper) /\ latch(helper, "notification-gap").failure # ""
        /\ latch(helper, "notification-gap").watched = {}
    BY <1>0, Latched
  <2> QED BY <2>1, <2>2 DEF Checked
<1>2. CASE ~(helper.failure = "" /\ pendingNotifications)
  BY <1>2 DEF Pended, Checked, Similar, pendingNotifications
<1> QED BY <1>1, <1>2

LEMMA HelperControlKeeps ==
  ASSUME TraceInv, HelperControl
  PROVE  TraceInv'
<1> USE TraceAssumption, ChannelSizeAssumption
<1>q. /\ TraceTypes /\ Progress /\ HelperStaged /\ Commanded /\ Exchange /\ TreeClosed /\ Whole
      /\ Compared /\ Granted /\ Changed /\ Testimony /\ Limits /\ Bounds
  BY DEF TraceInv
<1>y. /\ control \in [queue : Seq(Commands), closed : BOOLEAN] /\ control.queue \in Seq(Commands)
      /\ stream \in StreamStates(TraceFrames) /\ helper \in HelperStates /\ kernel \in Seq(Events)
      /\ writes \in Seq([step : Nat, path : PathSet]) /\ files \in Snapshots
  BY <1>q DEF TraceTypes
<1>b. HelperBounds /\ KernelBound(kernel) /\ Len(stream.events) <= ChannelSize
  BY <1>q DEF Bounds, HelperBounds, KernelBound
<1>u. /\ HelperLeaves /\ UNCHANGED kernel /\ helper.state = "control" /\ MayWrite(stream)
  BY DEF HelperControl, HelperLeaves, observed, sandbox
<1>f. /\ (Python' <=> Python) /\ (eligible' <=> eligible) /\ (Good' <=> Good) /\ (Clean' <=> Clean)
      /\ Written' = Written /\ Tree(files)' = Tree(files)
      /\ (\A phase : RulesOf(phase)' = RulesOf(phase)) /\ CurrentPhase' = CurrentPhase
      /\ PhaseCommand' = PhaseCommand /\ (\A w : Allowed(w)' <=> Allowed(w)) /\ (Clean => Python /\ Good)
  BY <1>u, HelperFrame DEF Clean, eligible, Python
<1>k. kernel' \in Seq(Events) /\ KernelBound(kernel)'
  BY <1>u, <1>y, <1>b DEF KernelBound
<1>s. /\ helper.batch = <<>> /\ Python /\ Working /\ Started /\ (control.queue # <<>> \/ control.closed)
      /\ (helper.failure # "" => helper.watched = {}) /\ (helper.failure = "" => Live /\ helper.watched # {})
  BY <1>q, <1>u DEF HelperStaged, Started, Working, Live
<1>p. Python /\ Good => control.queue # <<>> /\ stream.events = <<>> /\ Len(control.queue) <= 1
  BY <1>q, <1>s, <1>u DEF Exchange
<1>z. DOMAIN <<>> = {}
  OBVIOUS
<1> DEFINE g == Pended(helper)
           command == Head(control.queue)
<1>g. Checked(g) /\ g \in HelperStates /\ (g.failure = "" => g = helper)
  BY <1>y, <1>s, PendedIs DEF Checked, Similar
<1>e. g.failure = "" => kernel = <<>> /\ helper.failure = "" /\ Live
  BY <1>g, <1>s DEF Checked
<1>h. g.failure = "" => ~Poisoned /\ PathsOf(helper.batch) \cup PathsOf(kernel) = {}
  BY <1>e, <1>s, <1>z DEF Poisoned, PathsOf
<1>1. CASE control.queue = <<>>
  <2>1. helper' = Exit(latch(helper, "notification-gap")) /\ stream' = WriteFrame(stream, FailedFrame(helper')) /\ control' = control
    BY <1>1 DEF HelperControl, Emit
  <2>2. /\ helper' \in HelperStates /\ helper'.state = "exited" /\ helper'.watched = {} /\ helper'.failure # "" /\ HelperBounds'
    BY <2>1, ExitLatched
  <2>3. PICK frame \in TraceFrames : stream' = WriteFrame(stream, frame) /\ Testified(frame)'
    BY <2>1, <2>2, Lamented
  <2>4. Testimony' /\ stream' \in StreamStates(TraceFrames) /\ Len(stream'.events) <= ChannelSize
    BY <2>3, <1>u, Spoken DEF HelperLeaves
  <2>5. Commanded'
    BY <2>1, <2>2, <1>q DEF Commanded
  <2> QED BY <2>1, <2>2, <2>4, <2>5, <1>1, <1>p, <1>u, <1>k, <1>y, Leaving
<1>2. CASE control.queue # <<>>
  <2>1. control' = [control EXCEPT !.queue = Tail(@)]
    BY <1>2 DEF HelperControl
  <2>2. /\ control' \in [queue : Seq(Commands), closed : BOOLEAN] /\ Commanded' /\ control'.closed = control.closed
        /\ (Len(control.queue) <= 1 => control'.queue = <<>>) /\ command \in Commands /\ command # StartCommand
    BY <2>1, <1>2, <1>q, <1>y, <1>u, TailCommands
  <2>3. Python /\ Good => control' # control
    BY <2>2, <1>2, <1>p
  <2>4. CASE command.command = "stop"
    <3>1. helper' = Exit(g) /\ stream' = WriteFrame(stream, stopFrame(g))
      BY <1>2, <2>4 DEF HelperControl, Emit
    <3>2. Similar(Exit(g), g) /\ Exit(g).failure = g.failure /\ Exit(g).watched = {} /\ Exit(g).state = "exited"
          /\ Exit(g) \in HelperStates
      BY <1>g, Exited
    <3>3. /\ helper' \in HelperStates /\ helper'.state = "exited" /\ helper'.watched = {} /\ helper'.seen = helper.seen
          /\ helper'.windows = helper.windows /\ helper'.failure = g.failure /\ (g.failure = "" => helper.failure = "")
      BY <3>1, <3>2, <1>g DEF Similar, Checked
    <3>4. HelperBounds'
      BY <3>3, <1>b DEF HelperBounds
    <3>5. \E frame \in TraceFrames : stream' = WriteFrame(stream, frame) /\ Testified(frame)'
      <4>1. CASE g.failure # ""
        <5>1. stream' = WriteFrame(stream, FailedFrame(g))
          BY <3>1, <4>1 DEF stopFrame
        <5> QED BY <5>1, <4>1, <1>g, Lamented
      <4>2. CASE g.failure = ""
        <5> DEFINE frame == FinalFrame(helper, TRUE)
        <5>1. stream' = WriteFrame(stream, frame) /\ frame \in TraceFrames
          BY <3>1, <4>2, <1>g, <1>y, TraceFramesHold DEF stopFrame
        <5>2. /\ frame.type = "final"
              /\ frame.comparisonResult = "no-undeclared-observed" => \A i \in DOMAIN helper.seen : helper.seen[i].matched
          BY <1>y, FinalFrameIs
        <5>3. Good => ctl.pc = "awaitFinal"
          <6>1. command # PhaseCommand
            BY <2>4 DEF PhaseCommand
          <6> QED BY <6>1, <2>2, <1>2, <1>s, <1>q DEF Exchange
        <5>4. Good => Written = PathsOf(helper.seen)
          BY <4>2, <1>e, <1>h, <1>s, <1>q DEF Whole, Heard
        <5>5. Clean => \A i \in DOMAIN writes : Recorded(writes[i])
          BY <4>2, <1>e, <1>h, <1>q DEF Compared, Waits
        <5>6. \A w : Recorded(w)' <=> Recorded(w)
          BY <3>3, <1>f DEF Recorded
        <5>7. PathsOf(helper.seen)' = PathsOf(helper.seen)
          BY <3>3 DEF PathsOf
        <5>8. \A f : /\ f.type = "final"
                     /\ f.comparisonResult = "no-undeclared-observed" => \A i \in DOMAIN helper.seen : helper.seen[i].matched
                     => Testified(f)'
          <6>1. UNCHANGED ctl /\ UNCHANGED writes
            BY <1>u DEF HelperLeaves
          <6> QED BY <6>1, <5>3, <5>4, <5>5, <5>6, <5>7, <3>3, <1>f DEF Testified, Late
        <5> HIDE DEF frame
        <5>9. \A f : f = frame => Testified(f)'
          BY <5>2, <5>8
        <5> QED BY <5>1, <5>9
      <4> QED BY <4>1, <4>2
    <3>6. PICK frame \in TraceFrames : stream' = WriteFrame(stream, frame) /\ Testified(frame)'
      BY <3>5
    <3>7. /\ Testimony' /\ stream' \in StreamStates(TraceFrames) /\ Len(stream'.events) <= ChannelSize
          /\ (Python /\ Good => Len(stream'.events) <= 1)
      BY <3>6, <1>p, <1>u, Spoken DEF HelperLeaves
    <3> QED BY <3>3, <3>4, <3>7, <2>2, <2>3, <1>2, <1>u, <1>k, Leaving
  <2>5. CASE command.command # "stop" /\ helper.windows >= WindowLimit
    <3>1. helper' = Exit(latch(helper, "notification-gap")) /\ stream' = WriteFrame(stream, FailedFrame(helper'))
      BY <1>2, <2>5 DEF HelperControl, Emit
    <3>2. /\ helper' \in HelperStates /\ helper'.state = "exited" /\ helper'.watched = {} /\ helper'.failure # "" /\ HelperBounds'
      BY <3>1, ExitLatched
    <3>3. PICK frame \in TraceFrames : stream' = WriteFrame(stream, frame) /\ Testified(frame)'
      BY <3>1, <3>2, Lamented
    <3>4. /\ Testimony' /\ stream' \in StreamStates(TraceFrames) /\ Len(stream'.events) <= ChannelSize
          /\ (Python /\ Good => Len(stream'.events) <= 1)
      BY <3>3, <1>p, <1>u, Spoken DEF HelperLeaves
    <3> QED BY <3>2, <3>4, <2>2, <2>3, <1>2, <1>u, <1>k, Leaving
  <2>6. CASE command.command # "stop" /\ ~(helper.windows >= WindowLimit)
    <3>1. helper' = openWindow(helper, command) /\ stream' = WriteFrame(stream, AckFrame(helper'))
      BY <1>2, <2>6 DEF HelperControl, Emit
    <3>2. command \in PhaseCommands
      BY <2>2, <2>6 DEF Commands, StopCommand
    <3>3. command.phase \in PhaseSet /\ command.rules \in SUBSET Rules /\ IsFiniteSet(command.rules)
      BY <3>2 DEF PhaseCommands, RuleSets
    <3> DEFINE n == g.windows + 1
               d == g.declared + Cardinality(command.rules)
    <3>4. helper' = [g EXCEPT !.phase = command.phase, !.rules = command.rules, !.windows = n, !.declared = d, !.state = "loop"]
      BY <3>1 DEF openWindow
    <3>5. n \in Nat /\ d \in Nat /\ n <= WindowLimit
      <4>1. g.windows = helper.windows /\ helper.windows \in Nat /\ g.declared \in Nat /\ WindowLimit \in Nat
        BY <1>g, <1>y DEF Checked, Similar, HelperStates
      <4>2. Cardinality(command.rules) \in Nat
        BY <3>3, FS_CardinalityType
      <4>3. \A a, b \in Nat : ~(a >= b) => a + 1 \in Nat /\ a + 1 <= b
        OBVIOUS
      <4>4. \A a, b \in Nat : a + b \in Nat
        OBVIOUS
      <4> QED BY <4>1, <4>2, <4>3, <4>4, <2>6
    <3> DEFINE p == command.phase
               r == command.rules
    <3>r. p \in PhaseSet /\ r \in SUBSET Rules
      BY <3>3
    <3>s. helper' = [g EXCEPT !.phase = p, !.rules = r, !.windows = n, !.declared = d, !.state = "loop"]
      BY <3>4
    <3> HIDE DEF n, d, p, r, g
    <3>6. /\ helper' \in HelperStates /\ helper'.state = "loop" /\ helper'.rules = r /\ helper'.windows = n
          /\ helper'.seen = g.seen /\ helper'.batch = g.batch /\ helper'.failure = g.failure /\ helper'.watched = g.watched
      BY <3>s, <3>r, <3>5, <1>g DEF HelperStates
    <3>7. /\ helper'.seen = helper.seen /\ helper'.batch = <<>> /\ (g.failure = "" => helper'.watched = helper.watched)
          /\ (g.failure # "" => helper'.watched = {})
      BY <3>6, <1>g, <1>s DEF Checked, Similar
    <3>8. HelperBounds'
      BY <3>6, <3>7, <3>5, <1>e, <1>b DEF HelperBounds
    <3>9. PICK frame \in TraceFrames : stream' = WriteFrame(stream, frame) /\ Testified(frame)'
      <4>1. \A f : f.type = "phase-ack" => Testified(f)'
        BY DEF Testified
      <4>2. \A h \in HelperStates : \A f : f = AckFrame(h) => f \in TraceFrames /\ Testified(f)'
        BY <4>1, AckFrameIs, TraceFramesHold
      <4> QED BY <4>2, <3>1, <3>6
    <3>10. /\ Testimony' /\ stream' \in StreamStates(TraceFrames) /\ Len(stream'.events) <= ChannelSize
           /\ (Python /\ Good => Len(stream'.events) <= 1)
      BY <3>9, <1>p, <1>u, Spoken DEF HelperLeaves
    <3>11. Started' /\ (Live' <=> g.failure = "") /\ (g.failure = "" => <<>> \in helper.watched)
      <4>1. Live => <<>> \in helper.watched
        BY <1>q DEF HelperStaged
      <4> QED BY <4>1, <3>6, <1>e DEF Started, Live, Working
    <3>12. HelperStaged'
      BY <3>6, <3>7, <3>11 DEF HelperStaged
    <3>13. Good => ctl.pc = "awaitAck" /\ command = PhaseCommand /\ ~control.closed
      <4>1. command # StopCommand
        BY <2>6 DEF StopCommand
      <4> QED BY <4>1, <2>2, <1>2, <1>s, <1>q DEF Exchange, Late
    <3>14. Exchange'
      <4>1. SUFFICES ASSUME Python, Good
                     PROVE  Exchange'
        BY <1>f DEF Exchange
      <4>0. Len(<<>>) = 0
        OBVIOUS
      <4>2. control'.queue = <<>> /\ Len(control'.queue) = 0 /\ ctl' = ctl
        BY <4>0, <4>1, <2>2, <1>p, <1>u DEF HelperLeaves
      <4>3. ctl'.pc = "awaitAck" /\ ~control'.closed /\ Len(stream'.events) <= 1 /\ Started'
        BY <4>1, <4>2, <3>10, <3>11, <3>13, <2>2
      <4> QED BY <4>2, <4>3 DEF Exchange, Talking, Late
    <3>15. Whole'
      <4>1. g.failure = "" => (Poisoned' <=> Poisoned) /\ Heard' = Heard
        BY <3>7, <1>s, <1>u DEF Poisoned, Heard, PathsOf
      <4> QED BY <4>1, <3>7, <3>11, <1>e, <1>h, <1>f, <1>q DEF Whole
    <3>16. Compared'
      <4>1. UNCHANGED ctl /\ UNCHANGED work /\ UNCHANGED writes
        BY <1>u DEF HelperLeaves
      <4>2. Clean => ctl.pc = "awaitAck" /\ helper'.rules = RulesOf(CurrentPhase)
        BY <3>13, <3>6, <1>f DEF PhaseCommand, r
      <4>3. \A w : Recorded(w)' <=> Recorded(w)
        BY <3>7, <1>f DEF Recorded
      <4>4. Clean /\ g.failure = "" => \A i \in DOMAIN writes : Recorded(writes[i])
        BY <1>e, <1>h, <1>q DEF Compared, Waits
      <4> QED BY <4>1, <4>2, <4>3, <4>4, <3>11, <1>f, <1>q DEF Compared
    <3> QED BY <3>6, <3>8, <3>10, <3>12, <3>14, <3>15, <3>16, <2>2, <1>u, <1>k, HelperAssembles
  <2> QED BY <2>4, <2>5, <2>6
<1> QED BY <1>1, <1>2


LEMMA NodeRecords ==
  ASSUME helper \in HelperStates, Counted(helper), NEW event \in Events
  PROVE  LET h == nodeRecord(helper, event) IN
         /\ h \in HelperStates /\ Len(h.seen) <= NotificationLimit + 1 /\ h.windows = helper.windows
         /\ h.failure = "" => /\ Len(h.seen) <= NotificationLimit /\ helper.watched \subseteq h.watched
                              /\ h.state = helper.state /\ h.batch = helper.batch
<1>n. /\ NotificationLimit \in Nat /\ (\A a, b \in Nat : a <= b => a <= b + 1 /\ a + 1 <= b + 1 /\ a + 1 \in Nat)
      /\ (\A a, b \in Nat : ~(a > b) => a <= b)
  BY Increments, TraceAssumption, Zenon
<1>0. helper.seen \in Seq(Records) /\ Len(helper.seen) \in Nat /\ helper.phase \in PhaseSet /\ helper.failure = ""
      /\ Len(helper.seen) <= NotificationLimit
  <2>1. helper.seen \in Seq(Records) /\ helper.phase \in PhaseSet
    BY DEF HelperStates
  <2> QED BY <2>1, LengthIs DEF Counted
<1> DEFINE entry == [kind |-> event.kind, phase |-> helper.phase, path |-> event.path, matched |-> FALSE]
           s == Append(helper.seen, entry)
           counted == [helper EXCEPT !.seen = s]
           h == nodeRecord(helper, event)
<1>1. entry \in Records
  BY <1>0 DEF Records, Events
<1> HIDE DEF entry
<1>2. s \in Seq(Records) /\ Len(s) = Len(helper.seen) + 1
  <2>1. \A x \in Records : Append(helper.seen, x) \in Seq(Records) /\ Len(Append(helper.seen, x)) = Len(helper.seen) + 1
    BY <1>0, AppendIs, Zenon
  <2> QED BY <1>1, <2>1
<1>3. Len(s) <= NotificationLimit + 1 /\ Len(s) \in Nat
  BY <1>0, <1>2, <1>n
<1> HIDE DEF s
<1>4. /\ counted \in HelperStates /\ counted.seen = s /\ counted.failure = "" /\ counted.watched = helper.watched
      /\ counted.windows = helper.windows /\ counted.state = helper.state /\ counted.batch = helper.batch
  BY <1>0, <1>2 DEF HelperStates
<1> DEFINE wide == [counted EXCEPT !.watched = counted.watched \cup {event.path}]
<1>5. h = helper \/ (Len(s) > NotificationLimit /\ h = latch(counted, "notification-overflow"))
      \/ (~(Len(s) > NotificationLimit) /\ (h = wide \/ h = counted))
  BY <1>4 DEF nodeRecord, s, entry
<1> HIDE DEF counted, h
<1>6. /\ wide \in HelperStates /\ wide.seen = s /\ wide.failure = "" /\ helper.watched \subseteq wide.watched
      /\ wide.windows = helper.windows /\ wide.state = helper.state /\ wide.batch = helper.batch
  <2> DEFINE w == counted.watched \cup {event.path}
  <2>1. w \in SUBSET Names /\ helper.watched \subseteq w
    BY <1>4 DEF HelperStates, Events
  <2>2. wide = [counted EXCEPT !.watched = w]
    OBVIOUS
  <2> HIDE DEF w, wide
  <2>3. /\ wide \in HelperStates /\ wide.seen = counted.seen /\ wide.failure = counted.failure /\ wide.watched = w
        /\ wide.windows = counted.windows /\ wide.state = counted.state /\ wide.batch = counted.batch
    BY <2>1, <2>2, <1>4 DEF HelperStates
  <2> QED BY <2>1, <2>3, <1>4
<1> HIDE DEF wide
<1>7. CASE h = helper
  BY <1>7, <1>0, <1>n DEF h
<1>8. CASE h = latch(counted, "notification-overflow")
  <2>1. Similar(h, counted) /\ h.failure # "" /\ h \in HelperStates
    BY <1>8, <1>4, Latched DEF HelperFailures
  <2> QED BY <2>1, <1>3, <1>4 DEF Similar, h
<1>9. CASE ~(Len(s) > NotificationLimit) /\ (h = wide \/ h = counted)
  <2>1. Len(s) <= NotificationLimit
    BY <1>9, <1>3, <1>n
  <2> QED BY <2>1, <1>3, <1>4, <1>6, <1>9 DEF h
<1> QED BY <1>5, <1>7, <1>8, <1>9

LEMMA NodeNotificationKeeps ==
  ASSUME TraceInv, NodeNotification
  PROVE  TraceInv'
<1> USE TraceAssumption, ChannelSizeAssumption
<1>q. /\ TraceTypes /\ Progress /\ HelperStaged /\ Commanded /\ Exchange /\ TreeClosed /\ Whole
      /\ Compared /\ Granted /\ Changed /\ Testimony /\ Limits /\ Bounds
  BY DEF TraceInv
<1>y. /\ control \in [queue : Seq(Commands), closed : BOOLEAN] /\ control.queue \in Seq(Commands)
      /\ stream \in StreamStates(TraceFrames) /\ helper \in HelperStates /\ kernel \in Seq(Events)
      /\ writes \in Seq([step : Nat, path : PathSet]) /\ files \in Snapshots
  BY <1>q DEF TraceTypes
<1>b. HelperBounds /\ KernelBound(kernel) /\ Len(stream.events) <= ChannelSize
  BY <1>q DEF Bounds, HelperBounds, KernelBound
<1>u. /\ HelperLeaves /\ UNCHANGED control /\ helper.state = "loop" /\ mode = "node" /\ MayWrite(stream)
      /\ kernel # <<>> /\ kernel' = Tail(kernel)
  BY DEF NodeNotification, HelperLeaves, observed
<1>f. /\ (Python' <=> Python) /\ (eligible' <=> eligible) /\ (Good' <=> Good) /\ (Clean' <=> Clean)
      /\ Written' = Written /\ Tree(files)' = Tree(files)
      /\ (\A phase : RulesOf(phase)' = RulesOf(phase)) /\ CurrentPhase' = CurrentPhase
      /\ PhaseCommand' = PhaseCommand /\ (\A w : Allowed(w)' <=> Allowed(w)) /\ (Clean => Python /\ Good)
  BY <1>u, HelperFrame DEF Clean, eligible, Python
<1>a. ~Python
  BY <1>u DEF Python
<1>t. Head(kernel) \in Events /\ Tail(kernel) \in Seq(Events) /\ Len(Tail(kernel)) = Len(kernel) - 1
  BY <1>u, <1>y, WithinTail
<1>k. kernel' \in Seq(Events) /\ KernelBound(kernel)'
  <2>1. Len(kernel) \in Nat /\ Len(kernel) <= QueueLimit + 1
    BY <1>b, <1>y DEF KernelBound
  <2>2. Len(Tail(kernel)) <= QueueLimit
    BY <2>1, <1>t
  <2> QED BY <2>2, <1>t, <1>u DEF KernelBound
<1>s. ~Python /\ ~Clean /\ Started /\ helper.batch = <<>> /\ (Live => <<>> \in helper.watched)
      /\ (helper.failure # "" => helper.watched = {})
  BY <1>a, <1>q, <1>u, <1>f DEF HelperStaged, Started
<1>v. Exchange' /\ Whole' /\ Compared'
  BY <1>s, <1>f DEF Exchange, Whole, Compared
<1> DEFINE h == nodeRecord(helper, Head(kernel))
<1>h. /\ h \in HelperStates /\ Len(h.seen) <= NotificationLimit + 1 /\ h.windows = helper.windows
      /\ h.failure = "" => /\ Len(h.seen) <= NotificationLimit /\ <<>> \in h.watched
                           /\ h.state = "loop" /\ h.batch = <<>>
  <2>1. CASE helper.failure # ""
    <3>1. h = helper
      BY <2>1 DEF nodeRecord
    <3> QED BY <3>1, <2>1, <1>b, <1>y DEF HelperBounds
  <2>2. CASE helper.failure = ""
    <3>1. Counted(helper) /\ Live
      BY <2>2, <1>b, <1>u DEF Counted, HelperBounds, Live, Working
    <3>2. /\ h \in HelperStates /\ Len(h.seen) <= NotificationLimit + 1 /\ h.windows = helper.windows
          /\ h.failure = "" => /\ Len(h.seen) <= NotificationLimit /\ helper.watched \subseteq h.watched
                               /\ h.state = helper.state /\ h.batch = helper.batch
      BY <3>1, <1>t, <1>y, NodeRecords
    <3> HIDE DEF h
    <3> QED BY <3>1, <3>2, <1>s, <1>u
  <2> QED BY <2>1, <2>2
<1>0. (h.failure = "" /\ helper' = h /\ stream' = stream)
      \/ (h.failure # "" /\ helper' = Exit(h) /\ stream' = WriteFrame(stream, FinalFrame(h, FALSE)))
  BY DEF NodeNotification, Emit
<1> HIDE DEF h
<1>1. CASE h.failure = "" /\ helper' = h /\ stream' = stream
  <2>1. HelperBounds'
    BY <1>1, <1>h, <1>b DEF HelperBounds
  <2>2. HelperStaged'
    BY <1>1, <1>h DEF HelperStaged, Started
  <2>3. Commanded'
    BY <1>1, <1>u, <1>q DEF Commanded
  <2>4. Testimony'
    BY <1>1, <1>q, <1>u, Unspoken DEF HelperLeaves
  <2> QED BY <2>1, <2>2, <2>3, <2>4, <1>1, <1>h, <1>k, <1>v, <1>u, <1>y, <1>b, HelperAssembles
<1>2. CASE h.failure # "" /\ helper' = Exit(h) /\ stream' = WriteFrame(stream, FinalFrame(h, FALSE))
  <2>1. Similar(Exit(h), h) /\ Exit(h).failure = h.failure /\ Exit(h).watched = {} /\ Exit(h).state = "exited"
        /\ Exit(h) \in HelperStates
    BY <1>h, Exited
  <2>2. HelperBounds'
    BY <2>1, <1>2, <1>h, <1>b DEF HelperBounds, Similar
  <2>3. PICK frame \in TraceFrames : stream' = WriteFrame(stream, frame) /\ Testified(frame)'
    BY <1>2, <1>h, Lamented
  <2>4. Testimony' /\ stream' \in StreamStates(TraceFrames) /\ Len(stream'.events) <= ChannelSize
    BY <2>3, <1>u, Spoken DEF HelperLeaves
  <2>5. Commanded'
    BY <2>1, <1>2, <1>u, <1>q DEF Commanded
  <2> QED BY <2>1, <2>2, <2>4, <2>5, <1>2, <1>a, <1>k, <1>u, <1>y, Leaving
<1> QED BY <1>0, <1>1, <1>2

LEMMA NodeCommandKeeps ==
  ASSUME TraceInv, NodeCommand
  PROVE  TraceInv'
<1> USE TraceAssumption, ChannelSizeAssumption
<1>q. /\ TraceTypes /\ Progress /\ HelperStaged /\ Commanded /\ Exchange /\ TreeClosed /\ Whole
      /\ Compared /\ Granted /\ Changed /\ Testimony /\ Limits /\ Bounds
  BY DEF TraceInv
<1>y. /\ control \in [queue : Seq(Commands), closed : BOOLEAN] /\ control.queue \in Seq(Commands)
      /\ stream \in StreamStates(TraceFrames) /\ helper \in HelperStates /\ kernel \in Seq(Events)
      /\ writes \in Seq([step : Nat, path : PathSet]) /\ files \in Snapshots
  BY <1>q DEF TraceTypes
<1>b. HelperBounds /\ KernelBound(kernel) /\ Len(stream.events) <= ChannelSize
  BY <1>q DEF Bounds, HelperBounds, KernelBound
<1>u. /\ HelperLeaves /\ UNCHANGED kernel /\ helper.state = "loop" /\ mode = "node" /\ MayWrite(stream)
  BY DEF NodeCommand, HelperLeaves, observed, sandbox
<1>f. /\ (Python' <=> Python) /\ (eligible' <=> eligible) /\ (Good' <=> Good) /\ (Clean' <=> Clean)
      /\ Written' = Written /\ Tree(files)' = Tree(files)
      /\ (\A phase : RulesOf(phase)' = RulesOf(phase)) /\ CurrentPhase' = CurrentPhase
      /\ PhaseCommand' = PhaseCommand /\ (\A w : Allowed(w)' <=> Allowed(w)) /\ (Clean => Python /\ Good)
  BY <1>u, HelperFrame DEF Clean, eligible, Python
<1>a. ~Python
  BY <1>u DEF Python
<1>k. kernel' \in Seq(Events) /\ KernelBound(kernel)'
  BY <1>u, <1>y, <1>b DEF KernelBound
<1>s. ~Python /\ ~Clean /\ Started /\ helper.batch = <<>> /\ (Live => <<>> \in helper.watched)
      /\ (helper.failure # "" => helper.watched = {})
  BY <1>a, <1>q, <1>u, <1>f DEF HelperStaged, Started
<1>v. Exchange' /\ Whole' /\ Compared'
  BY <1>s, <1>f DEF Exchange, Whole, Compared
<1> DEFINE command == Head(control.queue)
<1>1. CASE control.queue = <<>>
  <2>1. helper' = Exit(latch(helper, "notification-gap")) /\ stream' = WriteFrame(stream, FinalFrame(helper', FALSE)) /\ control' = control
    BY <1>1 DEF NodeCommand, Emit
  <2>2. /\ helper' \in HelperStates /\ helper'.state = "exited" /\ helper'.watched = {} /\ helper'.failure # "" /\ HelperBounds'
    BY <2>1, ExitLatched
  <2>3. PICK frame \in TraceFrames : stream' = WriteFrame(stream, frame) /\ Testified(frame)'
    BY <2>1, <2>2, Lamented
  <2>4. Testimony' /\ stream' \in StreamStates(TraceFrames) /\ Len(stream'.events) <= ChannelSize
    BY <2>3, <1>u, Spoken DEF HelperLeaves
  <2>5. Commanded'
    BY <2>1, <2>2, <1>q DEF Commanded
  <2> QED BY <2>1, <2>2, <2>4, <2>5, <1>a, <1>u, <1>k, <1>y, Leaving
<1>2. CASE control.queue # <<>>
  <2>1. control' = [control EXCEPT !.queue = Tail(@)]
    BY <1>2 DEF NodeCommand
  <2>2. /\ control' \in [queue : Seq(Commands), closed : BOOLEAN] /\ Commanded' /\ control'.closed = control.closed
        /\ (Len(control.queue) <= 1 => control'.queue = <<>>) /\ command \in Commands /\ command # StartCommand
    BY <2>1, <1>2, <1>q, <1>y, <1>u, TailCommands
  <2>3. CASE command.command = "stop"
    <3>1. helper' = Exit(helper) /\ stream' = WriteFrame(stream, FinalFrame(helper, TRUE))
      BY <1>2, <2>3 DEF NodeCommand, Emit
    <3>2. Similar(Exit(helper), helper) /\ Exit(helper).failure = helper.failure /\ Exit(helper).watched = {}
          /\ Exit(helper).state = "exited" /\ Exit(helper) \in HelperStates
      BY <1>y, Exited
    <3>3. helper' \in HelperStates /\ helper'.state = "exited" /\ helper'.watched = {} /\ HelperBounds'
      BY <3>1, <3>2, <1>b DEF HelperBounds, Similar
    <3>4. PICK frame \in TraceFrames : stream' = WriteFrame(stream, frame) /\ Testified(frame)'
      <4>1. \A f : f.type = "final" => Testified(f)'
        BY <3>3, <1>a, <1>s, <1>f DEF Testified
      <4>2. FinalFrame(helper, TRUE).type = "final" /\ FinalFrame(helper, TRUE) \in TraceFrames
        BY <1>y, FinalFrameIs, TraceFramesHold
      <4>3. \A f : f = FinalFrame(helper, TRUE) => Testified(f)'
        BY <4>1, <4>2
      <4> QED BY <4>2, <4>3, <3>1
    <3>5. Testimony' /\ stream' \in StreamStates(TraceFrames) /\ Len(stream'.events) <= ChannelSize
      BY <3>4, <1>u, Spoken DEF HelperLeaves
    <3> QED BY <3>3, <3>5, <2>2, <1>2, <1>a, <1>u, <1>k, Leaving
  <2>4. CASE command.command # "stop"
    <3>1. helper' = [helper EXCEPT !.phase = command.phase] /\ stream' = stream
      BY <1>2, <2>4 DEF NodeCommand
    <3>2. command.phase \in PhaseSet
      BY <2>2, <2>4 DEF Commands, StopCommand, PhaseCommands
    <3>3. /\ helper' \in HelperStates /\ helper'.state = helper.state /\ helper'.watched = helper.watched
          /\ helper'.seen = helper.seen /\ helper'.batch = helper.batch /\ helper'.failure = helper.failure
          /\ helper'.windows = helper.windows
      BY <3>1, <3>2, <1>y DEF HelperStates
    <3>4. HelperBounds'
      BY <3>3, <1>b DEF HelperBounds
    <3>5. HelperStaged'
      BY <3>3, <1>s, <1>u DEF HelperStaged, Started, Live, Working
    <3>6. Testimony'
      BY <3>1, <1>q, <1>u, Unspoken DEF HelperLeaves
    <3> QED BY <3>1, <3>3, <3>4, <3>5, <3>6, <2>2, <1>k, <1>v, <1>u, <1>y, <1>b, HelperAssembles
  <2> QED BY <2>3, <2>4
<1> QED BY <1>1, <1>2


-----------------------------------------------------------------------------
(* The workload. *)

Operations == [kind : Kinds, path : PathSet]

LEMMA ParentIs ==
  ASSUME NEW p \in PathSet
  PROVE  /\ Len(p) \in Nat /\ Len(p) >= 1 /\ Parent(p) \in Names /\ Parent(p) # p
         /\ Len(p) = 1 => Parent(p) = <<>>
<1>1. p \in Seq(STRING) /\ p # <<>>
  BY DEF PathSet, Names
<1>2. Len(p) \in Nat /\ Len(p) >= 1
  BY <1>1
<1>3. SubSeq(p, 1, Len(p) - 1) \in Seq(STRING) /\ Len(SubSeq(p, 1, Len(p) - 1)) = Len(p) - 1
  <2> DEFINE m == Len(p) - 1
  <2>1. m \in Nat /\ (1 <= m => m - 1 + 1 = m) /\ (~(1 <= m) => m = 0) /\ \A i \in 1..m : i \in 1..Len(p)
    BY <1>2
  <2>2. \A i \in 1..m : p[i] \in STRING
    BY <2>1, <1>1
  <2> HIDE DEF m
  <2>3. SubSeq(p, 1, m) \in Seq(STRING) /\ Len(SubSeq(p, 1, m)) = IF 1 <= m THEN m - 1 + 1 ELSE 0
    BY <2>1, <2>2, SubSeqProperties
  <2>4. SubSeq(p, 1, m) \in Seq(STRING) /\ Len(SubSeq(p, 1, m)) = m
    BY <2>1, <2>3
  <2> QED BY <2>4 DEF m
<1>4. SubSeq(p, 1, Len(p) - 1) # p
  BY <1>2, <1>3
<1>5. Len(p) = 1 => SubSeq(p, 1, Len(p) - 1) = <<>>
  BY <1>2, <1>3
<1> QED BY <1>2, <1>3, <1>4, <1>5 DEF Parent, Names

\* What the kernel does with one notification: it is there or an overflow is,
\* and none is lost.
Told(r, q, E) ==
  /\ r \in Seq(Events) /\ KernelBound(r) /\ Within(q) \subseteq Within(r)
  /\ Within(r) \subseteq Within(q) \cup E \cup {Overflowed}
  /\ \A e \in E : Parent(e.path) \in helper.watched => e \in Within(r) \/ Overflowed \in Within(r)
  /\ helper.watched = {} => r = q

LEMMA Meet == \A a, b \in Nat : a <= b /\ a >= b => a = b
  OBVIOUS

LEMMA Notified ==
  ASSUME NEW q \in Seq(Events), KernelBound(q), NEW event \in Events
  PROVE  Told(Notify(q, event), q, {event})
<1>n. QueueLimit \in Nat
  BY TraceAssumption
<1>o. Overflowed \in Events
  <2>1. <<>> \in Names
    BY DEF Names
  <2> QED BY <2>1 DEF Overflowed, Events, Kinds
<1>q. Len(q) \in Nat /\ DOMAIN q = 1..Len(q)
  OBVIOUS
<1>1. CASE Parent(event.path) \notin helper.watched
  BY <1>1 DEF Notify, Told
<1>2. CASE Parent(event.path) \in helper.watched /\ q # <<>> /\ q[Len(q)] \in {event, Overflowed}
  <2>1. Len(q) \in DOMAIN q
    BY <1>q, <1>2
  <2>2. event \in Within(q) \/ Overflowed \in Within(q)
    BY <2>1, <1>2 DEF Within
  <2> QED BY <2>2, <1>2 DEF Notify, Told
<1>3. CASE Parent(event.path) \in helper.watched /\ ~(q # <<>> /\ q[Len(q)] \in {event, Overflowed})
  <2>0. Len(q) <= QueueLimit
    <3>1. Len(q) = QueueLimit + 1 => q # <<>>
      BY <1>n
    <3>2. ~(Len(q) = QueueLimit + 1 /\ q[Len(q)] = Overflowed)
      BY <3>1, <1>3
    <3> QED BY <3>2 DEF KernelBound
  <2>1. CASE Len(q) >= QueueLimit
    <3> DEFINE r == Append(q, Overflowed)
    <3>1. Notify(q, event) = r
      BY <2>1, <1>3 DEF Notify
    <3>2. r \in Seq(Events) /\ Len(r) = Len(q) + 1 /\ Within(r) = Within(q) \cup {Overflowed}
      BY <1>o, WithinAppend
    <3>3. r[Len(q) + 1] = Overflowed
      BY <1>o, <1>q
    <3> HIDE DEF r
    <3>4. KernelBound(r)
      <4>1. Len(q) = QueueLimit
        BY Meet, <2>0, <2>1, <1>n, <1>q, Zenon
      <4>2. Len(r) = QueueLimit + 1 /\ r[Len(r)] = Overflowed
        BY <4>1, <3>2, <3>3
      <4> QED BY <4>2 DEF KernelBound
    <3> QED BY <3>1, <3>2, <3>4, <1>3 DEF Told
  <2>2. CASE ~(Len(q) >= QueueLimit)
    <3> DEFINE r == Append(q, event)
    <3>1. Notify(q, event) = r
      BY <2>2, <1>3 DEF Notify
    <3>2. r \in Seq(Events) /\ Len(r) = Len(q) + 1 /\ Within(r) = Within(q) \cup {event}
      BY WithinAppend
    <3> HIDE DEF r
    <3>3. KernelBound(r)
      <4>1. Len(q) + 1 <= QueueLimit
        BY <2>2, <1>n, <1>q
      <4> QED BY <4>1, <3>2 DEF KernelBound
    <3> QED BY <3>1, <3>2, <3>3, <1>3 DEF Told
  <2> QED BY <2>1, <2>2
<1> QED BY <1>1, <1>2, <1>3

\* A step of the workload with the notifications E.
Worked(E) ==
  /\ UNCHANGED mode /\ UNCHANGED ctl /\ UNCHANGED cmp /\ UNCHANGED filesystem /\ UNCHANGED engine /\ UNCHANGED resource
  /\ UNCHANGED control /\ UNCHANGED stream /\ UNCHANGED helper /\ UNCHANGED cgroup /\ UNCHANGED work
  /\ work.running \/ work.stray
  /\ ctl.pc # "done"
  /\ Told(kernel', kernel, E)
  /\ writes' \in Seq([step : Nat, path : PathSet])
  /\ Within(writes') = Within(writes) \cup {Write(e) : e \in E}
  /\ \A e \in E : Parent(e.path) \in Tree(files)

Altered(E) ==
  /\ files' \in Snapshots /\ TreeClosed'
  /\ Tree(files') \subseteq Tree(files) \/ \E e \in E : e.kind = "create-dir"
  /\ \A p : Kept(files, files', p, {e.path : e \in E})

LEMMA WrittenWithin ==
  ASSUME NEW W, writes \in Seq(W), writes' \in Seq(W)
  PROVE  Written = {w.path : w \in Within(writes)} /\ Written' = {w.path : w \in Within(writes')}
<1>1. DOMAIN writes = 1..Len(writes) /\ DOMAIN writes' = 1..Len(writes')
  OBVIOUS
<1>2. Written = {w.path : w \in Within(writes)}
  BY <1>1 DEF Written, Within
<1>3. Written' = {w.path : w \in Within(writes')}
  BY <1>1 DEF Written, Within
<1> QED BY <1>2, <1>3

LEMMA KeptOn ==
  \A f, g, h, p, V, W : Kept(f, g, p, V) /\ Kept(g, h, p, W) => Kept(f, h, p, V \cup W)
  BY DEF Kept, Same, Directory

LEMMA WorkKeeps ==
  ASSUME TraceInv, NEW E \in SUBSET Operations, Worked(E), Altered(E)
  PROVE  TraceInv'
<1> USE TraceAssumption, ChannelSizeAssumption
<1>q. /\ TraceTypes /\ Progress /\ HelperStaged /\ Commanded /\ Exchange /\ TreeClosed /\ Whole
      /\ Compared /\ Granted /\ Changed /\ Testimony /\ Limits /\ Bounds
  BY DEF TraceInv
<1>u. /\ UNCHANGED mode /\ UNCHANGED ctl /\ UNCHANGED cmp /\ UNCHANGED filesystem /\ UNCHANGED engine /\ UNCHANGED resource
      /\ UNCHANGED control /\ UNCHANGED stream /\ UNCHANGED helper /\ UNCHANGED cgroup /\ UNCHANGED work
      /\ (work.running \/ work.stray) /\ ctl.pc # "done"
  BY DEF Worked
<1>k. kernel' \in Seq(Events) /\ KernelBound(kernel') /\ Within(kernel) \subseteq Within(kernel')
      /\ Within(kernel') \subseteq Within(kernel) \cup E \cup {Overflowed}
      /\ (\A e \in E : Parent(e.path) \in helper.watched => e \in Within(kernel') \/ Overflowed \in Within(kernel'))
      /\ (helper.watched = {} => kernel' = kernel)
  BY DEF Worked, Told
<1>w. writes' \in Seq([step : Nat, path : PathSet]) /\ Within(writes') = Within(writes) \cup {Write(e) : e \in E}
      /\ \A e \in E : Parent(e.path) \in Tree(files)
  BY DEF Worked
<1>a. /\ files' \in Snapshots /\ TreeClosed'
      /\ (Tree(files') \subseteq Tree(files) \/ \E e \in E : e.kind = "create-dir")
      /\ \A p : Kept(files, files', p, {e.path : e \in E})
  BY DEF Altered
<1>e. \A e \in E : e.path \in PathSet /\ Write(e).step = ctl.step /\ Write(e).path = e.path
  BY DEF Operations, Write
<1>f. /\ (Python' <=> Python) /\ (eligible' <=> eligible) /\ (Good' <=> Good) /\ (Clean' <=> Clean)
      /\ (Live' <=> Live) /\ (Started' <=> Started) /\ (\A phase : RulesOf(phase)' = RulesOf(phase))
      /\ CurrentPhase' = CurrentPhase /\ PhaseCommand' = PhaseCommand
  <2>1. /\ (Python' <=> Python) /\ (eligible' <=> eligible) /\ (Good' <=> Good) /\ (Live' <=> Live) /\ (Started' <=> Started)
    BY <1>u DEF Python, eligible, Good, Live, Working, Started
  <2>2. \A phase : RulesOf(phase)' = RulesOf(phase)
    BY <2>1 DEF RulesOf
  <2>3. (Clean' <=> Clean) /\ CurrentPhase' = CurrentPhase /\ PhaseCommand' = PhaseCommand
    BY <2>1, <2>2, <1>u DEF Clean, CurrentPhase, PhaseCommand
  <2> QED BY <2>1, <2>2, <2>3
<1>g. \A w : (Allowed(w)' <=> Allowed(w)) /\ (Recorded(w)' <=> Recorded(w))
  <2>1. \A w : Allowed(w)' <=> Allowed(w)
    BY <1>f DEF Allowed
  <2> QED BY <2>1, <1>u DEF Recorded
<1>p. ctl.pc \notin Early \cup {"stop", "done"} \cup Late /\ (Clean => ctl.pc \in {"running", "post"})
  <2>1. ctl.pc \notin Early \cup {"stop", "done"} \cup Late
    BY <1>q, <1>u DEF Progress, Quiet
  <2>2. Clean => ctl.pc \in {"running", "post"}
    BY <1>q, <1>u DEF Progress, Compared
  <2> QED BY <2>1, <2>2
<1>i. (Clean => Python /\ Good) /\ (Python /\ Good => ctl.pc \notin Late \cup {"done"})
  BY <1>p DEF Clean, eligible, Python
<1>h. Poisoned => Poisoned'
  BY <1>k, <1>u, HeardWithin
<1>z. Python /\ Good /\ Live /\ ~Poisoned' =>
        /\ \A e \in E : e \in Within(kernel') /\ e.kind # "create-dir"
        /\ Tree(files) \subseteq helper.watched /\ Written = Heard
  <2>1. SUFFICES ASSUME Python, Good, Live, ~Poisoned'
                 PROVE  /\ \A e \in E : e \in Within(kernel') /\ e.kind # "create-dir"
                        /\ Tree(files) \subseteq helper.watched /\ Written = Heard
    OBVIOUS
  <2>2. Tree(files) \subseteq helper.watched /\ Written = Heard
    BY <2>1, <1>h, <1>q DEF Whole
  <2>3. \A e \in Within(kernel') : e.kind \notin Poison
    BY <2>1, HeardWithin
  <2>4. Overflowed \notin Within(kernel')
    BY <2>3 DEF Overflowed, Poison
  <2>5. \A e \in E : e \in Within(kernel')
    BY <2>2, <2>4, <1>k, <1>w
  <2> QED BY <2>2, <2>3, <2>5 DEF Poison
<1>1. TraceTypes'
  BY <1>q, <1>u, <1>k, <1>w, <1>a DEF TraceTypes
<1>2. Progress'
  BY <1>q, <1>u, <1>p, <1>f DEF Progress, Quiet
<1>3. HelperStaged'
  <2>1. kernel # <<>> => kernel' # <<>>
    <3>1. kernel \in Seq(Events)
      BY <1>q DEF TraceTypes
    <3>2. kernel # <<>> => kernel[1] \in Within(kernel)
      <4>1. kernel # <<>> => 1 \in DOMAIN kernel
        BY <3>1
      <4> QED BY <4>1 DEF Within
    <3>3. Within(<<>>) = {}
      BY DEF Within
    <3> QED BY <3>2, <3>3, <1>k
  <2>2. ~Started => kernel' = <<>>
    BY <1>q, <1>k DEF HelperStaged
  <2> QED BY <2>1, <2>2, <1>q, <1>u, <1>f DEF HelperStaged
<1>4. Commanded'
  BY <1>q, <1>u DEF Commanded
<1>5. Exchange'
  BY <1>q, <1>u, <1>f DEF Exchange
<1>x. Written = {w.path : w \in Within(writes)} /\ Written' = {w.path : w \in Within(writes')}
  BY <1>q, <1>w, WrittenWithin DEF TraceTypes
<1>v. Written' = Written \cup {e.path : e \in E}
  <2>1. Written' = {w.path : w \in Within(writes)} \cup {w.path : w \in {Write(e) : e \in E}}
    BY <1>x, <1>w
  <2>2. {w.path : w \in {Write(e) : e \in E}} = {e.path : e \in E}
    BY <1>e
  <2> QED BY <2>1, <2>2, <1>x
<1>6. Whole'
  <2>1. SUFFICES ASSUME Python, Good, Live, ~Poisoned'
                 PROVE  Tree(files') \subseteq helper'.watched /\ Written' = Heard'
    BY <1>f DEF Whole
  <2>2. Tree(files') \subseteq helper'.watched
    BY <2>1, <1>z, <1>a, <1>u
  <2>3. Overflowed \notin Within(kernel')
    BY <2>1, HeardWithin DEF Overflowed, Poison
  <2>4. Within(kernel') = Within(kernel) \cup E
    BY <2>1, <2>3, <1>k, <1>z
  <2>5. Heard' = Heard \cup {e.path : e \in E}
    <3> DEFINE K == Within(kernel)
               B == Within(helper.batch)
               S == Within(helper.seen)
    <3>1. Heard = {e.path : e \in S} \cup {e.path : e \in B \cup K}
      BY HeardWithin
    <3>2. Heard' = {e.path : e \in S} \cup {e.path : e \in B \cup (K \cup E)}
      BY <2>4, <1>u, HeardWithin
    <3> HIDE DEF K, B, S
    <3> QED BY <3>1, <3>2
  <2> QED BY <2>1, <2>2, <2>5, <1>v, <1>z
<1>m. \A w : Waits(w) => Waits(w)'
  <2>1. \A p : p \in PathsOf(helper.batch) \cup PathsOf(kernel) => p \in PathsOf(helper.batch)' \cup PathsOf(kernel)'
    BY <1>k, <1>u, HeardWithin
  <2> QED BY <2>1, <1>f, <1>u DEF Waits
<1>7. Compared'
  <2>1. SUFFICES ASSUME Clean
                 PROVE  Compared'
    BY <1>f DEF Compared
  <2>2. Live /\ ~Poisoned' => \A w \in Within(writes') : Recorded(w)' \/ Waits(w)'
    <3>1. SUFFICES ASSUME Live, ~Poisoned', NEW w \in Within(writes')
                   PROVE  Recorded(w)' \/ Waits(w)'
      OBVIOUS
    <3>2. CASE w \in Within(writes)
      BY <3>1, <3>2, <2>1, <1>h, <1>g, <1>m, <1>q DEF Compared, Within
    <3>3. CASE w \notin Within(writes)
      <4>1. PICK e \in E : w = Write(e)
        BY <3>3, <1>w
      <4>2. w.step = ctl.step /\ w.path = e.path
        BY <4>1, <1>e
      <4>3. ctl.step <= Len(Steps) /\ helper.rules = RulesOf(Steps[ctl.step])
        BY <3>1, <2>1, <1>p, <1>q DEF Progress, Compared
      <4>4. e \in Within(kernel')
        BY <3>1, <2>1, <1>i, <1>z
      <4>5. w.path \in PathsOf(helper.batch)' \cup PathsOf(kernel)'
        BY <4>2, <4>4, HeardWithin
      <4> QED BY <4>2, <4>3, <4>5, <1>f, <1>u DEF Waits
    <3> QED BY <3>2, <3>3
  <2>3. Live /\ ~Poisoned' => \A i \in DOMAIN writes' : Recorded(writes[i])' \/ Waits(writes[i])'
    <3>1. \A w : \A i : w = writes'[i] /\ (Recorded(w)' \/ Waits(w)') => Recorded(writes[i])' \/ Waits(writes[i])'
      BY DEF Recorded, Waits, Allowed
    <3>2. \A i \in DOMAIN writes' : writes'[i] \in Within(writes')
      BY DEF Within
    <3> QED BY <3>1, <3>2, <2>2
  <2> QED BY <2>1, <2>3, <1>f, <1>u, <1>p, <1>q DEF Compared
<1>8. Granted'
  <2>1. SUFFICES ASSUME Clean
                 PROVE  Granted'
    BY <1>f DEF Granted
  <2>n. ctl.step \in Nat
    BY <1>q DEF TraceTypes, ControllerStates
  <2>2. \A w \in Within(writes') :
          /\ w.step <= ctl.step
          /\ w.step < ctl.step /\ ~filesystem.ambiguous => RulesOf(Steps[w.step]) \subseteq filesystem.patterns
    <3>1. \A w \in Within(writes) :
            /\ w.step <= ctl.step
            /\ w.step < ctl.step /\ ~filesystem.ambiguous => RulesOf(Steps[w.step]) \subseteq filesystem.patterns
      BY <2>1, <1>q DEF Granted, Within
    <3>2. \A w \in {Write(e) : e \in E} : w.step = ctl.step
      BY <1>e
    <3>3. \A n \in Nat : n <= n /\ ~(n < n)
      OBVIOUS
    <3> QED BY <3>1, <3>2, <3>3, <2>n, <1>w
  <2>3. \A i \in DOMAIN writes' : writes'[i] \in Within(writes')
    BY DEF Within
  <2> QED BY <2>1, <2>2, <2>3, <1>p, <1>f, <1>u DEF Granted
<1>9. Changed'
  <2>1. ~filesystem.finalReady
    BY <1>q, <1>p DEF Changed, Late
  <2>2. filesystem.baselineReady => \A p : Kept(filesystem.baseline, files, p, Written)
    BY <1>q DEF Changed
  <2>3. filesystem.baselineReady => \A p : Kept(filesystem.baseline, files', p, Written')
    BY <2>2, <1>v, <1>a, KeptOn, Zenon
  <2> QED BY <2>1, <2>3, <1>u DEF Changed
<1>10. Testimony'
  <2>1. \A f : Testified(f) => Testified(f)'
    BY <1>u, <1>f, <1>i DEF Testified
  <2>2. \A f : f = ctl.result => Testified(f)'
    BY <2>1, <1>q DEF Testimony
  <2>3. \A f : ctl' = ctl /\ f = ctl.result /\ Testified(f)' => Testified(ctl.result)'
    BY DEF Testified
  <2>4. Testified(ctl.result)'
    BY <2>2, <2>3, <1>u
  <2> QED BY <2>1, <2>4, <1>q, <1>u DEF Testimony
<1>11. Limits' /\ Bounds'
  BY <1>q, <1>u, <1>k DEF Limits, Bounds, KernelBound
<1> QED BY <1>1, <1>2, <1>3, <1>4, <1>5, <1>6, <1>7, <1>8, <1>9, <1>10, <1>11, <1>a DEF TraceInv


AtWork ==
  /\ UNCHANGED mode /\ UNCHANGED ctl /\ UNCHANGED cmp /\ UNCHANGED filesystem /\ UNCHANGED engine /\ UNCHANGED resource
  /\ UNCHANGED control /\ UNCHANGED stream /\ UNCHANGED helper /\ UNCHANGED cgroup /\ UNCHANGED work
  /\ work.running \/ work.stray
  /\ ctl.pc # "done"

LEMMA OperationIsEvent == ASSUME NEW e \in Operations PROVE e \in Events /\ e.path \in PathSet
  BY DEF Operations, Events, PathSet

LEMMA WriteAppends ==
  ASSUME TraceInv, NEW event \in Operations, NEW q \in Seq([step : Nat, path : PathSet])
  PROVE  /\ Append(q, Write(event)) \in Seq([step : Nat, path : PathSet])
         /\ Within(Append(q, Write(event))) = Within(q) \cup {Write(event)}
<1> DEFINE W == [step : Nat, path : PathSet]
<1>1. Write(event) \in W
  <2>1. ctl.step \in Nat
    BY DEF TraceInv, TraceTypes, ControllerStates
  <2> QED BY <2>1, OperationIsEvent DEF Write
<1>2. q \in Seq(W)
  OBVIOUS
<1> HIDE DEF W
<1>3. Append(q, Write(event)) \in Seq(W) /\ Within(Append(q, Write(event))) = Within(q) \cup {Write(event)}
  BY <1>1, <1>2, WithinAppend
<1> QED BY <1>3 DEF W

LEMMA Touched ==
  ASSUME TraceInv, AtWork, NEW event \in Operations, NEW after, Touch(event, after),
         Parent(event.path) \in Tree(files)
  PROVE  Worked({event}) /\ files' = after
<1>1. kernel \in Seq(Events) /\ KernelBound(kernel) /\ writes \in Seq([step : Nat, path : PathSet])
  BY DEF TraceInv, TraceTypes, Bounds, KernelBound
<1>2. Told(kernel', kernel, {event})
  BY <1>1, OperationIsEvent, Notified DEF Touch
<1>3. writes' \in Seq([step : Nat, path : PathSet]) /\ Within(writes') = Within(writes) \cup {Write(event)}
  BY <1>1, WriteAppends DEF Touch
<1>4. {Write(e) : e \in {event}} = {Write(event)}
  OBVIOUS
<1> QED BY <1>2, <1>3, <1>4 DEF Worked, AtWork, Touch

LEMMA ToldTwice ==
  ASSUME NEW a, NEW b, NEW q, NEW r, NEW s, Told(r, q, {a}), Told(s, r, {b})
  PROVE  Told(s, q, {a, b})
<1>1. /\ Within(q) \subseteq Within(r) /\ Within(r) \subseteq Within(q) \cup {a} \cup {Overflowed}
      /\ (Parent(a.path) \in helper.watched => a \in Within(r) \/ Overflowed \in Within(r))
      /\ (helper.watched = {} => r = q)
  BY DEF Told
<1>2. /\ s \in Seq(Events) /\ KernelBound(s) /\ Within(r) \subseteq Within(s)
      /\ Within(s) \subseteq Within(r) \cup {b} \cup {Overflowed}
      /\ (Parent(b.path) \in helper.watched => b \in Within(s) \/ Overflowed \in Within(s))
      /\ (helper.watched = {} => s = r)
  BY DEF Told
<1> QED BY <1>1, <1>2 DEF Told

LEMMA TouchedTwice ==
  ASSUME TraceInv, AtWork, NEW first \in Operations, NEW second \in Operations, NEW after,
         TouchTwice(first, second, after),
         Parent(first.path) \in Tree(files), Parent(second.path) \in Tree(files)
  PROVE  Worked({first, second}) /\ files' = after
<1>1. kernel \in Seq(Events) /\ KernelBound(kernel) /\ writes \in Seq([step : Nat, path : PathSet])
  BY DEF TraceInv, TraceTypes, Bounds, KernelBound
<1> DEFINE r == Notify(kernel, first)
           v == Append(writes, Write(first))
<1>2. Told(r, kernel, {first}) /\ r \in Seq(Events) /\ KernelBound(r)
  <2>1. Told(r, kernel, {first})
    BY <1>1, OperationIsEvent, Notified
  <2> QED BY <2>1 DEF Told
<1>3. kernel' = Notify(r, second) /\ writes' = Append(v, Write(second)) /\ files' = after
  BY DEF TouchTwice
<1>4. v \in Seq([step : Nat, path : PathSet]) /\ Within(v) = Within(writes) \cup {Write(first)}
  BY <1>1, WriteAppends
<1> HIDE DEF r, v
<1>5. Told(kernel', r, {second})
  BY <1>2, <1>3, OperationIsEvent, Notified
<1>6. Told(kernel', kernel, {first, second})
  BY <1>2, <1>5, ToldTwice
<1>7. writes' \in Seq([step : Nat, path : PathSet]) /\ Within(writes') = Within(v) \cup {Write(second)}
  BY <1>3, <1>4, WriteAppends
<1>8. {Write(e) : e \in {first, second}} = {Write(first), Write(second)}
  OBVIOUS
<1>9. Within(writes') = Within(writes) \cup {Write(e) : e \in {first, second}}
  BY <1>4, <1>7, <1>8
<1> QED BY <1>3, <1>6, <1>7, <1>9 DEF Worked, AtWork

LEMMA SnapshotIs ==
  ASSUME NEW fs \in Snapshots
  PROVE  DOMAIN fs \subseteq PathSet /\ \A p \in DOMAIN fs : fs[p] \in FileEntries
  BY DEF Snapshots

LEMMA WithIs ==
  ASSUME NEW fs \in Snapshots, NEW p \in PathSet, NEW entry \in FileEntries
  PROVE  /\ With(fs, p, entry) \in Snapshots /\ DOMAIN With(fs, p, entry) = DOMAIN fs \cup {p}
         /\ With(fs, p, entry)[p] = entry /\ \A q \in DOMAIN fs \ {p} : With(fs, p, entry)[q] = fs[q]
<1>1. DOMAIN fs \subseteq PathSet /\ \A q \in DOMAIN fs : fs[q] \in FileEntries
  BY SnapshotIs
<1> DEFINE D == DOMAIN fs \cup {p}
<1>2. D \in SUBSET PathSet
  BY <1>1
<1>3. With(fs, p, entry) \in [D -> FileEntries]
  BY <1>1 DEF With
<1>4. DOMAIN With(fs, p, entry) = D /\ With(fs, p, entry)[p] = entry
      /\ \A q \in DOMAIN fs \ {p} : With(fs, p, entry)[q] = fs[q]
  BY DEF With
<1>5. With(fs, p, entry) \in Snapshots
  BY <1>2, <1>3 DEF Snapshots
<1> QED BY <1>4, <1>5

LEMMA WithoutIs ==
  ASSUME NEW fs \in Snapshots, NEW p
  PROVE  /\ Without(fs, p) \in Snapshots /\ DOMAIN Without(fs, p) = DOMAIN fs \ {p}
         /\ \A q \in DOMAIN fs \ {p} : Without(fs, p)[q] = fs[q]
<1>1. DOMAIN fs \subseteq PathSet /\ \A q \in DOMAIN fs : fs[q] \in FileEntries
  BY SnapshotIs
<1> DEFINE D == DOMAIN fs \ {p}
<1>2. D \in SUBSET PathSet
  BY <1>1
<1>3. Without(fs, p) \in [D -> FileEntries]
  BY <1>1 DEF Without
<1>4. DOMAIN Without(fs, p) = D /\ \A q \in DOMAIN fs \ {p} : Without(fs, p)[q] = fs[q]
  BY DEF Without
<1>5. Without(fs, p) \in Snapshots
  BY <1>2, <1>3 DEF Snapshots
<1> QED BY <1>4, <1>5

LEMMA ResizedIs ==
  ASSUME NEW fs \in Snapshots, NEW p \in PathSet, NEW change \in Int,
         Parent(p) \in DOMAIN fs => fs[Parent(p)].type = "dir"
  PROVE  /\ Resized(fs, p, change) \in Snapshots /\ DOMAIN Resized(fs, p, change) = DOMAIN fs
         /\ \A q \in DOMAIN fs : Resized(fs, p, change)[q].type = fs[q].type
         /\ \A q \in DOMAIN fs : q # Parent(p) => Resized(fs, p, change)[q] = fs[q]
<1>1. DOMAIN fs \subseteq PathSet /\ \A q \in DOMAIN fs : fs[q] \in FileEntries
  BY SnapshotIs
<1>2. CASE Parent(p) \notin DOMAIN fs
  BY <1>2 DEF Resized
<1>3. CASE Parent(p) \in DOMAIN fs
  <2> DEFINE d == Parent(p)
             n == fs[d].value + change
             entry == [fs[d] EXCEPT !.value = n]
             g == [fs EXCEPT ![d] = entry]
  <2>1. fs[d] \in FileEntries /\ n \in Int
    <3>1. fs[d] \in FileEntries
      BY <1>1, <1>3
    <3> QED BY <3>1 DEF FileEntries
  <2>2. Resized(fs, p, change) = g
    BY <1>3 DEF Resized
  <2> HIDE DEF n, d
  <2>3. entry \in FileEntries /\ entry.type = fs[d].type
    BY <2>1 DEF FileEntries
  <2> HIDE DEF entry
  <2>4. fs \in [DOMAIN fs -> FileEntries] /\ d \in DOMAIN fs
    BY <1>1, <1>3 DEF d, Snapshots
  <2>5. g \in [DOMAIN fs -> FileEntries] /\ DOMAIN g = DOMAIN fs
    BY <2>3, <2>4
  <2>6. \A q \in DOMAIN fs : g[q].type = fs[q].type
    BY <2>3, <2>4
  <2>7. \A q \in DOMAIN fs : q # d => g[q] = fs[q]
    BY <2>4
  <2>8. g \in Snapshots
    BY <1>1, <2>5 DEF Snapshots
  <2> HIDE DEF g
  <2> QED BY <2>2, <2>5, <2>6, <2>7, <2>8 DEF d
<1> QED BY <1>2, <1>3

LEMMA KeptAround ==
  ASSUME NEW fs, NEW g, NEW h, NEW p, DOMAIN h = DOMAIN g,
         \A q : q # p => Same(fs, g, q),
         Parent(p) \in DOMAIN fs => fs[Parent(p)].type = "dir",
         Parent(p) # p,
         \A q \in DOMAIN g : h[q].type = g[q].type,
         \A q \in DOMAIN g : q # Parent(p) => h[q] = g[q]
  PROVE  \A q : Kept(fs, h, q, {p})
<1> SUFFICES ASSUME NEW q, q # p
             PROVE  Kept(fs, h, q, {p})
  BY DEF Kept
<1>1. CASE q # Parent(p)
  BY <1>1 DEF Kept, Same
<1>2. CASE q = Parent(p)
  BY <1>2 DEF Kept, Same, Directory
<1> QED BY <1>1, <1>2

LEMMA AddedIs ==
  ASSUME NEW fs \in Snapshots, NEW p \in PathSet, NEW entry \in FileEntries, Parent(p) # p,
         Parent(p) \in DOMAIN fs => fs[Parent(p)].type = "dir"
  PROVE  /\ Added(fs, p, entry) \in Snapshots /\ DOMAIN Added(fs, p, entry) = DOMAIN fs \cup {p}
         /\ Added(fs, p, entry)[p] = entry
         /\ \A q \in DOMAIN fs \ {p} : Added(fs, p, entry)[q].type = fs[q].type
         /\ \A q : Kept(fs, Added(fs, p, entry), q, {p})
<1> DEFINE g == With(fs, p, entry)
           h == Resized(g, p, 1)
<1>1. /\ g \in Snapshots /\ DOMAIN g = DOMAIN fs \cup {p} /\ g[p] = entry
      /\ \A q \in DOMAIN fs \ {p} : g[q] = fs[q]
  BY WithIs
<1> HIDE DEF g
<1>2. Parent(p) \in DOMAIN g => g[Parent(p)].type = "dir"
  BY <1>1
<1>3. /\ h \in Snapshots /\ DOMAIN h = DOMAIN g /\ \A q \in DOMAIN g : h[q].type = g[q].type
      /\ \A q \in DOMAIN g : q # Parent(p) => h[q] = g[q]
  BY <1>1, <1>2, ResizedIs
<1>4. Added(fs, p, entry) = h
  BY DEF Added, g
<1> HIDE DEF h
<1>5. \A q : q # p => Same(fs, g, q)
  BY <1>1 DEF Same
<1>6. \A q : Kept(fs, h, q, {p})
  BY <1>3, <1>5, KeptAround
<1>7. /\ DOMAIN h = DOMAIN fs \cup {p} /\ h[p] = entry
      /\ \A q \in DOMAIN fs \ {p} : h[q].type = fs[q].type
  BY <1>1, <1>3
<1> QED BY <1>3, <1>4, <1>6, <1>7

LEMMA RemovedIs ==
  ASSUME NEW fs \in Snapshots, NEW p \in PathSet, Parent(p) # p,
         Parent(p) \in DOMAIN fs => fs[Parent(p)].type = "dir"
  PROVE  /\ Removed(fs, p) \in Snapshots /\ DOMAIN Removed(fs, p) = DOMAIN fs \ {p}
         /\ \A q \in DOMAIN fs \ {p} : Removed(fs, p)[q].type = fs[q].type
         /\ \A q : Kept(fs, Removed(fs, p), q, {p})
<1> DEFINE g == Without(fs, p)
           n == 0 - 1
           h == Resized(g, p, n)
<1>0. n \in Int
  OBVIOUS
<1>1. /\ g \in Snapshots /\ DOMAIN g = DOMAIN fs \ {p}
      /\ \A q \in DOMAIN fs \ {p} : g[q] = fs[q]
  BY WithoutIs
<1>4. Removed(fs, p) = h
  BY DEF Removed
<1> HIDE DEF g, n
<1>2. Parent(p) \in DOMAIN g => g[Parent(p)].type = "dir"
  BY <1>1
<1>3. /\ h \in Snapshots /\ DOMAIN h = DOMAIN g /\ \A q \in DOMAIN g : h[q].type = g[q].type
      /\ \A q \in DOMAIN g : q # Parent(p) => h[q] = g[q]
  BY <1>0, <1>1, <1>2, ResizedIs
<1> HIDE DEF h
<1>5. \A q : q # p => Same(fs, g, q)
  BY <1>1 DEF Same
<1>6. \A q : Kept(fs, h, q, {p})
  BY <1>3, <1>5, KeptAround
<1>7. DOMAIN h = DOMAIN fs \ {p} /\ \A q \in DOMAIN fs \ {p} : h[q].type = fs[q].type
  BY <1>1, <1>3
<1> QED BY <1>3, <1>4, <1>6, <1>7

LEMMA KeptOf ==
  ASSUME NEW f, NEW g, NEW E, NEW W, {e.path : e \in E} = W, \A q : Kept(f, g, q, W)
  PROVE  \A q : Kept(f, g, q, {e.path : e \in E})
  OBVIOUS

LEMMA Longer == \A n \in Nat : (n > 1 => n # 1) /\ (n >= 1 => n = 1 \/ n > 1)
  OBVIOUS

LEMMA ParentsThere ==
  ASSUME files \in Snapshots, TreeClosed, NEW p \in PathSet, p \in DOMAIN files \/ MayCreate(p)
  PROVE  /\ Parent(p) \in Tree(files) /\ Parent(p) # p
         /\ Parent(p) \in DOMAIN files => files[Parent(p)].type = "dir"
         /\ Len(p) > 1 => Parent(p) \in DOMAIN files /\ files[Parent(p)].type = "dir"
<1> DEFINE there == Parent(p) \in DOMAIN files /\ files[Parent(p)].type = "dir"
<1>1. Len(p) \in Nat /\ Len(p) >= 1 /\ (Len(p) = 1 => Parent(p) = <<>>) /\ Parent(p) # p
  BY ParentIs
<1>2. MayCreate(p) => Len(p) = 1 \/ there
  BY DEF MayCreate, Exists
<1>3. p \in DOMAIN files => (Len(p) > 1 => there)
  BY DEF TreeClosed
<1>4. there => Parent(p) \in Tree(files)
  BY DEF Tree
<1>5. <<>> \in Tree(files)
  BY DEF Tree
<1> HIDE DEF there
<1>6. (Len(p) > 1 => Len(p) # 1) /\ (Len(p) = 1 \/ Len(p) > 1)
  BY <1>1, Longer
<1>7. Len(p) > 1 => there
  BY <1>2, <1>3, <1>6, Zenon
<1>8. Parent(p) \in Tree(files)
  BY <1>1, <1>4, <1>5, <1>6, <1>7, Zenon
<1>9. Parent(p) \in DOMAIN files => files[Parent(p)].type = "dir"
  <2>1. <<>> \notin DOMAIN files
    BY SnapshotIs DEF PathSet
  <2> QED BY <2>1, <1>8 DEF Tree
<1> QED BY <1>1, <1>7, <1>8, <1>9 DEF there

LEMMA EventIs ==
  ASSUME NEW p \in PathSet, NEW kind \in Kinds
  PROVE  Event(kind, p) \in Operations /\ Event(kind, p).path = p /\ Event(kind, p).kind = kind
  BY DEF Event, Operations

LEMMA EntriesAre ==
  [type |-> "file", value |-> 1] \in FileEntries /\ [type |-> "dir", value |-> 0] \in FileEntries
  BY DEF FileEntries

LEMMA CreateFileKeeps ==
  ASSUME TraceInv, AtWork, NEW p \in PathSet, CreateFile(p)
  PROVE  TraceInv'
<1>q. files \in Snapshots /\ TreeClosed
  BY DEF TraceInv, TraceTypes
<1> DEFINE e == Event("create", p)
           entry == [type |-> "file", value |-> 1]
<1>1. ~Exists(p) /\ MayCreate(p) /\ Touch(e, Added(files, p, entry))
  BY DEF CreateFile, MayCreate
<1>2. e \in Operations /\ e.path = p /\ e.kind = "create"
  BY EventIs DEF Kinds
<1>3. /\ Parent(p) \in Tree(files) /\ (Len(p) > 1 => Parent(p) \in DOMAIN files /\ files[Parent(p)].type = "dir")
      /\ Parent(p) # p /\ (Parent(p) \in DOMAIN files => files[Parent(p)].type = "dir")
  BY <1>1, <1>q, ParentsThere
<1>e. entry \in FileEntries /\ entry.type = "file"
  BY EntriesAre
<1> HIDE DEF e, entry
<1>4. Worked({e}) /\ files' = Added(files, p, entry)
  BY <1>1, <1>2, <1>3, Touched
<1>5. /\ files' \in Snapshots /\ DOMAIN files' = DOMAIN files \cup {p} /\ files'[p] = entry
      /\ (\A q \in DOMAIN files \ {p} : files'[q].type = files[q].type)
      /\ \A r : Kept(files, files', r, {p})
  <2> DEFINE g == Added(files, p, entry)
  <2>1. /\ g \in Snapshots /\ DOMAIN g = DOMAIN files \cup {p} /\ g[p] = entry
        /\ (\A q \in DOMAIN files \ {p} : g[q].type = files[q].type)
        /\ \A r : Kept(files, g, r, {p})
    <3>1. files \in Snapshots /\ entry \in FileEntries /\ Parent(p) # p
          /\ (Parent(p) \in DOMAIN files => files[Parent(p)].type = "dir")
      BY <1>q, <1>e, <1>3
    <3> QED BY <3>1, AddedIs
  <2>2. files' = g
    BY <1>4
  <2> HIDE DEF g
  <2> QED BY <2>1, <2>2
<1>6. TreeClosed'
  BY <1>1, <1>3, <1>5, <1>q DEF TreeClosed, Exists
<1>7. Tree(files') \subseteq Tree(files) \/ \E x \in {e} : x.kind = "create-dir"
  BY <1>5, <1>e DEF Tree
<1>9. Altered({e})
  <2>1. {x.path : x \in {e}} = {p}
    BY <1>2
  <2>2. \A r : Kept(files, files', r, {x.path : x \in {e}})
    BY <2>1, <1>5, KeptOf
  <2> QED BY <1>5, <1>6, <1>7, <2>2 DEF Altered
<1> QED BY <1>2, <1>4, <1>9, WorkKeeps

LEMMA CreateDirKeeps ==
  ASSUME TraceInv, AtWork, NEW p \in PathSet, CreateDir(p)
  PROVE  TraceInv'
<1>q. files \in Snapshots /\ TreeClosed
  BY DEF TraceInv, TraceTypes
<1> DEFINE e == Event("create-dir", p)
           entry == [type |-> "dir", value |-> 0]
<1>1. ~Exists(p) /\ MayCreate(p) /\ Touch(e, Added(files, p, entry))
  BY DEF CreateDir, MayCreate
<1>2. e \in Operations /\ e.path = p /\ e.kind = "create-dir"
  BY EventIs DEF Kinds
<1>3. /\ Parent(p) \in Tree(files) /\ (Len(p) > 1 => Parent(p) \in DOMAIN files /\ files[Parent(p)].type = "dir")
      /\ Parent(p) # p /\ (Parent(p) \in DOMAIN files => files[Parent(p)].type = "dir")
  BY <1>1, <1>q, ParentsThere
<1>e. entry \in FileEntries
  BY EntriesAre
<1> HIDE DEF e, entry
<1>4. Worked({e}) /\ files' = Added(files, p, entry)
  BY <1>1, <1>2, <1>3, Touched
<1>5. /\ files' \in Snapshots /\ DOMAIN files' = DOMAIN files \cup {p} /\ files'[p] = entry
      /\ (\A q \in DOMAIN files \ {p} : files'[q].type = files[q].type)
      /\ \A r : Kept(files, files', r, {p})
  <2> DEFINE g == Added(files, p, entry)
  <2>1. /\ g \in Snapshots /\ DOMAIN g = DOMAIN files \cup {p} /\ g[p] = entry
        /\ (\A q \in DOMAIN files \ {p} : g[q].type = files[q].type)
        /\ \A r : Kept(files, g, r, {p})
    <3>1. files \in Snapshots /\ entry \in FileEntries /\ Parent(p) # p
          /\ (Parent(p) \in DOMAIN files => files[Parent(p)].type = "dir")
      BY <1>q, <1>e, <1>3
    <3> QED BY <3>1, AddedIs
  <2>2. files' = g
    BY <1>4
  <2> HIDE DEF g
  <2> QED BY <2>1, <2>2
<1>6. TreeClosed'
  BY <1>1, <1>3, <1>5, <1>q DEF TreeClosed, Exists
<1>7. Tree(files') \subseteq Tree(files) \/ \E x \in {e} : x.kind = "create-dir"
  BY <1>2
<1>9. Altered({e})
  <2>1. {x.path : x \in {e}} = {p}
    BY <1>2
  <2>2. \A r : Kept(files, files', r, {x.path : x \in {e}})
    BY <2>1, <1>5, KeptOf
  <2> QED BY <1>5, <1>6, <1>7, <2>2 DEF Altered
<1> QED BY <1>2, <1>4, <1>9, WorkKeeps

LEMMA WriteFileKeeps ==
  ASSUME TraceInv, AtWork, NEW p \in PathSet, WriteFile(p)
  PROVE  TraceInv'
<1>q. files \in Snapshots /\ TreeClosed
  BY DEF TraceInv, TraceTypes
<1> DEFINE e == Event("write", p)
<1>1. p \in DOMAIN files /\ files[p].type = "file" /\ Touch(e, With(files, p, [type |-> "file", value |-> 1]))
  BY DEF WriteFile, IsFile, Exists
<1>2. e \in Operations /\ e.path = p
  BY EventIs DEF Kinds
<1>3. Parent(p) \in Tree(files) /\ Parent(p) # p
  BY <1>1, <1>q, ParentsThere
<1> HIDE DEF e
<1>4. Worked({e}) /\ files' = With(files, p, [type |-> "file", value |-> 1])
  BY <1>1, <1>2, <1>3, Touched
<1>5. /\ files' \in Snapshots /\ DOMAIN files' = DOMAIN files /\ files'[p].type = "file"
      /\ (\A q \in DOMAIN files \ {p} : files'[q] = files[q])
      /\ \A r : Kept(files, files', r, {p})
  <2> DEFINE entry == [type |-> "file", value |-> 1]
  <2>1. entry \in FileEntries /\ entry.type = "file"
    BY EntriesAre
  <2>2. files' = With(files, p, entry)
    BY <1>4
  <2> HIDE DEF entry
  <2>3. /\ files' \in Snapshots /\ DOMAIN files' = DOMAIN files \cup {p} /\ files'[p] = entry
        /\ \A q \in DOMAIN files \ {p} : files'[q] = files[q]
    BY <2>1, <2>2, <1>q, WithIs
  <2>4. DOMAIN files' = DOMAIN files
    BY <2>3, <1>1
  <2>5. \A r : Kept(files, files', r, {p})
    BY <2>3, <2>4 DEF Kept, Same
  <2> QED BY <2>1, <2>3, <2>4, <2>5
<1>6. TreeClosed'
  <2>1. \A q \in DOMAIN files : Len(q) > 1 => Parent(q) # p
    BY <1>1, <1>q DEF TreeClosed
  <2> QED BY <2>1, <1>1, <1>3, <1>5, <1>q DEF TreeClosed
<1>7. Tree(files') \subseteq Tree(files)
  BY <1>1, <1>5 DEF Tree
<1>9. Altered({e})
  <2>1. {x.path : x \in {e}} = {p}
    BY <1>2
  <2>2. \A r : Kept(files, files', r, {x.path : x \in {e}})
    BY <2>1, <1>5, KeptOf
  <2> QED BY <1>5, <1>6, <1>7, <2>2 DEF Altered
<1> QED BY <1>2, <1>4, <1>9, WorkKeeps

LEMMA DeleteFileKeeps ==
  ASSUME TraceInv, AtWork, NEW p \in PathSet, DeleteFile(p)
  PROVE  TraceInv'
<1>q. files \in Snapshots /\ TreeClosed
  BY DEF TraceInv, TraceTypes
<1> DEFINE e == Event("delete", p)
<1>1. p \in DOMAIN files /\ files[p].type = "file" /\ Touch(e, Removed(files, p))
  BY DEF DeleteFile, IsFile, Exists
<1>2. e \in Operations /\ e.path = p
  BY EventIs DEF Kinds
<1>3. Parent(p) \in Tree(files) /\ Parent(p) # p /\ (Parent(p) \in DOMAIN files => files[Parent(p)].type = "dir")
  BY <1>1, <1>q, ParentsThere
<1> HIDE DEF e
<1>4. Worked({e}) /\ files' = Removed(files, p)
  BY <1>1, <1>2, <1>3, Touched
<1>5. /\ files' \in Snapshots /\ DOMAIN files' = DOMAIN files \ {p}
      /\ (\A q \in DOMAIN files \ {p} : files'[q].type = files[q].type)
      /\ \A r : Kept(files, files', r, {p})
  BY <1>3, <1>4, <1>q, RemovedIs
<1>6. TreeClosed'
  <2>1. \A q \in DOMAIN files : Len(q) > 1 => Parent(q) # p
    BY <1>1, <1>q DEF TreeClosed
  <2> QED BY <2>1, <1>1, <1>3, <1>5, <1>q DEF TreeClosed
<1>7. Tree(files') \subseteq Tree(files)
  BY <1>1, <1>5 DEF Tree
<1>9. Altered({e})
  <2>1. {x.path : x \in {e}} = {p}
    BY <1>2
  <2>2. \A r : Kept(files, files', r, {x.path : x \in {e}})
    BY <2>1, <1>5, KeptOf
  <2> QED BY <1>5, <1>6, <1>7, <2>2 DEF Altered
<1> QED BY <1>2, <1>4, <1>9, WorkKeeps

LEMMA RenameFileKeeps ==
  ASSUME TraceInv, AtWork, NEW p \in PathSet, NEW q \in PathSet, RenameFile(p, q)
  PROVE  TraceInv'
<1>q. files \in Snapshots /\ TreeClosed
  BY DEF TraceInv, TraceTypes
<1> DEFINE d == Event("rename", p)
           e == Event("rename", q)
           between == Removed(files, p)
           entry == files[p]
<1>1. /\ p \in DOMAIN files /\ files[p].type = "file" /\ q \notin DOMAIN files /\ MayCreate(q)
      /\ TouchTwice(d, e, Added(between, q, entry))
  BY DEF RenameFile, IsFile, Exists, MayCreate
<1>2. d \in Operations /\ d.path = p /\ e \in Operations /\ e.path = q
  BY EventIs DEF Kinds
<1>p. Parent(p) \in Tree(files) /\ Parent(p) # p /\ (Parent(p) \in DOMAIN files => files[Parent(p)].type = "dir")
  BY <1>1, <1>q, ParentsThere
<1>3. /\ Parent(q) \in Tree(files) /\ Parent(q) # q /\ (Parent(q) \in DOMAIN files => files[Parent(q)].type = "dir")
      /\ (Len(q) > 1 => Parent(q) \in DOMAIN files /\ files[Parent(q)].type = "dir")
  BY <1>1, <1>q, ParentsThere
<1>b. /\ between \in Snapshots /\ DOMAIN between = DOMAIN files \ {p}
      /\ (\A r \in DOMAIN files \ {p} : between[r].type = files[r].type)
      /\ \A r : Kept(files, between, r, {p})
  BY <1>p, <1>q, RemovedIs
<1>e. entry \in FileEntries /\ entry.type = "file"
  BY <1>1, <1>q, SnapshotIs
<1> HIDE DEF d, e, between, entry
<1>4. Worked({d, e}) /\ files' = Added(between, q, entry)
  BY <1>1, <1>2, <1>3, <1>p, TouchedTwice
<1>5. /\ files' \in Snapshots /\ DOMAIN files' = (DOMAIN files \ {p}) \cup {q} /\ files'[q].type = "file"
      /\ (\A r \in DOMAIN files \ {p} : r # q => files'[r].type = files[r].type)
      /\ \A r : Kept(files, files', r, {p} \cup {q})
  <2>0. Parent(q) \in DOMAIN between => between[Parent(q)].type = "dir"
    BY <1>3, <1>b
  <2>1. /\ files' \in Snapshots /\ DOMAIN files' = DOMAIN between \cup {q} /\ files'[q] = entry
        /\ (\A r \in DOMAIN between \ {q} : files'[r].type = between[r].type)
        /\ \A r : Kept(between, files', r, {q})
    <3> DEFINE g == Added(between, q, entry)
    <3>1. /\ g \in Snapshots /\ DOMAIN g = DOMAIN between \cup {q} /\ g[q] = entry
          /\ (\A r \in DOMAIN between \ {q} : g[r].type = between[r].type)
          /\ \A r : Kept(between, g, r, {q})
      BY <1>b, <1>e, <1>3, <2>0, AddedIs
    <3>2. files' = g
      BY <1>4
    <3> HIDE DEF g
    <3> QED BY <3>1, <3>2
  <2>2. \A r : Kept(files, files', r, {p} \cup {q})
    BY <2>1, <1>b, KeptOn, Zenon
  <2>3. /\ DOMAIN files' = (DOMAIN files \ {p}) \cup {q} /\ files'[q].type = "file"
        /\ \A r \in DOMAIN files \ {p} : r # q => files'[r].type = files[r].type
    BY <2>1, <1>b, <1>e
  <2> QED BY <2>1, <2>2, <2>3
<1>6. TreeClosed'
  <2>1. \A r \in DOMAIN files : Len(r) > 1 => Parent(r) # p /\ Parent(r) # q
    BY <1>1, <1>q DEF TreeClosed
  <2>2. Len(q) > 1 => Parent(q) # p
    BY <1>1, <1>3
  <2> QED BY <2>1, <2>2, <1>1, <1>3, <1>5, <1>q DEF TreeClosed
<1>7. Tree(files') \subseteq Tree(files)
  BY <1>1, <1>5 DEF Tree
<1>9. Altered({d, e})
  <2>1. {x.path : x \in {d, e}} = {p} \cup {q}
    BY <1>2
  <2>2. \A r : Kept(files, files', r, {x.path : x \in {d, e}})
    BY <2>1, <1>5, KeptOf
  <2> QED BY <1>5, <1>6, <1>7, <2>2 DEF Altered
<1> QED BY <1>2, <1>4, <1>9, WorkKeeps

LEMMA DeleteDirKeeps ==
  ASSUME TraceInv, AtWork, NEW p \in PathSet, DeleteDir(p)
  PROVE  TraceInv'
<1>q. files \in Snapshots /\ TreeClosed
  BY DEF TraceInv, TraceTypes
<1> DEFINE d == Event("self", p)
           e == Event("delete", p)
<1>1. /\ p \in DOMAIN files /\ \A q \in DOMAIN files : Parent(q) # p
      /\ TouchTwice(d, e, Removed(files, p)) \/ Touch(e, Removed(files, p))
  BY DEF DeleteDir, Exists
<1>2. d \in Operations /\ d.path = p /\ e \in Operations /\ e.path = p
  BY EventIs DEF Kinds
<1>3. Parent(p) \in Tree(files) /\ Parent(p) # p /\ (Parent(p) \in DOMAIN files => files[Parent(p)].type = "dir")
  BY <1>1, <1>q, ParentsThere
<1> HIDE DEF d, e
<1>4. PICK E \in {{e}, {d, e}} : Worked(E) /\ files' = Removed(files, p)
  <2>1. CASE Touch(e, Removed(files, p))
    BY <2>1, <1>2, <1>3, Touched
  <2>2. CASE TouchTwice(d, e, Removed(files, p))
    BY <2>2, <1>2, <1>3, TouchedTwice
  <2> QED BY <2>1, <2>2, <1>1
<1>5. /\ files' \in Snapshots /\ DOMAIN files' = DOMAIN files \ {p}
      /\ (\A q \in DOMAIN files \ {p} : files'[q].type = files[q].type)
      /\ \A r : Kept(files, files', r, {p})
  BY <1>3, <1>4, <1>q, RemovedIs
<1>6. TreeClosed'
  BY <1>1, <1>5, <1>q DEF TreeClosed
<1>7. Tree(files') \subseteq Tree(files)
  BY <1>5 DEF Tree
<1>9. Altered(E) /\ E \in SUBSET Operations
  <2>1. {x.path : x \in E} = {p} /\ E \in SUBSET Operations
    BY <1>2, <1>4
  <2>2. \A r : Kept(files, files', r, {x.path : x \in E})
    BY <2>1, <1>5, KeptOf
  <2> QED BY <1>5, <1>6, <1>7, <2>1, <2>2 DEF Altered
<1> QED BY <1>4, <1>9, WorkKeeps


LEMMA WorkloadWritesKeeps ==
  ASSUME TraceInv, WorkloadWrites
  PROVE  TraceInv'
<1>1. AtWork
  BY DEF WorkloadWrites, AtWork, observed
<1>2. Paths \subseteq PathSet
  BY FilesAssumption DEF PathSet, Names
<1>3. PICK p \in Paths : \/ CreateFile(p) \/ CreateDir(p) \/ WriteFile(p) \/ DeleteFile(p) \/ DeleteDir(p)
                         \/ \E q \in Paths : RenameFile(p, q)
  BY DEF WorkloadWrites
<1>4. p \in PathSet
  BY <1>2
<1>5. (\E q \in Paths : RenameFile(p, q)) => \E q \in PathSet : RenameFile(p, q)
  BY <1>2
<1> QED BY <1>1, <1>3, <1>4, <1>5, CreateFileKeeps, CreateDirKeeps, WriteFileKeeps, DeleteFileKeeps,
           DeleteDirKeeps, RenameFileKeeps


-----------------------------------------------------------------------------
(* The invariant and what follows from it. *)

LEMMA TraceInvInit == TraceInit => TraceInv
<1> SUFFICES ASSUME TraceInit
             PROVE  TraceInv
  OBVIOUS
<1>0. /\ mode \in Modes /\ ctl = [InitialActivity EXCEPT !.pc = "preflight"] /\ cmp = InitialComparison
      /\ filesystem = InitialFilesystemState /\ engine = InitialEngineDiffState /\ resource = InitialResourceState
      /\ control = [queue |-> <<>>, closed |-> FALSE] /\ stream = NewStream(2, FALSE, 2)
      /\ helper = [StartedHelper EXCEPT !.state = "none"] /\ kernel = <<>> /\ files = InitialFiles
      /\ cgroup = [limits |-> TRUE, events |-> 0, usage |-> 0]
      /\ work = [running |-> FALSE, stray |-> FALSE] /\ writes = <<>>
  BY DEF TraceInit, TraceAt
<1>1. /\ ctl \in ControllerStates /\ ctl.pc = "preflight" /\ ctl.step = 1 /\ ~ctl.session /\ ctl.windowSequence = 0
      /\ ~ctl.finalReady /\ ~ctl.phaseSignalsComplete /\ ctl.result = NoResult /\ ctl.failure = "" /\ ~ctl.broken
  <2>1. ctl = [InitialActivity EXCEPT !.pc = "preflight"]
    BY <1>0
  <2>2. NoResult \in TraceFrames \cup {NoResult}
    OBVIOUS
  <2> QED BY <2>1, <2>2 DEF InitialActivity, ControllerStates, Stages, Early, TraceFailures
<1>2. cmp \in ComparisonStates /\ cmp.preChecks = 0 /\ cmp.confirmedDispatches = 0 /\ cmp.failure = ""
  BY <1>0 DEF InitialComparison, ComparisonStates
<1>3. filesystem \in FilesystemStates /\ ~filesystem.baselineReady /\ ~filesystem.finalReady
  <2>1. NoSnapshot \in Snapshots
    <3>1. NoSnapshot \in [{} -> FileEntries]
      BY DEF NoSnapshot
    <3> QED BY <3>1 DEF Snapshots
  <2> QED BY <2>1, <1>0 DEF InitialFilesystemState, FilesystemStates
<1>4. engine \in EngineStates
  BY <1>0 DEF InitialEngineDiffState, EngineStates
<1>5. /\ cgroup \in ResourceSnapshot /\ cgroup.events = 0 /\ cgroup.limits
  BY <1>0 DEF ResourceSnapshot
<1>6. resource \in ResourceStates /\ ~resource.activeReady /\ ~resource.finalReady
  <2>1. [limits |-> TRUE, events |-> 0, usage |-> 0] \in ResourceSnapshot
    BY DEF ResourceSnapshot
  <2> QED BY <2>1, <1>0 DEF InitialResourceState, ResourceStates
<1>z. \A S : <<>> \in Seq(S) /\ DOMAIN <<>> = {} /\ Len(<<>>) = 0
  OBVIOUS
<1>7. control \in [queue : Seq(Commands), closed : BOOLEAN] /\ control.queue = <<>> /\ ~control.closed
  BY <1>0, <1>z
<1>8. stream \in StreamStates(TraceFrames) /\ stream.events = <<>>
  BY <1>0, NewStreamIs
<1>9. /\ helper \in HelperStates /\ helper.state = "none" /\ helper.watched = {} /\ helper.seen = <<>>
      /\ helper.failure = "" /\ helper.batch = <<>> /\ helper.rules = {} /\ helper.windows = 0
  BY <1>0, <1>z DEF StartedHelper, HelperStates, PhaseSet, HelperFailures
<1>10. files \in Snapshots /\ TreeClosed
  <2>1. DOMAIN InitialFiles \in SUBSET PathSet
    BY FilesAssumption DEF PathSet, Names
  <2>2. InitialFiles \in [DOMAIN InitialFiles -> FileEntries]
    BY FilesAssumption DEF FileEntries
  <2>3. InitialFiles \in Snapshots
    BY <2>1, <2>2 DEF Snapshots
  <2>4. TreeClosed
    BY <1>0, FilesAssumption DEF TreeClosed
  <2> QED BY <2>3, <2>4, <1>0
<1>11. TraceTypes
  BY <1>0, <1>1, <1>2, <1>3, <1>4, <1>5, <1>6, <1>7, <1>8, <1>9, <1>10, <1>z DEF TraceTypes
<1>n. Len(Steps) \in Nat /\ WindowLimit \in Nat /\ NotificationLimit \in Nat /\ QueueLimit \in Nat
  BY TraceAssumption
<1>m. ChannelSize \in Nat
  BY ChannelSizeAssumption
<1>12. Progress
  <2>1. \A a, b \in Nat : a = 1 => a >= 1 /\ a <= b + 1
    OBVIOUS
  <2>2. ctl.step >= 1 /\ ctl.step <= Len(Steps) + 1
    BY <1>1, <1>n, <2>1
  <2>3. Quiet /\ ~work.running
    BY <1>0 DEF Quiet
  <2>4. /\ ctl.pc \in Early
        /\ ctl.pc \notin {"pre", "dispatch", "running", "post"} /\ ctl.pc # "awaitAck" /\ ctl.pc # "readyIdentity"
    BY <1>1 DEF Early
  <2>5. writes = <<>>
    BY <1>0
  <2>6. /\ ctl.pc \in Early =>
             writes = <<>> /\ Quiet /\ ctl.step = 1 /\ ~ctl.broken /\ ~ctl.phaseSignalsComplete
        /\ ctl.pc \in {"preflight", "start"} =>
             helper.state = "none" /\ control.queue = <<>> /\ ~control.closed
    BY <2>3, <2>5, <1>1, <1>7, <1>9
  <2>7. ctl.pc \in {"dispatch", "running"} => ~ctl.broken
    BY <1>1
  <2>8. /\ ctl.finalReady => ctl.pc \in {"finalIdentity", "retained", "engine", "resources", "done"}
        /\ (Good /\ ctl.pc \notin Early) \/ ctl.pc = "readyIdentity" => ctl.session
    BY <1>1, <2>4
  <2> QED BY <2>2, <2>3, <2>4, <2>6, <2>7, <2>8 DEF Progress
<1>13. HelperStaged /\ Commanded
  BY <1>0, <1>7, <1>8, <1>9, <1>z DEF HelperStaged, Started, Commanded, Live, Working
<1>14. Exchange
  <2>1. /\ ctl.pc \notin Talking /\ ctl.pc \notin Late \cup {"done"} /\ ctl.pc \in {"preflight", "start", "awaitReady"}
    BY <1>1 DEF Talking, Late
  <2>2. \A n : n = 0 => n <= 1
    OBVIOUS
  <2>3. Len(control.queue) <= 1 /\ Len(stream.events) <= 1
    BY <1>7, <1>8, <1>z, <2>2
  <2> QED BY <2>1, <2>3, <1>7, <1>8 DEF Exchange
<1>15. Whole /\ Compared /\ Granted
  <2>1. ~Live
    BY <1>9 DEF Live, Working
  <2>2. DOMAIN writes = {}
    BY <1>0, <1>z
  <2> QED BY <2>1, <2>2, <1>0, <1>1 DEF Whole, Compared, Granted
<1>16. Changed /\ Limits
  <2>1. Changed
    BY <1>3 DEF Changed
  <2>2. ~(cgroup.events > 0)
    BY <1>5
  <2> QED BY <2>1, <2>2, <1>1, <1>5, <1>6 DEF Limits
<1>17. Testimony
  <2>1. \A f : f = NoResult => Testified(f)
    BY TraceFrameTypes DEF Testified
  <2>2. Testified(ctl.result)
    BY <2>1, <1>1
  <2>3. DOMAIN stream.events = {}
    BY <1>8, <1>z
  <2> QED BY <2>2, <2>3, <1>1 DEF Testimony
<1>18. Bounds
  <2>1. Len(helper.seen) = 0 /\ Len(kernel) = 0 /\ Len(stream.events) = 0
    BY <1>0, <1>8, <1>9, <1>z
  <2>2. /\ \A a, b \in Nat : a = 0 => a <= b /\ a <= b + 1
        /\ \A a, b \in Nat : a = 0 /\ b = 1 => a < b
    OBVIOUS
  <2>3. /\ ctl.step \in Nat /\ ctl.windowSequence \in Nat /\ helper.windows \in Nat
        /\ cmp.preChecks \in Nat /\ cmp.confirmedDispatches \in Nat
    BY <1>1, <1>2, <1>9 DEF ControllerStates, ComparisonStates, HelperStates
  <2>4. 0 \in Nat
    OBVIOUS
  <2>5. /\ ctl.windowSequence <= WindowLimit /\ helper.windows <= WindowLimit
        /\ cmp.preChecks <= Len(Steps) /\ cmp.preChecks <= ctl.step
        /\ cmp.confirmedDispatches <= Len(Steps) /\ cmp.confirmedDispatches <= ctl.step
        /\ cmp.preChecks < ctl.step /\ cmp.confirmedDispatches < ctl.step
    BY <2>2, <2>3, <1>1, <1>2, <1>9, <1>n, Zenon
  <2>6. /\ Len(helper.seen) <= NotificationLimit /\ Len(helper.seen) <= NotificationLimit + 1
        /\ Len(kernel) <= QueueLimit /\ Len(stream.events) <= ChannelSize
    BY <2>1, <2>2, <2>4, <1>n, <1>m, Zenon
  <2> QED BY <2>5, <2>6, Zenon DEF Bounds
<1> QED BY <1>10, <1>11, <1>12, <1>13, <1>14, <1>15, <1>16, <1>17, <1>18 DEF TraceInv

LEMMA TraceInvStutters ==
  ASSUME TraceInv, UNCHANGED traceVars
  PROVE  TraceInv'
<1>1. /\ UNCHANGED mode /\ UNCHANGED ctl /\ UNCHANGED cmp /\ UNCHANGED filesystem /\ UNCHANGED engine /\ UNCHANGED resource
      /\ UNCHANGED control /\ UNCHANGED stream /\ UNCHANGED helper /\ UNCHANGED kernel /\ UNCHANGED files
      /\ UNCHANGED cgroup /\ UNCHANGED work /\ UNCHANGED writes
  BY DEF traceVars
<1>2. HelperLeaves
  BY <1>1 DEF HelperLeaves
<1>q. /\ TraceTypes /\ Progress /\ HelperStaged /\ Commanded /\ Exchange /\ TreeClosed /\ Whole
      /\ Compared /\ Granted /\ Changed /\ Testimony /\ Limits /\ Bounds
  BY DEF TraceInv
<1>f. /\ (Python' <=> Python) /\ (Good' <=> Good) /\ (Clean' <=> Clean) /\ Written' = Written /\ Tree(files)' = Tree(files)
      /\ (TreeClosed' <=> TreeClosed) /\ (\A phase : RulesOf(phase)' = RulesOf(phase)) /\ CurrentPhase' = CurrentPhase
      /\ PhaseCommand' = PhaseCommand /\ (\A w : Allowed(w)' <=> Allowed(w))
      /\ (Granted' <=> Granted) /\ (Changed' <=> Changed) /\ (Limits' <=> Limits) /\ (eligible' <=> eligible)
  BY <1>2, HelperFrame
<1>3. (Live' <=> Live) /\ (Started' <=> Started) /\ (Poisoned' <=> Poisoned) /\ Heard' = Heard
      /\ PathsOf(helper.seen)' = PathsOf(helper.seen)
  BY <1>1 DEF Live, Working, Started, Poisoned, Heard, PathsOf
<1>4. \A w : (Recorded(w)' <=> Recorded(w)) /\ (Waits(w)' <=> Waits(w))
  BY <1>1, <1>f DEF Recorded, Waits, PathsOf
<1>5. TraceTypes' /\ Bounds'
  BY <1>1, <1>q DEF TraceTypes, Bounds
<1>6. Progress'
  BY <1>1, <1>f, <1>q DEF Progress, Quiet
<1>7. HelperStaged' /\ Commanded' /\ Exchange'
  BY <1>1, <1>3, <1>f, <1>q DEF HelperStaged, Commanded, Exchange
<1>8. Whole' /\ Compared'
  BY <1>1, <1>3, <1>4, <1>f, <1>q DEF Whole, Compared
<1>9. Testimony'
  <2>1. \A f : Testified(f) => Testified(f)'
    BY <1>1, <1>3, <1>4, <1>f DEF Testified
  <2>2. \A f : f = ctl.result => Testified(f)'
    BY <2>1, <1>q DEF Testimony
  <2>3. \A f : ctl' = ctl /\ f = ctl.result /\ Testified(f)' => Testified(ctl.result)'
    BY DEF Testified
  <2>4. Testified(ctl.result)'
    BY <2>2, <2>3, <1>1
  <2> QED BY <2>1, <2>4, <1>q, <1>1 DEF Testimony
<1> QED BY <1>5, <1>6, <1>7, <1>8, <1>9, <1>f, <1>q DEF TraceInv

LEMMA TraceInvNext == TraceInv /\ [TraceNext]_traceVars => TraceInv'
<1> SUFFICES ASSUME TraceInv, [TraceNext]_traceVars
             PROVE  TraceInv'
  OBVIOUS
<1>1. CASE ControllerNext
  <2>1. CASE AbortGivesUp
    BY <2>1, AbortGivesUpKeeps
  <2>2. CASE ControllerStep
    <3>1. CASE \E a, b, c, d, e \in BOOLEAN : Preflight(a, b, c, d, e)
      BY <3>1, PreflightKeeps
    <3>2. CASE \E a, b, c, d \in BOOLEAN : Return(a, b, c, d)
      BY <3>2, ReturnKeeps
    <3>3. CASE \E a, b \in BOOLEAN : StartTrace(a, b) \/ StopTrace(a, b) \/ FinalFiles(a, b)
                                       \/ FinalEngineDiff(a, b) \/ FinalCounters(a, b)
      BY <3>3, StartTraceKeeps, StopTraceKeeps, FinalFilesKeeps, FinalEngineDiffKeeps, FinalCountersKeeps
    <3>4. CASE \E a \in BOOLEAN : \/ ReadyIdentity(a) \/ PreCheck(a) \/ MarkPhase(a) \/ PostCheck(a) \/ Quiesce(a)
                                  \/ FinalIdentity(a) \/ AwaitReady(a) \/ AwaitAck(a) \/ AwaitFinal(a) \/ AwaitExit(a)
      BY <3>4, ReadyIdentityKeeps, PreCheckKeeps, MarkPhaseKeeps, PostCheckKeeps, QuiesceKeeps, FinalIdentityKeeps,
         AwaitReadyKeeps, AwaitAckKeeps, AwaitFinalKeeps, AwaitExitKeeps
    <3>5. CASE Dispatch
      BY <3>5, DispatchKeeps
    <3> QED BY <2>2, <3>1, <3>2, <3>3, <3>4, <3>5 DEF ControllerStep
  <2> QED BY <1>1, <2>1, <2>2 DEF ControllerNext
<1>2. CASE HelperNext
  <2>1. CASE \E a \in BOOLEAN : HelperStart(a)
    BY <2>1, HelperStartKeeps
  <2>2. CASE HelperSelect \/ HelperRead \/ HelperRecord \/ HelperControl \/ NodeNotification \/ NodeCommand
    BY <2>2, HelperSelectKeeps, HelperReadKeeps, HelperRecordKeeps, HelperControlKeeps, NodeNotificationKeeps, NodeCommandKeeps
  <2> QED BY <1>2, <2>1, <2>2 DEF HelperNext
<1>3. CASE WorkloadNext
  BY <1>3, WorkloadWritesKeeps DEF WorkloadNext
<1>4. CASE HelperCrash
  BY <1>4, HelperCrashKeeps
<1>5. CASE UNCHANGED traceVars
  BY <1>5, TraceInvStutters
<1> QED BY <1>1, <1>2, <1>3, <1>4, <1>5 DEF TraceNext

LEMMA TraceInvariant == TraceSpec => []TraceInv
<1>1. TraceInit => TraceInv
  BY TraceInvInit
<1>2. TraceInv /\ [TraceNext]_traceVars => TraceInv'
  BY TraceInvNext
<1> QED BY <1>1, <1>2, PTL DEF TraceSpec

\* The type invariant of the activity trace: the queues, the stream of frames,
\* the windows and the counts of the comparison stay within their limits
\* however the controller, the helper and the workload interleave.
THEOREM TraceTypes_ok == TraceSpec => []TraceTypeOK
<1>1. TraceInv => TraceTypeOK
  <2> SUFFICES ASSUME TraceInv
               PROVE  TraceTypeOK
    OBVIOUS
  <2>1. TraceTypes /\ Progress /\ Bounds
    BY DEF TraceInv
  <2>2. /\ mode \in Modes /\ ctl.step \in Nat /\ ctl.windowSequence \in Nat /\ helper.windows \in Nat
        /\ cmp.preChecks \in Nat /\ cmp.confirmedDispatches \in Nat
        /\ resource.errors \subseteq {"OBSERVER_INCOMPLETE", "RESOURCE_LIMIT_EXCEEDED"}
        /\ kernel \in Seq(Events)
    BY <2>1 DEF TraceTypes, ControllerStates, HelperStates, ComparisonStates, ResourceStates
  <2>3. Len(Steps) \in Nat /\ WindowLimit \in Nat /\ NotificationLimit \in Nat /\ QueueLimit \in Nat
    BY TraceAssumption
  <2>4. /\ \A a, b \in Nat : a <= b => a \in 0..b
        /\ \A a, b \in Nat : a >= 1 /\ a <= b + 1 => a \in 1..(b + 1)
    OBVIOUS
  <2>5. /\ ctl.step \in 1..(Len(Steps) + 1) /\ ctl.windowSequence \in 0..WindowLimit
        /\ helper.windows \in 0..WindowLimit /\ cmp.preChecks \in 0..Len(Steps)
        /\ cmp.confirmedDispatches \in 0..Len(Steps)
    BY <2>1, <2>2, <2>3, <2>4 DEF Progress, Bounds
  <2>6. Len(kernel) <= QueueLimit + 1
    <3>1. Len(kernel) \in Nat
      BY <2>2, LengthIs
    <3>2. Len(kernel) <= QueueLimit \/ Len(kernel) = QueueLimit + 1
      BY <2>1 DEF Bounds
    <3>3. \A a, b \in Nat : a <= b \/ a = b + 1 => a <= b + 1
      OBVIOUS
    <3> QED BY <3>1, <3>2, <3>3, <2>3, Zenon
  <2> QED BY <2>1, <2>2, <2>5, <2>6 DEF TraceTypeOK, Bounds
<1> QED BY <1>1, TraceInvariant, PTL

LEMMA SeenPaths ==
  ASSUME helper \in HelperStates
  PROVE  PathsOf(helper.seen) = {helper.seen[i].path : i \in 1..Len(helper.seen)}
<1>1. DOMAIN helper.seen = 1..Len(helper.seen)
  BY DEF HelperStates
<1> QED BY <1>1 DEF PathsOf

LEMMA Finals ==
  ASSUME TraceInv, Done, ctl.failure = "", ctl.phaseSignalsComplete, ctl.finalReady, ctl.result.failure = "" \/ ctl.result.type = "final"
  PROVE  /\ Good /\ Testified(ctl.result) /\ ctl.result.type = "final" /\ ctl.result.ok
<1>1. Testimony
  BY DEF TraceInv
<1>2. Testified(ctl.result) /\ (ctl.result.type = "failed" \/ (ctl.result.type = "final" /\ ctl.result.ok))
  BY <1>1 DEF Testimony
<1>3. ctl.result.type # "failed"
  BY <1>2 DEF Testified
<1> QED BY <1>2, <1>3 DEF Good

\* A Python trace published as observed counted exactly the paths that were
\* written while the workload ran, for any commands, limits and schedules.
THEOREM TracesAreWhole == TraceSpec => []TraceIsWhole
<1>1. TraceInv => TraceIsWhole
  <2> SUFFICES ASSUME TraceInv, Done, traceObserved, mode # "node"
               PROVE  {helper.seen[i].path : i \in 1..Len(helper.seen)} = Written
    BY DEF TraceIsWhole
  <2>1. ctl.failure = "" /\ ctl.result.failure = "" /\ ctl.finalReady /\ ctl.phaseSignalsComplete
    BY DEF traceObserved
  <2>2. Good /\ Testified(ctl.result) /\ ctl.result.type = "final" /\ ctl.result.ok
    BY <2>1, Finals
  <2>3. Written = PathsOf(helper.seen)
    BY <2>2 DEF Testified, Python
  <2>4. helper \in HelperStates
    BY DEF TraceInv, TraceTypes
  <2> QED BY <2>3, <2>4, SeenPaths
<1> QED BY <1>1, TraceInvariant, PTL

LEMMA ClearMeansAllowed ==
  ASSUME TraceInv, Done, comparisonResult = "no-undeclared-observed"
  PROVE  Clean /\ \A i \in DOMAIN writes : Allowed(writes[i])
<1>1. comparisonComplete /\ ctl.result.comparisonResult = "no-undeclared-observed"
  BY DEF comparisonResult
<1>2. /\ eligible /\ cmp.failure = "" /\ ctl.failure = "" /\ ctl.finalReady /\ ctl.phaseSignalsComplete
      /\ ctl.result.type = "final"
  BY <1>1 DEF comparisonComplete
<1>3. Good /\ Testified(ctl.result) /\ ctl.result.type = "final" /\ ctl.result.ok
  BY <1>2, Finals
<1>4. Clean /\ Python
  BY <1>2, <1>3 DEF Clean, Python, eligible
<1>5. /\ \A i \in DOMAIN helper.seen : helper.seen[i].matched
      /\ \A i \in DOMAIN writes : Recorded(writes[i])
  BY <1>1, <1>3, <1>4 DEF Testified
<1>6. \A w : Recorded(w) => Allowed(w)
  BY <1>5 DEF Recorded
<1> QED BY <1>4, <1>5, <1>6

\* A run that publishes "no undeclared operations observed" had no write, by
\* any process, that the rules of the phase dispatched at that time did not
\* allow.
THEOREM ClearsAreSound == TraceSpec => []ClearIsSound
<1>1. TraceInv => ClearIsSound
  <2> SUFFICES ASSUME TraceInv, Done, comparisonResult = "no-undeclared-observed", NEW i \in 1..Len(writes)
               PROVE  /\ writes[i].step <= Len(Steps)
                      /\ \E r \in RulesOf(Steps[writes[i].step]) : PatternMatches(r, writes[i].path)
    BY DEF ClearIsSound
  <2>1. writes \in Seq([step : Nat, path : PathSet])
    BY DEF TraceInv, TraceTypes
  <2>2. i \in DOMAIN writes
    BY <2>1
  <2>3. \A w : Allowed(w) => w.step <= Len(Steps) /\ \E r \in RulesOf(Steps[w.step]) : PatternMatches(r, w.path)
    BY DEF Allowed
  <2>4. Allowed(writes[i])
    BY <2>2, ClearMeansAllowed
  <2> QED BY <2>3, <2>4
<1> QED BY <1>1, TraceInvariant, PTL

LEMMA NotCompared ==
  ASSUME NEW fs,
         fs.ambiguous \/ ~RetainedPrerequisites(fs) \/ ~validateFilesystemChangeBound(fs.baseline, fs.final)
  PROVE  compareFilesystemRetainedState(fs).result = "not-tested"
  BY DEF compareFilesystemRetainedState

LEMMA ComparedClean ==
  ASSUME NEW fs, ~fs.ambiguous, RetainedPrerequisites(fs), validateFilesystemChangeBound(fs.baseline, fs.final),
         ~(Cardinality(UndeclaredChanges(fs)) > 0)
  PROVE  compareFilesystemRetainedState(fs).result = "conforming-retained-state"
<1> DEFINE n == Cardinality(UndeclaredChanges(fs))
<1> DEFINE c == Cardinality(diffFilesystemSnapshots(fs.baseline, fs.final))
<1>1. compareFilesystemRetainedState(fs) =
        [result |-> IF n > 0 THEN "nonconforming-retained-state" ELSE "conforming-retained-state",
         declaredPatternCount |-> Cardinality(fs.patterns), comparedChangeCount |-> c,
         allowedChangeCount |-> c - n, undeclaredChangeCount |-> n]
  BY Zenon DEF compareFilesystemRetainedState
<1> QED BY <1>1

LEMMA Nonconforming ==
  ASSUME NEW fs, filesystemDeclarationFinding(compareFilesystemRetainedState(fs))
  PROVE  ~fs.ambiguous /\ RetainedPrerequisites(fs) /\ Cardinality(UndeclaredChanges(fs)) > 0
<1>1. compareFilesystemRetainedState(fs).result = "nonconforming-retained-state"
  BY DEF filesystemDeclarationFinding
<1>2. ASSUME fs.ambiguous \/ ~RetainedPrerequisites(fs) \/ ~validateFilesystemChangeBound(fs.baseline, fs.final)
      PROVE  compareFilesystemRetainedState(fs).result = "not-tested"
  BY <1>2, NotCompared
<1>3. ASSUME ~(fs.ambiguous \/ ~RetainedPrerequisites(fs) \/ ~validateFilesystemChangeBound(fs.baseline, fs.final)),
             ~(Cardinality(UndeclaredChanges(fs)) > 0)
      PROVE  compareFilesystemRetainedState(fs).result = "conforming-retained-state"
  BY <1>3, ComparedClean
<1> QED BY <1>1, <1>2, <1>3

LEMMA WrittenIsGranted ==
  ASSUME TraceInv, Done, comparisonResult = "no-undeclared-observed", ~filesystem.ambiguous, NEW p \in Written
  PROVE  \E r \in filesystem.patterns : PatternMatches(r, p)
<1>4. Granted /\ writes \in Seq([step : Nat, path : PathSet]) /\ ctl.step \in Nat
  BY DEF TraceInv, TraceTypes, ControllerStates
<1>6. PICK i \in DOMAIN writes : writes[i].path = p
  <2>1. DOMAIN writes = 1..Len(writes)
    BY <1>4
  <2> QED BY <2>1 DEF Written
<1>7. Clean /\ Allowed(writes[i])
  BY <1>6, ClearMeansAllowed
<1>8. writes[i].step <= ctl.step /\ writes[i].step # ctl.step /\ writes[i].step \in Nat
      /\ (writes[i].step < ctl.step => RulesOf(Steps[writes[i].step]) \subseteq filesystem.patterns)
  <2>1. writes[i].step \in Nat
    BY <1>4, <1>6, WriteAt
  <2>2. /\ writes[i].step <= ctl.step
        /\ writes[i].step = ctl.step => ctl.pc \in {"running", "post"}
        /\ writes[i].step < ctl.step /\ ~filesystem.ambiguous =>
             RulesOf(Steps[writes[i].step]) \subseteq filesystem.patterns
    BY <1>4, <1>6, <1>7 DEF Granted
  <2> QED BY <2>1, <2>2 DEF Done
<1>9. writes[i].step < ctl.step
  <2>1. \A a, b \in Nat : a <= b /\ a # b => a < b
    OBVIOUS
  <2> QED BY <2>1, <1>8, <1>4
<1>10. \A w : Allowed(w) => \E r \in RulesOf(Steps[w.step]) : PatternMatches(r, w.path)
  BY DEF Allowed
<1>11. PICK r \in RulesOf(Steps[writes[i].step]) : PatternMatches(r, writes[i].path)
  BY <1>7, <1>10
<1> QED BY <1>11, <1>8, <1>9, <1>6

\* Of what the notifications clear, the retained files convict at most a
\* directory of whose entries one was written.
THEOREM ObserversNeverDisagree == TraceSpec => []ObserversAgree
<1>1. TraceInv => ObserversAgree
  <2> SUFFICES ASSUME TraceInv, Done, comparisonResult = "no-undeclared-observed",
                      filesystemDeclarationFinding(compareFilesystemRetainedState(filesystem)),
                      NEW c \in UndeclaredChanges(filesystem)
               PROVE  /\ c.kind = "modify" /\ c.path \in {Parent(p) : p \in Written}
                      /\ filesystem.final[c.path].type = "dir"
    BY DEF ObserversAgree
  <2> DEFINE f == filesystem.baseline
             g == filesystem.final
             p == c.path
  <2>1. ~filesystem.ambiguous /\ RetainedPrerequisites(filesystem)
    BY Nonconforming
  <2>2. /\ \A r \in filesystem.patterns : ~PatternMatches(r, p)
        /\ ~Same(f, g, p) /\ c.kind = ChangeKind(f, g, p)
    <3>1. c \in diffFilesystemSnapshots(f, g) /\ \A r \in filesystem.patterns : ~PatternMatches(r, p)
      BY DEF UndeclaredChanges
    <3>2. PICK q \in DOMAIN f \cup DOMAIN g :
            ~(q \in DOMAIN f /\ q \in DOMAIN g /\ f[q] = g[q]) /\ c = [path |-> q, kind |-> ChangeKind(f, g, q)]
      BY <3>1 DEF diffFilesystemSnapshots
    <3>3. c.path = q /\ c.kind = ChangeKind(f, g, q)
      BY <3>2
    <3> QED BY <3>1, <3>2, <3>3 DEF Same
  <2>3. p \notin Written
    BY <2>1, <2>2, WrittenIsGranted
  <2>4. Kept(f, g, p, Written)
    BY <2>1 DEF TraceInv, Changed, RetainedPrerequisites
  <2> HIDE DEF f, g, p
  <2>5. p \in {Parent(w) : w \in Written} /\ Directory(f, p) /\ Directory(g, p)
    BY <2>2, <2>3, <2>4 DEF Kept
  <2>6. ChangeKind(f, g, p) = "modify" /\ g[p].type = "dir"
    BY <2>5 DEF ChangeKind, Directory
  <2> QED BY <2>2, <2>5, <2>6 DEF f, g, p
<1> QED BY <1>1, TraceInvariant, PTL

\* A resource limit the workload ran into ends the run with a resource
\* error, and a summary that claims coverage counts every limit event.
THEOREM LimitEventsAlwaysSurface == TraceSpec => []LimitEventsSurface
<1>1. TraceInv => LimitEventsSurface
  BY DEF TraceInv, Limits, LimitEventsSurface, Done, resourceCoverage
<1> QED BY <1>1, TraceInvariant, PTL

=============================================================================

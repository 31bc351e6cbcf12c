----------------------------- MODULE PeerPort -----------------------------
(***************************************************************************)
(* The observer of listening ports (internal/execution/                    *)
(* peer_port_observer.go): a second container in the network namespace of  *)
(* the service samples the kernel's table of listeners.  The controller    *)
(* compares what was sampled with the one listener the plan declares.      *)
(*                                                                         *)
(* Time passes in units.  A sample is not a moment: the helper reads its   *)
(* clock, and some time later the table.                                   *)
(***************************************************************************)
EXTENDS FrameStream, FiniteSets

LOCAL INSTANCE TLC

CONSTANTS
  Endpoints,         \* endpoints something may listen on
  Declared,          \* the one the plan declares
  MaxGap,            \* peerPortMaxGapMillis, in units
  SampleLimit,       \* peerPortSampleLimit
  EndpointLimit,     \* peerPortEndpointLimit
  TransitionLimit,   \* peerPortTransitionLimit
  PeerMaxFaults,     \* bound: failed calls, missed deadlines and crashes
  MaxOpens           \* bound: listeners the workload opens

ASSUME PeerAssumption ==
  /\ IsFiniteSet(Endpoints) /\ Declared \in Endpoints /\ MaxGap \in Nat \ {0}
  /\ SampleLimit \in Nat /\ EndpointLimit \in Nat /\ TransitionLimit \in Nat
  /\ PeerMaxFaults \in Nat /\ MaxOpens \in Nat

VARIABLES
  port,      \* the runner's place and its peerPortObservationState
  peer,      \* the helper in the peer container
  pipe,      \* its standard input: [queue, closed]
  frames,    \* its standard output
  listening, \* [endpoint -> how long it has been open, 0 if it is not]
  opens,     \* how many listeners were opened
  long,      \* history: endpoints that were open for more than two gaps
  pfaults    \* how many faults there were

peerVars == <<port, peer, pipe, frames, listening, opens, long, pfaults>>
network  == <<listening, opens, long>>

Cap == 2 * MaxGap + 2
Open == {e \in Endpoints : listening[e] > 0}

-----------------------------------------------------------------------------
(* The helper.                                                              *)

StartedPeer ==
  [state |-> "starting", boundary |-> "initial", clock |-> 0, samples |-> 0,
   transitions |-> 0, previous |-> {}, observed |-> {}, initial |-> {}, final |-> {},
   clean |-> TRUE]

PeerReadyFrame == [type |-> "ready"]

\* finish: the frame that ends the session.
PeerFinalFrame(p, ok) ==
  [type |-> "final", ok |-> ok, sampleCount |-> p.samples,
   transitionCount |-> p.transitions, observedEndpoints |-> p.observed,
   initialEndpoints |-> p.initial, finalEndpoints |-> p.final,
   declaredObservedEndpoints |-> p.observed \cap {Declared},
   declaredClosedEndpoints |-> (p.observed \cap {Declared}) \ p.final]

PeerExit(p) == [p EXCEPT !.state = "exited"]

PeerGivesUp == /\ peer' = PeerExit(peer)
               /\ frames' = WriteFrame(frames, PeerFinalFrame(peer, FALSE))

\* begin: the start command is followed by the first sample.
PeerStarts ==
  /\ peer.state = "starting"
  /\ IF pipe.queue # <<>>
     THEN /\ pipe' = [pipe EXCEPT !.queue = Tail(@)]
          /\ peer' = [peer EXCEPT !.state = "clock"]
     ELSE /\ pipe.closed
          /\ peer' = PeerExit(peer)
          /\ UNCHANGED pipe
  /\ UNCHANGED <<port, frames, network>>

\* Mutant: the gap is measured but not refused.
gapExceeded_never(p) == FALSE

\* The gap is too long: capture refuses the sample.
gapExceeded(p) == p.samples > 0 /\ p.clock > MaxGap

\* capture, up to the table: the clock decides whether the sample counts.
CaptureClock ==
  /\ peer.state \in {"clock", "poll"} /\ MayWrite(frames)
  /\ peer.state = "poll" => pipe.queue = <<>> /\ ~pipe.closed
  /\ IF gapExceeded(peer) \/ peer.samples + 1 > SampleLimit THEN PeerGivesUp
     ELSE /\ peer' = [peer EXCEPT !.state = "table", !.clock = 0, !.samples = @ + 1]
          /\ UNCHANGED frames
  /\ UNCHANGED <<port, pipe, network>>

\* capture, the rest: the listeners of this moment.  The sample at either end
\* of the session is followed by a frame.
CaptureTable(readable) ==
  /\ peer.state = "table" /\ MayWrite(frames)
  /\ LET fresh == Cardinality(Open \ peer.previous) + Cardinality(peer.previous \ Open)
         sampled == [peer EXCEPT !.previous = Open, !.observed = @ \cup Open,
                       !.transitions = IF peer.samples > 1 THEN @ + fresh ELSE @,
                       !.initial = IF peer.boundary = "initial" THEN Open ELSE @,
                       !.final = IF peer.boundary = "final" THEN Open ELSE @]
     IN  IF \/ ~readable \/ Cardinality(Open) > EndpointLimit
            \/ sampled.transitions > TransitionLimit
            \/ Cardinality(sampled.observed) > EndpointLimit
         THEN PeerGivesUp
         ELSE CASE peer.boundary = "initial" ->
                     /\ peer' = [sampled EXCEPT !.state = "poll", !.boundary = "poll"]
                     /\ frames' = WriteFrame(frames, PeerReadyFrame)
                [] peer.boundary = "final" ->
                     /\ peer' = PeerExit(sampled)
                     /\ frames' = WriteFrame(frames, PeerFinalFrame(sampled, TRUE))
                [] OTHER -> peer' = [sampled EXCEPT !.state = "poll"] /\ UNCHANGED frames
  /\ UNCHANGED <<port, pipe, network>>

\* A stop command takes the last sample; the end of the input is a failure.
PeerInput ==
  /\ peer.state = "poll" /\ MayWrite(frames)
  /\ IF pipe.queue # <<>>
     THEN /\ pipe' = [pipe EXCEPT !.queue = Tail(@)]
          /\ peer' = [peer EXCEPT !.state = "clock", !.boundary = "final"]
          /\ UNCHANGED frames
     ELSE pipe.closed /\ PeerGivesUp /\ UNCHANGED pipe
  /\ UNCHANGED <<port, network>>

PeerCrash ==
  /\ peer.state \notin {"none", "exited"}
  /\ peer' = [PeerExit(peer) EXCEPT !.clean = FALSE]
  /\ UNCHANGED <<port, pipe, frames, network>>

-----------------------------------------------------------------------------
(* The workload and time.                                                   *)

ServiceRuns == port.pc \in {"service", "quiesce"}

OpenListener ==
  /\ ServiceRuns /\ opens < MaxOpens
  /\ \E e \in Endpoints \ Open :
       /\ listening' = [listening EXCEPT ![e] = 1]
       /\ opens' = opens + 1
  /\ UNCHANGED <<port, peer, pipe, frames, long>>

CloseListener ==
  /\ \E e \in Open : listening' = [listening EXCEPT ![e] = 0]
  /\ UNCHANGED <<port, peer, pipe, frames, opens, long>>

\* One unit of time.  Ages beyond what the gap rule can tell apart are one.
Tick ==
  /\ peer.state \in {"table", "poll", "clock"}
  /\ listening' = [e \in Endpoints |->
       IF listening[e] = 0 \/ listening[e] = Cap THEN listening[e] ELSE listening[e] + 1]
  /\ long' = IF port.ready THEN long \cup {e \in Endpoints : listening'[e] > 2 * MaxGap + 1} ELSE long
  /\ peer' = [peer EXCEPT !.clock = IF @ > MaxGap THEN @ ELSE @ + 1]
  /\ peer' # peer \/ listening' # listening
  /\ UNCHANGED <<port, pipe, frames, opens>>

-----------------------------------------------------------------------------
(* The controller.                                                          *)

PeerNoResult == [type |-> "none"]

InitialPort ==
  [pc |-> "create", container |-> "none", peerID |-> FALSE, ready |-> FALSE,
   startIdentityVerified |-> FALSE, readyIdentityVerified |-> FALSE,
   namespaceIsolationVerified |-> FALSE, finalIdentityVerified |-> FALSE,
   workloadQuiescenceVerified |-> FALSE, finalReady |-> FALSE,
   peerRemoveVerified |-> FALSE, result |-> PeerNoResult, failure |-> ""]

\* abort
peerAbort == pipe' = [pipe EXCEPT !.closed = TRUE]

StartFailed(c) == [c EXCEPT !.pc = "service", !.failure = "ready-transport-failed"]

\* startPeerPortObservation: the target is inspected and the peer created.
\* When create fails the container may exist all the same, and its identity
\* may or may not be recovered (recoverPeerPortContainerID).
CreatePeer(target, created, recovered) ==
  /\ port.pc = "create"
  /\ port' = IF ~target THEN StartFailed(port)
             ELSE IF created
             THEN [port EXCEPT !.pc = "attach", !.container = "created", !.peerID = TRUE]
             ELSE StartFailed([port EXCEPT !.container = "created", !.peerID = recovered])
  /\ UNCHANGED <<peer, pipe, frames, network>>

\* The stopped peer is inspected, started and told to begin.
AttachPeer(identity, attached) ==
  /\ port.pc = "attach"
  /\ IF identity /\ attached
     THEN /\ port' = [port EXCEPT !.pc = "ready", !.container = "running"]
          /\ peer' = StartedPeer
          /\ pipe' = [queue |-> <<"start">>, closed |-> FALSE]
          /\ frames' = NewStream(2, FALSE, 2)
     ELSE port' = StartFailed(port) /\ UNCHANGED <<peer, pipe, frames>>
  /\ UNCHANGED network

PeerTaken == /\ frames.events # <<>>
             /\ frames' = TakeFrame(frames)
PeerExpired(inTime) ==
  /\ ~inTime \/ (frames.events = <<>> /\ peer.state = "exited")
  /\ UNCHANGED frames

\* The ready frame (decodePeerPortReadyFrame).
AwaitPeerReady(inTime) ==
  /\ port.pc = "ready"
  /\ \/ /\ PeerTaken /\ inTime /\ Head(frames.events).type = "ready"
        /\ port' = [port EXCEPT !.pc = "isolation"]
        /\ UNCHANGED pipe
     \/ /\ (PeerTaken /\ Head(frames.events).type # "ready") \/ PeerExpired(inTime)
        /\ port' = StartFailed(port)
        /\ peerAbort
  /\ UNCHANGED <<peer, network>>

\* validatePeerPortNamespaceIsolation, and both identities once more.
VerifyPeer(isolated, identities) ==
  /\ port.pc = "isolation"
  /\ IF isolated /\ identities
     THEN /\ port' = [port EXCEPT !.pc = "service", !.ready = TRUE,
                        !.startIdentityVerified = TRUE, !.readyIdentityVerified = TRUE,
                        !.namespaceIsolationVerified = TRUE]
          /\ UNCHANGED pipe
     ELSE port' = StartFailed(port) /\ peerAbort
  /\ UNCHANGED <<peer, frames, network>>

ServiceEnds ==
  /\ port.pc = "service"
  /\ port' = [port EXCEPT !.pc = "quiesce"]
  /\ UNCHANGED <<peer, pipe, frames, network>>

\* The workload is quiesced; without that there is no final sample.
QuiesceService(ok) ==
  /\ port.pc = "quiesce"
  /\ IF ok
     THEN /\ port' = [port EXCEPT !.pc = IF port.ready THEN "finish" ELSE "remove",
                                  !.workloadQuiescenceVerified = TRUE]
          /\ listening' = [e \in Endpoints |-> 0]
          /\ UNCHANGED pipe
     ELSE /\ port' = [port EXCEPT !.pc = "remove", !.failure = "workload-quiescence-failed"]
          /\ peerAbort
          /\ UNCHANGED listening
  /\ UNCHANGED <<peer, frames, opens, long>>

FinishFailed(c) == [c EXCEPT !.pc = "remove", !.failure = "final-transport-failed"]

\* The identities and namespaces must still be the same; finish sends stop.
FinishPeer(identities, written) ==
  /\ port.pc = "finish"
  /\ IF identities /\ written
     THEN /\ port' = [port EXCEPT !.pc = "final"]
          /\ pipe' = [queue |-> Append(pipe.queue, "stop"), closed |-> TRUE]
     ELSE port' = FinishFailed(port) /\ peerAbort
  /\ UNCHANGED <<peer, frames, network>>

\* decodePeerPortFinalFrame
decodedPeerFinal(frame) ==
  /\ frame.type = "final" /\ frame.ok
  /\ frame.sampleCount >= 3 /\ frame.sampleCount <= SampleLimit
  /\ frame.transitionCount >= 2 /\ frame.transitionCount <= TransitionLimit
  /\ frame.declaredObservedEndpoints = {Declared}
  /\ frame.declaredClosedEndpoints = {Declared}
  /\ frame.initialEndpoints \cup frame.finalEndpoints \subseteq frame.observedEndpoints
  /\ Declared \notin frame.initialEndpoints \cup frame.finalEndpoints

AwaitPeerFinal(inTime) ==
  /\ port.pc = "final"
  /\ \/ /\ PeerTaken /\ inTime /\ decodedPeerFinal(Head(frames.events))
        /\ port' = [port EXCEPT !.pc = "exit", !.result = Head(frames.events)]
        /\ UNCHANGED pipe
     \/ /\ (PeerTaken /\ ~decodedPeerFinal(Head(frames.events))) \/ PeerExpired(inTime)
        /\ port' = FinishFailed(port)
        /\ peerAbort
  /\ UNCHANGED <<peer, network>>

\* The process must end cleanly and both containers be what they were.
AwaitPeerExit(inTime, identities) ==
  /\ port.pc = "exit"
  /\ \/ /\ inTime /\ identities /\ peer.state = "exited" /\ peer.clean /\ complete(frames)
        /\ port' = [port EXCEPT !.pc = "remove", !.finalReady = TRUE, !.finalIdentityVerified = TRUE]
     \/ /\ ~inTime \/ ~identities \/ (peer.state = "exited" /\ ~(peer.clean /\ complete(frames)))
        /\ port' = [FinishFailed(port) EXCEPT !.result = PeerNoResult]
  /\ peerAbort
  /\ UNCHANGED <<peer, frames, network>>

\* removePeerPortContainer, for a peer whose identity is known.
RemovePeer(removed) ==
  /\ port.pc = "remove"
  /\ port' = IF port.peerID /\ removed
             THEN [port EXCEPT !.pc = "done", !.container = "none", !.peerRemoveVerified = TRUE]
             ELSE IF port.peerID
             THEN [port EXCEPT !.pc = "done", !.failure = "peer-remove-failed"]
             ELSE [port EXCEPT !.pc = "done"]
  /\ peer' = IF port.peerID /\ removed /\ peer.state # "none" THEN PeerExit(peer) ELSE peer
  /\ UNCHANGED <<pipe, frames, network>>

-----------------------------------------------------------------------------
\* completePeerPortObservation
completePeerPortObservation ==
  /\ port.failure = ""
  /\ port.startIdentityVerified /\ port.readyIdentityVerified /\ port.finalIdentityVerified
  /\ port.namespaceIsolationVerified /\ port.workloadQuiescenceVerified
  /\ port.peerRemoveVerified /\ port.ready /\ port.finalReady
  /\ port.result.initialEndpoints = {}

\* comparePeerPortDeclarations
comparePeerPortDeclarations ==
  IF ~completePeerPortObservation THEN "not-tested"
  ELSE IF port.result.observedEndpoints \ (port.result.initialEndpoints \cup {Declared}) # {}
  THEN "nonconforming-listeners" ELSE "no-undeclared-observed"

\* summarizePeerPortObservation
summarizePeerPortObservation ==
  LET decided == comparePeerPortDeclarations # "not-tested"
      undeclared == port.result.observedEndpoints \ (port.result.initialEndpoints \cup {Declared})
  IN  [operation |-> "port.listener-trace.summary",
       coverage |-> IF decided THEN "best-effort" ELSE "unavailable",
       result |-> IF decided THEN "observed" ELSE "unavailable",
       confidence |-> IF decided THEN "high" ELSE "unknown",
       details |->
         [comparisonResult |-> comparePeerPortDeclarations,
          identityVerified |-> /\ port.startIdentityVerified /\ port.readyIdentityVerified
                               /\ port.finalIdentityVerified,
          namespaceIsolationVerified |-> port.namespaceIsolationVerified,
          workloadQuiescenceVerified |-> port.workloadQuiescenceVerified,
          peerRemoveVerified |-> port.peerRemoveVerified]
         @@ (IF decided
             THEN [declaredEndpointCount |-> 1,
                   baselineEndpointCount |-> Cardinality(port.result.initialEndpoints),
                   sampledEndpointCount |-> Cardinality(port.result.observedEndpoints),
                   undeclaredEndpointCount |-> Cardinality(undeclared),
                   sampleCount |-> port.result.sampleCount,
                   transitionCount |-> port.result.transitionCount]
             ELSE <<>>)
         @@ (IF port.failure # "" THEN [failure |-> port.failure] ELSE <<>>)]

PeerAt(pc) ==
  /\ port = [InitialPort EXCEPT !.pc = pc] /\ peer = [StartedPeer EXCEPT !.state = "none"]
  /\ pipe = [queue |-> <<>>, closed |-> FALSE] /\ frames = NewStream(2, FALSE, 2)
  /\ listening = [e \in Endpoints |-> 0] /\ opens = 0 /\ long = {} /\ pfaults = 0

PeerInit == PeerAt("create")

PeerSpend(oks) ==
  /\ pfaults' = pfaults + Cardinality({i \in DOMAIN oks : ~oks[i]})
  /\ pfaults' <= PeerMaxFaults

PeerHelperNext ==
  \/ (PeerStarts \/ CaptureClock \/ PeerInput) /\ UNCHANGED pfaults
  \/ \E a \in BOOLEAN : PeerSpend(<<a>>) /\ CaptureTable(a)

PeerControllerNext ==
  \/ \E a, b, c \in BOOLEAN : PeerSpend(<<a, b>>) /\ CreatePeer(a, b, c)
  \/ \E a, b \in BOOLEAN : PeerSpend(<<a, b>>) /\ (\/ AttachPeer(a, b) \/ VerifyPeer(a, b)
                                                   \/ FinishPeer(a, b) \/ AwaitPeerExit(a, b))
  \/ \E a \in BOOLEAN : PeerSpend(<<a>>) /\ (\/ AwaitPeerReady(a) \/ QuiesceService(a)
                                             \/ AwaitPeerFinal(a) \/ RemovePeer(a))
  \/ ServiceEnds /\ UNCHANGED pfaults

PeerNext ==
  \/ PeerHelperNext \/ PeerControllerNext
  \/ (OpenListener \/ CloseListener \/ Tick) /\ UNCHANGED pfaults
  \/ PeerSpend(<<FALSE>>) /\ PeerCrash

PeerSpec == PeerInit /\ [][PeerNext]_peerVars

-----------------------------------------------------------------------------
PeerTypeOK ==
  /\ peer.samples \in 0..SampleLimit /\ peer.clock \in 0..(MaxGap + 1)
  /\ listening \in [Endpoints -> 0..Cap] /\ long \subseteq Endpoints
  /\ Len(frames.events) <= ChannelSize

\* A complete comparison (comparePeerPortDeclarations) has seen every
\* listener that was open for more than twice the longest accepted gap, so
\* that an undeclared service that stays up is never reported as absent.
\* One gap is not enough: the clock is read before the table.
LongListenerIsSeen ==
  port.pc = "done" /\ comparePeerPortDeclarations = "no-undeclared-observed"
    => long \subseteq {Declared}
=============================================================================

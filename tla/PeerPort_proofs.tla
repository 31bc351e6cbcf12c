-------------------------- MODULE PeerPort_proofs ---------------------------
(***************************************************************************)
(* What the port observer concludes, proved for every set of endpoints,    *)
(* every gap and every limit, with the session, the helper, the service    *)
(* and failed calls interleaved in any way.                                *)
(*                                                                         *)
(* The inductive invariant PeerInv bounds the age of a listener no sample  *)
(* has seen by the helper's clock (Young): 1 + clock between samples, and  *)
(* 1 + MaxGap + clock between reading the clock and reading the table, so  *)
(* at most 2 * MaxGap + 1 when the helper accepts the gap.  The final      *)
(* sample is taken after the workload has been quiesced (PeerStaged), and  *)
(* the frame that reports it carries every endpoint observed (Told).       *)
(***************************************************************************)
EXTENDS PeerPort, FiniteSetTheorems, TLAPS

\* The types.
PeerStates ==
  [state : {"none", "starting", "clock", "table", "poll", "exited"},
   boundary : {"initial", "poll", "final"}, clock : Nat, samples : Nat, transitions : Nat,
   previous : SUBSET Endpoints, observed : SUBSET Endpoints, initial : SUBSET Endpoints,
   final : SUBSET Endpoints, clean : BOOLEAN]

PeerFrames ==
  {PeerReadyFrame, StreamError} \cup {PeerFinalFrame(p, TRUE) : p \in PeerStates}
    \cup {PeerFinalFrame(p, FALSE) : p \in PeerStates}

StreamStates(set) ==
  [events : Seq(set), frameCount : Nat, consumed : Nat, invalid : BOOLEAN,
   frameCountLimit : Nat, requireConsumed : BOOLEAN, minimumFrames : Nat]

\* The steps of the session before the service starts, and those that end it.
Opening == {"create", "attach", "ready", "isolation"}
Closing == {"finish", "final", "exit"}
PortStages == Opening \cup {"service", "quiesce", "remove", "done"} \cup Closing

PortFailures ==
  {"", "ready-transport-failed", "workload-quiescence-failed", "final-transport-failed",
   "peer-remove-failed"}

PortStates ==
  [pc : PortStages, container : {"none", "created", "running"}, peerID : BOOLEAN, ready : BOOLEAN,
   startIdentityVerified : BOOLEAN, readyIdentityVerified : BOOLEAN,
   namespaceIsolationVerified : BOOLEAN, finalIdentityVerified : BOOLEAN,
   workloadQuiescenceVerified : BOOLEAN, finalReady : BOOLEAN,
   peerRemoveVerified : BOOLEAN, result : PeerFrames \cup {PeerNoResult}, failure : PortFailures]

PeerTypes ==
  /\ port \in PortStates /\ peer \in PeerStates
  /\ pipe \in [queue : Seq({"start", "stop"}), closed : BOOLEAN]
  /\ frames \in StreamStates(PeerFrames)
  /\ listening \in [Endpoints -> Nat] /\ opens \in Nat /\ long \subseteq Endpoints

\* The helper is sampling.
Alive == peer.state \in {"clock", "table", "poll"}

Silence == \A e \in Endpoints : listening[e] = 0

\* The workload has been quiesced for a session that began well.
Settled == port.ready /\ port.pc \in Closing \cup {"remove", "done"} /\ Silence

\* Where the session stands: nothing listens before the service has started
\* or after it has been quiesced, and only a complete final frame is a result.
PortStaged ==
  /\ port.pc \in Opening => ~port.ready /\ Silence
  /\ port.pc \in Closing => Settled /\ ~port.finalReady
  /\ port.pc \notin {"exit", "remove", "done"} => port.result = PeerNoResult /\ ~port.finalReady
  /\ port.pc = "exit" \/ port.finalReady => port.result \in PeerFrames /\ port.result.type = "final" /\ port.result.ok

\* Where the helper stands: it takes a stop command, and its final sample,
\* only once the workload has been quiesced.
PeerStaged ==
  /\ port.pc \in {"create", "attach"} => peer.state = "none"
  /\ peer.state = "none" => frames.events = <<>>
  /\ peer.state = "none" \/ peer.state = "starting" => Len(pipe.queue) <= 1 /\ peer.boundary = "initial"
  /\ peer.state = "none" => pipe.queue = <<>>
  /\ Alive /\ pipe.queue # <<>> => Settled
  /\ peer.boundary = "final" => Settled
  /\ port.ready \/ port.pc = "isolation" => peer.state \notin {"none", "starting"} /\ peer.boundary # "initial"
  /\ peer.state = "table" \/ peer.boundary # "initial" => peer.samples > 0

\* How old a listener that no sample has seen can be.
Unseen(e) == IF peer.state = "table" THEN 1 + MaxGap + peer.clock ELSE 1 + peer.clock

\* No sample has missed an old listener while the gap is within its limit.
Young ==
  port.ready /\ Alive /\ peer.clock <= MaxGap =>
    \A e \in Endpoints \ peer.observed : listening[e] <= Unseen(e)

\* A listener that was open for long has been sampled, or the helper is going
\* to find that it was late.
Sampled ==
  /\ ~port.ready => long = {}
  /\ port.ready /\ Alive =>
       \/ long \subseteq peer.observed
       \/ peer.clock > MaxGap /\ ~(peer.state = "table" /\ peer.boundary = "final")

\* What a frame says, while it is on its way and once it is the result.
Witnessed(frame) ==
  /\ frame.type = "ready" => peer.state \notin {"none", "starting"} /\ peer.boundary # "initial"
  /\ frame.type = "final" /\ frame.ok =>
       peer.boundary = "final" /\ peer.state = "exited" /\ long \subseteq frame.observedEndpoints

Told ==
  /\ \A i \in DOMAIN frames.events : Witnessed(frames.events[i])
  /\ Witnessed(port.result)

PeerInv == PeerTypes /\ PortStaged /\ PeerStaged /\ Young /\ Sampled /\ Told

-----------------------------------------------------------------------------
(* The stream of frames. *)

\* Every frame of t is one of s, the given one or the error of the stream.
Grown(t, s, frame) ==
  \A i \in DOMAIN t.events :
    \/ t.events[i] = frame \/ t.events[i] = StreamError
    \/ \E j \in DOMAIN s.events : t.events[i] = s.events[j]

LEMMA AppendIn ==
  ASSUME NEW S, NEW q \in Seq(S), NEW x \in S
  PROVE  /\ Append(q, x) \in Seq(S) /\ DOMAIN Append(q, x) = 1..(Len(q) + 1)
         /\ \A i \in DOMAIN Append(q, x) : Append(q, x)[i] = x \/ \E j \in DOMAIN q : Append(q, x)[i] = q[j]
  OBVIOUS

LEMMA TailIn ==
  ASSUME NEW S, NEW q \in Seq(S), q # <<>>
  PROVE  /\ Tail(q) \in Seq(S) /\ Head(q) \in S /\ Head(q) = q[1] /\ 1 \in DOMAIN q
         /\ Len(Tail(q)) = Len(q) - 1
         /\ \A i \in DOMAIN Tail(q) : \E j \in DOMAIN q : Tail(q)[i] = q[j]
<1>1. Len(q) \in Nat \ {0}
  OBVIOUS
<1>2. \A i \in DOMAIN Tail(q) : i + 1 \in DOMAIN q /\ Tail(q)[i] = q[i + 1]
  BY <1>1
<1> QED BY <1>1, <1>2

\* A stream with other events, counts and validity.
Stream(s, q, n, c, b) ==
  [events |-> q, frameCount |-> n, consumed |-> c, invalid |-> b,
   frameCountLimit |-> s.frameCountLimit, requireConsumed |-> s.requireConsumed,
   minimumFrames |-> s.minimumFrames]

LEMMA WriteFrameGrows ==
  ASSUME NEW S, NEW s \in StreamStates(S), NEW frame \in S, StreamError \in S
  PROVE  WriteFrame(s, frame) \in StreamStates(S) /\ Grown(WriteFrame(s, frame), s, frame)
<1> DEFINE e == Append(s.events, StreamError)
           f == Append(s.events, frame)
           n == s.frameCount + 1
<1>1. s.events \in Seq(S) /\ s.frameCount \in Nat /\ s.consumed \in Nat /\ n \in Nat /\ s.invalid \in BOOLEAN
  BY DEF StreamStates
<1>2. e \in Seq(S) /\ \A i \in DOMAIN e : e[i] = StreamError \/ \E j \in DOMAIN s.events : e[i] = s.events[j]
  BY <1>1, AppendIn
<1>3. f \in Seq(S) /\ \A i \in DOMAIN f : f[i] = frame \/ \E j \in DOMAIN s.events : f[i] = s.events[j]
  BY <1>1, AppendIn
<1>4. \A t \in StreamStates(S) : t.events = s.events \/ t.events = e \/ t.events = f => Grown(t, s, frame)
  BY <1>2, <1>3 DEF Grown
<1>5. \E q \in {s.events, e, f}, m \in {s.frameCount, n}, b \in BOOLEAN :
        WriteFrame(s, frame) = Stream(s, q, m, s.consumed, b)
  BY <1>1 DEF WriteFrame, invalidateLocked, StreamStates, Stream
<1> HIDE DEF e, f, n
<1>6. PICK q \in {s.events, e, f}, m \in {s.frameCount, n}, b \in BOOLEAN :
        WriteFrame(s, frame) = Stream(s, q, m, s.consumed, b)
  BY <1>5
<1>8. q \in Seq(S) /\ m \in Nat
  BY <1>1, <1>2, <1>3
<1>9. Stream(s, q, m, s.consumed, b) \in StreamStates(S) /\ Stream(s, q, m, s.consumed, b).events = q
  BY <1>1, <1>8 DEF StreamStates, Stream
<1>7. WriteFrame(s, frame) \in StreamStates(S) /\ WriteFrame(s, frame).events = q
  BY <1>6, <1>9
<1> QED BY <1>4, <1>7

LEMMA TakeFrameShrinks ==
  ASSUME NEW S, NEW s \in StreamStates(S), s.events # <<>>
  PROVE  /\ TakeFrame(s) \in StreamStates(S) /\ Head(s.events) \in S
         /\ Head(s.events) = s.events[1] /\ 1 \in DOMAIN s.events
         /\ TakeFrame(s).events = Tail(s.events)
         /\ \A i \in DOMAIN TakeFrame(s).events : \E j \in DOMAIN s.events : TakeFrame(s).events[i] = s.events[j]
<1> DEFINE n == IF Head(s.events) = StreamError THEN s.consumed ELSE s.consumed + 1
<1>1. s.events \in Seq(S) /\ s.consumed \in Nat /\ s.frameCount \in Nat /\ n \in Nat /\ s.invalid \in BOOLEAN
  BY DEF StreamStates
<1>2. Tail(s.events) \in Seq(S) /\ Head(s.events) \in S /\ Head(s.events) = s.events[1]
      /\ 1 \in DOMAIN s.events
      /\ \A i \in DOMAIN Tail(s.events) : \E j \in DOMAIN s.events : Tail(s.events)[i] = s.events[j]
  BY <1>1, TailIn
<1>3. TakeFrame(s) = [s EXCEPT !.events = Tail(s.events), !.consumed = n]
  BY <1>1 DEF TakeFrame
<1>4. TakeFrame(s) \in StreamStates(S) /\ TakeFrame(s).events = Tail(s.events)
  <2> DEFINE q == Tail(s.events)
             Q == Seq(S)
  <2>1. q \in Q /\ s \in [events : Q, frameCount : Nat, consumed : Nat, invalid : BOOLEAN,
                           frameCountLimit : Nat, requireConsumed : BOOLEAN, minimumFrames : Nat]
    BY <1>2 DEF StreamStates
  <2> HIDE DEF q, Q, n
  <2>2. [s EXCEPT !.events = q, !.consumed = n].events = q
        /\ [s EXCEPT !.events = q, !.consumed = n] \in
             [events : Q, frameCount : Nat, consumed : Nat, invalid : BOOLEAN,
              frameCountLimit : Nat, requireConsumed : BOOLEAN, minimumFrames : Nat]
    BY <1>1, <2>1
  <2> QED BY <1>3, <2>2 DEF q, Q, StreamStates
<1> QED BY <1>2, <1>4


-----------------------------------------------------------------------------
(* The port observer. *)

LEMMA FramesOfPeer ==
  /\ PeerReadyFrame \in PeerFrames /\ StreamError \in PeerFrames
  /\ \A p \in PeerStates : PeerFinalFrame(p, TRUE) \in PeerFrames /\ PeerFinalFrame(p, FALSE) \in PeerFrames
  BY DEF PeerFrames

LEMMA FrameTypes ==
  PeerReadyFrame.type = "ready" /\ StreamError.type = "error" /\ PeerNoResult.type = "none"
  BY DEF PeerReadyFrame, StreamError, PeerNoResult

LEMMA PeerStartsKeeps ==
  ASSUME PeerInv, PeerStarts
  PROVE  PeerInv'
<1> USE PeerAssumption
<1>0. PeerInv /\ PeerStarts
  OBVIOUS
<1>q. /\ PeerTypes /\ PortStaged /\ PeerStaged /\ Young /\ Sampled /\ Told
      /\ port \in PortStates /\ peer \in PeerStates /\ pipe \in [queue : Seq({"start", "stop"}), closed : BOOLEAN]
      /\ frames \in StreamStates(PeerFrames) /\ listening \in [Endpoints -> Nat] /\ opens \in Nat
      /\ long \subseteq Endpoints /\ peer.clock \in Nat /\ peer.samples \in Nat /\ peer.samples + 1 \in Nat
      /\ pipe.queue \in Seq({"start", "stop"})
      /\ (pipe.queue # <<>> => Tail(pipe.queue) \in Seq({"start", "stop"}) /\ Len(Tail(pipe.queue)) = Len(pipe.queue) - 1)
  BY TailIn DEF PeerInv, PeerTypes, PeerStates
<1>1. CASE pipe.queue # <<>>
  <2>1. /\ peer.state = "starting" /\ pipe.queue # <<>>
        /\ UNCHANGED <<port, frames, listening, opens, long>>
        /\ peer' = [peer EXCEPT !.state = "clock"]
        /\ pipe' = [pipe EXCEPT !.queue = Tail(pipe.queue)]
    BY <1>1, <1>0 DEF PeerStarts, PeerExit, network
  <2>2. peer' \in PeerStates /\ peer'.state = "clock" /\ peer'.boundary = peer.boundary /\ peer'.clock = peer.clock /\ peer'.samples = peer.samples /\ peer'.observed = peer.observed
    BY <2>1, <1>q DEF PeerStates
  <2>3. pipe' \in [queue : Seq({"start", "stop"}), closed : BOOLEAN] /\ pipe'.queue = Tail(pipe.queue)
    BY <2>1, <1>q
  <2>4. PeerTypes'
    BY <2>1, <2>2, <2>3, <1>q DEF PeerTypes
  <2>5. PortStaged'
    BY <2>1, <2>2, <2>3, <1>q, FrameTypes DEF PortStaged, Settled, Silence, Opening, Closing, PortStages, decodedPeerFinal
  <2>6. PeerStaged'
    BY <2>1, <2>2, <2>3, <1>q, FrameTypes DEF PeerStaged, PortStaged, Settled, Silence, Alive, Opening, Closing
  <2>7. Young'
    BY <2>1, <2>2, <2>3, <1>q, FrameTypes DEF Young, Unseen, Alive, PeerStaged, PortStaged, Silence, Settled, Opening, Closing, gapExceeded
  <2>8. Sampled'
    BY <2>1, <2>2, <2>3, <1>q, FrameTypes DEF Sampled, Alive, Young, Unseen, PeerStaged, PortStaged, Settled, Silence, Opening, Closing, gapExceeded
  <2>9. Told'
    BY <2>1, <2>2, <2>3, <1>q, FrameTypes DEF Told, Witnessed, PeerStaged, PortStaged, Sampled, Settled, Alive, Opening, Closing
  <2> QED BY <2>4, <2>5, <2>6, <2>7, <2>8, <2>9 DEF PeerInv
<1>2. CASE pipe.queue = <<>>
  <2>1. /\ peer.state = "starting" /\ pipe.queue = <<>>
        /\ UNCHANGED <<port, pipe, frames, listening, opens, long>>
        /\ peer' = [peer EXCEPT !.state = "exited"]
    BY <1>2, <1>0 DEF PeerStarts, PeerExit, network
  <2>2. peer' \in PeerStates /\ peer'.state = "exited" /\ peer'.boundary = peer.boundary /\ peer'.clock = peer.clock /\ peer'.samples = peer.samples /\ peer'.observed = peer.observed
    BY <2>1, <1>q DEF PeerStates
  <2>3. PeerTypes'
    BY <2>1, <2>2, <1>q DEF PeerTypes
  <2>4. PortStaged'
    BY <2>1, <2>2, <1>q, FrameTypes DEF PortStaged, Settled, Silence, Opening, Closing, PortStages, decodedPeerFinal
  <2>5. PeerStaged'
    BY <2>1, <2>2, <1>q, FrameTypes DEF PeerStaged, PortStaged, Settled, Silence, Alive, Opening, Closing
  <2>6. Young'
    BY <2>1, <2>2, <1>q, FrameTypes DEF Young, Unseen, Alive, PeerStaged, PortStaged, Silence, Settled, Opening, Closing, gapExceeded
  <2>7. Sampled'
    BY <2>1, <2>2, <1>q, FrameTypes DEF Sampled, Alive, Young, Unseen, PeerStaged, PortStaged, Settled, Silence, Opening, Closing, gapExceeded
  <2>8. Told'
    BY <2>1, <2>2, <1>q, FrameTypes DEF Told, Witnessed, PeerStaged, PortStaged, Sampled, Settled, Alive, Opening, Closing
  <2> QED BY <2>3, <2>4, <2>5, <2>6, <2>7, <2>8 DEF PeerInv
<1> QED BY <1>0, <1>1, <1>2 DEF PeerStarts, PeerExit

LEMMA PeerCrashKeeps ==
  ASSUME PeerInv, PeerCrash
  PROVE  PeerInv'
<1> USE PeerAssumption
<1>0. PeerInv /\ PeerCrash
  OBVIOUS
<1>q. /\ PeerTypes /\ PortStaged /\ PeerStaged /\ Young /\ Sampled /\ Told
      /\ port \in PortStates /\ peer \in PeerStates /\ pipe \in [queue : Seq({"start", "stop"}), closed : BOOLEAN]
      /\ frames \in StreamStates(PeerFrames) /\ listening \in [Endpoints -> Nat] /\ opens \in Nat
      /\ long \subseteq Endpoints /\ peer.clock \in Nat /\ peer.samples \in Nat /\ peer.samples + 1 \in Nat
      /\ pipe.queue \in Seq({"start", "stop"})
      /\ (pipe.queue # <<>> => Tail(pipe.queue) \in Seq({"start", "stop"}) /\ Len(Tail(pipe.queue)) = Len(pipe.queue) - 1)
  BY TailIn DEF PeerInv, PeerTypes, PeerStates
<1>1. /\ peer.state \notin {"none", "exited"}
      /\ UNCHANGED <<port, pipe, frames, listening, opens, long>>
      /\ peer' = [peer EXCEPT !.state = "exited", !.clean = FALSE]
  BY <1>0 DEF PeerCrash, PeerExit, network
<1>2. peer' \in PeerStates /\ peer'.state = "exited" /\ peer'.boundary = peer.boundary /\ peer'.clock = peer.clock /\ peer'.samples = peer.samples /\ peer'.observed = peer.observed
  BY <1>1, <1>q DEF PeerStates
<1>3. PeerTypes'
  BY <1>1, <1>2, <1>q DEF PeerTypes
<1>4. PortStaged'
  BY <1>1, <1>2, <1>q, FrameTypes DEF PortStaged, Settled, Silence, Opening, Closing, PortStages, decodedPeerFinal
<1>5. PeerStaged'
  BY <1>1, <1>2, <1>q, FrameTypes DEF PeerStaged, PortStaged, Settled, Silence, Alive, Opening, Closing
<1>6. Young'
  BY <1>1, <1>2, <1>q, FrameTypes DEF Young, Unseen, Alive, PeerStaged, PortStaged, Silence, Settled, Opening, Closing, gapExceeded
<1>7. Sampled'
  BY <1>1, <1>2, <1>q, FrameTypes DEF Sampled, Alive, Young, Unseen, PeerStaged, PortStaged, Settled, Silence, Opening, Closing, gapExceeded
<1>8. Told'
  BY <1>1, <1>2, <1>q, FrameTypes DEF Told, Witnessed, PeerStaged, PortStaged, Sampled, Settled, Alive, Opening, Closing
<1> QED BY <1>3, <1>4, <1>5, <1>6, <1>7, <1>8 DEF PeerInv

LEMMA PeerInputKeeps ==
  ASSUME PeerInv, PeerInput
  PROVE  PeerInv'
<1> USE PeerAssumption
<1>0. PeerInv /\ PeerInput
  OBVIOUS
<1>q. /\ PeerTypes /\ PortStaged /\ PeerStaged /\ Young /\ Sampled /\ Told
      /\ port \in PortStates /\ peer \in PeerStates /\ pipe \in [queue : Seq({"start", "stop"}), closed : BOOLEAN]
      /\ frames \in StreamStates(PeerFrames) /\ listening \in [Endpoints -> Nat] /\ opens \in Nat
      /\ long \subseteq Endpoints /\ peer.clock \in Nat /\ peer.samples \in Nat /\ peer.samples + 1 \in Nat
      /\ pipe.queue \in Seq({"start", "stop"})
      /\ (pipe.queue # <<>> => Tail(pipe.queue) \in Seq({"start", "stop"}) /\ Len(Tail(pipe.queue)) = Len(pipe.queue) - 1)
  BY TailIn DEF PeerInv, PeerTypes, PeerStates
<1>1. CASE pipe.queue # <<>>
  <2>1. /\ peer.state = "poll" /\ pipe.queue # <<>>
        /\ UNCHANGED <<port, frames, listening, opens, long>>
        /\ peer' = [peer EXCEPT !.state = "clock", !.boundary = "final"]
        /\ pipe' = [pipe EXCEPT !.queue = Tail(pipe.queue)]
    BY <1>1, <1>0 DEF PeerInput, PeerGivesUp, PeerExit, network
  <2>2. peer' \in PeerStates /\ peer'.state = "clock" /\ peer'.boundary = "final" /\ peer'.clock = peer.clock /\ peer'.samples = peer.samples /\ peer'.observed = peer.observed
    BY <2>1, <1>q DEF PeerStates
  <2>3. pipe' \in [queue : Seq({"start", "stop"}), closed : BOOLEAN] /\ pipe'.queue = Tail(pipe.queue)
    BY <2>1, <1>q
  <2>4. PeerTypes'
    BY <2>1, <2>2, <2>3, <1>q DEF PeerTypes
  <2>5. PortStaged'
    BY <2>1, <2>2, <2>3, <1>q, FrameTypes DEF PortStaged, Settled, Silence, Opening, Closing, PortStages, decodedPeerFinal
  <2>6. PeerStaged'
    BY <2>1, <2>2, <2>3, <1>q, FrameTypes DEF PeerStaged, PortStaged, Settled, Silence, Alive, Opening, Closing
  <2>7. Young'
    BY <2>1, <2>2, <2>3, <1>q, FrameTypes DEF Young, Unseen, Alive, PeerStaged, PortStaged, Silence, Settled, Opening, Closing, gapExceeded
  <2>8. Sampled'
    BY <2>1, <2>2, <2>3, <1>q, FrameTypes DEF Sampled, Alive, Young, Unseen, PeerStaged, PortStaged, Settled, Silence, Opening, Closing, gapExceeded
  <2>9. Told'
    BY <2>1, <2>2, <2>3, <1>q, FrameTypes DEF Told, Witnessed, PeerStaged, PortStaged, Sampled, Settled, Alive, Opening, Closing
  <2> QED BY <2>4, <2>5, <2>6, <2>7, <2>8, <2>9 DEF PeerInv
<1>2. CASE pipe.queue = <<>>
  <2>1. /\ peer.state = "poll" /\ pipe.queue = <<>>
        /\ UNCHANGED <<port, pipe, listening, opens, long>>
        /\ peer' = [peer EXCEPT !.state = "exited"]
        /\ frames' = WriteFrame(frames, PeerFinalFrame(peer, FALSE))
    BY <1>2, <1>0 DEF PeerInput, PeerGivesUp, PeerExit, network
  <2>2. peer' \in PeerStates /\ peer'.state = "exited" /\ peer'.boundary = peer.boundary /\ peer'.clock = peer.clock /\ peer'.samples = peer.samples /\ peer'.observed = peer.observed
    BY <2>1, <1>q DEF PeerStates
  <2>3. PeerFinalFrame(peer, FALSE).type = "final" /\ ~PeerFinalFrame(peer, FALSE).ok /\ StreamError.type = "error"
    BY DEF PeerFinalFrame, StreamError
  <2>4. frames' \in StreamStates(PeerFrames) /\ Grown(frames', frames, PeerFinalFrame(peer, FALSE))
    BY <2>1, <1>q, FramesOfPeer, WriteFrameGrows
  <2>5. PeerTypes'
    BY <2>1, <2>2, <2>3, <2>4, <1>q DEF PeerTypes
  <2>6. PortStaged'
    BY <2>1, <2>2, <2>3, <2>4, <1>q, FrameTypes DEF PortStaged, Settled, Silence, Opening, Closing, PortStages, decodedPeerFinal, Grown
  <2>7. PeerStaged'
    BY <2>1, <2>2, <2>3, <2>4, <1>q, FrameTypes DEF PeerStaged, PortStaged, Settled, Silence, Alive, Opening, Closing, Grown
  <2>8. Young'
    BY <2>1, <2>2, <2>3, <2>4, <1>q, FrameTypes DEF Young, Unseen, Alive, PeerStaged, PortStaged, Silence, Settled, Opening, Closing, gapExceeded, Grown
  <2>9. Sampled'
    BY <2>1, <2>2, <2>3, <2>4, <1>q, FrameTypes DEF Sampled, Alive, Young, Unseen, PeerStaged, PortStaged, Settled, Silence, Opening, Closing, gapExceeded, Grown
  <2>10. Told'
    <3>1. \A f : Witnessed(f) => Witnessed(f)'
      BY <2>1, <2>2, <1>q DEF Witnessed
    <3>2. \A f : f.type # "ready" /\ ~(f.type = "final" /\ f.ok) => Witnessed(f)'
      BY DEF Witnessed
    <3>4. \A i \in DOMAIN frames'.events : Witnessed(frames.events[i])'
      BY <1>q, <2>3, <2>4, <3>1, <3>2 DEF Told, Grown
    <3> QED BY <1>q, <2>1, <3>1, <3>4 DEF Told
  <2> QED BY <2>5, <2>6, <2>7, <2>8, <2>9, <2>10 DEF PeerInv
<1> QED BY <1>0, <1>1, <1>2 DEF PeerInput, PeerGivesUp, PeerExit

LEMMA CaptureClockKeeps ==
  ASSUME PeerInv, CaptureClock
  PROVE  PeerInv'
<1> USE PeerAssumption
<1>0. PeerInv /\ CaptureClock
  OBVIOUS
<1>q. /\ PeerTypes /\ PortStaged /\ PeerStaged /\ Young /\ Sampled /\ Told
      /\ port \in PortStates /\ peer \in PeerStates /\ pipe \in [queue : Seq({"start", "stop"}), closed : BOOLEAN]
      /\ frames \in StreamStates(PeerFrames) /\ listening \in [Endpoints -> Nat] /\ opens \in Nat
      /\ long \subseteq Endpoints /\ peer.clock \in Nat /\ peer.samples \in Nat /\ peer.samples + 1 \in Nat
      /\ pipe.queue \in Seq({"start", "stop"})
      /\ (pipe.queue # <<>> => Tail(pipe.queue) \in Seq({"start", "stop"}) /\ Len(Tail(pipe.queue)) = Len(pipe.queue) - 1)
  BY TailIn DEF PeerInv, PeerTypes, PeerStates
<1>1. CASE gapExceeded(peer) \/ peer.samples + 1 > SampleLimit
  <2>1. /\ peer.state \in {"clock", "poll"}
        /\ UNCHANGED <<port, pipe, listening, opens, long>>
        /\ peer' = [peer EXCEPT !.state = "exited"]
        /\ frames' = WriteFrame(frames, PeerFinalFrame(peer, FALSE))
    BY <1>1, <1>0 DEF CaptureClock, gapExceeded, PeerGivesUp, PeerExit, network
  <2>2. peer' \in PeerStates /\ peer'.state = "exited" /\ peer'.boundary = peer.boundary /\ peer'.clock = peer.clock /\ peer'.samples = peer.samples /\ peer'.observed = peer.observed
    BY <2>1, <1>q DEF PeerStates
  <2>3. PeerFinalFrame(peer, FALSE).type = "final" /\ ~PeerFinalFrame(peer, FALSE).ok /\ StreamError.type = "error"
    BY DEF PeerFinalFrame, StreamError
  <2>4. frames' \in StreamStates(PeerFrames) /\ Grown(frames', frames, PeerFinalFrame(peer, FALSE))
    BY <2>1, <1>q, FramesOfPeer, WriteFrameGrows
  <2>5. PeerTypes'
    BY <2>1, <2>2, <2>3, <2>4, <1>q DEF PeerTypes
  <2>6. PortStaged'
    BY <2>1, <2>2, <2>3, <2>4, <1>q, FrameTypes DEF PortStaged, Settled, Silence, Opening, Closing, PortStages, decodedPeerFinal, Grown
  <2>7. PeerStaged'
    BY <2>1, <2>2, <2>3, <2>4, <1>q, FrameTypes DEF PeerStaged, PortStaged, Settled, Silence, Alive, Opening, Closing, Grown
  <2>8. Young'
    BY <2>1, <2>2, <2>3, <2>4, <1>q, FrameTypes DEF Young, Unseen, Alive, PeerStaged, PortStaged, Silence, Settled, Opening, Closing, gapExceeded, Grown
  <2>9. Sampled'
    BY <2>1, <2>2, <2>3, <2>4, <1>q, FrameTypes DEF Sampled, Alive, Young, Unseen, PeerStaged, PortStaged, Settled, Silence, Opening, Closing, gapExceeded, Grown
  <2>10. Told'
    <3>1. \A f : Witnessed(f) => Witnessed(f)'
      BY <2>1, <2>2, <1>q DEF Witnessed
    <3>2. \A f : f.type # "ready" /\ ~(f.type = "final" /\ f.ok) => Witnessed(f)'
      BY DEF Witnessed
    <3>4. \A i \in DOMAIN frames'.events : Witnessed(frames.events[i])'
      BY <1>q, <2>3, <2>4, <3>1, <3>2 DEF Told, Grown
    <3> QED BY <1>q, <2>1, <3>1, <3>4 DEF Told
  <2> QED BY <2>5, <2>6, <2>7, <2>8, <2>9, <2>10 DEF PeerInv
<1>2. CASE ~(gapExceeded(peer) \/ peer.samples + 1 > SampleLimit)
  <2>1. /\ peer.state \in {"clock", "poll"} /\ (peer.samples > 0 => ~(peer.clock > MaxGap))
        /\ UNCHANGED <<port, pipe, frames, listening, opens, long>>
        /\ peer' = [peer EXCEPT !.state = "table", !.clock = 0, !.samples = peer.samples + 1]
    BY <1>2, <1>0 DEF CaptureClock, gapExceeded, PeerGivesUp, PeerExit, network
  <2>2. peer' \in PeerStates /\ peer'.state = "table" /\ peer'.boundary = peer.boundary /\ peer'.clock = 0 /\ peer'.samples = peer.samples + 1 /\ peer'.observed = peer.observed
    BY <2>1, <1>q DEF PeerStates
  <2>3. PeerTypes'
    BY <2>1, <2>2, <1>q DEF PeerTypes
  <2>4. PortStaged'
    BY <2>1, <2>2, <1>q, FrameTypes DEF PortStaged, Settled, Silence, Opening, Closing, PortStages, decodedPeerFinal
  <2>5. PeerStaged'
    BY <2>1, <2>2, <1>q, FrameTypes DEF PeerStaged, PortStaged, Settled, Silence, Alive, Opening, Closing
  <2>6. Young'
    <3>1. ASSUME port.ready, NEW e \in Endpoints \ peer.observed
          PROVE  listening[e] <= 1 + MaxGap + 0
      <4>1. peer.clock <= MaxGap /\ Alive
        BY <3>1, <2>1, <1>q DEF PeerStaged, Alive
      <4>2. listening[e] <= 1 + peer.clock
        BY <3>1, <4>1, <2>1, <1>q DEF Young, Unseen
      <4>3. listening[e] \in Nat
        BY <1>q
      <4> QED BY <4>1, <4>2, <4>3, <1>q
    <3> QED BY <3>1, <2>1, <2>2 DEF Young, Unseen
  <2>7. Sampled'
    BY <2>1, <2>2, <1>q, FrameTypes DEF Sampled, Alive, Young, Unseen, PeerStaged, PortStaged, Settled, Silence, Opening, Closing, gapExceeded
  <2>8. Told'
    BY <2>1, <2>2, <1>q, FrameTypes DEF Told, Witnessed, PeerStaged, PortStaged, Sampled, Settled, Alive, Opening, Closing
  <2> QED BY <2>3, <2>4, <2>5, <2>6, <2>7, <2>8 DEF PeerInv
<1> QED BY <1>0, <1>1, <1>2 DEF CaptureClock, gapExceeded, PeerGivesUp, PeerExit

LEMMA OpenListenerKeeps ==
  ASSUME PeerInv, OpenListener
  PROVE  PeerInv'
<1> USE PeerAssumption
<1>0. PeerInv /\ OpenListener
  OBVIOUS
<1>q. /\ PeerTypes /\ PortStaged /\ PeerStaged /\ Young /\ Sampled /\ Told
      /\ port \in PortStates /\ peer \in PeerStates /\ pipe \in [queue : Seq({"start", "stop"}), closed : BOOLEAN]
      /\ frames \in StreamStates(PeerFrames) /\ listening \in [Endpoints -> Nat] /\ opens \in Nat
      /\ long \subseteq Endpoints /\ peer.clock \in Nat /\ peer.samples \in Nat /\ peer.samples + 1 \in Nat
      /\ pipe.queue \in Seq({"start", "stop"})
      /\ (pipe.queue # <<>> => Tail(pipe.queue) \in Seq({"start", "stop"}) /\ Len(Tail(pipe.queue)) = Len(pipe.queue) - 1)
  BY TailIn DEF PeerInv, PeerTypes, PeerStates
<1>1. /\ port.pc \in {"service", "quiesce"}
      /\ UNCHANGED <<port, peer, pipe, frames, long>>
      /\ \E e \in Endpoints : listening' = [listening EXCEPT ![e] = 1]
      /\ opens' = opens + 1
  BY <1>0 DEF OpenListener, ServiceRuns, Open, network
<1>2. listening' \in [Endpoints -> Nat]
  BY <1>1, <1>q
<1>3. opens' \in Nat
  BY <1>1, <1>q
<1>4. PeerTypes'
  BY <1>1, <1>2, <1>3, <1>q DEF PeerTypes
<1>5. PortStaged'
  BY <1>1, <1>2, <1>3, <1>q, FrameTypes DEF PortStaged, Settled, Silence, Opening, Closing, PortStages, decodedPeerFinal
<1>6. PeerStaged'
  BY <1>1, <1>2, <1>3, <1>q, FrameTypes DEF PeerStaged, PortStaged, Settled, Silence, Alive, Opening, Closing
<1>7. Young'
  BY <1>1, <1>2, <1>3, <1>q, FrameTypes DEF Young, Unseen, Alive, PeerStaged, PortStaged, Silence, Settled, Opening, Closing, gapExceeded
<1>8. Sampled'
  BY <1>1, <1>2, <1>3, <1>q, FrameTypes DEF Sampled, Alive, Young, Unseen, PeerStaged, PortStaged, Settled, Silence, Opening, Closing, gapExceeded
<1>9. Told'
  BY <1>1, <1>2, <1>3, <1>q, FrameTypes DEF Told, Witnessed, PeerStaged, PortStaged, Sampled, Settled, Alive, Opening, Closing
<1> QED BY <1>4, <1>5, <1>6, <1>7, <1>8, <1>9 DEF PeerInv

LEMMA CloseListenerKeeps ==
  ASSUME PeerInv, CloseListener
  PROVE  PeerInv'
<1> USE PeerAssumption
<1>0. PeerInv /\ CloseListener
  OBVIOUS
<1>q. /\ PeerTypes /\ PortStaged /\ PeerStaged /\ Young /\ Sampled /\ Told
      /\ port \in PortStates /\ peer \in PeerStates /\ pipe \in [queue : Seq({"start", "stop"}), closed : BOOLEAN]
      /\ frames \in StreamStates(PeerFrames) /\ listening \in [Endpoints -> Nat] /\ opens \in Nat
      /\ long \subseteq Endpoints /\ peer.clock \in Nat /\ peer.samples \in Nat /\ peer.samples + 1 \in Nat
      /\ pipe.queue \in Seq({"start", "stop"})
      /\ (pipe.queue # <<>> => Tail(pipe.queue) \in Seq({"start", "stop"}) /\ Len(Tail(pipe.queue)) = Len(pipe.queue) - 1)
  BY TailIn DEF PeerInv, PeerTypes, PeerStates
<1>1. /\ TRUE
      /\ UNCHANGED <<port, peer, pipe, frames, opens, long>>
      /\ \E e \in Endpoints : listening' = [listening EXCEPT ![e] = 0]
  BY <1>0 DEF CloseListener, Open, network
<1>2. listening' \in [Endpoints -> Nat]
  BY <1>1, <1>q
<1>3. PeerTypes'
  BY <1>1, <1>2, <1>q DEF PeerTypes
<1>4. PortStaged'
  BY <1>1, <1>2, <1>q, FrameTypes DEF PortStaged, Settled, Silence, Opening, Closing, PortStages, decodedPeerFinal
<1>5. PeerStaged'
  BY <1>1, <1>2, <1>q, FrameTypes DEF PeerStaged, PortStaged, Settled, Silence, Alive, Opening, Closing
<1>6. Young'
  BY <1>1, <1>2, <1>q, FrameTypes DEF Young, Unseen, Alive, PeerStaged, PortStaged, Silence, Settled, Opening, Closing, gapExceeded
<1>7. Sampled'
  BY <1>1, <1>2, <1>q, FrameTypes DEF Sampled, Alive, Young, Unseen, PeerStaged, PortStaged, Settled, Silence, Opening, Closing, gapExceeded
<1>8. Told'
  BY <1>1, <1>2, <1>q, FrameTypes DEF Told, Witnessed, PeerStaged, PortStaged, Sampled, Settled, Alive, Opening, Closing
<1> QED BY <1>3, <1>4, <1>5, <1>6, <1>7, <1>8 DEF PeerInv

LEMMA ServiceEndsKeeps ==
  ASSUME PeerInv, ServiceEnds
  PROVE  PeerInv'
<1> USE PeerAssumption
<1>0. PeerInv /\ ServiceEnds
  OBVIOUS
<1>q. /\ PeerTypes /\ PortStaged /\ PeerStaged /\ Young /\ Sampled /\ Told
      /\ port \in PortStates /\ peer \in PeerStates /\ pipe \in [queue : Seq({"start", "stop"}), closed : BOOLEAN]
      /\ frames \in StreamStates(PeerFrames) /\ listening \in [Endpoints -> Nat] /\ opens \in Nat
      /\ long \subseteq Endpoints /\ peer.clock \in Nat /\ peer.samples \in Nat /\ peer.samples + 1 \in Nat
      /\ pipe.queue \in Seq({"start", "stop"})
      /\ (pipe.queue # <<>> => Tail(pipe.queue) \in Seq({"start", "stop"}) /\ Len(Tail(pipe.queue)) = Len(pipe.queue) - 1)
  BY TailIn DEF PeerInv, PeerTypes, PeerStates
<1>1. /\ port.pc = "service"
      /\ UNCHANGED <<peer, pipe, frames, listening, opens, long>>
      /\ port' = [port EXCEPT !.pc = "quiesce"]
  BY <1>0 DEF ServiceEnds, network
<1>2. port' \in PortStates /\ port'.pc = "quiesce" /\ port'.ready = port.ready /\ port'.finalReady = port.finalReady /\ port'.result = port.result
  BY <1>1, <1>q, FrameTypes DEF PortStates, PortStages, PortFailures, Opening, Closing
<1>3. PeerTypes'
  BY <1>1, <1>2, <1>q DEF PeerTypes
<1>4. PortStaged'
  BY <1>1, <1>2, <1>q, FrameTypes DEF PortStaged, Settled, Silence, Opening, Closing, PortStages, decodedPeerFinal
<1>5. PeerStaged'
  BY <1>1, <1>2, <1>q, FrameTypes DEF PeerStaged, PortStaged, Settled, Silence, Alive, Opening, Closing
<1>6. Young'
  BY <1>1, <1>2, <1>q, FrameTypes DEF Young, Unseen, Alive, PeerStaged, PortStaged, Silence, Settled, Opening, Closing, gapExceeded
<1>7. Sampled'
  BY <1>1, <1>2, <1>q, FrameTypes DEF Sampled, Alive, Young, Unseen, PeerStaged, PortStaged, Settled, Silence, Opening, Closing, gapExceeded
<1>8. Told'
  BY <1>1, <1>2, <1>q, FrameTypes DEF Told, Witnessed, PeerStaged, PortStaged, Sampled, Settled, Alive, Opening, Closing
<1> QED BY <1>3, <1>4, <1>5, <1>6, <1>7, <1>8 DEF PeerInv

LEMMA CreatePeerKeeps ==
  ASSUME PeerInv, NEW target \in BOOLEAN, NEW created \in BOOLEAN, NEW recovered \in BOOLEAN, CreatePeer(target, created, recovered)
  PROVE  PeerInv'
<1> USE PeerAssumption
<1>0. PeerInv /\ CreatePeer(target, created, recovered)
  OBVIOUS
<1>q. /\ PeerTypes /\ PortStaged /\ PeerStaged /\ Young /\ Sampled /\ Told
      /\ port \in PortStates /\ peer \in PeerStates /\ pipe \in [queue : Seq({"start", "stop"}), closed : BOOLEAN]
      /\ frames \in StreamStates(PeerFrames) /\ listening \in [Endpoints -> Nat] /\ opens \in Nat
      /\ long \subseteq Endpoints /\ peer.clock \in Nat /\ peer.samples \in Nat /\ peer.samples + 1 \in Nat
      /\ pipe.queue \in Seq({"start", "stop"})
      /\ (pipe.queue # <<>> => Tail(pipe.queue) \in Seq({"start", "stop"}) /\ Len(Tail(pipe.queue)) = Len(pipe.queue) - 1)
  BY TailIn DEF PeerInv, PeerTypes, PeerStates
<1>1. CASE ~target
  <2>1. /\ port.pc = "create"
        /\ UNCHANGED <<peer, pipe, frames, listening, opens, long>>
        /\ port' = [port EXCEPT !.pc = "service", !.failure = "ready-transport-failed"]
    BY <1>1, <1>0 DEF CreatePeer, StartFailed, network
  <2>2. port' \in PortStates /\ port'.pc = "service" /\ port'.ready = port.ready /\ port'.finalReady = port.finalReady /\ port'.result = port.result
    BY <2>1, <1>q, FrameTypes DEF PortStates, PortStages, PortFailures, Opening, Closing
  <2>3. PeerTypes'
    BY <2>1, <2>2, <1>q DEF PeerTypes
  <2>4. PortStaged'
    BY <2>1, <2>2, <1>q, FrameTypes DEF PortStaged, Settled, Silence, Opening, Closing, PortStages, decodedPeerFinal
  <2>5. PeerStaged'
    BY <2>1, <2>2, <1>q, FrameTypes DEF PeerStaged, PortStaged, Settled, Silence, Alive, Opening, Closing
  <2>6. Young'
    BY <2>1, <2>2, <1>q, FrameTypes DEF Young, Unseen, Alive, PeerStaged, PortStaged, Silence, Settled, Opening, Closing, gapExceeded
  <2>7. Sampled'
    BY <2>1, <2>2, <1>q, FrameTypes DEF Sampled, Alive, Young, Unseen, PeerStaged, PortStaged, Settled, Silence, Opening, Closing, gapExceeded
  <2>8. Told'
    BY <2>1, <2>2, <1>q, FrameTypes DEF Told, Witnessed, PeerStaged, PortStaged, Sampled, Settled, Alive, Opening, Closing
  <2> QED BY <2>3, <2>4, <2>5, <2>6, <2>7, <2>8 DEF PeerInv
<1>2. CASE target /\ created
  <2>1. /\ port.pc = "create"
        /\ UNCHANGED <<peer, pipe, frames, listening, opens, long>>
        /\ port' = [port EXCEPT !.pc = "attach", !.container = "created", !.peerID = TRUE]
    BY <1>2, <1>0 DEF CreatePeer, StartFailed, network
  <2>2. port' \in PortStates /\ port'.pc = "attach" /\ port'.ready = port.ready /\ port'.finalReady = port.finalReady /\ port'.result = port.result
    BY <2>1, <1>q, FrameTypes DEF PortStates, PortStages, PortFailures, Opening, Closing
  <2>3. PeerTypes'
    BY <2>1, <2>2, <1>q DEF PeerTypes
  <2>4. PortStaged'
    BY <2>1, <2>2, <1>q, FrameTypes DEF PortStaged, Settled, Silence, Opening, Closing, PortStages, decodedPeerFinal
  <2>5. PeerStaged'
    BY <2>1, <2>2, <1>q, FrameTypes DEF PeerStaged, PortStaged, Settled, Silence, Alive, Opening, Closing
  <2>6. Young'
    BY <2>1, <2>2, <1>q, FrameTypes DEF Young, Unseen, Alive, PeerStaged, PortStaged, Silence, Settled, Opening, Closing, gapExceeded
  <2>7. Sampled'
    BY <2>1, <2>2, <1>q, FrameTypes DEF Sampled, Alive, Young, Unseen, PeerStaged, PortStaged, Settled, Silence, Opening, Closing, gapExceeded
  <2>8. Told'
    BY <2>1, <2>2, <1>q, FrameTypes DEF Told, Witnessed, PeerStaged, PortStaged, Sampled, Settled, Alive, Opening, Closing
  <2> QED BY <2>3, <2>4, <2>5, <2>6, <2>7, <2>8 DEF PeerInv
<1>3. CASE target /\ ~created
  <2>1. /\ port.pc = "create"
        /\ UNCHANGED <<peer, pipe, frames, listening, opens, long>>
        /\ port' = [[port EXCEPT !.container = "created", !.peerID = recovered] EXCEPT !.pc = "service", !.failure = "ready-transport-failed"]
    BY <1>3, <1>0 DEF CreatePeer, StartFailed, network
  <2>2. port' \in PortStates /\ port'.pc = "service" /\ port'.ready = port.ready /\ port'.finalReady = port.finalReady /\ port'.result = port.result
    BY <2>1, <1>q, FrameTypes DEF PortStates, PortStages, PortFailures, Opening, Closing
  <2>3. PeerTypes'
    BY <2>1, <2>2, <1>q DEF PeerTypes
  <2>4. PortStaged'
    BY <2>1, <2>2, <1>q, FrameTypes DEF PortStaged, Settled, Silence, Opening, Closing, PortStages, decodedPeerFinal
  <2>5. PeerStaged'
    BY <2>1, <2>2, <1>q, FrameTypes DEF PeerStaged, PortStaged, Settled, Silence, Alive, Opening, Closing
  <2>6. Young'
    BY <2>1, <2>2, <1>q, FrameTypes DEF Young, Unseen, Alive, PeerStaged, PortStaged, Silence, Settled, Opening, Closing, gapExceeded
  <2>7. Sampled'
    BY <2>1, <2>2, <1>q, FrameTypes DEF Sampled, Alive, Young, Unseen, PeerStaged, PortStaged, Settled, Silence, Opening, Closing, gapExceeded
  <2>8. Told'
    BY <2>1, <2>2, <1>q, FrameTypes DEF Told, Witnessed, PeerStaged, PortStaged, Sampled, Settled, Alive, Opening, Closing
  <2> QED BY <2>3, <2>4, <2>5, <2>6, <2>7, <2>8 DEF PeerInv
<1> QED BY <1>0, <1>1, <1>2, <1>3 DEF CreatePeer, StartFailed

LEMMA AttachPeerKeeps ==
  ASSUME PeerInv, NEW identity \in BOOLEAN, NEW attached \in BOOLEAN, AttachPeer(identity, attached)
  PROVE  PeerInv'
<1> USE PeerAssumption
<1>0. PeerInv /\ AttachPeer(identity, attached)
  OBVIOUS
<1>q. /\ PeerTypes /\ PortStaged /\ PeerStaged /\ Young /\ Sampled /\ Told
      /\ port \in PortStates /\ peer \in PeerStates /\ pipe \in [queue : Seq({"start", "stop"}), closed : BOOLEAN]
      /\ frames \in StreamStates(PeerFrames) /\ listening \in [Endpoints -> Nat] /\ opens \in Nat
      /\ long \subseteq Endpoints /\ peer.clock \in Nat /\ peer.samples \in Nat /\ peer.samples + 1 \in Nat
      /\ pipe.queue \in Seq({"start", "stop"})
      /\ (pipe.queue # <<>> => Tail(pipe.queue) \in Seq({"start", "stop"}) /\ Len(Tail(pipe.queue)) = Len(pipe.queue) - 1)
  BY TailIn DEF PeerInv, PeerTypes, PeerStates
<1>1. CASE identity /\ attached
  <2>1. /\ port.pc = "attach"
        /\ UNCHANGED <<listening, opens, long>>
        /\ port' = [port EXCEPT !.pc = "ready", !.container = "running"]
        /\ peer' = StartedPeer
        /\ pipe' = [queue |-> <<"start">>, closed |-> FALSE]
        /\ frames' = NewStream(2, FALSE, 2)
    BY <1>1, <1>0 DEF AttachPeer, StartFailed, network
  <2>2. port' \in PortStates /\ port'.pc = "ready" /\ port'.ready = port.ready /\ port'.finalReady = port.finalReady /\ port'.result = port.result
    BY <2>1, <1>q, FrameTypes DEF PortStates, PortStages, PortFailures, Opening, Closing
  <2>3. peer' \in PeerStates /\ peer'.state = "starting" /\ peer'.boundary = "initial" /\ peer'.clock = 0 /\ peer'.samples = 0 /\ peer'.observed = {}
    BY <2>1, <1>q DEF StartedPeer, PeerStates
  <2>4. pipe' \in [queue : Seq({"start", "stop"}), closed : BOOLEAN] /\ pipe'.queue = <<"start">> /\ Len(pipe'.queue) = 1
    BY <2>1, <1>q
  <2>5. frames' \in StreamStates(PeerFrames) /\ frames'.events = <<>> /\ DOMAIN frames'.events = {}
    BY <2>1 DEF NewStream, StreamStates
  <2>6. PeerTypes'
    BY <2>1, <2>2, <2>3, <2>4, <2>5, <1>q DEF PeerTypes
  <2>7. PortStaged'
    BY <2>1, <2>2, <2>3, <2>4, <2>5, <1>q, FrameTypes DEF PortStaged, Settled, Silence, Opening, Closing, PortStages, decodedPeerFinal
  <2>8. PeerStaged'
    BY <2>1, <2>2, <2>3, <2>4, <2>5, <1>q, FrameTypes DEF PeerStaged, PortStaged, Settled, Silence, Alive, Opening, Closing
  <2>9. Young'
    BY <2>1, <2>2, <2>3, <2>4, <2>5, <1>q, FrameTypes DEF Young, Unseen, Alive, PeerStaged, PortStaged, Silence, Settled, Opening, Closing, gapExceeded
  <2>10. Sampled'
    BY <2>1, <2>2, <2>3, <2>4, <2>5, <1>q, FrameTypes DEF Sampled, Alive, Young, Unseen, PeerStaged, PortStaged, Settled, Silence, Opening, Closing, gapExceeded
  <2>11. Told'
    BY <2>1, <2>2, <2>3, <2>4, <2>5, <1>q, FrameTypes DEF Told, Witnessed, PeerStaged, PortStaged, Sampled, Settled, Alive, Opening, Closing
  <2> QED BY <2>6, <2>7, <2>8, <2>9, <2>10, <2>11 DEF PeerInv
<1>2. CASE ~(identity /\ attached)
  <2>1. /\ port.pc = "attach"
        /\ UNCHANGED <<peer, pipe, frames, listening, opens, long>>
        /\ port' = [port EXCEPT !.pc = "service", !.failure = "ready-transport-failed"]
    BY <1>2, <1>0 DEF AttachPeer, StartFailed, network
  <2>2. port' \in PortStates /\ port'.pc = "service" /\ port'.ready = port.ready /\ port'.finalReady = port.finalReady /\ port'.result = port.result
    BY <2>1, <1>q, FrameTypes DEF PortStates, PortStages, PortFailures, Opening, Closing
  <2>3. PeerTypes'
    BY <2>1, <2>2, <1>q DEF PeerTypes
  <2>4. PortStaged'
    BY <2>1, <2>2, <1>q, FrameTypes DEF PortStaged, Settled, Silence, Opening, Closing, PortStages, decodedPeerFinal
  <2>5. PeerStaged'
    BY <2>1, <2>2, <1>q, FrameTypes DEF PeerStaged, PortStaged, Settled, Silence, Alive, Opening, Closing
  <2>6. Young'
    BY <2>1, <2>2, <1>q, FrameTypes DEF Young, Unseen, Alive, PeerStaged, PortStaged, Silence, Settled, Opening, Closing, gapExceeded
  <2>7. Sampled'
    BY <2>1, <2>2, <1>q, FrameTypes DEF Sampled, Alive, Young, Unseen, PeerStaged, PortStaged, Settled, Silence, Opening, Closing, gapExceeded
  <2>8. Told'
    BY <2>1, <2>2, <1>q, FrameTypes DEF Told, Witnessed, PeerStaged, PortStaged, Sampled, Settled, Alive, Opening, Closing
  <2> QED BY <2>3, <2>4, <2>5, <2>6, <2>7, <2>8 DEF PeerInv
<1> QED BY <1>0, <1>1, <1>2 DEF AttachPeer, StartFailed

LEMMA AwaitPeerReadyKeeps ==
  ASSUME PeerInv, NEW inTime \in BOOLEAN, AwaitPeerReady(inTime)
  PROVE  PeerInv'
<1> USE PeerAssumption
<1>0. PeerInv /\ AwaitPeerReady(inTime)
  OBVIOUS
<1>q. /\ PeerTypes /\ PortStaged /\ PeerStaged /\ Young /\ Sampled /\ Told
      /\ port \in PortStates /\ peer \in PeerStates /\ pipe \in [queue : Seq({"start", "stop"}), closed : BOOLEAN]
      /\ frames \in StreamStates(PeerFrames) /\ listening \in [Endpoints -> Nat] /\ opens \in Nat
      /\ long \subseteq Endpoints /\ peer.clock \in Nat /\ peer.samples \in Nat /\ peer.samples + 1 \in Nat
      /\ pipe.queue \in Seq({"start", "stop"})
      /\ (pipe.queue # <<>> => Tail(pipe.queue) \in Seq({"start", "stop"}) /\ Len(Tail(pipe.queue)) = Len(pipe.queue) - 1)
  BY TailIn DEF PeerInv, PeerTypes, PeerStates
<1>t. frames.events # <<>> =>
        /\ TakeFrame(frames) \in StreamStates(PeerFrames) /\ Head(frames.events) \in PeerFrames
        /\ Head(frames.events) = frames.events[1] /\ 1 \in DOMAIN frames.events
        /\ \A i \in DOMAIN TakeFrame(frames).events :
             \E j \in DOMAIN frames.events : TakeFrame(frames).events[i] = frames.events[j]
  BY <1>q, TakeFrameShrinks
<1>1. CASE frames' = TakeFrame(frames) /\ frames.events # <<>> /\ Head(frames.events).type = "ready" /\ port' = [port EXCEPT !.pc = "isolation"] /\ pipe' = pipe
  <2>1. /\ port.pc = "ready" /\ frames.events # <<>> /\ Head(frames.events).type = "ready"
        /\ UNCHANGED <<peer, pipe, listening, opens, long>>
        /\ port' = [port EXCEPT !.pc = "isolation"]
        /\ frames' = TakeFrame(frames)
    BY <1>1, <1>0 DEF AwaitPeerReady, PeerTaken, PeerExpired, StartFailed, peerAbort, network
  <2>2. port' \in PortStates /\ port'.pc = "isolation" /\ port'.ready = port.ready /\ port'.finalReady = port.finalReady /\ port'.result = port.result
    BY <2>1, <1>q, <1>t, FrameTypes DEF PortStates, PortStages, PortFailures, Opening, Closing
  <2>3. /\ frames' \in StreamStates(PeerFrames)
        /\ \A i \in DOMAIN frames'.events : \E j \in DOMAIN frames.events : frames'.events[i] = frames.events[j]
    BY <2>1, <1>t
  <2>4. PeerTypes'
    BY <2>1, <2>2, <2>3, <1>q DEF PeerTypes
  <2>5. PortStaged'
    BY <2>1, <2>2, <2>3, <1>q, <1>t, FrameTypes DEF PortStaged, Settled, Silence, Opening, Closing, PortStages, decodedPeerFinal
  <2>6. PeerStaged'
    BY <2>1, <2>2, <2>3, <1>q, <1>t, FrameTypes DEF PeerStaged, PortStaged, Settled, Silence, Alive, Opening, Closing, Told, Witnessed
  <2>7. Young'
    BY <2>1, <2>2, <2>3, <1>q, <1>t, FrameTypes DEF Young, Unseen, Alive, PeerStaged, PortStaged, Silence, Settled, Opening, Closing, gapExceeded
  <2>8. Sampled'
    BY <2>1, <2>2, <2>3, <1>q, <1>t, FrameTypes DEF Sampled, Alive, Young, Unseen, PeerStaged, PortStaged, Settled, Silence, Opening, Closing, gapExceeded
  <2>9. Told'
    BY <2>1, <2>2, <2>3, <1>q, <1>t, FrameTypes DEF Told, Witnessed, PeerStaged, PortStaged, Sampled, Settled, Alive, Opening, Closing
  <2> QED BY <2>4, <2>5, <2>6, <2>7, <2>8, <2>9 DEF PeerInv
<1>2. CASE frames' = TakeFrame(frames) /\ frames.events # <<>> /\ port' = StartFailed(port) /\ peerAbort
  <2>1. /\ port.pc = "ready" /\ frames.events # <<>>
        /\ UNCHANGED <<peer, listening, opens, long>>
        /\ port' = [port EXCEPT !.pc = "service", !.failure = "ready-transport-failed"]
        /\ pipe' = [pipe EXCEPT !.closed = TRUE]
        /\ frames' = TakeFrame(frames)
    BY <1>2, <1>0 DEF AwaitPeerReady, PeerTaken, PeerExpired, StartFailed, peerAbort, network
  <2>2. port' \in PortStates /\ port'.pc = "service" /\ port'.ready = port.ready /\ port'.finalReady = port.finalReady /\ port'.result = port.result
    BY <2>1, <1>q, <1>t, FrameTypes DEF PortStates, PortStages, PortFailures, Opening, Closing
  <2>3. pipe' \in [queue : Seq({"start", "stop"}), closed : BOOLEAN] /\ pipe'.queue = pipe.queue
    BY <2>1, <1>q
  <2>4. /\ frames' \in StreamStates(PeerFrames)
        /\ \A i \in DOMAIN frames'.events : \E j \in DOMAIN frames.events : frames'.events[i] = frames.events[j]
    BY <2>1, <1>t
  <2>5. PeerTypes'
    BY <2>1, <2>2, <2>3, <2>4, <1>q DEF PeerTypes
  <2>6. PortStaged'
    BY <2>1, <2>2, <2>3, <2>4, <1>q, <1>t, FrameTypes DEF PortStaged, Settled, Silence, Opening, Closing, PortStages, decodedPeerFinal
  <2>7. PeerStaged'
    BY <2>1, <2>2, <2>3, <2>4, <1>q, <1>t, FrameTypes DEF PeerStaged, PortStaged, Settled, Silence, Alive, Opening, Closing, Told, Witnessed
  <2>8. Young'
    BY <2>1, <2>2, <2>3, <2>4, <1>q, <1>t, FrameTypes DEF Young, Unseen, Alive, PeerStaged, PortStaged, Silence, Settled, Opening, Closing, gapExceeded
  <2>9. Sampled'
    BY <2>1, <2>2, <2>3, <2>4, <1>q, <1>t, FrameTypes DEF Sampled, Alive, Young, Unseen, PeerStaged, PortStaged, Settled, Silence, Opening, Closing, gapExceeded
  <2>10. Told'
    BY <2>1, <2>2, <2>3, <2>4, <1>q, <1>t, FrameTypes DEF Told, Witnessed, PeerStaged, PortStaged, Sampled, Settled, Alive, Opening, Closing
  <2> QED BY <2>5, <2>6, <2>7, <2>8, <2>9, <2>10 DEF PeerInv
<1>3. CASE frames' = frames /\ port' = StartFailed(port) /\ peerAbort
  <2>1. /\ port.pc = "ready"
        /\ UNCHANGED <<peer, frames, listening, opens, long>>
        /\ port' = [port EXCEPT !.pc = "service", !.failure = "ready-transport-failed"]
        /\ pipe' = [pipe EXCEPT !.closed = TRUE]
    BY <1>3, <1>0 DEF AwaitPeerReady, PeerTaken, PeerExpired, StartFailed, peerAbort, network
  <2>2. port' \in PortStates /\ port'.pc = "service" /\ port'.ready = port.ready /\ port'.finalReady = port.finalReady /\ port'.result = port.result
    BY <2>1, <1>q, FrameTypes DEF PortStates, PortStages, PortFailures, Opening, Closing
  <2>3. pipe' \in [queue : Seq({"start", "stop"}), closed : BOOLEAN] /\ pipe'.queue = pipe.queue
    BY <2>1, <1>q
  <2>4. PeerTypes'
    BY <2>1, <2>2, <2>3, <1>q DEF PeerTypes
  <2>5. PortStaged'
    BY <2>1, <2>2, <2>3, <1>q, FrameTypes DEF PortStaged, Settled, Silence, Opening, Closing, PortStages, decodedPeerFinal
  <2>6. PeerStaged'
    BY <2>1, <2>2, <2>3, <1>q, FrameTypes DEF PeerStaged, PortStaged, Settled, Silence, Alive, Opening, Closing
  <2>7. Young'
    BY <2>1, <2>2, <2>3, <1>q, FrameTypes DEF Young, Unseen, Alive, PeerStaged, PortStaged, Silence, Settled, Opening, Closing, gapExceeded
  <2>8. Sampled'
    BY <2>1, <2>2, <2>3, <1>q, FrameTypes DEF Sampled, Alive, Young, Unseen, PeerStaged, PortStaged, Settled, Silence, Opening, Closing, gapExceeded
  <2>9. Told'
    BY <2>1, <2>2, <2>3, <1>q, FrameTypes DEF Told, Witnessed, PeerStaged, PortStaged, Sampled, Settled, Alive, Opening, Closing
  <2> QED BY <2>4, <2>5, <2>6, <2>7, <2>8, <2>9 DEF PeerInv
<1> QED BY <1>0, <1>1, <1>2, <1>3 DEF AwaitPeerReady, PeerTaken, PeerExpired, StartFailed, peerAbort

LEMMA VerifyPeerKeeps ==
  ASSUME PeerInv, NEW isolated \in BOOLEAN, NEW identities \in BOOLEAN, VerifyPeer(isolated, identities)
  PROVE  PeerInv'
<1> USE PeerAssumption
<1>0. PeerInv /\ VerifyPeer(isolated, identities)
  OBVIOUS
<1>q. /\ PeerTypes /\ PortStaged /\ PeerStaged /\ Young /\ Sampled /\ Told
      /\ port \in PortStates /\ peer \in PeerStates /\ pipe \in [queue : Seq({"start", "stop"}), closed : BOOLEAN]
      /\ frames \in StreamStates(PeerFrames) /\ listening \in [Endpoints -> Nat] /\ opens \in Nat
      /\ long \subseteq Endpoints /\ peer.clock \in Nat /\ peer.samples \in Nat /\ peer.samples + 1 \in Nat
      /\ pipe.queue \in Seq({"start", "stop"})
      /\ (pipe.queue # <<>> => Tail(pipe.queue) \in Seq({"start", "stop"}) /\ Len(Tail(pipe.queue)) = Len(pipe.queue) - 1)
  BY TailIn DEF PeerInv, PeerTypes, PeerStates
<1>1. CASE isolated /\ identities
  <2>1. /\ port.pc = "isolation"
        /\ UNCHANGED <<peer, pipe, frames, listening, opens, long>>
        /\ port' = [port EXCEPT !.pc = "service", !.ready = TRUE, !.startIdentityVerified = TRUE,
                   !.readyIdentityVerified = TRUE, !.namespaceIsolationVerified = TRUE]
    BY <1>1, <1>0 DEF VerifyPeer, StartFailed, peerAbort, network
  <2>2. port' \in PortStates /\ port'.pc = "service" /\ port'.ready = TRUE /\ port'.finalReady = port.finalReady /\ port'.result = port.result
    BY <2>1, <1>q, FrameTypes DEF PortStates, PortStages, PortFailures, Opening, Closing
  <2>3. PeerTypes'
    BY <2>1, <2>2, <1>q DEF PeerTypes
  <2>4. PortStaged'
    BY <2>1, <2>2, <1>q, FrameTypes DEF PortStaged, Settled, Silence, Opening, Closing, PortStages, decodedPeerFinal
  <2>5. PeerStaged'
    BY <2>1, <2>2, <1>q, FrameTypes DEF PeerStaged, PortStaged, Settled, Silence, Alive, Opening, Closing
  <2>6. Young'
    BY <2>1, <2>2, <1>q, FrameTypes DEF Young, Unseen, Alive, PeerStaged, PortStaged, Silence, Settled, Opening, Closing, gapExceeded
  <2>7. Sampled'
    BY <2>1, <2>2, <1>q, FrameTypes DEF Sampled, Alive, Young, Unseen, PeerStaged, PortStaged, Settled, Silence, Opening, Closing, gapExceeded
  <2>8. Told'
    BY <2>1, <2>2, <1>q, FrameTypes DEF Told, Witnessed, PeerStaged, PortStaged, Sampled, Settled, Alive, Opening, Closing
  <2> QED BY <2>3, <2>4, <2>5, <2>6, <2>7, <2>8 DEF PeerInv
<1>2. CASE ~(isolated /\ identities)
  <2>1. /\ port.pc = "isolation"
        /\ UNCHANGED <<peer, frames, listening, opens, long>>
        /\ port' = [port EXCEPT !.pc = "service", !.failure = "ready-transport-failed"]
        /\ pipe' = [pipe EXCEPT !.closed = TRUE]
    BY <1>2, <1>0 DEF VerifyPeer, StartFailed, peerAbort, network
  <2>2. port' \in PortStates /\ port'.pc = "service" /\ port'.ready = port.ready /\ port'.finalReady = port.finalReady /\ port'.result = port.result
    BY <2>1, <1>q, FrameTypes DEF PortStates, PortStages, PortFailures, Opening, Closing
  <2>3. pipe' \in [queue : Seq({"start", "stop"}), closed : BOOLEAN] /\ pipe'.queue = pipe.queue
    BY <2>1, <1>q
  <2>4. PeerTypes'
    BY <2>1, <2>2, <2>3, <1>q DEF PeerTypes
  <2>5. PortStaged'
    BY <2>1, <2>2, <2>3, <1>q, FrameTypes DEF PortStaged, Settled, Silence, Opening, Closing, PortStages, decodedPeerFinal
  <2>6. PeerStaged'
    BY <2>1, <2>2, <2>3, <1>q, FrameTypes DEF PeerStaged, PortStaged, Settled, Silence, Alive, Opening, Closing
  <2>7. Young'
    BY <2>1, <2>2, <2>3, <1>q, FrameTypes DEF Young, Unseen, Alive, PeerStaged, PortStaged, Silence, Settled, Opening, Closing, gapExceeded
  <2>8. Sampled'
    BY <2>1, <2>2, <2>3, <1>q, FrameTypes DEF Sampled, Alive, Young, Unseen, PeerStaged, PortStaged, Settled, Silence, Opening, Closing, gapExceeded
  <2>9. Told'
    BY <2>1, <2>2, <2>3, <1>q, FrameTypes DEF Told, Witnessed, PeerStaged, PortStaged, Sampled, Settled, Alive, Opening, Closing
  <2> QED BY <2>4, <2>5, <2>6, <2>7, <2>8, <2>9 DEF PeerInv
<1> QED BY <1>0, <1>1, <1>2 DEF VerifyPeer, StartFailed, peerAbort

LEMMA QuiesceServiceKeeps ==
  ASSUME PeerInv, NEW ok \in BOOLEAN, QuiesceService(ok)
  PROVE  PeerInv'
<1> USE PeerAssumption
<1>0. PeerInv /\ QuiesceService(ok)
  OBVIOUS
<1>q. /\ PeerTypes /\ PortStaged /\ PeerStaged /\ Young /\ Sampled /\ Told
      /\ port \in PortStates /\ peer \in PeerStates /\ pipe \in [queue : Seq({"start", "stop"}), closed : BOOLEAN]
      /\ frames \in StreamStates(PeerFrames) /\ listening \in [Endpoints -> Nat] /\ opens \in Nat
      /\ long \subseteq Endpoints /\ peer.clock \in Nat /\ peer.samples \in Nat /\ peer.samples + 1 \in Nat
      /\ pipe.queue \in Seq({"start", "stop"})
      /\ (pipe.queue # <<>> => Tail(pipe.queue) \in Seq({"start", "stop"}) /\ Len(Tail(pipe.queue)) = Len(pipe.queue) - 1)
  BY TailIn DEF PeerInv, PeerTypes, PeerStates
<1>1. CASE ok /\ port.ready
  <2>1. /\ port.pc = "quiesce" /\ port.ready
        /\ UNCHANGED <<peer, pipe, frames, opens, long>>
        /\ port' = [port EXCEPT !.pc = "finish", !.workloadQuiescenceVerified = TRUE]
        /\ listening' = [e \in Endpoints |-> 0]
    BY <1>1, <1>0 DEF QuiesceService, peerAbort, network
  <2>2. port' \in PortStates /\ port'.pc = "finish" /\ port'.ready = port.ready /\ port'.finalReady = port.finalReady /\ port'.result = port.result
    BY <2>1, <1>q, FrameTypes DEF PortStates, PortStages, PortFailures, Opening, Closing
  <2>3. listening' \in [Endpoints -> Nat]
    BY <2>1, <1>q
  <2>4. PeerTypes'
    BY <2>1, <2>2, <2>3, <1>q DEF PeerTypes
  <2>5. PortStaged'
    BY <2>1, <2>2, <2>3, <1>q, FrameTypes DEF PortStaged, Settled, Silence, Opening, Closing, PortStages, decodedPeerFinal
  <2>6. PeerStaged'
    BY <2>1, <2>2, <2>3, <1>q, FrameTypes DEF PeerStaged, PortStaged, Settled, Silence, Alive, Opening, Closing
  <2>7. Young'
    BY <2>1, <2>2, <2>3, <1>q, FrameTypes DEF Young, Unseen, Alive, PeerStaged, PortStaged, Silence, Settled, Opening, Closing, gapExceeded
  <2>8. Sampled'
    BY <2>1, <2>2, <2>3, <1>q, FrameTypes DEF Sampled, Alive, Young, Unseen, PeerStaged, PortStaged, Settled, Silence, Opening, Closing, gapExceeded
  <2>9. Told'
    BY <2>1, <2>2, <2>3, <1>q, FrameTypes DEF Told, Witnessed, PeerStaged, PortStaged, Sampled, Settled, Alive, Opening, Closing
  <2> QED BY <2>4, <2>5, <2>6, <2>7, <2>8, <2>9 DEF PeerInv
<1>2. CASE ok /\ ~port.ready
  <2>1. /\ port.pc = "quiesce"
        /\ UNCHANGED <<peer, pipe, frames, opens, long>>
        /\ port' = [port EXCEPT !.pc = "remove", !.workloadQuiescenceVerified = TRUE]
        /\ listening' = [e \in Endpoints |-> 0]
    BY <1>2, <1>0 DEF QuiesceService, peerAbort, network
  <2>2. port' \in PortStates /\ port'.pc = "remove" /\ port'.ready = port.ready /\ port'.finalReady = port.finalReady /\ port'.result = port.result
    BY <2>1, <1>q, FrameTypes DEF PortStates, PortStages, PortFailures, Opening, Closing
  <2>3. listening' \in [Endpoints -> Nat]
    BY <2>1, <1>q
  <2>4. PeerTypes'
    BY <2>1, <2>2, <2>3, <1>q DEF PeerTypes
  <2>5. PortStaged'
    BY <2>1, <2>2, <2>3, <1>q, FrameTypes DEF PortStaged, Settled, Silence, Opening, Closing, PortStages, decodedPeerFinal
  <2>6. PeerStaged'
    BY <2>1, <2>2, <2>3, <1>q, FrameTypes DEF PeerStaged, PortStaged, Settled, Silence, Alive, Opening, Closing
  <2>7. Young'
    BY <2>1, <2>2, <2>3, <1>q, FrameTypes DEF Young, Unseen, Alive, PeerStaged, PortStaged, Silence, Settled, Opening, Closing, gapExceeded
  <2>8. Sampled'
    BY <2>1, <2>2, <2>3, <1>q, FrameTypes DEF Sampled, Alive, Young, Unseen, PeerStaged, PortStaged, Settled, Silence, Opening, Closing, gapExceeded
  <2>9. Told'
    BY <2>1, <2>2, <2>3, <1>q, FrameTypes DEF Told, Witnessed, PeerStaged, PortStaged, Sampled, Settled, Alive, Opening, Closing
  <2> QED BY <2>4, <2>5, <2>6, <2>7, <2>8, <2>9 DEF PeerInv
<1>3. CASE ~ok
  <2>1. /\ port.pc = "quiesce"
        /\ UNCHANGED <<peer, frames, listening, opens, long>>
        /\ port' = [port EXCEPT !.pc = "remove", !.failure = "workload-quiescence-failed"]
        /\ pipe' = [pipe EXCEPT !.closed = TRUE]
    BY <1>3, <1>0 DEF QuiesceService, peerAbort, network
  <2>2. port' \in PortStates /\ port'.pc = "remove" /\ port'.ready = port.ready /\ port'.finalReady = port.finalReady /\ port'.result = port.result
    BY <2>1, <1>q, FrameTypes DEF PortStates, PortStages, PortFailures, Opening, Closing
  <2>3. pipe' \in [queue : Seq({"start", "stop"}), closed : BOOLEAN] /\ pipe'.queue = pipe.queue
    BY <2>1, <1>q
  <2>4. PeerTypes'
    BY <2>1, <2>2, <2>3, <1>q DEF PeerTypes
  <2>5. PortStaged'
    BY <2>1, <2>2, <2>3, <1>q, FrameTypes DEF PortStaged, Settled, Silence, Opening, Closing, PortStages, decodedPeerFinal
  <2>6. PeerStaged'
    BY <2>1, <2>2, <2>3, <1>q, FrameTypes DEF PeerStaged, PortStaged, Settled, Silence, Alive, Opening, Closing
  <2>7. Young'
    BY <2>1, <2>2, <2>3, <1>q, FrameTypes DEF Young, Unseen, Alive, PeerStaged, PortStaged, Silence, Settled, Opening, Closing, gapExceeded
  <2>8. Sampled'
    BY <2>1, <2>2, <2>3, <1>q, FrameTypes DEF Sampled, Alive, Young, Unseen, PeerStaged, PortStaged, Settled, Silence, Opening, Closing, gapExceeded
  <2>9. Told'
    BY <2>1, <2>2, <2>3, <1>q, FrameTypes DEF Told, Witnessed, PeerStaged, PortStaged, Sampled, Settled, Alive, Opening, Closing
  <2> QED BY <2>4, <2>5, <2>6, <2>7, <2>8, <2>9 DEF PeerInv
<1> QED BY <1>0, <1>1, <1>2, <1>3 DEF QuiesceService, peerAbort

LEMMA FinishPeerKeeps ==
  ASSUME PeerInv, NEW identities \in BOOLEAN, NEW written \in BOOLEAN, FinishPeer(identities, written)
  PROVE  PeerInv'
<1> USE PeerAssumption
<1>0. PeerInv /\ FinishPeer(identities, written)
  OBVIOUS
<1>q. /\ PeerTypes /\ PortStaged /\ PeerStaged /\ Young /\ Sampled /\ Told
      /\ port \in PortStates /\ peer \in PeerStates /\ pipe \in [queue : Seq({"start", "stop"}), closed : BOOLEAN]
      /\ frames \in StreamStates(PeerFrames) /\ listening \in [Endpoints -> Nat] /\ opens \in Nat
      /\ long \subseteq Endpoints /\ peer.clock \in Nat /\ peer.samples \in Nat /\ peer.samples + 1 \in Nat
      /\ pipe.queue \in Seq({"start", "stop"})
      /\ (pipe.queue # <<>> => Tail(pipe.queue) \in Seq({"start", "stop"}) /\ Len(Tail(pipe.queue)) = Len(pipe.queue) - 1)
  BY TailIn DEF PeerInv, PeerTypes, PeerStates
<1>1. CASE identities /\ written
  <2>1. /\ port.pc = "finish"
        /\ UNCHANGED <<peer, frames, listening, opens, long>>
        /\ port' = [port EXCEPT !.pc = "final"]
        /\ pipe' = [queue |-> Append(pipe.queue, "stop"), closed |-> TRUE]
    BY <1>1, <1>0 DEF FinishPeer, FinishFailed, peerAbort, network
  <2>2. port' \in PortStates /\ port'.pc = "final" /\ port'.ready = port.ready /\ port'.finalReady = port.finalReady /\ port'.result = port.result
    BY <2>1, <1>q, FrameTypes DEF PortStates, PortStages, PortFailures, Opening, Closing
  <2>3. pipe' \in [queue : Seq({"start", "stop"}), closed : BOOLEAN] /\ pipe'.queue = Append(pipe.queue, "stop")
    BY <2>1, <1>q
  <2>4. PeerTypes'
    BY <2>1, <2>2, <2>3, <1>q DEF PeerTypes
  <2>5. PortStaged'
    BY <2>1, <2>2, <2>3, <1>q, FrameTypes DEF PortStaged, Settled, Silence, Opening, Closing, PortStages, decodedPeerFinal
  <2>6. PeerStaged'
    BY <2>1, <2>2, <2>3, <1>q, FrameTypes DEF PeerStaged, PortStaged, Settled, Silence, Alive, Opening, Closing
  <2>7. Young'
    BY <2>1, <2>2, <2>3, <1>q, FrameTypes DEF Young, Unseen, Alive, PeerStaged, PortStaged, Silence, Settled, Opening, Closing, gapExceeded
  <2>8. Sampled'
    BY <2>1, <2>2, <2>3, <1>q, FrameTypes DEF Sampled, Alive, Young, Unseen, PeerStaged, PortStaged, Settled, Silence, Opening, Closing, gapExceeded
  <2>9. Told'
    BY <2>1, <2>2, <2>3, <1>q, FrameTypes DEF Told, Witnessed, PeerStaged, PortStaged, Sampled, Settled, Alive, Opening, Closing
  <2> QED BY <2>4, <2>5, <2>6, <2>7, <2>8, <2>9 DEF PeerInv
<1>2. CASE ~(identities /\ written)
  <2>1. /\ port.pc = "finish"
        /\ UNCHANGED <<peer, frames, listening, opens, long>>
        /\ port' = [port EXCEPT !.pc = "remove", !.failure = "final-transport-failed"]
        /\ pipe' = [pipe EXCEPT !.closed = TRUE]
    BY <1>2, <1>0 DEF FinishPeer, FinishFailed, peerAbort, network
  <2>2. port' \in PortStates /\ port'.pc = "remove" /\ port'.ready = port.ready /\ port'.finalReady = port.finalReady /\ port'.result = port.result
    BY <2>1, <1>q, FrameTypes DEF PortStates, PortStages, PortFailures, Opening, Closing
  <2>3. pipe' \in [queue : Seq({"start", "stop"}), closed : BOOLEAN] /\ pipe'.queue = pipe.queue
    BY <2>1, <1>q
  <2>4. PeerTypes'
    BY <2>1, <2>2, <2>3, <1>q DEF PeerTypes
  <2>5. PortStaged'
    BY <2>1, <2>2, <2>3, <1>q, FrameTypes DEF PortStaged, Settled, Silence, Opening, Closing, PortStages, decodedPeerFinal
  <2>6. PeerStaged'
    BY <2>1, <2>2, <2>3, <1>q, FrameTypes DEF PeerStaged, PortStaged, Settled, Silence, Alive, Opening, Closing
  <2>7. Young'
    BY <2>1, <2>2, <2>3, <1>q, FrameTypes DEF Young, Unseen, Alive, PeerStaged, PortStaged, Silence, Settled, Opening, Closing, gapExceeded
  <2>8. Sampled'
    BY <2>1, <2>2, <2>3, <1>q, FrameTypes DEF Sampled, Alive, Young, Unseen, PeerStaged, PortStaged, Settled, Silence, Opening, Closing, gapExceeded
  <2>9. Told'
    BY <2>1, <2>2, <2>3, <1>q, FrameTypes DEF Told, Witnessed, PeerStaged, PortStaged, Sampled, Settled, Alive, Opening, Closing
  <2> QED BY <2>4, <2>5, <2>6, <2>7, <2>8, <2>9 DEF PeerInv
<1> QED BY <1>0, <1>1, <1>2 DEF FinishPeer, FinishFailed, peerAbort

LEMMA AwaitPeerFinalKeeps ==
  ASSUME PeerInv, NEW inTime \in BOOLEAN, AwaitPeerFinal(inTime)
  PROVE  PeerInv'
<1> USE PeerAssumption
<1>0. PeerInv /\ AwaitPeerFinal(inTime)
  OBVIOUS
<1>q. /\ PeerTypes /\ PortStaged /\ PeerStaged /\ Young /\ Sampled /\ Told
      /\ port \in PortStates /\ peer \in PeerStates /\ pipe \in [queue : Seq({"start", "stop"}), closed : BOOLEAN]
      /\ frames \in StreamStates(PeerFrames) /\ listening \in [Endpoints -> Nat] /\ opens \in Nat
      /\ long \subseteq Endpoints /\ peer.clock \in Nat /\ peer.samples \in Nat /\ peer.samples + 1 \in Nat
      /\ pipe.queue \in Seq({"start", "stop"})
      /\ (pipe.queue # <<>> => Tail(pipe.queue) \in Seq({"start", "stop"}) /\ Len(Tail(pipe.queue)) = Len(pipe.queue) - 1)
  BY TailIn DEF PeerInv, PeerTypes, PeerStates
<1>t. frames.events # <<>> =>
        /\ TakeFrame(frames) \in StreamStates(PeerFrames) /\ Head(frames.events) \in PeerFrames
        /\ Head(frames.events) = frames.events[1] /\ 1 \in DOMAIN frames.events
        /\ \A i \in DOMAIN TakeFrame(frames).events :
             \E j \in DOMAIN frames.events : TakeFrame(frames).events[i] = frames.events[j]
  BY <1>q, TakeFrameShrinks
<1>1. CASE frames' = TakeFrame(frames) /\ frames.events # <<>> /\ decodedPeerFinal(Head(frames.events)) /\ port' = [port EXCEPT !.pc = "exit", !.result = Head(frames.events)] /\ pipe' = pipe
  <2>1. /\ port.pc = "final" /\ decodedPeerFinal(Head(frames.events)) /\ frames.events # <<>>
        /\ UNCHANGED <<peer, pipe, listening, opens, long>>
        /\ port' = [port EXCEPT !.pc = "exit", !.result = Head(frames.events)]
        /\ frames' = TakeFrame(frames)
    BY <1>1, <1>0 DEF AwaitPeerFinal, PeerTaken, PeerExpired, FinishFailed, peerAbort, network
  <2>2. port' \in PortStates /\ port'.pc = "exit" /\ port'.ready = port.ready /\ port'.finalReady = port.finalReady /\ port'.result = Head(frames.events)
    BY <2>1, <1>q, <1>t, FrameTypes DEF PortStates, PortStages, PortFailures, Opening, Closing
  <2>3. /\ frames' \in StreamStates(PeerFrames)
        /\ \A i \in DOMAIN frames'.events : \E j \in DOMAIN frames.events : frames'.events[i] = frames.events[j]
    BY <2>1, <1>t
  <2>4. PeerTypes'
    BY <2>1, <2>2, <2>3, <1>q DEF PeerTypes
  <2>5. PortStaged'
    BY <2>1, <2>2, <2>3, <1>q, <1>t, FrameTypes DEF PortStaged, Settled, Silence, Opening, Closing, PortStages, decodedPeerFinal
  <2>6. PeerStaged'
    BY <2>1, <2>2, <2>3, <1>q, <1>t, FrameTypes DEF PeerStaged, PortStaged, Settled, Silence, Alive, Opening, Closing, Told, Witnessed
  <2>7. Young'
    BY <2>1, <2>2, <2>3, <1>q, <1>t, FrameTypes DEF Young, Unseen, Alive, PeerStaged, PortStaged, Silence, Settled, Opening, Closing, gapExceeded
  <2>8. Sampled'
    BY <2>1, <2>2, <2>3, <1>q, <1>t, FrameTypes DEF Sampled, Alive, Young, Unseen, PeerStaged, PortStaged, Settled, Silence, Opening, Closing, gapExceeded
  <2>9. Told'
    BY <2>1, <2>2, <2>3, <1>q, <1>t, FrameTypes DEF Told, Witnessed, PeerStaged, PortStaged, Sampled, Settled, Alive, Opening, Closing
  <2> QED BY <2>4, <2>5, <2>6, <2>7, <2>8, <2>9 DEF PeerInv
<1>2. CASE frames' = TakeFrame(frames) /\ frames.events # <<>> /\ port' = FinishFailed(port) /\ peerAbort
  <2>1. /\ port.pc = "final" /\ frames.events # <<>>
        /\ UNCHANGED <<peer, listening, opens, long>>
        /\ port' = [port EXCEPT !.pc = "remove", !.failure = "final-transport-failed"]
        /\ pipe' = [pipe EXCEPT !.closed = TRUE]
        /\ frames' = TakeFrame(frames)
    BY <1>2, <1>0 DEF AwaitPeerFinal, PeerTaken, PeerExpired, FinishFailed, peerAbort, network
  <2>2. port' \in PortStates /\ port'.pc = "remove" /\ port'.ready = port.ready /\ port'.finalReady = port.finalReady /\ port'.result = port.result
    BY <2>1, <1>q, <1>t, FrameTypes DEF PortStates, PortStages, PortFailures, Opening, Closing
  <2>3. pipe' \in [queue : Seq({"start", "stop"}), closed : BOOLEAN] /\ pipe'.queue = pipe.queue
    BY <2>1, <1>q
  <2>4. /\ frames' \in StreamStates(PeerFrames)
        /\ \A i \in DOMAIN frames'.events : \E j \in DOMAIN frames.events : frames'.events[i] = frames.events[j]
    BY <2>1, <1>t
  <2>5. PeerTypes'
    BY <2>1, <2>2, <2>3, <2>4, <1>q DEF PeerTypes
  <2>6. PortStaged'
    BY <2>1, <2>2, <2>3, <2>4, <1>q, <1>t, FrameTypes DEF PortStaged, Settled, Silence, Opening, Closing, PortStages, decodedPeerFinal
  <2>7. PeerStaged'
    BY <2>1, <2>2, <2>3, <2>4, <1>q, <1>t, FrameTypes DEF PeerStaged, PortStaged, Settled, Silence, Alive, Opening, Closing, Told, Witnessed
  <2>8. Young'
    BY <2>1, <2>2, <2>3, <2>4, <1>q, <1>t, FrameTypes DEF Young, Unseen, Alive, PeerStaged, PortStaged, Silence, Settled, Opening, Closing, gapExceeded
  <2>9. Sampled'
    BY <2>1, <2>2, <2>3, <2>4, <1>q, <1>t, FrameTypes DEF Sampled, Alive, Young, Unseen, PeerStaged, PortStaged, Settled, Silence, Opening, Closing, gapExceeded
  <2>10. Told'
    BY <2>1, <2>2, <2>3, <2>4, <1>q, <1>t, FrameTypes DEF Told, Witnessed, PeerStaged, PortStaged, Sampled, Settled, Alive, Opening, Closing
  <2> QED BY <2>5, <2>6, <2>7, <2>8, <2>9, <2>10 DEF PeerInv
<1>3. CASE frames' = frames /\ port' = FinishFailed(port) /\ peerAbort
  <2>1. /\ port.pc = "final"
        /\ UNCHANGED <<peer, frames, listening, opens, long>>
        /\ port' = [port EXCEPT !.pc = "remove", !.failure = "final-transport-failed"]
        /\ pipe' = [pipe EXCEPT !.closed = TRUE]
    BY <1>3, <1>0 DEF AwaitPeerFinal, PeerTaken, PeerExpired, FinishFailed, peerAbort, network
  <2>2. port' \in PortStates /\ port'.pc = "remove" /\ port'.ready = port.ready /\ port'.finalReady = port.finalReady /\ port'.result = port.result
    BY <2>1, <1>q, FrameTypes DEF PortStates, PortStages, PortFailures, Opening, Closing
  <2>3. pipe' \in [queue : Seq({"start", "stop"}), closed : BOOLEAN] /\ pipe'.queue = pipe.queue
    BY <2>1, <1>q
  <2>4. PeerTypes'
    BY <2>1, <2>2, <2>3, <1>q DEF PeerTypes
  <2>5. PortStaged'
    BY <2>1, <2>2, <2>3, <1>q, FrameTypes DEF PortStaged, Settled, Silence, Opening, Closing, PortStages, decodedPeerFinal
  <2>6. PeerStaged'
    BY <2>1, <2>2, <2>3, <1>q, FrameTypes DEF PeerStaged, PortStaged, Settled, Silence, Alive, Opening, Closing
  <2>7. Young'
    BY <2>1, <2>2, <2>3, <1>q, FrameTypes DEF Young, Unseen, Alive, PeerStaged, PortStaged, Silence, Settled, Opening, Closing, gapExceeded
  <2>8. Sampled'
    BY <2>1, <2>2, <2>3, <1>q, FrameTypes DEF Sampled, Alive, Young, Unseen, PeerStaged, PortStaged, Settled, Silence, Opening, Closing, gapExceeded
  <2>9. Told'
    BY <2>1, <2>2, <2>3, <1>q, FrameTypes DEF Told, Witnessed, PeerStaged, PortStaged, Sampled, Settled, Alive, Opening, Closing
  <2> QED BY <2>4, <2>5, <2>6, <2>7, <2>8, <2>9 DEF PeerInv
<1> QED BY <1>0, <1>1, <1>2, <1>3 DEF AwaitPeerFinal, PeerTaken, PeerExpired, FinishFailed, peerAbort

LEMMA AwaitPeerExitKeeps ==
  ASSUME PeerInv, NEW inTime \in BOOLEAN, NEW identities \in BOOLEAN, AwaitPeerExit(inTime, identities)
  PROVE  PeerInv'
<1> USE PeerAssumption
<1>0. PeerInv /\ AwaitPeerExit(inTime, identities)
  OBVIOUS
<1>q. /\ PeerTypes /\ PortStaged /\ PeerStaged /\ Young /\ Sampled /\ Told
      /\ port \in PortStates /\ peer \in PeerStates /\ pipe \in [queue : Seq({"start", "stop"}), closed : BOOLEAN]
      /\ frames \in StreamStates(PeerFrames) /\ listening \in [Endpoints -> Nat] /\ opens \in Nat
      /\ long \subseteq Endpoints /\ peer.clock \in Nat /\ peer.samples \in Nat /\ peer.samples + 1 \in Nat
      /\ pipe.queue \in Seq({"start", "stop"})
      /\ (pipe.queue # <<>> => Tail(pipe.queue) \in Seq({"start", "stop"}) /\ Len(Tail(pipe.queue)) = Len(pipe.queue) - 1)
  BY TailIn DEF PeerInv, PeerTypes, PeerStates
<1>1. CASE port' = [port EXCEPT !.pc = "remove", !.finalReady = TRUE, !.finalIdentityVerified = TRUE]
  <2>1. /\ port.pc = "exit"
        /\ UNCHANGED <<peer, frames, listening, opens, long>>
        /\ port' = [port EXCEPT !.pc = "remove", !.finalReady = TRUE, !.finalIdentityVerified = TRUE]
        /\ pipe' = [pipe EXCEPT !.closed = TRUE]
    BY <1>1, <1>0 DEF AwaitPeerExit, FinishFailed, peerAbort, network
  <2>2. port' \in PortStates /\ port'.pc = "remove" /\ port'.ready = port.ready /\ port'.finalReady = TRUE /\ port'.result = port.result
    BY <2>1, <1>q, FrameTypes DEF PortStates, PortStages, PortFailures, Opening, Closing
  <2>3. pipe' \in [queue : Seq({"start", "stop"}), closed : BOOLEAN] /\ pipe'.queue = pipe.queue
    BY <2>1, <1>q
  <2>4. PeerTypes'
    BY <2>1, <2>2, <2>3, <1>q DEF PeerTypes
  <2>5. PortStaged'
    BY <2>1, <2>2, <2>3, <1>q, FrameTypes DEF PortStaged, Settled, Silence, Opening, Closing, PortStages, decodedPeerFinal
  <2>6. PeerStaged'
    BY <2>1, <2>2, <2>3, <1>q, FrameTypes DEF PeerStaged, PortStaged, Settled, Silence, Alive, Opening, Closing
  <2>7. Young'
    BY <2>1, <2>2, <2>3, <1>q, FrameTypes DEF Young, Unseen, Alive, PeerStaged, PortStaged, Silence, Settled, Opening, Closing, gapExceeded
  <2>8. Sampled'
    BY <2>1, <2>2, <2>3, <1>q, FrameTypes DEF Sampled, Alive, Young, Unseen, PeerStaged, PortStaged, Settled, Silence, Opening, Closing, gapExceeded
  <2>9. Told'
    BY <2>1, <2>2, <2>3, <1>q, FrameTypes DEF Told, Witnessed, PeerStaged, PortStaged, Sampled, Settled, Alive, Opening, Closing
  <2> QED BY <2>4, <2>5, <2>6, <2>7, <2>8, <2>9 DEF PeerInv
<1>2. CASE port' = [FinishFailed(port) EXCEPT !.result = PeerNoResult]
  <2>1. /\ port.pc = "exit"
        /\ UNCHANGED <<peer, frames, listening, opens, long>>
        /\ port' = [[port EXCEPT !.pc = "remove", !.failure = "final-transport-failed"] EXCEPT !.result = PeerNoResult]
        /\ pipe' = [pipe EXCEPT !.closed = TRUE]
    BY <1>2, <1>0 DEF AwaitPeerExit, FinishFailed, peerAbort, network
  <2>2. port' \in PortStates /\ port'.pc = "remove" /\ port'.ready = port.ready /\ port'.finalReady = port.finalReady /\ port'.result = PeerNoResult
    BY <2>1, <1>q, FrameTypes DEF PortStates, PortStages, PortFailures, Opening, Closing
  <2>3. pipe' \in [queue : Seq({"start", "stop"}), closed : BOOLEAN] /\ pipe'.queue = pipe.queue
    BY <2>1, <1>q
  <2>4. PeerTypes'
    BY <2>1, <2>2, <2>3, <1>q DEF PeerTypes
  <2>5. PortStaged'
    BY <2>1, <2>2, <2>3, <1>q, FrameTypes DEF PortStaged, Settled, Silence, Opening, Closing, PortStages, decodedPeerFinal
  <2>6. PeerStaged'
    BY <2>1, <2>2, <2>3, <1>q, FrameTypes DEF PeerStaged, PortStaged, Settled, Silence, Alive, Opening, Closing
  <2>7. Young'
    BY <2>1, <2>2, <2>3, <1>q, FrameTypes DEF Young, Unseen, Alive, PeerStaged, PortStaged, Silence, Settled, Opening, Closing, gapExceeded
  <2>8. Sampled'
    BY <2>1, <2>2, <2>3, <1>q, FrameTypes DEF Sampled, Alive, Young, Unseen, PeerStaged, PortStaged, Settled, Silence, Opening, Closing, gapExceeded
  <2>9. Told'
    BY <2>1, <2>2, <2>3, <1>q, FrameTypes DEF Told, Witnessed, PeerStaged, PortStaged, Sampled, Settled, Alive, Opening, Closing
  <2> QED BY <2>4, <2>5, <2>6, <2>7, <2>8, <2>9 DEF PeerInv
<1> QED BY <1>0, <1>1, <1>2 DEF AwaitPeerExit, FinishFailed, peerAbort

LEMMA RemovePeerKeeps ==
  ASSUME PeerInv, NEW removed \in BOOLEAN, RemovePeer(removed)
  PROVE  PeerInv'
<1> USE PeerAssumption
<1>0. PeerInv /\ RemovePeer(removed)
  OBVIOUS
<1>q. /\ PeerTypes /\ PortStaged /\ PeerStaged /\ Young /\ Sampled /\ Told
      /\ port \in PortStates /\ peer \in PeerStates /\ pipe \in [queue : Seq({"start", "stop"}), closed : BOOLEAN]
      /\ frames \in StreamStates(PeerFrames) /\ listening \in [Endpoints -> Nat] /\ opens \in Nat
      /\ long \subseteq Endpoints /\ peer.clock \in Nat /\ peer.samples \in Nat /\ peer.samples + 1 \in Nat
      /\ pipe.queue \in Seq({"start", "stop"})
      /\ (pipe.queue # <<>> => Tail(pipe.queue) \in Seq({"start", "stop"}) /\ Len(Tail(pipe.queue)) = Len(pipe.queue) - 1)
  BY TailIn DEF PeerInv, PeerTypes, PeerStates
<1>1. CASE port.peerID /\ removed /\ peer.state # "none"
  <2>1. /\ port.pc = "remove" /\ peer.state # "none"
        /\ UNCHANGED <<pipe, frames, listening, opens, long>>
        /\ port' = [port EXCEPT !.pc = "done", !.container = "none", !.peerRemoveVerified = TRUE]
        /\ peer' = [peer EXCEPT !.state = "exited"]
    BY <1>1, <1>0 DEF RemovePeer, PeerExit, network
  <2>2. port' \in PortStates /\ port'.pc = "done" /\ port'.ready = port.ready /\ port'.finalReady = port.finalReady /\ port'.result = port.result
    BY <2>1, <1>q, FrameTypes DEF PortStates, PortStages, PortFailures, Opening, Closing
  <2>3. peer' \in PeerStates /\ peer'.state = "exited" /\ peer'.boundary = peer.boundary /\ peer'.clock = peer.clock /\ peer'.samples = peer.samples /\ peer'.observed = peer.observed
    BY <2>1, <1>q DEF PeerStates
  <2>4. PeerTypes'
    BY <2>1, <2>2, <2>3, <1>q DEF PeerTypes
  <2>5. PortStaged'
    BY <2>1, <2>2, <2>3, <1>q, FrameTypes DEF PortStaged, Settled, Silence, Opening, Closing, PortStages, decodedPeerFinal
  <2>6. PeerStaged'
    BY <2>1, <2>2, <2>3, <1>q, FrameTypes DEF PeerStaged, PortStaged, Settled, Silence, Alive, Opening, Closing
  <2>7. Young'
    BY <2>1, <2>2, <2>3, <1>q, FrameTypes DEF Young, Unseen, Alive, PeerStaged, PortStaged, Silence, Settled, Opening, Closing, gapExceeded
  <2>8. Sampled'
    BY <2>1, <2>2, <2>3, <1>q, FrameTypes DEF Sampled, Alive, Young, Unseen, PeerStaged, PortStaged, Settled, Silence, Opening, Closing, gapExceeded
  <2>9. Told'
    BY <2>1, <2>2, <2>3, <1>q, FrameTypes DEF Told, Witnessed, PeerStaged, PortStaged, Sampled, Settled, Alive, Opening, Closing
  <2> QED BY <2>4, <2>5, <2>6, <2>7, <2>8, <2>9 DEF PeerInv
<1>2. CASE port.peerID /\ removed /\ peer.state = "none"
  <2>1. /\ port.pc = "remove"
        /\ UNCHANGED <<peer, pipe, frames, listening, opens, long>>
        /\ port' = [port EXCEPT !.pc = "done", !.container = "none", !.peerRemoveVerified = TRUE]
    BY <1>2, <1>0 DEF RemovePeer, PeerExit, network
  <2>2. port' \in PortStates /\ port'.pc = "done" /\ port'.ready = port.ready /\ port'.finalReady = port.finalReady /\ port'.result = port.result
    BY <2>1, <1>q, FrameTypes DEF PortStates, PortStages, PortFailures, Opening, Closing
  <2>3. PeerTypes'
    BY <2>1, <2>2, <1>q DEF PeerTypes
  <2>4. PortStaged'
    BY <2>1, <2>2, <1>q, FrameTypes DEF PortStaged, Settled, Silence, Opening, Closing, PortStages, decodedPeerFinal
  <2>5. PeerStaged'
    BY <2>1, <2>2, <1>q, FrameTypes DEF PeerStaged, PortStaged, Settled, Silence, Alive, Opening, Closing
  <2>6. Young'
    BY <2>1, <2>2, <1>q, FrameTypes DEF Young, Unseen, Alive, PeerStaged, PortStaged, Silence, Settled, Opening, Closing, gapExceeded
  <2>7. Sampled'
    BY <2>1, <2>2, <1>q, FrameTypes DEF Sampled, Alive, Young, Unseen, PeerStaged, PortStaged, Settled, Silence, Opening, Closing, gapExceeded
  <2>8. Told'
    BY <2>1, <2>2, <1>q, FrameTypes DEF Told, Witnessed, PeerStaged, PortStaged, Sampled, Settled, Alive, Opening, Closing
  <2> QED BY <2>3, <2>4, <2>5, <2>6, <2>7, <2>8 DEF PeerInv
<1>3. CASE port.peerID /\ ~removed
  <2>1. /\ port.pc = "remove"
        /\ UNCHANGED <<peer, pipe, frames, listening, opens, long>>
        /\ port' = [port EXCEPT !.pc = "done", !.failure = "peer-remove-failed"]
    BY <1>3, <1>0 DEF RemovePeer, PeerExit, network
  <2>2. port' \in PortStates /\ port'.pc = "done" /\ port'.ready = port.ready /\ port'.finalReady = port.finalReady /\ port'.result = port.result
    BY <2>1, <1>q, FrameTypes DEF PortStates, PortStages, PortFailures, Opening, Closing
  <2>3. PeerTypes'
    BY <2>1, <2>2, <1>q DEF PeerTypes
  <2>4. PortStaged'
    BY <2>1, <2>2, <1>q, FrameTypes DEF PortStaged, Settled, Silence, Opening, Closing, PortStages, decodedPeerFinal
  <2>5. PeerStaged'
    BY <2>1, <2>2, <1>q, FrameTypes DEF PeerStaged, PortStaged, Settled, Silence, Alive, Opening, Closing
  <2>6. Young'
    BY <2>1, <2>2, <1>q, FrameTypes DEF Young, Unseen, Alive, PeerStaged, PortStaged, Silence, Settled, Opening, Closing, gapExceeded
  <2>7. Sampled'
    BY <2>1, <2>2, <1>q, FrameTypes DEF Sampled, Alive, Young, Unseen, PeerStaged, PortStaged, Settled, Silence, Opening, Closing, gapExceeded
  <2>8. Told'
    BY <2>1, <2>2, <1>q, FrameTypes DEF Told, Witnessed, PeerStaged, PortStaged, Sampled, Settled, Alive, Opening, Closing
  <2> QED BY <2>3, <2>4, <2>5, <2>6, <2>7, <2>8 DEF PeerInv
<1>4. CASE ~port.peerID
  <2>1. /\ port.pc = "remove"
        /\ UNCHANGED <<peer, pipe, frames, listening, opens, long>>
        /\ port' = [port EXCEPT !.pc = "done"]
    BY <1>4, <1>0 DEF RemovePeer, PeerExit, network
  <2>2. port' \in PortStates /\ port'.pc = "done" /\ port'.ready = port.ready /\ port'.finalReady = port.finalReady /\ port'.result = port.result
    BY <2>1, <1>q, FrameTypes DEF PortStates, PortStages, PortFailures, Opening, Closing
  <2>3. PeerTypes'
    BY <2>1, <2>2, <1>q DEF PeerTypes
  <2>4. PortStaged'
    BY <2>1, <2>2, <1>q, FrameTypes DEF PortStaged, Settled, Silence, Opening, Closing, PortStages, decodedPeerFinal
  <2>5. PeerStaged'
    BY <2>1, <2>2, <1>q, FrameTypes DEF PeerStaged, PortStaged, Settled, Silence, Alive, Opening, Closing
  <2>6. Young'
    BY <2>1, <2>2, <1>q, FrameTypes DEF Young, Unseen, Alive, PeerStaged, PortStaged, Silence, Settled, Opening, Closing, gapExceeded
  <2>7. Sampled'
    BY <2>1, <2>2, <1>q, FrameTypes DEF Sampled, Alive, Young, Unseen, PeerStaged, PortStaged, Settled, Silence, Opening, Closing, gapExceeded
  <2>8. Told'
    BY <2>1, <2>2, <1>q, FrameTypes DEF Told, Witnessed, PeerStaged, PortStaged, Sampled, Settled, Alive, Opening, Closing
  <2> QED BY <2>3, <2>4, <2>5, <2>6, <2>7, <2>8 DEF PeerInv
<1> QED BY <1>0, <1>1, <1>2, <1>3, <1>4 DEF RemovePeer, PeerExit

LEMMA TickKeeps ==
  ASSUME PeerInv, Tick
  PROVE  PeerInv'
<1> USE PeerAssumption
<1>q. /\ PeerTypes /\ PortStaged /\ PeerStaged /\ Young /\ Sampled /\ Told
      /\ port \in PortStates /\ peer \in PeerStates /\ pipe \in [queue : Seq({"start", "stop"}), closed : BOOLEAN]
      /\ frames \in StreamStates(PeerFrames) /\ listening \in [Endpoints -> Nat] /\ opens \in Nat
      /\ long \subseteq Endpoints /\ peer.clock \in Nat /\ peer.samples \in Nat
  BY DEF PeerInv, PeerTypes, PeerStates
<1> DEFINE c == IF peer.clock > MaxGap THEN peer.clock ELSE peer.clock + 1
<1>1. /\ Alive /\ UNCHANGED <<port, pipe, frames, opens>>
      /\ peer' = [peer EXCEPT !.clock = c]
      /\ listening' = [e \in Endpoints |->
           IF listening[e] = 0 \/ listening[e] = Cap THEN listening[e] ELSE listening[e] + 1]
      /\ long' = IF port.ready THEN long \cup {e \in Endpoints : listening'[e] > 2 * MaxGap + 1} ELSE long
  BY DEF Tick, Alive
<1>2. c \in Nat /\ (c <= MaxGap => peer.clock <= MaxGap /\ c = peer.clock + 1)
      /\ (peer.clock > MaxGap => c > MaxGap)
  BY <1>q
<1> HIDE DEF c
<1>3. /\ peer' \in PeerStates /\ peer'.clock = c /\ peer'.state = peer.state /\ peer'.boundary = peer.boundary
      /\ peer'.samples = peer.samples /\ peer'.observed = peer.observed /\ Alive'
  BY <1>1, <1>2, <1>q DEF PeerStates, Alive
<1>4. /\ listening' \in [Endpoints -> Nat]
      /\ \A e \in Endpoints : listening'[e] <= listening[e] + 1 /\ (listening[e] = 0 => listening'[e] = 0)
  BY <1>1, <1>q
<1>5. PeerTypes'
  BY <1>1, <1>3, <1>4, <1>q DEF PeerTypes
<1>6. Silence => Silence'
  BY <1>4 DEF Silence
<1>7. PortStaged'
  BY <1>1, <1>6, <1>q DEF PortStaged, Settled
<1>8. PeerStaged'
  BY <1>1, <1>3, <1>6, <1>q DEF PeerStaged, Settled
<1>9. Young'
  <2>1. ASSUME port.ready, c <= MaxGap, NEW e \in Endpoints \ peer.observed
        PROVE  listening'[e] <= (IF peer.state = "table" THEN 1 + MaxGap + c ELSE 1 + c)
    <3>1. listening[e] <= (IF peer.state = "table" THEN 1 + MaxGap + peer.clock ELSE 1 + peer.clock)
      BY <2>1, <1>1, <1>2, <1>q DEF Young, Unseen
    <3>2. listening[e] \in Nat /\ listening'[e] \in Nat /\ listening'[e] <= listening[e] + 1 /\ c = peer.clock + 1
      BY <2>1, <1>2, <1>4, <1>q
    <3> QED BY <3>1, <3>2, <1>q
  <2> QED BY <2>1, <1>1, <1>3 DEF Young, Unseen
<1>10. Sampled'
  <2>1. ~port.ready => long' = {}
    BY <1>1, <1>q DEF Sampled
  <2>2. ASSUME port.ready, c <= MaxGap
        PROVE  long' \subseteq peer.observed
    <3>1. long \subseteq peer.observed
      BY <2>2, <1>1, <1>2, <1>q DEF Sampled
    <3>2. ASSUME NEW e \in Endpoints \ peer.observed
          PROVE  ~(listening'[e] > 2 * MaxGap + 1)
      <4>1. listening'[e] <= (IF peer.state = "table" THEN 1 + MaxGap + c ELSE 1 + c)
        BY <1>9, <2>2, <1>1, <1>3 DEF Young, Unseen
      <4>2. listening'[e] \in Nat
        BY <1>4
      <4> QED BY <4>1, <4>2, <2>2, <1>2
    <3> QED BY <3>1, <3>2, <2>2, <1>1
  <2>3. ASSUME port.ready, peer.boundary = "final"
        PROVE  long' = long
    <3>1. Silence'
      BY <2>3, <1>6, <1>q DEF PeerStaged, Settled
    <3>2. \A e \in Endpoints : ~(listening'[e] > 2 * MaxGap + 1)
      BY <3>1 DEF Silence
    <3> QED BY <3>2, <1>1
  <2>4. ASSUME port.ready, c > MaxGap, peer.state = "table" /\ peer.boundary = "final"
        PROVE  long' \subseteq peer.observed
    BY <2>3, <2>4, <1>1, <1>q DEF Sampled
  <2> QED BY <2>1, <2>2, <2>4, <1>1, <1>2, <1>3 DEF Sampled
<1>11. Told'
  <2>1. \A f : Witnessed(f) => Witnessed(f)'
    BY <1>1, <1>3 DEF Witnessed, Alive
  <2> QED BY <2>1, <1>1, <1>q DEF Told
<1> QED BY <1>5, <1>7, <1>8, <1>9, <1>10, <1>11 DEF PeerInv

LEMMA CaptureTableKeeps ==
  ASSUME PeerInv, NEW readable \in BOOLEAN, CaptureTable(readable)
  PROVE  PeerInv'
<1> USE PeerAssumption
<1>q. /\ PeerTypes /\ PortStaged /\ PeerStaged /\ Young /\ Sampled /\ Told
      /\ port \in PortStates /\ peer \in PeerStates /\ pipe \in [queue : Seq({"start", "stop"}), closed : BOOLEAN]
      /\ frames \in StreamStates(PeerFrames) /\ listening \in [Endpoints -> Nat] /\ opens \in Nat
      /\ long \subseteq Endpoints /\ peer.clock \in Nat /\ peer.samples \in Nat
  BY DEF PeerInv, PeerTypes, PeerStates
<1> DEFINE fresh == Cardinality(Open \ peer.previous) + Cardinality(peer.previous \ Open)
           sampled == [peer EXCEPT !.previous = Open, !.observed = @ \cup Open,
                         !.transitions = IF peer.samples > 1 THEN @ + fresh ELSE @,
                         !.initial = IF peer.boundary = "initial" THEN Open ELSE @,
                         !.final = IF peer.boundary = "final" THEN Open ELSE @]
           refused == \/ ~readable \/ Cardinality(Open) > EndpointLimit
                      \/ sampled.transitions > TransitionLimit
                      \/ Cardinality(sampled.observed) > EndpointLimit
<1>0. CaptureTable(readable)
  OBVIOUS
<1>1. peer.state = "table" /\ UNCHANGED <<port, pipe, listening, opens, long>>
  BY <1>0 DEF CaptureTable, network
<1>2. fresh \in Nat
  <2>1. Open \in SUBSET Endpoints /\ peer.previous \in SUBSET Endpoints
    BY <1>q DEF Open, PeerStates
  <2>2. IsFiniteSet(Open \ peer.previous) /\ IsFiniteSet(peer.previous \ Open)
    BY <2>1, FS_Subset
  <2> QED BY <2>2, FS_CardinalityType
<1>3. /\ sampled \in PeerStates /\ sampled.state = peer.state /\ sampled.boundary = peer.boundary
      /\ sampled.clock = peer.clock /\ sampled.samples = peer.samples /\ sampled.observed = peer.observed \cup Open
  <2> DEFINE t == IF peer.samples > 1 THEN peer.transitions + fresh ELSE peer.transitions
             i == IF peer.boundary = "initial" THEN Open ELSE peer.initial
             f == IF peer.boundary = "final" THEN Open ELSE peer.final
             o == peer.observed \cup Open
  <2> HIDE DEF fresh
  <2>1. Open \in SUBSET Endpoints /\ o \in SUBSET Endpoints /\ i \in SUBSET Endpoints /\ f \in SUBSET Endpoints
    BY <1>q DEF Open, PeerStates
  <2>2. t \in Nat
    BY <1>2, <1>q DEF PeerStates
  <2>3. sampled = [peer EXCEPT !.previous = Open, !.observed = o, !.transitions = t, !.initial = i, !.final = f]
    BY <1>q DEF PeerStates
  <2> HIDE DEF t, i, f, sampled
  <2>4. sampled.observed = o /\ sampled \in PeerStates
    <3> HIDE DEF o
    <3> QED BY <2>1, <2>2, <2>3, <1>q DEF PeerStates
  <2> QED BY <2>3, <2>4, <1>q DEF PeerStates
<1>4. /\ refused => PeerGivesUp
      /\ ~refused /\ peer.boundary = "initial" =>
           /\ peer' = [sampled EXCEPT !.state = "poll", !.boundary = "poll"]
           /\ frames' = WriteFrame(frames, PeerReadyFrame)
      /\ ~refused /\ peer.boundary = "final" =>
           /\ peer' = PeerExit(sampled)
           /\ frames' = WriteFrame(frames, PeerFinalFrame(sampled, TRUE))
      /\ ~refused /\ peer.boundary = "poll" => peer' = [sampled EXCEPT !.state = "poll"] /\ UNCHANGED frames
  BY <1>0 DEF CaptureTable
<1> HIDE DEF sampled, refused
<1>5. CASE refused
  <2>1. peer' = [peer EXCEPT !.state = "exited"] /\ frames' = WriteFrame(frames, PeerFinalFrame(peer, FALSE))
    BY <1>4, <1>5 DEF PeerGivesUp, PeerExit
  <2>2. /\ peer' \in PeerStates /\ peer'.state = "exited" /\ peer'.boundary = peer.boundary
        /\ peer'.clock = peer.clock /\ peer'.samples = peer.samples /\ peer'.observed = peer.observed
    BY <2>1, <1>q DEF PeerStates
  <2>3. PeerFinalFrame(peer, FALSE).type = "final" /\ ~PeerFinalFrame(peer, FALSE).ok /\ StreamError.type = "error"
    BY DEF PeerFinalFrame, StreamError
  <2>4. frames' \in StreamStates(PeerFrames) /\ Grown(frames', frames, PeerFinalFrame(peer, FALSE))
    BY <2>1, <1>q, FramesOfPeer, WriteFrameGrows
  <2>5. PeerTypes'
    BY <1>1, <2>2, <2>4, <1>q DEF PeerTypes
  <2>6. PortStaged' /\ PeerStaged'
    BY <1>1, <2>2, <1>q DEF PortStaged, PeerStaged, Settled, Silence, Alive, Opening, Closing
  <2>7. Young' /\ Sampled'
    BY <1>1, <2>2, <1>q DEF Young, Sampled, Alive
  <2>8. Told'
    <3>1. \A f : Witnessed(f) => Witnessed(f)'
      BY <1>1, <2>2, <1>q DEF Witnessed
    <3>2. \A f : f.type # "ready" /\ ~(f.type = "final" /\ f.ok) => Witnessed(f)'
      BY DEF Witnessed
    <3>3. \A i \in DOMAIN frames'.events : Witnessed(frames.events[i])'
      BY <1>q, <2>3, <2>4, <3>1, <3>2 DEF Told, Grown
    <3> QED BY <1>q, <1>1, <3>1, <3>3 DEF Told
  <2> QED BY <2>5, <2>6, <2>7, <2>8 DEF PeerInv
<1>6. CASE ~refused /\ peer.boundary = "initial"
  <2>1. peer' = [sampled EXCEPT !.state = "poll", !.boundary = "poll"] /\ frames' = WriteFrame(frames, PeerReadyFrame)
    BY <1>4, <1>6
  <2>2. /\ peer' \in PeerStates /\ peer'.state = "poll" /\ peer'.boundary = "poll" /\ peer'.samples = peer.samples
    BY <2>1, <1>3 DEF PeerStates
  <2>3. PeerReadyFrame.type = "ready" /\ StreamError.type = "error"
    BY FrameTypes
  <2>4. frames' \in StreamStates(PeerFrames) /\ Grown(frames', frames, PeerReadyFrame)
    BY <2>1, <1>q, FramesOfPeer, WriteFrameGrows
  <2>5. ~port.ready
    BY <1>6, <1>q DEF PeerStaged
  <2>6. PeerTypes'
    BY <1>1, <2>2, <2>4, <1>q DEF PeerTypes
  <2>7. PortStaged' /\ PeerStaged'
    BY <1>1, <2>2, <2>5, <1>q DEF PortStaged, PeerStaged, Settled, Silence, Alive, Opening, Closing
  <2>8. Young' /\ Sampled'
    BY <1>1, <2>2, <2>5, <1>q DEF Young, Sampled, Alive
  <2>9. Told'
    <3>1. \A f : Witnessed(f) => Witnessed(f)'
      BY <1>1, <2>2, <1>q DEF Witnessed
    <3>2. \A f : f.type # "final" => Witnessed(f)'
      BY <2>2 DEF Witnessed
    <3>3. \A i \in DOMAIN frames'.events : Witnessed(frames.events[i])'
      BY <1>q, <2>3, <2>4, <3>1, <3>2 DEF Told, Grown
    <3> QED BY <1>q, <1>1, <3>1, <3>3 DEF Told
  <2> QED BY <2>6, <2>7, <2>8, <2>9 DEF PeerInv
<1>7. CASE ~refused /\ peer.boundary = "final"
  <2>1. peer' = [sampled EXCEPT !.state = "exited"] /\ frames' = WriteFrame(frames, PeerFinalFrame(sampled, TRUE))
    BY <1>4, <1>7 DEF PeerExit
  <2>2. /\ peer' \in PeerStates /\ peer'.state = "exited" /\ peer'.boundary = "final" /\ peer'.samples = peer.samples
    BY <2>1, <1>3, <1>7 DEF PeerStates
  <2>3. PeerFinalFrame(sampled, TRUE).type = "final" /\ StreamError.type = "error"
        /\ PeerFinalFrame(sampled, TRUE).observedEndpoints = peer.observed \cup Open
    BY <1>3 DEF PeerFinalFrame, StreamError
  <2>4. frames' \in StreamStates(PeerFrames) /\ Grown(frames', frames, PeerFinalFrame(sampled, TRUE))
    BY <2>1, <1>3, <1>q, FramesOfPeer, WriteFrameGrows
  <2>5. long \subseteq peer.observed
    BY <1>1, <1>7, <1>q DEF PeerStaged, Settled, Sampled, Alive
  <2>6. PeerTypes'
    BY <1>1, <2>2, <2>4, <1>q DEF PeerTypes
  <2>7. PortStaged' /\ PeerStaged'
    BY <1>1, <1>7, <2>2, <1>q DEF PortStaged, PeerStaged, Settled, Silence, Alive, Opening, Closing
  <2>8. Young' /\ Sampled'
    BY <1>1, <2>2, <1>q DEF Young, Sampled, Alive
  <2>9. Told'
    <3>1. \A f : Witnessed(f) => Witnessed(f)'
      BY <1>1, <2>2, <1>q DEF Witnessed
    <3>2. \A f : f.type = "error" \/ (f.type = "final" /\ f.observedEndpoints = peer.observed \cup Open) => Witnessed(f)'
      BY <1>1, <2>2, <2>5 DEF Witnessed
    <3>3. \A i \in DOMAIN frames'.events : Witnessed(frames.events[i])'
      BY <1>q, <2>3, <2>4, <3>1, <3>2 DEF Told, Grown
    <3> QED BY <1>q, <1>1, <3>1, <3>3 DEF Told
  <2> QED BY <2>6, <2>7, <2>8, <2>9 DEF PeerInv
<1>8. CASE ~refused /\ peer.boundary = "poll"
  <2>1. peer' = [sampled EXCEPT !.state = "poll"] /\ UNCHANGED frames
    BY <1>4, <1>8
  <2>2. /\ peer' \in PeerStates /\ peer'.state = "poll" /\ peer'.boundary = "poll" /\ peer'.samples = peer.samples
        /\ peer'.clock = peer.clock /\ peer'.observed = peer.observed \cup Open
    BY <2>1, <1>3, <1>8 DEF PeerStates
  <2>3. PeerTypes'
    BY <1>1, <2>1, <2>2, <1>q DEF PeerTypes
  <2>4. PortStaged' /\ PeerStaged'
    BY <1>1, <1>8, <2>1, <2>2, <1>q DEF PortStaged, PeerStaged, Settled, Silence, Alive, Opening, Closing
  <2>5. Young'
    <3>1. \A e \in Endpoints \ (peer.observed \cup Open) : listening[e] = 0
      BY <1>q DEF Open
    <3> QED BY <3>1, <1>1, <2>2, <1>q DEF Young, Unseen
  <2>6. Sampled'
    BY <1>1, <2>2, <1>q DEF Sampled, Alive
  <2>7. Told'
    BY <1>1, <1>8, <2>1, <2>2, <1>q DEF Told, Witnessed
  <2> QED BY <2>3, <2>4, <2>5, <2>6, <2>7 DEF PeerInv
<1> QED BY <1>5, <1>6, <1>7, <1>8, <1>q DEF PeerStates

LEMMA PeerInvInit ==
  ASSUME PeerInit
  PROVE  PeerInv
<1> USE PeerAssumption
<1>1. /\ port = [InitialPort EXCEPT !.pc = "create"] /\ peer = [StartedPeer EXCEPT !.state = "none"]
      /\ pipe = [queue |-> <<>>, closed |-> FALSE] /\ frames = NewStream(2, FALSE, 2)
      /\ listening = [e \in Endpoints |-> 0] /\ opens = 0 /\ long = {}
  BY DEF PeerInit, PeerAt
<1>2. port \in PortStates /\ port.pc = "create" /\ ~port.ready /\ ~port.finalReady /\ port.result = PeerNoResult
  BY <1>1 DEF InitialPort, PortStates, PortStages, Opening, Closing, PortFailures
<1>3. /\ peer \in PeerStates /\ peer.state = "none" /\ peer.boundary = "initial"
  BY <1>1 DEF StartedPeer, PeerStates
<1>4. frames \in StreamStates(PeerFrames) /\ frames.events = <<>> /\ DOMAIN frames.events = {}
  BY <1>1 DEF NewStream, StreamStates
<1>5. pipe \in [queue : Seq({"start", "stop"}), closed : BOOLEAN] /\ pipe.queue = <<>> /\ Len(pipe.queue) = 0
  BY <1>1
<1>6. PeerTypes
  BY <1>1, <1>2, <1>3, <1>4, <1>5 DEF PeerTypes
<1>7. PortStaged
  BY <1>1, <1>2 DEF PortStaged, Silence, Opening, Closing
<1>8. PeerStaged
  BY <1>2, <1>3, <1>4, <1>5 DEF PeerStaged, Alive
<1>9. Young /\ Sampled
  BY <1>1, <1>2 DEF Young, Sampled
<1>10. Told
  BY <1>2, <1>4, FrameTypes DEF Told, Witnessed
<1> QED BY <1>6, <1>7, <1>8, <1>9, <1>10 DEF PeerInv

LEMMA PeerInvNext ==
  ASSUME PeerInv, PeerNext
  PROVE  PeerInv'
<1>1. CASE PeerHelperNext
  BY <1>1, PeerStartsKeeps, CaptureClockKeeps, PeerInputKeeps, CaptureTableKeeps DEF PeerHelperNext
<1>2. CASE PeerControllerNext
  <2>1. CASE \E a, b, c \in BOOLEAN : CreatePeer(a, b, c)
    BY <2>1, CreatePeerKeeps
  <2>2. CASE \E a, b \in BOOLEAN : AttachPeer(a, b) \/ VerifyPeer(a, b) \/ FinishPeer(a, b) \/ AwaitPeerExit(a, b)
    BY <2>2, AttachPeerKeeps, VerifyPeerKeeps, FinishPeerKeeps, AwaitPeerExitKeeps
  <2>3. CASE \E a \in BOOLEAN : AwaitPeerReady(a) \/ QuiesceService(a) \/ AwaitPeerFinal(a) \/ RemovePeer(a)
    BY <2>3, AwaitPeerReadyKeeps, QuiesceServiceKeeps, AwaitPeerFinalKeeps, RemovePeerKeeps
  <2>4. CASE ServiceEnds
    BY <2>4, ServiceEndsKeeps
  <2> QED BY <1>2, <2>1, <2>2, <2>3, <2>4 DEF PeerControllerNext
<1>3. CASE OpenListener \/ CloseListener \/ Tick
  BY <1>3, OpenListenerKeeps, CloseListenerKeeps, TickKeeps
<1>4. CASE PeerCrash
  BY <1>4, PeerCrashKeeps
<1> QED BY <1>1, <1>2, <1>3, <1>4 DEF PeerNext

LEMMA PeerInvStutters ==
  ASSUME PeerInv, UNCHANGED peerVars
  PROVE  PeerInv'
<1>1. UNCHANGED <<port, peer, pipe, frames, listening, opens, long>>
  BY DEF peerVars
<1>2. PeerTypes' /\ PortStaged' /\ PeerStaged'
  BY <1>1 DEF PeerInv, PeerTypes, PortStaged, PeerStaged, Settled, Silence, Alive
<1>3. Young' /\ Sampled' /\ Told'
  BY <1>1 DEF PeerInv, Young, Unseen, Sampled, Told, Witnessed, Alive
<1> QED BY <1>2, <1>3 DEF PeerInv

\* The inductive invariant decides the property: a session that ended well
\* holds the final frame of a helper that had seen every long listener.
LEMMA PeerInvSees ==
  ASSUME PeerInv
  PROVE  LongListenerIsSeen
<1>1. SUFFICES ASSUME comparePeerPortDeclarations = "no-undeclared-observed"
               PROVE  long \subseteq {Declared}
  BY DEF LongListenerIsSeen
<1>2. /\ port.finalReady /\ port.result.initialEndpoints = {}
      /\ port.result.observedEndpoints \ (port.result.initialEndpoints \cup {Declared}) = {}
  BY <1>1 DEF comparePeerPortDeclarations, completePeerPortObservation
<1>3. long \subseteq port.result.observedEndpoints
  BY <1>2 DEF PeerInv, PortStaged, Told, Witnessed
<1> QED BY <1>2, <1>3

\* A listener that stays open for more than twice the longest gap the helper
\* accepts is in every comparison that finds no undeclared listener
\* (comparePeerPortDeclarations): for any set of endpoints, any gap, any
\* limits on samples, endpoints and transitions, and any number of failed
\* calls, missed deadlines, crashes and listeners.
THEOREM LongListenersAreSeen == PeerSpec => []LongListenerIsSeen
<1>1. PeerInit => PeerInv
  BY PeerInvInit
<1>2. PeerInv /\ [PeerNext]_peerVars => PeerInv'
  BY PeerInvNext, PeerInvStutters
<1>3. PeerInv => LongListenerIsSeen
  BY PeerInvSees
<1> QED BY <1>1, <1>2, <1>3, PTL DEF PeerSpec
=============================================================================

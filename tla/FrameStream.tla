---------------------------- MODULE FrameStream ----------------------------
(***************************************************************************)
(* The line-framed transport between the controller and a helper process   *)
(* (internal/execution/activity_trace_observer.go).  The helper's output   *)
(* is cut into frames; frames wait in a buffered channel until the         *)
(* controller takes them.  Oversized, empty or excess frames invalidate    *)
(* the stream for good.  A frame is a record with a field "type".          *)
(***************************************************************************)
EXTENDS Naturals, Sequences

CONSTANT ChannelSize     \* capacity of the channel of stream events

ASSUME ChannelSizeAssumption == ChannelSize \in Nat \ {0}

\* Bytes that are no frame: an empty line, a line over the frame limit, or
\* output past the transport limit.
Junk == [type |-> "junk"]

\* The event that reports an invalid stream.
StreamError == [type |-> "error"]

\* newActivityTraceFrameStream, newOperationNotificationFrameStream: the
\* first expects exactly two frames, the second one per window and two more,
\* every one of them consumed.
NewStream(frameCountLimit, requireConsumed, minimumFrames) ==
  [events |-> <<>>, frameCount |-> 0, consumed |-> 0, invalid |-> FALSE,
   frameCountLimit |-> frameCountLimit,
   requireConsumed |-> requireConsumed, minimumFrames |-> minimumFrames]

\* invalidateLocked: the error is dropped when the channel is full.
invalidateLocked(s) ==
  [s EXCEPT !.invalid = TRUE,
            !.events = IF Len(@) < ChannelSize THEN Append(@, StreamError) ELSE @]

\* Write blocks while the channel is full.
MayWrite(s) == s.invalid \/ Len(s.events) < ChannelSize

\* Write, for one line of the helper's output.
WriteFrame(s, frame) ==
  IF s.invalid THEN s
  ELSE IF frame = Junk THEN invalidateLocked(s)
  ELSE IF s.frameCount + 1 > s.frameCountLimit
       THEN invalidateLocked([s EXCEPT !.frameCount = @ + 1])
  ELSE [s EXCEPT !.frameCount = @ + 1, !.events = Append(@, frame)]

\* next, when an event is there: an error is taken but not counted.
TakeFrame(s) ==
  [s EXCEPT !.events = Tail(@),
            !.consumed = IF Head(s.events) = StreamError THEN @ ELSE @ + 1]

\* complete
complete(s) ==
  /\ ~s.invalid
  /\ IF s.requireConsumed
     THEN s.frameCount >= s.minimumFrames /\ s.frameCount = s.consumed
     ELSE s.frameCount = s.frameCountLimit
=============================================================================

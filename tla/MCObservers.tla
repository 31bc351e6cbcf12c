---------------------------- MODULE MCObservers ----------------------------
(***************************************************************************)
(* The two observers have no state in common; a behaviour is one of the    *)
(* activity trace or one of the port observer.                             *)
(***************************************************************************)
EXTENDS ActivityTrace, PeerPort, Rendering

\* /outputs holds a directory d and a file y; x in d may be created.
MCPaths == {<<"d", "x">>, <<"y">>}
MCFiles == [p \in {<<"d">>, <<"y">>} |->
              IF p = <<"d">> THEN [type |-> "dir", value |-> 0] ELSE [type |-> "file", value |-> 0]]

\* The two phases may write different things.
MCSteps == <<"setup", "run">>
MCWrites == [phase \in {"setup", "run"} |->
               IF phase = "setup" THEN {[kind |-> "exact", base |-> <<"y">>]}
               ELSE {[kind |-> "child", base |-> <<"d">>]}]

\* Bounds of the workload for each kind of plan.
MCMaxWrites == [compare |-> 2, python |-> 1, node |-> 1]
MCMaxLimitEvents == [compare |-> 0, python |-> 0, node |-> 1]

vars == <<traceVars, peerVars>>

Init == \/ TraceInit /\ PeerAt("done")
        \/ TraceAt("done") /\ mode = "node" /\ PeerInit
Next == \/ TraceNext /\ UNCHANGED peerVars
        \/ PeerNext /\ UNCHANGED traceVars

Spec == /\ Init /\ [][Next]_vars
        /\ WF_vars(ControllerNext /\ UNCHANGED peerVars)
        /\ WF_vars(HelperNext /\ UNCHANGED peerVars)

-----------------------------------------------------------------------------
\* The verification of one repeat with these observations.
ResultOf(observations) == [requested |-> 1, completed |-> 1, observations |-> observations]

TraceReport == ResultOf(Published)
PortReport == ResultOf(<<summarizePeerPortObservation>>)

Rendered(comparison) ==
  CASE comparison \in {"nonconforming-notifications", "nonconforming-retained-state",
                       "nonconforming-listeners"} -> "NONCONFORMING"
    [] comparison = "no-undeclared-observed" -> "NO-UNDECLARED-OBSERVED"
    [] comparison = "conforming-retained-state" -> "CONFORMING"
    [] OTHER -> "NOT-TESTED"

\* The report (rendering/render.go) checks every summary again before it
\* shows it.  Whatever failed on the way, a summary the runner publishes as
\* observed passes those checks, and what was decided is shown as decided.
\* A run that ended before the activity trace was started
\* (runner.go:967-1104) publishes a comparison that was not made and names no
\* reason: that, and nothing else, the report calls not reported.
ReportShowsWhatWasDecided ==
  /\ Done =>
       /\ activityTraceSummaryView(TraceReport) = "BEST-EFFORT" <=> traceObserved
       /\ engineDiffSummaryView(TraceReport) = "BEST-EFFORT" <=>
            summarizeDockerEngineDiff(engine).coverage = "best-effort"
       /\ filesystemSummaryView(TraceReport).comparison =
            Rendered(compareFilesystemRetainedState(filesystem).result)
       /\ filesystemSummaryView(TraceReport).counted <=>
            compareFilesystemRetainedState(filesystem).result # "not-tested"
       /\ operationNotificationSummaryView(TraceReport).comparison =
            IF eligible /\ ctl.step = 1 /\ ctl.failure = "" THEN "NOT REPORTED"
            ELSE Rendered(comparisonResult)
       /\ activityTraceSummaryView(TraceReport) = "BEST-EFFORT" =>
            filesystemWriteObservation = "best-effort"
  /\ port.pc = "done" =>
       portListenerSummaryView(PortReport).comparison = Rendered(comparePeerPortDeclarations)
=============================================================================

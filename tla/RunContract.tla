---------------------------- MODULE RunContract ----------------------------
(***************************************************************************)
(* What internal/execution promises its caller about one run: the codes,   *)
(* the cleanup verdict, the cleanup observation and the assertion statuses *)
(* of an Outcome, and how they hang together.  RunLifecycle is checked to  *)
(* keep the promise; VerifyCommand relies on nothing else.                 *)
(***************************************************************************)
EXTENDS Verification

CONSTANTS NoError       \* no error: a nil *domain.Error

ASSUME NoErrorAssumption == NoError \notin VerdictCodes

\* Findings that do not end a repeat: Run reports them and returns no error.
FindingCodes == {"CLEANUP_RESIDUE", "UNDECLARED_FILESYSTEM_WRITE", "UNDECLARED_PORT_LISTEN"}

\* What a finalization step may report.
FinalizationCodes == TechnicalCodes \cup {"RESOURCE_LIMIT_EXCEEDED", "FORBIDDEN_FILESYSTEM_ACCESS"}

\* The caller's view of a run: the stable codes in Errors, the cleanup
\* verdict, the verdict of the cleanup observation, whether Build accepts its
\* details, how many of those observations there are, the assertion statuses,
\* and the returned error.
MayReturn(o) ==
    /\ o.emitted = 1
    /\ o.returned = NoError => o.errors \subseteq FindingCodes /\ o.cleanup # "not-tested"
    /\ o.returned # NoError => o.returned \in o.errors
    /\ ~o.valid => o.observed = "not-tested"
    /\ "CLEANUP_RESIDUE" \in o.errors <=> o.observed = "undeclared-residue"
    /\ o.observed = "undeclared-residue" <=> o.cleanup = "undeclared-residue"
    /\ o.cleanup \in {"clean", "allowed-residue"} =>
           o.observed = o.cleanup /\ "SANDBOX_DESTROY_FAILED" \notin o.errors
    /\ o.cleanup = "not-tested" /\ o.observed # "not-tested" =>
           Meets(FinalizationCodes, o.errors)
    /\ o.returned = NoError => \A i \in DOMAIN o.statuses : o.statuses[i] = "passed"
=============================================================================

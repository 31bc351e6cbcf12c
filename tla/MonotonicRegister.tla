------------------------- MODULE MonotonicRegister -------------------------
(***************************************************************************)
(* What a durable trust-state package promises its callers, without locks, *)
(* files or processes: one register per scope that only ever advances, and *)
(* answers that are true of the register at the moment they are given.     *)
(* MonotonicStore is shown to implement this module.                       *)
(***************************************************************************)
CONSTANTS Proc, Scope, Input,
          ScopeOf(_),          \* the scope an observation names
          Valid(_),            \* the package's own validation of an observation
          Classify(_, _),      \* how an observation compares with a record
          NoRecord, Unreadable, NoResponse

VARIABLES register,   \* [Scope -> record, NoRecord or Unreadable]
          response    \* [Proc -> the answer to the last call, or NoResponse]

Record == {v \in Input : Valid(v)}

\* A first record, or one that advances the register.
MayReplace(old, v) ==
    \/ old = NoRecord
    \/ old \in Record /\ ScopeOf(old) = ScopeOf(v) /\ Classify(old, v) = "advance"

\* An answer is true of the register it was given against: a match or a
\* rejection is the comparison with the register as it stands, and an
\* initialization or an advance has already made the register the new record.
Justified(a) ==
    LET r == register[ScopeOf(a.observed)]
    IN  \/ a.evaluation = "unavailable"
        \/ /\ a.evaluation \in {"initialized", "advanced"}
           /\ r = a.observed
           /\ a.shown = r
        \/ /\ r \in Record
           /\ ScopeOf(r) = ScopeOf(a.observed)
           /\ a.evaluation = Classify(r, a.observed)
           /\ a.evaluation # "advance"
           /\ a.shown = r

Init == /\ register \in [Scope -> Record \cup {NoRecord, Unreadable}]
        /\ response = [p \in Proc |-> NoResponse]

Advance(v) == /\ MayReplace(register[ScopeOf(v)], v)
              /\ register' = [register EXCEPT ![ScopeOf(v)] = v]
              /\ UNCHANGED response

\* A call starts, or its process dies: the caller holds no answer.
Forget(p) == /\ response' = [response EXCEPT ![p] = NoResponse]
             /\ UNCHANGED register

Answer(p, a) == /\ a # NoResponse
                /\ Justified(a)
                /\ response' = [response EXCEPT ![p] = a]
                /\ UNCHANGED register

Next == \/ \E v \in Record : Advance(v)
        \/ \E p \in Proc : Forget(p) \/ Answer(p, response'[p])

Spec == Init /\ [][Next]_<<register, response>>
=============================================================================

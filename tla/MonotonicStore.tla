--------------------------- MODULE MonotonicStore ---------------------------
(***************************************************************************)
(* The durable monotonic state behind the offline trust-policy verifier    *)
(* (internal/truststate): several processes call Observe on one data       *)
(* directory.  A call takes a per-scope file lock, reads the scope's       *)
(* record, compares, and replaces the record through a temporary file,     *)
(* a rename and a directory sync.  Processes may be killed anywhere, any   *)
(* system call may fail, and the machine may lose power.                   *)
(*                                                                         *)
(* The comparison itself is a parameter: truststate, releasestate,         *)
(* trustrotationstate and trustchainstate share this machinery and differ  *)
(* in what a value is and how two values compare.                          *)
(***************************************************************************)
EXTENDS Naturals

CONSTANTS
    Proc,               \* verifier processes sharing one data directory
    Scope,              \* what a record file is keyed by
    Directory(_),       \* the directory that holds a scope's record file
    ScopeOf(_),         \* the scope an observation names
    Input,              \* observations a caller may pass to Observe
    Valid(_),           \* the package's validation of an observation
    Classify(_, _),     \* comparison of a stored record with an observation
    AtStart,            \* whether a directory may be missing when the machine starts
    MaxTries,           \* attempts on the lock before its deadline has passed
    NoRecord,           \* the record file does not exist
    Unreadable,         \* the record file exists and cannot be decoded
    Nobody,             \* the lock is free
    NoResponse          \* no answer is held

\* A record file holds a valid observation, its scope included.
Record == {v \in Input : Valid(v)}
Content == Record \cup {NoRecord, Unreadable}

Rejections == {"rollback-rejected", "equivocation-rejected",
               "authority-equivocation-rejected", "policy-equivocation-rejected"}
Evaluation == Rejections \cup {"initialized", "matched", "advanced", "unavailable"}

Response == [observed : Input, evaluation : Evaluation, shown : Record \cup {NoRecord}]

\* The directories that hold records, each with the path that leads to it.
\* One that Observe has made is on disk only once the file system writes its
\* parents back: the code syncs the directory itself and never a parent.
Directories == {Directory(s) : s \in Scope}
DirectoryState == {"absent", "made", "durable"}

\* v may be accepted in a scope that has recorded u.
Extends(u, v) == Classify(u, v) \in {"matched", "advance"}

ASSUME TriesAssumption == MaxTries \in Nat

ASSUME StartAssumption == AtStart \subseteq {"absent", "durable"}

ASSUME InputAssumption == Input # {} /\ \A v \in Input : ScopeOf(v) \in Scope

ASSUME SentinelAssumption ==
    /\ NoRecord \notin Input
    /\ Unreadable \notin Input
    /\ NoRecord # Unreadable
    /\ Nobody \notin Proc
    /\ NoResponse \notin Response

\* What the machinery relies on in a comparison C of the values V: it is
\* total, a value matches itself, matching is symmetric, and acceptance is
\* transitive.
Comparison(V, C(_, _)) ==
    /\ \A u, v \in V : C(u, v) \in Rejections \cup {"matched", "advance"}
    /\ \A u \in V : C(u, u) = "matched"
    /\ \A u, v \in V : C(u, v) = "matched" => C(v, u) = "matched"
    /\ \A u, v, w \in V :
           C(u, v) \in {"matched", "advance"} /\ C(v, w) \in {"matched", "advance"}
           => C(u, w) \in {"matched", "advance"}

ASSUME ClassifyAssumption == Comparison(Record, Classify)

VARIABLES
    entry,      \* [Scope -> Content]: the record file as processes read it
    survivors,  \* [Scope -> SUBSET Content]: what the disk may hold after a power loss
    directory,  \* [Directories -> DirectoryState]: whether a path is there, and on disk
    holder,     \* [Scope -> Proc or Nobody]: who holds the file lock
    pc,         \* [Proc -> where in Observe the process is]
    call,       \* [Proc -> the observation of its current call]
    stored,     \* [Proc -> record or NoRecord]: what the call read
    tries,      \* [Proc -> attempts made on the lock]
    response,   \* [Proc -> its last answer, or NoResponse]
    accepted,   \* history: [Scope -> values some caller was told are accepted,
                \*          since the machine started]
    committed   \* history: [Scope -> values some caller was told were written,
                \*          since the scope's directory was last made]

vars == <<entry, survivors, directory, holder, pc, call, stored, tries, response, accepted,
          committed>>

Locked == {"read", "write", "rename", "sync", "verify"}

\* The call of a process that has made none.
AnyCall == CHOOSE v \in Input : TRUE

-----------------------------------------------------------------------------
(* Answers. *)

\* Observe returns: the deferred release and Close free the lock, and the
\* call's locals are gone.
Leave(p) ==
    /\ pc' = [pc EXCEPT ![p] = "idle"]
    /\ holder' = [s \in Scope |-> IF holder[s] = p THEN Nobody ELSE holder[s]]
    /\ call' = [call EXCEPT ![p] = AnyCall]
    /\ stored' = [stored EXCEPT ![p] = NoRecord]
    /\ tries' = [tries EXCEPT ![p] = 0]

Return(p, v, e, shown) ==
    /\ Leave(p)
    /\ response' = [response EXCEPT ![p] = [observed |-> v, evaluation |-> e, shown |-> shown]]
    /\ accepted' = [accepted EXCEPT ![ScopeOf(v)] =
                        IF e \in {"initialized", "matched", "advanced"} THEN @ \cup {v} ELSE @]
    /\ committed' = [committed EXCEPT ![ScopeOf(v)] =
                        IF e \in {"initialized", "advanced"} THEN @ \cup {v} ELSE @]

\* Every failure is collapsed to unavailable; the generation shown is the
\* stored one if a record was read, and zero (NoRecord) otherwise.
unavailable(p, v, shown) == Return(p, v, "unavailable", shown)

Continue(p, step) ==
    /\ pc' = [pc EXCEPT ![p] = step]
    /\ UNCHANGED <<call, response, accepted, committed>>

-----------------------------------------------------------------------------
(* Observe, step by step. *)

\* The machine has just started: what is there is on disk.
Init ==
    /\ directory \in [Directories -> AtStart]
    /\ entry \in [Scope -> Content]
    /\ \A s \in Scope : directory[Directory(s)] = "absent" => entry[s] = NoRecord
    /\ survivors = [s \in Scope |-> {entry[s]}]
    /\ holder = [s \in Scope |-> Nobody]
    /\ pc = [p \in Proc |-> "idle"]
    /\ call = [p \in Proc |-> AnyCall]
    /\ stored = [p \in Proc |-> NoRecord]
    /\ tries = [p \in Proc |-> 0]
    /\ response = [p \in Proc |-> NoResponse]
    /\ accepted = [s \in Scope |-> {}]
    /\ committed = [s \in Scope |-> {}]

\* Mutant: observations are not validated.
ObserveUnvalidated(p, v) ==
    /\ pc[p] = "idle"
    /\ pc' = [pc EXCEPT ![p] = "lock"]
    /\ call' = [call EXCEPT ![p] = v]
    /\ response' = [response EXCEPT ![p] = NoResponse]
    /\ UNCHANGED <<entry, survivors, directory, holder, stored, tries, accepted, committed>>

\* ensurePrivateDirectory makes the missing components of the path to v's
\* record file in turn.
MakeDirectory(v) ==
    directory' = [directory EXCEPT ![Directory(ScopeOf(v))] = IF @ = "absent" THEN "made" ELSE @]

\* A call begins.  An invalid value is turned away before any I/O; creating
\* or validating the directories or the lock file may fail, before or after
\* the directory is there.
Observe(p, v) ==
    /\ pc[p] = "idle"
    /\ \/ /\ Valid(v)
          /\ MakeDirectory(v)
          /\ pc' = [pc EXCEPT ![p] = "lock"]
          /\ call' = [call EXCEPT ![p] = v]
          /\ response' = [response EXCEPT ![p] = NoResponse]
          /\ UNCHANGED <<holder, stored, tries, accepted, committed>>
       \/ /\ UNCHANGED directory \/ (Valid(v) /\ MakeDirectory(v))
          /\ unavailable(p, v, NoRecord)
    /\ UNCHANGED <<entry, survivors>>

\* Mutant: the lock is advisory and nobody looks at it.
acquireLockShared(p) ==
    /\ pc[p] = "lock"
    /\ holder' = [holder EXCEPT ![ScopeOf(call[p])] = p]
    /\ Continue(p, "read")
    /\ UNCHANGED <<entry, survivors, directory, stored, tries>>

\* Mutant: the deadline is never reached.
acquireLockForever(p) ==
    LET s == ScopeOf(call[p])
    IN  /\ pc[p] = "lock"
        /\ \/ /\ holder[s] = Nobody
              /\ holder' = [holder EXCEPT ![s] = p]
              /\ Continue(p, "read")
           \/ /\ holder[s] # Nobody
              /\ Continue(p, "lock")
              /\ UNCHANGED holder
        /\ UNCHANGED <<entry, survivors, directory, stored, tries>>

\* One turn of the acquisition loop: a non-blocking flock, then a sleep
\* unless the deadline has passed.  Cancellation or another flock error ends
\* the wait at any turn.
acquireLock(p) ==
    LET s == ScopeOf(call[p])
    IN  /\ pc[p] = "lock"
        /\ \/ /\ holder[s] = Nobody
              /\ holder' = [holder EXCEPT ![s] = p]
              /\ Continue(p, "read")
              /\ UNCHANGED <<stored, tries>>
           \/ /\ holder[s] # Nobody
              /\ tries[p] < MaxTries
              /\ tries' = [tries EXCEPT ![p] = @ + 1]
              /\ Continue(p, "lock")
              /\ UNCHANGED <<holder, stored>>
           \/ unavailable(p, call[p], NoRecord)
        /\ UNCHANGED <<entry, survivors, directory>>

\* Mutant: a record that cannot be decoded counts as absent.
readRecordForgiving(p) ==
    /\ pc[p] = "read"
    /\ entry[ScopeOf(call[p])] \in {NoRecord, Unreadable}
    /\ stored' = [stored EXCEPT ![p] = NoRecord]
    /\ Continue(p, "write")
    /\ UNCHANGED <<entry, survivors, directory, holder, tries>>

\* Mutant: at equal generations only the generations are compared.
readRecordGenerationsOnly(p) ==
    LET s == ScopeOf(call[p])
    IN  /\ pc[p] = "read"
        /\ \/ /\ \/ entry[s] = NoRecord
                 \/ /\ entry[s] \in Record
                    /\ Classify(entry[s], call[p]) = "advance"
              /\ stored' = [stored EXCEPT ![p] = entry[s]]
              /\ Continue(p, "write")
              /\ UNCHANGED <<holder, tries>>
           \/ /\ entry[s] \in Record
              /\ Classify(entry[s], call[p]) \notin {"advance", "rollback-rejected"}
              /\ Return(p, call[p], "matched", entry[s])
        /\ UNCHANGED <<entry, survivors, directory>>

\* The record is read and compared.
readRecord(p) ==
    LET s == ScopeOf(call[p])
    IN  /\ pc[p] = "read"
        /\ \/ /\ \/ entry[s] = NoRecord
                 \/ /\ entry[s] \in Record
                    /\ ScopeOf(entry[s]) = s
                    /\ Classify(entry[s], call[p]) = "advance"
              /\ stored' = [stored EXCEPT ![p] = entry[s]]
              /\ Continue(p, "write")
              /\ UNCHANGED <<holder, tries>>
           \/ /\ entry[s] \in Record
              /\ ScopeOf(entry[s]) = s
              /\ Classify(entry[s], call[p]) # "advance"
              /\ Return(p, call[p], Classify(entry[s], call[p]), entry[s])
           \/ /\ entry[s] \in Record
              /\ ScopeOf(entry[s]) # s
              /\ unavailable(p, call[p], entry[s])
           \/ unavailable(p, call[p], NoRecord)     \* unreadable, or an I/O error
        /\ UNCHANGED <<entry, survivors, directory>>

\* The temporary file is created, written, synced and closed.
writeTemporary(p) ==
    /\ pc[p] = "write"
    /\ \/ Continue(p, "rename") /\ UNCHANGED <<holder, stored, tries>>
       \/ unavailable(p, call[p], stored[p])
    /\ UNCHANGED <<entry, survivors, directory>>

\* The temporary file takes the record's name.  Other processes see it at
\* once; the disk may hold either record until the directory is synced.
atomicReplace(p) ==
    LET s == ScopeOf(call[p])
    IN  /\ pc[p] = "rename"
        /\ \/ /\ entry' = [entry EXCEPT ![s] = call[p]]
              /\ survivors' = [survivors EXCEPT ![s] = @ \cup {call[p]}]
              /\ Continue(p, "sync")
              /\ UNCHANGED <<holder, stored, tries>>
           \/ /\ unavailable(p, call[p], stored[p])
              /\ UNCHANGED <<entry, survivors>>
        /\ UNCHANGED directory

\* Mutant: the directory is not synced.
syncDirectorySkipped(p) ==
    /\ pc[p] = "sync"
    /\ Continue(p, "verify")
    /\ UNCHANGED <<entry, survivors, directory, holder, stored, tries>>

\* The directory is synced, and with it every record it holds; the path that
\* leads to it is not.
syncDirectory(p) ==
    /\ pc[p] = "sync"
    /\ \/ /\ survivors' = [s \in Scope |->
                 IF Directory(s) = Directory(ScopeOf(call[p])) THEN {entry[s]} ELSE survivors[s]]
          /\ Continue(p, "verify")
          /\ UNCHANGED <<holder, stored, tries>>
       \/ /\ unavailable(p, call[p], stored[p])
          /\ UNCHANGED survivors
    /\ UNCHANGED <<entry, directory>>

\* The record is read back, and the answer depends on whether one was there.
verifyRecord(p) ==
    /\ pc[p] = "verify"
    /\ \/ /\ entry[ScopeOf(call[p])] = call[p]
          /\ Return(p, call[p], IF stored[p] = NoRecord THEN "initialized" ELSE "advanced",
                    call[p])
       \/ unavailable(p, call[p], stored[p])
    /\ UNCHANGED <<entry, survivors, directory>>

-----------------------------------------------------------------------------
(* The environment. *)

\* The kernel closes a killed process's descriptors, which frees its lock.
Kill(p) ==
    /\ pc[p] # "idle"
    /\ Leave(p)
    /\ response' = [response EXCEPT ![p] = NoResponse]
    /\ UNCHANGED <<entry, survivors, directory, accepted, committed>>

\* The file system writes back the path to a directory, in its own time.
WriteBack(d) ==
    /\ directory[d] = "made"
    /\ directory' = [directory EXCEPT ![d] = "durable"]
    /\ UNCHANGED <<entry, survivors, holder, pc, call, stored, tries, response, accepted, committed>>

\* Every process dies.  Directories whose path was not on disk may be gone
\* with all they held; elsewhere each record is one of those the disk may hold.
PowerLoss ==
    /\ entry' \in [Scope -> {NoRecord} \cup UNION {survivors[s] : s \in Scope}]
    /\ \E gone \in SUBSET {d \in Directories : directory[d] = "made"} :
           /\ directory' = [d \in Directories |->
                               IF d \in gone \/ directory[d] = "absent" THEN "absent" ELSE "durable"]
           /\ \A s \in Scope : IF Directory(s) \in gone THEN entry'[s] = NoRecord
                                                       ELSE entry'[s] \in survivors[s]
           /\ committed' = [s \in Scope |-> IF Directory(s) \in gone THEN {} ELSE committed[s]]
    /\ survivors' = [s \in Scope |-> {entry'[s]}]
    /\ pc' = [p \in Proc |-> "idle"]
    /\ holder' = [s \in Scope |-> Nobody]
    /\ call' = [p \in Proc |-> AnyCall]
    /\ stored' = [p \in Proc |-> NoRecord]
    /\ tries' = [p \in Proc |-> 0]
    /\ response' = [p \in Proc |-> NoResponse]
    /\ accepted' = [s \in Scope |-> {}]

Step(p) ==
    \/ acquireLock(p)
    \/ readRecord(p)
    \/ writeTemporary(p)
    \/ atomicReplace(p)
    \/ syncDirectory(p)
    \/ verifyRecord(p)

Next == \E p \in Proc :
            \/ \E v \in Input : Observe(p, v)
            \/ Step(p)
            \/ Kill(p)

Spec == Init /\ [][Next]_vars

\* The same system on a machine that may lose power.
PowerNext == Next \/ PowerLoss \/ \E d \in Directories : WriteBack(d)

PowerSpec == Init /\ [][PowerNext]_vars

\* Only a waiting process is assumed to run: a lock holder may hang forever.
WaiterSpec == Spec /\ \A p \in Proc : WF_vars(acquireLock(p))

-----------------------------------------------------------------------------
(* Properties. *)

\* Type correctness; in particular no value that fails validation (a zero or
\* an oversized generation) is ever written to a record file.
TypeOK ==
    /\ entry \in [Scope -> Content]
    /\ survivors \in [Scope -> SUBSET Content]
    /\ directory \in [Directories -> DirectoryState]
    /\ holder \in [Scope -> Proc \cup {Nobody}]
    /\ pc \in [Proc -> {"idle", "lock"} \cup Locked]
    /\ call \in [Proc -> Input]
    /\ stored \in [Proc -> Record \cup {NoRecord}]
    /\ tries \in [Proc -> 0..MaxTries]
    /\ response \in [Proc -> Response \cup {NoResponse}]
    /\ accepted \in [Scope -> SUBSET Record]
    /\ committed \in [Scope -> SUBSET Record]

\* Whatever callers were told is accepted (initialized, matched or advanced)
\* is still covered by the record on file: concurrent calls, killed writers
\* and failed writes never bring back an older or a conflicting value.
AcceptedNeverRegresses ==
    \A s \in Scope : \A v \in accepted[s] :
        entry[s] \in Record /\ ScopeOf(entry[s]) = s /\ Extends(v, entry[s])

\* No two callers are ever told to accept values that conflict: the accepted
\* values of a scope form a chain, whichever processes observed them.
AcceptanceIsAChain ==
    \A s \in Scope : \A u, v \in accepted[s] : Extends(u, v) \/ Extends(v, u)

\* The record c of scope s covers the value v.
Covers(s, c, v) == c \in Record /\ ScopeOf(c) = s /\ Extends(v, c)

\* A value reported as initialized or advanced stays covered by the record on
\* file through every step, a power loss included: it was reported only after
\* the directory sync.  The one exception is a power loss that takes the whole
\* directory, and it only takes one that Observe itself made and whose path
\* the file system had not yet written back (no parent is ever synced).
CommittedSurvives ==
    [][\A s \in Scope : \A v \in committed[s] :
           \/ Covers(s, entry'[s], v)
           \/ /\ directory[Directory(s)] = "made"
              /\ directory'[Directory(s)] = "absent"
              /\ committed'[s] = {}]_vars

\* Observe answers against one register that only advances.
Register == INSTANCE MonotonicRegister WITH register <- entry
ImplementsRegister == Register!Spec

\* A waiter leaves the lock loop even when the holder never does: the
\* deadline is checked on every turn.
WaitIsBounded == \A p \in Proc : pc[p] = "lock" ~> pc[p] # "lock"
=============================================================================

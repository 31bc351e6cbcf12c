----------------------- MODULE MonotonicStore_proofs -----------------------
(***************************************************************************)
(* What MonotonicStore guarantees for any number of processes and scopes,  *)
(* any value set and any comparison that satisfies ClassifyAssumption.     *)
(*                                                                         *)
(* The inductive invariant says who owns a scope: a process past the lock  *)
(* holds it (LockOwned), so what it read is still on file until it renames *)
(* (Snapshot) and what it renamed is still there until it returns          *)
(* (Replaced), and its bytes are the only ones a power loss can leave once *)
(* it has synced the directory (Synced).                                   *)
(***************************************************************************)
EXTENDS StateRecords, TLAPS

ValidCalls == \A p \in Proc : pc[p] # "idle" => call[p] \in Record

LockOwned == \A p \in Proc : pc[p] \in Locked => holder[ScopeOf(call[p])] = p

\* v may take the place of the content c in v's scope.
Replaces(c, v) ==
    \/ c = NoRecord
    \/ c \in Record /\ ScopeOf(c) = ScopeOf(v) /\ Classify(c, v) = "advance"

Snapshot == \A p \in Proc : pc[p] \in {"write", "rename"} =>
                /\ stored[p] = entry[ScopeOf(call[p])]
                /\ Replaces(stored[p], call[p])

Replaced == \A p \in Proc : pc[p] \in {"sync", "verify"} => entry[ScopeOf(call[p])] = call[p]

Synced == \A p \in Proc : pc[p] = "verify" => survivors[ScopeOf(call[p])] = {call[p]}

EntrySurvives == \A s \in Scope : entry[s] \in survivors[s]

Owned == TypeOK /\ ValidCalls /\ LockOwned /\ Snapshot /\ Replaced /\ Synced /\ EntrySurvives

-----------------------------------------------------------------------------
(* Facts about the parameters. *)

\* The call of a process that has made none is an observation.
LEMMA AnyCallIsInput == AnyCall \in Input
  BY InputAssumption DEF AnyCall

\* Records are observations with a scope, and no sentinel is a record.
LEMMA RecordFacts ==
    /\ \A v \in Record : v \in Input /\ ScopeOf(v) \in Scope /\ v # NoRecord /\ v # Unreadable
    /\ \A v \in Input : ScopeOf(v) \in Scope
    /\ \A v \in Input : Valid(v) => v \in Record
  BY InputAssumption, SentinelAssumption DEF Record

\* Acceptance is reflexive and transitive, and a match goes both ways.
LEMMA ExtendsFacts ==
    /\ \A u \in Record : Extends(u, u)
    /\ \A u, v \in Record : Classify(u, v) = "matched" => Extends(u, v) /\ Extends(v, u)
    /\ \A u, v \in Record : Classify(u, v) = "advance" => Extends(u, v)
    /\ \A u, v, w \in Record : Extends(u, v) /\ Extends(v, w) => Extends(u, w)
  BY ClassifyAssumption DEF Extends, Comparison

\* A comparison that is no advance is an evaluation a caller can be given.
LEMMA ClassifyIsEvaluation ==
    \A u, v \in Record : /\ Classify(u, v) # "advance" => Classify(u, v) \in Evaluation
                         /\ Classify(u, v) \notin {"initialized", "advanced", "unavailable"}
  BY ClassifyAssumption DEF Evaluation, Rejections, Comparison

-----------------------------------------------------------------------------
(* Type correctness of an answer. *)

\* A returning call leaves every component of the state well typed.
LEMMA ReturnTyped ==
    ASSUME TypeOK, NEW p \in Proc, NEW v \in Input, NEW e \in Evaluation,
           NEW shown \in Record \cup {NoRecord}, Return(p, v, e, shown),
           e \in {"initialized", "matched", "advanced"} => v \in Record,
           UNCHANGED <<entry, survivors>>, directory' \in [Directories -> DirectoryState]
    PROVE  TypeOK'
  <1>1. /\ entry' \in [Scope -> Content]
        /\ survivors' \in [Scope -> SUBSET Content]
        /\ directory' \in [Directories -> DirectoryState]
    BY DEF TypeOK
  <1>2. holder' \in [Scope -> Proc \cup {Nobody}]
    BY DEF TypeOK, Return, Leave
  <1>3. /\ pc' \in [Proc -> {"idle", "lock"} \cup Locked]
        /\ call' \in [Proc -> Input]
        /\ stored' \in [Proc -> Record \cup {NoRecord}]
        /\ tries' \in [Proc -> 0..MaxTries]
    BY AnyCallIsInput, TriesAssumption DEF TypeOK, Return, Leave
  <1>4. response' \in [Proc -> Response \cup {NoResponse}]
    <2>1. [observed |-> v, evaluation |-> e, shown |-> shown] \in Response
      BY DEF Response
    <2>2. QED BY <2>1 DEF TypeOK, Return
  <1>5. ScopeOf(v) \in Scope
    BY RecordFacts
  <1>6. accepted' \in [Scope -> SUBSET Record]
    BY <1>5 DEF TypeOK, Return
  <1>7. committed' \in [Scope -> SUBSET Record]
    BY <1>5 DEF TypeOK, Return
  <1>8. QED BY <1>1, <1>2, <1>3, <1>4, <1>6, <1>7 DEF TypeOK

\* A returning call keeps the ownership invariant: it only gives its own lock up.
LEMMA ReturnOwned ==
    ASSUME Owned, NEW p \in Proc, Leave(p), TypeOK',
           UNCHANGED <<entry, survivors>>
    PROVE  Owned'
  <1> USE DEF TypeOK
  <1>1. /\ pc'[p] = "idle"
        /\ \A q \in Proc \ {p} : /\ pc'[q] = pc[q] /\ call'[q] = call[q] /\ stored'[q] = stored[q]
    BY DEF Owned, Leave
  <1>2. \A s \in Scope : \A q \in Proc \ {p} : holder[s] = q => holder'[s] = q
    BY DEF Leave
  <1>3. ValidCalls'
    BY <1>1 DEF Owned, ValidCalls
  <1>4. LockOwned'
    <2> SUFFICES ASSUME NEW q \in Proc, pc'[q] \in Locked
                 PROVE  holder'[ScopeOf(call'[q])] = q
      BY DEF LockOwned
    <2>1. q # p
      BY <1>1 DEF Locked
    <2>2. QED BY <2>1, <1>1, <1>2, RecordFacts DEF Owned, LockOwned
  <1>5. Snapshot' /\ Replaced' /\ Synced'
    BY <1>1 DEF Owned, Snapshot, Replaced, Synced
  <1>6. EntrySurvives'
    BY DEF Owned, EntrySurvives
  <1>7. QED BY <1>3, <1>4, <1>5, <1>6 DEF Owned

-----------------------------------------------------------------------------
(* Ownership is invariant, with and without power losses. *)

\* Initial states are owned by nobody.
LEMMA OwnedInit == Init => Owned
  <1> SUFFICES ASSUME Init PROVE Owned
    OBVIOUS
  <1>1. TypeOK
    <2>1. 0 \in 0..MaxTries
      BY TriesAssumption
    <2>2. survivors \in [Scope -> SUBSET Content]
      BY DEF Init
    <2>3. directory \in [Directories -> DirectoryState]
      BY StartAssumption DEF Init, DirectoryState
    <2>4. QED BY <2>1, <2>2, <2>3, AnyCallIsInput DEF Init, TypeOK
  <1>2. \A p \in Proc : pc[p] = "idle"
    BY DEF Init
  <1>3. ValidCalls /\ LockOwned /\ Snapshot /\ Replaced /\ Synced
    BY <1>2 DEF ValidCalls, LockOwned, Snapshot, Replaced, Synced, Locked
  <1>4. EntrySurvives
    BY DEF Init, EntrySurvives
  <1>5. QED BY <1>1, <1>3, <1>4 DEF Owned

\* What happens at an answer: every failure reports unavailable, and the
\* steps that answer otherwise do it from a record of the call's own scope.
LEMMA UnavailableOwned ==
    ASSUME Owned, NEW p \in Proc, NEW v \in Input, NEW shown \in Record \cup {NoRecord},
           unavailable(p, v, shown), UNCHANGED <<entry, survivors>>,
           directory' \in [Directories -> DirectoryState]
    PROVE  Owned'
  <1>1. "unavailable" \in Evaluation
    BY DEF Evaluation
  <1>2. Return(p, v, "unavailable", shown)
    BY DEF unavailable
  <1>3. TypeOK'
    BY <1>1, <1>2, ReturnTyped DEF Owned
  <1>4. QED BY <1>2, <1>3, ReturnOwned DEF Return

\* Starting a call.
LEMMA ObserveOwned ==
    ASSUME Owned, NEW p \in Proc, NEW v \in Input, Observe(p, v)
    PROVE  Owned'
  <1>0. directory' \in [Directories -> DirectoryState]
    <2>1. Directory(ScopeOf(v)) \in Directories /\ directory \in [Directories -> DirectoryState]
      BY RecordFacts DEF Directories, Owned, TypeOK
    <2>2. CASE UNCHANGED directory
      BY <2>1, <2>2
    <2>3. CASE MakeDirectory(v)
      BY <2>1, <2>3 DEF MakeDirectory, DirectoryState
    <2>4. QED BY <2>2, <2>3 DEF Observe
  <1>1. CASE unavailable(p, v, NoRecord)
    BY <1>0, <1>1, UnavailableOwned DEF Observe
  <1>2. CASE /\ Valid(v)
             /\ pc' = [pc EXCEPT ![p] = "lock"]
             /\ call' = [call EXCEPT ![p] = v]
             /\ response' = [response EXCEPT ![p] = NoResponse]
             /\ UNCHANGED <<holder, stored, tries, accepted, committed>>
    <2>1. UNCHANGED <<entry, survivors>>
      BY DEF Observe
    <2>2. TypeOK'
      BY <1>0, <1>2, <2>1 DEF Owned, TypeOK
    <2>3. \A q \in Proc : IF q = p THEN pc'[q] = "lock" /\ call'[q] = v
                                    ELSE pc'[q] = pc[q] /\ call'[q] = call[q]
      BY <1>2 DEF Owned, TypeOK
    <2>4. ValidCalls'
      BY <1>2, <2>3, RecordFacts DEF Owned, ValidCalls
    <2>5. LockOwned'
      BY <1>2, <2>3 DEF Owned, LockOwned, Locked
    <2>6. Snapshot' /\ Replaced' /\ Synced'
      BY <1>2, <2>1, <2>3 DEF Owned, Snapshot, Replaced, Synced
    <2>7. EntrySurvives'
      BY <2>1 DEF Owned, EntrySurvives
    <2>8. QED BY <2>2, <2>4, <2>5, <2>6, <2>7 DEF Owned
  <1>3. QED BY <1>1, <1>2 DEF Observe

\* A process that stays inside its call changes nobody else's position.
LEMMA ContinueFrame ==
    ASSUME TypeOK, NEW p \in Proc, NEW step \in {"idle", "lock"} \cup Locked, Continue(p, step)
    PROVE  /\ pc'[p] = step
           /\ \A q \in Proc \ {p} : pc'[q] = pc[q]
           /\ pc' \in [Proc -> {"idle", "lock"} \cup Locked]
           /\ UNCHANGED <<call, response, accepted, committed>>
  BY DEF TypeOK, Continue

\* One turn of the lock loop.
LEMMA AcquireOwned ==
    ASSUME Owned, NEW p \in Proc, acquireLock(p)
    PROVE  Owned'
  <1> DEFINE s == ScopeOf(call[p])
  <1>0. /\ pc[p] = "lock" /\ call[p] \in Record /\ call[p] \in Input /\ s \in Scope
        /\ UNCHANGED <<entry, survivors, directory>>
        /\ directory' \in [Directories -> DirectoryState]
    BY RecordFacts DEF Owned, TypeOK, ValidCalls, acquireLock
  <1>1. CASE unavailable(p, call[p], NoRecord)
    BY <1>0, <1>1, UnavailableOwned
  <1>2. CASE /\ holder[s] = Nobody
             /\ holder' = [holder EXCEPT ![s] = p]
             /\ Continue(p, "read")
             /\ UNCHANGED <<stored, tries>>
    <2>1. /\ pc'[p] = "read"
          /\ \A q \in Proc \ {p} : pc'[q] = pc[q]
          /\ pc' \in [Proc -> {"idle", "lock"} \cup Locked]
          /\ UNCHANGED <<call, response, accepted, committed>>
      BY <1>2, ContinueFrame DEF Owned, Locked
    <2>2. TypeOK'
      BY <1>0, <1>2, <2>1 DEF Owned, TypeOK
    <2>3. ValidCalls'
      BY <1>0, <2>1 DEF Owned, ValidCalls
    <2>4. LockOwned'
      <3> SUFFICES ASSUME NEW q \in Proc, pc'[q] \in Locked
                   PROVE  holder'[ScopeOf(call[q])] = q
        BY <2>1 DEF LockOwned
      <3>1. CASE q = p
        BY <3>1, <1>0, <1>2 DEF Owned, TypeOK
      <3>2. CASE q # p
        <4>1. holder[ScopeOf(call[q])] = q /\ q # Nobody
          BY <3>2, <2>1, SentinelAssumption DEF Owned, LockOwned
        <4>2. ScopeOf(call[q]) # s
          BY <4>1, <1>2
        <4>3. ScopeOf(call[q]) \in Scope
          BY RecordFacts DEF Owned, TypeOK
        <4>4. QED BY <4>1, <4>2, <4>3, <1>2 DEF Owned, TypeOK
      <3>3. QED BY <3>1, <3>2
    <2>5. Snapshot' /\ Replaced' /\ Synced'
      BY <1>0, <1>2, <2>1 DEF Owned, Snapshot, Replaced, Synced
    <2>6. EntrySurvives'
      BY <1>0 DEF Owned, EntrySurvives
    <2>7. QED BY <2>2, <2>3, <2>4, <2>5, <2>6 DEF Owned
  <1>3. CASE /\ tries[p] < MaxTries
             /\ tries' = [tries EXCEPT ![p] = @ + 1]
             /\ Continue(p, "lock")
             /\ UNCHANGED <<holder, stored>>
    <2>1. pc' = pc /\ UNCHANGED <<call, response, accepted, committed>>
      BY <1>0, <1>3 DEF Owned, TypeOK, Continue
    <2>2. tries' \in [Proc -> 0..MaxTries]
      BY <1>3, TriesAssumption DEF Owned, TypeOK
    <2>3. QED
      BY <1>0, <1>3, <2>1, <2>2
      DEF Owned, TypeOK, ValidCalls, LockOwned, Snapshot, Replaced, Synced, EntrySurvives
  <1>4. QED BY <1>1, <1>2, <1>3 DEF acquireLock

\* Reading and comparing: what the call keeps is what is on file.
LEMMA ReadOwned ==
    ASSUME Owned, NEW p \in Proc, readRecord(p)
    PROVE  Owned'
  <1> DEFINE s == ScopeOf(call[p])
  <1>0. /\ pc[p] = "read" /\ call[p] \in Record /\ call[p] \in Input /\ s \in Scope
        /\ UNCHANGED <<entry, survivors, directory>>
        /\ directory' \in [Directories -> DirectoryState]
    BY RecordFacts DEF Owned, TypeOK, ValidCalls, readRecord
  <1>1. CASE /\ \/ entry[s] = NoRecord
                \/ /\ entry[s] \in Record
                   /\ ScopeOf(entry[s]) = s
                   /\ Classify(entry[s], call[p]) = "advance"
             /\ stored' = [stored EXCEPT ![p] = entry[s]]
             /\ Continue(p, "write")
             /\ UNCHANGED <<holder, tries>>
    <2>1. /\ pc'[p] = "write"
          /\ \A q \in Proc \ {p} : pc'[q] = pc[q]
          /\ pc' \in [Proc -> {"idle", "lock"} \cup Locked]
          /\ UNCHANGED <<call, response, accepted, committed>>
      BY <1>1, ContinueFrame DEF Owned, Locked
    <2>2. \A q \in Proc : stored'[q] = IF q = p THEN entry[s] ELSE stored[q]
      BY <1>1 DEF Owned, TypeOK
    <2>3. stored' \in [Proc -> Record \cup {NoRecord}]
      BY <1>1 DEF Owned, TypeOK
    <2>4. TypeOK'
      BY <1>0, <1>1, <2>1, <2>3 DEF Owned, TypeOK
    <2>5. ValidCalls' /\ LockOwned'
      BY <1>0, <1>1, <2>1 DEF Owned, ValidCalls, LockOwned, Locked
    <2>6. Snapshot'
      BY <1>0, <1>1, <2>1, <2>2 DEF Owned, Snapshot, Replaces
    <2>7. Replaced' /\ Synced' /\ EntrySurvives'
      BY <1>0, <2>1 DEF Owned, Replaced, Synced, EntrySurvives
    <2>8. QED BY <2>4, <2>5, <2>6, <2>7 DEF Owned
  <1>2. CASE /\ entry[s] \in Record
             /\ Classify(entry[s], call[p]) # "advance"
             /\ Return(p, call[p], Classify(entry[s], call[p]), entry[s])
    <2>1. Classify(entry[s], call[p]) \in Evaluation
      BY <1>0, <1>2, ClassifyIsEvaluation
    <2>2. TypeOK'
      BY <1>0, <1>2, <2>1, ReturnTyped DEF Owned
    <2>3. QED BY <1>0, <1>2, <2>2, ReturnOwned DEF Return
  <1>3. CASE entry[s] \in Record /\ unavailable(p, call[p], entry[s])
    BY <1>0, <1>3, UnavailableOwned
  <1>4. CASE unavailable(p, call[p], NoRecord)
    BY <1>0, <1>4, UnavailableOwned
  <1>5. QED BY <1>1, <1>2, <1>3, <1>4 DEF readRecord

\* Writing the temporary file touches nothing another process can see.
LEMMA WriteOwned ==
    ASSUME Owned, NEW p \in Proc, writeTemporary(p)
    PROVE  Owned'
  <1>0. /\ pc[p] = "write" /\ call[p] \in Input /\ stored[p] \in Record \cup {NoRecord}
        /\ UNCHANGED <<entry, survivors, directory>>
        /\ directory' \in [Directories -> DirectoryState]
    BY DEF Owned, TypeOK, writeTemporary
  <1>1. CASE Continue(p, "rename") /\ UNCHANGED <<holder, stored, tries>>
    <2>1. /\ pc'[p] = "rename"
          /\ \A q \in Proc \ {p} : pc'[q] = pc[q]
          /\ pc' \in [Proc -> {"idle", "lock"} \cup Locked]
          /\ UNCHANGED <<call, response, accepted, committed>>
      BY <1>1, ContinueFrame DEF Owned, Locked
    <2>2. TypeOK'
      BY <1>0, <1>1, <2>1 DEF Owned, TypeOK
    <2>3. ValidCalls' /\ LockOwned'
      BY <1>0, <1>1, <2>1 DEF Owned, ValidCalls, LockOwned, Locked
    <2>4. Snapshot' /\ Replaced' /\ Synced' /\ EntrySurvives'
      BY <1>0, <1>1, <2>1 DEF Owned, Snapshot, Replaced, Synced, EntrySurvives
    <2>5. QED BY <2>2, <2>3, <2>4 DEF Owned
  <1>2. CASE unavailable(p, call[p], stored[p])
    BY <1>0, <1>2, UnavailableOwned
  <1>3. QED BY <1>1, <1>2 DEF writeTemporary

\* Two processes past the lock work on different scopes.
LEMMA OwnersDiffer ==
    ASSUME LockOwned, NEW p \in Proc, NEW q \in Proc, q # p,
           pc[p] \in Locked, pc[q] \in Locked
    PROVE  ScopeOf(call[q]) # ScopeOf(call[p])
  BY DEF LockOwned

\* The rename is seen by everyone, and disturbs only the caller's own scope.
LEMMA RenameOwned ==
    ASSUME Owned, NEW p \in Proc, atomicReplace(p)
    PROVE  Owned'
  <1> DEFINE s == ScopeOf(call[p])
  <1>0. /\ pc[p] = "rename" /\ call[p] \in Record /\ call[p] \in Input /\ s \in Scope
        /\ stored[p] \in Record \cup {NoRecord}
        /\ UNCHANGED directory /\ directory' \in [Directories -> DirectoryState]
    BY RecordFacts DEF Owned, TypeOK, ValidCalls, atomicReplace
  <1>1. CASE /\ entry' = [entry EXCEPT ![s] = call[p]]
             /\ survivors' = [survivors EXCEPT ![s] = @ \cup {call[p]}]
             /\ Continue(p, "sync")
             /\ UNCHANGED <<holder, stored, tries>>
    <2>1. /\ pc'[p] = "sync"
          /\ \A q \in Proc \ {p} : pc'[q] = pc[q]
          /\ pc' \in [Proc -> {"idle", "lock"} \cup Locked]
          /\ UNCHANGED <<call, response, accepted, committed>>
      BY <1>1, ContinueFrame DEF Owned, Locked
    <2>2. TypeOK'
      <3>1. entry' \in [Scope -> Content] /\ survivors' \in [Scope -> SUBSET Content]
        BY <1>0, <1>1 DEF Owned, TypeOK, Content
      <3>2. QED BY <1>0, <1>1, <2>1, <3>1 DEF Owned, TypeOK
    <2>3. ValidCalls' /\ LockOwned'
      BY <1>0, <1>1, <2>1 DEF Owned, ValidCalls, LockOwned, Locked
    <2>4. /\ entry'[s] = call[p]
          /\ \A t \in Scope : /\ t # s => entry'[t] = entry[t] /\ survivors'[t] = survivors[t]
                             /\ survivors[t] \subseteq survivors'[t]
          /\ call[p] \in survivors'[s]
      BY <1>0, <1>1 DEF Owned, TypeOK
    <2>5. \A q \in Proc \ {p} : pc'[q] \in Locked =>
              /\ entry'[ScopeOf(call[q])] = entry[ScopeOf(call[q])]
              /\ survivors'[ScopeOf(call[q])] = survivors[ScopeOf(call[q])]
      <3> SUFFICES ASSUME NEW q \in Proc \ {p}, pc[q] \in Locked
                   PROVE  /\ entry'[ScopeOf(call[q])] = entry[ScopeOf(call[q])]
                          /\ survivors'[ScopeOf(call[q])] = survivors[ScopeOf(call[q])]
        BY <2>1
      <3>1. ScopeOf(call[q]) \in Scope
        BY RecordFacts DEF Owned, TypeOK
      <3>2. ScopeOf(call[q]) # s
        BY <1>0, OwnersDiffer DEF Owned, Locked
      <3>3. QED BY <2>4, <3>1, <3>2
    <2>6. Snapshot'
      BY <1>1, <2>1, <2>5 DEF Owned, Snapshot, Locked
    <2>7. Replaced' /\ Synced'
      BY <2>1, <2>4, <2>5 DEF Owned, Replaced, Synced, Locked
    <2>8. EntrySurvives'
      BY <2>4 DEF Owned, EntrySurvives
    <2>9. QED BY <2>2, <2>3, <2>6, <2>7, <2>8 DEF Owned
  <1>2. CASE unavailable(p, call[p], stored[p]) /\ UNCHANGED <<entry, survivors>>
    BY <1>0, <1>2, UnavailableOwned
  <1>3. QED BY <1>1, <1>2 DEF atomicReplace

\* A directory sync leaves only the present records on disk.
LEMMA SyncOwned ==
    ASSUME Owned, NEW p \in Proc, syncDirectory(p)
    PROVE  Owned'
  <1> DEFINE s == ScopeOf(call[p])
  <1>0. /\ pc[p] = "sync" /\ call[p] \in Record /\ call[p] \in Input /\ s \in Scope
        /\ stored[p] \in Record \cup {NoRecord} /\ UNCHANGED <<entry, directory>>
        /\ directory' \in [Directories -> DirectoryState]
    BY RecordFacts DEF Owned, TypeOK, ValidCalls, syncDirectory
  <1>1. CASE /\ survivors' = [t \in Scope |->
                   IF Directory(t) = Directory(s) THEN {entry[t]} ELSE survivors[t]]
             /\ Continue(p, "verify")
             /\ UNCHANGED <<holder, stored, tries>>
    <2>1. /\ pc'[p] = "verify"
          /\ \A q \in Proc \ {p} : pc'[q] = pc[q]
          /\ pc' \in [Proc -> {"idle", "lock"} \cup Locked]
          /\ UNCHANGED <<call, response, accepted, committed>>
      BY <1>1, ContinueFrame DEF Owned, Locked
    <2>2. TypeOK'
      <3>1. survivors' \in [Scope -> SUBSET Content]
        BY <1>1 DEF Owned, TypeOK
      <3>2. QED BY <1>0, <1>1, <2>1, <3>1 DEF Owned, TypeOK
    <2>3. ValidCalls' /\ LockOwned'
      BY <1>0, <1>1, <2>1 DEF Owned, ValidCalls, LockOwned, Locked
    <2>4. \A t \in Scope : survivors'[t] = {entry[t]} \/ survivors'[t] = survivors[t]
      BY <1>1
    <2>5. survivors'[s] = {call[p]}
      BY <1>0, <1>1 DEF Owned, Replaced
    <2>6. Snapshot' /\ Replaced'
      BY <1>0, <1>1, <2>1 DEF Owned, Snapshot, Replaced
    <2>7. Synced'
      <3> SUFFICES ASSUME NEW q \in Proc, pc'[q] = "verify"
                   PROVE  survivors'[ScopeOf(call[q])] = {call[q]}
        BY <2>1 DEF Synced
      <3>1. CASE q = p
        BY <3>1, <2>5
      <3>2. CASE q # p
        <4>1. pc[q] = "verify" /\ ScopeOf(call[q]) \in Scope
          BY <3>2, <2>1, RecordFacts DEF Owned, TypeOK
        <4>2. entry[ScopeOf(call[q])] = call[q] /\ survivors[ScopeOf(call[q])] = {call[q]}
          BY <4>1 DEF Owned, Replaced, Synced
        <4>3. QED BY <4>1, <4>2, <2>4
      <3>3. QED BY <3>1, <3>2
    <2>8. EntrySurvives'
      BY <1>0, <2>4 DEF Owned, EntrySurvives
    <2>9. QED BY <2>2, <2>3, <2>6, <2>7, <2>8 DEF Owned
  <1>2. CASE unavailable(p, call[p], stored[p]) /\ UNCHANGED survivors
    BY <1>0, <1>2, UnavailableOwned
  <1>3. QED BY <1>1, <1>2 DEF syncDirectory

\* Reading the record back and answering.
LEMMA VerifyOwned ==
    ASSUME Owned, NEW p \in Proc, verifyRecord(p)
    PROVE  Owned'
  <1>0. /\ call[p] \in Record /\ call[p] \in Input /\ stored[p] \in Record \cup {NoRecord}
        /\ UNCHANGED <<entry, survivors, directory>>
        /\ directory' \in [Directories -> DirectoryState]
    BY RecordFacts DEF Owned, TypeOK, ValidCalls, verifyRecord
  <1>1. CASE unavailable(p, call[p], stored[p])
    BY <1>0, <1>1, UnavailableOwned
  <1>2. ASSUME NEW e \in {"initialized", "advanced"}, Return(p, call[p], e, call[p])
        PROVE  Owned'
    <2>1. e \in Evaluation
      BY DEF Evaluation
    <2>2. TypeOK'
      BY <1>0, <1>2, <2>1, ReturnTyped DEF Owned
    <2>3. QED BY <1>0, <1>2, <2>2, ReturnOwned DEF Return
  <1>3. QED BY <1>1, <1>2 DEF verifyRecord

\* A killed process gives its lock up and leaves the files as they are.
LEMMA KillOwned ==
    ASSUME Owned, NEW p \in Proc, Kill(p)
    PROVE  Owned'
  <1>1. holder' \in [Scope -> Proc \cup {Nobody}]
    BY DEF Owned, TypeOK, Kill, Leave
  <1>2. /\ pc' \in [Proc -> {"idle", "lock"} \cup Locked]
        /\ call' \in [Proc -> Input]
        /\ stored' \in [Proc -> Record \cup {NoRecord}]
        /\ tries' \in [Proc -> 0..MaxTries]
    BY AnyCallIsInput, TriesAssumption DEF Owned, TypeOK, Kill, Leave
  <1>3. TypeOK'
    BY <1>1, <1>2 DEF Owned, TypeOK, Kill
  <1>4. QED BY <1>3, ReturnOwned DEF Kill

\* What a power loss does to the disk, gone being the directories it takes.
LEMMA PowerLossFrame ==
    ASSUME Owned, PowerLoss
    PROVE  /\ entry' \in [Scope -> Content]
           /\ directory' \in [Directories -> DirectoryState]
           /\ committed' \in [Scope -> SUBSET Record]
           /\ \A s \in Scope :
                  \/ /\ directory[Directory(s)] = "made" /\ directory'[Directory(s)] = "absent"
                     /\ committed'[s] = {}
                  \/ /\ entry'[s] \in survivors[s]
                     /\ committed'[s] = committed[s]
  <1>1. PICK gone \in SUBSET {d \in Directories : directory[d] = "made"} :
           /\ directory' = [d \in Directories |->
                               IF d \in gone \/ directory[d] = "absent" THEN "absent" ELSE "durable"]
           /\ \A s \in Scope : IF Directory(s) \in gone THEN entry'[s] = NoRecord
                                                       ELSE entry'[s] \in survivors[s]
           /\ committed' = [s \in Scope |-> IF Directory(s) \in gone THEN {} ELSE committed[s]]
    BY DEF PowerLoss
  <1>2. directory' \in [Directories -> DirectoryState]
    BY <1>1 DEF DirectoryState
  <1>3. committed' \in [Scope -> SUBSET Record]
    BY <1>1 DEF Owned, TypeOK
  <1>4. entry' \in [Scope -> Content]
    <2>1. \A s \in Scope : entry'[s] \in Content
      BY <1>1 DEF Owned, TypeOK, Content
    <2>2. QED BY <2>1 DEF PowerLoss
  <1>5. \A s \in Scope : Directory(s) \in Directories
    BY DEF Directories
  <1>6. QED BY <1>1, <1>2, <1>3, <1>4, <1>5

\* After a power loss nobody is inside a call and the disk decides.
LEMMA PowerLossOwned ==
    ASSUME Owned, PowerLoss
    PROVE  Owned'
  <1>1. /\ entry' \in [Scope -> Content]
        /\ directory' \in [Directories -> DirectoryState]
        /\ committed' \in [Scope -> SUBSET Record]
    BY PowerLossFrame
  <1>2. survivors' \in [Scope -> SUBSET Content]
    BY <1>1 DEF PowerLoss
  <1>3. 0 \in 0..MaxTries
    BY TriesAssumption
  <1>4. TypeOK'
    BY <1>1, <1>2, <1>3, AnyCallIsInput DEF TypeOK, PowerLoss
  <1>5. \A p \in Proc : pc'[p] = "idle"
    BY DEF PowerLoss
  <1>6. ValidCalls' /\ LockOwned' /\ Snapshot' /\ Replaced' /\ Synced'
    BY <1>5 DEF ValidCalls, LockOwned, Snapshot, Replaced, Synced, Locked
  <1>7. EntrySurvives'
    BY DEF PowerLoss, EntrySurvives
  <1>8. QED BY <1>4, <1>6, <1>7 DEF Owned

\* Writing a directory's path back touches nothing a process can see.
LEMMA WriteBackOwned ==
    ASSUME Owned, NEW d \in Directories, WriteBack(d)
    PROVE  Owned'
  <1>1. directory' \in [Directories -> DirectoryState]
    BY DEF Owned, TypeOK, WriteBack, DirectoryState
  <1>2. TypeOK'
    BY <1>1 DEF Owned, TypeOK, WriteBack
  <1>3. QED
    BY <1>2 DEF WriteBack, Owned, ValidCalls, LockOwned, Snapshot, Replaced, Synced, EntrySurvives

\* Every step keeps ownership, power losses included.
LEMMA OwnedNext == Owned /\ [PowerNext]_vars => Owned'
  <1> SUFFICES ASSUME Owned, [PowerNext]_vars PROVE Owned'
    OBVIOUS
  <1>1. ASSUME NEW p \in Proc, NEW v \in Input, Observe(p, v) PROVE Owned'
    BY <1>1, ObserveOwned
  <1>2. ASSUME NEW p \in Proc, Step(p) PROVE Owned'
    BY <1>2, AcquireOwned, ReadOwned, WriteOwned, RenameOwned, SyncOwned, VerifyOwned DEF Step
  <1>3. ASSUME NEW p \in Proc, Kill(p) PROVE Owned'
    BY <1>3, KillOwned
  <1>4. CASE PowerLoss
    BY <1>4, PowerLossOwned
  <1>5. CASE UNCHANGED vars
    BY <1>5 DEF vars, Owned, TypeOK, ValidCalls, LockOwned, Snapshot, Replaced, Synced, EntrySurvives
  <1>6. ASSUME NEW d \in Directories, WriteBack(d) PROVE Owned'
    BY <1>6, WriteBackOwned
  <1>7. QED BY <1>1, <1>2, <1>3, <1>4, <1>5, <1>6 DEF Next, PowerNext

\* A step without power losses is one of the machine that may have them.
LEMMA OwnedRuns == Owned /\ [Next]_vars => Owned'
  BY OwnedNext DEF PowerNext

\* Type correctness of the store on a machine that may lose power: whatever
\* is interrupted, a record file holds a validated observation or what was
\* there before, and every answer is well formed.
THEOREM PowerTypeCorrect == PowerSpec => []TypeOK
  <1>1. PowerSpec => []Owned
    BY OwnedInit, OwnedNext, PTL DEF PowerSpec
  <1>2. Owned => TypeOK
    BY DEF Owned
  <1>3. QED BY <1>1, <1>2, PTL

\* Without power losses the same holds.
THEOREM TypeCorrect == Spec => []TypeOK
  <1>1. Owned /\ [Next]_vars => Owned'
    BY OwnedRuns
  <1>2. Spec => []Owned
    BY OwnedInit, <1>1, PTL DEF Spec
  <1>3. Owned => TypeOK
    BY DEF Owned
  <1>4. QED BY <1>2, <1>3, PTL

-----------------------------------------------------------------------------
(* A reported write survives power losses. *)

\* The answers that add to the history of commits come from a process that
\* has synced its own scope.
LEMMA CommittedFrame ==
    ASSUME Owned, NEW p \in Proc, NEW v \in Input, NEW e, NEW shown,
           Return(p, v, e, shown), e \notin {"initialized", "advanced"}
    PROVE  committed' = committed
  BY DEF Owned, TypeOK, Return

\* Whatever a power loss can leave in the file of a reported write covers it.
AllCover == \A s \in Scope : \A v \in committed[s] : \A c \in survivors[s] : Covers(s, c, v)

\* Every step but the last of a write leaves the commits alone; the rename
\* adds a record that extends the present one, and a sync or a power loss
\* only removes candidates.
LEMMA CommittedNext ==
    Owned /\ AllCover /\ [PowerNext]_vars => AllCover'
  <1> SUFFICES ASSUME Owned, AllCover, [PowerNext]_vars
               PROVE  AllCover'
    OBVIOUS
  <1>1. ASSUME committed' = committed, \A s \in Scope : survivors'[s] \subseteq survivors[s]
        PROVE  AllCover'
    BY <1>1 DEF AllCover, Covers
  <1>2. ASSUME NEW p \in Proc, NEW v \in Input, NEW shown, unavailable(p, v, shown),
               UNCHANGED survivors
        PROVE  AllCover'
    BY <1>1, <1>2, CommittedFrame DEF unavailable
  <1>3. ASSUME NEW p \in Proc, NEW v \in Input, Observe(p, v) PROVE AllCover'
    BY <1>1, <1>2, <1>3 DEF Observe
  <1>4. ASSUME NEW p \in Proc, acquireLock(p) PROVE AllCover'
    BY <1>1, <1>2, <1>4 DEF acquireLock, Continue, Owned, TypeOK
  <1>5. ASSUME NEW p \in Proc, readRecord(p) PROVE AllCover'
    <2>0. call[p] \in Input /\ call[p] \in Record /\ UNCHANGED survivors
      BY <1>5 DEF Owned, TypeOK, ValidCalls, readRecord
    <2>1. ASSUME entry[ScopeOf(call[p])] \in Record,
                 Return(p, call[p], Classify(entry[ScopeOf(call[p])], call[p]), entry[ScopeOf(call[p])])
          PROVE  AllCover'
      BY <2>0, <2>1, <1>1, CommittedFrame, ClassifyIsEvaluation
    <2>2. QED BY <2>0, <2>1, <1>1, <1>2, <1>5 DEF readRecord, Continue
  <1>6. ASSUME NEW p \in Proc, writeTemporary(p) PROVE AllCover'
    BY <1>1, <1>2, <1>6 DEF writeTemporary, Continue, Owned, TypeOK
  <1>7. ASSUME NEW p \in Proc, atomicReplace(p) PROVE AllCover'
    <2> DEFINE s == ScopeOf(call[p])
    <2>0. call[p] \in Input /\ call[p] \in Record /\ s \in Scope
      BY <1>7, RecordFacts DEF Owned, TypeOK, ValidCalls, atomicReplace
    <2>1. CASE unavailable(p, call[p], stored[p]) /\ UNCHANGED survivors
      BY <2>0, <2>1, <1>2
    <2>2. CASE /\ survivors' = [survivors EXCEPT ![s] = @ \cup {call[p]}]
               /\ Continue(p, "sync")
      <3>1. committed' = committed
        BY <2>2 DEF Continue
      <3>2. \A t \in Scope : survivors'[t] = IF t = s THEN survivors[s] \cup {call[p]} ELSE survivors[t]
        BY <2>2 DEF Owned, TypeOK
      <3>3. \A v \in committed[s] : ScopeOf(call[p]) = s /\ Extends(v, call[p])
        <4> SUFFICES ASSUME NEW v \in committed[s] PROVE Extends(v, call[p])
          OBVIOUS
        <4>1. v \in Record /\ entry[s] \in survivors[s]
          BY <2>0 DEF Owned, TypeOK, EntrySurvives
        <4>2. entry[s] \in Record /\ Extends(v, entry[s])
          BY <2>0, <4>1 DEF AllCover, Covers
        <4>3. Replaces(entry[s], call[p])
          BY <1>7 DEF Owned, Snapshot, atomicReplace
        <4>4. Extends(entry[s], call[p])
          BY <2>0, <4>2, <4>3, ExtendsFacts, RecordFacts DEF Replaces
        <4>5. QED BY <2>0, <4>1, <4>2, <4>4, ExtendsFacts
      <3>4. QED BY <2>0, <3>1, <3>2, <3>3 DEF AllCover, Covers
    <2>3. QED BY <1>7, <2>1, <2>2 DEF atomicReplace
  <1>8. ASSUME NEW p \in Proc, syncDirectory(p) PROVE AllCover'
    <2>1. CASE unavailable(p, call[p], stored[p]) /\ UNCHANGED survivors
      BY <2>1, <1>2 DEF Owned, TypeOK
    <2>2. CASE /\ survivors' = [t \in Scope |->
                     IF Directory(t) = Directory(ScopeOf(call[p])) THEN {entry[t]} ELSE survivors[t]]
               /\ Continue(p, "verify")
      BY <2>2, <1>1 DEF Continue, Owned, EntrySurvives
    <2>3. QED BY <1>8, <2>1, <2>2 DEF syncDirectory
  <1>9. ASSUME NEW p \in Proc, verifyRecord(p) PROVE AllCover'
    <2> DEFINE s == ScopeOf(call[p])
    <2>0. call[p] \in Input /\ call[p] \in Record /\ s \in Scope /\ UNCHANGED survivors
      BY <1>9, RecordFacts DEF Owned, TypeOK, ValidCalls, verifyRecord
    <2>1. survivors[s] = {call[p]}
      BY <1>9 DEF Owned, Synced, verifyRecord
    <2>2. ASSUME NEW e \in {"initialized", "advanced"}, Return(p, call[p], e, call[p])
          PROVE  AllCover'
      <3>1. \A t \in Scope : committed'[t] \subseteq
                IF t = s THEN committed[s] \cup {call[p]} ELSE committed[t]
        BY <2>0, <2>2 DEF Return, Owned, TypeOK
      <3>2. Extends(call[p], call[p])
        BY <2>0, ExtendsFacts
      <3>3. QED BY <2>0, <2>1, <3>1, <3>2 DEF AllCover, Covers
    <2>3. QED BY <1>2, <1>9, <2>0, <2>2 DEF verifyRecord
  <1>10. ASSUME NEW p \in Proc, Kill(p) PROVE AllCover'
    BY <1>1, <1>10 DEF Kill
  <1>11. CASE PowerLoss
    <2>1. \A s \in Scope : \/ committed'[s] = {}
                           \/ entry'[s] \in survivors[s] /\ committed'[s] = committed[s]
      BY <1>11, PowerLossFrame
    <2>2. \A s \in Scope : survivors'[s] = {entry'[s]}
      BY <1>11 DEF PowerLoss
    <2>3. QED BY <2>1, <2>2 DEF AllCover
  <1>12. CASE UNCHANGED vars
    BY <1>1, <1>12 DEF vars
  <1>13. ASSUME NEW d \in Directories, WriteBack(d) PROVE AllCover'
    BY <1>1, <1>13 DEF WriteBack
  <1>14. QED
    BY <1>3, <1>4, <1>5, <1>6, <1>7, <1>8, <1>9, <1>10, <1>11, <1>12, <1>13 DEF Next, Step, PowerNext

\* What a step shows of the records before it: the record on file is one of
\* those the disk may hold, before a rename and after it.
LEMMA CommitsCovered ==
    ASSUME Owned, AllCover, Owned', AllCover', [PowerNext]_vars
    PROVE  \A s \in Scope : \A v \in committed[s] :
               \/ Covers(s, entry'[s], v)
               \/ /\ directory[Directory(s)] = "made"
                  /\ directory'[Directory(s)] = "absent"
                  /\ committed'[s] = {}
  <1>1. ASSUME \A s \in Scope : committed[s] \subseteq committed'[s]
        PROVE  \A s \in Scope : \A v \in committed[s] : Covers(s, entry'[s], v)
    <2>1. \A s \in Scope : entry'[s] \in survivors'[s]
      BY DEF Owned, EntrySurvives
    <2>2. \A s \in Scope : \A v \in committed'[s] : \A c \in survivors'[s] : Covers(s, c, v)
      BY DEF AllCover, Covers
    <2>3. QED BY <1>1, <2>1, <2>2
  <1>2. CASE PowerLoss
    BY <1>2, PowerLossFrame DEF AllCover
  <1>3. ASSUME NEW p \in Proc, NEW v \in Input, NEW e, NEW shown, Return(p, v, e, shown)
        PROVE  \A s \in Scope : committed[s] \subseteq committed'[s]
    BY <1>3 DEF Return, Owned, TypeOK
  <1>4. ASSUME NEW p \in Proc, NEW v \in Input, Observe(p, v)
        PROVE  \A s \in Scope : committed[s] \subseteq committed'[s]
    BY <1>3, <1>4 DEF Observe, unavailable
  <1>5. ASSUME NEW p \in Proc, Step(p)
        PROVE  \A s \in Scope : committed[s] \subseteq committed'[s]
    <2>1. call[p] \in Input
      BY DEF Owned, TypeOK
    <2>2. QED BY <1>3, <1>5, <2>1 DEF Step, acquireLock, readRecord, writeTemporary, atomicReplace,
                  syncDirectory, verifyRecord, Continue, unavailable
  <1>6. ASSUME NEW p \in Proc, Kill(p)
        PROVE  \A s \in Scope : committed[s] \subseteq committed'[s]
    BY <1>6 DEF Kill
  <1>7. ASSUME NEW d \in Directories, WriteBack(d)
        PROVE  \A s \in Scope : committed[s] \subseteq committed'[s]
    BY <1>7 DEF WriteBack
  <1>8. CASE UNCHANGED vars
    BY <1>1, <1>8 DEF vars
  <1>9. QED BY <1>1, <1>2, <1>4, <1>5, <1>6, <1>7, <1>8 DEF PowerNext, Next

\* Durability: a value that Observe reported as initialized or advanced stays
\* covered through every later power loss, unless the loss takes a directory
\* that Observe made and the file system had not written back.
THEOREM Durability == PowerSpec => CommittedSurvives
  <1>1. Init => AllCover
    BY DEF Init, AllCover
  <1>2. PowerSpec => []Owned
    BY OwnedInit, OwnedNext, PTL DEF PowerSpec
  <1>3. PowerSpec => []AllCover
    BY <1>1, <1>2, CommittedNext, PTL DEF PowerSpec
  <1>4. QED BY <1>2, <1>3, CommitsCovered, PTL DEF PowerSpec, CommittedSurvives

-----------------------------------------------------------------------------
(* Nothing accepted is ever contradicted. *)

Agreed == AcceptedNeverRegresses /\ AcceptanceIsAChain

\* An answer that accepts v is safe when the record on file matches v: all
\* that was accepted before is below the record, and so below v.
LEMMA AcceptAgrees ==
    ASSUME Owned, Agreed, NEW p \in Proc, NEW v \in Record, NEW e, NEW shown,
           Return(p, v, e, shown), UNCHANGED entry,
           e \in {"initialized", "matched", "advanced"} =>
               /\ entry[ScopeOf(v)] \in Record
               /\ ScopeOf(entry[ScopeOf(v)]) = ScopeOf(v)
               /\ Extends(v, entry[ScopeOf(v)])
               /\ Extends(entry[ScopeOf(v)], v)
    PROVE  Agreed'
  <1> DEFINE s == ScopeOf(v)
  <1>0. s \in Scope
    BY RecordFacts
  <1>1. CASE e \notin {"initialized", "matched", "advanced"}
    <2>1. accepted' = accepted
      BY <1>0, <1>1 DEF Return, Owned, TypeOK
    <2>2. QED BY <2>1 DEF Agreed, AcceptedNeverRegresses, AcceptanceIsAChain
  <1>2. CASE e \in {"initialized", "matched", "advanced"}
    <2>1. \A t \in Scope : accepted'[t] = IF t = s THEN accepted[s] \cup {v} ELSE accepted[t]
      BY <1>0, <1>2 DEF Return, Owned, TypeOK
    <2>2. \A u \in accepted[s] : Extends(u, v)
      <3> SUFFICES ASSUME NEW u \in accepted[s] PROVE Extends(u, v)
        OBVIOUS
      <3>1. u \in Record /\ Extends(u, entry[s])
        BY <1>0 DEF Owned, TypeOK, Agreed, AcceptedNeverRegresses
      <3>2. QED BY <1>2, <3>1, ExtendsFacts
    <2>3. AcceptedNeverRegresses'
      BY <1>2, <2>1 DEF Agreed, AcceptedNeverRegresses
    <2>4. AcceptanceIsAChain'
      BY <2>1, <2>2, ExtendsFacts DEF Agreed, AcceptanceIsAChain
    <2>5. QED BY <2>3, <2>4 DEF Agreed
  <1>3. QED BY <1>1, <1>2

\* Every step of the running system, kills and failures included.
LEMMA AgreedNext == Owned /\ Agreed /\ [Next]_vars => Agreed'
  <1> SUFFICES ASSUME Owned, Agreed, [Next]_vars PROVE Agreed'
    OBVIOUS
  <1>1. ASSUME UNCHANGED <<entry, accepted>> PROVE Agreed'
    BY <1>1 DEF Agreed, AcceptedNeverRegresses, AcceptanceIsAChain
  <1>2. ASSUME NEW p \in Proc, NEW v \in Input, NEW shown, unavailable(p, v, shown), UNCHANGED entry
        PROVE  Agreed'
    <2>1. accepted' = accepted
      BY <1>2 DEF unavailable, Return, Owned, TypeOK
    <2>2. QED BY <1>1, <1>2, <2>1
  <1>3. ASSUME NEW p \in Proc, NEW v \in Input, Observe(p, v) PROVE Agreed'
    BY <1>1, <1>2, <1>3 DEF Observe
  <1>4. ASSUME NEW p \in Proc, acquireLock(p) PROVE Agreed'
    BY <1>1, <1>2, <1>4 DEF acquireLock, Continue, Owned, TypeOK
  <1>5. ASSUME NEW p \in Proc, readRecord(p) PROVE Agreed'
    <2> DEFINE s == ScopeOf(call[p])
    <2>0. call[p] \in Input /\ call[p] \in Record /\ s \in Scope /\ UNCHANGED entry
      BY <1>5, RecordFacts DEF Owned, TypeOK, ValidCalls, readRecord
    <2>1. ASSUME entry[s] \in Record, ScopeOf(entry[s]) = s,
                 Return(p, call[p], Classify(entry[s], call[p]), entry[s])
          PROVE  Agreed'
      <3>1. Classify(entry[s], call[p]) \in {"initialized", "matched", "advanced"} =>
                Extends(call[p], entry[s]) /\ Extends(entry[s], call[p])
        BY <2>0, <2>1, ExtendsFacts, ClassifyIsEvaluation
      <3>2. QED BY <2>0, <2>1, <3>1, AcceptAgrees
    <2>2. QED BY <2>0, <2>1, <1>1, <1>2, <1>5 DEF readRecord, Continue
  <1>6. ASSUME NEW p \in Proc, writeTemporary(p) PROVE Agreed'
    BY <1>1, <1>2, <1>6 DEF writeTemporary, Continue, Owned, TypeOK
  <1>7. ASSUME NEW p \in Proc, atomicReplace(p) PROVE Agreed'
    <2> DEFINE s == ScopeOf(call[p])
    <2>0. call[p] \in Input /\ call[p] \in Record /\ s \in Scope
      BY <1>7, RecordFacts DEF Owned, TypeOK, ValidCalls, atomicReplace
    <2>1. CASE unavailable(p, call[p], stored[p]) /\ UNCHANGED entry
      BY <2>0, <2>1, <1>2
    <2>2. CASE entry' = [entry EXCEPT ![s] = call[p]] /\ Continue(p, "sync")
      <3>1. accepted' = accepted
        BY <2>2 DEF Continue
      <3>2. \A t \in Scope : entry'[t] = IF t = s THEN call[p] ELSE entry[t]
        BY <2>2 DEF Owned, TypeOK
      <3>3. \A v \in accepted[s] : Extends(v, call[p])
        <4> SUFFICES ASSUME NEW v \in accepted[s] PROVE Extends(v, call[p])
          OBVIOUS
        <4>1. v \in Record /\ entry[s] \in Record /\ Extends(v, entry[s])
          BY <2>0 DEF Owned, TypeOK, Agreed, AcceptedNeverRegresses
        <4>2. Replaces(entry[s], call[p])
          BY <1>7 DEF Owned, Snapshot, atomicReplace
        <4>3. Extends(entry[s], call[p])
          BY <2>0, <4>1, <4>2, ExtendsFacts, RecordFacts DEF Replaces
        <4>4. QED BY <2>0, <4>1, <4>3, ExtendsFacts
      <3>4. AcceptedNeverRegresses'
        BY <2>0, <3>1, <3>2, <3>3 DEF Agreed, AcceptedNeverRegresses
      <3>5. AcceptanceIsAChain'
        BY <3>1 DEF Agreed, AcceptanceIsAChain
      <3>6. QED BY <3>4, <3>5 DEF Agreed
    <2>3. QED BY <1>7, <2>1, <2>2 DEF atomicReplace
  <1>8. ASSUME NEW p \in Proc, syncDirectory(p) PROVE Agreed'
    BY <1>1, <1>2, <1>8 DEF syncDirectory, Continue, Owned, TypeOK
  <1>9. ASSUME NEW p \in Proc, verifyRecord(p) PROVE Agreed'
    <2>0. call[p] \in Input /\ call[p] \in Record /\ UNCHANGED entry
      BY <1>9, RecordFacts DEF Owned, TypeOK, ValidCalls, verifyRecord
    <2>1. entry[ScopeOf(call[p])] = call[p] /\ Extends(call[p], call[p])
      BY <1>9, <2>0, ExtendsFacts DEF Owned, Replaced, verifyRecord
    <2>2. ASSUME NEW e \in {"initialized", "advanced"}, Return(p, call[p], e, call[p])
          PROVE  Agreed'
      BY <2>0, <2>1, <2>2, AcceptAgrees
    <2>3. QED BY <1>2, <1>9, <2>0, <2>2 DEF verifyRecord
  <1>10. ASSUME NEW p \in Proc, Kill(p) PROVE Agreed'
    BY <1>1, <1>10 DEF Kill
  <1>11. CASE UNCHANGED vars
    BY <1>1, <1>11 DEF vars
  <1>12. QED
    BY <1>3, <1>4, <1>5, <1>6, <1>7, <1>8, <1>9, <1>10, <1>11 DEF Next, Step

\* The invariant both acceptance theorems rest on.
LEMMA AlwaysAgreed == Spec => [](Owned /\ Agreed)
  <1>1. Init => Agreed
    BY DEF Init, Agreed, AcceptedNeverRegresses, AcceptanceIsAChain
  <1>2. Owned /\ [Next]_vars => Owned'
    BY OwnedRuns
  <1>3. QED BY OwnedInit, <1>1, <1>2, AgreedNext, PTL DEF Spec

\* No rollback: a value some caller of Observe was told to accept stays
\* covered by the record file, whatever other processes do, fail at or die in.
THEOREM NoRollback == Spec => []AcceptedNeverRegresses
  <1>1. Agreed => AcceptedNeverRegresses
    BY DEF Agreed
  <1>2. QED BY AlwaysAgreed, <1>1, PTL

\* No equivocation: two callers of Observe are never told to accept values
\* that conflict.
THEOREM NoEquivocation == Spec => []AcceptanceIsAChain
  <1>1. Agreed => AcceptanceIsAChain
    BY DEF Agreed
  <1>2. QED BY AlwaysAgreed, <1>1, PTL

-----------------------------------------------------------------------------
(* Observe implements the abstract register. *)

\* An answer whose justification holds is a step of the register.
LEMMA AnswerImplements ==
    ASSUME Owned, NEW p \in Proc, NEW v \in Input, NEW e \in Evaluation,
           NEW shown \in Record \cup {NoRecord}, Return(p, v, e, shown), UNCHANGED entry,
           Register!Justified([observed |-> v, evaluation |-> e, shown |-> shown])
    PROVE  Register!Next
  <1> DEFINE a == [observed |-> v, evaluation |-> e, shown |-> shown]
  <1>1. a \in Response
    BY DEF Response
  <1>2. a # NoResponse
    BY <1>1, SentinelAssumption
  <1>3. response' = [response EXCEPT ![p] = a] /\ response'[p] = a
    BY DEF Return, Owned, TypeOK
  <1>4. Register!Answer(p, response'[p])
    BY <1>2, <1>3 DEF Register!Answer
  <1>5. QED BY <1>4 DEF Register!Next

\* Each step of Observe is a step of the register or leaves it alone.
LEMMA StepImplements ==
    Owned /\ [Next]_vars => [Register!Next]_<<entry, response>>
  <1> SUFFICES ASSUME Owned, Next PROVE [Register!Next]_<<entry, response>>
    BY DEF vars
  <1>1. ASSUME NEW p \in Proc, NEW v \in Input, NEW shown \in Record \cup {NoRecord},
               unavailable(p, v, shown), UNCHANGED entry
        PROVE  Register!Next
    <2>1. "unavailable" \in Evaluation
      BY DEF Evaluation
    <2>2. Register!Justified([observed |-> v, evaluation |-> "unavailable", shown |-> shown])
      BY DEF Register!Justified
    <2>3. QED BY <1>1, <2>1, <2>2, AnswerImplements DEF unavailable
  <1>2. ASSUME NEW p \in Proc, NEW v \in Input, Observe(p, v) PROVE Register!Next
    BY <1>1, <1>2 DEF Observe, Register!Next, Register!Forget
  <1>3. ASSUME NEW p \in Proc, Step(p) PROVE [Register!Next]_<<entry, response>>
    <2> DEFINE s == ScopeOf(call[p])
    <2>0. /\ call[p] \in Input /\ s \in Scope /\ stored[p] \in Record \cup {NoRecord}
          /\ pc[p] # "idle" => call[p] \in Record
      BY RecordFacts DEF Owned, TypeOK, ValidCalls
    <2>1. CASE acquireLock(p)
      BY <1>1, <2>0, <2>1 DEF acquireLock, Continue
    <2>2. CASE readRecord(p)
      <3>1. call[p] \in Record /\ UNCHANGED entry
        BY <2>0, <2>2 DEF readRecord
      <3>2. ASSUME entry[s] \in Record, ScopeOf(entry[s]) = s, Classify(entry[s], call[p]) # "advance",
                   Return(p, call[p], Classify(entry[s], call[p]), entry[s])
            PROVE  Register!Next
        <4>1. Classify(entry[s], call[p]) \in Evaluation
          BY <3>1, <3>2, ClassifyIsEvaluation
        <4>2. entry[s] \in Register!Record
          BY <3>2 DEF Register!Record, Record
        <4>3. Register!Justified([observed |-> call[p],
                                  evaluation |-> Classify(entry[s], call[p]), shown |-> entry[s]])
          BY <3>2, <4>2 DEF Register!Justified
        <4>4. QED BY <2>0, <3>1, <3>2, <4>1, <4>3, AnswerImplements
      <3>3. QED BY <1>1, <2>0, <2>2, <3>1, <3>2 DEF readRecord, Continue
    <2>3. CASE writeTemporary(p)
      BY <1>1, <2>0, <2>3 DEF writeTemporary, Continue
    <2>4. CASE atomicReplace(p)
      <3>1. CASE entry' = [entry EXCEPT ![s] = call[p]] /\ Continue(p, "sync")
        <4>1. Replaces(entry[s], call[p]) /\ call[p] \in Record
          BY <2>0, <2>4 DEF Owned, Snapshot, atomicReplace
        <4>2. Register!MayReplace(entry[s], call[p]) /\ call[p] \in Register!Record
          BY <4>1 DEF Register!MayReplace, Replaces, Register!Record, Record
        <4>3. Register!Advance(call[p])
          BY <3>1, <4>2 DEF Register!Advance, Continue
        <4>4. QED BY <4>2, <4>3 DEF Register!Next
      <3>2. CASE unavailable(p, call[p], stored[p]) /\ UNCHANGED entry
        BY <1>1, <2>0, <3>2
      <3>3. QED BY <2>4, <3>1, <3>2 DEF atomicReplace
    <2>5. CASE syncDirectory(p)
      BY <1>1, <2>0, <2>5 DEF syncDirectory, Continue
    <2>6. CASE verifyRecord(p)
      <3>1. entry[s] = call[p] /\ call[p] \in Record /\ UNCHANGED entry
        BY <2>0, <2>6 DEF Owned, Replaced, verifyRecord
      <3>2. ASSUME NEW e \in {"initialized", "advanced"}, Return(p, call[p], e, call[p])
            PROVE  Register!Next
        <4>1. Register!Justified([observed |-> call[p], evaluation |-> e, shown |-> call[p]])
          BY <3>1 DEF Register!Justified
        <4>2. e \in Evaluation
          BY DEF Evaluation
        <4>3. QED BY <2>0, <3>1, <3>2, <4>1, <4>2, AnswerImplements
      <3>3. QED BY <1>1, <2>0, <2>6, <3>1, <3>2 DEF verifyRecord
    <2>7. QED BY <1>3, <2>1, <2>2, <2>3, <2>4, <2>5, <2>6 DEF Step
  <1>4. ASSUME NEW p \in Proc, Kill(p) PROVE Register!Next
    BY <1>4 DEF Kill, Register!Next, Register!Forget
  <1>5. QED BY <1>2, <1>3, <1>4 DEF Next

\* Refinement: a caller of Observe cannot tell the file protocol, with its
\* locks, temporary files and failures, from one register per scope that
\* only advances.
THEOREM Refinement == Spec => ImplementsRegister
  <1>1. Init => Register!Init
    BY DEF Init, Register!Init, Content, Record, Register!Record
  <1>2. Owned /\ [Next]_vars => Owned'
    BY OwnedRuns
  <1>3. QED
    BY OwnedInit, <1>1, <1>2, StepImplements, PTL DEF Spec, ImplementsRegister, Register!Spec

-----------------------------------------------------------------------------
(* The comparisons of the four state packages are what ClassifyAssumption   *)
(* asks for, for every bound on generations and every set of digests and    *)
(* keys: the theorems above hold for each package.                          *)

\* truststate compares a generation and the digest accepted at it.
THEOREM TrustComparison ==
    Comparison(TrustRecord, ClassifyTrust)
  BY DEF Comparison, TrustRecord, Generation, TrustInput, ValidTrustInput, ClassifyTrust, Rejections

\* releasestate compares the same way within a (kind, authority, channel).
THEOREM ReleaseComparison ==
    Comparison(ReleaseRecord, ClassifyRelease)
  BY DEF Comparison, ReleaseRecord, Generation, ReleaseInput, ValidReleaseInput, ClassifyRelease,
      Rejections

\* trustrotationstate compares two generations at once.
THEOREM RotationComparison ==
    Comparison(RotationRecord, ClassifyRotation)
  BY DEF Comparison, RotationRecord, Generation, RotationInput, ValidRotation,
      ClassifyRotation, Rejections

\* trustchainstate compares two generations, the hop count included.
THEOREM ChainComparison ==
    Comparison(ChainRecord, ClassifyChain)
  BY DEF Comparison, ChainRecord, Generation, ChainInput, ValidChain, ClassifyChain,
      Rejections
=============================================================================

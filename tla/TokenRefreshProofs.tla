------------------------- MODULE TokenRefreshProofs -------------------------
(***************************************************************************)
(* Proofs about TokenRefresh, for any runs, any finite set of accounts and *)
(* any bounds: type correctness, the lock, the outcome of a run, its       *)
(* totals, the order in which tokens are stored, and that the runs         *)
(* implement RefreshLedger.                                                *)
(***************************************************************************)
EXTENDS TokenRefresh, FiniteSetTheorems, TLAPS

\* A run at any step of its own.
Moves(r) == Step(r) \/ Raise(r) \/ Disconnect(r)

-----------------------------------------------------------------------------
(* The inductive invariant, part by part.                                  *)

\* The provider and the administrator keep to their bounds.
IssuedInBounds == issued <= 1 + MaxRotations + edits

\* As long as no run has outlasted the TTL, whoever works holds the lock.
WorkersHoldLock == overruns = 0 => \A r \in Runs : Working(r) => lock = r /\ ~expired

\* The run by itself.  An answer is about an account still to be counted;
\* before a run has its accounts it has counted nothing; from then on, until it
\* ends, what it has counted and what is left make up its total; and a row that
\* is finished belongs to a run that has nothing left to write.
Underway(r) == \/ pc[r] \in {"lock", "loop", "reply", "logged"}
               \/ pc[r] = "gate" /\ kind[r] # "scheduled"
               \/ pc[r] \in {"release", "finish"} /\ kind[r] = "retry_failed"
Through(r) == pc[r] \in {"release", "finish"} /\ kind[r] = "retry_failed"
Tallied(r) == counts[r].ok + counts[r].bad + Cardinality(todo[r]) = row[r].total

RunInOrder(r) ==
    /\ pc[r] \in {"reply", "logged"} => reply[r].account \in todo[r]
    /\ pc[r] \in {"idle", "gate", "load"} => counts[r].ok = 0 /\ counts[r].bad = 0
    /\ Underway(r) => Tallied(r)
    /\ Through(r) => todo[r] = {}
    /\ pc[r] = "finish" => kind[r] = "retry_failed"
    /\ row[r].status \in Ended => pc[r] \in {"release", "done", "dead"} /\ ~Through(r)
    /\ row[r].status = "completed" => row[r].ok + row[r].bad = row[r].total

\* A request outside the runs has an account in hand, and with it the token it
\* read when it edits.
ErrandInOrder(t) == other[t].step # "none" =>
    other[t].account \in Accounts /\ (other[t].step = "edit" => other[t].token # 0)

\* What is stored or in anybody's hand was issued; an answer that a run is about
\* to store is at least as new as what is stored, unless a request outside the
\* runs has written that account since the run asked.
StoredWasIssued ==
    /\ \A a \in Accounts : stored[a] <= issued
    /\ \A r \in Runs : reply[r].token <= issued
    /\ \A t \in Others : other[t].token <= issued
ReplyIsNewer ==
    overruns = 0 =>
        \A r \in Runs : pc[r] \in {"reply", "logged"} /\ reply[r].token # 0 =>
            \A a \in Accounts \ touched : a = reply[r].account => reply[r].token >= stored[a]

IInv == /\ TypeOK
        /\ IssuedInBounds
        /\ WorkersHoldLock
        /\ \A r \in Runs : RunInOrder(r)
        /\ \A t \in Others : ErrandInOrder(t)
        /\ StoredWasIssued
        /\ ReplyIsNewer

-----------------------------------------------------------------------------
(* Type correctness.                                                       *)

LEMMA Bounds ==
    /\ MaxRotations \in Nat /\ MaxEdits \in Nat /\ MaxOverruns \in Nat
    /\ NoRun \notin Runs
    /\ \A s \in SUBSET Accounts : IsFiniteSet(s) /\ Cardinality(s) \in Nat
    /\ \A n : n \in TokenIds <=> n \in Nat /\ n <= 1 + MaxRotations + MaxEdits
BY TokenRefreshAssumption, FS_Subset, FS_CardinalityType DEF TokenRefreshAssumption, TokenIds

LEMMA CountType ==
    ASSUME counts \in [Runs -> [ok : Nat, bad : Nat]], NEW r \in Runs, NEW ok \in BOOLEAN, Count(r, ok)
    PROVE  /\ counts' \in [Runs -> [ok : Nat, bad : Nat]]
           /\ counts'[r].ok + counts'[r].bad = counts[r].ok + counts[r].bad + 1
           /\ \A q \in Runs \ {r} : counts'[q] = counts[q]
<1>1. counts' = [counts EXCEPT ![r].ok = @ + 1] \/ counts' = [counts EXCEPT ![r].bad = @ + 1]
  BY DEF Count
<1>2. counts[r].ok \in Nat /\ counts[r].bad \in Nat
  OBVIOUS
<1>3. CASE counts' = [counts EXCEPT ![r].ok = @ + 1]
  <2>1. counts' \in [Runs -> [ok : Nat, bad : Nat]] /\ \A q \in Runs \ {r} : counts'[q] = counts[q]
    BY <1>3
  <2>2. counts'[r].ok = counts[r].ok + 1 /\ counts'[r].bad = counts[r].bad
    BY <1>3
  <2> QED
    BY <1>2, <2>1, <2>2
<1>4. CASE counts' = [counts EXCEPT ![r].bad = @ + 1]
  <2>1. counts' \in [Runs -> [ok : Nat, bad : Nat]] /\ \A q \in Runs \ {r} : counts'[q] = counts[q]
    BY <1>4
  <2>2. counts'[r].ok = counts[r].ok /\ counts'[r].bad = counts[r].bad + 1
    BY <1>4
  <2> QED
    BY <1>2, <2>1, <2>2
<1> QED
  BY <1>1, <1>3, <1>4

\* A refresh run that is not yet there, and tokens as they are.
LEMMA TypeInit == Init => TypeOK
<1> SUFFICES ASSUME Init PROVE TypeOK
  OBVIOUS
<1>1. 0 \in TokenIds /\ 1 \in TokenIds
  BY Bounds
<1>2. kind \in [Runs -> AllKinds]
  BY TokenRefreshAssumption DEF Init, TokenRefreshAssumption
<1>3. NoReply \in [account : Accounts \cup {NoRun}, ok : BOOLEAN, token : TokenIds]
  BY <1>1 DEF NoReply
<1>4. NoRow \in [status : RowStatuses, total : Nat, ok : Nat, bad : Nat]
  BY DEF NoRow, RowStatuses
<1>5. /\ pc \in [Runs -> Phases]
      /\ reply \in [Runs -> [account : Accounts \cup {NoRun}, ok : BOOLEAN, token : TokenIds]]
      /\ row \in [Runs -> [status : RowStatuses, total : Nat, ok : Nat, bad : Nat]]
      /\ counts \in [Runs -> [ok : Nat, bad : Nat]]
  BY <1>3, <1>4 DEF Init, Phases
<1>6. /\ loaded \in [Runs -> [Accounts -> TokenIds]]
      /\ todo \in [Runs -> SUBSET Accounts]
      /\ stored \in [Accounts -> TokenIds \ {0}]
      /\ lastLog \in [Accounts -> {"none", "success", "failed"}]
  BY <1>1 DEF Init
<1>7. /\ lock \in Runs \cup {NoRun} /\ expired \in BOOLEAN
      /\ overruns \in 0 .. MaxOverruns /\ edits \in 0 .. MaxEdits /\ recent \subseteq Runs
      /\ issued \in TokenIds
  <2>1. lock = NoRun /\ expired = FALSE /\ overruns = 0 /\ edits = 0 /\ recent = {} /\ issued = 1
    BY DEF Init
  <2>2. 0 \in 0 .. MaxOverruns /\ 0 \in 0 .. MaxEdits
    BY Bounds
  <2>3. expired \in BOOLEAN
    BY <2>1
  <2> QED
    BY <1>1, <2>1, <2>2, <2>3
<1>8. forced \in [Runs -> BOOLEAN]
  BY DEF Init
<1>9. /\ other \in [Others -> [step : {"none", "answer", "logged", "edit"},
                              account : Accounts \cup {NoRun}, ok : BOOLEAN, token : TokenIds]]
      /\ touched \subseteq Accounts
  BY <1>1 DEF Init, NoErrand
<1> QED
  BY <1>2, <1>5, <1>6, <1>7, <1>8, <1>9 DEF TypeOK

\* A row that is written has its types.
LEMMA SetRowType ==
    ASSUME TypeOK, NEW r \in Runs, NEW status \in RowStatuses, NEW total \in Nat, NEW ok \in Nat,
           NEW bad \in Nat, SetRow(r, status, total, ok, bad)
    PROVE  row' \in [Runs -> [status : RowStatuses, total : Nat, ok : Nat, bad : Nat]]
BY DEF SetRow, TypeOK

\* A step of one run keeps the types, variable by variable: most steps leave
\* most of them alone.
LEMMA TypeRun ==
    ASSUME TypeOK, IssuedInBounds, NEW r \in Runs, RunInOrder(r), Moves(r)
    PROVE  TypeOK' /\ IssuedInBounds'
<1> USE DEF Moves, Step, runVars, lockVars, dbVars, tokenVars,
            Raise, Disconnect, StartAll, StartTrigger, StartScheduled, StartRetry, Gate, Skip,
            LoadScheduled, Acquire, Conflict, Release, DecryptFails, CallUpstream, Save, LogRetry,
            SaveRetry, Finish, LeaveRetry, FinishRetry
<1>1. kind' = kind /\ forced' = forced /\ edits' = edits /\ other' = other
  OBVIOUS
<1>2. pc' \in [Runs -> Phases]
  <2>1. pc' = pc \/ \E to \in Phases : Goto(r, to)
    BY DEF NextAccount, Phases
  <2>2. pc \in [Runs -> Phases]
    BY DEF TypeOK
  <2> QED
    BY <2>1, <2>2 DEF Goto
<1>3. lock' \in Runs \cup {NoRun} /\ expired' \in BOOLEAN /\ overruns' = overruns
  BY DEF PurgeLock, DropLock, TypeOK
<1>4. loaded' \in [Runs -> [Accounts -> TokenIds]]
  <2>1. loaded' = loaded \/ loaded' = [loaded EXCEPT ![r] = stored]
    BY DEF Load
  <2>2. loaded \in [Runs -> [Accounts -> TokenIds]] /\ stored \in [Accounts -> TokenIds]
    BY DEF TypeOK
  <2> QED
    BY <2>1, <2>2
<1>5. todo' \in [Runs -> SUBSET Accounts]
  <2>1. todo' = todo \/ \E s \in SUBSET Accounts : todo' = [todo EXCEPT ![r] = s]
    <3>1. todo[r] \in SUBSET Accounts
      BY DEF TypeOK
    <3> QED
      BY <3>1 DEF Load, NextAccount
  <2> QED
    BY <2>1 DEF TypeOK
<1>6. /\ reply' \in [Runs -> [account : Accounts \cup {NoRun}, ok : BOOLEAN, token : TokenIds]]
      /\ issued' \in TokenIds
      /\ IssuedInBounds'
  <2>1. \/ issued' = issued
        \/ issued < 1 + MaxRotations + edits /\ issued' = issued + 1
    OBVIOUS
  <2>2. issued' \in TokenIds /\ IssuedInBounds'
    <3> HIDE DEF Moves
    <3>1. issued \in TokenIds /\ edits \in Nat /\ edits <= MaxEdits
      BY Bounds DEF TypeOK
    <3> QED
      BY <1>1, <2>1, <3>1, Bounds DEF IssuedInBounds
  <2>3. \/ reply' = reply
        \/ reply' = [reply EXCEPT ![r] = NoReply]
        \/ \E a \in Accounts, ok \in BOOLEAN, t \in {0, issued'} :
             reply' = [reply EXCEPT ![r] = [account |-> a, ok |-> ok, token |-> t]]
    BY DEF NextAccount
  <2>4. NoReply \in [account : Accounts \cup {NoRun}, ok : BOOLEAN, token : TokenIds]
    BY Bounds DEF NoReply
  <2>5. \A a \in Accounts, ok \in BOOLEAN, t \in {0, issued'} :
           [account |-> a, ok |-> ok, token |-> t]
             \in [account : Accounts \cup {NoRun}, ok : BOOLEAN, token : TokenIds]
    BY <2>2, Bounds
  <2>6. reply \in [Runs -> [account : Accounts \cup {NoRun}, ok : BOOLEAN, token : TokenIds]]
    BY DEF TypeOK
  <2> QED
    BY <2>2, <2>3, <2>4, <2>5, <2>6
<1>7. counts' \in [Runs -> [ok : Nat, bad : Nat]]
  <2>1. reply[r].ok \in BOOLEAN /\ counts \in [Runs -> [ok : Nat, bad : Nat]]
    BY DEF TypeOK
  <2>2. counts' = counts \/ \E ok \in BOOLEAN : Count(r, ok)
    BY <2>1
  <2> QED
    BY <2>1, <2>2, CountType
<1>8. row' \in [Runs -> [status : RowStatuses, total : Nat, ok : Nat, bad : Nat]]
  <2>1. /\ row[r].total \in Nat /\ counts[r].ok \in Nat /\ counts[r].bad \in Nat
        /\ Cardinality(Accounts) \in Nat
        /\ Cardinality({a \in Accounts : lastLog[a] = "failed"}) \in Nat
    BY Bounds DEF TypeOK
  <2>2. \/ row' = row
        \/ \E status \in RowStatuses, total \in Nat, ok \in Nat, bad \in Nat :
             SetRow(r, status, total, ok, bad)
    BY <2>1 DEF Complete, RowStatuses
  <2> QED
    BY <2>2, SetRowType DEF TypeOK
<1>9. stored' \in [Accounts -> TokenIds \ {0}]
  <2>1. stored' = stored \/ (pc[r] \in {"reply", "logged"} /\ StoreToken(reply[r]))
    OBVIOUS
  <2>2. pc[r] \in {"reply", "logged"} => reply[r].account \in Accounts
    BY DEF RunInOrder, TypeOK
  <2>3. reply[r].token \in TokenIds
    BY DEF TypeOK
  <2> QED
    BY <2>1, <2>2, <2>3 DEF StoreToken, TypeOK
<1>10. lastLog' \in [Accounts -> {"none", "success", "failed"}]
  BY DEF LogLine, TypeOK
<1>11. recent' \subseteq Runs
  BY DEF Remember, Complete, TypeOK
<1>12. issued' \in TokenIds /\ edits' \in 0 .. MaxEdits /\ overruns' \in 0 .. MaxOverruns
       /\ kind' \in [Runs -> AllKinds] /\ forced' \in [Runs -> BOOLEAN]
  BY <1>1, <1>3, <1>6 DEF TypeOK
<1>13. touched' \subseteq Accounts
  <2>1. touched' = touched \/ \E a : touched' = touched \ {a}
    OBVIOUS
  <2> QED
    BY <2>1 DEF TypeOK
<1>14. other' \in [Others -> [step : {"none", "answer", "logged", "edit"},
                             account : Accounts \cup {NoRun}, ok : BOOLEAN, token : TokenIds]]
  BY <1>1 DEF TypeOK
<1> QED
  BY <1>2, <1>3, <1>4, <1>5, <1>6, <1>7, <1>8, <1>9, <1>10, <1>11, <1>12, <1>13, <1>14 DEF TypeOK

-----------------------------------------------------------------------------
(* The lock.                                                               *)

\* A step of one run changes nothing of another.
LEMMA OtherRuns ==
    ASSUME TypeOK, NEW r \in Runs, Moves(r), NEW q \in Runs, q # r
    PROVE  /\ pc'[q] = pc[q] /\ kind'[q] = kind[q]
           /\ todo'[q] = todo[q] /\ reply'[q] = reply[q]
           /\ counts'[q] = counts[q] /\ row'[q] = row[q]
<1> USE DEF Moves, Step, runVars, lockVars, dbVars, tokenVars,
            Raise, Disconnect, StartAll, StartTrigger, StartScheduled, StartRetry, Gate, Skip,
            LoadScheduled, Acquire, Conflict, Release, DecryptFails, CallUpstream, Save, LogRetry,
            SaveRetry, Finish, LeaveRetry, FinishRetry
<1>1. pc'[q] = pc[q] /\ kind'[q] = kind[q]
  BY DEF NextAccount, Goto, TypeOK
<1>2. todo'[q] = todo[q] /\ reply'[q] = reply[q]
  BY DEF NextAccount, Load, TypeOK
<1>3. counts'[q] = counts[q]
  BY DEF Count, TypeOK
<1>4. row'[q] = row[q]
  BY DEF Complete, SetRow, TypeOK
<1> QED
  BY <1>1, <1>2, <1>3, <1>4

\* A step of one run keeps the lock with whoever works.
LEMMA LockRun ==
    ASSUME TypeOK, WorkersHoldLock, NEW r \in Runs, Moves(r)
    PROVE  WorkersHoldLock'
<1> USE DEF runVars, lockVars, dbVars, tokenVars, Working, Critical, WorkersHoldLock
<1>1. \A q \in Runs \ {r} : pc'[q] = pc[q]
  BY OtherRuns
<1>2. pc[r] \in Phases /\ pc \in [Runs -> Phases] /\ expired \in BOOLEAN
  BY DEF TypeOK
<1>3. CASE StartAll(r) \/ LoadScheduled(r)
  <2>1. pc'[r] = "lock" /\ overruns' = overruns /\ (PurgeLock \/ UNCHANGED lockVars)
    BY <1>2, <1>3 DEF StartAll, LoadScheduled, Goto, PurgeLock
  <2> QED
    BY <1>1, <2>1 DEF PurgeLock
<1>4. CASE Acquire(r)
  BY <1>1, <1>4, Bounds DEF Acquire, LockFree
<1>5. CASE Release(r)
  <2>1. pc[r] = "release" /\ pc'[r] \in {"finish", "done"}
    BY <1>2, <1>5 DEF Release, Goto
  <2> QED
    BY <1>1, <1>5, <2>1 DEF Release, DropLock
<1>6. CASE ~(StartAll(r) \/ LoadScheduled(r) \/ Acquire(r) \/ Release(r))
  <2>1. UNCHANGED lockVars
    BY <1>6 DEF Moves, Step, Raise, Disconnect, StartTrigger, StartScheduled, StartRetry, Gate, Skip,
         Conflict, DecryptFails, CallUpstream, Save, LogRetry, SaveRetry, Finish, LeaveRetry, FinishRetry
  <2>2. Working(r)' => Working(r)
    BY <1>2, <1>6 DEF Moves, Step, Raise, Disconnect, StartTrigger, StartScheduled, StartRetry, Gate, Skip,
         Conflict, DecryptFails, CallUpstream, Save, LogRetry, SaveRetry, Finish, LeaveRetry, FinishRetry,
         Goto, NextAccount
  <2> QED
    BY <1>1, <2>1, <2>2
<1> QED
  BY <1>3, <1>4, <1>5, <1>6

-----------------------------------------------------------------------------
(* The run by itself.                                                      *)

\* What there is to know about a run before it moves.
LEMMA RunTypes ==
    ASSUME TypeOK, NEW r \in Runs
    PROVE  /\ pc[r] \in Phases /\ kind[r] \in AllKinds
           /\ counts[r].ok \in Nat /\ counts[r].bad \in Nat
           /\ todo[r] \in SUBSET Accounts
           /\ IsFiniteSet(todo[r]) /\ Cardinality(todo[r]) \in Nat
           /\ reply[r].ok \in BOOLEAN
           /\ \A a : Cardinality(todo[r] \ {a}) =
                       IF a \in todo[r] THEN Cardinality(todo[r]) - 1 ELSE Cardinality(todo[r])
<1>1. todo[r] \in SUBSET Accounts
  BY DEF TypeOK
<1>2. IsFiniteSet(todo[r]) /\ Cardinality(todo[r]) \in Nat
  BY <1>1, Bounds
<1>3. \A a : Cardinality(todo[r] \ {a}) =
               IF a \in todo[r] THEN Cardinality(todo[r]) - 1 ELSE Cardinality(todo[r])
  BY <1>2, FS_RemoveElement
<1>4. counts[r].ok \in Nat /\ counts[r].bad \in Nat /\ reply[r].ok \in BOOLEAN
  BY DEF TypeOK
<1>5. pc[r] \in Phases /\ kind[r] \in AllKinds
  BY DEF TypeOK
<1> QED
  BY <1>1, <1>2, <1>3, <1>4, <1>5

\* What a written row says.
LEMMA SetRowValue ==
    ASSUME TypeOK, NEW r \in Runs, NEW status, NEW total, NEW ok, NEW bad,
           SetRow(r, status, total, ok, bad)
    PROVE  /\ row'[r].status = status /\ row'[r].total = total
           /\ row'[r].ok = ok /\ row'[r].bad = bad
BY DEF SetRow, TypeOK

\* A step of a run keeps it in order.
LEMMA RunStep ==
    ASSUME TypeOK, NEW r \in Runs, RunInOrder(r), Moves(r)
    PROVE  RunInOrder(r)'
<1> USE DEF RunInOrder, Underway, Through, Tallied
<1> DEFINE n == Cardinality(todo[r])
<1>1. /\ pc[r] \in Phases /\ kind[r] \in AllKinds
      /\ counts[r].ok \in Nat /\ counts[r].bad \in Nat /\ n \in Nat
      /\ reply[r].ok \in BOOLEAN
      /\ \A a : Cardinality(todo[r] \ {a}) = IF a \in todo[r] THEN n - 1 ELSE n
  BY RunTypes
<1>2. /\ Cardinality(Accounts) \in Nat
      /\ \A s \in SUBSET Accounts : Cardinality(s) \in Nat
  BY Bounds
<1>3. ASSUME NEW phase, Goto(r, phase)
      PROVE  pc'[r] = phase
  BY <1>3 DEF Goto, TypeOK
<1>4. ASSUME NEW accounts, Load(r, accounts)
      PROVE  todo'[r] = accounts
  BY <1>4 DEF Load, TypeOK
<1>5. ASSUME NEW a \in Accounts, NEW ok \in BOOLEAN, Count(r, ok), todo' = [todo EXCEPT ![r] = @ \ {a}]
      PROVE  /\ counts'[r].ok \in Nat /\ counts'[r].bad \in Nat
             /\ counts'[r].ok + counts'[r].bad = counts[r].ok + counts[r].bad + 1
             /\ todo'[r] = todo[r] \ {a}
  <2>1. counts \in [Runs -> [ok : Nat, bad : Nat]] /\ todo \in [Runs -> SUBSET Accounts]
    BY DEF TypeOK
  <2> QED
    BY <1>5, <2>1, CountType
<1>6. CASE StartAll(r) \/ LoadScheduled(r)
  <2>1. /\ pc[r] \in {"idle", "load"} /\ pc'[r] = "lock"
        /\ todo'[r] = Accounts /\ counts' = counts
        /\ row'[r].status = "running" /\ row'[r].total = Cardinality(Accounts)
    BY <1>3, <1>4, <1>6, SetRowValue DEF StartAll, LoadScheduled
  <2> QED
    BY <1>1, <1>2, <2>1 DEF Ended
<1>7. CASE StartTrigger(r)
  <2>1. /\ pc[r] = "idle" /\ pc'[r] = "gate" /\ counts' = counts
        /\ todo'[r] = Accounts
        /\ row'[r].status = "running" /\ row'[r].total = Cardinality(Accounts)
    BY <1>3, <1>4, <1>7, SetRowValue DEF StartTrigger
  <2> QED
    BY <1>1, <1>2, <2>1 DEF Ended
<1>24. CASE StartScheduled(r)
  <2>1. /\ pc[r] = "idle" /\ pc'[r] = "gate" /\ counts' = counts
        /\ kind'[r] = "scheduled" /\ row'[r].status = "running"
    BY <1>3, <1>24, SetRowValue DEF StartScheduled, runVars
  <2> QED
    BY <1>1, <2>1 DEF Ended
<1>8. CASE StartRetry(r)
  <2> DEFINE failed == {a \in Accounts : lastLog[a] = "failed"}
  <2>1. /\ pc[r] = "idle" /\ pc'[r] = "lock"
        /\ todo'[r] = failed /\ counts' = counts
        /\ row'[r].status = "running" /\ row'[r].total = Cardinality(failed)
    BY <1>3, <1>4, <1>8, SetRowValue DEF StartRetry
  <2>2. Cardinality(failed) \in Nat
    BY <1>2
  <2> HIDE DEF failed
  <2> QED
    BY <1>1, <2>1, <2>2 DEF Ended
<1>9. ASSUME NEW total, Skip(r, total)
      PROVE  RunInOrder(r)'
  <2>1. row'[r].status = "skipped" /\ pc'[r] = "done"
    BY <1>3, <1>9, SetRowValue DEF Skip
  <2> QED
    BY <2>1
<1>10. CASE Gate(r)
  <2>1. CASE UNCHANGED <<runVars, row>> /\ pc'[r] = IF kind[r] = "scheduled" THEN "load" ELSE "lock"
    BY <1>10, <2>1 DEF Gate, runVars, Ended
  <2> QED
    BY <1>3, <1>9, <1>10, <2>1 DEF Gate
<1>11. CASE Conflict(r)
  BY <1>9, <1>11 DEF Conflict
<1>12. CASE Acquire(r)
  <2>1. pc[r] = "lock" /\ pc'[r] = "loop" /\ UNCHANGED <<runVars, row>>
    BY <1>3, <1>12 DEF Acquire
  <2> QED
    BY <2>1 DEF runVars
<1>13. CASE Release(r)
  <2>1. /\ pc[r] = "release" /\ UNCHANGED <<runVars, row>>
        /\ pc'[r] = IF kind[r] = "retry_failed" THEN "finish" ELSE "done"
    BY <1>3, <1>13 DEF Release
  <2> QED
    BY <2>1 DEF runVars
<1>14. CASE \E a \in Accounts : DecryptFails(r, a)
  <2>1. PICK a \in Accounts : DecryptFails(r, a)
    BY <1>14
  <2>2. /\ counts'[r].ok \in Nat /\ counts'[r].bad \in Nat
        /\ counts'[r].ok + counts'[r].bad = counts[r].ok + counts[r].bad + 1
        /\ todo'[r] = todo[r] \ {a}
    BY <1>5, <2>1 DEF DecryptFails
  <2>3. pc[r] = "loop" /\ pc'[r] = "loop" /\ a \in todo[r] /\ UNCHANGED <<kind, row>>
    BY <2>1 DEF DecryptFails
  <2>4. Cardinality(todo'[r]) = n - 1
    BY <1>1, <2>2, <2>3
  <2>5. Tallied(r) /\ row[r].total \in Nat
    BY <1>1, <2>3
  <2>6. Tallied(r)'
    BY <1>1, <2>2, <2>3, <2>4, <2>5
  <2> QED
    BY <2>3, <2>6
<1>15. CASE \E a \in Accounts : CallUpstream(r, a)
  <2>1. PICK a \in Accounts : CallUpstream(r, a)
    BY <1>15
  <2>2. /\ pc[r] = "loop" /\ pc'[r] = "reply" /\ a \in todo[r]
        /\ UNCHANGED <<kind, todo, counts, row>>
    BY <1>3, <2>1 DEF CallUpstream
  <2>3. reply'[r].account = a
    BY <2>1 DEF CallUpstream, TypeOK
  <2> QED
    BY <2>2, <2>3
<1>16. CASE LogRetry(r)
  <2>1. pc[r] = "reply" /\ pc'[r] = "logged" /\ UNCHANGED <<runVars, row>>
    BY <1>3, <1>16 DEF LogRetry
  <2> QED
    BY <2>1 DEF runVars
<1>17. CASE Save(r) \/ SaveRetry(r)
  <2>1. /\ pc[r] \in {"reply", "logged"} /\ Count(r, reply[r].ok) /\ NextAccount(r)
        /\ UNCHANGED <<kind, row>>
    BY <1>17 DEF Save, SaveRetry
  <2>2. pc'[r] = "loop" /\ reply[r].account \in todo[r] /\ reply[r].account \in Accounts
    BY <1>3, <2>1, RunTypes DEF NextAccount
  <2>3. /\ counts'[r].ok \in Nat /\ counts'[r].bad \in Nat
        /\ counts'[r].ok + counts'[r].bad = counts[r].ok + counts[r].bad + 1
        /\ todo'[r] = todo[r] \ {reply[r].account}
    BY <1>1, <1>5, <2>1, <2>2 DEF NextAccount
  <2>4. Cardinality(todo'[r]) = n - 1
    BY <1>1, <2>2, <2>3
  <2> QED
    BY <1>1, <2>1, <2>2, <2>3, <2>4
<1>18. ASSUME Complete(r), counts' = counts, pc[r] \in {"loop", "finish"}, todo[r] = {},
              Tallied(r), pc'[r] \in {"release", "done"}, ~Through(r)'
       PROVE  RunInOrder(r)'
  <2>1. n = 0
    BY <1>18, FS_EmptySet
  <2>2. /\ row'[r].status = "completed" /\ row'[r].total = row[r].total
        /\ row'[r].ok = counts[r].ok /\ row'[r].bad = counts[r].bad
    BY <1>18, SetRowValue DEF Complete
  <2> QED
    BY <1>1, <1>18, <2>1, <2>2
<1>19. CASE Finish(r)
  <2>1. pc'[r] = "release" /\ kind'[r] # "retry_failed"
    BY <1>3, <1>19 DEF Finish, runVars
  <2> QED
    BY <1>18, <1>19, <2>1 DEF Finish, runVars
<1>20. CASE LeaveRetry(r)
  <2>1. pc[r] = "loop" /\ todo[r] = {} /\ pc'[r] = "release" /\ UNCHANGED <<runVars, row>>
    BY <1>3, <1>20 DEF LeaveRetry
  <2> QED
    BY <2>1 DEF runVars
<1>21. CASE FinishRetry(r)
  <2>1. pc[r] = "finish" /\ pc'[r] = "done" /\ UNCHANGED runVars
    BY <1>3, <1>21 DEF FinishRetry
  <2> QED
    BY <1>18, <1>21, <2>1 DEF FinishRetry, runVars
<1>22. CASE Raise(r)
  <2>1. /\ pc[r] \in {"gate", "load", "lock", "loop"} /\ kind[r] # "retry_failed"
        /\ pc'[r] \in {"release", "done"} /\ UNCHANGED runVars
    BY <1>3, <1>22 DEF Raise
  <2>2. row'[r].status = "failed" \/ row' = row
    BY <1>22, SetRowValue DEF Raise
  <2> QED
    BY <2>1, <2>2 DEF runVars
<1>23. CASE Disconnect(r)
  <2>1. pc[r] = "loop" /\ kind[r] \in Streams /\ pc'[r] = "release" /\ UNCHANGED <<runVars, row>>
    BY <1>3, <1>23 DEF Disconnect
  <2> QED
    BY <2>1 DEF runVars, Streams
<1> QED
  BY <1>6, <1>7, <1>24, <1>8, <1>10, <1>11, <1>12, <1>13, <1>14, <1>15, <1>16, <1>17, <1>19, <1>20,
     <1>21, <1>22, <1>23 DEF Moves, Step

-----------------------------------------------------------------------------
(* The order in which tokens are stored.                                   *)

\* A step of a run stores what it was given, and only while it works.
LEMMA StoreStep ==
    ASSUME NEW r \in Runs, Moves(r)
    PROVE  \/ stored' = stored
           \/ pc[r] \in {"reply", "logged"} /\ StoreToken(reply[r]) /\ overruns' = overruns
BY DEF Moves, Step, Raise, Disconnect, StartAll, StartTrigger, StartScheduled, StartRetry, Gate, Skip,
       LoadScheduled, Acquire, Conflict, Release, DecryptFails, CallUpstream, Save, LogRetry, SaveRetry,
       Finish, LeaveRetry, FinishRetry, PurgeLock, DropLock, runVars, lockVars, dbVars, tokenVars

\* An answer is kept as it came, forgotten, or new: then its token, if it
\* brings one, is the latest that exists.
LEMMA ReplyStep ==
    ASSUME TypeOK, NEW r \in Runs, Moves(r)
    PROVE  /\ edits' = edits /\ overruns' = overruns /\ other' = other
           /\ touched' = touched \/ pc[r] = "loop"
           /\ \/ issued' = issued /\ reply'[r] = reply[r]
                 /\ (pc'[r] \in {"reply", "logged"} =>
                       pc[r] \in {"reply", "logged"} /\ stored' = stored /\ touched' = touched)
              \/ issued' = issued /\ reply'[r].token = 0
              \/ pc'[r] = "reply" /\ issued' = issued + 1 /\ reply'[r].token = issued'
                 /\ stored' = stored
<1> USE DEF runVars, lockVars, dbVars, tokenVars, PurgeLock, DropLock
<1>1. pc \in [Runs -> Phases]
  BY DEF TypeOK
<1>2. CASE \E a \in Accounts : CallUpstream(r, a)
  BY <1>1, <1>2 DEF CallUpstream, Goto, TypeOK
<1>3. CASE Save(r) \/ SaveRetry(r)
  BY <1>1, <1>3 DEF Save, SaveRetry, NextAccount, NoReply, TypeOK
<1>4. CASE ~(Save(r) \/ SaveRetry(r) \/ \E a \in Accounts : CallUpstream(r, a))
  BY <1>1, <1>4
     DEF Moves, Step, Raise, Disconnect, StartAll, StartTrigger, StartScheduled, StartRetry, Gate, Skip,
         LoadScheduled, Acquire, Conflict, Release, DecryptFails, LogRetry, Finish, LeaveRetry, FinishRetry,
         Goto
<1> QED
  BY <1>2, <1>3, <1>4

\* Everything about tokens is a number.
LEMMA TokenNumbers ==
    ASSUME TypeOK
    PROVE  /\ issued \in Nat
           /\ \A a \in Accounts : stored[a] \in Nat
           /\ \A r \in Runs : reply[r].token \in Nat
           /\ \A t \in Others : other[t].token \in Nat
<1>1. stored \in [Accounts -> TokenIds \ {0}] /\ issued \in TokenIds
  BY DEF TypeOK
<1>2. /\ \A r \in Runs : reply[r].token \in TokenIds
      /\ \A t \in Others : other[t].token \in TokenIds
  BY DEF TypeOK
<1> QED
  BY <1>1, <1>2, Bounds

\* What a run stores is not older than what is there, and was issued.
LEMMA Stores ==
    ASSUME TypeOK, StoredWasIssued, ReplyIsNewer, NEW r \in Runs, Moves(r), NEW a \in Accounts
    PROVE  /\ stored'[a] \in Nat /\ stored'[a] <= issued
           /\ overruns = 0 /\ a \notin touched => stored'[a] >= stored[a]
<1>1. stored[a] \in Nat /\ reply[r].token \in Nat /\ issued \in Nat
  BY TokenNumbers
<1>2. stored \in [Accounts -> TokenIds \ {0}]
  BY DEF TypeOK
<1>3. \/ stored'[a] = stored[a]
      \/ /\ pc[r] \in {"reply", "logged"} /\ reply[r].token # 0
         /\ a = reply[r].account /\ stored'[a] = reply[r].token
  BY <1>2, StoreStep DEF StoreToken
<1> QED
  BY <1>1, <1>3 DEF StoredWasIssued, ReplyIsNewer

\* While no run has outlasted the TTL, only one of them has an answer in hand.
LEMMA OneAnswer ==
    ASSUME WorkersHoldLock, overruns = 0, NEW q \in Runs, NEW r \in Runs, Working(q), Working(r)
    PROVE  q = r
BY DEF WorkersHoldLock

\* A step of a run keeps the tokens in order.
LEMMA TokenRun ==
    ASSUME TypeOK, WorkersHoldLock, StoredWasIssued, ReplyIsNewer, NEW r \in Runs, Moves(r), TypeOK'
    PROVE  StoredWasIssued' /\ ReplyIsNewer'
<1>1. issued \in Nat /\ issued' \in Nat /\ issued <= issued'
  BY ReplyStep, TokenNumbers
<1>2. \A q \in Runs \ {r} : pc'[q] = pc[q] /\ reply'[q] = reply[q]
  BY OtherRuns
<1>3. \A q \in Runs : reply[q].token \in Nat /\ reply[q].token <= issued
  BY TokenNumbers DEF StoredWasIssued
<1>4. \A a \in Accounts : stored'[a] \in Nat /\ stored'[a] <= issued
  BY Stores
<1>5. StoredWasIssued'
  <2>1. ASSUME NEW q \in Runs PROVE reply'[q].token <= issued'
    <3>1. CASE q # r
      BY <1>1, <1>2, <1>3, <3>1
    <3>2. CASE q = r
      BY <1>1, <1>3, <3>2, ReplyStep
    <3> QED
      BY <3>1, <3>2
  <2>2. \A a \in Accounts : stored'[a] <= issued'
    BY <1>1, <1>4
  <2>3. \A t \in Others : other'[t].token <= issued'
    BY <1>1, ReplyStep, TokenNumbers DEF StoredWasIssued
  <2> QED
    BY <2>1, <2>2, <2>3 DEF StoredWasIssued
<1>6. ASSUME overruns' = 0, NEW q \in Runs, pc'[q] \in {"reply", "logged"},
             reply'[q].token # 0, NEW a \in Accounts, a \notin touched', a = reply'[q].account
      PROVE  reply'[q].token >= stored'[a]
  <2>1. overruns = 0
    BY <1>6, ReplyStep
  <2>2. CASE q # r
    <3>1. pc[q] \in {"reply", "logged"} /\ reply'[q] = reply[q]
      BY <1>2, <1>6, <2>2
    <3>2. stored' = stored /\ touched' = touched
      BY <2>1, <2>2, <3>1, StoreStep, ReplyStep, OneAnswer DEF Working, Critical
    <3> QED
      BY <1>6, <2>1, <3>1, <3>2 DEF ReplyIsNewer
  <2>3. CASE q = r
    <3>1. CASE pc'[r] = "reply" /\ issued' = issued + 1 /\ reply'[r].token = issued' /\ stored' = stored
      BY <1>1, <1>4, <2>3, <3>1
    <3>2. CASE reply'[r] = reply[r] /\ pc[r] \in {"reply", "logged"} /\ stored' = stored /\ touched' = touched
      BY <1>6, <2>1, <2>3, <3>2 DEF ReplyIsNewer
    <3> QED
      BY <1>6, <2>3, <3>1, <3>2, ReplyStep
  <2> QED
    BY <2>2, <2>3
<1> QED
  BY <1>5, <1>6 DEF ReplyIsNewer

-----------------------------------------------------------------------------
(* What happens around the runs.                                           *)

\* What a request has in hand, with the types of its fields.
LEMMA HoldType ==
    ASSUME TypeOK, NEW t \in Others, NEW step \in {"none", "answer", "logged", "edit"},
           NEW a \in Accounts \cup {NoRun}, NEW ok \in BOOLEAN, NEW token \in Nat,
           NEW last \in Nat, token <= last, last <= 1 + MaxRotations + MaxEdits,
           Hold(t, step, a, ok, token), StoredWasIssued, issued <= last,
           step # "none" => a \in Accounts, step = "edit" => token # 0,
           \A u \in Others : ErrandInOrder(u)
    PROVE  /\ other' \in [Others -> [step : {"none", "answer", "logged", "edit"},
                                    account : Accounts \cup {NoRun}, ok : BOOLEAN, token : TokenIds]]
           /\ \A u \in Others : ErrandInOrder(u)' /\ other'[u].token <= last
<1> DEFINE x == [step |-> step, account |-> a, ok |-> ok, token |-> token]
<1>1. other' = [other EXCEPT ![t] = x]
  BY DEF Hold
<1>2. token \in TokenIds
  BY Bounds
<1>3. x \in [step : {"none", "answer", "logged", "edit"},
             account : Accounts \cup {NoRun}, ok : BOOLEAN, token : TokenIds]
  BY <1>2
<1>4. /\ x.step = step /\ x.account = a /\ x.token = token
  OBVIOUS
<1>5. \A u \in Others : other'[u] = IF u = t THEN x ELSE other[u]
  BY <1>1 DEF TypeOK
<1>6. \A u \in Others : other[u].token <= last
  <2>1. \A u \in Others : other[u].token \in Nat /\ other[u].token <= issued /\ issued \in Nat
    BY TokenNumbers DEF StoredWasIssued
  <2> QED
    BY <2>1
<1> HIDE DEF x
<1>7. other' \in [Others -> [step : {"none", "answer", "logged", "edit"},
                            account : Accounts \cup {NoRun}, ok : BOOLEAN, token : TokenIds]]
  BY <1>1, <1>3 DEF TypeOK
<1>8. ASSUME NEW u \in Others PROVE ErrandInOrder(u)' /\ other'[u].token <= last
  BY <1>4, <1>5, <1>6 DEF ErrandInOrder
<1> QED
  BY <1>7, <1>8

\* A request that puts down what it had.
LEMMA PutDownType ==
    ASSUME TypeOK, NEW t \in Others, PutDown(t), StoredWasIssued, \A u \in Others : ErrandInOrder(u),
           NEW last \in Nat, issued <= last, last <= 1 + MaxRotations + MaxEdits
    PROVE  /\ other' \in [Others -> [step : {"none", "answer", "logged", "edit"},
                                    account : Accounts \cup {NoRun}, ok : BOOLEAN, token : TokenIds]]
           /\ \A u \in Others : ErrandInOrder(u)' /\ other'[u].token <= last
<1>1. Hold(t, "none", NoRun, FALSE, 0)
  BY DEF PutDown, NoErrand, Hold
<1>2. 0 <= last
  OBVIOUS
<1> QED
  BY <1>1, <1>2, HoldType

\* What a request outside the runs does to the tokens: it leaves them alone, or
\* writes one that exists and says so.
LEMMA OutsideStep ==
    ASSUME IInv, NEW t \in Others, Outside(t)
    PROVE  /\ UNCHANGED <<pc, runVars, row, lockVars, recent>>
           /\ issued' \in Nat /\ edits' \in 0 .. MaxEdits
           /\ issued <= issued' /\ issued' <= 1 + MaxRotations + edits'
           /\ \/ UNCHANGED <<stored, touched>>
              \/ \E a \in Accounts, token \in Nat \ {0} : token <= issued' /\ WriteAlone(a, token)
           /\ lastLog' \in [Accounts -> {"none", "success", "failed"}]
           /\ other' \in [Others -> [step : {"none", "answer", "logged", "edit"},
                                    account : Accounts \cup {NoRun}, ok : BOOLEAN, token : TokenIds]]
           /\ \A u \in Others : ErrandInOrder(u)' /\ other'[u].token <= issued'
<1> DEFINE x == other[t]
<1>1. /\ TypeOK /\ StoredWasIssued /\ IssuedInBounds /\ \A u \in Others : ErrandInOrder(u)
      /\ issued \in Nat /\ edits \in Nat /\ edits <= MaxEdits /\ issued <= 1 + MaxRotations + edits
      /\ x.token \in Nat /\ x.token <= issued /\ x.ok \in BOOLEAN
      /\ lastLog \in [Accounts -> {"none", "success", "failed"}]
  <2>1. TypeOK /\ StoredWasIssued /\ IssuedInBounds /\ \A u \in Others : ErrandInOrder(u)
    BY DEF IInv
  <2>2. edits \in 0 .. MaxEdits /\ x.ok \in BOOLEAN
    BY <2>1 DEF TypeOK
  <2> QED
    BY <2>1, <2>2, TokenNumbers, Bounds DEF StoredWasIssued, IssuedInBounds, TypeOK
<1>2. issued <= 1 + MaxRotations + MaxEdits
  BY <1>1, Bounds
<1>3. CASE \E a \in Accounts : AskAlone(t, a)
  <2>1. PICK a \in Accounts : AskAlone(t, a)
    BY <1>3
  <2>2. UNCHANGED <<pc, runVars, row, lockVars, dbVars, edits, touched, recent>>
    BY <2>1 DEF AskAlone
  <2>3. CASE \E ok \in BOOLEAN : Hold(t, "answer", a, ok, 0) /\ UNCHANGED issued
    <3>1. PICK ok \in BOOLEAN : Hold(t, "answer", a, ok, 0)
      BY <2>3
    <3>2. /\ other' \in [Others -> [step : {"none", "answer", "logged", "edit"},
                                    account : Accounts \cup {NoRun}, ok : BOOLEAN, token : TokenIds]]
          /\ \A u \in Others : ErrandInOrder(u)' /\ other'[u].token <= issued
      BY <1>1, <1>2, <3>1, HoldType
    <3> QED
      BY <1>1, <2>2, <2>3, <3>2, Bounds DEF dbVars
  <2>4. CASE /\ issued < 1 + MaxRotations + edits /\ issued' = issued + 1
             /\ Hold(t, "answer", a, TRUE, issued + 1)
    <3>1. /\ issued + 1 \in Nat /\ issued + 1 <= issued + 1 /\ issued <= issued + 1
          /\ issued + 1 <= 1 + MaxRotations + edits /\ issued + 1 <= 1 + MaxRotations + MaxEdits
      BY <1>1, <2>4, Bounds
    <3> HIDE DEF x
    <3>2. /\ other' \in [Others -> [step : {"none", "answer", "logged", "edit"},
                                    account : Accounts \cup {NoRun}, ok : BOOLEAN, token : TokenIds]]
          /\ \A u \in Others : ErrandInOrder(u)' /\ other'[u].token <= issued + 1
      BY <1>1, <2>4, <3>1, HoldType
    <3> QED
      BY <1>1, <2>2, <2>4, <3>1, <3>2, Bounds DEF dbVars
  <2> QED
    BY <2>1, <2>3, <2>4 DEF AskAlone
<1>4. CASE LogAlone(t)
  <2>1. /\ UNCHANGED <<pc, runVars, row, lockVars, stored, issued, edits, touched, recent>>
        /\ x.step = "answer" /\ LogLine(x.account, x.ok)
        /\ Hold(t, "logged", x.account, x.ok, x.token)
    BY <1>4 DEF LogAlone
  <2>2. x.account \in Accounts
    BY <1>1, <2>1 DEF ErrandInOrder
  <2>3. lastLog' \in [Accounts -> {"none", "success", "failed"}]
    BY <1>1, <2>1, <2>2 DEF LogLine
  <2>4. /\ other' \in [Others -> [step : {"none", "answer", "logged", "edit"},
                                  account : Accounts \cup {NoRun}, ok : BOOLEAN, token : TokenIds]]
        /\ \A u \in Others : ErrandInOrder(u)' /\ other'[u].token <= issued
    <3> HIDE DEF x
    <3> QED
      BY <1>1, <1>2, <2>1, <2>2, HoldType
  <2> QED
    BY <1>1, <2>1, <2>3, <2>4, Bounds
<1>5. CASE StoreAlone(t)
  <2>1. /\ UNCHANGED <<pc, runVars, row, lockVars, lastLog, issued, edits, recent>>
        /\ x.step # "none" /\ PutDown(t)
        /\ (x.token # 0 /\ WriteAlone(x.account, x.token)) \/ UNCHANGED <<stored, touched>>
    BY <1>5 DEF StoreAlone
  <2>2. x.account \in Accounts
    BY <1>1, <2>1 DEF ErrandInOrder
  <2>3. /\ other' \in [Others -> [step : {"none", "answer", "logged", "edit"},
                                  account : Accounts \cup {NoRun}, ok : BOOLEAN, token : TokenIds]]
        /\ \A u \in Others : ErrandInOrder(u)' /\ other'[u].token <= issued
    BY <1>1, <1>2, <2>1, PutDownType
  <2> HIDE DEF x
  <2>4. \/ UNCHANGED <<stored, touched>>
        \/ \E a \in Accounts, token \in Nat \ {0} : token <= issued' /\ WriteAlone(a, token)
    BY <1>1, <2>1, <2>2
  <2> QED
    BY <1>1, <2>1, <2>3, <2>4, Bounds
<1>6. CASE \E a \in Accounts : ReadForEdit(t, a)
  <2>1. PICK a \in Accounts : ReadForEdit(t, a)
    BY <1>6
  <2>2. /\ UNCHANGED <<pc, runVars, row, lockVars, dbVars, issued, edits, touched, recent>>
        /\ Hold(t, "edit", a, TRUE, stored[a])
    BY <2>1 DEF ReadForEdit
  <2>3. stored[a] \in Nat /\ stored[a] # 0 /\ stored[a] <= issued
    <3>1. stored[a] \in TokenIds \ {0}
      BY <1>1 DEF TypeOK
    <3> QED
      BY <1>1, <3>1, TokenNumbers DEF StoredWasIssued
  <2>4. /\ other' \in [Others -> [step : {"none", "answer", "logged", "edit"},
                                  account : Accounts \cup {NoRun}, ok : BOOLEAN, token : TokenIds]]
        /\ \A u \in Others : ErrandInOrder(u)' /\ other'[u].token <= issued
    <3> DEFINE token == stored[a]
    <3>1. token \in Nat /\ token # 0 /\ token <= issued /\ Hold(t, "edit", a, TRUE, token)
      BY <2>2, <2>3
    <3>2. /\ "edit" \in {"none", "answer", "logged", "edit"} /\ TRUE \in BOOLEAN
          /\ a \in Accounts \cup {NoRun}
      OBVIOUS
    <3>3. /\ TypeOK /\ StoredWasIssued /\ issued \in Nat /\ issued <= issued
          /\ \A u \in Others : ErrandInOrder(u)
      BY <1>1
    <3> HIDE DEF x, token
    <3> QED
      BY <1>2, <3>1, <3>2, <3>3, HoldType
  <2>5. edits' \in 0 .. MaxEdits /\ issued <= issued' /\ issued' <= 1 + MaxRotations + edits'
    BY <1>1, <2>2, Bounds
  <2>6. UNCHANGED <<stored, touched>> /\ issued' \in Nat
        /\ lastLog' \in [Accounts -> {"none", "success", "failed"}]
    BY <1>1, <2>2 DEF dbVars
  <2>7. UNCHANGED <<pc, runVars, row, lockVars, recent>> /\ issued' = issued
    BY <2>2
  <2>8. \A u \in Others : ErrandInOrder(u)' /\ other'[u].token <= issued'
    BY <2>4, <2>7
  <2> QED
    BY <2>4, <2>5, <2>6, <2>7, <2>8
<1>7. CASE WriteEdit(t)
  <2>1. /\ UNCHANGED <<pc, runVars, row, lockVars, lastLog, recent>>
        /\ x.step = "edit" /\ PutDown(t)
    BY <1>7 DEF WriteEdit
  <2>2. x.account \in Accounts /\ x.token # 0
    BY <1>1, <2>1 DEF ErrandInOrder
  <2>3. CASE /\ UNCHANGED <<issued, edits>>
             /\ WriteAlone(x.account, x.token) \/ UNCHANGED <<stored, touched>>
    <3>1. /\ other' \in [Others -> [step : {"none", "answer", "logged", "edit"},
                                    account : Accounts \cup {NoRun}, ok : BOOLEAN, token : TokenIds]]
          /\ \A u \in Others : ErrandInOrder(u)' /\ other'[u].token <= issued
      BY <1>1, <1>2, <2>1, PutDownType
    <3> HIDE DEF x
    <3>2. \/ UNCHANGED <<stored, touched>>
          \/ \E a \in Accounts, token \in Nat \ {0} : token <= issued' /\ WriteAlone(a, token)
      BY <1>1, <2>2, <2>3
    <3> QED
      BY <1>1, <2>1, <2>3, <3>1, <3>2, Bounds
  <2>4. CASE /\ edits < MaxEdits /\ edits' = edits + 1 /\ issued' = issued + 1
             /\ WriteAlone(x.account, issued + 1)
    <3>1. /\ issued + 1 \in Nat \ {0} /\ issued + 1 <= 1 + MaxRotations + MaxEdits /\ issued <= issued + 1
          /\ issued' <= 1 + MaxRotations + edits' /\ edits' \in 0 .. MaxEdits
      BY <1>1, <2>4, Bounds
    <3>2. /\ other' \in [Others -> [step : {"none", "answer", "logged", "edit"},
                                    account : Accounts \cup {NoRun}, ok : BOOLEAN, token : TokenIds]]
          /\ \A u \in Others : ErrandInOrder(u)' /\ other'[u].token <= issued + 1
      BY <1>1, <2>1, <3>1, PutDownType
    <3> HIDE DEF x
    <3>3. \E a \in Accounts, token \in Nat \ {0} : token <= issued' /\ WriteAlone(a, token)
      BY <2>2, <2>4, <3>1
    <3> QED
      BY <1>1, <2>1, <2>4, <3>1, <3>2, <3>3
  <2> QED
    BY <1>7, <2>3, <2>4 DEF WriteEdit
<1> QED
  BY <1>3, <1>4, <1>5, <1>6, <1>7 DEF Outside

\* A request outside the runs keeps the invariant.
LEMMA OutsideKeeps ==
    ASSUME IInv, NEW t \in Others, Outside(t)
    PROVE  IInv'
<1>1. /\ TypeOK /\ StoredWasIssued /\ UNCHANGED <<pc, runVars, row, lockVars, recent>>
      /\ issued \in Nat /\ issued' \in Nat /\ issued <= issued' /\ issued' <= 1 + MaxRotations + edits'
      /\ edits' \in 0 .. MaxEdits
      /\ \A u \in Others : ErrandInOrder(u)' /\ other'[u].token <= issued'
  BY OutsideStep, TokenNumbers DEF IInv
<1>2. issued' \in TokenIds /\ IssuedInBounds'
  BY <1>1, Bounds DEF IssuedInBounds
<1>3. /\ stored' \in [Accounts -> TokenIds \ {0}] /\ touched' \subseteq Accounts
      /\ \A a \in Accounts : stored'[a] <= issued'
      /\ \A a \in Accounts \ touched' : a \notin touched /\ stored'[a] = stored[a]
  <2>1. /\ stored \in [Accounts -> TokenIds \ {0}] /\ touched \subseteq Accounts
        /\ \A a \in Accounts : stored[a] \in Nat /\ stored[a] <= issued
    BY <1>1, TokenNumbers DEF TypeOK, StoredWasIssued
  <2>2. CASE UNCHANGED <<stored, touched>>
    BY <1>1, <2>1, <2>2
  <2>3. CASE \E a \in Accounts, token \in Nat \ {0} : token <= issued' /\ WriteAlone(a, token)
    <3>1. PICK a \in Accounts, token \in Nat \ {0} : token <= issued' /\ WriteAlone(a, token)
      BY <2>3
    <3>2. token \in TokenIds \ {0}
      BY <1>1, <3>1, Bounds
    <3>3. /\ stored' = [stored EXCEPT ![a] = token] /\ touched' = touched \cup {a}
      BY <3>1 DEF WriteAlone
    <3> QED
      BY <1>1, <2>1, <3>1, <3>2, <3>3
  <2> QED
    BY <2>2, <2>3, OutsideStep
<1>4. TypeOK'
  BY <1>1, <1>2, <1>3, OutsideStep DEF TypeOK, runVars, lockVars
<1>5. WorkersHoldLock' /\ \A r \in Runs : RunInOrder(r)'
  BY <1>1 DEF IInv, WorkersHoldLock, Working, RunInOrder, Underway, Through, Tallied, runVars, lockVars
<1>6. StoredWasIssued'
  <2>1. \A r \in Runs : reply'[r].token <= issued'
    BY <1>1, TokenNumbers DEF StoredWasIssued, runVars
  <2> QED
    BY <1>1, <1>3, <2>1 DEF StoredWasIssued
<1>7. ReplyIsNewer'
  BY <1>1, <1>3 DEF IInv, ReplyIsNewer, runVars, lockVars
<1> QED
  BY <1>1, <1>2, <1>4, <1>5, <1>6, <1>7 DEF IInv

\* The TTL ends: harmless once the owner is through, counted otherwise.
LEMMA ExpiryStep ==
    ASSUME IInv, LockExpires
    PROVE  IInv'
<1> USE DEF LockExpires, runVars, dbVars, tokenVars
<1>1. TypeOK /\ overruns \in Nat /\ (overruns' = overruns \/ overruns' = overruns + 1)
  BY Bounds DEF IInv, TypeOK
<1>2. TypeOK'
  <2>1. expired' \in BOOLEAN /\ overruns' \in 0 .. MaxOverruns
    BY <1>1, Bounds DEF TypeOK
  <2> QED
    BY <1>1, <2>1 DEF TypeOK
<1>3. WorkersHoldLock'
  BY <1>1 DEF IInv, WorkersHoldLock, Working, Critical
<1>4. /\ IssuedInBounds' /\ StoredWasIssued' /\ \A r \in Runs : RunInOrder(r)'
      /\ \A t \in Others : ErrandInOrder(t)'
  BY DEF IInv, IssuedInBounds, StoredWasIssued, RunInOrder, Underway, Through, Tallied, ErrandInOrder
<1>5. ReplyIsNewer'
  BY <1>1 DEF IInv, ReplyIsNewer
<1> QED
  BY <1>2, <1>3, <1>4, <1>5 DEF IInv

\* The process dies: its runs stay where they are for ever.
LEMMA CrashStep ==
    ASSUME IInv, Crash
    PROVE  IInv'
<1> USE DEF Crash, runVars, lockVars, dbVars, tokenVars
<1>1. TypeOK
  BY DEF IInv
<1>2. \A r \in Runs : pc'[r] = (IF pc[r] \in {"idle", "done"} THEN pc[r] ELSE "dead")
  OBVIOUS
<1>3. TypeOK'
  <2>1. pc' \in [Runs -> Phases]
    BY DEF Phases
  <2>2. other' \in [Others -> [step : {"none", "answer", "logged", "edit"},
                              account : Accounts \cup {NoRun}, ok : BOOLEAN, token : TokenIds]]
    BY Bounds DEF NoErrand
  <2> QED
    BY <1>1, <2>1, <2>2 DEF TypeOK
<1>4. WorkersHoldLock' /\ ReplyIsNewer'
  BY <1>2 DEF WorkersHoldLock, ReplyIsNewer, Working, Critical
<1>5. IssuedInBounds' /\ StoredWasIssued' /\ \A t \in Others : ErrandInOrder(t)'
  <2>1. issued \in Nat /\ \A t \in Others : other'[t] = NoErrand
    BY <1>1, TokenNumbers
  <2> QED
    BY <2>1 DEF IInv, IssuedInBounds, StoredWasIssued, ErrandInOrder, NoErrand
<1>6. ASSUME NEW r \in Runs PROVE RunInOrder(r)'
  <2>1. RunInOrder(r) /\ pc'[r] \in {"idle", "done", "dead"} /\ (pc'[r] = "idle" => pc[r] = "idle")
    BY <1>2 DEF IInv
  <2>2. row[r].status \in Ended => pc[r] # "idle"
    BY <2>1 DEF RunInOrder
  <2> QED
    BY <2>1, <2>2 DEF RunInOrder, Underway, Through
<1> QED
  BY <1>3, <1>4, <1>5, <1>6 DEF IInv

\* Nothing else the invariant speaks of changes by itself.
LEMMA StillStep ==
    ASSUME IInv, IntervalElapses \/ UNCHANGED vars
    PROVE  IInv'
<1>1. /\ UNCHANGED <<pc, runVars, row, lockVars, dbVars, tokenVars>>
      /\ recent' \subseteq Runs
  BY DEF IInv, TypeOK, IntervalElapses, vars
<1> QED
  BY <1>1 DEF IInv, TypeOK, IssuedInBounds, WorkersHoldLock, Working, RunInOrder, Underway, Through,
              Tallied, ErrandInOrder, StoredWasIssued, ReplyIsNewer, runVars, lockVars, dbVars, tokenVars

-----------------------------------------------------------------------------
(* The theorems.                                                           *)

LEMMA InvInit == Init => IInv
<1> SUFFICES ASSUME Init PROVE IInv
  OBVIOUS
<1>1. TypeOK
  BY TypeInit
<1>2. /\ \A r \in Runs : pc[r] = "idle" /\ row[r] = NoRow /\ reply[r] = NoReply
      /\ \A r \in Runs : counts[r] = [ok |-> 0, bad |-> 0]
      /\ \A a \in Accounts : stored[a] = 1
      /\ issued = 1 /\ edits = 0
      /\ \A t \in Others : other[t] = NoErrand
  BY DEF Init
<1>3. IssuedInBounds /\ StoredWasIssued /\ \A t \in Others : ErrandInOrder(t)
  BY <1>2, Bounds DEF IssuedInBounds, StoredWasIssued, ErrandInOrder, NoReply, NoErrand
<1>4. WorkersHoldLock /\ ReplyIsNewer /\ \A r \in Runs : RunInOrder(r)
  BY <1>2 DEF WorkersHoldLock, Working, Critical, ReplyIsNewer, RunInOrder, Underway, Through, NoRow,
              Ended
<1> QED
  BY <1>1, <1>3, <1>4 DEF IInv

\* Every step keeps the invariant.
LEMMA InvStep == IInv /\ [Next]_vars => IInv'
<1> SUFFICES ASSUME IInv, [Next]_vars PROVE IInv'
  OBVIOUS
<1>1. ASSUME NEW r \in Runs, Moves(r) PROVE IInv'
  <2>1. TypeOK' /\ IssuedInBounds'
    BY <1>1, TypeRun DEF IInv
  <2>2. WorkersHoldLock'
    BY <1>1, LockRun DEF IInv
  <2>3. ASSUME NEW q \in Runs PROVE RunInOrder(q)'
    <3>1. CASE q = r
      BY <1>1, <3>1, RunStep DEF IInv
    <3>2. CASE q # r
      <4>1. /\ pc'[q] = pc[q] /\ kind'[q] = kind[q] /\ todo'[q] = todo[q] /\ reply'[q] = reply[q]
            /\ counts'[q] = counts[q] /\ row'[q] = row[q]
        BY <1>1, <3>2, OtherRuns DEF IInv
      <4>2. RunInOrder(q)
        BY DEF IInv
      <4> QED
        BY <4>1, <4>2 DEF RunInOrder, Underway, Through, Tallied
    <3> QED
      BY <3>1, <3>2
  <2>4. StoredWasIssued' /\ ReplyIsNewer'
    BY <1>1, <2>1, TokenRun DEF IInv
  <2>5. \A t \in Others : ErrandInOrder(t)'
    BY <1>1, ReplyStep DEF IInv, ErrandInOrder
  <2> QED
    BY <2>1, <2>2, <2>3, <2>4, <2>5 DEF IInv
<1> QED
  BY <1>1, OutsideKeeps, ExpiryStep, CrashStep, StillStep DEF Next, Moves

\* The inductive invariant holds in every behaviour.
THEOREM RefreshInvariant == Spec => []IInv
BY InvInit, InvStep, PTL DEF Spec

\* Every variable keeps its type: in particular the provider never issues more
\* tokens than its bound, whatever the runs and the requests around them do.
THEOREM TypeCorrect == Spec => []TypeOK
<1>1. IInv => TypeOK
  BY DEF IInv
<1> QED
  BY <1>1, RefreshInvariant, PTL

\* The lock row keeps refresh runs apart: two of them are never between their
\* first and their last account, whatever their kinds, however they end and
\* whichever of them crash, as long as no run has outlasted its TTL.
THEOREM RunsAreApart == Spec => []NoConcurrentRefresh
<1>1. IInv => NoConcurrentRefresh
  BY DEF IInv, WorkersHoldLock, NoConcurrentRefresh
<1> QED
  BY <1>1, RefreshInvariant, PTL

\* A completed run's successes and failures make up the accounts it loaded.
THEOREM TotalsAddUp == Spec => []CompletedAddsUp
<1>1. IInv => CompletedAddsUp
  BY DEF IInv, RunInOrder, CompletedAddsUp
<1> QED
  BY <1>1, RefreshInvariant, PTL

\* The step behind OutcomeIsFinal: who still writes a row has not ended it.
LEMMA OutcomeStep ==
    ASSUME IInv, [Next]_vars, NEW r \in Runs, row[r].status \in Ended
    PROVE  row'[r] = row[r]
<1> USE DEF runVars, lockVars, dbVars, tokenVars
<1>1. TypeOK /\ pc[r] \in {"release", "done", "dead"} /\ ~Through(r) /\ pc \in [Runs -> Phases]
  BY DEF IInv, RunInOrder, TypeOK
<1>2. ASSUME Moves(r) PROVE row'[r] = row[r]
  BY <1>1, <1>2
     DEF Moves, Step, Raise, Disconnect, StartAll, StartTrigger, StartScheduled, StartRetry, Gate,
         LoadScheduled, Acquire, Conflict, Release, DecryptFails, CallUpstream, Save, LogRetry, SaveRetry,
         Finish, LeaveRetry, FinishRetry, Through
<1>3. ASSUME NEW q \in Runs, Moves(q), q # r PROVE row'[r] = row[r]
  BY <1>1, <1>3, OtherRuns
<1>4. ASSUME \/ \E t \in Others : Outside(t)
             \/ LockExpires \/ IntervalElapses \/ Crash \/ UNCHANGED vars
      PROVE  row'[r] = row[r]
  BY <1>4, OutsideStep DEF LockExpires, IntervalElapses, Crash, vars
<1> QED
  BY <1>2, <1>3, <1>4 DEF Next, Moves

\* A run has one outcome: once its row says completed, failed or skipped,
\* nothing ever rewrites it.
THEOREM OutcomesAreFinal == Spec => OutcomeIsFinal
<1>1. IInv /\ [Next]_vars => [\A r \in Runs : row[r].status \in Ended => row'[r] = row[r]]_vars
  BY OutcomeStep
<1> QED
  BY <1>1, RefreshInvariant, PTL DEF Spec, OutcomeIsFinal

\* The step behind TokenNeverGoesBack.
LEMMA TokenStep ==
    ASSUME IInv, [Next]_vars, NEW r \in Runs, pc[r] \in {"reply", "logged"}, pc'[r] = "loop", overruns = 0,
           NEW a \in Accounts \ touched
    PROVE  stored'[a] >= stored[a]
<1>1. TypeOK /\ StoredWasIssued /\ ReplyIsNewer
  BY DEF IInv
<1>2. CASE Moves(r)
  BY <1>1, <1>2, Stores
<1>3. ASSUME NEW q \in Runs, Moves(q), q # r PROVE FALSE
  BY <1>1, <1>3, OtherRuns
<1>4. ASSUME (\E t \in Others : Outside(t)) \/ LockExpires \/ IntervalElapses \/ Crash \/ UNCHANGED vars
      PROVE  FALSE
  BY <1>4, OutsideStep DEF LockExpires, IntervalElapses, Crash, vars
<1> QED
  BY <1>2, <1>3, <1>4 DEF Next, Moves

\* As long as no run outlasts its TTL, a run replaces a stored token only by a
\* later one, unless a request outside the runs has written that account since
\* the run asked: the runs, which all loaded their tokens before they had the
\* lock, do not overtake one another, however many requests write around them.
THEOREM TokensNeverGoBack == Spec => TokenNeverGoesBack
<1> DEFINE Stored == \A r \in Runs : pc[r] \in {"reply", "logged"} /\ pc'[r] = "loop" /\ overruns = 0 =>
                       \A a \in Accounts \ touched : stored'[a] >= stored[a]
<1>1. IInv /\ [Next]_vars => [Stored]_vars
  BY TokenStep
<1> QED
  BY <1>1, RefreshInvariant, PTL DEF Spec, TokenNeverGoesBack

-----------------------------------------------------------------------------
(* The runs implement RefreshLedger.                                       *)

At == [r \in Runs |-> Stage[pc[r]]]
Told == [r \in Runs |-> row[r].status]
Late == overruns > 0

\* The state of the ledger that a state of the runs stands for.
seen == <<At, Told, todo, Late>>

LEMMA Stages ==
    /\ \A p \in Phases : Stage[p] = "before" <=> p = "idle"
    /\ \A p \in Phases : Stage[p] = "waiting" <=> p \in {"gate", "load", "lock"}
    /\ \A p \in Phases : Stage[p] = "working" <=> p \in Critical
    /\ \A p \in Phases : Stage[p] = "leaving" <=> p \in {"release", "finish"}
    /\ \A p \in Phases : Stage[p] = "over" <=> p \in {"done", "dead"}
BY DEF Stage, Phases, Critical

\* A run that goes from one place to another moves in the ledger.
LEMMA RunMoves ==
    ASSUME TypeOK, NEW r \in Runs, NEW to \in Phases, Goto(r, to)
    PROVE  /\ Ledger!Move(r, Stage[pc[r]], Stage[to])
           /\ Stage[to] = Stage[pc[r]] => At' = At
<1>1. pc \in [Runs -> Phases] /\ pc' = [pc EXCEPT ![r] = to]
  BY DEF TypeOK, Goto
<1>2. At[r] = Stage[pc[r]] /\ At' = [At EXCEPT ![r] = Stage[to]]
  BY <1>1 DEF At
<1>3. Ledger!Move(r, Stage[pc[r]], Stage[to])
  BY <1>2 DEF Ledger!Move, At
<1>4. Stage[to] = Stage[pc[r]] => At' = At
  BY <1>1, <1>2 DEF At
<1> QED
  BY <1>3, <1>4

\* Who writes a row that has not ended tells its outcome.
LEMMA RowTells ==
    ASSUME TypeOK, NEW r \in Runs, row[r].status \notin Ended,
           NEW status, NEW total, NEW ok, NEW bad, SetRow(r, status, total, ok, bad)
    PROVE  Ledger!Tell(r, status)
<1>1. row' = [row EXCEPT ![r] = [status |-> status, total |-> total, ok |-> ok, bad |-> bad]]
  BY DEF SetRow
<1>2. row \in [Runs -> [status : RowStatuses, total : Nat, ok : Nat, bad : Nat]]
  BY DEF TypeOK
<1>3. Told' = [Told EXCEPT ![r] = status] /\ Told[r] = row[r].status
  BY <1>1, <1>2 DEF Told
<1> QED
  BY <1>3 DEF Ledger!Tell, Told, Ended

\* A run that is still to write its row has not ended it.
LEMMA StillOpen ==
    ASSUME IInv, NEW r \in Runs, pc[r] \notin {"release", "done", "dead"} \/ Through(r)
    PROVE  row[r].status \notin Ended
BY DEF IInv, RunInOrder

\* Starting and loading prepare a run.
LEMMA PrepareInLedger ==
    ASSUME IInv, NEW r \in Runs,
           StartAll(r) \/ StartTrigger(r) \/ StartScheduled(r) \/ StartRetry(r) \/ LoadScheduled(r)
    PROVE  Ledger!Prepare(r)
<1> USE DEF StartAll, StartTrigger, StartScheduled, StartRetry, LoadScheduled
<1>1. TypeOK /\ row[r].status \notin Ended /\ pc[r] \in {"idle", "load"} /\ overruns' = overruns
  BY StillOpen DEF IInv, PurgeLock, lockVars
<1>2. PICK to \in {"gate", "lock"} : Goto(r, to)
  OBVIOUS
<1>3. Ledger!Move(r, "before", "waiting") \/ Ledger!Move(r, "waiting", "waiting")
  <2>1. to \in Phases /\ pc[r] \in Phases
    BY <1>1 DEF Phases, TypeOK
  <2>2. Stage[to] = "waiting" /\ Stage[pc[r]] \in {"before", "waiting"}
    BY <1>1, <2>1, Stages
  <2> QED
    BY <1>1, <1>2, <2>1, <2>2, RunMoves
<1>4. Ledger!Tell(r, "running")
  BY <1>1, RowTells
<1>5. \E S \in SUBSET Accounts : todo' = [todo EXCEPT ![r] = S]
  <2>1. CASE StartScheduled(r)
    <3>1. todo' = todo /\ todo[r] \in SUBSET Accounts /\ todo = [todo EXCEPT ![r] = todo[r]]
      BY <1>1, <2>1 DEF TypeOK, runVars
    <3> QED
      BY <3>1
  <2>2. CASE ~StartScheduled(r)
    BY <2>2 DEF Load
  <2> QED
    BY <2>1, <2>2
<1> QED
  BY <1>1, <1>3, <1>4, <1>5 DEF Ledger!Prepare

\* A run that is skipped, refused or raises before the lock gives up.
LEMMA GiveUpInLedger ==
    ASSUME IInv, NEW r \in Runs, pc[r] \in {"gate", "load", "lock"}, Goto(r, "done"),
           UNCHANGED <<todo, overruns>>,
           NEW total, NEW ok, NEW bad,
           \/ row' = row
           \/ SetRow(r, "skipped", total, ok, bad)
           \/ SetRow(r, "failed", total, ok, bad)
    PROVE  Ledger!GiveUp(r)
<1>1. TypeOK /\ row[r].status \notin Ended /\ "done" \in Phases /\ pc[r] \in Phases
  BY StillOpen DEF IInv, Phases
<1>2. Ledger!Move(r, "waiting", "over")
  BY <1>1, Stages, RunMoves
<1>3. Told' = Told \/ Ledger!Tell(r, "skipped") \/ Ledger!Tell(r, "failed")
  BY <1>1, RowTells DEF Told
<1> QED
  BY <1>2, <1>3 DEF Ledger!GiveUp, Told

\* A run works only when no other does: the lock row is free, and while no run
\* was late, whoever works holds it unexpired.
LEMMA EnterInLedger ==
    ASSUME IInv, NEW r \in Runs, Acquire(r)
    PROVE  Ledger!Enter(r)
<1>1. TypeOK /\ pc[r] = "lock" /\ "loop" \in Phases /\ "lock" \in Phases /\ "loop" \in Critical
  BY DEF IInv, Acquire, Phases, Critical
<1>2. Ledger!Move(r, "waiting", "working")
  BY <1>1, Stages, RunMoves DEF Acquire
<1>3. Late \/ \A q \in Runs : At[q] # "working"
  <2>1. overruns \in Nat
    BY <1>1, Bounds DEF TypeOK
  <2>2. overruns = 0 => \A q \in Runs : ~Working(q)
    BY Bounds DEF IInv, WorkersHoldLock, Acquire, LockFree
  <2>3. \A q \in Runs : At[q] = "working" => Working(q)
    BY <1>1, Stages DEF At, Working, TypeOK
  <2> QED
    BY <2>1, <2>2, <2>3 DEF Late
<1>4. UNCHANGED <<Told, todo, overruns>>
  BY DEF Acquire, runVars, Told
<1> QED
  BY <1>2, <1>3, <1>4 DEF Ledger!Enter, At, Told, Late

\* An account that was refreshed, or could not be, is through.
LEMMA GoThroughInLedger ==
    ASSUME IInv, NEW r \in Runs,
           (\E a \in Accounts : DecryptFails(r, a)) \/ Save(r) \/ SaveRetry(r)
    PROVE  \E a \in Accounts : Ledger!GoThrough(r, a)
<1>1. TypeOK /\ pc[r] \in Phases
  BY DEF IInv, TypeOK
<1>2. PICK a \in Accounts : a \in todo[r] /\ todo' = [todo EXCEPT ![r] = @ \ {a}]
  <2>1. CASE \E a \in Accounts : DecryptFails(r, a)
    BY <2>1 DEF DecryptFails
  <2>2. CASE Save(r) \/ SaveRetry(r)
    <3>1. reply[r].account \in todo[r] /\ todo[r] \subseteq Accounts
      BY <1>1, <2>2 DEF IInv, RunInOrder, Save, SaveRetry, TypeOK
    <3> QED
      BY <2>2, <3>1 DEF Save, SaveRetry, NextAccount
  <2> QED
    BY <2>1, <2>2
<1>3. pc[r] \in Critical /\ At' = At
  <2>1. CASE pc' = pc
    BY <2>1 DEF At, DecryptFails, Save, SaveRetry, Critical
  <2>2. CASE Goto(r, "loop") /\ pc[r] \in {"reply", "logged"}
    <3>1. "loop" \in Phases /\ "loop" \in Critical /\ pc[r] \in Critical
      BY <2>2 DEF Phases, Critical
    <3> QED
      BY <1>1, <2>2, <3>1, Stages, RunMoves
  <2> QED
    BY <2>1, <2>2 DEF DecryptFails, Save, SaveRetry, NextAccount
<1>4. UNCHANGED <<Told, overruns>>
  BY DEF DecryptFails, Save, SaveRetry, lockVars, Told
<1>5. At[r] = "working"
  BY <1>1, <1>3, Stages DEF At
<1> QED
  BY <1>2, <1>3, <1>4, <1>5 DEF Ledger!GoThrough, At, Told, Late

\* However the loop is left, the run leaves; it is recorded as completed only
\* with its list gone through.
LEMMA LeaveInLedger ==
    ASSUME IInv, NEW r \in Runs,
           Finish(r) \/ LeaveRetry(r) \/ Disconnect(r) \/ (Raise(r) /\ pc[r] = "loop")
    PROVE  Ledger!Leave(r)
<1> USE DEF Finish, LeaveRetry, Disconnect, Raise
<1>1. /\ TypeOK /\ pc[r] = "loop" /\ "loop" \in Phases /\ "loop" \in Critical /\ "release" \in Phases
      /\ row[r].status \notin Ended /\ Goto(r, "release")
  BY StillOpen DEF IInv, Phases, Critical
<1>2. Ledger!Move(r, "working", "leaving")
  BY <1>1, Stages, RunMoves
<1>3. Told' = Told \/ Ledger!TellCompleted(r) \/ Ledger!Tell(r, "failed")
  <2>1. CASE row' = row
    BY <2>1 DEF Told
  <2>2. CASE Finish(r)
    <3>1. Ledger!Tell(r, "completed")
      BY <1>1, <2>2, RowTells DEF Complete
    <3> QED
      BY <2>2, <3>1 DEF Ledger!TellCompleted
  <2>3. ASSUME NEW total, NEW ok, NEW bad, SetRow(r, "failed", total, ok, bad)
        PROVE  Ledger!Tell(r, "failed")
    BY <1>1, <2>3, RowTells
  <2> QED
    BY <2>1, <2>2, <2>3
<1>4. UNCHANGED <<todo, overruns>>
  BY DEF runVars, lockVars
<1> QED
  BY <1>2, <1>3, <1>4 DEF Ledger!Leave, At, Told, Late

\* The last step of a run.
LEMMA CloseInLedger ==
    ASSUME IInv, NEW r \in Runs, Release(r) \/ FinishRetry(r)
    PROVE  [Ledger!Next]_seen
<1>1. /\ TypeOK /\ {"release", "finish", "done"} \subseteq Phases
      /\ pc[r] \in {"release", "finish"} /\ pc[r] \in Phases
  BY DEF IInv, Phases, Release, FinishRetry
<1>2. UNCHANGED <<todo, overruns>>
  BY DEF Release, FinishRetry, runVars, lockVars, DropLock
<1>3. CASE Release(r) /\ kind[r] = "retry_failed"
  <2>1. At' = At
    BY <1>1, <1>3, Stages, RunMoves DEF Release
  <2> QED
    BY <1>2, <1>3, <2>1 DEF Release, seen, Told, Late
<1>4. CASE Release(r) /\ kind[r] # "retry_failed"
  <2>1. Ledger!Move(r, "leaving", "over") /\ Told' = Told
    BY <1>1, <1>4, Stages, RunMoves DEF Release, Told
  <2>2. Ledger!Close(r)
    BY <1>2, <2>1 DEF Ledger!Close, Told, Late
  <2> QED
    BY <2>2 DEF Ledger!Next
<1>5. CASE FinishRetry(r)
  <2>1. Ledger!Move(r, "leaving", "over")
    BY <1>1, <1>5, Stages, RunMoves DEF FinishRetry
  <2>2. Through(r) /\ todo[r] = {}
    BY <1>5 DEF FinishRetry, IInv, RunInOrder, Through
  <2>3. Told' = Told \/ Ledger!TellCompleted(r)
    <3>1. CASE row' = row
      BY <3>1 DEF Told
    <3>2. CASE Complete(r)
      <4>1. Ledger!Tell(r, "completed")
        BY <1>1, <2>2, <3>2, RowTells, StillOpen DEF Complete
      <4> QED
        BY <2>2, <4>1 DEF Ledger!TellCompleted
    <3> QED
      BY <1>5, <3>1, <3>2 DEF FinishRetry
  <2>4. Ledger!Close(r)
    BY <1>2, <2>1, <2>3 DEF Ledger!Close, Told, Late
  <2> QED
    BY <2>4 DEF Ledger!Next
<1> QED
  BY <1>3, <1>4, <1>5

\* What a run does beside: it passes the gate, calls the provider, logs.
LEMMA BesideLedger ==
    ASSUME IInv, NEW r \in Runs,
           \/ Gate(r) /\ ~Goto(r, "done")
           \/ \E a \in Accounts : CallUpstream(r, a)
           \/ LogRetry(r)
    PROVE  UNCHANGED seen
<1>1. TypeOK /\ pc[r] \in Phases /\ UNCHANGED <<row, todo, overruns>>
  BY DEF IInv, TypeOK, Gate, Skip, CallUpstream, LogRetry, runVars, lockVars
<1>2. CASE Gate(r) /\ ~Goto(r, "done")
  <2>1. PICK to \in {"load", "lock"} : Goto(r, to)
    BY <1>2 DEF Gate, Skip
  <2>2. pc[r] = "gate" /\ to \in Phases
    BY <1>2, <2>1 DEF Gate, Phases
  <2>3. Stage[to] = Stage[pc[r]]
    BY <1>1, <2>1, <2>2, Stages
  <2>4. At' = At
    BY <1>1, <2>1, <2>2, <2>3, RunMoves
  <2> QED
    BY <1>1, <2>4 DEF seen, Told, Late
<1>3. CASE (\E a \in Accounts : CallUpstream(r, a)) \/ LogRetry(r)
  <2>1. PICK to \in {"reply", "logged"} : Goto(r, to)
    BY <1>3 DEF CallUpstream, LogRetry
  <2>2. pc[r] \in Critical /\ to \in Critical /\ to \in Phases
    BY <1>3, <2>1 DEF CallUpstream, LogRetry, Critical, Phases
  <2>3. Stage[to] = Stage[pc[r]]
    BY <1>1, <2>2, Stages
  <2>4. At' = At
    BY <1>1, <2>1, <2>2, <2>3, RunMoves
  <2> QED
    BY <1>1, <2>4 DEF seen, Told, Late
<1> QED
  BY <1>2, <1>3

\* Every step of a run is a step of the ledger or leaves it alone.
LEMMA RunInLedger ==
    ASSUME IInv, NEW r \in Runs, Moves(r)
    PROVE  [Ledger!Next]_seen
<1>1. CASE StartAll(r) \/ StartTrigger(r) \/ StartScheduled(r) \/ StartRetry(r) \/ LoadScheduled(r)
  BY <1>1, PrepareInLedger DEF Ledger!Next
<1>2. CASE (Gate(r) /\ Goto(r, "done")) \/ Conflict(r) \/ (Raise(r) /\ pc[r] # "loop")
  <2>1. pc[r] \in {"gate", "load", "lock"} /\ Goto(r, "done") /\ UNCHANGED <<todo, overruns>>
    BY <1>2 DEF Gate, Skip, Conflict, Raise, runVars, lockVars
  <2>2. \/ row' = row
        \/ \E total, ok, bad : \/ SetRow(r, "skipped", total, ok, bad)
                               \/ SetRow(r, "failed", total, ok, bad)
    BY <1>2 DEF Gate, Skip, Conflict, Raise
  <2>3. Ledger!GiveUp(r)
    BY <2>1, <2>2, GiveUpInLedger
  <2> QED
    BY <2>3 DEF Ledger!Next
<1>3. CASE Acquire(r)
  BY <1>3, EnterInLedger DEF Ledger!Next
<1>4. CASE (\E a \in Accounts : DecryptFails(r, a)) \/ Save(r) \/ SaveRetry(r)
  BY <1>4, GoThroughInLedger DEF Ledger!Next
<1>5. CASE Finish(r) \/ LeaveRetry(r) \/ Disconnect(r) \/ (Raise(r) /\ pc[r] = "loop")
  BY <1>5, LeaveInLedger DEF Ledger!Next
<1>6. CASE Release(r) \/ FinishRetry(r)
  BY <1>6, CloseInLedger
<1>7. CASE (Gate(r) /\ ~Goto(r, "done")) \/ (\E a \in Accounts : CallUpstream(r, a)) \/ LogRetry(r)
  BY <1>7, BesideLedger
<1> QED
  BY <1>1, <1>2, <1>3, <1>4, <1>5, <1>6, <1>7 DEF Moves, Step

\* Every step of the runs and of what is around them is a step of the ledger or
\* leaves it alone.
LEMMA LedgerStep == IInv /\ [Next]_vars => [Ledger!Next]_seen
<1> SUFFICES ASSUME IInv, [Next]_vars PROVE [Ledger!Next]_seen
  OBVIOUS
<1>1. ASSUME UNCHANGED <<pc, row, todo, overruns>> PROVE [Ledger!Next]_seen
  BY <1>1 DEF seen, At, Told, Late
<1>2. CASE LockExpires
  <2>1. overruns' = overruns \/ overruns' = overruns + 1
    BY <1>2 DEF LockExpires
  <2>2. Late' = Late \/ Late' = TRUE
    BY <2>1, Bounds DEF IInv, TypeOK, Late
  <2>3. UNCHANGED <<pc, row, todo>>
    BY <1>2 DEF LockExpires, runVars
  <2>4. UNCHANGED <<At, Told>>
    BY <2>3 DEF At, Told
  <2>5. CASE Late' = TRUE
    <3>1. Ledger!Overrun
      BY <2>3, <2>4, <2>5 DEF Ledger!Overrun, At, Told, Late
    <3> QED
      BY <3>1 DEF Ledger!Next
  <2>6. CASE Late' = Late
    BY <2>3, <2>4, <2>6 DEF seen
  <2> QED
    BY <2>2, <2>5, <2>6
<1>3. CASE Crash
  <2>1. pc \in [Runs -> Phases] /\ "dead" \in Phases /\ "idle" \in Phases /\ "done" \in Phases
    BY DEF IInv, TypeOK, Phases
  <2>2. \A r \in Runs : Stage[pc'[r]] = IF Stage[pc[r]] = "before" THEN "before" ELSE "over"
    BY <1>3, <2>1, Stages DEF Crash
  <2>3. At' = [r \in Runs |-> IF At[r] = "before" THEN "before" ELSE "over"]
    BY <2>2 DEF At
  <2>4. UNCHANGED <<Told, todo, Late>>
    BY <1>3 DEF Crash, runVars, lockVars, Told, Late
  <2>5. Ledger!Die
    BY <2>3, <2>4 DEF Ledger!Die, At, Told, Late
  <2> QED
    BY <2>5 DEF Ledger!Next
<1>4. CASE (\E t \in Others : Outside(t)) \/ IntervalElapses \/ UNCHANGED vars
  BY <1>1, <1>4, OutsideStep DEF IntervalElapses, vars, runVars, lockVars
<1> QED
  BY <1>2, <1>3, <1>4, RunInLedger DEF Next, Moves

\* The refresh runs, with their gates, the lock and its TTL, and however they
\* end, implement the ledger of runs.
THEOREM RunsRefine == Spec => RefreshLedgerSpec
<1>1. Init => Ledger!Init
  <2> SUFFICES ASSUME Init PROVE Ledger!Init
    OBVIOUS
  <2>1. "idle" \in Phases /\ Stage["idle"] = "before"
    BY DEF Stage, Phases
  <2>2. \A r \in Runs : pc[r] = "idle" /\ row[r].status = "none"
    BY DEF Init, NoRow
  <2>3. todo = [r \in Runs |-> {}] /\ (overruns > 0) = FALSE
    BY DEF Init
  <2> QED
    BY <2>1, <2>2, <2>3 DEF Ledger!Init
<1>2. [Ledger!Next]_seen <=> [Ledger!Next]_(Ledger!ledger)
  BY DEF seen, At, Told, Late, Ledger!ledger
<1>3. IInv /\ [Next]_vars => [Ledger!Next]_(Ledger!ledger)
  BY <1>2, LedgerStep
<1> QED
  BY <1>1, <1>3, RefreshInvariant, PTL DEF Spec, RefreshLedgerSpec, Ledger!Spec
=============================================================================

---------------------------- MODULE TokenRefresh ----------------------------
(***************************************************************************)
(* Refresh runs: the four ways to refresh the OAuth tokens of all Outlook  *)
(* accounts, the lock row that is to keep two of them apart, and the rows  *)
(* of refresh_runs that tell how each went.                                *)
(*                                                                         *)
(* The lock and the run row live in SQLite and survive a crash; the list   *)
(* of accounts with their tokens is loaded before the lock is asked for    *)
(* and lives in memory.  The provider (external) rotates tokens: tokens    *)
(* are numbered in the order they come into being.  The schedule is the     *)
(* day interval (use_cron_schedule = false).  Requests outside the runs    *)
(* write the same tokens and never ask for the lock.                       *)
(***************************************************************************)
EXTENDS Naturals, FiniteSets

CONSTANTS Runs,        \* executions of one of the four tasks
          Accounts,    \* active Outlook accounts
          Kinds,       \* trigger sources in use, of AllKinds
          Others,      \* requests that write tokens without the lock
          NoRun,       \* no lock row
          MaxOverruns, \* bound: times the lock's TTL ends before its owner does
          MaxRotations,\* bound: tokens issued by the provider
          MaxEdits     \* bound: tokens typed in by the administrator

AllKinds == {"manual_all", "scheduled_manual", "scheduled", "retry_failed"}
Streams == {"manual_all", "scheduled_manual"}
Timed == {"scheduled", "scheduled_manual"}

ASSUME TokenRefreshAssumption ==
    /\ Kinds \subseteq AllKinds
    /\ NoRun \notin Runs
    /\ IsFiniteSet(Accounts)
    /\ MaxRotations \in Nat /\ MaxEdits \in Nat /\ MaxOverruns \in Nat

VARIABLES pc,       \* where each run is
          kind,     \* its trigger source
          forced,   \* did it ask to ignore the interval?
          loaded,   \* tokens it read when it started
          todo,     \* accounts it has still to refresh
          reply,    \* the provider's answer it is about to store
          counts,   \* its success and failure counters
          row,      \* its row of refresh_runs: status, total, ok, bad
          lock,     \* owner_id of the row of distributed_locks
          expired,  \* has expires_at passed?
          overruns, \* history: how often it passed before the owner was through
          stored,   \* accounts.refresh_token
          lastLog,  \* status of the account's latest account_refresh_logs line
          issued,   \* tokens that exist
          edits,    \* how many of them the administrator typed in
          other,    \* what a request outside the runs has in hand
          touched,  \* history: accounts such a request has written since a run
                    \* last asked the provider about them
          recent    \* runs that finished less than refresh_interval_days ago

runVars == <<kind, forced, loaded, todo, reply, counts>>
lockVars == <<lock, expired, overruns>>
dbVars == <<stored, lastLog>>
tokenVars == <<issued, edits, other, touched>>
vars == <<pc, runVars, row, lockVars, dbVars, tokenVars, recent>>

Phases == {"idle", "gate", "load", "lock", "loop", "reply", "logged",
           "finish", "release", "done", "dead"}
RowStatuses == {"none", "running", "completed", "failed", "skipped"}
Ended == {"completed", "failed", "skipped"}
TokenIds == 0 .. 1 + MaxRotations + MaxEdits
NoReply == [account |-> NoRun, ok |-> FALSE, token |-> 0]
NoErrand == [step |-> "none", account |-> NoRun, ok |-> FALSE, token |-> 0]
NoRow == [status |-> "none", total |-> 0, ok |-> 0, bad |-> 0]

TypeOK ==
    /\ pc \in [Runs -> Phases]
    /\ kind \in [Runs -> AllKinds]
    /\ forced \in [Runs -> BOOLEAN]
    /\ loaded \in [Runs -> [Accounts -> TokenIds]]
    /\ todo \in [Runs -> SUBSET Accounts]
    /\ reply \in [Runs -> [account : Accounts \cup {NoRun}, ok : BOOLEAN, token : TokenIds]]
    /\ counts \in [Runs -> [ok : Nat, bad : Nat]]
    /\ row \in [Runs -> [status : RowStatuses, total : Nat, ok : Nat, bad : Nat]]
    /\ lock \in Runs \cup {NoRun}
    /\ expired \in BOOLEAN
    /\ overruns \in 0 .. MaxOverruns
    /\ stored \in [Accounts -> TokenIds \ {0}]
    /\ lastLog \in [Accounts -> {"none", "success", "failed"}]
    /\ issued \in TokenIds
    /\ edits \in 0 .. MaxEdits
    /\ other \in [Others -> [step : {"none", "answer", "logged", "edit"},
                            account : Accounts \cup {NoRun}, ok : BOOLEAN, token : TokenIds]]
    /\ touched \subseteq Accounts
    /\ recent \subseteq Runs

Init ==
    /\ pc = [r \in Runs |-> "idle"]
    /\ kind \in [Runs -> Kinds]
    /\ forced \in {f \in [Runs -> BOOLEAN] :
                     \A r \in Runs : f[r] => kind[r] = "scheduled_manual"}
    /\ loaded = [r \in Runs |-> [a \in Accounts |-> 0]]
    /\ todo = [r \in Runs |-> {}]
    /\ reply = [r \in Runs |-> NoReply]
    /\ counts = [r \in Runs |-> [ok |-> 0, bad |-> 0]]
    /\ row = [r \in Runs |-> NoRow]
    /\ lock = NoRun
    /\ expired = FALSE
    /\ overruns = 0
    /\ stored = [a \in Accounts |-> 1]
    /\ lastLog \in [Accounts -> {"none", "failed"}]
    /\ issued = 1
    /\ edits = 0
    /\ other = [t \in Others |-> NoErrand]
    /\ touched = {}
    /\ recent = {}

Goto(r, phase) == pc' = [pc EXCEPT ![r] = phase]

SetRow(r, status, total, ok, bad) ==
    row' = [row EXCEPT ![r] = [status |-> status, total |-> total, ok |-> ok, bad |-> bad]]

-----------------------------------------------------------------------------
(* Starting: housekeeping, the list of accounts, the run row.              *)

Load(r, accounts) ==
    /\ loaded' = [loaded EXCEPT ![r] = stored]
    /\ todo' = [todo EXCEPT ![r] = accounts]

\* Mutant: the DELETE has lost its WHERE.
PurgeAnyLock == /\ lock' = NoRun
                /\ expired' = FALSE
                /\ UNCHANGED overruns

\* DELETE FROM distributed_locks WHERE expires_at < now; its error is ignored.
PurgeLock == /\ lock' = IF expired THEN NoRun ELSE lock
             /\ expired' = FALSE
             /\ UNCHANGED overruns

StartAll(r) ==
    /\ pc[r] = "idle" /\ kind[r] = "manual_all"
    /\ PurgeLock \/ UNCHANGED lockVars
    /\ Load(r, Accounts)
    /\ SetRow(r, "running", Cardinality(Accounts), 0, 0)
    /\ Goto(r, "lock")
    /\ UNCHANGED <<kind, forced, reply, counts, dbVars, tokenVars, recent>>

StartTrigger(r) ==
    /\ pc[r] = "idle" /\ kind[r] = "scheduled_manual"
    /\ Load(r, Accounts)
    /\ SetRow(r, "running", Cardinality(Accounts), 0, 0)
    /\ Goto(r, "gate")
    /\ UNCHANGED <<kind, forced, reply, counts, lockVars, dbVars, tokenVars, recent>>

\* The scheduler's task creates its run first and loads the accounts later.
\* The scheduler runs one instance of it at a time.
StartScheduled(r) ==
    /\ pc[r] = "idle" /\ kind[r] = "scheduled"
    /\ \A q \in Runs : kind[q] = "scheduled" => pc[q] \in {"idle", "done", "dead"}
    /\ SetRow(r, "running", 0, 0, 0)
    /\ Goto(r, "gate")
    /\ UNCHANGED <<runVars, lockVars, dbVars, tokenVars, recent>>

LoadScheduled(r) ==
    /\ pc[r] = "load"
    /\ PurgeLock \/ UNCHANGED lockVars
    /\ Load(r, Accounts)
    /\ SetRow(r, "running", Cardinality(Accounts), 0, 0)
    /\ Goto(r, "lock")
    /\ UNCHANGED <<kind, forced, reply, counts, dbVars, tokenVars, recent>>

StartRetry(r) ==
    LET failed == {a \in Accounts : lastLog[a] = "failed"} IN
    /\ pc[r] = "idle" /\ kind[r] = "retry_failed"
    /\ Load(r, failed)
    /\ SetRow(r, "running", Cardinality(failed), 0, 0)
    /\ Goto(r, "lock")
    /\ UNCHANGED <<kind, forced, reply, counts, lockVars, dbVars, tokenVars, recent>>

Skip(r, total) ==
    /\ SetRow(r, "skipped", total, 0, 0)
    /\ Goto(r, "done")
    /\ UNCHANGED <<runVars, dbVars, tokenVars, recent>>

\* The interval rule.  The task looks at its own kind of run only, the manual
\* trigger at both kinds and not at all when forced.
Sources(k) == IF k = "scheduled" THEN {"scheduled"} ELSE Timed
NotDue(r) == \E q \in recent : kind[q] \in Sources(kind[r])
IgnoresInterval(r) == kind[r] = "scheduled_manual" /\ forced[r]

\* The task is also skipped while enable_scheduled_refresh is off.
Gate(r) ==
    /\ pc[r] = "gate"
    /\ \/ NotDue(r) /\ ~IgnoresInterval(r) /\ Skip(r, 0)
       \/ kind[r] = "scheduled" /\ Skip(r, 0)
       \/ /\ ~NotDue(r) \/ IgnoresInterval(r)
          /\ Goto(r, IF kind[r] = "scheduled" THEN "load" ELSE "lock")
          /\ UNCHANGED <<runVars, row, dbVars, tokenVars, recent>>
    /\ UNCHANGED lockVars

-----------------------------------------------------------------------------
(* The lock.                                                               *)

\* Mutant: the row is replaced whoever holds it.
LockAlwaysFree == TRUE

\* acquire_distributed_lock: one transaction; an expired row is taken over.
LockFree == lock = NoRun \/ expired

Acquire(r) ==
    /\ pc[r] = "lock"
    /\ LockFree
    /\ lock' = r
    /\ expired' = FALSE
    /\ Goto(r, "loop")
    /\ UNCHANGED <<runVars, row, overruns, dbVars, tokenVars, recent>>

\* Refused: the lock is somebody's, or the transaction failed.
Conflict(r) ==
    /\ pc[r] = "lock"
    /\ Skip(r, row[r].total)
    /\ UNCHANGED lockVars

\* DELETE ... WHERE name = ? AND owner_id = ?.
DropLock(r) ==
    /\ IF lock = r THEN lock' = NoRun /\ expired' = FALSE ELSE UNCHANGED <<lock, expired>>
    /\ UNCHANGED overruns

\* After the loop a retry releases the lock first and finishes its row then.
\* A DELETE that fails leaves the lock to its TTL.
Release(r) ==
    /\ pc[r] = "release"
    /\ DropLock(r) \/ UNCHANGED lockVars
    /\ Goto(r, IF kind[r] = "retry_failed" THEN "finish" ELSE "done")
    /\ UNCHANGED <<runVars, row, dbVars, tokenVars, recent>>

\* Mutant: the row has no expires_at.
LockNeverExpires == FALSE /\ UNCHANGED vars

\* The clock reaches expires_at, after the owner is through or, in a run longer
\* than the TTL, before.
LockExpires ==
    /\ lock # NoRun /\ ~expired
    /\ \/ pc[lock] \in {"done", "dead"} /\ UNCHANGED overruns
       \/ /\ pc[lock] \notin {"done", "dead"}
          /\ overruns < MaxOverruns
          /\ overruns' = overruns + 1
    /\ expired' = TRUE
    /\ UNCHANGED <<pc, runVars, row, lock, dbVars, tokenVars, recent>>

-----------------------------------------------------------------------------
(* The loop over the accounts.                                             *)

Count(r, ok) ==
    counts' = IF ok THEN [counts EXCEPT ![r].ok = @ + 1] ELSE [counts EXCEPT ![r].bad = @ + 1]

LogLine(a, ok) == lastLog' = [lastLog EXCEPT ![a] = IF ok THEN "success" ELSE "failed"]

\* The stored token cannot be decrypted: logged, counted, next account.  The
\* log's own error, if it has one, is swallowed.
DecryptFails(r, a) ==
    /\ pc[r] = "loop"
    /\ a \in todo[r]
    /\ todo' = [todo EXCEPT ![r] = @ \ {a}]
    /\ Count(r, FALSE)
    /\ LogLine(a, FALSE) \/ UNCHANGED lastLog
    /\ UNCHANGED <<pc, kind, forced, loaded, reply, row, lockVars, stored, tokenVars, recent>>

\* test_refresh_token presents the token loaded at the start: refused, or
\* accepted with a new token or without one.
CallUpstream(r, a) ==
    /\ pc[r] = "loop"
    /\ a \in todo[r]
    /\ \/ /\ reply' = [reply EXCEPT ![r] = [account |-> a, ok |-> FALSE, token |-> 0]]
          /\ UNCHANGED issued
       \/ /\ reply' = [reply EXCEPT ![r] = [account |-> a, ok |-> TRUE, token |-> 0]]
          /\ UNCHANGED issued
       \/ /\ issued < 1 + MaxRotations + edits
          /\ issued' = issued + 1
          /\ reply' = [reply EXCEPT ![r] = [account |-> a, ok |-> TRUE, token |-> issued + 1]]
    /\ touched' = touched \ {a}
    /\ Goto(r, "reply")
    /\ UNCHANGED <<kind, forced, loaded, todo, counts, row, lockVars, dbVars, edits, other, recent>>

\* Mutant: an answer without a token empties the stored one.
StoreTokenOrNothing(x) ==
    IF x.ok THEN stored' = [stored EXCEPT ![x.account] = x.token] ELSE UNCHANGED stored

StoreToken(x) ==
    IF x.ok /\ x.token # 0 THEN stored' = [stored EXCEPT ![x.account] = x.token]
                           ELSE UNCHANGED stored

NextAccount(r) ==
    /\ todo' = [todo EXCEPT ![r] = @ \ {reply[r].account}]
    /\ reply' = [reply EXCEPT ![r] = NoReply]
    /\ Goto(r, "loop")

\* The streams and the scheduled task write the log line and the new token in
\* one transaction; when it fails the error is swallowed and the result still
\* counts.
Save(r) ==
    LET x == reply[r] IN
    /\ pc[r] = "reply" /\ kind[r] # "retry_failed"
    /\ \/ LogLine(x.account, x.ok) /\ StoreToken(x)
       \/ UNCHANGED dbVars
    /\ Count(r, x.ok)
    /\ NextAccount(r)
    /\ UNCHANGED <<kind, forced, loaded, row, lockVars, tokenVars, recent>>

\* The retry logs first and stores the token in a second transaction.
LogRetry(r) ==
    LET x == reply[r] IN
    /\ pc[r] = "reply" /\ kind[r] = "retry_failed"
    /\ LogLine(x.account, x.ok) \/ UNCHANGED lastLog
    /\ Goto(r, "logged")
    /\ UNCHANGED <<runVars, row, lockVars, stored, tokenVars, recent>>

SaveRetry(r) ==
    /\ pc[r] = "logged"
    /\ StoreToken(reply[r]) \/ UNCHANGED stored
    /\ Count(r, reply[r].ok)
    /\ NextAccount(r)
    /\ UNCHANGED <<kind, forced, loaded, row, lockVars, lastLog, tokenVars, recent>>

-----------------------------------------------------------------------------
(* Ending.                                                                 *)

\* finished_at of a scheduled or triggered run restarts the interval.
Remember(r) == recent' = IF kind[r] \in Timed THEN recent \cup {r} ELSE recent

Complete(r) ==
    /\ SetRow(r, "completed", row[r].total, counts[r].ok, counts[r].bad)
    /\ Remember(r)

\* The streams and the task finish their row with the lock still held.
Finish(r) ==
    /\ pc[r] = "loop" /\ todo[r] = {} /\ kind[r] # "retry_failed"
    /\ Complete(r)
    /\ Goto(r, "release")
    /\ UNCHANGED <<runVars, lockVars, dbVars, tokenVars>>

LeaveRetry(r) ==
    /\ pc[r] = "loop" /\ todo[r] = {} /\ kind[r] = "retry_failed"
    /\ Goto(r, "release")
    /\ UNCHANGED <<runVars, row, lockVars, dbVars, tokenVars, recent>>

FinishRetry(r) ==
    /\ pc[r] = "finish"
    /\ Complete(r) \/ UNCHANGED <<row, recent>>
    /\ Goto(r, "done")
    /\ UNCHANGED <<runVars, lockVars, dbVars, tokenVars>>

\* Mutant: the `except` also catches what follows finish_refresh_run.
RaiseAfterFinish(r) ==
    /\ pc[r] \in {"loop", "release"} /\ kind[r] # "retry_failed"
    /\ SetRow(r, "failed", 0, 0, 0)
    /\ Remember(r)
    /\ Goto(r, "release")
    /\ UNCHANGED <<runVars, lockVars, dbVars, tokenVars>>

\* An exception before the lock, in the loop or in finish_refresh_run: the
\* manual trigger keeps the totals it reached, the other two write zeros;
\* `finally` releases the lock if it was acquired.  Writing 'failed' may itself
\* fail.  The retry guards every step of its loop.
Raise(r) ==
    /\ pc[r] \in {"gate", "load", "lock", "loop"} /\ kind[r] # "retry_failed"
    /\ \/ /\ IF kind[r] = "scheduled_manual"
                THEN SetRow(r, "failed", row[r].total, counts[r].ok, counts[r].bad)
                ELSE SetRow(r, "failed", 0, 0, 0)
          /\ Remember(r)
       \/ UNCHANGED <<row, recent>>
    /\ Goto(r, IF pc[r] = "loop" THEN "release" ELSE "done")
    /\ UNCHANGED <<runVars, lockVars, dbVars, tokenVars>>

\* The reader of the event stream goes away: GeneratorExit at a yield is no
\* Exception, so only `finally` runs.
Disconnect(r) ==
    /\ kind[r] \in Streams
    /\ pc[r] = "loop"
    /\ Goto(r, "release")
    /\ UNCHANGED <<runVars, row, lockVars, dbVars, tokenVars, recent>>

\* The process dies with every run and request in it; rows and lock stay as
\* they are.
Crash ==
    /\ \E r \in Runs : pc[r] \notin {"idle", "done", "dead"}
    /\ pc' = [r \in Runs |-> IF pc[r] \in {"idle", "done"} THEN pc[r] ELSE "dead"]
    /\ other' = [t \in Others |-> NoErrand]
    /\ UNCHANGED <<runVars, row, lockVars, dbVars, issued, edits, touched, recent>>

-----------------------------------------------------------------------------
(* What goes on around the runs.                                           *)

\* A request takes something in hand, or is through with it.
Hold(t, step, a, ok, token) ==
    other' = [other EXCEPT ![t] = [step |-> step, account |-> a, ok |-> ok, token |-> token]]
PutDown(t) == other' = [other EXCEPT ![t] = NoErrand]

\* A request refreshes one account (api_refresh_account, its retry) or reads its
\* mail through Graph: like CallUpstream, but without the lock.
AskAlone(t, a) ==
    /\ other[t].step = "none"
    /\ \/ \E ok \in BOOLEAN : Hold(t, "answer", a, ok, 0) /\ UNCHANGED issued
       \/ /\ issued < 1 + MaxRotations + edits
          /\ issued' = issued + 1
          /\ Hold(t, "answer", a, TRUE, issued + 1)
    /\ UNCHANGED <<pc, runVars, row, lockVars, dbVars, edits, touched, recent>>

\* The refresh of one account writes its log line in a transaction of its own;
\* reading mail writes none.
LogAlone(t) ==
    LET x == other[t] IN
    /\ x.step = "answer"
    /\ LogLine(x.account, x.ok)
    /\ Hold(t, "logged", x.account, x.ok, x.token)
    /\ UNCHANGED <<pc, runVars, row, lockVars, stored, issued, edits, touched, recent>>

\* UPDATE accounts SET refresh_token = ? WHERE id = ?, whatever is there by now.
WriteAlone(a, token) ==
    /\ stored' = [stored EXCEPT ![a] = token]
    /\ touched' = touched \cup {a}

\* The new token, if there is one, is stored; an error in that is swallowed.
StoreAlone(t) ==
    LET x == other[t] IN
    /\ x.step \in {"answer", "logged"}
    /\ \/ x.token # 0 /\ WriteAlone(x.account, x.token)
       \/ UNCHANGED <<stored, touched>>
    /\ PutDown(t)
    /\ UNCHANGED <<pc, runVars, row, lockVars, lastLog, issued, edits, recent>>

\* update_account: the secrets are read first ...
ReadForEdit(t, a) ==
    /\ other[t].step = "none"
    /\ Hold(t, "edit", a, TRUE, stored[a])
    /\ UNCHANGED <<pc, runVars, row, lockVars, dbVars, issued, edits, touched, recent>>

\* ... and written later: the token that was read, or another one typed in by
\* the administrator (an import that overwrites the account writes one too).
\* The edit may be refused or fail.
WriteEdit(t) ==
    LET x == other[t] IN
    /\ x.step = "edit"
    /\ \/ WriteAlone(x.account, x.token) /\ UNCHANGED <<issued, edits>>
       \/ /\ edits < MaxEdits
          /\ edits' = edits + 1
          /\ issued' = issued + 1
          /\ WriteAlone(x.account, issued + 1)
       \/ UNCHANGED <<stored, touched, issued, edits>>
    /\ PutDown(t)
    /\ UNCHANGED <<pc, runVars, row, lockVars, lastLog, recent>>

Outside(t) ==
    \/ \E a \in Accounts : AskAlone(t, a) \/ ReadForEdit(t, a)
    \/ LogAlone(t) \/ StoreAlone(t) \/ WriteEdit(t)

IntervalElapses ==
    /\ recent # {}
    /\ recent' = {}
    /\ UNCHANGED <<pc, runVars, row, lockVars, dbVars, tokenVars>>

Step(r) ==
    \/ StartAll(r) \/ StartTrigger(r) \/ StartScheduled(r) \/ StartRetry(r)
    \/ Gate(r) \/ LoadScheduled(r) \/ Acquire(r) \/ Conflict(r) \/ Release(r)
    \/ \E a \in Accounts : DecryptFails(r, a) \/ CallUpstream(r, a)
    \/ Save(r) \/ LogRetry(r) \/ SaveRetry(r)
    \/ Finish(r) \/ LeaveRetry(r) \/ FinishRetry(r)

Next ==
    \/ \E r \in Runs : Step(r) \/ Raise(r) \/ Disconnect(r)
    \/ \E t \in Others : Outside(t)
    \/ LockExpires \/ IntervalElapses \/ Crash

Spec == Init /\ [][Next]_vars

\* A run that started is carried on by its thread, and the clock runs.
FairSpec == Spec /\ (\A r \in Runs : WF_vars(pc[r] # "idle" /\ Step(r)))
                 /\ WF_vars(LockExpires)

-----------------------------------------------------------------------------
(* Properties.                                                             *)

Critical == {"loop", "reply", "logged"}
Working(r) == pc[r] \in Critical

\* Two runs never refresh accounts at the same time: the lock row keeps them
\* apart unless a run has outlasted its TTL.
NoConcurrentRefresh ==
    overruns = 0 => \A q, r \in Runs : Working(q) /\ Working(r) => q = r

\* A completed run accounts for every account it loaded, whatever failed to
\* decrypt, to refresh or to be stored.
CompletedAddsUp ==
    \A r \in Runs : row[r].status = "completed" => row[r].ok + row[r].bad = row[r].total

\* A run has one outcome: a finished or skipped row is never finished again.
OutcomeIsFinal ==
    [][\A r \in Runs : row[r].status \in Ended => row'[r] = row[r]]_vars

\* While no run has outlasted the TTL, a run never puts an older token in the
\* place of a newer one, unless a request outside the runs wrote that account's
\* token while the run's answer was on its way: the runs do not overtake one
\* another, whichever kinds they are.  Requests that write back what they read, or
\* store an answer late, do make a stored token go back.
TokenNeverGoesBack ==
    [][\A r \in Runs : pc[r] \in {"reply", "logged"} /\ pc'[r] = "loop" /\ overruns = 0 =>
         \A a \in Accounts \ touched : stored'[a] >= stored[a]]_vars

\* The lock comes back: a run that ends, raises, loses its reader or dies with
\* the process does not keep the lock for ever.
LockComesBack == \A r \in Runs : (lock = r) ~> (lock # r \/ expired)

\* What the runs promise, as an abstract specification: how far a run is stands
\* in its program counter, how it ended in its row.
Stage == [p \in Phases |->
    IF p = "idle" THEN "before"
    ELSE IF p \in {"gate", "load", "lock"} THEN "waiting"
    ELSE IF p \in Critical THEN "working"
    ELSE IF p \in {"release", "finish"} THEN "leaving"
    ELSE "over"]

Ledger == INSTANCE RefreshLedger WITH
    at <- [r \in Runs |-> Stage[pc[r]]], outcome <- [r \in Runs |-> row[r].status],
    left <- todo, late <- overruns > 0

RefreshLedgerSpec == Ledger!Spec
=============================================================================

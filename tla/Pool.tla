-------------------------------- MODULE Pool --------------------------------
(***************************************************************************)
(* The mailbox pool: the rows of `accounts` that external callers claim,   *)
(* read, release and complete, the maintenance jobs that expire leases and *)
(* end cooldowns, and the administrator's edits.                           *)
(*                                                                         *)
(* release_claim and complete_claim read the row, compare it with the      *)
(* request and only then open the transaction that writes it, so each is   *)
(* two steps here: Check... puts the request in `checked`, Commit... takes *)
(* it out.  expire_stale_claims likewise selects its victims first         *)
(* (`sweep`) and writes them one transaction at a time.  A claim is one    *)
(* transaction, so one step.                                               *)
(*                                                                         *)
(* Clock time is reduced to what the comparisons can tell: `overdue` holds *)
(* the tokens whose lease_expires_at has passed, `rested` the accounts     *)
(* whose updated_at has fallen behind the cooldown cutoff.  How long that  *)
(* takes is the subject of PoolCooldown.                                   *)
(***************************************************************************)
EXTENDS Naturals, Sequences, FiniteSets

CONSTANTS Accounts,   \* row ids of the table accounts
          Callers,    \* caller_id values (a task id is part of each claim)
          Projects,   \* project_key values
          NoProject,  \* the request carries no project_key
          NoCaller,   \* claimed_by IS NULL
          Results,    \* the results callers report, of those the API accepts
          Workers,    \* server threads that handle requests
          MaxClaims,  \* bound: claims granted in a behaviour
          MaxReads    \* bound: reads logged in a behaviour

RESULT_TO_POOL_STATUS ==
    [success |-> "used", verification_timeout |-> "cooldown",
     provider_blocked |-> "frozen", credential_invalid |-> "retired",
     network_error |-> "available"]

ASSUME PoolAssumption ==
    /\ NoProject \notin Projects
    /\ NoCaller \notin Callers
    /\ Results \subseteq DOMAIN RESULT_TO_POOL_STATUS
    /\ MaxClaims \in Nat
    /\ MaxReads \in Nat

VARIABLES poolStatus,   \* accounts.pool_status; "absent" and "deleted": no row
          active,       \* accounts with accounts.status = 'active'
          claimToken,   \* accounts.claim_token
          claimedBy,    \* accounts.claimed_by
          overdue,      \* tokens whose lease_expires_at < now
          rested,       \* accounts whose updated_at < now - cooldown
          successCount, \* accounts.success_count
          failCount,    \* accounts.fail_count
          usage,        \* account_project_usage
          log,          \* account_claim_logs, in order of insertion
          granted,      \* history: the claims answered; the i-th has token i
          checked,      \* requests that passed their checks, not yet written
          sweep         \* rows read by the expiry job, not yet written

rowVars == <<poolStatus, claimToken, claimedBy, rested>>
adminVars == <<active>>
countVars == <<successCount, failCount>>
claimVars == <<usage, granted>>
vars == <<rowVars, adminVars, overdue, countVars, claimVars, log, checked, sweep>>

NoToken == 0
Tokens == 1 .. MaxClaims

NoRow == {"absent", "deleted"}
PoolStatuses == {"available", "claimed", "used", "cooldown", "frozen", "retired"}
Statuses == NoRow \cup {"outside"} \cup PoolStatuses
Closings == {"release", "complete", "expire"}

Requests == [worker : Workers, op : {"release", "complete", "read"},
             account : Accounts, token : Tokens, caller : Callers,
             result : Results \cup {"none"}]
Victims == [account : Accounts, token : Tokens, caller : Callers]
Entries == [account : Accounts, token : Tokens, caller : Callers,
            action : Closings \cup {"claim", "read"},
            result : Results \cup {"none"}]
Grants == [account : Accounts, caller : Callers, project : Projects \cup {NoProject}]

TypeOK ==
    /\ poolStatus \in [Accounts -> Statuses]
    /\ active \subseteq Accounts
    /\ claimToken \in [Accounts -> Tokens \cup {NoToken}]
    /\ claimedBy \in [Accounts -> Callers \cup {NoCaller}]
    /\ overdue \subseteq Tokens
    /\ rested \subseteq Accounts
    /\ successCount \in [Accounts -> Nat]
    /\ failCount \in [Accounts -> Nat]
    /\ usage \subseteq Accounts \X Callers \X Projects
    /\ log \in Seq(Entries)
    /\ granted \in Seq(Grants)
    /\ checked \subseteq Requests
    /\ sweep \subseteq Victims

-----------------------------------------------------------------------------

Init ==
    /\ poolStatus \in [Accounts -> {"absent", "outside", "available"}]
    /\ active = Accounts
    /\ claimToken = [a \in Accounts |-> NoToken]
    /\ claimedBy = [a \in Accounts |-> NoCaller]
    /\ overdue = {}
    /\ rested = {}
    /\ successCount = [a \in Accounts |-> 0]
    /\ failCount = [a \in Accounts |-> 0]
    /\ usage = {}
    /\ log = <<>>
    /\ granted = <<>>
    /\ checked = {}
    /\ sweep = {}

\* Append a line to account_claim_logs.
Record(a, t, c, action, result) ==
    log' = Append(log, [account |-> a, token |-> t, caller |-> c,
                        action |-> action, result |-> result])

\* Mutant: the token stays on the row.
UnclaimKeepingToken(a, status) ==
    /\ poolStatus' = [poolStatus EXCEPT ![a] = status]
    /\ claimedBy' = [claimedBy EXCEPT ![a] = NoCaller]
    /\ rested' = rested \ {a}
    /\ UNCHANGED claimToken

\* End whatever claim the row holds: every writer but the claim itself sets
\* the same columns, and none of them looks at the row again (WHERE id = ?).
Unclaim(a, status) ==
    /\ poolStatus' = [poolStatus EXCEPT ![a] = status]
    /\ claimToken' = [claimToken EXCEPT ![a] = NoToken]
    /\ claimedBy' = [claimedBy EXCEPT ![a] = NoCaller]
    /\ rested' = rested \ {a}

-----------------------------------------------------------------------------
(* The administrator: adding, editing, deleting an account.                *)

AddAccount(a) ==
    /\ poolStatus[a] = "absent"
    /\ \E s \in {"available", "outside"} : poolStatus' = [poolStatus EXCEPT ![a] = s]
    /\ UNCHANGED <<claimToken, claimedBy, rested, active, overdue, countVars,
                   claimVars, log, checked, sweep>>

\* Any edit, status change or credential refresh: updated_at = CURRENT_TIMESTAMP.
EditAccount(a) ==
    /\ poolStatus[a] \notin NoRow
    /\ active' \in {active \cup {a}, active \ {a}}
    /\ rested' = rested \ {a}
    /\ UNCHANGED <<poolStatus, claimToken, claimedBy, overdue, countVars,
                   claimVars, log, checked, sweep>>

\* Mutant: foreign keys are off, as they are in SQLite unless asked for.
ReferencedByNothing(a) == FALSE

\* account_claim_logs and account_project_usage reference the row without
\* ON DELETE CASCADE, so the DELETE fails once either mentions it.
Referenced(a) == \/ \E i \in DOMAIN log : log[i].account = a
                 \/ \E u \in usage : u[1] = a

DeleteAccount(a) ==
    /\ poolStatus[a] \notin NoRow
    /\ ~Referenced(a)
    /\ poolStatus' = [poolStatus EXCEPT ![a] = "deleted"]
    /\ UNCHANGED <<claimToken, claimedBy, rested, active, overdue, countVars,
                   claimVars, log, checked, sweep>>

-----------------------------------------------------------------------------
(* Claiming: one BEGIN IMMEDIATE transaction.                              *)

\* Mutant: the usage table is not consulted.
ClaimableUnfiltered(c, p) == {a \in active : poolStatus[a] = "available"}

\* Mutant: pool_status is not compared.
ClaimableTwice(c, p) ==
    {a \in active : /\ poolStatus[a] \in {"available", "claimed"}
                    /\ <<a, c, p>> \notin usage}

\* The provider and domain filters pick a subset of these rows; the random
\* choice in ClaimRandom covers every subset.
Claimable(c, p) ==
    {a \in Accounts : /\ poolStatus[a] = "available"
                      /\ a \in active
                      /\ <<a, c, p>> \notin usage}

ClaimRandom(c, p) ==
    /\ Len(granted) < MaxClaims
    /\ \E a \in Claimable(c, p) :
         LET t == Len(granted) + 1 IN
         /\ poolStatus' = [poolStatus EXCEPT ![a] = "claimed"]
         /\ claimToken' = [claimToken EXCEPT ![a] = t]
         /\ claimedBy' = [claimedBy EXCEPT ![a] = c]
         /\ rested' = rested \ {a}
         /\ granted' = Append(granted, [account |-> a, caller |-> c, project |-> p])
         /\ usage' = IF p = NoProject THEN usage ELSE usage \cup {<<a, c, p>>}
         /\ Record(a, t, c, "claim", "none")
    /\ UNCHANGED <<active, overdue, countVars, checked, sweep>>

-----------------------------------------------------------------------------
(* Requests about a claim: check the row, then write it.                   *)

Busy(w) == \E r \in checked : r.worker = w

\* Mutant: claimed_by is not compared.
HoldsForAnybody(a, t, c) == poolStatus[a] = "claimed" /\ claimToken[a] = t

\* A request that fails one of these is answered 403 or 409 and changes nothing.
Holds(a, t, c) == poolStatus[a] = "claimed" /\ claimToken[a] = t /\ claimedBy[a] = c

Admit(w, op, a, t, c, result) ==
    /\ ~Busy(w)
    /\ checked' = checked \cup
         {[worker |-> w, op |-> op, account |-> a, token |-> t, caller |-> c,
           result |-> result]}
    /\ UNCHANGED <<rowVars, active, overdue, countVars, claimVars, log, sweep>>

CheckRelease(w, a, t, c) == Holds(a, t, c) /\ Admit(w, "release", a, t, c, "none")

CheckComplete(w, a, t, c, result) ==
    Holds(a, t, c) /\ Admit(w, "complete", a, t, c, result)

\* Mutant: the log line is forgotten.
CommitReleaseUnlogged(r) ==
    /\ r.op = "release"
    /\ Unclaim(r.account, "available")
    /\ checked' = checked \ {r}
    /\ UNCHANGED <<active, overdue, countVars, claimVars, log, sweep>>

CommitRelease(r) ==
    /\ r.op = "release"
    /\ Unclaim(r.account, "available")
    /\ Record(r.account, r.token, r.caller, "release", "none")
    /\ checked' = checked \ {r}
    /\ UNCHANGED <<active, overdue, countVars, claimVars, sweep>>

CommitComplete(r) ==
    /\ r.op = "complete"
    /\ Unclaim(r.account, RESULT_TO_POOL_STATUS[r.result])
    /\ IF r.result = "success"
         THEN /\ successCount' = [successCount EXCEPT ![r.account] = @ + 1]
              /\ UNCHANGED failCount
         ELSE /\ failCount' = [failCount EXCEPT ![r.account] = @ + 1]
              /\ UNCHANGED successCount
    /\ Record(r.account, r.token, r.caller, "complete", r.result)
    /\ checked' = checked \ {r}
    /\ UNCHANGED <<active, overdue, claimVars, sweep>>

\* record_claim_read_context: a mail read that names its claim is logged on
\* the account that holds the token, in a transaction of its own, under the
\* name of whoever reads.
CheckRead(w, a, t, c) ==
    /\ Cardinality({i \in DOMAIN log : log[i].action = "read"})
         + Cardinality({r \in checked : r.op = "read"}) < MaxReads
    /\ claimToken[a] = t
    /\ Admit(w, "read", a, t, c, "none")

CommitRead(r) ==
    /\ r.op = "read"
    /\ Record(r.account, r.token, r.caller, "read", "none")
    /\ checked' = checked \ {r}
    /\ UNCHANGED <<rowVars, active, overdue, countVars, claimVars, sweep>>

-----------------------------------------------------------------------------
(* The maintenance jobs (one instance each) and the clock.                 *)

\* Mutant: a row without a lease counts as expired.
ExpiredWithoutLease(a) ==
    poolStatus[a] \notin NoRow /\ claimToken[a] \in overdue \cup {NoToken}

\* Mutant: the job looks at active accounts only.
ExpiredIfActive(a) ==
    poolStatus[a] = "claimed" /\ claimToken[a] \in overdue /\ a \in active

Expired(a) == poolStatus[a] = "claimed" /\ claimToken[a] \in overdue

SweepSelect ==
    /\ sweep = {}
    /\ \E a \in Accounts : Expired(a)
    /\ sweep' = {[account |-> a, token |-> claimToken[a], caller |-> claimedBy[a]] :
                    a \in {b \in Accounts : Expired(b)}}
    /\ UNCHANGED <<rowVars, active, overdue, countVars, claimVars, log, checked>>

\* Mutant: an expiry is not counted as a failure.
SweepExpireUncounted(v) ==
    /\ Unclaim(v.account, "cooldown")
    /\ Record(v.account, v.token, v.caller, "expire", "none")
    /\ sweep' = sweep \ {v}
    /\ UNCHANGED <<active, overdue, countVars, claimVars, checked>>

SweepExpire(v) ==
    /\ Unclaim(v.account, "cooldown")
    /\ failCount' = [failCount EXCEPT ![v.account] = @ + 1]
    /\ Record(v.account, v.token, v.caller, "expire", "none")
    /\ sweep' = sweep \ {v}
    /\ UNCHANGED <<active, overdue, successCount, claimVars, checked>>

RecoverCooldown ==
    LET due == {a \in rested : poolStatus[a] = "cooldown"} IN
    /\ due # {}
    /\ poolStatus' = [a \in Accounts |-> IF a \in due THEN "available" ELSE poolStatus[a]]
    /\ rested' = rested \ due
    /\ UNCHANGED <<claimToken, claimedBy, active, overdue, countVars, claimVars,
                   log, checked, sweep>>

\* lease_expires_at of a granted token passes.
LeaseElapses(t) ==
    /\ t \in (DOMAIN granted) \ overdue
    /\ overdue' = overdue \cup {t}
    /\ UNCHANGED <<rowVars, active, countVars, claimVars, log, checked, sweep>>

\* updated_at falls behind the cutoff; only a row in cooldown is ever asked.
CooldownElapses(a) ==
    /\ a \notin rested
    /\ poolStatus[a] = "cooldown"
    /\ rested' = rested \cup {a}
    /\ UNCHANGED <<poolStatus, claimToken, claimedBy, active, overdue, countVars,
                   claimVars, log, checked, sweep>>

\* The process dies: requests and the sweep in progress are gone, what was
\* committed stays.
Restart ==
    /\ checked \cup sweep # {}
    /\ checked' = {}
    /\ sweep' = {}
    /\ UNCHANGED <<rowVars, active, overdue, countVars, claimVars, log>>

-----------------------------------------------------------------------------
(* The whole.                                                              *)

Admin == \E a \in Accounts : AddAccount(a) \/ EditAccount(a) \/ DeleteAccount(a)

Claim == \E c \in Callers, p \in Projects \cup {NoProject} : ClaimRandom(c, p)

Check == \E w \in Workers, a \in Accounts, t \in Tokens, c \in Callers :
            \/ CheckRelease(w, a, t, c)
            \/ \E result \in Results : CheckComplete(w, a, t, c, result)
            \/ CheckRead(w, a, t, c)

Commit == \E r \in checked : CommitRelease(r) \/ CommitComplete(r) \/ CommitRead(r)

Expire == \E v \in sweep : SweepExpire(v)

Clock == \/ \E t \in Tokens : LeaseElapses(t)
         \/ \E a \in Accounts : CooldownElapses(a)

Next == Admin \/ Claim \/ Check \/ Commit
          \/ SweepSelect \/ Expire \/ RecoverCooldown \/ Clock \/ Restart

Spec == Init /\ [][Next]_vars

\* The clock runs and the scheduler keeps calling the jobs.  Requests carry
\* no fairness: a caller may never come back.
Fairness == /\ \A t \in Tokens : WF_vars(LeaseElapses(t))
            /\ WF_vars(SweepSelect)
            /\ SF_vars(Expire)

FairSpec == Spec /\ Fairness

-----------------------------------------------------------------------------
(* Properties.                                                             *)

Projected(g) == g.project # NoProject

\* No two claims give the same caller the same mailbox for the same project,
\* whatever was released, completed, expired, raced or restarted between them
\* (account_project_usage is written by the claim itself and never erased).
ProjectExclusive ==
    \A i, j \in DOMAIN granted :
        i # j /\ Projected(granted[i]) => granted[i] # granted[j]

\* A row is 'claimed' exactly when it carries a token, and then the token is
\* the latest one granted on that row and claimed_by the caller it went to.
HolderIsLatestGrant ==
    \A a \in Accounts :
        LET t == claimToken[a] IN
        /\ poolStatus[a] = "claimed" <=> t # NoToken
        /\ t # NoToken =>
             /\ t \in DOMAIN granted
             /\ granted[t].account = a
             /\ granted[t].caller = claimedBy[a]
             /\ \A i \in DOMAIN granted : granted[i].account = a => i <= t

\* Every transaction still to be written names a row that exists: the foreign
\* keys of the claim log and of the usage table keep the account from being
\* deleted between the check and the write.
WritesFindTheirRow ==
    \A x \in {r.account : r \in checked} \cup {v.account : v \in sweep} :
        poolStatus[x] \notin NoRow

\* A line of the claim log that is not a claim follows the claim with its
\* token, on the same account; a release, completion or expiry also carries
\* the caller the claim was granted to, even when it lands on a row that has
\* changed hands since.
LogFollowsClaim ==
    \A i \in DOMAIN log : log[i].action # "claim" =>
        \E j \in 1 .. i - 1 :
            /\ log[j].action = "claim"
            /\ log[j].token = log[i].token
            /\ log[j].account = log[i].account
            /\ log[i].action \in Closings => log[j].caller = log[i].caller

Lines(a, actions) == {i \in DOMAIN log : log[i].account = a /\ log[i].action \in actions}

\* The counters on the row are what the log adds up to: success_count its
\* successful completions, fail_count its other completions and expiries.
CountersMatchLog ==
    \A a \in Accounts :
        LET won == {i \in Lines(a, {"complete"}) : log[i].result = "success"} IN
        /\ successCount[a] = Cardinality(won)
        /\ failCount[a] = Cardinality(Lines(a, {"complete", "expire"}) \ won)

\* Per account, at most one claim is without a closing line in the log, and
\* only while the row is claimed.
ClaimsAreClosed ==
    \A a \in Accounts :
        Cardinality(Lines(a, {"claim"})) <=
            Cardinality(Lines(a, Closings)) + (IF poolStatus[a] = "claimed" THEN 1 ELSE 0)

\* A claim its caller may still rely on: granted, lease not over, and nothing
\* sent to end it.
Live(t) == /\ t \in (DOMAIN granted) \ overdue
           /\ \A r \in checked : r.token = t => r.op = "read"
           /\ \A i \in DOMAIN log : log[i].token = t => log[i].action \notin Closings

\* Two callers never rely on the same mailbox at once.  The code breaks it
\* when the same release is sent twice and a claim falls in between.
NoDoubleHold ==
    \A t, u \in DOMAIN granted :
        Live(t) /\ Live(u) /\ granted[t].account = granted[u].account => t = u

\* A claim does not outlive its lease for ever: its caller ends it, or the
\* expiry job does, even across restarts.
ClaimEnds ==
    \A a \in Accounts, t \in Tokens : (claimToken[a] = t) ~> (claimToken[a] # t)

\* The promise to the callers, as an abstract specification.
Ledger == INSTANCE PoolLedger WITH grants <- granted, holder <- claimToken

LedgerSpec == Ledger!Spec
=============================================================================

----------------------------- MODULE PoolProofs -----------------------------
(***************************************************************************)
(* Proofs about Pool, for any sets of accounts, callers, projects, results *)
(* and workers: the inductive invariant IInv, and from it the type         *)
(* invariant, the safety invariants of the pool and that it implements     *)
(* PoolLedger.                                                             *)
(***************************************************************************)
EXTENDS Pool, SequenceTheorems, FiniteSetTheorems, TLAPS

-----------------------------------------------------------------------------
(* The inductive invariant.                                                *)

\* A completion in flight carries a result the API accepts.
CompletionsHaveResults == \A r \in checked : r.op = "complete" => r.result \in Results

\* Every claim left its line in the log, so the foreign key holds its row.
ClaimLine(i) == [account |-> granted[i].account, token |-> i,
                 caller |-> granted[i].caller, action |-> "claim", result |-> "none"]
GrantsAreLogged == \A i \in DOMAIN granted : \E j \in DOMAIN log : log[j] = ClaimLine(i)

\* What is still to be written is about a claim that was granted: on that
\* account and, when it closes the claim, to that caller.
MatchesGrant(x) == /\ x.token \in DOMAIN granted
                   /\ granted[x.token].account = x.account
RequestsMatchGrants ==
    \A r \in checked :
        /\ MatchesGrant(r)
        /\ r.op \in Closings => granted[r.token].caller = r.caller
VictimsMatchGrants ==
    \A v \in sweep : MatchesGrant(v) /\ granted[v.token].caller = v.caller

\* A projected claim is in the usage table, which is never erased.
UsageCoversGrants ==
    \A i \in DOMAIN granted : Projected(granted[i]) =>
        <<granted[i].account, granted[i].caller, granted[i].project>> \in usage

IInv == /\ TypeOK
        /\ CompletionsHaveResults
        /\ HolderIsLatestGrant
        /\ GrantsAreLogged
        /\ RequestsMatchGrants
        /\ VictimsMatchGrants
        /\ UsageCoversGrants
        /\ ProjectExclusive
        /\ WritesFindTheirRow
        /\ LogFollowsClaim

-----------------------------------------------------------------------------
(* Type correctness.                                                       *)

\* Every result the API accepts leads to a pool status other than 'claimed'.
LEMMA ResultStatuses ==
    \A result \in Results :
        RESULT_TO_POOL_STATUS[result] \in {"used", "cooldown", "frozen", "retired", "available"}
BY PoolAssumption DEF PoolAssumption, RESULT_TO_POOL_STATUS

\* A row under a claim has a token that was granted, and a caller.
LEMMA HeldRow ==
    ASSUME TypeOK, HolderIsLatestGrant, NEW a \in Accounts,
           claimToken[a] # NoToken
    PROVE  /\ poolStatus[a] = "claimed"
           /\ claimToken[a] \in Tokens
           /\ claimToken[a] \in DOMAIN granted
           /\ granted[claimToken[a]].account = a
           /\ claimedBy[a] = granted[claimToken[a]].caller
           /\ claimedBy[a] \in Callers
<1>1. /\ poolStatus[a] = "claimed"
      /\ claimToken[a] \in DOMAIN granted
      /\ granted[claimToken[a]].account = a
      /\ claimedBy[a] = granted[claimToken[a]].caller
  BY DEF HolderIsLatestGrant
<1>2. claimToken[a] \in Tokens
  BY DEF TypeOK
<1>3. granted[claimToken[a]] \in Grants
  BY <1>1, ElementOfSeq DEF TypeOK
<1> QED
  BY <1>1, <1>2, <1>3 DEF Grants

\* What a log line does to the log.
LEMMA RecordType ==
    ASSUME log \in Seq(Entries), NEW a \in Accounts, NEW t \in Tokens, NEW c \in Callers,
           NEW action \in Closings \cup {"claim", "read"}, NEW result \in Results \cup {"none"},
           Record(a, t, c, action, result)
    PROVE  log' \in Seq(Entries)
<1>1. [account |-> a, token |-> t, caller |-> c, action |-> action, result |-> result]
        \in Entries
  BY DEF Entries
<1> QED
  BY <1>1, AppendProperties DEF Record

\* A fresh database has the right types.
LEMMA TypeInit == Init => TypeOK
BY DEF Init, TypeOK, Statuses, PoolStatuses, NoRow, Tokens, NoToken

\* Ending a claim keeps the columns of the row in their types.
LEMMA UnclaimType ==
    ASSUME TypeOK, NEW a \in Accounts, NEW status \in PoolStatuses, Unclaim(a, status)
    PROVE  /\ poolStatus' \in [Accounts -> Statuses]
           /\ claimToken' \in [Accounts -> Tokens \cup {NoToken}]
           /\ claimedBy' \in [Accounts -> Callers \cup {NoCaller}]
           /\ rested' \subseteq Accounts
BY DEF TypeOK, Unclaim, Statuses

\* Every step keeps the types; a sweep takes its callers from held rows.
LEMMA TypeStep == TypeOK /\ CompletionsHaveResults /\ HolderIsLatestGrant /\ [Next]_vars => TypeOK'
<1> SUFFICES ASSUME TypeOK, CompletionsHaveResults, HolderIsLatestGrant, [Next]_vars
             PROVE  TypeOK'
  OBVIOUS
<1> USE DEF rowVars, adminVars, countVars, claimVars
<1>1. ASSUME NEW a \in Accounts, AddAccount(a) \/ EditAccount(a) \/ DeleteAccount(a)
      PROVE  TypeOK'
  <2>1. CASE AddAccount(a)
    BY <2>1 DEF TypeOK, AddAccount, Statuses, PoolStatuses
  <2>2. CASE EditAccount(a)
    BY <2>2 DEF TypeOK, EditAccount
  <2>3. CASE DeleteAccount(a)
    BY <2>3 DEF TypeOK, DeleteAccount, Statuses, NoRow
  <2> QED
    BY <1>1, <2>1, <2>2, <2>3
<1>2. ASSUME NEW c \in Callers, NEW p \in Projects \cup {NoProject}, ClaimRandom(c, p)
      PROVE  TypeOK'
  <2>1. PICK a \in Accounts :
          LET t == Len(granted) + 1 IN
          /\ poolStatus' = [poolStatus EXCEPT ![a] = "claimed"]
          /\ claimToken' = [claimToken EXCEPT ![a] = t]
          /\ claimedBy' = [claimedBy EXCEPT ![a] = c]
          /\ rested' = rested \ {a}
          /\ granted' = Append(granted, [account |-> a, caller |-> c, project |-> p])
          /\ usage' = IF p = NoProject THEN usage ELSE usage \cup {<<a, c, p>>}
          /\ Record(a, t, c, "claim", "none")
    BY <1>2 DEF ClaimRandom, Claimable
  <2>2. Len(granted) \in Nat /\ Len(granted) + 1 \in Tokens
    BY <1>2, PoolAssumption, LenProperties DEF TypeOK, ClaimRandom, Tokens, PoolAssumption
  <2>3. log' \in Seq(Entries)
    BY <2>1, <2>2, RecordType DEF TypeOK
  <2>4. granted' \in Seq(Grants)
    <3>1. [account |-> a, caller |-> c, project |-> p] \in Grants
      BY DEF Grants
    <3> QED
      BY <2>1, <3>1, AppendProperties DEF TypeOK
  <2>5. usage' \subseteq Accounts \X Callers \X Projects
    BY <2>1 DEF TypeOK
  <2>6. /\ poolStatus' \in [Accounts -> Statuses]
        /\ claimToken' \in [Accounts -> Tokens \cup {NoToken}]
        /\ claimedBy' \in [Accounts -> Callers \cup {NoCaller}]
        /\ rested' \subseteq Accounts
    BY <2>1, <2>2 DEF TypeOK, Statuses, PoolStatuses
  <2> QED
    BY <1>2, <2>3, <2>4, <2>5, <2>6 DEF TypeOK, ClaimRandom
<1>3. ASSUME NEW w \in Workers, NEW a \in Accounts, NEW t \in Tokens, NEW c \in Callers,
             \/ CheckRelease(w, a, t, c)
             \/ \E result \in Results : CheckComplete(w, a, t, c, result)
             \/ CheckRead(w, a, t, c)
      PROVE  TypeOK'
  <2>1. PICK op \in {"release", "complete", "read"}, result \in Results \cup {"none"} :
          Admit(w, op, a, t, c, result)
    BY <1>3 DEF CheckRelease, CheckComplete, CheckRead
  <2>2. [worker |-> w, op |-> op, account |-> a, token |-> t, caller |-> c,
         result |-> result] \in Requests
    BY DEF Requests
  <2>3. checked' \subseteq Requests
    BY <2>1, <2>2 DEF TypeOK, Admit
  <2> QED
    BY <2>1, <2>3 DEF TypeOK, Admit
<1>4. ASSUME NEW r \in checked, CommitRelease(r) \/ CommitComplete(r) \/ CommitRead(r)
      PROVE  TypeOK'
  <2>1. /\ r.account \in Accounts /\ r.token \in Tokens /\ r.caller \in Callers
        /\ r.result \in Results \cup {"none"}
    BY DEF TypeOK, Requests
  <2>2. checked' \subseteq Requests
    BY <1>4 DEF TypeOK, CommitRelease, CommitComplete, CommitRead
  <2>3. CASE CommitRelease(r)
    <3>1. log' \in Seq(Entries)
      BY <2>1, <2>3, RecordType DEF TypeOK, CommitRelease, Closings
    <3> QED
      BY <2>1, <2>2, <2>3, <3>1, UnclaimType DEF TypeOK, CommitRelease, PoolStatuses
  <2>4. CASE CommitComplete(r)
    <3>1. log' \in Seq(Entries)
      BY <2>1, <2>4, RecordType DEF TypeOK, CommitComplete, Closings
    <3>2. RESULT_TO_POOL_STATUS[r.result] \in PoolStatuses
      BY <2>4, ResultStatuses DEF CommitComplete, CompletionsHaveResults, PoolStatuses
    <3>3. successCount' \in [Accounts -> Nat] /\ failCount' \in [Accounts -> Nat]
      <4>1. ASSUME NEW f \in [Accounts -> Nat]
            PROVE  [f EXCEPT ![r.account] = @ + 1] \in [Accounts -> Nat]
        BY <2>1
      <4>2. \/ UNCHANGED successCount
            \/ successCount' = [successCount EXCEPT ![r.account] = @ + 1]
        BY <2>4 DEF CommitComplete
      <4>3. \/ UNCHANGED failCount
            \/ failCount' = [failCount EXCEPT ![r.account] = @ + 1]
        BY <2>4 DEF CommitComplete
      <4> QED
        BY <4>1, <4>2, <4>3 DEF TypeOK
    <3>4. Unclaim(r.account, RESULT_TO_POOL_STATUS[r.result])
      BY <2>4 DEF CommitComplete
    <3>5. /\ poolStatus' \in [Accounts -> Statuses]
          /\ claimToken' \in [Accounts -> Tokens \cup {NoToken}]
          /\ claimedBy' \in [Accounts -> Callers \cup {NoCaller}]
          /\ rested' \subseteq Accounts
      BY <2>1, <3>2, <3>4, UnclaimType
    <3> QED
      BY <2>2, <2>4, <3>1, <3>3, <3>5 DEF TypeOK, CommitComplete
  <2>5. CASE CommitRead(r)
    <3>1. log' \in Seq(Entries)
      BY <2>1, <2>5, RecordType DEF TypeOK, CommitRead, Closings
    <3> QED
      BY <2>2, <2>5, <3>1 DEF TypeOK, CommitRead
  <2> QED
    BY <1>4, <2>3, <2>4, <2>5
<1>5. CASE SweepSelect
  <2>1. ASSUME NEW a \in Accounts, Expired(a)
        PROVE  [account |-> a, token |-> claimToken[a], caller |-> claimedBy[a]] \in Victims
    <3>1. claimToken[a] # NoToken
      BY <2>1 DEF Expired, TypeOK, Tokens, NoToken
    <3> QED
      BY <3>1, HeldRow DEF Victims
  <2> QED
    BY <1>5, <2>1 DEF TypeOK, SweepSelect
<1>6. ASSUME NEW v \in sweep, SweepExpire(v)
      PROVE  TypeOK'
  <2>1. v.account \in Accounts /\ v.token \in Tokens /\ v.caller \in Callers
    BY DEF TypeOK, Victims
  <2>2. log' \in Seq(Entries)
    BY <1>6, <2>1, RecordType DEF TypeOK, SweepExpire, Closings
  <2> QED
    BY <1>6, <2>1, <2>2, UnclaimType DEF TypeOK, SweepExpire, PoolStatuses
<1>7. CASE RecoverCooldown
  BY <1>7 DEF TypeOK, RecoverCooldown, Statuses, PoolStatuses
<1>8. CASE Clock
  BY <1>8 DEF TypeOK, Clock, LeaseElapses, CooldownElapses
<1>9. CASE Restart
  BY <1>9 DEF TypeOK, Restart
<1>10. CASE UNCHANGED vars
  BY <1>10 DEF TypeOK, vars
<1> QED
  BY <1>1, <1>2, <1>3, <1>4, <1>5, <1>6, <1>7, <1>8, <1>9, <1>10
  DEF Next, Admin, Claim, Check, Commit, Expire

-----------------------------------------------------------------------------
(* What the steps do to the two histories.                                 *)

\* A log line goes to the end of the log; the lines before it stay.
LEMMA RecordAppends ==
    ASSUME log \in Seq(Entries), NEW a, NEW t, NEW c, NEW action, NEW result,
           Record(a, t, c, action, result),
           [account |-> a, token |-> t, caller |-> c, action |-> action, result |-> result]
             \in Entries
    PROVE  /\ DOMAIN log = 1 .. Len(log) /\ Len(log) \in Nat
           /\ DOMAIN log' = 1 .. Len(log) + 1
           /\ \A i \in DOMAIN log : log'[i] = log[i]
           /\ log'[Len(log) + 1] = [account |-> a, token |-> t, caller |-> c,
                                    action |-> action, result |-> result]
BY LenProperties, AppendProperties DEF Record

\* A claim appends one grant, takes a free row and writes one log line.
LEMMA ClaimAppends ==
    ASSUME TypeOK, NEW c \in Callers, NEW p \in Projects \cup {NoProject}, ClaimRandom(c, p)
    PROVE  \E a \in Claimable(c, p) :
             /\ a \in Accounts
             /\ Len(granted) \in Nat /\ Len(granted) + 1 \in Tokens
             /\ DOMAIN granted = 1 .. Len(granted)
             /\ DOMAIN granted' = 1 .. Len(granted) + 1
             /\ \A i \in DOMAIN granted : granted'[i] = granted[i]
             /\ granted'[Len(granted) + 1] = [account |-> a, caller |-> c, project |-> p]
             /\ poolStatus' = [poolStatus EXCEPT ![a] = "claimed"]
             /\ claimToken' = [claimToken EXCEPT ![a] = Len(granted) + 1]
             /\ claimedBy' = [claimedBy EXCEPT ![a] = c]
             /\ usage' = IF p = NoProject THEN usage ELSE usage \cup {<<a, c, p>>}
             /\ Record(a, Len(granted) + 1, c, "claim", "none")
             /\ UNCHANGED <<checked, sweep>>
<1>1. PICK a \in Claimable(c, p) :
        LET t == Len(granted) + 1 IN
        /\ poolStatus' = [poolStatus EXCEPT ![a] = "claimed"]
        /\ claimToken' = [claimToken EXCEPT ![a] = t]
        /\ claimedBy' = [claimedBy EXCEPT ![a] = c]
        /\ rested' = rested \ {a}
        /\ granted' = Append(granted, [account |-> a, caller |-> c, project |-> p])
        /\ usage' = IF p = NoProject THEN usage ELSE usage \cup {<<a, c, p>>}
        /\ Record(a, t, c, "claim", "none")
  BY DEF ClaimRandom
<1>2. a \in Accounts
  BY DEF Claimable
<1>3. granted \in Seq(Grants) /\ [account |-> a, caller |-> c, project |-> p] \in Grants
  BY <1>2 DEF TypeOK, Grants
<1>4. /\ Len(granted) \in Nat /\ DOMAIN granted = 1 .. Len(granted)
      /\ DOMAIN granted' = 1 .. Len(granted) + 1
      /\ \A i \in DOMAIN granted : granted'[i] = granted[i]
      /\ granted'[Len(granted) + 1] = [account |-> a, caller |-> c, project |-> p]
  <2>1. granted' \in Seq(Grants) /\ Len(granted') = Len(granted) + 1
    BY <1>1, <1>3, AppendProperties
  <2> QED
    BY <1>1, <1>3, <2>1, LenProperties, AppendProperties
<1>5. Len(granted) + 1 \in Tokens
  BY <1>4, PoolAssumption DEF ClaimRandom, Tokens, PoolAssumption
<1> QED
  BY <1>1, <1>2, <1>4, <1>5 DEF ClaimRandom

\* No step takes a line out of the log or changes one.
LEMMA LogGrows ==
    TypeOK /\ CompletionsHaveResults /\ [Next]_vars =>
        /\ DOMAIN log \subseteq DOMAIN log'
        /\ \A i \in DOMAIN log : log'[i] = log[i]
<1> SUFFICES ASSUME TypeOK, CompletionsHaveResults, [Next]_vars
             PROVE  /\ DOMAIN log \subseteq DOMAIN log'
                    /\ \A i \in DOMAIN log : log'[i] = log[i]
  OBVIOUS
<1>1. ASSUME NEW a \in Accounts, NEW t \in Tokens, NEW c \in Callers,
             NEW action \in Closings \cup {"claim", "read"}, NEW result \in Results \cup {"none"},
             Record(a, t, c, action, result)
      PROVE  /\ DOMAIN log \subseteq DOMAIN log'
             /\ \A i \in DOMAIN log : log'[i] = log[i]
  <2>1. [account |-> a, token |-> t, caller |-> c, action |-> action, result |-> result]
          \in Entries
    BY DEF Entries
  <2> QED
    BY <1>1, <2>1, RecordAppends DEF TypeOK
<1>2. CASE UNCHANGED log
  BY <1>2
<1>3. ASSUME NEW c \in Callers, NEW p \in Projects \cup {NoProject}, ClaimRandom(c, p)
      PROVE  \E a \in Accounts : Record(a, Len(granted) + 1, c, "claim", "none")
                                /\ Len(granted) + 1 \in Tokens
  BY <1>3, ClaimAppends
<1>4. ASSUME NEW r \in checked, CommitRelease(r) \/ CommitComplete(r) \/ CommitRead(r)
      PROVE  /\ r \in Requests
             /\ \E action \in Closings \cup {"claim", "read"}, result \in Results \cup {"none"} :
                    Record(r.account, r.token, r.caller, action, result)
  BY <1>4 DEF TypeOK, Requests, Closings, CommitRelease, CommitComplete, CommitRead
<1>5. ASSUME NEW v \in sweep, SweepExpire(v)
      PROVE  v \in Victims /\ Record(v.account, v.token, v.caller, "expire", "none")
  BY <1>5 DEF TypeOK, SweepExpire
<1>6. CASE Claim
  BY <1>1, <1>3, <1>6 DEF Claim
<1>7. CASE Commit
  BY <1>1, <1>4, <1>7 DEF Commit, Requests
<1>8. CASE Expire
  BY <1>1, <1>5, <1>8 DEF Expire, Victims, Closings
<1>9. CASE Admin
  BY <1>2, <1>9 DEF Admin, AddAccount, EditAccount, DeleteAccount
<1>10. CASE Check
  BY <1>2, <1>10 DEF Check, CheckRelease, CheckComplete, CheckRead, Admit
<1>11. CASE SweepSelect \/ RecoverCooldown \/ Restart
  BY <1>2, <1>11 DEF SweepSelect, RecoverCooldown, Restart
<1>12. CASE Clock
  BY <1>2, <1>12 DEF Clock, LeaseElapses, CooldownElapses
<1>13. CASE UNCHANGED vars
  BY <1>2, <1>13 DEF vars
<1> QED
  BY <1>6, <1>7, <1>8, <1>9, <1>10, <1>11, <1>12, <1>13 DEF Next

\* Only a claim changes the grants or the usage table.
LEMMA OnlyClaimsGrant == [Next]_vars /\ ~Claim => UNCHANGED <<granted, usage>>
<1> SUFFICES ASSUME [Next]_vars, ~Claim
             PROVE  UNCHANGED <<granted, usage>>
  OBVIOUS
<1>1. CASE Admin
  BY <1>1 DEF Admin, AddAccount, EditAccount, DeleteAccount, claimVars
<1>2. CASE Check
  BY <1>2 DEF Check, CheckRelease, CheckComplete, CheckRead, Admit, claimVars
<1>3. CASE Commit
  BY <1>3 DEF Commit, CommitRelease, CommitComplete, CommitRead, claimVars
<1>4. CASE SweepSelect \/ Expire \/ RecoverCooldown \/ Restart
  BY <1>4 DEF SweepSelect, Expire, SweepExpire, RecoverCooldown, Restart, claimVars
<1>5. CASE Clock
  BY <1>5 DEF Clock, LeaseElapses, CooldownElapses, claimVars
<1>6. CASE UNCHANGED vars
  BY <1>6 DEF vars, claimVars
<1> QED
  BY <1>1, <1>2, <1>3, <1>4, <1>5, <1>6 DEF Next

-----------------------------------------------------------------------------
(* The other conjuncts of IInv, each preserved by every step.              *)

\* Ending a claim leaves the row free and the other rows as they are.
LEMMA UnclaimKeepsHolders ==
    ASSUME TypeOK, HolderIsLatestGrant, NEW a \in Accounts,
           NEW status \in PoolStatuses \ {"claimed"}, Unclaim(a, status), UNCHANGED granted
    PROVE  HolderIsLatestGrant'
<1> SUFFICES ASSUME NEW b \in Accounts
             PROVE  /\ poolStatus'[b] = "claimed" <=> claimToken'[b] # NoToken
                    /\ claimToken'[b] # NoToken =>
                         /\ claimToken'[b] \in DOMAIN granted
                         /\ granted[claimToken'[b]].account = b
                         /\ granted[claimToken'[b]].caller = claimedBy'[b]
                         /\ \A i \in DOMAIN granted :
                                granted[i].account = b => i <= claimToken'[b]
  BY DEF HolderIsLatestGrant
<1>1. CASE b = a
  BY <1>1 DEF TypeOK, Unclaim
<1>2. CASE b # a
  BY <1>2 DEF TypeOK, Unclaim, HolderIsLatestGrant
<1> QED
  BY <1>1, <1>2

\* A row that is not deleted while claimed: the claim's own log line forbids it.
LEMMA HeldIsReferenced ==
    ASSUME TypeOK, HolderIsLatestGrant, GrantsAreLogged, NEW a \in Accounts,
           poolStatus[a] = "claimed"
    PROVE  Referenced(a)
<1>1. claimToken[a] # NoToken
  BY DEF HolderIsLatestGrant
<1>2. claimToken[a] \in DOMAIN granted /\ granted[claimToken[a]].account = a
  BY <1>1, HeldRow
<1> QED
  BY <1>2 DEF GrantsAreLogged, ClaimLine, Referenced

\* A claim takes a free row under a new token; every other writer frees the row.
LEMMA HolderStep ==
    TypeOK /\ CompletionsHaveResults /\ HolderIsLatestGrant /\ GrantsAreLogged /\ [Next]_vars
        => HolderIsLatestGrant'
<1> SUFFICES ASSUME TypeOK, CompletionsHaveResults, HolderIsLatestGrant, GrantsAreLogged,
                    [Next]_vars
             PROVE  HolderIsLatestGrant'
  OBVIOUS
<1> USE DEF rowVars, adminVars, countVars, claimVars
<1>1. CASE UNCHANGED <<poolStatus, claimToken, claimedBy, granted>>
  BY <1>1 DEF HolderIsLatestGrant
<1>2. ASSUME NEW a \in Accounts, AddAccount(a) \/ DeleteAccount(a)
      PROVE  HolderIsLatestGrant'
  <2>1. poolStatus[a] # "claimed"
    BY <1>2, HeldIsReferenced DEF AddAccount, DeleteAccount
  <2>2. PICK s \in {"available", "outside", "deleted"} :
          poolStatus' = [poolStatus EXCEPT ![a] = s]
    BY <1>2 DEF AddAccount, DeleteAccount
  <2>3. UNCHANGED <<claimToken, claimedBy, granted>>
    BY <1>2 DEF AddAccount, DeleteAccount
  <2> QED
    BY <2>1, <2>2, <2>3 DEF TypeOK, HolderIsLatestGrant
<1>3. ASSUME NEW c \in Callers, NEW p \in Projects \cup {NoProject}, ClaimRandom(c, p)
      PROVE  HolderIsLatestGrant'
  <2>1. PICK a \in Claimable(c, p) :
             /\ a \in Accounts
             /\ Len(granted) \in Nat
             /\ DOMAIN granted = 1 .. Len(granted)
             /\ DOMAIN granted' = 1 .. Len(granted) + 1
             /\ \A i \in DOMAIN granted : granted'[i] = granted[i]
             /\ granted'[Len(granted) + 1] = [account |-> a, caller |-> c, project |-> p]
             /\ poolStatus' = [poolStatus EXCEPT ![a] = "claimed"]
             /\ claimToken' = [claimToken EXCEPT ![a] = Len(granted) + 1]
             /\ claimedBy' = [claimedBy EXCEPT ![a] = c]
    BY <1>3, ClaimAppends
  <2> SUFFICES ASSUME NEW b \in Accounts
               PROVE  /\ poolStatus'[b] = "claimed" <=> claimToken'[b] # NoToken
                      /\ claimToken'[b] # NoToken =>
                           /\ claimToken'[b] \in DOMAIN granted'
                           /\ granted'[claimToken'[b]].account = b
                           /\ granted'[claimToken'[b]].caller = claimedBy'[b]
                           /\ \A i \in DOMAIN granted' :
                                  granted'[i].account = b => i <= claimToken'[b]
    BY DEF HolderIsLatestGrant
  <2>2. CASE b = a
    BY <2>1, <2>2 DEF TypeOK, NoToken
  <2>3. CASE b # a
    BY <2>1, <2>3 DEF TypeOK, HolderIsLatestGrant
  <2> QED
    BY <2>2, <2>3
<1>4. ASSUME NEW r \in checked, CommitRelease(r) \/ CommitComplete(r)
      PROVE  HolderIsLatestGrant'
  <2>1. r.account \in Accounts
    BY DEF TypeOK, Requests
  <2>2. PICK status \in PoolStatuses \ {"claimed"} : Unclaim(r.account, status)
    BY <1>4, ResultStatuses
    DEF CommitRelease, CommitComplete, CompletionsHaveResults, PoolStatuses
  <2> QED
    BY <1>4, <2>1, <2>2, UnclaimKeepsHolders DEF CommitRelease, CommitComplete
<1>5. ASSUME NEW v \in sweep, SweepExpire(v)
      PROVE  HolderIsLatestGrant'
  <2>1. v.account \in Accounts
    BY DEF TypeOK, Victims
  <2> QED
    BY <1>5, <2>1, UnclaimKeepsHolders DEF SweepExpire, PoolStatuses
<1>6. CASE RecoverCooldown
  BY <1>6 DEF TypeOK, RecoverCooldown, HolderIsLatestGrant
<1>7. CASE Admin
  BY <1>1, <1>2, <1>7 DEF Admin, EditAccount
<1>8. CASE Check
  BY <1>1, <1>8 DEF Check, CheckRelease, CheckComplete, CheckRead, Admit
<1>9. CASE Commit
  BY <1>1, <1>4, <1>9 DEF Commit, CommitRead
<1>10. CASE SweepSelect \/ Restart
  BY <1>1, <1>10 DEF SweepSelect, Restart
<1>11. CASE Clock
  BY <1>1, <1>11 DEF Clock, LeaseElapses, CooldownElapses
<1>12. CASE UNCHANGED vars
  BY <1>1, <1>12 DEF vars
<1> QED
  BY <1>3, <1>5, <1>6, <1>7, <1>8, <1>9, <1>10, <1>11, <1>12 DEF Next, Claim, Expire

\* A claim writes its line in its own transaction, and lines stay.
LEMMA LoggedStep ==
    TypeOK /\ CompletionsHaveResults /\ GrantsAreLogged /\ [Next]_vars => GrantsAreLogged'
<1> SUFFICES ASSUME TypeOK, CompletionsHaveResults, GrantsAreLogged, [Next]_vars,
                    NEW i \in DOMAIN granted'
             PROVE  \E j \in DOMAIN log' : log'[j] = ClaimLine(i)'
  BY DEF GrantsAreLogged
<1>1. ASSUME i \in DOMAIN granted, granted'[i] = granted[i]
      PROVE  \E j \in DOMAIN log' : log'[j] = ClaimLine(i)'
  BY <1>1, LogGrows DEF GrantsAreLogged, ClaimLine
<1>2. CASE ~Claim
  BY <1>1, <1>2, OnlyClaimsGrant
<1>3. ASSUME NEW c \in Callers, NEW p \in Projects \cup {NoProject}, ClaimRandom(c, p)
      PROVE  \E j \in DOMAIN log' : log'[j] = ClaimLine(i)'
  <2>1. PICK a \in Accounts :
             /\ Len(granted) \in Nat /\ Len(granted) + 1 \in Tokens
             /\ DOMAIN granted = 1 .. Len(granted)
             /\ DOMAIN granted' = 1 .. Len(granted) + 1
             /\ \A k \in DOMAIN granted : granted'[k] = granted[k]
             /\ granted'[Len(granted) + 1] = [account |-> a, caller |-> c, project |-> p]
             /\ Record(a, Len(granted) + 1, c, "claim", "none")
    BY <1>3, ClaimAppends
  <2>2. [account |-> a, token |-> Len(granted) + 1, caller |-> c, action |-> "claim",
         result |-> "none"] \in Entries
    BY <2>1 DEF Entries
  <2>3. CASE i = Len(granted) + 1
    <3>1. /\ Len(log) + 1 \in DOMAIN log'
          /\ log'[Len(log) + 1] = [account |-> a, token |-> Len(granted) + 1, caller |-> c,
                                  action |-> "claim", result |-> "none"]
      <4>1. log \in Seq(Entries)
        BY DEF TypeOK
      <4> QED
        BY <2>1, <2>2, <4>1, RecordAppends
    <3>2. ClaimLine(i)' = [account |-> a, token |-> Len(granted) + 1, caller |-> c,
                           action |-> "claim", result |-> "none"]
      BY <2>1, <2>3 DEF ClaimLine
    <3> QED
      BY <3>1, <3>2
  <2>4. CASE i # Len(granted) + 1
    BY <1>1, <2>1, <2>4
  <2> QED
    BY <2>3, <2>4
<1> QED
  BY <1>2, <1>3 DEF Claim

\* A grant once given is never changed.
LEMMA GrantsGrow ==
    TypeOK /\ [Next]_vars =>
        \A i \in DOMAIN granted : i \in DOMAIN granted' /\ granted'[i] = granted[i]
<1> SUFFICES ASSUME TypeOK, [Next]_vars, NEW i \in DOMAIN granted
             PROVE  i \in DOMAIN granted' /\ granted'[i] = granted[i]
  OBVIOUS
<1>1. CASE ~Claim
  BY <1>1, OnlyClaimsGrant
<1>2. ASSUME NEW c \in Callers, NEW p \in Projects \cup {NoProject}, ClaimRandom(c, p)
      PROVE  i \in DOMAIN granted' /\ granted'[i] = granted[i]
  <2>1. /\ Len(granted) \in Nat
        /\ DOMAIN granted = 1 .. Len(granted)
        /\ DOMAIN granted' = 1 .. Len(granted) + 1
        /\ \A k \in DOMAIN granted : granted'[k] = granted[k]
    BY <1>2, ClaimAppends
  <2> QED
    BY <2>1
<1> QED
  BY <1>1, <1>2 DEF Claim

\* What is added to the requests is about the claim that holds the row; the
\* expiry job reads its victims off the rows.
LEMMA PendingStep ==
    TypeOK /\ HolderIsLatestGrant /\ RequestsMatchGrants /\ VictimsMatchGrants /\ [Next]_vars
        => RequestsMatchGrants' /\ VictimsMatchGrants'
<1> SUFFICES ASSUME TypeOK, HolderIsLatestGrant, RequestsMatchGrants, VictimsMatchGrants,
                    [Next]_vars
             PROVE  RequestsMatchGrants' /\ VictimsMatchGrants'
  OBVIOUS
<1> USE DEF rowVars, adminVars, countVars, claimVars
<1>1. \A i \in DOMAIN granted : i \in DOMAIN granted' /\ granted'[i] = granted[i]
  BY GrantsGrow
<1>2. ASSUME checked' \subseteq checked
      PROVE  RequestsMatchGrants'
  BY <1>1, <1>2 DEF RequestsMatchGrants, MatchesGrant
<1>3. ASSUME sweep' \subseteq sweep
      PROVE  VictimsMatchGrants'
  BY <1>1, <1>3 DEF VictimsMatchGrants, MatchesGrant
<1>4. ASSUME NEW w \in Workers, NEW a \in Accounts, NEW t \in Tokens, NEW c \in Callers,
             NEW op \in {"release", "complete", "read"}, NEW result \in Results \cup {"none"},
             Admit(w, op, a, t, c, result),
             claimToken[a] = t, op \in Closings => claimedBy[a] = c
      PROVE  RequestsMatchGrants' /\ sweep' = sweep
  <2>1. claimToken[a] # NoToken
    BY <1>4 DEF Tokens, NoToken
  <2>2. /\ t \in DOMAIN granted
        /\ granted[t].account = a
        /\ claimedBy[a] = granted[t].caller
    BY <1>4, <2>1, HeldRow
  <2>3. /\ checked' = checked \cup {[worker |-> w, op |-> op, account |-> a, token |-> t,
                                     caller |-> c, result |-> result]}
        /\ UNCHANGED <<granted, sweep>>
    BY <1>4 DEF Admit
  <2> QED
    BY <1>4, <2>2, <2>3 DEF RequestsMatchGrants, MatchesGrant
<1>5. CASE Check
  <2>1. PICK w \in Workers, a \in Accounts, t \in Tokens, c \in Callers,
             op \in {"release", "complete", "read"}, result \in Results \cup {"none"} :
          /\ Admit(w, op, a, t, c, result)
          /\ claimToken[a] = t
          /\ op \in Closings => claimedBy[a] = c
    BY <1>5 DEF Check, CheckRelease, CheckComplete, CheckRead, Holds, Closings
  <2> QED
    BY <1>3, <1>4, <2>1
<1>6. CASE SweepSelect
  <2>1. ASSUME NEW v \in sweep'
        PROVE  MatchesGrant(v)' /\ granted'[v.token].caller = v.caller
    <3>1. PICK a \in Accounts :
            /\ Expired(a)
            /\ v = [account |-> a, token |-> claimToken[a], caller |-> claimedBy[a]]
      BY <1>6, <2>1 DEF SweepSelect
    <3>2. claimToken[a] # NoToken
      BY <3>1 DEF Expired, TypeOK, Tokens, NoToken
    <3>3. /\ claimToken[a] \in DOMAIN granted
          /\ granted[claimToken[a]].account = a
          /\ claimedBy[a] = granted[claimToken[a]].caller
      BY <3>2, HeldRow
    <3> QED
      BY <1>6, <3>1, <3>3 DEF SweepSelect, MatchesGrant
  <2>2. checked' = checked
    BY <1>6 DEF SweepSelect
  <2> QED
    BY <1>2, <2>1, <2>2 DEF VictimsMatchGrants
<1>7. CASE Commit
  BY <1>2, <1>3, <1>7 DEF Commit, CommitRelease, CommitComplete, CommitRead
<1>8. CASE Expire
  BY <1>2, <1>3, <1>8 DEF Expire, SweepExpire
<1>9. CASE Admin \/ Claim
  BY <1>2, <1>3, <1>9 DEF Admin, AddAccount, EditAccount, DeleteAccount, Claim, ClaimRandom
<1>10. CASE RecoverCooldown \/ Clock \/ Restart
  BY <1>2, <1>3, <1>10 DEF RecoverCooldown, Clock, LeaseElapses, CooldownElapses, Restart
<1>11. CASE UNCHANGED vars
  BY <1>2, <1>3, <1>11 DEF vars
<1> QED
  BY <1>5, <1>6, <1>7, <1>8, <1>9, <1>10, <1>11 DEF Next

\* A projected claim writes the usage table in its own transaction, after
\* looking there.
LEMMA ExclusiveStep ==
    TypeOK /\ UsageCoversGrants /\ ProjectExclusive /\ [Next]_vars
        => UsageCoversGrants' /\ ProjectExclusive'
<1> SUFFICES ASSUME TypeOK, UsageCoversGrants, ProjectExclusive, [Next]_vars
             PROVE  UsageCoversGrants' /\ ProjectExclusive'
  OBVIOUS
<1>1. CASE ~Claim
  BY <1>1, OnlyClaimsGrant DEF UsageCoversGrants, ProjectExclusive
<1>2. ASSUME NEW c \in Callers, NEW p \in Projects \cup {NoProject}, ClaimRandom(c, p)
      PROVE  UsageCoversGrants' /\ ProjectExclusive'
  <2>1. PICK a \in Claimable(c, p) :
             /\ Len(granted) \in Nat
             /\ DOMAIN granted = 1 .. Len(granted)
             /\ DOMAIN granted' = 1 .. Len(granted) + 1
             /\ \A i \in DOMAIN granted : granted'[i] = granted[i]
             /\ granted'[Len(granted) + 1] = [account |-> a, caller |-> c, project |-> p]
             /\ usage' = IF p = NoProject THEN usage ELSE usage \cup {<<a, c, p>>}
    BY <1>2, ClaimAppends
  <2>2. UsageCoversGrants'
    BY <2>1 DEF UsageCoversGrants, Projected
  <2>3. ASSUME NEW i \in DOMAIN granted, Projected(granted[i])
        PROVE  granted[i] # [account |-> a, caller |-> c, project |-> p]
    BY <2>1, <2>3 DEF Claimable, UsageCoversGrants
  <2>4. ASSUME NEW i \in DOMAIN granted', NEW j \in DOMAIN granted', i # j,
               Projected(granted'[i])
        PROVE  granted'[i] # granted'[j]
    <3>1. CASE i \in DOMAIN granted /\ j \in DOMAIN granted
      BY <2>1, <2>4, <3>1 DEF ProjectExclusive
    <3>2. CASE i \in DOMAIN granted /\ j = Len(granted) + 1
      BY <2>1, <2>3, <2>4, <3>2
    <3>3. CASE i = Len(granted) + 1 /\ j \in DOMAIN granted
      BY <2>1, <2>3, <2>4, <3>3 DEF Projected
    <3> QED
      BY <2>1, <2>4, <3>1, <3>2, <3>3
  <2> QED
    BY <2>2, <2>4 DEF ProjectExclusive, Projected
<1> QED
  BY <1>1, <1>2 DEF Claim

\* A row that something still refers to is not deleted.
LEMMA RowsStay ==
    ASSUME TypeOK, CompletionsHaveResults, [Next]_vars, NEW x \in Accounts,
           Referenced(x), poolStatus[x] \notin NoRow
    PROVE  poolStatus'[x] \notin NoRow
<1> USE DEF rowVars, NoRow
<1>1. ASSUME NEW a \in Accounts, NEW status \in PoolStatuses, Unclaim(a, status)
      PROVE  poolStatus'[x] \notin NoRow
  BY <1>1 DEF TypeOK, Unclaim, PoolStatuses
<1>2. CASE UNCHANGED poolStatus
  BY <1>2
<1>3. CASE Admin
  BY <1>2, <1>3 DEF Admin, AddAccount, EditAccount, DeleteAccount, TypeOK
<1>4. CASE Claim
  BY <1>4 DEF Claim, ClaimRandom, TypeOK
<1>5. CASE Commit
  <2>1. PICK r \in checked : CommitRelease(r) \/ CommitComplete(r) \/ CommitRead(r)
    BY <1>5 DEF Commit
  <2>2. r.account \in Accounts
    BY <2>1 DEF TypeOK, Requests
  <2>3. CASE CommitRelease(r)
    BY <1>1, <2>2, <2>3 DEF CommitRelease, PoolStatuses
  <2>4. CASE CommitComplete(r)
    <3>1. RESULT_TO_POOL_STATUS[r.result] \in PoolStatuses
      BY <2>1, <2>4, ResultStatuses DEF CommitComplete, CompletionsHaveResults, PoolStatuses
    <3> QED
      BY <1>1, <2>2, <2>4, <3>1 DEF CommitComplete
  <2>5. CASE CommitRead(r)
    BY <1>2, <2>5 DEF CommitRead
  <2> QED
    BY <2>1, <2>3, <2>4, <2>5
<1>6. CASE Expire
  BY <1>1, <1>6 DEF Expire, SweepExpire, TypeOK, Victims, PoolStatuses
<1>7. CASE RecoverCooldown
  BY <1>7 DEF RecoverCooldown, TypeOK
<1>8. CASE Check \/ SweepSelect \/ Restart
  <2>1. ASSUME NEW w \in Workers, NEW a \in Accounts, NEW t \in Tokens, NEW c \in Callers,
               NEW op, NEW result, Admit(w, op, a, t, c, result)
        PROVE  UNCHANGED poolStatus
    BY <2>1 DEF Admit
  <2>2. CASE Check
    BY <1>2, <2>1, <2>2 DEF Check, CheckRelease, CheckComplete, CheckRead
  <2>3. CASE SweepSelect \/ Restart
    BY <1>2, <2>3 DEF SweepSelect, Restart
  <2> QED
    BY <1>8, <2>2, <2>3
<1>9. CASE Clock
  BY <1>2, <1>9 DEF Clock, LeaseElapses, CooldownElapses
<1>10. CASE UNCHANGED vars
  BY <1>2, <1>10 DEF vars
<1> QED
  BY <1>3, <1>4, <1>5, <1>6, <1>7, <1>8, <1>9, <1>10 DEF Next

\* The accounts of requests and victims are those of logged claims, and rows
\* under a claim when they are read.
LEMMA WritesStep ==
    IInv /\ [Next]_vars => WritesFindTheirRow'
<1> SUFFICES ASSUME IInv, [Next]_vars,
                    NEW x \in {r.account : r \in checked'} \cup {v.account : v \in sweep'}
             PROVE  poolStatus'[x] \notin NoRow
  BY DEF WritesFindTheirRow
<1> USE DEF IInv
<1>1. CASE x \in {r.account : r \in checked} \cup {v.account : v \in sweep}
  <2>1. \E t \in DOMAIN granted : granted[t].account = x
    BY <1>1 DEF RequestsMatchGrants, VictimsMatchGrants, MatchesGrant
  <2>2. x \in Accounts /\ Referenced(x)
    BY <1>1, <2>1 DEF GrantsAreLogged, ClaimLine, Referenced, TypeOK, Requests, Victims
  <2> QED
    BY <1>1, <2>2, RowsStay DEF WritesFindTheirRow
<1>2. ASSUME x \in Accounts, claimToken[x] # NoToken, UNCHANGED poolStatus
      PROVE  poolStatus'[x] \notin NoRow
  BY <1>2, HeldRow DEF NoRow
<1>3. CASE Check
  <2>1. PICK w \in Workers, a \in Accounts, t \in Tokens, c \in Callers,
             op \in {"release", "complete", "read"}, result \in Results \cup {"none"} :
          Admit(w, op, a, t, c, result) /\ claimToken[a] = t
    BY <1>3 DEF Check, CheckRelease, CheckComplete, CheckRead, Holds
  <2>2. /\ checked' = checked \cup {[worker |-> w, op |-> op, account |-> a, token |-> t,
                                     caller |-> c, result |-> result]}
        /\ UNCHANGED <<poolStatus, sweep>>
    BY <2>1 DEF Admit, rowVars
  <2>3. CASE x = a
    BY <1>2, <2>1, <2>2, <2>3 DEF Tokens, NoToken
  <2> QED
    BY <1>1, <2>2, <2>3
<1>4. CASE SweepSelect
  <2>1. /\ sweep' = {[account |-> a, token |-> claimToken[a], caller |-> claimedBy[a]] :
                        a \in {b \in Accounts : Expired(b)}}
        /\ UNCHANGED <<poolStatus, checked>>
    BY <1>4 DEF SweepSelect, rowVars
  <2>2. ASSUME NEW b \in Accounts, Expired(b)
        PROVE  claimToken[b] # NoToken
    BY <2>2 DEF Expired, TypeOK, Tokens, NoToken
  <2> QED
    BY <1>1, <1>2, <2>1, <2>2
<1>5. CASE checked' \subseteq checked /\ sweep' \subseteq sweep
  BY <1>1, <1>5
<1>6. CASE Commit \/ Expire \/ Restart
  BY <1>5, <1>6
  DEF Commit, CommitRelease, CommitComplete, CommitRead, Expire, SweepExpire, Restart
<1>7. CASE Admin \/ Claim
  BY <1>5, <1>7 DEF Admin, AddAccount, EditAccount, DeleteAccount, Claim, ClaimRandom
<1>8. CASE RecoverCooldown \/ Clock
  BY <1>5, <1>8 DEF RecoverCooldown, Clock, LeaseElapses, CooldownElapses
<1>9. CASE UNCHANGED vars
  BY <1>5, <1>9 DEF vars
<1> QED
  BY <1>3, <1>4, <1>6, <1>7, <1>8, <1>9 DEF Next

\* A line about a granted claim finds that claim's line before it.
LEMMA LineFollows ==
    ASSUME TypeOK, GrantsAreLogged, LogFollowsClaim,
           NEW a \in Accounts, NEW t \in Tokens, NEW c \in Callers,
           NEW action \in Closings \cup {"claim", "read"}, NEW result \in Results \cup {"none"},
           Record(a, t, c, action, result),
           action # "claim" => /\ t \in DOMAIN granted
                               /\ granted[t].account = a
                               /\ action \in Closings => granted[t].caller = c
    PROVE  LogFollowsClaim'
<1> DEFINE line == [account |-> a, token |-> t, caller |-> c, action |-> action,
                    result |-> result]
<1>1. /\ DOMAIN log = 1 .. Len(log) /\ Len(log) \in Nat
      /\ DOMAIN log' = 1 .. Len(log) + 1
      /\ \A i \in DOMAIN log : log'[i] = log[i]
      /\ log'[Len(log) + 1] = line
  <2>1. line \in Entries
    BY DEF Entries
  <2>2. log \in Seq(Entries)
    BY DEF TypeOK
  <2> QED
    BY <2>1, <2>2, RecordAppends
<1> SUFFICES ASSUME NEW i \in DOMAIN log', log'[i].action # "claim"
             PROVE  \E j \in 1 .. i - 1 :
                        /\ log'[j].action = "claim"
                        /\ log'[j].token = log'[i].token
                        /\ log'[j].account = log'[i].account
                        /\ log'[i].action \in Closings => log'[j].caller = log'[i].caller
  BY DEF LogFollowsClaim
<1>2. CASE i \in DOMAIN log
  <2>1. PICK j \in 1 .. i - 1 :
            /\ log[j].action = "claim"
            /\ log[j].token = log[i].token
            /\ log[j].account = log[i].account
            /\ log[i].action \in Closings => log[j].caller = log[i].caller
    BY <1>1, <1>2 DEF LogFollowsClaim
  <2>2. j \in DOMAIN log
    BY <1>1, <1>2
  <2> QED
    BY <1>1, <1>2, <2>1, <2>2
<1>3. CASE i = Len(log) + 1
  <2>1. PICK j \in DOMAIN log : log[j] = ClaimLine(t)
    BY <1>1, <1>3 DEF GrantsAreLogged
  <2>2. j \in 1 .. i - 1
    BY <1>1, <1>3
  <2> QED
    BY <1>1, <1>3, <2>1, <2>2 DEF ClaimLine
<1> QED
  BY <1>1, <1>2, <1>3

\* Requests and victims match a grant, and a grant has its line.
LEMMA LogStep == IInv /\ [Next]_vars => LogFollowsClaim'
<1> SUFFICES ASSUME IInv, [Next]_vars
             PROVE  LogFollowsClaim'
  OBVIOUS
<1> USE DEF IInv
<1>1. CASE UNCHANGED log
  BY <1>1 DEF LogFollowsClaim
<1>2. ASSUME NEW c \in Callers, NEW p \in Projects \cup {NoProject}, ClaimRandom(c, p)
      PROVE  LogFollowsClaim'
  BY <1>2, ClaimAppends, LineFollows
<1>3. ASSUME NEW r \in checked, CommitRelease(r) \/ CommitComplete(r) \/ CommitRead(r)
      PROVE  LogFollowsClaim'
  <2>1. /\ r.account \in Accounts /\ r.token \in Tokens /\ r.caller \in Callers
        /\ r.token \in DOMAIN granted /\ granted[r.token].account = r.account
        /\ r.op \in Closings => granted[r.token].caller = r.caller
    BY DEF TypeOK, Requests, RequestsMatchGrants, MatchesGrant
  <2>2. PICK result \in Results \cup {"none"} :
          Record(r.account, r.token, r.caller, r.op, result)
    BY <1>3 DEF TypeOK, Requests, CommitRelease, CommitComplete, CommitRead
  <2>3. r.op \in Closings \cup {"claim", "read"}
    BY DEF TypeOK, Requests, Closings
  <2> QED
    BY <2>1, <2>2, <2>3, LineFollows
<1>4. ASSUME NEW v \in sweep, SweepExpire(v)
      PROVE  LogFollowsClaim'
  <2>1. /\ v.account \in Accounts /\ v.token \in Tokens /\ v.caller \in Callers
        /\ v.token \in DOMAIN granted /\ granted[v.token].account = v.account
        /\ granted[v.token].caller = v.caller
    BY DEF TypeOK, Victims, VictimsMatchGrants, MatchesGrant
  <2>2. Record(v.account, v.token, v.caller, "expire", "none")
    BY <1>4 DEF SweepExpire
  <2> QED
    BY <2>1, <2>2, LineFollows DEF Closings
<1>5. CASE Admin
  BY <1>1, <1>5 DEF Admin, AddAccount, EditAccount, DeleteAccount
<1>6. CASE Check
  BY <1>1, <1>6 DEF Check, CheckRelease, CheckComplete, CheckRead, Admit
<1>7. CASE SweepSelect \/ RecoverCooldown \/ Restart
  BY <1>1, <1>7 DEF SweepSelect, RecoverCooldown, Restart
<1>8. CASE Clock
  BY <1>1, <1>8 DEF Clock, LeaseElapses, CooldownElapses
<1>9. CASE UNCHANGED vars
  BY <1>1, <1>9 DEF vars
<1> QED
  BY <1>2, <1>3, <1>4, <1>5, <1>6, <1>7, <1>8, <1>9 DEF Next, Claim, Commit, Expire

\* Only a completion that was checked with an accepted result is in flight.
LEMMA ResultsStep ==
    TypeOK /\ CompletionsHaveResults /\ [Next]_vars => CompletionsHaveResults'
<1> SUFFICES ASSUME TypeOK, CompletionsHaveResults, [Next]_vars
             PROVE  CompletionsHaveResults'
  OBVIOUS
<1>1. CASE checked' \subseteq checked
  BY <1>1 DEF CompletionsHaveResults
<1>2. ASSUME NEW w \in Workers, NEW a \in Accounts, NEW t \in Tokens, NEW c \in Callers,
             NEW op, NEW result, Admit(w, op, a, t, c, result),
             op = "complete" => result \in Results
      PROVE  CompletionsHaveResults'
  BY <1>2 DEF Admit, CompletionsHaveResults
<1>3. CASE Check
  <2>1. ASSUME NEW w \in Workers, NEW a \in Accounts, NEW t \in Tokens, NEW c \in Callers,
               NEW result \in Results, CheckComplete(w, a, t, c, result)
        PROVE  CompletionsHaveResults'
    BY <1>2, <2>1 DEF CheckComplete
  <2>2. ASSUME NEW w \in Workers, NEW a \in Accounts, NEW t \in Tokens, NEW c \in Callers,
               CheckRelease(w, a, t, c) \/ CheckRead(w, a, t, c)
        PROVE  CompletionsHaveResults'
    BY <1>2, <2>2 DEF CheckRelease, CheckRead
  <2> QED
    BY <1>3, <2>1, <2>2 DEF Check
<1>4. CASE Commit \/ Expire \/ Restart
  BY <1>1, <1>4
  DEF Commit, CommitRelease, CommitComplete, CommitRead, Expire, SweepExpire, Restart
<1>5. CASE Admin \/ Claim
  BY <1>1, <1>5 DEF Admin, AddAccount, EditAccount, DeleteAccount, Claim, ClaimRandom
<1>6. CASE SweepSelect \/ RecoverCooldown \/ Clock
  BY <1>1, <1>6 DEF SweepSelect, RecoverCooldown, Clock, LeaseElapses, CooldownElapses
<1>7. CASE UNCHANGED vars
  BY <1>1, <1>7 DEF vars
<1> QED
  BY <1>3, <1>4, <1>5, <1>6, <1>7 DEF Next

-----------------------------------------------------------------------------
(* The theorems.                                                           *)

\* The empty tables and queues of a fresh database satisfy the invariant.
LEMMA InvInit == Init => IInv
<1> SUFFICES ASSUME Init
             PROVE  IInv
  OBVIOUS
<1>1. TypeOK
  BY TypeInit
<1>2. HolderIsLatestGrant
  BY DEF Init, HolderIsLatestGrant, NoToken
<1>3. checked = {} /\ sweep = {} /\ DOMAIN granted = {} /\ DOMAIN log = {}
  BY EmptySeq, LenProperties DEF Init
<1> QED
  BY <1>1, <1>2, <1>3
  DEF IInv, CompletionsHaveResults, GrantsAreLogged, RequestsMatchGrants, VictimsMatchGrants,
      UsageCoversGrants, ProjectExclusive, WritesFindTheirRow, LogFollowsClaim

\* Every step of the pool preserves the invariant.
LEMMA InvStep == IInv /\ [Next]_vars => IInv'
<1> SUFFICES ASSUME IInv, [Next]_vars
             PROVE  IInv'
  OBVIOUS
<1>1. TypeOK' /\ CompletionsHaveResults'
  BY TypeStep, ResultsStep DEF IInv
<1>2. HolderIsLatestGrant' /\ GrantsAreLogged'
  BY HolderStep, LoggedStep DEF IInv
<1>3. RequestsMatchGrants' /\ VictimsMatchGrants'
  BY PendingStep DEF IInv
<1>4. UsageCoversGrants' /\ ProjectExclusive'
  BY ExclusiveStep DEF IInv
<1>5. WritesFindTheirRow' /\ LogFollowsClaim'
  BY WritesStep, LogStep
<1> QED
  BY <1>1, <1>2, <1>3, <1>4, <1>5 DEF IInv

\* The invariant holds throughout every behaviour of the pool, fair or not.
THEOREM Invariance == Spec => []IInv
<1>1. Init => IInv
  BY InvInit
<1>2. IInv /\ [Next]_vars => IInv'
  BY InvStep
<1> QED
  BY <1>1, <1>2, PTL DEF Spec

\* The columns and the two histories keep their types.
THEOREM TypeCorrect == Spec => []TypeOK
<1>1. IInv => TypeOK
  BY DEF IInv
<1> QED
  BY <1>1, Invariance, PTL

\* No caller is given the same mailbox twice for the same project, by any
\* number of callers, workers, restarts and jobs.
THEOREM Exclusive == Spec => []ProjectExclusive
<1>1. IInv => ProjectExclusive
  BY DEF IInv
<1> QED
  BY <1>1, Invariance, PTL

\* A claimed row carries the latest token granted on it and the caller it
\* was granted to.
THEOREM HolderIsLatest == Spec => []HolderIsLatestGrant
<1>1. IInv => HolderIsLatestGrant
  BY DEF IInv
<1> QED
  BY <1>1, Invariance, PTL

\* No release, completion or expiry is ever written to a deleted account.
THEOREM WritesAreSafe == Spec => []WritesFindTheirRow
<1>1. IInv => WritesFindTheirRow
  BY DEF IInv
<1> QED
  BY <1>1, Invariance, PTL

\* Every line of the claim log is preceded by the claim it is about.
THEOREM LogIsOrdered == Spec => []LogFollowsClaim
<1>1. IInv => LogFollowsClaim
  BY DEF IInv
<1> QED
  BY <1>1, Invariance, PTL

-----------------------------------------------------------------------------
(* What the log adds up to.                                                *)

\* The lines of an account are finitely many.
LEMMA LinesFinite ==
    ASSUME log \in Seq(Entries), NEW a, NEW actions
    PROVE  IsFiniteSet(Lines(a, actions)) /\ Cardinality(Lines(a, actions)) \in Nat
<1>1. Lines(a, actions) \in SUBSET (1 .. Len(log)) /\ Len(log) \in Nat
  BY LenProperties DEF Lines
<1>2. IsFiniteSet(1 .. Len(log))
  BY <1>1, FS_Interval
<1>3. IsFiniteSet(Lines(a, actions))
  BY <1>1, <1>2, FS_Subset
<1> QED
  BY <1>3, FS_CardinalityType

\* A new line joins the lines of its account and its action, and no others.
LEMMA LinesGrow ==
    ASSUME log \in Seq(Entries), NEW e \in Entries, log' = Append(log, e), NEW a, NEW actions
    PROVE  /\ Len(log) + 1 \notin Lines(a, actions) /\ log'[Len(log) + 1] = e
           /\ \A i \in Lines(a, actions) : log'[i] = log[i]
           /\ Lines(a, actions)' = IF e.account = a /\ e.action \in actions
                                   THEN Lines(a, actions) \cup {Len(log) + 1} ELSE Lines(a, actions)
           /\ Cardinality(Lines(a, actions))' =
                 IF e.account = a /\ e.action \in actions
                 THEN Cardinality(Lines(a, actions)) + 1 ELSE Cardinality(Lines(a, actions))
<1> DEFINE n == Len(log) + 1
<1>1. /\ DOMAIN log = 1 .. Len(log) /\ Len(log) \in Nat /\ DOMAIN log' = 1 .. n
      /\ \A i \in DOMAIN log : log'[i] = log[i]
      /\ log'[n] = e
  BY LenProperties, AppendProperties
<1>2. n \notin Lines(a, actions) /\ n \in DOMAIN log' /\ DOMAIN log' = DOMAIN log \cup {n}
  BY <1>1 DEF Lines
<1>3. Lines(a, actions)' = IF e.account = a /\ e.action \in actions
                           THEN Lines(a, actions) \cup {n} ELSE Lines(a, actions)
  BY <1>1, <1>2 DEF Lines
<1>4. Cardinality(Lines(a, actions) \cup {n}) = Cardinality(Lines(a, actions)) + 1
  BY <1>2, LinesFinite, FS_AddElement
<1> QED
  BY <1>1, <1>2, <1>3, <1>4 DEF Lines

\* The completions that succeeded, and what failed.
Won(a) == {i \in Lines(a, {"complete"}) : log[i].result = "success"}
Lost(a) == Lines(a, {"complete", "expire"}) \ Won(a)

LEMMA Counters ==
    CountersMatchLog <=> \A a \in Accounts : /\ successCount[a] = Cardinality(Won(a))
                                             /\ failCount[a] = Cardinality(Lost(a))
BY DEF CountersMatchLog, Won, Lost

\* A new line counts once, as a success or as a failure, or not at all.
LEMMA CountsGrow ==
    ASSUME log \in Seq(Entries), NEW e \in Entries, log' = Append(log, e), NEW a
    PROVE  LET ends == e.account = a /\ e.action \in {"complete", "expire"}
               wins == e.action = "complete" /\ e.result = "success"
           IN
           /\ Cardinality(Won(a))' = IF ends /\ wins THEN Cardinality(Won(a)) + 1 ELSE Cardinality(Won(a))
           /\ Cardinality(Lost(a))' = IF ends /\ ~wins THEN Cardinality(Lost(a)) + 1
                                                       ELSE Cardinality(Lost(a))
<1> DEFINE n == Len(log) + 1
           ends == e.account = a /\ e.action \in {"complete", "expire"}
           wins == e.action = "complete" /\ e.result = "success"
           C == Lines(a, {"complete"})
           E == Lines(a, {"complete", "expire"})
<1>1. /\ n \notin C /\ n \notin E /\ log'[n] = e
      /\ \A i \in C : log'[i] = log[i]
      /\ C' = IF e.account = a /\ e.action = "complete" THEN C \cup {n} ELSE C
      /\ E' = IF ends THEN E \cup {n} ELSE E
  <2>1. /\ n \notin C /\ log'[n] = e /\ \A i \in C : log'[i] = log[i]
        /\ C' = IF e.account = a /\ e.action \in {"complete"} THEN C \cup {n} ELSE C
    <3> DEFINE actions == {"complete"}
    <3> HIDE DEF actions
    <3>1. /\ n \notin Lines(a, actions)
          /\ Lines(a, actions)' = IF e.account = a /\ e.action \in actions
                                  THEN Lines(a, actions) \cup {n} ELSE Lines(a, actions)
      BY LinesGrow
    <3>2. log'[n] = e
      BY LinesGrow
    <3>3. \A i \in Lines(a, actions) : log'[i] = log[i]
      BY LinesGrow
    <3> QED
      BY <3>1, <3>2, <3>3 DEF actions
  <2>2. n \notin E /\ E' = IF ends THEN E \cup {n} ELSE E
    <3> DEFINE actions == {"complete", "expire"}
    <3> HIDE DEF actions
    <3>1. /\ n \notin Lines(a, actions)
          /\ Lines(a, actions)' = IF e.account = a /\ e.action \in actions
                                  THEN Lines(a, actions) \cup {n} ELSE Lines(a, actions)
      BY LinesGrow
    <3> QED
      BY <3>1 DEF actions
  <2> QED
    BY <2>1, <2>2
<1>2. Won(a) \subseteq C /\ C \subseteq E
  BY DEF Won, Lines
<1>3. IsFiniteSet(Won(a)) /\ IsFiniteSet(Lost(a))
  <2>1. Won(a) \in SUBSET E /\ Lost(a) \in SUBSET E
    BY <1>2 DEF Lost
  <2>2. IsFiniteSet(E)
    BY LinesFinite
  <2> QED
    BY <2>1, <2>2, FS_Subset
<1>4. Won(a)' = {i \in C' : log'[i].result = "success"} /\ Lost(a)' = E' \ Won(a)'
  BY DEF Won, Lost
<1> HIDE DEF C, E, n
<1>5. Won(a)' = IF ends /\ wins THEN Won(a) \cup {n} ELSE Won(a)
  BY <1>1, <1>4 DEF Won, C
<1>6. Lost(a)' = IF ends /\ ~wins THEN Lost(a) \cup {n} ELSE Lost(a)
  BY <1>1, <1>2, <1>4, <1>5 DEF Lost, E
<1>7. n \notin Won(a) /\ n \notin Lost(a)
  BY <1>1, <1>2 DEF Lost, E
<1>8. /\ Cardinality(Won(a) \cup {n}) = Cardinality(Won(a)) + 1
      /\ Cardinality(Lost(a) \cup {n}) = Cardinality(Lost(a)) + 1
  BY <1>3, <1>7, FS_AddElement
<1> QED
  BY <1>5, <1>6, <1>8

\* A line that is not a claim leaves the claims closed, and if it closes one
\* the row need not be claimed any more.
LEMMA LineCloses ==
    ASSUME log \in Seq(Entries), NEW e \in Entries, log' = Append(log, e), e.action # "claim",
           ClaimsAreClosed,
           \A a \in Accounts : \/ poolStatus'[a] = poolStatus[a]
                               \/ e.account = a /\ e.action \in Closings
    PROVE  ClaimsAreClosed'
<1> SUFFICES ASSUME NEW a \in Accounts
             PROVE  Cardinality(Lines(a, {"claim"}))' <=
                        Cardinality(Lines(a, Closings))' + (IF poolStatus'[a] = "claimed" THEN 1 ELSE 0)
  BY DEF ClaimsAreClosed
<1>1. /\ Cardinality(Lines(a, {"claim"}))' = Cardinality(Lines(a, {"claim"}))
      /\ Cardinality(Lines(a, Closings))' =
            IF e.account = a /\ e.action \in Closings THEN Cardinality(Lines(a, Closings)) + 1
                                                      ELSE Cardinality(Lines(a, Closings))
  BY LinesGrow
<1>2. Cardinality(Lines(a, {"claim"})) \in Nat /\ Cardinality(Lines(a, Closings)) \in Nat
  BY LinesFinite
<1>3. Cardinality(Lines(a, {"claim"})) <=
          Cardinality(Lines(a, Closings)) + (IF poolStatus[a] = "claimed" THEN 1 ELSE 0)
  BY DEF ClaimsAreClosed
<1> QED
  BY <1>1, <1>2, <1>3

\* While the log stands still, so do its sums.
LEMMA SumsStay ==
    ASSUME UNCHANGED <<log, successCount, failCount>>, log \in Seq(Entries),
           CountersMatchLog, ClaimsAreClosed,
           \A a \in Accounts : \/ poolStatus'[a] = "claimed" <=> poolStatus[a] = "claimed"
                               \/ Lines(a, {"claim"}) = {}
    PROVE  CountersMatchLog' /\ ClaimsAreClosed'
<1>1. \A a, actions : Lines(a, actions)' = Lines(a, actions)
  BY DEF Lines
<1>2. CountersMatchLog'
  BY <1>1 DEF CountersMatchLog
<1>3. ASSUME NEW a \in Accounts
      PROVE  Cardinality(Lines(a, {"claim"}))' <=
                 Cardinality(Lines(a, Closings))' + (IF poolStatus'[a] = "claimed" THEN 1 ELSE 0)
  <2>1. /\ Cardinality(Lines(a, {"claim"})) \in Nat /\ Cardinality(Lines(a, Closings)) \in Nat
        /\ Lines(a, {"claim"}) = {} => Cardinality(Lines(a, {"claim"})) = 0
    BY LinesFinite, FS_EmptySet
  <2>2. Cardinality(Lines(a, {"claim"})) <=
            Cardinality(Lines(a, Closings)) + (IF poolStatus[a] = "claimed" THEN 1 ELSE 0)
    BY DEF ClaimsAreClosed
  <2> QED
    BY <1>1, <2>1, <2>2
<1> QED
  BY <1>2, <1>3 DEF ClaimsAreClosed

\* A line that neither completes nor expires a claim is not counted.
LEMMA CountersStay ==
    ASSUME log \in Seq(Entries), NEW e \in Entries, log' = Append(log, e),
           e.action \notin {"complete", "expire"},
           UNCHANGED <<successCount, failCount>>, CountersMatchLog
    PROVE  CountersMatchLog'
<1>1. ASSUME NEW a \in Accounts
      PROVE  /\ Cardinality(Won(a))' = Cardinality(Won(a))
             /\ Cardinality(Lost(a))' = Cardinality(Lost(a))
  BY CountsGrow
<1> QED
  BY <1>1, Counters DEF CountersMatchLog, Won, Lost

\* Every step of the pool keeps the sums.
LEMMA SumsStep ==
    ASSUME IInv, CountersMatchLog, ClaimsAreClosed, [Next]_vars
    PROVE  CountersMatchLog' /\ ClaimsAreClosed'
<1> DEFINE Line(a, t, c, action, result) ==
              [account |-> a, token |-> t, caller |-> c, action |-> action, result |-> result]
<1> USE DEF rowVars, adminVars, countVars, claimVars
<1>1. /\ TypeOK /\ log \in Seq(Entries) /\ poolStatus \in [Accounts -> Statuses]
      /\ successCount \in [Accounts -> Nat] /\ failCount \in [Accounts -> Nat]
  BY DEF IInv, TypeOK
<1>2. CASE Claim
  <2>1. PICK a \in Accounts, t \in Tokens, c \in Callers :
           /\ poolStatus[a] = "available" /\ poolStatus' = [poolStatus EXCEPT ![a] = "claimed"]
           /\ log' = Append(log, Line(a, t, c, "claim", "none"))
           /\ UNCHANGED <<successCount, failCount>>
    <3>1. PICK c \in Callers, p \in Projects \cup {NoProject} : ClaimRandom(c, p)
      BY <1>2 DEF Claim
    <3>2. UNCHANGED <<successCount, failCount>>
      BY <3>1 DEF ClaimRandom
    <3>3. PICK a \in Claimable(c, p) :
             /\ a \in Accounts /\ Len(granted) + 1 \in Tokens
             /\ poolStatus' = [poolStatus EXCEPT ![a] = "claimed"]
             /\ Record(a, Len(granted) + 1, c, "claim", "none")
      BY <1>1, <3>1, ClaimAppends
    <3>4. poolStatus[a] = "available"
      BY DEF Claimable
    <3> QED
      BY <3>2, <3>3, <3>4 DEF Record
  <2> DEFINE e == Line(a, t, c, "claim", "none")
  <2>2. e \in Entries /\ e.account = a /\ e.action = "claim" /\ log' = Append(log, e)
    BY <2>1 DEF Entries, Closings
  <2> HIDE DEF e
  <2>3. CountersMatchLog'
    BY <1>1, <2>1, <2>2, CountersStay
  <2>4. ASSUME NEW x \in Accounts
        PROVE  Cardinality(Lines(x, {"claim"}))' <=
                   Cardinality(Lines(x, Closings))' + (IF poolStatus'[x] = "claimed" THEN 1 ELSE 0)
    <3>1. Cardinality(Lines(x, {"claim"}))' =
             IF a = x THEN Cardinality(Lines(x, {"claim"})) + 1 ELSE Cardinality(Lines(x, {"claim"}))
      BY <1>1, <2>2, LinesGrow
    <3>2. Cardinality(Lines(x, Closings))' = Cardinality(Lines(x, Closings))
      <4>1. e.action \notin Closings
        BY <2>2 DEF Closings
      <4> QED
        BY <1>1, <2>2, <4>1, LinesGrow
    <3>3. Cardinality(Lines(x, {"claim"})) \in Nat /\ Cardinality(Lines(x, Closings)) \in Nat
      BY <1>1, LinesFinite
    <3>4. Cardinality(Lines(x, {"claim"})) <=
              Cardinality(Lines(x, Closings)) + (IF poolStatus[x] = "claimed" THEN 1 ELSE 0)
      BY DEF ClaimsAreClosed
    <3> QED
      BY <1>1, <2>1, <3>1, <3>2, <3>3, <3>4
  <2> QED
    BY <2>3, <2>4 DEF ClaimsAreClosed
<1>3. ASSUME NEW r \in checked, CommitRelease(r) \/ CommitRead(r)
      PROVE  CountersMatchLog' /\ ClaimsAreClosed'
  <2> DEFINE e == Line(r.account, r.token, r.caller, r.op, "none")
  <2>1. r \in Requests /\ r.op \in {"release", "read"}
    BY <1>1, <1>3 DEF TypeOK, CommitRelease, CommitRead
  <2>2. e \in Entries /\ e.account = r.account /\ e.action = r.op /\ r.account \in Accounts
    BY <2>1 DEF Entries, Closings, Requests
  <2>3. /\ log' = Append(log, e) /\ UNCHANGED <<successCount, failCount>>
        /\ \/ UNCHANGED poolStatus
           \/ r.op = "release" /\ poolStatus' = [poolStatus EXCEPT ![r.account] = "available"]
    BY <1>3 DEF CommitRelease, CommitRead, Unclaim, Record
  <2> HIDE DEF e
  <2>4. CountersMatchLog'
    BY <1>1, <2>1, <2>2, <2>3, CountersStay
  <2>5. \A a \in Accounts : poolStatus'[a] = poolStatus[a] \/ (e.account = a /\ e.action \in Closings)
    BY <1>1, <2>2, <2>3 DEF Closings
  <2> QED
    BY <1>1, <2>1, <2>2, <2>3, <2>4, <2>5, LineCloses
<1>4. ASSUME NEW a \in Accounts, NEW t \in Tokens, NEW c \in Callers,
             NEW action \in {"complete", "expire"}, NEW result \in Results \cup {"none"},
             NEW status \in Statuses,
             action = "expire" => result = "none",
             Record(a, t, c, action, result), poolStatus' = [poolStatus EXCEPT ![a] = status],
             IF result = "success"
             THEN UNCHANGED failCount /\ successCount' = [successCount EXCEPT ![a] = @ + 1]
             ELSE UNCHANGED successCount /\ failCount' = [failCount EXCEPT ![a] = @ + 1]
      PROVE  CountersMatchLog' /\ ClaimsAreClosed'
  <2> DEFINE e == Line(a, t, c, action, result)
  <2>1. /\ e \in Entries /\ e.account = a /\ e.action = action /\ e.result = result
        /\ log' = Append(log, e)
    BY <1>4 DEF Entries, Closings, Record
  <2> HIDE DEF e
  <2>2. ASSUME NEW x \in Accounts
        PROVE  successCount'[x] = Cardinality(Won(x))' /\ failCount'[x] = Cardinality(Lost(x))'
    <3>1. successCount[x] = Cardinality(Won(x)) /\ failCount[x] = Cardinality(Lost(x))
      BY Counters
    <3>2. LET ends == e.account = x /\ e.action \in {"complete", "expire"}
              wins == e.action = "complete" /\ e.result = "success"
          IN
          /\ Cardinality(Won(x))' = IF ends /\ wins THEN Cardinality(Won(x)) + 1 ELSE Cardinality(Won(x))
          /\ Cardinality(Lost(x))' = IF ends /\ ~wins THEN Cardinality(Lost(x)) + 1
                                                      ELSE Cardinality(Lost(x))
      BY <1>1, <2>1, CountsGrow
    <3>3. (e.action = "complete" /\ e.result = "success") <=> result = "success"
      BY <1>4, <2>1
    <3> QED
      BY <1>1, <1>4, <2>1, <3>1, <3>2, <3>3
  <2>3. \A x \in Accounts : poolStatus'[x] = poolStatus[x] \/ (e.account = x /\ e.action \in Closings)
    BY <1>1, <1>4, <2>1 DEF Closings
  <2> QED
    BY <1>1, <2>1, <2>2, <2>3, LineCloses DEF CountersMatchLog, Won, Lost
<1>5. ASSUME NEW r \in checked, CommitComplete(r) PROVE CountersMatchLog' /\ ClaimsAreClosed'
  <2>1. r \in Requests /\ r.result \in Results
    BY <1>1, <1>5 DEF TypeOK, IInv, CompletionsHaveResults, CommitComplete
  <2>2. r.account \in Accounts /\ r.token \in Tokens /\ r.caller \in Callers
    BY <2>1 DEF Requests
  <2>3. RESULT_TO_POOL_STATUS[r.result] \in Statuses
    BY <2>1, ResultStatuses DEF Statuses, PoolStatuses
  <2> QED
    BY <1>4, <1>5, <2>1, <2>2, <2>3 DEF CommitComplete, Unclaim
<1>6. ASSUME NEW v \in sweep, SweepExpire(v) PROVE CountersMatchLog' /\ ClaimsAreClosed'
  <2>1. v.account \in Accounts /\ v.token \in Tokens /\ v.caller \in Callers
    BY <1>1 DEF TypeOK, Victims
  <2>2. "none" # "success" /\ "cooldown" \in Statuses
    BY DEF Statuses, PoolStatuses
  <2> QED
    BY <1>4, <1>6, <2>1, <2>2 DEF SweepExpire, Unclaim
<1>7. ASSUME NEW a \in Accounts, DeleteAccount(a) PROVE CountersMatchLog' /\ ClaimsAreClosed'
  <2>1. Lines(a, {"claim"}) = {}
    BY <1>7 DEF DeleteAccount, Referenced, Lines
  <2> QED
    BY <1>1, <1>7, <2>1, SumsStay DEF DeleteAccount
<1>8. ASSUME NEW a \in Accounts, AddAccount(a) \/ EditAccount(a) PROVE CountersMatchLog' /\ ClaimsAreClosed'
  BY <1>1, <1>8, SumsStay DEF AddAccount, EditAccount
<1>9. CASE Check
  BY <1>1, <1>9, SumsStay DEF Check, CheckRelease, CheckComplete, CheckRead, Admit
<1>10. CASE SweepSelect \/ Restart \/ Clock
  BY <1>1, <1>10, SumsStay DEF SweepSelect, Restart, Clock, LeaseElapses, CooldownElapses
<1>11. CASE RecoverCooldown
  BY <1>1, <1>11, SumsStay DEF RecoverCooldown
<1>12. CASE UNCHANGED vars
  BY <1>1, <1>12, SumsStay DEF vars
<1> QED
  BY <1>2, <1>3, <1>5, <1>6, <1>7, <1>8, <1>9, <1>10, <1>11, <1>12 DEF Next, Admin, Commit, Expire

\* The counters and the closing lines add up in every state of the pool.
THEOREM SumsInvariant == Spec => [](CountersMatchLog /\ ClaimsAreClosed)
<1>1. Init => CountersMatchLog /\ ClaimsAreClosed
  <2> SUFFICES ASSUME Init PROVE CountersMatchLog /\ ClaimsAreClosed
    OBVIOUS
  <2>1. \A a, actions : Lines(a, actions) = {}
    BY EmptySeq, LenProperties DEF Init, Lines
  <2>2. Cardinality({}) = 0
    BY FS_EmptySet
  <2>3. \A a : Won(a) = {} /\ Lost(a) = {}
    BY <2>1 DEF Won, Lost
  <2>4. CountersMatchLog
    BY <2>2, <2>3, Counters DEF Init
  <2>5. ClaimsAreClosed
    BY <2>1, <2>2 DEF ClaimsAreClosed
  <2> QED
    BY <2>4, <2>5
<1>2. IInv /\ (CountersMatchLog /\ ClaimsAreClosed) /\ [Next]_vars => (CountersMatchLog /\ ClaimsAreClosed)'
  BY SumsStep
<1> QED
  BY <1>1, <1>2, Invariance, PTL DEF Spec

\* What the API reports of an account, its successes and its failures, is what
\* the claim log says of it, in whatever order requests and jobs commit.
THEOREM CountersAreTrue == Spec => []CountersMatchLog
BY SumsInvariant, PTL

\* No claim is left open behind a row that is not claimed any more, and a
\* claimed row has one open claim at most.
THEOREM ClaimsEndInTheLog == Spec => []ClaimsAreClosed
BY SumsInvariant, PTL

-----------------------------------------------------------------------------
(* The pool implements PoolLedger.                                         *)

\* Ending a claim is End, or nothing when the row holds none.
LEMMA UnclaimEnds ==
    ASSUME TypeOK, NEW a \in Accounts, NEW status, Unclaim(a, status), UNCHANGED granted
    PROVE  [Ledger!Next]_<<granted, claimToken>>
<1>1. CASE claimToken[a] = 0
  <2>1. claimToken' = claimToken
    BY <1>1 DEF Unclaim, TypeOK, NoToken
  <2> QED
    BY <2>1
<1>2. CASE claimToken[a] # 0
  <2>1. Ledger!End(a)
    BY <1>2 DEF Ledger!End, Unclaim, NoToken
  <2> QED
    BY <2>1 DEF Ledger!Next
<1> QED
  BY <1>1, <1>2

\* A claim is Grant: the row it takes holds no token, and the usage table
\* stands for every earlier claim with a project.
LEMMA ClaimGrants ==
    ASSUME TypeOK, HolderIsLatestGrant, UsageCoversGrants,
           NEW c \in Callers, NEW p \in Projects \cup {NoProject}, ClaimRandom(c, p)
    PROVE  Ledger!Next
<1>1. PICK a \in Claimable(c, p) :
          /\ claimToken' = [claimToken EXCEPT ![a] = Len(granted) + 1]
          /\ granted' = Append(granted, [account |-> a, caller |-> c, project |-> p])
  BY DEF ClaimRandom
<1>2. a \in Accounts /\ poolStatus[a] = "available" /\ <<a, c, p>> \notin usage
  BY DEF Claimable
<1>3. claimToken[a] = 0
  BY <1>2 DEF HolderIsLatestGrant, NoToken
<1>4. ~Ledger!Reused(a, c, p)
  <2> SUFFICES ASSUME p # NoProject, NEW i \in DOMAIN granted,
                      granted[i] = [account |-> a, caller |-> c, project |-> p]
               PROVE  FALSE
    BY DEF Ledger!Reused
  <2> QED
    BY <1>2 DEF UsageCoversGrants, Projected
<1>5. Ledger!Grant(a, c, p)
  BY <1>1, <1>3, <1>4 DEF Ledger!Grant
<1> QED
  BY <1>2, <1>5 DEF Ledger!Next

\* Every step of the pool is a step of the ledger or leaves it alone.
LEMMA LedgerStep == IInv /\ [Next]_vars => [Ledger!Next]_<<granted, claimToken>>
<1> SUFFICES ASSUME IInv, [Next]_vars
             PROVE  [Ledger!Next]_<<granted, claimToken>>
  OBVIOUS
<1> USE DEF IInv, rowVars, claimVars
<1>1. CASE UNCHANGED <<granted, claimToken>>
  BY <1>1
<1>2. CASE Claim
  BY <1>2, ClaimGrants DEF Claim
<1>3. ASSUME NEW r \in checked, CommitRelease(r) \/ CommitComplete(r)
      PROVE  [Ledger!Next]_<<granted, claimToken>>
  <2>1. r.account \in Accounts
    BY DEF TypeOK, Requests
  <2>2. CASE CommitRelease(r)
    BY <2>1, <2>2, UnclaimEnds DEF CommitRelease
  <2>3. CASE CommitComplete(r)
    BY <2>1, <2>3, UnclaimEnds DEF CommitComplete
  <2> QED
    BY <1>3, <2>2, <2>3
<1>4. ASSUME NEW r \in checked, CommitRead(r)
      PROVE  [Ledger!Next]_<<granted, claimToken>>
  BY <1>1, <1>4 DEF CommitRead
<1>5. ASSUME NEW v \in sweep, SweepExpire(v)
      PROVE  [Ledger!Next]_<<granted, claimToken>>
  <2>1. v.account \in Accounts
    BY DEF TypeOK, Victims
  <2> QED
    BY <1>5, <2>1, UnclaimEnds DEF SweepExpire
<1>6. CASE Admin
  BY <1>1, <1>6 DEF Admin, AddAccount, EditAccount, DeleteAccount
<1>7. CASE Check
  BY <1>1, <1>7 DEF Check, CheckRelease, CheckComplete, CheckRead, Admit
<1>8. CASE SweepSelect \/ RecoverCooldown \/ Restart
  BY <1>1, <1>8 DEF SweepSelect, RecoverCooldown, Restart
<1>9. CASE Clock
  BY <1>1, <1>9 DEF Clock, LeaseElapses, CooldownElapses
<1>10. CASE UNCHANGED vars
  BY <1>1, <1>10 DEF vars
<1> QED
  BY <1>2, <1>3, <1>4, <1>5, <1>6, <1>7, <1>8, <1>9, <1>10 DEF Next, Commit, Expire

\* The pool, with its split checks and writes, its jobs and its restarts,
\* implements the ledger of exclusive claims.
THEOREM Refinement == Spec => LedgerSpec
<1>1. Init => Ledger!Init
  BY DEF Init, Ledger!Init, NoToken
<1>2. IInv /\ [Next]_vars => [Ledger!Next]_<<granted, claimToken>>
  BY LedgerStep
<1> QED
  BY <1>1, <1>2, Invariance, PTL DEF Spec, LedgerSpec, Ledger!Spec
=============================================================================

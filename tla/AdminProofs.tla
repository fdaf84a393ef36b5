---------------------------- MODULE AdminProofs -----------------------------
(***************************************************************************)
(* Proofs about what guards and configures the program: the limiter of the *)
(* login, for any finite number of requests and any limit; the one-time    *)
(* tokens of the exports, for any tokens, clients and requests; the        *)
(* settings, for any editors and any number of saves; and the migrations   *)
(* of the database file, which is never half upgraded, for any programs,   *)
(* mailboxes and stored secrets and any number of starts.                  *)
(***************************************************************************)
EXTENDS ExportToken, Login, Settings, Migration, FiniteSetTheorems, SequenceTheorems, TLAPS

-----------------------------------------------------------------------------
(* The one-time export token: the inductive invariant.                     *)

\* The request that has begun its transaction is the one with the lock.
InTransactionHoldsLock ==
    \A t \in ExportThreads : export[t].step \in {"begun", "spend", "drop"} => writer = t

\* Between the read of the row and its deletion the row stays: time may make
\* it expire, nobody removes it or gives it to another client.
SpentIsGranted ==
    \A t \in ExportThreads :
        export[t].step = "spend" =>
            /\ granted[export[t].token].is \in {"live", "expired"}
            /\ SameClient(granted[export[t].token].client, export[t].client)

\* Only a token whose row is gone has opened an export: one, for one client that
\* the code takes for the token's.
OpenedIsGone ==
    \A k \in Tokens, c \in Clients : opened[k][c] > 0 =>
        /\ granted[k].is = "gone" /\ SameClient(granted[k].client, c)
        /\ opened[k][c] = 1
        /\ \A d \in Clients \ {c} : opened[k][d] = 0

ExportInv == /\ ExportTokenTypeOK
             /\ InTransactionHoldsLock
             /\ SpentIsGranted
             /\ OpenedIsGone

\* An empty table, and no requests.
LEMMA ExportInvInit == ExportTokenInit => ExportInv
<1> SUFFICES ASSUME ExportTokenInit PROVE ExportInv
  OBVIOUS
<1>1. (CHOOSE c \in Clients : TRUE) \in Clients
  <2>1. PICK a \in Addresses : [address |-> a, agent |-> NoAgent] \in Clients
    BY ExportTokenAssumption DEF ExportTokenAssumption, Clients
  <2> QED
    BY <2>1
<1> QED
  BY <1>1 DEF ExportTokenInit, ExportInv, ExportTokenTypeOK, InTransactionHoldsLock,
              SpentIsGranted, OpenedIsGone, ExportIdle

\* The step of a request with a token changes its step alone.
LEMMA TakesStep ==
    ASSUME ExportTokenTypeOK, NEW t \in ExportThreads, export[t] # ExportIdle,
           NEW step \in {"asked", "begun", "spend", "drop"}, Takes(t, step)
    PROVE  /\ export' \in [ExportThreads -> {ExportIdle} \cup Spending]
           /\ export'[t].step = step
           /\ export'[t].token = export[t].token
           /\ export'[t].client = export[t].client
           /\ \A u \in ExportThreads \ {t} : export'[u] = export[u]
<1>1. export[t] \in Spending
  BY DEF ExportTokenTypeOK
<1>2. [export[t] EXCEPT !.step = step] \in Spending
  BY <1>1 DEF Spending
<1>3. export' = [export EXCEPT ![t] = [export[t] EXCEPT !.step = step]]
  BY DEF Takes
<1> QED
  BY <1>1, <1>2, <1>3 DEF ExportTokenTypeOK, Spending

\* Every step keeps it.  Only IssueExportToken, which waits for the lock, and
\* the request with the lock remove rows.
LEMMA ExportInvStep == ExportInv /\ [ExportTokenNext]_exportVars => ExportInv'
<1> SUFFICES ASSUME ExportInv, [ExportTokenNext]_exportVars PROVE ExportInv'
  OBVIOUS
<1> USE DEF ExportInv
<1>a. ExportIdle \notin Spending /\ ExportIdle.step = "idle"
  BY DEF ExportIdle, Spending
<1>1. ASSUME NEW k \in Tokens, TokenExpires(k)
      PROVE  ExportInv'
  BY <1>1 DEF TokenExpires, ExportTokenTypeOK, InTransactionHoldsLock, SpentIsGranted, OpenedIsGone
<1>2. ASSUME NEW k \in Tokens, NEW c \in Clients, IssueExportToken(k, c)
      PROVE  ExportInv'
  <2>1. \A t \in ExportThreads : export[t].step # "spend"
    BY <1>2, ExportTokenAssumption
       DEF IssueExportToken, InTransactionHoldsLock, ExportTokenAssumption
  <2>2. ExportTokenTypeOK'
    BY <1>2 DEF IssueExportToken, ExportTokenTypeOK
  <2>3. OpenedIsGone'
    BY <1>2 DEF IssueExportToken, ExportTokenTypeOK, OpenedIsGone
  <2> QED
    BY <1>2, <2>1, <2>2, <2>3 DEF IssueExportToken, InTransactionHoldsLock, SpentIsGranted
<1>3. ASSUME NEW t \in ExportThreads, NEW k \in Tokens, NEW c \in Clients, AskExport(t, k, c)
      PROVE  ExportInv'
  <2>1. ExportTokenTypeOK'
    BY <1>3 DEF AskExport, ExportTokenTypeOK, Spending
  <2> QED
    BY <1>3, <2>1 DEF AskExport, ExportTokenTypeOK, InTransactionHoldsLock, SpentIsGranted,
                      OpenedIsGone
<1>4. ASSUME NEW t \in ExportThreads, BeginExport(t)
      PROVE  ExportInv'
  <2>1. export[t] # ExportIdle
    BY <1>4, <1>a DEF BeginExport
  <2>2. /\ export' \in [ExportThreads -> {ExportIdle} \cup Spending]
        /\ export'[t].step = "begun"
        /\ \A u \in ExportThreads \ {t} : export'[u] = export[u]
    BY <1>4, <2>1, TakesStep DEF BeginExport
  <2>3. \A u \in ExportThreads : export[u].step \notin {"begun", "spend", "drop"}
    BY <1>4, ExportTokenAssumption
       DEF BeginExport, InTransactionHoldsLock, ExportTokenAssumption
  <2> QED
    BY <1>4, <2>2, <2>3 DEF BeginExport, ExportTokenTypeOK, InTransactionHoldsLock,
                            SpentIsGranted, OpenedIsGone
<1>5. ASSUME NEW t \in ExportThreads, ReadToken(t)
      PROVE  ExportInv'
  <2>1. export[t] # ExportIdle /\ writer = t
    BY <1>5, <1>a DEF ReadToken, InTransactionHoldsLock
  <2>2. CASE export' = [export EXCEPT ![t] = ExportIdle] /\ writer' = Unlocked
    BY <1>5, <1>a, <2>1, <2>2 DEF ReadToken, ExportTokenTypeOK, InTransactionHoldsLock,
                            SpentIsGranted, OpenedIsGone
  <2>3. ASSUME NEW step \in {"drop", "spend"}, Takes(t, step), UNCHANGED writer,
               step = "spend" => /\ granted[export[t].token].is = "live"
                                 /\ SameClient(granted[export[t].token].client, export[t].client)
        PROVE  ExportInv'
    <3>1. /\ export' \in [ExportThreads -> {ExportIdle} \cup Spending]
          /\ export'[t].step = step
          /\ export'[t].token = export[t].token
          /\ export'[t].client = export[t].client
          /\ \A u \in ExportThreads \ {t} : export'[u] = export[u]
      BY <2>1, <2>3, TakesStep
    <3> QED
      BY <1>5, <2>1, <2>3, <3>1 DEF ReadToken, ExportTokenTypeOK, InTransactionHoldsLock,
                              SpentIsGranted, OpenedIsGone
  <2> QED
    BY <1>5, <2>2, <2>3 DEF ReadToken
<1>6. ASSUME NEW t \in ExportThreads, DeleteToken(t)
      PROVE  ExportInv'
  <2> DEFINE k == export[t].token
             c == export[t].client
  <2>1. export[t] \in Spending /\ k \in Tokens /\ c \in Clients /\ writer = t
    BY <1>6, <1>a DEF DeleteToken, ExportTokenTypeOK, InTransactionHoldsLock, Spending
  <2>2. \A u \in ExportThreads \ {t} : export'[u] = export[u] /\ export[u].step \notin {"begun", "spend", "drop"}
    BY <1>6, <2>1 DEF DeleteToken, InTransactionHoldsLock, ExportTokenTypeOK
  <2>3. export'[t] = ExportIdle
    BY <1>6 DEF DeleteToken, ExportTokenTypeOK
  <2>4. ExportTokenTypeOK'
    BY <1>6, <2>1 DEF DeleteToken, ExportTokenTypeOK
  <2>5. OpenedIsGone'
    <3>1. \A j \in Tokens : /\ granted'[j].client = granted[j].client
                            /\ granted[j].is = "gone" \/ j = k => granted'[j].is = "gone"
      BY <1>6, <2>1 DEF DeleteToken, ExportTokenTypeOK
    <3>2. CASE export[t].step = "spend"
      <4>1. SameClient(granted[k].client, c) /\ \A d \in Clients : opened[k][d] = 0
        <5>1. granted[k].is # "gone" /\ SameClient(granted[k].client, c)
          BY <3>2 DEF SpentIsGranted
        <5>2. \A d \in Clients : opened[k][d] \in Nat /\ ~(opened[k][d] > 0)
          BY <2>1, <5>1 DEF OpenedIsGone, ExportTokenTypeOK
        <5> QED
          BY <5>1, <5>2
      <4>2. /\ opened'[k][c] = 1 /\ \A d \in Clients \ {c} : opened'[k][d] = 0
            /\ \A j \in Tokens \ {k} : opened'[j] = opened[j]
        BY <1>6, <2>1, <3>2, <4>1 DEF DeleteToken, ExportTokenTypeOK
      <4> QED
        BY <2>1, <3>1, <4>1, <4>2 DEF OpenedIsGone
    <3>3. CASE export[t].step # "spend"
      BY <1>6, <3>1, <3>3 DEF DeleteToken, OpenedIsGone
    <3> QED
      BY <3>2, <3>3
  <2> QED
    BY <1>a, <2>2, <2>3, <2>4, <2>5 DEF InTransactionHoldsLock, SpentIsGranted
<1>7. ASSUME NEW t \in ExportThreads, ExportErrs(t)
      PROVE  ExportInv'
  BY <1>7, <1>a DEF ExportErrs, ExportTokenTypeOK, InTransactionHoldsLock, SpentIsGranted, OpenedIsGone
<1>8. CASE UNCHANGED exportVars
  BY <1>8 DEF exportVars, ExportTokenTypeOK, InTransactionHoldsLock, SpentIsGranted, OpenedIsGone
<1> QED
  BY <1>1, <1>2, <1>3, <1>4, <1>5, <1>6, <1>7, <1>8 DEF ExportTokenNext

\* The inductive invariant of the export tokens holds in every behaviour.
THEOREM ExportInvariant == ExportTokenSpec => []ExportInv
BY ExportInvInit, ExportInvStep, PTL DEF ExportTokenSpec

\* However many requests present a token at once, it opens one export, from the
\* address of the client that was asked for the password, and from its browser
\* unless one of the two requests names none.
THEOREM ExportOnce == ExportTokenSpec => []ExportedOnce
<1>1. ExportInv => ExportedOnce
  BY DEF ExportInv, ExportTokenTypeOK, OpenedIsGone, ExportedOnce
<1> QED
  BY <1>1, ExportInvariant, PTL

-----------------------------------------------------------------------------
(* The limiter of the login: the inductive invariant.                      *)

In(step) == {t \in LoginThreads : login[t] = step}
Number(step) == Cardinality(In(step))

\* The failures the row still speaks for.
Counted == IF attempts.window = "open" THEN attempts.count ELSE 0

\* Every wrong password is in the row, about to be, or was lost to a mishap.
WrongIsCounted == wrong <= Counted + Number("wrong") + slips

\* Requests the limiter has let through, whose password is not yet compared,
\* are covered by the limit as well.
AdmittedIsBounded ==
    wrong + Number("verify") <= MaxAttempts + (Cardinality(LoginThreads) - 1) + slips

LoginInv == LoginTypeOK /\ WrongIsCounted /\ AdmittedIsBounded

\* How many requests are at a step is a number, and two steps share none.
LEMMA NumberType ==
    ASSUME NEW t \in LoginThreads
    PROVE  /\ \A step : Number(step) \in Nat
           /\ Cardinality(LoginThreads) \in Nat
           /\ Cardinality(LoginThreads) >= 1
           /\ Number("verify") + Number("wrong") <= Cardinality(LoginThreads)
           /\ login[t] \notin {"verify", "wrong"} =>
                Number("verify") + Number("wrong") <= Cardinality(LoginThreads) - 1
<1>1. IsFiniteSet(LoginThreads)
  BY LoginAssumption DEF LoginAssumption
<1>2. \A step : IsFiniteSet(In(step)) /\ Number(step) \in Nat
  BY <1>1, FS_Subset, FS_CardinalityType DEF In, Number
<1>3. Cardinality(LoginThreads) \in Nat /\ Cardinality(LoginThreads) >= 1
  <2>1. Cardinality(LoginThreads) \in Nat /\ Cardinality(LoginThreads) # 0
    BY <1>1, FS_CardinalityType, FS_EmptySet
  <2> QED
    BY <2>1
<1> DEFINE Both == In("verify") \cup In("wrong")
<1>4. Cardinality(Both) = Number("verify") + Number("wrong")
  <2>1. In("verify") \cap In("wrong") = {}
    BY DEF In
  <2>2. Cardinality(Both) = Number("verify") + Number("wrong") - Cardinality({})
    BY <1>2, <2>1, FS_Union DEF Number
  <2> QED
    BY <1>2, <2>2, FS_EmptySet
<1>5. Cardinality(Both) <= Cardinality(LoginThreads)
  <2>1. Both \in SUBSET LoginThreads
    BY DEF In
  <2> QED
    BY <1>1, <2>1, FS_Subset
<1>6. ASSUME login[t] \notin {"verify", "wrong"}
      PROVE  Cardinality(Both) <= Cardinality(LoginThreads) - 1
  <2>1. Both \in SUBSET (LoginThreads \ {t})
    BY <1>6 DEF In
  <2>2. IsFiniteSet(LoginThreads \ {t}) /\ Cardinality(LoginThreads \ {t}) = Cardinality(LoginThreads) - 1
    BY <1>1, FS_RemoveElement
  <2> QED
    BY <2>1, <2>2, FS_Subset
<1> QED
  BY <1>2, <1>3, <1>4, <1>5, <1>6

\* A request that goes from one step to another moves from one number to the
\* other and leaves the rest alone.
LEMMA NumberStep ==
    ASSUME LoginTypeOK, NEW t \in LoginThreads, NEW to, Goes(t, to), NEW step
    PROVE  Number(step)' = CASE step = to /\ login[t] # step -> Number(step) + 1
                             [] step # to /\ login[t] = step -> Number(step) - 1
                             [] OTHER -> Number(step)
<1>1. IsFiniteSet(In(step))
  BY LoginAssumption, FS_Subset DEF LoginAssumption, In
<1>2. \A u \in LoginThreads : login'[u] = IF u = t THEN to ELSE login[u]
  BY DEF LoginTypeOK, Goes
<1>3. CASE step = to /\ login[t] # step
  <2>1. In(step)' = In(step) \cup {t} /\ t \notin In(step)
    BY <1>2, <1>3 DEF In
  <2> QED
    BY <1>1, <1>3, <2>1, FS_AddElement DEF Number
<1>4. CASE step # to /\ login[t] = step
  <2>1. In(step)' = In(step) \ {t} /\ t \in In(step)
    BY <1>2, <1>4 DEF In
  <2> QED
    BY <1>1, <1>4, <2>1, FS_RemoveElement DEF Number
<1>5. CASE step = to <=> login[t] = step
  <2>1. In(step)' = In(step)
    BY <1>2, <1>5 DEF In
  <2> QED
    BY <1>5, <2>1 DEF Number
<1> QED
  BY <1>3, <1>4, <1>5

\* A step that moves no request leaves the numbers alone.
LEMMA NumberKept ==
    ASSUME login' = login, NEW step
    PROVE  Number(step)' = Number(step)
BY DEF Number, In

\* Without a row nothing is counted; with one, its count is a number.
LEMMA RowType ==
    ASSUME LoginTypeOK
    PROVE  /\ Counted \in Nat
           /\ attempts = NoRow <=> attempts.window = "none"
           /\ attempts # NoRow => /\ attempts.count \in Nat
                                  /\ attempts.window \in {"open", "past", "old"}
                                  /\ attempts.locked \in BOOLEAN
                                  /\ attempts = [count |-> attempts.count, window |-> attempts.window,
                                                 locked |-> attempts.locked]
BY DEF LoginTypeOK, NoRow, Counted

\* No request and no row.
LEMMA LoginInvInit == LoginInit => LoginInv
<1> SUFFICES ASSUME LoginInit PROVE LoginInv
  OBVIOUS
<1>1. In("wrong") = {} /\ In("verify") = {}
  BY DEF LoginInit, In
<1>2. Number("wrong") = 0 /\ Number("verify") = 0 /\ Counted = 0
  BY <1>1, FS_EmptySet DEF Number, LoginInit, Counted, NoRow
<1>3. Cardinality(LoginThreads) \in Nat /\ MaxAttempts \in Nat \ {0}
  BY LoginAssumption, FS_CardinalityType DEF LoginAssumption
<1> QED
  BY <1>2, <1>3 DEF LoginInit, LoginInv, LoginTypeOK, WrongIsCounted, AdmittedIsBounded

\* Every step of a request keeps it.
LEMMA RequestStep ==
    ASSUME LoginInv, NEW t \in LoginThreads,
           \/ CheckLimit(t) \/ RestartCount(t) \/ LockOut(t) \/ CheckErrs(t)
           \/ VerifyPassword(t) \/ RecordFailure(t) \/ RecordErrs(t) \/ ResetAttempts(t)
    PROVE  LoginInv'
<1> USE DEF LoginInv
<1> DEFINE n == Cardinality(LoginThreads)
           V == Number("verify")
           W == Number("wrong")
<1>1. /\ V \in Nat /\ W \in Nat /\ n \in Nat /\ n >= 1
      /\ V + W <= n
      /\ login[t] \notin {"verify", "wrong"} => V + W <= n - 1
  BY NumberType
<1>2. /\ MaxAttempts \in Nat /\ MaxAttempts >= 1
      /\ wrong \in Nat /\ slips \in Nat /\ Counted \in Nat
      /\ wrong <= Counted + W + slips
      /\ wrong + V <= MaxAttempts + (n - 1) + slips
  BY LoginAssumption, RowType DEF LoginAssumption, LoginTypeOK, WrongIsCounted, AdmittedIsBounded
<1>3. ASSUME NEW to \in {"idle", "restart", "lock", "verify", "wrong", "right"}, Goes(t, to)
      PROVE  /\ login' \in [LoginThreads -> {"idle", "restart", "lock", "verify", "wrong", "right"}]
             /\ V' = IF to = "verify" THEN IF login[t] = "verify" THEN V ELSE V + 1
                     ELSE IF login[t] = "verify" THEN V - 1 ELSE V
             /\ W' = IF to = "wrong" THEN IF login[t] = "wrong" THEN W ELSE W + 1
                     ELSE IF login[t] = "wrong" THEN W - 1 ELSE W
  BY <1>3, NumberStep DEF LoginTypeOK, Goes
<1>4. ASSUME attempts' = attempts
      PROVE  Counted' = Counted
  BY <1>4 DEF Counted
<1>5. CASE CheckLimit(t)
  <2>1. /\ Verdict(attempts) \in {"idle", "restart", "lock", "verify"}
        /\ Verdict(attempts) = "verify" => Counted < MaxAttempts
    BY <1>2, RowType DEF Verdict, Counted, NoRow
  <2> QED
    BY <1>1, <1>2, <1>3, <1>4, <1>5, <2>1
       DEF CheckLimit, At, LoginTypeOK, WrongIsCounted, AdmittedIsBounded
<1>6. CASE RestartCount(t)
  <2>1. Counted' = 0
    BY <1>6 DEF RestartCount, Counted, NoRow
  <2>2. slips' = slips + Counted
    BY <1>6 DEF RestartCount, Counted
  <2>3. attempts' \in [count : Nat, window : {"open", "past", "old"}, locked : BOOLEAN] \cup {NoRow}
    BY <1>6 DEF RestartCount
  <2> QED
    BY <1>1, <1>2, <1>3, <1>6, <2>1, <2>2, <2>3
       DEF RestartCount, At, LoginTypeOK, WrongIsCounted, AdmittedIsBounded
<1>7. CASE LockOut(t)
  <2>1. /\ Counted' = Counted
        /\ attempts' \in [count : Nat, window : {"open", "past", "old"}, locked : BOOLEAN] \cup {NoRow}
    BY <1>7, RowType DEF LockOut, Counted, LoginTypeOK
  <2> QED
    BY <1>1, <1>2, <1>3, <1>7, <2>1
       DEF LockOut, At, LoginTypeOK, WrongIsCounted, AdmittedIsBounded
<1>8. CASE CheckErrs(t)
  BY <1>1, <1>2, <1>3, <1>4, <1>8
     DEF CheckErrs, LoginTypeOK, WrongIsCounted, AdmittedIsBounded
<1>9. CASE VerifyPassword(t)
  BY <1>1, <1>2, <1>3, <1>4, <1>9
     DEF VerifyPassword, At, LoginTypeOK, WrongIsCounted, AdmittedIsBounded
<1>10. CASE RecordFailure(t)
  <2>1. /\ Counted' = Counted + 1
        /\ attempts' \in [count : Nat, window : {"open", "past", "old"}, locked : BOOLEAN] \cup {NoRow}
    <3>1. CASE attempts.window \in {"none", "old"}
      BY <1>10, <3>1 DEF RecordFailure, Counted
    <3>2. CASE attempts.window = "past"
      <4>1. attempts \in [count : Nat, window : {"open", "past", "old"}, locked : BOOLEAN]
        BY <3>2, RowType DEF LoginTypeOK
      <4>2. attempts' = [attempts EXCEPT !.count = 1, !.window = "open"]
        BY <1>10, <3>2 DEF RecordFailure
      <4>3. /\ attempts' \in [count : Nat, window : {"open", "past", "old"}, locked : BOOLEAN]
            /\ attempts'.window = "open"
            /\ attempts'.count = 1
        BY <4>1, <4>2
      <4> QED
        BY <3>2, <4>3 DEF Counted
    <3>3. CASE attempts.window = "open"
      <4>1. attempts \in [count : Nat, window : {"open", "past", "old"}, locked : BOOLEAN]
        BY <3>3, RowType DEF LoginTypeOK
      <4>2. attempts' = [attempts EXCEPT !.count = @ + 1]
        BY <1>10, <3>3 DEF RecordFailure
      <4> QED
        BY <3>3, <4>1, <4>2 DEF Counted
    <3> QED
      BY <3>1, <3>2, <3>3, RowType
  <2> QED
    BY <1>1, <1>2, <1>3, <1>10, <2>1
       DEF RecordFailure, At, LoginTypeOK, WrongIsCounted, AdmittedIsBounded
<1>11. CASE RecordErrs(t)
  BY <1>1, <1>2, <1>3, <1>4, <1>11
     DEF RecordErrs, At, LoginTypeOK, WrongIsCounted, AdmittedIsBounded
<1>12. CASE ResetAttempts(t)
  <2>1. Counted' = 0
    BY <1>12 DEF ResetAttempts, Counted, NoRow
  <2> QED
    BY <1>1, <1>2, <1>3, <1>12, <2>1
       DEF ResetAttempts, At, LoginTypeOK, WrongIsCounted, AdmittedIsBounded
<1> QED
  BY <1>5, <1>6, <1>7, <1>8, <1>9, <1>10, <1>11, <1>12

\* Time keeps it: with the window the failures of the window end.
LEMMA TimeStep ==
    ASSUME LoginInv, LockEnds \/ WindowPasses \/ SecondWindowPasses
    PROVE  LoginInv'
<1> USE DEF LoginInv
<1>1. /\ Number("verify") \in Nat /\ Number("wrong") \in Nat
      /\ Cardinality(LoginThreads) \in Nat
      /\ Number("verify") <= Cardinality(LoginThreads)
  <2>1. IsFiniteSet(LoginThreads) /\ \A step : In(step) \in SUBSET LoginThreads
    BY LoginAssumption DEF LoginAssumption, In
  <2> QED
    BY <2>1, FS_Subset, FS_CardinalityType DEF Number
<1>2. MaxAttempts \in Nat /\ MaxAttempts >= 1
  BY LoginAssumption DEF LoginAssumption
<1>3. Number("verify")' = Number("verify") /\ Number("wrong")' = Number("wrong")
  BY NumberKept DEF LockEnds, WindowPasses, SecondWindowPasses
<1>4. CASE LockEnds \/ SecondWindowPasses
  <2>1. /\ Counted' = Counted
        /\ attempts' \in [count : Nat, window : {"open", "past", "old"}, locked : BOOLEAN] \cup {NoRow}
    <3>1. attempts \in [count : Nat, window : {"open", "past", "old"}, locked : BOOLEAN]
      BY <1>4 DEF LockEnds, SecondWindowPasses, LoginTypeOK, NoRow
    <3> QED
      BY <1>4, <3>1 DEF LockEnds, SecondWindowPasses, Counted
  <2> QED
    BY <1>3, <1>4, <2>1
       DEF LockEnds, SecondWindowPasses, LoginTypeOK, WrongIsCounted, AdmittedIsBounded
<1>5. CASE WindowPasses
  <2>1. /\ Counted' = 0
        /\ attempts' \in [count : Nat, window : {"open", "past", "old"}, locked : BOOLEAN] \cup {NoRow}
    BY <1>5, RowType DEF WindowPasses, Counted, LoginTypeOK, NoRow
  <2> QED
    BY <1>1, <1>2, <1>3, <1>5, <2>1
       DEF WindowPasses, LoginTypeOK, WrongIsCounted, AdmittedIsBounded
<1> QED
  BY <1>4, <1>5

LEMMA LoginInvStep == LoginInv /\ [LoginNext]_loginVars => LoginInv'
<1>1. ASSUME LoginInv, UNCHANGED loginVars
      PROVE  LoginInv'
  BY <1>1, NumberKept DEF loginVars, LoginInv, LoginTypeOK, WrongIsCounted, AdmittedIsBounded, Counted
<1> QED
  BY <1>1, RequestStep, TimeStep DEF LoginNext

\* The inductive invariant of the login limiter holds in every behaviour.
THEOREM LoginInvariant == LoginSpec => []LoginInv
BY LoginInvInit, LoginInvStep, PTL DEF LoginSpec

\* However many requests of one address are served at once, the limiter lets
\* through at most one wrong password more for each other request under way,
\* and one for each mishap.
THEOREM LoginLimited == LoginSpec => []LoginFailuresBounded
<1>1. LoginInv => LoginFailuresBounded
  <2> SUFFICES ASSUME LoginInv PROVE LoginFailuresBounded
    OBVIOUS
  <2>1. Number("verify") \in Nat /\ Cardinality(LoginThreads) \in Nat
    BY LoginAssumption, FS_Subset, FS_CardinalityType DEF LoginAssumption, Number, In
  <2> QED
    BY <2>1, LoginAssumption DEF LoginInv, LoginTypeOK, AdmittedIsBounded, LoginFailuresBounded, LoginAssumption
<1> QED
  BY <1>1, LoginInvariant, PTL

-----------------------------------------------------------------------------
(* The settings: the inductive invariant.                                  *)

Schedules == Values.refresh
Saves == {NoSave} \cup [step : {"commit"}, change : PageChanges] \cup [step : {"reload"}]
       \cup [step : {"interval", "refresh"}, refresh : Schedules]
       \cup [step : {"dispatch"}, refresh : Schedules, every : {10, 60, 600}]

\* The fields of SettingsTypeOK that the jobs depend on, and each save whole.
Typed == /\ stored \in SettingsRows
         /\ save \in [Editors -> Saves]
         /\ jobs \in [refresh : {"none", "02:00", "cron"}, dispatch : {0, 10, 60, 600}]
         /\ doubt \in BOOLEAN

\* Without doubt, what a rebuild has read is still what is stored.
ReadsAreFresh ==
    ~doubt => \A t \in Editors :
                 /\ save[t].step \in {"interval", "dispatch", "refresh"} =>
                      save[t].refresh = stored.refresh
                 /\ save[t].step = "dispatch" => save[t].every = DispatchInterval(stored)

\* Without doubt, a job that is not as stored has a rebuild ahead of it.
DispatchFollows ==
    ~doubt => \/ jobs.dispatch = DispatchInterval(stored)
              \/ \E t \in Editors : save[t].step \in {"reload", "interval", "dispatch"}
RefreshFollows ==
    ~doubt => \/ jobs.refresh = RefreshJob(stored.refresh)
              \/ \E t \in Editors : save[t].step \in {"reload", "interval", "dispatch", "refresh"}

SettingsInv == Typed /\ ReadsAreFresh /\ DispatchFollows /\ RefreshFollows

-----------------------------------------------------------------------------
(* Pages, settings and jobs.                                               *)

LEMMA FieldNames ==
    /\ Fields = {"refresh", "poll", "mail", "to", "days"}
    /\ Values.refresh = Values["refresh"] /\ Values.poll = Values["poll"]
    /\ Values.mail = Values["mail"] /\ Values.to = Values["to"]
    /\ Values.days = Values["days"]
BY DEF Fields, Values

\* A page sends fields it has, with values they may take: one that the jobs
\* are built from, or refresh_interval_days alone.
LEMMA PageFields ==
    ASSUME NEW change \in PageChanges
    PROVE  /\ \A f \in DOMAIN change : f \in Fields /\ change[f] \in Values[f]
           /\ \/ DOMAIN change = {"days"}
              \/ DOMAIN change # {"days"} /\ ReloadNeeded(change)
<1>1. ASSUME NEW f \in Fields, change \in [{f} -> Values[f]]
      PROVE  DOMAIN change = {f} /\ change[f] \in Values[f]
  BY <1>1
<1>2. CASE \E f \in Fields : change \in [{f} -> Values[f]]
  <2>1. PICK f \in Fields : DOMAIN change = {f} /\ change[f] \in Values[f]
    BY <1>1, <1>2
  <2>2. f \in {"refresh", "poll", "mail", "to"} => DOMAIN change # {"days"} /\ ReloadNeeded(change)
    BY <2>1 DEF ReloadNeeded
  <2> QED
    BY <2>1, <2>2, FieldNames
<1>3. CASE change \in [mail : Values.mail, to : Values.to]
  <2>1. DOMAIN change = {"mail", "to"} /\ change["mail"] \in Values.mail /\ change["to"] \in Values.to
    BY <1>3
  <2>2. DOMAIN change # {"days"} /\ ReloadNeeded(change)
    BY <2>1 DEF ReloadNeeded
  <2> QED
    BY <2>1, <2>2, FieldNames
<1> QED
  BY <1>2, <1>3 DEF PageChanges

\* A page leaves the settings well-formed, and either its save rebuilds the
\* jobs or it has changed nothing that they are built from.
LEMMA PageChange ==
    ASSUME stored \in SettingsRows, NEW change \in PageChanges
    PROVE  /\ Changed(change) \in SettingsRows
           /\ \/ ReloadNeeded(change) /\ DOMAIN change # {"days"}
              \/ /\ DOMAIN change = {"days"}
                 /\ ~ReloadNeeded(change)
                 /\ Changed(change).refresh = stored.refresh
                 /\ DispatchInterval(Changed(change)) = DispatchInterval(stored)
<1> DEFINE new(f, old) == IF f \in DOMAIN change THEN change[f] ELSE old
<1>1. Changed(change) = [refresh |-> new("refresh", stored.refresh), poll |-> new("poll", stored.poll),
                         mail |-> new("mail", stored.mail), to |-> new("to", stored.to),
                         days |-> new("days", stored.days)]
  BY FieldNames DEF Changed
<1>2. Changed(change) \in SettingsRows
  <2>1. /\ stored.refresh \in Values.refresh /\ stored.poll \in Values.poll
        /\ stored.mail \in Values.mail /\ stored.to \in Values.to
        /\ stored.days \in Values.days
    BY DEF SettingsRows
  <2>2. /\ new("refresh", stored.refresh) \in Values.refresh /\ new("poll", stored.poll) \in Values.poll
        /\ new("mail", stored.mail) \in Values.mail /\ new("to", stored.to) \in Values.to
        /\ new("days", stored.days) \in Values.days
    BY <2>1, PageFields, FieldNames
  <2> HIDE DEF new
  <2> QED
    BY <1>1, <2>2 DEF SettingsRows
<1>3. CASE DOMAIN change = {"days"}
  <2>1. /\ new("refresh", stored.refresh) = stored.refresh /\ new("poll", stored.poll) = stored.poll
        /\ new("mail", stored.mail) = stored.mail /\ new("to", stored.to) = stored.to
    BY <1>3
  <2> HIDE DEF new
  <2>2. /\ Changed(change).refresh = stored.refresh /\ Changed(change).poll = stored.poll
        /\ Changed(change).mail = stored.mail /\ Changed(change).to = stored.to
    BY <1>1, <2>1
  <2>3. ~ReloadNeeded(change)
    BY <1>3 DEF ReloadNeeded
  <2> QED
    BY <1>2, <1>3, <2>2, <2>3 DEF DispatchInterval
<1> QED
  BY <1>2, <1>3, PageFields

LEMMA JobTypes ==
    /\ \A s : DispatchInterval(s) \in {10, 60, 600}
    /\ \A refresh : RefreshJob(refresh) \in {"none", "02:00", "cron"}
    /\ \A s : JobsOf(s) \in [refresh : {"none", "02:00", "cron"}, dispatch : {0, 10, 60, 600}]
<1>1. \A s : DispatchInterval(s) \in {10, 60, 600}
  BY DEF DispatchInterval, Seconds
<1>2. \A refresh : RefreshJob(refresh) \in {"none", "02:00", "cron"}
  BY DEF RefreshJob
<1> QED
  BY <1>1, <1>2 DEF JobsOf

\* What each step of a save says of the save.
LEMMA SaveShape ==
    ASSUME Typed, NEW t \in Editors
    PROVE  /\ save[t].step \in {"idle", "commit", "reload", "interval", "dispatch", "refresh"}
           /\ save[t].step = "commit" => save[t].change \in PageChanges
           /\ save[t].step \in {"interval", "dispatch", "refresh"} => save[t].refresh \in Schedules
           /\ save[t].step = "dispatch" => save[t].every \in {10, 60, 600}
BY DEF Typed, Saves, NoSave

\* A step of one save leaves the others alone.
LEMMA ContinueStep ==
    ASSUME Typed, NEW t \in Editors, NEW record \in Saves, Continue(t, record)
    PROVE  /\ save' \in [Editors -> Saves]
           /\ save'[t] = record
           /\ \A u \in Editors \ {t} : save'[u] = save[u]
BY DEF Typed, Continue

-----------------------------------------------------------------------------
(* Init and the steps.                                                     *)

\* The jobs as the scheduler builds them when the program starts.
LEMMA SettingsInvInit == SettingsInit => SettingsInv
<1> SUFFICES ASSUME SettingsInit PROVE SettingsInv
  OBVIOUS
<1>1. Typed
  BY JobTypes DEF SettingsInit, Typed, SettingsRows, Values, Saves, NoSave
<1> QED
  BY <1>1 DEF SettingsInit, SettingsInv, ReadsAreFresh, DispatchFollows, RefreshFollows, NoSave, JobsOf

\* Before the settings change.
LEMMA SubmitStep ==
    ASSUME SettingsInv, NEW t \in Editors,
           (\E change \in PageChanges : Submit(t, change)) \/ SaveFails(t)
    PROVE  SettingsInv'
<1>1. CASE \E change \in PageChanges : Submit(t, change)
  <2>1. PICK change \in PageChanges : Submit(t, change)
    BY <1>1
  <2>2. [step |-> "commit", change |-> change] \in Saves
    BY DEF Saves
  <2>3. /\ save' \in [Editors -> Saves]
        /\ save'[t].step = "commit" /\ save[t].step = "idle"
        /\ \A u \in Editors \ {t} : save'[u] = save[u]
    BY <2>1, <2>2, ContinueStep DEF Submit, SettingsInv, Saving
  <2> QED
    BY <2>1, <2>3 DEF Submit, SettingsInv, Typed, ReadsAreFresh, DispatchFollows, RefreshFollows
<1>2. CASE SaveFails(t)
  <2>1. NoSave \in Saves
    BY DEF Saves
  <2>2. /\ save' \in [Editors -> Saves]
        /\ save'[t].step = "idle" /\ save[t].step = "commit"
        /\ \A u \in Editors \ {t} : save'[u] = save[u]
    BY <1>2, <2>1, ContinueStep DEF SaveFails, SettingsInv, NoSave
  <2> QED
    BY <1>2, <2>2 DEF SaveFails, SettingsInv, Typed, ReadsAreFresh, DispatchFollows, RefreshFollows
<1> QED
  BY <1>1, <1>2

\* A commit leaves no doubt only if nobody else has begun to read, and then
\* it rebuilds the jobs itself or has changed nothing they are built from.
LEMMA CommitStep ==
    ASSUME SettingsInv, NEW t \in Editors, CommitSave(t)
    PROVE  SettingsInv'
<1> DEFINE change == save[t].change
<1>1. change \in PageChanges /\ save[t].step = "commit"
  BY SaveShape DEF CommitSave, SettingsInv
<1>2. /\ Changed(change) \in SettingsRows
      /\ \/ ReloadNeeded(change) /\ DOMAIN change # {"days"}
         \/ /\ DOMAIN change = {"days"}
            /\ ~ReloadNeeded(change)
            /\ Changed(change).refresh = stored.refresh
            /\ DispatchInterval(Changed(change)) = DispatchInterval(stored)
  BY <1>1, PageChange DEF SettingsInv, Typed
<1>3. /\ stored' = Changed(change)
      /\ Continue(t, IF ReloadNeeded(change) THEN [step |-> "reload"] ELSE NoSave)
      /\ doubt' = (HaveRead(t) \/ (doubt /\ DOMAIN change = {"days"}))
      /\ jobs' = jobs
  BY DEF CommitSave
<1>4. [step |-> "reload"] \in Saves /\ NoSave \in Saves
  BY DEF Saves
<1>5. /\ save' \in [Editors -> Saves]
      /\ save'[t].step = IF ReloadNeeded(change) THEN "reload" ELSE "idle"
      /\ \A u \in Editors \ {t} : save'[u] = save[u]
  BY <1>3, <1>4, ContinueStep DEF SettingsInv, NoSave
<1>6. Typed'
  BY <1>2, <1>3, <1>5 DEF SettingsInv, Typed
<1>7. ASSUME ~doubt'
      PROVE  \A u \in Editors : save'[u].step \notin {"interval", "dispatch", "refresh"}
  BY <1>3, <1>5, <1>7 DEF HaveRead
<1>8. CASE ReloadNeeded(change)
  BY <1>5, <1>6, <1>7, <1>8 DEF SettingsInv, ReadsAreFresh, DispatchFollows, RefreshFollows
<1>9. CASE ~ReloadNeeded(change)
  <2>1. /\ stored'.refresh = stored.refresh
        /\ DispatchInterval(stored)' = DispatchInterval(stored)
        /\ ~doubt' => ~doubt
    BY <1>2, <1>3, <1>9 DEF DispatchInterval
  <2> QED
    BY <1>1, <1>3, <1>5, <1>6, <1>7, <2>1
       DEF SettingsInv, ReadsAreFresh, DispatchFollows, RefreshFollows
<1> QED
  BY <1>8, <1>9

\* A rebuild reads the settings and sets the jobs by what it read.
LEMMA RebuildStep ==
    ASSUME SettingsInv, NEW t \in Editors,
           ReadSchedule(t) \/ ReadInterval(t) \/ SetDispatchJob(t) \/ SetRefreshJob(t)
    PROVE  SettingsInv'
<1> USE DEF SettingsInv
<1>1. stored.refresh \in Schedules
  BY DEF Typed, SettingsRows, Schedules
<1>2. CASE ReadSchedule(t)
  <2>1. [step |-> "interval", refresh |-> stored.refresh] \in Saves
    BY <1>1 DEF Saves
  <2>2. /\ save' \in [Editors -> Saves]
        /\ save'[t].step = "interval" /\ save'[t].refresh = stored.refresh
        /\ \A u \in Editors \ {t} : save'[u] = save[u]
    BY <1>2, <2>1, ContinueStep DEF ReadSchedule
  <2> QED
    BY <1>2, <2>2 DEF ReadSchedule, Typed, ReadsAreFresh, DispatchFollows, RefreshFollows
<1>3. CASE ReadInterval(t)
  <2>1. [step |-> "dispatch", refresh |-> save[t].refresh, every |-> DispatchInterval(stored)] \in Saves
    BY <1>3, JobTypes, SaveShape DEF ReadInterval, Saves
  <2>2. /\ save' \in [Editors -> Saves]
        /\ save'[t].step = "dispatch" /\ save'[t].refresh = save[t].refresh
        /\ save'[t].every = DispatchInterval(stored)
        /\ \A u \in Editors \ {t} : save'[u] = save[u]
    BY <1>3, <2>1, ContinueStep DEF ReadInterval
  <2> QED
    BY <1>3, <2>2 DEF ReadInterval, Typed, ReadsAreFresh, DispatchFollows, RefreshFollows
<1>4. CASE SetDispatchJob(t)
  <2>1. [step |-> "refresh", refresh |-> save[t].refresh] \in Saves
    BY <1>4, SaveShape DEF SetDispatchJob, Saves
  <2>2. /\ save' \in [Editors -> Saves]
        /\ save'[t].step = "refresh" /\ save'[t].refresh = save[t].refresh
        /\ \A u \in Editors \ {t} : save'[u] = save[u]
    BY <1>4, <2>1, ContinueStep DEF SetDispatchJob
  <2>3. /\ jobs' \in [refresh : {"none", "02:00", "cron"}, dispatch : {0, 10, 60, 600}]
        /\ jobs'.dispatch = save[t].every
    BY <1>4, SaveShape DEF SetDispatchJob, Typed
  <2> QED
    BY <1>4, <2>2, <2>3 DEF SetDispatchJob, Typed, ReadsAreFresh, DispatchFollows, RefreshFollows
<1>5. CASE SetRefreshJob(t)
  <2>1. NoSave \in Saves
    BY DEF Saves
  <2>2. /\ save' \in [Editors -> Saves]
        /\ save'[t].step = "idle"
        /\ \A u \in Editors \ {t} : save'[u] = save[u]
    BY <1>5, <2>1, ContinueStep DEF SetRefreshJob, NoSave
  <2>3. /\ jobs' \in [refresh : {"none", "02:00", "cron"}, dispatch : {0, 10, 60, 600}]
        /\ jobs'.refresh = RefreshJob(save[t].refresh)
        /\ jobs'.dispatch = jobs.dispatch
    BY <1>5, JobTypes DEF SetRefreshJob, Typed
  <2> QED
    BY <1>5, <2>2, <2>3 DEF SetRefreshJob, Typed, ReadsAreFresh, DispatchFollows, RefreshFollows
<1> QED
  BY <1>2, <1>3, <1>4, <1>5

\* A failed rebuild leaves doubt, a restart removes it.
LEMMA FailureStep ==
    ASSUME SettingsInv, (\E t \in Editors : ReloadFails(t)) \/ RestartScheduler
    PROVE  SettingsInv'
<1> USE DEF SettingsInv
<1>1. ASSUME NEW t \in Editors, ReloadFails(t)
      PROVE  SettingsInv'
  <2>1. NoSave \in Saves
    BY DEF Saves
  <2>2. save' \in [Editors -> Saves]
    BY <1>1, <2>1, ContinueStep DEF ReloadFails
  <2>3. jobs' \in [refresh : {"none", "02:00", "cron"}, dispatch : {0, 10, 60, 600}]
    BY <1>1 DEF ReloadFails, Typed
  <2> QED
    BY <1>1, <2>2, <2>3 DEF ReloadFails, Typed, ReadsAreFresh, DispatchFollows, RefreshFollows
<1>2. CASE RestartScheduler
  <2>1. Typed'
    <3>1. NoSave \in Saves
      BY DEF Saves
    <3>2. jobs' \in [refresh : {"none", "02:00", "cron"}, dispatch : {0, 10, 60, 600}]
      BY <1>2, JobTypes DEF RestartScheduler
    <3> QED
      BY <1>2, <3>1, <3>2 DEF RestartScheduler, Typed
  <2> QED
    BY <1>2, <2>1 DEF RestartScheduler, ReadsAreFresh, DispatchFollows, RefreshFollows, NoSave, JobsOf
<1> QED
  BY <1>1, <1>2

LEMMA SettingsInvStep == SettingsInv /\ [SettingsNext]_settingsVars => SettingsInv'
<1>1. ASSUME SettingsInv, UNCHANGED settingsVars
      PROVE  SettingsInv'
  BY <1>1 DEF settingsVars, SettingsInv, Typed, ReadsAreFresh, DispatchFollows, RefreshFollows,
              DispatchInterval
<1> QED
  BY <1>1, SubmitStep, CommitStep, RebuildStep, FailureStep DEF SettingsNext

-----------------------------------------------------------------------------

\* The inductive invariant of the settings holds in every behaviour.
THEOREM SettingsInvariant == SettingsSpec => []SettingsInv
BY SettingsInvInit, SettingsInvStep, PTL DEF SettingsSpec

\* Saves are counted up to their bound.
SavesCounted == saves \in 0 .. MaxSaves

LEMMA SavesCountedStep == SavesCounted /\ [SettingsNext]_settingsVars => SavesCounted'
<1> SUFFICES ASSUME SavesCounted, [SettingsNext]_settingsVars PROVE SavesCounted'
  OBVIOUS
<1>1. saves' = saves \/ (saves < MaxSaves /\ saves' = saves + 1)
  BY DEF SettingsNext, settingsVars, Submit, CommitSave, SaveFails, ReadSchedule, ReadInterval,
         SetDispatchJob, SetRefreshJob, ReloadFails, RestartScheduler
<1> QED
  BY <1>1, SettingsAssumption DEF SettingsAssumption, SavesCounted

LEMMA SettingsTyped == SettingsInv /\ SavesCounted => SettingsTypeOK
BY SaveShape DEF SettingsInv, Typed, SettingsTypeOK, SavesCounted

\* The settings, the saves and the jobs keep their types.
THEOREM SettingsTypeCorrect == SettingsSpec => []SettingsTypeOK
<1>1. SettingsInit => SavesCounted
  BY SettingsAssumption DEF SettingsAssumption, SettingsInit, SavesCounted
<1>2. SettingsSpec => []SavesCounted
  BY <1>1, SavesCountedStep, PTL DEF SettingsSpec
<1> QED
  BY <1>2, SettingsInvariant, SettingsTyped, PTL

\* Once all saves are done, in whatever order they committed and rebuilt, the
\* jobs run as the stored settings say, unless the save's answer left doubt.
THEOREM JobsFollowSettings == SettingsSpec => []JobsMatchSettings
<1>1. SettingsInv => JobsMatchSettings
  <2> SUFFICES ASSUME SettingsInv, \A t \in Editors : ~Saving(t), ~doubt
               PROVE  jobs = JobsOf(stored)
    BY DEF JobsMatchSettings
  <2>1. jobs.dispatch = DispatchInterval(stored) /\ jobs.refresh = RefreshJob(stored.refresh)
    BY DEF SettingsInv, DispatchFollows, RefreshFollows, Saving
  <2>2. jobs = [refresh |-> jobs.refresh, dispatch |-> jobs.dispatch]
    BY DEF SettingsInv, Typed
  <2> QED
    BY <2>1, <2>2 DEF JobsOf
<1> QED
  BY <1>1, SettingsInvariant, PTL


-----------------------------------------------------------------------------
(* Migrations: the inductive invariant.                                    *)

Files == [version : {0, 15, Version}, schema : SUBSET Schema,
          tokens : [Mailboxes -> {"none", "blank", "a", "b"}], filled : BOOLEAN,
          secrets : [OldSecrets -> {"none", "plain", "encrypted"}],
          password : {"none", "plain", "hashed"},
          group : {"none", "default", "renamed", "renamed and default"},
          log : Seq({"running", "success", "failed"}), error : BOOLEAN]

StepNames == {"tables", "tokens", "rows", "messages", "defaults", "pool", "secrets", "mark", "finish"}
Inside(p) == program[p] \in StepNames

\* The committed file, the transaction's copies of it, and the programs.
FilesTyped == /\ disk \in Files
              /\ work \in Files \cup {NoTransaction}
              /\ point \in Files \cup {NoTransaction}
              /\ program \in [Programs -> {"down", "waiting", "up"} \cup StepNames]

\* One program at most is inside the transaction.
OneTransaction ==
    /\ \A p, q \in Programs : Inside(p) /\ Inside(q) => p = q
    /\ (\E p \in Programs : Inside(p)) <=> work # NoTransaction
    /\ work = NoTransaction => point = NoTransaction

\* The transaction began from the file as it is now: its savepoint is that
\* file with one record more, if it is to be upgraded.
Recorded == [disk EXCEPT !.log = Append(@, "running")]
SavepointIsDisk ==
    work # NoTransaction =>
        /\ point = IF disk.version < Version THEN Recorded ELSE NoTransaction
        /\ work.log = IF disk.version < Version THEN Recorded.log ELSE disk.log
        /\ work.error = disk.error

TokensInOrder(tokens) == ~Duplicates(tokens) /\ \A b \in Mailboxes : tokens[b] # "blank"
SecretsEncrypted(secrets) == \A a \in OldSecrets : secrets[a] \in {"none", "encrypted"}

\* What the steps behind the program have achieved; all of it is there from
\* the start if the file was upgraded before.
Behind(p, before_) == program[p] \notin before_ \/ disk.version = Version
Progress(p) ==
    /\ Behind(p, {"tables"}) => {"tables", "columns"} \subseteq work.schema
    /\ Behind(p, {"tables", "tokens"}) => "unique tokens" \in work.schema /\ TokensInOrder(work.tokens)
    /\ Behind(p, {"tables", "tokens", "rows"}) => work.filled
    /\ Behind(p, {"tables", "tokens", "rows", "messages"}) => "message keys" \in work.schema
    /\ Behind(p, {"tables", "tokens", "rows", "messages", "defaults"}) => work.password = "hashed"
    /\ Behind(p, {"tables", "tokens", "rows", "messages", "defaults", "pool"}) =>
         {"pool columns", "usage tables"} \subseteq work.schema
    /\ Behind(p, {"tables", "tokens", "rows", "messages", "defaults", "pool", "secrets"}) =>
         SecretsEncrypted(work.secrets)
    /\ work.version = IF program[p] = "finish" THEN Version ELSE disk.version

MigrationInv == /\ FilesTyped
                /\ OneTransaction
                /\ SavepointIsDisk
                /\ \A p \in Programs : Inside(p) => Progress(p)
                /\ MigrationWhole

-----------------------------------------------------------------------------
(* Steps, files and tokens.                                                *)

LEMMA StepSet == ToSet(Steps) = StepNames
BY DEF ToSet, Steps, StepNames

LEMMA VersionValue == Version = 18
BY DEF Version

\* What a file holds.
LEMMA FileFields ==
    ASSUME NEW f \in Files
    PROVE  /\ f.version \in {0, 15, Version}
           /\ f.schema \subseteq Schema
           /\ f.tokens \in [Mailboxes -> {"none", "blank", "a", "b"}]
           /\ f.filled \in BOOLEAN
           /\ f.secrets \in [OldSecrets -> {"none", "plain", "encrypted"}]
           /\ f.password \in {"none", "plain", "hashed"}
           /\ f.group \in {"none", "default", "renamed", "renamed and default"}
           /\ f.log \in Seq({"running", "success", "failed"})
           /\ f.error \in BOOLEAN
BY DEF Files

\* A file stays one when a field of it is replaced by a value of its kind.
LEMMA FileUpdates ==
    ASSUME NEW f \in Files
    PROVE  /\ \A x \in {0, 15, Version} : [f EXCEPT !.version = x] \in Files
           /\ \A x \in SUBSET Schema : [f EXCEPT !.schema = x] \in Files
           /\ \A x \in [Mailboxes -> {"none", "blank", "a", "b"}], y \in SUBSET Schema :
                [f EXCEPT !.tokens = x, !.schema = y] \in Files
           /\ [f EXCEPT !.filled = TRUE] \in Files
           /\ \A x \in [OldSecrets -> {"none", "plain", "encrypted"}] :
                [f EXCEPT !.secrets = x] \in Files
           /\ \A x \in {"none", "default", "renamed", "renamed and default"} :
                [f EXCEPT !.password = "hashed", !.group = x] \in Files
           /\ \A x \in Seq({"running", "success", "failed"}) : [f EXCEPT !.log = x] \in Files
           /\ \A x \in Seq({"running", "success", "failed"}), y \in BOOLEAN :
                [f EXCEPT !.log = x, !.error = y] \in Files
<1> USE DEF Files
<1>1. \A x \in {0, 15, Version} : [f EXCEPT !.version = x] \in Files
  OBVIOUS
<1>2. \A x \in SUBSET Schema : [f EXCEPT !.schema = x] \in Files
  OBVIOUS
<1>3. \A x \in [Mailboxes -> {"none", "blank", "a", "b"}], y \in SUBSET Schema :
        [f EXCEPT !.tokens = x, !.schema = y] \in Files
  OBVIOUS
<1>4. [f EXCEPT !.filled = TRUE] \in Files
  OBVIOUS
<1>5. \A x \in [OldSecrets -> {"none", "plain", "encrypted"}] : [f EXCEPT !.secrets = x] \in Files
  OBVIOUS
<1>6. \A x \in {"none", "default", "renamed", "renamed and default"} :
        [f EXCEPT !.password = "hashed", !.group = x] \in Files
  OBVIOUS
<1>7. \A x \in Seq({"running", "success", "failed"}) : [f EXCEPT !.log = x] \in Files
  OBVIOUS
<1>8. \A x \in Seq({"running", "success", "failed"}), y \in BOOLEAN :
        [f EXCEPT !.log = x, !.error = y] \in Files
  OBVIOUS
<1> HIDE DEF Files
<1> QED
  BY <1>1, <1>2, <1>3, <1>4, <1>5, <1>6, <1>7, <1>8

LEMMA NoTransactionIsNoFile == NoTransaction \notin Files
<1>1. NoTransaction.version \notin {0, 15, Version}
  BY DEF NoTransaction, Version
<1> QED
  BY <1>1, FileFields

\* Tidied tokens have no blanks and are tidy.
LEMMA TidyTokens ==
    ASSUME NEW tokens \in [Mailboxes -> {"none", "blank", "a", "b"}]
    PROVE  /\ Tidied(tokens) \in [Mailboxes -> {"none", "blank", "a", "b"}]
           /\ \A b \in Mailboxes : Tidied(tokens)[b] # "blank"
           /\ Duplicates(Tidied(tokens)) => Duplicates(tokens)
BY DEF Tidied, Duplicates

-----------------------------------------------------------------------------
(* Steps inside the transaction.                                           *)

\* Where the transaction stands when one of its programs moves.
LEMMA InsideFacts ==
    ASSUME MigrationInv, NEW p \in Programs, Inside(p)
    PROVE  /\ work \in Files /\ disk \in Files
           /\ work # NoTransaction
           /\ Progress(p)
           /\ \A q \in Programs \ {p} : ~Inside(q)
BY NoTransactionIsNoFile DEF MigrationInv, OneTransaction, FilesTyped

\* A step to the next group of statements keeps what does not depend on them.
LEMMA ApplyStep ==
    ASSUME MigrationInv, NEW p \in Programs, Inside(p),
           NEW next \in StepNames, Moves(p, next),
           work' \in Files, work'.log = work.log, work'.error = work.error,
           UNCHANGED <<disk, point, starts, before>>, Progress(p)'
    PROVE  MigrationInv'
<1>1. /\ work # NoTransaction /\ work' # NoTransaction
      /\ \A q \in Programs \ {p} : ~Inside(q)
  BY InsideFacts, NoTransactionIsNoFile
<1>2. /\ program' \in [Programs -> {"down", "waiting", "up"} \cup StepNames]
      /\ program'[p] = next
      /\ \A q \in Programs \ {p} : program'[q] = program[q]
  BY DEF Moves, MigrationInv, FilesTyped
<1>3. Inside(p)' /\ \A q \in Programs \ {p} : ~Inside(q)'
  BY <1>1, <1>2 DEF Inside
<1>4. FilesTyped'
  BY <1>2 DEF MigrationInv, FilesTyped
<1>5. OneTransaction'
  BY <1>1, <1>3 DEF OneTransaction
<1>6. SavepointIsDisk'
  BY <1>1 DEF MigrationInv, SavepointIsDisk, Recorded
<1>7. \A q \in Programs : Inside(q)' => Progress(q)'
  BY <1>3
<1>8. MigrationWhole'
  BY DEF MigrationInv, MigrationWhole, Upgraded, Data, Duplicates, Tidied
<1> QED
  BY <1>4, <1>5, <1>6, <1>7, <1>8 DEF MigrationInv

\* Every group of statements keeps the invariant.
LEMMA WorkStep ==
    ASSUME MigrationInv, NEW p \in Programs,
           \/ CreateTables(p) \/ MakeTokensUnique(p) \/ FillRows(p) \/ RebuildMessages(p)
           \/ AddDefaults(p) \/ AddPool(p) \/ EncryptSecrets(p) \/ MarkVersion(p)
    PROVE  MigrationInv'
<1> USE DEF Apply
<1>1. Inside(p)
  BY DEF CreateTables, MakeTokensUnique, FillRows, RebuildMessages, AddDefaults, AddPool,
         EncryptSecrets, MarkVersion, Inside, StepNames
<1>2. work \in Files /\ disk \in Files /\ Progress(p)
  BY <1>1, InsideFacts
<1>3. /\ work.schema \subseteq Schema
      /\ work.tokens \in [Mailboxes -> {"none", "blank", "a", "b"}]
      /\ work.secrets \in [OldSecrets -> {"none", "plain", "encrypted"}]
      /\ work.group \in {"none", "default", "renamed", "renamed and default"}
  BY <1>2, FileFields
<1>4. ASSUME NEW next \in StepNames, Moves(p, next)
      PROVE  program'[p] = next
  BY <1>4 DEF Moves, MigrationInv, FilesTyped
<1>5. CASE CreateTables(p)
  <2> DEFINE schema == work.schema \cup {"tables", "columns"}
  <2>1. program[p] = "tables" /\ program'[p] = "tokens" /\ "tokens" \in StepNames
    BY <1>4, <1>5 DEF CreateTables, StepNames
  <2>2. schema \in SUBSET Schema
    BY <1>3 DEF Schema
  <2>3. work' = [work EXCEPT !.schema = schema] /\ UNCHANGED <<disk, point, starts, before>>
    BY <1>5 DEF CreateTables
  <2>4. work' \in Files
    BY <1>2, <2>2, <2>3, FileUpdates
  <2>5. /\ work'.schema = schema
        /\ work'.version = work.version /\ work'.tokens = work.tokens /\ work'.filled = work.filled
        /\ work'.secrets = work.secrets /\ work'.password = work.password
        /\ work'.log = work.log /\ work'.error = work.error
    BY <1>2, <2>3 DEF Files
  <2>6. Progress(p)'
    BY <1>2, <2>1, <2>3, <2>5 DEF Progress, Behind
  <2> QED
    BY <1>1, <1>5, <2>1, <2>3, <2>4, <2>5, <2>6, ApplyStep DEF CreateTables
<1>6. CASE MakeTokensUnique(p)
  <2> DEFINE tokens == Tidied(work.tokens)
             schema == work.schema \cup {"unique tokens"}
  <2>1. program[p] = "tokens" /\ program'[p] = "rows" /\ "rows" \in StepNames
    BY <1>4, <1>6 DEF MakeTokensUnique, StepNames
  <2>2. /\ schema \in SUBSET Schema
        /\ tokens \in [Mailboxes -> {"none", "blank", "a", "b"}]
        /\ TokensInOrder(tokens)
    BY <1>3, <1>6, TidyTokens DEF MakeTokensUnique, Schema, TokensInOrder
  <2>3. work' = [work EXCEPT !.tokens = tokens, !.schema = schema] /\ UNCHANGED <<disk, point, starts, before>>
    BY <1>6 DEF MakeTokensUnique
  <2>4. work' \in Files
    BY <1>2, <1>3, <2>2, <2>3, FileUpdates
  <2>5. /\ work'.tokens = tokens /\ work'.schema = schema /\ work'.version = work.version
        /\ work'.filled = work.filled /\ work'.secrets = work.secrets /\ work'.password = work.password
        /\ work'.log = work.log /\ work'.error = work.error
    BY <1>2, <2>3 DEF Files
  <2>6. Progress(p)'
    BY <1>2, <2>1, <2>2, <2>3, <2>5 DEF Progress, Behind
  <2> QED
    BY <1>1, <1>6, <2>1, <2>3, <2>4, <2>5, <2>6, ApplyStep DEF MakeTokensUnique
<1>7. CASE FillRows(p)
  <2>1. program[p] = "rows" /\ program'[p] = "messages" /\ "messages" \in StepNames
    BY <1>4, <1>7 DEF FillRows, StepNames
  <2>3. work' = [work EXCEPT !.filled = TRUE] /\ UNCHANGED <<disk, point, starts, before>>
    BY <1>7 DEF FillRows
  <2>4. work' \in Files
    BY <1>2, <1>3, <2>3, FileUpdates
  <2>5. /\ work'.filled = TRUE /\ work'.schema = work.schema /\ work'.version = work.version
        /\ work'.tokens = work.tokens /\ work'.secrets = work.secrets /\ work'.password = work.password
        /\ work'.log = work.log /\ work'.error = work.error
    BY <1>2, <2>3 DEF Files
  <2>6. Progress(p)'
    BY <1>2, <2>1, <2>3, <2>5 DEF Progress, Behind
  <2> QED
    BY <1>1, <1>7, <2>1, <2>3, <2>4, <2>5, <2>6, ApplyStep DEF FillRows
<1>8. CASE RebuildMessages(p)
  <2> DEFINE schema == work.schema \cup {"message keys"}
  <2>1. program[p] = "messages" /\ program'[p] = "defaults" /\ "defaults" \in StepNames
    BY <1>4, <1>8 DEF RebuildMessages, StepNames
  <2>2. schema \in SUBSET Schema
    BY <1>3 DEF Schema
  <2>3. work' = [work EXCEPT !.schema = schema] /\ UNCHANGED <<disk, point, starts, before>>
    BY <1>8 DEF RebuildMessages
  <2>4. work' \in Files
    BY <1>2, <1>3, <2>2, <2>3, FileUpdates
  <2>5. /\ work'.schema = schema /\ work'.version = work.version /\ work'.tokens = work.tokens
        /\ work'.filled = work.filled /\ work'.secrets = work.secrets /\ work'.password = work.password
        /\ work'.log = work.log /\ work'.error = work.error
    BY <1>2, <2>3 DEF Files
  <2>6. Progress(p)'
    BY <1>2, <2>1, <2>2, <2>3, <2>5 DEF Progress, Behind
  <2> QED
    BY <1>1, <1>8, <2>1, <2>3, <2>4, <2>5, <2>6, ApplyStep DEF RebuildMessages
<1>9. CASE AddDefaults(p)
  <2> DEFINE group == IF work.group = "renamed" THEN "renamed and default"
                      ELSE IF work.group = "none" THEN "default" ELSE work.group
  <2>1. program[p] = "defaults" /\ program'[p] = "pool" /\ "pool" \in StepNames
    BY <1>4, <1>9 DEF AddDefaults, StepNames
  <2>2. group \in {"none", "default", "renamed", "renamed and default"}
    BY <1>3
  <2>3. work' = [work EXCEPT !.password = "hashed", !.group = group] /\ UNCHANGED <<disk, point, starts, before>>
    BY <1>9 DEF AddDefaults
  <2>4. work' \in Files
    BY <1>2, <1>3, <2>2, <2>3, FileUpdates
  <2>5. /\ work'.password = "hashed" /\ work'.schema = work.schema /\ work'.version = work.version
        /\ work'.tokens = work.tokens /\ work'.filled = work.filled /\ work'.secrets = work.secrets
        /\ work'.log = work.log /\ work'.error = work.error
    BY <1>2, <2>3 DEF Files
  <2>6. Progress(p)'
    BY <1>2, <2>1, <2>2, <2>3, <2>5 DEF Progress, Behind
  <2> QED
    BY <1>1, <1>9, <2>1, <2>3, <2>4, <2>5, <2>6, ApplyStep DEF AddDefaults
<1>10. CASE AddPool(p)
  <2> DEFINE schema == work.schema \cup {"pool columns", "usage tables"}
  <2>1. program[p] = "pool" /\ program'[p] = "secrets" /\ "secrets" \in StepNames
    BY <1>4, <1>10 DEF AddPool, StepNames
  <2>2. schema \in SUBSET Schema
    BY <1>3 DEF Schema
  <2>3. work' = [work EXCEPT !.schema = schema] /\ UNCHANGED <<disk, point, starts, before>>
    BY <1>10 DEF AddPool
  <2>4. work' \in Files
    BY <1>2, <1>3, <2>2, <2>3, FileUpdates
  <2>5. /\ work'.schema = schema /\ work'.version = work.version /\ work'.tokens = work.tokens
        /\ work'.filled = work.filled /\ work'.secrets = work.secrets /\ work'.password = work.password
        /\ work'.log = work.log /\ work'.error = work.error
    BY <1>2, <2>3 DEF Files
  <2>6. Progress(p)'
    BY <1>2, <2>1, <2>2, <2>3, <2>5 DEF Progress, Behind
  <2> QED
    BY <1>1, <1>10, <2>1, <2>3, <2>4, <2>5, <2>6, ApplyStep DEF AddPool
<1>11. CASE EncryptSecrets(p)
  <2> DEFINE secrets == [a \in OldSecrets |-> IF work.secrets[a] = "plain" THEN "encrypted" ELSE work.secrets[a]]
  <2>1. program[p] = "secrets" /\ program'[p] = "mark" /\ "mark" \in StepNames
    BY <1>4, <1>11 DEF EncryptSecrets, StepNames
  <2>2. secrets \in [OldSecrets -> {"none", "plain", "encrypted"}] /\ SecretsEncrypted(secrets)
    BY <1>3 DEF SecretsEncrypted
  <2>3. work' = [work EXCEPT !.secrets = secrets] /\ UNCHANGED <<disk, point, starts, before>>
    BY <1>11 DEF EncryptSecrets
  <2>4. work' \in Files
    BY <1>2, <1>3, <2>2, <2>3, FileUpdates
  <2>5. /\ work'.secrets = secrets /\ work'.schema = work.schema /\ work'.version = work.version
        /\ work'.tokens = work.tokens /\ work'.filled = work.filled /\ work'.password = work.password
        /\ work'.log = work.log /\ work'.error = work.error
    BY <1>2, <2>3 DEF Files
  <2>6. Progress(p)'
    BY <1>2, <2>1, <2>2, <2>3, <2>5 DEF Progress, Behind
  <2> QED
    BY <1>1, <1>11, <2>1, <2>3, <2>4, <2>5, <2>6, ApplyStep DEF EncryptSecrets
<1>12. CASE MarkVersion(p)
  <2>1. program[p] = "mark" /\ program'[p] = "finish" /\ "finish" \in StepNames
    BY <1>4, <1>12 DEF MarkVersion, StepNames
  <2>2. Version \in {0, 15, Version}
    OBVIOUS
  <2>3. work' = [work EXCEPT !.version = Version] /\ UNCHANGED <<disk, point, starts, before>>
    BY <1>12 DEF MarkVersion
  <2>4. work' \in Files
    BY <1>2, <1>3, <2>2, <2>3, FileUpdates
  <2>5. /\ work'.version = Version /\ work'.schema = work.schema /\ work'.tokens = work.tokens
        /\ work'.filled = work.filled /\ work'.secrets = work.secrets /\ work'.password = work.password
        /\ work'.log = work.log /\ work'.error = work.error
    BY <1>2, <2>3 DEF Files
  <2>6. Progress(p)'
    BY <1>2, <2>1, <2>2, <2>3, <2>5 DEF Progress, Behind
  <2> QED
    BY <1>1, <1>12, <2>1, <2>3, <2>4, <2>5, <2>6, ApplyStep DEF MarkVersion
<1> QED
  BY <1>5, <1>6, <1>7, <1>8, <1>9, <1>10, <1>11, <1>12

-----------------------------------------------------------------------------
(* The ends of a transaction, and its beginning.                           *)

\* Whoever leaves the transaction leaves none behind.
LEMMA LeaveStep ==
    ASSUME MigrationInv, NEW p \in Programs, Inside(p),
           NEW next \in {"up", "down"}, Moves(p, next),
           disk' \in Files, work' = NoTransaction, point' = NoTransaction, MigrationWhole'
    PROVE  MigrationInv'
<1>1. /\ program' \in [Programs -> {"down", "waiting", "up"} \cup StepNames]
      /\ program'[p] = next
      /\ \A q \in Programs \ {p} : program'[q] = program[q]
  BY DEF Moves, MigrationInv, FilesTyped
<1>2. next \notin StepNames
  BY DEF StepNames
<1>3. \A q \in Programs : ~Inside(q)'
  BY <1>1, <1>2, InsideFacts DEF Inside
<1> QED
  BY <1>1, <1>3 DEF MigrationInv, FilesTyped, OneTransaction, SavepointIsDisk

\* Whoever moves outside the transaction does not disturb it.
LEMMA OutsideStep ==
    ASSUME MigrationInv, NEW p \in Programs, ~Inside(p),
           NEW next \in {"down", "waiting", "up"}, Moves(p, next),
           UNCHANGED <<disk, work, point, before>>
    PROVE  MigrationInv'
<1>1. /\ program' \in [Programs -> {"down", "waiting", "up"} \cup StepNames]
      /\ program'[p] = next
      /\ \A q \in Programs \ {p} : program'[q] = program[q]
  BY DEF Moves, MigrationInv, FilesTyped
<1>2. next \notin StepNames
  BY DEF StepNames
<1>3. \A q \in Programs : Inside(q)' <=> Inside(q)
  BY <1>1, <1>2 DEF Inside
<1>4. FilesTyped' /\ OneTransaction'
  BY <1>1, <1>3 DEF MigrationInv, FilesTyped, OneTransaction
<1>5. SavepointIsDisk' /\ MigrationWhole'
  BY DEF MigrationInv, SavepointIsDisk, Recorded, MigrationWhole, Upgraded, Data, Duplicates, Tidied
<1>6. \A q \in Programs : Inside(q)' => Progress(q)'
  <2> SUFFICES ASSUME NEW q \in Programs, Inside(q)'
               PROVE  Progress(q)'
    OBVIOUS
  <2>1. Progress(q) /\ program'[q] = program[q]
    BY <1>1, <1>3 DEF MigrationInv
  <2> QED
    BY <2>1 DEF Progress, Behind, TokensInOrder, SecretsEncrypted, Duplicates, Tidied
<1> QED
  BY <1>4, <1>5, <1>6 DEF MigrationInv

\* What the record of a transaction looks like once it is concluded.
LEMMA ConcludedLog ==
    ASSUME NEW log \in Seq({"running", "success", "failed"}), NEW status \in {"success", "failed"},
           \A i \in DOMAIN log : log[i] = "failed"
    PROVE  LET all == Concluded(Append(log, "running"), status) IN
           /\ all \in Seq({"running", "success", "failed"})
           /\ all # <<>>
           /\ all[Len(all)] = status
           /\ \A i \in DOMAIN all : i # Len(all) => all[i] = "failed"
<1> DEFINE more == Append(log, "running")
           all == Concluded(more, status)
<1>1. /\ more \in Seq({"running", "success", "failed"})
      /\ Len(more) = Len(log) + 1
      /\ \A i \in 1 .. Len(log) : more[i] = log[i]
  BY AppendProperties
<1>2. DOMAIN log = 1 .. Len(log) /\ Len(log) \in Nat /\ DOMAIN more = 1 .. Len(more)
  BY <1>1, LenProperties
<1>3. all = [more EXCEPT ![Len(more)] = status]
  BY DEF Concluded
<1> HIDE DEF more
<1>4. /\ all \in Seq({"running", "success", "failed"})
      /\ Len(all) = Len(more)
      /\ \A i \in 1 .. Len(more) : all[i] = IF i = Len(more) THEN status ELSE more[i]
  BY <1>1, <1>2, <1>3, ExceptSeq
<1> HIDE DEF all
<1>5. DOMAIN all = 1 .. Len(all) /\ Len(all) = Len(log) + 1
  BY <1>1, <1>4, LenProperties
<1>6. all # <<>>
  BY <1>2, <1>4, <1>5, EmptySeq
<1>7. all[Len(all)] = status /\ \A i \in DOMAIN all : i # Len(all) => all[i] = "failed"
  BY <1>1, <1>2, <1>4, <1>5
<1> QED
  BY <1>4, <1>6, <1>7 DEF all, more

\* Where the file stands: not upgraded, its records are all of failures;
\* upgraded, the last one is of a success and there is no error.
LEMMA DiskFacts ==
    ASSUME MigrationInv
    PROVE  /\ disk.version \in {0, 15, Version}
           /\ disk.log \in Seq({"running", "success", "failed"})
           /\ disk.version # Version => /\ \A i \in DOMAIN disk.log : disk.log[i] = "failed"
                                        /\ disk.version < Version
                                        /\ Data(disk) = before
           /\ disk.version = Version => Upgraded(disk) /\ ~disk.error
<1>1. disk.version \in {0, 15, Version} /\ disk.log \in Seq({"running", "success", "failed"})
  BY FileFields DEF MigrationInv, FilesTyped
<1>2. disk.version # Version => /\ \A i \in DOMAIN disk.log : disk.log[i] = "failed"
                                /\ Data(disk) = before
  BY DEF MigrationInv, MigrationWhole
<1>3. disk.version # Version => disk.version < Version
  BY <1>1 DEF Version
<1>4. ASSUME disk.version = Version
      PROVE  Upgraded(disk) /\ ~disk.error
  <2>1. disk.log # <<>> => Len(disk.log) \in DOMAIN disk.log
    BY <1>1, EmptySeq, LenProperties
  <2>2. disk.log # <<>> => disk.log[Len(disk.log)] = "success"
    BY <1>4, <2>1 DEF MigrationInv, MigrationWhole
  <2>3. Upgraded(disk) /\ (disk.error <=> disk.log # <<>> /\ disk.log[Len(disk.log)] = "failed")
    BY <1>4 DEF MigrationInv, MigrationWhole
  <2>4. disk.log # <<>> => disk.log[Len(disk.log)] # "failed"
    BY <2>2
  <2> QED
    BY <2>3, <2>4
<1> QED
  BY <1>1, <1>2, <1>3, <1>4

\* At the last step everything is done, whatever the file was before.
LEMMA WorkIsWhole ==
    ASSUME MigrationInv, NEW p \in Programs, program[p] = "finish"
    PROVE  Inside(p) /\ work.version = Version /\ Upgraded(work)
<1>1. Inside(p)
  BY DEF Inside, StepNames
<1>2. work \in Files /\ Progress(p)
  BY <1>1, InsideFacts
<1>3. work.schema = Schema
  <2>1. work.schema \subseteq Schema
    BY <1>2, FileFields
  <2>2. /\ {"tables", "columns"} \subseteq work.schema
        /\ "unique tokens" \in work.schema /\ "message keys" \in work.schema
        /\ {"pool columns", "usage tables"} \subseteq work.schema
    BY <1>2 DEF Progress, Behind
  <2> QED
    BY <2>1, <2>2 DEF Schema
<1>4. work.filled /\ work.password = "hashed" /\ work.version = Version
  BY <1>2 DEF Progress, Behind
<1>5. TokensInOrder(work.tokens) /\ SecretsEncrypted(work.secrets)
  BY <1>2 DEF Progress, Behind
<1> QED
  BY <1>1, <1>3, <1>4, <1>5 DEF Upgraded, TokensInOrder, SecretsEncrypted

\* A start that ends well commits the upgraded file, with its record.
LEMMA FinishStep ==
    ASSUME MigrationInv, NEW p \in Programs, FinishStart(p)
    PROVE  MigrationInv'
<1>1. Inside(p) /\ work.version = Version /\ Upgraded(work)
  BY WorkIsWhole DEF FinishStart
<1>2. work \in Files /\ disk \in Files /\ work # NoTransaction
  BY <1>1, InsideFacts
<1>3. Moves(p, "up") /\ work' = NoTransaction /\ point' = NoTransaction /\ before' = Data(disk')
  BY DEF FinishStart
<1>4. CASE disk.version = Version
  <2>1. ~Upgrading /\ work.log = disk.log /\ work.error = disk.error
    BY <1>2, <1>4, VersionValue DEF Upgrading, MigrationInv, SavepointIsDisk
  <2>2. disk' = work
    BY <2>1 DEF FinishStart
  <2>3. MigrationWhole'
    BY <1>1, <1>4, <2>1, <2>2 DEF MigrationInv, MigrationWhole, Upgraded, Duplicates, Tidied
  <2> QED
    BY <1>1, <1>2, <1>3, <2>2, <2>3, LeaveStep
<1>5. CASE disk.version # Version
  <2> DEFINE log == Concluded(Append(disk.log, "running"), "success")
  <2>1. /\ disk.log \in Seq({"running", "success", "failed"})
        /\ disk.version < Version
        /\ \A i \in DOMAIN disk.log : disk.log[i] = "failed"
    BY <1>5, DiskFacts
  <2>2. work.log = Append(disk.log, "running") /\ point = Recorded
    BY <1>2, <2>1 DEF MigrationInv, SavepointIsDisk, Recorded, Files
  <2>3. point # NoTransaction
    <3>1. Append(disk.log, "running") \in Seq({"running", "success", "failed"})
      BY <2>1, AppendProperties
    <3>2. Recorded \in Files
      BY <1>2, <3>1, FileUpdates DEF Recorded
    <3> QED
      BY <2>2, <3>2, NoTransactionIsNoFile
  <2>4. /\ log \in Seq({"running", "success", "failed"})
        /\ log # <<>>
        /\ log[Len(log)] = "success"
        /\ \A i \in DOMAIN log : i # Len(log) => log[i] = "failed"
    BY <2>1, ConcludedLog
  <2>5. disk' = [work EXCEPT !.log = log, !.error = FALSE]
    BY <2>2, <2>3 DEF FinishStart, Upgrading
  <2> HIDE DEF log
  <2>6. disk' \in Files
    BY <1>2, <2>4, <2>5, FileUpdates
  <2>7. /\ disk'.log = log /\ disk'.error = FALSE
        /\ disk'.version = work.version /\ disk'.schema = work.schema /\ disk'.tokens = work.tokens
        /\ disk'.filled = work.filled /\ disk'.secrets = work.secrets /\ disk'.password = work.password
    BY <1>2, <2>5 DEF Files
  <2>8. Upgraded(disk')
    BY <1>1, <2>7 DEF Upgraded
  <2>9. MigrationWhole'
    BY <1>1, <2>4, <2>7, <2>8 DEF MigrationWhole
  <2> QED
    BY <1>1, <1>3, <2>6, <2>9, LeaveStep
<1> QED
  BY <1>4, <1>5

\* A start that fails leaves the file as it was, and of an upgrade the record.
LEMMA FailStep ==
    ASSUME MigrationInv, NEW p \in Programs, FailStart(p)
    PROVE  MigrationInv'
<1>1. Inside(p)
  BY StepSet DEF FailStart, Inside
<1>2. work \in Files /\ disk \in Files /\ work # NoTransaction
  BY <1>1, InsideFacts
<1>3. /\ Moves(p, "down") /\ work' = NoTransaction /\ point' = NoTransaction /\ before' = before
  BY DEF FailStart
<1>4. CASE disk.version = Version
  <2>1. ~Upgrading
    BY <1>2, <1>4, VersionValue DEF Upgrading, MigrationInv, SavepointIsDisk
  <2>2. disk' = disk
    BY <2>1 DEF FailStart
  <2>3. MigrationWhole'
    BY <1>3, <2>2 DEF MigrationInv, MigrationWhole, Upgraded, Duplicates, Tidied, Data
  <2> QED
    BY <1>1, <1>2, <1>3, <2>2, <2>3, LeaveStep
<1>5. CASE disk.version # Version
  <2> DEFINE log == Concluded(Append(disk.log, "running"), "failed")
  <2>1. /\ disk.log \in Seq({"running", "success", "failed"})
        /\ disk.version < Version
        /\ \A i \in DOMAIN disk.log : disk.log[i] = "failed"
        /\ Data(disk) = before
    BY <1>5, DiskFacts
  <2>2. point = Recorded
    BY <1>2, <2>1 DEF MigrationInv, SavepointIsDisk
  <2>3. Append(disk.log, "running") \in Seq({"running", "success", "failed"})
    BY <2>1, AppendProperties
  <2>4. point \in Files /\ point # NoTransaction
    BY <1>2, <2>2, <2>3, FileUpdates, NoTransactionIsNoFile DEF Recorded
  <2>5. /\ log \in Seq({"running", "success", "failed"})
        /\ log # <<>>
        /\ log[Len(log)] = "failed"
        /\ \A i \in DOMAIN log : i # Len(log) => log[i] = "failed"
    BY <2>1, ConcludedLog
  <2>6. point.log = Append(disk.log, "running")
    BY <1>2, <2>2 DEF Recorded, Files
  <2>7. disk' = [point EXCEPT !.log = log, !.error = TRUE]
    BY <2>4, <2>6 DEF FailStart, Upgrading
  <2> HIDE DEF log
  <2>8. disk' \in Files
    BY <2>4, <2>5, <2>7, FileUpdates
  <2>9. /\ disk'.log = log /\ disk'.error = TRUE
        /\ disk'.version = point.version /\ Data(disk') = Data(point)
    BY <2>4, <2>7 DEF Files, Data
  <2>10. point.version = disk.version /\ Data(point) = Data(disk)
    BY <1>2, <2>2 DEF Recorded, Files, Data
  <2>11. MigrationWhole'
    <3>1. disk'.version # Version /\ Data(disk') = before'
      BY <1>3, <1>5, <2>1, <2>9, <2>10
    <3> QED
      BY <2>5, <2>9, <3>1 DEF MigrationWhole, Data
  <2> QED
    BY <1>1, <1>3, <2>8, <2>11, LeaveStep
<1> QED
  BY <1>4, <1>5

\* A process that ends inside the transaction takes it along.
LEMMA EndStep ==
    ASSUME MigrationInv, NEW p \in Programs, EndProgram(p)
    PROVE  MigrationInv'
<1>1. Moves(p, "down") /\ disk' = disk /\ before' = before
  BY DEF EndProgram
<1>2. CASE Inside(p)
  <2>1. work' = NoTransaction /\ point' = NoTransaction
    BY <1>2, StepSet DEF EndProgram, Inside
  <2>2. disk' \in Files
    BY <1>1 DEF MigrationInv, FilesTyped
  <2>3. MigrationWhole'
    BY <1>1 DEF MigrationInv, MigrationWhole, Upgraded, Duplicates, Tidied, Data
  <2> QED
    BY <1>1, <1>2, <2>1, <2>2, <2>3, LeaveStep
<1>3. CASE ~Inside(p)
  <2>1. work' = work /\ point' = point
    BY <1>3, StepSet DEF EndProgram, Inside
  <2> QED
    BY <1>1, <1>3, <2>1, OutsideStep
<1> QED
  BY <1>2, <1>3

\* The transaction starts from the committed file, behind the write lock.
LEMMA BeginStep ==
    ASSUME MigrationInv, NEW p \in Programs, BeginUpgrade(p)
    PROVE  MigrationInv'
<1> DEFINE recorded == IF disk.version < Version THEN Recorded ELSE disk
<1>1. /\ program[p] = "waiting" /\ work = NoTransaction /\ Moves(p, "tables")
      /\ work' = recorded
      /\ point' = IF disk.version < Version THEN recorded ELSE NoTransaction
      /\ disk' = disk /\ before' = before
  BY DEF BeginUpgrade, Recorded
<1>2. disk \in Files
  BY DEF MigrationInv, FilesTyped
<1>3. recorded \in Files
  <2>1. Append(disk.log, "running") \in Seq({"running", "success", "failed"})
    BY DiskFacts, AppendProperties
  <2> QED
    BY <1>2, <2>1, FileUpdates DEF Recorded
<1>4. /\ program' \in [Programs -> {"down", "waiting", "up"} \cup StepNames]
      /\ program'[p] = "tables" /\ "tables" \in StepNames
      /\ \A q \in Programs \ {p} : program'[q] = program[q]
  BY <1>1 DEF Moves, MigrationInv, FilesTyped, StepNames
<1>5. \A q \in Programs : Inside(q)' <=> q = p
  BY <1>1, <1>4 DEF MigrationInv, OneTransaction, Inside
<1>6. FilesTyped'
  BY <1>1, <1>2, <1>3, <1>4 DEF FilesTyped
<1>7. OneTransaction'
  <2>1. work' # NoTransaction
    BY <1>1, <1>3, NoTransactionIsNoFile
  <2> QED
    BY <1>5, <2>1 DEF OneTransaction
<1>8. recorded.error = disk.error /\ recorded.version = disk.version
  BY <1>2 DEF Recorded, Files
<1>9. SavepointIsDisk'
  BY <1>1, <1>8 DEF SavepointIsDisk, Recorded
<1>10. Progress(p)'
  <2>1. CASE disk.version = Version
    <3>1. work' = disk /\ Upgraded(disk)
      BY <1>1, <2>1, DiskFacts, VersionValue
    <3>2. /\ disk.schema = Schema /\ disk.filled /\ disk.password = "hashed"
          /\ TokensInOrder(disk.tokens) /\ SecretsEncrypted(disk.secrets)
      BY <3>1 DEF Upgraded, TokensInOrder, SecretsEncrypted
    <3>3. {"tables", "columns", "unique tokens", "message keys", "pool columns", "usage tables"} \subseteq disk.schema
      BY <3>2 DEF Schema
    <3> QED
      BY <1>1, <1>4, <2>1, <3>1, <3>2, <3>3 DEF Progress, Behind
  <2>2. CASE disk.version # Version
    BY <1>1, <1>4, <1>8, <2>2 DEF Progress, Behind
  <2> QED
    BY <2>1, <2>2
<1>11. MigrationWhole'
  BY <1>1 DEF MigrationInv, MigrationWhole, Upgraded, Duplicates, Tidied, Data
<1> QED
  BY <1>5, <1>6, <1>7, <1>9, <1>10, <1>11 DEF MigrationInv

\* The administrator clears a token only after a failed upgrade.
LEMMA ClearStep ==
    ASSUME MigrationInv, NEW b \in Mailboxes, ClearDuplicates(b)
    PROVE  MigrationInv'
<1>1. /\ work = NoTransaction /\ disk.error
      /\ disk' = [disk EXCEPT !.tokens[b] = "none"]
      /\ before' = Data(disk')
      /\ UNCHANGED <<work, point, program>>
  BY DEF ClearDuplicates
<1>2. disk \in Files /\ disk.version # Version
  BY <1>1, DiskFacts DEF MigrationInv, FilesTyped
<1>3. disk' \in Files
  BY <1>1, <1>2 DEF Files
<1>4. disk'.version = disk.version /\ disk'.log = disk.log /\ disk'.error = disk.error
  BY <1>1, <1>2 DEF Files
<1>5. MigrationWhole'
  BY <1>1, <1>2, <1>4 DEF MigrationInv, MigrationWhole, Data
<1>6. \A p \in Programs : ~Inside(p)'
  BY <1>1 DEF MigrationInv, OneTransaction, Inside
<1> QED
  BY <1>1, <1>3, <1>5, <1>6 DEF MigrationInv, FilesTyped, OneTransaction, SavepointIsDisk, Inside

-----------------------------------------------------------------------------

\* Any old database file, and an empty one, is whole.
LEMMA MigrationInvInit == MigrationInit => MigrationInv
<1> SUFFICES ASSUME MigrationInit PROVE MigrationInv
  OBVIOUS
<1>1. disk \in Files /\ disk.version # Version /\ disk.log = <<>> /\ disk.error = FALSE
  <2>1. <<>> \in Seq({"running", "success", "failed"})
    BY EmptySeq
  <2>2. CASE disk \in OldDatabases
    <3>1. /\ disk.version = 15 /\ disk.schema \in SUBSET Schema
          /\ disk.secrets \in [OldSecrets -> {"none", "plain", "encrypted"}]
          /\ disk.log = <<>> /\ disk.error = FALSE
      BY <2>2 DEF OldDatabases, Schema
    <3>2. disk = [version |-> disk.version, schema |-> disk.schema, tokens |-> disk.tokens,
                  filled |-> disk.filled, secrets |-> disk.secrets, password |-> disk.password,
                  group |-> disk.group, log |-> disk.log, error |-> disk.error]
      BY <2>2 DEF OldDatabases
    <3>3. /\ disk.tokens \in [Mailboxes -> {"none", "blank", "a", "b"}] /\ disk.filled \in BOOLEAN
          /\ disk.password \in {"none", "plain", "hashed"}
          /\ disk.group \in {"none", "default", "renamed", "renamed and default"}
      BY <2>2 DEF OldDatabases
    <3>4. disk \in Files
      BY <2>1, <3>1, <3>2, <3>3 DEF Files
    <3> QED
      BY <3>1, <3>4 DEF Version
  <2>3. CASE disk = NewFile
    BY <2>1, <2>3 DEF NewFile, Files, Version
  <2> QED
    BY <2>2, <2>3 DEF MigrationInit
<1>2. work = NoTransaction /\ point = NoTransaction /\ before = Data(disk)
  BY DEF MigrationInit
<1>3. /\ program \in [Programs -> {"down", "waiting", "up"} \cup StepNames]
      /\ \A p \in Programs : ~Inside(p)
  BY DEF MigrationInit, Inside, StepNames
<1>4. MigrationWhole
  BY <1>1, <1>2 DEF MigrationWhole
<1> QED
  BY <1>1, <1>2, <1>3, <1>4 DEF MigrationInv, FilesTyped, OneTransaction, SavepointIsDisk

LEMMA MigrationInvStep == MigrationInv /\ [MigrationNext]_migrationVars => MigrationInv'
<1> SUFFICES ASSUME MigrationInv, [MigrationNext]_migrationVars
             PROVE  MigrationInv'
  OBVIOUS
<1>1. ASSUME NEW p \in Programs, StartProgram(p) \/ GiveUpWaiting(p)
      PROVE  MigrationInv'
  <2>1. ~Inside(p)
    BY <1>1 DEF StartProgram, GiveUpWaiting, Inside, StepNames
  <2> QED
    BY <1>1, <2>1, OutsideStep DEF StartProgram, GiveUpWaiting
<1>2. CASE UNCHANGED migrationVars
  <2> USE <1>2 DEF migrationVars, MigrationInv
  <2>1. FilesTyped' /\ SavepointIsDisk'
    BY DEF FilesTyped, SavepointIsDisk, Recorded
  <2>2. OneTransaction'
    BY DEF OneTransaction, Inside
  <2>3. \A p \in Programs : Inside(p)' => Progress(p)'
    BY DEF Inside, Progress, Behind, TokensInOrder, SecretsEncrypted, Duplicates, Tidied
  <2>4. MigrationWhole'
    BY DEF MigrationWhole, Upgraded, Duplicates, Tidied, Data
  <2> QED
    BY <2>1, <2>2, <2>3, <2>4
<1> QED
  BY <1>1, <1>2, BeginStep, WorkStep, FinishStep, FailStep, EndStep, ClearStep DEF MigrationNext

\* The inductive invariant of the migrations holds in every behaviour.
THEOREM MigrationInvariant == MigrationSpec => []MigrationInv
BY MigrationInvInit, MigrationInvStep, PTL DEF MigrationSpec

\* Programs that start at once, fail or end at any statement leave a file
\* that is either as its owners left it or upgraded in full, and that says so.
THEOREM FileIsWhole == MigrationSpec => []MigrationWhole
<1>1. MigrationInv => MigrationWhole
  BY DEF MigrationInv
<1> QED
  BY <1>1, MigrationInvariant, PTL

\* Starts are counted up to their bound.
StartsCounted == starts \in 0 .. MaxStarts

LEMMA StartsCountedStep == StartsCounted /\ [MigrationNext]_migrationVars => StartsCounted'
<1> SUFFICES ASSUME StartsCounted, [MigrationNext]_migrationVars PROVE StartsCounted'
  OBVIOUS
<1>1. starts' = starts \/ (starts < MaxStarts /\ starts' = starts + 1)
  BY DEF MigrationNext, migrationVars, StartProgram, BeginUpgrade, GiveUpWaiting, Apply, CreateTables,
         MakeTokensUnique, FillRows, RebuildMessages, AddDefaults, AddPool, EncryptSecrets,
         MarkVersion, FinishStart, FailStart, EndProgram, ClearDuplicates
<1> QED
  BY <1>1, MigrationAssumption DEF MigrationAssumption, StartsCounted

\* A savepoint is that of an older file, and one program has it.
LEMMA MigrationTyped == MigrationInv /\ StartsCounted => MigrationTypeOK
<1> SUFFICES ASSUME MigrationInv, StartsCounted PROVE MigrationTypeOK
  OBVIOUS
<1>1. FilesTyped /\ OneTransaction /\ SavepointIsDisk
  BY DEF MigrationInv
<1>2. disk.version \in {0, 15, Version} /\ disk.schema \subseteq Schema
  BY <1>1, FileFields DEF FilesTyped
<1>3. work = NoTransaction \/ work.schema \subseteq Schema
  BY <1>1, FileFields DEF FilesTyped
<1>4. point = NoTransaction \/ point.version < Version
  <2> SUFFICES ASSUME point # NoTransaction PROVE point.version < Version
    OBVIOUS
  <2>1. point = Recorded /\ disk.version < Version
    BY <1>1 DEF OneTransaction, SavepointIsDisk
  <2>2. Recorded.version = disk.version
    BY <1>1 DEF FilesTyped, Files, Recorded
  <2> QED
    BY <2>1, <2>2
<1>5. program \in [Programs -> {"down", "waiting", "up"} \cup ToSet(Steps)]
  BY <1>1, StepSet DEF FilesTyped
<1>6. Cardinality({p \in Programs : program[p] \in ToSet(Steps)}) <= 1
  <2> DEFINE inside == {p \in Programs : program[p] \in ToSet(Steps)}
  <2>1. inside = {} \/ \E p \in Programs : inside = {p}
    BY <1>1, StepSet DEF OneTransaction, Inside
  <2> HIDE DEF inside
  <2>2. Cardinality(inside) = 0 \/ Cardinality(inside) = 1
    BY <2>1, FS_EmptySet, FS_Singleton
  <2> QED
    BY <2>2 DEF inside
<1> QED
  BY <1>2, <1>3, <1>4, <1>5, <1>6 DEF MigrationTypeOK, StartsCounted

\* The file, the transaction and the programs keep their types.
THEOREM MigrationTypeCorrect == MigrationSpec => []MigrationTypeOK
<1>1. MigrationInit => StartsCounted
  BY MigrationAssumption DEF MigrationAssumption, MigrationInit, StartsCounted
<1>2. MigrationSpec => []StartsCounted
  BY <1>1, StartsCountedStep, PTL DEF MigrationSpec
<1> QED
  BY <1>2, MigrationInvariant, MigrationTyped, PTL
=============================================================================

------------------------------- MODULE Login --------------------------------
(***************************************************************************)
(* The login page and its limiter, for one client address.  A request      *)
(* checks the limiter, compares the password and records the outcome, each *)
(* in a transaction of its own; the check itself may read the row in one   *)
(* statement and write it in a later one.  The row is                      *)
(*   count    wrong passwords counted,                                     *)
(*   window   "open" within ATTEMPT_WINDOW of last_attempt_at, then        *)
(*            "past", and "old" after twice that long,                     *)
(*   locked   is locked_until_at in the future?                            *)
(***************************************************************************)
EXTENDS Integers, FiniteSets

CONSTANTS LoginThreads,  \* requests served at the same time
          MaxAttempts,   \* MAX_LOGIN_ATTEMPTS
          MaxSlips       \* database errors in the model

ASSUME LoginAssumption ==
    IsFiniteSet(LoginThreads) /\ MaxAttempts \in Nat \ {0} /\ MaxSlips \in Nat

VARIABLES attempts,   \* the row of login_attempts, or NoRow
          login,      \* where each request is
          wrong,      \* passwords found wrong since the last success or window
          slips       \* of them, at most: let in or not counted by mishap

loginVars == <<attempts, login, wrong, slips>>

NoRow == [count |-> -1, window |-> "none", locked |-> FALSE]

LoginTypeOK ==
    /\ attempts \in [count : Nat, window : {"open", "past", "old"}, locked : BOOLEAN] \cup {NoRow}
    /\ login \in [LoginThreads -> {"idle", "restart", "lock", "verify", "wrong", "right"}]
    /\ wrong \in Nat
    /\ slips \in Nat

LoginInit ==
    /\ attempts = NoRow
    /\ login = [t \in LoginThreads |-> "idle"]
    /\ wrong = 0
    /\ slips = 0

At(t, step) == login[t] = step
Goes(t, step) == login' = [login EXCEPT ![t] = step]

-----------------------------------------------------------------------------
(* check_rate_limit: one SELECT, and at most one UPDATE decided by it.     *)

\* Mutant: one failure more than the limit is let through.
VerdictOneLater(row) ==
    CASE row = NoRow -> "verify"
      [] row.locked -> "idle"
      [] row.window # "open" -> "restart"
      [] row.count > MaxAttempts -> "lock"
      [] OTHER -> "verify"

Verdict(row) ==
    CASE row = NoRow -> "verify"
      [] row.locked -> "idle"
      [] row.window # "open" -> "restart"
      [] row.count >= MaxAttempts -> "lock"
      [] OTHER -> "verify"

CheckLimit(t) ==
    /\ At(t, "idle")
    /\ Goes(t, Verdict(attempts))
    /\ UNCHANGED <<attempts, wrong, slips>>

\* UPDATE ... SET count = 0 WHERE ip: also on a row that another request has
\* filled again since the SELECT, whose failures are forgotten.
RestartCount(t) ==
    /\ At(t, "restart")
    /\ attempts' = IF attempts = NoRow THEN NoRow
                   ELSE [count |-> 0, window |-> "open", locked |-> FALSE]
    /\ slips' = slips + (IF attempts.window = "open" THEN attempts.count ELSE 0)
    /\ Goes(t, "verify")
    /\ UNCHANGED wrong

LockOut(t) ==
    /\ At(t, "lock")
    /\ attempts' = IF attempts = NoRow THEN NoRow ELSE [attempts EXCEPT !.locked = TRUE]
    /\ Goes(t, "idle")
    /\ UNCHANGED <<wrong, slips>>

\* Any error in the limiter lets the request through.
CheckErrs(t) ==
    /\ login[t] \in {"idle", "restart", "lock"}
    /\ slips < MaxSlips
    /\ slips' = slips + 1
    /\ Goes(t, "verify")
    /\ UNCHANGED <<attempts, wrong>>

-----------------------------------------------------------------------------
(* The password, and what becomes of it.                                   *)

VerifyPassword(t) ==
    /\ At(t, "verify")
    /\ \/ Goes(t, "right") /\ UNCHANGED wrong
       \/ Goes(t, "wrong") /\ wrong' = wrong + 1
    /\ UNCHANGED <<attempts, slips>>

\* The DELETE of old rows opens the transaction, so that read and write
\* are one step.
RecordFailure(t) ==
    /\ At(t, "wrong")
    /\ attempts' =
         CASE attempts.window \in {"none", "old"} ->
                [count |-> 1, window |-> "open", locked |-> FALSE]
           [] attempts.window = "past" -> [attempts EXCEPT !.count = 1, !.window = "open"]
           [] OTHER -> [attempts EXCEPT !.count = @ + 1]
    /\ Goes(t, "idle")
    /\ UNCHANGED <<wrong, slips>>

RecordErrs(t) ==
    /\ At(t, "wrong")
    /\ slips < MaxSlips
    /\ slips' = slips + 1
    /\ Goes(t, "idle")
    /\ UNCHANGED <<attempts, wrong>>

ResetAttempts(t) ==
    /\ At(t, "right")
    /\ attempts' = NoRow
    /\ wrong' = 0
    /\ slips' = 0
    /\ Goes(t, "idle")

-----------------------------------------------------------------------------
(* Time.  A lock is shorter than a window, so none outlasts the second.    *)

LockEnds ==
    /\ attempts.locked
    /\ attempts' = [attempts EXCEPT !.locked = FALSE]
    /\ UNCHANGED <<login, wrong, slips>>

WindowPasses ==
    /\ attempts.window = "open"
    /\ attempts' = [attempts EXCEPT !.window = "past"]
    /\ wrong' = 0
    /\ slips' = 0
    /\ UNCHANGED login

SecondWindowPasses ==
    /\ attempts.window = "past"
    /\ ~attempts.locked
    /\ attempts' = [attempts EXCEPT !.window = "old"]
    /\ UNCHANGED <<login, wrong, slips>>

LoginNext ==
    \/ \E t \in LoginThreads :
         \/ CheckLimit(t) \/ RestartCount(t) \/ LockOut(t) \/ CheckErrs(t)
         \/ VerifyPassword(t) \/ RecordFailure(t) \/ RecordErrs(t) \/ ResetAttempts(t)
    \/ LockEnds \/ WindowPasses \/ SecondWindowPasses

LoginSpec == LoginInit /\ [][LoginNext]_loginVars

-----------------------------------------------------------------------------

\* Within one window an address gets no more than the permitted number of
\* wrong passwords, one more for every other request under way when the
\* limit is reached, and one for every failure lost to a mishap: an error of
\* the database, or a restart of the window that overtakes a new failure.
LoginFailuresBounded ==
    wrong <= MaxAttempts + (Cardinality(LoginThreads) - 1) + slips
=============================================================================

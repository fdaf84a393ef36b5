---------------------------- MODULE RefreshLedger ----------------------------
(***************************************************************************)
(* What the refresh runs promise the administrator, without tokens, rows   *)
(* and locks: a run works only while no other does, unless one took longer *)
(* than the lock lasts; its record tells one outcome; a run recorded as    *)
(* skipped refreshed nothing, and one recorded as completed has been       *)
(* through its whole list.  TokenRefresh implements it.                    *)
(***************************************************************************)
CONSTANTS Runs, Accounts

VARIABLES at,       \* how far each run is
          outcome,  \* what its record says
          left,     \* the accounts it has still to go through
          late      \* has a run taken longer than the lock lasts?

ledger == <<at, outcome, left, late>>

Init ==
    /\ at = [r \in Runs |-> "before"]
    /\ outcome = [r \in Runs |-> "none"]
    /\ left = [r \in Runs |-> {}]
    /\ late = FALSE

Move(r, from, to) == at[r] = from /\ at' = [at EXCEPT ![r] = to]

\* An outcome is told once.
Tell(r, said) == /\ outcome[r] \notin {"completed", "failed", "skipped"}
                 /\ outcome' = [outcome EXCEPT ![r] = said]

Prepare(r) ==
    /\ Move(r, "before", "waiting") \/ Move(r, "waiting", "waiting")
    /\ Tell(r, "running")
    /\ \E S \in SUBSET Accounts : left' = [left EXCEPT ![r] = S]
    /\ UNCHANGED late

GiveUp(r) ==
    /\ Move(r, "waiting", "over")
    /\ UNCHANGED outcome \/ Tell(r, "skipped") \/ Tell(r, "failed")
    /\ UNCHANGED <<left, late>>

Enter(r) ==
    /\ late \/ \A q \in Runs : at[q] # "working"
    /\ Move(r, "waiting", "working")
    /\ UNCHANGED <<outcome, left, late>>

GoThrough(r, a) ==
    /\ at[r] = "working" /\ a \in left[r]
    /\ left' = [left EXCEPT ![r] = @ \ {a}]
    /\ UNCHANGED <<at, outcome, late>>

TellCompleted(r) == left[r] = {} /\ Tell(r, "completed")

Leave(r) ==
    /\ Move(r, "working", "leaving")
    /\ UNCHANGED outcome \/ TellCompleted(r) \/ Tell(r, "failed")
    /\ UNCHANGED <<left, late>>

Close(r) ==
    /\ Move(r, "leaving", "over")
    /\ UNCHANGED outcome \/ TellCompleted(r)
    /\ UNCHANGED <<left, late>>

\* The process dies with every run in it.
Die == /\ at' = [r \in Runs |-> IF at[r] = "before" THEN "before" ELSE "over"]
       /\ UNCHANGED <<outcome, left, late>>

Overrun == late' = TRUE /\ UNCHANGED <<at, outcome, left>>

Next == \/ \E r \in Runs : \/ Prepare(r) \/ GiveUp(r) \/ Enter(r) \/ Leave(r) \/ Close(r)
                           \/ \E a \in Accounts : GoThrough(r, a)
        \/ Die \/ Overrun

Spec == Init /\ [][Next]_ledger
=============================================================================

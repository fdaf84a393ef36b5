--------------------------- MODULE DeliveryLedger ---------------------------
(***************************************************************************)
(* What the dispatch job promises of each message, without jobs, lists,    *)
(* rows that age, retries and crashes: it goes out once and, once that is  *)
(* confirmed, is left alone.  Only in doubt about an attempt, which        *)
(* nothing that is confirmed can come into, may it go out again or be      *)
(* taken for unsent.  NotificationDispatch implements it.                  *)
(***************************************************************************)
EXTENDS Naturals

CONSTANT Messages

VARIABLES sends,      \* how often each message went out
          confirmed,  \* the messages known to have gone out
          doubted     \* those of which an attempt may or may not have gone out

ledger == <<sends, confirmed, doubted>>

Init == sends = [m \in Messages |-> 0] /\ confirmed = {} /\ doubted = {}

GoOut(m) ==
    /\ sends[m] = 0 \/ m \in doubted
    /\ sends' = [sends EXCEPT ![m] = @ + 1]
    /\ UNCHANGED confirmed

Doubt(m) == /\ m \notin confirmed
            /\ doubted' = doubted \cup {m}

Confirm(m) == /\ sends[m] > 0
              /\ confirmed' = confirmed \cup {m}
              /\ UNCHANGED <<sends, doubted>>

Withdraw(m) == /\ m \in doubted
               /\ confirmed' = confirmed \ {m}
               /\ UNCHANGED <<sends, doubted>>

\* The answer to a message that goes out may be lost.
Next == \E m \in Messages :
            \/ GoOut(m) /\ (UNCHANGED doubted \/ Doubt(m))
            \/ Doubt(m) /\ UNCHANGED <<sends, confirmed>>
            \/ Confirm(m) \/ Withdraw(m)

Spec == Init /\ [][Next]_ledger
=============================================================================

----------------------------- MODULE PoolLedger -----------------------------
(***************************************************************************)
(* What the mailbox pool promises its callers, without the requests, jobs  *)
(* and tables that make it work: a mailbox is granted to one claim at a    *)
(* time, every claim gets a token of its own, and a project never gets the *)
(* same mailbox twice from the same caller.  Pool implements it.           *)
(***************************************************************************)
EXTENDS Naturals, Sequences

CONSTANTS Accounts, Callers, Projects, NoProject

VARIABLES grants,   \* the claims granted so far; the i-th has token i
          holder    \* the token each mailbox is held under, 0 when it is free

Init == grants = <<>> /\ holder = [a \in Accounts |-> 0]

Reused(a, c, p) ==
    /\ p # NoProject
    /\ \E i \in DOMAIN grants : grants[i] = [account |-> a, caller |-> c, project |-> p]

Grant(a, c, p) ==
    /\ holder[a] = 0
    /\ ~Reused(a, c, p)
    /\ grants' = Append(grants, [account |-> a, caller |-> c, project |-> p])
    /\ holder' = [holder EXCEPT ![a] = Len(grants) + 1]

End(a) ==
    /\ holder[a] # 0
    /\ holder' = [holder EXCEPT ![a] = 0]
    /\ UNCHANGED grants

Next == \E a \in Accounts :
            \/ \E c \in Callers, p \in Projects \cup {NoProject} : Grant(a, c, p)
            \/ End(a)

Spec == Init /\ [][Next]_<<grants, holder>>
=============================================================================

---------------------------- MODULE PoolCooldown ----------------------------
(***************************************************************************)
(* How long a mailbox stays in cooldown.  recover_cooldown compares two    *)
(* texts: updated_at and the cutoff now - pool_cooldown_seconds.  The pool *)
(* writes updated_at as "2026-03-28T10:00:00Z", every edit of the account  *)
(* and every token refresh as "2026-03-28 10:00:00", and ' ' sorts before  *)
(* 'T'.  One account is enough: rows do not affect each other here.        *)
(*                                                                         *)
(* Time is kept relative to now: the time of day, and how long ago things  *)
(* happened, capped where no comparison can tell the difference.           *)
(***************************************************************************)
EXTENDS Integers

CONSTANTS Day,       \* ticks in a day
          Cooldown,  \* pool_cooldown_seconds, in ticks
          EditGap    \* ticks between two edits or refreshes of the account

ASSUME PoolCooldownAssumption ==
    Day \in Nat \ {0} /\ Cooldown \in Nat \ {0} /\ EditGap \in Nat \ {0}

VARIABLES status,   \* accounts.pool_status
          tod,      \* the time of day
          age,      \* ticks since updated_at
          form,     \* the text form of updated_at
          served,   \* ticks since the cooldown began
          edited,   \* was the row edited since the cooldown began?
          quiet     \* ticks since the last edit

cooldownVars == <<status, tod, age, form, served, edited, quiet>>

Capped(n, cap) == IF n < cap THEN n ELSE cap
MaxAge == Cooldown + 1

CooldownTypeOK ==
    /\ status \in {"available", "claimed", "cooldown"}
    /\ tod \in 0 .. Day - 1
    /\ age \in 0 .. MaxAge
    /\ form \in {"iso", "sqlite"}
    /\ served \in 0 .. MaxAge
    /\ edited \in BOOLEAN
    /\ quiet \in 0 .. EditGap

CooldownInit ==
    /\ status = "available"
    /\ tod \in 0 .. Day - 1
    /\ age = 0
    /\ form = "sqlite"
    /\ served = 0
    /\ edited = FALSE
    /\ quiet = EditGap

Stamp(f) == age' = 0 /\ form' = f

ClaimRandom ==
    /\ status = "available"
    /\ status' = "claimed"
    /\ Stamp("iso")
    /\ UNCHANGED <<tod, served, edited, quiet>>

\* complete with 'verification_timeout', or the expiry of the lease.
EnterCooldown ==
    /\ status = "claimed"
    /\ status' = "cooldown"
    /\ Stamp("iso")
    /\ served' = 0
    /\ edited' = FALSE
    /\ UNCHANGED <<tod, quiet>>

\* update_account, a status change, a stored refresh: CURRENT_TIMESTAMP.
Edit ==
    /\ quiet = EditGap
    /\ quiet' = 0
    /\ Stamp("sqlite")
    /\ edited' = TRUE
    /\ UNCHANGED <<status, tod, served>>

\* The text comparison updated_at < cutoff: first the dates (days counted
\* from today's midnight), then the separator, then the time of day.
StampDay == (tod - age) \div Day
CutoffDay == (tod - Cooldown) \div Day

\* Mutant: only the time of day is compared.
DueByTimeOfDay == form = "sqlite" \/ age > Cooldown

\* Mutant: stamps of the other form are not understood.
DueInOneForm == form = "iso" /\ age > Cooldown

CooldownDue ==
    \/ StampDay < CutoffDay
    \/ StampDay = CutoffDay /\ (form = "sqlite" \/ age > Cooldown)

RecoverCooldown ==
    /\ status = "cooldown"
    /\ CooldownDue
    /\ status' = "available"
    /\ Stamp("iso")
    /\ UNCHANGED <<tod, served, edited, quiet>>

CooldownTick ==
    /\ tod' = (tod + 1) % Day
    /\ age' = Capped(age + 1, MaxAge)
    /\ served' = IF status = "cooldown" THEN Capped(served + 1, MaxAge) ELSE 0
    /\ quiet' = Capped(quiet + 1, EditGap)
    /\ UNCHANGED <<status, form, edited>>

CooldownNext == ClaimRandom \/ EnterCooldown \/ Edit \/ RecoverCooldown \/ CooldownTick

\* The job runs every 300 seconds for ever, so it runs again and again while
\* the row is due, however often an edit makes it undue in between.
CooldownFairness == WF_cooldownVars(CooldownTick) /\ SF_cooldownVars(RecoverCooldown)

CooldownSpec == CooldownInit /\ [][CooldownNext]_cooldownVars /\ CooldownFairness

-----------------------------------------------------------------------------

Recovered == status = "cooldown" /\ status' = "available"

\* A mailbox whose row nobody touches stays in cooldown for longer than
\* pool_cooldown_seconds, whatever midnight comes between the two texts; and
\* however often it is edited, it comes back less than a day too early,
\* counted from the last write of the row.
CooldownKept ==
    [][Recovered => /\ age > Cooldown - Day
                    /\ ~edited => served > Cooldown]_cooldownVars

\* A mailbox leaves cooldown, provided its edits are rarer than the cooldown
\* is long: each of them starts the wait again.
CooldownEnds == (status = "cooldown") ~> (status # "cooldown")
=============================================================================

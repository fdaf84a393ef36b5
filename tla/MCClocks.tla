----------------------------- MODULE MCClocks -------------------------------
(***************************************************************************)
(* The parts that wait for time and for the scheduler: temporary mail with *)
(* its probes, and the cooldown of a pool mailbox.  They share nothing, so *)
(* a behaviour belongs to one of them, and the other stands still.         *)
(***************************************************************************)
EXTENDS TempMail, PoolCooldown

VARIABLE part   \* the part this behaviour is of

clocksVars == <<tempMailVars, cooldownVars, part>>

ClocksInit ==
    /\ part \in {"temp mail", "cooldown"}
    /\ TempMailInit
    /\ CooldownInit
    /\ part = "temp mail" => tod = 0

ClocksNext ==
    /\ UNCHANGED part
    /\ \/ part = "temp mail" /\ TempMailNext /\ UNCHANGED cooldownVars
       \/ part = "cooldown" /\ CooldownNext /\ UNCHANGED tempMailVars

\* The fairness of TempMail and of PoolCooldown, each for its behaviours.
ClocksFairness ==
    /\ WF_tempMailVars(part = "temp mail" /\ \E p \in Probes : ProbeElapses(p))
    /\ WF_tempMailVars(part = "temp mail" /\ JobStep)
    /\ WF_cooldownVars(part = "cooldown" /\ CooldownTick)
    /\ SF_cooldownVars(part = "cooldown" /\ RecoverCooldown)

ClocksSpec == ClocksInit /\ [][ClocksNext]_clocksVars /\ ClocksFairness

TypeOK == TempMailTypeOK /\ CooldownTypeOK
=============================================================================

------------------------------ MODULE Settings ------------------------------
(***************************************************************************)
(* The settings page and the jobs of the scheduler.  A save is validated   *)
(* against the settings read when it arrives, written in one transaction,  *)
(* and followed, if one of its fields asks for it, by a rebuild of the     *)
(* jobs from the settings as they are stored by then.  The fields here are *)
(* those the jobs are built from, and refresh_interval_days for the rest.  *)
(***************************************************************************)
EXTENDS Integers

CONSTANTS Editors,   \* requests that save settings, served at the same time
          MaxSaves   \* saves in the model

ASSUME SettingsAssumption == MaxSaves \in Nat

VARIABLES stored,  \* the settings table
          save,    \* the saves under way
          jobs,    \* the scheduler's jobs: token_refresh, email_notification_job
          saves,   \* saves so far
          doubt    \* may the jobs be those of earlier settings, or missing?

settingsVars == <<stored, save, jobs, saves, doubt>>

\* "cron" stands for use_cron_schedule with five fields; croniter, which
\* validates it, also accepts six.
Values == [refresh |-> {"off", "daily", "cron", "six fields"},
           poll |-> {"10", "600"}, mail |-> {"on", "off"}, to |-> {"set", "empty"},
           days |-> {"30", "7"}]

Fields == DOMAIN Values
SettingsRows == [refresh : Values.refresh, poll : Values.poll, mail : Values.mail,
                 to : Values.to, days : Values.days]

\* What one page sends: a switch, or the notification form.
PageChanges == (UNION {[{f} -> Values[f]] : f \in Fields}) \cup [mail : Values.mail, to : Values.to]

\* The settings once a page's changes are made.
Changed(change) == [f \in Fields |-> IF f \in DOMAIN change THEN change[f] ELSE stored[f]]

Seconds(n) == IF n = "10" THEN 10 ELSE 600

\* _get_notification_dispatch_interval, with the 60 seconds a mail
\* notification waits at most.
DispatchInterval(s) ==
    LET poll == Seconds(s.poll) IN
    IF s.mail = "on" /\ s.to = "set" /\ poll > 60 THEN 60 ELSE poll

RefreshJob(refresh) ==
    CASE refresh = "off" -> "none"
      [] refresh = "cron" -> "cron"
      [] OTHER -> "02:00"

JobsOf(s) == [refresh |-> RefreshJob(s.refresh), dispatch |-> DispatchInterval(s)]

NoSave == [step |-> "idle"]
Saving(t) == save[t].step # "idle"

SettingsTypeOK ==
    /\ stored \in SettingsRows
    /\ \A t \in Editors : save[t].step \in {"idle", "commit", "reload", "interval", "dispatch", "refresh"}
    /\ jobs \in [refresh : {"none", "02:00", "cron"}, dispatch : {0, 10, 60, 600}]
    /\ saves \in 0 .. MaxSaves
    /\ doubt \in BOOLEAN

SettingsInit ==
    /\ stored = [refresh |-> "daily", poll |-> "600", mail |-> "off", to |-> "empty", days |-> "30"]
    /\ save = [t \in Editors |-> NoSave]
    /\ jobs = JobsOf(stored)
    /\ saves = 0
    /\ doubt = FALSE

Continue(t, record) == save' = [save EXCEPT ![t] = record]

-----------------------------------------------------------------------------

\* Mail notifications may not be on without a recipient, counting what the
\* table held when the request came in.
Accepted(change) ==
    DOMAIN change \cap {"mail", "to"} # {} =>
        Changed(change).mail = "off" \/ Changed(change).to = "set"

Submit(t, change) ==
    /\ ~Saving(t)
    /\ saves < MaxSaves
    /\ Accepted(change)
    /\ saves' = saves + 1
    /\ Continue(t, [step |-> "commit", change |-> change])
    /\ UNCHANGED <<stored, jobs, doubt>>

\* Mutant: telegram_poll_interval is saved without a rebuild.
ReloadNeededButForPoll(change) == DOMAIN change \cap {"refresh", "mail", "to"} # {}

ReloadNeeded(change) == DOMAIN change \cap {"refresh", "poll", "mail", "to"} # {}

\* Has another request begun to read the settings it builds the jobs from?
HaveRead(t) == \E u \in Editors \ {t} : save[u].step \in {"interval", "dispatch", "refresh"}

CommitSave(t) ==
    /\ save[t].step = "commit"
    /\ LET change == save[t].change IN
         /\ stored' = Changed(change)
         /\ Continue(t, IF ReloadNeeded(change) THEN [step |-> "reload"] ELSE NoSave)
         /\ doubt' = \/ HaveRead(t)
                     \/ doubt /\ DOMAIN change = {"days"}
    /\ UNCHANGED <<jobs, saves>>

\* One of the writes fails: everything is rolled back.
SaveFails(t) ==
    /\ save[t].step = "commit"
    /\ Continue(t, NoSave)
    /\ UNCHANGED <<stored, jobs, saves, doubt>>

-----------------------------------------------------------------------------
(* configure_scheduler_jobs, in the order of its reads and writes.         *)

ReadSchedule(t) ==
    /\ save[t].step = "reload"
    /\ Continue(t, [step |-> "interval", refresh |-> stored.refresh])
    /\ UNCHANGED <<stored, jobs, saves, doubt>>

ReadInterval(t) ==
    /\ save[t].step = "interval"
    /\ Continue(t, [step |-> "dispatch", refresh |-> save[t].refresh,
                    every |-> DispatchInterval(stored)])
    /\ UNCHANGED <<stored, jobs, saves, doubt>>

SetDispatchJob(t) ==
    /\ save[t].step = "dispatch"
    /\ jobs' = [jobs EXCEPT !.dispatch = save[t].every]
    /\ Continue(t, [step |-> "refresh", refresh |-> save[t].refresh])
    /\ UNCHANGED <<stored, saves, doubt>>

SetRefreshJob(t) ==
    /\ save[t].step = "refresh"
    /\ jobs' = [jobs EXCEPT !.refresh = RefreshJob(save[t].refresh)]
    /\ Continue(t, NoSave)
    /\ UNCHANGED <<stored, saves, doubt>>

\* The scheduler lives in another process, or the rebuild raises, perhaps
\* between the removal of a job and its return: the save is answered all the
\* same, with scheduler_reloaded false.
ReloadFails(t) ==
    /\ save[t].step \in {"reload", "interval", "dispatch", "refresh"}
    /\ jobs' \in {jobs} \cup (CASE save[t].step = "dispatch" -> {[jobs EXCEPT !.dispatch = 0]}
                                [] save[t].step = "refresh" -> {[jobs EXCEPT !.refresh = "none"]}
                                [] OTHER -> {})
    /\ Continue(t, NoSave)
    /\ doubt' = TRUE
    /\ UNCHANGED <<stored, saves>>

\* init_scheduler builds all jobs before the program serves requests.
RestartScheduler ==
    /\ save' = [t \in Editors |-> NoSave]
    /\ jobs' = JobsOf(stored)
    /\ doubt' = FALSE
    /\ UNCHANGED <<stored, saves>>

SettingsNext ==
    \/ \E t \in Editors :
         \/ \E change \in PageChanges : Submit(t, change)
         \/ CommitSave(t) \/ SaveFails(t)
         \/ ReadSchedule(t) \/ ReadInterval(t) \/ SetDispatchJob(t) \/ SetRefreshJob(t)
         \/ ReloadFails(t)
    \/ RestartScheduler

SettingsSpec == SettingsInit /\ [][SettingsNext]_settingsVars

-----------------------------------------------------------------------------

\* Once all saves are done the jobs run as the stored settings say, unless a
\* rebuild failed, or a save was committed while another rebuilt the jobs
\* and nothing has rebuilt them since.
JobsMatchSettings ==
    (\A t \in Editors : ~Saving(t)) /\ ~doubt => jobs = JobsOf(stored)
=============================================================================

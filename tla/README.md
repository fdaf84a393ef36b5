# Outlook Email Plus: formal model

TLA+ modules for Outlook Email Plus: the mailbox pool, the token refresh runs,
the notification job, temporary mailboxes with their probes, mail reading, the
extraction of codes, accounts and their imports, the login limiter, export
tokens, settings and the start of the database. Each module is translated from
the source; `PROJECT.json` names, for every definition, the lines it stands
for. Paths below are relative to `src/outlook_web/`.

## The system

One Python process (Flask) serves the administrator's pages, the external API
and the event streams, and runs APScheduler jobs in background threads. The
Docker image starts gunicorn with one synchronous worker; started as
`python web_outlook_app.py`, Flask answers each request in a thread of its own.
`distributed_locks`, the delivery log and `init_db` are written for several
processes on one database. SQLite runs in WAL mode with foreign keys on;
`BEGIN IMMEDIATE` transactions are serialised, everything between two of them
may interleave.

| Component | State | Operations | What is hard about it | What makes it correct |
|---|---|---|---|---|
| Mailbox pool (`repositories/pool.py`, `services/pool.py`, `controllers/external_pool.py`) | `accounts.pool_status`, `claim_token`, `claimed_by`, `lease_expires_at`, counters; `account_project_usage`; `account_claim_logs` | claim, release, complete, read under a claim, statistics | release and complete check the row and write it later without checking again; callers that vanish | one holder per mailbox, none twice for a project, log and counters that agree with what happened |
| Pool maintenance (`services/scheduler.py:191`) | the rows of the pool | expire leases every 60 s, end cooldowns every 300 s | select, then write one by one; timestamps compared as text | every lease ends; a cooldown is served |
| Token refresh (`services/refresh.py`, `services/scheduler.py:371`, `repositories/distributed_locks.py`, `repositories/refresh_runs.py`) | `distributed_locks`, `refresh_runs`, `accounts.refresh_token`, `account_refresh_logs` | refresh all, trigger, scheduled task, retry failed | four variants of one loop; lock with a TTL; streams whose reader goes away; rotating tokens | one run at a time, one outcome per run, no run takes a token back, the lock comes back |
| Notification dispatch (`services/notification_dispatch.py`, `repositories/notification_state.py`, `services/email_push.py`, `services/telegram_push.py`) | cursor per source and channel, delivery log | fetch, claim, send, mark, move the cursor, reset | several jobs, crashes between steps, refused sends, folders that do not answer, limits, whole-second cursors | sent once, nothing a pass had in hand is skipped, failures retried |
| Probes and `wait_for_message` (`services/external_api.py`) | `external_probe_cache` | create, poll, match, time out, cancel, clean up | a slow poll against a time-out and a cancellation; a job that reads without being a consumer | one final outcome, pending probes end |
| Temporary mailboxes (`services/temp_mail_service.py`, `repositories/temp_emails.py`, providers) | `temp_emails`, `temp_email_messages` | generate, import, apply for a task, finish, delete, synchronise, delete messages | the provider and the database change one after the other; addresses are used again | a task's mail reaches its consumer only, and nobody once it is finished; deleted mail stays deleted |
| Mailbox resolver (`services/mailbox_resolver.py`) | reads accounts and temporary mailboxes | resolve an address, admit a consumer | finished and shadowed mailboxes | the reader gets the mailbox it may read |
| Login, export token (`security/auth.py`) | `login_attempts`, `export_verify_tokens` | limit, record, reset; issue, check, consume | read, then write; errors that let a request through | wrong passwords are bounded; a token opens one export |
| API keys, guard (`security/external_api_guard.py`, `repositories/external_api_keys.py`) | `external_api_rate_limits`, daily usage, keys | limit, count, authorise | concurrent counters | the limit per minute holds |
| Settings (`controllers/settings.py`, `repositories/settings.py`) | `settings`, the scheduler's jobs | read, save, rebuild the jobs | saves that overlap; a rebuild that fails half way | the jobs follow what was saved |
| Accounts, groups, tags (`controllers/accounts.py`, `repositories/accounts.py`, `controllers/groups.py`) | `accounts`, `groups`, `tags` | edit, move, delete, import, export | batches with partial failure; look-up and write apart | what is reported is what was done; an export can be imported again |
| Mail reading (`services/graph.py`, `imap.py`, `imap_generic.py`, `email_delete.py`, `controllers/emails.py`) | the compact summary and the rotated token of an account | list, read, extract, delete, with fallbacks | which error ends the fallback; results of different shape; ids that are positions | the mail shown is the mail meant; the summary does not go back |
| Code extractor (`services/verification_extractor.py`) | none | extract a code or link from a mail | ranking of candidates, cuts around keywords | a code is a code of the mail, and one that is there is found |
| Schema (`db.py`) | all tables, `schema_migrations` | create, migrate | an upgrade interrupted half way, two programs at once | the file is as it was or upgraded in full |
| Front end (`static/js`) | page state, timers | poll, render | stale answers | a poll stops when its page or limit says so |

How they meet: the pool, the refresh runs and the administrator all write rows
of `accounts` (`updated_at` is shared, which is what `PoolCooldown` is about).
A claim token given to a mail read resolves to the account and leaves a line
in the claim log. The notification job reads mail with the tokens the refresh
runs store. The scheduler calls the jobs, one instance of each at a time. A
finished task mailbox ends the probes that watch it.

## The modules

| Module | Models | State |
|---|---|---|
| `PoolLedger` | what the pool promises: exclusive claims with tokens | grants, holders |
| `Pool` | requests, jobs and edits on the pool's rows | the columns of `accounts`, usage, claim log; requests and sweep in flight |
| `MCPool` | names and symmetry for TLC | |
| `PoolProofs` | the theorems about `Pool` | |
| `PoolCooldown` | the text comparison that ends a cooldown | one row, the time of day, ages |
| `RefreshLedger` | what a refresh run promises: alone at work, one outcome told | stages, outcomes, accounts left |
| `TokenRefresh` | refresh runs, their lock, and requests that write tokens without it | one program counter per run, lock row, run rows, tokens; requests |
| `MCTokenRefresh`, `MCNotificationDispatch` | symmetry for TLC | |
| `DeliveryLedger` | what the delivery log promises of a message | sends, confirmed, doubted |
| `NotificationDispatch` | one account on one channel, several jobs | mail in its folders, cursor, delivery log, one program counter per job |
| `TempMail` | temporary mailboxes, their messages, external reads, probes | `temp_emails`, stored messages, what the provider holds, `external_probe_cache`; requests and the job's pass |
| `MailRead` | reading one account's mail with its fallbacks | folders, the compact summary, the token; requests |
| `Extractor` | codes and links of a mail, as operators | one extraction and its result |
| `AccountLines` | import and export lines, as operators | one account on its way out and in again |
| `Accounts` | imports, edits, moves, deletions, groups | `accounts`, `groups`; requests |
| `Login` | the login limiter for one address | the row of `login_attempts`; requests |
| `ExportToken` | one-time export tokens | `export_verify_tokens`, the write lock; requests |
| `Settings` | saves and the jobs they rebuild | `settings`, the jobs; saves under way |
| `Migration` | `init_db` by several programs | the file, the open transaction, its savepoint |
| `MCServices`, `MCClocks` | several of these in one run, as behaviours of their own | `part` |
| `TokenRefreshProofs` | the theorems about `TokenRefresh` | |
| `NotificationProofs` | the theorems about `NotificationDispatch` | |
| `ClocksProofs` | the theorems about `TempMail`, `PoolCooldown` and `MCClocks` | |
| `MailReadProofs` | the theorems about `MailRead` and `Extractor` | |
| `AccountsProofs` | the theorems about `Accounts` and `AccountLines` | |
| `AdminProofs` | the theorems about `Login`, `ExportToken`, `Settings` and `Migration` | |
| `ServicesProofs` | the theorems about `MCServices` | |

Each module's mutants (definitions introduced by a comment "Mutant: ...")
stand directly before the definition they vary. They are used by no run; they
are the bugs the properties are known to catch.

`MCServices` and `MCClocks` are unions, not compositions: `part`, chosen at the
start and never changed, says which module moves, and the others stand still.
The modules they join share no rows, so a composition would only multiply the
states; a property of one module speaks of its own behaviours and holds in
those of the others because their variables keep the initial values. That a
union's behaviours are behaviours of each of its parts is the theorem
`ServicesImplement`. What
parts share in the program is inside one module: probes and mailboxes in
`TempMail`, summary and mails in `MailRead`, accounts and groups in `Accounts`.

### Pool

`release_claim` and `complete_claim` (`services/pool.py:130-228`) select the
row, compare status, token and `claimed_by`, and call a repository function
that opens its own transaction and writes `WHERE id = ?`. So each is two steps:
`CheckRelease`/`CheckComplete` put the request into `checked`,
`CommitRelease`/`CommitComplete` write it, whatever the row is by then. A mail
read under a claim is `CheckRead` (the token resolves) and `CommitRead` (the
log line). `expire_stale_claims` is `SweepSelect`, then one `SweepExpire` per
victim. `claim_atomic` and `recover_cooldown` are one transaction each and one
step each. `Restart` forgets what is in flight and keeps the rows.

A request answered with an error changes nothing, so it is no step. Provider
and domain filters choose a subset of the candidates; the random choice covers
them. A caller and its task are one value (`caller_id:task_id`). An account
that is deleted does not come back under its id (`AUTOINCREMENT`).

Time is only what the comparisons see: `LeaseElapses` adds a token to
`overdue`, `CooldownElapses` an account to `rested`; any writer of the row takes
the account out of `rested` again, as it takes `updated_at` along.

### PoolCooldown

`recover_cooldown` compares `updated_at` with `now - pool_cooldown_seconds` as
texts. The pool writes `2026-03-28T10:00:00Z`, the administrator's edits and
stored refreshes write `2026-03-28 10:00:00`. `CooldownDue` is that comparison: date,
then separator, then time of day. Fractions of a second are below a tick.

### TokenRefresh

Four kinds of run: `manual_all`, `scheduled_manual` (both streams), `scheduled`
(the job) and `retry_failed`. They share the shape, and differ where the code
does: the interval gate, which of them purge expired locks, the order of
finishing the row and releasing the lock, one transaction or two for log and
token, what an exception writes. Tokens are numbered by age. `LockExpires` is
the TTL; `overruns` counts the times it passed a run still at work. The provider
is the environment. The gate is that of the day interval
(`use_cron_schedule` off); with the cron schedule there is none, which a forced
trigger shows as well.

`Others` are the requests that write a token and never ask for the lock; each has
one errand in `other`. `AskAlone`, `LogAlone` and `StoreAlone` are the refresh of
one account and its retry (`controllers/accounts.py:2036-2108`) and the reads of
mail that save what Graph hands out (`controllers/emails.py:139-163`, `607-621`,
which write no log line); `ReadForEdit` and `WriteEdit` are `update_account`
(`repositories/accounts.py:237-316`), which writes back the token it has read unless the
administrator typed in another. All of them write `WHERE id = ?` or `WHERE email
= ?`, whatever is there by then. So a stored token does go back: an answer that
is late, or an edit of anything else, puts the older token in the place of the
newer. `touched` remembers which accounts were written like this since a run last
asked the provider about them.

`RefreshLedger` is what the runs promise without any of this. A run is before,
waiting, working, leaving or over (`Stage` of its program counter); it enters
only while nobody works, unless a run outlasted the TTL (`late`); its row's
status is told once; `skipped` belongs to a run that refreshed nothing and
`completed` to one that went through all it had loaded (`left`, the model's
`todo`).

### NotificationDispatch

`InitCursor`, `StartFetch`, then per folder `FolderAnswers`, `FolderRefused` or
`FetchRaises`, then per message `ClaimMessage` or `PassMessage`, `Send`
with its outcomes, `MarkSent` or `MarkFailed`, at last `PersistCursor`. Each is
one transaction or one call outside. Two channels and two sources share no
rows, only the limit of the job, so one of each is enough for the properties
here; the limit then is the job's. `GiveBack` is the `except` after a send that
did go out; `AnswerLost` a send that went out and was reported as failed. An
error while an error is being recorded ends the job as `Crash` does.

What one request brings (`Answers`) differs between the two ways to read an account.
Graph is asked for the messages after the cursor in ascending order with `$top`
(`services/telegram_push.py:369-374`): the oldest 50 (`EarliestOf`), the rest next time.
IMAP searches by day, takes the last 50 of what it finds (`msg_ids[-50:]`,
`telegram_push.py:235`), drops what is not after the cursor by the server's date and again by
the `Date` header, and swallows the error of any mail whose reading raises
(`:336`), so what it brings is any part of the 50 latest arrivals
(`LatestOf`); a server's answer without a literal is passed over at `:245`, in
which case the part is empty. `received` is the date the code compares. By
IMAP it is the sender's: one behind the cursor is never seen, and one that
cannot be parsed is compared as text and comes after every date (`:295`), like a
date far ahead. A folder that is refused (`:381`, `:206-226`) brings nothing and no error.

`overlooked` is a history variable: the messages that lay before the end of a pass's
list and were not in it, those that came too late for the pass, those another
job had in hand, and those given up by `ResetCursor`.

`DeliveryLedger` says what the log promises of a message: it goes out once; once
`confirmed` (its row says `sent`) it is let be. Only when `doubted`, and nothing
confirmed becomes doubted, may it go out again. `doubted` is the history variable
`redone`: the attempts that were left behind or reported as failed though they
went out. An attempt that was taken over and ends late may write `failed` over
the other's `sent`; `Withdraw` allows this, of a doubted message only.

### TempMail

A request is a record in `req` with the phase it has reached. Making a mailbox
is `CreateAtProvider` (through `ApplyTask`, `Generate` or `Import`), then
`Record`; a read is `StartRead`, `Fetch` (the provider answers), then
`AnswerList` or `AnswerWait`, which store the messages and answer from the
store; deletions are the provider's step first, then `Forget` or `Drop`;
a single message is asked of the provider for a consumer even when it is stored
(`StartDetail`, `services/external_api.py:656`);
finishing a task is `StartFinish`, `CommitFinish`, `CancelProbes`. `WaitPolls`
resolves and checks the mailbox again for each round of a wait, a read does so
once (`Admitted`, `MayRead`). The probe job is thread `PollJob`: `StartPass`
ends the probes whose time is over and loads the oldest, `PollProbe` checks and
begins the read, as nobody, `PollAnswers` and `PollFails` write the outcome
`WHERE id = ?`. `RestartReads` forgets what is under way.

Addresses may be used again after a deletion. A message remembers whose task it
came for (`owner`) and whether that was over (`late`); `Drop` clears both, as the
administrator thereby gives the address away. `Excuse` marks the reads that had
been admitted before a mailbox was finished or deleted, which the code cannot
stop; `gone` holds the messages deleted while no list was on its way.
Providers differ in whether they delete mailboxes (`Providers`). A key's list of
allowed addresses and the filters of a read choose subsets and are left out.

### MailRead

`Plan` is the order of ways a request tries for its kind of account; each way
works (`ListWorks`, `DetailWorks`, `RemoveWorks`), fails and hands over to the
next (`ListFails`, `DetailFails`, `RemoveFails`) or forbids to go on
(`ListForbids`: the proxy, an expired authorization). An extraction lists
through Graph's two folders, IMAP only if these brought nothing, picks the
latest mail, reads it and extracts (`PickLatest`, `Extracted`). `Item` names a
mail as the way does, in the folder the request names: the two Outlook IMAP
readers by position, so that a removed
mail moves the names (`Without` marks requests this happened to). A list and an
extraction read the account's summary, merge and write it back (`ReadSummary`,
`WriteSummary`), each on its own. `Rotates` is the token Graph may hand out with
the mails: it is saved over whatever the row holds by then.

Dates are the order of arrival for Graph and none for IMAP, whose date texts
`parse_received_at` does not read. Mails hold a code (`Coded`), a link
(`Linked`) or neither; an extraction that finds a link only succeeds and merges
the summary without a code.

### Extractor

A text is a sequence of marks: two keywords, two sorts of digit, a letter, a
separator. `Around` is what is searched near the first place of a keyword,
`Codes` the words of allowed marks and length inside it, `Smart` the first
code near a keyword in the order of the keywords, `Fallback` the first code
that looks like no year or time. `PageCode` and `ConsumerCode` are the two
extractions, which differ in the marks of a code. A caller's `code_regex` may be
any pattern (`services/verification_extractor.py:419-424`); here it is a set of
marks of which whole words are made. `Gate` withholds from a
consumer what is not trusted. `TextPart` and `ContentPart` say which part of a
mail each of them reads. The regular expressions are modelled by the words they
accept, with their bounds as constants.

### AccountLines

A line is the sequence of its fields; a field is one of the values the code
tells apart (empty, a host, Outlook's host, a port, a provider's name, ...), an
address one of three domains. `ReadLine` reads a line with the provider that was
chosen or by guessing (`DetectLine`), `ExportLine` writes an account,
`GroupLine` is the format of a group's export.

### Accounts

An import for one provider is one transaction (`WriteSingle`); an import of any
lines commits each: `FindGroup`, `CreateGroup`, `FindGroupAgain` for its
group, `LookUp`, then `AddLine` or `OverwriteLine`, with the outcome counted.
Edits, remark edits and moves read first and write later (`StartEdit`,
`StartRemark`, `StartMove`, then `WriteEdit`, `WriteMove`), a group's
deletion too; between the two an edit reads the secrets it does not replace
(`ReadSecrets`) and writes them back, over those of an import in between; renaming, adding, status and deletion of an account are one step.
The database keeps addresses and group names apart and refuses an account
without a group (`RowFits`). `by` is the import that last wrote an account's
secrets.

### Login, ExportToken

`check_rate_limit` is `CheckLimit`, which reads and decides (`Verdict`), and
`RestartCount` or `LockOut`, which update what may have changed since; then
`VerifyPassword`, and `RecordFailure` or `ResetAttempts`. The `DELETE` at the
head of `record_login_failure` opens the transaction, so that reading and
writing the counter are one step. Errors let a request through (`CheckErrs`) or
lose a failure (`RecordErrs`). Time is what the comparisons see: the lock has
ended, one window or two have passed.

`consume_export_verify_token` is `BeginExport` (the write lock), `ReadToken`,
`DeleteToken`, or `ExportErrs`; `opened` counts what each token opened. A client
is an address and a `User-Agent`; `SameClient` compares the address, which
`get_client_ip` always has, and the agent unless the request or the token's row
lacks it (`NoAgent`; `security/auth.py:402`).

### Settings

A save is `Submit` (validation against the stored values, `Accepted`), then
`CommitSave` or `SaveFails`, then, if a field asks for it (`ReloadNeeded`), the
rebuild of the jobs in the order of `configure_scheduler_jobs`: `ReadSchedule`,
`ReadInterval`, `SetDispatchJob`, `SetRefreshJob`, or `ReloadFails` between any
of them. `doubt` is a history variable: a rebuild failed, or a save was
committed while another rebuild was under way. The fields are those the jobs
are built from; `refresh_interval_days` stands for those that rebuild nothing.

### Migration

`init_db` is one transaction: `BeginUpgrade` (the write lock, the version read
under it, the record of the attempt, the savepoint), one action per group of
statements, `MarkVersion`, `FinishStart`; `FailStart` rolls back to the savepoint
and commits the record, `EndProgram` loses the transaction, `GiveUpWaiting` is
SQLite's wait for the lock. `ClearDuplicates` is the administrator following the
advice of a refused upgrade. `before` is what an upgrade finds: the data
committed last by a program or by the administrator.

## The runs

| Run | Instance | Distinct states | Shows |
|---|---|---|---|
| `Pool_threads` | 1 account, 2 callers, 1 project, 2 request threads, 2 claims, 1 read | 790,000 | `ProjectExclusive`, `HolderIsLatestGrant`, `WritesFindTheirRow`, `LogFollowsClaim`; the pool implements `PoolLedger` |
| `Pool_accounts` | 2 accounts, 1 caller, 1 thread, 2 claims, success and failure | 190,000 | `CountersMatchLog`, `ClaimsAreClosed`, `ClaimEnds` |
| `Pool_double_hold` | 1 account, 2 callers, 2 threads, 3 claims | stops early | violated: `NoDoubleHold` |
| `TokenRefresh_kinds` | 2 runs of any kinds, 1 account, 1 overrun | 550,000 | `NoConcurrentRefresh`, `LockComesBack`; the runs implement `RefreshLedger` |
| `TokenRefresh_writers` | a stream and a retry or two of one, 1 account, 1 request without the lock, 2 rotations, 1 edit | 6,700,000 | `TokenNeverGoesBack` |
| `NotificationDispatch_delivery` | Graph or IMAP, 2 jobs, 1 folder, 2 messages, 2 a request, limit 1, 1 fault | 2,760,000 | `SentOnce`, `CursorMonotone`, `NothingSkipped`; the jobs implement `DeliveryLedger` |
| `NotificationDispatch_backlog` | Graph or IMAP, 1 job, 2 folders, 2 messages, 1 a request, limit 1, no fault | 18,000 | `BacklogIsSent`, `NothingSkipped` |
| `NotificationDispatch_retry` | 1 job, 2 messages of one second | stops early | violated: `FailedStaysAhead` |
| `Services` | see below | 925,000 | `DetailIsTheMail`, `SummaryKeepsUp`, `ExtractionIsRight`, `ReadsBack`, `ReportIsTrue`, `PlacedByProvider`, `LoginFailuresBounded`, `ExportedOnce`, `JobsMatchSettings`, `MigrationWhole` |
| `Clocks` | see below | 108,000 | `TaskMailIsPrivate`, `ClosedAfterFinish`, `DeletedStaysGone`, `ProbeOutcomeStays`, `ProbesEnd`, `CooldownKept`, `CooldownEnds` |
| `TempMail_probes` | the temporary mail of `Clocks` | stops early | violated: `TaskProbesAreRead` |
| `MailRead_fallback` | the mail reads of `Services` | stops early | violated: `ExtractFallsBack` |

Each module's type invariant is checked by its run as well. Deadlock is not
checked anywhere: claims, runs, requests and messages are bounded, and when they
are used up the model may stop, as the system may when nobody calls.

The ledgers imply two properties that no run checks by themselves any more and
that are proved: `OutcomeIsFinal` (a row with an outcome is not written again)
and `SentRowIsTrue` (a row that says `sent` is of a message that went out).
`CompletedAddsUp` (the counters of a completed run add up to its accounts) says little
of the one account that the run about kinds has room for; it is proved for
any finite set of them.

`TokenNeverGoesBack` is about the runs: one that stores an answer does not put an
older token in the place of a newer one, whichever kinds overlap, while none
has outlasted its TTL. It leaves out the accounts that a request without the lock has
written since the run asked (`touched`). What such requests do is modelled and
not forbidden: they take stored tokens back.

`NothingSkipped` says which messages the cursor may pass unsent: those in
`overlooked` and those that share their second with another (`SharesSecond`).
All of these the code does skip. What it does not lose, however jobs overlap,
refuse, crash and reset, is a message that a pass had in its list.

What the properties of the two unions say:

* `DetailIsTheMail`: the mail shown, or the code given, is that of the mail that
  was listed, whichever way read it, unless positions moved in between.
* `SummaryKeepsUp`: reads that end late do not take the summary back to an older
  mail, unless two merges overlap.
* `ExtractionIsRight`: a code given is a word of the mail, or one that a
  keyword's surroundings cut out of a word; a code that is there is found; the
  link is one with a keyword if any has one; a mail with a text is read.
* `ReadsBack`: what was imported and exported is imported again as it was. Three
  exceptions are part of the property: password logins at Outlook, which only
  the guessing route lets in; client ids that look like a host; and the export
  of one group, whose line for an IMAP account is at least refused.
* `ReportIsTrue`, `PlacedByProvider`: a line reported as imported is in the
  database with the import's secrets, and in the group of its provider, while
  others import, rename, move and delete. The account that the line's look-up
  found must still have the line's address when the line is written
  (`StillThere`): the import writes `WHERE id = ?`, so one that was deleted or
  got another address in between makes the line count without being written.
  And nobody may have renamed or deleted the provider's group meanwhile (`moved`).
* `LoginFailuresBounded`: wrong passwords within a window stay below the limit,
  plus the other requests under way, plus the failures lost to errors.
* `ExportedOnce`: a token opens one export, from the address it was issued to and
  by the same browser as far as both requests name theirs. A request without a
  `User-Agent` spends the token of any browser at that address.
* `JobsMatchSettings`: when no save is under way the jobs are those of the stored
  settings, unless a rebuild failed or overlapped another save.
* `MigrationWhole`: the file is untouched or upgraded in full, and its record and
  its last error say which.
* `TaskMailIsPrivate`, `ClosedAfterFinish`, `DeletedStaysGone`: who gets a message
  through any path, after reuse, import, finishing and deletion.
* `ProbeOutcomeStays`, `ProbesEnd`: outcomes are kept and every probe gets one.
* `CooldownKept`, `CooldownEnds`: a cooldown is served, early by less than a day
  if the row was edited, and ends.

### Why the bounds are enough

`Pool`: rows of different accounts meet only in the sweep and in
`recover_cooldown`, so one account shows the races of checks and writes and two
show the loops. Two claims are the least with a stale write (the first claim's
request lands on the second claim), three show a third claim after it. Two
threads and the sweep are three writers at one row. One read suffices, as a
read changes nothing the others look at.

`TokenRefresh`: the lock is about pairs of runs, and a second account adds nothing
to it; that the counters add up over any finite set of accounts is proved
(`TotalsAddUp`). One overrun lets a run come back late to a lock that is
another's. Two rotations let a token be replaced twice, in the run that is about
tokens. One request beside the runs (`Others`) writes before, between
and after their steps, as often as it likes; it is absent where the lock and
the rows are the question, which it does not touch.

`NotificationDispatch`: two jobs and two messages give a claim by one while the
other sends, and two messages in a list with a limit of one a list that is not
finished; one fault at a time, of any sort, at any place. One message a request and
one a pass make a backlog of two longer than both, and one message that the
request leaves out; two folders let one answer and the other not, which the run
of one job shows. Two jobs over two folders are too many states for TLC (5,450,000
take it close to five minutes): the theorem `NothingIsSkipped` has any number of jobs, folders
and messages, with all faults.

`PoolCooldown` (a day of 4 ticks, cooldown 5, edits 7 apart): only the order of
the times of day and the date matter, so a day of four ticks has a before, an at
and an after; a cooldown of a day and a tick crosses midnight at every time.

`TempMail` (1 address, 2 consumers of which 1 applies, 2 threads and the job, 1
message, 2 mailboxes, 2 probes, 3 requests, 1 probe a pass): rows of different
addresses do not meet. Two mailboxes are the address used again; a second
consumer and the administrator are everybody else; two probes are more than one
pass loads; three requests are a mailbox, a finish or deletion, and the read
they race with. The provider deletes mailboxes here; one that keeps them shows
old mail under a new mailbox, which the administrator's deletion permits.

`MailRead` (2 threads, 2 mails in either folder, one with a code and one with a
link, 2 reads, 1 edit): a mail before and one after
the mail meant, two reads whose merges overlap or follow each other. `Extractor`
(texts of up to 5 marks, codes of 2 or 3, a year of 2, a window of 2): a keyword,
a separator and a code on either side, and a code cut by the window. Two links
with any keywords. `AccountLines`: every combination of the values each field is
tested for, up to five fields. `Accounts` (2 threads, 2 requests, 1 change, 2
addresses, 4 groups): an import against another, against an edit,
and each with a rename or deletion (a group's deletion whose heir has gone
meanwhile takes four changes and is the one branch no run reaches). `Login` (2 requests at once, limit 2, 1 error),
`ExportToken` (1 token, 2 addresses, a browser and none, 2 requests): each pair of requests. Requests
have no other bound in these two. `Settings` (2 requests, 3 saves): two rebuilds
that overlap and one after them. `Migration` (2 programs, 3 starts, 2 mailboxes,
1 old secret): every old file, a start that fails, one that waits, one after.

### Fairness

`Pool` (`ClaimEnds`): the clock (`LeaseElapses`) and the expiry job. The job
runs every 60 s for as long as the process does; `SF_vars(Expire)` says that it
is not interrupted by a restart between select and write every single time.
Callers and the administrator carry no fairness.

`TokenRefresh` (`LockComesBack`): a run that has started is carried on by its
thread, and the clock reaches the TTL. No fairness of starting, and none
against crashes.

`NotificationDispatch` (`BacklogIsSent`): the job is run again and again, old
attempts age, and a server asked again and again does its part at some time: it
accepts a message, and it answers for one folder after the other within a
pass. That each folder answers at some time would not be enough, if it is never in the
same pass: a pass that a folder's error ends sends nothing.

`PoolCooldown` (`CooldownEnds`): the clock and the recovery job, which runs
every 300 s; strongly fair, since an edit may make the row undue between two of
its runs. The property needs edits rarer than the cooldown is long, which
`EditGap` says: each edit starts the wait again.

`TempMail` (`ProbesEnd`): the time of each probe comes, and the scheduler runs
the probe job every 5 s for as long as the process does (`JobStep`, weakly fair:
some step of the job). A restart may cut short every pass; each still begins by
ending the probes whose time is over. Providers, consumers and the administrator
carry no fairness.

`MCClocks` states the fairness of these two, each for the behaviours of its part.

### What the violated properties mean

* `NoDoubleHold`: a release sent twice, or a release that overlaps the expiry of
  its lease, is written after the next claim and frees that claim's row. The
  unconditional `WHERE id = ?` of `release` is the cause.
* `FailedStaysAhead`: the cursor cannot tell messages of one second apart.
* `TaskProbesAreRead`: a consumer may create a probe for its task mailbox, but
  the job that polls it passes no consumer and is refused: the probe ends in
  `error` at its first poll, although `create_probe` says that it is polled until
  it matches or times out.
* `ExtractFallsBack`: the extraction takes any detail with a `body` for Graph's
  record. The IMAP reader's `body` is a text, so the documented fall-back to IMAP
  ends in an internal error.

Other consequences of the code that the models reach and no property forbids: a
mailbox completed with `success` while the expiry job holds it selected becomes
`cooldown` instead of `used`; a refresh run that waited for the lock presents a
token already replaced, and a request without the lock takes a stored one back; a message
that a pass did not see (over the limit through IMAP, unreadable, with a date behind the cursor,
in a folder that does not answer) is never notified of once the cursor has passed it;
an edit writes back the secrets from before an import; a cancelled probe may be overwritten by the pass that had
loaded it; an edit of the remark writes back an older group and status.

## The proofs

Everything below is checked by TLAPS for all values of the constants. The only
assumptions are the ones the modules name: bounds are natural numbers (some of
them positive), sentinels such as `NoCaller`, `Nobody` or `Unlocked` are not members of
the sets they stand beside, the sets that are counted are finite
(`IsFiniteSet`), and `PoolAssumption`'s results are those the API accepts. The bounds
on requests, mails or faults remain in the models, but as parameters. Some small
sets are part of a module and so of its theorems: an import in `Accounts` lists
at most two lines, a keyword of `Extractor` is one of two, and a field of
`AccountLines` is one of the values the code tells apart.

Each proof module has one inductive invariant, a conjunction of named parts, a
lemma per part or per shape of step, and short theorems that follow from it by
temporal reasoning. TLC checked each of these invariants on an instance before it was proved.

| Module | Theorem | Statement |
|---|---|---|
| `PoolProofs` | `Invariance` | `Spec => []IInv` |
| | `TypeCorrect` | `Spec => []TypeOK` |
| | `Exclusive` | `Spec => []ProjectExclusive` |
| | `HolderIsLatest` | `Spec => []HolderIsLatestGrant` |
| | `WritesAreSafe` | `Spec => []WritesFindTheirRow` |
| | `LogIsOrdered` | `Spec => []LogFollowsClaim` |
| | `SumsInvariant` | `Spec => [](CountersMatchLog /\ ClaimsAreClosed)` |
| | `CountersAreTrue`, `ClaimsEndInTheLog` | the two by themselves |
| | `Refinement` | `Spec => LedgerSpec` |
| `TokenRefreshProofs` | `RefreshInvariant` | `Spec => []IInv` |
| | `TypeCorrect` | `Spec => []TypeOK` |
| | `RunsAreApart` | `Spec => []NoConcurrentRefresh` |
| | `TotalsAddUp` | `Spec => []CompletedAddsUp` |
| | `OutcomesAreFinal` | `Spec => OutcomeIsFinal` |
| | `TokensNeverGoBack` | `Spec => TokenNeverGoesBack` |
| | `RunsRefine` | `Spec => RefreshLedgerSpec` |
| `NotificationProofs` | `DeliveryInvariant` | `Spec => []IInv` |
| | `TypeCorrect` | `Spec => []TypeOK` |
| | `AttemptsAreExclusive` | `Spec => []SentOnce` |
| | `SentRowsAreTrue` | `Spec => []SentRowIsTrue` |
| | `CursorNeverGoesBack` | `Spec => CursorMonotone` |
| | `DeliveriesRefine` | `Spec => DeliveryLedgerSpec` |
| | `NothingIsSkipped` | `Spec => NothingSkipped` |
| `ClocksProofs` | `MailInvariant` | `TempMailSpec => []IInv` |
| | `TypeCorrect` | `TempMailSpec => []TempMailTypeOK` |
| | `TaskMailStaysPrivate` | `TempMailSpec => []TaskMailIsPrivate` |
| | `FinishedMeansClosed` | `TempMailSpec => []ClosedAfterFinish` |
| | `DeletedIsGone` | `TempMailSpec => []DeletedStaysGone` |
| | `OutcomesStay` | `TempMailSpec => ProbeOutcomeStays` |
| | `CooldownInvariant` | `CooldownSpec => []CooldownInv` |
| | `CooldownIsKept` | `CooldownSpec => CooldownKept` |
| | `ClocksTypeCorrect` | `ClocksSpec => []TypeOK` |
| `MailReadProofs` | `ReadInvariant` | `MailReadSpec => []IInv` |
| | `TypeCorrect` | `MailReadSpec => []MailReadTypeOK` |
| | `ShownIsMeant` | `MailReadSpec => []DetailIsTheMail` |
| | `SummaryIsLatest` | `MailReadSpec => []SummaryKeepsUp` |
| | `ExtractorInvariant` | `ExtractorSpec => []ExtractorInv` |
| | `ExtractionsAreRight` | `ExtractorSpec => []ExtractionIsRight` |
| `AccountsProofs` | `AccountsInvariant` | `AccountsSpec => []AccountsInv` |
| | `AccountsInOrder` | `AccountsSpec => [](AccountsTypeOK /\ TablesInOrder)` |
| | `ReportsAreTrue` | `AccountsSpec => ReportIsTrue` |
| | `AccountsArePlaced` | `AccountsSpec => PlacedByProvider` |
| | `LinesInvariant`, `LinesReadBack` | `AccountLinesSpec => []LinesInv`, `[]ReadsBack` |
| `AdminProofs` | `ExportInvariant`, `ExportOnce` | `ExportTokenSpec => []ExportInv`, `[]ExportedOnce` |
| | `LoginInvariant`, `LoginLimited` | `LoginSpec => []LoginInv`, `[]LoginFailuresBounded` |
| | `SettingsInvariant`, `JobsFollowSettings` | `SettingsSpec => []SettingsInv`, `[]JobsMatchSettings` |
| | `SettingsTypeCorrect` | `SettingsSpec => []SettingsTypeOK` |
| | `MigrationInvariant`, `FileIsWhole` | `MigrationSpec => []MigrationInv`, `[]MigrationWhole` |
| | `MigrationTypeCorrect` | `MigrationSpec => []MigrationTypeOK` |
| `ServicesProofs` | `ServicesImplement` | `ServicesSpec` implies the specification of each of the eight services |
| | `ServicesTypeCorrect` | `ServicesSpec => []TypeOK` |
| | `ServicesAreRight` | `ServicesSpec` implies all ten properties of the services |

### Pool

None of the invariants is inductive alone. `ProjectExclusive` rests on
`UsageCoversGrants`: every granted claim with a project is in the usage table,
which no step erases, and a claim looks there in its own transaction.
`WritesFindTheirRow` rests on the claim log: a request or victim in flight is
about a granted claim (`RequestsMatchGrants`, `VictimsMatchGrants`), a granted
claim has its line in the log (`GrantsAreLogged`), the line refers to the
account, and a row referred to is not deleted (`RowsStay`). `LogFollowsClaim`
rests on the same chain, and on `HolderIsLatestGrant` for the caller a victim
is read with. `IInv` is the conjunction; `InvInit` and `InvStep` combine one
lemma per conjunct, each with one step per action.

`CountersMatchLog` and `ClaimsAreClosed` count lines of the log, so their proof
counts index sets: a new line joins the set of its account and action and no
other (`LinesGrow`), hence changes one cardinality by one (`Counters`, `LineCloses`).
The two are inductive given `IInv`, which says that the row written is the row the
line is about.

For the refinement, `granted` and `claim_token` are the ledger's state. A claim
is `Grant`: the row it takes is available and so carries no token, and by
`UsageCoversGrants` nothing was granted twice. Every other writer of the row is
`End`, or a stutter when a stale write meets a row that is free already.

### TokenRefresh

`WorkersHoldLock`: while no run has outlasted its TTL, whoever works has the lock
row and it has not expired. It makes `NoConcurrentRefresh` a matter of one row. The totals
need to know where each kind of run is when it writes its row: `RunInOrder` says
what has been counted at each stage, and that a row with an outcome belongs to a
run with nothing left to write, from which `OutcomeIsFinal` follows as well. For
`TokenNeverGoesBack` an answer in hand is at least as new as what is stored of its
account, unless that is in `touched` (`ReplyIsNewer`): the token that was presented was loaded before the lock, but the
answer is issued under it, no other run stores meanwhile, and who else stores
leaves its mark. What a request beside the runs does is to leave the tokens alone, or
to write one that exists and mark the account (`OutsideStep`), which keeps the
invariant (`OutsideKeeps`).

`RunsRefine` maps every step to one of the ledger's or to none. `Enter` is what
takes the lock, and `WorkersHoldLock` says that nobody is at work then. The
stages of the program counters are computed once (`Stages`), and each action is
described by what it does to its run: which stage it moves to (`RunMoves`), what
it tells the row (`RowTells`), and that a row which is written has no outcome yet
(`StillOpen`, from `RunInOrder`). `LedgerStep` puts these together, one step per
action.

### NotificationDispatch

`HeldOnce` and `SentAtMostOnce`: a message that no fault and no takeover has touched
is held by one job, under a row that says `processing`, and what a job does to
it is one of five shapes (`Claims`, `Goes`, `Refuses`, `Marks`, `LetsGo`).
`CursorMonotone` needs no more than the comparison in `PersistCursor`.

`DeliveriesRefine` uses the same five shapes. A message that goes out is held by
the job that sends it, under a row that is open (`HeldIsOpen`); unless it is
doubted it has not gone out before (`SentAtMostOnce`). A takeover is of a message
whose row is open, hence not confirmed, and makes it doubted (`ClaimsInLedger`);
a mark confirms a message that went out, or it withdraws one that is doubted
(`MarksInLedger`).

`NothingIsSkipped` has an invariant of its own (`CursorInv`) that follows each
pass, whatever the others do (`FollowsStep`). A message is `Cleared` when it went
out or has one of the property's reasons. What lies between the stored cursor and the one a
job will store is cleared (`CursorAhead`); while it goes through its list, what is neither
in the list nor cleared comes after all of it (`ListInOrder`), because whatever the fetch
left before the end of the list is `overlooked` (`Take`), and so is what arrives
too late (`ArrivalFollows`); the message in hand is the earliest
(`HoldsEarliest`). Cleared messages stay so (`ClearedStays`), which is why other
jobs, takeovers and crashes do no harm, and a cursor that is switched back uncovers only
what it marks. That the earliest message of a list exists is proved from the
library's well-founded inclusion of finite sets (`SmallestExists`).

### TempMail

Mail, mailboxes and requests have to be related. `MailInPlace` says where a
message can be, `OwnersHold` that a message with an owner lies at an address that
is that owner's task mailbox still, and one that came late at a finished one.
`StillAdmitted` carries the check of a read, made once, to the answer: the
mailbox lets the consumer in or the request is marked `excused`. `AnswerIsHis`
then is what a consumer is given. `GoneForGood` and `NotGone` follow deleted
messages; `ProbesInPlace` says that what the job holds has been pending or was
cancelled since. Most steps are of one shape, a thread's request becomes another
and the provider or the store loses or gains what it had fetched (`Serves`,
`ServeStep`); `Record`, `Forget`, `CommitFinish` and `Drop` have lemmas of their own.

### PoolCooldown

Until the row is edited it carries the pool's stamp (`StampedByPool`). What
remains is about the dates of two times, that is, about quotients: an earlier date is
an earlier time, and a date that is not later is less than a day later
(`DatesInOrder`). The text comparison decides by the date, then by the
separator, then by the time of day; the three cases give the two bounds of
`CooldownKept`.

### MailRead

`InPlace`: as long as nothing before it was deleted, a position that a request holds
is that of the mail it was given for. It is kept by arrivals, which come after
all others (`MailsHaveCome`), and by deletions because `Without` marks whoever
holds a later position of the folder (`LeavesStep`). Two mails of a folder have different positions
(`PositionTells`, by cardinalities), so that a way that finds a mail at the
position finds the one meant (`HoldsIt`). `OfStage` says what a request may have
read at each stage, and that a list for the page, whose positions are only
counted, is not read from. Such a list has items of one way only, without which the
latest code need not exist (`LatestType`).

### Extractor

The operators are comprehensions over positions of the text, so nothing has to
be proved by induction over it. What `Around` searches lies within the text
(`AroundType`, `AroundEnds`); a word found there is a word of the text or is cut
off at an end of what is searched (`NearIsWholeOrCut`), and a word of the text
that lies in it is found there (`WholeIsNear`). `SmartFinds` and `FallbackFinds` say what the
two stages return and when they return nothing, from which `FoundIsRight`
follows; `PreferredHasOne` is about the links, `PartsRead` about a mail's parts.
That the first position of a keyword exists is proved like `SmallestExists`, for
sets of numbers below a bound (`SmallestIs`). `ExtractionIsRight` and the type
are then inductive together.

### Accounts

`AccountsInv` is `AccountsTypeOK`, `TablesInOrder` and `DesksInOrder`. The tables:
ids are given in order (`IdsInOrder`), no two accounts have an address, no two
groups a name, and an account is in a group that is there. The requests: a line
is looked at only once the import has its group (`DeskInOrder`), and the group
it has bears the provider's name, or one of that name exists if its creation
lost the race, as long as nobody renamed or deleted one (`Placed`). An import of
one transaction adds accounts with consecutive ids (`Fresh`, `IdOf`), which needs
the cardinalities of the lines before. `ReportIsTrue` and `PlacedByProvider` are
then about the one write after which a line counts: it finds the address by
id or, if there was none, inserts it.

`PlacedByProvider` had been stated without `StillThere`, and the runs did not
object. Its proof failed at a line that counts without having been written. TLC
with `MaxAccountRequests = 4` shows the history: an import lists an address
twice; the account of its first line is edited to another address, somebody else
imports the address anew, the second line finds that account, it is deleted, and
the first is edited back, into another group. The second line counts as imported
though it wrote nothing.

### AccountLines

`LinesInv` says that the account imported is one that some line makes (`Made`:
Outlook, a known IMAP provider, another IMAP server, temporary mail), that the
line written is one of the two the exports write for it (`MayWrite`), and that
what was read again was read from it by a route it may take. `ReadLine` splits a
line into fields and looks at the first few, without recursion, so one lemma per kind of
account computes what it returns; the exceptions of `ReadsBack` are the cases in
which that is another account or none.

### Login, ExportToken, Settings

`LoginFailuresBounded`: a wrong password is in the row, about to be, or was lost to
an error (`WrongIsCounted`), and those past the check are bounded as well
(`AdmittedIsBounded`), as the check counts what it read and each request under
way can be one the row does not know yet. `ExportedOnce`: the transaction holds
the write lock from before the read to the deletion, so the row read is the row
deleted and the client compared is the one answered (`SpentIsGranted`). `JobsMatchSettings`: unless in doubt, what a rebuild has
read is what is stored, and a job that differs has a rebuild ahead of it that
will set it (`ReadsAreFresh`, `DispatchFollows`, `RefreshFollows`).

### Migration

`OneTransaction` and `SavepointIsDisk` make a rollback return to the file with one
record more. `Progress` lists what the groups of statements behind a program
have achieved, so that at `finish` everything has been. `MigrationWhole` is part of the
invariant: a failed start needs to know that the file was whole before. The types
of `Settings` and `Migration` also need their counters' bounds (`SavesCounted`,
`StartsCounted`).

### The services together

A step of the union is a step of one service and leaves the variables of all
others alone (`ServicesSteps`). So the union implements each service's
specification (`ServicesImplement`), and its properties are those proved of the
services. `ClocksTypeCorrect` does the same for the types of the two clocks.

### Only model-checked

* Liveness (`ClaimEnds`, `LockComesBack`, `BacklogIsSent`, `ProbesEnd`, `CooldownEnds`):
  fairness and `ENABLED` are beyond the prover.
* The four violated properties are TLC's counterexamples.

## Not modelled

Input and output with Graph, IMAP, SMTP, Telegram and the temporary mail
providers (their outcomes are choices); validation and wording of answers;
rendering; the ciphers; audit lines; the HTTP session and the CSRF token; the
two older notification jobs; the clean-up of old rows (logs after months,
delivery log after 14 days); statistics. Temporary mailboxes as a source of the
dispatch job (`services/notification_dispatch.py:189`): a pass reads what is
stored of them after the cursor, without folders or limit.

* API keys, guard and rate limit: each counter is one committed statement
  (`INSERT ... ON CONFLICT DO UPDATE`); the value is read back afterwards, so
  that concurrent requests can be refused one too early and, while the database
  answers, never let through one too many. The keys are rows edited by one statement each.
* Tags: each operation is one statement on rows nothing else relies on.
* Settings that only store a value, and the secrets among them, which a save
  keeps when it gets the masked text back. A save that switches mail
  notifications on also resets the cursors (`controllers/settings.py:861`), which
  `NotificationDispatch` has as an action of its own. Two saves that race can
  leave notifications on without a recipient: each was valid against what it
  had read, and the model allows it.
* The front end: the server relies on none of it.
* An older version of the program started on a newer file: it writes its own
  version number (`db.py:1020`), and the next start of the newer one upgrades
  again.

The components are listed in `PROJECT.json` with what is left out of each.

## Plan

Done: the pool with its ledger, the cooldown, the refresh runs, the dispatch job,
temporary mail and probes, mail reading, the extractor, account lines, imports
and groups, the login limiter and export tokens, settings and their jobs, and
migrations.

Proved: every invariant and action property that a passing run checks, and that
the pool, the refresh runs and the dispatch jobs implement `PoolLedger`,
`RefreshLedger` and `DeliveryLedger`.

Next: a one-shot token as the abstract specification of `ExportToken`, and one
of temporary mail (whose mail is whose) for `TempMail`, with `AnswerIsHis` as
the mapping's core.

Models: several sources under one limit in `NotificationDispatch` and the
clean-up of its log; probes over ordinary accounts (`TempMail` with the readers
of `MailRead`); the poll engine of the front end
(`static/js/features/poll-engine.js`).

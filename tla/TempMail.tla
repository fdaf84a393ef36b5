------------------------------ MODULE TempMail ------------------------------
(***************************************************************************)
(* Temporary mailboxes and the probes that watch them.  A mailbox is made  *)
(* at a provider and then recorded; the administrator makes user           *)
(* mailboxes, a consumer of the external API applies for task mailboxes,   *)
(* which only it reads and which it finishes.  Reads ask the provider,     *)
(* store what it returned and answer from the store.  A probe is a wait    *)
(* that a background job carries on.                                       *)
(*                                                                         *)
(* A request is a record in req: what it is about, and what it has seen.   *)
(* Everything between two of its steps may change under it.  Requests      *)
(* answered with an error before they change anything are no steps.        *)
(***************************************************************************)
EXTENDS Naturals, FiniteSets

CONSTANTS Addresses,    \* addresses a provider may hand out
          Sharable,     \* those that accounts may have as well
          Consumers,    \* API keys
          Applicants,   \* those of them that apply for task mailboxes
          Admin,        \* the administrator
          Nobody,       \* no consumer: the key the background job reads with
          MailThreads,  \* threads that answer requests, numbered
          PollJob,      \* the thread of the probe job
          MaxMail,      \* bound: messages that arrive
          MaxBoxes,     \* bound: mailboxes recorded
          MaxProbes,    \* bound: probes created
          MaxRequests,  \* bound: requests and probes begun
          MaxClock,     \* bound: the clock
          PollLimit,    \* probes one pass of the job loads
          Providers     \* whether a provider deletes mailboxes: Cloudflare's does

ASSUME TempMailAssumption ==
    /\ {MaxMail, MaxBoxes, MaxProbes, MaxRequests} \subseteq Nat
    /\ {MaxClock, PollLimit} \subseteq Nat \ {0}
    /\ Applicants \subseteq Consumers
    /\ Admin \notin Consumers /\ Nobody \notin Consumers /\ Admin # Nobody
    /\ Providers \subseteq BOOLEAN
    /\ MailThreads \subseteq Nat /\ PollJob \in Nat \ MailThreads

VARIABLES box,       \* temp_emails by address
          recorded,  \* mailboxes recorded so far
          shadowed,  \* addresses that accounts has as well
          mail,      \* the messages that arrived
          upstream,  \* what the provider holds for each address
          cache,     \* temp_email_messages by address
          probe,     \* external_probe_cache
          batch,     \* rows the job has loaded and not polled
          req,       \* what each thread is doing
          clock,
          issued,    \* requests and probes begun so far
          gone       \* history: messages deleted while no list was on its way

Mail == 1 .. MaxMail
Probes == 1 .. MaxProbes
Threads == MailThreads \cup {PollJob}
storeVars == <<box, recorded, shadowed, cache>>
tempMailVars == <<storeVars, mail, upstream, probe, batch, req, clock, issued, gone>>

NoBox == [id |-> 0, type |-> "none", status |-> "none", owner |-> Nobody, deletes |-> FALSE]
Boxes == [id : 0 .. MaxBoxes, type : {"none", "user", "task"},
          status : {"none", "active", "finished"}, owner : Consumers \cup {Nobody},
          deletes : BOOLEAN]

Idle == [op |-> "idle", phase |-> "idle", who |-> Nobody, addr |-> "none", box |-> NoBox,
         wanted |-> {}, found |-> {}, base |-> 0, probe |-> 0, excused |-> FALSE]
Requests ==
    [op : {"idle", "create", "list", "wait", "poll", "delete", "clear", "drop", "finish"},
     phase : {"idle", "created", "reading", "fetched", "sleeping", "answered", "remote", "checked", "finished"},
     who : Consumers \cup {Admin, Nobody}, addr : Addresses \cup {"none"}, box : Boxes,
     wanted : SUBSET Mail, found : SUBSET Mail, base : 0 .. MaxClock,
     probe : 0 .. MaxProbes, excused : BOOLEAN]

NoProbe(status) == [status |-> status, addr |-> "none", base |-> 0, elapsed |-> FALSE]
Outcomes == {"matched", "timeout", "error", "cancelled"}

TempMailTypeOK ==
    /\ box \in [Addresses -> Boxes]
    /\ recorded \in 0 .. MaxBoxes
    /\ shadowed \subseteq Addresses
    /\ mail \in [Mail -> [at : 0 .. MaxClock, to : Addresses \cup {"none"},
                          owner : Consumers \cup {Nobody}, late : BOOLEAN]]
    /\ upstream \in [Addresses -> SUBSET Mail]
    /\ cache \in [Addresses -> SUBSET Mail]
    /\ probe \in [Probes -> [status : {"none", "pending", "removed"} \cup Outcomes,
                             addr : Addresses \cup {"none"}, base : 0 .. MaxClock,
                             elapsed : BOOLEAN]]
    /\ batch \subseteq Probes
    /\ req \in [Threads -> Requests]
    /\ clock \in 1 .. MaxClock
    /\ issued \in 0 .. MaxRequests
    /\ gone \subseteq Mail

TempMailInit ==
    /\ box = [a \in Addresses |-> NoBox]
    /\ recorded = 0
    /\ shadowed = {}
    /\ mail = [m \in Mail |-> [at |-> 0, to |-> "none", owner |-> Nobody, late |-> FALSE]]
    /\ upstream = [a \in Addresses |-> {}]
    /\ cache = [a \in Addresses |-> {}]
    /\ probe = [p \in Probes |-> NoProbe("none")]
    /\ batch = {}
    /\ req = [w \in Threads |-> Idle]
    /\ clock = 1
    /\ issued = 0
    /\ gone = {}

Free(w) == req[w].op = "idle"
Counted == issued < MaxRequests /\ issued' = issued + 1

\* The first free thread takes a request.
Take(w, r) ==
    /\ Free(w) /\ \A v \in MailThreads : v < w => ~Free(v)
    /\ req' = [req EXCEPT ![w] = r]
Begin(w, r) == Counted /\ Take(w, r)
Goto(w, r) == req' = [req EXCEPT ![w] = r]
Ends(w) == Goto(w, Idle)
InPhase(w, op, phase) == req[w].op = op /\ req[w].phase = phase

-----------------------------------------------------------------------------
(* Who reads what.                                                         *)

\* Mutant: a task mailbox is read by any consumer.
MayReadAny(b, who) == b.status = "active"

\* Mutant: the status of the mailbox is not looked at.
MayReadFinished(b, who) == b.type = "task" => b.owner = who

\* The check of a resolved mailbox.
MayRead(b, who) ==
    /\ b.status = "active"
    /\ b.type = "task" => b.owner = who

\* An address that accounts has as well is refused altogether.
Admitted(a, who) == a \notin shadowed /\ MayRead(box[a], who)

Rows(a, base) == {m \in cache'[a] : mail[m].at >= base}
Newest(found) == {m \in found : \A k \in found : mail[k].at <= mail[m].at}

\* The reads of a mailbox that are under way when it is finished or deleted.
Excuse(a) ==
    [w \in Threads |-> IF req[w].addr = a /\ req[w].phase \in {"reading", "fetched"}
                       THEN [req[w] EXCEPT !.excused = TRUE] ELSE req[w]]

-----------------------------------------------------------------------------
(* The provider and the clock.                                             *)

Arrive(m, a) ==
    /\ mail[m].at = 0
    /\ \A k \in Mail : k < m => mail[k].at # 0
    /\ mail' = [mail EXCEPT ![m] = [at |-> clock, to |-> a,
                    owner |-> IF box[a].type = "task" THEN box[a].owner ELSE Nobody,
                    late |-> box[a].status = "finished"]]
    /\ upstream' = [upstream EXCEPT ![a] = @ \cup {m}]
    /\ UNCHANGED <<storeVars, probe, batch, req, clock, issued, gone>>

Tick ==
    /\ clock < MaxClock
    /\ clock' = clock + 1
    /\ UNCHANGED <<storeVars, mail, upstream, probe, batch, req, issued, gone>>

\* What a provider holds of what is asked for: the list, or one message of it.
FromProvider(w) == upstream[req[w].addr] \cap req[w].wanted

-----------------------------------------------------------------------------
(* Making mailboxes.                                                       *)

\* Cloudflare's mailboxes are deleted there with the record, the bridge's are
\* kept, and so is one that was only recorded.
NewBox(who, type, deletes) ==
    [id |-> 0, type |-> type, status |-> "active",
     owner |-> IF type = "task" THEN who ELSE Nobody, deletes |-> deletes]

\* The provider has made the mailbox, under a wanted or a random name.
CreateAtProvider(w, who, a, b) ==
    /\ recorded < MaxBoxes
    /\ Begin(w, [Idle EXCEPT !.op = "create", !.phase = "created", !.who = who,
                            !.addr = a, !.box = b])
    /\ UNCHANGED <<storeVars, mail, upstream, probe, batch, clock, gone>>

ApplyTask(w, c, a) ==
    \E deletes \in Providers : CreateAtProvider(w, c, a, NewBox(c, "task", deletes))

Generate(w, a) ==
    \E deletes \in Providers : CreateAtProvider(w, Admin, a, NewBox(Admin, "user", deletes))

\* An address that is not recorded is taken over: found at the provider, made
\* there, or recorded as it is.
Import(w, a) ==
    /\ box[a] = NoBox
    /\ \E deletes \in Providers \cup {FALSE} :
        CreateAtProvider(w, Admin, a, NewBox(Admin, "user", deletes))

\* Mutant: a task is given the mailbox that is recorded under the address.
RecordOver(w) ==
    LET r == req[w] IN
    /\ InPhase(w, "create", "created")
    /\ box' = [box EXCEPT ![r.addr] = [r.box EXCEPT !.id = recorded + 1]]
    /\ recorded' = recorded + 1
    /\ Ends(w)
    /\ UNCHANGED <<shadowed, cache, mail, upstream, probe, batch, clock, issued, gone>>

\* The row is inserted, or the address is recorded already: the request is
\* answered with an error (an import with the row), and a mailbox just made at
\* the provider stays there without a record.
Record(w) ==
    LET r == req[w] IN
    /\ InPhase(w, "create", "created")
    /\ IF box[r.addr] = NoBox /\ recorded < MaxBoxes
       THEN /\ box' = [box EXCEPT ![r.addr] = [r.box EXCEPT !.id = recorded + 1]]
            /\ recorded' = recorded + 1
       ELSE UNCHANGED <<box, recorded>>
    /\ Ends(w)
    /\ UNCHANGED <<shadowed, cache, mail, upstream, probe, batch, clock, issued, gone>>

\* An account is imported under the address of a temporary mailbox.
Shadow(a) ==
    /\ a \in Sharable /\ a \notin shadowed
    /\ Counted
    /\ shadowed' = shadowed \cup {a}
    /\ UNCHANGED <<box, recorded, cache, mail, upstream, probe, batch, req, clock, gone>>

-----------------------------------------------------------------------------
(* Reading: ask the provider, store, answer from the store.                *)

StartRead(w, op, who, a, wanted, base) ==
    /\ box[a] # NoBox
    /\ who \in Consumers => Admitted(a, who)
    /\ Begin(w, [Idle EXCEPT !.op = op, !.phase = "reading", !.who = who, !.addr = a,
                            !.wanted = wanted, !.base = base])
    /\ UNCHANGED <<storeVars, mail, upstream, probe, batch, clock, gone>>

StartList(w, who, a) == StartRead(w, "list", who, a, Mail, 0)

\* One message: the provider is asked for a consumer though the message is
\* stored, and for the administrator's page if it is not or its body is poor.
StartDetail(w, who, a, m) == StartRead(w, "list", who, a, {m}, 0)

StartWait(w, c, a) == StartRead(w, "wait", c, a, Mail, clock)

\* The answer a consumer gets; the thread is free when it has been sent.
Answers(w, r, found) ==
    IF r.who \in Consumers
    THEN Goto(w, [r EXCEPT !.phase = "answered", !.found = found]) ELSE Ends(w)

Fetch(w) ==
    /\ req[w].phase = "reading"
    /\ Goto(w, [req[w] EXCEPT !.phase = "fetched", !.found = FromProvider(w)])
    /\ UNCHANGED <<storeVars, mail, upstream, probe, batch, clock, issued, gone>>

\* A failed read ends a list and a wait.
FetchFails(w) ==
    /\ req[w].phase = "reading" /\ w \in MailThreads
    /\ Ends(w)
    /\ UNCHANGED <<storeVars, mail, upstream, probe, batch, clock, issued, gone>>

\* The rows of a mailbox that is gone are refused one by one, silently.
Store(a, found) ==
    cache' = [cache EXCEPT ![a] = IF box[a] = NoBox THEN @ ELSE @ \cup found]

AnswerList(w) ==
    LET r == req[w] IN
    /\ InPhase(w, "list", "fetched")
    /\ Store(r.addr, r.found)
    /\ Answers(w, r, Rows(r.addr, 0) \cap r.wanted)
    /\ UNCHANGED <<box, recorded, shadowed, mail, upstream, probe, batch, clock, issued, gone>>

\* A wait returns the newest message if it is not older than the wait, gives up
\* when its time is over, or sleeps.
AnswerWait(w) ==
    LET r == req[w]
        fresh == Newest(Rows(r.addr, r.base))
    IN
    /\ InPhase(w, "wait", "fetched")
    /\ Store(r.addr, r.found)
    /\ \/ fresh # {} /\ Answers(w, r, fresh)
       \/ fresh = {} /\ Ends(w)
       \/ /\ fresh = {}
          /\ Goto(w, [r EXCEPT !.phase = "sleeping", !.found = {}, !.excused = FALSE])
    /\ UNCHANGED <<box, recorded, shadowed, mail, upstream, probe, batch, clock, issued, gone>>

AnswerSent(w) ==
    /\ req[w].phase = "answered"
    /\ Ends(w)
    /\ UNCHANGED <<storeVars, mail, upstream, probe, batch, clock, issued, gone>>

\* Each poll of a wait resolves and checks the mailbox again.
WaitPolls(w) ==
    LET r == req[w] IN
    /\ InPhase(w, "wait", "sleeping")
    /\ IF Admitted(r.addr, r.who)
       THEN Goto(w, [r EXCEPT !.phase = "reading"])
       ELSE Ends(w)
    /\ UNCHANGED <<storeVars, mail, upstream, probe, batch, clock, issued, gone>>

-----------------------------------------------------------------------------
(* Deleting messages and mailboxes.                                        *)

\* The provider has deleted the message, or all of them.
DeleteAtProvider(w, op, a, ms) ==
    /\ box[a] # NoBox
    /\ Begin(w, [Idle EXCEPT !.op = op, !.phase = "remote", !.who = Admin, !.addr = a,
                            !.wanted = ms])
    /\ upstream' = [upstream EXCEPT ![a] = @ \ ms]
    /\ UNCHANGED <<storeVars, mail, probe, batch, clock, gone>>

\* Mutant: the provider is not asked.
DeleteStored(w, a, m) ==
    /\ m \in cache[a]
    /\ Begin(w, [Idle EXCEPT !.op = "delete", !.phase = "remote", !.who = Admin, !.addr = a,
                            !.wanted = {m}])
    /\ UNCHANGED <<storeVars, mail, upstream, probe, batch, clock, gone>>

DeleteMessage(w, a, m) == m \in cache[a] /\ DeleteAtProvider(w, "delete", a, {m})
ClearMessages(w, a) == DeleteAtProvider(w, "clear", a, upstream[a])

\* What a list has fetched and not stored yet.
OnItsWay(a) ==
    UNION {req[w].found : w \in {v \in Threads : req[v].addr = a /\ req[v].phase = "fetched"}}

\* Then the stored rows go: the message's, or all rows there are by now.
Forget(w) ==
    LET r == req[w] IN
    /\ req[w].op \in {"delete", "clear"}
    /\ cache' = [cache EXCEPT ![r.addr] = IF r.op = "clear" THEN {} ELSE @ \ r.wanted]
    /\ gone' = gone \cup (r.wanted \ OnItsWay(r.addr))
    /\ Ends(w)
    /\ UNCHANGED <<box, recorded, shadowed, mail, upstream, probe, batch, clock, issued>>

\* Only Cloudflare deletes the mailbox as well; the bridge keeps its mail.
DropAtProvider(w, a) ==
    /\ box[a] # NoBox
    /\ Take(w, [Idle EXCEPT !.op = "drop", !.phase = "remote", !.who = Admin, !.addr = a])
    /\ upstream' = [upstream EXCEPT ![a] = IF box[a].deletes THEN {} ELSE @]
    /\ UNCHANGED <<storeVars, mail, probe, batch, clock, issued, gone>>

\* The administrator gives the address back: its mail is nobody's.
Drop(w) ==
    LET a == req[w].addr IN
    /\ InPhase(w, "drop", "remote")
    /\ cache' = [cache EXCEPT ![a] = {}]
    /\ box' = [box EXCEPT ![a] = NoBox]
    /\ mail' = [m \in Mail |-> IF mail[m].to = a
                               THEN [mail[m] EXCEPT !.owner = Nobody, !.late = FALSE]
                               ELSE mail[m]]
    /\ req' = [Excuse(a) EXCEPT ![w] = Idle]
    /\ UNCHANGED <<recorded, shadowed, upstream, probe, batch, clock, issued, gone>>

-----------------------------------------------------------------------------
(* Finishing a task.                                                       *)

StartFinish(w, c, a) ==
    /\ box[a].type = "task" /\ box[a].owner = c /\ box[a].status = "active"
    /\ Begin(w, [Idle EXCEPT !.op = "finish", !.phase = "checked", !.who = c, !.addr = a,
                            !.box = box[a]])
    /\ UNCHANGED <<storeVars, mail, upstream, probe, batch, clock, gone>>

\* Two calls for one token may both come here.
CommitFinish(w) ==
    LET a == req[w].addr IN
    /\ InPhase(w, "finish", "checked")
    /\ IF box[a].id = req[w].box.id
       THEN /\ box' = [box EXCEPT ![a].status = "finished"]
            /\ req' = [Excuse(a) EXCEPT ![w].phase = "finished"]
       ELSE Ends(w) /\ UNCHANGED box
    /\ UNCHANGED <<recorded, shadowed, cache, mail, upstream, probe, batch, clock, issued, gone>>

\* Mutant: every probe of the address is cancelled.
CancelAll(w) ==
    LET a == req[w].addr IN
    /\ InPhase(w, "finish", "finished")
    /\ probe' = [p \in Probes |-> IF probe[p].addr = a /\ probe[p].status # "removed"
                                  THEN [probe[p] EXCEPT !.status = "cancelled", !.elapsed = FALSE] ELSE probe[p]]
    /\ Ends(w)
    /\ UNCHANGED <<storeVars, mail, upstream, batch, clock, issued, gone>>

\* In a second transaction the address's pending probes are cancelled.
CancelProbes(w) ==
    LET a == req[w].addr IN
    /\ InPhase(w, "finish", "finished")
    /\ probe' = [p \in Probes |-> IF probe[p].addr = a /\ probe[p].status = "pending"
                                  THEN [probe[p] EXCEPT !.status = "cancelled", !.elapsed = FALSE] ELSE probe[p]]
    /\ Ends(w)
    /\ UNCHANGED <<storeVars, mail, upstream, batch, clock, issued, gone>>

-----------------------------------------------------------------------------
(* Probes.                                                                 *)

CreateProbe(p, c, a) ==
    /\ probe[p].status = "none"
    /\ \A q \in Probes : q < p => probe[q].status # "none"
    /\ Counted
    /\ box[a] # NoBox /\ Admitted(a, c)
    /\ probe' = [probe EXCEPT ![p] = [status |-> "pending", addr |-> a, base |-> clock,
                                      elapsed |-> FALSE]]
    /\ UNCHANGED <<storeVars, mail, upstream, batch, req, clock, gone>>

ProbeElapses(p) ==
    /\ probe[p].status = "pending" /\ ~probe[p].elapsed
    /\ probe' = [probe EXCEPT ![p].elapsed = TRUE]
    /\ UNCHANGED <<storeVars, mail, upstream, batch, req, clock, issued, gone>>

Due(p) == probe[p].status = "pending" /\ probe[p].elapsed
Outcome(p, status) == [probe EXCEPT ![p].status = status, ![p].elapsed = FALSE]

\* Mutant: a pass does not look for probes whose time is over.
NeverExpires ==
    LET pending == {p \in Probes : probe[p].status = "pending"} IN
    /\ Free(PollJob) /\ batch = {}
    /\ pending # {}
    /\ batch' = {p \in pending : Cardinality({q \in pending : q < p}) < PollLimit}
    /\ UNCHANGED <<storeVars, mail, upstream, probe, req, clock, issued, gone>>

\* A pass of the job ends every probe whose time is over, however many there
\* are, then loads the oldest of the others.
StartPass ==
    LET waiting == {p \in Probes : probe[p].status = "pending" /\ ~Due(p)} IN
    /\ Free(PollJob) /\ batch = {}
    /\ \E p \in Probes : probe[p].status = "pending"
    /\ probe' = [p \in Probes |-> IF Due(p) THEN [probe[p] EXCEPT !.status = "timeout", !.elapsed = FALSE]
                                  ELSE probe[p]]
    /\ batch' = {p \in waiting : Cardinality({q \in waiting : q < p}) < PollLimit}
    /\ UNCHANGED <<storeVars, mail, upstream, req, clock, issued, gone>>

\* The job reads as nobody.  Whatever is wrong with the mailbox is an error of
\* the probe; the row is written by its id alone.
PollProbe(p) ==
    LET a == probe[p].addr IN
    /\ Free(PollJob) /\ p \in batch
    /\ \A q \in batch : p <= q
    /\ batch' = batch \ {p}
    /\ IF box[a] # NoBox /\ Admitted(a, Nobody)
       THEN /\ Goto(PollJob, [Idle EXCEPT !.op = "poll", !.phase = "reading", !.addr = a,
                              !.wanted = Mail, !.base = probe[p].base, !.probe = p])
            /\ UNCHANGED probe
       ELSE probe' = Outcome(p, "error") /\ UNCHANGED req
    /\ UNCHANGED <<storeVars, mail, upstream, clock, issued, gone>>

PollFails ==
    /\ InPhase(PollJob, "poll", "reading")
    /\ probe' = Outcome(req[PollJob].probe, "error")
    /\ Ends(PollJob)
    /\ UNCHANGED <<storeVars, mail, upstream, batch, clock, issued, gone>>

PollAnswers ==
    LET r == req[PollJob] IN
    /\ InPhase(PollJob, "poll", "fetched")
    /\ Store(r.addr, r.found)
    /\ probe' = IF Rows(r.addr, r.base) # {} THEN Outcome(r.probe, "matched") ELSE probe
    /\ Ends(PollJob)
    /\ UNCHANGED <<box, recorded, shadowed, mail, upstream, batch, clock, issued, gone>>

\* Old rows are removed half an hour after their last change, all but the
\* cancelled ones.
CleanUp(p) ==
    /\ probe[p].status \in {"matched", "timeout", "error"}
    /\ probe' = [probe EXCEPT ![p] = NoProbe("removed")]
    /\ UNCHANGED <<storeVars, mail, upstream, batch, req, clock, issued, gone>>

\* The process stops and starts: what was under way is forgotten.
RestartReads ==
    /\ batch # {} \/ \E w \in Threads : ~Free(w)
    /\ req' = [w \in Threads |-> Idle]
    /\ batch' = {}
    /\ UNCHANGED <<storeVars, mail, upstream, probe, clock, issued, gone>>

-----------------------------------------------------------------------------
JobStep ==
    \/ StartPass
    \/ \E p \in Probes : PollProbe(p)
    \/ Fetch(PollJob)
    \/ PollFails
    \/ PollAnswers

TempMailNext ==
    \/ \E m \in Mail, a \in Addresses : Arrive(m, a)
    \/ Tick
    \/ \E a \in Addresses : Shadow(a)
    \/ \E w \in MailThreads, a \in Addresses :
        \/ Generate(w, a)
        \/ Import(w, a)
        \/ StartList(w, Admin, a)
        \/ ClearMessages(w, a)
        \/ DropAtProvider(w, a)
        \/ \E c \in Consumers :
            \/ c \in Applicants /\ ApplyTask(w, c, a)
            \/ StartList(w, c, a)
            \/ StartWait(w, c, a)
            \/ StartFinish(w, c, a)
        \/ \E m \in Mail :
            \/ DeleteMessage(w, a, m)
            \/ \E who \in Consumers \cup {Admin} : StartDetail(w, who, a, m)
    \/ \E w \in MailThreads :
        \/ Record(w)
        \/ Fetch(w)
        \/ FetchFails(w)
        \/ AnswerList(w)
        \/ AnswerWait(w)
        \/ WaitPolls(w)
        \/ AnswerSent(w)
        \/ Forget(w)
        \/ Drop(w)
        \/ CommitFinish(w)
        \/ CancelProbes(w)
    \/ \E p \in Probes, c \in Consumers, a \in Addresses : CreateProbe(p, c, a)
    \/ JobStep
    \/ \E p \in Probes : ProbeElapses(p) \/ CleanUp(p)
    \/ RestartReads

\* The time of each probe comes, and the scheduler runs the probe job every five
\* seconds.
TempMailFairness ==
    /\ WF_tempMailVars(\E p \in Probes : ProbeElapses(p))
    /\ WF_tempMailVars(JobStep)

TempMailSpec == TempMailInit /\ [][TempMailNext]_tempMailVars /\ TempMailFairness

-----------------------------------------------------------------------------
(* Properties.                                                             *)

\* What arrives in a task mailbox reaches only the consumer that applied for
\* it, however the address was made, imported, finished or read meanwhile; the
\* administrator, who may delete any mailbox, thereby gives its mail away.
TaskMailIsPrivate ==
    \A w \in MailThreads : (req[w].phase = "answered" /\ ~req[w].excused) =>
        \A m \in req[w].found : mail[m].owner \in {req[w].who, Nobody}

\* What arrives after a task was finished is given to nobody, save by a read
\* that had been admitted and was under way when the task was finished.
ClosedAfterFinish ==
    \A w \in MailThreads : req[w].phase = "answered" =>
        \A m \in req[w].found : mail[m].late => req[w].excused

\* A message deleted by the administrator does not come back, unless a list
\* that held it was on its way when its row was deleted.
DeletedStaysGone == \A a \in Addresses : cache[a] \cap gone = {}

\* A probe that has an outcome keeps it until it is removed; only the pass
\* that had loaded it while it was pending may still write another one.
ProbeOutcomeStays ==
    [][\A p \in Probes :
        (probe[p].status \in Outcomes /\ p \notin batch /\ req[PollJob].probe # p)
            => probe'[p].status \in {probe[p].status, "removed"}]_tempMailVars

\* Every probe ends, whatever the mailbox does, however many there are, and
\* though each pass loads only so many.
ProbesEnd == \A p \in Probes : (probe[p].status = "pending") ~> (probe[p].status # "pending")

\* A probe of a task mailbox can match: nothing but its mailbox's end, its time
\* or a failed read stops it.  The code breaks it: the job reads as nobody, and
\* a task mailbox is read by its consumer only.
TaskProbesAreRead ==
    [][\A p \in Probes : PollProbe(p) /\ box[probe[p].addr].type = "task"
                         /\ box[probe[p].addr].status = "active"
                         /\ probe[p].addr \notin shadowed
            => probe'[p].status # "error"]_tempMailVars
=============================================================================

------------------------ MODULE NotificationDispatch ------------------------
(***************************************************************************)
(* Mail notifications for one account on one channel (email or Telegram):  *)
(* the dispatch job fetches, folder by folder and with a limit, what came  *)
(* after the account's cursor, claims each message in the delivery log,    *)
(* sends it, marks it, and moves the cursor when it is through.  Accounts  *)
(* and channels share no rows, so one of each shows everything.            *)
(*                                                                         *)
(* Timestamps are whole seconds, as in the code.  The delivery log and the *)
(* cursor survive a crash; the job's list and counters do not.             *)
(***************************************************************************)
EXTENDS Naturals, FiniteSets

CONSTANTS MaxMessages,  \* bound: messages that arrive, in the order 1, 2, ...
          MaxNow,       \* bound: the clock, in seconds
          MaxPerJob,    \* notifications a job may send for the source
          MaxFaults,    \* bound: crashes, resets, lost answers and failed markings
          FolderCount,  \* the folders, asked in the order 1, 2, ...
          FetchLimit,   \* messages one request to a folder brings (the code's 50)
          Sources,      \* how the account may be read: "graph", "imap"
          Jobs,         \* processes that run the dispatch job
          SendsFail,    \* may the mail server or Telegram refuse?
          SameSecond    \* may two messages carry the same second?

ASSUME NotificationAssumption ==
    /\ MaxMessages \in Nat /\ MaxNow \in Nat \ {0}
    /\ MaxPerJob \in Nat \ {0} /\ MaxFaults \in Nat
    /\ FolderCount \in Nat \ {0} /\ FetchLimit \in Nat \ {0}
    /\ Sources \subseteq {"graph", "imap"}
    /\ SendsFail \in BOOLEAN /\ SameSecond \in BOOLEAN

VARIABLES now,      \* the clock
          source,   \* how the account is read
          arrived,  \* when each message came to its folder, 0 before that
          received, \* its received_at: through IMAP the date its sender gave it
          folder,   \* where it arrived
          cursor,   \* notification_cursor_states.last_cursor_value, 0: no row
          status,   \* notification_delivery_logs.status of each message
          stale,    \* 'processing' rows older than 300 seconds
          pc,       \* where each job is
          asked,    \* folders it has asked
          batch,    \* messages it fetched and has not looked at
          current,  \* the message it holds
          next,     \* the cursor it will store
          sent,     \* how many it has sent
          sends,    \* history: how often each message went out
          redone,   \* history: messages given back after they may have gone out
          overlooked, \* history: messages a pass did not see, left to somebody
                      \* else, or that were given up
          faults    \* counts up to MaxFaults

Messages == 1 .. MaxMessages
Folders == 1 .. FolderCount
mailVars == <<now, source, arrived, received, folder>>
logVars == <<status, stale>>
jobVars == <<asked, batch, current, next, sent>>
history == <<sends, redone, overlooked>>
vars == <<mailVars, cursor, logVars, pc, jobVars, history, faults>>

Later(x, y) == IF x < y THEN y ELSE x

TypeOK ==
    /\ now \in 1 .. MaxNow
    /\ source \in Sources
    /\ arrived \in [Messages -> 0 .. MaxNow]
    /\ received \in [Messages -> 0 .. MaxNow]
    /\ folder \in [Messages -> Folders]
    /\ cursor \in 0 .. MaxNow
    /\ status \in [Messages -> {"none", "processing", "sent", "failed"}]
    /\ stale \subseteq Messages
    /\ pc \in [Jobs -> {"idle", "fetch", "loop", "send", "mark", "refused", "persist"}]
    /\ asked \in [Jobs -> 0 .. FolderCount]
    /\ batch \in [Jobs -> SUBSET Messages]
    /\ current \in [Jobs -> Messages \cup {0}]
    /\ next \in [Jobs -> 0 .. MaxNow]
    /\ sent \in [Jobs -> 0 .. MaxPerJob]
    /\ sends \in [Messages -> Nat]
    /\ redone \subseteq Messages
    /\ overlooked \subseteq Messages
    /\ faults \in 0 .. MaxFaults

Init ==
    /\ now = 1
    /\ source \in Sources
    /\ arrived = [m \in Messages |-> 0]
    /\ received = [m \in Messages |-> 0]
    /\ folder \in [Messages -> Folders]
    /\ cursor = 0
    /\ status = [m \in Messages |-> "none"]
    /\ stale = {}
    /\ pc = [j \in Jobs |-> "idle"]
    /\ asked = [j \in Jobs |-> 0]
    /\ batch = [j \in Jobs |-> {}]
    /\ current = [j \in Jobs |-> 0]
    /\ next = [j \in Jobs |-> 0]
    /\ sent = [j \in Jobs |-> 0]
    /\ sends = [m \in Messages |-> 0]
    /\ redone = {}
    /\ overlooked = {}
    /\ faults = 0

Fault == faults < MaxFaults /\ faults' = faults + 1

Goto(j, where) == pc' = [pc EXCEPT ![j] = where]

-----------------------------------------------------------------------------
(* The mailbox and the clock.                                              *)

\* The messages a job has still to look at, the one it holds among them.
Held(j) == IF pc[j] \in {"send", "mark", "refused"} THEN {current[j]} ELSE {}
Open(j) == batch[j] \cup Held(j)

\* A message that comes too late for a pass under way, with a date before the
\* end of what the pass has fetched.
ComesLate(date) == \E j \in Jobs : /\ pc[j] # "idle"
                                  /\ \/ date <= next[j]
                                     \/ pc[j] # "fetch" /\ \E k \in Open(j) : date < received[k]

\* Graph dates a message when it arrives.  Through IMAP the code takes the Date
\* header, which may say any time; text that is no date compares as later than
\* every time, like a date far ahead.
Arrive(m, date) ==
    /\ arrived[m] = 0
    /\ \A k \in Messages : k < m => arrived[k] # 0
    /\ source = "graph" => date = now
    /\ SameSecond \/ \A k \in Messages : received[k] # date
    /\ arrived' = [arrived EXCEPT ![m] = now]
    /\ received' = [received EXCEPT ![m] = date]
    /\ overlooked' = IF ComesLate(date) THEN overlooked \cup {m} ELSE overlooked
    /\ UNCHANGED <<now, source, folder, cursor, logVars, pc, jobVars, sends, redone, faults>>

Tick ==
    /\ now < MaxNow
    /\ now' = now + 1
    /\ UNCHANGED <<source, arrived, received, folder, cursor, logVars, pc, jobVars, history, faults>>

AttemptAges(m) ==
    /\ status[m] = "processing" /\ m \notin stale
    /\ stale' = stale \cup {m}
    /\ UNCHANGED <<mailVars, cursor, status, pc, jobVars, history, faults>>

-----------------------------------------------------------------------------
(* The job.                                                                *)

\* The first job to meet the source sets its cursor, to when the job began; on
\* Telegram to what the account's legacy column says, if it says anything.
InitCursor(j) ==
    /\ pc[j] = "idle" /\ cursor = 0
    /\ cursor' \in 1 .. now
    /\ UNCHANGED <<mailVars, logVars, pc, jobVars, history, faults>>

\* The list, the counters and the cursor a pass began with end with it.
EndPass(j) ==
    /\ asked' = [asked EXCEPT ![j] = 0]
    /\ batch' = [batch EXCEPT ![j] = {}]
    /\ current' = [current EXCEPT ![j] = 0]
    /\ next' = [next EXCEPT ![j] = 0]
    /\ sent' = [sent EXCEPT ![j] = 0]
    /\ Goto(j, "idle")

\* _fetch_account_messages: the cursor was read, the folders are asked in turn.
StartFetch(j) ==
    /\ pc[j] = "idle" /\ cursor # 0
    /\ next' = [next EXCEPT ![j] = cursor]
    /\ sent' = [sent EXCEPT ![j] = 0]
    /\ asked' = [asked EXCEPT ![j] = 0]
    /\ Goto(j, "fetch")
    /\ UNCHANGED <<mailVars, cursor, logVars, batch, current, history, faults>>

\* Graph: the earliest FetchLimit messages after the cursor, by their date.
EarliestOf(C) == {S \in SUBSET C :
    /\ Cardinality(S) = FetchLimit \/ (S = C /\ Cardinality(C) <= FetchLimit)
    /\ \A m \in S, k \in C \ S : received[m] <= received[k]}

\* IMAP: the FetchLimit latest to arrive (msg_ids[-50:]), less those whose date
\* is not after the cursor, and less any whose reading raises: that error is
\* swallowed message by message.  The search by day may miss some too where the
\* server's day is another.
LatestOf(C) == {m \in C : Cardinality({k \in C : k > m}) < FetchLimit}

\* What one request may bring of folder f, for a pass whose cursor was `since`.
Answers(f, since) ==
    IF source = "graph"
    THEN EarliestOf({m \in Messages : folder[m] = f /\ received[m] > since})
    ELSE SUBSET {m \in LatestOf({k \in Messages : folder[k] = f /\ arrived[k] > since}) :
                   received[m] > since}

\* What is ahead of the cursor a pass began with, is not in its list, and lies
\* before the end of the list.
Unseen(since, list) == {m \in Messages \ list :
    received[m] > since /\ \E k \in list : received[m] < received[k]}

\* The answer of the next folder; after the last one the list is complete.
Take(j, messages) ==
    /\ pc[j] = "fetch"
    /\ asked' = [asked EXCEPT ![j] = @ + 1]
    /\ batch' = [batch EXCEPT ![j] = @ \cup messages]
    /\ IF asked[j] + 1 < FolderCount
          THEN UNCHANGED <<pc, overlooked>>
          ELSE /\ Goto(j, "loop")
               /\ overlooked' = overlooked \cup Unseen(next[j], batch[j] \cup messages)
    /\ UNCHANGED <<mailVars, cursor, logVars, current, next, sent, sends, redone, faults>>

FolderAnswers(j) == \E messages \in Answers(asked[j] + 1, next[j]) : Take(j, messages)

\* No access token, a refused request, a folder that cannot be selected: an empty
\* list and no error.
FolderRefused(j) == Take(j, {})

\* A login, a search or a request that raises gives the pass up.
FetchRaises(j) ==
    /\ pc[j] = "fetch"
    /\ EndPass(j)
    /\ UNCHANGED <<mailVars, cursor, logVars, history, faults>>


\* sorted(messages, key=(received_at, message_id)).
Earliest(S) == CHOOSE m \in S : \A k \in S :
    received[m] < received[k] \/ (received[m] = received[k] /\ m <= k)

LeaveLoop(j) ==
    /\ pc[j] = "loop"
    /\ batch[j] = {} \/ sent[j] = MaxPerJob
    /\ Goto(j, "persist")
    /\ UNCHANGED <<mailVars, cursor, logVars, jobVars, history, faults>>

\* Mutant: an attempt in progress is taken over at once.
ClaimableUnfinished(m) == status[m] # "sent"

\* Mutant: a failed row is not taken again.
ClaimableUnlessFailed(m) == status[m] = "none" \/ (status[m] = "processing" /\ m \in stale)

\* claim_delivery_attempt: a row that is missing, failed, or left 'processing'
\* for too long is taken, in one transaction.
Claimable(m) == status[m] \in {"none", "failed"} \/ (status[m] = "processing" /\ m \in stale)

\* Mutant: max_notifications is not compared.
LooksPastLimit(j, m) == /\ pc[j] = "loop"
                        /\ batch[j] # {} /\ m = Earliest(batch[j])
                        /\ batch' = [batch EXCEPT ![j] = @ \ {m}]

Looks(j, m) == /\ pc[j] = "loop" /\ sent[j] < MaxPerJob
               /\ batch[j] # {} /\ m = Earliest(batch[j])
               /\ batch' = [batch EXCEPT ![j] = @ \ {m}]

ClaimMessage(j, m) ==
    /\ Looks(j, m)
    /\ Claimable(m)
    /\ status' = [status EXCEPT ![m] = "processing"]
    /\ stale' = stale \ {m}
    /\ redone' = redone \cup ({m} \cap stale)
    /\ current' = [current EXCEPT ![j] = m]
    /\ Goto(j, "send")
    /\ UNCHANGED <<mailVars, cursor, asked, next, sent, sends, overlooked, faults>>

\* Sent already: the cursor may pass it.  Somebody's attempt: it may not, but
\* the messages after it are still looked at.
PassMessage(j, m) ==
    /\ Looks(j, m)
    /\ ~Claimable(m)
    /\ IF status[m] = "sent"
          THEN /\ next' = [next EXCEPT ![j] = Later(@, received[m])]
               /\ UNCHANGED overlooked
          ELSE /\ overlooked' = overlooked \cup {m}
               /\ UNCHANGED next
    /\ UNCHANGED <<mailVars, cursor, logVars, pc, asked, current, sent, sends, redone, faults>>

Send(j) ==
    /\ pc[j] = "send"
    /\ sends' = [sends EXCEPT ![current[j]] = @ + 1]
    /\ Goto(j, "mark")
    /\ UNCHANGED <<mailVars, cursor, logVars, jobVars, redone, overlooked, faults>>

\* Mutant: the sender's error is swallowed.
SendRefusedUnnoticed(j) ==
    /\ SendsFail
    /\ pc[j] = "send"
    /\ Goto(j, "mark")
    /\ UNCHANGED <<mailVars, cursor, logVars, jobVars, history, faults>>

SendRefused(j) ==
    /\ SendsFail
    /\ pc[j] = "send"
    /\ Goto(j, "refused")
    /\ UNCHANGED <<mailVars, cursor, logVars, jobVars, history, faults>>

\* The message goes out and the answer times out: to the sender it is refused.
AnswerLost(j) ==
    /\ SendsFail /\ Fault
    /\ pc[j] = "send"
    /\ sends' = [sends EXCEPT ![current[j]] = @ + 1]
    /\ redone' = redone \cup {current[j]}
    /\ Goto(j, "refused")
    /\ UNCHANGED <<mailVars, cursor, logVars, jobVars, overlooked>>

SetStatus(m, s) == status' = [status EXCEPT ![m] = s] /\ stale' = stale \ {m}

CountSent(j) ==
    /\ sent' = [sent EXCEPT ![j] = @ + 1]
    /\ next' = [next EXCEPT ![j] = Later(@, received[current[j]])]
    /\ Goto(j, "loop")

\* An error of the marking, after the send, lands in the same `except` as a
\* refused send.
GiveBack(j) ==
    /\ Fault
    /\ SetStatus(current[j], "failed")
    /\ redone' = redone \cup {current[j]}
    /\ Goto(j, "persist")
    /\ UNCHANGED <<sent, next>>

\* Telegram's legacy push log is written next; it swallows its own errors and
\* nothing in this job reads it.
MarkSent(j) ==
    /\ pc[j] = "mark"
    /\ \/ SetStatus(current[j], "sent") /\ CountSent(j) /\ UNCHANGED <<redone, faults>>
       \/ GiveBack(j)
    /\ current' = [current EXCEPT ![j] = 0]
    /\ UNCHANGED <<mailVars, cursor, asked, batch, sends, overlooked>>

MarkFailed(j) ==
    /\ pc[j] = "refused"
    /\ SetStatus(current[j], "failed")
    /\ current' = [current EXCEPT ![j] = 0]
    /\ Goto(j, "persist")
    /\ UNCHANGED <<mailVars, cursor, asked, batch, next, sent, history, faults>>

\* Mutant: the stored cursor is overwritten, not compared.
PersistCursorBlindly(j) ==
    /\ pc[j] = "persist"
    /\ cursor' = next[j]
    /\ EndPass(j)
    /\ UNCHANGED <<mailVars, logVars, history, faults>>

\* Mutant: the source counts as read up to now.
PersistNow(j) ==
    /\ pc[j] = "persist"
    /\ cursor' = now
    /\ EndPass(j)
    /\ UNCHANGED <<mailVars, logVars, history, faults>>

\* upsert_cursor never moves the cursor back.
PersistCursor(j) ==
    /\ pc[j] = "persist"
    /\ cursor' = Later(cursor, next[j])
    /\ EndPass(j)
    /\ UNCHANGED <<mailVars, logVars, history, faults>>

\* The process of job j dies.
Crash(j) ==
    /\ pc[j] # "idle"
    /\ Fault
    /\ EndPass(j)
    /\ UNCHANGED <<mailVars, cursor, logVars, history>>

\* Notification is switched on again: the cursor becomes now, whatever it was,
\* and what came before is given up.
ResetCursor ==
    /\ cursor \notin {0, now}
    /\ Fault
    /\ cursor' = now
    /\ overlooked' = overlooked \cup
                       {m \in Messages : received[m] # 0 /\ received[m] <= Later(cursor, now)}
    /\ UNCHANGED <<mailVars, logVars, pc, jobVars, sends, redone>>

Work(j) ==
    \/ InitCursor(j) \/ StartFetch(j) \/ FolderAnswers(j) \/ LeaveLoop(j)
    \/ \E m \in Messages : ClaimMessage(j, m) \/ PassMessage(j, m)
    \/ Send(j) \/ MarkSent(j) \/ MarkFailed(j) \/ PersistCursor(j)

Environment ==
    \/ Tick
    \/ \E m \in Messages : AttemptAges(m) \/ \E date \in 1 .. MaxNow : Arrive(m, date)

Next == \/ Environment \/ ResetCursor
        \/ \E j \in Jobs : \/ Work(j) \/ FolderRefused(j) \/ FetchRaises(j)
                          \/ SendRefused(j) \/ AnswerLost(j) \/ Crash(j)

Spec == Init /\ [][Next]_vars

\* The folders asked so far in this pass have all answered.
Answered(j) == \A f \in 1 .. asked[j] :
    \E messages \in Answers(f, next[j]) : messages \subseteq batch[j]

\* The scheduler runs the job over and over, attempts age, and a server that
\* is asked again and again does its part some day: it answers for one folder
\* after the other within a pass, and it accepts a message.
FairSpec ==
    /\ Spec
    /\ \A j \in Jobs :
          /\ WF_vars(Work(j)) /\ SF_vars(Send(j))
          /\ \A f \in Folders : SF_vars(asked[j] + 1 = f /\ Answered(j) /\ FolderAnswers(j))
    /\ \A m \in Messages : WF_vars(AttemptAges(m))

-----------------------------------------------------------------------------
(* Properties.                                                             *)

\* However jobs, crashes, timeouts and retries interleave, a message goes out
\* twice only when somebody took over an attempt that had not been finished
\* for 300 seconds, when the answer to the send was lost, or when marking it
\* failed afterwards.
SentOnce == \A m \in Messages : sends[m] > 1 => m \in redone

\* A row says 'sent' only for a message that went out.
SentRowIsTrue == \A m \in Messages : status[m] = "sent" => sends[m] > 0

\* Only switching notification on again may move the cursor back; a slow job
\* that stores an older cursor does not.
CursorMonotone == [][cursor' < cursor => ResetCursor]_vars

\* All mail comes to one folder.
OneFolder == \A m, k \in Messages : folder[m] = folder[k]

\* The job makes its way through a backlog longer than its limit and than what
\* one request brings, past refused requests and sends: of an account read
\* through Graph whose mail comes to one folder, every message that the cursor
\* has not passed is sent in the end.  It is not through IMAP, where a request
\* brings the latest messages, nor with mail in two folders, one of which does
\* not answer; NothingSkipped is about these.
BacklogIsSent ==
    \A m \in Messages :
        (source = "graph" /\ OneFolder /\ cursor # 0 /\ received[m] > cursor)
            ~> (sends[m] > 0)

\* A message whose sending failed stays ahead of the cursor, to be retried.
\* The code breaks it: a message of the same second that went out before it
\* takes the cursor past it.
FailedStaysAhead ==
    \A m \in Messages : status[m] = "failed" => received[m] > cursor

\* Does another message carry the same second?
SharesSecond(m) == \E k \in Messages \ {m} : received[k] = received[m]

\* The cursor passes a message that has not gone out only for one of the reasons
\* the code has: a pass that did not see it (over the fetch limit, not readable,
\* in a folder that did not answer, come too late for the pass), an attempt of
\* another job that it left alone, notification switched on again, or another
\* message of the same second.  However jobs overlap, fail and crash, a message
\* that a pass had in its list is not lost otherwise.
NothingSkipped ==
    [][\A m \in Messages :
         cursor # 0 /\ received[m] > cursor /\ received[m] <= cursor' /\ ~ResetCursor
           => sends[m] > 0 \/ m \in overlooked \/ SharesSecond(m)]_vars

\* What the delivery log promises of each message, as an abstract specification:
\* a row that says 'sent' is confirmed, a message given back is doubted.
Ledger == INSTANCE DeliveryLedger WITH
    confirmed <- {m \in Messages : status[m] = "sent"}, doubted <- redone

DeliveryLedgerSpec == Ledger!Spec
=============================================================================

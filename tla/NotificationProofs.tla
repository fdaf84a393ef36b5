------------------------- MODULE NotificationProofs -------------------------
(***************************************************************************)
(* Proofs about NotificationDispatch, for any number of jobs, messages,    *)
(* folders and faults: what a delivery log row promises, how often a       *)
(* message goes out and where the cursor moves; that the jobs implement    *)
(* DeliveryLedger; and what the cursor passes that was not sent.           *)
(***************************************************************************)
EXTENDS NotificationDispatch, FiniteSetTheorems, WellFoundedInduction, TLAPS

-----------------------------------------------------------------------------
(* The inductive invariant, part by part.                                  *)

\* Job j has message m in hand.
Holding(j) == pc[j] \in {"send", "mark", "refused"}
Holds(j, m) == Holding(j) /\ current[j] = m

\* Whoever holds a message may still send one.
HoldersCanSend == \A j \in Jobs : Holding(j) => current[j] \in Messages /\ sent[j] < MaxPerJob

\* Whoever fetches has a folder to ask.
FoldersLeft == \A j \in Jobs : pc[j] = "fetch" => asked[j] < FolderCount

\* What is to be marked was sent, and so was what is marked.
MarksAreTrue ==
    /\ \A j \in Jobs : pc[j] = "mark" => sends[current[j]] > 0
    /\ SentRowIsTrue

\* A message that no fault and no takeover has touched: whoever holds it does
\* so alone and under a row that says 'processing', and it went out at most
\* once, by an attempt that is neither about to send nor refused.
HeldOnce(m) ==
    /\ \A j, k \in Jobs : Holds(j, m) /\ Holds(k, m) => j = k
    /\ \A j \in Jobs : Holds(j, m) => status[m] = "processing"
SentAtMostOnce(m) ==
    \/ sends[m] = 0
    \/ /\ sends[m] = 1
       /\ status[m] \in {"processing", "sent"}
       /\ \A j \in Jobs : Holds(j, m) => pc[j] = "mark"

IInv == /\ TypeOK
        /\ HoldersCanSend
        /\ FoldersLeft
        /\ MarksAreTrue
        /\ \A m \in Messages \ redone : HeldOnce(m) /\ SentAtMostOnce(m)

-----------------------------------------------------------------------------
(* Type correctness.                                                       *)

LEMMA Bounds ==
    /\ MaxMessages \in Nat /\ MaxNow \in Nat \ {0} /\ MaxPerJob \in Nat \ {0} /\ MaxFaults \in Nat
    /\ FolderCount \in Nat \ {0}
    /\ \A x, y \in Nat : Later(x, y) \in {x, y} /\ Later(x, y) >= x /\ Later(x, y) >= y
BY NotificationAssumption DEF NotificationAssumption, Later

LEMMA TypeInit == Init => TypeOK
<1> SUFFICES ASSUME Init PROVE TypeOK
  OBVIOUS
<1>1. 0 \in 0 .. MaxNow /\ 1 \in 1 .. MaxNow /\ 0 \in 0 .. MaxPerJob /\ 0 \in 0 .. MaxFaults
  BY Bounds
<1>2. now \in 1 .. MaxNow /\ cursor \in 0 .. MaxNow /\ faults \in 0 .. MaxFaults
  BY <1>1 DEF Init
<1>3. /\ arrived \in [Messages -> 0 .. MaxNow] /\ received \in [Messages -> 0 .. MaxNow]
      /\ next \in [Jobs -> 0 .. MaxNow] /\ sent \in [Jobs -> 0 .. MaxPerJob]
      /\ asked \in [Jobs -> 0 .. FolderCount]
  BY <1>1, Bounds DEF Init
<1> QED
  BY <1>2, <1>3 DEF Init, TypeOK

\* Steps of the mailbox, the clock and the administrator keep the types.
LEMMA TypeAround ==
    ASSUME TypeOK, Environment \/ ResetCursor
    PROVE  TypeOK'
<1> USE DEF TypeOK, mailVars, logVars, jobVars, history
<1>1. CASE Tick
  BY <1>1, Bounds DEF Tick
<1>2. ASSUME NEW m \in Messages, NEW date \in 1 .. MaxNow, Arrive(m, date) PROVE TypeOK'
  <2>1. now \in 0 .. MaxNow /\ date \in 0 .. MaxNow
    BY Bounds
  <2>2. arrived' \in [Messages -> 0 .. MaxNow] /\ received' \in [Messages -> 0 .. MaxNow]
    BY <1>2, <2>1 DEF Arrive
  <2>3. overlooked' \subseteq Messages
    BY <1>2 DEF Arrive
  <2> QED
    BY <1>2, <2>2, <2>3 DEF Arrive
<1>3. ASSUME NEW m \in Messages, AttemptAges(m) PROVE TypeOK'
  BY <1>3 DEF AttemptAges
<1>4. CASE ResetCursor
  <2>1. cursor' \in 0 .. MaxNow /\ faults' \in 0 .. MaxFaults
    BY <1>4, Bounds DEF ResetCursor, Fault
  <2> QED
    BY <1>4, <2>1 DEF ResetCursor
<1> QED
  BY <1>1, <1>2, <1>3, <1>4 DEF Environment

\* A step of job j, and one with which it does not read a folder.
Moves(j) == Work(j) \/ FolderRefused(j) \/ FetchRaises(j)
            \/ SendRefused(j) \/ AnswerLost(j) \/ Crash(j)
Acts(j) ==
    \/ InitCursor(j) \/ StartFetch(j) \/ FetchRaises(j) \/ LeaveLoop(j)
    \/ \E m \in Messages : ClaimMessage(j, m) \/ PassMessage(j, m)
    \/ Send(j) \/ SendRefused(j) \/ AnswerLost(j) \/ MarkSent(j) \/ MarkFailed(j)
    \/ PersistCursor(j) \/ Crash(j)

\* What a folder answers with lies after the cursor the pass began with.
Reads(j, S) == Take(j, S) /\ S \subseteq Messages /\ \A m \in S : received[m] > next[j]

LEMMA MovesAre ==
    ASSUME NEW j \in Jobs, Moves(j)
    PROVE  Acts(j) \/ \E S \in SUBSET Messages : Reads(j, S)
<1>1. ASSUME NEW S \in Answers(asked[j] + 1, next[j]), Take(j, S) PROVE Reads(j, S)
  BY <1>1 DEF Answers, EarliestOf, LatestOf, Reads
<1>2. ASSUME Take(j, {}) PROVE Reads(j, {})
  BY <1>2 DEF Reads
<1>3. CASE FolderAnswers(j)
  BY <1>1, <1>3 DEF FolderAnswers, Reads
<1> QED
  BY <1>2, <1>3 DEF Moves, Work, Acts, FolderRefused

LEMMA TypeTake ==
    ASSUME TypeOK, FoldersLeft, NEW j \in Jobs, NEW S \in SUBSET Messages, Take(j, S)
    PROVE  TypeOK'
<1>1. asked[j] < FolderCount /\ asked[j] \in Nat /\ batch[j] \subseteq Messages
  BY Bounds DEF Take, FoldersLeft, TypeOK
<1>2. asked' \in [Jobs -> 0 .. FolderCount]
  BY <1>1, Bounds DEF Take, TypeOK
<1>3. batch' \in [Jobs -> SUBSET Messages]
  BY <1>1 DEF Take, TypeOK
<1>4. overlooked' \subseteq Messages
  BY DEF Take, Unseen, TypeOK
<1>5. pc' = pc \/ pc' = [pc EXCEPT ![j] = "loop"]
  BY DEF Take, Goto
<1> QED
  BY <1>2, <1>3, <1>4, <1>5 DEF Take, TypeOK, mailVars, logVars

LEMMA TypeActs ==
    ASSUME TypeOK, HoldersCanSend, NEW j \in Jobs, Acts(j)
    PROVE  TypeOK'
<1> USE DEF mailVars, logVars, jobVars, history, Acts, InitCursor, StartFetch, FetchRaises, EndPass, LeaveLoop,
            ClaimMessage, PassMessage, Send, SendRefused, AnswerLost, MarkSent, GiveBack, CountSent,
            MarkFailed, PersistCursor, Crash, Looks, SetStatus, Goto
<1>1. UNCHANGED <<now, source, arrived, received, folder>>
  OBVIOUS
<1>2. pc' \in [Jobs -> {"idle", "fetch", "loop", "send", "mark", "refused", "persist"}]
  BY DEF TypeOK
<1>3. current[j] \in Messages \cup {0} /\ (Holding(j) => current[j] \in Messages)
  BY DEF HoldersCanSend, TypeOK
<1>4. /\ status' \in [Messages -> {"none", "processing", "sent", "failed"}]
      /\ stale' \subseteq Messages /\ redone' \subseteq Messages /\ overlooked' \subseteq Messages
  BY <1>3 DEF Holding, TypeOK
<1>5. batch' \in [Jobs -> SUBSET Messages]
  <2>1. batch' = batch \/ \E s \in SUBSET Messages : batch' = [batch EXCEPT ![j] = s]
    <3>1. batch[j] \in SUBSET Messages
      BY DEF TypeOK
    <3> QED
      BY <3>1
  <2> QED
    BY <2>1 DEF TypeOK
<1>6. current' \in [Jobs -> Messages \cup {0}]
  BY DEF TypeOK
<1>7. cursor' \in 0 .. MaxNow
  <2>1. cursor' = cursor \/ cursor' \in 1 .. now \/ cursor' = Later(cursor, next[j])
    OBVIOUS
  <2>2. cursor \in 0 .. MaxNow /\ next[j] \in 0 .. MaxNow /\ now \in 1 .. MaxNow
    BY DEF TypeOK
  <2> HIDE DEF Acts
  <2> QED
    BY <2>1, <2>2, Bounds
<1>8. next' \in [Jobs -> 0 .. MaxNow]
  <2>1. /\ next[j] \in 0 .. MaxNow /\ cursor \in 0 .. MaxNow
        /\ \A m \in Messages : received[m] \in 0 .. MaxNow
    BY DEF TypeOK
  <2>4. 0 \in 0 .. MaxNow
    BY NotificationAssumption
  <2>2. \A m \in Messages : Later(next[j], received[m]) \in 0 .. MaxNow
    BY <2>1, Bounds
  <2>3. next' = next \/ \E t \in 0 .. MaxNow : next' = [next EXCEPT ![j] = t]
    BY <1>3, <2>1, <2>2, <2>4 DEF Holding
  <2> QED
    BY <2>3 DEF TypeOK
<1>9. sent' \in [Jobs -> 0 .. MaxPerJob]
  <2>1. sent[j] \in Nat /\ sent \in [Jobs -> 0 .. MaxPerJob]
    BY Bounds DEF TypeOK
  <2>2. \/ sent' = sent
        \/ sent' = [sent EXCEPT ![j] = 0]
        \/ sent[j] < MaxPerJob /\ sent' = [sent EXCEPT ![j] = sent[j] + 1]
    BY DEF HoldersCanSend, Holding
  <2> HIDE DEF Acts
  <2> QED
    BY <2>1, <2>2, Bounds
<1>10. sends' \in [Messages -> Nat]
  <2>1. sends' = sends \/ (current[j] \in Messages /\ sends' = [sends EXCEPT ![current[j]] = @ + 1])
    BY <1>3 DEF Holding
  <2> QED
    BY <2>1 DEF TypeOK
<1>11. faults' \in 0 .. MaxFaults
  <2>1. faults' = faults \/ (faults < MaxFaults /\ faults' = faults + 1)
    BY DEF Fault
  <2> HIDE DEF Acts
  <2> QED
    BY <2>1, Bounds DEF TypeOK
<1>12. asked' \in [Jobs -> 0 .. FolderCount]
  <2>1. asked' = asked \/ asked' = [asked EXCEPT ![j] = 0]
    OBVIOUS
  <2>2. asked \in [Jobs -> 0 .. FolderCount] /\ 0 \in 0 .. FolderCount
    BY Bounds DEF TypeOK
  <2> HIDE DEF Acts
  <2> QED
    BY <2>1, <2>2
<1> QED
  BY <1>1, <1>2, <1>4, <1>5, <1>6, <1>7, <1>8, <1>9, <1>10, <1>11, <1>12 DEF TypeOK

LEMMA TypeJob ==
    ASSUME TypeOK, HoldersCanSend, FoldersLeft, NEW j \in Jobs, Moves(j)
    PROVE  TypeOK'
BY MovesAre, TypeTake, TypeActs DEF Reads

-----------------------------------------------------------------------------
(* One job's step.                                                         *)

\* A step of one job changes nothing that another one holds.
LEMMA OtherJobs ==
    ASSUME TypeOK, NEW j \in Jobs, Moves(j), NEW k \in Jobs, k # j
    PROVE  /\ pc'[k] = pc[k] /\ current'[k] = current[k] /\ sent'[k] = sent[k]
           /\ next'[k] = next[k] /\ batch'[k] = batch[k] /\ asked'[k] = asked[k]
<1>1. CASE Acts(j)
  BY <1>1 DEF TypeOK, mailVars, logVars, jobVars, history, Acts, InitCursor, StartFetch, FetchRaises, EndPass,
       LeaveLoop, ClaimMessage, PassMessage, Send, SendRefused, AnswerLost, MarkSent, GiveBack, CountSent,
       MarkFailed, PersistCursor, Crash, Looks, Goto
<1>2. ASSUME NEW S, Take(j, S)
      PROVE  /\ pc'[k] = pc[k] /\ UNCHANGED <<current, sent, next>>
             /\ batch'[k] = batch[k] /\ asked'[k] = asked[k]
  BY <1>2 DEF Take, Goto, TypeOK
<1> QED
  BY <1>1, <1>2, MovesAre DEF Reads

\* What a job's step does to the message in hand: it is claimed, it goes out,
\* its answer comes or is lost, its row is written, or the job lets go of it.
Claims(j, m) ==
    /\ pc[j] = "loop" /\ pc'[j] = "send" /\ current'[j] = m /\ sent[j] < MaxPerJob
    /\ sent' = sent /\ Claimable(m)
    /\ status' = [status EXCEPT ![m] = "processing"]
    /\ sends' = sends /\ redone' = redone \cup ({m} \cap stale)
Goes(j) ==
    /\ pc[j] = "send" /\ pc'[j] = "mark" /\ current' = current /\ sent' = sent
    /\ sends' = [sends EXCEPT ![current[j]] = @ + 1]
    /\ UNCHANGED <<status, redone>>
Refuses(j) ==
    /\ pc[j] = "send" /\ pc'[j] = "refused" /\ current' = current /\ sent' = sent
    /\ UNCHANGED status
    /\ \/ UNCHANGED <<sends, redone>>
       \/ /\ sends' = [sends EXCEPT ![current[j]] = @ + 1]
          /\ redone' = redone \cup {current[j]}
Marks(j) ==
    /\ pc'[j] \in {"loop", "persist"} /\ sends' = sends
    /\ \/ /\ pc[j] = "mark"
          /\ status' = [status EXCEPT ![current[j]] = "sent"] /\ redone' = redone
       \/ /\ pc[j] = "mark"
          /\ status' = [status EXCEPT ![current[j]] = "failed"] /\ redone' = redone \cup {current[j]}
       \/ /\ pc[j] = "refused"
          /\ status' = [status EXCEPT ![current[j]] = "failed"] /\ redone' = redone
LetsGo(j) ==
    /\ pc'[j] \in {"idle", "fetch", "loop", "persist"}
    /\ UNCHANGED <<status, sends, redone>>

LEMMA JobStep ==
    ASSUME TypeOK, NEW j \in Jobs, Moves(j)
    PROVE  (\E m \in Messages : Claims(j, m)) \/ Goes(j) \/ Refuses(j) \/ Marks(j) \/ LetsGo(j)
<1> USE DEF mailVars, logVars, jobVars, history
<1>1. ASSUME NEW phase, Goto(j, phase) PROVE pc'[j] = phase
  BY <1>1 DEF Goto, TypeOK
<1>2. CASE InitCursor(j) \/ StartFetch(j) \/ FetchRaises(j) \/ LeaveLoop(j) \/ PersistCursor(j) \/ Crash(j)
  BY <1>1, <1>2 DEF InitCursor, StartFetch, FetchRaises, EndPass, LeaveLoop, PersistCursor, Crash, LetsGo
<1>3. ASSUME NEW m \in Messages, ClaimMessage(j, m) PROVE Claims(j, m)
  <2>1. current'[j] = m
    BY <1>3 DEF ClaimMessage, TypeOK
  <2> QED
    BY <1>1, <1>3, <2>1 DEF ClaimMessage, Looks, Claims
<1>4. ASSUME NEW m \in Messages, PassMessage(j, m) PROVE LetsGo(j)
  BY <1>4 DEF PassMessage, Looks, LetsGo
<1>5. CASE Send(j)
  BY <1>1, <1>5 DEF Send, Goes
<1>6. CASE SendRefused(j) \/ AnswerLost(j)
  BY <1>1, <1>6 DEF SendRefused, AnswerLost, Refuses
<1>7. CASE MarkSent(j) \/ MarkFailed(j)
  BY <1>1, <1>7 DEF MarkSent, MarkFailed, GiveBack, CountSent, SetStatus, Marks
<1>8. ASSUME NEW S, Take(j, S) PROVE LetsGo(j)
  <2>1. pc'[j] \in {"fetch", "loop"}
    BY <1>1, <1>8 DEF Take
  <2> QED
    BY <1>8, <2>1 DEF Take, LetsGo
<1> QED
  BY <1>2, <1>3, <1>4, <1>5, <1>6, <1>7, <1>8, MovesAre DEF Acts, Reads

\* Only the job that begins to fetch has asked no folder; each further one asks
\* the next.
LEMMA FoldersRun ==
    ASSUME TypeOK, FoldersLeft, NEW j \in Jobs, Moves(j)
    PROVE  FoldersLeft'
<1>1. ASSUME NEW k \in Jobs, k # j, pc'[k] = "fetch" PROVE asked'[k] < FolderCount
  BY <1>1, OtherJobs DEF FoldersLeft
<1>2. ASSUME pc'[j] = "fetch" PROVE asked'[j] < FolderCount
  <2>1. ASSUME NEW S, Take(j, S) PROVE asked'[j] < FolderCount
    <3>1. asked'[j] = asked[j] + 1
      BY <2>1 DEF Take, TypeOK
    <3>2. asked[j] + 1 < FolderCount
      BY <1>2, <2>1 DEF Take, Goto, TypeOK
    <3> QED
      BY <3>1, <3>2
  <2>2. CASE Acts(j)
    <3>1. StartFetch(j)
      BY <1>2, <2>2 DEF TypeOK, Acts, InitCursor, StartFetch, FetchRaises, EndPass, LeaveLoop, ClaimMessage,
           PassMessage, Send, SendRefused, AnswerLost, MarkSent, GiveBack, CountSent, MarkFailed,
           PersistCursor, Crash, Looks, Goto
    <3>2. asked'[j] = 0
      BY <3>1 DEF StartFetch, TypeOK
    <3> QED
      BY <3>2, Bounds
  <2> QED
    BY <2>1, <2>2, MovesAre DEF Reads
<1> QED
  BY <1>1, <1>2 DEF FoldersLeft

LEMMA HoldersRun ==
    ASSUME TypeOK, HoldersCanSend, NEW j \in Jobs, Moves(j)
    PROVE  HoldersCanSend'
<1>1. ASSUME NEW k \in Jobs, k # j, Holding(k)' PROVE current'[k] \in Messages /\ sent'[k] < MaxPerJob
  BY <1>1, OtherJobs DEF HoldersCanSend, Holding
<1>2. ASSUME Holding(j)' PROVE current'[j] \in Messages /\ sent'[j] < MaxPerJob
  BY <1>2, JobStep DEF HoldersCanSend, Holding, Claims, Goes, Refuses, Marks, LetsGo
<1> QED
  BY <1>1, <1>2 DEF HoldersCanSend

LEMMA MarksRun ==
    ASSUME TypeOK, HoldersCanSend, MarksAreTrue, NEW j \in Jobs, Moves(j)
    PROVE  MarksAreTrue'
<1>1. \A m \in Messages : sends[m] \in Nat /\ sends'[m] \in Nat /\ sends'[m] >= sends[m]
  <2>1. sends \in [Messages -> Nat]
    BY DEF TypeOK
  <2>2. sends' = sends \/ (current[j] \in Messages /\ sends' = [sends EXCEPT ![current[j]] = @ + 1])
    BY JobStep DEF HoldersCanSend, Holding, Claims, Goes, Refuses, Marks, LetsGo
  <2> QED
    BY <2>1, <2>2
<1>2. ASSUME NEW k \in Jobs, k # j, pc'[k] = "mark" PROVE sends'[current'[k]] > 0
  <2>1. pc[k] = "mark" /\ current'[k] = current[k]
    BY <1>2, OtherJobs
  <2>2. current[k] \in Messages /\ sends[current[k]] > 0
    BY <2>1 DEF MarksAreTrue, HoldersCanSend, Holding
  <2> QED
    BY <1>1, <2>1, <2>2
<1>3. ASSUME pc'[j] = "mark" PROVE sends'[current'[j]] > 0
  <2>1. Goes(j)
    BY <1>3, JobStep DEF Claims, Refuses, Marks, LetsGo
  <2>2. current[j] \in Messages
    BY <2>1 DEF Goes, HoldersCanSend, Holding
  <2> QED
    BY <1>1, <2>1, <2>2 DEF Goes, TypeOK
<1>4. ASSUME NEW m \in Messages, status'[m] = "sent" PROVE sends'[m] > 0
  <2>1. status[m] = "sent" \/ (pc[j] = "mark" /\ m = current[j])
    BY <1>4, JobStep DEF TypeOK, Claims, Goes, Refuses, Marks, LetsGo
  <2>2. sends[m] > 0
    BY <2>1 DEF MarksAreTrue, SentRowIsTrue
  <2> QED
    BY <1>1, <2>2
<1> QED
  BY <1>2, <1>3, <1>4 DEF MarksAreTrue, SentRowIsTrue

\* An untouched message stays in order: claiming it a second time takes a
\* failed row, whose attempt sent nothing, or a stale one, which is a takeover.
LEMMA MessageRun ==
    ASSUME IInv, NEW j \in Jobs, Moves(j), NEW m \in Messages \ redone'
    PROVE  (HeldOnce(m) /\ SentAtMostOnce(m))'
<1>1. TypeOK /\ HoldersCanSend /\ MarksAreTrue
  BY DEF IInv
<1>2. m \in Messages \ redone
  BY <1>1, JobStep DEF Claims, Goes, Refuses, Marks, LetsGo
<1>3. HeldOnce(m) /\ SentAtMostOnce(m)
  BY <1>2 DEF IInv
<1>4. \A k \in Jobs \ {j} : pc'[k] = pc[k] /\ current'[k] = current[k]
  BY <1>1, OtherJobs
<1>5. Holding(j) => current[j] \in Messages
  BY <1>1 DEF HoldersCanSend
<1>6. status \in [Messages -> {"none", "processing", "sent", "failed"}] /\ sends \in [Messages -> Nat]
  BY <1>1 DEF TypeOK
<1>7. ASSUME NEW c \in Messages, Claims(j, c) PROVE (HeldOnce(m) /\ SentAtMostOnce(m))'
  <2>1. CASE c # m
    <3>1. status'[m] = status[m] /\ sends' = sends /\ ~Holds(j, m)'
      BY <1>6, <1>7, <2>1 DEF Claims, Holds
    <3> QED
      BY <1>3, <1>4, <3>1 DEF HeldOnce, SentAtMostOnce, Holds, Holding
  <2>2. CASE c = m
    <3>1. m \notin stale /\ status[m] \in {"none", "failed"}
      BY <1>7, <2>2 DEF Claims, Claimable
    <3>2. sends[m] = 0 /\ sends' = sends /\ status'[m] = "processing"
      BY <1>3, <1>6, <1>7, <2>2, <3>1 DEF SentAtMostOnce, Claims
    <3>3. \A k \in Jobs : ~Holds(k, m)
      BY <1>3, <3>1 DEF HeldOnce
    <3> QED
      BY <1>4, <3>2, <3>3 DEF HeldOnce, SentAtMostOnce, Holds, Holding
  <2> QED
    BY <2>1, <2>2
<1>8. CASE Goes(j)
  <2>1. status' = status /\ \A k \in Jobs : Holds(k, m)' <=> Holds(k, m)
    BY <1>4, <1>8 DEF Goes, Holds, Holding
  <2>2. CASE current[j] = m
    <3>1. sends[m] = 0 /\ sends'[m] = 1 /\ Holds(j, m) /\ pc'[j] = "mark"
      BY <1>3, <1>6, <1>8, <2>2 DEF SentAtMostOnce, Goes, Holds, Holding
    <3>2. status[m] = "processing" /\ \A k \in Jobs : Holds(k, m) => k = j
      BY <1>3, <3>1 DEF HeldOnce
    <3> QED
      BY <1>3, <2>1, <3>1, <3>2 DEF HeldOnce, SentAtMostOnce
  <2>3. CASE current[j] # m
    <3>1. sends'[m] = sends[m] /\ ~Holds(j, m)
      BY <1>6, <1>8, <2>3 DEF Goes, Holds
    <3> QED
      BY <1>3, <1>4, <2>1, <3>1 DEF HeldOnce, SentAtMostOnce
  <2> QED
    BY <2>2, <2>3
<1>9. CASE Refuses(j)
  <2>1. status' = status /\ \A k \in Jobs : Holds(k, m)' <=> Holds(k, m)
    BY <1>4, <1>9 DEF Refuses, Holds, Holding
  <2>2. sends'[m] = sends[m] /\ (Holds(j, m) => sends[m] = 0)
    <3>1. sends' = sends \/ current[j] # m
      BY <1>9 DEF Refuses
    <3>2. Holds(j, m) => sends[m] = 0
      BY <1>3, <1>9 DEF Refuses, SentAtMostOnce
    <3> QED
      BY <1>6, <1>9, <3>1, <3>2 DEF Refuses
  <2> QED
    BY <1>3, <1>4, <2>1, <2>2 DEF HeldOnce, SentAtMostOnce
<1>10. CASE Marks(j)
  <2>1. ~Holds(j, m)' /\ sends' = sends /\ \A k \in Jobs \ {j} : Holds(k, m)' <=> Holds(k, m)
    BY <1>4, <1>10 DEF Marks, Holds, Holding
  <2>2. CASE current[j] = m
    <3>1. Holds(j, m) /\ \A k \in Jobs : ~Holds(k, m)'
      <4>1. Holds(j, m)
        BY <1>10, <2>2 DEF Marks, Holds, Holding
      <4> QED
        BY <1>3, <2>1, <4>1 DEF HeldOnce
    <3>2. status'[m] = "sent" \/ (pc[j] = "refused" /\ sends[m] = 0)
      BY <1>3, <1>6, <1>10, <2>2, <3>1 DEF Marks, SentAtMostOnce
    <3> QED
      BY <1>3, <2>1, <3>1, <3>2 DEF HeldOnce, SentAtMostOnce
  <2>3. CASE current[j] # m
    <3>1. status'[m] = status[m]
      BY <1>6, <1>10, <2>3 DEF Marks
    <3> QED
      BY <1>3, <1>4, <2>1, <3>1 DEF HeldOnce, SentAtMostOnce
  <2> QED
    BY <2>2, <2>3
<1>11. CASE LetsGo(j)
  <2>1. \A k \in Jobs : Holds(k, m)' => k # j /\ Holds(k, m) /\ pc'[k] = pc[k]
    BY <1>4, <1>11 DEF LetsGo, Holds, Holding
  <2> QED
    BY <1>3, <1>11, <2>1 DEF HeldOnce, SentAtMostOnce, LetsGo
<1> QED
  BY <1>1, <1>7, <1>8, <1>9, <1>10, <1>11, JobStep

-----------------------------------------------------------------------------
(* The theorems that hold of any jobs.                                     *)

LEMMA InvInit == Init => IInv
<1> SUFFICES ASSUME Init PROVE IInv
  OBVIOUS
<1>1. TypeOK
  BY TypeInit
<1>2. /\ \A j \in Jobs : pc[j] = "idle"
      /\ \A m \in Messages : sends[m] = 0 /\ status[m] = "none"
  BY DEF Init
<1> QED
  BY <1>1, <1>2 DEF IInv, HoldersCanSend, FoldersLeft, Holding, MarksAreTrue, SentRowIsTrue, HeldOnce,
                    Holds, SentAtMostOnce

\* Every step keeps the invariant.
LEMMA InvStep == IInv /\ [Next]_vars => IInv'
<1> SUFFICES ASSUME IInv, [Next]_vars PROVE IInv'
  OBVIOUS
<1>1. ASSUME NEW j \in Jobs, Moves(j) PROVE IInv'
  <2>1. TypeOK /\ HoldersCanSend /\ FoldersLeft /\ MarksAreTrue
    BY DEF IInv
  <2>2. TypeOK' /\ HoldersCanSend' /\ FoldersLeft' /\ MarksAreTrue'
    BY <1>1, <2>1, TypeJob, HoldersRun, FoldersRun, MarksRun
  <2>3. \A m \in Messages \ redone' : (HeldOnce(m) /\ SentAtMostOnce(m))'
    BY <1>1, MessageRun
  <2> QED
    BY <2>2, <2>3 DEF IInv
<1>2. CASE Environment \/ ResetCursor
  <2>1. UNCHANGED <<pc, asked, current, sent, status, sends, redone>>
    BY <1>2 DEF Environment, Tick, Arrive, AttemptAges, ResetCursor, mailVars, logVars, jobVars, history
  <2>2. TypeOK'
    BY <1>2, TypeAround DEF IInv
  <2> QED
    BY <2>1, <2>2 DEF IInv, HoldersCanSend, FoldersLeft, Holding, MarksAreTrue, SentRowIsTrue, HeldOnce,
                      Holds, SentAtMostOnce
<1>3. CASE UNCHANGED vars
  BY <1>3 DEF vars, mailVars, logVars, jobVars, history, IInv, TypeOK, HoldersCanSend, FoldersLeft,
              Holding, MarksAreTrue, SentRowIsTrue, HeldOnce, Holds, SentAtMostOnce
<1> QED
  BY <1>1, <1>2, <1>3 DEF Next, Moves

\* The inductive invariant holds in every behaviour.
THEOREM DeliveryInvariant == Spec => []IInv
BY InvInit, InvStep, PTL DEF Spec

\* Every variable keeps its type: in particular no job sends more than its
\* limit, and no cursor leaves the clock behind.
THEOREM TypeCorrect == Spec => []TypeOK
<1>1. IInv => TypeOK
  BY DEF IInv
<1> QED
  BY <1>1, DeliveryInvariant, PTL

\* However many jobs run, crash and retry, a message goes out a second time
\* only after a takeover of an attempt left unfinished, a lost answer or a
\* failed marking.
THEOREM AttemptsAreExclusive == Spec => []SentOnce
<1>1. IInv => SentOnce
  BY DEF IInv, SentAtMostOnce, SentOnce
<1> QED
  BY <1>1, DeliveryInvariant, PTL

\* A delivery log row that says 'sent' tells the truth.
THEOREM SentRowsAreTrue == Spec => []SentRowIsTrue
<1>1. IInv => SentRowIsTrue
  BY DEF IInv, MarksAreTrue
<1> QED
  BY <1>1, DeliveryInvariant, PTL

\* The step behind CursorMonotone.
LEMMA CursorStep ==
    ASSUME TypeOK, [Next]_vars, ~ResetCursor
    PROVE  cursor' >= cursor
<1>1. cursor \in Nat /\ \A j \in Jobs : next[j] \in Nat
  BY Bounds DEF TypeOK
<1>2. ASSUME NEW j \in Jobs, Moves(j) PROVE cursor' >= cursor
  <2>1. \/ cursor' = cursor
        \/ cursor = 0 /\ cursor' \in 1 .. now
        \/ cursor' = Later(cursor, next[j])
    <3>1. CASE Acts(j)
      BY <3>1 DEF mailVars, logVars, jobVars, history, Acts, InitCursor, StartFetch, FetchRaises, EndPass,
           LeaveLoop, ClaimMessage, PassMessage, Send, SendRefused, AnswerLost, MarkSent, MarkFailed,
           PersistCursor, Crash
    <3>2. ASSUME NEW S, Take(j, S) PROVE cursor' = cursor
      BY <3>2 DEF Take
    <3> QED
      BY <1>2, <3>1, <3>2, MovesAre DEF Reads
  <2>2. now \in Nat
    BY Bounds DEF TypeOK
  <2> QED
    BY <1>1, <2>1, <2>2, Bounds
<1>3. CASE Environment \/ UNCHANGED vars
  <2>1. cursor' = cursor
    BY <1>3 DEF vars, Environment, Tick, Arrive, AttemptAges
  <2> QED
    BY <1>1, <2>1
<1> QED
  BY <1>2, <1>3 DEF Next, Moves

\* The stored cursor never moves back, whichever of the jobs stores it and
\* however old the cursor is that it started from; only switching notification
\* on again may do so.
THEOREM CursorNeverGoesBack == Spec => CursorMonotone
<1>1. ASSUME IInv, [Next]_vars PROVE [cursor' < cursor => ResetCursor]_vars
  <2>1. TypeOK /\ TypeOK'
    BY <1>1, InvStep DEF IInv
  <2>2. cursor \in Nat /\ cursor' \in Nat
    BY <2>1, Bounds DEF TypeOK
  <2>3. ResetCursor \/ cursor' >= cursor
    BY <1>1, <2>1, CursorStep
  <2> QED
    BY <2>2, <2>3
<1> QED
  BY <1>1, DeliveryInvariant, PTL DEF Spec, CursorMonotone

-----------------------------------------------------------------------------
(* The dispatch job implements DeliveryLedger.                             *)

Confirmed == {m \in Messages : status[m] = "sent"}

\* The state of the ledger that a state of the job stands for.
seen == <<sends, Confirmed, redone>>

\* A message in somebody's hands has not been confirmed, unless it is in doubt.
LEMMA HeldIsOpen ==
    ASSUME IInv, NEW j \in Jobs, Holding(j)
    PROVE  /\ current[j] \in Messages
           /\ current[j] \in Confirmed => current[j] \in redone
           /\ pc[j] # "mark" => sends[current[j]] = 0 \/ current[j] \in redone
<1>1. current[j] \in Messages
  BY DEF IInv, HoldersCanSend
<1>2. CASE current[j] \notin redone
  <2>1. HeldOnce(current[j]) /\ SentAtMostOnce(current[j]) /\ Holds(j, current[j])
    BY <1>1, <1>2 DEF IInv, Holds
  <2> QED
    BY <1>1, <2>1 DEF HeldOnce, SentAtMostOnce, Confirmed
<1> QED
  BY <1>1, <1>2

\* Claiming a message opens no confirmed one; taking over an attempt, it doubts it.
LEMMA ClaimsInLedger ==
    ASSUME IInv, NEW j \in Jobs, NEW m \in Messages, Claims(j, m)
    PROVE  [Ledger!Next]_seen
<1>1. status \in [Messages -> {"none", "processing", "sent", "failed"}]
  BY DEF IInv, TypeOK
<1>2. status[m] # "sent"
  BY DEF Claims, Claimable
<1>3. Confirmed' = Confirmed /\ sends' = sends
  BY <1>1, <1>2 DEF Claims, Confirmed
<1>4. CASE m \in stale
  <2>1. redone' = redone \cup {m} /\ m \notin Confirmed
    BY <1>2, <1>4 DEF Claims, Confirmed
  <2>2. Ledger!Doubt(m) /\ UNCHANGED <<sends, Confirmed>>
    BY <1>3, <2>1 DEF Ledger!Doubt, Confirmed
  <2> QED
    BY <2>2 DEF Ledger!Next, Confirmed
<1>5. CASE m \notin stale
  BY <1>3, <1>5 DEF Claims, seen
<1> QED
  BY <1>4, <1>5

\* A message goes out, and its answer comes or is lost.
LEMMA GoesInLedger ==
    ASSUME IInv, NEW j \in Jobs, Goes(j) \/ Refuses(j)
    PROVE  [Ledger!Next]_seen
<1> DEFINE m == current[j]
<1>1. m \in Messages /\ (m \in Confirmed => m \in redone) /\ (sends[m] = 0 \/ m \in redone)
  BY HeldIsOpen DEF Goes, Refuses, Holding
<1>2. Confirmed' = Confirmed
  BY DEF Goes, Refuses, Confirmed
<1>3. CASE UNCHANGED <<sends, redone>>
  BY <1>2, <1>3 DEF seen
<1>4. ASSUME sends' = [sends EXCEPT ![m] = @ + 1] PROVE Ledger!GoOut(m)
  BY <1>1, <1>2, <1>4 DEF Ledger!GoOut, Confirmed
<1>5. CASE redone' = redone /\ sends' = [sends EXCEPT ![m] = @ + 1]
  BY <1>1, <1>4, <1>5 DEF Ledger!Next
<1>6. CASE redone' = redone \cup {m} /\ sends' = [sends EXCEPT ![m] = @ + 1]
  <2>1. redone' = redone \/ Ledger!Doubt(m)
    BY <1>1, <1>6 DEF Ledger!Doubt, Confirmed
  <2> QED
    BY <1>1, <1>4, <1>6, <2>1 DEF Ledger!Next
<1> QED
  BY <1>3, <1>5, <1>6 DEF Goes, Refuses

\* Marking confirms what went out; a row is set back to 'failed' only when its
\* message is in doubt already, or comes into doubt by it, or was not confirmed.
LEMMA MarksInLedger ==
    ASSUME IInv, NEW j \in Jobs, Marks(j)
    PROVE  [Ledger!Next]_seen
<1> PICK m \in Messages : m = current[j]
  BY HeldIsOpen DEF Marks, Holding
<1>1. m \in Messages /\ (m \in Confirmed => m \in redone) /\ sends' = sends
  BY HeldIsOpen DEF Marks, Holding
<1>2. status \in [Messages -> {"none", "processing", "sent", "failed"}]
  BY DEF IInv, TypeOK
<1>3. CASE pc[j] = "mark" /\ status' = [status EXCEPT ![m] = "sent"] /\ redone' = redone
  <2>1. sends[m] > 0
    BY <1>3 DEF IInv, MarksAreTrue
  <2>2. Confirmed' = Confirmed \cup {m}
    BY <1>1, <1>2, <1>3 DEF Confirmed
  <2>3. Ledger!Confirm(m)
    BY <1>1, <1>3, <2>1, <2>2 DEF Ledger!Confirm, Confirmed
  <2> QED
    BY <1>1, <2>3 DEF Ledger!Next
<1>4. ASSUME status' = [status EXCEPT ![m] = "failed"], redone' = redone \/ redone' = redone \cup {m}
      PROVE  [Ledger!Next]_seen
  <2>1. Confirmed' = Confirmed \ {m}
    BY <1>1, <1>2, <1>4 DEF Confirmed
  <2>2. CASE m \in redone
    <3>1. Ledger!Withdraw(m)
      BY <1>1, <1>4, <2>1, <2>2 DEF Ledger!Withdraw, Confirmed
    <3> QED
      BY <1>1, <3>1 DEF Ledger!Next
  <2>3. CASE m \notin redone
    <3>1. m \notin Confirmed /\ Confirmed' = Confirmed
      BY <1>1, <2>1, <2>3
    <3>2. CASE redone' = redone
      BY <1>1, <3>1, <3>2 DEF seen
    <3>3. CASE redone' = redone \cup {m}
      <4>1. Ledger!Doubt(m) /\ UNCHANGED <<sends, Confirmed>>
        BY <1>1, <3>1, <3>3 DEF Ledger!Doubt, Confirmed
      <4> QED
        BY <1>1, <4>1 DEF Ledger!Next, Confirmed
    <3> QED
      BY <1>4, <3>2, <3>3
  <2> QED
    BY <2>2, <2>3
<1> QED
  BY <1>3, <1>4 DEF Marks

\* Every step of the jobs and of what is around them is a step of the ledger or
\* leaves it alone.
LEMMA LedgerStep == IInv /\ [Next]_vars => [Ledger!Next]_seen
<1> SUFFICES ASSUME IInv, [Next]_vars PROVE [Ledger!Next]_seen
  OBVIOUS
<1>1. ASSUME UNCHANGED <<sends, status, redone>> PROVE [Ledger!Next]_seen
  BY <1>1 DEF seen, Confirmed
<1>2. ASSUME NEW j \in Jobs, Moves(j) PROVE [Ledger!Next]_seen
  <2>1. (\E m \in Messages : Claims(j, m)) \/ Goes(j) \/ Refuses(j) \/ Marks(j) \/ LetsGo(j)
    BY <1>2, JobStep DEF IInv
  <2> QED
    BY <1>1, <2>1, ClaimsInLedger, GoesInLedger, MarksInLedger DEF LetsGo
<1>3. CASE Environment \/ ResetCursor \/ UNCHANGED vars
  BY <1>1, <1>3 DEF vars, Environment, Tick, Arrive, AttemptAges, ResetCursor, logVars, history
<1> QED
  BY <1>2, <1>3 DEF Next, Moves

\* The dispatch job, however many run it, implements the ledger of deliveries: a
\* message goes out once and is left alone when that is confirmed, except in
\* doubt about an attempt.
THEOREM DeliveriesRefine == Spec => DeliveryLedgerSpec
<1>1. Init => Ledger!Init
  BY DEF Init, Ledger!Init
<1>2. [Ledger!Next]_seen <=> [Ledger!Next]_(Ledger!ledger)
  BY DEF seen, Confirmed, Ledger!ledger
<1>3. IInv /\ [Next]_vars => [Ledger!Next]_(Ledger!ledger)
  BY <1>2, LedgerStep
<1> QED
  BY <1>1, <1>3, DeliveryInvariant, PTL DEF Spec, DeliveryLedgerSpec, Ledger!Spec

-----------------------------------------------------------------------------
(* What the cursor passes.                                                 *)

\* The message went out, or it has one of the reasons not to.
Cleared(m) == sends[m] > 0 \/ m \in overlooked \/ SharesSecond(m)

\* Nobody is at work before there is a cursor.
CursorComesFirst == cursor = 0 => \A j \in Jobs : pc[j] = "idle"

\* A message has no date before it arrives.
ArrivesOnce == \A m \in Messages : arrived[m] = 0 => received[m] = 0

\* What a job has to look at has arrived; an idle job has nothing.
ListHasArrived(j) ==
    /\ pc[j] = "idle" => batch[j] = {}
    /\ pc[j] # "idle" => \A m \in Open(j) : received[m] # 0

\* What lies between the stored cursor and the one the job will store is cleared.
CursorAhead(j) ==
    pc[j] # "idle" =>
        \A m \in Messages : received[m] > cursor /\ received[m] <= next[j] => Cleared(m)

\* What the job has still to look at comes before everything else that is not
\* cleared, and the message it holds comes first.
Listed(j) == pc[j] \in {"loop", "send", "mark", "refused"}
ListInOrder(j) ==
    Listed(j) => \A m \in Messages \ Open(j) :
        received[m] > cursor => Cleared(m) \/ \A k \in Open(j) : received[k] < received[m]
HoldsEarliest(j) ==
    Holding(j) => \A k \in batch[j] : received[current[j]] <= received[k]

Follows(j) == ListHasArrived(j) /\ CursorAhead(j) /\ ListInOrder(j) /\ HoldsEarliest(j)

CursorInv == IInv /\ CursorComesFirst /\ ArrivesOnce /\ \A j \in Jobs : Follows(j)

\* The natural numbers are well-ordered: the initial segments that a set of
\* them defines are finite, and inclusion of finite sets is well-founded.
LEMMA SmallestExists ==
    ASSUME NEW T, T \subseteq Nat, T # {}
    PROVE  \E x \in T : \A y \in T : x <= y
<1> DEFINE Below == {1 .. n : n \in T}
<1>1. IsWellFoundedOn(StrictSubsetOrdering(Nat), FiniteSubsetsOf(Nat))
  BY FS_StrictSubsetOrderingWellFounded
<1>2. Below \subseteq FiniteSubsetsOf(Nat) /\ Below # {}
  <2>1. \A n \in Nat : 1 .. n \subseteq Nat /\ IsFiniteSet(1 .. n)
    BY FS_Interval
  <2> QED
    BY <2>1 DEF FiniteSubsetsOf
<1>3. PICK s \in Below : \A t \in Below : <<t, s>> \notin StrictSubsetOrdering(Nat)
  <2> HIDE DEF Below
  <2> QED
    BY <1>1, <1>2, WFMin
<1>4. PICK x \in T : s = 1 .. x
  OBVIOUS
<1>5. ASSUME NEW y \in T, y < x PROVE FALSE
  <2>1. 1 .. y \in Below /\ 1 .. y \in SUBSET Nat /\ s \in SUBSET Nat
    BY <1>4
  <2>2. 1 .. y \subseteq s /\ 1 .. y # s
    <3>1. x \in Nat /\ y \in Nat /\ x \in 1 .. x /\ x \notin 1 .. y
      BY <1>5
    <3>2. 1 .. y \subseteq 1 .. x
      BY <1>5, <3>1
    <3> QED
      BY <1>4, <3>1, <3>2
  <2> QED
    BY <1>3, <2>1, <2>2 DEF StrictSubsetOrdering
<1> QED
  BY <1>5

\* The list is gone through in the order of time.
LEMMA EarliestIsFirst ==
    ASSUME TypeOK, NEW S, S \subseteq Messages, S # {}
    PROVE  Earliest(S) \in S /\ \A k \in S : received[Earliest(S)] <= received[k]
<1>1. \A k \in S : k \in Nat /\ received[k] \in Nat
  BY Bounds DEF TypeOK, Messages
<1>2. PICK t \in {received[k] : k \in S} : \A u \in {received[k] : k \in S} : t <= u
  <2>1. {received[k] : k \in S} \subseteq Nat /\ {received[k] : k \in S} # {}
    BY <1>1
  <2> QED
    BY <2>1, SmallestExists
<1>3. PICK m \in {k \in S : received[k] = t} : \A k \in {n \in S : received[n] = t} : m <= k
  <2>1. {k \in S : received[k] = t} \subseteq Nat /\ {k \in S : received[k] = t} # {}
    BY <1>1, <1>2
  <2> QED
    BY <2>1, SmallestExists
<1>4. \A k \in S : received[m] < received[k] \/ (received[m] = received[k] /\ m <= k)
  BY <1>1, <1>2, <1>3
<1>5. /\ Earliest(S) \in S
      /\ \A k \in S : \/ received[Earliest(S)] < received[k]
                      \/ received[Earliest(S)] = received[k] /\ Earliest(S) <= k
  BY <1>4 DEF Earliest
<1> QED
  BY <1>1, <1>5

\* What the job looks at next comes before everything else in its list.
LEMMA LooksAtFirst ==
    ASSUME TypeOK, NEW j \in Jobs, NEW m \in Messages, Looks(j, m)
    PROVE  /\ pc[j] = "loop" /\ sent[j] < MaxPerJob /\ m \in batch[j]
           /\ batch'[j] = batch[j] \ {m}
           /\ \A k \in batch[j] : received[m] <= received[k]
<1>1. batch[j] \subseteq Messages /\ batch[j] # {} /\ m = Earliest(batch[j])
  BY DEF Looks, TypeOK
<1> QED
  BY <1>1, EarliestIsFirst DEF Looks, TypeOK

\* All that is compared is a number.
LEMMA Numbers ==
    ASSUME TypeOK
    PROVE  /\ cursor \in Nat /\ now \in Nat
           /\ \A j \in Jobs : next[j] \in Nat /\ batch[j] \subseteq Messages
           /\ \A m \in Messages : received[m] \in Nat /\ sends[m] \in Nat
BY Bounds DEF TypeOK

\* A message goes out more often, never less, and is overlooked for good.
LEMMA SendsGrow ==
    ASSUME TypeOK, HoldersCanSend, [Next]_vars, NEW m \in Messages
    PROVE  (sends[m] > 0 => sends'[m] > 0) /\ overlooked \subseteq overlooked'
<1>1. sends \in [Messages -> Nat]
  BY DEF TypeOK
<1>2. ASSUME NEW j \in Jobs, Moves(j) PROVE sends[m] > 0 => sends'[m] > 0
  <2>1. sends' = sends \/ (current[j] \in Messages /\ sends' = [sends EXCEPT ![current[j]] = @ + 1])
    BY <1>2, JobStep DEF HoldersCanSend, Holding, Claims, Goes, Refuses, Marks, LetsGo
  <2> QED
    BY <1>1, <2>1
<1>3. ASSUME NEW j \in Jobs, Moves(j) PROVE overlooked \subseteq overlooked'
  <2>1. CASE Acts(j)
    BY <2>1 DEF history, Acts, InitCursor, StartFetch, FetchRaises, EndPass, LeaveLoop, ClaimMessage, PassMessage,
         Send, SendRefused, AnswerLost, MarkSent, MarkFailed, PersistCursor, Crash
  <2>2. ASSUME NEW S, Take(j, S) PROVE overlooked \subseteq overlooked'
    BY <2>2 DEF Take
  <2> QED
    BY <1>3, <2>1, <2>2, MovesAre DEF Reads
<1>4. CASE Environment \/ ResetCursor \/ UNCHANGED vars
  <2>1. sends' = sends /\ overlooked \subseteq overlooked'
    BY <1>4 DEF Environment, Tick, Arrive, AttemptAges, ResetCursor, vars, history
  <2> QED
    BY <2>1
<1> QED
  BY <1>2, <1>3, <1>4 DEF Next, Moves

\* Once cleared, a message that has arrived stays so.
LEMMA ClearedStays ==
    ASSUME TypeOK, HoldersCanSend, [Next]_vars, NEW m \in Messages, Cleared(m),
           \A k \in Messages : received[k] # 0 => received'[k] = received[k], received[m] # 0
    PROVE  Cleared(m)'
<1>1. (sends[m] > 0 => sends'[m] > 0) /\ overlooked \subseteq overlooked'
  BY SendsGrow
<1>2. CASE sends[m] > 0 \/ m \in overlooked
  BY <1>1, <1>2 DEF Cleared
<1>3. CASE SharesSecond(m)
  BY <1>3 DEF SharesSecond, Cleared
<1> QED
  BY <1>2, <1>3 DEF Cleared

\* A job that does not move keeps its order, when the mail stays as it is and
\* the cursor does not uncover what is not cleared.
LEMMA OthersFollow ==
    ASSUME TypeOK, NEW j \in Jobs, Follows(j),
           pc'[j] = pc[j], batch'[j] = batch[j], current'[j] = current[j], next'[j] = next[j],
           received' = received,
           \A m \in Messages : received[m] > cursor' => received[m] > cursor \/ Cleared(m)',
           \A m \in Messages : received[m] > cursor /\ Cleared(m) => Cleared(m)'
    PROVE  Follows(j)'
<1>1. Open(j)' = Open(j) /\ Listed(j)' = Listed(j) /\ Holding(j)' = Holding(j)
  BY DEF Open, Held, Listed, Holding
<1>2. ListHasArrived(j)' /\ HoldsEarliest(j)'
  BY <1>1 DEF Follows, ListHasArrived, HoldsEarliest
<1>3. CursorAhead(j)'
  BY DEF Follows, CursorAhead
<1>4. ListInOrder(j)'
  BY <1>1 DEF Follows, ListInOrder
<1> QED
  BY <1>2, <1>3, <1>4 DEF Follows

\* A message that arrives too late for the job's list is overlooked.
LEMMA ArrivalFollows ==
    ASSUME CursorInv, NEW m \in Messages, NEW date \in 1 .. MaxNow, Arrive(m, date), NEW j \in Jobs
    PROVE  Follows(j)'
<1>1. TypeOK /\ HoldersCanSend /\ Follows(j)
  BY DEF CursorInv, IInv
<1>2. /\ UNCHANGED <<cursor, sends, next, batch, current, pc>>
      /\ received'[m] = date /\ \A k \in Messages \ {m} : received'[k] = received[k]
  BY <1>1 DEF Arrive, TypeOK, jobVars
<1>3. date \in Nat /\ next[j] \in Nat /\ cursor \in Nat /\ \A k \in Messages : received[k] \in Nat
  BY <1>1, Numbers, Bounds
<1>4. Open(j)' = Open(j) /\ Listed(j)' = Listed(j) /\ Holding(j)' = Holding(j)
  BY <1>2 DEF Open, Held, Listed, Holding
<1>5. received[m] = 0
  BY DEF ArrivesOnce, CursorInv, Arrive
<1>6. \A k \in Messages \ {m} : Cleared(k) /\ received[k] # 0 => Cleared(k)'
  <2>1. sends' = sends /\ overlooked \subseteq overlooked'
    BY DEF Arrive
  <2>2. ASSUME NEW k \in Messages \ {m}, SharesSecond(k), received[k] # 0, received[m] = 0
        PROVE  SharesSecond(k)'
    BY <1>2, <2>2 DEF SharesSecond
  <2> QED
    BY <1>5, <2>1, <2>2 DEF Cleared
<1>7. CASE pc[j] = "idle"
  BY <1>1, <1>2, <1>4, <1>7 DEF Follows, ListHasArrived, CursorAhead, ListInOrder, HoldsEarliest, Listed,
                                Holding
<1>8. CASE pc[j] # "idle"
  <2>1. Open(j) \subseteq Messages \ {m}
    <3>1. Holding(j) => current[j] \in Messages
      BY <1>1 DEF HoldersCanSend
    <3>2. Open(j) \subseteq Messages
      BY <1>1, <1>3, <3>1, Numbers DEF Open, Held, Holding
    <3>3. m \notin Open(j)
      BY <1>1, <1>5, <1>8 DEF Follows, ListHasArrived
    <3> QED
      BY <3>2, <3>3
  <2>2. date <= next[j] => m \in overlooked'
    BY <1>8 DEF Arrive, ComesLate
  <2>3. Listed(j) /\ (\E k \in Open(j) : date < received[k]) => m \in overlooked'
    BY <1>8 DEF Arrive, ComesLate, Listed
  <2>4. ListHasArrived(j)'
    BY <1>1, <1>2, <1>4, <1>8, <2>1 DEF Follows, ListHasArrived
  <2>5. CursorAhead(j)'
    BY <1>1, <1>2, <1>3, <1>6, <1>8, <2>2 DEF Follows, CursorAhead, Cleared
  <2>6. HoldsEarliest(j)'
    <3>1. Holding(j) => current[j] \in Open(j) /\ batch[j] \subseteq Open(j)
      BY DEF Holding, Open, Held
    <3>2. \A k \in Open(j) : received'[k] = received[k]
      BY <1>2, <2>1
    <3> QED
      BY <1>1, <1>2, <1>4, <3>1, <3>2 DEF Follows, HoldsEarliest
  <2>7. ListInOrder(j)'
    <3> SUFFICES ASSUME Listed(j), NEW n \in Messages \ Open(j), received'[n] > cursor
                 PROVE  Cleared(n)' \/ \A k \in Open(j) : received'[k] < received'[n]
      BY <1>2, <1>4 DEF ListInOrder
    <3>1. \A k \in Open(j) : received'[k] = received[k] /\ received[k] \in Nat
      BY <1>2, <1>3, <2>1
    <3>2. CASE n # m
      BY <1>1, <1>2, <1>3, <1>6, <3>1, <3>2 DEF Follows, ListInOrder
    <3>3. ASSUME n = m, m \notin overlooked', NEW k \in Open(j), ~(received'[k] < date)
          PROVE  SharesSecond(m)'
      <4>1. received'[k] = date
        BY <1>3, <2>3, <3>1, <3>3
      <4> QED
        BY <1>2, <2>1, <3>3, <4>1 DEF SharesSecond
    <3> QED
      BY <1>2, <3>2, <3>3 DEF Cleared
  <2> QED
    BY <2>4, <2>5, <2>6, <2>7 DEF Follows
<1> QED
  BY <1>7, <1>8

\* A step of the job keeps the order of its list.
LEMMA OwnStepFollows ==
    ASSUME CursorInv, NEW j \in Jobs, Moves(j)
    PROVE  Follows(j)'
<1> USE DEF mailVars, logVars, jobVars, history
<1>1. TypeOK /\ HoldersCanSend /\ MarksAreTrue /\ Follows(j)
  BY DEF CursorInv, IInv
<1>2. /\ cursor \in Nat /\ next[j] \in Nat /\ batch[j] \subseteq Messages
      /\ \A m \in Messages : received[m] \in Nat
  BY <1>1, Numbers
<1>3. ASSUME NEW phase, Goto(j, phase) PROVE pc'[j] = phase
  BY <1>1, <1>3 DEF Goto, TypeOK
<1>4. received' = received
  <2>1. ASSUME NEW S, Take(j, S) PROVE received' = received
    BY <2>1 DEF Take
  <2>2. CASE Acts(j)
    BY <2>2 DEF Acts, InitCursor, StartFetch, FetchRaises, EndPass, LeaveLoop, ClaimMessage, PassMessage, Send,
         SendRefused, AnswerLost, MarkSent, MarkFailed, PersistCursor, Crash
  <2> QED
    BY <2>1, <2>2, MovesAre DEF Reads
<1>5. ASSUME NEW m \in Messages, Cleared(m), received[m] # 0 PROVE Cleared(m)'
  <2>1. [Next]_vars
    BY DEF Next, Moves
  <2> QED
    BY <1>1, <1>4, <1>5, <2>1, ClearedStays
<1>6. CASE InitCursor(j) \/ FetchRaises(j) \/ PersistCursor(j) \/ Crash(j)
  <2>1. pc'[j] = "idle"
    BY <1>3, <1>6 DEF InitCursor, FetchRaises, EndPass, PersistCursor, Crash
  <2>2. batch'[j] = {}
    BY <1>1, <1>6 DEF InitCursor, FetchRaises, EndPass, PersistCursor, Crash, TypeOK, Follows, ListHasArrived
  <2> QED
    BY <2>1, <2>2 DEF Follows, ListHasArrived, CursorAhead, ListInOrder, HoldsEarliest, Listed, Holding
<1>7. CASE StartFetch(j)
  <2>1. pc'[j] = "fetch" /\ next'[j] = cursor /\ cursor' = cursor /\ batch'[j] = {}
    BY <1>1, <1>3, <1>7 DEF StartFetch, TypeOK, Follows, ListHasArrived
  <2>2. Open(j)' = {} /\ ~Listed(j)' /\ ~Holding(j)'
    BY <2>1 DEF Open, Held, Listed, Holding
  <2> QED
    BY <1>2, <1>4, <2>1, <2>2 DEF Follows, ListHasArrived, CursorAhead, ListInOrder, HoldsEarliest
<1>8. ASSUME NEW S \in SUBSET Messages, Reads(j, S) PROVE Follows(j)'
  <2> DEFINE list == batch[j] \cup S
  <2>1. /\ pc[j] = "fetch" /\ pc'[j] \in {"fetch", "loop"} /\ batch'[j] = list
        /\ UNCHANGED <<cursor, next>>
    BY <1>1, <1>3, <1>8 DEF Reads, Take, TypeOK
  <2>2. Open(j) = batch[j] /\ Open(j)' = list /\ ~Holding(j)'
    BY <2>1 DEF Open, Held, Holding
  <2>3. \A m \in list : received[m] # 0
    <3>1. \A m \in S : received[m] # 0
      BY <1>2, <1>8 DEF Reads
    <3> QED
      BY <1>1, <2>1, <2>2, <3>1 DEF Follows, ListHasArrived
  <2>4. ListHasArrived(j)' /\ HoldsEarliest(j)'
    BY <1>4, <2>1, <2>2, <2>3 DEF ListHasArrived, HoldsEarliest
  <2>5. CursorAhead(j)'
    BY <1>1, <1>2, <1>4, <1>5, <2>1 DEF Follows, CursorAhead
  <2>6. ListInOrder(j)'
    <3> SUFFICES ASSUME pc'[j] = "loop", NEW m \in Messages \ list, received[m] > cursor, ~Cleared(m)',
                        NEW k \in list
                 PROVE  received[k] < received[m]
      BY <1>4, <2>1, <2>2 DEF ListInOrder, Listed
    <3>1. received[m] > next[j]
      BY <1>1, <1>2, <1>5, <2>1 DEF Follows, CursorAhead
    <3>2. overlooked' = overlooked \cup Unseen(next[j], list)
      BY <1>1, <1>8, <2>1 DEF Reads, Take, TypeOK
    <3>3. m \notin overlooked' /\ ~SharesSecond(m)'
      BY DEF Cleared
    <3>4. k \in Messages /\ k # m
      BY <1>2
    <3>5. ~(received[m] < received[k])
      BY <3>1, <3>2, <3>3 DEF Unseen
    <3>6. received[k] # received[m]
      BY <1>4, <3>3, <3>4 DEF SharesSecond
    <3> QED
      BY <1>2, <3>4, <3>5, <3>6
  <2> QED
    BY <2>4, <2>5, <2>6 DEF Follows
<1>9. ASSUME pc'[j] = "persist", pc[j] # "idle", UNCHANGED <<cursor, batch, next>> PROVE Follows(j)'
  <2>1. Open(j)' \subseteq Open(j) /\ ~Listed(j)' /\ ~Holding(j)'
    BY <1>9 DEF Open, Held, Listed, Holding
  <2> QED
    BY <1>1, <1>2, <1>4, <1>5, <1>9, <2>1
       DEF Follows, ListHasArrived, CursorAhead, ListInOrder, HoldsEarliest
<1>10. ASSUME NEW m \in Messages, ClaimMessage(j, m) PROVE Follows(j)'
  <2>1. pc'[j] = "send" /\ current'[j] = m /\ UNCHANGED <<cursor, next>>
    BY <1>1, <1>3, <1>10 DEF ClaimMessage, TypeOK
  <2>2. /\ pc[j] = "loop" /\ m \in batch[j] /\ batch'[j] = batch[j] \ {m}
        /\ \A k \in batch[j] : received[m] <= received[k]
    BY <1>1, <1>10, LooksAtFirst DEF ClaimMessage
  <2>3. Open(j) = batch[j] /\ Open(j)' = batch[j]
    BY <2>1, <2>2 DEF Open, Held
  <2>4. ListHasArrived(j)' /\ HoldsEarliest(j)'
    BY <1>1, <1>4, <2>1, <2>2, <2>3 DEF Follows, ListHasArrived, HoldsEarliest
  <2>5. CursorAhead(j)'
    BY <1>1, <1>2, <1>4, <1>5, <2>1, <2>2 DEF Follows, CursorAhead
  <2>6. ListInOrder(j)'
    BY <1>1, <1>2, <1>4, <1>5, <2>1, <2>2, <2>3 DEF Follows, ListInOrder, Listed
  <2> QED
    BY <2>4, <2>5, <2>6 DEF Follows
<1>11. ASSUME NEW m \in Messages, PassMessage(j, m) PROVE Follows(j)'
  <2>1. UNCHANGED <<cursor, pc, current>>
    BY <1>11 DEF PassMessage
  <2>2. /\ pc[j] = "loop" /\ m \in batch[j] /\ batch'[j] = batch[j] \ {m}
        /\ \A k \in batch[j] : received[m] <= received[k]
    BY <1>1, <1>11, LooksAtFirst DEF PassMessage
  <2>3. Open(j) = batch[j] /\ Open(j)' = batch[j] \ {m} /\ ~Holding(j)'
    BY <2>1, <2>2 DEF Open, Held, Holding
  <2>4. received[m] # 0 /\ ListHasArrived(j)' /\ HoldsEarliest(j)'
    BY <1>1, <1>4, <2>1, <2>2, <2>3 DEF Follows, ListHasArrived, HoldsEarliest
  <2>5. Cleared(m)' /\ next'[j] \in {next[j], received[m]}
    <3>1. CASE status[m] = "sent"
      <4>1. Cleared(m)
        BY <1>1, <3>1 DEF MarksAreTrue, SentRowIsTrue, Cleared
      <4>2. next'[j] = Later(next[j], received[m])
        BY <1>1, <1>11, <3>1 DEF PassMessage, TypeOK
      <4> QED
        BY <1>2, <1>5, <2>4, <4>1, <4>2, Bounds
    <3>2. CASE status[m] # "sent"
      BY <1>11, <3>2 DEF PassMessage, Cleared
    <3> QED
      BY <3>1, <3>2
  <2>6. ASSUME NEW k \in Messages, received[k] > cursor, received[k] <= received[m] PROVE Cleared(k)'
    <3>1. CASE k = m
      BY <2>5, <3>1
    <3>2. CASE k # m /\ k \in batch[j]
      <4>1. received[k] = received[m]
        BY <1>2, <2>2, <2>6, <3>2
      <4> QED
        BY <1>4, <3>2, <4>1 DEF Cleared, SharesSecond
    <3>3. CASE k \notin batch[j]
      <4>1. Cleared(k) \/ received[m] < received[k]
        BY <1>1, <2>2, <2>3, <2>6, <3>3 DEF Follows, ListInOrder, Listed
      <4> QED
        BY <1>2, <1>5, <2>6, <4>1
    <3> QED
      BY <3>1, <3>2, <3>3
  <2>7. CursorAhead(j)'
    BY <1>1, <1>2, <1>4, <1>5, <2>1, <2>2, <2>5, <2>6 DEF Follows, CursorAhead
  <2>8. ListInOrder(j)'
    BY <1>1, <1>2, <1>4, <1>5, <2>1, <2>2, <2>3, <2>5 DEF Follows, ListInOrder, Listed
  <2> QED
    BY <2>4, <2>7, <2>8 DEF Follows
<1>12. CASE Send(j) \/ SendRefused(j) \/ AnswerLost(j)
  <2>1. /\ pc[j] = "send" /\ pc'[j] \in {"mark", "refused"}
        /\ UNCHANGED <<cursor, next, batch, current>>
    BY <1>3, <1>12 DEF Send, SendRefused, AnswerLost
  <2>2. Open(j)' = Open(j) /\ Listed(j) /\ Holding(j)
    BY <2>1 DEF Open, Held, Listed, Holding
  <2>3. ListHasArrived(j)' /\ HoldsEarliest(j)'
    BY <1>1, <1>4, <2>1, <2>2 DEF Follows, ListHasArrived, HoldsEarliest
  <2>4. CursorAhead(j)' /\ ListInOrder(j)'
    BY <1>1, <1>2, <1>4, <1>5, <2>1, <2>2 DEF Follows, CursorAhead, ListInOrder
  <2> QED
    BY <2>3, <2>4 DEF Follows
<1>13. ASSUME pc[j] = "mark", CountSent(j), UNCHANGED <<cursor, batch>> PROVE Follows(j)'
  <2> PICK c \in Messages : c = current[j]
    BY <1>1, <1>13 DEF HoldersCanSend, Holding
  <2>1. pc'[j] = "loop" /\ next'[j] = Later(next[j], received[c])
    BY <1>1, <1>3, <1>13 DEF CountSent, TypeOK
  <2>2. Holding(j) /\ Listed(j) /\ c \in Messages /\ c \in Open(j) /\ ~Holding(j)'
    BY <1>1, <1>13, <2>1 DEF Holding, Listed, Open, Held, HoldersCanSend
  <2>3. Open(j)' = batch[j] /\ Open(j) = batch[j] \cup {c}
    BY <1>13, <2>1 DEF Open, Held
  <2>4. received[c] # 0 /\ ListHasArrived(j)' /\ HoldsEarliest(j)'
    BY <1>1, <1>4, <1>13, <2>1, <2>2, <2>3 DEF Follows, ListHasArrived, HoldsEarliest
  <2>5. Cleared(c)' /\ next'[j] \in {next[j], received[c]}
    <3>1. Cleared(c)
      BY <1>1, <1>13 DEF MarksAreTrue, Cleared
    <3> QED
      BY <1>2, <1>5, <2>1, <2>2, <2>4, <3>1, Bounds
  <2>6. ASSUME NEW k \in Messages, received[k] > cursor, received[k] <= received[c] PROVE Cleared(k)'
    <3>1. CASE k = c
      BY <2>5, <3>1
    <3>2. CASE k # c /\ k \in batch[j]
      <4>1. received[k] = received[c]
        BY <1>1, <1>2, <2>2, <2>6, <3>2 DEF Follows, HoldsEarliest
      <4> QED
        BY <1>4, <2>2, <3>2, <4>1 DEF Cleared, SharesSecond
    <3>3. CASE k \notin Open(j)
      <4>1. Cleared(k) \/ received[c] < received[k]
        BY <1>1, <2>2, <2>6, <3>3 DEF Follows, ListInOrder
      <4> QED
        BY <1>2, <1>5, <2>2, <2>6, <4>1
    <3> QED
      BY <2>3, <3>1, <3>2, <3>3
  <2>7. CursorAhead(j)'
    BY <1>1, <1>2, <1>4, <1>5, <1>13, <2>2, <2>5, <2>6 DEF Follows, CursorAhead
  <2>8. ListInOrder(j)'
    BY <1>1, <1>2, <1>4, <1>5, <1>13, <2>2, <2>3, <2>5 DEF Follows, ListInOrder
  <2> QED
    BY <2>4, <2>7, <2>8 DEF Follows
<1>14. CASE LeaveLoop(j) \/ MarkFailed(j)
  BY <1>3, <1>9, <1>14 DEF LeaveLoop, MarkFailed
<1>15. CASE MarkSent(j)
  <2>1. CASE GiveBack(j)
    BY <1>3, <1>9, <1>15, <2>1 DEF MarkSent, GiveBack
  <2>2. CASE CountSent(j)
    <3>1. UNCHANGED <<mailVars, batch, overlooked>>
      BY <1>15 DEF MarkSent
    <3>2. pc[j] = "mark"
      BY <1>15 DEF MarkSent
    <3> QED
      BY <1>13, <1>15, <2>2, <3>1, <3>2 DEF MarkSent
  <2> QED
    BY <1>15, <2>1, <2>2 DEF MarkSent
<1> QED
  BY <1>6, <1>7, <1>8, <1>10, <1>11, <1>12, <1>14, <1>15, MovesAre DEF Acts

LEMMA CursorInvInit == Init => CursorInv
<1> SUFFICES ASSUME Init PROVE CursorInv
  OBVIOUS
<1>1. IInv
  BY InvInit
<1>2. /\ \A j \in Jobs : pc[j] = "idle" /\ batch[j] = {}
      /\ \A m \in Messages : received[m] = 0
  BY DEF Init
<1> QED
  BY <1>1, <1>2 DEF CursorInv, CursorComesFirst, ArrivesOnce, Follows, ListHasArrived, CursorAhead,
                    ListInOrder, HoldsEarliest, Listed, Holding

\* A cursor that is set stays set, and a job that begins has seen it set.
LEMMA CursorFirstStep ==
    ASSUME IInv, CursorComesFirst, [Next]_vars
    PROVE  CursorComesFirst'
<1>1. TypeOK /\ cursor \in Nat /\ now \in 1 .. MaxNow /\ \A j \in Jobs : next[j] \in Nat
  BY Numbers DEF IInv, TypeOK
<1>2. now # 0
  BY <1>1, Bounds
<1>3. CASE ResetCursor
  BY <1>2, <1>3 DEF ResetCursor, CursorComesFirst
<1>4. CASE ~ResetCursor /\ cursor' = 0
  <2>1. cursor = 0
    BY <1>1, <1>4, CursorStep
  <2>2. \A j \in Jobs : pc[j] = "idle"
    BY <2>1 DEF CursorComesFirst
  <2>3. ASSUME NEW j \in Jobs, Moves(j) PROVE FALSE
    <3>1. CASE InitCursor(j)
      BY <1>1, <1>4, <3>1, Bounds DEF InitCursor
    <3> QED
      BY <2>1, <2>2, <2>3, <3>1, MovesAre DEF Acts, StartFetch, FetchRaises, EndPass, LeaveLoop, ClaimMessage,
         PassMessage, Looks, Send, SendRefused, AnswerLost, MarkSent, MarkFailed, PersistCursor, Crash,
         Reads, Take
  <2>4. pc' = pc
    BY <1>4, <2>3 DEF Next, Moves, Environment, Tick, Arrive, AttemptAges, vars
  <2> QED
    BY <2>2, <2>4 DEF CursorComesFirst
<1> QED
  BY <1>3, <1>4 DEF CursorComesFirst

LEMMA ArrivesStep ==
    ASSUME TypeOK, ArrivesOnce, [Next]_vars
    PROVE  ArrivesOnce'
<1>1. ASSUME NEW m \in Messages, NEW date \in 1 .. MaxNow, Arrive(m, date) PROVE ArrivesOnce'
  <2>1. /\ arrived'[m] = now /\ now # 0
        /\ \A k \in Messages \ {m} : arrived'[k] = arrived[k] /\ received'[k] = received[k]
    BY <1>1, Bounds DEF Arrive, TypeOK
  <2> QED
    BY <2>1 DEF ArrivesOnce
<1>2. CASE UNCHANGED <<arrived, received>>
  BY <1>2 DEF ArrivesOnce
<1>3. ASSUME NEW j \in Jobs, Moves(j) PROVE UNCHANGED <<arrived, received>>
  <2>1. ASSUME NEW S, Take(j, S) PROVE UNCHANGED <<arrived, received>>
    BY <2>1 DEF Take, mailVars
  <2>2. CASE Acts(j)
    BY <2>2 DEF Acts, InitCursor, StartFetch, FetchRaises, EndPass, LeaveLoop, ClaimMessage, PassMessage, Send,
         SendRefused, AnswerLost, MarkSent, MarkFailed, PersistCursor, Crash, mailVars
  <2> QED
    BY <1>3, <2>1, <2>2, MovesAre DEF Reads
<1> QED
  BY <1>1, <1>2, <1>3
     DEF Next, Moves, Environment, Tick, AttemptAges, ResetCursor, vars, mailVars

\* Whatever happens, each job's list stays in order.
LEMMA FollowsStep ==
    ASSUME CursorInv, [Next]_vars, NEW j \in Jobs
    PROVE  Follows(j)'
<1>1. TypeOK /\ HoldersCanSend /\ Follows(j) /\ CursorComesFirst
  BY DEF CursorInv, IInv
<1>2. /\ cursor \in Nat /\ now \in Nat /\ \A k \in Jobs : next[k] \in Nat
      /\ \A m \in Messages : received[m] \in Nat
  BY <1>1, Numbers
<1>3. ASSUME received' = received, NEW m \in Messages, received[m] > cursor, Cleared(m)
      PROVE  Cleared(m)'
  BY <1>1, <1>2, <1>3, ClearedStays
<1>4. ASSUME received' = received, cursor' >= cursor, cursor' \in Nat,
             pc'[j] = pc[j], batch'[j] = batch[j], current'[j] = current[j], next'[j] = next[j]
      PROVE  Follows(j)'
  <2>1. \A m \in Messages : received[m] > cursor' => received[m] > cursor
    BY <1>2, <1>4
  <2> QED
    BY <1>1, <1>3, <1>4, <2>1, OthersFollow
<1>5. CASE ResetCursor
  <2>1. /\ UNCHANGED <<received, pc, batch, current, next>> /\ cursor' = now
        /\ \A m \in Messages : received[m] # 0 /\ received[m] <= Later(cursor, now) => m \in overlooked'
    BY <1>5 DEF ResetCursor, mailVars, jobVars
  <2>2. ASSUME NEW m \in Messages, received[m] > now PROVE received[m] > cursor \/ Cleared(m)'
    BY <1>2, <2>1, <2>2, Bounds DEF Cleared
  <2> QED
    BY <1>1, <1>3, <2>1, <2>2, OthersFollow
<1>6. CASE Tick \/ (\E m \in Messages : AttemptAges(m)) \/ UNCHANGED vars
  <2>1. UNCHANGED <<received, cursor, pc, batch, current, next>>
    BY <1>6 DEF Tick, AttemptAges, vars, mailVars, jobVars
  <2> QED
    BY <1>2, <1>4, <2>1
<1>7. ASSUME NEW k \in Jobs, Moves(k), k # j PROVE Follows(j)'
  <2>1. pc'[j] = pc[j] /\ batch'[j] = batch[j] /\ current'[j] = current[j] /\ next'[j] = next[j]
    BY <1>1, <1>7, OtherJobs
  <2>2. received' = received
    <3>1. ASSUME NEW S, Take(k, S) PROVE received' = received
      BY <3>1 DEF Take, mailVars
    <3>2. CASE Acts(k)
      BY <3>2 DEF Acts, InitCursor, StartFetch, FetchRaises, EndPass, LeaveLoop, ClaimMessage, PassMessage, Send,
           SendRefused, AnswerLost, MarkSent, MarkFailed, PersistCursor, Crash, mailVars
    <3> QED
      BY <1>7, <3>1, <3>2, MovesAre DEF Reads
  <2>3. ~ResetCursor => cursor' >= cursor
    BY <1>1, CursorStep
  <2>4. cursor' \in Nat
    BY InvStep, Bounds DEF CursorInv, IInv, TypeOK
  <2> QED
    BY <1>4, <1>5, <2>1, <2>2, <2>3, <2>4
<1> QED
  BY <1>5, <1>6, <1>7, ArrivalFollows, OwnStepFollows DEF Next, Moves, Environment

LEMMA CursorInvStep == CursorInv /\ [Next]_vars => CursorInv'
<1> SUFFICES ASSUME CursorInv, [Next]_vars PROVE CursorInv'
  OBVIOUS
<1>1. IInv' /\ CursorComesFirst' /\ ArrivesOnce'
  BY InvStep, CursorFirstStep, ArrivesStep DEF CursorInv, IInv
<1> QED
  BY <1>1, FollowsStep DEF CursorInv

\* The step behind NothingSkipped: only a job that is through moves a cursor
\* that is set, and what it passes is cleared.
LEMMA SkipStep ==
    ASSUME CursorInv, [Next]_vars, ~ResetCursor, NEW m \in Messages,
           cursor # 0, received[m] > cursor, received[m] <= cursor'
    PROVE  Cleared(m)
<1>1. TypeOK
  BY DEF CursorInv, IInv
<1>2. cursor \in Nat /\ received[m] \in Nat /\ \A j \in Jobs : next[j] \in Nat
  BY <1>1, Numbers
<1>3. cursor' # cursor
  BY <1>2
<1>4. PICK j \in Jobs : PersistCursor(j)
  <2>1. PICK j \in Jobs : Moves(j)
    BY <1>3 DEF Next, Moves, Environment, Tick, Arrive, AttemptAges, vars
  <2> QED
    BY <1>3, <2>1, MovesAre DEF Acts, InitCursor, StartFetch, FetchRaises, EndPass, LeaveLoop, ClaimMessage,
       PassMessage, Send, SendRefused, AnswerLost, MarkSent, MarkFailed, Crash, Reads, Take
<1>5. cursor' = Later(cursor, next[j]) /\ pc[j] = "persist"
  BY <1>4 DEF PersistCursor, EndPass
<1>6. received[m] <= next[j]
  BY <1>2, <1>3, <1>5, Bounds
<1>7. CursorAhead(j)
  BY DEF CursorInv, Follows
<1> QED
  BY <1>5, <1>6, <1>7 DEF CursorAhead

\* However many jobs overlap, fail and crash, whatever dates mail carries and
\* whichever folders answer, the cursor passes a message that has not gone out
\* only for a reason the code has: no pass had it in its list, or another job
\* had it in hand, or notification was switched on again, or another message
\* carries the same second.
THEOREM NothingIsSkipped == Spec => NothingSkipped
<1>1. CursorInv /\ [Next]_vars =>
        [\A m \in Messages :
            cursor # 0 /\ received[m] > cursor /\ received[m] <= cursor' /\ ~ResetCursor
              => sends[m] > 0 \/ m \in overlooked \/ SharesSecond(m)]_vars
  BY SkipStep DEF Cleared
<1> QED
  BY <1>1, CursorInvInit, CursorInvStep, PTL DEF Spec, NothingSkipped
=============================================================================

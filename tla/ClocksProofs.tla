---------------------------- MODULE ClocksProofs ----------------------------
(***************************************************************************)
(* Proofs about the parts that wait for time.  About TempMail, for any     *)
(* addresses, consumers, threads, messages and bounds: who is given the    *)
(* mail of a task mailbox, what stays deleted, and what becomes of a       *)
(* probe.  About PoolCooldown, for any length of the day, of the cooldown  *)
(* and of the gap between edits: a mailbox does not come back too early,   *)
(* although the job compares dates and times as texts of two forms.  And   *)
(* that both run in MCClocks as they do on their own.                      *)
(***************************************************************************)
EXTENDS MCClocks, FiniteSetTheorems, TLAPS

-----------------------------------------------------------------------------
(* The inductive invariant, part by part.                                  *)

Reading(r) == r.phase \in {"reading", "fetched"}

\* Message m has arrived at address a.
Came(m, a) == mail[m].at # 0 /\ mail[m].to = a

\* Mail is where it arrived, at the provider and in the store; a message that
\* has not arrived is nobody's.
MailInPlace ==
    /\ \A m \in Mail : IF mail[m].at = 0 THEN mail[m].owner = Nobody /\ ~mail[m].late
                                         ELSE mail[m].to \in Addresses
    /\ \A a \in Addresses : \A m \in upstream[a] \cup cache[a] : Came(m, a)

\* A task's message belongs to the consumer whose mailbox has the address, and
\* what came too late came to a finished mailbox: until the mailbox is deleted.
OwnersHold ==
    \A m \in Mail :
        /\ mail[m].owner # Nobody => /\ box[mail[m].to].type = "task"
                                     /\ box[mail[m].to].owner = mail[m].owner
        /\ mail[m].late => box[mail[m].to].status = "finished"

\* A request is about an address.
Addressed(r) == r.op # "idle" => r.addr \in Addresses

\* What a request has found is the mail of its address.
FoundInPlace(r) == \A m \in r.found : Came(m, r.addr)

\* What it deletes as well, and the provider has it no more.
DeletesInPlace(r) ==
    r.op \in {"delete", "clear"} =>
        \A m \in r.wanted : Came(m, r.addr) /\ m \notin upstream[r.addr]

\* A consumer whose read is under way may still read, unless the mailbox was
\* finished or deleted in between.
StillAdmitted(r) ==
    Reading(r) => /\ r.addr \in Addresses
                  /\ r.who \in Consumers /\ ~r.excused => MayRead(box[r.addr], r.who)

\* The answer that is on its way to the consumer.
AnswerIsHis(r) ==
    r.phase = "answered" /\ ~r.excused =>
        \A m \in r.found : mail[m].owner \in {r.who, Nobody} /\ ~mail[m].late

\* A probe that was created is about an address.  What the job has loaded, and
\* the probe it is polling, which is no longer in the batch, may have been
\* cancelled since but has no other outcome.
ProbesInPlace ==
    /\ \A p \in Probes : probe[p].status \notin {"none", "removed"} => probe[p].addr \in Addresses
    /\ \A p \in batch : probe[p].status \in {"pending", "cancelled"}
    /\ req[PollJob].op = "poll" =>
          /\ req[PollJob].probe \in Probes \ batch
          /\ probe[req[PollJob].probe].status \in {"pending", "cancelled"}

\* A deleted message is neither stored nor at the provider nor on its way.
GoneForGood ==
    /\ \A m \in gone : mail[m].at # 0
    /\ \A a \in Addresses : gone \cap cache[a] = {} /\ gone \cap upstream[a] = {}
NotGone(r) == r.phase = "fetched" => r.found \cap gone = {}

InOrder(r) ==
    /\ Addressed(r) /\ FoundInPlace(r) /\ DeletesInPlace(r)
    /\ StillAdmitted(r) /\ AnswerIsHis(r) /\ NotGone(r)

IInv == /\ TempMailTypeOK
        /\ MailInPlace
        /\ OwnersHold
        /\ GoneForGood
        /\ ProbesInPlace
        /\ \A w \in Threads : InOrder(req[w])

-----------------------------------------------------------------------------
(* Types.                                                                  *)

LEMMA Constants ==
    /\ MaxMail \in Nat /\ MaxBoxes \in Nat /\ MaxProbes \in Nat /\ MaxRequests \in Nat
    /\ MaxClock \in Nat \ {0} /\ PollLimit \in Nat \ {0}
    /\ Applicants \subseteq Consumers /\ Providers \subseteq BOOLEAN
    /\ Admin \notin Consumers /\ Nobody \notin Consumers /\ Admin # Nobody
    /\ MailThreads \subseteq Threads /\ PollJob \in Threads /\ PollJob \notin MailThreads
BY TempMailAssumption DEF TempMailAssumption, Threads

\* Each field of a request has its type, and is what the step says.
LEMMA RequestFields ==
    ASSUME TempMailTypeOK, NEW w \in Threads
    PROVE  /\ req[w] \in Requests
           /\ req[w].addr \in Addresses \cup {"none"} /\ req[w].who \in Consumers \cup {Admin, Nobody}
           /\ req[w].box \in Boxes /\ req[w].wanted \in SUBSET Mail /\ req[w].found \in SUBSET Mail
           /\ req[w].base \in 0 .. MaxClock /\ req[w].probe \in 0 .. MaxProbes
           /\ req[w].excused \in BOOLEAN
BY DEF TempMailTypeOK, Requests

LEMMA IdleType == NoBox \in Boxes /\ Idle \in Requests
<1>1. 0 \in 0 .. MaxBoxes /\ 0 \in 0 .. MaxClock /\ 0 \in 0 .. MaxProbes
  BY Constants
<1>2. NoBox \in Boxes
  BY <1>1 DEF NoBox, Boxes
<1> QED
  BY <1>1, <1>2 DEF Idle, Requests

LEMMA TypeInit == TempMailInit => TempMailTypeOK
<1> SUFFICES ASSUME TempMailInit PROVE TempMailTypeOK
  OBVIOUS
<1>1. 0 \in 0 .. MaxBoxes /\ 0 \in 0 .. MaxClock /\ 0 \in 0 .. MaxProbes /\ 1 \in 1 .. MaxClock
      /\ 0 \in 0 .. MaxRequests
  BY Constants
<1>2. box \in [Addresses -> Boxes] /\ req \in [Threads -> Requests]
  BY IdleType DEF TempMailInit
<1>3. /\ mail \in [Mail -> [at : 0 .. MaxClock, to : Addresses \cup {"none"},
                            owner : Consumers \cup {Nobody}, late : BOOLEAN]]
      /\ probe \in [Probes -> [status : {"none", "pending", "removed"} \cup Outcomes,
                               addr : Addresses \cup {"none"}, base : 0 .. MaxClock,
                               elapsed : BOOLEAN]]
  BY <1>1 DEF TempMailInit, NoProbe
<1> QED
  BY <1>1, <1>2, <1>3 DEF TempMailInit, TempMailTypeOK

\* A step of a thread that turns its request into r: it may delete at the
\* provider, and store what the request had fetched.
Serves(w, r) ==
    /\ r \in Requests
    /\ req' = [req EXCEPT ![w] = r]
    /\ UNCHANGED <<box, recorded, shadowed, mail, gone>>
    /\ upstream' \in [Addresses -> SUBSET Mail]
    /\ \A a \in Addresses : upstream'[a] \subseteq upstream[a]
    /\ cache' \in [Addresses -> SUBSET Mail]
    /\ \A a \in Addresses : \A m \in cache'[a] :
          m \in cache[a] \/ (req[w].phase = "fetched" /\ req[w].addr = a /\ m \in req[w].found)

\* r is in order once the step is done.
Fits(r) ==
    /\ Addressed(r) /\ FoundInPlace(r) /\ StillAdmitted(r) /\ AnswerIsHis(r) /\ NotGone(r)
    /\ r.op \in {"delete", "clear"} =>
          \A m \in r.wanted : Came(m, r.addr) /\ m \notin upstream'[r.addr]

\* A step that only serves keeps everything in order.
LEMMA ServeStep ==
    ASSUME IInv, NEW w \in Threads, NEW r \in Requests, Serves(w, r), Fits(r)
    PROVE  MailInPlace' /\ OwnersHold' /\ GoneForGood' /\ \A v \in Threads : InOrder(req[v])'
<1> USE DEF IInv, Serves
<1>1. \A a \in Addresses : \A m \in cache'[a] :
         m \in cache[a] \/ (req[w].phase = "fetched" /\ req[w].addr = a /\ Came(m, a) /\ m \notin gone)
  BY DEF InOrder, FoundInPlace, NotGone
<1>2. MailInPlace'
  BY <1>1 DEF MailInPlace, Came
<1>3. OwnersHold'
  BY DEF OwnersHold
<1>4. GoneForGood'
  BY <1>1 DEF GoneForGood
<1>5. req'[w] = r /\ \A v \in Threads \ {w} : req'[v] = req[v]
  BY DEF TempMailTypeOK
<1>6. ASSUME NEW v \in Threads PROVE InOrder(req[v])'
  <2>1. CASE v = w
    BY <1>5, <2>1 DEF Fits, InOrder, Addressed, FoundInPlace, StillAdmitted, AnswerIsHis, NotGone,
                      DeletesInPlace,
                      Came, Reading
  <2>2. CASE v # w
    <3>1. InOrder(req[v]) /\ req'[v] = req[v]
      BY <1>5, <2>2
    <3> QED
      BY <3>1 DEF InOrder, Addressed, FoundInPlace, StillAdmitted, AnswerIsHis, NotGone, DeletesInPlace,
                  Came, Reading
  <2> QED
    BY <2>1, <2>2
<1> QED
  BY <1>2, <1>3, <1>4, <1>6

\* A thread that is free again has nothing that could be out of order.
LEMMA IdleFits == Fits(Idle)
BY DEF Fits, Idle, Addressed, FoundInPlace, StillAdmitted, AnswerIsHis, NotGone, Reading

\* Making a mailbox, deleting one, and finishing a task begin.
LEMMA ShapeBegin ==
    ASSUME IInv, NEW w \in Threads, NEW a \in Addresses,
           \/ Generate(w, a) \/ Import(w, a) \/ DropAtProvider(w, a)
           \/ \E c \in Consumers : ApplyTask(w, c, a) \/ StartFinish(w, c, a)
    PROVE  \E r \in Requests : Serves(w, r) /\ Fits(r)
<1> USE DEF storeVars
<1>1. TempMailTypeOK /\ Idle \in Requests
  BY IdleType DEF IInv
<1>2. ASSUME NEW op \in {"create", "drop", "finish"}, NEW phase \in {"created", "remote", "checked"},
             NEW who \in Consumers \cup {Admin}, NEW b \in Boxes,
             Take(w, [Idle EXCEPT !.op = op, !.phase = phase, !.who = who, !.addr = a, !.box = b]),
             UNCHANGED <<box, recorded, shadowed, mail, gone, cache>>,
             upstream' \in [Addresses -> SUBSET Mail], \A x \in Addresses : upstream'[x] \subseteq upstream[x]
      PROVE  \E r \in Requests : Serves(w, r) /\ Fits(r)
  <2> DEFINE r == [Idle EXCEPT !.op = op, !.phase = phase, !.who = who, !.addr = a, !.box = b]
  <2>1. r \in Requests
    BY <1>1 DEF Requests
  <2>2. Serves(w, r)
    BY <1>1, <1>2, <2>1 DEF Take, Serves, TempMailTypeOK
  <2>3. r.op = op /\ r.phase = phase /\ r.found = {} /\ r.addr = a
    BY DEF Idle
  <2>4. Fits(r)
    BY <2>3 DEF Fits, Addressed, FoundInPlace, StillAdmitted, AnswerIsHis, NotGone, Reading
  <2> QED
    BY <2>1, <2>2, <2>4
<1>3. ASSUME NEW who \in Consumers \cup {Admin}, NEW b \in Boxes, CreateAtProvider(w, who, a, b)
      PROVE  \E r \in Requests : Serves(w, r) /\ Fits(r)
  BY <1>1, <1>2, <1>3 DEF CreateAtProvider, Begin, TempMailTypeOK
<1>4. \A who \in Consumers \cup {Admin}, type \in {"user", "task"}, deletes \in BOOLEAN :
         (type = "task" => who \in Consumers) => NewBox(who, type, deletes) \in Boxes
  BY Constants DEF NewBox, Boxes
<1>5. CASE Generate(w, a) \/ Import(w, a) \/ \E c \in Consumers : ApplyTask(w, c, a)
  <2>1. PICK who \in Consumers \cup {Admin}, type \in {"user", "task"}, deletes \in BOOLEAN :
           (type = "task" => who \in Consumers) /\ CreateAtProvider(w, who, a, NewBox(who, type, deletes))
    BY <1>5, Constants DEF Generate, Import, ApplyTask
  <2> QED
    BY <1>3, <1>4, <2>1
<1>6. CASE DropAtProvider(w, a)
  <2> DEFINE r == [Idle EXCEPT !.op = "drop", !.phase = "remote", !.who = Admin, !.addr = a]
  <2>1. r \in Requests /\ Take(w, r)
    BY <1>1, <1>6 DEF Requests, DropAtProvider
  <2>2. /\ UNCHANGED <<box, recorded, shadowed, mail, gone, cache>>
        /\ upstream' \in [Addresses -> SUBSET Mail]
        /\ \A x \in Addresses : upstream'[x] \subseteq upstream[x]
    BY <1>1, <1>6 DEF DropAtProvider, TempMailTypeOK
  <2>3. Serves(w, r)
    BY <1>1, <2>1, <2>2 DEF Take, Serves, TempMailTypeOK
  <2>4. r.op = "drop" /\ r.phase = "remote" /\ r.found = {} /\ r.addr = a
    BY DEF Idle
  <2>5. Fits(r)
    BY <2>4 DEF Fits, Addressed, FoundInPlace, StillAdmitted, AnswerIsHis, NotGone, Reading
  <2> QED
    BY <2>1, <2>3, <2>5
<1>7. ASSUME NEW c \in Consumers, StartFinish(w, c, a)
      PROVE  \E r \in Requests : Serves(w, r) /\ Fits(r)
  <2>1. box[a] \in Boxes
    BY <1>1 DEF TempMailTypeOK
  <2> QED
    BY <1>1, <1>2, <1>7, <2>1 DEF StartFinish, Begin, TempMailTypeOK
<1> QED
  BY <1>5, <1>6, <1>7

\* Reads begin, for the administrator or for a consumer who may read.
LEMMA ShapeRead ==
    ASSUME IInv, NEW w \in Threads, NEW a \in Addresses,
           \/ \E who \in Consumers \cup {Admin} :
                 StartList(w, who, a) \/ \E m \in Mail : StartDetail(w, who, a, m)
           \/ \E c \in Consumers : StartWait(w, c, a)
    PROVE  \E r \in Requests : Serves(w, r) /\ Fits(r)
<1> USE DEF storeVars
<1>1. TempMailTypeOK /\ Idle \in Requests
  BY IdleType DEF IInv
<1>2. PICK op \in {"list", "wait"}, who \in Consumers \cup {Admin}, wanted \in SUBSET Mail,
           base \in 0 .. MaxClock : StartRead(w, op, who, a, wanted, base)
  <2>1. 0 \in 0 .. MaxClock /\ clock \in 0 .. MaxClock
    BY <1>1, Constants DEF TempMailTypeOK
  <2> QED
    BY <2>1 DEF StartList, StartDetail, StartWait
<1> DEFINE r == [Idle EXCEPT !.op = op, !.phase = "reading", !.who = who, !.addr = a,
                             !.wanted = wanted, !.base = base]
<1>3. r \in Requests
  BY <1>1 DEF Requests
<1>4. Serves(w, r)
  BY <1>1, <1>2, <1>3 DEF StartRead, Begin, Take, Serves, TempMailTypeOK
<1>5. r.op = op /\ r.phase = "reading" /\ r.found = {} /\ r.addr = a /\ r.who = who
  BY DEF Idle
<1>6. who \in Consumers => MayRead(box[a], who)
  BY <1>2 DEF StartRead, Admitted
<1>7. Fits(r)
  BY <1>5, <1>6 DEF Fits, Addressed, FoundInPlace, StillAdmitted, AnswerIsHis, NotGone, Reading
<1> QED
  BY <1>3, <1>4, <1>7

\* A consumer who may read is given the mail of his mailbox, or nobody's.
LEMMA GivenToHim ==
    ASSUME MailInPlace, OwnersHold, NEW a \in Addresses, NEW who, MayRead(box[a], who),
           NEW m \in Mail, Came(m, a)
    PROVE  mail[m].owner \in {who, Nobody} /\ ~mail[m].late
BY DEF OwnersHold, MayRead, Came

\* The provider deletes, and the rows are still to go.
LEMMA ShapeDelete ==
    ASSUME IInv, NEW w \in Threads, NEW a \in Addresses,
           ClearMessages(w, a) \/ \E m \in Mail : DeleteMessage(w, a, m)
    PROVE  \E r \in Requests : Serves(w, r) /\ Fits(r)
<1> USE DEF storeVars
<1>1. TempMailTypeOK /\ MailInPlace /\ Idle \in Requests
  BY IdleType DEF IInv
<1>2. PICK op \in {"delete", "clear"}, ms \in SUBSET Mail :
         DeleteAtProvider(w, op, a, ms) /\ ms \subseteq upstream[a] \cup cache[a]
  <2>1. upstream[a] \in SUBSET Mail /\ \A m \in Mail : {m} \in SUBSET Mail
    BY <1>1 DEF TempMailTypeOK
  <2>2. CASE ClearMessages(w, a)
    BY <2>1, <2>2 DEF ClearMessages
  <2>3. ASSUME NEW m \in Mail, DeleteMessage(w, a, m)
        PROVE  DeleteAtProvider(w, "delete", a, {m}) /\ {m} \subseteq upstream[a] \cup cache[a]
    BY <2>3 DEF DeleteMessage
  <2> QED
    BY <2>1, <2>2, <2>3
<1> DEFINE r == [Idle EXCEPT !.op = op, !.phase = "remote", !.who = Admin, !.addr = a, !.wanted = ms]
<1>3. r \in Requests
  BY <1>1 DEF Requests
<1>4. /\ upstream' \in [Addresses -> SUBSET Mail] /\ upstream'[a] = upstream[a] \ ms
      /\ \A x \in Addresses : upstream'[x] \subseteq upstream[x]
  BY <1>1, <1>2 DEF DeleteAtProvider, TempMailTypeOK
<1>5. Serves(w, r)
  BY <1>1, <1>2, <1>3, <1>4 DEF DeleteAtProvider, Begin, Take, Serves, TempMailTypeOK
<1>6. r.op = op /\ r.phase = "remote" /\ r.found = {} /\ r.addr = a /\ r.wanted = ms
  BY DEF Idle
<1>7. Fits(r)
  BY <1>1, <1>2, <1>4, <1>6 DEF Fits, Addressed, FoundInPlace, StillAdmitted, AnswerIsHis, NotGone, Reading,
                                MailInPlace
<1> QED
  BY <1>3, <1>5, <1>7

\* The provider is asked.
LEMMA ShapeFetch ==
    ASSUME IInv, NEW w \in Threads, Fetch(w)
    PROVE  \E r \in Requests : Serves(w, r) /\ Fits(r)
<1> USE DEF storeVars
<1>1. TempMailTypeOK /\ req[w] \in Requests /\ InOrder(req[w]) /\ req[w].phase = "reading"
      /\ req[w].addr \in Addresses
  BY RequestFields DEF IInv, Fetch, InOrder, StillAdmitted, Reading
<1> DEFINE found == FromProvider(w)
           r == [req[w] EXCEPT !.phase = "fetched", !.found = found]
<1>2. found \in SUBSET Mail /\ found \subseteq upstream[req[w].addr]
  BY <1>1 DEF FromProvider, TempMailTypeOK
<1>3. r \in Requests
  BY <1>1, <1>2 DEF Requests
<1>4. Serves(w, r)
  BY <1>1, <1>3 DEF Fetch, Goto, Serves, TempMailTypeOK
<1>5. /\ r.op = req[w].op /\ r.phase = "fetched" /\ r.found = found /\ r.addr = req[w].addr
      /\ r.who = req[w].who /\ r.excused = req[w].excused /\ r.wanted = req[w].wanted
  BY <1>1 DEF Requests
<1>6. FoundInPlace(r) /\ NotGone(r)
  BY <1>1, <1>2, <1>5 DEF IInv, MailInPlace, GoneForGood, FoundInPlace, NotGone
<1>7. StillAdmitted(r) /\ AnswerIsHis(r)
  BY <1>1, <1>5 DEF InOrder, StillAdmitted, AnswerIsHis, Reading
<1>8. upstream' = upstream
  BY DEF Fetch
<1> HIDE DEF r
<1>9. Fits(r)
  BY <1>1, <1>5, <1>6, <1>7, <1>8 DEF Fits, InOrder, Addressed, DeletesInPlace
<1> QED
  BY <1>3, <1>4, <1>9

\* A request ends: nothing is left that could be out of order.
LEMMA ShapeEnd ==
    ASSUME IInv, NEW w \in Threads,
           Ends(w), UNCHANGED <<box, recorded, shadowed, mail, gone, upstream, cache>>
    PROVE  \E r \in Requests : Serves(w, r) /\ Fits(r)
BY IdleType, IdleFits DEF IInv, Ends, Goto, Serves, TempMailTypeOK

\* What is stored is what the request had fetched.
LEMMA StoreType ==
    ASSUME TempMailTypeOK, NEW w \in Threads, req[w].phase = "fetched", req[w].addr \in Addresses,
           Store(req[w].addr, req[w].found)
    PROVE  /\ cache' \in [Addresses -> SUBSET Mail]
           /\ \A a \in Addresses : \A m \in cache'[a] :
                 m \in cache[a] \/ (req[w].phase = "fetched" /\ req[w].addr = a /\ m \in req[w].found)
<1>1. cache \in [Addresses -> SUBSET Mail] /\ req[w].found \in SUBSET Mail
  BY RequestFields DEF TempMailTypeOK
<1>2. \/ cache' = cache
      \/ cache' = [cache EXCEPT ![req[w].addr] = cache[req[w].addr] \cup req[w].found]
  BY <1>1 DEF Store
<1> QED
  BY <1>1, <1>2

\* A list and a wait are answered from the store, or the wait goes on.
LEMMA ShapeAnswer ==
    ASSUME IInv, NEW w \in Threads, AnswerList(w) \/ AnswerWait(w)
    PROVE  \E r \in Requests : Serves(w, r) /\ Fits(r)
<1> DEFINE q == req[w]
<1>1. /\ TempMailTypeOK /\ q \in Requests /\ InOrder(q) /\ q.phase = "fetched" /\ q.addr \in Addresses
      /\ q.op \in {"list", "wait"}
  BY RequestFields DEF IInv, AnswerList, AnswerWait, InPhase, InOrder, StillAdmitted, Reading
<1>2. /\ UNCHANGED <<box, recorded, shadowed, mail, gone, upstream>>
      /\ Store(q.addr, q.found)
  BY DEF AnswerList, AnswerWait
<1>3. /\ cache' \in [Addresses -> SUBSET Mail]
      /\ \A a \in Addresses : \A m \in cache'[a] :
            m \in cache[a] \/ (q.phase = "fetched" /\ q.addr = a /\ m \in q.found)
  BY <1>1, <1>2, StoreType
<1>4. \A m \in cache'[q.addr] : Came(m, q.addr)
  BY <1>1, <1>3 DEF IInv, MailInPlace, InOrder, FoundInPlace
<1>5. ASSUME NEW r \in Requests, Goto(w, r)
      PROVE  Serves(w, r)
  BY <1>1, <1>2, <1>3, <1>5 DEF Goto, Serves, TempMailTypeOK
<1>6. CASE Ends(w)
  <2>1. Serves(w, Idle)
    BY <1>5, <1>6, IdleType DEF Ends
  <2> QED
    BY <2>1, IdleType, IdleFits
<1>7. ASSUME NEW found, found \subseteq cache'[q.addr], q.who \in Consumers,
             Goto(w, [q EXCEPT !.phase = "answered", !.found = found])
      PROVE  \E r \in Requests : Serves(w, r) /\ Fits(r)
  <2> DEFINE r == [q EXCEPT !.phase = "answered", !.found = found]
  <2>1. found \in SUBSET Mail /\ \A m \in found : Came(m, q.addr)
    BY <1>1, <1>3, <1>4, <1>7
  <2>2. r \in Requests /\ Goto(w, r)
    BY <1>1, <1>7, <2>1 DEF Requests
  <2>3. /\ r.op = q.op /\ r.phase = "answered" /\ r.found = found /\ r.addr = q.addr
        /\ r.who = q.who /\ r.excused = q.excused
    BY <1>1 DEF Requests
  <2>4. ~q.excused => MayRead(box[q.addr], q.who)
    BY <1>1, <1>7 DEF InOrder, StillAdmitted, Reading
  <2>5. ~q.excused => \A m \in found : mail[m].owner \in {q.who, Nobody} /\ ~mail[m].late
    BY <1>1, <2>1, <2>4, GivenToHim DEF IInv
  <2> HIDE DEF r, q
  <2>6. Fits(r)
    BY <1>1, <2>1, <2>3, <2>5 DEF Fits, Addressed, FoundInPlace, StillAdmitted, AnswerIsHis, NotGone, Reading
  <2> QED
    BY <1>5, <2>2, <2>6
<1>8. CASE Goto(w, [q EXCEPT !.phase = "sleeping", !.found = {}, !.excused = FALSE])
  <2> DEFINE r == [q EXCEPT !.phase = "sleeping", !.found = {}, !.excused = FALSE]
  <2>1. r \in Requests /\ r.op = q.op /\ r.phase = "sleeping" /\ r.found = {} /\ r.addr = q.addr
    BY <1>1 DEF Requests
  <2>2. Goto(w, r)
    BY <1>8
  <2> HIDE DEF r, q
  <2>3. Fits(r)
    BY <1>1, <2>1 DEF Fits, Addressed, FoundInPlace, StillAdmitted, AnswerIsHis, NotGone, Reading
  <2> QED
    BY <1>5, <2>1, <2>2, <2>3
<1>9. CASE AnswerList(w)
  BY <1>6, <1>7, <1>9 DEF AnswerList, Answers, Rows
<1>10. CASE AnswerWait(w)
  <2> DEFINE fresh == Newest(Rows(q.addr, q.base))
  <2>1. fresh \subseteq cache'[q.addr]
    BY DEF Newest, Rows
  <2>2. \/ Answers(w, q, fresh) \/ Ends(w)
        \/ Goto(w, [q EXCEPT !.phase = "sleeping", !.found = {}, !.excused = FALSE])
    BY <1>10 DEF AnswerWait
  <2> HIDE DEF fresh, q
  <2> QED
    BY <1>6, <1>7, <1>8, <2>1, <2>2 DEF Answers
<1> QED
  BY <1>9, <1>10

\* A wait polls again, after another check.
LEMMA ShapeWait ==
    ASSUME IInv, NEW w \in Threads, WaitPolls(w)
    PROVE  \E r \in Requests : Serves(w, r) /\ Fits(r)
<1> USE DEF storeVars
<1>1. /\ TempMailTypeOK /\ req[w] \in Requests /\ InOrder(req[w]) /\ req[w].op = "wait"
      /\ req[w].phase = "sleeping" /\ UNCHANGED <<box, recorded, shadowed, mail, gone, upstream, cache>>
  BY RequestFields DEF IInv, WaitPolls, InPhase
<1>2. CASE Ends(w)
  BY <1>1, <1>2, ShapeEnd
<1>3. CASE ~Ends(w)
  <2> DEFINE r == [req[w] EXCEPT !.phase = "reading"]
  <2>1. Goto(w, r) /\ MayRead(box[r.addr], r.who) /\ r.addr \in Addresses
    <3>1. Admitted(req[w].addr, req[w].who) /\ Goto(w, r) /\ req[w].addr \in Addresses
      BY <1>1, <1>3 DEF WaitPolls, InOrder, Addressed
    <3> QED
      BY <1>1, <3>1 DEF Admitted, Requests
  <2>2. /\ r \in Requests /\ r.op = "wait" /\ r.phase = "reading" /\ r.found = req[w].found
        /\ r.addr = req[w].addr
    BY <1>1 DEF Requests
  <2>3. Serves(w, r)
    BY <1>1, <2>1, <2>2 DEF Goto, Serves, TempMailTypeOK
  <2> HIDE DEF r
  <2>4. Fits(r)
    BY <1>1, <2>1, <2>2 DEF Fits, Addressed, FoundInPlace, StillAdmitted, AnswerIsHis, NotGone, Reading, InOrder
  <2> QED
    BY <2>2, <2>3, <2>4
<1> QED
  BY <1>2, <1>3

\* The probe job reads as nobody.
LEMMA ShapePoll ==
    ASSUME IInv, PollFails \/ PollAnswers \/ \E p \in Probes : PollProbe(p)
    PROVE  \/ \E r \in Requests : Serves(PollJob, r) /\ Fits(r)
           \/ UNCHANGED <<box, recorded, shadowed, mail, gone, upstream, cache, req>>
<1> USE DEF storeVars
<1>1. TempMailTypeOK /\ PollJob \in Threads /\ Idle \in Requests
  BY Constants, IdleType DEF IInv
<1>2. CASE PollFails
  BY <1>1, <1>2, ShapeEnd DEF PollFails
<1>3. CASE PollAnswers
  <2> DEFINE q == req[PollJob]
  <2>1. /\ q.phase = "fetched" /\ q.addr \in Addresses /\ Store(q.addr, q.found) /\ Ends(PollJob)
        /\ UNCHANGED <<box, recorded, shadowed, mail, gone, upstream>>
    BY <1>1, <1>3 DEF PollAnswers, InPhase, IInv, InOrder, StillAdmitted, Reading
  <2>2. /\ cache' \in [Addresses -> SUBSET Mail]
        /\ \A a \in Addresses : \A m \in cache'[a] :
              m \in cache[a] \/ (q.phase = "fetched" /\ q.addr = a /\ m \in q.found)
    BY <1>1, <2>1, StoreType
  <2>3. Serves(PollJob, Idle)
    BY <1>1, <2>1, <2>2 DEF Ends, Goto, Serves, TempMailTypeOK
  <2> QED
    BY <1>1, <2>3, IdleFits
<1>4. ASSUME NEW p \in Probes, PollProbe(p), req' # req
      PROVE  \E r \in Requests : Serves(PollJob, r) /\ Fits(r)
  <2> DEFINE a == probe[p].addr
             r == [Idle EXCEPT !.op = "poll", !.phase = "reading", !.addr = a,
                               !.wanted = Mail, !.base = probe[p].base, !.probe = p]
  <2>1. box[a] # NoBox /\ Admitted(a, Nobody) /\ Goto(PollJob, r)
        /\ UNCHANGED <<box, recorded, shadowed, mail, gone, upstream, cache>>
    BY <1>4 DEF PollProbe
  <2>2. a \in Addresses \cup {"none"} /\ probe[p].base \in 0 .. MaxClock /\ p \in 0 .. MaxProbes
    BY <1>1, Constants DEF TempMailTypeOK, Probes
  <2>3. r \in Requests
    BY <1>1, <2>2 DEF Requests
  <2>4. Serves(PollJob, r)
    BY <1>1, <2>1, <2>3 DEF Goto, Serves, TempMailTypeOK
  <2>5. r.op = "poll" /\ r.phase = "reading" /\ r.found = {} /\ r.addr = a /\ r.who = Nobody
    BY DEF Idle
  <2>6. a \in Addresses
    BY <1>4 DEF IInv, ProbesInPlace, PollProbe
  <2> HIDE DEF r
  <2>7. Fits(r)
    BY <2>5, <2>6, Constants DEF Fits, Addressed, FoundInPlace, StillAdmitted, AnswerIsHis, NotGone, Reading
  <2> QED
    BY <2>3, <2>4, <2>7
<1>5. ASSUME NEW p \in Probes, PollProbe(p), req' = req
      PROVE  UNCHANGED <<box, recorded, shadowed, mail, gone, upstream, cache, req>>
  BY <1>5 DEF PollProbe
<1> QED
  BY <1>2, <1>3, <1>4, <1>5

-----------------------------------------------------------------------------
(* The steps that change more than a request.                              *)

\* A message arrives: it is new to everybody.
LEMMA ArriveStep ==
    ASSUME IInv, NEW n \in Mail, NEW a \in Addresses, Arrive(n, a)
    PROVE  MailInPlace' /\ OwnersHold' /\ GoneForGood' /\ \A v \in Threads : InOrder(req[v])'
<1> USE DEF storeVars
<1>1. /\ TempMailTypeOK /\ MailInPlace /\ OwnersHold /\ GoneForGood
      /\ UNCHANGED <<box, cache, req, gone>> /\ mail[n].at = 0
  BY DEF IInv, Arrive
<1>2. /\ mail'[n].at = clock /\ mail'[n].to = a
      /\ mail'[n].owner = (IF box[a].type = "task" THEN box[a].owner ELSE Nobody)
      /\ mail'[n].late = (box[a].status = "finished")
      /\ \A m \in Mail \ {n} : mail'[m] = mail[m]
  BY <1>1 DEF Arrive, TempMailTypeOK
<1>3. clock # 0
  BY <1>1, Constants DEF TempMailTypeOK
<1>4. upstream'[a] = upstream[a] \cup {n} /\ \A b \in Addresses \ {a} : upstream'[b] = upstream[b]
  BY <1>1 DEF Arrive, TempMailTypeOK
<1>5. ASSUME NEW m, NEW b, Came(m, b), m \in Mail
      PROVE  m # n /\ mail'[m] = mail[m] /\ Came(m, b)'
  BY <1>1, <1>2, <1>5 DEF Came
<1>6. \A b \in Addresses : upstream[b] \subseteq Mail /\ cache[b] \subseteq Mail
  BY <1>1 DEF TempMailTypeOK
<1>7. MailInPlace'
  <2>1. \A m \in Mail : IF mail'[m].at = 0 THEN mail'[m].owner = Nobody /\ ~mail'[m].late
                                           ELSE mail'[m].to \in Addresses
    BY <1>1, <1>2, <1>3 DEF MailInPlace
  <2>2. \A b \in Addresses : \A m \in upstream'[b] \cup cache'[b] : Came(m, b)'
    BY <1>1, <1>2, <1>3, <1>4, <1>5, <1>6 DEF MailInPlace, Came
  <2> QED
    BY <2>1, <2>2 DEF MailInPlace
<1>8. OwnersHold'
  BY <1>1, <1>2 DEF OwnersHold
<1>9. GoneForGood'
  BY <1>1, <1>2, <1>4, <1>6 DEF GoneForGood, TempMailTypeOK
<1>10. ASSUME NEW v \in Threads PROVE InOrder(req[v])'
  <2>1. InOrder(req[v]) /\ req'[v] = req[v] /\ req[v].found \subseteq Mail /\ req[v].wanted \subseteq Mail
    BY <1>1, RequestFields DEF IInv
  <2>2. DeletesInPlace(req[v])'
    BY <1>4, <1>5, <2>1 DEF InOrder, Addressed, DeletesInPlace
  <2>3. FoundInPlace(req[v])' /\ AnswerIsHis(req[v])'
    BY <1>5, <2>1 DEF InOrder, FoundInPlace, AnswerIsHis
  <2> QED
    BY <1>1, <2>1, <2>2, <2>3 DEF InOrder, Addressed, StillAdmitted, NotGone, Reading
<1> QED
  BY <1>7, <1>8, <1>9, <1>10

\* The process restarts.
LEMMA RestartStep ==
    ASSUME IInv, RestartReads
    PROVE  MailInPlace' /\ OwnersHold' /\ GoneForGood' /\ \A v \in Threads : InOrder(req[v])'
<1>1. /\ UNCHANGED <<box, cache, mail, upstream, gone>>
      /\ \A v \in Threads : req'[v] = Idle
  BY DEF RestartReads, storeVars
<1>2. MailInPlace' /\ OwnersHold' /\ GoneForGood'
  BY <1>1 DEF IInv, MailInPlace, OwnersHold, GoneForGood, Came
<1>3. Idle.op = "idle" /\ Idle.phase = "idle" /\ Idle.found = {}
  BY DEF Idle
<1> QED
  BY <1>1, <1>2, <1>3 DEF InOrder, Addressed, FoundInPlace, DeletesInPlace, StillAdmitted, AnswerIsHis,
                          NotGone, Reading

\* A step that changes nothing but probes, the clock and counters.
LEMMA StillStep ==
    ASSUME IInv, UNCHANGED <<box, mail, upstream, cache, req, gone>>
    PROVE  MailInPlace' /\ OwnersHold' /\ GoneForGood' /\ \A v \in Threads : InOrder(req[v])'
BY DEF IInv, MailInPlace, OwnersHold, GoneForGood, InOrder, Addressed, FoundInPlace, DeletesInPlace,
       StillAdmitted, AnswerIsHis, NotGone, Came, Reading

\* A step that leaves a request alone, or frees its thread, keeps its order as
\* long as what it is about is untouched.
LEMMA OtherRequest ==
    ASSUME NEW v \in Threads, InOrder(req[v]), req'[v] = req[v] \/ req'[v] = Idle,
           UNCHANGED <<mail, upstream>>,
           StillAdmitted(req[v])', NotGone(req[v])'
    PROVE  InOrder(req[v])'
<1>1. CASE req'[v] = Idle
  BY <1>1 DEF Idle, InOrder, Addressed, FoundInPlace, DeletesInPlace, StillAdmitted, AnswerIsHis, NotGone,
              Reading
<1>2. CASE req'[v] = req[v]
  BY <1>2 DEF InOrder, Addressed, FoundInPlace, DeletesInPlace, AnswerIsHis, Came
<1> QED
  BY <1>1, <1>2

\* A row is inserted where there was none: nobody was reading it, and no
\* message belonged to anybody.
LEMMA RecordStep ==
    ASSUME IInv, NEW w \in Threads, Record(w)
    PROVE  MailInPlace' /\ OwnersHold' /\ GoneForGood' /\ \A v \in Threads : InOrder(req[v])'
<1> DEFINE a == req[w].addr
<1>1. /\ TempMailTypeOK /\ a \in Addresses
      /\ UNCHANGED <<mail, upstream, cache, gone>>
      /\ req' = [req EXCEPT ![w] = Idle]
  BY DEF IInv, Record, InPhase, InOrder, Addressed, Ends, Goto
<1>2. box' = box \/ (box[a] = NoBox /\ \A b \in Addresses \ {a} : box'[b] = box[b])
  BY <1>1 DEF Record, TempMailTypeOK
<1>3. MailInPlace' /\ GoneForGood'
  BY <1>1 DEF IInv, MailInPlace, GoneForGood, Came
<1>4. OwnersHold'
  BY <1>1, <1>2, Constants DEF IInv, MailInPlace, OwnersHold, NoBox, TempMailTypeOK
<1>5. ASSUME NEW v \in Threads PROVE InOrder(req[v])'
  <2>1. InOrder(req[v]) /\ (req'[v] = req[v] \/ req'[v] = Idle)
    BY <1>1 DEF IInv, TempMailTypeOK
  <2>2. StillAdmitted(req[v])'
    BY <1>2, <2>1 DEF InOrder, StillAdmitted, Reading, MayRead, NoBox, Idle
  <2>3. NotGone(req[v])'
    BY <1>1, <2>1 DEF InOrder, NotGone, Idle
  <2> QED
    BY <1>1, <2>1, <2>2, <2>3, OtherRequest
<1> QED
  BY <1>3, <1>4, <1>5

\* The rows of deleted messages go.  What a list had fetched is excepted; the
\* mail of other addresses is another's.
LEMMA ForgetStep ==
    ASSUME IInv, NEW w \in Threads, Forget(w)
    PROVE  MailInPlace' /\ OwnersHold' /\ GoneForGood' /\ \A v \in Threads : InOrder(req[v])'
<1> DEFINE q == req[w]
           a == q.addr
           more == q.wanted \ OnItsWay(a)
<1>1. /\ TempMailTypeOK /\ a \in Addresses
      /\ UNCHANGED <<box, mail, upstream>>
      /\ req' = [req EXCEPT ![w] = Idle]
      /\ gone' = gone \cup more
      /\ q.op \in {"delete", "clear"}
      /\ cache' = [cache EXCEPT ![a] = IF q.op = "clear" THEN {} ELSE @ \ q.wanted]
  BY DEF IInv, Forget, InOrder, Addressed, Ends, Goto
<1>2. \A m \in q.wanted : m \in Mail /\ Came(m, a) /\ m \notin upstream[a]
  BY <1>1, RequestFields DEF IInv, InOrder, DeletesInPlace
<1>3. /\ cache'[a] \subseteq cache[a] \ q.wanted \/ cache'[a] = {}
      /\ \A b \in Addresses \ {a} : cache'[b] = cache[b]
  BY <1>1 DEF TempMailTypeOK
<1>4. MailInPlace' /\ OwnersHold'
  BY <1>1, <1>3 DEF IInv, MailInPlace, OwnersHold, Came
<1>5. \A b \in Addresses \ {a} : q.wanted \cap cache[b] = {} /\ q.wanted \cap upstream[b] = {}
  BY <1>2 DEF IInv, MailInPlace, Came
<1>6. GoneForGood'
  BY <1>1, <1>2, <1>3, <1>5 DEF IInv, GoneForGood, Came
<1>7. ASSUME NEW v \in Threads PROVE InOrder(req[v])'
  <2>1. InOrder(req[v]) /\ (req'[v] = req[v] \/ req'[v] = Idle)
    BY <1>1 DEF IInv, TempMailTypeOK
  <2>2. StillAdmitted(req[v])'
    BY <1>1, <2>1 DEF InOrder, StillAdmitted, Reading, Idle
  <2>3. req[v].phase = "fetched" => req[v].found \cap more = {}
    <3>1. CASE req[v].addr = a
      BY <3>1 DEF OnItsWay
    <3>2. CASE req[v].addr # a
      BY <1>2, <2>1, <3>2 DEF InOrder, FoundInPlace, Came
    <3> QED
      BY <3>1, <3>2
  <2>4. NotGone(req[v])'
    <3> HIDE DEF more
    <3> QED
      BY <1>1, <2>1, <2>3 DEF InOrder, NotGone, Idle
  <2> QED
    BY <1>1, <2>1, <2>2, <2>4, OtherRequest
<1> QED
  BY <1>4, <1>6, <1>7

\* Reads under way are excused, and are otherwise what they were.
LEMMA Excused ==
    ASSUME TempMailTypeOK, NEW a, NEW v \in Threads
    PROVE  LET e == Excuse(a)[v] IN
           /\ e \in Requests
           /\ e.op = req[v].op /\ e.phase = req[v].phase /\ e.who = req[v].who /\ e.addr = req[v].addr
           /\ e.wanted = req[v].wanted /\ e.found = req[v].found
           /\ req[v].excused => e.excused
           /\ IF Reading(req[v]) /\ req[v].addr = a THEN e.excused ELSE e.excused = req[v].excused
<1>1. req[v] \in Requests
  BY DEF TempMailTypeOK
<1>2. Excuse(a)[v] = IF Reading(req[v]) /\ req[v].addr = a THEN [req[v] EXCEPT !.excused = TRUE] ELSE req[v]
  BY DEF Excuse, Reading
<1> QED
  BY <1>1, <1>2 DEF Requests, Reading

\* What a request's order says after the mailbox at its address, and nothing
\* else about its messages, was given away or closed.
LEMMA ExcusedInOrder ==
    ASSUME TempMailTypeOK, NEW a \in Addresses, NEW v \in Threads, InOrder(req[v]),
           UNCHANGED <<upstream, gone>>,
           \A b \in Addresses \ {a} : box'[b] = box[b],
           \A m \in Mail : \/ mail'[m] = mail[m]
                           \/ /\ mail'[m].at = mail[m].at /\ mail'[m].to = mail[m].to
                              /\ mail'[m].owner = Nobody /\ ~mail'[m].late,
           req'[v].op \in {req[v].op, "idle"},
           req'[v] = Idle \/ (req'[v].phase = req[v].phase \/ req'[v].phase = "finished"),
           req'[v] = Idle \/ (/\ req'[v].who = req[v].who /\ req'[v].addr = req[v].addr
                              /\ req'[v].wanted = req[v].wanted /\ req'[v].found = req[v].found
                              /\ req'[v].excused = Excuse(a)[v].excused)
    PROVE  InOrder(req[v])'
<1>1. CASE req'[v] = Idle
  BY <1>1 DEF Idle, InOrder, Addressed, FoundInPlace, DeletesInPlace, StillAdmitted, AnswerIsHis, NotGone,
              Reading
<1>2. CASE req'[v] # Idle
  <2>1. req[v].found \subseteq Mail /\ req[v].wanted \subseteq Mail
    BY RequestFields
  <2>2. \A m \in Mail : mail'[m].at = mail[m].at /\ mail'[m].to = mail[m].to
    OBVIOUS
  <2>3. Addressed(req[v])' /\ FoundInPlace(req[v])' /\ DeletesInPlace(req[v])' /\ NotGone(req[v])'
    BY <1>2, <2>1, <2>2 DEF InOrder, Addressed, FoundInPlace, DeletesInPlace, NotGone, Came
  <2>4. StillAdmitted(req[v])'
    BY <1>2, Excused DEF InOrder, StillAdmitted, Reading, MayRead
  <2>5. AnswerIsHis(req[v])'
    BY <1>2, <2>1, Excused DEF InOrder, AnswerIsHis
  <2> QED
    BY <2>3, <2>4, <2>5 DEF InOrder
<1> QED
  BY <1>1, <1>2

\* A task is finished: whoever was reading is excused.
LEMMA FinishStep ==
    ASSUME IInv, NEW w \in Threads, CommitFinish(w)
    PROVE  MailInPlace' /\ OwnersHold' /\ GoneForGood' /\ \A v \in Threads : InOrder(req[v])'
<1> DEFINE a == req[w].addr
<1>1. /\ TempMailTypeOK /\ a \in Addresses /\ req[w].phase = "checked"
      /\ UNCHANGED <<mail, upstream, cache, gone>>
  BY DEF IInv, CommitFinish, InPhase, InOrder, Addressed
<1>2. CASE Ends(w) /\ UNCHANGED box
  <2>1. \A v \in Threads : req'[v] = req[v] \/ req'[v] = Idle
    BY <1>1, <1>2 DEF Ends, Goto, TempMailTypeOK
  <2>2. MailInPlace' /\ OwnersHold' /\ GoneForGood'
    BY <1>1, <1>2 DEF IInv, MailInPlace, OwnersHold, GoneForGood, Came
  <2>3. ASSUME NEW v \in Threads PROVE InOrder(req[v])'
    <3>1. InOrder(req[v])
      BY DEF IInv
    <3>2. StillAdmitted(req[v])' /\ NotGone(req[v])'
      BY <1>1, <1>2, <2>1, <3>1 DEF InOrder, StillAdmitted, NotGone, Reading, Idle
    <3> QED
      BY <1>1, <2>1, <3>1, <3>2, OtherRequest
  <2> QED
    BY <2>2, <2>3
<1>3. CASE /\ box' = [box EXCEPT ![a].status = "finished"]
           /\ req' = [Excuse(a) EXCEPT ![w].phase = "finished"]
  <2>1. /\ box'[a].status = "finished" /\ box'[a].type = box[a].type /\ box'[a].owner = box[a].owner
        /\ \A b \in Addresses \ {a} : box'[b] = box[b]
    <3>1. box \in [Addresses -> Boxes] /\ box[a] \in Boxes
      BY <1>1 DEF TempMailTypeOK
    <3>2. box' = [box EXCEPT ![a] = [box[a] EXCEPT !.status = "finished"]]
      BY <1>3
    <3> QED
      BY <1>1, <3>1, <3>2 DEF Boxes
  <2>2. MailInPlace' /\ GoneForGood'
    BY <1>1 DEF IInv, MailInPlace, GoneForGood, Came
  <2>3. OwnersHold'
    BY <1>1, <2>1, Constants DEF IInv, MailInPlace, OwnersHold
  <2>4. req' = [v \in Threads |-> IF v = w THEN [Excuse(a)[w] EXCEPT !.phase = "finished"] ELSE Excuse(a)[v]]
    BY <1>3 DEF Excuse
  <2>5. ASSUME NEW v \in Threads PROVE InOrder(req[v])'
    <3>1. InOrder(req[v]) /\ Excuse(a)[v] \in Requests
      BY <1>1, Excused DEF IInv
    <3>2. /\ req'[v].op = req[v].op /\ (req'[v].phase = req[v].phase \/ req'[v].phase = "finished")
          /\ req'[v].who = req[v].who /\ req'[v].addr = req[v].addr
          /\ req'[v].wanted = req[v].wanted /\ req'[v].found = req[v].found
          /\ req'[v].excused = Excuse(a)[v].excused
      BY <1>1, <2>4, <3>1, Excused DEF Requests
    <3> QED
      BY <1>1, <2>1, <3>1, <3>2, ExcusedInOrder
  <2> QED
    BY <2>2, <2>3, <2>5
<1> QED
  BY <1>2, <1>3 DEF CommitFinish

\* A mailbox is deleted: its mail is nobody's, and whoever was reading is
\* excused.
LEMMA DropStep ==
    ASSUME IInv, NEW w \in Threads, Drop(w)
    PROVE  MailInPlace' /\ OwnersHold' /\ GoneForGood' /\ \A v \in Threads : InOrder(req[v])'
<1> DEFINE a == req[w].addr
<1>1. /\ TempMailTypeOK /\ a \in Addresses
      /\ UNCHANGED <<upstream, gone>>
  BY DEF IInv, Drop, InPhase, InOrder, Addressed
<1>2. /\ box'[a] = NoBox /\ \A b \in Addresses \ {a} : box'[b] = box[b]
      /\ cache'[a] = {} /\ \A b \in Addresses \ {a} : cache'[b] = cache[b]
  BY <1>1 DEF Drop, TempMailTypeOK
<1>3. \A m \in Mail : IF mail[m].to = a
                      THEN /\ mail'[m].at = mail[m].at /\ mail'[m].to = mail[m].to
                           /\ mail'[m].owner = Nobody /\ mail'[m].late = FALSE
                      ELSE mail'[m] = mail[m]
  <2>1. mail' = [m \in Mail |-> IF mail[m].to = a
                                THEN [mail[m] EXCEPT !.owner = Nobody, !.late = FALSE] ELSE mail[m]]
    BY DEF Drop
  <2> QED
    BY <1>1, <2>1 DEF TempMailTypeOK
<1>4. req' = [v \in Threads |-> IF v = w THEN Idle ELSE Excuse(a)[v]]
  BY DEF Drop, Excuse
<1>5. \A b \in Addresses : upstream[b] \subseteq Mail /\ cache[b] \subseteq Mail
  BY <1>1 DEF TempMailTypeOK
<1>6. MailInPlace'
  BY <1>1, <1>2, <1>3, <1>5 DEF IInv, MailInPlace, Came
<1>7. OwnersHold'
  BY <1>1, <1>2, <1>3 DEF IInv, MailInPlace, OwnersHold
<1>8. GoneForGood'
  BY <1>1, <1>2, <1>3 DEF IInv, GoneForGood, TempMailTypeOK
<1>9. ASSUME NEW v \in Threads PROVE InOrder(req[v])'
  <2>1. InOrder(req[v])
    BY DEF IInv
  <2>2. \/ req'[v] = Idle
        \/ /\ req'[v].op = req[v].op /\ req'[v].phase = req[v].phase
           /\ req'[v].who = req[v].who /\ req'[v].addr = req[v].addr
           /\ req'[v].wanted = req[v].wanted /\ req'[v].found = req[v].found
           /\ req'[v].excused = Excuse(a)[v].excused
    BY <1>1, <1>4, Excused
  <2>3. req'[v].op \in {req[v].op, "idle"}
    BY <2>2 DEF Idle
  <2> QED
    BY <1>1, <1>2, <1>3, <2>1, <2>2, <2>3, ExcusedInOrder
<1> QED
  BY <1>6, <1>7, <1>8, <1>9

-----------------------------------------------------------------------------
(* Types once more, now that requests are known to be about addresses.     *)

\* A step that changes more than one request and the counters.
Large(w) == Record(w) \/ Forget(w) \/ CommitFinish(w) \/ Drop(w)

\* Every step is one of these.
LEMMA StepShape ==
    ASSUME IInv, TempMailNext
    PROVE  \/ \E w \in Threads : \E r \in Requests : Serves(w, r) /\ Fits(r)
           \/ \E w \in Threads : Large(w)
           \/ \E m \in Mail, a \in Addresses : Arrive(m, a)
           \/ RestartReads
           \/ UNCHANGED <<box, recorded, mail, upstream, cache, req, gone>>
<1> USE DEF storeVars
<1>1. ASSUME NEW w \in MailThreads, CancelProbes(w) \/ FetchFails(w) \/ AnswerSent(w)
      PROVE  \E r \in Requests : Serves(w, r) /\ Fits(r)
  BY <1>1, ShapeEnd, Constants DEF CancelProbes, FetchFails, AnswerSent
<1>2. ASSUME NEW w \in MailThreads,
             Fetch(w) \/ AnswerList(w) \/ AnswerWait(w) \/ WaitPolls(w)
      PROVE  \E r \in Requests : Serves(w, r) /\ Fits(r)
  BY <1>2, ShapeFetch, ShapeAnswer, ShapeWait, Constants
<1>3. CASE JobStep
  <2>1. CASE StartPass
    BY <2>1 DEF StartPass
  <2>2. CASE Fetch(PollJob)
    BY <2>2, ShapeFetch, Constants
  <2>3. CASE PollFails \/ PollAnswers \/ \E p \in Probes : PollProbe(p)
    BY <2>3, ShapePoll, Constants
  <2> QED
    BY <1>3, <2>1, <2>2, <2>3 DEF JobStep
<1>4. CASE \/ Tick \/ (\E a \in Addresses : Shadow(a))
           \/ (\E p \in Probes, c \in Consumers, a \in Addresses : CreateProbe(p, c, a))
           \/ (\E p \in Probes : ProbeElapses(p) \/ CleanUp(p))
  BY <1>4 DEF Tick, Shadow, CreateProbe, ProbeElapses, CleanUp
<1>5. ASSUME NEW w \in MailThreads, NEW a \in Addresses,
             \/ Generate(w, a) \/ Import(w, a) \/ DropAtProvider(w, a)
             \/ \E c \in Consumers : ApplyTask(w, c, a) \/ StartFinish(w, c, a)
      PROVE  \E r \in Requests : Serves(w, r) /\ Fits(r)
  BY <1>5, ShapeBegin, Constants
<1>6. ASSUME NEW w \in MailThreads, NEW a \in Addresses,
             \/ StartList(w, Admin, a)
             \/ \E c \in Consumers : StartList(w, c, a) \/ StartWait(w, c, a)
             \/ \E m \in Mail, who \in Consumers \cup {Admin} : StartDetail(w, who, a, m)
      PROVE  \E r \in Requests : Serves(w, r) /\ Fits(r)
  BY <1>6, ShapeRead, Constants
<1>7. ASSUME NEW w \in MailThreads, NEW a \in Addresses,
             ClearMessages(w, a) \/ \E m \in Mail : DeleteMessage(w, a, m)
      PROVE  \E r \in Requests : Serves(w, r) /\ Fits(r)
  BY <1>7, ShapeDelete, Constants
<1>8. ASSUME NEW w \in MailThreads, Record(w) \/ Forget(w) \/ Drop(w) \/ CommitFinish(w)
      PROVE  w \in Threads /\ Large(w)
  BY <1>8, Constants DEF Large
<1> QED
  BY <1>1, <1>2, <1>3, <1>4, <1>5, <1>6, <1>7, <1>8, Constants DEF TempMailNext

\* The order of mail, mailboxes and requests is kept.
LEMMA OrderStep ==
    ASSUME IInv, TempMailNext
    PROVE  MailInPlace' /\ OwnersHold' /\ GoneForGood' /\ \A v \in Threads : InOrder(req[v])'
BY StepShape, ServeStep, RecordStep, ForgetStep, FinishStep, DropStep, ArriveStep, RestartStep, StillStep
   DEF Large

-----------------------------------------------------------------------------
(* Probes.                                                                 *)

ProbeTypes == [status : {"none", "pending", "removed"} \cup Outcomes, addr : Addresses \cup {"none"},
               base : 0 .. MaxClock, elapsed : BOOLEAN]

\* What anyone but the job may do to a probe: create it, let its time come,
\* cancel it while it is pending, and remove it once it has an outcome.
OthersLeave(p) ==
    \/ probe'[p] = probe[p]
    \/ probe[p].status = "none" /\ probe'[p].status = "pending" /\ probe'[p].addr \in Addresses
    \/ /\ probe[p].status = "pending" /\ probe'[p].status \in {"pending", "cancelled"}
       /\ probe'[p].addr = probe[p].addr
    \/ probe[p].status \in {"matched", "timeout", "error"} /\ probe'[p].status = "removed"

\* What anyone but the job does about probes.
LEMMA StepOfOthers ==
    ASSUME TempMailNext, ~JobStep
    PROVE  \/ UNCHANGED <<probe, batch>> /\ \E w \in MailThreads : \E r : Goto(w, r)
           \/ \E w \in MailThreads : Drop(w) \/ CommitFinish(w) \/ CancelProbes(w)
           \/ \E p \in Probes, c \in Consumers, a \in Addresses : CreateProbe(p, c, a)
           \/ \E p \in Probes : ProbeElapses(p) \/ CleanUp(p)
           \/ RestartReads
           \/ UNCHANGED <<probe, batch, req>>
<1> DEFINE Goes == UNCHANGED <<probe, batch>> /\ \E w \in MailThreads : \E r : Goto(w, r)
<1> USE DEF storeVars
<1>1. ASSUME NEW w \in MailThreads, NEW who, NEW a, NEW b, CreateAtProvider(w, who, a, b) PROVE Goes
  BY <1>1 DEF CreateAtProvider, Begin, Take, Goto
<1>2. ASSUME NEW w \in MailThreads, NEW op, NEW who, NEW a, NEW wanted, NEW base,
             StartRead(w, op, who, a, wanted, base) PROVE Goes
  BY <1>2 DEF StartRead, Begin, Take, Goto
<1>3. ASSUME NEW w \in MailThreads, NEW op, NEW a, NEW ms, DeleteAtProvider(w, op, a, ms) PROVE Goes
  BY <1>3 DEF DeleteAtProvider, Begin, Take, Goto
<1>4. ASSUME NEW w \in MailThreads, NEW a \in Addresses,
             \/ Generate(w, a) \/ Import(w, a) \/ \E c \in Consumers : ApplyTask(w, c, a)
             \/ StartList(w, Admin, a) \/ ClearMessages(w, a)
             \/ \E c \in Consumers : StartList(w, c, a) \/ StartWait(w, c, a)
             \/ \E m \in Mail :
                   DeleteMessage(w, a, m) \/ \E who \in Consumers \cup {Admin} : StartDetail(w, who, a, m)
      PROVE Goes
  <2> HIDE DEF Goes
  <2>1. CASE Generate(w, a) \/ Import(w, a) \/ \E c \in Consumers : ApplyTask(w, c, a)
    BY <1>1, <2>1 DEF Generate, Import, ApplyTask
  <2>2. CASE ClearMessages(w, a) \/ \E m \in Mail : DeleteMessage(w, a, m)
    BY <1>3, <2>2 DEF ClearMessages, DeleteMessage
  <2>3. CASE \/ StartList(w, Admin, a)
             \/ \E c \in Consumers : StartList(w, c, a) \/ StartWait(w, c, a)
             \/ \E m \in Mail : \E who \in Consumers \cup {Admin} : StartDetail(w, who, a, m)
    BY <1>2, <2>3 DEF StartList, StartWait, StartDetail
  <2> QED
    BY <1>4, <2>1, <2>2, <2>3
<1>5. ASSUME NEW w \in MailThreads, NEW a \in Addresses,
             DropAtProvider(w, a) \/ \E c \in Consumers : StartFinish(w, c, a)
      PROVE Goes
  BY <1>5 DEF DropAtProvider, StartFinish, Begin, Take, Goto
<1>6. ASSUME NEW w \in MailThreads, Record(w) \/ Fetch(w) \/ FetchFails(w) \/ AnswerSent(w) \/ Forget(w)
      PROVE Goes
  BY <1>6 DEF Record, Fetch, FetchFails, AnswerSent, Forget, Ends
<1>7. ASSUME NEW w \in MailThreads, AnswerList(w) \/ AnswerWait(w) \/ WaitPolls(w)
      PROVE Goes
  BY <1>7 DEF AnswerList, AnswerWait, WaitPolls, Answers, Ends
<1>8. ASSUME Tick \/ (\E m \in Mail, a \in Addresses : Arrive(m, a)) \/ \E a \in Addresses : Shadow(a)
      PROVE  UNCHANGED <<probe, batch, req>>
  BY <1>8 DEF Tick, Arrive, Shadow
<1> HIDE DEF Goes
<1> QED
  <2> SUFFICES Goes \/ (\E w \in MailThreads : Drop(w) \/ CommitFinish(w) \/ CancelProbes(w))
               \/ (\E p \in Probes, c \in Consumers, a \in Addresses : CreateProbe(p, c, a))
               \/ (\E p \in Probes : ProbeElapses(p) \/ CleanUp(p))
               \/ RestartReads
               \/ UNCHANGED <<probe, batch, req>>
    BY DEF Goes
  <2> QED
    BY <1>4, <1>5, <1>6, <1>7, <1>8 DEF TempMailNext

\* A step of anyone else does no more than that, and leaves the job alone or,
\* when the process stops, ends its pass.
LEMMA ProbesOfOthers ==
    ASSUME IInv, TempMailNext, ~JobStep
    PROVE  /\ probe' \in [Probes -> ProbeTypes]
           /\ \A p \in Probes : OthersLeave(p)
           /\ batch' = batch \/ batch' = {}
           /\ \/ req'[PollJob].op = "idle"
              \/ req'[PollJob].op = req[PollJob].op /\ req'[PollJob].probe = req[PollJob].probe
<1> DEFINE Kept == probe' \in [Probes -> ProbeTypes] /\ \A p \in Probes : OthersLeave(p)
           JobKept == req'[PollJob].op = req[PollJob].op /\ req'[PollJob].probe = req[PollJob].probe
<1> USE DEF storeVars
<1>1. TempMailTypeOK /\ probe \in [Probes -> ProbeTypes] /\ PollJob \in Threads /\ PollJob \notin MailThreads
  BY Constants DEF IInv, TempMailTypeOK, ProbeTypes
<1>2. ASSUME UNCHANGED probe PROVE Kept
  BY <1>1, <1>2 DEF OthersLeave
<1>3. CASE UNCHANGED <<probe, batch>> /\ \E w \in MailThreads : \E r : Goto(w, r)
  BY <1>1, <1>2, <1>3 DEF Goto, TempMailTypeOK
<1>4. ASSUME NEW w \in MailThreads, Drop(w) \/ CommitFinish(w)
      PROVE  Kept /\ batch' = batch /\ JobKept
  <2> DEFINE a == req[w].addr
  <2>1. /\ Excuse(a)[PollJob].op = req[PollJob].op
        /\ Excuse(a)[PollJob].probe = req[PollJob].probe
    BY <1>1 DEF Excuse, TempMailTypeOK, Requests
  <2>2. req'[PollJob] = Excuse(a)[PollJob] \/ req'[PollJob] = req[PollJob]
    BY <1>1, <1>4 DEF Drop, CommitFinish, Ends, Goto, Excuse, TempMailTypeOK
  <2>3. UNCHANGED <<probe, batch>>
    BY <1>4 DEF Drop, CommitFinish
  <2> QED
    BY <1>2, <2>1, <2>2, <2>3
<1>5. ASSUME NEW w \in MailThreads, CancelProbes(w)
      PROVE  Kept /\ batch' = batch /\ JobKept
  <2>1. batch' = batch /\ JobKept
    BY <1>1, <1>5 DEF CancelProbes, Ends, Goto, TempMailTypeOK
  <2>2. ASSUME NEW p \in Probes PROVE probe'[p] \in ProbeTypes /\ OthersLeave(p)
    <3>1. probe'[p] = probe[p] \/ (/\ probe[p].status = "pending"
                                   /\ probe'[p] = [probe[p] EXCEPT !.status = "cancelled", !.elapsed = FALSE])
      BY <1>5 DEF CancelProbes
    <3> QED
      BY <1>1, <3>1 DEF OthersLeave, ProbeTypes, Outcomes
  <2>3. probe' = [p \in Probes |-> probe'[p]]
    BY <1>5 DEF CancelProbes
  <2> QED
    BY <2>1, <2>2, <2>3
<1>6. ASSUME NEW p \in Probes, NEW c \in Consumers, NEW a \in Addresses, CreateProbe(p, c, a)
      PROVE  Kept /\ batch' = batch /\ JobKept
  <2> DEFINE new == [status |-> "pending", addr |-> a, base |-> clock, elapsed |-> FALSE]
  <2>1. new \in ProbeTypes
    BY <1>1, Constants DEF TempMailTypeOK, ProbeTypes
  <2> HIDE DEF ProbeTypes
  <2> QED
    BY <1>1, <1>6, <2>1 DEF CreateProbe, OthersLeave
<1>7. ASSUME NEW p \in Probes, ProbeElapses(p)
      PROVE  Kept /\ batch' = batch /\ JobKept
  <2> DEFINE new == [probe[p] EXCEPT !.elapsed = TRUE]
  <2>1. probe' = [probe EXCEPT ![p] = new] /\ probe[p].status = "pending" /\ UNCHANGED <<batch, req>>
    BY <1>7 DEF ProbeElapses
  <2>2. new \in ProbeTypes /\ new.status = probe[p].status /\ new.addr = probe[p].addr
    BY <1>1 DEF ProbeTypes
  <2> HIDE DEF ProbeTypes, new
  <2> QED
    BY <1>1, <2>1, <2>2 DEF OthersLeave
<1>8. ASSUME NEW p \in Probes, CleanUp(p)
      PROVE  Kept /\ batch' = batch /\ JobKept
  <2>1. NoProbe("removed") \in ProbeTypes /\ NoProbe("removed").status = "removed"
    BY Constants DEF NoProbe, ProbeTypes
  <2> HIDE DEF ProbeTypes
  <2> QED
    BY <1>1, <1>8, <2>1 DEF CleanUp, OthersLeave
<1>9. CASE RestartReads
  BY <1>1, <1>2, <1>9 DEF RestartReads, Idle
<1>10. CASE UNCHANGED <<probe, batch, req>>
  BY <1>2, <1>10
<1> HIDE DEF Kept, JobKept
<1>11. Kept /\ (batch' = batch \/ batch' = {}) /\ (req'[PollJob].op = "idle" \/ JobKept)
  <2> USE DEF Kept, JobKept
  <2> QED
    BY <1>3, <1>4, <1>5, <1>6, <1>7, <1>8, <1>9, <1>10, StepOfOthers
<1> QED
  BY <1>11 DEF Kept, JobKept

\* An outcome is written by the job, for a probe with an address.
LEMMA OutcomeIsProbe ==
    ASSUME probe \in [Probes -> ProbeTypes], NEW p \in Probes,
           NEW outcome \in {"pending", "removed", "none"} \cup Outcomes, probe' = Outcome(p, outcome)
    PROVE  /\ probe' \in [Probes -> ProbeTypes]
           /\ probe'[p].status = outcome /\ probe'[p].addr = probe[p].addr
           /\ \A q \in Probes \ {p} : probe'[q] = probe[q]
<1> DEFINE new == [probe[p] EXCEPT !.status = outcome, !.elapsed = FALSE]
<1>1. new \in ProbeTypes /\ new.status = outcome /\ new.addr = probe[p].addr
  BY DEF ProbeTypes
<1>2. probe' = [probe EXCEPT ![p] = new]
  <2>1. probe' = [[probe EXCEPT ![p].status = outcome] EXCEPT ![p].elapsed = FALSE]
    BY DEF Outcome
  <2>2. probe' = [q \in Probes |-> IF q = p THEN new ELSE probe[q]]
    BY <2>1
  <2> QED
    BY <2>2
<1> HIDE DEF ProbeTypes, new
<1> QED
  BY <1>1, <1>2

\* Probes keep their types and their place.
LEMMA ProbeStep ==
    ASSUME IInv, TempMailNext
    PROVE  probe' \in [Probes -> ProbeTypes] /\ batch' \subseteq Probes /\ ProbesInPlace'
<1> USE DEF storeVars
<1>1. /\ TempMailTypeOK /\ probe \in [Probes -> ProbeTypes] /\ PollJob \in Threads
      /\ batch \subseteq Probes /\ req[PollJob] \in Requests
  BY Constants DEF IInv, TempMailTypeOK, ProbeTypes, Outcomes
<1>2. CASE ~JobStep
  <2>1. /\ probe' \in [Probes -> ProbeTypes]
        /\ \A p \in Probes : OthersLeave(p)
        /\ batch' = batch \/ batch' = {}
        /\ \/ req'[PollJob].op = "idle"
           \/ req'[PollJob].op = req[PollJob].op /\ req'[PollJob].probe = req[PollJob].probe
    BY <1>2, ProbesOfOthers
  <2>2. \A p \in Probes : probe'[p].status \notin {"none", "removed"} => probe'[p].addr \in Addresses
    BY <2>1 DEF IInv, ProbesInPlace, OthersLeave
  <2>3. \A p \in Probes : probe[p].status \in {"pending", "cancelled"}
                             => probe'[p].status \in {"pending", "cancelled"}
    BY <2>1 DEF OthersLeave
  <2> QED
    BY <1>1, <2>1, <2>2, <2>3 DEF IInv, ProbesInPlace
<1>3. CASE StartPass
  <2>1. \A p \in Probes :
           IF Due(p) THEN probe'[p] = [probe[p] EXCEPT !.status = "timeout", !.elapsed = FALSE]
                     ELSE probe'[p] = probe[p]
    BY <1>3 DEF StartPass
  <2>2. \A p \in Probes : probe'[p] \in ProbeTypes /\ probe'[p].addr = probe[p].addr
    BY <1>1, <2>1 DEF ProbeTypes, Outcomes
  <2>3. probe' = [p \in Probes |-> probe'[p]]
    BY <1>3 DEF StartPass
  <2>4. \A p \in Probes : probe'[p].status \notin {"none", "removed"} => probe'[p].addr \in Addresses
    BY <2>1, <2>2 DEF IInv, ProbesInPlace, Due
  <2>5. \A p \in batch' : p \in Probes /\ probe[p].status = "pending" /\ ~Due(p)
    BY <1>3 DEF StartPass
  <2>6. req'[PollJob].op = "idle"
    BY <1>3 DEF StartPass, Free
  <2> QED
    BY <2>1, <2>2, <2>3, <2>4, <2>5, <2>6 DEF ProbesInPlace
<1>4. ASSUME NEW p \in Probes, PollProbe(p)
      PROVE  probe' \in [Probes -> ProbeTypes] /\ batch' \subseteq Probes /\ ProbesInPlace'
  <2>1. p \in batch /\ batch' = batch \ {p} /\ req[PollJob].op = "idle"
    BY <1>4 DEF PollProbe, Free
  <2>2. CASE UNCHANGED probe
    <3>1. req'[PollJob].op = "poll" => req'[PollJob].probe = p
      BY <1>1, <1>4, <2>1 DEF PollProbe, Goto, TempMailTypeOK, Idle
    <3> QED
      BY <1>1, <2>1, <2>2, <3>1 DEF IInv, ProbesInPlace
  <2>3. CASE probe' = Outcome(p, "error") /\ UNCHANGED req
    <3>1. /\ probe' \in [Probes -> ProbeTypes]
          /\ probe'[p].status = "error" /\ probe'[p].addr = probe[p].addr
          /\ \A q \in Probes \ {p} : probe'[q] = probe[q]
      BY <1>1, <2>3, OutcomeIsProbe DEF Outcomes
    <3> QED
      BY <1>1, <2>1, <2>3, <3>1 DEF IInv, ProbesInPlace
  <2> QED
    BY <1>4, <2>2, <2>3 DEF PollProbe
<1>5. CASE Fetch(PollJob)
  <2>1. UNCHANGED <<probe, batch>>
    BY <1>5 DEF Fetch
  <2>2. req'[PollJob].op = req[PollJob].op /\ req'[PollJob].probe = req[PollJob].probe
    BY <1>1, <1>5 DEF Fetch, Goto, TempMailTypeOK, Requests
  <2> QED
    BY <1>1, <2>1, <2>2 DEF IInv, ProbesInPlace
<1>6. CASE PollFails \/ PollAnswers
  <2> DEFINE q == req[PollJob].probe
  <2>1. /\ req[PollJob].op = "poll" /\ UNCHANGED batch /\ req' = [req EXCEPT ![PollJob] = Idle]
        /\ \/ UNCHANGED probe
           \/ \E outcome \in {"error", "matched"} : probe' = Outcome(q, outcome)
    BY <1>6 DEF PollFails, PollAnswers, InPhase, Ends, Goto
  <2>2. q \in Probes \ batch /\ probe[q].status \in {"pending", "cancelled"} /\ probe[q].addr \in Addresses
    BY <2>1 DEF IInv, ProbesInPlace
  <2>3. req'[PollJob].op = "idle"
    BY <1>1, <2>1 DEF TempMailTypeOK, Idle
  <2>4. CASE UNCHANGED probe
    BY <1>1, <2>1, <2>3, <2>4 DEF IInv, ProbesInPlace
  <2>5. ASSUME NEW outcome \in {"error", "matched"}, probe' = Outcome(q, outcome)
        PROVE  probe' \in [Probes -> ProbeTypes] /\ batch' \subseteq Probes /\ ProbesInPlace'
    <3>1. /\ probe' \in [Probes -> ProbeTypes]
          /\ probe'[q].status = outcome /\ probe'[q].addr = probe[q].addr
          /\ \A p \in Probes \ {q} : probe'[p] = probe[p]
      BY <1>1, <2>2, <2>5, OutcomeIsProbe DEF Outcomes
    <3> QED
      BY <1>1, <2>1, <2>2, <2>3, <3>1 DEF IInv, ProbesInPlace
  <2> QED
    BY <2>1, <2>4, <2>5
<1> QED
  BY <1>2, <1>3, <1>4, <1>5, <1>6 DEF JobStep

-----------------------------------------------------------------------------
(* Types once more.                                                        *)

\* The clock and the counter of requests keep within their bounds.
LEMMA CountersStep ==
    ASSUME TempMailTypeOK, TempMailNext
    PROVE  shadowed' \subseteq Addresses /\ clock' \in 1 .. MaxClock /\ issued' \in 0 .. MaxRequests
<1> DEFINE Still == UNCHANGED <<shadowed, clock, issued>>
           Counts == UNCHANGED <<shadowed, clock>> /\ Counted
<1> USE DEF storeVars
<1>1. ASSUME NEW w \in MailThreads, NEW who, NEW a, NEW b, CreateAtProvider(w, who, a, b) PROVE Counts
  BY <1>1 DEF CreateAtProvider, Begin
<1>2. ASSUME NEW w \in MailThreads, NEW op, NEW who, NEW a, NEW wanted, NEW base,
             StartRead(w, op, who, a, wanted, base) PROVE Counts
  BY <1>2 DEF StartRead, Begin
<1>3. ASSUME NEW w \in MailThreads, NEW op, NEW a, NEW ms, DeleteAtProvider(w, op, a, ms) PROVE Counts
  BY <1>3 DEF DeleteAtProvider, Begin
<1>4. ASSUME NEW w \in MailThreads, NEW a \in Addresses,
             \/ Generate(w, a) \/ Import(w, a) \/ \E c \in Consumers : ApplyTask(w, c, a)
             \/ StartList(w, Admin, a) \/ ClearMessages(w, a)
             \/ \E c \in Consumers : StartList(w, c, a) \/ StartWait(w, c, a)
             \/ \E m \in Mail :
                   DeleteMessage(w, a, m) \/ \E who \in Consumers \cup {Admin} : StartDetail(w, who, a, m)
      PROVE Counts
  <2> HIDE DEF Counts
  <2>1. CASE Generate(w, a) \/ Import(w, a) \/ \E c \in Consumers : ApplyTask(w, c, a)
    BY <1>1, <2>1 DEF Generate, Import, ApplyTask
  <2>2. CASE ClearMessages(w, a) \/ \E m \in Mail : DeleteMessage(w, a, m)
    BY <1>3, <2>2 DEF ClearMessages, DeleteMessage
  <2>3. CASE \/ StartList(w, Admin, a)
             \/ \E c \in Consumers : StartList(w, c, a) \/ StartWait(w, c, a)
             \/ \E m \in Mail : \E who \in Consumers \cup {Admin} : StartDetail(w, who, a, m)
    BY <1>2, <2>3 DEF StartList, StartWait, StartDetail
  <2> QED
    BY <1>4, <2>1, <2>2, <2>3
<1>5. ASSUME NEW w \in MailThreads, NEW a \in Addresses,
             \E c \in Consumers : StartFinish(w, c, a)
      PROVE Counts
  BY <1>5 DEF StartFinish, Begin
<1>6. ASSUME NEW w \in MailThreads, NEW a \in Addresses, DropAtProvider(w, a) PROVE Still
  BY <1>6 DEF DropAtProvider
<1>7. ASSUME NEW w \in MailThreads,
             \/ Record(w) \/ Fetch(w) \/ FetchFails(w) \/ AnswerSent(w) \/ Forget(w)
             \/ AnswerList(w) \/ AnswerWait(w) \/ WaitPolls(w) \/ Drop(w) \/ CommitFinish(w)
             \/ CancelProbes(w)
      PROVE Still
  BY <1>7 DEF Record, Fetch, FetchFails, AnswerSent, Forget, AnswerList, AnswerWait, WaitPolls, Drop,
              CommitFinish, CancelProbes
<1>8. ASSUME \/ JobStep \/ RestartReads \/ (\E m \in Mail, a \in Addresses : Arrive(m, a))
             \/ \E p \in Probes : ProbeElapses(p) \/ CleanUp(p)
      PROVE  Still
  BY <1>8 DEF JobStep, StartPass, PollProbe, Fetch, PollFails, PollAnswers, RestartReads, Arrive,
              ProbeElapses, CleanUp
<1>9. ASSUME NEW p \in Probes, NEW c \in Consumers, NEW a \in Addresses, CreateProbe(p, c, a)
      PROVE  Counts
  BY <1>9 DEF CreateProbe, Counted
<1>10. \/ Still \/ Counts
       \/ Tick \/ \E a \in Addresses : Shadow(a)
  <2> HIDE DEF Still, Counts
  <2> QED
    BY <1>4, <1>5, <1>6, <1>7, <1>8, <1>9 DEF TempMailNext
<1>11. MaxClock \in Nat /\ MaxRequests \in Nat
  BY Constants
<1> QED
  BY <1>10, <1>11 DEF TempMailTypeOK, Tick, Shadow, Counted

\* The mailboxes, the mail and the requests keep their types.
MailTypes ==
    /\ box \in [Addresses -> Boxes]
    /\ recorded \in 0 .. MaxBoxes
    /\ mail \in [Mail -> [at : 0 .. MaxClock, to : Addresses \cup {"none"},
                          owner : Consumers \cup {Nobody}, late : BOOLEAN]]
    /\ upstream \in [Addresses -> SUBSET Mail]
    /\ cache \in [Addresses -> SUBSET Mail]
    /\ req \in [Threads -> Requests]
    /\ gone \subseteq Mail

LEMMA LargeTypes ==
    ASSUME IInv, NEW w \in Threads, Large(w)
    PROVE  MailTypes'
<1> DEFINE a == req[w].addr
<1>1. /\ TempMailTypeOK /\ a \in Addresses /\ req[w] \in Requests /\ Idle \in Requests /\ NoBox \in Boxes
      /\ req[w].box \in Boxes /\ req[w].wanted \in SUBSET Mail
  BY RequestFields, IdleType
  DEF IInv, Large, Record, Forget, CommitFinish, Drop, InPhase, InOrder, Addressed
<1>2. /\ box \in [Addresses -> Boxes] /\ recorded \in 0 .. MaxBoxes /\ MaxBoxes \in Nat
      /\ upstream \in [Addresses -> SUBSET Mail] /\ cache \in [Addresses -> SUBSET Mail]
      /\ req \in [Threads -> Requests] /\ gone \subseteq Mail
      /\ mail \in [Mail -> [at : 0 .. MaxClock, to : Addresses \cup {"none"},
                            owner : Consumers \cup {Nobody}, late : BOOLEAN]]
  BY <1>1, Constants DEF TempMailTypeOK
<1>3. Excuse(a) \in [Threads -> Requests]
  <2>1. \A v \in Threads : Excuse(a)[v] \in Requests
    BY <1>1, Excused
  <2>2. Excuse(a) = [v \in Threads |-> Excuse(a)[v]]
    BY DEF Excuse
  <2> QED
    BY <2>1, <2>2
<1>4. CASE Record(w)
  <2>1. UNCHANGED <<mail, upstream, cache, gone>> /\ req' = [req EXCEPT ![w] = Idle]
    BY <1>4 DEF Record, Ends, Goto
  <2>2. CASE UNCHANGED <<box, recorded>>
    BY <1>1, <1>2, <2>1, <2>2 DEF MailTypes
  <2>3. CASE /\ recorded < MaxBoxes
             /\ box' = [box EXCEPT ![a] = [req[w].box EXCEPT !.id = recorded + 1]]
             /\ recorded' = recorded + 1
    <3>1. recorded + 1 \in 0 .. MaxBoxes
      BY <1>2, <2>3
    <3>2. [req[w].box EXCEPT !.id = recorded + 1] \in Boxes
      BY <1>1, <3>1 DEF Boxes
    <3> QED
      BY <1>1, <1>2, <2>1, <2>3, <3>1, <3>2 DEF MailTypes
  <2> QED
    BY <1>4, <2>2, <2>3 DEF Record
<1>5. CASE Forget(w)
  BY <1>1, <1>2, <1>5 DEF Forget, Ends, Goto, MailTypes
<1>6. CASE CommitFinish(w)
  <2>1. UNCHANGED <<recorded, mail, upstream, cache, gone>>
    BY <1>6 DEF CommitFinish
  <2>2. CASE Ends(w) /\ UNCHANGED box
    BY <1>1, <1>2, <2>1, <2>2 DEF Ends, Goto, MailTypes
  <2>3. CASE /\ box' = [box EXCEPT ![a].status = "finished"]
             /\ req' = [Excuse(a) EXCEPT ![w].phase = "finished"]
    <3>1. [box[a] EXCEPT !.status = "finished"] \in Boxes
      BY <1>1, <1>2 DEF Boxes
    <3>2. [Excuse(a)[w] EXCEPT !.phase = "finished"] \in Requests
      BY <1>1, Excused DEF Requests
    <3>3. /\ box' = [box EXCEPT ![a] = [box[a] EXCEPT !.status = "finished"]]
          /\ req' = [Excuse(a) EXCEPT ![w] = [Excuse(a)[w] EXCEPT !.phase = "finished"]]
      BY <2>3
    <3>4. box' \in [Addresses -> Boxes] /\ req' \in [Threads -> Requests]
      BY <1>2, <1>3, <3>1, <3>2, <3>3
    <3> QED
      BY <1>2, <2>1, <3>4 DEF MailTypes
  <2> QED
    BY <1>6, <2>2, <2>3 DEF CommitFinish
<1>7. CASE Drop(w)
  <2>1. UNCHANGED <<recorded, upstream, gone>>
    BY <1>7 DEF Drop
  <2>2. box' \in [Addresses -> Boxes] /\ cache' \in [Addresses -> SUBSET Mail]
    BY <1>1, <1>2, <1>7 DEF Drop
  <2>3. req' \in [Threads -> Requests]
    BY <1>1, <1>3, <1>7 DEF Drop
  <2>4. mail' \in [Mail -> [at : 0 .. MaxClock, to : Addresses \cup {"none"},
                            owner : Consumers \cup {Nobody}, late : BOOLEAN]]
    BY <1>2, <1>7 DEF Drop
  <2> QED
    BY <1>2, <2>1, <2>2, <2>3, <2>4 DEF MailTypes
<1> QED
  BY <1>4, <1>5, <1>6, <1>7 DEF Large

LEMMA TypeStep == ASSUME IInv, TempMailNext PROVE TempMailTypeOK'
<1>1. TempMailTypeOK
  BY DEF IInv
<1>2. ASSUME NEW w \in Threads, NEW r \in Requests, Serves(w, r) PROVE MailTypes'
  BY <1>1, <1>2 DEF Serves, MailTypes, TempMailTypeOK
<1>3. ASSUME NEW m \in Mail, NEW a \in Addresses, Arrive(m, a) PROVE MailTypes'
  <2> DEFINE new == [at |-> clock, to |-> a, owner |-> IF box[a].type = "task" THEN box[a].owner ELSE Nobody,
                     late |-> box[a].status = "finished"]
  <2>1. box[a].owner \in Consumers \cup {Nobody} /\ clock \in 0 .. MaxClock
    BY <1>1, Constants DEF TempMailTypeOK, Boxes
  <2>2. new \in [at : 0 .. MaxClock, to : Addresses \cup {"none"}, owner : Consumers \cup {Nobody},
                 late : BOOLEAN]
    BY <2>1
  <2>3. /\ mail' = [mail EXCEPT ![m] = new] /\ upstream' = [upstream EXCEPT ![a] = upstream[a] \cup {m}]
        /\ UNCHANGED <<box, recorded, cache, req, gone>>
    BY <1>3 DEF Arrive, storeVars
  <2> HIDE DEF new
  <2> QED
    BY <1>1, <2>2, <2>3 DEF MailTypes, TempMailTypeOK
<1>4. ASSUME RestartReads PROVE MailTypes'
  BY <1>1, <1>4, IdleType DEF RestartReads, storeVars, MailTypes, TempMailTypeOK
<1>5. ASSUME UNCHANGED <<box, recorded, mail, upstream, cache, req, gone>> PROVE MailTypes'
  BY <1>1, <1>5 DEF MailTypes, TempMailTypeOK
<1>6. MailTypes'
  BY <1>2, <1>3, <1>4, <1>5, StepShape, LargeTypes
<1> QED
  BY <1>1, <1>6, ProbeStep, CountersStep DEF MailTypes, TempMailTypeOK, ProbeTypes

-----------------------------------------------------------------------------
(* The invariant.                                                          *)

LEMMA InvInit == TempMailInit => IInv
<1> SUFFICES ASSUME TempMailInit PROVE IInv
  OBVIOUS
<1>1. TempMailTypeOK
  BY TypeInit
<1>2. MailInPlace /\ OwnersHold /\ GoneForGood
  BY DEF TempMailInit, MailInPlace, OwnersHold, GoneForGood
<1>3. ProbesInPlace
  <2>1. \A p \in Probes : probe[p].status = "none"
    BY DEF TempMailInit, NoProbe
  <2>2. batch = {} /\ req[PollJob].op = "idle"
    BY Constants DEF TempMailInit, Idle
  <2> QED
    BY <2>1, <2>2 DEF ProbesInPlace
<1>4. \A w \in Threads : InOrder(req[w])
  BY DEF TempMailInit, Idle, InOrder, Addressed, FoundInPlace, DeletesInPlace, StillAdmitted, AnswerIsHis,
         NotGone, Reading
<1> QED
  BY <1>1, <1>2, <1>3, <1>4 DEF IInv

LEMMA InvStep == IInv /\ [TempMailNext]_tempMailVars => IInv'
<1>1. ASSUME IInv, TempMailNext PROVE IInv'
  BY <1>1, TypeStep, OrderStep, ProbeStep DEF IInv
<1>2. ASSUME IInv, UNCHANGED tempMailVars PROVE IInv'
  <2>1. TempMailTypeOK' /\ ProbesInPlace'
    BY <1>2 DEF IInv, tempMailVars, storeVars, TempMailTypeOK, ProbesInPlace
  <2> QED
    BY <1>2, <2>1, StillStep DEF IInv, tempMailVars, storeVars
<1> QED
  BY <1>1, <1>2

-----------------------------------------------------------------------------
(* The theorems.                                                           *)

\* The mail, the mailboxes, the requests and the probes are in order in every
\* state the service can reach.
THEOREM MailInvariant == TempMailSpec => []IInv
BY InvInit, InvStep, PTL DEF TempMailSpec

\* Every variable keeps its type: no mailbox, message, request or probe is
\* ever in a state the code has no name for.
THEOREM TypeCorrect == TempMailSpec => []TempMailTypeOK
<1>1. IInv => TempMailTypeOK
  BY DEF IInv
<1> QED
  BY <1>1, MailInvariant, PTL

\* However many consumers share the service, and however an address is handed
\* out again, imported, finished or read meanwhile, the mail of a task mailbox
\* is answered to the consumer that applied for it and to nobody else.
THEOREM TaskMailStaysPrivate == TempMailSpec => []TaskMailIsPrivate
<1>1. IInv => TaskMailIsPrivate
  BY Constants DEF IInv, InOrder, AnswerIsHis, TaskMailIsPrivate
<1> QED
  BY <1>1, MailInvariant, PTL

\* What arrives after a task was finished is answered to nobody, save by a read
\* that had been admitted before.
THEOREM FinishedMeansClosed == TempMailSpec => []ClosedAfterFinish
<1>1. IInv => ClosedAfterFinish
  BY Constants DEF IInv, InOrder, AnswerIsHis, ClosedAfterFinish
<1> QED
  BY <1>1, MailInvariant, PTL

\* A deleted message does not come back into the store, whatever was read from
\* the provider since.
THEOREM DeletedIsGone == TempMailSpec => []DeletedStaysGone
<1>1. IInv => DeletedStaysGone
  BY DEF IInv, GoneForGood, DeletedStaysGone
<1> QED
  BY <1>1, MailInvariant, PTL

\* Nobody rewrites the outcome of a probe: neither the finishing of a task, nor
\* its time, nor a pass of the job that had not loaded it while it was pending.
THEOREM OutcomesStay == TempMailSpec => ProbeOutcomeStays
<1> DEFINE Stays == \A p \in Probes :
                       (probe[p].status \in Outcomes /\ p \notin batch /\ req[PollJob].probe # p)
                           => probe'[p].status \in {probe[p].status, "removed"}
<1>1. ASSUME IInv, TempMailNext, JobStep PROVE Stays
  <2>1. CASE StartPass \/ Fetch(PollJob)
    BY <2>1 DEF StartPass, Due, Outcomes, Fetch
  <2>2. ASSUME NEW q \in Probes, NEW outcome \in {"error", "matched"}, probe' = Outcome(q, outcome)
        PROVE  \A p \in Probes \ {q} : probe'[p] = probe[p]
    <3>1. probe \in [Probes -> ProbeTypes]
      BY <1>1 DEF IInv, TempMailTypeOK, ProbeTypes
    <3> QED
      BY <2>2, <3>1, OutcomeIsProbe DEF Outcomes
  <2>3. ASSUME NEW q \in Probes, PollProbe(q) PROVE Stays
    <3>1. q \in batch /\ (UNCHANGED probe \/ probe' = Outcome(q, "error"))
      BY <2>3 DEF PollProbe
    <3> QED
      BY <2>2, <3>1
  <2>4. CASE PollFails \/ PollAnswers
    <3> DEFINE q == req[PollJob].probe
    <3>1. /\ req[PollJob].op = "poll"
          /\ UNCHANGED probe \/ \E outcome \in {"error", "matched"} : probe' = Outcome(q, outcome)
      BY <2>4 DEF PollFails, PollAnswers, InPhase
    <3>2. q \in Probes
      BY <1>1, <3>1 DEF IInv, ProbesInPlace
    <3> QED
      BY <2>2, <3>1, <3>2
  <2> QED
    BY <1>1, <2>1, <2>3, <2>4 DEF JobStep
<1>2. ASSUME IInv, TempMailNext, ~JobStep PROVE Stays
  BY <1>2, ProbesOfOthers DEF OthersLeave, Outcomes
<1>3. ASSUME UNCHANGED tempMailVars PROVE Stays
  BY <1>3 DEF tempMailVars
<1>4. IInv /\ [TempMailNext]_tempMailVars => [Stays]_tempMailVars
  BY <1>1, <1>2, <1>3
<1> QED
  BY <1>4, MailInvariant, PTL DEF TempMailSpec, ProbeOutcomeStays

-----------------------------------------------------------------------------
(* The cooldown of a pool mailbox: the inductive invariant.                *)

\* Until the row is edited, updated_at is the time the cooldown began, and in
\* the form the pool writes.
StampedByPool == status = "cooldown" /\ ~edited => form = "iso" /\ served = age

CooldownInv == CooldownTypeOK /\ StampedByPool

\* A fresh row is not in cooldown.
LEMMA CooldownInvInit == CooldownInit => CooldownInv
<1>1. 0 \in 0 .. MaxAge /\ EditGap \in 0 .. EditGap
  BY PoolCooldownAssumption DEF PoolCooldownAssumption, MaxAge
<1> QED
  BY <1>1 DEF CooldownInit, CooldownInv, CooldownTypeOK, StampedByPool

\* The time of day stays within the day.
LEMMA TimeOfDay ==
    ASSUME NEW t \in 0 .. Day - 1
    PROVE  (t + 1) % Day \in 0 .. Day - 1
<1>1. Day \in Nat \ {0}
  BY PoolCooldownAssumption DEF PoolCooldownAssumption
<1> QED
  BY <1>1

\* A stretch of time grows by a tick, or stays at its cap.
LEMMA CappedType ==
    ASSUME NEW cap \in Nat, NEW n \in 0 .. cap
    PROVE  Capped(n + 1, cap) \in 0 .. cap
BY DEF Capped

\* Every step keeps the invariant.
LEMMA CooldownInvStep == CooldownInv /\ [CooldownNext]_cooldownVars => CooldownInv'
<1> SUFFICES ASSUME CooldownInv, [CooldownNext]_cooldownVars PROVE CooldownInv'
  OBVIOUS
<1>1. MaxAge \in Nat /\ EditGap \in Nat /\ 0 \in 0 .. MaxAge /\ 0 \in 0 .. EditGap
  BY PoolCooldownAssumption DEF PoolCooldownAssumption, MaxAge
<1>2. CASE ClaimRandom \/ EnterCooldown \/ Edit \/ RecoverCooldown
  BY <1>1, <1>2
  DEF ClaimRandom, EnterCooldown, Edit, RecoverCooldown, Stamp, CooldownInv, CooldownTypeOK, StampedByPool
<1>3. CASE CooldownTick
  <2>1. /\ Capped(age + 1, MaxAge) \in 0 .. MaxAge /\ Capped(served + 1, MaxAge) \in 0 .. MaxAge
        /\ Capped(quiet + 1, EditGap) \in 0 .. EditGap /\ (tod + 1) % Day \in 0 .. Day - 1
    BY <1>1, CappedType, TimeOfDay DEF CooldownInv, CooldownTypeOK
  <2> QED
    BY <1>1, <1>3, <2>1 DEF CooldownTick, CooldownInv, CooldownTypeOK, StampedByPool
<1>4. CASE UNCHANGED cooldownVars
  BY <1>4 DEF cooldownVars, CooldownInv, CooldownTypeOK, StampedByPool
<1> QED
  BY <1>2, <1>3, <1>4 DEF CooldownNext

-----------------------------------------------------------------------------
(* Dates.                                                                  *)

\* A time is within the day it is of.
LEMMA DayOf ==
    ASSUME NEW x \in Int, NEW d \in Nat \ {0}
    PROVE  /\ x \div d \in Int
           /\ d * (x \div d) <= x /\ x < d * (x \div d) + d
OBVIOUS

\* An earlier date is an earlier time, and a date that is not later is less
\* than a day later.
LEMMA DatesInOrder ==
    ASSUME NEW x \in Int, NEW y \in Int, NEW d \in Nat \ {0}
    PROVE  /\ x \div d < y \div d => x < y
           /\ x \div d <= y \div d => x < y + d
<1> DEFINE p == x \div d
           q == y \div d
<1>1. p \in Int /\ q \in Int /\ d * p <= x /\ x < d * p + d /\ d * q <= y /\ y < d * q + d
  BY DayOf
<1> HIDE DEF p, q
<1>2. p < q => d * p + d <= d * q
  <2> SUFFICES ASSUME p < q PROVE d * p + d <= d * q
    OBVIOUS
  <2>1. PICK k \in Nat : q = p + 1 + k
    <3>1. q - p - 1 \in Nat /\ q = p + 1 + (q - p - 1)
      BY <1>1
    <3> QED
      BY <3>1
  <2>2. d * q = d * p + d + d * k /\ d * k >= 0
    BY <1>1, <2>1
  <2> QED
    BY <1>1, <2>2
<1>3. d * p \in Int /\ d * q \in Int
  BY <1>1
<1> QED
  BY <1>1, <1>2, <1>3 DEF p, q

-----------------------------------------------------------------------------
(* The theorems.                                                           *)

\* The row keeps its types, and an unedited row its stamp.
THEOREM CooldownInvariant == CooldownSpec => []CooldownInv
BY CooldownInvInit, CooldownInvStep, PTL DEF CooldownSpec

\* A mailbox whose row nobody touches rests for longer than the cooldown, over any
\* midnight, and one that is edited comes back less than a day too early.
THEOREM CooldownIsKept == CooldownSpec => CooldownKept
<1> DEFINE Keeps == Recovered => /\ age > Cooldown - Day
                                 /\ ~edited => served > Cooldown
<1>1. ASSUME CooldownInv, CooldownNext, Recovered PROVE Keeps
  <2>1. status = "cooldown" /\ CooldownDue
    BY <1>1 DEF CooldownNext, Recovered, ClaimRandom, EnterCooldown, Edit, RecoverCooldown, CooldownTick
  <2>2. /\ tod \in Int /\ age \in Int /\ Day \in Nat \ {0} /\ Cooldown \in Int
        /\ tod - age \in Int /\ tod - Cooldown \in Int
    BY <1>1, PoolCooldownAssumption DEF PoolCooldownAssumption, CooldownInv, CooldownTypeOK, MaxAge
  <2>3. /\ StampDay < CutoffDay => tod - age < tod - Cooldown
        /\ StampDay <= CutoffDay => tod - age < (tod - Cooldown) + Day
    BY <2>2, DatesInOrder DEF StampDay, CutoffDay
  <2>4. StampDay \in Int /\ CutoffDay \in Int
    BY <2>2, DayOf DEF StampDay, CutoffDay
  <2>5. StampDay <= CutoffDay /\ (StampDay < CutoffDay \/ form = "sqlite" \/ age > Cooldown)
    BY <2>1, <2>4 DEF CooldownDue
  <2>6. ~edited => form = "iso" /\ served = age
    BY <1>1, <2>1 DEF CooldownInv, StampedByPool
  <2> QED
    BY <2>2, <2>3, <2>5, <2>6
<1>2. ASSUME UNCHANGED cooldownVars PROVE ~Recovered
  BY <1>2 DEF cooldownVars, Recovered
<1>3. CooldownInv /\ [CooldownNext]_cooldownVars => [Keeps]_cooldownVars
  BY <1>1
<1> QED
  BY <1>3, CooldownInvariant, PTL DEF CooldownSpec, CooldownKept

-----------------------------------------------------------------------------
(* The two in one program.                                                 *)

\* A step of the program is a step of each part, or leaves it alone.
LEMMA ClocksSteps ==
    [ClocksNext]_clocksVars => [TempMailNext]_tempMailVars /\ [CooldownNext]_cooldownVars
BY DEF ClocksNext, clocksVars

\* Run with the other, each part keeps its invariant, and with it the types of
\* its state.
THEOREM ClocksTypeCorrect == ClocksSpec => []TypeOK
<1>1. ClocksInit => IInv /\ CooldownInv
  BY InvInit, CooldownInvInit DEF ClocksInit
<1>2. IInv /\ CooldownInv /\ [ClocksNext]_clocksVars => IInv' /\ CooldownInv'
  BY ClocksSteps, InvStep, CooldownInvStep
<1>3. IInv /\ CooldownInv => TypeOK
  BY DEF IInv, CooldownInv, TypeOK
<1> QED
  BY <1>1, <1>2, <1>3, PTL DEF ClocksSpec
=============================================================================

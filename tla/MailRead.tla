------------------------------ MODULE MailRead ------------------------------
(***************************************************************************)
(* Reading an account's mail.  A request tries the ways its kind of        *)
(* account has, one after the other, until one of them works or forbids to *)
(* go on: Graph, then the new and the old IMAP server, or the account's    *)
(* own IMAP server.  A list and an extraction also bring the account's     *)
(* compact summary up to date, by reading it, merging and writing it back. *)
(*                                                                         *)
(* Mails are numbered as they arrive.  Graph and the generic IMAP reader   *)
(* name a mail for good, the other IMAP reader by its position in the      *)
(* folder.  Only Graph's dates are readable: those of the IMAP readers     *)
(* count as no date at all.                                                *)
(***************************************************************************)
EXTENDS Naturals, Sequences, FiniteSetsExt

CONSTANTS Readers,    \* threads that answer requests
          MaxMails,   \* bound: mails that arrive
          Coded,      \* those of them that hold a code
          Linked,     \* and those that hold a link to verify by
          MaxReads,   \* bound: requests
          MaxEdits    \* bound: edits of the account's token

ASSUME MailReadAssumption ==
    /\ {MaxMails, MaxReads, MaxEdits} \subseteq Nat
    /\ Coded \subseteq 1 .. MaxMails /\ Linked \subseteq 1 .. MaxMails

VARIABLES kind,       \* accounts.account_type
          came,       \* mails that have arrived
          folders,    \* the mails of each folder
          summary,    \* the compact summary of the account's row
          token,      \* whose authorization accounts.refresh_token is of
          reader,     \* what each thread is doing
          reads,      \* requests begun so far
          seen,       \* history: the latest dates that were merged
          overlapped  \* history: a summary was written over one that was not read

mailReadVars == <<kind, came, folders, summary, token, reader, reads, seen, overlapped>>

Mails == 1 .. MaxMails
GraphWays == {"graph", "junk"}
ImapWays == {"imap_new", "imap_old"}
Ways == GraphWays \cup ImapWays \cup {"generic"}
Names == {"graph", "imap", "generic"}
\* A mail as a way lists it, with its position if the way names it by that.
Items == [mail : Mails, by : Names, pos : 0 .. MaxMails]
NoItem == [mail |-> 0, by |-> "graph", pos |-> 0]
NoSummary == [mail |-> 0, at |-> 0, code |-> 0, codeAt |-> 0]
Summaries == [mail : 0 .. MaxMails, at : 0 .. MaxMails, code : 0 .. MaxMails, codeAt : 0 .. MaxMails]

IdleReader == [op |-> "idle", stage |-> "idle", folder |-> "inbox", left |-> <<>>,
               worked |-> FALSE, found |-> {}, id |-> NoItem, moved |-> FALSE, read |-> 0,
               sum |-> NoSummary, token |-> 0, answer |-> "none"]

ReadRequests ==
    [op : {"idle", "list", "external", "detail", "external_detail", "verify", "extract", "delete"},
     stage : {"idle", "list", "detail", "remove", "merge", "write", "answered"},
     folder : {"inbox", "junkemail"}, left : Seq(Ways), worked : BOOLEAN,
     found : SUBSET Items, id : Items \cup {NoItem}, moved : BOOLEAN, read : 0 .. MaxMails,
     sum : Summaries, token : 0 .. MaxEdits, answer : {"none", "mail", "code", "internal_error"}]

MailReadTypeOK ==
    /\ kind \in {"outlook", "imap"}
    /\ came \in 0 .. MaxMails
    /\ folders \in [{"inbox", "junkemail"} -> SUBSET Mails]
    /\ summary \in Summaries
    /\ token \in 0 .. MaxEdits
    /\ reader \in [Readers -> ReadRequests]
    /\ reads \in 0 .. MaxReads
    /\ seen \in [at : 0 .. MaxMails, codeAt : 0 .. MaxMails]
    /\ overlapped \in BOOLEAN

MailReadInit ==
    /\ kind \in {"outlook", "imap"}
    /\ came = 0
    /\ folders = [f \in {"inbox", "junkemail"} |-> {}]
    /\ summary = NoSummary
    /\ token = 0
    /\ reader = [w \in Readers |-> IdleReader]
    /\ reads = 0
    /\ seen = [at |-> 0, codeAt |-> 0]
    /\ overlapped = FALSE

Set(w, r) == reader' = [reader EXCEPT ![w] = r]

\* An answer that shows a mail is kept until it has been sent; the others, a
\* list and an error the code foresees, are sent at once.
Answer(r, answer) ==
    IF answer \in {"mail", "code", "internal_error"}
    THEN [IdleReader EXCEPT !.op = r.op, !.stage = "answered", !.id = r.id, !.read = r.read,
                            !.moved = r.moved, !.answer = answer]
    ELSE IdleReader

-----------------------------------------------------------------------------
(* The mailbox and the account.                                            *)

MailComes(f) ==
    /\ came < MaxMails
    /\ came' = came + 1
    /\ folders' = [folders EXCEPT ![f] = @ \cup {came + 1}]
    /\ UNCHANGED <<kind, summary, token, reader, reads, seen, overlapped>>

\* Mutant: positions count from the newest mail.
PositionFromEnd(m, f) == Cardinality({k \in folders[f] : k >= m})

\* The sequence number of a mail in its folder.
Position(m, f) == Cardinality({k \in folders[f] : k <= m})

\* A mail leaves its folder: positions after it are others'.
Without(m) ==
    [v \in Readers |->
        IF m \in folders[reader[v].folder] /\ \E i \in reader[v].found \cup {reader[v].id} : i.pos > 0 /\ m <= i.mail
        THEN [reader[v] EXCEPT !.moved = TRUE] ELSE reader[v]]
Removed(m) == [f \in DOMAIN folders |-> folders[f] \ {m}]

\* The owner removes a mail with another program.
MailRemoved(m) ==
    /\ \E f \in DOMAIN folders : m \in folders[f]
    /\ folders' = Removed(m)
    /\ reader' = Without(m)
    /\ UNCHANGED <<kind, came, summary, token, reads, seen, overlapped>>

\* The account is authorized anew and its token edited.
EditToken ==
    /\ kind = "outlook" /\ token < MaxEdits
    /\ token' = token + 1
    /\ UNCHANGED <<kind, came, folders, summary, reader, reads, seen, overlapped>>

-----------------------------------------------------------------------------
(* A request.                                                              *)

Plan(op) ==
    IF kind = "imap" THEN <<"generic">>
    ELSE IF op = "extract" THEN <<"graph", "junk", "imap_new", "imap_old">>
    ELSE IF op = "detail" THEN <<"graph", "imap_new">>
    ELSE <<"graph", "imap_new", "imap_old">>

\* A mail of a folder as a way names it.
Item(m, way, f) ==
    CASE way \in GraphWays -> [mail |-> m, by |-> "graph", pos |-> 0]
      [] way \in ImapWays  -> [mail |-> m, by |-> "imap", pos |-> Position(m, f)]
      [] OTHER             -> [mail |-> m, by |-> "generic", pos |-> 0]

Start(w, r) ==
    /\ reader[w].stage = "idle"
    /\ reads < MaxReads /\ reads' = reads + 1
    /\ Set(w, [r EXCEPT !.token = IF r.op \in {"list", "extract"} THEN token ELSE 0, !.left = Plan(r.op)])
    /\ UNCHANGED <<kind, came, folders, summary, token, seen, overlapped>>

\* A list for the page or for a consumer, of a folder; a consumer's search for
\* a code, and the page's.
StartMailList(w, op, f) == Start(w, [IdleReader EXCEPT !.op = op, !.stage = "list", !.folder = f])

\* One mail, or mails to delete, named by an earlier list of the folder.
StartMailDetail(w, op, m, way, f) ==
    /\ m \in folders[f]
    /\ (way = "generic") <=> (kind = "imap")
    /\ Start(w, [IdleReader EXCEPT !.op = op, !.stage = "detail", !.folder = f, !.id = Item(m, way, f)])

\* Mails of other programs' accounts are not deleted.
StartMailDelete(w, m, way, f) ==
    /\ kind = "outlook" /\ way # "generic" /\ m \in folders[f]
    /\ Start(w, [IdleReader EXCEPT !.op = "delete", !.stage = "remove", !.folder = f, !.id = Item(m, way, f)])

\* The page's detail may be asked for without Graph.
SkipGraph(w) ==
    /\ reader[w].op = "detail" /\ reader[w].left = <<"graph", "imap_new">>
    /\ Set(w, [reader[w] EXCEPT !.left = Tail(@)])
    /\ UNCHANGED <<kind, came, folders, summary, token, reads, seen, overlapped>>

InStage(w, stage) == reader[w].stage = stage /\ reader[w].left # <<>>
Way(w) == Head(reader[w].left)
Worked(r) == [r EXCEPT !.left = Tail(@), !.worked = r.op = "extract" /\ r.stage = "list", !.token = 0]
Failed(r) == [r EXCEPT !.left = Tail(@), !.token = 0]

-----------------------------------------------------------------------------
(* Lists.                                                                  *)

NewestItem(items) == CHOOSE i \in items : \A k \in items : k.mail <= i.mail

\* The page and the consumer read a page of the folder, the extraction its
\* last mail.
Listed(r, way) ==
    LET f == IF way = "junk" THEN "junkemail" ELSE r.folder
        held == folders[f]
        page == IF r.op = "extract" THEN {m \in held : \A k \in held : k <= m} ELSE held
    IN {Item(m, way, f) : m \in page}

\* Graph may hand out a new token with the mails.  The list for the page and
\* the inbox read of an extraction save it, whatever the row holds by now.
Rotates(r, way) ==
    IF r.op \in {"list", "extract"} /\ way = "graph" THEN token' \in {token, r.token} ELSE UNCHANGED token

ListWorks(w) ==
    LET r == reader[w]
        got == [Worked(r) EXCEPT !.found = @ \cup Listed(r, Way(w))]
    IN
    /\ InStage(w, "list")
    /\ Rotates(r, Way(w))
    /\ CASE r.op = "list"     -> Set(w, [got EXCEPT !.stage = "merge"])
         [] r.op = "external" -> Set(w, Answer(got, "mails"))
         [] r.op = "verify"   ->
                IF got.found = {} THEN Set(w, Answer(got, "not_found"))
                ELSE Set(w, [got EXCEPT !.id = NewestItem(got.found), !.found = {}, !.stage = "detail",
                                        !.left = Plan("verify")])
         \* Both folders are read; IMAP only if that brought no mail.
         [] r.op = "extract"  ->
                Set(w, [got EXCEPT !.left = IF Way(w) = "junk" /\ got.found # {} THEN <<>> ELSE @])
    /\ UNCHANGED <<kind, came, folders, summary, reads, seen, overlapped>>

\* A failed list goes on to the next way, unless the proxy is at fault or, for
\* the page, Graph says that the authorization has expired.
ListFails(w) ==
    LET r == reader[w]
        failed == Failed(r)
    IN
    /\ InStage(w, "list")
    /\ Set(w, IF r.op = "extract" /\ kind = "outlook"
              THEN [failed EXCEPT !.left = IF Way(w) = "junk" /\ r.found # {} THEN <<>> ELSE @]
              ELSE IF failed.left = <<>> THEN Answer(failed, "failed") ELSE failed)
    /\ UNCHANGED <<kind, came, folders, summary, token, reads, seen, overlapped>>

ListForbids(w) ==
    LET r == reader[w] IN
    /\ InStage(w, "list") /\ Way(w) \in GraphWays
    /\ \/ r.op # "extract" /\ Set(w, Answer(r, "proxy"))
       \/ r.op \in {"list", "extract"} /\ ~r.worked /\ Set(w, Answer(r, "expired"))
    /\ UNCHANGED <<kind, came, folders, summary, token, reads, seen, overlapped>>

\* The extraction goes on with the latest mail by the text of its date: for
\* dates of the IMAP readers that may be any.
PickLatest(w) ==
    LET r == reader[w] IN
    /\ r.op = "extract" /\ r.stage = "list" /\ r.left = <<>>
    /\ IF r.found = {} THEN Set(w, Answer(r, "not_found"))
       ELSE \E item \in r.found :
                /\ item.by = "graph" => \A k \in r.found : k.mail <= item.mail
                /\ Set(w, [r EXCEPT !.id = item, !.found = {}, !.worked = FALSE, !.stage = "detail",
                              !.left = IF kind = "imap" THEN <<"generic">> ELSE <<"graph", "imap_new">>])
    /\ UNCHANGED <<kind, came, folders, summary, token, reads, seen, overlapped>>

-----------------------------------------------------------------------------
(* One mail.                                                               *)

\* The mail a way finds under the name: 0 if there is none.  Graph looks into
\* every folder, the others into the one that is named.
Holds(r, way) ==
    CASE way = "graph"   -> IF r.id.by = "graph" /\ \E f \in DOMAIN folders : r.id.mail \in folders[f]
                            THEN r.id.mail ELSE 0
      [] way = "generic" -> IF r.id.mail \in folders[r.folder] THEN r.id.mail ELSE 0
      [] OTHER           -> IF \E m \in folders[r.folder] : Position(m, r.folder) = r.id.pos
                            THEN CHOOSE m \in folders[r.folder] : Position(m, r.folder) = r.id.pos ELSE 0

\* What an extraction makes of the mail it has read: a code or a link will do.
Extracted(r) ==
    IF r.read \in Coded \cup Linked THEN [r EXCEPT !.stage = "merge"] ELSE Answer(r, "no_code")

\* An extraction takes the body of a mail for the record Graph makes of it;
\* the text the IMAP reader returns is none, and nothing catches that.
DetailWorks(w) ==
    LET r == reader[w]
        got == [Worked(r) EXCEPT !.read = Holds(r, Way(w))]
    IN
    /\ InStage(w, "detail") /\ Holds(r, Way(w)) # 0
    /\ Set(w, IF r.op # "extract" THEN Answer(got, "mail")
              ELSE IF Way(w) = "imap_new" THEN Answer(got, "internal_error") ELSE Extracted(got))
    /\ UNCHANGED <<kind, came, folders, summary, token, reads, seen, overlapped>>

\* An extraction from an Outlook account then makes do with the preview.
DetailFails(w) ==
    LET r == reader[w]
        failed == Failed(r)
    IN
    /\ InStage(w, "detail")
    /\ Set(w, IF failed.left # <<>> THEN failed
              ELSE IF r.op = "extract" /\ kind = "outlook" THEN Extracted([failed EXCEPT !.read = r.id.mail])
              ELSE Answer(failed, "failed"))
    /\ UNCHANGED <<kind, came, folders, summary, token, reads, seen, overlapped>>

-----------------------------------------------------------------------------
(* Deleting mails.                                                         *)

\* Graph deletes, and one mail deleted is a success.
RemoveWorks(w) ==
    LET r == reader[w] IN
    /\ InStage(w, "remove") /\ Way(w) = "graph" /\ Holds(r, "graph") # 0
    /\ folders' = Removed(r.id.mail)
    /\ reader' = [Without(r.id.mail) EXCEPT ![w] = Answer(Worked(r), "deleted")]
    /\ UNCHANGED <<kind, came, summary, token, reads, seen, overlapped>>

\* The IMAP servers are asked and never delete.
RemoveFails(w) ==
    LET failed == Failed(reader[w]) IN
    /\ InStage(w, "remove")
    /\ \/ Way(w) = "graph" /\ Set(w, Answer(reader[w], "proxy"))
       \/ Set(w, IF failed.left = <<>> THEN Answer(failed, "failed") ELSE failed)
    /\ UNCHANGED <<kind, came, folders, summary, token, reads, seen, overlapped>>

-----------------------------------------------------------------------------
(* The compact summary.                                                    *)

Time(item) == IF item.by = "graph" THEN item.mail ELSE 0

ReadSummary(w) ==
    /\ reader[w].stage = "merge"
    /\ Set(w, [reader[w] EXCEPT !.sum = summary, !.stage = "write"])
    /\ UNCHANGED <<kind, came, folders, summary, token, reads, seen, overlapped>>

\* The mail a list or an extraction brings to the summary: the first of those
\* with the latest date; and the code, which is the last of them.  A mail with a
\* link alone brings no code.
LatestMail(r) ==
    IF r.op = "extract" THEN r.id
    ELSE IF r.found = {} THEN NoItem
    ELSE NewestItem(r.found)

LatestCode(r) ==
    LET coded == {i \in r.found : i.mail \in Coded} IN
    IF r.op = "extract" THEN IF r.read \in Coded THEN r.id ELSE NoItem
    ELSE IF coded = {} THEN NoItem
    ELSE CHOOSE i \in coded : \A k \in coded : IF i.by = "graph" THEN k.mail <= i.mail ELSE k.mail >= i.mail

\* Mutant: the dates are not compared.
Replace(sum, item, code) ==
    [mail |-> IF item = NoItem THEN sum.mail ELSE item.mail, at |-> IF item = NoItem THEN sum.at ELSE Time(item),
     code |-> IF code = NoItem THEN sum.code ELSE code.mail, codeAt |-> IF code = NoItem THEN sum.codeAt ELSE Time(code)]

Merge(sum, item, code) ==
    LET mailStays == item = NoItem \/ Time(item) < sum.at
        codeStays == code = NoItem \/ Time(code) < sum.codeAt
    IN [mail |-> IF mailStays THEN sum.mail ELSE item.mail, at |-> IF mailStays THEN sum.at ELSE Time(item),
        code |-> IF codeStays THEN sum.code ELSE code.mail,
        codeAt |-> IF codeStays THEN sum.codeAt ELSE Time(code)]

WriteSummary(w) ==
    LET r == reader[w]
        item == LatestMail(r)
        code == LatestCode(r)
    IN
    /\ r.stage = "write"
    /\ summary' = Merge(r.sum, item, code)
    /\ seen' = [at |-> Max({seen.at, Time(item)}), codeAt |-> Max({seen.codeAt, Time(code)})]
    /\ overlapped' = (overlapped \/ r.sum # summary)
    /\ Set(w, Answer(r, IF r.op = "list" THEN "mails" ELSE "code"))
    /\ UNCHANGED <<kind, came, folders, token, reads>>

AnswerMail(w) ==
    /\ reader[w].stage = "answered"
    /\ Set(w, IdleReader)
    /\ UNCHANGED <<kind, came, folders, summary, token, reads, seen, overlapped>>

-----------------------------------------------------------------------------
MailReadNext ==
    \/ \E f \in DOMAIN folders : MailComes(f)
    \/ \E m \in Mails : MailRemoved(m)
    \/ EditToken
    \/ \E w \in Readers :
        \/ \E f \in DOMAIN folders, op \in {"list", "external", "verify"} : StartMailList(w, op, f)
        \/ StartMailList(w, "extract", "inbox")
        \/ \E m \in Mails, way \in {"graph", "imap_new", "generic"}, f \in DOMAIN folders :
            \/ \E op \in {"detail", "external_detail"} : StartMailDetail(w, op, m, way, f)
            \/ StartMailDelete(w, m, way, f)
        \/ SkipGraph(w)
        \/ ListWorks(w)
        \/ ListFails(w)
        \/ ListForbids(w)
        \/ PickLatest(w)
        \/ DetailWorks(w)
        \/ DetailFails(w)
        \/ RemoveWorks(w)
        \/ RemoveFails(w)
        \/ ReadSummary(w)
        \/ WriteSummary(w)
        \/ AnswerMail(w)

MailReadSpec == MailReadInit /\ [][MailReadNext]_mailReadVars

-----------------------------------------------------------------------------
(* Properties.                                                             *)

\* The mail that is answered, or whose code is, is the one that was listed,
\* unless it was named by its position and a mail before it has gone since.
DetailIsTheMail ==
    \A w \in Readers : LET r == reader[w] IN
        (r.stage \in {"merge", "write", "answered"} /\ r.read # 0 /\ ~r.moved) => r.read = r.id.mail

\* The summary has the latest readable dates of all the mails that reads
\* brought to it, unless two of them overlapped.
SummaryKeepsUp == overlapped \/ (summary.at = seen.at /\ summary.codeAt = seen.codeAt)

\* An extraction whose Graph reads failed goes on with IMAP, as its
\* documentation says.  The code breaks it.
ExtractFallsBack ==
    \A w \in Readers : reader[w].op = "extract" => reader[w].answer # "internal_error"
=============================================================================

--------------------------- MODULE MailReadProofs ---------------------------
(***************************************************************************)
(* Proofs about MailRead, for any number of readers, mails, requests and   *)
(* edits: the mail that is shown is the one that was meant, also where a   *)
(* name is only a position, and the summary keeps up with what was read.   *)
(* And about Extractor, for any mail: the codes and links it gives are the *)
(* mail's, and it gives one where it must.                                 *)
(***************************************************************************)
EXTENDS MailRead, Extractor, FiniteSetTheorems, SequenceTheorems, WellFoundedInduction, TLAPS

-----------------------------------------------------------------------------
(* The inductive invariant, part by part.                                  *)

\* What a request may have at its stage.  A list for the page has the mails of
\* one way only.
OfStage(r) ==
    /\ r.stage \in {"idle", "list", "detail", "remove"} => r.read = 0
    /\ r.stage = "list" => r.op \in {"list", "external", "verify", "extract"}
    /\ r.stage \in {"detail", "remove"} => r.op \notin {"list", "external"}
    /\ r.stage \in {"merge", "write"} => r.op \in {"list", "extract"}
    /\ r.op = "list" => /\ r.stage \in {"idle", "list"} => r.found = {}
                        /\ \A i, k \in r.found : i.by = k.by

\* A mail named for good has no position.
NamesFit(r) == \A i \in r.found \cup {r.id} : i.by # "imap" => i.pos = 0

\* A position is still that of the mail it was given to.
Points(i, f) == i.by = "imap" => i.mail \in folders[f] /\ i.pos = Position(i.mail, f)
InPlace(r) ==
    r.stage \in {"list", "detail", "remove"} /\ ~r.moved /\ r.op \notin {"list", "external"} =>
        \A i \in r.found \cup {r.id} : Points(i, r.folder)

\* What was read is the mail that was meant.
ReadsIt(r) ==
    r.stage \in {"merge", "write", "answered"} /\ r.read # 0 /\ ~r.moved => r.read = r.id.mail

ReadInOrder(r) == OfStage(r) /\ NamesFit(r) /\ InPlace(r) /\ ReadsIt(r)

MailsHaveCome == \A f \in DOMAIN folders : folders[f] \subseteq 1 .. came

IInv == /\ MailReadTypeOK
        /\ MailsHaveCome
        /\ \A w \in Readers : ReadInOrder(reader[w])
        /\ SummaryKeepsUp

-----------------------------------------------------------------------------
(* Mails, positions and ways.                                              *)

LEMMA Constants == MaxMails \in Nat /\ MaxReads \in Nat /\ MaxEdits \in Nat
BY MailReadAssumption DEF MailReadAssumption

\* The natural numbers up to a bound are well-ordered from above: the segments
\* above the members of a set of them are finite, and inclusion of finite sets
\* is well-founded.
LEMMA LargestExists ==
    ASSUME NEW n \in Nat, NEW T, T \subseteq 0 .. n, T # {}
    PROVE  \E x \in T : \A y \in T : y <= x
<1> DEFINE Above == {x .. n : x \in T}
<1>1. IsWellFoundedOn(StrictSubsetOrdering(Nat), FiniteSubsetsOf(Nat))
  BY FS_StrictSubsetOrderingWellFounded
<1>2. Above \subseteq FiniteSubsetsOf(Nat) /\ Above # {}
  <2>1. \A x \in 0 .. n : x .. n \subseteq Nat /\ IsFiniteSet(x .. n)
    BY FS_Interval
  <2> QED
    BY <2>1 DEF FiniteSubsetsOf
<1>3. PICK s \in Above : \A t \in Above : <<t, s>> \notin StrictSubsetOrdering(Nat)
  <2> HIDE DEF Above
  <2> QED
    BY <1>1, <1>2, WFMin
<1>4. PICK x \in T : s = x .. n
  OBVIOUS
<1>5. ASSUME NEW y \in T, x < y PROVE FALSE
  <2>1. y .. n \in Above /\ y .. n \in SUBSET Nat /\ s \in SUBSET Nat
    BY <1>4
  <2>2. x \in x .. n /\ x \notin y .. n /\ y .. n \subseteq x .. n
    BY <1>5
  <2> QED
    BY <1>3, <1>4, <2>1, <2>2 DEF StrictSubsetOrdering
<1> QED
  BY <1>5

\* Among some items there is one of the last mail, and one of the first.
LEMMA EndsExist ==
    ASSUME NEW S \in SUBSET Items, S # {}
    PROVE  /\ \E i \in S : \A k \in S : k.mail <= i.mail
           /\ \E i \in S : \A k \in S : k.mail >= i.mail
<1>1. \A i \in S : i.mail \in 0 .. MaxMails
  BY Constants DEF Items, Mails
<1>2. PICK x \in {i.mail : i \in S} : \A y \in {i.mail : i \in S} : y <= x
  <2> DEFINE T == {i.mail : i \in S}
  <2>1. T \subseteq 0 .. MaxMails /\ T # {}
    BY <1>1
  <2> HIDE DEF T
  <2>2. \E x \in T : \A y \in T : y <= x
    BY <2>1, LargestExists, Constants
  <2> QED
    BY <2>2 DEF T
<1>3. PICK x_ \in {MaxMails - i.mail : i \in S} : \A y \in {MaxMails - i.mail : i \in S} : y <= x_
  <2> DEFINE T == {MaxMails - i.mail : i \in S}
  <2>1. T \subseteq 0 .. MaxMails /\ T # {}
    BY <1>1, Constants
  <2> HIDE DEF T
  <2>2. \E x_ \in T : \A y \in T : y <= x_
    BY <2>1, LargestExists, Constants
  <2> QED
    BY <2>2 DEF T
<1>4. PICK i \in S : x_ = MaxMails - i.mail
  OBVIOUS
<1>5. \A k \in S : MaxMails - k.mail <= MaxMails - i.mail
  BY <1>3, <1>4
<1> QED
  BY <1>1, <1>2, <1>4, <1>5, Constants

LEMMA NewestIsOne ==
    ASSUME NEW S \in SUBSET Items, S # {}
    PROVE  NewestItem(S) \in S
BY EndsExist DEF NewestItem

\* Positions in a folder.
Folders == {"inbox", "junkemail"}

LEMMA FolderIsFinite ==
    ASSUME MailReadTypeOK, NEW f \in Folders
    PROVE  /\ folders[f] \in SUBSET Mails
           /\ IsFiniteSet(folders[f])
           /\ \A T \in SUBSET folders[f] :
                 IsFiniteSet(T) /\ Cardinality(T) \in 0 .. MaxMails
<1>1. folders[f] \in SUBSET Mails
  BY DEF MailReadTypeOK, Folders
<1>2. IsFiniteSet(Mails) /\ Cardinality(Mails) = MaxMails
  <2>1. /\ IsFiniteSet(1 .. MaxMails)
        /\ Cardinality(1 .. MaxMails) = IF 1 > MaxMails THEN 0 ELSE MaxMails - 1 + 1
    BY FS_Interval, Constants
  <2> QED
    BY <2>1, Constants DEF Mails
<1>3. ASSUME NEW T \in SUBSET Mails PROVE IsFiniteSet(T) /\ Cardinality(T) \in 0 .. MaxMails
  BY <1>2, FS_Subset, FS_CardinalityType, Constants
<1> QED
  BY <1>1, <1>3

LEMMA PositionType ==
    ASSUME MailReadTypeOK, NEW f \in Folders, NEW m \in Mails
    PROVE  Position(m, f) \in 0 .. MaxMails
BY FolderIsFinite DEF Position

\* Every mail has a position, and two mails have two.
LEMMA PositionTells ==
    ASSUME MailReadTypeOK, NEW f \in Folders, NEW m \in folders[f]
    PROVE  /\ Position(m, f) > 0
           /\ \A k \in folders[f] : Position(k, f) = Position(m, f) => k = m
<1> DEFINE UpTo(k) == {n \in folders[f] : n <= k}
<1>1. \A k \in folders[f] : k \in Nat
  BY FolderIsFinite, Constants DEF Mails
<1>2. \A k \in folders[f] : k \in UpTo(k) /\ IsFiniteSet(UpTo(k)) /\ Cardinality(UpTo(k)) \in Nat
  BY <1>1, FolderIsFinite, Constants
<1>3. \A k \in folders[f] : Position(k, f) = Cardinality(UpTo(k))
  BY DEF Position
<1>4. \A k, n \in folders[f] : k < n => UpTo(k) \in SUBSET UpTo(n) /\ n \notin UpTo(k)
  BY <1>1
<1> HIDE DEF UpTo
<1>5. ASSUME NEW k \in folders[f], NEW n \in folders[f], k < n
      PROVE  Position(k, f) # Position(n, f)
  BY <1>2, <1>3, <1>4, <1>5, FS_Subset
<1>6. Position(m, f) # 0
  BY <1>2, <1>3, FS_EmptySet
<1> QED
  BY <1>1, <1>2, <1>3, <1>5, <1>6

\* The orders of ways.
LEMMA PlanType == \A op : Plan(op) \in Seq(Ways) /\ Plan(op) # <<>>
<1>1. "graph" \in Ways /\ "junk" \in Ways /\ "imap_new" \in Ways /\ "imap_old" \in Ways /\ "generic" \in Ways
  BY DEF Ways, GraphWays, ImapWays
<1> HIDE DEF Ways
<1>2. /\ <<"generic">> \in Seq(Ways) /\ <<"graph", "imap_new">> \in Seq(Ways)
      /\ <<"graph", "imap_new", "imap_old">> \in Seq(Ways)
      /\ <<"graph", "junk", "imap_new", "imap_old">> \in Seq(Ways)
  BY <1>1
<1> QED
  BY <1>2 DEF Plan

\* The name a way gives to a mail of a folder points to it.
LEMMA ItemType ==
    ASSUME MailReadTypeOK, NEW m \in Mails, NEW way \in Ways, NEW f \in Folders
    PROVE  /\ Item(m, way, f) \in Items
           /\ Item(m, way, f).mail = m
           /\ Item(m, way, f).by # "imap" => Item(m, way, f).pos = 0
           /\ m \in folders[f] => Points(Item(m, way, f), f)
           /\ \A k : Item(k, way, f).by = Item(m, way, f).by
<1>1. Position(m, f) \in 0 .. MaxMails /\ 0 \in 0 .. MaxMails
  BY PositionType, Constants
<1>2. CASE way \in GraphWays
  BY <1>1, <1>2 DEF Item, Items, Names, Points
<1>3. CASE way \in ImapWays
  <2>1. way \notin GraphWays
    BY <1>3 DEF GraphWays, ImapWays
  <2> QED
    BY <1>1, <1>3, <2>1 DEF Item, Items, Names, Points
<1>4. CASE way \notin GraphWays /\ way \notin ImapWays
  BY <1>1, <1>4 DEF Item, Items, Names, Points
<1> QED
  BY <1>2, <1>3, <1>4

\* What a way finds under a name that points to its mail is that mail.
LEMMA HoldsIt ==
    ASSUME MailReadTypeOK, NEW r \in ReadRequests, NEW way
    PROVE  /\ Holds(r, way) \in 0 .. MaxMails
           /\ NamesFit(r) /\ Points(r.id, r.folder) /\ Holds(r, way) # 0 => Holds(r, way) = r.id.mail
<1>0. MailReadTypeOK /\ r.folder \in Folders
  BY DEF ReadRequests, Folders
<1>1. r.id \in Items \cup {NoItem}
  BY DEF ReadRequests
<1>2. r.id.mail \in 0 .. MaxMails
  BY <1>1, Constants DEF Items, NoItem, Mails
<1>3. folders[r.folder] \subseteq 1 .. MaxMails
  BY <1>0, FolderIsFinite DEF Mails
<1>4. CASE way \in {"graph", "generic"}
  BY <1>2, <1>4, Constants DEF Holds
<1>5. CASE way \notin {"graph", "generic"} /\ ~\E m \in folders[r.folder] : Position(m, r.folder) = r.id.pos
  BY <1>5, Constants DEF Holds
<1>6. ASSUME way \notin {"graph", "generic"}, NEW m \in folders[r.folder], Position(m, r.folder) = r.id.pos
      PROVE  /\ Holds(r, way) \in 0 .. MaxMails
             /\ NamesFit(r) /\ Points(r.id, r.folder) => Holds(r, way) = r.id.mail
  <2>1. Holds(r, way) \in folders[r.folder] /\ Position(Holds(r, way), r.folder) = r.id.pos
    BY <1>6 DEF Holds
  <2>2. ASSUME NamesFit(r), Points(r.id, r.folder) PROVE Holds(r, way) = r.id.mail
    <3>1. r.id.by = "imap"
      BY <1>0, <1>6, <2>2, PositionTells DEF NamesFit
    <3> QED
      BY <1>0, <2>1, <2>2, <3>1, PositionTells DEF Points
  <2> QED
    BY <1>3, <2>1, <2>2, Constants
<1> QED
  BY <1>4, <1>5, <1>6

-----------------------------------------------------------------------------
(* Requests.                                                               *)

\* Each field has its type, and a request is its fields.
LEMMA RequestFields ==
    ASSUME NEW r \in ReadRequests
    PROVE  /\ r.left \in Seq(Ways) /\ r.found \in SUBSET Items /\ r.id \in Items \cup {NoItem}
           /\ r.folder \in {"inbox", "junkemail"} /\ r.worked \in BOOLEAN /\ r.moved \in BOOLEAN
           /\ r.read \in 0 .. MaxMails /\ r.sum \in Summaries /\ r.token \in 0 .. MaxEdits
           /\ r.op \in {"idle", "list", "external", "detail", "external_detail", "verify", "extract",
                        "delete"}
BY DEF ReadRequests

LEMMA IdleType == IdleReader \in ReadRequests /\ ReadInOrder(IdleReader)
<1>1. 0 \in 0 .. MaxMails /\ 0 \in 0 .. MaxEdits /\ NoSummary \in Summaries /\ <<>> \in Seq(Ways)
  BY Constants DEF NoSummary, Summaries
<1>2. IdleReader \in ReadRequests
  BY <1>1 DEF IdleReader, ReadRequests
<1>3. ReadInOrder(IdleReader)
  BY DEF IdleReader, NoItem, ReadInOrder, OfStage, NamesFit, InPlace, ReadsIt
<1> QED
  BY <1>2, <1>3

\* The ways that are left, and what they are to be authorized with, are
\* nothing the order of a request is about.
Alike(r, s) == /\ s.op = r.op /\ s.stage = r.stage /\ s.folder = r.folder /\ s.found = r.found
               /\ s.id = r.id /\ s.moved = r.moved /\ s.read = r.read

LEMMA AlikeOrder ==
    ASSUME NEW r, NEW s, Alike(r, s), ReadInOrder(r)
    PROVE  ReadInOrder(s)
BY DEF Alike, ReadInOrder, OfStage, NamesFit, InPlace, ReadsIt

LEMMA NextWay ==
    ASSUME NEW r \in ReadRequests, r.left # <<>>
    PROVE  /\ Head(r.left) \in Ways
           /\ Worked(r) \in ReadRequests /\ Alike(r, Worked(r))
           /\ Failed(r) \in ReadRequests /\ Alike(r, Failed(r))
<1>1. Head(r.left) \in Ways /\ Tail(r.left) \in Seq(Ways) /\ 0 \in 0 .. MaxEdits
  BY RequestFields, Constants
<1>2. (r.op = "extract" /\ r.stage = "list") \in BOOLEAN
  OBVIOUS
<1>3. Worked(r) \in ReadRequests /\ Failed(r) \in ReadRequests
  BY <1>1, <1>2 DEF Worked, Failed, ReadRequests
<1>4. Alike(r, Worked(r)) /\ Alike(r, Failed(r))
  BY DEF Worked, Failed, ReadRequests, Alike
<1> QED
  BY <1>1, <1>3, <1>4

\* An answer forgets the request or shows the mail that was meant.
Kept == {"mail", "code", "internal_error"}
LEMMA AnswerOrder ==
    ASSUME NEW r \in ReadRequests, NEW answer,
           answer \in Kept =>
              /\ r.id.by # "imap" => r.id.pos = 0
              /\ r.read # 0 /\ ~r.moved => r.read = r.id.mail
    PROVE  Answer(r, answer) \in ReadRequests /\ ReadInOrder(Answer(r, answer))
<1>1. CASE answer \notin Kept
  BY <1>1, IdleType DEF Answer, Kept
<1>2. CASE answer \in Kept
  <2> DEFINE a == [IdleReader EXCEPT !.op = r.op, !.stage = "answered", !.id = r.id, !.read = r.read,
                                     !.moved = r.moved, !.answer = answer]
  <2>1. a \in ReadRequests
    BY <1>2, RequestFields, IdleType DEF ReadRequests, Kept
  <2>2. /\ a.op = r.op /\ a.stage = "answered" /\ a.id = r.id /\ a.read = r.read /\ a.moved = r.moved
        /\ a.folder = "inbox" /\ a.found = {}
    BY DEF IdleReader
  <2> HIDE DEF a
  <2>3. ReadInOrder(a)
    BY <1>2, <2>2 DEF ReadInOrder, OfStage, NamesFit, InPlace, ReadsIt
  <2> QED
    BY <1>2, <2>1, <2>3 DEF Answer, Kept, a
<1> QED
  BY <1>1, <1>2

\* An extraction that has read its mail goes on to the summary.
LEMMA ExtractedOrder ==
    ASSUME NEW r \in ReadRequests, r.op = "extract", NamesFit(r),
           r.read # 0 /\ ~r.moved => r.read = r.id.mail
    PROVE  Extracted(r) \in ReadRequests /\ ReadInOrder(Extracted(r))
<1>1. CASE r.read \notin Coded \cup Linked
  BY <1>1, AnswerOrder DEF Extracted, Kept
<1>2. CASE r.read \in Coded \cup Linked
  <2> DEFINE e == [r EXCEPT !.stage = "merge"]
  <2>1. e \in ReadRequests
    BY DEF ReadRequests
  <2>2. e.stage = "merge" /\ e.op = r.op /\ e.folder = r.folder /\ e.found = r.found /\ e.id = r.id
        /\ e.moved = r.moved /\ e.read = r.read
    BY DEF ReadRequests
  <2> HIDE DEF e
  <2>3. ReadInOrder(e)
    BY <2>2 DEF ReadInOrder, OfStage, NamesFit, InPlace, ReadsIt
  <2> QED
    BY <1>2, <2>1, <2>3 DEF Extracted, e
<1> QED
  BY <1>1, <1>2

\* What a way lists, it names as it does; the names point into the folder.
LEMMA ListedItems ==
    ASSUME MailReadTypeOK, NEW r \in ReadRequests, NEW way \in Ways
    PROVE  /\ Listed(r, way) \in SUBSET Items
           /\ \A i \in Listed(r, way) : i.by # "imap" => i.pos = 0
           /\ \A i, k \in Listed(r, way) : i.by = k.by
           /\ \A i \in Listed(r, way) : Points(i, r.folder)
<1> DEFINE f == IF way = "junk" THEN "junkemail" ELSE r.folder
<1>1. f \in Folders /\ folders[f] \in SUBSET Mails
  BY RequestFields DEF MailReadTypeOK, Folders
<1>2. \A i \in Listed(r, way) : \E m \in folders[f] : i = Item(m, way, f)
  BY DEF Listed
<1>3. ASSUME way = "junk", NEW i \in Listed(r, way) PROVE Points(i, r.folder)
  <2>1. way \in GraphWays /\ way \notin ImapWays
    BY <1>3 DEF GraphWays, ImapWays
  <2>2. PICK m \in folders[f] : i = Item(m, way, f)
    BY <1>2
  <2>3. i.by = "graph"
    BY <2>1, <2>2 DEF Item
  <2> QED
    BY <2>3 DEF Points
<1>4. way # "junk" => f = r.folder
  OBVIOUS
<1> HIDE DEF f
<1>5. \A i, k \in Listed(r, way) : i.by = k.by
  BY <1>1, <1>2, ItemType
<1>6. \A i \in Listed(r, way) : i \in Items /\ (i.by # "imap" => i.pos = 0)
  BY <1>1, <1>2, ItemType
<1>7. ASSUME way # "junk", NEW i \in Listed(r, way) PROVE Points(i, r.folder)
  BY <1>1, <1>2, <1>4, <1>7, ItemType
<1> QED
  BY <1>3, <1>5, <1>6, <1>7

-----------------------------------------------------------------------------
(* Steps of a request that change no mailbox.                              *)

\* The step of w leaves a request in order, and the mailbox as it is.
Serves(w) == /\ \E r \in ReadRequests : ReadInOrder(r) /\ Set(w, r)
             /\ UNCHANGED <<came, folders>>

LEMMA ReadServeStep ==
    ASSUME IInv, NEW w \in Readers, Serves(w)
    PROVE  /\ reader' \in [Readers -> ReadRequests]
           /\ \A v \in Readers : ReadInOrder(reader[v])'
           /\ MailsHaveCome'
           /\ came' \in 0 .. MaxMails /\ folders' \in [{"inbox", "junkemail"} -> SUBSET Mails]
<1>1. PICK r \in ReadRequests : ReadInOrder(r) /\ Set(w, r)
  BY DEF Serves
<1>2. reader' \in [Readers -> ReadRequests] /\ reader'[w] = r
      /\ \A v \in Readers \ {w} : reader'[v] = reader[v]
  BY <1>1 DEF IInv, MailReadTypeOK, Set
<1>3. \A v \in Readers : ReadInOrder(reader'[v])
  BY <1>1, <1>2 DEF IInv
<1>4. folders' = folders /\ came' = came
  BY DEF Serves
<1>5. \A v \in Readers : ReadInOrder(reader[v])'
  BY <1>3, <1>4 DEF ReadInOrder, OfStage, NamesFit, InPlace, ReadsIt, Points, Position
<1> QED
  BY <1>2, <1>4, <1>5 DEF IInv, MailsHaveCome, MailReadTypeOK

\* Who is served.
LEMMA Served ==
    ASSUME IInv, NEW w \in Readers
    PROVE  reader[w] \in ReadRequests /\ ReadInOrder(reader[w]) /\ MailReadTypeOK
BY DEF IInv, MailReadTypeOK

\* A request begins, with a mail of a folder if it is about one.
LEMMA StartServes ==
    ASSUME IInv, NEW w \in Readers, NEW r \in ReadRequests, ReadInOrder(r), Start(w, r)
    PROVE  Serves(w)
<1> DEFINE s == [r EXCEPT !.token = IF r.op \in {"list", "extract"} THEN token ELSE 0,
                          !.left = Plan(r.op)]
<1>1. (IF r.op \in {"list", "extract"} THEN token ELSE 0) \in 0 .. MaxEdits
  BY Constants DEF IInv, MailReadTypeOK
<1>2. Plan(r.op) \in Seq(Ways)
  BY PlanType
<1>3. s \in ReadRequests
  BY <1>1, <1>2 DEF ReadRequests
<1>4. Alike(r, s)
  BY DEF ReadRequests, Alike
<1>5. ReadInOrder(s)
  BY <1>4, AlikeOrder
<1> QED
  BY <1>3, <1>5 DEF Start, Serves

LEMMA ListStarts ==
    ASSUME IInv, NEW w \in Readers, NEW op \in {"list", "external", "verify", "extract"},
           NEW f \in {"inbox", "junkemail"}, StartMailList(w, op, f)
    PROVE  Serves(w)
<1> DEFINE r == [IdleReader EXCEPT !.op = op, !.stage = "list", !.folder = f]
<1>1. r \in ReadRequests
  BY IdleType DEF ReadRequests
<1>2. r.op = op /\ r.stage = "list" /\ r.folder = f /\ r.found = {} /\ r.id = NoItem /\ r.read = 0
  BY DEF IdleReader
<1>3. Start(w, r)
  BY DEF StartMailList
<1> HIDE DEF r
<1>4. ReadInOrder(r)
  BY <1>2 DEF ReadInOrder, OfStage, NamesFit, InPlace, ReadsIt, NoItem, Points
<1> QED
  BY <1>1, <1>3, <1>4, StartServes

LEMMA MailStarts ==
    ASSUME IInv, NEW w \in Readers, NEW m \in Mails, NEW way \in {"graph", "imap_new", "generic"},
           NEW f \in Folders,
           \/ \E op \in {"detail", "external_detail"} : StartMailDetail(w, op, m, way, f)
           \/ StartMailDelete(w, m, way, f)
    PROVE  Serves(w)
<1>1. PICK op \in {"detail", "external_detail", "delete"}, stage \in {"detail", "remove"} :
         Start(w, [IdleReader EXCEPT !.op = op, !.stage = stage, !.folder = f, !.id = Item(m, way, f)])
  BY DEF StartMailDetail, StartMailDelete
<1> DEFINE r == [IdleReader EXCEPT !.op = op, !.stage = stage, !.folder = f, !.id = Item(m, way, f)]
<1>2. m \in folders[f] /\ way \in Ways /\ MailReadTypeOK
  BY DEF StartMailDetail, StartMailDelete, Ways, GraphWays, ImapWays, IInv
<1>3. Item(m, way, f) \in Items /\ Points(Item(m, way, f), f)
      /\ (Item(m, way, f).by # "imap" => Item(m, way, f).pos = 0)
  BY <1>2, ItemType
<1>4. r \in ReadRequests
  BY <1>3, IdleType DEF ReadRequests, Folders
<1>5. r.op = op /\ r.stage = stage /\ r.folder = f /\ r.found = {} /\ r.id = Item(m, way, f) /\ r.read = 0
  BY DEF IdleReader
<1> HIDE DEF r
<1>6. ReadInOrder(r)
  BY <1>3, <1>5 DEF ReadInOrder, OfStage, NamesFit, InPlace, ReadsIt
<1>7. Start(w, r)
  BY <1>1 DEF r
<1> QED
  BY <1>4, <1>6, <1>7, StartServes

\* A way without Graph.
LEMMA SkipServes ==
    ASSUME IInv, NEW w \in Readers, SkipGraph(w)
    PROVE  Serves(w)
<1> DEFINE r == reader[w]
           s == [r EXCEPT !.left = Tail(@)]
<1>1. r \in ReadRequests /\ ReadInOrder(r) /\ r.left = <<"graph", "imap_new">>
  BY Served DEF SkipGraph
<1>2. Set(w, s)
  BY DEF SkipGraph
<1> HIDE DEF r
<1>3. Tail(r.left) \in Seq(Ways)
  BY <1>1, RequestFields
<1>4. s \in ReadRequests /\ Alike(r, s)
  BY <1>1, <1>3 DEF ReadRequests, Alike
<1> QED
  BY <1>1, <1>2, <1>4, AlikeOrder DEF Serves, SkipGraph

\* A request with what a way listed.
LEMMA GotOrder ==
    ASSUME IInv, NEW r \in ReadRequests, ReadInOrder(r), r.stage = "list", r.left # <<>>,
           NEW got, got = [Worked(r) EXCEPT !.found = @ \cup Listed(r, Head(r.left))]
    PROVE  /\ got \in ReadRequests
           /\ got.op = r.op /\ got.stage = "list" /\ got.folder = r.folder /\ got.read = 0
           /\ got.moved = r.moved /\ NamesFit(got)
           /\ r.op = "list" => \A i, k \in got.found : i.by = k.by
           /\ r.op # "list" => ReadInOrder(got)
<1> DEFINE way == Head(r.left)
           new == Listed(r, way)
<1>1. way \in Ways /\ Worked(r) \in ReadRequests /\ Alike(r, Worked(r))
  BY NextWay
<1>2. /\ new \in SUBSET Items
      /\ \A i \in new : i.by # "imap" => i.pos = 0
      /\ \A i, k \in new : i.by = k.by
      /\ \A i \in new : Points(i, r.folder)
  BY <1>1, ListedItems DEF IInv
<1> HIDE DEF way, new
<1>3. got = [Worked(r) EXCEPT !.found = Worked(r).found \cup new]
  BY DEF way, new
<1>4. Worked(r).found \cup new \in SUBSET Items
  BY <1>1, <1>2, RequestFields
<1>5. got \in ReadRequests
  BY <1>1, <1>3, <1>4 DEF ReadRequests
<1>6. /\ got.op = r.op /\ got.stage = r.stage /\ got.folder = r.folder /\ got.found = r.found \cup new
      /\ got.id = r.id /\ got.moved = r.moved /\ got.read = r.read
  BY <1>1, <1>3 DEF ReadRequests, Alike
<1>7. got.read = 0 /\ (r.op = "list" => r.found = {})
      /\ r.op \in {"list", "external", "verify", "extract"}
  BY <1>6 DEF ReadInOrder, OfStage
<1>8. NamesFit(got)
  BY <1>2, <1>6 DEF ReadInOrder, NamesFit
<1>9. r.op \in {"verify", "extract"} /\ ~r.moved => \A i \in got.found \cup {got.id} : Points(i, got.folder)
  BY <1>2, <1>6, <1>7 DEF ReadInOrder, InPlace
<1>10. r.op # "list" => ReadInOrder(got)
  BY <1>6, <1>7, <1>8, <1>9 DEF ReadInOrder, OfStage, InPlace, ReadsIt
<1> QED
  BY <1>2, <1>5, <1>6, <1>7, <1>8, <1>10

\* A request that goes on to read one of the mails it found.
LEMMA ChosenOrder ==
    ASSUME NEW r \in ReadRequests, r.stage = "list", ReadInOrder(r), r.op \in {"verify", "extract"},
           NEW item \in r.found, NEW left \in Seq(Ways), NEW worked \in BOOLEAN,
           NEW s, s = [r EXCEPT !.id = item, !.found = {}, !.worked = worked, !.stage = "detail", !.left = left]
    PROVE  s \in ReadRequests /\ ReadInOrder(s)
<1>1. item \in Items
  BY RequestFields
<1>2. s \in ReadRequests
  BY <1>1 DEF ReadRequests
<1>3. /\ s.op = r.op /\ s.stage = "detail" /\ s.folder = r.folder /\ s.found = {}
      /\ s.id = item /\ s.moved = r.moved /\ s.read = r.read
  BY DEF ReadRequests
<1>4. ReadInOrder(s)
  BY <1>3 DEF ReadInOrder, OfStage, NamesFit, InPlace, ReadsIt
<1> QED
  BY <1>2, <1>4

\* A list that works, of each kind.
LEMMA ListServes ==
    ASSUME IInv, NEW w \in Readers, ListWorks(w)
    PROVE  Serves(w)
<1> DEFINE r == reader[w]
           got == [Worked(r) EXCEPT !.found = @ \cup Listed(r, Head(r.left))]
<1>1. r \in ReadRequests /\ ReadInOrder(r) /\ r.stage = "list" /\ r.left # <<>>
      /\ r.op \in {"list", "external", "verify", "extract"}
  BY Served DEF ListWorks, InStage, ReadInOrder, OfStage
<1>2. CASE r.op = "list"
  <2> DEFINE s == [got EXCEPT !.stage = "merge"]
  <2>1. Set(w, s)
    BY <1>2 DEF ListWorks, Way
  <2> HIDE DEF r, got
  <2>2. got \in ReadRequests /\ got.op = "list" /\ got.read = 0 /\ NamesFit(got)
        /\ \A i, k \in got.found : i.by = k.by
    BY <1>1, <1>2, GotOrder DEF got
  <2>3. s \in ReadRequests
    BY <2>2 DEF ReadRequests
  <2>4. s.op = "list" /\ s.stage = "merge" /\ s.folder = got.folder /\ s.found = got.found /\ s.id = got.id
        /\ s.read = 0
    BY <2>2 DEF ReadRequests
  <2>5. ReadInOrder(s)
    BY <2>2, <2>4 DEF ReadInOrder, OfStage, NamesFit, InPlace, ReadsIt
  <2> QED
    BY <2>1, <2>3, <2>5 DEF Serves, ListWorks
<1>3. CASE r.op = "external"
  <2>1. Set(w, Answer(got, "mails"))
    BY <1>3 DEF ListWorks, Way
  <2> HIDE DEF r, got
  <2>2. got \in ReadRequests
    BY <1>1, GotOrder DEF got
  <2> QED
    BY <2>1, <2>2, AnswerOrder DEF Kept, Serves, ListWorks
<1>4. CASE r.op = "verify"
  <2> DEFINE s == [got EXCEPT !.id = NewestItem(got.found), !.found = {}, !.stage = "detail",
                              !.left = Plan("verify")]
  <2>1. Set(w, IF got.found = {} THEN Answer(got, "not_found") ELSE s)
    BY <1>4 DEF ListWorks, Way
  <2> HIDE DEF r, got
  <2>2. got \in ReadRequests /\ got.op = "verify" /\ got.stage = "list" /\ ReadInOrder(got)
    BY <1>1, <1>4, GotOrder DEF got
  <2>3. CASE got.found = {}
    BY <2>1, <2>2, <2>3, AnswerOrder DEF Kept, Serves, ListWorks
  <2>4. CASE got.found # {}
    <3>1. NewestItem(got.found) \in got.found
      BY <2>2, <2>4, RequestFields, NewestIsOne
    <3>2. got.worked \in BOOLEAN /\ Plan("verify") \in Seq(Ways)
      BY <2>2, RequestFields, PlanType
    <3>3. s = [got EXCEPT !.id = NewestItem(got.found), !.found = {}, !.worked = got.worked,
                          !.stage = "detail", !.left = Plan("verify")]
      BY <2>2 DEF ReadRequests
    <3> HIDE DEF s
    <3>4. s \in ReadRequests /\ ReadInOrder(s)
      BY <2>2, <3>1, <3>2, <3>3, ChosenOrder
    <3> QED
      BY <2>1, <2>4, <3>4 DEF Serves, ListWorks
  <2> QED
    BY <2>3, <2>4
<1>5. CASE r.op = "extract"
  <2> DEFINE left == IF Way(w) = "junk" /\ got.found # {} THEN <<>> ELSE got.left
             s == [got EXCEPT !.left = left]
  <2>1. Set(w, s)
    BY <1>5 DEF ListWorks, Way
  <2> HIDE DEF r, got
  <2>2. got \in ReadRequests /\ ReadInOrder(got)
    BY <1>1, <1>5, GotOrder DEF got
  <2>3. left \in Seq(Ways)
    BY <2>2, RequestFields
  <2> HIDE DEF left
  <2>4. s \in ReadRequests /\ Alike(got, s)
    BY <2>2, <2>3 DEF ReadRequests, Alike
  <2> QED
    BY <2>1, <2>2, <2>4, AlikeOrder DEF Serves, ListWorks
<1> QED
  BY <1>1, <1>2, <1>3, <1>4, <1>5

\* A list that fails, or says that there is no use in going on.
LEMMA NoListServes ==
    ASSUME IInv, NEW w \in Readers, ListFails(w) \/ ListForbids(w)
    PROVE  Serves(w)
<1> DEFINE r == reader[w]
           failed == Failed(r)
           left == IF Way(w) = "junk" /\ r.found # {} THEN <<>> ELSE failed.left
<1>1. r \in ReadRequests /\ ReadInOrder(r) /\ r.left # <<>>
  BY Served DEF ListFails, ListForbids, InStage
<1>2. failed \in ReadRequests /\ ReadInOrder(failed)
  <2> HIDE DEF r
  <2> QED
    BY <1>1, NextWay, AlikeOrder
<1>3. CASE ListFails(w)
  <2>1. \/ Set(w, [failed EXCEPT !.left = left])
        \/ Set(w, Answer(failed, "failed"))
        \/ Set(w, failed)
    BY <1>3 DEF ListFails
  <2> HIDE DEF r, failed
  <2>2. left \in Seq(Ways)
    BY <1>2, RequestFields
  <2> HIDE DEF left
  <2>3. [failed EXCEPT !.left = left] \in ReadRequests /\ Alike(failed, [failed EXCEPT !.left = left])
    BY <1>2, <2>2 DEF ReadRequests, Alike
  <2>4. ReadInOrder([failed EXCEPT !.left = left])
    BY <1>2, <2>3, AlikeOrder
  <2>5. Answer(failed, "failed") \in ReadRequests /\ ReadInOrder(Answer(failed, "failed"))
    BY <1>2, AnswerOrder DEF Kept
  <2> QED
    BY <1>2, <1>3, <2>1, <2>3, <2>4, <2>5 DEF Serves, ListFails
<1>4. CASE ListForbids(w)
  <2>1. \E answer \in {"proxy", "expired"} : Set(w, Answer(r, answer))
    BY <1>4 DEF ListForbids
  <2> HIDE DEF r
  <2>2. \A answer \in {"proxy", "expired"} : Answer(r, answer) \in ReadRequests /\ ReadInOrder(Answer(r, answer))
    BY <1>1, AnswerOrder DEF Kept
  <2> QED
    BY <1>4, <2>1, <2>2 DEF Serves, ListForbids
<1> QED
  BY <1>3, <1>4

LEMMA PickServes ==
    ASSUME IInv, NEW w \in Readers, PickLatest(w)
    PROVE  Serves(w)
<1> DEFINE r == reader[w]
<1>1. r \in ReadRequests /\ ReadInOrder(r) /\ r.stage = "list" /\ r.op = "extract"
  BY Served DEF PickLatest
<1>2. CASE r.found = {}
  <2>1. Set(w, Answer(r, "not_found"))
    BY <1>2 DEF PickLatest
  <2> HIDE DEF r
  <2> QED
    BY <1>1, <2>1, AnswerOrder DEF Kept, Serves, PickLatest
<1>3. CASE r.found # {}
  <2> DEFINE left == IF kind = "imap" THEN <<"generic">> ELSE <<"graph", "imap_new">>
  <2>1. PICK item \in r.found :
           Set(w, [r EXCEPT !.id = item, !.found = {}, !.worked = FALSE, !.stage = "detail", !.left = left])
    BY <1>3 DEF PickLatest
  <2>2. left \in Seq(Ways)
    <3>1. "graph" \in Ways /\ "imap_new" \in Ways /\ "generic" \in Ways
      BY DEF Ways, GraphWays, ImapWays
    <3> QED
      BY <3>1
  <2> DEFINE s == [r EXCEPT !.id = item, !.found = {}, !.worked = FALSE, !.stage = "detail", !.left = left]
  <2> HIDE DEF r, left
  <2>3. s \in ReadRequests /\ ReadInOrder(s)
    BY <1>1, <2>2, ChosenOrder
  <2> QED
    BY <2>1, <2>3 DEF Serves, PickLatest
<1> QED
  BY <1>2, <1>3

\* The mail is read as it is named, or as the list showed it.
LEMMA DetailServes ==
    ASSUME IInv, NEW w \in Readers, DetailWorks(w)
    PROVE  Serves(w)
<1> DEFINE r == reader[w]
           got == [Worked(r) EXCEPT !.read = Holds(r, Head(r.left))]
<1>1. r \in ReadRequests /\ ReadInOrder(r) /\ MailReadTypeOK /\ r.left # <<>> /\ r.stage = "detail"
      /\ Holds(r, Head(r.left)) # 0
  BY Served DEF DetailWorks, InStage, Way
<1>2. \/ r.op # "extract" /\ Set(w, Answer(got, "mail"))
      \/ r.op = "extract" /\ Set(w, Answer(got, "internal_error"))
      \/ r.op = "extract" /\ Set(w, Extracted(got))
  BY DEF DetailWorks, Way
<1> HIDE DEF r
<1>3. Worked(r) \in ReadRequests /\ Alike(r, Worked(r)) /\ Holds(r, Head(r.left)) \in 0 .. MaxMails
  BY <1>1, NextWay, HoldsIt
<1>4. got \in ReadRequests
  BY <1>3 DEF ReadRequests
<1>5. /\ got.op = r.op /\ got.stage = "detail" /\ got.folder = r.folder /\ got.found = r.found
      /\ got.id = r.id /\ got.moved = r.moved /\ got.read = Holds(r, Head(r.left))
  BY <1>1, <1>3 DEF ReadRequests, Alike
<1>6. NamesFit(r) /\ (~r.moved => Points(r.id, r.folder))
  BY <1>1 DEF ReadInOrder, OfStage, InPlace
<1>7. got.read # 0 /\ ~got.moved => got.read = got.id.mail
  BY <1>1, <1>5, <1>6, HoldsIt
<1>8. NamesFit(got) /\ (got.id.by # "imap" => got.id.pos = 0)
  BY <1>5, <1>6 DEF NamesFit
<1> HIDE DEF got
<1>9. /\ Answer(got, "mail") \in ReadRequests /\ ReadInOrder(Answer(got, "mail"))
      /\ Answer(got, "internal_error") \in ReadRequests /\ ReadInOrder(Answer(got, "internal_error"))
  BY <1>4, <1>7, <1>8, AnswerOrder
<1>10. r.op = "extract" => Extracted(got) \in ReadRequests /\ ReadInOrder(Extracted(got))
  BY <1>4, <1>5, <1>6, <1>7, <1>8, ExtractedOrder
<1> QED
  BY <1>2, <1>9, <1>10 DEF Serves, DetailWorks

LEMMA NoDetailServes ==
    ASSUME IInv, NEW w \in Readers, DetailFails(w)
    PROVE  Serves(w)
<1> DEFINE r == reader[w]
           failed == Failed(r)
           shown == [failed EXCEPT !.read = r.id.mail]
<1>1. r \in ReadRequests /\ ReadInOrder(r) /\ r.left # <<>> /\ r.stage = "detail"
  BY Served DEF DetailFails, InStage
<1>2. \/ Set(w, failed)
      \/ r.op = "extract" /\ Set(w, Extracted(shown))
      \/ Set(w, Answer(failed, "failed"))
  BY DEF DetailFails
<1> HIDE DEF r
<1>3. failed \in ReadRequests /\ Alike(r, failed) /\ ReadInOrder(failed)
  BY <1>1, NextWay, AlikeOrder
<1>4. r.id.mail \in 0 .. MaxMails
  <2>1. r.id \in Items \cup {NoItem}
    BY <1>1, RequestFields
  <2> QED
    BY <2>1, Constants DEF Items, NoItem, Mails
<1> HIDE DEF failed
<1>5. shown \in ReadRequests
  BY <1>3, <1>4 DEF ReadRequests
<1>6. /\ shown.op = r.op /\ shown.folder = r.folder /\ shown.found = r.found
      /\ shown.id = r.id /\ shown.read = r.id.mail
  BY <1>3 DEF ReadRequests, Alike
<1> HIDE DEF shown
<1>7. r.op = "extract" => Extracted(shown) \in ReadRequests /\ ReadInOrder(Extracted(shown))
  <2>1. NamesFit(shown)
    BY <1>1, <1>6 DEF ReadInOrder, OfStage, NamesFit
  <2> QED
    BY <1>5, <1>6, <2>1, ExtractedOrder
<1>8. Answer(failed, "failed") \in ReadRequests /\ ReadInOrder(Answer(failed, "failed"))
  BY <1>3, AnswerOrder DEF Kept
<1> QED
  BY <1>2, <1>3, <1>7, <1>8 DEF Serves, DetailFails

LEMMA NoRemoveServes ==
    ASSUME IInv, NEW w \in Readers, RemoveFails(w)
    PROVE  Serves(w)
<1> DEFINE r == reader[w]
           failed == Failed(r)
<1>1. r \in ReadRequests /\ ReadInOrder(r) /\ r.left # <<>>
  BY Served DEF RemoveFails, InStage
<1>2. Set(w, Answer(r, "proxy")) \/ Set(w, Answer(failed, "failed")) \/ Set(w, failed)
  BY DEF RemoveFails
<1> HIDE DEF r
<1>3. failed \in ReadRequests /\ ReadInOrder(failed)
  BY <1>1, NextWay, AlikeOrder
<1>4. /\ Answer(r, "proxy") \in ReadRequests /\ ReadInOrder(Answer(r, "proxy"))
      /\ Answer(failed, "failed") \in ReadRequests /\ ReadInOrder(Answer(failed, "failed"))
  BY <1>1, <1>3, AnswerOrder DEF Kept
<1> QED
  BY <1>2, <1>3, <1>4 DEF Serves, RemoveFails

\* The summary is read; it is written; the answer is sent.
LEMMA SummaryServes ==
    ASSUME IInv, NEW w \in Readers, ReadSummary(w) \/ WriteSummary(w) \/ AnswerMail(w)
    PROVE  Serves(w)
<1> DEFINE r == reader[w]
<1>1. r \in ReadRequests /\ ReadInOrder(r)
  BY Served
<1>2. CASE ReadSummary(w)
  <2> DEFINE s == [r EXCEPT !.sum = summary, !.stage = "write"]
  <2>1. r.stage = "merge" /\ Set(w, s)
    BY <1>2 DEF ReadSummary
  <2>2. summary \in Summaries
    BY DEF IInv, MailReadTypeOK
  <2> HIDE DEF r
  <2>3. s \in ReadRequests
    BY <1>1, <2>2 DEF ReadRequests
  <2>4. s.op = r.op /\ s.stage = "write" /\ s.folder = r.folder /\ s.found = r.found /\ s.id = r.id
        /\ s.moved = r.moved /\ s.read = r.read
    BY <1>1 DEF ReadRequests
  <2>5. ReadInOrder(s)
    <3> HIDE DEF s
    <3> QED
      BY <1>1, <2>1, <2>4 DEF ReadInOrder, OfStage, NamesFit, InPlace, ReadsIt
  <2> QED
    BY <1>2, <2>1, <2>3, <2>5 DEF Serves, ReadSummary
<1>3. CASE WriteSummary(w)
  <2>1. r.stage = "write" /\ \E answer \in {"mails", "code"} : Set(w, Answer(r, answer))
    BY <1>3 DEF WriteSummary
  <2> HIDE DEF r
  <2>2. (r.id.by # "imap" => r.id.pos = 0) /\ (r.read # 0 /\ ~r.moved => r.read = r.id.mail)
    BY <1>1, <2>1 DEF ReadInOrder, NamesFit, ReadsIt
  <2>3. \A answer \in {"mails", "code"} : Answer(r, answer) \in ReadRequests /\ ReadInOrder(Answer(r, answer))
    BY <1>1, <2>2, AnswerOrder
  <2> QED
    BY <1>3, <2>1, <2>3 DEF Serves, WriteSummary
<1>4. CASE AnswerMail(w)
  BY <1>4, IdleType DEF AnswerMail, Serves
<1> QED
  BY <1>2, <1>3, <1>4

-----------------------------------------------------------------------------
(* Steps that change the mailbox.                                          *)

\* A new mail comes after all others and moves no position.
LEMMA ComesStep ==
    ASSUME IInv, NEW f \in DOMAIN folders, MailComes(f)
    PROVE  /\ folders' \in [{"inbox", "junkemail"} -> SUBSET Mails] /\ came' \in 0 .. MaxMails
           /\ MailsHaveCome'
           /\ \A v \in Readers : ReadInOrder(reader[v])'
<1>1. came \in Nat /\ came' = came + 1 /\ came + 1 \in Mails /\ reader' = reader
  BY Constants DEF IInv, MailReadTypeOK, MailComes, Mails
<1>2. folders \in [{"inbox", "junkemail"} -> SUBSET Mails] /\ f \in {"inbox", "junkemail"}
      /\ \A g \in {"inbox", "junkemail"} : folders[g] \subseteq 1 .. came
  BY DEF IInv, MailReadTypeOK, MailsHaveCome
<1>3. /\ folders' \in [{"inbox", "junkemail"} -> SUBSET Mails]
      /\ \A g \in {"inbox", "junkemail"} : folders'[g] = folders[g] \/ folders'[g] = folders[g] \cup {came + 1}
  BY <1>1, <1>2 DEF MailComes
<1>4. came' \in 0 .. MaxMails
  BY <1>1, Constants DEF Mails
<1>5. MailsHaveCome'
  BY <1>1, <1>2, <1>3 DEF MailsHaveCome
<1>6. ASSUME NEW i, NEW g \in Folders, Points(i, g) PROVE Points(i, g)'
  <2>1. SUFFICES ASSUME i.by = "imap" PROVE Points(i, g)'
    BY DEF Points
  <2>2. g \in {"inbox", "junkemail"} /\ i.mail \in folders[g] /\ i.pos = Position(i.mail, g)
    BY <1>6, <2>1 DEF Points, Folders
  <2>3. i.mail \in 1 .. came /\ folders[g] \subseteq 1 .. came
    BY <1>2, <2>2
  <2>4. {k \in folders'[g] : k <= i.mail} = {k \in folders[g] : k <= i.mail}
    BY <1>1, <1>3, <2>2, <2>3
  <2>5. i.mail \in folders'[g]
    BY <1>3, <2>2
  <2> QED
    BY <2>2, <2>4, <2>5 DEF Points, Position
<1>7. ASSUME NEW v \in Readers PROVE ReadInOrder(reader[v])'
  <2>1. ReadInOrder(reader[v]) /\ reader[v].folder \in Folders
    BY Served, RequestFields DEF Folders
  <2>2. InPlace(reader[v])'
    BY <1>1, <1>6, <2>1 DEF ReadInOrder, InPlace
  <2> QED
    BY <1>1, <2>1, <2>2 DEF ReadInOrder, OfStage, NamesFit, ReadsIt
<1> QED
  BY <1>3, <1>4, <1>5, <1>7

\* A mail that leaves its folder moves the positions after it: the requests that
\* have one of these know, and the others' positions stay.
LEMMA LeavesStep ==
    ASSUME IInv, NEW m \in Mails, NEW v \in Readers,
           \A f \in Folders : folders'[f] = folders[f] \ {m},
           reader'[v] = Without(m)[v]
    PROVE  reader'[v] \in ReadRequests /\ ReadInOrder(reader[v])'
<1> DEFINE r == reader[v]
           f == r.folder
           Moves(i) == i.pos > 0 /\ m <= i.mail
<1>1. r \in ReadRequests /\ ReadInOrder(r) /\ MailReadTypeOK /\ f \in Folders
  BY Served, RequestFields DEF Folders
<1>2. reader'[v] = IF m \in folders[f] /\ \E i \in r.found \cup {r.id} : Moves(i) THEN [r EXCEPT !.moved = TRUE] ELSE r
  BY DEF Without
<1> DEFINE s == reader'[v]
<1>3. CASE m \in folders[f] /\ \E i \in r.found \cup {r.id} : Moves(i)
  <2>1. s = [r EXCEPT !.moved = TRUE]
    BY <1>2, <1>3
  <2> HIDE DEF r, s, Moves
  <2>2. s \in ReadRequests
    BY <1>1, <2>1 DEF ReadRequests
  <2>3. /\ s.moved = TRUE /\ s.op = r.op /\ s.stage = r.stage /\ s.folder = r.folder /\ s.found = r.found
        /\ s.id = r.id /\ s.read = r.read
    BY <1>1, <2>1 DEF ReadRequests
  <2>4. OfStage(s) /\ NamesFit(s) /\ ReadsIt(s)
    BY <1>1, <2>3 DEF ReadInOrder, OfStage, NamesFit, ReadsIt
  <2> QED
    BY <2>2, <2>3, <2>4 DEF ReadInOrder, OfStage, NamesFit, InPlace, ReadsIt, s
<1>4. CASE ~(m \in folders[f] /\ \E i \in r.found \cup {r.id} : Moves(i))
  <2>1. s = r /\ folders'[f] = folders[f] \ {m}
    BY <1>1, <1>2, <1>4
  <2>2. ASSUME NEW i \in r.found \cup {r.id}, Points(i, f) PROVE Points(i, f)'
    <3>1. SUFFICES ASSUME i.by = "imap" PROVE i.mail \in folders'[f] /\ i.pos = Position(i.mail, f)'
      BY <2>1 DEF Points
    <3>2. i.mail \in folders[f] /\ i.pos = Position(i.mail, f) /\ Position(i.mail, f) > 0
      BY <1>1, <2>2, <3>1, PositionTells DEF Points
    <3>3. CASE m \notin folders[f]
      BY <2>1, <3>2, <3>3 DEF Position
    <3>4. CASE m \in folders[f]
      <4>1. i.mail \in Nat /\ m \in Nat /\ folders[f] \subseteq Nat
        BY <1>1, <3>2, FolderIsFinite, Constants DEF Mails
      <4>2. i.mail < m
        BY <1>4, <3>2, <3>4, <4>1
      <4>3. {k \in folders'[f] : k <= i.mail} = {k \in folders[f] : k <= i.mail}
        BY <2>1, <4>1, <4>2
      <4> QED
        BY <2>1, <3>2, <4>1, <4>2, <4>3 DEF Position
    <3> QED
      BY <3>3, <3>4
  <2>3. InPlace(reader[v])'
    BY <1>1, <2>1, <2>2 DEF ReadInOrder, InPlace
  <2> QED
    BY <1>1, <2>1, <2>3 DEF ReadInOrder, OfStage, NamesFit, ReadsIt
<1> QED
  BY <1>3, <1>4

LEMMA RemovedStep ==
    ASSUME IInv, NEW m \in Mails, MailRemoved(m)
    PROVE  /\ reader' \in [Readers -> ReadRequests]
           /\ \A v \in Readers : ReadInOrder(reader[v])'
           /\ folders' \in [{"inbox", "junkemail"} -> SUBSET Mails]
           /\ MailsHaveCome'
<1>1. /\ folders' \in [{"inbox", "junkemail"} -> SUBSET Mails]
      /\ \A f \in Folders : folders'[f] = folders[f] \ {m}
      /\ \A f \in {"inbox", "junkemail"} : folders'[f] \subseteq folders[f]
  BY DEF IInv, MailReadTypeOK, MailRemoved, Removed, Folders
<1>2. reader' = Without(m) /\ came' = came
  BY DEF MailRemoved
<1>3. \A v \in Readers : reader'[v] \in ReadRequests /\ ReadInOrder(reader[v])'
  BY <1>1, <1>2, LeavesStep
<1>4. reader' \in [Readers -> ReadRequests]
  BY <1>2, <1>3 DEF Without
<1>5. MailsHaveCome'
  BY <1>1, <1>2 DEF MailsHaveCome, IInv, MailReadTypeOK
<1> QED
  BY <1>1, <1>3, <1>4, <1>5

\* Graph deletes the mail from every folder.
LEMMA RemoveStep ==
    ASSUME IInv, NEW w \in Readers, RemoveWorks(w)
    PROVE  /\ reader' \in [Readers -> ReadRequests]
           /\ \A v \in Readers : ReadInOrder(reader[v])'
           /\ folders' \in [{"inbox", "junkemail"} -> SUBSET Mails]
           /\ MailsHaveCome'
<1> DEFINE m == reader[w].id.mail
           r == reader[w]
<1>1. r \in ReadRequests /\ ReadInOrder(r) /\ r.left # <<>> /\ MailReadTypeOK
  BY Served DEF RemoveWorks, InStage
<1>2. folders \in [{"inbox", "junkemail"} -> SUBSET Mails]
  BY <1>1 DEF MailReadTypeOK
<1>3. m \in Mails
  <2>1. Holds(r, "graph") # 0
    BY DEF RemoveWorks
  <2>2. \E f \in DOMAIN folders : r.id.mail \in folders[f]
    BY <2>1 DEF Holds
  <2> QED
    BY <1>2, <2>2
<1>4. folders' = [f \in DOMAIN folders |-> folders[f] \ {m}] /\ came' = came
      /\ reader' = [Without(m) EXCEPT ![w] = Answer(Worked(r), "deleted")]
  BY DEF RemoveWorks, Removed
<1>5. Answer(Worked(r), "deleted") = IdleReader
  BY DEF Answer
<1> HIDE DEF m, r
<1>6. /\ folders' \in [{"inbox", "junkemail"} -> SUBSET Mails]
      /\ \A f \in Folders : folders'[f] = folders[f] \ {m}
      /\ \A f \in {"inbox", "junkemail"} : folders'[f] \subseteq folders[f]
  BY <1>2, <1>4 DEF Folders
<1>7. reader' = [Without(m) EXCEPT ![w] = IdleReader] /\ DOMAIN Without(m) = Readers
  BY <1>4, <1>5 DEF Without
<1>8. ASSUME NEW v \in Readers PROVE reader'[v] \in ReadRequests /\ ReadInOrder(reader[v])'
  <2>1. CASE v = w
    <3>1. reader'[v] = IdleReader
      BY <1>7, <2>1
    <3> QED
      BY <3>1, IdleType DEF IdleReader, NoItem, ReadInOrder, OfStage, NamesFit, InPlace, ReadsIt
  <2>2. CASE v # w
    <3>1. reader'[v] = Without(m)[v]
      BY <1>7, <2>2
    <3> QED
      BY <1>3, <1>6, <3>1, LeavesStep
  <2> QED
    BY <2>1, <2>2
<1>9. reader' \in [Readers -> ReadRequests]
  BY <1>7, <1>8
<1>10. MailsHaveCome'
  BY <1>4, <1>6 DEF MailsHaveCome, IInv, MailReadTypeOK
<1> QED
  BY <1>6, <1>8, <1>9, <1>10

-----------------------------------------------------------------------------
(* The row of the account, and the summary.                                *)

RowInOrder ==
    /\ kind \in {"outlook", "imap"} /\ token \in 0 .. MaxEdits /\ reads \in 0 .. MaxReads
    /\ summary \in Summaries /\ seen \in [at : 0 .. MaxMails, codeAt : 0 .. MaxMails]
    /\ overlapped \in BOOLEAN
    /\ SummaryKeepsUp

\* A step that writes no summary.
LEMMA RowStays ==
    ASSUME RowInOrder, UNCHANGED <<kind, summary, seen, overlapped>>,
           token' \in 0 .. MaxEdits, reads' \in 0 .. MaxReads
    PROVE  RowInOrder'
BY DEF RowInOrder, SummaryKeepsUp

\* What a list or an extraction brings to the summary are mails it has.
LEMMA LatestType ==
    ASSUME NEW r \in ReadRequests, r.op = "extract" \/ \A i, k \in r.found : i.by = k.by
    PROVE  LatestMail(r) \in Items \cup {NoItem} /\ LatestCode(r) \in Items \cup {NoItem}
<1>1. r.found \in SUBSET Items /\ r.id \in Items \cup {NoItem}
  BY RequestFields
<1>2. LatestMail(r) \in Items \cup {NoItem}
  BY <1>1, NewestIsOne DEF LatestMail
<1> DEFINE coded == {i \in r.found : i.mail \in Coded}
           Last(i) == \A k \in coded : IF i.by = "graph" THEN k.mail <= i.mail ELSE k.mail >= i.mail
<1>3. CASE r.op = "extract" \/ coded = {}
  BY <1>1, <1>2, <1>3 DEF LatestCode
<1>4. CASE r.op # "extract" /\ coded # {}
  <2>1. LatestCode(r) = CHOOSE i \in coded : Last(i)
    BY <1>4 DEF LatestCode
  <2>2. coded \in SUBSET Items
    BY <1>1
  <2> HIDE DEF coded
  <2>3. PICK i \in coded, j \in coded : \A k \in coded : k.mail <= i.mail /\ k.mail >= j.mail
    BY <1>4, <2>2, EndsExist
  <2>4. CASE i.by = "graph"
    <3>1. Last(i)
      BY <2>3, <2>4
    <3> QED
      BY <1>2, <2>1, <2>2, <3>1
  <2>5. CASE j.by # "graph"
    <3>1. Last(j)
      BY <2>3, <2>5
    <3> QED
      BY <1>2, <2>1, <2>2, <3>1
  <2>6. i.by = j.by
    <3>1. i \in r.found /\ j \in r.found
      BY DEF coded
    <3> QED
      BY <1>4, <3>1
  <2> QED
    BY <2>4, <2>5, <2>6
<1> QED
  BY <1>3, <1>4

\* A summary that is written is the merge of one that was read: unless another
\* was written in between, it keeps up with the dates that were brought to it.
LEMMA WriteStep ==
    ASSUME IInv, NEW w \in Readers, WriteSummary(w)
    PROVE  RowInOrder'
<1> DEFINE r == reader[w]
           item == LatestMail(r)
           code == LatestCode(r)
<1>1. r \in ReadRequests /\ ReadInOrder(r) /\ r.stage = "write"
  BY Served DEF WriteSummary
<1>2. item \in Items \cup {NoItem} /\ code \in Items \cup {NoItem}
  <2>1. r.op = "extract" \/ \A i, k \in r.found : i.by = k.by
    BY <1>1 DEF ReadInOrder, OfStage
  <2> HIDE DEF r
  <2> QED
    BY <1>1, <2>1, LatestType
<1>3. /\ summary' = Merge(r.sum, item, code)
      /\ seen' = [at |-> Max({seen.at, Time(item)}), codeAt |-> Max({seen.codeAt, Time(code)})]
      /\ overlapped' = (overlapped \/ r.sum # summary)
      /\ UNCHANGED <<kind, token, reads>>
  BY DEF WriteSummary
<1> HIDE DEF r, item, code
<1>4. /\ r.sum \in Summaries /\ summary \in Summaries /\ overlapped \in BOOLEAN
      /\ seen \in [at : 0 .. MaxMails, codeAt : 0 .. MaxMails]
      /\ kind' \in {"outlook", "imap"} /\ token' \in 0 .. MaxEdits /\ reads' \in 0 .. MaxReads
  BY <1>1, <1>3, RequestFields DEF IInv, MailReadTypeOK
<1>5. \A i \in Items \cup {NoItem} : i.mail \in 0 .. MaxMails /\ Time(i) \in 0 .. MaxMails
  BY Constants DEF Items, NoItem, Mails, Time
<1>6. Time(NoItem) = 0
  BY DEF Time, NoItem
<1>7. \A x, y \in 0 .. MaxMails : Max({x, y}) = IF x < y THEN y ELSE x
  BY Constants DEF Max
<1> DEFINE sum == r.sum
           at == IF item = NoItem \/ Time(item) < sum.at THEN sum.at ELSE Time(item)
           codeAt == IF code = NoItem \/ Time(code) < sum.codeAt THEN sum.codeAt ELSE Time(code)
<1>8. summary' \in Summaries /\ summary'.at = at /\ summary'.codeAt = codeAt
  BY <1>2, <1>3, <1>4, <1>5 DEF Merge, Summaries
<1>9. seen' \in [at : 0 .. MaxMails, codeAt : 0 .. MaxMails]
      /\ seen'.at = Max({seen.at, Time(item)}) /\ seen'.codeAt = Max({seen.codeAt, Time(code)})
  BY <1>2, <1>3, <1>4, <1>5, <1>7
<1>10. ASSUME ~overlapped' PROVE summary'.at = seen'.at /\ summary'.codeAt = seen'.codeAt
  <2>1. sum = summary /\ summary.at = seen.at /\ summary.codeAt = seen.codeAt
    BY <1>3, <1>10 DEF IInv, SummaryKeepsUp
  <2>2. /\ seen.at \in 0 .. MaxMails /\ seen.codeAt \in 0 .. MaxMails
        /\ Time(item) \in 0 .. MaxMails /\ Time(code) \in 0 .. MaxMails
    BY <1>2, <1>4, <1>5
  <2>3. at = IF Time(item) < seen.at THEN seen.at ELSE Time(item)
    BY <1>6, <2>1, <2>2, Constants
  <2>4. codeAt = IF Time(code) < seen.codeAt THEN seen.codeAt ELSE Time(code)
    BY <1>6, <2>1, <2>2, Constants
  <2> HIDE DEF at, codeAt
  <2> QED
    BY <1>7, <1>8, <1>9, <2>2, <2>3, <2>4, Constants
<1> QED
  BY <1>3, <1>4, <1>8, <1>9, <1>10 DEF RowInOrder, SummaryKeepsUp

-----------------------------------------------------------------------------
(* The theorems.                                                           *)

LEMMA InvInit == MailReadInit => IInv
<1> SUFFICES ASSUME MailReadInit PROVE IInv
  OBVIOUS
<1>1. /\ 0 \in 0 .. MaxMails /\ 0 \in 0 .. MaxReads /\ 0 \in 0 .. MaxEdits /\ NoSummary \in Summaries
      /\ NoSummary.at = 0 /\ NoSummary.codeAt = 0
  BY Constants DEF NoSummary, Summaries
<1>2. MailReadTypeOK
  BY <1>1, IdleType DEF MailReadInit, MailReadTypeOK
<1>3. \A w \in Readers : ReadInOrder(reader[w])
  BY IdleType DEF MailReadInit
<1> QED
  BY <1>1, <1>2, <1>3 DEF IInv, MailReadInit, MailsHaveCome, SummaryKeepsUp

\* What a reader may do that changes no mailbox.
Asks(w) ==
    \/ \E f \in DOMAIN folders, op \in {"list", "external", "verify"} : StartMailList(w, op, f)
    \/ StartMailList(w, "extract", "inbox")
    \/ \E m \in Mails, way \in {"graph", "imap_new", "generic"}, f \in DOMAIN folders :
        \/ \E op \in {"detail", "external_detail"} : StartMailDetail(w, op, m, way, f)
        \/ StartMailDelete(w, m, way, f)
Proceeds(w) ==
    \/ SkipGraph(w) \/ ListWorks(w) \/ ListFails(w) \/ ListForbids(w) \/ PickLatest(w)
    \/ DetailWorks(w) \/ DetailFails(w) \/ RemoveFails(w)
    \/ ReadSummary(w) \/ AnswerMail(w)

LEMMA AllServe ==
    ASSUME IInv, NEW w \in Readers, Asks(w) \/ Proceeds(w) \/ WriteSummary(w)
    PROVE  Serves(w)
<1>1. DOMAIN folders = {"inbox", "junkemail"}
  BY DEF IInv, MailReadTypeOK
<1>2. CASE Asks(w)
  BY <1>1, <1>2, ListStarts, MailStarts DEF Asks, Folders
<1>3. CASE Proceeds(w)
  BY <1>3, SkipServes, ListServes, NoListServes, PickServes, DetailServes, NoDetailServes, NoRemoveServes,
     SummaryServes DEF Proceeds
<1> QED
  BY <1>2, <1>3, SummaryServes

\* The row at the steps that write no summary.
LEMMA RowStep ==
    ASSUME IInv,
           \/ \E f \in DOMAIN folders : MailComes(f)
           \/ \E m \in Mails : MailRemoved(m)
           \/ EditToken
           \/ \E w \in Readers : Asks(w) \/ Proceeds(w) \/ RemoveWorks(w)
    PROVE  RowInOrder'
<1>1. RowInOrder /\ token \in 0 .. MaxEdits /\ reads \in 0 .. MaxReads
      /\ \A w \in Readers : reader[w].token \in 0 .. MaxEdits
  BY DEF IInv, MailReadTypeOK, RowInOrder, ReadRequests
<1>2. ASSUME NEW w \in Readers, Asks(w) PROVE RowInOrder'
  <2>1. \E r : Start(w, r)
    BY <1>2 DEF Asks, StartMailList, StartMailDetail, StartMailDelete
  <2>2. UNCHANGED <<kind, summary, seen, overlapped, token>> /\ reads' \in 0 .. MaxReads
    BY <1>1, <2>1, Constants DEF Start
  <2> QED
    BY <1>1, <2>2, RowStays
<1>3. ASSUME NEW w \in Readers, ListWorks(w) PROVE RowInOrder'
  <2>1. UNCHANGED <<kind, summary, seen, overlapped, reads>> /\ token' \in {token, reader[w].token}
    BY <1>3 DEF ListWorks, Rotates
  <2> QED
    BY <1>1, <2>1, RowStays
<1>4. ASSUME NEW w \in Readers, Proceeds(w), ~ListWorks(w) PROVE RowInOrder'
  <2>1. UNCHANGED <<kind, summary, seen, overlapped, token, reads>>
    BY <1>4 DEF Proceeds, SkipGraph, ListFails, ListForbids, PickLatest, DetailWorks, DetailFails, RemoveFails,
                ReadSummary, AnswerMail
  <2> QED
    BY <1>1, <2>1, RowStays
<1>5. CASE \/ \E f \in DOMAIN folders : MailComes(f)
           \/ \E m \in Mails : MailRemoved(m)
           \/ \E w \in Readers : RemoveWorks(w)
  <2>1. UNCHANGED <<kind, summary, seen, overlapped, token, reads>>
    BY <1>5 DEF MailComes, MailRemoved, RemoveWorks
  <2> QED
    BY <1>1, <2>1, RowStays
<1>6. CASE EditToken
  <2>1. UNCHANGED <<kind, summary, seen, overlapped, reads>> /\ token' \in 0 .. MaxEdits
    BY <1>1, <1>6, Constants DEF EditToken
  <2> QED
    BY <1>1, <2>1, RowStays
<1> QED
  BY <1>2, <1>3, <1>4, <1>5, <1>6

LEMMA InvStep == IInv /\ [MailReadNext]_mailReadVars => IInv'
<1> SUFFICES ASSUME IInv, [MailReadNext]_mailReadVars PROVE IInv'
  OBVIOUS
<1> DEFINE BoxInOrder == /\ reader \in [Readers -> ReadRequests]
                         /\ came \in 0 .. MaxMails
                         /\ folders \in [{"inbox", "junkemail"} -> SUBSET Mails]
                         /\ MailsHaveCome
                         /\ \A v \in Readers : ReadInOrder(reader[v])
<1>1. RowInOrder' /\ BoxInOrder' => IInv'
  BY DEF RowInOrder, IInv, MailReadTypeOK
<1>2. BoxInOrder /\ RowInOrder
  BY DEF IInv, MailReadTypeOK, RowInOrder
<1>3. ASSUME NEW f \in DOMAIN folders, MailComes(f) PROVE BoxInOrder'
  BY <1>2, <1>3, ComesStep DEF MailComes
<1>4. ASSUME NEW m \in Mails, MailRemoved(m) PROVE BoxInOrder'
  BY <1>2, <1>4, RemovedStep DEF MailRemoved
<1>5. ASSUME EditToken \/ UNCHANGED mailReadVars PROVE BoxInOrder'
  BY <1>2, <1>5 DEF EditToken, mailReadVars, MailsHaveCome, ReadInOrder, OfStage, NamesFit, InPlace, ReadsIt, Points,
                    Position
<1>6. ASSUME NEW w \in Readers, Asks(w) \/ Proceeds(w) \/ WriteSummary(w) PROVE BoxInOrder'
  BY <1>6, AllServe, ReadServeStep
<1>7. ASSUME NEW w \in Readers, RemoveWorks(w) PROVE BoxInOrder'
  BY <1>2, <1>7, RemoveStep DEF RemoveWorks
<1>8. ASSUME NEW w \in Readers, WriteSummary(w) PROVE RowInOrder'
  BY <1>8, WriteStep
<1>9. CASE UNCHANGED mailReadVars
  <2>1. RowInOrder'
    BY <1>2, <1>9, RowStays DEF mailReadVars, RowInOrder
  <2> QED
    BY <1>1, <1>5, <1>9, <2>1
<1>10. CASE MailReadNext
  <2>1. \/ \E f \in DOMAIN folders : MailComes(f)
        \/ \E m \in Mails : MailRemoved(m)
        \/ EditToken
        \/ \E w \in Readers : Asks(w) \/ Proceeds(w) \/ RemoveWorks(w) \/ WriteSummary(w)
    BY <1>10 DEF MailReadNext, Asks, Proceeds
  <2>2. RowInOrder'
    BY <1>8, <2>1, RowStep
  <2>3. BoxInOrder'
    BY <1>3, <1>4, <1>5, <1>6, <1>7, <2>1
  <2> QED
    BY <1>1, <2>2, <2>3
<1> QED
  BY <1>9, <1>10

\* Requests, names and the summary are in order in every state.
THEOREM ReadInvariant == MailReadSpec => []IInv
BY InvInit, InvStep, PTL DEF MailReadSpec

\* Mailbox, row and requests keep their types.
THEOREM TypeCorrect == MailReadSpec => []MailReadTypeOK
<1>1. IInv => MailReadTypeOK
  BY DEF IInv
<1> QED
  BY <1>1, ReadInvariant, PTL

\* Whichever of its ways a request takes, and whatever arrives or is deleted
\* meanwhile, the mail it shows, or takes the code from, is the one that was
\* meant, unless it was named by a position that a deletion has moved.
THEOREM ShownIsMeant == MailReadSpec => []DetailIsTheMail
<1>1. IInv => DetailIsTheMail
  BY DEF IInv, ReadInOrder, ReadsIt, DetailIsTheMail
<1> QED
  BY <1>1, ReadInvariant, PTL

\* The summary has the latest readable dates of all that was merged into it,
\* unless it was written over one that had not been read.
THEOREM SummaryIsLatest == MailReadSpec => []SummaryKeepsUp
<1>1. IInv => SummaryKeepsUp
  BY DEF IInv
<1> QED
  BY <1>1, ReadInvariant, PTL

-----------------------------------------------------------------------------
(* The extractor.                                                          *)

LEMMA ExtractorConstants ==
    /\ MinLen \in Nat \ {0} /\ MaxLen \in Nat \ {0} /\ YearLen \in Nat \ {0}
    /\ Window \in Nat \ {0} /\ MaxText \in Nat \ {0} /\ MaxLinks \in Nat \ {0}
BY ExtractorAssumption DEF ExtractorAssumption

\* The least of some numbers up to a bound.
LEMMA SmallestIs ==
    ASSUME NEW n \in Nat, NEW T, T \subseteq 0 .. n, T # {}
    PROVE  Min(T) \in T /\ \A y \in T : Min(T) <= y
<1> DEFINE U == {n - x : x \in T}
<1>1. U \subseteq 0 .. n /\ U # {}
  <2>1. \A x \in T : n - x \in 0 .. n
    OBVIOUS
  <2> QED
    BY <2>1
<1>2. PICK u \in U : \A v \in U : v <= u
  <2> HIDE DEF U
  <2> QED
    BY <1>1, LargestExists
<1>3. PICK x \in T : u = n - x
  OBVIOUS
<1>4. \A y \in T : x <= y
  <2> TAKE y \in T
  <2>1. n - y \in U /\ y \in 0 .. n /\ x \in 0 .. n
    OBVIOUS
  <2>2. n - y <= n - x
    BY <1>2, <1>3, <2>1
  <2> QED
    BY <2>1, <2>2
<1> QED
  BY <1>4 DEF Min

\* A text is a sequence of marks.
LEMMA TextType ==
    ASSUME NEW t \in Texts
    PROVE  /\ Len(t) \in 1 .. MaxText
           /\ DOMAIN t = 1 .. Len(t)
<1>1. PICK n \in 1 .. MaxText : t \in [1 .. n -> Marks]
  BY DEF Texts
<1>2. t \in Seq(Marks) /\ n \in Nat
  BY <1>1, SeqDef, ExtractorConstants
<1>3. Len(t) = n
  BY <1>1, <1>2, LenProperties
<1> QED
  BY <1>1, <1>3

\* The surroundings of a keyword lie in the text.
LEMMA AroundType ==
    ASSUME NEW t \in Texts, NEW k
    PROVE  \/ Around(t, k) = <<1, 0>>
           \/ \E a, b \in 1 .. Len(t) : Around(t, k) = <<a, b>> /\ a <= b
<1> DEFINE places == {i \in DOMAIN t : t[i] = k}
           p == Min(places)
<1>1. CASE places = {}
  BY <1>1 DEF Around
<1>2. CASE places # {}
  <2>1. p \in 1 .. Len(t) /\ Len(t) \in 1 .. MaxText
    <3>1. places \subseteq 0 .. Len(t) /\ places \subseteq 1 .. Len(t) /\ Len(t) \in 1 .. MaxText
      BY TextType
    <3>2. Len(t) \in Nat /\ places # {}
      BY <1>2, <3>1, ExtractorConstants
    <3> HIDE DEF places
    <3>3. p \in places
      BY <3>1, <3>2, SmallestIs
    <3> QED
      BY <3>1, <3>3
  <2>2. Around(t, k) = <<Max({1, p - Window}), Min({Len(t), p + Window})>>
    BY <1>2 DEF Around
  <2> HIDE DEF p, places
  <2>3. Max({1, p - Window}) = IF 1 < p - Window THEN p - Window ELSE 1
    BY <2>1, ExtractorConstants DEF Max
  <2>4. Min({Len(t), p + Window}) = IF Len(t) < p + Window THEN Len(t) ELSE p + Window
    BY <2>1, ExtractorConstants DEF Min
  <2>5. /\ Max({1, p - Window}) \in 1 .. Len(t)
        /\ Min({Len(t), p + Window}) \in 1 .. Len(t)
        /\ Max({1, p - Window}) <= Min({Len(t), p + Window})
    BY <2>1, <2>3, <2>4, ExtractorConstants
  <2> QED
    BY <2>2, <2>5
<1> QED
  BY <1>1, <1>2

\* The first word is one of the words.
LEMMA FirstIsOne ==
    ASSUME NEW n \in Nat, NEW words, words \subseteq (1 .. n) \X (1 .. n), words # {}
    PROVE  First(words) \in words
<1> DEFINE T == {w[1] : w \in words}
<1>1. T \subseteq 0 .. n /\ T # {}
  OBVIOUS
<1>2. Min(T) \in T /\ \A y \in T : Min(T) <= y
  <2> HIDE DEF T
  <2> QED
    BY <1>1, SmallestIs
<1>3. PICK w \in words : w[1] = Min(T)
  BY <1>2
<1>4. \A v \in words : w[1] <= v[1]
  BY <1>2, <1>3
<1> QED
  BY <1>4 DEF First

\* Where the codes of a part of a text are.
LEMMA CodesType ==
    ASSUME NEW t \in Texts, NEW lo \in 1 .. Len(t), NEW hi \in 0 .. Len(t), NEW marks
    PROVE  /\ Codes(t, lo, hi, marks) \subseteq (1 .. Len(t)) \X (1 .. Len(t))
           /\ \A w \in Codes(t, lo, hi, marks) : lo <= w[1] /\ w[1] <= w[2] /\ w[2] <= hi
BY TextType, ExtractorConstants DEF Codes, Words

\* The ends of the surroundings of a keyword.
LEMMA AroundEnds ==
    ASSUME NEW t \in Texts, NEW k
    PROVE  Around(t, k)[1] \in 1 .. Len(t) /\ Around(t, k)[2] \in 0 .. Len(t)
BY TextType, AroundType, ExtractorConstants

\* A code found around a keyword is one of the mail, or cut out of a word.
LEMMA NearIsWholeOrCut ==
    ASSUME NEW t \in Texts, NEW marks, NEW a \in 1 .. Len(t), NEW b \in 0 .. Len(t),
           NEW w \in Codes(t, a, b, marks)
    PROVE  \/ w \in Codes(t, 1, Len(t), marks)
           \/ w[1] = a /\ a > 1 /\ t[a - 1] # "s"
           \/ w[2] = b /\ b < Len(t) /\ t[b + 1] # "s"
<1>1. Len(t) \in 1 .. MaxText /\ MaxText \in Nat
  BY TextType, ExtractorConstants
<1>2. /\ w \in (a .. b) \X (a .. b) /\ w[1] <= w[2]
      /\ w[1] = a \/ t[w[1] - 1] = "s"
      /\ w[2] = b \/ t[w[2] + 1] = "s"
  BY DEF Codes, Words
<1>3. w \in (1 .. Len(t)) \X (1 .. Len(t))
  BY <1>1, <1>2
<1>4. SUFFICES ASSUME ~(w[1] = a /\ a > 1 /\ t[a - 1] # "s"),
                      ~(w[2] = b /\ b < Len(t) /\ t[b + 1] # "s")
               PROVE  w \in Codes(t, 1, Len(t), marks)
  OBVIOUS
<1>5. w[1] = 1 \/ t[w[1] - 1] = "s"
  BY <1>1, <1>2, <1>4
<1>6. w[2] = Len(t) \/ t[w[2] + 1] = "s"
  BY <1>1, <1>2, <1>4
<1> QED
  BY <1>3, <1>5, <1>6 DEF Codes, Words

\* A code of the mail that lies around a keyword is found there.
LEMMA WholeIsNear ==
    ASSUME NEW t \in Texts, NEW marks, NEW a \in 1 .. Len(t), NEW b \in 0 .. Len(t),
           NEW w \in Codes(t, 1, Len(t), marks), a <= w[1], w[2] <= b
    PROVE  w \in Codes(t, a, b, marks)
<1>1. Len(t) \in 1 .. MaxText /\ MaxText \in Nat
  BY TextType, ExtractorConstants
<1>2. /\ w \in (1 .. Len(t)) \X (1 .. Len(t)) /\ w[1] <= w[2]
      /\ w[1] = 1 \/ t[w[1] - 1] = "s"
      /\ w[2] = Len(t) \/ t[w[2] + 1] = "s"
  BY DEF Codes, Words
<1>3. w \in (a .. b) \X (a .. b)
  BY <1>1, <1>2
<1>4. (w[1] = a \/ t[w[1] - 1] = "s") /\ (w[2] = b \/ t[w[2] + 1] = "s")
  BY <1>1, <1>2
<1> QED
  BY <1>2, <1>3, <1>4 DEF Codes, Words

\* Codes around one keyword.
Near(t, marks, k) == LET a == Around(t, Keywords[k]) IN Codes(t, a[1], a[2], marks)

\* The search around the keywords finds a code if one is there.
LEMMA SmartFinds ==
    ASSUME NEW t \in Texts, NEW marks
    PROVE  /\ Smart(t, marks) # Nothing =>
                \E k \in DOMAIN Keywords : Smart(t, marks) \in Near(t, marks, k)
           /\ Smart(t, marks) = Nothing =>
                \A k \in DOMAIN Keywords : Near(t, marks, k) = {}
<1> DEFINE useful == {k \in DOMAIN Keywords : Near(t, marks, k) # {}}
<1>1. Smart(t, marks) = IF useful = {} THEN Nothing ELSE First(Near(t, marks, Min(useful)))
  BY DEF Smart, Near
<1>2. CASE useful = {}
  BY <1>1, <1>2
<1>3. CASE useful # {}
  <2>1. DOMAIN Keywords = 1 .. 2
    BY DEF Keywords
  <2>2. Min(useful) \in useful
    <3>1. useful \subseteq 0 .. 2
      BY <2>1
    <3> HIDE DEF useful
    <3> QED
      BY <1>3, <3>1, SmallestIs
  <2> DEFINE k == Min(useful)
  <2>3. k \in DOMAIN Keywords /\ Near(t, marks, k) # {}
    BY <2>2
  <2> HIDE DEF k
  <2>4. Near(t, marks, k) \subseteq (1 .. Len(t)) \X (1 .. Len(t))
    BY CodesType, AroundEnds DEF Near
  <2>5. First(Near(t, marks, k)) \in Near(t, marks, k)
    BY <2>3, <2>4, FirstIsOne, TextType, ExtractorConstants
  <2>6. First(Near(t, marks, k)) # Nothing
    <3> DEFINE f == First(Near(t, marks, k))
    <3>1. f \in (1 .. Len(t)) \X (1 .. Len(t)) /\ Len(t) \in Nat
      BY <2>4, <2>5, TextType
    <3> HIDE DEF f
    <3>2. f[1] # 0
      BY <3>1
    <3> QED
      BY <3>2 DEF Nothing, f
  <2> QED
    BY <1>1, <1>3, <2>3, <2>5, <2>6 DEF k
<1> QED
  BY <1>2, <1>3

\* Without a keyword, a code is found unless all look like times.
LEMMA FallbackFinds ==
    ASSUME NEW t \in Texts, NEW marks
    PROVE  /\ Fallback(t, marks) # Nothing => Fallback(t, marks) \in Codes(t, 1, Len(t), marks)
           /\ Fallback(t, marks) = Nothing =>
                \A w \in Codes(t, 1, Len(t), marks) : LooksLikeTime(t, w)
<1> DEFINE words == {w \in Codes(t, 1, Len(t), marks) : ~LooksLikeTime(t, w)}
<1>1. Fallback(t, marks) = First(words)
  BY DEF Fallback
<1>2. CASE words = {}
  BY <1>1, <1>2 DEF First
<1>3. CASE words # {}
  <2>1. words \subseteq (1 .. Len(t)) \X (1 .. Len(t)) /\ Len(t) \in Nat
    BY CodesType, TextType, ExtractorConstants
  <2>2. First(words) \in words
    <3> HIDE DEF words
    <3> QED
      BY <1>3, <2>1, FirstIsOne
  <2> DEFINE f == First(words)
  <2>3. f \in (1 .. Len(t)) \X (1 .. Len(t))
    BY <2>1, <2>2
  <2>4. f # Nothing
    <3> HIDE DEF f
    <3>1. f[1] # 0
      BY <2>1, <2>3
    <3> QED
      BY <3>1 DEF Nothing
  <2> QED
    BY <1>1, <2>2, <2>4
<1> QED
  BY <1>2, <1>3

\* What each step makes of a mail.
CodeIsRight(x) ==
    LET near == {w \in Codes(x.text, 1, Len(x.text), x.marks) : \E k \in DOMAIN Keywords :
                    LET a == Around(x.text, Keywords[k]) IN a[1] <= w[1] /\ w[2] <= a[2]}
    IN
    /\ x.code \in (0 .. MaxText) \X (0 .. MaxText)
    /\ x.code # Nothing =>
          \/ x.code \in Codes(x.text, 1, Len(x.text), x.marks)
          \/ \E k \in DOMAIN Keywords : LET a == Around(x.text, Keywords[k]) IN
                \/ x.code[1] = a[1] /\ a[1] > 1 /\ x.text[a[1] - 1] # "s"
                \/ x.code[2] = a[2] /\ a[2] < Len(x.text) /\ x.text[a[2] + 1] # "s"
    /\ x.code = Nothing =>
          /\ near = {}
          /\ (x.directed \/ x.marks = Latin) =>
                \A w \in Codes(x.text, 1, Len(x.text), x.marks) : LooksLikeTime(x.text, w)

LinkIsRight(x) ==
    /\ x.link \in 0 .. MaxLinks
    /\ x.link # 0 => x.links[x.link] # {} \/ (x.speaks /\ \A i \in DOMAIN x.links : x.links[i] = {})
    /\ x.link = 0 => \A i \in DOMAIN x.links : x.links[i] = {} /\ ~x.speaks

PartsAreRight(x) ==
    \A i \in DOMAIN x.parts : x.parts[i] = "text" =>
        /\ x.page # 0 /\ x.parts[x.page] = "text"
        /\ i # 5 => x.consumer # 0 \/ \E k \in 1 .. i : x.parts[k] = "tags"

\* Either search's code, or none, is right, for whoever is given it.
LEMMA FoundIsRight ==
    ASSUME NEW x, x.text \in Texts,
           \/ x.code = Nothing /\ Smart(x.text, x.marks) = Nothing
              /\ ((x.directed \/ x.marks = Latin) => Fallback(x.text, x.marks) = Nothing)
           \/ x.code = Smart(x.text, x.marks) /\ x.code # Nothing
           \/ x.code = Fallback(x.text, x.marks) /\ x.code # Nothing
    PROVE  CodeIsRight(x)
<1> DEFINE t == x.text
           marks == x.marks
           Ends(k) == Around(t, Keywords[k])
<1>1. Len(t) \in 1 .. MaxText /\ MaxText \in Nat
  BY TextType, ExtractorConstants
<1>2. \A k \in DOMAIN Keywords : Ends(k)[1] \in 1 .. Len(t) /\ Ends(k)[2] \in 0 .. Len(t)
  BY AroundEnds
<1>3. CASE /\ x.code = Nothing /\ Smart(t, marks) = Nothing
           /\ (x.directed \/ marks = Latin) => Fallback(t, marks) = Nothing
  <2>1. ASSUME NEW w \in Codes(t, 1, Len(t), marks), NEW k \in DOMAIN Keywords,
               Ends(k)[1] <= w[1], w[2] <= Ends(k)[2]
        PROVE  FALSE
    <3>1. w \in Near(t, marks, k)
      BY <1>2, <2>1, WholeIsNear DEF Near
    <3> QED
      BY <1>3, <3>1, SmartFinds
  <2>2. (x.directed \/ marks = Latin) => \A w \in Codes(t, 1, Len(t), marks) : LooksLikeTime(t, w)
    BY <1>3, FallbackFinds
  <2>3. Nothing \in (0 .. MaxText) \X (0 .. MaxText)
    BY <1>1 DEF Nothing
  <2> QED
    BY <1>3, <2>1, <2>2, <2>3 DEF CodeIsRight
<1>4. CASE x.code = Smart(t, marks) /\ x.code # Nothing
  <2>1. PICK k \in DOMAIN Keywords : x.code \in Near(t, marks, k)
    BY <1>4, SmartFinds
  <2>2. x.code \in Codes(t, Ends(k)[1], Ends(k)[2], marks)
    BY <2>1 DEF Near
  <2>3. x.code \in (1 .. Len(t)) \X (1 .. Len(t))
    BY <1>2, <2>2, CodesType
  <2>4. \/ x.code \in Codes(t, 1, Len(t), marks)
        \/ x.code[1] = Ends(k)[1] /\ Ends(k)[1] > 1 /\ t[Ends(k)[1] - 1] # "s"
        \/ x.code[2] = Ends(k)[2] /\ Ends(k)[2] < Len(t) /\ t[Ends(k)[2] + 1] # "s"
    BY <1>2, <2>2, NearIsWholeOrCut
  <2>5. x.code \in (0 .. MaxText) \X (0 .. MaxText)
    BY <1>1, <2>3
  <2> QED
    BY <1>4, <2>4, <2>5 DEF CodeIsRight
<1>5. CASE x.code = Fallback(t, marks) /\ x.code # Nothing
  <2>1. x.code \in Codes(t, 1, Len(t), marks)
    BY <1>5, FallbackFinds
  <2>2. x.code \in (1 .. Len(t)) \X (1 .. Len(t))
    BY <1>1, <2>1, CodesType
  <2>3. x.code \in (0 .. MaxText) \X (0 .. MaxText)
    BY <1>1, <2>2
  <2> QED
    BY <1>5, <2>1, <2>3 DEF CodeIsRight
<1> QED
  BY <1>3, <1>4, <1>5

\* The link that is preferred has a keyword if any has.
LEMMA PreferredHasOne ==
    ASSUME NEW links \in Links
    PROVE  /\ PreferredLink(links) \in 0 .. MaxLinks
           /\ PreferredLink(links) = 0 => DOMAIN links = {}
           /\ PreferredLink(links) # 0 => PreferredLink(links) \in DOMAIN links
           /\ PreferredLink(links) # 0 /\ links[PreferredLink(links)] = {} =>
                \A i \in DOMAIN links : links[i] = {}
<1> DEFINE with(k) == {i \in DOMAIN links : LinkKeywords[k] \in links[i]}
           useful == {k \in DOMAIN LinkKeywords : with(k) # {}}
<1>1. PICK n \in 0 .. MaxLinks : links \in [1 .. n -> SUBSET {"verify", "confirm"}]
  BY DEF Links
<1>2. MaxLinks \in Nat /\ n \in Nat
  BY ExtractorConstants
<1>3. links \in Seq(SUBSET {"verify", "confirm"})
  BY <1>1, <1>2, SeqDef
<1>4. links = <<>> <=> n = 0
  BY <1>1, <1>2, <1>3, LenProperties, EmptySeq
<1>5. PreferredLink(links) = IF links = <<>> THEN 0
                             ELSE IF useful = {} THEN 1 ELSE Min(with(Min(useful)))
  BY DEF PreferredLink
<1>6. DOMAIN LinkKeywords = 1 .. 2 /\ LinkKeywords[1] = "verify" /\ LinkKeywords[2] = "confirm"
  BY DEF LinkKeywords
<1>7. CASE links = <<>>
  BY <1>1, <1>2, <1>4, <1>5, <1>7
<1>8. CASE links # <<>> /\ useful = {}
  <2>1. with(1) = {} /\ with(2) = {}
    BY <1>6, <1>8
  <2>2. \A i \in DOMAIN links : links[i] = {}
    BY <1>1, <1>6, <2>1
  <2>3. PreferredLink(links) = 1 /\ 1 \in DOMAIN links /\ 1 \in 0 .. MaxLinks
    BY <1>1, <1>2, <1>4, <1>5, <1>8
  <2> QED
    BY <2>2, <2>3
<1>9. CASE links # <<>> /\ useful # {}
  <2> DEFINE k == Min(useful)
             l == Min(with(k))
  <2>1. k \in useful
    <3>1. useful \subseteq 0 .. 2
      BY <1>6
    <3> HIDE DEF useful
    <3> QED
      BY <1>9, <3>1, SmallestIs
  <2>2. l \in with(k)
    <3>1. with(k) \subseteq 0 .. n /\ with(k) # {}
      BY <1>1, <1>2, <2>1
    <3> HIDE DEF with
    <3> QED
      BY <1>2, <3>1, SmallestIs
  <2>3. PreferredLink(links) = l
    BY <1>5, <1>9
  <2> HIDE DEF l, k
  <2>4. l \in 1 .. n /\ links[l] # {}
    BY <1>1, <2>2
  <2> QED
    BY <1>1, <1>2, <2>3, <2>4
<1> QED
  BY <1>7, <1>8, <1>9

\* Both extractors read a part with a text, if a mail has one for them.
LEMMA PartsRead ==
    ASSUME NEW mail \in MailParts, NEW i \in DOMAIN mail, mail[i] = "text"
    PROVE  /\ TextPart(mail) # 0 /\ mail[TextPart(mail)] = "text"
           /\ i # 5 => ContentPart(mail) # 0 \/ \E k \in 1 .. i : mail[k] = "tags"
<1> DEFINE texts == {k \in DOMAIN mail : mail[k] = "text"}
           filled == {k \in 1 .. 4 : mail[k] # "empty"}
<1>1. mail \in [1 .. 5 -> {"empty", "tags", "text"}]
  BY DEF MailParts
<1>2. TextPart(mail) = Min(texts) /\ Min(texts) \in texts
  <2>1. TextPart(mail) = Min(texts)
    BY DEF TextPart
  <2>2. texts \subseteq 0 .. 5 /\ texts # {}
    BY <1>1
  <2> HIDE DEF texts
  <2> QED
    BY <2>1, <2>2, SmallestIs
<1>3. ASSUME i # 5 PROVE ContentPart(mail) # 0 \/ \E k \in 1 .. i : mail[k] = "tags"
  <2>1. i \in filled
    BY <1>1, <1>3
  <2> DEFINE m == Min(filled)
  <2>2. m \in filled /\ m <= i
    <3>1. filled \subseteq 0 .. 4 /\ filled # {}
      BY <2>1
    <3> HIDE DEF filled
    <3> QED
      BY <2>1, <3>1, SmallestIs
  <2>3. ContentPart(mail) = IF filled # {} /\ mail[m] = "text" THEN m ELSE 0
    BY DEF ContentPart
  <2> HIDE DEF m
  <2>4. m \in 1 .. 4 /\ m \in 1 .. i /\ mail[m] \in {"tags", "text"}
    BY <1>1, <2>2
  <2> QED
    BY <2>1, <2>3, <2>4
<1>4. \A k \in texts : k # 0
  BY <1>1
<1> QED
  BY <1>2, <1>3, <1>4

ExtractorInv == ExtractorTypeOK /\ ExtractionIsRight

\* What is right about a mail, part by part.
LEMMA RightIsWhole ==
    ASSUME CodeIsRight(extraction), LinkIsRight(extraction), PartsAreRight(extraction),
           extraction.text = <<>> \/ extraction.text \in Texts
    PROVE  ExtractorInv
<1>1. ExtractorTypeOK
  BY DEF ExtractorTypeOK, CodeIsRight, LinkIsRight
<1>2. ExtractionIsRight
  BY DEF ExtractionIsRight, Whole, CodeIsRight, LinkIsRight, PartsAreRight
<1> QED
  BY <1>1, <1>2 DEF ExtractorInv

\* Of no text no code is made, and of no link no link.
LEMMA NoCodeIsRight ==
    ASSUME NEW x, x.text = <<>>, x.code = Nothing
    PROVE  CodeIsRight(x)
<1>1. Codes(x.text, 1, Len(x.text), x.marks) = {}
  <2>1. Len(<<>>) = 0 /\ 1 .. 0 = {}
    OBVIOUS
  <2> QED
    BY <2>1 DEF Codes, Words
<1>2. Nothing \in (0 .. MaxText) \X (0 .. MaxText)
  BY ExtractorConstants DEF Nothing
<1> QED
  BY <1>1, <1>2 DEF CodeIsRight

LEMMA ExtractorInvInit == ExtractorInit => ExtractorInv
<1> SUFFICES ASSUME ExtractorInit PROVE ExtractorInv
  OBVIOUS
<1>1. /\ extraction.text = <<>> /\ extraction.code = Nothing /\ extraction.parts = <<>>
      /\ extraction.link = 0 /\ extraction.links = <<>>
  BY DEF ExtractorInit, NoExtraction
<1>2. CodeIsRight(extraction)
  BY <1>1, NoCodeIsRight
<1>3. DOMAIN <<>> = {}
  OBVIOUS
<1>4. LinkIsRight(extraction) /\ PartsAreRight(extraction)
  BY <1>1, <1>3, ExtractorConstants DEF LinkIsRight, PartsAreRight
<1> QED
  BY <1>1, <1>2, <1>4, RightIsWhole

LEMMA RightAfter ==
    ASSUME CodeIsRight(extraction'), LinkIsRight(extraction'), PartsAreRight(extraction'),
           extraction'.text = <<>> \/ extraction'.text \in Texts
    PROVE  ExtractorInv'
<1>1. (CodeIsRight(extraction) /\ LinkIsRight(extraction) /\ PartsAreRight(extraction)
       /\ (extraction.text = <<>> \/ extraction.text \in Texts))'
  BY DEF CodeIsRight, LinkIsRight, PartsAreRight
<1>2. (CodeIsRight(extraction) /\ LinkIsRight(extraction) /\ PartsAreRight(extraction)
       /\ (extraction.text = <<>> \/ extraction.text \in Texts) => ExtractorInv)'
  BY RightIsWhole, PTL
<1> QED
  BY <1>1, <1>2

LEMMA PageStep ==
    ASSUME NEW t \in Texts, ExtractForPage(t)
    PROVE  ExtractorInv'
<1> DEFINE x == extraction'
<1>1. /\ x.text = t /\ x.marks = Latin /\ x.code = PageCode(t) /\ x.link = 0
      /\ x.links = <<>> /\ x.parts = <<>>
  BY DEF ExtractForPage, NoExtraction
<1>2. PageCode(t) = IF Smart(t, Latin) # Nothing THEN Smart(t, Latin) ELSE Fallback(t, Latin)
  BY DEF PageCode
<1> HIDE DEF x
<1>3. CodeIsRight(x)
  BY <1>1, <1>2, FoundIsRight
<1>4. DOMAIN <<>> = {}
  OBVIOUS
<1>5. LinkIsRight(x) /\ PartsAreRight(x)
  BY <1>1, <1>4, ExtractorConstants DEF LinkIsRight, PartsAreRight
<1> QED
  BY <1>1, <1>3, <1>5, RightAfter DEF x

\* A consumer that takes letters too says so.
LEMMA ConsumerStep ==
    ASSUME NEW t \in Texts, NEW marks, NEW directed \in BOOLEAN,
           NEW links \in Links, NEW speaks \in BOOLEAN, marks = Latin => directed,
           ExtractForConsumer(t, marks, directed, links, speaks)
    PROVE  ExtractorInv'
<1> DEFINE x == extraction'
           near == Smart(t, marks)
           code == IF near # Nothing THEN near ELSE Fallback(t, marks)
           high == near # Nothing \/ (directed /\ code # Nothing)
           link == PreferredLink(links)
<1>1. /\ ConsumerCode(t, marks, directed).code = code
      /\ ConsumerCode(t, marks, directed).high = high
  BY DEF ConsumerCode
<1>2. /\ x.text = t /\ x.marks = marks /\ x.directed = directed
      /\ x.links = links /\ x.speaks = speaks /\ x.parts = <<>>
      /\ x.code = IF high THEN code ELSE Nothing
      /\ x.link = IF LinkIsHigh(links, speaks) THEN link ELSE 0
  <2> HIDE DEF code, high, link
  <2> QED
    BY <1>1 DEF ExtractForConsumer, Gate, NoExtraction, link
<1> HIDE DEF x
<1>3. CodeIsRight(x)
  BY <1>2, FoundIsRight
<1>4. LinkIsRight(x)
  <2>1. /\ link \in 0 .. MaxLinks
        /\ link = 0 => DOMAIN links = {}
        /\ link # 0 => link \in DOMAIN links
        /\ link # 0 /\ links[link] = {} => \A i \in DOMAIN links : links[i] = {}
    BY PreferredHasOne
  <2>2. LinkIsHigh(links, speaks) <=> link # 0 /\ (links[link] # {} \/ speaks)
    BY DEF LinkIsHigh
  <2> HIDE DEF link
  <2> QED
    BY <1>2, <2>1, <2>2, ExtractorConstants DEF LinkIsRight
<1>5. PartsAreRight(x)
  <2>1. DOMAIN <<>> = {}
    OBVIOUS
  <2> QED
    BY <1>2, <2>1 DEF PartsAreRight
<1> QED
  BY <1>2, <1>3, <1>4, <1>5, RightAfter DEF x

LEMMA PartsStep ==
    ASSUME NEW mail \in MailParts, ReadParts(mail)
    PROVE  ExtractorInv'
<1> DEFINE x == extraction'
<1>1. /\ x.text = <<>> /\ x.code = Nothing /\ x.link = 0 /\ x.links = <<>>
      /\ x.parts = mail /\ x.page = TextPart(mail) /\ x.consumer = ContentPart(mail)
  BY DEF ReadParts, NoExtraction
<1> HIDE DEF x
<1>2. CodeIsRight(x)
  BY <1>1, NoCodeIsRight
<1>3. DOMAIN <<>> = {}
  OBVIOUS
<1>4. LinkIsRight(x)
  BY <1>1, <1>3, ExtractorConstants DEF LinkIsRight
<1>5. PartsAreRight(x)
  BY <1>1, PartsRead DEF PartsAreRight
<1> QED
  BY <1>1, <1>2, <1>4, <1>5, RightAfter DEF x

LEMMA ExtractorInvStep == ExtractorInv /\ [ExtractorNext]_extraction => ExtractorInv'
<1> SUFFICES ASSUME ExtractorInv, [ExtractorNext]_extraction PROVE ExtractorInv'
  OBVIOUS
<1>1. CASE UNCHANGED extraction
  BY <1>1 DEF ExtractorInv, ExtractorTypeOK, ExtractionIsRight, Whole
<1>2. ASSUME NEW t \in Texts,
             \/ ExtractForPage(t)
             \/ ExtractForConsumer(t, Digits, FALSE, <<>>, FALSE)
             \/ ExtractForConsumer(t, Latin, TRUE, <<>>, FALSE)
      PROVE  ExtractorInv'
  <2>1. <<>> \in Links
    <3>1. <<>> \in [1 .. 0 -> SUBSET {"verify", "confirm"}] /\ 0 \in 0 .. MaxLinks
      BY ExtractorConstants
    <3> QED
      BY <3>1 DEF Links
  <2>2. Digits # Latin
    BY DEF Digits, Latin
  <2>3. CASE ExtractForPage(t)
    BY <2>3, PageStep
  <2>4. CASE ExtractForConsumer(t, Digits, FALSE, <<>>, FALSE)
    BY <2>1, <2>2, <2>4, ConsumerStep
  <2>5. CASE ExtractForConsumer(t, Latin, TRUE, <<>>, FALSE)
    BY <2>1, <2>5, ConsumerStep
  <2> QED
    BY <1>2, <2>3, <2>4, <2>5
<1>3. ASSUME NEW links \in Links, NEW speaks \in BOOLEAN,
             ExtractForConsumer(<<"s">>, Digits, FALSE, links, speaks)
      PROVE  ExtractorInv'
  <2>1. <<"s">> \in Texts
    <3>1. <<"s">> \in [1 .. 1 -> Marks] /\ 1 \in 1 .. MaxText
      BY ExtractorConstants DEF Marks
    <3> QED
      BY <3>1 DEF Texts
  <2>2. Digits # Latin
    BY DEF Digits, Latin
  <2> QED
    BY <1>3, <2>1, <2>2, ConsumerStep
<1>4. ASSUME NEW mail \in MailParts, ReadParts(mail) PROVE ExtractorInv'
  BY <1>4, PartsStep
<1> QED
  BY <1>1, <1>2, <1>3, <1>4 DEF ExtractorNext

\* The inductive invariant of the extractor holds in every behaviour.
THEOREM ExtractorInvariant == ExtractorSpec => []ExtractorInv
BY ExtractorInvInit, ExtractorInvStep, PTL DEF ExtractorSpec

\* What is given as a code or a link is right, and where one must be given it is.
THEOREM ExtractionsAreRight == ExtractorSpec => []ExtractionIsRight
<1>1. ExtractorInv => ExtractionIsRight
  BY DEF ExtractorInv
<1> QED
  BY <1>1, ExtractorInvariant, PTL
=============================================================================

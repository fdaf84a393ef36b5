--------------------------- MODULE AccountsProofs ---------------------------
(***************************************************************************)
(* Proofs about Accounts, for any addresses, import lists of up to two     *)
(* lines, threads and numbers of requests: an import's report is true and  *)
(* its accounts are in the group of their provider, no two accounts have   *)
(* an address, and no account is in a group that is not there.  And about  *)
(* AccountLines: an exported line is read back as the account it is of.    *)
(***************************************************************************)
EXTENDS Accounts, AccountLines, FiniteSetTheorems, SequenceTheorems, WellFoundedInduction, TLAPS

-----------------------------------------------------------------------------
(* The inductive invariant.                                                *)

Requests ==
    [op : {"idle", "single", "auto", "edit", "remark", "move", "delete_group"},
     stage : {"idle", "group", "create", "again", "look", "write", "answer"},
     n : 0 .. MaxAccountRequests, lines : ImportLists \cup {<<>>}, line : 1 .. 3,
     mode : {"skip", "overwrite"}, grouping : BOOLEAN, group : 0 .. MaxGroups,
     found : 0 .. MaxAccounts, imported : SUBSET (1 .. 2), ids : SUBSET AccountIds,
     row : AccountRows, moved : BOOLEAN]

\* Ids are given in order, and what has none is no account.
IdsInOrder ==
    \A a \in AccountIds : account[a].status = "none" =>
        /\ account[a].email = 0
        /\ \A b \in AccountIds : a < b => account[b].status = "none"

\* No two accounts have an address, no two groups a name.
AddressesDiffer ==
    \A a, b \in AccountIds : AccountExists(a) /\ account[a].email = account[b].email => a = b
GroupNamesDiffer ==
    \A g, h \in GroupIds : GroupExists(g) /\ group[g] = group[h] => g = h

\* An account is in a group that is there.
GroupsAreThere ==
    \A a \in AccountIds : AccountExists(a) =>
        account[a].group \in GroupIds /\ GroupExists(account[a].group)

\* An import looks at one of its lines, and at it only once it has its group; an
\* edit is of one account.
DeskInOrder(r) ==
    /\ r.op = "auto" =>
          /\ r.grouping \/ r.group # 0
          /\ r.stage # "answer" => r.line \in DOMAIN r.lines
          /\ r.stage \in {"look", "write"} => r.group # 0
    /\ r.op = "single" => ~r.grouping
    /\ r.op \in {"edit", "remark"} =>
          /\ \E a \in AccountIds : r.ids = {a}
          /\ r.row.status # "none" /\ r.row.email # 0 /\ r.row.group \in GroupIds
    /\ r.op \in {"single", "move", "delete_group"} => r.group \in GroupIds
    /\ r.op = "delete_group" => r.row.group \in GroupIds \ {r.group}

\* The group a provider's import has found bears the provider's name, and one
\* that has lost the race for it finds a group of that name, as long as nobody
\* renamed or deleted a group that did.
Placed(r, names) ==
    r.op = "auto" /\ r.grouping /\ ~r.moved =>
        /\ r.group # 0 => names[r.group] = "provider"
        /\ r.stage = "again" => \E g \in GroupIds : names[g] = "provider"

TablesInOrder == IdsInOrder /\ AddressesDiffer /\ GroupNamesDiffer /\ GroupsAreThere
DesksInOrder == \A w \in AccountThreads : DeskInOrder(desk[w]) /\ Placed(desk[w], group)

AccountsInv == AccountsTypeOK /\ TablesInOrder /\ DesksInOrder

-----------------------------------------------------------------------------
(* Constants, sets of numbers, lines.                                      *)

LEMMA AccountConstants ==
    /\ MaxAccounts \in Nat /\ MaxAccountRequests \in Nat /\ MaxChanges \in Nat
    /\ MaxGroups \in Nat /\ 1 \in GroupIds /\ 2 \in GroupIds /\ 0 \notin GroupIds
    /\ Emails \subseteq Nat /\ 0 \notin Emails
BY AccountsAssumption DEF AccountsAssumption, GroupIds

\* A set of numbers has a least one.
LEMMA LeastExists ==
    ASSUME NEW T, T \subseteq Nat, T # {}
    PROVE  \E x \in T : \A y \in T : x <= y
<1> DEFINE Below == {1 .. n : n \in T}
<1>1. IsWellFoundedOn(StrictSubsetOrdering(Nat), FiniteSubsetsOf(Nat))
  BY FS_StrictSubsetOrderingWellFounded
<1>2. Below \subseteq FiniteSubsetsOf(Nat) /\ Below # {}
  <2>1. \A n \in Nat : 1 .. n \subseteq Nat /\ IsFiniteSet(1 .. n)
    BY FS_Interval
  <2> QED
    BY <2>1 DEF FiniteSubsetsOf
<1>3. PICK s \in Below : \A t \in Below : <<t, s>> \notin StrictSubsetOrdering(Nat)
  <2> HIDE DEF Below
  <2> QED
    BY <1>1, <1>2, WFMin
<1>4. PICK x \in T : s = 1 .. x
  OBVIOUS
<1>5. ASSUME NEW y \in T, y < x PROVE FALSE
  <2>1. 1 .. y \in Below /\ 1 .. y \in SUBSET Nat /\ s \in SUBSET Nat
    BY <1>4
  <2>2. x \in Nat /\ y \in Nat /\ x \in 1 .. x /\ x \notin 1 .. y
    BY <1>5
  <2>3. 1 .. y \subseteq s /\ 1 .. y # s
    BY <1>4, <1>5, <2>2
  <2> QED
    BY <1>3, <2>1, <2>3 DEF StrictSubsetOrdering
<1> QED
  BY <1>5

LEMMA MinIsLeast ==
    ASSUME NEW T, T \subseteq Nat, T # {}
    PROVE  Min(T) \in T /\ \A y \in T : Min(T) <= y
BY LeastExists DEF Min

\* The next ids.
LEMMA NextIds ==
    /\ NewAccounts # {} => /\ Min(NewAccounts) \in NewAccounts
                           /\ \A a \in NewAccounts : Min(NewAccounts) <= a
    /\ NewGroups # {} => Min(NewGroups) \in NewGroups
<1>1. NewAccounts \subseteq Nat /\ NewGroups \subseteq Nat
  BY DEF NewAccounts, NewGroups, AccountIds, GroupIds
<1> QED
  BY <1>1, MinIsLeast

\* The lines of an import are addresses, two at most.
LEMMA LinesType ==
    ASSUME NEW s \in ImportLists \cup {<<>>}
    PROVE  /\ Len(s) \in 0 .. 2
           /\ DOMAIN s = 1 .. Len(s)
           /\ \A i \in DOMAIN s : s[i] \in Emails
<1>1. CASE s = <<>>
  BY <1>1
<1>2. CASE s \in ImportLists
  <2>1. PICK n \in 1 .. 2 : s \in [1 .. n -> Emails]
    BY <1>2, AccountsAssumption DEF AccountsAssumption
  <2>2. s \in Seq(Emails) /\ Len(s) = n
    BY <2>1
  <2> QED
    BY <2>1, <2>2
<1> QED
  BY <1>1, <1>2

-----------------------------------------------------------------------------
(* Requests on their way through the lines of an import.                   *)

\* Where a line begins, all but the stage stays.
LEMMA BeginsLine ==
    ASSUME NEW r \in Requests, r.op = "auto", r.grouping \/ r.group # 0
    PROVE  LET q == LineBegins(r) IN
           /\ q \in Requests /\ DeskInOrder(q)
           /\ q.stage \in {"answer", "group", "look"}
           /\ q.op = "auto" /\ q.n = r.n /\ q.lines = r.lines /\ q.line = r.line
           /\ q.grouping = r.grouping /\ q.group = r.group /\ q.found = r.found
           /\ q.imported = r.imported /\ q.moved = r.moved
<1> DEFINE q == LineBegins(r)
<1>1. /\ r.lines \in ImportLists \cup {<<>>} /\ r.line \in 1 .. 3 /\ r.group \in 0 .. MaxGroups
      /\ r.grouping \in BOOLEAN
  BY DEF Requests
<1>2. Len(r.lines) \in 0 .. 2 /\ DOMAIN r.lines = 1 .. Len(r.lines)
  BY <1>1, LinesType
<1>3. PICK stage \in {"answer", "group", "look"} :
        /\ q = [r EXCEPT !.stage = stage]
        /\ stage # "answer" => r.line <= Len(r.lines)
        /\ stage = "look" => r.group # 0
  <2>1. r.line \in Nat /\ Len(r.lines) \in Nat
    BY <1>1, <1>2
  <2>2. CASE r.line > Len(r.lines)
    BY <2>2 DEF LineBegins
  <2>3. CASE r.line <= Len(r.lines) /\ r.grouping /\ r.group = 0
    BY <2>1, <2>3 DEF LineBegins
  <2>4. CASE r.line <= Len(r.lines) /\ ~(r.grouping /\ r.group = 0)
    BY <2>1, <2>4 DEF LineBegins
  <2> QED
    BY <2>1, <2>2, <2>3, <2>4
<1>4. /\ q \in Requests
      /\ q.stage = stage /\ q.op = "auto" /\ q.n = r.n /\ q.lines = r.lines /\ q.line = r.line
      /\ q.grouping = r.grouping /\ q.group = r.group /\ q.found = r.found
      /\ q.imported = r.imported /\ q.moved = r.moved
  BY <1>3 DEF Requests
<1> HIDE DEF q
<1>5. stage # "answer" => q.line \in DOMAIN q.lines
  BY <1>1, <1>2, <1>3, <1>4
<1>6. DeskInOrder(q)
  BY <1>3, <1>4, <1>5 DEF DeskInOrder
<1> QED
  BY <1>3, <1>4, <1>6 DEF q

\* After a line comes the next one; the line that was may have counted.
LEMMA GoesOn ==
    ASSUME NEW r \in Requests, r.op = "auto", r.grouping \/ r.group # 0, r.line \in DOMAIN r.lines,
           NEW imported \in {r.imported, r.imported \cup {r.line}}
    PROVE  LET q == NextLine([r EXCEPT !.imported = imported]) IN
           /\ q \in Requests /\ DeskInOrder(q)
           /\ q.stage \in {"answer", "group", "look"}
           /\ q.op = "auto" /\ q.grouping = r.grouping /\ q.group = r.group
           /\ q.imported = imported /\ q.moved = r.moved
<1> DEFINE p == [r EXCEPT !.imported = imported]
           s == [p EXCEPT !.line = @ + 1, !.found = 0]
<1>1. r.lines \in ImportLists \cup {<<>>} /\ r.imported \in SUBSET (1 .. 2)
  BY DEF Requests
<1>2. r.line \in 1 .. 2 /\ r.line + 1 \in 1 .. 3
  BY <1>1, LinesType
<1>3. /\ p \in Requests /\ p.line = r.line /\ p.op = "auto" /\ p.grouping = r.grouping
      /\ p.group = r.group /\ p.imported = imported /\ p.moved = r.moved
  BY <1>1, <1>2 DEF Requests
<1> HIDE DEF p
<1>4. /\ s \in Requests /\ s.op = "auto" /\ s.grouping = r.grouping /\ s.group = r.group
      /\ s.imported = imported /\ s.moved = r.moved
  <2>1. p.line + 1 \in 1 .. 3 /\ 0 \in 0 .. MaxAccounts
    BY <1>2, <1>3, AccountConstants
  <2> QED
    BY <1>3, <2>1 DEF Requests
<1>5. NextLine(p) = LineBegins(s)
  BY DEF NextLine
<1> HIDE DEF s
<1> QED
  BY <1>4, <1>5, BeginsLine DEF p

-----------------------------------------------------------------------------
(* Steps of a desk.                                                        *)

LEMMA IdleRequest ==
    /\ IdleDesk \in Requests /\ DeskInOrder(IdleDesk)
    /\ \A names : Placed(IdleDesk, names)
    /\ NoAccount \in AccountRows
    /\ IdleDesk.op = "idle" /\ IdleDesk.imported = {}
<1>1. NoAccount \in AccountRows
  BY AccountConstants DEF NoAccount, AccountRows
<1>2. IdleDesk \in Requests
  BY <1>1, AccountConstants DEF IdleDesk, Requests
<1>3. IdleDesk.op = "idle" /\ IdleDesk.imported = {}
  BY DEF IdleDesk
<1> QED
  BY <1>1, <1>2, <1>3 DEF DeskInOrder, Placed

\* What a thread turns to leaves the other desks in order.
LEMMA DeskStep ==
    ASSUME AccountsInv, NEW w \in AccountThreads, NEW r \in Requests, DeskInOrder(r), Placed(r, group'),
           Now(w, r), \A v \in AccountThreads : Placed(desk[v], group) => Placed(desk[v], group')
    PROVE  desk' \in [AccountThreads -> Requests] /\ DesksInOrder'
<1>1. desk \in [AccountThreads -> Requests] /\ desk' = [desk EXCEPT ![w] = r]
  BY DEF AccountsInv, AccountsTypeOK, Requests, Now
<1>2. \A v \in AccountThreads : DeskInOrder(desk[v]) /\ Placed(desk[v], group')
  BY DEF AccountsInv, DesksInOrder
<1>3. \A v \in AccountThreads : desk'[v] = IF v = w THEN r ELSE desk[v]
  BY <1>1
<1> QED
  BY <1>1, <1>2, <1>3 DEF DesksInOrder

\* A step that writes no group, and keeps the accounts in order.
LEMMA DeskRequestStep ==
    ASSUME AccountsInv, NEW w \in AccountThreads, NEW r \in Requests, DeskInOrder(r), Placed(r, group),
           Now(w, r), account' \in [AccountIds -> AccountRows],
           IdsInOrder', AddressesDiffer', GroupsAreThere', UNCHANGED <<group, asked, changed>>
    PROVE  AccountsInv'
<1>1. desk' \in [AccountThreads -> Requests] /\ DesksInOrder'
  BY DeskStep
<1>2. AccountsTypeOK'
  BY <1>1 DEF AccountsInv, AccountsTypeOK, Requests
<1>3. GroupNamesDiffer'
  BY DEF AccountsInv, TablesInOrder, GroupNamesDiffer, GroupExists
<1> QED
  BY <1>1, <1>2, <1>3 DEF AccountsInv, TablesInOrder

\* A step that writes neither.
LEMMA ReadStep ==
    ASSUME AccountsInv, NEW w \in AccountThreads, NEW r \in Requests, DeskInOrder(r), Placed(r, group),
           Now(w, r), UNCHANGED <<account, group, asked, changed>>
    PROVE  AccountsInv'
<1>1. /\ account' \in [AccountIds -> AccountRows]
      /\ IdsInOrder' /\ AddressesDiffer' /\ GroupsAreThere'
  BY DEF AccountsInv, AccountsTypeOK, TablesInOrder, IdsInOrder, AddressesDiffer, GroupsAreThere,
         AccountExists, GroupExists
<1> QED
  BY <1>1, DeskRequestStep

\* A request that begins.
LEMMA ServeStep ==
    ASSUME AccountsInv, NEW w \in AccountThreads, NEW r \in Requests, DeskInOrder(r), Placed(r, group),
           Serve(w, r), UNCHANGED <<account, group, changed>>
    PROVE  AccountsInv'
<1> DEFINE q == [r EXCEPT !.n = asked + 1]
<1>1. asked + 1 \in 0 .. MaxAccountRequests /\ asked' = asked + 1 /\ Now(w, q)
  BY AccountConstants DEF AccountsInv, AccountsTypeOK, Serve, Now
<1>2. /\ q \in Requests /\ q.op = r.op /\ q.grouping = r.grouping /\ q.group = r.group
      /\ q.stage = r.stage /\ q.line = r.line /\ q.lines = r.lines /\ q.ids = r.ids
      /\ q.row = r.row /\ q.moved = r.moved
  BY <1>1 DEF Requests
<1> HIDE DEF q
<1>3. DeskInOrder(q) /\ Placed(q, group')
  BY <1>2 DEF DeskInOrder, Placed
<1>4. desk' \in [AccountThreads -> Requests] /\ DesksInOrder'
  BY <1>1, <1>2, <1>3, DeskStep
<1>5. AccountsTypeOK'
  BY <1>1, <1>4 DEF AccountsInv, AccountsTypeOK, Requests
<1>6. TablesInOrder'
  BY DEF AccountsInv, TablesInOrder, IdsInOrder, AddressesDiffer, GroupNamesDiffer, GroupsAreThere,
         AccountExists, GroupExists
<1> QED
  BY <1>4, <1>5, <1>6 DEF AccountsInv

-----------------------------------------------------------------------------
(* Requests begin.                                                         *)

\* A group that a request may name.
LEMMA AdmittedGroup ==
    ASSUME AccountsInv, NEW g \in GroupIds
    PROVE  g \in 0 .. MaxGroups /\ g # 0
BY AccountConstants DEF GroupIds

LEMMA StartImport ==
    ASSUME AccountsInv, NEW w \in AccountThreads, NEW lines \in ImportLists, NEW g \in GroupIds,
           \/ StartSingle(w, lines, g)
           \/ \E mode \in {"skip", "overwrite"} :
                StartAuto(w, lines, mode, TRUE, 0) \/ StartAuto(w, lines, mode, FALSE, g)
    PROVE  AccountsInv'
<1>1. /\ g \in 0 .. MaxGroups /\ g # 0 /\ 0 \in 0 .. MaxGroups /\ MaxGroups \in Nat
      /\ lines \in ImportLists \cup {<<>>}
  BY AdmittedGroup, AccountConstants
<1>2. CASE StartSingle(w, lines, g)
  <2> DEFINE r == [IdleDesk EXCEPT !.op = "single", !.stage = "write", !.lines = lines, !.group = g]
  <2>1. r \in Requests /\ r.op = "single" /\ ~r.grouping /\ r.group = g
    BY <1>1, IdleRequest DEF IdleDesk, Requests
  <2>2. Serve(w, r) /\ UNCHANGED <<account, group, changed>>
    BY <1>2 DEF StartSingle
  <2> HIDE DEF r
  <2>3. DeskInOrder(r) /\ Placed(r, group)
    BY <2>1 DEF DeskInOrder, Placed
  <2> QED
    BY <2>1, <2>2, <2>3, ServeStep
<1>3. ASSUME NEW mode \in {"skip", "overwrite"}, NEW grouping \in BOOLEAN, NEW k \in {0, g},
             grouping \/ k # 0, grouping => k = 0, StartAuto(w, lines, mode, grouping, k)
      PROVE  AccountsInv'
  <2> DEFINE r == [IdleDesk EXCEPT !.op = "auto", !.lines = lines, !.mode = mode,
                                   !.grouping = grouping, !.group = k]
  <2>1. /\ r \in Requests /\ r.op = "auto" /\ r.grouping = grouping /\ r.group = k
        /\ r.moved = FALSE
    BY <1>1, IdleRequest DEF IdleDesk, Requests
  <2>2. Serve(w, LineBegins(r)) /\ UNCHANGED <<account, group, changed>>
    BY <1>3 DEF StartAuto
  <2> HIDE DEF r
  <2>3. /\ LineBegins(r) \in Requests /\ DeskInOrder(LineBegins(r))
        /\ LineBegins(r).stage # "again" /\ LineBegins(r).grouping = grouping
        /\ LineBegins(r).group = k
    BY <1>3, <2>1, BeginsLine
  <2>4. Placed(LineBegins(r), group)
    BY <1>3, <2>3 DEF Placed
  <2> QED
    BY <2>2, <2>3, <2>4, ServeStep
<1> QED
  BY <1>1, <1>2, <1>3

LEMMA StartEdits ==
    ASSUME AccountsInv, NEW w \in AccountThreads, NEW a \in AccountIds,
           \/ StartRemark(w, a)
           \/ \E e \in Emails, g \in GroupIds : StartEdit(w, a, e, g, "active")
    PROVE  AccountsInv'
<1> DEFINE Edits(r) == /\ r \in Requests /\ r.op \in {"edit", "remark"} /\ r.ids = {a}
                       /\ r.row.status # "none" /\ r.row.email # 0 /\ r.row.group \in GroupIds
<1>1. ASSUME NEW r, Edits(r), Serve(w, r), UNCHANGED <<account, group, changed>> PROVE AccountsInv'
  <2>1. DeskInOrder(r) /\ Placed(r, group)
    BY <1>1 DEF DeskInOrder, Placed
  <2> QED
    BY <1>1, <2>1, ServeStep
<1>2. CASE StartRemark(w, a)
  <2> DEFINE row == [account[a] EXCEPT !.remark = 1]
             r == [IdleDesk EXCEPT !.op = "remark", !.stage = "look", !.ids = {a}, !.row = row]
  <2>1. account[a] \in AccountRows /\ account[a].email # 0
    BY <1>2 DEF StartRemark, AccountsInv, AccountsTypeOK, AccountExists
  <2>2. account[a].status # "none" /\ account[a].group \in GroupIds
    BY <2>1 DEF AccountsInv, TablesInOrder, IdsInOrder, GroupsAreThere, AccountExists
  <2>3. row \in AccountRows /\ row.status # "none" /\ row.email # 0 /\ row.group \in GroupIds
    BY <2>1, <2>2 DEF AccountRows
  <2>4. Serve(w, r) /\ UNCHANGED <<account, group, changed>>
    BY <1>2 DEF StartRemark
  <2> HIDE DEF row
  <2>5. r \in Requests /\ r.op = "remark" /\ r.ids = {a} /\ r.row = row
    BY <2>3, IdleRequest DEF IdleDesk, Requests
  <2> HIDE DEF r
  <2>6. Edits(r)
    BY <2>3, <2>5
  <2> QED
    BY <1>1, <2>4, <2>6
<1>3. ASSUME NEW e \in Emails, NEW g \in GroupIds, StartEdit(w, a, e, g, "active") PROVE AccountsInv'
  <2> DEFINE fresh == NewRow(e, g, 0)
             row == [fresh EXCEPT !.status = "active", !.remark = 1]
             r == [IdleDesk EXCEPT !.op = "edit", !.stage = "look", !.ids = {a}, !.row = row]
  <2>1. 0 \in 0 .. MaxAccountRequests /\ g \in 0 .. MaxGroups
    BY AdmittedGroup, AccountConstants
  <2>2. fresh \in AccountRows /\ fresh.email = e /\ fresh.group = g
    BY <2>1 DEF NewRow, AccountRows
  <2> HIDE DEF fresh
  <2>3. row \in AccountRows /\ row.status # "none" /\ row.email = e /\ row.group = g
    <3>1. row \in AccountRows
      <4>1. [fresh EXCEPT !.status = "active"] \in AccountRows
        BY <2>2 DEF AccountRows
      <4>2. \A x \in AccountRows : [x EXCEPT !.remark = 1] \in AccountRows
        BY DEF AccountRows
      <4>3. row = [[fresh EXCEPT !.status = "active"] EXCEPT !.remark = 1]
        OBVIOUS
      <4> QED
        BY <4>1, <4>2, <4>3
    <3>2. row.status = "active" /\ row.email = fresh.email /\ row.group = fresh.group
      BY <2>2 DEF AccountRows
    <3> QED
      BY <2>2, <3>1, <3>2
  <2> HIDE DEF row
  <2>4. Serve(w, r) /\ UNCHANGED <<account, group, changed>>
    BY <1>3 DEF StartEdit, row, fresh
  <2>5. r \in Requests /\ r.op = "edit" /\ r.ids = {a} /\ r.row = row
    BY <2>3, IdleRequest DEF IdleDesk, Requests
  <2> HIDE DEF r
  <2>6. Edits(r)
    BY <2>3, <2>5, AccountConstants
  <2> QED
    BY <1>1, <2>4, <2>6
<1> QED
  BY <1>2, <1>3

LEMMA StartOthers ==
    ASSUME AccountsInv, NEW w \in AccountThreads, NEW g \in GroupIds,
           \/ \E ids \in SUBSET AccountIds : StartMove(w, ids, g)
           \/ StartDeleteGroup(w, g)
    PROVE  AccountsInv'
<1>1. g \in 0 .. MaxGroups
  BY AdmittedGroup
<1>2. ASSUME NEW ids \in SUBSET AccountIds, StartMove(w, ids, g) PROVE AccountsInv'
  <2> DEFINE r == [IdleDesk EXCEPT !.op = "move", !.stage = "write", !.ids = ids, !.group = g]
  <2>1. r \in Requests /\ r.op = "move" /\ r.group = g
    BY <1>1, IdleRequest DEF IdleDesk, Requests
  <2>2. Serve(w, r) /\ UNCHANGED <<account, group, changed>>
    BY <1>2 DEF StartMove
  <2> HIDE DEF r
  <2>3. DeskInOrder(r) /\ Placed(r, group)
    BY <2>1 DEF DeskInOrder, Placed
  <2> QED
    BY <2>1, <2>2, <2>3, ServeStep
<1>3. CASE StartDeleteGroup(w, g)
  <2> DEFINE heir == [NoAccount EXCEPT !.group = DefaultGroup]
             r == [IdleDesk EXCEPT !.op = "delete_group", !.stage = "write", !.group = g,
                                   !.found = 0, !.row = heir]
  <2>1. DefaultGroup \in GroupIds /\ DefaultGroup # g /\ DefaultGroup \in 0 .. MaxGroups
    BY <1>3, AccountConstants, AdmittedGroup DEF DefaultGroup, GroupNamed, StartDeleteGroup
  <2>2. heir \in AccountRows /\ heir.group = DefaultGroup
    BY <2>1, AccountConstants DEF NoAccount, AccountRows
  <2>3. /\ Now(w, r) /\ UNCHANGED <<account, group, asked>>
        /\ changed < MaxChanges /\ changed' = changed + 1
    BY <1>3 DEF StartDeleteGroup, Changes
  <2> HIDE DEF heir
  <2>4. r \in Requests /\ r.op = "delete_group" /\ r.group = g /\ r.row = heir
    <3>1. 0 \in 0 .. MaxAccounts
      BY AccountConstants
    <3> QED
      BY <1>1, <2>2, <3>1, IdleRequest DEF IdleDesk, Requests
  <2> HIDE DEF r
  <2>5. DeskInOrder(r) /\ Placed(r, group')
    BY <2>1, <2>2, <2>4 DEF DeskInOrder, Placed
  <2>6. desk' \in [AccountThreads -> Requests] /\ DesksInOrder'
    BY <2>3, <2>4, <2>5, DeskStep
  <2>7. AccountsTypeOK'
    BY <2>3, <2>6, AccountConstants DEF AccountsInv, AccountsTypeOK, Requests
  <2>8. TablesInOrder'
    BY <2>3 DEF AccountsInv, TablesInOrder, IdsInOrder, AddressesDiffer, GroupNamesDiffer,
                GroupsAreThere, AccountExists, GroupExists
  <2> QED
    BY <2>6, <2>7, <2>8 DEF AccountsInv
<1> QED
  BY <1>2, <1>3

-----------------------------------------------------------------------------
(* The tables of accounts.                                                 *)

\* What a write of a row leaves as it was.
LEMMA RowUpdates ==
    ASSUME NEW x \in AccountRows
    PROVE  /\ \A g \in 0 .. MaxGroups : LET y == [x EXCEPT !.group = g] IN
                y \in AccountRows /\ y.group = g /\ y.email = x.email /\ y.status = x.status /\ y.by = x.by
           /\ \A n \in 0 .. MaxAccountRequests : LET y == [x EXCEPT !.by = n] IN
                y \in AccountRows /\ y.by = n /\ y.email = x.email /\ y.status = x.status /\ y.group = x.group
           /\ \A st \in {"active", "inactive"} : LET y == [x EXCEPT !.status = st] IN
                y \in AccountRows /\ y.status = st /\ y.email = x.email /\ y.group = x.group /\ y.by = x.by
<1>1. \A g \in 0 .. MaxGroups : LET y == [x EXCEPT !.group = g] IN
         y \in AccountRows /\ y.group = g /\ y.email = x.email /\ y.status = x.status /\ y.by = x.by
  BY DEF AccountRows
<1>2. \A n \in 0 .. MaxAccountRequests : LET y == [x EXCEPT !.by = n] IN
         y \in AccountRows /\ y.by = n /\ y.email = x.email /\ y.status = x.status /\ y.group = x.group
  BY DEF AccountRows
<1>3. \A st \in {"active", "inactive"} : LET y == [x EXCEPT !.status = st] IN
         y \in AccountRows /\ y.status = st /\ y.email = x.email /\ y.group = x.group /\ y.by = x.by
  BY DEF AccountRows
<1> QED
  BY <1>1, <1>2, <1>3

LEMMA NewRowType ==
    ASSUME NEW e \in Emails, NEW g \in GroupIds, NEW n \in 0 .. MaxAccountRequests
    PROVE  /\ NewRow(e, g, n) \in AccountRows
           /\ NewRow(e, g, n).email = e /\ NewRow(e, g, n).group = g /\ NewRow(e, g, n).by = n
           /\ NewRow(e, g, n).status = "active"
<1>1. g \in 0 .. MaxGroups /\ 0 \in 0 .. 1
  BY AccountConstants DEF GroupIds
<1> QED
  BY <1>1 DEF NewRow, AccountRows

\* Rows written where they were keep their order, addresses and groups, if
\* their groups are there.
LEMMA RowsStay ==
    ASSUME TablesInOrder,
           \A a \in AccountIds : /\ account'[a].email \in {account[a].email, 0}
                                 /\ account'[a].status = "none" <=> account[a].status = "none"
                                 /\ account'[a].email # 0 =>
                                       /\ account'[a].group \in GroupIds
                                       /\ group'[account'[a].group] \notin {"none", "deleted"}
    PROVE  IdsInOrder' /\ AddressesDiffer' /\ GroupsAreThere'
<1>1. IdsInOrder'
  BY DEF TablesInOrder, IdsInOrder
<1>2. AddressesDiffer'
  BY DEF TablesInOrder, AddressesDiffer, AccountExists
<1>3. GroupsAreThere'
  BY DEF GroupsAreThere, AccountExists, GroupExists
<1> QED
  BY <1>1, <1>2, <1>3

\* New rows keep them if they get the first ids that are left, and addresses
\* nobody has.
LEMMA RowsAdded ==
    ASSUME AccountsInv, UNCHANGED group,
           NEW N, N \subseteq NewAccounts,
           \A a \in AccountIds \ N : account'[a] = account[a],
           \A a \in N : /\ account'[a].status = "active" /\ account'[a].email \in Emails
                        /\ AccountOf(account'[a].email) = {}
                        /\ account'[a].group \in GroupIds /\ GroupExists(account'[a].group)
                        /\ \A b \in N : account'[a].email = account'[b].email => a = b
                        /\ \A b \in NewAccounts : b < a => b \in N
    PROVE  IdsInOrder' /\ AddressesDiffer' /\ GroupsAreThere'
<1>1. TablesInOrder /\ N \subseteq AccountIds /\ AccountIds \subseteq Int
  BY DEF AccountsInv, NewAccounts, AccountIds
<1>2. IdsInOrder'
  <2> SUFFICES ASSUME NEW a \in AccountIds, account'[a].status = "none"
               PROVE  /\ account'[a].email = 0
                      /\ \A b \in AccountIds : a < b => account'[b].status = "none"
    BY DEF IdsInOrder
  <2>1. a \notin N /\ account'[a] = account[a] /\ account[a].status = "none"
    BY <1>1
  <2>2. account[a].email = 0 /\ \A b \in AccountIds : a < b => account[b].status = "none"
    BY <1>1, <2>1 DEF TablesInOrder, IdsInOrder
  <2>3. a \in NewAccounts
    BY <2>1 DEF NewAccounts
  <2>4. \A b \in N : ~(a < b)
    BY <2>1, <2>3
  <2>5. \A b \in AccountIds : a < b => account'[b] = account[b]
    BY <2>4
  <2> QED
    BY <2>1, <2>2, <2>5
<1>3. AddressesDiffer'
  <2> SUFFICES ASSUME NEW a \in AccountIds, NEW b \in AccountIds, account'[a].email # 0,
                      account'[a].email = account'[b].email
               PROVE  a = b
    BY DEF AddressesDiffer, AccountExists
  <2>1. CASE a \notin N /\ b \notin N
    BY <1>1, <2>1 DEF TablesInOrder, AddressesDiffer, AccountExists
  <2>2. CASE a \in N /\ b \in N
    BY <2>2
  <2>3. CASE a \in N /\ b \notin N
    BY <2>3 DEF AccountOf
  <2>4. CASE a \notin N /\ b \in N
    BY <2>4 DEF AccountOf
  <2> QED
    BY <2>1, <2>2, <2>3, <2>4
<1>4. GroupsAreThere'
  BY <1>1 DEF TablesInOrder, GroupsAreThere, AccountExists, GroupExists
<1> QED
  BY <1>2, <1>3, <1>4

-----------------------------------------------------------------------------
(* The steps of an import of any lines.                                    *)

\* An import that has not answered, and its line.
LEMMA AutoFacts ==
    ASSUME AccountsInv, NEW w \in AccountThreads, desk[w].op = "auto", desk[w].stage # "answer"
    PROVE  LET r == desk[w] IN
           /\ r \in Requests /\ DeskInOrder(r) /\ Placed(r, group)
           /\ r.grouping \/ r.group # 0
           /\ r.line \in DOMAIN r.lines /\ r.lines[r.line] \in Emails
           /\ r.stage \in {"look", "write"} => r.group \in GroupIds
           /\ r.n \in 0 .. MaxAccountRequests /\ r.found \in 0 .. MaxAccounts
           /\ r.imported \subseteq 1 .. 2
<1>1. desk[w] \in Requests /\ DeskInOrder(desk[w]) /\ Placed(desk[w], group)
  BY DEF AccountsInv, AccountsTypeOK, DesksInOrder, Requests
<1>2. /\ desk[w].lines \in ImportLists \cup {<<>>} /\ desk[w].group \in 0 .. MaxGroups
      /\ desk[w].n \in 0 .. MaxAccountRequests /\ desk[w].found \in 0 .. MaxAccounts
      /\ desk[w].imported \subseteq 1 .. 2
  BY <1>1 DEF Requests
<1>3. /\ desk[w].line \in DOMAIN desk[w].lines
      /\ desk[w].grouping \/ desk[w].group # 0
      /\ desk[w].stage \in {"look", "write"} => desk[w].group # 0
  BY <1>1 DEF DeskInOrder
<1>4. desk[w].lines[desk[w].line] \in Emails
  BY <1>2, <1>3, LinesType
<1> QED
  BY <1>1, <1>2, <1>3, <1>4, AccountConstants DEF GroupIds

\* The group a line is to go to.
LEMMA GetsGroup ==
    ASSUME AccountsInv, NEW w \in AccountThreads, desk[w].op = "auto", desk[w].stage # "answer",
           NEW g \in GroupIds
    PROVE  LET q == WithGroup(desk[w], g) IN
           /\ q \in Requests /\ DeskInOrder(q) /\ q.stage # "again"
           /\ q.op = "auto" /\ q.grouping = desk[w].grouping /\ q.group = g
           /\ q.moved = desk[w].moved /\ q.imported = desk[w].imported
<1> DEFINE p == [desk[w] EXCEPT !.group = g]
<1>1. desk[w] \in Requests /\ g \in 0 .. MaxGroups /\ g # 0
  BY AutoFacts, AdmittedGroup
<1>2. /\ p \in Requests /\ p.op = "auto" /\ p.grouping = desk[w].grouping /\ p.group = g
      /\ p.moved = desk[w].moved /\ p.imported = desk[w].imported
  BY <1>1 DEF Requests
<1>3. WithGroup(desk[w], g) = LineBegins(p)
  BY DEF WithGroup
<1> HIDE DEF p
<1> QED
  BY <1>1, <1>2, <1>3, BeginsLine

\* A new stage of the same line.
LEMMA GetsStage ==
    ASSUME AccountsInv, NEW w \in AccountThreads, desk[w].op = "auto", desk[w].stage # "answer",
           NEW stage \in {"create", "again", "write"}, stage = "write" => desk[w].group # 0
    PROVE  LET q == [desk[w] EXCEPT !.stage = stage] IN
           /\ q \in Requests /\ DeskInOrder(q) /\ q.stage = stage
           /\ q.op = "auto" /\ q.grouping = desk[w].grouping /\ q.group = desk[w].group
           /\ q.moved = desk[w].moved /\ q.imported = desk[w].imported
<1> DEFINE q == [desk[w] EXCEPT !.stage = stage]
<1>1. /\ desk[w] \in Requests /\ desk[w].line \in DOMAIN desk[w].lines
      /\ desk[w].grouping \/ desk[w].group # 0
  BY AutoFacts
<1>2. /\ q \in Requests /\ q.stage = stage /\ q.op = "auto" /\ q.grouping = desk[w].grouping
      /\ q.group = desk[w].group /\ q.line = desk[w].line /\ q.lines = desk[w].lines
      /\ q.moved = desk[w].moved /\ q.imported = desk[w].imported
  BY <1>1 DEF Requests
<1> HIDE DEF q
<1>3. DeskInOrder(q)
  BY <1>1, <1>2 DEF DeskInOrder
<1> QED
  BY <1>2, <1>3 DEF q

\* A group of a new name.
LEMMA GroupAdded ==
    ASSUME AccountsInv, NEW name \in GivenNames, GroupNamed(name) = {}, NEW g \in NewGroups,
           group' = [group EXCEPT ![g] = name], UNCHANGED account
    PROVE  /\ group' \in [GroupIds -> GivenNames \cup {"system", "none", "deleted"}]
           /\ TablesInOrder' /\ group'[g] = name
           /\ \A v \in AccountThreads : Placed(desk[v], group) => Placed(desk[v], group')
<1>1. /\ group \in [GroupIds -> GivenNames \cup {"system", "none", "deleted"}]
      /\ account \in [AccountIds -> AccountRows] /\ TablesInOrder
  BY DEF AccountsInv, AccountsTypeOK
<1>2. /\ g \in GroupIds /\ group[g] = "none"
      /\ \A h \in GroupIds : group[h] # name /\ group'[h] = IF h = g THEN name ELSE group[h]
  BY <1>1 DEF NewGroups, GroupNamed
<1>3. name \notin {"none", "deleted"}
  BY DEF GivenNames
<1>4. GroupNamesDiffer'
  BY <1>1, <1>2, <1>3 DEF TablesInOrder, GroupNamesDiffer, GroupExists
<1>5. IdsInOrder' /\ AddressesDiffer'
  BY <1>1 DEF TablesInOrder, IdsInOrder, AddressesDiffer, AccountExists
<1>6. GroupsAreThere'
  BY <1>1, <1>2, <1>3 DEF TablesInOrder, GroupsAreThere, AccountExists, GroupExists
<1>7. ASSUME NEW v \in AccountThreads, Placed(desk[v], group) PROVE Placed(desk[v], group')
  <2>1. desk[v].group # 0 => desk[v].group \in GroupIds
    BY AccountConstants DEF AccountsInv, AccountsTypeOK, GroupIds
  <2>2. \A h \in GroupIds : group[h] = "provider" => group'[h] = "provider"
    BY <1>2
  <2> QED
    BY <1>7, <2>1, <2>2 DEF Placed
<1> QED
  BY <1>1, <1>2, <1>4, <1>5, <1>6, <1>7 DEF TablesInOrder

LEMMA FindGroupStep ==
    ASSUME AccountsInv, NEW w \in AccountThreads, FindGroup(w)
    PROVE  AccountsInv'
<1>1. /\ desk[w].op = "auto" /\ desk[w].stage = "group"
      /\ UNCHANGED <<account, group, asked, changed>>
  BY DEF FindGroup, AtStage
<1>2. CASE GroupNamed("provider") = {}
  <2> DEFINE q == [desk[w] EXCEPT !.stage = "create"]
  <2>1. Now(w, q)
    BY <1>2 DEF FindGroup
  <2>2. /\ q \in Requests /\ DeskInOrder(q) /\ q.stage = "create" /\ q.op = "auto"
        /\ q.grouping = desk[w].grouping /\ q.group = desk[w].group /\ q.moved = desk[w].moved
    BY <1>1, GetsStage
  <2>3. Placed(desk[w], group)
    BY <1>1, AutoFacts
  <2> HIDE DEF q
  <2>4. Placed(q, group)
    BY <1>1, <2>2, <2>3 DEF Placed
  <2> QED
    BY <1>1, <2>1, <2>2, <2>4, ReadStep
<1>3. CASE GroupNamed("provider") # {}
  <2>1. PICK g \in GroupIds : group[g] = "provider" /\ Now(w, WithGroup(desk[w], g))
    BY <1>3 DEF FindGroup, GroupNamed
  <2>2. LET q == WithGroup(desk[w], g) IN
            q \in Requests /\ DeskInOrder(q) /\ q.stage # "again" /\ q.group = g
    BY <1>1, GetsGroup
  <2>3. Placed(WithGroup(desk[w], g), group)
    BY <2>1, <2>2 DEF Placed
  <2> QED
    BY <1>1, <2>1, <2>2, <2>3, ReadStep
<1> QED
  BY <1>2, <1>3

LEMMA CreateGroupStep ==
    ASSUME AccountsInv, NEW w \in AccountThreads, CreateGroup(w)
    PROVE  AccountsInv'
<1>1. /\ desk[w].op = "auto" /\ desk[w].stage = "create"
      /\ UNCHANGED <<account, asked, changed>>
  BY DEF CreateGroup, AtStage
<1>2. CASE GroupNamed("provider") = {}
  <2> DEFINE g == Min(NewGroups)
             q == WithGroup(desk[w], g)
  <2>1. NewGroups # {} /\ group' = [group EXCEPT ![g] = "provider"] /\ Now(w, q)
    BY <1>2 DEF CreateGroup
  <2>2. g \in NewGroups /\ g \in GroupIds /\ "provider" \in GivenNames
    BY <2>1, NextIds DEF NewGroups, GivenNames
  <2>3. /\ q \in Requests /\ DeskInOrder(q) /\ q.stage # "again" /\ q.group = g
    BY <1>1, <2>2, GetsGroup
  <2> HIDE DEF g, q
  <2>4. /\ group' \in [GroupIds -> GivenNames \cup {"system", "none", "deleted"}]
        /\ TablesInOrder' /\ group'[g] = "provider"
        /\ \A v \in AccountThreads : Placed(desk[v], group) => Placed(desk[v], group')
    BY <1>1, <1>2, <2>1, <2>2, GroupAdded
  <2>5. Placed(q, group')
    BY <2>3, <2>4 DEF Placed
  <2>6. desk' \in [AccountThreads -> Requests] /\ DesksInOrder'
    BY <2>1, <2>3, <2>4, <2>5, DeskStep
  <2>7. AccountsTypeOK'
    BY <1>1, <2>4, <2>6 DEF AccountsInv, AccountsTypeOK, Requests
  <2> QED
    BY <2>4, <2>6, <2>7 DEF AccountsInv
<1>3. CASE GroupNamed("provider") # {}
  <2> DEFINE q == [desk[w] EXCEPT !.stage = "again"]
  <2>1. Now(w, q) /\ UNCHANGED group
    BY <1>3 DEF CreateGroup
  <2>2. /\ q \in Requests /\ DeskInOrder(q) /\ q.op = "auto" /\ q.grouping = desk[w].grouping
        /\ q.group = desk[w].group /\ q.moved = desk[w].moved
    BY <1>1, GetsStage
  <2>3. \E g \in GroupIds : group[g] = "provider"
    BY <1>3 DEF GroupNamed
  <2>4. Placed(desk[w], group)
    BY <1>1, AutoFacts
  <2> HIDE DEF q
  <2>5. Placed(q, group)
    BY <1>1, <2>2, <2>3, <2>4 DEF Placed
  <2> QED
    BY <1>1, <2>1, <2>2, <2>5, ReadStep
<1> QED
  BY <1>2, <1>3

LEMMA FindGroupAgainStep ==
    ASSUME AccountsInv, NEW w \in AccountThreads, FindGroupAgain(w)
    PROVE  AccountsInv'
<1> DEFINE g == IF GroupNamed("provider") # {} THEN Min(GroupNamed("provider")) ELSE DefaultGroup
           q == WithGroup(desk[w], g)
<1>1. /\ desk[w].op = "auto" /\ desk[w].stage = "again" /\ Now(w, q)
      /\ UNCHANGED <<account, group, asked, changed>>
  BY DEF FindGroupAgain, AtStage
<1>2. g \in GroupIds /\ (GroupNamed("provider") # {} => group[g] = "provider")
  <2>1. CASE GroupNamed("provider") # {}
    <3>1. GroupNamed("provider") \subseteq Nat
      BY DEF GroupNamed, GroupIds
    <3>2. g \in GroupNamed("provider")
      BY <2>1, <3>1, MinIsLeast
    <3> QED
      BY <3>2 DEF GroupNamed
  <2>2. CASE GroupNamed("provider") = {}
    BY <2>2, AccountConstants DEF DefaultGroup, GroupNamed
  <2> QED
    BY <2>1, <2>2
<1>3. /\ q \in Requests /\ DeskInOrder(q) /\ q.stage # "again" /\ q.group = g
      /\ q.grouping = desk[w].grouping /\ q.moved = desk[w].moved
  BY <1>1, <1>2, GetsGroup
<1>4. Placed(desk[w], group)
  BY <1>1, AutoFacts
<1>5. Placed(q, group)
  <2> HIDE DEF g, q
  <2> QED
    BY <1>1, <1>2, <1>3, <1>4 DEF Placed, GroupNamed
<1> QED
  BY <1>1, <1>3, <1>5, ReadStep

\* A line that does not count leaves what has.
LEMMA SameImported ==
    ASSUME NEW r \in Requests
    PROVE  [r EXCEPT !.imported = r.imported] = r
BY DEF Requests

\* Where a line has counted, or has not.
LEMMA CountsStep ==
    ASSUME AccountsInv, NEW w \in AccountThreads, AtStage(w, "auto", "write"),
           NEW b \in BOOLEAN, Counts(w, b)
    PROVE  \E q \in Requests :
              /\ Now(w, q) /\ DeskInOrder(q) /\ Placed(q, group)
              /\ q.imported = IF b THEN desk[w].imported \cup {desk[w].line} ELSE desk[w].imported
<1> DEFINE r == desk[w]
           imported == IF b THEN r.imported \cup {r.line} ELSE r.imported
           q == NextLine([r EXCEPT !.imported = imported])
<1>1. r.op = "auto" /\ r.stage = "write"
  BY DEF AtStage
<1>2. /\ r \in Requests /\ Placed(r, group) /\ (r.grouping \/ r.group # 0)
      /\ r.line \in DOMAIN r.lines
  BY <1>1, AutoFacts
<1>3. Now(w, q)
  <2>1. CASE b
    BY <2>1 DEF Counts
  <2>2. CASE ~b
    <3>1. [r EXCEPT !.imported = r.imported] = r
      BY <1>2, SameImported
    <3>2. q = NextLine(r) /\ Now(w, NextLine(r))
      BY <2>2, <3>1 DEF Counts
    <3> QED
      BY <3>2
  <2> QED
    BY <2>1, <2>2
<1>4. imported \in {r.imported, r.imported \cup {r.line}}
  OBVIOUS
<1>5. /\ q \in Requests /\ DeskInOrder(q) /\ q.stage # "again"
      /\ q.grouping = r.grouping /\ q.group = r.group
      /\ q.imported = imported /\ q.moved = r.moved
  <2> HIDE DEF imported, r
  <2> QED
    BY <1>1, <1>2, <1>4, GoesOn
<1>6. Placed(q, group)
  <2> HIDE DEF q, r
  <2> QED
    BY <1>1, <1>2, <1>5 DEF Placed
<1> QED
  BY <1>3, <1>5, <1>6

LEMMA LookUpStep ==
    ASSUME AccountsInv, NEW w \in AccountThreads, LookUp(w)
    PROVE  AccountsInv' /\ desk'[w].imported = desk[w].imported
<1> DEFINE r == desk[w]
           old == AccountOf(r.lines[r.line])
<1>1. /\ r.op = "auto" /\ r.stage = "look"
      /\ UNCHANGED <<account, group, asked, changed>>
  BY DEF LookUp, AtStage
<1>2. /\ r \in Requests /\ DeskInOrder(r) /\ Placed(r, group) /\ r.group \in GroupIds
      /\ r.line \in DOMAIN r.lines
  BY <1>1, AutoFacts
<1>3. \E q \in Requests : /\ Now(w, q) /\ DeskInOrder(q) /\ Placed(q, group)
                          /\ q.imported = r.imported
  <2>1. CASE old = {}
    <3> DEFINE q == [r EXCEPT !.stage = "write"]
    <3>1. Now(w, q)
      BY <2>1 DEF LookUp
    <3>2. /\ q \in Requests /\ DeskInOrder(q) /\ q.stage = "write" /\ q.group = r.group
          /\ q.grouping = r.grouping /\ q.moved = r.moved /\ q.imported = r.imported
      BY <1>1, <1>2, GetsStage, AccountConstants
    <3> HIDE DEF q
    <3>3. Placed(q, group)
      BY <1>1, <1>2, <3>2 DEF Placed
    <3> QED
      BY <3>1, <3>2, <3>3
  <2>2. CASE old # {} /\ r.mode = "skip"
    <3> DEFINE q == NextLine([r EXCEPT !.imported = r.imported])
    <3>1. [r EXCEPT !.imported = r.imported] = r
      BY <1>2, SameImported
    <3>2. Now(w, q)
      BY <2>2, <3>1 DEF LookUp
    <3>3. /\ q \in Requests /\ DeskInOrder(q) /\ q.stage # "again"
          /\ q.grouping = r.grouping /\ q.group = r.group
          /\ q.imported = r.imported /\ q.moved = r.moved
      <4>1. r.grouping \/ r.group # 0
        BY <1>1, AutoFacts
      <4> HIDE DEF r
      <4> QED
        BY <1>1, <1>2, <4>1, GoesOn
    <3> HIDE DEF q
    <3>4. Placed(q, group)
      BY <1>1, <1>2, <3>3 DEF Placed
    <3> QED
      BY <3>2, <3>3, <3>4
  <2>3. CASE old # {} /\ r.mode # "skip"
    <3> DEFINE q == [r EXCEPT !.stage = "write", !.found = Min(old)]
    <3>1. Now(w, q)
      BY <2>3 DEF LookUp
    <3>2. Min(old) \in 0 .. MaxAccounts
      <4>1. old \subseteq Nat /\ old \subseteq AccountIds
        BY DEF AccountOf, AccountIds
      <4>2. Min(old) \in old
        BY <2>3, <4>1, MinIsLeast
      <4> QED
        BY <4>1, <4>2, AccountConstants DEF AccountIds
    <3>3. /\ q \in Requests /\ q.stage = "write" /\ q.group = r.group /\ q.op = r.op
          /\ q.grouping = r.grouping /\ q.moved = r.moved /\ q.imported = r.imported
          /\ q.line = r.line /\ q.lines = r.lines
      <4> HIDE DEF old, r
      <4> QED
        BY <1>2, <3>2 DEF Requests
    <3> HIDE DEF q
    <3>4. DeskInOrder(q) /\ Placed(q, group)
      BY <1>1, <1>2, <3>3, AccountConstants DEF Placed, DeskInOrder
    <3> QED
      BY <3>1, <3>3, <3>4
  <2> QED
    BY <2>1, <2>2, <2>3
<1>4. desk'[w].imported = desk[w].imported
  BY <1>3 DEF Now, AccountsInv, AccountsTypeOK
<1> QED
  BY <1>1, <1>3, <1>4, ReadStep

\* What the insertion of a line writes.
LEMMA AddedRow ==
    ASSUME AccountsInv, NEW w \in AccountThreads, AddLine(w),
           AccountOf(desk[w].lines[desk[w].line]) = {}, GroupExists(desk[w].group)
    PROVE  LET e == desk[w].lines[desk[w].line]
               row == NewRow(e, desk[w].group, desk[w].n) IN
           /\ e \in Emails /\ row \in AccountRows
           /\ row.email = e /\ row.group = desk[w].group /\ row.by = desk[w].n /\ row.status = "active"
           /\ Min(NewAccounts) \in NewAccounts /\ Min(NewAccounts) \in AccountIds
           /\ \A a \in NewAccounts : Min(NewAccounts) <= a
           /\ account' \in [AccountIds -> AccountRows]
           /\ \A a \in AccountIds : account'[a] = IF a = Min(NewAccounts) THEN row ELSE account[a]
           /\ Counts(w, TRUE)
<1> DEFINE e == desk[w].lines[desk[w].line]
           row == NewRow(e, desk[w].group, desk[w].n)
           m == Min(NewAccounts)
<1>1. desk[w].op = "auto" /\ desk[w].stage = "write"
  BY DEF AddLine, AtStage
<1>2. NewAccounts # {} /\ account' = [account EXCEPT ![m] = row] /\ Counts(w, TRUE)
  BY DEF AddLine
<1>3. e \in Emails /\ desk[w].group \in GroupIds /\ desk[w].n \in 0 .. MaxAccountRequests
  BY <1>1, AutoFacts
<1>4. m \in NewAccounts /\ m \in AccountIds /\ \A a \in NewAccounts : m <= a
  BY <1>2, NextIds DEF NewAccounts
<1> HIDE DEF m, e
<1>5. /\ row \in AccountRows
      /\ row.email = e /\ row.group = desk[w].group /\ row.by = desk[w].n /\ row.status = "active"
  BY <1>3, NewRowType
<1> HIDE DEF row
<1>6. account \in [AccountIds -> AccountRows]
  BY DEF AccountsInv, AccountsTypeOK
<1>7. /\ account' \in [AccountIds -> AccountRows]
      /\ \A a \in AccountIds : account'[a] = IF a = m THEN row ELSE account[a]
  BY <1>2, <1>4, <1>5, <1>6
<1> QED
  BY <1>2, <1>3, <1>4, <1>5, <1>7 DEF m, e, row

LEMMA AddLineStep ==
    ASSUME AccountsInv, NEW w \in AccountThreads, AddLine(w)
    PROVE  AccountsInv'
<1> DEFINE e == desk[w].lines[desk[w].line]
<1>1. AtStage(w, "auto", "write") /\ UNCHANGED <<group, asked, changed>>
  BY DEF AddLine
<1>2. CASE AccountOf(e) = {} /\ GroupExists(desk[w].group)
  <2> DEFINE m == Min(NewAccounts)
  <2>1. /\ e \in Emails /\ m \in NewAccounts
        /\ m \in AccountIds /\ account' \in [AccountIds -> AccountRows]
        /\ \A a \in NewAccounts : m <= a
        /\ account'[m].email = e /\ account'[m].group = desk[w].group
        /\ account'[m].status = "active"
        /\ \A a \in AccountIds \ {m} : account'[a] = account[a]
        /\ Counts(w, TRUE)
    BY <1>2, AddedRow
  <2>2. desk[w].group \in GroupIds
    BY <1>1, AutoFacts DEF AtStage
  <2>3. NewAccounts \subseteq Int
    BY DEF NewAccounts, AccountIds
  <2>4. IdsInOrder' /\ AddressesDiffer' /\ GroupsAreThere'
    <3> DEFINE N == {m}
    <3>1. N \subseteq NewAccounts /\ \A a \in AccountIds \ N : account'[a] = account[a]
      BY <2>1
    <3>2. \A a \in N : /\ account'[a].status = "active" /\ account'[a].email \in Emails
                       /\ AccountOf(account'[a].email) = {}
                       /\ account'[a].group \in GroupIds /\ GroupExists(account'[a].group)
                       /\ \A b \in N : account'[a].email = account'[b].email => a = b
                       /\ \A b \in NewAccounts : b < a => b \in N
      <4> HIDE DEF m, e
      <4>1. ASSUME NEW b \in NewAccounts, b < m PROVE FALSE
        <5>1. b \in Int /\ m \in Int /\ m <= b
          BY <2>1, <2>3
        <5> QED
          BY <4>1, <5>1
      <4>2. GroupExists(account'[m].group) /\ AccountOf(account'[m].email) = {}
        BY <1>2, <2>1
      <4> QED
        BY <2>1, <2>2, <4>1, <4>2
    <3> HIDE DEF N
    <3> QED
      BY <1>1, <3>1, <3>2, RowsAdded
  <2>5. PICK q \in Requests : Now(w, q) /\ DeskInOrder(q) /\ Placed(q, group)
    BY <1>1, <2>1, CountsStep
  <2> QED
    BY <1>1, <2>1, <2>4, <2>5, DeskRequestStep
<1>3. CASE ~(AccountOf(e) = {} /\ GroupExists(desk[w].group))
  <2>1. Counts(w, FALSE) /\ UNCHANGED account
    BY <1>3 DEF AddLine
  <2>2. PICK q \in Requests : Now(w, q) /\ DeskInOrder(q) /\ Placed(q, group)
    BY <1>1, <2>1, CountsStep
  <2> QED
    BY <1>1, <2>1, <2>2, ReadStep
<1> QED
  BY <1>2, <1>3

\* What the overwriting of a row writes.
LEMMA OverwrittenRow ==
    ASSUME AccountsInv, NEW w \in AccountThreads, OverwriteLine(w),
           AccountExists(desk[w].found), GroupExists(desk[w].group)
    PROVE  LET f == desk[w].found IN
           /\ f \in AccountIds
           /\ account' \in [AccountIds -> AccountRows]
           /\ account'[f].email = account[f].email /\ account'[f].group = desk[w].group
           /\ account'[f].by = desk[w].n /\ account'[f].status = account[f].status
           /\ \A a \in AccountIds \ {f} : account'[a] = account[a]
<1> DEFINE f == desk[w].found
           g == desk[w].group
           n == desk[w].n
<1>1. desk[w].op = "auto" /\ desk[w].stage = "write" /\ f # 0
  BY DEF OverwriteLine, AtStage
<1>2. account' = [account EXCEPT ![f].group = g, ![f].by = n]
  BY DEF OverwriteLine
<1>3. f \in AccountIds /\ g \in 0 .. MaxGroups /\ n \in 0 .. MaxAccountRequests
  <2>1. f \in 0 .. MaxAccounts /\ g \in GroupIds /\ n \in 0 .. MaxAccountRequests
    BY <1>1, AutoFacts
  <2> HIDE DEF f, g, n
  <2> QED
    BY <1>1, <2>1, AccountConstants, AdmittedGroup DEF AccountIds
<1> HIDE DEF f, g, n
<1>4. account \in [AccountIds -> AccountRows] /\ account[f] \in AccountRows
  BY <1>3 DEF AccountsInv, AccountsTypeOK
<1> DEFINE x == [account[f] EXCEPT !.group = g]
           y == [x EXCEPT !.by = n]
<1>5. x \in AccountRows /\ x.group = g /\ x.email = account[f].email /\ x.status = account[f].status
  BY <1>3, <1>4, RowUpdates
<1>6. /\ y \in AccountRows /\ y.group = g /\ y.email = account[f].email
      /\ y.status = account[f].status /\ y.by = n
  <2> HIDE DEF x
  <2> QED
    BY <1>3, <1>5, RowUpdates
<1>7. account' = [account EXCEPT ![f] = y]
  BY <1>2, <1>3, <1>4
<1> HIDE DEF x, y
<1> QED
  BY <1>3, <1>4, <1>6, <1>7 DEF f, g, n

LEMMA OverwriteLineStep ==
    ASSUME AccountsInv, NEW w \in AccountThreads, OverwriteLine(w)
    PROVE  AccountsInv'
<1>1. AtStage(w, "auto", "write") /\ UNCHANGED <<group, asked, changed>>
  BY DEF OverwriteLine
<1>2. PICK q \in Requests : Now(w, q) /\ DeskInOrder(q) /\ Placed(q, group)
  <2>1. Counts(w, GroupExists(desk[w].group) \/ ~AccountExists(desk[w].found))
    BY DEF OverwriteLine
  <2>2. (GroupExists(desk[w].group) \/ ~AccountExists(desk[w].found)) \in BOOLEAN
    BY DEF GroupExists, AccountExists
  <2> QED
    BY <1>1, <2>1, <2>2, CountsStep
<1>3. CASE AccountExists(desk[w].found) /\ GroupExists(desk[w].group)
  <2>1. LET f == desk[w].found IN
        /\ f \in AccountIds
        /\ account' \in [AccountIds -> AccountRows]
        /\ account'[f].email = account[f].email /\ account'[f].group = desk[w].group
        /\ account'[f].status = account[f].status
        /\ \A a \in AccountIds \ {f} : account'[a] = account[a]
    BY <1>3, OverwrittenRow
  <2>2. desk[w].group \in GroupIds /\ TablesInOrder
    BY <1>1, AutoFacts DEF AtStage, AccountsInv
  <2>3. IdsInOrder' /\ AddressesDiffer' /\ GroupsAreThere'
    <3>1. \A a \in AccountIds : /\ account'[a].email \in {account[a].email, 0}
                                /\ account'[a].status = "none" <=> account[a].status = "none"
                                /\ account'[a].email # 0 =>
                                     /\ account'[a].group \in GroupIds
                                     /\ group'[account'[a].group] \notin {"none", "deleted"}
      BY <1>1, <1>3, <2>1, <2>2 DEF TablesInOrder, GroupsAreThere, GroupExists, AccountExists
    <3> QED
      BY <2>2, <3>1, RowsStay
  <2> QED
    BY <1>1, <1>2, <2>1, <2>3, DeskRequestStep
<1>4. CASE ~(AccountExists(desk[w].found) /\ GroupExists(desk[w].group))
  <2>1. UNCHANGED account
    BY <1>4 DEF OverwriteLine
  <2> QED
    BY <1>1, <1>2, <2>1, ReadStep
<1> QED
  BY <1>3, <1>4

-----------------------------------------------------------------------------
(* The import for one provider: its lines get new rows, in their order.    *)

Fresh(w) ==
    LET r == desk[w] IN
    {i \in DOMAIN r.lines : /\ GroupExists(r.group) /\ AccountOf(r.lines[i]) = {}
                            /\ \A k \in 1 .. i - 1 : r.lines[k] # r.lines[i]}
IdOf(w, i) == Min(NewAccounts) + Cardinality({k \in Fresh(w) : k < i})

LEMMA SingleFacts ==
    ASSUME AccountsInv, NEW w \in AccountThreads, desk[w].op = "single"
    PROVE  /\ desk[w] \in Requests /\ ~desk[w].grouping /\ desk[w].group \in GroupIds
           /\ desk[w].n \in 0 .. MaxAccountRequests
           /\ Fresh(w) \subseteq 1 .. 2 /\ Fresh(w) \subseteq DOMAIN desk[w].lines
           /\ \A i \in Fresh(w) : desk[w].lines[i] \in Emails
<1>1. desk[w] \in Requests /\ DeskInOrder(desk[w])
  BY DEF AccountsInv, AccountsTypeOK, DesksInOrder, Requests
<1>2. desk[w].lines \in ImportLists \cup {<<>>} /\ desk[w].n \in 0 .. MaxAccountRequests
  BY <1>1 DEF Requests
<1>3. ~desk[w].grouping /\ desk[w].group \in GroupIds
  BY <1>1 DEF DeskInOrder
<1>4. /\ Len(desk[w].lines) \in 0 .. 2 /\ DOMAIN desk[w].lines = 1 .. Len(desk[w].lines)
      /\ \A i \in DOMAIN desk[w].lines : desk[w].lines[i] \in Emails
  BY <1>2, LinesType
<1>5. Fresh(w) \subseteq DOMAIN desk[w].lines
  BY DEF Fresh
<1> QED
  BY <1>1, <1>2, <1>3, <1>4, <1>5

LEMMA Pair == IsFiniteSet({1, 2}) /\ Cardinality({1, 2}) = 2
<1>1. IsFiniteSet({1}) /\ Cardinality({1}) = 1
  BY FS_Singleton
<1>2. IsFiniteSet({1} \cup {2}) /\ Cardinality({1} \cup {2}) = IF 2 \in {1} THEN 1 ELSE 1 + 1
  BY <1>1, FS_AddElement
<1>3. {1} \cup {2} = {1, 2} /\ 2 \notin {1}
  OBVIOUS
<1> QED
  BY <1>2, <1>3

\* The ids of an import's lines: there are as many left.
LEMMA SingleIds ==
    ASSUME AccountsInv, NEW w \in AccountThreads, desk[w].op = "single",
           Cardinality(Fresh(w)) <= Cardinality(NewAccounts)
    PROVE  /\ \A i \in Fresh(w) :
                 /\ IdOf(w, i) \in NewAccounts
                 /\ \A b \in NewAccounts : b < IdOf(w, i) => \E k \in Fresh(w) : b = IdOf(w, k)
           /\ \A i, k \in Fresh(w) : IdOf(w, i) = IdOf(w, k) => i = k
<1> DEFINE m == Min(NewAccounts)
           F == Fresh(w)
           Before(i) == {k \in F : k < i}
<1>1. F \subseteq 1 .. 2
  BY SingleFacts
<1>2. IsFiniteSet(F) /\ Cardinality(F) \in Nat
  <2>1. F \in SUBSET {1, 2}
    BY <1>1
  <2>2. IsFiniteSet({1, 2})
    BY Pair
  <2>3. IsFiniteSet(F)
    BY <2>1, <2>2, FS_Subset
  <2> QED
    BY <2>3, FS_CardinalityType
<1>3. /\ IsFiniteSet(AccountIds) /\ IsFiniteSet(NewAccounts) /\ Cardinality(NewAccounts) \in Nat
      /\ NewAccounts \subseteq AccountIds /\ NewAccounts \subseteq Int
  <2>1. IsFiniteSet(AccountIds)
    BY FS_Interval, AccountConstants DEF AccountIds
  <2>2. NewAccounts \subseteq AccountIds /\ NewAccounts \subseteq Int
    BY DEF NewAccounts, AccountIds
  <2> QED
    BY <2>1, <2>2, FS_Subset, FS_CardinalityType
<1>4. Cardinality({}) = 0 /\ Cardinality({1}) = 1
  BY FS_EmptySet, FS_Singleton
<1>5. Before(1) = {} /\ (1 \in F => Before(2) = {1}) /\ (1 \notin F => Before(2) = {})
  BY <1>1
<1>6. F # {} => /\ m \in NewAccounts /\ m \in Int
                /\ \A b \in NewAccounts : b \in Int /\ m <= b
  <2>1. ASSUME F # {} PROVE NewAccounts # {}
    <3>1. Cardinality(F) # 0
      BY <1>2, <2>1, FS_EmptySet
    <3>2. Cardinality(NewAccounts) # 0
      BY <1>2, <1>3, <3>1
    <3> QED
      BY <1>4, <3>2
  <2> QED
    BY <1>3, <2>1, NextIds
<1>7. /\ F # {} => m + 0 = m
      /\ \A i \in F : IdOf(w, i) = m + Cardinality(Before(i))
  BY <1>6 DEF IdOf
<1>8. /\ 1 \in F => IdOf(w, 1) = m
      /\ 2 \in F => IdOf(w, 2) = IF 1 \in F THEN m + 1 ELSE m
  BY <1>4, <1>5, <1>7
<1>9. ASSUME 1 \in F, 2 \in F PROVE m + 1 \in NewAccounts
  <2>1. F = {1, 2} /\ Cardinality({1, 2}) = 2
    BY <1>1, <1>9, Pair
  <2>2. m \in NewAccounts /\ m \in Int /\ \A b \in NewAccounts : b \in Int /\ m <= b
    BY <1>6, <1>9
  <2>3. m + 1 \in AccountIds
    <3> SUFFICES ASSUME m + 1 \notin AccountIds PROVE FALSE
      OBVIOUS
    <3>1. m = MaxAccounts /\ \A b \in NewAccounts : b <= MaxAccounts
      BY <1>3, <2>2, AccountConstants DEF AccountIds
    <3>2. NewAccounts \subseteq {m}
      BY <2>2, <3>1
    <3>3. IsFiniteSet({m}) /\ Cardinality({m}) = 1
      BY FS_Singleton
    <3>4. Cardinality(NewAccounts) <= 1
      BY <3>2, <3>3, FS_Subset
    <3> QED
      BY <1>3, <2>1, <3>4
  <2>4. account[m].status = "none" /\ m \in AccountIds
    BY <2>2 DEF NewAccounts
  <2>5. account[m + 1].status = "none"
    BY <2>2, <2>3, <2>4 DEF AccountsInv, TablesInOrder, IdsInOrder
  <2> QED
    BY <2>3, <2>5 DEF NewAccounts
<1> HIDE DEF m, F, Before
<1>10. ASSUME NEW i \in F
       PROVE  /\ IdOf(w, i) \in NewAccounts
              /\ \A b \in NewAccounts : b < IdOf(w, i) => \E k \in F : b = IdOf(w, k)
  <2>1. i = 1 \/ i = 2
    BY <1>1
  <2>2. m \in NewAccounts /\ m \in Int /\ \A b \in NewAccounts : b \in Int /\ m <= b
    BY <1>6
  <2>3. CASE IdOf(w, i) = m
    BY <2>2, <2>3
  <2>4. CASE i = 2 /\ 1 \in F
    <3>1. IdOf(w, i) = m + 1 /\ IdOf(w, 1) = m /\ m + 1 \in NewAccounts
      BY <1>8, <1>9, <2>4
    <3>2. \A b \in NewAccounts : b < m + 1 => b = m
      BY <2>2
    <3> QED
      BY <2>4, <3>1, <3>2
  <2> QED
    BY <1>8, <2>1, <2>3, <2>4
<1>11. ASSUME NEW i \in F, NEW k \in F, IdOf(w, i) = IdOf(w, k) PROVE i = k
  BY <1>1, <1>6, <1>8, <1>11
<1> QED
  BY <1>10, <1>11 DEF F

\* What the import writes.
LEMMA SingleRows ==
    ASSUME AccountsInv, NEW w \in AccountThreads, WriteSingle(w)
    PROVE  /\ account' \in [AccountIds -> AccountRows]
           /\ \A a \in AccountIds : ~(\E i \in Fresh(w) : IdOf(w, i) = a) => account'[a] = account[a]
           /\ \A i \in Fresh(w) :
                 /\ IdOf(w, i) \in NewAccounts
                 /\ account'[IdOf(w, i)].email = desk[w].lines[i]
                 /\ account'[IdOf(w, i)].group = desk[w].group
                 /\ account'[IdOf(w, i)].by = desk[w].n
                 /\ account'[IdOf(w, i)].status = "active"
           /\ desk[w].op = "single" /\ Cardinality(Fresh(w)) <= Cardinality(NewAccounts)
           /\ Now(w, [desk[w] EXCEPT !.stage = "answer", !.imported = Fresh(w)])
           /\ UNCHANGED <<group, asked, changed>>
<1> DEFINE Row(i) == NewRow(desk[w].lines[i], desk[w].group, desk[w].n)
           At(a) == CHOOSE i \in Fresh(w) : IdOf(w, i) = a
<1>1. /\ desk[w].op = "single" /\ Cardinality(Fresh(w)) <= Cardinality(NewAccounts)
      /\ Now(w, [desk[w] EXCEPT !.stage = "answer", !.imported = Fresh(w)])
      /\ UNCHANGED <<group, asked, changed>>
  BY DEF WriteSingle, AtStage, Fresh
<1>2. account' = [a \in AccountIds |-> IF \E i \in Fresh(w) : IdOf(w, i) = a
                                       THEN Row(At(a)) ELSE account[a]]
  BY DEF WriteSingle, Fresh, IdOf
<1>3. /\ \A i \in Fresh(w) : IdOf(w, i) \in NewAccounts
      /\ \A i, k \in Fresh(w) : IdOf(w, i) = IdOf(w, k) => i = k
  BY <1>1, SingleIds
<1>4. /\ desk[w].group \in GroupIds /\ desk[w].n \in 0 .. MaxAccountRequests
      /\ \A i \in Fresh(w) : desk[w].lines[i] \in Emails
  BY <1>1, SingleFacts
<1>5. \A i \in Fresh(w) : /\ Row(i) \in AccountRows /\ Row(i).email = desk[w].lines[i]
                          /\ Row(i).group = desk[w].group /\ Row(i).by = desk[w].n
                          /\ Row(i).status = "active"
  BY <1>4, NewRowType
<1> HIDE DEF Row
<1>6. \A i \in Fresh(w) : At(IdOf(w, i)) = i
  BY <1>3
<1>7. \A i \in Fresh(w) : IdOf(w, i) \in AccountIds /\ account'[IdOf(w, i)] = Row(i)
  <2>1. \A i \in Fresh(w) : IdOf(w, i) \in AccountIds
    BY <1>3 DEF NewAccounts
  <2> HIDE DEF At
  <2> QED
    BY <1>2, <1>6, <2>1
<1>8. \A a \in AccountIds : ~(\E i \in Fresh(w) : IdOf(w, i) = a) => account'[a] = account[a]
  BY <1>2
<1>9. account' \in [AccountIds -> AccountRows]
  <2>1. \A a \in AccountIds : account'[a] \in AccountRows
    BY <1>5, <1>7, <1>8 DEF AccountsInv, AccountsTypeOK
  <2>2. account' = [a \in AccountIds |-> account'[a]]
    BY <1>2
  <2> QED
    BY <2>1, <2>2
<1> QED
  BY <1>1, <1>3, <1>5, <1>7, <1>8, <1>9

LEMMA WriteSingleStep ==
    ASSUME AccountsInv, NEW w \in AccountThreads, WriteSingle(w)
    PROVE  AccountsInv'
<1> DEFINE N == {IdOf(w, i) : i \in Fresh(w)}
           q == [desk[w] EXCEPT !.stage = "answer", !.imported = Fresh(w)]
<1>1. /\ account' \in [AccountIds -> AccountRows]
      /\ \A a \in AccountIds : ~(\E i \in Fresh(w) : IdOf(w, i) = a) => account'[a] = account[a]
      /\ desk[w].op = "single" /\ Cardinality(Fresh(w)) <= Cardinality(NewAccounts)
      /\ Now(w, q)
      /\ UNCHANGED <<group, asked, changed>>
  BY SingleRows
<1>2. \A i \in Fresh(w) :
         /\ IdOf(w, i) \in NewAccounts
         /\ account'[IdOf(w, i)].email = desk[w].lines[i]
         /\ account'[IdOf(w, i)].group = desk[w].group
         /\ account'[IdOf(w, i)].status = "active"
  BY SingleRows
<1>3. /\ \A i \in Fresh(w) : \A b \in NewAccounts :
            b < IdOf(w, i) => \E k \in Fresh(w) : b = IdOf(w, k)
      /\ \A i, k \in Fresh(w) : IdOf(w, i) = IdOf(w, k) => i = k
  BY <1>1, SingleIds
<1>4. /\ desk[w] \in Requests /\ ~desk[w].grouping /\ desk[w].group \in GroupIds
      /\ Fresh(w) \subseteq 1 .. 2 /\ \A i \in Fresh(w) : desk[w].lines[i] \in Emails
  BY <1>1, SingleFacts
<1>5. /\ \A i \in Fresh(w) : GroupExists(desk[w].group) /\ AccountOf(desk[w].lines[i]) = {}
      /\ \A i, k \in Fresh(w) : desk[w].lines[i] = desk[w].lines[k] => i = k
  <2>1. \A i \in Fresh(w) : /\ GroupExists(desk[w].group) /\ AccountOf(desk[w].lines[i]) = {}
                            /\ \A k \in 1 .. i - 1 : desk[w].lines[k] # desk[w].lines[i]
    BY DEF Fresh
  <2>2. ASSUME NEW i \in Fresh(w), NEW k \in Fresh(w), desk[w].lines[i] = desk[w].lines[k], i # k
        PROVE  FALSE
    <3>1. i \in 1 .. 2 /\ k \in 1 .. 2
      BY <1>4
    <3>2. i \in 1 .. k - 1 \/ k \in 1 .. i - 1
      BY <2>2, <3>1
    <3> QED
      BY <2>1, <2>2, <3>2
  <2> QED
    BY <2>1, <2>2
<1>6. IdsInOrder' /\ AddressesDiffer' /\ GroupsAreThere'
  <2>1. N \subseteq NewAccounts /\ \A a \in AccountIds \ N : account'[a] = account[a]
    BY <1>1, <1>2
  <2>2. ASSUME NEW a \in N
        PROVE  /\ account'[a].status = "active" /\ account'[a].email \in Emails
               /\ AccountOf(account'[a].email) = {}
               /\ account'[a].group \in GroupIds /\ GroupExists(account'[a].group)
               /\ \A b \in N : account'[a].email = account'[b].email => a = b
               /\ \A b \in NewAccounts : b < a => b \in N
    <3>1. PICK i \in Fresh(w) : a = IdOf(w, i)
      OBVIOUS
    <3>2. account'[a].status = "active" /\ account'[a].email \in Emails
      BY <1>2, <1>4, <3>1
    <3>3. AccountOf(account'[a].email) = {}
      BY <1>2, <1>5, <3>1
    <3>4. account'[a].group \in GroupIds /\ GroupExists(account'[a].group)
      BY <1>2, <1>4, <1>5, <3>1
    <3>5. ASSUME NEW b \in N, account'[a].email = account'[b].email PROVE a = b
      <4>1. PICK k \in Fresh(w) : b = IdOf(w, k)
        OBVIOUS
      <4> QED
        BY <1>2, <1>5, <3>1, <3>5, <4>1
    <3>6. ASSUME NEW b \in NewAccounts, b < a PROVE b \in N
      BY <1>3, <3>1, <3>6
    <3> QED
      BY <3>2, <3>3, <3>4, <3>5, <3>6
  <2> HIDE DEF N
  <2> QED
    BY <1>1, <2>1, <2>2, RowsAdded
<1>7. /\ q \in Requests /\ q.op = "single" /\ q.grouping = desk[w].grouping
      /\ q.group = desk[w].group
  BY <1>1, <1>4 DEF Requests
<1> HIDE DEF q
<1>8. DeskInOrder(q) /\ Placed(q, group)
  BY <1>4, <1>7 DEF DeskInOrder, Placed
<1> QED
  BY <1>1, <1>6, <1>7, <1>8, DeskRequestStep

-----------------------------------------------------------------------------
(* Edits, and steps of one change.                                         *)

LEMMA AnswerStep ==
    ASSUME AccountsInv, NEW w \in AccountThreads, AnswerImport(w)
    PROVE  AccountsInv'
BY IdleRequest, ReadStep DEF AnswerImport

\* What an edit holds is the row it will write, but for the secrets it reads.
LEMMA ReadSecretsStep ==
    ASSUME AccountsInv, NEW w \in AccountThreads, ReadSecrets(w)
    PROVE  AccountsInv'
<1> DEFINE r == desk[w]
           Read(by) == [r EXCEPT !.stage = "write", !.row = [@ EXCEPT !.by = by]]
<1>1. /\ r \in Requests /\ DeskInOrder(r) /\ r.op \in {"edit", "remark"}
      /\ UNCHANGED <<account, group, asked, changed>>
      /\ account \in [AccountIds -> AccountRows]
  BY DEF ReadSecrets, AccountsInv, AccountsTypeOK, DesksInOrder, Requests
<1>2. CASE Now(w, IdleDesk)
  BY <1>1, <1>2, IdleRequest, ReadStep
<1>3. ASSUME NEW by \in 0 .. MaxAccountRequests, Now(w, Read(by)) PROVE AccountsInv'
  <2> DEFINE row == [r.row EXCEPT !.by = by]
             q == Read(by)
  <2>1. r.row \in AccountRows
    BY <1>1 DEF Requests
  <2>2. /\ row \in AccountRows /\ row.email = r.row.email /\ row.status = r.row.status
        /\ row.group = r.row.group
    BY <2>1, RowUpdates
  <2> HIDE DEF row
  <2>3. q = [r EXCEPT !.stage = "write", !.row = row]
    BY DEF row
  <2>4. q \in Requests /\ q.op = r.op /\ q.ids = r.ids /\ q.row = row
    BY <1>1, <2>2, <2>3 DEF Requests
  <2> HIDE DEF q
  <2>5. DeskInOrder(q) /\ Placed(q, group)
    BY <1>1, <2>2, <2>4 DEF DeskInOrder, Placed
  <2> QED
    BY <1>1, <1>3, <2>4, <2>5, ReadStep DEF q
<1>4. \A a \in AccountIds : account[a].by \in 0 .. MaxAccountRequests
  BY <1>1 DEF AccountRows
<1>5. r.ids \subseteq AccountIds /\ 0 \in 0 .. MaxAccountRequests
  BY <1>1, AccountConstants DEF Requests
<1> QED
  BY <1>2, <1>3, <1>4, <1>5 DEF ReadSecrets

LEMMA WriteEditStep ==
    ASSUME AccountsInv, NEW w \in AccountThreads, WriteEdit(w)
    PROVE  AccountsInv'
<1> DEFINE row == desk[w].row
<1>1. /\ desk[w].op \in {"edit", "remark"} /\ Now(w, IdleDesk) /\ UNCHANGED <<group, asked, changed>>
      /\ account' = [a \in AccountIds |-> IF a \in desk[w].ids /\ AccountExists(a) /\ RowFits(a, row)
                                          THEN row ELSE account[a]]
  BY DEF WriteEdit
<1>2. /\ account \in [AccountIds -> AccountRows] /\ TablesInOrder /\ desk[w] \in Requests
      /\ DeskInOrder(desk[w])
  BY DEF AccountsInv, AccountsTypeOK, DesksInOrder, Requests
<1>3. PICK c \in AccountIds : desk[w].ids = {c}
  BY <1>1, <1>2 DEF DeskInOrder
<1>4. row \in AccountRows /\ row.status # "none" /\ row.email # 0 /\ row.group \in GroupIds
  BY <1>1, <1>2 DEF DeskInOrder, Requests
<1> HIDE DEF row
<1>5. /\ account' \in [AccountIds -> AccountRows]
      /\ \A a \in AccountIds \ {c} : account'[a] = account[a]
      /\ \/ account'[c] = account[c]
         \/ account'[c] = row /\ AccountExists(c) /\ RowFits(c, row)
  BY <1>1, <1>2, <1>3, <1>4
<1>6. CASE account'[c] = account[c]
  <2>1. \A a \in AccountIds : account'[a] = account[a]
    BY <1>5, <1>6
  <2>2. IdsInOrder' /\ AddressesDiffer' /\ GroupsAreThere'
    BY <1>1, <1>2, <2>1 DEF TablesInOrder, IdsInOrder, AddressesDiffer, GroupsAreThere, AccountExists,
                            GroupExists
  <2> QED
    BY <1>1, <1>5, <2>2, IdleRequest, DeskRequestStep
<1>7. CASE account'[c] = row /\ AccountExists(c) /\ RowFits(c, row)
  <2>1. account[c].status # "none"
    BY <1>2, <1>7 DEF TablesInOrder, IdsInOrder, AccountExists
  <2>2. IdsInOrder'
    BY <1>2, <1>4, <1>5, <1>7, <2>1 DEF TablesInOrder, IdsInOrder
  <2>3. \A a \in AccountIds : account[a].email = row.email => a = c
    BY <1>7 DEF RowFits, AccountOf
  <2>4. AddressesDiffer'
    BY <1>2, <1>5, <1>7, <2>3 DEF TablesInOrder, AddressesDiffer, AccountExists
  <2>5. GroupExists(row.group)
    BY <1>7 DEF RowFits
  <2>6. GroupsAreThere'
    BY <1>1, <1>2, <1>4, <1>5, <1>7, <2>5 DEF TablesInOrder, GroupsAreThere, AccountExists, GroupExists
  <2> QED
    BY <1>1, <1>5, <2>2, <2>4, <2>6, IdleRequest, DeskRequestStep
<1> QED
  BY <1>5, <1>6, <1>7

LEMMA WriteMoveStep ==
    ASSUME AccountsInv, NEW w \in AccountThreads, WriteMove(w)
    PROVE  AccountsInv'
<1> DEFINE g == desk[w].group
           Moved(a) == [account[a] EXCEPT !.group = g]
<1>1. /\ desk[w].op = "move" /\ Now(w, IdleDesk) /\ UNCHANGED <<group, asked, changed>>
      /\ account' = [a \in AccountIds |-> IF a \in desk[w].ids /\ AccountExists(a) /\ GroupExists(g)
                                          THEN Moved(a) ELSE account[a]]
  BY DEF WriteMove, AtStage
<1>2. account \in [AccountIds -> AccountRows] /\ TablesInOrder /\ DeskInOrder(desk[w])
  BY DEF AccountsInv, AccountsTypeOK, DesksInOrder
<1>3. g \in GroupIds /\ g \in 0 .. MaxGroups
  BY <1>1, <1>2, AdmittedGroup DEF DeskInOrder
<1>4. \A a \in AccountIds : /\ Moved(a) \in AccountRows /\ Moved(a).email = account[a].email
                            /\ Moved(a).status = account[a].status /\ Moved(a).group = g
  <2> HIDE DEF g
  <2> QED
    BY <1>2, <1>3, RowUpdates
<1> HIDE DEF g, Moved
<1>5. \A a \in AccountIds : account'[a] = account[a] \/ (account'[a] = Moved(a) /\ GroupExists(g))
  BY <1>1
<1>6. account' \in [AccountIds -> AccountRows]
  BY <1>1, <1>2, <1>4
<1>7. IdsInOrder' /\ AddressesDiffer' /\ GroupsAreThere'
  <2>1. ASSUME NEW a \in AccountIds
        PROVE  /\ account'[a].email \in {account[a].email, 0}
               /\ account'[a].status = "none" <=> account[a].status = "none"
               /\ account'[a].email # 0 =>
                     /\ account'[a].group \in GroupIds
                     /\ group'[account'[a].group] \notin {"none", "deleted"}
    BY <1>1, <1>2, <1>3, <1>4, <1>5 DEF TablesInOrder, GroupsAreThere, AccountExists, GroupExists
  <2> QED
    BY <1>2, <2>1, RowsStay
<1> QED
  BY <1>1, <1>6, <1>7, IdleRequest, DeskRequestStep

\* An account's status changes, or it is deleted.
LEMMA ChangeStep ==
    ASSUME AccountsInv, NEW a \in AccountIds,
           DeleteAccount(a) \/ SetAccountStatus(a, "inactive")
    PROVE  AccountsInv'
<1>1. /\ account \in [AccountIds -> AccountRows] /\ TablesInOrder /\ account[a].email # 0
      /\ changed < MaxChanges /\ changed' = changed + 1 /\ UNCHANGED <<group, desk, asked>>
  BY DEF AccountsInv, AccountsTypeOK, DeleteAccount, SetAccountStatus, Changes, AccountExists
<1>2. account[a].status # "none"
  BY <1>1 DEF TablesInOrder, IdsInOrder
<1>3. PICK row \in AccountRows :
         /\ account' = [account EXCEPT ![a] = row]
         /\ row.status # "none" /\ row.email \in {account[a].email, 0}
         /\ row.email # 0 => row.group = account[a].group
  <2>1. CASE DeleteAccount(a)
    <3> DEFINE st == account[a].status
    <3>1. account' = [account EXCEPT ![a] = [NoAccount EXCEPT !.status = st]]
      BY <2>1 DEF DeleteAccount, DeletedRow
    <3>2. st \in {"none", "active", "inactive"} /\ st # "none"
      BY <1>1, <1>2 DEF AccountRows
    <3> HIDE DEF st
    <3>3. LET row == [NoAccount EXCEPT !.status = st] IN
              row \in AccountRows /\ row.status = st /\ row.email = 0
      BY <3>2, AccountConstants DEF NoAccount, AccountRows
    <3> QED
      BY <3>1, <3>2, <3>3
  <2>2. CASE SetAccountStatus(a, "inactive")
    <3>1. account' = [account EXCEPT ![a] = [account[a] EXCEPT !.status = "inactive"]]
      BY <1>1, <2>2 DEF SetAccountStatus
    <3> QED
      BY <1>1, <3>1, RowUpdates
  <2> QED
    BY <2>1, <2>2
<1>4. /\ account' \in [AccountIds -> AccountRows] /\ account'[a] = row
      /\ \A b \in AccountIds \ {a} : account'[b] = account[b]
  BY <1>1, <1>3
<1>5. IdsInOrder' /\ AddressesDiffer' /\ GroupsAreThere'
  <2>1. ASSUME NEW b \in AccountIds
        PROVE  /\ account'[b].email \in {account[b].email, 0}
               /\ account'[b].status = "none" <=> account[b].status = "none"
               /\ account'[b].email # 0 =>
                     /\ account'[b].group \in GroupIds
                     /\ group'[account'[b].group] \notin {"none", "deleted"}
    BY <1>1, <1>2, <1>3, <1>4 DEF TablesInOrder, GroupsAreThere, AccountExists, GroupExists
  <2> QED
    BY <1>1, <2>1, RowsStay
<1>6. AccountsTypeOK'
  BY <1>1, <1>4, AccountConstants DEF AccountsInv, AccountsTypeOK
<1>7. GroupNamesDiffer' /\ DesksInOrder'
  BY <1>1 DEF AccountsInv, TablesInOrder, GroupNamesDiffer, GroupExists, DesksInOrder
<1> QED
  BY <1>5, <1>6, <1>7 DEF AccountsInv, TablesInOrder

-----------------------------------------------------------------------------
(* Groups.                                                                 *)

LEMMA AddGroupStep ==
    ASSUME AccountsInv, NEW name \in GivenNames, AddGroup(name)
    PROVE  AccountsInv'
<1> DEFINE g == Min(NewGroups)
<1>1. /\ GroupNamed(name) = {} /\ NewGroups # {} /\ group' = [group EXCEPT ![g] = name]
      /\ changed < MaxChanges /\ changed' = changed + 1 /\ UNCHANGED <<account, desk, asked>>
  BY DEF AddGroup, Changes
<1>2. g \in NewGroups
  BY <1>1, NextIds
<1> HIDE DEF g
<1>3. /\ group' \in [GroupIds -> GivenNames \cup {"system", "none", "deleted"}]
      /\ TablesInOrder'
      /\ \A v \in AccountThreads : Placed(desk[v], group) => Placed(desk[v], group')
  BY <1>1, <1>2, GroupAdded
<1>4. DesksInOrder'
  BY <1>1, <1>3 DEF AccountsInv, DesksInOrder
<1>5. AccountsTypeOK'
  BY <1>1, <1>3, AccountConstants DEF AccountsInv, AccountsTypeOK
<1> QED
  BY <1>3, <1>4, <1>5 DEF AccountsInv

\* Imports on their way are told when the provider's group loses its name.
LEMMA UprootedDesks ==
    ASSUME AccountsInv, NEW g \in GroupIds, \A h \in GroupIds \ {g} : group'[h] = group[h]
    PROVE  \A v \in AccountThreads : LET q == Uprooted(g)[v] IN
              q \in Requests /\ DeskInOrder(q) /\ Placed(q, group') /\ q.imported = desk[v].imported
<1> SUFFICES ASSUME NEW v \in AccountThreads
             PROVE  LET q == Uprooted(g)[v] IN
                    q \in Requests /\ DeskInOrder(q) /\ Placed(q, group') /\ q.imported = desk[v].imported
  OBVIOUS
<1> DEFINE r == desk[v]
<1>1. r \in Requests /\ DeskInOrder(r) /\ Placed(r, group)
  BY DEF AccountsInv, AccountsTypeOK, DesksInOrder, Requests
<1>2. CASE r.op = "auto" /\ group[g] = "provider"
  <2> DEFINE q == [r EXCEPT !.moved = TRUE]
  <2>1. Uprooted(g)[v] = q
    BY <1>2 DEF Uprooted
  <2>2. /\ q \in Requests /\ q.op = r.op /\ q.stage = r.stage /\ q.lines = r.lines /\ q.line = r.line
        /\ q.grouping = r.grouping /\ q.group = r.group /\ q.ids = r.ids /\ q.row = r.row
        /\ q.moved /\ q.imported = r.imported
    <3> HIDE DEF r
    <3> QED
      BY <1>1 DEF Requests
  <2> HIDE DEF q, r
  <2>3. DeskInOrder(q) /\ Placed(q, group')
    BY <1>1, <2>2 DEF DeskInOrder, Placed
  <2> QED
    BY <2>1, <2>2, <2>3 DEF r
<1>3. CASE ~(r.op = "auto" /\ group[g] = "provider")
  <2>1. Uprooted(g)[v] = r
    BY <1>3 DEF Uprooted
  <2>2. Placed(r, group')
    <3>1. r.group # 0 => r.group \in GroupIds
      BY <1>1, AccountConstants DEF Requests, GroupIds
    <3> HIDE DEF r
    <3> QED
      BY <1>1, <1>3, <3>1 DEF Placed
  <2> QED
    BY <1>1, <2>1, <2>2
<1> QED
  BY <1>2, <1>3

LEMMA RenameGroupStep ==
    ASSUME AccountsInv, NEW g \in GroupIds, NEW name \in GivenNames, RenameGroup(g, name)
    PROVE  AccountsInv'
<1>1. /\ GroupExists(g) /\ GroupNamed(name) = {} /\ group' = [group EXCEPT ![g] = name]
      /\ desk' = Uprooted(g) /\ UNCHANGED <<account, asked>>
      /\ changed < MaxChanges /\ changed' = changed + 1
  BY DEF RenameGroup, Changes
<1>2. /\ group \in [GroupIds -> GivenNames \cup {"system", "none", "deleted"}]
      /\ TablesInOrder /\ name \notin {"none", "deleted"}
  BY DEF AccountsInv, AccountsTypeOK, GivenNames
<1>3. \A h \in GroupIds : group[h] # name /\ group'[h] = IF h = g THEN name ELSE group[h]
  BY <1>1, <1>2 DEF GroupNamed
<1>4. \A v \in AccountThreads : desk'[v] \in Requests /\ DeskInOrder(desk'[v]) /\ Placed(desk'[v], group')
  BY <1>1, <1>3, UprootedDesks
<1>5. desk' \in [AccountThreads -> Requests] /\ DesksInOrder'
  BY <1>1, <1>4 DEF DesksInOrder, Uprooted
<1>6. AccountsTypeOK'
  BY <1>1, <1>2, <1>5, AccountConstants DEF AccountsInv, AccountsTypeOK, Requests
<1>7. GroupNamesDiffer' /\ GroupsAreThere'
  BY <1>1, <1>2, <1>3 DEF TablesInOrder, GroupNamesDiffer, GroupsAreThere, GroupExists, AccountExists
<1>8. IdsInOrder' /\ AddressesDiffer'
  BY <1>1, <1>2 DEF TablesInOrder, IdsInOrder, AddressesDiffer, AccountExists
<1> QED
  BY <1>5, <1>6, <1>7, <1>8 DEF AccountsInv, TablesInOrder

LEMMA WriteDeleteGroupStep ==
    ASSUME AccountsInv, NEW w \in AccountThreads, WriteDeleteGroup(w)
    PROVE  AccountsInv'
<1> DEFINE g == desk[w].group
           heir == desk[w].row.group
           members == {a \in AccountIds : AccountExists(a) /\ account[a].group = g}
           Moved(a) == [account[a] EXCEPT !.group = heir]
<1>1. desk[w].op = "delete_group" /\ UNCHANGED <<asked, changed>>
  BY DEF WriteDeleteGroup, AtStage
<1>2. /\ account \in [AccountIds -> AccountRows] /\ TablesInOrder /\ DeskInOrder(desk[w])
      /\ group \in [GroupIds -> GivenNames \cup {"system", "none", "deleted"}]
  BY DEF AccountsInv, AccountsTypeOK, DesksInOrder
<1>3. g \in GroupIds /\ heir \in GroupIds /\ heir # g
  BY <1>1, <1>2 DEF DeskInOrder
<1>4. CASE GroupExists(heir) \/ members = {}
  <2>1. /\ account' = [a \in AccountIds |-> IF a \in members THEN Moved(a) ELSE account[a]]
        /\ group' = [group EXCEPT ![g] = "deleted"]
        /\ desk' = [Uprooted(g) EXCEPT ![w] = IdleDesk]
    BY <1>4 DEF WriteDeleteGroup
  <2>2. heir \in 0 .. MaxGroups
    BY <1>3, AdmittedGroup
  <2>3. \A a \in AccountIds : /\ Moved(a) \in AccountRows /\ Moved(a).email = account[a].email
                              /\ Moved(a).status = account[a].status /\ Moved(a).group = heir
    <3>1. \A a \in AccountIds : account[a] \in AccountRows
      BY <1>2
    <3> HIDE DEF heir
    <3> QED
      BY <2>2, <3>1, RowUpdates
  <2> HIDE DEF g, heir, Moved
  <2>4. \A h \in GroupIds : group'[h] = IF h = g THEN "deleted" ELSE group[h]
    BY <1>2, <1>3, <2>1
  <2>5. /\ \A a \in members : account'[a] = Moved(a) /\ GroupExists(heir)
        /\ \A a \in AccountIds \ members : account'[a] = account[a]
    BY <1>4, <2>1
  <2>6. account' \in [AccountIds -> AccountRows]
    BY <1>2, <2>1, <2>3
  <2>7. IdsInOrder' /\ AddressesDiffer' /\ GroupsAreThere'
    <3>1. ASSUME NEW a \in AccountIds
          PROVE  /\ account'[a].email \in {account[a].email, 0}
                 /\ account'[a].status = "none" <=> account[a].status = "none"
                 /\ account'[a].email # 0 =>
                       /\ account'[a].group \in GroupIds
                       /\ group'[account'[a].group] \notin {"none", "deleted"}
      <4>1. CASE a \in members
        BY <1>3, <2>3, <2>4, <2>5, <4>1 DEF GroupExists
      <4>2. CASE a \notin members
        BY <1>2, <2>4, <2>5, <4>2 DEF TablesInOrder, GroupsAreThere, GroupExists, AccountExists
      <4> QED
        BY <4>1, <4>2
    <3> QED
      BY <1>2, <3>1, RowsStay
  <2>8. GroupNamesDiffer'
    BY <1>2, <2>4 DEF TablesInOrder, GroupNamesDiffer, GroupExists
  <2>9. \A v \in AccountThreads : LET q == Uprooted(g)[v] IN
            q \in Requests /\ DeskInOrder(q) /\ Placed(q, group')
    BY <1>3, <2>4, UprootedDesks
  <2>10. desk' \in [AccountThreads -> Requests] /\ DesksInOrder'
    <3>1. \A v \in AccountThreads : desk'[v] = IF v = w THEN IdleDesk ELSE Uprooted(g)[v]
      BY <2>1 DEF Uprooted
    <3>2. desk' = [v \in AccountThreads |-> desk'[v]]
      BY <2>1 DEF Uprooted
    <3>3. \A v \in AccountThreads : desk'[v] \in Requests /\ DeskInOrder(desk'[v]) /\ Placed(desk'[v], group')
      BY <2>9, <3>1, IdleRequest
    <3> QED
      BY <3>2, <3>3 DEF DesksInOrder
  <2>11. AccountsTypeOK'
    BY <1>1, <1>2, <2>1, <2>6, <2>10 DEF AccountsInv, AccountsTypeOK, Requests
  <2> QED
    BY <2>7, <2>8, <2>10, <2>11 DEF AccountsInv, TablesInOrder
<1>5. CASE ~(GroupExists(heir) \/ members = {})
  <2>1. Now(w, IdleDesk) /\ UNCHANGED <<account, group>>
    BY <1>5 DEF WriteDeleteGroup
  <2> QED
    BY <1>1, <2>1, IdleRequest, ReadStep
<1> QED
  BY <1>4, <1>5

\* The process stops.
LEMMA StopStep ==
    ASSUME AccountsInv, ProcessStops
    PROVE  AccountsInv'
<1>1. desk' = [v \in AccountThreads |-> IdleDesk] /\ UNCHANGED <<account, group, asked, changed>>
  BY DEF ProcessStops
<1>2. desk' \in [AccountThreads -> Requests] /\ DesksInOrder'
  BY <1>1, IdleRequest DEF DesksInOrder
<1>3. AccountsTypeOK'
  BY <1>1, <1>2 DEF AccountsInv, AccountsTypeOK, Requests
<1>4. TablesInOrder'
  BY <1>1 DEF AccountsInv, TablesInOrder, IdsInOrder, AddressesDiffer, GroupNamesDiffer,
              GroupsAreThere, AccountExists, GroupExists
<1> QED
  BY <1>2, <1>3, <1>4 DEF AccountsInv

-----------------------------------------------------------------------------
(* The theorems.                                                           *)

\* No accounts, two groups, and nobody at a desk.
LEMMA AccountsInvInit == AccountsInit => AccountsInv
<1> SUFFICES ASSUME AccountsInit PROVE AccountsInv
  OBVIOUS
<1>1. /\ account = [a \in AccountIds |-> NoAccount]
      /\ group = [g \in GroupIds |-> IF g = 1 THEN "default" ELSE IF g = 2 THEN "system" ELSE "none"]
      /\ desk = [w \in AccountThreads |-> IdleDesk] /\ asked = 0 /\ changed = 0
  BY DEF AccountsInit
<1>2. \A a \in AccountIds : account[a].email = 0 /\ account[a].status = "none"
  BY <1>1 DEF NoAccount
<1>3. AccountsTypeOK
  <2>1. desk \in [AccountThreads -> Requests] /\ account \in [AccountIds -> AccountRows]
    BY <1>1, IdleRequest
  <2>2. group \in [GroupIds -> GivenNames \cup {"system", "none", "deleted"}]
    BY <1>1 DEF GivenNames
  <2>3. asked \in 0 .. MaxAccountRequests /\ changed \in 0 .. MaxChanges
    BY <1>1, AccountConstants
  <2> QED
    BY <2>1, <2>2, <2>3 DEF AccountsTypeOK, Requests
<1>4. TablesInOrder
  <2>1. \A g \in GroupIds : group[g] = IF g = 1 THEN "default" ELSE IF g = 2 THEN "system" ELSE "none"
    BY <1>1
  <2> QED
    BY <1>2, <2>1 DEF TablesInOrder, IdsInOrder, AddressesDiffer, GroupNamesDiffer,
                      GroupsAreThere, AccountExists, GroupExists
<1>5. DesksInOrder
  BY <1>1, IdleRequest DEF DesksInOrder
<1> QED
  BY <1>3, <1>4, <1>5 DEF AccountsInv

LEMMA AccountsInvStep == AccountsInv /\ [AccountsNext]_accountsVars => AccountsInv'
<1> SUFFICES ASSUME AccountsInv, [AccountsNext]_accountsVars PROVE AccountsInv'
  OBVIOUS
<1>1. ASSUME NEW w \in AccountThreads, NEW lines \in ImportLists, NEW g \in GroupIds,
             \/ StartSingle(w, lines, g)
             \/ \E mode \in {"skip", "overwrite"} :
                  StartAuto(w, lines, mode, TRUE, 0) \/ StartAuto(w, lines, mode, FALSE, g)
      PROVE  AccountsInv'
  BY <1>1, StartImport
<1>2. ASSUME NEW w \in AccountThreads,
             \/ WriteSingle(w) \/ FindGroup(w) \/ CreateGroup(w) \/ FindGroupAgain(w) \/ LookUp(w)
             \/ AddLine(w) \/ OverwriteLine(w) \/ AnswerImport(w)
             \/ ReadSecrets(w) \/ WriteEdit(w) \/ WriteMove(w) \/ WriteDeleteGroup(w)
      PROVE  AccountsInv'
  BY <1>2, WriteSingleStep, FindGroupStep, CreateGroupStep, FindGroupAgainStep, LookUpStep,
     AddLineStep, OverwriteLineStep, AnswerStep, ReadSecretsStep, WriteEditStep, WriteMoveStep,
     WriteDeleteGroupStep
<1>3. ASSUME NEW w \in AccountThreads, NEW a \in AccountIds, StartRemark(w, a) PROVE AccountsInv'
  BY <1>3, StartEdits
<1>4. ASSUME NEW w \in AccountThreads, NEW a \in AccountIds, NEW e \in Emails, NEW g \in GroupIds,
             StartEdit(w, a, e, g, "active")
      PROVE  AccountsInv'
  BY <1>4, StartEdits
<1>5. ASSUME NEW w \in AccountThreads, NEW g \in GroupIds,
             \/ \E ids \in SUBSET AccountIds : StartMove(w, ids, g)
             \/ StartDeleteGroup(w, g)
      PROVE  AccountsInv'
  BY <1>5, StartOthers
<1>6. ASSUME NEW a \in AccountIds, DeleteAccount(a) \/ SetAccountStatus(a, "inactive") PROVE AccountsInv'
  BY <1>6, ChangeStep
<1>7. ASSUME NEW name \in GivenNames, AddGroup(name) PROVE AccountsInv'
  BY <1>7, AddGroupStep
<1>8. ASSUME NEW name \in GivenNames, NEW g \in GroupIds, RenameGroup(g, name) PROVE AccountsInv'
  BY <1>8, RenameGroupStep
<1>9. CASE ProcessStops
  BY <1>9, StopStep
<1>10. CASE UNCHANGED accountsVars
  BY <1>10 DEF accountsVars, AccountsInv, AccountsTypeOK, TablesInOrder, IdsInOrder, AddressesDiffer,
               GroupNamesDiffer, GroupsAreThere, AccountExists, GroupExists, DesksInOrder
<1> QED
  BY <1>1, <1>2, <1>3, <1>4, <1>5, <1>6, <1>7, <1>8, <1>9, <1>10 DEF AccountsNext

\* A thread's step leaves the other desks alone.
LEMMA OneDesk ==
    ASSUME AccountsInv, NEW v \in AccountThreads, NEW q, Now(v, q)
    PROVE  \A w \in AccountThreads : desk'[w] = IF w = v THEN q ELSE desk[w]
BY DEF AccountsInv, AccountsTypeOK, Now

\* Nothing has been imported by a request that begins.
LEMMA StartsNone ==
    ASSUME AccountsInv, NEW v \in AccountThreads,
           \/ \E lines \in ImportLists, g \in GroupIds :
                \/ StartSingle(v, lines, g)
                \/ \E mode \in {"skip", "overwrite"} :
                     StartAuto(v, lines, mode, TRUE, 0) \/ StartAuto(v, lines, mode, FALSE, g)
           \/ \E a \in AccountIds :
                StartRemark(v, a) \/ \E e \in Emails, g \in GroupIds : StartEdit(v, a, e, g, "active")
           \/ \E g \in GroupIds :
                (\E ids \in SUBSET AccountIds : StartMove(v, ids, g)) \/ StartDeleteGroup(v, g)
    PROVE  \A w \in AccountThreads : NewlyImported(w) = {}
<1> DEFINE None == \A w \in AccountThreads : NewlyImported(w) = {}
<1> SUFFICES None
  OBVIOUS
<1>1. ASSUME NEW r, Serve(v, r), r.imported = {} PROVE None
  <2>1. Now(v, [r EXCEPT !.n = asked + 1])
    BY <1>1 DEF Serve, Now
  <2>2. [r EXCEPT !.n = asked + 1].imported = r.imported
    OBVIOUS
  <2> QED
    BY <1>1, <2>1, <2>2, OneDesk DEF NewlyImported
<1>2. ASSUME NEW lines, NEW g, StartSingle(v, lines, g) PROVE None
  BY <1>1, <1>2 DEF StartSingle, IdleDesk
<1>3. ASSUME NEW lines, NEW mode, NEW grouping, NEW g, StartAuto(v, lines, mode, grouping, g) PROVE None
  <2> DEFINE r == [IdleDesk EXCEPT !.op = "auto", !.lines = lines, !.mode = mode,
                                   !.grouping = grouping, !.group = g]
  <2>1. Serve(v, LineBegins(r))
    BY <1>3 DEF StartAuto
  <2>2. r.imported = {}
    BY DEF IdleDesk
  <2> HIDE DEF r
  <2>3. LineBegins(r).imported = {}
    BY <2>2 DEF LineBegins
  <2> QED
    BY <1>1, <2>1, <2>3
<1>4. ASSUME NEW a, StartRemark(v, a) PROVE None
  BY <1>1, <1>4 DEF StartRemark, IdleDesk
<1>5. ASSUME NEW a, NEW e, NEW g, StartEdit(v, a, e, g, "active") PROVE None
  BY <1>1, <1>5 DEF StartEdit, IdleDesk
<1>6. ASSUME NEW ids, NEW g, StartMove(v, ids, g) PROVE None
  BY <1>1, <1>6 DEF StartMove, IdleDesk
<1>7. ASSUME NEW g, StartDeleteGroup(v, g) PROVE None
  <2> DEFINE q == [IdleDesk EXCEPT !.op = "delete_group", !.stage = "write", !.group = g,
                       !.found = 0, !.row = [NoAccount EXCEPT !.group = DefaultGroup]]
  <2>1. Now(v, q)
    BY <1>7 DEF StartDeleteGroup
  <2>2. q.imported = {}
    BY DEF IdleDesk
  <2> HIDE DEF q
  <2> QED
    BY <2>1, <2>2, OneDesk DEF NewlyImported
<1> QED
  BY <1>2, <1>3, <1>4, <1>5, <1>6, <1>7

\* A report grows where a line is written, nowhere else.
LEMMA WhoImports ==
    ASSUME AccountsInv, [AccountsNext]_accountsVars, NEW w \in AccountThreads, NewlyImported(w) # {}
    PROVE  WriteSingle(w) \/ AddLine(w) \/ OverwriteLine(w)
<1> DEFINE None == NewlyImported(w) = {}
<1> SUFFICES ASSUME ~(WriteSingle(w) \/ AddLine(w) \/ OverwriteLine(w)) PROVE None
  OBVIOUS
<1>1. ASSUME NEW v \in AccountThreads, NEW q, Now(v, q), v # w \/ q.imported = desk[v].imported \/ q.imported = {}
      PROVE  None
  BY <1>1, OneDesk DEF NewlyImported
<1>2. \A a \in AccountIds, v \in AccountThreads : StartRemark(v, a) => None
  BY StartsNone
<1>3. \A v \in AccountThreads, lines \in ImportLists, g \in GroupIds :
         \/ StartSingle(v, lines, g)
         \/ \E mode \in {"skip", "overwrite"} :
              StartAuto(v, lines, mode, TRUE, 0) \/ StartAuto(v, lines, mode, FALSE, g)
         => None
  BY StartsNone
<1>4. \A v \in AccountThreads, a \in AccountIds, e \in Emails, g \in GroupIds :
         StartEdit(v, a, e, g, "active") => None
  BY StartsNone
<1>5. \A v \in AccountThreads, g \in GroupIds :
         (\E ids \in SUBSET AccountIds : StartMove(v, ids, g)) \/ StartDeleteGroup(v, g) => None
  BY StartsNone
<1>6. ASSUME NEW v \in AccountThreads, WriteSingle(v) \/ AddLine(v) \/ OverwriteLine(v) PROVE None
  <2>1. v # w
    BY <1>6
  <2>2. \E q : Now(v, q)
    BY <1>6 DEF WriteSingle, AddLine, OverwriteLine, Counts
  <2> QED
    BY <1>1, <2>1, <2>2
<1>7. ASSUME NEW v \in AccountThreads, FindGroup(v) \/ CreateGroup(v) \/ FindGroupAgain(v) PROVE None
  <2>1. desk[v].op = "auto" /\ desk[v].stage # "answer" /\ desk[v].stage \notin {"look", "write"}
    BY <1>7 DEF FindGroup, CreateGroup, FindGroupAgain, AtStage
  <2>2. ASSUME NEW stage \in {"create", "again"}, Now(v, [desk[v] EXCEPT !.stage = stage]) PROVE None
    <3>1. LET q == [desk[v] EXCEPT !.stage = stage] IN q.imported = desk[v].imported
      BY <2>1, GetsStage
    <3> QED
      BY <1>1, <2>2, <3>1
  <2>3. ASSUME NEW g \in GroupIds, Now(v, WithGroup(desk[v], g)) PROVE None
    <3>1. LET q == WithGroup(desk[v], g) IN q.imported = desk[v].imported
      BY <2>1, GetsGroup
    <3> QED
      BY <1>1, <2>3, <3>1
  <2>4. CASE FindGroup(v)
    BY <2>2, <2>3, <2>4 DEF FindGroup, GroupNamed
  <2>5. CASE CreateGroup(v)
    <3>1. NewGroups # {} => Min(NewGroups) \in GroupIds
      BY NextIds DEF NewGroups
    <3> QED
      BY <2>2, <2>3, <2>5, <3>1 DEF CreateGroup
  <2>6. CASE FindGroupAgain(v)
    <3>1. GroupNamed("provider") # {} => Min(GroupNamed("provider")) \in GroupIds
      <4>1. GroupNamed("provider") \subseteq Nat /\ GroupNamed("provider") \subseteq GroupIds
        BY DEF GroupNamed, GroupIds
      <4> QED
        BY <4>1, MinIsLeast
    <3>2. DefaultGroup \in GroupIds
      BY AccountConstants DEF DefaultGroup, GroupNamed
    <3> QED
      BY <2>3, <2>6, <3>1, <3>2 DEF FindGroupAgain
  <2> QED
    BY <1>7, <2>4, <2>5, <2>6
<1>8. ASSUME NEW v \in AccountThreads, LookUp(v) PROVE None
  <2>1. desk'[v].imported = desk[v].imported
    BY <1>8, LookUpStep
  <2>2. \E q : Now(v, q)
    BY <1>8 DEF LookUp
  <2> QED
    BY <2>1, <2>2, OneDesk DEF NewlyImported
<1>9. ASSUME NEW v \in AccountThreads, Now(v, IdleDesk) PROVE None
  BY <1>1, <1>9, IdleRequest
<1>10. ASSUME NEW v \in AccountThreads, AnswerImport(v) \/ WriteEdit(v) \/ WriteMove(v) PROVE None
  BY <1>9, <1>10 DEF AnswerImport, WriteEdit, WriteMove
<1>11. ASSUME NEW g \in GroupIds, \A h \in GroupIds \ {g} : group'[h] = group[h],
              desk'[w] = Uprooted(g)[w] \/ desk'[w] = IdleDesk
       PROVE  None
  BY <1>11, UprootedDesks, IdleRequest DEF NewlyImported
<1>12. ASSUME NEW v \in AccountThreads, WriteDeleteGroup(v) PROVE None
  <2>1. \/ Now(v, IdleDesk)
        \/ /\ group' = [group EXCEPT ![desk[v].group] = "deleted"]
           /\ desk' = [Uprooted(desk[v].group) EXCEPT ![v] = IdleDesk]
    BY <1>12 DEF WriteDeleteGroup
  <2>2. desk[v].group \in GroupIds
    BY <1>12 DEF WriteDeleteGroup, AtStage, AccountsInv, DesksInOrder, DeskInOrder
  <2>3. ASSUME group' = [group EXCEPT ![desk[v].group] = "deleted"],
               desk' = [Uprooted(desk[v].group) EXCEPT ![v] = IdleDesk]
        PROVE  None
    <3>1. desk'[w] = Uprooted(desk[v].group)[w] \/ desk'[w] = IdleDesk
      BY <2>3 DEF Uprooted
    <3>2. \A h \in GroupIds \ {desk[v].group} : group'[h] = group[h]
      BY <2>3 DEF AccountsInv, AccountsTypeOK
    <3> QED
      BY <1>11, <2>2, <3>1, <3>2
  <2> QED
    BY <1>9, <2>1, <2>3
<1>13. ASSUME NEW name \in GivenNames, NEW g \in GroupIds, RenameGroup(g, name) PROVE None
  <2>1. group' = [group EXCEPT ![g] = name] /\ desk' = Uprooted(g)
    BY <1>13 DEF RenameGroup
  <2>2. \A h \in GroupIds \ {g} : group'[h] = group[h]
    BY <2>1 DEF AccountsInv, AccountsTypeOK
  <2> QED
    BY <1>11, <2>1, <2>2
<1>17. ASSUME NEW v \in AccountThreads, ReadSecrets(v) PROVE None
  <2> DEFINE Read(by) == [desk[v] EXCEPT !.stage = "write", !.row = [@ EXCEPT !.by = by]]
  <2>1. Now(v, IdleDesk) \/ \E by : Now(v, Read(by))
    BY <1>17 DEF ReadSecrets
  <2>2. \A by : Read(by).imported = desk[v].imported
    OBVIOUS
  <2> HIDE DEF Read
  <2> QED
    BY <1>9, <2>1, <2>2, OneDesk DEF NewlyImported
<1>14. UNCHANGED desk => None
  BY DEF NewlyImported
<1>15. ASSUME \/ \E a \in AccountIds : DeleteAccount(a) \/ SetAccountStatus(a, "inactive")
              \/ \E name \in GivenNames : AddGroup(name)
              \/ UNCHANGED accountsVars
       PROVE  None
  BY <1>14, <1>15 DEF DeleteAccount, SetAccountStatus, AddGroup, accountsVars
<1>16. CASE ProcessStops
  <2>1. desk'[w] = IdleDesk
    BY <1>16 DEF ProcessStops
  <2> QED
    BY <2>1, IdleRequest DEF NewlyImported
<1> QED
  BY <1>2, <1>3, <1>4, <1>5, <1>6, <1>7, <1>8, <1>10, <1>12, <1>13, <1>15, <1>16, <1>17 DEF AccountsNext

\* What an import of any lines has counted is its line.
LEMMA CountsItsLine ==
    ASSUME AccountsInv, NEW w \in AccountThreads, AddLine(w) \/ OverwriteLine(w),
           NEW i \in NewlyImported(w)
    PROVE  /\ i = desk[w].line /\ desk[w].lines[i] \in Emails
           /\ AddLine(w) => AccountOf(desk[w].lines[i]) = {} /\ GroupExists(desk[w].group)
           /\ OverwriteLine(w) => GroupExists(desk[w].group) \/ ~AccountExists(desk[w].found)
<1>1. AtStage(w, "auto", "write")
  BY DEF AddLine, OverwriteLine
<1>2. desk[w].lines[desk[w].line] \in Emails
  BY <1>1, AutoFacts DEF AtStage
<1>3. ASSUME NEW b \in BOOLEAN, Counts(w, b) PROVE b /\ i = desk[w].line
  <2>1. PICK q \in Requests : /\ Now(w, q)
          /\ q.imported = IF b THEN desk[w].imported \cup {desk[w].line} ELSE desk[w].imported
    BY <1>1, <1>3, CountsStep
  <2>2. desk'[w] = q
    BY <2>1, OneDesk
  <2> QED
    BY <2>1, <2>2 DEF NewlyImported
<1>4. CASE AddLine(w)
  <2>1. Counts(w, TRUE) \/ Counts(w, FALSE)
    BY <1>4 DEF AddLine
  <2>2. i = desk[w].line
    BY <1>3, <2>1
  <2>3. ~Counts(w, FALSE)
    BY <1>3
  <2>4. AccountOf(desk[w].lines[i]) = {} /\ GroupExists(desk[w].group)
    BY <1>4, <2>2, <2>3 DEF AddLine
  <2>5. ~OverwriteLine(w)
    BY <1>4 DEF AddLine, OverwriteLine
  <2> QED
    BY <1>2, <2>2, <2>4, <2>5
<1>5. CASE OverwriteLine(w)
  <2> DEFINE b == GroupExists(desk[w].group) \/ ~AccountExists(desk[w].found)
  <2>1. b \in BOOLEAN /\ Counts(w, b)
    BY <1>5 DEF OverwriteLine, GroupExists, AccountExists
  <2>2. b /\ i = desk[w].line
    <3> HIDE DEF b
    <3> QED
      BY <1>3, <2>1
  <2>3. ~AddLine(w)
    BY <1>5 DEF AddLine, OverwriteLine
  <2> QED
    BY <1>2, <2>2, <2>3
<1> QED
  BY <1>4, <1>5

\* The tables and the desks stay in order, whatever is imported, edited, moved and
\* deleted at the same time.
THEOREM AccountsInvariant == AccountsSpec => []AccountsInv
BY AccountsInvInit, AccountsInvStep, PTL DEF AccountsSpec

\* Accounts are in order: one for an address, in a group that is there, with the
\* ids and the names of groups given once.
THEOREM AccountsInOrder == AccountsSpec => [](AccountsTypeOK /\ TablesInOrder)
<1>1. AccountsInv => AccountsTypeOK /\ TablesInOrder
  BY DEF AccountsInv
<1> QED
  BY <1>1, AccountsInvariant, PTL

\* A line that is counted has left its secrets in the account of its address.
LEMMA ReportStep ==
    ASSUME AccountsInv, [AccountsNext]_accountsVars, NEW w \in AccountThreads,
           NEW i \in NewlyImported(w), StillThere(w, desk[w].lines[i])
    PROVE  \E a \in AccountIds : account'[a].email = desk[w].lines[i] /\ account'[a].by = desk[w].n
<1> DEFINE e == desk[w].lines[i]
<1>1. CASE WriteSingle(w)
  <2>1. /\ Now(w, [desk[w] EXCEPT !.stage = "answer", !.imported = Fresh(w)])
        /\ desk[w].op = "single"
    BY <1>1, SingleRows
  <2>2. desk[w] \in Requests /\ Fresh(w) \subseteq 1 .. 2
    BY <2>1, SingleFacts
  <2>3. i \in Fresh(w)
    <3> DEFINE q == [desk[w] EXCEPT !.stage = "answer", !.imported = Fresh(w)]
    <3>1. q.imported = Fresh(w)
      BY <2>2 DEF Requests
    <3> HIDE DEF q
    <3> QED
      BY <2>1, <3>1, OneDesk DEF NewlyImported, q
  <2>4. /\ IdOf(w, i) \in NewAccounts
        /\ account'[IdOf(w, i)].email = desk[w].lines[i]
        /\ account'[IdOf(w, i)].by = desk[w].n
    BY <1>1, <2>3, SingleRows
  <2> QED
    BY <2>4 DEF NewAccounts
<1>2. CASE AddLine(w)
  <2>1. i = desk[w].line /\ AccountOf(e) = {} /\ GroupExists(desk[w].group)
    BY <1>2, CountsItsLine
  <2> DEFINE m == Min(NewAccounts)
  <2>2. /\ m \in AccountIds
        /\ account'[m].email = desk[w].lines[desk[w].line] /\ account'[m].by = desk[w].n
    BY <1>2, <2>1, AddedRow
  <2> QED
    BY <2>1, <2>2
<1>3. CASE OverwriteLine(w)
  <2>1. e \in Emails /\ (GroupExists(desk[w].group) \/ ~AccountExists(desk[w].found))
    BY <1>3, CountsItsLine
  <2>2. account[desk[w].found].email = e
    BY <1>3 DEF StillThere, OverwriteLine
  <2>3. AccountExists(desk[w].found)
    BY <2>1, <2>2, AccountConstants DEF AccountExists
  <2>4. LET f == desk[w].found IN
        f \in AccountIds /\ account'[f].email = account[f].email /\ account'[f].by = desk[w].n
    BY <1>3, <2>1, <2>3, OverwrittenRow
  <2> QED
    BY <2>2, <2>4
<1> QED
  BY <1>1, <1>2, <1>3, WhoImports

\* A line that an import counts has left its secrets in the account of its
\* address, as long as the account it looked up is still there.
THEOREM ReportsAreTrue == AccountsSpec => ReportIsTrue
<1> DEFINE Grows == \A w \in AccountThreads : \A i \in NewlyImported(w) :
                       LET e == desk[w].lines[i] IN
                       StillThere(w, e) =>
                          \E a \in AccountIds : account'[a].email = e /\ account'[a].by = desk[w].n
<1>1. AccountsInv /\ [AccountsNext]_accountsVars => [Grows]_accountsVars
  BY ReportStep
<1> QED
  BY <1>1, AccountsInvariant, PTL DEF AccountsSpec, ReportIsTrue

\* And, if it was to go to its provider's group, in a group of that name.
LEMMA PlacedStep ==
    ASSUME AccountsInv, [AccountsNext]_accountsVars, NEW w \in AccountThreads,
           NEW i \in NewlyImported(w), desk[w].grouping, ~desk[w].moved,
           StillThere(w, desk[w].lines[i]),
           NEW a \in AccountIds, account'[a].email = desk[w].lines[i]
    PROVE  group'[account'[a].group] = "provider"
<1> DEFINE e == desk[w].lines[i]
<1>1. AddLine(w) \/ OverwriteLine(w)
  <2>1. ~WriteSingle(w)
    BY SingleFacts DEF WriteSingle, AtStage
  <2> QED
    BY <2>1, WhoImports
<1>2. i = desk[w].line /\ e \in Emails
  BY <1>1, CountsItsLine
<1>3. /\ desk[w].op = "auto" /\ desk[w].stage = "write" /\ UNCHANGED group
  BY <1>1 DEF AddLine, OverwriteLine, AtStage
<1>4. desk[w].group \in GroupIds /\ Placed(desk[w], group)
  BY <1>3, AutoFacts
<1>5. group'[desk[w].group] = "provider"
  BY <1>3, <1>4, AccountConstants DEF Placed
<1>6. account'[a].group = desk[w].group
  <2>1. CASE AddLine(w)
    <3>1. AccountOf(e) = {} /\ GroupExists(desk[w].group)
      BY <2>1, CountsItsLine
    <3> DEFINE m == Min(NewAccounts)
    <3>2. /\ account'[m].group = desk[w].group
          /\ \A b \in AccountIds \ {m} : account'[b] = account[b]
      BY <1>2, <2>1, <3>1, AddedRow
    <3> QED
      BY <3>1, <3>2 DEF AccountOf
  <2>2. CASE OverwriteLine(w)
    <3>1. account[desk[w].found].email = e
      BY <2>2 DEF StillThere, OverwriteLine
    <3>2. AccountExists(desk[w].found) /\ GroupExists(desk[w].group)
      <4>1. AccountExists(desk[w].found)
        BY <1>2, <3>1, AccountConstants DEF AccountExists
      <4> QED
        BY <2>2, <4>1, CountsItsLine
    <3>3. LET f == desk[w].found IN
          /\ f \in AccountIds /\ account'[f].group = desk[w].group
          /\ \A b \in AccountIds \ {f} : account'[b] = account[b]
      BY <2>2, <3>2, OverwrittenRow
    <3>4. a = desk[w].found
      BY <1>2, <3>1, <3>2, <3>3 DEF AccountsInv, TablesInOrder, AddressesDiffer
    <3> QED
      BY <3>3, <3>4
  <2> QED
    BY <1>1, <2>1, <2>2
<1> QED
  BY <1>5, <1>6

\* An account imported with groups is in a group of its provider's name, though
\* others create that group meanwhile, if neither the group nor the account it
\* looked up was taken away under the import.
THEOREM AccountsArePlaced == AccountsSpec => PlacedByProvider
<1> DEFINE Places == \A w \in AccountThreads : \A i \in NewlyImported(w) :
                        LET e == desk[w].lines[i] IN
                        (desk[w].grouping /\ ~desk[w].moved /\ StillThere(w, e)) =>
                           \A a \in AccountIds : account'[a].by = desk[w].n /\ account'[a].email = e
                                                   => group'[account'[a].group] = "provider"
<1>1. AccountsInv /\ [AccountsNext]_accountsVars => [Places]_accountsVars
  BY PlacedStep
<1> QED
  BY <1>1, AccountsInvariant, PTL DEF AccountsSpec, PlacedByProvider

-----------------------------------------------------------------------------
(* Lines and what is made of them.                                         *)

\* A line has one field to five.
LEMMA LineShape ==
    ASSUME NEW l \in AccountLine
    PROVE  /\ l \in Seq(LineFields) /\ Len(l) \in 1 .. 5
           /\ l[1] \in AddressFields
           /\ Len(l) >= 2 => l[2] = "" \/ l[2] = "pw"
           /\ Len(l) >= 3 => l[3] \in LineFields
           /\ Len(l) >= 4 => l[4] \in LineFields
           /\ Len(l) >= 5 => l[5] \in LineFields
<1> DEFINE P == {"", "pw"}
<1>1. /\ AddressFields \subseteq LineFields /\ P \subseteq LineFields /\ ThirdFields \subseteq LineFields
      /\ FourthFields \subseteq LineFields /\ FifthFields \subseteq LineFields
  BY DEF LineFields
<1> HIDE DEF P
<1>2. CASE l \in {<<a>> : a \in AddressFields}
  <2>1. PICK a \in AddressFields : l = <<a>>
    BY <1>2
  <2>2. <<a>> \in Seq(LineFields) /\ Len(<<a>>) = 1
    BY <1>1, <2>1
  <2>3. l[1] \in AddressFields
    BY <2>1
  <2>4. l \in Seq(LineFields) /\ Len(l) = 1
    BY <2>1, <2>2
  <2>5. Len(l) \in 1 .. 5
    BY <2>4
  <2>6. /\ l[1] \in AddressFields
        /\ Len(l) >= 2 => l[2] \in P
        /\ Len(l) >= 3 => l[3] \in LineFields
        /\ Len(l) >= 4 => l[4] \in LineFields
        /\ Len(l) >= 5 => l[5] \in LineFields
    BY <1>1, <2>3, <2>4
  <2> QED
    BY <2>4, <2>5, <2>6 DEF P
<1>3. CASE l \in AddressFields \X P
  <2>1. PICK a \in AddressFields, b \in P : l = <<a, b>>
    BY <1>3
  <2>2. <<a, b>> \in Seq(LineFields) /\ Len(<<a, b>>) = 2
    BY <1>1, <2>1
  <2>3. l[1] \in AddressFields /\ l[2] \in P
    BY <2>1
  <2>4. l \in Seq(LineFields) /\ Len(l) = 2
    BY <2>1, <2>2
  <2>5. Len(l) \in 1 .. 5
    BY <2>4
  <2>6. /\ l[1] \in AddressFields
        /\ Len(l) >= 2 => l[2] \in P
        /\ Len(l) >= 3 => l[3] \in LineFields
        /\ Len(l) >= 4 => l[4] \in LineFields
        /\ Len(l) >= 5 => l[5] \in LineFields
    BY <1>1, <2>3, <2>4
  <2> QED
    BY <2>4, <2>5, <2>6 DEF P
<1>4. CASE l \in AddressFields \X P \X ThirdFields
  <2>1. PICK a \in AddressFields, b \in P, c \in ThirdFields : l = <<a, b, c>>
    BY <1>4
  <2>2. <<a, b, c>> \in Seq(LineFields) /\ Len(<<a, b, c>>) = 3
    BY <1>1, <2>1
  <2>3. l[1] \in AddressFields /\ l[2] \in P /\ l[3] \in ThirdFields
    BY <2>1
  <2>4. l \in Seq(LineFields) /\ Len(l) = 3
    BY <2>1, <2>2
  <2>5. Len(l) \in 1 .. 5
    BY <2>4
  <2>6. /\ l[1] \in AddressFields
        /\ Len(l) >= 2 => l[2] \in P
        /\ Len(l) >= 3 => l[3] \in LineFields
        /\ Len(l) >= 4 => l[4] \in LineFields
        /\ Len(l) >= 5 => l[5] \in LineFields
    BY <1>1, <2>3, <2>4
  <2> QED
    BY <2>4, <2>5, <2>6 DEF P
<1>5. CASE l \in AddressFields \X P \X ThirdFields \X FourthFields
  <2>1. PICK a \in AddressFields, b \in P, c \in ThirdFields, d \in FourthFields : l = <<a, b, c, d>>
    BY <1>5
  <2>2. <<a, b, c, d>> \in Seq(LineFields) /\ Len(<<a, b, c, d>>) = 4
    BY <1>1, <2>1
  <2>3. l[1] \in AddressFields /\ l[2] \in P /\ l[3] \in ThirdFields /\ l[4] \in FourthFields
    BY <2>1
  <2>4. l \in Seq(LineFields) /\ Len(l) = 4
    BY <2>1, <2>2
  <2>5. Len(l) \in 1 .. 5
    BY <2>4
  <2>6. /\ l[1] \in AddressFields
        /\ Len(l) >= 2 => l[2] \in P
        /\ Len(l) >= 3 => l[3] \in LineFields
        /\ Len(l) >= 4 => l[4] \in LineFields
        /\ Len(l) >= 5 => l[5] \in LineFields
    BY <1>1, <2>3, <2>4
  <2> QED
    BY <2>4, <2>5, <2>6 DEF P
<1>6. CASE l \in AddressFields \X P \X ThirdFields \X FourthFields \X FifthFields
  <2>1. PICK a \in AddressFields, b \in P, c \in ThirdFields, d \in FourthFields, e \in FifthFields : l = <<a, b, c, d, e>>
    BY <1>6
  <2>2. <<a, b, c, d, e>> \in Seq(LineFields) /\ Len(<<a, b, c, d, e>>) = 5
    BY <1>1, <2>1
  <2>3. l[1] \in AddressFields /\ l[2] \in P /\ l[3] \in ThirdFields /\ l[4] \in FourthFields /\ l[5] \in FifthFields
    BY <2>1
  <2>4. l \in Seq(LineFields) /\ Len(l) = 5
    BY <2>1, <2>2
  <2>5. Len(l) \in 1 .. 5
    BY <2>4
  <2>6. /\ l[1] \in AddressFields
        /\ Len(l) >= 2 => l[2] \in P
        /\ Len(l) >= 3 => l[3] \in LineFields
        /\ Len(l) >= 4 => l[4] \in LineFields
        /\ Len(l) >= 5 => l[5] \in LineFields
    BY <1>1, <2>3, <2>4
  <2> QED
    BY <2>4, <2>5, <2>6 DEF P
<1>7. \/ l \in {<<a>> : a \in AddressFields}
      \/ l \in AddressFields \X P
      \/ l \in AddressFields \X P \X ThirdFields
      \/ l \in AddressFields \X P \X ThirdFields \X FourthFields
      \/ l \in AddressFields \X P \X ThirdFields \X FourthFields \X FifthFields
  BY DEF AccountLine, P
<1> QED
  BY <1>2, <1>3, <1>4, <1>5, <1>6, <1>7

\* The accounts a line can be read as: from a line that is a token's, of the
\* known provider, of a server of one's own, or of a temporary mailbox.
TokenLine(l) == Len(l) >= 4 /\ l[1] # "" /\ l[3] # "" /\ SubSeq(l, 4, Len(l)) # <<"">>
ImapRecord(e, provider, host, port) ==
    [type |-> "imap", provider |-> provider, email |-> e, password |-> "pw",
     host |-> host, port |-> port]
GivenAddresses == AddressFields \ {""}

IsOutlook(a) == \E l \in AccountLine : TokenLine(l) /\ a = OutlookAccount(l)
IsKnown(a) == \E e \in GivenAddresses : a = ImapRecord(e, "known", "known_host", "993")
IsCustom(a) ==
    \E e \in GivenAddresses : \E host \in LineFields \ {""} : \E port \in Ports :
        a = ImapRecord(e, "custom", host, port)
IsTemp(a) == \E e \in GivenAddresses : a = [type |-> "temp_mail", email |-> e]
Made(a) == IsOutlook(a) \/ IsKnown(a) \/ IsCustom(a) \/ IsTemp(a)

LEMMA OutlookMade ==
    ASSUME NEW l \in AccountLine, Len(l) >= 4, OutlookLine(l) # Refused
    PROVE  IsOutlook(OutlookLine(l))
<1>1. OutlookLine(l) = OutlookAccount(l) /\ TokenLine(l)
  BY DEF OutlookLine, Blank, TokenLine
<1> QED
  BY <1>1 DEF IsOutlook

LEMMA CustomMade ==
    ASSUME NEW l \in AccountLine, Len(l) >= 2, NEW host \in LineFields, NEW port,
           CustomAccount(l, host, port) # Refused
    PROVE  IsCustom(CustomAccount(l, host, port))
<1>1. /\ l[1] \in GivenAddresses /\ l[2] = "pw" /\ host # "" /\ port \in Ports
      /\ CustomAccount(l, host, port) = ImapAccount(l, "custom", host, port)
  BY LineShape DEF CustomAccount, Blank, GivenAddresses
<1>2. ImapAccount(l, "custom", host, port) = ImapRecord(l[1], "custom", host, port)
  BY <1>1 DEF ImapAccount, ImapRecord
<1> QED
  BY <1>1, <1>2 DEF IsCustom

LEMMA ImapMade ==
    ASSUME NEW l \in AccountLine, Len(l) >= 2, l[1] # "", l[2] # ""
    PROVE  /\ IsKnown(ImapAccount(l, "known", "known_host", "993"))
           /\ \A host \in LineFields \ {""} : IsCustom(ImapAccount(l, "custom", host, "993"))
<1>1. l[1] \in GivenAddresses /\ l[2] = "pw" /\ "993" \in Ports
  BY LineShape DEF GivenAddresses, Ports
<1> QED
  BY <1>1 DEF ImapAccount, ImapRecord, IsKnown, IsCustom

\* What guessing makes of a line of so many fields.
LEMMA Detected ==
    ASSUME NEW l, NEW host
    PROVE  /\ Len(l) = 5 /\ l[3] = "custom" => DetectLine(l, host) = CustomAccount(l, l[4], l[5])
           /\ Len(l) = 5 /\ l[3] # "custom" => DetectLine(l, host) = OutlookLine(l)
           /\ Len(l) = 4 /\ l[3] \in Hosts => DetectLine(l, host) = CustomAccount(l, l[3], l[4])
           /\ Len(l) = 4 /\ l[3] \notin Hosts => DetectLine(l, host) = OutlookLine(l)
           /\ Len(l) = 3 => DetectLine(l, host) =
                IF Blank(l, {1, 2}) \/ l[3] # "known" THEN Refused
                ELSE ImapAccount(l, "known", "known_host", "993")
           /\ Len(l) = 2 => DetectLine(l, host) =
                IF Blank(l, {1, 2}) \/ l[1] = "at_outlook" THEN Refused
                ELSE IF l[1] = "at_known" THEN ImapAccount(l, "known", "known_host", "993")
                ELSE IF host = "" THEN Refused
                ELSE ImapAccount(l, "custom", host, "993")
           /\ Len(l) = 1 => DetectLine(l, host) = IF Blank(l, {1}) THEN Refused ELSE TempAccount(l)
<1>1. ASSUME Len(l) = 5, l[3] = "custom" PROVE DetectLine(l, host) = CustomAccount(l, l[4], l[5])
  BY <1>1 DEF DetectLine
<1>2. ASSUME Len(l) = 5, l[3] # "custom" PROVE DetectLine(l, host) = OutlookLine(l)
  BY <1>2 DEF DetectLine
<1>3. ASSUME Len(l) = 4, l[3] \in Hosts PROVE DetectLine(l, host) = CustomAccount(l, l[3], l[4])
  BY <1>3 DEF DetectLine
<1>4. ASSUME Len(l) = 4, l[3] \notin Hosts PROVE DetectLine(l, host) = OutlookLine(l)
  BY <1>4 DEF DetectLine
<1>5. ASSUME Len(l) = 3
      PROVE  DetectLine(l, host) = IF Blank(l, {1, 2}) \/ l[3] # "known" THEN Refused
                                   ELSE ImapAccount(l, "known", "known_host", "993")
  BY <1>5 DEF DetectLine
<1>6. ASSUME Len(l) = 2
      PROVE  DetectLine(l, host) =
                IF Blank(l, {1, 2}) \/ l[1] = "at_outlook" THEN Refused
                ELSE IF l[1] = "at_known" THEN ImapAccount(l, "known", "known_host", "993")
                ELSE IF host = "" THEN Refused
                ELSE ImapAccount(l, "custom", host, "993")
  BY <1>6 DEF DetectLine
<1>7. ASSUME Len(l) = 1
      PROVE  DetectLine(l, host) = IF Blank(l, {1}) THEN Refused ELSE TempAccount(l)
  BY <1>7 DEF DetectLine
<1> QED
  BY <1>1, <1>2, <1>3, <1>4, <1>5, <1>6, <1>7

LEMMA Sizes == ~(5 < 2) /\ 5 >= 5
OBVIOUS

\* What is read of a line.
LEMMA ReadMade ==
    ASSUME NEW l \in AccountLine, NEW route \in Routes, NEW host \in LineFields,
           ReadLine(route, l, host) # Refused
    PROVE  Made(ReadLine(route, l, host))
<1>2. /\ Len(l) \in 1 .. 5 /\ l[1] \in AddressFields
      /\ Len(l) >= 4 => l[3] \in LineFields /\ l[4] \in LineFields
      /\ Len(l) >= 5 => l[5] \in LineFields
  <2>1. Len(l) \in 1 .. 5
    BY LineShape
  <2>2. Len(l) >= 4 => Len(l) >= 3
    BY <2>1
  <2> QED
    BY <2>1, <2>2, LineShape
<1>3. CASE route = "outlook"
  <2>1. Len(l) >= 4 /\ ReadLine(route, l, host) = OutlookLine(l)
    BY <1>2, <1>3 DEF ReadLine
  <2> QED
    BY <2>1, OutlookMade DEF Made
<1>4. CASE route = "known"
  <2>1. ReadLine(route, l, host) = KnownLine(l)
    BY <1>4 DEF ReadLine
  <2>2. /\ ~(Len(l) < 2) /\ ~Blank(l, {1, 2} \cap DOMAIN l)
        /\ KnownLine(l) = ImapAccount(l, "known", "known_host", "993")
    BY <2>1, Zenon DEF KnownLine
  <2>3. Len(l) >= 2 /\ DOMAIN l = 1 .. Len(l)
    <3>1. Len(l) >= 2
      BY <1>2, <2>2
    <3>2. l \in Seq(LineFields)
      BY LineShape
    <3> QED
      BY <3>1, <3>2, LenProperties
  <2>4. 1 \in {1, 2} \cap DOMAIN l /\ 2 \in {1, 2} \cap DOMAIN l
    BY <1>2, <2>3
  <2>5. l[1] # "" /\ l[2] # ""
    BY <2>2, <2>4, Zenon DEF Blank
  <2> QED
    BY <2>1, <2>2, <2>3, <2>5, ImapMade DEF Made
<1>5. CASE route = "custom"
  <2>1. ReadLine(route, l, host) = CustomLine(l, host)
    BY <1>5 DEF ReadLine
  <2>2. \/ Len(l) >= 5 /\ CustomLine(l, host) = CustomAccount(l, l[4], l[5])
        \/ Len(l) >= 4 /\ CustomLine(l, host) = CustomAccount(l, l[3], l[4])
        \/ Len(l) >= 2 /\ CustomLine(l, host) = CustomAccount(l, host, "993")
    BY <1>2, <2>1 DEF CustomLine
  <2>3. IsCustom(CustomLine(l, host))
    BY <1>2, <2>1, <2>2, CustomMade
  <2> QED
    BY <2>1, <2>3 DEF Made
<1>6. CASE route = "auto"
  <2>1. ReadLine(route, l, host) = DetectLine(l, host)
    BY <1>6 DEF ReadLine
  <2>2. CASE Len(l) = 5 /\ l[3] = "custom"
    <3>1. DetectLine(l, host) = CustomAccount(l, l[4], l[5])
      BY <2>2, Detected
    <3>2. l[4] \in LineFields /\ l[5] \in LineFields /\ Len(l) >= 2
      BY <1>2, <2>2
    <3> QED
      BY <2>1, <3>1, <3>2, CustomMade DEF Made
  <2>3. CASE Len(l) = 4 /\ l[3] \in Hosts
    <3>1. DetectLine(l, host) = CustomAccount(l, l[3], l[4])
      BY <2>3, Detected
    <3>2. l[3] \in LineFields /\ Len(l) >= 2
      BY <1>2, <2>3
    <3> QED
      BY <2>1, <3>1, <3>2, CustomMade DEF Made
  <2>4. CASE (Len(l) = 4 /\ l[3] \notin Hosts) \/ (Len(l) = 5 /\ l[3] # "custom")
    <3>1. DetectLine(l, host) = OutlookLine(l)
      BY <2>4, Detected
    <3>2. Len(l) = 4 \/ Len(l) = 5
      BY <2>4
    <3>3. Len(l) >= 4
      BY <3>2
    <3> QED
      BY <2>1, <3>1, <3>3, OutlookMade DEF Made
  <2>5. CASE Len(l) = 3
    <3>1. DetectLine(l, host) = IF Blank(l, {1, 2}) \/ l[3] # "known" THEN Refused
                                ELSE ImapAccount(l, "known", "known_host", "993")
      BY <2>5, Detected
    <3>2. l[1] # "" /\ l[2] # "" /\ DetectLine(l, host) = ImapAccount(l, "known", "known_host", "993")
      BY <2>1, <3>1 DEF Blank
    <3>3. Len(l) >= 2
      BY <2>5
    <3> QED
      BY <2>1, <3>2, <3>3, ImapMade DEF Made
  <2>6. CASE Len(l) = 2
    <3>1. DetectLine(l, host) =
                IF Blank(l, {1, 2}) \/ l[1] = "at_outlook" THEN Refused
                ELSE IF l[1] = "at_known" THEN ImapAccount(l, "known", "known_host", "993")
                ELSE IF host = "" THEN Refused
                ELSE ImapAccount(l, "custom", host, "993")
      BY <2>6, Detected
    <3>2. /\ l[1] # "" /\ l[2] # ""
          /\ \/ DetectLine(l, host) = ImapAccount(l, "known", "known_host", "993")
             \/ host # "" /\ DetectLine(l, host) = ImapAccount(l, "custom", host, "993")
      BY <2>1, <3>1 DEF Blank
    <3>3. Len(l) >= 2
      BY <2>6
    <3> QED
      BY <2>1, <3>2, <3>3, ImapMade DEF Made
  <2>7. CASE Len(l) = 1
    <3>1. DetectLine(l, host) = IF Blank(l, {1}) THEN Refused ELSE TempAccount(l)
      BY <2>7, Detected
    <3>2. l[1] # "" /\ DetectLine(l, host) = [type |-> "temp_mail", email |-> l[1]]
      BY <2>1, <3>1 DEF Blank, TempAccount
    <3> QED
      BY <1>2, <2>1, <3>2 DEF Made, IsTemp, GivenAddresses
  <2> QED
    BY <1>2, <2>2, <2>3, <2>4, <2>5, <2>6, <2>7
<1> QED
  BY <1>3, <1>4, <1>5, <1>6 DEF Routes

-----------------------------------------------------------------------------
(* Written and read again.                                                 *)

LEMMA Exported ==
    ASSUME NEW a
    PROVE  /\ a.type = "outlook" => ExportLine(a) = <<a.email, a.password, a.id>> \o a.token
           /\ a.type = "temp_mail" => ExportLine(a) = <<a.email>>
           /\ a.type = "imap" /\ a.provider = "custom" =>
                ExportLine(a) = <<a.email, a.password, "custom", a.host, a.port>>
           /\ a.type = "imap" /\ a.provider # "custom" =>
                ExportLine(a) = <<a.email, a.password, a.provider>>
<1>1. ASSUME a.type = "outlook" PROVE ExportLine(a) = <<a.email, a.password, a.id>> \o a.token
  BY <1>1 DEF ExportLine
<1>2. ASSUME a.type = "temp_mail" PROVE ExportLine(a) = <<a.email>>
  BY <1>2 DEF ExportLine
<1>3. ASSUME a.type = "imap"
      PROVE  ExportLine(a) = IF a.provider = "custom"
                             THEN <<a.email, a.password, "custom", a.host, a.port>>
                             ELSE <<a.email, a.password, a.provider>>
  BY <1>3 DEF ExportLine
<1> QED
  BY <1>1, <1>2, <1>3

\* A token's account is written as the line it was read from.
LEMMA TokenLineBack ==
    ASSUME NEW l \in AccountLine, TokenLine(l)
    PROVE  ExportLine(OutlookAccount(l)) = l
<1> DEFINE a == OutlookAccount(l)
           head == <<l[1], l[2], l[3]>>
           rest == SubSeq(l, 4, Len(l))
<1>1. a.type = "outlook" /\ a.email = l[1] /\ a.password = l[2] /\ a.id = l[3] /\ a.token = rest
  BY DEF OutlookAccount
<1>2. ExportLine(a) = head \o rest
  <2> HIDE DEF a, rest
  <2> QED
    BY <1>1, Exported
<1>3. Len(l) \in 4 .. 5 /\ l \in Seq(LineFields)
  <2>1. Len(l) \in 1 .. 5 /\ Len(l) >= 4 /\ l \in Seq(LineFields)
    BY LineShape DEF TokenLine
  <2> HIDE DEF a, head, rest
  <2>2. \A n \in 1 .. 5 : n >= 4 => n \in 4 .. 5
    OBVIOUS
  <2> QED
    BY <2>1, <2>2
<1>4. \A i \in 1 .. Len(l) : l[i] \in LineFields
  BY <1>3, ElementOfSeq
<1>5. head \in Seq(LineFields) /\ Len(head) = 3
  <2>1. l[1] \in LineFields /\ l[2] \in LineFields /\ l[3] \in LineFields
    BY <1>3, <1>4
  <2> QED
    BY <2>1
<1>6. /\ rest \in Seq(LineFields) /\ Len(rest) = Len(l) - 3
      /\ \A i \in 1 .. Len(l) - 3 : rest[i] = l[3 + i]
  <2>1. \A i \in 4 .. Len(l) : l[i] \in LineFields
    BY <1>3, <1>4
  <2>2. 4 \in Int /\ Len(l) \in Int /\ 4 <= Len(l)
    BY <1>3
  <2>3. /\ rest \in Seq(LineFields) /\ Len(rest) = Len(l) - 4 + 1
        /\ \A i \in 1 .. Len(l) - 4 + 1 : rest[i] = l[4 + i - 1]
    BY <2>1, <2>2, SubSeqProperties
  <2>4. Len(l) - 4 + 1 = Len(l) - 3 /\ \A i \in 1 .. Len(l) - 3 : 4 + i - 1 = 3 + i
    BY <1>3
  <2> QED
    BY <2>3, <2>4
<1>7. head[1] = l[1] /\ head[2] = l[2] /\ head[3] = l[3]
  OBVIOUS
<1> HIDE DEF head, rest
<1>8. /\ head \o rest \in Seq(LineFields)
      /\ Len(head \o rest) = Len(head) + Len(rest)
      /\ \A i \in 1 .. Len(head) + Len(rest) :
            (head \o rest)[i] = IF i <= Len(head) THEN head[i] ELSE rest[i - Len(head)]
  BY <1>5, <1>6, ConcatProperties
<1>9. Len(head \o rest) = Len(l) /\ Len(head) + Len(rest) = Len(l)
  BY <1>3, <1>5, <1>6, <1>8
<1>10. ASSUME NEW i \in 1 .. Len(l) PROVE (head \o rest)[i] = l[i]
  <2>1. (head \o rest)[i] = IF i <= 3 THEN head[i] ELSE rest[i - 3]
    BY <1>5, <1>8, <1>9
  <2>2. CASE i <= 3
    <3>1. i = 1 \/ i = 2 \/ i = 3
      BY <1>3, <2>2
    <3> QED
      BY <1>7, <2>1, <2>2, <3>1
  <2>3. CASE ~(i <= 3)
    <3>1. i - 3 \in 1 .. Len(l) - 3 /\ 3 + (i - 3) = i
      BY <1>3, <2>3
    <3> QED
      BY <1>6, <2>1, <2>3, <3>1
  <2> QED
    BY <2>2, <2>3
<1> QED
  BY <1>2, <1>3, <1>8, <1>9, <1>10, SeqEqual

\* Lines of one, three, four and five fields.
LEMMA Tuples ==
    ASSUME NEW S, NEW a \in S, NEW b \in S, NEW c \in S, NEW d \in S, NEW e \in S
    PROVE  /\ <<a>> \in Seq(S) /\ Len(<<a>>) = 1
           /\ <<a, b, c>> \in Seq(S) /\ Len(<<a, b, c>>) = 3
           /\ <<a, b, c, d>> \in Seq(S) /\ Len(<<a, b, c, d>>) = 4
           /\ <<a, b, c, d, e>> \in Seq(S) /\ Len(<<a, b, c, d, e>>) = 5
OBVIOUS

LEMMA OutlookBack ==
    ASSUME NEW l \in AccountLine, TokenLine(l), ~LooksElse(OutlookAccount(l)),
           NEW route, route = "auto" \/ route = "outlook", NEW host
    PROVE  ReadLine(route, l, host) = OutlookAccount(l)
<1>1. Len(l) = 4 \/ Len(l) = 5
  <2>1. Len(l) \in 1 .. 5 /\ Len(l) >= 4
    BY LineShape DEF TokenLine
  <2>2. \A n \in 1 .. 5 : n >= 4 => n = 4 \/ n = 5
    OBVIOUS
  <2> QED
    BY <2>1, <2>2
<1>2. OutlookLine(l) = OutlookAccount(l)
  BY DEF OutlookLine, Blank, TokenLine
<1>3. l[3] \notin Hosts /\ l[3] # "custom"
  BY DEF LooksElse, OutlookAccount
<1>4. CASE route = "auto"
  <2>1. DetectLine(l, host) = OutlookLine(l)
    BY <1>1, <1>3, Detected
  <2> QED
    BY <1>2, <1>4, <2>1 DEF ReadLine
<1>5. CASE route = "outlook"
  <2>1. ~(Len(l) < 4)
    BY <1>1
  <2>2. ReadLine(route, l, host) = IF Len(l) < 4 THEN Refused ELSE OutlookLine(l)
    BY <1>5 DEF ReadLine
  <2> QED
    BY <1>2, <2>1, <2>2
<1> QED
  BY <1>4, <1>5

LEMMA CustomBack ==
    ASSUME NEW e \in GivenAddresses, NEW h \in LineFields, h # "", NEW port \in Ports,
           ~BasicAuthTarget(e, h), NEW route, route = "auto" \/ route = "custom", NEW host
    PROVE  ReadLine(route, <<e, "pw", "custom", h, port>>, host) = ImapRecord(e, "custom", h, port)
<1> DEFINE x == <<e, "pw", "custom", h, port>>
<1>1. Len(x) = 5
  BY Tuples
<1>2. x[1] = e /\ x[2] = "pw" /\ x[3] = "custom" /\ x[4] = h /\ x[5] = port
  OBVIOUS
<1> HIDE DEF x
<1>3. e # ""
  BY DEF GivenAddresses
<1>4. CustomAccount(x, h, port) = ImapAccount(x, "custom", h, port)
  BY <1>2, <1>3 DEF CustomAccount, Blank
<1>5. ImapAccount(x, "custom", h, port) = ImapRecord(e, "custom", h, port)
  BY <1>2 DEF ImapAccount, ImapRecord
<1>6. CASE route = "auto"
  <2>1. DetectLine(x, host) = CustomAccount(x, x[4], x[5])
    BY <1>1, <1>2, Detected
  <2>2. ReadLine(route, x, host) = DetectLine(x, host)
    BY <1>6 DEF ReadLine
  <2> QED
    BY <1>2, <1>4, <1>5, <2>1, <2>2 DEF x
<1>7. CASE route = "custom"
  <2>1. ~(Len(x) < 2) /\ Len(x) >= 5
    BY <1>1, Sizes, Zenon
  <2>2. CustomLine(x, host) = CustomAccount(x, x[4], x[5])
    BY <1>2, <2>1, Zenon DEF CustomLine
  <2>3. ReadLine(route, x, host) = CustomLine(x, host)
    BY <1>7 DEF ReadLine
  <2> QED
    BY <1>2, <1>4, <1>5, <2>2, <2>3 DEF x
<1> QED
  BY <1>6, <1>7

LEMMA KnownBack ==
    ASSUME NEW e \in GivenAddresses, e # "at_outlook", NEW route, route = "auto" \/ route = "known",
           NEW host
    PROVE  ReadLine(route, <<e, "pw", "known">>, host) = ImapRecord(e, "known", "known_host", "993")
<1> DEFINE x == <<e, "pw", "known">>
<1>1. Len(x) = 3
  BY Tuples
<1>2. x[1] = e /\ x[2] = "pw" /\ x[3] = "known"
  OBVIOUS
<1> HIDE DEF x
<1>3. e # ""
  BY DEF GivenAddresses
<1>4. ImapAccount(x, "known", "known_host", "993") = ImapRecord(e, "known", "known_host", "993")
  BY <1>2 DEF ImapAccount, ImapRecord
<1>5. CASE route = "auto"
  <2>1. DetectLine(x, host) = IF Blank(x, {1, 2}) \/ x[3] # "known" THEN Refused
                              ELSE ImapAccount(x, "known", "known_host", "993")
    BY <1>1, Detected
  <2>2. ~Blank(x, {1, 2})
    BY <1>2, <1>3 DEF Blank
  <2>3. ReadLine(route, x, host) = DetectLine(x, host)
    BY <1>5 DEF ReadLine
  <2> QED
    BY <1>2, <1>4, <2>1, <2>2, <2>3 DEF x
<1>6. CASE route = "known"
  <2>1. ~(Len(x) < 2)
    BY <1>1
  <2>2. ~Blank(x, {1, 2} \cap DOMAIN x)
    BY <1>2, <1>3 DEF Blank
  <2>3. ~BasicAuthTarget(x[1], "known_host")
    BY <1>2 DEF BasicAuthTarget
  <2>4. x[3] \in {"", "known"}
    BY <1>2, Zenon
  <2>5. KnownLine(x) = ImapAccount(x, "known", "known_host", "993")
    BY <2>1, <2>2, <2>3, <2>4, Zenon DEF KnownLine
  <2>6. ReadLine(route, x, host) = KnownLine(x)
    BY <1>6 DEF ReadLine
  <2> QED
    BY <1>4, <2>5, <2>6 DEF x
<1> QED
  BY <1>5, <1>6

LEMMA TempBack ==
    ASSUME NEW e \in GivenAddresses, NEW host
    PROVE  ReadLine("auto", <<e>>, host) = [type |-> "temp_mail", email |-> e]
<1> DEFINE x == <<e>>
<1>1. Len(x) = 1
  BY Tuples
<1>2. x[1] = e /\ e # ""
  BY DEF GivenAddresses
<1> HIDE DEF x
<1>3. DetectLine(x, host) = IF Blank(x, {1}) THEN Refused ELSE TempAccount(x)
  BY <1>1, Detected
<1>4. DetectLine(x, host) = TempAccount(x)
  BY <1>2, <1>3 DEF Blank
<1>5. ReadLine("auto", x, host) = DetectLine(x, host)
  BY DEF ReadLine
<1> QED
  BY <1>2, <1>4, <1>5 DEF TempAccount, x

\* The line a group's export writes of an IMAP account is refused.
LEMMA GroupLineRefused ==
    ASSUME NEW e \in GivenAddresses, NEW route, route = "auto" \/ route = "known" \/ route = "custom",
           NEW host
    PROVE  ReadLine(route, <<e, "", "", "">>, host) = Refused
<1> DEFINE x == <<e, "", "", "">>
<1>1. Len(x) = 4 /\ DOMAIN x = 1 .. 4
  BY Tuples
<1>2. x[1] = e /\ x[2] = "" /\ x[3] = "" /\ x[4] = ""
  OBVIOUS
<1> HIDE DEF x
<1>3. CASE route = "auto"
  <2>1. x[3] \notin Hosts
    BY <1>2 DEF Hosts
  <2>2. DetectLine(x, host) = OutlookLine(x)
    BY <1>1, <2>1, Detected
  <2>3. Blank(x, {1, 3})
    BY <1>2 DEF Blank
  <2>4. OutlookLine(x) = Refused
    BY <2>3, Zenon DEF OutlookLine
  <2>5. ReadLine(route, x, host) = DetectLine(x, host)
    BY <1>3 DEF ReadLine
  <2> QED
    BY <2>2, <2>4, <2>5 DEF x
<1>4. CASE route = "known"
  <2>1. 2 \in {1, 2} \cap DOMAIN x
    BY <1>1
  <2>2. Blank(x, {1, 2} \cap DOMAIN x)
    BY <1>2, <2>1, Zenon DEF Blank
  <2>3. KnownLine(x) = Refused
    BY <2>2, Zenon DEF KnownLine
  <2>4. ReadLine(route, x, host) = KnownLine(x)
    BY <1>4 DEF ReadLine
  <2> QED
    BY <2>3, <2>4 DEF x
<1>5. CASE route = "custom"
  <2>1. Len(x) >= 4 /\ ~(Len(x) < 2) /\ ~(Len(x) >= 5)
    BY <1>1
  <2>2. CustomLine(x, host) = CustomAccount(x, x[3], x[4])
    BY <2>1, Zenon DEF CustomLine
  <2>3. Blank(x, {1, 2})
    BY <1>2 DEF Blank
  <2>4. CustomAccount(x, x[3], x[4]) = Refused
    BY <2>3, Zenon DEF CustomAccount
  <2>5. ReadLine(route, x, host) = CustomLine(x, host)
    BY <1>5 DEF ReadLine
  <2> QED
    BY <2>2, <2>4, <2>5 DEF x
<1> QED
  BY <1>3, <1>4, <1>5

\* What an export may write of an account, and that it is a line.
MayWrite(a) == {ExportLine(a)} \cup (IF a.type = "temp_mail" THEN {} ELSE {GroupLine(a)})

LEMMA GroupWrites ==
    ASSUME NEW a
    PROVE  /\ a.type = "outlook" => GroupLine(a) = ExportLine(a)
           /\ a.type = "imap" => GroupLine(a) = <<a.email, "", "", "">>
BY DEF GroupLine

LEMMA ImapFacts ==
    ASSUME NEW e, NEW provider, NEW h, NEW port, NEW a, a = ImapRecord(e, provider, h, port)
    PROVE  /\ a.type = "imap" /\ a.provider = provider /\ a.email = e /\ a.password = "pw"
           /\ a.host = h /\ a.port = port
BY DEF ImapRecord

LEMMA WrittenType ==
    ASSUME NEW a, Made(a), NEW x \in MayWrite(a)
    PROVE  x \in Seq(LineFields) /\ a # Refused
<1>1. CASE IsOutlook(a)
  <2>1. PICK l \in AccountLine : TokenLine(l) /\ a = OutlookAccount(l)
    BY <1>1 DEF IsOutlook
  <2>2. a.type = "outlook"
    BY <2>1 DEF OutlookAccount
  <2>3. x = l
    BY <2>1, <2>2, TokenLineBack, GroupWrites DEF MayWrite
  <2>4. l \in Seq(LineFields)
    BY LineShape
  <2>5. a # Refused
    BY <2>2 DEF Refused
  <2> QED
    BY <2>3, <2>4, <2>5
<1>2. CASE IsTemp(a)
  <2>1. PICK e \in GivenAddresses : a = [type |-> "temp_mail", email |-> e]
    BY <1>2 DEF IsTemp
  <2>2. a.type = "temp_mail" /\ a.email = e
    BY <2>1
  <2>3. x = <<e>> /\ e \in LineFields
    BY <2>2, Exported DEF MayWrite, GivenAddresses, LineFields
  <2> QED
    BY <2>2, <2>3, Tuples DEF Refused
<1>3. CASE IsKnown(a) \/ IsCustom(a)
  <2>1. PICK e \in GivenAddresses : \/ a = ImapRecord(e, "known", "known_host", "993")
                              \/ \E h \in LineFields, port \in Ports :
                                    a = ImapRecord(e, "custom", h, port)
    BY <1>3 DEF IsKnown, IsCustom
  <2>2. a.type = "imap" /\ a.email = e /\ a.password = "pw"
    BY <2>1, ImapFacts
  <2>3. x = ExportLine(a) \/ x = <<e, "", "", "">>
    BY <2>2, GroupWrites DEF MayWrite
  <2>4. /\ e \in LineFields /\ "pw" \in LineFields /\ "" \in LineFields
        /\ "custom" \in LineFields /\ "known" \in LineFields /\ "993" \in LineFields
    BY Zenon DEF LineFields, GivenAddresses, Ports
  <2>5. <<e, "", "", "">> \in Seq(LineFields)
    BY <2>4, Tuples
  <2>6. ASSUME a = ImapRecord(e, "known", "known_host", "993") PROVE ExportLine(a) \in Seq(LineFields)
    <3>1. a.provider = "known" /\ "known" # "custom"
      BY <2>6, ImapFacts
    <3>2. ExportLine(a) = <<e, "pw", "known">>
      BY <2>2, <3>1, Exported
    <3> QED
      BY <2>4, <3>2, Tuples
  <2>7. ASSUME NEW h \in LineFields, NEW port \in Ports, a = ImapRecord(e, "custom", h, port)
        PROVE  ExportLine(a) \in Seq(LineFields)
    <3>1. a.provider = "custom" /\ a.host = h /\ a.port = port
      BY <2>7, ImapFacts
    <3>2. ExportLine(a) = <<e, "pw", "custom", h, port>>
      BY <2>2, <3>1, Exported
    <3>3. port \in LineFields
      BY Zenon DEF LineFields
    <3>4. <<e, "pw", "custom", h, port>> \in Seq(LineFields)
      BY <2>4, <3>3, Tuples
    <3> QED
      BY <3>2, <3>4
  <2>8. a # Refused
    BY <2>2 DEF Refused
  <2> QED
    BY <2>1, <2>3, <2>5, <2>6, <2>7, <2>8, Zenon
<1> QED
  BY <1>1, <1>2, <1>3 DEF Made

\* An account that is as it should be reads back from whatever is written of it.
LEMMA WrittenReadsBack ==
    ASSUME NEW a, Made(a), ~LetIn(a), ~LooksElse(a), NEW x \in MayWrite(a),
           NEW route \in RoutesOf(a), NEW host
    PROVE  IF Len(x) = 4 /\ x[3] = "" THEN ReadLine(route, x, host) = Refused
           ELSE ReadLine(route, x, host) = a
<1>1. CASE IsOutlook(a)
  <2>1. PICK l \in AccountLine : TokenLine(l) /\ a = OutlookAccount(l)
    BY <1>1 DEF IsOutlook
  <2>2. a.type = "outlook"
    BY <2>1 DEF OutlookAccount
  <2>3. x = l
    BY <2>1, <2>2, TokenLineBack, GroupWrites DEF MayWrite
  <2>4. route = "auto" \/ route = "outlook"
    BY <2>2 DEF RoutesOf
  <2>5. ReadLine(route, x, host) = a
    BY <2>1, <2>3, <2>4, OutlookBack
  <2>6. x[3] # ""
    BY <2>1, <2>3 DEF TokenLine
  <2> QED
    BY <2>5, <2>6
<1>2. CASE IsTemp(a)
  <2>1. PICK e \in GivenAddresses : a = [type |-> "temp_mail", email |-> e]
    BY <1>2 DEF IsTemp
  <2>2. a.type = "temp_mail" /\ a.email = e
    BY <2>1
  <2>3. x = <<e>> /\ route = "auto"
    BY <2>2, Exported DEF MayWrite, RoutesOf
  <2>4. Len(x) # 4
    <3>1. Len(x) = 1
      BY <2>3, Tuples
    <3> QED
      BY <3>1
  <2> QED
    BY <2>1, <2>3, <2>4, TempBack
<1>3. ASSUME NEW e \in GivenAddresses, NEW provider, NEW h, NEW port,
             a = ImapRecord(e, provider, h, port),
             \/ provider = "known" /\ h = "known_host" /\ port = "993"
             \/ provider = "custom" /\ h \in LineFields \ {""} /\ port \in Ports
      PROVE  IF Len(x) = 4 /\ x[3] = "" THEN ReadLine(route, x, host) = Refused
             ELSE ReadLine(route, x, host) = a
  <2>1. /\ a.type = "imap" /\ a.email = e /\ a.password = "pw"
        /\ a.provider = provider /\ a.host = h /\ a.port = port
    <3>1. a = ImapRecord(e, provider, h, port)
      BY <1>3, Zenon
    <3> QED
      BY <3>1, ImapFacts
  <2>2. ~BasicAuthTarget(e, h)
    BY <2>1 DEF LetIn
  <2>3. route = "auto" \/ route = provider
    BY <2>1 DEF RoutesOf
  <2>4. x = ExportLine(a) \/ x = <<e, "", "", "">>
    BY <2>1, GroupWrites DEF MayWrite
  <2>5. CASE x = <<e, "", "", "">>
    <3>1. Len(x) = 4
      BY <2>5, Tuples
    <3>2. x[3] = ""
      BY <2>5
    <3>3. ReadLine(route, x, host) = Refused
      BY <1>3, <2>3, <2>5, GroupLineRefused, Zenon
    <3> QED
      BY <3>1, <3>2, <3>3, Zenon
  <2>6. CASE x = ExportLine(a) /\ provider = "known"
    <3>1. x = <<e, "pw", "known">>
      BY <2>1, <2>6, Exported
    <3>2. Len(x) # 4
      <4>1. Len(x) = 3
        BY <3>1, Tuples
      <4> QED
        BY <4>1
    <3>3. e # "at_outlook"
      BY <2>2 DEF BasicAuthTarget
    <3>4. ReadLine(route, x, host) = ImapRecord(e, "known", "known_host", "993")
      BY <2>3, <2>6, <3>1, <3>3, KnownBack
    <3>5. a = ImapRecord(e, "known", "known_host", "993")
      BY <1>3, <2>6
    <3> QED
      BY <3>2, <3>4, <3>5, Zenon
  <2>7. CASE x = ExportLine(a) /\ provider = "custom"
    <3>1. x = <<e, "pw", "custom", h, port>>
      BY <2>1, <2>7, Exported
    <3>2. Len(x) # 4
      <4>1. Len(x) = 5
        BY <3>1, Tuples
      <4> QED
        BY <4>1
    <3>3. h \in LineFields /\ h # "" /\ port \in Ports
      BY <1>3, <2>7
    <3>4. ReadLine(route, x, host) = ImapRecord(e, "custom", h, port)
      <4>1. route = "auto" \/ route = "custom"
        BY <2>3, <2>7
      <4> QED
        BY <2>2, <3>1, <3>3, <4>1, CustomBack, Zenon
    <3>5. a = ImapRecord(e, "custom", h, port)
      BY <1>3, <2>7
    <3> QED
      BY <3>2, <3>4, <3>5, Zenon
  <2> QED
    BY <1>3, <2>4, <2>5, <2>6, <2>7, Zenon
<1>4. CASE IsKnown(a)
  <2>1. PICK e \in GivenAddresses : a = ImapRecord(e, "known", "known_host", "993")
    BY <1>4 DEF IsKnown
  <2> QED
    BY <1>3, <2>1, Zenon
<1>5. CASE IsCustom(a)
  <2>1. PICK e \in GivenAddresses, h \in LineFields \ {""}, port \in Ports :
                a = ImapRecord(e, "custom", h, port)
    BY <1>5 DEF IsCustom
  <2> QED
    BY <1>3, <2>1, Zenon
<1> QED
  BY <1>1, <1>2, <1>4, <1>5, Zenon DEF Made

-----------------------------------------------------------------------------
(* The inductive invariant: what was exported is what may be written of    *)
(* the account that was imported, and what was read again was read of it.  *)

LinesInv ==
    /\ transfer \in [stage : {"none", "stored", "exported", "read"}, account : {transfer.account},
                     text : Seq(LineFields), again : {transfer.again}]
    /\ transfer.stage # "none" => Made(transfer.account)
    /\ transfer.stage \in {"exported", "read"} => transfer.text \in MayWrite(transfer.account)
    /\ transfer.stage = "read" =>
          \E route \in RoutesOf(transfer.account) : \E host \in LineFields :
              transfer.again = ReadLine(route, transfer.text, host)

LEMMA LinesInvInit == AccountLinesInit => LinesInv
<1> SUFFICES ASSUME AccountLinesInit PROVE LinesInv
  OBVIOUS
<1>1. transfer = [stage |-> "none", account |-> Refused, text |-> <<>>, again |-> Refused]
  BY DEF AccountLinesInit, NoTransfer
<1>2. <<>> \in Seq(LineFields)
  BY EmptySeq
<1> QED
  BY <1>1, <1>2 DEF LinesInv

\* A step leaves a record of the shape of the one it found.
LEMMA Transfers ==
    ASSUME LinesInv
    PROVE  transfer = [stage |-> transfer.stage, account |-> transfer.account,
                       text |-> transfer.text, again |-> transfer.again]
BY DEF LinesInv

LEMMA ImportStep ==
    ASSUME LinesInv, NEW route \in Routes, NEW l \in AccountLine, NEW host \in LineFields,
           ImportsLine(route, l, host)
    PROVE  LinesInv'
<1> DEFINE a == ReadLine(route, l, host)
<1>1. Made(a)
  BY ReadMade DEF ImportsLine
<1> HIDE DEF a
<1>2. transfer' = [stage |-> "stored", account |-> a, text |-> transfer.text, again |-> transfer.again]
  BY Transfers DEF ImportsLine, a
<1>3. transfer.text \in Seq(LineFields)
  BY DEF LinesInv
<1> QED
  BY <1>1, <1>2, <1>3 DEF LinesInv

LEMMA ExportStep ==
    ASSUME LinesInv, Exports \/ ExportsGroup
    PROVE  LinesInv'
<1> DEFINE a == transfer.account
<1>1. transfer.stage = "stored" /\ Made(a)
  BY DEF Exports, ExportsGroup, LinesInv
<1>2. PICK x \in MayWrite(a) : transfer' = [transfer EXCEPT !.stage = "exported", !.text = x]
  BY DEF Exports, ExportsGroup, MayWrite
<1>3. transfer' = [stage |-> "exported", account |-> a, text |-> x, again |-> transfer.again]
  BY <1>2, Transfers
<1> HIDE DEF a
<1>4. x \in Seq(LineFields)
  BY <1>1, WrittenType
<1> QED
  BY <1>1, <1>3, <1>4 DEF LinesInv

LEMMA AgainStep ==
    ASSUME LinesInv, NEW route \in Routes, NEW host \in LineFields, ImportsAgain(route, host)
    PROVE  LinesInv'
<1> DEFINE again == ReadLine(route, transfer.text, host)
<1>1. transfer.stage = "exported" /\ route \in RoutesOf(transfer.account)
  BY DEF ImportsAgain
<1>2. transfer' = [stage |-> "read", account |-> transfer.account, text |-> transfer.text,
                   again |-> again]
  BY Transfers DEF ImportsAgain
<1>3. /\ Made(transfer.account) /\ transfer.text \in MayWrite(transfer.account)
      /\ transfer.text \in Seq(LineFields)
  BY <1>1 DEF LinesInv
<1> QED
  BY <1>1, <1>2, <1>3 DEF LinesInv

LEMMA LinesInvStep == LinesInv /\ [AccountLinesNext]_transfer => LinesInv'
<1> SUFFICES ASSUME LinesInv, [AccountLinesNext]_transfer PROVE LinesInv'
  OBVIOUS
<1>1. \A host \in {"", "host", "live"} : host \in LineFields
  BY Zenon DEF LineFields
<1>2. ASSUME NEW route \in Routes, NEW l \in AccountLine, NEW host \in {"", "host", "live"},
             ImportsLine(route, l, host)
      PROVE  LinesInv'
  BY <1>1, <1>2, ImportStep, Zenon
<1>3. CASE Exports \/ ExportsGroup
  BY <1>3, ExportStep
<1>4. ASSUME NEW route \in Routes, NEW host \in {"", "host"}, ImportsAgain(route, host)
      PROVE  LinesInv'
  <2>1. host \in LineFields
    BY Zenon DEF LineFields
  <2> QED
    BY <1>4, <2>1, AgainStep, Zenon
<1>5. CASE UNCHANGED transfer
  BY <1>5 DEF LinesInv
<1> QED
  BY <1>2, <1>3, <1>4, <1>5, Zenon DEF AccountLinesNext

\* The inductive invariant of the lines holds in every behaviour.
THEOREM LinesInvariant == AccountLinesSpec => []LinesInv
BY LinesInvInit, LinesInvStep, PTL DEF AccountLinesSpec

LEMMA LinesTyped == LinesInv => AccountLinesTypeOK
<1> SUFFICES ASSUME LinesInv PROVE AccountLinesTypeOK
  OBVIOUS
<1>1. transfer.stage \in {"none", "stored", "exported", "read"} /\ transfer.text \in Seq(LineFields)
  BY DEF LinesInv
<1>2. transfer.stage # "none" => transfer.account # Refused
  <2> ExportLine(transfer.account) \in MayWrite(transfer.account)
    BY DEF MayWrite
  <2> QED
    BY WrittenType DEF LinesInv
<1> QED
  BY <1>1, <1>2 DEF AccountLinesTypeOK

\* An exported line is read back as the account it was written for; the line a
\* group's export writes for an IMAP account is refused.
THEOREM LinesReadBack == AccountLinesSpec => []ReadsBack
<1>1. LinesInv => ReadsBack
  <2> SUFFICES ASSUME LinesInv, transfer.stage = "read",
                      ~LetIn(transfer.account), ~LooksElse(transfer.account)
               PROVE  IF Unreadable THEN transfer.again = Refused
                      ELSE transfer.again = transfer.account
    BY DEF ReadsBack
  <2>1. Made(transfer.account) /\ transfer.text \in MayWrite(transfer.account)
    BY DEF LinesInv
  <2>2. PICK route \in RoutesOf(transfer.account), host \in LineFields :
              transfer.again = ReadLine(route, transfer.text, host)
    BY DEF LinesInv
  <2>3. IF Len(transfer.text) = 4 /\ transfer.text[3] = ""
        THEN ReadLine(route, transfer.text, host) = Refused
        ELSE ReadLine(route, transfer.text, host) = transfer.account
    BY <2>1, WrittenReadsBack, Zenon
  <2> QED
    BY <2>2, <2>3, Zenon DEF Unreadable
<1> QED
  BY <1>1, LinesInvariant, PTL
=============================================================================

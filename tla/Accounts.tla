------------------------------ MODULE Accounts ------------------------------
(***************************************************************************)
(* The accounts and their groups as the administrator edits them: imports, *)
(* edits, moves and deletions, each answered by a thread of its own.  A    *)
(* request reads in one statement and writes in another; the database      *)
(* keeps e-mail addresses and group names apart and refuses an account     *)
(* whose group does not exist.                                             *)
(*                                                                         *)
(* Group 1 is created as the default group, group 2 is the system's.  An   *)
(* import's lines are all of one provider, which has a group by name.      *)
(***************************************************************************)
EXTENDS Naturals, Sequences, FiniteSets, FiniteSetsExt

CONSTANTS Emails,              \* addresses, numbered
          ImportLists,         \* the addresses an import's lines have
          AccountThreads,      \* threads that answer requests, numbered
          MaxAccounts,         \* bound: accounts created
          MaxGroups,           \* bound: groups created
          MaxAccountRequests,  \* bound: requests of more than one step
          MaxChanges           \* bound: one-step changes, and deletions of groups

ASSUME AccountsAssumption ==
    /\ Emails \subseteq Nat \ {0}
    /\ ImportLists \subseteq UNION {[1 .. n -> Emails] : n \in 1 .. 2}
    /\ {MaxAccounts, MaxAccountRequests, MaxChanges} \subseteq Nat
    /\ AccountThreads \subseteq Nat
    /\ MaxGroups \in Nat \ {0, 1}

VARIABLES account,     \* accounts by id
          group,       \* name of each group by id
          desk,        \* what each thread is doing
          asked,       \* requests begun so far
          changed      \* one-step changes so far

accountsVars == <<account, group, desk, asked, changed>>

AccountIds == 1 .. MaxAccounts
GroupIds == 1 .. MaxGroups
SystemGroup == 2
GivenNames == {"default", "provider", "other"}
NoAccount == [email |-> 0, group |-> 0, remark |-> 0, status |-> "none", by |-> 0]
AccountRows ==
    [email : {0} \cup Emails, group : 0 .. MaxGroups, remark : 0 .. 1,
     status : {"none", "active", "inactive"}, by : 0 .. MaxAccountRequests]

IdleDesk == [op |-> "idle", stage |-> "idle", n |-> 0, lines |-> <<>>, line |-> 1, mode |-> "skip",
             grouping |-> FALSE, group |-> 0, found |-> 0, imported |-> {}, ids |-> {},
             row |-> NoAccount, moved |-> FALSE]

AccountsTypeOK ==
    /\ account \in [AccountIds -> AccountRows]
    /\ group \in [GroupIds -> GivenNames \cup {"system", "none", "deleted"}]
    /\ desk \in [AccountThreads ->
          [op : {"idle", "single", "auto", "edit", "remark", "move", "delete_group"},
           stage : {"idle", "group", "create", "again", "look", "write", "answer"},
           n : 0 .. MaxAccountRequests, lines : ImportLists \cup {<<>>}, line : 1 .. 3,
           mode : {"skip", "overwrite"}, grouping : BOOLEAN, group : 0 .. MaxGroups,
           found : 0 .. MaxAccounts, imported : SUBSET (1 .. 2), ids : SUBSET AccountIds,
           row : AccountRows, moved : BOOLEAN]]
    /\ asked \in 0 .. MaxAccountRequests
    /\ changed \in 0 .. MaxChanges

AccountsInit ==
    /\ account = [a \in AccountIds |-> NoAccount]
    /\ group = [g \in GroupIds |-> IF g = 1 THEN "default" ELSE IF g = 2 THEN "system" ELSE "none"]
    /\ desk = [w \in AccountThreads |-> IdleDesk]
    /\ asked = 0
    /\ changed = 0

-----------------------------------------------------------------------------
(* What the database knows and refuses.                                    *)

GroupExists(g) == group[g] \notin {"none", "deleted"}
GroupNamed(name) == {g \in GroupIds : group[g] = name}
DefaultGroup == IF GroupNamed("default") # {} THEN CHOOSE g \in GroupNamed("default") : TRUE ELSE 1

AccountExists(a) == account[a].email # 0
AccountOf(e) == {a \in AccountIds : account[a].email = e}

\* Ids are never given twice.
NewAccounts == {a \in AccountIds : account[a].status = "none"}
NewGroups == {g \in GroupIds : group[g] = "none"}
DeletedRow(a) == [NoAccount EXCEPT !.status = account[a].status]

\* A row that keeps addresses apart and refers to a group.
RowFits(a, row) == AccountOf(row.email) \subseteq {a} /\ GroupExists(row.group)

NewRow(e, g, n) == [email |-> e, group |-> g, remark |-> 0, status |-> "active", by |-> n]

FirstFree(w) == desk[w] = IdleDesk /\ \A v \in AccountThreads : v < w => desk[v] # IdleDesk
Changes == changed < MaxChanges /\ changed' = changed + 1
Serve(w, r) ==
    /\ FirstFree(w)
    /\ asked < MaxAccountRequests /\ asked' = asked + 1
    /\ desk' = [desk EXCEPT ![w] = [r EXCEPT !.n = asked + 1]]
Now(w, r) == desk' = [desk EXCEPT ![w] = r]
AtStage(w, op, stage) == desk[w].op = op /\ desk[w].stage = stage

\* The group a request names is there and not the system's.
GroupAdmitted(g) == GroupExists(g) /\ g # SystemGroup

-----------------------------------------------------------------------------
(* Import for one provider, into one group.                                *)

StartSingle(w, lines, g) ==
    /\ GroupAdmitted(g)
    /\ Serve(w, [IdleDesk EXCEPT !.op = "single", !.stage = "write", !.lines = lines, !.group = g])
    /\ UNCHANGED <<account, group, changed>>

\* All lines are one transaction.  A line whose address is taken, by an earlier
\* line too, and every line if the group has gone, is counted as failed.
WriteSingle(w) ==
    LET r == desk[w]
        fresh == {i \in DOMAIN r.lines :
                    /\ GroupExists(r.group) /\ AccountOf(r.lines[i]) = {}
                    /\ \A k \in 1 .. i - 1 : r.lines[k] # r.lines[i]}
        id(i) == Min(NewAccounts) + Cardinality({k \in fresh : k < i})
    IN
    /\ AtStage(w, "single", "write")
    /\ Cardinality(fresh) <= Cardinality(NewAccounts)
    /\ account' = [a \in AccountIds |->
                     IF \E i \in fresh : id(i) = a
                     THEN NewRow(r.lines[CHOOSE i \in fresh : id(i) = a], r.group, r.n)
                     ELSE account[a]]
    /\ Now(w, [r EXCEPT !.stage = "answer", !.imported = fresh])
    /\ UNCHANGED <<group, asked, changed>>

-----------------------------------------------------------------------------
(* Import of any lines, each committed on its own.                         *)

\* Where a line begins: its group is looked up unless it was given or is known.
LineBegins(r) ==
    IF r.line > Len(r.lines) THEN [r EXCEPT !.stage = "answer"]
    ELSE IF r.grouping /\ r.group = 0 THEN [r EXCEPT !.stage = "group"]
    ELSE [r EXCEPT !.stage = "look"]
NextLine(r) == LineBegins([r EXCEPT !.line = @ + 1, !.found = 0])

StartAuto(w, lines, mode, grouping, g) ==
    /\ IF grouping THEN g = 0 ELSE g \in GroupIds /\ GroupAdmitted(g)
    /\ Serve(w, LineBegins([IdleDesk EXCEPT !.op = "auto", !.lines = lines, !.mode = mode,
                                            !.grouping = grouping, !.group = g]))
    /\ UNCHANGED <<account, group, changed>>

WithGroup(r, g) == LineBegins([r EXCEPT !.group = g])

FindGroup(w) ==
    /\ AtStage(w, "auto", "group")
    /\ IF GroupNamed("provider") = {} THEN Now(w, [desk[w] EXCEPT !.stage = "create"])
       ELSE \E g \in GroupNamed("provider") : Now(w, WithGroup(desk[w], g))
    /\ UNCHANGED <<account, group, asked, changed>>

\* The name may have been taken since.
CreateGroup(w) ==
    /\ AtStage(w, "auto", "create")
    /\ IF GroupNamed("provider") = {}
       THEN LET g == Min(NewGroups) IN
            /\ NewGroups # {}
            /\ group' = [group EXCEPT ![g] = "provider"]
            /\ Now(w, WithGroup(desk[w], g))
       ELSE Now(w, [desk[w] EXCEPT !.stage = "again"]) /\ UNCHANGED group
    /\ UNCHANGED <<account, asked, changed>>

\* Mutant: whoever loses the race for the name takes the default group.
TakeDefault(w) ==
    /\ AtStage(w, "auto", "again")
    /\ Now(w, WithGroup(desk[w], DefaultGroup))
    /\ UNCHANGED <<account, group, asked, changed>>

FindGroupAgain(w) ==
    /\ AtStage(w, "auto", "again")
    /\ Now(w, WithGroup(desk[w], IF GroupNamed("provider") # {} THEN Min(GroupNamed("provider"))
                                 ELSE DefaultGroup))
    /\ UNCHANGED <<account, group, asked, changed>>

LookUp(w) ==
    LET r == desk[w]
        old == AccountOf(r.lines[r.line])
    IN
    /\ AtStage(w, "auto", "look")
    /\ IF old = {} THEN Now(w, [r EXCEPT !.stage = "write"])
       ELSE IF r.mode = "skip" THEN Now(w, NextLine(r))
       ELSE Now(w, [r EXCEPT !.stage = "write", !.found = Min(old)])
    /\ UNCHANGED <<account, group, asked, changed>>

Counts(w, imported) ==
    LET r == desk[w] IN
    Now(w, NextLine(IF imported THEN [r EXCEPT !.imported = @ \cup {r.line}] ELSE r))

\* Mutant: an address that is there by now counts as imported.
CountsTaken(w) ==
    LET r == desk[w] e == r.lines[r.line] IN
    /\ AtStage(w, "auto", "write") /\ r.found = 0
    /\ IF AccountOf(e) = {} /\ GroupExists(r.group)
       THEN /\ NewAccounts # {}
            /\ account' = [account EXCEPT ![Min(NewAccounts)] = NewRow(e, r.group, r.n)]
            /\ Counts(w, TRUE)
       ELSE Counts(w, AccountOf(e) # {}) /\ UNCHANGED account
    /\ UNCHANGED <<group, asked, changed>>

AddLine(w) ==
    LET r == desk[w] e == r.lines[r.line] IN
    /\ AtStage(w, "auto", "write") /\ r.found = 0
    /\ IF AccountOf(e) = {} /\ GroupExists(r.group)
       THEN /\ NewAccounts # {}
            /\ account' = [account EXCEPT ![Min(NewAccounts)] = NewRow(e, r.group, r.n)]
            /\ Counts(w, TRUE)
       ELSE Counts(w, FALSE) /\ UNCHANGED account
    /\ UNCHANGED <<group, asked, changed>>

\* The row that was found is written by its id: if it has been deleted nothing
\* is written, if its address was edited another one's is, and either counts.
OverwriteLine(w) ==
    LET r == desk[w] IN
    /\ AtStage(w, "auto", "write") /\ r.found # 0
    /\ IF AccountExists(r.found) /\ GroupExists(r.group)
       THEN account' = [account EXCEPT ![r.found].group = r.group, ![r.found].by = r.n]
       ELSE UNCHANGED account
    /\ Counts(w, GroupExists(r.group) \/ ~AccountExists(r.found))
    /\ UNCHANGED <<group, asked, changed>>

AnswerImport(w) ==
    /\ desk[w].stage = "answer"
    /\ Now(w, IdleDesk)
    /\ UNCHANGED <<account, group, asked, changed>>

-----------------------------------------------------------------------------
(* Edits.                                                                  *)

StartEdit(w, a, e, g, status) ==
    /\ GroupAdmitted(g) /\ AccountExists(a)
    /\ Serve(w, [IdleDesk EXCEPT !.op = "edit", !.stage = "look", !.ids = {a},
                    !.row = [NewRow(e, g, 0) EXCEPT !.status = status, !.remark = 1]])
    /\ UNCHANGED <<account, group, changed>>

\* The remark alone is given: all else is written back as it was read.
StartRemark(w, a) ==
    /\ AccountExists(a)
    /\ Serve(w, [IdleDesk EXCEPT !.op = "remark", !.stage = "look", !.ids = {a},
                                 !.row = [account[a] EXCEPT !.remark = 1]])
    /\ UNCHANGED <<account, group, changed>>

\* update_account reads the secrets first, to keep those that an edit does not
\* replace; an account that has gone ends it.
ReadSecrets(w) ==
    LET r == desk[w] IN
    /\ r.op \in {"edit", "remark"} /\ r.stage = "look"
    /\ \E a \in r.ids :
         IF AccountExists(a)
         THEN \E by \in {account[a].by} \cup (IF r.op = "edit" THEN {0} ELSE {}) :
                Now(w, [r EXCEPT !.stage = "write", !.row = [@ EXCEPT !.by = by]])
         ELSE Now(w, IdleDesk)
    /\ UNCHANGED <<account, group, asked, changed>>

\* The row is written with what was read, an import's secrets of meanwhile with
\* those of before.
WriteEdit(w) ==
    LET r == desk[w] IN
    /\ r.op \in {"edit", "remark"} /\ r.stage = "write"
    /\ account' = [a \in AccountIds |->
                     IF a \in r.ids /\ AccountExists(a) /\ RowFits(a, r.row) THEN r.row ELSE account[a]]
    /\ Now(w, IdleDesk)
    /\ UNCHANGED <<group, asked, changed>>

StartMove(w, ids, g) ==
    /\ GroupAdmitted(g)
    /\ Serve(w, [IdleDesk EXCEPT !.op = "move", !.stage = "write", !.ids = ids, !.group = g])
    /\ UNCHANGED <<account, group, changed>>

WriteMove(w) ==
    LET r == desk[w] IN
    /\ AtStage(w, "move", "write")
    /\ account' = [a \in AccountIds |->
                     IF a \in r.ids /\ AccountExists(a) /\ GroupExists(r.group)
                     THEN [account[a] EXCEPT !.group = r.group] ELSE account[a]]
    /\ Now(w, IdleDesk)
    /\ UNCHANGED <<group, asked, changed>>

SetAccountStatus(a, status) ==
    /\ Changes
    /\ AccountExists(a)
    /\ account' = [account EXCEPT ![a].status = status]
    /\ UNCHANGED <<group, desk, asked>>

\* One of a batch as well.
DeleteAccount(a) ==
    /\ Changes
    /\ AccountExists(a)
    /\ account' = [account EXCEPT ![a] = DeletedRow(a)]
    /\ UNCHANGED <<group, desk, asked>>

-----------------------------------------------------------------------------
(* Groups.                                                                 *)

\* Imports on their way know the provider's group no longer by its name.
Uprooted(g) ==
    [w \in AccountThreads |-> IF desk[w].op = "auto" /\ group[g] = "provider"
                              THEN [desk[w] EXCEPT !.moved = TRUE] ELSE desk[w]]

AddGroup(name) ==
    /\ Changes
    /\ GroupNamed(name) = {} /\ NewGroups # {}
    /\ group' = [group EXCEPT ![Min(NewGroups)] = name]
    /\ UNCHANGED <<account, desk, asked>>

\* The default group may be renamed, and another given its name.
RenameGroup(g, name) ==
    /\ Changes
    /\ GroupExists(g) /\ g # SystemGroup /\ GroupNamed(name) = {}
    /\ group' = [group EXCEPT ![g] = name]
    /\ desk' = Uprooted(g)
    /\ UNCHANGED <<account, asked>>

StartDeleteGroup(w, g) ==
    /\ Changes
    /\ FirstFree(w)
    /\ GroupAdmitted(g) /\ g # DefaultGroup
    /\ Now(w, [IdleDesk EXCEPT !.op = "delete_group", !.stage = "write", !.group = g,
                               !.found = 0, !.row = [NoAccount EXCEPT !.group = DefaultGroup]])
    /\ UNCHANGED <<account, group, asked>>

\* The accounts move to what was the default group.  If that has gone and there
\* are any, the database refuses it all.
WriteDeleteGroup(w) ==
    LET g == desk[w].group
        heir == desk[w].row.group
        members == {a \in AccountIds : AccountExists(a) /\ account[a].group = g}
    IN
    /\ AtStage(w, "delete_group", "write")
    /\ IF GroupExists(heir) \/ members = {}
       THEN /\ account' = [a \in AccountIds |-> IF a \in members THEN [account[a] EXCEPT !.group = heir]
                                                ELSE account[a]]
            /\ group' = [group EXCEPT ![g] = "deleted"]
            /\ desk' = [Uprooted(g) EXCEPT ![w] = IdleDesk]
       ELSE Now(w, IdleDesk) /\ UNCHANGED <<account, group>>
    /\ UNCHANGED <<asked, changed>>

\* The process stops: a transaction that is not committed never was.
ProcessStops ==
    /\ \E w \in AccountThreads : desk[w] # IdleDesk
    /\ desk' = [w \in AccountThreads |-> IdleDesk]
    /\ UNCHANGED <<account, group, asked, changed>>

-----------------------------------------------------------------------------
AccountsNext ==
    \/ \E w \in AccountThreads, lines \in ImportLists, g \in GroupIds :
        \/ StartSingle(w, lines, g)
        \/ \E mode \in {"skip", "overwrite"} :
            StartAuto(w, lines, mode, TRUE, 0) \/ StartAuto(w, lines, mode, FALSE, g)
    \/ \E w \in AccountThreads :
        \/ WriteSingle(w)
        \/ FindGroup(w)
        \/ CreateGroup(w)
        \/ FindGroupAgain(w)
        \/ LookUp(w)
        \/ AddLine(w)
        \/ OverwriteLine(w)
        \/ AnswerImport(w)
        \/ ReadSecrets(w)
        \/ WriteEdit(w)
        \/ WriteMove(w)
        \/ WriteDeleteGroup(w)
    \/ \E w \in AccountThreads, a \in AccountIds : StartRemark(w, a)
    \/ \E w \in AccountThreads, a \in AccountIds, e \in Emails, g \in GroupIds :
        StartEdit(w, a, e, g, "active")
    \/ \E w \in AccountThreads, ids \in (SUBSET AccountIds) \ {{}}, g \in GroupIds : StartMove(w, ids, g)
    \/ \E a \in AccountIds : DeleteAccount(a) \/ SetAccountStatus(a, "inactive")
    \/ \E name \in GivenNames : AddGroup(name) \/ \E g \in GroupIds : RenameGroup(g, name)
    \/ \E w \in AccountThreads, g \in GroupIds : StartDeleteGroup(w, g)
    \/ ProcessStops

AccountsSpec == AccountsInit /\ [][AccountsNext]_accountsVars

-----------------------------------------------------------------------------
(* Properties.                                                             *)

\* The line a request has just counted as imported.
NewlyImported(w) == desk'[w].imported \ desk[w].imported

\* The account a line was found to be in still has its address.
StillThere(w, e) == desk[w].found # 0 => account[desk[w].found].email = e

\* A line counted as imported has left its secrets in the account of its
\* address, whatever other imports did between its look-up and its write; only
\* if the account it had looked up was deleted or renamed may it count wrongly.
ReportIsTrue ==
    [][\A w \in AccountThreads : \A i \in NewlyImported(w) :
         LET e == desk[w].lines[i] IN
         StillThere(w, e) =>
            \E a \in AccountIds : account'[a].email = e /\ account'[a].by = desk[w].n]_accountsVars

\* An account imported into the group of its provider is in a group of that
\* name, though others create the group at the same time, unless the group was
\* renamed or deleted under the import, or the account it had looked up was.
PlacedByProvider ==
    [][\A w \in AccountThreads : \A i \in NewlyImported(w) :
         LET e == desk[w].lines[i] IN
         (desk[w].grouping /\ ~desk[w].moved /\ StillThere(w, e)) =>
            \A a \in AccountIds : account'[a].by = desk[w].n /\ account'[a].email = e
                                    => group'[account'[a].group] = "provider"]_accountsVars
=============================================================================

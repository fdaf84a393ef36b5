----------------------------- MODULE Migration ------------------------------
(***************************************************************************)
(* init_db: what happens to the database file when programs start, several *)
(* at once perhaps.  One transaction, opened with the write lock, brings   *)
(* the schema and the rows up to date; a savepoint inside it lets a failed *)
(* upgrade leave its record behind and nothing else.                       *)
(***************************************************************************)
EXTENDS Integers, Sequences, FiniteSets, SequencesExt

CONSTANTS Programs,     \* processes that start the program
          Mailboxes,        \* rows of temp_emails
          OldSecrets,   \* accounts whose secrets were stored by old programs
          MaxStarts     \* starts in the model

ASSUME MigrationAssumption ==
    IsFiniteSet(Mailboxes) /\ IsFiniteSet(OldSecrets) /\ MaxStarts \in Nat

VARIABLES disk,     \* what is committed
          work,     \* what the open transaction sees
          point,    \* what it saw at the savepoint
          program,  \* where each process is
          starts,   \* starts so far
          before    \* the data the next upgrade finds, as its owners left it

migrationVars == <<disk, work, point, program, starts, before>>

Version == 18
Schema == {"tables", "columns", "unique tokens", "message keys", "pool columns", "usage tables"}

NoTransaction == [version |-> -1]
Data(d) == [schema |-> d.schema, tokens |-> d.tokens, filled |-> d.filled, secrets |-> d.secrets,
            password |-> d.password, group |-> d.group]

\* A database file of an older version, or an empty one.
OldDatabases ==
    [version : {15}, schema : {{"tables"}, {"tables", "columns"}},
     tokens : [Mailboxes -> {"none", "blank", "a", "b"}], filled : {FALSE},
     secrets : [OldSecrets -> {"plain", "encrypted"}], password : {"plain"}, group : {"default", "renamed"},
     log : {<<>>}, error : {FALSE}]
NewFile ==
    [version |-> 0, schema |-> {}, tokens |-> [b \in Mailboxes |-> "none"], filled |-> FALSE,
     secrets |-> [a \in OldSecrets |-> "none"], password |-> "none", group |-> "none",
     log |-> <<>>, error |-> FALSE]

Steps == <<"tables", "tokens", "rows", "messages", "defaults", "pool", "secrets", "mark", "finish">>

MigrationTypeOK ==
    /\ disk.version \in {0, 15, Version} /\ disk.schema \subseteq Schema
    /\ work = NoTransaction \/ work.schema \subseteq Schema
    /\ point = NoTransaction \/ point.version < Version
    /\ program \in [Programs -> {"down", "waiting", "up"} \cup ToSet(Steps)]
    /\ Cardinality({p \in Programs : program[p] \in ToSet(Steps)}) <= 1
    /\ starts \in 0 .. MaxStarts

MigrationInit ==
    /\ disk \in OldDatabases \cup {NewFile}
    /\ work = NoTransaction
    /\ point = NoTransaction
    /\ program = [p \in Programs |-> "down"]
    /\ starts = 0
    /\ before = Data(disk)

Moves(p, step) == program' = [program EXCEPT ![p] = step]
Upgrading == point # NoTransaction

-----------------------------------------------------------------------------

StartProgram(p) ==
    /\ program[p] = "down"
    /\ starts < MaxStarts
    /\ starts' = starts + 1
    /\ Moves(p, "waiting")
    /\ UNCHANGED <<disk, work, point, before>>

\* Mutant: BEGIN takes no lock.
BeginUnlocked(p) ==
    /\ program[p] = "waiting"
    /\ LET upgrading == disk.version < Version
           recorded == IF upgrading THEN [disk EXCEPT !.log = Append(@, "running")] ELSE disk
       IN /\ work' = recorded
          /\ point' = IF upgrading THEN recorded ELSE NoTransaction
    /\ Moves(p, "tables")
    /\ UNCHANGED <<disk, starts, before>>

\* BEGIN IMMEDIATE, the version as it is under the lock, and for an upgrade
\* its record and the savepoint.
BeginUpgrade(p) ==
    /\ program[p] = "waiting"
    /\ work = NoTransaction
    /\ LET upgrading == disk.version < Version
           recorded == IF upgrading THEN [disk EXCEPT !.log = Append(@, "running")] ELSE disk
       IN /\ work' = recorded
          /\ point' = IF upgrading THEN recorded ELSE NoTransaction
    /\ Moves(p, "tables")
    /\ UNCHANGED <<disk, starts, before>>

\* The wait for the lock has a limit; the program does not come up.
GiveUpWaiting(p) ==
    /\ program[p] = "waiting"
    /\ work # NoTransaction
    /\ Moves(p, "down")
    /\ UNCHANGED <<disk, work, point, starts, before>>

\* One group of statements is carried out.
Apply(p, step, next, result) ==
    /\ program[p] = step
    /\ work' = result
    /\ Moves(p, next)
    /\ UNCHANGED <<disk, point, starts, before>>

CreateTables(p) ==
    Apply(p, "tables", "tokens", [work EXCEPT !.schema = @ \cup {"tables", "columns"}])

\* Blank tokens become NULL; two rows with one token stop the upgrade.
Tidied(tokens) == [b \in Mailboxes |-> IF tokens[b] = "blank" THEN "none" ELSE tokens[b]]
Duplicates(tokens) ==
    \E b, c \in Mailboxes : b # c /\ Tidied(tokens)[b] = Tidied(tokens)[c] /\ Tidied(tokens)[b] # "none"

MakeTokensUnique(p) ==
    /\ program[p] = "tokens" /\ ~Duplicates(work.tokens)
    /\ Apply(p, "tokens", "rows",
             [work EXCEPT !.tokens = Tidied(@), !.schema = @ \cup {"unique tokens"}])

FillRows(p) == Apply(p, "rows", "messages", [work EXCEPT !.filled = TRUE])

RebuildMessages(p) ==
    Apply(p, "messages", "defaults", [work EXCEPT !.schema = @ \cup {"message keys"}])

\* INSERT OR IGNORE of the default group and settings, the password hashed
\* if it is not.  A default group that was renamed is added a second time.
AddDefaults(p) ==
    Apply(p, "defaults", "pool",
          [work EXCEPT !.password = "hashed",
                       !.group = IF @ = "renamed" THEN "renamed and default"
                                 ELSE IF @ = "none" THEN "default" ELSE @])

AddPool(p) ==
    Apply(p, "pool", "secrets", [work EXCEPT !.schema = @ \cup {"pool columns", "usage tables"}])

\* migrate_sensitive_data: what is encrypted stays as it is.
EncryptSecrets(p) ==
    Apply(p, "secrets", "mark",
          [work EXCEPT !.secrets = [a \in OldSecrets |->
               IF work.secrets[a] = "plain" THEN "encrypted" ELSE work.secrets[a]]])

MarkVersion(p) == Apply(p, "mark", "finish", [work EXCEPT !.version = Version])

Concluded(log, status) == [log EXCEPT ![Len(log)] = status]

\* The record says success, the last error is cleared, everything commits.
FinishStart(p) ==
    /\ program[p] = "finish"
    /\ disk' = IF Upgrading THEN [work EXCEPT !.log = Concluded(@, "success"), !.error = FALSE] ELSE work
    /\ work' = NoTransaction
    /\ point' = NoTransaction
    /\ before' = Data(disk')
    /\ Moves(p, "up")
    /\ UNCHANGED starts

\* Mutant: the work so far is committed with the record of the failure.
FailWithoutRollback(p) ==
    /\ program[p] \in ToSet(Steps)
    /\ disk' = IF Upgrading THEN [work EXCEPT !.log = Concluded(@, "failed"), !.error = TRUE] ELSE disk
    /\ work' = NoTransaction
    /\ point' = NoTransaction
    /\ Moves(p, "down")
    /\ UNCHANGED <<starts, before>>

\* Any statement raises, the duplicates among them: back to the savepoint,
\* and the failure is recorded; without an upgrade everything is undone.
FailStart(p) ==
    /\ program[p] \in ToSet(Steps)
    /\ disk' = IF Upgrading THEN [point EXCEPT !.log = Concluded(@, "failed"), !.error = TRUE] ELSE disk
    /\ work' = NoTransaction
    /\ point' = NoTransaction
    /\ Moves(p, "down")
    /\ UNCHANGED <<starts, before>>

\* The process ends, within a start or later; an open transaction is lost.
EndProgram(p) ==
    /\ program[p] # "down"
    /\ Moves(p, "down")
    /\ IF program[p] \in ToSet(Steps)
       THEN work' = NoTransaction /\ point' = NoTransaction
       ELSE UNCHANGED <<work, point>>
    /\ UNCHANGED <<disk, starts, before>>

\* The administrator clears duplicate tokens, as the failed upgrade advises.
ClearDuplicates(b) ==
    /\ work = NoTransaction
    /\ disk.error /\ disk.tokens[b] # "none"
    /\ disk' = [disk EXCEPT !.tokens[b] = "none"]
    /\ before' = Data(disk')
    /\ UNCHANGED <<work, point, program, starts>>

MigrationNext ==
    \/ \E p \in Programs :
         \/ StartProgram(p) \/ BeginUpgrade(p) \/ GiveUpWaiting(p)
         \/ CreateTables(p) \/ MakeTokensUnique(p) \/ FillRows(p) \/ RebuildMessages(p)
         \/ AddDefaults(p) \/ AddPool(p) \/ EncryptSecrets(p) \/ MarkVersion(p)
         \/ FinishStart(p) \/ FailStart(p) \/ EndProgram(p)
    \/ \E b \in Mailboxes : ClearDuplicates(b)

MigrationSpec == MigrationInit /\ [][MigrationNext]_migrationVars

-----------------------------------------------------------------------------

Upgraded(d) ==
    /\ d.schema = Schema /\ d.filled /\ d.password = "hashed"
    /\ ~Duplicates(d.tokens) /\ \A b \in Mailboxes : d.tokens[b] # "blank"
    /\ \A a \in OldSecrets : d.secrets[a] \in {"none", "encrypted"}

\* Whatever fails, stops or starts at the same time, the file is either as
\* its owners left it or upgraded in full; it says which, with one record
\* of each attempt that ended and none of an attempt under way.
MigrationWhole ==
    /\ IF disk.version = Version THEN Upgraded(disk) ELSE Data(disk) = before
    /\ \A i \in DOMAIN disk.log :
         disk.log[i] = IF i = Len(disk.log) /\ disk.version = Version THEN "success" ELSE "failed"
    /\ disk.error <=> disk.log # <<>> /\ disk.log[Len(disk.log)] = "failed"
=============================================================================

---------------------------- MODULE ExportToken -----------------------------
(***************************************************************************)
(* The one-time tokens that open an export.  The administrator types the   *)
(* password again and gets a token bound to address and browser, as far as *)
(* the request names one; an export spends it in a transaction that takes  *)
(* the write lock before it reads.                                         *)
(***************************************************************************)
EXTENDS Integers

CONSTANTS Tokens,         \* tokens that can be issued
          Addresses,      \* where requests come from; get_client_ip always has one
          Agents,         \* their User-Agent headers, NoAgent among them
          NoAgent,        \* a request without that header
          ExportThreads,  \* requests served at the same time
          Unlocked        \* no request holds the write lock

ASSUME ExportTokenAssumption == Unlocked \notin ExportThreads /\ Addresses # {} /\ NoAgent \in Agents

VARIABLES granted,  \* the rows of export_verify_tokens: state, and for whom
          export,   \* the export requests: step, token and client
          writer,   \* the request inside its transaction
          opened    \* exports each token has opened, by client

exportVars == <<granted, export, writer, opened>>

\* What the code sees of who makes a request, and when it takes two for one: an
\* agent that either of them lacks is not compared.
Clients == [address : Addresses, agent : Agents]
SameClient(c, d) == c.address = d.address /\ (c.agent = d.agent \/ NoAgent \in {c.agent, d.agent})

ExportIdle == [step |-> "idle"]
Spending == [step : {"asked", "begun", "spend", "drop"}, token : Tokens, client : Clients]

ExportTokenTypeOK ==
    /\ granted \in [Tokens -> [is : {"unissued", "live", "expired", "gone"}, client : Clients]]
    /\ export \in [ExportThreads -> {ExportIdle} \cup Spending]
    /\ writer \in ExportThreads \cup {Unlocked}
    /\ opened \in [Tokens -> [Clients -> Nat]]

ExportTokenInit ==
    /\ granted = [k \in Tokens |-> [is |-> "unissued", client |-> CHOOSE c \in Clients : TRUE]]
    /\ export = [t \in ExportThreads |-> ExportIdle]
    /\ writer = Unlocked
    /\ opened = [k \in Tokens |-> [c \in Clients |-> 0]]

Takes(t, step) == export' = [export EXCEPT ![t].step = step]

\* After the right password: store the token, remove the expired ones.
IssueExportToken(k, c) ==
    /\ granted[k].is = "unissued"
    /\ writer = Unlocked
    /\ granted' = [j \in Tokens |->
                   IF j = k THEN [is |-> "live", client |-> c]
                   ELSE IF granted[j].is = "expired" THEN [granted[j] EXCEPT !.is = "gone"]
                   ELSE granted[j]]
    /\ UNCHANGED <<export, writer, opened>>

\* An export of all accounts, of some groups, or of one group.
AskExport(t, k, c) ==
    /\ export[t] = ExportIdle
    /\ granted[k].is # "unissued"
    /\ export' = [export EXCEPT ![t] = [step |-> "asked", token |-> k, client |-> c]]
    /\ UNCHANGED <<granted, writer, opened>>

\* Mutant: a plain BEGIN, which takes no lock.
BeginDeferred(t) ==
    /\ export[t].step = "asked"
    /\ Takes(t, "begun")
    /\ UNCHANGED <<granted, writer, opened>>

\* BEGIN IMMEDIATE.
BeginExport(t) ==
    /\ export[t].step = "asked"
    /\ writer = Unlocked
    /\ writer' = t
    /\ Takes(t, "begun")
    /\ UNCHANGED <<granted, opened>>

\* What the row says decides: refuse, remove an expired token, or spend it.
ReadToken(t) ==
    /\ export[t].step = "begun"
    /\ LET row == granted[export[t].token] IN
         \/ /\ row.is = "gone" \/ (row.is = "live" /\ ~SameClient(row.client, export[t].client))
            /\ export' = [export EXCEPT ![t] = ExportIdle]
            /\ writer' = Unlocked
         \/ row.is = "expired" /\ Takes(t, "drop") /\ UNCHANGED writer
         \/ /\ row.is = "live" /\ SameClient(row.client, export[t].client)
            /\ Takes(t, "spend") /\ UNCHANGED writer
    /\ UNCHANGED <<granted, opened>>

\* The token is deleted and the deletion committed before anything is sent.
DeleteToken(t) ==
    /\ export[t].step \in {"spend", "drop"}
    /\ granted' = [granted EXCEPT ![export[t].token].is = "gone"]
    /\ opened' = IF export[t].step = "spend"
                 THEN [opened EXCEPT ![export[t].token][export[t].client] = @ + 1]
                 ELSE opened
    /\ writer' = Unlocked
    /\ export' = [export EXCEPT ![t] = ExportIdle]

\* An error anywhere in the transaction rolls it back and refuses.
ExportErrs(t) ==
    /\ export[t] # ExportIdle
    /\ writer' = IF writer = t THEN Unlocked ELSE writer
    /\ export' = [export EXCEPT ![t] = ExportIdle]
    /\ UNCHANGED <<granted, opened>>

TokenExpires(k) ==
    /\ granted[k].is = "live"
    /\ granted' = [granted EXCEPT ![k].is = "expired"]
    /\ UNCHANGED <<export, writer, opened>>

ExportTokenNext ==
    \/ \E k \in Tokens : TokenExpires(k) \/ \E c \in Clients : IssueExportToken(k, c)
    \/ \E t \in ExportThreads :
         \/ \E k \in Tokens, c \in Clients : AskExport(t, k, c)
         \/ BeginExport(t) \/ ReadToken(t) \/ DeleteToken(t) \/ ExportErrs(t)

ExportTokenSpec == ExportTokenInit /\ [][ExportTokenNext]_exportVars

-----------------------------------------------------------------------------

\* Whatever requests present a token, from however many clients, it opens one
\* export at most, and none from another address than it was issued to or from
\* another browser, as far as both requests name theirs.
ExportedOnce ==
    \A k \in Tokens, c \in Clients : opened[k][c] > 0 =>
        /\ SameClient(granted[k].client, c)
        /\ opened[k][c] = 1
        /\ \A d \in Clients \ {c} : opened[k][d] = 0
=============================================================================

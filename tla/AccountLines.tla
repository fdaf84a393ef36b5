---------------------------- MODULE AccountLines ----------------------------
(***************************************************************************)
(* The text that accounts are imported from and exported to: one line an   *)
(* account, its fields separated by "----".  A line is the sequence of its *)
(* fields, trimmed.  It is read with the provider the administrator chose, *)
(* or by guessing it ("auto"), and an export writes lines that either way  *)
(* is meant to read back.                                                  *)
(*                                                                         *)
(* One provider other than Outlook stands for all that have a known server *)
(* and known domains.                                                      *)
(***************************************************************************)
EXTENDS Naturals, Sequences

CONSTANTS AddressFields,  \* what the first field may be: addresses, told by their domain
          ThirdFields,    \* what the third, fourth and fifth field may be
          FourthFields,
          FifthFields

VARIABLE transfer  \* one account on its way out of a text and into it again

\* An empty field is "", addresses are those of Outlook, of the known provider
\* and of others.
Ports == {"993", "143"}
Hosts == {"host", "live", "known_host"}
Routes == {"auto", "outlook", "known", "custom"}

AccountLine ==
    (UNION {AddressFields \X {"", "pw"},
            AddressFields \X {"", "pw"} \X ThirdFields,
            AddressFields \X {"", "pw"} \X ThirdFields \X FourthFields,
            AddressFields \X {"", "pw"} \X ThirdFields \X FourthFields \X FifthFields})
        \cup {<<a>> : a \in AddressFields}

Refused == [type |-> "error"]
OutlookAccount(l) ==
    [type |-> "outlook", email |-> l[1], password |-> l[2], id |-> l[3],
     token |-> SubSeq(l, 4, Len(l))]
ImapAccount(l, provider, host, port) ==
    [type |-> "imap", provider |-> provider, email |-> l[1], password |-> l[2],
     host |-> host, port |-> port]
TempAccount(l) == [type |-> "temp_mail", email |-> l[1]]

\* Outlook takes no password from a program.
BasicAuthTarget(email, host) == email = "at_outlook" \/ host = "live"

Blank(l, fields) == \E i \in fields : l[i] = ""

CustomAccount(l, host, port) ==
    IF Blank(l, {1, 2}) \/ host = "" \/ port \notin Ports \/ BasicAuthTarget(l[1], host)
    THEN Refused ELSE ImapAccount(l, "custom", host, port)

\* A refresh token may contain the separator.
OutlookLine(l) ==
    IF Blank(l, {1, 3}) \/ SubSeq(l, 4, Len(l)) = <<"">> THEN Refused ELSE OutlookAccount(l)

-----------------------------------------------------------------------------
(* Reading a line.                                                         *)

\* What the number of fields and the third one tell.
DetectLine(l, fallback) ==
    CASE Len(l) >= 5 /\ l[3] = "custom" -> CustomAccount(l, l[4], l[5])
      [] Len(l) = 4 /\ l[3] \in Hosts   -> CustomAccount(l, l[3], l[4])
      [] \/ Len(l) = 4 /\ l[3] \notin Hosts
         \/ Len(l) >= 5 /\ l[3] # "custom" -> OutlookLine(l)
      [] Len(l) = 3 ->
            IF Blank(l, {1, 2}) \/ l[3] # "known" THEN Refused
            ELSE ImapAccount(l, "known", "known_host", "993")
      [] Len(l) = 2 ->
            IF Blank(l, {1, 2}) \/ l[1] = "at_outlook" THEN Refused
            ELSE IF l[1] = "at_known" THEN ImapAccount(l, "known", "known_host", "993")
            ELSE IF fallback = "" THEN Refused
            ELSE ImapAccount(l, "custom", fallback, "993")
      [] Len(l) = 1 -> IF Blank(l, {1}) THEN Refused ELSE TempAccount(l)

KnownLine(l) ==
    IF \/ Len(l) < 2 \/ Blank(l, {1, 2} \cap DOMAIN l)
       \/ Len(l) >= 3 /\ l[3] \notin {"", "known"}
       \/ BasicAuthTarget(l[1], "known_host")
    THEN Refused ELSE ImapAccount(l, "known", "known_host", "993")

CustomLine(l, host) ==
    IF Len(l) < 2 THEN Refused
    ELSE IF Len(l) >= 5 /\ l[3] = "custom" THEN CustomAccount(l, l[4], l[5])
    ELSE IF Len(l) >= 4 THEN CustomAccount(l, l[3], l[4])
    ELSE CustomAccount(l, host, "993")

ReadLine(route, l, host) ==
    CASE route = "auto"    -> DetectLine(l, host)
      [] route = "outlook" -> IF Len(l) < 4 THEN Refused ELSE OutlookLine(l)
      [] route = "known"   -> KnownLine(l)
      [] route = "custom"  -> CustomLine(l, host)

\* Mutant: a server of one's own is written like a known one.
ExportThreeFields(a) ==
    CASE a.type = "outlook"   -> <<a.email, a.password, a.id>> \o a.token
      [] a.type = "temp_mail" -> <<a.email>>
      [] a.type = "imap"      -> <<a.email, a.password, a.provider>>

\* Writing it.
ExportLine(a) ==
    CASE a.type = "outlook"   -> <<a.email, a.password, a.id>> \o a.token
      [] a.type = "temp_mail" -> <<a.email>>
      [] a.type = "imap"      -> IF a.provider = "custom"
                                 THEN <<a.email, a.password, "custom", a.host, a.port>>
                                 ELSE <<a.email, a.password, a.provider>>

\* The export of one group has a line format of its own, without the server and
\* the password of an IMAP account.
GroupLine(a) ==
    IF a.type = "outlook" THEN ExportLine(a) ELSE <<a.email, "", "", "">>

\* The choice that fits an account, and guessing.
RoutesOf(a) ==
    CASE a.type = "outlook"   -> {"auto", "outlook"}
      [] a.type = "imap"      -> {"auto", a.provider}
      [] a.type = "temp_mail" -> {"auto"}

-----------------------------------------------------------------------------
NoTransfer == [stage |-> "none", account |-> Refused, text |-> <<>>, again |-> Refused]
AccountLinesInit == transfer = NoTransfer

ImportsLine(route, l, host) ==
    /\ transfer.stage = "none"
    /\ ReadLine(route, l, host) # Refused
    /\ transfer' = [transfer EXCEPT !.stage = "stored", !.account = ReadLine(route, l, host)]

Exports ==
    /\ transfer.stage = "stored"
    /\ transfer' = [transfer EXCEPT !.stage = "exported", !.text = ExportLine(transfer.account)]

ExportsGroup ==
    /\ transfer.stage = "stored"
    /\ transfer.account.type # "temp_mail"
    /\ transfer' = [transfer EXCEPT !.stage = "exported", !.text = GroupLine(transfer.account)]

ImportsAgain(route, host) ==
    /\ transfer.stage = "exported"
    /\ route \in RoutesOf(transfer.account)
    /\ transfer' = [transfer EXCEPT !.stage = "read", !.again = ReadLine(route, transfer.text, host)]

AccountLinesNext ==
    \/ \E route \in Routes, l \in AccountLine, host \in {"", "host", "live"} : ImportsLine(route, l, host)
    \/ Exports
    \/ ExportsGroup
    \/ \E route \in Routes, host \in {"", "host"} : ImportsAgain(route, host)

AccountLinesSpec == AccountLinesInit /\ [][AccountLinesNext]_transfer

\* What a line may hold: what was read, and what an export writes of itself.
LineFields == AddressFields \cup ThirdFields \cup FourthFields \cup FifthFields
            \cup {"", "pw", "custom", "known", "host", "live"} \cup Ports

AccountLinesTypeOK ==
    /\ transfer.stage \in {"none", "stored", "exported", "read"}
    /\ transfer.stage \in {"stored", "exported"} => transfer.account # Refused
    /\ transfer.text \in Seq(LineFields)

\* A password login at Outlook, refused on every route but auto's: there a line
\* of two fields takes the fall-back server, one of three any address.
LetIn(a) == a.type = "imap" /\ BasicAuthTarget(a.email, a.host)

\* Guessing takes a client id that looks like a host name for a server.
LooksElse(a) == a.type = "outlook" /\ (a.id \in Hosts \/ a.id = "custom")

\* A group's export cannot bring an IMAP account back.
Unreadable == Len(transfer.text) = 4 /\ transfer.text[3] = ""

\* An account that was imported, by any choice, and exported is imported again
\* as it was: of the same kind, with the same provider, server and secrets.  The
\* line a group's export writes for an IMAP account is at least refused.
ReadsBack ==
    (transfer.stage = "read" /\ ~LetIn(transfer.account) /\ ~LooksElse(transfer.account))
        => IF Unreadable THEN transfer.again = Refused ELSE transfer.again = transfer.account
=============================================================================

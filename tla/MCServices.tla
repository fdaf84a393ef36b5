----------------------------- MODULE MCServices -----------------------------
(***************************************************************************)
(* The request-driven services, checked in one run.  They share no rows    *)
(* and no steps here, so a behaviour belongs to one of them: part says to  *)
(* which, and the others keep one initial state.                           *)
(***************************************************************************)
EXTENDS MailRead, Extractor, AccountLines, Accounts, Login, ExportToken,
        Settings, Migration

VARIABLE part   \* the service this behaviour is of

servicesVars == <<mailReadVars, extraction, transfer, accountsVars, loginVars,
                  exportVars, settingsVars, migrationVars, part>>

\* The imports: one address, two, and one twice.
MCImportLists == {<<1>>, <<1, 2>>, <<1, 1>>}

MCAddressFields == {"", "at_outlook", "at_known", "elsewhere"}
MCThirdFields == {"", "id", "custom", "known", "outlook", "host", "live"}
MCFourthFields == {"", "token", "host", "live", "993", "143"}
MCFifthFields == {"", "token", "993", "143"}

Parts == {"mail read", "extractor", "lines", "accounts", "login", "export",
          "settings", "migration"}

\* Fixed values for the parts with several initial states.
Elsewhere ==
    /\ part # "mail read" => kind = "outlook"
    /\ part # "migration" => disk = NewFile

ServicesInit ==
    /\ part \in Parts
    /\ MailReadInit /\ ExtractorInit /\ AccountLinesInit /\ AccountsInit
    /\ LoginInit /\ ExportTokenInit /\ SettingsInit /\ MigrationInit
    /\ Elsewhere

ServicesNext ==
    /\ UNCHANGED part
    /\ \/ /\ part = "mail read" /\ MailReadNext
          /\ UNCHANGED <<extraction, transfer, accountsVars, loginVars,
                         exportVars, settingsVars, migrationVars>>
       \/ /\ part = "extractor" /\ ExtractorNext
          /\ UNCHANGED <<mailReadVars, transfer, accountsVars, loginVars,
                         exportVars, settingsVars, migrationVars>>
       \/ /\ part = "lines" /\ AccountLinesNext
          /\ UNCHANGED <<mailReadVars, extraction, accountsVars, loginVars,
                         exportVars, settingsVars, migrationVars>>
       \/ /\ part = "accounts" /\ AccountsNext
          /\ UNCHANGED <<mailReadVars, extraction, transfer, loginVars,
                         exportVars, settingsVars, migrationVars>>
       \/ /\ part = "login" /\ LoginNext
          /\ UNCHANGED <<mailReadVars, extraction, transfer, accountsVars,
                         exportVars, settingsVars, migrationVars>>
       \/ /\ part = "export" /\ ExportTokenNext
          /\ UNCHANGED <<mailReadVars, extraction, transfer, accountsVars,
                         loginVars, settingsVars, migrationVars>>
       \/ /\ part = "settings" /\ SettingsNext
          /\ UNCHANGED <<mailReadVars, extraction, transfer, accountsVars,
                         loginVars, exportVars, migrationVars>>
       \/ /\ part = "migration" /\ MigrationNext
          /\ UNCHANGED <<mailReadVars, extraction, transfer, accountsVars,
                         loginVars, exportVars, settingsVars>>

ServicesSpec == ServicesInit /\ [][ServicesNext]_servicesVars

TypeOK ==
    /\ part \in Parts
    /\ MailReadTypeOK /\ ExtractorTypeOK /\ AccountLinesTypeOK /\ AccountsTypeOK
    /\ LoginTypeOK /\ ExportTokenTypeOK /\ SettingsTypeOK /\ MigrationTypeOK
=============================================================================

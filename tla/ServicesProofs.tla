--------------------------- MODULE ServicesProofs ---------------------------
(***************************************************************************)
(* The request-driven services together: the program that runs them is an  *)
(* implementation of each, so what is proved of a service holds of it, for *)
(* all values of the constants of all of them.                             *)
(***************************************************************************)
EXTENDS MCServices, MailReadProofs, AccountsProofs, AdminProofs

\* A step of the program is to each service one of its own or none.
LEMMA ServicesSteps ==
    ASSUME [ServicesNext]_servicesVars
    PROVE  /\ UNCHANGED part
           /\ [MailReadNext]_mailReadVars /\ [ExtractorNext]_extraction
           /\ [AccountLinesNext]_transfer /\ [AccountsNext]_accountsVars
           /\ [LoginNext]_loginVars /\ [ExportTokenNext]_exportVars
           /\ [SettingsNext]_settingsVars /\ [MigrationNext]_migrationVars
<1>1. CASE UNCHANGED servicesVars
  BY <1>1 DEF servicesVars
<1>2. CASE ServicesNext
  BY <1>2 DEF ServicesNext
<1> QED
  BY <1>1, <1>2

\* The program as a whole behaves as each service is specified to.
THEOREM ServicesImplement ==
    ServicesSpec => /\ MailReadSpec /\ ExtractorSpec /\ AccountLinesSpec /\ AccountsSpec
                    /\ LoginSpec /\ ExportTokenSpec /\ SettingsSpec /\ MigrationSpec
<1>1. ServicesInit => /\ MailReadInit /\ ExtractorInit /\ AccountLinesInit /\ AccountsInit
                      /\ LoginInit /\ ExportTokenInit /\ SettingsInit /\ MigrationInit
  BY DEF ServicesInit
<1>2. [ServicesNext]_servicesVars =>
        /\ [MailReadNext]_mailReadVars /\ [ExtractorNext]_extraction
        /\ [AccountLinesNext]_transfer /\ [AccountsNext]_accountsVars
        /\ [LoginNext]_loginVars /\ [ExportTokenNext]_exportVars
        /\ [SettingsNext]_settingsVars /\ [MigrationNext]_migrationVars
  BY ServicesSteps
<1> QED
  BY <1>1, <1>2, PTL
  DEF ServicesSpec, MailReadSpec, ExtractorSpec, AccountLinesSpec, AccountsSpec, LoginSpec,
      ExportTokenSpec, SettingsSpec, MigrationSpec

\* All services keep the types of their state.
THEOREM ServicesTypeCorrect == ServicesSpec => []TypeOK
<1>1. ServicesSpec => [](part \in Parts)
  <2>1. ServicesInit => part \in Parts
    BY DEF ServicesInit
  <2>2. part \in Parts /\ [ServicesNext]_servicesVars => (part \in Parts)'
    BY ServicesSteps
  <2> QED
    BY <2>1, <2>2, PTL DEF ServicesSpec
<1>2. ExtractorInv => ExtractorTypeOK
  BY DEF ExtractorInv
<1>3. LoginInv => LoginTypeOK
  BY DEF LoginInv
<1>4. ExportInv => ExportTokenTypeOK
  BY DEF ExportInv
<1>5. /\ part \in Parts /\ MailReadTypeOK /\ ExtractorTypeOK /\ AccountLinesTypeOK
      /\ AccountsTypeOK /\ LoginTypeOK /\ ExportTokenTypeOK /\ SettingsTypeOK /\ MigrationTypeOK
      => TypeOK
  BY DEF TypeOK
<1> QED
  BY <1>1, <1>2, <1>3, <1>4, <1>5, ServicesImplement, TypeCorrect, ExtractorInvariant, LinesTyped,
     LinesInvariant, AccountsInOrder, LoginInvariant, ExportInvariant, SettingsTypeCorrect,
     MigrationTypeCorrect, PTL

\* Whatever requests come to whichever service, the mail shown is the one
\* meant, codes are the mail's, accounts read back, reports are true, accounts
\* are where the import put them, logins are limited, tokens open one export,
\* jobs follow the settings and the file is whole.
THEOREM ServicesAreRight ==
    ServicesSpec => /\ []DetailIsTheMail /\ []SummaryKeepsUp /\ []ExtractionIsRight /\ []ReadsBack
                    /\ ReportIsTrue /\ PlacedByProvider
                    /\ []LoginFailuresBounded /\ []ExportedOnce
                    /\ []JobsMatchSettings /\ []MigrationWhole
BY ServicesImplement, ShownIsMeant, SummaryIsLatest, ExtractionsAreRight, LinesReadBack,
   ReportsAreTrue, AccountsArePlaced, LoginLimited, ExportOnce, JobsFollowSettings, FileIsWhole, PTL
=============================================================================

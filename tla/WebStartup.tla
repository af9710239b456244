----------------------------- MODULE WebStartup -----------------------------
(***************************************************************************)
(* vod-web opens its port once its migrations are done: the requests of    *)
(* Accounts happen while the Web process of Migrations is up, and stop     *)
(* with it.  Other processes migrate at any time.  An installation without *)
(* PostgreSQL has nothing to migrate.                                      *)
(***************************************************************************)
EXTENDS Accounts, Migrations

CONSTANT Web   \* the process that is vod-web

ASSUME StartupAssumption == Web \in Processes

startupVars == <<accountVars, migrationVars>>

StartupInit == AccountInit /\ MigrationInit

Serving == setup.accounts = "file" \/ proc[Web].phase = "up"

\* The steps of a migration touch nothing that a request reads or writes, so
\* that it is enough to take them between two requests.
StartupNext ==
  \/ /\ Serving
     /\ (\E tab \in Tabs : AccountStep(tab)) \/ (\E b \in Browsers : Visit(b)) \/ Tick
     /\ UNCHANGED migrationVars
  \/ /\ setup.accounts = "file"
     /\ Restart
     /\ UNCHANGED migrationVars
  \/ /\ setup.accounts = "postgres"
     /\ \A tab \in Tabs : ~Busy(tab)
     /\ \E p \in Processes : MigrationStep(p) \/ (p # Web /\ Stop(p))
     /\ UNCHANGED accountVars
  \/ /\ setup.accounts = "postgres"
     /\ Stop(Web)
     /\ Restart

StartupSpec == StartupInit /\ [][StartupNext]_startupVars
=============================================================================

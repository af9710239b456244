----------------------------- MODULE Migrations -----------------------------
(***************************************************************************)
(* How the processes of an installation migrate the PostgreSQL schema when *)
(* they start: vod-web, vod-worker and `vodctl db migrate` take one        *)
(* advisory lock on a connection of their own, and run every migration     *)
(* that is not recorded, each in a transaction that also records it.       *)
(***************************************************************************)
EXTENDS Naturals, FiniteSets

CONSTANTS
  Processes,  \* the processes that migrate
  Known,      \* how many versions the files of each process have
  None,
  MaxStops    \* bound on failures and stops of processes

ASSUME MigrationAssumption ==
  /\ Known \in [Processes -> Nat]
  /\ None \notin Processes
  /\ MaxStops \in Nat

VARIABLES
  recorded,  \* the versions in schema_migrations
  executed,  \* history: how often the SQL of a version was committed
  holder,    \* who holds the advisory lock
  proc,      \* where every process is, and its next version
  stops

migrationVars == <<recorded, executed, holder, proc, stops>>

Versions == UNION {1..Known[p] : p \in Processes}

\* "migrate": it holds the lock, between two transactions; "run": it found
\* its next version missing and runs its SQL.
Phases == {"down", "wait", "migrate", "run", "up"}
Process == [phase : Phases, next : Nat]
Down == [phase |-> "down", next |-> 1]

MigrationInit ==
  /\ recorded = {}
  /\ executed = [v \in Versions |-> 0]
  /\ holder = None
  /\ proc = [p \in Processes |-> Down]
  /\ stops = 0

\* The process starts and asks for the lock.
Start(p) ==
  /\ proc[p].phase = "down"
  /\ proc' = [proc EXCEPT ![p].phase = "wait"]
  /\ UNCHANGED <<recorded, executed, holder, stops>>

\* pg_advisory_lock.
Acquire(p) ==
  /\ proc[p].phase = "wait"
  /\ holder = None
  /\ holder' = p
  /\ proc' = [proc EXCEPT ![p].phase = "migrate"]
  /\ UNCHANGED <<recorded, executed, stops>>

\* Mutant: the first recorded version ends the list.
CheckFirst(p) ==
  /\ proc[p].phase = "migrate"
  /\ proc[p].next <= Known[p]
  /\ proc' = IF proc[p].next \in recorded
             THEN [proc EXCEPT ![p].next = Known[p] + 1]
             ELSE [proc EXCEPT ![p].phase = "run"]
  /\ UNCHANGED <<recorded, executed, holder, stops>>

\* A transaction begins by looking its version up; a recorded one is skipped.
\* Version 1 makes the table: without it nothing is recorded.
Check(p) ==
  /\ proc[p].phase = "migrate"
  /\ proc[p].next <= Known[p]
  /\ proc' = IF proc[p].next \in recorded
             THEN [proc EXCEPT ![p].next = @ + 1]
             ELSE [proc EXCEPT ![p].phase = "run"]
  /\ UNCHANGED <<recorded, executed, holder, stops>>

\* What a commit does to the database.
Committed(v) ==
  /\ recorded' = recorded \cup {v}
  /\ executed' = [executed EXCEPT ![v] = @ + 1]

\* The SQL runs and its version is recorded, in one transaction.
Run(p) ==
  /\ proc[p].phase = "run"
  /\ Committed(proc[p].next)
  /\ proc' = [proc EXCEPT ![p] = [phase |-> "migrate", next |-> @.next + 1]]
  /\ UNCHANGED <<holder, stops>>

\* The lock is released and the process begins its work.
Release(p) ==
  /\ proc[p].phase = "migrate"
  /\ proc[p].next > Known[p]
  /\ holder' = None
  /\ proc' = [proc EXCEPT ![p] = [phase |-> "up", next |-> 1]]
  /\ UNCHANGED <<recorded, executed, stops>>

\* A statement fails and the process exits, or it dies: its connection and
\* the lock go with it, and so does its transaction, unless only the answer
\* of the commit was lost.
Stop(p) ==
  /\ stops < MaxStops
  /\ stops' = stops + 1
  /\ proc[p].phase # "down"
  /\ \/ UNCHANGED <<recorded, executed>>
     \/ proc[p].phase = "run" /\ Committed(proc[p].next)
  /\ proc' = [proc EXCEPT ![p] = Down]
  /\ holder' = IF holder = p THEN None ELSE holder

MigrationStep(p) ==
  \/ Start(p) \/ Acquire(p) \/ Check(p) \/ Run(p) \/ Release(p)

MigrationNext == \E p \in Processes : MigrationStep(p) \/ Stop(p)

MigrationSpec == MigrationInit /\ [][MigrationNext]_migrationVars

-----------------------------------------------------------------------------
\* Every variable keeps values of its kind.
MigrationTypeOK ==
  /\ recorded \subseteq Versions
  /\ executed \in [Versions -> Nat]
  /\ holder \in Processes \cup {None}
  /\ proc \in [Processes -> Process]
  /\ stops \in 0..MaxStops

\* Whoever migrates holds the lock, and nobody else: no process waits for a
\* lock that a dead one left behind (ApplyMigrations).
MigratorsHold ==
  \A p \in Processes : proc[p].phase \in {"migrate", "run"} <=> holder = p

\* A migration is committed at most once, by whichever process, and recorded
\* if and only if it was, although processes start together, die and lose the
\* answers of their commits (applyMigration).
EachMigrationRunsOnce ==
  \A v \in Versions : executed[v] = IF v \in recorded THEN 1 ELSE 0

\* Nobody serves on a schema that lacks one of its migrations, and none was
\* run before an earlier one (ApplyMigrations, LoadMigrations).
RunningIsMigrated ==
  /\ \A p \in Processes : proc[p].phase = "up" => 1..Known[p] \subseteq recorded
  /\ \A v \in recorded : 1..v \subseteq recorded

\* What the proof needs besides: who is at a version has passed the earlier.
PassedAreRecorded ==
  \A p \in Processes :
    /\ proc[p].next \in 1..(Known[p] + 1)
    /\ 1..(proc[p].next - 1) \subseteq recorded
    /\ proc[p].phase = "run" => proc[p].next <= Known[p] /\ proc[p].next \notin recorded

\* Processes of any versions migrate one database as one of them would, whoever
\* starts, dies or fails when (ApplyMigrations): the inductive invariant.
MigrationInv ==
  /\ MigrationTypeOK
  /\ MigratorsHold
  /\ EachMigrationRunsOnce
  /\ RunningIsMigrated
  /\ PassedAreRecorded
=============================================================================

----------------------------- MODULE Providers ------------------------------
(***************************************************************************)
(* aurweb-aurblup: the table OfficialProviders follows the repositories of *)
(* the distribution.                                                       *)
(*                                                                         *)
(* A run reads one repository after the other.  Then, in a transaction, it *)
(* reads the table, compares, and writes the differences at the commit.    *)
(* A provider stands for a pair of a package and a name that it provides.  *)
(*                                                                         *)
(* An operator whose name ends in _Bug is the definition that follows it,  *)
(* with a mistake that the properties at the end have to catch.  Nothing   *)
(* uses it.                                                                *)
(***************************************************************************)
EXTENDS Naturals, Sequences

CONSTANTS
    Provider,
    SyncDbs,      \* sync-dbs: the repositories, in the order in which they are read
    NoRepo,
    Run,          \* runs of cron
    MaxChange,    \* bound: changes of the repositories
    MaxFail       \* bound: repositories that cannot be read

Repo == {SyncDbs[i] : i \in 1..Len(SyncDbs)}

\* Assumptions about the constants, which MCCron makes for its instances.
RepoAssumption == NoRepo \notin Repo /\ SyncDbs \in Seq(Repo) /\ SyncDbs # <<>>
BoundAssumption == MaxChange \in Nat /\ MaxFail \in Nat

VARIABLES
    mirror,   \* the repositories in which a provider is
    table,    \* OfficialProviders: the Repo of a provider
    run,
    changes, fails,
    forgotten \* history: providers that were deleted while they were somewhere
              \* during the whole run

vars == <<mirror, table, run, changes, fails, forgotten>>

Row == Repo \cup {NoRepo}
Nowhere == [p \in Provider |-> NoRepo]
Idle == [pc |-> "idle", next |-> 1, found |-> Nowhere, old |-> Nowhere, quiet |-> TRUE, kept |-> {}]

TypeOK ==
    /\ mirror \in [Provider -> SUBSET Repo]
    /\ table \in [Provider -> Row]
    /\ \A r \in Run :
         /\ run[r] \in [pc : {"idle", "sync", "compare", "commit"}, next : 1..Len(SyncDbs) + 1,
                        found : [Provider -> Row], old : [Provider -> Row],
                        quiet : BOOLEAN, kept : SUBSET Provider]
         /\ run[r].pc = "sync" <=> run[r].next \in 1..Len(SyncDbs) /\ run[r].pc # "idle"
    /\ changes \in 0..MaxChange /\ fails \in 0..MaxFail
    /\ forgotten \subseteq Provider

Init ==
    /\ mirror \in [Provider -> SUBSET Repo]
    /\ table = Nowhere
    /\ run = [r \in Run |-> Idle]
    /\ changes = 0 /\ fails = 0 /\ forgotten = {}

-----------------------------------------------------------------------------
(* The repositories *)

\* Runs in progress see the change or not, depending on what they have read.
Change(p, repos) ==
    /\ changes < MaxChange /\ repos # mirror[p]
    /\ changes' = changes + 1
    /\ mirror' = [mirror EXCEPT ![p] = repos]
    /\ run' = [r \in Run |-> [run[r] EXCEPT !.quiet = FALSE,
                                            !.kept = IF repos = {} THEN @ \ {p} ELSE @]]
    /\ UNCHANGED <<table, fails, forgotten>>

\* A package that moves is added to its new repository before it is removed
\* from the old one.
Add(p, r) == Change(p, mirror[p] \cup {r})
Remove(p, r) == Change(p, mirror[p] \ {r})

-----------------------------------------------------------------------------
(* A run *)

Start(r) ==
    /\ run[r].pc = "idle"
    /\ run' = [run EXCEPT ![r] = [Idle EXCEPT !.pc = "sync",
                                              !.kept = {p \in Provider : mirror[p] # {}}]]
    /\ UNCHANGED <<mirror, table, changes, fails, forgotten>>

\* A provider that is in several repositories belongs to the last one.
Sync(r) == LET repo == SyncDbs[run[r].next] IN
    /\ run[r].pc = "sync"
    /\ run' = [run EXCEPT ![r].next = @ + 1,
                          ![r].pc = IF run[r].next = Len(SyncDbs) THEN "compare" ELSE "sync",
                          ![r].found = [p \in Provider |-> IF repo \in mirror[p] THEN repo ELSE @[p]]]
    /\ UNCHANGED <<mirror, table, changes, fails, forgotten>>

\* The repository cannot be read, or another run holds the lock of the
\* download, which ends the run.
SyncFail(r) ==
    /\ run[r].pc = "sync" /\ fails < MaxFail
    /\ fails' = fails + 1
    /\ run' = [run EXCEPT ![r] = Idle]
    /\ UNCHANGED <<mirror, table, changes, forgotten>>

\* The table as the transaction sees it.
Compare(r) ==
    /\ run[r].pc = "compare"
    /\ run' = [run EXCEPT ![r].pc = "commit", ![r].old = table]
    /\ UNCHANGED <<mirror, table, changes, fails, forgotten>>

Deleted(r) == {p \in Provider : run[r].found[p] = NoRepo /\ run[r].old[p] # NoRepo}
Created(r) == {p \in Provider : run[r].found[p] # NoRepo /\ run[r].old[p] = NoRepo}

Moved_Bug(r) == {} \* rows stay as they were created

Moved(r) == {p \in Provider : run[r].found[p] # NoRepo /\ run[r].old[p] \notin {NoRepo, run[r].found[p]}}

\* A second row of a provider, or a row to be moved that is gone, is an error
\* that undoes all.
Conflicts(r) == \/ \E p \in Created(r) : table[p] # NoRepo
                \/ \E p \in Moved(r) : table[p] = NoRepo

Commit(r) ==
    /\ run[r].pc = "commit" /\ ~ Conflicts(r)
    /\ table' = [p \in Provider |-> IF p \in Deleted(r) THEN NoRepo
                                    ELSE IF p \in Created(r) \cup Moved(r) THEN run[r].found[p]
                                    ELSE table[p]]
    /\ forgotten' = forgotten \cup (Deleted(r) \cap run[r].kept)
    /\ run' = [run EXCEPT ![r] = Idle]
    /\ UNCHANGED <<mirror, changes, fails>>

CommitFail(r) ==
    /\ run[r].pc = "commit" /\ Conflicts(r)
    /\ run' = [run EXCEPT ![r] = Idle]
    /\ UNCHANGED <<mirror, table, changes, fails, forgotten>>

Step(r) == Start(r) \/ Sync(r) \/ Compare(r) \/ Commit(r) \/ CommitFail(r)

Next ==
    \/ \E p \in Provider, r \in Repo : Add(p, r) \/ Remove(p, r)
    \/ \E r \in Run : Step(r) \/ SyncFail(r)

Spec == Init /\ [][Next]_vars

-----------------------------------------------------------------------------
(* Properties.                                                             *)

\* The last of the repositories that have the provider.
Last(p) == IF mirror[p] = {} THEN NoRepo
           ELSE SyncDbs[CHOOSE i \in 1..Len(SyncDbs) :
                    SyncDbs[i] \in mirror[p] /\ \A j \in i + 1..Len(SyncDbs) : SyncDbs[j] \notin mirror[p]]

\* The table is as the repositories are.
Right == \A p \in Provider : table[p] = Last(p)

\* A run during which the repositories do not change leaves the table as they
\* are (_main).
StepIsRight == \A r \in Run :
    run[r].pc = "commit" /\ run'[r].pc = "idle" /\ run[r].quiet => Right'

\* A provider that is in some repository during a whole run is not deleted by
\* it (_main).
NothingIsForgotten == forgotten = {}
=============================================================================

----------------------------- MODULE GitArchive -----------------------------
(***************************************************************************)
(* aurweb-git-archive: data of all packages, queried from the database in  *)
(* autocommit mode, is written to the files of a work tree and committed.  *)
(* A run may be killed at any step, and cron may start another one before  *)
(* it has ended.                                                           *)
(*                                                                         *)
(* What a file says is what each of the queries it is made from returned:  *)
(* the packages, their relations and keywords, and their open requests are *)
(* three queries.  The specs users, pkgbases and pkgnames are the case of  *)
(* one query and one file.                                                 *)
(*                                                                         *)
(* An operator whose name ends in _Bug is the definition that follows it,  *)
(* with a mistake that the properties at the end have to catch.  Nothing   *)
(* uses it.                                                                *)
(***************************************************************************)
EXTENDS Naturals, Sequences, FiniteSets

CONSTANTS
    Run,          \* processes that cron may start
    Output,       \* the files of the spec, in the order in which they are written
    Queries,      \* how many queries the spec makes
    MaxVersion,   \* bound: changes of the database
    Value,        \* what a query of each version returns
    MaxCommit,    \* bound: commits
    MaxCrash      \* bound: runs that are killed

ASSUME SpecAssumption ==
    /\ Len(Output) \in Nat \ {0} /\ Queries \in Nat \ {0}
    /\ \A i, j \in 1..Len(Output) : Output[i] = Output[j] => i = j
\* A version may say again what an earlier one said.
ASSUME ValueAssumption == \A v \in 1..MaxVersion : Value[v] \in Nat \ {0}
ASSUME BoundAssumption == MaxVersion \in Nat \ {0} /\ MaxCommit \in Nat /\ MaxCrash \in Nat

VARIABLES
    version,      \* of the database
    work,         \* the work tree
    index,        \* the index of git, which the next commit is made of
    commits,      \* the history of the branch, oldest first
    run,
    crashes

vars == <<version, work, index, commits, run, crashes>>

File == {Output[i] : i \in 1..Len(Output)}

Said(n) == {Value[v] : v \in 1..n}
Data == [1..Queries -> Said(MaxVersion)]
\* A file that is not there, is not written to the end, or was written by
\* two runs at once.
None == <<>>
Partial == <<0>>
Torn == <<0, 0>>
Content == Data \cup {None, Partial, Torn}
Empty == [f \in File |-> None]

Resting == [pc |-> "rest", data |-> <<>>, next |-> 1, tree |-> Empty, base |-> 0]

TypeOK ==
    /\ version \in 1..MaxVersion
    /\ work \in [File -> Content] /\ index \in [File -> Content]
    /\ Len(commits) <= MaxCommit /\ \A i \in 1..Len(commits) : commits[i] \in [File -> Content]
    /\ \A r \in Run :
         /\ run[r].pc \in {"rest", "query", "open", "write", "status", "add", "base", "commit"}
         /\ \A i \in 1..Len(run[r].data) : run[r].data[i] \in Said(version)
         /\ run[r].pc \in {"open", "write"} => Len(run[r].data) = Queries
         /\ run[r].next \in 1..Len(Output) /\ run[r].base \in 0..Len(commits)
         /\ run[r].tree \in [File -> Content]
    /\ crashes \in 0..MaxCrash

Init ==
    /\ version = 1
    /\ work = Empty /\ index = Empty /\ commits = <<>>
    /\ run = [r \in Run |-> Resting]
    /\ crashes = 0

LastTree == IF commits = <<>> THEN Empty ELSE commits[Len(commits)]
End(r) == run' = [run EXCEPT ![r] = Resting]

-----------------------------------------------------------------------------
(* A run *)

Start(r) ==
    /\ run[r].pc = "rest"
    /\ run' = [run EXCEPT ![r].pc = "query"]
    /\ UNCHANGED <<version, work, index, commits, crashes>>

\* Spec.generate: the next query sees the database as it is now.
Query(r) ==
    /\ run[r].pc = "query"
    /\ run' = [run EXCEPT ![r].data = Append(@, Value[version]),
                          ![r].pc = IF Len(run[r].data) + 1 = Queries THEN "open" ELSE @]
    /\ UNCHANGED <<version, work, index, commits, crashes>>

\* main opens the next file, which empties it.
Open(r) ==
    /\ run[r].pc = "open"
    /\ work' = [work EXCEPT ![Output[run[r].next]] = Partial]
    /\ run' = [run EXCEPT ![r].pc = "write"]
    /\ UNCHANGED <<version, index, commits, crashes>>

Shared(r) == \E q \in Run \ {r} : run[q].pc = "write" /\ run[q].next = run[r].next

\* main writes it.  When two runs write one file, it may be a mix of both.
Write(r) ==
    /\ run[r].pc = "write"
    /\ \E c \in {run[r].data} \cup (IF Shared(r) THEN {Torn} ELSE {}) :
         work' = [work EXCEPT ![Output[run[r].next]] = c]
    /\ run' = IF run[r].next = Len(Output) THEN [run EXCEPT ![r].pc = "status"]
              ELSE [run EXCEPT ![r].pc = "open", ![r].next = @ + 1]
    /\ UNCHANGED <<version, index, commits, crashes>>

Status_Bug(r) == \* every run commits
    /\ run[r].pc = "status"
    /\ run' = [run EXCEPT ![r].pc = "add"]
    /\ UNCHANGED <<version, work, index, commits, crashes>>

\* update_repository: nothing is to do if the last commit, the index and the
\* work tree are alike.
Status(r) ==
    /\ run[r].pc = "status"
    /\ IF index = LastTree /\ work = index THEN End(r)
       ELSE run' = [run EXCEPT ![r].pc = "add"]
    /\ UNCHANGED <<version, work, index, commits, crashes>>

\* update_repository: the work tree goes to the index, which is written, and
\* its tree is that of the next commit.
Add(r) ==
    /\ run[r].pc = "add"
    /\ index' = work
    /\ run' = [run EXCEPT ![r].pc = "base", ![r].tree = work]
    /\ UNCHANGED <<version, work, commits, crashes>>

\* update_repository: the last commit becomes the parent of the next.
Parent(r) ==
    /\ run[r].pc = "base" /\ Len(commits) < MaxCommit
    /\ run' = [run EXCEPT ![r].pc = "commit", ![r].base = Len(commits)]
    /\ UNCHANGED <<version, work, index, commits, crashes>>

CommitNow_Bug(r) == \* after each file
    /\ run[r].pc \in {"open", "commit"} /\ work # LastTree /\ Len(commits) < MaxCommit
    /\ commits' = Append(commits, work)
    /\ IF run[r].pc = "commit" THEN End(r) ELSE UNCHANGED run
    /\ UNCHANGED <<version, work, index, crashes>>

CommitOnce_Bug(r) == \* the branch is only made once
    /\ run[r].pc = "commit"
    /\ IF commits = <<>> THEN commits' = <<run[r].tree>> ELSE UNCHANGED commits
    /\ End(r)
    /\ UNCHANGED <<version, work, index, crashes>>

\* update_repository, create_commit: a parent that is not the last commit any
\* more is an error of libgit2.
CommitNow(r) ==
    /\ run[r].pc = "commit"
    /\ commits' = IF run[r].base = Len(commits) THEN Append(commits, run[r].tree) ELSE commits
    /\ End(r)
    /\ UNCHANGED <<version, work, index, crashes>>

-----------------------------------------------------------------------------
(* The world around *)

Change ==
    /\ version < MaxVersion /\ version' = version + 1
    /\ UNCHANGED <<work, index, commits, run, crashes>>

\* Not while libgit2 writes the index or the branch, which it does aside, into
\* a lock file, and then renames.
Crash(r) ==
    /\ run[r].pc # "rest" /\ crashes < MaxCrash
    /\ crashes' = crashes + 1 /\ End(r)
    /\ UNCHANGED <<version, work, index, commits>>

Step(r) ==
    Start(r) \/ Query(r) \/ Open(r) \/ Write(r) \/ Status(r) \/ Add(r) \/ Parent(r) \/ CommitNow(r)

Next == Change \/ \E r \in Run : Step(r) \/ Crash(r)

Spec == Init /\ [][Next]_vars

-----------------------------------------------------------------------------
(* Properties.                                                             *)

\* The files of a commit are written from the same data and to the end (one
\* commit after all files are written, git_archive.main).
FilesAgree == \A i \in 1..Len(commits) : \E d \in Data : \A f \in File : commits[i][f] = d

\* What a file of a commit says is true of one version of the database
\* (the queries of Spec.generate).
DataAgree == \A i \in 1..Len(commits) : \A f \in File :
    \A a, b \in 1..Len(commits[i][f]) : commits[i][f][a] = commits[i][f][b]

\* A run that is killed, or refused, after it has written the index and before
\* its commit leaves an index ahead of the branch, which is a change for the
\* next status, even if that run comes to the files of the last commit: then
\* it commits them again.  Commits that repeat the one before are no more than
\* the runs that were killed (update_repository, while one run works).
RepeatedAreOfKills ==
    Cardinality({i \in 1..Len(commits) - 1 : commits[i + 1] = commits[i]}) <= crashes

\* The last commit is of the last version; it comes to be, whatever was killed
\* (aurweb-git-archive, started again and again).
UpToDate == commits # <<>> /\ \A f \in File : LastTree[f] = [q \in 1..Queries |-> Value[version]]
=============================================================================

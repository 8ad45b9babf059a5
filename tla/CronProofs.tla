----------------------------- MODULE CronProofs -----------------------------
(***************************************************************************)
(* Proofs about four of the scripts that cron starts.  GitArchive: while   *)
(* only one run works, however often it is killed, the files of a commit   *)
(* are of the same data, and no more commits repeat the one before them    *)
(* than runs were killed.                                                  *)
(* AccountMaint: an account is mailed once per token TTL, and none is      *)
(* deleted that was not mailed.  Archives: while only one run works, what  *)
(* can be downloaded is whole, and if it is not killed of one snapshot.    *)
(* Providers: while only one run works, it leaves the table as the         *)
(* repositories are.  As in MCCron the runs of the last three are called   *)
(* process, for GitArchive has a variable run, and so are the versions of  *)
(* the database and the kills of Archives database and killed.             *)
(***************************************************************************)
EXTENDS GitArchive, FiniteSetTheorems, SequenceTheorems, TLAPS

CONSTANTS
    User, Elevated, Config, BatchSize, Ops, Faults,    \* AccountMaint
    Names, Others, FileId, NoFile,                     \* Archives
    Provider, SyncDbs, NoRepo, MaxChange, MaxFail      \* Providers

VARIABLES
    process,
    config, row, sinceRun, sinceMail, past,            \* AccountMaint
    database, tmp, dst, content, sha, killed,          \* Archives
    mirror, table, changes, fails, forgotten           \* Providers

Maint == INSTANCE AccountMaint WITH run <- process
Arch == INSTANCE Archives WITH
    run <- process, version <- database, crashes <- killed, File <- FileId
Prov == INSTANCE Providers WITH run <- process

-----------------------------------------------------------------------------
(* GitArchive *)

RunRow == [pc : {"rest", "query", "open", "write", "status", "add", "base", "commit"},
           data : Seq(Said(MaxVersion)), next : 1..Len(Output),
           tree : [File -> Content], base : Nat]

\* A run that writes has all its data, one that still queries has less; v is
\* the version of the database and n the number of commits.
RowOK(p, v, n) ==
    /\ p \in RunRow
    /\ \A i \in 1..Len(p.data) : p.data[i] \in Said(v)
    /\ p.pc \in {"rest", "query"} => Len(p.data) < Queries
    /\ p.pc \in {"open", "write", "status", "add", "base", "commit"} => Len(p.data) = Queries
    /\ p.base <= n

RunOK(p) == RowOK(p, version, Len(commits))

IType ==
    /\ version \in 1..MaxVersion
    /\ work \in [File -> Content] /\ index \in [File -> Content]
    /\ commits \in Seq([File -> Content]) /\ Len(commits) <= MaxCommit
    /\ run \in [Run -> RunRow] /\ \A r \in Run : RunOK(run[r])
    /\ crashes \in 0..MaxCrash
    /\ \A r \in Run : run[r].pc = "commit" => run[r].base < MaxCommit

LEMMA ITypeGivesType == IType => TypeOK
<1> SUFFICES ASSUME IType PROVE TypeOK
  OBVIOUS
<1>1. Len(commits) <= MaxCommit /\ \A i \in 1..Len(commits) : commits[i] \in [File -> Content]
  BY DEF IType
<1>2. ASSUME NEW r \in Run
      PROVE  /\ run[r].pc \in {"rest", "query", "open", "write", "status", "add", "base", "commit"}
             /\ \A i \in 1..Len(run[r].data) : run[r].data[i] \in Said(version)
             /\ run[r].pc \in {"open", "write"} => Len(run[r].data) = Queries
             /\ run[r].next \in 1..Len(Output) /\ run[r].base \in 0..Len(commits)
             /\ run[r].tree \in [File -> Content]
  <2>1. RunOK(run[r])
    BY DEF IType
  <2>2. run[r].base \in 0..Len(commits)
    BY <2>1, <1>1 DEF RunOK, RowOK, RunRow, IType
  <2> QED BY <2>1, <2>2 DEF RunOK, RowOK, RunRow
<1> QED BY <1>1, <1>2 DEF IType, TypeOK

\* Data that is complete is what a file may hold.
LEMMA DataType ==
  ASSUME IType, NEW r \in Run, Len(run[r].data) = Queries
  PROVE  run[r].data \in Data /\ run[r].data \in Content
<1>1. run[r].data \in Seq(Said(MaxVersion))
  BY DEF IType, RunOK, RowOK, RunRow
<1>2. run[r].data \in [1..Len(run[r].data) -> Said(MaxVersion)]
  BY <1>1, LenProperties
<1> QED BY <1>2 DEF Data, Content

LEMMA RestingOK ==
  ASSUME NEW v, NEW n \in Nat
  PROVE  RowOK(Resting, v, n) /\ Resting.pc = "rest"
<1>1. Empty \in [File -> Content]
  BY DEF Empty, Content
<1>2. 1 \in 1..Len(Output) /\ Len(<<>>) = 0 /\ <<>> \in Seq(Said(MaxVersion))
  BY SpecAssumption
<1> QED BY <1>1, <1>2, SpecAssumption DEF Resting, RowOK, RunRow

\* A step that changes one run.
LEMMA RunUpdate ==
  ASSUME IType, UNCHANGED <<version, commits>>, NEW r \in Run, NEW p, RunOK(p),
         p.pc = "commit" => p.base < MaxCommit, run' = [run EXCEPT ![r] = p],
         work' \in [File -> Content], index' \in [File -> Content], crashes' \in 0..MaxCrash
  PROVE  IType'
<1>1. \A q \in Run : run'[q] = IF q = r THEN p ELSE run[q]
  BY DEF IType
<1>2. \A q \in Run : RunOK(run[q])'
  BY <1>1 DEF IType, RunOK, RowOK
<1>3. run' \in [Run -> RunRow]
  BY DEF IType, RunOK, RowOK
<1> QED BY <1>1, <1>2, <1>3 DEF IType

LEMMA InitType == Init => IType
<1> SUFFICES ASSUME Init PROVE IType
  OBVIOUS
<1>1. version \in 1..MaxVersion /\ Len(commits) = 0 /\ commits \in Seq([File -> Content])
  BY BoundAssumption DEF Init
<1>2. RunOK(Resting) /\ Resting.pc = "rest" /\ Resting \in RunRow
  BY <1>1, RestingOK DEF RunOK, RowOK
<1>3. work \in [File -> Content] /\ index \in [File -> Content]
  BY DEF Init, Empty, Content
<1> QED BY <1>1, <1>2, <1>3, BoundAssumption DEF Init, IType

LEMMA EndType ==
  ASSUME IType, UNCHANGED <<version, commits, work, index>>, NEW r \in Run, End(r), crashes' \in 0..MaxCrash
  PROVE  IType'
<1>1. Len(commits) \in Nat
  BY DEF IType
<1>2. RunOK(Resting) /\ Resting.pc = "rest"
  BY <1>1, RestingOK DEF RunOK
<1> QED BY <1>2, RunUpdate DEF End, IType

LEMMA StartType ==
  ASSUME IType, NEW r \in Run, Start(r)
  PROVE  IType'
<1> DEFINE p == [run[r] EXCEPT !.pc = "query"]
<1>1. run' = [run EXCEPT ![r] = p] /\ UNCHANGED <<version, work, index, commits, crashes>>
  BY DEF Start, IType
<1>2. RunOK(run[r]) /\ run[r].pc = "rest"
  BY DEF IType, Start
<1>3. RunOK(p) /\ p.pc = "query"
  BY <1>2 DEF RunOK, RowOK, RunRow
<1> HIDE DEF p
<1> QED BY <1>1, <1>3, RunUpdate DEF IType

LEMMA QueryType ==
  ASSUME IType, NEW r \in Run, Query(r)
  PROVE  IType'
<1> DEFINE d == Append(run[r].data, Value[version])
<1> DEFINE p == [run[r] EXCEPT !.data = d,
                              !.pc = IF Len(run[r].data) + 1 = Queries THEN "open" ELSE @]
<1>1. run' = [run EXCEPT ![r] = p] /\ UNCHANGED <<version, work, index, commits, crashes>>
  BY DEF Query, IType
<1>2. RunOK(run[r]) /\ run[r].pc = "query" /\ run[r].data \in Seq(Said(MaxVersion))
  BY DEF IType, Query, RunOK, RowOK, RunRow
<1>3. /\ d \in Seq(Said(MaxVersion)) /\ Len(d) = Len(run[r].data) + 1
      /\ \A i \in 1..Len(d) : d[i] \in Said(version)
  <2>1. Value[version] \in Said(MaxVersion) /\ Value[version] \in Said(version)
    BY BoundAssumption DEF IType, Said
  <2> QED BY <1>2, <2>1 DEF RunOK, RowOK
<1>4. Len(run[r].data) < Queries /\ Len(run[r].data) \in Nat
  BY <1>2 DEF RunOK, RowOK
<1>5. p \in RunRow /\ p.data = d /\ p.base = run[r].base
      /\ p.pc = IF Len(run[r].data) + 1 = Queries THEN "open" ELSE "query"
  BY <1>2, <1>3 DEF RunOK, RowOK, RunRow
<1> HIDE DEF p, d
<1>6. RunOK(p) /\ p.pc # "commit"
  BY <1>2, <1>3, <1>4, <1>5, SpecAssumption DEF RunOK, RowOK
<1> QED BY <1>1, <1>6, RunUpdate DEF IType

LEMMA OpenType ==
  ASSUME IType, NEW r \in Run, Open(r)
  PROVE  IType'
<1> DEFINE p == [run[r] EXCEPT !.pc = "write"]
<1>1. run' = [run EXCEPT ![r] = p] /\ UNCHANGED <<version, index, commits, crashes>>
  BY DEF Open, IType
<1>2. RunOK(run[r]) /\ run[r].pc = "open"
  BY DEF IType, Open
<1>3. RunOK(p) /\ p.pc = "write"
  BY <1>2 DEF RunOK, RowOK, RunRow
<1>4. work' \in [File -> Content]
  BY DEF Open, IType, Content
<1> HIDE DEF p
<1> QED BY <1>1, <1>3, <1>4, RunUpdate DEF IType

LEMMA WriteType ==
  ASSUME IType, NEW r \in Run, Write(r)
  PROVE  IType'
<1> DEFINE p == IF run[r].next = Len(Output) THEN [run[r] EXCEPT !.pc = "status"]
                ELSE [run[r] EXCEPT !.pc = "open", !.next = @ + 1]
<1>1. run' = [run EXCEPT ![r] = p] /\ UNCHANGED <<version, index, commits, crashes>>
  BY DEF Write, IType
<1>2. RunOK(run[r]) /\ run[r].pc = "write"
  BY DEF IType, Write
<1>3. RunOK(p) /\ p.pc # "commit"
  <2>1. run[r].next # Len(Output) => run[r].next + 1 \in 1..Len(Output)
    BY <1>2, SpecAssumption DEF RunOK, RowOK, RunRow
  <2> QED BY <1>2, <2>1 DEF RunOK, RowOK, RunRow
<1>4. work' \in [File -> Content]
  <2>1. run[r].data \in Content /\ Torn \in Content
    BY <1>2, DataType DEF RunOK, RowOK, Content
  <2>2. PICK c \in Content : work' = [work EXCEPT ![Output[run[r].next]] = c]
    BY <2>1 DEF Write
  <2> QED BY <2>2 DEF IType
<1> HIDE DEF p
<1> QED BY <1>1, <1>3, <1>4, RunUpdate DEF IType

LEMMA StatusType ==
  ASSUME IType, NEW r \in Run, Status(r)
  PROVE  IType'
<1> DEFINE p == [run[r] EXCEPT !.pc = "add"]
<1>1. CASE End(r)
  BY <1>1, EndType DEF Status, IType
<1>2. CASE ~ End(r)
  <2>1. run' = [run EXCEPT ![r] = p] /\ UNCHANGED <<version, work, index, commits, crashes>>
    BY <1>2 DEF Status, IType
  <2>2. RunOK(run[r]) /\ run[r].pc = "status"
    BY DEF IType, Status
  <2>3. RunOK(p) /\ p.pc = "add"
    BY <2>2 DEF RunOK, RowOK, RunRow
  <2> HIDE DEF p
  <2> QED BY <2>1, <2>3, RunUpdate DEF IType
<1> QED BY <1>1, <1>2

LEMMA AddType ==
  ASSUME IType, NEW r \in Run, Add(r)
  PROVE  IType'
<1> DEFINE p == [run[r] EXCEPT !.pc = "base", !.tree = work]
<1>1. run' = [run EXCEPT ![r] = p] /\ UNCHANGED <<version, work, commits, crashes>> /\ index' = work
  BY DEF Add, IType
<1>2. RunOK(run[r]) /\ run[r].pc = "add" /\ work \in [File -> Content]
  BY DEF IType, Add
<1>3. RunOK(p) /\ p.pc = "base"
  BY <1>2 DEF RunOK, RowOK, RunRow
<1> HIDE DEF p
<1> QED BY <1>1, <1>3, RunUpdate DEF IType

LEMMA ParentType ==
  ASSUME IType, NEW r \in Run, Parent(r)
  PROVE  IType'
<1> DEFINE p == [run[r] EXCEPT !.pc = "commit", !.base = Len(commits)]
<1>1. run' = [run EXCEPT ![r] = p] /\ UNCHANGED <<version, work, index, commits, crashes>>
  BY DEF Parent, IType
<1>2. RunOK(run[r]) /\ run[r].pc = "base" /\ Len(commits) \in Nat /\ Len(commits) < MaxCommit
  BY DEF IType, Parent
<1>3. p \in RunRow /\ p.base = Len(commits) /\ p.data = run[r].data /\ p.pc = "commit"
  BY <1>2 DEF RowOK, RunOK, RunRow, IType
<1> HIDE DEF p
<1>4. RunOK(p) /\ p.base < MaxCommit
  BY <1>2, <1>3 DEF RowOK, RunOK
<1> QED BY <1>1, <1>4, RunUpdate DEF IType

LEMMA CommitType ==
  ASSUME IType, NEW r \in Run, CommitNow(r)
  PROVE  IType'
<1>1. run[r].tree \in [File -> Content] /\ run[r].base < MaxCommit /\ run[r].base \in Nat
  BY DEF IType, CommitNow, RunOK, RowOK, RunRow
<1>2. /\ commits' \in Seq([File -> Content]) /\ Len(commits') <= MaxCommit
      /\ Len(commits') >= Len(commits) /\ Len(commits) \in Nat /\ Len(commits') \in Nat
  BY <1>1, BoundAssumption DEF CommitNow, IType
<1>3. RowOK(Resting, version, Len(commits')) /\ Resting.pc = "rest" /\ Resting \in RunRow
  BY <1>2, RestingOK DEF RowOK
<1>4. \A q \in Run : run'[q] = IF q = r THEN Resting ELSE run[q]
  BY DEF CommitNow, End, IType
<1>5. \A q \in Run : RowOK(run'[q], version, Len(commits'))
  <2>1. \A q \in Run : RowOK(run[q], version, Len(commits)) /\ run[q].base \in Nat
    BY DEF IType, RunOK, RowOK, RunRow
  <2> QED BY <1>2, <1>3, <1>4, <2>1 DEF RowOK
<1>6. run' \in [Run -> RunRow]
  BY <1>3 DEF CommitNow, End, IType
<1>7. \A q \in Run : run'[q].pc = "commit" => run'[q].base < MaxCommit
  BY <1>3, <1>4 DEF IType
<1> QED BY <1>2, <1>5, <1>6, <1>7 DEF IType, RunOK, RowOK, CommitNow

LEMMA StepType == IType /\ [Next]_vars => IType'
<1> SUFFICES ASSUME IType, [Next]_vars PROVE IType'
  OBVIOUS
<1>1. CASE UNCHANGED vars
  BY <1>1 DEF vars, IType, RunOK, RowOK
<1>2. CASE Change
  <2>1. version' \in 1..MaxVersion /\ 1..version \subseteq 1..version'
        /\ UNCHANGED <<work, index, commits, run, crashes>>
    BY <1>2, BoundAssumption DEF Change, IType
  <2>2. \A r \in Run : RowOK(run[r], version', Len(commits))
    BY <2>1 DEF IType, RunOK, RowOK, Said
  <2> QED BY <2>1, <2>2 DEF IType, RunOK
<1>3. ASSUME NEW r \in Run, Crash(r) PROVE IType'
  <2>1. crashes' \in 0..MaxCrash
    BY <1>3, BoundAssumption DEF Crash, IType
  <2> QED BY <1>3, <2>1, EndType DEF Crash
<1>4. ASSUME NEW r \in Run, Step(r) PROVE IType'
  BY <1>4, StartType, QueryType, OpenType, WriteType, StatusType, AddType, ParentType,
     CommitType DEF Step
<1> QED BY <1>1, <1>2, <1>3, <1>4 DEF Next

\* The work tree, the commits and the runs have their types; a run that writes
\* has the data of all its queries.
THEOREM TypeCorrect == Spec => []TypeOK
<1>1. Init => IType
  BY InitType
<1>2. IType /\ [Next]_vars => IType'
  BY StepType
<1>3. IType => TypeOK
  BY ITypeGivesType
<1> QED BY <1>1, <1>2, <1>3, PTL DEF Spec

-----------------------------------------------------------------------------
(* With a single run, commits that repeat the one before are of kills. *)

\* The commits that repeat the one before, by its number.
Repeated == {i \in 1..Len(commits) - 1 : commits[i + 1] = commits[i]}

Staged(p) == p.pc \in {"base", "commit"}

\* Whether a commit may follow that repeats the last one: that of a run that has
\* made its tree of files like those of the last commit, or of a run that comes
\* to such files, because of the index that a killed run has left.
Owed == IF (\E r \in Run : Staged(run[r])) <=> index = LastTree THEN 1 ELSE 0

\* A run that is to commit has found something that differs; what it commits is
\* what it has put into the index.
Stage(p) ==
    /\ p.pc = "add" => work # LastTree \/ index # LastTree
    /\ Staged(p) => p.tree = index
    /\ p.pc = "commit" => p.base = Len(commits)

IRepeated ==
    /\ Cardinality(Repeated) + Owed <= crashes
    /\ \A r \in Run : Stage(run[r])

LEMMA InitRepeated == Init => IRepeated
<1> SUFFICES ASSUME Init PROVE IRepeated
  OBVIOUS
<1>1. Repeated = {}
  BY DEF Init, Repeated
<1>2. Owed = 0
  BY DEF Init, Owed, LastTree, Staged, Resting
<1> QED BY <1>1, <1>2, FS_EmptySet DEF Init, IRepeated, Stage, Staged, Resting

LEMMA RepeatedIsFinite ==
  ASSUME IType
  PROVE  IsFiniteSet(Repeated) /\ Cardinality(Repeated) \in Nat /\ Owed \in {0, 1}
<1>1. Len(commits) \in Nat
  BY DEF IType
<1>2. IsFiniteSet(1..Len(commits) - 1) /\ Repeated \in SUBSET (1..Len(commits) - 1)
  BY <1>1, FS_Interval DEF Repeated
<1> QED BY <1>2, FS_Subset, FS_CardinalityType DEF Owed

\* A step of the only run that commits nothing.
LEMMA NothingCommitted ==
  ASSUME IRepeated, \A q, s \in Run : q = s, commits' = commits, NEW r \in Run,
         Stage(run[r])', Owed' - Owed <= crashes' - crashes,
         Owed \in {0, 1}, Owed' \in {0, 1}, crashes \in Nat, crashes' \in Nat,
         Cardinality(Repeated) \in Nat
  PROVE  IRepeated'
<1>1. Repeated' = Repeated
  BY DEF Repeated
<1>2. Cardinality(Repeated') + Owed' <= crashes'
  BY <1>1 DEF IRepeated
<1> QED BY <1>2 DEF IRepeated

\* A commit repeats the last one if that was owed.
LEMMA CommitRepeats ==
  ASSUME IType, IRepeated, \A q, s \in Run : q = s, NEW r \in Run, CommitNow(r)
  PROVE  IRepeated'
<1> DEFINE n == Len(commits)
<1> DEFINE t == run[r].tree
<1>1. /\ n \in Nat /\ commits \in Seq([File -> Content]) /\ run[r].pc = "commit"
      /\ t = index /\ run[r].base = n /\ t \in [File -> Content]
  BY DEF IType, IRepeated, Stage, Staged, CommitNow, RunOK, RowOK, RunRow
<1>2. /\ commits' = Append(commits, t) /\ Len(commits') = n + 1 /\ commits'[n + 1] = t
      /\ \A i \in 1..n : commits'[i] = commits[i]
  BY <1>1 DEF CommitNow
<1>3. run'[r] = Resting /\ UNCHANGED <<index, crashes>>
  BY DEF CommitNow, End, IType
<1>4. LastTree' = index' /\ Owed' = 0
  <2>1. commits' # <<>>
    BY <1>1, <1>2
  <2>2. LastTree' = t
    BY <1>2, <2>1 DEF LastTree
  <2>3. \A q \in Run : ~ Staged(run'[q])
    BY <1>3 DEF Staged, Resting
  <2> QED BY <1>1, <1>3, <2>2, <2>3 DEF Owed
<1>5. Stage(run[r])'
  BY <1>3 DEF Stage, Staged, Resting
<1>6. Owed = IF index = LastTree THEN 1 ELSE 0
  BY <1>1 DEF Owed, Staged
<1>7. \A i \in 1..n - 1 : commits'[i] = commits[i] /\ commits'[i + 1] = commits[i + 1]
  BY <1>1, <1>2
<1>8. CASE n > 0 /\ index = LastTree
  <2>1. Repeated' \subseteq Repeated \cup {n}
    BY <1>1, <1>2, <1>7 DEF Repeated
  <2>2. /\ IsFiniteSet(Repeated \cup {n})
        /\ Cardinality(Repeated \cup {n}) <= Cardinality(Repeated) + 1
    <3>1. IsFiniteSet(Repeated) /\ Cardinality(Repeated) \in Nat
      BY RepeatedIsFinite
    <3> HIDE DEF n
    <3>2. /\ IsFiniteSet(Repeated \cup {n})
          /\ Cardinality(Repeated \cup {n})
               = IF n \in Repeated THEN Cardinality(Repeated) ELSE Cardinality(Repeated) + 1
      BY <3>1, FS_AddElement
    <3> QED BY <3>1, <3>2
  <2>3. /\ Cardinality(Repeated') <= Cardinality(Repeated \cup {n})
        /\ Cardinality(Repeated') \in Nat /\ Cardinality(Repeated \cup {n}) \in Nat
    BY <2>1, <2>2, FS_Subset, FS_CardinalityType
  <2>4. Cardinality(Repeated') + Owed' <= crashes'
    <3>1. crashes \in Nat /\ Owed = 1 /\ Cardinality(Repeated) + Owed <= crashes
      BY <1>6, <1>8, BoundAssumption DEF IType, IRepeated
    <3> QED BY <1>3, <1>4, <2>2, <2>3, <3>1, RepeatedIsFinite
  <2> QED BY <1>5, <2>4 DEF IRepeated
<1>9. CASE ~ (n > 0 /\ index = LastTree)
  <2>1. n > 0 => commits'[n] # t
    <3>1. n > 0 => commits # <<>> /\ n \in 1..n
      BY <1>1
    <3> QED BY <1>1, <1>2, <1>9, <3>1 DEF LastTree
  <2>2. Repeated' = Repeated
    <3>1. \A i \in 1..n : i \in 1..n - 1 \/ (i = n /\ n > 0)
      BY <1>1
    <3>2. Len(commits') - 1 = n /\ 1..n - 1 \subseteq 1..n
      BY <1>1, <1>2
    <3> QED BY <1>2, <1>7, <2>1, <3>1, <3>2 DEF Repeated
  <2>3. Cardinality(Repeated') + Owed' <= crashes'
    <3>1. crashes \in Nat /\ Cardinality(Repeated) + Owed <= crashes
      BY BoundAssumption DEF IType, IRepeated
    <3> QED BY <1>3, <1>4, <2>2, <3>1, RepeatedIsFinite
  <2> QED BY <1>5, <2>3 DEF IRepeated
<1> QED BY <1>8, <1>9

LEMMA StepRepeated ==
  ASSUME \A q, s \in Run : q = s
  PROVE  IType /\ IRepeated /\ [Next]_vars => IRepeated'
<1> SUFFICES ASSUME IType, IRepeated, [Next]_vars PROVE IRepeated'
  OBVIOUS
<1> DEFINE N == Cardinality(Repeated)
<1>1. /\ crashes \in Nat /\ N \in Nat /\ Owed \in {0, 1} /\ Owed' \in {0, 1}
      /\ run \in [Run -> RunRow] /\ crashes' \in Nat
  <2>1. IType'
    BY StepType
  <2> QED BY <2>1, RepeatedIsFinite, BoundAssumption DEF IType, Owed
<1>2. ASSUME UNCHANGED <<commits, run, work, index, crashes>> PROVE IRepeated'
  <2>1. Repeated' = Repeated /\ Owed' = Owed
    BY <1>2 DEF Repeated, Owed, LastTree
  <2>2. \A r \in Run : Stage(run[r])'
    BY <1>2 DEF IRepeated, Stage, Staged, LastTree
  <2> QED BY <1>2, <2>1, <2>2 DEF IRepeated
<1>3. ASSUME NEW r \in Run, Start(r) \/ Query(r) \/ Open(r) \/ Write(r) \/ Status(r) PROVE IRepeated'
  <2>1. /\ UNCHANGED <<index, commits, crashes>> /\ ~ Staged(run[r]) /\ ~ Staged(run'[r])
        /\ run'[r].pc = "add" => Status(r)
    <3>1. CASE Start(r)
      BY <1>1, <3>1 DEF Start, Staged, RunRow
    <3>2. CASE Query(r)
      BY <1>1, <3>2 DEF Query, Staged, RunRow
    <3>3. CASE Open(r)
      BY <1>1, <3>3 DEF Open, Staged, RunRow
    <3>4. CASE Write(r)
      BY <1>1, <3>4 DEF Write, Staged, RunRow
    <3>5. CASE Status(r)
      BY <1>1, <3>5 DEF Status, End, Resting, Staged, RunRow
    <3> QED BY <1>3, <3>1, <3>2, <3>3, <3>4, <3>5
  <2>2. LastTree' = LastTree
    BY <2>1 DEF LastTree
  <2>3. Owed' = Owed
    BY <2>1, <2>2 DEF Owed
  <2>4. Stage(run[r])'
    <3>1. CASE run'[r].pc = "add"
      <4>1. work' = work /\ (index # LastTree \/ work # index)
        BY <1>1, <2>1, <3>1 DEF Status, End, Resting
      <4> QED BY <2>1, <2>2, <3>1, <4>1 DEF Stage, Staged
    <3>2. CASE run'[r].pc # "add"
      BY <2>1, <3>2 DEF Stage, Staged
    <3> QED BY <3>1, <3>2
  <2> QED BY <1>1, <2>1, <2>3, <2>4, NothingCommitted
<1>4. ASSUME NEW r \in Run, Add(r) PROVE IRepeated'
  <2>1. /\ UNCHANGED <<commits, crashes, work>> /\ index' = work /\ run[r].pc = "add"
        /\ run'[r].pc = "base" /\ run'[r].tree = work
    BY <1>1, <1>4 DEF Add, RunRow
  <2>2. LastTree' = LastTree
    BY <2>1 DEF LastTree
  <2>3. work # LastTree \/ index # LastTree
    BY <2>1 DEF IRepeated, Stage
  <2>4. Owed' = IF work = LastTree THEN 1 ELSE 0
    BY <2>1, <2>2 DEF Owed, Staged
  <2>5. Owed = IF index = LastTree THEN 0 ELSE 1
    BY <2>1 DEF Owed, Staged
  <2>6. Stage(run[r])'
    BY <2>1 DEF Stage, Staged
  <2> QED BY <1>1, <2>1, <2>3, <2>4, <2>5, <2>6, NothingCommitted
<1>5. ASSUME NEW r \in Run, Parent(r) PROVE IRepeated'
  <2>1. /\ UNCHANGED <<commits, crashes, index>> /\ run[r].pc = "base"
        /\ run'[r].pc = "commit" /\ run'[r].tree = run[r].tree /\ run'[r].base = Len(commits)
    BY <1>1, <1>5 DEF Parent, RunRow
  <2>2. LastTree' = LastTree
    BY <2>1 DEF LastTree
  <2>3. Owed' = Owed
    BY <2>1, <2>2 DEF Owed, Staged
  <2>4. Stage(run[r])'
    BY <2>1 DEF IRepeated, Stage, Staged
  <2> QED BY <1>1, <2>1, <2>3, <2>4, NothingCommitted
<1>6. ASSUME NEW r \in Run, Crash(r) PROVE IRepeated'
  <2>1. UNCHANGED <<commits, index>> /\ crashes' = crashes + 1 /\ run'[r] = Resting
    BY <1>1, <1>6 DEF Crash, End
  <2>2. Stage(run[r])'
    BY <2>1 DEF Stage, Staged, Resting
  <2>3. Owed' - Owed <= crashes' - crashes
    <3>1. crashes' - crashes = 1 /\ Owed' <= 1 /\ Owed >= 0 /\ Owed' \in Int /\ Owed \in Int
      <4>1. crashes' = crashes + 1 /\ crashes \in Nat
        BY <1>1, <2>1
      <4> QED BY <1>1, <4>1
    <3> QED BY <3>1
  <2> QED BY <1>1, <2>1, <2>2, <2>3, NothingCommitted
<1>7. ASSUME NEW r \in Run, CommitNow(r) PROVE IRepeated'
  BY <1>7, CommitRepeats
<1> QED BY <1>2, <1>3, <1>4, <1>5, <1>6, <1>7 DEF Next, Step, Change, vars

\* While cron never starts a second run before the first has ended, a commit
\* has the files of the commit before only if a run was killed after it had
\* written the index and before its commit, and each such run is the reason for
\* one commit at most.
THEOREM RepeatsAreOfKills ==
  ASSUME \A q, s \in Run : q = s
  PROVE  Spec => []RepeatedAreOfKills
<1>1. Init => IType /\ IRepeated
  BY InitType, InitRepeated
<1>2. IType /\ IRepeated /\ [Next]_vars => IType' /\ IRepeated'
  BY StepType, StepRepeated
<1>3. IType /\ IRepeated => RepeatedAreOfKills
  <2> SUFFICES ASSUME IType, IRepeated PROVE RepeatedAreOfKills
    OBVIOUS
  <2>1. Cardinality(Repeated) <= crashes
    BY RepeatedIsFinite, BoundAssumption DEF IRepeated, IType
  <2> QED BY <2>1 DEF RepeatedAreOfKills, Repeated
<1> QED BY <1>1, <1>2, <1>3, PTL DEF Spec

-----------------------------------------------------------------------------
(* With a single run, the files of a commit are of the same data. *)

\* The first n files of a tree are made from data.
Written(tree, n, data) == \A i \in 1..n : tree[Output[i]] = data

\* How far a run has got with the work tree w: whatever a killed run has left
\* is written over before it is committed.
Progress(p, w) ==
    /\ p.pc \in {"rest", "query"} => p.next = 1
    /\ p.pc \in {"open", "write"} => Written(w, p.next - 1, p.data)
    /\ p.pc \in {"status", "add"} => Written(w, Len(Output), p.data)
    /\ p.pc \in {"base", "commit"} => Written(p.tree, Len(Output), p.data)

IProgress == FilesAgree /\ \A r \in Run : Progress(run[r], work)

LEMMA InitProgress == Init => IProgress
BY DEF Init, IProgress, FilesAgree, Progress, Resting

\* A step of the only run, which commits nothing.
LEMMA OnlyProgress ==
  ASSUME IType, IProgress, \A q, s \in Run : q = s, commits' = commits, NEW r \in Run,
         Progress(run'[r], work')
  PROVE  IProgress'
BY DEF IProgress, FilesAgree

LEMMA WriteProgress ==
  ASSUME IType, IProgress, \A q, s \in Run : q = s, NEW r \in Run, Write(r)
  PROVE  IProgress'
<1> DEFINE n == run[r].next
<1> DEFINE d == run[r].data
<1>1. n \in 1..Len(Output) /\ Len(Output) \in Nat /\ run[r].pc = "write" /\ run \in [Run -> RunRow]
  BY SpecAssumption DEF IType, RunOK, RowOK, RunRow, Write
<1>2. Written(work, n - 1, d)
  BY <1>1 DEF IProgress, Progress
<1>3. ~ Shared(r)
  BY DEF Shared
<1>4. work' = [work EXCEPT ![Output[n]] = d] /\ commits' = commits
  BY <1>3 DEF Write
<1>5. work \in [File -> Content] /\ \A i \in 1..Len(Output) : Output[i] \in File
  BY DEF IType, File
<1>6. Written(work', n, d)
  <2> SUFFICES ASSUME NEW i \in 1..n PROVE work'[Output[i]] = d
    BY DEF Written
  <2>1. CASE i = n
    BY <1>1, <1>4, <1>5, <2>1
  <2>2. CASE i # n
    <3>1. i \in 1..n - 1 /\ i \in 1..Len(Output)
      BY <1>1, <2>2
    <3>2. Output[i] # Output[n]
      BY <1>1, <2>2, <3>1, SpecAssumption
    <3> QED BY <1>2, <1>4, <1>5, <3>1, <3>2 DEF Written
  <2> QED BY <2>1, <2>2
<1>7. CASE n = Len(Output)
  <2>1. run'[r].pc = "status" /\ run'[r].data = d
    BY <1>1, <1>7 DEF Write, RunRow
  <2>2. Progress(run'[r], work')
    BY <1>6, <1>7, <2>1 DEF Progress
  <2> QED BY <1>4, <2>2, OnlyProgress
<1>8. CASE n # Len(Output)
  <2>1. run'[r].pc = "open" /\ run'[r].data = d /\ run'[r].next = n + 1
    BY <1>1, <1>8 DEF Write, RunRow
  <2>2. run'[r].next - 1 = n
    BY <1>1, <2>1
  <2>3. Progress(run'[r], work')
    BY <1>6, <2>1, <2>2 DEF Progress
  <2> QED BY <1>4, <2>3, OnlyProgress
<1> QED BY <1>7, <1>8

LEMMA CommitAgrees ==
  ASSUME IType, IProgress, \A q, s \in Run : q = s, NEW r \in Run, CommitNow(r)
  PROVE  IProgress'
<1>1. run'[r] = Resting
  BY DEF CommitNow, End, IType
<1>2. Progress(run'[r], work')
  BY <1>1 DEF Resting, Progress
<1>3. CASE run[r].base # Len(commits)
  BY <1>2, <1>3, OnlyProgress DEF CommitNow
<1>4. CASE run[r].base = Len(commits)
  <2>1. /\ commits' = Append(commits, run[r].tree) /\ run[r].pc = "commit"
        /\ commits \in Seq([File -> Content])
    BY <1>4 DEF CommitNow, IType
  <2>2. run[r].data \in Data
    BY <2>1, DataType DEF IType, RunOK, RowOK
  <2>3. \A f \in File : run[r].tree[f] = run[r].data
    BY <2>1 DEF IProgress, Progress, Written, File
  <2>4. FilesAgree'
    <3> SUFFICES ASSUME NEW i \in 1..Len(commits')
                 PROVE  \E d \in Data : \A f \in File : commits'[i][f] = d
      BY DEF FilesAgree
    <3>1. CASE i = Len(commits) + 1
      <4>1. commits'[i] = run[r].tree
        BY <2>1, <3>1
      <4> QED BY <2>2, <2>3, <4>1
    <3>2. CASE i # Len(commits) + 1
      <4>1. i \in 1..Len(commits) /\ commits'[i] = commits[i]
        BY <2>1, <3>2
      <4> QED BY <4>1 DEF IProgress, FilesAgree
    <3> QED BY <3>1, <3>2
  <2> QED BY <1>2, <2>4 DEF IProgress
<1> QED BY <1>3, <1>4

LEMMA StepProgress ==
  ASSUME \A q, s \in Run : q = s
  PROVE  IType /\ IProgress /\ [Next]_vars => IProgress'
<1> SUFFICES ASSUME IType, IProgress, [Next]_vars PROVE IProgress'
  OBVIOUS
<1>1. CASE UNCHANGED <<commits, run, work>>
  BY <1>1 DEF IProgress, FilesAgree
<1>2. ASSUME NEW r \in Run, End(r), commits' = commits PROVE IProgress'
  <2>1. run'[r] = Resting
    BY <1>2 DEF End, IType
  <2>2. Progress(run'[r], work')
    BY <2>1 DEF Resting, Progress
  <2> QED BY <1>2, <2>2, OnlyProgress
<1>3. ASSUME NEW r \in Run, Start(r) \/ Query(r) PROVE IProgress'
  <2>1. commits' = commits /\ run[r].pc \in {"rest", "query"} /\ run[r].next = 1 /\ run \in [Run -> RunRow]
    BY <1>3 DEF Start, Query, IProgress, Progress, IType
  <2>2. run'[r].next = 1 /\ run'[r].pc \in {"query", "open"}
    <3>1. CASE Start(r)
      BY <2>1, <3>1 DEF Start, RunRow
    <3>2. CASE Query(r)
      BY <2>1, <3>2 DEF Query, RunRow
    <3> QED BY <1>3, <3>1, <3>2
  <2>3. Progress(run'[r], work')
    BY <2>2 DEF Progress, Written
  <2> QED BY <2>1, <2>3, OnlyProgress
<1>4. ASSUME NEW r \in Run, Open(r) PROVE IProgress'
  <2> DEFINE n == run[r].next
  <2>1. /\ n \in 1..Len(Output) /\ run[r].pc = "open" /\ run \in [Run -> RunRow]
        /\ work \in [File -> Content] /\ Len(Output) \in Nat
    BY <1>4 DEF Open, IType, RunOK, RowOK, RunRow
  <2>2. /\ commits' = commits /\ work' = [work EXCEPT ![Output[n]] = Partial]
        /\ run'[r].pc = "write" /\ run'[r].next = n /\ run'[r].data = run[r].data
    BY <1>4, <2>1 DEF Open, RunRow
  <2>3. Written(work', n - 1, run[r].data)
    <3> SUFFICES ASSUME NEW i \in 1..n - 1 PROVE work'[Output[i]] = run[r].data
      BY DEF Written
    <3>1. i \in 1..Len(Output) /\ i # n
      BY <2>1
    <3>2. Output[i] # Output[n] /\ Output[i] \in File
      BY <2>1, <3>1, SpecAssumption DEF File
    <3> QED BY <2>1, <2>2, <3>2 DEF IProgress, Progress, Written
  <2>4. Progress(run'[r], work')
    BY <2>2, <2>3 DEF Progress
  <2> QED BY <2>2, <2>4, OnlyProgress
<1>5. ASSUME NEW r \in Run, Status(r) PROVE IProgress'
  <2>1. CASE End(r)
    BY <1>2, <1>5, <2>1 DEF Status
  <2>2. CASE ~ End(r)
    <3>1. /\ commits' = commits /\ work' = work /\ run[r].pc = "status"
          /\ run'[r].pc = "add" /\ run'[r].data = run[r].data
      BY <1>5, <2>2 DEF Status, IType, RunRow
    <3>2. Progress(run'[r], work')
      BY <3>1 DEF IProgress, Progress
    <3> QED BY <3>1, <3>2, OnlyProgress
  <2> QED BY <2>1, <2>2
<1>6. ASSUME NEW r \in Run, Add(r) \/ Parent(r) PROVE IProgress'
  <2>1. /\ commits' = commits /\ work' = work /\ run[r].pc \in {"add", "base"}
        /\ run \in [Run -> RunRow]
    BY <1>6 DEF Add, Parent, IType
  <2>2. CASE Add(r)
    <3>1. run'[r].pc = "base" /\ run'[r].tree = work /\ run'[r].data = run[r].data /\ run[r].pc = "add"
      BY <2>1, <2>2 DEF Add, RunRow
    <3>2. Progress(run'[r], work')
      BY <3>1 DEF IProgress, Progress
    <3> QED BY <2>1, <3>2, OnlyProgress
  <2>3. CASE Parent(r)
    <3>1. /\ run'[r].pc = "commit" /\ run'[r].tree = run[r].tree /\ run'[r].data = run[r].data
          /\ run[r].pc = "base"
      BY <2>1, <2>3 DEF Parent, RunRow
    <3>2. Progress(run'[r], work')
      BY <3>1 DEF IProgress, Progress
    <3> QED BY <2>1, <3>2, OnlyProgress
  <2> QED BY <1>6, <2>2, <2>3
<1>7. ASSUME NEW r \in Run, Step(r) PROVE IProgress'
  BY <1>3, <1>4, <1>5, <1>6, <1>7, WriteProgress, CommitAgrees DEF Step
<1>8. ASSUME NEW r \in Run, Crash(r) PROVE IProgress'
  BY <1>2, <1>8 DEF Crash
<1> QED BY <1>1, <1>7, <1>8 DEF Next, Change, vars

\* While cron never starts a second run before the first has ended, the files
\* of a commit are made from the same data, however often runs are killed in
\* the middle of the work tree.  (With two runs this is false: README,
\* Divergences without a run.)
THEOREM FilesOfOneRun ==
  ASSUME \A q, s \in Run : q = s
  PROVE  Spec => []FilesAgree
<1>1. Init => IType /\ IProgress
  BY InitType, InitProgress
<1>2. IType /\ IProgress /\ [Next]_vars => IType' /\ IProgress'
  BY StepType, StepProgress
<1>3. IProgress => FilesAgree
  BY DEF IProgress
<1> QED BY <1>1, <1>2, <1>3, PTL DEF Spec

-----------------------------------------------------------------------------
(* AccountMaint: rows and runs *)

\* The rows and the runs there may be with configuration c.
RowOf(c) == [here : BOOLEAN, age : 0..Maint!Max(c), seen : 0..Maint!Max(c), token : 0..c.ttl,
             verified : BOOLEAN, suspended : BOOLEAN, content : BOOLEAN]
CronRow == [pc : {"idle", "issue", "build", "send", "expired", "delete"},
            users : SUBSET User, noLink : SUBSET User]

UserActs(u) ==
    \/ Maint!Register(u) \/ Maint!Login(u) \/ Maint!Verify(u)
    \/ Maint!ChangeEmail(u) \/ Maint!Suspend(u) \/ Maint!AddContent(u)

-----------------------------------------------------------------------------
(* Types *)

\* The numbers of a configuration.
LEMMA Numbers ==
    ASSUME Maint!ConfigAssumption, NEW c \in Config
    PROVE  /\ c.lifetime \in Nat /\ c.warning \in Nat
           /\ c.ttl \in Nat /\ c.ttl >= 1
           /\ c.gap \in Nat /\ c.gap >= 1 /\ c.gap <= c.ttl
           /\ Maint!Max(c) \in Nat /\ Maint!Max(c) > c.lifetime /\ Maint!Max(c) > c.warning + c.ttl
<1>1. /\ c.lifetime \in Nat /\ c.warning \in Nat
      /\ c.ttl \in Nat /\ c.ttl >= 1
      /\ c.gap \in Nat /\ c.gap >= 1 /\ c.gap <= c.ttl
  BY DEF Maint!ConfigAssumption
<1> QED
  BY <1>1 DEF Maint!Max

LEMMA GoneIsARow ==
    ASSUME Maint!ConfigAssumption, NEW c \in Config
    PROVE  /\ Maint!Gone \in RowOf(c)
           /\ [Maint!Gone EXCEPT !.here = TRUE, !.token = c.ttl, !.seen = Maint!Max(c)] \in RowOf(c)
<1>1. Maint!Max(c) \in Nat /\ c.ttl \in Nat
  BY Numbers
<1>2. 0 \in 0..Maint!Max(c) /\ Maint!Max(c) \in 0..Maint!Max(c) /\ 0 \in 0..c.ttl /\ c.ttl \in 0..c.ttl
  BY <1>1
<1>3. TRUE \in BOOLEAN /\ FALSE \in BOOLEAN
  OBVIOUS
<1>4. Maint!Gone \in RowOf(c)
  BY <1>2, <1>3 DEF Maint!Gone, RowOf
<1>5. ASSUME NEW g \in RowOf(c), NEW t \in 0..c.ttl, NEW m \in 0..Maint!Max(c)
      PROVE  [g EXCEPT !.here = TRUE, !.token = t, !.seen = m] \in RowOf(c)
  BY <1>3 DEF RowOf
<1> QED
  BY <1>2, <1>4, <1>5

LEMMA Types ==
    ASSUME Maint!TypeOK
    PROVE  /\ config \in Config /\ row \in [User -> RowOf(config)]
           /\ process \in [Run -> CronRow]
           /\ sinceRun \in 0..config.gap
           /\ sinceMail \in [User -> 0..Maint!Max(config)]
           /\ \A u \in User : ~ row[u].here => row[u] = Maint!Gone
           /\ \A r \in Run : process[r].noLink \subseteq process[r].users
BY DEF Maint!TypeOK, RowOf, CronRow, Maint!Never, Maint!Here

\* One row changes, of a user who is there then.
LEMMA RowChanges ==
    ASSUME Maint!ConfigAssumption, Maint!TypeOK, NEW u \in User, NEW q \in RowOf(config), q.here,
           Maint!Change(u, q), UNCHANGED <<config, sinceRun, process>>,
           sinceMail' \in [User -> 0..Maint!Never],
           past' \in [User -> SUBSET {"login", "verified", "suspended"}]
    PROVE  Maint!TypeOK'
<1>1. Maint!Never' = Maint!Never
  BY DEF Maint!Never
<1>2. row' \in [User -> RowOf(config)] /\ \A v \in User : ~ row'[v].here => row'[v] = Maint!Gone
  BY Types DEF Maint!Change
<1> QED
  BY <1>1, <1>2 DEF Maint!TypeOK, RowOf, Maint!Here, Maint!Never

LEMMA UserType ==
    ASSUME Maint!ConfigAssumption, Maint!TypeOK, NEW u \in User, UserActs(u)
    PROVE  Maint!TypeOK'
<1> DEFINE Past == SUBSET {"login", "verified", "suspended"}
<1>1. config \in Config /\ row[u] \in RowOf(config)
  BY Types
<1>2. past \in [User -> Past] /\ sinceMail \in [User -> 0..Maint!Never]
  BY DEF Maint!TypeOK
<1>3. ASSUME NEW what \in {"login", "verified", "suspended"}, Maint!Did(u, what)
      PROVE  past' \in [User -> Past]
  BY <1>2, <1>3 DEF Maint!Did
<1>4. /\ Maint!Never \in Nat /\ 0 \in 0..Maint!Never /\ Maint!Never \in 0..Maint!Never
      /\ config.ttl \in 0..config.ttl /\ 0 \in 0..config.ttl
  BY <1>1, Numbers DEF Maint!Never
<1>5. CASE Maint!Register(u)
  <2>1. [Maint!Gone EXCEPT !.here = TRUE, !.token = config.ttl, !.seen = Maint!Never] \in RowOf(config)
    BY <1>1, GoneIsARow DEF Maint!Never
  <2>2. past' \in [User -> Past] /\ sinceMail' \in [User -> 0..Maint!Never]
    BY <1>2, <1>4, <1>5 DEF Maint!Register
  <2> QED
    BY <1>5, <2>1, <2>2, RowChanges DEF Maint!Register, Maint!Gone
<1>6. CASE Maint!Login(u)
  <2>1. [row[u] EXCEPT !.seen = 0] \in RowOf(config) /\ [row[u] EXCEPT !.seen = 0].here
    BY <1>1, <1>4, <1>6 DEF RowOf, Maint!Never, Maint!Login, Maint!Here
  <2> QED
    BY <1>2, <1>3, <1>6, <2>1, RowChanges DEF Maint!Login
<1>7. CASE Maint!Verify(u)
  <2>1. /\ [row[u] EXCEPT !.verified = TRUE, !.token = 0] \in RowOf(config)
        /\ [row[u] EXCEPT !.verified = TRUE, !.token = 0].here
    BY <1>1, <1>4, <1>7 DEF RowOf, Maint!Never, Maint!Verify, Maint!Here
  <2> QED
    BY <1>2, <1>3, <1>7, <2>1, RowChanges DEF Maint!Verify
<1>8. CASE Maint!ChangeEmail(u)
  <2>1. /\ [row[u] EXCEPT !.verified = FALSE, !.token = config.ttl] \in RowOf(config)
        /\ [row[u] EXCEPT !.verified = FALSE, !.token = config.ttl].here
    BY <1>1, <1>4, <1>8 DEF RowOf, Maint!Never, Maint!ChangeEmail, Maint!Here
  <2> QED
    BY <1>2, <1>8, <2>1, RowChanges DEF Maint!ChangeEmail
<1>9. CASE Maint!Suspend(u)
  <2>1. [row[u] EXCEPT !.suspended = TRUE] \in RowOf(config) /\ [row[u] EXCEPT !.suspended = TRUE].here
    BY <1>1, <1>9 DEF RowOf, Maint!Suspend, Maint!Here
  <2> QED
    BY <1>2, <1>3, <1>9, <2>1, RowChanges DEF Maint!Suspend
<1>10. CASE Maint!AddContent(u)
  <2>1. [row[u] EXCEPT !.content = TRUE] \in RowOf(config) /\ [row[u] EXCEPT !.content = TRUE].here
    BY <1>1, <1>10 DEF RowOf, Maint!AddContent, Maint!Here
  <2> QED
    BY <1>2, <1>10, <2>1, RowChanges DEF Maint!AddContent
<1> QED
  BY <1>5, <1>6, <1>7, <1>8, <1>9, <1>10 DEF UserActs

\* One run goes on.
LEMMA RunMoves ==
    ASSUME Maint!ConfigAssumption, Maint!TypeOK, NEW r \in Run, NEW p \in CronRow,
           p.noLink \subseteq p.users,
           process' = [process EXCEPT ![r] = p], UNCHANGED <<config, past>>,
           row' \in [User -> RowOf(config)], \A v \in User : ~ row'[v].here => row'[v] = Maint!Gone,
           sinceRun' \in 0..config.gap, sinceMail' \in [User -> 0..Maint!Never]
    PROVE  Maint!TypeOK'
<1>1. Maint!Never' = Maint!Never
  BY DEF Maint!Never
<1>2. process' \in [Run -> CronRow] /\ \A q \in Run : process'[q].noLink \subseteq process'[q].users
  BY Types
<1> QED
  BY <1>1, <1>2 DEF Maint!TypeOK, RowOf, CronRow, Maint!Here, Maint!Never

LEMMA RunType ==
    ASSUME Maint!ConfigAssumption, Maint!TypeOK, NEW r \in Run, Maint!Cron(r) \/ Maint!Crash(r)
    PROVE  Maint!TypeOK'
<1>1. /\ config \in Config /\ row \in [User -> RowOf(config)] /\ process[r] \in CronRow
      /\ sinceRun \in 0..config.gap /\ sinceMail \in [User -> 0..Maint!Never]
      /\ \A v \in User : ~ row[v].here => row[v] = Maint!Gone
      /\ process[r].noLink \subseteq process[r].users
  BY Types DEF Maint!Never
<1>2. ASSUME NEW pc \in {"idle", "issue", "build", "send", "expired", "delete"},
             NEW users \in SUBSET User
      PROVE  [pc |-> pc, users |-> users, noLink |-> {}] \in CronRow
  BY DEF CronRow
<1>3. Maint!IdleRun \in CronRow /\ Maint!IdleRun.noLink \subseteq Maint!IdleRun.users
  BY DEF Maint!IdleRun, CronRow
<1>4. 0 \in 0..config.gap /\ 0 \in 0..Maint!Never /\ config.ttl \in 0..config.ttl
  BY <1>1, Numbers DEF Maint!Never
<1>5. ASSUME Maint!End(r), UNCHANGED <<config, past, row, sinceRun, sinceMail>>
      PROVE  Maint!TypeOK'
  BY <1>1, <1>3, <1>5, RunMoves DEF Maint!End
<1>6. ASSUME NEW pc \in {"idle", "issue", "build", "send", "expired", "delete"},
             NEW users \in SUBSET User,
             Maint!Goto(r, pc, users), UNCHANGED <<config, past>>,
             row' \in [User -> RowOf(config)], \A v \in User : ~ row'[v].here => row'[v] = Maint!Gone,
             sinceRun' \in 0..config.gap, sinceMail' \in [User -> 0..Maint!Never]
      PROVE  Maint!TypeOK'
  <2> DEFINE p == [pc |-> pc, users |-> users, noLink |-> {}]
  <2>1. p \in CronRow /\ p.noLink \subseteq p.users /\ process' = [process EXCEPT ![r] = p]
    BY <1>2, <1>6 DEF Maint!Goto
  <2> HIDE DEF p
  <2> QED
    BY <1>6, <2>1, RunMoves
<1>7. CASE Maint!Start(r)
  <2> DEFINE users == {u \in User : Maint!Expiring(u)}
  <2>1. /\ Maint!Goto(r, "expired", {}) \/ Maint!Goto(r, "issue", users)
        /\ sinceRun' = 0 /\ UNCHANGED <<config, row, sinceMail, past>>
    BY <1>7 DEF Maint!Start, Maint!AfterWarning
  <2> QED
    BY <1>1, <1>4, <1>6, <2>1
<1>8. CASE Maint!Issue(r)
  <2> DEFINE users == process[r].users
  <2>1. CASE \A u \in users : Maint!Here(u)
    <3>1. /\ row' = [u \in User |-> IF u \in users THEN [row[u] EXCEPT !.token = config.ttl] ELSE row[u]]
          /\ Maint!Goto(r, "build", users) /\ UNCHANGED <<config, sinceRun, sinceMail, past>>
      BY <1>8, <2>1 DEF Maint!Issue
    <3>2. \A u \in User : row[u] \in RowOf(config)
      BY <1>1
    <3>3. row' \in [User -> RowOf(config)]
      BY <1>4, <3>1, <3>2 DEF RowOf
    <3>4. \A v \in User : ~ row'[v].here => row'[v] = Maint!Gone
      BY <1>1, <2>1, <3>1, <3>2 DEF RowOf, Maint!Here
    <3>5. users \in SUBSET User
      BY <1>1 DEF CronRow
    <3> QED
      BY <1>1, <1>6, <3>1, <3>3, <3>4, <3>5
  <2>2. CASE ~ \A u \in users : Maint!Here(u)
    BY <1>5, <1>8, <2>2 DEF Maint!Issue
  <2> QED
    BY <2>1, <2>2
<1>9. CASE Maint!Build(r)
  <2>1. CASE Maint!End(r)
    BY <1>5, <1>9, <2>1 DEF Maint!Build
  <2>2. CASE ~ Maint!End(r)
    <3> DEFINE N == {u \in process[r].users : row[u].token = 0}
               p == [process[r] EXCEPT !.pc = "send", !.noLink = N]
    <3>1. process' = [process EXCEPT ![r] = p] /\ UNCHANGED <<config, row, sinceRun, sinceMail, past>>
      BY <1>9, <2>2 DEF Maint!Build
    <3>2. p \in CronRow /\ p.noLink \subseteq p.users
      BY <1>1 DEF CronRow
    <3> HIDE DEF p
    <3> QED
      BY <1>1, <3>1, <3>2, RunMoves
  <2> QED
    BY <2>1, <2>2
<1>10. CASE Maint!Send(r)
  <2>1. PICK u \in process[r].users :
          \/ Maint!End(r) /\ UNCHANGED sinceMail
          \/ /\ u \notin process[r].noLink
             /\ process' = [process EXCEPT ![r].users = @ \ {u}]
             /\ sinceMail' = [sinceMail EXCEPT ![u] = 0] \/ UNCHANGED sinceMail
    BY <1>10 DEF Maint!Send
  <2>2. UNCHANGED <<config, row, sinceRun, past>>
    BY <1>10 DEF Maint!Send
  <2>3. CASE Maint!End(r) /\ UNCHANGED sinceMail
    BY <1>5, <2>2, <2>3
  <2>4. CASE /\ u \notin process[r].noLink
             /\ process' = [process EXCEPT ![r].users = @ \ {u}]
             /\ sinceMail' = [sinceMail EXCEPT ![u] = 0] \/ UNCHANGED sinceMail
    <3> DEFINE p == [process[r] EXCEPT !.users = @ \ {u}]
    <3>1. p \in CronRow /\ p.noLink \subseteq p.users /\ process' = [process EXCEPT ![r] = p]
      BY <1>1, <2>4 DEF CronRow
    <3>2. sinceMail' \in [User -> 0..Maint!Never]
      BY <1>1, <1>4, <2>4
    <3> HIDE DEF p
    <3> QED
      BY <1>1, <2>2, <3>1, <3>2, RunMoves
  <2> QED
    BY <2>1, <2>3, <2>4
<1>11. CASE Maint!Warned(r)
  BY <1>1, <1>6, <1>11 DEF Maint!Warned, Maint!AfterWarning
<1>12. CASE Maint!ReadExpired(r)
  <2> DEFINE users == {u \in User : Maint!Expired(u)}
  <2>1. Maint!End(r) \/ Maint!Goto(r, "delete", users)
    BY <1>12 DEF Maint!ReadExpired
  <2>2. UNCHANGED <<config, row, sinceRun, sinceMail, past>>
    BY <1>12 DEF Maint!ReadExpired
  <2> QED
    BY <1>1, <1>5, <1>6, <2>1, <2>2
<1>13. CASE Maint!Delete(r)
  <2>1. PICK batch \in SUBSET process[r].users :
          /\ row' = [u \in User |-> IF u \in batch THEN Maint!Gone ELSE row[u]]
          /\ Maint!End(r) \/ Maint!Goto(r, "delete", process[r].users \ batch)
    BY <1>13 DEF Maint!Delete
  <2>2. UNCHANGED <<config, sinceRun, sinceMail, past>>
    BY <1>13 DEF Maint!Delete
  <2>3. row' \in [User -> RowOf(config)] /\ \A v \in User : ~ row'[v].here => row'[v] = Maint!Gone
    <3>1. Maint!Gone \in RowOf(config)
      BY <1>1, GoneIsARow
    <3> QED
      BY <1>1, <2>1, <3>1
  <2>4. CASE Maint!End(r)
    BY <1>1, <1>3, <2>2, <2>3, <2>4, RunMoves DEF Maint!End
  <2>5. CASE Maint!Goto(r, "delete", process[r].users \ batch)
    <3>1. process[r].users \ batch \in SUBSET User
      BY <1>1 DEF CronRow
    <3> QED
      BY <1>1, <1>6, <2>2, <2>3, <2>5, <3>1
  <2> QED
    BY <2>1, <2>4, <2>5
<1>14. CASE Maint!Crash(r)
  BY <1>5, <1>14 DEF Maint!Crash
<1> QED
  BY <1>7, <1>8, <1>9, <1>10, <1>11, <1>12, <1>13, <1>14 DEF Maint!Cron


\* Something that is n old gets older.
LEMMA Ages ==
    ASSUME NEW m \in Nat, NEW n \in 0..m
    PROVE  (IF n < m THEN n + 1 ELSE n) \in 0..m
OBVIOUS

LEMMA TickType == Maint!ConfigAssumption /\ Maint!TypeOK /\ Maint!Tick => Maint!TypeOK'
<1> SUFFICES ASSUME Maint!ConfigAssumption, Maint!TypeOK, Maint!Tick PROVE Maint!TypeOK'
  OBVIOUS
<1> DEFINE Older(n) == IF n < Maint!Never THEN n + 1 ELSE n
           token(t) == IF t = 0 THEN 0 ELSE t - 1
           q(u) == [row[u] EXCEPT !.age = Older(@), !.seen = Older(@), !.token = token(@)]
<1>1. /\ config \in Config /\ row \in [User -> RowOf(config)] /\ sinceRun \in 0..config.gap
      /\ sinceMail \in [User -> 0..Maint!Never] /\ process \in [Run -> CronRow]
      /\ \A r \in Run : process[r].noLink \subseteq process[r].users
  BY Types DEF Maint!Never
<1>2. /\ row' = [u \in User |-> IF ~ Maint!Here(u) THEN Maint!Gone ELSE q(u)]
      /\ sinceMail' = [u \in User |-> Older(sinceMail[u])]
      /\ sinceRun' = IF sinceRun < config.gap THEN sinceRun + 1 ELSE sinceRun
      /\ UNCHANGED <<config, process, past>>
  BY DEF Maint!Tick
<1>3. Maint!Never \in Nat /\ config.gap \in Nat /\ config.ttl \in Nat
  BY <1>1, Numbers DEF Maint!Never
<1>4. /\ \A n \in 0..Maint!Never : Older(n) \in 0..Maint!Never
      /\ \A t \in 0..config.ttl : token(t) \in 0..config.ttl
  BY <1>3
<1>5. sinceRun' \in 0..config.gap
  <2>1. sinceRun \in Nat /\ sinceRun <= config.gap
    BY <1>1, <1>3
  <2>2. CASE sinceRun < config.gap
    <3>1. sinceRun' = sinceRun + 1
      BY <1>2, <2>2
    <3> QED
      BY <1>3, <2>1, <2>2, <3>1
  <2>3. CASE ~ (sinceRun < config.gap)
    BY <1>1, <1>2, <2>3
  <2> QED
    BY <2>2, <2>3
<1>6. sinceMail' \in [User -> 0..Maint!Never]
  <2> HIDE DEF Older
  <2> QED
    BY <1>1, <1>2, <1>4
<1>7. ASSUME NEW u \in User
      PROVE  q(u) \in RowOf(config) /\ q(u).here = row[u].here
  <2>1. /\ row[u] \in [here : BOOLEAN, age : 0..Maint!Never, seen : 0..Maint!Never, token : 0..config.ttl,
                       verified : BOOLEAN, suspended : BOOLEAN, content : BOOLEAN]
    BY <1>1 DEF RowOf, Maint!Never
  <2>2. /\ Older(row[u].age) \in 0..Maint!Never /\ Older(row[u].seen) \in 0..Maint!Never
        /\ token(row[u].token) \in 0..config.ttl
    BY <1>4, <2>1
  <2> HIDE DEF Older, token
  <2>3. q(u) \in [here : BOOLEAN, age : 0..Maint!Never, seen : 0..Maint!Never, token : 0..config.ttl,
                  verified : BOOLEAN, suspended : BOOLEAN, content : BOOLEAN]
    BY <2>1, <2>2
  <2> QED
    BY <2>1, <2>3 DEF RowOf, Maint!Never
<1>8. row' \in [User -> RowOf(config)] /\ \A v \in User : ~ row'[v].here => row'[v] = Maint!Gone
  <2> HIDE DEF q
  <2>1. Maint!Gone \in RowOf(config)
    BY <1>1, GoneIsARow
  <2> QED
    BY <1>2, <1>7, <2>1 DEF Maint!Here
<1>9. Maint!Never' = Maint!Never
  BY <1>2 DEF Maint!Never
<1> QED
  BY <1>1, <1>2, <1>5, <1>6, <1>8, <1>9 DEF Maint!TypeOK, RowOf, CronRow, Maint!Here, Maint!Never

\* The configurations and the rows, the runs and the ages of the reminders have
\* their types; a row that is gone holds nothing, and a run lacks links only to
\* accounts that it is to mail.
THEOREM AccountTypes == Maint!ConfigAssumption => (Maint!Spec => []Maint!TypeOK)
<1> SUFFICES ASSUME Maint!ConfigAssumption PROVE Maint!Spec => []Maint!TypeOK
  OBVIOUS
<1>1. Maint!Init => Maint!TypeOK
  <2> SUFFICES ASSUME Maint!Init PROVE Maint!TypeOK
    OBVIOUS
  <2>1. /\ config \in Config /\ row = [u \in User |-> Maint!Gone] /\ sinceRun = 0
        /\ process = [r \in Run |-> Maint!IdleRun] /\ sinceMail = [u \in User |-> Maint!Never]
        /\ past = [u \in User |-> {}]
    BY DEF Maint!Init
  <2>2. Maint!Gone \in RowOf(config) /\ Maint!Never \in 0..Maint!Never /\ 0 \in 0..config.gap
    <3>1. Maint!Never \in Nat /\ config.gap \in Nat
      BY <2>1, Numbers DEF Maint!Never
    <3>2. Maint!Gone \in RowOf(config)
      BY <2>1, GoneIsARow
    <3>3. Maint!Never \in 0..Maint!Never /\ 0 \in 0..config.gap
      BY <3>1
    <3> QED
      BY <3>2, <3>3
  <2>3. row \in [User -> RowOf(config)] /\ \A u \in User : row[u] = Maint!Gone
    BY <2>1, <2>2
  <2>4. process \in [Run -> CronRow] /\ \A r \in Run : process[r].noLink \subseteq process[r].users
    BY <2>1 DEF Maint!IdleRun, CronRow
  <2> QED
    BY <2>1, <2>2, <2>3, <2>4 DEF Maint!TypeOK, RowOf, CronRow, Maint!Here, Maint!Never
<1>2. Maint!TypeOK /\ [Maint!Next]_(Maint!vars) => Maint!TypeOK'
  <2> SUFFICES ASSUME Maint!TypeOK, [Maint!Next]_(Maint!vars) PROVE Maint!TypeOK'
    OBVIOUS
  <2>1. CASE UNCHANGED Maint!vars
    BY <2>1 DEF Maint!vars, Maint!TypeOK, Maint!Here, Maint!Never
  <2>2. CASE Maint!Tick
    BY <2>2, TickType
  <2>3. ASSUME NEW u \in User, UserActs(u)
        PROVE  Maint!TypeOK'
    BY <2>3, UserType
  <2>4. ASSUME NEW r \in Run, Maint!Cron(r) \/ Maint!Crash(r)
        PROVE  Maint!TypeOK'
    BY <2>4, RunType
  <2> QED
    BY <2>1, <2>2, <2>3, <2>4 DEF Maint!Next, UserActs
<1> QED
  BY <1>1, <1>2, PTL DEF Maint!Spec

-----------------------------------------------------------------------------
(* Mails.  A token that has run out is as old as its TTL, and so is the    *)
(* reminder that came with it: a run reads nobody who got one within the   *)
(* TTL, and those it reads have their new token before the mail goes out.  *)

Reminds(p, u) == p.pc \in {"issue", "build", "send"} /\ u \in p.users

\* Run p, the row q of u, whose last reminder is n old; t is the TTL.
MailOK(p, u, q, n, t) ==
    /\ q.here /\ ~ q.verified => q.token + n >= t
    /\ Reminds(p, u) => n >= t
    /\ Reminds(p, u) /\ p.pc # "issue" /\ q.here /\ ~ q.verified => q.token = t

IMail == \A r \in Run, u \in User : MailOK(process[r], u, row[u], sinceMail[u], config.ttl)

OneRun == \A r, s \in Run : r = s

LEMMA Fields ==
    ASSUME Maint!ConfigAssumption, Maint!TypeOK, NEW u \in User
    PROVE  /\ config.ttl \in Nat /\ config.ttl >= 1 /\ Maint!Never \in Nat /\ Maint!Never > config.ttl
           /\ row[u].token \in Nat /\ row[u].token <= config.ttl
           /\ sinceMail[u] \in Nat /\ sinceMail[u] <= Maint!Never
           /\ row[u].here \in BOOLEAN /\ row[u].verified \in BOOLEAN
<1>1. config \in Config /\ row[u] \in RowOf(config) /\ sinceMail[u] \in 0..Maint!Never
  BY Types DEF Maint!Never
<1>2. /\ row[u].token \in 0..config.ttl
      /\ row[u].here \in BOOLEAN /\ row[u].verified \in BOOLEAN
  BY <1>1 DEF RowOf
<1>3. /\ config.ttl \in Nat /\ config.ttl >= 1 /\ Maint!Never \in Nat /\ Maint!Never > config.ttl
  <2>1. config.warning \in Nat /\ Maint!Max(config) > config.warning + config.ttl /\ config.ttl \in Nat
        /\ config.ttl >= 1 /\ Maint!Max(config) \in Nat
    BY <1>1, Numbers
  <2> QED
    BY <2>1 DEF Maint!Never
<1> QED
  BY <1>1, <1>2, <1>3

\* A new row has a new token and no reminder.
LEMMA UserMails ==
    ASSUME Maint!ConfigAssumption, Maint!TypeOK, IMail, NEW u \in User, UserActs(u)
    PROVE  IMail'
<1>1. row \in [User -> RowOf(config)] /\ sinceMail \in [User -> 0..Maint!Never]
  BY Types DEF Maint!Never
<1>2. UNCHANGED <<config, process>>
  BY DEF UserActs, Maint!Register, Maint!Login, Maint!Verify, Maint!ChangeEmail, Maint!Suspend,
         Maint!AddContent
<1>3. ASSUME NEW r \in Run, NEW v \in User, v # u
      PROVE  MailOK(process[r], v, row'[v], sinceMail'[v], config.ttl)
  <2>1. row'[v] = row[v] /\ sinceMail'[v] = sinceMail[v]
    BY <1>1, <1>3
         DEF UserActs, Maint!Register, Maint!Login, Maint!Verify, Maint!ChangeEmail,
             Maint!Suspend, Maint!AddContent, Maint!Change
  <2> QED
    BY <2>1 DEF IMail
<1>4. ASSUME NEW r \in Run
      PROVE  MailOK(process[r], u, row'[u], sinceMail'[u], config.ttl)
  <2>1. MailOK(process[r], u, row[u], sinceMail[u], config.ttl)
    BY DEF IMail
  <2>2. row[u] \in RowOf(config)
    BY <1>1
  <2>3. CASE Maint!Register(u)
    <3>1. row'[u] = [Maint!Gone EXCEPT !.here = TRUE, !.token = config.ttl, !.seen = Maint!Never]
          /\ sinceMail'[u] = Maint!Never
      BY <1>1, <2>3 DEF Maint!Register, Maint!Change
    <3>2. row'[u].token = config.ttl
      BY <3>1 DEF Maint!Gone
    <3> QED
      BY <3>1, <3>2, Fields DEF MailOK
  <2>4. CASE Maint!ChangeEmail(u)
    <3>1. row'[u] = [row[u] EXCEPT !.verified = FALSE, !.token = config.ttl]
          /\ sinceMail'[u] = sinceMail[u]
      BY <1>1, <2>4 DEF Maint!ChangeEmail, Maint!Change
    <3>2. row'[u].token = config.ttl
      BY <2>2, <3>1 DEF RowOf
    <3> QED
      BY <2>1, <3>1, <3>2, Fields DEF MailOK
  <2>5. CASE Maint!Verify(u)
    <3>1. row'[u] = [row[u] EXCEPT !.verified = TRUE, !.token = 0] /\ sinceMail'[u] = sinceMail[u]
      BY <1>1, <2>5 DEF Maint!Verify, Maint!Change
    <3>2. row'[u].verified
      BY <2>2, <3>1 DEF RowOf
    <3> QED
      BY <2>1, <3>1, <3>2 DEF MailOK
  <2>6. CASE Maint!Login(u) \/ Maint!Suspend(u) \/ Maint!AddContent(u)
    <3>1. /\ \/ row'[u] = [row[u] EXCEPT !.seen = 0]
             \/ row'[u] = [row[u] EXCEPT !.suspended = TRUE]
             \/ row'[u] = [row[u] EXCEPT !.content = TRUE]
          /\ sinceMail'[u] = sinceMail[u]
      BY <1>1, <2>6 DEF Maint!Login, Maint!Suspend, Maint!AddContent, Maint!Change
    <3>2. /\ row'[u].here = row[u].here /\ row'[u].verified = row[u].verified
          /\ row'[u].token = row[u].token
      BY <2>2, <3>1 DEF RowOf
    <3> QED
      BY <2>1, <3>1, <3>2 DEF MailOK
  <2> QED
    BY <2>3, <2>4, <2>5, <2>6 DEF UserActs
<1> QED
  BY <1>2, <1>3, <1>4 DEF IMail

\* While time passes no run is under way; tokens get shorter and reminders older.
LEMMA TickMails ==
    ASSUME Maint!ConfigAssumption, Maint!TypeOK, IMail, Maint!Tick
    PROVE  IMail'
<1>1. UNCHANGED <<config, process>> /\ \A r \in Run : process[r].pc = "idle"
  BY DEF Maint!Tick
<1>2. ASSUME NEW u \in User, row'[u].here, ~ row'[u].verified, NEW r \in Run
      PROVE  row'[u].token + sinceMail'[u] >= config.ttl
  <2> DEFINE token(t) == IF t = 0 THEN 0 ELSE t - 1
             Older(n) == IF n < Maint!Never THEN n + 1 ELSE n
  <2>1. row[u] \in RowOf(config)
    BY Types
  <2>2. sinceMail'[u] = Older(sinceMail[u])
    BY DEF Maint!Tick
  <2>3. row'[u] = IF ~ row[u].here THEN Maint!Gone
                  ELSE [row[u] EXCEPT !.age = Older(@), !.seen = Older(@), !.token = token(@)]
    BY DEF Maint!Tick, Maint!Here
  <2>4. row[u].here
    BY <1>2, <2>3 DEF Maint!Gone
  <2> HIDE DEF token, Older
  <2>5. row'[u].verified = row[u].verified /\ row'[u].token = token(row[u].token)
    BY <2>1, <2>3, <2>4 DEF RowOf
  <2>6. row[u].token + sinceMail[u] >= config.ttl
    BY <1>2, <2>4, <2>5 DEF IMail, MailOK
  <2> QED
    BY <2>2, <2>5, <2>6, Fields DEF token, Older
<1>3. ASSUME NEW r \in Run, NEW u \in User
      PROVE  MailOK(process[r], u, row'[u], sinceMail'[u], config.ttl)
  BY <1>1, <1>2 DEF MailOK, Reminds
<1> QED
  BY <1>1, <1>3 DEF IMail

\* A row that is as it was, and a run that reminds nobody of its own.
LEMMA MailStays ==
    ASSUME NEW p, NEW u, NEW q, NEW n, NEW t, MailOK(p, u, q, n, t),
           NEW p2, Reminds(p2, u) => p2.pc # "issue" /\ p.pc # "issue" /\ Reminds(p, u)
    PROVE  MailOK(p2, u, q, n, t)
BY DEF MailOK

LEMMA RunMails ==
    ASSUME Maint!ConfigAssumption, Maint!TypeOK, IMail, OneRun, NEW r \in Run,
           Maint!Cron(r) \/ Maint!Crash(r)
    PROVE  IMail'
<1>1. /\ row \in [User -> RowOf(config)] /\ sinceMail \in [User -> 0..Maint!Never]
      /\ process \in [Run -> CronRow] /\ process[r].users \in SUBSET User
  BY Types DEF Maint!Never, CronRow
<1>2. config' = config
  BY DEF Maint!Cron, Maint!Crash, Maint!Start, Maint!Issue, Maint!Build, Maint!Send, Maint!Warned,
         Maint!ReadExpired, Maint!Delete
<1>3. SUFFICES ASSUME NEW u \in User
               PROVE  MailOK(process'[r], u, row'[u], sinceMail'[u], config.ttl)
  BY <1>2 DEF IMail, OneRun
<1>4. MailOK(process[r], u, row[u], sinceMail[u], config.ttl)
  BY DEF IMail
<1>5. ASSUME process'[r].pc \notin {"issue", "build", "send"}, UNCHANGED <<row, sinceMail>>
      PROVE  MailOK(process'[r], u, row'[u], sinceMail'[u], config.ttl)
  BY <1>4, <1>5 DEF MailOK, Reminds
<1>6. Maint!End(r) => process'[r].pc = "idle"
  BY <1>1 DEF Maint!End, Maint!IdleRun
<1>7. ASSUME NEW pc, NEW users, Maint!Goto(r, pc, users)
      PROVE  process'[r].pc = pc /\ process'[r].users = users
  BY <1>1, <1>7 DEF Maint!Goto
<1>8. CASE Maint!Start(r)
  <2> DEFINE users == {v \in User : Maint!Expiring(v)}
  <2>1. Maint!Goto(r, "expired", {}) \/ Maint!Goto(r, "issue", users)
    BY <1>8 DEF Maint!Start, Maint!AfterWarning
  <2>2. UNCHANGED <<row, sinceMail>>
    BY <1>8 DEF Maint!Start
  <2>3. CASE Maint!Goto(r, "expired", {})
    BY <1>5, <1>7, <2>2, <2>3
  <2>4. CASE Maint!Goto(r, "issue", users)
    <3>1. process'[r].pc = "issue" /\ process'[r].users = users
      BY <1>7, <2>4
    <3>2. u \in users => row[u].token = 0 /\ row[u].here /\ ~ row[u].verified
      BY DEF Maint!Expiring, Maint!Doomed, Maint!Here
    <3>3. u \in users => sinceMail[u] >= config.ttl
      BY <1>4, <3>2, Fields DEF MailOK
    <3> QED
      BY <1>4, <2>2, <3>1, <3>3 DEF MailOK, Reminds
  <2> QED
    BY <2>1, <2>3, <2>4
<1>9. CASE Maint!Issue(r)
  <2>1. process[r].pc = "issue" /\ sinceMail' = sinceMail
    BY <1>9 DEF Maint!Issue
  <2>2. CASE Maint!End(r) /\ UNCHANGED row
    BY <1>5, <1>6, <2>1, <2>2
  <2>3. CASE ~ (Maint!End(r) /\ UNCHANGED row)
    <3>1. /\ row'[u] = IF u \in process[r].users THEN [row[u] EXCEPT !.token = config.ttl] ELSE row[u]
          /\ Maint!Goto(r, "build", process[r].users)
      BY <1>9, <2>3 DEF Maint!Issue
    <3>2. process'[r].pc = "build" /\ process'[r].users = process[r].users
      BY <1>7, <3>1
    <3>3. CASE u \notin process[r].users
      BY <1>4, <2>1, <3>1, <3>2, <3>3 DEF MailOK, Reminds
    <3>4. CASE u \in process[r].users
      <4>1. row'[u].token = config.ttl
        BY <1>1, <3>1, <3>4 DEF RowOf
      <4> QED
        BY <1>4, <2>1, <3>2, <3>4, <4>1, Fields DEF MailOK, Reminds
    <3> QED
      BY <3>3, <3>4
  <2> QED
    BY <2>2, <2>3
<1>10. CASE Maint!Build(r)
  <2>1. process[r].pc = "build" /\ UNCHANGED <<row, sinceMail>>
    BY <1>10 DEF Maint!Build
  <2>2. CASE Maint!End(r)
    BY <1>5, <1>6, <2>1, <2>2
  <2>3. CASE ~ Maint!End(r)
    <3>1. process'[r].pc = "send" /\ process'[r].users = process[r].users
      BY <1>1, <1>10, <2>3 DEF Maint!Build, CronRow
    <3> QED
      BY <1>4, <2>1, <3>1 DEF MailOK, Reminds
  <2> QED
    BY <2>2, <2>3
<1>11. CASE Maint!Send(r)
  <2>1. process[r].pc = "send" /\ row' = row
    BY <1>11 DEF Maint!Send
  <2>2. PICK v \in process[r].users :
          \/ Maint!End(r) /\ UNCHANGED sinceMail
          \/ /\ process' = [process EXCEPT ![r].users = @ \ {v}]
             /\ sinceMail' = [sinceMail EXCEPT ![v] = 0] \/ UNCHANGED sinceMail
    BY <1>11 DEF Maint!Send
  <2>3. CASE Maint!End(r) /\ UNCHANGED sinceMail
    BY <1>5, <1>6, <2>1, <2>3
  <2>4. CASE /\ process' = [process EXCEPT ![r].users = @ \ {v}]
             /\ sinceMail' = [sinceMail EXCEPT ![v] = 0] \/ UNCHANGED sinceMail
    <3>1. process'[r].pc = "send" /\ process'[r].users = process[r].users \ {v}
      BY <1>1, <2>1, <2>4 DEF CronRow
    <3>2. CASE u # v
      <4>1. sinceMail'[u] = sinceMail[u]
        BY <1>1, <2>4, <3>2
      <4> QED
        BY <1>4, <2>1, <3>1, <4>1 DEF MailOK, Reminds
    <3>3. CASE u = v
      <4>1. sinceMail'[u] = 0 \/ sinceMail'[u] = sinceMail[u]
        BY <1>1, <2>4, <3>3
      <4>2. ~ Reminds(process'[r], u)
        BY <3>1, <3>3 DEF Reminds
      <4>3. row[u].here /\ ~ row[u].verified => row[u].token = config.ttl
        BY <1>4, <2>1, <2>2, <3>3 DEF MailOK, Reminds
      <4> QED
        BY <1>4, <2>1, <4>1, <4>2, <4>3, Fields DEF MailOK
    <3> QED
      BY <3>2, <3>3
  <2> QED
    BY <2>2, <2>3, <2>4
<1>12. CASE Maint!Warned(r)
  BY <1>5, <1>7, <1>12 DEF Maint!Warned, Maint!AfterWarning
<1>13. CASE Maint!ReadExpired(r)
  BY <1>5, <1>6, <1>7, <1>13 DEF Maint!ReadExpired
<1>14. CASE Maint!Delete(r)
  <2>1. PICK batch \in SUBSET process[r].users :
          /\ row' = [v \in User |-> IF v \in batch THEN Maint!Gone ELSE row[v]]
          /\ Maint!End(r) \/ Maint!Goto(r, "delete", process[r].users \ batch)
    BY <1>14 DEF Maint!Delete
  <2>2. sinceMail' = sinceMail
    BY <1>14 DEF Maint!Delete
  <2>3. process'[r].pc \in {"idle", "delete"}
    BY <1>6, <1>7, <2>1
  <2>4. ~ row'[u].here \/ row'[u] = row[u]
    BY <2>1 DEF Maint!Gone
  <2> QED
    BY <1>4, <2>2, <2>3, <2>4 DEF MailOK, Reminds
<1>15. CASE Maint!Crash(r)
  BY <1>5, <1>6, <1>15 DEF Maint!Crash
<1> QED
  BY <1>8, <1>9, <1>10, <1>11, <1>12, <1>13, <1>14, <1>15 DEF Maint!Cron

\* While one run of the script works at a time, an account is mailed at most
\* once per token TTL (_warn), whatever runs are killed, whatever mails are lost
\* and whatever users do between the steps of a run: register, log in, verify,
\* change their address, be suspended and add content.
THEOREM MailsOncePerTtl ==
    Maint!ConfigAssumption /\ OneRun => (Maint!Spec => [][Maint!StepMailsOncePerTtl]_(Maint!vars))
<1> SUFFICES ASSUME Maint!ConfigAssumption, OneRun
             PROVE  Maint!Spec => [][Maint!StepMailsOncePerTtl]_(Maint!vars)
  OBVIOUS
<1>1. Maint!Init /\ Maint!TypeOK => IMail
  <2> SUFFICES ASSUME Maint!Init, Maint!TypeOK, NEW r \in Run, NEW u \in User
               PROVE  MailOK(process[r], u, row[u], sinceMail[u], config.ttl)
    BY DEF IMail
  <2>1. ~ row[u].here /\ process[r].pc = "idle"
    BY DEF Maint!Init, Maint!Gone, Maint!IdleRun
  <2> QED
    BY <2>1 DEF MailOK, Reminds
<1>2. Maint!TypeOK /\ IMail /\ [Maint!Next]_(Maint!vars) => IMail'
  <2> SUFFICES ASSUME Maint!TypeOK, IMail, [Maint!Next]_(Maint!vars) PROVE IMail'
    OBVIOUS
  <2>1. CASE UNCHANGED Maint!vars
    BY <2>1 DEF Maint!vars, IMail
  <2>2. CASE Maint!Tick
    BY <2>2, TickMails
  <2>3. ASSUME NEW u \in User, UserActs(u)
        PROVE  IMail'
    BY <2>3, UserMails
  <2>4. ASSUME NEW r \in Run, Maint!Cron(r) \/ Maint!Crash(r)
        PROVE  IMail'
    BY <2>4, RunMails
  <2> QED
    BY <2>1, <2>2, <2>3, <2>4 DEF Maint!Next, UserActs
<1>3. IMail => Maint!StepMailsOncePerTtl
  BY DEF IMail, MailOK, Reminds, Maint!StepMailsOncePerTtl
<1> QED
  BY <1>1, <1>2, <1>3, AccountTypes, PTL DEF Maint!Spec

-----------------------------------------------------------------------------
(* Warnings.  An account that waits and was never mailed is not older than  *)
(* the warning by more than the time since the last run, for that run would *)
(* have read it; and while it waits its reminder does not get so old that   *)
(* it counts as none.                                                      *)

Accepts(c) == c.warning < c.lifetime /\ c.ttl < c.warning

\* A row that runs read: to remind its account while it has that age, and to
\* delete it later.
Waits(q, u) ==
    q.here /\ ~ q.verified /\ ~ q.suspended /\ ~ q.content /\ u \notin Elevated

\* In what follows c is the configuration, p the run, s how long ago it started,
\* q the row of u, n the age of its last reminder and h its past.

BasicOK(c, p, s, q, h) ==
    /\ p.pc # "idle" => s = 0 /\ Accepts(c)
    /\ "login" \notin h
    /\ q.here => q.seen = Maint!Max(c)
    /\ q.suspended => "suspended" \in h /\ "suspend" \in Ops
    /\ q.verified => "verify" \in Ops

\* Who is read to be reminded stays so: nothing deletes its row.
ReadOK(c, u, p, q) ==
    Reminds(p, u) =>
        /\ q.here /\ c.warning < q.age
        /\ p.pc = "build" /\ ~ q.verified => q.token = c.ttl
        /\ u \in p.noLink => q.verified

AgeOK(c, u, p, s, q, n) ==
    Waits(q, u) /\ n = Maint!Max(c) =>
        q.age <= c.warning + (IF Reminds(p, u) THEN c.ttl ELSE s)

\* The token it was registered with has run out by the time of the warning.
TokenOK(c, u, p, q, n) ==
    Waits(q, u) /\ n = Maint!Max(c) /\ ~ (Reminds(p, u) /\ p.pc # "issue") =>
        q.token = 0 \/ q.token + q.age <= c.ttl

ReminderOK(c, u, p, s, q, n) ==
    Waits(q, u) /\ n # Maint!Max(c) =>
        /\ q.age > c.lifetime \/ n + c.warning < q.age
        /\ n + c.warning <= c.lifetime + (IF p.pc = "idle" THEN s ELSE c.gap)

DeleteOK(c, u, p, q, n, h) ==
    p.pc = "delete" =>
        /\ u \in p.users => q.here /\ (n # Maint!Max(c) \/ "suspended" \in h)
        /\ Waits(q, u) /\ q.age > c.lifetime => u \in p.users

WarnOK(c, u, p, s, q, n, h) ==
    /\ BasicOK(c, p, s, q, h)
    /\ Accepts(c) => /\ ReadOK(c, u, p, q)
                     /\ AgeOK(c, u, p, s, q, n)
                     /\ TokenOK(c, u, p, q, n)
                     /\ ReminderOK(c, u, p, s, q, n)
                     /\ DeleteOK(c, u, p, q, n, h)

IWarn == \A r \in Run, u \in User :
            WarnOK(config, u, process[r], sinceRun, row[u], sinceMail[u], past[u])

\* What a run ends for, before it has mailed those it read, must not happen to
\* an account beside another: a suspension, or a verification.
Undisturbed ==
    /\ OneRun /\ Faults = {} /\ "login" \notin Ops
    /\ (\A u, v \in User : u = v) \/ {"verify", "suspend"} \cap Ops = {}

\* The numbers in the state.
LEMMA Figures ==
    ASSUME Maint!ConfigAssumption, Maint!TypeOK, NEW u \in User
    PROVE  /\ config.lifetime \in Nat /\ config.warning \in Nat /\ config.ttl \in Nat
           /\ config.ttl >= 1 /\ config.gap \in Nat /\ config.gap <= config.ttl
           /\ Maint!Max(config) \in Nat /\ Maint!Max(config) > config.lifetime
           /\ Maint!Max(config) > config.warning + config.ttl
           /\ sinceRun \in Nat /\ sinceRun <= config.gap
           /\ row[u].token \in Nat /\ row[u].age \in Nat /\ row[u].age <= Maint!Max(config)
           /\ sinceMail[u] \in Nat /\ sinceMail[u] <= Maint!Max(config)
<1>1. /\ config \in Config /\ row[u] \in RowOf(config) /\ sinceMail[u] \in 0..Maint!Max(config)
      /\ sinceRun \in 0..config.gap
  BY Types
<1>2. row[u].token \in 0..config.ttl /\ row[u].age \in 0..Maint!Max(config)
  BY <1>1 DEF RowOf
<1> QED
  BY <1>1, <1>2, Numbers

LEMMA UserWarns ==
    ASSUME Maint!ConfigAssumption, Maint!TypeOK, IWarn, Undisturbed, NEW u \in User, UserActs(u)
    PROVE  IWarn' /\ \A v \in User : row[v].here => row'[v].here
<1>1. /\ row \in [User -> RowOf(config)] /\ sinceMail \in [User -> 0..Maint!Never]
      /\ past \in [User -> SUBSET {"login", "verified", "suspended"}]
  BY Types DEF Maint!Never, Maint!TypeOK
<1>2. UNCHANGED <<config, process, sinceRun>>
  BY DEF UserActs, Maint!Register, Maint!Login, Maint!Verify, Maint!ChangeEmail, Maint!Suspend,
         Maint!AddContent
<1>3. ASSUME NEW v \in User, v # u
      PROVE  row'[v] = row[v] /\ sinceMail'[v] = sinceMail[v] /\ past'[v] = past[v]
  BY <1>1, <1>3
       DEF UserActs, Maint!Register, Maint!Login, Maint!Verify, Maint!ChangeEmail, Maint!Suspend,
           Maint!AddContent, Maint!Change, Maint!Did
<1> DEFINE W(r) == WarnOK(config, u, process[r], sinceRun, row'[u], sinceMail'[u], past'[u])
<1>4. row[u] \in RowOf(config)
  BY <1>1
<1>5. \A r \in Run : WarnOK(config, u, process[r], sinceRun, row[u], sinceMail[u], past[u])
  BY DEF IWarn
<1>6. CASE Maint!Register(u)
  <2>1. row'[u] = [Maint!Gone EXCEPT !.here = TRUE, !.token = config.ttl, !.seen = Maint!Never]
        /\ sinceMail'[u] = Maint!Never /\ past'[u] = {} /\ ~ row[u].here
    BY <1>1, <1>6 DEF Maint!Register, Maint!Change, Maint!Here
  <2>2. /\ row'[u].here /\ ~ row'[u].verified /\ ~ row'[u].suspended /\ row'[u].age = 0
        /\ row'[u].seen = Maint!Max(config) /\ row'[u].token = config.ttl
    BY <2>1 DEF Maint!Gone, Maint!Never
  <2>3. ASSUME NEW r \in Run PROVE W(r)
    <3>1. BasicOK(config, process[r], sinceRun, row'[u], past'[u])
      BY <1>5, <2>1, <2>2 DEF WarnOK, BasicOK
    <3>2. ASSUME Accepts(config)
          PROVE  ~ Reminds(process[r], u) /\ ~ (process[r].pc = "delete" /\ u \in process[r].users)
      BY <1>5, <2>1, <3>2 DEF WarnOK, ReadOK, DeleteOK
    <3>3. ASSUME Accepts(config)
          PROVE  /\ AgeOK(config, u, process[r], sinceRun, row'[u], sinceMail'[u])
                 /\ TokenOK(config, u, process[r], row'[u], sinceMail'[u])
                 /\ ReminderOK(config, u, process[r], sinceRun, row'[u], sinceMail'[u])
                 /\ ReadOK(config, u, process[r], row'[u])
                 /\ DeleteOK(config, u, process[r], row'[u], sinceMail'[u], past'[u])
      BY <2>1, <2>2, <3>2, <3>3, Figures
           DEF AgeOK, TokenOK, ReminderOK, ReadOK, DeleteOK, Maint!Never
    <3> QED
      BY <3>1, <3>3 DEF WarnOK
  <2> QED
    BY <1>2, <1>3, <2>2, <2>3 DEF IWarn
<1>7. CASE Maint!Verify(u) \/ Maint!Suspend(u) \/ Maint!AddContent(u)
  <2>1. /\ sinceMail'[u] = sinceMail[u] /\ row[u].here
        /\ \/ row'[u] = [row[u] EXCEPT !.verified = TRUE, !.token = 0] /\ "verify" \in Ops
              /\ past'[u] = past[u] \cup {"verified"}
           \/ row'[u] = [row[u] EXCEPT !.suspended = TRUE] /\ "suspend" \in Ops
              /\ past'[u] = past[u] \cup {"suspended"}
           \/ row'[u] = [row[u] EXCEPT !.content = TRUE] /\ past'[u] = past[u]
    BY <1>1, <1>7
         DEF Maint!Verify, Maint!Suspend, Maint!AddContent, Maint!Change, Maint!Did, Maint!Here
  <2>2. /\ row'[u].here /\ row'[u].age = row[u].age /\ row'[u].seen = row[u].seen
        /\ (row'[u].verified = row[u].verified /\ row'[u].token = row[u].token) \/ row'[u].verified
        /\ row[u].verified => row'[u].verified
        /\ ~ Waits(row'[u], u)
    BY <1>4, <2>1 DEF RowOf, Waits
  <2>3. /\ past[u] \subseteq past'[u] /\ ("login" \in past'[u] => "login" \in past[u])
        /\ row'[u].suspended => row[u].suspended \/ ("suspended" \in past'[u] /\ "suspend" \in Ops)
        /\ row'[u].verified => row[u].verified \/ "verify" \in Ops
    BY <1>4, <2>1 DEF RowOf
  <2>4. ASSUME NEW r \in Run PROVE W(r)
    <3>1. BasicOK(config, process[r], sinceRun, row'[u], past'[u])
      BY <1>5, <2>1, <2>2, <2>3 DEF WarnOK, BasicOK
    <3>2. ASSUME Accepts(config)
          PROVE  /\ AgeOK(config, u, process[r], sinceRun, row'[u], sinceMail'[u])
                 /\ TokenOK(config, u, process[r], row'[u], sinceMail'[u])
                 /\ ReminderOK(config, u, process[r], sinceRun, row'[u], sinceMail'[u])
      BY <2>2 DEF AgeOK, TokenOK, ReminderOK
    <3>3. ASSUME Accepts(config) PROVE ReadOK(config, u, process[r], row'[u])
      BY <1>5, <2>2, <3>3 DEF WarnOK, ReadOK
    <3>4. ASSUME Accepts(config) PROVE DeleteOK(config, u, process[r], row'[u], sinceMail'[u], past'[u])
      BY <1>5, <2>1, <2>2, <2>3, <3>4 DEF WarnOK, DeleteOK
    <3> QED
      BY <3>1, <3>2, <3>3, <3>4 DEF WarnOK
  <2> QED
    BY <1>2, <1>3, <2>2, <2>4 DEF IWarn
<1>8. CASE Maint!ChangeEmail(u) /\ Run # {}
  BY <1>5, <1>8 DEF Maint!ChangeEmail, WarnOK, BasicOK
<1>9. CASE Maint!ChangeEmail(u) /\ Run = {}
  <2>1. row'[u] = [row[u] EXCEPT !.verified = FALSE, !.token = config.ttl]
    BY <1>1, <1>9 DEF Maint!ChangeEmail, Maint!Change
  <2>2. row'[u].here = row[u].here
    BY <1>4, <2>1 DEF RowOf
  <2> QED
    BY <1>3, <1>9, <2>2 DEF IWarn
<1>10. CASE Maint!Login(u)
  BY <1>10 DEF Maint!Login, Undisturbed
<1> QED
  BY <1>6, <1>7, <1>8, <1>9, <1>10 DEF UserActs

LEMMA TickWarns ==
    ASSUME Maint!ConfigAssumption, Maint!TypeOK, IWarn, Maint!Tick
    PROVE  IWarn' /\ \A v \in User : row[v].here => row'[v].here
<1>1. UNCHANGED <<config, process, past>> /\ \A r \in Run : process[r].pc = "idle"
  BY DEF Maint!Tick
<1> DEFINE token(t) == IF t = 0 THEN 0 ELSE t - 1
           Older(n) == IF n < Maint!Never THEN n + 1 ELSE n
<1>2. ASSUME NEW u \in User
      PROVE  /\ sinceMail'[u] = Older(sinceMail[u])
             /\ row'[u].here = row[u].here
             /\ ~ row[u].here => row'[u] = Maint!Gone
             /\ row[u].here =>
                  row'[u] = [row[u] EXCEPT !.age = Older(@), !.seen = Older(@), !.token = token(@)]
  <2>1. /\ sinceMail'[u] = Older(sinceMail[u])
        /\ row'[u] = IF ~ row[u].here THEN Maint!Gone
                     ELSE [row[u] EXCEPT !.age = Older(@), !.seen = Older(@), !.token = token(@)]
    BY DEF Maint!Tick, Maint!Here
  <2>2. row[u] \in RowOf(config)
    BY Types
  <2> HIDE DEF token, Older
  <2>3. CASE row[u].here
    BY <2>1, <2>2, <2>3 DEF RowOf
  <2>4. CASE ~ row[u].here
    <3>1. row'[u] = Maint!Gone
      BY <2>1, <2>4
    <3>2. row'[u].here = FALSE
      BY <3>1 DEF Maint!Gone
    <3>3. row[u].here = FALSE
      BY <2>2, <2>4 DEF RowOf
    <3> QED
      BY <2>1, <2>4, <3>1, <3>2, <3>3
  <2> QED
    BY <2>3, <2>4
<1> HIDE DEF token, Older
<1>3. ASSUME NEW u \in User, NEW r \in Run
      PROVE  WarnOK(config, u, process[r], sinceRun', row'[u], sinceMail'[u], past[u])
  <2>1. row[u] \in RowOf(config) /\ WarnOK(config, u, process[r], sinceRun, row[u], sinceMail[u], past[u])
        /\ process[r].pc = "idle"
    BY <1>1, Types DEF IWarn
  <2>2. ~ Reminds(process[r], u)
    BY <2>1 DEF Reminds
  <2>3. CASE ~ row[u].here
    <3>1. ~ row'[u].here /\ ~ row'[u].suspended /\ ~ row'[u].verified
      <4>1. row'[u] = Maint!Gone
        BY <1>2, <2>3
      <4> QED
        BY <4>1 DEF Maint!Gone
    <3> QED
      BY <2>1, <2>2, <3>1 DEF WarnOK, BasicOK, ReadOK, AgeOK, TokenOK, ReminderOK, DeleteOK, Waits
  <2>4. CASE row[u].here
    <3> HIDE DEF token, Older
    <3>1. /\ row'[u].here /\ row'[u].verified = row[u].verified /\ row'[u].suspended = row[u].suspended
          /\ row'[u].content = row[u].content /\ row'[u].token = token(row[u].token)
          /\ row'[u].age = Older(row[u].age) /\ row'[u].seen = Older(row[u].seen)
      BY <1>2, <2>1, <2>4 DEF RowOf
    <3>2. row'[u].seen = Maint!Max(config)
      BY <2>1, <2>4, <3>1, Figures DEF WarnOK, BasicOK, Older, Maint!Never
    <3>3. BasicOK(config, process[r], sinceRun', row'[u], past[u])
      BY <2>1, <3>1, <3>2 DEF WarnOK, BasicOK
    <3>4. ASSUME Accepts(config) PROVE sinceRun' = sinceRun + 1 /\ sinceRun + 1 <= config.gap
      <4>1. sinceRun < config.gap /\ sinceRun' = IF sinceRun < config.gap THEN sinceRun + 1 ELSE sinceRun
        BY <3>4 DEF Maint!Tick, Accepts, Maint!CheckConfig
      <4> QED
        BY <4>1, Figures
    <3>5. ASSUME Accepts(config), Waits(row'[u], u)
          PROVE  /\ sinceMail'[u] = Maint!Max(config) =>
                      /\ sinceMail[u] = Maint!Max(config)
                      /\ row'[u].age <= config.warning + sinceRun'
                      /\ row'[u].token = 0 \/ row'[u].token + row'[u].age <= config.ttl
                 /\ sinceMail'[u] # Maint!Max(config) =>
                      /\ row'[u].age > config.lifetime \/ sinceMail'[u] + config.warning < row'[u].age
                      /\ sinceMail'[u] + config.warning <= config.lifetime + sinceRun'
      <4>1. Waits(row[u], u)
        BY <2>4, <3>1, <3>5 DEF Waits
      <4>2. /\ sinceMail[u] = Maint!Max(config) =>
                 /\ row[u].age <= config.warning + sinceRun
                 /\ row[u].token = 0 \/ row[u].token + row[u].age <= config.ttl
            /\ sinceMail[u] # Maint!Max(config) =>
                 /\ row[u].age > config.lifetime \/ sinceMail[u] + config.warning < row[u].age
                 /\ sinceMail[u] + config.warning <= config.lifetime + sinceRun
        BY <2>1, <2>2, <3>5, <4>1 DEF WarnOK, AgeOK, TokenOK, ReminderOK
      <4>3. sinceMail'[u] = Older(sinceMail[u])
        BY <1>2
      <4>4. config.ttl < config.warning
        BY <3>5 DEF Accepts
      <4>5. CASE sinceMail[u] = Maint!Max(config)
        <5>1. sinceMail'[u] = Maint!Max(config)
          BY <4>3, <4>5, Figures DEF Older, Maint!Never
        <5>2. row'[u].age <= row[u].age + 1 /\ row'[u].age \in Nat
          BY <3>1, Figures DEF Older, Maint!Never
        <5>3. row'[u].token = 0 \/ (row'[u].token = row[u].token - 1 /\ row[u].token # 0)
          BY <3>1 DEF token
        <5> QED
          BY <3>4, <3>5, <4>2, <4>5, <5>1, <5>2, <5>3, Figures
      <4>6. CASE sinceMail[u] # Maint!Max(config)
        <5>1. sinceMail'[u] = sinceMail[u] + 1
          BY <4>3, <4>6, Figures DEF Older, Maint!Never
        <5>2. sinceMail'[u] + config.warning <= config.lifetime + sinceRun'
          BY <3>4, <3>5, <4>2, <4>6, <5>1, Figures
        <5>3. sinceMail'[u] # Maint!Max(config)
          BY <3>4, <3>5, <4>4, <5>1, <5>2, Figures
        <5>4. row'[u].age = row[u].age + 1 \/ row'[u].age = Maint!Max(config)
          BY <3>1, Figures DEF Older, Maint!Never
        <5>5. row'[u].age > config.lifetime \/ sinceMail'[u] + config.warning < row'[u].age
          BY <4>2, <4>6, <5>1, <5>4, Figures
        <5> QED
          BY <5>2, <5>3, <5>5
      <4> QED
        BY <4>5, <4>6
    <3> QED
      BY <2>1, <2>2, <3>3, <3>5 DEF WarnOK, ReadOK, AgeOK, TokenOK, ReminderOK, DeleteOK
  <2> QED
    BY <2>3, <2>4
<1> QED
  BY <1>1, <1>2, <1>3 DEF IWarn

LEMMA RunWarns ==
    ASSUME Maint!ConfigAssumption, Maint!TypeOK, IWarn, Undisturbed, NEW r \in Run,
           Maint!Cron(r) \/ Maint!Crash(r)
    PROVE  IWarn'
<1>1. /\ row \in [User -> RowOf(config)] /\ sinceMail \in [User -> 0..Maint!Never]
      /\ process \in [Run -> CronRow] /\ process[r].users \in SUBSET User
      /\ process[r].noLink \subseteq process[r].users
  BY Types DEF Maint!Never, CronRow
<1>2. config' = config /\ past' = past
  BY DEF Maint!Cron, Maint!Crash, Maint!Start, Maint!Issue, Maint!Build, Maint!Send, Maint!Warned,
         Maint!ReadExpired, Maint!Delete
<1>3. SUFFICES ASSUME NEW u \in User
               PROVE  WarnOK(config, u, process'[r], sinceRun', row'[u], sinceMail'[u], past[u])
  BY <1>2 DEF IWarn, OneRun, Undisturbed
<1>4. \A v \in User : WarnOK(config, v, process[r], sinceRun, row[v], sinceMail[v], past[v])
  BY DEF IWarn
<1>5. Accepts(config)
  BY <1>4
       DEF WarnOK, BasicOK, Maint!Cron, Maint!Crash, Maint!Start, Maint!Issue, Maint!Build,
           Maint!Send, Maint!Warned, Maint!ReadExpired, Maint!Delete,
        Accepts, Maint!CheckConfig
<1>6. /\ BasicOK(config, process[r], sinceRun, row[u], past[u])
      /\ ReadOK(config, u, process[r], row[u])
      /\ AgeOK(config, u, process[r], sinceRun, row[u], sinceMail[u])
      /\ TokenOK(config, u, process[r], row[u], sinceMail[u])
      /\ ReminderOK(config, u, process[r], sinceRun, row[u], sinceMail[u])
      /\ DeleteOK(config, u, process[r], row[u], sinceMail[u], past[u])
  BY <1>4, <1>5 DEF WarnOK
<1>7. \A v \in User : Reminds(process[r], v) => row[v].here /\ (v \in process[r].noLink => row[v].verified)
  BY <1>4, <1>5 DEF WarnOK, ReadOK
<1>8. Maint!End(r) => process'[r] = Maint!IdleRun
  BY <1>1 DEF Maint!End
<1>9. ASSUME NEW pc, NEW users, Maint!Goto(r, pc, users)
      PROVE  process'[r].pc = pc /\ process'[r].users = users /\ process'[r].noLink = {}
  BY <1>1, <1>9 DEF Maint!Goto
<1>10. ASSUME Maint!End(r), UNCHANGED <<row, sinceMail, sinceRun>>, ~ Waits(row[u], u)
       PROVE  WarnOK(config, u, process'[r], sinceRun', row'[u], sinceMail'[u], past[u])
  <2>1. process'[r].pc = "idle"
    BY <1>8, <1>10 DEF Maint!IdleRun
  <2> QED
    BY <1>6, <1>10, <2>1 DEF WarnOK, BasicOK, ReadOK, AgeOK, TokenOK, ReminderOK, DeleteOK, Reminds
<1>11. CASE Maint!Start(r)
  <2> DEFINE users == {v \in User : Maint!Expiring(v)}
  <2>1. /\ process[r].pc = "idle" /\ sinceRun' = 0 /\ row' = row /\ sinceMail' = sinceMail
        /\ (Maint!Goto(r, "expired", {}) /\ users = {}) \/ Maint!Goto(r, "issue", users)
    BY <1>11 DEF Maint!Start, Maint!AfterWarning
  <2>2. /\ process'[r].pc \in {"expired", "issue"} /\ process'[r].noLink = {}
        /\ Reminds(process'[r], u) => u \in users
        /\ u \in users => Reminds(process'[r], u)
    BY <1>9, <2>1 DEF Reminds
  <2>3. ~ Reminds(process[r], u)
    BY <2>1 DEF Reminds
  <2>4. u \in users => /\ row[u].here /\ config.warning < row[u].age
                       /\ row[u].age <= config.warning + config.ttl
    BY DEF Maint!Expiring, Maint!Doomed, Maint!Here
  <2>5. BasicOK(config, process'[r], sinceRun', row'[u], past[u])
    BY <1>5, <1>6, <2>1 DEF BasicOK
  <2>6. ReadOK(config, u, process'[r], row'[u])
    BY <2>1, <2>2, <2>4 DEF ReadOK
  <2>7. AgeOK(config, u, process'[r], sinceRun', row'[u], sinceMail'[u])
    <3>1. SUFFICES ASSUME Waits(row[u], u), sinceMail[u] = Maint!Max(config), u \notin users
                   PROVE  row[u].age <= config.warning
      BY <2>1, <2>2, <2>4, Figures DEF AgeOK
    <3>2. row[u].age <= config.warning + sinceRun
      BY <1>6, <2>3, <3>1 DEF AgeOK
    <3>3. row[u].token = 0 \/ row[u].token + row[u].age <= config.ttl
      BY <1>6, <2>3, <3>1 DEF TokenOK
    <3>4. row[u].seen > config.lifetime
      BY <1>6, <3>1, Figures DEF BasicOK, Waits
    <3>5. ~ (config.warning < row[u].age /\ row[u].age <= config.warning + config.ttl /\ row[u].token = 0)
      BY <3>1, <3>4 DEF Waits, Maint!Expiring, Maint!Doomed, Maint!Here
    <3>6. config.ttl < config.warning
      BY <1>5 DEF Accepts
    <3> QED
      BY <3>2, <3>3, <3>5, <3>6, Figures
  <2>8. TokenOK(config, u, process'[r], row'[u], sinceMail'[u])
    BY <1>6, <2>1, <2>3 DEF TokenOK
  <2>9. ReminderOK(config, u, process'[r], sinceRun', row'[u], sinceMail'[u])
    <3>1. process'[r].pc # "idle"
      BY <2>2
    <3> QED
      BY <1>6, <2>1, <3>1, Figures DEF ReminderOK
  <2>10. DeleteOK(config, u, process'[r], row'[u], sinceMail'[u], past[u])
    BY <2>2 DEF DeleteOK
  <2> QED
    BY <2>5, <2>6, <2>7, <2>8, <2>9, <2>10 DEF WarnOK
<1>12. CASE Maint!Issue(r)
  <2>1. /\ process[r].pc = "issue" /\ sinceMail' = sinceMail /\ sinceRun' = sinceRun
        /\ row'[u] = IF u \in process[r].users THEN [row[u] EXCEPT !.token = config.ttl] ELSE row[u]
        /\ Maint!Goto(r, "build", process[r].users)
    <3>1. process[r].pc = "issue"
      BY <1>12 DEF Maint!Issue
    <3>2. \A v \in process[r].users : Maint!Here(v)
      BY <1>1, <1>7, <3>1 DEF Reminds, Maint!Here
    <3> QED
      BY <1>12, <3>2 DEF Maint!Issue
  <2>2. process'[r].pc = "build" /\ process'[r].users = process[r].users /\ process'[r].noLink = {}
    BY <1>9, <2>1
  <2>3. Reminds(process[r], u) <=> Reminds(process'[r], u)
    BY <2>1, <2>2 DEF Reminds
  <2>4. /\ row'[u].here = row[u].here /\ row'[u].age = row[u].age /\ row'[u].seen = row[u].seen
        /\ row'[u].verified = row[u].verified /\ row'[u].suspended = row[u].suspended
        /\ row'[u].content = row[u].content
        /\ Reminds(process[r], u) => row'[u].token = config.ttl
        /\ ~ Reminds(process[r], u) => row'[u].token = row[u].token
    BY <1>1, <2>1 DEF RowOf, Reminds
  <2>5. Waits(row'[u], u) => Waits(row[u], u)
    BY <2>4 DEF Waits
  <2>6. BasicOK(config, process'[r], sinceRun', row'[u], past[u])
    BY <1>5, <1>6, <2>1, <2>4 DEF BasicOK
  <2>7. ReadOK(config, u, process'[r], row'[u])
    BY <1>6, <2>2, <2>3, <2>4 DEF ReadOK
  <2>8. /\ AgeOK(config, u, process'[r], sinceRun', row'[u], sinceMail'[u])
        /\ ReminderOK(config, u, process'[r], sinceRun', row'[u], sinceMail'[u])
    BY <1>6, <2>1, <2>2, <2>3, <2>4, <2>5 DEF AgeOK, ReminderOK
  <2>9. TokenOK(config, u, process'[r], row'[u], sinceMail'[u])
    BY <1>6, <2>1, <2>2, <2>3, <2>4, <2>5 DEF TokenOK
  <2>10. DeleteOK(config, u, process'[r], row'[u], sinceMail'[u], past[u])
    BY <2>2 DEF DeleteOK
  <2> QED
    BY <2>6, <2>7, <2>8, <2>9, <2>10 DEF WarnOK
<1>13. CASE Maint!Build(r)
  <2>1. process[r].pc = "build" /\ row' = row /\ sinceMail' = sinceMail /\ sinceRun' = sinceRun
    BY <1>13 DEF Maint!Build
  <2>2. CASE \A v \in process[r].users : Maint!Here(v) /\ ~ row[v].suspended
    <3>1. /\ process'[r].pc = "send" /\ process'[r].users = process[r].users
          /\ u \in process'[r].noLink => row[u].token = 0
      BY <1>1, <1>13, <2>2 DEF Maint!Build, CronRow
    <3>2. Reminds(process[r], u) <=> Reminds(process'[r], u)
      BY <2>1, <3>1 DEF Reminds
    <3>3. BasicOK(config, process'[r], sinceRun', row'[u], past[u])
      BY <1>6, <2>1 DEF BasicOK
    <3>4. ReadOK(config, u, process'[r], row'[u])
      <4>1. Reminds(process[r], u) => row[u].here /\ config.warning < row[u].age
                                  /\ (row[u].verified \/ row[u].token = config.ttl)
        BY <1>6, <2>1 DEF ReadOK
      <4> QED
        BY <2>1, <3>1, <3>2, <4>1, Figures DEF ReadOK
    <3>5. /\ AgeOK(config, u, process'[r], sinceRun', row'[u], sinceMail'[u])
          /\ TokenOK(config, u, process'[r], row'[u], sinceMail'[u])
          /\ ReminderOK(config, u, process'[r], sinceRun', row'[u], sinceMail'[u])
          /\ DeleteOK(config, u, process'[r], row'[u], sinceMail'[u], past[u])
      BY <1>6, <2>1, <3>1, <3>2 DEF AgeOK, TokenOK, ReminderOK, DeleteOK
    <3> QED
      BY <3>3, <3>4, <3>5 DEF WarnOK
  <2>3. CASE ~ \A v \in process[r].users : Maint!Here(v) /\ ~ row[v].suspended
    <3>1. Maint!End(r)
      BY <1>13, <2>3 DEF Maint!Build
    <3>2. PICK v \in process[r].users : row[v].suspended
      BY <1>1, <1>7, <2>1, <2>3 DEF Reminds, Maint!Here
    <3>3. "suspend" \in Ops
      BY <1>1, <1>4, <3>2 DEF WarnOK, BasicOK
    <3>4. v = u
      BY <1>1, <3>3 DEF Undisturbed
    <3> QED
      BY <1>10, <2>1, <3>1, <3>2, <3>4 DEF Waits
  <2> QED
    BY <2>2, <2>3
<1>14. CASE Maint!Send(r)
  <2>1. process[r].pc = "send" /\ row' = row /\ sinceRun' = sinceRun
    BY <1>14 DEF Maint!Send
  <2>2. PICK v \in process[r].users :
          \/ v \in process[r].noLink /\ Maint!End(r) /\ UNCHANGED sinceMail
          \/ /\ process' = [process EXCEPT ![r].users = @ \ {v}]
             /\ sinceMail' = [sinceMail EXCEPT ![v] = 0]
    BY <1>14 DEF Maint!Send, Undisturbed
  <2>3. CASE v \in process[r].noLink /\ Maint!End(r) /\ UNCHANGED sinceMail
    <3>1. row[v].verified
      BY <1>1, <1>7, <2>1, <2>3 DEF Reminds
    <3>2. "verify" \in Ops
      BY <1>1, <1>4, <3>1 DEF WarnOK, BasicOK
    <3>3. v = u
      BY <1>1, <3>2 DEF Undisturbed
    <3> QED
      BY <1>10, <2>1, <2>3, <3>1, <3>3 DEF Waits
  <2>4. CASE /\ process' = [process EXCEPT ![r].users = @ \ {v}]
             /\ sinceMail' = [sinceMail EXCEPT ![v] = 0]
    <3>1. /\ process'[r].pc = "send" /\ process'[r].users = process[r].users \ {v}
          /\ process'[r].noLink = process[r].noLink
      BY <1>1, <2>1, <2>4 DEF CronRow
    <3>2. BasicOK(config, process'[r], sinceRun', row'[u], past[u])
      BY <1>6, <2>1 DEF BasicOK
    <3>3. Reminds(process'[r], u) => Reminds(process[r], u)
      BY <2>1, <3>1 DEF Reminds
    <3>4. ReadOK(config, u, process'[r], row'[u])
      BY <1>6, <2>1, <3>1, <3>3 DEF ReadOK
    <3>5. DeleteOK(config, u, process'[r], row'[u], sinceMail'[u], past[u])
      BY <3>1 DEF DeleteOK
    <3>6. CASE u # v
      <4>1. sinceMail'[u] = sinceMail[u]
        BY <1>1, <2>4, <3>6
      <4>2. Reminds(process[r], u) => Reminds(process'[r], u)
        BY <2>1, <3>1, <3>6 DEF Reminds
      <4>3. /\ AgeOK(config, u, process'[r], sinceRun', row'[u], sinceMail'[u])
            /\ TokenOK(config, u, process'[r], row'[u], sinceMail'[u])
            /\ ReminderOK(config, u, process'[r], sinceRun', row'[u], sinceMail'[u])
        BY <1>6, <2>1, <3>1, <3>3, <4>1, <4>2 DEF AgeOK, TokenOK, ReminderOK
      <4> QED
        BY <3>2, <3>4, <3>5, <4>3 DEF WarnOK
    <3>7. CASE u = v
      <4>1. sinceMail'[u] = 0
        BY <1>1, <2>4, <3>7
      <4>2. config.warning < row[u].age
        BY <1>6, <2>1, <2>2, <3>7 DEF ReadOK, Reminds
      <4>3. 0 # Maint!Max(config) /\ config.warning < config.lifetime
        BY <1>5, Figures DEF Accepts
      <4>4. /\ AgeOK(config, u, process'[r], sinceRun', row'[u], sinceMail'[u])
            /\ TokenOK(config, u, process'[r], row'[u], sinceMail'[u])
        BY <4>1, <4>3 DEF AgeOK, TokenOK
      <4>5. ReminderOK(config, u, process'[r], sinceRun', row'[u], sinceMail'[u])
        BY <2>1, <3>1, <4>1, <4>2, <4>3, Figures DEF ReminderOK
      <4> QED
        BY <3>2, <3>4, <3>5, <4>4, <4>5 DEF WarnOK
    <3> QED
      BY <3>6, <3>7
  <2> QED
    BY <2>2, <2>3, <2>4
<1>15. CASE Maint!Warned(r)
  <2>1. /\ process[r].pc = "send" /\ process[r].users = {} /\ row' = row /\ sinceMail' = sinceMail
        /\ sinceRun' = sinceRun /\ Maint!Goto(r, "expired", {})
    BY <1>15 DEF Maint!Warned, Maint!AfterWarning
  <2>2. /\ process'[r].pc = "expired" /\ ~ Reminds(process[r], u) /\ ~ Reminds(process'[r], u)
    BY <1>9, <2>1 DEF Reminds
  <2> QED
    BY <1>6, <2>1, <2>2 DEF WarnOK, BasicOK, ReadOK, AgeOK, TokenOK, ReminderOK, DeleteOK
<1>16. ASSUME NEW q, q = row[u] \/ q = Maint!Gone, sinceRun = 0,
              \/ process'[r].pc = "delete"
              \/ process'[r].pc = "idle" /\ (Waits(q, u) => q.age <= config.lifetime),
              DeleteOK(config, u, process'[r], q, sinceMail[u], past[u]),
              process[r].pc \in {"expired", "delete"}
       PROVE  WarnOK(config, u, process'[r], sinceRun, q, sinceMail[u], past[u])
  <2>1. ~ Reminds(process[r], u) /\ ~ Reminds(process'[r], u)
    BY <1>16 DEF Reminds
  <2>2. CASE q = Maint!Gone
    <3>1. ~ q.here /\ ~ q.suspended /\ ~ q.verified
      BY <2>2 DEF Maint!Gone
    <3> QED
      BY <1>5, <1>6, <1>16, <2>1, <3>1
         DEF WarnOK, BasicOK, ReadOK, AgeOK, TokenOK, ReminderOK, Waits
  <2>3. CASE q = row[u]
    <3>1. BasicOK(config, process'[r], sinceRun, q, past[u])
      BY <1>5, <1>6, <1>16, <2>3 DEF BasicOK
    <3>2. ReminderOK(config, u, process'[r], sinceRun, q, sinceMail[u])
      BY <1>6, <1>16, <2>3, Figures DEF ReminderOK
    <3> QED
      BY <1>6, <1>16, <2>1, <2>3, <3>1, <3>2 DEF WarnOK, ReadOK, AgeOK, TokenOK
  <2> QED
    BY <1>16, <2>2, <2>3
<1>17. CASE Maint!ReadExpired(r)
  <2> DEFINE users == {v \in User : Maint!Expired(v)}
  <2>1. /\ process[r].pc = "expired" /\ row' = row /\ sinceMail' = sinceMail /\ sinceRun' = sinceRun
        /\ (Maint!End(r) /\ users = {}) \/ Maint!Goto(r, "delete", users)
    BY <1>17 DEF Maint!ReadExpired
  <2>2. sinceRun = 0
    BY <1>6, <2>1 DEF BasicOK
  <2>3. Waits(row[u], u) /\ row[u].age > config.lifetime => u \in users
    <3>1. row[u].here => row[u].seen > config.lifetime
      BY <1>6, Figures DEF BasicOK
    <3> QED
      BY <3>1 DEF Maint!Expired, Maint!Doomed, Waits, Maint!Here
  <2>4. \/ process'[r].pc = "idle" /\ users = {}
        \/ process'[r].pc = "delete" /\ process'[r].users = users
    BY <1>8, <1>9, <2>1 DEF Maint!IdleRun
  <2>5. u \in users => row[u].here /\ (sinceMail[u] # Maint!Max(config) \/ "suspended" \in past[u])
    <3>1. SUFFICES ASSUME u \in users, ~ row[u].suspended, sinceMail[u] = Maint!Max(config) PROVE FALSE
      BY <1>6 DEF BasicOK, Maint!Expired, Maint!Doomed, Maint!Here
    <3>2. Waits(row[u], u) /\ row[u].age > config.lifetime
      BY <3>1 DEF Waits, Maint!Expired, Maint!Doomed, Maint!Here
    <3>3. ~ Reminds(process[r], u)
      BY <2>1 DEF Reminds
    <3>4. row[u].age <= config.warning + sinceRun
      BY <1>6, <3>1, <3>2, <3>3 DEF AgeOK
    <3> QED
      BY <1>5, <2>2, <3>2, <3>4, Figures DEF Accepts
  <2>6. DeleteOK(config, u, process'[r], row[u], sinceMail[u], past[u])
    BY <2>3, <2>4, <2>5 DEF DeleteOK
  <2>7. process'[r].pc = "idle" => (Waits(row[u], u) => row[u].age <= config.lifetime)
    BY <2>3, <2>4, Figures
  <2>8. WarnOK(config, u, process'[r], sinceRun, row[u], sinceMail[u], past[u])
    BY <1>16, <2>1, <2>2, <2>4, <2>6, <2>7
  <2> QED
    BY <2>1, <2>8
<1>18. CASE Maint!Delete(r)
  <2>1. PICK batch \in SUBSET process[r].users :
          /\ row' = [v \in User |-> IF v \in batch THEN Maint!Gone ELSE row[v]]
          /\ IF batch = process[r].users THEN Maint!End(r)
                                         ELSE Maint!Goto(r, "delete", process[r].users \ batch)
    BY <1>18 DEF Maint!Delete
  <2>2. process[r].pc = "delete" /\ sinceMail' = sinceMail /\ sinceRun' = sinceRun /\ sinceRun = 0
    BY <1>6, <1>18 DEF Maint!Delete, BasicOK
  <2>3. \/ process'[r].pc = "idle" /\ batch = process[r].users
        \/ process'[r].pc = "delete" /\ process'[r].users = process[r].users \ batch
    BY <1>8, <1>9, <2>1 DEF Maint!IdleRun
  <2>4. row'[u] = IF u \in batch THEN Maint!Gone ELSE row[u]
    BY <2>1
  <2>5. Waits(row'[u], u) => u \notin batch
    BY <2>4 DEF Waits, Maint!Gone
  <2>6. DeleteOK(config, u, process'[r], row'[u], sinceMail[u], past[u])
    BY <1>6, <2>2, <2>3, <2>4, <2>5 DEF DeleteOK
  <2>7. process'[r].pc = "idle" => (Waits(row'[u], u) => row'[u].age <= config.lifetime)
    <3>1. SUFFICES ASSUME batch = process[r].users, Waits(row'[u], u)
                   PROVE  row'[u].age <= config.lifetime
      BY <2>3
    <3>2. u \notin process[r].users /\ row'[u] = row[u] /\ Waits(row[u], u)
      BY <2>4, <2>5, <3>1
    <3>3. ~ (row[u].age > config.lifetime)
      BY <1>6, <2>2, <3>2 DEF DeleteOK
    <3> QED
      BY <3>2, <3>3, Figures
  <2>8. row'[u] = row[u] \/ row'[u] = Maint!Gone
    BY <2>4
  <2> DEFINE q == row'[u]
  <2>9. WarnOK(config, u, process'[r], sinceRun, q, sinceMail[u], past[u])
    <3> HIDE DEF q
    <3>1. q = row[u] \/ q = Maint!Gone
      BY <2>8 DEF q
    <3>2. /\ DeleteOK(config, u, process'[r], q, sinceMail[u], past[u])
          /\ process'[r].pc = "idle" => (Waits(q, u) => q.age <= config.lifetime)
      BY <2>6, <2>7 DEF q
    <3> QED
      BY <1>16, <2>2, <2>3, <3>1, <3>2
  <2> QED
    BY <2>2, <2>9
<1>19. CASE Maint!Crash(r)
  BY <1>19 DEF Maint!Crash, Undisturbed
<1> QED
  BY <1>11, <1>12, <1>13, <1>14, <1>15, <1>17, <1>18, <1>19 DEF Maint!Cron

\* Rows go in the transactions of _delete only.
LEMMA RunDeletes ==
    ASSUME Maint!ConfigAssumption, Maint!TypeOK, NEW r \in Run, Maint!Cron(r) \/ Maint!Crash(r),
           NEW u \in User, Maint!Deletes(u)
    PROVE  process[r].pc = "delete" /\ u \in process[r].users
<1>1. row[u].here /\ ~ row'[u].here /\ row[u] \in RowOf(config)
  BY Types DEF Maint!Deletes, Maint!Here
<1>2. row'[u] # row[u]
  BY <1>1
<1>3. CASE Maint!Issue(r)
  <2>1. row'[u] = [row[u] EXCEPT !.token = config.ttl]
    BY <1>2, <1>3 DEF Maint!Issue
  <2> QED
    BY <1>1, <2>1 DEF RowOf
<1>4. CASE Maint!Delete(r)
  BY <1>2, <1>4 DEF Maint!Delete
<1> QED
  BY <1>2, <1>3, <1>4
       DEF Maint!Cron, Maint!Crash, Maint!Start, Maint!Build, Maint!Send, Maint!Warned,
           Maint!ReadExpired

\* While one run of the script works at a time, none is killed, no mail is lost
\* and nobody has ever logged in, no account is deleted that was not sent a
\* reminder first, unless it has been suspended (_warn, _delete): whatever the
\* configuration that check_config accepts, however long between the runs up to
\* the TTL of a token, and whatever else the users do, as long as nobody's
\* verification or suspension can end the run that was about to mail another.
THEOREM SparesTheUnwarned ==
    Maint!ConfigAssumption /\ Undisturbed => (Maint!Spec => [][Maint!StepSparesTheUnwarned]_(Maint!vars))
<1> SUFFICES ASSUME Maint!ConfigAssumption, Undisturbed
             PROVE  Maint!Spec => [][Maint!StepSparesTheUnwarned]_(Maint!vars)
  OBVIOUS
<1>1. Maint!Init /\ Maint!TypeOK => IWarn
  <2> SUFFICES ASSUME Maint!Init, Maint!TypeOK, NEW r \in Run, NEW u \in User
               PROVE  WarnOK(config, u, process[r], sinceRun, row[u], sinceMail[u], past[u])
    BY DEF IWarn
  <2>1. /\ ~ row[u].here /\ ~ row[u].suspended /\ ~ row[u].verified
        /\ process[r].pc = "idle" /\ past[u] = {}
    BY DEF Maint!Init, Maint!Gone, Maint!IdleRun
  <2> QED
    BY <2>1 DEF WarnOK, BasicOK, ReadOK, AgeOK, TokenOK, ReminderOK, DeleteOK, Waits, Reminds
<1>2. Maint!TypeOK /\ IWarn /\ [Maint!Next]_(Maint!vars) => IWarn'
  <2> SUFFICES ASSUME Maint!TypeOK, IWarn, [Maint!Next]_(Maint!vars) PROVE IWarn'
    OBVIOUS
  <2>1. CASE UNCHANGED Maint!vars
    BY <2>1 DEF Maint!vars, IWarn
  <2>2. CASE Maint!Tick
    BY <2>2, TickWarns
  <2>3. ASSUME NEW u \in User, UserActs(u)
        PROVE  IWarn'
    BY <2>3, UserWarns
  <2>4. ASSUME NEW r \in Run, Maint!Cron(r) \/ Maint!Crash(r)
        PROVE  IWarn'
    BY <2>4, RunWarns
  <2> QED
    BY <2>1, <2>2, <2>3, <2>4 DEF Maint!Next, UserActs
<1>3. Maint!TypeOK /\ IWarn /\ [Maint!Next]_(Maint!vars) => [Maint!StepSparesTheUnwarned]_(Maint!vars)
  <2> SUFFICES ASSUME Maint!TypeOK, IWarn, [Maint!Next]_(Maint!vars), NEW u \in User,
                      Maint!Deletes(u), "suspended" \notin past[u]
               PROVE  sinceMail[u] < Maint!Never
    BY DEF Maint!StepSparesTheUnwarned
  <2>1. CASE UNCHANGED Maint!vars
    BY <2>1 DEF Maint!vars, Maint!Deletes, Maint!Here
  <2>2. CASE Maint!Tick
    BY <2>2, TickWarns DEF Maint!Deletes, Maint!Here
  <2>3. ASSUME NEW v \in User, UserActs(v)
        PROVE  sinceMail[u] < Maint!Never
    BY <2>3, UserWarns DEF Maint!Deletes, Maint!Here
  <2>4. ASSUME NEW r \in Run, Maint!Cron(r) \/ Maint!Crash(r)
        PROVE  sinceMail[u] < Maint!Never
    <3>1. process[r].pc = "delete" /\ u \in process[r].users
      BY <2>4, RunDeletes
    <3>2. WarnOK(config, u, process[r], sinceRun, row[u], sinceMail[u], past[u])
      BY DEF IWarn
    <3>3. sinceMail[u] # Maint!Max(config)
      BY <3>1, <3>2 DEF WarnOK, BasicOK, DeleteOK
    <3> QED
      BY <3>3, Figures DEF Maint!Never
  <2> QED
    BY <2>1, <2>2, <2>3, <2>4 DEF Maint!Next, UserActs
<1> QED
  BY <1>1, <1>2, <1>3, AccountTypes, PTL DEF Maint!Spec

-----------------------------------------------------------------------------
(* Archives *)

\* The runs, and what each phase of one says of its files and its position.
ArchRun == [pc : {"rest", "write", "open", "other", "sum", "move"}, version : 0..MaxVersion,
            file : [Arch!Name -> FileId \cup {NoFile}], next : 1..Len(Names) + 1]

ArchRunOK(p, v) ==
    /\ p \in ArchRun /\ p.version <= v
    /\ p.pc \in {"rest", "write"} => p.next = 1
    /\ p.pc \in {"open", "other"} => p.next \in 1..Len(Others)
    /\ p.pc \in {"sum", "move"} => p.next \in 1..Len(Names)
    /\ p.pc \in {"rest", "open", "sum", "move"} => \A n \in Arch!Name : p.file[n] = NoFile

FilesTyped ==
    /\ tmp \in [Arch!Name -> FileId \cup {NoFile}] /\ dst \in [Arch!Name -> FileId \cup {NoFile}]
    /\ content \in [Arch!Name -> [FileId -> -1..MaxVersion]]
    /\ \A n \in Arch!Name : tmp[n] = dst[n] => tmp[n] = NoFile

IArchType ==
    /\ database \in 1..MaxVersion
    /\ FilesTyped
    /\ sha \in [Arch!Name -> -2..MaxVersion]
    /\ process \in [Run -> ArchRun] /\ \A r \in Run : ArchRunOK(process[r], database)
    /\ killed \in 0..MaxCrash

LEMMA ArchTypeGiven == Arch!BoundAssumption /\ IArchType => Arch!TypeOK
<1> SUFFICES ASSUME Arch!BoundAssumption, IArchType PROVE Arch!TypeOK
  OBVIOUS
<1>1. ASSUME NEW r \in Run
      PROVE  /\ process[r].pc \in {"rest", "write", "open", "other", "sum", "move"}
             /\ process[r].version \in 0..database /\ process[r].next \in 1..Len(Names) + 1
             /\ process[r].file \in [Arch!Name -> FileId \cup {NoFile}]
  BY DEF IArchType, ArchRunOK, ArchRun, Arch!BoundAssumption
<1> QED
  BY <1>1 DEF IArchType, FilesTyped, Arch!TypeOK

-----------------------------------------------------------------------------
\* The archives, their number and their names.
LEMMA NamesAreIndexed ==
  ASSUME Arch!NamesAssumption
  PROVE  /\ Len(Names) \in Nat /\ Len(Others) \in Nat
         /\ \A i \in 1..Len(Names) : Names[i] \in Arch!Name
         /\ \A i \in 1..Len(Others) : Others[i] \in Arch!Name \ Arch!Listed
         /\ \A n \in Arch!Name : \E i \in 1..Len(Names) : n = Names[i]
         /\ \A n \in Arch!Name \ Arch!Listed : \E i \in 1..Len(Others) : n = Others[i]
         /\ Arch!Listed \subseteq Arch!Name /\ 1 <= Len(Names)
<1>1. /\ Len(Names) \in Nat /\ Len(Others) \in Nat
      /\ \A i \in 1..Len(Others) : Others[i] \in Arch!Name
  BY DEF Arch!NamesAssumption
<1>2. /\ \A i \in 1..Len(Names) : Names[i] \in Arch!Name
      /\ \A n \in Arch!Name : \E i \in 1..Len(Names) : n = Names[i]
  BY DEF Arch!Name
<1>3. /\ Arch!Listed \subseteq Arch!Name
      /\ \A i \in 1..Len(Others) : Others[i] \notin Arch!Listed
      /\ \A n \in Arch!Name \ Arch!Listed : \E i \in 1..Len(Others) : n = Others[i]
  BY DEF Arch!Listed
<1>4. \E i \in 1..Len(Names) : TRUE
  BY <1>2, <1>3 DEF Arch!NamesAssumption
<1>5. 1 <= Len(Names)
  BY <1>1, <1>4
<1> QED
  BY <1>1, <1>2, <1>3, <1>5

LEMMA OthersAreFewer ==
  ASSUME Arch!NamesAssumption
  PROVE  Len(Others) <= Len(Names)
<1> DEFINE f == [i \in 1..Len(Others) |-> CHOOSE j \in 1..Len(Names) : Names[j] = Others[i]]
<1>1. \A i \in 1..Len(Others) : \E j \in 1..Len(Names) : Names[j] = Others[i]
  BY NamesAreIndexed
<1>2. \A i \in 1..Len(Others) : f[i] \in 1..Len(Names) /\ Names[f[i]] = Others[i]
  BY <1>1
<1> HIDE DEF f
<1>3. f \in [1..Len(Others) -> 1..Len(Names)]
  BY <1>2 DEF f
<1>4. \A i, j \in 1..Len(Others) : f[i] = f[j] => i = j
  BY <1>2 DEF Arch!NamesAssumption
<1>5. f \in Injection(1..Len(Others), 1..Len(Names))
  BY <1>3, <1>4 DEF Injection, IsInjective
<1>6. /\ IsFiniteSet(1..Len(Names)) /\ Cardinality(1..Len(Names)) = Len(Names)
      /\ Cardinality(1..Len(Others)) = Len(Others)
  <2>1. Len(Names) \in Nat /\ Len(Others) \in Nat
    BY NamesAreIndexed
  <2>2. \A k \in Nat : IsFiniteSet(1..k) /\ Cardinality(1..k) = k
    <3> SUFFICES ASSUME NEW k \in Nat PROVE IsFiniteSet(1..k) /\ Cardinality(1..k) = k
      OBVIOUS
    <3>1. 1 \in Int /\ k \in Int
      OBVIOUS
    <3>2. IsFiniteSet(1..k) /\ Cardinality(1..k) = IF 1 > k THEN 0 ELSE k - 1 + 1
      BY <3>1, FS_Interval, Zenon
    <3> QED
      BY <3>2
  <2> QED
    BY <2>1, <2>2
<1>7. Cardinality(1..Len(Others)) <= Cardinality(1..Len(Names))
  BY <1>5, <1>6, FS_Injection
<1> QED
  BY <1>6, <1>7

\* A run that has no file of the name open can always open a new one, neither
\* open nor the archive: there are more identities than runs.
LEMMA FreshFile ==
  ASSUME Arch!FileAssumption, NEW r \in Run, NEW n \in Arch!Name, process[r].file[n] = NoFile
  PROVE  \E f \in FileId : f \notin Arch!Open(n) \cup {dst[n]}
<1> SUFFICES ASSUME \A f \in FileId : f \in Arch!Open(n) \cup {dst[n]} PROVE FALSE
  OBVIOUS
<1> DEFINE g == [f \in FileId |-> IF f = dst[n] THEN r
                                ELSE CHOOSE x \in Run : process[x].file[n] = f]
<1>1. \A f \in FileId : f # dst[n] => \E x \in Run : process[x].file[n] = f
  BY DEF Arch!Open
<1>2. \A f \in FileId : IF f = dst[n] THEN g[f] = r
                      ELSE g[f] \in Run /\ process[g[f]].file[n] = f
  BY <1>1
<1> HIDE DEF g
<1>3. g \in [FileId -> Run]
  BY <1>2 DEF g
<1> QED
  BY <1>2, <1>3 DEF Arch!FileAssumption

LEMMA OpenedIsAFile ==
  ASSUME Arch!FileAssumption, FilesTyped, NEW r \in Run, NEW n \in Arch!Name,
         process[r].file[n] = NoFile
  PROVE  /\ Arch!Opened(n) \in FileId /\ Arch!Opened(n) # NoFile /\ Arch!Opened(n) # dst[n]
         /\ tmp[n] = NoFile => Arch!Opened(n) \notin Arch!Open(n)
<1>1. CASE tmp[n] # NoFile
  BY <1>1 DEF Arch!Opened, FilesTyped
<1>2. CASE tmp[n] = NoFile
  <2>1. \E f \in FileId : f \notin Arch!Open(n) \cup {dst[n]}
    BY FreshFile
  <2>2. Arch!Opened(n) \in FileId /\ Arch!Opened(n) \notin Arch!Open(n) \cup {dst[n]}
    BY <1>2, <2>1 DEF Arch!Opened
  <2> QED
    BY <2>2 DEF Arch!FileAssumption
<1> QED
  BY <1>1, <1>2

\* The files after some of them are opened.
LEMMA OpenAllTyped ==
  ASSUME Arch!BoundAssumption, Arch!FileAssumption, FilesTyped, NEW r \in Run,
         NEW S \in SUBSET Arch!Name,
         \A n \in S : process[r].file[n] = NoFile, Arch!OpenAll(r, S), dst' = dst
  PROVE  FilesTyped'
<1>1. \A n \in S : Arch!Opened(n) \in FileId /\ Arch!Opened(n) # NoFile /\ Arch!Opened(n) # dst[n]
  BY OpenedIsAFile
<1>2. tmp' = [n \in Arch!Name |-> IF n \in S THEN Arch!Opened(n) ELSE tmp[n]]
  BY DEF Arch!OpenAll
<1>3. tmp' \in [Arch!Name -> FileId \cup {NoFile}]
  BY <1>1, <1>2 DEF FilesTyped
<1>4. \A n \in Arch!Name : tmp'[n] = dst'[n] => tmp'[n] = NoFile
  BY <1>1, <1>2 DEF FilesTyped
<1>5. Arch!Torn \in -1..MaxVersion /\ Arch!Partial \in -1..MaxVersion
  BY DEF Arch!Torn, Arch!Partial, Arch!BoundAssumption
<1>6. content' \in [Arch!Name -> [FileId -> -1..MaxVersion]]
  <2> DEFINE c(n) == IF n \notin S THEN content[n] ELSE
               [content[n] EXCEPT ![Arch!Opened(n)] =
                 IF Arch!Opened(n) \in Arch!Open(n) THEN Arch!Torn ELSE Arch!Partial]
  <2>1. \A n \in Arch!Name : c(n) \in [FileId -> -1..MaxVersion]
    BY <1>1, <1>5 DEF FilesTyped
  <2>2. content' = [n \in Arch!Name |-> c(n)]
    BY DEF Arch!OpenAll
  <2> HIDE DEF c
  <2> QED
    BY <2>1, <2>2
<1> QED
  BY <1>3, <1>4, <1>6 DEF FilesTyped

LEMMA WrittenTyped ==
  ASSUME FilesTyped, NEW n \in Arch!Name, NEW f, NEW v \in 0..MaxVersion, Arch!BoundAssumption
  PROVE  Arch!Written(n, f, v) \in [FileId -> -1..MaxVersion]
<1>1. Arch!Torn \in -1..MaxVersion /\ v \in -1..MaxVersion
  BY DEF Arch!Torn, Arch!BoundAssumption
<1> QED
  BY <1>1 DEF Arch!Written, FilesTyped

LEMMA RestingIsARun ==
  ASSUME Arch!NamesAssumption, Arch!BoundAssumption, NEW v \in Nat
  PROVE  ArchRunOK(Arch!Resting, v) /\ Arch!Resting.pc = "rest" /\ Arch!Resting \in ArchRun
<1>1. 0 \in 0..MaxVersion /\ 1 \in 1..Len(Names) + 1 /\ 0 <= v
  BY NamesAreIndexed DEF Arch!BoundAssumption
<1>2. [n \in Arch!Name |-> NoFile] \in [Arch!Name -> FileId \cup {NoFile}]
  OBVIOUS
<1> QED
  BY <1>1, <1>2 DEF ArchRunOK, ArchRun, Arch!Resting

\* One run goes on.
RunsTyped == process \in [Run -> ArchRun] /\ \A r \in Run : ArchRunOK(process[r], database)

LEMMA RunGoesOn ==
  ASSUME RunsTyped, NEW r \in Run, NEW p, ArchRunOK(p, database), database' = database,
         process' = [process EXCEPT ![r] = p]
  PROVE  RunsTyped'
  BY DEF RunsTyped, ArchRunOK

\* The run after each of its steps.
Started == [pc |-> "write", version |-> database, next |-> 1,
            file |-> [n \in Arch!Name |-> IF n \in Arch!Listed THEN Arch!Opened(n) ELSE NoFile]]
Closed(p) == [p EXCEPT !.file = [n \in Arch!Name |-> NoFile],
                       !.pc = IF Others = <<>> THEN "sum" ELSE "open"]
OpenedOther(p, n, f) == [p EXCEPT !.file = [@ EXCEPT ![n] = f], !.pc = "other"]
WroteOther(p) == [p EXCEPT !.file = [n \in Arch!Name |-> NoFile],
                           !.next = IF @ = Len(Others) THEN 1 ELSE @ + 1,
                           !.pc = IF p.next = Len(Others) THEN "sum" ELSE "open"]
Moved(p) == [p EXCEPT !.next = @ + 1, !.pc = "sum"]

LEMMA StartedOK ==
  ASSUME Arch!NamesAssumption, Arch!BoundAssumption, database \in 1..MaxVersion,
         \A n \in Arch!Listed : Arch!Opened(n) \in FileId
  PROVE  ArchRunOK(Started, database)
<1>1. database \in 0..MaxVersion /\ 1 \in 1..Len(Names) + 1 /\ database <= database
  BY NamesAreIndexed DEF Arch!BoundAssumption
<1>2. [n \in Arch!Name |-> IF n \in Arch!Listed THEN Arch!Opened(n) ELSE NoFile]
        \in [Arch!Name -> FileId \cup {NoFile}]
  OBVIOUS
<1> QED
  BY <1>1, <1>2 DEF ArchRunOK, ArchRun, Started

LEMMA ClosedOK ==
  ASSUME Arch!NamesAssumption, NEW v, NEW p, ArchRunOK(p, v), p.pc = "write"
  PROVE  ArchRunOK(Closed(p), v)
<1>1. [n \in Arch!Name |-> NoFile] \in [Arch!Name -> FileId \cup {NoFile}]
  OBVIOUS
<1>2. Others # <<>> => 1 \in 1..Len(Others)
  BY DEF Arch!NamesAssumption
<1>3. 1 \in 1..Len(Names)
  BY NamesAreIndexed
<1>4. p \in ArchRun /\ p.version <= v /\ p.next = 1
  BY DEF ArchRunOK
<1>5. /\ Closed(p) \in ArchRun /\ Closed(p).version = p.version /\ Closed(p).next = 1
      /\ Closed(p).pc = IF Others = <<>> THEN "sum" ELSE "open"
      /\ Closed(p).file = [n \in Arch!Name |-> NoFile]
  BY <1>1, <1>4 DEF Closed, ArchRun
<1> QED
  BY <1>2, <1>3, <1>4, <1>5 DEF ArchRunOK

LEMMA OpenedOtherOK ==
  ASSUME NEW v, NEW p, ArchRunOK(p, v), p.pc = "open", NEW n \in Arch!Name, NEW f \in FileId
  PROVE  ArchRunOK(OpenedOther(p, n, f), v)
<1>1. p \in ArchRun /\ p.version <= v /\ p.next \in 1..Len(Others)
  BY DEF ArchRunOK
<1>2. /\ OpenedOther(p, n, f) \in ArchRun /\ OpenedOther(p, n, f).version = p.version
      /\ OpenedOther(p, n, f).next = p.next /\ OpenedOther(p, n, f).pc = "other"
  BY <1>1 DEF OpenedOther, ArchRun
<1> QED
  BY <1>1, <1>2 DEF ArchRunOK

LEMMA WroteOtherOK ==
  ASSUME Arch!NamesAssumption, NEW v, NEW p, ArchRunOK(p, v), p.pc = "other"
  PROVE  ArchRunOK(WroteOther(p), v)
<1> DEFINE k == IF p.next = Len(Others) THEN 1 ELSE p.next + 1
           c == IF p.next = Len(Others) THEN "sum" ELSE "open"
<1>1. p \in ArchRun /\ p.version <= v /\ p.next \in 1..Len(Others)
  BY DEF ArchRunOK
<1>2. /\ k \in 1..Len(Names) + 1 /\ (c = "open" => k \in 1..Len(Others))
      /\ (c = "sum" => k \in 1..Len(Names)) /\ c \in {"sum", "open"}
  BY <1>1, OthersAreFewer, NamesAreIndexed
<1>3. [n \in Arch!Name |-> NoFile] \in [Arch!Name -> FileId \cup {NoFile}]
  OBVIOUS
<1>4. WroteOther(p) = [p EXCEPT !.file = [n \in Arch!Name |-> NoFile], !.next = k, !.pc = c]
  BY <1>1 DEF WroteOther, ArchRun
<1> HIDE DEF k, c
<1>5. /\ WroteOther(p) \in ArchRun /\ WroteOther(p).version = p.version
      /\ WroteOther(p).next = k /\ WroteOther(p).pc = c
      /\ WroteOther(p).file = [n \in Arch!Name |-> NoFile]
  BY <1>1, <1>2, <1>3, <1>4 DEF ArchRun
<1> QED
  BY <1>1, <1>2, <1>5 DEF ArchRunOK

LEMMA SummedOK ==
  ASSUME NEW v, NEW p, ArchRunOK(p, v), p.pc = "sum"
  PROVE  ArchRunOK([p EXCEPT !.pc = "move"], v)
  BY DEF ArchRunOK, ArchRun

LEMMA MovedOK ==
  ASSUME Arch!NamesAssumption, NEW v, NEW p, ArchRunOK(p, v), p.pc = "move", p.next # Len(Names)
  PROVE  ArchRunOK(Moved(p), v)
<1>1. p \in ArchRun /\ p.version <= v /\ p.next \in 1..Len(Names)
  BY DEF ArchRunOK
<1>2. p.next + 1 \in 1..Len(Names) /\ p.next + 1 \in 1..Len(Names) + 1
  BY <1>1, NamesAreIndexed
<1>3. /\ Moved(p) \in ArchRun /\ Moved(p).version = p.version
      /\ Moved(p).next = p.next + 1 /\ Moved(p).pc = "sum" /\ Moved(p).file = p.file
  BY <1>1, <1>2 DEF Moved, ArchRun
<1> QED
  BY <1>1, <1>2, <1>3 DEF ArchRunOK

\* What each action makes of the run.
LEMMA RunBecomes ==
  ASSUME RunsTyped, NEW r \in Run
  PROVE  /\ Arch!Start(r) => process' = [process EXCEPT ![r] = Started]
         /\ Arch!WriteListed(r) => process' = [process EXCEPT ![r] = Closed(process[r])]
         /\ Arch!OpenOther(r) => LET n == Others[process[r].next] IN
                            process' = [process EXCEPT ![r] =
                              OpenedOther(process[r], n, Arch!Opened(n))]
         /\ Arch!WriteOther(r) => process' = [process EXCEPT ![r] = WroteOther(process[r])]
         /\ Arch!Checksum(r) => \/ process' = [process EXCEPT ![r] = Arch!Resting]
                                \/ process' = [process EXCEPT ![r] = [process[r] EXCEPT !.pc = "move"]]
         /\ Arch!Move(r) => \/ process' = [process EXCEPT ![r] = Arch!Resting]
                            \/ /\ process[r].next # Len(Names)
                               /\ process' = [process EXCEPT ![r] = Moved(process[r])]
         /\ Arch!Crash(r) => process' = [process EXCEPT ![r] = Arch!Resting]
<1>1. process[r] \in ArchRun
  BY DEF RunsTyped
<1>2. Arch!Start(r) => process' = [process EXCEPT ![r] = Started]
  BY DEF Arch!Start, Started
<1>3. Arch!WriteListed(r) => process' = [process EXCEPT ![r] = Closed(process[r])]
  BY <1>1 DEF Arch!WriteListed, Closed, RunsTyped, ArchRun
<1>4. ASSUME Arch!OpenOther(r)
      PROVE  LET n == Others[process[r].next] IN
             process' = [process EXCEPT ![r] = OpenedOther(process[r], n, Arch!Opened(n))]
  BY <1>1, <1>4 DEF Arch!OpenOther, OpenedOther, RunsTyped, ArchRun
<1>5. Arch!WriteOther(r) => process' = [process EXCEPT ![r] = WroteOther(process[r])]
  BY <1>1 DEF Arch!WriteOther, Arch!AfterOther, WroteOther, RunsTyped, ArchRun
<1>6. Arch!Checksum(r) => \/ process' = [process EXCEPT ![r] = Arch!Resting]
                          \/ process' = [process EXCEPT ![r] = [process[r] EXCEPT !.pc = "move"]]
  BY DEF Arch!Checksum, Arch!End
<1>7. Arch!Move(r) => \/ process' = [process EXCEPT ![r] = Arch!Resting]
                      \/ /\ process[r].next # Len(Names)
                         /\ process' = [process EXCEPT ![r] = Moved(process[r])]
  BY <1>1 DEF Arch!Move, Arch!End, Moved, RunsTyped, ArchRun
<1>8. Arch!Crash(r) => process' = [process EXCEPT ![r] = Arch!Resting]
  BY DEF Arch!Crash, Arch!End
<1> QED
  BY <1>2, <1>3, <1>4, <1>5, <1>6, <1>7, <1>8

ArchConstants == Arch!NamesAssumption /\ Arch!FileAssumption /\ Arch!BoundAssumption

LEMMA IArchTypeStep == ArchConstants /\ IArchType /\ [Arch!Next]_(Arch!vars) => IArchType'
<1> SUFFICES ASSUME ArchConstants, IArchType, [Arch!Next]_(Arch!vars) PROVE IArchType'
  OBVIOUS
<1> Arch!NamesAssumption /\ Arch!FileAssumption /\ Arch!BoundAssumption
  BY DEF ArchConstants
<1> FilesTyped /\ RunsTyped /\ database \in 1..MaxVersion /\ sha \in [Arch!Name -> -2..MaxVersion]
  BY DEF IArchType, RunsTyped
<1>1. ASSUME FilesTyped', RunsTyped', sha' \in [Arch!Name -> -2..MaxVersion],
             UNCHANGED <<database, killed>>
      PROVE  IArchType'
  BY <1>1 DEF IArchType, RunsTyped
<1>2. ASSUME NEW r \in Run
      PROVE  /\ ArchRunOK(process[r], database) /\ process[r].version \in 0..MaxVersion
             /\ ArchRunOK(Arch!Resting, database)
  BY RestingIsARun DEF RunsTyped, ArchRun, Arch!BoundAssumption
<1>3. CASE UNCHANGED Arch!vars
  BY <1>1, <1>3 DEF Arch!vars, FilesTyped, RunsTyped
<1>4. CASE Arch!Commit
  <2>1. database' \in 1..MaxVersion /\ database <= database'
    BY <1>4 DEF Arch!Commit, Arch!BoundAssumption
  <2>2. \A r \in Run : ArchRunOK(process[r], database')
    <3> SUFFICES ASSUME NEW r \in Run PROVE ArchRunOK(process[r], database')
      OBVIOUS
    <3>1. process[r].version <= database'
      BY <1>2, <2>1 DEF ArchRunOK, Arch!BoundAssumption
    <3> QED
      BY <1>2, <3>1 DEF ArchRunOK
  <2> QED
    BY <1>4, <2>1, <2>2 DEF Arch!Commit, IArchType, FilesTyped
<1>5. ASSUME NEW r \in Run, Arch!Start(r) PROVE IArchType'
  <2>1. /\ Arch!OpenAll(r, Arch!Listed) /\ dst' = dst /\ UNCHANGED <<database, sha, killed>>
        /\ \A n \in Arch!Name : process[r].file[n] = NoFile
    BY <1>2, <1>5 DEF Arch!Start, ArchRunOK
  <2>2. FilesTyped' /\ Arch!Listed \in SUBSET Arch!Name
    BY <2>1, OpenAllTyped, NamesAreIndexed
  <2>3. \A n \in Arch!Listed : Arch!Opened(n) \in FileId
    BY <2>1, <2>2, OpenedIsAFile
  <2>4. RunsTyped'
    BY <1>5, <2>1, <2>3, RunBecomes, StartedOK, RunGoesOn
  <2> QED
    BY <1>1, <2>1, <2>2, <2>4
<1>6. ASSUME NEW r \in Run, Arch!WriteListed(r) PROVE IArchType'
  <2>1. /\ content' = [n \in Arch!Name |->
             IF n \in Arch!Listed THEN Arch!Written(n, process[r].file[n],
               process[r].version) ELSE content[n]]
        /\ UNCHANGED <<database, tmp, dst, sha, killed>> /\ process[r].pc = "write"
    BY <1>6 DEF Arch!WriteListed
  <2>2. \A n \in Arch!Name : Arch!Written(n, process[r].file[n], process[r].version)
          \in [FileId -> -1..MaxVersion]
    BY <1>2, WrittenTyped
  <2>3. FilesTyped'
    BY <2>1, <2>2 DEF FilesTyped
  <2>4. RunsTyped'
    BY <1>2, <1>6, <2>1, RunBecomes, ClosedOK, RunGoesOn
  <2> QED
    BY <1>1, <2>1, <2>3, <2>4
<1>7. ASSUME NEW r \in Run, Arch!OpenOther(r) PROVE IArchType'
  <2> DEFINE n == Others[process[r].next]
  <2>1. /\ Arch!OpenAll(r, {n}) /\ dst' = dst /\ UNCHANGED <<database, sha, killed>>
        /\ process[r].pc = "open"
    BY <1>7 DEF Arch!OpenOther
  <2>2. n \in Arch!Name /\ process[r].file[n] = NoFile
    BY <1>2, <2>1, NamesAreIndexed DEF ArchRunOK
  <2>3. FilesTyped' /\ Arch!Opened(n) \in FileId
    BY <2>1, <2>2, OpenAllTyped, OpenedIsAFile
  <2>4. process' = [process EXCEPT ![r] = OpenedOther(process[r], n, Arch!Opened(n))]
    BY <1>7, RunBecomes
  <2>5. ArchRunOK(OpenedOther(process[r], n, Arch!Opened(n)), database)
    BY <1>2, <2>1, <2>2, <2>3, OpenedOtherOK
  <2>6. RunsTyped'
    BY <2>1, <2>4, <2>5, RunGoesOn
  <2> QED
    BY <1>1, <2>1, <2>3, <2>6
<1>8. ASSUME NEW r \in Run, Arch!WriteOther(r) PROVE IArchType'
  <2> DEFINE n == Others[process[r].next]
  <2>1. /\ content' = [content EXCEPT ![n] =
             Arch!Written(n, process[r].file[n], process[r].version)]
        /\ UNCHANGED <<database, tmp, dst, sha, killed>> /\ process[r].pc = "other"
    BY <1>8 DEF Arch!WriteOther
  <2>2. n \in Arch!Name
    BY <1>2, <2>1, NamesAreIndexed DEF ArchRunOK
  <2>3. Arch!Written(n, process[r].file[n], process[r].version) \in [FileId -> -1..MaxVersion]
    BY <1>2, <2>2, WrittenTyped
  <2>4. FilesTyped'
    BY <2>1, <2>2, <2>3 DEF FilesTyped
  <2>5. RunsTyped'
    BY <1>2, <1>8, <2>1, RunBecomes, WroteOtherOK, RunGoesOn
  <2> QED
    BY <1>1, <2>1, <2>4, <2>5
<1>9. ASSUME NEW r \in Run, Arch!Checksum(r) PROVE IArchType'
  <2> DEFINE n == Names[process[r].next]
  <2>1. UNCHANGED <<database, tmp, dst, content, killed>> /\ process[r].pc = "sum"
    BY <1>9 DEF Arch!Checksum
  <2>2. n \in Arch!Name
    BY <1>2, <2>1, NamesAreIndexed DEF ArchRunOK
  <2>3. sha' \in [Arch!Name -> -2..MaxVersion]
    <3>1. tmp[n] # NoFile => content[n][tmp[n]] \in -1..MaxVersion
      BY <2>2 DEF FilesTyped
    <3>2. tmp[n] # NoFile => content[n][tmp[n]] \in -2..MaxVersion
      BY <3>1 DEF Arch!BoundAssumption
    <3> QED
      BY <1>9, <3>2 DEF Arch!Checksum
  <2>4. ArchRunOK([process[r] EXCEPT !.pc = "move"], database)
    BY <1>2, <2>1, SummedOK
  <2>5. RunsTyped'
    BY <1>2, <1>9, <2>1, <2>4, RunBecomes, RunGoesOn
  <2>6. FilesTyped'
    BY <2>1 DEF FilesTyped
  <2> QED
    BY <1>1, <2>1, <2>3, <2>5, <2>6
<1>10. ASSUME NEW r \in Run, Arch!Move(r) PROVE IArchType'
  <2> DEFINE n == Names[process[r].next]
  <2>1. UNCHANGED <<database, content, sha, killed>> /\ process[r].pc = "move"
    BY <1>10 DEF Arch!Move
  <2>2. n \in Arch!Name
    BY <1>2, <2>1, NamesAreIndexed DEF ArchRunOK
  <2>3. FilesTyped'
    BY <1>10, <2>1, <2>2 DEF Arch!Move, FilesTyped
  <2>4. RunsTyped'
    BY <1>2, <1>10, <2>1, RunBecomes, MovedOK, RunGoesOn
  <2> QED
    BY <1>1, <2>1, <2>3, <2>4
<1>11. ASSUME NEW r \in Run, Arch!Crash(r) PROVE IArchType'
  <2>1. killed' \in 0..MaxCrash
    BY <1>11 DEF Arch!Crash, IArchType, Arch!BoundAssumption
  <2>2. UNCHANGED <<database, tmp, dst, content, sha>>
    BY <1>11 DEF Arch!Crash
  <2>3. RunsTyped'
    BY <1>2, <1>11, <2>2, RunBecomes, RunGoesOn
  <2> QED
    BY <2>1, <2>2, <2>3 DEF IArchType, RunsTyped, FilesTyped
<1> QED
  BY <1>3, <1>4, <1>5, <1>6, <1>7, <1>8, <1>9, <1>10, <1>11 DEF Arch!Next, Arch!Step


LEMMA IArchTypeStarts == ArchConstants /\ Arch!Init => IArchType
<1> SUFFICES ASSUME ArchConstants, Arch!Init PROVE IArchType
  OBVIOUS
<1>1. /\ Arch!NamesAssumption /\ Arch!BoundAssumption /\ database = 1 /\ killed = 0
      /\ tmp = [n \in Arch!Name |-> NoFile] /\ dst = [n \in Arch!Name |-> NoFile]
      /\ content = [n \in Arch!Name |-> [f \in FileId |-> Arch!Partial]]
      /\ sha = [n \in Arch!Name |-> Arch!NoSum]
      /\ process = [r \in Run |-> Arch!Resting]
  BY DEF Arch!Init, ArchConstants
<1>2. /\ 1 \in 1..MaxVersion /\ 0 \in 0..MaxCrash /\ Arch!Partial \in -1..MaxVersion
      /\ Arch!NoSum \in -2..MaxVersion /\ 1 \in Nat
  BY <1>1 DEF Arch!BoundAssumption, Arch!Partial, Arch!NoSum
<1>3. FilesTyped
  BY <1>1, <1>2 DEF FilesTyped
<1>4. Arch!Resting \in ArchRun /\ ArchRunOK(Arch!Resting, 1)
  BY <1>1, <1>2, RestingIsARun
<1> QED
  BY <1>1, <1>2, <1>3, <1>4 DEF IArchType

\* The types of mkpkglists, for any number of runs at once that are killed at
\* any step: each run has only files open that are among its names', and no
\* archive is the temporary file of its name.
THEOREM ArchiveTypes == ArchConstants => (Arch!Spec => []Arch!TypeOK)
<1> SUFFICES ASSUME ArchConstants PROVE Arch!Spec => []Arch!TypeOK
  OBVIOUS
<1>1. Arch!Init => IArchType
  BY IArchTypeStarts
<1>2. IArchType /\ [Arch!Next]_(Arch!vars) => IArchType'
  BY IArchTypeStep
<1>3. IArchType => Arch!TypeOK
  BY ArchTypeGiven DEF ArchConstants
<1> QED
  BY <1>1, <1>2, <1>3, PTL DEF Arch!Spec

-----------------------------------------------------------------------------
\* What run p has open, has written and has moved.
Writing(p, n) ==
    \/ p.pc = "write" /\ n \in Arch!Listed
    \/ p.pc = "other" /\ n = Others[p.next]
IsMade(p, n) ==
    \/ /\ p.pc \in {"open", "other"}
       /\ \/ n \in Arch!Listed
          \/ \E i \in 1..Len(Others) : i < p.next /\ n = Others[i]
    \/ p.pc \in {"sum", "move"} /\ \E i \in 1..Len(Names) : p.next <= i /\ n = Names[i]
IsMoved(p, n) == p.pc \in {"sum", "move"} /\ \E i \in 1..Len(Names) : i < p.next /\ n = Names[i]

\* No file is written by two runs and no archive is a part of one; what p has
\* made is of its snapshot, and so are the archives and checksums it has moved.
\* t is the temporary file of the name, d the archive, c what its files hold
\* and s the checksum.
NameOK(p, n, t, d, c, s) ==
    /\ \A f \in FileId : c[f] # Arch!Torn
    /\ d # NoFile => c[d] # Arch!Partial
    /\ Writing(p, n) => t # NoFile /\ p.file[n] = t
    /\ IsMade(p, n) => t # NoFile /\ c[t] = p.version
    /\ IsMoved(p, n) => d # NoFile /\ c[d] = p.version /\ s = p.version
    /\ p.pc = "move" /\ n = Names[p.next] => s = p.version

\* The archives are of one snapshot, each next to its checksum, or there are none.
Snapshot ==
    \/ \A n \in Arch!Name : dst[n] = NoFile /\ sha[n] = Arch!NoSum
    \/ \E v \in 1..MaxVersion : \A n \in Arch!Name :
         dst[n] # NoFile /\ content[n][dst[n]] = v /\ sha[n] = v

IArch ==
    \A r \in Run :
      /\ \A n \in Arch!Name : NameOK(process[r], n, tmp[n], dst[n], content[n], sha[n])
      /\ process[r].pc # "rest" => process[r].version \in 1..MaxVersion
      /\ process[r].pc = "rest" /\ killed = 0 => Snapshot
LEMMA WholeWhenOne ==
  ASSUME IArchType, IArch, NEW r \in Run
  PROVE  /\ Arch!ArchivesAreWhole
         /\ killed = 0 => Arch!OneSnapshot /\ Arch!ChecksumIsRight
<1>1. Arch!ArchivesAreWhole
  <2> SUFFICES ASSUME NEW n \in Arch!Name, dst[n] # NoFile
               PROVE  content[n][dst[n]] \notin {Arch!Partial, Arch!Torn}
    BY DEF Arch!ArchivesAreWhole, Arch!Published
  <2>1. dst[n] \in FileId /\ NameOK(process[r], n, tmp[n], dst[n], content[n], sha[n])
    BY DEF IArch, IArchType, FilesTyped
  <2> QED
    BY <2>1 DEF NameOK
<1>2. ASSUME killed = 0, Arch!Quiet PROVE Snapshot
  BY <1>2 DEF IArch, Arch!Quiet
<1>3. killed = 0 => Arch!OneSnapshot
  BY <1>2 DEF Arch!OneSnapshot, Snapshot, Arch!Published
<1>4. killed = 0 => Arch!ChecksumIsRight
  BY <1>2 DEF Arch!ChecksumIsRight, Snapshot, Arch!Published
<1> QED
  BY <1>1, <1>3, <1>4

\* Who neither writes nor has made anything asks little.
LEMMA RestAsksLittle ==
  ASSUME NEW p, NEW n, NEW t, NEW d, NEW c, NEW s, NameOK(p, n, t, d, c, s)
  PROVE  NameOK(Arch!Resting, n, t, d, c, s)
  BY DEF NameOK, Arch!Resting, Writing, IsMade, IsMoved

LEMMA StartKeeps ==
  ASSUME ArchConstants, IArchType, OneRun, IArch, NEW r \in Run, Arch!Start(r)
  PROVE  IArch'
<1> Arch!NamesAssumption /\ Arch!FileAssumption /\ Arch!BoundAssumption /\ FilesTyped /\ RunsTyped
  BY DEF ArchConstants, IArchType, RunsTyped
<1>1. \A x \in Run : x = r
  BY DEF OneRun
<1>2. process' = [process EXCEPT ![r] = Started] /\ Arch!OpenAll(r, Arch!Listed)
        /\ UNCHANGED <<dst, sha, database>>
  BY RunBecomes DEF Arch!Start
<1>3. process'[r] = Started
  BY <1>2 DEF RunsTyped
<1>4. \A n \in Arch!Name : process[r].file[n] = NoFile
  BY DEF RunsTyped, ArchRunOK, Arch!Start
<1>5. ASSUME NEW n \in Arch!Name
      PROVE  NameOK(Started, n, tmp'[n], dst[n], content'[n], sha[n])
  <2>1. NameOK(process[r], n, tmp[n], dst[n], content[n], sha[n])
    BY DEF IArch
  <2>2. Arch!Opened(n) \in FileId /\ Arch!Opened(n) # NoFile /\ Arch!Opened(n) # dst[n]
    BY <1>4, OpenedIsAFile
  <2>3. Arch!Open(n) = {}
    BY <1>1, <1>4 DEF Arch!Open
  <2>4. CASE n \in Arch!Listed
    <3>1. tmp'[n] = Arch!Opened(n)
            /\ content'[n] = [content[n] EXCEPT ![Arch!Opened(n)] = Arch!Partial]
      BY <1>2, <2>2, <2>3, <2>4 DEF Arch!OpenAll
    <3>2. \A f \in FileId : content'[n][f] =
            IF f = Arch!Opened(n) THEN Arch!Partial ELSE content[n][f]
      BY <2>2, <3>1 DEF FilesTyped
    <3>3. dst[n] # NoFile => content'[n][dst[n]] = content[n][dst[n]]
      BY <2>2, <3>2 DEF FilesTyped
    <3>4. Started.file[n] = Arch!Opened(n) /\ Started.pc = "write"
      BY <2>4 DEF Started
    <3>5. Arch!Partial # Arch!Torn
      BY DEF Arch!Partial, Arch!Torn
    <3> QED
      BY <2>1, <2>2, <3>1, <3>2, <3>3, <3>4, <3>5 DEF NameOK, Writing, IsMade, IsMoved
  <2>5. CASE n \notin Arch!Listed
    <3>1. tmp'[n] = tmp[n] /\ content'[n] = content[n]
      BY <1>2, <2>5 DEF Arch!OpenAll
    <3> QED
      BY <2>1, <2>5, <3>1 DEF NameOK, Writing, IsMade, IsMoved, Started
  <2> QED
    BY <2>4, <2>5
<1>6. Started.pc = "write" /\ Started.version \in 1..MaxVersion
  BY DEF Started, IArchType
<1> QED
  BY <1>1, <1>2, <1>3, <1>5, <1>6 DEF IArch

\* A file is written to its end.
LEMMA WritesWhole ==
  ASSUME FilesTyped, NEW n \in Arch!Name, NEW v \in 1..MaxVersion, tmp[n] # NoFile,
         \A f \in FileId : content[n][f] # Arch!Torn
  PROVE  LET c == Arch!Written(n, tmp[n], v) IN
         /\ c[tmp[n]] = v /\ \A f \in FileId : c[f] # Arch!Torn
         /\ dst[n] # NoFile => c[dst[n]] = content[n][dst[n]]
<1>1. tmp[n] \in FileId /\ tmp[n] # dst[n] /\ v # Arch!Torn
  BY DEF FilesTyped, Arch!Torn
<1>2. Arch!Written(n, tmp[n], v) = [content[n] EXCEPT ![tmp[n]] = v]
  BY <1>1 DEF Arch!Written
<1>3. \A f \in FileId : Arch!Written(n, tmp[n], v)[f] = IF f = tmp[n] THEN v ELSE content[n][f]
  BY <1>1, <1>2 DEF FilesTyped
<1>4. dst[n] # NoFile => dst[n] \in FileId
  BY DEF FilesTyped
<1> QED
  BY <1>1, <1>3, <1>4

LEMMA WriteListedKeeps ==
  ASSUME ArchConstants, IArchType, OneRun, IArch, NEW r \in Run, Arch!WriteListed(r)
  PROVE  IArch'
<1> Arch!NamesAssumption /\ Arch!FileAssumption /\ Arch!BoundAssumption /\ FilesTyped /\ RunsTyped
  BY DEF ArchConstants, IArchType, RunsTyped
<1> DEFINE p == process[r]
           v == p.version
           q == Closed(p)
<1>1. \A x \in Run : x = r
  BY DEF OneRun
<1>2. /\ process' = [process EXCEPT ![r] = q] /\ UNCHANGED <<tmp, dst, sha, database>>
      /\ p.pc = "write"
      /\ content' = [n \in Arch!Name |-> IF n
           \in Arch!Listed THEN Arch!Written(n, p.file[n], v) ELSE content[n]]
  BY RunBecomes DEF Arch!WriteListed
<1>3. process'[r] = q /\ p \in ArchRun /\ p.next = 1 /\ v \in 1..MaxVersion
  BY <1>2 DEF RunsTyped, ArchRunOK, IArch
<1>4. q.pc = (IF Others = <<>> THEN "sum" ELSE "open") /\ q.version = v /\ q.next = 1
  BY <1>3 DEF Closed, ArchRun
<1>5. ASSUME NEW n \in Arch!Name
      PROVE  NameOK(q, n, tmp[n], dst[n], content'[n], sha[n])
  <2>1. NameOK(p, n, tmp[n], dst[n], content[n], sha[n])
    BY DEF IArch
  <2>2. ~Writing(q, n) /\ ~IsMoved(q, n) /\ q.pc # "move"
    BY <1>4, NamesAreIndexed DEF Writing, IsMoved
  <2>3. CASE n \in Arch!Listed
    <3>1. tmp[n] # NoFile /\ p.file[n] = tmp[n]
      BY <1>2, <2>1, <2>3 DEF NameOK, Writing
    <3>2. content'[n] = Arch!Written(n, tmp[n], v)
      BY <1>2, <2>3, <3>1
    <3>3. \A f \in FileId : content[n][f] # Arch!Torn
      BY <2>1 DEF NameOK
    <3>4. /\ content'[n][tmp[n]] = v /\ \A f \in FileId : content'[n][f] # Arch!Torn
          /\ dst[n] # NoFile => content'[n][dst[n]] = content[n][dst[n]]
      BY <1>3, <3>1, <3>2, <3>3, WritesWhole
    <3> QED
      BY <1>4, <2>1, <2>2, <3>1, <3>4 DEF NameOK
  <2>4. CASE n \notin Arch!Listed
    <3>1. content'[n] = content[n]
      BY <1>2, <2>4
    <3>2. Others # <<>>
      BY <2>4, NamesAreIndexed
    <3>3. ~IsMade(q, n)
      BY <1>4, <2>4, <3>2, NamesAreIndexed DEF IsMade
    <3> QED
      BY <2>1, <2>2, <3>1, <3>3 DEF NameOK
  <2> QED
    BY <2>3, <2>4
<1> HIDE DEF q
<1>6. q.pc # "rest" /\ q.version \in 1..MaxVersion
  BY <1>3, <1>4
<1> QED
  BY <1>1, <1>2, <1>3, <1>5, <1>6 DEF IArch

LEMMA OpenOtherKeeps ==
  ASSUME ArchConstants, IArchType, OneRun, IArch, NEW r \in Run, Arch!OpenOther(r)
  PROVE  IArch'
<1> Arch!NamesAssumption /\ Arch!FileAssumption /\ Arch!BoundAssumption /\ FilesTyped /\ RunsTyped
  BY DEF ArchConstants, IArchType, RunsTyped
<1> DEFINE p == process[r]
           m == Others[p.next]
           q == OpenedOther(p, m, Arch!Opened(m))
<1>1. \A x \in Run : x = r
  BY DEF OneRun
<1>2. /\ process' = [process EXCEPT ![r] = q] /\ UNCHANGED <<dst, sha, database>> /\ p.pc = "open"
      /\ Arch!OpenAll(r, {m})
  BY RunBecomes DEF Arch!OpenOther
<1>3. /\ process'[r] = q /\ p \in ArchRun /\ p.next \in 1..Len(Others)
      /\ p.version \in 1..MaxVersion
      /\ \A n \in Arch!Name : p.file[n] = NoFile
  BY <1>2 DEF RunsTyped, ArchRunOK, IArch
<1>4. m \in Arch!Name \ Arch!Listed
  BY <1>3, NamesAreIndexed
<1>5. /\ q.pc = "other" /\ q.version = p.version /\ q.next = p.next
      /\ q.file[m] = Arch!Opened(m)
  BY <1>3, <1>4 DEF OpenedOther, ArchRun
<1>6. /\ Arch!Opened(m) \in FileId /\ Arch!Opened(m) # NoFile /\ Arch!Opened(m) # dst[m]
      /\ Arch!Open(m) = {}
  <2>1. Arch!Open(m) = {}
    BY <1>1, <1>3, <1>4 DEF Arch!Open
  <2> QED
    BY <1>3, <1>4, <2>1, OpenedIsAFile
<1> HIDE DEF q
<1>7. ASSUME NEW n \in Arch!Name
      PROVE  NameOK(q, n, tmp'[n], dst[n], content'[n], sha[n])
  <2>1. NameOK(p, n, tmp[n], dst[n], content[n], sha[n])
    BY DEF IArch
  <2>2. ~IsMoved(q, n)
    BY <1>5 DEF IsMoved
  <2>3. CASE n = m
    <3>1. tmp'[m] = Arch!Opened(m)
            /\ content'[m] = [content[m] EXCEPT ![Arch!Opened(m)] = Arch!Partial]
      BY <1>2, <1>4, <1>6 DEF Arch!OpenAll
    <3>2. \A f \in FileId : content'[m][f] =
            IF f = Arch!Opened(m) THEN Arch!Partial ELSE content[m][f]
      BY <1>4, <1>6, <3>1 DEF FilesTyped
    <3>3. dst[m] # NoFile => content'[m][dst[m]] = content[m][dst[m]]
      BY <1>4, <1>6, <3>2 DEF FilesTyped
    <3>4. ~IsMade(q, m)
      BY <1>3, <1>4, <1>5 DEF IsMade, Arch!NamesAssumption
    <3>5. Arch!Partial # Arch!Torn
      BY DEF Arch!Partial, Arch!Torn
    <3> QED
      BY <1>5, <1>6, <2>1, <2>2, <2>3, <3>1, <3>2, <3>3, <3>4, <3>5 DEF NameOK
  <2>4. CASE n # m
    <3>1. tmp'[n] = tmp[n] /\ content'[n] = content[n]
      BY <1>2, <2>4 DEF Arch!OpenAll
    <3>2. IsMade(q, n) => IsMade(p, n)
      BY <1>2, <1>5 DEF IsMade
    <3>3. ~Writing(q, n)
      BY <1>5, <2>4 DEF Writing
    <3> QED
      BY <1>5, <2>1, <2>2, <3>1, <3>2, <3>3 DEF NameOK
  <2> QED
    BY <2>3, <2>4
<1> QED
  BY <1>1, <1>2, <1>3, <1>5, <1>7 DEF IArch

LEMMA WriteOtherKeeps ==
  ASSUME ArchConstants, IArchType, OneRun, IArch, NEW r \in Run, Arch!WriteOther(r)
  PROVE  IArch'
<1> Arch!NamesAssumption /\ Arch!FileAssumption /\ Arch!BoundAssumption /\ FilesTyped /\ RunsTyped
  BY DEF ArchConstants, IArchType, RunsTyped
<1> DEFINE p == process[r]
           m == Others[p.next]
           v == p.version
           q == WroteOther(p)
<1>1. \A x \in Run : x = r
  BY DEF OneRun
<1>2. /\ process' = [process EXCEPT ![r] = q] /\ UNCHANGED <<tmp, dst, sha, database>>
      /\ p.pc = "other"
      /\ content' = [content EXCEPT ![m] = Arch!Written(m, p.file[m], v)]
  BY RunBecomes DEF Arch!WriteOther
<1>3. /\ process'[r] = q /\ p \in ArchRun /\ p.next \in 1..Len(Others) /\ v \in 1..MaxVersion
  BY <1>2 DEF RunsTyped, ArchRunOK, IArch
<1>4. m \in Arch!Name \ Arch!Listed
  BY <1>3, NamesAreIndexed
<1>5. /\ q.pc = (IF p.next = Len(Others) THEN "sum" ELSE "open") /\ q.version = v
      /\ q.next = IF p.next = Len(Others) THEN 1 ELSE p.next + 1
  BY <1>3 DEF WroteOther, ArchRun
<1>6. \A n \in Arch!Name : ~Writing(q, n) /\ ~IsMoved(q, n) /\ q.pc \notin {"rest", "move"}
  BY <1>5, NamesAreIndexed DEF Writing, IsMoved
<1> HIDE DEF q
<1>7. ASSUME NEW n \in Arch!Name, n # m, IsMade(q, n) PROVE IsMade(p, n)
  <2>1. n \in Arch!Listed \/ \E i \in 1..Len(Others) : n = Others[i]
    BY NamesAreIndexed
  <2>2. CASE n \in Arch!Listed
    BY <1>2, <2>2 DEF IsMade
  <2>3. CASE n \notin Arch!Listed
    <3>1. PICK i \in 1..Len(Others) : n = Others[i] /\ (p.next = Len(Others) \/ i < p.next + 1)
      BY <1>5, <1>7, <2>1, <2>3 DEF IsMade
    <3>2. i # p.next
      BY <1>7, <3>1
    <3>3. i < p.next
      BY <1>3, <3>1, <3>2, NamesAreIndexed
    <3> QED
      BY <1>2, <3>1, <3>3 DEF IsMade
  <2> QED
    BY <2>2, <2>3
<1>8. ASSUME NEW n \in Arch!Name
      PROVE  NameOK(q, n, tmp[n], dst[n], content'[n], sha[n])
  <2>1. NameOK(p, n, tmp[n], dst[n], content[n], sha[n])
    BY DEF IArch
  <2>2. CASE n = m
    <3>1. tmp[m] # NoFile /\ p.file[m] = tmp[m] /\ \A f \in FileId : content[m][f] # Arch!Torn
      BY <1>2, <2>1, <2>2 DEF NameOK, Writing
    <3>2. content'[m] = Arch!Written(m, tmp[m], v)
      BY <1>2, <1>4, <3>1 DEF FilesTyped
    <3>3. /\ content'[m][tmp[m]] = v /\ \A f \in FileId : content'[m][f] # Arch!Torn
          /\ dst[m] # NoFile => content'[m][dst[m]] = content[m][dst[m]]
      BY <1>3, <1>4, <3>1, <3>2, WritesWhole
    <3> QED
      BY <1>5, <1>6, <2>1, <2>2, <3>1, <3>3 DEF NameOK
  <2>3. CASE n # m
    <3>1. content'[n] = content[n]
      BY <1>2, <2>3 DEF FilesTyped
    <3> QED
      BY <1>5, <1>6, <1>7, <2>1, <2>3, <3>1 DEF NameOK
  <2> QED
    BY <2>2, <2>3
<1> QED
  BY <1>1, <1>2, <1>3, <1>5, <1>6, <1>8, NamesAreIndexed DEF IArch

LEMMA ChecksumKeeps ==
  ASSUME ArchConstants, IArchType, OneRun, IArch, NEW r \in Run, Arch!Checksum(r)
  PROVE  IArch'
<1> Arch!NamesAssumption /\ RunsTyped
  BY DEF ArchConstants, IArchType, RunsTyped
<1> DEFINE p == process[r]
           m == Names[p.next]
           q == [p EXCEPT !.pc = "move"]
<1>1. \A x \in Run : x = r
  BY DEF OneRun
<1>2. p.pc = "sum" /\ UNCHANGED <<tmp, dst, content, database>>
  BY DEF Arch!Checksum
<1>3. /\ p \in ArchRun /\ p.next \in 1..Len(Names) /\ p.version \in 1..MaxVersion
      /\ \A n \in Arch!Name : NameOK(p, n, tmp[n], dst[n], content[n], sha[n])
  BY <1>2 DEF RunsTyped, ArchRunOK, IArch
<1>4. m \in Arch!Name /\ IsMade(p, m)
  <2>1. m \in Arch!Name /\ p.next <= p.next
    BY <1>3, NamesAreIndexed
  <2> QED
    BY <1>2, <1>3, <2>1 DEF IsMade
<1>5. tmp[m] # NoFile /\ content[m][tmp[m]] = p.version
  BY <1>3, <1>4 DEF NameOK
<1>6. process' = [process EXCEPT ![r] = q] /\ sha' = [sha EXCEPT ![m] = p.version]
  BY <1>5 DEF Arch!Checksum
<1>7. /\ process'[r] = q /\ q.pc = "move" /\ q.next = p.next /\ q.version = p.version
      /\ \A n \in Arch!Name : sha'[n] = IF n = m THEN p.version ELSE sha[n]
  BY <1>3, <1>6 DEF RunsTyped, ArchRun, IArchType
<1> HIDE DEF q
<1>8. ASSUME NEW n \in Arch!Name
      PROVE  NameOK(q, n, tmp[n], dst[n], content[n], sha'[n])
  <2>1. NameOK(p, n, tmp[n], dst[n], content[n], sha[n])
    BY <1>3
  <2>2. ~Writing(q, n) /\ (IsMade(q, n) => IsMade(p, n)) /\ (IsMoved(q, n) => IsMoved(p, n))
    BY <1>2, <1>7 DEF Writing, IsMade, IsMoved
  <2> QED
    BY <1>7, <2>1, <2>2 DEF NameOK
<1> QED
  BY <1>1, <1>2, <1>3, <1>7, <1>8 DEF IArch

LEMMA MoveKeeps ==
  ASSUME ArchConstants, IArchType, OneRun, IArch, NEW r \in Run, Arch!Move(r)
  PROVE  IArch'
<1> Arch!NamesAssumption /\ FilesTyped /\ RunsTyped
  BY DEF ArchConstants, IArchType, RunsTyped
<1> DEFINE p == process[r]
           m == Names[p.next]
<1>1. \A x \in Run : x = r
  BY DEF OneRun
<1>2. p.pc = "move" /\ UNCHANGED <<content, sha, database, killed>>
  BY DEF Arch!Move
<1>3. /\ p \in ArchRun /\ p.next \in 1..Len(Names) /\ p.version \in 1..MaxVersion
      /\ \A n \in Arch!Name : NameOK(p, n, tmp[n], dst[n], content[n], sha[n])
  BY <1>2 DEF RunsTyped, ArchRunOK, IArch
<1>4. m \in Arch!Name /\ IsMade(p, m)
  <2>1. m \in Arch!Name /\ p.next <= p.next
    BY <1>3, NamesAreIndexed
  <2> QED
    BY <1>2, <1>3, <2>1 DEF IsMade
<1>5. tmp[m] # NoFile /\ content[m][tmp[m]] = p.version /\ sha[m] = p.version
  BY <1>2, <1>3, <1>4 DEF NameOK
<1>6. /\ dst' = [dst EXCEPT ![m] = tmp[m]] /\ tmp' = [tmp EXCEPT ![m] = NoFile]
      /\ IF p.next = Len(Names) THEN process' = [process EXCEPT ![r] = Arch!Resting]
                                ELSE process' = [process EXCEPT ![r] = Moved(p)]
  <2>1. p.next # Len(Names) => process' = [process EXCEPT ![r].next = @ + 1, ![r].pc = "sum"]
    BY <1>5 DEF Arch!Move
  <2>2. p.next # Len(Names) => process' = [process EXCEPT ![r] = Moved(p)]
    BY <1>3, <2>1 DEF Moved, ArchRun, RunsTyped
  <2> QED
    BY <1>5, <2>2 DEF Arch!Move, Arch!End
<1>7. /\ dst'[m] = tmp[m]
      /\ \A n \in Arch!Name : n # m => tmp'[n] = tmp[n] /\ dst'[n] = dst[n]
  BY <1>4, <1>6 DEF FilesTyped
<1>8. Arch!Partial \notin 1..MaxVersion
  BY DEF Arch!Partial
\* What holds of every name whatever the run does next.
<1>9. \A n \in Arch!Name : IsMoved(p, n) \/ n = m
        => dst'[n] # NoFile /\ content[n][dst'[n]] = p.version /\ sha[n] = p.version
  BY <1>3, <1>5, <1>7 DEF NameOK
<1>10. CASE p.next = Len(Names)
  <2>1. process'[r] = Arch!Resting
    BY <1>6, <1>10 DEF RunsTyped
  <2>2. ASSUME NEW n \in Arch!Name
        PROVE  NameOK(Arch!Resting, n, tmp'[n], dst'[n], content[n], sha[n])
    <3>1. NameOK(p, n, tmp[n], dst[n], content[n], sha[n])
      BY <1>3
    <3>2. dst'[n] # NoFile => content[n][dst'[n]] # Arch!Partial
      BY <1>3, <1>7, <1>8, <1>9, <3>1 DEF NameOK
    <3> QED
      BY <3>1, <3>2 DEF NameOK, Arch!Resting, Writing, IsMade, IsMoved
  <2>3. \A n \in Arch!Name : IsMoved(p, n) \/ n = m
    <3> SUFFICES ASSUME NEW n \in Arch!Name, n # m PROVE IsMoved(p, n)
      OBVIOUS
    <3>1. PICK i \in 1..Len(Names) : n = Names[i]
      BY NamesAreIndexed
    <3>2. i < p.next
      BY <1>10, <3>1, NamesAreIndexed
    <3> QED
      BY <1>2, <3>1, <3>2 DEF IsMoved
  <2>4. Snapshot'
    BY <1>2, <1>3, <1>9, <2>3 DEF Snapshot
  <2>5. Arch!Resting.pc = "rest"
    BY DEF Arch!Resting
  <2> QED
    BY <1>1, <1>2, <2>1, <2>2, <2>4, <2>5 DEF IArch
<1>11. CASE p.next # Len(Names)
  <2> DEFINE q == Moved(p)
  <2>1. process'[r] = q
    BY <1>6, <1>11 DEF RunsTyped
  <2>2. q.pc = "sum" /\ q.next = p.next + 1 /\ q.version = p.version
    BY <1>3 DEF Moved, ArchRun
  <2> HIDE DEF q
  <2>3. ASSUME NEW n \in Arch!Name PROVE NameOK(q, n, tmp'[n], dst'[n], content[n], sha[n])
    <3>1. NameOK(p, n, tmp[n], dst[n], content[n], sha[n])
      BY <1>3
    <3>2. dst'[n] # NoFile => content[n][dst'[n]] # Arch!Partial
      BY <1>3, <1>7, <1>8, <1>9, <3>1 DEF NameOK
    <3>3. ~Writing(q, n) /\ q.pc # "move"
      BY <2>2 DEF Writing
    <3>4. IsMoved(q, n) => IsMoved(p, n) \/ n = m
      <4> SUFFICES ASSUME IsMoved(q, n), n # m PROVE IsMoved(p, n)
        OBVIOUS
      <4>1. PICK i \in 1..Len(Names) : i < q.next /\ n = Names[i]
        BY DEF IsMoved
      <4>2. i # p.next
        BY <4>1
      <4>3. i < p.next
        BY <1>3, <2>2, <4>1, <4>2, NamesAreIndexed
      <4> QED
        BY <1>2, <4>1, <4>3 DEF IsMoved
    <3>5. IsMade(q, n) => n # m /\ IsMade(p, n)
      <4> SUFFICES ASSUME IsMade(q, n) PROVE n # m /\ IsMade(p, n)
        OBVIOUS
      <4>1. PICK i \in 1..Len(Names) : q.next <= i /\ n = Names[i]
        BY <2>2 DEF IsMade
      <4>2. p.next <= i /\ i # p.next
        BY <1>3, <2>2, <4>1, NamesAreIndexed
      <4>3. n # m
        BY <1>3, <4>1, <4>2 DEF Arch!NamesAssumption
      <4> QED
        BY <1>2, <4>1, <4>2, <4>3 DEF IsMade
    <3> QED
      BY <1>7, <1>9, <2>2, <3>1, <3>2, <3>3, <3>4, <3>5 DEF NameOK
  <2> QED
    BY <1>1, <1>2, <1>3, <2>1, <2>2, <2>3 DEF IArch
<1> QED
  BY <1>10, <1>11

LEMMA CrashKeeps ==
  ASSUME ArchConstants, IArchType, OneRun, IArch, NEW r \in Run, Arch!Crash(r)
  PROVE  IArch'
<1>1. \A x \in Run : x = r
  BY DEF OneRun
<1>2. /\ UNCHANGED <<tmp, dst, content, sha>> /\ killed' = killed + 1
      /\ process' = [process EXCEPT ![r] = Arch!Resting]
  BY DEF Arch!Crash, Arch!End
<1>3. process'[r] = Arch!Resting /\ killed' # 0
  BY <1>2 DEF IArchType
<1>4. \A n \in Arch!Name : NameOK(Arch!Resting, n, tmp[n], dst[n], content[n], sha[n])
  BY RestAsksLittle DEF IArch
<1>5. Arch!Resting.pc = "rest"
  BY DEF Arch!Resting
<1> QED
  BY <1>1, <1>2, <1>3, <1>4, <1>5 DEF IArch

LEMMA IArchStep == ArchConstants /\ OneRun /\ IArchType /\ IArch /\ [Arch!Next]_(Arch!vars)
                     => IArch'
<1> SUFFICES ASSUME ArchConstants, OneRun, IArchType, IArch, [Arch!Next]_(Arch!vars) PROVE IArch'
  OBVIOUS
<1>1. CASE UNCHANGED Arch!vars
  BY <1>1 DEF Arch!vars, IArch, Snapshot
<1>2. CASE Arch!Commit
  BY <1>2 DEF Arch!Commit, IArch, Snapshot
<1>3. ASSUME NEW r \in Run, Arch!Step(r) \/ Arch!Crash(r) PROVE IArch'
  BY <1>3, StartKeeps, WriteListedKeeps, OpenOtherKeeps, WriteOtherKeeps, ChecksumKeeps,
     MoveKeeps, CrashKeeps DEF Arch!Step
<1> QED
  BY <1>1, <1>2, <1>3 DEF Arch!Next

LEMMA IArchStarts == Arch!Init => IArch
<1> SUFFICES ASSUME Arch!Init PROVE IArch
  OBVIOUS
<1>1. /\ tmp = [n \in Arch!Name |-> NoFile] /\ dst = [n \in Arch!Name |-> NoFile]
      /\ content = [n \in Arch!Name |-> [f \in FileId |-> Arch!Partial]]
      /\ sha = [n \in Arch!Name |-> Arch!NoSum]
      /\ process = [r \in Run |-> Arch!Resting]
  BY DEF Arch!Init
<1>2. Snapshot
  BY <1>1 DEF Snapshot
<1>3. \A n \in Arch!Name : NameOK(Arch!Resting, n, tmp[n], dst[n], content[n], sha[n])
  BY <1>1 DEF NameOK, Arch!Resting, Writing, IsMade, IsMoved, Arch!Partial, Arch!Torn
<1> QED
  BY <1>1, <1>2, <1>3 DEF IArch, Arch!Resting

\* What ArchivesAreRight of MCCron says of one run.
ArchivesOfOneRun == Arch!ArchivesAreWhole /\ (killed = 0
  => Arch!OneSnapshot /\ Arch!ChecksumIsRight)

\* While one run of mkpkglists works at a time, and wherever it is killed, what
\* can be downloaded is never a part of an archive; if it is not killed, all
\* archives are of one snapshot of the database, each next to its checksum,
\* whenever no run is under way.
THEOREM OneRunIsWhole ==
  ArchConstants /\ OneRun /\ Run # {} => (Arch!Spec => []ArchivesOfOneRun)
<1> SUFFICES ASSUME ArchConstants, OneRun, Run # {} PROVE Arch!Spec => []ArchivesOfOneRun
  OBVIOUS
<1>1. Arch!Init => IArchType /\ IArch
  BY IArchTypeStarts, IArchStarts
<1>2. IArchType /\ IArch /\ [Arch!Next]_(Arch!vars) => (IArchType /\ IArch)'
  BY IArchTypeStep, IArchStep
<1>3. IArchType /\ IArch => ArchivesOfOneRun
  BY WholeWhenOne DEF ArchivesOfOneRun
<1> QED
  BY <1>1, <1>2, <1>3, PTL DEF Arch!Spec

-----------------------------------------------------------------------------
(* Providers *)

\* The runs: next is past the last repository when all of them are read.
ProvRun == [pc : {"idle", "sync", "compare", "commit"}, next : 1..Len(SyncDbs) + 1,
            found : [Provider -> Prov!Row], old : [Provider -> Prov!Row],
            quiet : BOOLEAN, kept : SUBSET Provider]
ProvRunOK(q) ==
    /\ q \in ProvRun
    /\ q.pc \in {"idle", "sync"} => q.next \in 1..Len(SyncDbs)
    /\ q.pc \in {"compare", "commit"} => q.next = Len(SyncDbs) + 1

ProvConstants == Prov!RepoAssumption /\ Prov!BoundAssumption

IProvType ==
    /\ mirror \in [Provider -> SUBSET Prov!Repo]
    /\ table \in [Provider -> Prov!Row]
    /\ process \in [Run -> ProvRun] /\ \A r \in Run : ProvRunOK(process[r])
    /\ changes \in 0..MaxChange /\ fails \in 0..MaxFail
    /\ forgotten \subseteq Provider

LEMMA ReposAreIndexed ==
  ASSUME Prov!RepoAssumption
  PROVE  /\ Len(SyncDbs) \in Nat /\ 1 <= Len(SyncDbs)
         /\ \A i \in 1..Len(SyncDbs) : SyncDbs[i] \in Prov!Repo /\ SyncDbs[i] # NoRepo
         /\ \A p \in Prov!Repo : \E i \in 1..Len(SyncDbs) : p = SyncDbs[i]
<1>1. Len(SyncDbs) \in Nat /\ 1 <= Len(SyncDbs)
  BY DEF Prov!RepoAssumption
<1> QED
  BY <1>1 DEF Prov!RepoAssumption, Prov!Repo

LEMMA ProvTypeGiven == Prov!RepoAssumption /\ IProvType => Prov!TypeOK
<1> SUFFICES ASSUME Prov!RepoAssumption, IProvType PROVE Prov!TypeOK
  OBVIOUS
<1>1. ASSUME NEW r \in Run
      PROVE  process[r].pc = "sync" <=> process[r].next \in 1..Len(SyncDbs)
               /\ process[r].pc # "idle"
  <2>1. ProvRunOK(process[r]) /\ process[r].pc \in {"idle", "sync", "compare", "commit"}
    BY DEF IProvType, ProvRun
  <2> QED
    BY <2>1, ReposAreIndexed DEF ProvRunOK
<1> QED
  BY <1>1 DEF IProvType, Prov!TypeOK, ProvRun

LEMMA IdleIsARun == Prov!RepoAssumption => ProvRunOK(Prov!Idle)
<1> SUFFICES ASSUME Prov!RepoAssumption PROVE ProvRunOK(Prov!Idle)
  OBVIOUS
<1>1. 1 \in 1..Len(SyncDbs) + 1 /\ 1 \in 1..Len(SyncDbs)
  BY ReposAreIndexed
<1>2. Prov!Nowhere \in [Provider -> Prov!Row]
  BY DEF Prov!Nowhere, Prov!Row
<1> QED
  BY <1>1, <1>2 DEF ProvRunOK, ProvRun, Prov!Idle

-----------------------------------------------------------------------------
\* The run after each of its steps.
Began(S) == [Prov!Idle EXCEPT !.pc = "sync", !.kept = S]
Synced(q, f) == [q EXCEPT !.next = @ + 1,
                          !.pc = IF q.next = Len(SyncDbs) THEN "compare" ELSE "sync",
                          !.found = f]
Compared(q, t) == [q EXCEPT !.pc = "commit", !.old = t]
Disturbed(q, S) == [q EXCEPT !.quiet = FALSE, !.kept = S]

LEMMA BeganOK ==
  ASSUME Prov!RepoAssumption, NEW S \in SUBSET Provider
  PROVE  /\ ProvRunOK(Began(S)) /\ Began(S).pc = "sync" /\ Began(S).next = 1
         /\ Began(S).found = Prov!Nowhere
<1>1. ProvRunOK(Prov!Idle)
  BY IdleIsARun
<1> QED
  BY <1>1 DEF ProvRunOK, ProvRun, Began, Prov!Idle

LEMMA SyncedOK ==
  ASSUME Prov!RepoAssumption, NEW q, ProvRunOK(q), q.pc = "sync", NEW f \in [Provider -> Prov!Row]
  PROVE  /\ ProvRunOK(Synced(q, f)) /\ Synced(q, f).next = q.next + 1
         /\ Synced(q, f).found = f /\ Synced(q, f).pc \in {"sync", "compare"}
         /\ Synced(q, f).quiet = q.quiet
<1>1. /\ q \in ProvRun /\ q.next \in 1..Len(SyncDbs) /\ q.next + 1 \in 1..Len(SyncDbs) + 1
      /\ q.next # Len(SyncDbs) => q.next + 1 \in 1..Len(SyncDbs)
  BY ReposAreIndexed DEF ProvRunOK
<1>2. /\ Synced(q, f) \in ProvRun /\ Synced(q, f).next = q.next + 1
      /\ Synced(q, f).found = f /\ Synced(q, f).quiet = q.quiet
      /\ Synced(q, f).pc = IF q.next = Len(SyncDbs) THEN "compare" ELSE "sync"
  BY <1>1 DEF Synced, ProvRun
<1> QED
  BY <1>1, <1>2 DEF ProvRunOK

LEMMA ComparedOK ==
  ASSUME NEW q, ProvRunOK(q), q.pc = "compare", NEW t \in [Provider -> Prov!Row]
  PROVE  /\ ProvRunOK(Compared(q, t)) /\ Compared(q, t).pc = "commit"
         /\ Compared(q, t).next = q.next /\ Compared(q, t).found = q.found
         /\ Compared(q, t).old = t /\ Compared(q, t).quiet = q.quiet
  BY DEF ProvRunOK, ProvRun, Compared

LEMMA DisturbedOK ==
  ASSUME NEW q, ProvRunOK(q), NEW S \in SUBSET Provider
  PROVE  /\ ProvRunOK(Disturbed(q, S)) /\ ~Disturbed(q, S).quiet
         /\ Disturbed(q, S).pc = q.pc /\ Disturbed(q, S).old = q.old
  BY DEF ProvRunOK, ProvRun, Disturbed

\* What a run has found after one repository more.
FoundIn(q, repo) == [p \in Provider |-> IF repo \in mirror[p] THEN repo ELSE q.found[p]]

LEMMA FoundTyped ==
  ASSUME NEW q \in ProvRun, NEW repo \in Prov!Repo
  PROVE  FoundIn(q, repo) \in [Provider -> Prov!Row]
  BY DEF FoundIn, ProvRun, Prov!Row

ProvRunsTyped == process \in [Run -> ProvRun] /\ \A r \in Run : ProvRunOK(process[r])

LEMMA RunIs ==
  ASSUME ProvRunsTyped, NEW r \in Run, NEW q, ProvRunOK(q), process' = [process EXCEPT ![r] = q]
  PROVE  ProvRunsTyped' /\ process'[r] = q /\ \A s \in Run : s # r => process'[s] = process[s]
  BY DEF ProvRunsTyped, ProvRunOK

\* What each action makes of the run.
LEMMA ProvRunBecomes ==
  ASSUME Prov!RepoAssumption, IProvType, NEW r \in Run
  PROVE  /\ Prov!Start(r) => \E S \in SUBSET Provider : process' = [process EXCEPT ![r] = Began(S)]
         /\ Prov!Sync(r) => LET f == FoundIn(process[r], SyncDbs[process[r].next]) IN
                       f \in [Provider -> Prov!Row]
                         /\ process' = [process EXCEPT ![r] = Synced(process[r], f)]
         /\ Prov!Compare(r) => process' = [process EXCEPT ![r] = Compared(process[r], table)]
<1>1. process[r] \in ProvRun /\ process \in [Run -> ProvRun] /\ ProvRunOK(process[r])
  BY DEF IProvType
<1>2. Prov!Start(r) => \E S \in SUBSET Provider : process' = [process EXCEPT ![r] = Began(S)]
  BY DEF Prov!Start, Began
<1>3. ASSUME Prov!Sync(r)
      PROVE  LET f == FoundIn(process[r], SyncDbs[process[r].next]) IN
             f \in [Provider -> Prov!Row]
               /\ process' = [process EXCEPT ![r] = Synced(process[r], f)]
  <2> DEFINE repo == SyncDbs[process[r].next]
  <2>1. repo \in Prov!Repo
    BY <1>1, <1>3, ReposAreIndexed DEF Prov!Sync, ProvRunOK
  <2>2. FoundIn(process[r], repo) \in [Provider -> Prov!Row]
    BY <1>1, <2>1, FoundTyped
  <2>3. process' = [process EXCEPT ![r] = Synced(process[r], FoundIn(process[r], repo))]
    BY <1>1, <1>3 DEF Prov!Sync, Synced, FoundIn, ProvRun
  <2> QED
    BY <2>2, <2>3
<1>4. Prov!Compare(r) => process' = [process EXCEPT ![r] = Compared(process[r], table)]
  BY <1>1 DEF Prov!Compare, Compared, ProvRun
<1> QED
  BY <1>2, <1>3, <1>4

\* A change of the repositories disturbs all runs.
LEMMA ChangeDisturbs ==
  ASSUME IProvType, NEW p \in Provider, NEW repos \in SUBSET Prov!Repo, Prov!Change(p, repos),
         Prov!BoundAssumption
  PROVE  /\ mirror' \in [Provider -> SUBSET Prov!Repo] /\ changes' \in 0..MaxChange
         /\ UNCHANGED <<table, fails, forgotten>>
         /\ ProvRunsTyped' /\ \A r \in Run : /\ ~process'[r].quiet /\ process'[r].pc = process[r].pc
                                             /\ process'[r].old = process[r].old
<1>1. mirror' \in [Provider -> SUBSET Prov!Repo] /\ changes' \in 0..MaxChange
  <2>1. /\ mirror' = [mirror EXCEPT ![p] = repos] /\ mirror \in [Provider -> SUBSET Prov!Repo]
        /\ changes' = changes + 1 /\ changes < MaxChange /\ changes \in 0..MaxChange
    BY DEF Prov!Change, IProvType
  <2>2. changes' \in 0..MaxChange
    BY <2>1 DEF Prov!BoundAssumption
  <2> QED
    BY <2>1, <2>2
<1>2. \A r \in Run : \E S \in SUBSET Provider : process'[r] = Disturbed(process[r], S)
  <2> SUFFICES ASSUME NEW r \in Run
               PROVE  \E S \in SUBSET Provider : process'[r] = Disturbed(process[r], S)
    OBVIOUS
  <2> DEFINE S == IF repos = {} THEN process[r].kept \ {p} ELSE process[r].kept
  <2>1. process[r] \in ProvRun /\ S \in SUBSET Provider
    BY DEF IProvType, ProvRun
  <2>2. process'[r] = Disturbed(process[r], S)
    BY <2>1 DEF Prov!Change, Disturbed, ProvRun
  <2> QED
    BY <2>1, <2>2
<1>3. \A r \in Run : /\ ProvRunOK(process'[r]) /\ ~process'[r].quiet
        /\ process'[r].pc = process[r].pc
                     /\ process'[r].old = process[r].old
  BY <1>2, DisturbedOK DEF IProvType
<1>4. process' \in [Run -> ProvRun]
  <2>1. process' = [r \in Run |-> process'[r]]
    BY DEF Prov!Change
  <2> QED
    BY <1>3, <2>1 DEF ProvRunOK
<1> QED
  BY <1>1, <1>3, <1>4 DEF Prov!Change, ProvRunsTyped

LEMMA CommitTyped ==
  ASSUME Prov!RepoAssumption, IProvType, NEW r \in Run, Prov!Commit(r)
  PROVE  table' \in [Provider -> Prov!Row] /\ forgotten' \subseteq Provider
<1>1. process[r].found \in [Provider -> Prov!Row] /\ table \in [Provider -> Prov!Row]
  BY DEF IProvType, ProvRun
<1>2. \A p \in Provider : process[r].found[p] \in Prov!Row /\ table[p] \in Prov!Row
        /\ NoRepo \in Prov!Row
  BY <1>1 DEF Prov!Row
<1>3. table' \in [Provider -> Prov!Row]
  BY <1>2 DEF Prov!Commit
<1>4. forgotten' \subseteq Provider
  BY DEF Prov!Commit, Prov!Deleted, IProvType
<1> QED
  BY <1>3, <1>4

LEMMA IProvTypeStep == ProvConstants /\ IProvType /\ [Prov!Next]_(Prov!vars) => IProvType'
<1> SUFFICES ASSUME ProvConstants, IProvType, [Prov!Next]_(Prov!vars) PROVE IProvType'
  OBVIOUS
<1> Prov!RepoAssumption /\ Prov!BoundAssumption /\ ProvRunsTyped
  BY DEF ProvConstants, IProvType, ProvRunsTyped
<1>1. ASSUME ProvRunsTyped', UNCHANGED <<mirror, table, changes, fails, forgotten>>
      PROVE  IProvType'
  BY <1>1 DEF IProvType, ProvRunsTyped
<1>2. CASE UNCHANGED Prov!vars
  BY <1>1, <1>2 DEF Prov!vars, ProvRunsTyped
<1>3. ASSUME NEW p \in Provider, NEW repos \in SUBSET Prov!Repo, Prov!Change(p, repos)
      PROVE  IProvType'
  BY <1>3, ChangeDisturbs DEF IProvType, ProvRunsTyped
<1>4. ASSUME NEW p \in Provider, NEW repo \in Prov!Repo, Prov!Add(p, repo) \/ Prov!Remove(p, repo)
      PROVE  IProvType'
  <2>1. mirror[p] \cup {repo} \in SUBSET Prov!Repo /\ mirror[p] \ {repo} \in SUBSET Prov!Repo
    BY DEF IProvType
  <2> QED
    BY <1>3, <1>4, <2>1 DEF Prov!Add, Prov!Remove
<1>5. ASSUME NEW r \in Run, Prov!Start(r) PROVE IProvType'
  BY <1>1, <1>5, ProvRunBecomes, BeganOK, RunIs DEF Prov!Start
<1>6. ASSUME NEW r \in Run, Prov!Sync(r) PROVE IProvType'
  <2>1. ProvRunOK(process[r]) /\ process[r].pc = "sync"
    BY <1>6 DEF Prov!Sync, ProvRunsTyped
  <2>2. PICK f \in [Provider -> Prov!Row] : process' = [process EXCEPT ![r] = Synced(process[r], f)]
    BY <1>6, ProvRunBecomes
  <2>3. ProvRunOK(Synced(process[r], f))
    BY <2>1, SyncedOK
  <2>4. ProvRunsTyped'
    BY <2>2, <2>3, RunIs
  <2> QED
    BY <1>1, <1>6, <2>4 DEF Prov!Sync
<1>7. ASSUME NEW r \in Run, Prov!Compare(r) PROVE IProvType'
  <2>1. ProvRunOK(process[r]) /\ process[r].pc = "compare" /\ table \in [Provider -> Prov!Row]
    BY <1>7 DEF Prov!Compare, IProvType
  <2>2. ProvRunOK(Compared(process[r], table))
          /\ process' = [process EXCEPT ![r] = Compared(process[r], table)]
    BY <1>7, <2>1, ProvRunBecomes, ComparedOK
  <2>3. ProvRunsTyped'
    BY <2>2, RunIs
  <2> QED
    BY <1>1, <1>7, <2>3 DEF Prov!Compare
<1>8. ASSUME NEW r \in Run, Prov!SyncFail(r) PROVE IProvType'
  <2>1. ProvRunsTyped' /\ UNCHANGED <<mirror, table, changes, forgotten>>
    BY <1>8, IdleIsARun, RunIs DEF Prov!SyncFail
  <2>2. fails' \in 0..MaxFail
    BY <1>8 DEF Prov!SyncFail, IProvType, Prov!BoundAssumption
  <2> QED
    BY <2>1, <2>2 DEF IProvType, ProvRunsTyped
<1>9. ASSUME NEW r \in Run, Prov!Commit(r) PROVE IProvType'
  <2>1. ProvRunsTyped' /\ UNCHANGED <<mirror, changes, fails>>
    BY <1>9, IdleIsARun, RunIs DEF Prov!Commit
  <2> QED
    BY <1>9, <2>1, CommitTyped DEF IProvType, ProvRunsTyped
<1>10. ASSUME NEW r \in Run, Prov!CommitFail(r) PROVE IProvType'
  BY <1>1, <1>10, IdleIsARun, RunIs DEF Prov!CommitFail
<1> QED
  BY <1>2, <1>4, <1>5, <1>6, <1>7, <1>8, <1>9, <1>10 DEF Prov!Next, Prov!Step

LEMMA IProvTypeStarts == ProvConstants /\ Prov!Init => IProvType
<1> SUFFICES ASSUME ProvConstants, Prov!Init PROVE IProvType
  OBVIOUS
<1>1. Prov!RepoAssumption /\ 0 \in 0..MaxChange /\ 0 \in 0..MaxFail
  BY DEF ProvConstants, Prov!BoundAssumption
<1>2. Prov!Nowhere \in [Provider -> Prov!Row]
  BY DEF Prov!Nowhere, Prov!Row
<1>3. process \in [Run -> ProvRun] /\ \A r \in Run : ProvRunOK(process[r])
  BY <1>1, IdleIsARun DEF Prov!Init, ProvRunOK
<1> QED
  BY <1>1, <1>2, <1>3 DEF Prov!Init, IProvType

\* The types of aurblup, for any number of runs at once: a run that reads is at
\* one of the repositories, and one that compares or commits is past them.
THEOREM ProviderTypes == ProvConstants => (Prov!Spec => []Prov!TypeOK)
<1> SUFFICES ASSUME ProvConstants PROVE Prov!Spec => []Prov!TypeOK
  OBVIOUS
<1>1. Prov!Init => IProvType
  BY IProvTypeStarts
<1>2. IProvType /\ [Prov!Next]_(Prov!vars) => IProvType'
  BY IProvTypeStep
<1>3. IProvType => Prov!TypeOK
  BY ProvTypeGiven DEF ProvConstants
<1> QED
  BY <1>1, <1>2, <1>3, PTL DEF Prov!Spec

-----------------------------------------------------------------------------
\* x is the last of the first k repositories that is in S, or none is.
LastOf(x, S, k) ==
    \/ x = NoRepo /\ \A i \in 1..k : SyncDbs[i] \notin S
    \/ \E i \in 1..k : /\ x = SyncDbs[i] /\ x \in S
                       /\ \A j \in i + 1..k : SyncDbs[j] \notin S

\* An undisturbed run has found the last of what it has read; what it compares
\* with is the table, which nobody else writes.
IRight ==
    \A r \in Run :
      /\ process[r].pc # "idle" /\ process[r].quiet
           => \A p \in Provider : LastOf(process[r].found[p], mirror[p], process[r].next - 1)
      /\ process[r].pc = "commit" => process[r].old = table

LEMMA OneMore ==
  ASSUME Prov!RepoAssumption, NEW k \in 1..Len(SyncDbs), NEW x, NEW S, LastOf(x, S, k - 1)
  PROVE  LastOf(IF SyncDbs[k] \in S THEN SyncDbs[k] ELSE x, S, k)
<1>1. k \in Nat /\ Len(SyncDbs) \in Nat
  BY ReposAreIndexed
<1>2. CASE SyncDbs[k] \in S
  <2>1. k \in 1..k /\ k + 1..k = {}
    BY <1>1
  <2> QED
    BY <1>2, <2>1 DEF LastOf
<1>3. CASE SyncDbs[k] \notin S
  <2>1. ASSUME x = NoRepo, \A i \in 1..k - 1 : SyncDbs[i] \notin S
        PROVE  LastOf(x, S, k)
    <3>1. \A i \in 1..k : i = k \/ i \in 1..k - 1
      BY <1>1
    <3> QED
      BY <1>3, <2>1, <3>1 DEF LastOf
  <2>2. ASSUME NEW i \in 1..k - 1, x = SyncDbs[i], x \in S,
               \A j \in i + 1..k - 1 : SyncDbs[j] \notin S
        PROVE  LastOf(x, S, k)
    <3>1. i \in 1..k /\ \A j \in i + 1..k : j = k \/ j \in i + 1..k - 1
      BY <1>1
    <3>2. \A j \in i + 1..k : SyncDbs[j] \notin S
      BY <1>3, <2>2, <3>1
    <3> QED
      BY <2>2, <3>1, <3>2 DEF LastOf
  <2>3. \/ x = NoRepo /\ \A i \in 1..k - 1 : SyncDbs[i] \notin S
        \/ \E i \in 1..k - 1 : /\ x = SyncDbs[i] /\ x \in S
                               /\ \A j \in i + 1..k - 1 : SyncDbs[j] \notin S
    BY DEF LastOf
  <2>4. LastOf(x, S, k)
    BY <2>1, <2>2, <2>3
  <2> QED
    BY <1>3, <2>4
<1> QED
  BY <1>2, <1>3

\* What is last of all repositories is the Last of the properties.
LEMMA LastOfAll ==
  ASSUME Prov!RepoAssumption, IProvType, NEW p \in Provider, NEW x,
         LastOf(x, mirror[p], Len(SyncDbs))
  PROVE  x = Prov!Last(p)
<1> DEFINE n == Len(SyncDbs)
           S == mirror[p]
           Is(i) == SyncDbs[i] \in S /\ \A j \in i + 1..n : SyncDbs[j] \notin S
<1>1. n \in Nat /\ S \subseteq Prov!Repo
  BY ReposAreIndexed DEF IProvType
<1>2. CASE x = NoRepo /\ \A i \in 1..n : SyncDbs[i] \notin S
  <2>1. S = {}
    BY <1>1, <1>2, ReposAreIndexed
  <2> QED
    BY <1>2, <2>1 DEF Prov!Last
<1>3. ASSUME NEW i \in 1..n, x = SyncDbs[i], x \in S, \A j \in i + 1..n : SyncDbs[j] \notin S
      PROVE  x = Prov!Last(p)
  <2>1. \A k \in 1..n : Is(k) => k = i
    <3> SUFFICES ASSUME NEW k \in 1..n, Is(k), k # i PROVE FALSE
      OBVIOUS
    <3>1. k \in i + 1..n \/ i \in k + 1..n
      BY <1>1
    <3> QED
      BY <1>3, <3>1
  <2>2. Is(i) /\ S # {}
    BY <1>3
  <2> HIDE DEF Is
  <2>3. (CHOOSE k \in 1..n : Is(k)) = i
    BY <2>1, <2>2
  <2> QED
    BY <1>3, <2>2, <2>3 DEF Prov!Last, Is
<1> QED
  BY <1>2, <1>3 DEF LastOf

\* The commit of an undisturbed run: nothing conflicts, and what it found is
\* what the table becomes.
LEMMA CommitsWhatItFound ==
  ASSUME IProvType, NEW r \in Run, process[r].old = table
  PROVE  ~Prov!CommitFail(r) /\ (Prov!Commit(r)
           => \A p \in Provider : table'[p] = process[r].found[p])
<1>1. ~Prov!Conflicts(r)
  BY DEF Prov!Conflicts, Prov!Created, Prov!Moved
<1>2. ASSUME Prov!Commit(r), NEW p \in Provider PROVE table'[p] = process[r].found[p]
  <2>1. table'[p] = IF p \in Prov!Deleted(r) THEN NoRepo
                    ELSE IF p \in Prov!Created(r) \cup Prov!Moved(r) THEN process[r].found[p]
                    ELSE table[p]
    BY <1>2 DEF Prov!Commit
  <2>2. CASE p \in Prov!Deleted(r)
    BY <2>1, <2>2 DEF Prov!Deleted
  <2>3. CASE p \notin Prov!Deleted(r) /\ p \in Prov!Created(r) \cup Prov!Moved(r)
    BY <2>1, <2>3
  <2>4. CASE p \notin Prov!Deleted(r) /\ p \notin Prov!Created(r) \cup Prov!Moved(r)
    <3>1. table'[p] = table[p]
      BY <2>1, <2>4
    <3>2. table[p] = process[r].found[p]
      BY <2>4 DEF Prov!Deleted, Prov!Created, Prov!Moved
    <3> QED
      BY <3>1, <3>2
  <2> QED
    BY <2>2, <2>3, <2>4
<1> QED
  BY <1>1, <1>2 DEF Prov!CommitFail

\* The step that ends a run at its commit.
LEMMA EndsRight ==
  Prov!RepoAssumption /\ IProvType /\ IRight /\ [Prov!Next]_(Prov!vars) => Prov!StepIsRight
<1> SUFFICES ASSUME Prov!RepoAssumption, IProvType, IRight, [Prov!Next]_(Prov!vars),
                    NEW r \in Run, process[r].pc = "commit", process'[r].pc = "idle",
                    process[r].quiet
             PROVE  Prov!Right'
  BY DEF Prov!StepIsRight
<1>1. ProvRunOK(process[r]) /\ process[r].old = table /\ ProvRunsTyped
  BY DEF IProvType, IRight, ProvRunsTyped
<1>2. \A p \in Provider : LastOf(process[r].found[p], mirror[p], Len(SyncDbs))
  <2>1. process[r].next - 1 = Len(SyncDbs)
    BY <1>1, ReposAreIndexed DEF ProvRunOK
  <2> QED
    BY <2>1 DEF IRight
<1>3. \A p \in Provider : process[r].found[p] = Prov!Last(p)
  BY <1>2, LastOfAll
<1>4. Prov!Commit(r)
  <2>1. process' # process
    OBVIOUS
  <2>2. \A p \in Provider, repo \in Prov!Repo : ~Prov!Add(p, repo) /\ ~Prov!Remove(p, repo)
    <3> SUFFICES ASSUME NEW p \in Provider, NEW repos, Prov!Change(p, repos) PROVE FALSE
      BY DEF Prov!Add, Prov!Remove
    <3>1. process'[r].pc = process[r].pc
      BY <1>1 DEF Prov!Change, ProvRunOK, ProvRun
    <3> QED
      BY <3>1
  <2>3. \A s \in Run : s # r => ~(Prov!Step(s) \/ Prov!SyncFail(s))
    BY DEF Prov!Step, Prov!SyncFail, Prov!Start, Prov!Sync, Prov!Compare, Prov!Commit,
           Prov!CommitFail, IProvType
  <2>4. ~Prov!Start(r) /\ ~Prov!Sync(r) /\ ~Prov!Compare(r) /\ ~Prov!SyncFail(r)
    <3>1. ~Prov!Compare(r)
      BY DEF Prov!Compare
    <3> QED
      BY <3>1 DEF Prov!Start, Prov!Sync, Prov!SyncFail
  <2>5. ~Prov!CommitFail(r)
    BY <1>1, CommitsWhatItFound
  <2> QED
    BY <2>1, <2>2, <2>3, <2>4, <2>5 DEF Prov!Next, Prov!Step, Prov!vars
<1>5. mirror' = mirror /\ \A p \in Provider : table'[p] = process[r].found[p]
  BY <1>1, <1>4, CommitsWhatItFound DEF Prov!Commit
<1> QED
  BY <1>3, <1>5 DEF Prov!Right, Prov!Last

LEMMA IRightStep == ProvConstants /\ OneRun /\ IProvType /\ IRight /\ [Prov!Next]_(Prov!vars)
                      => IRight'
<1> SUFFICES ASSUME ProvConstants, OneRun, IProvType, IRight, [Prov!Next]_(Prov!vars) PROVE IRight'
  OBVIOUS
<1> Prov!RepoAssumption /\ Prov!BoundAssumption /\ ProvRunsTyped
  BY DEF ProvConstants, IProvType, ProvRunsTyped
<1>1. CASE UNCHANGED Prov!vars
  BY <1>1 DEF Prov!vars, IRight
<1>2. ASSUME NEW p \in Provider, NEW repos \in SUBSET Prov!Repo, Prov!Change(p, repos) PROVE IRight'
  <2>1. /\ table' = table
        /\ \A r \in Run : ~process'[r].quiet /\ process'[r].pc = process[r].pc
             /\ process'[r].old = process[r].old
    BY <1>2, ChangeDisturbs
  <2> QED
    BY <2>1 DEF IRight
<1>3. ASSUME NEW p \in Provider, NEW repo \in Prov!Repo, Prov!Add(p, repo) \/ Prov!Remove(p, repo)
      PROVE  IRight'
  <2>1. mirror[p] \cup {repo} \in SUBSET Prov!Repo /\ mirror[p] \ {repo} \in SUBSET Prov!Repo
    BY DEF IProvType
  <2> QED
    BY <1>2, <1>3, <2>1 DEF Prov!Add, Prov!Remove
<1>4. ASSUME NEW r \in Run, Prov!SyncFail(r) \/ Prov!Commit(r) \/ Prov!CommitFail(r) PROVE IRight'
  <2>1. process'[r] = Prov!Idle /\ \A s \in Run : s = r
    BY <1>4 DEF Prov!SyncFail, Prov!Commit, Prov!CommitFail, IProvType, OneRun
  <2> QED
    BY <2>1 DEF IRight, Prov!Idle
<1>5. ASSUME NEW r \in Run, NEW q, ProvRunOK(q), process' = [process EXCEPT ![r] = q],
             UNCHANGED <<mirror, table>>, q.pc = "commit" => q.old = table,
             q.quiet => \A p \in Provider : LastOf(q.found[p], mirror[p], q.next - 1)
      PROVE  IRight'
  <2>1. process'[r] = q /\ \A s \in Run : s = r
    BY <1>5, RunIs DEF OneRun
  <2> QED
    BY <1>5, <2>1 DEF IRight
<1>6. ASSUME NEW r \in Run, Prov!Start(r) PROVE IRight'
  <2>1. PICK S \in SUBSET Provider : process' = [process EXCEPT ![r] = Began(S)]
    BY <1>6, ProvRunBecomes
  <2>2. \A p \in Provider : LastOf(Began(S).found[p], mirror[p], Began(S).next - 1)
    <3>1. Began(S).found = Prov!Nowhere /\ Began(S).next - 1 = 0
      BY BeganOK
    <3>2. 1..0 = {}
      OBVIOUS
    <3> QED
      BY <3>1, <3>2 DEF LastOf, Prov!Nowhere
  <2>3. ProvRunOK(Began(S)) /\ Began(S).pc = "sync"
    BY BeganOK
  <2>4. UNCHANGED <<mirror, table>>
    BY <1>6 DEF Prov!Start
  <2> QED
    BY <1>5, <2>1, <2>2, <2>3, <2>4
<1>7. ASSUME NEW r \in Run, Prov!Sync(r) PROVE IRight'
  <2> DEFINE k == process[r].next
             f == FoundIn(process[r], SyncDbs[k])
             q == Synced(process[r], f)
  <2>1. /\ ProvRunOK(process[r]) /\ process[r].pc = "sync" /\ k \in 1..Len(SyncDbs)
        /\ UNCHANGED <<mirror, table>>
    BY <1>7 DEF Prov!Sync, ProvRunsTyped, ProvRunOK
  <2>2. f \in [Provider -> Prov!Row] /\ process' = [process EXCEPT ![r] = q]
    BY <1>7, ProvRunBecomes
  <2>3. /\ ProvRunOK(q) /\ q.next = k + 1 /\ q.found = f /\ q.pc # "commit"
        /\ q.quiet = process[r].quiet
    BY <2>1, <2>2, SyncedOK
  <2>4. q.next - 1 = k
    BY <2>1, <2>3, ReposAreIndexed
  <2>5. ASSUME process[r].quiet, NEW p \in Provider PROVE LastOf(f[p], mirror[p], k)
    <3>1. LastOf(process[r].found[p], mirror[p], k - 1)
      BY <2>1, <2>5 DEF IRight
    <3>2. f[p] = IF SyncDbs[k] \in mirror[p] THEN SyncDbs[k] ELSE process[r].found[p]
      BY DEF FoundIn
    <3> QED
      BY <2>1, <3>1, <3>2, OneMore
  <2> HIDE DEF q, f
  <2> QED
    BY <1>5, <2>1, <2>2, <2>3, <2>4, <2>5
<1>8. ASSUME NEW r \in Run, Prov!Compare(r) PROVE IRight'
  <2> DEFINE q == Compared(process[r], table)
  <2>1. /\ ProvRunOK(process[r]) /\ process[r].pc = "compare" /\ table \in [Provider -> Prov!Row]
        /\ UNCHANGED <<mirror, table>>
    BY <1>8 DEF Prov!Compare, IProvType
  <2>2. process' = [process EXCEPT ![r] = q]
    BY <1>8, ProvRunBecomes
  <2>3. /\ ProvRunOK(q) /\ q.pc = "commit" /\ q.next = process[r].next /\ q.found = process[r].found
        /\ q.old = table /\ q.quiet = process[r].quiet
    BY <2>1, ComparedOK
  <2>4. process[r].quiet => \A p \in Provider :
          LastOf(process[r].found[p], mirror[p], process[r].next - 1)
    BY <2>1 DEF IRight
  <2> HIDE DEF q
  <2> QED
    BY <1>5, <2>1, <2>2, <2>3, <2>4
<1> QED
  BY <1>1, <1>3, <1>4, <1>6, <1>7, <1>8 DEF Prov!Next, Prov!Step

LEMMA IRightStarts == Prov!Init => IRight
<1> SUFFICES ASSUME Prov!Init PROVE IRight
  OBVIOUS
<1>1. \A r \in Run : process[r] = Prov!Idle
  BY DEF Prov!Init
<1>2. Prov!Idle.pc = "idle"
  BY DEF Prov!Idle
<1> QED
  BY <1>1, <1>2 DEF IRight

\* While one run of aurblup works at a time, one during which the repositories
\* do not change leaves every provider in the table at the last repository
\* that has it, and those that no repository has out of it, whatever the table
\* was before (_main).
THEOREM QuietRunIsRight == ProvConstants /\ OneRun => (Prov!Spec
                             => [][Prov!StepIsRight]_(Prov!vars))
<1> SUFFICES ASSUME ProvConstants, OneRun PROVE Prov!Spec => [][Prov!StepIsRight]_(Prov!vars)
  OBVIOUS
<1>1. Prov!Init => IProvType /\ IRight
  BY IProvTypeStarts, IRightStarts
<1>2. IProvType /\ IRight /\ [Prov!Next]_(Prov!vars) => (IProvType /\ IRight)'
  BY IProvTypeStep, IRightStep
<1>3. IProvType /\ IRight /\ [Prov!Next]_(Prov!vars) => [Prov!StepIsRight]_(Prov!vars)
  BY EndsRight DEF ProvConstants
<1> QED
  BY <1>1, <1>2, <1>3, PTL DEF Prov!Spec
=============================================================================

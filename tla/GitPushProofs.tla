---------------------------- MODULE GitPushProofs ----------------------------
(***************************************************************************)
(* Proofs about GitPush: its variables keep their types, the hook has      *)
(* checked every commit that a ref leads to, master only moves forwards,   *)
(* and only a session that has lost its base writes without access; where  *)
(* sessions follow each other, a push is written completely and, if no web *)
(* worker changes the owner, by someone who may write to the base.         *)
(***************************************************************************)
EXTENDS GitPush, FiniteSetTheorems, TLAPS

BaseRow == [id : 0..MaxId, maintainer : User \cup {NoUser},
            comaintainers : SUBSET User, packager : User \cup {NoUser},
            flagged : BOOLEAN, notify : SUBSET User]
PackageRow == [base : 0..MaxId, info : Info \cup {NoInfo}]
JobRow == [pc : {"idle", "hook", "create", "save", "rest", "refs", "git"},
           user : User \cup {NoUser}, overwrite : BOOLEAN, restore : BOOLEAN,
           base : Base, old : Commit \cup {NoCommit}, new : Commit \cup {NoCommit},
           id : 0..MaxId, orphan : BOOLEAN, todo : SUBSET Package]

\* An ID is given out once: what nextId has not reached is free.
BasesType ==
    /\ base \in [Base -> BaseRow]
    /\ nextId \in 1..MaxId + 1
    /\ \A b \in Base : base[b].id < nextId
    /\ \A b \in Base : ~ Exists(b) => base[b] = Absent
    /\ \A a, b \in Base : Exists(a) /\ base[a].id = base[b].id => a = b
PackagesType ==
    /\ package \in [Package -> PackageRow]
    /\ \A n \in Package : package[n].base \in {base[b].id : b \in Base} \cup {0}
RefsType ==
    /\ master \in [Base -> Commit \cup {NoCommit}]
    /\ branch \in [Base -> Commit \cup {NoCommit}]
\* A session belongs to a user, one that writes has a commit with a .SRCINFO,
\* and one that has written packages knows their base.
SessionType(j) ==
    /\ j \in JobRow
    /\ j.pc # "idle" => j.user \in User
    /\ j.pc \notin {"idle", "hook"} => j.new \in Commit /\ SrcInfo[j.new] \in Info
    /\ j.pc = "rest" => j.id # 0
JobsType ==
    /\ job \in [Session -> JobRow]
    /\ \A s \in Session : SessionType(job[s])

IType == BasesType /\ PackagesType /\ RefsType /\ JobsType

LEMMA ITypeGivesType == IType /\ overtaken \subseteq Session => TypeOK
BY DEF IType, TypeOK, BasesType, PackagesType, RefsType, JobsType,
       BaseRow, PackageRow, JobRow

\* The job of a session that does nothing.
LEMMA IdleJobType == SessionType(IdleJob) /\ IdleJob.pc = "idle"
<1>1. (CHOOSE b \in Base : TRUE) \in Base
  BY CommitsAssumption
<1>2. 0 \in 0..MaxId
  BY CommitsAssumption
<1> QED BY <1>1, <1>2 DEF IdleJob, SessionType, JobRow

\* A step that changes the job of one session.
LEMMA JobUpdate ==
  ASSUME JobsType, NEW s \in Session, NEW j, SessionType(j),
         job' = [job EXCEPT ![s] = j]
  PROVE  JobsType'
BY DEF JobsType, SessionType

LEMMA EndType ==
  ASSUME JobsType, NEW s \in Session, End(s)
  PROVE  JobsType'
BY IdleJobType, JobUpdate DEF End

LEMMA AbsentType == Absent \in BaseRow /\ Absent.id = 0
BY CommitsAssumption DEF Absent, BaseRow

LEMMA FreeType == Free \in PackageRow /\ Free.base = 0
BY CommitsAssumption DEF Free, PackageRow

LEMMA InfoType == \A c \in Commit : SrcInfo[c] \in Info \cup {NoInfo}
BY DEF Info

\* Rows of bases may change while their IDs stay.
LEMMA RowUpdate ==
  ASSUME BasesType, NEW b \in Base, Exists(b), NEW row \in BaseRow, row.id = base[b].id,
         base' = [base EXCEPT ![b] = row], nextId' = nextId
  PROVE  BasesType' /\ \A a \in Base : base'[a].id = base[a].id
<1>1. \A a \in Base : base'[a] = IF a = b THEN row ELSE base[a]
  BY DEF BasesType
<1>2. \A a \in Base : base'[a].id = base[a].id
  BY <1>1
<1>3. base' \in [Base -> BaseRow]
  BY DEF BasesType
<1> QED BY <1>1, <1>2, <1>3 DEF BasesType, Exists

\* Packages whose base is none of the IDs there were would be lost.
LEMMA PackagesKept ==
  ASSUME PackagesType, package' = package, \A a \in Base : base'[a].id = base[a].id
  PROVE  PackagesType'
BY DEF PackagesType

LEMMA InitType == Init => IType
<1> SUFFICES ASSUME Init PROVE IType
  OBVIOUS
<1>0. Cardinality(Base) \in Nat
  BY CommitsAssumption, FS_CardinalityType
<1>1. PICK id \in [Base -> 1..nextId - 1] :
         /\ \A a, b \in Base : id[a] = id[b] => a = b
         /\ master \in [Base -> {NoCommit} \cup
                {c \in Commit : SrcInfo[c] # NoInfo /\ \A d \in History[c] : Flaws[d] = {}}]
         /\ base \in [Base -> {Absent} \cup
                [id : 1..nextId - 1, maintainer : User \cup {NoUser},
                 comaintainers : SUBSET User, packager : User, flagged : BOOLEAN,
                 notify : SUBSET User]]
         /\ \A b \in Base :
              IF master[b] = NoCommit THEN base[b] = Absent
              ELSE base[b].id = id[b] /\ (base[b].maintainer = NoUser => base[b].comaintainers = {})
  BY DEF Init
<1>2. nextId = Cardinality(Base) + 1 /\ nextId \in 1..MaxId + 1
  BY <1>0, CommitsAssumption DEF Init
<1>3. RefsType
  BY <1>1 DEF Init, RefsType
<1>4. base \in [Base -> BaseRow]
  <2>1. [id : 1..nextId - 1, maintainer : User \cup {NoUser},
         comaintainers : SUBSET User, packager : User, flagged : BOOLEAN,
         notify : SUBSET User] \subseteq BaseRow
    <3>1. 1..nextId - 1 \subseteq 0..MaxId
      BY <1>2, CommitsAssumption
    <3> QED BY <3>1 DEF BaseRow
  <2> QED BY <1>1, <2>1, AbsentType
<1>5. \A b \in Base : base[b] = Absent \/ (base[b].id = id[b] /\ id[b] \in 1..nextId - 1)
  BY <1>1
<1>6. \A b \in Base : base[b].id \in 0..nextId - 1
  BY <1>5, <1>2, AbsentType, CommitsAssumption
<1>7. BasesType
  <2>1. \A b \in Base : base[b].id < nextId
    BY <1>6, <1>2, CommitsAssumption
  <2>2. \A b \in Base : ~ Exists(b) => base[b] = Absent
    BY <1>5 DEF Exists
  <2>3. \A a, b \in Base : Exists(a) /\ base[a].id = base[b].id => a = b
    BY <1>1, <1>5, AbsentType DEF Exists
  <2> QED BY <1>2, <1>4, <2>1, <2>2, <2>3 DEF BasesType
<1>8. PackagesType
  <2> DEFINE Has(n, b) == Exists(b) /\ n \in PackagesIn[SrcInfo[master[b]]]
  <2> DEFINE Of(n) == IF \E b \in Base : Has(n, b)
                      THEN LET b == CHOOSE b \in Base : Has(n, b)
                           IN  [base |-> base[b].id, info |-> SrcInfo[master[b]]]
                      ELSE Free
  <2>1. package = [n \in Package |-> Of(n)]
    BY DEF Init
  <2>2. ASSUME NEW n \in Package
        PROVE  Of(n) \in PackageRow /\ Of(n).base \in {base[b].id : b \in Base} \cup {0}
    <3>1. CASE ~ \E b \in Base : Has(n, b)
      BY <3>1, FreeType
    <3>2. CASE \E b \in Base : Has(n, b)
      <4>1. PICK b \in Base : Exists(b) /\ Of(n) = [base |-> base[b].id, info |-> SrcInfo[master[b]]]
        BY <3>2
      <4>2. master[b] \in Commit
        BY <4>1, <1>1, AbsentType DEF Exists
      <4>3. SrcInfo[master[b]] \in Info \cup {NoInfo}
        BY <4>2, InfoType
      <4>4. base[b].id \in 0..MaxId
        BY <1>4 DEF BaseRow
      <4> HIDE DEF Of
      <4> QED BY <4>1, <4>3, <4>4 DEF PackageRow
    <3> QED BY <3>1, <3>2
  <2> HIDE DEF Of
  <2> QED BY <2>1, <2>2 DEF PackagesType
<1>9. JobsType
  BY IdleJobType DEF Init, JobsType, SessionType
<1> QED BY <1>3, <1>7, <1>8, <1>9 DEF IType

-----------------------------------------------------------------------------
(* Every step keeps the types. *)

LEMMA BasesKept ==
  ASSUME BasesType, base' = base, nextId' = nextId
  PROVE  BasesType'
BY DEF BasesType, Exists

LEMMA OnlyJobs ==
  ASSUME IType, UNCHANGED <<base, package, nextId, refs>>, JobsType'
  PROVE  IType'
<1>1. base' = base /\ package' = package /\ nextId' = nextId /\ master' = master /\ branch' = branch
  BY DEF refs
<1> QED BY <1>1, BasesKept, PackagesKept DEF IType, RefsType

LEMMA ServeType ==
  ASSUME IType, NEW s \in Session, ServePush(s) \/ ServeRestore(s)
  PROVE  IType'
<1>0. JobsType /\ RefsType
  BY DEF IType
<1>1. CASE ServePush(s)
  <2>1. PICK u \in User, b \in Base, c \in Commit, overwrite \in BOOLEAN :
          /\ At(s, "idle") /\ CanConnect(u)
          /\ Exists(b) => MayWrite(u, b)
          /\ c # master[b]
          /\ job' = [job EXCEPT ![s] =
               [IdleJob EXCEPT !.pc = "hook", !.user = u, !.base = b, !.overwrite = overwrite,
                               !.old = master[b], !.new = c]]
          /\ UNCHANGED <<base, package, nextId, refs>>
    BY <1>1, Zenon DEF ServePush
  <2> DEFINE j == [IdleJob EXCEPT !.pc = "hook", !.user = u, !.base = b,
                                  !.overwrite = overwrite, !.old = master[b], !.new = c]
  <2>2. SessionType(j)
    BY <1>0, IdleJobType DEF SessionType, JobRow, RefsType
  <2>3. JobsType'
    BY <1>0, <2>1, <2>2, JobUpdate
  <2> QED BY <1>1, <2>3, OnlyJobs DEF ServePush
<1>2. CASE ServeRestore(s)
  <2>1. PICK u \in User, b \in Base :
          job' = [job EXCEPT ![s] =
            [IdleJob EXCEPT !.pc = "hook", !.user = u, !.base = b, !.restore = TRUE]]
    BY <1>2 DEF ServeRestore
  <2> DEFINE j == [IdleJob EXCEPT !.pc = "hook", !.user = u, !.base = b, !.restore = TRUE]
  <2>2. SessionType(j)
    BY IdleJobType DEF SessionType, JobRow
  <2>3. JobsType'
    BY <1>0, <2>1, <2>2, JobUpdate
  <2> QED BY <1>2, <2>3, OnlyJobs DEF ServeRestore
<1> QED BY <1>1, <1>2

\* Steps that only end a session.
LEMMA EndingType ==
  ASSUME IType, NEW s \in Session,
         Refuse(s) \/ NameIsTaken(s) \/ SaveFails(s) \/ Crash(s)
  PROVE  IType'
<1>1. End(s) /\ UNCHANGED <<base, package, nextId, refs>>
  BY DEF Refuse, NameIsTaken, SaveFails, Crash
<1>2. JobsType'
  BY <1>1, EndType DEF IType
<1> QED BY <1>1, <1>2, OnlyJobs

\* What both sides of a push are.
LEMMA SidesType ==
  ASSUME IType, NEW s \in Session
  PROVE  /\ OldCommit(s) \in Commit \cup {NoCommit}
         /\ NewCommit(s) \in Commit \cup {NoCommit}
BY DEF IType, JobsType, RefsType, JobRow, OldCommit, NewCommit

LEMMA CheckType ==
  ASSUME IType, NEW s \in Session, Check(s)
  PROVE  IType'
<1> USE DEF IType
<1> DEFINE b == job[s].base
<1> DEFINE j == [job[s] EXCEPT !.pc = IF Exists(b) THEN "save" ELSE "create",
                               !.new = NewCommit(s), !.old = OldCommit(s),
                               !.id = base[b].id,
                               !.orphan = Exists(b) /\ base[b].maintainer = NoUser]
<1>1. job' = [job EXCEPT ![s] = j] /\ UNCHANGED <<base, package, nextId, refs>>
  BY DEF Check, JobsType
<1>2. NewCommit(s) \in Commit /\ SrcInfo[NewCommit(s)] \in Info
  <2>1. NewCommit(s) \in Commit
    BY SidesType DEF Check, Accepted
  <2>2. SrcInfo[NewCommit(s)] # NoInfo
    BY DEF Check, Accepted, CommitsAreFine, InfoIsFine, LegacyInfoIsFine
  <2> QED BY <2>1, <2>2, InfoType
<1>3. j \in JobRow /\ j.new = NewCommit(s) /\ j.user = job[s].user
  <2>1. job[s] \in JobRow /\ base[b] \in BaseRow
    BY DEF JobsType, BasesType, JobRow
  <2>2. OldCommit(s) \in Commit \cup {NoCommit}
    BY SidesType
  <2>3. base[b].id \in 0..MaxId
    BY <2>1 DEF BaseRow
  <2> HIDE DEF b
  <2> QED BY <1>2, <2>1, <2>2, <2>3 DEF JobRow
<1>4. job[s].user \in User
  BY DEF Check, At, JobsType, SessionType
<1>5. SessionType(j)
  BY <1>2, <1>3, <1>4 DEF SessionType
<1>6. JobsType'
  BY <1>1, <1>5, JobUpdate
<1> QED BY <1>1, <1>6, OnlyJobs

\* A step that moves a session on.
LEMMA GotoType ==
  ASSUME JobsType, NEW s \in Session, NEW pc \in {"save", "rest", "refs", "git"},
         job[s].pc \notin {"idle", "hook"}, pc = "rest" => job[s].id # 0, Goto(s, pc)
  PROVE  JobsType'
<1> DEFINE j == [job[s] EXCEPT !.pc = pc]
<1>1. job' = [job EXCEPT ![s] = j]
  BY DEF Goto, JobsType
<1>2. SessionType(j)
  BY DEF JobsType, SessionType, JobRow
<1> QED BY <1>1, <1>2, JobUpdate

LEMMA CreateType ==
  ASSUME IType, NEW s \in Session, Create(s)
  PROVE  IType'
<1> USE DEF IType
<1>1. PICK b \in Base, u \in User : b = job[s].base /\ u = job[s].user
  BY DEF Create, At, JobsType, SessionType, JobRow
<1> DEFINE row == [Absent EXCEPT !.id = nextId, !.maintainer = u, !.notify = {u}]
<1>2. /\ base' = [base EXCEPT ![b] = row] /\ nextId' = nextId + 1 /\ nextId <= MaxId
      /\ ~ Exists(b) /\ package' = package /\ refs' = refs
  BY <1>1 DEF Create, refs
<1>3. row \in BaseRow /\ row.id = nextId /\ nextId # 0
  <2>1. nextId \in 0..MaxId /\ nextId # 0
    BY <1>2, CommitsAssumption DEF BasesType
  <2> QED BY <2>1 DEF Absent, BaseRow
<1>4. \A a \in Base : base'[a] = IF a = b THEN row ELSE base[a]
  BY <1>2 DEF BasesType
<1>5. BasesType'
  <2>1. base' \in [Base -> BaseRow]
    BY <1>2, <1>3 DEF BasesType
  <2>2. nextId' \in 1..MaxId + 1
    BY <1>2, CommitsAssumption DEF BasesType
  <2>3. \A a \in Base : base[a].id \in Nat /\ base[a].id < nextId
    BY DEF BasesType, BaseRow
  <2>4. \A a \in Base : base'[a].id < nextId'
    BY <1>2, <1>3, <1>4, <2>3 DEF BasesType
  <2>5. \A a \in Base : base'[a].id # 0 \/ base'[a] = Absent
    <3> HIDE DEF row
    <3> QED BY <1>3, <1>4 DEF BasesType, Exists
  <2>6. \A a, c \in Base : base'[a].id # 0 /\ base'[a].id = base'[c].id => a = c
    <3> HIDE DEF row
    <3>1. \A a \in Base : base[a].id # nextId
      BY <2>3 DEF BasesType
    <3> QED BY <3>1, <1>3, <1>4 DEF BasesType, Exists
  <2> QED BY <2>1, <2>2, <2>4, <2>5, <2>6 DEF BasesType, Exists
<1>6. PackagesType'
  <2>1. base[b].id = 0
    BY <1>2 DEF Exists
  <2>2. ASSUME NEW n \in Package
        PROVE  package'[n].base \in {base'[a].id : a \in Base} \cup {0}
    <3>1. PICK a \in Base : package[n].base = 0 \/ package[n].base = base[a].id
      BY <1>1 DEF PackagesType
    <3> QED BY <1>2, <1>4, <2>1, <3>1
  <2> QED BY <1>2, <2>2 DEF PackagesType
<1>7. JobsType'
  BY GotoType DEF Create, At
<1> QED BY <1>2, <1>5, <1>6, <1>7 DEF RefsType, refs

LEMMA SaveFirstType ==
  ASSUME IType, NEW s \in Session, SaveFirst(s)
  PROVE  IType'
<1>0. BasesType /\ PackagesType /\ RefsType /\ JobsType
  BY DEF IType
<1>1. job[s] \in JobRow /\ job[s].user \in User /\ job[s].new \in Commit /\ SrcInfo[job[s].new] \in Info
  BY <1>0 DEF JobsType, SessionType, SaveFirst, At
<1>2. PICK b \in Base, u \in User, i \in Info, id \in 0..MaxId :
        /\ b = job[s].base /\ u = job[s].user /\ i = SrcInfo[job[s].new] /\ id = SavedId(s)
        /\ id # 0 /\ base[b].id = id
  <2>1. job[s].base \in Base
    BY <1>1 DEF JobRow
  <2>2. base[job[s].base].id \in 0..MaxId
    BY <1>0, <2>1 DEF BasesType, BaseRow
  <2> QED BY <1>1, <2>1, <2>2 DEF SaveFirst
<1> DEFINE row == [base[b] EXCEPT !.packager = u, !.flagged = FALSE,
                                  !.maintainer = IF @ = NoUser THEN u ELSE @]
<1>3. /\ base' = [base EXCEPT ![b] = row] /\ UNCHANGED <<nextId, refs>>
  BY <1>0, <1>2 DEF SaveFirst, BasesType
<1>4. PICK n \in PackagesIn[i] :
        /\ package' = [m \in Package |->
             IF m = n THEN [base |-> id, info |-> i]
             ELSE IF m \in OldPackages(id) THEN Free ELSE package[m]]
        /\ job' = [job EXCEPT ![s].pc = "rest", ![s].id = id, ![s].todo = PackagesIn[i] \ {n}]
  BY <1>2 DEF SaveFirst
<1>5. BasesType' /\ \A a \in Base : base'[a].id = base[a].id
  <2>1. row \in BaseRow /\ row.id = base[b].id
    BY <1>0 DEF BasesType, BaseRow
  <2>2. Exists(b)
    BY <1>2 DEF Exists
  <2> HIDE DEF row
  <2> QED BY <1>0, <1>3, <2>1, <2>2, RowUpdate
<1>6. PackagesType'
  <2>1. \A m \in Package : package'[m] \in {[base |-> id, info |-> i], Free, package[m]}
    BY <1>4
  <2>2. [base |-> id, info |-> i] \in PackageRow
    BY DEF PackageRow
  <2>3. package' \in [Package -> PackageRow]
    BY <1>0, <1>4, <2>2, FreeType DEF PackagesType
  <2>4. ASSUME NEW m \in Package
        PROVE  package'[m].base \in {base'[a].id : a \in Base} \cup {0}
    BY <1>0, <1>2, <1>5, <2>1, FreeType DEF PackagesType
  <2> QED BY <2>3, <2>4 DEF PackagesType
<1>7. JobsType'
  <2> DEFINE j == [job[s] EXCEPT !.pc = "rest", !.id = id, !.todo = PackagesIn[i] \ {n}]
  <2>1. job' = [job EXCEPT ![s] = j]
    BY <1>0, <1>4 DEF JobsType
  <2>2. PackagesIn[i] \subseteq Package
    BY CommitsAssumption
  <2>3. SessionType(j)
    BY <1>1, <1>2, <2>2 DEF SessionType, JobRow
  <2> QED BY <1>0, <2>1, <2>3, JobUpdate
<1> QED BY <1>0, <1>3, <1>5, <1>6, <1>7 DEF IType, RefsType, refs

LEMMA SaveNextType ==
  ASSUME IType, NEW s \in Session, SaveNext(s)
  PROVE  IType'
<1>0. BasesType /\ PackagesType /\ RefsType /\ JobsType
  BY DEF IType
<1>1. job[s] \in JobRow /\ job[s].user \in User /\ job[s].new \in Commit /\ SrcInfo[job[s].new] \in Info
  BY <1>0 DEF JobsType, SessionType, SaveNext, At
<1>2. PICK n \in job[s].todo :
        /\ package' = [package EXCEPT ![n] = [base |-> job[s].id, info |-> SrcInfo[job[s].new]]]
        /\ job' = [job EXCEPT ![s].todo = @ \ {n}]
  BY DEF SaveNext
<1>3. UNCHANGED <<base, nextId, refs>> /\ base[job[s].base].id = job[s].id
  BY DEF SaveNext
<1>4. PackagesType'
  <2>1. [base |-> job[s].id, info |-> SrcInfo[job[s].new]] \in PackageRow
    BY <1>1 DEF PackageRow, JobRow
  <2>2. package' \in [Package -> PackageRow]
    BY <1>0, <1>2, <2>1 DEF PackagesType
  <2>3. job[s].base \in Base
    BY <1>1 DEF JobRow
  <2>4. \A m \in Package : package'[m] = package[m] \/ package'[m].base = job[s].id
    BY <1>0, <1>2 DEF PackagesType
  <2> QED BY <1>0, <1>3, <2>2, <2>3, <2>4 DEF PackagesType
<1>5. JobsType'
  <2> DEFINE j == [job[s] EXCEPT !.todo = @ \ {n}]
  <2>1. job' = [job EXCEPT ![s] = j]
    BY <1>0, <1>2 DEF JobsType
  <2>2. SessionType(j)
    BY <1>0, <1>1 DEF SessionType, JobRow, JobsType, SaveNext, At
  <2> QED BY <1>0, <2>1, <2>2, JobUpdate
<1> QED BY <1>0, <1>3, <1>4, <1>5, BasesKept DEF IType, RefsType, refs

\* A web worker or the end of a push changes a row that is there.
LEMMA RowType ==
  ASSUME IType, NEW b \in Base, Exists(b), NEW row \in BaseRow, row.id = base[b].id,
         base' = [base EXCEPT ![b] = row], UNCHANGED <<package, nextId, refs>>, JobsType'
  PROVE  IType'
<1>1. BasesType' /\ \A a \in Base : base'[a].id = base[a].id
  BY RowUpdate DEF IType
<1>2. PackagesType'
  BY <1>1, PackagesKept DEF IType
<1> QED BY <1>1, <1>2 DEF IType, RefsType, refs

LEMMA SaveLastType ==
  ASSUME IType, NEW s \in Session, SaveLast(s)
  PROVE  IType'
<1>0. BasesType /\ JobsType
  BY DEF IType
<1>1. job[s].user \in User /\ job[s] \in JobRow
  BY <1>0 DEF JobsType, SessionType, SaveLast, At
<1>2. PICK b \in Base : b = job[s].base
  BY <1>1 DEF JobRow
<1> DEFINE row == [base[b] EXCEPT !.notify = IF job[s].orphan THEN @ \cup {job[s].user} ELSE @]
<1>3. base' = [base EXCEPT ![b] = row] /\ UNCHANGED <<package, nextId, refs>>
  BY <1>0, <1>2 DEF SaveLast, BasesType
<1>4. row \in BaseRow /\ row.id = base[b].id
  BY <1>0, <1>1 DEF BasesType, BaseRow
<1>5. JobsType'
  BY <1>0, GotoType DEF SaveLast, At
<1>6. Exists(b)
  BY <1>0, <1>2 DEF SaveLast, At, Exists, JobsType, SessionType
<1> HIDE DEF row
<1> QED BY <1>3, <1>4, <1>5, <1>6, RowType

LEMMA UpdateBranchType ==
  ASSUME IType, NEW s \in Session, UpdateBranch(s)
  PROVE  IType'
<1>0. BasesType /\ PackagesType /\ RefsType /\ JobsType
  BY DEF IType
<1>1. JobsType'
  BY <1>0, EndType, GotoType DEF UpdateBranch, At
<1>2. job[s].new \in Commit \cup {NoCommit}
  BY <1>0 DEF JobsType, JobRow
<1>3. RefsType'
  BY <1>0, <1>2 DEF UpdateBranch, RefsType
<1>4. UNCHANGED <<base, package, nextId>>
  BY DEF UpdateBranch
<1> QED BY <1>0, <1>1, <1>3, <1>4, BasesKept, PackagesKept DEF IType

LEMMA UpdateMasterType ==
  ASSUME IType, NEW s \in Session, UpdateMaster(s)
  PROVE  IType'
<1>0. BasesType /\ PackagesType /\ RefsType /\ JobsType
  BY DEF IType
<1>1. JobsType'
  BY <1>0, EndType DEF UpdateMaster
<1>2. job[s].new \in Commit \cup {NoCommit}
  BY <1>0 DEF JobsType, JobRow
<1>3. RefsType'
  BY <1>0, <1>2 DEF UpdateMaster, RefsType
<1>4. UNCHANGED <<base, package, nextId>>
  BY DEF UpdateMaster
<1> QED BY <1>0, <1>1, <1>3, <1>4, BasesKept, PackagesKept DEF IType

LEMMA DeleteType ==
  ASSUME IType, NEW b \in Base, Delete(b)
  PROVE  IType'
<1>0. BasesType /\ PackagesType /\ RefsType /\ JobsType
  BY DEF IType
<1>1. /\ base' = [base EXCEPT ![b] = Absent] /\ UNCHANGED <<nextId, refs, job>>
      /\ package' = [n \in Package |-> IF n \in PackagesOf(base[b].id) THEN Free ELSE package[n]]
  BY DEF Delete
<1>2. \A a \in Base : base'[a] = IF a = b THEN Absent ELSE base[a]
  BY <1>0, <1>1 DEF BasesType
<1>3. BasesType'
  <2>1. base' \in [Base -> BaseRow]
    BY <1>0, <1>1, AbsentType DEF BasesType
  <2>2. \A a \in Base : base'[a].id < nextId'
    BY <1>0, <1>1, <1>2, AbsentType, CommitsAssumption DEF BasesType
  <2>3. \A a \in Base : base'[a].id # 0 \/ base'[a] = Absent
    BY <1>0, <1>2 DEF BasesType, Exists
  <2>4. \A a, c \in Base : base'[a].id # 0 /\ base'[a].id = base'[c].id => a = c
    BY <1>0, <1>2, AbsentType DEF BasesType, Exists
  <2> QED BY <1>0, <1>1, <2>1, <2>2, <2>3, <2>4 DEF BasesType, Exists
<1>4. PackagesType'
  <2>1. package' \in [Package -> PackageRow]
    BY <1>0, <1>1, FreeType DEF PackagesType
  <2>2. ASSUME NEW n \in Package
        PROVE  package'[n].base \in {base'[a].id : a \in Base} \cup {0}
    <3>1. CASE package[n].base = base[b].id
      BY <1>1, <3>1, FreeType DEF PackagesOf
    <3>2. CASE package[n].base # base[b].id
      BY <1>0, <1>1, <1>2, <3>2 DEF PackagesOf, PackagesType
    <3> QED BY <3>1, <3>2
  <2> QED BY <2>1, <2>2 DEF PackagesType
<1>5. RefsType' /\ JobsType'
  BY <1>0, <1>1 DEF refs, RefsType, JobsType
<1> QED BY <1>3, <1>4, <1>5 DEF IType

LEMMA OwnerType ==
  ASSUME IType, NEW b \in Base, Disown(b) \/ Adopt(b), Privileged \subseteq User
  PROVE  IType'
<1>0. BasesType /\ JobsType
  BY DEF IType
<1>1. UNCHANGED <<package, nextId, refs>> /\ job' = job
  BY DEF Disown, Adopt
<1>2. Exists(b)
  BY <1>0 DEF Disown, Adopt, BasesType, Absent
<1>3. PICK row \in BaseRow : row.id = base[b].id /\ base' = [base EXCEPT ![b] = row]
  <2>1. CASE Disown(b)
    <3>1. PICK u \in User \cup {NoUser} :
            base' = [base EXCEPT ![b].maintainer = u, ![b].comaintainers = @ \ {u}]
      <4>1. base[b].comaintainers \subseteq User
        BY <1>0 DEF BasesType, BaseRow
      <4> QED BY <2>1, <4>1 DEF Disown
    <3> DEFINE row == [base[b] EXCEPT !.maintainer = u, !.comaintainers = @ \ {u}]
    <3>2. row \in BaseRow /\ row.id = base[b].id
      BY <1>0 DEF BasesType, BaseRow
    <3>3. base' = [base EXCEPT ![b] = row]
      BY <1>0, <3>1 DEF BasesType
    <3> HIDE DEF row
    <3> QED BY <3>2, <3>3
  <2>2. CASE Adopt(b)
    <3>1. PICK u \in User : base' = [base EXCEPT ![b].maintainer = u]
      BY <2>2 DEF Adopt
    <3> DEFINE row == [base[b] EXCEPT !.maintainer = u]
    <3>2. row \in BaseRow /\ row.id = base[b].id
      BY <1>0 DEF BasesType, BaseRow
    <3>3. base' = [base EXCEPT ![b] = row]
      BY <1>0, <3>1 DEF BasesType
    <3> HIDE DEF row
    <3> QED BY <3>2, <3>3
  <2> QED BY <2>1, <2>2
<1>4. JobsType'
  BY <1>0, <1>1 DEF JobsType
<1> QED BY <1>1, <1>2, <1>3, <1>4, RowType

LEMMA StepType == IType /\ [Next]_vars => IType'
<1> SUFFICES ASSUME IType, [Next]_vars PROVE IType'
  OBVIOUS
<1>1. ASSUME NEW s \in Session,
             \/ ServePush(s) \/ ServeRestore(s) \/ Refuse(s) \/ Check(s)
             \/ Create(s) \/ NameIsTaken(s)
             \/ SaveFirst(s) \/ SaveNext(s) \/ SaveFails(s) \/ SaveLast(s)
             \/ UpdateBranch(s) \/ UpdateMaster(s) \/ Crash(s)
      PROVE  IType'
  BY <1>1, ServeType, EndingType, CheckType, CreateType, SaveFirstType, SaveNextType,
     SaveLastType, UpdateBranchType, UpdateMasterType
<1>2. ASSUME NEW b \in Base, Delete(b) \/ Disown(b) \/ Adopt(b)
      PROVE  IType'
  BY <1>2, DeleteType, OwnerType, CommitsAssumption
<1>3. CASE UNCHANGED vars
  <2>1. job' = job /\ UNCHANGED <<base, package, nextId, refs>>
    BY <1>3 DEF vars
  <2>2. JobsType'
    BY <2>1 DEF IType, JobsType
  <2> QED BY <2>1, <2>2, OnlyJobs
<1> QED BY <1>1, <1>2, <1>3 DEF Next, Step

\* The tables of a push and its sessions have the types of the schema and of
\* the hook's variables: IDs of bases are unique and given out once, and no
\* package is left without its base.
THEOREM TypeCorrect == Spec => []TypeOK
<1> DEFINE OvertakenType == overtaken \subseteq Session
<1>1. Init => IType /\ OvertakenType
  BY InitType DEF Init
<1>2. IType /\ OvertakenType /\ [Next]_vars => IType' /\ OvertakenType'
  BY StepType DEF Next, Overtake, vars
<1>3. IType /\ OvertakenType => TypeOK
  BY ITypeGivesType
<1> HIDE DEF OvertakenType
<1> QED BY <1>1, <1>2, <1>3, PTL DEF Spec

-----------------------------------------------------------------------------
(* What the hook checks is true when git moves master. *)

Fine(c)    == IF LegacyParser THEN LegacyTreeIsFine(c) ELSE TreeIsFine(c)
AllFine(c) == \A d \in Past(c) : Fine(d)

Forwards(j) ==
    \/ Past(j.old) \subseteq Past(j.new)
    \/ j.overwrite /\ j.user \in Privileged

\* What a session knows of its two commits: the old one was master or the
\* branch, and from the check on the new one has been looked at.
Checked(j) ==
    /\ AllFine(j.old)
    /\ j.pc \notin {"idle", "hook"} => AllFine(j.new) /\ Forwards(j)

RefsFine == \A b \in Base : AllFine(master[b]) /\ AllFine(branch[b])

IChecked == RefsFine /\ \A s \in Session : Checked(job[s])

LEMMA RefsFineIsHistory == RefsFine <=> HistoryIsFine
BY DEF RefsFine, HistoryIsFine, AllFine, Fine

LEMMA IdleChecked == Checked(IdleJob)
BY IdleJobType DEF Checked, AllFine, IdleJob, Past

LEMMA CheckedUpdate ==
  ASSUME IType, IChecked, RefsFine', NEW s \in Session, NEW j, Checked(j),
         job' = [job EXCEPT ![s] = j]
  PROVE  IChecked'
<1>1. \A r \in Session : job'[r] = IF r = s THEN j ELSE job[r]
  BY DEF IType, JobsType
<1> QED BY <1>1 DEF IChecked

LEMMA RefsKept ==
  ASSUME IChecked, refs' = refs
  PROVE  RefsFine'
BY DEF IChecked, RefsFine, refs

LEMMA EndChecked ==
  ASSUME IType, IChecked, RefsFine', NEW s \in Session, End(s)
  PROVE  IChecked'
BY IdleChecked, CheckedUpdate DEF End

\* A session that moves on with the same commits.
LEMMA MoveChecked ==
  ASSUME IType, IChecked, RefsFine', NEW s \in Session, NEW j,
         job[s].pc \notin {"idle", "hook"},
         j.old = job[s].old, j.new = job[s].new, j.overwrite = job[s].overwrite,
         j.user = job[s].user, job' = [job EXCEPT ![s] = j]
  PROVE  IChecked'
<1>1. Checked(j)
  BY DEF IChecked, Checked, Forwards
<1> QED BY <1>1, CheckedUpdate

LEMMA InitChecked == Init => IChecked
<1> SUFFICES ASSUME Init PROVE IChecked
  OBVIOUS
<1>1. \A b \in Base : \/ master[b] = NoCommit
                      \/ master[b] \in Commit /\ \A d \in History[master[b]] : Flaws[d] = {}
  BY DEF Init
<1>2. \A b \in Base : AllFine(master[b])
  BY <1>1 DEF AllFine, Past, Fine, TreeIsFine, LegacyTreeIsFine
<1>3. branch = master /\ \A s \in Session : job[s] = IdleJob
  BY DEF Init
<1> QED BY <1>2, <1>3, IdleChecked DEF IChecked, RefsFine

LEMMA SidesChecked ==
  ASSUME IType, IChecked, NEW s \in Session, Accepted(s)
  PROVE  /\ AllFine(OldCommit(s)) /\ AllFine(NewCommit(s))
         /\ \/ Past(OldCommit(s)) \subseteq Past(NewCommit(s))
            \/ job[s].overwrite /\ job[s].user \in Privileged
<1>1. AllFine(OldCommit(s))
  BY DEF IType, JobsType, JobRow, IChecked, Checked, RefsFine, OldCommit
<1>2. \A c \in Past(NewCommit(s)) \ Past(OldCommit(s)) : Fine(c)
  BY DEF Accepted, CommitsAreFine, Fine
<1>3. AllFine(NewCommit(s))
  BY <1>1, <1>2 DEF AllFine
<1> QED BY <1>1, <1>3 DEF Accepted, FastForward

LEMMA SessionChecked ==
  ASSUME IType, IChecked, NEW s \in Session,
         \/ ServePush(s) \/ ServeRestore(s) \/ Refuse(s) \/ Check(s)
         \/ Create(s) \/ NameIsTaken(s)
         \/ SaveFirst(s) \/ SaveNext(s) \/ SaveFails(s) \/ SaveLast(s)
         \/ UpdateBranch(s) \/ UpdateMaster(s) \/ Crash(s)
  PROVE  IChecked'
<1>0. JobsType /\ RefsType
  BY DEF IType
<1>1. CASE ServePush(s)
  <2>1. PICK u \in User, b \in Base, c \in Commit, overwrite \in BOOLEAN :
          /\ At(s, "idle") /\ CanConnect(u)
          /\ Exists(b) => MayWrite(u, b)
          /\ c # master[b]
          /\ job' = [job EXCEPT ![s] =
               [IdleJob EXCEPT !.pc = "hook", !.user = u, !.base = b, !.overwrite = overwrite,
                               !.old = master[b], !.new = c]]
          /\ UNCHANGED <<base, package, nextId, refs>>
    BY <1>1, Zenon DEF ServePush
  <2> DEFINE j == [IdleJob EXCEPT !.pc = "hook", !.user = u, !.base = b,
                                  !.overwrite = overwrite, !.old = master[b], !.new = c]
  <2>2. j.pc = "hook" /\ j.old = master[b]
    BY DEF IdleJob
  <2>3. Checked(j)
    BY <2>2 DEF Checked, IChecked, RefsFine
  <2> HIDE DEF j
  <2> QED BY <2>1, <2>3, RefsKept, CheckedUpdate DEF j
<1>2. CASE ServeRestore(s)
  <2>1. PICK u \in User, b \in Base :
          job' = [job EXCEPT ![s] =
            [IdleJob EXCEPT !.pc = "hook", !.user = u, !.base = b, !.restore = TRUE]]
    BY <1>2 DEF ServeRestore
  <2> DEFINE j == [IdleJob EXCEPT !.pc = "hook", !.user = u, !.base = b, !.restore = TRUE]
  <2>2. j.pc = "hook" /\ j.old = NoCommit
    BY DEF IdleJob
  <2>3. Checked(j)
    BY <2>2 DEF Checked, AllFine, Past
  <2> HIDE DEF j
  <2> QED BY <1>2, <2>1, <2>3, RefsKept, CheckedUpdate DEF j, ServeRestore
<1>3. CASE Refuse(s) \/ NameIsTaken(s) \/ SaveFails(s) \/ Crash(s)
  BY <1>3, RefsKept, EndChecked DEF Refuse, NameIsTaken, SaveFails, Crash
<1>4. CASE Check(s)
  <2> DEFINE b == job[s].base
  <2> DEFINE j == [job[s] EXCEPT !.pc = IF Exists(b) THEN "save" ELSE "create",
                                 !.new = NewCommit(s), !.old = OldCommit(s),
                                 !.id = base[b].id,
                                 !.orphan = Exists(b) /\ base[b].maintainer = NoUser]
  <2>1. job' = [job EXCEPT ![s] = j] /\ refs' = refs
    BY <1>0, <1>4 DEF Check, JobsType
  <2>2. /\ j.old = OldCommit(s) /\ j.new = NewCommit(s)
        /\ j.overwrite = job[s].overwrite /\ j.user = job[s].user
    BY <1>0 DEF JobsType, JobRow
  <2> HIDE DEF j
  <2>3. Checked(j)
    BY <1>4, <2>2, SidesChecked DEF Check, Checked, Forwards
  <2> QED BY <2>1, <2>3, RefsKept, CheckedUpdate
<1>5. CASE Create(s) \/ SaveLast(s)
  <2>1. PICK pc \in {"save", "refs"} : Goto(s, pc)
    BY <1>5 DEF Create, SaveLast
  <2> DEFINE j == [job[s] EXCEPT !.pc = pc]
  <2>2. job' = [job EXCEPT ![s] = j] /\ job[s].pc \notin {"idle", "hook"} /\ refs' = refs
    BY <1>0, <1>5, <2>1 DEF Goto, JobsType, Create, SaveLast, At, refs
  <2>3. /\ j.old = job[s].old /\ j.new = job[s].new /\ j.overwrite = job[s].overwrite
        /\ j.user = job[s].user
    BY <1>0 DEF JobsType, JobRow
  <2> HIDE DEF j
  <2> QED BY <2>2, <2>3, RefsKept, MoveChecked
<1>6. CASE SaveFirst(s) \/ SaveNext(s)
  <2>1. PICK j \in JobRow :
          /\ job' = [job EXCEPT ![s] = j]
          /\ j.old = job[s].old /\ j.new = job[s].new /\ j.overwrite = job[s].overwrite
          /\ j.user = job[s].user
    <3>1. job'[s] \in JobRow
      BY <1>6, SaveFirstType, SaveNextType DEF IType, JobsType
    <3>2. job' = [job EXCEPT ![s] = job'[s]]
      BY <1>0, <1>6 DEF SaveFirst, SaveNext, JobsType
    <3>3. /\ job'[s].old = job[s].old /\ job'[s].new = job[s].new
          /\ job'[s].overwrite = job[s].overwrite /\ job'[s].user = job[s].user
      BY <1>0, <1>6 DEF SaveFirst, SaveNext, JobsType, JobRow
    <3> QED BY <3>1, <3>2, <3>3
  <2>2. job[s].pc \notin {"idle", "hook"} /\ refs' = refs
    BY <1>6 DEF SaveFirst, SaveNext, At
  <2> QED BY <2>1, <2>2, RefsKept, MoveChecked
<1>7. CASE UpdateBranch(s) \/ UpdateMaster(s)
  <2>1. job[s].pc \notin {"idle", "hook"}
    BY <1>7 DEF UpdateBranch, UpdateMaster, At
  <2>2. AllFine(job[s].new)
    BY <2>1 DEF IChecked, Checked
  <2>3. \A b \in Base : /\ master'[b] \in {master[b], job[s].new}
                        /\ branch'[b] \in {branch[b], job[s].new}
    BY <1>0, <1>7 DEF UpdateBranch, UpdateMaster, RefsType
  <2>4. RefsFine'
    BY <2>2, <2>3 DEF IChecked, RefsFine
  <2>5. CASE End(s)
    BY <2>4, <2>5, EndChecked
  <2>6. CASE Goto(s, "git")
    <3> DEFINE j == [job[s] EXCEPT !.pc = "git"]
    <3>1. job' = [job EXCEPT ![s] = j]
      BY <1>0, <2>6 DEF Goto, JobsType
    <3>2. /\ j.old = job[s].old /\ j.new = job[s].new /\ j.overwrite = job[s].overwrite
          /\ j.user = job[s].user
      BY <1>0 DEF JobsType, JobRow
    <3> HIDE DEF j
    <3> QED BY <2>1, <2>4, <3>1, <3>2, MoveChecked
  <2> QED BY <1>7, <2>5, <2>6 DEF UpdateBranch, UpdateMaster
<1> QED BY <1>1, <1>2, <1>3, <1>4, <1>5, <1>6, <1>7

LEMMA StepChecked == IType /\ IChecked /\ [Next]_vars => IChecked'
<1> SUFFICES ASSUME IType, IChecked, [Next]_vars PROVE IChecked'
  OBVIOUS
<1>1. ASSUME NEW b \in Base, Delete(b) \/ Disown(b) \/ Adopt(b)
      PROVE  refs' = refs /\ job' = job
  BY <1>1 DEF Delete, Disown, Adopt
<1>2. CASE refs' = refs /\ job' = job
  BY <1>2, RefsKept DEF IChecked
<1>3. CASE UNCHANGED vars
  BY <1>2, <1>3 DEF vars
<1> QED BY <1>1, <1>2, <1>3, SessionChecked DEF Next, Step

\* Every commit that master or the branch of a base leads to has passed the
\* checks of the hook, whatever sessions race, die or restore what was deleted.
THEOREM HistoryStaysFine == Spec => []HistoryIsFine
<1>1. Init => IType /\ IChecked
  BY InitType, InitChecked
<1>2. IType /\ IChecked /\ [Next]_vars => IType' /\ IChecked'
  BY StepType, StepChecked
<1>3. IType /\ IChecked => HistoryIsFine
  BY RefsFineIsHistory DEF IChecked
<1> QED BY <1>1, <1>2, <1>3, PTL DEF Spec

\* The step that moves master, the only one that does.
MasterMovesForwards ==
    \A b \in Base :
         Past(master[b]) \subseteq Past(master'[b])
           \/ \E s \in Session : At(s, "git") /\ job'[s] # job[s] /\ job[s].overwrite
                                 /\ job[s].user \in Privileged

LEMMA UpdateMasterForwards ==
  ASSUME IType, IChecked, NEW s \in Session, UpdateMaster(s)
  PROVE  MasterMovesForwards
<1>0. JobsType /\ RefsType
  BY DEF IType
<1>1. At(s, "git") /\ job'[s] # job[s]
  BY <1>0, IdleJobType DEF UpdateMaster, End, JobsType, At
<1>2. Forwards(job[s])
  BY <1>1 DEF IChecked, Checked, At
<1>3. SUFFICES ASSUME NEW b \in Base, ~ (job[s].overwrite /\ job[s].user \in Privileged)
               PROVE  Past(master[b]) \subseteq Past(master'[b])
  BY <1>1 DEF MasterMovesForwards
<1>4. Past(job[s].old) \subseteq Past(job[s].new)
  BY <1>2, <1>3 DEF Forwards
<1>5. CASE master'[b] = master[b]
  BY <1>5
<1>6. CASE master'[b] # master[b]
  <2>1. master[b] = job[s].old /\ master'[b] = job[s].new
    BY <1>0, <1>6 DEF UpdateMaster, RefsType
  <2> QED BY <1>4, <2>1
<1> QED BY <1>5, <1>6

LEMMA StepForwards == IType /\ IChecked /\ [Next]_vars => MasterMovesForwards
<1> SUFFICES ASSUME IType, IChecked, [Next]_vars PROVE MasterMovesForwards
  OBVIOUS
<1>1. CASE master' = master
  BY <1>1 DEF MasterMovesForwards
<1>2. ASSUME NEW s \in Session,
             \/ ServePush(s) \/ ServeRestore(s) \/ Refuse(s) \/ Check(s)
             \/ Create(s) \/ NameIsTaken(s)
             \/ SaveFirst(s) \/ SaveNext(s) \/ SaveFails(s) \/ SaveLast(s)
             \/ UpdateBranch(s) \/ Crash(s)
      PROVE  master' = master
  BY <1>2 DEF ServePush, ServeRestore, Refuse, Check, Create, NameIsTaken, SaveFirst,
              SaveNext, SaveFails, SaveLast, UpdateBranch, Crash, refs
<1>3. ASSUME NEW b \in Base, Delete(b) \/ Disown(b) \/ Adopt(b)
      PROVE  master' = master
  BY <1>3 DEF Delete, Disown, Adopt, refs
<1>4. CASE UNCHANGED vars
  BY <1>1, <1>4 DEF vars, refs
<1> QED BY <1>1, <1>2, <1>3, <1>4, UpdateMasterForwards DEF Next, Step

\* No push takes a commit out of the history of master unless a privileged
\* user asks for it: git moves master only from the commit the hook compared
\* with, or refuses.
THEOREM MasterOnlyMovesForwards == Spec => OnlyFastForwards
<1>1. Init => IType /\ IChecked
  BY InitType, InitChecked
<1>2. IType /\ IChecked /\ [Next]_vars => IType' /\ IChecked'
  BY StepType, StepChecked
<1>3. IType /\ IChecked /\ [Next]_vars => [MasterMovesForwards]_vars
  BY StepForwards
<1>4. [MasterMovesForwards]_vars <=>
        [\A b \in Base :
           Past(master[b]) \subseteq Past(master'[b])
             \/ \E s \in Session : At(s, "git") /\ job'[s] # job[s] /\ job[s].overwrite
                                   /\ job[s].user \in Privileged]_vars
  BY DEF MasterMovesForwards
<1> QED BY <1>1, <1>2, <1>3, <1>4, PTL DEF Spec, OnlyFastForwards

-----------------------------------------------------------------------------
(* A push that nobody disturbs is written completely.  The invariant says, *)
(* for each place a session can be at, how far the packages of its base    *)
(* have come, and that git's refs are where the session last saw them.     *)

\* The packages of a base are those of a commit.
Right(b, c) == \A n \in Package :
    IF n \in PackagesIn[SrcInfo[c]]
    THEN package[n] = [base |-> base[b].id, info |-> SrcInfo[c]]
    ELSE package[n].base # base[b].id

FreeIsFree == \A n \in Package : package[n].base = 0 => package[n] = Free

\* Where a session j has not begun to write.
BasesAreRight(j) == \A b \in Base :
    /\ Exists(b) /\ (j.base # b \/ j.pc \in {"idle", "hook"}) => Right(b, master[b])
    /\ j.base # b \/ j.pc # "git" => branch[b] = master[b]

KnowsRefs(j) ==
    /\ j.pc # "idle" /\ ~j.restore => j.old = master[j.base]
    /\ j.pc = "git" => ~j.restore /\ branch[j.base] = j.new
    /\ j.restore /\ j.pc \notin {"idle", "hook"} => j.new = branch[j.base]

\* Packages that were checked, and of them those that are written.
Open(j)    == \A n \in PackagesIn[SrcInfo[j.new]] : package[n].base \in {0, base[j.base].id}
Written(j) == \A n \in Package :
    IF n \in PackagesIn[SrcInfo[j.new]] \ j.todo
    THEN package[n] = [base |-> j.id, info |-> SrcInfo[j.new]]
    ELSE package[n].base # j.id /\ (n \in j.todo => package[n] = Free)

KnowsPackages(j) ==
    /\ j.pc = "create" => ~Exists(j.base) /\ j.id = 0
    /\ j.pc \in {"create", "save"} => Open(j)
    /\ j.pc \in {"rest", "refs", "git"} => j.id # 0
    /\ j.pc \in {"save", "rest", "refs", "git"} /\ j.id # 0 => base[j.base].id \in {0, j.id}
    /\ j.pc = "rest" => j.todo \subseteq PackagesIn[SrcInfo[j.new]]
    /\ j.pc = "rest" /\ Exists(j.base) => Written(j)
    /\ j.pc \in {"refs", "git"} /\ Exists(j.base) => Right(j.base, j.new)

Whole(j) == BasesAreRight(j) /\ KnowsRefs(j) /\ KnowsPackages(j)

IWhole(s) == FreeIsFree /\ Whole(job[s])

LEMMA WholeNext ==
  ASSUME NEW s, NEW j, job'[s] = j, FreeIsFree', Whole(j)'
  PROVE  IWhole(s)'
BY DEF IWhole, Whole, BasesAreRight, KnowsRefs, KnowsPackages, Open, Written

\* All of it but the jobs is in the IDs of the bases, the packages and the refs.
LEMMA WholeKept ==
  ASSUME NEW j, j.base \in Base, package' = package, refs' = refs,
         \A b \in Base : base'[b].id = base[b].id
  PROVE  /\ FreeIsFree => FreeIsFree'
         /\ BasesAreRight(j) => BasesAreRight(j)'
         /\ KnowsRefs(j) => KnowsRefs(j)'
         /\ KnowsPackages(j) => KnowsPackages(j)'
<1>1. \A b \in Base : (Exists(b) <=> Exists(b)') /\ \A c : Right(b, c) <=> Right(b, c)'
  BY DEF Exists, Right
<1>2. master' = master /\ branch' = branch
  BY DEF refs
<1>3. (Open(j) <=> Open(j)') /\ (Written(j) <=> Written(j)')
  BY DEF Open, Written
<1>4. FreeIsFree => FreeIsFree'
  BY DEF FreeIsFree
<1>5. BasesAreRight(j) => BasesAreRight(j)'
  BY <1>1, <1>2 DEF BasesAreRight
<1>6. KnowsRefs(j) => KnowsRefs(j)'
  BY <1>2 DEF KnowsRefs
<1>7. KnowsPackages(j) => KnowsPackages(j)'
  BY <1>1, <1>3 DEF KnowsPackages
<1>8. QED
  BY <1>4, <1>5, <1>6, <1>7

LEMMA InitWhole ==
  ASSUME NEW s \in Session, Init
  PROVE  IWhole(s)
<1> DEFINE Has(n, b) == Exists(b) /\ n \in PackagesIn[SrcInfo[master[b]]]
<1>1. /\ \A n \in Package : \A b \in Base : Has(n, b) =>
            package[n] = [base |-> base[b].id, info |-> SrcInfo[master[b]]]
      /\ \A n \in Package : (\A b \in Base : ~Has(n, b)) => package[n] = Free
  <2>1. \A n \in Package : \A a, b \in Base : Has(n, a) /\ Has(n, b) => a = b
    BY DEF Init
  <2>2. package = [n \in Package |->
          IF \E b \in Base : Has(n, b)
          THEN LET b == CHOOSE b \in Base : Has(n, b)
               IN  [base |-> base[b].id, info |-> SrcInfo[master[b]]]
          ELSE Free]
    BY DEF Init
  <2> HIDE DEF Has
  <2>3. ASSUME NEW n \in Package, NEW b \in Base, Has(n, b)
        PROVE  package[n] = [base |-> base[b].id, info |-> SrcInfo[master[b]]]
    <3>1. (CHOOSE a \in Base : Has(n, a)) = b
      BY <2>1, <2>3
    <3>2. QED
      BY <2>2, <2>3, <3>1
  <2>4. QED
    BY <2>2, <2>3
<1>2. branch = master /\ job[s] = IdleJob /\ IdleJob.pc = "idle"
  BY IdleJobType DEF Init
<1>3. BasesType
  BY InitType DEF IType
<1>4. FreeIsFree
  <2>1. SUFFICES ASSUME NEW n \in Package, package[n].base = 0, NEW b \in Base, Has(n, b)
                 PROVE  FALSE
    BY <1>1 DEF FreeIsFree
  <2>2. package[n] = [base |-> base[b].id, info |-> SrcInfo[master[b]]]
    BY <1>1, <2>1
  <2>3. QED
    BY <2>1, <2>2 DEF Exists
<1>5. ASSUME NEW b \in Base, Exists(b)
      PROVE  Right(b, master[b])
  <2>1. ASSUME NEW n \in Package, package[n].base = base[b].id
        PROVE  Has(n, b)
    <3>1. PICK a \in Base : Has(n, a)
      BY <1>1, <1>5, <2>1, FreeType DEF Exists
    <3>2. base[a].id = base[b].id
      <4>1. package[n] = [base |-> base[a].id, info |-> SrcInfo[master[a]]]
        BY <1>1, <3>1
      <4>2. QED
        BY <2>1, <4>1
    <3>3. a = b
      BY <1>3, <1>5, <3>2 DEF BasesType
    <3>4. QED
      BY <3>1, <3>3
  <2>2. QED
    BY <1>1, <1>5, <2>1 DEF Right
<1>6. QED
  BY <1>2, <1>4, <1>5 DEF IWhole, Whole, BasesAreRight, KnowsRefs, KnowsPackages

LEMMA ServeWhole ==
  ASSUME IType, NEW s \in Session, IWhole(s), ServePush(s) \/ ServeRestore(s)
  PROVE  IWhole(s)'
<1>1. PICK j \in JobRow : job'[s] = j
  BY ServeType DEF IType, JobsType
<1>2. /\ UNCHANGED <<base, package, refs>> /\ j.pc = "hook" /\ At(s, "idle")
      /\ j.restore \/ j.old = master[j.base]
  <2>1. UNCHANGED <<base, package, refs>> /\ At(s, "idle")
    BY DEF ServePush, ServeRestore
  <2>2. ASSUME NEW u \in User, NEW b \in Base, NEW c \in Commit, NEW overwrite \in BOOLEAN,
               job' = [job EXCEPT ![s] =
                 [IdleJob EXCEPT !.pc = "hook", !.user = u, !.base = b, !.overwrite = overwrite,
                                 !.old = master[b], !.new = c]]
        PROVE  j.pc = "hook" /\ j.old = master[j.base]
    BY <1>1, <2>2 DEF IType, JobsType, IdleJob
  <2>3. ASSUME NEW u \in User, NEW b \in Base,
               job' = [job EXCEPT ![s] =
                 [IdleJob EXCEPT !.pc = "hook", !.user = u, !.base = b, !.restore = TRUE]]
        PROVE  j.pc = "hook" /\ j.restore
    BY <1>1, <2>3 DEF IType, JobsType, IdleJob
  <2>4. CASE ServePush(s)
    <3>1. PICK u \in User, b \in Base, c \in Commit, overwrite \in BOOLEAN :
            /\ At(s, "idle") /\ CanConnect(u)
            /\ Exists(b) => MayWrite(u, b)
            /\ c # master[b]
            /\ job' = [job EXCEPT ![s] =
                 [IdleJob EXCEPT !.pc = "hook", !.user = u, !.base = b, !.overwrite = overwrite,
                                 !.old = master[b], !.new = c]]
            /\ UNCHANGED <<base, package, nextId, refs>>
      BY <2>4, Zenon DEF ServePush
    <3>2. j.pc = "hook" /\ j.old = master[j.base]
      BY <2>2, <3>1, Zenon
    <3>3. QED
      BY <2>1, <3>2
  <2>5. CASE ServeRestore(s)
    <3>1. PICK u \in User, b \in Base :
            job' = [job EXCEPT ![s] =
              [IdleJob EXCEPT !.pc = "hook", !.user = u, !.base = b, !.restore = TRUE]]
      BY <2>5, Zenon DEF ServeRestore
    <3>2. j.pc = "hook" /\ j.restore
      BY <2>3, <3>1, Zenon
    <3>3. QED
      BY <2>1, <3>2
  <2>6. QED
    BY <2>4, <2>5
<1>3. FreeIsFree /\ BasesAreRight(j)
  BY <1>2 DEF IWhole, Whole, BasesAreRight, At
<1>4. KnowsRefs(j) /\ KnowsPackages(j)
  BY <1>2 DEF KnowsRefs, KnowsPackages
<1>5. FreeIsFree' /\ Whole(j)'
  BY <1>1, <1>2, <1>3, <1>4, WholeKept DEF JobRow, Whole
<1>6. QED
  BY <1>1, <1>5, WholeNext

LEMMA EndingWhole ==
  ASSUME IType, NEW s \in Session, IWhole(s), Refuse(s) \/ NameIsTaken(s) \/ SaveFails(s)
  PROVE  IWhole(s)'
<1>1. job'[s] = IdleJob /\ UNCHANGED <<base, package, refs>> /\ IdleJob.pc = "idle" /\ IdleJob.base \in Base
  BY IdleJobType DEF Refuse, NameIsTaken, SaveFails, End, IType, JobsType, SessionType, JobRow
<1>2. /\ job[s].pc # "git"
      /\ job[s].pc \notin {"idle", "hook"} => ~Exists(job[s].base)
  <2>1. CASE Refuse(s)
    BY <2>1 DEF Refuse, At
  <2>2. CASE NameIsTaken(s)
    BY <2>2 DEF NameIsTaken, At, IWhole, Whole, KnowsPackages
  <2>3. CASE SaveFails(s) /\ At(s, "save")
    <3>1. SavedId(s) = 0 \/ base[job[s].base].id # SavedId(s)
            \/ \E n \in PackagesIn[SrcInfo[job[s].new]] : package[n].base \notin {0, SavedId(s)}
      BY <2>3 DEF SaveFails, At
    <3>2. Open(job[s]) /\ (job[s].id # 0 => base[job[s].base].id \in {0, job[s].id})
      BY <2>3 DEF IWhole, Whole, KnowsPackages, At
    <3>3. QED
      BY <2>3, <3>1, <3>2 DEF SavedId, Open, Exists, At
  <2>4. CASE SaveFails(s) /\ At(s, "rest")
    <3>1. base[job[s].base].id # job[s].id \/ \E n \in job[s].todo : package[n] # Free
      BY <2>4 DEF SaveFails, At
    <3>2. /\ Exists(job[s].base) => Written(job[s])
          /\ base[job[s].base].id \in {0, job[s].id}
          /\ job[s].todo \subseteq Package
      BY <2>4 DEF IWhole, Whole, KnowsPackages, At, IType, JobsType, JobRow
    <3>3. QED
      BY <2>4, <3>1, <3>2 DEF Written, Exists, At
  <2>5. QED
    BY <2>1, <2>2, <2>3, <2>4 DEF SaveFails
<1>3. FreeIsFree /\ BasesAreRight(IdleJob)
  BY <1>1, <1>2 DEF IWhole, Whole, BasesAreRight
<1>4. KnowsRefs(IdleJob) /\ KnowsPackages(IdleJob)
  BY <1>1 DEF KnowsRefs, KnowsPackages
<1>5. PICK j : j = IdleJob
  OBVIOUS
<1>6. FreeIsFree' /\ Whole(j)'
  BY <1>1, <1>3, <1>4, <1>5, WholeKept DEF Whole
<1>7. QED
  BY <1>1, <1>5, <1>6, WholeNext

LEMMA CheckWhole ==
  ASSUME IType, NEW s \in Session, IWhole(s), Check(s)
  PROVE  IWhole(s)'
<1>1. PICK j \in JobRow : job'[s] = j
  BY CheckType DEF IType, JobsType
<1> DEFINE b == job[s].base
<1>2. /\ UNCHANGED <<base, package, refs>> /\ At(s, "hook") /\ Accepted(s)
      /\ j.pc = IF Exists(b) THEN "save" ELSE "create"
      /\ j.base = b /\ j.restore = job[s].restore /\ j.user = job[s].user
      /\ j.new = NewCommit(s) /\ j.old = OldCommit(s) /\ j.id = base[b].id
  BY <1>1 DEF Check, IType, JobsType, JobRow
<1>3. FreeIsFree /\ BasesAreRight(j)
  BY <1>2 DEF IWhole, Whole, BasesAreRight, At
<1>4. KnowsRefs(j)
  BY <1>2 DEF IWhole, Whole, KnowsRefs, OldCommit, NewCommit, At
<1>5. KnowsPackages(j)
  <2>1. Open(j)
    BY <1>2 DEF Accepted, NamesAreFine, Open
  <2>2. QED
    BY <1>2, <2>1 DEF KnowsPackages, Exists
<1>6. FreeIsFree' /\ Whole(j)'
  BY <1>1, <1>2, <1>3, <1>4, <1>5, WholeKept DEF JobRow, Whole
<1>7. QED
  BY <1>1, <1>6, WholeNext

LEMMA CreateWhole ==
  ASSUME IType, NEW s \in Session, IWhole(s), Create(s)
  PROVE  IWhole(s)'
<1>0. BasesType /\ PackagesType
  BY DEF IType
<1>1. PICK j \in JobRow : job'[s] = j
  BY CreateType DEF IType, JobsType
<1>2. /\ UNCHANGED <<package, refs>> /\ At(s, "create") /\ j = [job[s] EXCEPT !.pc = "save"]
      /\ j.base \in Base /\ ~Exists(j.base)
  BY <1>1 DEF Create, Goto, IType, JobsType, JobRow
<1>3. /\ j.pc = "save" /\ j.base = job[s].base /\ j.restore = job[s].restore /\ j.id = job[s].id
      /\ j.old = job[s].old /\ j.new = job[s].new
  BY <1>2 DEF IType, JobsType, JobRow
<1>4. /\ \A b \in Base \ {j.base} : base'[b] = base[b]
      /\ base'[j.base].id = nextId /\ base[j.base].id = 0
  <2> DEFINE row == [Absent EXCEPT !.id = nextId, !.maintainer = job[s].user,
                                   !.notify = {job[s].user}]
  <2>1. base' = [base EXCEPT ![j.base] = row]
    BY <1>3 DEF Create
  <2>2. row.id = nextId
    BY DEF Absent
  <2> HIDE DEF row
  <2>3. QED
    BY <1>0, <1>2, <2>1, <2>2 DEF BasesType, Exists
<1>5. FreeIsFree'
  BY <1>2 DEF IWhole, FreeIsFree
<1>6. BasesAreRight(j)'
  <2>1. \A b \in Base \ {j.base} : (Exists(b)' => Exists(b)) /\ \A c : Right(b, c) => Right(b, c)'
    BY <1>2, <1>4 DEF Exists, Right
  <2>2. master' = master /\ branch' = branch
    BY <1>2 DEF refs
  <2>3. QED
    BY <1>2, <1>3, <2>1, <2>2 DEF IWhole, Whole, BasesAreRight, At
<1>7. KnowsRefs(j)'
  BY <1>2, <1>3 DEF IWhole, Whole, KnowsRefs, At, refs
<1>8. KnowsPackages(j)'
  BY <1>2, <1>3, <1>4 DEF IWhole, Whole, KnowsPackages, Open, At
<1>9. QED
  BY <1>1, <1>5, <1>6, <1>7, <1>8, WholeNext DEF Whole

LEMMA SaveFirstWhole ==
  ASSUME IType, NEW s \in Session, IWhole(s), SaveFirst(s)
  PROVE  IWhole(s)'
<1>0. BasesType /\ PackagesType /\ FreeIsFree /\ Open(job[s])
  BY DEF IType, IWhole, Whole, KnowsPackages, SaveFirst, At
<1>1. PICK j \in JobRow : job'[s] = j
  BY SaveFirstType DEF IType, JobsType
<1> DEFINE mine == PackagesIn[SrcInfo[job[s].new]]
<1>a. PICK n \in mine :
        /\ package[n].base \in {0, SavedId(s)}
        /\ package' = [m \in Package |->
             IF m = n THEN [base |-> SavedId(s), info |-> SrcInfo[job[s].new]]
             ELSE IF m \in OldPackages(SavedId(s)) THEN Free ELSE package[m]]
        /\ job' = [job EXCEPT ![s] = [job[s] EXCEPT !.pc = "rest", !.id = SavedId(s),
                                                    !.todo = mine \ {n}]]
  BY DEF SaveFirst, IType, JobsType
<1>2. /\ At(s, "save") /\ UNCHANGED refs
      /\ j.base = job[s].base /\ j.restore = job[s].restore
      /\ j.old = job[s].old /\ j.new = job[s].new
      /\ j.pc = "rest" /\ j.id = SavedId(s) /\ j.todo = mine \ {n}
  <2> HIDE DEF mine
  <2>1. j = [job[s] EXCEPT !.pc = "rest", !.id = SavedId(s), !.todo = mine \ {n}]
    BY <1>1, <1>a DEF IType, JobsType
  <2>2. job[s] \in JobRow /\ At(s, "save") /\ UNCHANGED refs
    BY DEF SaveFirst, IType, JobsType
  <2>3. QED
    BY <2>1, <2>2 DEF JobRow
<1>3. j.base \in Base /\ base[j.base].id = j.id /\ j.id # 0
  BY <1>2 DEF SaveFirst, JobRow
<1>4. /\ package[n].base \in {0, j.id}
      /\ package' = [m \in Package |->
             IF m = n THEN [base |-> j.id, info |-> SrcInfo[j.new]]
             ELSE IF m \in OldPackages(j.id) THEN Free ELSE package[m]]
      /\ j.todo = mine \ {n} /\ mine = PackagesIn[SrcInfo[j.new]]
  BY <1>a, <1>2
<1>5. \A b \in Base : base'[b].id = base[b].id
  BY <1>0, <1>3 DEF SaveFirst, BasesType, BaseRow
<1>6. \A m \in Package \ {n} : package'[m] = IF package[m].base = j.id THEN Free ELSE package[m]
  BY <1>4 DEF OldPackages, PackagesOf
<1>7. n \in Package => package'[n] = [base |-> j.id, info |-> SrcInfo[j.new]]
  BY <1>4
<1>8. FreeIsFree'
  BY <1>0, <1>3, <1>6, <1>7 DEF FreeIsFree
<1>9. ASSUME NEW b \in Base \ {j.base}, Exists(b), Right(b, master[b])
      PROVE  Right(b, master[b])'
  <2>1. base[b].id # j.id /\ base[b].id # 0
    BY <1>0, <1>3, <1>9 DEF BasesType, Exists
  <2>2. \A m \in Package \ {n} : package[m].base = base[b].id => package'[m] = package[m]
    BY <1>6, <2>1
  <2>3. \A m \in Package \ {n} : package[m].base # base[b].id => package'[m].base # base[b].id
    BY <1>6, <2>1, FreeType
  <2>4. n \in Package => n \notin PackagesIn[SrcInfo[master[b]]] /\ package'[n].base # base[b].id
    BY <1>4, <1>7, <1>9, <2>1 DEF Right
  <2>5. QED
    BY <1>2, <1>5, <1>9, <2>2, <2>3, <2>4 DEF Right, refs
<1>10. BasesAreRight(j)'
  BY <1>2, <1>3, <1>5, <1>9 DEF IWhole, Whole, BasesAreRight, Exists, At, refs
<1>11. KnowsRefs(j)'
  BY <1>2, <1>3 DEF IWhole, Whole, KnowsRefs, At, refs
<1>12. Written(j)'
  <2>1. ASSUME NEW m \in Package, m \in mine, m # n
        PROVE  package'[m] = Free
    <3>1. package[m].base \in {0, j.id}
      BY <1>0, <1>2, <1>3, <2>1 DEF Open
    <3>2. QED
      BY <1>0, <1>6, <2>1, <3>1 DEF FreeIsFree
  <2>2. \A m \in Package \ {n} : package'[m].base # j.id
    BY <1>3, <1>6, FreeType
  <2>3. mine \ j.todo = {n}
    BY <1>4
  <2>4. QED
    BY <1>4, <1>7, <2>1, <2>2, <2>3 DEF Written
<1>13. KnowsPackages(j)'
  BY <1>2, <1>3, <1>4, <1>5, <1>12 DEF KnowsPackages
<1>14. QED
  BY <1>1, <1>8, <1>10, <1>11, <1>13, WholeNext DEF Whole

LEMMA SaveNextWhole ==
  ASSUME IType, NEW s \in Session, IWhole(s), SaveNext(s)
  PROVE  IWhole(s)'
<1>0. BasesType /\ PackagesType /\ FreeIsFree
  BY DEF IType, IWhole
<1>1. PICK j \in JobRow : job'[s] = j
  BY SaveNextType DEF IType, JobsType
<1> DEFINE mine == PackagesIn[SrcInfo[j.new]]
<1>2. /\ At(s, "rest") /\ UNCHANGED <<base, refs>>
      /\ j.base = job[s].base /\ j.restore = job[s].restore
      /\ j.old = job[s].old /\ j.new = job[s].new
      /\ j.pc = "rest" /\ j.id = job[s].id
  BY <1>1 DEF SaveNext, At, IType, JobsType, JobRow
<1>3. j.base \in Base /\ base[j.base].id = j.id /\ j.id # 0 /\ Exists(j.base)
  BY <1>2 DEF SaveNext, JobRow, Exists, IWhole, Whole, KnowsPackages, At
<1>4. PICK n \in job[s].todo :
        /\ package[n] = Free
        /\ package' = [package EXCEPT ![n] = [base |-> j.id, info |-> SrcInfo[j.new]]]
        /\ j.todo = job[s].todo \ {n}
  <2>1. PICK n \in job[s].todo :
          /\ package[n] = Free
          /\ package' = [package EXCEPT ![n] = [base |-> job[s].id, info |-> SrcInfo[job[s].new]]]
          /\ job' = [job EXCEPT ![s] = [job[s] EXCEPT !.todo = job[s].todo \ {n}]]
    BY DEF SaveNext, IType, JobsType
  <2>2. j.todo = job[s].todo \ {n}
    BY <1>1, <2>1 DEF IType, JobsType, JobRow
  <2>3. QED
    BY <1>2, <2>1, <2>2
<1>5. Written(job[s]) /\ job[s].todo \subseteq mine /\ job[s].todo \subseteq Package
  BY <1>2, <1>3 DEF IWhole, Whole, KnowsPackages, At, IType, JobsType, JobRow
<1>6. /\ n \in Package /\ package'[n] = [base |-> j.id, info |-> SrcInfo[j.new]]
      /\ \A m \in Package \ {n} : package'[m] = package[m]
  BY <1>0, <1>4, <1>5 DEF PackagesType
<1>7. FreeIsFree'
  BY <1>0, <1>3, <1>6 DEF FreeIsFree
<1>8. ASSUME NEW b \in Base \ {j.base}, Exists(b), Right(b, master[b])
      PROVE  Right(b, master[b])'
  <2>1. base[b].id # j.id /\ base[b].id # 0
    BY <1>0, <1>3, <1>8 DEF BasesType, Exists
  <2>2. n \notin PackagesIn[SrcInfo[master[b]]]
    BY <1>4, <1>6, <1>8, <2>1, FreeType DEF Right
  <2>3. QED
    BY <1>2, <1>6, <1>8, <2>1, <2>2 DEF Right, refs
<1>9. BasesAreRight(j)'
  BY <1>2, <1>3, <1>8 DEF IWhole, Whole, BasesAreRight, Exists, At, refs
<1>10. KnowsRefs(j)'
  BY <1>2, <1>3 DEF IWhole, Whole, KnowsRefs, At, refs
<1>11. Written(j)'
  BY <1>2, <1>4, <1>5, <1>6 DEF Written
<1>12. KnowsPackages(j)'
  BY <1>2, <1>3, <1>4, <1>5, <1>11 DEF KnowsPackages
<1>13. QED
  BY <1>1, <1>7, <1>9, <1>10, <1>12, WholeNext DEF Whole

LEMMA SaveLastWhole ==
  ASSUME IType, NEW s \in Session, IWhole(s), SaveLast(s)
  PROVE  IWhole(s)'
<1>0. BasesType
  BY DEF IType
<1>1. PICK j \in JobRow : job'[s] = j /\ j = [job[s] EXCEPT !.pc = "refs"]
  BY DEF SaveLast, Goto, IType, JobsType, JobRow
<1>2. /\ At(s, "rest") /\ UNCHANGED <<package, refs>> /\ job[s].todo = {}
      /\ j.base = job[s].base /\ j.restore = job[s].restore
      /\ j.old = job[s].old /\ j.new = job[s].new
      /\ j.pc = "refs" /\ j.id = job[s].id
  BY <1>1 DEF SaveLast, IType, JobsType, JobRow
<1>3. j.base \in Base /\ base[j.base].id = j.id /\ j.id # 0 /\ Exists(j.base)
  BY <1>2 DEF SaveLast, JobRow, Exists, IWhole, Whole, KnowsPackages, At
<1>4. \A b \in Base : base'[b].id = base[b].id
  BY <1>0, <1>2, <1>3 DEF SaveLast, BasesType, BaseRow
<1>5. FreeIsFree /\ BasesAreRight(j) /\ KnowsRefs(j)
  BY <1>2 DEF IWhole, Whole, BasesAreRight, KnowsRefs, At
<1>6. Written(job[s])
  BY <1>2, <1>3 DEF IWhole, Whole, KnowsPackages, At
<1>7. Right(j.base, j.new)
  BY <1>2, <1>3, <1>6 DEF Written, Right
<1>8. KnowsPackages(j)
  BY <1>2, <1>3, <1>7 DEF KnowsPackages
<1>9. FreeIsFree' /\ Whole(j)'
  BY <1>1, <1>2, <1>3, <1>4, <1>5, <1>8, WholeKept DEF Whole
<1>10. QED
  BY <1>1, <1>9, WholeNext

\* "restore" ends where the branch was, and so at master.
LEMMA UpdateBranchWhole ==
  ASSUME IType, NEW s \in Session, IWhole(s), UpdateBranch(s)
  PROVE  IWhole(s)'
<1> DEFINE b == job[s].base
<1>1. /\ At(s, "refs") /\ UNCHANGED <<base, package, master>> /\ b \in Base
      /\ branch' = [branch EXCEPT ![b] = job[s].new]
      /\ branch \in [Base -> Commit \cup {NoCommit}]
  BY DEF UpdateBranch, IType, JobsType, JobRow, RefsType
<1>2. /\ Exists(b) => Right(b, job[s].new)
      /\ job[s].restore => job[s].new = branch[b]
      /\ ~job[s].restore => job[s].old = master[b]
      /\ \A a \in Base : branch[a] = master[a]
      /\ \A a \in Base \ {b} : Exists(a) => Right(a, master[a])
  BY <1>1 DEF At, IWhole, Whole, BasesAreRight, KnowsRefs, KnowsPackages
<1>3. \A a \in Base : \A c : Exists(a)' = Exists(a) /\ (Right(a, c) <=> Right(a, c)')
  BY <1>1 DEF Exists, Right
<1>4. FreeIsFree'
  BY <1>1 DEF IWhole, FreeIsFree
<1>5. CASE job[s].restore
  <2>1. PICK j : j = IdleJob /\ job'[s] = j /\ j.pc = "idle"
    BY <1>5, IdleJobType DEF UpdateBranch, End, IType, JobsType
  <2>2. BasesAreRight(j)'
    BY <1>1, <1>2, <1>3, <1>5 DEF BasesAreRight
  <2>3. KnowsRefs(j)' /\ KnowsPackages(j)'
    BY <2>1 DEF KnowsRefs, KnowsPackages
  <2>4. QED
    BY <1>4, <2>1, <2>2, <2>3, WholeNext DEF Whole
<1>6. CASE ~job[s].restore
  <2>1. PICK j \in JobRow : job'[s] = j /\ j = [job[s] EXCEPT !.pc = "git"]
    BY <1>6 DEF UpdateBranch, Goto, IType, JobsType, JobRow
  <2>2. /\ j.base = b /\ j.restore = job[s].restore /\ j.id = job[s].id
        /\ j.old = job[s].old /\ j.new = job[s].new /\ j.pc = "git"
    BY <2>1 DEF IType, JobsType, JobRow
  <2>3. BasesAreRight(j)'
    BY <1>1, <1>2, <1>3, <2>2 DEF BasesAreRight
  <2>4. KnowsRefs(j)'
    BY <1>1, <1>2, <1>6, <2>2 DEF KnowsRefs
  <2>5. KnowsPackages(j)'
    BY <1>1, <1>2, <1>3, <2>2 DEF IWhole, Whole, KnowsPackages, At
  <2>6. QED
    BY <1>4, <2>1, <2>3, <2>4, <2>5, WholeNext DEF Whole
<1>7. QED
  BY <1>5, <1>6

LEMMA UpdateMasterWhole ==
  ASSUME IType, NEW s \in Session, IWhole(s), UpdateMaster(s)
  PROVE  IWhole(s)'
<1> DEFINE b == job[s].base
<1>1. /\ At(s, "git") /\ UNCHANGED <<base, package, branch>> /\ b \in Base
      /\ master \in [Base -> Commit \cup {NoCommit}]
  BY DEF UpdateMaster, IType, JobsType, JobRow, RefsType
<1>2. /\ Exists(b) => Right(b, job[s].new)
      /\ job[s].old = master[b] /\ branch[b] = job[s].new
      /\ \A a \in Base \ {b} : branch[a] = master[a] /\ (Exists(a) => Right(a, master[a]))
  BY <1>1 DEF At, IWhole, Whole, BasesAreRight, KnowsRefs, KnowsPackages
<1>3. master' = [master EXCEPT ![b] = job[s].new]
  BY <1>2 DEF UpdateMaster
<1>4. \A a \in Base : \A c : Exists(a)' = Exists(a) /\ (Right(a, c) <=> Right(a, c)')
  BY <1>1 DEF Exists, Right
<1>5. FreeIsFree'
  BY <1>1 DEF IWhole, FreeIsFree
<1>6. PICK j : j = IdleJob /\ job'[s] = j /\ j.pc = "idle"
  BY IdleJobType DEF UpdateMaster, End, IType, JobsType
<1>7. BasesAreRight(j)'
  BY <1>1, <1>2, <1>3, <1>4 DEF BasesAreRight
<1>8. KnowsRefs(j)' /\ KnowsPackages(j)'
  BY <1>6 DEF KnowsRefs, KnowsPackages
<1>9. QED
  BY <1>5, <1>6, <1>7, <1>8, WholeNext DEF Whole

\* A base that is deleted takes its packages along; the others keep theirs.
LEMMA DeleteWhole ==
  ASSUME IType, NEW s \in Session, IWhole(s), NEW b \in Base, Delete(b)
  PROVE  IWhole(s)'
<1>0. BasesType /\ PackagesType /\ FreeIsFree /\ Whole(job[s])
  BY DEF IType, IWhole
<1>1. PICK j \in JobRow : job[s] = j /\ job'[s] = j
  BY DEF Delete, IType, JobsType
<1>2. /\ UNCHANGED refs /\ Exists(b)
      /\ base'[b].id = 0 /\ \A a \in Base \ {b} : base'[a] = base[a]
      /\ \A n \in Package : package'[n] = IF package[n].base = base[b].id THEN Free ELSE package[n]
  BY <1>0, AbsentType DEF Delete, BasesType, PackagesOf
<1>3. master' = master /\ branch' = branch /\ j.base \in Base
  BY <1>2 DEF refs, JobRow
<1>4. FreeIsFree'
  BY <1>0, <1>2 DEF FreeIsFree
<1>5. \A a \in Base : Exists(a)' => a # b /\ Exists(a) /\ base[a].id # base[b].id
  BY <1>0, <1>2 DEF BasesType, Exists
<1>6. ASSUME NEW a \in Base, Exists(a)', NEW c, Right(a, c)
      PROVE  Right(a, c)'
  BY <1>2, <1>5, <1>6, FreeType DEF Right, Exists
<1>7. BasesAreRight(j)'
  BY <1>0, <1>1, <1>3, <1>5, <1>6 DEF Whole, BasesAreRight
<1>8. KnowsRefs(j)'
  BY <1>0, <1>1, <1>3 DEF Whole, KnowsRefs
<1>9. ASSUME Open(j), j.pc \in {"create", "save"}
      PROVE  Open(j)'
  <2>1. ASSUME NEW n \in PackagesIn[SrcInfo[j.new]]
        PROVE  package'[n].base \in {0, base'[j.base].id}
    <3>1. n \in Package
      BY <1>1, <1>9, CommitsAssumption DEF IType, JobsType, SessionType
    <3>2. package[n].base \in {0, base[j.base].id}
      BY <1>9 DEF Open
    <3>3. package'[n].base \in {0, package[n].base}
      BY <1>2, <3>1, FreeType
    <3>4. package'[n].base # base[b].id
      BY <1>2, <3>1, FreeType DEF Exists
    <3>5. QED
      BY <1>2, <1>3, <3>2, <3>3, <3>4
  <2>2. QED
    BY <2>1 DEF Open
<1>10. ASSUME Written(j), Exists(j.base)', base[j.base].id = j.id
       PROVE  Written(j)'
  <2>1. j.id # base[b].id /\ j.id # 0
    BY <1>3, <1>5, <1>10 DEF Exists
  <2>2. \A n \in Package : package[n].base = j.id => package'[n] = package[n]
    BY <1>2, <2>1
  <2>3. \A n \in Package : package[n].base # j.id => package'[n].base # j.id
    BY <1>2, <2>1, FreeType
  <2>4. \A n \in Package : package[n] = Free => package'[n] = Free
    BY <1>2
  <2>5. QED
    BY <1>10, <2>2, <2>3, <2>4 DEF Written
<1>11. base'[j.base].id \in {0, base[j.base].id}
  BY <1>2, <1>3
<1>12. KnowsPackages(j)'
  <2>1. j.pc = "create" => ~Exists(j.base)' /\ j.id = 0
    BY <1>0, <1>1, <1>3, <1>5 DEF Whole, KnowsPackages
  <2>2. j.pc \in {"create", "save"} => Open(j)'
    BY <1>0, <1>1, <1>9 DEF Whole, KnowsPackages
  <2>3. /\ j.pc \in {"rest", "refs", "git"} => j.id # 0
        /\ j.pc \in {"save", "rest", "refs", "git"} /\ j.id # 0 => base[j.base].id \in {0, j.id}
        /\ j.pc = "rest" => j.todo \subseteq PackagesIn[SrcInfo[j.new]]
    BY <1>0, <1>1 DEF Whole, KnowsPackages
  <2>4. j.pc = "rest" /\ Exists(j.base)' => Written(j)'
    BY <1>0, <1>1, <1>3, <1>5, <1>10, <2>3 DEF Whole, KnowsPackages, Exists
  <2>5. j.pc \in {"refs", "git"} /\ Exists(j.base)' => Right(j.base, j.new)'
    BY <1>0, <1>1, <1>3, <1>5, <1>6 DEF Whole, KnowsPackages
  <2>6. QED
    BY <1>11, <2>1, <2>2, <2>3, <2>4, <2>5 DEF KnowsPackages
<1>13. QED
  BY <1>1, <1>4, <1>7, <1>8, <1>12, WholeNext DEF Whole

LEMMA OwnerWhole ==
  ASSUME IType, NEW s \in Session, IWhole(s), NEW b \in Base, Disown(b) \/ Adopt(b)
  PROVE  IWhole(s)'
<1>1. PICK j \in JobRow : job[s] = j /\ job'[s] = j
  BY DEF Disown, Adopt, IType, JobsType
<1>2. UNCHANGED <<package, refs>> /\ \A a \in Base : base'[a].id = base[a].id
  <2>1. CASE Disown(b)
    <3>1. PICK u : base' = [base EXCEPT ![b].maintainer = u, ![b].comaintainers = @ \ {u}]
      BY <2>1 DEF Disown
    <3> DEFINE row == [base[b] EXCEPT !.maintainer = u, !.comaintainers = @ \ {u}]
    <3>2. row.id = base[b].id
      BY DEF IType, BasesType, BaseRow
    <3>3. base' = [base EXCEPT ![b] = row]
      BY <3>1 DEF IType, BasesType
    <3> HIDE DEF row
    <3>4. QED
      BY <2>1, <3>2, <3>3 DEF Disown, IType, BasesType
  <2>2. CASE Adopt(b)
    BY <2>2 DEF Adopt, IType, BasesType, BaseRow
  <2>3. QED
    BY <2>1, <2>2
<1>3. FreeIsFree' /\ Whole(j)'
  BY <1>1, <1>2, WholeKept DEF IWhole, Whole, JobRow
<1>4. QED
  BY <1>1, <1>3, WholeNext

LEMMA StepWhole ==
  ASSUME NEW s, Session = {s}, "crash" \notin Faults, IType, IWhole(s), [Next]_vars
  PROVE  IWhole(s)'
<1>1. CASE UNCHANGED vars
  BY <1>1 DEF vars, refs, IWhole, FreeIsFree, Whole, BasesAreRight, KnowsRefs, KnowsPackages,
              Open, Written, Right, Exists
<1>2. ASSUME NEW r \in Session,
             \/ ServePush(r) \/ ServeRestore(r) \/ Refuse(r) \/ Check(r)
             \/ Create(r) \/ NameIsTaken(r)
             \/ SaveFirst(r) \/ SaveNext(r) \/ SaveFails(r) \/ SaveLast(r)
             \/ UpdateBranch(r) \/ UpdateMaster(r)
      PROVE  IWhole(s)'
  <2>1. r = s
    OBVIOUS
  <2>2. QED
    BY <1>2, <2>1, ServeWhole, EndingWhole, CheckWhole, CreateWhole, SaveFirstWhole,
       SaveNextWhole, SaveLastWhole, UpdateBranchWhole, UpdateMasterWhole
<1>3. ASSUME NEW b \in Base, Delete(b) \/ Disown(b) \/ Adopt(b)
      PROVE  IWhole(s)'
  BY <1>3, DeleteWhole, OwnerWhole
<1>4. \A r \in Session : ~Crash(r)
  BY DEF Crash
<1>5. QED
  BY <1>1, <1>2, <1>3, <1>4 DEF Next, Step

\* Where sessions follow each other and none dies half-way, between pushes the
\* packages of a base, its branch and master show the same commit, although
\* bases may be deleted, disowned and adopted at any time during a push
\* (save_metadata, the last lines of main and git receive-pack).
THEOREM PushesAreWhole ==
  ASSUME NEW s, Session = {s}, "crash" \notin Faults
  PROVE  Spec => []DatabaseMatchesMaster
<1>1. Init => IType /\ IWhole(s)
  BY InitType, InitWhole
<1>2. IType /\ IWhole(s) /\ [Next]_vars => IType' /\ IWhole(s)'
  BY StepType, StepWhole
<1>3. IWhole(s) => DatabaseMatchesMaster
  BY IdleJobType DEF IWhole, Whole, BasesAreRight, DatabaseMatchesMaster, Right, At
<1>4. QED
  BY <1>1, <1>2, <1>3, PTL DEF Spec

-----------------------------------------------------------------------------
(* Who writes.  git-serve looks once; while sessions follow each other and *)
(* no web worker changes the owners of a base, that stays true.            *)

StillAllowed(j) ==
    /\ j.pc \in {"hook", "save"} /\ Exists(j.base) => MayWrite(j.user, j.base)
    /\ j.pc = "create" => ~Exists(j.base)

\* The owners of every base that is still there are the ones it had.
SameOwners == \A b \in Base : base'[b].id # 0 =>
    /\ base[b].id # 0
    /\ base'[b].maintainer = base[b].maintainer
    /\ base'[b].comaintainers = base[b].comaintainers

LEMMA AllowedKept ==
  ASSUME NEW s \in Session, NEW j, j.base \in Base, job'[s] = j, StillAllowed(j), SameOwners
  PROVE  StillAllowed(job[s])'
BY DEF StillAllowed, SameOwners, MayWrite, Exists

LEMMA SessionAllowed ==
  ASSUME NEW s \in Session, IType, StillAllowed(job[s]),
         \/ ServePush(s) \/ ServeRestore(s) \/ Refuse(s) \/ Check(s)
         \/ Create(s) \/ NameIsTaken(s)
         \/ SaveFirst(s) \/ SaveNext(s) \/ SaveFails(s) \/ SaveLast(s)
         \/ UpdateBranch(s) \/ UpdateMaster(s) \/ Crash(s)
  PROVE  StillAllowed(job[s])'
<1>1. CASE ServePush(s)
  <2>1. PICK u \in User, b \in Base, c \in Commit, overwrite \in BOOLEAN :
          /\ At(s, "idle") /\ CanConnect(u)
          /\ Exists(b) => MayWrite(u, b)
          /\ c # master[b]
          /\ job' = [job EXCEPT ![s] =
               [IdleJob EXCEPT !.pc = "hook", !.user = u, !.base = b, !.overwrite = overwrite,
                               !.old = master[b], !.new = c]]
          /\ UNCHANGED <<base, package, nextId, refs>>
    BY <1>1, Zenon DEF ServePush
  <2>2. job'[s].pc = "hook" /\ job'[s].user = u /\ job'[s].base = b
    BY <2>1 DEF IType, JobsType, IdleJob
  <2>3. QED
    BY <2>1, <2>2 DEF StillAllowed, MayWrite, Exists
<1>2. CASE ServeRestore(s)
  <2>1. PICK u \in User, b \in Base :
          /\ At(s, "idle") /\ CanConnect(u)
          /\ ~ Exists(b)
          /\ job' = [job EXCEPT ![s] =
               [IdleJob EXCEPT !.pc = "hook", !.user = u, !.base = b, !.restore = TRUE]]
          /\ UNCHANGED <<base, package, nextId, refs>>
    BY <1>2, Zenon DEF ServeRestore
  <2>2. job'[s].pc = "hook" /\ job'[s].base = b
    BY <2>1 DEF IType, JobsType, IdleJob
  <2>3. QED
    BY <2>1, <2>2 DEF StillAllowed, Exists
<1>3. CASE Check(s)
  <2>1. /\ base' = base /\ job[s].pc = "hook"
        /\ job'[s].user = job[s].user /\ job'[s].base = job[s].base
        /\ job'[s].pc = IF Exists(job[s].base) THEN "save" ELSE "create"
    BY <1>3 DEF Check, At, IType, JobsType, JobRow
  <2>2. QED
    BY <2>1 DEF StillAllowed, MayWrite, Exists
<1>4. CASE Create(s)
  <2>1. PICK b \in Base, u \in User : b = job[s].base /\ u = job[s].user
    BY <1>4 DEF Create, At, IType, JobsType, SessionType, JobRow
  <2>2. base'[b].maintainer = u /\ job'[s].user = u /\ job'[s].base = b /\ job'[s].pc = "save"
    BY <1>4, <2>1 DEF Create, Goto, Absent, IType, JobsType, BasesType, JobRow
  <2>3. QED
    BY <2>2 DEF StillAllowed, MayWrite
<1>5. CASE SaveFirst(s)
  <2>1. PICK todo : job' = [job EXCEPT ![s] =
                              [job[s] EXCEPT !.pc = "rest", !.id = SavedId(s), !.todo = todo]]
    BY <1>5 DEF SaveFirst, IType, JobsType
  <2> DEFINE j == [job[s] EXCEPT !.pc = "rest", !.id = SavedId(s), !.todo = todo]
  <2>2. j.pc = "rest"
    BY DEF IType, JobsType, JobRow
  <2> HIDE DEF j
  <2>3. job'[s].pc = "rest"
    BY <2>1, <2>2 DEF j, IType, JobsType
  <2>4. QED
    BY <2>3 DEF StillAllowed
<1>6. CASE SaveNext(s)
  <2>1. job'[s].pc = "rest"
    BY <1>6 DEF SaveNext, At, IType, JobsType, JobRow
  <2>2. QED
    BY <2>1 DEF StillAllowed
<1>7. CASE SaveLast(s) \/ UpdateBranch(s) \/ UpdateMaster(s)
             \/ Refuse(s) \/ NameIsTaken(s) \/ SaveFails(s) \/ Crash(s)
  <2>1. job'[s].pc \in {"refs", "git", "idle"}
    BY <1>7, IdleJobType
       DEF SaveLast, UpdateBranch, UpdateMaster, Refuse, NameIsTaken, SaveFails, Crash,
           End, Goto, IType, JobsType, JobRow
  <2>2. QED
    BY <2>1 DEF StillAllowed
<1>8. QED
  BY <1>1, <1>2, <1>3, <1>4, <1>5, <1>6, <1>7

LEMMA StepAllowed ==
  ASSUME NEW s, Session = {s}, {"disown", "adopt"} \cap WebOps = {},
         IType, StillAllowed(job[s]), [Next]_vars
  PROVE  StillAllowed(job[s])'
<1>1. CASE UNCHANGED vars
  BY <1>1 DEF vars, StillAllowed, MayWrite, Exists
<1>2. ASSUME NEW b \in Base, Delete(b) \/ Disown(b) \/ Adopt(b)
      PROVE  StillAllowed(job[s])'
  <2>1. Delete(b)
    BY <1>2 DEF Disown, Adopt
  <2>2. SameOwners
    BY <2>1, AbsentType DEF Delete, SameOwners, IType, BasesType
  <2>3. PICK j \in JobRow : job[s] = j /\ job'[s] = j
    BY <2>1 DEF Delete, IType, JobsType
  <2>4. QED
    BY <2>2, <2>3, AllowedKept DEF JobRow
<1>3. ASSUME NEW r \in Session,
             \/ ServePush(r) \/ ServeRestore(r) \/ Refuse(r) \/ Check(r)
             \/ Create(r) \/ NameIsTaken(r)
             \/ SaveFirst(r) \/ SaveNext(r) \/ SaveFails(r) \/ SaveLast(r)
             \/ UpdateBranch(r) \/ UpdateMaster(r) \/ Crash(r)
      PROVE  StillAllowed(job[s])'
  <2>1. r = s
    OBVIOUS
  <2>2. QED
    BY <1>3, <2>1, SessionAllowed
<1>4. QED
  BY <1>1, <1>2, <1>3 DEF Next, Step

LEMMA SaveIsAuthorised ==
  ASSUME NEW s, Session = {s}, IType, StillAllowed(job[s]), [Next]_vars
  PROVE  StepIsAuthorised
<1> SUFFICES ASSUME job[s].pc = "save", package' # package, job'[s] # job[s]
             PROVE  MayWrite(job[s].user, job[s].base)
  BY DEF StepIsAuthorised, At, MayWrite
<1>1. SaveFirst(s)
  BY DEF Next, Step, vars, ServePush, ServeRestore, Refuse, Check, Create, NameIsTaken, SaveNext,
         SaveFails, SaveLast, UpdateBranch, UpdateMaster, Crash, Delete, Disown, Adopt, At
<1>2. Exists(job[s].base)
  BY <1>1 DEF SaveFirst, Exists
<1>3. QED
  BY <1>2 DEF StillAllowed

\* Where sessions follow each other and web workers at most delete bases, the
\* packages of a base are replaced only by someone who may write to it at that
\* time, although git-serve has looked at the beginning of the session, before
\* the base may have been deleted and another one created (git-serve, main and
\* save_metadata).
THEOREM SavesAreAuthorised ==
  ASSUME NEW s, Session = {s}, {"disown", "adopt"} \cap WebOps = {}
  PROVE  Spec => [][StepIsAuthorised]_vars
<1>1. Init => IType /\ StillAllowed(job[s])
  BY InitType, IdleJobType DEF Init, StillAllowed
<1>2. IType /\ StillAllowed(job[s]) /\ [Next]_vars => IType' /\ StillAllowed(job[s])'
  BY StepType, StepAllowed
<1>3. IType /\ StillAllowed(job[s]) /\ [Next]_vars => [StepIsAuthorised]_vars
  BY SaveIsAuthorised
<1>4. QED
  BY <1>1, <1>2, <1>3, PTL DEF Spec
-----------------------------------------------------------------------------
(* However many sessions work, and whatever web workers do: only a session *)
(* that has lost its base is at work without access.                       *)

IWriters == \A s \in Session : ~ At(s, "idle") => MayPush(s) \/ s \in overtaken

\* Only git-serve gives a session work.
LEMMA ServedFirst ==
  ASSUME IType, Step, NEW s \in Session, At(s, "idle"), job'[s] # job[s]
  PROVE  ServePush(s) \/ ServeRestore(s)
<1>1. ASSUME NEW b \in Base, Delete(b) \/ Disown(b) \/ Adopt(b)
      PROVE  FALSE
  BY <1>1 DEF Delete, Disown, Adopt
<1>2. ASSUME NEW r \in Session,
             \/ ServePush(r) \/ ServeRestore(r) \/ Refuse(r) \/ Check(r)
             \/ Create(r) \/ NameIsTaken(r)
             \/ SaveFirst(r) \/ SaveNext(r) \/ SaveFails(r) \/ SaveLast(r)
             \/ UpdateBranch(r) \/ UpdateMaster(r) \/ Crash(r)
      PROVE  r = s
  <2> SUFFICES ASSUME r # s PROVE job'[s] = job[s]
    OBVIOUS
  <2> USE DEF IType, JobsType
  <2>1. CASE ServePush(r) \/ ServeRestore(r)
    BY <2>1 DEF ServePush, ServeRestore
  <2>2. CASE Check(r) \/ SaveFirst(r) \/ SaveNext(r)
    BY <2>2 DEF Check, SaveFirst, SaveNext
  <2>3. CASE Create(r) \/ SaveLast(r) \/ UpdateBranch(r)
    BY <2>3 DEF Create, SaveLast, UpdateBranch, Goto, End
  <2>4. CASE Refuse(r) \/ NameIsTaken(r) \/ SaveFails(r) \/ UpdateMaster(r) \/ Crash(r)
    BY <2>4 DEF Refuse, NameIsTaken, SaveFails, UpdateMaster, Crash, End
  <2>5. QED
    BY <1>2, <2>1, <2>2, <2>3, <2>4
<1>3. ~ (\/ Refuse(s) \/ Check(s) \/ Create(s) \/ NameIsTaken(s) \/ SaveFirst(s) \/ SaveNext(s)
         \/ SaveFails(s) \/ SaveLast(s) \/ UpdateBranch(s) \/ UpdateMaster(s) \/ Crash(s))
  BY DEF Refuse, Check, Create, NameIsTaken, SaveFirst, SaveNext, SaveFails, SaveLast,
         UpdateBranch, UpdateMaster, Crash, At
<1>4. QED
  BY <1>1, <1>2, <1>3 DEF Step

\* git-serve gives it to who may write, or for a free name.
LEMMA ServedMayPush ==
  ASSUME IType, NEW s \in Session, ServePush(s) \/ ServeRestore(s)
  PROVE  MayPush(s)' /\ UNCHANGED <<base, package, refs>>
<1>1. CASE ServePush(s)
  <2>1. PICK u \in User, b \in Base, c \in Commit, overwrite \in BOOLEAN :
          /\ At(s, "idle") /\ CanConnect(u)
          /\ Exists(b) => MayWrite(u, b)
          /\ c # master[b]
          /\ job' = [job EXCEPT ![s] =
               [IdleJob EXCEPT !.pc = "hook", !.user = u, !.base = b, !.overwrite = overwrite,
                               !.old = master[b], !.new = c]]
          /\ UNCHANGED <<base, package, nextId, refs>>
    BY <1>1, Zenon DEF ServePush
  <2>2. job'[s].user = u /\ job'[s].base = b
    BY <2>1 DEF IType, JobsType, IdleJob
  <2>3. QED
    BY <2>1, <2>2 DEF MayPush, MayWrite, Exists
<1>2. CASE ServeRestore(s)
  <2>1. PICK u \in User, b \in Base :
          /\ At(s, "idle") /\ CanConnect(u)
          /\ ~ Exists(b)
          /\ job' = [job EXCEPT ![s] =
               [IdleJob EXCEPT !.pc = "hook", !.user = u, !.base = b, !.restore = TRUE]]
          /\ UNCHANGED <<base, package, nextId, refs>>
    BY <1>2, Zenon DEF ServeRestore
  <2>2. job'[s].base = b
    BY <2>1 DEF IType, JobsType, IdleJob
  <2>3. QED
    BY <2>1, <2>2 DEF MayPush, Exists
<1>3. QED
  BY <1>1, <1>2

LEMMA StepWriters == IType /\ IWriters /\ [Next]_vars => IWriters'
<1> SUFFICES ASSUME IType, IWriters, [Next]_vars PROVE IWriters'
  OBVIOUS
<1>1. CASE UNCHANGED vars
  BY <1>1 DEF vars, IWriters, At, MayPush, MayWrite, Exists
<1>2. ASSUME Next, NEW s \in Session, ~ At(s, "idle")'
      PROVE  MayPush(s)' \/ s \in overtaken'
  <2>1. CASE At(s, "idle")
    <3>1. job'[s] # job[s]
      BY <1>2, <2>1 DEF At
    <3>2. QED
      BY <1>2, <2>1, <3>1, ServedFirst, ServedMayPush DEF Next
  <2>2. CASE ~ At(s, "idle")
    <3>1. MayPush(s) \/ s \in overtaken
      BY <2>2 DEF IWriters
    <3>2. QED
      BY <1>2, <2>2, <3>1 DEF Next, Overtake
  <2>3. QED
    BY <2>1, <2>2
<1>3. QED
  BY <1>1, <1>2 DEF IWriters

\* Whatever sessions race and die, and web workers create, disown or adopt: a
\* session writes to the tables and refs of a base only if its user may write
\* to it then, or has lost it in the middle of that very session, which
\* git-serve had looked at before.
THEOREM WritersWrite == Spec => OnlyWritersWrite
<1> DEFINE A == \A s \in Session :
             job'[s] # job[s] /\ <<base, package, refs>>' # <<base, package, refs>>
               => MayPush(s) \/ s \in overtaken
<1>1. Init => IType /\ IWriters
  BY InitType, IdleJobType DEF Init, IWriters, At
<1>2. IType /\ IWriters /\ [Next]_vars => IType' /\ IWriters'
  BY StepType, StepWriters
<1>3. IType /\ IWriters /\ [Next]_vars => [A]_vars
  <2> SUFFICES ASSUME IType, IWriters, Next, NEW s \in Session, job'[s] # job[s],
                      ~ UNCHANGED <<base, package, refs>>
               PROVE  ~ At(s, "idle")
    BY DEF IWriters
  <2>1. QED
    BY ServedFirst, ServedMayPush DEF Next
<1>4. [A]_vars <=> [\A s \in Session :
             job'[s] # job[s] /\ <<base, package, refs>>' # <<base, package, refs>>
               => MayPush(s) \/ s \in overtaken]_vars
  OBVIOUS
<1> HIDE DEF A
<1>5. QED
  BY <1>1, <1>2, <1>3, <1>4, PTL DEF Spec, OnlyWritersWrite
=============================================================================

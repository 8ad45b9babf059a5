--------------------------- MODULE AccountsProofs ---------------------------
(***************************************************************************)
(* Who ranks how high, who lifts a suspension, and which sessions there    *)
(* are: theorems about Accounts, for any sets of users, passwords,         *)
(* browsers and workers.                                                   *)
(*                                                                         *)
(* account_edit_post validates a form once and carries it out in six       *)
(* transactions, so that each proof says what of the validation still      *)
(* holds in the transaction that needs it.  With any number of workers     *)
(* that is the ranks (RanksAreBounded) and the permission to suspend       *)
(* (FormsAreChecked); that the account is still as it was read, which      *)
(* retries and sessions need, takes a single worker (LoadedIsCurrent,      *)
(* JobSettles).                                                            *)
(*                                                                         *)
(* The second half is about Addresses, whose Users and handlers have other *)
(* columns: they are called users and task here.                           *)
(***************************************************************************)
EXTENDS Accounts, Integers, TLAPS

CONSTANTS NoUser, Address, NoAddress, Normal, Null, MaxToken
VARIABLES users, nextToken, mailed, task, original, mintedFor

Addr == INSTANCE Addresses WITH row <- users, job <- task

USE StaffAssumption, MaxSidAssumption, NoPassAssumption, NobodyAssumption

\* Only one handler of the website is at work at a time.
OneWorker == \E w : Worker = {w}

-----------------------------------------------------------------------------
(* The invariants. *)

\* TypeOK, with what keeps SIDs different and a running handler at work on an
\* account: a SID is given out once.
IType ==
    /\ TypeOK
    /\ \A u \in User : session[u].sid < nextSid
    /\ \A w \in Worker : ~Idle(w) => job[w].user \in User

\* Nothing is done to an account before it is registered.
IKnown ==
    /\ GoneHasNoSession
    /\ \A u \in User : here[u] = "new" => ~acc[u].suspended
    /\ \A w \in Worker : ~Idle(w) => here[job[w].user] # "new"

TopRank == IF Staff = {} THEN 1 ELSE 2

RanksAreBounded ==
    /\ \A u \in User : acc[u].type <= TopRank
    /\ \A w \in Worker : job[w].T <= TopRank

\* A form that changes Suspended is an elevated user's; it is compared with
\* what was loaded, which a retry is not.
FormsAreChecked ==
    \A w \in Worker :
        At(w, "editSimple") /\ job[w].S # job[w].loaded => IsElevated(job[w].rank)

LoadedIsCurrent ==
    \A w \in Worker :
        At(w, "editSimple") => acc[job[w].user].suspended = job[w].loaded

NothingIsRetried == \A w \in Worker : ~job[w].retried

ILifted ==
    /\ FormsAreChecked
    /\ NothingIsRetried \/ LoadedIsCurrent

\* Whoever has a session of u knows the password.
Knows(u) ==
    session[u].sid # 0 => opened[u] \in {acc[u].passwd, NoPass} \/ u \in kept

Settled(u) ==
    /\ acc[u].suspended => session[u].sid = 0
    /\ Knows(u)

Settling(j, u) ==
    /\ j.pc \in {"expire", "logout", "sso", "resetIssue", "resetCommit", "delete",
                 "loginRetry", "loginCommit", "loginReturn", "editSimple"} => Settled(u)
    /\ j.pc \in {"sso", "loginRetry", "loginCommit", "loginReturn"} => ~acc[u].suspended
    /\ j.pc = "loginCommit" => acc[u].passwd = j.pass
    /\ j.pc = "editSimple" => acc[u].suspended = j.loaded
    /\ j.pc \in {"editType", "editPassword", "editLogin", "editSuspend", "editEnd"}
         => acc[u].suspended = j.S
    /\ j.pc \in {"editType", "editPassword"} => Knows(u)
    /\ j.pc = "editLogin" => acc[u].passwd = j.P /\ j.P # NoPass
    /\ j.pc = "editSuspend" => Knows(u) \/ j.S
    /\ j.pc = "editEnd" => j.S

\* The account that a handler is at work on is on its way to what holds of
\* every other one.
ISettled ==
    /\ \A u \in User : ~Busy(u) => Settled(u)
    /\ \A w \in Worker : ~Idle(w) => Settling(job[w], job[w].user)

-----------------------------------------------------------------------------
(* What the steps of a handler do to job. *)

JobsTyped ==
    /\ job \in [Worker -> Job]
    /\ \A w \in Worker : ~Idle(w) => job[w].user \in User

OthersStay(w) == \A v \in Worker \ {w} : job'[v] = job[v]

LEMMA ITypeJobs ==
    ASSUME IType
    PROVE  JobsTyped
BY DEF IType, TypeOK, JobsTyped

LEMMA IdleJobTyped ==
    IdleJob \in Job /\ IdleJob.pc = "idle" /\ IdleJob.T = 0 /\ ~IdleJob.retried
BY DEF IdleJob, Job, PC, AccountTypeID

\* Every step of a handler writes a job of its own.
LEMMA JobWritten ==
    ASSUME JobsTyped, NEW w \in Worker, NEW j \in Job, j.pc # "idle" => j.user \in User,
           job' = [job EXCEPT ![w] = j]
    PROVE  JobsTyped' /\ OthersStay(w) /\ job'[w] = j
<1>1. job' \in [Worker -> Job] /\ OthersStay(w) /\ job'[w] = j
  BY DEF JobsTyped, OthersStay
<1>2. ASSUME NEW v \in Worker, ~Idle(v)'
      PROVE  job'[v].user \in User
  BY <1>1, <1>2 DEF JobsTyped, OthersStay, Idle
<1>3. QED
  BY <1>1, <1>2 DEF JobsTyped

LEMMA EndJob ==
    ASSUME JobsTyped, NEW w \in Worker, End(w)
    PROVE  JobsTyped' /\ OthersStay(w) /\ job'[w] = IdleJob /\ Idle(w)'
BY JobWritten, IdleJobTyped DEF End, Idle

LEMMA BeginJob ==
    ASSUME IType, NEW w \in Worker, NEW pc \in PC, NEW a \in User, NEW u \in User,
           NEW b \in Browser, NEW p \in Secret \cup {NoPass}, Begin(w, pc, a, u, b, p)
    PROVE  /\ JobsTyped' /\ OthersStay(w)
           /\ job'[w].pc = pc /\ job'[w].user = u /\ job'[w].pass = p
           /\ job'[w].T = 0 /\ ~job'[w].retried
<1> DEFINE j == [IdleJob EXCEPT !.pc = pc, !.actor = a, !.rank = acc[a].type,
                                !.user = u, !.browser = b, !.pass = p]
<1>1. acc[a].type \in AccountTypeID
  BY DEF IType, TypeOK
<1>2. /\ j \in Job /\ j.pc = pc /\ j.user = u /\ j.pass = p
      /\ j.T = 0 /\ j.retried = FALSE
  BY <1>1 DEF IdleJob, Job, AccountTypeID
<1>3. job' = [job EXCEPT ![w] = j]
  BY DEF Begin
<1> HIDE DEF j
<1>4. QED
  BY <1>2, <1>3, ITypeJobs, JobWritten

\* A running handler moves on.
LEMMA GotoJob ==
    ASSUME JobsTyped, NEW w \in Worker, ~Idle(w), NEW pc \in PC, Goto(w, pc)
    PROVE  /\ JobsTyped' /\ OthersStay(w)
           /\ job'[w].pc = pc /\ job'[w].user = job[w].user /\ job'[w].pass = job[w].pass
           /\ job'[w].T = job[w].T /\ job'[w].retried = job[w].retried
           /\ job'[w].S = job[w].S
<1> DEFINE j == [job[w] EXCEPT !.pc = pc]
<1>1. job[w] \in Job /\ job[w].user \in User
  BY DEF JobsTyped, Idle
<1>2. /\ j \in Job /\ j.pc = pc /\ j.user = job[w].user /\ j.pass = job[w].pass
      /\ j.T = job[w].T /\ j.retried = job[w].retried /\ j.S = job[w].S
  BY <1>1 DEF Job
<1>3. job' = [job EXCEPT ![w] = j]
  BY DEF Goto
<1> HIDE DEF j
<1>4. QED
  BY <1>1, <1>2, <1>3, JobWritten

LEMMA EditStartJob ==
    ASSUME IType, NEW w \in Worker, NEW b \in Browser, NEW a \in User, NEW u \in User,
           NEW S \in BOOLEAN, NEW T \in AccountTypeID \cup {0},
           NEW P \in Secret \cup {NoPass}, EditStart(w, b, a, u, S, T, P)
    PROVE  /\ JobsTyped' /\ OthersStay(w)
           /\ job'[w].pc = "editSimple" /\ job'[w].user = u /\ job'[w].rank = acc[a].type
           /\ job'[w].S = S /\ job'[w].T = T /\ job'[w].loaded = acc[u].suspended
           /\ ~job'[w].retried
<1> DEFINE j == [IdleJob EXCEPT !.pc = "editSimple", !.actor = a,
                                !.rank = acc[a].type, !.user = u, !.browser = b,
                                !.S = S, !.T = T, !.P = P,
                                !.loaded = acc[u].suspended]
<1>1. acc[a].type \in AccountTypeID /\ acc[u].suspended \in BOOLEAN
  BY DEF IType, TypeOK
<1>2. /\ j \in Job /\ j.pc = "editSimple" /\ j.user = u /\ j.rank = acc[a].type
      /\ j.S = S /\ j.T = T /\ j.loaded = acc[u].suspended /\ j.retried = FALSE
  BY <1>1 DEF IdleJob, Job, PC, AccountTypeID
<1>3. job' = [job EXCEPT ![w] = j]
  BY DEF EditStart
<1> HIDE DEF j
<1>4. QED
  BY <1>2, <1>3, ITypeJobs, JobWritten

LEMMA EditSimpleJob ==
    ASSUME JobsTyped, NEW w \in Worker, EditSimple(w)
    PROVE  /\ JobsTyped' /\ OthersStay(w)
           /\ job'[w].pc = "editType" /\ job'[w].user = job[w].user
           /\ job'[w].S = job[w].S /\ job'[w].T = job[w].T /\ ~job'[w].retried
<1> DEFINE j == [job[w] EXCEPT !.pc = "editType", !.loaded = FALSE, !.retried = FALSE,
                               !.rank = 1]
<1>1. job[w] \in Job /\ job[w].user \in User
  BY DEF JobsTyped, Idle, EditSimple, At
<1>2. /\ j \in Job /\ j.pc = "editType" /\ j.user = job[w].user
      /\ j.S = job[w].S /\ j.T = job[w].T /\ j.retried = FALSE
  <2>1. 1 \in AccountTypeID
    BY DEF AccountTypeID
  <2>2. QED
    BY <1>1, <2>1 DEF Job, PC
<1>3. job' = [job EXCEPT ![w] = j]
  BY DEF EditSimple
<1> HIDE DEF j
<1>4. QED
  BY <1>1, <1>2, <1>3, JobWritten

LEMMA EditTypeJob ==
    ASSUME JobsTyped, NEW w \in Worker, EditType(w)
    PROVE  /\ JobsTyped' /\ OthersStay(w)
           /\ job'[w].pc = "editPassword" /\ job'[w].user = job[w].user
           /\ job'[w].S = job[w].S /\ job'[w].T = 0 /\ job'[w].retried = job[w].retried
<1> DEFINE j == [job[w] EXCEPT !.pc = "editPassword", !.T = 0]
<1>1. job[w] \in Job /\ job[w].user \in User
  BY DEF JobsTyped, Idle, EditType, At
<1>2. /\ j \in Job /\ j.pc = "editPassword" /\ j.user = job[w].user
      /\ j.S = job[w].S /\ j.T = 0 /\ j.retried = job[w].retried
  BY <1>1 DEF Job, PC
<1>3. job' = [job EXCEPT ![w] = j]
  BY DEF EditType
<1> HIDE DEF j
<1>4. QED
  BY <1>1, <1>2, <1>3, JobWritten

LEMMA EditPasswordJob ==
    ASSUME JobsTyped, NEW w \in Worker, EditPassword(w)
    PROVE  /\ JobsTyped' /\ OthersStay(w)
           /\ job'[w].pc = IF /\ job[w].P \notin {NoPass, acc[job[w].user].passwd}
                              /\ job[w].actor = job[w].user
                           THEN "editLogin" ELSE "editSuspend"
           /\ job'[w].pc = "editLogin" => job'[w].P = job[w].P /\ job[w].P # NoPass
           /\ job'[w].user = job[w].user /\ job'[w].S = job[w].S
           /\ job'[w].T = job[w].T /\ job'[w].retried \in {job[w].retried, FALSE}
<1> DEFINE j == [job[w] EXCEPT !.pc = "editLogin"]
           k == [job[w] EXCEPT !.pc = "editSuspend", !.P = NoPass, !.retried = FALSE]
           login == /\ job[w].P \notin {NoPass, acc[job[w].user].passwd}
                    /\ job[w].actor = job[w].user
<1>1. job[w] \in Job /\ job[w].user \in User
  BY DEF JobsTyped, Idle, EditPassword, At
<1>2. /\ j \in Job /\ j.pc = "editLogin" /\ j.user = job[w].user /\ j.P = job[w].P
      /\ j.S = job[w].S /\ j.T = job[w].T /\ j.retried = job[w].retried
  BY <1>1 DEF Job, PC
<1>3. /\ k \in Job /\ k.pc = "editSuspend" /\ k.user = job[w].user
      /\ k.S = job[w].S /\ k.T = job[w].T /\ k.retried = FALSE
  BY <1>1 DEF Job, PC
<1>4. job' = IF login THEN [job EXCEPT ![w] = j] ELSE [job EXCEPT ![w] = k]
  BY DEF EditPassword
<1> HIDE DEF j, k, login
<1>5. CASE login
  <2>1. JobsTyped' /\ OthersStay(w) /\ job'[w] = j
    BY <1>1, <1>2, <1>4, <1>5, JobWritten
  <2>2. QED
    BY <2>1, <1>2, <1>5 DEF login
<1>6. CASE ~login
  <2>1. JobsTyped' /\ OthersStay(w) /\ job'[w] = k
    BY <1>1, <1>3, <1>4, <1>6, JobWritten
  <2>2. QED
    BY <2>1, <1>3, <1>6 DEF login
<1>7. QED
  BY <1>5, <1>6

LEMMA EditLoginJob ==
    ASSUME JobsTyped, NEW w \in Worker, EditLogin(w)
    PROVE  /\ JobsTyped' /\ OthersStay(w)
           /\ job'[w].pc = "editSuspend" /\ job'[w].user = job[w].user
           /\ job'[w].S = job[w].S /\ job'[w].T = job[w].T
           /\ ~job'[w].retried
<1> DEFINE j == [job[w] EXCEPT !.pc = "editSuspend", !.P = NoPass, !.retried = FALSE]
<1>1. job[w] \in Job /\ job[w].user \in User
  BY DEF JobsTyped, Idle, EditLogin, At
<1>2. /\ j \in Job /\ j.pc = "editSuspend" /\ j.user = job[w].user
      /\ j.S = job[w].S /\ j.T = job[w].T /\ ~j.retried
  BY <1>1 DEF Job, PC
<1>3. job' = [job EXCEPT ![w] = j]
  BY DEF EditLogin
<1> HIDE DEF j
<1>4. QED
  BY <1>1, <1>2, <1>3, JobWritten

LEMMA LoginDeadlockJob ==
    ASSUME JobsTyped, NEW w \in Worker, LoginDeadlock(w)
    PROVE  /\ JobsTyped' /\ OthersStay(w)
           /\ job'[w].pc = "editPassword" /\ job'[w].user = job[w].user
           /\ job'[w].S = job[w].S /\ job'[w].T = job[w].T
<1> DEFINE j == [job[w] EXCEPT !.pc = "editPassword", !.retried = TRUE]
<1>1. job[w] \in Job /\ job[w].user \in User
  BY DEF JobsTyped, Idle, LoginDeadlock, At
<1>2. /\ j \in Job /\ j.pc = "editPassword" /\ j.user = job[w].user
      /\ j.S = job[w].S /\ j.T = job[w].T
  BY <1>1 DEF Job, PC
<1>3. job' = [job EXCEPT ![w] = j]
  BY DEF LoginDeadlock
<1> HIDE DEF j
<1>4. QED
  BY <1>1, <1>2, <1>3, JobWritten

LEMMA DeadlockJob ==
    ASSUME JobsTyped, NEW w \in Worker, Deadlock(w)
    PROVE  /\ JobsTyped' /\ OthersStay(w)
           /\ \/ At(w, "loginCommit") /\ job'[w].pc = "loginRetry"
              \/ At(w, "editSimple") /\ job'[w].pc = "editSimple"
              \/ At(w, "editEnd") /\ job'[w].pc = "editSuspend"
           /\ job'[w].user = job[w].user /\ job'[w].S = job[w].S
           /\ job'[w].T = job[w].T /\ job'[w].loaded = job[w].loaded
           /\ job'[w].rank = job[w].rank
<1> DEFINE i == [job[w] EXCEPT !.pc = "loginRetry", !.retried = TRUE]
           j == [job[w] EXCEPT !.pc = "editSuspend", !.retried = TRUE]
           k == [job[w] EXCEPT !.retried = TRUE]
<1>1. job[w] \in Job /\ job[w].user \in User
  BY DEF JobsTyped, Idle, Deadlock, At
<1>2. /\ i \in Job /\ i.pc = "loginRetry" /\ i.user = job[w].user /\ i.S = job[w].S
      /\ i.T = job[w].T /\ i.loaded = job[w].loaded /\ i.rank = job[w].rank
  BY <1>1 DEF Job, PC
<1>3. /\ k \in Job /\ k.pc = job[w].pc /\ k.user = job[w].user /\ k.S = job[w].S
      /\ k.T = job[w].T /\ k.loaded = job[w].loaded /\ k.rank = job[w].rank
  BY <1>1 DEF Job, PC
<1>4. \/ At(w, "loginCommit") /\ job' = [job EXCEPT ![w] = i]
      \/ At(w, "editSimple") /\ job' = [job EXCEPT ![w] = k]
      \/ At(w, "editEnd") /\ job' = [job EXCEPT ![w] = j]
  BY DEF Deadlock
<1>5. /\ j \in Job /\ j.pc = "editSuspend" /\ j.user = job[w].user /\ j.S = job[w].S
      /\ j.T = job[w].T /\ j.loaded = job[w].loaded /\ j.rank = job[w].rank
  BY <1>1 DEF Job, PC
<1> HIDE DEF i, j, k
<1>6. CASE At(w, "loginCommit") /\ job' = [job EXCEPT ![w] = i]
  BY <1>1, <1>2, <1>6, JobWritten
<1>7. CASE At(w, "editSimple") /\ job' = [job EXCEPT ![w] = k]
  <2>1. JobsTyped' /\ OthersStay(w) /\ job'[w] = k
    BY <1>1, <1>3, <1>7, JobWritten
  <2>2. QED
    BY <2>1, <1>3, <1>7 DEF At
<1>8. CASE At(w, "editEnd") /\ job' = [job EXCEPT ![w] = j]
  BY <1>1, <1>5, <1>8, JobWritten
<1>9. QED
  BY <1>4, <1>6, <1>7, <1>8

-----------------------------------------------------------------------------
(* Types. *)

SessionsTyped ==
    /\ session \in [User -> [sid : Sid, age : Age]]
    /\ \A u, v \in User : u # v /\ session[u].sid = session[v].sid
                          => session[u].sid = 0
    /\ nextSid \in 1..(MaxSid + 1)
    /\ \A u \in User : session[u].sid < nextSid

RowsTyped ==
    /\ here \in [User -> {"new", "here", "gone"}]
    /\ acc \in [User -> [type : AccountTypeID, suspended : BOOLEAN,
                         passwd : Secret \cup {NoPass}, key : BOOLEAN]]
    /\ cookie \in [Browser -> Sid]
    /\ opened \in [User -> Secret \cup {NoPass}]
    /\ kept \subseteq User

LEMMA ITypeParts ==
    /\ IType => SessionsTyped /\ RowsTyped /\ JobsTyped
    /\ SessionsTyped /\ RowsTyped /\ JobsTyped => IType
BY DEF IType, TypeOK, SessionsTyped, RowsTyped, JobsTyped

LEMMA ITypePartsNext ==
    ASSUME SessionsTyped', RowsTyped', JobsTyped'
    PROVE  IType'
BY DEF IType, TypeOK, SessionsTyped, RowsTyped, JobsTyped

Tables == <<here, acc, session, cookie, nextSid, opened, kept>>

LEMMA TablesTyped ==
    ASSUME IType, JobsTyped', UNCHANGED Tables
    PROVE  IType'
<1>1. SessionsTyped' /\ RowsTyped'
  BY ITypeParts DEF SessionsTyped, RowsTyped, Tables
<1>2. QED
  BY <1>1, ITypePartsNext

LEMMA RowsUnchanged ==
    ASSUME RowsTyped, UNCHANGED <<here, acc, cookie, opened, kept>>
    PROVE  RowsTyped'
BY DEF RowsTyped

LEMMA SessionsUnchanged ==
    ASSUME SessionsTyped, UNCHANGED <<session, nextSid>>
    PROVE  SessionsTyped'
BY DEF SessionsTyped

LEMMA SessionDropped ==
    ASSUME SessionsTyped, NEW x \in User, UNCHANGED nextSid,
           session' = [session EXCEPT ![x] = NoSession]
    PROVE  /\ SessionsTyped'
           /\ session'[x].sid = 0
           /\ \A u \in User \ {x} : session'[u] = session[u]
<1>1. NoSession \in [sid : Sid, age : Age] /\ NoSession.sid = 0
  BY DEF NoSession, Sid, Age
<1>2. /\ session' \in [User -> [sid : Sid, age : Age]]
      /\ session'[x].sid = 0
      /\ \A u \in User \ {x} : session'[u] = session[u]
  BY <1>1 DEF SessionsTyped
<1>3. \A u, v \in User : u # v /\ session'[u].sid = session'[v].sid
                         => session'[u].sid = 0
  BY <1>2 DEF SessionsTyped
<1>4. nextSid' \in 1..(MaxSid + 1) /\ 0 < nextSid'
  BY DEF SessionsTyped
<1>5. \A u \in User : session'[u].sid < nextSid'
  BY <1>2, <1>4 DEF SessionsTyped
<1>6. QED
  BY <1>2, <1>3, <1>4, <1>5 DEF SessionsTyped

\* What a login leaves: a session that knows the password p.
LEMMA SessionOpened ==
    ASSUME IType, NEW x \in User, NEW p \in Secret \cup {NoPass}, OpenSession(x, p)
    PROVE  /\ SessionsTyped'
           /\ opened' \in [User -> Secret \cup {NoPass}] /\ opened'[x] = p
           /\ \A u \in User \ {x} : session'[u] = session[u] /\ opened'[u] = opened[u]
           /\ session[x].sid = 0 => nextSid \in Sid
<1>1. SessionsTyped /\ RowsTyped
  BY ITypeParts
<1>2. /\ opened' \in [User -> Secret \cup {NoPass}] /\ opened'[x] = p
      /\ \A u \in User \ {x} : opened'[u] = opened[u]
  BY <1>1 DEF RowsTyped, OpenSession
<1>3. CASE session[x].sid # 0 /\ session[x].age = "now"
  <2>1. UNCHANGED <<session, nextSid>>
    BY <1>3 DEF OpenSession
  <2>2. QED
    BY <1>1, <1>2, <1>3, <2>1, SessionsUnchanged
<1>4. CASE ~(session[x].sid # 0 /\ session[x].age = "now")
  <2>1. /\ nextSid <= MaxSid /\ nextSid' = nextSid + 1
        /\ session' = [session EXCEPT ![x] = [sid |-> nextSid, age |-> "now"]]
    BY <1>4 DEF OpenSession
  <2>2. nextSid \in Sid /\ nextSid' \in 1..(MaxSid + 1) /\ nextSid < nextSid'
    BY <1>1, <2>1 DEF SessionsTyped, Sid
  <2>3. [sid |-> nextSid, age |-> "now"] \in [sid : Sid, age : Age]
    BY <2>2 DEF Age
  <2>4. /\ session' \in [User -> [sid : Sid, age : Age]]
        /\ session'[x].sid = nextSid
        /\ \A u \in User \ {x} : session'[u] = session[u]
    BY <1>1, <2>1, <2>3 DEF SessionsTyped
  <2>5. \A u \in User \ {x} : session'[u].sid < nextSid
    BY <1>1, <2>4 DEF SessionsTyped
  <2>6. ASSUME NEW u \in User, NEW v \in User, u # v, session'[u].sid = session'[v].sid
        PROVE  session'[u].sid = 0
    <3>1. nextSid \in Nat
      BY <2>2 DEF Sid
    <3>2. CASE u = x
      BY <2>4, <2>5, <2>6, <3>1, <3>2 DEF Sid
    <3>3. CASE v = x
      BY <2>4, <2>5, <2>6, <3>1, <3>3 DEF Sid
    <3>4. CASE u # x /\ v # x
      BY <1>1, <2>4, <2>6, <3>4 DEF SessionsTyped
    <3>5. QED
      BY <3>2, <3>3, <3>4
  <2>7. \A u \in User : session'[u].sid < nextSid'
    <3>1. \A u \in User : session'[u].sid \in Int
      BY <2>4 DEF Sid
    <3>2. nextSid \in Int /\ nextSid' \in Int
      BY <2>2 DEF Sid
    <3>3. QED
      BY <2>2, <2>4, <2>5, <3>1, <3>2
  <2>8. SessionsTyped'
    BY <2>2, <2>4, <2>6, <2>7 DEF SessionsTyped
  <2>9. QED
    BY <1>2, <2>2, <2>4, <2>8
<1>5. QED
  BY <1>3, <1>4

LEMMA RunningUser ==
    ASSUME IType, NEW w \in Worker, ~Idle(w)
    PROVE  job[w] \in Job /\ job[w].user \in User /\ job[w].pass \in Secret \cup {NoPass}
BY DEF IType, TypeOK, Job

\* Steps in which a handler only reads, or ends.
Reads(w) ==
    /\ UNCHANGED Tables
    /\ \/ Start(w) \/ LoginRetry(w) \/ EditSuspend(w) \/ Crash(w) \/ Deadlock(w)
       \/ \E pc \in PC \ {"idle", "expire", "logout", "loginRetry", "loginReturn", "editEnd"} :
            RowGone(w, pc)

LEMMA StartReads ==
    ASSUME NEW w \in Worker, Start(w)
    PROVE  Reads(w)
<1>1. ASSUME NEW b \in Browser, NEW u \in User,
             \/ LogoutStart(w, b, u) \/ SsoStart(w, b, u)
             \/ \E p \in Secret : LoginStart(w, b, u, p) \/ ResetStart(w, b, u, p)
             \/ \E a \in User : DeleteStart(w, b, a, u)
      PROVE  UNCHANGED Tables
  BY <1>1 DEF Tables, LogoutStart, SsoStart, LoginStart, ResetStart, DeleteStart
<1>2. ASSUME NEW b \in Browser, NEW a \in User, NEW u \in User, NEW S \in BOOLEAN,
             NEW T \in AccountTypeID \cup {0}, NEW P \in Secret \cup {NoPass},
             EditStart(w, b, a, u, S, T, P)
      PROVE  UNCHANGED Tables
  BY <1>2 DEF Tables, EditStart
<1>3. ASSUME NEW b \in Browser, ExpireStart(w, b)
      PROVE  UNCHANGED Tables
  BY <1>3 DEF Tables, ExpireStart
<1>4. QED
  BY <1>1, <1>2, <1>3 DEF Reads, Start

LEMMA TypeReads ==
    ASSUME IType, NEW w \in Worker, Reads(w)
    PROVE  IType'
<1>0. JobsTyped
  BY ITypeJobs
<1>1. ASSUME NEW b \in Browser, ExpireStart(w, b)
      PROVE  JobsTyped'
  BY <1>1, BeginJob DEF ExpireStart, PC
<1>2. ASSUME NEW b \in Browser, NEW u \in User, LogoutStart(w, b, u)
      PROVE  JobsTyped'
  BY <1>2, BeginJob DEF LogoutStart, PC
<1>3. ASSUME NEW b \in Browser, NEW u \in User, SsoStart(w, b, u)
      PROVE  JobsTyped'
  BY <1>3, BeginJob DEF SsoStart, PC
<1>4. ASSUME NEW b \in Browser, NEW u \in User, NEW p \in Secret, LoginStart(w, b, u, p)
      PROVE  JobsTyped'
  BY <1>4, BeginJob DEF LoginStart, PC
<1>5. ASSUME NEW b \in Browser, NEW u \in User, NEW p \in Secret, ResetStart(w, b, u, p)
      PROVE  JobsTyped'
  BY <1>5, BeginJob DEF ResetStart, PC
<1>6. ASSUME NEW b \in Browser, NEW a \in User, NEW u \in User, DeleteStart(w, b, a, u)
      PROVE  JobsTyped'
  BY <1>6, BeginJob DEF DeleteStart, PC
<1>7. ASSUME NEW b \in Browser, NEW a \in User, NEW u \in User, NEW S \in BOOLEAN,
             NEW T \in AccountTypeID \cup {0}, NEW P \in Secret \cup {NoPass},
             EditStart(w, b, a, u, S, T, P)
      PROVE  JobsTyped'
  BY <1>7, EditStartJob
<1>8. ASSUME LoginRetry(w)
      PROVE  JobsTyped'
  <2>1. ~Idle(w) /\ (Goto(w, "loginCommit") \/ End(w))
    BY <1>8 DEF LoginRetry, At, Idle
  <2>2. QED
    BY <1>0, <2>1, GotoJob, EndJob DEF PC
<1>9. ASSUME EditSuspend(w)
      PROVE  JobsTyped'
  <2>1. ~Idle(w) /\ (Goto(w, "editEnd") \/ End(w))
    BY <1>9 DEF EditSuspend, At, Idle
  <2>2. QED
    BY <1>0, <2>1, GotoJob, EndJob DEF PC
<1>10. ASSUME Crash(w)
       PROVE  JobsTyped'
  BY <1>0, <1>10, EndJob DEF Crash
<1>11. ASSUME Deadlock(w)
       PROVE  JobsTyped'
  BY <1>0, <1>11, DeadlockJob
<1>12. ASSUME NEW pc \in PC, RowGone(w, pc)
       PROVE  JobsTyped'
  BY <1>0, <1>12, EndJob DEF RowGone
<1>13. JobsTyped'
  <2>1. CASE Start(w)
    BY <2>1, <1>1, <1>2, <1>3, <1>4, <1>5, <1>6, <1>7 DEF Start
  <2>2. CASE ~Start(w)
    BY <2>2, <1>8, <1>9, <1>10, <1>11, <1>12 DEF Reads
  <2>3. QED
    BY <2>1, <2>2
<1>14. QED
  BY <1>13, TablesTyped DEF Reads

\* Expire, Logout, EditEnd and Delete end a session and their handler.
LEMMA TypeDrops ==
    ASSUME IType, NEW w \in Worker, ~Idle(w), End(w), UNCHANGED nextSid,
           session' = [session EXCEPT ![job[w].user] = NoSession], RowsTyped'
    PROVE  IType'
<1>1. SessionsTyped'
  BY ITypeParts, RunningUser, SessionDropped
<1>2. QED
  BY <1>1, ITypeJobs, EndJob, ITypePartsNext

LEMMA TypeExpire ==
    ASSUME IType, NEW w \in Worker, Expire(w)
    PROVE  IType'
<1>1. RowsTyped'
  BY ITypeParts, RowsUnchanged DEF Expire
<1>2. QED
  BY <1>1, TypeDrops DEF Expire, At, Idle

LEMMA TypeEditEnd ==
    ASSUME IType, NEW w \in Worker, EditEnd(w)
    PROVE  IType'
<1>1. RowsTyped'
  BY ITypeParts, RowsUnchanged DEF EditEnd
<1>2. QED
  BY <1>1, TypeDrops DEF EditEnd, At, Idle

LEMMA TypeLogout ==
    ASSUME IType, NEW w \in Worker, Logout(w)
    PROVE  IType'
<1>1. 0 \in Sid
  BY DEF Sid
<1>2. RowsTyped'
  BY <1>1, ITypeParts DEF RowsTyped, Logout
<1>3. QED
  BY <1>2, TypeDrops DEF Logout, At, Idle

LEMMA TypeDelete ==
    ASSUME IType, NEW w \in Worker, Delete(w)
    PROVE  IType'
<1>1. RowsTyped'
  BY ITypeParts DEF RowsTyped, Delete
<1>2. QED
  BY <1>1, TypeDrops DEF Delete, At, Idle

LEMMA TypeLoginCommit ==
    ASSUME IType, NEW w \in Worker, LoginCommit(w)
    PROVE  IType'
<1>1. ~Idle(w) /\ "loginReturn" \in PC
  BY DEF LoginCommit, At, Idle, PC
<1>2. JobsTyped'
  BY <1>1, ITypeJobs, GotoJob DEF LoginCommit
<1>3. SessionsTyped' /\ opened' \in [User -> Secret \cup {NoPass}]
  BY <1>1, RunningUser, SessionOpened DEF LoginCommit
<1>4. RowsTyped'
  BY <1>3, ITypeParts DEF RowsTyped, LoginCommit
<1>5. QED
  BY <1>2, <1>3, <1>4, ITypePartsNext

LEMMA TypeLoginReturn ==
    ASSUME IType, NEW w \in Worker, LoginReturn(w)
    PROVE  IType'
<1>1. ~Idle(w)
  BY DEF LoginReturn, At, Idle
<1>2. JobsTyped'
  BY ITypeJobs, EndJob DEF LoginReturn
<1>3. session[job[w].user].sid \in Sid
  BY <1>1, RunningUser, ITypeParts DEF SessionsTyped
<1>4. SessionsTyped' /\ RowsTyped'
  BY <1>3, ITypeParts DEF SessionsTyped, RowsTyped, LoginReturn, dbUnchanged
<1>5. QED
  BY <1>2, <1>4, ITypePartsNext

LEMMA TypeSsoInsert ==
    ASSUME IType, NEW w \in Worker, SsoInsert(w)
    PROVE  IType'
<1>1. ~Idle(w) /\ job[w].user \in User
  BY RunningUser DEF SsoInsert, At, Idle
<1>2. JobsTyped'
  BY ITypeJobs, EndJob DEF SsoInsert
<1>3. CASE session[job[w].user].sid # 0
  BY <1>2, <1>3, TablesTyped DEF SsoInsert, Tables
<1>4. CASE session[job[w].user].sid = 0
  <2>1. SessionsTyped' /\ opened' \in [User -> Secret \cup {NoPass}] /\ nextSid \in Sid
    BY <1>1, <1>4, SessionOpened DEF SsoInsert
  <2>2. RowsTyped'
    BY <1>4, <2>1, ITypeParts DEF RowsTyped, SsoInsert
  <2>3. QED
    BY <1>2, <2>1, <2>2, ITypePartsNext
<1>5. QED
  BY <1>3, <1>4

LEMMA TypeResetIssue ==
    ASSUME IType, NEW w \in Worker, ResetIssue(w)
    PROVE  IType'
<1>1. SessionsTyped'
  BY ITypeParts, SessionsUnchanged DEF ResetIssue
<1>2. RowsTyped'
  BY ITypeParts DEF RowsTyped, ResetIssue
<1>3. QED
  BY <1>1, <1>2, ITypeJobs, EndJob, ITypePartsNext DEF ResetIssue

LEMMA TypeResetCommit ==
    ASSUME IType, NEW w \in Worker, ResetCommit(w)
    PROVE  IType'
<1>1. ~Idle(w) /\ job[w].user \in User /\ job[w].pass \in Secret \cup {NoPass}
  BY RunningUser DEF ResetCommit, At, Idle
<1>2. SessionsTyped'
  BY <1>1, ITypeParts, SessionDropped DEF ResetCommit, SessionAfterReset
<1>3. RowsTyped'
  <2>1. acc' \in [User -> [type : AccountTypeID, suspended : BOOLEAN,
                           passwd : Secret \cup {NoPass}, key : BOOLEAN]]
    <3> DEFINE row == [acc[job[w].user] EXCEPT !.key = FALSE, !.passwd = job[w].pass]
    <3>1. row \in [type : AccountTypeID, suspended : BOOLEAN,
                   passwd : Secret \cup {NoPass}, key : BOOLEAN]
      <4>1. acc[job[w].user] \in [type : AccountTypeID, suspended : BOOLEAN,
                                 passwd : Secret \cup {NoPass}, key : BOOLEAN]
        BY <1>1, ITypeParts DEF RowsTyped
      <4>2. QED
        BY <1>1, <4>1
    <3>2. acc' = [acc EXCEPT ![job[w].user] = row]
      BY DEF ResetCommit
    <3>3. QED
      BY <3>1, <3>2, ITypeParts DEF RowsTyped
  <2>2. QED
    BY <2>1, ITypeParts DEF RowsTyped, ResetCommit
<1>4. QED
  BY <1>2, <1>3, ITypeJobs, EndJob, ITypePartsNext DEF ResetCommit

Row == [type : AccountTypeID, suspended : BOOLEAN,
        passwd : Secret \cup {NoPass}, key : BOOLEAN]

LEMMA AccRow ==
    ASSUME IType
    PROVE  acc \in [User -> Row]
BY DEF IType, TypeOK, Row

\* A step of account_edit_post that writes the row of its account.
LEMMA TypeRowWritten ==
    ASSUME IType, NEW x \in User, NEW row \in Row, acc' = [acc EXCEPT ![x] = row],
           UNCHANGED <<here, cookie, opened, session, nextSid>>,
           kept' \subseteq User, JobsTyped'
    PROVE  /\ IType'
           /\ acc'[x] = row
           /\ \A u \in User \ {x} : acc'[u] = acc[u]
<1>1. /\ acc' \in [User -> Row] /\ acc'[x] = row
      /\ \A u \in User \ {x} : acc'[u] = acc[u]
  BY AccRow
<1>2. RowsTyped'
  BY <1>1, ITypeParts DEF RowsTyped, Row
<1>3. SessionsTyped'
  BY ITypeParts, SessionsUnchanged
<1>4. QED
  BY <1>1, <1>2, <1>3, ITypePartsNext

LEMMA TypeEditSimple ==
    ASSUME IType, NEW w \in Worker, EditSimple(w)
    PROVE  /\ IType'
           /\ acc'[job[w].user] = [acc[job[w].user] EXCEPT !.suspended = WrittenSuspended(job[w])]
           /\ \A u \in User \ {job[w].user} : acc'[u] = acc[u]
<1> DEFINE x == job[w].user
           row == [acc[x] EXCEPT !.suspended = WrittenSuspended(job[w])]
<1>1. job[w] \in Job /\ x \in User
  BY RunningUser DEF EditSimple, At, Idle
<1>2. acc[x] \in Row
  BY <1>1, AccRow
<1>3. WrittenSuspended(job[w]) \in BOOLEAN
  <2>1. job[w].S \in BOOLEAN /\ acc[x].suspended \in BOOLEAN
    BY <1>1, <1>2 DEF Job, Row
  <2>2. QED
    BY <2>1 DEF WrittenSuspended
<1>4. row \in Row
  BY <1>2, <1>3 DEF Row
<1>5. acc' = [acc EXCEPT ![x] = row]
  BY DEF EditSimple
<1>6. kept' \subseteq User
  BY ITypeParts DEF RowsTyped, EditSimple
<1>7. JobsTyped'
  BY ITypeJobs, EditSimpleJob
<1>8. UNCHANGED <<here, cookie, opened, session, nextSid>>
  BY DEF EditSimple
<1> HIDE DEF x, row
<1>9. QED
  BY <1>1, <1>4, <1>5, <1>6, <1>7, <1>8, TypeRowWritten DEF x, row

LEMMA TypeEditType ==
    ASSUME IType, NEW w \in Worker, EditType(w)
    PROVE  /\ IType'
           /\ acc'[job[w].user] = [acc[job[w].user] EXCEPT
                                     !.type = IF job[w].T = 0 THEN @ ELSE job[w].T]
           /\ \A u \in User \ {job[w].user} : acc'[u] = acc[u]
<1> DEFINE x == job[w].user
           type == IF job[w].T = 0 THEN acc[x].type ELSE job[w].T
           row == [acc[x] EXCEPT !.type = type]
<1>1. job[w] \in Job /\ x \in User
  BY RunningUser DEF EditType, At, Idle
<1>2. acc[x] \in Row
  BY <1>1, AccRow
<1>3. type \in AccountTypeID
  BY <1>1, <1>2 DEF Job, Row
<1>4. row \in Row
  BY <1>2, <1>3 DEF Row
<1>5. acc' = [acc EXCEPT ![x] = row]
  BY DEF EditType
<1>6. kept' \subseteq User
  BY ITypeParts DEF RowsTyped, EditType
<1>7. JobsTyped'
  BY ITypeJobs, EditTypeJob
<1>8. UNCHANGED <<here, cookie, opened, session, nextSid>>
  BY DEF EditType
<1>9. row = [acc[x] EXCEPT !.type = IF job[w].T = 0 THEN @ ELSE job[w].T]
  OBVIOUS
<1> HIDE DEF row, type
<1>10. IType' /\ acc'[x] = row /\ \A u \in User \ {x} : acc'[u] = acc[u]
  BY <1>1, <1>4, <1>5, <1>6, <1>7, <1>8, TypeRowWritten
<1>11. QED
  BY <1>9, <1>10

LEMMA TypeEditPassword ==
    ASSUME IType, NEW w \in Worker, EditPassword(w)
    PROVE  /\ IType'
           /\ acc'[job[w].user] =
                IF job[w].P \notin {NoPass, acc[job[w].user].passwd}
                THEN [acc[job[w].user] EXCEPT !.passwd = job[w].P]
                ELSE acc[job[w].user]
           /\ \A u \in User \ {job[w].user} : acc'[u] = acc[u]
<1> DEFINE x == job[w].user
           row == [acc[x] EXCEPT !.passwd = job[w].P]
<1>1. job[w] \in Job /\ x \in User
  BY RunningUser DEF EditPassword, At, Idle
<1>2. JobsTyped'
  BY ITypeJobs, EditPasswordJob
<1>3. UNCHANGED <<here, cookie, opened, session, nextSid>>
  BY DEF EditPassword
<1>4. CASE job[w].P \in {NoPass, acc[x].passwd}
  <2>1. UNCHANGED <<acc, kept>>
    BY <1>4 DEF EditPassword
  <2>2. IType'
    BY <1>2, <1>3, <2>1, TablesTyped DEF Tables
  <2>3. QED
    BY <1>4, <2>1, <2>2
<1>5. CASE job[w].P \notin {NoPass, acc[x].passwd}
  <2>1. acc[x] \in Row /\ job[w].P \in Secret \cup {NoPass}
    BY <1>1, AccRow DEF Job
  <2>2. row \in Row
    BY <2>1 DEF Row
  <2>3. acc' = [acc EXCEPT ![x] = row]
    BY <1>5 DEF EditPassword
  <2>4. kept' \in {kept \ {x}, kept \cup {x}}
    BY <1>5 DEF EditPassword
  <2>5. kept' \subseteq User
    BY <1>1, <2>4, ITypeParts DEF RowsTyped
  <2> HIDE DEF row
  <2>6. IType' /\ acc'[x] = row /\ \A u \in User \ {x} : acc'[u] = acc[u]
    BY <1>1, <1>2, <1>3, <2>2, <2>3, <2>5, TypeRowWritten
  <2>7. QED
    BY <1>5, <2>6 DEF row
<1>6. QED
  BY <1>4, <1>5

LEMMA TypeEditLogin ==
    ASSUME IType, NEW w \in Worker, EditLogin(w)
    PROVE  IType'
<1>1. job[w] \in Job /\ job[w].user \in User
  BY RunningUser DEF EditLogin, At, Idle
<1>2. JobsTyped'
  BY ITypeJobs, EditLoginJob
<1>3. CASE LoginApproved(job[w].user, job[w].P)
  <2>1. OpenSession(job[w].user, job[w].P) /\ job[w].P \in Secret \cup {NoPass}
    BY <1>1, <1>3 DEF EditLogin, Job
  <2>2. SessionsTyped' /\ opened' \in [User -> Secret \cup {NoPass}]
    BY <1>1, <2>1, SessionOpened
  <2>3. RowsTyped'
    BY <2>2, ITypeParts DEF RowsTyped, EditLogin
  <2>4. QED
    BY <1>2, <2>2, <2>3, ITypePartsNext
<1>4. CASE ~LoginApproved(job[w].user, job[w].P)
  BY <1>2, <1>4, TablesTyped DEF EditLogin, Tables
<1>5. QED
  BY <1>3, <1>4

LEMMA TypeAgeing ==
    ASSUME IType, NEW x \in User, Ageing(x)
    PROVE  IType' /\ \A u \in User : session'[u].sid = session[u].sid
<1> DEFINE age == IF session[x].age = "now" THEN "live" ELSE "expired"
           s == [session[x] EXCEPT !.age = age]
<1>1. SessionsTyped /\ RowsTyped /\ JobsTyped
  BY ITypeParts
<1>2. session[x] \in [sid : Sid, age : Age] /\ age \in Age
  BY <1>1 DEF SessionsTyped, Age
<1>3. s \in [sid : Sid, age : Age] /\ s.sid = session[x].sid
  BY <1>2
<1>4. session' = [session EXCEPT ![x] = s]
  BY DEF Ageing
<1> HIDE DEF s
<1>5. /\ session' \in [User -> [sid : Sid, age : Age]]
      /\ \A u \in User : session'[u].sid = session[u].sid
  BY <1>1, <1>3, <1>4 DEF SessionsTyped
<1>6. SessionsTyped'
  <2>1. nextSid' = nextSid
    BY DEF Ageing
  <2>2. QED
    BY <1>1, <1>5, <2>1 DEF SessionsTyped
<1>7. RowsTyped' /\ JobsTyped'
  BY <1>1 DEF Ageing, RowsTyped, JobsTyped, Idle
<1>8. QED
  BY <1>5, <1>6, <1>7, ITypePartsNext

LEMMA TypeLoginDeadlock ==
    ASSUME IType, NEW w \in Worker, LoginDeadlock(w)
    PROVE  IType'
<1>1. job[w].user \in User
  BY RunningUser DEF LoginDeadlock, At, Idle
<1>2. SessionsTyped' /\ RowsTyped'
  BY <1>1, ITypeParts, SessionsUnchanged DEF LoginDeadlock, RowsTyped
<1>3. QED
  BY <1>2, ITypeJobs, LoginDeadlockJob, ITypePartsNext

LEMMA TypeRegister ==
    ASSUME IType, NEW x \in User, Register(x)
    PROVE  IType'
<1> DEFINE row == [type |-> 1, suspended |-> FALSE, passwd |-> NoPass, key |-> TRUE]
<1>1. SessionsTyped /\ RowsTyped /\ JobsTyped
  BY ITypeParts
<1>2. row \in Row
  BY DEF Row, AccountTypeID
<1>3. acc' = [acc EXCEPT ![x] = row]
  BY DEF Register
<1> HIDE DEF row
<1>4. acc' \in [User -> Row]
  BY <1>2, <1>3, AccRow
<1>5. RowsTyped'
  BY <1>1, <1>4 DEF RowsTyped, Register, Row
<1>6. SessionsTyped' /\ JobsTyped'
  BY <1>1, SessionsUnchanged DEF Register, JobsTyped, Idle
<1>7. QED
  BY <1>5, <1>6, ITypePartsNext

\* The transactions.
Writes(w) ==
    \/ Expire(w) \/ LoginCommit(w) \/ LoginReturn(w) \/ Logout(w) \/ SsoInsert(w)
    \/ ResetIssue(w) \/ ResetCommit(w) \/ EditSimple(w) \/ EditType(w)
    \/ EditPassword(w) \/ EditLogin(w) \/ LoginDeadlock(w) \/ EditEnd(w) \/ Delete(w)

LEMMA Steps ==
    ASSUME Next
    PROVE  \/ \E w \in Worker : Reads(w) \/ Writes(w)
           \/ \E u \in User : Ageing(u) \/ Register(u)
<1>1. ASSUME NEW w \in Worker, Step(w)
      PROVE  Reads(w) \/ Writes(w)
  <2>1. CASE LoginRetry(w) \/ EditSuspend(w) \/ Crash(w) \/ Deadlock(w)
    BY <2>1 DEF Reads, Tables, LoginRetry, EditSuspend, Crash, Deadlock
  <2>2. ASSUME NEW pc \in PC \ {"idle", "expire", "logout", "loginRetry", "loginReturn", "editEnd"},
               RowGone(w, pc)
        PROVE  Reads(w)
    BY <2>2 DEF Reads, Tables, RowGone
  <2>3. QED
    BY <1>1, <2>1, <2>2 DEF Step, Writes
<1>2. QED
  BY <1>1, StartReads DEF Next

LEMMA TypeWrites ==
    ASSUME IType, NEW w \in Worker, Writes(w)
    PROVE  IType'
BY TypeExpire, TypeLoginCommit, TypeLoginReturn, TypeLogout, TypeSsoInsert, TypeResetIssue,
   TypeResetCommit, TypeEditSimple, TypeEditType, TypeEditPassword, TypeEditLogin,
   TypeLoginDeadlock, TypeEditEnd, TypeDelete
   DEF Writes

LEMMA TypeStutter ==
    ASSUME IType, UNCHANGED vars
    PROVE  IType'
<1>1. JobsTyped' /\ UNCHANGED Tables
  BY ITypeParts DEF vars, JobsTyped, Idle, Tables
<1>2. QED
  BY <1>1, TablesTyped

LEMMA TypeInit ==
    ASSUME Init
    PROVE  IType
<1>1. SessionsTyped
  <2>1. NoSession \in [sid : Sid, age : Age] /\ NoSession.sid = 0
    BY DEF NoSession, Sid, Age
  <2>2. session \in [User -> [sid : Sid, age : Age]] /\ \A u \in User : session[u].sid = 0
    BY <2>1 DEF Init
  <2>3. nextSid = 1 /\ 1 \in 1..(MaxSid + 1)
    BY DEF Init
  <2>4. QED
    BY <2>2, <2>3 DEF SessionsTyped
<1>2. RowsTyped
  <2>1. acc \in [User -> Row]
    <3> DEFINE NewRow == [type : {1, 2}, suspended : {FALSE}, passwd : Secret, key : {FALSE}]
    <3>1. {1, 2} \subseteq AccountTypeID
      BY DEF AccountTypeID
    <3>2. \A r \in NewRow : r \in Row
      BY <3>1 DEF Row
    <3>3. acc \in [User -> NewRow]
      BY DEF Init
    <3> HIDE DEF NewRow
    <3>4. QED
      BY <3>2, <3>3
  <2>2. cookie \in [Browser -> Sid]
    BY DEF Init, Sid
  <2>3. QED
    BY <2>1, <2>2 DEF Init, RowsTyped, Row
<1>3. JobsTyped
  BY IdleJobTyped DEF Init, JobsTyped, Idle
<1>4. QED
  BY <1>1, <1>2, <1>3, ITypeParts

LEMMA ITypeInductive ==
    ASSUME IType, [Next]_vars
    PROVE  IType'
BY Steps, TypeReads, TypeWrites, TypeAgeing, TypeRegister, TypeStutter

LEMMA SpecIType == Spec => []IType
BY TypeInit, ITypeInductive, PTL DEF Spec

\* Accounts, sessions, cookies and handlers have their types in every state,
\* and no two accounts have one SID (generate_unique_sid, the unique index of
\* Sessions.SessionID).
THEOREM TypeCorrect == Spec => []TypeOK
<1>1. IType => TypeOK
  BY DEF IType
<1>2. QED
  BY <1>1, SpecIType, PTL

-----------------------------------------------------------------------------
(* What the handlers know of the accounts when they have started. *)

LEMMA AuthenticatedHasSession ==
    ASSUME NEW b \in Browser, NEW u \in User, AuthenticatedAs(b, u)
    PROVE  session[u].sid # 0
BY DEF AuthenticatedAs

\* What a handler that only reads becomes.
LEMMA ReadsJob ==
    ASSUME IType, NEW w \in Worker, Reads(w)
    PROVE  /\ OthersStay(w)
           /\ \/ job'[w] = IdleJob
              \/ /\ job'[w].pc \notin {"idle", "editSimple"}
                 /\ job'[w].user \in User
                 /\ Here(job'[w].user) \/ session[job'[w].user].sid # 0
                 /\ job'[w].T = 0 /\ ~job'[w].retried
              \/ \E b \in Browser, a \in User, u \in User, S \in BOOLEAN,
                    T \in AccountTypeID \cup {0}, P \in Secret \cup {NoPass} :
                   EditStart(w, b, a, u, S, T, P)
              \/ /\ ~Idle(w)
                 /\ job'[w].pc \in {"loginCommit", "editEnd"}
                 /\ job'[w].user = job[w].user
                 /\ job'[w].T = job[w].T /\ job'[w].retried = job[w].retried
              \/ Deadlock(w)
<1> DEFINE Kept == /\ ~Idle(w)
                   /\ job'[w].pc \in {"loginCommit", "editEnd"}
                   /\ job'[w].user = job[w].user
                   /\ job'[w].T = job[w].T /\ job'[w].retried = job[w].retried
           Began == /\ job'[w].pc \notin {"idle", "editSimple"}
                    /\ job'[w].user \in User
                    /\ Here(job'[w].user) \/ session[job'[w].user].sid # 0
                    /\ job'[w].T = 0 /\ ~job'[w].retried
<1>0. JobsTyped
  BY ITypeJobs
<1>1. ASSUME NEW b \in Browser, ExpireStart(w, b)
      PROVE  OthersStay(w) /\ Began
  <2>1. PICK u \in User : /\ session[u].sid = cookie[b] /\ cookie[b] # 0
                          /\ Begin(w, "expire", u, u, b, NoPass)
    BY <1>1 DEF ExpireStart
  <2>2. QED
    BY <2>1, BeginJob DEF PC
<1>2. ASSUME NEW b \in Browser, NEW u \in User, LogoutStart(w, b, u)
      PROVE  OthersStay(w) /\ Began
  BY <1>2, BeginJob, AuthenticatedHasSession DEF LogoutStart, PC
<1>3. ASSUME NEW b \in Browser, NEW u \in User, SsoStart(w, b, u)
      PROVE  OthersStay(w) /\ Began
  BY <1>3, BeginJob DEF SsoStart, PC
<1>4. ASSUME NEW b \in Browser, NEW u \in User, NEW p \in Secret, LoginStart(w, b, u, p)
      PROVE  OthersStay(w) /\ Began
  BY <1>4, BeginJob DEF LoginStart, PC
<1>5. ASSUME NEW b \in Browser, NEW u \in User, NEW p \in Secret, ResetStart(w, b, u, p)
      PROVE  OthersStay(w) /\ Began
  BY <1>5, BeginJob DEF ResetStart, PC
<1>6. ASSUME NEW b \in Browser, NEW a \in User, NEW u \in User, DeleteStart(w, b, a, u)
      PROVE  OthersStay(w) /\ Began
  BY <1>6, BeginJob DEF DeleteStart, PC
<1>7. ASSUME NEW b \in Browser, NEW a \in User, NEW u \in User, NEW S \in BOOLEAN,
             NEW T \in AccountTypeID \cup {0}, NEW P \in Secret \cup {NoPass},
             EditStart(w, b, a, u, S, T, P)
      PROVE  OthersStay(w)
  BY <1>7, EditStartJob
<1>8. ASSUME LoginRetry(w)
      PROVE  OthersStay(w) /\ (job'[w] = IdleJob \/ Kept)
  <2>1. ~Idle(w) /\ (Goto(w, "loginCommit") \/ End(w))
    BY <1>8 DEF LoginRetry, At, Idle
  <2>2. QED
    BY <1>0, <2>1, GotoJob, EndJob DEF PC
<1>9. ASSUME EditSuspend(w)
      PROVE  OthersStay(w) /\ (job'[w] = IdleJob \/ Kept)
  <2>1. ~Idle(w) /\ (Goto(w, "editEnd") \/ End(w))
    BY <1>9 DEF EditSuspend, At, Idle
  <2>2. QED
    BY <1>0, <2>1, GotoJob, EndJob DEF PC
<1>10. ASSUME Crash(w)
       PROVE  OthersStay(w) /\ job'[w] = IdleJob
  BY <1>0, <1>10, EndJob DEF Crash
<1>11. ASSUME Deadlock(w)
       PROVE  OthersStay(w)
  BY <1>0, <1>11, DeadlockJob
<1>12. ASSUME NEW pc \in PC, RowGone(w, pc)
       PROVE  OthersStay(w) /\ job'[w] = IdleJob
  BY <1>0, <1>12, EndJob DEF RowGone
<1> HIDE DEF Kept, Began
<1>13. QED
  <2>1. CASE Start(w)
    BY <2>1, <1>1, <1>2, <1>3, <1>4, <1>5, <1>6, <1>7 DEF Start, Began
  <2>2. CASE ~Start(w)
    BY <2>2, <1>8, <1>9, <1>10, <1>11, <1>12 DEF Reads, Kept
  <2>3. QED
    BY <2>1, <2>2

\* A transaction leaves its handler on its account, or is its last one.
LEMMA WritesJob ==
    ASSUME IType, NEW w \in Worker, Writes(w)
    PROVE  /\ OthersStay(w)
           /\ ~Idle(w)
           /\ job'[w].pc # "editSimple"
           /\ Idle(w)' \/ job'[w].user = job[w].user
           /\ job'[w].T \in {0, job[w].T}
           /\ job'[w].retried => job[w].retried \/ LoginDeadlock(w)
<1>0. JobsTyped
  BY ITypeJobs
<1>1. ~Idle(w)
  BY DEF Writes, Expire, LoginCommit, LoginReturn, Logout, SsoInsert, ResetIssue, ResetCommit,
         EditSimple, EditType, EditPassword, EditLogin, LoginDeadlock, EditEnd, Delete,
         At, Idle
<1>2. CASE End(w)
  <2>1. OthersStay(w) /\ Idle(w)' /\ job'[w] = IdleJob
    BY <1>0, <1>2, EndJob
  <2>2. QED
    BY <1>1, <2>1, IdleJobTyped
<1>3. CASE LoginCommit(w)
  <2>1. Goto(w, "loginReturn") /\ "loginReturn" \in PC
    BY <1>3 DEF LoginCommit, PC
  <2>2. QED
    BY <1>0, <1>1, <2>1, GotoJob
<1>4. CASE EditSimple(w)
  BY <1>0, <1>1, <1>4, EditSimpleJob
<1>5. CASE EditType(w)
  BY <1>0, <1>1, <1>5, EditTypeJob
<1>6. CASE EditPassword(w)
  BY <1>0, <1>1, <1>6, EditPasswordJob
<1>7. CASE EditLogin(w)
  BY <1>0, <1>1, <1>7, EditLoginJob
<1>8. CASE LoginDeadlock(w)
  BY <1>0, <1>1, <1>8, LoginDeadlockJob
<1>9. QED
  BY <1>2, <1>3, <1>4, <1>5, <1>6, <1>7, <1>8
     DEF Writes, Expire, LoginReturn, Logout, SsoInsert, ResetIssue, ResetCommit, EditEnd, Delete

\* Only update.simple writes Suspended, and only update.account_type the type.
LEMMA RowsWritten ==
    ASSUME IType, NEW w \in Worker, Writes(w), NEW u \in User
    PROVE  /\ \/ acc'[u].type = acc[u].type
              \/ acc'[u].type = job[w].T
           /\ \/ acc'[u].suspended = acc[u].suspended
              \/ /\ EditSimple(w) /\ u = job[w].user
                 /\ acc'[u].suspended = WrittenSuspended(job[w])
<1>1. acc \in [User -> Row] /\ acc[u] \in Row
  BY AccRow
<1>2. CASE EditSimple(w)
  <2>1. CASE u = job[w].user
    <3>1. acc'[u] = [acc[u] EXCEPT !.suspended = WrittenSuspended(job[w])]
      BY <1>2, <2>1, TypeEditSimple
    <3>2. acc'[u].type = acc[u].type /\ acc'[u].suspended = WrittenSuspended(job[w])
      BY <1>1, <3>1 DEF Row
    <3>3. QED
      BY <1>2, <2>1, <3>2
  <2>2. CASE u # job[w].user
    BY <1>2, <2>2, TypeEditSimple
  <2>3. QED
    BY <2>1, <2>2
<1>3. CASE EditType(w)
  <2>1. CASE u = job[w].user
    <3>1. acc'[u] = [acc[u] EXCEPT !.type = IF job[w].T = 0 THEN @ ELSE job[w].T]
      BY <1>3, <2>1, TypeEditType
    <3>2. acc'[u].type \in {acc[u].type, job[w].T} /\ acc'[u].suspended = acc[u].suspended
      BY <1>1, <3>1 DEF Row
    <3>3. QED
      BY <3>2
  <2>2. CASE u # job[w].user
    BY <1>3, <2>2, TypeEditType
  <2>3. QED
    BY <2>1, <2>2
<1>4. CASE EditPassword(w)
  <2>1. CASE u = job[w].user
    <3>1. acc'[u] \in {acc[u], [acc[u] EXCEPT !.passwd = job[w].P]}
      BY <1>4, <2>1, TypeEditPassword
    <3>2. acc'[u].type = acc[u].type /\ acc'[u].suspended = acc[u].suspended
      BY <1>1, <3>1 DEF Row
    <3>3. QED
      BY <3>2
  <2>2. CASE u # job[w].user
    BY <1>4, <2>2, TypeEditPassword
  <2>3. QED
    BY <2>1, <2>2
<1>5. CASE ResetIssue(w)
  <2>1. acc' = [acc EXCEPT ![job[w].user].key = TRUE]
    BY <1>5 DEF ResetIssue
  <2>2. QED
    BY <1>1, <2>1 DEF Row
<1>6. CASE ResetCommit(w)
  <2>1. acc' = [acc EXCEPT ![job[w].user].key = FALSE, ![job[w].user].passwd = job[w].pass]
    BY <1>6 DEF ResetCommit
  <2>2. QED
    BY <1>1, <2>1 DEF Row
<1>7. CASE UNCHANGED acc
  BY <1>7
<1>8. QED
  BY <1>2, <1>3, <1>4, <1>5, <1>6, <1>7
     DEF Writes, Expire, LoginCommit, LoginReturn, Logout, SsoInsert, EditLogin,
         LoginDeadlock, EditEnd, Delete, dbUnchanged

-----------------------------------------------------------------------------
(* Ranks. *)

LEMMA RanksReads ==
    ASSUME IType, RanksAreBounded, NEW w \in Worker, Reads(w)
    PROVE  RanksAreBounded'
<1>1. UNCHANGED acc
  BY DEF Reads, Tables
<1>2. TopRank \in {1, 2}
  BY DEF TopRank
<1>3. ASSUME NEW b \in Browser, NEW a \in User, NEW u \in User, NEW S \in BOOLEAN,
             NEW T \in AccountTypeID \cup {0}, NEW P \in Secret \cup {NoPass},
             EditStart(w, b, a, u, S, T, P)
      PROVE  job'[w].T <= TopRank
  <2>1. job'[w].T = T
    BY <1>3, EditStartJob
  <2>2. T \in {0, acc[u].type} \/ T <= acc[a].type
    BY <1>3 DEF EditStart, ValidForm, MayChangeType
  <2>3. acc[a].type \in 1..4 /\ acc[u].type \in 1..4 /\ T \in 0..4
    BY AccRow DEF Row, AccountTypeID
  <2>4. acc[u].type <= TopRank /\ acc[a].type <= TopRank
    BY DEF RanksAreBounded
  <2>5. QED
    BY <1>2, <2>1, <2>2, <2>3, <2>4
<1>4. ASSUME Deadlock(w)
      PROVE  job'[w].T <= TopRank
  BY <1>4, ITypeJobs, DeadlockJob DEF RanksAreBounded
<1>5. OthersStay(w) /\ job'[w].T <= TopRank
  BY <1>2, <1>3, <1>4, ReadsJob, IdleJobTyped DEF RanksAreBounded
<1>6. QED
  BY <1>1, <1>5 DEF RanksAreBounded, OthersStay, TopRank

LEMMA RanksWrites ==
    ASSUME IType, RanksAreBounded, NEW w \in Worker, Writes(w)
    PROVE  RanksAreBounded'
<1>1. TopRank \in {1, 2}
  BY DEF TopRank
<1>2. \A u \in User : acc'[u].type <= TopRank
  BY RowsWritten DEF RanksAreBounded
<1>3. \A v \in Worker : job'[v].T <= TopRank
  BY <1>1, WritesJob DEF RanksAreBounded, OthersStay
<1>4. QED
  BY <1>2, <1>3 DEF RanksAreBounded, TopRank

LEMMA RanksRegister ==
    ASSUME IType, RanksAreBounded, NEW x \in User, Register(x)
    PROVE  RanksAreBounded'
<1>1. TopRank \in {1, 2}
  BY DEF TopRank
<1>2. UNCHANGED job
  BY DEF Register
<1>3. \A u \in User : acc'[u].type \in {1, acc[u].type}
  BY AccRow DEF Register
<1>4. QED
  BY <1>1, <1>2, <1>3 DEF RanksAreBounded, TopRank

LEMMA RanksInit ==
    ASSUME Init
    PROVE  RanksAreBounded
<1>1. ASSUME NEW u \in User
      PROVE  acc[u].type <= TopRank
  <2>1. acc[u].type \in {1, 2} /\ (acc[u].type = 2 <=> u \in Staff)
    BY DEF Init
  <2>2. QED
    BY <2>1 DEF TopRank
<1>2. \A w \in Worker : job[w].T = 0
  BY IdleJobTyped DEF Init
<1>3. QED
  BY <1>1, <1>2 DEF RanksAreBounded, TopRank

LEMMA RanksStep ==
    ASSUME IType, RanksAreBounded, [Next]_vars
    PROVE  RanksAreBounded'
<1>1. CASE UNCHANGED <<acc, job>>
  BY <1>1 DEF RanksAreBounded, TopRank
<1>2. QED
  BY <1>1, Steps, RanksReads, RanksWrites, RanksRegister DEF Ageing, vars

\* Nobody gets a type that no account has had at first, however many forms
\* about each other's accounts are validated and carried out at once, and
\* whatever the editor's type has become in between: an editor gives nobody
\* more than what they have themselves when the form arrives
\* (validate.invalid_account_type).
THEOREM RanksStay == Spec => []NobodyOutranks
<1>1. RanksAreBounded => NobodyOutranks
  BY DEF RanksAreBounded, NobodyOutranks, TopRank
<1>2. Init => RanksAreBounded
  BY RanksInit
<1>3. IType /\ RanksAreBounded /\ [Next]_vars => RanksAreBounded'
  BY RanksStep
<1>4. QED
  BY <1>1, <1>2, <1>3, SpecIType, PTL DEF Spec

-----------------------------------------------------------------------------
(* Accounts and sessions come and go. *)

\* A login is refused by an account that is gone, and a deletion takes the
\* session along.
LEMMA SessionsWritten ==
    ASSUME IType, NEW w \in Worker, Writes(w), NEW u \in User
    PROVE  /\ session'[u].sid # 0 => session[u].sid # 0 \/ Here(u)
           /\ \/ here'[u] = here[u]
              \/ here'[u] = "gone" /\ session'[u].sid = 0
<1>1. SessionsTyped /\ RowsTyped /\ job[w].user \in User
  BY ITypeParts, RunningUser, WritesJob
<1>2. ASSUME UNCHANGED nextSid, session' = [session EXCEPT ![job[w].user] = NoSession]
      PROVE  /\ u = job[w].user => session'[u].sid = 0
             /\ u # job[w].user => session'[u] = session[u]
  BY <1>1, <1>2, SessionDropped
<1>3. CASE Expire(w) \/ Logout(w) \/ EditEnd(w) \/ ResetCommit(w)
  <2>1. /\ UNCHANGED <<nextSid, here>>
        /\ session' = [session EXCEPT ![job[w].user] = NoSession]
    BY <1>3 DEF Expire, Logout, EditEnd, ResetCommit, SessionAfterReset
  <2>2. QED
    BY <1>2, <2>1
<1>4. CASE Delete(w)
  <2>1. /\ UNCHANGED nextSid
        /\ session' = [session EXCEPT ![job[w].user] = NoSession]
        /\ here' = [here EXCEPT ![job[w].user] = "gone"]
    BY <1>4 DEF Delete
  <2>2. QED
    BY <1>1, <1>2, <2>1 DEF RowsTyped
<1>5. CASE LoginCommit(w) \/ SsoInsert(w) \/ EditLogin(w)
  <2>1. UNCHANGED here /\ Here(job[w].user)
    BY <1>5 DEF LoginCommit, SsoInsert, EditLogin
  <2>2. \/ UNCHANGED session
        \/ \E p \in Secret \cup {NoPass} : OpenSession(job[w].user, p)
    <3>1. job[w].pass \in Secret \cup {NoPass} /\ job[w].P \in Secret \cup {NoPass}
      BY <1>1, RunningUser, WritesJob DEF Job
    <3>2. QED
      BY <1>5, <3>1 DEF LoginCommit, SsoInsert, EditLogin
  <2>3. QED
    BY <1>1, <2>1, <2>2, SessionOpened
<1>6. CASE UNCHANGED <<session, here>>
  BY <1>6
<1>7. QED
  BY <1>3, <1>4, <1>5, <1>6
     DEF Writes, LoginReturn, ResetIssue, EditSimple, EditType, EditPassword, LoginDeadlock,
         dbUnchanged

LEMMA KnownReads ==
    ASSUME IType, IKnown, NEW w \in Worker, Reads(w)
    PROVE  IKnown'
<1>1. UNCHANGED <<here, acc, session>>
  BY DEF Reads, Tables
<1>2. ASSUME NEW b \in Browser, NEW a \in User, NEW u \in User, NEW S \in BOOLEAN,
             NEW T \in AccountTypeID \cup {0}, NEW P \in Secret \cup {NoPass},
             EditStart(w, b, a, u, S, T, P)
      PROVE  here[job'[w].user] # "new"
  <2>1. job'[w].user = u /\ Here(u)
    BY <1>2, EditStartJob DEF EditStart
  <2>2. QED
    BY <2>1 DEF Here
<1>3. ASSUME Deadlock(w)
      PROVE  here[job'[w].user] # "new"
  <2>1. ~Idle(w) /\ job'[w].user = job[w].user
    BY <1>3, ITypeJobs, DeadlockJob DEF At, Idle
  <2>2. QED
    BY <2>1 DEF IKnown
<1>4. \A u \in User : session[u].sid # 0 => Here(u)
  BY DEF IKnown, GoneHasNoSession
<1>5. OthersStay(w) /\ (~Idle(w)' => here[job'[w].user] # "new")
  BY <1>2, <1>3, <1>4, ReadsJob, IdleJobTyped DEF IKnown, Idle, Here
<1>6. QED
  BY <1>1, <1>5 DEF IKnown, OthersStay, GoneHasNoSession, Here, Idle

LEMMA KnownWrites ==
    ASSUME IType, IKnown, NEW w \in Worker, Writes(w)
    PROVE  IKnown'
<1>1. ASSUME NEW u \in User, session'[u].sid # 0
      PROVE  here'[u] = "here"
  BY <1>1, SessionsWritten DEF IKnown, GoneHasNoSession, Here
<1>2. ASSUME NEW u \in User, here'[u] = "new"
      PROVE  ~acc'[u].suspended
  <2>1. here[u] = "new" /\ ~acc[u].suspended
    BY <1>2, SessionsWritten DEF IKnown
  <2>2. u # job[w].user
    BY <2>1, WritesJob DEF IKnown
  <2>3. QED
    BY <2>1, <2>2, RowsWritten
<1>3. ASSUME NEW v \in Worker, ~Idle(v)'
      PROVE  here'[job'[v].user] # "new"
  <2>1. ~Idle(v) /\ job'[v].user = job[v].user
    BY <1>3, WritesJob DEF OthersStay, Idle
  <2>2. job[v].user \in User /\ here[job[v].user] # "new"
    BY <2>1, RunningUser DEF IKnown
  <2>3. QED
    BY <2>1, <2>2, SessionsWritten
<1>4. QED
  BY <1>1, <1>2, <1>3 DEF IKnown, GoneHasNoSession, Here

LEMMA KnownRegister ==
    ASSUME IType, IKnown, NEW x \in User, Register(x)
    PROVE  IKnown'
<1>1. UNCHANGED <<session, job>>
  BY DEF Register
<1>2. here \in [User -> {"new", "here", "gone"}] /\ here' = [here EXCEPT ![x] = "here"]
  BY ITypeParts DEF Register, RowsTyped
<1>3. /\ ~acc'[x].suspended
      /\ \A u \in User \ {x} : acc'[u] = acc[u]
  BY AccRow DEF Register
<1>4. \A w \in Worker : ~Idle(w) => job[w].user \in User
  BY RunningUser
<1>5. QED
  BY <1>1, <1>2, <1>3, <1>4 DEF IKnown, GoneHasNoSession, Here, Idle

LEMMA KnownStep ==
    ASSUME IType, IKnown, [Next]_vars
    PROVE  IKnown'
<1>1. ASSUME NEW x \in User, Ageing(x)
      PROVE  IKnown'
  BY <1>1, TypeAgeing DEF Ageing, IKnown, GoneHasNoSession, Here, Idle
<1>2. CASE UNCHANGED vars
  BY <1>2 DEF vars, IKnown, GoneHasNoSession, Here, Idle
<1>3. QED
  BY <1>1, <1>2, Steps, KnownReads, KnownWrites, KnownRegister

LEMMA KnownInit ==
    ASSUME Init
    PROVE  IKnown
<1>1. \A u \in User : session[u].sid = 0 /\ ~acc[u].suspended
  BY DEF Init, NoSession
<1>2. \A w \in Worker : Idle(w)
  BY IdleJobTyped DEF Init, Idle
<1>3. QED
  BY <1>1, <1>2 DEF IKnown, GoneHasNoSession

LEMMA SpecKnown == Spec => [](IType /\ IKnown)
<1>1. Init => IKnown
  BY KnownInit
<1>2. IType /\ IKnown /\ [Next]_vars => IKnown'
  BY KnownStep
<1>3. QED
  BY <1>1, <1>2, SpecIType, PTL DEF Spec

\* An account that was deleted has no session, however many logins, forms and
\* deletions were at work on it when it went: a login that was approved before
\* finds no row to reference (account_delete_post, User.login).
THEOREM GoneAreLoggedOut == Spec => []GoneHasNoSession
<1>1. IKnown => GoneHasNoSession
  BY DEF IKnown
<1>2. QED
  BY <1>1, SpecKnown, PTL

-----------------------------------------------------------------------------
(* Suspensions. *)

\* A form that waits for its first transaction has just come, or waited.
LEMMA ReadsForm ==
    ASSUME IType, NEW w \in Worker, Reads(w), At(w, "editSimple")'
    PROVE  \/ \E b \in Browser, a \in User, u \in User, S \in BOOLEAN,
                T \in AccountTypeID \cup {0}, P \in Secret \cup {NoPass} :
               EditStart(w, b, a, u, S, T, P)
           \/ Deadlock(w)
<1>1. job'[w].pc = "editSimple"
  BY DEF At
<1>2. job'[w] # IdleJob
  BY <1>1, IdleJobTyped
<1>3. QED
  BY <1>1, <1>2, ReadsJob

LEMMA CheckedReads ==
    ASSUME IType, FormsAreChecked, NEW w \in Worker, Reads(w)
    PROVE  FormsAreChecked'
<1>1. ASSUME NEW b \in Browser, NEW a \in User, NEW u \in User, NEW S \in BOOLEAN,
             NEW T \in AccountTypeID \cup {0}, NEW P \in Secret \cup {NoPass},
             EditStart(w, b, a, u, S, T, P), job'[w].S # job'[w].loaded
      PROVE  IsElevated(job'[w].rank)
  <2>1. /\ job'[w].S = S /\ job'[w].loaded = acc[u].suspended
        /\ job'[w].rank = acc[a].type
    BY <1>1, EditStartJob
  <2>2. S = acc[u].suspended \/ IsElevated(acc[a].type)
    BY <1>1 DEF EditStart, ValidForm, MaySuspend
  <2>3. QED
    BY <1>1, <2>1, <2>2
<1>2. ASSUME Deadlock(w), At(w, "editSimple")', job'[w].S # job'[w].loaded
      PROVE  IsElevated(job'[w].rank)
  <2>1. /\ At(w, "editSimple") /\ job'[w].S = job[w].S /\ job'[w].loaded = job[w].loaded
        /\ job'[w].rank = job[w].rank
    BY <1>2, ITypeJobs, DeadlockJob DEF At
  <2>2. QED
    BY <1>2, <2>1 DEF FormsAreChecked
<1>3. OthersStay(w)
  BY ReadsJob
<1>4. At(w, "editSimple")' /\ job'[w].S # job'[w].loaded => IsElevated(job'[w].rank)
  BY <1>1, <1>2, ReadsForm
<1>5. QED
  BY <1>3, <1>4 DEF FormsAreChecked, OthersStay, At

LEMMA CheckedStep ==
    ASSUME IType, FormsAreChecked, [Next]_vars
    PROVE  FormsAreChecked'
<1>1. ASSUME NEW w \in Worker, Writes(w)
      PROVE  FormsAreChecked'
  BY <1>1, WritesJob DEF FormsAreChecked, OthersStay, At
<1>2. CASE UNCHANGED job
  BY <1>2 DEF FormsAreChecked, At
<1>3. QED
  BY <1>1, <1>2, Steps, CheckedReads DEF Ageing, Register, vars

LEMMA NotRetriedStep ==
    ASSUME IType, "deadlock" \notin Faults, NothingIsRetried, [Next]_vars
    PROVE  NothingIsRetried'
<1>1. ASSUME NEW w \in Worker, Reads(w)
      PROVE  NothingIsRetried'
  <2>1. ~Deadlock(w)
    BY DEF Deadlock
  <2>2. ASSUME NEW b \in Browser, NEW a \in User, NEW u \in User, NEW S \in BOOLEAN,
               NEW T \in AccountTypeID \cup {0}, NEW P \in Secret \cup {NoPass},
               EditStart(w, b, a, u, S, T, P)
        PROVE  ~job'[w].retried
    BY <2>2, EditStartJob
  <2>3. ~job[w].retried
    BY DEF NothingIsRetried
  <2>4. OthersStay(w) /\ ~job'[w].retried
    BY <1>1, <2>1, <2>2, <2>3, ReadsJob, IdleJobTyped
  <2>5. QED
    BY <2>4 DEF NothingIsRetried, OthersStay
<1>2. ASSUME NEW w \in Worker, Writes(w)
      PROVE  NothingIsRetried'
  <2>1. ~LoginDeadlock(w)
    BY DEF LoginDeadlock
  <2>2. QED
    BY <1>2, <2>1, WritesJob DEF NothingIsRetried, OthersStay
<1>3. CASE UNCHANGED job
  BY <1>3 DEF NothingIsRetried
<1>4. QED
  BY <1>1, <1>2, <1>3, Steps DEF Ageing, Register, vars

LEMMA CurrentStep ==
    ASSUME IType, IKnown, OneWorker, LoadedIsCurrent, [Next]_vars
    PROVE  LoadedIsCurrent'
<1>1. ASSUME NEW w \in Worker, Reads(w)
      PROVE  LoadedIsCurrent'
  <2>1. UNCHANGED acc /\ Worker = {w}
    BY <1>1 DEF Reads, Tables, OneWorker
  <2>2. ASSUME NEW b \in Browser, NEW a \in User, NEW u \in User, NEW S \in BOOLEAN,
               NEW T \in AccountTypeID \cup {0}, NEW P \in Secret \cup {NoPass},
               EditStart(w, b, a, u, S, T, P)
        PROVE  acc[job'[w].user].suspended = job'[w].loaded
    BY <2>2, EditStartJob
  <2>3. ASSUME Deadlock(w), At(w, "editSimple")'
        PROVE  acc[job'[w].user].suspended = job'[w].loaded
    <3>1. At(w, "editSimple") /\ job'[w].user = job[w].user /\ job'[w].loaded = job[w].loaded
      BY <2>3, ITypeJobs, DeadlockJob DEF At
    <3>2. QED
      BY <3>1 DEF LoadedIsCurrent
  <2>4. At(w, "editSimple")' => acc[job'[w].user].suspended = job'[w].loaded
    BY <1>1, <2>2, <2>3, ReadsForm
  <2>5. QED
    BY <2>1, <2>4 DEF LoadedIsCurrent, At
<1>2. ASSUME NEW w \in Worker, Writes(w)
      PROVE  LoadedIsCurrent'
  <2>1. Worker = {w} /\ job'[w].pc # "editSimple"
    BY <1>2, WritesJob DEF OneWorker
  <2>2. QED
    BY <2>1 DEF LoadedIsCurrent, At
<1>3. ASSUME NEW x \in User, Register(x)
      PROVE  LoadedIsCurrent'
  <2>1. UNCHANGED job /\ here[x] = "new"
    BY <1>3 DEF Register
  <2>2. \A u \in User \ {x} : acc'[u] = acc[u]
    BY <1>3, AccRow DEF Register
  <2>3. ASSUME NEW w \in Worker, At(w, "editSimple")
        PROVE  job[w].user \in User \ {x}
    <3>1. ~Idle(w)
      BY <2>3 DEF At, Idle
    <3>2. QED
      BY <2>1, <3>1, RunningUser DEF IKnown
  <2>4. QED
    BY <2>1, <2>2, <2>3 DEF LoadedIsCurrent, At
<1>4. CASE UNCHANGED <<acc, job>>
  BY <1>4 DEF LoadedIsCurrent, At
<1>5. QED
  BY <1>1, <1>2, <1>3, <1>4, Steps DEF Ageing, vars

LEMMA LiftedInit ==
    ASSUME Init
    PROVE  FormsAreChecked /\ NothingIsRetried /\ LoadedIsCurrent
<1>1. \A w \in Worker : job[w].pc = "idle" /\ ~job[w].retried
  BY IdleJobTyped DEF Init
<1>2. QED
  BY <1>1 DEF FormsAreChecked, NothingIsRetried, LoadedIsCurrent, At

Lifting(u) == acc[u].suspended /\ Here(u)' /\ ~acc'[u].suspended

LEMMA LiftingStep ==
    ASSUME IType, IKnown, ILifted, [Next]_vars, NEW u \in User, Lifting(u)
    PROVE  \E w \in Worker : /\ job[w].pc = "editSimple" /\ job'[w].pc = "editType"
                             /\ job[w].user = u /\ IsElevated(job[w].rank)
<1>1. CASE UNCHANGED acc
  BY <1>1 DEF Lifting
<1>2. ASSUME NEW x \in User, Register(x)
      PROVE  FALSE
  <2>1. here[x] = "new" /\ ~acc[x].suspended
    BY <1>2 DEF Register, IKnown
  <2>2. \A v \in User \ {x} : acc'[v] = acc[v]
    BY <1>2, AccRow DEF Register
  <2>3. QED
    BY <2>1, <2>2 DEF Lifting
<1>3. ASSUME NEW w \in Worker, Writes(w)
      PROVE  /\ job[w].pc = "editSimple" /\ job'[w].pc = "editType"
             /\ job[w].user = u /\ IsElevated(job[w].rank)
  <2>1. /\ EditSimple(w) /\ u = job[w].user
        /\ ~WrittenSuspended(job[w])
    <3>1. acc[u].suspended # acc'[u].suspended
      BY DEF Lifting
    <3>2. QED
      BY <1>3, <3>1, RowsWritten DEF Lifting
  <2>2. At(w, "editSimple") /\ job[w] \in Job /\ acc[u].suspended
    BY <2>1, RunningUser DEF EditSimple, At, Idle, Lifting
  <2>3. ~job[w].S
    BY <2>1, <2>2 DEF WrittenSuspended
  <2>4. job[w].retried \/ job[w].S # job[w].loaded
    BY <2>1, <2>2 DEF WrittenSuspended
  <2>5. job[w].S # job[w].loaded
    <3>1. CASE job[w].retried
      <4>1. acc[u].suspended = job[w].loaded
        BY <2>1, <2>2, <3>1 DEF ILifted, NothingIsRetried, LoadedIsCurrent
      <4>2. QED
        BY <2>2, <2>3, <4>1
    <3>2. QED
      BY <2>4, <3>1
  <2>6. IsElevated(job[w].rank)
    BY <2>2, <2>5 DEF ILifted, FormsAreChecked
  <2>7. job'[w].pc = "editType"
    BY <2>1, ITypeJobs, EditSimpleJob
  <2>8. QED
    BY <2>1, <2>2, <2>6, <2>7 DEF At
<1>4. QED
  BY <1>1, <1>2, <1>3, Steps DEF Reads, Tables, Ageing, vars

\* A suspension is lifted only by a form that an elevated user has sent, as
\* long as no transaction is retried, or nobody else is at work: update.simple
\* leaves Suspended alone unless the form changes what was loaded, and
\* validate.invalid_suspend_permission has compared the two.
THEOREM LiftedByElevated ==
    ASSUME OneWorker \/ "deadlock" \notin Faults
    PROVE  Spec => SuspensionIsLiftedByElevated
<1> DEFINE Kept == IF "deadlock" \notin Faults THEN NothingIsRetried ELSE LoadedIsCurrent
<1>1. Init => FormsAreChecked /\ Kept
  BY LiftedInit
<1>2. IType /\ IKnown /\ FormsAreChecked /\ Kept /\ [Next]_vars
        => FormsAreChecked' /\ Kept'
  BY CheckedStep, NotRetriedStep, CurrentStep
<1>3. FormsAreChecked /\ Kept => ILifted
  BY DEF ILifted
<1>4. IType /\ IKnown /\ ILifted /\ [Next]_vars =>
        [\A u \in User :
           acc[u].suspended /\ Here(u)' /\ ~acc'[u].suspended
           => \E w \in Worker : /\ job[w].pc = "editSimple" /\ job'[w].pc = "editType"
                                /\ job[w].user = u /\ IsElevated(job[w].rank)]_vars
  BY LiftingStep DEF Lifting
<1> HIDE DEF Kept
<1>5. QED
  BY <1>1, <1>2, <1>3, <1>4, SpecKnown, PTL DEF Spec, SuspensionIsLiftedByElevated

-----------------------------------------------------------------------------
(* Sessions, with one worker that is not killed. *)

\* What Settled depends on.
SameAccount(u) ==
    /\ acc'[u].suspended = acc[u].suspended /\ acc'[u].passwd = acc[u].passwd
    /\ session'[u].sid = session[u].sid /\ opened'[u] = opened[u]
    /\ u \in kept' <=> u \in kept

LEMMA SettledStays ==
    ASSUME NEW u, SameAccount(u)
    PROVE  /\ Settled(u) => Settled(u)'
           /\ Knows(u) => Knows(u)'
BY DEF SameAccount, Settled, Knows

\* With the worker w: what a step has to show.
LEMMA SettledByWorker ==
    ASSUME IType', NEW w, Worker = {w},
           \A u \in User : (~Idle(w)' => job'[w].user # u) => Settled(u)',
           ~Idle(w)' => Settling(job[w], job[w].user)'
    PROVE  ISettled'
<1>1. ASSUME NEW u \in User, ~Busy(u)'
      PROVE  Settled(u)'
  BY <1>1 DEF Busy
<1>2. \A v \in Worker : ~Idle(v)' => Settling(job[v], job[v].user)'
  OBVIOUS
<1>3. QED
  BY <1>1, <1>2 DEF ISettled

LEMMA SettledNow ==
    ASSUME ISettled, NEW w, Worker = {w}
    PROVE  /\ \A u \in User : (~Idle(w) => job[w].user # u) => Settled(u)
           /\ ~Idle(w) => Settling(job[w], job[w].user)
BY DEF ISettled, Busy

\* A transaction leaves the other accounts alone.
LEMMA OthersUntouched ==
    ASSUME IType, NEW w \in Worker, Writes(w), NEW u \in User, u # job[w].user
    PROVE  SameAccount(u)
<1>1. SessionsTyped /\ RowsTyped /\ job[w].user \in User /\ acc \in [User -> Row]
  BY ITypeParts, RunningUser, WritesJob, AccRow
<1>2. session'[u].sid = session[u].sid /\ opened'[u] = opened[u]
  <2>1. CASE /\ session' = [session EXCEPT ![job[w].user] = NoSession]
             /\ UNCHANGED opened
    BY <1>1, <2>1 DEF SessionsTyped
  <2>2. CASE \E p \in Secret \cup {NoPass} : OpenSession(job[w].user, p)
    BY <1>1, <2>2, SessionOpened
  <2>3. CASE UNCHANGED <<session, opened>>
    BY <2>3
  <2>4. job[w].pass \in Secret \cup {NoPass} /\ job[w].P \in Secret \cup {NoPass}
    BY RunningUser, WritesJob DEF Job
  <2>5. QED
    BY <2>1, <2>2, <2>3, <2>4
       DEF Writes, Expire, LoginCommit, LoginReturn, Logout, SsoInsert, ResetIssue, ResetCommit,
           EditSimple, EditType, EditPassword, EditLogin, LoginDeadlock, EditEnd, Delete,
           dbUnchanged, SessionAfterReset
<1>3. acc'[u] = acc[u]
  <2>1. CASE EditSimple(w)
    BY <2>1, TypeEditSimple
  <2>2. CASE EditType(w)
    BY <2>2, TypeEditType
  <2>3. CASE EditPassword(w)
    BY <2>3, TypeEditPassword
  <2>4. CASE ResetIssue(w) \/ ResetCommit(w)
    BY <1>1, <2>4 DEF ResetIssue, ResetCommit
  <2>5. CASE UNCHANGED acc
    BY <2>5
  <2>6. QED
    BY <2>1, <2>2, <2>3, <2>4, <2>5
       DEF Writes, Expire, LoginCommit, LoginReturn, Logout, SsoInsert, EditLogin,
           LoginDeadlock, EditEnd, Delete, dbUnchanged
<1>4. u \in kept' <=> u \in kept
  BY DEF Writes, Expire, LoginCommit, LoginReturn, Logout, SsoInsert, ResetIssue, ResetCommit,
         EditSimple, EditType, EditPassword, EditLogin, LoginDeadlock, EditEnd, Delete,
         dbUnchanged
<1>5. QED
  BY <1>2, <1>3, <1>4 DEF SameAccount

\* So that a transaction has to show only what becomes of its own account.
LEMMA SettledByWrites ==
    ASSUME IType, ISettled, NEW w, Worker = {w}, Writes(w),
           NEW x \in User, x = job[w].user, Idle(w)' => Settled(x)',
           ~Idle(w)' => Settling(job[w], x)'
    PROVE  ISettled'
<1>1. IType' /\ ~Idle(w) /\ (Idle(w)' \/ job'[w].user = job[w].user)
  BY TypeWrites, WritesJob
<1>2. ASSUME NEW u \in User, ~Idle(w)' => job'[w].user # u
      PROVE  Settled(u)'
  <2>1. CASE u = x
    BY <1>1, <1>2, <2>1
  <2>2. CASE u # x
    <3>1. Settled(u)
      BY <2>2, SettledNow
    <3>2. QED
      BY <2>2, <3>1, OthersUntouched, SettledStays
  <2>3. QED
    BY <2>1, <2>2
<1>3. ~Idle(w)' => Settling(job[w], job[w].user)'
  <2>1. ASSUME ~Idle(w)'
        PROVE  job'[w].user = x
    BY <1>1, <2>1
  <2>2. QED
    BY <2>1 DEF Settling, Settled, Knows
<1>4. QED
  BY <1>1, <1>2, <1>3, SettledByWorker

LEMMA WorkerSettles ==
    ASSUME IType, ISettled, NEW w, Worker = {w}, ~Idle(w)
    PROVE  job[w].user \in User /\ Settling(job[w], job[w].user)
BY RunningUser, SettledNow

\* Expire, Logout, EditEnd, Delete and ResetCommit leave no session.
LEMMA SettledByDrops ==
    ASSUME IType, ISettled, NEW w, Worker = {w},
           Expire(w) \/ Logout(w) \/ EditEnd(w) \/ Delete(w) \/ ResetCommit(w)
    PROVE  ISettled'
<1>1. Writes(w) /\ ~Idle(w) /\ End(w)
  BY DEF Writes, Expire, Logout, EditEnd, Delete, ResetCommit, At, Idle
<1>2. PICK x \in User : x = job[w].user
  BY <1>1, WorkerSettles
<1>3. UNCHANGED nextSid /\ session' = [session EXCEPT ![x] = NoSession]
  BY <1>2 DEF Expire, Logout, EditEnd, Delete, ResetCommit, SessionAfterReset
<1>4. session'[x].sid = 0
  BY <1>3, ITypeParts, SessionDropped
<1>5. Settled(x)'
  BY <1>4 DEF Settled, Knows
<1>6. Idle(w)'
  BY <1>1, ITypeJobs, EndJob
<1>7. QED
  BY <1>1, <1>2, <1>5, <1>6, SettledByWrites

LEMMA SettledByResetIssue ==
    ASSUME IType, ISettled, NEW w, Worker = {w}, ResetIssue(w)
    PROVE  ISettled'
<1>1. Writes(w) /\ ~Idle(w) /\ End(w)
  BY DEF Writes, ResetIssue, At, Idle
<1>2. PICK x \in User : x = job[w].user
  BY <1>1, WorkerSettles
<1>3. Settled(x)
  BY <1>1, <1>2, WorkerSettles DEF Settling, ResetIssue, At
<1>4. acc' = [acc EXCEPT ![x].key = TRUE] /\ acc[x] \in Row
  BY <1>2, AccRow DEF ResetIssue
<1>5. acc'[x].suspended = acc[x].suspended /\ acc'[x].passwd = acc[x].passwd
  BY <1>4, AccRow DEF Row
<1>6. SameAccount(x)
  BY <1>5 DEF SameAccount, ResetIssue
<1>7. Settled(x)'
  BY <1>3, <1>6, SettledStays
<1>8. Idle(w)'
  BY <1>1, ITypeJobs, EndJob
<1>9. QED
  BY <1>1, <1>2, <1>7, <1>8, SettledByWrites

LEMMA SettledByLoginCommit ==
    ASSUME IType, ISettled, NEW w, Worker = {w}, LoginCommit(w)
    PROVE  ISettled'
<1>1. Writes(w) /\ ~Idle(w) /\ At(w, "loginCommit") /\ "loginReturn" \in PC
  BY DEF Writes, LoginCommit, At, Idle, PC
<1>2. PICK x \in User : x = job[w].user
  BY <1>1, WorkerSettles
<1>3. ~acc[x].suspended /\ acc[x].passwd = job[w].pass
  BY <1>1, <1>2, WorkerSettles DEF Settling, At
<1>4. OpenSession(x, job[w].pass) /\ job[w].pass \in Secret \cup {NoPass} /\ UNCHANGED acc
  BY <1>1, <1>2, RunningUser DEF LoginCommit
<1>5. opened'[x] = job[w].pass
  BY <1>4, SessionOpened
<1>6. Settled(x)' /\ ~acc'[x].suspended
  BY <1>3, <1>4, <1>5 DEF Settled, Knows
<1>7. job'[w].pc = "loginReturn"
  BY <1>1, ITypeJobs, GotoJob DEF LoginCommit
<1>8. Settling(job[w], x)'
  BY <1>6, <1>7 DEF Settling
<1>9. QED
  BY <1>1, <1>2, <1>6, <1>8, SettledByWrites

LEMMA SettledByLoginReturn ==
    ASSUME IType, ISettled, NEW w, Worker = {w}, LoginReturn(w)
    PROVE  ISettled'
<1>1. Writes(w) /\ ~Idle(w) /\ End(w)
  BY DEF Writes, LoginReturn, At, Idle
<1>2. PICK x \in User : x = job[w].user
  BY <1>1, WorkerSettles
<1>3. Settled(x)
  BY <1>1, <1>2, WorkerSettles DEF Settling, LoginReturn, At
<1>4. SameAccount(x)
  BY DEF LoginReturn, dbUnchanged, SameAccount
<1>5. Settled(x)'
  BY <1>3, <1>4, SettledStays
<1>6. Idle(w)'
  BY <1>1, ITypeJobs, EndJob
<1>7. QED
  BY <1>1, <1>2, <1>5, <1>6, SettledByWrites

LEMMA SettledBySsoInsert ==
    ASSUME IType, ISettled, NEW w, Worker = {w}, SsoInsert(w)
    PROVE  ISettled'
<1>1. Writes(w) /\ ~Idle(w) /\ End(w)
  BY DEF Writes, SsoInsert, At, Idle
<1>2. PICK x \in User : x = job[w].user
  BY <1>1, WorkerSettles
<1>3. Settled(x) /\ ~acc[x].suspended
  BY <1>1, <1>2, WorkerSettles DEF Settling, SsoInsert, At
<1>4. CASE session[x].sid # 0
  <2>1. SameAccount(x)
    BY <1>2, <1>4 DEF SsoInsert, SameAccount
  <2>2. QED
    <3>1. Settled(x)' /\ Idle(w)'
      BY <1>1, <1>3, <2>1, SettledStays, ITypeJobs, EndJob
    <3>2. QED
      BY <1>1, <1>2, <3>1, SettledByWrites
<1>5. CASE session[x].sid = 0
  <2>1. OpenSession(x, NoPass) /\ UNCHANGED acc
    BY <1>2, <1>5 DEF SsoInsert
  <2>2. opened'[x] = NoPass
    BY <2>1, SessionOpened
  <2>3. Settled(x)' /\ Idle(w)'
    BY <1>1, <1>3, <2>1, <2>2, ITypeJobs, EndJob DEF Settled, Knows
  <2>4. QED
    BY <1>1, <1>2, <2>3, SettledByWrites
<1>6. QED
  BY <1>4, <1>5

LEMMA SettledByEditSimple ==
    ASSUME IType, ISettled, NEW w, Worker = {w}, EditSimple(w)
    PROVE  ISettled'
<1>1. Writes(w) /\ At(w, "editSimple") /\ ~Idle(w)
  BY DEF Writes, EditSimple, At, Idle
<1>2. PICK x \in User : x = job[w].user
  BY <1>1, WorkerSettles
<1>3. Settled(x) /\ acc[x].suspended = job[w].loaded
  BY <1>1, <1>2, WorkerSettles DEF Settling, At
<1>4. WrittenSuspended(job[w]) = job[w].S
  <2>1. job[w].S \in BOOLEAN /\ job[w].loaded \in BOOLEAN
    BY <1>1, RunningUser DEF Job
  <2>2. QED
    BY <1>2, <1>3, <2>1 DEF WrittenSuspended
<1>5. acc'[x].suspended = job[w].S /\ acc'[x].passwd = acc[x].passwd
  <2>1. acc'[x] = [acc[x] EXCEPT !.suspended = WrittenSuspended(job[w])] /\ acc[x] \in Row
    BY <1>2, TypeEditSimple, AccRow
  <2>2. acc'[x] = [acc[x] EXCEPT !.suspended = job[w].S]
    BY <1>4, <2>1
  <2>3. QED
    BY <2>1, <2>2 DEF Row
<1>6. Knows(x)'
  BY <1>3, <1>5 DEF Settled, Knows, EditSimple
<1>7. job'[w].pc = "editType" /\ job'[w].S = job[w].S
  BY <1>1, ITypeJobs, EditSimpleJob
<1>8. Settling(job[w], x)' /\ ~Idle(w)'
  BY <1>5, <1>6, <1>7 DEF Settling, Idle
<1>9. QED
  BY <1>1, <1>2, <1>8, SettledByWrites

LEMMA SettledByEditType ==
    ASSUME IType, ISettled, NEW w, Worker = {w}, EditType(w)
    PROVE  ISettled'
<1>1. Writes(w) /\ At(w, "editType") /\ ~Idle(w)
  BY DEF Writes, EditType, At, Idle
<1>2. PICK x \in User : x = job[w].user
  BY <1>1, WorkerSettles
<1>3. Knows(x) /\ acc[x].suspended = job[w].S
  BY <1>1, <1>2, WorkerSettles DEF Settling, At
<1>4. acc'[x].suspended = acc[x].suspended /\ acc'[x].passwd = acc[x].passwd
  <2>1. /\ acc'[x] = [acc[x] EXCEPT !.type = IF job[w].T = 0 THEN @ ELSE job[w].T]
        /\ acc[x] \in Row
    BY <1>2, TypeEditType, AccRow
  <2>2. QED
    BY <2>1 DEF Row
<1>5. Knows(x)'
  BY <1>3, <1>4 DEF Knows, EditType
<1>6. job'[w].pc = "editPassword" /\ job'[w].S = job[w].S
  BY <1>1, ITypeJobs, EditTypeJob
<1>7. Settling(job[w], x)' /\ ~Idle(w)'
  BY <1>3, <1>4, <1>5, <1>6 DEF Settling, Idle
<1>8. QED
  BY <1>1, <1>2, <1>7, SettledByWrites

LEMMA SettledByEditPassword ==
    ASSUME IType, ISettled, NEW w, Worker = {w}, EditPassword(w)
    PROVE  ISettled'
<1>1. Writes(w) /\ At(w, "editPassword") /\ ~Idle(w)
  BY DEF Writes, EditPassword, At, Idle
<1>2. PICK x \in User : x = job[w].user
  BY <1>1, WorkerSettles
<1>3. Knows(x) /\ acc[x].suspended = job[w].S
  BY <1>1, <1>2, WorkerSettles DEF Settling, At
<1>4. CASE job[w].P \in {NoPass, acc[x].passwd}
  <2>1. UNCHANGED <<acc, kept, session, opened>>
    BY <1>2, <1>4 DEF EditPassword
  <2>2. Knows(x)' /\ acc'[x].suspended = job[w].S
    BY <1>3, <2>1 DEF Knows
  <2>3. job'[w].pc = "editSuspend" /\ job'[w].S = job[w].S
    BY <1>1, <1>2, <1>4, ITypeJobs, EditPasswordJob
  <2>4. Settling(job[w], x)' /\ ~Idle(w)'
    BY <2>2, <2>3 DEF Settling, Idle
  <2>5. QED
    BY <1>1, <1>2, <2>4, SettledByWrites
<1>5. CASE job[w].P \notin {NoPass, acc[x].passwd}
  <2>1. acc'[x].passwd = job[w].P /\ acc'[x].suspended = job[w].S
    <3>1. acc'[x] = [acc[x] EXCEPT !.passwd = job[w].P] /\ acc[x] \in Row
      BY <1>2, <1>5, TypeEditPassword, AccRow
    <3>2. QED
      BY <1>3, <3>1 DEF Row
  <2>2. job'[w].S = job[w].S
    BY <1>1, ITypeJobs, EditPasswordJob
  <2>3. CASE job[w].actor = x
    <3>1. job'[w].pc = "editLogin" /\ job'[w].P = job[w].P /\ job[w].P # NoPass
      BY <1>1, <1>2, <1>5, <2>3, ITypeJobs, EditPasswordJob
    <3>2. Settling(job[w], x)' /\ ~Idle(w)'
      BY <2>1, <2>2, <3>1 DEF Settling, Idle
    <3>3. QED
      BY <1>1, <1>2, <3>2, SettledByWrites
  <2>4. CASE job[w].actor # x
    <3>1. job'[w].pc = "editSuspend"
      BY <1>1, <1>2, <1>5, <2>4, ITypeJobs, EditPasswordJob
    <3>2. x \in kept'
      BY <1>2, <1>5, <2>4 DEF EditPassword
    <3>3. Settling(job[w], x)' /\ ~Idle(w)'
      BY <2>1, <2>2, <3>1, <3>2 DEF Settling, Knows, Idle
    <3>4. QED
      BY <1>1, <1>2, <3>3, SettledByWrites
  <2>5. QED
    BY <2>3, <2>4
<1>6. QED
  BY <1>4, <1>5

LEMMA SettledByEditLogin ==
    ASSUME IType, ISettled, NEW w, Worker = {w}, EditLogin(w)
    PROVE  ISettled'
<1>1. Writes(w) /\ At(w, "editLogin") /\ ~Idle(w)
  BY DEF Writes, EditLogin, At, Idle
<1>2. PICK x \in User : x = job[w].user
  BY <1>1, WorkerSettles
<1>3. /\ acc[x].suspended = job[w].S /\ acc[x].passwd = job[w].P /\ job[w].P # NoPass
      /\ job[w].S \in BOOLEAN /\ job[w].P \in Secret \cup {NoPass}
  BY <1>1, <1>2, WorkerSettles, RunningUser DEF Settling, At, Job
<1>4. UNCHANGED <<acc, kept>>
  BY DEF EditLogin
<1>5. Knows(x)' \/ job[w].S
  <2>1. CASE LoginApproved(x, job[w].P)
    <3>1. OpenSession(x, job[w].P)
      BY <1>2, <2>1 DEF EditLogin
    <3>2. opened'[x] = job[w].P
      BY <1>3, <3>1, SessionOpened
    <3>3. QED
      BY <1>3, <1>4, <3>2 DEF Knows
  <2>2. CASE ~LoginApproved(x, job[w].P)
    BY <1>3, <2>2 DEF LoginApproved
  <2>3. QED
    BY <2>1, <2>2
<1>6. job'[w].pc = "editSuspend" /\ job'[w].S = job[w].S
  BY <1>1, ITypeJobs, EditLoginJob
<1>7. Settling(job[w], x)' /\ ~Idle(w)'
  BY <1>3, <1>4, <1>5, <1>6 DEF Settling, Idle
<1>8. QED
  BY <1>1, <1>2, <1>7, SettledByWrites

LEMMA SettledByLoginDeadlock ==
    ASSUME IType, ISettled, NEW w, Worker = {w}, LoginDeadlock(w)
    PROVE  ISettled'
<1>1. Writes(w) /\ At(w, "editLogin") /\ ~Idle(w)
  BY DEF Writes, LoginDeadlock, At, Idle
<1>2. PICK x \in User : x = job[w].user
  BY <1>1, WorkerSettles
<1>3. acc[x].suspended = job[w].S
  BY <1>1, <1>2, WorkerSettles DEF Settling, At
<1>4. UNCHANGED <<acc, session, opened>> /\ x \in kept'
  BY <1>2 DEF LoginDeadlock
<1>5. job'[w].pc = "editPassword" /\ job'[w].S = job[w].S
  BY <1>1, ITypeJobs, LoginDeadlockJob
<1>6. Settling(job[w], x)' /\ ~Idle(w)'
  BY <1>3, <1>4, <1>5 DEF Settling, Knows, Idle
<1>7. QED
  BY <1>1, <1>2, <1>6, SettledByWrites

LEMMA SettledWrites ==
    ASSUME IType, ISettled, NEW w, Worker = {w}, Writes(w)
    PROVE  ISettled'
BY SettledByDrops, SettledByResetIssue, SettledByLoginCommit, SettledByLoginReturn,
   SettledBySsoInsert, SettledByEditSimple, SettledByEditType, SettledByEditPassword,
   SettledByEditLogin, SettledByLoginDeadlock
   DEF Writes

LEMMA TablesSettled ==
    ASSUME UNCHANGED Tables, NEW u
    PROVE  SameAccount(u)
BY DEF Tables, SameAccount

\* A handler that starts finds every account settled.
LEMMA SettledByBegin ==
    ASSUME IType, ISettled, NEW w, Worker = {w}, Idle(w), Reads(w),
           NEW pc \in {"expire", "logout", "sso", "resetIssue", "resetCommit", "delete",
                       "loginCommit"},
           NEW a \in User, NEW u \in User, NEW b \in Browser, NEW p \in Secret \cup {NoPass},
           Begin(w, pc, a, u, b, p),
           pc \in {"sso", "loginCommit"} => ~acc[u].suspended,
           pc = "loginCommit" => acc[u].passwd = p
    PROVE  ISettled'
<1>1. UNCHANGED Tables /\ IType'
  BY TypeReads DEF Reads
<1>2. \A v \in User : Settled(v)'
  BY <1>1, SettledNow, TablesSettled, SettledStays
<1>3. job'[w].pc = pc /\ job'[w].user = u /\ job'[w].pass = p
  <2>1. pc \in PC
    BY DEF PC
  <2>2. QED
    BY <2>1, BeginJob
<1>4. Settled(u)' /\ UNCHANGED acc
  BY <1>1, <1>2 DEF Tables
<1>5. Settling(job[w], job[w].user)'
  BY <1>3, <1>4 DEF Settling, Settled, Knows
<1>6. QED
  BY <1>1, <1>2, <1>5, SettledByWorker

LEMMA SettledByForm ==
    ASSUME IType, ISettled, NEW w, Worker = {w}, Reads(w),
           NEW b \in Browser, NEW a \in User, NEW u \in User, NEW S \in BOOLEAN,
           NEW T \in AccountTypeID \cup {0}, NEW P \in Secret \cup {NoPass},
           EditStart(w, b, a, u, S, T, P)
    PROVE  ISettled'
<1>1. UNCHANGED Tables /\ IType' /\ Idle(w)
  BY TypeReads DEF Reads, EditStart
<1>2. \A v \in User : Settled(v)'
  BY <1>1, SettledNow, TablesSettled, SettledStays
<1>3. job'[w].pc = "editSimple" /\ job'[w].user = u /\ job'[w].loaded = acc[u].suspended
  BY EditStartJob
<1>4. Settled(u)' /\ UNCHANGED acc
  BY <1>1, <1>2 DEF Tables
<1>5. Settling(job[w], job[w].user)'
  BY <1>3, <1>4 DEF Settling, Settled, Knows
<1>6. QED
  BY <1>1, <1>2, <1>5, SettledByWorker

\* A handler that goes on without a transaction, or ends.
LEMMA SettledByReads ==
    ASSUME IType, ISettled, NEW w, Worker = {w}, Reads(w), ~Idle(w),
           NEW x \in User, x = job[w].user,
           Idle(w)' => Settled(x),
           ~Idle(w)' => job'[w].user = x /\ Settling(job[w], x)'
    PROVE  ISettled'
<1>1. UNCHANGED Tables /\ IType'
  BY TypeReads DEF Reads
<1>2. ASSUME NEW u \in User, ~Idle(w)' => job'[w].user # u
      PROVE  Settled(u)'
  <2>1. Settled(u)
    BY <1>2, SettledNow
  <2>2. QED
    BY <1>1, <2>1, TablesSettled, SettledStays
<1>3. ~Idle(w)' => Settling(job[w], job[w].user)'
  BY DEF Settling, Settled, Knows
<1>4. QED
  BY <1>1, <1>2, <1>3, SettledByWorker

LEMMA SettledStarts ==
    ASSUME IType, ISettled, NEW w, Worker = {w}, Start(w)
    PROVE  ISettled'
<1>0. Reads(w)
  BY StartReads
<1>1. ASSUME NEW b \in Browser, ExpireStart(w, b)
      PROVE  ISettled'
  <2>1. PICK u \in User : Begin(w, "expire", u, u, b, NoPass)
    BY <1>1 DEF ExpireStart
  <2>2. Idle(w)
    BY <1>1 DEF ExpireStart
  <2>3. QED
    BY <1>0, <2>1, <2>2, SettledByBegin
<1>2. ASSUME NEW b \in Browser, NEW u \in User, LogoutStart(w, b, u)
      PROVE  ISettled'
  BY <1>0, <1>2, SettledByBegin DEF LogoutStart
<1>3. ASSUME NEW b \in Browser, NEW u \in User, SsoStart(w, b, u)
      PROVE  ISettled'
  BY <1>0, <1>3, SettledByBegin DEF SsoStart
<1>4. ASSUME NEW b \in Browser, NEW u \in User, NEW p \in Secret, LoginStart(w, b, u, p)
      PROVE  ISettled'
  BY <1>0, <1>4, SettledByBegin DEF LoginStart, LoginApproved
<1>5. ASSUME NEW b \in Browser, NEW u \in User, NEW p \in Secret, ResetStart(w, b, u, p)
      PROVE  ISettled'
  BY <1>0, <1>5, SettledByBegin DEF ResetStart
<1>6. ASSUME NEW b \in Browser, NEW a \in User, NEW u \in User, DeleteStart(w, b, a, u)
      PROVE  ISettled'
  BY <1>0, <1>6, SettledByBegin DEF DeleteStart
<1>7. ASSUME NEW b \in Browser, NEW a \in User, NEW u \in User, NEW S \in BOOLEAN,
             NEW T \in AccountTypeID \cup {0}, NEW P \in Secret \cup {NoPass},
             EditStart(w, b, a, u, S, T, P)
      PROVE  ISettled'
  BY <1>0, <1>7, SettledByForm
<1>8. QED
  BY <1>1, <1>2, <1>3, <1>4, <1>5, <1>6, <1>7 DEF Start

LEMMA SettledByLoginRetry ==
    ASSUME IType, ISettled, NEW w, Worker = {w}, Reads(w), LoginRetry(w)
    PROVE  ISettled'
<1>1. ~Idle(w) /\ At(w, "loginRetry")
  BY DEF LoginRetry, At, Idle
<1>2. PICK x \in User : x = job[w].user
  BY <1>1, WorkerSettles
<1>3. Settled(x)
  BY <1>1, <1>2, WorkerSettles DEF Settling, At
<1>4. CASE LoginApproved(x, job[w].pass)
  <2>1. Goto(w, "loginCommit") /\ "loginCommit" \in PC
    BY <1>2, <1>4 DEF LoginRetry, PC
  <2>2. /\ job'[w].pc = "loginCommit" /\ job'[w].user = x
        /\ job'[w].pass = job[w].pass
    BY <1>1, <1>2, <2>1, ITypeJobs, GotoJob
  <2>3. Settled(x)' /\ UNCHANGED acc
    BY <1>3, TablesSettled, SettledStays DEF Reads, Tables
  <2>4. Settling(job[w], x)' /\ ~Idle(w)'
    BY <1>4, <2>2, <2>3 DEF Settling, LoginApproved, Idle
  <2>5. QED
    BY <1>1, <1>2, <2>2, <2>4, SettledByReads
<1>5. CASE ~LoginApproved(x, job[w].pass)
  <2>1. Idle(w)'
    BY <1>2, <1>5, ITypeJobs, EndJob DEF LoginRetry
  <2>2. QED
    BY <1>1, <1>2, <1>3, <2>1, SettledByReads
<1>6. QED
  BY <1>4, <1>5

LEMMA SettledByEditSuspend ==
    ASSUME IType, ISettled, NEW w, Worker = {w}, Reads(w), EditSuspend(w)
    PROVE  ISettled'
<1>1. ~Idle(w) /\ At(w, "editSuspend")
  BY DEF EditSuspend, At, Idle
<1>2. PICK x \in User : x = job[w].user
  BY <1>1, WorkerSettles
<1>3. acc[x].suspended = job[w].S /\ (Knows(x) \/ job[w].S)
  BY <1>1, <1>2, WorkerSettles DEF Settling, At
<1>4. CASE job[w].S /\ session[x].sid # 0
  <2>1. Goto(w, "editEnd") /\ "editEnd" \in PC
    BY <1>2, <1>4 DEF EditSuspend, PC
  <2>2. job'[w].pc = "editEnd" /\ job'[w].user = x /\ job'[w].S = job[w].S
    BY <1>1, <1>2, <2>1, ITypeJobs, GotoJob
  <2>3. Settling(job[w], x)' /\ ~Idle(w)'
    BY <1>3, <1>4, <2>2 DEF Settling, Idle, Reads, Tables
  <2>4. QED
    BY <1>1, <1>2, <2>2, <2>3, SettledByReads
<1>5. CASE ~(job[w].S /\ session[x].sid # 0)
  <2>1. Idle(w)'
    BY <1>2, <1>5, ITypeJobs, EndJob DEF EditSuspend
  <2>2. Settled(x)
    BY <1>3, <1>5 DEF Settled, Knows
  <2>3. QED
    BY <1>1, <1>2, <2>1, <2>2, SettledByReads
<1>6. QED
  BY <1>4, <1>5

LEMMA SettledByDeadlock ==
    ASSUME IType, ISettled, NEW w, Worker = {w}, Reads(w), Deadlock(w)
    PROVE  ISettled'
<1>1. ~Idle(w) /\ (At(w, "loginCommit") \/ At(w, "editSimple") \/ At(w, "editEnd"))
  BY DEF Deadlock, At, Idle
<1>2. PICK x \in User : x = job[w].user
  BY <1>1, WorkerSettles
<1>3. Settling(job[w], x) /\ UNCHANGED acc
  BY <1>1, <1>2, WorkerSettles DEF Reads, Tables
<1>4. /\ \/ At(w, "loginCommit") /\ job'[w].pc = "loginRetry"
         \/ At(w, "editSimple") /\ job'[w].pc = "editSimple"
         \/ At(w, "editEnd") /\ job'[w].pc = "editSuspend"
      /\ job'[w].user = x /\ job'[w].loaded = job[w].loaded /\ job'[w].S = job[w].S
  BY <1>2, ITypeJobs, DeadlockJob
<1>5. ~At(w, "editEnd") => Settled(x)'
  BY <1>1, <1>3, TablesSettled, SettledStays DEF Settling, At, Reads
<1>6. Settling(job[w], x)'
  BY <1>3, <1>4, <1>5 DEF Settling, At
<1>7. ~Idle(w)'
  BY <1>4 DEF Idle
<1>8. QED
  BY <1>1, <1>2, <1>4, <1>6, <1>7, SettledByReads

LEMMA SettledByRowGone ==
    ASSUME IType, IKnown, ISettled, NEW w, Worker = {w}, Reads(w),
           NEW pc \in PC \ {"idle"}, RowGone(w, pc)
    PROVE  ISettled'
<1>1. ~Idle(w) /\ Idle(w)'
  BY ITypeJobs, EndJob DEF RowGone, At, Idle
<1>2. PICK x \in User : x = job[w].user
  BY <1>1, WorkerSettles
<1>3. session[x].sid = 0
  BY <1>2 DEF RowGone, IKnown, GoneHasNoSession
<1>4. Settled(x)
  BY <1>3 DEF Settled, Knows
<1>5. QED
  BY <1>1, <1>2, <1>4, SettledByReads

LEMMA SettledReads ==
    ASSUME IType, IKnown, ISettled, "crash" \notin Faults, NEW w, Worker = {w}, Reads(w)
    PROVE  ISettled'
BY SettledStarts, SettledByLoginRetry, SettledByEditSuspend, SettledByDeadlock,
   SettledByRowGone
   DEF Reads, Crash

LEMMA SettledRegister ==
    ASSUME IType, IKnown, ISettled, NEW w, Worker = {w}, NEW x \in User, Register(x)
    PROVE  ISettled'
<1>1. /\ UNCHANGED <<session, job, opened, kept>> /\ here[x] = "new"
      /\ ~acc'[x].suspended
      /\ \A u \in User \ {x} : acc'[u] = acc[u]
  BY AccRow DEF Register
<1>2. session[x].sid = 0
  BY <1>1 DEF IKnown, GoneHasNoSession, Here
<1>3. Settled(x)'
  BY <1>1, <1>2 DEF Settled, Knows
<1>4. \A u \in User \ {x} : SameAccount(u)
  BY <1>1 DEF SameAccount
<1>5. ASSUME NEW u \in User, ~Idle(w)' => job'[w].user # u
      PROVE  Settled(u)'
  <2>1. Settled(u)
    BY <1>1, <1>5, SettledNow DEF Idle
  <2>2. QED
    BY <1>3, <1>4, <2>1, SettledStays
<1>6. ASSUME ~Idle(w)'
      PROVE  Settling(job[w], job[w].user)'
  <2>1. ~Idle(w) /\ job'[w] = job[w]
    BY <1>1, <1>6 DEF Idle
  <2>2. PICK u \in User : u = job[w].user
    BY <2>1, WorkerSettles
  <2>3. Settling(job[w], u) /\ SameAccount(u)
    BY <1>1, <1>4, <2>1, <2>2, WorkerSettles DEF IKnown
  <2>4. QED
    BY <2>1, <2>2, <2>3 DEF Settling, Settled, Knows, SameAccount
<1>7. QED
  BY <1>5, <1>6, TypeRegister, SettledByWorker

\* Nothing that Settled looks at changes.
LEMMA SettledElsewhere ==
    ASSUME IType, IType', ISettled, NEW w, Worker = {w}, UNCHANGED job,
           \A u \in User : SameAccount(u)
    PROVE  ISettled'
<1>1. ASSUME NEW u \in User, ~Idle(w)' => job'[w].user # u
      PROVE  Settled(u)'
  <2>1. Settled(u)
    BY <1>1, SettledNow DEF Idle
  <2>2. QED
    BY <2>1, SettledStays
<1>2. ASSUME ~Idle(w)'
      PROVE  Settling(job[w], job[w].user)'
  <2>1. ~Idle(w) /\ job'[w] = job[w]
    BY <1>2 DEF Idle
  <2>2. PICK u \in User : u = job[w].user
    BY <2>1, WorkerSettles
  <2>3. Settling(job[w], u) /\ SameAccount(u)
    BY <2>1, <2>2, WorkerSettles
  <2>4. QED
    BY <2>1, <2>2, <2>3 DEF Settling, Settled, Knows, SameAccount
<1>3. QED
  BY <1>1, <1>2, SettledByWorker

LEMMA SettledStep ==
    ASSUME IType, IKnown, ISettled, OneWorker, "crash" \notin Faults, [Next]_vars
    PROVE  ISettled'
<1>1. PICK w : Worker = {w}
  BY DEF OneWorker
<1>2. ASSUME NEW x \in User, Ageing(x)
      PROVE  ISettled'
  <2>1. UNCHANGED job /\ IType' /\ \A u \in User : SameAccount(u)
    BY <1>2, TypeAgeing DEF Ageing, SameAccount
  <2>2. QED
    BY <1>1, <2>1, SettledElsewhere
<1>3. CASE UNCHANGED vars
  <2>1. UNCHANGED job /\ IType' /\ \A u \in User : SameAccount(u)
    BY <1>3, TypeStutter DEF vars, SameAccount
  <2>2. QED
    BY <1>1, <2>1, SettledElsewhere
<1>4. QED
  BY <1>1, <1>2, <1>3, Steps, SettledReads, SettledWrites, SettledRegister

LEMMA SettledInit ==
    ASSUME Init
    PROVE  ISettled
<1>1. \A u \in User : session[u].sid = 0
  BY DEF Init, NoSession
<1>2. \A w \in Worker : Idle(w)
  BY IdleJobTyped DEF Init, Idle
<1>3. QED
  BY <1>1, <1>2 DEF ISettled, Settled, Knows

\* With one worker that is not killed, whatever is retried: when no handler is
\* at work on an account, it has no session if it is suspended, and whoever has
\* its session knows the password it has now, unless an elevated user has set
\* that password, or a deadlock has undone the login that follows its change
\* by the owner (User.login, update.suspend, update.password, passreset_post).
THEOREM SessionsFollowAccounts ==
    ASSUME OneWorker, "crash" \notin Faults
    PROVE  Spec => [](SuspendedHasNoSession /\ SessionKnowsPassword)
<1>1. ISettled => SuspendedHasNoSession /\ SessionKnowsPassword
  BY DEF ISettled, Settled, Knows, SuspendedHasNoSession, SessionKnowsPassword
<1>2. Init => ISettled
  BY SettledInit
<1>3. IType /\ IKnown /\ ISettled /\ [Next]_vars => ISettled'
  BY SettledStep
<1>4. QED
  BY <1>1, <1>2, <1>3, SpecKnown, PTL DEF Spec

-----------------------------------------------------------------------------
(* Addresses. *)

\* The rows and the jobs.
AddrRow == [state : {"none", "here", "removed"}, Email : Address \cup {NoAddress},
            NormalizedEmail : {Normal[e] : e \in Address} \cup {Null},
            verified : BOOLEAN, token : Addr!Token \cup {0}, age : {"cooling", "live", "expired"}]
AddrJob == [pc : {"idle", "register", "edit", "mail", "verify", "resend"},
            user : User \cup {NoUser}, Email : Address \cup {NoAddress},
            old : Address \cup {NoAddress}]

Lives(g) == g.state = "here"

\* An account has an address, which is in normal form in NormalizedEmail unless
\* that is NULL, and its token was given out for that address; n is the next
\* token and m what the tokens were given out for.
AddrRowOK(g, n, m) ==
    /\ g \in AddrRow
    /\ Lives(g) => /\ g.Email \in Address /\ g.NormalizedEmail \in {Normal[g.Email], Null}
                   /\ g.token < n /\ (g.token # 0 => m[g.token] = g.Email)

AddrJobOK(j) ==
    /\ j \in AddrJob
    /\ j.pc # "idle" => j.user \in User
    /\ j.pc \in {"register", "edit"} => j.Email \in Address

OwnToken(g, h) == Lives(g) /\ Lives(h) /\ g.token = h.token => g.token = 0

AddrRowsTyped ==
    /\ users \in [User -> AddrRow] /\ \A u \in User : AddrRowOK(users[u], nextToken, mintedFor)
    /\ \A u, v \in User : u # v => OwnToken(users[u], users[v])
    /\ nextToken \in 1..MaxToken + 1
    /\ mintedFor \in [Addr!Token -> Address \cup {NoAddress}]
AddrJobsTyped ==
    task \in [Worker -> AddrJob] /\ \A w \in Worker : AddrJobOK(task[w])
IAddrType ==
    /\ AddrRowsTyped /\ AddrJobsTyped
    /\ mailed \subseteq Addr!Token
    /\ original \in [User -> Address \cup {NoAddress}]

LEMMA AddrTypeGiven == IAddrType => Addr!TypeOK
  BY DEF IAddrType, AddrRowsTyped, AddrJobsTyped, Addr!TypeOK, AddrRow, AddrJob, AddrRowOK, Lives,
         Addr!Here, OwnToken

-----------------------------------------------------------------------------
\* What a row becomes when it is removed, verified, aged or given a token.
LEMMA NoRowIsARow == Addr!NoRow \in AddrRow /\ ~Lives(Addr!NoRow) /\ Addr!Removed \in AddrRow
                       /\ ~Lives(Addr!Removed)
  BY DEF Addr!NoRow, Addr!Removed, AddrRow, Lives

LEMMA IdleIsAJob == AddrJobOK(Addr!IdleJob) /\ Addr!IdleJob \in AddrJob
  BY DEF Addr!IdleJob, AddrJobOK, AddrJob

\* A token more does not matter to the rows.
LEMMA TokensStay ==
  ASSUME NEW g, NEW n \in Addr!Token, NEW m \in [Addr!Token -> Address \cup {NoAddress}], NEW e,
         AddrRowOK(g, n, m)
  PROVE  AddrRowOK(g, n + 1, [m EXCEPT ![n] = e])
<1>1. g.token \in Addr!Token \cup {0}
  BY DEF AddrRowOK, AddrRow
<1>2. Lives(g) => g.token < n /\ g.token < n + 1 /\ g.token # n
  BY <1>1 DEF AddrRowOK, Addr!Token
<1>3. Lives(g) /\ g.token # 0 => [m EXCEPT ![n] = e][g.token] = g.Email
  BY <1>1, <1>2 DEF AddrRowOK
<1> QED
  BY <1>2, <1>3 DEF AddrRowOK

\* A row with the next token is in order, if its address is what the token is
\* given out for.
LEMMA IssuedIsInOrder ==
  ASSUME Addr!BoundAssumption, NEW g \in AddrRow, NEW n \in Addr!Token,
         NEW m \in [Addr!Token -> Address \cup {NoAddress}],
         g.Email \in Address, g.NormalizedEmail \in {Normal[g.Email], Null}
  PROVE  LET h == [g EXCEPT !.token = n, !.age = "cooling"] IN
         /\ AddrRowOK(h, n + 1, [m EXCEPT ![n] = g.Email])
         /\ h.token = n /\ h.state = g.state /\ h.Email = g.Email
         /\ h.NormalizedEmail = g.NormalizedEmail
<1> DEFINE h == [g EXCEPT !.token = n, !.age = "cooling"]
<1>1. /\ h \in AddrRow /\ h.token = n /\ h.state = g.state /\ h.Email = g.Email
      /\ h.NormalizedEmail = g.NormalizedEmail
  BY DEF AddrRow
<1>2. n \in Nat /\ n < n + 1
  BY DEF Addr!Token, Addr!BoundAssumption
<1>3. [m EXCEPT ![n] = g.Email][n] = g.Email
  OBVIOUS
<1> QED
  BY <1>1, <1>2, <1>3 DEF AddrRowOK

-----------------------------------------------------------------------------
\* One row changes, and gets no token.
LEMMA RowKept ==
  ASSUME AddrRowsTyped, NEW u \in User, NEW g, users' = [users EXCEPT ![u] = g],
         AddrRowOK(g, nextToken, mintedFor), g.token \in {0, users[u].token},
         Lives(g) => Lives(users[u]), UNCHANGED <<nextToken, mintedFor>>
  PROVE  AddrRowsTyped'
<1>1. g \in AddrRow /\ users' \in [User -> AddrRow] /\ users'[u] = g
  BY DEF AddrRowOK, AddrRowsTyped
<1>2. \A v \in User : v # u => users'[v] = users[v]
  BY DEF AddrRowsTyped
<1>3. \A v \in User : AddrRowOK(users'[v], nextToken, mintedFor)
  BY <1>1, <1>2 DEF AddrRowsTyped
<1>4. \A v, x \in User : v # x => OwnToken(users'[v], users'[x])
  BY <1>1, <1>2 DEF AddrRowsTyped, OwnToken
<1> QED
  BY <1>1, <1>3, <1>4 DEF AddrRowsTyped

LEMMA IssuedFields ==
  ASSUME NEW g \in AddrRow
  PROVE  /\ Addr!Issued(g).state = g.state /\ Addr!Issued(g).Email = g.Email
         /\ Addr!Issued(g).NormalizedEmail = g.NormalizedEmail
         /\ Addr!Issued(g).verified = g.verified
  BY DEF Addr!Issued, AddrRow

\* One row changes, and gets the next token.
LEMMA RowIssued ==
  ASSUME Addr!BoundAssumption, AddrRowsTyped, NEW u \in User, NEW e \in Address, NEW g \in AddrRow,
         g.Email = e, g.NormalizedEmail \in {Normal[e], Null},
         Addr!Issue(e), users' = [users EXCEPT ![u] = Addr!Issued(g)]
  PROVE  AddrRowsTyped'
<1> DEFINE h == Addr!Issued(g)
<1>1. /\ nextToken \in Addr!Token /\ nextToken' = nextToken + 1
      /\ mintedFor' = [mintedFor EXCEPT ![nextToken] = e]
      /\ mintedFor \in [Addr!Token -> Address \cup {NoAddress}]
  BY DEF Addr!Issue, AddrRowsTyped, Addr!Token, Addr!BoundAssumption
<1>2. /\ AddrRowOK(h, nextToken', mintedFor') /\ h.token = nextToken
      /\ h.state = g.state /\ h.Email = e /\ h.NormalizedEmail = g.NormalizedEmail
  BY <1>1, IssuedIsInOrder DEF Addr!Issued
<1>3. nextToken' \in 1..MaxToken + 1 /\ mintedFor' \in [Addr!Token -> Address \cup {NoAddress}]
  <2>1. nextToken' \in 1..MaxToken + 1
    BY <1>1 DEF Addr!Token, Addr!BoundAssumption
  <2> QED
    BY <2>1, <1>1
<1> HIDE DEF h
<1>4. h \in AddrRow /\ users' = [users EXCEPT ![u] = h]
  BY <1>2 DEF AddrRowOK, h
<1>5. users' \in [User -> AddrRow] /\ users'[u] = h /\ \A v \in User : v # u => users'[v] = users[v]
  BY <1>4 DEF AddrRowsTyped
<1>6. \A v \in User : AddrRowOK(users[v], nextToken', mintedFor')
  BY <1>1, TokensStay DEF AddrRowsTyped
<1>7. \A v \in User : AddrRowOK(users'[v], nextToken', mintedFor')
  BY <1>2, <1>5, <1>6
<1>8. \A v \in User : Lives(users[v]) => users[v].token # nextToken
  <2> SUFFICES ASSUME NEW v \in User, Lives(users[v]) PROVE users[v].token # nextToken
    OBVIOUS
  <2>1. users[v].token < nextToken /\ users[v].token \in Addr!Token \cup {0}
    BY DEF AddrRowsTyped, AddrRowOK, AddrRow
  <2> QED
    BY <2>1, <1>1 DEF Addr!Token
<1>9. \A v, x \in User : v # x => OwnToken(users'[v], users'[x])
  BY <1>2, <1>5, <1>8 DEF AddrRowsTyped, OwnToken
<1> QED
  BY <1>3, <1>5, <1>7, <1>9 DEF AddrRowsTyped

\* A worker goes on with another job.
LEMMA JobSet ==
  ASSUME AddrJobsTyped, NEW w \in Worker, NEW j, AddrJobOK(j), task' = [task EXCEPT ![w] = j]
  PROVE  AddrJobsTyped' /\ task'[w] = j /\ \A x \in Worker : x # w => task'[x] = task[x]
  BY DEF AddrJobsTyped, AddrJobOK

LEMMA JobEnds ==
  ASSUME AddrJobsTyped, NEW w \in Worker, Addr!End(w)
  PROVE  AddrJobsTyped' /\ task'[w] = Addr!IdleJob /\ \A x \in Worker : x # w => task'[x] = task[x]
  BY JobSet, IdleIsAJob DEF Addr!End

LEMMA JobMails ==
  ASSUME AddrJobsTyped, NEW w \in Worker, Addr!Goto(w, "mail"), task[w].pc # "idle"
  PROVE  /\ AddrJobsTyped' /\ task'[w].pc = "mail"
         /\ \A x \in Worker : x # w => task'[x] = task[x]
<1>1. task[w] \in AddrJob /\ task[w].user \in User
  BY DEF AddrJobsTyped, AddrJobOK
<1>2. AddrJobOK([task[w] EXCEPT !.pc = "mail"]) /\ [task[w] EXCEPT !.pc = "mail"].pc = "mail"
  BY <1>1 DEF AddrJobOK, AddrJob
<1>3. task' = [task EXCEPT ![w] = [task[w] EXCEPT !.pc = "mail"]]
  BY DEF Addr!Goto
<1> QED
  BY <1>2, <1>3, JobSet

-----------------------------------------------------------------------------
\* What Register and Edit make of a row, before it gets its token.
NewRow(e) == [Addr!NoRow EXCEPT !.state = "here", !.Email = e, !.NormalizedEmail = Normal[e]]
NewAddress(g, e) ==
    [g EXCEPT !.Email = e, !.NormalizedEmail = Normal[e], !.verified = FALSE]

LEMMA NewRowIsARow ==
  ASSUME NEW e \in Address
  PROVE  /\ NewRow(e) \in AddrRow /\ Lives(NewRow(e)) /\ NewRow(e).Email = e
         /\ NewRow(e).NormalizedEmail = Normal[e]
  BY DEF NewRow, Addr!NoRow, AddrRow, Lives

LEMMA NewAddressIsARow ==
  ASSUME NEW g \in AddrRow, NEW e \in Address
  PROVE  /\ NewAddress(g, e) \in AddrRow /\ NewAddress(g, e).state = g.state
         /\ NewAddress(g, e).Email = e /\ NewAddress(g, e).NormalizedEmail = Normal[e]
         /\ ~NewAddress(g, e).verified
  BY DEF NewAddress, AddrRow

LEMMA RegisterWrites ==
  ASSUME NEW w \in Worker, Addr!Register(w), Addr!IndexAllows(task[w].user, task[w].Email)
  PROVE  /\ Addr!Issue(task[w].Email) /\ Addr!Goto(w, "mail")
         /\ users' = [users EXCEPT ![task[w].user] = Addr!Issued(NewRow(task[w].Email))]
  BY DEF Addr!Register, NewRow

LEMMA EditWrites ==
  ASSUME AddrRowsTyped, AddrJobsTyped, NEW w \in Worker, Addr!Edit(w),
         task[w].Email # task[w].old, Addr!Here(task[w].user), Addr!IndexAllows(task[w].user,
           task[w].Email)
  PROVE  /\ Addr!Issue(task[w].Email) /\ Addr!Goto(w, "mail")
         /\ users' = [users EXCEPT ![task[w].user] =
                      Addr!Issued(NewAddress(users[task[w].user], task[w].Email))]
  BY DEF Addr!Edit, NewAddress

\* Who registers or edits does it for a user, with an address.
LEMMA PendingJob ==
  ASSUME AddrJobsTyped, NEW w \in Worker, task[w].pc # "idle"
  PROVE  task[w].user \in User /\ (task[w].pc \in {"register", "edit"} => task[w].Email \in Address)
  BY DEF AddrJobsTyped, AddrJobOK

LEMMA RegisterTyped ==
  ASSUME Addr!BoundAssumption, AddrRowsTyped, AddrJobsTyped, NEW w \in Worker, Addr!Register(w)
  PROVE  AddrRowsTyped' /\ AddrJobsTyped'
<1> DEFINE u == task[w].user
           e == task[w].Email
<1>1. task[w].pc = "register" /\ u \in User /\ e \in Address
  BY PendingJob DEF Addr!Register, Addr!At
<1>2. CASE Addr!IndexAllows(u, e)
  <2>1. Addr!Issue(e) /\ Addr!Goto(w, "mail")
          /\ users' = [users EXCEPT ![u] = Addr!Issued(NewRow(e))]
    BY <1>2, RegisterWrites
  <2> QED
    BY <2>1, <1>1, NewRowIsARow, RowIssued, JobMails
<1>3. CASE ~Addr!IndexAllows(u, e)
  <2>1. Addr!End(w) /\ UNCHANGED <<users, nextToken, mintedFor>>
    BY <1>3 DEF Addr!Register
  <2> QED
    BY <2>1, JobEnds DEF AddrRowsTyped
<1> QED
  BY <1>2, <1>3

LEMMA EditTyped ==
  ASSUME Addr!BoundAssumption, AddrRowsTyped, AddrJobsTyped, NEW w \in Worker, Addr!Edit(w)
  PROVE  AddrRowsTyped' /\ AddrJobsTyped'
<1> DEFINE u == task[w].user
           e == task[w].Email
           ok == e # task[w].old /\ Addr!Here(u) /\ Addr!IndexAllows(u, e)
<1>1. task[w].pc = "edit" /\ u \in User /\ e \in Address
  BY PendingJob DEF Addr!Edit, Addr!At
<1>2. CASE ok
  <2>1. /\ Addr!Issue(e) /\ Addr!Goto(w, "mail")
        /\ users' = [users EXCEPT ![u] = Addr!Issued(NewAddress(users[u], e))]
    BY <1>2, EditWrites
  <2>2. users[u] \in AddrRow
    BY <1>1 DEF AddrRowsTyped
  <2>3. /\ NewAddress(users[u], e) \in AddrRow /\ NewAddress(users[u], e).Email = e
        /\ NewAddress(users[u], e).NormalizedEmail = Normal[e]
    BY <1>1, <2>2, NewAddressIsARow
  <2>4. AddrRowsTyped'
    BY <1>1, <2>1, <2>3, RowIssued
  <2> QED
    BY <1>1, <2>1, <2>4, JobMails
<1>3. CASE ~ok
  <2>1. Addr!End(w) /\ UNCHANGED <<users, nextToken, mintedFor>>
    BY <1>3 DEF Addr!Edit
  <2> QED
    BY <2>1, JobEnds DEF AddrRowsTyped
<1> QED
  BY <1>2, <1>3

LEMMA ResendTyped ==
  ASSUME Addr!BoundAssumption, AddrRowsTyped, AddrJobsTyped, NEW w \in Worker, Addr!Resend(w)
  PROVE  AddrRowsTyped' /\ AddrJobsTyped'
<1> DEFINE u == task[w].user
<1>1. task[w].pc = "resend" /\ u \in User
  BY PendingJob DEF Addr!Resend, Addr!At
<1>2. CASE Addr!Here(u)
  <2>1. /\ Addr!Issue(users[u].Email) /\ Addr!Goto(w, "mail")
        /\ users' = [users EXCEPT ![u] = Addr!Issued(users[u])]
    BY <1>1, <1>2 DEF Addr!Resend, AddrRowsTyped
  <2>2. /\ users[u] \in AddrRow /\ users[u].Email \in Address
        /\ users[u].NormalizedEmail \in {Normal[users[u].Email], Null}
    BY <1>1, <1>2 DEF AddrRowsTyped, AddrRowOK, Addr!Here, Lives
  <2> QED
    BY <2>1, <2>2, <1>1, RowIssued, JobMails
<1>3. CASE ~Addr!Here(u)
  <2>1. Addr!End(w) /\ UNCHANGED <<users, nextToken, mintedFor>>
    BY <1>3 DEF Addr!Resend
  <2> QED
    BY <2>1, JobEnds DEF AddrRowsTyped
<1> QED
  BY <1>2, <1>3

\* A row that is verified, ages or is removed has the same address and no
\* other token.
VerifiedRow(g) == [g EXCEPT !.verified = TRUE, !.token = 0, !.age = "expired"]
AgedRow(g) == [g EXCEPT !.age = IF @ = "cooling" THEN "live" ELSE "expired"]

LEMMA VerifiedIsInOrder ==
  ASSUME NEW g, NEW n, NEW m, AddrRowOK(g, n, m), 0 < n
  PROVE  /\ AddrRowOK(VerifiedRow(g), n, m) /\ VerifiedRow(g).token = 0
         /\ VerifiedRow(g).state = g.state /\ VerifiedRow(g).Email = g.Email
         /\ VerifiedRow(g).NormalizedEmail = g.NormalizedEmail
  BY DEF AddrRowOK, AddrRow, VerifiedRow, Lives

LEMMA AgedIsInOrder ==
  ASSUME NEW g, NEW n, NEW m, AddrRowOK(g, n, m)
  PROVE  /\ AddrRowOK(AgedRow(g), n, m) /\ AgedRow(g).token = g.token
         /\ AgedRow(g).state = g.state /\ AgedRow(g).Email = g.Email
         /\ AgedRow(g).NormalizedEmail = g.NormalizedEmail /\ AgedRow(g).verified = g.verified
         /\ (g.age # "cooling" => AgedRow(g).age # "cooling")
  BY DEF AddrRowOK, AddrRow, AgedRow, Lives

LEMMA VerifyWrites ==
  ASSUME AddrRowsTyped, AddrJobsTyped, NEW w \in Worker, Addr!Verify(w)
  PROVE  /\ task[w].user \in User /\ Addr!End(w)
         /\ UNCHANGED <<nextToken, mintedFor, mailed, original>>
         /\ users' = IF Addr!Here(task[w].user)
                   THEN [users EXCEPT ![task[w].user] = VerifiedRow(users[task[w].user])] ELSE users
<1>1. task[w].pc = "verify"
  BY DEF Addr!Verify, Addr!At
<1>2. task[w].user \in User
  BY <1>1, PendingJob
<1>3. ASSUME NEW u \in User
      PROVE  [users EXCEPT ![u].verified = TRUE, ![u].token = 0, ![u].age = "expired"]
               = [users EXCEPT ![u] = VerifiedRow(users[u])]
  BY DEF AddrRowsTyped, AddrRow, VerifiedRow
<1> QED
  BY <1>2, <1>3 DEF Addr!Verify

LEMMA VerifyTyped ==
  ASSUME Addr!BoundAssumption, AddrRowsTyped, AddrJobsTyped, NEW w \in Worker, Addr!Verify(w)
  PROVE  AddrRowsTyped' /\ AddrJobsTyped'
<1> DEFINE u == task[w].user
<1>1. /\ u \in User /\ Addr!End(w) /\ UNCHANGED <<nextToken, mintedFor>>
      /\ users' = IF Addr!Here(u) THEN [users EXCEPT ![u] = VerifiedRow(users[u])] ELSE users
  BY VerifyWrites
<1>2. AddrJobsTyped'
  BY <1>1, JobEnds
<1>3. AddrRowOK(users[u], nextToken, mintedFor) /\ 0 < nextToken
  BY <1>1 DEF AddrRowsTyped, Addr!BoundAssumption
<1>4. /\ AddrRowOK(VerifiedRow(users[u]), nextToken, mintedFor)
      /\ VerifiedRow(users[u]).token = 0
      /\ Lives(VerifiedRow(users[u])) => Lives(users[u])
  BY <1>3, VerifiedIsInOrder DEF Lives
<1> HIDE DEF u
<1>5. ASSUME Addr!Here(u) PROVE AddrRowsTyped'
  BY <1>1, <1>4, <1>5, RowKept
<1>6. ASSUME ~Addr!Here(u) PROVE AddrRowsTyped'
  BY <1>1, <1>6 DEF AddrRowsTyped
<1> QED
  BY <1>2, <1>5, <1>6

LEMMA AgeTyped ==
  ASSUME AddrRowsTyped, NEW u \in User, Addr!Age(u)
  PROVE  AddrRowsTyped' /\ users' = [users EXCEPT ![u] = AgedRow(users[u])]
<1>1. users' = [users EXCEPT ![u] = AgedRow(users[u])] /\ UNCHANGED <<nextToken, mintedFor>>
  BY DEF Addr!Age, AgedRow, AddrRowsTyped, AddrRow
<1>2. AddrRowOK(users[u], nextToken, mintedFor)
  BY DEF AddrRowsTyped
<1> QED
  BY <1>1, <1>2, AgedIsInOrder, RowKept DEF Lives

LEMMA DeleteTyped ==
  ASSUME AddrRowsTyped, NEW u \in User, Addr!Delete(u)
  PROVE  AddrRowsTyped'
<1>1. Addr!Removed.token = 0 /\ AddrRowOK(Addr!Removed, nextToken, mintedFor)
  BY NoRowIsARow DEF AddrRowOK, Addr!Removed, Addr!NoRow
<1> QED
  BY <1>1, RowKept, NoRowIsARow DEF Addr!Delete

\* Checks read the row and set up a job; a mail ends one.
LEMMA CheckSets ==
  ASSUME AddrRowsTyped, AddrJobsTyped, NEW w \in Worker,
         Addr!RegisterCheck(w) \/ Addr!EditCheck(w) \/ Addr!VerifyRead(w) \/ Addr!ResendCheck(w)
  PROVE  /\ \E j : AddrJobOK(j) /\ task' = [task EXCEPT ![w] = j]
         /\ UNCHANGED <<users, nextToken, mailed, original, mintedFor>>
<1>1. CASE Addr!RegisterCheck(w)
  <2>1. PICK u \in User, e \in Address :
           task' = [task EXCEPT ![w] =
             [Addr!IdleJob EXCEPT !.pc = "register", !.user = u, !.Email = e]]
    BY <1>1 DEF Addr!RegisterCheck
  <2>2. AddrJobOK([Addr!IdleJob EXCEPT !.pc = "register", !.user = u, !.Email = e])
    BY DEF AddrJobOK, AddrJob, Addr!IdleJob
  <2> QED
    BY <1>1, <2>1, <2>2 DEF Addr!RegisterCheck
<1>2. CASE Addr!EditCheck(w)
  <2>1. PICK u \in User, e \in Address :
           /\ Addr!Here(u)
           /\ task' = [task EXCEPT ![w] =
                [pc |-> "edit", user |-> u, Email |-> e, old |-> users[u].Email]]
    BY <1>2 DEF Addr!EditCheck
  <2>2. users[u].Email \in Address
    BY <2>1 DEF AddrRowsTyped, AddrRowOK, Addr!Here, Lives
  <2>3. AddrJobOK([pc |-> "edit", user |-> u, Email |-> e, old |-> users[u].Email])
    BY <2>2 DEF AddrJobOK, AddrJob
  <2> QED
    BY <1>2, <2>1, <2>3 DEF Addr!EditCheck
<1>3. CASE Addr!VerifyRead(w)
  <2>1. PICK u \in User : task' = [task EXCEPT ![w] =
               [Addr!IdleJob EXCEPT !.pc = "verify", !.user = u]]
    BY <1>3 DEF Addr!VerifyRead
  <2>2. AddrJobOK([Addr!IdleJob EXCEPT !.pc = "verify", !.user = u])
    BY DEF AddrJobOK, AddrJob, Addr!IdleJob
  <2> QED
    BY <1>3, <2>1, <2>2 DEF Addr!VerifyRead
<1>4. CASE Addr!ResendCheck(w)
  <2>1. PICK u \in User : task' = [task EXCEPT ![w] =
               [Addr!IdleJob EXCEPT !.pc = "resend", !.user = u]]
    BY <1>4 DEF Addr!ResendCheck
  <2>2. AddrJobOK([Addr!IdleJob EXCEPT !.pc = "resend", !.user = u])
    BY DEF AddrJobOK, AddrJob, Addr!IdleJob
  <2> QED
    BY <1>4, <2>1, <2>2 DEF Addr!ResendCheck
<1> QED
  BY <1>1, <1>2, <1>3, <1>4

LEMMA MailWrites ==
  ASSUME AddrRowsTyped, AddrJobsTyped, NEW w \in Worker, Addr!Mail(w)
  PROVE  /\ Addr!End(w) /\ UNCHANGED <<users, nextToken, original, mintedFor>>
         /\ mailed' \subseteq mailed \cup Addr!Token /\ mailed \subseteq mailed'
<1>1. task[w].user \in User
  BY PendingJob DEF Addr!Mail, Addr!At
<1>2. users[task[w].user].token \in Addr!Token \cup {0}
  BY <1>1 DEF AddrRowsTyped, AddrRow
<1> QED
  BY <1>2 DEF Addr!Mail

LEMMA IAddrTypeStep == Addr!BoundAssumption /\ IAddrType /\ [Addr!Next]_(Addr!vars) => IAddrType'
<1> SUFFICES ASSUME Addr!BoundAssumption, IAddrType, [Addr!Next]_(Addr!vars) PROVE IAddrType'
  OBVIOUS
<1> AddrRowsTyped /\ AddrJobsTyped /\ mailed \subseteq Addr!Token
  BY DEF IAddrType
<1>1. ASSUME AddrRowsTyped', AddrJobsTyped', UNCHANGED <<mailed, original>> PROVE IAddrType'
  BY <1>1 DEF IAddrType
<1>2. CASE UNCHANGED Addr!vars
  BY <1>1, <1>2 DEF AddrRowsTyped, AddrJobsTyped, Addr!vars
<1>3. ASSUME NEW w \in Worker,
             Addr!RegisterCheck(w) \/ Addr!EditCheck(w) \/ Addr!VerifyRead(w) \/ Addr!ResendCheck(w)
      PROVE  IAddrType'
  <2>1. PICK j : AddrJobOK(j) /\ task' = [task EXCEPT ![w] = j]
    BY <1>3, CheckSets
  <2>2. UNCHANGED <<users, nextToken, mailed, original, mintedFor>>
    BY <1>3, CheckSets
  <2>3. AddrJobsTyped'
    BY <2>1, JobSet
  <2>4. AddrRowsTyped'
    BY <2>2 DEF AddrRowsTyped
  <2> QED
    BY <2>2, <2>3, <2>4, <1>1
<1>4. ASSUME NEW w \in Worker, Addr!Register(w) PROVE IAddrType'
  BY <1>1, <1>4, RegisterTyped DEF Addr!Register
<1>5. ASSUME NEW w \in Worker, Addr!Edit(w) PROVE IAddrType'
  BY <1>1, <1>5, EditTyped DEF Addr!Edit
<1>6. ASSUME NEW w \in Worker, Addr!Resend(w) PROVE IAddrType'
  BY <1>1, <1>6, ResendTyped DEF Addr!Resend
<1>7. ASSUME NEW w \in Worker, Addr!Verify(w) PROVE IAddrType'
  BY <1>1, <1>7, VerifyTyped, VerifyWrites
<1>8. ASSUME NEW w \in Worker, Addr!Mail(w) PROVE IAddrType'
  <2>1. /\ Addr!End(w) /\ UNCHANGED <<users, nextToken, original, mintedFor>>
        /\ mailed' \subseteq mailed \cup Addr!Token
    BY <1>8, MailWrites
  <2>2. AddrRowsTyped' /\ AddrJobsTyped'
    BY <2>1, JobEnds DEF AddrRowsTyped
  <2> QED
    BY <2>1, <2>2 DEF IAddrType
<1>9. ASSUME NEW u \in User, Addr!Delete(u) \/ Addr!Age(u) PROVE IAddrType'
  <2>1. AddrRowsTyped' /\ UNCHANGED <<mailed, task, original>>
    BY <1>9, DeleteTyped, AgeTyped DEF Addr!Delete, Addr!Age
  <2>2. AddrJobsTyped'
    BY <2>1 DEF AddrJobsTyped
  <2> QED
    BY <2>1, <2>2, <1>1
<1> QED
  BY <1>2, <1>3, <1>4, <1>5, <1>6, <1>7, <1>8, <1>9 DEF Addr!Next

LEMMA IAddrTypeStarts == Addr!BoundAssumption /\ Addr!Init => IAddrType
<1> SUFFICES ASSUME Addr!BoundAssumption, Addr!Init PROVE IAddrType
  OBVIOUS
<1>1. nextToken = 1 /\ mailed = {} /\ mintedFor = [t \in Addr!Token |-> NoAddress]
  BY DEF Addr!Init
<1>2. nextToken \in 1..MaxToken + 1 /\ mintedFor \in [Addr!Token -> Address \cup {NoAddress}]
  BY <1>1 DEF Addr!BoundAssumption
<1>3. AddrJobsTyped
  BY IdleIsAJob DEF Addr!Init, AddrJobsTyped
<1>4. \A u \in User : /\ AddrRowOK(users[u], nextToken, mintedFor)
                      /\ Lives(users[u]) => users[u].token = 0
  <2> SUFFICES ASSUME NEW u \in User
               PROVE  /\ AddrRowOK(users[u], nextToken, mintedFor)
                      /\ Lives(users[u]) => users[u].token = 0
    OBVIOUS
  <2>1. CASE users[u] = Addr!NoRow
    BY <2>1, NoRowIsARow DEF AddrRowOK
  <2>2. CASE users[u] # Addr!NoRow
    <3>1. /\ users[u] \in [state : {"here"}, Email : Address,
                         NormalizedEmail : {Normal[e] : e \in Address} \cup {Null},
                         verified : {TRUE}, token : {0}, age : {"expired"}]
          /\ Addr!Here(u) => users[u].NormalizedEmail \in {Normal[users[u].Email], Null}
      BY <2>2 DEF Addr!Init
    <3>2. Lives(users[u]) /\ users[u].token = 0 /\ users[u].Email \in Address
      BY <3>1 DEF Lives
    <3>3. users[u] \in AddrRow
      BY <3>1 DEF AddrRow
    <3>4. users[u].NormalizedEmail \in {Normal[users[u].Email], Null}
      BY <3>1, <3>2 DEF Addr!Here, Lives
    <3> QED
      BY <3>2, <3>3, <3>4, <1>1 DEF AddrRowOK
  <2> QED
    BY <2>1, <2>2
<1>5. users \in [User -> AddrRow] /\ \A u, v \in User : u # v => OwnToken(users[u], users[v])
  <2>1. \A u \in User : users[u] \in AddrRow
    BY <1>4 DEF AddrRowOK
  <2>2. users = [u \in User |-> users[u]]
    BY DEF Addr!Init
  <2>3. users \in [User -> AddrRow]
    BY <2>1, <2>2
  <2> QED
    BY <2>3, <1>4 DEF OwnToken
<1> QED
  BY <1>1, <1>2, <1>3, <1>4, <1>5 DEF Addr!Init, IAddrType, AddrRowsTyped

\* The rows of Users, the tokens and the handlers have their types; an account's
\* NormalizedEmail is its address in normal form or NULL, and no two accounts
\* have the same verification token (account_verify finds its account by it).
THEOREM AddressTypes == Addr!BoundAssumption => (Addr!Spec => []Addr!TypeOK)
<1> SUFFICES ASSUME Addr!BoundAssumption PROVE Addr!Spec => []Addr!TypeOK
  OBVIOUS
<1>1. Addr!Init => IAddrType
  BY IAddrTypeStarts
<1>2. IAddrType /\ [Addr!Next]_(Addr!vars) => IAddrType'
  BY IAddrTypeStep
<1> QED
  BY <1>1, <1>2, AddrTypeGiven, PTL DEF Addr!Spec

-----------------------------------------------------------------------------
(* One mailbox, one account. *)

\* A grandfathered account has the address it had.
Kept(g, o) == Lives(g) /\ g.NormalizedEmail = Null => g.Email = o

\* Of two accounts at most one has claimed the mailbox; g, whose address was o,
\* does not share it with a grandfathered account but by that address.
Apart(g, h, o) ==
    Lives(g) /\ Lives(h)
      => /\ g.NormalizedEmail = h.NormalizedEmail => g.NormalizedEmail = Null
         /\ h.NormalizedEmail = Null /\ Normal[g.Email] = Normal[h.Email] => g.Email = o

\* What a form in job j is to write is no address of a grandfathered account g:
\* the index does not say that.
Pending(j) == j.pc = "register" \/ (j.pc = "edit" /\ j.Email # j.old)
Clear(j, v, g) ==
    Pending(j) /\ v # j.user /\ Lives(g) /\ g.NormalizedEmail = Null
      => Normal[g.Email] # Normal[j.Email]

IBox ==
    /\ \A u \in User : Kept(users[u], original[u])
    /\ \A u, v \in User : u # v => Apart(users[u], users[v], original[u])
    /\ \A w \in Worker, v \in User : Clear(task[w], v, users[v])

LEMMA BoxesAreOne ==
  ASSUME Addr!NormalAssumption, IAddrType, IBox
  PROVE  Addr!OneAccountPerMailbox
<1> SUFFICES ASSUME NEW u \in User, NEW v \in User, u # v, Addr!Here(u), Addr!Here(v),
                    Normal[users[u].Email] = Normal[users[v].Email]
             PROVE  users[u].Email = original[u]
  BY DEF Addr!OneAccountPerMailbox
<1>1. Lives(users[u]) /\ Lives(users[v])
  BY DEF Addr!Here, Lives
<1>2. /\ users[u].NormalizedEmail \in {Normal[users[u].Email], Null}
      /\ users[v].NormalizedEmail \in {Normal[users[v].Email], Null}
  BY <1>1 DEF IAddrType, AddrRowsTyped, AddrRowOK
<1>3. Kept(users[u], original[u]) /\ Apart(users[u], users[v], original[u])
  BY DEF IBox
<1> QED
  BY <1>1, <1>2, <1>3 DEF Kept, Apart

\* The rows keep their addresses, or go.
LEMMA SameBoxes ==
  ASSUME IBox, UNCHANGED original,
         \A u \in User : Lives(users'[u]) => /\ Lives(users[u]) /\ users'[u].Email = users[u].Email
                                           /\ users'[u].NormalizedEmail = users[u].NormalizedEmail,
         \A w \in Worker : Pending(task'[w]) => task'[w] = task[w]
  PROVE  IBox'
<1>1. \A u \in User : Kept(users'[u], original'[u])
  BY DEF IBox, Kept
<1>2. \A u, v \in User : u # v => Apart(users'[u], users'[v], original'[u])
  BY DEF IBox, Apart
<1>3. \A w \in Worker, v \in User : Clear(task'[w], v, users'[v])
  BY DEF IBox, Clear
<1> QED
  BY <1>1, <1>2, <1>3 DEF IBox

\* The index and the check together: u claims the mailbox of e.
LEMMA Claims ==
  ASSUME Addr!NormalAssumption, IBox, UNCHANGED original,
         NEW u \in User, NEW e \in Address, Addr!IndexAllows(u, e),
         \A v \in User : v # u /\ Lives(users[v]) /\ users[v].NormalizedEmail = Null
                         => Normal[users[v].Email] # Normal[e],
         \A v \in User : v # u => users'[v] = users[v],
         users'[u].Email = e, users'[u].NormalizedEmail = Normal[e],
         \A w \in Worker : Pending(task'[w]) => task'[w] = task[w]
  PROVE  IBox'
<1>1. Normal[e] # Null
  BY DEF Addr!NormalAssumption
<1>2. \A v \in User : v # u /\ Lives(users[v]) => users[v].NormalizedEmail # Normal[e]
  BY DEF Addr!IndexAllows, Addr!Here, Lives
<1>3. \A v \in User : Kept(users'[v], original'[v])
  BY <1>1 DEF IBox, Kept
<1>4. \A v, x \in User : v # x => Apart(users'[v], users'[x], original'[v])
  <2> SUFFICES ASSUME NEW v \in User, NEW x \in User, v # x
               PROVE  Apart(users'[v], users'[x], original'[v])
    OBVIOUS
  <2>1. CASE v = u
    BY <2>1, <1>1, <1>2 DEF Apart
  <2>2. CASE x = u
    BY <2>2, <1>1, <1>2 DEF Apart
  <2>3. CASE v # u /\ x # u
    BY <2>3 DEF IBox
  <2> QED
    BY <2>1, <2>2, <2>3
<1>5. \A w \in Worker, v \in User : Clear(task'[w], v, users'[v])
  BY <1>1 DEF IBox, Clear
<1> QED
  BY <1>3, <1>4, <1>5 DEF IBox

\* A form that is checked is clear of the grandfathered accounts.
LEMMA CheckedIsClear ==
  ASSUME IBox, AddrJobsTyped, NEW w \in Worker, Addr!RegisterCheck(w) \/ Addr!EditCheck(w)
  PROVE  IBox'
<1>1. \E j : \E u \in User, e \in Address :
         /\ j.user = u /\ j.Email = e /\ task' = [task EXCEPT ![w] = j]
         /\ Pending(j) => ~Addr!InUse(u, e)
  <2>1. CASE Addr!RegisterCheck(w)
    <3>1. PICK u \in User, e \in Address :
             /\ task' = [task EXCEPT ![w] =
                  [Addr!IdleJob EXCEPT !.pc = "register", !.user = u, !.Email = e]]
             /\ ~Addr!InUse(u, e)
      BY <2>1 DEF Addr!RegisterCheck
    <3> DEFINE j == [Addr!IdleJob EXCEPT !.pc = "register", !.user = u, !.Email = e]
    <3>2. j.user = u /\ j.Email = e
      BY DEF Addr!IdleJob
    <3> QED
      BY <3>1, <3>2
  <2>2. CASE Addr!EditCheck(w)
    <3>1. PICK u \in User, e \in Address :
             /\ task' = [task EXCEPT ![w] =
                  [pc |-> "edit", user |-> u, Email |-> e, old |-> users[u].Email]]
             /\ e # users[u].Email => ~Addr!InUse(u, e)
      BY <2>2 DEF Addr!EditCheck
    <3> DEFINE j == [pc |-> "edit", user |-> u, Email |-> e, old |-> users[u].Email]
    <3>2. j.user = u /\ j.Email = e /\ (Pending(j) => e # users[u].Email)
      BY DEF Pending
    <3> QED
      BY <3>1, <3>2
  <2> QED
    BY <2>1, <2>2
<1>2. UNCHANGED <<users, original>>
  BY DEF Addr!RegisterCheck, Addr!EditCheck
<1>3. PICK j : \E u \in User, e \in Address :
         /\ j.user = u /\ j.Email = e /\ task' = [task EXCEPT ![w] = j]
         /\ Pending(j) => ~Addr!InUse(u, e)
  BY <1>1
<1>4. \A x \in Worker : task'[x] = IF x = w THEN j ELSE task[x]
  BY <1>3 DEF AddrJobsTyped
<1>5. \A v \in User : Clear(j, v, users[v])
  BY <1>3 DEF Clear, Addr!InUse, Addr!Here, Lives
<1>6. \A x \in Worker, v \in User : Clear(task'[x], v, users'[v])
  BY <1>2, <1>4, <1>5 DEF IBox
<1> QED
  BY <1>2, <1>6 DEF IBox

\* What is ended or mailed is pending no longer.
LEMMA LessIsPending ==
  ASSUME AddrJobsTyped, NEW w \in Worker,
         Addr!End(w) \/ (Addr!Goto(w, "mail") /\ task[w].pc # "idle")
  PROVE  \A x \in Worker : Pending(task'[x]) => task'[x] = task[x]
<1>1. ~Pending(task'[w]) /\ \A x \in Worker : x # w => task'[x] = task[x]
  <2>1. CASE Addr!End(w)
    <3>1. task'[w] = Addr!IdleJob /\ \A x \in Worker : x # w => task'[x] = task[x]
      BY <2>1, JobEnds
    <3> QED
      BY <3>1 DEF Addr!IdleJob, Pending
  <2>2. CASE Addr!Goto(w, "mail") /\ task[w].pc # "idle"
    BY <2>2, JobMails DEF Pending
  <2> QED
    BY <2>1, <2>2
<1> QED
  BY <1>1

LEMMA IBoxStep ==
  Addr!BoundAssumption /\ Addr!NormalAssumption /\ IAddrType /\ IBox
    /\ [Addr!Next]_(Addr!vars) => IBox'
<1> SUFFICES ASSUME Addr!BoundAssumption, Addr!NormalAssumption, IAddrType, IBox,
                    [Addr!Next]_(Addr!vars)
             PROVE  IBox'
  OBVIOUS
<1> AddrRowsTyped /\ AddrJobsTyped
  BY DEF IAddrType
<1>1. ASSUME UNCHANGED <<users, original>>,
             \A w \in Worker : Pending(task'[w]) => task'[w] = task[w]
      PROVE  IBox'
  BY <1>1, SameBoxes
<1>2. CASE UNCHANGED Addr!vars
  BY <1>1, <1>2 DEF Addr!vars
<1>3. ASSUME NEW w \in Worker, Addr!RegisterCheck(w) \/ Addr!EditCheck(w) PROVE IBox'
  BY <1>3, CheckedIsClear
<1>4. ASSUME NEW w \in Worker, Addr!VerifyRead(w) \/ Addr!ResendCheck(w) PROVE IBox'
  <2>1. PICK u \in User :
           task' = [task EXCEPT ![w] = [Addr!IdleJob EXCEPT !.pc = "verify", !.user = u]]
             \/ task' = [task EXCEPT ![w] = [Addr!IdleJob EXCEPT !.pc = "resend", !.user = u]]
    BY <1>4 DEF Addr!VerifyRead, Addr!ResendCheck
  <2>2. ~Pending(task'[w]) /\ \A x \in Worker : x # w => task'[x] = task[x]
    BY <2>1 DEF AddrJobsTyped, Addr!IdleJob, Pending
  <2>3. UNCHANGED <<users, original>>
    BY <1>4 DEF Addr!VerifyRead, Addr!ResendCheck
  <2> QED
    BY <1>1, <2>2, <2>3
<1>5. ASSUME NEW w \in Worker, Addr!Register(w) PROVE IBox'
  <2> DEFINE u == task[w].user
             e == task[w].Email
  <2>1. task[w].pc = "register" /\ u \in User /\ e \in Address /\ original' = original
    BY <1>5, PendingJob DEF Addr!Register, Addr!At
  <2>2. CASE Addr!IndexAllows(u, e)
    <3>1. Addr!Issue(e) /\ Addr!Goto(w, "mail")
            /\ users' = [users EXCEPT ![u] = Addr!Issued(NewRow(e))]
      BY <1>5, <2>2, RegisterWrites
    <3>2. users'[u].Email = e /\ users'[u].NormalizedEmail = Normal[e]
      <4>1. users'[u] = Addr!Issued(NewRow(e))
        BY <2>1, <3>1 DEF AddrRowsTyped
      <4> QED
        BY <2>1, <4>1, NewRowIsARow, IssuedFields
    <3>3. \A v \in User : v # u => users'[v] = users[v]
      BY <3>1 DEF AddrRowsTyped
    <3>4. \A v \in User : v # u /\ Lives(users[v]) /\ users[v].NormalizedEmail = Null
                          => Normal[users[v].Email] # Normal[e]
      BY <2>1 DEF IBox, Clear, Pending
    <3>5. \A x \in Worker : Pending(task'[x]) => task'[x] = task[x]
      BY <2>1, <3>1, LessIsPending
    <3> QED
      BY <2>1, <2>2, <3>2, <3>3, <3>4, <3>5, Claims
  <2>3. CASE ~Addr!IndexAllows(u, e)
    BY <1>1, <1>5, <2>1, <2>3, LessIsPending DEF Addr!Register
  <2> QED
    BY <2>2, <2>3
<1>6. ASSUME NEW w \in Worker, Addr!Edit(w) PROVE IBox'
  <2> DEFINE u == task[w].user
             e == task[w].Email
             ok == e # task[w].old /\ Addr!Here(u) /\ Addr!IndexAllows(u, e)
  <2>1. task[w].pc = "edit" /\ u \in User /\ e \in Address /\ original' = original
    BY <1>6, PendingJob DEF Addr!Edit, Addr!At
  <2>2. CASE ok
    <3>1. /\ Addr!Issue(e) /\ Addr!Goto(w, "mail")
          /\ users' = [users EXCEPT ![u] = Addr!Issued(NewAddress(users[u], e))]
      BY <1>6, <2>2, EditWrites
    <3>2. users'[u].Email = e /\ users'[u].NormalizedEmail = Normal[e]
      <4>1. users[u] \in AddrRow
        BY <2>1 DEF AddrRowsTyped
      <4>2. /\ NewAddress(users[u], e) \in AddrRow /\ NewAddress(users[u], e).Email = e
            /\ NewAddress(users[u], e).NormalizedEmail = Normal[e]
        BY <2>1, <4>1, NewAddressIsARow
      <4>3. users'[u] = Addr!Issued(NewAddress(users[u], e))
        BY <2>1, <3>1 DEF AddrRowsTyped
      <4> QED
        BY <4>2, <4>3, IssuedFields
    <3>3. \A v \in User : v # u => users'[v] = users[v]
      BY <3>1 DEF AddrRowsTyped
    <3>4. \A v \in User : v # u /\ Lives(users[v]) /\ users[v].NormalizedEmail = Null
                          => Normal[users[v].Email] # Normal[e]
      BY <2>1, <2>2 DEF IBox, Clear, Pending
    <3>5. \A x \in Worker : Pending(task'[x]) => task'[x] = task[x]
      BY <2>1, <3>1, LessIsPending
    <3> QED
      BY <2>1, <2>2, <3>2, <3>3, <3>4, <3>5, Claims
  <2>3. CASE ~ok
    BY <1>1, <1>6, <2>1, <2>3, LessIsPending DEF Addr!Edit
  <2> QED
    BY <2>2, <2>3
<1>7. ASSUME NEW w \in Worker, Addr!Resend(w) PROVE IBox'
  <2> DEFINE u == task[w].user
  <2>1. task[w].pc = "resend" /\ u \in User /\ original' = original
    BY <1>7, PendingJob DEF Addr!Resend, Addr!At
  <2>2. CASE Addr!Here(u)
    <3>1. /\ Addr!Issue(users[u].Email) /\ Addr!Goto(w, "mail")
          /\ users' = [users EXCEPT ![u] = Addr!Issued(users[u])]
      BY <1>7, <2>1, <2>2 DEF Addr!Resend, AddrRowsTyped
    <3>2. /\ users[u] \in AddrRow /\ users[u].Email \in Address
          /\ users[u].NormalizedEmail \in {Normal[users[u].Email], Null}
      BY <2>1, <2>2 DEF AddrRowsTyped, AddrRowOK, Addr!Here, Lives
    <3>3. /\ users'[u].state = users[u].state /\ users'[u].Email = users[u].Email
          /\ users'[u].NormalizedEmail = users[u].NormalizedEmail
      <4>1. users'[u] = Addr!Issued(users[u])
        BY <2>1, <3>1 DEF AddrRowsTyped
      <4> QED
        BY <3>2, <4>1, IssuedFields
    <3>4. \A v \in User : v # u => users'[v] = users[v]
      BY <3>1 DEF AddrRowsTyped
    <3> QED
      BY <2>1, <3>1, <3>3, <3>4, LessIsPending, SameBoxes DEF Lives
  <2>3. CASE ~Addr!Here(u)
    BY <1>1, <1>7, <2>1, <2>3, LessIsPending DEF Addr!Resend
  <2> QED
    BY <2>2, <2>3
<1>8. ASSUME NEW w \in Worker, Addr!Verify(w) PROVE IBox'
  <2> DEFINE u == task[w].user
  <2>1. /\ u \in User /\ Addr!End(w) /\ original' = original
        /\ users' = IF Addr!Here(u) THEN [users EXCEPT ![u] = VerifiedRow(users[u])] ELSE users
    BY <1>8, VerifyWrites
  <2>2. AddrRowOK(users[u], nextToken, mintedFor) /\ 0 < nextToken
    BY <2>1 DEF AddrRowsTyped, Addr!BoundAssumption
  <2>3. /\ VerifiedRow(users[u]).state = users[u].state
        /\ VerifiedRow(users[u]).Email = users[u].Email
        /\ VerifiedRow(users[u]).NormalizedEmail = users[u].NormalizedEmail
    BY <2>2, VerifiedIsInOrder
  <2>4. \A v \in User : /\ users'[v].state = users[v].state /\ users'[v].Email = users[v].Email
                        /\ users'[v].NormalizedEmail = users[v].NormalizedEmail
    BY <2>1, <2>3 DEF AddrRowsTyped
  <2> QED
    BY <2>1, <2>4, LessIsPending, SameBoxes DEF Lives
<1>9. ASSUME NEW w \in Worker, Addr!Mail(w) PROVE IBox'
  BY <1>1, <1>9, MailWrites, LessIsPending
<1>10. ASSUME NEW u \in User, Addr!Delete(u) PROVE IBox'
  <2>1. users' = [users EXCEPT ![u] = Addr!Removed] /\ UNCHANGED <<task, original>>
    BY <1>10 DEF Addr!Delete
  <2>2. \A v \in User : users'[v] = IF v = u THEN Addr!Removed ELSE users[v]
    BY <2>1 DEF AddrRowsTyped
  <2> QED
    BY <2>1, <2>2, NoRowIsARow, SameBoxes
<1>11. ASSUME NEW u \in User, Addr!Age(u) PROVE IBox'
  <2>1. users' = [users EXCEPT ![u] = AgedRow(users[u])] /\ UNCHANGED <<task, original>>
    BY <1>11, AgeTyped DEF Addr!Age
  <2>2. AddrRowOK(users[u], nextToken, mintedFor)
    BY DEF AddrRowsTyped
  <2>3. \A v \in User : /\ users'[v].state = users[v].state /\ users'[v].Email = users[v].Email
                        /\ users'[v].NormalizedEmail = users[v].NormalizedEmail
    BY <2>1, <2>2, AgedIsInOrder DEF AddrRowsTyped
  <2> QED
    BY <2>1, <2>3, SameBoxes DEF Lives
<1> QED
  BY <1>2, <1>3, <1>4, <1>5, <1>6, <1>7, <1>8, <1>9, <1>10, <1>11 DEF Addr!Next

LEMMA IBoxStarts == Addr!Init => IBox
<1> SUFFICES ASSUME Addr!Init PROVE IBox
  OBVIOUS
<1>1. \A u \in User : Kept(users[u], original[u])
  BY DEF Addr!Init, Kept
<1>2. \A u, v \in User : u # v => Apart(users[u], users[v], original[u])
  BY DEF Addr!Init, Apart
<1>3. \A w \in Worker, v \in User : Clear(task[w], v, users[v])
  BY DEF Addr!Init, Addr!IdleJob, Clear, Pending
<1> QED
  BY <1>1, <1>2, <1>3 DEF IBox

\* However many workers register and edit at once, accounts share a mailbox only
\* by the addresses they had before addresses were normalised.  The unique index
\* decides between two that claim it; that nobody claims the mailbox of an
\* account whose NormalizedEmail is NULL, which the index does not see, is what
\* email_in_use finds before the transaction, and no later step undoes it.
THEOREM MailboxesAreTheirs ==
  Addr!BoundAssumption /\ Addr!NormalAssumption => (Addr!Spec => []Addr!OneAccountPerMailbox)
<1> SUFFICES ASSUME Addr!BoundAssumption, Addr!NormalAssumption
             PROVE  Addr!Spec => []Addr!OneAccountPerMailbox
  OBVIOUS
<1>1. Addr!Init => IAddrType /\ IBox
  BY IAddrTypeStarts, IBoxStarts
<1>2. IAddrType /\ IBox /\ [Addr!Next]_(Addr!vars) => (IAddrType /\ IBox)'
  BY IAddrTypeStep, IBoxStep
<1> QED
  BY <1>1, <1>2, BoxesAreOne, PTL DEF Addr!Spec

-----------------------------------------------------------------------------
(* Links and cooldowns, with one worker. *)

\* What the handler that read row g still relies on when it writes; m are the
\* tokens in the mail.
OwnOK(j, g, m) ==
    /\ j.pc = "verify" /\ Lives(g) => g.token \in m
    /\ j.pc = "resend" /\ Lives(g) => g.age # "cooling"
    /\ j.pc = "edit" /\ j.Email # j.old /\ Lives(g) => g.age # "cooling"
    /\ j.pc = "register" => g = Addr!NoRow

IOwn == \A w \in Worker : OwnOK(task[w], users[task[w].user], mailed)

LEMMA CheckedIsOwn ==
  ASSUME OneWorker, AddrRowsTyped, AddrJobsTyped, NEW w \in Worker,
         Addr!RegisterCheck(w) \/ Addr!EditCheck(w) \/ Addr!VerifyRead(w) \/ Addr!ResendCheck(w)
  PROVE  IOwn'
<1>1. \A x \in Worker : x = w
  BY DEF OneWorker
<1>2. UNCHANGED <<users, mailed>>
  BY CheckSets
<1>3. CASE Addr!RegisterCheck(w)
  <2>1. PICK u \in User, e \in Address :
           /\ task' = [task EXCEPT ![w] =
                [Addr!IdleJob EXCEPT !.pc = "register", !.user = u, !.Email = e]]
           /\ users[u] = Addr!NoRow
    BY <1>3 DEF Addr!RegisterCheck
  <2>2. task'[w].pc = "register" /\ task'[w].user = u
    BY <2>1 DEF AddrJobsTyped, Addr!IdleJob
  <2> QED
    BY <1>1, <1>2, <2>1, <2>2 DEF IOwn, OwnOK
<1>4. CASE Addr!EditCheck(w)
  <2>1. PICK u \in User, e \in Address :
           /\ task' = [task EXCEPT ![w] =
                [pc |-> "edit", user |-> u, Email |-> e, old |-> users[u].Email]]
           /\ e # users[u].Email => ~Addr!InCooldown(u)
    BY <1>4 DEF Addr!EditCheck
  <2>2. /\ task'[w].pc = "edit" /\ task'[w].user = u
        /\ task'[w].Email # task'[w].old => users[u].age # "cooling"
    BY <2>1 DEF AddrJobsTyped, Addr!InCooldown
  <2> QED
    BY <1>1, <1>2, <2>2 DEF IOwn, OwnOK
<1>5. CASE Addr!VerifyRead(w)
  <2>1. PICK u \in User :
           /\ task' = [task EXCEPT ![w] = [Addr!IdleJob EXCEPT !.pc = "verify", !.user = u]]
           /\ users[u].token \in mailed
    BY <1>5 DEF Addr!VerifyRead
  <2>2. task'[w].pc = "verify" /\ task'[w].user = u
    BY <2>1 DEF AddrJobsTyped, Addr!IdleJob
  <2> QED
    BY <1>1, <1>2, <2>1, <2>2 DEF IOwn, OwnOK
<1>6. CASE Addr!ResendCheck(w)
  <2>1. PICK u \in User :
           /\ task' = [task EXCEPT ![w] = [Addr!IdleJob EXCEPT !.pc = "resend", !.user = u]]
           /\ users[u].age # "cooling"
    BY <1>6 DEF Addr!ResendCheck, Addr!InCooldown
  <2>2. task'[w].pc = "resend" /\ task'[w].user = u
    BY <2>1 DEF AddrJobsTyped, Addr!IdleJob
  <2> QED
    BY <1>1, <1>2, <2>1, <2>2 DEF IOwn, OwnOK
<1> QED
  BY <1>3, <1>4, <1>5, <1>6

\* A handler that has written relies on nothing.
LEMMA WrittenIsOwn ==
  ASSUME OneWorker, AddrJobsTyped, NEW w \in Worker,
         Addr!End(w) \/ (Addr!Goto(w, "mail") /\ task[w].pc # "idle")
  PROVE  IOwn'
<1>1. \A x \in Worker : x = w
  BY DEF OneWorker
<1>2. task'[w].pc \in {"idle", "mail"}
  <2>1. CASE Addr!End(w)
    BY <2>1, JobEnds DEF Addr!IdleJob
  <2>2. CASE Addr!Goto(w, "mail") /\ task[w].pc # "idle"
    BY <2>2, JobMails
  <2> QED
    BY <2>1, <2>2
<1> QED
  BY <1>1, <1>2 DEF IOwn, OwnOK

LEMMA IOwnStep == OneWorker /\ IAddrType /\ IOwn /\ [Addr!Next]_(Addr!vars) => IOwn'
<1> SUFFICES ASSUME OneWorker, IAddrType, IOwn, [Addr!Next]_(Addr!vars) PROVE IOwn'
  OBVIOUS
<1> AddrRowsTyped /\ AddrJobsTyped
  BY DEF IAddrType
<1>1. CASE UNCHANGED Addr!vars
  BY <1>1 DEF Addr!vars, IOwn
<1>2. ASSUME NEW w \in Worker,
             Addr!RegisterCheck(w) \/ Addr!EditCheck(w) \/ Addr!VerifyRead(w) \/ Addr!ResendCheck(w)
      PROVE  IOwn'
  BY <1>2, CheckedIsOwn
<1>3. ASSUME NEW w \in Worker,
             Addr!Register(w) \/ Addr!Edit(w) \/ Addr!Mail(w) \/ Addr!Verify(w) \/ Addr!Resend(w)
      PROVE  IOwn'
  <2>1. task[w].pc # "idle" /\ (Addr!End(w) \/ Addr!Goto(w, "mail"))
    BY <1>3 DEF Addr!Register, Addr!Edit, Addr!Mail, Addr!Verify, Addr!Resend, Addr!At
  <2> QED
    BY <2>1, WrittenIsOwn
<1>4. ASSUME NEW u \in User, Addr!Delete(u) \/ Addr!Age(u) PROVE IOwn'
  <2>1. Lives(users[u]) /\ UNCHANGED <<task, mailed>>
    BY <1>4 DEF Addr!Delete, Addr!Age, Addr!Here, Lives
  <2>2. \/ ~Lives(users'[u])
        \/ /\ Lives(users[u]) /\ users'[u].token = users[u].token
           /\ users[u].age # "cooling" => users'[u].age # "cooling"
    <3>1. CASE Addr!Delete(u)
      BY <3>1, NoRowIsARow DEF Addr!Delete, AddrRowsTyped
    <3>2. CASE Addr!Age(u)
      <4>1. users' = [users EXCEPT ![u] = AgedRow(users[u])]
        BY <3>2, AgeTyped
      <4>2. AddrRowOK(users[u], nextToken, mintedFor) /\ users'[u] = AgedRow(users[u])
        BY <4>1 DEF AddrRowsTyped
      <4> QED
        BY <2>1, <4>2, AgedIsInOrder
    <3> QED
      BY <1>4, <3>1, <3>2
  <2>3. \A v \in User : v # u => users'[v] = users[v]
    BY <1>4 DEF Addr!Delete, Addr!Age, AddrRowsTyped
  <2>4. users[u] # Addr!NoRow
    BY <2>1, NoRowIsARow
  <2> SUFFICES ASSUME NEW w \in Worker PROVE OwnOK(task[w], users'[task[w].user], mailed)
    BY <2>1 DEF IOwn
  <2>5. OwnOK(task[w], users[task[w].user], mailed)
    BY DEF IOwn
  <2>6. CASE task[w].user # u
    <3>1. task[w].pc = "idle" \/ task[w].user \in User
      BY PendingJob
    <3> QED
      BY <2>3, <2>5, <2>6, <3>1 DEF OwnOK
  <2>7. CASE task[w].user = u
    BY <2>2, <2>4, <2>5, <2>7 DEF OwnOK
  <2> QED
    BY <2>6, <2>7
<1> QED
  BY <1>1, <1>2, <1>3, <1>4 DEF Addr!Next

LEMMA IOwnStarts == Addr!Init => IOwn
  BY DEF Addr!Init, IOwn, OwnOK, Addr!IdleJob

\* Who changes the row of u, from g to h.
WritesRow(j, u, g, h) ==
    /\ j.user = u
    /\ \/ j.pc = "register"
       \/ j.pc = "edit" /\ j.Email # j.old /\ Lives(g) /\ ~h.verified
       \/ j.pc = "resend" /\ Lives(g) /\ h.verified = g.verified
       \/ j.pc = "verify" /\ Lives(g) /\ h.token = 0
Ages(g, h) == h.token = g.token /\ h.verified = g.verified

LEMMA RowChanges ==
  ASSUME Addr!BoundAssumption, IAddrType, [Addr!Next]_(Addr!vars), NEW u \in User,
         users'[u] # users[u]
  PROVE  \/ \E w \in Worker : WritesRow(task[w], u, users[u], users'[u])
         \/ users'[u] = Addr!Removed
         \/ Ages(users[u], users'[u])
<1> AddrRowsTyped /\ AddrJobsTyped
  BY DEF IAddrType
<1>1. ~UNCHANGED Addr!vars
  BY DEF Addr!vars
<1>2. ASSUME NEW w \in Worker,
             Addr!RegisterCheck(w) \/ Addr!EditCheck(w) \/ Addr!VerifyRead(w)
               \/ Addr!ResendCheck(w) \/ Addr!Mail(w)
      PROVE  FALSE
  BY <1>2 DEF Addr!RegisterCheck, Addr!EditCheck, Addr!VerifyRead, Addr!ResendCheck, Addr!Mail
<1>3. ASSUME NEW w \in Worker, Addr!Register(w) PROVE WritesRow(task[w], u, users[u], users'[u])
  <2>1. task[w].pc = "register" /\ task[w].user \in User
    BY <1>3, PendingJob DEF Addr!Register, Addr!At
  <2>2. users' = [users EXCEPT ![task[w].user] = Addr!Issued(NewRow(task[w].Email))]
    <3>1. Addr!IndexAllows(task[w].user, task[w].Email)
      BY <1>3 DEF Addr!Register
    <3> QED
      BY <1>3, <3>1, RegisterWrites
  <2> QED
    BY <2>1, <2>2 DEF WritesRow, AddrRowsTyped
<1>4. ASSUME NEW w \in Worker, Addr!Edit(w) PROVE WritesRow(task[w], u, users[u], users'[u])
  <2> DEFINE e == task[w].Email
  <2>1. task[w].pc = "edit" /\ task[w].user \in User /\ e \in Address
    BY <1>4, PendingJob DEF Addr!Edit, Addr!At
  <2>2. e # task[w].old /\ Addr!Here(task[w].user) /\ Addr!IndexAllows(task[w].user, e)
    BY <1>4 DEF Addr!Edit
  <2>3. users' = [users EXCEPT ![task[w].user] = Addr!Issued(NewAddress(users[task[w].user], e))]
    BY <1>4, <2>2, EditWrites
  <2>4. task[w].user = u /\ users'[u] = Addr!Issued(NewAddress(users[u], e)) /\ users[u] \in AddrRow
    BY <2>3 DEF AddrRowsTyped
  <2>5. ~users'[u].verified
    BY <2>1, <2>4, NewAddressIsARow, IssuedFields
  <2> QED
    BY <2>1, <2>2, <2>4, <2>5 DEF WritesRow, Addr!Here, Lives
<1>5. ASSUME NEW w \in Worker, Addr!Resend(w) PROVE WritesRow(task[w], u, users[u], users'[u])
  <2>1. task[w].pc = "resend" /\ Addr!Here(task[w].user)
          /\ users' = [users EXCEPT ![task[w].user] = Addr!Issued(@)]
    BY <1>5 DEF Addr!Resend, Addr!At
  <2>2. task[w].user = u /\ users'[u] = Addr!Issued(users[u]) /\ users[u] \in AddrRow
    BY <2>1 DEF AddrRowsTyped
  <2> QED
    BY <2>1, <2>2, IssuedFields DEF WritesRow, Addr!Here, Lives
<1>6. ASSUME NEW w \in Worker, Addr!Verify(w) PROVE WritesRow(task[w], u, users[u], users'[u])
  <2>1. /\ task[w].pc = "verify" /\ Addr!Here(task[w].user)
        /\ users' = [users EXCEPT ![task[w].user] = VerifiedRow(users[task[w].user])]
    BY <1>6, VerifyWrites DEF Addr!Verify, Addr!At
  <2>2. task[w].user = u /\ users'[u] = VerifiedRow(users[u])
          /\ AddrRowOK(users[u], nextToken, mintedFor)
    BY <2>1 DEF AddrRowsTyped
  <2>3. 0 < nextToken
    BY DEF AddrRowsTyped, Addr!BoundAssumption
  <2> QED
    BY <2>1, <2>2, <2>3, VerifiedIsInOrder DEF WritesRow, Addr!Here, Lives
<1>7. ASSUME NEW v \in User, Addr!Delete(v) PROVE users'[u] = Addr!Removed
  BY <1>7 DEF Addr!Delete, AddrRowsTyped
<1>8. ASSUME NEW v \in User, Addr!Age(v) PROVE Ages(users[u], users'[u])
  <2>1. users' = [users EXCEPT ![v] = AgedRow(users[v])]
    BY <1>8, AgeTyped
  <2>2. v = u /\ users'[u] = AgedRow(users[u]) /\ AddrRowOK(users[u], nextToken, mintedFor)
    BY <2>1 DEF AddrRowsTyped
  <2> QED
    BY <2>2, AgedIsInOrder DEF Ages
<1> QED
  BY <1>1, <1>2, <1>3, <1>4, <1>5, <1>6, <1>7, <1>8 DEF Addr!Next

LEMMA LinksStep ==
  Addr!BoundAssumption /\ IAddrType /\ IOwn /\ [Addr!Next]_(Addr!vars)
    => Addr!StepVerifiesItsOwn /\ Addr!StepWaitsForCooldown
<1> SUFFICES ASSUME Addr!BoundAssumption, IAddrType, IOwn, [Addr!Next]_(Addr!vars)
             PROVE  Addr!StepVerifiesItsOwn /\ Addr!StepWaitsForCooldown
  OBVIOUS
<1>1. ASSUME NEW u \in User, Addr!Here(u), ~users[u].verified, users'[u].verified
      PROVE  users[u].token \in mailed /\ mintedFor[users[u].token] = users[u].Email
  <2>1. Lives(users[u]) /\ users[u] # Addr!NoRow /\ users'[u] # users[u]
    BY <1>1, NoRowIsARow DEF Addr!Here, Lives
  <2>2. users'[u] # Addr!Removed /\ ~Ages(users[u], users'[u])
    BY <1>1 DEF Addr!Removed, Addr!NoRow, Ages
  <2>3. PICK w \in Worker : WritesRow(task[w], u, users[u], users'[u])
    BY <2>1, <2>2, RowChanges
  <2>4. OwnOK(task[w], users[u], mailed)
    BY <2>3 DEF IOwn, WritesRow
  <2>5. users[u].token \in mailed
    BY <1>1, <2>1, <2>3, <2>4 DEF WritesRow, OwnOK
  <2>6. users[u].token # 0
    BY <2>5 DEF IAddrType, Addr!Token
  <2> QED
    BY <2>1, <2>5, <2>6 DEF IAddrType, AddrRowsTyped, AddrRowOK
<1>2. ASSUME NEW u \in User, Addr!Here(u), users[u].age = "cooling"
      PROVE  users'[u].token \in {users[u].token, 0}
  <2>1. CASE users'[u] = users[u]
    BY <2>1
  <2>2. CASE users'[u] = Addr!Removed
    BY <2>2 DEF Addr!Removed, Addr!NoRow
  <2>3. CASE Ages(users[u], users'[u])
    BY <2>3 DEF Ages
  <2>4. ASSUME NEW w \in Worker, WritesRow(task[w], u, users[u], users'[u])
        PROVE  users'[u].token \in {users[u].token, 0}
    <3>1. OwnOK(task[w], users[u], mailed)
      BY <2>4 DEF IOwn, WritesRow
    <3>2. Lives(users[u]) /\ users[u] # Addr!NoRow
      BY <1>2, NoRowIsARow DEF Addr!Here, Lives
    <3> QED
      BY <1>2, <2>4, <3>1, <3>2 DEF WritesRow, OwnOK
  <2> QED
    BY <2>1, <2>2, <2>3, <2>4, RowChanges
<1> QED
  BY <1>1, <1>2 DEF Addr!StepVerifiesItsOwn, Addr!StepWaitsForCooldown

\* While one worker is at work, what account_verify and the forms read is still
\* so when they write: an account is verified by a token that was mailed and was
\* given out for the address it has, and it gets no token while one is cooling.
THEOREM LinksAreTheirs ==
  Addr!BoundAssumption /\ OneWorker
    => (Addr!Spec => [][Addr!StepVerifiesItsOwn /\ Addr!StepWaitsForCooldown]_(Addr!vars))
<1> SUFFICES ASSUME Addr!BoundAssumption, OneWorker
             PROVE  Addr!Spec => [][Addr!StepVerifiesItsOwn
                      /\ Addr!StepWaitsForCooldown]_(Addr!vars)
  OBVIOUS
<1>1. Addr!Init => IAddrType /\ IOwn
  BY IAddrTypeStarts, IOwnStarts
<1>2. IAddrType /\ IOwn /\ [Addr!Next]_(Addr!vars) => (IAddrType /\ IOwn)'
  BY IAddrTypeStep, IOwnStep
<1>3. IAddrType /\ IOwn /\ [Addr!Next]_(Addr!vars)
        => [Addr!StepVerifiesItsOwn /\ Addr!StepWaitsForCooldown]_(Addr!vars)
  BY LinksStep
<1> QED
  BY <1>1, <1>2, <1>3, PTL DEF Addr!Spec
=============================================================================

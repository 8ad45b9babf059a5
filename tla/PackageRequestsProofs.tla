----------------------- MODULE PackageRequestsProofs -----------------------
(***************************************************************************)
(* Theorems about PackageRequests.                                         *)
(*                                                                         *)
(* The first three parts are for any sets of users, bases, requests and    *)
(* workers, any operations and any faults: the types; the request that a   *)
(* handler has accepted when it deletes a base; and who gets a base, and   *)
(* against which request (GrantedAdoptionWasGiven, NobodyTakesABase).      *)
(* These relate a step to what other steps have done before it: a handler  *)
(* that accepts an adoption request has written the maintainer two         *)
(* transactions earlier, and one that takes a base away has looked at the  *)
(* role of its user when it was called.  Tracked and Granting say what a   *)
(* handler still knows of that when the others have moved.                 *)
(*                                                                         *)
(* The last part is for one worker: OneFiledAdoption,                      *)
(* EveryClosureHasAComment, OrphaningNeedsARequest and                     *)
(* AutogeneratedIsClosed.  There a handler finds the tables as its last    *)
(* transaction has left them, but for what the handlers of one transaction *)
(* do in between (a close, a flag, a form of co-maintainers), for time and *)
(* for cron; its own crashes and retries are all in.                       *)
(***************************************************************************)
EXTENDS PackageRequests, TLAPS

USE ElevatedAssumption, NobodyAssumption, NoBaseAssumption, NoReqAssumption

-----------------------------------------------------------------------------
(* Type correctness *)

\* The part of TypeOK about the handlers.
JobTypeOK ==
    /\ job \in [Worker -> Job]
    /\ \A w \in Worker : job[w].pc \notin Free =>
         job[w].user \in User /\ job[w].base \in Base

\* The value of job after a step of worker w is typed again.
LEMMA JobUpdate ==
    ASSUME JobTypeOK, NEW w \in Worker, NEW j \in Job,
           j.pc \notin Free => j.user \in User /\ j.base \in Base,
           job' = [job EXCEPT ![w] = j]
    PROVE  JobTypeOK'
  BY DEF JobTypeOK

LEMMA IdleJobType == IdleJob \in Job
  BY DEF IdleJob, Job, Op, PC, Free, HandlePC, RequestType

LEMMA FinishType ==
    ASSUME JobTypeOK, NEW w \in Worker, NEW outcome \in Free,
           Finish(w, outcome)
    PROVE  JobTypeOK'
<1> DEFINE retried == outcome = "refused" /\ job[w].retried
           j == [IdleJob EXCEPT !.pc = outcome, !.retried = retried]
<1>1. retried \in BOOLEAN
  OBVIOUS
<1>2. \A x \in BOOLEAN :
         /\ [IdleJob EXCEPT !.pc = outcome, !.retried = x] \in Job
         /\ [IdleJob EXCEPT !.pc = outcome, !.retried = x].pc = outcome
  BY IdleJobType DEF Job, PC
<1>3. j \in Job /\ j.pc \in Free
  BY <1>1, <1>2
<1> HIDE DEF j
<1>4. job' = [job EXCEPT ![w] = j]
  BY DEF Finish, j
<1>5. QED
  BY <1>3, <1>4, JobUpdate

LEMMA GotoType ==
    ASSUME JobTypeOK, NEW w \in Worker, NEW pc \in PC, Goto(w, pc),
           job[w].pc \notin Free
    PROVE  JobTypeOK'
  BY DEF JobTypeOK, Goto, Job

\* What TypeOK says of a handler that is running.
LEMMA BusyType ==
    ASSUME TypeOK, NEW w \in Worker, job[w].pc \notin Free
    PROVE  /\ JobTypeOK
           /\ job[w] \in Job
           /\ job[w].user \in User
           /\ job[w].base \in Base
           /\ job[w].into \in Base \cup {NoBase}
           /\ job[w].newm \in User \cup {Nobody}
           /\ job[w].type \in RequestType
           /\ job[w].accept \subseteq ReqId
           /\ job[w].ids \subseteq ReqId
           /\ job[w].rest \subseteq User
<1>1. job[w] \in Job
  BY DEF TypeOK
<1>2. QED
  BY <1>1 DEF TypeOK, JobTypeOK, Job

LEMMA NewRequestType ==
    ASSUME NEW t \in RequestType, NEW u \in User, NEW b \in Base,
           NEW m \in Base \cup {NoBase}, NEW o \in Origin
    PROVE  NewRequest(t, u, b, m, o) \in Request
  BY DEF NewRequest, Request, Status

LEMMA HandledTargetType ==
    \A j : j.into \in Base \cup {NoBase} => HandledTarget(j) \in Base \cup {NoBase}
  BY DEF HandledTarget

LEMMA ClosedType ==
    ASSUME TypeOK, NEW S, NEW s \in Status
    PROVE  Closed(S, s) \in [ReqId -> Request \cup {NoReq}]
  BY DEF TypeOK, Closed, Request

LEMMA SetMaintainerType ==
    ASSUME TypeOK, NEW b \in Base, NEW u \in User \cup {Nobody},
           SetMaintainer(b, u)
    PROVE  /\ maintainer' \in [Base -> User \cup {Nobody}]
           /\ held' \subseteq Base \X User
  BY DEF TypeOK, SetMaintainer

LEMMA DeleteBaseType ==
    ASSUME TypeOK, NEW b \in Base, DeleteBase(b)
    PROVE  /\ exists' \subseteq Base
           /\ maintainer' \in [Base -> User \cup {Nobody}]
           /\ comaints' \in [Base -> SUBSET User]
           /\ flagged' \in [Base -> {"no", "recent", "old"}]
           /\ young' \subseteq Base
           /\ req' \in [ReqId -> Request \cup {NoReq}]
  BY DEF TypeOK, DeleteBase, Request

LEMMA FileCreateType ==
    ASSUME TypeOK, NEW w \in Worker, FileCreate(w)
    PROVE  TypeOK'
<1>1. JobTypeOK
  BY DEF TypeOK, JobTypeOK
<1>2. job[w] \in Job /\ job[w].user \in User /\ job[w].base \in Base
  BY DEF FileCreate, At, TypeOK, Free
<1>3. req' \in [ReqId -> Request \cup {NoReq}]
  BY <1>2, NewRequestType DEF FileCreate, TypeOK, Job, Origin
<1>4. JobTypeOK'
  <2>1. PICK r \in ReqId :
          IF job[w].type \in {"orphan", "deletion"}
          THEN job' = [job EXCEPT ![w].pc = "fileAuto", ![w].ids = {r}]
          ELSE Finish(w, "done")
    BY DEF FileCreate
  <2>2. CASE Finish(w, "done")
    BY <1>1, <2>2, FinishType DEF Free
  <2>3. CASE job' = [job EXCEPT ![w].pc = "fileAuto", ![w].ids = {r}]
    BY <1>1, <1>2, <2>1, <2>3 DEF JobTypeOK, Job, PC
  <2>4. QED
    BY <2>1, <2>2, <2>3
<1>5. QED
  BY <1>3, <1>4 DEF FileCreate, TypeOK, JobTypeOK

LEMMA FileAutoType ==
    ASSUME TypeOK, NEW w \in Worker, FileAuto(w)
    PROVE  TypeOK'
<1>1. JobTypeOK
  BY DEF TypeOK, JobTypeOK
<1>2. JobTypeOK'
  <2>1. CASE job' = [job EXCEPT ![w].pc = "autoOrphan",
                                ![w].seen = maintainer[job[w].base]]
    <3>1. job[w] \in Job /\ job[w].user \in User /\ job[w].base \in Base
      BY DEF FileAuto, At, TypeOK, Free
    <3>2. maintainer[job[w].base] \in User \cup {Nobody}
      BY <3>1 DEF TypeOK
    <3>3. QED
      BY <1>1, <2>1, <3>1, <3>2 DEF JobTypeOK, Job, PC
  <2>2. CASE Goto(w, "readAccept")
    BY <1>1, <2>2, GotoType DEF FileAuto, At, Free, PC, HandlePC
  <2>3. CASE Finish(w, "done")
    BY <1>1, <2>3, FinishType DEF Free
  <2>4. QED
    BY <2>1, <2>2, <2>3 DEF FileAuto
<1>3. QED
  BY <1>2 DEF FileAuto, TypeOK, JobTypeOK, dbVars

LEMMA AutoOrphanType ==
    ASSUME TypeOK, NEW w \in Worker, AutoOrphan(w)
    PROVE  TypeOK'
<1>1. JobTypeOK
  BY DEF TypeOK, JobTypeOK
<1>2. job[w] \in Job /\ job[w].base \in Base
  BY DEF AutoOrphan, At, TypeOK, Free
<1>3. JobTypeOK'
  BY <1>1, FinishType DEF AutoOrphan, Free
<1>4. /\ maintainer' \in [Base -> User \cup {Nobody}]
      /\ held' \subseteq Base \X User
  BY <1>2, SetMaintainerType DEF AutoOrphan, TypeOK
<1>5. req' \in [ReqId -> Request \cup {NoReq}]
  BY ClosedType DEF AutoOrphan, TypeOK, Status
<1>6. everAccepted' \subseteq ReqId
  BY <1>2 DEF AutoOrphan, TypeOK, Job
<1>7. QED
  BY <1>3, <1>4, <1>5, <1>6 DEF AutoOrphan, TypeOK, JobTypeOK

LEMMA AdoptSetType ==
    ASSUME TypeOK, NEW w \in Worker, AdoptSet(w)
    PROVE  TypeOK'
<1>1. job[w].pc \notin Free
  BY DEF AdoptSet, At, Free
<1>2. JobTypeOK'
  BY <1>1, BusyType, GotoType DEF AdoptSet, PC, HandlePC
<1>3. /\ maintainer' \in [Base -> User \cup {Nobody}]
      /\ held' \subseteq Base \X User
  BY <1>1, BusyType, SetMaintainerType DEF AdoptSet, TypeOK
<1>4. QED
  BY <1>2, <1>3 DEF AdoptSet, TypeOK, JobTypeOK

LEMMA AdoptCreateType ==
    ASSUME TypeOK, NEW w \in Worker, AdoptCreate(w)
    PROVE  TypeOK'
<1>1. job[w].pc \notin Free
  BY DEF AdoptCreate, At, Free
<1>2. JobTypeOK'
  BY <1>1, BusyType, FinishType DEF AdoptCreate, Free
<1>3. req' \in [ReqId -> Request \cup {NoReq}]
  <2>1. \A o \in Origin :
          NewRequest("adoption", job[w].user, job[w].base, NoBase, o) \in Request
    BY <1>1, BusyType, NewRequestType DEF RequestType
  <2>2. QED
    BY <2>1 DEF AdoptCreate, TypeOK, Origin
<1>4. QED
  BY <1>2, <1>3 DEF AdoptCreate, TypeOK, JobTypeOK

LEMMA DisownRoleType ==
    ASSUME TypeOK, NEW w \in Worker, DisownRole(w)
    PROVE  TypeOK'
<1>1. job[w].pc \notin Free
  BY DEF DisownRole, At, Free
<1>2. JobTypeOK'
  <2>1. {"disownOwner", "disownCo", "verify"} \subseteq PC /\ "done" \in Free
    BY DEF PC, HandlePC, Free
  <2>2. QED
    BY <1>1, <2>1, BusyType, GotoType, FinishType DEF DisownRole
<1>3. QED
  BY <1>2 DEF DisownRole, TypeOK, JobTypeOK, dbVars

LEMMA DisownOwnerType ==
    ASSUME TypeOK, NEW w \in Worker, DisownOwner(w)
    PROVE  TypeOK'
<1>1. job[w].pc \notin Free
  BY DEF DisownOwner, At, Free
<1>2. JobTypeOK'
  BY <1>1, BusyType, FinishType DEF DisownOwner, Free
<1>3. /\ maintainer' \in [Base -> User \cup {Nobody}]
      /\ held' \subseteq Base \X User
      /\ comaints' \in [Base -> SUBSET User]
  <2>1. CASE /\ comaints[job[w].base] = {}
             /\ SetMaintainer(job[w].base, Nobody)
             /\ UNCHANGED comaints
    BY <1>1, <2>1, BusyType, SetMaintainerType DEF TypeOK
  <2>2. CASE \E c \in comaints[job[w].base] :
               /\ comaints' = [comaints EXCEPT ![job[w].base] = @ \ {c}]
               /\ IF c = job[w].user THEN UNCHANGED <<maintainer, held>>
                                     ELSE SetMaintainer(job[w].base, c)
    <3>1. PICK c \in comaints[job[w].base] :
               /\ comaints' = [comaints EXCEPT ![job[w].base] = @ \ {c}]
               /\ IF c = job[w].user THEN UNCHANGED <<maintainer, held>>
                                     ELSE SetMaintainer(job[w].base, c)
      BY <2>2
    <3>2. c \in User
      BY <1>1, <3>1, BusyType DEF TypeOK
    <3>3. QED
      BY <1>1, <3>1, <3>2, BusyType, SetMaintainerType DEF TypeOK
  <2>3. QED
    BY <2>1, <2>2 DEF DisownOwner
<1>4. QED
  BY <1>2, <1>3 DEF DisownOwner, TypeOK, JobTypeOK

LEMMA DisownCoType ==
    ASSUME TypeOK, NEW w \in Worker, DisownCo(w)
    PROVE  TypeOK'
<1>1. job[w].pc \notin Free
  BY DEF DisownCo, At, Free
<1>2. JobTypeOK'
  BY <1>1, BusyType, FinishType DEF DisownCo, Free
<1>3. comaints' \in [Base -> SUBSET User]
  BY DEF DisownCo, TypeOK
<1>4. QED
  BY <1>2, <1>3 DEF DisownCo, TypeOK, JobTypeOK

LEMMA DisownFinishType ==
    ASSUME TypeOK, NEW w \in Worker, DisownFinish(w)
    PROVE  TypeOK'
<1>1. job[w].pc \notin Free
  BY DEF DisownFinish, At, Free
<1>2. JobTypeOK'
  BY <1>1, BusyType, FinishType DEF DisownFinish, Free
<1>3. /\ maintainer' \in [Base -> User \cup {Nobody}]
      /\ held' \subseteq Base \X User
  BY <1>1, BusyType, SetMaintainerType DEF DisownFinish
<1>4. comaints' \in [Base -> SUBSET User]
  BY DEF DisownFinish, TypeOK
<1>5. QED
  BY <1>2, <1>3, <1>4 DEF DisownFinish, TypeOK, JobTypeOK

LEMMA DeleteFinishType ==
    ASSUME TypeOK, NEW w \in Worker, DeleteFinish(w) \/ MergeDelete(w)
    PROVE  TypeOK'
<1>1. job[w].pc \notin Free
  BY DEF DeleteFinish, MergeDelete, At, Free
<1>2. JobTypeOK'
  BY <1>1, BusyType, FinishType DEF DeleteFinish, MergeDelete, Free
<1>3. DeleteBase(job[w].base) /\ UNCHANGED <<sweep, held, everAccepted>>
  BY DEF DeleteFinish, MergeDelete
<1>4. QED
  BY <1>1, <1>2, <1>3, BusyType, DeleteBaseType DEF TypeOK, JobTypeOK

LEMMA MergeMoveType ==
    ASSUME TypeOK, NEW w \in Worker, MergeMove(w)
    PROVE  TypeOK'
<1>1. job[w].pc \notin Free
  BY DEF MergeMove, At, Free
<1>2. JobTypeOK'
  BY <1>1, BusyType, GotoType, FinishType DEF MergeMove, PC, Free
<1>3. QED
  BY <1>2 DEF MergeMove, TypeOK, JobTypeOK, dbVars

LEMMA VerifyType ==
    ASSUME TypeOK, NEW w \in Worker, Verify(w)
    PROVE  TypeOK'
<1>1. job[w].pc \notin Free
  BY DEF Verify, At, Free
<1>2. JobTypeOK'
  BY <1>1, BusyType, GotoType, FinishType DEF Verify, PC, HandlePC, Free
<1>3. QED
  BY <1>2 DEF Verify, TypeOK, JobTypeOK, dbVars

LEMMA ReadAcceptType ==
    ASSUME TypeOK, NEW w \in Worker, ReadAccept(w)
    PROVE  TypeOK'
<1> DEFINE accept == Acceptable(job[w])
           j == [job[w] EXCEPT !.pc = "readReject", !.accept = accept]
<1>1. job[w].pc \notin Free
  BY DEF ReadAccept, At, Free
<1>2. accept \in SUBSET ReqId
  BY DEF Acceptable, Pending, Filed
<1>3. job[w] \in Job
  BY <1>1, BusyType
<1>4. job' = [job EXCEPT ![w] = j]
  BY <1>1, BusyType DEF ReadAccept, JobTypeOK
<1> HIDE DEF accept
<1>5. j \in Job /\ j.user = job[w].user /\ j.base = job[w].base
  BY <1>2, <1>3 DEF Job, PC, HandlePC
<1> HIDE DEF j
<1>6. JobTypeOK'
  BY <1>1, <1>4, <1>5, BusyType, JobUpdate
<1>7. QED
  BY <1>6 DEF ReadAccept, TypeOK, JobTypeOK, dbVars

LEMMA ReadRejectType ==
    ASSUME TypeOK, NEW w \in Worker, ReadReject(w)
    PROVE  TypeOK'
<1> DEFINE pc == IF job[w].accept = {} THEN "create" ELSE "close"
           reject == Pending(job[w].type, job[w].base) \ job[w].accept
           j == [job[w] EXCEPT !.pc = pc, !.reject = reject]
<1>1. job[w].pc \notin Free
  BY DEF ReadReject, At, Free
<1>2. reject \in SUBSET ReqId
  BY DEF Pending, Filed
<1>3. pc \in PC
  BY DEF PC, HandlePC
<1>4. job[w] \in Job
  BY <1>1, BusyType
<1>5. job' = [job EXCEPT ![w] = j]
  BY <1>1, BusyType DEF ReadReject, JobTypeOK
<1> HIDE DEF pc, reject
<1>6. j \in Job /\ j.user = job[w].user /\ j.base = job[w].base
  BY <1>2, <1>3, <1>4 DEF Job
<1> HIDE DEF j
<1>7. JobTypeOK'
  BY <1>1, <1>5, <1>6, BusyType, JobUpdate
<1>8. QED
  BY <1>7 DEF ReadReject, TypeOK, JobTypeOK, dbVars

LEMMA CreateHandledType ==
    ASSUME TypeOK, NEW w \in Worker, CreateHandled(w)
    PROVE  TypeOK'
<1>1. job[w].pc \notin Free
  BY DEF CreateHandled, At, Free
<1>2. PICK r \in ReqId :
        /\ req' = [req EXCEPT ![r] =
             NewRequest(job[w].type, job[w].user, job[w].base,
                        HandledTarget(job[w]), "handler")]
        /\ job' = [job EXCEPT ![w].pc = "close", ![w].accept = {r}]
  BY DEF CreateHandled
<1>3. JobTypeOK'
  <2> DEFINE j == [job[w] EXCEPT !.pc = "close", !.accept = {r}]
  <2>1. job[w] \in Job
    BY <1>1, BusyType
  <2>2. j \in Job /\ j.user = job[w].user /\ j.base = job[w].base
    BY <2>1 DEF Job, PC, HandlePC
  <2>3. job' = [job EXCEPT ![w] = j]
    BY <1>2, <2>1 DEF TypeOK
  <2> HIDE DEF j
  <2>4. QED
    BY <1>1, <2>2, <2>3, BusyType, JobUpdate
<1>4. req' \in [ReqId -> Request \cup {NoReq}]
  BY <1>1, <1>2, BusyType, HandledTargetType, NewRequestType DEF TypeOK, Origin
<1>5. QED
  BY <1>3, <1>4 DEF CreateHandled, TypeOK, JobTypeOK

LEMMA CloseType ==
    ASSUME TypeOK, NEW w \in Worker, Close(w)
    PROVE  TypeOK'
<1>1. job[w].pc \notin Free
  BY DEF Close, At, Free
<1>2. JobTypeOK'
  <2>1. AfterHandle(job[w]) # "done" => AfterHandle(job[w]) \in PC
    BY <1>1, BusyType DEF AfterHandle, PC, RequestType
  <2>2. QED
    BY <1>1, <2>1, BusyType, GotoType, FinishType DEF Close, Free
<1>3. req' \in [ReqId -> Request \cup {NoReq}]
  BY ClosedType DEF Close, TypeOK, Status
<1>4. everAccepted' \subseteq ReqId
  BY <1>1, BusyType DEF Close, TypeOK
<1>5. QED
  BY <1>2, <1>3, <1>4 DEF Close, TypeOK, JobTypeOK

LEMMA SshCloseType ==
    ASSUME TypeOK, NEW w \in Worker, SshClose(w)
    PROVE  TypeOK'
<1>1. job[w].pc \notin Free
  BY DEF SshClose, At, Free
<1>2. CASE job[w].accept = {} /\ Goto(w, "sshRead") /\ UNCHANGED <<req, everAccepted>>
  <2>1. JobTypeOK'
    BY <1>1, <1>2, BusyType, GotoType DEF PC
  <2>2. QED
    BY <1>2, <2>1 DEF SshClose, TypeOK, JobTypeOK
<1>3. CASE \E r \in job[w].accept :
            /\ req' = Closed({r}, "accepted")
            /\ everAccepted' = everAccepted \cup {r}
            /\ job' = [job EXCEPT ![w].accept = @ \ {r}]
  <2>1. PICK r \in job[w].accept :
            /\ req' = Closed({r}, "accepted")
            /\ everAccepted' = everAccepted \cup {r}
            /\ job' = [job EXCEPT ![w].accept = @ \ {r}]
    BY <1>3
  <2>2. JobTypeOK'
    BY <1>1, <2>1, BusyType DEF JobTypeOK, Job
  <2>3. req' \in [ReqId -> Request \cup {NoReq}] /\ everAccepted' \subseteq ReqId
    BY <1>1, <2>1, BusyType, ClosedType DEF Status, TypeOK
  <2>4. QED
    BY <2>2, <2>3 DEF SshClose, TypeOK, JobTypeOK
<1>4. QED
  BY <1>2, <1>3 DEF SshClose

LEMMA SshReadType ==
    ASSUME TypeOK, NEW w \in Worker, SshRead(w)
    PROVE  TypeOK'
<1> DEFINE cs == comaints[job[w].base]
<1>1. job[w].pc \notin Free
  BY DEF SshRead, At, Free
<1>2. cs \subseteq User
  BY <1>1, BusyType DEF TypeOK
<1>3. JobTypeOK'
  <2>1. CASE Goto(w, "sshComaints")
    BY <1>1, <2>1, BusyType, GotoType DEF PC
  <2>2. ASSUME NEW c \in cs,
               job' = [job EXCEPT ![w].pc = "sshComaints",
                                  ![w].newm = c, ![w].rest = cs \ {c}]
        PROVE  JobTypeOK'
    <3> DEFINE others == cs \ {c}
               j == [job[w] EXCEPT !.pc = "sshComaints",
                                   !.newm = c, !.rest = others]
    <3>1. c \in User /\ others \in SUBSET User
      BY <1>2
    <3>2. job' = [job EXCEPT ![w] = j]
      BY <1>1, <2>2, BusyType DEF JobTypeOK
    <3>3. job[w] \in Job
      BY <1>1, BusyType
    <3> HIDE DEF others
    <3>4. j \in Job /\ j.user = job[w].user /\ j.base = job[w].base
      BY <3>1, <3>3 DEF Job, PC
    <3> HIDE DEF j
    <3>5. QED
      BY <1>1, <3>2, <3>4, BusyType, JobUpdate
  <2>3. QED
    BY <2>1, <2>2 DEF SshRead
<1>4. QED
  BY <1>3 DEF SshRead, TypeOK, JobTypeOK, dbVars

LEMMA SshComaintsType ==
    ASSUME TypeOK, NEW w \in Worker, SshComaints(w)
    PROVE  TypeOK'
<1>1. job[w].pc \notin Free
  BY DEF SshComaints, At, Free
<1>2. JobTypeOK'
  BY <1>1, BusyType, GotoType, FinishType DEF SshComaints, PC, Free
<1>3. comaints' \in [Base -> SUBSET User]
  BY <1>1, BusyType DEF SshComaints, TypeOK
<1>4. QED
  BY <1>2, <1>3 DEF SshComaints, TypeOK, JobTypeOK

LEMMA SshMaintType ==
    ASSUME TypeOK, NEW w \in Worker, SshMaint(w)
    PROVE  TypeOK'
<1>1. job[w].pc \notin Free
  BY DEF SshMaint, At, Free
<1>2. JobTypeOK'
  BY <1>1, BusyType, FinishType DEF SshMaint, Free
<1>3. /\ maintainer' \in [Base -> User \cup {Nobody}]
      /\ held' \subseteq Base \X User
  BY <1>1, BusyType, SetMaintainerType DEF SshMaint, TypeOK
<1>4. QED
  BY <1>2, <1>3 DEF SshMaint, TypeOK, JobTypeOK

LEMMA PushSaveType ==
    ASSUME TypeOK, NEW w \in Worker, PushSave(w)
    PROVE  TypeOK'
<1>1. job[w].pc \notin Free
  BY DEF PushSave, At, Free
<1>2. JobTypeOK'
  BY <1>1, BusyType, FinishType DEF PushSave, Free
<1>3. /\ maintainer' \in [Base -> User \cup {Nobody}]
      /\ held' \subseteq Base \X User
  BY <1>1, BusyType, SetMaintainerType DEF PushSave, PushedMaintainer, TypeOK
<1>4. flagged' \in [Base -> {"no", "recent", "old"}]
  BY DEF PushSave, TypeOK
<1>5. QED
  BY <1>2, <1>3, <1>4 DEF PushSave, TypeOK, JobTypeOK

LEMMA BaseGoneType ==
    ASSUME TypeOK, NEW w \in Worker, BaseGone(w)
    PROVE  TypeOK'
<1>1. job[w].pc \notin Free
  BY DEF BaseGone, Free
<1>2. JobTypeOK'
  BY <1>1, BusyType, FinishType DEF BaseGone, Free
<1>3. QED
  BY <1>2 DEF BaseGone, TypeOK, JobTypeOK, dbVars

LEMMA HandlerType ==
    ASSUME TypeOK, NEW w \in Worker, Handler(w)
    PROVE  TypeOK'
  BY FileCreateType, FileAutoType, AutoOrphanType, AdoptSetType,
     AdoptCreateType, DisownRoleType, DisownOwnerType, DisownCoType,
     DisownFinishType, DeleteFinishType, MergeMoveType, VerifyType,
     ReadAcceptType, ReadRejectType, CreateHandledType, CloseType,
     SshCloseType, SshReadType, SshComaintsType, SshMaintType, PushSaveType,
     BaseGoneType DEF Handler

LEMMA StartType ==
    ASSUME TypeOK, NEW w \in Worker, NEW j \in Job, Start(w, j),
           j.user \in User, j.base \in Base,
           UNCHANGED <<dbVars, sweep, held, everAccepted>>
    PROVE  TypeOK'
<1>1. JobTypeOK'
  BY JobUpdate DEF Start, TypeOK, JobTypeOK
<1>2. QED
  BY <1>1 DEF TypeOK, JobTypeOK, dbVars

LEMMA CalledType ==
    ASSUME TypeOK, NEW w \in Worker, Called(w)
    PROVE  TypeOK'
<1> USE IdleJobType
<1>1. PICK u \in User, b \in Base :
        \/ \E t \in RequestType, m \in Base \cup {NoBase} :
             FileStart(w, u, b, t, m)
        \/ AdoptStart(w, u, b)
        \/ \E o \in {"adopt", "sshAdopt"} : RequestAdoption(w, u, b, o)
        \/ DisownStart(w, u, b)
        \/ DeleteStart(w, u, b)
        \/ \E m \in Base : MergeStart(w, u, b, m)
        \/ SshDisownStart(w, u, b)
        \/ PushStart(w, u, b)
  BY DEF Called
<1>2. ASSUME NEW t \in RequestType, NEW m \in Base \cup {NoBase},
             FileStart(w, u, b, t, m)
      PROVE  TypeOK'
  <2> DEFINE j == [IdleJob EXCEPT !.op = "file", !.pc = "fileCreate",
                     !.type = t, !.user = u, !.base = b, !.into = m]
  <2>1. j \in Job /\ j.user = u /\ j.base = b
    BY DEF Job, Op, PC
  <2>2. Start(w, j) /\ UNCHANGED <<dbVars, sweep, held, everAccepted>>
    BY <1>2 DEF FileStart
  <2> HIDE DEF j
  <2>3. QED
    BY <2>1, <2>2, StartType
<1>3. CASE AdoptStart(w, u, b)
  <2>1. PICK pick \in {<<u, {}>>} \cup
                   {<<req[r].user, {r}>> : r \in Pending("adoption", b)} :
          Start(w, [IdleJob EXCEPT !.op = "adopt", !.pc = "adoptSet",
                     !.type = "adoption", !.user = u, !.base = b,
                     !.newm = pick[1], !.ids = pick[2],
                     !.seen = maintainer[b]])
    BY <1>3 DEF AdoptStart
  <2> DEFINE newm == pick[1]
             ids == pick[2]
             seen == maintainer[b]
             j == [IdleJob EXCEPT !.op = "adopt", !.pc = "adoptSet",
                     !.type = "adoption", !.user = u, !.base = b,
                     !.newm = newm, !.ids = ids, !.seen = seen]
  <2>2. newm \in User /\ ids \in SUBSET ReqId
    <3>1. \A r \in Pending("adoption", b) : r \in ReqId /\ req[r].user \in User
      BY DEF Pending, Filed, TypeOK, Request
    <3>2. QED
      BY <2>1, <3>1
  <2>3. seen \in User \cup {Nobody}
    BY DEF TypeOK
  <2>4. Start(w, j)
    BY <2>1
  <2> HIDE DEF newm, ids, seen
  <2>5. j \in Job /\ j.user = u /\ j.base = b
    BY <2>2, <2>3 DEF IdleJob, Job, Op, PC, RequestType
  <2> HIDE DEF j
  <2>6. QED
    BY <1>3, <2>4, <2>5, StartType DEF AdoptStart
<1>4. ASSUME NEW o \in {"adopt", "sshAdopt"}, RequestAdoption(w, u, b, o)
      PROVE  TypeOK'
  <2> DEFINE j == [IdleJob EXCEPT !.op = o, !.pc = "adoptCreate",
                     !.type = "adoption", !.user = u, !.base = b]
  <2>1. o \in Op /\ "adoptCreate" \in PC /\ "adoption" \in RequestType
    BY DEF Op, PC, RequestType
  <2>2. j \in Job /\ j.user = u /\ j.base = b
    BY <2>1 DEF Job
  <2>3. Start(w, j) /\ UNCHANGED <<dbVars, sweep, held, everAccepted>>
    BY <1>4 DEF RequestAdoption
  <2> HIDE DEF j
  <2>4. QED
    BY <2>2, <2>3, StartType
<1>5. CASE DisownStart(w, u, b)
  <2> DEFINE j == [IdleJob EXCEPT !.op = "disown", !.pc = "disownRole",
                     !.type = "orphan", !.user = u, !.base = b]
  <2>1. j \in Job /\ j.user = u /\ j.base = b
    BY DEF Job, Op, PC, RequestType
  <2>2. Start(w, j) /\ UNCHANGED <<dbVars, sweep, held, everAccepted>>
    BY <1>5 DEF DisownStart
  <2> HIDE DEF j
  <2>3. QED
    BY <2>1, <2>2, StartType
<1>6. CASE DeleteStart(w, u, b)
  <2> DEFINE j == [IdleJob EXCEPT !.op = "delete", !.pc = "readAccept",
                     !.type = "deletion", !.user = u, !.base = b]
  <2>1. j \in Job /\ j.user = u /\ j.base = b
    BY DEF Job, Op, PC, HandlePC, RequestType
  <2>2. Start(w, j) /\ UNCHANGED <<dbVars, sweep, held, everAccepted>>
    BY <1>6 DEF DeleteStart
  <2> HIDE DEF j
  <2>3. QED
    BY <2>1, <2>2, StartType
<1>7. ASSUME NEW m \in Base, MergeStart(w, u, b, m)
      PROVE  TypeOK'
  <2> DEFINE j == [IdleJob EXCEPT !.op = "merge", !.pc = "readAccept",
                     !.type = "merge", !.user = u, !.base = b, !.into = m]
  <2>1. j \in Job /\ j.user = u /\ j.base = b
    BY DEF Job, Op, PC, HandlePC, RequestType
  <2>2. Start(w, j) /\ UNCHANGED <<dbVars, sweep, held, everAccepted>>
    BY <1>7 DEF MergeStart
  <2> HIDE DEF j
  <2>3. QED
    BY <2>1, <2>2, StartType
<1>8. CASE SshDisownStart(w, u, b)
  <2> DEFINE seen == IF u = maintainer[b] THEN u ELSE Nobody
             accept == Pending("orphan", b)
             j == [IdleJob EXCEPT !.op = "sshDisown", !.pc = "sshClose",
                     !.type = "orphan", !.user = u, !.base = b,
                     !.seen = seen, !.accept = accept]
  <2>1. seen \in User \cup {Nobody} /\ accept \in SUBSET ReqId
    BY DEF Pending, Filed
  <2>2. Start(w, j) /\ UNCHANGED <<dbVars, sweep, held, everAccepted>>
    BY <1>8 DEF SshDisownStart
  <2> HIDE DEF seen, accept
  <2>3. j \in Job /\ j.user = u /\ j.base = b
    BY <2>1 DEF IdleJob, Job, Op, PC, RequestType
  <2> HIDE DEF j
  <2>4. QED
    BY <2>2, <2>3, StartType
<1>9. CASE PushStart(w, u, b)
  <2> DEFINE j == [IdleJob EXCEPT !.op = "push", !.pc = "pushSave",
                     !.user = u, !.base = b]
  <2>1. j \in Job /\ j.user = u /\ j.base = b
    BY DEF Job, Op, PC
  <2>2. Start(w, j) /\ UNCHANGED <<dbVars, sweep, held, everAccepted>>
    BY <1>9 DEF PushStart
  <2> HIDE DEF j
  <2>3. QED
    BY <2>1, <2>2, StartType
<1>10. QED
  BY <1>1, <1>2, <1>3, <1>4, <1>5, <1>6, <1>7, <1>8, <1>9

LEMMA FaultType ==
    ASSUME TypeOK, NEW w \in Worker, Crash(w) \/ Deadlock(w)
    PROVE  TypeOK'
<1>1. CASE Crash(w)
  <2>1. JobTypeOK'
    BY <1>1, BusyType, FinishType DEF Crash, Free
  <2>2. QED
    BY <1>1, <2>1 DEF Crash, TypeOK, JobTypeOK, dbVars
<1>2. CASE Deadlock(w)
  <2>1. PICK pc \in RetryPoints(job[w]) :
          job' = [job EXCEPT ![w].pc = pc, ![w].retried = HasAccepted(job[w])]
    BY <1>2 DEF Deadlock
  <2>2. pc \in PC /\ job[w].pc \notin Free
    BY <2>1 DEF RetryPoints, HandleStart, PC, HandlePC, Free
  <2> DEFINE retried == HasAccepted(job[w])
             j == [job[w] EXCEPT !.pc = pc, !.retried = retried]
  <2>3. job[w] \in Job /\ retried \in BOOLEAN
    BY <2>2, BusyType DEF HasAccepted, Job
  <2> HIDE DEF retried
  <2>4. j \in Job /\ j.user = job[w].user /\ j.base = job[w].base
    BY <2>2, <2>3 DEF Job
  <2>5. job' = [job EXCEPT ![w] = j]
    BY <2>1, <2>3 DEF TypeOK, retried
  <2> HIDE DEF j
  <2>6. JobTypeOK'
    BY <2>2, <2>4, <2>5, BusyType, JobUpdate
  <2>7. QED
    BY <1>2, <2>6 DEF Deadlock, TypeOK, JobTypeOK, dbVars
<1>3. QED
  BY <1>1, <1>2

LEMMA OneStepType == TypeOK /\ OneStep => TypeOK'
<1> SUFFICES ASSUME TypeOK, OneStep PROVE TypeOK'
  OBVIOUS
<1>1. ASSUME NEW u \in User, NEW r \in ReqId, CloseRequest(u, r)
      PROVE  TypeOK'
  <2>1. req' \in [ReqId -> Request \cup {NoReq}]
    BY <1>1, ClosedType DEF CloseRequest, Status
  <2>2. QED
    BY <1>1, <2>1 DEF CloseRequest, TypeOK
<1>2. ASSUME NEW u \in User, NEW b \in Base, NEW S \in SUBSET User,
             SetComaintainers(u, b, S)
      PROVE  TypeOK'
  BY <1>2 DEF SetComaintainers, TypeOK
<1>3. ASSUME NEW b \in Base, Flag(b)
      PROVE  TypeOK'
  BY <1>3 DEF Flag, TypeOK
<1>4. QED
  BY <1>1, <1>2, <1>3 DEF OneStep

LEMMA SweepType == TypeOK /\ Sweep => TypeOK'
<1> SUFFICES ASSUME TypeOK, Sweep PROVE TypeOK'
  OBVIOUS
<1>1. CASE SweepRead
  BY <1>1 DEF SweepRead, Idle, Filed, TypeOK, dbVars
<1>2. CASE SweepWrite
  <2>1. req' \in [ReqId -> Request \cup {NoReq}]
    BY <1>2, ClosedType DEF SweepWrite, Status
  <2>2. QED
    BY <1>2, <2>1 DEF SweepWrite, TypeOK
<1>3. CASE SweepFail
  BY <1>3 DEF SweepFail, TypeOK, dbVars
<1>4. QED
  BY <1>1, <1>2, <1>3 DEF Sweep

LEMMA TimeType == TypeOK /\ Time => TypeOK'
<1> SUFFICES ASSUME TypeOK, Time PROVE TypeOK'
  OBVIOUS
<1>1. ASSUME NEW b \in Base, FlagAges(b)
      PROVE  TypeOK'
  BY <1>1 DEF FlagAges, TypeOK
<1>2. ASSUME NEW b \in Base, BaseAges(b)
      PROVE  TypeOK'
  BY <1>2 DEF BaseAges, TypeOK
<1>3. ASSUME NEW r \in ReqId, RequestDue(r)
      PROVE  TypeOK'
  <2>1. req[r] \in Request
    BY <1>3 DEF RequestDue, Filed, TypeOK
  <2>2. [req[r] EXCEPT !.due = TRUE] \in Request
    BY <2>1 DEF Request
  <2>3. req' \in [ReqId -> Request \cup {NoReq}]
    BY <1>3, <2>2 DEF RequestDue, TypeOK
  <2>4. QED
    BY <1>3, <2>3 DEF RequestDue, TypeOK
<1>4. QED
  BY <1>1, <1>2, <1>3 DEF Time

LEMMA InitType == Init => TypeOK
<1> SUFFICES ASSUME Init PROVE TypeOK
  OBVIOUS
<1>1. \A w \in Worker : job[w] = IdleJob /\ IdleJob.pc \in Free
  BY DEF Init, IdleJob, Free
<1>2. held \subseteq Base \X User
  BY DEF Init
<1>3. QED
  BY <1>1, <1>2, IdleJobType DEF Init, TypeOK

\* Every column, every local variable of a handler and every history variable
\* keeps its type, whatever runs and whatever fails; in particular a running
\* handler always has a user and a base to write to a foreign key.
THEOREM TypeCorrect == Spec => []TypeOK
<1>1. TypeOK /\ [Next]_vars => TypeOK'
  <2> SUFFICES ASSUME TypeOK, [Next]_vars PROVE TypeOK'
    OBVIOUS
  <2>1. CASE UNCHANGED vars
    BY <2>1 DEF vars, dbVars, TypeOK
  <2>2. QED
    BY <2>1, CalledType, HandlerType, FaultType, OneStepType, SweepType,
       TimeType DEF Next
<1>2. QED
  BY InitType, <1>1, PTL DEF Spec

-----------------------------------------------------------------------------
(* RemovalIsTracked: no base is deleted without an accepted request for it. *)
(*                                                                         *)
(* The property speaks of one step.  What makes it true is what a handler  *)
(* knows between two of its steps: the requests in its accept list are     *)
(* about its own base (and, for a merge, target) from the moment they are  *)
(* read to the moment they are closed, whatever the other handlers do to   *)
(* the table, and a handler that is about to act has had one of them       *)
(* accepted.                                                               *)

FiledIn(S, rq) == \A r \in S : r \in ReqId /\ rq[r] # NoReq

Matches(r, j, rq) ==
    /\ r \in ReqId
    /\ rq[r] # NoReq
    /\ rq[r].name = j.base
    /\ rq[r].type = j.type
    /\ j.type = "merge" => rq[r].into = j.into

\* Handlers that have had a request accepted and now act on it.
ActPC == {"disownFinish", "deleteFinish", "mergeMove", "mergeDelete"}

JobTracked(j, rq, accepted) ==
    /\ j.pc \in {"fileAuto", "autoOrphan"} => FiledIn(j.ids, rq)
    /\ j.pc = "sshClose" => FiledIn(j.accept, rq)
    /\ j.pc \in {"readReject", "create", "close"} =>
         \A r \in j.accept : Matches(r, j, rq)
    /\ j.pc = "close" => j.accept # {}
    /\ j.pc \in ActPC => \E r \in accepted : Matches(r, j, rq)

Tracked ==
    /\ FiledIn(everAccepted, req)
    /\ \A w \in Worker : JobTracked(job[w], req, everAccepted)

-----------------------------------------------------------------------------
(* Steps that keep what is known about the table. *)

\* Rows stay, and what they are about does not change.
RowsKept ==
    \A r \in ReqId : req[r] # NoReq =>
        /\ req'[r] # NoReq
        /\ req'[r].name = req[r].name
        /\ req'[r].type = req[r].type
        /\ req'[r].into = req[r].into

\* Only worker w's handler moves.
OnlyMoves(w) == \A v \in Worker \ {w} : job'[v] = job[v]

LEMMA KnownJob ==
    ASSUME RowsKept, everAccepted \subseteq everAccepted', NEW j,
           JobTracked(j, req, everAccepted)
    PROVE  JobTracked(j, req', everAccepted')
<1>1. \A r : Matches(r, j, req) => Matches(r, j, req')
  BY DEF RowsKept, Matches
<1>2. \A S : FiledIn(S, req) => FiledIn(S, req')
  BY DEF RowsKept, FiledIn
<1>3. QED
  BY <1>1, <1>2 DEF JobTracked

LEMMA TrackedStep ==
    ASSUME Tracked, NEW w \in Worker, RowsKept, OnlyMoves(w),
           everAccepted \subseteq everAccepted',
           FiledIn(everAccepted', req'),
           JobTracked(job'[w], req', everAccepted')
    PROVE  Tracked'
<1>1. \A v \in Worker \ {w} : JobTracked(job'[v], req', everAccepted')
  BY KnownJob DEF Tracked, OnlyMoves
<1>2. \A v \in Worker : JobTracked(job'[v], req', everAccepted')
  BY <1>1
<1>3. QED
  BY <1>2 DEF Tracked

\* The same for a step that leaves the table alone.
LEMMA QuietStep ==
    ASSUME Tracked, NEW w \in Worker, OnlyMoves(w),
           UNCHANGED <<req, everAccepted>>,
           JobTracked(job'[w], req, everAccepted)
    PROVE  Tracked'
<1>1. RowsKept
  BY DEF RowsKept
<1>2. QED
  BY <1>1, TrackedStep DEF Tracked

LEMMA FinishMoves ==
    ASSUME TypeOK, NEW w \in Worker, NEW outcome \in Free, Finish(w, outcome)
    PROVE  OnlyMoves(w) /\ job'[w].pc = outcome
<1>1. \A x : [IdleJob EXCEPT !.pc = outcome, !.retried = x].pc = outcome
  BY DEF IdleJob
<1>2. QED
  BY <1>1 DEF Finish, OnlyMoves, TypeOK

LEMMA GotoMoves ==
    ASSUME TypeOK, NEW w \in Worker, NEW pc, Goto(w, pc)
    PROVE  /\ OnlyMoves(w)
           /\ job'[w] = [job[w] EXCEPT !.pc = pc]
           /\ job'[w].pc = pc
           /\ job'[w].base = job[w].base
           /\ job'[w].type = job[w].type
           /\ job'[w].into = job[w].into
           /\ job'[w].accept = job[w].accept
           /\ job'[w].ids = job[w].ids
  BY DEF Goto, OnlyMoves, TypeOK, Job

\* A handler that is over knows nothing.
LEMMA FreeTracked ==
    ASSUME NEW j, NEW rq, NEW accepted, j.pc \in Free
    PROVE  JobTracked(j, rq, accepted)
  BY DEF JobTracked, Free, ActPC

\* Nor does one that has not read the table yet.
LEMMA EarlyTracked ==
    ASSUME NEW j, NEW rq, NEW accepted,
           j.pc \notin ActPC \cup {"fileAuto", "autoOrphan", "sshClose",
                                   "readReject", "create", "close"}
    PROVE  JobTracked(j, rq, accepted)
  BY DEF JobTracked

LEMMA ClosedKeepsRows ==
    ASSUME TypeOK, NEW S, NEW s \in Status, req' = Closed(S, s)
    PROVE  /\ RowsKept
           /\ \A r \in ReqId : req'[r] # NoReq <=> req[r] # NoReq
<1>1. ASSUME NEW r \in ReqId, req[r] # NoReq
      PROVE  /\ req'[r] # NoReq
             /\ req'[r].name = req[r].name
             /\ req'[r].type = req[r].type
             /\ req'[r].into = req[r].into
  <2> DEFINE closed == [req[r] EXCEPT !.status = s]
  <2>1. req[r] \in Request
    BY <1>1 DEF TypeOK
  <2>2. /\ closed \in Request
        /\ closed.name = req[r].name
        /\ closed.type = req[r].type
        /\ closed.into = req[r].into
    BY <2>1 DEF Request
  <2>3. req'[r] = closed \/ req'[r] = req[r]
    BY DEF Closed
  <2> HIDE DEF closed
  <2>4. QED
    BY <1>1, <2>2, <2>3
<1>2. \A r \in ReqId : req[r] = NoReq => req'[r] = NoReq
  BY DEF Closed
<1>3. QED
  BY <1>1, <1>2 DEF RowsKept

LEMMA InsertKeepsRows ==
    ASSUME TypeOK, NEW r \in ReqId \ Filed, NEW q \in Request,
           req' = [req EXCEPT ![r] = q]
    PROVE  RowsKept /\ req'[r] = q /\ q # NoReq
  BY NoReqAssumption DEF RowsKept, TypeOK, Filed

\* Deleting a base clears PackageBaseID, not PackageBaseName.
LEMMA DeleteKeepsRows ==
    ASSUME TypeOK, NEW b \in Base, DeleteBase(b)
    PROVE  RowsKept
<1>1. ASSUME NEW r \in ReqId, req[r] # NoReq
      PROVE  /\ req'[r] # NoReq
             /\ req'[r].name = req[r].name
             /\ req'[r].type = req[r].type
             /\ req'[r].into = req[r].into
  <2> DEFINE cut == [req[r] EXCEPT !.linked = FALSE]
  <2>1. req[r] \in Request
    BY <1>1 DEF TypeOK
  <2>2. /\ cut \in Request
        /\ cut.name = req[r].name
        /\ cut.type = req[r].type
        /\ cut.into = req[r].into
    BY <2>1 DEF Request
  <2>3. req'[r] = cut \/ req'[r] = req[r]
    BY DEF DeleteBase
  <2> HIDE DEF cut
  <2>4. QED
    BY <1>1, <2>2, <2>3
<1>2. \A r \in ReqId : req[r] = NoReq => req'[r] = NoReq
  BY DEF DeleteBase
<1>3. QED
  BY <1>1, <1>2 DEF RowsKept

\* A step of nobody's handler.
LEMMA RowsStep ==
    ASSUME Tracked, RowsKept,
           UNCHANGED <<job, everAccepted>>
    PROVE  Tracked'
<1>1. FiledIn(everAccepted', req')
  BY DEF Tracked, FiledIn, RowsKept
<1>2. \A w \in Worker : JobTracked(job'[w], req', everAccepted')
  BY KnownJob DEF Tracked
<1>3. QED
  BY <1>1, <1>2 DEF Tracked

\* The steps of a handler that leave the table alone and end it, or move it to
\* where it knows nothing in particular.
LEMMA QuietFinish ==
    ASSUME TypeOK, Tracked, NEW w \in Worker, NEW outcome \in Free,
           Finish(w, outcome), UNCHANGED <<req, everAccepted>>
    PROVE  Tracked'
  BY FinishMoves, FreeTracked, QuietStep

LEMMA QuietGoto ==
    ASSUME TypeOK, Tracked, NEW w \in Worker, job[w].pc \notin Free, NEW pc,
           Goto(w, pc), UNCHANGED <<req, everAccepted>>,
           pc \notin ActPC \cup {"fileAuto", "autoOrphan", "sshClose",
                                 "readReject", "create", "close"}
    PROVE  Tracked'
<1>1. OnlyMoves(w) /\ job'[w].pc = pc
  BY GotoMoves
<1>2. JobTracked(job'[w], req, everAccepted)
  BY <1>1 DEF JobTracked
<1>3. QED
  BY <1>1, <1>2, QuietStep

LEMMA StartTracked ==
    ASSUME TypeOK, Tracked, NEW w \in Worker, NEW j, Start(w, j),
           UNCHANGED <<dbVars, sweep, held, everAccepted>>,
           JobTracked(j, req, everAccepted)
    PROVE  Tracked'
<1>1. OnlyMoves(w) /\ job'[w] = j /\ UNCHANGED <<req, everAccepted>>
  BY DEF Start, OnlyMoves, TypeOK, dbVars
<1>2. JobTracked(job'[w], req, everAccepted)
  BY <1>1
<1>3. QED
  BY <1>1, <1>2, QuietStep

-----------------------------------------------------------------------------
(* The steps of a handler. *)

LEMMA FileCreateTracked ==
    ASSUME TypeOK, Tracked, NEW w \in Worker, FileCreate(w)
    PROVE  Tracked'
<1> DEFINE q == NewRequest(job[w].type, job[w].user, job[w].base,
                           job[w].into, "form")
<1>1. job[w].pc \notin Free
  BY DEF FileCreate, At, Free
<1>2. q \in Request
  BY <1>1, BusyType, NewRequestType DEF Origin
<1> HIDE DEF q
<1>3. PICK r \in ReqId \ Filed :
        /\ req' = [req EXCEPT ![r] = q]
        /\ IF job[w].type \in {"orphan", "deletion"}
           THEN job' = [job EXCEPT ![w].pc = "fileAuto", ![w].ids = {r}]
           ELSE Finish(w, "done")
  BY DEF FileCreate, q
<1>4. RowsKept /\ req'[r] # NoReq
  BY <1>2, <1>3, InsertKeepsRows
<1>5. everAccepted' = everAccepted /\ FiledIn(everAccepted', req')
  BY <1>4 DEF FileCreate, Tracked, FiledIn, RowsKept
<1>6. CASE Finish(w, "done")
  BY <1>4, <1>5, <1>6, FinishMoves, FreeTracked, TrackedStep DEF Free
<1>7. CASE job' = [job EXCEPT ![w].pc = "fileAuto", ![w].ids = {r}]
  <2>1. /\ OnlyMoves(w)
        /\ job'[w].pc = "fileAuto"
        /\ job'[w].ids = {r}
    BY <1>7 DEF OnlyMoves, TypeOK, Job
  <2>2. JobTracked(job'[w], req', everAccepted')
    BY <1>1, <1>3, <1>4, <2>1 DEF JobTracked, Tracked, FiledIn, ActPC
  <2>3. QED
    BY <1>4, <1>5, <2>1, <2>2, TrackedStep
<1>8. QED
  BY <1>3, <1>6, <1>7

LEMMA FileAutoTracked ==
    ASSUME TypeOK, Tracked, NEW w \in Worker, FileAuto(w)
    PROVE  Tracked'
<1>1. job[w].pc = "fileAuto" /\ job[w].pc \notin Free
  BY DEF FileAuto, At, Free
<1>2. UNCHANGED <<req, everAccepted>>
  BY DEF FileAuto, dbVars
<1>3. CASE job' = [job EXCEPT ![w].pc = "autoOrphan",
                              ![w].seen = maintainer[job[w].base]]
  <2>1. /\ OnlyMoves(w)
        /\ job'[w].pc = "autoOrphan"
        /\ job'[w].ids = job[w].ids
    BY <1>3 DEF OnlyMoves, TypeOK, Job
  <2>2. JobTracked(job'[w], req, everAccepted)
    BY <1>1, <2>1 DEF JobTracked, Tracked, ActPC
  <2>3. QED
    BY <1>2, <2>1, <2>2, QuietStep
<1>4. CASE Goto(w, "readAccept")
  BY <1>1, <1>2, <1>4, QuietGoto DEF ActPC
<1>5. CASE Finish(w, "done")
  BY <1>2, <1>5, QuietFinish DEF Free
<1>6. QED
  BY <1>3, <1>4, <1>5 DEF FileAuto

LEMMA AutoOrphanTracked ==
    ASSUME TypeOK, Tracked, NEW w \in Worker, AutoOrphan(w)
    PROVE  Tracked'
<1>1. job[w].pc = "autoOrphan" /\ FiledIn(job[w].ids, req)
  BY DEF AutoOrphan, At, Tracked, JobTracked
<1>2. OnlyMoves(w) /\ job'[w].pc \in Free
  BY FinishMoves DEF AutoOrphan, Free
<1>3. CASE UNCHANGED <<req, everAccepted>>
  BY <1>2, <1>3, FreeTracked, QuietStep
<1>4. CASE /\ req' = Closed(job[w].ids, "accepted")
           /\ everAccepted' = everAccepted \cup job[w].ids
  <2>1. RowsKept
    BY <1>4, ClosedKeepsRows DEF Status
  <2>2. FiledIn(everAccepted', req')
    BY <1>1, <1>4, <2>1 DEF Tracked, FiledIn, RowsKept
  <2>3. QED
    BY <1>2, <1>4, <2>1, <2>2, FreeTracked, TrackedStep
<1>5. QED
  BY <1>3, <1>4 DEF AutoOrphan

LEMMA AdoptSetTracked ==
    ASSUME TypeOK, Tracked, NEW w \in Worker, AdoptSet(w)
    PROVE  Tracked'
  BY QuietGoto DEF AdoptSet, At, Free, ActPC

LEMMA AdoptCreateTracked ==
    ASSUME TypeOK, Tracked, NEW w \in Worker, AdoptCreate(w)
    PROVE  Tracked'
<1> DEFINE origin == IF job[w].op = "sshAdopt" THEN "ssh" ELSE "adopt"
           q == NewRequest("adoption", job[w].user, job[w].base, NoBase, origin)
<1>1. job[w].pc \notin Free
  BY DEF AdoptCreate, At, Free
<1>2. q \in Request
  <2>1. origin \in Origin /\ "adoption" \in RequestType
    BY DEF Origin, RequestType
  <2> HIDE DEF origin
  <2>2. QED
    BY <1>1, <2>1, BusyType, NewRequestType
<1> HIDE DEF q
<1>3. PICK r \in ReqId \ Filed : req' = [req EXCEPT ![r] = q]
  BY DEF AdoptCreate, q
<1>4. RowsKept
  BY <1>2, <1>3, InsertKeepsRows
<1>5. everAccepted' = everAccepted /\ FiledIn(everAccepted', req')
  BY <1>4 DEF AdoptCreate, Tracked, FiledIn, RowsKept
<1>6. OnlyMoves(w) /\ job'[w].pc \in Free
  BY FinishMoves DEF AdoptCreate, Free
<1>7. QED
  BY <1>4, <1>5, <1>6, FreeTracked, TrackedStep

LEMMA DisownTracked ==
    ASSUME TypeOK, Tracked, NEW w \in Worker,
           DisownRole(w) \/ DisownOwner(w) \/ DisownCo(w) \/ DisownFinish(w)
    PROVE  Tracked'
<1>1. CASE DisownRole(w)
  <2>1. UNCHANGED <<req, everAccepted>> /\ job[w].pc \notin Free
    BY <1>1 DEF DisownRole, At, Free, dbVars
  <2>2. CASE Finish(w, "done")
    BY <2>1, <2>2, QuietFinish DEF Free
  <2>3. ASSUME NEW pc \in {"disownOwner", "disownCo", "verify"}, Goto(w, pc)
        PROVE  Tracked'
    BY <2>1, <2>3, QuietGoto DEF ActPC
  <2>4. QED
    BY <1>1, <2>2, <2>3 DEF DisownRole
<1>2. CASE DisownOwner(w)
  BY <1>2, QuietFinish DEF DisownOwner, Free
<1>3. CASE DisownCo(w)
  BY <1>3, QuietFinish DEF DisownCo, Free
<1>4. CASE DisownFinish(w)
  BY <1>4, QuietFinish DEF DisownFinish, Free
<1>5. QED
  BY <1>1, <1>2, <1>3, <1>4

LEMMA DeleteTracked ==
    ASSUME TypeOK, Tracked, NEW w \in Worker, DeleteFinish(w) \/ MergeDelete(w)
    PROVE  Tracked'
<1>1. /\ job[w].pc \notin Free
      /\ DeleteBase(job[w].base)
      /\ Finish(w, "done")
      /\ everAccepted' = everAccepted
  BY DEF DeleteFinish, MergeDelete, At, Free
<1>2. RowsKept
  BY <1>1, BusyType, DeleteKeepsRows
<1>3. FiledIn(everAccepted', req')
  BY <1>1, <1>2 DEF Tracked, FiledIn, RowsKept
<1>4. OnlyMoves(w) /\ job'[w].pc \in Free
  BY <1>1, FinishMoves DEF Free
<1>5. QED
  BY <1>1, <1>2, <1>3, <1>4, FreeTracked, TrackedStep

LEMMA MergeMoveTracked ==
    ASSUME TypeOK, Tracked, NEW w \in Worker, MergeMove(w)
    PROVE  Tracked'
<1>1. job[w].pc = "mergeMove" /\ UNCHANGED <<req, everAccepted>>
  BY DEF MergeMove, At, dbVars
<1>2. CASE Finish(w, "failed")
  BY <1>1, <1>2, QuietFinish DEF Free
<1>3. CASE Goto(w, "mergeDelete")
  <2>1. PICK r \in everAccepted : Matches(r, job[w], req)
    BY <1>1 DEF Tracked, JobTracked, ActPC
  <2>2. Matches(r, job'[w], req)
    BY <1>3, <2>1, GotoMoves DEF Matches
  <2>3. OnlyMoves(w) /\ job'[w].pc = "mergeDelete"
    BY <1>3, GotoMoves
  <2>4. JobTracked(job'[w], req, everAccepted)
    BY <2>1, <2>2, <2>3 DEF JobTracked
  <2>5. QED
    BY <1>1, <2>3, <2>4, QuietStep
<1>4. QED
  BY <1>2, <1>3 DEF MergeMove

LEMMA VerifyTracked ==
    ASSUME TypeOK, Tracked, NEW w \in Worker, Verify(w)
    PROVE  Tracked'
<1>1. job[w].pc \notin Free /\ UNCHANGED <<req, everAccepted>>
  BY DEF Verify, At, Free, dbVars
<1>2. CASE Goto(w, "readAccept")
  BY <1>1, <1>2, QuietGoto DEF ActPC
<1>3. CASE Finish(w, "refused")
  BY <1>1, <1>3, QuietFinish DEF Free
<1>4. QED
  BY <1>2, <1>3 DEF Verify

LEMMA ReadAcceptTracked ==
    ASSUME TypeOK, Tracked, NEW w \in Worker, ReadAccept(w)
    PROVE  Tracked'
<1>1. job[w].pc \notin Free /\ UNCHANGED <<req, everAccepted>>
  BY DEF ReadAccept, At, Free, dbVars
<1>2. /\ OnlyMoves(w)
      /\ job'[w].pc = "readReject"
      /\ job'[w].base = job[w].base
      /\ job'[w].type = job[w].type
      /\ job'[w].into = job[w].into
      /\ job'[w].accept = Acceptable(job[w])
  BY DEF ReadAccept, OnlyMoves, TypeOK, Job
<1>3. \A r \in Acceptable(job[w]) : Matches(r, job'[w], req)
  BY <1>2 DEF Acceptable, Pending, Filed, Matches
<1>4. JobTracked(job'[w], req, everAccepted)
  BY <1>2, <1>3 DEF JobTracked, ActPC
<1>5. QED
  BY <1>1, <1>2, <1>4, QuietStep

LEMMA ReadRejectTracked ==
    ASSUME TypeOK, Tracked, NEW w \in Worker, ReadReject(w)
    PROVE  Tracked'
<1>1. job[w].pc = "readReject" /\ UNCHANGED <<req, everAccepted>>
  BY DEF ReadReject, At, dbVars
<1>2. \A r \in job[w].accept : Matches(r, job[w], req)
  BY <1>1 DEF Tracked, JobTracked
<1>3. /\ OnlyMoves(w)
      /\ job'[w].pc = IF job[w].accept = {} THEN "create" ELSE "close"
      /\ job'[w].base = job[w].base
      /\ job'[w].type = job[w].type
      /\ job'[w].into = job[w].into
      /\ job'[w].accept = job[w].accept
  BY DEF ReadReject, OnlyMoves, TypeOK, Job
<1>4. \A r \in job'[w].accept : Matches(r, job'[w], req)
  BY <1>2, <1>3 DEF Matches
<1>5. JobTracked(job'[w], req, everAccepted)
  BY <1>2, <1>3, <1>4 DEF JobTracked, ActPC
<1>6. QED
  BY <1>1, <1>3, <1>5, QuietStep

LEMMA CreateHandledTracked ==
    ASSUME TypeOK, Tracked, NEW w \in Worker, CreateHandled(w)
    PROVE  Tracked'
<1> DEFINE q == NewRequest(job[w].type, job[w].user, job[w].base,
                           HandledTarget(job[w]), "handler")
<1>1. job[w].pc \notin Free
  BY DEF CreateHandled, At, Free
<1>2. /\ q \in Request
      /\ q.name = job[w].base
      /\ q.type = job[w].type
      /\ job[w].type = "merge" => q.into = job[w].into
  <2>1. q \in Request
    BY <1>1, BusyType, HandledTargetType, NewRequestType DEF Origin
  <2>2. QED
    BY <2>1 DEF NewRequest, HandledTarget
<1> HIDE DEF q
<1>3. PICK r \in ReqId \ Filed :
        /\ req' = [req EXCEPT ![r] = q]
        /\ job' = [job EXCEPT ![w].pc = "close", ![w].accept = {r}]
  BY DEF CreateHandled, q
<1>4. /\ RowsKept
      /\ req'[r] = q
      /\ q # NoReq
  BY <1>2, <1>3, InsertKeepsRows
<1>5. everAccepted' = everAccepted /\ FiledIn(everAccepted', req')
  BY <1>4 DEF CreateHandled, Tracked, FiledIn, RowsKept
<1>6. /\ OnlyMoves(w)
      /\ job'[w].pc = "close"
      /\ job'[w].base = job[w].base
      /\ job'[w].type = job[w].type
      /\ job'[w].into = job[w].into
      /\ job'[w].accept = {r}
  BY <1>3 DEF OnlyMoves, TypeOK, Job
<1>7. Matches(r, job'[w], req')
  BY <1>2, <1>4, <1>6 DEF Matches
<1>8. JobTracked(job'[w], req', everAccepted')
  BY <1>6, <1>7 DEF JobTracked, ActPC
<1>9. QED
  BY <1>4, <1>5, <1>6, <1>8, TrackedStep

LEMMA CloseTracked ==
    ASSUME TypeOK, Tracked, NEW w \in Worker, Close(w)
    PROVE  Tracked'
<1>1. job[w].pc = "close" /\ job[w].pc \notin Free
  BY DEF Close, At, Free
<1>2. /\ job[w].accept # {}
      /\ \A r \in job[w].accept : Matches(r, job[w], req)
  BY <1>1 DEF Tracked, JobTracked
<1>3. CASE ~CanReject(job[w])
  BY <1>3, QuietFinish DEF Close, Free
<1>4. CASE CanReject(job[w])
  <2>1. /\ req' = [r \in ReqId |->
                 IF r \in job[w].reject
                 THEN Closed(job[w].reject, "rejected")[r]
                 ELSE Closed(job[w].accept, "accepted")[r]]
        /\ everAccepted' = everAccepted \cup job[w].accept
        /\ IF AfterHandle(job[w]) = "done"
           THEN Finish(w, "done")
           ELSE Goto(w, AfterHandle(job[w]))
    BY <1>4 DEF Close
  <2>2. ASSUME NEW r \in ReqId, req[r] # NoReq
        PROVE  /\ req'[r] # NoReq
               /\ req'[r].name = req[r].name
               /\ req'[r].type = req[r].type
               /\ req'[r].into = req[r].into
    <3> DEFINE no  == [req[r] EXCEPT !.status = "rejected"]
               yes == [req[r] EXCEPT !.status = "accepted"]
    <3>1. req[r] \in Request
      BY <2>2 DEF TypeOK
    <3>2. /\ no \in Request
          /\ no.name = req[r].name
          /\ no.type = req[r].type
          /\ no.into = req[r].into
      BY <3>1 DEF Request, Status
    <3>3. /\ yes \in Request
          /\ yes.name = req[r].name
          /\ yes.type = req[r].type
          /\ yes.into = req[r].into
      BY <3>1 DEF Request, Status
    <3>4. req'[r] \in {no, yes, req[r]}
      BY <2>1 DEF Closed
    <3> HIDE DEF no, yes
    <3>5. QED
      BY <2>2, <3>2, <3>3, <3>4
  <2>3. \A r \in ReqId : req[r] = NoReq => req'[r] = NoReq
    BY <2>1 DEF Closed
  <2>4. RowsKept
    BY <2>2, <2>3 DEF RowsKept, Tracked
  <2>5. \A r \in job[w].accept : Matches(r, job[w], req')
    BY <1>2, <2>4 DEF Matches, RowsKept
  <2>6. FiledIn(everAccepted', req')
    BY <2>1, <2>4, <2>5 DEF FiledIn, Matches, Tracked, RowsKept
  <2>7. OnlyMoves(w) /\ JobTracked(job'[w], req', everAccepted')
    <3>1. CASE AfterHandle(job[w]) = "done"
      BY <2>1, <3>1, FinishMoves, FreeTracked DEF Free
    <3>2. CASE AfterHandle(job[w]) # "done"
      <4>1. /\ OnlyMoves(w)
            /\ job'[w].pc = AfterHandle(job[w])
            /\ job'[w].base = job[w].base
            /\ job'[w].type = job[w].type
            /\ job'[w].into = job[w].into
        BY <2>1, <3>2, GotoMoves
      <4>2. job[w].type \in RequestType
        BY <1>1, BusyType
      <4>3. AfterHandle(job[w]) \in ActPC
        BY <3>2, <4>2 DEF AfterHandle, RequestType, ActPC
      <4>4. PICK r \in job[w].accept : TRUE
        BY <1>2
      <4>5. r \in everAccepted' /\ Matches(r, job'[w], req')
        BY <2>1, <2>5, <4>1, <4>4 DEF Matches
      <4>6. QED
        BY <1>2, <4>1, <4>3, <4>5 DEF JobTracked, ActPC
    <3>3. QED
      BY <3>1, <3>2
  <2>8. QED
    BY <2>1, <2>4, <2>6, <2>7, TrackedStep
<1>5. QED
  BY <1>3, <1>4

LEMMA SshCloseTracked ==
    ASSUME TypeOK, Tracked, NEW w \in Worker, SshClose(w)
    PROVE  Tracked'
<1>1. job[w].pc = "sshClose" /\ job[w].pc \notin Free
  BY DEF SshClose, At, Free
<1>2. FiledIn(job[w].accept, req)
  BY <1>1 DEF Tracked, JobTracked
<1>3. CASE Goto(w, "sshRead") /\ UNCHANGED <<req, everAccepted>>
  BY <1>1, <1>3, QuietGoto DEF ActPC
<1>4. ASSUME NEW r \in job[w].accept,
             req' = Closed({r}, "accepted"),
             everAccepted' = everAccepted \cup {r},
             job' = [job EXCEPT ![w].accept = @ \ {r}]
      PROVE  Tracked'
  <2>1. RowsKept
    BY <1>4, ClosedKeepsRows DEF Tracked, Status
  <2>2. FiledIn(everAccepted', req')
    BY <1>2, <1>4, <2>1 DEF Tracked, FiledIn, RowsKept
  <2>3. /\ OnlyMoves(w)
        /\ job'[w].pc = "sshClose"
        /\ job'[w].accept \subseteq job[w].accept
    BY <1>1, <1>4 DEF OnlyMoves, TypeOK, Job
  <2>4. FiledIn(job'[w].accept, req')
    BY <1>2, <2>1, <2>3 DEF FiledIn, RowsKept
  <2>5. JobTracked(job'[w], req', everAccepted')
    BY <1>2, <2>3, <2>4 DEF JobTracked, ActPC
  <2>6. QED
    BY <1>4, <2>1, <2>2, <2>3, <2>5, TrackedStep
<1>5. QED
  BY <1>3, <1>4 DEF SshClose

LEMMA SshReadTracked ==
    ASSUME TypeOK, Tracked, NEW w \in Worker, SshRead(w)
    PROVE  Tracked'
<1>1. job[w].pc \notin Free /\ UNCHANGED <<req, everAccepted>>
  BY DEF SshRead, At, Free, dbVars
<1>2. CASE Goto(w, "sshComaints")
  BY <1>1, <1>2, QuietGoto DEF ActPC
<1>3. ASSUME NEW c \in comaints[job[w].base],
             job' = [job EXCEPT ![w].pc = "sshComaints", ![w].newm = c,
                                ![w].rest = comaints[job[w].base] \ {c}]
      PROVE  Tracked'
  <2>1. OnlyMoves(w) /\ job'[w].pc = "sshComaints"
    BY <1>3 DEF OnlyMoves, TypeOK, Job
  <2>2. JobTracked(job'[w], req, everAccepted)
    BY <2>1 DEF JobTracked, ActPC
  <2>3. QED
    BY <1>1, <2>1, <2>2, QuietStep
<1>4. QED
  BY <1>2, <1>3 DEF SshRead

LEMMA SshSetTracked ==
    ASSUME TypeOK, Tracked, NEW w \in Worker, SshComaints(w) \/ SshMaint(w)
    PROVE  Tracked'
<1>1. CASE SshComaints(w)
  <2>1. job[w].pc \notin Free /\ UNCHANGED <<req, everAccepted>>
    BY <1>1 DEF SshComaints, At, Free
  <2>2. CASE Goto(w, "sshMaint")
    BY <2>1, <2>2, QuietGoto DEF ActPC
  <2>3. CASE Finish(w, "refused")
    BY <2>1, <2>3, QuietFinish DEF Free
  <2>4. QED
    BY <1>1, <2>2, <2>3 DEF SshComaints
<1>2. CASE SshMaint(w)
  BY <1>2, QuietFinish DEF SshMaint, Free
<1>3. QED
  BY <1>1, <1>2

LEMMA HandlerTracked ==
    ASSUME TypeOK, Tracked, NEW w \in Worker, Handler(w)
    PROVE  Tracked'
<1>1. CASE PushSave(w)
  BY <1>1, QuietFinish DEF PushSave, Free
<1>2. CASE BaseGone(w)
  BY <1>2, QuietFinish DEF BaseGone, dbVars, Free
<1>3. QED
  BY <1>1, <1>2, FileCreateTracked, FileAutoTracked, AutoOrphanTracked,
     AdoptSetTracked, AdoptCreateTracked, DisownTracked, DeleteTracked,
     MergeMoveTracked, VerifyTracked, ReadAcceptTracked, ReadRejectTracked,
     CreateHandledTracked, CloseTracked, SshCloseTracked, SshReadTracked,
     SshSetTracked DEF Handler

-----------------------------------------------------------------------------
(* The steps that call a handler, the faults, and everything else. *)

\* A handler that has just been called has not read the request table, but for
\* `disown` over SSH, which has read the requests that it will accept.
LEMMA EarlyStart ==
    ASSUME TypeOK, Tracked, NEW w \in Worker, NEW j, Start(w, j),
           UNCHANGED <<dbVars, sweep, held, everAccepted>>,
           j.pc \in {"fileCreate", "adoptSet", "adoptCreate", "disownRole",
                     "readAccept", "pushSave"}
    PROVE  Tracked'
<1>1. JobTracked(j, req, everAccepted)
  BY EarlyTracked DEF ActPC
<1>2. QED
  BY <1>1, StartTracked

LEMMA CalledTracked ==
    ASSUME TypeOK, Tracked, NEW w \in Worker, Called(w)
    PROVE  Tracked'
<1>1. PICK u \in User, b \in Base :
        \/ \E t \in RequestType, m \in Base \cup {NoBase} :
             FileStart(w, u, b, t, m)
        \/ AdoptStart(w, u, b)
        \/ \E o \in {"adopt", "sshAdopt"} : RequestAdoption(w, u, b, o)
        \/ DisownStart(w, u, b)
        \/ DeleteStart(w, u, b)
        \/ \E m \in Base : MergeStart(w, u, b, m)
        \/ SshDisownStart(w, u, b)
        \/ PushStart(w, u, b)
  BY DEF Called
<1>2. ASSUME NEW t \in RequestType, NEW m \in Base \cup {NoBase},
             FileStart(w, u, b, t, m)
      PROVE  Tracked'
  <2> DEFINE j == [IdleJob EXCEPT !.op = "file", !.pc = "fileCreate",
                     !.type = t, !.user = u, !.base = b, !.into = m]
  <2>1. j.pc = "fileCreate"
    BY DEF IdleJob
  <2>2. Start(w, j) /\ UNCHANGED <<dbVars, sweep, held, everAccepted>>
    BY <1>2 DEF FileStart
  <2> HIDE DEF j
  <2>3. QED
    BY <2>1, <2>2, EarlyStart
<1>3. CASE AdoptStart(w, u, b)
  <2>1. PICK pick \in {<<u, {}>>} \cup
                   {<<req[r].user, {r}>> : r \in Pending("adoption", b)} :
          Start(w, [IdleJob EXCEPT !.op = "adopt", !.pc = "adoptSet",
                     !.type = "adoption", !.user = u, !.base = b,
                     !.newm = pick[1], !.ids = pick[2],
                     !.seen = maintainer[b]])
    BY <1>3 DEF AdoptStart
  <2> DEFINE newm == pick[1]
             ids == pick[2]
             seen == maintainer[b]
             j == [IdleJob EXCEPT !.op = "adopt", !.pc = "adoptSet",
                     !.type = "adoption", !.user = u, !.base = b,
                     !.newm = newm, !.ids = ids, !.seen = seen]
  <2>2. Start(w, j)
    BY <2>1
  <2> HIDE DEF newm, ids, seen
  <2>3. j.pc = "adoptSet"
    BY DEF IdleJob
  <2> HIDE DEF j
  <2>4. QED
    BY <1>3, <2>2, <2>3, EarlyStart DEF AdoptStart
<1>4. ASSUME NEW o \in {"adopt", "sshAdopt"}, RequestAdoption(w, u, b, o)
      PROVE  Tracked'
  <2> DEFINE j == [IdleJob EXCEPT !.op = o, !.pc = "adoptCreate",
                     !.type = "adoption", !.user = u, !.base = b]
  <2>1. j.pc = "adoptCreate"
    BY DEF IdleJob
  <2>2. Start(w, j) /\ UNCHANGED <<dbVars, sweep, held, everAccepted>>
    BY <1>4 DEF RequestAdoption
  <2> HIDE DEF j
  <2>3. QED
    BY <2>1, <2>2, EarlyStart
<1>5. CASE DisownStart(w, u, b)
  <2> DEFINE j == [IdleJob EXCEPT !.op = "disown", !.pc = "disownRole",
                     !.type = "orphan", !.user = u, !.base = b]
  <2>1. j.pc = "disownRole"
    BY DEF IdleJob
  <2>2. Start(w, j) /\ UNCHANGED <<dbVars, sweep, held, everAccepted>>
    BY <1>5 DEF DisownStart
  <2> HIDE DEF j
  <2>3. QED
    BY <2>1, <2>2, EarlyStart
<1>6. CASE DeleteStart(w, u, b)
  <2> DEFINE j == [IdleJob EXCEPT !.op = "delete", !.pc = "readAccept",
                     !.type = "deletion", !.user = u, !.base = b]
  <2>1. j.pc = "readAccept"
    BY DEF IdleJob
  <2>2. Start(w, j) /\ UNCHANGED <<dbVars, sweep, held, everAccepted>>
    BY <1>6 DEF DeleteStart
  <2> HIDE DEF j
  <2>3. QED
    BY <2>1, <2>2, EarlyStart
<1>7. ASSUME NEW m \in Base, MergeStart(w, u, b, m)
      PROVE  Tracked'
  <2> DEFINE j == [IdleJob EXCEPT !.op = "merge", !.pc = "readAccept",
                     !.type = "merge", !.user = u, !.base = b, !.into = m]
  <2>1. j.pc = "readAccept"
    BY DEF IdleJob
  <2>2. Start(w, j) /\ UNCHANGED <<dbVars, sweep, held, everAccepted>>
    BY <1>7 DEF MergeStart
  <2> HIDE DEF j
  <2>3. QED
    BY <2>1, <2>2, EarlyStart
<1>8. CASE SshDisownStart(w, u, b)
  <2> DEFINE seen == IF u = maintainer[b] THEN u ELSE Nobody
             accept == Pending("orphan", b)
             j == [IdleJob EXCEPT !.op = "sshDisown", !.pc = "sshClose",
                     !.type = "orphan", !.user = u, !.base = b,
                     !.seen = seen, !.accept = accept]
  <2>1. FiledIn(accept, req)
    BY DEF Pending, Filed, FiledIn
  <2>2. Start(w, j) /\ UNCHANGED <<dbVars, sweep, held, everAccepted>>
    BY <1>8 DEF SshDisownStart
  <2> HIDE DEF seen, accept
  <2>3. j.pc = "sshClose" /\ j.accept = accept
    BY DEF IdleJob
  <2> HIDE DEF j
  <2>4. JobTracked(j, req, everAccepted)
    BY <2>1, <2>3 DEF JobTracked, ActPC
  <2>5. QED
    BY <2>2, <2>4, StartTracked
<1>9. CASE PushStart(w, u, b)
  <2> DEFINE j == [IdleJob EXCEPT !.op = "push", !.pc = "pushSave",
                     !.user = u, !.base = b]
  <2>1. j.pc = "pushSave"
    BY DEF IdleJob
  <2>2. Start(w, j) /\ UNCHANGED <<dbVars, sweep, held, everAccepted>>
    BY <1>9 DEF PushStart
  <2> HIDE DEF j
  <2>3. QED
    BY <2>1, <2>2, EarlyStart
<1>10. QED
  BY <1>1, <1>2, <1>3, <1>4, <1>5, <1>6, <1>7, <1>8, <1>9

\* A retry starts before the requests were read, or where it was.
LEMMA FaultTracked ==
    ASSUME TypeOK, Tracked, NEW w \in Worker, Crash(w) \/ Deadlock(w)
    PROVE  Tracked'
<1>1. CASE Crash(w)
  BY <1>1, QuietFinish DEF Crash, dbVars, Free
<1>2. CASE Deadlock(w)
  <2>1. PICK pc \in RetryPoints(job[w]) :
          job' = [job EXCEPT ![w].pc = pc, ![w].retried = HasAccepted(job[w])]
    BY <1>2 DEF Deadlock
  <2>2. /\ job[w].pc \notin Free
        /\ \/ pc \in {"verify", "readAccept", "disownRole", "adoptCreate",
                      "adoptSet"}
           \/ pc = "close" /\ job[w].pc = "close"
           \/ pc \in {"deleteFinish", "mergeMove"} /\ job[w].pc \in ActPC
    BY <2>1 DEF RetryPoints, HandleStart, Free, ActPC
  <2>3. /\ OnlyMoves(w)
        /\ job'[w].pc = pc
        /\ job'[w].base = job[w].base
        /\ job'[w].type = job[w].type
        /\ job'[w].into = job[w].into
        /\ job'[w].accept = job[w].accept
    BY <2>1 DEF OnlyMoves, TypeOK, Job
  <2>4. JobTracked(job[w], req, everAccepted)
    BY DEF Tracked
  <2>5. \A r : Matches(r, job[w], req) => Matches(r, job'[w], req)
    BY <2>3 DEF Matches
  <2>6. CASE pc \in {"verify", "readAccept", "disownRole", "adoptCreate",
                     "adoptSet"}
    <3>1. JobTracked(job'[w], req, everAccepted)
      BY <2>2, <2>3, <2>4, <2>6 DEF JobTracked, ActPC
    <3>2. QED
      BY <1>2, <2>3, <3>1, QuietStep DEF Deadlock, dbVars
  <2>7. CASE pc = "close" /\ job[w].pc = "close"
    <3>1. JobTracked(job'[w], req, everAccepted)
      BY <2>2, <2>3, <2>4, <2>5, <2>7 DEF JobTracked, ActPC
    <3>2. QED
      BY <1>2, <2>3, <3>1, QuietStep DEF Deadlock, dbVars
  <2>8. CASE pc \in {"deleteFinish", "mergeMove"} /\ job[w].pc \in ActPC
    <3>1. JobTracked(job'[w], req, everAccepted)
      BY <2>2, <2>3, <2>4, <2>5, <2>8 DEF JobTracked
    <3>2. QED
      BY <1>2, <2>3, <3>1, QuietStep DEF Deadlock, dbVars
  <2>9. QED
    BY <2>2, <2>6, <2>7, <2>8
<1>3. QED
  BY <1>1, <1>2

LEMMA OneStepTracked == TypeOK /\ Tracked /\ OneStep => Tracked'
<1> SUFFICES ASSUME TypeOK, Tracked, OneStep PROVE Tracked'
  OBVIOUS
<1>1. ASSUME NEW u \in User, NEW r \in ReqId, CloseRequest(u, r)
      PROVE  Tracked'
  <2>1. RowsKept
    BY <1>1, ClosedKeepsRows DEF CloseRequest, Tracked, Status
  <2>2. QED
    BY <1>1, <2>1, RowsStep DEF CloseRequest
<1>2. ASSUME UNCHANGED <<req, job, everAccepted>>
      PROVE  Tracked'
  BY <1>2, RowsStep DEF RowsKept, Tracked
<1>3. ASSUME NEW u \in User, NEW b \in Base, NEW S \in SUBSET User,
             SetComaintainers(u, b, S)
      PROVE  Tracked'
  BY <1>2, <1>3 DEF SetComaintainers
<1>4. ASSUME NEW b \in Base, Flag(b)
      PROVE  Tracked'
  BY <1>2, <1>4 DEF Flag
<1>5. QED
  BY <1>1, <1>3, <1>4 DEF OneStep

LEMMA SweepTracked == TypeOK /\ Tracked /\ Sweep => Tracked'
<1> SUFFICES ASSUME TypeOK, Tracked, Sweep PROVE Tracked'
  OBVIOUS
<1>1. CASE SweepRead \/ SweepFail
  BY <1>1, RowsStep DEF SweepRead, SweepFail, RowsKept, Tracked, dbVars
<1>2. CASE SweepWrite
  <2>1. RowsKept
    BY <1>2, ClosedKeepsRows DEF SweepWrite, Tracked, Status
  <2>2. QED
    BY <1>2, <2>1, RowsStep DEF SweepWrite
<1>3. QED
  BY <1>1, <1>2 DEF Sweep

LEMMA TimeTracked == TypeOK /\ Tracked /\ Time => Tracked'
<1> SUFFICES ASSUME TypeOK, Tracked, Time PROVE Tracked'
  OBVIOUS
<1>1. ASSUME NEW b \in Base, FlagAges(b) \/ BaseAges(b)
      PROVE  Tracked'
  BY <1>1, RowsStep DEF FlagAges, BaseAges, RowsKept, Tracked
<1>2. ASSUME NEW r \in ReqId, RequestDue(r)
      PROVE  Tracked'
  <2> DEFINE q == [req[r] EXCEPT !.due = TRUE]
  <2>1. req[r] \in Request
    BY <1>2 DEF RequestDue, Filed, TypeOK
  <2>2. /\ q \in Request
        /\ q.name = req[r].name
        /\ q.type = req[r].type
        /\ q.into = req[r].into
    BY <2>1 DEF Request
  <2>3. req' = [req EXCEPT ![r] = q] /\ UNCHANGED <<job, everAccepted>>
    BY <1>2 DEF RequestDue
  <2> HIDE DEF q
  <2>4. RowsKept
    BY <2>1, <2>2, <2>3 DEF RowsKept, Tracked, TypeOK
  <2>5. QED
    BY <2>3, <2>4, RowsStep
<1>3. QED
  BY <1>1, <1>2 DEF Time

LEMMA TrackedNext == TypeOK /\ Tracked /\ [Next]_vars => Tracked'
<1> SUFFICES ASSUME TypeOK, Tracked, [Next]_vars PROVE Tracked'
  OBVIOUS
<1>1. CASE UNCHANGED vars
  BY <1>1, RowsStep DEF vars, dbVars, RowsKept, Tracked
<1>2. QED
  BY <1>1, CalledTracked, HandlerTracked, FaultTracked, OneStepTracked,
     SweepTracked, TimeTracked DEF Next

LEMMA InitTracked == Init => Tracked
<1> SUFFICES ASSUME Init PROVE Tracked
  OBVIOUS
<1>1. \A w \in Worker : job[w].pc \in Free
  BY DEF Init, IdleJob, Free
<1>2. QED
  BY <1>1, FreeTracked DEF Init, Tracked, FiledIn

-----------------------------------------------------------------------------
(* Only the last step of a deletion or a merge deletes a base. *)

LEMMA HandlerKeepsBases ==
    ASSUME NEW w \in Worker, Handler(w), exists' # exists
    PROVE  DeleteFinish(w) \/ MergeDelete(w)
<1>1. CASE FileCreate(w) \/ FileAuto(w) \/ AutoOrphan(w)
           \/ AdoptSet(w) \/ AdoptCreate(w)
  BY <1>1 DEF FileCreate, FileAuto, AutoOrphan, AdoptSet, AdoptCreate, dbVars
<1>2. CASE DisownRole(w) \/ DisownOwner(w) \/ DisownCo(w) \/ DisownFinish(w)
  BY <1>2 DEF DisownRole, DisownOwner, DisownCo, DisownFinish, dbVars
<1>3. CASE MergeMove(w) \/ Verify(w) \/ ReadAccept(w) \/ ReadReject(w)
           \/ CreateHandled(w) \/ Close(w)
  BY <1>3 DEF MergeMove, Verify, ReadAccept, ReadReject, CreateHandled, Close,
     dbVars
<1>4. CASE SshClose(w) \/ SshRead(w) \/ SshComaints(w) \/ SshMaint(w)
           \/ PushSave(w) \/ BaseGone(w)
  BY <1>4 DEF SshClose, SshRead, SshComaints, SshMaint, PushSave, BaseGone,
     dbVars
<1>5. QED
  BY <1>1, <1>2, <1>3, <1>4 DEF Handler

LEMMA DeletingStep ==
    ASSUME [Next]_vars, exists' # exists
    PROVE  \E w \in Worker : DeleteFinish(w) \/ MergeDelete(w)
<1>1. ASSUME NEW w \in Worker, Called(w)
      PROVE  exists' = exists
  <2>1. ASSUME NEW u \in User, NEW b \in Base, NEW t, NEW m,
               FileStart(w, u, b, t, m)
        PROVE  exists' = exists
    BY <2>1 DEF FileStart, dbVars
  <2>2. ASSUME NEW u \in User, NEW b \in Base,
               AdoptStart(w, u, b) \/ DisownStart(w, u, b)
               \/ DeleteStart(w, u, b) \/ SshDisownStart(w, u, b)
               \/ PushStart(w, u, b)
        PROVE  exists' = exists
    BY <2>2 DEF AdoptStart, DisownStart, DeleteStart, SshDisownStart,
       PushStart, dbVars
  <2>3. ASSUME NEW u \in User, NEW b \in Base, NEW o, RequestAdoption(w, u, b, o)
        PROVE  exists' = exists
    BY <2>3 DEF RequestAdoption, dbVars
  <2>4. ASSUME NEW u \in User, NEW b \in Base, NEW m, MergeStart(w, u, b, m)
        PROVE  exists' = exists
    BY <2>4 DEF MergeStart, dbVars
  <2>5. QED
    BY <1>1, <2>1, <2>2, <2>3, <2>4 DEF Called
<1>2. ASSUME NEW w \in Worker, Crash(w) \/ Deadlock(w)
      PROVE  exists' = exists
  BY <1>2 DEF Crash, Deadlock, dbVars
<1>3. OneStep => exists' = exists
  BY DEF OneStep, CloseRequest, SetComaintainers, Flag
<1>4. Sweep => exists' = exists
  BY DEF Sweep, SweepRead, SweepWrite, SweepFail, dbVars
<1>5. Time => exists' = exists
  BY DEF Time, FlagAges, BaseAges, RequestDue
<1>6. UNCHANGED vars => exists' = exists
  BY DEF vars, dbVars
<1>7. QED
  BY <1>1, <1>2, <1>3, <1>4, <1>5, <1>6, HandlerKeepsBases DEF Next

LEMMA RemovalStep ==
    ASSUME TypeOK, Tracked, [Next]_vars, NEW b \in exists \ exists'
    PROVE  \E w \in Worker, r \in everAccepted :
             /\ job'[w] # job[w]
             /\ job[w].base = b
             /\ req[r].name = b
             /\ req[r].type = job[w].type
             /\ job[w].type = "merge" => req[r].into = job[w].into
<1>1. PICK w \in Worker : DeleteFinish(w) \/ MergeDelete(w)
  BY DeletingStep
<1>2. /\ job[w].pc \in {"deleteFinish", "mergeDelete"}
      /\ exists' = exists \ {job[w].base}
      /\ Finish(w, "done")
  BY <1>1 DEF DeleteFinish, MergeDelete, At, DeleteBase
<1>3. job[w].base = b
  BY <1>2
<1>4. job'[w].pc = "done"
  BY <1>2, FinishMoves DEF Free
<1>5. PICK r \in everAccepted : Matches(r, job[w], req)
  BY <1>2 DEF Tracked, JobTracked, ActPC
<1>6. QED
  BY <1>2, <1>3, <1>4, <1>5 DEF Matches

\* No base is deleted that no accepted request was about: whatever other
\* workers, SSH sessions and cron do meanwhile, and wherever a worker dies or a
\* transaction is started again, the handler whose last transaction deletes a
\* base has had a request accepted of its own type, about that base and, for a
\* merge, into the same target (handle_request, pkgbase_delete_instance,
\* pkgbase_merge_instance).
THEOREM RemovalTracked == Spec => RemovalIsTracked
<1>1. Spec => []Tracked
  BY InitTracked, TrackedNext, TypeCorrect, PTL DEF Spec
<1>2. TypeOK /\ Tracked /\ [Next]_vars =>
        [\A b \in exists \ exists' :
           \E w \in Worker, r \in everAccepted :
             /\ job'[w] # job[w]
             /\ job[w].base = b
             /\ req[r].name = b
             /\ req[r].type = job[w].type
             /\ job[w].type = "merge" => req[r].into = job[w].into]_vars
  BY RemovalStep
<1>3. QED
  BY <1>1, <1>2, TypeCorrect, PTL DEF Spec, RemovalIsTracked

-----------------------------------------------------------------------------
(* What a request is about never changes. *)

SameRow(p, q) ==
    /\ p.type = q.type
    /\ p.user = q.user
    /\ p.name = q.name
    /\ p.into = q.into
    /\ p.origin = q.origin

RowsStay ==
    \A r \in ReqId : req[r] # NoReq => req'[r] # NoReq /\ SameRow(req'[r], req[r])

\* All that a step does to a row that is there.
Touched(q) ==
    {q} \cup {[q EXCEPT !.status = s] : s \in {"accepted", "rejected"}}
        \cup {[q EXCEPT !.linked = FALSE], [q EXCEPT !.due = TRUE]}

LEMMA TouchedIsSame ==
    ASSUME NEW q \in Request, NEW p \in Touched(q)
    PROVE  /\ p \in Request /\ p # NoReq /\ SameRow(p, q)
           /\ p.status = "pending" => q.status = "pending"
           /\ p.linked => q.linked
           /\ q.due => p.due
<1>1. CASE p = q
  BY <1>1 DEF SameRow
<1>2. ASSUME NEW s \in {"accepted", "rejected"}, p = [q EXCEPT !.status = s]
      PROVE  /\ p \in Request /\ SameRow(p, q)
             /\ p.status # "pending" /\ p.linked = q.linked /\ p.due = q.due
  BY <1>2 DEF SameRow, Request, Status
<1>3. CASE p = [q EXCEPT !.linked = FALSE]
  BY <1>3 DEF SameRow, Request
<1>4. CASE p = [q EXCEPT !.due = TRUE]
  BY <1>4 DEF SameRow, Request
<1>5. QED
  BY <1>1, <1>2, <1>3, <1>4 DEF Touched

RowsTouched == \A r \in ReqId : req[r] # NoReq => req'[r] \in Touched(req[r])

LEMMA TouchedRowsStay ==
    ASSUME TypeOK, RowsTouched
    PROVE  RowsStay
<1>1. ASSUME NEW r \in ReqId, req[r] # NoReq
      PROVE  req'[r] # NoReq /\ SameRow(req'[r], req[r])
  <2>1. req[r] \in Request /\ req'[r] \in Touched(req[r])
    BY <1>1 DEF TypeOK, RowsTouched
  <2>2. QED
    BY <2>1, TouchedIsSame
<1>2. QED
  BY <1>1 DEF RowsStay

LEMMA ClosedTouches ==
    ASSUME NEW S, NEW s \in {"accepted", "rejected"}, NEW r \in ReqId
    PROVE  Closed(S, s)[r] \in Touched(req[r])
  BY DEF Closed, Touched

\* The rows of a step that inserts one.
LEMMA InsertTouches ==
    ASSUME TypeOK, NEW n \in ReqId \ Filed, NEW q, req' = [req EXCEPT ![n] = q]
    PROVE  \A r \in ReqId : req[r] # NoReq => req'[r] \in Touched(req[r])
  BY DEF Touched, Filed, TypeOK

LEMMA HandlerTouches ==
    ASSUME TypeOK, NEW w \in Worker, Handler(w), NEW r \in ReqId, req[r] # NoReq
    PROVE  req'[r] \in Touched(req[r])
<1>1. CASE req' = req
  BY <1>1 DEF Touched
<1>2. CASE FileCreate(w) \/ AdoptCreate(w) \/ CreateHandled(w)
  BY <1>2, InsertTouches DEF FileCreate, AdoptCreate, CreateHandled
<1>3. CASE AutoOrphan(w)
  BY <1>1, <1>3, ClosedTouches DEF AutoOrphan
<1>4. CASE DeleteFinish(w) \/ MergeDelete(w)
  BY <1>4 DEF DeleteFinish, MergeDelete, DeleteBase, Touched
<1>5. CASE Close(w)
  BY <1>1, <1>5, ClosedTouches DEF Close
<1>6. CASE SshClose(w)
  BY <1>1, <1>6, ClosedTouches DEF SshClose
<1>7. CASE FileAuto(w) \/ AdoptSet(w) \/ DisownRole(w) \/ DisownOwner(w)
           \/ DisownCo(w) \/ DisownFinish(w) \/ MergeMove(w)
  BY <1>1, <1>7 DEF FileAuto, AdoptSet, DisownRole, DisownOwner, DisownCo,
     DisownFinish, MergeMove, dbVars
<1>8. CASE Verify(w) \/ ReadAccept(w) \/ ReadReject(w) \/ SshRead(w)
           \/ SshComaints(w) \/ SshMaint(w) \/ PushSave(w) \/ BaseGone(w)
  BY <1>1, <1>8 DEF Verify, ReadAccept, ReadReject, SshRead, SshComaints,
     SshMaint, PushSave, BaseGone, dbVars
<1>9. QED
  BY <1>2, <1>3, <1>4, <1>5, <1>6, <1>7, <1>8 DEF Handler

\* A handler that is called, crashes or is retried leaves the tables alone.
LEMMA CalledKeepsTables ==
    ASSUME NEW w \in Worker, Called(w) \/ Crash(w) \/ Deadlock(w)
    PROVE  UNCHANGED <<dbVars, sweep, held, everAccepted>>
<1>1. ASSUME NEW u \in User, NEW b \in Base,
             \/ \E t \in RequestType, m \in Base \cup {NoBase} :
                  FileStart(w, u, b, t, m)
             \/ AdoptStart(w, u, b)
             \/ \E o \in {"adopt", "sshAdopt"} : RequestAdoption(w, u, b, o)
             \/ DisownStart(w, u, b)
             \/ DeleteStart(w, u, b)
             \/ \E m \in Base : MergeStart(w, u, b, m)
             \/ SshDisownStart(w, u, b)
             \/ PushStart(w, u, b)
      PROVE  UNCHANGED <<dbVars, sweep, held, everAccepted>>
  BY <1>1 DEF FileStart, AdoptStart, RequestAdoption, DisownStart, DeleteStart,
     MergeStart, SshDisownStart, PushStart
<1>2. QED
  BY <1>1 DEF Called, Crash, Deadlock

LEMMA NextTouches == TypeOK /\ [Next]_vars => RowsTouched
<1> SUFFICES ASSUME TypeOK, [Next]_vars, NEW r \in ReqId, req[r] # NoReq
             PROVE  req'[r] \in Touched(req[r])
  BY DEF RowsTouched
<1>1. CASE req' = req
  BY <1>1 DEF Touched
<1>2. ASSUME NEW w \in Worker, Called(w) \/ Crash(w) \/ Deadlock(w)
      PROVE  req'[r] \in Touched(req[r])
  BY <1>1, <1>2, CalledKeepsTables DEF dbVars
<1>3. CASE OneStep
  BY <1>1, <1>3, ClosedTouches DEF OneStep, CloseRequest, SetComaintainers,
     Flag
<1>4. CASE Sweep
  BY <1>1, <1>4, ClosedTouches DEF Sweep, SweepRead, SweepWrite, SweepFail,
     dbVars
<1>5. CASE Time
  <2>1. ASSUME NEW q \in ReqId, RequestDue(q)
        PROVE  req'[r] \in Touched(req[r])
    BY <2>1 DEF RequestDue, Touched, TypeOK
  <2>2. QED
    BY <1>1, <1>5, <2>1 DEF Time, FlagAges, BaseAges
<1>6. CASE UNCHANGED vars
  BY <1>1, <1>6 DEF vars, dbVars
<1>7. QED
  BY <1>2, <1>3, <1>4, <1>5, <1>6, HandlerTouches DEF Next

LEMMA NextRowsStay == TypeOK /\ [Next]_vars => RowsStay
  BY NextTouches, TouchedRowsStay

-----------------------------------------------------------------------------
(* What a handler knows of the maintainer it has written, or was. *)

\* If users filed r for adoption, then its author has been the maintainer.
Given(r, rq, h) ==
    rq[r].type = "adoption" /\ rq[r].origin # "handler"
        => <<rq[r].name, rq[r].user>> \in h

KnownGiven(r, rq, h) == r \in ReqId /\ rq[r] # NoReq /\ Given(r, rq, h)

SshPC == {"sshClose", "sshRead", "sshComaints", "sshMaint"}

JobGrants(j, rq, h) ==
    /\ j.pc \in {"fileAuto", "autoOrphan"} =>
         /\ j.ids # {}
         /\ j.type # "adoption"
         /\ \A r \in j.ids : /\ r \in ReqId
                             /\ rq[r] # NoReq
                             /\ rq[r].type = j.type
                             /\ rq[r].name = j.base
    /\ j.pc \in {"autoOrphan", "disownRole", "disownFinish"} => j.type = "orphan"
    /\ j.pc \notin Free /\ j.op = "disown" => j.type = "orphan"
    /\ j.pc = "sshClose" \/ j.pc \in {"readReject", "create", "close"} =>
         \A r \in j.accept : KnownGiven(r, rq, h)
    /\ j.type = "adoption" /\ j.pc \in {"adoptSet"} \cup HandlePC =>
         \A r \in j.ids : /\ r \in ReqId
                          /\ rq[r] # NoReq
                          /\ rq[r].user = j.newm
                          /\ rq[r].name = j.base
    /\ j.type = "adoption" /\ j.pc \in HandlePC => <<j.base, j.newm>> \in h
    /\ j.pc = "adoptSet" => /\ j.type = "adoption"
                            /\ j.user \in Elevated
                            /\ j.newm \in User
                            /\ j.seen = j.newm => <<j.base, j.newm>> \in h
    /\ j.pc = "disownOwner" => <<j.base, j.user>> \in h
    /\ j.pc \in SshPC => j.user \in Elevated \/ <<j.base, j.user>> \in h

HeldIsCurrent ==
    \A b \in Base : maintainer[b] # Nobody => <<b, maintainer[b]>> \in held

Granting ==
    /\ HeldIsCurrent
    /\ GrantedAdoptionWasGiven
    /\ \A w \in Worker : JobGrants(job[w], req, held)

-----------------------------------------------------------------------------
(* Every step records the maintainers it writes. *)

HeldStays == held \subseteq held' /\ (HeldIsCurrent => HeldIsCurrent')

LEMMA SetMaintainerHeld ==
    ASSUME TypeOK, NEW b \in Base, NEW u, SetMaintainer(b, u)
    PROVE  HeldStays
  BY DEF TypeOK, SetMaintainer, HeldStays, HeldIsCurrent

LEMMA SameMaintainerHeld ==
    ASSUME UNCHANGED <<maintainer, held>>
    PROVE  HeldStays
  BY DEF HeldStays, HeldIsCurrent

LEMMA DeleteBaseHeld ==
    ASSUME TypeOK, NEW b \in Base, DeleteBase(b), held' = held
    PROVE  HeldStays
  BY DEF TypeOK, DeleteBase, HeldStays, HeldIsCurrent

LEMMA HandlerHeld ==
    ASSUME TypeOK, NEW w \in Worker, Handler(w)
    PROVE  HeldStays
<1>1. job[w].pc \notin Free => job[w].base \in Base
  BY BusyType
<1>2. CASE FileCreate(w) \/ FileAuto(w) \/ AdoptCreate(w) \/ DisownRole(w)
           \/ DisownCo(w) \/ MergeMove(w) \/ Verify(w) \/ ReadAccept(w)
           \/ ReadReject(w) \/ CreateHandled(w) \/ Close(w)
  BY <1>2, SameMaintainerHeld DEF FileCreate, FileAuto, AdoptCreate,
     DisownRole, DisownCo, MergeMove, Verify, ReadAccept, ReadReject,
     CreateHandled, Close, dbVars
<1>3. CASE SshClose(w) \/ SshRead(w) \/ SshComaints(w) \/ BaseGone(w)
  BY <1>3, SameMaintainerHeld DEF SshClose, SshRead, SshComaints, BaseGone,
     dbVars
<1>4. CASE AutoOrphan(w) \/ AdoptSet(w) \/ SshMaint(w)
  BY <1>1, <1>4, SameMaintainerHeld, SetMaintainerHeld DEF AutoOrphan,
     AdoptSet, SshMaint, At, Free
<1>5. CASE DisownOwner(w) \/ DisownFinish(w) \/ PushSave(w)
  BY <1>1, <1>5, SameMaintainerHeld, SetMaintainerHeld DEF DisownOwner,
     DisownFinish, PushSave, At, Free
<1>6. CASE DeleteFinish(w) \/ MergeDelete(w)
  BY <1>1, <1>6, DeleteBaseHeld DEF DeleteFinish, MergeDelete, At, Free
<1>7. QED
  BY <1>2, <1>3, <1>4, <1>5, <1>6 DEF Handler

LEMMA NextHeld == TypeOK /\ [Next]_vars => HeldStays
<1> SUFFICES ASSUME TypeOK, [Next]_vars PROVE HeldStays
  OBVIOUS
<1>1. ASSUME NEW w \in Worker, Called(w) \/ Crash(w) \/ Deadlock(w)
      PROVE  HeldStays
  BY <1>1, CalledKeepsTables, SameMaintainerHeld DEF dbVars
<1>2. CASE OneStep
  BY <1>2, SameMaintainerHeld DEF OneStep, CloseRequest, SetComaintainers, Flag
<1>3. CASE Sweep
  BY <1>3, SameMaintainerHeld DEF Sweep, SweepRead, SweepWrite, SweepFail, dbVars
<1>4. CASE Time
  BY <1>4, SameMaintainerHeld DEF Time, FlagAges, BaseAges, RequestDue
<1>5. CASE UNCHANGED vars
  BY <1>5, SameMaintainerHeld DEF vars, dbVars
<1>6. QED
  BY <1>1, <1>2, <1>3, <1>4, <1>5, HandlerHeld DEF Next

-----------------------------------------------------------------------------
(* What a handler knows stays true when others move. *)

LEMMA KnownGivenStays ==
    ASSUME RowsStay, held \subseteq held', NEW r, KnownGiven(r, req, held)
    PROVE  KnownGiven(r, req', held')
  BY DEF RowsStay, SameRow, KnownGiven, Given

LEMMA KnownGrant ==
    ASSUME RowsStay, held \subseteq held', NEW j, JobGrants(j, req, held)
    PROVE  JobGrants(j, req', held')
  BY KnownGivenStays DEF RowsStay, SameRow, JobGrants

LEMMA FreeGrants ==
    ASSUME NEW j, NEW rq, NEW h, j.pc \in Free
    PROVE  JobGrants(j, rq, h)
  BY DEF JobGrants, Free, HandlePC, SshPC

\* Where a handler knows nothing in particular.
EarlyPC == {"fileCreate", "adoptCreate", "disownCo", "deleteFinish",
            "mergeMove", "mergeDelete", "pushSave"}

LEMMA EarlyGrants ==
    ASSUME NEW j, NEW rq, NEW h, j.pc \in EarlyPC,
           j.op = "disown" => j.type = "orphan"
    PROVE  JobGrants(j, rq, h)
  BY DEF JobGrants, EarlyPC, HandlePC, SshPC

LEMMA GotoKeeps ==
    ASSUME TypeOK, NEW w \in Worker, NEW pc, Goto(w, pc)
    PROVE  /\ OnlyMoves(w)
           /\ job'[w].pc = pc
           /\ job'[w].op = job[w].op
           /\ job'[w].base = job[w].base
           /\ job'[w].type = job[w].type
           /\ job'[w].user = job[w].user
           /\ job'[w].into = job[w].into
           /\ job'[w].newm = job[w].newm
           /\ job'[w].seen = job[w].seen
           /\ job'[w].accept = job[w].accept
           /\ job'[w].ids = job[w].ids
  BY DEF Goto, OnlyMoves, TypeOK, Job

LEMMA FinishGrants ==
    ASSUME TypeOK, NEW w \in Worker, NEW outcome \in Free, Finish(w, outcome)
    PROVE  JobGrants(job'[w], req', held')
  BY FinishMoves, FreeGrants

-----------------------------------------------------------------------------
(* The steps of a handler: what it knows after one. *)

LEMMA FileCreateGrants ==
    ASSUME TypeOK, NEW w \in Worker, FileCreate(w), JobGrants(job[w], req, held)
    PROVE  JobGrants(job'[w], req', held')
<1> DEFINE q == NewRequest(job[w].type, job[w].user, job[w].base,
                           job[w].into, "form")
<1>1. q \in Request /\ q.type = job[w].type /\ q.name = job[w].base
  BY BusyType, NewRequestType DEF FileCreate, At, Free, Origin, NewRequest
<1> HIDE DEF q
<1>0. job[w].op = "disown" => job[w].type = "orphan"
  BY DEF FileCreate, At, Free, JobGrants
<1>2. PICK r \in ReqId \ Filed :
        /\ req' = [req EXCEPT ![r] = q]
        /\ IF job[w].type \in {"orphan", "deletion"}
           THEN job' = [job EXCEPT ![w].pc = "fileAuto", ![w].ids = {r}]
           ELSE Finish(w, "done")
  BY DEF FileCreate, q
<1>3. CASE Finish(w, "done")
  BY <1>3, FinishGrants DEF Free
<1>4. CASE /\ job[w].type \in {"orphan", "deletion"}
           /\ job' = [job EXCEPT ![w].pc = "fileAuto", ![w].ids = {r}]
  <2>1. /\ job'[w].pc = "fileAuto"
        /\ job'[w].ids = {r}
        /\ job'[w].op = job[w].op
        /\ job'[w].type = job[w].type
        /\ job'[w].base = job[w].base
    BY <1>4 DEF TypeOK, Job
  <2>2. req'[r] = q /\ q # NoReq
    BY <1>1, <1>2 DEF TypeOK
  <2>3. QED
    BY <1>0, <1>1, <1>4, <2>1, <2>2 DEF JobGrants, Free, HandlePC, SshPC
<1>5. QED
  BY <1>2, <1>3, <1>4

LEMMA FileAutoGrants ==
    ASSUME TypeOK, NEW w \in Worker, FileAuto(w), JobGrants(job[w], req, held)
    PROVE  JobGrants(job'[w], req', held')
<1>1. job[w].pc = "fileAuto" /\ UNCHANGED <<req, held>>
  BY DEF FileAuto, At, dbVars
<1>2. CASE /\ job[w].type = "orphan"
           /\ job' = [job EXCEPT ![w].pc = "autoOrphan",
                                 ![w].seen = maintainer[job[w].base]]
  <2>1. /\ job'[w].pc = "autoOrphan"
        /\ job'[w].ids = job[w].ids
        /\ job'[w].op = job[w].op
        /\ job'[w].type = job[w].type
        /\ job'[w].base = job[w].base
    BY <1>2 DEF TypeOK, Job
  <2>2. QED
    BY <1>1, <1>2, <2>1 DEF JobGrants, Free, HandlePC, SshPC
<1>3. CASE job[w].type = "deletion" /\ Goto(w, "readAccept")
  BY <1>1, <1>3, GotoKeeps DEF JobGrants, Free, HandlePC, SshPC
<1>4. CASE Finish(w, "done")
  BY <1>4, FinishGrants DEF Free
<1>5. QED
  BY <1>2, <1>3, <1>4 DEF FileAuto

LEMMA AdoptSetGrants ==
    ASSUME TypeOK, NEW w \in Worker, AdoptSet(w), JobGrants(job[w], req, held)
    PROVE  JobGrants(job'[w], req', held')
<1>1. /\ job[w].pc = "adoptSet"
      /\ req' = req
      /\ Goto(w, "readAccept")
  BY DEF AdoptSet, At
<1>2. <<job[w].base, job[w].newm>> \in held'
  BY <1>1 DEF AdoptSet, SetMaintainer, JobGrants
<1>3. QED
  BY <1>1, <1>2, GotoKeeps DEF JobGrants, Free, HandlePC, SshPC

LEMMA DisownRoleGrants ==
    ASSUME TypeOK, HeldIsCurrent, NEW w \in Worker, DisownRole(w), JobGrants(job[w], req, held)
    PROVE  JobGrants(job'[w], req', held')
<1>1. /\ UNCHANGED <<req, held>>
      /\ job[w].pc = "disownRole"
      /\ job[w].type = "orphan"
      /\ job[w].user \in User
      /\ job[w].base \in Base
  BY BusyType DEF DisownRole, At, Free, dbVars, JobGrants
<1>2. CASE job[w].user = maintainer[job[w].base] /\ Goto(w, "disownOwner")
  <2>1. <<job[w].base, job[w].user>> \in held
    BY <1>1, <1>2 DEF HeldIsCurrent
  <2>2. QED
    BY <1>1, <1>2, <2>1, GotoKeeps DEF JobGrants, Free, HandlePC, SshPC
<1>3. CASE Goto(w, "disownCo")
  BY <1>1, <1>3, GotoKeeps, EarlyGrants DEF EarlyPC
<1>4. CASE Goto(w, "verify")
  BY <1>1, <1>4, GotoKeeps DEF JobGrants, Free, HandlePC, SshPC
<1>5. CASE Finish(w, "done")
  BY <1>5, FinishGrants DEF Free
<1>6. QED
  BY <1>2, <1>3, <1>4, <1>5 DEF DisownRole

LEMMA ReadAcceptGrants ==
    ASSUME TypeOK, Tracked, NEW w \in Worker, ReadAccept(w),
           JobGrants(job[w], req, held)
    PROVE  JobGrants(job'[w], req', held')
<1>1. job[w].pc = "readAccept" /\ UNCHANGED <<req, held>>
  BY DEF ReadAccept, At, dbVars
<1> DEFINE accept == Acceptable(job[w])
<1>2. /\ job'[w].pc = "readReject"
      /\ job'[w].op = job[w].op
      /\ job'[w].type = job[w].type
      /\ job'[w].base = job[w].base
      /\ job'[w].newm = job[w].newm
      /\ job'[w].ids = job[w].ids
      /\ job'[w].accept = accept
  BY DEF ReadAccept, TypeOK, Job
<1>3. ASSUME NEW r \in accept PROVE KnownGiven(r, req, held)
  <2>1. /\ r \in ReqId
        /\ req[r] # NoReq
        /\ req[r].type = job[w].type
        /\ req[r].name = job[w].base
        /\ job[w].type = "adoption" => r \in job[w].ids
    BY DEF Acceptable, Pending, Filed
  <2>2. job[w].type = "adoption" =>
          req[r].user = job[w].newm /\ <<job[w].base, job[w].newm>> \in held
    BY <1>1, <2>1 DEF JobGrants, HandlePC
  <2>3. QED
    BY <2>1, <2>2 DEF KnownGiven, Given
<1> HIDE DEF accept
<1>4. QED
  BY <1>1, <1>2, <1>3 DEF JobGrants, Free, HandlePC, SshPC

LEMMA ReadRejectGrants ==
    ASSUME TypeOK, NEW w \in Worker, ReadReject(w), JobGrants(job[w], req, held)
    PROVE  JobGrants(job'[w], req', held')
<1>1. job[w].pc = "readReject" /\ UNCHANGED <<req, held>>
  BY DEF ReadReject, At, dbVars
<1>2. /\ job'[w].pc \in {"create", "close"}
      /\ job'[w].op = job[w].op
      /\ job'[w].type = job[w].type
      /\ job'[w].base = job[w].base
      /\ job'[w].newm = job[w].newm
      /\ job'[w].ids = job[w].ids
      /\ job'[w].accept = job[w].accept
  BY DEF ReadReject, TypeOK, Job
<1>3. QED
  BY <1>1, <1>2 DEF JobGrants, Free, HandlePC, SshPC

LEMMA CreateHandledGrants ==
    ASSUME TypeOK, RowsStay, NEW w \in Worker, CreateHandled(w),
           JobGrants(job[w], req', held')
    PROVE  JobGrants(job'[w], req', held')
<1> DEFINE q == NewRequest(job[w].type, job[w].user, job[w].base,
                           HandledTarget(job[w]), "handler")
<1>1. job[w].pc = "create" /\ q \in Request /\ q.origin = "handler"
  BY BusyType, HandledTargetType, NewRequestType
     DEF CreateHandled, At, Free, Origin, NewRequest
<1> HIDE DEF q
<1>2. PICK r \in ReqId \ Filed :
        /\ req' = [req EXCEPT ![r] = q]
        /\ job' = [job EXCEPT ![w].pc = "close", ![w].accept = {r}]
  BY DEF CreateHandled, q
<1>3. /\ job'[w].pc = "close"
      /\ job'[w].op = job[w].op
      /\ job'[w].type = job[w].type
      /\ job'[w].base = job[w].base
      /\ job'[w].newm = job[w].newm
      /\ job'[w].ids = job[w].ids
      /\ job'[w].accept = {r}
  BY <1>2 DEF TypeOK, Job
<1>4. KnownGiven(r, req', held')
  BY <1>1, <1>2 DEF KnownGiven, Given, TypeOK
<1>5. QED
  BY <1>1, <1>3, <1>4 DEF JobGrants, Free, HandlePC, SshPC

LEMMA CloseGrants ==
    ASSUME TypeOK, NEW w \in Worker, Close(w), JobGrants(job[w], req', held')
    PROVE  JobGrants(job'[w], req', held')
<1>1. CASE Finish(w, "done") \/ Finish(w, "failed")
  BY <1>1, FinishGrants DEF Free
<1>2. CASE /\ AfterHandle(job[w]) # "done"
           /\ Goto(w, AfterHandle(job[w]))
  <2>1. job[w].type \in RequestType /\ job[w].pc = "close"
    BY BusyType DEF Close, At, Free
  <2>2. \/ job[w].type = "orphan" /\ AfterHandle(job[w]) = "disownFinish"
        \/ job[w].type # "orphan" /\ AfterHandle(job[w]) \in EarlyPC
    BY <1>2, <2>1 DEF AfterHandle, RequestType, EarlyPC
  <2>3. job[w].op = "disown" => job[w].type = "orphan"
    BY <2>1 DEF JobGrants, Free
  <2>4. /\ job'[w].pc = AfterHandle(job[w])
        /\ job'[w].type = job[w].type
        /\ job'[w].op = job[w].op
    BY <1>2, GotoKeeps
  <2>5. CASE job[w].type = "orphan" /\ AfterHandle(job[w]) = "disownFinish"
    BY <2>4, <2>5 DEF JobGrants, HandlePC, SshPC
  <2>6. CASE job[w].type # "orphan" /\ AfterHandle(job[w]) \in EarlyPC
    BY <2>3, <2>4, <2>6, EarlyGrants
  <2>7. QED
    BY <2>2, <2>5, <2>6
<1>3. QED
  BY <1>1, <1>2 DEF Close

LEMMA SshGrants ==
    ASSUME TypeOK, RowsStay, held \subseteq held', NEW w \in Worker,
           SshClose(w) \/ SshRead(w) \/ SshComaints(w) \/ SshMaint(w),
           JobGrants(job[w], req', held')
    PROVE  JobGrants(job'[w], req', held')
<1>1. CASE SshClose(w)
  <2>1. job[w].pc = "sshClose"
    BY <1>1 DEF SshClose, At
  <2>2. CASE Goto(w, "sshRead")
    BY <2>1, <2>2, GotoKeeps DEF JobGrants, Free, HandlePC, SshPC
  <2>3. ASSUME NEW r \in job[w].accept,
               job' = [job EXCEPT ![w].accept = @ \ {r}]
        PROVE  JobGrants(job'[w], req', held')
    <3>1. job'[w] = [job[w] EXCEPT !.accept = @ \ {r}] /\ job[w] \in Job
      BY <2>3 DEF TypeOK
    <3>2. /\ job'[w].pc = job[w].pc
          /\ job'[w].op = job[w].op
          /\ job'[w].type = job[w].type
          /\ job'[w].base = job[w].base
          /\ job'[w].user = job[w].user
          /\ job'[w].accept = job[w].accept \ {r}
      BY <3>1 DEF Job
    <3>3. QED
      BY <2>1, <3>2 DEF JobGrants, Free, HandlePC, SshPC
  <2>4. QED
    BY <1>1, <2>2, <2>3 DEF SshClose
<1>2. CASE SshRead(w)
  <2>1. job[w].pc = "sshRead"
    BY <1>2 DEF SshRead, At
  <2>2. CASE Goto(w, "sshComaints")
    BY <2>1, <2>2, GotoKeeps DEF JobGrants, Free, HandlePC, SshPC
  <2>3. ASSUME NEW c, NEW rest,
               job' = [job EXCEPT ![w].pc = "sshComaints",
                                  ![w].newm = c, ![w].rest = rest]
        PROVE  JobGrants(job'[w], req', held')
    <3>1. /\ job'[w].pc = "sshComaints"
          /\ job'[w].op = job[w].op
          /\ job'[w].type = job[w].type
          /\ job'[w].base = job[w].base
          /\ job'[w].user = job[w].user
      BY <2>3 DEF TypeOK, Job
    <3>2. QED
      BY <2>1, <3>1 DEF JobGrants, Free, HandlePC, SshPC
  <2>4. QED
    BY <1>2, <2>2, <2>3 DEF SshRead
<1>3. CASE SshComaints(w)
  <2>1. job[w].pc = "sshComaints"
    BY <1>3 DEF SshComaints, At
  <2>2. CASE Goto(w, "sshMaint")
    BY <2>1, <2>2, GotoKeeps DEF JobGrants, Free, HandlePC, SshPC
  <2>3. QED
    BY <1>3, <2>2, FinishGrants DEF SshComaints, Free
<1>4. CASE SshMaint(w)
  BY <1>4, FinishGrants DEF SshMaint, Free
<1>5. QED
  BY <1>1, <1>2, <1>3, <1>4

LEMMA HandlerGrants ==
    ASSUME TypeOK, Tracked, HeldIsCurrent, RowsStay, held \subseteq held',
           NEW w \in Worker, Handler(w), JobGrants(job[w], req, held)
    PROVE  JobGrants(job'[w], req', held')
<1>1. JobGrants(job[w], req', held')
  BY KnownGrant
<1>2. job[w].pc \notin Free /\ job[w].op = "disown" => job[w].type = "orphan"
  BY DEF JobGrants
<1>3. CASE FileCreate(w) \/ FileAuto(w) \/ AdoptSet(w) \/ DisownRole(w)
           \/ ReadAccept(w) \/ ReadReject(w) \/ CreateHandled(w) \/ Close(w)
  BY <1>1, <1>3, FileCreateGrants, FileAutoGrants, AdoptSetGrants,
     DisownRoleGrants, ReadAcceptGrants, ReadRejectGrants,
     CreateHandledGrants, CloseGrants
<1>4. CASE AutoOrphan(w) \/ AdoptCreate(w) \/ DisownOwner(w) \/ DisownCo(w)
           \/ DisownFinish(w)
  BY <1>4, FinishGrants DEF AutoOrphan, AdoptCreate, DisownOwner, DisownCo,
     DisownFinish, Free
<1>5. CASE DeleteFinish(w) \/ MergeDelete(w) \/ PushSave(w) \/ BaseGone(w)
  BY <1>5, FinishGrants DEF DeleteFinish, MergeDelete, PushSave, BaseGone, Free
<1>6. CASE MergeMove(w)
  <2>1. CASE Goto(w, "mergeDelete")
    BY <1>2, <1>6, <2>1, GotoKeeps, EarlyGrants DEF MergeMove, At, Free, EarlyPC
  <2>2. QED
    BY <1>6, <2>1, FinishGrants DEF MergeMove, Free
<1>7. CASE Verify(w)
  <2>1. CASE Goto(w, "readAccept")
    BY <1>1, <1>7, <2>1, GotoKeeps DEF Verify, At, JobGrants, Free, HandlePC, SshPC
  <2>2. QED
    BY <1>7, <2>1, FinishGrants DEF Verify, Free
<1>8. CASE SshClose(w) \/ SshRead(w) \/ SshComaints(w) \/ SshMaint(w)
  BY <1>1, <1>8, SshGrants
<1>9. QED
  BY <1>3, <1>4, <1>5, <1>6, <1>7, <1>8 DEF Handler

LEMMA FaultGrants ==
    ASSUME TypeOK, NEW w \in Worker, Crash(w) \/ Deadlock(w),
           JobGrants(job[w], req', held')
    PROVE  JobGrants(job'[w], req', held')
<1>1. CASE Crash(w)
  BY <1>1, FinishGrants DEF Crash, Free
<1>2. CASE Deadlock(w)
  <2>1. PICK pc \in RetryPoints(job[w]) :
          job' = [job EXCEPT ![w].pc = pc, ![w].retried = HasAccepted(job[w])]
    BY <1>2 DEF Deadlock
  <2>2. /\ job'[w].pc = pc
        /\ job'[w].op = job[w].op
        /\ job'[w].base = job[w].base
        /\ job'[w].type = job[w].type
        /\ job'[w].user = job[w].user
        /\ job'[w].newm = job[w].newm
        /\ job'[w].seen = job[w].seen
        /\ job'[w].accept = job[w].accept
        /\ job'[w].ids = job[w].ids
    BY <2>1 DEF TypeOK, Job
  <2>3. job[w].op = "disown" /\ job[w].pc \notin Free => job[w].type = "orphan"
    BY DEF JobGrants
  <2>4. /\ job[w].pc \notin Free
        /\ \/ /\ pc = "disownRole"
              /\ job[w].op = "disown"
           \/ pc \in {"verify", "readAccept"} /\ job[w].pc \in HandlePC
           \/ pc \in {"close", "adoptSet"} /\ job[w].pc = pc
           \/ pc \in {"adoptCreate", "deleteFinish", "mergeMove"}
    BY <2>1 DEF RetryPoints, HandleStart, Free, HandlePC
  <2>5. CASE pc = "disownRole" /\ job[w].op = "disown"
    BY <2>2, <2>3, <2>4, <2>5 DEF JobGrants, HandlePC, SshPC
  <2>6. CASE pc \in {"verify", "readAccept"} /\ job[w].pc \in HandlePC
    BY <2>2, <2>3, <2>4, <2>6 DEF JobGrants, HandlePC, SshPC
  <2>7. CASE pc \in {"close", "adoptSet"} /\ job[w].pc = pc
    BY <2>2, <2>3, <2>4, <2>7 DEF JobGrants, HandlePC, SshPC
  <2>8. CASE pc \in {"adoptCreate", "deleteFinish", "mergeMove"}
    BY <2>2, <2>3, <2>4, <2>8, EarlyGrants DEF EarlyPC
  <2>9. QED
    BY <2>4, <2>5, <2>6, <2>7, <2>8
<1>3. QED
  BY <1>1, <1>2

-----------------------------------------------------------------------------
(* A handler that is called. *)

\* What handler j may be when user u has called it for base b.
Fresh(j, u, b) ==
    /\ j.user = u
    /\ j.base = b
    /\ \/ /\ j.op = "file" /\ j.pc = "fileCreate" /\ j.type \in Ops
          /\ j.type = "adoption" => MayRequestAdoption(b)
       \/ /\ j.op = "adopt" /\ j.pc = "adoptSet" /\ j.type = "adoption"
          /\ u \in Elevated
          /\ j.seen = maintainer[b]
          /\ \/ j.newm = u /\ j.ids = {}
             \/ \E r \in Pending("adoption", b) :
                  j.newm = req[r].user /\ j.ids = {r}
       \/ /\ j.op \in {"adopt", "sshAdopt"} /\ j.pc = "adoptCreate"
          /\ j.type = "adoption"
          /\ MayRequestAdoption(b)
       \/ j.op = "disown" /\ j.pc = "disownRole" /\ j.type = "orphan"
       \/ j.op = "delete" /\ j.pc = "readAccept" /\ j.type = "deletion"
       \/ j.op = "merge" /\ j.pc = "readAccept" /\ j.type = "merge"
       \/ /\ j.op = "sshDisown" /\ j.pc = "sshClose" /\ j.type = "orphan"
          /\ j.accept = Pending("orphan", b)
          /\ u \in Elevated \/ u = maintainer[b]
       \/ j.op = "push" /\ j.pc = "pushSave"

LEMMA StartMoves ==
    ASSUME TypeOK, NEW w \in Worker, NEW j, Start(w, j)
    PROVE  OnlyMoves(w) /\ job'[w] = j /\ job[w].pc \in Free
  BY DEF Start, OnlyMoves, TypeOK

Starts(w) ==
    /\ OnlyMoves(w)
    /\ job[w].pc \in Free
    /\ \E u \in User, b \in exists : Fresh(job'[w], u, b)

LEMMA CalledIsFresh ==
    ASSUME TypeOK, NEW w \in Worker, Called(w)
    PROVE  Starts(w)
<1>1. ASSUME NEW j, Start(w, j), NEW u \in User, NEW b \in exists, Fresh(j, u, b)
      PROVE  Starts(w)
  BY <1>1, StartMoves DEF Starts
<1>2. PICK u \in User, b \in Base :
        \/ \E t \in RequestType, m \in Base \cup {NoBase} :
             FileStart(w, u, b, t, m)
        \/ AdoptStart(w, u, b)
        \/ \E o \in {"adopt", "sshAdopt"} : RequestAdoption(w, u, b, o)
        \/ DisownStart(w, u, b)
        \/ DeleteStart(w, u, b)
        \/ \E m \in Base : MergeStart(w, u, b, m)
        \/ SshDisownStart(w, u, b)
        \/ PushStart(w, u, b)
  BY DEF Called
<1>3. ASSUME NEW t \in RequestType, NEW m \in Base \cup {NoBase},
             FileStart(w, u, b, t, m)
      PROVE  Starts(w)
  <2> DEFINE j == [IdleJob EXCEPT !.op = "file", !.pc = "fileCreate",
                     !.type = t, !.user = u, !.base = b, !.into = m]
  <2>1. j.op = "file" /\ j.pc = "fileCreate" /\ j.type = t /\ j.user = u
        /\ j.base = b
    BY DEF IdleJob
  <2>2. Start(w, j) /\ b \in exists /\ t \in Ops
        /\ (t = "adoption" => MayRequestAdoption(b))
    BY <1>3 DEF FileStart
  <2> HIDE DEF j
  <2>3. Fresh(j, u, b)
    BY <2>1, <2>2 DEF Fresh
  <2>4. QED
    BY <1>1, <2>2, <2>3
<1>4. CASE AdoptStart(w, u, b)
  <2>1. PICK pick \in {<<u, {}>>} \cup
                   {<<req[r].user, {r}>> : r \in Pending("adoption", b)} :
          Start(w, [IdleJob EXCEPT !.op = "adopt", !.pc = "adoptSet",
                     !.type = "adoption", !.user = u, !.base = b,
                     !.newm = pick[1], !.ids = pick[2],
                     !.seen = maintainer[b]])
    BY <1>4 DEF AdoptStart
  <2> DEFINE newm == pick[1]
             ids == pick[2]
             seen == maintainer[b]
             j == [IdleJob EXCEPT !.op = "adopt", !.pc = "adoptSet",
                     !.type = "adoption", !.user = u, !.base = b,
                     !.newm = newm, !.ids = ids, !.seen = seen]
  <2>2. Start(w, j)
    BY <2>1
  <2>3. \/ newm = u /\ ids = {}
        \/ \E r \in Pending("adoption", b) : newm = req[r].user /\ ids = {r}
    BY <2>1
  <2> HIDE DEF newm, ids
  <2>4. j.op = "adopt" /\ j.pc = "adoptSet" /\ j.type = "adoption"
        /\ j.user = u /\ j.base = b /\ j.newm = newm /\ j.ids = ids
        /\ j.seen = maintainer[b]
    BY DEF IdleJob
  <2> HIDE DEF j, seen
  <2>5. Fresh(j, u, b)
    BY <1>4, <2>3, <2>4 DEF Fresh, AdoptStart
  <2>6. QED
    BY <1>1, <1>4, <2>2, <2>5 DEF AdoptStart
<1>5. ASSUME NEW o \in {"adopt", "sshAdopt"}, RequestAdoption(w, u, b, o)
      PROVE  Starts(w)
  <2> DEFINE j == [IdleJob EXCEPT !.op = o, !.pc = "adoptCreate",
                     !.type = "adoption", !.user = u, !.base = b]
  <2>1. j.op = o /\ j.pc = "adoptCreate" /\ j.type = "adoption"
        /\ j.user = u /\ j.base = b
    BY DEF IdleJob
  <2>2. Start(w, j) /\ b \in exists /\ MayRequestAdoption(b)
    BY <1>5 DEF RequestAdoption
  <2> HIDE DEF j
  <2>3. Fresh(j, u, b)
    BY <2>1, <2>2 DEF Fresh
  <2>4. QED
    BY <1>1, <2>2, <2>3
<1>6. CASE DisownStart(w, u, b)
  <2> DEFINE j == [IdleJob EXCEPT !.op = "disown", !.pc = "disownRole",
                     !.type = "orphan", !.user = u, !.base = b]
  <2>1. j.op = "disown" /\ j.pc = "disownRole" /\ j.type = "orphan"
        /\ j.user = u /\ j.base = b
    BY DEF IdleJob
  <2>2. Start(w, j) /\ b \in exists
    BY <1>6 DEF DisownStart
  <2> HIDE DEF j
  <2>3. QED
    BY <1>1, <2>1, <2>2 DEF Fresh
<1>7. CASE DeleteStart(w, u, b)
  <2> DEFINE j == [IdleJob EXCEPT !.op = "delete", !.pc = "readAccept",
                     !.type = "deletion", !.user = u, !.base = b]
  <2>1. j.op = "delete" /\ j.pc = "readAccept" /\ j.type = "deletion"
        /\ j.user = u /\ j.base = b
    BY DEF IdleJob
  <2>2. Start(w, j) /\ b \in exists
    BY <1>7 DEF DeleteStart
  <2> HIDE DEF j
  <2>3. QED
    BY <1>1, <2>1, <2>2 DEF Fresh
<1>8. ASSUME NEW m \in Base, MergeStart(w, u, b, m)
      PROVE  Starts(w)
  <2> DEFINE j == [IdleJob EXCEPT !.op = "merge", !.pc = "readAccept",
                     !.type = "merge", !.user = u, !.base = b, !.into = m]
  <2>1. j.op = "merge" /\ j.pc = "readAccept" /\ j.type = "merge"
        /\ j.user = u /\ j.base = b
    BY DEF IdleJob
  <2>2. Start(w, j) /\ b \in exists
    BY <1>8 DEF MergeStart
  <2> HIDE DEF j
  <2>3. QED
    BY <1>1, <2>1, <2>2 DEF Fresh
<1>9. CASE SshDisownStart(w, u, b)
  <2> DEFINE seen == IF u = maintainer[b] THEN u ELSE Nobody
             accept == Pending("orphan", b)
             j == [IdleJob EXCEPT !.op = "sshDisown", !.pc = "sshClose",
                     !.type = "orphan", !.user = u, !.base = b,
                     !.seen = seen, !.accept = accept]
  <2>1. Start(w, j) /\ b \in exists /\ (u \in Elevated \/ u = maintainer[b])
    BY <1>9 DEF SshDisownStart
  <2> HIDE DEF seen, accept
  <2>2. j.op = "sshDisown" /\ j.pc = "sshClose" /\ j.type = "orphan"
        /\ j.user = u /\ j.base = b /\ j.accept = accept
    BY DEF IdleJob
  <2> HIDE DEF j
  <2>3. Fresh(j, u, b)
    BY <2>1, <2>2 DEF Fresh, accept
  <2>4. QED
    BY <1>1, <2>1, <2>3
<1>10. CASE PushStart(w, u, b)
  <2> DEFINE j == [IdleJob EXCEPT !.op = "push", !.pc = "pushSave",
                     !.user = u, !.base = b]
  <2>1. j.op = "push" /\ j.pc = "pushSave" /\ j.user = u /\ j.base = b
    BY DEF IdleJob
  <2>2. Start(w, j) /\ b \in exists
    BY <1>10 DEF PushStart
  <2> HIDE DEF j
  <2>3. QED
    BY <1>1, <2>1, <2>2 DEF Fresh
<1>11. QED
  BY <1>2, <1>3, <1>4, <1>5, <1>6, <1>7, <1>8, <1>9, <1>10

LEMMA CalledGrants ==
    ASSUME TypeOK, HeldIsCurrent, NEW w \in Worker, Called(w)
    PROVE  JobGrants(job'[w], req', held')
<1> DEFINE j == job'[w]
<1>1. UNCHANGED <<req, held>>
  BY CalledKeepsTables DEF dbVars
<1>2. PICK u \in User, b \in exists : Fresh(j, u, b)
  BY CalledIsFresh DEF Starts
<1>3. j.user = u /\ j.base = b /\ b \in Base
  BY <1>2 DEF Fresh, TypeOK
<1> HIDE DEF j
<1>4. CASE j.pc \in EarlyPC /\ (j.op = "disown" => j.type = "orphan")
  BY <1>4, EarlyGrants DEF j
<1>5. CASE /\ j.op = "adopt" /\ j.pc = "adoptSet" /\ j.type = "adoption"
           /\ u \in Elevated
           /\ j.seen = maintainer[b]
           /\ \/ j.newm = u /\ j.ids = {}
              \/ \E r \in Pending("adoption", b) :
                   j.newm = req[r].user /\ j.ids = {r}
  <2>1. /\ j.newm \in User
        /\ \A r \in j.ids : /\ r \in ReqId
                            /\ req[r] # NoReq
                            /\ req[r].user = j.newm
                            /\ req[r].name = b
    BY <1>2, <1>5 DEF Pending, Filed, TypeOK, Request
  <2>2. j.seen = j.newm => <<b, j.newm>> \in held
    BY <1>3, <1>5, <2>1 DEF HeldIsCurrent
  <2>3. JobGrants(j, req, held)
    BY <1>3, <1>5, <2>1, <2>2 DEF JobGrants, HandlePC, SshPC
  <2>4. QED
    BY <1>1, <2>3 DEF j
<1>6. CASE /\ j.op \in {"disown", "delete", "merge"}
           /\ j.pc \in {"disownRole", "readAccept"}
           /\ j.type \in {"orphan", "deletion", "merge"}
           /\ (j.pc = "disownRole" \/ j.op = "disown") => j.type = "orphan"
  BY <1>6 DEF JobGrants, HandlePC, SshPC, j
<1>7. CASE /\ j.op = "sshDisown" /\ j.pc = "sshClose" /\ j.type = "orphan"
           /\ j.accept = Pending("orphan", b)
           /\ u \in Elevated \/ u = maintainer[b]
  <2>1. \A r \in j.accept : KnownGiven(r, req, held)
    BY <1>7 DEF Pending, Filed, KnownGiven, Given
  <2>2. u \in Elevated \/ <<b, u>> \in held
    BY <1>3, <1>7 DEF HeldIsCurrent
  <2>3. JobGrants(j, req, held)
    BY <1>3, <1>7, <2>1, <2>2 DEF JobGrants, HandlePC, SshPC
  <2>4. QED
    BY <1>1, <2>3 DEF j
<1>8. QED
  BY <1>2, <1>4, <1>5, <1>6, <1>7 DEF Fresh, EarlyPC

-----------------------------------------------------------------------------
(* The invariant. *)

LEMMA HandlerMoves ==
    ASSUME TypeOK, NEW w \in Worker, Handler(w) \/ Crash(w) \/ Deadlock(w)
    PROVE  OnlyMoves(w)
<1>1. ASSUME NEW outcome \in Free, Finish(w, outcome) PROVE OnlyMoves(w)
  BY <1>1, FinishMoves
<1>2. ASSUME NEW pc, Goto(w, pc) PROVE OnlyMoves(w)
  BY <1>2, GotoMoves
<1>3. CASE FileCreate(w) \/ FileAuto(w) \/ AutoOrphan(w) \/ AdoptSet(w)
           \/ AdoptCreate(w) \/ DisownRole(w)
  BY <1>1, <1>2, <1>3 DEF FileCreate, FileAuto, AutoOrphan, AdoptSet,
     AdoptCreate, DisownRole, OnlyMoves, TypeOK, Free
<1>4. CASE DisownOwner(w) \/ DisownCo(w) \/ DisownFinish(w)
           \/ DeleteFinish(w) \/ MergeMove(w) \/ MergeDelete(w)
  BY <1>1, <1>2, <1>4 DEF DisownOwner, DisownCo, DisownFinish, DeleteFinish,
     MergeMove, MergeDelete, Free
<1>5. CASE Verify(w) \/ ReadAccept(w) \/ ReadReject(w) \/ CreateHandled(w)
           \/ Close(w)
  BY <1>1, <1>2, <1>5 DEF Verify, ReadAccept, ReadReject, CreateHandled,
     Close, OnlyMoves, TypeOK, Free
<1>6. CASE SshClose(w) \/ SshRead(w) \/ SshComaints(w) \/ SshMaint(w)
           \/ PushSave(w) \/ BaseGone(w)
  BY <1>1, <1>2, <1>6 DEF SshClose, SshRead, SshComaints, SshMaint, PushSave,
     BaseGone, OnlyMoves, TypeOK, Free
<1>7. CASE Crash(w) \/ Deadlock(w)
  BY <1>1, <1>7 DEF Crash, Deadlock, OnlyMoves, TypeOK, Free
<1>8. QED
  BY <1>3, <1>4, <1>5, <1>6, <1>7 DEF Handler

\* A request is accepted by a handler that knows it to be granted.
LEMMA HandlerAccepts ==
    ASSUME TypeOK, Tracked, NEW w \in Worker, Handler(w),
           JobGrants(job[w], req, held), NEW r \in everAccepted' \ everAccepted
    PROVE  KnownGiven(r, req, held)
<1>1. CASE AutoOrphan(w)
  <2>1. r \in job[w].ids /\ job[w].pc = "autoOrphan"
    BY <1>1 DEF AutoOrphan, At
  <2>2. QED
    BY <2>1 DEF JobGrants, KnownGiven, Given
<1>2. CASE Close(w)
  <2>1. r \in job[w].accept /\ job[w].pc = "close"
    BY <1>2 DEF Close, At
  <2>2. QED
    BY <2>1 DEF JobGrants
<1>3. CASE SshClose(w)
  <2>1. r \in job[w].accept /\ job[w].pc = "sshClose"
    BY <1>3 DEF SshClose, At
  <2>2. QED
    BY <2>1 DEF JobGrants
<1>4. CASE FileCreate(w) \/ FileAuto(w) \/ AdoptSet(w) \/ AdoptCreate(w)
           \/ DisownRole(w) \/ DisownOwner(w) \/ DisownCo(w) \/ DisownFinish(w)
           \/ DeleteFinish(w) \/ MergeMove(w) \/ MergeDelete(w)
  BY <1>4 DEF FileCreate, FileAuto, AdoptSet, AdoptCreate, DisownRole,
     DisownOwner, DisownCo, DisownFinish, DeleteFinish, MergeMove, MergeDelete
<1>5. CASE Verify(w) \/ ReadAccept(w) \/ ReadReject(w) \/ CreateHandled(w)
           \/ SshRead(w) \/ SshComaints(w) \/ SshMaint(w) \/ PushSave(w)
           \/ BaseGone(w)
  BY <1>5 DEF Verify, ReadAccept, ReadReject, CreateHandled, SshRead,
     SshComaints, SshMaint, PushSave, BaseGone
<1>6. QED
  BY <1>1, <1>2, <1>3, <1>4, <1>5 DEF Handler

\* A step of worker w that leaves granting as it was.
LEMMA GrantingStep ==
    ASSUME TypeOK, Tracked, Granting, RowsStay, HeldStays,
           NEW w \in Worker, OnlyMoves(w), JobGrants(job'[w], req', held'),
           \A r \in everAccepted' \ everAccepted : KnownGiven(r, req, held)
    PROVE  Granting'
<1>1. HeldIsCurrent' /\ held \subseteq held'
  BY DEF Granting, HeldStays
<1>2. ASSUME NEW r \in everAccepted' PROVE Given(r, req', held')
  <2>1. KnownGiven(r, req, held)
    BY DEF Granting, GrantedAdoptionWasGiven, Tracked, FiledIn, KnownGiven, Given
  <2>2. QED
    BY <1>1, <2>1, KnownGivenStays DEF KnownGiven
<1>3. GrantedAdoptionWasGiven'
  BY <1>2 DEF GrantedAdoptionWasGiven, Given
<1>4. ASSUME NEW v \in Worker, v # w PROVE JobGrants(job'[v], req', held')
  <2>1. job'[v] = job[v] /\ JobGrants(job[v], req, held)
    BY <1>4 DEF OnlyMoves, Granting
  <2>2. QED
    BY <1>1, <2>1, KnownGrant
<1>5. QED
  BY <1>1, <1>3, <1>4 DEF Granting

\* A step of nobody's handler.
LEMMA GrantingStays ==
    ASSUME TypeOK, Tracked, Granting, RowsStay, HeldStays,
           UNCHANGED <<job, everAccepted>>
    PROVE  Granting'
<1>1. HeldIsCurrent' /\ held \subseteq held'
  BY DEF Granting, HeldStays
<1>2. ASSUME NEW r \in everAccepted' PROVE Given(r, req', held')
  <2>1. KnownGiven(r, req, held)
    BY DEF Granting, GrantedAdoptionWasGiven, Tracked, FiledIn, KnownGiven, Given
  <2>2. QED
    BY <1>1, <2>1, KnownGivenStays DEF KnownGiven
<1>3. GrantedAdoptionWasGiven'
  BY <1>2 DEF GrantedAdoptionWasGiven, Given
<1>4. \A v \in Worker : JobGrants(job'[v], req', held')
  BY <1>1, KnownGrant DEF Granting
<1>5. QED
  BY <1>1, <1>3, <1>4 DEF Granting

LEMMA InitGranting == Init => Granting
<1> SUFFICES ASSUME Init PROVE Granting
  OBVIOUS
<1>1. HeldIsCurrent
  BY DEF Init, HeldIsCurrent
<1>2. GrantedAdoptionWasGiven
  BY DEF Init, GrantedAdoptionWasGiven
<1>3. \A w \in Worker : job[w].pc \in Free
  BY DEF Init, IdleJob, Free
<1>4. QED
  BY <1>1, <1>2, <1>3, FreeGrants DEF Granting

LEMMA GrantingNext == TypeOK /\ Tracked /\ Granting /\ [Next]_vars => Granting'
<1> SUFFICES ASSUME TypeOK, Tracked, Granting, [Next]_vars PROVE Granting'
  OBVIOUS
<1>1. RowsStay /\ HeldStays /\ held \subseteq held'
  BY NextRowsStay, NextHeld DEF HeldStays
<1>2. ASSUME NEW w \in Worker, Called(w) PROVE Granting'
  <2>1. OnlyMoves(w) /\ everAccepted' = everAccepted
    BY <1>2, CalledIsFresh, CalledKeepsTables DEF Starts
  <2>2. JobGrants(job'[w], req', held')
    BY <1>2, CalledGrants DEF Granting
  <2>3. QED
    BY <1>1, <2>1, <2>2, GrantingStep
<1>3. ASSUME NEW w \in Worker, Handler(w) PROVE Granting'
  <2>1. HeldIsCurrent /\ JobGrants(job[w], req, held)
    BY DEF Granting
  <2>2. JobGrants(job'[w], req', held')
    BY <1>1, <1>3, <2>1, HandlerGrants
  <2>3. \A r \in everAccepted' \ everAccepted : KnownGiven(r, req, held)
    BY <1>3, <2>1, HandlerAccepts
  <2>4. QED
    BY <1>1, <1>3, <2>2, <2>3, HandlerMoves, GrantingStep
<1>4. ASSUME NEW w \in Worker, Crash(w) \/ Deadlock(w) PROVE Granting'
  <2>1. everAccepted' = everAccepted
    BY <1>4, CalledKeepsTables
  <2>2. JobGrants(job[w], req', held')
    BY <1>1, KnownGrant DEF Granting
  <2>3. JobGrants(job'[w], req', held')
    BY <1>4, <2>2, FaultGrants
  <2>4. QED
    BY <1>1, <1>4, <2>1, <2>3, HandlerMoves, GrantingStep
<1>5. CASE OneStep \/ Sweep \/ Time \/ UNCHANGED vars
  <2>1. UNCHANGED <<job, everAccepted>>
    BY <1>5 DEF OneStep, CloseRequest, SetComaintainers, Flag, Sweep,
       SweepRead, SweepWrite, SweepFail, Time, FlagAges, BaseAges, RequestDue,
       vars
  <2>2. QED
    BY <1>1, <2>1, GrantingStays
<1>6. QED
  BY <1>2, <1>3, <1>4, <1>5 DEF Next

LEMMA SpecGranting == Spec => [](TypeOK /\ Tracked /\ Granting)
  BY InitTracked, TrackedNext, InitGranting, GrantingNext, TypeCorrect, PTL
     DEF Spec

\* An adoption request that a user filed is accepted only after its author was
\* made maintainer, whatever the other handlers, cron and the deadlocks do
\* between the transaction that writes the maintainer and the one that closes
\* the request (pkgbase_adopt_instance), and wherever a worker dies.
THEOREM AdoptionGiven == Spec => []GrantedAdoptionWasGiven
<1>1. Granting => GrantedAdoptionWasGiven
  BY DEF Granting
<1>2. QED
  BY <1>1, SpecGranting, PTL

-----------------------------------------------------------------------------
(* NobodyTakesABase speaks of one step. *)

LEMMA TakingStep ==
    ASSUME TypeOK, Tracked, Granting, [Next]_vars, NEW b \in exists',
           maintainer[b] \notin {Nobody, maintainer'[b]}
    PROVE  \/ StepOfOwnerOrElevated(b)
           \/ /\ maintainer'[b] = Nobody
              /\ \E r \in everAccepted' : req[r].type = "orphan" /\ req[r].name = b
<1>1. PICK w \in Worker : Handler(w)
  <2>1. maintainer' # maintainer
    OBVIOUS
  <2>2. ASSUME NEW w \in Worker, Called(w) \/ Crash(w) \/ Deadlock(w)
        PROVE  maintainer' = maintainer
    BY <2>2, CalledKeepsTables DEF dbVars
  <2>3. OneStep \/ Sweep \/ Time \/ UNCHANGED vars => maintainer' = maintainer
    BY DEF OneStep, CloseRequest, SetComaintainers, Flag, Sweep, SweepRead,
       SweepWrite, SweepFail, Time, FlagAges, BaseAges, RequestDue, vars, dbVars
  <2>4. QED
    BY <2>1, <2>2, <2>3 DEF Next
<1>2. JobGrants(job[w], req, held) /\ JobTracked(job[w], req, everAccepted)
  BY DEF Granting, Tracked
<1>3. ASSUME NEW c, NEW u, SetMaintainer(c, u) PROVE b = c /\ maintainer'[b] = u
  BY <1>3 DEF SetMaintainer, TypeOK
<1>4. ASSUME job'[w].pc # job[w].pc,
             job[w].user \in Elevated \/ <<b, job[w].user>> \in held
      PROVE  StepOfOwnerOrElevated(b)
  BY <1>4 DEF StepOfOwnerOrElevated
<1>5. CASE AutoOrphan(w)
  <2>1. /\ job[w].pc = "autoOrphan"
        /\ job[w].base = b
        /\ maintainer'[b] = Nobody
        /\ job[w].ids \subseteq everAccepted'
    BY <1>3, <1>5 DEF AutoOrphan, At
  <2>2. QED
    BY <1>2, <2>1 DEF JobGrants
<1>6. CASE AdoptSet(w)
  <2>1. job[w].pc = "adoptSet" /\ job'[w].pc = "readAccept"
    BY <1>6, GotoKeeps DEF AdoptSet, At
  <2>2. QED
    BY <1>2, <1>4, <2>1 DEF JobGrants
<1>7. CASE DisownOwner(w)
  <2>1. job[w].pc = "disownOwner" /\ job'[w].pc = "done" /\ job[w].base = b
    BY <1>3, <1>7, FinishMoves DEF DisownOwner, At, Free
  <2>2. QED
    BY <1>2, <1>4, <2>1 DEF JobGrants
<1>8. CASE DisownFinish(w)
  <2>1. job[w].pc = "disownFinish" /\ job[w].base = b /\ maintainer'[b] = Nobody
        /\ everAccepted' = everAccepted
    BY <1>3, <1>8 DEF DisownFinish, At
  <2>2. job[w].type = "orphan" /\ \E r \in everAccepted : Matches(r, job[w], req)
    BY <1>2, <2>1 DEF JobGrants, JobTracked, ActPC
  <2>3. QED
    BY <2>1, <2>2 DEF Matches
<1>9. CASE SshMaint(w)
  <2>1. job[w].pc = "sshMaint" /\ job'[w].pc = "done" /\ job[w].base = b
    BY <1>3, <1>9, FinishMoves DEF SshMaint, At, Free
  <2>2. QED
    BY <1>2, <1>4, <2>1 DEF JobGrants, SshPC
<1>10. CASE PushSave(w)
  BY <1>3, <1>10 DEF PushSave, PushedMaintainer
<1>11. CASE DeleteFinish(w) \/ MergeDelete(w)
  BY <1>11 DEF DeleteFinish, MergeDelete, DeleteBase, TypeOK
<1>12. CASE FileCreate(w) \/ FileAuto(w) \/ AdoptCreate(w) \/ DisownRole(w)
            \/ DisownCo(w) \/ MergeMove(w) \/ Verify(w) \/ ReadAccept(w)
  BY <1>12 DEF FileCreate, FileAuto, AdoptCreate, DisownRole, DisownCo,
     MergeMove, Verify, ReadAccept, dbVars
<1>13. CASE ReadReject(w) \/ CreateHandled(w) \/ Close(w) \/ SshClose(w)
            \/ SshRead(w) \/ SshComaints(w) \/ BaseGone(w)
  BY <1>13 DEF ReadReject, CreateHandled, Close, SshClose, SshRead,
     SshComaints, BaseGone, dbVars
<1>14. QED
  BY <1>1, <1>5, <1>6, <1>7, <1>8, <1>9, <1>10, <1>11, <1>12, <1>13 DEF Handler

\* Nobody takes a base from its maintainer, whatever runs beside it: the step
\* that does so is one of a handler of an elevated user, or of one who is or
\* has been its maintainer, or it makes the base an orphan after an orphan
\* request about it was accepted (pkgbase_adopt_instance,
\* pkgbase_disown_instance, handle_auto_orphan, `disown` over SSH, the update
\* hook).
THEOREM BaseIsNotTaken == Spec => NobodyTakesABase
<1>1. TypeOK /\ Tracked /\ Granting /\ [Next]_vars =>
        [\A b \in exists' :
           maintainer[b] \notin {Nobody, maintainer'[b]} =>
             \/ StepOfOwnerOrElevated(b)
             \/ /\ maintainer'[b] = Nobody
                /\ \E r \in everAccepted' :
                      req[r].type = "orphan" /\ req[r].name = b]_vars
  BY TakingStep
<1>2. QED
  BY <1>1, SpecGranting, PTL DEF Spec, NobodyTakesABase

-----------------------------------------------------------------------------
(* One worker.  With two, each of the properties below fails: both may have *)
(* read the table before either writes it.                                  *)

OneWorker == \E w : Worker = {w}

Inserts(w) == FileCreate(w) \/ AdoptCreate(w) \/ CreateHandled(w)

NoNewRow == Filed' \subseteq Filed

LEMMA HandlerInserts ==
    ASSUME NEW w \in Worker, Handler(w), ~Inserts(w)
    PROVE  NoNewRow
<1>1. CASE UNCHANGED req
  BY <1>1 DEF NoNewRow, Filed
<1>2. CASE FileAuto(w) \/ AdoptSet(w) \/ DisownRole(w) \/ DisownOwner(w)
           \/ DisownCo(w) \/ DisownFinish(w) \/ MergeMove(w)
  BY <1>1, <1>2 DEF FileAuto, AdoptSet, DisownRole, DisownOwner, DisownCo,
     DisownFinish, MergeMove, dbVars
<1>3. CASE Verify(w) \/ ReadAccept(w) \/ ReadReject(w) \/ SshRead(w)
           \/ SshComaints(w) \/ SshMaint(w) \/ PushSave(w) \/ BaseGone(w)
  BY <1>1, <1>3 DEF Verify, ReadAccept, ReadReject, SshRead, SshComaints,
     SshMaint, PushSave, BaseGone, dbVars
<1>4. CASE AutoOrphan(w) \/ Close(w) \/ SshClose(w)
  BY <1>1, <1>4 DEF AutoOrphan, Close, SshClose, Closed, NoNewRow, Filed
<1>5. CASE DeleteFinish(w) \/ MergeDelete(w)
  BY <1>5 DEF DeleteFinish, MergeDelete, DeleteBase, NoNewRow, Filed
<1>6. QED
  BY <1>2, <1>3, <1>4, <1>5 DEF Handler, Inserts

\* The steps of no handler.
Elsewhere == OneStep \/ Sweep \/ Time \/ UNCHANGED vars

LEMMA ElsewhereKeeps ==
    ASSUME TypeOK, Elsewhere
    PROVE  NoNewRow /\ UNCHANGED <<exists, maintainer, job, held, everAccepted>>
<1>1. CASE OneStep
  BY <1>1 DEF OneStep, CloseRequest, SetComaintainers, Flag, Closed, NoNewRow,
     Filed
<1>2. CASE Sweep
  BY <1>2 DEF Sweep, SweepRead, SweepWrite, SweepFail, Closed, NoNewRow, Filed,
     dbVars
<1>3. CASE Time
  BY <1>3 DEF Time, FlagAges, BaseAges, RequestDue, NoNewRow, Filed, TypeOK
<1>4. CASE UNCHANGED vars
  BY <1>4 DEF vars, dbVars, NoNewRow, Filed
<1>5. QED
  BY <1>1, <1>2, <1>3, <1>4 DEF Elsewhere

\* A step that inserts no row adds nothing to what is pending.
LEMMA PendingShrinks ==
    ASSUME TypeOK, RowsTouched, NoNewRow, NEW t, NEW b
    PROVE  Pending(t, b)' \subseteq Pending(t, b)
<1>1. ASSUME NEW r \in Pending(t, b)' PROVE r \in Pending(t, b)
  <2>1. r \in Filed /\ r \in ReqId /\ req[r] # NoReq
    BY <1>1 DEF Pending, NoNewRow, Filed
  <2>2. req[r] \in Request /\ req'[r] \in Touched(req[r])
    BY <2>1 DEF TypeOK, RowsTouched
  <2>3. /\ SameRow(req'[r], req[r])
        /\ req'[r].status = "pending" => req[r].status = "pending"
        /\ req'[r].linked => req[r].linked
    BY <2>2, TouchedIsSame
  <2>4. QED
    BY <1>1, <2>1, <2>3 DEF Pending, SameRow
<1>2. QED
  BY <1>1

\* The same for a step that inserts row q as n, about all but q.
LEMMA PendingInserted ==
    ASSUME TypeOK, NEW n \in ReqId \ Filed, NEW q, q # NoReq,
           req' = [req EXCEPT ![n] = q], NEW t, NEW b
    PROVE  /\ Pending(t, b)' \subseteq Pending(t, b) \cup {n}
           /\ n \in Pending(t, b)' => q.type = t /\ q.name = b
           /\ \A r \in Filed : r # n /\ req'[r] = req[r]
           /\ req'[n] = q
  BY DEF TypeOK, Pending, Filed

\* Where a handler that goes on has come from.
GoesOn(w) ==
    job'[w].pc \notin Free =>
        /\ job[w].pc \notin Free
        /\ job'[w].op = job[w].op
        /\ job'[w].type = job[w].type
        /\ job'[w].base = job[w].base
        /\ job'[w].into = job[w].into
        /\ job'[w].pc \notin {"fileCreate", "adoptCreate", "adoptSet",
                              "disownRole", "pushSave"}
        /\ job'[w].pc = "readAccept" =>
             \/ FileAuto(w) /\ job[w].type = "deletion"
             \/ AdoptSet(w)
             \/ Verify(w)
        /\ job'[w].pc = "readReject" => ReadAccept(w)
        /\ job'[w].pc = "create" => ReadReject(w)
        /\ job'[w].pc = "close" => ReadReject(w) \/ CreateHandled(w)
        /\ job'[w].pc = "verify" => DisownRole(w)
        /\ job'[w].pc \in SshPC => job[w].pc \in SshPC

LEMMA GotoGoesOn ==
    ASSUME TypeOK, NEW w \in Worker, job[w].pc \notin Free, NEW pc, Goto(w, pc),
           pc \notin {"fileCreate", "adoptCreate", "adoptSet", "disownRole",
                     "pushSave", "readReject", "create", "close"},
           pc = "readAccept" => \/ FileAuto(w) /\ job[w].type = "deletion"
                                \/ AdoptSet(w)
                                \/ Verify(w),
           pc = "verify" => DisownRole(w),
           pc \in SshPC => job[w].pc \in SshPC
    PROVE  GoesOn(w)
<1>1. /\ job'[w].pc = pc
      /\ job'[w].op = job[w].op
      /\ job'[w].type = job[w].type
      /\ job'[w].base = job[w].base
      /\ job'[w].into = job[w].into
  BY GotoKeeps
<1>2. QED
  BY <1>1 DEF GoesOn

LEMMA HandlerGoesOn ==
    ASSUME TypeOK, NEW w \in Worker, Handler(w)
    PROVE  GoesOn(w)
<1>1. ASSUME NEW outcome \in Free, Finish(w, outcome) PROVE GoesOn(w)
  BY <1>1, FinishMoves DEF GoesOn
<1>2. CASE FileCreate(w)
  <2>1. CASE Finish(w, "done")
    BY <1>1, <2>1 DEF Free
  <2>2. ASSUME NEW r, job' = [job EXCEPT ![w].pc = "fileAuto", ![w].ids = {r}]
        PROVE  GoesOn(w)
    <3>1. /\ job'[w].pc = "fileAuto"
          /\ job'[w].op = job[w].op
          /\ job'[w].type = job[w].type
          /\ job'[w].base = job[w].base
          /\ job'[w].into = job[w].into
      BY <2>2 DEF TypeOK, Job
    <3>2. QED
      BY <1>2, <3>1 DEF GoesOn, FileCreate, At, Free, SshPC
  <2>3. QED
    BY <1>2, <2>1, <2>2 DEF FileCreate
<1>3. CASE FileAuto(w)
  <2>1. CASE Finish(w, "done")
    BY <1>1, <2>1 DEF Free
  <2>2. CASE job[w].type = "deletion" /\ Goto(w, "readAccept")
    BY <1>3, <2>2, GotoGoesOn DEF FileAuto, At, Free, SshPC
  <2>3. CASE job' = [job EXCEPT ![w].pc = "autoOrphan",
                                ![w].seen = maintainer[job[w].base]]
    <3>1. /\ job'[w].pc = "autoOrphan"
          /\ job'[w].op = job[w].op
          /\ job'[w].type = job[w].type
          /\ job'[w].base = job[w].base
          /\ job'[w].into = job[w].into
      BY <2>3 DEF TypeOK, Job
    <3>2. QED
      BY <1>3, <3>1 DEF GoesOn, FileAuto, At, Free, SshPC
  <2>4. QED
    BY <1>3, <2>1, <2>2, <2>3 DEF FileAuto
<1>4. CASE AdoptSet(w)
  BY <1>4, GotoGoesOn DEF AdoptSet, At, Free, SshPC
<1>5. CASE DisownRole(w)
  <2>1. CASE Finish(w, "done")
    BY <1>1, <2>1 DEF Free
  <2>2. ASSUME NEW pc \in {"disownOwner", "disownCo", "verify"}, Goto(w, pc)
        PROVE  GoesOn(w)
    BY <1>5, <2>2, GotoGoesOn DEF DisownRole, At, Free, SshPC
  <2>3. QED
    BY <1>5, <2>1, <2>2 DEF DisownRole
<1>6. CASE AutoOrphan(w) \/ AdoptCreate(w) \/ DisownOwner(w) \/ DisownCo(w)
           \/ DisownFinish(w) \/ DeleteFinish(w) \/ MergeDelete(w)
           \/ SshMaint(w) \/ PushSave(w) \/ BaseGone(w)
  BY <1>1, <1>6 DEF AutoOrphan, AdoptCreate, DisownOwner, DisownCo,
     DisownFinish, DeleteFinish, MergeDelete, SshMaint, PushSave, BaseGone, Free
<1>7. CASE MergeMove(w)
  <2>1. CASE Goto(w, "mergeDelete")
    BY <1>7, <2>1, GotoGoesOn DEF MergeMove, At, Free, SshPC
  <2>2. QED
    BY <1>1, <1>7, <2>1 DEF MergeMove, Free
<1>8. CASE Verify(w)
  <2>1. CASE Goto(w, "readAccept")
    BY <1>8, <2>1, GotoGoesOn DEF Verify, At, Free, SshPC
  <2>2. QED
    BY <1>1, <1>8, <2>1 DEF Verify, Free
<1>9. CASE ReadAccept(w)
  <2>1. /\ job'[w].pc = "readReject"
        /\ job'[w].op = job[w].op
        /\ job'[w].type = job[w].type
        /\ job'[w].base = job[w].base
        /\ job'[w].into = job[w].into
    BY <1>9 DEF ReadAccept, TypeOK, Job
  <2>2. QED
    BY <1>9, <2>1 DEF GoesOn, ReadAccept, At, Free, SshPC
<1>10. CASE ReadReject(w)
  <2>1. /\ job'[w].pc \in {"create", "close"}
        /\ job'[w].op = job[w].op
        /\ job'[w].type = job[w].type
        /\ job'[w].base = job[w].base
        /\ job'[w].into = job[w].into
    BY <1>10 DEF ReadReject, TypeOK, Job
  <2>2. QED
    BY <1>10, <2>1 DEF GoesOn, ReadReject, At, Free, SshPC
<1>11. CASE CreateHandled(w)
  <2>1. PICK r : job' = [job EXCEPT ![w].pc = "close", ![w].accept = {r}]
    BY <1>11 DEF CreateHandled
  <2>2. /\ job'[w].pc = "close"
        /\ job'[w].op = job[w].op
        /\ job'[w].type = job[w].type
        /\ job'[w].base = job[w].base
        /\ job'[w].into = job[w].into
    BY <2>1 DEF TypeOK, Job
  <2>3. QED
    BY <1>11, <2>2 DEF GoesOn, CreateHandled, At, Free, SshPC
<1>12. CASE Close(w)
  <2>1. job[w].pc = "close" /\ job[w].type \in RequestType
    BY <1>12, BusyType DEF Close, At, Free
  <2>2. CASE Goto(w, AfterHandle(job[w])) /\ AfterHandle(job[w]) # "done"
    <3>1. AfterHandle(job[w]) \in {"disownFinish", "deleteFinish", "mergeMove"}
      BY <2>1, <2>2 DEF AfterHandle, RequestType
    <3>2. QED
      BY <2>1, <2>2, <3>1, GotoGoesOn DEF Free, SshPC
  <2>3. QED
    BY <1>1, <1>12, <2>2 DEF Close, Free
<1>13. CASE SshClose(w)
  <2>1. CASE Goto(w, "sshRead")
    BY <1>13, <2>1, GotoGoesOn DEF SshClose, At, Free, SshPC
  <2>2. ASSUME NEW r, job' = [job EXCEPT ![w].accept = @ \ {r}]
        PROVE  GoesOn(w)
    <3>1. job'[w] = [job[w] EXCEPT !.accept = @ \ {r}] /\ job[w] \in Job
      BY <2>2 DEF TypeOK
    <3>2. /\ job'[w].pc = job[w].pc
          /\ job'[w].op = job[w].op
          /\ job'[w].type = job[w].type
          /\ job'[w].base = job[w].base
          /\ job'[w].into = job[w].into
      BY <3>1 DEF Job
    <3>3. QED
      BY <1>13, <3>2 DEF GoesOn, SshClose, At, Free, SshPC
  <2>3. QED
    BY <1>13, <2>1, <2>2 DEF SshClose
<1>14. CASE SshRead(w)
  <2>1. CASE Goto(w, "sshComaints")
    BY <1>14, <2>1, GotoGoesOn DEF SshRead, At, Free, SshPC
  <2>2. ASSUME NEW c, NEW rest,
               job' = [job EXCEPT ![w].pc = "sshComaints",
                                  ![w].newm = c, ![w].rest = rest]
        PROVE  GoesOn(w)
    <3>1. /\ job'[w].pc = "sshComaints"
          /\ job'[w].op = job[w].op
          /\ job'[w].type = job[w].type
          /\ job'[w].base = job[w].base
          /\ job'[w].into = job[w].into
      BY <2>2 DEF TypeOK, Job
    <3>2. QED
      BY <1>14, <3>1 DEF GoesOn, SshRead, At, Free, SshPC
  <2>3. QED
    BY <1>14, <2>1, <2>2 DEF SshRead
<1>15. CASE SshComaints(w)
  <2>1. CASE Goto(w, "sshMaint")
    BY <1>15, <2>1, GotoGoesOn DEF SshComaints, At, Free, SshPC
  <2>2. QED
    BY <1>1, <1>15, <2>1 DEF SshComaints, Free
<1>16. QED
  BY <1>2, <1>3, <1>4, <1>5, <1>6, <1>7, <1>8, <1>9, <1>10, <1>11, <1>12,
     <1>13, <1>14, <1>15 DEF Handler

\* The steps of one worker, and the steps of none.
LEMMA AloneSteps ==
    ASSUME TypeOK, NEW w \in Worker, OneWorker, [Next]_vars
    PROVE  \/ Called(w) /\ NoNewRow
           \/ Handler(w)
           \/ Crash(w) /\ NoNewRow
           \/ Deadlock(w) /\ NoNewRow
           \/ Elsewhere /\ NoNewRow /\ job' = job
<1>1. Called(w) \/ Crash(w) \/ Deadlock(w) => NoNewRow
  BY CalledKeepsTables DEF dbVars, NoNewRow, Filed
<1>2. QED
  BY <1>1, ElsewhereKeeps DEF Next, OneWorker, Elsewhere

-----------------------------------------------------------------------------
(* One worker files at most one adoption request at a time. *)

UserAdoptions(b) == {r \in Pending("adoption", b) : req[r].origin # "handler"}

Filing(j) == j.pc = "adoptCreate" \/ (j.pc = "fileCreate" /\ j.type = "adoption")

AtMostOneAdoption ==
    /\ \A b \in Base : \A r, s \in UserAdoptions(b) : r = s
    /\ \A w \in Worker, b \in Base :
         Filing(job[w]) /\ job[w].base = b => UserAdoptions(b) = {}

LEMMA OneFiledIsAtMostOne ==
    ASSUME TypeOK, \A b \in Base : \A r, s \in UserAdoptions(b) : r = s
    PROVE  OneFiledAdoption
<1>1. ASSUME NEW r \in Filed, NEW s \in Filed,
             {r, s} \subseteq Pending("adoption", req[r].name),
             "handler" \notin {req[r].origin, req[s].origin}
      PROVE  r = s
  <2>1. req[r].name \in Base
    BY <1>1 DEF TypeOK, Filed, Request
  <2>2. r \in UserAdoptions(req[r].name) /\ s \in UserAdoptions(req[r].name)
    BY <1>1 DEF UserAdoptions
  <2>3. QED
    BY <2>1, <2>2
<1>2. QED
  BY <1>1 DEF OneFiledAdoption

LEMMA AdoptionsShrink ==
    ASSUME TypeOK, RowsTouched, NoNewRow, NEW b
    PROVE  UserAdoptions(b)' \subseteq UserAdoptions(b)
<1>1. RowsStay /\ Pending("adoption", b)' \subseteq Pending("adoption", b)
  BY TouchedRowsStay, PendingShrinks
<1>2. QED
  BY <1>1 DEF UserAdoptions, RowsStay, SameRow, Pending, Filed

\* Nothing is filed where a handler has found a request pending.
LEMMA AdoptionInserted ==
    ASSUME TypeOK, NEW n \in ReqId \ Filed, NEW q, q # NoReq,
           req' = [req EXCEPT ![n] = q],
           \A b \in Base : \A r, s \in UserAdoptions(b) : r = s,
           q.type = "adoption" /\ q.origin # "handler"
               => UserAdoptions(q.name) = {}
    PROVE  \A b \in Base : \A r, s \in UserAdoptions(b)' : r = s
<1>1. ASSUME NEW b \in Base, NEW r \in UserAdoptions(b)'
      PROVE  \/ r \in UserAdoptions(b) /\ r # n
             \/ r = n /\ q.type = "adoption" /\ q.origin # "handler" /\ q.name = b
  <2>1. r \in Pending("adoption", b)' /\ req'[r].origin # "handler"
    BY <1>1 DEF UserAdoptions
  <2>2. /\ Pending("adoption", b)' \subseteq Pending("adoption", b) \cup {n}
        /\ n \in Pending("adoption", b)' => q.type = "adoption" /\ q.name = b
        /\ \A s \in Filed : s # n /\ req'[s] = req[s]
        /\ req'[n] = q
    BY PendingInserted
  <2>3. QED
    BY <2>1, <2>2 DEF UserAdoptions, Pending
<1>2. QED
  BY <1>1

LEMMA AtMostOneNext ==
    ASSUME OneWorker, TypeOK, AtMostOneAdoption, [Next]_vars
    PROVE  AtMostOneAdoption'
<1>1. RowsTouched
  BY NextTouches
<1>2. ASSUME NoNewRow
      PROVE  \A b \in Base : /\ \A r, s \in UserAdoptions(b)' : r = s
                             /\ UserAdoptions(b)' \subseteq UserAdoptions(b)
  BY <1>1, <1>2, AdoptionsShrink DEF AtMostOneAdoption
<1>3. ASSUME NEW w \in Worker,
             \A b \in Base : \A r, s \in UserAdoptions(b)' : r = s,
             \A b \in Base :
               Filing(job'[w]) /\ job'[w].base = b => UserAdoptions(b)' = {}
      PROVE  AtMostOneAdoption'
  BY <1>3 DEF AtMostOneAdoption, OneWorker
<1>4. ASSUME NEW w \in Worker, Called(w), NoNewRow PROVE AtMostOneAdoption'
  <2>1. PICK u \in User, b \in exists : Fresh(job'[w], u, b)
    BY <1>4, CalledIsFresh DEF Starts
  <2>2. Filing(job'[w]) => Pending("adoption", b) = {}
    BY <2>1 DEF Fresh, Filing, MayRequestAdoption
  <2>3. job'[w].base = b /\ b \in Base
    BY <2>1 DEF Fresh, TypeOK
  <2>4. Filing(job'[w]) => UserAdoptions(b) = {}
    BY <2>2 DEF UserAdoptions
  <2>5. QED
    BY <1>2, <1>3, <1>4, <2>3, <2>4
<1>5. ASSUME NEW w \in Worker, Handler(w) PROVE AtMostOneAdoption'
  <2>1. ~Filing(job'[w])
    BY <1>5, HandlerGoesOn DEF GoesOn, Filing, Free
  <2>2. CASE ~Inserts(w)
    BY <1>2, <1>3, <1>5, <2>1, <2>2, HandlerInserts
  <2>3. CASE Inserts(w)
    <3>1. /\ job[w].type \in RequestType /\ job[w].user \in User
          /\ job[w].base \in Base /\ job[w].into \in Base \cup {NoBase}
      BY <2>3, BusyType DEF Inserts, FileCreate, AdoptCreate, CreateHandled,
         At, Free
    <3>2. Filing(job[w]) => UserAdoptions(job[w].base) = {}
      BY <3>1 DEF AtMostOneAdoption
    <3>3. PICK n \in ReqId \ Filed, t \in RequestType,
               m \in Base \cup {NoBase}, o \in Origin :
            /\ req' = [req EXCEPT ![n] =
                         NewRequest(t, job[w].user, job[w].base, m, o)]
            /\ t = "adoption" /\ o # "handler" => Filing(job[w])
      <4>1. CASE FileCreate(w)
        <5>1. PICK n \in ReqId \ Filed :
                req' = [req EXCEPT ![n] =
                  NewRequest(job[w].type, job[w].user, job[w].base,
                             job[w].into, "form")]
          BY <4>1 DEF FileCreate
        <5>2. job[w].type = "adoption" => Filing(job[w])
          BY <4>1 DEF FileCreate, At, Filing
        <5>3. QED
          BY <3>1, <5>1, <5>2 DEF Origin
      <4>2. CASE AdoptCreate(w)
        <5>1. PICK n \in ReqId \ Filed, o \in {"ssh", "adopt"} :
                req' = [req EXCEPT ![n] =
                  NewRequest("adoption", job[w].user, job[w].base, NoBase, o)]
          BY <4>2 DEF AdoptCreate
        <5>2. Filing(job[w])
          BY <4>2 DEF AdoptCreate, At, Filing
        <5>3. QED
          BY <5>1, <5>2 DEF Origin, RequestType
      <4>3. CASE CreateHandled(w)
        <5>1. PICK n \in ReqId \ Filed :
                req' = [req EXCEPT ![n] =
                  NewRequest(job[w].type, job[w].user, job[w].base,
                             HandledTarget(job[w]), "handler")]
          BY <4>3 DEF CreateHandled
        <5>2. QED
          BY <3>1, <5>1, HandledTargetType DEF Origin
      <4>4. QED
        BY <2>3, <4>1, <4>2, <4>3 DEF Inserts
    <3> DEFINE q == NewRequest(t, job[w].user, job[w].base, m, o)
    <3>4. q # NoReq /\ q.type = t /\ q.name = job[w].base /\ q.origin = o
      BY <3>1, NewRequestType DEF NewRequest
    <3> HIDE DEF q
    <3>5. req' = [req EXCEPT ![n] = q]
      BY <3>3 DEF q
    <3>6. q.type = "adoption" /\ q.origin # "handler" => UserAdoptions(q.name) = {}
      BY <3>2, <3>3, <3>4
    <3>7. \A b \in Base : \A r, s \in UserAdoptions(b)' : r = s
      BY <3>4, <3>5, <3>6, AdoptionInserted DEF AtMostOneAdoption
    <3>8. QED
      BY <1>3, <2>1, <3>7
  <2>4. QED
    BY <2>2, <2>3
<1>6. ASSUME NEW w \in Worker, Crash(w) \/ Deadlock(w), NoNewRow
      PROVE  AtMostOneAdoption'
  <2>1. Filing(job'[w]) =>
          Filing(job[w]) /\ job'[w].base = job[w].base /\ job[w].base \in Base
    <3>1. CASE Crash(w)
      BY <3>1, FinishMoves DEF Crash, Filing, Free
    <3>2. CASE Deadlock(w)
      <4>1. PICK pc \in RetryPoints(job[w]) :
              job' = [job EXCEPT ![w].pc = pc, ![w].retried = HasAccepted(job[w])]
        BY <3>2 DEF Deadlock
      <4>2. job'[w].pc = pc /\ job'[w].base = job[w].base
        BY <4>1 DEF TypeOK, Job
      <4>3. pc # "fileCreate" /\ (pc = "adoptCreate" => job[w].pc = pc)
        BY <4>1 DEF RetryPoints, HandleStart
      <4>4. QED
        BY <4>2, <4>3, BusyType DEF Filing, Free
    <3>3. QED
      BY <1>6, <3>1, <3>2
  <2>2. QED
    BY <1>2, <1>3, <1>6, <2>1 DEF AtMostOneAdoption
<1>7. ASSUME Elsewhere, NoNewRow, job' = job PROVE AtMostOneAdoption'
  <2>1. ASSUME NEW w \in Worker, NEW b \in Base, Filing(job'[w]),
               job'[w].base = b
        PROVE  UserAdoptions(b)' = {}
    <3>1. Filing(job[w]) /\ job[w].base = b
      BY <1>7, <2>1
    <3>2. QED
      BY <1>2, <1>7, <3>1 DEF AtMostOneAdoption
  <2>2. QED
    BY <1>2, <1>7, <2>1 DEF AtMostOneAdoption
<1>8. QED
  BY <1>4, <1>5, <1>6, <1>7, AloneSteps DEF OneWorker

\* "There is already a pending adoption request for this package base": one
\* worker at a time never files a second one, whatever handle_request inserts
\* for itself, wherever it dies or is retried and whatever is closed meanwhile
\* (validate.request, the adopt button and `adopt` over SSH).
THEOREM AdoptionFiledOnce ==
    ASSUME OneWorker
    PROVE  Spec => []OneFiledAdoption
<1>1. Init => AtMostOneAdoption
  BY DEF Init, AtMostOneAdoption, UserAdoptions, Pending, Filed, IdleJob, Filing
<1>2. TypeOK /\ AtMostOneAdoption /\ [Next]_vars => AtMostOneAdoption'
  BY AtMostOneNext
<1>3. TypeOK /\ AtMostOneAdoption => OneFiledAdoption
  BY OneFiledIsAtMostOne DEF AtMostOneAdoption
<1>4. QED
  BY <1>1, <1>2, <1>3, TypeCorrect, PTL DEF Spec

-----------------------------------------------------------------------------
(* One worker leaves no request to reject that it has no comment for. *)

CommentedJob(j) ==
    /\ j.type \in {"orphan", "deletion"} =>
         /\ j.pc = "readReject" =>
              \A b \in Base : b = j.base => Pending(j.type, b) \subseteq j.accept
         /\ j.pc = "create" => j.reject = {}
    /\ j.pc = "close" => CanReject(j)

LEMMA CommentedNext ==
    ASSUME OneWorker, TypeOK, NEW w \in Worker, CommentedJob(job[w]), [Next]_vars
    PROVE  CommentedJob(job[w])'
<1>1. ASSUME job'[w].pc \notin {"readReject", "create", "close"}
      PROVE  CommentedJob(job[w])'
  BY <1>1 DEF CommentedJob
<1>2. CASE Called(w)
  <2>1. PICK u, b : Fresh(job'[w], u, b)
    BY <1>2, CalledIsFresh DEF Starts
  <2>2. QED
    BY <1>1, <2>1 DEF Fresh
<1>3. CASE Elsewhere /\ NoNewRow /\ job' = job
  <2>1. \A t, b : Pending(t, b)' \subseteq Pending(t, b)
    BY <1>3, NextTouches, PendingShrinks
  <2>2. QED
    BY <1>3, <2>1 DEF CommentedJob, CanReject
<1>4. CASE Crash(w)
  BY <1>1, <1>4, FinishMoves DEF Crash, Free
<1>5. CASE Deadlock(w)
  <2>1. PICK pc \in RetryPoints(job[w]) :
          job' = [job EXCEPT ![w].pc = pc, ![w].retried = HasAccepted(job[w])]
    BY <1>5 DEF Deadlock
  <2>2. job'[w].pc = pc /\ job'[w].type = job[w].type
        /\ job'[w].reject = job[w].reject
    BY <2>1 DEF TypeOK, Job
  <2>3. pc \notin {"readReject", "create"} /\ (pc = "close" => job[w].pc = pc)
    BY <2>1 DEF RetryPoints, HandleStart
  <2>4. QED
    BY <2>2, <2>3 DEF CommentedJob, CanReject
<1>6. CASE Handler(w)
  <2>1. /\ job'[w].pc = "readReject" => ReadAccept(w)
        /\ job'[w].pc = "create" => ReadReject(w)
        /\ job'[w].pc = "close" => ReadReject(w) \/ CreateHandled(w)
    BY <1>6, HandlerGoesOn DEF GoesOn, Free
  <2>2. CASE ReadAccept(w)
    <3> DEFINE accept == Acceptable(job[w])
    <3>1. /\ job'[w].pc = "readReject"
          /\ job'[w].type = job[w].type
          /\ job'[w].base = job[w].base
          /\ job'[w].accept = accept
      BY <2>2 DEF ReadAccept, TypeOK, Job
    <3>2. req' = req
      BY <2>2 DEF ReadAccept, dbVars
    <3>3. job[w].type \in {"orphan", "deletion"} =>
            accept = Pending(job[w].type, job[w].base)
      BY DEF Acceptable
    <3>4. \A t, b : Pending(t, b)' = Pending(t, b)
      BY <3>2 DEF Pending, Filed
    <3> HIDE DEF accept
    <3>5. QED
      BY <3>1, <3>3, <3>4 DEF CommentedJob
  <2>3. CASE ReadReject(w)
    <3> DEFINE reject == Pending(job[w].type, job[w].base) \ job[w].accept
    <3>1. /\ job[w].pc = "readReject"
          /\ job[w].base \in Base
          /\ job[w].type \in RequestType
      BY <2>3, BusyType DEF ReadReject, At, Free
    <3>2. /\ job'[w].pc \in {"create", "close"}
          /\ job'[w].type = job[w].type
          /\ job'[w].reject = reject
      BY <2>3 DEF ReadReject, TypeOK, Job
    <3>3. job[w].type \in {"orphan", "deletion"} => reject = {}
      BY <3>1 DEF CommentedJob
    <3> HIDE DEF reject
    <3>4. QED
      BY <3>1, <3>2, <3>3 DEF CommentedJob, CanReject, RequestType
  <2>4. CASE CreateHandled(w)
    <3>1. PICK r : job' = [job EXCEPT ![w].pc = "close", ![w].accept = {r}]
      BY <2>4 DEF CreateHandled
    <3>2. /\ job'[w].pc = "close"
          /\ job'[w].type = job[w].type
          /\ job'[w].reject = job[w].reject
      BY <3>1 DEF TypeOK, Job
    <3>3. job[w].pc = "create" /\ job[w].type \in RequestType
      BY <2>4, BusyType DEF CreateHandled, At, Free
    <3>4. QED
      BY <3>2, <3>3 DEF CommentedJob, CanReject, RequestType
  <2>5. QED
    BY <1>1, <2>1, <2>2, <2>3, <2>4
<1>7. QED
  BY <1>2, <1>3, <1>4, <1>5, <1>6, AloneSteps

\* get_closure, which knows a comment for a rejected merge and adoption request
\* only, is never asked for another one by a worker that runs alone: what
\* handle_request reads to reject is empty for an orphan or a deletion, because
\* it has read the same requests to accept before (handle_request).
THEOREM ClosureHasAComment ==
    ASSUME OneWorker
    PROVE  Spec => []EveryClosureHasAComment
<1> DEFINE Commented == \A w \in Worker : CommentedJob(job[w])
<1>1. Init => Commented
  BY DEF Init, CommentedJob, IdleJob
<1>2. TypeOK /\ Commented /\ [Next]_vars => Commented'
  BY CommentedNext
<1>3. Commented => EveryClosureHasAComment
  BY DEF CommentedJob, EveryClosureHasAComment
<1> HIDE DEF Commented
<1>4. QED
  BY <1>1, <1>2, <1>3, TypeCorrect, PTL DEF Spec

-----------------------------------------------------------------------------
(* One worker, and nobody closes a request by hand: a due orphan request is *)
(* still there when the handler that has verified it reads what to accept.  *)

OrphansAreFiled ==
    \A r \in ReqId : req[r] # NoReq /\ req[r].type = "orphan"
        => req[r].origin # "handler"

SweepsAdoptions == \A r \in sweep : req[r] # NoReq /\ req[r].type = "adoption"

DueJob(j) ==
    /\ j.pc \in SshPC => j.op = "sshDisown"
    /\ j.type = "orphan" =>
         /\ j.pc = "readAccept" =>
              \A b \in Base : b = j.base => HasDueOrphanRequest(b)
         /\ j.pc = "readReject" => j.accept # {}
         /\ j.pc # "create"

Due ==
    /\ OrphansAreFiled
    /\ SweepsAdoptions
    /\ \A w \in Worker : DueJob(job[w])

LEMMA DueStays ==
    ASSUME TypeOK, SweepsAdoptions, "close" \notin Ops, Elsewhere,
           NEW b, HasDueOrphanRequest(b)
    PROVE  HasDueOrphanRequest(b)'
<1>1. PICK r \in Pending("orphan", b) : req[r].due
  BY DEF HasDueOrphanRequest
<1>2. r \in ReqId /\ req[r] # NoReq /\ req[r].type = "orphan"
  BY <1>1 DEF Pending, Filed
<1>3. req'[r] = req[r]
  <2>1. CASE OneStep
    BY <2>1 DEF OneStep, CloseRequest, SetComaintainers, Flag
  <2>2. CASE Sweep
    BY <1>2, <2>2 DEF Sweep, SweepRead, SweepWrite, SweepFail, SweepsAdoptions,
       Closed, dbVars
  <2>3. CASE Time
    BY <1>1, <1>2, <2>3 DEF Time, FlagAges, BaseAges, RequestDue, TypeOK
  <2>4. CASE UNCHANGED vars
    BY <2>4 DEF vars, dbVars
  <2>5. QED
    BY <2>1, <2>2, <2>3, <2>4 DEF Elsewhere
<1>4. QED
  BY <1>1, <1>2, <1>3 DEF HasDueOrphanRequest, Pending, Filed

LEMMA SweepNext ==
    ASSUME TypeOK, SweepsAdoptions, [Next]_vars
    PROVE  SweepsAdoptions'
<1>1. RowsStay
  BY NextRowsStay
<1>2. sweep' \subseteq sweep \/ sweep' = Idle
  <2>1. ASSUME NEW w \in Worker, Called(w) \/ Crash(w) \/ Deadlock(w)
        PROVE  sweep' = sweep
    BY <2>1, CalledKeepsTables
  <2>2. ASSUME NEW w \in Worker, Handler(w) PROVE sweep' = sweep
    <3>1. CASE FileCreate(w) \/ FileAuto(w) \/ AutoOrphan(w)
               \/ AdoptSet(w) \/ AdoptCreate(w)
      BY <3>1 DEF FileCreate, FileAuto, AutoOrphan, AdoptSet, AdoptCreate
    <3>2. CASE DisownRole(w) \/ DisownOwner(w) \/ DisownCo(w)
               \/ DisownFinish(w) \/ DeleteFinish(w) \/ MergeMove(w)
               \/ MergeDelete(w)
      BY <3>2 DEF DisownRole, DisownOwner, DisownCo, DisownFinish,
         DeleteFinish, MergeMove, MergeDelete
    <3>3. CASE Verify(w) \/ ReadAccept(w) \/ ReadReject(w)
               \/ CreateHandled(w) \/ Close(w)
      BY <3>3 DEF Verify, ReadAccept, ReadReject, CreateHandled, Close
    <3>4. CASE SshClose(w) \/ SshRead(w) \/ SshComaints(w) \/ SshMaint(w)
               \/ PushSave(w) \/ BaseGone(w)
      BY <3>4 DEF SshClose, SshRead, SshComaints, SshMaint, PushSave, BaseGone
    <3>5. QED
      BY <2>2, <3>1, <3>2, <3>3, <3>4 DEF Handler
  <2>3. OneStep => sweep' = sweep
    BY DEF OneStep, CloseRequest, SetComaintainers, Flag
  <2>4. Sweep => sweep' \subseteq sweep \/ sweep' = Idle
    BY DEF Sweep, SweepRead, SweepWrite, SweepFail
  <2>5. Time => sweep' = sweep
    BY DEF Time, FlagAges, BaseAges, RequestDue
  <2>6. UNCHANGED vars => sweep' = sweep
    BY DEF vars
  <2>7. QED
    BY <2>1, <2>2, <2>3, <2>4, <2>5, <2>6 DEF Next
<1>3. \A r \in Idle : req[r] # NoReq /\ req[r].type = "adoption"
  BY DEF Idle, Filed
<1>4. sweep \subseteq ReqId /\ Idle \subseteq ReqId
  BY DEF TypeOK, Idle, Filed
<1>5. QED
  BY <1>1, <1>2, <1>3, <1>4 DEF SweepsAdoptions, RowsStay, SameRow

\* The only row of origin "handler" is what CreateHandled inserts.
LEMMA HandlerRows ==
    ASSUME TypeOK, [Next]_vars, NEW r \in ReqId, req[r] = NoReq,
           req'[r] # NoReq, req'[r].origin = "handler"
    PROVE  \E w \in Worker : /\ CreateHandled(w)
                             /\ req'[r].type = job[w].type
                             /\ req'[r].name = job[w].base
                             /\ req'[r].status = "pending"
                             /\ req'[r].linked
                             /\ job[w].base \in Base
                             /\ job'[w].accept = {r}
<1>1. ~NoNewRow
  BY DEF NoNewRow, Filed
<1>2. PICK w \in Worker : Inserts(w)
  <2>1. ASSUME NEW w \in Worker, Called(w) \/ Crash(w) \/ Deadlock(w)
        PROVE  NoNewRow
    BY <2>1, CalledKeepsTables DEF dbVars, NoNewRow, Filed
  <2>2. QED
    BY <1>1, <2>1, HandlerInserts, ElsewhereKeeps DEF Next, Elsewhere
<1>3. /\ job[w].type \in RequestType /\ job[w].user \in User
      /\ job[w].base \in Base /\ job[w].into \in Base \cup {NoBase}
  BY <1>2, BusyType DEF Inserts, FileCreate, AdoptCreate, CreateHandled, At, Free
<1>4. \A n \in ReqId \ Filed : \A q : req' = [req EXCEPT ![n] = q] => n = r /\ req'[r] = q
  BY DEF TypeOK
<1>5. \A t, u, b, m, o :
        /\ NewRequest(t, u, b, m, o).origin = o
        /\ NewRequest(t, u, b, m, o).type = t
        /\ NewRequest(t, u, b, m, o).name = b
        /\ NewRequest(t, u, b, m, o).status = "pending"
        /\ NewRequest(t, u, b, m, o).linked
  BY DEF NewRequest
<1>6. CASE FileCreate(w)
  <2>1. req'[r] = NewRequest(job[w].type, job[w].user, job[w].base, job[w].into,
                             "form")
    BY <1>4, <1>6 DEF FileCreate
  <2>2. QED
    BY <1>5, <2>1
<1>7. CASE AdoptCreate(w)
  <2>1. PICK o \in {"ssh", "adopt"} :
          req'[r] = NewRequest("adoption", job[w].user, job[w].base, NoBase, o)
    BY <1>4, <1>7 DEF AdoptCreate
  <2>2. QED
    BY <1>5, <2>1
<1>8. CASE CreateHandled(w)
  <2>1. PICK n \in ReqId \ Filed :
          /\ req' = [req EXCEPT ![n] =
               NewRequest(job[w].type, job[w].user, job[w].base, HandledTarget(job[w]),
                          "handler")]
          /\ job' = [job EXCEPT ![w].pc = "close", ![w].accept = {n}]
    BY <1>8 DEF CreateHandled
  <2>2. n = r /\ req'[r] = NewRequest(job[w].type, job[w].user, job[w].base,
                                      HandledTarget(job[w]), "handler")
    BY <1>4, <2>1
  <2>3. job'[w].accept = {r}
    BY <2>1, <2>2 DEF TypeOK, Job
  <2>4. QED
    BY <1>3, <1>5, <1>8, <2>2, <2>3
<1>9. QED
  BY <1>2, <1>6, <1>7, <1>8 DEF Inserts

LEMMA HandlerDue ==
    ASSUME TypeOK, NEW w \in Worker, JobGrants(job[w], req, held),
           DueJob(job[w]), Handler(w)
    PROVE  DueJob(job[w])'
<1>1. GoesOn(w)
  BY HandlerGoesOn
<1>2. CASE job'[w].pc \in Free
  BY <1>2 DEF DueJob, Free, SshPC
<1>3. CASE job'[w].pc \in SshPC
  BY <1>1, <1>3 DEF GoesOn, DueJob, SshPC, Free
<1>4. CASE job'[w].pc = "readAccept" /\ job[w].type = "orphan"
  <2>1. Verify(w) /\ job'[w].base = job[w].base
    BY <1>1, <1>4 DEF GoesOn, Free, AdoptSet, At, JobGrants
  <2>2. job[w].pc = "verify" /\ job'[w].pc # "refused" /\ req' = req
    BY <1>4, <2>1 DEF Verify, At, dbVars
  <2>3. HasDueOrphanRequest(job[w].base)
    BY <2>1, <2>2, FinishMoves DEF Verify, Free
  <2>4. \A b : HasDueOrphanRequest(b)' = HasDueOrphanRequest(b)
    BY <2>2 DEF HasDueOrphanRequest, Pending, Filed
  <2>5. QED
    BY <1>4, <2>1, <2>3, <2>4 DEF DueJob, SshPC
<1>5. CASE job'[w].pc = "readReject" /\ job[w].type = "orphan"
  <2>1. ReadAccept(w)
    BY <1>1, <1>5 DEF GoesOn, Free
  <2>2. job[w].pc = "readAccept" /\ job[w].base \in Base
    BY <2>1, BusyType DEF ReadAccept, At, Free
  <2> DEFINE accept == Acceptable(job[w])
  <2>3. job'[w].accept = accept
    BY <2>1 DEF ReadAccept, TypeOK, Job
  <2>4. HasDueOrphanRequest(job[w].base)
    BY <1>5, <2>2 DEF DueJob
  <2>5. accept # {}
    BY <1>5, <2>4 DEF Acceptable, HasDueOrphanRequest
  <2> HIDE DEF accept
  <2>6. QED
    BY <1>5, <2>3, <2>5 DEF DueJob, SshPC
<1>6. CASE job'[w].pc = "create"
  <2>1. ReadReject(w)
    BY <1>1, <1>6 DEF GoesOn, Free
  <2>2. job[w].pc = "readReject" /\ job'[w].type = job[w].type
    BY <1>1, <1>6, <2>1 DEF ReadReject, At, GoesOn, Free
  <2>3. job[w].accept = {}
    <3> DEFINE reject == Pending(job[w].type, job[w].base) \ job[w].accept
               pc == IF job[w].accept = {} THEN "create" ELSE "close"
    <3>1. job'[w].pc = pc
      BY <2>1 DEF ReadReject, TypeOK, Job
    <3>2. QED
      BY <1>6, <3>1
  <2>4. job[w].type # "orphan"
    BY <2>2, <2>3 DEF DueJob
  <2>5. QED
    BY <1>6, <2>2, <2>4 DEF DueJob, SshPC
<1>7. CASE job'[w].pc \notin Free \cup SshPC \cup {"create"}
           /\ (job'[w].pc \in {"readAccept", "readReject"} => job[w].type # "orphan")
  BY <1>1, <1>7 DEF GoesOn, DueJob
<1>8. QED
  BY <1>2, <1>3, <1>4, <1>5, <1>6, <1>7

LEMMA DueNext ==
    ASSUME OneWorker, "close" \notin Ops, TypeOK, Granting, Due,
           [Next]_vars, NEW w \in Worker
    PROVE  Due'
<1>1. SweepsAdoptions'
  BY SweepNext DEF Due
<1>2. OrphansAreFiled'
  <2>1. ASSUME NEW r \in ReqId, req'[r] # NoReq, req'[r].type = "orphan",
               req'[r].origin = "handler"
        PROVE  FALSE
    <3>1. CASE req[r] # NoReq
      BY <2>1, <3>1, NextRowsStay DEF RowsStay, SameRow, Due, OrphansAreFiled
    <3>2. CASE req[r] = NoReq
      <4>1. CreateHandled(w) /\ job[w].type = "orphan"
        BY <2>1, <3>2, HandlerRows DEF OneWorker
      <4>2. QED
        BY <4>1 DEF CreateHandled, At, Due, DueJob
    <3>3. QED
      BY <3>1, <3>2
  <2>2. QED
    BY <2>1 DEF OrphansAreFiled
<1>3. JobGrants(job[w], req, held) /\ DueJob(job[w]) /\ SweepsAdoptions
  BY DEF Granting, Due
<1>4. DueJob(job[w])'
  <2>1. CASE Called(w)
    <3>1. PICK u, b : Fresh(job'[w], u, b)
      BY <2>1, CalledIsFresh DEF Starts
    <3>2. QED
      BY <3>1 DEF Fresh, DueJob, SshPC
  <2>2. CASE Elsewhere /\ job' = job
    <3>1. \A b : HasDueOrphanRequest(b) => HasDueOrphanRequest(b)'
      BY <1>3, <2>2, DueStays
    <3>2. QED
      BY <1>3, <2>2, <3>1 DEF DueJob
  <2>3. CASE Crash(w)
    BY <2>3, FinishMoves DEF Crash, Free, DueJob, SshPC
  <2>4. CASE Deadlock(w)
    <3>1. PICK pc \in RetryPoints(job[w]) :
            job' = [job EXCEPT ![w].pc = pc, ![w].retried = HasAccepted(job[w])]
      BY <2>4 DEF Deadlock
    <3>2. job'[w].pc = pc /\ job'[w].type = job[w].type
      BY <3>1 DEF TypeOK, Job
    <3>3. /\ pc \notin SshPC \cup {"readReject", "create"}
          /\ pc = "readAccept" => job[w].type # "orphan"
      BY <3>1 DEF RetryPoints, HandleStart, SshPC
    <3>4. QED
      BY <3>2, <3>3 DEF DueJob
  <2>5. CASE Handler(w)
    BY <1>3, <2>5, HandlerDue
  <2>6. QED
    BY <2>1, <2>2, <2>3, <2>4, <2>5, AloneSteps
<1>5. QED
  BY <1>1, <1>2, <1>4 DEF Due, OneWorker

LEMMA OrphaningStep ==
    ASSUME OneWorker, TypeOK, Tracked, Granting, Due, [Next]_vars,
           NEW b \in exists', maintainer[b] # Nobody, maintainer'[b] = Nobody
    PROVE  \/ \E w \in Worker :
                /\ job'[w] # job[w]
                /\ job[w].op = "sshDisown" \/ <<b, job[w].user>> \in held
           \/ \E r \in everAccepted' :
                /\ req[r].type = "orphan"
                /\ req[r].name = b
                /\ req[r].origin # "handler"
<1>1. PICK w \in Worker : Handler(w)
  <2>1. ASSUME NEW w \in Worker, Called(w) \/ Crash(w) \/ Deadlock(w)
        PROVE  maintainer' = maintainer
    BY <2>1, CalledKeepsTables DEF dbVars
  <2>2. QED
    BY <2>1, ElsewhereKeeps DEF Next, Elsewhere
<1>2. JobGrants(job[w], req, held) /\ JobTracked(job[w], req, everAccepted)
      /\ DueJob(job[w]) /\ OrphansAreFiled
  BY DEF Granting, Tracked, Due
<1>3. ASSUME NEW c, NEW u, SetMaintainer(c, u) PROVE b = c /\ maintainer'[b] = u
  BY <1>3 DEF SetMaintainer, TypeOK
<1>4. CASE AutoOrphan(w)
  <2>1. /\ job[w].pc = "autoOrphan"
        /\ job[w].base = b
        /\ job[w].ids \subseteq everAccepted'
    BY <1>3, <1>4 DEF AutoOrphan, At
  <2>2. QED
    BY <1>2, <2>1 DEF JobGrants, OrphansAreFiled
<1>5. CASE DisownOwner(w)
  <2>1. job[w].pc = "disownOwner" /\ job'[w].pc = "done" /\ job[w].base = b
    BY <1>3, <1>5, FinishMoves DEF DisownOwner, At, Free
  <2>2. QED
    BY <1>2, <2>1 DEF JobGrants
<1>6. CASE DisownFinish(w)
  <2>1. job[w].pc = "disownFinish" /\ job[w].base = b
        /\ everAccepted' = everAccepted
    BY <1>3, <1>6 DEF DisownFinish, At
  <2>2. job[w].type = "orphan" /\ \E r \in everAccepted : Matches(r, job[w], req)
    BY <1>2, <2>1 DEF JobGrants, JobTracked, ActPC
  <2>3. QED
    BY <1>2, <2>1, <2>2 DEF Matches, OrphansAreFiled
<1>7. CASE SshMaint(w)
  <2>1. job[w].pc = "sshMaint" /\ job'[w].pc = "done"
    BY <1>7, FinishMoves DEF SshMaint, At, Free
  <2>2. QED
    BY <1>2, <2>1 DEF DueJob, SshPC
<1>8. CASE AdoptSet(w)
  <2>1. job[w].newm \in User
    BY <1>2, <1>8 DEF AdoptSet, At, JobGrants
  <2>2. QED
    BY <1>3, <1>8, <2>1 DEF AdoptSet
<1>9. CASE PushSave(w)
  BY <1>3, <1>9 DEF PushSave, PushedMaintainer
<1>10. CASE DeleteFinish(w) \/ MergeDelete(w)
  BY <1>10 DEF DeleteFinish, MergeDelete, DeleteBase, TypeOK
<1>11. CASE FileCreate(w) \/ FileAuto(w) \/ AdoptCreate(w) \/ DisownRole(w)
            \/ DisownCo(w) \/ MergeMove(w) \/ Verify(w) \/ ReadAccept(w)
  BY <1>11 DEF FileCreate, FileAuto, AdoptCreate, DisownRole, DisownCo,
     MergeMove, Verify, ReadAccept, dbVars
<1>12. CASE ReadReject(w) \/ CreateHandled(w) \/ Close(w) \/ SshClose(w)
            \/ SshRead(w) \/ SshComaints(w) \/ BaseGone(w)
  BY <1>12 DEF ReadReject, CreateHandled, Close, SshClose, SshRead,
     SshComaints, BaseGone, dbVars
<1>13. QED
  BY <1>1, <1>4, <1>5, <1>6, <1>7, <1>8, <1>9, <1>10, <1>11, <1>12 DEF Handler

LEMMA SpecDue ==
    ASSUME OneWorker, "close" \notin Ops
    PROVE  Spec => []Due
<1>1. Init => Due
  BY DEF Init, Due, OrphansAreFiled, SweepsAdoptions, DueJob, IdleJob, SshPC
<1>2. PICK w : w \in Worker
  BY DEF OneWorker
<1>3. TypeOK /\ Granting /\ Due /\ [Next]_vars => Due'
  BY <1>2, DueNext
<1>4. QED
  BY <1>1, <1>3, SpecGranting, PTL DEF Spec

\* "No due existing orphan requests to accept": a worker that runs alone
\* orphans somebody else's base only against an orphan request that a user has
\* filed, as verify_orphan_request demands, also where the transaction is
\* retried and where `disown` dies in between.  (Nobody closes requests by hand
\* here: a request closed between verify_orphan_request and handle_request is
\* replaced by one that handle_request inserts.)
THEOREM OrphaningIsAsked ==
    ASSUME OneWorker, "close" \notin Ops
    PROVE  Spec => OrphaningNeedsARequest
<1>1. TypeOK /\ Tracked /\ Granting /\ Due /\ [Next]_vars =>
        [\A b \in exists' :
           maintainer[b] # Nobody /\ maintainer'[b] = Nobody =>
             \/ \E w \in Worker :
                   /\ job'[w] # job[w]
                   /\ job[w].op = "sshDisown" \/ <<b, job[w].user>> \in held
             \/ \E r \in everAccepted' :
                   /\ req[r].type = "orphan"
                   /\ req[r].name = b
                   /\ req[r].origin # "handler"]_vars
  BY OrphaningStep
<1>2. QED
  BY <1>1, SpecDue, SpecGranting, PTL DEF Spec, OrphaningNeedsARequest

-----------------------------------------------------------------------------
(* One worker that is not killed closes what handle_request has inserted.   *)

Handled ==
    {r \in ReqId : /\ req[r] # NoReq
                   /\ req[r].origin = "handler"
                   /\ req[r].status = "pending"}

HandledJob(j) ==
    /\ j.pc \notin Free => j.base \in exists
    /\ j.pc = "verify" => j.type = "orphan"
    /\ j.pc = "create" => Handled \subseteq j.reject
    /\ j.pc = "close" => Handled \subseteq j.accept \cup j.reject
    /\ \A r \in Handled : /\ j.pc \in HandlePC \cup {"disownRole"}
                          /\ req[r].name = j.base
                          /\ req[r].type = j.type
                          /\ req[r].linked

LEMMA LinksStay ==
    ASSUME TypeOK, [Next]_vars, exists' = exists, NEW r \in ReqId, req[r] # NoReq
    PROVE  req'[r].linked = req[r].linked
<1>1. ASSUME NEW S, NEW s \in Status PROVE Closed(S, s)[r].linked = req[r].linked
  <2>1. req[r] \in Request
    BY DEF TypeOK
  <2>2. [req[r] EXCEPT !.status = s].linked = req[r].linked
    BY <2>1 DEF Request
  <2>3. QED
    BY <2>2 DEF Closed
<1>2. ASSUME NEW w \in Worker, Handler(w) PROVE req'[r].linked = req[r].linked
  <2>1. ~DeleteFinish(w) /\ ~MergeDelete(w)
    BY DEF DeleteFinish, MergeDelete, DeleteBase, HasRow
  <2>2. CASE FileCreate(w) \/ AdoptCreate(w) \/ CreateHandled(w)
    BY <2>2 DEF FileCreate, AdoptCreate, CreateHandled, Filed, TypeOK
  <2>3. CASE AutoOrphan(w) \/ SshClose(w)
    BY <1>1, <2>3 DEF AutoOrphan, SshClose, Status
  <2>4. CASE Close(w)
    BY <1>1, <2>4 DEF Close, Status
  <2>5. CASE FileAuto(w) \/ AdoptSet(w) \/ DisownRole(w) \/ DisownOwner(w)
             \/ DisownCo(w) \/ DisownFinish(w) \/ MergeMove(w)
    BY <2>5 DEF FileAuto, AdoptSet, DisownRole, DisownOwner, DisownCo,
       DisownFinish, MergeMove, dbVars
  <2>6. CASE Verify(w) \/ ReadAccept(w) \/ ReadReject(w) \/ SshRead(w)
             \/ SshComaints(w) \/ SshMaint(w) \/ PushSave(w) \/ BaseGone(w)
    BY <2>6 DEF Verify, ReadAccept, ReadReject, SshRead, SshComaints,
       SshMaint, PushSave, BaseGone, dbVars
  <2>7. QED
    BY <1>2, <2>1, <2>2, <2>3, <2>4, <2>5, <2>6 DEF Handler
<1>3. ASSUME NEW w \in Worker, Called(w) \/ Crash(w) \/ Deadlock(w)
      PROVE  req'[r].linked = req[r].linked
  BY <1>3, CalledKeepsTables DEF dbVars
<1>4. CASE OneStep
  BY <1>1, <1>4 DEF OneStep, CloseRequest, SetComaintainers, Flag, Status
<1>5. CASE Sweep
  BY <1>1, <1>5 DEF Sweep, SweepRead, SweepWrite, SweepFail, Status, dbVars
<1>6. CASE Time
  <2>1. req[r] \in Request
    BY DEF TypeOK
  <2>2. [req[r] EXCEPT !.due = TRUE].linked = req[r].linked
    BY <2>1 DEF Request
  <2>3. ASSUME NEW q \in ReqId, RequestDue(q) PROVE req'[r].linked = req[r].linked
    BY <2>2, <2>3 DEF RequestDue, TypeOK
  <2>4. QED
    BY <1>6, <2>3 DEF Time, FlagAges, BaseAges
<1>7. CASE UNCHANGED vars
  BY <1>7 DEF vars, dbVars
<1>8. QED
  BY <1>2, <1>3, <1>4, <1>5, <1>6, <1>7 DEF Next

LEMMA HandledShrinks ==
    ASSUME TypeOK, [Next]_vars
    PROVE  \A r \in Handled' :
             \/ r \in Handled /\ SameRow(req'[r], req[r])
             \/ \E w \in Worker : /\ CreateHandled(w)
                                  /\ req'[r].type = job[w].type
                                  /\ req'[r].name = job[w].base
                                  /\ req'[r].linked
                                  /\ job'[w].accept = {r}
<1>1. ASSUME NEW r \in Handled', req[r] # NoReq
      PROVE  r \in Handled /\ SameRow(req'[r], req[r])
  <2>1. r \in ReqId /\ req'[r].status = "pending" /\ req'[r].origin = "handler"
    BY <1>1 DEF Handled
  <2>2. req[r] \in Request /\ req'[r] \in Touched(req[r])
    BY <1>1, <2>1, NextTouches DEF TypeOK, RowsTouched
  <2>3. SameRow(req'[r], req[r]) /\ req[r].status = "pending"
    BY <2>1, <2>2, TouchedIsSame
  <2>4. QED
    BY <1>1, <2>1, <2>3 DEF Handled, SameRow
<1>2. QED
  BY <1>1, HandlerRows DEF Handled

\* Where nothing is left to close.
LEMMA NothingHandled ==
    ASSUME NEW w \in Worker, Handled' = {},
           job'[w].pc \notin Free => job'[w].base \in exists',
           job'[w].pc = "verify" => job'[w].type = "orphan"
    PROVE  HandledJob(job[w])'
  BY DEF HandledJob

LEMMA HandlerHandled ==
    ASSUME OneWorker, TypeOK, NEW w \in Worker, OrphansAreFiled,
           JobGrants(job[w], req, held), CommentedJob(job[w]),
           HandledJob(job[w]), Handler(w), [Next]_vars
    PROVE  HandledJob(job[w])'
<1> DEFINE j == job[w]
<1>1. GoesOn(w)
  BY HandlerGoesOn
<1>2. j.pc \notin Free /\ j.base \in exists
  <2>1. j.pc \notin Free
    <3>1. CASE FileCreate(w) \/ FileAuto(w) \/ AutoOrphan(w) \/ AdoptSet(w)
               \/ AdoptCreate(w) \/ DisownRole(w) \/ DisownOwner(w)
               \/ DisownCo(w) \/ DisownFinish(w) \/ DeleteFinish(w)
      BY <3>1 DEF FileCreate, FileAuto, AutoOrphan, AdoptSet, AdoptCreate,
         DisownRole, DisownOwner, DisownCo, DisownFinish, DeleteFinish, At, Free
    <3>2. CASE MergeMove(w) \/ MergeDelete(w) \/ Verify(w) \/ ReadAccept(w)
               \/ ReadReject(w) \/ CreateHandled(w) \/ Close(w)
      BY <3>2 DEF MergeMove, MergeDelete, Verify, ReadAccept, ReadReject,
         CreateHandled, Close, At, Free
    <3>3. CASE SshClose(w) \/ SshRead(w) \/ SshComaints(w) \/ SshMaint(w)
               \/ PushSave(w) \/ BaseGone(w)
      BY <3>3 DEF SshClose, SshRead, SshComaints, SshMaint, PushSave,
         BaseGone, At, Free
    <3>4. QED
      BY <3>1, <3>2, <3>3 DEF Handler
  <2>2. QED
    BY <2>1 DEF HandledJob
<1>3. \A r \in Handled' :
        \/ r \in Handled /\ SameRow(req'[r], req[r])
        \/ /\ CreateHandled(w)
           /\ req'[r].type = j.type
           /\ req'[r].name = j.base
           /\ req'[r].linked
           /\ job'[w].accept = {r}
  BY HandledShrinks DEF OneWorker
<1>4. job'[w].pc = "verify" => job'[w].type = "orphan"
  BY <1>1 DEF GoesOn, Free, DisownRole, At, JobGrants
<1>5. CASE exists' # exists
  <2>1. DeleteFinish(w) \/ MergeDelete(w)
    BY <1>5, DeletingStep DEF OneWorker
  <2>2. j.pc \in {"deleteFinish", "mergeDelete"} /\ job'[w].pc = "done"
    BY <2>1, FinishMoves DEF DeleteFinish, MergeDelete, At, Free
  <2>3. Handled = {}
    BY <2>2 DEF HandledJob, HandlePC
  <2>4. Handled' = {}
    BY <1>3, <2>2, <2>3 DEF CreateHandled, At
  <2>5. QED
    BY <2>2, <2>4, NothingHandled DEF Free
<1>6. CASE exists' = exists /\ Handled' = {}
  <2>1. job'[w].pc \notin Free => job'[w].base \in exists'
    BY <1>1, <1>2, <1>6 DEF GoesOn
  <2>2. QED
    BY <1>4, <1>6, <2>1, NothingHandled
<1>7. CASE exists' = exists /\ CreateHandled(w)
  <2>1. PICK n : job' = [job EXCEPT ![w].pc = "close", ![w].accept = {n}]
    BY <1>7 DEF CreateHandled
  <2>2. /\ job'[w].pc = "close"
        /\ job'[w].base = j.base
        /\ job'[w].type = j.type
        /\ job'[w].reject = j.reject
    BY <2>1 DEF TypeOK, Job
  <2>3. j.pc = "create" /\ Handled \subseteq j.reject
    BY <1>7 DEF CreateHandled, At, HandledJob
  <2>4. ASSUME NEW r \in Handled'
        PROVE  /\ r \in job'[w].accept \cup job'[w].reject
               /\ req'[r].name = job'[w].base
               /\ req'[r].type = job'[w].type
               /\ req'[r].linked
    <3>1. r \in ReqId /\ req'[r] # NoReq
      BY DEF Handled
    <3>2. CASE r \in Handled /\ SameRow(req'[r], req[r])
      BY <1>7, <2>2, <2>3, <3>2, LinksStay DEF Handled, HandledJob, SameRow
    <3>3. QED
      BY <1>3, <2>2, <3>2
  <2>5. QED
    BY <1>2, <1>7, <2>2, <2>4 DEF HandledJob, HandlePC
<1>8. CASE exists' = exists /\ Handled' # {} /\ ~CreateHandled(w)
  <2>1. \A r \in Handled' : r \in Handled /\ SameRow(req'[r], req[r])
    BY <1>3, <1>8
  <2>2. PICK h : h \in Handled' /\ h \in Handled /\ SameRow(req'[h], req[h])
    BY <1>8, <2>1
  <2>3. j.pc \in HandlePC \cup {"disownRole"} /\ req[h].type = j.type
    BY <2>2 DEF HandledJob
  <2>4. j.type # "orphan"
    BY <2>2, <2>3 DEF OrphansAreFiled, Handled
  <2>5. j.pc \notin {"disownRole", "verify"}
    BY <2>4 DEF JobGrants, HandledJob
  <2>6. \A r \in Handled' : /\ req'[r].name = j.base
                            /\ req'[r].type = j.type
                            /\ req'[r].linked
    BY <1>8, <2>1, LinksStay DEF Handled, HandledJob, SameRow
  <2>7. CASE ReadAccept(w)
    <3>1. job'[w].pc = "readReject" /\ job'[w].base = j.base
          /\ job'[w].type = j.type
      BY <2>7 DEF ReadAccept, TypeOK, Job
    <3>2. QED
      BY <1>2, <1>8, <2>6, <3>1 DEF HandledJob, HandlePC
  <2>8. CASE ReadReject(w)
    <3> DEFINE pc == IF j.accept = {} THEN "create" ELSE "close"
               reject == Pending(j.type, j.base) \ j.accept
    <3>1. job'[w].pc = pc /\ job'[w].base = j.base /\ job'[w].type = j.type
          /\ job'[w].accept = j.accept /\ job'[w].reject = reject
      BY <2>8 DEF ReadReject, TypeOK, Job
    <3>2. Handled \subseteq Pending(j.type, j.base)
      BY DEF HandledJob, Handled, Pending, Filed
    <3>3. Handled \subseteq j.accept \cup reject
          /\ (pc = "create" => Handled \subseteq reject)
      BY <3>2
    <3>4. pc \in {"create", "close"}
      OBVIOUS
    <3> HIDE DEF pc, reject
    <3>5. QED
      BY <1>2, <1>8, <2>1, <2>6, <3>1, <3>3, <3>4 DEF HandledJob, HandlePC
  <2>9. CASE Close(w)
    <3>1. j.pc = "close" /\ CanReject(j)
      BY <2>9 DEF Close, At, CommentedJob
    <3>2. h \in j.accept \cup j.reject /\ h \in ReqId /\ req[h] \in Request
      BY <2>2, <3>1 DEF HandledJob, Handled, TypeOK
    <3>3. \A s \in {"accepted", "rejected"} :
            [req[h] EXCEPT !.status = s].status = s
      BY <3>2 DEF Request
    <3>4. req'[h].status \in {"accepted", "rejected"}
      BY <2>2, <2>9, <3>1, <3>2, <3>3 DEF Close, Closed, Handled
    <3>5. QED
      BY <2>2, <3>4 DEF Handled
  <2>10. CASE BaseGone(w)
    BY <1>2, <2>10 DEF BaseGone, HasRow
  <2>11. QED
    <3>1. ~(FileCreate(w) \/ FileAuto(w) \/ AutoOrphan(w) \/ AdoptSet(w)
            \/ AdoptCreate(w) \/ DisownRole(w) \/ DisownOwner(w)
            \/ DisownCo(w) \/ DisownFinish(w) \/ DeleteFinish(w))
      BY <2>3, <2>5 DEF FileCreate, FileAuto, AutoOrphan, AdoptSet,
         AdoptCreate, DisownRole, DisownOwner, DisownCo, DisownFinish,
         DeleteFinish, At, HandlePC
    <3>2. ~(MergeMove(w) \/ MergeDelete(w) \/ Verify(w) \/ SshClose(w)
            \/ SshRead(w) \/ SshComaints(w) \/ SshMaint(w) \/ PushSave(w))
      BY <2>3, <2>5 DEF MergeMove, MergeDelete, Verify, SshClose, SshRead,
         SshComaints, SshMaint, PushSave, At, HandlePC
    <3>3. QED
      BY <1>8, <2>7, <2>8, <2>9, <2>10, <3>1, <3>2 DEF Handler
<1>9. QED
  BY <1>5, <1>6, <1>7, <1>8

LEMMA HandledNext ==
    ASSUME OneWorker, "crash" \notin Faults, TypeOK, NEW w \in Worker,
           OrphansAreFiled, JobGrants(job[w], req, held), CommentedJob(job[w]),
           HandledJob(job[w]), [Next]_vars
    PROVE  HandledJob(job[w])'
<1>1. ASSUME exists' = exists, ~CreateHandled(w), NEW r \in Handled'
      PROVE  r \in Handled /\ SameRow(req'[r], req[r]) /\ req'[r].linked
  <2>1. r \in Handled /\ SameRow(req'[r], req[r])
    BY <1>1, HandledShrinks DEF OneWorker
  <2>2. req[r].linked /\ r \in ReqId /\ req[r] # NoReq
    BY <2>1 DEF HandledJob, Handled
  <2>3. QED
    BY <1>1, <2>1, <2>2, LinksStay
<1>2. CASE Called(w)
  <2>1. PICK u \in User, b \in exists : Fresh(job'[w], u, b)
    BY <1>2, CalledIsFresh DEF Starts
  <2>2. job[w].pc \in Free /\ UNCHANGED <<req, exists>>
    BY <1>2, CalledIsFresh, CalledKeepsTables DEF Starts, dbVars
  <2>3. Handled' = {}
    BY <2>2 DEF HandledJob, Handled, Free, HandlePC
  <2>4. job'[w].base = b /\ job'[w].pc # "verify"
    BY <2>1 DEF Fresh
  <2>5. QED
    BY <2>1, <2>2, <2>3, <2>4, NothingHandled
<1>3. CASE Elsewhere /\ job' = job
  <2>1. exists' = exists
    BY <1>3, ElsewhereKeeps
  <2>2. ASSUME NEW r \in Handled'
        PROVE  r \in Handled /\ SameRow(req'[r], req[r]) /\ req'[r].linked
    <3>1. req[r] # NoReq /\ r \in ReqId
      BY <1>3, ElsewhereKeeps DEF Handled, NoNewRow, Filed
    <3>2. r \in Handled
      <4>1. req[r] \in Request /\ req'[r] \in Touched(req[r])
        BY <3>1, NextTouches DEF TypeOK, RowsTouched
      <4>2. QED
        BY <3>1, <4>1, TouchedIsSame DEF Handled, SameRow
    <3>3. SameRow(req'[r], req[r])
      BY <3>1, NextRowsStay DEF RowsStay
    <3>4. req'[r].linked
      BY <2>1, <3>1, <3>2, LinksStay DEF HandledJob
    <3>5. QED
      BY <3>2, <3>3, <3>4
  <2>3. QED
    BY <1>3, <2>1, <2>2 DEF HandledJob, SameRow
<1>4. CASE Deadlock(w)
  <2>1. PICK pc \in RetryPoints(job[w]) :
          job' = [job EXCEPT ![w].pc = pc, ![w].retried = HasAccepted(job[w])]
    BY <1>4 DEF Deadlock
  <2>2. /\ job'[w].pc = pc
        /\ job'[w].base = job[w].base
        /\ job'[w].type = job[w].type
        /\ job'[w].accept = job[w].accept
        /\ job'[w].reject = job[w].reject
    BY <2>1 DEF TypeOK, Job
  <2>3. UNCHANGED <<req, exists>>
    BY <1>4, CalledKeepsTables DEF dbVars
  <2>4. Handled' = Handled
    BY <2>3 DEF Handled
  <2>5. /\ job[w].pc \notin Free
        /\ pc # "create"
        /\ pc = "close" => job[w].pc = "close"
        /\ pc = "verify" => job[w].type = "orphan"
        /\ \/ pc \in {"close", "verify", "readAccept", "disownRole"}
           \/ job[w].pc \notin HandlePC \cup {"disownRole"}
    BY <2>1 DEF RetryPoints, HandleStart, Free, HandlePC
  <2>6. QED
    BY <2>2, <2>3, <2>4, <2>5 DEF HandledJob, HandlePC
<1>5. CASE Handler(w)
  BY <1>5, HandlerHandled
<1>6. QED
  BY <1>2, <1>3, <1>4, <1>5, AloneSteps DEF Crash

\* handle_request leaks no record: a request that it inserts for an action that
\* nobody asked for is pending only while the same handler is still at work on
\* it, through every retry of its transactions, as long as one worker runs, no
\* process is killed and nobody closes requests by hand.
THEOREM HandledAreClosed ==
    ASSUME OneWorker, "close" \notin Ops, "crash" \notin Faults
    PROVE  Spec => []AutogeneratedIsClosed
<1> DEFINE Closing == \A w \in Worker : CommentedJob(job[w]) /\ HandledJob(job[w])
<1>1. Init => Closing
  BY DEF Init, CommentedJob, HandledJob, Handled, IdleJob, Free
<1>2. TypeOK /\ Granting /\ Due /\ Closing /\ [Next]_vars => Closing'
  <2> SUFFICES ASSUME TypeOK, Granting, Due, Closing, [Next]_vars, NEW w \in Worker
               PROVE  CommentedJob(job[w])' /\ HandledJob(job[w])'
    OBVIOUS
  <2>1. CommentedJob(job[w]) /\ HandledJob(job[w]) /\ OrphansAreFiled
        /\ JobGrants(job[w], req, held)
    BY DEF Granting, Due
  <2>2. QED
    BY <2>1, CommentedNext, HandledNext
<1>3. Closing => AutogeneratedIsClosed
  BY DEF HandledJob, Handled, AutogeneratedIsClosed, Filed, OneWorker
<1> HIDE DEF Closing
<1>4. QED
  BY <1>1, <1>2, <1>3, SpecDue, SpecGranting, PTL DEF Spec

=============================================================================

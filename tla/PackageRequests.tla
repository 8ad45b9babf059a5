-------------------------- MODULE PackageRequests --------------------------
(***************************************************************************)
(* Package requests and package base ownership in aurweb.                  *)
(*                                                                         *)
(* A user files a deletion, merge, orphan or adoption request about a      *)
(* package base; a Package Maintainer or Developer (an elevated user)      *)
(* performs the action, and handle_request closes the matching requests    *)
(* on the way.  The same ownership columns are written by owners who       *)
(* disown a base, by SSH commands, by pushes and by the cron job           *)
(* aurweb-requestmaint.                                                    *)
(*                                                                         *)
(* Every web worker is a process with one database session: a handler runs *)
(* alone inside its process, but its transactions and its autocommitted    *)
(* reads interleave with those of the other workers, of SSH sessions and   *)
(* of cron.  An action below is one transaction, or the reads a handler    *)
(* makes before its next transaction; job[w] is what the handler of worker *)
(* w holds in its local variables between two of them.                     *)
(*                                                                         *)
(* An operator whose name ends in _Bug is the definition that follows it,  *)
(* with a mistake that the properties at the end have to catch.  Nothing   *)
(* uses it.                                                                *)
(***************************************************************************)
EXTENDS Naturals, FiniteSets

CONSTANTS
    User,       \* accounts
    Elevated,   \* accounts of type Package Maintainer or Developer
    Base,       \* rows of PackageBases (a base uploaded again is a new row)
    ReqId,      \* rows PackageRequests can have (a bound)
    Worker,     \* web workers and SSH sessions
    Nobody,     \* NULL in a user column
    NoReq,      \* a PackageRequests row that has not been inserted
    NoBase,     \* the absence of a merge target
    Ops,        \* the handlers that run, and the types of request that are
                \* filed by form, in this instance
    Faults      \* the faults of this instance: "crash", "deadlock"

ASSUME ElevatedAssumption == Elevated \subseteq User
ASSUME NobodyAssumption   == Nobody \notin User
ASSUME NoBaseAssumption   == NoBase \notin Base

RequestType == {"deletion", "merge", "orphan", "adoption"}
Status      == {"pending", "accepted", "rejected"}

\* "form", "adopt" and "ssh" are filed by a user; "handler" is the row that
\* handle_request inserts when it finds none to accept.
Origin == {"form", "adopt", "ssh", "handler"}

Request ==
    [type : RequestType, user : User, name : Base, linked : BOOLEAN,
     into : Base \cup {NoBase}, status : Status, origin : Origin,
     due : BOOLEAN]

ASSUME NoReqAssumption == NoReq \notin Request

\* A handler that is over has returned, has turned its user down, or has died
\* of an exception (the response is a 500) or with its process.
Free == {"done", "refused", "failed"}

HandlePC == {"verify", "readAccept", "readReject", "create", "close"}

PC == Free \cup HandlePC \cup
      {"fileCreate", "fileAuto", "autoOrphan", "adoptCreate", "adoptSet",
       "disownRole", "disownOwner", "disownCo", "disownFinish",
       "deleteFinish", "mergeMove", "mergeDelete",
       "sshClose", "sshRead", "sshComaints", "sshMaint", "pushSave"}

Op == {"none", "file", "adopt", "sshAdopt", "disown", "sshDisown", "delete",
       "merge", "push"}

Job ==
    [op : Op, pc : PC, type : RequestType, user : User \cup {Nobody},
     base : Base \cup {NoBase}, into : Base \cup {NoBase},
     newm : User \cup {Nobody}, seen : User \cup {Nobody},
     rest : SUBSET User, ids : SUBSET ReqId,
     accept : SUBSET ReqId, reject : SUBSET ReqId,
     retried : BOOLEAN]  \* run again after it has accepted a request

VARIABLES
    exists,      \* rows of PackageBases
    maintainer,  \* PackageBases.MaintainerUID
    comaints,    \* PackageComaintainers, as a set of users per base
    flagged,     \* PackageBases.OutOfDateTS: NULL, recent, or past
                 \* auto_orphan_age
    young,       \* bases whose SubmittedTS is within auto_delete_age
    req,         \* PackageRequests
    job,         \* the handlers that are running
    sweep,       \* the rows a run of aurweb-requestmaint has read
    held,        \* history: who has ever been maintainer of what
    everAccepted \* history: the requests that were ever accepted

dbVars == <<exists, maintainer, comaints, flagged, young, req>>
vars   == <<dbVars, job, sweep, held, everAccepted>>

TypeOK ==
    /\ exists \subseteq Base
    /\ maintainer \in [Base -> User \cup {Nobody}]
    /\ comaints \in [Base -> SUBSET User]
    /\ flagged \in [Base -> {"no", "recent", "old"}]
    /\ young \subseteq Base
    /\ req \in [ReqId -> Request \cup {NoReq}]
    /\ job \in [Worker -> Job]
    /\ \A w \in Worker : job[w].pc \notin Free =>
         job[w].user \in User /\ job[w].base \in Base
    /\ sweep \subseteq ReqId
    /\ held \subseteq Base \X User
    /\ everAccepted \subseteq ReqId

IdleJob ==
    [op |-> "none", pc |-> "done", type |-> "adoption", user |-> Nobody,
     base |-> NoBase, into |-> NoBase, newm |-> Nobody, seen |-> Nobody,
     rest |-> {}, ids |-> {}, accept |-> {}, reject |-> {},
     retried |-> FALSE]

Init ==
    /\ exists = Base
    /\ maintainer \in [Base -> User \cup {Nobody}]
    /\ comaints \in [Base -> SUBSET User]
    /\ flagged = [b \in Base |-> "no"]
    /\ young \in SUBSET Base
    /\ req = [r \in ReqId |-> NoReq]
    /\ job = [w \in Worker |-> IdleJob]
    /\ sweep = {}
    /\ held = {<<b, maintainer[b]>> : b \in {c \in Base : maintainer[c] # Nobody}}
    /\ everAccepted = {}

-----------------------------------------------------------------------------
(* The request table. *)

Filed == {r \in ReqId : req[r] # NoReq}

\* Pending requests of a type whose PackageBaseID is still this base.
Pending(t, b) ==
    {r \in Filed : /\ req[r].type = t
                   /\ req[r].status = "pending"
                   /\ req[r].linked
                   /\ req[r].name = b}

NewRequest_Bug(t, u, b, m, o) == \* the base and its target exchanged
    [type |-> t, user |-> u, name |-> m, linked |-> TRUE, into |-> b,
     status |-> "pending", origin |-> o, due |-> FALSE]

NewRequest(t, u, b, m, o) ==
    [type |-> t, user |-> u, name |-> b, linked |-> TRUE, into |-> m,
     status |-> "pending", origin |-> o, due |-> FALSE]

\* The table with every request of S closed with a status, whatever its own
\* status has become since it was read: the UPDATE is by ID.
Closed(S, status) ==
    [r \in ReqId |-> IF r \in S /\ req[r] # NoReq
                     THEN [req[r] EXCEPT !.status = status]
                     ELSE req[r]]

\* validate.request, the adopt button and `adopt` over SSH: only an orphan,
\* and only when no adoption request is pending.
MayRequestAdoption_Bug(b) == maintainer[b] = Nobody

MayRequestAdoption(b) ==
    /\ maintainer[b] = Nobody
    /\ Pending("adoption", b) = {}

-----------------------------------------------------------------------------
(* Writing a maintainer and deleting a base. *)

SetMaintainer(b, u) ==
    /\ maintainer' = [maintainer EXCEPT ![b] = u]
    /\ held' = IF u = Nobody THEN held ELSE held \cup {<<b, u>>}

\* PackageComaintainers cascade; PackageRequests.PackageBaseID is set NULL.
DeleteBase(b) ==
    /\ exists' = exists \ {b}
    /\ maintainer' = [maintainer EXCEPT ![b] = Nobody]
    /\ comaints' = [comaints EXCEPT ![b] = {}]
    /\ flagged' = [flagged EXCEPT ![b] = "no"]
    /\ young' = young \ {b}
    /\ req' = [r \in ReqId |-> IF req[r] # NoReq /\ req[r].name = b
                               THEN [req[r] EXCEPT !.linked = FALSE]
                               ELSE req[r]]

-----------------------------------------------------------------------------
(* Handlers: starting one, moving it on, ending it. *)

Start(w, j) ==
    /\ job[w].pc \in Free
    /\ job' = [job EXCEPT ![w] = j]

Goto(w, pc) == job' = [job EXCEPT ![w].pc = pc]

\* The handler returns or raises; its local variables are gone.
Finish(w, outcome) ==
    job' = [job EXCEPT ![w] =
             [IdleJob EXCEPT !.pc = outcome,
                !.retried = outcome = "refused" /\ job[w].retried]]

At(w, pc) == job[w].pc = pc
HasRow(w) == job[w].base \in exists

\* A transaction on, or a reload of, a row of PackageBases that was deleted
\* meanwhile: a foreign key or a stale row error ends the handler.  (A push
\* then creates a new row, which is another base.)
BaseGone(w) ==
    /\ job[w].pc \in
            {"fileCreate", "fileAuto", "adoptCreate", "adoptSet",
             "disownRole", "disownOwner", "disownCo", "disownFinish",
             "create", "deleteFinish", "mergeMove", "mergeDelete",
             "sshComaints", "pushSave"}
    /\ ~HasRow(w)
    /\ Finish(w, "failed")
    /\ UNCHANGED <<dbVars, sweep, held, everAccepted>>

-----------------------------------------------------------------------------
(* POST /pkgbase/{name}/request *)

\* The form has a field for the target whatever the type is; validate.request
\* looks at it for a merge only.  (What names no base counts as NoBase.)
FileStart(w, u, b, t, m) ==
    /\ t \in Ops
    /\ b \in exists
    /\ t = "merge" => m \in exists \ {b}
    /\ t = "adoption" => MayRequestAdoption(b)
    /\ Start(w, [IdleJob EXCEPT !.op = "file", !.pc = "fileCreate",
                   !.type = t, !.user = u, !.base = b, !.into = m])
    /\ UNCHANGED <<dbVars, sweep, held, everAccepted>>

FileCreate(w) ==
    /\ At(w, "fileCreate")
    /\ HasRow(w)
    /\ \E r \in ReqId \ Filed :
         /\ req' = [req EXCEPT ![r] =
              NewRequest(job[w].type, job[w].user, job[w].base, job[w].into,
                         "form")]
         /\ IF job[w].type \in {"orphan", "deletion"}
            THEN job' = [job EXCEPT ![w].pc = "fileAuto", ![w].ids = {r}]
            ELSE Finish(w, "done")
    /\ UNCHANGED <<exists, maintainer, comaints, flagged, young, sweep, held,
                   everAccepted>>

\* Is the request accepted automatically?  The base is read again.
FileAuto(w) ==
    LET b == job[w].base
        orphanNow == job[w].type = "orphan" /\ flagged[b] = "old"
        deleteNow == /\ job[w].type = "deletion"
                     /\ maintainer[b] = job[w].user
                     /\ b \in young
    IN  /\ At(w, "fileAuto")
        /\ HasRow(w)
        /\ \/ /\ orphanNow
              /\ job' = [job EXCEPT ![w].pc = "autoOrphan",
                                    ![w].seen = maintainer[b]]
           \/ deleteNow /\ Goto(w, "readAccept")
           \/ ~orphanNow /\ ~deleteNow /\ Finish(w, "done")
        /\ UNCHANGED <<dbVars, sweep, held, everAccepted>>

\* Auto-orphan: co-maintainers stay.  A base that was read as orphan is not
\* part of the UPDATE; otherwise its row must still be there.
AutoOrphan(w) ==
    LET b == job[w].base
    IN  /\ At(w, "autoOrphan")
        /\ \/ /\ job[w].seen # Nobody /\ b \notin exists
              /\ Finish(w, "failed")
              /\ UNCHANGED <<maintainer, req, held, everAccepted>>
           \/ /\ job[w].seen = Nobody \/ b \in exists
              /\ IF job[w].seen = Nobody
                 THEN UNCHANGED <<maintainer, held>>
                 ELSE SetMaintainer(b, Nobody)
              /\ req' = Closed(job[w].ids, "accepted")
              /\ everAccepted' = everAccepted \cup job[w].ids
              /\ Finish(w, "done")
        /\ UNCHANGED <<exists, comaints, flagged, young, sweep>>

-----------------------------------------------------------------------------
(* POST /pkgbase/{name}/adopt, and `adopt` over SSH *)

\* An elevated user takes the base (accepting no request), or grants it to
\* the author of a request that is pending now.
AdoptStart(w, u, b) ==
    /\ "adopt" \in Ops
    /\ u \in Elevated
    /\ b \in exists
    /\ \E pick \in {<<u, {}>>} \cup
                   {<<req[r].user, {r}>> : r \in Pending("adoption", b)} :
         Start(w, [IdleJob EXCEPT !.op = "adopt", !.pc = "adoptSet",
                     !.type = "adoption", !.user = u, !.base = b,
                     !.newm = pick[1], !.ids = pick[2],
                     !.seen = maintainer[b]])
    /\ UNCHANGED <<dbVars, sweep, held, everAccepted>>

\* _retry_adopt: no UPDATE when the loaded row names the new maintainer.
AdoptSet(w) ==
    /\ At(w, "adoptSet")
    /\ HasRow(w)
    /\ IF job[w].seen = job[w].newm
       THEN UNCHANGED <<maintainer, held>>
       ELSE SetMaintainer(job[w].base, job[w].newm)
    /\ Goto(w, "readAccept")
    /\ UNCHANGED <<exists, comaints, flagged, young, req, sweep, everAccepted>>

\* Anyone else only files a request; over SSH elevated users do so, too.
RequestAdoption(w, u, b, o) ==
    /\ o \in Ops
    /\ o = "adopt" => u \notin Elevated
    /\ b \in exists
    /\ MayRequestAdoption(b)
    /\ Start(w, [IdleJob EXCEPT !.op = o, !.pc = "adoptCreate",
                   !.type = "adoption", !.user = u, !.base = b])
    /\ UNCHANGED <<dbVars, sweep, held, everAccepted>>

AdoptCreate(w) ==
    /\ At(w, "adoptCreate")
    /\ HasRow(w)
    /\ \E r \in ReqId \ Filed :
         req' = [req EXCEPT ![r] =
           NewRequest("adoption", job[w].user, job[w].base, NoBase,
                      IF job[w].op = "sshAdopt" THEN "ssh" ELSE "adopt")]
    /\ Finish(w, "done")
    /\ UNCHANGED <<exists, maintainer, comaints, flagged, young, sweep, held,
                   everAccepted>>

-----------------------------------------------------------------------------
(* POST /pkgbase/{name}/disown *)

DisownStart(w, u, b) ==
    /\ "disown" \in Ops
    /\ b \in exists
    /\ u \in Elevated \cup comaints[b] \/ u = maintainer[b]
    /\ Start(w, [IdleJob EXCEPT !.op = "disown", !.pc = "disownRole",
                   !.type = "orphan", !.user = u, !.base = b])
    /\ UNCHANGED <<dbVars, sweep, held, everAccepted>>

\* _retry_disown reads the role its user has now; with none, it does nothing.
DisownRole(w) ==
    LET u == job[w].user
        b == job[w].base
    IN  /\ At(w, "disownRole")
        /\ HasRow(w)
        /\ \/ u = maintainer[b] /\ Goto(w, "disownOwner")
           \/ u # maintainer[b] /\ u \in comaints[b] /\ Goto(w, "disownCo")
           \/ /\ u # maintainer[b] /\ u \notin comaints[b]
              /\ IF u \in Elevated THEN Goto(w, "verify")
                                  ELSE Finish(w, "done")
        /\ UNCHANGED <<dbVars, sweep, held, everAccepted>>

\* The first co-maintainer is promoted; which one is first is left open.
\* Promoting the maintainer that was read is no UPDATE of the base.
DisownOwner(w) ==
    LET b == job[w].base
    IN  /\ At(w, "disownOwner")
        /\ HasRow(w)
        /\ \/ /\ comaints[b] = {}
              /\ SetMaintainer(b, Nobody)
              /\ UNCHANGED comaints
           \/ \E c \in comaints[b] :
                /\ comaints' = [comaints EXCEPT ![b] = @ \ {c}]
                /\ IF c = job[w].user THEN UNCHANGED <<maintainer, held>>
                                      ELSE SetMaintainer(b, c)
        /\ Finish(w, "done")
        /\ UNCHANGED <<exists, flagged, young, req, sweep, everAccepted>>

DisownCo(w) ==
    /\ At(w, "disownCo")
    /\ HasRow(w)
    /\ comaints' = [comaints EXCEPT ![job[w].base] = @ \ {job[w].user}]
    /\ Finish(w, "done")
    /\ UNCHANGED <<exists, maintainer, flagged, young, req, sweep, held,
                   everAccepted>>

\* The last transaction of an elevated user's disown.
DisownFinish(w) ==
    /\ At(w, "disownFinish")
    /\ HasRow(w)
    /\ SetMaintainer(job[w].base, Nobody)
    /\ comaints' = [comaints EXCEPT ![job[w].base] = {}]
    /\ Finish(w, "done")
    /\ UNCHANGED <<exists, flagged, young, req, sweep, everAccepted>>

-----------------------------------------------------------------------------
(* POST /pkgbase/{name}/delete and /pkgbase/{name}/merge *)

DeleteStart(w, u, b) ==
    /\ "delete" \in Ops
    /\ u \in Elevated
    /\ b \in exists
    /\ Start(w, [IdleJob EXCEPT !.op = "delete", !.pc = "readAccept",
                   !.type = "deletion", !.user = u, !.base = b])
    /\ UNCHANGED <<dbVars, sweep, held, everAccepted>>

\* Also the end of a deletion request that is accepted automatically.
DeleteFinish(w) ==
    /\ At(w, "deleteFinish")
    /\ HasRow(w)
    /\ DeleteBase(job[w].base)
    /\ Finish(w, "done")
    /\ UNCHANGED <<sweep, held, everAccepted>>

MergeStart(w, u, b, m) ==
    /\ "merge" \in Ops
    /\ u \in Elevated
    /\ b \in exists
    /\ m \in exists \ {b}
    /\ Start(w, [IdleJob EXCEPT !.op = "merge", !.pc = "readAccept",
                   !.type = "merge", !.user = u, !.base = b, !.into = m])
    /\ UNCHANGED <<dbVars, sweep, held, everAccepted>>

\* Comments, notifications and votes move in a transaction of their own; what
\* becomes of them is not part of this module.
MergeMove(w) ==
    /\ At(w, "mergeMove")
    /\ HasRow(w)
    /\ IF job[w].into \in exists THEN Goto(w, "mergeDelete")
                                 ELSE Finish(w, "failed")
    /\ UNCHANGED <<dbVars, sweep, held, everAccepted>>

MergeDelete(w) ==
    /\ At(w, "mergeDelete")
    /\ HasRow(w)
    /\ DeleteBase(job[w].base)
    /\ Finish(w, "done")
    /\ UNCHANGED <<sweep, held, everAccepted>>

-----------------------------------------------------------------------------
(* handle_request *)

\* verify_orphan_request
HasDueOrphanRequest_Bug(b) == TRUE

HasDueOrphanRequest(b) == \E r \in Pending("orphan", b) : req[r].due

\* The InvariantError is shown to the user.
Verify(w) ==
    /\ At(w, "verify")
    /\ IF HasDueOrphanRequest(job[w].base)
       THEN Goto(w, "readAccept")
       ELSE Finish(w, "refused")
    /\ UNCHANGED <<dbVars, sweep, held, everAccepted>>

AcceptableAnyId_Bug(j) == \* accept_ids ignored
    {r \in Pending(j.type, j.base) : j.type = "merge" => req[r].into = j.into}

AcceptableAnyTarget_Bug(j) == \* target ignored
    {r \in Pending(j.type, j.base) : j.type = "adoption" => r \in j.ids}

AcceptableNoDefault_Bug(j) == \* accept_ids defaults to set(), not to None
    {r \in Pending(j.type, j.base) :
        IF j.type = "merge" THEN req[r].into = j.into ELSE r \in j.ids}

\* accept_query: by target for a merge, by accept_ids for an adoption.
Acceptable(j) ==
    {r \in Pending(j.type, j.base) :
        /\ j.type = "merge" => req[r].into = j.into
        /\ j.type = "adoption" => r \in j.ids}

ReadAccept(w) ==
    /\ At(w, "readAccept")
    /\ job' = [job EXCEPT ![w].pc = "readReject",
                          ![w].accept = Acceptable(job[w])]
    /\ UNCHANGED <<dbVars, sweep, held, everAccepted>>

ReadReject(w) ==
    /\ At(w, "readReject")
    /\ job' = [job EXCEPT
         ![w].pc = IF job[w].accept = {} THEN "create" ELSE "close",
         ![w].reject = Pending(job[w].type, job[w].base) \ job[w].accept]
    /\ UNCHANGED <<dbVars, sweep, held, everAccepted>>

\* "If it's a merge request, set MergeBaseName"
HandledTarget(j) == IF j.type = "merge" THEN j.into ELSE NoBase

\* "Autogenerated by aurweb."
CreateHandled(w) ==
    /\ At(w, "create")
    /\ HasRow(w)
    /\ \E r \in ReqId \ Filed :
         /\ req' = [req EXCEPT ![r] =
              NewRequest(job[w].type, job[w].user, job[w].base,
                         HandledTarget(job[w]), "handler")]
         /\ job' = [job EXCEPT ![w].pc = "close", ![w].accept = {r}]
    /\ UNCHANGED <<exists, maintainer, comaints, flagged, young, sweep, held,
                   everAccepted>>

\* There is no closure comment for a rejected deletion or orphan request:
\* get_closure raises NotImplementedError and the transaction rolls back.
CanReject_Bug(j) == j.reject = {}

CanReject(j) == j.reject = {} \/ j.type \in {"merge", "adoption"}

AfterHandle(j) ==
    CASE j.type = "adoption" -> "done"
      [] j.type = "orphan"   -> "disownFinish"
      [] j.type = "deletion" -> "deleteFinish"
      [] j.type = "merge"    -> "mergeMove"

Close(w) ==
    /\ At(w, "close")
    /\ IF CanReject(job[w])
       THEN /\ req' = [r \in ReqId |->
                 IF r \in job[w].reject
                 THEN Closed(job[w].reject, "rejected")[r]
                 ELSE Closed(job[w].accept, "accepted")[r]]
            /\ everAccepted' = everAccepted \cup job[w].accept
            /\ IF AfterHandle(job[w]) = "done"
               THEN Finish(w, "done")
               ELSE Goto(w, AfterHandle(job[w]))
       ELSE Finish(w, "failed") /\ UNCHANGED <<req, everAccepted>>
    /\ UNCHANGED <<exists, maintainer, comaints, flagged, young, sweep, held>>

-----------------------------------------------------------------------------
(* `disown` over SSH: one commit per orphan request, one for the list of    *)
(* co-maintainers, one for the maintainer; no retry, no request needed.     *)

SshDisownStart(w, u, b) ==
    /\ "sshDisown" \in Ops
    /\ b \in exists
    /\ u \in Elevated \/ u = maintainer[b]
    /\ Start(w, [IdleJob EXCEPT !.op = "sshDisown", !.pc = "sshClose",
                   !.type = "orphan", !.user = u, !.base = b,
                   !.seen = IF u = maintainer[b] THEN u ELSE Nobody,
                   !.accept = Pending("orphan", b)])
    /\ UNCHANGED <<dbVars, sweep, held, everAccepted>>

SshClose(w) ==
    /\ At(w, "sshClose")
    /\ \/ /\ job[w].accept = {}
          /\ Goto(w, "sshRead")
          /\ UNCHANGED <<req, everAccepted>>
       \/ \E r \in job[w].accept :
            /\ req' = Closed({r}, "accepted")
            /\ everAccepted' = everAccepted \cup {r}
            /\ job' = [job EXCEPT ![w].accept = @ \ {r}]
    /\ UNCHANGED <<exists, maintainer, comaints, flagged, young, sweep, held>>

\* initialized_by_owner: the first co-maintainer will be promoted.
SshRead(w) ==
    LET cs == comaints[job[w].base]
    IN  /\ At(w, "sshRead")
        /\ IF job[w].seen = Nobody \/ cs = {}
           THEN Goto(w, "sshComaints")
           ELSE \E c \in cs :
                  job' = [job EXCEPT ![w].pc = "sshComaints",
                                     ![w].newm = c, ![w].rest = cs \ {c}]
        /\ UNCHANGED <<dbVars, sweep, held, everAccepted>>

\* pkgbase_set_comaintainers checks the access again.
SshComaints(w) ==
    LET b == job[w].base
    IN  /\ At(w, "sshComaints")
        /\ HasRow(w)
        /\ IF job[w].user \in Elevated \/ job[w].user = maintainer[b]
           THEN /\ comaints' = [comaints EXCEPT ![b] = job[w].rest]
                /\ Goto(w, "sshMaint")
           ELSE Finish(w, "refused") /\ UNCHANGED comaints
        /\ UNCHANGED <<exists, maintainer, flagged, young, req, sweep, held,
                       everAccepted>>

SshMaint(w) ==
    /\ At(w, "sshMaint")
    /\ IF HasRow(w) THEN SetMaintainer(job[w].base, job[w].newm)
                    ELSE UNCHANGED <<maintainer, held>>
    /\ Finish(w, "done")
    /\ UNCHANGED <<exists, comaints, flagged, young, req, sweep, everAccepted>>

-----------------------------------------------------------------------------
(* git push: the access is checked by git-serve, the metadata saved by the  *)
(* update hook, a process that git starts later.                            *)

PushStart(w, u, b) ==
    /\ "push" \in Ops
    /\ b \in exists
    /\ u \in Elevated \cup comaints[b] \/ u = maintainer[b]
    /\ Start(w, [IdleJob EXCEPT !.op = "push", !.pc = "pushSave",
                   !.user = u, !.base = b])
    /\ UNCHANGED <<dbVars, sweep, held, everAccepted>>

PushedMaintainer_Bug(b, u) == u \* without AND MaintainerUID IS NULL

PushedMaintainer(b, u) ==
    IF maintainer[b] = Nobody THEN u ELSE maintainer[b]

PushSave(w) ==
    LET b == job[w].base
    IN  /\ At(w, "pushSave")
        /\ HasRow(w)
        /\ SetMaintainer(b, PushedMaintainer(b, job[w].user))
        /\ flagged' = [flagged EXCEPT ![b] = "no"]
        /\ Finish(w, "done")
        /\ UNCHANGED <<exists, comaints, young, req, sweep, everAccepted>>

-----------------------------------------------------------------------------
(* Handlers of a single transaction. *)

\* POST /requests/{id}/close: whatever the status of the request is.
CloseRequest(u, r) ==
    /\ "close" \in Ops
    /\ r \in Filed
    /\ u \in Elevated \/ u = req[r].user
    /\ req' = Closed({r}, "rejected")
    /\ UNCHANGED <<exists, maintainer, comaints, flagged, young, job, sweep,
                   held, everAccepted>>

\* `set-comaintainers` over SSH: one commit, right after the access is checked.
\* (The form is several transactions, whose effects on the set this covers.)
SetComaintainers(u, b, S) ==
    /\ "comaint" \in Ops
    /\ b \in exists
    /\ u \in Elevated \/ u = maintainer[b]
    /\ comaints' = [comaints EXCEPT ![b] = S]
    /\ UNCHANGED <<exists, maintainer, flagged, young, req, job, sweep, held,
                   everAccepted>>

\* Anyone may flag a base; its flagger, among others, may unflag it.
Flag(b) ==
    /\ "flag" \in Ops
    /\ b \in exists
    /\ flagged' = [flagged EXCEPT ![b] = IF @ = "no" THEN "recent" ELSE "no"]
    /\ UNCHANGED <<exists, maintainer, comaints, young, req, job, sweep, held,
                   everAccepted>>

-----------------------------------------------------------------------------
(* aurweb-requestmaint: rows read, then written by ID at the commit. *)

Idle == {r \in Filed : /\ req[r].type = "adoption"
                       /\ req[r].status = "pending"
                       /\ req[r].due}

SweepRead ==
    /\ "sweep" \in Ops
    /\ sweep = {}
    /\ Idle # {}
    /\ sweep' = Idle
    /\ UNCHANGED <<dbVars, job, held, everAccepted>>

SweepWrite ==
    /\ sweep # {}
    /\ req' = Closed(sweep, "rejected")
    /\ sweep' = {}
    /\ UNCHANGED <<exists, maintainer, comaints, flagged, young, job, held,
                   everAccepted>>

SweepFail ==
    /\ "crash" \in Faults
    /\ sweep # {}
    /\ sweep' = {}
    /\ UNCHANGED <<dbVars, job, held, everAccepted>>

-----------------------------------------------------------------------------
(* Time: auto_orphan_age, auto_delete_age and request_idle_time pass. *)

FlagAges(b) ==
    /\ flagged[b] = "recent"
    /\ flagged' = [flagged EXCEPT ![b] = "old"]
    /\ UNCHANGED <<exists, maintainer, comaints, young, req, job, sweep, held,
                   everAccepted>>

BaseAges(b) ==
    /\ b \in young
    /\ young' = young \ {b}
    /\ UNCHANGED <<exists, maintainer, comaints, flagged, req, job, sweep,
                   held, everAccepted>>

\* (Only the age of orphan and adoption requests is ever read.)
RequestDue(r) ==
    /\ r \in Filed
    /\ req[r].type \in {"orphan", "adoption"}
    /\ req[r].status = "pending"
    /\ ~req[r].due
    /\ req' = [req EXCEPT ![r].due = TRUE]
    /\ UNCHANGED <<exists, maintainer, comaints, flagged, young, job, sweep,
                   held, everAccepted>>

-----------------------------------------------------------------------------
(* Faults *)

\* A worker dies between two transactions, or its connection does, or a
\* deadlock has used up every retry: what was committed stays.
Crash(w) ==
    /\ "crash" \in Faults
    /\ job[w].pc \notin Free
    /\ Finish(w, "failed")
    /\ UNCHANGED <<dbVars, sweep, held, everAccepted>>

\* Where the retry_deadlock wrappers around a transaction start it again; a
\* wrapper that has tried often enough hands over to the one around it.  The
\* wrapper of a route is not the function that FastAPI has registered, so
\* that a transaction of the route itself has no retry.
HandleStart(j) == IF j.type = "orphan" THEN "verify" ELSE "readAccept"

RetryPoints(j) ==
    LET disown == IF j.op = "disown" THEN {"disownRole"} ELSE {}
    IN  CASE j.pc = "create" -> {HandleStart(j)} \cup disown
          [] j.pc = "close"  -> {"close", HandleStart(j)} \cup disown
          [] j.pc \in {"disownOwner", "disownCo", "disownFinish"} -> disown
          [] j.pc = "adoptCreate" /\ j.op = "adopt" -> {"adoptCreate"}
          [] j.pc \in {"adoptSet", "deleteFinish"} -> {j.pc}
          [] j.pc \in {"mergeMove", "mergeDelete"} -> {"mergeMove"}
          [] OTHER -> {}

\* The attempt that is given up had committed its acceptance of a request
\* (only a disown starts over as far back as before that).
HasAccepted(j) == j.retried \/ j.pc = "disownFinish"

Deadlock(w) ==
    /\ "deadlock" \in Faults
    /\ \E pc \in RetryPoints(job[w]) :
         job' = [job EXCEPT ![w].pc = pc, ![w].retried = HasAccepted(job[w])]
    /\ UNCHANGED <<dbVars, sweep, held, everAccepted>>

-----------------------------------------------------------------------------
Handler(w) ==
    \/ FileCreate(w) \/ FileAuto(w) \/ AutoOrphan(w)
    \/ AdoptSet(w) \/ AdoptCreate(w)
    \/ DisownRole(w) \/ DisownOwner(w) \/ DisownCo(w) \/ DisownFinish(w)
    \/ DeleteFinish(w) \/ MergeMove(w) \/ MergeDelete(w)
    \/ Verify(w) \/ ReadAccept(w) \/ ReadReject(w) \/ CreateHandled(w)
    \/ Close(w)
    \/ SshClose(w) \/ SshRead(w) \/ SshComaints(w) \/ SshMaint(w)
    \/ PushSave(w)
    \/ BaseGone(w)

Called(w) ==
    \E u \in User, b \in Base :
        \/ \E t \in RequestType, m \in Base \cup {NoBase} :
             FileStart(w, u, b, t, m)
        \/ AdoptStart(w, u, b)
        \/ \E o \in {"adopt", "sshAdopt"} : RequestAdoption(w, u, b, o)
        \/ DisownStart(w, u, b)
        \/ DeleteStart(w, u, b)
        \/ \E m \in Base : MergeStart(w, u, b, m)
        \/ SshDisownStart(w, u, b)
        \/ PushStart(w, u, b)

OneStep ==
    \/ \E u \in User, r \in ReqId : CloseRequest(u, r)
    \/ \E u \in User, b \in Base, S \in SUBSET User : SetComaintainers(u, b, S)
    \/ \E b \in Base : Flag(b)

Sweep == SweepRead \/ SweepWrite \/ SweepFail

Time ==
    \/ \E b \in Base : FlagAges(b) \/ BaseAges(b)
    \/ \E r \in ReqId : RequestDue(r)

Next ==
    \/ \E w \in Worker : Called(w) \/ Handler(w) \/ Crash(w) \/ Deadlock(w)
    \/ OneStep
    \/ Sweep
    \/ Time

Spec == Init /\ [][Next]_vars

-----------------------------------------------------------------------------
(* Properties *)

\* A request that a user filed for adoption is accepted only after its author
\* was made maintainer: pkgbase_adopt_instance writes the maintainer first
\* and accepts the one request it has granted, so that a crash, a deadlock or
\* another worker in between never accepts a request nobody granted.
GrantedAdoptionWasGiven ==
    \A r \in everAccepted :
        req[r].type = "adoption" /\ req[r].origin # "handler"
            => <<req[r].name, req[r].user>> \in held

\* "This is done to increase tracking of actions": a base is deleted only by a
\* handler after a request of the same type and about the same base has been
\* accepted, and one to merge it into the same target if it is merged.  (The
\* target of other requests is whatever the form said.  A request that was
\* accepted may have been closed again since.)
RemovalIsTracked ==
    [][\A b \in exists \ exists' :
         \E w \in Worker, r \in everAccepted :
             /\ job'[w] # job[w]
             /\ job[w].base = b
             /\ req[r].name = b
             /\ req[r].type = job[w].type
             /\ job[w].type = "merge" => req[r].into = job[w].into]_vars

\* The step is one of a handler that w runs for somebody who may act on b:
\* an elevated user, or one who is or has been its maintainer.
StepOfOwnerOrElevated(b) ==
    \E w \in Worker :
        /\ job'[w] # job[w]
        /\ job[w].user \in Elevated \/ <<b, job[w].user>> \in held

\* Nobody takes a base from its maintainer: it passes to another user only by
\* an elevated user's handler or by one of its own (present or past)
\* maintainers, and it becomes an orphan without either only when an orphan
\* request about it is accepted.
NobodyTakesABase ==
    [][\A b \in exists' :
         maintainer[b] \notin {Nobody, maintainer'[b]} =>
             \/ StepOfOwnerOrElevated(b)
             \/ /\ maintainer'[b] = Nobody
                /\ \E r \in everAccepted' :
                      req[r].type = "orphan" /\ req[r].name = b]_vars

\* On the website an elevated user orphans somebody else's base only against
\* an orphan request that a user has filed: verify_orphan_request raises "No
\* due existing orphan requests to accept" otherwise.  (Over SSH none is needed.)
OrphaningNeedsARequest ==
    [][\A b \in exists' :
         maintainer[b] # Nobody /\ maintainer'[b] = Nobody =>
             \/ \E w \in Worker :
                   /\ job'[w] # job[w]
                   /\ job[w].op = "sshDisown" \/ <<b, job[w].user>> \in held
             \/ \E r \in everAccepted' :
                   /\ req[r].type = "orphan"
                   /\ req[r].name = b
                   /\ req[r].origin # "handler"]_vars

\* "There is already a pending adoption request for this package base": users
\* have at most one pending between them, over the form, the adopt button and
\* SSH.
OneFiledAdoption ==
    \A r, s \in Filed :
        /\ {r, s} \subseteq Pending("adoption", req[r].name)
        /\ "handler" \notin {req[r].origin, req[s].origin}
        => r = s

\* handle_request leaks no record: a request that it has inserted is pending
\* only while a handler is still at work on it.
AutogeneratedIsClosed ==
    \A r \in Filed :
        req[r].origin = "handler" /\ req[r].status = "pending" =>
            \E w \in Worker : /\ job[w].pc \in HandlePC \cup {"disownRole"}
                              /\ job[w].base = req[r].name
                              /\ job[w].type = req[r].type

\* get_closure has a comment for every request that handle_request closes.
EveryClosureHasAComment ==
    \A w \in Worker : job[w].pc = "close" => CanReject(job[w])

\* "Retry on deadlock": a disown whose first attempt has accepted its orphan
\* request is not turned down, when it is run again, for want of one.
RetryIsNotRefused ==
    \A w \in Worker : job[w].pc = "refused" => ~job[w].retried

\* "pushing to one used to grant maintainership with no review. Adopt first.":
\* an orphan gets a maintainer only from an elevated user.
OrphanIsGranted ==
    [][\A b \in exists :
         maintainer[b] = Nobody /\ maintainer'[b] # Nobody =>
             \E w \in Worker : /\ job'[w] # job[w]
                               /\ job[w].user \in Elevated]_vars

\* "aurweb-requestmaint automatically rejects adoption requests that no
\* Package Maintainer acted on": one whose idle time has run out is pending
\* only for a while.
WaitsTooLong(r) ==
    /\ r \in Filed
    /\ req[r].type = "adoption"
    /\ req[r].status = "pending"
    /\ req[r].due
=============================================================================

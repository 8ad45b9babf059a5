------------------------------ MODULE Accounts ------------------------------
(***************************************************************************)
(* Accounts, passwords and login sessions in aurweb.                       *)
(*                                                                         *)
(* A user logs in with a password or through SSO, which creates the one    *)
(* row of Sessions the account may have or gives it a new SID; the browser *)
(* keeps the SID in a cookie.  The account's owner and elevated users edit *)
(* it: account_edit_post validates the form once and then runs a list of   *)
(* update functions, each in a transaction of its own.  A password reset,  *)
(* a logout, the expiry check of every request and the deletion of the     *)
(* account write the same rows.                                            *)
(*                                                                         *)
(* An action is one transaction, or the reads a handler makes before its   *)
(* next one; job[w] is what the handler of worker w holds in between.      *)
(*                                                                         *)
(* An operator whose name ends in _Bug is the definition that follows it,  *)
(* with a mistake that the properties at the end have to catch.  Nothing   *)
(* uses it.                                                                *)
(***************************************************************************)
EXTENDS Naturals

CONSTANTS
    User,       \* rows Users can have; an account deleted does not come back
    Secret,     \* passwords
    NoPass,     \* the empty Passwd of an account that has none yet
    Browser,    \* cookie jars
    Worker,     \* web workers
    Nobody,     \* the account an idle worker is at work for
    MaxSid,     \* how many SIDs are generated (a bound)
    Staff,      \* the initial accounts of type Package Maintainer
    Guests,     \* the accounts that are not registered yet
    Ops,        \* the handlers that run in this instance
    Faults      \* "crash", "deadlock"

ASSUME StaffAssumption  == Staff \cap Guests = {} /\ Staff \cup Guests \subseteq User
ASSUME MaxSidAssumption == MaxSid \in Nat
ASSUME NoPassAssumption == NoPass \notin Secret
ASSUME NobodyAssumption == Nobody \notin User

\* USER_ID, PACKAGE_MAINTAINER_ID, DEVELOPER_ID, PACKAGE_MAINTAINER_AND_DEV_ID
AccountTypeID == 1..4

\* Sessions.SessionID; 0 is the absence of a session, or of a cookie.
Sid == 0..MaxSid

\* LastUpdateTS: this very second, within the timeout, or before it.
Age == {"now", "live", "expired"}

PC == {"idle", "loginRetry", "loginCommit", "loginReturn", "logout", "expire", "sso",
       "resetIssue", "resetCommit", "editSimple", "editType", "editPassword",
       "editLogin", "editSuspend", "editEnd", "delete"}

Job == [pc : PC, actor : User \cup {Nobody}, rank : AccountTypeID,
        user : User \cup {Nobody}, browser : Browser \cup {Nobody}, pass : Secret \cup {NoPass}, S : BOOLEAN,
        T : AccountTypeID \cup {0}, P : Secret \cup {NoPass}, loaded : BOOLEAN,
        retried : BOOLEAN]

VARIABLES
    here,       \* "new", "here" or "gone"
    acc,        \* Users: AccountTypeID, Suspended, Passwd, ResetKey set
    session,    \* Sessions: SID and age of the user's session
    cookie,     \* AURSID of every browser
    nextSid,    \* generate_unique_sid
    job,        \* the handlers that are running
    opened,     \* history: the password the session was last opened with
    kept        \* history: whose session the last change of the password left as it was

vars == <<here, acc, session, cookie, nextSid, job, opened, kept>>

NoSession == [sid |-> 0, age |-> "live"]

TypeOK ==
    /\ here \in [User -> {"new", "here", "gone"}]
    /\ acc \in [User -> [type : AccountTypeID, suspended : BOOLEAN,
                         passwd : Secret \cup {NoPass}, key : BOOLEAN]]
    /\ session \in [User -> [sid : Sid, age : Age]]
    /\ \A u, v \in User : u # v /\ session[u].sid = session[v].sid
                          => session[u].sid = 0
    /\ cookie \in [Browser -> Sid]
    /\ nextSid \in 1..(MaxSid + 1)
    /\ job \in [Worker -> Job]
    /\ opened \in [User -> Secret \cup {NoPass}]
    /\ kept \subseteq User

IdleJob ==
    [pc |-> "idle", actor |-> Nobody, rank |-> 1, user |-> Nobody,
     browser |-> Nobody, pass |-> NoPass, S |-> FALSE, T |-> 0, P |-> NoPass,
     loaded |-> FALSE, retried |-> FALSE]

Init ==
    /\ here = [u \in User |-> IF u \in Guests THEN "new" ELSE "here"]
    /\ acc \in [User -> [type : {1, 2}, suspended : {FALSE},
                         passwd : Secret, key : {FALSE}]]
    /\ \A u \in User : acc[u].type = 2 <=> u \in Staff
    /\ session = [u \in User |-> NoSession]
    /\ cookie = [b \in Browser |-> 0]
    /\ nextSid = 1
    /\ job = [w \in Worker |-> IdleJob]
    /\ opened = [u \in User |-> NoPass]
    /\ kept = {}

-----------------------------------------------------------------------------
(* Steps of a handler. *)

Idle(w) == job[w].pc = "idle"

At(w, pc) == job[w].pc = pc

\* The handler starts on account u with what it has read.
Begin(w, pc, a, u, b, p) ==
    job' = [job EXCEPT ![w] =
              [IdleJob EXCEPT !.pc = pc, !.actor = a, !.rank = acc[a].type,
                              !.user = u, !.browser = b, !.pass = p]]

Goto(w, pc) == job' = [job EXCEPT ![w].pc = pc]

\* The handler has returned, turned its user down, or died of an exception.
End(w) == job' = [job EXCEPT ![w] = IdleJob]

Here(u) == here[u] = "here"

\* The commit finds that the row is gone: an exception, and a 500 page.
RowGone(w, pc) ==
    /\ At(w, pc) /\ ~Here(job[w].user)
    /\ End(w)
    /\ UNCHANGED <<here, acc, session, cookie, nextSid, opened, kept>>

dbUnchanged == UNCHANGED <<here, acc, session, opened, kept>>

-----------------------------------------------------------------------------
(* Sessions. *)

\* BasicAuthBackend.authenticate: the account of the cookie's session row.
AuthenticatedAs(b, u) ==
    /\ cookie[b] # 0
    /\ session[u].sid = cookie[b]
    /\ session[u].age # "expired"

Guest(b) == \A u \in User : ~AuthenticatedAs(b, u)

\* The expired record that authenticate has read is deleted, by the primary
\* key UsersID, in a transaction that follows.
ExpireStart(w, b) ==
    /\ Idle(w) /\ cookie[b] # 0
    /\ \E u \in User : /\ session[u].sid = cookie[b]
                       /\ session[u].age = "expired"
                       /\ Begin(w, "expire", u, u, b, NoPass)
    /\ UNCHANGED <<here, acc, session, cookie, nextSid, opened, kept>>

Expire(w) ==
    /\ At(w, "expire")
    /\ session' = [session EXCEPT ![job[w].user] = NoSession]
    /\ End(w)
    /\ UNCHANGED <<here, acc, cookie, nextSid, opened, kept>>

\* Time passes for one session: the next second, or the timeout.
Ageing(u) ==
    /\ session[u].sid # 0
    /\ session[u].age # "expired"
    /\ session' = [session EXCEPT ![u].age = IF @ = "now" THEN "live" ELSE "expired"]
    /\ UNCHANGED <<here, acc, cookie, nextSid, job, opened, kept>>

\* The transaction of User.login: a new row, or a new SID in the row there
\* is, unless it was updated this very second.
OpenSession(u, p) ==
    /\ IF session[u].sid # 0 /\ session[u].age = "now"
       THEN UNCHANGED <<session, nextSid>>
       ELSE /\ nextSid <= MaxSid
            /\ session' = [session EXCEPT ![u] = [sid |-> nextSid, age |-> "now"]]
            /\ nextSid' = nextSid + 1
    /\ opened' = [opened EXCEPT ![u] = p]

-----------------------------------------------------------------------------
(* Logging in and out. *)

\* login_post and the checks of User.login.
LoginApproved(u, p) ==
    /\ ~acc[u].suspended
    /\ p # NoPass
    /\ acc[u].passwd = p

LoginStart(w, b, u, p) ==
    /\ "login" \in Ops
    /\ Idle(w) /\ Guest(b) /\ Here(u) /\ LoginApproved(u, p)
    /\ Begin(w, "loginCommit", u, u, b, p)
    /\ UNCHANGED <<here, acc, session, cookie, nextSid, opened, kept>>

\* _retry_login runs User.login again, with its checks.
LoginRetry(w) ==
    /\ At(w, "loginRetry")
    /\ IF LoginApproved(job[w].user, job[w].pass)
       THEN Goto(w, "loginCommit") ELSE End(w)
    /\ UNCHANGED <<here, acc, session, cookie, nextSid, opened, kept>>

LoginCommit(w) ==
    /\ At(w, "loginCommit") /\ Here(job[w].user)
    /\ OpenSession(job[w].user, job[w].pass)
    /\ Goto(w, "loginReturn")
    /\ UNCHANGED <<here, acc, cookie, kept>>

\* login returns self.session.SessionID, read again after the commit: there
\* may be none any more.
LoginReturn(w) ==
    LET u == job[w].user
    IN  /\ At(w, "loginReturn")
        /\ IF session[u].sid = 0
           THEN End(w) /\ UNCHANGED cookie
           ELSE /\ End(w)
                /\ cookie' = [cookie EXCEPT ![job[w].browser] = session[u].sid]
        /\ dbUnchanged /\ UNCHANGED nextSid

LogoutStart(w, b, u) ==
    /\ "logout" \in Ops
    /\ Idle(w) /\ AuthenticatedAs(b, u)
    /\ Begin(w, "logout", u, u, b, NoPass)
    /\ UNCHANGED <<here, acc, session, cookie, nextSid, opened, kept>>

Logout(w) ==
    /\ At(w, "logout")
    /\ session' = [session EXCEPT ![job[w].user] = NoSession]
    /\ cookie' = [cookie EXCEPT ![job[w].browser] = 0]
    /\ End(w)
    /\ UNCHANGED <<here, acc, nextSid, opened, kept>>

\* open_session of the SSO route: the suspension is read, then a row is
\* inserted whether or not there is one, which the primary key refuses.
SsoStart(w, b, u) ==
    /\ "sso" \in Ops
    /\ Idle(w) /\ Here(u) /\ ~acc[u].suspended
    /\ Begin(w, "sso", u, u, b, NoPass)
    /\ UNCHANGED <<here, acc, session, cookie, nextSid, opened, kept>>

SsoInsert(w) ==
    LET u == job[w].user
    IN  /\ At(w, "sso") /\ Here(u)
        /\ IF session[u].sid # 0
           THEN End(w) /\ UNCHANGED <<session, cookie, nextSid, opened>>
           ELSE /\ OpenSession(u, NoPass)
                /\ cookie' = [cookie EXCEPT ![job[w].browser] = nextSid]
                /\ End(w)
        /\ UNCHANGED <<here, acc, kept>>

-----------------------------------------------------------------------------
(* Registration and password reset. *)

Register(u) ==
    /\ "register" \in Ops
    /\ here[u] = "new"
    /\ here' = [here EXCEPT ![u] = "here"]
    /\ acc' = [acc EXCEPT ![u] = [type |-> 1, suspended |-> FALSE,
                                  passwd |-> NoPass, key |-> TRUE]]
    /\ UNCHANGED <<session, cookie, nextSid, job, opened, kept>>

ResetStart(w, b, u, p) ==
    /\ "reset" \in Ops
    /\ Idle(w) /\ Guest(b) /\ Here(u) /\ ~acc[u].suspended
    /\ \/ Begin(w, "resetIssue", u, u, b, NoPass)
       \/ acc[u].key /\ Begin(w, "resetCommit", u, u, b, p)
    /\ UNCHANGED <<here, acc, session, cookie, nextSid, opened, kept>>

ResetIssue(w) ==
    /\ At(w, "resetIssue") /\ Here(job[w].user)
    /\ acc' = [acc EXCEPT ![job[w].user].key = TRUE]
    /\ End(w)
    /\ UNCHANGED <<here, session, cookie, nextSid, opened, kept>>

SessionAfterReset(u) == NoSession

ResetCommit(w) ==
    LET u == job[w].user
    IN  /\ At(w, "resetCommit") /\ Here(u)
        /\ acc' = [acc EXCEPT ![u].key = FALSE, ![u].passwd = job[w].pass]
        /\ session' = [session EXCEPT ![u] = SessionAfterReset(u)]
        /\ kept' = kept \ {u}
        /\ End(w)
        /\ UNCHANGED <<here, cookie, nextSid, opened>>

-----------------------------------------------------------------------------
(* account_edit_post. *)

IsElevated(rank) == rank \in {2, 3, 4}

\* User.can_edit_user
CanEditUser(a, u) == /\ a = u \/ IsElevated(acc[a].type)
                     /\ acc[a].type >= acc[u].type

\* validate.invalid_suspend_permission
MaySuspend(a, u, S) == S = acc[u].suspended \/ IsElevated(acc[a].type)

\* validate.invalid_account_type
MayChangeType_Bug(a, u, T) == \* whatever the editor's own type
    T \in {0, acc[u].type} \/ IsElevated(acc[a].type)

\* T = 0 is a form without the field.
MayChangeType(a, u, T) ==
    T \in {0, acc[u].type} \/ (IsElevated(acc[a].type) /\ T <= acc[a].type)

\* process_account_form: the checks that depend on what others do.
ValidForm(a, u, S, T) ==
    /\ acc[a].passwd # NoPass \* and the editor has typed it
    /\ MaySuspend(a, u, S)
    /\ MayChangeType(a, u, T)

\* The form is validated as a whole, before the first update.
EditStart(w, b, a, u, S, T, P) ==
    /\ "edit" \in Ops
    /\ Idle(w) /\ AuthenticatedAs(b, a) /\ Here(u)
    /\ CanEditUser(a, u) /\ ValidForm(a, u, S, T)
    /\ job' = [job EXCEPT ![w] =
                 [IdleJob EXCEPT !.pc = "editSimple", !.actor = a,
                                 !.rank = acc[a].type, !.user = u, !.browser = b,
                                 !.S = S, !.T = T, !.P = P,
                                 !.loaded = acc[u].suspended]]
    /\ UNCHANGED <<here, acc, session, cookie, nextSid, opened, kept>>

\* The fields of job that the rest of the handler does not read are cleared.

\* update.simple assigns the column; the ORM writes it only if that changes
\* the value it loaded.  After a deadlock it loads it in the transaction.
WrittenSuspended_Bug(j) == j.S \* written unconditionally

WrittenSuspended(j) ==
    IF j.retried \/ j.S # j.loaded THEN j.S ELSE acc[j.user].suspended

EditSimple(w) ==
    /\ At(w, "editSimple") /\ Here(job[w].user)
    /\ acc' = [acc EXCEPT ![job[w].user].suspended = WrittenSuspended(job[w])]
    /\ job' = [job EXCEPT ![w].pc = "editType", ![w].loaded = FALSE,
                         ![w].retried = FALSE, ![w].rank = 1]
    /\ UNCHANGED <<here, session, cookie, nextSid, opened, kept>>

EditType(w) ==
    /\ At(w, "editType") /\ Here(job[w].user)
    /\ acc' = [acc EXCEPT ![job[w].user].type = IF job[w].T = 0 THEN @ ELSE job[w].T]
    /\ job' = [job EXCEPT ![w].pc = "editPassword", ![w].T = 0]
    /\ UNCHANGED <<here, session, cookie, nextSid, opened, kept>>

\* update.password; the owner of the account is logged in again.
EditPassword(w) ==
    LET u == job[w].user
        changed == job[w].P \notin {NoPass, acc[u].passwd}
        self == job[w].actor = u
    IN  /\ At(w, "editPassword") /\ Here(u)
        /\ IF changed
           THEN /\ acc' = [acc EXCEPT ![u].passwd = job[w].P]
                /\ kept' = IF self THEN kept \ {u} ELSE kept \cup {u}
           ELSE UNCHANGED <<acc, kept>>
        /\ job' = IF changed /\ self THEN [job EXCEPT ![w].pc = "editLogin"]
                  ELSE [job EXCEPT ![w].pc = "editSuspend", ![w].P = NoPass,
                                   ![w].retried = FALSE]
        /\ UNCHANGED <<here, session, cookie, nextSid, opened>>

\* User.login with the new password; nobody sets the cookie to the new SID.
EditLogin(w) ==
    LET u == job[w].user
    IN  /\ At(w, "editLogin") /\ Here(u)
        /\ IF LoginApproved(u, job[w].P)
           THEN OpenSession(u, job[w].P)
           ELSE UNCHANGED <<session, nextSid, opened>>
        /\ job' = [job EXCEPT ![w].pc = "editSuspend", ![w].P = NoPass,
                             ![w].retried = FALSE]
        /\ UNCHANGED <<here, acc, cookie, kept>>

\* update.suspend looks for a session, then deletes the one there is.
EditSuspend_Bug(w) == \* update.suspend is missing from the list
    /\ At(w, "editSuspend") /\ Here(job[w].user)
    /\ End(w)
    /\ UNCHANGED <<here, acc, session, cookie, nextSid, opened, kept>>

EditSuspend(w) ==
    /\ At(w, "editSuspend") /\ Here(job[w].user)
    /\ IF job[w].S /\ session[job[w].user].sid # 0
       THEN Goto(w, "editEnd") ELSE End(w)
    /\ UNCHANGED <<here, acc, session, cookie, nextSid, opened, kept>>

EditEnd(w) ==
    /\ At(w, "editEnd")
    /\ session' = [session EXCEPT ![job[w].user] = NoSession]
    /\ End(w)
    /\ UNCHANGED <<here, acc, cookie, nextSid, opened, kept>>

\* account_delete_post asks for the credential only, not for the rank.
DeleteStart(w, b, a, u) ==
    /\ "delete" \in Ops
    /\ Idle(w) /\ AuthenticatedAs(b, a) /\ Here(u) /\ acc[a].passwd # NoPass
    /\ a = u \/ IsElevated(acc[a].type)
    /\ Begin(w, "delete", a, u, b, NoPass)
    /\ UNCHANGED <<here, acc, session, cookie, nextSid, opened, kept>>

Delete(w) ==
    /\ At(w, "delete") /\ Here(job[w].user)
    /\ here' = [here EXCEPT ![job[w].user] = "gone"]
    /\ session' = [session EXCEPT ![job[w].user] = NoSession]
    /\ End(w)
    /\ UNCHANGED <<acc, cookie, nextSid, opened, kept>>

-----------------------------------------------------------------------------
(* Faults. *)

\* The process dies, or its database connection does.
Crash(w) ==
    /\ "crash" \in Faults /\ ~Idle(w)
    /\ End(w)
    /\ UNCHANGED <<here, acc, session, cookie, nextSid, opened, kept>>

\* The database breaks a deadlock: the function under retry_deadlock runs
\* again from its start, once here; where it repeats what it has done, that
\* is no step (the other handlers fail, which is Crash).
Deadlock(w) ==
    /\ "deadlock" \in Faults /\ ~job[w].retried
    /\ \/ At(w, "loginCommit") /\ job' = [job EXCEPT ![w].pc = "loginRetry",
                                                     ![w].retried = TRUE]
       \/ At(w, "editSimple") /\ job' = [job EXCEPT ![w].retried = TRUE]
       \/ At(w, "editEnd") /\ job' = [job EXCEPT ![w].pc = "editSuspend",
                                                 ![w].retried = TRUE]
    /\ UNCHANGED <<here, acc, session, cookie, nextSid, opened, kept>>

\* In update.password it is the login that fails: the new password is
\* committed, so the function finds it valid and does not log in again.
LoginDeadlock(w) ==
    /\ "deadlock" \in Faults /\ ~job[w].retried
    /\ At(w, "editLogin")
    /\ job' = [job EXCEPT ![w].pc = "editPassword", ![w].retried = TRUE]
    /\ kept' = kept \cup {job[w].user}
    /\ UNCHANGED <<here, acc, session, cookie, nextSid, opened>>

Step(w) ==
    \/ Expire(w) \/ LoginRetry(w) \/ LoginCommit(w) \/ LoginReturn(w)
    \/ Logout(w) \/ SsoInsert(w) \/ ResetIssue(w) \/ ResetCommit(w)
    \/ EditSimple(w) \/ EditType(w) \/ EditPassword(w) \/ EditLogin(w)
    \/ EditSuspend(w) \/ EditEnd(w) \/ Delete(w) \/ Crash(w) \/ Deadlock(w)
    \/ LoginDeadlock(w)
    \/ \E pc \in PC \ {"idle", "expire", "logout", "loginRetry", "loginReturn", "editEnd"} :
         RowGone(w, pc)

Start(w) ==
    \E b \in Browser :
      \/ ExpireStart(w, b)
      \/ \E u \in User :
           \/ LogoutStart(w, b, u) \/ SsoStart(w, b, u)
           \/ \E p \in Secret : LoginStart(w, b, u, p) \/ ResetStart(w, b, u, p)
           \/ \E a \in User :
                \/ DeleteStart(w, b, a, u)
                \/ \E S \in BOOLEAN, T \in AccountTypeID \cup {0}, P \in Secret \cup {NoPass} :
                     EditStart(w, b, a, u, S, T, P)

Next ==
    \/ \E w \in Worker : Start(w) \/ Step(w)
    \/ \E u \in User : Ageing(u) \/ Register(u)

Spec == Init /\ [][Next]_vars

-----------------------------------------------------------------------------
(* Properties. *)

Busy(u) == \E w \in Worker : ~Idle(w) /\ job[w].user = u

\* A suspended account has no session, once the handlers that work on it are
\* over: account_edit_post suspends, then deletes the session, and login and
\* SSO look at Suspended only before they open one.
SuspendedHasNoSession ==
    \A u \in User : acc[u].suspended /\ session[u].sid # 0 => Busy(u)

\* A suspension is lifted only by a form that an elevated user has sent,
\* however the account's own forms race with it: update.simple assigns
\* Suspended in every form, validated against an older value.
SuspensionIsLiftedByElevated ==
    [][\A u \in User :
         acc[u].suspended /\ Here(u)' /\ ~acc'[u].suspended
         => \E w \in Worker : /\ job[w].pc = "editSimple" /\ job'[w].pc = "editType"
                              /\ job[w].user = u /\ IsElevated(job[w].rank)]_vars

\* However types are changed, and by whatever rank an editor had when the
\* form was checked, nobody gets a type that no account has had at first.
NobodyOutranks ==
    \A u \in User : acc[u].type <= (IF Staff = {} THEN 1 ELSE 2)

\* Whoever holds the session has shown the current password (or came by
\* SSO): a reset ends the session there is, and update.password logs the
\* owner in again.  Two changes of a password leave the session alone: one
\* that somebody else has made, and one whose login a deadlock has undone.
SessionKnowsPassword ==
    \A u \in User :
      session[u].sid # 0 /\ ~Busy(u)
      => opened[u] \in {acc[u].passwd, NoPass} \/ u \in kept

\* An account that was deleted has no session, whatever handlers were at
\* work on it when it went: login and SSO create their row after checks
\* made before, and find that the account is gone.
GoneHasNoSession ==
    \A u \in User : session[u].sid # 0 => Here(u)

\* The expiry check removes only a session that has expired: it must not
\* end one that a login has renewed in the meantime.
ExpiryDeletesOnlyExpired ==
    [][\A u \in User :
         session[u].sid # 0 /\ session'[u].sid = 0
         => session[u].age = "expired" \/ ~\E w \in Worker : At(w, "expire") /\ Idle(w)']_vars
=============================================================================

---------------------------- MODULE Notifications ----------------------------
(***************************************************************************)
(* Who is mailed about what happens to one package base and to a request   *)
(* for it.  A notification is made by queries in autocommit mode, after    *)
(* the change it is about or, for disowning and deleting, before it; a     *)
(* notification of the command line is made in one transaction.  Then it   *)
(* is sent over SMTP or through sendmail.                                  *)
(*                                                                         *)
(* One handler runs at a time.  What the users do in between are changes   *)
(* of their settings.  What a mail says is left out.                       *)
(*                                                                         *)
(* An operator whose name ends in _Bug is the definition that follows it,  *)
(* with a mistake that the properties at the end have to catch.  Nothing   *)
(* uses it.                                                                *)
(***************************************************************************)
EXTENDS Naturals, FiniteSets

CONSTANTS
    User,
    NoUser,
    Wants,       \* of a user: CommentNotify, UpdateNotify, OwnershipNotify
    Transport,   \* "smtp" or "sendmail"
    Interface,   \* "web" or "cli"
    Event,       \* what happens in this instance
    Setting      \* the settings that users change

Watched == {"comment", "update", "adopt", "disown", "delete", "merge"}
Request == {"open", "close"}
AllEvents == Watched \cup Request \cup {"flag", "addCo", "removeCo", "resetkey"}

\* Assumptions about the constants, which MCForms makes for its instances.
UserAssumption == NoUser \notin User
WantsAssumption == Wants \in [User -> SUBSET {"comment", "update", "ownership"}]
EventAssumption == Event \subseteq AllEvents
SettingAssumption ==
    /\ Transport \in {"smtp", "sendmail"} /\ Interface \in {"web", "cli"}
    /\ Setting \subseteq {"hide", "suspend", "watch"}

VARIABLES
    exists,      \* the package base is there
    maintainer, comaintainers,
    watch,       \* PackageNotifications of the base
    hide,        \* users with HideEmail
    suspended,
    requester,   \* who filed the request
    mail,        \* the notification that is being made
    due,         \* history: who is to be told of the last event
    told         \* history: who was told of it, in which header

vars == <<exists, maintainer, comaintainers, watch, hide, suspended, requester, mail,
          due, told>>
base == <<exists, maintainer, comaintainers, requester>>
settings == <<watch, hide, suspended>>

Idle == [pc |-> "idle", event |-> "comment", user |-> NoUser, other |-> NoUser,
         to |-> {}, cc |-> {}, bcc |-> {}]

TypeOK ==
    /\ exists \in BOOLEAN
    /\ maintainer \in User \cup {NoUser} /\ comaintainers \subseteq User
    /\ watch \subseteq User /\ hide \subseteq User /\ suspended \subseteq User
    /\ ~ exists => watch = {} /\ comaintainers = {} /\ maintainer = NoUser
    /\ requester \in User \cup {NoUser}
    /\ mail \in [pc : {"idle", "change", "make", "bcc", "send"}, event : AllEvents,
                 user : User \cup {NoUser}, other : User \cup {NoUser},
                 to : SUBSET User, cc : SUBSET User, bcc : SUBSET User]
    /\ due \subseteq User
    /\ told \subseteq User \X {"to", "cc", "bcc"}

Init ==
    /\ exists = TRUE
    /\ maintainer \in User \cup {NoUser} /\ comaintainers \in SUBSET (User \ {maintainer})
    /\ watch \in SUBSET User /\ hide \in SUBSET User /\ suspended = {}
    /\ requester = NoUser
    /\ mail = Idle
    /\ due = {} /\ told = {}

-----------------------------------------------------------------------------
(* The recipients *)

Keepers == ({maintainer} \cup comaintainers) \ {NoUser}

\* CommentNotification
CommentTo(u) == {v \in watch \ ({u} \cup suspended) : "comment" \in Wants[v]}

UpdateTo_Bug(u) == {v \in watch \ {u} : "update" \in Wants[v]} \* suspended users, too

\* UpdateNotification
UpdateTo(u) == {v \in watch \ ({u} \cup suspended) : "update" \in Wants[v]}

\* OwnershipEventNotification
OwnershipTo(u) == {v \in watch \ ({u} \cup suspended) : "ownership" \in Wants[v]}

\* DeleteNotification
DeleteTo(u) == watch \ ({u} \cup suspended)

\* FlagNotification: the one who flags is told, too
FlagTo == Keepers \ suspended

\* ComaintainershipEventNotification
ComaintainershipTo(u) == {u}

\* ResetKeyNotification, which a suspended user cannot get
ResetKeyTo(u) == {u} \ suspended

\* RequestOpenNotification joins the request with its package base.
OpenParties == IF exists THEN ({requester} \cup Keepers) \ (suspended \cup {NoUser}) ELSE {}

\* RequestCloseNotification, which does the same
CloseParties == IF exists THEN ({requester} \cup Keepers) \ (suspended \cup {NoUser}) ELSE {}

Recipients(e, u, v) ==
    CASE e = "comment"               -> CommentTo(u)
      [] e = "update"                -> UpdateTo(u)
      [] e \in {"adopt", "disown"}   -> OwnershipTo(u)
      [] e = "delete"                -> DeleteTo(u)
      [] e = "flag"                  -> FlagTo
      [] e \in {"addCo", "removeCo"} -> ComaintainershipTo(v)
      [] e = "resetkey"              -> ResetKeyTo(u)

Parties(e) == IF e = "open" THEN OpenParties ELSE CloseParties

-----------------------------------------------------------------------------
(* What happens *)

\* The notification is made first, and then the base changes.
MadeFirst_Bug == {"disown"} \* deleted first

MadeFirst == {"disown", "delete"}

Happens(e, u, v) ==
    /\ mail.pc = "idle" /\ e \in Event
    /\ told' = {}
    /\ mail' = [Idle EXCEPT !.pc = IF e \in MadeFirst THEN "make" ELSE "change",
                            !.event = e, !.user = u, !.other = v]
    /\ UNCHANGED <<base, settings>>

\* A user u who may do so acts on the base; the users to tell are those of now.
Start == \E e \in Watched \cup {"flag"}, u \in User :
    /\ exists /\ Happens(e, u, NoUser)
    /\ due' =
         IF e = "flag" THEN Keepers \ suspended
         ELSE {x \in watch : /\ x # u /\ x \notin suspended
                             /\ e \in {"comment", "update"} => e \in Wants[x]
                             /\ e \in {"adopt", "disown"} => "ownership" \in Wants[x]}

\* Another user, v, becomes a co-maintainer or stops to be one.
StartCo == \E e \in {"addCo", "removeCo"}, u, v \in User :
    /\ exists /\ (e = "addCo" => v # maintainer) /\ (v \in comaintainers) = (e = "removeCo")
    /\ Happens(e, u, v)
    /\ due' = {v}

\* Filing a request, or closing it later on, when the base may be gone.
StartRequest == \E e \in Request, u \in User :
    /\ IF e = "open" THEN exists ELSE requester # NoUser
    /\ Happens(e, u, NoUser)
    /\ due' = (Keepers \cup {IF e = "open" THEN u ELSE requester}) \ suspended

StartReset == \E u \in User :
    /\ u \notin suspended /\ Happens("resetkey", u, u)
    /\ due' = {u}

\* Disowning: a maintainer makes room for a co-maintainer, a co-maintainer
\* leaves, a Package Maintainer makes the base an orphan.
Disown(u) ==
    \/ /\ u = maintainer
       /\ IF comaintainers = {} THEN maintainer' = NoUser ELSE maintainer' \in comaintainers
       /\ comaintainers' = comaintainers \ {maintainer'}
    \/ /\ u # maintainer /\ u \in comaintainers
       /\ comaintainers' = comaintainers \ {u} /\ UNCHANGED maintainer
    \/ /\ u \notin Keepers
       /\ maintainer' = NoUser /\ comaintainers' = {}

\* The transaction of the event.
Change == LET e == mail.event IN
    /\ mail.pc = "change"
    /\ exists' = (exists /\ e \notin {"delete", "merge"})
    /\ IF e = "disown" THEN Disown(mail.user)
       ELSE /\ maintainer' = CASE e = "adopt" -> mail.user
                               [] e \in {"delete", "merge"} -> NoUser
                               [] OTHER -> maintainer
            /\ comaintainers' = CASE e = "addCo" -> comaintainers \cup {mail.other}
                                  [] e = "removeCo" -> comaintainers \ {mail.other}
                                  [] e \in {"delete", "merge"} -> {}
                                  [] OTHER -> comaintainers
    /\ requester' = IF e = "open" THEN mail.user ELSE requester
    /\ watch' = IF e \in {"delete", "merge"} THEN {} ELSE watch
    /\ mail' = IF e = "merge" THEN Idle
               ELSE [mail EXCEPT !.pc = IF e \in MadeFirst THEN "send" ELSE "make"]
    /\ UNCHANGED <<hide, suspended, due, told>>

-----------------------------------------------------------------------------
(* Making a notification *)

\* An event of a base that is not there any more is an error.
Make == LET e == mail.event IN
    /\ mail.pc = "make" /\ e \notin Request
    /\ mail' = IF e # "resetkey" /\ ~ exists THEN Idle
               ELSE [mail EXCEPT !.to = Recipients(e, mail.user, mail.other),
                                 !.pc = IF e \in MadeFirst THEN "change" ELSE "send"]
    /\ UNCHANGED <<base, settings, due, told>>

\* On the web the query runs once for the Cc list and once for the Bcc list;
\* on the command line both see one snapshot.
MakeCc ==
    /\ mail.pc = "make" /\ mail.event \in Request
    /\ mail' = [mail EXCEPT !.cc = Parties(mail.event) \ hide,
                            !.bcc = IF Interface = "cli" THEN Parties(mail.event) \cap hide ELSE {},
                            !.pc = IF Interface = "cli" THEN "send" ELSE "bcc"]
    /\ UNCHANGED <<base, settings, due, told>>

MakeBcc ==
    /\ mail.pc = "bcc"
    /\ mail' = [mail EXCEPT !.bcc = Parties(mail.event) \cap hide, !.pc = "send"]
    /\ UNCHANGED <<base, settings, due, told>>

\* _send: SMTP is given every address, sendmail the headers of the mail.
Send ==
    /\ mail.pc = "send"
    /\ told' = (mail.to \X {"to"}) \cup (mail.cc \X {"cc"})
             \cup (IF Transport = "smtp" THEN mail.bcc \X {"bcc"} ELSE {})
    /\ mail' = Idle
    /\ UNCHANGED <<base, settings, due>>

-----------------------------------------------------------------------------
(* Settings.  A user who stops to watch or is suspended need not be told.  *)

Forget(u) == due' = due \ {u}

Watch(u) ==
    /\ "watch" \in Setting /\ exists
    /\ watch' = IF u \in watch THEN watch \ {u} ELSE watch \cup {u}
    /\ Forget(u)
    /\ UNCHANGED <<base, hide, suspended, mail, told>>

Suspend(u) ==
    /\ "suspend" \in Setting /\ u \notin suspended
    /\ suspended' = suspended \cup {u}
    /\ Forget(u)
    /\ UNCHANGED <<base, watch, hide, mail, told>>

HideEmail(u) ==
    /\ "hide" \in Setting
    /\ hide' = IF u \in hide THEN hide \ {u} ELSE hide \cup {u}
    /\ UNCHANGED <<base, watch, suspended, mail, due, told>>

Next ==
    \/ Start \/ StartCo \/ StartRequest \/ StartReset
    \/ Change \/ Make \/ MakeCc \/ MakeBcc \/ Send
    \/ \E u \in User : Watch(u) \/ Suspend(u) \/ HideEmail(u)

Spec == Init /\ [][Next]_vars

-----------------------------------------------------------------------------
(* Properties.                                                             *)

\* When a handler has ended, everybody was told whom the event concerned and
\* who did not leave in the meantime (the queries of the notifications).
EveryoneIsTold == mail.pc = "idle" => due \subseteq {t[1] : t \in told}

\* Nobody is in two headers of a mail (RequestCloseNotification).
NobodyTwice == \A s, t \in told : s[1] = t[1] => s = t

\* The address of a user who hides it is in no header that others can read.
HiddenIsNotShown == \A t \in told : t[2] = "cc" => t[1] \notin hide

\* Once a user is suspended, no notification is made for them, but that of
\* being taken off or put on a list of co-maintainers (User.Suspended == 0).
StepSparesSuspended ==
    ((mail'.to \cup mail'.cc \cup mail'.bcc) \ (mail.to \cup mail.cc \cup mail.bcc))
        \cap suspended \subseteq {mail.other}
=============================================================================

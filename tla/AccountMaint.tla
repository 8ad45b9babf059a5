---------------------------- MODULE AccountMaint ----------------------------
(***************************************************************************)
(* aurweb-accountmaint: it mails the accounts that never verified their    *)
(* address, and later deletes them.  What decides is how long ago things   *)
(* happened, so the model keeps ages instead of times, each up to the      *)
(* largest that makes a difference.  A run of the script is short compared *)
(* with the unit of the clock; users act between its steps.                *)
(*                                                                         *)
(* An operator whose name ends in _Bug is the definition that follows it,  *)
(* with a mistake that the properties at the end have to catch.  Nothing   *)
(* uses it.                                                                *)
(***************************************************************************)
EXTENDS Naturals, FiniteSets

CONSTANTS
    User,      \* rows of Users; a deleted one may be registered again
    Elevated,  \* those with another account type than User
    Config,    \* values options.unverified_account_lifetime and _warning and
               \* email_verification_ttl may have, and the gap between two runs
    BatchSize,
    Run,       \* runs of the script at the same time
    Ops,       \* what users do in this instance
    Faults     \* "crash"; "lost": the mail server does not take a mail

\* Assumptions about the constants, which MCCron makes for its instances.
ConfigAssumption ==
    \A c \in Config : /\ c.lifetime \in Nat /\ c.warning \in Nat
                      /\ c.ttl \in Nat \ {0} /\ c.gap \in 1..c.ttl
ElevatedAssumption == Elevated \subseteq User
BatchAssumption == BatchSize \in Nat \ {0}

VARIABLES
    config,     \* the configuration
    row,        \* Users
    sinceRun,   \* how long ago the script last started
    run,        \* its runs
    sinceMail,  \* history: how long ago an account got its last reminder
    past        \* history: what an account has done since it was registered

vars == <<config, row, sinceRun, run, sinceMail, past>>

\* Ages from here on are all the same, and mean never.
Max(c) == (IF c.lifetime > c.warning + c.ttl THEN c.lifetime ELSE c.warning + c.ttl) + 1
Never  == Max(config)

Gone == [here |-> FALSE, age |-> 0, seen |-> 0, token |-> 0, verified |-> FALSE,
         suspended |-> FALSE, content |-> FALSE]
IdleRun == [pc |-> "idle", users |-> {}, noLink |-> {}]

Here(u) == row[u].here

TypeOK ==
    /\ config \in Config
    /\ row \in [User -> [here : BOOLEAN, age : 0..Never, seen : 0..Never,
                         token : 0..config.ttl, verified : BOOLEAN,
                         suspended : BOOLEAN, content : BOOLEAN]]
    /\ \A u \in User : ~ Here(u) => row[u] = Gone
    /\ sinceRun \in 0..config.gap
    /\ run \in [Run -> [pc : {"idle", "issue", "build", "send", "expired", "delete"},
                        users : SUBSET User, noLink : SUBSET User]]
    /\ \A r \in Run : run[r].noLink \subseteq run[r].users
    /\ sinceMail \in [User -> 0..Never]
    /\ past \in [User -> SUBSET {"login", "verified", "suspended"}]

Init ==
    /\ config \in Config
    /\ row = [u \in User |-> Gone]
    /\ sinceRun = 0
    /\ run = [r \in Run |-> IdleRun]
    /\ sinceMail = [u \in User |-> Never]
    /\ past = [u \in User |-> {}]

-----------------------------------------------------------------------------
(* Users, through the other parts of aurweb *)

Change(u, r) == row' = [row EXCEPT ![u] = r]
Did(u, what) == past' = [past EXCEPT ![u] = @ \cup {what}]

\* account_register_post: with a token, and a LastLogin of 0.
Register(u) ==
    /\ "register" \in Ops /\ ~ Here(u)
    /\ Change(u, [Gone EXCEPT !.here = TRUE, !.token = config.ttl, !.seen = Never])
    /\ past' = [past EXCEPT ![u] = {}]
    /\ sinceMail' = [sinceMail EXCEPT ![u] = Never]
    /\ UNCHANGED <<config, sinceRun, run>>

\* User.login or log_ssh_login; neither asks for a verified address.
Login(u) ==
    /\ "login" \in Ops /\ Here(u) /\ ~ row[u].suspended
    /\ Change(u, [row[u] EXCEPT !.seen = 0])
    /\ Did(u, "login")
    /\ UNCHANGED <<config, sinceRun, run, sinceMail>>

\* account_verify
Verify(u) ==
    /\ "verify" \in Ops /\ Here(u) /\ ~ row[u].verified /\ row[u].token > 0
    /\ Change(u, [row[u] EXCEPT !.verified = TRUE, !.token = 0])
    /\ Did(u, "verified")
    /\ UNCHANGED <<config, sinceRun, run, sinceMail>>

\* update.simple with another address; a session may be older than the
\* lifetime, and LastLogin is as old as the session.
ChangeEmail(u) ==
    /\ "change email" \in Ops /\ Here(u) /\ ~ row[u].suspended /\ "login" \in past[u]
    /\ Change(u, [row[u] EXCEPT !.verified = FALSE, !.token = config.ttl])
    /\ UNCHANGED <<config, sinceRun, run, sinceMail, past>>

\* update.suspend
Suspend(u) ==
    /\ "suspend" \in Ops /\ Here(u) /\ ~ row[u].suspended
    /\ Change(u, [row[u] EXCEPT !.suspended = TRUE])
    /\ Did(u, "suspended")
    /\ UNCHANGED <<config, sinceRun, run, sinceMail>>

\* A package, a comment, a vote, a request, a notification or a proposal.
AddContent(u) ==
    /\ "content" \in Ops /\ Here(u) /\ ~ row[u].suspended /\ ~ row[u].content
    /\ Change(u, [row[u] EXCEPT !.content = TRUE])
    /\ UNCHANGED <<config, sinceRun, run, sinceMail, past>>

-----------------------------------------------------------------------------
(* aurweb-accountmaint *)

CheckConfig_Bug == config.warning < config.lifetime \* does not look at the TTL

\* check_config
CheckConfig == config.warning < config.lifetime /\ config.ttl < config.warning

\* _doomed
Doomed(u) ==
    /\ Here(u) /\ ~ row[u].verified /\ u \notin Elevated
    /\ row[u].seen > config.lifetime
    /\ ~ row[u].content

\* expiring
Expiring(u) ==
    /\ Doomed(u) /\ ~ row[u].suspended
    /\ config.warning < row[u].age /\ row[u].age <= config.warning + config.ttl
    /\ row[u].token = 0

Expired_Bug(u) == \* suspended accounts stay, as they are not warned
    Doomed(u) /\ row[u].age > config.lifetime /\ ~ row[u].suspended

\* expired
Expired(u) == Doomed(u) /\ row[u].age > config.lifetime

Goto(r, pc, users) == run' = [run EXCEPT ![r] = [pc |-> pc, users |-> users, noLink |-> {}]]
End(r)             == run' = [run EXCEPT ![r] = IdleRun]
AfterWarning(r)    == Goto(r, "expired", {})

\* _main, up to the read in _warn.
Start(r) ==
    /\ run[r].pc = "idle" /\ CheckConfig
    /\ sinceRun' = 0
    /\ LET users == {u \in User : Expiring(u)}
       IN  IF users = {} THEN AfterWarning(r) ELSE Goto(r, "issue", users)
    /\ UNCHANGED <<config, row, sinceMail, past>>

\* The transaction of _warn; a row that is gone makes the UPDATE fail.
Issue(r) == LET users == run[r].users IN
    /\ run[r].pc = "issue"
    /\ IF \A u \in users : Here(u)
       THEN /\ row' = [u \in User |-> IF u \in users
                 THEN [row[u] EXCEPT !.token = config.ttl] ELSE row[u]]
            /\ Goto(r, "build", users)
       ELSE End(r) /\ UNCHANGED row
    /\ UNCHANGED <<config, sinceRun, sinceMail, past>>

\* All notifications are built, with their links, before the first is sent.
\* For an account that has been suspended since there is none, and the
\* exception ends the run.
Build(r) == LET users == run[r].users IN
    /\ run[r].pc = "build"
    /\ IF \A u \in users : Here(u) /\ ~ row[u].suspended
       THEN run' = [run EXCEPT ![r].pc = "send",
                               ![r].noLink = {u \in users : row[u].token = 0}]
       ELSE End(r)
    /\ UNCHANGED <<config, row, sinceRun, sinceMail, past>>

\* Notification.send logs what the mail server says and goes on; a link that
\* is missing, of an account that has been verified since, ends the run.
Send(r) == \E u \in run[r].users :
    /\ run[r].pc = "send"
    /\ IF u \in run[r].noLink THEN End(r) /\ UNCHANGED sinceMail
       ELSE /\ run' = [run EXCEPT ![r].users = @ \ {u}]
            /\ \/ sinceMail' = [sinceMail EXCEPT ![u] = 0]
               \/ "lost" \in Faults /\ UNCHANGED sinceMail
    /\ UNCHANGED <<config, row, sinceRun, past>>

Warned(r) ==
    /\ run[r].pc = "send" /\ run[r].users = {}
    /\ AfterWarning(r)
    /\ UNCHANGED <<config, row, sinceRun, sinceMail, past>>

\* The read of _delete.
ReadExpired(r) ==
    /\ run[r].pc = "expired"
    /\ LET users == {u \in User : Expired(u)}
       IN  IF users = {} THEN End(r) ELSE Goto(r, "delete", users)
    /\ UNCHANGED <<config, row, sinceRun, sinceMail, past>>

\* A transaction of _delete: the rows with these IDs, whatever they are now.
Delete(r) == \E batch \in SUBSET run[r].users :
    /\ run[r].pc = "delete"
    /\ batch # {}
    /\ \/ Cardinality(batch) = BatchSize
       \/ Cardinality(batch) < BatchSize /\ batch = run[r].users
    /\ row' = [u \in User |-> IF u \in batch THEN Gone ELSE row[u]]
    /\ IF batch = run[r].users THEN End(r)
                               ELSE Goto(r, "delete", run[r].users \ batch)
    /\ UNCHANGED <<config, sinceRun, sinceMail, past>>

Crash(r) ==
    /\ "crash" \in Faults /\ run[r].pc # "idle"
    /\ End(r)
    /\ UNCHANGED <<config, row, sinceRun, sinceMail, past>>

\* Cron runs the script at least once in the gap.
Tick ==
    /\ \A r \in Run : run[r].pc = "idle"
    /\ CheckConfig => sinceRun < config.gap
    /\ sinceRun' = IF sinceRun < config.gap THEN sinceRun + 1 ELSE sinceRun
    /\ LET Older(n) == IF n < Never THEN n + 1 ELSE n IN
       /\ row' = [u \in User |-> IF ~ Here(u) THEN Gone ELSE
            [row[u] EXCEPT !.age = Older(@), !.seen = Older(@),
                           !.token = IF @ = 0 THEN 0 ELSE @ - 1]]
       /\ sinceMail' = [u \in User |-> Older(sinceMail[u])]
    /\ UNCHANGED <<config, run, past>>

Cron(r) == Start(r) \/ Issue(r) \/ Build(r) \/ Send(r) \/ Warned(r) \/ ReadExpired(r) \/ Delete(r)

Next ==
    \/ \E u \in User : \/ Register(u) \/ Login(u) \/ Verify(u) \/ ChangeEmail(u)
                       \/ Suspend(u) \/ AddContent(u)
    \/ \E r \in Run : Cron(r) \/ Crash(r)
    \/ Tick

Spec == Init /\ [][Next]_vars

-----------------------------------------------------------------------------
(* Properties. *)

Deletes(u) == Here(u) /\ ~ Here(u)'

\* Whatever the configuration the script accepts, no account is deleted that
\* has not been sent a reminder first, unless it has been suspended.
StepSparesTheUnwarned ==
    \A u \in User : Deletes(u) /\ "suspended" \notin past[u] => sinceMail[u] < Never

\* "otherwise accounts are deleted before -- or as -- they are warned": the
\* reminder is older than the run that deletes.
StepDeletesLater ==
    \A u \in User : Deletes(u) /\ "suspended" \notin past[u] => sinceMail[u] \in 1..Never - 1

\* "an account is mailed at most once per token TTL no matter how often this
\* runs"
StepMailsOncePerTtl ==
    \A u \in User, r \in Run :
         run[r].pc = "send" /\ u \in run[r].users \ run'[r].users /\ sinceMail'[u] = 0
           => sinceMail[u] >= config.ttl

\* "anything with a package, comment, vote, request or notification survives
\* regardless of age"
StepSparesContent == \A u \in User : Deletes(u) => ~ row[u].content

\* "accounts that never verified"
StepSparesVerified == \A u \in User : Deletes(u) => "verified" \notin past[u]

\* doc/maintenance.txt: "An account is spared ... if it has ever logged in or
\* used ssh".
StepSparesAuthenticated == \A u \in User : Deletes(u) => "login" \notin past[u]

\* What is to be deleted: an account that nobody verifies or uses, and that
\* does not stay for ever, whatever else users do and although every run looks
\* at a moving set.
Abandoned(u) == CheckConfig /\ Doomed(u)
=============================================================================

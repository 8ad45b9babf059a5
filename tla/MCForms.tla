------------------------------ MODULE MCForms -------------------------------
(***************************************************************************)
(* Small instances, for TLC, of three parts of the web that write in more  *)
(* than one transaction: the form of the search page (BulkActions), the    *)
(* mails about a package base (Notifications) and the addresses of         *)
(* accounts (Addresses).  They share no tables, so that a behaviour        *)
(* explores one of them, in one of the settings below; the variables of    *)
(* the others stay Off.  Components that call a variable alike             *)
(* (maintainer, due, told, job) have it in common here.                    *)
(***************************************************************************)
EXTENDS Naturals, FiniteSets, TLC

CONSTANTS
    Worker,      \* workers at the same time; w0 works alone
    Base,        \* package bases of BulkActions
    w0

VARIABLES
    setting,
    bases, flagger, watches, asks, deleted, forms, others,               \* BulkActions
    exists, comaintainers, watch, hide, suspended, requester, mail,      \* Notifications
    row, nextToken, mailed, original, mintedFor,                         \* Addresses
    maintainer, due, told, job

bulk      == <<bases, flagger, watches, asks, deleted, forms, others>>
notify    == <<exists, comaintainers, watch, hide, suspended, requester, mail>>
addresses == <<row, nextToken, mailed, original, mintedFor>>

vars == <<setting, bulk, notify, addresses, maintainer, due, told, job>>

Off == {}

BulkOff      == /\ bases = Off /\ flagger = Off /\ watches = Off /\ asks = Off
                /\ deleted = Off /\ forms = Off /\ others = Off
NotifyOff    == /\ exists = Off /\ comaintainers = Off /\ watch = Off /\ hide = Off
                /\ suspended = Off /\ requester = Off /\ mail = Off
AddressesOff == /\ row = Off /\ nextToken = Off /\ mailed = Off
                /\ original = Off /\ mintedFor = Off
SharedOff    == maintainer = Off /\ due = Off /\ told = Off

-----------------------------------------------------------------------------
AllActions == {"unflag", "notify", "unnotify", "adopt", "disown", "delete"}

BulkAlone == INSTANCE BulkActions WITH
    User <- {"u", "pm"}, Elevated <- {"pm"}, Nobody <- "nobody", Worker <- {w0},
    Actions <- AllActions, MaxForm <- 3, MaxOther <- 0
BulkRace == INSTANCE BulkActions WITH
    User <- {"u", "pm"}, Elevated <- {"pm"}, Nobody <- "nobody",
    Actions <- {"notify", "unnotify", "adopt", "delete"}, MaxForm <- 2, MaxOther <- 0
BulkOthers == INSTANCE BulkActions WITH
    User <- {"u", "pm"}, Elevated <- {"pm"}, Nobody <- "nobody", Worker <- {w0},
    Actions <- AllActions, MaxForm <- 1, MaxOther <- 1

\* One user wants every kind of mail, the other some of them.
TwoWant == [u \in {"a", "b"} |-> IF u = "a" THEN {"comment", "update", "ownership"} ELSE {"comment"}]
ThreeWant == [u \in {"a", "b", "c"} |-> IF u = "c" THEN {} ELSE TwoWant[u]]

Events == INSTANCE Notifications WITH
    User <- {"a", "b", "c"}, NoUser <- "nobody", Wants <- ThreeWant, Transport <- "smtp",
    Interface <- "web", Setting <- {"watch"},
    Event <- {"comment", "update", "adopt", "disown", "delete", "flag", "addCo", "resetkey"}
Settings == INSTANCE Notifications WITH
    User <- {"a", "b"}, NoUser <- "nobody", Wants <- TwoWant, Transport <- "smtp",
    Interface <- "cli", Setting <- {"suspend", "hide"}, Event <- {"update", "open", "removeCo"}
Hidden == INSTANCE Notifications WITH
    User <- {"a", "b"}, NoUser <- "nobody", Wants <- TwoWant, Transport <- "smtp",
    Interface <- "web", Setting <- {"suspend"}, Event <- {"open", "close", "adopt"}

\* Two ways to write one mailbox, and another mailbox.
Mailbox == [e \in {"a", "A", "b"} |-> IF e = "b" THEN "b" ELSE "a"]

Mailboxes == INSTANCE Addresses WITH
    User <- {"u", "v", "w"}, NoUser <- "nobody", Address <- DOMAIN Mailbox, NoAddress <- "none",
    Normal <- Mailbox, Null <- "null", MaxToken <- 3
Links == INSTANCE Addresses WITH
    User <- {"u", "v"}, NoUser <- "nobody", Address <- DOMAIN Mailbox, NoAddress <- "none",
    Normal <- Mailbox, Null <- "null", MaxToken <- 4, Worker <- {w0}

ASSUME ConstantsAssumption ==
    /\ BulkAlone!UserAssumption /\ BulkAlone!ActionAssumption /\ BulkAlone!BoundAssumption
    /\ BulkRace!ActionAssumption
    /\ Events!UserAssumption /\ Settings!UserAssumption /\ Hidden!UserAssumption
    /\ Events!WantsAssumption /\ Events!EventAssumption /\ Events!SettingAssumption
    /\ Settings!WantsAssumption /\ Settings!EventAssumption /\ Settings!SettingAssumption
    /\ Hidden!EventAssumption /\ Hidden!SettingAssumption
    /\ Mailboxes!NormalAssumption /\ Mailboxes!BoundAssumption /\ Links!BoundAssumption

\* Two accounts share a mailbox from before the migration.
SharedMailbox ==
    /\ row["u"] = [Mailboxes!NoRow EXCEPT !.state = "here", !.Email = "a",
                       !.NormalizedEmail = "a", !.verified = TRUE]
    /\ row["v"] = [Mailboxes!NoRow EXCEPT !.state = "here", !.Email = "A", !.verified = TRUE]

-----------------------------------------------------------------------------
Init ==
    \/ /\ NotifyOff /\ AddressesOff
       /\ \/ setting = "bulk" /\ BulkAlone!Init
          \/ setting = "bulk race" /\ BulkRace!Init
          \/ setting = "bulk others" /\ BulkOthers!Init
    \/ /\ BulkOff /\ AddressesOff /\ job = Off
       /\ \/ setting = "events" /\ Events!Init
          \/ setting = "settings" /\ Settings!Init
          \/ setting = "hidden" /\ Hidden!Init
    \/ /\ BulkOff /\ NotifyOff /\ SharedOff
       /\ \/ setting = "mailboxes" /\ Mailboxes!Init /\ SharedMailbox
          \/ setting = "links" /\ Links!Init /\ \A u \in DOMAIN row : row[u] = Links!NoRow

Next ==
    /\ UNCHANGED setting
    /\ \/ /\ UNCHANGED <<notify, addresses>>
          /\ \/ setting = "bulk" /\ BulkAlone!Next
             \/ setting = "bulk race" /\ BulkRace!Next
             \/ setting = "bulk others" /\ BulkOthers!Next
       \/ /\ UNCHANGED <<bulk, addresses, job>>
          /\ \/ setting = "events" /\ Events!Next
             \/ setting = "settings" /\ Settings!Next
             \/ setting = "hidden" /\ Hidden!Next
       \/ /\ UNCHANGED <<bulk, notify, maintainer, due, told>>
          /\ \/ setting = "mailboxes" /\ Mailboxes!Next
             \/ setting = "links" /\ Links!Next

Spec == Init /\ [][Next]_vars

Symmetry == Permutations(Worker) \cup Permutations(Base)

-----------------------------------------------------------------------------
(* The properties of the components, each in the settings that keep it and *)
(* with the type invariant of its component.                               *)

\* A form that answers that it is done has done it; what it deletes is logged
\* and mailed; an error with one base does not keep it from the others; and it
\* fails only for what somebody else has done meanwhile (packages_post).
FormIsHonest ==
    /\ setting = "bulk" => /\ BulkAlone!TypeOK
                           /\ BulkAlone!AnsweredAsDone
                           /\ BulkAlone!DeletedIsTold
                           /\ BulkAlone!ErrorsStopNothing
    /\ setting = "bulk race" => BulkRace!FailsForAReason
    /\ setting = "bulk others" => BulkOthers!FailsForAReason

\* Whom an event concerns is told of it, in one header of the mail, and a hidden
\* address is in none that others can read (notify.py).
EveryoneIsTold ==
    /\ setting = "events" => Events!TypeOK /\ Events!EveryoneIsTold
    /\ setting = "settings" => Settings!EveryoneIsTold
    /\ setting = "hidden" => /\ Hidden!EveryoneIsTold
                             /\ Hidden!NobodyTwice
                             /\ Hidden!HiddenIsNotShown

\* No mail is made for a suspended user, but the one about being on a list of
\* co-maintainers, and no second link while the first is cooling (in_cooldown).
NobodyIsPestered ==
    [][/\ setting = "settings" => Settings!StepSparesSuspended
       /\ setting = "links" => Links!StepWaitsForCooldown]_vars

\* No two accounts have one mailbox, but those that had it before.
OneAccountPerMailbox == setting = "mailboxes" => Mailboxes!TypeOK /\ Mailboxes!OneAccountPerMailbox

\* An address is verified by a link that was mailed to it (account_verify).
VerifiedByItsOwnLink == [][setting = "links" => Links!StepVerifiesItsOwn]_vars
=============================================================================

------------------------------ MODULE MCPages -------------------------------
(***************************************************************************)
(* Small instances, for TLC, of what happens on the page of a package      *)
(* base: Votes, Comaintainers and BasePage.  They share no tables, so that *)
(* a behaviour explores one of them, in one of the settings below; the     *)
(* variables of the others stay Off.  Components that call a variable      *)
(* alike (job, rows) have it in common here.                               *)
(***************************************************************************)
EXTENDS Naturals, FiniteSets, TLC

CONSTANTS
    Worker,      \* workers at the same time; w0 works alone
    Package,     \* package bases of Votes
    Candidate,   \* users of Comaintainers
    w0, NoBase, NoUser, Ghost, NoText

VARIABLES
    setting,
    exists, rows, NumVotes, fresh, started, refused,       \* Votes
    maintainer, nextRow, untold,                           \* Comaintainers
    comment, keywords, flag, forms, flags, mailed,         \* BasePage
    job

votes    == <<exists, NumVotes, fresh, started, refused>>
comaints == <<maintainer, nextRow, untold>>
page     == <<comment, keywords, flag, forms, flags, mailed>>

vars == <<setting, votes, comaints, page, rows, job>>

Off == {}

VotesOff    == exists = Off /\ NumVotes = Off /\ fresh = Off /\ started = Off /\ refused = Off
ComaintsOff == maintainer = Off /\ nextRow = Off /\ untold = Off
PageOff     == /\ comment = Off /\ keywords = Off /\ flag = Off
               /\ forms = Off /\ flags = Off /\ mailed = Off

-----------------------------------------------------------------------------
VotesAlone == INSTANCE Votes WITH
    User <- {"u", "v"}, Base <- Package, Worker <- {w0},
    Op <- {"add", "remove", "sshVote", "sshUnvote", "merge"}, MaxOps <- 6

\* Package Maintainers do not merge at the same time.
VotesRace == INSTANCE Votes WITH
    User <- {"u", "v"}, Base <- Package,
    Op <- {"add", "remove", "sshVote", "merge"}, MaxOps <- 5

OneMerge == Cardinality({w \in Worker : job[w].into # NoBase}) <= 1

Succession == INSTANCE Comaintainers WITH
    User <- Candidate, Worker <- {w0}, Op <- {"form", "disown", "adopt"}, MaxRow <- 5
Forms == INSTANCE Comaintainers WITH
    User <- Candidate, Worker <- {w0}, Op <- {"form", "ssh"}, MaxRow <- 5
Roles == INSTANCE Comaintainers WITH
    User <- Candidate, Worker <- {w0}, Op <- {"form", "disown", "elevated", "deadlock"}, MaxRow <- 5

Comments == INSTANCE BasePage WITH
    User <- {"user", "keeper", "pm"}, NoUser <- "nobody", Elevated <- {"pm"}, Keeper <- {"keeper"},
    Comment <- {"c"}, Text <- {"s", "t"}, Keyword <- {"k"}, Worker <- {w0}, Op <- {"comment"}
Others == INSTANCE BasePage WITH
    User <- {"user", "keeper", "pm"}, NoUser <- "nobody", Elevated <- {"pm"}, Keeper <- {"keeper"},
    Comment <- {}, Text <- {"s", "t"}, Keyword <- {"k", "l"}, Worker <- {w0},
    Op <- {"keywords", "sshKeywords", "flag"}
Flags == INSTANCE BasePage WITH
    User <- {"user", "keeper", "pm"}, NoUser <- "nobody", Elevated <- {"pm"}, Keeper <- {"keeper"},
    Comment <- {}, Text <- {"s", "t"}, Keyword <- {}, Op <- {"sshFlag"}

ASSUME ConstantsAssumption ==
    /\ VotesAlone!OpAssumption /\ VotesRace!OpAssumption
    /\ VotesAlone!UserAssumption /\ VotesRace!UserAssumption
    /\ Succession!OpAssumption /\ Forms!OpAssumption /\ Roles!OpAssumption
    /\ Succession!GhostAssumption /\ Succession!UserAssumption
    /\ Comments!RoleAssumption /\ Comments!OpAssumption
    /\ Others!OpAssumption /\ Flags!OpAssumption
    /\ Comments!NoneAssumption /\ Others!NoneAssumption /\ Flags!NoneAssumption

-----------------------------------------------------------------------------
Init ==
    \/ /\ ComaintsOff /\ PageOff
       /\ \/ setting = "votes" /\ VotesAlone!Init
          \/ setting = "votes race" /\ VotesRace!Init
    \/ /\ VotesOff /\ PageOff
       /\ \/ setting = "succession" /\ Succession!Init
          \/ setting = "forms" /\ Forms!Init
          \/ setting = "roles" /\ Roles!Init
    \/ /\ VotesOff /\ ComaintsOff /\ rows = Off
       /\ \/ setting = "comments" /\ Comments!Init
          \/ setting = "others" /\ Others!Init
          \/ setting = "flags" /\ Flags!Init

Next ==
    /\ UNCHANGED setting
    /\ \/ /\ UNCHANGED <<comaints, page>>
          /\ \/ setting = "votes" /\ VotesAlone!Next
             \/ setting = "votes race" /\ VotesRace!Next /\ OneMerge'
       \/ /\ UNCHANGED <<votes, page>>
          /\ \/ setting = "succession" /\ Succession!Next
             \/ setting = "forms" /\ Forms!Next
             \/ setting = "roles" /\ Roles!Next
       \/ /\ UNCHANGED <<votes, comaints, rows>>
          /\ \/ setting = "comments" /\ Comments!Next
             \/ setting = "others" /\ Others!Next
             \/ setting = "flags" /\ Flags!Next

Spec == Init /\ [][Next]_vars

Symmetry == Permutations(Worker) \cup Permutations(Package) \cup Permutations(Candidate)

-----------------------------------------------------------------------------
(* The properties of the components, each in the settings that keep it and *)
(* with the type invariant of its component.                               *)

\* NumVotes is right, but for a handler that is about to count (popupdate), so
\* that a vote that is there can be withdrawn over SSH (pkgbase_unvote).
CountIsRight ==
    /\ setting = "votes" => /\ VotesAlone!TypeOK
                            /\ VotesAlone!CountIsRight
                            /\ VotesAlone!UnvoteIsNotRefused
    /\ setting = "votes race" => VotesRace!CountIsRight

\* What was voted for and watched stays so when bases are merged (_retry_merge),
\* and a flag stays as it was set until it is taken away (pkgbase_flag).
NothingIsLost ==
    [][/\ setting = "votes" => VotesAlone!StepLosesNothing
       /\ setting = "flags" => Flags!StepKeepsFlag]_vars

\* Whoever became a co-maintainer earlier is before in line; the priorities are
\* 1 to n (rotate_comaintainers), no user has two of them, and the maintainer has
\* none, whatever is tried again after a deadlock.
LineOfSuccession ==
    /\ setting = "succession" => Succession!TypeOK /\ Succession!Seniority
    /\ setting = "forms" => Forms!SequentialPriorities /\ Forms!OneRowPerUser
    /\ setting = "roles" => Roles!MaintainerIsNoComaintainer

\* Whoever is removed from the co-maintainers by a form, a succession or their
\* own disowning gets a mail about it (remove_comaintainers, remove_comaintainer).
RemovedAreTold == setting = "succession" => Succession!RemovedAreTold

\* The HTML of a comment is that of its text (update_comment_render), the
\* keywords are those of one form (pkgbase_keywords), and a mail about a flag
\* tells that flag (FlagNotification).
PageIsAsWritten ==
    /\ setting = "comments" => Comments!TypeOK /\ Comments!RenderedIsTheText
    /\ setting = "others" => Others!KeywordsOfOneForm /\ Others!MailTellsTheFlag
=============================================================================

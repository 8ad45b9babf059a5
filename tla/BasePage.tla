------------------------------ MODULE BasePage ------------------------------
(***************************************************************************)
(* What users write on the page of one package base: comments, keywords    *)
(* and the out-of-date flag.  Handlers check in autocommit mode and write  *)
(* in transactions; a comment is rendered after it is saved, and the HTML  *)
(* is saved in a transaction of its own.                                   *)
(*                                                                         *)
(* An operator whose name ends in _Bug is the definition that follows it,  *)
(* with a mistake that the properties at the end have to catch.  Nothing   *)
(* uses it.                                                                *)
(***************************************************************************)
EXTENDS Naturals, FiniteSets

CONSTANTS
    User,
    NoUser,
    Elevated,     \* Package Maintainers and Developers
    Keeper,       \* the maintainer and the co-maintainers
    Comment,      \* rows of PackageComments
    Text,         \* of comments, and of the comment of a flag
    NoText,
    Keyword,
    Worker,       \* web workers and SSH sessions
    Op            \* operations of this instance

\* Assumptions about the constants, which MCPages makes for its instances.
RoleAssumption == Elevated \subseteq User /\ Keeper \subseteq User
NoneAssumption == NoUser \notin User /\ NoText \notin Text
OpAssumption == Op \subseteq {"comment", "keywords", "flag", "sshKeywords", "sshFlag"}

VARIABLES
    comment,      \* PackageComments
    keywords,     \* PackageKeywords
    flag,         \* OutOfDateTS, FlaggerUID and FlaggerComment
    job,          \* what the workers do
    forms,        \* history: the sets of keywords that were submitted
    flags,        \* history: who flagged the base, with which comment
    mailed        \* history: the mails about flags, as they read

vars == <<comment, keywords, flag, job, forms, flags, mailed>>

NoComment == [user |-> NoUser, Comments |-> NoText, RenderedComment |-> NoText,
              Deleter |-> NoUser, pinned |-> FALSE]
NoFlag    == [set |-> FALSE, Flagger |-> NoUser, FlaggerComment |-> NoText]
IdleJob   == [pc |-> "idle", user |-> NoUser, comment |-> {}, text |-> NoText,
              keep |-> {}, new |-> {}, old |-> {}]

At(w, pc)  == job[w].pc = pc
Written(c) == comment[c] # NoComment
Mine(w)    == CHOOSE c \in job[w].comment : TRUE

TypeOK ==
    /\ comment \in [Comment -> [user : User \cup {NoUser}, Comments : Text \cup {NoText},
                                RenderedComment : Text \cup {NoText},
                                Deleter : User \cup {NoUser}, pinned : BOOLEAN]]
    /\ keywords \subseteq Keyword
    /\ flag \in [set : BOOLEAN, Flagger : User \cup {NoUser}, FlaggerComment : Text \cup {NoText}]
    /\ flag.set => flag.Flagger # NoUser /\ flag.FlaggerComment # NoText
    /\ job \in [Worker -> [pc : {"idle", "edit", "render", "save", "keywords", "flag", "mail"},
                           user : User \cup {NoUser}, comment : SUBSET Comment,
                           text : Text \cup {NoText},
                           keep : SUBSET Keyword, new : SUBSET Keyword, old : SUBSET Keyword]]
    /\ forms \subseteq SUBSET Keyword
    /\ flags \subseteq User \X Text
    /\ mailed \subseteq User \X (Text \cup {NoText})

Init ==
    /\ comment = [c \in Comment |-> NoComment]
    /\ keywords = {} /\ flag = NoFlag
    /\ job = [w \in Worker |-> IdleJob]
    /\ forms = {{}} /\ flags = {} /\ mailed = {}

-----------------------------------------------------------------------------
(* Helpers *)

Become(w, j) == job' = [job EXCEPT ![w] = j]
End(w)       == Become(w, IdleJob)
Ready(w, op) == At(w, "idle") /\ op \in Op
OtherThanComments == UNCHANGED <<keywords, flag, forms, flags, mailed>>
OtherThanFlags    == UNCHANGED <<comment, keywords, forms>>
OtherThanKeywords == UNCHANGED <<comment, flag, flags, mailed>>

-----------------------------------------------------------------------------
(* Comments *)

\* pkgbase_comments_post: the row, and then its HTML.
Post(w) == \E c \in Comment, u \in User, t \in Text :
    /\ Ready(w, "comment") /\ ~ Written(c)
    /\ comment' = [comment EXCEPT ![c] = [NoComment EXCEPT !.user = u, !.Comments = t]]
    /\ Become(w, [IdleJob EXCEPT !.pc = "render", !.comment = {c}])
    /\ OtherThanComments

\* pkgbase_comment_post compares with the text it has read.
EditCheck(w) == \E c \in Comment, t \in Text :
    /\ Ready(w, "comment") /\ Written(c)
    /\ Become(w, [IdleJob EXCEPT !.pc = IF comment[c].Comments = t THEN "render" ELSE "edit",
                                 !.comment = {c}, !.text = t])
    /\ UNCHANGED comment /\ OtherThanComments

Edit_Bug(w) == \* not rendered again
    /\ At(w, "edit")
    /\ comment' = [comment EXCEPT ![Mine(w)].Comments = job[w].text]
    /\ End(w)
    /\ OtherThanComments

Edit(w) ==
    /\ At(w, "edit")
    /\ comment' = [comment EXCEPT ![Mine(w)].Comments = job[w].text]
    /\ Become(w, [job[w] EXCEPT !.pc = "render"])
    /\ OtherThanComments

\* update_comment_render reads the text as it is now
Render(w) ==
    /\ At(w, "render")
    /\ Become(w, [job[w] EXCEPT !.pc = "save", !.text = comment[Mine(w)].Comments])
    /\ UNCHANGED comment /\ OtherThanComments

\* and saves the HTML of what it has read.
SaveRendered(w) ==
    /\ At(w, "save")
    /\ comment' = [comment EXCEPT ![Mine(w)].RenderedComment = job[w].text]
    /\ End(w)
    /\ OtherThanComments

\* The author, or whoever is elevated.
Delete(c, u) ==
    /\ "comment" \in Op /\ Written(c) /\ u \in Elevated \cup {comment[c].user}
    /\ comment' = [comment EXCEPT ![c].Deleter = u]
    /\ UNCHANGED <<keywords, flag, job, forms, flags, mailed>>

Undelete(c, u) ==
    /\ "comment" \in Op /\ Written(c) /\ u \in Elevated \cup {comment[c].user}
    /\ comment' = [comment EXCEPT ![c].Deleter = NoUser]
    /\ UNCHANGED <<keywords, flag, job, forms, flags, mailed>>

Pin(c, u, p) ==
    /\ "comment" \in Op /\ Written(c) /\ u \in Elevated \cup Keeper
    /\ comment' = [comment EXCEPT ![c].pinned = p]
    /\ UNCHANGED <<keywords, flag, job, forms, flags, mailed>>

-----------------------------------------------------------------------------
(* Keywords *)

\* pkgbase_keywords: the queries of its transaction.
KeywordsRead(w) == \E K \in SUBSET Keyword :
    /\ Ready(w, "keywords")
    /\ forms' = forms \cup {K}
    /\ Become(w, [IdleJob EXCEPT !.pc = "keywords", !.keep = K,
                                 !.new = K \ keywords, !.old = keywords \ K])
    /\ UNCHANGED keywords /\ OtherThanKeywords

\* Its DELETEs and INSERTs; a keyword that is there by now is an error.
Keywords(w) ==
    /\ At(w, "keywords")
    /\ keywords' = IF job[w].new \cap keywords = {}
                   THEN (keywords \ job[w].old) \cup job[w].new ELSE keywords
    /\ End(w)
    /\ UNCHANGED forms /\ OtherThanKeywords

\* pkgbase_set_keywords, over SSH
SshKeywords(w) == \E K \in SUBSET Keyword :
    /\ Ready(w, "sshKeywords")
    /\ keywords' = K /\ forms' = forms \cup {K}
    /\ UNCHANGED job /\ OtherThanKeywords

-----------------------------------------------------------------------------
(* The out-of-date flag *)

FlagCheck(w) == \E u \in User, t \in Text :
    /\ Ready(w, "flag") /\ ~ flag.set
    /\ Become(w, [IdleJob EXCEPT !.pc = "flag", !.user = u, !.text = t])
    /\ UNCHANGED <<flag, flags, mailed>> /\ OtherThanFlags

\* pkgbase_flag_post
Flag(w) ==
    /\ At(w, "flag")
    /\ flag' = [set |-> TRUE, Flagger |-> job[w].user, FlaggerComment |-> job[w].text]
    /\ flags' = flags \cup {<<job[w].user, job[w].text>>}
    /\ Become(w, [job[w] EXCEPT !.pc = "mail"])
    /\ UNCHANGED mailed /\ OtherThanFlags

\* FlagNotification: the user who flagged, and the comment that is there.
Mail(w) ==
    /\ At(w, "mail")
    /\ mailed' = mailed \cup {<<job[w].user, flag.FlaggerComment>>}
    /\ End(w)
    /\ UNCHANGED <<flag, flags>> /\ OtherThanFlags

\* pkgbase_flag, over SSH: an UPDATE unless the base is flagged, and the mail.
SshFlag(w) == \E u \in User, t \in Text :
    /\ Ready(w, "sshFlag")
    /\ IF flag.set
       THEN UNCHANGED <<flag, flags>>
       ELSE /\ flag' = [set |-> TRUE, Flagger |-> u, FlaggerComment |-> t]
            /\ flags' = flags \cup {<<u, t>>}
    /\ Become(w, [IdleJob EXCEPT !.pc = "mail", !.user = u])
    /\ UNCHANGED mailed /\ OtherThanFlags

\* pkgbase_unflag_instance
Unflag(w) ==
    /\ Ready(w, "flag")
    /\ \E u \in User : u \in Elevated \cup Keeper \cup {flag.Flagger}
    /\ flag' = NoFlag
    /\ UNCHANGED <<comment, keywords, job, forms, flags, mailed>>

\* pkgbase_unflag, over SSH: flagger and comment stay.
SshUnflag(w) ==
    /\ Ready(w, "sshFlag")
    /\ \E u \in User : u \in Keeper \cup {flag.Flagger}
    /\ flag' = [flag EXCEPT !.set = FALSE]
    /\ UNCHANGED <<comment, keywords, job, forms, flags, mailed>>

Next ==
    \/ \E w \in Worker :
         \/ Post(w) \/ EditCheck(w) \/ Edit(w) \/ Render(w) \/ SaveRendered(w)
         \/ KeywordsRead(w) \/ Keywords(w) \/ SshKeywords(w)
         \/ FlagCheck(w) \/ Flag(w) \/ Mail(w) \/ SshFlag(w)
         \/ Unflag(w) \/ SshUnflag(w)
    \/ \E c \in Comment, u \in User :
         Delete(c, u) \/ Undelete(c, u) \/ Pin(c, u, TRUE) \/ Pin(c, u, FALSE)

Spec == Init /\ [][Next]_vars

-----------------------------------------------------------------------------
(* Properties.                                                             *)

\* The HTML of a comment is that of its text, unless a handler is about to
\* save it (update_comment_render).
RenderedIsTheText == \A c \in Comment :
    \/ \E w \in Worker : c \in job[w].comment
    \/ comment[c].RenderedComment = comment[c].Comments

\* The keywords are those of one form or of one SSH command, never a mixture
\* (pkgbase_keywords, pkgbase_set_keywords).
KeywordsOfOneForm == keywords \in forms

\* A flag stays as it was set, until it is taken away (pkgbase_flag).
StepKeepsFlag == flag.set /\ flag'.set => flag' = flag

\* A mail about a flag names a user who flagged the base, with the comment
\* of that flag (FlagNotification).
MailTellsTheFlag == mailed \subseteq flags
=============================================================================

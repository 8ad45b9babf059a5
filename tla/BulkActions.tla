----------------------------- MODULE BulkActions -----------------------------
(***************************************************************************)
(* The form of the package list, which does one thing to all selected      *)
(* packages: POST /packages.                                               *)
(*                                                                         *)
(* The form is checked as a whole.  Then it goes through the bases: it     *)
(* looks at one (Visit) and changes it (Write), each in a transaction of   *)
(* its own.  What it read at first is used until its first commit, which   *)
(* expires what the session holds.  What a change of one base consists of  *)
(* is the subject of PackageRequests, Votes and BasePage: here it is one   *)
(* step.  Bases have no co-maintainers.                                    *)
(*                                                                         *)
(* An operator whose name ends in _Bug is the definition that follows it,  *)
(* with a mistake that the properties at the end have to catch.  Nothing   *)
(* uses it.                                                                *)
(***************************************************************************)
EXTENDS Naturals, FiniteSets

CONSTANTS
    Base, User,
    Elevated,     \* Package Maintainers and Developers
    Nobody,
    Worker,
    Actions,      \* of PACKAGE_ACTIONS, those that are used
    MaxForm,      \* bound: forms
    MaxOther      \* bound: what others do

\* Assumptions about the constants, which MCForms makes for its instances.
UserAssumption == Elevated \subseteq User /\ Nobody \notin User
ActionAssumption ==
    Actions \subseteq {"unflag", "notify", "unnotify", "adopt", "disown", "delete"}
BoundAssumption == MaxForm \in Nat /\ MaxOther \in Nat

VARIABLES
    bases,      \* that exist
    maintainer, flagger,
    watches,    \* pairs: user, base
    asks,       \* pending adoption requests: user, base
    due,        \* bases with a pending orphan request that is due
    job,        \* of a worker: its form
    deleted,    \* history: bases that a form deleted
    told,       \* history: of these, those whose deletion was logged and mailed
    forms, others

vars == <<bases, maintainer, flagger, watches, asks, due, job, deleted, told, forms, others>>
data == <<bases, maintainer, flagger, watches, asks, due>>

IdleJob == [pc |-> "idle", user |-> Nobody, action |-> "none", base |-> Nobody, selected |-> {}, todo |-> {},
            seen |-> {}, done |-> {}, missed |-> {}, errors |-> {}, answer |-> "none"]

TypeOK ==
    /\ bases \subseteq Base /\ due \subseteq bases
    /\ maintainer \in [Base -> User \cup {Nobody}] /\ flagger \in [Base -> User \cup {Nobody}]
    /\ watches \subseteq User \X bases /\ asks \subseteq User \X bases
    /\ told \subseteq deleted /\ deleted \subseteq Base \ bases
    /\ forms \in 0..MaxForm /\ others \in 0..MaxOther
    /\ \A w \in Worker : LET j == job[w] IN
         /\ j.pc \in {"idle", "visit", "write"} /\ j.user \in User \cup {Nobody}
         /\ j.action \in Actions \cup {"none"} /\ j.answer \in {"none", "done", "refused", "failed"}
         /\ j.selected \subseteq Base /\ \A c, d \in j.seen : c = d
         /\ j.todo \cup j.done \cup j.missed \cup j.errors \subseteq j.selected
         /\ j.pc = "write" => j.base \in j.todo /\ j.seen # {}

Init ==
    /\ bases = Base
    /\ maintainer \in [Base -> User \cup {Nobody}]
    /\ flagger \in [Base -> User \cup {Nobody}]
    /\ watches \in {{}, User \X Base} /\ asks = {}
    /\ due \in {{}} \cup {{b} : b \in {c \in Base : maintainer[c] # Nobody}}
    /\ job = [w \in Worker |-> IdleJob]
    /\ deleted = {} /\ told = {} /\ forms = 0 /\ others = 0

-----------------------------------------------------------------------------
(* The form as a whole *)

\* What the actions check of every base before they begin.
MayUnflag(u, b) == u \in Elevated \/ flagger[b] = u
MayNotify(u, b) == <<u, b>> \notin watches
MayUnnotify(u, b) == <<u, b>> \in watches
MayAdopt(u, b) == u \in Elevated \/ maintainer[b] = Nobody
MayDisown(u, b) == u \in Elevated \/ maintainer[b] = u
MayDelete(u) == u \in Elevated

May(u, a, b) ==
    CASE a = "unflag"   -> MayUnflag(u, b)
      [] a = "notify"   -> MayNotify(u, b)
      [] a = "unnotify" -> MayUnnotify(u, b)
      [] a = "adopt"    -> MayAdopt(u, b)
      [] a = "disown"   -> MayDisown(u, b)
      [] a = "delete"   -> MayDelete(u)

\* Bases that are gone are not found, and only packages_delete minds.
Submit(w, u, a, sel) == LET found == sel \cap bases
                            good == (a = "delete" => found = sel) /\ \A b \in found : May(u, a, b) IN
    /\ job[w].pc = "idle" /\ forms < MaxForm
    /\ forms' = forms + 1
    /\ job' = [job EXCEPT ![w] =
         IF good THEN [IdleJob EXCEPT !.pc = "visit", !.user = u, !.action = a, !.selected = found, !.todo = found,
                                      !.seen = {[maintainer |-> maintainer, flagger |-> flagger]}]
         ELSE [IdleJob EXCEPT !.user = u, !.action = a, !.answer = "refused"]]
    /\ UNCHANGED <<data, deleted, told, others>>

Finish_Bug(w) == LET j == job[w] IN \* only a single deletion is told
    /\ j.pc = "visit" /\ j.todo = {}
    /\ job' = [job EXCEPT ![w].pc = "idle", ![w].seen = {},
                          ![w].answer = IF j.errors = {} THEN "done" ELSE "refused"]
    /\ told' = IF j.action = "delete" /\ Cardinality(j.done) = 1 THEN told \cup j.done ELSE told
    /\ UNCHANGED <<data, deleted, forms, others>>

\* packages_delete logs and mails at the end.  packages_disown answers with
\* its errors.
Finish(w) == LET j == job[w] IN
    /\ j.pc = "visit" /\ j.todo = {}
    /\ job' = [job EXCEPT ![w].pc = "idle", ![w].seen = {},
                          ![w].answer = IF j.errors = {} THEN "done" ELSE "refused"]
    /\ told' = IF j.action = "delete" THEN told \cup j.done ELSE told
    /\ UNCHANGED <<data, deleted, forms, others>>

-----------------------------------------------------------------------------
(* One base *)

\* What the form tells the user to have done.
Goal(u, a, b) ==
    CASE a = "unflag"   -> flagger[b] = Nobody
      [] a = "notify"   -> <<u, b>> \in watches
      [] a = "unnotify" -> <<u, b>> \notin watches
      [] a = "adopt"    -> IF u \in Elevated THEN maintainer[b] = u ELSE \E v \in User : <<v, b>> \in asks
      [] a = "disown"   -> maintainer[b] # u /\ (u \in Elevated => maintainer[b] = Nobody)
      [] a = "delete"   -> b \notin bases

\* What the session knows of the columns of the bases.
Columns(w) == IF job[w].seen = {} THEN [maintainer |-> maintainer, flagger |-> flagger]
              ELSE CHOOSE c \in job[w].seen : TRUE

\* What each pkgbase_..._instance checks again: it changes nothing otherwise.
Applies(w, b) == LET u == job[w].user c == Columns(w) IN
    CASE job[w].action = "unflag"   -> u \in Elevated \/ u \in {c.flagger[b], c.maintainer[b]}
      [] job[w].action = "notify"   -> <<u, b>> \notin watches
      [] job[w].action = "unnotify" -> <<u, b>> \in watches
      [] job[w].action = "adopt"    -> u \in Elevated \/ \A v \in User : <<v, b>> \notin asks
      [] job[w].action = "disown"   -> c.maintainer[b] = u \/ u \in Elevated
      [] job[w].action = "delete"   -> TRUE

\* An orphan request that is due is needed by who is not the maintainer.
Undue(w, b) == job[w].action = "disown" /\ Columns(w).maintainer[b] # job[w].user /\ b \notin due

\* The form ends with an error that no handler catches.
Fail(w) == job' = [job EXCEPT ![w].pc = "idle", ![w].seen = {}, ![w].answer = "failed"]

Skip(w, b, set) == job' = [job EXCEPT ![w].todo = @ \ {b}, ![w][set] = @ \cup {b}]

\* The columns of a base that is gone cannot be read again.
Visit(w, b) == LET j == job[w] IN
    /\ j.pc = "visit" /\ b \in j.todo
    /\ IF j.seen = {} /\ b \notin bases THEN Fail(w)
       ELSE IF ~ Applies(w, b) THEN Skip(w, b, IF Goal(j.user, j.action, b) THEN "done" ELSE "missed")
       ELSE IF Undue(w, b) THEN Skip(w, b, "errors")
       ELSE job' = [job EXCEPT ![w] = [j EXCEPT !.pc = "write", !.base = b, !.seen = {Columns(w)}]]
    /\ UNCHANGED <<data, deleted, told, forms, others>>

\* A column that has the new value, as far as the session knows, is not
\* written.
Set(known, now, new) == IF known = new THEN now ELSE new

\* A base is deleted with all that refers to it.
Gone(b) ==
    /\ bases' = bases \ {b} /\ due' = due \ {b}
    /\ maintainer' = [maintainer EXCEPT ![b] = Nobody] /\ flagger' = [flagger EXCEPT ![b] = Nobody]
    /\ watches' = {p \in watches : p[2] # b} /\ asks' = {p \in asks : p[2] # b}

\* The commit, after which the session reads everything again.
Commit(w, set) == LET j == job[w] IN
    job' = [job EXCEPT ![w] = [j EXCEPT !.pc = "visit", !.base = Nobody, !.todo = @ \ {j.base}, !.seen = {},
                                        ![set] = @ \cup {j.base}]]

Unflag(w, b) ==
    /\ flagger' = [flagger EXCEPT ![b] = Set(Columns(w).flagger[b], @, Nobody)]
    /\ Commit(w, IF flagger'[b] = Nobody THEN "done" ELSE "missed")
    /\ UNCHANGED <<bases, maintainer, watches, asks, due>>

Notify(w, b) ==
    /\ watches' = watches \cup {<<job[w].user, b>>}
    /\ Commit(w, "done")
    /\ UNCHANGED <<bases, maintainer, flagger, asks, due>>

Unnotify(w, b) ==
    /\ watches' = watches \ {<<job[w].user, b>>}
    /\ Commit(w, "done")
    /\ UNCHANGED <<bases, maintainer, flagger, asks, due>>

\* An elevated user becomes the maintainer, and all requests are rejected.
\* Another user requests it.
Adopt(w, b) == LET u == job[w].user IN
    /\ IF u \in Elevated
       THEN /\ maintainer' = [maintainer EXCEPT ![b] = Set(Columns(w).maintainer[b], @, u)]
            /\ asks' = {p \in asks : p[2] # b}
            /\ Commit(w, IF maintainer'[b] = u THEN "done" ELSE "missed")
       ELSE /\ asks' = asks \cup {<<u, b>>}
            /\ Commit(w, "done") /\ UNCHANGED maintainer
    /\ UNCHANGED <<bases, flagger, watches, due>>

\* Who is not the maintainer accepts the orphan requests.
Disown(w, b) == LET mine == Columns(w).maintainer[b] = job[w].user IN
    /\ maintainer' = [maintainer EXCEPT ![b] = Set(Columns(w).maintainer[b], @, Nobody)]
    /\ due' = IF mine THEN due ELSE due \ {b}
    /\ Commit(w, IF maintainer'[b] = Nobody THEN "done" ELSE "missed")
    /\ UNCHANGED <<bases, flagger, watches, asks>>

\* A row of a base that is gone, and a second row for one user, are errors.
\* That a row to be deleted is gone is only a warning.
Breaks(w, b) ==
    CASE job[w].action = "unflag"   -> b \notin bases /\ Columns(w).flagger[b] # Nobody
      [] job[w].action = "notify"   -> b \notin bases \/ <<job[w].user, b>> \in watches
      [] job[w].action = "unnotify" -> FALSE
      [] OTHER                      -> b \notin bases

Write(w) == LET b == job[w].base a == job[w].action IN
    /\ job[w].pc = "write"
    /\ \/ Breaks(w, b) /\ Fail(w) /\ UNCHANGED <<data, deleted>>
       \/ /\ ~ Breaks(w, b)
          /\ \/ a = "unflag" /\ Unflag(w, b)
             \/ a = "notify" /\ Notify(w, b)
             \/ a = "unnotify" /\ Unnotify(w, b)
             \/ a = "adopt" /\ Adopt(w, b)
             \/ a = "disown" /\ Disown(w, b)
             \/ a = "delete" /\ Gone(b) /\ Commit(w, "done")
          /\ deleted' = IF a = "delete" THEN deleted \cup {b} ELSE deleted
    /\ UNCHANGED <<told, forms, others>>

-----------------------------------------------------------------------------
(* Others, on the page of a base or over SSH *)

Other == others < MaxOther /\ others' = others + 1 /\ UNCHANGED <<job, deleted, told, forms>>

Flag(u, b) ==
    /\ Other /\ b \in bases /\ flagger[b] = Nobody
    /\ flagger' = [flagger EXCEPT ![b] = u]
    /\ UNCHANGED <<bases, maintainer, watches, asks, due>>

Toggle(u, b) ==
    /\ Other /\ b \in bases
    /\ watches' = IF <<u, b>> \in watches THEN watches \ {<<u, b>>} ELSE watches \cup {<<u, b>>}
    /\ UNCHANGED <<bases, maintainer, flagger, asks, due>>

Grant(u, b) ==
    /\ Other /\ <<u, b>> \in asks
    /\ maintainer' = [maintainer EXCEPT ![b] = u] /\ asks' = {p \in asks : p[2] # b}
    /\ UNCHANGED <<bases, flagger, watches, due>>

Leave(b) ==
    /\ Other /\ maintainer[b] # Nobody
    /\ maintainer' = [maintainer EXCEPT ![b] = Nobody]
    /\ UNCHANGED <<bases, flagger, watches, asks, due>>

Remove(b) == Other /\ b \in bases /\ Gone(b)

Next ==
    \/ \E w \in Worker :
         \/ \E u \in User, a \in Actions, sel \in SUBSET Base : sel # {} /\ Submit(w, u, a, sel)
         \/ \E b \in Base : Visit(w, b)
         \/ Write(w) \/ Finish(w)
    \/ \E u \in User, b \in Base : Flag(u, b) \/ Toggle(u, b) \/ Grant(u, b)
    \/ \E b \in Base : Leave(b) \/ Remove(b)

Spec == Init /\ [][Next]_vars

-----------------------------------------------------------------------------
(* Properties.                                                             *)

\* A form that answers that it is done has done what it says to every base
\* that was selected, or found it done (packages_post).
AnsweredAsDone == \A w \in Worker : job[w].answer = "done" => job[w].missed = {}

\* A base that a form deletes is logged and mailed, at the latest when the
\* form ends (packages_delete).
DeletedIsTold == \A b \in deleted : b \in told \/ \E w \in Worker :
    job[w].pc # "idle" /\ job[w].action = "delete" /\ b \in job[w].done

\* An error with one base does not keep the form from the others (disown_all).
ErrorsStopNothing == \A w \in Worker : job[w].answer = "refused" /\ job[w].errors # {} =>
    job[w].selected = job[w].done \cup job[w].missed \cup job[w].errors

\* Only a base that someone deletes, or a watch that the user has set
\* elsewhere, makes a form fail (packages_post).
FailsForAReason == \A w \in Worker : job[w].answer = "failed" =>
    (\E b \in job[w].todo : b \notin bases) \/ job[w].action = "notify"
=============================================================================

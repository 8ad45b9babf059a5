---------------------------- MODULE Comaintainers ----------------------------
(***************************************************************************)
(* The co-maintainers of one package base: the form on the web, the SSH    *)
(* command set-comaintainers, and disowning and adopting the base.  The    *)
(* requests that disowning and adopting also close are in PackageRequests. *)
(*                                                                         *)
(* PackageComaintainers has no unique index.  The mapper takes user and    *)
(* base for a key: it sees a user once, deletes every row of a user, and   *)
(* an UPDATE that matches two rows is an error.  The session does not      *)
(* flush before a query (autoflush is off).                                *)
(*                                                                         *)
(* An operator whose name ends in _Bug is the definition that follows it,  *)
(* with a mistake that the properties at the end have to catch.  Nothing   *)
(* uses it.                                                                *)
(***************************************************************************)
EXTENDS Naturals, FiniteSets

CONSTANTS
    User,
    NoUser,
    Ghost,     \* a name in a form that is nobody's
    Worker,    \* web workers and SSH sessions
    Op,        \* operations of this instance
    MaxRow     \* rows that are ever inserted (a bound)

\* Assumptions about the constants, which MCPages makes for its instances.
OpAssumption == Op \subseteq {"form", "ssh", "disown", "elevated", "adopt", "deadlock"}
GhostAssumption == Ghost \notin User /\ NoUser \notin User
UserAssumption == IsFiniteSet(User) /\ MaxRow \in Nat

VARIABLES
    maintainer,
    rows,      \* PackageComaintainers; n is the row's place in the table
    nextRow,
    job,       \* what the workers do
    untold     \* history: users who were removed and got no mail about it

vars == <<maintainer, rows, nextRow, job, untold>>

Row == [n : 1..MaxRow, user : User, Priority : Nat]
IdleJob == [pc |-> "idle", rm |-> {}, add |-> {}, notifs |-> {}, user |-> NoUser, prio |-> 0]

At(w, pc) == job[w].pc = pc
Users     == {r.user : r \in rows}
RowsOf(U) == {r \in rows : r.user \in U}
Prio(u)   == CHOOSE p \in {r.Priority : r \in RowsOf({u})} :
               \A r \in RowsOf({u}) : p <= r.Priority

TypeOK ==
    /\ maintainer \in User \cup {NoUser}
    /\ \A r \in rows : r \in Row /\ r.n < nextRow /\ r.Priority \in 1..MaxRow + 1
    /\ \A r, s \in rows : r.n = s.n => r = s
    /\ nextRow \in 1..MaxRow + 1
    /\ job \in [Worker ->
         [pc : {"idle", "remove", "rotate", "names", "add", "insert", "mail",
                "disownMaint", "disownCo", "disownAll", "ssh"},
          rm : SUBSET User, add : SUBSET (User \cup {Ghost}), notifs : SUBSET User,
          user : User \cup {NoUser}, prio : 0..MaxRow + 1]]
    /\ untold \subseteq User

Init ==
    /\ maintainer \in User
    /\ rows = {} /\ nextRow = 1
    /\ job = [w \in Worker |-> IdleJob]
    /\ untold = {}

-----------------------------------------------------------------------------
(* Helpers *)

Become(w, j) == job' = [job EXCEPT ![w] = j]
Goto(w, pc)  == Become(w, [job[w] EXCEPT !.pc = pc])
End(w)       == Become(w, IdleJob)
Ready(w, op) == At(w, "idle") /\ op \in Op

\* Enough room for the rows a form may insert.
Room(U) == nextRow + Cardinality(U \cap User) <= MaxRow + 1

\* latest_priority
LatestPriority ==
    IF rows = {} THEN 0
    ELSE CHOOSE p \in {r.Priority : r \in rows} : \A r \in rows : r.Priority <= p

\* The ways to number the users in the order of their priorities.
Rankings(U) ==
    {f \in [U -> 1..Cardinality(U)] :
        \A u, v \in U : /\ f[u] = f[v] => u = v
                        /\ Prio(u) < Prio(v) => f[u] < f[v]}

\* The users with more than one row, whose UPDATE is an error.
Stale(f) == {u \in DOMAIN f : Cardinality(RowsOf({u})) > 1 /\ f[u] # Prio(u)}

Ranked(f, R) ==
    {IF f[r.user] = Prio(r.user) THEN r ELSE [r EXCEPT !.Priority = f[r.user]] : r \in R}

RemoveOne_Bug(f, u) == \* the last row is taken for the next in line
    {[r EXCEPT !.Priority = Cardinality(Users) + 1 - f[r.user]] : r \in rows \ RowsOf({u})}

\* remove_comaintainer: the row that is to be deleted is still in the query
\* of rotate_comaintainers, and takes a number.
RemoveOne(f, u) == Ranked(f, rows \ RowsOf({u}))

-----------------------------------------------------------------------------
(* POST /pkgbase/{name}/comaintainers *)

\* Users of the form, against those of the table.
Form(w) == \E U \in SUBSET (User \cup {Ghost}) :
    /\ Ready(w, "form") /\ Room(U)
    /\ Become(w, [IdleJob EXCEPT !.pc = "remove", !.rm = Users \ U, !.add = U \ Users])
    /\ UNCHANGED <<maintainer, rows, nextRow, untold>>

\* The first transaction of remove_comaintainers.
Remove(w) == LET gone == job[w].rm \cap Users IN
    /\ At(w, "remove")
    /\ rows' = rows \ RowsOf(gone)
    /\ untold' = untold \cup gone
    /\ Become(w, [job[w] EXCEPT !.pc = "rotate", !.notifs = gone])
    /\ UNCHANGED <<maintainer, nextRow>>

RotateMail_Bug(w) == \E f \in Rankings(Users) : \* the notifications are not sent
    /\ At(w, "rotate")
    /\ rows' = Ranked(f, rows)
    /\ Become(w, [job[w] EXCEPT !.pc = "names", !.notifs = {}])
    /\ UNCHANGED <<maintainer, nextRow, untold>>

\* The second transaction, and the mails.
Rotate(w) == \E f \in Rankings(Users) :
    /\ At(w, "rotate")
    /\ IF Stale(f) # {}
       THEN End(w) /\ UNCHANGED <<rows, untold>>
       ELSE /\ rows' = Ranked(f, rows)
            /\ untold' = untold \ job[w].notifs
            /\ Become(w, [job[w] EXCEPT !.pc = "names", !.notifs = {}])
    /\ UNCHANGED <<maintainer, nextRow>>

\* A deadlock there: retry_deadlock calls remove_comaintainers once more.
RotateDeadlock(w) ==
    /\ "deadlock" \in Op /\ At(w, "rotate")
    /\ \E f \in Rankings(Users) : Ranked(f, rows) # rows
    /\ Become(w, [job[w] EXCEPT !.pc = "remove", !.notifs = {}])
    /\ UNCHANGED <<maintainer, rows, nextRow, untold>>

\* add_comaintainers: one unknown name, and nobody is added.
Names(w) ==
    /\ At(w, "names")
    /\ IF Ghost \in job[w].add \/ job[w].add = {} THEN End(w) ELSE Goto(w, "add")
    /\ UNCHANGED <<maintainer, rows, nextRow, untold>>

\* add_comaintainer, before its transaction.
Add(w) == \E u \in job[w].add :
    /\ At(w, "add")
    /\ IF u # maintainer
       THEN Become(w, [job[w] EXCEPT !.pc = "insert", !.user = u, !.add = @ \ {u},
                                     !.prio = LatestPriority + 1])
       ELSE Become(w, [job[w] EXCEPT !.pc = IF job[w].add = {u} THEN "mail" ELSE "add",
                                     !.add = @ \ {u}])
    /\ UNCHANGED <<maintainer, rows, nextRow, untold>>

Insert(w) ==
    /\ At(w, "insert") /\ nextRow <= MaxRow
    /\ rows' = rows \cup {[n |-> nextRow, user |-> job[w].user, Priority |-> job[w].prio]}
    /\ nextRow' = nextRow + 1
    /\ Become(w, [job[w] EXCEPT !.pc = IF job[w].add = {} THEN "mail" ELSE "add",
                                !.user = NoUser, !.prio = 0])
    /\ UNCHANGED <<maintainer, untold>>

\* The mails of a form to those it added; those of disowning to the one it removed.
Mail(w) ==
    /\ At(w, "mail")
    /\ untold' = untold \ job[w].notifs
    /\ End(w)
    /\ UNCHANGED <<maintainer, rows, nextRow>>

-----------------------------------------------------------------------------
(* set-comaintainers over SSH *)

\* By the maintainer or a Package Maintainer; the names are all users' names,
\* or the command stops.  What the table has is read over a connection of its own.
Ssh(w) == \E U \in SUBSET User :
    /\ Ready(w, "ssh") /\ Room(U)
    /\ Become(w, [IdleJob EXCEPT !.pc = "ssh", !.rm = Users \ U, !.add = U \ Users,
                                 !.notifs = U \cap Users])
    /\ UNCHANGED <<maintainer, rows, nextRow, untold>>

\* The rows of those on the list: f are their numbers, place is where the new
\* ones are in the table.
Listed(j, f, place) ==
    {IF r.user \in j.notifs THEN [r EXCEPT !.Priority = f[r.user]] ELSE r :
        r \in {s \in rows : s.user \notin j.rm}}
    \cup {[n |-> place[u], user |-> u, Priority |-> f[u]] : u \in j.add}

\* One transaction.  The user IDs are in a set: their order is the set's.
SshWrite(w) ==
    LET j   == job[w]
        new == j.add \cup j.notifs IN
    /\ At(w, "ssh") /\ Room(j.add)
    /\ \E f \in [new -> 1..Cardinality(new)] :
         /\ \A u, v \in new : f[u] = f[v] => u = v
         /\ \E place \in [j.add -> nextRow..nextRow + Cardinality(j.add) - 1] :
              /\ \A u, v \in j.add : f[u] < f[v] => place[u] < place[v]
              /\ rows' = Listed(j, f, place)
    /\ nextRow' = nextRow + Cardinality(j.add)
    /\ End(w)
    /\ UNCHANGED <<maintainer, untold>>

-----------------------------------------------------------------------------
(* Disowning and adopting *)

\* The role of the user who disowns: maintainer, co-maintainer, or neither and
\* a Package Maintainer (_retry_disown), which "elevated" allows.
Disown(w) == \E u \in User \cup {NoUser} :
    /\ Ready(w, "disown")
    /\ u \in Users \cup ({maintainer} \ {NoUser}) \/ "elevated" \in Op
    /\ Become(w, [IdleJob EXCEPT !.user = u,
                     !.pc = IF u # NoUser /\ u = maintainer THEN "disownMaint"
                            ELSE IF u \in Users THEN "disownCo" ELSE "disownAll"])
    /\ UNCHANGED <<maintainer, rows, nextRow, untold>>

\* The next in line becomes the maintainer, or nobody does.
DisownMaint(w) ==
    /\ At(w, "disownMaint")
    /\ IF rows = {}
       THEN maintainer' = NoUser /\ UNCHANGED <<rows, untold>> /\ Goto(w, "mail")
       ELSE \E first \in rows, f \in Rankings(Users) :
              /\ \A r \in rows : first.Priority <= r.Priority
              /\ IF Stale(f) \ {first.user} # {}
                 THEN End(w) /\ UNCHANGED <<maintainer, rows, untold>>
                 ELSE /\ maintainer' = first.user
                      /\ rows' = RemoveOne(f, first.user)
                      /\ untold' = untold \cup {first.user}
                      /\ Become(w, [job[w] EXCEPT !.pc = "mail", !.notifs = {first.user}])
    /\ UNCHANGED nextRow

DisownCo(w) == LET u == job[w].user IN
    /\ At(w, "disownCo")
    /\ \E f \in Rankings(Users) :
         IF Stale(f) \ {u} # {}
         THEN End(w) /\ UNCHANGED <<rows, untold>>
         ELSE /\ rows' = RemoveOne(f, u)
              /\ untold' = untold \cup ({u} \cap Users)
              /\ Become(w, [job[w] EXCEPT !.pc = "mail", !.notifs = {u}])
    /\ UNCHANGED <<maintainer, nextRow>>

\* A Package Maintainer's removes all co-maintainers, and mails none of them.
DisownAll(w) ==
    /\ At(w, "disownAll")
    /\ maintainer' = NoUser /\ rows' = {}
    /\ untold' = untold \cup Users
    /\ Goto(w, "mail")
    /\ UNCHANGED nextRow

\* A Package Maintainer adopts, or grants an adoption request (_retry_adopt).
Adopt(u) ==
    /\ "adopt" \in Op
    /\ maintainer' = u
    /\ UNCHANGED <<rows, nextRow, job, untold>>

Next ==
    \/ \E w \in Worker :
         \/ Form(w) \/ Remove(w) \/ Rotate(w) \/ RotateDeadlock(w) \/ Names(w)
         \/ Add(w) \/ Insert(w) \/ Mail(w)
         \/ Ssh(w) \/ SshWrite(w)
         \/ Disown(w) \/ DisownMaint(w) \/ DisownCo(w) \/ DisownAll(w)
    \/ \E u \in User : Adopt(u)

Spec == Init /\ [][Next]_vars

-----------------------------------------------------------------------------
(* Properties.                                                             *)

\* Whoever became a co-maintainer earlier is before in line, through forms,
\* removals and successions (latest_priority, rotate_comaintainers).
Seniority == \A r, s \in rows : r.n < s.n => r.Priority < s.Priority

\* The priorities are 1 to n, but for a removal that is about to rotate them
\* (rotate_comaintainers).
SequentialPriorities ==
    \/ \E w \in Worker : At(w, "rotate")
    \/ {r.Priority : r \in rows} = 1..Cardinality(rows)

\* The maintainer is not also a co-maintainer (add_comaintainer).
MaintainerIsNoComaintainer == \A r \in rows : r.user # maintainer

\* A user is a co-maintainer once (the key of the mapper).
OneRowPerUser == \A r, s \in rows : r.user = s.user => r = s

\* Whoever is removed by a form, by disowning their own part in the base or by
\* becoming its maintainer gets a mail about it as soon as the handler has ended
\* (ComaintainerRemoveNotification).  A Package Maintainer who disowns the base
\* of others removes them without one: this is about instances that have no
\* such user ("elevated").
RemovedAreTold == \A u \in untold : \E w \in Worker : u \in job[w].notifs
=============================================================================

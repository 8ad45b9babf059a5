-------------------------------- MODULE Votes --------------------------------
(***************************************************************************)
(* The votes for package bases and the users who watch them, on the web    *)
(* and over SSH, the merge that hands both to another package base, and    *)
(* the count of votes that is kept beside them (popupdate).                *)
(*                                                                         *)
(* A web handler looks at the rows in autocommit mode, writes one row in a *)
(* transaction and counts in another.  An SSH command is one transaction   *)
(* that reads from its snapshot and writes to the rows of the moment.      *)
(*                                                                         *)
(* An operator whose name ends in _Bug is the definition that follows it,  *)
(* with a mistake that the properties at the end have to catch.  Nothing   *)
(* uses it.                                                                *)
(***************************************************************************)
EXTENDS Naturals, FiniteSets

CONSTANTS
    User,
    Base,       \* package bases
    NoBase,
    Worker,     \* web workers and SSH sessions
    Op,         \* operations of this instance
    MaxOps      \* operations that are started (a bound)

\* Assumptions about the constants, which MCPages and MCCron make for their instances.
OpAssumption ==
    Op \subseteq {"add", "remove", "sshVote", "sshUnvote", "merge", "crash"}
UserAssumption == IsFiniteSet(User) /\ User # {} /\ MaxOps \in Nat

Kind == {"vote", "watch"}

VARIABLES
    exists,     \* names of PackageBases
    rows,       \* PackageVotes and PackageNotifications
    NumVotes,   \* column of PackageBases
    fresh,      \* bases whose PopularityUpdated is within the interval
    job,        \* what the workers do
    started,    \* operations so far
    refused     \* history: an unvote was refused by the unsigned column

vars == <<exists, rows, NumVotes, fresh, job, started, refused>>

Row == [kind : Kind, user : User, base : Base]
IdleJob == [pc |-> "idle", kind |-> "vote", user |-> CHOOSE u \in User : TRUE,
            base |-> NoBase, into |-> NoBase, kept |-> {}]

At(w, pc) == job[w].pc = pc
Mine(w)   == [kind |-> job[w].kind, user |-> job[w].user, base |-> job[w].base]
Of(k, b)  == {r \in rows : r.kind = k /\ r.base = b}

TypeOK ==
    /\ exists \subseteq Base
    /\ rows \subseteq Row
    /\ \A r \in rows : r.base \in exists
    /\ NumVotes \in [Base -> 0..Cardinality(User)]
    /\ fresh \subseteq exists
    /\ job \in [Worker ->
         [pc : {"idle", "insert", "delete", "count", "sshInsert", "sshDelete",
                "mergeRead", "mergeMove", "mergeCount", "mergeDelete"},
          kind : Kind, user : User, base : Base \cup {NoBase}, into : Base \cup {NoBase},
          kept : SUBSET [kind : Kind, user : User]]]
    /\ started \in 0..MaxOps
    /\ refused \in BOOLEAN

Init ==
    /\ exists = Base
    /\ rows = {} /\ NumVotes = [b \in Base |-> 0] /\ fresh = {}
    /\ job = [w \in Worker |-> IdleJob]
    /\ started = 0 /\ refused = FALSE

-----------------------------------------------------------------------------
(* Helpers *)

Goto(w, pc) == job' = [job EXCEPT ![w].pc = pc]
End(w)      == job' = [job EXCEPT ![w] = IdleJob]

Start(w, op, j) ==
    /\ At(w, "idle") /\ op \in Op
    /\ started < MaxOps /\ started' = started + 1
    /\ job' = [job EXCEPT ![w] = j]
    /\ UNCHANGED <<exists, rows, NumVotes, fresh, refused>>

\* popupdate.run_variable, for a set of package bases
Counted(B) ==
    /\ NumVotes' = [b \in Base |-> IF b \in B THEN Cardinality(Of("vote", b)) ELSE NumVotes[b]]
    /\ fresh' = fresh \cup B

-----------------------------------------------------------------------------
(* vote, unvote, notify and unnotify on the web *)

AddCheck(w) == \E k \in Kind, u \in User, b \in exists :
    /\ [kind |-> k, user |-> u, base |-> b] \notin rows
    /\ Start(w, "add", [IdleJob EXCEPT !.pc = "insert", !.kind = k, !.user = u, !.base = b])

Insert_Bug(w) == \* nobody counts
    /\ At(w, "insert")
    /\ rows' = IF job[w].base \in exists THEN rows \cup {Mine(w)} ELSE rows
    /\ End(w)
    /\ UNCHANGED <<exists, NumVotes, fresh, started, refused>>

\* The unique index and the foreign key turn a late INSERT into an error.
Insert(w) ==
    /\ At(w, "insert")
    /\ IF job[w].base \in exists /\ Mine(w) \notin rows
       THEN /\ rows' = rows \cup {Mine(w)}
            /\ IF job[w].kind = "vote" THEN Goto(w, "count") ELSE End(w)
       ELSE End(w) /\ UNCHANGED rows
    /\ UNCHANGED <<exists, NumVotes, fresh, started, refused>>

RemoveCheck(w) == \E r \in rows :
    Start(w, "remove",
          [IdleJob EXCEPT !.pc = "delete", !.kind = r.kind, !.user = r.user, !.base = r.base])

\* A row that is gone is no error.
Delete(w) ==
    /\ At(w, "delete")
    /\ rows' = rows \ {Mine(w)}
    /\ IF job[w].kind = "vote" THEN Goto(w, "count") ELSE End(w)
    /\ UNCHANGED <<exists, NumVotes, fresh, started, refused>>

\* popupdate.run_single
Count(w) ==
    /\ At(w, "count")
    /\ Counted({job[w].base} \cap exists)
    /\ End(w)
    /\ UNCHANGED <<exists, rows, started, refused>>

-----------------------------------------------------------------------------
(* vote and unvote over SSH *)

SshVote(w) == \E u \in User, b \in exists :
    /\ [kind |-> "vote", user |-> u, base |-> b] \notin rows
    /\ Start(w, "sshVote", [IdleJob EXCEPT !.pc = "sshInsert", !.user = u, !.base = b])

SshInsert(w) ==
    /\ At(w, "sshInsert")
    /\ IF job[w].base \in exists /\ Mine(w) \notin rows
       THEN /\ rows' = rows \cup {Mine(w)}
            /\ NumVotes' = [NumVotes EXCEPT ![job[w].base] = @ + 1]
       ELSE UNCHANGED <<rows, NumVotes>>
    /\ End(w)
    /\ UNCHANGED <<exists, fresh, started, refused>>

SshUnvote(w) == \E r \in rows :
    /\ r.kind = "vote"
    /\ Start(w, "sshUnvote", [IdleJob EXCEPT !.pc = "sshDelete", !.user = r.user, !.base = r.base])

\* An error of the UPDATE takes the DELETE back; an UPDATE of no row is none.
SshDelete(w) == LET b == job[w].base IN
    /\ At(w, "sshDelete")
    /\ IF b \in exists /\ NumVotes[b] = 0
       THEN refused' = TRUE /\ UNCHANGED <<rows, NumVotes>>
       ELSE /\ rows' = rows \ {Mine(w)}
            /\ NumVotes' = IF b \in exists THEN [NumVotes EXCEPT ![b] = @ - 1] ELSE NumVotes
            /\ UNCHANGED refused
    /\ End(w)
    /\ UNCHANGED <<exists, fresh, started>>

-----------------------------------------------------------------------------
(* POST /pkgbase/{name}/merge, after the requests are closed *)

MergeStart(w) == \E b, c \in exists :
    /\ b # c
    /\ Start(w, "merge", [IdleJob EXCEPT !.pc = "mergeRead", !.base = b, !.into = c])

\* What the target has, read before the transaction.
MergeRead(w) ==
    /\ At(w, "mergeRead")
    /\ job' = [job EXCEPT ![w].pc = "mergeMove",
                          ![w].kept = {[kind |-> r.kind, user |-> r.user] :
                                        r \in {r \in rows : r.base = job[w].into}}]
    /\ UNCHANGED <<exists, rows, NumVotes, fresh, started, refused>>

\* The rows of the merged base that the target does not have.
Moving(w) == {r \in rows : r.base = job[w].base /\ [kind |-> r.kind, user |-> r.user] \notin job[w].kept}

MergeMove_Bug(w) == \* the watchers stay
    LET M == {r \in Moving(w) : r.kind = "vote"}
        N == {[r EXCEPT !.base = job[w].into] : r \in M} IN
    /\ At(w, "mergeMove")
    /\ IF job[w].into \in exists /\ N \cap rows = {}
       THEN rows' = (rows \ M) \cup N /\ Goto(w, "mergeCount")
       ELSE UNCHANGED rows /\ End(w)
    /\ UNCHANGED <<exists, NumVotes, fresh, started, refused>>

\* One row that the target has got in the meantime, and nothing is moved.
MergeMove(w) ==
    LET N == {[r EXCEPT !.base = job[w].into] : r \in Moving(w)} IN
    /\ At(w, "mergeMove")
    /\ IF (Moving(w) # {} => job[w].into \in exists) /\ N \cap rows = {}
       THEN rows' = (rows \ Moving(w)) \cup N /\ Goto(w, "mergeCount")
       ELSE UNCHANGED rows /\ End(w)
    /\ UNCHANGED <<exists, NumVotes, fresh, started, refused>>

\* A target that is gone cannot be refreshed: the handler stops here.
MergeCount(w) ==
    /\ At(w, "mergeCount")
    /\ Counted({job[w].into} \cap exists)
    /\ IF job[w].into \in exists THEN Goto(w, "mergeDelete") ELSE End(w)
    /\ UNCHANGED <<exists, rows, started, refused>>

MergeDelete(w) == LET b == job[w].base IN
    /\ At(w, "mergeDelete")
    /\ exists' = exists \ {b} /\ fresh' = fresh \ {b}
    /\ rows' = {r \in rows : r.base # b}
    /\ NumVotes' = [NumVotes EXCEPT ![b] = 0]
    /\ End(w)
    /\ UNCHANGED <<started, refused>>

-----------------------------------------------------------------------------
(* The cron job, time, and the end of a process between two transactions *)

\* aurweb-popupdate
Cron ==
    /\ Counted(exists \ fresh)
    /\ UNCHANGED <<exists, rows, job, started, refused>>

\* PopularityUpdated falls behind the interval.
Age(b) ==
    /\ b \in fresh
    /\ fresh' = fresh \ {b}
    /\ UNCHANGED <<exists, rows, NumVotes, job, started, refused>>

Crash(w) ==
    /\ "crash" \in Op /\ ~ At(w, "idle")
    /\ End(w)
    /\ UNCHANGED <<exists, rows, NumVotes, fresh, started, refused>>

Step(w) ==
    \/ Insert(w) \/ Delete(w) \/ Count(w) \/ SshInsert(w) \/ SshDelete(w)
    \/ MergeRead(w) \/ MergeMove(w) \/ MergeCount(w) \/ MergeDelete(w)

Next ==
    \/ \E w \in Worker :
         \/ AddCheck(w) \/ RemoveCheck(w) \/ SshVote(w) \/ SshUnvote(w) \/ MergeStart(w)
         \/ Step(w) \/ Crash(w)
    \/ Cron
    \/ \E b \in Base : Age(b)

Spec == Init /\ [][Next]_vars

-----------------------------------------------------------------------------
(* Properties.                                                             *)

\* The count of a package base is the number of its votes, unless a handler
\* is about to count them or to delete the base (popupdate.run_single, the
\* SSH commands, _retry_merge).
CountIsRight == \A b \in exists :
    \/ \E w \in Worker : \/ At(w, "count") /\ job[w].base = b
                         \/ At(w, "mergeCount") /\ b \in {job[w].base, job[w].into}
                         \/ At(w, "mergeDelete") /\ b = job[w].base
    \/ NumVotes[b] = Cardinality({r \in rows : r.kind = "vote" /\ r.base = b})

\* A vote that is in the database can be withdrawn over SSH: the count is
\* never zero then (pkgbase_unvote).
UnvoteIsNotRefused == ~ refused

\* When a merged package base is deleted, whoever voted for it or watched it
\* votes for another one or watches another one (_retry_merge).
StepLosesNothing ==
    \A r \in rows : r.base \in exists \ exists' =>
        \E s \in rows' : s.kind = r.kind /\ s.user = r.user

\* All counts are right: when nobody votes any more they become so and stay,
\* whatever handlers were cut off or came in between each other
\* (aurweb-popupdate).
CountsAreRight ==
    \A b \in exists : NumVotes[b] = Cardinality({r \in rows : r.kind = "vote" /\ r.base = b})
=============================================================================

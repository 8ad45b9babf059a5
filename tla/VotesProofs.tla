----------------------------- MODULE VotesProofs -----------------------------
(***************************************************************************)
(* Theorems about Votes and BasePage, for any users and package bases and  *)
(* any number of operations.                                               *)
(*                                                                         *)
(* Votes counted beside their rows are right only because nobody else      *)
(* writes what a handler has looked at: an unvote over SSH subtracts one   *)
(* whether or not its row is still there, and a merge moves and counts the *)
(* rows it has read.  So the theorems about them are for one worker, or    *)
(* for any number of them without these two operations (Apart).            *)
(*                                                                         *)
(* On the page of a base too each handler looks and then writes, and what  *)
(* is shown is what was written by one of them only while nobody writes    *)
(* between (Undisturbed).  The jobs of these handlers are called task.     *)
(***************************************************************************)
EXTENDS Votes, FiniteSetTheorems, FunctionTheorems, TLAPS

CONSTANTS NoUser, Elevated, Keeper, Comment, Text, NoText, Keyword
VARIABLES comment, keywords, flag, task, forms, flags, mailed

Page == INSTANCE BasePage WITH job <- task

-----------------------------------------------------------------------------
(* Votes *)

\* Workers who do not disturb each other.
Apart == \/ \A v, w \in Worker : v = w
         \/ {"merge", "sshUnvote"} \cap Op = {}

Job == [pc : {"idle", "insert", "delete", "count", "sshInsert", "sshDelete",
              "mergeRead", "mergeMove", "mergeCount", "mergeDelete"},
        kind : Kind, user : User, base : Base \cup {NoBase}, into : Base \cup {NoBase},
        kept : SUBSET [kind : Kind, user : User]]

\* Types; the count is a number that may be any.
IType ==
    /\ exists \subseteq Base
    /\ rows \subseteq Row
    /\ \A r \in rows : r.base \in exists
    /\ NumVotes \in [Base -> Nat]
    /\ fresh \subseteq exists
    /\ job \in [Worker -> Job]
    /\ started \in 0..MaxOps
    /\ refused \in BOOLEAN

Merging == {"mergeRead", "mergeMove", "mergeCount", "mergeDelete"}

\* The row of a merged base under the name of the target.
Moved(r, c) == [kind |-> r.kind, user |-> r.user, base |-> c]

\* What a handler that is not disturbed still knows.
Knows(j) ==
    /\ j.pc # "idle" => j.base \in exists
    /\ j.pc \in {"sshInsert", "sshDelete"} => j.kind = "vote"
    /\ j.pc = "sshDelete" =>
         "sshUnvote" \in Op /\ [kind |-> j.kind, user |-> j.user, base |-> j.base] \in rows
    /\ j.pc \in Merging => "merge" \in Op /\ j.into \in exists /\ j.base # j.into
    \* what the target has is not moved, and was there when it was looked at
    /\ j.pc = "mergeMove" =>
         \A r \in rows : r.base = j.base /\ [kind |-> r.kind, user |-> r.user] \in j.kept =>
             Moved(r, j.into) \in rows
    \* whoever still votes for the base or watches it does so for the target
    /\ j.pc \in {"mergeCount", "mergeDelete"} =>
         \A r \in rows : r.base = j.base => Moved(r, j.into) \in rows

IKnown == IType /\ \A w \in Worker : Knows(job[w])

\* CountIsRight in two parts: the count, and whoever is about to correct it.
VotesFor(R, b) == {r \in R : r.kind = "vote" /\ r.base = b}
Right(b) == NumVotes[b] = Cardinality(VotesFor(rows, b))
Counting(j, b) ==
    \/ j.pc = "count" /\ j.base = b
    \/ j.pc = "mergeCount" /\ b \in {j.base, j.into}
    \/ j.pc = "mergeDelete" /\ b = j.base

ICounts == \A b \in exists : (\E w \in Worker : Counting(job[w], b)) \/ Right(b)

IBounded == \A b \in Base : NumVotes[b] <= Cardinality(User)

-----------------------------------------------------------------------------
(* Counting *)

\* A user has one vote for a base: what Cardinality(Of("vote", b)) counts is
\* a number, and no more than there are users (the unique index).
LEMMA OneVoteEach ==
    ASSUME UserAssumption, NEW R \in SUBSET Row, NEW b
    PROVE  /\ IsFiniteSet(VotesFor(R, b))
           /\ Cardinality(VotesFor(R, b)) \in Nat
           /\ Cardinality(VotesFor(R, b)) <= Cardinality(User)
<1> DEFINE V == VotesFor(R, b)
           f == [r \in V |-> r.user]
<1>1. V \subseteq Row /\ \A r \in V : r.kind = "vote" /\ r.base = b
  BY DEF VotesFor
<1>2. \A r \in V : r.user \in User
  BY <1>1 DEF Row
<1>3. f \in [V -> User]
  BY <1>2
<1>4. \A r, s \in V : f[r] = f[s] => r = s
  <2> SUFFICES ASSUME NEW r \in V, NEW s \in V, r.user = s.user PROVE r = s
    OBVIOUS
  <2>1. r = [kind |-> "vote", user |-> r.user, base |-> b]
    BY <1>1 DEF Row
  <2>2. s = [kind |-> "vote", user |-> s.user, base |-> b]
    BY <1>1 DEF Row
  <2> QED
    BY <2>1, <2>2
<1>5. f \in Injection(V, User)
  BY <1>3, <1>4, Fun_IsInj
<1>6. IsFiniteSet(V) /\ Cardinality(V) <= Cardinality(User)
  BY <1>5, FS_Injection DEF UserAssumption
<1> QED
  BY <1>6, FS_CardinalityType

\* A vote that is not there yet is one more for its base and for no other.
LEMMA OneMore ==
    ASSUME UserAssumption, NEW R \in SUBSET Row, NEW r \in Row, r \notin R, r.kind = "vote", NEW b
    PROVE  Cardinality(VotesFor(R \cup {r}, b)) =
             IF b = r.base THEN Cardinality(VotesFor(R, b)) + 1 ELSE Cardinality(VotesFor(R, b))
<1>1. CASE b = r.base
  <2>1. VotesFor(R \cup {r}, b) = VotesFor(R, b) \cup {r} /\ r \notin VotesFor(R, b)
    BY <1>1 DEF VotesFor
  <2> QED
    BY <1>1, <2>1, OneVoteEach, FS_AddElement
<1>2. CASE b # r.base
  <2>1. VotesFor(R \cup {r}, b) = VotesFor(R, b)
    BY <1>2 DEF VotesFor
  <2> QED
    BY <1>2, <2>1
<1> QED
  BY <1>1, <1>2

\* A vote that is withdrawn is one less.
LEMMA OneLess ==
    ASSUME UserAssumption, NEW R \in SUBSET Row, NEW r \in R, r.kind = "vote", NEW b
    PROVE  Cardinality(VotesFor(R \ {r}, b)) =
             IF b = r.base THEN Cardinality(VotesFor(R, b)) - 1 ELSE Cardinality(VotesFor(R, b))
<1>1. CASE b = r.base
  <2>1. VotesFor(R \ {r}, b) = VotesFor(R, b) \ {r} /\ r \in VotesFor(R, b)
    BY <1>1 DEF VotesFor
  <2>2. IsFiniteSet(VotesFor(R, b))
    BY OneVoteEach
  <2>3. Cardinality(VotesFor(R, b) \ {r}) = Cardinality(VotesFor(R, b)) - 1
    BY <2>1, <2>2, FS_RemoveElement
  <2> QED
    BY <1>1, <2>1, <2>3
<1>2. CASE b # r.base
  <2>1. VotesFor(R \ {r}, b) = VotesFor(R, b)
    BY <1>2 DEF VotesFor
  <2> QED
    BY <1>2, <2>1
<1> QED
  BY <1>1, <1>2

\* Where there is a vote, the count of the votes is not zero.
LEMMA SomeVotes ==
    ASSUME UserAssumption, NEW R \in SUBSET Row, NEW r \in R, r.kind = "vote"
    PROVE  Cardinality(VotesFor(R, r.base)) # 0
<1>1. r \in VotesFor(R, r.base)
  BY DEF VotesFor
<1> QED
  BY <1>1, OneVoteEach, FS_EmptySet

-----------------------------------------------------------------------------
(* Types: what every step keeps, whoever takes it                           *)

LEMMA IdleIsAJob ==
    ASSUME UserAssumption
    PROVE  IdleJob \in Job /\ IdleJob.pc = "idle" /\ IdleJob.kind = "vote"
           /\ IdleJob.base = NoBase /\ IdleJob.into = NoBase
<1>1. (CHOOSE u \in User : TRUE) \in User
  BY DEF UserAssumption
<1> QED
  BY <1>1 DEF IdleJob, Job, Kind

\* What run_variable and run_single write: numbers, for bases that exist.
LEMMA CountedNumbers ==
    ASSUME UserAssumption, IType, NEW B \in SUBSET exists, Counted(B)
    PROVE  /\ NumVotes' \in [Base -> Nat]
           /\ fresh' \subseteq exists
           /\ \A b \in B : NumVotes'[b] = Cardinality(VotesFor(rows, b))
           /\ \A b \in Base \ B : NumVotes'[b] = NumVotes[b]
<1>1. \A b : Of("vote", b) = VotesFor(rows, b)
  BY DEF Of, VotesFor
<1>2. \A b : Cardinality(VotesFor(rows, b)) \in Nat
  BY OneVoteEach DEF IType
<1>3. NumVotes' = [b \in Base |-> IF b \in B THEN Cardinality(VotesFor(rows, b)) ELSE NumVotes[b]]
  BY <1>1 DEF Counted
<1>4. B \subseteq Base
  BY DEF IType
<1> QED
  BY <1>2, <1>3, <1>4 DEF Counted, IType

LEMMA StartType ==
    ASSUME UserAssumption, IType, NEW w \in Worker, NEW op, NEW j \in Job, Start(w, op, j)
    PROVE  IType'
<1>1. job' \in [Worker -> Job]
  BY DEF IType, Start
<1>2. started' \in 0..MaxOps
  BY DEF IType, Start, UserAssumption
<1> QED
  BY <1>1, <1>2 DEF IType, Start

\* The checks before an operation start it with a job of its kind.
LEMMA StartingType ==
    ASSUME UserAssumption, IType, NEW w \in Worker,
           AddCheck(w) \/ RemoveCheck(w) \/ SshVote(w) \/ SshUnvote(w) \/ MergeStart(w)
    PROVE  IType'
<1> USE IdleIsAJob
<1>1. exists \subseteq Base /\ rows \subseteq Row
  BY DEF IType
<1>2. CASE AddCheck(w)
  <2>1. PICK k \in Kind, u \in User, b \in exists :
          Start(w, "add", [IdleJob EXCEPT !.pc = "insert", !.kind = k, !.user = u, !.base = b])
    BY <1>2 DEF AddCheck
  <2>2. [IdleJob EXCEPT !.pc = "insert", !.kind = k, !.user = u, !.base = b] \in Job
    BY <1>1 DEF Job
  <2> QED
    BY <2>1, <2>2, StartType
<1>3. CASE RemoveCheck(w)
  <2>1. PICK r \in rows :
          Start(w, "remove",
                [IdleJob EXCEPT !.pc = "delete", !.kind = r.kind, !.user = r.user, !.base = r.base])
    BY <1>3 DEF RemoveCheck
  <2>2. [IdleJob EXCEPT !.pc = "delete", !.kind = r.kind, !.user = r.user, !.base = r.base] \in Job
    BY <1>1 DEF Job, Row
  <2> QED
    BY <2>1, <2>2, StartType
<1>4. CASE SshVote(w)
  <2>1. PICK u \in User, b \in exists :
          Start(w, "sshVote", [IdleJob EXCEPT !.pc = "sshInsert", !.user = u, !.base = b])
    BY <1>4 DEF SshVote
  <2>2. [IdleJob EXCEPT !.pc = "sshInsert", !.user = u, !.base = b] \in Job
    BY <1>1 DEF Job
  <2> QED
    BY <2>1, <2>2, StartType
<1>5. CASE SshUnvote(w)
  <2>1. PICK r \in rows :
          Start(w, "sshUnvote", [IdleJob EXCEPT !.pc = "sshDelete", !.user = r.user, !.base = r.base])
    BY <1>5 DEF SshUnvote
  <2>2. [IdleJob EXCEPT !.pc = "sshDelete", !.user = r.user, !.base = r.base] \in Job
    BY <1>1 DEF Job, Row
  <2> QED
    BY <2>1, <2>2, StartType
<1>6. CASE MergeStart(w)
  <2>1. PICK b \in exists, c \in exists :
          Start(w, "merge", [IdleJob EXCEPT !.pc = "mergeRead", !.base = b, !.into = c])
    BY <1>6 DEF MergeStart
  <2>2. [IdleJob EXCEPT !.pc = "mergeRead", !.base = b, !.into = c] \in Job
    BY <1>1 DEF Job
  <2> QED
    BY <2>1, <2>2, StartType
<1> QED
  BY <1>2, <1>3, <1>4, <1>5, <1>6

\* A handler goes on or ends: its job is a job, and the others' stay.
LEMMA GotoType ==
    ASSUME IType, NEW w \in Worker, NEW pc \in {"count", "mergeCount", "mergeDelete"}, Goto(w, pc)
    PROVE  /\ job' \in [Worker -> Job]
           /\ job'[w] = [job[w] EXCEPT !.pc = pc]
           /\ \A v \in Worker : v # w => job'[v] = job[v]
BY DEF IType, Goto, Job

LEMMA EndType ==
    ASSUME UserAssumption, IType, NEW w \in Worker, End(w)
    PROVE  /\ job' \in [Worker -> Job]
           /\ job'[w] = IdleJob
           /\ \A v \in Worker : v # w => job'[v] = job[v]
BY IdleIsAJob DEF IType, End

\* The row a handler writes, where its base exists.
LEMMA MineIsARow ==
    ASSUME IType, NEW w \in Worker, job[w].base \in exists
    PROVE  /\ Mine(w) \in Row
           /\ Mine(w).kind = job[w].kind /\ Mine(w).user = job[w].user /\ Mine(w).base = job[w].base
BY DEF IType, Mine, Row, Job

\* One vote or watch that is written, withdrawn or counted.
LEMMA WritingType ==
    ASSUME UserAssumption, IType, NEW w \in Worker, Insert(w) \/ Delete(w) \/ Count(w)
    PROVE  IType'
<1>1. job' \in [Worker -> Job]
  BY GotoType, EndType DEF Insert, Delete, Count
<1>2. CASE Insert(w)
  <2>1. rows' \subseteq Row /\ \A r \in rows' : r.base \in exists
    BY <1>2, MineIsARow DEF IType, Insert
  <2> QED
    BY <1>1, <1>2, <2>1 DEF IType, Insert
<1>3. CASE Delete(w)
  BY <1>1, <1>3 DEF IType, Delete
<1>4. CASE Count(w)
  <2>1. NumVotes' \in [Base -> Nat] /\ fresh' \subseteq exists
    BY <1>4, CountedNumbers DEF Count
  <2> QED
    BY <1>1, <1>4, <2>1 DEF IType, Count
<1> QED
  BY <1>2, <1>3, <1>4

LEMMA SshType ==
    ASSUME UserAssumption, IType, NEW w \in Worker, SshInsert(w) \/ SshDelete(w)
    PROVE  IType'
<1>1. job' \in [Worker -> Job]
  BY EndType DEF SshInsert, SshDelete
<1>2. CASE SshInsert(w)
  <2>1. rows' \subseteq Row /\ \A r \in rows' : r.base \in exists
    BY <1>2, MineIsARow DEF IType, SshInsert
  <2>2. NumVotes' \in [Base -> Nat]
    BY <1>2 DEF IType, SshInsert
  <2> QED
    BY <1>1, <1>2, <2>1, <2>2 DEF IType, SshInsert
<1>3. CASE SshDelete(w)
  <2>1. rows' \subseteq rows /\ refused' \in BOOLEAN
    BY <1>3 DEF IType, SshDelete
  <2>2. NumVotes' \in [Base -> Nat]
    BY <1>3 DEF IType, SshDelete
  <2> QED
    BY <1>1, <1>3, <2>1, <2>2 DEF IType, SshDelete
<1> QED
  BY <1>2, <1>3

LEMMA MergingType ==
    ASSUME UserAssumption, IType, NEW w \in Worker,
           MergeRead(w) \/ MergeMove(w) \/ MergeCount(w) \/ MergeDelete(w)
    PROVE  IType'
<1> DEFINE kept == {[kind |-> r.kind, user |-> r.user] : r \in {r \in rows : r.base = job[w].into}}
           N == {[r EXCEPT !.base = job[w].into] : r \in Moving(w)}
<1>1. CASE MergeRead(w)
  <2>1. kept \subseteq [kind : Kind, user : User]
    BY DEF IType, Row
  <2>2. job' = [job EXCEPT ![w] = [job[w] EXCEPT !.pc = "mergeMove", !.kept = kept]]
    BY <1>1 DEF MergeRead, IType
  <2>3. [job[w] EXCEPT !.pc = "mergeMove", !.kept = kept] \in Job
    BY <2>1 DEF IType, Job
  <2>4. job' \in [Worker -> Job]
    BY <2>2, <2>3 DEF IType
  <2> QED
    BY <1>1, <2>4 DEF IType, MergeRead
<1>2. CASE MergeMove(w)
  <2>1. job' \in [Worker -> Job]
    BY <1>2, GotoType, EndType DEF MergeMove
  <2>2. Moving(w) \subseteq rows
    BY DEF Moving
  <2>3. ASSUME Moving(w) # {} => job[w].into \in exists
        PROVE  N \subseteq Row /\ \A r \in N : r.base \in exists
    BY <2>2, <2>3 DEF IType, Row
  <2>4. rows' \subseteq Row /\ \A r \in rows' : r.base \in exists
    BY <1>2, <2>3 DEF IType, MergeMove
  <2> QED
    BY <1>2, <2>1, <2>4 DEF IType, MergeMove
<1>3. CASE MergeCount(w)
  <2>1. job' \in [Worker -> Job]
    BY <1>3, GotoType, EndType DEF MergeCount
  <2>2. NumVotes' \in [Base -> Nat] /\ fresh' \subseteq exists
    BY <1>3, CountedNumbers DEF MergeCount
  <2> QED
    BY <1>3, <2>1, <2>2 DEF IType, MergeCount
<1>4. CASE MergeDelete(w)
  <2>1. job' \in [Worker -> Job]
    BY <1>4, EndType DEF MergeDelete
  <2>2. NumVotes' \in [Base -> Nat]
    BY <1>4 DEF IType, MergeDelete
  <2>3. rows' \subseteq Row /\ \A r \in rows' : r.base \in exists'
    BY <1>4 DEF IType, MergeDelete
  <2> QED
    BY <1>4, <2>1, <2>2, <2>3 DEF IType, MergeDelete
<1> QED
  BY <1>1, <1>2, <1>3, <1>4

\* The cron job, time, and the end of a process.
LEMMA OutsideType ==
    ASSUME UserAssumption, IType,
           Cron \/ (\E b \in Base : Age(b)) \/ (\E w \in Worker : Crash(w)) \/ UNCHANGED vars
    PROVE  IType'
<1>1. CASE Cron
  <2>1. NumVotes' \in [Base -> Nat] /\ fresh' \subseteq exists
    BY <1>1, CountedNumbers DEF Cron
  <2> QED
    BY <1>1, <2>1 DEF IType, Cron
<1>2. CASE \E b \in Base : Age(b)
  BY <1>2 DEF IType, Age
<1>3. CASE \E w \in Worker : Crash(w)
  <2>1. PICK w \in Worker : Crash(w)
    BY <1>3
  <2>2. job' \in [Worker -> Job]
    BY <2>1, EndType DEF Crash
  <2> QED
    BY <2>1, <2>2 DEF IType, Crash
<1>4. CASE UNCHANGED vars
  BY <1>4 DEF IType, vars
<1> QED
  BY <1>1, <1>2, <1>3, <1>4

LEMMA TypeStep ==
    ASSUME UserAssumption, IType, [Next]_vars
    PROVE  IType'
BY StartingType, WritingType, SshType, MergingType, OutsideType DEF Next, Step

LEMMA TypeInit ==
    ASSUME UserAssumption, Init
    PROVE  IType /\ IBounded
<1>1. job \in [Worker -> Job]
  BY IdleIsAJob DEF Init
<1>2. 0 \in 0..MaxOps
  BY DEF UserAssumption
<1>3. Cardinality(User) \in Nat
  BY FS_CardinalityType DEF UserAssumption
<1>4. IBounded
  BY <1>3 DEF Init, IBounded
<1> QED
  BY <1>1, <1>2, <1>4 DEF Init, IType

-----------------------------------------------------------------------------
(* What handlers know                                                       *)

\* Nobody is in the middle of a merge or of an unvote over SSH beside another
\* worker, and the others need no more than their base.
LEMMA OthersKnow ==
    ASSUME IKnown, Apart, NEW w \in Worker, NEW v \in Worker, v # w,
           job'[v] = job[v], exists' = exists
    PROVE  Knows(job[v])'
<1>1. {"merge", "sshUnvote"} \cap Op = {}
  BY DEF Apart
<1>2. Knows(job[v])
  BY DEF IKnown
<1>3. job[v].pc \notin Merging /\ job[v].pc # "sshDelete"
  BY <1>1, <1>2 DEF Knows
<1>4. job[v].pc \notin {"mergeMove", "mergeCount", "mergeDelete"}
  BY <1>3 DEF Merging
<1> QED
  BY <1>2, <1>3, <1>4 DEF Knows

\* A worker who does nothing knows nothing.
LEMMA IdleKnows ==
    ASSUME UserAssumption, NEW w \in Worker, job'[w] = IdleJob
    PROVE  Knows(job[w])'
BY IdleIsAJob DEF Knows, Merging

\* The checks before an operation.
LEMMA StartKnows ==
    ASSUME UserAssumption, IKnown, NEW w \in Worker,
           AddCheck(w) \/ RemoveCheck(w) \/ SshVote(w) \/ SshUnvote(w) \/ MergeStart(w)
    PROVE  Knows(job[w])' /\ exists' = exists /\ \A v \in Worker : v # w => job'[v] = job[v]
<1> USE IdleIsAJob
<1>1. job \in [Worker -> Job] /\ rows \subseteq Row /\ \A r \in rows : r.base \in exists
  BY DEF IKnown, IType
<1>2. CASE AddCheck(w)
  <2>1. PICK k \in Kind, u \in User, b \in exists :
          Start(w, "add", [IdleJob EXCEPT !.pc = "insert", !.kind = k, !.user = u, !.base = b])
    BY <1>2 DEF AddCheck
  <2>2. job'[w].pc = "insert" /\ job'[w].base = b /\ exists' = exists
    BY <1>1, <2>1 DEF Start, Job
  <2> QED
    BY <1>1, <2>1, <2>2 DEF Knows, Merging, Start
<1>3. CASE RemoveCheck(w)
  <2>1. PICK r \in rows :
          Start(w, "remove",
                [IdleJob EXCEPT !.pc = "delete", !.kind = r.kind, !.user = r.user, !.base = r.base])
    BY <1>3 DEF RemoveCheck
  <2>2. job'[w].pc = "delete" /\ job'[w].base = r.base /\ exists' = exists
    BY <1>1, <2>1 DEF Start, Job
  <2> QED
    BY <1>1, <2>1, <2>2 DEF Knows, Merging, Start
<1>4. CASE SshVote(w)
  <2>1. PICK u \in User, b \in exists :
          Start(w, "sshVote", [IdleJob EXCEPT !.pc = "sshInsert", !.user = u, !.base = b])
    BY <1>4 DEF SshVote
  <2>2. /\ job'[w].pc = "sshInsert" /\ job'[w].base = b /\ job'[w].kind = "vote"
        /\ exists' = exists
    BY <1>1, <2>1 DEF Start, Job
  <2> QED
    BY <1>1, <2>1, <2>2 DEF Knows, Merging, Start
<1>5. CASE SshUnvote(w)
  <2>1. PICK r \in rows :
          /\ r.kind = "vote"
          /\ Start(w, "sshUnvote",
                   [IdleJob EXCEPT !.pc = "sshDelete", !.user = r.user, !.base = r.base])
    BY <1>5 DEF SshUnvote
  <2>2. /\ job'[w].pc = "sshDelete" /\ job'[w].kind = "vote" /\ job'[w].user = r.user
        /\ job'[w].base = r.base /\ exists' = exists /\ rows' = rows /\ "sshUnvote" \in Op
    BY <1>1, <2>1 DEF Start, Job
  <2>3. r = [kind |-> "vote", user |-> r.user, base |-> r.base]
    BY <1>1, <2>1 DEF Row
  <2> QED
    BY <1>1, <2>1, <2>2, <2>3 DEF Knows, Merging, Start
<1>6. CASE MergeStart(w)
  <2>1. PICK b \in exists, c \in exists :
          /\ b # c
          /\ Start(w, "merge", [IdleJob EXCEPT !.pc = "mergeRead", !.base = b, !.into = c])
    BY <1>6 DEF MergeStart
  <2>2. /\ job'[w].pc = "mergeRead" /\ job'[w].base = b /\ job'[w].into = c
        /\ exists' = exists /\ "merge" \in Op
    BY <1>1, <2>1 DEF Start, Job
  <2> QED
    BY <1>1, <2>1, <2>2 DEF Knows, Merging, Start
<1> QED
  BY <1>2, <1>3, <1>4, <1>5, <1>6

\* Votes and watches, on the web and over SSH.
LEMMA WritingKnows ==
    ASSUME UserAssumption, IKnown, NEW w \in Worker,
           Insert(w) \/ Delete(w) \/ Count(w) \/ SshInsert(w) \/ SshDelete(w)
    PROVE  Knows(job[w])' /\ exists' = exists /\ \A v \in Worker : v # w => job'[v] = job[v]
<1>1. IType /\ Knows(job[w])
  BY DEF IKnown
<1>2. exists' = exists
  BY DEF Insert, Delete, Count, SshInsert, SshDelete
<1>3. ASSUME Goto(w, "count"), At(w, "insert") \/ At(w, "delete")
      PROVE  Knows(job[w])'
  <2>1. job'[w] = [job[w] EXCEPT !.pc = "count"]
    BY <1>1, <1>3, GotoType
  <2>2. job'[w].pc = "count" /\ job'[w].base = job[w].base
    BY <1>1, <2>1 DEF IType, Job
  <2>3. job[w].base \in exists
    BY <1>1, <1>3 DEF Knows, At
  <2> QED
    BY <1>2, <2>2, <2>3 DEF Knows, Merging
<1>4. End(w) => Knows(job[w])'
  BY <1>1, EndType, IdleKnows
<1>5. End(w) \/ (Goto(w, "count") /\ (At(w, "insert") \/ At(w, "delete")))
  BY DEF Insert, Delete, Count, SshInsert, SshDelete
<1> QED
  BY <1>1, <1>2, <1>3, <1>4, <1>5, GotoType, EndType

\* A merge.  What the target has is read when nobody writes, and stays; what it
\* does not have is moved.
LEMMA MergingKnows ==
    ASSUME UserAssumption, IKnown, NEW w \in Worker,
           MergeRead(w) \/ MergeMove(w) \/ MergeCount(w) \/ MergeDelete(w)
    PROVE  Knows(job[w])' /\ \A v \in Worker : v # w => job'[v] = job[v]
<1> DEFINE b == job[w].base
           c == job[w].into
<1>1. IType /\ Knows(job[w]) /\ rows \subseteq Row
  BY DEF IKnown, IType
<1>2. job[w].pc \in Merging
  BY DEF MergeRead, MergeMove, MergeCount, MergeDelete, At, Merging
<1>3. "merge" \in Op /\ b \in exists /\ c \in exists /\ b # c
  BY <1>1, <1>2 DEF Knows, Merging
<1>4. CASE MergeRead(w)
  <2> DEFINE kept == {[kind |-> r.kind, user |-> r.user] : r \in {r \in rows : r.base = c}}
  <2>1. job' = [job EXCEPT ![w] = [job[w] EXCEPT !.pc = "mergeMove", !.kept = kept]]
    BY <1>1, <1>4 DEF MergeRead, IType
  <2>2. /\ job'[w].pc = "mergeMove" /\ job'[w].base = b /\ job'[w].into = c
        /\ job'[w].kept = kept
        /\ \A v \in Worker : v # w => job'[v] = job[v]
    BY <1>1, <2>1 DEF IType, Job
  <2>3. ASSUME NEW r \in rows, [kind |-> r.kind, user |-> r.user] \in kept
        PROVE  Moved(r, c) \in rows
    <3>1. PICK s \in rows : s.base = c /\ s.kind = r.kind /\ s.user = r.user
      BY <2>3
    <3>2. s = [kind |-> r.kind, user |-> r.user, base |-> c]
      BY <1>1, <3>1 DEF Row
    <3> QED
      BY <3>2 DEF Moved
  <2>4. rows' = rows /\ exists' = exists
    BY <1>4 DEF MergeRead
  <2> HIDE DEF kept
  <2> QED
    BY <1>3, <2>2, <2>3, <2>4 DEF Knows, Merging
<1>5. CASE MergeMove(w)
  <2> DEFINE N == {[r EXCEPT !.base = c] : r \in Moving(w)}
  <2>1. CASE End(w)
    BY <1>1, <2>1, EndType, IdleKnows
  <2>2. CASE ~ End(w)
    <3>1. rows' = (rows \ Moving(w)) \cup N /\ Goto(w, "mergeCount") /\ exists' = exists
      BY <1>5, <2>2 DEF MergeMove
    <3>2. job'[w] = [job[w] EXCEPT !.pc = "mergeCount"] /\ \A v \in Worker : v # w => job'[v] = job[v]
      BY <1>1, <3>1, GotoType
    <3>3. job'[w].pc = "mergeCount" /\ job'[w].base = b /\ job'[w].into = c
      BY <1>1, <3>2 DEF IType, Job
    <3>4. ASSUME NEW r \in rows', r.base = b
          PROVE  Moved(r, c) \in rows'
      <4>1. \A s \in N : s.base = c
        BY <1>1 DEF Moving, Row
      <4>2. r \in rows /\ r \notin Moving(w)
        BY <1>3, <3>1, <3>4, <4>1
      <4>3. [kind |-> r.kind, user |-> r.user] \in job[w].kept
        BY <3>4, <4>2 DEF Moving
      <4>4. Moved(r, c) \in rows
        BY <1>1, <1>5, <3>4, <4>2, <4>3 DEF Knows, MergeMove, At
      <4>5. Moved(r, c) \notin Moving(w)
        BY <1>3 DEF Moving, Moved
      <4> QED
        BY <3>1, <4>4, <4>5
    <3> QED
      BY <1>3, <3>1, <3>2, <3>3, <3>4 DEF Knows, Merging
  <2> QED
    BY <2>1, <2>2
<1>6. CASE MergeCount(w)
  <2>1. CASE End(w)
    BY <1>1, <2>1, EndType, IdleKnows
  <2>2. CASE ~ End(w)
    <3>1. Goto(w, "mergeDelete") /\ rows' = rows /\ exists' = exists
      BY <1>6, <2>2 DEF MergeCount
    <3>2. job'[w] = [job[w] EXCEPT !.pc = "mergeDelete"] /\ \A v \in Worker : v # w => job'[v] = job[v]
      BY <1>1, <3>1, GotoType
    <3>3. job'[w].pc = "mergeDelete" /\ job'[w].base = b /\ job'[w].into = c
      BY <1>1, <3>2 DEF IType, Job
    <3>4. \A r \in rows : r.base = b => Moved(r, c) \in rows
      BY <1>1, <1>6 DEF Knows, MergeCount, At
    <3> QED
      BY <1>3, <3>1, <3>2, <3>3, <3>4 DEF Knows, Merging
  <2> QED
    BY <2>1, <2>2
<1>7. CASE MergeDelete(w)
  <2>1. End(w)
    BY <1>7 DEF MergeDelete
  <2> QED
    BY <1>1, <2>1, EndType, IdleKnows
<1> QED
  BY <1>4, <1>5, <1>6, <1>7

LEMMA KnownStep ==
    ASSUME UserAssumption, Apart, IKnown, [Next]_vars
    PROVE  IKnown'
<1>1. IType'
  BY TypeStep DEF IKnown
<1> SUFFICES ASSUME NEW v \in Worker PROVE Knows(job[v])'
  BY <1>1 DEF IKnown
<1>2. IType /\ Knows(job[v])
  BY DEF IKnown
<1>3. ASSUME job' = job, exists' = exists, rows' = rows
      PROVE  Knows(job[v])'
  BY <1>2, <1>3 DEF Knows
<1>4. ASSUME NEW w \in Worker, Knows(job[w])', exists' = exists,
             \A u \in Worker : u # w => job'[u] = job[u]
      PROVE  Knows(job[v])'
  BY <1>4, OthersKnow
<1>5. CASE Cron \/ (\E b \in Base : Age(b)) \/ UNCHANGED vars
  BY <1>3, <1>5 DEF Cron, Age, vars
<1>6. ASSUME NEW w \in Worker, Crash(w)
      PROVE  Knows(job[v])'
  <2>1. End(w) /\ exists' = exists
    BY <1>6 DEF Crash
  <2> QED
    BY <1>2, <1>4, <2>1, EndType, IdleKnows
<1>7. ASSUME NEW w \in Worker,
             AddCheck(w) \/ RemoveCheck(w) \/ SshVote(w) \/ SshUnvote(w) \/ MergeStart(w)
      PROVE  Knows(job[v])'
  BY <1>4, <1>7, StartKnows
<1>8. ASSUME NEW w \in Worker,
             Insert(w) \/ Delete(w) \/ Count(w) \/ SshInsert(w) \/ SshDelete(w)
      PROVE  Knows(job[v])'
  BY <1>4, <1>8, WritingKnows
<1>9. ASSUME NEW w \in Worker,
             MergeRead(w) \/ MergeMove(w) \/ MergeCount(w) \/ MergeDelete(w)
      PROVE  Knows(job[v])'
  <2>1. Knows(job[w])' /\ \A u \in Worker : u # w => job'[u] = job[u]
    BY <1>9, MergingKnows
  <2>2. "merge" \in Op
    BY <1>9 DEF IKnown, Knows, MergeRead, MergeMove, MergeCount, MergeDelete, At, Merging
  <2>3. v = w
    BY <2>2 DEF Apart
  <2> QED
    BY <2>1, <2>3
<1> QED
  BY <1>5, <1>6, <1>7, <1>8, <1>9 DEF Next, Step

\* Whoever votes for a base that a merge deletes, or watches it, goes on doing
\* so for the target (MergeDelete, the only step that deletes a base).
LEMMA NothingIsLostStep ==
    ASSUME UserAssumption, Apart, IKnown, [Next]_vars
    PROVE  StepLosesNothing
<1> SUFFICES ASSUME NEW r \in rows, r.base \in exists \ exists'
             PROVE  \E s \in rows' : s.kind = r.kind /\ s.user = r.user
  BY DEF StepLosesNothing
<1>1. PICK w \in Worker : MergeDelete(w)
  BY DEF Next, Step, vars, AddCheck, RemoveCheck, SshVote, SshUnvote, MergeStart, Start, Insert,
         Delete, Count, SshInsert, SshDelete, MergeRead, MergeMove, MergeCount, Crash, Cron, Age
<1>2. r.base = job[w].base
  BY <1>1 DEF MergeDelete
<1>3. Knows(job[w]) /\ job[w].pc = "mergeDelete"
  BY <1>1 DEF IKnown, MergeDelete, At
<1>4. Moved(r, job[w].into) \in rows /\ job[w].into # job[w].base
  BY <1>2, <1>3 DEF Knows, Merging
<1>5. Moved(r, job[w].into) \in rows'
  BY <1>1, <1>4 DEF MergeDelete, Moved
<1> QED
  BY <1>5 DEF Moved

-----------------------------------------------------------------------------
(* The counts                                                               *)

\* CountIsRight says no more and no less.
LEMMA CountsAreTheCount == CountIsRight <=> ICounts
BY DEF CountIsRight, ICounts, Counting, Right, VotesFor, At

\* After a step, the count of b is right or somebody corrects it.
Accounted(b) ==
    (\E w \in Worker : Counting(job'[w], b)) \/ NumVotes'[b] = Cardinality(VotesFor(rows', b))

\* A step that is not about the votes of b, by a worker who was not to count them.
LEMMA OthersAccounted ==
    ASSUME ICounts, NEW w \in Worker, NEW b \in exists,
           \A v \in Worker : v # w => job'[v] = job[v],
           ~ Counting(job[w], b),
           NumVotes'[b] = NumVotes[b], VotesFor(rows', b) = VotesFor(rows, b)
    PROVE  Accounted(b)
BY DEF ICounts, Right, Accounted

\* A vote, a watch, an unvote or an unwatch on the web.
LEMMA WebCounts ==
    ASSUME UserAssumption, IKnown, ICounts, NEW w \in Worker, NEW b \in exists,
           Insert(w) \/ Delete(w)
    PROVE  Accounted(b)
<1>1. IType /\ Knows(job[w]) /\ job[w].base \in exists
  BY DEF IKnown, Knows, Insert, Delete, At
<1>2. \A v \in Worker : v # w => job'[v] = job[v]
  BY <1>1, GotoType, EndType DEF Insert, Delete
<1>3. ~ Counting(job[w], b) /\ NumVotes' = NumVotes
  BY DEF Counting, Insert, Delete, At
<1>4. Mine(w).base = job[w].base /\ Mine(w).kind = job[w].kind
  BY DEF Mine
<1>5. rows' \in {rows, rows \cup {Mine(w)}, rows \ {Mine(w)}}
  BY DEF Insert, Delete
<1>6. CASE b = job[w].base /\ Goto(w, "count")
  <2>1. job'[w] = [job[w] EXCEPT !.pc = "count"]
    BY <1>1, <1>6, GotoType
  <2>2. job'[w].pc = "count" /\ job'[w].base = b
    BY <1>1, <1>6, <2>1 DEF IType, Job
  <2> QED
    BY <2>2 DEF Accounted, Counting
<1>7. CASE b # job[w].base
  <2>1. VotesFor(rows', b) = VotesFor(rows, b)
    BY <1>4, <1>5, <1>7 DEF VotesFor
  <2> QED
    BY <1>2, <1>3, <2>1, OthersAccounted
<1>8. CASE ~ Goto(w, "count")
  <2>1. rows' = rows \/ job[w].kind # "vote"
    BY <1>8 DEF Insert, Delete
  <2>2. VotesFor(rows', b) = VotesFor(rows, b)
    BY <1>4, <1>5, <2>1 DEF VotesFor
  <2> QED
    BY <1>2, <1>3, <2>2, OthersAccounted
<1> QED
  BY <1>6, <1>7, <1>8

\* The count after it (popupdate.run_single).
LEMMA CountCounts ==
    ASSUME UserAssumption, IKnown, ICounts, NEW w \in Worker, NEW b \in exists, Count(w)
    PROVE  Accounted(b)
<1>1. IType /\ job[w].base \in exists /\ job[w].pc = "count" /\ rows' = rows
  BY DEF IKnown, Knows, Count, At
<1>2. \A v \in Worker : v # w => job'[v] = job[v]
  BY <1>1, EndType DEF Count
<1>3. /\ NumVotes'[job[w].base] = Cardinality(VotesFor(rows, job[w].base))
      /\ b # job[w].base => NumVotes'[b] = NumVotes[b]
  BY <1>1, CountedNumbers DEF Count, IType
<1>4. CASE b = job[w].base
  BY <1>1, <1>3, <1>4 DEF Accounted
<1>5. CASE b # job[w].base
  <2>1. ~ Counting(job[w], b)
    BY <1>1, <1>5 DEF Counting
  <2> QED
    BY <1>1, <1>2, <1>3, <1>5, <2>1, OthersAccounted
<1> QED
  BY <1>4, <1>5

\* A vote over SSH adds one to the count as it is.
LEMMA SshVoteCounts ==
    ASSUME UserAssumption, IKnown, ICounts, NEW w \in Worker, NEW b \in exists, SshInsert(w)
    PROVE  Accounted(b)
<1>1. IType /\ Knows(job[w]) /\ rows \subseteq Row /\ job[w].pc = "sshInsert"
  BY DEF IKnown, IType, SshInsert, At
<1>2. \A v \in Worker : v # w => job'[v] = job[v]
  BY <1>1, EndType DEF SshInsert
<1>3. ~ Counting(job[w], b)
  BY <1>1 DEF Counting
<1>4. CASE ~ (job[w].base \in exists /\ Mine(w) \notin rows)
  BY <1>2, <1>3, <1>4, OthersAccounted DEF SshInsert
<1>5. CASE job[w].base \in exists /\ Mine(w) \notin rows
  <2>1. Mine(w) \in Row /\ Mine(w).kind = "vote" /\ Mine(w).base = job[w].base
    BY <1>1, <1>5, MineIsARow DEF Knows
  <2>2. rows' = rows \cup {Mine(w)} /\ NumVotes' = [NumVotes EXCEPT ![job[w].base] = @ + 1]
    BY <1>5 DEF SshInsert
  <2>3. CASE b # job[w].base
    <3>1. NumVotes'[b] = NumVotes[b] /\ VotesFor(rows', b) = VotesFor(rows, b)
      BY <1>1, <2>1, <2>2, <2>3 DEF IType, VotesFor
    <3> QED
      BY <1>2, <1>3, <3>1, OthersAccounted
  <2>4. CASE b = job[w].base
    <3>1. NumVotes'[b] = NumVotes[b] + 1
      BY <1>1, <2>2, <2>4 DEF IType
    <3>2. Cardinality(VotesFor(rows', b)) = Cardinality(VotesFor(rows, b)) + 1
      BY <1>1, <1>5, <2>1, <2>2, <2>4, OneMore
    <3>3. CASE Right(b)
      BY <3>1, <3>2, <3>3 DEF Right, Accounted
    <3>4. CASE \E v \in Worker : Counting(job[v], b)
      BY <1>2, <1>3, <3>4 DEF Accounted
    <3> QED
      BY <3>3, <3>4 DEF ICounts
  <2> QED
    BY <2>3, <2>4
<1> QED
  BY <1>4, <1>5

\* An unvote over SSH takes one away, with the row it has seen.
LEMMA SshUnvoteCounts ==
    ASSUME UserAssumption, IKnown, ICounts, NEW w \in Worker, NEW b \in exists, SshDelete(w)
    PROVE  Accounted(b)
<1>1. IType /\ Knows(job[w]) /\ rows \subseteq Row /\ job[w].pc = "sshDelete"
  BY DEF IKnown, IType, SshDelete, At
<1>2. \A v \in Worker : v # w => job'[v] = job[v]
  BY <1>1, EndType DEF SshDelete
<1>3. ~ Counting(job[w], b)
  BY <1>1 DEF Counting
<1>4. CASE job[w].base \in exists /\ NumVotes[job[w].base] = 0
  BY <1>2, <1>3, <1>4, OthersAccounted DEF SshDelete
<1>5. CASE ~ (job[w].base \in exists /\ NumVotes[job[w].base] = 0)
  <2>1. job[w].base \in exists /\ Mine(w) \in rows /\ Mine(w).kind = "vote" /\ Mine(w).base = job[w].base
    BY <1>1 DEF Knows, Mine
  <2>2. rows' = rows \ {Mine(w)} /\ NumVotes' = [NumVotes EXCEPT ![job[w].base] = @ - 1]
    BY <1>5, <2>1 DEF SshDelete
  <2>3. CASE b # job[w].base
    <3>1. NumVotes'[b] = NumVotes[b] /\ VotesFor(rows', b) = VotesFor(rows, b)
      BY <1>1, <2>1, <2>2, <2>3 DEF IType, VotesFor
    <3> QED
      BY <1>2, <1>3, <3>1, OthersAccounted
  <2>4. CASE b = job[w].base
    <3>1. NumVotes'[b] = NumVotes[b] - 1
      BY <1>1, <2>2, <2>4 DEF IType
    <3>2. Cardinality(VotesFor(rows', b)) = Cardinality(VotesFor(rows, b)) - 1
      BY <1>1, <2>1, <2>2, <2>4, OneLess
    <3>3. CASE Right(b)
      BY <3>1, <3>2, <3>3 DEF Right, Accounted
    <3>4. CASE \E v \in Worker : Counting(job[v], b)
      BY <1>2, <1>3, <3>4 DEF Accounted
    <3> QED
      BY <3>3, <3>4 DEF ICounts
  <2> QED
    BY <2>3, <2>4
<1> QED
  BY <1>4, <1>5

\* A merge counts the votes of the target, and the other base is going to be
\* deleted.
LEMMA MergeCounts ==
    ASSUME UserAssumption, IKnown, ICounts, NEW w \in Worker, NEW b \in exists,
           MergeRead(w) \/ MergeMove(w) \/ MergeCount(w) \/ MergeDelete(w), b \in exists'
    PROVE  Accounted(b)
<1>1. IType /\ Knows(job[w]) /\ rows \subseteq Row
  BY DEF IKnown, IType
<1>2. \A v \in Worker : v # w => job'[v] = job[v]
  BY MergingKnows
<1>3. job[w].into \in exists /\ job[w].base # job[w].into
  BY <1>1 DEF Knows, MergeRead, MergeMove, MergeCount, MergeDelete, At, Merging
<1>4. CASE MergeRead(w)
  BY <1>2, <1>4, OthersAccounted DEF MergeRead, At, Counting
<1>5. CASE MergeMove(w)
  <2> DEFINE N == {[r EXCEPT !.base = job[w].into] : r \in Moving(w)}
  <2>1. ~ Counting(job[w], b) /\ NumVotes' = NumVotes
    BY <1>5 DEF MergeMove, At, Counting
  <2>2. CASE rows' = rows
    BY <1>2, <2>1, <2>2, OthersAccounted
  <2>3. CASE rows' # rows
    <3>1. rows' = (rows \ Moving(w)) \cup N /\ Goto(w, "mergeCount")
      BY <1>5, <2>3 DEF MergeMove
    <3>2. job'[w] = [job[w] EXCEPT !.pc = "mergeCount"]
      BY <1>1, <3>1, GotoType
    <3>3. job'[w].pc = "mergeCount" /\ job'[w].base = job[w].base /\ job'[w].into = job[w].into
      BY <1>1, <3>2 DEF IType, Job
    <3>4. CASE b \in {job[w].base, job[w].into}
      BY <3>3, <3>4 DEF Accounted, Counting
    <3>5. CASE b \notin {job[w].base, job[w].into}
      <4>1. (\A r \in N : r.base = job[w].into) /\ \A r \in Moving(w) : r.base = job[w].base
        BY <1>1 DEF Moving, Row
      <4>2. VotesFor(rows', b) = VotesFor(rows, b)
        BY <3>1, <3>5, <4>1 DEF VotesFor
      <4> QED
        BY <1>2, <2>1, <4>2, OthersAccounted
    <3> QED
      BY <3>4, <3>5
  <2> QED
    BY <2>2, <2>3
<1>6. CASE MergeCount(w)
  <2>1. job[w].pc = "mergeCount" /\ rows' = rows /\ Goto(w, "mergeDelete")
    BY <1>3, <1>6 DEF MergeCount, At
  <2>2. job'[w] = [job[w] EXCEPT !.pc = "mergeDelete"]
    BY <1>1, <2>1, GotoType
  <2>3. job'[w].pc = "mergeDelete" /\ job'[w].base = job[w].base
    BY <1>1, <2>2 DEF IType, Job
  <2>4. /\ NumVotes'[job[w].into] = Cardinality(VotesFor(rows, job[w].into))
        /\ b # job[w].into => NumVotes'[b] = NumVotes[b]
    BY <1>1, <1>3, <1>6, CountedNumbers DEF MergeCount, IType
  <2>5. CASE b = job[w].base
    BY <2>3, <2>5 DEF Accounted, Counting
  <2>6. CASE b = job[w].into
    BY <2>1, <2>4, <2>6 DEF Accounted
  <2>7. CASE b \notin {job[w].base, job[w].into}
    <3>1. ~ Counting(job[w], b)
      BY <2>1, <2>7 DEF Counting
    <3> QED
      BY <1>2, <2>1, <2>4, <2>7, <3>1, OthersAccounted
  <2> QED
    BY <2>5, <2>6, <2>7
<1>7. CASE MergeDelete(w)
  <2>1. b # job[w].base /\ job[w].pc = "mergeDelete"
    BY <1>7 DEF MergeDelete, At
  <2>2. NumVotes'[b] = NumVotes[b] /\ VotesFor(rows', b) = VotesFor(rows, b)
    BY <1>1, <1>7, <2>1 DEF MergeDelete, IType, VotesFor
  <2>3. ~ Counting(job[w], b)
    BY <2>1 DEF Counting
  <2> QED
    BY <1>2, <2>2, <2>3, OthersAccounted
<1> QED
  BY <1>4, <1>5, <1>6, <1>7

\* The checks before an operation, the cron job and time.
LEMMA RestCounts ==
    ASSUME UserAssumption, IKnown, ICounts, NEW b \in exists,
           \/ \E w \in Worker : AddCheck(w) \/ RemoveCheck(w) \/ SshVote(w) \/ SshUnvote(w) \/ MergeStart(w)
           \/ Cron \/ (\E c \in Base : Age(c)) \/ UNCHANGED vars
    PROVE  Accounted(b)
<1>1. CASE \E w \in Worker : AddCheck(w) \/ RemoveCheck(w) \/ SshVote(w) \/ SshUnvote(w) \/ MergeStart(w)
  <2>1. PICK w \in Worker : AddCheck(w) \/ RemoveCheck(w) \/ SshVote(w) \/ SshUnvote(w) \/ MergeStart(w)
    BY <1>1
  <2>2. \A v \in Worker : v # w => job'[v] = job[v]
    BY <2>1, StartKnows
  <2>3. job[w].pc = "idle" /\ NumVotes' = NumVotes /\ rows' = rows
    BY <2>1 DEF AddCheck, RemoveCheck, SshVote, SshUnvote, MergeStart, Start, At
  <2>4. ~ Counting(job[w], b)
    BY <2>3 DEF Counting
  <2> QED
    BY <2>2, <2>3, <2>4, OthersAccounted
<1>2. CASE Cron
  <2>1. job' = job /\ rows' = rows
    BY <1>2 DEF Cron
  <2>2. \/ NumVotes'[b] = Cardinality(VotesFor(rows, b))
        \/ NumVotes'[b] = NumVotes[b]
    BY <1>2, CountedNumbers DEF Cron, IKnown, IType
  <2> QED
    BY <2>1, <2>2 DEF ICounts, Right, Accounted
<1>3. CASE (\E c \in Base : Age(c)) \/ UNCHANGED vars
  BY <1>3 DEF Age, vars, ICounts, Right, Accounted
<1> QED
  BY <1>1, <1>2, <1>3

LEMMA CountsStep ==
    ASSUME UserAssumption, "crash" \notin Op, IKnown, ICounts, [Next]_vars
    PROVE  ICounts'
<1> SUFFICES ASSUME NEW b \in exists' PROVE Accounted(b)
  BY DEF ICounts, Right, Accounted
<1>1. exists' \subseteq exists
  BY DEF Next, Step, vars, AddCheck, RemoveCheck, SshVote, SshUnvote, MergeStart, Start, Insert,
         Delete, Count, SshInsert, SshDelete, MergeRead, MergeMove, MergeCount, MergeDelete, Crash,
         Cron, Age
<1>2. b \in exists
  BY <1>1
<1> QED
  BY <1>2, WebCounts, CountCounts, SshVoteCounts, SshUnvoteCounts, MergeCounts, RestCounts
     DEF Next, Step, Crash

\* The unsigned column does not refuse an unvote: there is a vote, it is counted.
LEMMA RefusedStep ==
    ASSUME UserAssumption, Apart, IKnown, ICounts, ~ refused, [Next]_vars
    PROVE  ~ refused'
<1>1. SUFFICES ASSUME NEW w \in Worker, SshDelete(w), refused'
               PROVE  FALSE
  BY DEF Next, Step, vars, AddCheck, RemoveCheck, SshVote, SshUnvote, MergeStart, Start, Insert,
         Delete, Count, SshInsert, MergeRead, MergeMove, MergeCount, MergeDelete, Crash, Cron, Age
<1>2. IType /\ Knows(job[w]) /\ job[w].pc = "sshDelete"
  BY <1>1 DEF IKnown, SshDelete, At
<1>3. Mine(w) \in rows /\ Mine(w).kind = "vote" /\ Mine(w).base = job[w].base /\ "sshUnvote" \in Op
  BY <1>2 DEF Knows, Mine
<1>4. job[w].base \in exists /\ NumVotes[job[w].base] = 0
  BY <1>1, <1>2 DEF SshDelete, Knows
<1>5. \A v \in Worker : v = w
  BY <1>3 DEF Apart
<1>6. Right(job[w].base)
  BY <1>2, <1>4, <1>5 DEF ICounts, Counting
<1>7. rows \in SUBSET Row
  BY <1>2 DEF IType
<1> QED
  BY <1>3, <1>4, <1>6, <1>7, SomeVotes DEF Right

\* No count exceeds the number of users, if nobody counts beside another.
LEMMA BoundedStep ==
    ASSUME UserAssumption, NEW w, Worker = {w}, IKnown, ICounts, IBounded, [Next]_vars
    PROVE  IBounded'
<1> SUFFICES ASSUME NEW b \in Base PROVE NumVotes'[b] <= Cardinality(User)
  BY DEF IBounded
<1>1. IType /\ Knows(job[w]) /\ rows \subseteq Row /\ rows' \subseteq Row
  BY TypeStep DEF IKnown, IType
<1>2. NumVotes[b] \in Nat /\ NumVotes[b] <= Cardinality(User) /\ Cardinality(User) \in Nat
  BY <1>1, FS_CardinalityType DEF IType, IBounded, UserAssumption
<1>3. \A c : Cardinality(VotesFor(rows, c)) \in Nat /\ Cardinality(VotesFor(rows, c)) <= Cardinality(User)
  BY <1>1, OneVoteEach
<1>4. ASSUME NEW B \in SUBSET exists, Counted(B)
      PROVE  NumVotes'[b] <= Cardinality(User)
  BY <1>1, <1>2, <1>3, <1>4, CountedNumbers
<1>5. CASE Count(w) \/ MergeCount(w) \/ Cron
  BY <1>4, <1>5 DEF Count, MergeCount, Cron
<1>6. CASE SshInsert(w)
  <2>1. CASE b # job[w].base \/ NumVotes' = NumVotes
    BY <1>1, <1>2, <1>6, <2>1 DEF SshInsert, IType
  <2>2. CASE b = job[w].base /\ NumVotes' # NumVotes
    <3>1. b \in exists /\ Mine(w) \notin rows /\ rows' = rows \cup {Mine(w)} /\ NumVotes'[b] = NumVotes[b] + 1
      BY <1>1, <1>6, <2>2 DEF SshInsert, IType
    <3>2. Right(b)
      BY <1>6, <3>1 DEF ICounts, Counting, SshInsert, At
    <3>3. Mine(w) \in Row /\ Mine(w).kind = "vote" /\ Mine(w).base = b
      BY <1>1, <1>6, <2>2, <3>1, MineIsARow DEF Knows, SshInsert, At
    <3>4. Cardinality(VotesFor(rows', b)) = Cardinality(VotesFor(rows, b)) + 1
      BY <1>1, <3>1, <3>3, OneMore
    <3>5. Cardinality(VotesFor(rows', b)) <= Cardinality(User)
      BY <1>1, OneVoteEach
    <3> QED
      BY <3>1, <3>2, <3>4, <3>5 DEF Right
  <2> QED
    BY <2>1, <2>2
<1>7. CASE SshDelete(w)
  BY <1>1, <1>2, <1>7 DEF SshDelete, IType
<1>8. CASE MergeDelete(w)
  BY <1>1, <1>2, <1>8 DEF MergeDelete, IType
<1>9. ASSUME NumVotes' = NumVotes
      PROVE  NumVotes'[b] <= Cardinality(User)
  BY <1>2, <1>9
<1> QED
  BY <1>5, <1>6, <1>7, <1>8, <1>9
     DEF Next, Step, vars, AddCheck, RemoveCheck, SshVote, SshUnvote, MergeStart, Start, Insert,
         Delete, MergeRead, MergeMove, Crash, Age

-----------------------------------------------------------------------------
(* The theorems                                                             *)

LEMMA InvariantInit ==
    ASSUME UserAssumption, Init
    PROVE  IKnown /\ ICounts /\ IBounded /\ ~ refused
<1>1. IType /\ IBounded
  BY TypeInit
<1>2. \A w \in Worker : job[w] = IdleJob
  BY DEF Init
<1>3. IKnown
  BY <1>1, <1>2, IdleIsAJob DEF IKnown, Knows, Merging
<1>4. ICounts
  <2> SUFFICES ASSUME NEW b \in exists PROVE Right(b)
    BY DEF ICounts
  <2>1. VotesFor(rows, b) = {} /\ NumVotes[b] = 0
    BY DEF Init, VotesFor
  <2> QED
    BY <2>1, FS_EmptySet DEF Right
<1> QED
  BY <1>1, <1>3, <1>4 DEF Init

\* The count of a package base is the number of its votes, but for a handler
\* that is about to count them (popupdate.run_single, the SSH commands,
\* _retry_merge), and so a vote that is there can be withdrawn over SSH
\* (pkgbase_unvote): with one worker whatever the operations are, with any
\* number of them if there are only votes and watches and no unvotes over SSH.
\* No process is cut off between two transactions.
THEOREM CountStaysRight ==
    ASSUME UserAssumption, Apart, "crash" \notin Op
    PROVE  Spec => [](CountIsRight /\ UnvoteIsNotRefused)
<1> DEFINE Inv == IKnown /\ ICounts /\ ~ refused
<1>1. Init => Inv
  BY InvariantInit
<1>2. Inv /\ [Next]_vars => Inv'
  BY KnownStep, CountsStep, RefusedStep
<1>3. Inv => CountIsRight /\ UnvoteIsNotRefused
  BY CountsAreTheCount DEF UnvoteIsNotRefused
<1> QED
  BY <1>1, <1>2, <1>3, PTL DEF Spec

\* When a merged package base is deleted, whoever voted for it or watched it
\* votes for another one or watches another one (_retry_merge), even if
\* processes are cut off: what the merge knows of the target is right, as
\* nobody else writes in the meantime.
THEOREM NothingIsLost ==
    ASSUME UserAssumption, NEW w, Worker = {w}
    PROVE  Spec => [][StepLosesNothing]_vars
<1>1. Apart
  BY DEF Apart
<1>2. Init => IKnown
  BY InvariantInit
<1>3. IKnown /\ [Next]_vars => IKnown'
  BY <1>1, KnownStep
<1>4. IKnown /\ [Next]_vars => [StepLosesNothing]_vars
  BY <1>1, NothingIsLostStep
<1> QED
  BY <1>2, <1>3, <1>4, PTL DEF Spec

\* The variables of Votes have their types, and no count exceeds the number of
\* users: with one worker that is never cut off.  (Two workers can make it do
\* so: one has withdrawn a vote and not counted, the other adds it again over
\* SSH.)
THEOREM TypeCorrect ==
    ASSUME UserAssumption, NEW w, Worker = {w}, "crash" \notin Op
    PROVE  Spec => []TypeOK
<1> DEFINE Inv == IKnown /\ ICounts /\ IBounded
<1>1. Apart
  BY DEF Apart
<1>2. Init => Inv
  BY InvariantInit
<1>3. Inv /\ [Next]_vars => Inv'
  BY <1>1, KnownStep, CountsStep, BoundedStep
<1>4. Inv => TypeOK
  <2> SUFFICES ASSUME Inv PROVE NumVotes \in [Base -> 0..Cardinality(User)]
    BY DEF TypeOK, IKnown, IType, Job
  <2>1. Cardinality(User) \in Nat
    BY FS_CardinalityType DEF UserAssumption
  <2> QED
    BY <2>1 DEF IKnown, IType, IBounded
<1> QED
  BY <1>2, <1>3, <1>4, PTL DEF Spec

-----------------------------------------------------------------------------
(* BasePage *)

\* What each phase of a handler says of the comment, the user and the text it
\* is about.
PageJob == [pc : {"idle", "edit", "render", "save", "keywords", "flag", "mail"},
            user : User \cup {NoUser}, comment : SUBSET Comment,
            text : Text \cup {NoText},
            keep : SUBSET Keyword, new : SUBSET Keyword, old : SUBSET Keyword]

Commenting == {"edit", "render", "save"}

PageJobOK(j) ==
    /\ j \in PageJob
    /\ j.pc \in Commenting => \E c \in Comment : j.comment = {c}
    /\ j.pc \notin Commenting => j.comment = {}
    /\ j.pc \in {"flag", "mail"} => j.user \in User
    /\ j.pc = "flag" => j.text \in Text /\ "flag" \in Op
    /\ j.pc = "keywords" => "keywords" \in Op

CommentRow == [user : User \cup {NoUser}, Comments : Text \cup {NoText},
               RenderedComment : Text \cup {NoText},
               Deleter : User \cup {NoUser}, pinned : BOOLEAN]
FlagRow == [set : BOOLEAN, Flagger : User \cup {NoUser}, FlaggerComment : Text \cup {NoText}]

FlagTyped ==
    /\ flag \in FlagRow
    /\ flag.set => flag.Flagger # NoUser /\ flag.FlaggerComment # NoText
    /\ flags \subseteq User \X Text
    /\ mailed \subseteq User \X (Text \cup {NoText})

KeywordsTyped == keywords \subseteq Keyword /\ forms \subseteq SUBSET Keyword

PageJobsOK == task \in [Worker -> PageJob] /\ \A w \in Worker : PageJobOK(task[w])

IPageType ==
    /\ comment \in [Comment -> CommentRow]
    /\ KeywordsTyped
    /\ FlagTyped
    /\ PageJobsOK

LEMMA PageTypeGiven == IPageType => Page!TypeOK
  BY DEF IPageType, KeywordsTyped, FlagTyped, PageJobsOK, Page!TypeOK, CommentRow, FlagRow, PageJob

LEMMA IdleIsAPageJob == PageJobOK(Page!IdleJob) /\ Page!IdleJob.pc = "idle"
                          /\ Page!IdleJob.comment = {}
  BY DEF PageJobOK, PageJob, Page!IdleJob, Commenting

\* A worker goes on with j.
LEMMA BecomesOK ==
  ASSUME PageJobsOK, NEW w \in Worker, NEW j, PageJobOK(j), Page!Become(w, j)
  PROVE  /\ PageJobsOK' /\ task'[w] = j
         /\ \A v \in Worker : v # w => task'[v] = task[v]
<1>1. task' = [task EXCEPT ![w] = j] /\ j \in PageJob
  BY DEF Page!Become, PageJobOK
<1> QED
  BY <1>1 DEF PageJobsOK

LEMMA EndsOK ==
  ASSUME PageJobsOK, NEW w \in Worker, Page!End(w)
  PROVE  /\ PageJobsOK' /\ task'[w] = Page!IdleJob
         /\ \A v \in Worker : v # w => task'[v] = task[v]
  BY IdleIsAPageJob, BecomesOK DEF Page!End

-----------------------------------------------------------------------------
\* The jobs the handlers go on with.
Posted(c)   == [Page!IdleJob EXCEPT !.pc = "render", !.comment = {c}]
Edited(p, c, t) == [Page!IdleJob EXCEPT !.pc = p, !.comment = {c}, !.text = t]
Asked(K, N, O) == [Page!IdleJob EXCEPT !.pc = "keywords", !.keep = K, !.new = N, !.old = O]
Flagging(u, t) == [Page!IdleJob EXCEPT !.pc = "flag", !.user = u, !.text = t]
Mailing(u)  == [Page!IdleJob EXCEPT !.pc = "mail", !.user = u]

LEMMA PostedOK ==
  ASSUME NEW c \in Comment
  PROVE  PageJobOK(Posted(c)) /\ Posted(c).pc = "render" /\ Posted(c).comment = {c}
  BY DEF PageJobOK, PageJob, Page!IdleJob, Commenting, Posted

LEMMA EditedOK ==
  ASSUME NEW c \in Comment, NEW t \in Text, NEW p \in {"render", "edit"}
  PROVE  /\ PageJobOK(Edited(p, c, t)) /\ Edited(p, c, t).pc = p
         /\ Edited(p, c, t).comment = {c}
  BY DEF PageJobOK, PageJob, Page!IdleJob, Commenting, Edited

KeywordSet == SUBSET Keyword

LEMMA AskedOK ==
  ASSUME "keywords" \in Op, NEW K \in KeywordSet, NEW N \in KeywordSet, NEW O \in KeywordSet
  PROVE  /\ PageJobOK(Asked(K, N, O)) /\ Asked(K, N, O).pc = "keywords"
         /\ Asked(K, N, O).comment = {} /\ Asked(K, N, O).keep = K
         /\ Asked(K, N, O).new = N /\ Asked(K, N, O).old = O
  BY DEF PageJobOK, PageJob, Page!IdleJob, Commenting, Asked, KeywordSet

LEMMA FlaggingOK ==
  ASSUME "flag" \in Op, NEW u \in User, NEW t \in Text
  PROVE  /\ PageJobOK(Flagging(u, t)) /\ Flagging(u, t).pc = "flag"
         /\ Flagging(u, t).comment = {}
  BY DEF PageJobOK, PageJob, Page!IdleJob, Commenting, Flagging

LEMMA MailingOK ==
  ASSUME NEW u \in User
  PROVE  /\ PageJobOK(Mailing(u)) /\ Mailing(u).pc = "mail" /\ Mailing(u).comment = {}
         /\ Mailing(u).user = u
  BY DEF PageJobOK, PageJob, Page!IdleJob, Commenting, Mailing

\* A handler that renders goes on with the text it read, one that flagged with
\* its mail.
ToRender(j) == [j EXCEPT !.pc = "render"]
ToSave(j, t) == [j EXCEPT !.pc = "save", !.text = t]
ToMail(j)   == [j EXCEPT !.pc = "mail"]

LEMMA GoesOnOK ==
  ASSUME NEW j, PageJobOK(j), NEW t \in Text \cup {NoText}
  PROVE  /\ j.pc = "edit" => /\ PageJobOK(ToRender(j)) /\ ToRender(j).pc = "render"
                             /\ ToRender(j).comment = j.comment
         /\ j.pc = "render" => /\ PageJobOK(ToSave(j, t)) /\ ToSave(j, t).pc = "save"
                               /\ ToSave(j, t).comment = j.comment
                               /\ ToSave(j, t).text = t
         /\ j.pc = "flag" => /\ PageJobOK(ToMail(j)) /\ ToMail(j).pc = "mail"
                             /\ ToMail(j).comment = j.comment /\ ToMail(j).user = j.user
  BY DEF PageJobOK, PageJob, Commenting, ToRender, ToSave, ToMail

\* The comment of a handler.
LEMMA MineIsOne ==
  ASSUME PageJobsOK, NEW w \in Worker, task[w].pc \in Commenting
  PROVE  Page!Mine(w) \in Comment /\ task[w].comment = {Page!Mine(w)}
  BY DEF PageJobsOK, PageJobOK, Page!Mine

-----------------------------------------------------------------------------
\* The steps, by what they are about: each leaves the rest alone, and a
\* worker goes on with something of its kind.
GoesOn(w, pcs) ==
    /\ PageJobsOK' /\ task'[w].pc \in pcs
    /\ \A v \in Worker : v # w => task'[v] = task[v]

LEMMA GoesOnWith ==
  ASSUME PageJobsOK, NEW w \in Worker, NEW j, PageJobOK(j), Page!Become(w, j), NEW S, j.pc \in S
  PROVE  GoesOn(w, S) /\ task'[w] = j
  BY BecomesOK DEF GoesOn

LEMMA GoesIdle ==
  ASSUME PageJobsOK, NEW w \in Worker, Page!End(w), NEW S, "idle" \in S
  PROVE  GoesOn(w, S) /\ task'[w] = Page!IdleJob
  BY EndsOK, IdleIsAPageJob DEF GoesOn

CommentStep(w) == Page!Post(w) \/ Page!EditCheck(w) \/ Page!Edit(w) \/ Page!Render(w)
  \/ Page!SaveRendered(w)
KeywordStep(w) == Page!KeywordsRead(w) \/ Page!Keywords(w) \/ Page!SshKeywords(w)
FlagStep(w) == Page!FlagCheck(w) \/ Page!Flag(w) \/ Page!Mail(w) \/ Page!SshFlag(w)
  \/ Page!Unflag(w) \/ Page!SshUnflag(w)
TouchesUp(c, u) == Page!Delete(c, u) \/ Page!Undelete(c, u) \/ Page!Pin(c, u, TRUE)
  \/ Page!Pin(c, u, FALSE)


Rest == <<keywords, forms, flag, flags, mailed>>

LEMMA PostSteps ==
  ASSUME IPageType, NEW w \in Worker, Page!Post(w)
  PROVE  \E c \in Comment, u \in User, t \in Text :
           /\ comment' = [comment EXCEPT ![c] = [Page!NoComment EXCEPT !.user = u, !.Comments = t]]
           /\ task[w].pc = "idle" /\ GoesOn(w, {"render"}) /\ task'[w].comment = {c}
           /\ UNCHANGED Rest
<1>1. PICK c \in Comment, u \in User, t \in Text :
        /\ Page!Ready(w, "comment")
        /\ comment' = [comment EXCEPT ![c] = [Page!NoComment EXCEPT !.user = u, !.Comments = t]]
        /\ Page!Become(w, Posted(c)) /\ Page!OtherThanComments
  BY DEF Page!Post, Posted
<1>2. GoesOn(w, {"render"}) /\ task'[w] = Posted(c)
  BY <1>1, PostedOK, GoesOnWith DEF IPageType
<1> QED
  BY <1>1, <1>2, PostedOK DEF Page!Ready, Page!At, Page!OtherThanComments, Rest

LEMMA EditCheckSteps ==
  ASSUME IPageType, NEW w \in Worker, Page!EditCheck(w)
  PROVE  /\ task[w].pc = "idle" /\ GoesOn(w, {"render", "edit"})
         /\ UNCHANGED <<comment, Rest>>
<1>1. PICK c \in Comment, t \in Text :
        /\ Page!Ready(w, "comment") /\ UNCHANGED comment /\ Page!OtherThanComments
        /\ Page!Become(w, Edited(IF comment[c].Comments = t THEN "render" ELSE "edit", c, t))
  BY DEF Page!EditCheck, Edited
<1> DEFINE p == IF comment[c].Comments = t THEN "render" ELSE "edit"
<1>2. p \in {"render", "edit"}
  OBVIOUS
<1> HIDE DEF p
<1>3. PageJobOK(Edited(p, c, t)) /\ Edited(p, c, t).pc = p
  BY <1>2, EditedOK
<1>4. GoesOn(w, {"render", "edit"})
  BY <1>1, <1>2, <1>3, GoesOnWith DEF IPageType, p
<1> QED
  BY <1>1, <1>4 DEF Page!Ready, Page!At, Page!OtherThanComments, Rest

LEMMA EditSteps ==
  ASSUME IPageType, NEW w \in Worker, Page!Edit(w)
  PROVE  /\ task[w].pc = "edit" /\ GoesOn(w, {"render"})
         /\ Page!Mine(w) \in Comment /\ task[w].comment = {Page!Mine(w)}
         /\ task'[w].comment = {Page!Mine(w)}
         /\ task[w].text \in Text \cup {NoText}
         /\ comment' = [comment EXCEPT ![Page!Mine(w)].Comments = task[w].text]
         /\ UNCHANGED Rest
<1>1. /\ task[w].pc = "edit" /\ Page!Become(w, ToRender(task[w])) /\ PageJobOK(task[w])
      /\ task[w].text \in Text \cup {NoText}
  BY DEF Page!Edit, Page!At, ToRender, IPageType, PageJobsOK, PageJobOK, PageJob
<1>2. /\ PageJobOK(ToRender(task[w])) /\ ToRender(task[w]).pc = "render"
      /\ ToRender(task[w]).comment = task[w].comment
  BY <1>1, GoesOnOK
<1>3. GoesOn(w, {"render"}) /\ task'[w] = ToRender(task[w])
  BY <1>1, <1>2, GoesOnWith DEF IPageType
<1>4. Page!Mine(w) \in Comment /\ task[w].comment = {Page!Mine(w)}
  BY <1>1, MineIsOne DEF IPageType, Commenting
<1> QED
  BY <1>1, <1>2, <1>3, <1>4 DEF Page!Edit, Page!OtherThanComments, Rest

LEMMA RenderSteps ==
  ASSUME IPageType, NEW w \in Worker, Page!Render(w)
  PROVE  /\ task[w].pc = "render" /\ GoesOn(w, {"save"})
         /\ Page!Mine(w) \in Comment /\ task[w].comment = {Page!Mine(w)}
         /\ task'[w].comment = {Page!Mine(w)}
         /\ task'[w].text = comment[Page!Mine(w)].Comments
         /\ UNCHANGED <<comment, Rest>>
<1> DEFINE t == comment[Page!Mine(w)].Comments
<1>1. task[w].pc = "render" /\ Page!Become(w, ToSave(task[w], t)) /\ PageJobOK(task[w])
  BY DEF Page!Render, Page!At, ToSave, IPageType, PageJobsOK
<1>2. Page!Mine(w) \in Comment /\ task[w].comment = {Page!Mine(w)}
  BY <1>1, MineIsOne DEF IPageType, Commenting
<1>3. t \in Text \cup {NoText}
  BY <1>2 DEF IPageType, CommentRow
<1> HIDE DEF t
<1>4. /\ PageJobOK(ToSave(task[w], t)) /\ ToSave(task[w], t).pc = "save"
      /\ ToSave(task[w], t).comment = task[w].comment /\ ToSave(task[w], t).text = t
  BY <1>1, <1>3, GoesOnOK
<1>5. GoesOn(w, {"save"}) /\ task'[w] = ToSave(task[w], t)
  BY <1>1, <1>4, GoesOnWith DEF IPageType
<1> QED
  BY <1>1, <1>2, <1>4, <1>5 DEF Page!Render, Page!OtherThanComments, Rest, t

LEMMA SaveSteps ==
  ASSUME IPageType, NEW w \in Worker, Page!SaveRendered(w)
  PROVE  /\ task[w].pc = "save" /\ GoesOn(w, {"idle"}) /\ task'[w] = Page!IdleJob
         /\ Page!Mine(w) \in Comment /\ task[w].comment = {Page!Mine(w)}
         /\ task[w].text \in Text \cup {NoText}
         /\ comment' = [comment EXCEPT ![Page!Mine(w)].RenderedComment = task[w].text]
         /\ UNCHANGED Rest
<1>1. /\ task[w].pc = "save" /\ Page!End(w) /\ PageJobOK(task[w])
      /\ task[w].text \in Text \cup {NoText}
  BY DEF Page!SaveRendered, Page!At, IPageType, PageJobsOK, PageJobOK, PageJob
<1>2. GoesOn(w, {"idle"}) /\ task'[w] = Page!IdleJob
  BY <1>1, GoesIdle DEF IPageType
<1>3. Page!Mine(w) \in Comment /\ task[w].comment = {Page!Mine(w)}
  BY <1>1, MineIsOne DEF IPageType, Commenting
<1> QED
  BY <1>1, <1>2, <1>3 DEF Page!SaveRendered, Page!OtherThanComments, Rest

\* Whoever deletes, undeletes or pins leaves the texts alone.
LEMMA TouchSteps ==
  ASSUME Page!RoleAssumption, IPageType, NEW c \in Comment, NEW u \in User, TouchesUp(c, u)
  PROVE  /\ comment' \in [Comment -> CommentRow]
         /\ \A d \in Comment : /\ comment'[d].Comments = comment[d].Comments
                               /\ comment'[d].RenderedComment = comment[d].RenderedComment
         /\ UNCHANGED <<task, Rest>>
<1>1. UNCHANGED <<task, Rest>>
  BY DEF TouchesUp, Page!Delete, Page!Undelete, Page!Pin, Rest
<1>2. comment[c] \in CommentRow /\ comment \in [Comment -> CommentRow]
  BY DEF IPageType
<1>3. \/ \E x \in User \cup {NoUser} : comment' = [comment EXCEPT ![c].Deleter = x]
      \/ \E p \in BOOLEAN : comment' = [comment EXCEPT ![c].pinned = p]
  BY DEF TouchesUp, Page!Delete, Page!Undelete, Page!Pin
<1> QED
  BY <1>1, <1>2, <1>3 DEF CommentRow

OtherThanKeys == <<comment, flag, flags, mailed>>

LEMMA KeywordsReadSteps ==
  ASSUME IPageType, NEW w \in Worker, Page!KeywordsRead(w)
  PROVE  \E K \in SUBSET Keyword :
           /\ task[w].pc = "idle" /\ "keywords" \in Op /\ GoesOn(w, {"keywords"})
           /\ task'[w].keep = K /\ task'[w].new = K \ keywords /\ task'[w].old = keywords \ K
           /\ forms' = forms \cup {K} /\ UNCHANGED <<keywords, OtherThanKeys>>
<1>1. PICK K \in SUBSET Keyword :
        /\ Page!Ready(w, "keywords") /\ forms' = forms \cup {K}
        /\ Page!Become(w, Asked(K, K \ keywords, keywords \ K))
        /\ UNCHANGED keywords /\ Page!OtherThanKeywords
  BY DEF Page!KeywordsRead, Asked
<1> DEFINE N == K \ keywords
           O == keywords \ K
<1>2. K \in KeywordSet /\ N \in KeywordSet /\ O \in KeywordSet /\ "keywords" \in Op
  BY <1>1 DEF IPageType, KeywordsTyped, Page!Ready, KeywordSet
<1> HIDE DEF N, O
<1>3. /\ PageJobOK(Asked(K, N, O)) /\ Asked(K, N, O).pc = "keywords"
      /\ Asked(K, N, O).keep = K /\ Asked(K, N, O).new = N /\ Asked(K, N, O).old = O
  BY <1>2, AskedOK
<1>4. GoesOn(w, {"keywords"}) /\ task'[w] = Asked(K, N, O)
  BY <1>1, <1>3, GoesOnWith DEF IPageType, N, O
<1> QED
  BY <1>1, <1>2, <1>3, <1>4 DEF Page!Ready, Page!At, Page!OtherThanKeywords, OtherThanKeys, N, O

LEMMA KeywordsSteps ==
  ASSUME IPageType, NEW w \in Worker, Page!Keywords(w)
  PROVE  /\ task[w].pc = "keywords" /\ "keywords" \in Op /\ GoesOn(w, {"idle"})
         /\ keywords' \subseteq Keyword
         /\ keywords' \in {keywords, (keywords \ task[w].old) \cup task[w].new}
         /\ UNCHANGED <<forms, OtherThanKeys>>
<1>1. task[w].pc = "keywords" /\ Page!End(w) /\ PageJobOK(task[w]) /\ task[w].new \in SUBSET Keyword
  BY DEF Page!Keywords, Page!At, IPageType, PageJobsOK, PageJobOK, PageJob
<1>2. GoesOn(w, {"idle"}) /\ "keywords" \in Op
  BY <1>1, GoesIdle DEF IPageType, PageJobOK
<1> QED
  BY <1>1, <1>2 DEF Page!Keywords, Page!OtherThanKeywords, OtherThanKeys, IPageType, KeywordsTyped

LEMMA SshKeywordsSteps ==
  ASSUME NEW w \in Worker, Page!SshKeywords(w)
  PROVE  /\ task[w].pc = "idle"
         /\ keywords' \in SUBSET Keyword /\ forms' = forms \cup {keywords'}
         /\ UNCHANGED <<task, OtherThanKeys>>
  BY DEF Page!SshKeywords, Page!Ready, Page!At, Page!OtherThanKeywords, OtherThanKeys

OtherThanFlag == <<comment, keywords, forms>>

LEMMA FlagCheckSteps ==
  ASSUME IPageType, NEW w \in Worker, Page!FlagCheck(w)
  PROVE  /\ task[w].pc = "idle" /\ ~flag.set /\ GoesOn(w, {"flag"})
         /\ UNCHANGED <<flag, flags, mailed, OtherThanFlag>>
<1>1. PICK u \in User, t \in Text :
        /\ Page!Ready(w, "flag") /\ ~flag.set /\ Page!Become(w, Flagging(u, t))
        /\ UNCHANGED <<flag, flags, mailed>> /\ Page!OtherThanFlags
  BY DEF Page!FlagCheck, Flagging
<1>2. PageJobOK(Flagging(u, t)) /\ Flagging(u, t).pc = "flag"
  BY <1>1, FlaggingOK DEF Page!Ready
<1>3. GoesOn(w, {"flag"})
  BY <1>1, <1>2, GoesOnWith DEF IPageType
<1> QED
  BY <1>1, <1>3 DEF Page!Ready, Page!At, Page!OtherThanFlags, OtherThanFlag

LEMMA FlagSteps ==
  ASSUME IPageType, NEW w \in Worker, Page!Flag(w)
  PROVE  /\ task[w].pc = "flag" /\ "flag" \in Op /\ GoesOn(w, {"mail"})
         /\ task[w].user \in User /\ task[w].text \in Text /\ task'[w].user = task[w].user
         /\ flag' = [set |-> TRUE, Flagger |-> task[w].user, FlaggerComment |-> task[w].text]
         /\ flags' = flags \cup {<<task[w].user, task[w].text>>}
         /\ UNCHANGED <<mailed, OtherThanFlag>>
<1>1. /\ task[w].pc = "flag" /\ Page!Become(w, ToMail(task[w])) /\ PageJobOK(task[w])
  BY DEF Page!Flag, Page!At, ToMail, IPageType, PageJobsOK
<1>2. /\ task[w].user \in User /\ task[w].text \in Text /\ "flag" \in Op
      /\ NoText \in Text \cup {NoText}
  BY <1>1 DEF PageJobOK
<1>3. PageJobOK(ToMail(task[w])) /\ ToMail(task[w]).pc = "mail"
        /\ ToMail(task[w]).user = task[w].user
  BY <1>1, <1>2, GoesOnOK
<1>4. GoesOn(w, {"mail"}) /\ task'[w] = ToMail(task[w])
  BY <1>1, <1>3, GoesOnWith DEF IPageType
<1> QED
  BY <1>1, <1>2, <1>3, <1>4 DEF Page!Flag, Page!OtherThanFlags, OtherThanFlag

LEMMA MailSteps ==
  ASSUME IPageType, NEW w \in Worker, Page!Mail(w)
  PROVE  /\ task[w].pc = "mail" /\ task[w].user \in User /\ GoesOn(w, {"idle"})
         /\ mailed' = mailed \cup {<<task[w].user, flag.FlaggerComment>>}
         /\ UNCHANGED <<flag, flags, OtherThanFlag>>
<1>1. task[w].pc = "mail" /\ Page!End(w) /\ PageJobOK(task[w])
  BY DEF Page!Mail, Page!At, IPageType, PageJobsOK
<1>2. GoesOn(w, {"idle"}) /\ task[w].user \in User
  BY <1>1, GoesIdle DEF IPageType, PageJobOK
<1> QED
  BY <1>1, <1>2 DEF Page!Mail, Page!OtherThanFlags, OtherThanFlag

LEMMA SshFlagSteps ==
  ASSUME IPageType, NEW w \in Worker, Page!SshFlag(w)
  PROVE  /\ task[w].pc = "idle" /\ "sshFlag" \in Op /\ GoesOn(w, {"mail"})
         /\ UNCHANGED <<mailed, OtherThanFlag>>
         /\ \/ UNCHANGED <<flag, flags>>
            \/ /\ ~flag.set
               /\ \E u \in User, t \in Text :
                    /\ flag' = [set |-> TRUE, Flagger |-> u, FlaggerComment |-> t]
                    /\ flags' = flags \cup {<<u, t>>}
<1>1. PICK u \in User, t \in Text :
        /\ Page!Ready(w, "sshFlag") /\ Page!Become(w, Mailing(u))
        /\ UNCHANGED mailed /\ Page!OtherThanFlags
        /\ IF flag.set
           THEN UNCHANGED <<flag, flags>>
           ELSE /\ flag' = [set |-> TRUE, Flagger |-> u, FlaggerComment |-> t]
                /\ flags' = flags \cup {<<u, t>>}
  BY DEF Page!SshFlag, Mailing
<1>2. PageJobOK(Mailing(u)) /\ Mailing(u).pc = "mail"
  BY MailingOK
<1>3. GoesOn(w, {"mail"})
  BY <1>1, <1>2, GoesOnWith DEF IPageType
<1> QED
  BY <1>1, <1>3 DEF Page!Ready, Page!At, Page!OtherThanFlags, OtherThanFlag

LEMMA UnflagSteps ==
  ASSUME NEW w \in Worker, Page!Unflag(w) \/ Page!SshUnflag(w)
  PROVE  /\ task[w].pc = "idle"
         /\ flag' \in {Page!NoFlag, [flag EXCEPT !.set = FALSE]}
         /\ UNCHANGED <<task, flags, mailed, OtherThanFlag>>
  BY DEF Page!Unflag, Page!SshUnflag, Page!Ready, Page!At, OtherThanFlag

-----------------------------------------------------------------------------
\* Types
LEMMA CommentTypes ==
  ASSUME IPageType, NEW w \in Worker, CommentStep(w)
  PROVE  comment' \in [Comment -> CommentRow] /\ PageJobsOK' /\ UNCHANGED Rest
<1> comment \in [Comment -> CommentRow]
  BY DEF IPageType
<1>1. CASE Page!Post(w)
  <2>1. PICK c \in Comment, u \in User, t \in Text :
          /\ comment' = [comment EXCEPT ![c] = [Page!NoComment EXCEPT !.user = u, !.Comments = t]]
          /\ GoesOn(w, {"render"}) /\ UNCHANGED Rest
    BY <1>1, PostSteps
  <2>2. [Page!NoComment EXCEPT !.user = u, !.Comments = t] \in CommentRow
    BY DEF Page!NoComment, CommentRow
  <2> QED
    BY <2>1, <2>2 DEF GoesOn
<1>2. CASE Page!EditCheck(w)
  BY <1>2, EditCheckSteps DEF GoesOn, Rest
<1>3. CASE Page!Edit(w)
  <2>1. /\ Page!Mine(w) \in Comment /\ task[w].text \in Text \cup {NoText} /\ GoesOn(w, {"render"})
        /\ comment' = [comment EXCEPT ![Page!Mine(w)].Comments = task[w].text] /\ UNCHANGED Rest
    BY <1>3, EditSteps
  <2>2. [comment[Page!Mine(w)] EXCEPT !.Comments = task[w].text] \in CommentRow
    BY <2>1 DEF CommentRow
  <2> QED
    BY <2>1, <2>2 DEF GoesOn
<1>4. CASE Page!Render(w)
  BY <1>4, RenderSteps DEF GoesOn, Rest
<1>5. CASE Page!SaveRendered(w)
  <2>1. /\ Page!Mine(w) \in Comment /\ task[w].text \in Text \cup {NoText} /\ GoesOn(w, {"idle"})
        /\ comment' = [comment EXCEPT ![Page!Mine(w)].RenderedComment = task[w].text]
        /\ UNCHANGED Rest
    BY <1>5, SaveSteps
  <2>2. [comment[Page!Mine(w)] EXCEPT !.RenderedComment = task[w].text] \in CommentRow
    BY <2>1 DEF CommentRow
  <2> QED
    BY <2>1, <2>2 DEF GoesOn
<1> QED
  BY <1>1, <1>2, <1>3, <1>4, <1>5 DEF CommentStep

LEMMA KeywordTypes ==
  ASSUME IPageType, NEW w \in Worker, KeywordStep(w)
  PROVE  KeywordsTyped' /\ PageJobsOK' /\ UNCHANGED OtherThanKeys
<1> KeywordsTyped /\ PageJobsOK
  BY DEF IPageType
<1>1. CASE Page!KeywordsRead(w)
  BY <1>1, KeywordsReadSteps DEF GoesOn, KeywordsTyped
<1>2. CASE Page!Keywords(w)
  BY <1>2, KeywordsSteps DEF GoesOn, KeywordsTyped
<1>3. CASE Page!SshKeywords(w)
  BY <1>3, SshKeywordsSteps DEF KeywordsTyped, PageJobsOK
<1> QED
  BY <1>1, <1>2, <1>3 DEF KeywordStep

LEMMA FlagTypes ==
  ASSUME Page!NoneAssumption, IPageType, NEW w \in Worker, FlagStep(w)
  PROVE  FlagTyped' /\ PageJobsOK' /\ UNCHANGED OtherThanFlag
<1> FlagTyped /\ PageJobsOK
  BY DEF IPageType
<1>1. ASSUME NEW u \in User, NEW t \in Text,
             flag' = [set |-> TRUE, Flagger |-> u, FlaggerComment |-> t],
             flags' = flags \cup {<<u, t>>}, UNCHANGED mailed
      PROVE  FlagTyped'
  BY <1>1 DEF FlagTyped, FlagRow, Page!NoneAssumption
<1>2. CASE Page!FlagCheck(w)
  BY <1>2, FlagCheckSteps DEF GoesOn, FlagTyped
<1>3. CASE Page!Flag(w)
  <2>1. /\ task[w].user \in User /\ task[w].text \in Text /\ GoesOn(w, {"mail"})
        /\ flag' = [set |-> TRUE, Flagger |-> task[w].user, FlaggerComment |-> task[w].text]
        /\ flags' = flags \cup {<<task[w].user, task[w].text>>}
        /\ UNCHANGED <<mailed, OtherThanFlag>>
    BY <1>3, FlagSteps
  <2> QED
    BY <1>1, <2>1 DEF GoesOn
<1>4. CASE Page!Mail(w)
  <2>1. /\ task[w].user \in User /\ GoesOn(w, {"idle"})
        /\ mailed' = mailed \cup {<<task[w].user, flag.FlaggerComment>>}
        /\ UNCHANGED <<flag, flags, OtherThanFlag>>
    BY <1>4, MailSteps
  <2>2. flag.FlaggerComment \in Text \cup {NoText}
    BY DEF FlagTyped, FlagRow
  <2> QED
    BY <2>1, <2>2 DEF GoesOn, FlagTyped
<1>5. CASE Page!SshFlag(w)
  <2>1. GoesOn(w, {"mail"}) /\ UNCHANGED <<mailed, OtherThanFlag>>
    BY <1>5, SshFlagSteps
  <2>2. CASE UNCHANGED <<flag, flags>>
    BY <2>1, <2>2 DEF GoesOn, FlagTyped
  <2>3. CASE \E u \in User, t \in Text :
               /\ flag' = [set |-> TRUE, Flagger |-> u, FlaggerComment |-> t]
               /\ flags' = flags \cup {<<u, t>>}
    BY <1>1, <2>1, <2>3 DEF GoesOn
  <2> QED
    BY <1>5, <2>2, <2>3, SshFlagSteps
<1>6. CASE Page!Unflag(w) \/ Page!SshUnflag(w)
  <2>1. /\ flag' \in {Page!NoFlag, [flag EXCEPT !.set = FALSE]}
        /\ UNCHANGED <<task, flags, mailed, OtherThanFlag>>
    BY <1>6, UnflagSteps
  <2>2. /\ Page!NoFlag \in FlagRow /\ ~Page!NoFlag.set
        /\ [flag EXCEPT !.set = FALSE] \in FlagRow /\ ~[flag EXCEPT !.set = FALSE].set
    BY DEF FlagTyped, FlagRow, Page!NoFlag
  <2>3. flag' \in FlagRow /\ ~flag'.set
    BY <2>1, <2>2
  <2> QED
    BY <2>1, <2>3 DEF FlagTyped, PageJobsOK
<1> QED
  BY <1>2, <1>3, <1>4, <1>5, <1>6 DEF FlagStep

PageConstants == Page!RoleAssumption /\ Page!NoneAssumption

\* Every step is of one of the kinds.
LEMMA PageSteps ==
  ASSUME [Page!Next]_(Page!vars)
  PROVE  \/ UNCHANGED Page!vars
         \/ \E w \in Worker : CommentStep(w) \/ KeywordStep(w) \/ FlagStep(w)
         \/ \E c \in Comment, u \in User : TouchesUp(c, u)
  BY DEF Page!Next, CommentStep, KeywordStep, FlagStep, TouchesUp

LEMMA IPageTypeStep == PageConstants /\ IPageType /\ [Page!Next]_(Page!vars) => IPageType'
<1> SUFFICES ASSUME PageConstants, IPageType, [Page!Next]_(Page!vars) PROVE IPageType'
  OBVIOUS
<1>1. CASE UNCHANGED Page!vars
  BY <1>1 DEF Page!vars, IPageType, KeywordsTyped, FlagTyped, PageJobsOK
<1>2. ASSUME NEW w \in Worker, CommentStep(w) PROVE IPageType'
  BY <1>2, CommentTypes DEF IPageType, KeywordsTyped, FlagTyped, Rest
<1>3. ASSUME NEW w \in Worker, KeywordStep(w) PROVE IPageType'
  BY <1>3, KeywordTypes DEF IPageType, FlagTyped, OtherThanKeys
<1>4. ASSUME NEW w \in Worker, FlagStep(w) PROVE IPageType'
  BY <1>4, FlagTypes DEF IPageType, KeywordsTyped, OtherThanFlag, PageConstants
<1>5. ASSUME NEW c \in Comment, NEW u \in User, TouchesUp(c, u) PROVE IPageType'
  BY <1>5, TouchSteps DEF IPageType, KeywordsTyped, FlagTyped, PageJobsOK, Rest, PageConstants
<1> QED
  BY <1>1, <1>2, <1>3, <1>4, <1>5, PageSteps

LEMMA IPageTypeStarts == Page!Init => IPageType
<1> SUFFICES ASSUME Page!Init PROVE IPageType
  OBVIOUS
<1>1. comment \in [Comment -> CommentRow]
  BY DEF Page!Init, Page!NoComment, CommentRow
<1>2. KeywordsTyped /\ FlagTyped
  BY DEF Page!Init, KeywordsTyped, FlagTyped, FlagRow, Page!NoFlag
<1>3. PageJobsOK
  BY IdleIsAPageJob DEF Page!Init, PageJobsOK, PageJobOK
<1> QED
  BY <1>1, <1>2, <1>3 DEF IPageType

\* The types of the page of a base, for any number of workers: a base that is
\* flagged has a flagger and a comment, and no mail is from nobody.
THEOREM PageTypes == PageConstants => (Page!Spec => []Page!TypeOK)
<1> SUFFICES ASSUME PageConstants PROVE Page!Spec => []Page!TypeOK
  OBVIOUS
<1>1. Page!Init => IPageType
  BY IPageTypeStarts
<1>2. IPageType /\ [Page!Next]_(Page!vars) => IPageType'
  BY IPageTypeStep
<1>3. IPageType => Page!TypeOK
  BY PageTypeGiven
<1> QED
  BY <1>1, <1>2, <1>3, PTL DEF Page!Spec

-----------------------------------------------------------------------------
\* A step of one kind leaves the workers alone that do something else.
Within(S) == \A v \in Worker : task'[v] = task[v] \/ (task[v].pc \in S /\ task'[v].pc \in S)

Talks == Commenting \cup {"idle"}
Sets  == {"keywords", "idle"}
Warns == {"flag", "mail", "idle"}

LEMMA WithinOne ==
  ASSUME NEW w \in Worker, NEW S, NEW T, GoesOn(w, T), T \subseteq S, task[w].pc \in S
  PROVE  Within(S)
  BY DEF GoesOn, Within

LEMMA CommentKind == ASSUME IPageType, NEW w \in Worker, CommentStep(w) PROVE Within(Talks)
<1>1. Page!Post(w) => Within(Talks)
  BY PostSteps, WithinOne DEF Talks, Commenting
<1>2. Page!EditCheck(w) => Within(Talks)
  BY EditCheckSteps, WithinOne DEF Talks, Commenting
<1>3. Page!Edit(w) => Within(Talks)
  BY EditSteps, WithinOne DEF Talks, Commenting
<1>4. Page!Render(w) => Within(Talks)
  BY RenderSteps, WithinOne DEF Talks, Commenting
<1>5. Page!SaveRendered(w) => Within(Talks)
  BY SaveSteps, WithinOne DEF Talks, Commenting
<1> QED
  BY <1>1, <1>2, <1>3, <1>4, <1>5 DEF CommentStep

LEMMA KeywordKind == ASSUME IPageType, NEW w \in Worker, KeywordStep(w) PROVE Within(Sets)
<1>1. Page!KeywordsRead(w) => Within(Sets)
  BY KeywordsReadSteps, WithinOne DEF Sets
<1>2. Page!Keywords(w) => Within(Sets)
  BY KeywordsSteps, WithinOne DEF Sets
<1>3. Page!SshKeywords(w) => Within(Sets)
  BY SshKeywordsSteps DEF Within
<1> QED
  BY <1>1, <1>2, <1>3 DEF KeywordStep

LEMMA FlagKind == ASSUME IPageType, NEW w \in Worker, FlagStep(w) PROVE Within(Warns)
<1>1. Page!FlagCheck(w) => Within(Warns)
  BY FlagCheckSteps, WithinOne DEF Warns
<1>2. Page!Flag(w) => Within(Warns)
  BY FlagSteps, WithinOne DEF Warns
<1>3. Page!Mail(w) => Within(Warns)
  BY MailSteps, WithinOne DEF Warns
<1>4. Page!SshFlag(w) => Within(Warns)
  BY SshFlagSteps, WithinOne DEF Warns
<1>5. Page!Unflag(w) \/ Page!SshUnflag(w) => Within(Warns)
  BY UnflagSteps DEF Within
<1> QED
  BY <1>1, <1>2, <1>3, <1>4, <1>5 DEF FlagStep

-----------------------------------------------------------------------------
OneWorker == \A v, w \in Worker : v = w

\* One worker, or none for the operation that looks first and writes later.
Undisturbed(op) == OneWorker \/ op \notin Op

\* The keywords: a form that is about to be written comes out as it was
\* submitted.
KeysOK(j, K, F) == j.pc = "keywords" => (K \ j.old) \cup j.new = j.keep /\ j.keep \in F

IKeys == Page!KeywordsOfOneForm /\ \A w \in Worker : KeysOK(task[w], keywords, forms)

LEMMA KeysStep ==
  ASSUME PageConstants, Undisturbed("keywords"), IPageType, IKeys, [Page!Next]_(Page!vars)
  PROVE  IKeys'
<1> keywords \in forms /\ \A w \in Worker : KeysOK(task[w], keywords, forms)
  BY DEF IKeys, Page!KeywordsOfOneForm
<1>1. ASSUME UNCHANGED <<keywords, forms>>,
             \A v \in Worker : task'[v] = task[v] \/ task'[v].pc # "keywords"
      PROVE  IKeys'
  BY <1>1 DEF IKeys, Page!KeywordsOfOneForm, KeysOK
<1>2. CASE UNCHANGED Page!vars
  BY <1>1, <1>2 DEF Page!vars
<1>3. ASSUME NEW w \in Worker, CommentStep(w) PROVE IKeys'
  BY <1>1, <1>3, CommentKind, CommentTypes DEF Within, Talks, Commenting, Rest
<1>4. ASSUME NEW w \in Worker, FlagStep(w) PROVE IKeys'
  BY <1>1, <1>4, FlagKind, FlagTypes DEF Within, Warns, OtherThanFlag, PageConstants
<1>5. ASSUME NEW c \in Comment, NEW u \in User, TouchesUp(c, u) PROVE IKeys'
  BY <1>1, <1>5, TouchSteps DEF Rest, PageConstants
<1>6. ASSUME NEW w \in Worker, Page!KeywordsRead(w) PROVE IKeys'
  <2>1. PICK K \in SUBSET Keyword :
          /\ "keywords" \in Op /\ GoesOn(w, {"keywords"})
          /\ task'[w].keep = K /\ task'[w].new = K \ keywords /\ task'[w].old = keywords \ K
          /\ forms' = forms \cup {K} /\ UNCHANGED keywords
    BY <1>6, KeywordsReadSteps
  <2>2. KeysOK(task'[w], keywords', forms')
    BY <2>1 DEF KeysOK
  <2>3. \A v \in Worker : v = w
    BY <2>1 DEF Undisturbed, OneWorker
  <2> QED
    BY <2>1, <2>2, <2>3 DEF IKeys, Page!KeywordsOfOneForm
<1>7. ASSUME NEW w \in Worker, Page!Keywords(w) PROVE IKeys'
  <2>1. /\ task[w].pc = "keywords" /\ "keywords" \in Op /\ GoesOn(w, {"idle"})
        /\ keywords' \in {keywords, (keywords \ task[w].old) \cup task[w].new}
        /\ UNCHANGED forms
    BY <1>7, KeywordsSteps
  <2>2. keywords' \in forms
    BY <2>1 DEF KeysOK
  <2>3. \A v \in Worker : v = w
    BY <2>1 DEF Undisturbed, OneWorker
  <2> QED
    BY <2>1, <2>2, <2>3 DEF IKeys, Page!KeywordsOfOneForm, KeysOK, GoesOn
<1>8. ASSUME NEW w \in Worker, Page!SshKeywords(w) PROVE IKeys'
  <2>1. task[w].pc = "idle" /\ forms' = forms \cup {keywords'} /\ UNCHANGED task
    BY <1>8, SshKeywordsSteps
  <2>2. ASSUME NEW v \in Worker PROVE task[v].pc # "keywords"
    <3>1. PageJobOK(task[v])
      BY DEF IPageType, PageJobsOK
    <3> QED
      BY <2>1, <3>1 DEF Undisturbed, OneWorker, PageJobOK
  <2> QED
    BY <2>1, <2>2 DEF IKeys, Page!KeywordsOfOneForm, KeysOK
<1> QED
  BY <1>2, <1>3, <1>4, <1>5, <1>6, <1>7, <1>8, PageSteps DEF KeywordStep

LEMMA KeysStart == Page!Init => IKeys
<1> SUFFICES ASSUME Page!Init PROVE IKeys
  OBVIOUS
<1>1. \A w \in Worker : task[w].pc = "idle"
  BY IdleIsAPageJob DEF Page!Init
<1> QED
  BY <1>1 DEF Page!Init, IKeys, Page!KeywordsOfOneForm, KeysOK

\* The keywords of a base are those of one form or of one SSH command, and not
\* a mixture (pkgbase_keywords, pkgbase_set_keywords): with one worker, and
\* with any number of them when keywords are only set over SSH.
THEOREM KeywordsAreOfOneForm ==
  PageConstants /\ Undisturbed("keywords") => (Page!Spec => []Page!KeywordsOfOneForm)
<1> SUFFICES ASSUME PageConstants, Undisturbed("keywords")
             PROVE  Page!Spec => []Page!KeywordsOfOneForm
  OBVIOUS
<1>1. Page!Init => IPageType /\ IKeys
  BY IPageTypeStarts, KeysStart
<1>2. IPageType /\ IKeys /\ [Page!Next]_(Page!vars) => (IPageType /\ IKeys)'
  BY IPageTypeStep, KeysStep
<1>3. IPageType /\ IKeys => Page!KeywordsOfOneForm
  BY DEF IKeys
<1> QED
  BY <1>1, <1>2, <1>3, PTL DEF Page!Spec

-----------------------------------------------------------------------------
\* The flag: a handler that is about to set it found it unset, and still does.
IFlag == \A w \in Worker : task[w].pc = "flag" => ~flag.set

\* Who has a job about flags on the web is alone.
LEMMA FlagsAlone ==
  ASSUME Undisturbed("flag"), IPageType, NEW v \in Worker, task[v].pc = "flag", NEW w \in Worker
  PROVE  v = w
<1>1. PageJobOK(task[v])
  BY DEF IPageType, PageJobsOK
<1> QED
  BY <1>1 DEF PageJobOK, Undisturbed, OneWorker

LEMMA IFlagStep ==
  ASSUME PageConstants, Undisturbed("flag"), IPageType, IFlag, [Page!Next]_(Page!vars)
  PROVE  IFlag'
<1>1. IPageType'
  BY IPageTypeStep
<1>2. ASSUME UNCHANGED flag, \A v \in Worker : task'[v] = task[v] \/ task'[v].pc # "flag"
      PROVE  IFlag'
  BY <1>2 DEF IFlag
<1>3. CASE UNCHANGED Page!vars
  BY <1>2, <1>3 DEF Page!vars
<1>4. ASSUME NEW w \in Worker, CommentStep(w) PROVE IFlag'
  BY <1>2, <1>4, CommentKind, CommentTypes DEF Within, Talks, Commenting, Rest
<1>5. ASSUME NEW w \in Worker, KeywordStep(w) PROVE IFlag'
  BY <1>2, <1>5, KeywordKind, KeywordTypes DEF Within, Sets, OtherThanKeys
<1>6. ASSUME NEW c \in Comment, NEW u \in User, TouchesUp(c, u) PROVE IFlag'
  BY <1>2, <1>6, TouchSteps DEF Rest, PageConstants
<1>7. ASSUME NEW w \in Worker, FlagStep(w) PROVE IFlag'
  <2>1. ASSUME Page!FlagCheck(w) PROVE IFlag'
    BY <2>1, FlagCheckSteps DEF IFlag, GoesOn
  <2>2. ASSUME Page!Flag(w) PROVE IFlag'
    <3>1. task[w].pc = "flag" /\ GoesOn(w, {"mail"})
      BY <2>2, FlagSteps
    <3>2. \A v \in Worker : v = w
      BY <3>1, FlagsAlone
    <3> QED
      BY <3>1, <3>2 DEF IFlag, GoesOn
  <2>3. ASSUME Page!Mail(w) PROVE IFlag'
    BY <1>2, <2>3, MailSteps DEF GoesOn
  <2>4. ASSUME Page!SshFlag(w) PROVE IFlag'
    <3>1. task[w].pc = "idle" /\ GoesOn(w, {"mail"})
      BY <2>4, SshFlagSteps
    <3>2. \A v \in Worker : task[v].pc # "flag"
      BY <3>1, FlagsAlone
    <3> QED
      BY <3>1, <3>2 DEF IFlag, GoesOn
  <2>5. ASSUME Page!Unflag(w) \/ Page!SshUnflag(w) PROVE IFlag'
    <3>1. flag' \in {Page!NoFlag, [flag EXCEPT !.set = FALSE]} /\ UNCHANGED task /\ flag \in FlagRow
      BY <2>5, UnflagSteps DEF IPageType, FlagTyped
    <3>2. ~Page!NoFlag.set /\ ~[flag EXCEPT !.set = FALSE].set
      BY <3>1 DEF FlagRow, Page!NoFlag
    <3>3. ~flag'.set
      BY <3>1, <3>2
    <3> QED
      BY <3>1, <3>3 DEF IFlag
  <2> QED
    BY <1>7, <2>1, <2>2, <2>3, <2>4, <2>5 DEF FlagStep
<1> QED
  BY <1>3, <1>4, <1>5, <1>6, <1>7, PageSteps

LEMMA FlagIsKept ==
  ASSUME PageConstants, IPageType, IFlag, [Page!Next]_(Page!vars)
  PROVE  [Page!StepKeepsFlag]_(Page!vars)
<1>1. ASSUME UNCHANGED flag PROVE Page!StepKeepsFlag
  BY <1>1 DEF Page!StepKeepsFlag
<1>2. ASSUME NEW w \in Worker, CommentStep(w) PROVE Page!StepKeepsFlag
  BY <1>1, <1>2, CommentTypes DEF Rest
<1>3. ASSUME NEW w \in Worker, KeywordStep(w) PROVE Page!StepKeepsFlag
  BY <1>1, <1>3, KeywordTypes DEF OtherThanKeys
<1>4. ASSUME NEW c \in Comment, NEW u \in User, TouchesUp(c, u) PROVE Page!StepKeepsFlag
  BY <1>1, <1>4, TouchSteps DEF Rest, PageConstants
<1>5. ASSUME NEW w \in Worker, Page!FlagCheck(w) \/ Page!Mail(w) PROVE Page!StepKeepsFlag
  BY <1>1, <1>5, FlagCheckSteps, MailSteps
<1>6. ASSUME NEW w \in Worker, Page!Flag(w) PROVE Page!StepKeepsFlag
  BY <1>6, FlagSteps DEF IFlag, Page!StepKeepsFlag
<1>7. ASSUME NEW w \in Worker, Page!SshFlag(w) PROVE Page!StepKeepsFlag
  BY <1>7, SshFlagSteps DEF Page!StepKeepsFlag
<1>8. ASSUME NEW w \in Worker, Page!Unflag(w) \/ Page!SshUnflag(w) PROVE Page!StepKeepsFlag
  <2>1. flag' \in {Page!NoFlag, [flag EXCEPT !.set = FALSE]} /\ flag \in FlagRow
    BY <1>8, UnflagSteps DEF IPageType, FlagTyped
  <2>2. ~Page!NoFlag.set /\ ~[flag EXCEPT !.set = FALSE].set
    BY <2>1 DEF FlagRow, Page!NoFlag
  <2> QED
    BY <2>1, <2>2 DEF Page!StepKeepsFlag
<1> QED
  BY <1>2, <1>3, <1>4, <1>5, <1>6, <1>7, <1>8, PageSteps DEF FlagStep

LEMMA IFlagStarts == Page!Init => IFlag
  BY IdleIsAPageJob DEF Page!Init, IFlag

\* Nobody replaces the flag of a base that is flagged (pkgbase_flag_post,
\* pkgbase_flag): with one worker, and with any number of them when bases are
\* only flagged over SSH.
THEOREM FlagStaysAsSet ==
  PageConstants /\ Undisturbed("flag") => (Page!Spec => [][Page!StepKeepsFlag]_(Page!vars))
<1> SUFFICES ASSUME PageConstants, Undisturbed("flag")
             PROVE  Page!Spec => [][Page!StepKeepsFlag]_(Page!vars)
  OBVIOUS
<1>1. Page!Init => IPageType /\ IFlag
  BY IPageTypeStarts, IFlagStarts
<1>2. IPageType /\ IFlag /\ [Page!Next]_(Page!vars) => (IPageType /\ IFlag)'
  BY IPageTypeStep, IFlagStep
<1>3. IPageType /\ IFlag /\ [Page!Next]_(Page!vars) => [Page!StepKeepsFlag]_(Page!vars)
  BY FlagIsKept
<1> QED
  BY <1>1, <1>2, <1>3, PTL DEF Page!Spec

-----------------------------------------------------------------------------
\* The mails: one that is due names a flag that was set, as it was set.
MailOf(j, f, F) == j.pc = "mail" => <<j.user, f.FlaggerComment>> \in F

IMails == Page!MailTellsTheFlag /\ \A w \in Worker : MailOf(task[w], flag, flags)

LEMMA MailsStep ==
  ASSUME PageConstants, OneWorker, "sshFlag" \notin Op, IPageType, IMails, [Page!Next]_(Page!vars)
  PROVE  IMails'
<1> mailed \subseteq flags /\ \A w \in Worker : MailOf(task[w], flag, flags)
  BY DEF IMails, Page!MailTellsTheFlag
<1>1. ASSUME UNCHANGED <<flag, flags, mailed>>,
             \A v \in Worker : task'[v] = task[v] \/ task'[v].pc # "mail"
      PROVE  IMails'
  BY <1>1 DEF IMails, Page!MailTellsTheFlag, MailOf
<1>2. CASE UNCHANGED Page!vars
  BY <1>1, <1>2 DEF Page!vars
<1>3. ASSUME NEW w \in Worker, CommentStep(w) PROVE IMails'
  BY <1>1, <1>3, CommentKind, CommentTypes DEF Within, Talks, Commenting, Rest
<1>4. ASSUME NEW w \in Worker, KeywordStep(w) PROVE IMails'
  BY <1>1, <1>4, KeywordKind, KeywordTypes DEF Within, Sets, OtherThanKeys
<1>5. ASSUME NEW c \in Comment, NEW u \in User, TouchesUp(c, u) PROVE IMails'
  BY <1>1, <1>5, TouchSteps DEF Rest, PageConstants
<1>6. ASSUME NEW w \in Worker, FlagStep(w) PROVE IMails'
  <2>1. ASSUME Page!FlagCheck(w) PROVE IMails'
    BY <1>1, <2>1, FlagCheckSteps DEF GoesOn
  <2>2. ASSUME Page!Flag(w) PROVE IMails'
    <3>1. /\ GoesOn(w, {"mail"}) /\ task'[w].user = task[w].user
          /\ flag' = [set |-> TRUE, Flagger |-> task[w].user, FlaggerComment |-> task[w].text]
          /\ flags' = flags \cup {<<task[w].user, task[w].text>>} /\ UNCHANGED mailed
      BY <2>2, FlagSteps
    <3>2. flag'.FlaggerComment = task[w].text
      BY <3>1
    <3>3. MailOf(task'[w], flag', flags')
      BY <3>1, <3>2 DEF MailOf
    <3> QED
      BY <3>1, <3>3 DEF IMails, Page!MailTellsTheFlag, OneWorker
  <2>3. ASSUME Page!Mail(w) PROVE IMails'
    <3>1. /\ task[w].pc = "mail" /\ GoesOn(w, {"idle"})
          /\ mailed' = mailed \cup {<<task[w].user, flag.FlaggerComment>>}
          /\ UNCHANGED <<flag, flags>>
      BY <2>3, MailSteps
    <3>2. <<task[w].user, flag.FlaggerComment>> \in flags
      BY <3>1 DEF MailOf
    <3>3. mailed' \subseteq flags'
      BY <3>1, <3>2
    <3>4. MailOf(task'[w], flag', flags')
      BY <3>1 DEF MailOf, GoesOn
    <3> QED
      BY <3>3, <3>4 DEF IMails, Page!MailTellsTheFlag, OneWorker
  <2>4. ~Page!SshFlag(w) /\ ~Page!SshUnflag(w)
    BY DEF Page!SshFlag, Page!SshUnflag, Page!Ready
  <2>5. ASSUME Page!Unflag(w) PROVE IMails'
    <3>1. task[w].pc = "idle" /\ UNCHANGED <<task, flags, mailed>>
      BY <2>5, UnflagSteps
    <3>2. MailOf(task'[w], flag', flags')
      BY <3>1 DEF MailOf
    <3> QED
      BY <3>1, <3>2 DEF IMails, Page!MailTellsTheFlag, OneWorker
  <2> QED
    BY <1>6, <2>1, <2>2, <2>3, <2>4, <2>5 DEF FlagStep
<1> QED
  BY <1>2, <1>3, <1>4, <1>5, <1>6, PageSteps

LEMMA MailsStart == Page!Init => IMails
  BY IdleIsAPageJob DEF Page!Init, IMails, Page!MailTellsTheFlag, MailOf

\* A mail about a flag names a user who flagged the base with the comment of
\* that flag (FlagNotification): with one worker, who flags on the web.
THEOREM MailsTellTheFlag ==
  PageConstants /\ OneWorker /\ "sshFlag" \notin Op => (Page!Spec => []Page!MailTellsTheFlag)
<1> SUFFICES ASSUME PageConstants, OneWorker, "sshFlag" \notin Op
             PROVE  Page!Spec => []Page!MailTellsTheFlag
  OBVIOUS
<1>1. Page!Init => IPageType /\ IMails
  BY IPageTypeStarts, MailsStart
<1>2. IPageType /\ IMails /\ [Page!Next]_(Page!vars) => (IPageType /\ IMails)'
  BY IPageTypeStep, MailsStep
<1>3. IPageType /\ IMails => Page!MailTellsTheFlag
  BY DEF IMails
<1> QED
  BY <1>1, <1>2, <1>3, PTL DEF Page!Spec

-----------------------------------------------------------------------------
\* The comments: the HTML that is about to be saved is that of the text.
TextOK(j, com) == j.pc = "save" => \A c \in j.comment : j.text = com[c].Comments

IText == Page!RenderedIsTheText /\ \A w \in Worker : TextOK(task[w], comment)

LEMMA TextStep ==
  ASSUME PageConstants, OneWorker, IPageType, IText, [Page!Next]_(Page!vars)
  PROVE  IText'
<1>1. /\ \A c \in Comment, w \in Worker :
           c \in task[w].comment \/ comment[c].RenderedComment = comment[c].Comments
      /\ \A w \in Worker : TextOK(task[w], comment) /\ PageJobOK(task[w])
  BY DEF IText, Page!RenderedIsTheText, OneWorker, IPageType, PageJobsOK
<1>2. ASSUME \A c \in Comment : /\ comment'[c].Comments = comment[c].Comments
                                /\ comment'[c].RenderedComment = comment[c].RenderedComment,
             \A v \in Worker : /\ task'[v].comment = task[v].comment
                               /\ task'[v].pc = "save" => task'[v] = task[v],
             IPageType'
      PROVE  IText'
  <2>1. \A w \in Worker : task[w].comment \subseteq Comment
    BY DEF IPageType, PageJobsOK, PageJob
  <2>2. Page!RenderedIsTheText'
    BY <1>2 DEF IText, Page!RenderedIsTheText
  <2>3. ASSUME NEW w \in Worker PROVE TextOK(task'[w], comment')
    BY <1>1, <1>2, <2>1 DEF TextOK
  <2> QED
    BY <2>2, <2>3 DEF IText
<1>3. IPageType'
  BY IPageTypeStep
<1>4. ASSUME NEW S, Within(S), S \cap Commenting = {}, NEW v \in Worker
      PROVE  task'[v].comment = task[v].comment /\ (task'[v].pc = "save" => task'[v] = task[v])
  <2>1. PageJobOK(task[v]) /\ PageJobOK(task'[v])
    BY <1>3 DEF IPageType, PageJobsOK
  <2> QED
    BY <1>4, <2>1 DEF Within, PageJobOK, Commenting
<1>5. CASE UNCHANGED Page!vars
  BY <1>2, <1>3, <1>5 DEF Page!vars
<1>6. ASSUME NEW w \in Worker, KeywordStep(w) PROVE IText'
  <2>1. Within(Sets) /\ Sets \cap Commenting = {} /\ UNCHANGED comment
    BY <1>6, KeywordKind, KeywordTypes DEF Sets, Commenting, OtherThanKeys
  <2> QED
    BY <1>2, <1>3, <1>4, <2>1
<1>7. ASSUME NEW w \in Worker, FlagStep(w) PROVE IText'
  <2>1. Within(Warns) /\ Warns \cap Commenting = {} /\ UNCHANGED comment
    BY <1>7, FlagKind, FlagTypes DEF Warns, Commenting, OtherThanFlag, PageConstants
  <2> QED
    BY <1>2, <1>3, <1>4, <2>1
<1>8. ASSUME NEW c \in Comment, NEW u \in User, TouchesUp(c, u) PROVE IText'
  BY <1>2, <1>3, <1>8, TouchSteps DEF Rest, PageConstants
<1>9. ASSUME NEW w \in Worker, NEW m \in Comment, task'[w].comment = {m},
             task[w].comment \subseteq {m}, TextOK(task'[w], comment'),
             \A c \in Comment : c # m => comment'[c] = comment[c]
      PROVE  IText'
  <2>1. \A v \in Worker : v = w
    BY DEF OneWorker
  <2>2. ASSUME NEW c \in Comment, c # m
        PROVE  comment'[c].RenderedComment = comment'[c].Comments
    BY <1>1, <1>9, <2>2
  <2> QED
    BY <1>9, <2>1, <2>2 DEF IText, Page!RenderedIsTheText
<1>10. ASSUME NEW w \in Worker, CommentStep(w) PROVE IText'
  <2> comment \in [Comment -> CommentRow]
    BY DEF IPageType
  <2>1. ASSUME Page!Post(w) PROVE IText'
    <3>1. PICK c \in Comment, u \in User, t \in Text :
            /\ comment' = [comment EXCEPT ![c] = [Page!NoComment EXCEPT !.user = u, !.Comments = t]]
            /\ task[w].pc = "idle" /\ GoesOn(w, {"render"}) /\ task'[w].comment = {c}
            /\ UNCHANGED Rest
      BY <2>1, PostSteps
    <3>2. task[w].comment = {} /\ TextOK(task'[w], comment')
      BY <1>1, <3>1 DEF PageJobOK, Commenting, TextOK, GoesOn
    <3> QED
      BY <1>9, <3>1, <3>2
  <2>2. ASSUME Page!EditCheck(w) PROVE IText'
    <3>1. task[w].pc = "idle" /\ GoesOn(w, {"render", "edit"}) /\ UNCHANGED comment
      BY <2>2, EditCheckSteps
    <3>2. task[w].comment = {} /\ TextOK(task'[w], comment')
      BY <1>1, <3>1 DEF PageJobOK, Commenting, TextOK, GoesOn
    <3>3. PICK m \in Comment : task'[w].comment = {m}
      BY <1>3, <3>1 DEF IPageType, PageJobsOK, PageJobOK, GoesOn, Commenting
    <3> QED
      BY <1>9, <3>1, <3>2, <3>3
  <2>3. ASSUME Page!Edit(w) PROVE IText'
    <3>1. /\ GoesOn(w, {"render"})
          /\ Page!Mine(w) \in Comment /\ task[w].comment = {Page!Mine(w)}
          /\ task'[w].comment = {Page!Mine(w)}
          /\ comment' = [comment EXCEPT ![Page!Mine(w)].Comments = task[w].text]
      BY <2>3, EditSteps
    <3>2. TextOK(task'[w], comment')
      BY <3>1 DEF TextOK, GoesOn
    <3> QED
      BY <1>9, <3>1, <3>2
  <2>4. ASSUME Page!Render(w) PROVE IText'
    <3>1. /\ Page!Mine(w) \in Comment /\ task[w].comment = {Page!Mine(w)}
          /\ task'[w].comment = {Page!Mine(w)}
          /\ task'[w].text = comment[Page!Mine(w)].Comments /\ UNCHANGED comment
      BY <2>4, RenderSteps
    <3>2. TextOK(task'[w], comment')
      BY <3>1 DEF TextOK
    <3> QED
      BY <1>9, <3>1, <3>2
  <2>5. ASSUME Page!SaveRendered(w) PROVE IText'
    <3>1. /\ task[w].pc = "save" /\ task'[w] = Page!IdleJob
          /\ Page!Mine(w) \in Comment /\ task[w].comment = {Page!Mine(w)}
          /\ comment' = [comment EXCEPT ![Page!Mine(w)].RenderedComment = task[w].text]
      BY <2>5, SaveSteps
    <3>2. \A v \in Worker : v = w
      BY DEF OneWorker
    <3>3. task[w].text = comment[Page!Mine(w)].Comments
      BY <1>1, <3>1 DEF TextOK
    <3>4. ASSUME NEW c \in Comment PROVE comment'[c].RenderedComment = comment'[c].Comments
      <4>1. CASE c = Page!Mine(w)
        BY <3>1, <3>3, <4>1 DEF CommentRow
      <4>2. CASE c # Page!Mine(w)
        BY <1>1, <3>1, <4>2
      <4> QED
        BY <4>1, <4>2
    <3>5. TextOK(task'[w], comment')
      BY <3>1, IdleIsAPageJob DEF TextOK
    <3> QED
      BY <3>2, <3>4, <3>5 DEF IText, Page!RenderedIsTheText
  <2> QED
    BY <1>10, <2>1, <2>2, <2>3, <2>4, <2>5 DEF CommentStep
<1> QED
  BY <1>5, <1>6, <1>7, <1>8, <1>10, PageSteps

LEMMA TextStarts == Page!Init => IText
<1> SUFFICES ASSUME Page!Init PROVE IText
  OBVIOUS
<1>1. \A c \in Comment : comment[c].RenderedComment = comment[c].Comments
  BY DEF Page!Init, Page!NoComment
<1>2. \A w \in Worker : task[w].pc = "idle"
  BY IdleIsAPageJob DEF Page!Init
<1> QED
  BY <1>1, <1>2 DEF IText, Page!RenderedIsTheText, TextOK

\* With one worker, the HTML of a comment is that of its text unless a handler
\* is about to save it, whoever posts, edits, deletes, undeletes or pins
\* (update_comment_render).
THEOREM RenderedAsWritten == PageConstants /\ OneWorker => (Page!Spec => []Page!RenderedIsTheText)
<1> SUFFICES ASSUME PageConstants, OneWorker PROVE Page!Spec => []Page!RenderedIsTheText
  OBVIOUS
<1>1. Page!Init => IPageType /\ IText
  BY IPageTypeStarts, TextStarts
<1>2. IPageType /\ IText /\ [Page!Next]_(Page!vars) => (IPageType /\ IText)'
  BY IPageTypeStep, TextStep
<1>3. IPageType /\ IText => Page!RenderedIsTheText
  BY DEF IText
<1> QED
  BY <1>1, <1>2, <1>3, PTL DEF Page!Spec
=============================================================================

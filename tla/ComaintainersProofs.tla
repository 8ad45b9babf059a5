------------------------- MODULE ComaintainersProofs -------------------------
(***************************************************************************)
(* Theorems about Comaintainers, for any finite set of users and any number *)
(* of rows, and about instances of BulkActions and Notifications.          *)
(*                                                                         *)
(* Comaintainers: the types hold for any number of workers.  Everything    *)
(* else is for one, since PackageComaintainers has no unique index: what a *)
(* handler has read of the table is what its next transaction finds        *)
(* (Knows), and no user has two rows.                                      *)
(*                                                                         *)
(* BulkActions: for any number of forms a form is about the bases that it  *)
(* was given (FormOK), goes on after an error, and fails only for a reason. *)
(* While one form is at work and nobody else writes, what it saw is so     *)
(* when it writes (Fresh), and then it does what it answers.               *)
(*                                                                         *)
(* Notifications: those who are still to be told are those whom the mail   *)
(* that is being made will reach (Reach), whatever they change meanwhile,  *)
(* and the lists of a mail are apart (Lists).                              *)
(*                                                                         *)
(* As in MCForms the three have maintainer, due and told in common; no     *)
(* theorem is about two of them.  The forms of BulkActions are called form. *)
(***************************************************************************)
EXTENDS Comaintainers, Integers, FiniteSetTheorems, FunctionTheorems, WellFoundedInduction, TLAPS

CONSTANTS
    Base, Elevated, Actions, MaxForm, MaxOther,            \* BulkActions
    Wants, Transport, Interface, Event, Setting            \* Notifications

VARIABLES
    due, told,
    bases, flagger, watches, asks, form, deleted, forms, others,        \* BulkActions
    exists, comaintainers, watch, hide, suspended, requester, mail      \* Notifications

Bulk == INSTANCE BulkActions WITH Nobody <- NoUser, job <- form
Note == INSTANCE Notifications

Job == [pc : {"idle", "remove", "rotate", "names", "add", "insert", "mail",
              "disownMaint", "disownCo", "disownAll", "ssh"},
        rm : SUBSET User, add : SUBSET (User \cup {Ghost}), notifs : SUBSET User,
        user : User \cup {NoUser}, prio : 0..MaxRow + 1]

\* The table with m as the next row: no priority exceeds the rows that were
\* inserted.
Table(R, m) ==
    /\ \A r \in R : r \in Row /\ r.n < m /\ r.Priority \in 1..m - 1
    /\ \A r, s \in R : r.n = s.n => r = s

\* What bounds the priorities that a handler is about to write: there are no
\* more users on the list of a command than rows were inserted.
Numbered(j, m) ==
    /\ j.prio <= m
    /\ j.pc = "ssh" => Cardinality(j.notifs) < m
    /\ j.pc \in {"add", "insert", "ssh"} => Ghost \notin j.add
    /\ j.pc = "insert" => j.user \in User /\ j.prio # 0
    /\ j.pc = "disownCo" => j.user \in User

IType ==
    /\ maintainer \in User \cup {NoUser}
    /\ Table(rows, nextRow)
    /\ nextRow \in 1..MaxRow + 1
    /\ job \in [Worker -> Job]
    /\ \A w \in Worker : Numbered(job[w], nextRow)
    /\ untold \subseteq User

\* What a handler that is alone still knows of the table: U has a row, and p is
\* the largest priority.
Knows(j, U, p) ==
    /\ j.pc \in {"remove", "rotate", "names", "add", "insert", "ssh"} => j.add \cap U = {}
    /\ j.pc = "insert" => j.user \notin U \cup j.add /\ j.prio = p + 1
    /\ j.pc = "ssh" => j.notifs \subseteq U /\ j.rm = U \ j.notifs

IAlone ==
    /\ IType
    /\ OneRowPerUser
    /\ \A w \in Worker : Knows(job[w], Users, LatestPriority)

\* U are those who wait for a mail.
Telling(j, U) == U \subseteq j.notifs /\ (j.pc \notin {"rotate", "mail"} => U = {})

\* add_comaintainer has compared with the maintainer, and nobody adopts.
Apart(j, m) == j.pc # "ssh" /\ (j.pc = "insert" => j.user # m)

Priorities == {r.Priority : r \in rows}

\* P are the priorities of the users U.
Filled(j, P, U) ==
    /\ j.pc \notin {"disownMaint", "disownCo", "disownAll"}
    /\ j.pc # "rotate" => P = 1..Cardinality(U)

-----------------------------------------------------------------------------
(* Smallest and largest numbers.                                           *)

LEMMA Smallest ==
    ASSUME NEW S \in SUBSET Nat, S # {}
    PROVE  \E m \in S : \A n \in S : m <= n
<1> DEFINE R == OpToRel(<, Nat)
<1>1. IsWellFoundedOn(R, Nat)
  BY NatLessThanWellFounded
<1>2. \A x, y \in Nat : x < y => <<x, y>> \in R
  BY DEF OpToRel
<1> HIDE DEF R
<1>3. PICK m \in S : \A n \in S : ~ (<<n, m>> \in R)
  BY <1>1, WFMin
<1>4. m \in Nat /\ \A n \in S : n \in Nat /\ ~ (n < m)
  BY <1>2, <1>3, Zenon
<1> QED
  BY <1>4, SMT

LEMMA Largest ==
    ASSUME NEW N \in Nat, NEW S \in SUBSET (0..N), S # {}
    PROVE  \E m \in S : \A n \in S : n <= m
<1> DEFINE T == {N - n : n \in S}
<1>0. \A n \in S : N - n \in Nat
  OBVIOUS
<1>1. T \in SUBSET Nat /\ T # {}
  BY <1>0
<1>2. PICK t \in T : \A u \in T : t <= u
  BY <1>1, Smallest
<1>3. PICK m \in S : t = N - m
  OBVIOUS
<1>4. ASSUME NEW n \in S PROVE n <= m
  <2>1. N - m <= N - n
    BY <1>2, <1>3
  <2> QED
    BY <2>1
<1> QED
  BY <1>4

-----------------------------------------------------------------------------
(* The operators                                                            *)

\* latest_priority is the largest there is, or zero.
LEMMA LatestIsLargest ==
    ASSUME UserAssumption, IType
    PROVE  /\ LatestPriority \in 0..nextRow - 1
           /\ \A r \in rows : r.Priority <= LatestPriority
           /\ rows # {} => \E r \in rows : r.Priority = LatestPriority
<1>1. nextRow \in Nat /\ nextRow # 0
  BY DEF IType, UserAssumption
<1>2. \A r \in rows : r.Priority \in Nat /\ r.Priority < nextRow
  BY DEF IType, Table, Row
<1>3. CASE rows = {}
  BY <1>1, <1>3 DEF LatestPriority
<1>4. CASE rows # {}
  <2> DEFINE S == {r.Priority : r \in rows}
  <2>1. S \in SUBSET (0..nextRow) /\ S # {}
    BY <1>1, <1>2, <1>4
  <2>2. \E p \in S : \A n \in S : n <= p
    BY <1>1, <2>1, Largest
  <2>3. \E p \in S : \A r \in rows : r.Priority <= p
    BY <2>2
  <2>4. LatestPriority = CHOOSE p \in S : \A r \in rows : r.Priority <= p
    BY <1>4 DEF LatestPriority
  <2>5. LatestPriority \in S /\ \A r \in rows : r.Priority <= LatestPriority
    BY <2>3, <2>4
  <2> QED
    BY <1>1, <1>2, <2>5
<1> QED
  BY <1>3, <1>4

\* The priority of a user is that of one of the user's rows.
LEMMA PrioOfARow ==
    ASSUME IType, NEW u \in Users
    PROVE  \E r \in rows : r.user = u /\ Prio(u) = r.Priority
<1> DEFINE S == {r.Priority : r \in RowsOf({u})}
<1>1. S \in SUBSET Nat /\ S # {}
  BY DEF IType, Table, Row, Users, RowsOf
<1>2. \E p \in S : \A n \in S : p <= n
  BY <1>1, Smallest
<1>3. \E p \in S : \A r \in RowsOf({u}) : p <= r.Priority
  BY <1>2
<1>4. Prio(u) \in S
  BY <1>3 DEF Prio
<1> QED
  BY <1>4 DEF RowsOf

\* There are no more users in the table than rows were inserted.
LEMMA FewUsers ==
    ASSUME UserAssumption, IType
    PROVE  /\ Users \subseteq User /\ IsFiniteSet(Users)
           /\ Cardinality(Users) \in Nat /\ Cardinality(Users) < nextRow
<1>1. Users \subseteq User
  BY DEF IType, Table, Row, Users
<1>2. nextRow \in Nat /\ nextRow # 0
  BY DEF IType, UserAssumption
<1> DEFINE f == [u \in Users |-> (CHOOSE r \in rows : r.user = u).n]
<1>3. ASSUME NEW u \in Users
      PROVE  /\ (CHOOSE r \in rows : r.user = u) \in rows
             /\ (CHOOSE r \in rows : r.user = u).user = u
  BY DEF Users
<1>4. \A r \in rows : r.n \in 1..nextRow - 1
  BY <1>2 DEF IType, Table, Row
<1>5. f \in [Users -> 1..nextRow - 1]
  BY <1>3, <1>4
<1>6. ASSUME NEW u \in Users, NEW v \in Users, f[u] = f[v]
      PROVE  u = v
  <2>1. (CHOOSE r \in rows : r.user = u) = (CHOOSE r \in rows : r.user = v)
    BY <1>3, <1>6 DEF IType, Table
  <2> QED
    BY <1>3, <2>1
<1>7. f \in Injection(Users, 1..nextRow - 1)
  BY <1>5, <1>6, Fun_IsInj
<1>8. IsFiniteSet(1..nextRow - 1) /\ Cardinality(1..nextRow - 1) = nextRow - 1
  BY <1>2, FS_Interval
<1>9. IsFiniteSet(Users) /\ Cardinality(Users) <= nextRow - 1
  BY <1>7, <1>8, FS_Injection
<1>10. Cardinality(Users) \in Nat
  BY <1>9, FS_CardinalityType
<1> QED
  BY <1>1, <1>2, <1>9, <1>10

-----------------------------------------------------------------------------
(* Types                                                                    *)

\* Sets of users are finite.
LEMMA UsersAreFinite ==
    ASSUME UserAssumption, NEW U \in SUBSET User
    PROVE  IsFiniteSet(U) /\ Cardinality(U) \in Nat
BY FS_Subset, FS_CardinalityType DEF UserAssumption

LEMMA Numbers ==
    ASSUME UserAssumption, IType
    PROVE  nextRow \in Nat /\ nextRow >= 1 /\ nextRow <= MaxRow + 1 /\ MaxRow \in Nat
BY DEF UserAssumption, IType

LEMMA IdleIsAJob ==
    ASSUME UserAssumption, NEW m \in Nat
    PROVE  IdleJob \in Job /\ Numbered(IdleJob, m)
BY DEF UserAssumption, IdleJob, Job, Numbered

\* More rows do no harm to what a handler is about to write.
LEMMA NumberedStays ==
    ASSUME UserAssumption, NEW j \in Job, NEW m \in Nat, NEW k \in Nat, m <= k, Numbered(j, m)
    PROVE  Numbered(j, k)
<1>1. j.prio \in Nat /\ Cardinality(j.notifs) \in Nat
  BY UsersAreFinite DEF Job, UserAssumption
<1> QED
  BY <1>1 DEF Numbered

\* One worker goes on, the others stay.
LEMMA WorkerMoves ==
    ASSUME UserAssumption, IType, NEW w \in Worker, NEW j \in Job, Become(w, j),
           nextRow' \in Nat, nextRow <= nextRow', Numbered(j, nextRow')
    PROVE  /\ job' \in [Worker -> Job]
           /\ \A v \in Worker : Numbered(job'[v], nextRow')
           /\ job'[w] = j
           /\ \A v \in Worker : v # w => job'[v] = job[v]
<1>1. /\ job' \in [Worker -> Job]
      /\ job'[w] = j
      /\ \A v \in Worker : v # w => job'[v] = job[v]
  BY DEF IType, Become
<1>2. \A v \in Worker : Numbered(job'[v], nextRow')
  <2> SUFFICES ASSUME NEW v \in Worker, v # w PROVE Numbered(job[v], nextRow')
    BY <1>1
  <2>1. job[v] \in Job /\ Numbered(job[v], nextRow)
    BY DEF IType
  <2> QED
    BY <2>1, NumberedStays, Numbers
<1> QED
  BY <1>1, <1>2

\* Fewer rows, and rows with new numbers.
LEMMA FewerRows ==
    ASSUME IType, NEW R \in SUBSET rows
    PROVE  Table(R, nextRow)
BY DEF IType, Table

\* What a row becomes when the table is ranked.
LEMMA RankedRows ==
    ASSUME UserAssumption, IType, NEW f \in Rankings(Users), NEW R \in SUBSET rows, NEW s \in Ranked(f, R)
    PROVE  \E r \in R : /\ s.n = r.n /\ s.user = r.user /\ s \in Row
                        /\ s.Priority = f[r.user] \/ (s.Priority = r.Priority /\ f[r.user] = Prio(r.user))
                        /\ f[r.user] \in 1..Cardinality(Users)
<1>1. PICK r \in R : s = IF f[r.user] = Prio(r.user) THEN r ELSE [r EXCEPT !.Priority = f[r.user]]
  BY DEF Ranked
<1>2. r \in Row /\ r.user \in Users
  BY DEF IType, Table, Users
<1>3. f[r.user] \in 1..Cardinality(Users) /\ Cardinality(Users) \in Nat
  BY <1>2, FewUsers DEF Rankings
<1>4. CASE f[r.user] = Prio(r.user)
  BY <1>1, <1>2, <1>3, <1>4
<1>5. CASE f[r.user] # Prio(r.user)
  BY <1>1, <1>2, <1>3, <1>5 DEF Row
<1> QED
  BY <1>4, <1>5

LEMMA RankedTable ==
    ASSUME UserAssumption, IType, NEW f \in Rankings(Users), NEW R \in SUBSET rows
    PROVE  Table(Ranked(f, R), nextRow)
<1>1. \A r \in rows : r \in Row /\ r.n < nextRow /\ r.Priority \in 1..nextRow - 1
  BY DEF IType, Table
<1>2. Cardinality(Users) \in Nat /\ Cardinality(Users) < nextRow /\ nextRow \in Nat
  BY FewUsers, Numbers
<1>3. ASSUME NEW s \in Ranked(f, R)
      PROVE  s \in Row /\ s.n < nextRow /\ s.Priority \in 1..nextRow - 1
  <2>1. PICK r \in R : /\ s.n = r.n /\ s \in Row
                       /\ s.Priority = f[r.user] \/ s.Priority = r.Priority
                       /\ f[r.user] \in 1..Cardinality(Users)
    BY RankedRows
  <2> QED
    BY <1>1, <1>2, <2>1
<1>4. ASSUME NEW s \in Ranked(f, R), NEW t \in Ranked(f, R), s.n = t.n
      PROVE  s = t
  <2>1. PICK r \in R : s = IF f[r.user] = Prio(r.user) THEN r ELSE [r EXCEPT !.Priority = f[r.user]]
    BY DEF Ranked
  <2>2. PICK q \in R : t = IF f[q.user] = Prio(q.user) THEN q ELSE [q EXCEPT !.Priority = f[q.user]]
    BY DEF Ranked
  <2>3. s.n = r.n /\ t.n = q.n
    BY <1>1, <2>1, <2>2 DEF Row
  <2>4. r = q
    BY <1>4, <2>3 DEF IType, Table
  <2> QED
    BY <2>1, <2>2, <2>4
<1> QED
  BY <1>3, <1>4 DEF Table

\* A step that inserts no row and moves one worker on.
LEMMA MovedType ==
    ASSUME UserAssumption, IType, NEW w \in Worker, NEW j \in Job, Become(w, j),
           UNCHANGED nextRow, Numbered(j, nextRow),
           Table(rows', nextRow), maintainer' \in User \cup {NoUser}, untold' \subseteq User
    PROVE  IType'
<1>1. nextRow' \in Nat /\ nextRow <= nextRow' /\ Numbered(j, nextRow')
  BY Numbers
<1>2. job' \in [Worker -> Job] /\ \A v \in Worker : Numbered(job'[v], nextRow')
  BY <1>1, WorkerMoves
<1> QED
  BY <1>2 DEF IType

\* The form on the web, without its INSERT.
LEMMA FormType ==
    ASSUME UserAssumption, IType, NEW w \in Worker,
           Form(w) \/ Remove(w) \/ Rotate(w) \/ RotateDeadlock(w) \/ Names(w) \/ Add(w) \/ Mail(w)
    PROVE  IType'
<1>1. Users \subseteq User
  BY FewUsers
<1>2. /\ job[w] \in Job /\ Numbered(job[w], nextRow) /\ Table(rows, nextRow)
      /\ maintainer \in User \cup {NoUser} /\ untold \subseteq User
  BY DEF IType
<1>3. IdleJob \in Job /\ Numbered(IdleJob, nextRow)
  BY IdleIsAJob, Numbers
<1>4. ASSUME End(w), UNCHANGED nextRow, Table(rows', nextRow), maintainer' = maintainer, untold' \subseteq User
      PROVE  IType'
  BY <1>2, <1>3, <1>4, MovedType DEF End
<1>5. CASE Form(w)
  <2>1. PICK U \in SUBSET (User \cup {Ghost}) :
          Become(w, [IdleJob EXCEPT !.pc = "remove", !.rm = Users \ U, !.add = U \ Users])
    BY <1>5 DEF Form
  <2> DEFINE j == [IdleJob EXCEPT !.pc = "remove", !.rm = Users \ U, !.add = U \ Users]
  <2>2. j \in Job /\ j.pc = "remove" /\ j.prio = 0
    BY <1>1, <1>3 DEF Job, IdleJob
  <2>3. Numbered(j, nextRow)
    BY <2>2, Numbers DEF Numbered
  <2> QED
    BY <1>2, <1>5, <2>1, <2>2, <2>3, MovedType DEF Form
<1>6. CASE Remove(w)
  <2> DEFINE gone == job[w].rm \cap Users
             j == [job[w] EXCEPT !.pc = "rotate", !.notifs = gone]
  <2>1. j \in Job /\ j.pc = "rotate" /\ j.prio = job[w].prio
    BY <1>1, <1>2 DEF Job
  <2>2. Numbered(j, nextRow)
    BY <1>2, <2>1 DEF Numbered
  <2>3. Table(rows \ RowsOf(gone), nextRow) /\ untold \cup gone \subseteq User
    BY <1>1, <1>2, FewerRows
  <2> QED
    BY <1>2, <1>6, <2>1, <2>2, <2>3, MovedType DEF Remove
<1>7. CASE Rotate(w)
  <2>1. PICK f \in Rankings(Users) :
          \/ End(w) /\ UNCHANGED <<rows, untold>>
          \/ /\ rows' = Ranked(f, rows)
             /\ untold' = untold \ job[w].notifs
             /\ Become(w, [job[w] EXCEPT !.pc = "names", !.notifs = {}])
    BY <1>7 DEF Rotate
  <2>2. UNCHANGED <<maintainer, nextRow>>
    BY <1>7 DEF Rotate
  <2> DEFINE j == [job[w] EXCEPT !.pc = "names", !.notifs = {}]
  <2>3. j \in Job /\ j.pc = "names" /\ j.prio = job[w].prio
    BY <1>2 DEF Job
  <2>4. Numbered(j, nextRow)
    BY <1>2, <2>3 DEF Numbered
  <2>5. Table(Ranked(f, rows), nextRow)
    BY RankedTable
  <2> HIDE DEF j
  <2>6. CASE End(w) /\ UNCHANGED <<rows, untold>>
    BY <1>2, <1>4, <2>2, <2>6
  <2>7. CASE /\ rows' = Ranked(f, rows)
             /\ untold' = untold \ job[w].notifs
             /\ Become(w, j)
    BY <1>2, <2>2, <2>3, <2>4, <2>5, <2>7, MovedType
  <2> QED
    BY <2>1, <2>6, <2>7 DEF j
<1>8. CASE RotateDeadlock(w)
  <2> DEFINE j == [job[w] EXCEPT !.pc = "remove", !.notifs = {}]
  <2>1. j \in Job /\ j.pc = "remove" /\ j.prio = job[w].prio
    BY <1>2 DEF Job
  <2>2. Numbered(j, nextRow)
    BY <1>2, <2>1 DEF Numbered
  <2> QED
    BY <1>2, <1>8, <2>1, <2>2, MovedType DEF RotateDeadlock
<1>9. CASE Names(w)
  <2> DEFINE j == [job[w] EXCEPT !.pc = "add"]
  <2>1. CASE Ghost \in job[w].add \/ job[w].add = {}
    BY <1>2, <1>4, <1>9, <2>1 DEF Names
  <2>2. CASE ~ (Ghost \in job[w].add \/ job[w].add = {})
    <3>1. j \in Job /\ j.pc = "add" /\ j.prio = job[w].prio /\ j.add = job[w].add
      BY <1>2 DEF Job
    <3>2. Numbered(j, nextRow)
      BY <1>2, <2>2, <3>1 DEF Numbered
    <3> QED
      BY <1>2, <1>9, <2>2, <3>1, <3>2, MovedType DEF Names, Goto
  <2> QED
    BY <2>1, <2>2
<1>10. CASE Add(w)
  <2>1. PICK u \in job[w].add :
          IF u # maintainer
          THEN Become(w, [job[w] EXCEPT !.pc = "insert", !.user = u, !.add = @ \ {u},
                                        !.prio = LatestPriority + 1])
          ELSE Become(w, [job[w] EXCEPT !.pc = IF job[w].add = {u} THEN "mail" ELSE "add",
                                        !.add = @ \ {u}])
    BY <1>10 DEF Add
  <2>2. u \in User
    BY <1>2, <1>10 DEF Add, At, Numbered, Job
  <2>3. LatestPriority \in 0..nextRow - 1
    BY LatestIsLargest
  <2>4. CASE u # maintainer
    <3> DEFINE j == [job[w] EXCEPT !.pc = "insert", !.user = u, !.add = @ \ {u},
                                   !.prio = LatestPriority + 1]
    <3>1. j \in Job /\ j.pc = "insert" /\ j.prio = LatestPriority + 1 /\ j.user = u
          /\ j.add = job[w].add \ {u}
      <4>1. LatestPriority + 1 \in 0..MaxRow + 1
        BY <2>3, Numbers
      <4> HIDE DEF LatestPriority
      <4> QED
        BY <1>2, <2>2, <4>1 DEF Job
    <3>2. Ghost \notin job[w].add
      BY <1>2, <1>10 DEF Add, At, Numbered
    <3> HIDE DEF j
    <3>3. Numbered(j, nextRow)
      BY <2>2, <2>3, <3>1, <3>2, Numbers DEF Numbered
    <3>4. Become(w, j) /\ UNCHANGED <<maintainer, rows, nextRow, untold>>
      BY <1>10, <2>1, <2>4 DEF Add, j
    <3> QED
      BY <1>2, <3>1, <3>3, <3>4, MovedType
  <2>5. CASE u = maintainer
    <3> DEFINE j == [job[w] EXCEPT !.pc = IF job[w].add = {u} THEN "mail" ELSE "add",
                                   !.add = @ \ {u}]
    <3>1. j \in Job /\ j.pc \in {"mail", "add"} /\ j.prio = job[w].prio /\ j.add \subseteq job[w].add
      BY <1>2 DEF Job
    <3>2. Ghost \notin job[w].add
      BY <1>2, <1>10 DEF Add, At, Numbered
    <3> HIDE DEF j
    <3>3. Numbered(j, nextRow)
      BY <1>2, <3>1, <3>2 DEF Numbered
    <3>4. Become(w, j) /\ UNCHANGED <<maintainer, rows, nextRow, untold>>
      BY <1>10, <2>1, <2>5 DEF Add, j
    <3> QED
      BY <1>2, <3>1, <3>3, <3>4, MovedType
  <2> QED
    BY <2>4, <2>5
<1>11. CASE Mail(w)
  BY <1>2, <1>4, <1>11 DEF Mail
<1> QED
  BY <1>5, <1>6, <1>7, <1>8, <1>9, <1>10, <1>11

LEMMA InsertType ==
    ASSUME UserAssumption, IType, NEW w \in Worker, Insert(w)
    PROVE  IType'
<1> DEFINE r == [n |-> nextRow, user |-> job[w].user, Priority |-> job[w].prio]
           j == [job[w] EXCEPT !.pc = IF job[w].add = {} THEN "mail" ELSE "add",
                               !.user = NoUser, !.prio = 0]
<1>1. /\ job[w] \in Job /\ Numbered(job[w], nextRow) /\ Table(rows, nextRow)
      /\ maintainer \in User \cup {NoUser} /\ untold \subseteq User
  BY DEF IType
<1>2. /\ job[w].pc = "insert" /\ nextRow <= MaxRow /\ rows' = rows \cup {r}
      /\ nextRow' = nextRow + 1 /\ Become(w, j) /\ UNCHANGED <<maintainer, untold>>
  BY DEF Insert, At
<1>3. nextRow \in Nat /\ nextRow >= 1 /\ MaxRow \in Nat
  BY Numbers
<1>4. j \in Job /\ j.pc \in {"mail", "add"} /\ j.prio = 0 /\ j.add = job[w].add
  <2>1. 0 \in 0..MaxRow + 1 /\ NoUser \in User \cup {NoUser}
    BY <1>3
  <2>2. CASE job[w].add = {}
    BY <1>1, <2>1, <2>2 DEF Job
  <2>3. CASE job[w].add # {}
    BY <1>1, <2>1, <2>3 DEF Job
  <2> QED
    BY <2>2, <2>3
<1>5. Ghost \notin job[w].add /\ job[w].user \in User /\ job[w].prio # 0 /\ job[w].prio <= nextRow
      /\ job[w].prio \in Nat
  BY <1>1, <1>2, <1>3 DEF Numbered, Job
<1>6. r \in Row /\ r.n = nextRow /\ r.Priority \in 1..nextRow
  BY <1>2, <1>3, <1>5 DEF Row
<1> HIDE DEF r, j
<1>7. Numbered(j, nextRow + 1)
  BY <1>3, <1>4, <1>5 DEF Numbered
<1>8. Table(rows \cup {r}, nextRow + 1)
  <2>1. ASSUME NEW s \in rows \cup {r}
        PROVE  s \in Row /\ s.n < nextRow + 1 /\ s.Priority \in 1..(nextRow + 1) - 1
    BY <1>1, <1>3, <1>6 DEF Table, Row
  <2>2. ASSUME NEW s \in rows \cup {r}, NEW t \in rows \cup {r}, s.n = t.n
        PROVE  s = t
    BY <1>1, <1>3, <1>6, <2>2 DEF Table, Row
  <2> QED
    BY <2>1, <2>2 DEF Table
<1>9. /\ job' \in [Worker -> Job]
      /\ \A v \in Worker : Numbered(job'[v], nextRow')
  BY <1>2, <1>3, <1>4, <1>7, WorkerMoves
<1> QED
  BY <1>1, <1>2, <1>3, <1>8, <1>9 DEF IType

LEMMA SshType ==
    ASSUME UserAssumption, GhostAssumption, IType, NEW w \in Worker, Ssh(w)
    PROVE  IType'
<1>1. PICK U \in SUBSET User :
        Become(w, [IdleJob EXCEPT !.pc = "ssh", !.rm = Users \ U, !.add = U \ Users,
                                  !.notifs = U \cap Users])
  BY DEF Ssh
<1> DEFINE j == [IdleJob EXCEPT !.pc = "ssh", !.rm = Users \ U, !.add = U \ Users,
                                !.notifs = U \cap Users]
<1>2. /\ Users \subseteq User /\ IsFiniteSet(Users)
      /\ Cardinality(Users) \in Nat /\ Cardinality(Users) < nextRow
  BY FewUsers
<1>3. IdleJob \in Job /\ nextRow \in Nat
  BY IdleIsAJob, Numbers
<1>4. j \in Job /\ j.pc = "ssh" /\ j.prio = 0 /\ j.add \subseteq User /\ j.notifs = U \cap Users
  BY <1>2, <1>3 DEF Job, IdleJob
<1>5. Cardinality(U \cap Users) \in Nat /\ Cardinality(U \cap Users) < nextRow
  <2>1. Cardinality(U \cap Users) <= Cardinality(Users)
    BY <1>2, FS_Subset
  <2>2. Cardinality(U \cap Users) \in Nat
    BY UsersAreFinite
  <2> QED
    BY <1>2, <1>3, <2>1, <2>2
<1> HIDE DEF j
<1>6. Numbered(j, nextRow)
  BY <1>3, <1>4, <1>5 DEF Numbered, GhostAssumption
<1> QED
  BY <1>1, <1>4, <1>6, MovedType DEF Ssh, IType, j

\* The numbers of the users on the list of the command, and the rows of those
\* who are new in the table.
LEMMA SshNumbers ==
    ASSUME UserAssumption, IType, NEW w \in Worker, At(w, "ssh"), Room(job[w].add)
    PROVE  LET j == job[w] IN
           /\ j.add \in SUBSET User /\ j.notifs \in SUBSET User
           /\ Cardinality(j.add) \in Nat /\ Cardinality(j.add \cup j.notifs) \in Nat
           /\ nextRow + Cardinality(j.add) <= MaxRow + 1
           /\ Cardinality(j.add \cup j.notifs) < nextRow + Cardinality(j.add)
<1> DEFINE A == job[w].add
           B == job[w].notifs
<1>1. A \in SUBSET User /\ B \in SUBSET User /\ Cardinality(B) < nextRow
  BY DEF IType, Job, At, Numbered
<1>2. A \cap User = A
  BY <1>1
<1> HIDE DEF A, B
<1>3. /\ IsFiniteSet(A) /\ Cardinality(A) \in Nat /\ IsFiniteSet(B) /\ Cardinality(B) \in Nat
      /\ Cardinality(A \cup B) \in Nat /\ Cardinality(A \cap B) \in Nat
  BY <1>1, UsersAreFinite
<1>4. Cardinality(A \cup B) = Cardinality(A) + Cardinality(B) - Cardinality(A \cap B)
  BY <1>3, FS_Union
<1>5. nextRow + Cardinality(A) <= MaxRow + 1
  BY <1>2 DEF Room, A
<1>6. Cardinality(A \cup B) < nextRow + Cardinality(A)
  BY <1>1, <1>3, <1>4, Numbers
<1> QED
  BY <1>1, <1>3, <1>5, <1>6 DEF A, B

\* The rows that a command writes.
LEMMA ListedRows ==
    ASSUME NEW j, NEW f, NEW place
    PROVE  /\ \A s \in Listed(j, f, place) :
                \/ \E r \in rows : /\ r.user \notin j.rm
                                  /\ s = IF r.user \in j.notifs THEN [r EXCEPT !.Priority = f[r.user]] ELSE r
                \/ \E u \in j.add : s = [n |-> place[u], user |-> u, Priority |-> f[u]]
           /\ \A u \in j.add : [n |-> place[u], user |-> u, Priority |-> f[u]] \in Listed(j, f, place)
BY DEF Listed

LEMMA SshWritten ==
    ASSUME NEW w \in Worker, SshWrite(w)
    PROVE  LET j   == job[w]
               new == j.add \cup j.notifs IN
           \E f \in [new -> 1..Cardinality(new)] :
              /\ \A u, v \in new : f[u] = f[v] => u = v
              /\ \E place \in [j.add -> nextRow..nextRow + Cardinality(j.add) - 1] :
                   /\ \A u, v \in j.add : f[u] < f[v] => place[u] < place[v]
                   /\ rows' = Listed(j, f, place)
BY DEF SshWrite

LEMMA SshWriteType ==
    ASSUME UserAssumption, IType, NEW w \in Worker, SshWrite(w)
    PROVE  IType'
<1> DEFINE A == job[w].add
           B == job[w].notifs
           k == nextRow + Cardinality(A)
           old == {r \in rows : r.user \notin job[w].rm}
<1>1. At(w, "ssh") /\ Room(A) /\ nextRow' = k /\ End(w) /\ UNCHANGED <<maintainer, untold>>
  BY DEF SshWrite
<1>0. PICK f \in [A \cup B -> 1..Cardinality(A \cup B)] :
        /\ \A u, v \in A \cup B : f[u] = f[v] => u = v
        /\ \E place \in [A -> nextRow..nextRow + Cardinality(A) - 1] :
             /\ \A u, v \in A : f[u] < f[v] => place[u] < place[v]
             /\ rows' = Listed(job[w], f, place)
  BY SshWritten
<1>2. PICK place \in [A -> nextRow..nextRow + Cardinality(A) - 1] :
        /\ \A u, v \in A : f[u] < f[v] => place[u] < place[v]
        /\ rows' = Listed(job[w], f, place)
  BY <1>0
<1>3. /\ A \in SUBSET User /\ B \in SUBSET User
      /\ Cardinality(A) \in Nat /\ Cardinality(A \cup B) \in Nat
      /\ k <= MaxRow + 1 /\ Cardinality(A \cup B) < k
  BY <1>1, SshNumbers
<1>4. nextRow \in Nat /\ nextRow >= 1 /\ MaxRow \in Nat /\ k \in Nat /\ nextRow <= k
  BY <1>3, Numbers
<1>5. /\ \A r \in rows : r \in Row /\ r.n < nextRow /\ r.Priority \in 1..nextRow - 1
      /\ \A r, s \in rows : r.n = s.n => r = s
  BY DEF IType, Table
<1> DEFINE Changed(r) == IF r.user \in B THEN [r EXCEPT !.Priority = f[r.user]] ELSE r
           New(u) == [n |-> place[u], user |-> u, Priority |-> f[u]]
<1> HIDE DEF A, B, k
<1>6. ASSUME NEW r \in old
      PROVE  /\ Changed(r) \in Row /\ Changed(r).n = r.n /\ r.n < nextRow
             /\ Changed(r).Priority \in 1..k - 1
  <2>1. r \in Row /\ r.n < nextRow /\ r.Priority \in 1..nextRow - 1
    BY <1>5
  <2>2. CASE r.user \in B
    <3>1. f[r.user] \in 1..Cardinality(A \cup B)
      BY <1>0, <2>2
    <3>2. f[r.user] \in 1..k - 1 /\ f[r.user] \in Nat
      BY <1>3, <1>4, <3>1
    <3>3. Changed(r) = [r EXCEPT !.Priority = f[r.user]]
      BY <2>2
    <3> QED
      BY <2>1, <3>2, <3>3 DEF Row
  <2>3. CASE r.user \notin B
    BY <1>4, <2>1, <2>3
  <2> QED
    BY <2>2, <2>3
<1>7. ASSUME NEW u \in A
      PROVE  /\ New(u) \in Row /\ New(u).n = place[u] /\ place[u] >= nextRow /\ place[u] < k
             /\ place[u] \in Nat /\ New(u).Priority \in 1..k - 1
  <2>1. f[u] \in 1..Cardinality(A \cup B) /\ place[u] \in nextRow..k - 1 /\ u \in User
    <3>1. nextRow + Cardinality(A) - 1 = k - 1
      BY <1>3, <1>4 DEF k
    <3> QED
      BY <1>0, <1>2, <1>3, <3>1
  <2>2. f[u] \in 1..k - 1 /\ f[u] \in Nat /\ place[u] \in 1..MaxRow
    BY <1>3, <1>4, <2>1
  <2> QED
    BY <1>4, <2>1, <2>2 DEF Row
<1>8. ASSUME NEW s \in rows'
      PROVE  \/ \E r \in old : s = Changed(r)
             \/ \E u \in A : s = New(u)
  BY <1>2, ListedRows DEF A, B
<1> HIDE DEF Changed, New, old
<1>9. ASSUME NEW s \in rows'
      PROVE  s \in Row /\ s.n < k /\ s.Priority \in 1..k - 1
  <2>1. ASSUME NEW r \in old, s = Changed(r)
        PROVE  s \in Row /\ s.n < k /\ s.Priority \in 1..k - 1
    <3>1. r.n \in Nat
      BY <1>5 DEF old, Row
    <3> QED
      BY <1>4, <1>6, <2>1, <3>1
  <2>2. ASSUME NEW u \in A, s = New(u)
        PROVE  s \in Row /\ s.n < k /\ s.Priority \in 1..k - 1
    BY <1>7, <2>2
  <2> QED
    BY <1>8, <2>1, <2>2
<1>10. ASSUME NEW s \in rows', NEW t \in rows', s.n = t.n
       PROVE  s = t
  <2>1. ASSUME NEW r \in old, NEW u \in A PROVE Changed(r).n # New(u).n
    <3>1. r.n \in Nat
      BY <1>5 DEF old, Row
    <3> QED
      BY <1>4, <1>6, <1>7, <3>1
  <2>2. ASSUME NEW r \in old, NEW q \in old, Changed(r).n = Changed(q).n PROVE r = q
    BY <1>5, <1>6, <2>2 DEF old
  <2>3. ASSUME NEW u \in A, NEW v \in A, New(u).n = New(v).n PROVE u = v
    <3>1. place[u] = place[v] /\ place[u] \in Nat
      BY <1>7, <2>3
    <3>2. ~ (f[u] < f[v]) /\ ~ (f[v] < f[u])
      <4>1. ~ (place[u] < place[v]) /\ ~ (place[v] < place[u])
        BY <3>1
      <4> QED
        BY <1>2, <4>1
    <3>3. f[u] \in 1..Cardinality(A \cup B) /\ f[v] \in 1..Cardinality(A \cup B)
      BY <1>0
    <3>4. f[u] = f[v]
      BY <1>3, <3>2, <3>3
    <3> QED
      BY <1>0, <3>4
  <2> QED
    BY <1>8, <1>10, <2>1, <2>2, <2>3
<1>11. Table(rows', k)
  BY <1>9, <1>10 DEF Table
<1>12. IdleJob \in Job /\ Numbered(IdleJob, k)
  BY <1>4, IdleIsAJob
<1>13. job' \in [Worker -> Job] /\ \A v \in Worker : Numbered(job'[v], nextRow')
  BY <1>1, <1>4, <1>12, WorkerMoves DEF End
<1> QED
  BY <1>1, <1>3, <1>4, <1>11, <1>13 DEF IType

LEMMA DisownType ==
    ASSUME UserAssumption, IType, NEW w \in Worker,
           Disown(w) \/ DisownMaint(w) \/ DisownCo(w) \/ DisownAll(w)
    PROVE  IType'
<1>1. Users \subseteq User
  BY FewUsers
<1>2. /\ job[w] \in Job /\ Numbered(job[w], nextRow) /\ Table(rows, nextRow)
      /\ maintainer \in User \cup {NoUser} /\ untold \subseteq User
  BY DEF IType
<1>3. IdleJob \in Job /\ Numbered(IdleJob, nextRow)
  BY IdleIsAJob, Numbers
<1>4. ASSUME End(w), UNCHANGED <<maintainer, rows, nextRow, untold>>
      PROVE  IType'
  BY <1>2, <1>3, <1>4, MovedType DEF End
<1>5. ASSUME NEW N \in SUBSET User, Become(w, [job[w] EXCEPT !.pc = "mail", !.notifs = N]),
             UNCHANGED nextRow, Table(rows', nextRow),
             maintainer' \in User \cup {NoUser}, untold' \subseteq User
      PROVE  IType'
  <2> DEFINE j == [job[w] EXCEPT !.pc = "mail", !.notifs = N]
  <2>1. j \in Job /\ j.pc = "mail" /\ j.prio = job[w].prio
    BY <1>2 DEF Job
  <2>2. Numbered(j, nextRow)
    BY <1>2, <2>1 DEF Numbered
  <2> QED
    BY <1>5, <2>1, <2>2, MovedType
<1>6. ASSUME Goto(w, "mail"), UNCHANGED nextRow, Table(rows', nextRow),
             maintainer' \in User \cup {NoUser}, untold' \subseteq User
      PROVE  IType'
  <2> DEFINE j == [job[w] EXCEPT !.pc = "mail"]
  <2>1. j \in Job /\ j.pc = "mail" /\ j.prio = job[w].prio
    BY <1>2 DEF Job
  <2>2. Numbered(j, nextRow)
    BY <1>2, <2>1 DEF Numbered
  <2> QED
    BY <1>6, <2>1, <2>2, MovedType DEF Goto
<1>7. Table({}, nextRow)
  BY DEF Table
<1>8. CASE Disown(w)
  <2>1. PICK u \in User \cup {NoUser} :
          Become(w, [IdleJob EXCEPT !.user = u,
                       !.pc = IF u # NoUser /\ u = maintainer THEN "disownMaint"
                              ELSE IF u \in Users THEN "disownCo" ELSE "disownAll"])
    BY <1>8 DEF Disown
  <2> DEFINE pc == IF u # NoUser /\ u = maintainer THEN "disownMaint"
                   ELSE IF u \in Users THEN "disownCo" ELSE "disownAll"
             j == [IdleJob EXCEPT !.user = u, !.pc = pc]
  <2>2. pc \in {"disownMaint", "disownCo", "disownAll"} /\ (pc = "disownCo" => u \in User)
    BY <1>1
  <2>3. Become(w, j)
    BY <2>1
  <2> HIDE DEF pc
  <2>4. j \in Job /\ j.pc = pc /\ j.prio = 0 /\ j.user = u
    BY <1>3, <2>2 DEF Job, IdleJob
  <2> HIDE DEF j
  <2>5. Numbered(j, nextRow)
    BY <2>2, <2>4, Numbers DEF Numbered
  <2> QED
    BY <1>2, <1>8, <2>3, <2>4, <2>5, MovedType DEF Disown
<1>9. CASE DisownMaint(w)
  <2>1. CASE rows = {}
    BY <1>2, <1>6, <1>9, <2>1 DEF DisownMaint
  <2>2. CASE rows # {}
    <3>1. PICK first \in rows, f \in Rankings(Users) :
            \/ End(w) /\ UNCHANGED <<maintainer, rows, untold>>
            \/ /\ maintainer' = first.user
               /\ rows' = RemoveOne(f, first.user)
               /\ untold' = untold \cup {first.user}
               /\ Become(w, [job[w] EXCEPT !.pc = "mail", !.notifs = {first.user}])
      BY <1>9, <2>2 DEF DisownMaint
    <3>2. first.user \in User /\ {first.user} \in SUBSET User /\ UNCHANGED nextRow
      BY <1>1, <1>9 DEF DisownMaint, Users
    <3>3. Table(RemoveOne(f, first.user), nextRow)
      BY RankedTable DEF RemoveOne
    <3>4. CASE End(w) /\ UNCHANGED <<maintainer, rows, untold>>
      BY <1>4, <3>2, <3>4
    <3>5. CASE /\ maintainer' = first.user
               /\ rows' = RemoveOne(f, first.user)
               /\ untold' = untold \cup {first.user}
               /\ Become(w, [job[w] EXCEPT !.pc = "mail", !.notifs = {first.user}])
      BY <1>2, <1>5, <3>2, <3>3, <3>5
    <3> QED
      BY <3>1, <3>4, <3>5
  <2> QED
    BY <2>1, <2>2
<1>10. CASE DisownCo(w)
  <2> DEFINE u == job[w].user
  <2>1. u \in User /\ UNCHANGED <<maintainer, nextRow>>
    BY <1>2, <1>10 DEF DisownCo, At, Numbered
  <2>2. PICK f \in Rankings(Users) :
          \/ End(w) /\ UNCHANGED <<rows, untold>>
          \/ /\ rows' = RemoveOne(f, u)
             /\ untold' = untold \cup ({u} \cap Users)
             /\ Become(w, [job[w] EXCEPT !.pc = "mail", !.notifs = {u}])
    BY <1>10 DEF DisownCo
  <2>3. Table(RemoveOne(f, u), nextRow)
    BY RankedTable DEF RemoveOne
  <2>4. CASE End(w) /\ UNCHANGED <<rows, untold>>
    BY <1>4, <2>1, <2>4
  <2>5. CASE /\ rows' = RemoveOne(f, u)
             /\ untold' = untold \cup ({u} \cap Users)
             /\ Become(w, [job[w] EXCEPT !.pc = "mail", !.notifs = {u}])
    <3>1. {u} \in SUBSET User /\ untold' \subseteq User
      BY <1>1, <1>2, <2>1, <2>5
    <3> QED
      BY <1>2, <1>5, <2>1, <2>3, <2>5, <3>1
  <2> QED
    BY <2>2, <2>4, <2>5
<1>11. CASE DisownAll(w)
  <2>1. /\ maintainer' = NoUser /\ rows' = {} /\ UNCHANGED nextRow /\ Goto(w, "mail")
        /\ untold' \subseteq User
    BY <1>1, <1>2, <1>11 DEF DisownAll
  <2> QED
    BY <1>6, <1>7, <2>1
<1> QED
  BY <1>8, <1>9, <1>10, <1>11

LEMMA TypeStep ==
    ASSUME UserAssumption, GhostAssumption, IType, [Next]_vars
    PROVE  IType'
<1>1. ASSUME NEW u \in User, Adopt(u) PROVE IType'
  BY <1>1 DEF Adopt, IType
<1>2. ASSUME UNCHANGED vars PROVE IType'
  BY <1>2 DEF vars, IType
<1> QED
  BY <1>1, <1>2, FormType, InsertType, SshType, SshWriteType, DisownType DEF Next

LEMMA TypeInit ==
    ASSUME UserAssumption, Init
    PROVE  IType
<1>1. nextRow \in Nat /\ nextRow = 1 /\ nextRow \in 1..MaxRow + 1
  BY DEF Init, UserAssumption
<1>2. IdleJob \in Job /\ Numbered(IdleJob, nextRow)
  BY <1>1, IdleIsAJob
<1>3. Table(rows, nextRow)
  BY DEF Init, Table
<1> QED
  BY <1>1, <1>2, <1>3 DEF Init, IType

\* The variables of Comaintainers have their types, whatever the operations are
\* and however many workers there are: no priority that add_comaintainer and
\* set_comaintainers write exceeds the number of rows that were ever inserted.
THEOREM TypeCorrect ==
    ASSUME UserAssumption, GhostAssumption
    PROVE  Spec => []TypeOK
<1>1. Init => IType
  BY TypeInit
<1>2. IType /\ [Next]_vars => IType'
  BY TypeStep
<1>3. IType => TypeOK
  <2> SUFFICES ASSUME IType PROVE \A r \in rows : r.Priority \in 1..MaxRow + 1
    BY DEF IType, TypeOK, Table, Job
  <2>1. \A r \in rows : r.Priority \in 1..nextRow - 1
    BY DEF IType, Table
  <2> QED
    BY <2>1, Numbers
<1> QED
  BY <1>1, <1>2, <1>3, PTL DEF Spec

-----------------------------------------------------------------------------
(* One worker                                                               *)

\* Ranking a table changes nobody's rows.
LEMMA RankedUsers ==
    ASSUME IType, NEW f, NEW R \in SUBSET rows
    PROVE  {s.user : s \in Ranked(f, R)} = {r.user : r \in R}
<1>1. ASSUME NEW r \in R
      PROVE  (IF f[r.user] = Prio(r.user) THEN r ELSE [r EXCEPT !.Priority = f[r.user]]).user = r.user
  BY DEF IType, Table, Row
<1> QED
  BY <1>1 DEF Ranked

\* With one row each, ranking gives every user the number of the user, and
\* keeps the row's place.
LEMMA RankedOnce ==
    ASSUME UserAssumption, IType, OneRowPerUser, NEW f \in Rankings(Users), NEW R \in SUBSET rows
    PROVE  /\ \A s \in Ranked(f, R) :
                \E r \in R : s.n = r.n /\ s.user = r.user /\ s.Priority = f[r.user]
           /\ \A r \in R :
                \E s \in Ranked(f, R) : s.n = r.n /\ s.user = r.user /\ s.Priority = f[r.user]
           /\ \A r \in rows : r.user \in Users /\ Prio(r.user) = r.Priority
<1>1. ASSUME NEW r \in rows PROVE r.user \in Users /\ Prio(r.user) = r.Priority
  <2>1. r.user \in Users
    BY DEF Users
  <2>2. PICK q \in rows : q.user = r.user /\ Prio(r.user) = q.Priority
    BY <2>1, PrioOfARow
  <2>3. q = r
    BY <2>2 DEF OneRowPerUser
  <2> QED
    BY <2>1, <2>2, <2>3
<1> DEFINE new(r) == IF f[r.user] = Prio(r.user) THEN r ELSE [r EXCEPT !.Priority = f[r.user]]
<1>2. ASSUME NEW r \in R
      PROVE  new(r).n = r.n /\ new(r).user = r.user /\ new(r).Priority = f[r.user]
  BY <1>1 DEF IType, Table, Row
<1>3. Ranked(f, R) = {new(r) : r \in R}
  BY DEF Ranked
<1> HIDE DEF new
<1> QED
  BY <1>1, <1>2, <1>3

\* No user is stale who has one row.
LEMMA NothingStale ==
    ASSUME IType, OneRowPerUser, NEW f \in Rankings(Users)
    PROVE  Stale(f) = {}
<1>1. ASSUME NEW u \in Users PROVE Cardinality(RowsOf({u})) = 1
  <2>1. PICK r \in rows : r.user = u
    BY DEF Users
  <2>2. RowsOf({u}) = {r}
    BY <2>1 DEF RowsOf, OneRowPerUser
  <2> QED
    BY <2>2, FS_Singleton
<1>2. DOMAIN f = Users
  BY DEF Rankings
<1> QED
  BY <1>1, <1>2 DEF Stale

\* Ranking keeps one row per user.
LEMMA RankedAlone ==
    ASSUME UserAssumption, IType, OneRowPerUser, NEW f \in Rankings(Users), NEW R \in SUBSET rows
    PROVE  \A s, t \in Ranked(f, R) : s.user = t.user => s = t
<1> SUFFICES ASSUME NEW s \in Ranked(f, R), NEW t \in Ranked(f, R), s.user = t.user
             PROVE  s = t
  OBVIOUS
<1>1. PICK r \in R : s = IF f[r.user] = Prio(r.user) THEN r ELSE [r EXCEPT !.Priority = f[r.user]]
  BY DEF Ranked
<1>2. PICK q \in R : t = IF f[q.user] = Prio(q.user) THEN q ELSE [q EXCEPT !.Priority = f[q.user]]
  BY DEF Ranked
<1>3. s.user = r.user /\ t.user = q.user
  BY <1>1, <1>2 DEF IType, Table, Row
<1>4. r = q
  BY <1>3 DEF OneRowPerUser
<1> QED
  BY <1>1, <1>2, <1>4

\* Where the rows stay, so does all that is read of them.
LEMMA RowsStay ==
    ASSUME rows' = rows
    PROVE  Users' = Users /\ LatestPriority' = LatestPriority /\ (OneRowPerUser => OneRowPerUser')
BY DEF Users, LatestPriority, OneRowPerUser

\* Jobs that know nothing of the table.
LEMMA NothingKnown ==
    ASSUME NEW j, NEW U, NEW p,
           j.pc \in {"idle", "mail", "disownMaint", "disownCo", "disownAll"}
    PROVE  Knows(j, U, p)
BY DEF Knows

\* Where one worker went.
LEMMA AloneMoves ==
    ASSUME IType, NEW w \in Worker
    PROVE  /\ job[w] \in Job
           /\ \A j : Become(w, j) => job'[w] = j
           /\ End(w) => job'[w].pc = "idle"
           /\ Goto(w, "mail") => job'[w].pc = "mail"
BY DEF IType, Become, End, Goto, IdleJob, Job

LEMMA AloneForm ==
    ASSUME UserAssumption, IAlone, NEW w \in Worker,
           Form(w) \/ RotateDeadlock(w) \/ Names(w) \/ Add(w) \/ Mail(w) \/ Ssh(w) \/ Disown(w)
    PROVE  OneRowPerUser' /\ Knows(job'[w], Users', LatestPriority')
<1> DEFINE j == job[w]
           p == LatestPriority
<1>1. j \in Job /\ Knows(j, Users, p) /\ OneRowPerUser
  BY AloneMoves DEF IAlone, IType
<1>2. rows' = rows
  BY DEF Form, RotateDeadlock, Names, Add, Mail, Ssh, Disown
<1>3. OneRowPerUser' /\ Users' = Users /\ LatestPriority' = p
  BY <1>1, <1>2, RowsStay
<1>4. ASSUME End(w) PROVE Knows(job'[w], Users, p)
  BY <1>4, AloneMoves, NothingKnown DEF IAlone
<1>5. \A i : Become(w, i) => job'[w] = i
  BY AloneMoves DEF IAlone
<1> SUFFICES Knows(job'[w], Users, p)
  BY <1>3
<1> HIDE DEF p
<1>6. CASE Form(w)
  <2>1. PICK U \in SUBSET (User \cup {Ghost}) :
          job'[w] = [IdleJob EXCEPT !.pc = "remove", !.rm = Users \ U, !.add = U \ Users]
    BY <1>5, <1>6 DEF Form
  <2>2. job'[w].pc = "remove" /\ job'[w].add = U \ Users
    BY <2>1 DEF IdleJob
  <2> QED
    BY <2>2 DEF Knows
<1>7. CASE RotateDeadlock(w)
  <2>1. job'[w] = [j EXCEPT !.pc = "remove", !.notifs = {}] /\ j.pc = "rotate"
    BY <1>5, <1>7 DEF RotateDeadlock, At
  <2>2. job'[w].pc = "remove" /\ job'[w].add = j.add
    BY <1>1, <2>1 DEF Job
  <2> QED
    BY <1>1, <2>1, <2>2 DEF Knows
<1>8. CASE Names(w)
  <2>1. j.pc = "names" /\ (End(w) \/ job'[w] = [j EXCEPT !.pc = "add"])
    BY <1>5, <1>8 DEF Names, At, Goto
  <2>2. ASSUME job'[w] = [j EXCEPT !.pc = "add"] PROVE Knows(job'[w], Users, p)
    <3>1. job'[w].pc = "add" /\ job'[w].add = j.add
      BY <1>1, <2>2 DEF Job
    <3> QED
      BY <1>1, <2>1, <3>1 DEF Knows
  <2> QED
    BY <1>4, <2>1, <2>2
<1>9. CASE Add(w)
  <2>1. PICK u \in j.add :
          \/ job'[w] = [j EXCEPT !.pc = "insert", !.user = u, !.add = @ \ {u}, !.prio = p + 1]
          \/ job'[w] = [j EXCEPT !.pc = IF j.add = {u} THEN "mail" ELSE "add", !.add = @ \ {u}]
    BY <1>5, <1>9 DEF Add, p
  <2>2. j.pc = "add" /\ j.add \cap Users = {}
    BY <1>1, <1>9 DEF Add, At, Knows
  <2>3. ASSUME job'[w] = [j EXCEPT !.pc = "insert", !.user = u, !.add = @ \ {u}, !.prio = p + 1]
        PROVE  Knows(job'[w], Users, p)
    <3>1. /\ job'[w].pc = "insert" /\ job'[w].user = u /\ job'[w].add = j.add \ {u}
          /\ job'[w].prio = p + 1
      BY <1>1, <2>3 DEF Job
    <3> QED
      BY <2>2, <3>1 DEF Knows
  <2>4. ASSUME job'[w] = [j EXCEPT !.pc = IF j.add = {u} THEN "mail" ELSE "add", !.add = @ \ {u}]
        PROVE  Knows(job'[w], Users, p)
    <3>1. job'[w].pc \in {"mail", "add"} /\ job'[w].add = j.add \ {u}
      BY <1>1, <2>4 DEF Job
    <3> QED
      BY <2>2, <3>1 DEF Knows
  <2> QED
    BY <2>1, <2>3, <2>4
<1>10. CASE Mail(w)
  BY <1>4, <1>10 DEF Mail
<1>11. CASE Ssh(w)
  <2>1. PICK U \in SUBSET User :
          job'[w] = [IdleJob EXCEPT !.pc = "ssh", !.rm = Users \ U, !.add = U \ Users,
                                    !.notifs = U \cap Users]
    BY <1>5, <1>11 DEF Ssh
  <2>2. /\ job'[w].pc = "ssh" /\ job'[w].add = U \ Users /\ job'[w].notifs = U \cap Users
        /\ job'[w].rm = Users \ U
    BY <2>1 DEF IdleJob
  <2> QED
    BY <2>2 DEF Knows
<1>12. CASE Disown(w)
  <2>1. PICK u \in User \cup {NoUser} :
          job'[w] = [IdleJob EXCEPT !.user = u,
                       !.pc = IF u # NoUser /\ u = maintainer THEN "disownMaint"
                              ELSE IF u \in Users THEN "disownCo" ELSE "disownAll"]
    BY <1>5, <1>12 DEF Disown
  <2>2. job'[w].pc \in {"disownMaint", "disownCo", "disownAll"}
    BY <2>1 DEF IdleJob
  <2> QED
    BY <2>2, NothingKnown
<1> QED
  BY <1>6, <1>7, <1>8, <1>9, <1>10, <1>11, <1>12

\* remove_comaintainers, and what disowning makes of the table.
LEMMA AloneRemoves ==
    ASSUME UserAssumption, IAlone, NEW w \in Worker,
           Remove(w) \/ Rotate(w) \/ DisownMaint(w) \/ DisownCo(w) \/ DisownAll(w)
    PROVE  OneRowPerUser' /\ Knows(job'[w], Users', LatestPriority')
<1> DEFINE j == job[w]
<1>1. j \in Job /\ Knows(j, Users, LatestPriority) /\ OneRowPerUser /\ IType
  BY AloneMoves DEF IAlone, IType
<1>2. \A i : Become(w, i) => job'[w] = i
  BY <1>1, AloneMoves
<1>3. ASSUME NEW R \in SUBSET rows, NEW f \in Rankings(Users), rows' = Ranked(f, R)
      PROVE  OneRowPerUser' /\ Users' \subseteq Users
  BY <1>1, <1>3, RankedAlone, RankedUsers DEF OneRowPerUser, Users
<1>4. ASSUME NEW i, Become(w, [j EXCEPT !.pc = "mail", !.notifs = i])
      PROVE  job'[w].pc = "mail"
  BY <1>1, <1>2, <1>4 DEF Job
<1>5. ASSUME OneRowPerUser', job'[w].pc \in {"idle", "mail"}
      PROVE  OneRowPerUser' /\ Knows(job'[w], Users', LatestPriority')
  BY <1>5, NothingKnown
<1>6. ASSUME End(w), rows' = rows
      PROVE  OneRowPerUser' /\ Knows(job'[w], Users', LatestPriority')
  BY <1>1, <1>5, <1>6, AloneMoves, RowsStay
<1>7. CASE Remove(w)
  <2> DEFINE gone == j.rm \cap Users
  <2>1. rows' = rows \ RowsOf(gone) /\ job'[w] = [j EXCEPT !.pc = "rotate", !.notifs = gone]
        /\ j.pc = "remove"
    BY <1>2, <1>7 DEF Remove, At
  <2>2. OneRowPerUser' /\ Users' \subseteq Users
    BY <1>1, <2>1 DEF OneRowPerUser, Users
  <2>3. job'[w].pc = "rotate" /\ job'[w].add = j.add
    BY <1>1, <2>1 DEF Job
  <2> QED
    BY <1>1, <2>1, <2>2, <2>3 DEF Knows
<1>8. CASE Rotate(w)
  <2>1. PICK f \in Rankings(Users) :
          \/ End(w) /\ rows' = rows
          \/ rows' = Ranked(f, rows) /\ job'[w] = [j EXCEPT !.pc = "names", !.notifs = {}]
    BY <1>2, <1>8 DEF Rotate
  <2>2. ASSUME rows' = Ranked(f, rows), job'[w] = [j EXCEPT !.pc = "names", !.notifs = {}]
        PROVE  OneRowPerUser' /\ Knows(job'[w], Users', LatestPriority')
    <3>1. OneRowPerUser' /\ Users' \subseteq Users
      BY <1>3, <2>2
    <3>2. job'[w].pc = "names" /\ job'[w].add = j.add /\ j.pc = "rotate"
      BY <1>1, <1>8, <2>2 DEF Job, Rotate, At
    <3> QED
      BY <1>1, <3>1, <3>2 DEF Knows
  <2> QED
    BY <1>6, <2>1, <2>2
<1>9. CASE DisownMaint(w)
  <2>1. CASE rows = {}
    <3>1. rows' = rows /\ job'[w].pc = "mail"
      BY <1>1, <1>9, <2>1, AloneMoves DEF DisownMaint
    <3> QED
      BY <1>1, <1>5, <3>1, RowsStay
  <2>2. CASE rows # {}
    <3>1. PICK first \in rows, f \in Rankings(Users) :
            \/ End(w) /\ rows' = rows
            \/ /\ rows' = RemoveOne(f, first.user)
               /\ Become(w, [j EXCEPT !.pc = "mail", !.notifs = {first.user}])
      BY <1>9, <2>2 DEF DisownMaint
    <3> QED
      BY <1>3, <1>4, <1>5, <1>6, <3>1 DEF RemoveOne
  <2> QED
    BY <2>1, <2>2
<1>10. CASE DisownCo(w)
  <2>1. PICK f \in Rankings(Users) :
          \/ End(w) /\ rows' = rows
          \/ /\ rows' = RemoveOne(f, j.user)
             /\ Become(w, [j EXCEPT !.pc = "mail", !.notifs = {j.user}])
    BY <1>10 DEF DisownCo
  <2> QED
    BY <1>3, <1>4, <1>5, <1>6, <2>1 DEF RemoveOne
<1>11. CASE DisownAll(w)
  <2>1. rows' = {} /\ job'[w].pc = "mail"
    BY <1>1, <1>11, AloneMoves DEF DisownAll
  <2> QED
    BY <1>5, <2>1 DEF OneRowPerUser
<1> QED
  BY <1>7, <1>8, <1>9, <1>10, <1>11

\* The row of add_comaintainer.
LEMMA Inserted ==
    ASSUME IAlone, NEW w \in Worker, Insert(w)
    PROVE  LET j == job[w] IN
           \E r \in Row :
              /\ rows' = rows \cup {r}
              /\ r.n = nextRow /\ r.user = j.user /\ r.Priority = LatestPriority + 1
              /\ r.user \in User \ Users
              /\ j.add \cap Users = {} /\ j.user \notin j.add
              /\ job'[w].pc \in {"mail", "add"} /\ job'[w].add = j.add
              /\ job'[w].notifs = j.notifs
<1> DEFINE j == job[w]
           r == [n |-> nextRow, user |-> j.user, Priority |-> j.prio]
<1>1. j \in Job /\ Numbered(j, nextRow) /\ Knows(j, Users, LatestPriority) /\ j.pc = "insert"
  BY DEF IAlone, IType, Insert, At
<1>2. /\ rows' = rows \cup {r} /\ nextRow <= MaxRow
      /\ job'[w] = [j EXCEPT !.pc = IF j.add = {} THEN "mail" ELSE "add", !.user = NoUser, !.prio = 0]
  BY AloneMoves DEF IAlone, Insert
<1>3. nextRow \in 1..MaxRow /\ j.prio \in Nat /\ j.user \in User
  BY <1>1, <1>2 DEF IAlone, IType, Job, Numbered
<1>4. r \in Row
  BY <1>3 DEF Row
<1>5. /\ j.prio = LatestPriority + 1 /\ j.user \notin Users
      /\ j.add \cap Users = {} /\ j.user \notin j.add
  BY <1>1 DEF Knows
<1>6. job'[w].pc \in {"mail", "add"} /\ job'[w].add = j.add /\ job'[w].notifs = j.notifs
  <2>1. CASE j.add = {}
    BY <1>1, <1>2, <2>1 DEF Job
  <2>2. CASE j.add # {}
    BY <1>1, <1>2, <2>2 DEF Job
  <2> QED
    BY <2>1, <2>2
<1> QED
  BY <1>2, <1>3, <1>4, <1>5, <1>6

LEMMA AloneInserts ==
    ASSUME IAlone, NEW w \in Worker, Insert(w)
    PROVE  OneRowPerUser' /\ Knows(job'[w], Users', LatestPriority')
<1>1. PICK r \in Row :
        /\ rows' = rows \cup {r}
        /\ r.n = nextRow /\ r.user = job[w].user /\ r.Priority = LatestPriority + 1
        /\ r.user \in User \ Users
        /\ job[w].add \cap Users = {} /\ job[w].user \notin job[w].add
        /\ job'[w].pc \in {"mail", "add"} /\ job'[w].add = job[w].add
        /\ job'[w].notifs = job[w].notifs
  BY Inserted
<1>2. Users' = Users \cup {r.user}
  BY <1>1 DEF Users
<1>3. OneRowPerUser'
  BY <1>1 DEF OneRowPerUser, Users, IAlone
<1> QED
  BY <1>1, <1>2, <1>3 DEF Knows

\* What set_comaintainers makes of the table: those on the list have the
\* numbers from one on.
LEMMA Replaced ==
    ASSUME UserAssumption, IAlone, NEW w \in Worker, SshWrite(w)
    PROVE  LET new == job[w].add \cup job[w].notifs IN
           /\ OneRowPerUser' /\ Users' = new /\ job'[w].pc = "idle"
           /\ new \in SUBSET User
           /\ \E f \in [new -> 1..Cardinality(new)] :
                /\ \A u, v \in new : f[u] = f[v] => u = v
                /\ \A s \in rows' : s.Priority = f[s.user]
<1> DEFINE A == job[w].add
           B == job[w].notifs
           new == A \cup B
<1>1. job[w] \in Job /\ Knows(job[w], Users, LatestPriority) /\ job[w].pc = "ssh"
  BY DEF IAlone, IType, SshWrite, At
<1>2. A \cap Users = {} /\ B \subseteq Users /\ job[w].rm = Users \ B
  BY <1>1 DEF Knows
<1>3. PICK f \in [new -> 1..Cardinality(new)] :
        /\ \A u, v \in new : f[u] = f[v] => u = v
        /\ \E place \in [A -> nextRow..nextRow + Cardinality(A) - 1] :
             /\ \A u, v \in A : f[u] < f[v] => place[u] < place[v]
             /\ rows' = Listed(job[w], f, place)
  BY SshWritten
<1>4. PICK place : rows' = Listed(job[w], f, place)
  BY <1>3
<1>5. job'[w].pc = "idle"
  BY AloneMoves DEF SshWrite, IAlone
<1>6. ASSUME NEW r \in rows, r.user \notin job[w].rm
      PROVE  r.user \in B /\ r \in Row
  BY <1>2, <1>6 DEF Users, IAlone, IType, Table
<1>7. ASSUME NEW s \in rows'
      PROVE  /\ s.user \in new /\ s.Priority = f[s.user]
             /\ s.user \in A => s = [n |-> place[s.user], user |-> s.user, Priority |-> f[s.user]]
             /\ s.user \in B => \E r \in rows : r.user = s.user /\ s = [r EXCEPT !.Priority = f[r.user]]
  <2>1. ASSUME NEW r \in rows, r.user \notin job[w].rm,
               s = IF r.user \in B THEN [r EXCEPT !.Priority = f[r.user]] ELSE r
        PROVE  s.user = r.user /\ r.user \in B /\ s = [r EXCEPT !.Priority = f[r.user]]
               /\ s.Priority = f[s.user]
    BY <1>6, <2>1 DEF Row
  <2>2. ASSUME NEW u \in A, s = [n |-> place[u], user |-> u, Priority |-> f[u]]
        PROVE  s.user = u /\ s.Priority = f[u]
    BY <2>2
  <2>3. A \cap B = {}
    BY <1>2
  <2> QED
    BY <1>4, <2>1, <2>2, <2>3, ListedRows
<1>8. OneRowPerUser'
  <2> SUFFICES ASSUME NEW s \in rows', NEW t \in rows', s.user = t.user PROVE s = t
    BY DEF OneRowPerUser
  <2>1. CASE s.user \in A
    BY <1>7, <2>1
  <2>2. CASE s.user \in B
    <3>1. PICK r \in rows : r.user = s.user /\ s = [r EXCEPT !.Priority = f[r.user]]
      BY <1>7, <2>2
    <3>2. PICK q \in rows : q.user = t.user /\ t = [q EXCEPT !.Priority = f[q.user]]
      BY <1>7, <2>2
    <3>3. r = q
      BY <3>1, <3>2 DEF IAlone, OneRowPerUser
    <3> QED
      BY <3>1, <3>2, <3>3
  <2> QED
    BY <1>7, <2>1, <2>2
<1>9. Users' = new
  <2>1. Users' \subseteq new
    BY <1>7 DEF Users
  <2>2. ASSUME NEW u \in A PROVE u \in Users'
    <3>1. [n |-> place[u], user |-> u, Priority |-> f[u]] \in rows'
      BY <1>4, ListedRows
    <3> QED
      BY <3>1 DEF Users
  <2>3. ASSUME NEW u \in B PROVE u \in Users'
    <3>1. PICK r \in rows : r.user = u
      BY <1>2 DEF Users
    <3>2. r.user \notin job[w].rm /\ r \in Row
      BY <1>2, <1>6, <3>1
    <3>3. [r EXCEPT !.Priority = f[r.user]] \in Listed(job[w], f, place)
      BY <3>1, <3>2 DEF Listed
    <3> QED
      BY <1>4, <3>1, <3>2, <3>3 DEF Users, Row
  <2> QED
    BY <2>1, <2>2, <2>3
<1>10. new \in SUBSET User
  <2>1. Ghost \notin A
    BY <1>1 DEF IAlone, IType, Numbered
  <2> QED
    BY <1>1, <2>1 DEF Job
<1> QED
  BY <1>3, <1>5, <1>7, <1>8, <1>9, <1>10

\* A single worker finds the table as it left it.
LEMMA AloneStep ==
    ASSUME UserAssumption, GhostAssumption, NEW w, Worker = {w}, IAlone, [Next]_vars
    PROVE  IAlone'
<1>1. IType'
  BY TypeStep DEF IAlone
<1>2. w \in Worker /\ \A v \in Worker : v = w
  OBVIOUS
<1>3. ASSUME SshWrite(w) PROVE OneRowPerUser' /\ Knows(job'[w], Users', LatestPriority')
  BY <1>2, <1>3, Replaced, NothingKnown
<1>4. ASSUME rows' = rows, job' = job
      PROVE  OneRowPerUser' /\ Knows(job'[w], Users', LatestPriority')
  BY <1>2, <1>4, RowsStay DEF IAlone
<1>5. OneRowPerUser' /\ Knows(job'[w], Users', LatestPriority')
  BY <1>2, <1>3, <1>4, AloneForm, AloneRemoves, AloneInserts DEF Next, Adopt, vars
<1> QED
  BY <1>1, <1>2, <1>5 DEF IAlone

LEMMA AloneInit ==
    ASSUME UserAssumption, Init
    PROVE  IAlone
BY TypeInit DEF Init, IAlone, OneRowPerUser, IdleJob, Knows

-----------------------------------------------------------------------------
(* The maintainer, and who is told                                          *)

\* Nobody disowns the base of others.
LEMMA OwnPartStep ==
    ASSUME NEW w, Worker = {w}, "elevated" \notin Op, IAlone, job[w].pc # "disownAll",
           [Next]_vars
    PROVE  job'[w].pc # "disownAll"
<1> DEFINE j == job[w]
<1>1. w \in Worker /\ (\A v \in Worker : v = w) /\ j \in Job
  BY DEF IAlone, IType
<1>2. /\ \A i : Become(w, i) => job'[w] = i
      /\ \A pc \in {"mail", "add"} : Goto(w, pc) => job'[w].pc = pc
      /\ End(w) => job'[w].pc = "idle"
  BY <1>1 DEF IAlone, IType, Become, End, Goto, IdleJob, Job
<1>3. CASE Disown(w)
  <2>1. PICK u \in User \cup {NoUser} :
          /\ u \in Users \/ (u # NoUser /\ u = maintainer)
          /\ job'[w] = [IdleJob EXCEPT !.user = u,
                          !.pc = IF u # NoUser /\ u = maintainer THEN "disownMaint"
                                 ELSE IF u \in Users THEN "disownCo" ELSE "disownAll"]
    BY <1>2, <1>3 DEF Disown
  <2> QED
    BY <2>1 DEF IdleJob
<1>4. ASSUME Form(w) \/ Remove(w) \/ Rotate(w) \/ RotateDeadlock(w) \/ Names(w) \/ Add(w)
             \/ Insert(w) \/ Mail(w) \/ Ssh(w) \/ SshWrite(w) \/ DisownMaint(w) \/ DisownCo(w)
             \/ DisownAll(w)
      PROVE  job'[w].pc # "disownAll"
  BY <1>1, <1>2, <1>4
     DEF Form, Remove, Rotate, RotateDeadlock, Names, Add, Insert, Mail, Ssh, SshWrite,
         DisownMaint, DisownCo, DisownAll, IdleJob, Job
<1>5. ASSUME UNCHANGED job PROVE job'[w].pc # "disownAll"
  BY <1>5
<1> QED
  BY <1>1, <1>3, <1>4, <1>5 DEF Next, Adopt, vars

\* Whoever is removed waits for the mail of the only handler.
LEMMA TellingStep ==
    ASSUME UserAssumption, GhostAssumption, NEW w, Worker = {w}, "deadlock" \notin Op,
           IAlone, Telling(job[w], untold), job[w].pc # "disownAll", [Next]_vars
    PROVE  Telling(job'[w], untold')
<1> DEFINE j == job[w]
<1>1. w \in Worker /\ (\A v \in Worker : v = w) /\ IType /\ OneRowPerUser
  BY DEF IAlone
<1>2. /\ j \in Job
      /\ \A i : Become(w, i) => job'[w] = i
      /\ Goto(w, "mail") => job'[w].pc = "mail"
  BY <1>1, AloneMoves
<1>3. untold \subseteq j.notifs /\ (j.pc \notin {"rotate", "mail"} => untold = {})
  BY DEF Telling
<1>4. ASSUME untold' = {} PROVE Telling(job'[w], untold')
  BY <1>4 DEF Telling
<1>5. \A f \in Rankings(Users) : Stale(f) = {}
  BY <1>1, NothingStale
<1>6. ASSUME NEW i, untold' \subseteq i, Become(w, [j EXCEPT !.pc = "mail", !.notifs = i])
      PROVE  Telling(job'[w], untold')
  BY <1>2, <1>6 DEF Telling, Job
<1>7. ASSUME Form(w) \/ Names(w) \/ Add(w) \/ Insert(w) \/ Ssh(w) \/ SshWrite(w) \/ Disown(w)
      PROVE  Telling(job'[w], untold')
  <2>1. untold' = untold
    BY <1>7 DEF Form, Names, Add, Insert, Ssh, SshWrite, Disown
  <2>2. j.pc \notin {"rotate", "mail"}
    BY <1>7 DEF Form, Names, Add, Insert, Ssh, SshWrite, Disown, At, Ready
  <2> QED
    BY <1>3, <1>4, <2>1, <2>2
<1>8. CASE Remove(w)
  <2> DEFINE gone == j.rm \cap Users
  <2>1. /\ untold' = untold \cup gone /\ j.pc = "remove"
        /\ job'[w] = [j EXCEPT !.pc = "rotate", !.notifs = gone]
    BY <1>2, <1>8 DEF Remove, At
  <2>2. untold' = gone /\ job'[w].pc = "rotate" /\ job'[w].notifs = gone
    BY <1>2, <1>3, <2>1 DEF Job
  <2> QED
    BY <2>2 DEF Telling
<1>9. CASE Rotate(w)
  <2>1. untold' = untold \ j.notifs
    BY <1>5, <1>9 DEF Rotate
  <2> QED
    BY <1>3, <1>4, <2>1
<1>10. CASE Mail(w)
  <2>1. untold' = untold \ j.notifs
    BY <1>10 DEF Mail
  <2> QED
    BY <1>3, <1>4, <2>1
<1>11. CASE DisownMaint(w)
  <2>1. untold = {}
    BY <1>3, <1>11 DEF DisownMaint, At
  <2>2. \/ untold' = untold
        \/ \E first \in rows :
             /\ untold' = untold \cup {first.user}
             /\ Become(w, [j EXCEPT !.pc = "mail", !.notifs = {first.user}])
    BY <1>11 DEF DisownMaint
  <2> QED
    BY <1>4, <1>6, <2>1, <2>2
<1>12. CASE DisownCo(w)
  <2>1. untold = {}
    BY <1>3, <1>12 DEF DisownCo, At
  <2>2. \/ untold' = untold
        \/ /\ untold' = untold \cup ({j.user} \cap Users)
           /\ Become(w, [j EXCEPT !.pc = "mail", !.notifs = {j.user}])
    BY <1>12 DEF DisownCo
  <2> QED
    BY <1>4, <1>6, <2>1, <2>2
<1>13. ASSUME untold' = untold, job' = job PROVE Telling(job'[w], untold')
  BY <1>13
<1>14. ~ DisownAll(w)
  BY DEF DisownAll, At
<1> QED
  BY <1>1, <1>7, <1>8, <1>9, <1>10, <1>11, <1>12, <1>13, <1>14
     DEF Next, RotateDeadlock, Adopt, vars

\* The only handler compares with the maintainer, and nobody adopts in between.
LEMMA ApartStep ==
    ASSUME UserAssumption, GhostAssumption, NEW w, Worker = {w}, {"ssh", "adopt"} \cap Op = {},
           IAlone, MaintainerIsNoComaintainer, Apart(job[w], maintainer), [Next]_vars
    PROVE  MaintainerIsNoComaintainer' /\ Apart(job'[w], maintainer')
<1> DEFINE j == job[w]
<1>1. w \in Worker /\ (\A v \in Worker : v = w) /\ IType
  BY DEF IAlone
<1>2. /\ j \in Job
      /\ \A i : Become(w, i) => job'[w] = i
      /\ End(w) => job'[w].pc = "idle"
      /\ Goto(w, "mail") => job'[w].pc = "mail"
  BY <1>1, AloneMoves
<1>3. (\A u \in Users : u # maintainer) /\ j.pc # "ssh" /\ (j.pc = "insert" => j.user # maintainer)
  BY DEF MaintainerIsNoComaintainer, Users, Apart
<1> SUFFICES /\ \A u \in Users' : u # maintainer'
             /\ job'[w].pc # "ssh"
             /\ job'[w].pc = "insert" => job'[w].user # maintainer'
  BY DEF MaintainerIsNoComaintainer, Users, Apart
<1>4. ASSUME NEW R \in SUBSET rows, NEW f, rows' = Ranked(f, R)
      PROVE  Users' = {r.user : r \in R}
  BY <1>1, <1>4, RankedUsers DEF Users
<1>5. ASSUME rows' = rows PROVE Users' = Users
  BY <1>5, RowsStay
<1>6. ASSUME NEW i, Become(w, [j EXCEPT !.pc = "mail", !.notifs = i])
      PROVE  job'[w].pc = "mail"
  BY <1>2, <1>6 DEF Job
<1>7. ASSUME NEW u, NEW f, rows' = RemoveOne(f, u)
      PROVE  Users' \subseteq Users \ {u}
  <2>1. Users' = {r.user : r \in rows \ RowsOf({u})}
    BY <1>4, <1>7 DEF RemoveOne
  <2>2. \A r \in rows \ RowsOf({u}) : r \in rows /\ r.user # u
    BY DEF RowsOf
  <2> QED
    BY <2>1, <2>2 DEF Users
<1>8. CASE Form(w) \/ RotateDeadlock(w) \/ Names(w) \/ Mail(w) \/ Disown(w)
  <2>1. Users' = Users /\ maintainer' = maintainer
    BY <1>5, <1>8 DEF Form, RotateDeadlock, Names, Mail, Disown
  <2>2. job'[w].pc \notin {"insert", "ssh"}
    BY <1>2, <1>8 DEF Form, RotateDeadlock, Names, Mail, Disown, IdleJob, Goto, Job
  <2> QED
    BY <1>3, <2>1, <2>2
<1>9. CASE Remove(w)
  <2>1. /\ maintainer' = maintainer /\ rows' \subseteq rows
        /\ \E i : job'[w] = [j EXCEPT !.pc = "rotate", !.notifs = i]
    BY <1>2, <1>9 DEF Remove
  <2>2. job'[w].pc = "rotate" /\ Users' \subseteq Users
    BY <1>2, <2>1 DEF Job, Users
  <2> QED
    BY <1>3, <2>1, <2>2
<1>10. CASE Rotate(w)
  <2>1. PICK f \in Rankings(Users) :
          \/ End(w) /\ rows' = rows
          \/ rows' = Ranked(f, rows) /\ job'[w] = [j EXCEPT !.pc = "names", !.notifs = {}]
    BY <1>2, <1>10 DEF Rotate
  <2>2. Users' = Users /\ maintainer' = maintainer
    BY <1>4, <1>5, <1>10, <2>1 DEF Rotate, Users
  <2>3. job'[w].pc \in {"idle", "names"}
    BY <1>2, <2>1 DEF Job
  <2> QED
    BY <1>3, <2>2, <2>3
<1>11. CASE Add(w)
  <2>1. Users' = Users /\ maintainer' = maintainer
    BY <1>5, <1>11 DEF Add
  <2>2. PICK u \in j.add :
          \/ /\ u # maintainer
             /\ job'[w] = [j EXCEPT !.pc = "insert", !.user = u, !.add = @ \ {u},
                                    !.prio = LatestPriority + 1]
          \/ job'[w] = [j EXCEPT !.pc = IF j.add = {u} THEN "mail" ELSE "add", !.add = @ \ {u}]
    BY <1>2, <1>11 DEF Add
  <2>3. job'[w].pc # "ssh" /\ (job'[w].pc = "insert" => job'[w].user # maintainer)
    BY <1>2, <2>2 DEF Job
  <2> QED
    BY <1>3, <2>1, <2>3
<1>12. CASE Insert(w)
  <2>1. PICK r \in Row :
          rows' = rows \cup {r} /\ r.user = j.user /\ job'[w].pc \in {"mail", "add"}
    BY <1>1, <1>12, Inserted
  <2>2. Users' = Users \cup {j.user}
    BY <2>1 DEF Users
  <2>3. j.user # maintainer /\ maintainer' = maintainer
    BY <1>3, <1>12 DEF Insert, At
  <2> QED
    BY <1>3, <2>1, <2>2, <2>3
<1>13. CASE DisownMaint(w)
  <2>1. CASE rows = {}
    BY <1>2, <1>13, <2>1 DEF DisownMaint, Users
  <2>2. CASE rows # {}
    <3>1. PICK first \in rows, f \in Rankings(Users) :
            \/ End(w) /\ rows' = rows /\ maintainer' = maintainer
            \/ /\ rows' = RemoveOne(f, first.user) /\ maintainer' = first.user
               /\ Become(w, [j EXCEPT !.pc = "mail", !.notifs = {first.user}])
      BY <1>13, <2>2 DEF DisownMaint
    <3> QED
      BY <1>2, <1>3, <1>5, <1>6, <1>7, <3>1
  <2> QED
    BY <2>1, <2>2
<1>14. CASE DisownCo(w)
  <2>1. PICK f \in Rankings(Users) :
          \/ End(w) /\ rows' = rows
          \/ /\ rows' = RemoveOne(f, j.user)
             /\ Become(w, [j EXCEPT !.pc = "mail", !.notifs = {j.user}])
    BY <1>14 DEF DisownCo
  <2>2. maintainer' = maintainer
    BY <1>14 DEF DisownCo
  <2> QED
    BY <1>2, <1>3, <1>5, <1>6, <1>7, <2>1, <2>2
<1>15. CASE DisownAll(w)
  <2>1. rows' = {} /\ job'[w].pc = "mail"
    BY <1>2, <1>15 DEF DisownAll
  <2> QED
    BY <2>1 DEF Users
<1>16. CASE UNCHANGED vars
  BY <1>3, <1>5, <1>16 DEF vars
<1>17. ~ Ssh(w) /\ ~ SshWrite(w) /\ \A u \in User : ~ Adopt(u)
  BY <1>3 DEF Ssh, Ready, SshWrite, At, Adopt
<1> QED
  BY <1>1, <1>8, <1>9, <1>10, <1>11, <1>12, <1>13, <1>14, <1>15, <1>16, <1>17 DEF Next

-----------------------------------------------------------------------------
(* The order of the priorities                                              *)

\* Where there is only the form, and removals keep the order: latest_priority
\* is behind everybody else's, rotate_comaintainers ranks as it was.
LEMMA SeniorityStep ==
    ASSUME UserAssumption, GhostAssumption, NEW w, Worker = {w}, "ssh" \notin Op,
           IAlone, Seniority, job[w].pc # "ssh", [Next]_vars
    PROVE  Seniority' /\ job'[w].pc # "ssh"
<1> DEFINE j == job[w]
<1>1. w \in Worker /\ (\A v \in Worker : v = w) /\ IType /\ OneRowPerUser
  BY DEF IAlone
<1>2. /\ j \in Job
      /\ \A i : Become(w, i) => job'[w] = i
      /\ End(w) => job'[w].pc = "idle"
      /\ Goto(w, "mail") => job'[w].pc = "mail"
  BY <1>1, AloneMoves
<1>3. \A r \in rows : r \in Row /\ r.n < nextRow
  BY <1>1 DEF IType, Table
<1>4. ASSUME NEW R \in SUBSET rows, NEW f \in Rankings(Users), rows' = Ranked(f, R)
      PROVE  Seniority'
  <2> SUFFICES ASSUME NEW s \in rows', NEW t \in rows', s.n < t.n PROVE s.Priority < t.Priority
    BY DEF Seniority
  <2>1. PICK r \in R : s.n = r.n /\ s.user = r.user /\ s.Priority = f[r.user]
    BY <1>1, <1>4, RankedOnce
  <2>2. PICK q \in R : t.n = q.n /\ t.user = q.user /\ t.Priority = f[q.user]
    BY <1>1, <1>4, RankedOnce
  <2>3. /\ r.user \in Users /\ Prio(r.user) = r.Priority
        /\ q.user \in Users /\ Prio(q.user) = q.Priority
    BY <1>1, RankedOnce
  <2>4. r.Priority < q.Priority
    BY <2>1, <2>2 DEF Seniority
  <2> QED
    BY <2>1, <2>2, <2>3, <2>4 DEF Rankings
<1>5. ASSUME rows' \subseteq rows PROVE Seniority'
  BY <1>5 DEF Seniority
<1>6. ASSUME NEW i, Become(w, [j EXCEPT !.pc = "mail", !.notifs = i])
      PROVE  job'[w].pc = "mail"
  BY <1>2, <1>6 DEF Job
<1>7. CASE Form(w) \/ RotateDeadlock(w) \/ Names(w) \/ Mail(w) \/ Disown(w)
  BY <1>2, <1>5, <1>7 DEF Form, RotateDeadlock, Names, Mail, Disown, IdleJob, Goto, Job
<1>8. CASE Remove(w)
  <2>1. rows' \subseteq rows /\ \E i : job'[w] = [j EXCEPT !.pc = "rotate", !.notifs = i]
    BY <1>2, <1>8 DEF Remove
  <2> QED
    BY <1>2, <1>5, <2>1 DEF Job
<1>9. CASE Rotate(w)
  <2>1. PICK f \in Rankings(Users) :
          \/ End(w) /\ rows' = rows
          \/ rows' = Ranked(f, rows) /\ job'[w] = [j EXCEPT !.pc = "names", !.notifs = {}]
    BY <1>2, <1>9 DEF Rotate
  <2>2. job'[w].pc \in {"idle", "names"}
    BY <1>2, <2>1 DEF Job
  <2> QED
    BY <1>4, <1>5, <2>1, <2>2
<1>10. CASE Add(w)
  <2>1. rows' = rows /\ \E u \in j.add :
          \/ job'[w] = [j EXCEPT !.pc = "insert", !.user = u, !.add = @ \ {u},
                                 !.prio = LatestPriority + 1]
          \/ job'[w] = [j EXCEPT !.pc = IF j.add = {u} THEN "mail" ELSE "add", !.add = @ \ {u}]
    BY <1>2, <1>10 DEF Add
  <2>2. job'[w].pc # "ssh"
    BY <1>2, <2>1 DEF Job
  <2> QED
    BY <1>5, <2>1, <2>2
<1>11. CASE Insert(w)
  <2>1. PICK r \in Row :
          /\ rows' = rows \cup {r} /\ r.n = nextRow /\ r.Priority = LatestPriority + 1
          /\ job'[w].pc \in {"mail", "add"}
    BY <1>1, <1>11, Inserted
  <2>2. LatestPriority \in Nat /\ \A s \in rows : s.Priority <= LatestPriority
    BY <1>1, LatestIsLargest, Numbers
  <2>3. nextRow \in Nat /\ \A s \in rows : s.n \in Nat /\ s.n < nextRow /\ s.Priority \in Nat
    BY <1>1, <1>3, Numbers DEF Row
  <2>4. ASSUME NEW s \in rows', NEW t \in rows', s.n < t.n PROVE s.Priority < t.Priority
    <3> HIDE DEF LatestPriority
    <3>1. CASE s \in rows /\ t \in rows
      BY <2>4, <3>1 DEF Seniority
    <3>2. CASE s \in rows /\ t = r
      BY <2>1, <2>2, <2>3, <3>2
    <3>3. CASE s = r
      BY <2>1, <2>3, <2>4, <3>3
    <3> QED
      BY <2>1, <3>1, <3>2, <3>3
  <2> QED
    BY <2>1, <2>4 DEF Seniority
<1>12. CASE DisownMaint(w)
  <2>1. CASE rows = {}
    BY <1>2, <1>5, <1>12, <2>1 DEF DisownMaint
  <2>2. CASE rows # {}
    <3>1. PICK first \in rows, f \in Rankings(Users) :
            \/ End(w) /\ rows' = rows
            \/ /\ rows' = RemoveOne(f, first.user)
               /\ Become(w, [j EXCEPT !.pc = "mail", !.notifs = {first.user}])
      BY <1>12, <2>2 DEF DisownMaint
    <3> QED
      BY <1>2, <1>4, <1>5, <1>6, <3>1 DEF RemoveOne
  <2> QED
    BY <2>1, <2>2
<1>13. CASE DisownCo(w)
  <2>1. PICK f \in Rankings(Users) :
          \/ End(w) /\ rows' = rows
          \/ /\ rows' = RemoveOne(f, j.user)
             /\ Become(w, [j EXCEPT !.pc = "mail", !.notifs = {j.user}])
    BY <1>13 DEF DisownCo
  <2> QED
    BY <1>2, <1>4, <1>5, <1>6, <2>1 DEF RemoveOne
<1>14. CASE DisownAll(w)
  BY <1>2, <1>5, <1>14 DEF DisownAll
<1>15. ASSUME rows' = rows, job' = job PROVE Seniority' /\ job'[w].pc # "ssh"
  BY <1>5, <1>15
<1>16. ~ Ssh(w) /\ ~ SshWrite(w)
  BY DEF Ssh, Ready, SshWrite, At
<1> QED
  BY <1>1, <1>7, <1>8, <1>9, <1>10, <1>11, <1>12, <1>13, <1>14, <1>15, <1>16 DEF Next, Adopt, vars

\* With one row each, there are as many rows as users.
LEMMA RowsAreUsers ==
    ASSUME UserAssumption, IType, OneRowPerUser
    PROVE  Cardinality(rows) = Cardinality(Users)
<1> DEFINE f == [r \in rows |-> r.user]
<1>1. f \in [rows -> Users]
  BY DEF Users
<1>2. \A r, q \in rows : f[r] = f[q] => r = q
  BY DEF OneRowPerUser
<1>3. f \in Injection(rows, Users)
  BY <1>1, <1>2, Fun_IsInj
<1>4. f \in Surjection(rows, Users)
  BY <1>1, Fun_IsSurj DEF Users
<1> QED
  BY <1>3, <1>4, FewUsers, FS_Injection

\* A numbering of n users with the numbers from 1 to n leaves none out.
LEMMA NumberingFills ==
    ASSUME NEW U, IsFiniteSet(U), NEW f \in [U -> 1..Cardinality(U)],
           \A u, v \in U : f[u] = f[v] => u = v
    PROVE  {f[u] : u \in U} = 1..Cardinality(U)
<1> DEFINE n == Cardinality(U)
<1>1. n \in Nat
  BY FS_CardinalityType
<1>2. IsFiniteSet(1..n) /\ Cardinality(1..n) = n
  <2>1. Cardinality(1..n) = n - 1 + 1 \/ n = 0
    BY <1>1, FS_Interval
  <2> QED
    BY <1>1, <2>1, FS_Interval, FS_EmptySet
<1>3. f \in Injection(U, 1..n)
  BY Fun_IsInj
<1>4. f \in Surjection(U, 1..n)
  BY <1>2, <1>3, FS_Injection
<1>5. \A k \in 1..n : \E u \in U : f[u] = k
  BY <1>4 DEF Surjection
<1> QED
  BY <1>5

\* rotate_comaintainers gives the priorities from one on, and add_comaintainer
\* takes the next one.
LEMMA FilledStep ==
    ASSUME UserAssumption, GhostAssumption, NEW w, Worker = {w}, {"disown", "deadlock"} \cap Op = {},
           IAlone, Filled(job[w], Priorities, Users), [Next]_vars
    PROVE  Filled(job'[w], Priorities', Users')
<1> DEFINE j == job[w]
<1>1. w \in Worker /\ (\A v \in Worker : v = w) /\ IType /\ OneRowPerUser
  BY DEF IAlone
<1>2. /\ j \in Job
      /\ \A i : Become(w, i) => job'[w] = i
      /\ End(w) => job'[w].pc = "idle"
  BY <1>1, AloneMoves
<1>3. /\ j.pc \notin {"disownMaint", "disownCo", "disownAll"}
      /\ j.pc # "rotate" => Priorities = 1..Cardinality(Users)
  BY DEF Filled
<1>4. ASSUME rows' = rows, j.pc # "rotate",
             job'[w].pc \notin {"disownMaint", "disownCo", "disownAll"}
      PROVE  Filled(job'[w], Priorities', Users')
  BY <1>3, <1>4, RowsStay DEF Filled, Priorities
<1>5. CASE Form(w) \/ Names(w) \/ Mail(w) \/ Ssh(w)
  BY <1>2, <1>4, <1>5 DEF Form, Names, Mail, Ssh, IdleJob, Goto, Job, At, Ready
<1>6. CASE Remove(w)
  <2>1. \E i : job'[w] = [j EXCEPT !.pc = "rotate", !.notifs = i]
    BY <1>2, <1>6 DEF Remove
  <2> QED
    BY <1>2, <2>1 DEF Job, Filled
<1>7. CASE Rotate(w)
  <2>1. PICK f \in Rankings(Users) :
          rows' = Ranked(f, rows) /\ job'[w] = [j EXCEPT !.pc = "names", !.notifs = {}]
    BY <1>1, <1>2, <1>7, NothingStale DEF Rotate
  <2>2. job'[w].pc = "names"
    BY <1>2, <2>1 DEF Job
  <2>3. Users' = Users
    BY <1>1, <2>1, RankedUsers DEF Users
  <2>4. \A s \in rows' : \E r \in rows : s.Priority = f[r.user]
    BY <1>1, <2>1, RankedOnce
  <2>5. \A r \in rows : \E s \in rows' : s.Priority = f[r.user]
    BY <1>1, <2>1, RankedOnce
  <2>6. Priorities' = {f[u] : u \in Users}
    BY <2>4, <2>5 DEF Priorities, Users
  <2>7. {f[u] : u \in Users} = 1..Cardinality(Users)
    BY <1>1, FewUsers, NumberingFills DEF Rankings
  <2> QED
    BY <2>2, <2>3, <2>6, <2>7 DEF Filled
<1>8. CASE Add(w)
  <2>1. rows' = rows /\ j.pc = "add" /\ \E u \in j.add :
          \/ job'[w] = [j EXCEPT !.pc = "insert", !.user = u, !.add = @ \ {u},
                                 !.prio = LatestPriority + 1]
          \/ job'[w] = [j EXCEPT !.pc = IF j.add = {u} THEN "mail" ELSE "add", !.add = @ \ {u}]
    BY <1>2, <1>8 DEF Add, At
  <2>2. job'[w].pc \in {"insert", "mail", "add"}
    BY <1>2, <2>1 DEF Job
  <2> QED
    BY <1>4, <2>1, <2>2
<1>9. CASE Insert(w)
  <2> DEFINE n == Cardinality(Users)
  <2>1. PICK r \in Row :
          /\ rows' = rows \cup {r} /\ r.Priority = LatestPriority + 1
          /\ r.user \in User \ Users /\ job'[w].pc \in {"mail", "add"}
    BY <1>1, <1>9, Inserted
  <2>2. Priorities = 1..n
    BY <1>3, <1>9 DEF Insert, At
  <2>3. n \in Nat /\ IsFiniteSet(Users)
    BY <1>1, FewUsers
  <2>4. LatestPriority = n
    <3>1. /\ LatestPriority \in Nat
          /\ \A p \in Priorities : p <= LatestPriority
          /\ Priorities # {} => LatestPriority \in Priorities
      BY <1>1, LatestIsLargest, Numbers DEF Priorities
    <3>2. Priorities = {} => rows = {}
      BY DEF Priorities
    <3>3. rows = {} => LatestPriority = 0
      BY DEF LatestPriority
    <3> HIDE DEF LatestPriority, n
    <3> QED
      BY <2>2, <2>3, <3>1, <3>2, <3>3
  <2>5. Users' = Users \cup {r.user}
    BY <2>1 DEF Users
  <2>6. Cardinality(Users') = n + 1
    BY <2>1, <2>3, <2>5, FS_AddElement
  <2>7. Priorities' = Priorities \cup {n + 1}
    BY <2>1, <2>4 DEF Priorities
  <2>8. Priorities' = 1..n + 1
    <3> HIDE DEF n
    <3> QED
      BY <2>2, <2>3, <2>7
  <2> QED
    BY <2>1, <2>6, <2>8 DEF Filled
<1>10. CASE SshWrite(w)
  <2> DEFINE new == j.add \cup j.notifs
  <2>1. Users' = new /\ job'[w].pc = "idle" /\ new \in SUBSET User
    BY <1>1, <1>10, Replaced
  <2>2. PICK f \in [new -> 1..Cardinality(new)] :
          /\ \A u, v \in new : f[u] = f[v] => u = v
          /\ \A s \in rows' : s.Priority = f[s.user]
    BY <1>1, <1>10, Replaced
  <2>3. Users' = {s.user : s \in rows'}
    BY DEF Users
  <2>4. Priorities' = {f[u] : u \in new}
    BY <2>1, <2>2, <2>3 DEF Priorities
  <2>5. IsFiniteSet(new)
    BY <2>1, UsersAreFinite
  <2> HIDE DEF new
  <2>6. {f[u] : u \in new} = 1..Cardinality(new)
    BY <2>2, <2>5, NumberingFills
  <2> QED
    BY <2>1, <2>4, <2>6 DEF Filled
<1>11. ASSUME rows' = rows, job' = job PROVE Filled(job'[w], Priorities', Users')
  BY <1>11, RowsStay DEF Filled, Priorities
<1>12. ~ RotateDeadlock(w) /\ ~ Disown(w) /\ ~ DisownMaint(w) /\ ~ DisownCo(w) /\ ~ DisownAll(w)
  BY <1>3 DEF RotateDeadlock, Disown, Ready, DisownMaint, DisownCo, DisownAll, At
<1> QED
  BY <1>1, <1>5, <1>6, <1>7, <1>8, <1>9, <1>10, <1>11, <1>12 DEF Next, Adopt, vars

-----------------------------------------------------------------------------
(* The theorems for one worker.  The database has no constraint that would *)
(* make them true for two: TLC finds counterexamples to each of them.      *)

\* No user is a co-maintainer twice, whatever is done to the table: a user who
\* has a row is never inserted (add_comaintainers, set_comaintainers).
THEOREM EachOnce ==
    ASSUME UserAssumption, GhostAssumption, NEW w, Worker = {w}
    PROVE  Spec => []OneRowPerUser
<1>1. Init => IAlone
  BY AloneInit
<1>2. IAlone /\ [Next]_vars => IAlone'
  BY AloneStep
<1>3. IAlone => OneRowPerUser
  BY DEF IAlone
<1> QED
  BY <1>1, <1>2, <1>3, PTL DEF Spec

\* Whoever is removed by a form, by disowning their own part in the base or by
\* becoming its maintainer gets a mail about it as soon as the handler has ended.
\* Two things take co-maintainers away without one: retry_deadlock, if it repeats
\* a removal that was made already, and a Package Maintainer who disowns the base
\* of others (_retry_disown deletes all rows).
THEOREM TheRemovedAreTold ==
    ASSUME UserAssumption, GhostAssumption, NEW w, Worker = {w},
           {"deadlock", "elevated"} \cap Op = {}
    PROVE  Spec => []RemovedAreTold
<1> DEFINE Inv == IAlone /\ Telling(job[w], untold) /\ job[w].pc # "disownAll"
<1>1. Init => Inv
  BY AloneInit DEF Init, Telling, IdleJob
<1>2. Inv /\ [Next]_vars => Inv'
  BY AloneStep, TellingStep, OwnPartStep
<1>3. Inv => RemovedAreTold
  BY DEF Telling, RemovedAreTold
<1> QED
  BY <1>1, <1>2, <1>3, PTL DEF Spec

\* The maintainer is not also a co-maintainer: add_comaintainer has compared,
\* and who becomes the maintainer by succession leaves the table.
\* set_comaintainers does not compare, and adopting does not look.
THEOREM MaintainerStaysApart ==
    ASSUME UserAssumption, GhostAssumption, NEW w, Worker = {w}, {"ssh", "adopt"} \cap Op = {}
    PROVE  Spec => []MaintainerIsNoComaintainer
<1> DEFINE Inv == IAlone /\ MaintainerIsNoComaintainer /\ Apart(job[w], maintainer)
<1>1. Init => Inv
  BY AloneInit DEF Init, Apart, MaintainerIsNoComaintainer, IdleJob
<1>2. Inv /\ [Next]_vars => Inv'
  BY AloneStep, ApartStep
<1> QED
  BY <1>1, <1>2, PTL DEF Spec

\* The line of succession: whoever became a co-maintainer earlier is before in
\* line, through forms, removals, successions and deadlocks (latest_priority,
\* rotate_comaintainers).  set_comaintainers numbers in the order of a set.
THEOREM LineIsBySeniority ==
    ASSUME UserAssumption, GhostAssumption, NEW w, Worker = {w}, "ssh" \notin Op
    PROVE  Spec => []Seniority
<1> DEFINE Inv == IAlone /\ Seniority /\ job[w].pc # "ssh"
<1>1. Init => Inv
  BY AloneInit DEF Init, Seniority, IdleJob
<1>2. Inv /\ [Next]_vars => Inv'
  BY AloneStep, SeniorityStep
<1> QED
  BY <1>1, <1>2, PTL DEF Spec

\* The priorities are 1 to n, but for a removal that is about to rotate them
\* (rotate_comaintainers, latest_priority, set_comaintainers).  Disowning leaves
\* a gap, and so does a removal that retry_deadlock repeats.
THEOREM PrioritiesAreSequential ==
    ASSUME UserAssumption, GhostAssumption, NEW w, Worker = {w}, {"disown", "deadlock"} \cap Op = {}
    PROVE  Spec => []SequentialPriorities
<1> DEFINE Inv == IAlone /\ Filled(job[w], Priorities, Users)
<1>1. Init => Inv
  <2> SUFFICES ASSUME Init PROVE Inv
    OBVIOUS
  <2>1. Users = {} /\ Priorities = {} /\ job[w].pc = "idle"
    BY DEF Init, Users, Priorities, IdleJob
  <2>2. 1..Cardinality({}) = {}
    BY FS_EmptySet
  <2> QED
    BY <2>1, <2>2, AloneInit DEF Filled
<1>2. Inv /\ [Next]_vars => Inv'
  BY AloneStep, FilledStep
<1>3. Inv => SequentialPriorities
  BY RowsAreUsers DEF IAlone, Filled, Priorities, SequentialPriorities, At
<1> QED
  BY <1>1, <1>2, <1>3, PTL DEF Spec

-----------------------------------------------------------------------------
(* BulkActions *)

\* The forms: every base that is selected is in one of the four sets, and a
\* form that was refused has none left.
Owners == [Base -> User \cup {NoUser}]
Cols == [maintainer : Owners, flagger : Owners]

BulkForm == [pc : {"idle", "visit", "write"}, user : User \cup {NoUser},
             action : Actions \cup {"none"}, base : Base \cup {NoUser},
             selected : SUBSET Base, todo : SUBSET Base, seen : SUBSET Cols,
             done : SUBSET Base, missed : SUBSET Base, errors : SUBSET Base,
             answer : {"none", "done", "refused", "failed"}]

Alike(S) == \A c, d \in S : c = d

FormOK(j) ==
    /\ j \in BulkForm /\ Alike(j.seen)
    /\ j.selected = j.todo \cup j.done \cup j.missed \cup j.errors
    /\ j.pc = "write" => j.base \in j.todo /\ j.seen # {}
    /\ j.pc # "idle" => j.user \in User /\ j.action \in Actions /\ j.answer = "none"
    /\ j.answer = "refused" => j.todo = {}

FormsTyped == form \in [Worker -> BulkForm] /\ \A w \in Worker : FormOK(form[w])

\* What a form goes on with.
Submitted(u, a, S, c) == [Bulk!IdleJob EXCEPT !.pc = "visit", !.user = u, !.action = a,
                                         !.selected = S, !.todo = S, !.seen = {c}]
Refused(u, a) == [Bulk!IdleJob EXCEPT !.user = u, !.action = a, !.answer = "refused"]
Finished(j) == [j EXCEPT !.pc = "idle", !.seen = {},
                         !.answer = IF j.errors = {} THEN "done" ELSE "refused"]
Failed(j) == [j EXCEPT !.pc = "idle", !.seen = {}, !.answer = "failed"]
WithDone(j, T, D) == [j EXCEPT !.todo = T, !.done = D]
WithMissed(j, T, D) == [j EXCEPT !.todo = T, !.missed = D]
WithErrors(j, T, D) == [j EXCEPT !.todo = T, !.errors = D]
SkipsDone(j, b) == WithDone(j, j.todo \ {b}, j.done \cup {b})
SkipsMissed(j, b) == WithMissed(j, j.todo \ {b}, j.missed \cup {b})
SkipsErrors(j, b) == WithErrors(j, j.todo \ {b}, j.errors \cup {b})
Writes(j, b, c) == [j EXCEPT !.pc = "write", !.base = b, !.seen = {c}]
ThenDone(j, T, D) == [j EXCEPT !.pc = "visit", !.base = NoUser, !.todo = T, !.seen = {},
                               !.done = D]
ThenMissed(j, T, D) == [j EXCEPT !.pc = "visit", !.base = NoUser, !.todo = T, !.seen = {},
                                 !.missed = D]
Does(j) == ThenDone(j, j.todo \ {j.base}, j.done \cup {j.base})
Misses(j) == ThenMissed(j, j.todo \ {j.base}, j.missed \cup {j.base})

LEMMA IdleFormOK == FormOK(Bulk!IdleJob)
  BY DEF FormOK, BulkForm, Bulk!IdleJob, Alike

Bases == SUBSET Base

LEMMA SubmittedOK ==
  ASSUME NEW u \in User, NEW a \in Actions, NEW S \in Bases, NEW c \in Cols,
         NEW q, q = Submitted(u, a, S, c)
  PROVE  /\ FormOK(q) /\ q.pc = "visit" /\ q.user = u /\ q.action = a /\ q.todo = S
         /\ q.seen = {c} /\ q.missed = {} /\ q.done = {} /\ q.answer = "none"
  BY DEF FormOK, BulkForm, Bulk!IdleJob, Alike, Submitted, Bases

LEMMA RefusedOK ==
  ASSUME NEW u \in User, NEW a \in Actions
  PROVE  LET q == Refused(u, a) IN
         /\ FormOK(q) /\ q.pc = "idle" /\ q.action = a
         /\ q.missed = {} /\ q.done = {} /\ q.answer = "refused"
  BY DEF FormOK, BulkForm, Bulk!IdleJob, Alike, Refused

LEMMA EndedOK ==
  ASSUME NEW j, FormOK(j)
  PROVE  /\ LET q == Finished(j) IN
            /\ j.todo = {} => FormOK(q)
            /\ q.pc = "idle" /\ q.action = j.action /\ q.todo = j.todo /\ q.missed = j.missed
            /\ q.done = j.done /\ q.answer # "failed"
         /\ LET q == Failed(j) IN
            /\ FormOK(q) /\ q.pc = "idle" /\ q.action = j.action /\ q.todo = j.todo
            /\ q.missed = j.missed /\ q.done = j.done /\ q.answer = "failed"
  BY DEF FormOK, BulkForm, Alike, Finished, Failed

\* q is j without the base b to do.
Without(q, j, b) ==
    /\ FormOK(q) /\ q.pc = "visit" /\ q.user = j.user /\ q.action = j.action
    /\ q.todo = j.todo \ {b} /\ q.seen \in {j.seen, {}} /\ q.answer = "none"

\* q is j, with other places to go on, bases to do, and bases done.
Like(q, j, pc, T, S, D, M, E) ==
    /\ q \in BulkForm /\ q.pc = pc /\ q.user = j.user /\ q.action = j.action
    /\ q.selected = j.selected /\ q.todo = T /\ q.seen = S
    /\ q.done = D /\ q.missed = M /\ q.errors = E /\ q.answer = j.answer

LEMMA SkipFields ==
  ASSUME NEW j \in BulkForm, NEW T \in Bases, NEW D \in Bases
  PROVE  /\ Like(WithDone(j, T, D), j, j.pc, T, j.seen, D, j.missed, j.errors)
         /\ Like(WithMissed(j, T, D), j, j.pc, T, j.seen, j.done, D, j.errors)
         /\ Like(WithErrors(j, T, D), j, j.pc, T, j.seen, j.done, j.missed, D)
  BY DEF BulkForm, Like, Bases, WithDone, WithMissed, WithErrors

LEMMA CommitFields ==
  ASSUME NEW j \in BulkForm, NEW T \in Bases, NEW D \in Bases
  PROVE  /\ Like(ThenDone(j, T, D), j, "visit", T, {}, D, j.missed, j.errors)
         /\ Like(ThenMissed(j, T, D), j, "visit", T, {}, j.done, D, j.errors)
  BY DEF BulkForm, Like, Bases, ThenDone, ThenMissed

\* A form that has a base less to do, because it is done, missed or wrong.
LEMMA LikeOK ==
  ASSUME NEW j, FormOK(j), j.pc # "idle", NEW b \in j.todo, NEW q, NEW S \in {j.seen, {}},
         \/ Like(q, j, "visit", j.todo \ {b}, S, j.done \cup {b}, j.missed, j.errors)
         \/ Like(q, j, "visit", j.todo \ {b}, S, j.done, j.missed \cup {b}, j.errors)
         \/ Like(q, j, "visit", j.todo \ {b}, S, j.done, j.missed, j.errors \cup {b})
  PROVE  Without(q, j, b)
<1>1. /\ q \in BulkForm /\ q.pc = "visit" /\ q.user = j.user /\ q.action = j.action
      /\ q.selected = j.selected /\ q.todo = j.todo \ {b} /\ q.seen = S /\ q.answer = j.answer
  BY DEF Like
<1>2. /\ Alike(S) /\ j.user \in User /\ j.action \in Actions /\ j.answer = "none"
  BY DEF FormOK, Alike
<1>3. j.selected = j.todo \cup j.done \cup j.missed \cup j.errors
  BY DEF FormOK
<1>4. q.selected = q.todo \cup q.done \cup q.missed \cup q.errors
  BY <1>1, <1>3 DEF Like
<1>5. FormOK(q)
  BY <1>1, <1>2, <1>4 DEF FormOK
<1> QED
  BY <1>1, <1>2, <1>5 DEF Without

LEMMA BasesOfForm ==
  ASSUME NEW j, FormOK(j), NEW b \in j.todo
  PROVE  /\ j \in BulkForm /\ j.todo \ {b} \in Bases /\ j.done \cup {b} \in Bases
         /\ j.missed \cup {b} \in Bases /\ j.errors \cup {b} \in Bases
  BY DEF FormOK, BulkForm, Bases

LEMMA SkipsOK ==
  ASSUME NEW j, FormOK(j), j.pc = "visit", NEW b \in j.todo
  PROVE  /\ Without(SkipsDone(j, b), j, b)
         /\ SkipsDone(j, b).missed = j.missed /\ SkipsDone(j, b).done = j.done \cup {b}
         /\ Without(SkipsMissed(j, b), j, b) /\ SkipsMissed(j, b).done = j.done
         /\ Without(SkipsErrors(j, b), j, b)
         /\ SkipsErrors(j, b).missed = j.missed /\ SkipsErrors(j, b).done = j.done
<1> DEFINE T == j.todo \ {b}
<1>1. Like(SkipsDone(j, b), j, "visit", T, j.seen, j.done \cup {b}, j.missed, j.errors)
  BY BasesOfForm, SkipFields, Zenon DEF SkipsDone
<1>2. Like(SkipsMissed(j, b), j, "visit", T, j.seen, j.done, j.missed \cup {b}, j.errors)
  BY BasesOfForm, SkipFields, Zenon DEF SkipsMissed
<1>3. Like(SkipsErrors(j, b), j, "visit", T, j.seen, j.done, j.missed, j.errors \cup {b})
  BY BasesOfForm, SkipFields, Zenon DEF SkipsErrors
<1>4. j.seen \in {j.seen, {}}
  OBVIOUS
<1>5. /\ Without(SkipsDone(j, b), j, b) /\ Without(SkipsMissed(j, b), j, b)
      /\ Without(SkipsErrors(j, b), j, b)
  BY <1>1, <1>2, <1>3, <1>4, LikeOK, Zenon
<1>6. /\ SkipsDone(j, b).missed = j.missed /\ SkipsDone(j, b).done = j.done \cup {b}
      /\ SkipsMissed(j, b).done = j.done
      /\ SkipsErrors(j, b).missed = j.missed /\ SkipsErrors(j, b).done = j.done
  BY <1>1, <1>2, <1>3, Zenon DEF Like
<1> QED
  BY <1>5, <1>6

LEMMA WritesOK ==
  ASSUME NEW j, FormOK(j), j.pc = "visit", NEW b \in j.todo, NEW c \in Cols,
         NEW q, q = Writes(j, b, c)
  PROVE  /\ FormOK(q) /\ q.pc = "write" /\ q.user = j.user /\ q.action = j.action
         /\ q.base = b /\ q.todo = j.todo /\ q.seen = {c} /\ q.answer = "none"
         /\ q.missed = j.missed /\ q.done = j.done
  BY DEF FormOK, BulkForm, Alike, Writes

LEMMA DoesOK ==
  ASSUME NEW j, FormOK(j), j.pc = "write"
  PROVE  /\ Without(Does(j), j, j.base) /\ Does(j).seen = {}
         /\ Does(j).missed = j.missed /\ Does(j).done = j.done \cup {j.base}
         /\ Without(Misses(j), j, j.base) /\ Misses(j).seen = {} /\ Misses(j).done = j.done
<1> DEFINE T == j.todo \ {j.base}
<1>0. j.base \in j.todo
  BY DEF FormOK
<1>1. Like(Does(j), j, "visit", T, {}, j.done \cup {j.base}, j.missed, j.errors)
  BY <1>0, BasesOfForm, CommitFields, Zenon DEF Does
<1>2. Like(Misses(j), j, "visit", T, {}, j.done, j.missed \cup {j.base}, j.errors)
  BY <1>0, BasesOfForm, CommitFields, Zenon DEF Misses
<1>3. {} \in {j.seen, {}} /\ j.pc # "idle"
  OBVIOUS
<1>4. Without(Does(j), j, j.base) /\ Without(Misses(j), j, j.base)
  BY <1>0, <1>1, <1>2, <1>3, LikeOK, Zenon
<1>5. /\ Does(j).seen = {} /\ Does(j).missed = j.missed /\ Does(j).done = j.done \cup {j.base}
      /\ Misses(j).seen = {} /\ Misses(j).done = j.done
  BY <1>1, <1>2, Zenon DEF Like
<1> QED
  BY <1>4, <1>5

-----------------------------------------------------------------------------
\* A worker goes on with q.
LEMMA FormBecomes ==
  ASSUME FormsTyped, NEW w \in Worker, NEW q, FormOK(q), form' = [form EXCEPT ![w] = q]
  PROVE  FormsTyped' /\ form'[w] = q /\ \A v \in Worker : v # w => form'[v] = form[v]
  BY DEF FormsTyped, FormOK

LEMMA SkipBecomes ==
  ASSUME FormsTyped, NEW w \in Worker, NEW b
  PROVE  /\ Bulk!Skip(w, b, "done") => form' = [form EXCEPT ![w] = SkipsDone(form[w], b)]
         /\ Bulk!Skip(w, b, "missed") => form' = [form EXCEPT ![w] = SkipsMissed(form[w], b)]
         /\ Bulk!Skip(w, b, "errors") => form' = [form EXCEPT ![w] = SkipsErrors(form[w], b)]
<1>1. form[w] \in BulkForm
  BY DEF FormsTyped
<1> QED
  BY <1>1
     DEF Bulk!Skip, SkipsDone, SkipsMissed, SkipsErrors, WithDone, WithMissed, WithErrors,
         FormsTyped, BulkForm

LEMMA CommitBecomes ==
  ASSUME FormsTyped, NEW w \in Worker
  PROVE  /\ Bulk!Commit(w, "done") => form' = [form EXCEPT ![w] = Does(form[w])]
         /\ Bulk!Commit(w, "missed") => form' = [form EXCEPT ![w] = Misses(form[w])]
<1>1. form[w] \in BulkForm /\ form \in [Worker -> BulkForm]
  BY DEF FormsTyped
<1>2. ASSUME Bulk!Commit(w, "done") PROVE form' = [form EXCEPT ![w] = Does(form[w])]
  BY <1>1, <1>2 DEF Bulk!Commit, Does, ThenDone, BulkForm
<1>3. ASSUME Bulk!Commit(w, "missed") PROVE form' = [form EXCEPT ![w] = Misses(form[w])]
  BY <1>1, <1>3 DEF Bulk!Commit, Misses, ThenMissed, BulkForm
<1> QED
  BY <1>2, <1>3

-----------------------------------------------------------------------------
\* The tables.
DataTyped ==
    /\ bases \subseteq Base /\ due \subseteq bases
    /\ maintainer \in Owners /\ flagger \in Owners
    /\ watches \subseteq User \X bases /\ asks \subseteq User \X bases

\* What a form for deleting has done is deleted, and nothing else is.
DeletesOK == \A w \in Worker : form[w].action = "delete" => form[w].done \subseteq deleted

Counted == forms \in 0..MaxForm /\ others \in 0..MaxOther

BulkInv ==
    /\ DataTyped /\ FormsTyped /\ Counted
    /\ told \subseteq deleted /\ deleted \subseteq Base \ bases
    /\ DeletesOK

LEMMA ColumnsTyped ==
  ASSUME DataTyped, FormsTyped, NEW w \in Worker
  PROVE  /\ Bulk!Columns(w) \in Cols
         /\ form[w].seen # {} => Bulk!Columns(w) \in form[w].seen
              /\ form[w].seen = {Bulk!Columns(w)}
<1>1. [maintainer |-> maintainer, flagger |-> flagger] \in Cols
  BY DEF DataTyped, Cols
<1>2. form[w].seen \subseteq Cols /\ Alike(form[w].seen)
  BY DEF FormsTyped, FormOK, BulkForm
<1>3. ASSUME form[w].seen # {}
      PROVE  Bulk!Columns(w) \in form[w].seen /\ form[w].seen = {Bulk!Columns(w)}
  <2>1. Bulk!Columns(w) = CHOOSE c \in form[w].seen : TRUE
    BY <1>3 DEF Bulk!Columns
  <2>2. Bulk!Columns(w) \in form[w].seen
    BY <1>3, <2>1
  <2> QED
    BY <1>2, <2>2 DEF Alike
<1>4. ASSUME form[w].seen = {} PROVE Bulk!Columns(w) \in Cols
  BY <1>1, <1>4 DEF Bulk!Columns
<1> QED
  BY <1>2, <1>3, <1>4

\* A form ends with an error that no handler catches.
LEMMA FailBecomes ==
  ASSUME FormsTyped, NEW w \in Worker, Bulk!Fail(w)
  PROVE  form' = [form EXCEPT ![w] = Failed(form[w])]
<1>1. form[w] \in BulkForm
  BY DEF FormsTyped
<1> QED
  BY <1>1 DEF Bulk!Fail, Failed, BulkForm

LEMMA FinishBecomes ==
  ASSUME FormsTyped, NEW w \in Worker, Bulk!Finish(w)
  PROVE  form' = [form EXCEPT ![w] = Finished(form[w])]
<1>1. form[w] \in BulkForm
  BY DEF FormsTyped
<1> QED
  BY <1>1 DEF Bulk!Finish, Finished, BulkForm

\* A visit ends the form, skips the base, or is going to change it.
LEMMA VisitBecomes ==
  ASSUME DataTyped, FormsTyped, NEW w \in Worker, NEW b \in Base, Bulk!Visit(w, b)
  PROVE  LET j == form[w] IN
         /\ j.pc = "visit" /\ b \in j.todo
         /\ UNCHANGED <<Bulk!data, deleted, told, forms, others>>
         /\ \/ form' = [form EXCEPT ![w] = Failed(j)] /\ b \notin bases
            \/ form' = [form EXCEPT ![w] = SkipsDone(j, b)] /\ ~ Bulk!Applies(w, b)
            \/ /\ form' = [form EXCEPT ![w] = SkipsMissed(j, b)]
               /\ ~ Bulk!Applies(w, b) /\ ~ Bulk!Goal(j.user, j.action, b)
            \/ form' = [form EXCEPT ![w] = SkipsErrors(j, b)] /\ j.action = "disown"
            \/ form' = [form EXCEPT ![w] = Writes(j, b, Bulk!Columns(w))] /\ Bulk!Applies(w, b)
<1> DEFINE j == form[w]
<1>1. j.pc = "visit" /\ b \in j.todo /\ UNCHANGED <<Bulk!data, deleted, told, forms, others>>
  BY DEF Bulk!Visit
<1>2. CASE j.seen = {} /\ b \notin bases
  BY <1>1, <1>2, FailBecomes DEF Bulk!Visit
<1>3. CASE ~ (j.seen = {} /\ b \notin bases) /\ ~ Bulk!Applies(w, b)
  <2>1. Bulk!Skip(w, b, IF Bulk!Goal(j.user, j.action, b) THEN "done" ELSE "missed")
    BY <1>3 DEF Bulk!Visit
  <2>2. CASE Bulk!Goal(j.user, j.action, b)
    <3>1. Bulk!Skip(w, b, "done")
      BY <2>1, <2>2
    <3> QED
      BY <1>1, <1>3, <3>1, SkipBecomes
  <2>3. CASE ~ Bulk!Goal(j.user, j.action, b)
    <3>1. Bulk!Skip(w, b, "missed")
      BY <2>1, <2>3
    <3> QED
      BY <1>1, <1>3, <2>3, <3>1, SkipBecomes
  <2> QED
    BY <2>2, <2>3
<1>4. CASE ~ (j.seen = {} /\ b \notin bases) /\ Bulk!Applies(w, b) /\ Bulk!Undue(w, b)
  <2>1. Bulk!Skip(w, b, "errors")
    BY <1>4 DEF Bulk!Visit
  <2>2. j.action = "disown"
    BY <1>4 DEF Bulk!Undue
  <2> QED
    BY <1>1, <2>1, <2>2, SkipBecomes
<1>5. CASE ~ (j.seen = {} /\ b \notin bases) /\ Bulk!Applies(w, b) /\ ~ Bulk!Undue(w, b)
  BY <1>1, <1>5 DEF Bulk!Visit, Writes
<1> QED
  BY <1>2, <1>3, <1>4, <1>5

\* Nothing but what is said of the base b changes.
Local(b) ==
    /\ bases' \subseteq bases
    /\ \A c \in Base : c # b =>
         /\ c \in bases' <=> c \in bases
         /\ maintainer'[c] = maintainer[c] /\ flagger'[c] = flagger[c]
         /\ \A u \in User : <<u, c>> \in watches' <=> <<u, c>> \in watches

\* A column that is written, or has the value.
LEMMA SetTyped ==
  ASSUME NEW k, NEW n \in User \cup {NoUser}, NEW v \in User \cup {NoUser}
  PROVE  Bulk!Set(k, n, v) \in User \cup {NoUser} /\ (k = n => Bulk!Set(k, n, v) = v)
  BY DEF Bulk!Set

LEMMA GoneTyped ==
  ASSUME DataTyped, NEW b \in Base, Bulk!Gone(b)
  PROVE  DataTyped' /\ Local(b) /\ bases' = bases \ {b}
<1>1. bases' \subseteq Base /\ due' \subseteq bases' /\ bases' = bases \ {b}
  BY DEF DataTyped, Bulk!Gone
<1>2. maintainer' \in Owners /\ flagger' \in Owners
  BY DEF DataTyped, Bulk!Gone, Owners
<1>3. \A p \in User \X bases : p[2] # b => p \in User \X bases'
  BY <1>1
<1>4. watches' \subseteq User \X bases' /\ asks' \subseteq User \X bases'
  BY <1>3 DEF DataTyped, Bulk!Gone
<1>5. Local(b)
  BY <1>1 DEF DataTyped, Bulk!Gone, Local, Owners
<1> QED
  BY <1>1, <1>2, <1>4, <1>5 DEF DataTyped

LEMMA UnflagBecomes ==
  ASSUME DataTyped, FormsTyped, NEW w \in Worker, NEW b \in Base, Bulk!Unflag(w, b)
  PROVE  /\ DataTyped' /\ Local(b) /\ bases' = bases
         /\ \/ form' = [form EXCEPT ![w] = Does(form[w])]
            \/ /\ form' = [form EXCEPT ![w] = Misses(form[w])]
               /\ Bulk!Columns(w).flagger # flagger
<1>1. /\ flagger' = [flagger EXCEPT ![b] = Bulk!Set(Bulk!Columns(w).flagger[b], flagger[b], NoUser)]
      /\ UNCHANGED <<bases, maintainer, watches, asks, due>>
  BY DEF Bulk!Unflag
<1>2. flagger[b] \in User \cup {NoUser} /\ flagger \in [Base -> User \cup {NoUser}]
  BY DEF DataTyped, Owners
<1>3. Bulk!Set(Bulk!Columns(w).flagger[b], flagger[b], NoUser) \in User \cup {NoUser}
  BY <1>2, SetTyped
<1>4. flagger' \in Owners /\ flagger'[b] = Bulk!Set(Bulk!Columns(w).flagger[b], flagger[b], NoUser)
  BY <1>1, <1>2, <1>3 DEF Owners
<1>5. DataTyped' /\ Local(b) /\ bases' = bases
  BY <1>1, <1>2, <1>4 DEF DataTyped, Local
<1>6. CASE flagger'[b] = NoUser
  <2>1. Bulk!Commit(w, "done")
    BY <1>6 DEF Bulk!Unflag
  <2> QED
    BY <1>5, <2>1, CommitBecomes
<1>7. CASE flagger'[b] # NoUser
  <2>1. Bulk!Commit(w, "missed")
    BY <1>7 DEF Bulk!Unflag
  <2>2. Bulk!Columns(w).flagger # flagger
    BY <1>2, <1>4, <1>7, SetTyped
  <2> QED
    BY <1>5, <2>1, <2>2, CommitBecomes
<1> QED
  BY <1>6, <1>7

LEMMA NotifyBecomes ==
  ASSUME DataTyped, FormsTyped, NEW w \in Worker, NEW b \in bases, form[w].user \in User,
         Bulk!Notify(w, b)
  PROVE  /\ DataTyped' /\ Local(b) /\ bases' = bases
         /\ form' = [form EXCEPT ![w] = Does(form[w])]
<1>1. Bulk!Commit(w, "done") /\ UNCHANGED <<bases, maintainer, flagger, asks, due>>
  BY DEF Bulk!Notify
<1>2. watches' = watches \cup {<<form[w].user, b>>}
  BY DEF Bulk!Notify
<1>3. watches' \subseteq User \X bases
  BY <1>2 DEF DataTyped
<1>4. DataTyped'
  BY <1>1, <1>3 DEF DataTyped
<1>5. Local(b)
  BY <1>1, <1>2 DEF Local
<1> QED
  BY <1>1, <1>4, <1>5, CommitBecomes

LEMMA UnnotifyBecomes ==
  ASSUME DataTyped, FormsTyped, NEW w \in Worker, NEW b \in Base, Bulk!Unnotify(w, b)
  PROVE  /\ DataTyped' /\ Local(b) /\ bases' = bases
         /\ form' = [form EXCEPT ![w] = Does(form[w])]
<1>1. Bulk!Commit(w, "done") /\ UNCHANGED <<bases, maintainer, flagger, asks, due>>
  BY DEF Bulk!Unnotify
<1>2. watches' = watches \ {<<form[w].user, b>>}
  BY DEF Bulk!Unnotify
<1>3. watches' \subseteq User \X bases
  BY <1>2 DEF DataTyped
<1>4. DataTyped'
  BY <1>1, <1>3 DEF DataTyped
<1>5. Local(b)
  BY <1>1, <1>2 DEF Local
<1> QED
  BY <1>1, <1>4, <1>5, CommitBecomes

LEMMA AdoptBecomes ==
  ASSUME DataTyped, FormsTyped, NEW w \in Worker, NEW b \in bases, form[w].user \in User,
         Bulk!Adopt(w, b)
  PROVE  /\ DataTyped' /\ Local(b) /\ bases' = bases
         /\ \/ form' = [form EXCEPT ![w] = Does(form[w])]
            \/ /\ form' = [form EXCEPT ![w] = Misses(form[w])]
               /\ Bulk!Columns(w).maintainer # maintainer
<1> DEFINE u == form[w].user
<1>1. UNCHANGED <<bases, flagger, watches, due>> /\ b \in Base
  BY DEF Bulk!Adopt, DataTyped
<1>2. maintainer[b] \in User \cup {NoUser} /\ maintainer \in [Base -> User \cup {NoUser}]
  BY <1>1 DEF DataTyped, Owners
<1>3. CASE u \in Elevated
  <2>1. /\ maintainer' = [maintainer EXCEPT
             ![b] = Bulk!Set(Bulk!Columns(w).maintainer[b], maintainer[b], u)]
        /\ asks' = {p \in asks : p[2] # b}
        /\ Bulk!Commit(w, IF maintainer'[b] = u THEN "done" ELSE "missed")
    BY <1>3 DEF Bulk!Adopt
  <2>2. Bulk!Set(Bulk!Columns(w).maintainer[b], maintainer[b], u) \in User \cup {NoUser}
    BY <1>2, SetTyped
  <2>3. /\ maintainer' \in Owners
        /\ maintainer'[b] = Bulk!Set(Bulk!Columns(w).maintainer[b], maintainer[b], u)
    BY <1>1, <1>2, <2>1, <2>2 DEF Owners
  <2>4. asks' \subseteq User \X bases
    BY <2>1 DEF DataTyped
  <2>5. DataTyped' /\ Local(b)
    BY <1>1, <1>2, <2>1, <2>3, <2>4 DEF DataTyped, Local
  <2>6. CASE maintainer'[b] = u
    <3>1. Bulk!Commit(w, "done")
      BY <2>1, <2>6
    <3> QED
      BY <1>1, <2>5, <3>1, CommitBecomes
  <2>7. CASE maintainer'[b] # u
    <3>1. Bulk!Commit(w, "missed")
      BY <2>1, <2>7
    <3>2. Bulk!Columns(w).maintainer # maintainer
      BY <1>2, <2>3, <2>7, SetTyped
    <3> QED
      BY <1>1, <2>5, <3>1, <3>2, CommitBecomes
  <2> QED
    BY <2>6, <2>7
<1>4. CASE u \notin Elevated
  <2>1. asks' = asks \cup {<<u, b>>} /\ Bulk!Commit(w, "done") /\ UNCHANGED maintainer
    BY <1>4 DEF Bulk!Adopt
  <2>2. asks' \subseteq User \X bases
    BY <2>1 DEF DataTyped
  <2>3. DataTyped' /\ Local(b)
    BY <1>1, <2>1, <2>2 DEF DataTyped, Local
  <2> QED
    BY <1>1, <2>1, <2>3, CommitBecomes
<1> QED
  BY <1>3, <1>4

LEMMA DisownBecomes ==
  ASSUME DataTyped, FormsTyped, NEW w \in Worker, NEW b \in Base, Bulk!Disown(w, b)
  PROVE  /\ DataTyped' /\ Local(b) /\ bases' = bases
         /\ \/ form' = [form EXCEPT ![w] = Does(form[w])]
            \/ /\ form' = [form EXCEPT ![w] = Misses(form[w])]
               /\ Bulk!Columns(w).maintainer # maintainer
<1>1. /\ maintainer' = [maintainer EXCEPT
           ![b] = Bulk!Set(Bulk!Columns(w).maintainer[b], maintainer[b], NoUser)]
      /\ UNCHANGED <<bases, flagger, watches, asks>> /\ due' \subseteq due
      /\ Bulk!Commit(w, IF maintainer'[b] = NoUser THEN "done" ELSE "missed")
  BY DEF Bulk!Disown
<1>2. maintainer[b] \in User \cup {NoUser} /\ maintainer \in [Base -> User \cup {NoUser}]
  BY DEF DataTyped, Owners
<1>3. Bulk!Set(Bulk!Columns(w).maintainer[b], maintainer[b], NoUser) \in User \cup {NoUser}
  BY <1>2, SetTyped
<1>4. /\ maintainer' \in Owners
      /\ maintainer'[b] = Bulk!Set(Bulk!Columns(w).maintainer[b], maintainer[b], NoUser)
  BY <1>1, <1>2, <1>3 DEF Owners
<1>5. DataTyped' /\ Local(b) /\ bases' = bases
  BY <1>1, <1>2, <1>4 DEF DataTyped, Local
<1>6. CASE maintainer'[b] = NoUser
  <2>1. Bulk!Commit(w, "done")
    BY <1>1, <1>6
  <2> QED
    BY <1>5, <2>1, CommitBecomes
<1>7. CASE maintainer'[b] # NoUser
  <2>1. Bulk!Commit(w, "missed")
    BY <1>1, <1>7
  <2>2. Bulk!Columns(w).maintainer # maintainer
    BY <1>2, <1>4, <1>7, SetTyped
  <2> QED
    BY <1>5, <2>1, <2>2, CommitBecomes
<1> QED
  BY <1>6, <1>7

\* A write ends the form, or changes its base and nothing else.
LEMMA WriteBecomes ==
  ASSUME DataTyped, FormsTyped, NEW w \in Worker, Bulk!Write(w)
  PROVE  LET j == form[w]
             b == form[w].base IN
         /\ j.pc = "write" /\ b \in Base /\ UNCHANGED <<told, forms, others>>
         /\ \/ form' = [form EXCEPT ![w] = Failed(j)] /\ Bulk!Breaks(w, b)
              /\ UNCHANGED <<Bulk!data, deleted>>
            \/ /\ DataTyped' /\ Local(b)
               /\ bases' = IF j.action = "delete" THEN bases \ {b} ELSE bases
               /\ deleted' = IF j.action = "delete" THEN deleted \cup {b} ELSE deleted
               /\ \/ form' = [form EXCEPT ![w] = Does(j)]
                  \/ /\ form' = [form EXCEPT ![w] = Misses(j)]
                     /\ j.action # "delete"
                     /\ Bulk!Columns(w).flagger # flagger \/ Bulk!Columns(w).maintainer # maintainer
<1> DEFINE j == form[w]
           b == form[w].base
<1>1. j.pc = "write" /\ UNCHANGED <<told, forms, others>>
  BY DEF Bulk!Write
<1>2. FormOK(j)
  BY DEF FormsTyped
<1>3. b \in Base /\ j.user \in User
  BY <1>1, <1>2 DEF FormOK, BulkForm
<1>4. CASE Bulk!Breaks(w, b) /\ Bulk!Fail(w) /\ UNCHANGED <<Bulk!data, deleted>>
  BY <1>1, <1>3, <1>4, FailBecomes
<1>5. CASE /\ ~ Bulk!Breaks(w, b)
           /\ \/ j.action = "unflag" /\ Bulk!Unflag(w, b)
              \/ j.action = "notify" /\ Bulk!Notify(w, b)
              \/ j.action = "unnotify" /\ Bulk!Unnotify(w, b)
              \/ j.action = "adopt" /\ Bulk!Adopt(w, b)
              \/ j.action = "disown" /\ Bulk!Disown(w, b)
              \/ j.action = "delete" /\ Bulk!Gone(b) /\ Bulk!Commit(w, "done")
           /\ deleted' = IF j.action = "delete" THEN deleted \cup {b} ELSE deleted
  <2>1. CASE j.action = "unflag" /\ Bulk!Unflag(w, b)
    BY <1>1, <1>3, <1>5, <2>1, UnflagBecomes
  <2>2. CASE j.action = "notify" /\ Bulk!Notify(w, b)
    <3>1. b \in bases
      BY <1>5, <2>2 DEF Bulk!Breaks
    <3> QED
      BY <1>1, <1>3, <1>5, <2>2, <3>1, NotifyBecomes
  <2>3. CASE j.action = "unnotify" /\ Bulk!Unnotify(w, b)
    BY <1>1, <1>3, <1>5, <2>3, UnnotifyBecomes
  <2>4. CASE j.action = "adopt" /\ Bulk!Adopt(w, b)
    <3>1. b \in bases
      BY <1>5, <2>4 DEF Bulk!Breaks
    <3> QED
      BY <1>1, <1>3, <1>5, <2>4, <3>1, AdoptBecomes
  <2>5. CASE j.action = "disown" /\ Bulk!Disown(w, b)
    BY <1>1, <1>3, <1>5, <2>5, DisownBecomes
  <2>6. CASE j.action = "delete" /\ Bulk!Gone(b) /\ Bulk!Commit(w, "done")
    BY <1>1, <1>3, <1>5, <2>6, GoneTyped, CommitBecomes
  <2> QED
    BY <1>5, <2>1, <2>2, <2>3, <2>4, <2>5, <2>6
<1> QED
  BY <1>4, <1>5 DEF Bulk!Write

\* The columns of now.
Now == [maintainer |-> maintainer, flagger |-> flagger]

\* A form is refused as a whole, or begins with the bases that were found.
Enters(w, u, a, found) ==
    /\ form[w].pc = "idle" /\ forms < MaxForm /\ forms' = forms + 1
    /\ UNCHANGED <<Bulk!data, deleted, told, others>>
    /\ \/ form' = [form EXCEPT ![w] = Refused(u, a)]
       \/ /\ \A b \in found : Bulk!May(u, a, b)
          /\ form' = [form EXCEPT ![w] = Submitted(u, a, found, Now)]

LEMMA SubmitBecomes ==
  ASSUME NEW w, NEW u, NEW a, NEW S, Bulk!Submit(w, u, a, S)
  PROVE  Enters(w, u, a, S \cap bases)
<1> DEFINE found == S \cap bases
           good == (a = "delete" => found = S) /\ \A b \in found : Bulk!May(u, a, b)
<1>1. /\ form[w].pc = "idle" /\ forms < MaxForm /\ forms' = forms + 1
      /\ UNCHANGED <<Bulk!data, deleted, told, others>>
  BY DEF Bulk!Submit
<1>2. CASE good
  BY <1>1, <1>2 DEF Bulk!Submit, Submitted, Now, Enters
<1>3. CASE ~ good
  BY <1>1, <1>3 DEF Bulk!Submit, Refused, Enters
<1> QED
  BY <1>2, <1>3

LEMMA DeletesBecome ==
  ASSUME DeletesOK, FormsTyped, NEW w \in Worker, NEW q, form' = [form EXCEPT ![w] = q],
         deleted \subseteq deleted', q.action = "delete" => q.done \subseteq deleted'
  PROVE  DeletesOK'
  BY DEF DeletesOK, FormsTyped

-----------------------------------------------------------------------------
LEMMA BulkInit ==
  ASSUME Bulk!UserAssumption, Bulk!BoundAssumption, Bulk!Init
  PROVE  BulkInv
<1>1. \A w \in Worker : form[w] = Bulk!IdleJob
  BY DEF Bulk!Init
<1>2. Bulk!IdleJob \in BulkForm
  BY IdleFormOK DEF FormOK
<1>3. FormsTyped
  BY <1>1, <1>2, IdleFormOK DEF FormsTyped, Bulk!Init
<1>4. DataTyped
  BY DEF DataTyped, Bulk!Init, Owners
<1>5. DeletesOK
  BY <1>1 DEF DeletesOK, Bulk!IdleJob
<1>6. Counted
  BY DEF Bulk!Init, Counted, Bulk!BoundAssumption
<1> QED
  BY <1>3, <1>4, <1>5, <1>6 DEF BulkInv, Bulk!Init

LEMMA SubmitKeeps ==
  ASSUME Bulk!BoundAssumption, BulkInv, NEW w \in Worker, NEW u \in User, NEW a \in Actions,
         NEW S \in Bases, Bulk!Submit(w, u, a, S)
  PROVE  BulkInv'
<1> DEFINE found == S \cap bases
<1>1. /\ DataTyped /\ FormsTyped /\ Counted /\ DeletesOK
      /\ told \subseteq deleted /\ deleted \subseteq Base \ bases
  BY DEF BulkInv
<1>2. Enters(w, u, a, found)
  BY SubmitBecomes, Zenon
<1>3. Now \in Cols /\ found \in Bases
  BY <1>1 DEF DataTyped, Cols, Bases, Now
<1> HIDE DEF found
<1>4. /\ forms < MaxForm /\ forms' = forms + 1 /\ UNCHANGED <<Bulk!data, deleted, told, others>>
      /\ \/ form' = [form EXCEPT ![w] = Refused(u, a)]
         \/ form' = [form EXCEPT ![w] = Submitted(u, a, found, Now)]
  BY <1>2 DEF Enters
<1>5. FormsTyped' /\ DeletesOK'
  <2>1. CASE form' = [form EXCEPT ![w] = Refused(u, a)]
    BY <1>1, <1>4, <2>1, RefusedOK, FormBecomes, DeletesBecome
  <2>2. CASE form' = [form EXCEPT ![w] = Submitted(u, a, found, Now)]
    <3>1. FormOK(Submitted(u, a, found, Now)) /\ Submitted(u, a, found, Now).done = {}
      BY <1>3, SubmittedOK
    <3> QED
      BY <1>1, <1>4, <2>2, <3>1, FormBecomes, DeletesBecome
  <2> QED
    BY <1>4, <2>1, <2>2
<1>6. DataTyped' /\ Counted'
  BY <1>1, <1>4 DEF DataTyped, Counted, Bulk!data, Bulk!BoundAssumption
<1> QED
  BY <1>1, <1>4, <1>5, <1>6 DEF BulkInv, Bulk!data

LEMMA VisitKeeps ==
  ASSUME BulkInv, NEW w \in Worker, NEW b \in Base, Bulk!Visit(w, b)
  PROVE  BulkInv'
<1> DEFINE j == form[w]
<1>1. /\ DataTyped /\ FormsTyped /\ Counted /\ DeletesOK
      /\ told \subseteq deleted /\ deleted \subseteq Base \ bases
  BY DEF BulkInv
<1>2. FormOK(j) /\ (j.action = "delete" => j.done \subseteq deleted)
  BY <1>1 DEF FormsTyped, DeletesOK
<1>3. Bulk!Columns(w) \in Cols
  BY <1>1, ColumnsTyped
<1>4. /\ j.pc = "visit" /\ b \in j.todo /\ UNCHANGED <<Bulk!data, deleted, told, forms, others>>
      /\ \/ form' = [form EXCEPT ![w] = Failed(j)]
         \/ form' = [form EXCEPT ![w] = SkipsDone(j, b)] /\ ~ Bulk!Applies(w, b)
         \/ form' = [form EXCEPT ![w] = SkipsMissed(j, b)]
         \/ form' = [form EXCEPT ![w] = SkipsErrors(j, b)]
         \/ form' = [form EXCEPT ![w] = Writes(j, b, Bulk!Columns(w))]
  BY <1>1, VisitBecomes
<1>5. PICK q : /\ form' = [form EXCEPT ![w] = q] /\ FormOK(q) /\ q.action = j.action
               /\ q.done = j.done \/ j.action # "delete"
  <2>1. CASE form' = [form EXCEPT ![w] = Failed(j)]
    BY <1>2, <2>1, EndedOK
  <2>2. CASE form' = [form EXCEPT ![w] = SkipsDone(j, b)] /\ ~ Bulk!Applies(w, b)
    <3>1. j.action # "delete"
      BY <2>2 DEF Bulk!Applies
    <3>2. FormOK(SkipsDone(j, b)) /\ SkipsDone(j, b).action = j.action
      BY <1>2, <1>4, SkipsOK DEF Without
    <3> QED
      BY <2>2, <3>1, <3>2
  <2>3. CASE form' = [form EXCEPT ![w] = SkipsMissed(j, b)]
    <3>1. /\ FormOK(SkipsMissed(j, b)) /\ SkipsMissed(j, b).action = j.action
          /\ SkipsMissed(j, b).done = j.done
      BY <1>2, <1>4, SkipsOK DEF Without
    <3> QED
      BY <2>3, <3>1
  <2>4. CASE form' = [form EXCEPT ![w] = SkipsErrors(j, b)]
    <3>1. /\ FormOK(SkipsErrors(j, b)) /\ SkipsErrors(j, b).action = j.action
          /\ SkipsErrors(j, b).done = j.done
      BY <1>2, <1>4, SkipsOK DEF Without
    <3> QED
      BY <2>4, <3>1
  <2>5. CASE form' = [form EXCEPT ![w] = Writes(j, b, Bulk!Columns(w))]
    <3>1. /\ FormOK(Writes(j, b, Bulk!Columns(w)))
          /\ Writes(j, b, Bulk!Columns(w)).action = j.action
          /\ Writes(j, b, Bulk!Columns(w)).done = j.done
      BY <1>2, <1>3, <1>4, WritesOK
    <3> QED
      BY <2>5, <3>1
  <2> QED
    BY <1>4, <2>1, <2>2, <2>3, <2>4, <2>5
<1>6. FormsTyped' /\ DeletesOK'
  BY <1>1, <1>2, <1>4, <1>5, FormBecomes, DeletesBecome
<1>7. DataTyped' /\ Counted'
  BY <1>1, <1>4 DEF DataTyped, Counted, Bulk!data
<1> QED
  BY <1>1, <1>4, <1>6, <1>7 DEF BulkInv, Bulk!data

LEMMA WriteKeeps ==
  ASSUME BulkInv, NEW w \in Worker, Bulk!Write(w)
  PROVE  BulkInv'
<1> DEFINE j == form[w]
           b == form[w].base
<1>1. /\ DataTyped /\ FormsTyped /\ Counted /\ DeletesOK
      /\ told \subseteq deleted /\ deleted \subseteq Base \ bases
  BY DEF BulkInv
<1>2. FormOK(j) /\ (j.action = "delete" => j.done \subseteq deleted)
  BY <1>1 DEF FormsTyped, DeletesOK
<1>3. /\ j.pc = "write" /\ b \in Base /\ UNCHANGED <<told, forms, others>>
      /\ \/ form' = [form EXCEPT ![w] = Failed(j)] /\ Bulk!Breaks(w, b)
           /\ UNCHANGED <<Bulk!data, deleted>>
         \/ /\ DataTyped' /\ Local(b)
            /\ bases' = IF j.action = "delete" THEN bases \ {b} ELSE bases
            /\ deleted' = IF j.action = "delete" THEN deleted \cup {b} ELSE deleted
            /\ \/ form' = [form EXCEPT ![w] = Does(j)]
               \/ /\ form' = [form EXCEPT ![w] = Misses(j)]
                  /\ j.action # "delete"
                  /\ Bulk!Columns(w).flagger # flagger \/ Bulk!Columns(w).maintainer # maintainer
  BY <1>1, WriteBecomes
<1>4. Counted'
  BY <1>1, <1>3 DEF Counted
<1>5. CASE form' = [form EXCEPT ![w] = Failed(j)] /\ UNCHANGED <<Bulk!data, deleted>>
  <2>1. FormsTyped' /\ DeletesOK'
    BY <1>1, <1>2, <1>5, EndedOK, FormBecomes, DeletesBecome
  <2>2. DataTyped'
    BY <1>1, <1>5 DEF DataTyped, Bulk!data
  <2> QED
    BY <1>1, <1>3, <1>4, <1>5, <2>1, <2>2 DEF BulkInv, Bulk!data
<1>6. CASE /\ DataTyped'
           /\ bases' = IF j.action = "delete" THEN bases \ {b} ELSE bases
           /\ deleted' = IF j.action = "delete" THEN deleted \cup {b} ELSE deleted
           /\ \/ form' = [form EXCEPT ![w] = Does(j)]
              \/ form' = [form EXCEPT ![w] = Misses(j)] /\ j.action # "delete"
  <2>1. /\ FormOK(Does(j)) /\ Does(j).action = j.action /\ Does(j).done = j.done \cup {b}
        /\ FormOK(Misses(j)) /\ Misses(j).action = j.action
    BY <1>2, <1>3, DoesOK DEF Without
  <2>2. deleted \subseteq deleted' /\ deleted' \subseteq Base \ bases'
    BY <1>1, <1>3, <1>6
  <2>3. CASE form' = [form EXCEPT ![w] = Does(j)]
    <3>1. Does(j).action = "delete" => Does(j).done \subseteq deleted'
      BY <1>2, <1>6, <2>1
    <3>2. FormsTyped' /\ DeletesOK'
      BY <1>1, <2>1, <2>2, <2>3, <3>1, FormBecomes, DeletesBecome
    <3> QED
      BY <1>1, <1>3, <1>4, <1>6, <2>2, <3>2 DEF BulkInv
  <2>4. CASE form' = [form EXCEPT ![w] = Misses(j)] /\ j.action # "delete"
    <3>1. Misses(j).action = "delete" => Misses(j).done \subseteq deleted'
      BY <2>1, <2>4
    <3>2. FormsTyped' /\ DeletesOK'
      BY <1>1, <2>1, <2>2, <2>4, <3>1, FormBecomes, DeletesBecome
    <3> QED
      BY <1>1, <1>3, <1>4, <1>6, <2>2, <3>2 DEF BulkInv
  <2> QED
    BY <1>6, <2>3, <2>4
<1> QED
  BY <1>3, <1>5, <1>6

LEMMA FinishKeeps ==
  ASSUME BulkInv, NEW w \in Worker, Bulk!Finish(w)
  PROVE  BulkInv'
<1> DEFINE j == form[w]
<1>1. /\ DataTyped /\ FormsTyped /\ Counted /\ DeletesOK
      /\ told \subseteq deleted /\ deleted \subseteq Base \ bases
  BY DEF BulkInv
<1>2. FormOK(j) /\ (j.action = "delete" => j.done \subseteq deleted)
  BY <1>1 DEF FormsTyped, DeletesOK
<1>3. /\ j.pc = "visit" /\ j.todo = {} /\ UNCHANGED <<Bulk!data, deleted, forms, others>>
      /\ told' = IF j.action = "delete" THEN told \cup j.done ELSE told
  BY DEF Bulk!Finish
<1>4. form' = [form EXCEPT ![w] = Finished(j)]
  BY <1>1, FinishBecomes
<1>5. FormOK(Finished(j)) /\ Finished(j).action = j.action /\ Finished(j).done = j.done
  BY <1>2, <1>3, EndedOK
<1>6. FormsTyped' /\ DeletesOK'
  BY <1>1, <1>2, <1>3, <1>4, <1>5, FormBecomes, DeletesBecome
<1>7. DataTyped' /\ Counted' /\ told' \subseteq deleted'
  BY <1>1, <1>2, <1>3 DEF DataTyped, Counted, Bulk!data
<1> QED
  BY <1>1, <1>3, <1>6, <1>7 DEF BulkInv, Bulk!data

\* What others do.
LEMMA OthersBecome ==
  ASSUME Bulk!BoundAssumption, BulkInv, NEW b \in Base,
         \/ \E u \in User : Bulk!Flag(u, b) \/ Bulk!Toggle(u, b) \/ Bulk!Grant(u, b)
         \/ Bulk!Leave(b) \/ Bulk!Remove(b)
  PROVE  /\ DataTyped' /\ bases' \subseteq bases /\ others < MaxOther /\ others' = others + 1
         /\ UNCHANGED <<form, deleted, told, forms>>
<1>1. DataTyped
  BY DEF BulkInv
<1>2. ASSUME NEW u \in User, Bulk!Flag(u, b)
      PROVE  /\ DataTyped' /\ bases' \subseteq bases /\ others < MaxOther /\ others' = others + 1
             /\ UNCHANGED <<form, deleted, told, forms>>
  BY <1>1, <1>2 DEF Bulk!Flag, Bulk!Other, DataTyped, Owners
<1>3. ASSUME NEW u \in User, Bulk!Toggle(u, b)
      PROVE  /\ DataTyped' /\ bases' \subseteq bases /\ others < MaxOther /\ others' = others + 1
             /\ UNCHANGED <<form, deleted, told, forms>>
  <2>1. watches' \subseteq User \X bases
    BY <1>1, <1>3 DEF Bulk!Toggle, DataTyped
  <2> QED
    BY <1>1, <1>3, <2>1 DEF Bulk!Toggle, Bulk!Other, DataTyped
<1>4. ASSUME NEW u \in User, Bulk!Grant(u, b)
      PROVE  /\ DataTyped' /\ bases' \subseteq bases /\ others < MaxOther /\ others' = others + 1
             /\ UNCHANGED <<form, deleted, told, forms>>
  BY <1>1, <1>4 DEF Bulk!Grant, Bulk!Other, DataTyped, Owners
<1>5. ASSUME Bulk!Leave(b)
      PROVE  /\ DataTyped' /\ bases' \subseteq bases /\ others < MaxOther /\ others' = others + 1
             /\ UNCHANGED <<form, deleted, told, forms>>
  BY <1>1, <1>5 DEF Bulk!Leave, Bulk!Other, DataTyped, Owners
<1>6. ASSUME Bulk!Remove(b)
      PROVE  /\ DataTyped' /\ bases' \subseteq bases /\ others < MaxOther /\ others' = others + 1
             /\ UNCHANGED <<form, deleted, told, forms>>
  <2>1. DataTyped' /\ bases' = bases \ {b}
    BY <1>1, <1>6, GoneTyped DEF Bulk!Remove
  <2> QED
    BY <1>6, <2>1 DEF Bulk!Remove, Bulk!Other
<1> QED
  BY <1>2, <1>3, <1>4, <1>5, <1>6

LEMMA OthersKeep ==
  ASSUME Bulk!BoundAssumption, BulkInv, NEW b \in Base,
         \/ \E u \in User : Bulk!Flag(u, b) \/ Bulk!Toggle(u, b) \/ Bulk!Grant(u, b)
         \/ Bulk!Leave(b) \/ Bulk!Remove(b)
  PROVE  BulkInv'
<1>1. /\ DataTyped' /\ bases' \subseteq bases /\ others < MaxOther /\ others' = others + 1
      /\ UNCHANGED <<form, deleted, told, forms>>
  BY OthersBecome
<1>2. /\ FormsTyped /\ Counted /\ DeletesOK
      /\ told \subseteq deleted /\ deleted \subseteq Base \ bases
  BY DEF BulkInv
<1>3. FormsTyped' /\ DeletesOK'
  BY <1>1, <1>2 DEF FormsTyped, DeletesOK
<1>4. Counted'
  BY <1>1, <1>2 DEF Counted, Bulk!BoundAssumption
<1> QED
  BY <1>1, <1>2, <1>3, <1>4 DEF BulkInv

LEMMA StutterKeeps ==
  ASSUME BulkInv, UNCHANGED Bulk!vars
  PROVE  BulkInv'
  BY DEF BulkInv, Bulk!vars, DataTyped, FormsTyped, DeletesOK, Counted

LEMMA BulkNext ==
  ASSUME Bulk!BoundAssumption, BulkInv, [Bulk!Next]_(Bulk!vars)
  PROVE  BulkInv'
<1>1. ASSUME NEW w \in Worker, NEW u \in User, NEW a \in Actions, NEW S \in SUBSET Base,
             Bulk!Submit(w, u, a, S)
      PROVE  BulkInv'
  <2>1. S \in Bases
    BY DEF Bases
  <2> QED
    BY <1>1, <2>1, SubmitKeeps
<1>2. ASSUME NEW w \in Worker, NEW b \in Base, Bulk!Visit(w, b) PROVE BulkInv'
  BY <1>2, VisitKeeps
<1>3. ASSUME NEW w \in Worker, Bulk!Write(w) \/ Bulk!Finish(w) PROVE BulkInv'
  BY <1>3, WriteKeeps, FinishKeeps
<1>4. ASSUME NEW u \in User, NEW b \in Base, Bulk!Flag(u, b) \/ Bulk!Toggle(u, b) \/ Bulk!Grant(u,
             b)
      PROVE  BulkInv'
  BY <1>4, OthersKeep
<1>5. ASSUME NEW b \in Base, Bulk!Leave(b) \/ Bulk!Remove(b) PROVE BulkInv'
  BY <1>5, OthersKeep
<1> QED
  BY <1>1, <1>2, <1>3, <1>4, <1>5, StutterKeeps DEF Bulk!Next

LEMMA BulkHolds ==
  ASSUME Bulk!UserAssumption, Bulk!BoundAssumption
  PROVE  Bulk!Spec => []BulkInv
  BY BulkInit, BulkNext, PTL DEF Bulk!Spec

\* The types of BulkActions, however many forms are at work: a form tells only
\* of bases that it deleted, and no row is left of a base that is gone
\* (packages_delete, pkgbase_delete_instance).
THEOREM BulkTypes ==
  ASSUME Bulk!UserAssumption, Bulk!BoundAssumption
  PROVE  Bulk!Spec => []Bulk!TypeOK
<1>1. BulkInv => Bulk!TypeOK
  <2> SUFFICES ASSUME BulkInv PROVE Bulk!TypeOK
    OBVIOUS
  <2>1. /\ DataTyped /\ FormsTyped /\ Counted
        /\ told \subseteq deleted /\ deleted \subseteq Base \ bases
    BY DEF BulkInv
  <2>2. ASSUME NEW w \in Worker
        PROVE  LET j == form[w] IN
         /\ j.pc \in {"idle", "visit", "write"} /\ j.user \in User \cup {NoUser}
         /\ j.action \in Actions \cup {"none"} /\ j.answer \in {"none", "done", "refused", "failed"}
         /\ j.selected \subseteq Base /\ \A c, d \in j.seen : c = d
         /\ j.todo \cup j.done \cup j.missed \cup j.errors \subseteq j.selected
         /\ j.pc = "write" => j.base \in j.todo /\ j.seen # {}
    BY <2>1 DEF FormsTyped, FormOK, BulkForm, Alike
  <2> QED
    BY <2>1, <2>2 DEF Bulk!TypeOK, DataTyped, Owners, Counted
<1> QED
  BY <1>1, BulkHolds, PTL

\* An error with one base does not keep a form from the others, whatever the
\* other workers do (disown_all of packages_disown).
THEOREM ErrorsDoNotStop ==
  ASSUME Bulk!UserAssumption, Bulk!BoundAssumption
  PROVE  Bulk!Spec => []Bulk!ErrorsStopNothing
<1>1. BulkInv => Bulk!ErrorsStopNothing
  BY DEF BulkInv, FormsTyped, FormOK, Bulk!ErrorsStopNothing
<1> QED
  BY <1>1, BulkHolds, PTL

-----------------------------------------------------------------------------
(* A form fails only for a base that is gone, or a watch that is there.    *)

FailOK(j, B) == j.answer = "failed" => (\E b \in j.todo : b \notin B) \/ j.action = "notify"

LEMMA FailsBecome ==
  ASSUME Bulk!FailsForAReason, FormsTyped, NEW w \in Worker, NEW q, form' = [form EXCEPT ![w] = q],
         bases' \subseteq bases, FailOK(q, bases)
  PROVE  Bulk!FailsForAReason'
  BY DEF Bulk!FailsForAReason, FailOK, FormsTyped

LEMMA VisitFails ==
  ASSUME BulkInv, Bulk!FailsForAReason, NEW w \in Worker, NEW b \in Base, Bulk!Visit(w, b)
  PROVE  Bulk!FailsForAReason'
<1> DEFINE j == form[w]
<1>1. DataTyped /\ FormsTyped
  BY DEF BulkInv
<1>2. FormOK(j)
  BY <1>1 DEF FormsTyped
<1>3. Bulk!Columns(w) \in Cols
  BY <1>1, ColumnsTyped
<1>4. /\ j.pc = "visit" /\ b \in j.todo /\ UNCHANGED <<Bulk!data, deleted, told, forms, others>>
      /\ \/ form' = [form EXCEPT ![w] = Failed(j)] /\ b \notin bases
         \/ form' = [form EXCEPT ![w] = SkipsDone(j, b)]
         \/ form' = [form EXCEPT ![w] = SkipsMissed(j, b)]
         \/ form' = [form EXCEPT ![w] = SkipsErrors(j, b)]
         \/ form' = [form EXCEPT ![w] = Writes(j, b, Bulk!Columns(w))]
  BY <1>1, VisitBecomes
<1>5. bases' \subseteq bases
  BY <1>4 DEF Bulk!data
<1>6. CASE form' = [form EXCEPT ![w] = Failed(j)] /\ b \notin bases
  <2>1. FailOK(Failed(j), bases)
    BY <1>2, <1>4, <1>6, EndedOK DEF FailOK
  <2> QED
    BY <1>1, <1>5, <1>6, <2>1, FailsBecome
<1>7. /\ SkipsDone(j, b).answer = "none" /\ SkipsMissed(j, b).answer = "none"
      /\ SkipsErrors(j, b).answer = "none" /\ Writes(j, b, Bulk!Columns(w)).answer = "none"
  BY <1>2, <1>3, <1>4, SkipsOK, WritesOK DEF Without
<1> QED
  BY <1>1, <1>4, <1>5, <1>6, <1>7, FailsBecome DEF FailOK

LEMMA WriteFails ==
  ASSUME BulkInv, Bulk!FailsForAReason, NEW w \in Worker, Bulk!Write(w)
  PROVE  Bulk!FailsForAReason'
<1> DEFINE j == form[w]
           b == form[w].base
<1>1. DataTyped /\ FormsTyped
  BY DEF BulkInv
<1>2. FormOK(j)
  BY <1>1 DEF FormsTyped
<1>3. /\ j.pc = "write" /\ b \in Base
      /\ \/ form' = [form EXCEPT ![w] = Failed(j)] /\ Bulk!Breaks(w, b)
           /\ UNCHANGED <<Bulk!data, deleted>>
         \/ /\ Local(b)
            /\ \/ form' = [form EXCEPT ![w] = Does(j)]
               \/ form' = [form EXCEPT ![w] = Misses(j)]
  BY <1>1, WriteBecomes
<1>4. CASE form' = [form EXCEPT ![w] = Failed(j)] /\ Bulk!Breaks(w, b)
             /\ UNCHANGED <<Bulk!data, deleted>>
  <2>1. b \in j.todo
    BY <1>2, <1>3 DEF FormOK
  <2>2. b \notin bases \/ j.action = "notify"
    BY <1>4 DEF Bulk!Breaks
  <2>3. FailOK(Failed(j), bases)
    BY <1>2, <2>1, <2>2, EndedOK DEF FailOK
  <2>4. bases' \subseteq bases
    BY <1>4 DEF Bulk!data
  <2> QED
    BY <1>1, <1>4, <2>3, <2>4, FailsBecome
<1>5. CASE /\ Local(b)
           /\ form' = [form EXCEPT ![w] = Does(j)] \/ form' = [form EXCEPT ![w] = Misses(j)]
  <2>1. Does(j).answer = "none" /\ Misses(j).answer = "none"
    BY <1>2, <1>3, DoesOK DEF Without
  <2>2. bases' \subseteq bases
    BY <1>5 DEF Local
  <2> QED
    BY <1>1, <1>5, <2>1, <2>2, FailsBecome DEF FailOK
<1> QED
  BY <1>3, <1>4, <1>5

LEMMA FinishFails ==
  ASSUME BulkInv, Bulk!FailsForAReason, NEW w \in Worker, Bulk!Finish(w)
  PROVE  Bulk!FailsForAReason'
<1>1. FormsTyped /\ FormOK(form[w])
  BY DEF BulkInv, FormsTyped
<1>2. form' = [form EXCEPT ![w] = Finished(form[w])] /\ bases' \subseteq bases
  BY <1>1, FinishBecomes DEF Bulk!Finish, Bulk!data
<1>3. Finished(form[w]).answer # "failed"
  BY <1>1, EndedOK
<1> QED
  BY <1>1, <1>2, <1>3, FailsBecome DEF FailOK

LEMMA SubmitFails ==
  ASSUME BulkInv, Bulk!FailsForAReason, NEW w \in Worker, NEW u \in User, NEW a \in Actions,
         NEW S \in Bases, Bulk!Submit(w, u, a, S)
  PROVE  Bulk!FailsForAReason'
<1> DEFINE found == S \cap bases
<1>1. DataTyped /\ FormsTyped
  BY DEF BulkInv
<1>2. Now \in Cols /\ found \in Bases
  BY <1>1 DEF DataTyped, Cols, Bases, Now
<1> HIDE DEF found
<1>3. Enters(w, u, a, S \cap bases)
  BY SubmitBecomes
<1>4. /\ bases' \subseteq bases
      /\ \/ form' = [form EXCEPT ![w] = Refused(u, a)]
         \/ form' = [form EXCEPT ![w] = Submitted(u, a, found, Now)]
  BY <1>3 DEF Enters, Bulk!data, found
<1>5. Refused(u, a).answer = "refused" /\ Submitted(u, a, found, Now).answer = "none"
  BY <1>2, RefusedOK, SubmittedOK
<1> QED
  BY <1>1, <1>4, <1>5, FailsBecome DEF FailOK

\* Only a base that someone deletes, or a watch that the user has set elsewhere,
\* makes a form fail: for any number of workers and of what others do
\* (packages_post).
THEOREM FailuresHaveReasons ==
  ASSUME Bulk!UserAssumption, Bulk!BoundAssumption
  PROVE  Bulk!Spec => []Bulk!FailsForAReason
<1>1. Bulk!Init => Bulk!FailsForAReason
  BY DEF Bulk!Init, Bulk!FailsForAReason, Bulk!IdleJob
<1>2. BulkInv /\ Bulk!FailsForAReason /\ [Bulk!Next]_(Bulk!vars) => Bulk!FailsForAReason'
  <2> SUFFICES ASSUME BulkInv, Bulk!FailsForAReason, [Bulk!Next]_(Bulk!vars)
               PROVE  Bulk!FailsForAReason'
    OBVIOUS
  <2>1. ASSUME NEW w \in Worker, NEW u \in User, NEW a \in Actions, NEW S \in SUBSET Base,
               Bulk!Submit(w, u, a, S)
        PROVE  Bulk!FailsForAReason'
    <3>1. S \in Bases
      BY DEF Bases
    <3> QED
      BY <2>1, <3>1, SubmitFails
  <2>2. ASSUME NEW w \in Worker, NEW b \in Base, Bulk!Visit(w, b) PROVE Bulk!FailsForAReason'
    BY <2>2, VisitFails
  <2>3. ASSUME NEW w \in Worker, Bulk!Write(w) \/ Bulk!Finish(w) PROVE Bulk!FailsForAReason'
    BY <2>3, WriteFails, FinishFails
  <2>4. ASSUME NEW b \in Base,
               \/ \E u \in User : Bulk!Flag(u, b) \/ Bulk!Toggle(u, b) \/ Bulk!Grant(u, b)
               \/ Bulk!Leave(b) \/ Bulk!Remove(b)
        PROVE  Bulk!FailsForAReason'
    <3>1. bases' \subseteq bases /\ UNCHANGED form
      BY <2>4, OthersBecome
    <3> QED
      BY <3>1 DEF Bulk!FailsForAReason
  <2>5. CASE UNCHANGED Bulk!vars
    BY <2>5 DEF Bulk!FailsForAReason, Bulk!vars
  <2> QED
    BY <2>1, <2>2, <2>3, <2>4, <2>5 DEF Bulk!Next
<1> QED
  BY <1>1, <1>2, BulkHolds, PTL DEF Bulk!Spec

-----------------------------------------------------------------------------
(* One form at a time, and nobody else: what it saw is so when it writes.  *)

Alone == MaxOther = 0 /\ \A v, w \in Worker : v = w

\* May, of the columns c and the watches x.
Allowed(u, a, b, c, x) ==
    /\ a = "unflag" => u \in Elevated \/ c.flagger[b] = u
    /\ a = "notify" => <<u, b>> \notin x
    /\ a = "unnotify" => <<u, b>> \in x
    /\ a = "adopt" => u \in Elevated \/ c.maintainer[b] = NoUser
    /\ a = "disown" => u \in Elevated \/ c.maintainer[b] = u
    /\ a = "delete" => u \in Elevated

FreshForm(j, B, c, x) ==
    /\ j.missed = {}
    /\ j.pc # "idle" => /\ j.seen \subseteq {c}
                        /\ \A b \in j.todo : b \in B /\ Allowed(j.user, j.action, b, c, x)

Fresh == \A w \in Worker : FreshForm(form[w], bases, Now, watches)

LEMMA MayIsAllowed ==
  ASSUME Bulk!ActionAssumption, NEW u, NEW a \in Actions, NEW b, Bulk!May(u, a, b)
  PROVE  Allowed(u, a, b, Now, watches)
<1>1. a \in {"unflag", "notify", "unnotify", "adopt", "disown", "delete"}
  BY DEF Bulk!ActionAssumption
<1> QED
  BY <1>1
     DEF Bulk!May, Bulk!MayUnflag, Bulk!MayNotify, Bulk!MayUnnotify, Bulk!MayAdopt,
         Bulk!MayDisown, Bulk!MayDelete,
              Allowed, Now

LEMMA AllowedLocal ==
  ASSUME NEW u \in User, NEW a, NEW b \in Base, NEW c \in Base, c # b, Local(b),
         Allowed(u, a, c, Now, watches)
  PROVE  Allowed(u, a, c, Now', watches')
<1>1. /\ Now'.maintainer[c] = Now.maintainer[c] /\ Now'.flagger[c] = Now.flagger[c]
      /\ <<u, c>> \in watches' <=> <<u, c>> \in watches
  BY DEF Local, Now
<1> QED
  BY <1>1 DEF Allowed

LEMMA FreshBecomes ==
  ASSUME FormsTyped, NEW w \in Worker, \A v \in Worker : v = w, NEW q,
         form' = [form EXCEPT ![w] = q], FreshForm(q, bases', Now', watches')
  PROVE  Fresh'
  BY DEF Fresh, FormsTyped

\* What the session knows is so.
LEMMA FreshColumns ==
  ASSUME DataTyped, FormsTyped, Fresh, NEW w \in Worker, form[w].pc # "idle"
  PROVE  Bulk!Columns(w) = Now
<1>1. form[w].seen \subseteq {Now}
  BY DEF Fresh, FreshForm
<1>2. CASE form[w].seen = {}
  BY <1>2 DEF Bulk!Columns, Now
<1>3. CASE form[w].seen # {}
  BY <1>1, <1>3, ColumnsTyped
<1> QED
  BY <1>2, <1>3

\* What is not to do, of what the user may, is done.
LEMMA FreshApplies ==
  ASSUME Bulk!ActionAssumption, DataTyped, FormsTyped, Fresh, NEW w \in Worker,
         form[w].pc # "idle", NEW b \in form[w].todo, ~ Bulk!Applies(w, b)
  PROVE  Bulk!Goal(form[w].user, form[w].action, b)
<1> DEFINE j == form[w]
<1>1. j.user \in User /\ j.action \in Actions
  BY DEF FormsTyped, FormOK
<1>2. Bulk!Columns(w) = Now
  BY FreshColumns
<1>3. Allowed(j.user, j.action, b, Now, watches)
  BY DEF Fresh, FreshForm
<1>4. j.action \in {"unflag", "notify", "unnotify", "adopt", "disown", "delete"}
  BY <1>1 DEF Bulk!ActionAssumption
<1>5. j.action = "adopt" /\ j.user \notin Elevated /\ \E v \in User : <<v, b>> \in asks
  BY <1>2, <1>3, <1>4 DEF Bulk!Applies, Allowed, Now
<1> QED
  BY <1>5 DEF Bulk!Goal

\* No row is missing, and none is there already.
LEMMA FreshBreaks ==
  ASSUME Bulk!ActionAssumption, FormsTyped, Fresh, NEW w \in Worker, form[w].pc = "write"
  PROVE  ~ Bulk!Breaks(w, form[w].base)
<1> DEFINE b == form[w].base
<1>1. b \in form[w].todo
  BY DEF FormsTyped, FormOK
<1>2. b \in bases /\ Allowed(form[w].user, form[w].action, b, Now, watches)
  BY <1>1 DEF Fresh, FreshForm
<1> QED
  BY <1>2 DEF Bulk!Breaks, Allowed

LEMMA SubmitFresh ==
  ASSUME Bulk!ActionAssumption, Alone, BulkInv, Fresh, NEW w \in Worker, NEW u \in User,
         NEW a \in Actions, NEW S \in Bases, Bulk!Submit(w, u, a, S)
  PROVE  Fresh'
<1> DEFINE found == S \cap bases
<1>1. DataTyped /\ FormsTyped
  BY DEF BulkInv
<1>2. Now \in Cols /\ found \in Bases /\ found \subseteq bases
  BY <1>1 DEF DataTyped, Cols, Bases, Now
<1> HIDE DEF found
<1>3. Enters(w, u, a, found)
  BY SubmitBecomes DEF found
<1>4. \A v \in Worker : v = w
  BY DEF Alone
<1>5. bases' = bases /\ watches' = watches /\ Now' = Now
  BY <1>3 DEF Enters, Bulk!data, Now
<1>6. CASE form' = [form EXCEPT ![w] = Refused(u, a)]
  <2>1. FreshForm(Refused(u, a), bases, Now, watches)
    BY RefusedOK DEF FreshForm
  <2> QED
    BY <1>1, <1>4, <1>5, <1>6, <2>1, FreshBecomes
<1>7. CASE /\ \A b \in found : Bulk!May(u, a, b)
           /\ form' = [form EXCEPT ![w] = Submitted(u, a, found, Now)]
  <2> DEFINE q == Submitted(u, a, found, Now)
  <2>1. q.user = u /\ q.action = a /\ q.todo = found /\ q.seen = {Now} /\ q.missed = {}
    BY <1>2, SubmittedOK
  <2>2. \A b \in found : Allowed(u, a, b, Now, watches)
    BY <1>7, MayIsAllowed
  <2>3. FreshForm(q, bases, Now, watches)
    BY <1>2, <2>1, <2>2 DEF FreshForm
  <2> QED
    BY <1>1, <1>4, <1>5, <1>7, <2>3, FreshBecomes
<1> QED
  BY <1>3, <1>6, <1>7 DEF Enters

LEMMA VisitFresh ==
  ASSUME Bulk!ActionAssumption, Alone, BulkInv, Fresh, NEW w \in Worker, NEW b \in Base,
         Bulk!Visit(w, b)
  PROVE  /\ Fresh'
         /\ form'[w].pc # "idle" /\ form'[w].action = form[w].action
         /\ form[w].done \subseteq form'[w].done
<1> DEFINE j == form[w]
<1>1. DataTyped /\ FormsTyped
  BY DEF BulkInv
<1>2. FormOK(j)
  BY <1>1 DEF FormsTyped
<1>3. Bulk!Columns(w) \in Cols
  BY <1>1, ColumnsTyped
<1>4. /\ j.pc = "visit" /\ b \in j.todo /\ UNCHANGED <<Bulk!data, deleted, told, forms, others>>
      /\ \/ form' = [form EXCEPT ![w] = Failed(j)] /\ b \notin bases
         \/ form' = [form EXCEPT ![w] = SkipsDone(j, b)] /\ ~ Bulk!Applies(w, b)
         \/ /\ form' = [form EXCEPT ![w] = SkipsMissed(j, b)]
            /\ ~ Bulk!Applies(w, b) /\ ~ Bulk!Goal(j.user, j.action, b)
         \/ form' = [form EXCEPT ![w] = SkipsErrors(j, b)] /\ j.action = "disown"
         \/ form' = [form EXCEPT ![w] = Writes(j, b, Bulk!Columns(w))] /\ Bulk!Applies(w, b)
  BY <1>1, VisitBecomes
<1>5. FreshForm(j, bases, Now, watches)
  BY DEF Fresh
<1>6. b \in bases
  BY <1>4, <1>5 DEF FreshForm
<1>7. Bulk!Applies(w, b) \/ Bulk!Goal(j.user, j.action, b)
  BY <1>1, <1>4, FreshApplies
<1>8. Bulk!Columns(w) = Now
  BY <1>1, <1>4, FreshColumns
<1>9. bases' = bases /\ watches' = watches /\ Now' = Now /\ \A v \in Worker : v = w
  BY <1>4 DEF Bulk!data, Now, Alone
<1>10. PICK q : /\ form' = [form EXCEPT ![w] = q]
                /\ q.pc # "idle" /\ q.user = j.user /\ q.action = j.action
                /\ q.missed = {} /\ j.done \subseteq q.done
                /\ q.todo \subseteq j.todo /\ q.seen \subseteq {Now}
  <2>1. CASE form' = [form EXCEPT ![w] = SkipsDone(j, b)]
    <3>1. LET q == SkipsDone(j, b) IN
          /\ q.pc # "idle" /\ q.user = j.user /\ q.action = j.action
          /\ q.missed = j.missed /\ q.done = j.done \cup {b}
          /\ q.todo = j.todo \ {b} /\ q.seen \in {j.seen, {}}
      BY <1>2, <1>4, SkipsOK DEF Without
    <3> QED
      BY <1>4, <1>5, <2>1, <3>1 DEF FreshForm
  <2>2. CASE form' = [form EXCEPT ![w] = SkipsErrors(j, b)]
    <3>1. LET q == SkipsErrors(j, b) IN
          /\ q.pc # "idle" /\ q.user = j.user /\ q.action = j.action
          /\ q.missed = j.missed /\ q.done = j.done
          /\ q.todo = j.todo \ {b} /\ q.seen \in {j.seen, {}}
      BY <1>2, <1>4, SkipsOK DEF Without
    <3> QED
      BY <1>4, <1>5, <2>2, <3>1 DEF FreshForm
  <2>3. CASE form' = [form EXCEPT ![w] = Writes(j, b, Bulk!Columns(w))]
    <3>1. LET q == Writes(j, b, Bulk!Columns(w)) IN
          /\ q.pc # "idle" /\ q.user = j.user /\ q.action = j.action
          /\ q.missed = j.missed /\ q.done = j.done
          /\ q.todo = j.todo /\ q.seen = {Bulk!Columns(w)}
      BY <1>2, <1>3, <1>4, WritesOK
    <3> QED
      BY <1>4, <1>5, <1>8, <2>3, <3>1 DEF FreshForm
  <2> QED
    BY <1>4, <1>6, <1>7, <2>1, <2>2, <2>3
<1>11. FreshForm(q, bases', Now', watches')
  BY <1>4, <1>5, <1>9, <1>10 DEF FreshForm
<1>12. form'[w] = q
  BY <1>1, <1>10 DEF FormsTyped
<1> QED
  BY <1>1, <1>9, <1>10, <1>11, <1>12, FreshBecomes

LEMMA WriteFresh ==
  ASSUME Bulk!ActionAssumption, Alone, BulkInv, Fresh, NEW w \in Worker, Bulk!Write(w)
  PROVE  /\ Fresh' /\ told' = told
         /\ form'[w].pc # "idle" /\ form'[w].action = form[w].action
         /\ form'[w].done = form[w].done \cup {form[w].base}
         /\ deleted' = IF form[w].action = "delete" THEN deleted \cup {form[w].base} ELSE deleted
<1> DEFINE j == form[w]
           b == form[w].base
           q == Does(form[w])
<1>1. DataTyped /\ FormsTyped
  BY DEF BulkInv
<1>2. FormOK(j)
  BY <1>1 DEF FormsTyped
<1>3. /\ j.pc = "write" /\ b \in Base /\ UNCHANGED <<told, forms, others>>
      /\ \/ form' = [form EXCEPT ![w] = Failed(j)] /\ Bulk!Breaks(w, b)
           /\ UNCHANGED <<Bulk!data, deleted>>
         \/ /\ DataTyped' /\ Local(b)
            /\ bases' = IF j.action = "delete" THEN bases \ {b} ELSE bases
            /\ deleted' = IF j.action = "delete" THEN deleted \cup {b} ELSE deleted
            /\ \/ form' = [form EXCEPT ![w] = Does(j)]
               \/ /\ form' = [form EXCEPT ![w] = Misses(j)]
                  /\ j.action # "delete"
                  /\ Bulk!Columns(w).flagger # flagger \/ Bulk!Columns(w).maintainer # maintainer
  BY <1>1, WriteBecomes
<1>4. Bulk!Columns(w).flagger = flagger /\ Bulk!Columns(w).maintainer = maintainer
  BY <1>1, <1>3, FreshColumns DEF Now
<1>5. ~ Bulk!Breaks(w, b)
  BY <1>1, <1>3, FreshBreaks
<1>6. /\ Local(b)
      /\ deleted' = IF j.action = "delete" THEN deleted \cup {b} ELSE deleted
      /\ form' = [form EXCEPT ![w] = Does(j)]
  BY <1>3, <1>4, <1>5
<1>7. /\ q.pc = "visit" /\ q.user = j.user /\ q.action = j.action /\ q.todo = j.todo \ {b}
      /\ q.seen = {} /\ q.missed = j.missed /\ q.done = j.done \cup {b}
  BY <1>2, <1>3, DoesOK DEF Without
<1>8. FreshForm(j, bases, Now, watches)
  BY DEF Fresh
<1>9. /\ j.user \in User /\ \A c \in j.todo : c \in Base
  BY <1>2, <1>3 DEF FormOK, BulkForm
<1>10. \A c \in j.todo \ {b} : c \in bases' /\ Allowed(j.user, j.action, c, Now', watches')
  <2> TAKE c \in j.todo \ {b}
  <2>1. c \in Base /\ c # b /\ c \in bases /\ Allowed(j.user, j.action, c, Now, watches)
    BY <1>3, <1>8, <1>9 DEF FreshForm
  <2>2. c \in bases'
    BY <1>6, <2>1 DEF Local
  <2> QED
    BY <1>3, <1>6, <1>9, <2>1, <2>2, AllowedLocal
<1>11. FreshForm(q, bases', Now', watches')
  BY <1>7, <1>8, <1>10 DEF FreshForm
<1>12. form'[w] = q /\ \A v \in Worker : v = w
  BY <1>1, <1>6 DEF FormsTyped, Alone
<1>13. Fresh'
  <2> HIDE DEF q
  <2>1. PICK p : p = q
    OBVIOUS
  <2>2. form' = [form EXCEPT ![w] = p] /\ FreshForm(p, bases', Now', watches')
    BY <1>6, <1>11, <2>1 DEF q
  <2> QED
    BY <1>1, <1>12, <2>2, FreshBecomes
<1> QED
  BY <1>3, <1>6, <1>7, <1>12, <1>13

LEMMA FinishFresh ==
  ASSUME Alone, BulkInv, Fresh, NEW w \in Worker, Bulk!Finish(w)
  PROVE  Fresh'
<1>1. FormsTyped /\ FormOK(form[w]) /\ FreshForm(form[w], bases, Now, watches)
  BY DEF BulkInv, FormsTyped, Fresh
<1>2. PICK q : q = Finished(form[w])
  OBVIOUS
<1>3. form' = [form EXCEPT ![w] = q]
  BY <1>1, <1>2, FinishBecomes
<1>4. q.pc = "idle" /\ q.missed = {}
  BY <1>1, <1>2, EndedOK DEF FreshForm
<1>5. FreshForm(q, bases', Now', watches')
  BY <1>4 DEF FreshForm
<1>6. \A v \in Worker : v = w
  BY DEF Alone
<1> QED
  BY <1>1, <1>3, <1>5, <1>6, FreshBecomes

AloneInv == Fresh /\ Bulk!DeletedIsTold

LEMMA AloneNext ==
  ASSUME Bulk!ActionAssumption, Bulk!BoundAssumption, Alone, BulkInv, AloneInv,
         [Bulk!Next]_(Bulk!vars)
  PROVE  AloneInv'
<1>1. Fresh /\ Bulk!DeletedIsTold /\ FormsTyped
  BY DEF AloneInv, BulkInv
<1>2. ASSUME NEW w \in Worker, NEW u \in User, NEW a \in Actions, NEW S \in SUBSET Base,
             Bulk!Submit(w, u, a, S)
      PROVE  AloneInv'
  <2>1. S \in Bases
    BY DEF Bases
  <2>2. Fresh'
    BY <1>1, <1>2, <2>1, SubmitFresh
  <2>3. Enters(w, u, a, S \cap bases)
    BY <1>2, SubmitBecomes
  <2>4. form[w].pc = "idle" /\ UNCHANGED <<deleted, told>>
    BY <2>3 DEF Enters
  <2>5. deleted \subseteq told
    BY <1>1, <2>4 DEF Bulk!DeletedIsTold, Alone
  <2> QED
    BY <2>2, <2>4, <2>5 DEF AloneInv, Bulk!DeletedIsTold
<1>3. ASSUME NEW w \in Worker, NEW b \in Base, Bulk!Visit(w, b) PROVE AloneInv'
  <2>1. /\ Fresh' /\ form'[w].pc # "idle" /\ form'[w].action = form[w].action
        /\ form[w].done \subseteq form'[w].done
    BY <1>1, <1>3, VisitFresh
  <2>2. UNCHANGED <<deleted, told>>
    BY <1>3 DEF Bulk!Visit
  <2> QED
    BY <1>1, <2>1, <2>2 DEF AloneInv, Bulk!DeletedIsTold, Alone
<1>4. ASSUME NEW w \in Worker, Bulk!Write(w) PROVE AloneInv'
  <2>1. /\ Fresh' /\ told' = told
        /\ form'[w].pc # "idle" /\ form'[w].action = form[w].action
        /\ form'[w].done = form[w].done \cup {form[w].base}
        /\ deleted' = IF form[w].action = "delete" THEN deleted \cup {form[w].base} ELSE deleted
    BY <1>1, <1>4, WriteFresh
  <2> QED
    BY <1>1, <2>1 DEF AloneInv, Bulk!DeletedIsTold, Alone
<1>5. ASSUME NEW w \in Worker, Bulk!Finish(w) PROVE AloneInv'
  <2>1. Fresh'
    BY <1>1, <1>5, FinishFresh
  <2>2. /\ deleted' = deleted
        /\ told' = IF form[w].action = "delete" THEN told \cup form[w].done ELSE told
    BY <1>5 DEF Bulk!Finish
  <2>3. deleted' \subseteq told'
    BY <1>1, <2>2 DEF Bulk!DeletedIsTold, Alone
  <2> QED
    BY <2>1, <2>3 DEF AloneInv, Bulk!DeletedIsTold
<1>6. ASSUME NEW b \in Base,
             \/ \E u \in User : Bulk!Flag(u, b) \/ Bulk!Toggle(u, b) \/ Bulk!Grant(u, b)
             \/ Bulk!Leave(b) \/ Bulk!Remove(b)
      PROVE  AloneInv'
  <2>1. others < MaxOther /\ others \in 0..MaxOther
    BY <1>6, OthersBecome DEF BulkInv, Counted
  <2> QED
    BY <2>1 DEF Alone
<1>7. CASE UNCHANGED Bulk!vars
  <2>1. Now' = Now /\ UNCHANGED <<bases, watches, form, deleted, told>>
    BY <1>7 DEF Bulk!vars, Now
  <2> QED
    BY <1>1, <2>1 DEF AloneInv, Fresh, Bulk!DeletedIsTold
<1> QED
  BY <1>2, <1>3, <1>4, <1>5, <1>6, <1>7 DEF Bulk!Next

LEMMA AloneHolds ==
  ASSUME Bulk!UserAssumption, Bulk!ActionAssumption, Bulk!BoundAssumption, Alone
  PROVE  Bulk!Spec => []AloneInv
<1>1. Bulk!Init => AloneInv
  <2> SUFFICES ASSUME Bulk!Init PROVE AloneInv
    OBVIOUS
  <2>1. \A w \in Worker : form[w] = Bulk!IdleJob
    BY DEF Bulk!Init
  <2>2. Fresh
    BY <2>1 DEF Fresh, FreshForm, Bulk!IdleJob
  <2> QED
    BY <2>2 DEF AloneInv, Bulk!DeletedIsTold, Bulk!Init
<1>2. BulkInv /\ AloneInv /\ [Bulk!Next]_(Bulk!vars) => AloneInv'
  BY AloneNext
<1> QED
  BY <1>1, <1>2, BulkHolds, PTL DEF Bulk!Spec

\* A form that answers that it is done has done what it says to every base that
\* was selected, or found it done, if nobody else writes (packages_post).
THEOREM DoneIsDone ==
  ASSUME Bulk!UserAssumption, Bulk!ActionAssumption, Bulk!BoundAssumption, Alone
  PROVE  Bulk!Spec => []Bulk!AnsweredAsDone
<1>1. AloneInv => Bulk!AnsweredAsDone
  BY DEF AloneInv, Fresh, FreshForm, Bulk!AnsweredAsDone
<1> QED
  BY <1>1, AloneHolds, PTL

\* A base that a form deletes is logged and mailed, at the latest when the form
\* ends, if nobody else writes (packages_delete).
THEOREM DeletionsAreTold ==
  ASSUME Bulk!UserAssumption, Bulk!ActionAssumption, Bulk!BoundAssumption, Alone
  PROVE  Bulk!Spec => []Bulk!DeletedIsTold
<1>1. AloneInv => Bulk!DeletedIsTold
  BY DEF AloneInv
<1> QED
  BY <1>1, AloneHolds, PTL

-----------------------------------------------------------------------------
(* Notifications *)

\* What a handler is about: the base is there until the change that deletes it.
Going ==
    mail.pc # "idle" =>
      /\ mail.event \in Event /\ mail.user \in User
      /\ mail.event \in {"addCo", "removeCo"} => mail.other \in User
      /\ mail.pc \in {"change", "make"} /\ mail.event \notin Note!Request \cup {"resetkey"}
           => exists
      /\ mail.pc = "make" => mail.event # "merge"
      /\ mail.pc = "bcc" => mail.event \in Note!Request /\ Interface # "cli"

Headers == SUBSET User
MailRow == [pc : {"idle", "change", "make", "bcc", "send"}, event : Note!AllEvents,
         user : User \cup {NoUser}, other : User \cup {NoUser},
         to : Headers, cc : Headers, bcc : Headers]

\* The parts of TypeOK.
PageTyped ==
    /\ exists \in BOOLEAN
    /\ maintainer \in User \cup {NoUser} /\ comaintainers \subseteq User
    /\ watch \subseteq User /\ hide \subseteq User /\ suspended \subseteq User
    /\ ~ exists => watch = {} /\ comaintainers = {} /\ maintainer = NoUser
    /\ requester \in User \cup {NoUser}
ToldTyped == due \subseteq User /\ told \subseteq User \X {"to", "cc", "bcc"}

MailInv == PageTyped /\ mail \in MailRow /\ ToldTyped /\ Going

LEMMA MailInvIsType ==
  ASSUME MailInv
  PROVE  Note!TypeOK
  BY DEF MailInv, PageTyped, ToldTyped, MailRow, Headers, Note!TypeOK

\* What a handler goes on with.
Happened(e, u, v) == [Note!Idle EXCEPT !.pc = IF e \in Note!MadeFirst THEN "make" ELSE "change",
                                  !.event = e, !.user = u, !.other = v]
Changed(m) == [m EXCEPT !.pc = IF m.event \in Note!MadeFirst THEN "send" ELSE "make"]
Made(m, T) == [m EXCEPT !.to = T, !.pc = IF m.event \in Note!MadeFirst THEN "change" ELSE "send"]
MadeCc(m, C, B, p) == [m EXCEPT !.cc = C, !.bcc = B, !.pc = p]
MadeBcc(m, B) == [m EXCEPT !.bcc = B, !.pc = "send"]

LEMMA IdleIsMail == Note!Idle \in MailRow
  BY DEF Note!Idle, MailRow, Headers, Note!AllEvents, Note!Watched

LEMMA HappenedIsMail ==
  ASSUME NEW e \in Note!AllEvents, NEW u \in User, NEW v \in User \cup {NoUser},
         NEW m, m = Happened(e, u, v)
  PROVE  /\ m \in MailRow /\ m.event = e /\ m.user = u /\ m.other = v
         /\ m.pc = IF e \in Note!MadeFirst THEN "make" ELSE "change"
         /\ m.to = {} /\ m.cc = {} /\ m.bcc = {}
  BY DEF Happened, Note!Idle, MailRow, Headers

LEMMA ChangedIsMail ==
  ASSUME NEW m \in MailRow, NEW n, n = Changed(m)
  PROVE  /\ n \in MailRow /\ n.event = m.event /\ n.user = m.user /\ n.other = m.other
         /\ n.pc = IF m.event \in Note!MadeFirst THEN "send" ELSE "make"
         /\ n.to = m.to /\ n.cc = m.cc /\ n.bcc = m.bcc
  BY DEF Changed, MailRow

LEMMA MadeIsMail ==
  ASSUME NEW m \in MailRow, NEW T \in Headers, NEW n, n = Made(m, T)
  PROVE  /\ n \in MailRow /\ n.event = m.event /\ n.user = m.user /\ n.other = m.other
         /\ n.pc = IF m.event \in Note!MadeFirst THEN "change" ELSE "send"
         /\ n.to = T /\ n.cc = m.cc /\ n.bcc = m.bcc
  BY DEF Made, MailRow

Onward == {"bcc", "send"}

LEMMA MadeCcIsMail ==
  ASSUME NEW m \in MailRow, NEW C \in Headers, NEW B \in Headers, NEW p \in Onward,
         NEW n, n = MadeCc(m, C, B, p)
  PROVE  /\ n \in MailRow /\ n.event = m.event /\ n.user = m.user /\ n.other = m.other
         /\ n.pc = p /\ n.to = m.to /\ n.cc = C /\ n.bcc = B
  BY DEF MadeCc, MailRow, Onward

LEMMA MadeBccIsMail ==
  ASSUME NEW m \in MailRow, NEW B \in Headers, NEW n, n = MadeBcc(m, B)
  PROVE  /\ n \in MailRow /\ n.event = m.event /\ n.user = m.user /\ n.other = m.other
         /\ n.pc = "send" /\ n.to = m.to /\ n.cc = m.cc /\ n.bcc = B
  BY DEF MadeBcc, MailRow

-----------------------------------------------------------------------------
\* The steps.
LEMMA StartBecomes ==
  ASSUME NEW e, NEW u, NEW v, Note!Happens(e, u, v)
  PROVE  /\ mail.pc = "idle" /\ e \in Event /\ told' = {}
         /\ mail' = Happened(e, u, v) /\ UNCHANGED <<Note!base, Note!settings>>
  BY DEF Note!Happens, Happened

LEMMA StartKeeps ==
  ASSUME MailInv, Note!EventAssumption, NEW e, NEW u \in User, NEW v \in User \cup {NoUser},
         Note!Happens(e, u, v), due' \subseteq User,
         e \notin Note!Request \cup {"resetkey"} => exists,
         e \in {"addCo", "removeCo"} => v \in User
  PROVE  MailInv'
<1>1. /\ e \in Event /\ told' = {} /\ mail' = Happened(e, u, v)
      /\ UNCHANGED <<Note!base, Note!settings>>
  BY StartBecomes
<1>2. e \in Note!AllEvents
  BY <1>1 DEF Note!EventAssumption
<1>3. /\ mail' \in MailRow /\ mail'.event = e /\ mail'.user = u /\ mail'.other = v
      /\ mail'.pc = IF e \in Note!MadeFirst THEN "make" ELSE "change"
  BY <1>1, <1>2, HappenedIsMail
<1>4. PageTyped'
  BY <1>1 DEF MailInv, PageTyped, Note!base, Note!settings
<1>5. exists' = exists
  BY <1>1 DEF Note!base
<1>6. Going'
  BY <1>1, <1>3, <1>5 DEF Going, Note!MadeFirst
<1> QED
  BY <1>1, <1>3, <1>4, <1>6 DEF MailInv, ToldTyped

LEMMA KeepersTyped ==
  ASSUME PageTyped
  PROVE  Note!Keepers \subseteq User /\ NoUser \notin Note!Keepers
  BY DEF PageTyped, Note!Keepers

\* The transaction of an event.
LEMMA ChangeBecomes ==
  ASSUME MailInv, Note!Change
  PROVE  /\ mail.pc = "change" /\ PageTyped' /\ UNCHANGED <<hide, suspended, due, told>>
         /\ exists' = (exists /\ mail.event \notin {"delete", "merge"})
         /\ requester' = IF mail.event = "open" THEN mail.user ELSE requester
         /\ mail' = IF mail.event = "merge" THEN Note!Idle ELSE Changed(mail)
<1> DEFINE e == mail.event
<1>1. /\ mail.pc = "change" /\ UNCHANGED <<hide, suspended, due, told>>
      /\ exists' = (exists /\ e \notin {"delete", "merge"})
      /\ requester' = IF e = "open" THEN mail.user ELSE requester
      /\ watch' = IF e \in {"delete", "merge"} THEN {} ELSE watch
      /\ mail' = IF e = "merge" THEN Note!Idle ELSE Changed(mail)
  BY DEF Note!Change, Changed
<1>2. PageTyped /\ e \in Note!AllEvents
  BY DEF MailInv, MailRow
<1>3. /\ mail.user \in User
      /\ e \in {"addCo", "removeCo"} => mail.other \in User
      /\ e \notin Note!Request \cup {"resetkey"} => exists
  BY <1>1 DEF MailInv, Going
<1>4. CASE e = "disown"
  <2>1. Note!Disown(mail.user) /\ exists /\ exists'
    BY <1>1, <1>3, <1>4 DEF Note!Change, Note!Request
  <2>2. maintainer' \in User \cup {NoUser} /\ comaintainers' \subseteq User
    BY <1>2, <2>1 DEF Note!Disown, PageTyped
  <2> QED
    BY <1>1, <1>2, <1>3, <1>4, <2>1, <2>2 DEF PageTyped
<1>5. CASE e # "disown"
  <2>1. /\ maintainer' = CASE e = "adopt" -> mail.user
                           [] e \in {"delete", "merge"} -> NoUser
                           [] OTHER -> maintainer
        /\ comaintainers' = CASE e = "addCo" -> comaintainers \cup {mail.other}
                              [] e = "removeCo" -> comaintainers \ {mail.other}
                              [] e \in {"delete", "merge"} -> {}
                              [] OTHER -> comaintainers
    BY <1>5 DEF Note!Change
  <2>2. CASE e \in {"delete", "merge"}
    <3>1. maintainer' = NoUser /\ comaintainers' = {} /\ watch' = {} /\ requester' = requester
      BY <1>1, <2>1, <2>2
    <3> QED
      BY <1>1, <1>2, <2>2, <3>1 DEF PageTyped
  <2>3. CASE e \in {"adopt", "addCo", "removeCo"}
    <3>1. /\ maintainer' \in User \cup {NoUser} /\ comaintainers' \subseteq User
          /\ watch' = watch /\ requester' = requester
      BY <1>1, <1>2, <1>3, <2>1, <2>3 DEF PageTyped
    <3>2. exists /\ exists'
      BY <1>1, <1>3, <2>3 DEF Note!Request
    <3> QED
      BY <1>1, <1>2, <3>1, <3>2 DEF PageTyped
  <2>4. CASE e \notin {"delete", "merge", "adopt", "addCo", "removeCo"}
    <3>1. maintainer' = maintainer /\ comaintainers' = comaintainers /\ watch' = watch
      BY <1>1, <2>1, <2>4
    <3> QED
      BY <1>1, <1>2, <1>3, <2>4, <3>1 DEF PageTyped
  <2> QED
    BY <2>2, <2>3, <2>4
<1> QED
  BY <1>1, <1>4, <1>5

LEMMA ChangeKeeps ==
  ASSUME MailInv, Note!Change
  PROVE  MailInv'
<1>1. /\ mail.pc = "change" /\ PageTyped' /\ UNCHANGED <<hide, suspended, due, told>>
      /\ exists' = (exists /\ mail.event \notin {"delete", "merge"})
      /\ mail' = IF mail.event = "merge" THEN Note!Idle ELSE Changed(mail)
  BY ChangeBecomes
<1>2. mail \in MailRow /\ Going /\ ToldTyped
  BY DEF MailInv
<1>3. ToldTyped'
  BY <1>1, <1>2 DEF ToldTyped
<1>4. CASE mail.event = "merge"
  <2>1. mail' \in MailRow /\ mail'.pc = "idle"
    BY <1>1, <1>4, IdleIsMail DEF Note!Idle
  <2> QED
    BY <1>1, <1>3, <2>1 DEF MailInv, Going
<1>5. CASE mail.event # "merge"
  <2>1. /\ mail' \in MailRow /\ mail'.event = mail.event /\ mail'.user = mail.user
        /\ mail'.other = mail.other
        /\ mail'.pc = IF mail.event \in Note!MadeFirst THEN "send" ELSE "make"
    BY <1>1, <1>2, <1>5, ChangedIsMail
  <2>2. Going'
    BY <1>1, <1>2, <1>5, <2>1 DEF Going, Note!MadeFirst
  <2> QED
    BY <1>1, <1>3, <2>1, <2>2 DEF MailInv
<1> QED
  BY <1>4, <1>5

\* The recipients are users.
LEMMA RecipientsTyped ==
  ASSUME PageTyped, NEW e \in Note!AllEvents \ Note!Request, e # "merge", NEW u \in User, NEW v,
         e \in {"addCo", "removeCo"} => v \in User
  PROVE  Note!Recipients(e, u, v) \in Headers
<1>1. Note!Keepers \subseteq User /\ watch \subseteq User
  BY KeepersTyped DEF PageTyped
<1>2. CASE e \in {"comment", "update", "delete"}
  BY <1>1, <1>2 DEF Note!Recipients, Note!CommentTo, Note!UpdateTo, Note!DeleteTo, Headers
<1>3. CASE e \in {"adopt", "disown"}
  BY <1>1, <1>3 DEF Note!Recipients, Note!OwnershipTo, Headers
<1>4. CASE e \in {"flag", "resetkey"}
  BY <1>1, <1>4 DEF Note!Recipients, Note!FlagTo, Note!ResetKeyTo, Headers
<1>5. CASE e \in {"addCo", "removeCo"}
  BY <1>5 DEF Note!Recipients, Note!ComaintainershipTo, Headers
<1> QED
  BY <1>2, <1>3, <1>4, <1>5 DEF Note!AllEvents, Note!Watched, Note!Request

LEMMA PartiesTyped ==
  ASSUME PageTyped, NEW e
  PROVE  Note!Parties(e) \in Headers
<1>1. Note!Keepers \subseteq User /\ requester \in User \cup {NoUser}
  BY KeepersTyped DEF PageTyped
<1> QED
  BY <1>1 DEF Note!Parties, Note!OpenParties, Note!CloseParties, Headers

LEMMA MakeBecomes ==
  ASSUME MailInv, Note!Make
  PROVE  LET T == Note!Recipients(mail.event, mail.user, mail.other) IN
         /\ mail.pc = "make" /\ mail.event \notin Note!Request /\ T \in Headers
         /\ UNCHANGED <<Note!base, Note!settings, due, told>>
         /\ mail' = Made(mail, T)
<1> DEFINE T == Note!Recipients(mail.event, mail.user, mail.other)
<1>1. mail.pc = "make" /\ mail.event \notin Note!Request
        /\ UNCHANGED <<Note!base, Note!settings, due, told>>
  BY DEF Note!Make
<1>2. PageTyped /\ mail.event \in Note!AllEvents
  BY DEF MailInv, MailRow
<1>3. /\ mail.user \in User
      /\ mail.event \in {"addCo", "removeCo"} => mail.other \in User
      /\ mail.event # "resetkey" => exists
      /\ mail.event # "merge"
  BY <1>1 DEF MailInv, Going
<1>4. T \in Headers
  BY <1>1, <1>2, <1>3, RecipientsTyped
<1>5. mail' = Made(mail, T)
  BY <1>3 DEF Note!Make, Made
<1> QED
  BY <1>1, <1>4, <1>5

LEMMA MakeCcBecomes ==
  ASSUME MailInv, Note!MakeCc
  PROVE  LET P == Note!Parties(mail.event) IN
         /\ mail.pc = "make" /\ mail.event \in Note!Request /\ P \in Headers
         /\ UNCHANGED <<Note!base, Note!settings, due, told>>
         /\ mail' = MadeCc(mail, P \ hide, IF Interface = "cli" THEN P \cap hide ELSE {},
                           IF Interface = "cli" THEN "send" ELSE "bcc")
<1>1. PageTyped
  BY DEF MailInv
<1>2. Note!Parties(mail.event) \in Headers
  BY <1>1, PartiesTyped
<1> QED
  BY <1>2 DEF Note!MakeCc, MadeCc

LEMMA MakeBccBecomes ==
  ASSUME MailInv, Note!MakeBcc
  PROVE  /\ mail.pc = "bcc" /\ Note!Parties(mail.event) \in Headers
         /\ UNCHANGED <<Note!base, Note!settings, due, told>>
         /\ mail' = MadeBcc(mail, Note!Parties(mail.event) \cap hide)
<1>1. PageTyped
  BY DEF MailInv
<1>2. Note!Parties(mail.event) \in Headers
  BY <1>1, PartiesTyped
<1> QED
  BY <1>2 DEF Note!MakeBcc, MadeBcc

\* The step of a handler that only goes on with its mail.
LEMMA OnlyMail ==
  ASSUME MailInv, UNCHANGED <<Note!base, Note!settings, due, told>>, mail' \in MailRow, Going'
  PROVE  MailInv'
  BY DEF MailInv, PageTyped, ToldTyped, Note!base, Note!settings

LEMMA MakeKeeps ==
  ASSUME MailInv, Note!Make
  PROVE  MailInv'
<1> DEFINE T == Note!Recipients(mail.event, mail.user, mail.other)
<1>1. /\ mail.pc = "make" /\ mail.event \notin Note!Request /\ T \in Headers
      /\ UNCHANGED <<Note!base, Note!settings, due, told>>
      /\ mail' = Made(mail, T)
  BY MakeBecomes
<1>2. mail \in MailRow /\ Going /\ exists' = exists
  BY <1>1 DEF MailInv, Note!base
<1> HIDE DEF T
<1>3. /\ mail' \in MailRow /\ mail'.event = mail.event /\ mail'.user = mail.user
      /\ mail'.other = mail.other
      /\ mail'.pc = IF mail.event \in Note!MadeFirst THEN "change" ELSE "send"
  BY <1>1, <1>2, MadeIsMail
<1>4. Going'
  BY <1>1, <1>2, <1>3 DEF Going
<1> QED
  BY <1>1, <1>3, <1>4, OnlyMail

LEMMA MakeCcKeeps ==
  ASSUME MailInv, Note!MakeCc
  PROVE  MailInv'
<1> DEFINE P == Note!Parties(mail.event)
           C == P \ hide
           B == IF Interface = "cli" THEN P \cap hide ELSE {}
           p == IF Interface = "cli" THEN "send" ELSE "bcc"
<1>1. /\ mail.pc = "make" /\ mail.event \in Note!Request /\ P \in Headers
      /\ UNCHANGED <<Note!base, Note!settings, due, told>>
      /\ mail' = MadeCc(mail, C, B, p)
  BY MakeCcBecomes
<1>2. mail \in MailRow /\ Going
  BY DEF MailInv
<1>3. C \in Headers /\ B \in Headers
  BY <1>1 DEF Headers
<1>4. p \in Onward /\ (p = "bcc" => Interface # "cli")
  BY DEF Onward
<1> HIDE DEF C, B, p
<1>5. /\ mail' \in MailRow /\ mail'.event = mail.event /\ mail'.user = mail.user
      /\ mail'.other = mail.other /\ mail'.pc = p
  BY <1>1, <1>2, <1>3, <1>4, MadeCcIsMail
<1>6. Going'
  BY <1>1, <1>2, <1>4, <1>5 DEF Going, Note!Request
<1> QED
  BY <1>1, <1>5, <1>6, OnlyMail

LEMMA MakeBccKeeps ==
  ASSUME MailInv, Note!MakeBcc
  PROVE  MailInv'
<1> DEFINE B == Note!Parties(mail.event) \cap hide
<1>1. /\ mail.pc = "bcc" /\ Note!Parties(mail.event) \in Headers
      /\ UNCHANGED <<Note!base, Note!settings, due, told>>
      /\ mail' = MadeBcc(mail, B)
  BY MakeBccBecomes
<1>2. mail \in MailRow /\ Going
  BY DEF MailInv
<1>3. B \in Headers
  BY <1>1 DEF Headers
<1> HIDE DEF B
<1>4. /\ mail' \in MailRow /\ mail'.event = mail.event /\ mail'.user = mail.user
      /\ mail'.other = mail.other /\ mail'.pc = "send"
  BY <1>1, <1>2, <1>3, MadeBccIsMail
<1>5. Going'
  BY <1>1, <1>2, <1>4 DEF Going, Note!Request
<1> QED
  BY <1>1, <1>4, <1>5, OnlyMail

LEMMA SendKeeps ==
  ASSUME MailInv, Note!Send
  PROVE  MailInv'
<1>1. /\ mail.pc = "send" /\ mail' = Note!Idle /\ UNCHANGED <<Note!base, Note!settings, due>>
      /\ told' \subseteq (mail.to \X {"to"}) \cup (mail.cc \X {"cc"}) \cup (mail.bcc \X {"bcc"})
  BY DEF Note!Send
<1>2. mail.to \subseteq User /\ mail.cc \subseteq User /\ mail.bcc \subseteq User
  BY DEF MailInv, MailRow, Headers
<1>3. mail' \in MailRow /\ mail'.pc = "idle"
  BY <1>1, IdleIsMail DEF Note!Idle
<1>4. ToldTyped'
  BY <1>1, <1>2 DEF MailInv, ToldTyped
<1>5. PageTyped'
  BY <1>1 DEF MailInv, PageTyped, Note!base, Note!settings
<1> QED
  BY <1>3, <1>4, <1>5 DEF MailInv, Going

LEMMA SettingKeeps ==
  ASSUME MailInv, NEW u \in User, Note!Watch(u) \/ Note!Suspend(u) \/ Note!HideEmail(u)
  PROVE  MailInv'
<1>1. /\ UNCHANGED <<Note!base, mail, told>> /\ due' \subseteq due
      /\ watch' \subseteq User /\ hide' \subseteq User /\ suspended' \subseteq User
      /\ watch' = watch \/ exists
  BY DEF Note!Watch, Note!Suspend, Note!HideEmail, Note!Forget, MailInv, PageTyped
<1>2. PageTyped'
  BY <1>1 DEF MailInv, PageTyped, Note!base
<1>3. ToldTyped' /\ Going'
  BY <1>1 DEF MailInv, ToldTyped, Going, Note!base
<1> QED
  BY <1>1, <1>2, <1>3 DEF MailInv

-----------------------------------------------------------------------------
\* The users to tell are users.
LEMMA BeginBecomes ==
  ASSUME MailInv, Note!EventAssumption,
         Note!Start \/ Note!StartCo \/ Note!StartRequest \/ Note!StartReset
  PROVE  \E e \in Note!AllEvents, u \in User, v \in User \cup {NoUser} :
           /\ Note!Happens(e, u, v) /\ due' \subseteq User
           /\ e \notin Note!Request \cup {"resetkey"} => exists
           /\ e \in {"addCo", "removeCo"} => v \in User
           /\ \/ /\ e \in Note!Watched
                 /\ due' = {x \in watch : /\ x # u /\ x \notin suspended
                                          /\ e \in {"comment", "update"} => e \in Wants[x]
                                          /\ e \in {"adopt", "disown"} => "ownership" \in Wants[x]}
              \/ e = "flag" /\ due' = Note!Keepers \ suspended
              \/ e \in {"addCo", "removeCo"} /\ due' = {v}
              \/ e = "open" /\ exists /\ due' = (Note!Keepers \cup {u}) \ suspended
              \/ /\ e = "close" /\ requester # NoUser
                 /\ due' = (Note!Keepers \cup {requester}) \ suspended
              \/ e = "resetkey" /\ u \notin suspended /\ due' = {u}
<1>1. Note!Keepers \subseteq User /\ watch \subseteq User /\ requester \in User \cup {NoUser}
  BY KeepersTyped DEF MailInv, PageTyped
<1>2. /\ \A e \in Note!Watched : e \in Note!AllEvents /\ e \notin {"flag", "addCo", "removeCo"}
      /\ {"flag", "addCo", "removeCo", "resetkey", "open", "close"} \subseteq Note!AllEvents
  BY DEF Note!AllEvents, Note!Watched, Note!Request
<1>3. CASE Note!Start
  BY <1>1, <1>2, <1>3 DEF Note!Start
<1>4. CASE Note!StartCo
  <2>1. PICK e \in {"addCo", "removeCo"}, u \in User, v \in User :
           exists /\ Note!Happens(e, u, v) /\ due' = {v}
    BY <1>4 DEF Note!StartCo
  <2> QED
    BY <1>2, <2>1
<1>5. CASE Note!StartRequest
  <2>1. PICK e \in Note!Request, u \in User :
           /\ IF e = "open" THEN exists ELSE requester # NoUser
           /\ Note!Happens(e, u, NoUser)
           /\ due' = (Note!Keepers \cup {IF e = "open" THEN u ELSE requester}) \ suspended
    BY <1>5 DEF Note!StartRequest
  <2>2. CASE e = "open"
    BY <1>1, <1>2, <2>1, <2>2 DEF Note!Request
  <2>3. CASE e = "close"
    BY <1>1, <1>2, <2>1, <2>3 DEF Note!Request
  <2> QED
    BY <2>2, <2>3 DEF Note!Request
<1>6. CASE Note!StartReset
  <2>1. PICK u \in User : u \notin suspended /\ Note!Happens("resetkey", u, u) /\ due' = {u}
    BY <1>6 DEF Note!StartReset
  <2> QED
    BY <1>2, <2>1
<1> QED
  BY <1>3, <1>4, <1>5, <1>6

-----------------------------------------------------------------------------
LEMMA MailInit ==
  ASSUME Note!Init
  PROVE  MailInv
<1>1. mail = Note!Idle /\ mail \in MailRow /\ mail.pc = "idle"
  BY IdleIsMail DEF Note!Init, Note!Idle
<1>2. PageTyped /\ ToldTyped
  BY DEF Note!Init, PageTyped, ToldTyped
<1> QED
  BY <1>1, <1>2 DEF MailInv, Going

LEMMA BeginKeeps ==
  ASSUME MailInv, Note!EventAssumption,
         Note!Start \/ Note!StartCo \/ Note!StartRequest \/ Note!StartReset
  PROVE  MailInv'
<1>1. PICK e \in Note!AllEvents, u \in User, v \in User \cup {NoUser} :
           /\ Note!Happens(e, u, v) /\ due' \subseteq User
           /\ e \notin Note!Request \cup {"resetkey"} => exists
           /\ e \in {"addCo", "removeCo"} => v \in User
  BY BeginBecomes
<1> QED
  BY <1>1, StartKeeps

LEMMA MailNext ==
  ASSUME Note!EventAssumption, MailInv, [Note!Next]_(Note!vars)
  PROVE  MailInv'
<1>1. CASE Note!Start \/ Note!StartCo \/ Note!StartRequest \/ Note!StartReset
  BY <1>1, BeginKeeps
<1>2. CASE Note!Change
  BY <1>2, ChangeKeeps
<1>3. CASE Note!Make
  BY <1>3, MakeKeeps
<1>4. CASE Note!MakeCc
  BY <1>4, MakeCcKeeps
<1>5. CASE Note!MakeBcc
  BY <1>5, MakeBccKeeps
<1>6. CASE Note!Send
  BY <1>6, SendKeeps
<1>7. ASSUME NEW u \in User, Note!Watch(u) \/ Note!Suspend(u) \/ Note!HideEmail(u) PROVE MailInv'
  BY <1>7, SettingKeeps
<1>8. CASE UNCHANGED Note!vars
  BY <1>8 DEF Note!vars, MailInv, PageTyped, ToldTyped, Going
<1> QED
  BY <1>1, <1>2, <1>3, <1>4, <1>5, <1>6, <1>7, <1>8 DEF Note!Next

LEMMA MailHolds ==
  ASSUME Note!EventAssumption
  PROVE  Note!Spec => []MailInv
  BY MailInit, MailNext, PTL DEF Note!Spec

\* The types of Notifications, for any users, events and settings: only users
\* are mailed (the queries of notify.py), and nobody maintains, helps to maintain
\* or watches a base that is gone.
THEOREM NotificationTypes ==
  ASSUME Note!EventAssumption
  PROVE  Note!Spec => []Note!TypeOK
<1>1. MailInv => Note!TypeOK
  BY MailInvIsType
<1> QED
  BY <1>1, MailHolds, PTL

-----------------------------------------------------------------------------
(* Who is suspended is in no list that is made.                            *)

LEMMA RecipientsSpare ==
  ASSUME NEW e \in Note!AllEvents \ Note!Request, e # "merge", NEW u, NEW v
  PROVE  Note!Recipients(e, u, v) \cap suspended \subseteq {v}
<1>1. CASE e \in {"comment", "update", "delete"}
  BY <1>1 DEF Note!Recipients, Note!CommentTo, Note!UpdateTo, Note!DeleteTo
<1>2. CASE e \in {"adopt", "disown"}
  BY <1>2 DEF Note!Recipients, Note!OwnershipTo
<1>3. CASE e \in {"flag", "resetkey"}
  BY <1>3 DEF Note!Recipients, Note!FlagTo, Note!ResetKeyTo
<1>4. CASE e \in {"addCo", "removeCo"}
  BY <1>4 DEF Note!Recipients, Note!ComaintainershipTo
<1> QED
  BY <1>1, <1>2, <1>3, <1>4 DEF Note!AllEvents, Note!Watched, Note!Request

LEMMA PartiesSpare ==
  ASSUME NEW e
  PROVE  Note!Parties(e) \cap suspended = {}
  BY DEF Note!Parties, Note!OpenParties, Note!CloseParties

\* No step makes a mail for a suspended user, but for the one about being on a
\* list of co-maintainers: for any users, events and settings, whatever changes
\* between the event and its mail (User.Suspended == 0 in notify.py).
THEOREM SuspendedAreSpared ==
  ASSUME Note!EventAssumption
  PROVE  Note!Spec => [][Note!StepSparesSuspended]_(Note!vars)
<1>1. MailInv /\ [Note!Next]_(Note!vars) => [Note!StepSparesSuspended]_(Note!vars)
  <2> SUFFICES ASSUME MailInv, Note!Next
               PROVE  Note!StepSparesSuspended
    BY DEF Note!StepSparesSuspended, Note!vars
  <2>0. mail \in MailRow
    BY DEF MailInv
  <2>1. CASE Note!Start \/ Note!StartCo \/ Note!StartRequest \/ Note!StartReset
    <3>1. PICK e \in Note!AllEvents, u \in User, v \in User \cup {NoUser} : Note!Happens(e, u, v)
      BY <2>1, BeginBecomes
    <3>2. mail' = Happened(e, u, v)
      BY <3>1, StartBecomes
    <3>3. mail'.to = {} /\ mail'.cc = {} /\ mail'.bcc = {}
      BY <3>2, HappenedIsMail
    <3> QED
      BY <3>3 DEF Note!StepSparesSuspended
  <2>2. CASE Note!Change
    <3>1. mail' = Note!Idle \/ mail' = Changed(mail)
      BY <2>2, ChangeBecomes
    <3>2. CASE mail' = Note!Idle
      BY <3>2 DEF Note!Idle, Note!StepSparesSuspended
    <3>3. CASE mail' = Changed(mail)
      <4>1. mail'.to = mail.to /\ mail'.cc = mail.cc /\ mail'.bcc = mail.bcc
        BY <2>0, <3>3, ChangedIsMail
      <4> QED
        BY <4>1 DEF Note!StepSparesSuspended
    <3> QED
      BY <3>1, <3>2, <3>3
  <2>3. CASE Note!Make
    <3> DEFINE T == Note!Recipients(mail.event, mail.user, mail.other)
    <3>1. /\ mail.pc = "make" /\ mail.event \notin Note!Request /\ T \in Headers
          /\ mail' = Made(mail, T)
      BY <2>3, MakeBecomes
    <3>2. mail.event \in Note!AllEvents /\ mail.event # "merge"
      BY <3>1 DEF MailInv, MailRow, Going
    <3>3. T \cap suspended \subseteq {mail.other}
      BY <3>1, <3>2, RecipientsSpare
    <3> HIDE DEF T
    <3>4. mail'.to = T /\ mail'.cc = mail.cc /\ mail'.bcc = mail.bcc
      BY <2>0, <3>1, MadeIsMail
    <3> QED
      BY <3>3, <3>4 DEF Note!StepSparesSuspended
  <2>4. CASE Note!MakeCc
    <3> DEFINE P == Note!Parties(mail.event)
               C == P \ hide
               B == IF Interface = "cli" THEN P \cap hide ELSE {}
               p == IF Interface = "cli" THEN "send" ELSE "bcc"
    <3>1. P \in Headers /\ mail' = MadeCc(mail, C, B, p)
      BY <2>4, MakeCcBecomes
    <3>2. C \in Headers /\ B \in Headers /\ p \in Onward
      BY <3>1 DEF Headers, Onward
    <3>3. (C \cup B) \cap suspended = {}
      BY PartiesSpare
    <3> HIDE DEF C, B, p
    <3>4. mail'.to = mail.to /\ mail'.cc = C /\ mail'.bcc = B
      BY <2>0, <3>1, <3>2, MadeCcIsMail
    <3> QED
      BY <3>3, <3>4 DEF Note!StepSparesSuspended
  <2>5. CASE Note!MakeBcc
    <3> DEFINE B == Note!Parties(mail.event) \cap hide
    <3>1. Note!Parties(mail.event) \in Headers /\ mail' = MadeBcc(mail, B)
      BY <2>5, MakeBccBecomes
    <3>2. B \in Headers
      BY <3>1 DEF Headers
    <3>3. B \cap suspended = {}
      BY PartiesSpare
    <3> HIDE DEF B
    <3>4. mail'.to = mail.to /\ mail'.cc = mail.cc /\ mail'.bcc = B
      BY <2>0, <3>1, <3>2, MadeBccIsMail
    <3> QED
      BY <3>3, <3>4 DEF Note!StepSparesSuspended
  <2>6. CASE Note!Send
    BY <2>6 DEF Note!Send, Note!Idle, Note!StepSparesSuspended
  <2>7. ASSUME NEW u \in User, Note!Watch(u) \/ Note!Suspend(u) \/ Note!HideEmail(u)
        PROVE  mail' = mail
    BY <2>7 DEF Note!Watch, Note!Suspend, Note!HideEmail
  <2> QED
    BY <2>1, <2>2, <2>3, <2>4, <2>5, <2>6, <2>7 DEF Note!Next, Note!StepSparesSuspended
<1> QED
  BY <1>1, MailHolds, PTL DEF Note!Spec

-----------------------------------------------------------------------------
(* The headers.  On the web the lists of a request are made in two         *)
(* queries: nobody may hide or show an address in between.                 *)

Steady == "hide" \notin Setting \/ Interface = "cli"

\* The lists of m, when H are those who hide their address.
Lists(m, H) ==
    /\ m.event \in Note!Request => m.to = {}
    /\ m.event \notin Note!Request => m.cc = {} /\ m.bcc = {}
    /\ Steady => m.cc \cap m.bcc = {}
    /\ "hide" \notin Setting => m.cc \cap H = {}

Shown == "hide" \notin Setting => Note!HiddenIsNotShown

ListsInv == Lists(mail, hide) /\ (Steady => Note!NobodyTwice) /\ Shown

\* The mail is of the lists, and not yet sent.
LEMMA ListsBecome ==
  ASSUME ListsInv, Lists(mail', hide'), told' \subseteq told,
         hide' \subseteq hide \/ "hide" \in Setting
  PROVE  ListsInv'
<1>1. Steady => Note!NobodyTwice'
  BY DEF ListsInv, Note!NobodyTwice
<1>2. Shown'
  BY DEF ListsInv, Shown, Note!HiddenIsNotShown
<1> QED
  BY <1>1, <1>2 DEF ListsInv

LEMMA ListsNext ==
  ASSUME Note!EventAssumption, MailInv, ListsInv, [Note!Next]_(Note!vars)
  PROVE  ListsInv'
<1>1. mail \in MailRow /\ Lists(mail, hide) /\ Going
  BY DEF MailInv, ListsInv
<1>2. CASE Note!Start \/ Note!StartCo \/ Note!StartRequest \/ Note!StartReset
  <2>1. PICK e \in Note!AllEvents, u \in User, v \in User \cup {NoUser} : Note!Happens(e, u, v)
    BY <1>2, BeginBecomes DEF ListsInv
  <2>2. mail' = Happened(e, u, v) /\ told' = {} /\ hide' = hide
    BY <2>1, StartBecomes DEF Note!settings
  <2>3. mail'.to = {} /\ mail'.cc = {} /\ mail'.bcc = {}
    BY <2>2, HappenedIsMail
  <2>4. Lists(mail', hide')
    BY <2>3 DEF Lists
  <2> QED
    BY <2>2, <2>4, ListsBecome
<1>3. CASE Note!Change
  <2>1. /\ mail' = Note!Idle \/ mail' = Changed(mail)
        /\ told' = told /\ hide' = hide
    BY <1>3, ChangeBecomes
  <2>2. CASE mail' = Note!Idle
    <3>1. Lists(mail', hide')
      BY <2>2 DEF Lists, Note!Idle
    <3> QED
      BY <2>1, <3>1, ListsBecome
  <2>3. CASE mail' = Changed(mail)
    <3>1. /\ mail'.event = mail.event
          /\ mail'.to = mail.to /\ mail'.cc = mail.cc /\ mail'.bcc = mail.bcc
      BY <1>1, <2>3, ChangedIsMail
    <3>2. Lists(mail', hide')
      BY <1>1, <2>1, <3>1 DEF Lists
    <3> QED
      BY <2>1, <3>2, ListsBecome
  <2> QED
    BY <2>1, <2>2, <2>3
<1>4. CASE Note!Make
  <2> DEFINE T == Note!Recipients(mail.event, mail.user, mail.other)
  <2>1. /\ mail.event \notin Note!Request /\ T \in Headers
        /\ UNCHANGED <<Note!base, Note!settings, due, told>>
        /\ mail' = Made(mail, T)
    BY <1>4, MakeBecomes
  <2> HIDE DEF T
  <2>2. mail'.event = mail.event /\ mail'.cc = mail.cc /\ mail'.bcc = mail.bcc
    BY <1>1, <2>1, MadeIsMail
  <2>3. hide' = hide /\ told' = told
    BY <2>1 DEF Note!settings
  <2>4. Lists(mail', hide')
    BY <1>1, <2>1, <2>2, <2>3 DEF Lists
  <2> QED
    BY <2>3, <2>4, ListsBecome
<1>5. CASE Note!MakeCc
  <2> DEFINE P == Note!Parties(mail.event)
             C == P \ hide
             B == IF Interface = "cli" THEN P \cap hide ELSE {}
             p == IF Interface = "cli" THEN "send" ELSE "bcc"
  <2>1. /\ mail.event \in Note!Request /\ P \in Headers
        /\ UNCHANGED <<Note!base, Note!settings, due, told>>
        /\ mail' = MadeCc(mail, C, B, p)
    BY <1>5, MakeCcBecomes
  <2>2. C \in Headers /\ B \in Headers /\ p \in Onward
    BY <2>1 DEF Headers, Onward
  <2>3. C \cap B = {} /\ C \cap hide = {}
    OBVIOUS
  <2> HIDE DEF C, B, p
  <2>4. mail'.event = mail.event /\ mail'.to = mail.to /\ mail'.cc = C /\ mail'.bcc = B
    BY <1>1, <2>1, <2>2, MadeCcIsMail
  <2>5. hide' = hide /\ told' = told
    BY <2>1 DEF Note!settings
  <2>6. Lists(mail', hide')
    BY <1>1, <2>1, <2>3, <2>4, <2>5 DEF Lists
  <2> QED
    BY <2>5, <2>6, ListsBecome
<1>6. CASE Note!MakeBcc
  <2> DEFINE B == Note!Parties(mail.event) \cap hide
  <2>1. /\ mail.pc = "bcc" /\ Note!Parties(mail.event) \in Headers
        /\ UNCHANGED <<Note!base, Note!settings, due, told>> /\ mail' = MadeBcc(mail, B)
    BY <1>6, MakeBccBecomes
  <2>2. mail.event \in Note!Request /\ Interface # "cli"
    BY <1>1, <2>1 DEF Going
  <2>3. B \in Headers /\ B \subseteq hide
    BY <2>1 DEF Headers
  <2> HIDE DEF B
  <2>4. mail'.event = mail.event /\ mail'.to = mail.to /\ mail'.cc = mail.cc /\ mail'.bcc = B
    BY <1>1, <2>1, <2>3, MadeBccIsMail
  <2>5. hide' = hide /\ told' = told
    BY <2>1 DEF Note!settings
  <2>6. Steady => mail.cc \cap B = {}
    BY <1>1, <2>2, <2>3 DEF Steady, Lists
  <2>7. Lists(mail', hide')
    BY <1>1, <2>2, <2>4, <2>5, <2>6 DEF Lists
  <2> QED
    BY <2>5, <2>7, ListsBecome
<1>7. CASE Note!Send
  <2>1. /\ mail' = Note!Idle /\ hide' = hide
        /\ told' \subseteq (mail.to \X {"to"}) \cup (mail.cc \X {"cc"}) \cup (mail.bcc \X {"bcc"})
    BY <1>7 DEF Note!Send, Note!settings
  <2>2. Lists(mail', hide')
    BY <2>1 DEF Lists, Note!Idle
  <2>3. \A t \in told' : \/ t[1] \in mail.to /\ t[2] = "to"
                         \/ t[1] \in mail.cc /\ t[2] = "cc"
                         \/ t[1] \in mail.bcc /\ t[2] = "bcc"
    BY <2>1
  <2>4. \A t \in told' : t = <<t[1], t[2]>>
    BY <2>1
  <2>5. ASSUME Steady PROVE Note!NobodyTwice'
    <3>1. /\ mail.to \cap mail.cc = {} /\ mail.to \cap mail.bcc = {}
          /\ mail.cc \cap mail.bcc = {}
      BY <1>1, <2>5 DEF Lists
    <3>2. \A s, t \in told' : s[1] = t[1] => s[2] = t[2]
      BY <2>3, <3>1
    <3> QED
      BY <2>4, <3>2 DEF Note!NobodyTwice
  <2>6. Shown'
    BY <1>1, <2>1, <2>3 DEF Shown, Note!HiddenIsNotShown, Lists
  <2> QED
    BY <2>2, <2>5, <2>6 DEF ListsInv
<1>8. ASSUME NEW u \in User, Note!Watch(u) \/ Note!Suspend(u) \/ Note!HideEmail(u) PROVE ListsInv'
  <2>1. mail' = mail /\ told' = told /\ (hide' = hide \/ "hide" \in Setting)
    BY <1>8 DEF Note!Watch, Note!Suspend, Note!HideEmail
  <2>2. Lists(mail', hide')
    BY <1>1, <2>1 DEF Lists
  <2> QED
    BY <2>1, <2>2, ListsBecome
<1>9. CASE UNCHANGED Note!vars
  BY <1>1, <1>9, ListsBecome DEF Note!vars
<1> QED
  BY <1>2, <1>3, <1>4, <1>5, <1>6, <1>7, <1>8, <1>9 DEF Note!Next

LEMMA ListsHold ==
  ASSUME Note!EventAssumption
  PROVE  Note!Spec => []ListsInv
<1>1. Note!Init => ListsInv
  BY DEF Note!Init, ListsInv, Lists, Note!Idle, Note!NobodyTwice, Shown, Note!HiddenIsNotShown
<1>2. MailInv /\ ListsInv /\ [Note!Next]_(Note!vars) => ListsInv'
  BY ListsNext
<1> QED
  BY <1>1, <1>2, MailHolds, PTL DEF Note!Spec

\* Nobody is in two headers of a mail, for any users and events, if nobody hides or
\* shows an address between the two queries of RequestCloseNotification and
\* RequestOpenNotification, which one transaction of the command line excludes.
THEOREM OneHeaderEach ==
  ASSUME Note!EventAssumption, "hide" \notin Setting \/ Interface = "cli"
  PROVE  Note!Spec => []Note!NobodyTwice
<1>1. ListsInv => Note!NobodyTwice
  BY DEF ListsInv, Steady
<1> QED
  BY <1>1, ListsHold, PTL

\* A hidden address is in no header that others can read, for any users, events
\* and transport, unless somebody hides an address that a mail has already
\* (get_cc and get_bcc of notify.py).
THEOREM HiddenStaysHidden ==
  ASSUME Note!EventAssumption, "hide" \notin Setting
  PROVE  Note!Spec => []Note!HiddenIsNotShown
<1>1. ListsInv => Note!HiddenIsNotShown
  BY DEF ListsInv, Shown
<1> QED
  BY <1>1, ListsHold, PTL

-----------------------------------------------------------------------------
(* Everyone is told.                                                       *)

\* What keeps a handler from telling somebody: a merge, which makes no mail; a
\* request that is closed when its base is gone; and for requests sendmail, or
\* an address that is hidden or shown between two queries.
Reaches ==
    /\ "merge" \notin Event
    /\ "close" \in Event => "delete" \notin Event
    /\ Event \cap Note!Request # {} => Transport = "smtp" /\ Steady

Filed(u, K, S) == ({u} \cup K) \ (S \cup {NoUser})

\* Whom an event e concerns, with the keepers K, the watchers W and the suspended
\* users S; r filed the request.
Concerns(e, u, v, K, r, W, S) ==
    CASE e = "comment"               -> {x \in W \ ({u} \cup S) : "comment" \in Wants[x]}
      [] e = "update"                -> {x \in W \ ({u} \cup S) : "update" \in Wants[x]}
      [] e \in {"adopt", "disown"}   -> {x \in W \ ({u} \cup S) : "ownership" \in Wants[x]}
      [] e = "delete"                -> W \ ({u} \cup S)
      [] e = "flag"                  -> K \ S
      [] e \in {"addCo", "removeCo"} -> {v}
      [] e = "resetkey"              -> {u} \ S
      [] e = "open"                  -> Filed(u, K, S)
      [] e = "close"                 -> Filed(r, K, S)

\* The users d who are still to be told are those whom the mail m will reach, or
\* whom the mails t have reached.
Reach(m, d, t, K, r, W, S, H) ==
    /\ m.pc = "idle" => \A x \in d : \E y \in t : y[1] = x
    /\ m.pc = "make" \/ (m.pc = "change" /\ m.event \notin Note!MadeFirst) =>
         d \subseteq Concerns(m.event, m.user, m.other, K, r, W, S)
    /\ m.pc = "change" /\ m.event \in Note!MadeFirst => d \subseteq m.to
    /\ m.pc = "make" /\ m.event = "open" => r = m.user
    /\ m.pc = "bcc" => d \subseteq m.cc \cup (Filed(r, K, S) \cap H)
    /\ m.pc = "send" => d \subseteq m.to \cup m.cc \cup m.bcc

Stays ==
    /\ "close" \in Event => exists
    /\ mail.pc # "idle" /\ mail.event = "open" => exists

ReachInv == Reach(mail, due, told, Note!Keepers, requester, watch, suspended, hide) /\ Stays

LEMMA RecipientsConcern ==
  ASSUME NEW e \in Note!AllEvents \ Note!Request, e # "merge", NEW u, NEW v
  PROVE  Note!Recipients(e, u, v) = Concerns(e, u, v, Note!Keepers, requester, watch, suspended)
<1>1. CASE e \in {"comment", "update", "delete"}
  BY <1>1 DEF Note!Recipients, Note!CommentTo, Note!UpdateTo, Note!DeleteTo, Concerns
<1>2. CASE e \in {"adopt", "disown"}
  BY <1>2 DEF Note!Recipients, Note!OwnershipTo, Concerns
<1>3. CASE e \in {"flag", "resetkey"}
  BY <1>3 DEF Note!Recipients, Note!FlagTo, Note!ResetKeyTo, Concerns
<1>4. CASE e \in {"addCo", "removeCo"}
  BY <1>4 DEF Note!Recipients, Note!ComaintainershipTo, Concerns
<1> QED
  BY <1>1, <1>2, <1>3, <1>4 DEF Note!AllEvents, Note!Watched, Note!Request

LEMMA PartiesConcern ==
  ASSUME exists, NEW e \in Note!Request
  PROVE  Note!Parties(e) = Filed(requester, Note!Keepers, suspended)
  BY DEF Note!Parties, Note!OpenParties, Note!CloseParties, Filed

\* Who is left out of a set that an event concerns is x, or has a setting of x.
LEMMA ConcernsWithout ==
  ASSUME NEW e \in Note!AllEvents, e # "merge", NEW u, NEW v, NEW K, NEW r, NEW W, NEW S,
         NEW X, NEW T, NEW x, \A y : y # x => (y \in X <=> y \in W) /\ (y \in T <=> y \in S),
         NEW z \in Concerns(e, u, v, K, r, W, S), z # x
  PROVE  z \in Concerns(e, u, v, K, r, X, T)
<1>1. CASE e \in {"comment", "update", "delete"}
  BY <1>1 DEF Concerns
<1>2. CASE e \in {"adopt", "disown"}
  BY <1>2 DEF Concerns
<1>3. CASE e \in {"flag", "resetkey"}
  BY <1>3 DEF Concerns
<1>4. CASE e \in {"addCo", "removeCo"}
  BY <1>4 DEF Concerns
<1>5. CASE e \in {"open", "close"}
  BY <1>5 DEF Concerns, Filed
<1> QED
  BY <1>1, <1>2, <1>3, <1>4, <1>5 DEF Note!AllEvents, Note!Watched, Note!Request

\* A step that leaves all settings alone.
LEMMA SameSettings ==
  ASSUME UNCHANGED <<Note!base, Note!settings>>
  PROVE  /\ Note!Keepers' = Note!Keepers /\ requester' = requester /\ exists' = exists
         /\ watch' = watch /\ suspended' = suspended /\ hide' = hide
  BY DEF Note!base, Note!settings, Note!Keepers

LEMMA BeginReaches ==
  ASSUME Note!UserAssumption, Note!EventAssumption, Reaches, MailInv, ReachInv,
         Note!Start \/ Note!StartCo \/ Note!StartRequest \/ Note!StartReset
  PROVE  ReachInv'
<1>1. PICK e \in Note!AllEvents, u \in User, v \in User \cup {NoUser} :
           /\ Note!Happens(e, u, v) /\ due' \subseteq User
           /\ e \notin Note!Request \cup {"resetkey"} => exists
           /\ e \in {"addCo", "removeCo"} => v \in User
           /\ \/ /\ e \in Note!Watched
                 /\ due' = {x \in watch : /\ x # u /\ x \notin suspended
                                          /\ e \in {"comment", "update"} => e \in Wants[x]
                                          /\ e \in {"adopt", "disown"} => "ownership" \in Wants[x]}
              \/ e = "flag" /\ due' = Note!Keepers \ suspended
              \/ e \in {"addCo", "removeCo"} /\ due' = {v}
              \/ e = "open" /\ exists /\ due' = (Note!Keepers \cup {u}) \ suspended
              \/ /\ e = "close" /\ requester # NoUser
                 /\ due' = (Note!Keepers \cup {requester}) \ suspended
              \/ e = "resetkey" /\ u \notin suspended /\ due' = {u}
  BY BeginBecomes
<1>2. /\ e \in Event /\ mail' = Happened(e, u, v) /\ told' = {}
      /\ UNCHANGED <<Note!base, Note!settings>>
  BY <1>1, StartBecomes
<1>3. /\ mail'.event = e /\ mail'.user = u /\ mail'.other = v
      /\ mail'.pc = IF e \in Note!MadeFirst THEN "make" ELSE "change"
  BY <1>2, HappenedIsMail
<1>4. e # "merge" /\ NoUser \notin Note!Keepers /\ u # NoUser
  BY <1>2, KeepersTyped DEF Reaches, MailInv, Note!UserAssumption
<1>5. due' \subseteq Concerns(e, u, v, Note!Keepers, requester, watch, suspended)
  <2>1. CASE e \in {"comment", "update", "delete"}
    <3>1. due' = {x \in watch : /\ x # u /\ x \notin suspended
                                /\ e \in {"comment", "update"} => e \in Wants[x]}
      BY <1>1, <2>1
    <3> QED
      BY <2>1, <3>1 DEF Concerns
  <2>2. CASE e \in {"adopt", "disown"}
    <3>1. due' = {x \in watch : /\ x # u /\ x \notin suspended /\ "ownership" \in Wants[x]}
      BY <1>1, <2>2
    <3> QED
      BY <2>2, <3>1 DEF Concerns
  <2>3. CASE e = "flag"
    BY <1>1, <2>3 DEF Concerns, Note!Watched
  <2>4. CASE e \in {"addCo", "removeCo"}
    BY <1>1, <2>4 DEF Concerns, Note!Watched
  <2>5. CASE e = "open"
    BY <1>1, <1>4, <2>5 DEF Concerns, Note!Watched, Filed
  <2>6. CASE e = "close"
    BY <1>1, <1>4, <2>6 DEF Concerns, Note!Watched, Filed
  <2>7. CASE e = "resetkey"
    BY <1>1, <2>7 DEF Concerns, Note!Watched
  <2> QED
    BY <1>4, <2>1, <2>2, <2>3, <2>4, <2>5, <2>6, <2>7 DEF Note!AllEvents, Note!Watched, Note!Request
<1>6. /\ Note!Keepers' = Note!Keepers /\ requester' = requester /\ exists' = exists
      /\ watch' = watch /\ suspended' = suspended
  BY <1>2, SameSettings
<1>7. Reach(mail', due', told', Note!Keepers', requester', watch', suspended', hide')
  <2>1. mail'.pc = "make" => mail'.event # "open"
    BY <1>3 DEF Note!MadeFirst
  <2>2. mail'.pc = "change" => mail'.event \notin Note!MadeFirst
    BY <1>3
  <2> QED
    BY <1>3, <1>5, <1>6, <2>1, <2>2 DEF Reach
<1>8. Stays'
  BY <1>1, <1>3, <1>6 DEF ReachInv, Stays, Note!Request, Note!Watched
<1> QED
  BY <1>7, <1>8 DEF ReachInv

LEMMA ChangeReaches ==
  ASSUME Reaches, MailInv, ReachInv, Note!Change
  PROVE  ReachInv'
<1> DEFINE e == mail.event
<1>1. /\ mail.pc = "change" /\ UNCHANGED <<hide, suspended, due, told>>
      /\ exists' = (exists /\ e \notin {"delete", "merge"})
      /\ requester' = IF e = "open" THEN mail.user ELSE requester
      /\ mail' = IF e = "merge" THEN Note!Idle ELSE Changed(mail)
  BY ChangeBecomes
<1>2. e \in Event /\ e # "merge" /\ mail \in MailRow /\ e \in Note!AllEvents
  BY <1>1 DEF MailInv, Going, Reaches, MailRow
<1>3. /\ mail'.event = e /\ mail'.user = mail.user /\ mail'.other = mail.other
      /\ mail'.pc = IF e \in Note!MadeFirst THEN "send" ELSE "make"
      /\ mail'.to = mail.to /\ mail'.cc = mail.cc /\ mail'.bcc = mail.bcc
  BY <1>1, <1>2, ChangedIsMail
<1>4. Reach(mail, due, told, Note!Keepers, requester, watch, suspended, hide) /\ Stays
  BY DEF ReachInv
<1>5. Stays'
  BY <1>1, <1>2, <1>3, <1>4 DEF Stays, Reaches
<1>6. CASE e \in Note!MadeFirst
  <2>1. due' \subseteq mail'.to /\ mail'.pc = "send"
    BY <1>1, <1>3, <1>4, <1>6 DEF Reach
  <2>2. Reach(mail', due', told', Note!Keepers', requester', watch', suspended', hide')
    BY <2>1 DEF Reach
  <2> QED
    BY <1>5, <2>2 DEF ReachInv
<1>7. CASE e \notin Note!MadeFirst
  <2>1. due' \subseteq Concerns(e, mail.user, mail.other, Note!Keepers, requester, watch, suspended)
    BY <1>1, <1>4, <1>7 DEF Reach
  <2>2. watch' = watch
    BY <1>2, <1>7 DEF Note!Change, Note!MadeFirst
  <2>3. e \in {"flag", "open", "close"} => Note!Keepers' = Note!Keepers
    BY DEF Note!Change, Note!Keepers
  <2>4. due' \subseteq Concerns(e, mail.user, mail.other, Note!Keepers', requester', watch',
          suspended')
    <3>1. CASE e \in {"comment", "update", "adopt"}
      BY <1>1, <2>1, <2>2, <3>1 DEF Concerns
    <3>2. CASE e = "flag"
      BY <1>1, <2>1, <2>3, <3>2 DEF Concerns
    <3>3. CASE e \in {"addCo", "removeCo", "resetkey"}
      BY <1>1, <2>1, <3>3 DEF Concerns
    <3>4. CASE e \in {"open", "close"}
      BY <1>1, <2>1, <2>3, <3>4 DEF Concerns
    <3> QED
      BY <1>2, <1>7, <3>1, <3>2, <3>3, <3>4
         DEF Note!AllEvents, Note!Watched, Note!Request, Note!MadeFirst
  <2>5. Reach(mail', due', told', Note!Keepers', requester', watch', suspended', hide')
    BY <1>1, <1>3, <1>7, <2>4 DEF Reach
  <2> QED
    BY <1>5, <2>5 DEF ReachInv
<1> QED
  BY <1>6, <1>7

LEMMA MakeReaches ==
  ASSUME Reaches, MailInv, ReachInv, Note!Make
  PROVE  ReachInv'
<1> DEFINE T == Note!Recipients(mail.event, mail.user, mail.other)
<1>1. /\ mail.pc = "make" /\ mail.event \notin Note!Request /\ T \in Headers
      /\ UNCHANGED <<Note!base, Note!settings, due, told>>
      /\ mail' = Made(mail, T)
  BY MakeBecomes
<1>2. mail \in MailRow /\ mail.event \in Note!AllEvents /\ mail.event # "merge"
  BY <1>1 DEF MailInv, MailRow, Going
<1>3. T = Concerns(mail.event, mail.user, mail.other, Note!Keepers, requester, watch, suspended)
  BY <1>1, <1>2, RecipientsConcern
<1>4. Reach(mail, due, told, Note!Keepers, requester, watch, suspended, hide) /\ Stays
  BY DEF ReachInv
<1>5. due' \subseteq T
  BY <1>1, <1>3, <1>4 DEF Reach
<1> HIDE DEF T
<1>6. /\ mail'.event = mail.event /\ mail'.to = T
      /\ mail'.pc = IF mail.event \in Note!MadeFirst THEN "change" ELSE "send"
  BY <1>1, <1>2, MadeIsMail
<1>7. Reach(mail', due', told', Note!Keepers', requester', watch', suspended', hide')
  BY <1>5, <1>6 DEF Reach
<1>8. Stays'
  BY <1>1, <1>4, <1>6 DEF Stays, Note!Request, Note!base
<1> QED
  BY <1>7, <1>8 DEF ReachInv

\* A request is made while its base is there.
LEMMA StillThere ==
  ASSUME MailInv, Stays, mail.pc # "idle", mail.event \in Note!Request
  PROVE  exists
  BY DEF MailInv, Going, Stays, Note!Request

LEMMA MakeCcReaches ==
  ASSUME Reaches, MailInv, ReachInv, Note!MakeCc
  PROVE  ReachInv'
<1> DEFINE P == Note!Parties(mail.event)
           F == Filed(requester, Note!Keepers, suspended)
           C == P \ hide
           B == IF Interface = "cli" THEN P \cap hide ELSE {}
           p == IF Interface = "cli" THEN "send" ELSE "bcc"
<1>1. /\ mail.pc = "make" /\ mail.event \in Note!Request /\ P \in Headers
      /\ UNCHANGED <<Note!base, Note!settings, due, told>>
      /\ mail' = MadeCc(mail, C, B, p)
  BY MakeCcBecomes
<1>2. /\ mail \in MailRow
      /\ Reach(mail, due, told, Note!Keepers, requester, watch, suspended, hide) /\ Stays
  BY DEF MailInv, ReachInv
<1>3. P = F
  BY <1>1, <1>2, StillThere, PartiesConcern
<1>4. due \subseteq F
  BY <1>1, <1>2 DEF Reach, Concerns, Note!Request
<1>5. C \in Headers /\ B \in Headers /\ p \in Onward
  BY <1>1 DEF Headers, Onward
<1>6. due \subseteq C \cup (F \cap hide) /\ (p = "send" => due \subseteq C \cup B)
  BY <1>3, <1>4
<1> HIDE DEF C, B, p, F
<1>7. /\ mail'.event = mail.event /\ mail'.cc = C /\ mail'.bcc = B /\ mail'.pc = p
  BY <1>1, <1>2, <1>5, MadeCcIsMail
<1>8. /\ Note!Keepers' = Note!Keepers /\ requester' = requester /\ exists' = exists
      /\ suspended' = suspended /\ hide' = hide /\ due' = due
  BY <1>1, SameSettings
<1>9. Reach(mail', due', told', Note!Keepers', requester', watch', suspended', hide')
  BY <1>5, <1>6, <1>7, <1>8 DEF Reach, F, Onward
<1>10. Stays'
  BY <1>1, <1>2, <1>7, <1>8 DEF Stays
<1> QED
  BY <1>9, <1>10 DEF ReachInv

LEMMA MakeBccReaches ==
  ASSUME Reaches, MailInv, ReachInv, Note!MakeBcc
  PROVE  ReachInv'
<1> DEFINE F == Filed(requester, Note!Keepers, suspended)
           B == Note!Parties(mail.event) \cap hide
<1>1. /\ mail.pc = "bcc" /\ Note!Parties(mail.event) \in Headers
      /\ UNCHANGED <<Note!base, Note!settings, due, told>>
      /\ mail' = MadeBcc(mail, B)
  BY MakeBccBecomes
<1>2. /\ mail \in MailRow /\ mail.event \in Note!Request
      /\ Reach(mail, due, told, Note!Keepers, requester, watch, suspended, hide) /\ Stays
  BY <1>1 DEF MailInv, Going, ReachInv
<1>3. Note!Parties(mail.event) = F
  BY <1>1, <1>2, StillThere, PartiesConcern
<1>4. due \subseteq mail.cc \cup (F \cap hide)
  BY <1>1, <1>2 DEF Reach
<1>5. B \in Headers /\ due \subseteq mail.cc \cup B
  BY <1>1, <1>3, <1>4 DEF Headers
<1> HIDE DEF B, F
<1>6. /\ mail'.event = mail.event /\ mail'.cc = mail.cc /\ mail'.bcc = B /\ mail'.pc = "send"
  BY <1>1, <1>2, <1>5, MadeBccIsMail
<1>7. exists' = exists /\ due' = due
  BY <1>1, SameSettings
<1>8. Reach(mail', due', told', Note!Keepers', requester', watch', suspended', hide')
  BY <1>5, <1>6, <1>7 DEF Reach
<1>9. Stays'
  BY <1>1, <1>2, <1>6, <1>7 DEF Stays
<1> QED
  BY <1>8, <1>9 DEF ReachInv

LEMMA SendReaches ==
  ASSUME Reaches, MailInv, ReachInv, ListsInv, Note!Send
  PROVE  ReachInv'
<1>1. /\ mail.pc = "send" /\ mail' = Note!Idle /\ UNCHANGED <<Note!base, Note!settings, due>>
      /\ told' = (mail.to \X {"to"}) \cup (mail.cc \X {"cc"})
               \cup (IF Transport = "smtp" THEN mail.bcc \X {"bcc"} ELSE {})
  BY DEF Note!Send
<1>2. due \subseteq mail.to \cup mail.cc \cup mail.bcc
  BY <1>1 DEF ReachInv, Reach
<1>3. Transport # "smtp" => mail.bcc = {}
  BY <1>1 DEF MailInv, Going, Reaches, ListsInv, Lists
<1>4. \A x \in due : \/ <<x, "to">> \in told'
                     \/ <<x, "cc">> \in told'
                     \/ <<x, "bcc">> \in told'
  BY <1>1, <1>2, <1>3
<1>5. \A x \in due' : \E y \in told' : y[1] = x
  <2> TAKE x \in due'
  <2>1. \/ <<x, "to">> \in told'
        \/ <<x, "cc">> \in told'
        \/ <<x, "bcc">> \in told'
    BY <1>1, <1>4
  <2>2. <<x, "to">>[1] = x /\ <<x, "cc">>[1] = x /\ <<x, "bcc">>[1] = x
    OBVIOUS
  <2> QED
    BY <2>1, <2>2
<1>6. mail'.pc = "idle"
  BY <1>1 DEF Note!Idle
<1>7. Reach(mail', due', told', Note!Keepers', requester', watch', suspended', hide')
  BY <1>5, <1>6 DEF Reach
<1>8. Stays'
  BY <1>1, <1>6 DEF ReachInv, Stays, Note!base
<1> QED
  BY <1>7, <1>8 DEF ReachInv

\* A user who watches no more, or is suspended, need not be told.
LEMMA ForgetReaches ==
  ASSUME Reaches, MailInv, ReachInv, NEW x \in User,
         UNCHANGED <<Note!base, hide, mail, told>>, due' = due \ {x},
         \A y : y # x => (y \in watch' <=> y \in watch) /\ (y \in suspended' <=> y \in suspended)
  PROVE  ReachInv'
<1>1. /\ Note!Keepers' = Note!Keepers /\ requester' = requester /\ exists' = exists /\ mail' = mail
      /\ hide' = hide /\ told' = told
  BY DEF Note!base, Note!Keepers
<1>2. Reach(mail, due, told, Note!Keepers, requester, watch, suspended, hide) /\ Stays
  BY DEF ReachInv
<1>3. ASSUME mail.pc = "make" \/ (mail.pc = "change" /\ mail.event \notin Note!MadeFirst)
      PROVE  due' \subseteq Concerns(mail.event, mail.user, mail.other, Note!Keepers, requester,
                                     watch', suspended')
  <2>1. mail.event \in Note!AllEvents /\ mail.event # "merge"
    BY <1>3 DEF MailInv, MailRow, Going, Reaches
  <2>2. \A z \in due' : z # x /\ z \in Concerns(mail.event, mail.user, mail.other, Note!Keepers,
                                                requester, watch, suspended)
    BY <1>2, <1>3 DEF Reach
  <2> QED
    BY <2>1, <2>2, ConcernsWithout
<1>4. mail.pc = "bcc" =>
        due' \subseteq mail.cc \cup (Filed(requester, Note!Keepers, suspended') \cap hide)
  BY <1>2 DEF Reach, Filed
<1>5. Reach(mail', due', told', Note!Keepers', requester', watch', suspended', hide')
  BY <1>1, <1>2, <1>3, <1>4 DEF Reach
<1>6. Stays'
  BY <1>1, <1>2 DEF Stays
<1> QED
  BY <1>5, <1>6 DEF ReachInv

LEMMA HideReaches ==
  ASSUME Reaches, MailInv, ReachInv, NEW u \in User, Note!HideEmail(u)
  PROVE  ReachInv'
<1>1. "hide" \in Setting /\ UNCHANGED <<Note!base, watch, suspended, mail, due, told>>
  BY DEF Note!HideEmail
<1>2. Note!Keepers' = Note!Keepers /\ requester' = requester /\ exists' = exists
  BY <1>1 DEF Note!base, Note!Keepers
<1>3. mail.pc # "bcc"
  BY <1>1 DEF MailInv, Going, Reaches, Steady
<1>4. Reach(mail', due', told', Note!Keepers', requester', watch', suspended', hide')
  BY <1>1, <1>2, <1>3 DEF ReachInv, Reach
<1>5. Stays'
  BY <1>1, <1>2 DEF ReachInv, Stays
<1> QED
  BY <1>4, <1>5 DEF ReachInv

LEMMA ReachNext ==
  ASSUME Note!UserAssumption, Note!EventAssumption, Reaches, MailInv, ListsInv,
         ReachInv, [Note!Next]_(Note!vars)
  PROVE  ReachInv'
<1>1. CASE Note!Start \/ Note!StartCo \/ Note!StartRequest \/ Note!StartReset
  BY <1>1, BeginReaches
<1>2. CASE Note!Change
  BY <1>2, ChangeReaches
<1>3. CASE Note!Make \/ Note!MakeCc \/ Note!MakeBcc
  BY <1>3, MakeReaches, MakeCcReaches, MakeBccReaches
<1>4. CASE Note!Send
  BY <1>4, SendReaches
<1>5. ASSUME NEW u \in User, Note!Watch(u) PROVE ReachInv'
  <2>1. /\ UNCHANGED <<Note!base, hide, mail, told>> /\ due' = due \ {u} /\ suspended' = suspended
        /\ watch' = IF u \in watch THEN watch \ {u} ELSE watch \cup {u}
    BY <1>5 DEF Note!Watch, Note!Forget
  <2>2. \A y : y # u => (y \in watch' <=> y \in watch)
    BY <2>1
  <2> QED
    BY <2>1, <2>2, ForgetReaches
<1>6. ASSUME NEW u \in User, Note!Suspend(u) PROVE ReachInv'
  <2>1. /\ UNCHANGED <<Note!base, hide, mail, told>> /\ due' = due \ {u} /\ watch' = watch
        /\ suspended' = suspended \cup {u}
    BY <1>6 DEF Note!Suspend, Note!Forget
  <2> QED
    BY <2>1, ForgetReaches
<1>7. ASSUME NEW u \in User, Note!HideEmail(u) PROVE ReachInv'
  BY <1>7, HideReaches
<1>8. CASE UNCHANGED Note!vars
  <2>1. UNCHANGED <<Note!base, Note!settings, mail, due, told>>
    BY <1>8 DEF Note!vars, Note!base, Note!settings
  <2>2. /\ Note!Keepers' = Note!Keepers /\ requester' = requester /\ exists' = exists
        /\ watch' = watch /\ suspended' = suspended /\ hide' = hide
    BY <2>1, SameSettings
  <2> QED
    BY <2>1, <2>2 DEF ReachInv, Stays
<1> QED
  BY <1>1, <1>2, <1>3, <1>4, <1>5, <1>6, <1>7, <1>8 DEF Note!Next

\* When a handler has ended, everybody was told whom the event concerned and who
\* did not leave in the meantime: for any users, wishes and events, if Reaches
\* (the queries of the notifications, and _send).
THEOREM AllAreTold ==
  ASSUME Note!UserAssumption, Note!EventAssumption, Reaches
  PROVE  Note!Spec => []Note!EveryoneIsTold
<1>1. Note!Init => ReachInv
  <2> SUFFICES ASSUME Note!Init PROVE ReachInv
    OBVIOUS
  <2>1. mail = Note!Idle /\ mail.pc = "idle" /\ due = {} /\ exists
    BY DEF Note!Init, Note!Idle
  <2> QED
    BY <2>1 DEF ReachInv, Reach, Stays
<1>2. MailInv /\ ListsInv /\ ReachInv /\ [Note!Next]_(Note!vars) => ReachInv'
  BY ReachNext
<1>3. ReachInv => Note!EveryoneIsTold
  <2> SUFFICES ASSUME ReachInv, mail.pc = "idle" PROVE due \subseteq {t[1] : t \in told}
    BY DEF Note!EveryoneIsTold
  <2>1. \A x \in due : \E y \in told : y[1] = x
    BY DEF ReachInv, Reach
  <2> QED
    BY <2>1
<1> QED
  BY <1>1, <1>2, <1>3, MailHolds, ListsHold, PTL DEF Note!Spec
=============================================================================

------------------------------- MODULE GitPush -------------------------------
(***************************************************************************)
(* git push over SSH: git-auth, git-serve, the update hook in both of its  *)
(* versions, and what git itself does before and after the hook.  One push *)
(* changes three things in turn: the package base and its packages in the  *)
(* database (several transactions), the branch named after the base, and   *)
(* the master branch in the namespace of the base.  The abstract content   *)
(* of a commit is its .SRCINFO and what is wrong with its tree.            *)
(*                                                                         *)
(* Up to its first commit the hook reads from one snapshot.  A statement   *)
(* that breaks a foreign or unique key raises an exception that nothing    *)
(* catches: the hook ends, its transaction is rolled back, git refuses the *)
(* push.                                                                   *)
(*                                                                         *)
(* An operator whose name ends in _Bug is the definition that follows it,  *)
(* with a mistake that the properties at the end have to catch.  Nothing   *)
(* uses it.                                                                *)
(***************************************************************************)
EXTENDS Naturals, FiniteSets

CONSTANTS
    User, NoUser,
    Privileged,     \* accounts with AccountTypeID > 1
    Suspended,      \* suspended accounts
    Unverified,     \* accounts whose address is not verified
    Base,           \* names of package bases
    Package,        \* names of packages
    Commit, NoCommit,
    History,        \* of a commit: itself and its ancestors
    Flaws,          \* of a commit: what is wrong with its tree
    SrcInfo,        \* of a commit: its .SRCINFO, or NoInfo
    NoInfo,
    PkgBaseOf,      \* of a .SRCINFO: the pkgbase it names
    PackagesIn,     \* of a .SRCINFO: the packages it names
    Blocked,        \* PackageBlacklist and OfficialProviders
    LegacyParser,   \* update.alpm-parser is off
    MaxId,          \* PackageBases.ID (a bound)
    Session,        \* SSH sessions
    Faults,         \* "crash": a process dies between two of its steps
    WebOps          \* what the web workers do meanwhile

Info == {SrcInfo[c] : c \in Commit} \ {NoInfo}

ASSUME CommitsAssumption ==
    /\ NoCommit \notin Commit /\ NoUser \notin User /\ Privileged \subseteq User
    /\ \A c \in Commit : c \in History[c] /\ \A d \in History[c] : History[d] \subseteq History[c]
    /\ \A i \in Info : PkgBaseOf[i] \in Base /\ PackagesIn[i] # {}
    /\ Base # {} /\ IsFiniteSet(Base) /\ MaxId \in Nat /\ Cardinality(Base) <= MaxId
    /\ \A c \in Commit : History[c] \subseteq Commit
    /\ \A i \in Info : PackagesIn[i] \subseteq Package

Absent == [id |-> 0, maintainer |-> NoUser, comaintainers |-> {},
           packager |-> NoUser, flagged |-> FALSE, notify |-> {}]
Free   == [base |-> 0, info |-> NoInfo]
IdleJob == [pc |-> "idle", user |-> NoUser, overwrite |-> FALSE, restore |-> FALSE,
            base |-> CHOOSE b \in Base : TRUE, old |-> NoCommit, new |-> NoCommit,
            id |-> 0, orphan |-> FALSE, todo |-> {}]

VARIABLES
    base,       \* PackageBases, PackageComaintainers and PackageNotifications
    package,    \* Packages, by their unique name
    nextId,     \* AUTO_INCREMENT of PackageBases
    master,     \* refs/namespaces/<base>/refs/heads/master
    branch,     \* refs/heads/<base>, and refs/namespaces/<base>/HEAD
    job,        \* the sessions
    overtaken   \* history: those whose user has lost the base since git-serve looked

refs == <<master, branch>>
vars == <<base, package, nextId, refs, job, overtaken>>

Exists(b)     == base[b].id # 0
PackagesOf(i) == {n \in Package : package[n].base = i}

TypeOK ==
    /\ base \in [Base -> [id : 0..MaxId, maintainer : User \cup {NoUser},
                          comaintainers : SUBSET User, packager : User \cup {NoUser},
                          flagged : BOOLEAN, notify : SUBSET User]]
    /\ \A b \in Base : ~ Exists(b) => base[b] = Absent
    /\ \A a, b \in Base : Exists(a) /\ base[a].id = base[b].id => a = b
    /\ package \in [Package -> [base : 0..MaxId, info : Info \cup {NoInfo}]]
    /\ \A n \in Package : package[n].base \in {base[b].id : b \in Base} \cup {0}
    /\ nextId \in 1..MaxId + 1
    /\ master \in [Base -> Commit \cup {NoCommit}]
    /\ branch \in [Base -> Commit \cup {NoCommit}]
    /\ job \in [Session ->
                  [pc : {"idle", "hook", "create", "save", "rest", "refs", "git"},
                   user : User \cup {NoUser}, overwrite : BOOLEAN, restore : BOOLEAN,
                   base : Base, old : Commit \cup {NoCommit}, new : Commit \cup {NoCommit},
                   id : 0..MaxId, orphan : BOOLEAN, todo : SUBSET Package]]
    /\ overtaken \subseteq Session

\* Every base is at one commit, from which its packages come and behind which
\* there is nothing wrong, or does not exist and has never been pushed to.  No
\* two bases have a package of the same name.
Init ==
    /\ nextId = Cardinality(Base) + 1
    /\ \E id \in [Base -> 1..nextId - 1] :
         /\ \A a, b \in Base : id[a] = id[b] => a = b
         /\ master \in [Base -> {NoCommit} \cup
                {c \in Commit : SrcInfo[c] # NoInfo /\ \A d \in History[c] : Flaws[d] = {}}]
         /\ \A b \in Base : master[b] # NoCommit => PkgBaseOf[SrcInfo[master[b]]] = b
         /\ base \in [Base -> {Absent} \cup
                [id : 1..nextId - 1, maintainer : User \cup {NoUser},
                 comaintainers : SUBSET User, packager : User, flagged : BOOLEAN,
                 notify : SUBSET User]]
         /\ \A b \in Base :
              IF master[b] = NoCommit THEN base[b] = Absent
              ELSE base[b].id = id[b] /\ (base[b].maintainer = NoUser => base[b].comaintainers = {})
    /\ \A a, b \in Base :
         a # b /\ Exists(a) /\ Exists(b)
           => PackagesIn[SrcInfo[master[a]]] \cap PackagesIn[SrcInfo[master[b]]] = {}
    /\ package = [n \in Package |->
          IF \E b \in Base : Exists(b) /\ n \in PackagesIn[SrcInfo[master[b]]]
          THEN LET b == CHOOSE b \in Base : Exists(b) /\ n \in PackagesIn[SrcInfo[master[b]]]
               IN  [base |-> base[b].id, info |-> SrcInfo[master[b]]]
          ELSE Free]
    /\ branch = master
    /\ job = [s \in Session |-> IdleJob]
    /\ overtaken = {}

At(s, pc)   == job[s].pc = pc
End(s)      == job' = [job EXCEPT ![s] = IdleJob]
Goto(s, pc) == job' = [job EXCEPT ![s].pc = pc]

-----------------------------------------------------------------------------
(* git-auth and git-serve *)

\* git.auth.main, user_email_verified
CanConnect(u) == u \notin Suspended \cup Unverified

MayWrite_Bug(u, b) == \* orphans are open to everybody
    u \in Privileged \cup {base[b].maintainer} \cup base[b].comaintainers \/ base[b].maintainer = NoUser

\* pkgbase_has_write_access, and the privileged
MayWrite(u, b) ==
    u \in Privileged \cup {base[b].maintainer} \cup base[b].comaintainers

\* git-serve lets the session at git, which advertises master and gets a
\* commit that differs from it.
ServePush(s) == \E u \in User, b \in Base, c \in Commit, overwrite \in BOOLEAN :
    /\ At(s, "idle") /\ CanConnect(u)
    /\ Exists(b) => MayWrite(u, b)
    /\ c # master[b]
    /\ job' = [job EXCEPT ![s] =
         [IdleJob EXCEPT !.pc = "hook", !.user = u, !.base = b, !.overwrite = overwrite,
                         !.old = master[b], !.new = c]]
    /\ UNCHANGED <<base, package, nextId, refs>>

\* git-serve runs the hook itself, for a name that is free.
ServeRestore(s) == \E u \in User, b \in Base :
    /\ At(s, "idle") /\ CanConnect(u)
    /\ ~ Exists(b)
    /\ job' = [job EXCEPT ![s] =
         [IdleJob EXCEPT !.pc = "hook", !.user = u, !.base = b, !.restore = TRUE]]
    /\ UNCHANGED <<base, package, nextId, refs>>

-----------------------------------------------------------------------------
(* The hook: what it accepts *)

\* Both sides of the push; "restore" pushes what the branch has to itself.
OldCommit(s) == IF job[s].restore THEN branch[job[s].base] ELSE job[s].old
NewCommit(s) == IF job[s].restore THEN branch[job[s].base] ELSE job[s].new

Past(c) == IF c = NoCommit THEN {} ELSE History[c]

FastForward_Bug(s) == TRUE \* does not look

FastForward(s) ==
    \/ job[s].overwrite /\ job[s].user \in Privileged
    \/ Past(OldCommit(s)) \subseteq Past(NewCommit(s))

\* Every tree needs a PKGBUILD, no large file, keys/ and LICENSES/ as the
\* only directories, and a licence for every file.
TreeIsFine(c) ==
    Flaws[c] \cap {"no PKGBUILD", "subdirectory", "large file", "wrong keys/", "not REUSE"} = {}

\* The legacy hook compares the names in LICENSES/ with a list instead.
LegacyTreeIsFine(c) ==
    Flaws[c] \cap {"no PKGBUILD", "subdirectory", "large file", "wrong keys/", "unknown licence"} = {}

\* The last commit has to have a .SRCINFO that can be read and whose files
\* are there.
InfoIsFine(c) == SrcInfo[c] # NoInfo /\ "missing source" \notin Flaws[c]

LegacyInfoIsFine(c) == SrcInfo[c] # NoInfo /\ Flaws[c] \cap {"missing source", "odd name"} = {}

CommitsAreFine_Bug(s) == \* only the last one
    LET c == NewCommit(s)
    IN  IF LegacyParser THEN LegacyInfoIsFine(c) /\ LegacyTreeIsFine(c)
                        ELSE InfoIsFine(c) /\ TreeIsFine(c)

CommitsAreFine(s) ==
    LET pushed == Past(NewCommit(s)) \ Past(OldCommit(s))
    IN  IF LegacyParser
        THEN LegacyInfoIsFine(NewCommit(s)) /\ \A c \in pushed : LegacyTreeIsFine(c)
        ELSE InfoIsFine(NewCommit(s)) /\ \A c \in pushed : TreeIsFine(c)

\* The names the push would take are its own, are not blocked unless a
\* Package Maintainer pushes, and belong to no other base.
NamesAreFine(s) ==
    LET b == job[s].base
        i == SrcInfo[NewCommit(s)]
    IN  /\ PkgBaseOf[i] = b
        /\ ({b} \cup PackagesIn[i]) \cap Blocked # {} => job[s].user \in Privileged
        /\ \A n \in PackagesIn[i] : package[n].base \in {0, base[b].id}

Accepted(s) ==
    NewCommit(s) # NoCommit /\ FastForward(s) /\ CommitsAreFine(s) /\ NamesAreFine(s)

Refuse(s) ==
    /\ At(s, "hook") /\ ~ Accepted(s)
    /\ End(s)
    /\ UNCHANGED <<base, package, nextId, refs>>

\* The reads of main; unless the base has to be created, those of
\* save_metadata are of the same snapshot.
Check(s) == LET b == job[s].base IN
    /\ At(s, "hook") /\ Accepted(s)
    /\ job' = [job EXCEPT ![s].pc = IF Exists(b) THEN "save" ELSE "create",
                          ![s].new = NewCommit(s), ![s].old = OldCommit(s),
                          ![s].id = base[b].id,
                          ![s].orphan = Exists(b) /\ base[b].maintainer = NoUser]
    /\ UNCHANGED <<base, package, nextId, refs>>

-----------------------------------------------------------------------------
(* The hook: what it writes *)

\* create_pkgbase commits; save_metadata then reads the base again.
Create(s) == LET b == job[s].base
                 u == job[s].user IN
    /\ At(s, "create") /\ ~ Exists(b) /\ nextId <= MaxId
    /\ base' = [base EXCEPT ![b] =
         [Absent EXCEPT !.id = nextId, !.maintainer = u, !.notify = {u}]]
    /\ nextId' = nextId + 1
    /\ Goto(s, "save")
    /\ UNCHANGED <<package, refs>>

NameIsTaken(s) ==
    /\ At(s, "create") /\ Exists(job[s].base)
    /\ End(s)
    /\ UNCHANGED <<base, package, nextId, refs>>

\* The base save_metadata works on: of the snapshot, or of the row it has
\* just created and may have lost again.
SavedId(s) == IF job[s].id = 0 THEN base[job[s].base].id ELSE job[s].id

OldPackages_Bug(id) == {n \in PackagesOf(id) : FALSE} \* keeps what is no longer built

OldPackages(id) == PackagesOf(id)

\* save_metadata up to its first commit: the row of the base, the packages it
\* had and the first of those it gets.
SaveFirst(s) == LET b  == job[s].base
                    u  == job[s].user
                    i  == SrcInfo[job[s].new]
                    id == SavedId(s) IN
    /\ At(s, "save") /\ id # 0 /\ base[b].id = id
    /\ base' = [base EXCEPT ![b].packager = u, ![b].flagged = FALSE,
                            ![b].maintainer = IF @ = NoUser THEN u ELSE @]
    /\ \E n \in PackagesIn[i] :
         /\ package[n].base \in {0, id}
         /\ package' = [m \in Package |->
              IF m = n THEN [base |-> id, info |-> i]
              ELSE IF m \in OldPackages(id) THEN Free ELSE package[m]]
         /\ job' = [job EXCEPT ![s].pc = "rest", ![s].id = id,
                               ![s].todo = PackagesIn[i] \ {n}]
    /\ UNCHANGED <<nextId, refs>>

\* save_metadata commits after every package.
SaveNext(s) == LET id == job[s].id IN
    /\ At(s, "rest") /\ base[job[s].base].id = id
    /\ \E n \in job[s].todo :
         /\ package[n] = Free
         /\ package' = [package EXCEPT ![n] = [base |-> id, info |-> SrcInfo[job[s].new]]]
         /\ job' = [job EXCEPT ![s].todo = @ \ {n}]
    /\ UNCHANGED <<base, nextId, refs>>

\* The base is gone, or the name of a package is not free: the statement fails.
SaveFails(s) == LET b == job[s].base IN
    /\ \/ At(s, "save") /\ (SavedId(s) = 0 \/ base[b].id # SavedId(s))
       \/ At(s, "save") /\ \E n \in PackagesIn[SrcInfo[job[s].new]] :
                             package[n].base \notin {0, SavedId(s)}
       \/ At(s, "rest") /\ job[s].todo # {} /\ base[b].id # job[s].id
       \/ At(s, "rest") /\ \E n \in job[s].todo : package[n] # Free
       \/ At(s, "rest") /\ job[s].todo = {} /\ base[b].id # job[s].id
    /\ End(s)
    /\ UNCHANGED <<base, package, nextId, refs>>

\* The last commit of save_metadata, with the maintainer's notifications.
SaveLast(s) == LET b == job[s].base IN
    /\ At(s, "rest") /\ job[s].todo = {} /\ base[b].id = job[s].id
    /\ base' = [base EXCEPT ![b].notify = IF job[s].orphan THEN @ \cup {job[s].user} ELSE @]
    /\ Goto(s, "refs")
    /\ UNCHANGED <<package, nextId, refs>>

\* The branch is overwritten, whatever it is at; "restore" ends here.
UpdateBranch(s) ==
    /\ At(s, "refs")
    /\ branch' = [branch EXCEPT ![job[s].base] = job[s].new]
    /\ IF job[s].restore THEN End(s) ELSE Goto(s, "git")
    /\ UNCHANGED <<base, package, nextId, master>>

\* git receive-pack moves master from the commit it had advertised, or says
\* that it could not be locked.
UpdateMaster(s) == LET b == job[s].base IN
    /\ At(s, "git")
    /\ master' = IF master[b] = job[s].old THEN [master EXCEPT ![b] = job[s].new] ELSE master
    /\ End(s)
    /\ UNCHANGED <<base, package, nextId, branch>>

\* A time-out, a dropped connection or a kill between two commits.
Crash(s) ==
    /\ "crash" \in Faults
    /\ job[s].pc \in {"save", "rest", "refs", "git"}
    /\ End(s)
    /\ UNCHANGED <<base, package, nextId, refs>>

-----------------------------------------------------------------------------
(* Web workers *)

\* pkgbase_delete_instance: the packages go with the base, the refs stay.
Delete(b) ==
    /\ "delete" \in WebOps /\ Exists(b)
    /\ base' = [base EXCEPT ![b] = Absent]
    /\ package' = [n \in Package |-> IF n \in PackagesOf(base[b].id) THEN Free ELSE package[n]]
    /\ UNCHANGED <<nextId, refs, job>>

\* The maintainer disowns the base; the next co-maintainer gets it.
Disown(b) ==
    /\ "disown" \in WebOps /\ base[b].maintainer # NoUser
    /\ \E u \in IF base[b].comaintainers = {} THEN {NoUser} ELSE base[b].comaintainers :
         base' = [base EXCEPT ![b].maintainer = u, ![b].comaintainers = @ \ {u}]
    /\ UNCHANGED <<package, nextId, refs, job>>

\* A Package Maintainer takes it.
Adopt(b) == \E u \in Privileged \ Suspended :
    /\ "adopt" \in WebOps /\ Exists(b)
    /\ base' = [base EXCEPT ![b].maintainer = u]
    /\ UNCHANGED <<package, nextId, refs, job>>

\* The user of a session may write to the base, or its name is free.
MayPush(s) ==
    LET b == base[job[s].base]
    IN  b.id # 0 => job[s].user \in Privileged \cup {b.maintainer} \cup b.comaintainers

\* Somebody else may create, adopt or disown the base while a session is at work.
Overtake ==
    overtaken' = {s \in Session :
        /\ ~ At(s, "idle")' /\ ~ At(s, "idle")
        /\ s \in overtaken \/ (MayPush(s) /\ ~ MayPush(s)')}

Step ==
    \/ \E s \in Session :
         \/ ServePush(s) \/ ServeRestore(s)
         \/ Refuse(s) \/ Check(s)
         \/ Create(s) \/ NameIsTaken(s)
         \/ SaveFirst(s) \/ SaveNext(s) \/ SaveFails(s) \/ SaveLast(s)
         \/ UpdateBranch(s) \/ UpdateMaster(s)
         \/ Crash(s)
    \/ \E b \in Base : Delete(b) \/ Disown(b) \/ Adopt(b)

Next == Step /\ Overtake

Spec == Init /\ [][Next]_vars

-----------------------------------------------------------------------------
(* Properties. *)

\* Between pushes the database, the branch and master of a base show the same
\* commit: its packages are exactly those of that commit's .SRCINFO, although
\* the hook writes them one by one, before git moves master.
DatabaseMatchesMaster ==
    \A b \in Base :
      Exists(b) /\ (\A s \in Session : At(s, "idle") \/ job[s].base # b) =>
        /\ branch[b] = master[b]
        /\ \A n \in Package :
             IF n \in PackagesIn[SrcInfo[master[b]]]
             THEN package[n] = [base |-> base[b].id, info |-> SrcInfo[master[b]]]
             ELSE package[n].base # base[b].id

\* A session writes to the tables and refs of a base only if its user may write
\* to the base, or to its free name, at that time or has lost it in the middle
\* of this session: git-serve looks at its beginning, and the hook, which is not
\* asked again, works for nobody who had no access then and has none now.
OnlyWritersWrite ==
    [][\A s \in Session :
         job'[s] # job[s] /\ <<base, package, refs>>' # <<base, package, refs>>
           => MayPush(s) \/ s \in overtaken]_vars

\* The packages of a base are replaced only by someone who may write to it
\* when that happens.
StepIsAuthorised ==
    \A s \in Session :
      At(s, "save") /\ package' # package /\ job'[s] # job[s]
        => LET b == base[job[s].base]
           IN  job[s].user \in Privileged \cup {b.maintainer} \cup b.comaintainers

\* Sessions that race, die half-way or restore what was deleted never take a
\* commit out of the history of master; only a Package Maintainer who asks to
\* overwrite does.
OnlyFastForwards ==
    [][\A b \in Base :
         Past(master[b]) \subseteq Past(master'[b])
           \/ \E s \in Session : At(s, "git") /\ job'[s] # job[s] /\ job[s].overwrite
                                 /\ job[s].user \in Privileged]_vars

\* Every commit that can be reached from master or the branch of a base went
\* through the checks of the hook, although a push is checked only from the
\* commit that git advertised.
HistoryIsFine ==
    \A b \in Base : \A c \in Past(master[b]) \cup Past(branch[b]) :
      IF LegacyParser THEN LegacyTreeIsFine(c) ELSE TreeIsFine(c)

\* The hook warns ".SRCINFO unchanged. The package database will not be
\* updated!": such a push leaves the row of the base alone.
UnchangedInfoLeavesDatabase ==
    [][\A s \in Session :
         At(s, "save") /\ job'[s] # job[s] /\ job[s].old \in Commit \ {job[s].new}
             /\ SrcInfo[job[s].old] = SrcInfo[job[s].new]
           => base' = base]_vars
=============================================================================

------------------------------ MODULE MCGitPush ------------------------------
(***************************************************************************)
(* Small instances of GitPush for TLC.  A behaviour has a setting: one     *)
(* session after the other with every kind of commit, or two sessions at   *)
(* the same time, with crashes, of a legacy installation.                  *)
(***************************************************************************)
EXTENDS GitPush, TLC

CONSTANTS b1, b2, n1, n2, u1, u2, pm,
          Setting      \* the settings that a run explores

VARIABLE setting

\* The commits of b1: a first one, three that follow it (with one package
\* more; with the same .SRCINFO; with a tree the hook refuses and a repaired
\* one on top of that) and one with another past.  The commit of b2 has a
\* package in common with two of them.
MCHistory == [c \in {"a", "two", "same", "broken", "repaired", "other", "b"} |->
    CASE c \in {"a", "other", "b"} -> {c}
      [] c \in {"two", "same", "broken"} -> {"a", c}
      [] c = "repaired" -> {"a", "broken", c}]
MCFlaws == [c \in DOMAIN MCHistory |->
    IF c = "broken" THEN {"not REUSE", "unknown licence"} ELSE {}]
MCSrcInfo == [c \in DOMAIN MCHistory |->
    CASE c = "b" -> "of b" [] c \in {"two", "repaired"} -> "two packages"
      [] c = "other" -> "another" [] OTHER -> "one package"]
MCPkgBaseOf == [i \in {"of b", "two packages", "one package", "another"} |->
    IF i = "of b" THEN b2 ELSE b1]
MCPackagesIn == [i \in DOMAIN MCPkgBaseOf |->
    CASE i = "one package" -> {n1} [] i \in {"two packages"} -> {n1, n2} [] OTHER -> {n2}]

\* b1 is at its first commit and has a maintainer, a co-maintainer or nobody.
PushedInit ==
    /\ master = [b \in Base |-> IF b = b1 THEN "a" ELSE NoCommit]
    /\ \E owner \in {[maintainer |-> u1, comaintainers |-> {}],
                     [maintainer |-> pm, comaintainers |-> {u1}],
                     [maintainer |-> NoUser, comaintainers |-> {}]} :
         base = [b \in Base |-> IF b # b1 THEN Absent
                 ELSE [id |-> 1, maintainer |-> owner.maintainer,
                       comaintainers |-> owner.comaintainers, packager |-> u1,
                       flagged |-> TRUE, notify |-> {u1}]]
    /\ Init

Alone == INSTANCE GitPush WITH
    LegacyParser <- FALSE, Faults <- {}, WebOps <- {"delete", "disown", "adopt"}
Races == INSTANCE GitPush WITH
    LegacyParser <- TRUE, Faults <- {"crash"}, WebOps <- {"delete", "disown", "adopt"},
    User <- {u1, pm}, Base <- {b1}, Commit <- {"a", "broken", "repaired", "other"},
    MaxId <- 3
Killed == INSTANCE GitPush WITH
    LegacyParser <- FALSE, Faults <- {"crash"}, WebOps <- {}, Commit <- {"a", "two"}

OneSession == Cardinality({s \in Session : ~ At(s, "idle")}) <= 1

SettingInit == PushedInit /\ setting \in Setting

SettingNext ==
    /\ setting' = setting
    /\ \/ setting = "alone" /\ Alone!Next /\ OneSession'
       \/ setting = "races" /\ Races!Next
       \/ setting = "killed" /\ Killed!Next /\ OneSession'

SettingSpec == SettingInit /\ [][SettingNext]_<<vars, setting>>

\* Where no session dies or runs into another one, the database shows the
\* commit of master between pushes (the hook).
PushIsWhole == setting = "alone" => DatabaseMatchesMaster

SessionSymmetry == Permutations(Session)
=============================================================================

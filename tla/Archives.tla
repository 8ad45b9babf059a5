------------------------------ MODULE Archives ------------------------------
(***************************************************************************)
(* aurweb-mkpkglists: one snapshot of the database becomes several         *)
(* archives.  Each is written under a temporary name that all runs share,  *)
(* its checksum is written next to the old archive, and then it is moved   *)
(* into place.  A run may be killed at any step, and cron starts the next  *)
(* one whether the last one has ended or not.                              *)
(*                                                                         *)
(* What an archive says is the version of the database it was made from.   *)
(* A file that is open keeps its identity when it is moved, so files are   *)
(* kept apart from their names.                                            *)
(*                                                                         *)
(* An operator whose name ends in _Bug is the definition that follows it,  *)
(* with a mistake that the properties at the end have to catch.  Nothing   *)
(* uses it.                                                                *)
(***************************************************************************)
EXTENDS Integers, Sequences

CONSTANTS
    Run,          \* processes that cron may start
    Names,        \* the archives, in the order in which they are moved
    Others,       \* those written one by one, after the ones of packages
    File,         \* identities of files, for each name
    NoFile,
    MaxVersion,   \* bound: changes of the database
    MaxCrash      \* bound: runs that are killed

Name == {Names[i] : i \in 1..Len(Names)}
Listed == Name \ {Others[i] : i \in 1..Len(Others)}

\* Assumptions about the constants, which MCCron makes for its instances.
\* There are more identities of files than runs.
NamesAssumption ==
    /\ Names \in Seq(Name) /\ Others \in Seq(Name)
    /\ \A i, j \in 1..Len(Names) : Names[i] = Names[j] => i = j
    /\ \A i, j \in 1..Len(Others) : Others[i] = Others[j] => i = j
    /\ Listed # {}
FileAssumption ==
    /\ NoFile \notin File
    /\ \A g \in [File -> Run] : \E f, h \in File : f # h /\ g[f] = g[h]
BoundAssumption == MaxVersion \in Nat \ {0} /\ MaxCrash \in Nat

VARIABLES
    version,      \* of the database
    tmp, dst,     \* of a name: the file under that name and ".tmp", and the archive
    content,      \* of a name and a file: the version that it holds, Partial or Torn
    sha,          \* of a name: what the checksum file was computed from
    run,          \* of a process
    crashes

vars == <<version, tmp, dst, content, sha, run, crashes>>

\* A file that is not written to the end; one that two runs write into; a
\* checksum file that is not there.
Partial == 0
Torn == -1
NoSum == -2

Resting == [pc |-> "rest", version |-> 0, file |-> [n \in Name |-> NoFile], next |-> 1]

TypeOK ==
    /\ version \in 1..MaxVersion
    /\ tmp \in [Name -> File \cup {NoFile}] /\ dst \in [Name -> File \cup {NoFile}]
    /\ content \in [Name -> [File -> -1..MaxVersion]]
    /\ sha \in [Name -> -2..MaxVersion]
    /\ \A r \in Run :
         /\ run[r].pc \in {"rest", "write", "open", "other", "sum", "move"}
         /\ run[r].version \in 0..version /\ run[r].next \in 1..Len(Names) + 1
         /\ run[r].file \in [Name -> File \cup {NoFile}]
    /\ crashes \in 0..MaxCrash
    /\ \A n \in Name : tmp[n] = dst[n] => tmp[n] = NoFile

Init ==
    /\ version = 1
    /\ tmp = [n \in Name |-> NoFile] /\ dst = [n \in Name |-> NoFile]
    /\ content = [n \in Name |-> [f \in File |-> Partial]]
    /\ sha = [n \in Name |-> NoSum]
    /\ run = [r \in Run |-> Resting]
    /\ crashes = 0

-----------------------------------------------------------------------------
(* Files *)

\* the files that runs have open to write
Open(n) == {run[r].file[n] : r \in Run} \ {NoFile}

\* open(..., "wb"): the file under the temporary name, emptied, or a new one
Opened(n) ==
    IF tmp[n] # NoFile THEN tmp[n] ELSE CHOOSE f \in File : f \notin Open(n) \cup {dst[n]}

OpenAll(r, S) ==
    /\ tmp' = [n \in Name |-> IF n \in S THEN Opened(n) ELSE tmp[n]]
    /\ content' = [n \in Name |-> IF n \notin S THEN content[n] ELSE
         [content[n] EXCEPT ![Opened(n)] = IF Opened(n) \in Open(n) THEN Torn ELSE Partial]]

Written(n, f, v) == [content[n] EXCEPT ![f] = IF @ = Torn THEN Torn ELSE v]

-----------------------------------------------------------------------------
(* A run *)

\* The archives of packages are opened, and the first query of the
\* transaction takes the snapshot that all queries of the run read.
Start(r) ==
    /\ run[r].pc = "rest"
    /\ OpenAll(r, Listed)
    /\ run' = [run EXCEPT ![r] =
         [pc |-> "write", version |-> version, next |-> 1,
          file |-> [n \in Name |-> IF n \in Listed THEN Opened(n) ELSE NoFile]]]
    /\ UNCHANGED <<version, dst, sha, crashes>>

\* One item per package was written to each of them, and they are closed.
WriteListed(r) ==
    /\ run[r].pc = "write"
    /\ content' = [n \in Name |->
         IF n \in Listed THEN Written(n, run[r].file[n], run[r].version) ELSE content[n]]
    /\ run' = [run EXCEPT ![r].file = [n \in Name |-> NoFile],
                          ![r].pc = IF Others = <<>> THEN "sum" ELSE "open"]
    /\ UNCHANGED <<version, tmp, dst, sha, crashes>>

OpenOther(r) == LET n == Others[run[r].next] IN
    /\ run[r].pc = "open"
    /\ OpenAll(r, {n})
    /\ run' = [run EXCEPT ![r].file[n] = Opened(n), ![r].pc = "other"]
    /\ UNCHANGED <<version, dst, sha, crashes>>

AfterOther(r) ==
    run' = [run EXCEPT ![r].file = [n \in Name |-> NoFile],
                       ![r].next = IF @ = Len(Others) THEN 1 ELSE @ + 1,
                       ![r].pc = IF run[r].next = Len(Others) THEN "sum" ELSE "open"]

WriteOther(r) == LET n == Others[run[r].next] IN
    /\ run[r].pc = "other"
    /\ content' = [content EXCEPT ![n] = Written(n, run[r].file[n], run[r].version)]
    /\ AfterOther(r)
    /\ UNCHANGED <<version, tmp, dst, sha, crashes>>

End(r) == run' = [run EXCEPT ![r] = Resting]

Checksum_Bug(r) == LET n == Names[run[r].next] IN \* that of the old archive
    /\ run[r].pc = "sum"
    /\ sha' = [sha EXCEPT ![n] = IF dst[n] = NoFile THEN NoSum ELSE content[n][dst[n]]]
    /\ run' = [run EXCEPT ![r].pc = "move"]
    /\ UNCHANGED <<version, tmp, dst, content, crashes>>

\* The checksum of the temporary file is written next to the old archive.  A
\* file that another run has moved is an error, and the run ends.
Checksum(r) == LET n == Names[run[r].next] IN
    /\ run[r].pc = "sum"
    /\ IF tmp[n] = NoFile THEN End(r) /\ UNCHANGED sha
       ELSE /\ sha' = [sha EXCEPT ![n] = content[n][tmp[n]]]
            /\ run' = [run EXCEPT ![r].pc = "move"]
    /\ UNCHANGED <<version, tmp, dst, content, crashes>>

Move(r) == LET n == Names[run[r].next] IN
    /\ run[r].pc = "move"
    /\ IF tmp[n] = NoFile THEN End(r) /\ UNCHANGED <<tmp, dst>>
       ELSE /\ dst' = [dst EXCEPT ![n] = tmp[n]]
            /\ tmp' = [tmp EXCEPT ![n] = NoFile]
            /\ IF run[r].next = Len(Names) THEN End(r)
               ELSE run' = [run EXCEPT ![r].next = @ + 1, ![r].pc = "sum"]
    /\ UNCHANGED <<version, content, sha, crashes>>

-----------------------------------------------------------------------------
(* The world around *)

\* A package, a package base or an account is added, changed or removed.
Commit ==
    /\ version < MaxVersion /\ version' = version + 1
    /\ UNCHANGED <<tmp, dst, content, sha, run, crashes>>

\* A run is killed, between two steps.
Crash(r) ==
    /\ run[r].pc # "rest" /\ crashes < MaxCrash
    /\ crashes' = crashes + 1 /\ End(r)
    /\ UNCHANGED <<version, tmp, dst, content, sha>>

Step(r) ==
    \/ Start(r) \/ WriteListed(r) \/ OpenOther(r) \/ WriteOther(r)
    \/ Checksum(r) \/ Move(r)

Next == Commit \/ \E r \in Run : Step(r) \/ Crash(r)

Spec == Init /\ [][Next]_vars

-----------------------------------------------------------------------------
(* Properties.                                                             *)

Published(n) == content[n][dst[n]]
Quiet == \A r \in Run : run[r].pc = "rest"

\* What can be downloaded was written to its end (the temporary names of
\* mkpkglists).
ArchivesAreWhole == \A n \in Name : dst[n] # NoFile => Published(n) \notin {Partial, Torn}

\* When no run is under way, the archives are of one snapshot (the
\* transaction of mkpkglists.main).
OneSnapshot == Quiet => \A m, n \in Name :
    /\ dst[m] = NoFile <=> dst[n] = NoFile
    /\ dst[m] # NoFile => Published(m) = Published(n)

\* When no run is under way, each checksum file is that of the archive it is
\* next to (the loop at the end of mkpkglists).
ChecksumIsRight == Quiet => \A n \in Name :
    sha[n] = IF dst[n] = NoFile THEN NoSum ELSE Published(n)

\* Whatever was killed, the archives come to be of the last version of the
\* database, each with its checksum (the runs of mkpkglists).
UpToDate == \A n \in Name : dst[n] # NoFile /\ Published(n) = version /\ sha[n] = version
=============================================================================

----------------------------- MODULE ExtractTar -----------------------------
(***************************************************************************)
(* ExtractTar (helper.go of minio.min.io/v2): takes the files of a release *)
(* from an archive into one directory, and counts them to know that none   *)
(* is missing.                                                             *)
(***************************************************************************)
EXTENDS Naturals, Integers, Sequences, FiniteSets

CONSTANTS
  Names,       \* names in archives
  Base(_),     \* their last path element
  MaxEntries,  \* bound: entries of an archive
  MaxWanted    \* bound: names asked for

Headers == [name : Names, reg : BOOLEAN]
UpTo(S, n) == UNION {[1..k -> S] : k \in 0..n}
Bases == {Base(n) : n \in Names}

VARIABLES
  wanted, archive,  \* filesToExtract, tarFileName
  disk,             \* basePath: per base name whose content, whole or torn
  pc, i, success
vars == <<wanted, archive, disk, pc, i, success>>
args == <<wanted, archive>>

Absent == [of |-> "none", whole |-> FALSE]

Init ==
  /\ wanted \in UpTo(Names, MaxWanted)
  /\ archive \in UpTo(Headers, MaxEntries)
  /\ disk = [b \in Bases |-> Absent]
  /\ pc = "open" /\ i = 0 /\ success = 0

-----------------------------------------------------------------------------
\* One too many.
OpenOffByOne ==
  /\ pc = "open"
  /\ pc' \in {"next", "error"}
  /\ success' = Len(wanted) + 1
  /\ UNCHANGED <<args, disk, i>>

(* The archive, and the gzip stream in it.                                 *)
Open ==
  /\ pc = "open"
  /\ pc' \in {"next", "error"}
  /\ success' = Len(wanted)
  /\ UNCHANGED <<args, disk, i>>

find(name) == \E k \in DOMAIN wanted : wanted[k] = name

(* The end of the archive: success if every file was counted, else EOF is  *)
(* the error.                                                              *)
EndOfArchive ==
  /\ pc = "next" /\ i = Len(archive)
  /\ pc' = IF success = 0 THEN "nil" ELSE "error"
  /\ UNCHANGED <<args, disk, i, success>>

(* An entry; or it cannot be read. Only regular files that were asked for  *)
(* are taken.                                                              *)
NextHeader ==
  /\ pc = "next" /\ i < Len(archive)
  /\ \/ /\ i' = i + 1
        /\ pc' = IF archive[i + 1].reg /\ find(archive[i + 1].name) THEN "file" ELSE "next"
     \/ i' = i /\ pc' = "error"
  /\ UNCHANGED <<args, disk, success>>

\* The rest of a file that breaks off is not missed.
CopyUnchecked ==
  /\ pc = "file"
  /\ LET n == archive[i].name
     IN  \/ UNCHANGED <<disk, success>> /\ pc' = "error"
         \/ \E whole \in BOOLEAN :
              /\ disk' = [disk EXCEPT ![Base(n)] = [of |-> n, whole |-> whole]]
              /\ success' = success - 1
              /\ pc' = "next"
  /\ UNCHANGED <<args, i>>

(* O_TRUNC, then the copy: opening may fail, and so may the copy, which    *)
(* leaves a torn file behind.                                              *)
Copy ==
  /\ pc = "file"
  /\ LET n == archive[i].name
     IN  \/ UNCHANGED <<disk, success>> /\ pc' = "error"
         \/ \E whole \in BOOLEAN :
              /\ disk' = [disk EXCEPT ![Base(n)] = [of |-> n, whole |-> whole]]
              /\ success' = IF whole THEN success - 1 ELSE success
              /\ pc' = IF whole THEN "next" ELSE "error"
  /\ UNCHANGED <<args, i>>

Next == Open \/ EndOfArchive \/ NextHeader \/ Copy

Spec == Init /\ [][Next]_vars

-----------------------------------------------------------------------------
Files     == {k \in DOMAIN archive : archive[k].reg}
Injective(s, f(_)) == \A j, k \in DOMAIN s : f(s[j]) = f(s[k]) => j = k
NameOf(h) == h.name
Extracted(n) == disk[Base(n)] = [of |-> n, whole |-> TRUE]

\* Archives as releases are: no entry twice, and no two files of one name asked for.
Proper == Injective(archive, NameOf) /\ Injective(wanted, Base)

\* The counter starts at the number of names and falls by at most one per entry.
TypeOK ==
  /\ disk \in [Bases -> [of : Names \cup {"none"}, whole : BOOLEAN]]
  /\ pc \in {"open", "next", "file", "nil", "error"}
  /\ i \in 0..Len(archive)
  /\ pc = "open" \/ success \in (Len(wanted) - i)..Len(wanted)

\* From a proper archive: nil means that each file asked for is there in whole, and
\* nothing else was touched.
NilMeansExtracted ==
  Proper /\ pc = "nil" =>
    /\ \A k \in DOMAIN wanted : Extracted(wanted[k])
    /\ \A b \in Bases : disk[b] # Absent => \E k \in DOMAIN wanted : Base(wanted[k]) = b

\* From a proper archive: what is counted is what is there, after every entry, so an
\* archive that holds all the files is never refused for a missing one.
CountIsRight ==
  Proper /\ pc \in {"next", "nil"} =>
    success = Cardinality({k \in DOMAIN wanted : ~Extracted(wanted[k])})
=============================================================================

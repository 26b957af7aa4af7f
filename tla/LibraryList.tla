----------------------------- MODULE LibraryList ----------------------------
(***************************************************************************)
(* library.c: several libraries open at once, kept in library_list and     *)
(* told apart by the names in their headers.  What is inside a library is  *)
(* the matter of Library; here a file is its name.                         *)
(***************************************************************************)
EXTENDS Naturals, Sequences

CONSTANTS
  LibFiles,  \* paths of library files
  LibNames,  \* names a library may have, and words that commands may give
  Begins,    \* pairs <<m, n>> where n begins with m
  Absent,    \* no such file
  Junk,      \* a file of 1024 bytes or more that is not a library
  Disks,     \* what may be there at the start
  MaxMaps    \* bound: mappings of one file

ASSUME LibNamesAssumption ==
  /\ Begins \subseteq LibNames \X LibNames
  /\ \A n \in LibNames : <<n, n>> \in Begins
  /\ \A m, n \in LibNames : {<<m, n>>, <<n, m>>} \subseteq Begins => m = n
  /\ \A l, m, n \in LibNames : {<<l, m>>, <<m, n>>} \subseteq Begins => <<l, n>> \in Begins
  /\ {Absent, Junk} \cap LibNames = {}
  /\ Disks \subseteq [LibFiles -> LibNames \cup {Absent, Junk}]
  /\ MaxMaps \in Nat

VARIABLES
  disk,  \* the name in each file's header
  libs,  \* library_list
  maps   \* how often each file is mapped

lvars == <<disk, libs, maps>>

LInit ==
  /\ disk \in Disks
  /\ libs = <<>>
  /\ maps = [f \in LibFiles |-> 0]

NameOf(i) == disk[libs[i]]

(* mlib_create_library(): only where there is no file. *)
Create(f, n) ==
  /\ disk[f] = Absent
  /\ disk' = [disk EXCEPT ![f] = n]
  /\ UNCHANGED <<libs, maps>>

(* __mlib_open_local_lib(): the file is mapped before its magic and its    *)
(* name are looked at, and stays so when they do not please.               *)
(* Mutant: only the last library's name is compared.                       *)
AlreadyOpenMutant(n) == libs # <<>> /\ NameOf(Len(libs)) = n
AlreadyOpen(n) == \E i \in DOMAIN libs : NameOf(i) = n
Mapped(f) == maps[f] < MaxMaps /\ maps' = [maps EXCEPT ![f] = @ + 1]
(* Mutant: a refused file is unmapped twice.                               *)
OpenRefusedMutant(f) ==
  /\ disk[f] # Absent /\ (disk[f] = Junk \/ AlreadyOpen(disk[f]))
  /\ maps' = [maps EXCEPT ![f] = @ - 1]
  /\ UNCHANGED <<disk, libs>>
OpenRefused(f) ==
  /\ disk[f] # Absent /\ (disk[f] = Junk \/ AlreadyOpen(disk[f]))
  /\ Mapped(f)
  /\ UNCHANGED <<disk, libs>>
Open(f) ==
  /\ disk[f] \in LibNames /\ ~ AlreadyOpen(disk[f])
  /\ Mapped(f)
  /\ libs' = Append(libs, f)
  /\ UNCHANGED disk

(* mlib_find_library(): the first library whose whole name n begins with;  *)
(* zero when there is none.                                                *)
(* Mutant: as many characters are compared as n has.                       *)
mlib_find_libraryMutant(n) ==
  LET found == {i \in DOMAIN libs : <<n, NameOf(i)>> \in Begins}
  IN IF found = {} THEN 0 ELSE CHOOSE i \in found : \A j \in found : i <= j
mlib_find_library(n) ==
  LET found == {i \in DOMAIN libs : <<NameOf(i), n>> \in Begins}
  IN IF found = {} THEN 0 ELSE CHOOSE i \in found : \A j \in found : i <= j

Without(s, k) == [i \in 1 .. Len(s) - 1 |-> IF i < k THEN s[i] ELSE s[i + 1]]
Close(n) ==
  LET k == mlib_find_library(n) IN
  /\ k # 0
  /\ libs' = Without(libs, k)
  /\ maps' = [maps EXCEPT ![libs[k]] = @ - 1]
  /\ UNCHANGED disk

LNext == \/ \E f \in LibFiles, n \in LibNames : Create(f, n)
         \/ \E f \in LibFiles : Open(f) \/ OpenRefused(f)
         \/ \E n \in LibNames : Close(n)
LSpec == LInit /\ [][LNext]_lvars

-----------------------------------------------------------------------------
(* The type invariant of the list. *)
LTypeOK ==
  /\ disk \in [LibFiles -> LibNames \cup {Absent, Junk}]
  /\ libs \in Seq(LibFiles)
  /\ maps \in [LibFiles -> Nat]

(* Open libraries have different names, so that a name can mean only one,  *)
(* and each is a library that is mapped: refusing to open a file again, or *)
(* closing another, never takes the mapping of one in the list away.       *)
OpenSound ==
  /\ \A i, j \in DOMAIN libs : NameOf(i) = NameOf(j) => i = j
  /\ \A i \in DOMAIN libs : NameOf(i) \in LibNames /\ maps[libs[i]] > 0

(* Asking for an open library by its name finds it, unless one opened      *)
(* before it has a shorter name that the asked one begins with.            *)
FindsNamed ==
  \A i \in DOMAIN libs :
    \/ mlib_find_library(NameOf(i)) = i
    \/ \E j \in 1 .. i - 1 : <<NameOf(j), NameOf(i)>> \in Begins
=============================================================================

------------------------------- MODULE Library ------------------------------
(***************************************************************************)
(* One library over its whole life: created, opened, changed by playlist   *)
(* commands, closed, and opened again by the same or by a later process.   *)
(* Every action is one whole call of the public functions of library.c and *)
(* playlist.c, with the operators of LibImage doing what each call does to *)
(* the file.  Commands are run one at a time by mlib_loop(), so one action *)
(* is one command; Exit is the process ending between two commands.        *)
(***************************************************************************)
EXTENDS LibImage

CONSTANT MaxLen  \* bound: only libraries of at most this length are grown
ASSUME MaxLenAssumption == MaxLen \in Nat

VARIABLES
  file,  \* what is at the library's path
  img,   \* the library file, as last left
  lib,   \* the process's struct mlib_library
  ret    \* how the last call ended

vars == <<file, img, lib, ret>>

FileStates == {"absent", "junk", "library"}
LibStates == {"closed", "open", "dangling", "wild"}
Outcomes == {"none", "ok", "fail", "killed"}

Init == /\ file = "absent"
        /\ img = BlankLibrary
        /\ lib = "closed"
        /\ ret = "none"

(* A call on the open library ends.  An error that leaves the header       *)
(* unmapped still leaves the library in library_list; a signal ends the    *)
(* process, and the shared mapping's contents are the file's.              *)
Ended(r) ==
  /\ img' = r.img
  /\ ret' = CASE r.st = "ok" -> "ok"
              [] r.st = "killed" -> "killed"
              [] OTHER -> "fail"
  /\ lib' = CASE r.st = "unmapped" -> "dangling"
              [] r.st = "killed" -> "closed"
              [] r.st = "wild" -> "wild"
              [] OTHER -> "open"
  /\ UNCHANGED file

(* mlib_create_library(): the new file is grown and mapped without looking *)
(* at the results, and closed again.  .global is made in it; what          *)
(* mlib_start_playlist() returns is ignored, but a library it leaves       *)
(* unmapped is then read for its length.                                   *)
CreateExists ==
  /\ file # "absent" /\ lib # "wild"
  /\ ret' = "fail"
  /\ UNCHANGED <<file, img, lib>>
CreateUnusable ==
  /\ file = "absent" /\ lib = "closed"
  /\ Faults \cap {"write", "mmap"} # {}
  /\ file' = "junk" /\ ret' = "killed"
  /\ UNCHANGED <<img, lib>>
CreateNew ==
  /\ file = "absent" /\ lib = "closed"
  /\ \E r \in start_playlist(BlankLibrary, Global) :
       /\ img' = r.img
       /\ ret' = IF r.st \in {"unmapped", "killed"} THEN "killed" ELSE "ok"
  /\ file' = "library"
  /\ UNCHANGED lib
CreateLibrary == CreateExists \/ CreateUnusable \/ CreateNew

(* __mlib_open_local_lib(): maps the size the file has. *)
OpenLibrary ==
  /\ lib = "closed"
  /\ \/ /\ file = "library"
        /\ lib' = "open" /\ ret' = "ok"
        /\ img' = [img EXCEPT !.vm = Pages(img.size)]
     \/ /\ file # "library" \/ "mmap" \in Faults
        /\ ret' = "fail"
        /\ UNCHANGED <<img, lib>>
  /\ UNCHANGED file

CloseLibrary ==
  /\ lib = "open"
  /\ \E r \in sync_library(img) : ret' = r.st
  /\ lib' = "closed"
  /\ UNCHANGED <<file, img>>

StartPlaylist(n) ==
  /\ lib = "open" /\ img.len <= MaxLen
  /\ \E r \in start_playlist(img, n) : Ended(r)

DeletePlaylist(n) ==
  /\ lib = "open"
  /\ \E r \in delete_playlist(img, n) : Ended(r)

AddPath(n, p) ==
  /\ lib = "open" /\ img.len <= MaxLen
  /\ \E r \in add_path(img, n, p) : Ended(r)

(* Every command that names or lists libraries reads the header of each,   *)
(* and with it the unmapped address.                                       *)
UseDangling ==
  /\ lib = "dangling"
  /\ lib' = "closed" /\ ret' = "killed"
  /\ UNCHANGED <<file, img>>

Exit ==
  /\ lib \in {"open", "dangling"}
  /\ lib' = "closed" /\ ret' = "none"
  /\ UNCHANGED <<file, img>>

Next == \/ CreateLibrary \/ OpenLibrary \/ CloseLibrary
        \/ \E n \in Names : StartPlaylist(n) \/ DeletePlaylist(n)
        \/ \E n \in Names, p \in Paths : AddPath(n, p)
        \/ UseDangling \/ Exit

Spec == Init /\ [][Next]_vars

-----------------------------------------------------------------------------
(* What the library holds, as a user sees it: the playlists that lspls     *)
(* lists, each with the paths that its indexes lead to.                    *)
Shown(I) ==
  LET walk == Visited(I)
  IN {<<I.hdr[h].name, Contents(I, h)>> :
        h \in {x \in walk : \A y \in walk : I.hdr[y].name = I.hdr[x].name => x <= y}}
Lists(I) ==
  LET shown == Shown(I)
  IN [n \in {s[1] : s \in shown} |-> (CHOOSE s \in shown : s[1] = n)[2]]

(* The type invariant: file and process states, and an image whose cells   *)
(* are playlists, paths and index words at natural offsets.                *)
TypeOK == /\ file \in FileStates /\ lib \in LibStates /\ ret \in Outcomes
          /\ ImageTyped(img)

(* No two playlists overlap and each fits in the library, whatever was     *)
(* inserted, expanded or cut out before it, and also when the mapping      *)
(* moves or an expansion fails half way (memmove arithmetic of             *)
(* __mlib_library_insert_space and __mlib_library_excise).                 *)
Layout ==
  lib # "wild" => /\ \A h \in DOMAIN img.hdr : CellFits(img, h)
                  /\ Disjoint(img)

(* The length in the header never exceeds the file: a command that touches *)
(* any byte below lib_len finds it in the file and not past its end, where *)
(* it would get SIGBUS, after every expansion that failed at any point.    *)
FileCovers == img.len <= img.size

(* mlib_for_each_pls reaches every playlist that was ever written and not  *)
(* deleted: the length of each leads exactly to the next, the last leads   *)
(* to lib_len, and the first is right behind the header.                   *)
WalkComplete == lib # "wild" => Visited(img) = DOMAIN img.hdr

(* Every index of every playlist leads to a string of that playlist's own  *)
(* bucket, and no string lies over another: strings and indexes survive    *)
(* the memmoves that other playlists' growth and removal cause.            *)
Word(I, h, i) == bucket_index(I, h, i)
StringsSound ==
  lib # "wild" =>
    \A h \in DOMAIN img.hdr :
      LET used == 0 .. bucket_nr_indexes(img, h) - 1 IN
      /\ Slots(img, h) \subseteq DOMAIN img.idx
      /\ \A i \in used :
           /\ Strings(h) + Word(img, h, i) \in DOMAIN img.str
           /\ Word(img, h, i) + PathLen[bucket_string(img, h, i)] <= img.hdr[h].sbytes
      /\ \A i, j \in used :
           Word(img, h, i) < Word(img, h, j) =>
             Word(img, h, i) + PathLen[bucket_string(img, h, i)] <= Word(img, h, j)

(* The indexes of a bucket are strictly sorted by the strings they lead    *)
(* to, which bsearch in mlib_bucket_contains relies on and which is why a  *)
(* playlist never holds a path twice.                                      *)
SortedOnce ==
  lib # "wild" =>
    \A h \in DOMAIN img.hdr : \A i, j \in 0 .. bucket_nr_indexes(img, h) - 1 :
      i < j => bucket_string(img, h, i) < bucket_string(img, h, j)

(* The number lspls prints for a playlist is the number of paths in it:    *)
(* mcount, counted by mlib_add_path_to_plist, and the index array, grown   *)
(* by mlib_bucket_add, agree.                                              *)
CountsMatch ==
  lib # "wild" =>
    \A h \in DOMAIN img.hdr : img.hdr[h].mcount = bucket_nr_indexes(img, h)

(* No two playlists have one name: mlib_start_playlist refuses a name that *)
(* is in use.                                                              *)
NamesUnique ==
  \A g, h \in Visited(img) : img.hdr[g].name = img.hdr[h].name => g = h

(* Whatever enters a playlist is in .global as well: mlib_add_path() adds  *)
(* it there first, so no step puts a path into another playlist alone.     *)
AlsoGlobal ==
  [][lib' # "wild" =>
       \A t \in Shown(img') : t[1] # Global =>
         t[2] \subseteq UNION {s[2] : s \in {s \in Shown(img) : s[1] = t[1]}
                                         \cup {s \in Shown(img') : s[1] = Global}}]_vars

(* A command changes the playlist it names and .global, and nothing else   *)
(* that the user can see: no other playlist appears, disappears or changes *)
(* by the bytes being moved under it, and no playlist that stays loses a   *)
(* path.                                                                   *)
Apart(A, B) == {s[1] : s \in (A \ B) \cup (B \ A)}
ChangesOne ==
  [][lib' # "wild" =>
       /\ Cardinality(Apart(Shown(img), Shown(img')) \ {Global}) <= 1
       /\ \A s \in Shown(img), t \in Shown(img') :
            s[1] = t[1] => s[2] \subseteq t[2]]_vars

(* In one step at most one playlist loses a path or disappears, also when  *)
(* mlib_delete_playlist() fails in ftruncate() after the memmove and stale *)
(* copies of what was moved stay behind in the library.                    *)
LosesOne ==
  [][LET kept(s) == \E t \in Shown(img') : s[1] = t[1] /\ s[2] \subseteq t[2]
     IN lib' # "wild" => Cardinality({s \in Shown(img) : ~ kept(s)}) <= 1]_vars
=============================================================================

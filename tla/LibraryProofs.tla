---------------------------- MODULE LibraryProofs ---------------------------
(***************************************************************************)
(* Proofs about Library for every set of names and paths, every path       *)
(* length, file limit, page size and choice of faults.  ImageProofs says   *)
(* what each command does to a file; here are the inductive invariants     *)
(* that follow, one for each kind of thing that stays true, and the        *)
(* theorems of the specification.                                          *)
(***************************************************************************)
EXTENDS Library, ImageProofs

(* Where playlists lie. *)

Inv == /\ file \in FileStates /\ lib \in LibStates /\ ret \in Outcomes
       /\ ImageInv(img)

LEMMA InitInv == Init => Inv
BY BlankSafe DEF Init, Inv, FileStates, LibStates, Outcomes

LEMMA EndedSafe ==
  ASSUME NEW r, r.st \in OuterStates, ImageInv(r.img), Inv, Ended(r)
  PROVE  Inv'
BY DEF Ended, Inv, OuterStates, FileStates, LibStates, Outcomes, ImageInv, ImageTyped, Cell,
       CellsFit, CellFits, Disjoint, SlotsFilled, Slots, bucket_indexes, bucket_nr_indexes,
       HeaderSize, PlistSize, PlistData, BucketHdr, IndexSize

LEMMA NextInv == Inv /\ [Next]_vars => Inv'
<1> SUFFICES ASSUME Inv, [Next]_vars PROVE Inv'
  OBVIOUS
<1> USE DEF FileStates, LibStates, Outcomes
<1>1. CASE CreateLibrary
  <2>1. CASE CreateExists
    BY <2>1 DEF CreateExists, Inv
  <2>2. CASE CreateUnusable
    BY <2>2 DEF CreateUnusable, Inv
  <2>3. CASE CreateNew
    <3>1. PICK r \in start_playlist(BlankLibrary, Global) :
            /\ img' = r.img
            /\ ret' = IF r.st \in {"unmapped", "killed"} THEN "killed" ELSE "ok"
      BY <2>3 DEF CreateNew
    <3>2. ImageInv(r.img)
      BY BlankSafe, StartPlaylistSafe, NamesAssumption
    <3> QED
      BY <2>3, <3>1, <3>2 DEF CreateNew, Inv
  <2> QED
    BY <1>1, <2>1, <2>2, <2>3 DEF CreateLibrary
<1>2. CASE OpenLibrary
  <2>1. CASE img' = [img EXCEPT !.vm = Pages(img.size)]
    <3>1. Pages(img.size) \in Int
      BY PagesInt DEF Inv, ImageInv, ImageTyped
    <3>2. ImageInv(img')
      BY <2>1, <3>1, RemappedSafe DEF Inv
    <3> QED
      BY <1>2, <3>2 DEF OpenLibrary, Inv
  <2>2. CASE UNCHANGED img
    BY <1>2, <2>2 DEF OpenLibrary, Inv
  <2> QED
    BY <1>2, <2>1, <2>2 DEF OpenLibrary
<1>3. CASE CloseLibrary
  BY <1>3, SyncSafe DEF CloseLibrary, Inv
<1>4. ASSUME NEW n \in Names, StartPlaylist(n) PROVE Inv'
  BY <1>4, StartPlaylistSafe, EndedSafe DEF StartPlaylist, Inv
<1>5. ASSUME NEW n \in Names, DeletePlaylist(n) PROVE Inv'
  BY <1>5, DeletePlaylistSafe, EndedSafe DEF DeletePlaylist, Inv, OuterStates
<1>6. ASSUME NEW n \in Names, NEW p \in Paths, AddPath(n, p) PROVE Inv'
  BY <1>6, AddPathSafe, EndedSafe DEF AddPath, Inv
<1>7. CASE UseDangling
  BY <1>7 DEF UseDangling, Inv
<1>8. CASE Exit
  BY <1>8 DEF Exit, Inv
<1>9. CASE UNCHANGED vars
  BY <1>9 DEF vars, Inv
<1> QED
  BY <1>1, <1>2, <1>3, <1>4, <1>5, <1>6, <1>7, <1>8, <1>9 DEF Next

LEMMA Invariance == Spec => []Inv
BY InitInv, NextInv, PTL DEF Spec

(* The image is well typed for ever, whichever step of an operation fails  *)
(* and wherever the mapping goes: no offset, length or count of the file   *)
(* becomes negative, and no index or header cell holds anything else.      *)
THEOREM Typed == Spec => []TypeOK
<1>1. Inv => TypeOK
  BY DEF Inv, ImageInv, TypeOK
<1> QED
  BY <1>1, Invariance, PTL

(* Playlists never overlap and never outgrow the library, for every set    *)
(* of path lengths and every sequence of commands and faults: the memmove  *)
(* arithmetic of library_insert_space, bucket_expand and library_excise.   *)
THEOREM LayoutHolds == Spec => []Layout
<1>1. Inv => Layout
  BY DEF Inv, ImageInv, CellsFit, Layout
<1> QED
  BY <1>1, Invariance, PTL

(* lib_len never exceeds the size of the file, so nothing below it is past *)
(* the end of the file: the order of writing, mapping and setting the      *)
(* length in library_expand, and of ftruncate in library_trunc.            *)
THEOREM FileCovered == Spec => []FileCovers
<1>1. Inv => FileCovers
  BY DEF Inv, ImageInv, FileCovers
<1> QED
  BY <1>1, Invariance, PTL

-----------------------------------------------------------------------------
(* What the buckets hold. *)

SoundInv == Inv /\ AllSound(img)

LEMMA NextSound == SoundInv /\ [Next]_vars => SoundInv'
<1> SUFFICES ASSUME SoundInv, [Next]_vars PROVE SoundInv'
  OBVIOUS
<1>0. Inv' /\ ImageInv(img) /\ AllSound(img)
  BY NextInv DEF SoundInv, Inv
<1> SUFFICES AllSound(img')
  BY <1>0 DEF SoundInv, AllSound, BucketSound, Words, EndOf, Strings, Slots, bucket_indexes,
              bucket_nr_indexes
<1>1. CASE CreateLibrary
  <2>1. CASE UNCHANGED img
    BY <1>0, <2>1
  <2>2. CASE \E r \in start_playlist(BlankLibrary, Global) : img' = r.img
    BY <2>2, BlankSafe, BlankSound, StartPlaylistSound, NamesAssumption
  <2> QED
    BY <1>1, <2>1, <2>2 DEF CreateLibrary, CreateExists, CreateUnusable, CreateNew
<1>2. CASE OpenLibrary
  <2>1. CASE img' = [img EXCEPT !.vm = Pages(img.size)]
    <3>1. img'.hdr = img.hdr /\ img'.str = img.str /\ img'.idx = img.idx
      BY <1>0, <2>1 DEF ImageInv, ImageTyped
    <3> QED
      BY <1>0, <3>1, KeptSelf, FromSound
  <2>2. CASE UNCHANGED img
    BY <1>0, <2>2
  <2> QED
    BY <1>2, <2>1, <2>2 DEF OpenLibrary
<1>3. ASSUME NEW n \in Names, StartPlaylist(n) PROVE AllSound(img')
  BY <1>0, <1>3, StartPlaylistSound DEF StartPlaylist, Ended
<1>4. ASSUME NEW n \in Names, DeletePlaylist(n) PROVE AllSound(img')
  BY <1>0, <1>4, DeletePlaylistSound DEF DeletePlaylist, Ended
<1>5. ASSUME NEW n \in Names, NEW p \in Paths, AddPath(n, p) PROVE AllSound(img')
  BY <1>0, <1>5, AddPathSound DEF AddPath, Ended
<1>6. CASE CloseLibrary \/ UseDangling \/ Exit \/ UNCHANGED vars
  BY <1>0, <1>6 DEF CloseLibrary, UseDangling, Exit, vars
<1> QED
  BY <1>1, <1>2, <1>3, <1>4, <1>5, <1>6 DEF Next

(* Index words by position, as the property has them, and by their set. *)
LEMMA SoundStrings == SoundInv => StringsSound
<1> SUFFICES ASSUME SoundInv, NEW h \in DOMAIN img.hdr
             PROVE  LET used == 0 .. bucket_nr_indexes(img, h) - 1 IN
                    /\ Slots(img, h) \subseteq DOMAIN img.idx
                    /\ \A i \in used :
                         /\ Strings(h) + Word(img, h, i) \in DOMAIN img.str
                         /\ Word(img, h, i) + PathLen[bucket_string(img, h, i)] <= img.hdr[h].sbytes
                    /\ \A i, j \in used :
                         Word(img, h, i) < Word(img, h, j) =>
                           Word(img, h, i) + PathLen[bucket_string(img, h, i)] <= Word(img, h, j)
  BY Zenon DEF StringsSound
<1> DEFINE used == 0 .. bucket_nr_indexes(img, h) - 1
<1>1. ImageInv(img) /\ BucketSound(img, h)
  BY DEF SoundInv, Inv, AllSound
<1>2. Slots(img, h) \subseteq DOMAIN img.idx
  BY <1>1 DEF ImageInv, SlotsFilled
<1>3. \A i \in used : Word(img, h, i) \in Words(img, h)
  BY DEF Word, Words, Slots, bucket_index
<1>4. \A i \in used : EndOf(img, h, Word(img, h, i)) = Word(img, h, i) + PathLen[bucket_string(img, h, i)]
  BY DEF EndOf, Word, bucket_string, bucket_string_at
<1> HIDE DEF used
<1>5. /\ \A i \in used :
           /\ Strings(h) + Word(img, h, i) \in DOMAIN img.str
           /\ Word(img, h, i) + PathLen[bucket_string(img, h, i)] <= img.hdr[h].sbytes
      /\ \A i, j \in used :
           Word(img, h, i) < Word(img, h, j) =>
             Word(img, h, i) + PathLen[bucket_string(img, h, i)] <= Word(img, h, j)
  BY <1>1, <1>3, <1>4 DEF BucketSound
<1> QED
  BY <1>2, <1>5 DEF used

(* Every index leads to a whole string of its own bucket and no string     *)
(* lies over another, for every set of path lengths and every sequence of  *)
(* commands: neither the memmoves of another playlist's growth or removal, *)
(* nor a growth or ftruncate that fails, separates words from strings.     *)
THEOREM StringsHold == Spec => []StringsSound
<1>1. Init => SoundInv
  BY InitInv, BlankSound DEF Init, SoundInv
<1> QED
  BY <1>1, NextSound, SoundStrings, PTL DEF Spec

-----------------------------------------------------------------------------

(* A step of the library changes nothing but the mapping, or is a command  *)
(* on the image; the first playlist is made in an empty library.           *)
LEMMA ImageStep ==
  ASSUME Inv, [Next]_vars
  PROVE  /\ ImageInv(img) /\ ImageInv(img')
         /\ \/ /\ img'.len = img.len /\ img'.hdr = img.hdr
               /\ img'.str = img.str /\ img'.idx = img.idx
            \/ \E r \in start_playlist(BlankLibrary, Global) : img' = r.img
            \/ \E n \in Names : \E r \in start_playlist(img, n) : lib = "open" /\ Ended(r)
            \/ \E n \in Names : \E r \in delete_playlist(img, n) : lib = "open" /\ Ended(r)
            \/ \E n \in Names, p \in Paths : \E r \in add_path(img, n, p) :
                 lib = "open" /\ Ended(r)
<1>1. ImageInv(img) /\ ImageInv(img')
  <2>1. Inv'
    BY NextInv
  <2>2. Inv' => ImageInv(img')
    BY DEF Inv, ImageInv, ImageTyped, Cell, CellsFit, CellFits, Disjoint, SlotsFilled, Slots,
           bucket_indexes, bucket_nr_indexes
  <2> QED
    BY <2>1, <2>2 DEF Inv
<1>2. CASE CreateLibrary
  BY <1>1, <1>2 DEF CreateLibrary, CreateExists, CreateUnusable, CreateNew
<1>3. CASE OpenLibrary
  <2>1. CASE img' = [img EXCEPT !.vm = Pages(img.size)]
    <3>1. /\ img'.len = img.len /\ img'.hdr = img.hdr
          /\ img'.str = img.str /\ img'.idx = img.idx
      BY <1>1, <2>1 DEF ImageInv, ImageTyped
    <3> QED
      BY <1>1, <3>1
  <2>2. CASE UNCHANGED img
    BY <1>1, <2>2
  <2> QED
    BY <1>3, <2>1, <2>2 DEF OpenLibrary
<1>4. CASE CloseLibrary \/ UseDangling \/ Exit \/ UNCHANGED vars
  BY <1>1, <1>4 DEF CloseLibrary, UseDangling, Exit, vars
<1>5. ASSUME NEW n \in Names, StartPlaylist(n)
      PROVE  \E r \in start_playlist(img, n) : lib = "open" /\ Ended(r)
  BY <1>5 DEF StartPlaylist
<1>6. ASSUME NEW n \in Names, DeletePlaylist(n)
      PROVE  \E r \in delete_playlist(img, n) : lib = "open" /\ Ended(r)
  BY <1>6 DEF DeletePlaylist
<1>7. ASSUME NEW n \in Names, NEW p \in Paths, AddPath(n, p)
      PROVE  \E r \in add_path(img, n, p) : lib = "open" /\ Ended(r)
  BY <1>7 DEF AddPath
<1> QED
  BY <1>1, <1>2, <1>3, <1>4, <1>5, <1>6, <1>7 DEF Next

-----------------------------------------------------------------------------

SortInv == Inv /\ Ordered(img)

LEMMA NextOrdered == SortInv /\ [Next]_vars => SortInv'
<1> SUFFICES ASSUME SortInv, [Next]_vars PROVE SortInv'
  OBVIOUS
<1>0. Inv /\ Inv' /\ ImageInv(img) /\ Ordered(img)
  BY NextInv DEF SortInv, Inv
<1> SUFFICES Ordered(img')
  BY <1>0 DEF SortInv, Ordered, Sorted, BucketSound, Words, EndOf, Strings, Slots, bucket_indexes,
              bucket_nr_indexes, bucket_string, bucket_string_at, bucket_index
<1>1. CASE img'.hdr = img.hdr /\ img'.str = img.str /\ img'.idx = img.idx
  BY <1>0, <1>1, KeptSelf, FromOrdered
<1>2. CASE \E r \in start_playlist(BlankLibrary, Global) : img' = r.img
  BY <1>2, BlankSafe, BlankOrdered, StartPlaylistOrdered, NamesAssumption
<1>3. ASSUME NEW n \in Names, NEW r \in start_playlist(img, n), img' = r.img PROVE Ordered(img')
  BY <1>0, <1>3, StartPlaylistOrdered
<1>4. ASSUME NEW n \in Names, NEW r \in delete_playlist(img, n), img' = r.img PROVE Ordered(img')
  BY <1>0, <1>4, DeletePlaylistOrdered
<1>5. ASSUME NEW n \in Names, NEW p \in Paths, NEW r \in add_path(img, n, p), img' = r.img
      PROVE  Ordered(img')
  <2>1. PICK K : ImageInv(K) /\ OneAdd(img, K, Global, p) /\ OneAdd(K, r.img, n, p)
    BY <1>0, <1>5, AddPathSteps
  <2> QED
    BY <1>0, <1>5, <2>1, OneAddOrdered
<1> QED
  BY <1>0, <1>1, <1>2, <1>3, <1>4, <1>5, ImageStep DEF Ended

(* A bucket is strictly sorted for ever, so bsearch is right and no        *)
(* playlist holds a path twice, for every set of paths and lengths and     *)
(* every sequence of commands, whatever is refused half way and wherever   *)
(* the mapping goes.                                                       *)
THEOREM SortedForever == Spec => []SortedOnce
<1>1. Init => SortInv
  BY InitInv, BlankOrdered DEF Init, SortInv
<1>2. SortInv => SortedOnce
  BY DEF SortInv, Ordered, Sorted, SortedOnce
<1> QED
  BY <1>1, <1>2, NextOrdered, PTL DEF Spec

-----------------------------------------------------------------------------
(* Names, counts and the walk. *)

NamesInv == Inv /\ NamesApart(img)

LEMMA NextApart ==
  ASSUME LongNames = {}, "ftruncate" \notin Faults, NamesInv, [Next]_vars
  PROVE  NamesInv'
<1>0. Inv /\ Inv' /\ ImageInv(img) /\ ImageInv(img') /\ NamesApart(img)
  BY NextInv, ImageStep DEF NamesInv
<1> SUFFICES NamesApart(img')
  BY <1>0 DEF NamesInv, NamesApart, Visited, first_playlist, next_playlist, AtPlaylist
<1>1. CASE img'.len = img.len /\ img'.hdr = img.hdr
  BY <1>0, <1>1, BeforeEnd, SameApart
<1>2. CASE \E r \in start_playlist(BlankLibrary, Global) : img' = r.img
  BY <1>2, BlankSafe, BlankApart, StartPlaylistApart, NamesAssumption
<1>3. ASSUME NEW n \in Names, NEW r \in start_playlist(img, n), img' = r.img
      PROVE  NamesApart(img')
  BY <1>0, <1>3, StartPlaylistApart
<1>4. ASSUME NEW n \in Names, NEW r \in delete_playlist(img, n), img' = r.img
      PROVE  NamesApart(img')
  BY <1>0, <1>4, DeletePlaylistApart
<1>5. ASSUME NEW n \in Names, NEW p \in Paths, NEW r \in add_path(img, n, p), img' = r.img
      PROVE  NamesApart(img')
  <2>1. PICK K : ImageInv(K) /\ OneAdd(img, K, Global, p) /\ OneAdd(K, r.img, n, p)
    BY <1>0, <1>5, AddPathSteps
  <2> QED
    BY <1>0, <1>5, <2>1, OneAddApart
<1> QED
  BY <1>0, <1>1, <1>2, <1>3, <1>4, <1>5, ImageStep DEF Ended

(* No two playlists that the walk comes to have one name, however far the  *)
(* library grows and wherever its mapping goes, also after a command wrote *)
(* through a stale pointer: as long as every name is stored whole (fewer   *)
(* than 116 characters) and ftruncate() leaves no copies behind.           *)
THEOREM NamesUniqueAlways ==
  ASSUME LongNames = {}, "ftruncate" \notin Faults
  PROVE  Spec => []NamesUnique
<1>1. Init => NamesInv
  BY InitInv, BlankApart DEF Init, NamesInv
<1>2. NamesInv => NamesUnique
  BY DEF NamesInv, NamesApart, NamesUnique
<1>3. NamesInv /\ [Next]_vars => NamesInv'
  BY NextApart
<1> QED
  BY <1>1, <1>2, <1>3, PTL DEF Spec

-----------------------------------------------------------------------------

LEMMA SteadyStep ==
  ASSUME SortInv, [Next]_vars, Steady(img, img')
  PROVE  /\ ImageInv(img) /\ ImageInv(img') /\ Ordered(img)
         /\ \/ Alike(img, img')
            \/ Made(BlankLibrary, img', Global) \/ Alike(BlankLibrary, img')
            \/ \E n \in Names : Made(img, img', n)
            \/ \E n \in Names : \E h \in find_playlist(img, n) : Removed(img, img', h)
            \/ \E n \in Names, p \in Paths : \E K :
                 ImageInv(K) /\ Widened(img, K, Global, p) /\ Widened(K, img', n, p)
<1>1. Inv /\ ImageInv(img) /\ ImageInv(img') /\ Ordered(img)
  BY ImageStep DEF SortInv
<1>2. ASSUME NEW n \in Names, NEW r \in start_playlist(img, n), img' = r.img
      PROVE  Alike(img, img') \/ Made(img, img', n)
  <2>1. CASE r = Result("fail", img)
    BY <1>2, <2>1 DEF Result, Alike
  <2> QED
    BY <1>1, <1>2, <2>1, StartPlaylistEnds
<1>3. ASSUME NEW n \in Names, NEW r \in delete_playlist(img, n), img' = r.img
      PROVE  Alike(img, img') \/ \E h \in find_playlist(img, n) : Removed(img, img', h)
  BY <1>1, <1>3, DeletePlaylistRemoved DEF Alike
<1>4. ASSUME NEW n \in Names, NEW p \in Paths, NEW r \in add_path(img, n, p), img' = r.img
      PROVE  \E K : ImageInv(K) /\ Widened(img, K, Global, p) /\ Widened(K, img', n, p)
  BY <1>1, <1>4, AddPathWidened
<1>5. ASSUME NEW r \in start_playlist(BlankLibrary, Global), img' = r.img
      PROVE  Made(BlankLibrary, img', Global) \/ Alike(BlankLibrary, img')
  BY <1>5, FirstPlaylist
<1>6. img'.len = img.len /\ img'.hdr = img.hdr /\ img'.str = img.str /\ img'.idx = img.idx
        => Alike(img, img')
  BY DEF Alike
<1> DEFINE Goal == \/ Alike(img, img')
                   \/ Made(BlankLibrary, img', Global) \/ Alike(BlankLibrary, img')
                   \/ \E n \in Names : Made(img, img', n)
                   \/ \E n \in Names : \E h \in find_playlist(img, n) : Removed(img, img', h)
                   \/ \E n \in Names, p \in Paths : \E K :
                        ImageInv(K) /\ Widened(img, K, Global, p) /\ Widened(K, img', n, p)
<1>7. ASSUME NEW n \in Names, NEW r \in start_playlist(img, n), img' = r.img PROVE Goal
  BY <1>2, <1>7
<1>8. ASSUME NEW n \in Names, NEW r \in delete_playlist(img, n), img' = r.img PROVE Goal
  BY <1>3, <1>8
<1>9. ASSUME NEW n \in Names, NEW p \in Paths, NEW r \in add_path(img, n, p), img' = r.img
      PROVE  Goal
  BY <1>4, <1>9
<1>10. ASSUME NEW r \in start_playlist(BlankLibrary, Global), img' = r.img PROVE Goal
  BY <1>5, <1>10
<1>11. Alike(img, img') => Goal
  OBVIOUS
<1> HIDE DEF Goal
<1>12. Goal
  BY <1>1, <1>6, <1>7, <1>8, <1>9, <1>10, <1>11, ImageStep DEF Ended
<1> QED
  BY <1>1, <1>12 DEF Goal

-----------------------------------------------------------------------------

CountInv == SortInv /\ Counts(img)

LEMMA NextCounts ==
  CountInv /\ [Next]_vars /\ [Steady(img, img')]_vars => CountInv'
<1> SUFFICES ASSUME CountInv, [Next]_vars, [Steady(img, img')]_vars PROVE CountInv'
  OBVIOUS
<1>1. SortInv /\ SortInv' /\ Counts(img)
  BY NextOrdered DEF CountInv
<1> SUFFICES Counts(img')
  BY <1>1 DEF CountInv, Counts, bucket_nr_indexes
<1>2. CASE UNCHANGED vars
  BY <1>1, <1>2 DEF vars
<1>3. CASE Steady(img, img')
  <2>1. ImageInv(img)
    BY <1>1, <1>3, SteadyStep
  <2>2. CASE Alike(img, img')
    BY <1>1, <2>2 DEF Alike, Counts, bucket_nr_indexes
  <2>3. CASE Made(BlankLibrary, img', Global) \/ Alike(BlankLibrary, img')
    BY <2>3, BlankSafe, BlankCounts, MadeCounts DEF Alike, Counts, bucket_nr_indexes
  <2>4. ASSUME NEW n \in Names, Made(img, img', n) PROVE Counts(img')
    BY <1>1, <2>1, <2>4, MadeCounts
  <2>5. ASSUME NEW n \in Names, NEW h \in find_playlist(img, n), Removed(img, img', h)
        PROVE  Counts(img')
    BY <1>1, <2>1, <2>5, FindPlaylistFacts, RemovedCounts
  <2>6. ASSUME NEW n \in Names, NEW p \in Paths, NEW K, ImageInv(K),
               Widened(img, K, Global, p), Widened(K, img', n, p)
        PROVE  Counts(img')
    BY <1>1, <2>1, <2>6, WidenedCounts
  <2> QED
    BY <1>1, <1>3, <2>2, <2>3, <2>4, <2>5, <2>6, SteadyStep
<1> QED
  BY <1>2, <1>3

(* No step of the process moves the mapping. *)
StaysInPlace == [][Steady(img, img')]_vars

(* The number that lspls prints of a playlist is the number of paths in    *)
(* it, whatever fails and however the file grows, for as long as no step   *)
(* moves the mapping: mlib_add_path_to_plist() counts through a pointer    *)
(* that such a move leaves stale.                                          *)
THEOREM CountsAlways == Spec /\ StaysInPlace => []CountsMatch
<1>1. Init => CountInv
  BY InitInv, BlankOrdered, BlankCounts DEF Init, CountInv, SortInv
<1>2. CountInv => CountsMatch
  BY DEF CountInv, Counts, CountsMatch
<1>3. CountInv /\ [Next]_vars /\ [Steady(img, img')]_vars => CountInv'
  BY NextCounts
<1> QED
  BY <1>1, <1>2, <1>3, PTL DEF Spec, StaysInPlace

-----------------------------------------------------------------------------

ChainInv == SortInv /\ Chained(img)

LEMMA NextChain ==
  ASSUME "ftruncate" \notin Faults
  PROVE  ChainInv /\ [Next]_vars /\ [Steady(img, img')]_vars => ChainInv'
<1> SUFFICES ASSUME ChainInv, [Next]_vars, [Steady(img, img')]_vars PROVE ChainInv'
  OBVIOUS
<1>1. SortInv /\ SortInv' /\ Chained(img)
  BY NextOrdered DEF ChainInv
<1> SUFFICES Chained(img')
  BY <1>1 DEF ChainInv, Chained
<1>2. CASE UNCHANGED vars
  BY <1>1, <1>2 DEF vars
<1>3. CASE Steady(img, img')
  <2>1. ImageInv(img)
    BY <1>1, <1>3, SteadyStep
  <2>2. CASE Alike(img, img')
    BY <1>1, <2>2 DEF Alike, Chained
  <2>3. CASE Made(BlankLibrary, img', Global) \/ Alike(BlankLibrary, img')
    BY <2>3, BlankSafe, BlankChain, MadeChain DEF Alike, Chained
  <2>4. ASSUME NEW n \in Names, Made(img, img', n) PROVE Chained(img')
    BY <1>1, <2>1, <2>4, MadeChain
  <2>5. ASSUME NEW n \in Names, NEW h \in find_playlist(img, n), Removed(img, img', h)
        PROVE  Chained(img')
    BY <1>1, <2>1, <2>5, FindPlaylistFacts, ExcisedChain DEF Removed
  <2>6. ASSUME NEW n \in Names, NEW p \in Paths, NEW K, ImageInv(K),
               Widened(img, K, Global, p), Widened(K, img', n, p)
        PROVE  Chained(img')
    BY <1>1, <2>1, <2>6, WidenedChain
  <2> QED
    BY <1>1, <1>3, <2>2, <2>3, <2>4, <2>5, <2>6, SteadyStep
<1> QED
  BY <1>2, <1>3

(* Every playlist that was made and not deleted is on the walk, however    *)
(* many others grow or go: as long as no step moves the mapping, or the    *)
(* record of a new playlist is written elsewhere, and ftruncate() leaves   *)
(* no copies behind the last playlist.                                     *)
THEOREM WalkAlways ==
  ASSUME "ftruncate" \notin Faults
  PROVE  Spec /\ StaysInPlace => []WalkComplete
<1>1. Init => ChainInv
  BY InitInv, BlankOrdered, BlankChain DEF Init, ChainInv, SortInv
<1>2. ChainInv => WalkComplete
  BY ChainWalked DEF ChainInv, SortInv, Inv, WalkComplete
<1>3. ChainInv /\ [Next]_vars /\ [Steady(img, img')]_vars => ChainInv'
  BY NextChain
<1> QED
  BY <1>1, <1>2, <1>3, PTL DEF Spec, StaysInPlace
=============================================================================

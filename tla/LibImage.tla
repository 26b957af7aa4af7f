------------------------------ MODULE LibImage ------------------------------
(***************************************************************************)
(* The library file and the functions that rearrange it: the raw layer of  *)
(* library.c, the bucket of bucket.c and the playlist operations of        *)
(* playlist.c, as operators from an image to the set of its outcomes.      *)
(*                                                                         *)
(* A library is one flat file that is mmap()ed: a 1024-byte header, then   *)
(* playlists back to back.  A playlist is 128 bytes of its own followed by *)
(* a bucket: a 16-byte header, strings growing upwards, free room, and an  *)
(* array of 4-byte indexes growing downwards from the end, sorted by the   *)
(* strings they point to.  The image keeps one cell per thing stored, at   *)
(* its offset in the file, so every memmove really moves cells:            *)
(*   hdr  offset of a playlist -> its fields and those of its bucket       *)
(*   str  offset of a string   -> the path stored there                    *)
(*   idx  offset of an index   -> the word stored there                    *)
(* together with len (lib_len of the header), size (the file's, which the  *)
(* kernel knows) and vm (how many pages stay mapped from lib->header on).  *)
(***************************************************************************)
EXTENDS Integers, FiniteSets

CONSTANTS
  Names,      \* playlist names a user may give
  LongNames,  \* those of 116 characters or more
  Truncated,  \* the 115 characters that are stored of a long name
  Global,     \* ".global"
  Paths,      \* media paths: integers, whose order stands for strcmp's
  PathLen,    \* strlen() + 1 of each path
  U32,        \* 2^32, or a smaller modulus to reach the limit in a small file
  PageSize,   \* of the machine
  Faults      \* what the system may refuse: see FaultKinds

FaultKinds == {"write", "mmap", "msync", "ftruncate", "move"}

ASSUME NamesAssumption ==
  /\ LongNames \subseteq Names
  /\ Global \in Names \ LongNames
  /\ Truncated \in [LongNames -> Names \ LongNames]
ASSUME PathsAssumption ==
  /\ Paths \subseteq Nat
  /\ PathLen \in [Paths -> Nat \ {0}]
ASSUME SizesAssumption ==
  /\ U32 \in Nat /\ U32 > 1296
  /\ \A p \in Paths : PathLen[p] + 1024 < U32
  /\ PageSize \in Nat /\ PageSize >= 4096
ASSUME FaultsAssumption == Faults \subseteq FaultKinds

-----------------------------------------------------------------------------
(* Layout constants, in bytes. *)
HeaderSize == 1024  \* MLIB_HEADER_SIZE
PlistSize  == 144   \* sizeof(struct mlib_playlist), the bucket's header in it
PlistData  == 128   \* offset of the bucket in struct mlib_playlist
BucketHdr  == 16    \* sizeof(struct mlib_bucket)
Growth     == 128   \* MLIB_BUCKET_GROWTH_RATE
IndexSize  == 4     \* sizeof(uint32_t)

Max2(a, b) == IF a >= b THEN a ELSE b
Pages(n) == (n + PageSize - 1) \div PageSize
Add32(a, b) == IF a + b < U32 THEN a + b ELSE a + b - U32

(* What an operation leaves: how it ended and the image it ended with.     *)
(*   ok, fail   it returned zero, or an error, with the mapping intact     *)
(*   moved      (inner steps) done, and the mapping is at another address  *)
(*   refused    (inner steps) nothing done                                 *)
(*   unmapped   it returned an error and lib->header is unmapped           *)
(*   killed     it touched an unmapped address: SIGSEGV                    *)
(*   wild       it wrote through a stale pointer into something else       *)
Result(st, I) == [st |-> st, img |-> I]
Fault(kind, r) == IF kind \in Faults THEN {r} ELSE {}

Cell == [name : Names, length : Nat, mcount : Nat,
         blen : Nat, ioff : Nat, sbytes : Nat]
NoCells == [o \in {} |-> o]

(* The header alone, as mlib_create_library() first writes it. *)
BlankLibrary ==
  [len |-> HeaderSize, size |-> HeaderSize, vm |-> Pages(HeaderSize),
   hdr |-> NoCells, str |-> NoCells, idx |-> NoCells]

Stored(n) == IF n \in LongNames THEN Truncated[n] ELSE n

-----------------------------------------------------------------------------
(* memmove() over cells. *)

(* Everything from offset at on moves up by n bytes; the gap is zeroed. *)
MovedUp(f, at, n) ==
  [o \in {x \in DOMAIN f : x < at} \cup {x + n : x \in {y \in DOMAIN f : y >= at}}
     |-> IF o < at THEN f[o] ELSE f[o - n]]

(* Bytes [end, len) move down to start; what was in the last end - start   *)
(* bytes of the library is still there.                                    *)
MovedDown(f, start, end, len) ==
  LET n == end - start IN
  [o \in {x \in DOMAIN f : x < start \/ x >= len - n}
           \cup {x - n : x \in {y \in DOMAIN f : end <= y /\ y < len}}
     |-> IF o < start \/ o >= len - n THEN f[o] ELSE f[o + n]]

(* A store of one cell. *)
Put(f, at, v) == [o \in DOMAIN f \cup {at} |-> IF o = at THEN v ELSE f[o]]

CutAt(f, len) == [o \in {x \in DOMAIN f : x < len} |-> f[o]]

-----------------------------------------------------------------------------
(* library.c *)

(* munmap() frees the pages that lib_len needs and no others: after the    *)
(* file was truncated, pages of the longer mapping may be left right after *)
(* them.  mmap() honours the old address as a hint only if the range is    *)
(* free: it cannot when such pages are in the way, and need not ("move")   *)
(* when the mapping needs more pages than were freed.                      *)
Leftover(I) == I.vm > Pages(I.len)
expand_fd(I, newlen) == [I EXCEPT !.size = Max2(@, newlen)]
library_expand(I, newlen) ==
  LET grown(vm) == [expand_fd(I, newlen) EXCEPT !.len = newlen, !.vm = vm]
      more == Pages(newlen) > Pages(I.len)
  IN IF newlen <= I.len THEN {Result("refused", I)}
     ELSE Fault("write", Result("unmapped", I))
            \cup Fault("mmap", Result("unmapped", expand_fd(I, newlen)))
            \cup (IF more /\ (Leftover(I) \/ "move" \in Faults)
                  THEN {Result("moved", grown(Pages(newlen)))} ELSE {})
            \cup (IF more /\ Leftover(I)
                  THEN {} ELSE {Result("ok", grown(Max2(I.vm, Pages(newlen))))})

Opened(I, at, n) == [I EXCEPT !.hdr = MovedUp(I.hdr, at, n),
                              !.str = MovedUp(I.str, at, n),
                              !.idx = MovedUp(I.idx, at, n)]
library_insert_space(I, at, n) ==
  {IF r.st \in {"ok", "moved"} THEN Result(r.st, Opened(r.img, at, n)) ELSE r :
     r \in library_expand(I, Add32(I.len, n))}

(* Mutant: ftruncate() without setting lib_len. *)
CutMutant(I, len) ==
  [I EXCEPT !.size = len, !.hdr = CutAt(I.hdr, len),
            !.str = CutAt(I.str, len), !.idx = CutAt(I.idx, len)]
Cut(I, len) ==
  [I EXCEPT !.len = len, !.size = len, !.hdr = CutAt(I.hdr, len),
            !.str = CutAt(I.str, len), !.idx = CutAt(I.idx, len)]
library_trunc(I, len) ==
  IF len < HeaderSize \/ len > I.len THEN {Result("fail", I)}
  ELSE Fault("ftruncate", Result("fail", I)) \cup {Result("ok", Cut(I, len))}

Closed(I, start, end) ==
  [I EXCEPT !.hdr = MovedDown(I.hdr, start, end, I.len),
            !.str = MovedDown(I.str, start, end, I.len),
            !.idx = MovedDown(I.idx, start, end, I.len)]
(* Mutant: what is behind the region goes with it. *)
library_exciseMutant(I, start, end) == library_trunc(I, start)
library_excise(I, start, end) ==
  library_trunc(Closed(I, start, end), I.len - (end - start))

sync_library(I) == {Result("ok", I)} \cup Fault("msync", Result("fail", I))

-----------------------------------------------------------------------------
(* bucket.c.  A bucket is named by the offset h of its playlist. *)

Strings(h) == h + PlistSize
bucket_indexes(I, h) == h + PlistData + I.hdr[h].ioff
bucket_nr_indexes(I, h) == (I.hdr[h].blen - I.hdr[h].ioff) \div IndexSize
bucket_index(I, h, i) == I.idx[bucket_indexes(I, h) + IndexSize * i]
bucket_string_at(I, h, off) == I.str[Strings(h) + off]
bucket_string(I, h, i) == bucket_string_at(I, h, bucket_index(I, h, i))
Slots(I, h) ==
  {bucket_indexes(I, h) + IndexSize * i : i \in 0 .. bucket_nr_indexes(I, h) - 1}
Contents(I, h) ==
  {bucket_string(I, h, i) : i \in 0 .. bucket_nr_indexes(I, h) - 1}

(* bsearch() over the indexes, present or not: <<l, u>> are the places     *)
(* from l up to but not including u.                                       *)
bucket_contains(I, h, p) ==
  LET n == bucket_nr_indexes(I, h)
      found[w \in (0 .. n) \X (0 .. n)] ==
        LET mid == (w[1] + w[2]) \div 2
            q == bucket_string(I, h, mid)
        IN /\ w[1] < w[2]
           /\ \/ p = q
              \/ p < q /\ found[<<w[1], mid>>]
              \/ p > q /\ found[<<mid + 1, w[2]>>]
  IN found[<<0, n>>]

(* Mutant: the indexes stay in the order of insertion. *)
bucket_sortMutant(I, h) == {I}

(* qsort() of the indexes by the strings they point to: any arrangement of *)
(* the words in which the strings ascend.                                  *)
bucket_sort(I, h) ==
  LET slots == Slots(I, h)
      words == {I.idx[o] : o \in slots}
      ascending(f) == /\ {f[o] : o \in slots} = words
                      /\ \A o, q \in slots : o < q =>
                           bucket_string_at(I, h, f[o]) <= bucket_string_at(I, h, f[q])
  IN {[I EXCEPT !.idx = [o \in DOMAIN @ |-> IF o \in slots THEN f[o] ELSE @[o]]] :
        f \in {f \in [slots -> words] : ascending(f)}}

(* Mutant: the playlist's own length is forgotten. *)
WiderMutant(c, n) == [c EXCEPT !.blen = @ + n, !.ioff = @ + n]

(* The gap opens at the index array, so the strings stay and the indexes   *)
(* move with everything behind them.                                       *)
Wider(c, n) == [c EXCEPT !.blen = @ + n, !.ioff = @ + n, !.length = @ + n]
SetCell(I, h, c) == [I EXCEPT !.hdr = [I.hdr EXCEPT ![h] = c]]
bucket_expand(I, h, n) ==
  {IF r.st \in {"ok", "moved"}
   THEN Result(r.st, SetCell(r.img, h, Wider(r.img.hdr[h], n))) ELSE r :
     r \in library_insert_space(I, bucket_indexes(I, h), n)}

(* Mutant: one turn too few. *)
TurnsMutant(c, bytes) ==
  LET lack == BucketHdr + c.sbytes + bytes - (c.ioff - IndexSize)
  IN IF lack < 0 THEN 0 ELSE lack \div Growth

(* The restart loop of mlib_bucket_add().  It expands as often as it takes *)
(* until the string and one more index fit with a byte to spare; since the *)
(* gaps of successive turns are adjacent, j turns that succeed are one     *)
(* expansion by j times the growth rate.  A later turn may fail.           *)
Turns(c, bytes) ==
  LET lack == BucketHdr + c.sbytes + bytes - (c.ioff - IndexSize)
  IN IF lack < 0 THEN 0 ELSE lack \div Growth + 1
AfterTurns(I, h, j) ==
  IF j = 0 THEN {Result("ok", I)}
  ELSE {r \in bucket_expand(I, h, Growth * j) : r.st \in {"ok", "moved"}}
FailedTurn(I, h, j) ==
  UNION {{s \in bucket_expand(r.img, h, Growth) : s.st \in {"refused", "unmapped"}} :
           r \in AfterTurns(I, h, j)}

(* Mutant: strlen() for strlen() + 1. *)
PlacedMutant(I, h, p) ==
  LET c == I.hdr[h]
      at == Strings(h) + c.sbytes
      slot == bucket_indexes(I, h) - IndexSize
  IN bucket_sort(
       SetCell([I EXCEPT !.str = Put(I.str, at, p), !.idx = Put(I.idx, slot, c.sbytes)], h,
               [c EXCEPT !.ioff = @ - IndexSize, !.sbytes = @ + PathLen[p] - 1]), h)

(* strcpy() behind the last string, its index before the first, and sort. *)
Placed(I, h, p) ==
  LET c == I.hdr[h]
      at == Strings(h) + c.sbytes
      slot == bucket_indexes(I, h) - IndexSize
  IN bucket_sort(
       SetCell([I EXCEPT !.str = Put(I.str, at, p), !.idx = Put(I.idx, slot, c.sbytes)], h,
               [c EXCEPT !.ioff = @ - IndexSize, !.sbytes = @ + PathLen[p]]), h)

AddedAfter(I, h, p, k) ==
  UNION {{Result(r.st, J) : J \in Placed(r.img, h, p)} : r \in AfterTurns(I, h, k)}
StuckBefore(I, h, k) == UNION {FailedTurn(I, h, j) : j \in 0 .. k - 1}
bucket_add(I, h, p) ==
  LET k == Turns(I.hdr[h], PathLen[p]) IN
  IF bucket_contains(I, h, p) THEN {Result("refused", I)}
  ELSE AddedAfter(I, h, p, k) \cup StuckBefore(I, h, k)

-----------------------------------------------------------------------------
(* playlist.c *)

(* The walk of mlib_next_playlist(): from the end of a playlist, unless    *)
(* that is the end of the library or no playlist is there ("corruption").  *)
AtPlaylist(I, o) == o < I.len /\ o \in DOMAIN I.hdr
next_playlist(I, h) ==
  {t \in {h + I.hdr[h].length} : AtPlaylist(I, t)}
first_playlist(I) == {t \in {HeaderSize} : AtPlaylist(I, t)}

(* The playlists that the walk from the first one comes to. *)
Visited(I) ==
  LET closed == {S \in SUBSET DOMAIN I.hdr :
                   /\ first_playlist(I) \subseteq S
                   /\ \A g \in S : next_playlist(I, g) \subseteq S}
  IN {h \in DOMAIN I.hdr : \A S \in closed : h \in S}

(* Mutant: the last playlist is not looked at. *)
find_playlistMutant(I, n) ==
  LET named == {h \in Visited(I) : I.hdr[h].name = n /\ next_playlist(I, h) # {}}
  IN {h \in named : \A g \in named : h <= g}

(* At most one offset: the first playlist on the walk with that name. *)
find_playlist(I, n) ==
  LET named == {h \in Visited(I) : I.hdr[h].name = n}
  IN {h \in named : \A g \in named : h <= g}

NewPlaylist(n) ==
  [name |-> Stored(n), length |-> PlistSize + Growth, mcount |-> 0,
   blen |-> Growth, ioff |-> Growth, sbytes |-> 0]
WithPlaylist(I, at, n) == [I EXCEPT !.hdr = Put(I.hdr, at, NewPlaylist(n))]

(* The new playlist is written through a pointer computed before the       *)
(* mapping grew.  When it moved, that address is unmapped, or is the right *)
(* page of the file in a leftover page, or is past the end of the file in  *)
(* the new mapping, or belongs to somebody else.                           *)
start_playlist(I, n) ==
  LET landed(J) == sync_library(WithPlaylist(J, I.len, n))
      stray(J) == {Result("killed", J), Result("wild", J)} \cup sync_library(J)
      after(r) == CASE r.st = "ok" -> landed(r.img)
                    [] r.st = "moved" -> IF Leftover(I) /\ I.len % PageSize = 0
                                         THEN landed(r.img) ELSE stray(r.img)
                    [] r.st = "refused" -> {Result("fail", r.img)}
                    [] OTHER -> {r}
  IN IF find_playlist(I, n) # {} THEN {Result("fail", I)}
     ELSE UNION {after(r) : r \in library_expand(I, Add32(I.len, PlistSize + Growth))}

delete_playlist(I, n) ==
  IF find_playlist(I, n) = {} THEN {Result("fail", I)}
  ELSE UNION {library_excise(I, h, h + I.hdr[h].length) : h \in find_playlist(I, n)}

(* Mutants: the path is not counted; it is counted down. *)
CountedMutant(I, h) == I
CountedDownMutant(I, h) == SetCell(I, h, [I.hdr[h] EXCEPT !.mcount = @ - 1])

Counted(I, h) == SetCell(I, h, [I.hdr[h] EXCEPT !.mcount = @ + 1])

(* mcount is incremented through the caller's pointer, which is stale when *)
(* mlib_bucket_add() moved the mapping.                                    *)
add_path_to_plist(I, h, p) ==
  LET stray(J) == {Result("killed", J), Result("wild", J), Result("ok", J)}
      after(r) == CASE r.st = "ok" -> {Result("ok", Counted(r.img, h))}
                    [] r.st = "moved" -> stray(r.img)
                    [] r.st = "refused" -> {Result("fail", r.img)}
                    [] OTHER -> {r}
  IN UNION {after(r) : r \in bucket_add(I, h, p)}

(* The result of adding to .global is not looked at; the next thing done   *)
(* is to walk the library again, which an unmapped library does not        *)
(* survive.                                                                *)
AddToNamed(I, n, p) ==
  IF find_playlist(I, n) = {} THEN {Result("fail", I)}
  ELSE UNION {add_path_to_plist(I, h, p) : h \in find_playlist(I, n)}
(* Mutant: the playlist first and .global behind it. *)
add_pathMutant(I, n, p) ==
  LET after(r) == CASE r.st \in {"ok", "fail"} -> AddToNamed(r.img, Global, p)
                    [] r.st = "unmapped" -> {Result("killed", r.img)}
                    [] OTHER -> {r}
  IN IF n = Global THEN AddToNamed(I, n, p)
     ELSE IF find_playlist(I, Global) = {} THEN {Result("fail", I)}
     ELSE UNION {after(r) : r \in AddToNamed(I, n, p)}
add_path(I, n, p) ==
  LET after(r) == CASE r.st \in {"ok", "fail"} -> AddToNamed(r.img, n, p)
                    [] r.st = "unmapped" -> {Result("killed", r.img)}
                    [] OTHER -> {r}
  IN IF n = Global THEN AddToNamed(I, n, p)
     ELSE IF find_playlist(I, Global) = {} THEN {Result("fail", I)}
     ELSE UNION {after(r) : r \in AddToNamed(I, Global, p)}

-----------------------------------------------------------------------------
(* What an image keeps to, for the modules that check it. *)

(* Its cells are playlists, paths and index words at natural offsets. *)
ImageTyped(I) ==
  /\ I \in [len : Nat, size : Nat, vm : Int, hdr : [DOMAIN I.hdr -> Cell],
            str : [DOMAIN I.str -> Paths], idx : [DOMAIN I.idx -> Nat]]
  /\ DOMAIN I.hdr \cup DOMAIN I.str \cup DOMAIN I.idx \subseteq Nat

(* A playlist and its bucket keep to their arithmetic: the bucket fills    *)
(* the playlist, strings end before the index array begins, and all of it  *)
(* lies inside the library.                                                *)
CellFits(I, h) ==
  LET c == I.hdr[h] IN
  /\ HeaderSize <= h /\ h + c.length <= I.len
  /\ c.length = c.blen + PlistSize
  /\ BucketHdr + c.sbytes < c.ioff
  /\ c.ioff <= c.blen

(* No two playlists overlap. *)
Disjoint(I) ==
  \A g, h \in DOMAIN I.hdr : g < h => g + I.hdr[g].length <= h
=============================================================================

---------------------------- MODULE LibraryCrash ----------------------------
(***************************************************************************)
(* The stores that one command makes to the library file, in the order of  *)
(* the code, and the process ending between any two of them.  Nothing in   *)
(* the code undoes or completes a command that was cut short, and since    *)
(* the mapping is shared the file is then whatever was stored so far: the  *)
(* next process reads img as it stands.                                    *)
(*                                                                         *)
(* LibImage says what a whole call leaves; here the same call is a list of *)
(* stores (todo), and EndAgrees says that they come to the same.  A        *)
(* memmove is not one store: from its first byte to its last, what is      *)
(* behind its start (torn) can be anything.                                *)
(***************************************************************************)
EXTENDS LibImage, Sequences

CONSTANTS
  NoName, \* no playlist is to be added to next
  Empty,  \* the path that zeroed bytes spell
  Stray,  \* what bytes that are not the playlist's spell, if they can be read
  MaxLen  \* bound: only libraries of at most this length are grown

ASSUME CrashAssumption ==
  /\ NoName \notin Names /\ Empty \notin Paths /\ Stray \notin Paths
  /\ Faults = {} /\ MaxLen \in Nat
  /\ MaxLen + PlistSize + Growth < U32
  /\ \A p \in Paths : MaxLen + 2 * (PathLen[p] + Growth + IndexSize) < U32

VARIABLES
  img,   \* the file
  torn,  \* where a memmove that is under way began, or zero
  todo,  \* the stores to come
  then,  \* the playlist that the path is added to after .global
  cmd,   \* the call that is being made, or was made last
  base,  \* the file when it began
  edge,  \* the offset of the playlist it changes
  up     \* the process lives

vars == <<img, torn, todo, then, cmd, base, edge, up>>

Call(op, n, p) == [op |-> op, name |-> n, path |-> p]
Init ==
  /\ \E r \in start_playlist(BlankLibrary, Global) : r.st = "ok" /\ img = r.img
  /\ torn = 0 /\ todo = <<>> /\ then = NoName
  /\ cmd = Call("none", Global, Empty)
  /\ base = img /\ edge = img.len
  /\ up = TRUE

-----------------------------------------------------------------------------
(* The stores of each call.  Those to one playlist's fields carry what     *)
(* they store. *)
ToFile(store, to) == [store |-> store, to |-> to]
ToPlaylist(field, h, v) == [store |-> field, at |-> h, v |-> v]
BucketMagic == 305414945  \* MLIB_BUCKET_MAGIC_VAL, 0x12344321

(* mlib_start_playlist(), mlib_init_bucket().  In __mlib_library_expand()   *)
(* the file grows before lib_len does.                                     *)
(* Mutants: the bucket's index offset is not set; lib_len grows first.     *)
StartStoresMutant(I, n) ==
  LET at == I.len  room == PlistSize + Growth IN
  <<ToFile("size", at + room), ToFile("len", at + room),
    ToPlaylist("magic", at, Stored(n)), ToPlaylist("length", at, room),
    ToPlaylist("bmagic", at, BucketMagic), ToPlaylist("blen", at, Growth)>>
StartStoresEarlyMutant(I, n) ==
  LET at == I.len  room == PlistSize + Growth IN
  <<ToFile("len", at + room), ToFile("size", at + room),
    ToPlaylist("magic", at, Stored(n)), ToPlaylist("length", at, room),
    ToPlaylist("bmagic", at, BucketMagic), ToPlaylist("blen", at, Growth),
    ToPlaylist("ioff", at, Growth)>>
StartStores(I, n) ==
  LET at == I.len  room == PlistSize + Growth IN
  <<ToFile("size", at + room), ToFile("len", at + room),
    ToPlaylist("magic", at, Stored(n)), ToPlaylist("length", at, room),
    ToPlaylist("mcount", at, 0), ToPlaylist("bmagic", at, BucketMagic),
    ToPlaylist("blen", at, Growth), ToPlaylist("ioff", at, Growth), ToPlaylist("sbytes", at, 0)>>

(* __mlib_library_excise(), __mlib_library_trunc(): the file is cut before *)
(* lib_len is.                                                             *)
(* Mutant: lib_len first, and the cut counts from it.                      *)
DeleteStoresMutant(I, h) ==
  LET n == I.hdr[h].length IN
  <<ToFile("tear", h), ToFile("down", h + n),
    ToFile("len", I.len - n), ToFile("cut", I.len - n - n)>>
DeleteStores(I, h) ==
  LET n == I.hdr[h].length IN
  <<ToFile("tear", h), ToFile("down", h + n),
    ToFile("cut", I.len - n), ToFile("len", I.len - n)>>

(* mlib_bucket_expand(), and back to restart. *)
TurnStores(I, h) ==
  LET c == I.hdr[h] IN
  <<ToFile("size", I.len + Growth), ToFile("len", I.len + Growth),
    ToFile("tear", bucket_indexes(I, h)), ToFile("up", Growth),
    ToPlaylist("blen", h, c.blen + Growth), ToPlaylist("ioff", h, c.ioff + Growth),
    ToPlaylist("length", h, c.length + Growth), ToFile("again", h)>>

(* The end of mlib_bucket_add(), and mlib_add_path_to_plist(). *)
(* Mutant: the index word is made when the string was counted already.     *)
PlaceStoresMutant(I, h, p) ==
  LET c == I.hdr[h] IN
  <<ToPlaylist("string", Strings(h) + c.sbytes, p),
    ToPlaylist("ioff", h, c.ioff - IndexSize),
    ToPlaylist("sbytes", h, c.sbytes + PathLen[p]),
    ToPlaylist("word", bucket_indexes(I, h) - IndexSize, c.sbytes + PathLen[p]),
    ToPlaylist("sorting", h, p), ToPlaylist("mcount", h, c.mcount + 1)>>
PlaceStores(I, h, p) ==
  LET c == I.hdr[h] IN
  <<ToPlaylist("string", Strings(h) + c.sbytes, p),
    ToPlaylist("word", bucket_indexes(I, h) - IndexSize, c.sbytes),
    ToPlaylist("ioff", h, c.ioff - IndexSize),
    ToPlaylist("sbytes", h, c.sbytes + PathLen[p]),
    ToPlaylist("sorting", h, p), ToPlaylist("mcount", h, c.mcount + 1)>>

(* From restart on: another turn until there is room. *)
AddStores(I, h, p) ==
  LET c == I.hdr[h] IN
  IF BucketHdr + c.sbytes + PathLen[p] < c.ioff - IndexSize
  THEN PlaceStores(I, h, p) ELSE TurnStores(I, h)

-----------------------------------------------------------------------------
(* The calls. *)
Idle == up /\ todo = <<>> /\ then = NoName
Begins(call, at, stores) ==
  /\ cmd' = call /\ todo' = stores /\ base' = img /\ edge' = at
  /\ UNCHANGED <<img, torn, up>>

StartPlaylist(n) ==
  /\ Idle /\ img.len <= MaxLen /\ find_playlist(img, n) = {}
  /\ Begins(Call("start", n, Empty), img.len, StartStores(img, n))
  /\ UNCHANGED then
DeletePlaylist(n) ==
  /\ Idle
  /\ \E h \in find_playlist(img, n) :
       Begins(Call("delete", n, Empty), h, DeleteStores(img, h))
  /\ UNCHANGED then

(* A path that is there already is refused, and nothing is stored. *)
Adding(n, p) ==
  \E h \in find_playlist(img, n) :
    Begins(Call("add", n, p), h, IF bucket_contains(img, h, p) THEN <<>> ELSE AddStores(img, h, p))
AddPath(n, p) ==
  /\ Idle /\ img.len <= MaxLen
  /\ Adding(Global, p)
  /\ then' = IF n = Global THEN NoName ELSE n
AddToOther ==
  /\ up /\ todo = <<>> /\ then # NoName
  /\ \/ Adding(then, cmd.path)
     \/ find_playlist(img, then) = {} /\ UNCHANGED <<img, torn, todo, cmd, base, edge, up>>
  /\ then' = NoName

-----------------------------------------------------------------------------
(* The stores. *)
Doing(store) == up /\ todo # <<>> /\ Head(todo).store = store
NextStore == todo' = Tail(todo) /\ UNCHANGED <<then, cmd, base, edge, up>>
It == Head(todo)

GrowFile == Doing("size") /\ img' = expand_fd(img, It.to) /\ NextStore /\ UNCHANGED torn
SetLibLen == Doing("len") /\ img' = [img EXCEPT !.len = It.to] /\ NextStore /\ UNCHANGED torn
CutFile ==
  /\ Doing("cut") /\ img' = [Cut(img, It.to) EXCEPT !.len = img.len]
  /\ NextStore /\ UNCHANGED torn
BeginMove == Doing("tear") /\ torn' = It.to /\ NextStore /\ UNCHANGED img
EndMove ==
  /\ \/ Doing("up") /\ img' = Opened(img, torn, It.to)
     \/ Doing("down") /\ img' = Closed(img, torn, It.to)
  /\ torn' = 0
  /\ NextStore

(* The name is there before the magic that makes it one; all else is zero. *)
SetMagic ==
  /\ Doing("magic")
  /\ img' = [img EXCEPT !.hdr = Put(@, It.at,
       [name |-> It.v, length |-> 0, mcount |-> 0, blen |-> 0, ioff |-> 0, sbytes |-> 0])]
  /\ NextStore /\ UNCHANGED torn
SetField ==
  /\ \E f \in {"length", "mcount", "blen", "ioff", "sbytes"} :
       Doing(f) /\ img' = [img EXCEPT !.hdr[It.at][f] = It.v]
  /\ NextStore /\ UNCHANGED torn
(* The magic of the bucket has no field in the image: every bucket has it  *)
(* before it has a length, and see HeaderPaths.                            *)
SetBucketMagic == Doing("bmagic") /\ NextStore /\ UNCHANGED <<img, torn>>
StoreString == Doing("string") /\ img' = [img EXCEPT !.str = Put(@, It.at, It.v)] /\ NextStore /\ UNCHANGED torn
StoreWord == Doing("word") /\ img' = [img EXCEPT !.idx = Put(@, It.at, It.v)] /\ NextStore /\ UNCHANGED torn

(* qsort() may have any of the words in any slot until it is done. *)
Shuffled(I, h) ==
  LET slots == Slots(I, h)
      words == {I.idx[o] : o \in slots}
  IN {[I EXCEPT !.idx = [o \in DOMAIN @ |-> IF o \in slots THEN f[o] ELSE @[o]]] :
        f \in [slots -> words]}
BeginSort ==
  /\ Doing("sorting")
  /\ img' \in Shuffled(img, It.at)
  /\ todo' = [todo EXCEPT ![1] = ToPlaylist("sorted", It.at, img)]
  /\ UNCHANGED <<torn, then, cmd, base, edge, up>>
EndSort ==
  /\ Doing("sorted")
  /\ img' \in bucket_sort(It.v, It.at)
  /\ NextStore /\ UNCHANGED torn

(* Nothing is stored: what is to come depends on the room there is now. *)
Restart ==
  /\ Doing("again")
  /\ todo' = AddStores(img, It.to, cmd.path)
  /\ UNCHANGED <<img, torn, then, cmd, base, edge, up>>

Store == \/ GrowFile \/ SetLibLen \/ CutFile \/ BeginMove \/ EndMove \/ SetMagic
         \/ SetField \/ SetBucketMagic \/ StoreString \/ StoreWord \/ BeginSort \/ EndSort \/ Restart

(* The process ends between two stores. *)
Crash ==
  /\ up /\ todo # <<>>
  /\ up' = FALSE
  /\ UNCHANGED <<img, torn, todo, then, cmd, base, edge>>

Next == \/ \E n \in Names : StartPlaylist(n) \/ DeletePlaylist(n)
        \/ \E n \in Names, p \in Paths : AddPath(n, p)
        \/ AddToOther \/ Store \/ Crash
Spec == Init /\ [][Next]_vars

-----------------------------------------------------------------------------
(* What lspls of the next process shows of a playlist.  Zeroed bytes read  *)
(* as an index of zero or as an empty path.                                *)
At(cells, o, zero) == IF o \in DOMAIN cells THEN cells[o] ELSE zero
IndexPaths(I, h) == {At(I.str, Strings(h) + At(I.idx, o, 0), Empty) : o \in Slots(I, h)}

(* While a bucket has a length and its index offset is still zero, the     *)
(* slots begin at the bucket's own header, whose first two words are taken *)
(* for indexes: they lead far beyond the playlist, and right behind it.    *)
(* (The other two are zero, as all that follows them.)                     *)
HeaderPaths(I, h) ==
  {At(I.str, Strings(h) + w, Stray) :
     w \in IF I.hdr[h].ioff = 0 /\ Slots(I, h) # {} THEN {BucketMagic, I.hdr[h].blen} ELSE {}}
PathsAt(I, h) == IndexPaths(I, h) \cup HeaderPaths(I, h)
Lists(I) == {[name |-> I.hdr[h].name, at |-> h, paths |-> PathsAt(I, h)] : h \in Visited(I)}

(* Stores that leave some playlists out of reach until all are made: from  *)
(* the first byte that is moved to the length that leads over it.          *)
Moving == torn # 0 \/ (cmd.op = "add" /\ todo # <<>> /\ It.store \in {"blen", "length"})
            \/ (cmd.op = "add" /\ Len(todo) > 1 /\ It.store = "ioff" /\ todo[2].store = "length")

(* A call that is not cut short ends as LibImage says: the stores in their *)
(* order come to what the whole call does.  How much is mapped is not in   *)
(* the file, and is the subject of Library; here it is as long as lib_len. *)
Mapped(I) == [I EXCEPT !.vm = Pages(I.len)]
Ends ==
  CASE cmd.op = "start"  -> start_playlist(Mapped(base), cmd.name)
    [] cmd.op = "delete" -> delete_playlist(Mapped(base), cmd.name)
    [] cmd.op = "add"    -> add_path_to_plist(Mapped(base), edge, cmd.path)
    [] OTHER             -> {Result("ok", base)}
EndAgrees == todo = <<>> => Mapped(img) \in {Mapped(r.img) : r \in Ends}

(* Whenever the process ends, the playlists in front of the one that is    *)
(* changed are all there, with their paths.                                *)
FrontSafe == \A l \in Lists(base) : l.at < edge => l \in Lists(img)

(* Apart from the stores around a memmove, whenever the process ends no    *)
(* playlist but the removed one is lost, and none loses a path, except in  *)
(* the middle of qsort().                                                  *)
NothingLost ==
  ~ Moving =>
    \A l \in Lists(base) :
      \/ cmd.op = "delete" /\ l.at = edge
      \/ \E s \in Lists(img) :
           s.name = l.name /\ (l.paths \subseteq s.paths \/ (todo # <<>> /\ It.store = "sorted"))

(* The next store is the index offset of a new bucket. *)
BucketHalfMade == cmd.op = "start" /\ todo # <<>> /\ It.store = "ioff"
HalfMadeAt(h) == IF BucketHalfMade /\ h = edge THEN {Stray} ELSE {}

(* No playlist ever shows a name or a path that was not there and is not   *)
(* being added: what is half stored is not yet looked at.  There are two   *)
(* exceptions.  A bucket without strings may show empty paths, while it    *)
(* grows.  And a process that ends between the two stores of the length    *)
(* and of the index offset of a new bucket leaves a playlist whose paths   *)
(* are read outside of it.                                                 *)
NothingInvented ==
  torn = 0 =>
    \A l \in Lists(img) :
      /\ l.name \in {k.name : k \in Lists(base)} \cup {Stored(cmd.name)}
      /\ l.paths \subseteq (UNION {k.paths : k \in Lists(base)}) \cup {cmd.path}
                             \cup (IF img.hdr[l.at].sbytes = 0 THEN {Empty} ELSE {})
                             \cup HalfMadeAt(l.at)

(* All that is shown is in the file, wherever growing and cutting stop,    *)
(* and lib_len is beyond the end of the file only if the process ends      *)
(* between ftruncate() and storing the length.                             *)
ShownInFile ==
  /\ torn = 0 => \A h \in Visited(img) : h + img.hdr[h].length <= img.size
  /\ img.len <= img.size \/ (cmd.op = "delete" /\ todo # <<>> /\ It.store = "len")

(* The playlist after a playlist is another one, also in a file that a     *)
(* process left in the middle of a command: the walk of the next comes to  *)
(* an end.                                                                 *)
NextIsAnother ==
  ~ up /\ torn = 0 => \A h \in Visited(img) : h \notin next_playlist(img, h)
=============================================================================

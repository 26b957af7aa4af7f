---------------------------- MODULE CrashProofs -----------------------------
(***************************************************************************)
(* Proofs about LibraryCrash: what is in the file whenever the process     *)
(* ends, for every set of names and paths, every path length and every     *)
(* sequence of commands.                                                   *)
(*                                                                         *)
(* The invariant (CrashInv) is that the file is the one the call began     *)
(* with, a sound library, and the first k stores of the call, for some k:  *)
(* StartImage, DeleteImage, TurnImage and PlaceImage say what those are.   *)
(* What the next process finds is then read off one stage after another:   *)
(* that it is in the file, which lists it shows, and, of a call that is    *)
(* over, that it is what LibImage says of the whole call.                  *)
(***************************************************************************)
EXTENDS LibraryCrash, ImageProofs, SequenceTheorems

(* The stores that are left after the first k of a list. *)
OfLength(s, n) == \E A : s \in Seq(A) /\ Len(s) = n
From(s, k) == SubSeq(s, k + 1, Len(s))
LEMMA FromTyped ==
  ASSUME NEW A, NEW s \in Seq(A), NEW k \in Nat, k < Len(s)
  PROVE  /\ From(s, k) \in Seq(A) /\ Len(From(s, k)) = Len(s) - k
         /\ \A i \in 1 .. Len(s) - k : From(s, k)[i] = s[k + i]
<1>1. \A i \in k + 1 .. Len(s) : s[i] \in A
  OBVIOUS
<1>2. k + 1 \in Int /\ Len(s) \in Int
  OBVIOUS
<1>3. /\ SubSeq(s, k + 1, Len(s)) \in Seq(A)
      /\ Len(SubSeq(s, k + 1, Len(s))) = IF k + 1 <= Len(s) THEN Len(s) - (k + 1) + 1 ELSE 0
      /\ \A i \in 1 .. Len(s) - (k + 1) + 1 : SubSeq(s, k + 1, Len(s))[i] = s[k + 1 + i - 1]
  BY <1>1, <1>2, SubSeqProperties
<1> QED
  BY <1>2, <1>3 DEF From

LEMMA FromFacts ==
  ASSUME NEW s, NEW n \in Nat, OfLength(s, n), NEW k \in Nat
  PROVE  /\ From(s, 0) = s /\ From(s, n) = <<>>
         /\ k < n => /\ From(s, k) # <<>> /\ Head(From(s, k)) = s[k + 1]
                     /\ Tail(From(s, k)) = From(s, k + 1)
                     /\ Len(From(s, k)) = n - k
         /\ k + 1 < n => From(s, k)[2] = s[k + 2]
<1>0. PICK A : s \in Seq(A) /\ Len(s) = n
  BY DEF OfLength
<1>1. From(s, 0) = s /\ From(s, n) = <<>>
  BY <1>0 DEF From
<1> SUFFICES ASSUME k < n
             PROVE  /\ From(s, k) # <<>> /\ Head(From(s, k)) = s[k + 1]
                    /\ Tail(From(s, k)) = From(s, k + 1)
                    /\ Len(From(s, k)) = n - k
                    /\ k + 1 < n => From(s, k)[2] = s[k + 2]
  BY <1>1
<1>2. Len(From(s, k)) = n - k
  BY <1>0 DEF From
<1>3. From(s, k) # <<>>
  BY <1>2
<1>4. Head(From(s, k)) = s[k + 1]
  BY <1>0, <1>2 DEF From
<1>5. k + 1 < n => From(s, k)[2] = s[k + 2]
  BY <1>0, <1>2 DEF From
<1>6. Tail(From(s, k)) = From(s, k + 1)
  BY <1>0, <1>2 DEF From
<1> QED
  BY <1>2, <1>3, <1>4, <1>5, <1>6

(* What the next store is, and what is left after it. *)
Comes(s, k) == /\ From(s, k) # <<>>
               /\ Head(From(s, k)) = s[k + 1]
               /\ Tail(From(s, k)) = From(s, k + 1)
LEMMA OneStore ==
  ASSUME NEW s, NEW n \in Nat, OfLength(s, n), NEW k \in Nat, k < n
  PROVE  Comes(s, k)
<1>1. k < n => /\ From(s, k) # <<>> /\ Head(From(s, k)) = s[k + 1]
               /\ Tail(From(s, k)) = From(s, k + 1)
               /\ Len(From(s, k)) = n - k
  BY FromFacts
<1> QED
  BY <1>1 DEF Comes

LEMMA StartElems ==
  ASSUME NEW I, NEW n, NEW s, s = StartStores(I, n)
  PROVE  /\ OfLength(s, 9)
         /\ s[1] = ToFile("size", I.len + 272) /\ s[2] = ToFile("len", I.len + 272)
         /\ s[3] = ToPlaylist("magic", I.len, Stored(n)) /\ s[4] = ToPlaylist("length", I.len, 272)
         /\ s[5] = ToPlaylist("mcount", I.len, 0) /\ s[6] = ToPlaylist("bmagic", I.len, BucketMagic)
         /\ s[7] = ToPlaylist("blen", I.len, 128) /\ s[8] = ToPlaylist("ioff", I.len, 128)
         /\ s[9] = ToPlaylist("sbytes", I.len, 0)
<1>1. PICK a, b, c, d, e, m, f, g, k :
        /\ a = ToFile("size", I.len + 272) /\ b = ToFile("len", I.len + 272)
        /\ c = ToPlaylist("magic", I.len, Stored(n)) /\ d = ToPlaylist("length", I.len, 272)
        /\ e = ToPlaylist("mcount", I.len, 0) /\ m = ToPlaylist("bmagic", I.len, BucketMagic)
        /\ f = ToPlaylist("blen", I.len, 128)
        /\ g = ToPlaylist("ioff", I.len, 128) /\ k = ToPlaylist("sbytes", I.len, 0)
  OBVIOUS
<1>2. PlistSize + Growth = 272 /\ Growth = 128
  BY LayoutConstants
<1>3. s = <<a, b, c, d, e, m, f, g, k>>
  BY <1>1, <1>2, ZenonT(60) DEF StartStores
<1>4. s \in Seq({a, b, c, d, e, m, f, g, k}) /\ Len(s) = 9
  BY <1>3
<1>5. OfLength(s, 9)
  BY <1>4 DEF OfLength
<1>6. /\ s[1] = a /\ s[2] = b /\ s[3] = c /\ s[4] = d /\ s[5] = e /\ s[6] = m
      /\ s[7] = f /\ s[8] = g /\ s[9] = k
  BY <1>3
<1> QED
  BY <1>1, <1>5, <1>6

LEMMA DeleteElems ==
  ASSUME NEW I, NEW h, NEW n, n = I.hdr[h].length, NEW s, s = DeleteStores(I, h)
  PROVE  /\ OfLength(s, 4)
         /\ s[1] = ToFile("tear", h) /\ s[2] = ToFile("down", h + n)
         /\ s[3] = ToFile("cut", I.len - n) /\ s[4] = ToFile("len", I.len - n)
<1>1. PICK a, b, c, d :
        /\ a = ToFile("tear", h) /\ b = ToFile("down", h + n)
        /\ c = ToFile("cut", I.len - n) /\ d = ToFile("len", I.len - n)
  OBVIOUS
<1>2. s = <<a, b, c, d>>
  BY <1>1, Zenon DEF DeleteStores
<1>3. s \in Seq({a, b, c, d}) /\ Len(s) = 4
  BY <1>2
<1>4. OfLength(s, 4)
  BY <1>3 DEF OfLength
<1>5. s[1] = a /\ s[2] = b /\ s[3] = c /\ s[4] = d
  BY <1>2
<1> QED
  BY <1>1, <1>4, <1>5

LEMMA TurnElems ==
  ASSUME NEW I, NEW h, NEW x, x = I.hdr[h], NEW s, s = TurnStores(I, h)
  PROVE  /\ OfLength(s, 8)
         /\ s[1] = ToFile("size", I.len + 128) /\ s[2] = ToFile("len", I.len + 128)
         /\ s[3] = ToFile("tear", bucket_indexes(I, h)) /\ s[4] = ToFile("up", 128)
         /\ s[5] = ToPlaylist("blen", h, x.blen + 128) /\ s[6] = ToPlaylist("ioff", h, x.ioff + 128)
         /\ s[7] = ToPlaylist("length", h, x.length + 128) /\ s[8] = ToFile("again", h)
<1>1. PICK a, b, c, d, e, f, g, k :
        /\ a = ToFile("size", I.len + 128) /\ b = ToFile("len", I.len + 128)
        /\ c = ToFile("tear", bucket_indexes(I, h)) /\ d = ToFile("up", 128)
        /\ e = ToPlaylist("blen", h, x.blen + 128) /\ f = ToPlaylist("ioff", h, x.ioff + 128)
        /\ g = ToPlaylist("length", h, x.length + 128) /\ k = ToFile("again", h)
  OBVIOUS
<1>2. Growth = 128
  BY LayoutConstants
<1>3. s = <<a, b, c, d, e, f, g, k>>
  BY <1>1, <1>2, ZenonT(60) DEF TurnStores
<1>4. s \in Seq({a, b, c, d, e, f, g, k}) /\ Len(s) = 8
  BY <1>3
<1>5. OfLength(s, 8)
  BY <1>4 DEF OfLength
<1>6. /\ s[1] = a /\ s[2] = b /\ s[3] = c /\ s[4] = d /\ s[5] = e /\ s[6] = f
      /\ s[7] = g /\ s[8] = k
  BY <1>3
<1> QED
  BY <1>1, <1>5, <1>6

LEMMA PlaceElems ==
  ASSUME NEW I, NEW h, NEW p, NEW x, x = I.hdr[h], NEW s, s = PlaceStores(I, h, p)
  PROVE  /\ OfLength(s, 6)
         /\ s[1] = ToPlaylist("string", Strings(h) + x.sbytes, p)
         /\ s[2] = ToPlaylist("word", bucket_indexes(I, h) - 4, x.sbytes)
         /\ s[3] = ToPlaylist("ioff", h, x.ioff - 4)
         /\ s[4] = ToPlaylist("sbytes", h, x.sbytes + PathLen[p])
         /\ s[5] = ToPlaylist("sorting", h, p) /\ s[6] = ToPlaylist("mcount", h, x.mcount + 1)
<1>1. PICK a, b, c, d, e, f :
        /\ a = ToPlaylist("string", Strings(h) + x.sbytes, p)
        /\ b = ToPlaylist("word", bucket_indexes(I, h) - 4, x.sbytes)
        /\ c = ToPlaylist("ioff", h, x.ioff - 4)
        /\ d = ToPlaylist("sbytes", h, x.sbytes + PathLen[p])
        /\ e = ToPlaylist("sorting", h, p) /\ f = ToPlaylist("mcount", h, x.mcount + 1)
  OBVIOUS
<1>2. IndexSize = 4
  BY LayoutConstants
<1>3. s = <<a, b, c, d, e, f>>
  BY <1>1, <1>2, Zenon DEF PlaceStores
<1>4. s \in Seq({a, b, c, d, e, f}) /\ Len(s) = 6
  BY <1>3
<1>5. OfLength(s, 6)
  BY <1>4 DEF OfLength
<1>6. s[1] = a /\ s[2] = b /\ s[3] = c /\ s[4] = d /\ s[5] = e /\ s[6] = f
  BY <1>3
<1> QED
  BY <1>1, <1>5, <1>6

LEMMA SortElems ==
  ASSUME NEW s, OfLength(s, 6), NEW x, NEW t, t = [From(s, 4) EXCEPT ![1] = x]
  PROVE  t # <<>> /\ Head(t) = x /\ Tail(t) = From(s, 5) /\ Len(t) = 2
<1>1. PICK A : s \in Seq(A) /\ Len(s) = 6
  BY DEF OfLength
<1>2. PICK B : B = A \cup {x}
  OBVIOUS
<1>3. A \subseteq B /\ x \in B
  BY <1>2
<1>4. s \in Seq(B)
  BY <1>1, <1>3, SeqMonotonic
<1>12. 4 \in Nat /\ 4 < Len(s) /\ 5 \in Nat /\ 5 < Len(s)
  BY <1>1
<1>13. /\ From(s, 4) \in Seq(B) /\ Len(From(s, 4)) = Len(s) - 4
       /\ \A i \in 1 .. Len(s) - 4 : From(s, 4)[i] = s[4 + i]
  BY <1>4, <1>12, FromTyped
<1>14. /\ From(s, 5) \in Seq(B) /\ Len(From(s, 5)) = Len(s) - 5
       /\ \A i \in 1 .. Len(s) - 5 : From(s, 5)[i] = s[5 + i]
  BY <1>4, <1>12, FromTyped
<1>5. From(s, 4) \in Seq(B) /\ Len(From(s, 4)) = 2
  BY <1>1, <1>13
<1>6. t \in Seq(B) /\ Len(t) = 2 /\ t[1] = x /\ t[2] = From(s, 4)[2]
  BY <1>3, <1>5
<1>7. From(s, 4)[2] = s[6]
  BY <1>1, <1>13
<1>8. From(s, 5) \in Seq(B) /\ Len(From(s, 5)) = 1 /\ From(s, 5)[1] = s[6]
  BY <1>1, <1>14
<1>9. t # <<>> /\ Head(t) = x
  BY <1>6
<1>10. Tail(t) \in Seq(B) /\ Len(Tail(t)) = 1 /\ Tail(t)[1] = t[2]
  BY <1>6
<1>11. Tail(t) = From(s, 5)
  BY <1>6, <1>7, <1>8, <1>10, SeqEqual
<1> QED
  BY <1>6, <1>9, <1>11

(* What each kind of store does. *)
LEMMA StoreDone ==
  ASSUME Store, NEW s, s = Head(todo)
  PROVE  /\ then' = then /\ cmd' = cmd /\ base' = base /\ edge' = edge /\ todo # <<>>
         /\ s.store \notin {"sorting", "again"} => todo' = Tail(todo)
         /\ s.store \notin {"tear", "up", "down"} => torn' = torn
         /\ s.store = "size" => img' = expand_fd(img, s.to)
         /\ s.store = "len" => img' = [img EXCEPT !.len = s.to]
         /\ s.store = "cut" => img' = [Cut(img, s.to) EXCEPT !.len = img.len]
         /\ s.store = "tear" => img' = img /\ torn' = s.to
         /\ s.store = "up" => img' = Opened(img, torn, s.to) /\ torn' = 0
         /\ s.store = "down" => img' = Closed(img, torn, s.to) /\ torn' = 0
         /\ s.store = "magic" => img' = [img EXCEPT !.hdr = Put(@, s.at,
              [name |-> s.v, length |-> 0, mcount |-> 0, blen |-> 0, ioff |-> 0, sbytes |-> 0])]
         /\ s.store \in {"length", "mcount", "blen", "ioff", "sbytes"} =>
              img' = [img EXCEPT !.hdr[s.at][s.store] = s.v]
         /\ s.store = "bmagic" => img' = img
         /\ s.store = "string" => img' = [img EXCEPT !.str = Put(@, s.at, s.v)]
         /\ s.store = "word" => img' = [img EXCEPT !.idx = Put(@, s.at, s.v)]
         /\ s.store = "sorting" =>
              /\ todo' = [todo EXCEPT ![1] = ToPlaylist("sorted", s.at, img)]
              /\ img' \in Shuffled(img, s.at)
         /\ s.store = "sorted" => img' \in bucket_sort(s.v, s.at)
         /\ s.store = "again" => todo' = AddStores(img, s.to, cmd.path) /\ img' = img
<1> USE DEF Doing, It, NextStore
<1>1. CASE GrowFile
  BY <1>1 DEF GrowFile
<1>2. CASE SetLibLen
  BY <1>2 DEF SetLibLen
<1>3. CASE CutFile
  BY <1>3 DEF CutFile
<1>4. CASE BeginMove
  BY <1>4 DEF BeginMove
<1>5. CASE EndMove
  BY <1>5 DEF EndMove
<1>6. CASE SetMagic
  BY <1>6 DEF SetMagic
<1>7. CASE SetField
  BY <1>7 DEF SetField
<1>8. CASE StoreString
  BY <1>8 DEF StoreString
<1>9. CASE StoreWord
  BY <1>9 DEF StoreWord
<1>10. CASE BeginSort
  BY <1>10 DEF BeginSort
<1>11. CASE EndSort
  BY <1>11 DEF EndSort
<1>12. CASE Restart
  BY <1>12 DEF Restart
<1>13. CASE SetBucketMagic
  BY <1>13 DEF SetBucketMagic
<1> QED
  BY <1>1, <1>2, <1>3, <1>4, <1>5, <1>6, <1>7, <1>8, <1>9, <1>10, <1>11, <1>12, <1>13 DEF Store

-----------------------------------------------------------------------------
(* The file between two commands.  Besides what LibImage's operations keep *)
(* to: it is as long as its header says, nothing is stored behind its end, *)
(* and a bucket without strings has nothing where its first string would   *)
(* begin, while one with strings has an index to the first.                *)
Begun(I, h) ==
  IF I.hdr[h].sbytes = 0 THEN Strings(h) \notin DOMAIN I.str ELSE 0 \in Words(I, h)
Tidy(I) == \A o \in DOMAIN I.str \cup DOMAIN I.idx : o < I.len
Sound(I) ==
  /\ ImageInv(I) /\ AllSound(I) /\ Chained(I)
  /\ I.size = I.len
  /\ Tidy(I)
  /\ \A h \in DOMAIN I.hdr : Begun(I, h)

-----------------------------------------------------------------------------
(* The file after the first k stores of a call that began with file B. *)
Image(len, size, vm, hdr, str, idx) ==
  [len |-> len, size |-> size, vm |-> vm, hdr |-> hdr, str |-> str, idx |-> idx]

StartCell(n, k) ==
  [name |-> Stored(n), length |-> IF k < 4 THEN 0 ELSE 272, mcount |-> 0,
   blen |-> IF k < 7 THEN 0 ELSE 128, ioff |-> IF k < 8 THEN 0 ELSE 128, sbytes |-> 0]
StartImage(B, n, k) ==
  Image(IF k < 2 THEN B.len ELSE B.len + 272, IF k < 1 THEN B.len ELSE B.len + 272, B.vm,
        IF k < 3 THEN B.hdr ELSE Put(B.hdr, B.len, StartCell(n, k)), B.str, B.idx)

DeleteImage(B, h, k) ==
  LET n == B.hdr[h].length
      moved(f) == IF k < 2 THEN f ELSE MovedDown(f, h, h + n, B.len)
      left(f) == IF k < 3 THEN moved(f) ELSE CutAt(moved(f), B.len - n)
  IN Image(IF k < 4 THEN B.len ELSE B.len - n, IF k < 3 THEN B.len ELSE B.len - n, B.vm,
           left(B.hdr), left(B.str), left(B.idx))

(* B after the turns of mlib_bucket_add() that made m bytes of room. *)
WidenedBy(B, h, m) ==
  LET moved(f) == MovedUp(f, bucket_indexes(B, h), m)
  IN Image(B.len + m, B.len + m, B.vm,
           [moved(B.hdr) EXCEPT ![h] = Wider(B.hdr[h], m)], moved(B.str), moved(B.idx))

TurnCell(c, k) ==
  [name |-> c.name, length |-> c.length + (IF k < 7 THEN 0 ELSE 128), mcount |-> c.mcount,
   blen |-> c.blen + (IF k < 5 THEN 0 ELSE 128), ioff |-> c.ioff + (IF k < 6 THEN 0 ELSE 128),
   sbytes |-> c.sbytes]
TurnImage(T, h, k) ==
  LET moved(f) == IF k < 4 THEN f ELSE MovedUp(f, bucket_indexes(T, h), 128)
  IN Image(IF k < 2 THEN T.len ELSE T.len + 128, IF k < 1 THEN T.len ELSE T.len + 128, T.vm,
           [moved(T.hdr) EXCEPT ![h] = TurnCell(T.hdr[h], k)], moved(T.str), moved(T.idx))

PlaceCell(c, p, k) ==
  [name |-> c.name, length |-> c.length, mcount |-> c.mcount, blen |-> c.blen,
   ioff |-> c.ioff - (IF k < 3 THEN 0 ELSE 4),
   sbytes |-> c.sbytes + (IF k < 4 THEN 0 ELSE PathLen[p])]
PlaceImage(T, h, p, k) ==
  LET c == T.hdr[h]
  IN Image(T.len, T.len, T.vm, [T.hdr EXCEPT ![h] = PlaceCell(c, p, k)],
           IF k < 1 THEN T.str ELSE Put(T.str, Strings(h) + c.sbytes, p),
           IF k < 2 THEN T.idx ELSE Put(T.idx, bucket_indexes(T, h) - 4, c.sbytes))

-----------------------------------------------------------------------------
(* Where the process is in a call, and what the file is then. *)
Starting(k) ==
  /\ cmd.op = "start" /\ cmd.name \in Names /\ edge = base.len /\ base.len <= MaxLen
  /\ find_playlist(base, cmd.name) = {}
  /\ img = StartImage(base, cmd.name, k) /\ todo = From(StartStores(base, cmd.name), k)
  /\ torn = 0
Deleting(k) ==
  /\ cmd.op = "delete" /\ edge \in find_playlist(base, cmd.name)
  /\ img = DeleteImage(base, edge, k) /\ todo = From(DeleteStores(base, edge), k)
  /\ torn = IF k = 1 THEN edge ELSE 0

AddCall ==
  /\ cmd.op = "add" /\ cmd.path \in Paths /\ edge \in find_playlist(base, cmd.name)
  /\ base.len + PathLen[cmd.path] + 132 < U32
Refused ==
  /\ AddCall /\ bucket_contains(base, edge, cmd.path)
  /\ img = base /\ todo = <<>> /\ torn = 0
Lacking == Turns(base.hdr[edge], PathLen[cmd.path])
Turning(j, k) ==
  LET T == WidenedBy(base, edge, 128 * j) IN
  /\ AddCall /\ ~ bucket_contains(base, edge, cmd.path) /\ j < Lacking
  /\ img = TurnImage(T, edge, k) /\ todo = From(TurnStores(T, edge), k)
  /\ torn = IF k = 3 THEN bucket_indexes(T, edge) ELSE 0
Roomy == WidenedBy(base, edge, 128 * Lacking)
Placing ==
  /\ AddCall /\ ~ bucket_contains(base, edge, cmd.path) /\ torn = 0
  /\ \/ \E k \in 0 .. 4 : /\ img = PlaceImage(Roomy, edge, cmd.path, k)
                          /\ todo = From(PlaceStores(Roomy, edge, cmd.path), k)
     \/ LET U == PlaceImage(Roomy, edge, cmd.path, 4) IN
        /\ img \in Shuffled(U, edge)
        /\ todo = [From(PlaceStores(Roomy, edge, cmd.path), 4) EXCEPT ![1] =
                       ToPlaylist("sorted", edge, U)]
     \/ /\ img \in Placed(Roomy, edge, cmd.path)
        /\ todo = From(PlaceStores(Roomy, edge, cmd.path), 5)
     \/ /\ \E J \in Placed(Roomy, edge, cmd.path) : img = Counted(J, edge)
        /\ todo = <<>>

Stage ==
  \/ cmd.op = "none" /\ img = base /\ edge = base.len /\ todo = <<>> /\ torn = 0
  \/ \E k \in 0 .. 9 : Starting(k)
  \/ \E k \in 0 .. 4 : Deleting(k)
  \/ Refused
  \/ \E j \in Nat, k \in 0 .. 7 : Turning(j, k)
  \/ Placing
Known == /\ then \in Names \cup {NoName}
         /\ then # NoName => cmd.op = "add" /\ base.len <= MaxLen
CrashInv == Sound(base) /\ Known /\ Stage

-----------------------------------------------------------------------------
(* The file after no store is the file before, and after all turns of the  *)
(* restart loop it is as wide as all of them made it.                      *)
LEMMA ImageRecord ==
  ASSUME NEW I, ImageTyped(I)
  PROVE  /\ I = Image(I.len, I.size, I.vm, I.hdr, I.str, I.idx)
         /\ I.len \in Nat /\ I.size \in Nat
         /\ I.hdr = [o \in DOMAIN I.hdr |-> I.hdr[o]] /\ DOMAIN I.hdr \subseteq Nat
         /\ I.str = [o \in DOMAIN I.str |-> I.str[o]] /\ DOMAIN I.str \subseteq Nat
         /\ I.idx = [o \in DOMAIN I.idx |-> I.idx[o]] /\ DOMAIN I.idx \subseteq Nat
BY DEF ImageTyped, Image

LEMMA InvRecord ==
  ASSUME NEW I, ImageInv(I)
  PROVE  I = Image(I.len, I.size, I.vm, I.hdr, I.str, I.idx)
<1>1. ImageTyped(I)
  BY DEF ImageInv
<1> QED
  BY <1>1, ImageRecord

LEMMA MovedUpNone ==
  ASSUME NEW f, f = [o \in DOMAIN f |-> f[o]], DOMAIN f \subseteq Nat, NEW at \in Nat
  PROVE  MovedUp(f, at, 0) = f
<1> DEFINE D == {x \in DOMAIN f : x < at} \cup {x + 0 : x \in {y \in DOMAIN f : y >= at}}
<1>1. D = DOMAIN f
  OBVIOUS
<1>2. MovedUp(f, at, 0) = [o \in D |-> IF o < at THEN f[o] ELSE f[o - 0]]
  BY DEF MovedUp
<1>3. \A o \in D : (IF o < at THEN f[o] ELSE f[o - 0]) = f[o]
  BY <1>1
<1> QED
  BY <1>1, <1>2, <1>3

LEMMA MovedUpTwice ==
  ASSUME NEW f, f = [o \in DOMAIN f |-> f[o]], DOMAIN f \subseteq Nat,
         NEW at \in Nat, NEW a \in Nat, NEW b \in Nat
  PROVE  MovedUp(MovedUp(f, at, a), at + a, b) = MovedUp(f, at, a + b)
<1>1. PICK m : m = MovedUp(f, at, a)
  OBVIOUS
<1>2. PICK p : p = MovedUp(m, at + a, b)
  OBVIOUS
<1>3. PICK q : q = MovedUp(f, at, a + b)
  OBVIOUS
<1>4. /\ m = [o \in DOMAIN m |-> m[o]] /\ DOMAIN m \subseteq Nat
      /\ \A o \in DOMAIN f : IF o < at THEN o \in DOMAIN m ELSE o + a \in DOMAIN m
      /\ \A o \in DOMAIN m : o < at => o \in DOMAIN f /\ m[o] = f[o]
      /\ \A o \in DOMAIN m : o >= at => o - a >= at /\ o - a \in DOMAIN f /\ m[o] = f[o - a]
  BY <1>1, MovedUpCells
<1>5. PICK x \in Nat, n \in Nat : x = at + a /\ n = a + b
  OBVIOUS
<1>6. /\ p = [o \in DOMAIN p |-> p[o]] /\ DOMAIN p \subseteq Nat
      /\ \A o \in DOMAIN m : IF o < at + a THEN o \in DOMAIN p ELSE o + b \in DOMAIN p
      /\ \A o \in DOMAIN p : o < at + a => o \in DOMAIN m /\ p[o] = m[o]
      /\ \A o \in DOMAIN p : o >= at + a =>
           o - b >= at + a /\ o - b \in DOMAIN m /\ p[o] = m[o - b]
  <2>1. p = MovedUp(m, x, b)
    BY <1>2, <1>5
  <2>2. /\ p = [o \in DOMAIN p |-> p[o]] /\ DOMAIN p \subseteq Nat
        /\ \A o \in DOMAIN m : IF o < x THEN o \in DOMAIN p ELSE o + b \in DOMAIN p
        /\ \A o \in DOMAIN p : o < x => o \in DOMAIN m /\ p[o] = m[o]
        /\ \A o \in DOMAIN p : o >= x => o - b >= x /\ o - b \in DOMAIN m /\ p[o] = m[o - b]
    BY <1>4, <2>1, MovedUpCells, SMTT(30)
  <2> QED
    BY <1>5, <2>2
<1>7. /\ q = [o \in DOMAIN q |-> q[o]] /\ DOMAIN q \subseteq Nat
      /\ \A o \in DOMAIN f : IF o < at THEN o \in DOMAIN q ELSE o + (a + b) \in DOMAIN q
      /\ \A o \in DOMAIN q : o < at => o \in DOMAIN f /\ q[o] = f[o]
      /\ \A o \in DOMAIN q : o >= at =>
           o - (a + b) >= at /\ o - (a + b) \in DOMAIN f /\ q[o] = f[o - (a + b)]
  <2>1. q = MovedUp(f, at, n)
    BY <1>3, <1>5
  <2>2. /\ q = [o \in DOMAIN q |-> q[o]] /\ DOMAIN q \subseteq Nat
        /\ \A o \in DOMAIN f : IF o < at THEN o \in DOMAIN q ELSE o + n \in DOMAIN q
        /\ \A o \in DOMAIN q : o < at => o \in DOMAIN f /\ q[o] = f[o]
        /\ \A o \in DOMAIN q : o >= at => o - n >= at /\ o - n \in DOMAIN f /\ q[o] = f[o - n]
    BY <2>1, MovedUpCells, SMTT(30)
  <2> QED
    BY <1>5, <2>2
<1>8. ASSUME NEW o \in DOMAIN p
      PROVE  o \in DOMAIN q /\ p[o] = q[o]
  <2>0. o \in Nat
    BY <1>6
  <2>1. CASE o < at
    <3>1. o < at + a /\ o \in DOMAIN m /\ p[o] = m[o]
      BY <1>6, <2>0, <2>1
    <3>2. o \in DOMAIN f /\ m[o] = f[o]
      BY <1>4, <2>1, <3>1
    <3>3. o \in DOMAIN q /\ q[o] = f[o]
      BY <1>7, <2>1, <3>2
    <3> QED
      BY <3>1, <3>2, <3>3
  <2>2. CASE o >= at
    <3>1. o >= at + a
      <4>1. SUFFICES ASSUME o < at + a PROVE FALSE
        BY <2>0
      <4>2. o \in DOMAIN m
        BY <1>6, <4>1
      <4> QED
        BY <1>4, <2>0, <2>2, <4>1, <4>2
    <3>2. o - b >= at + a /\ o - b \in DOMAIN m /\ p[o] = m[o - b]
      BY <1>6, <3>1
    <3>3. o - b >= at
      BY <2>0, <3>2
    <3>4. (o - b) - a >= at /\ (o - b) - a \in DOMAIN f /\ m[o - b] = f[(o - b) - a]
      BY <1>4, <3>2, <3>3
    <3>5. (o - b) - a = o - (a + b) /\ ((o - b) - a) + (a + b) = o /\ ~ ((o - b) - a < at)
      BY <2>0, <3>4
    <3>6. o \in DOMAIN q
      BY <1>7, <3>4, <3>5
    <3>7. q[o] = f[o - (a + b)]
      BY <1>7, <2>2, <3>6
    <3> QED
      BY <3>2, <3>4, <3>5, <3>6, <3>7
  <2> QED
    BY <2>0, <2>1, <2>2
<1>9. ASSUME NEW o \in DOMAIN q
      PROVE  o \in DOMAIN p
  <2>0. o \in Nat
    BY <1>7
  <2>1. CASE o < at
    <3>1. o \in DOMAIN f
      BY <1>7, <2>1
    <3>2. o \in DOMAIN m /\ o < at + a
      BY <1>4, <2>0, <2>1, <3>1
    <3> QED
      BY <1>6, <3>2
  <2>2. CASE o >= at
    <3>1. o - (a + b) >= at /\ o - (a + b) \in DOMAIN f
      BY <1>7, <2>2
    <3>2. (o - (a + b)) + a \in DOMAIN m
      BY <1>4, <2>0, <3>1
    <3>3. (o - (a + b)) + a = o - b /\ ~ (o - b < at + a) /\ (o - b) + b = o
      BY <2>0, <3>1
    <3> QED
      BY <1>6, <3>2, <3>3
  <2> QED
    BY <2>0, <2>1, <2>2
<1>10. DOMAIN p = DOMAIN q
  BY <1>8, <1>9
<1>11. p = q
  BY <1>6, <1>7, <1>8, <1>10
<1> QED
  BY <1>1, <1>2, <1>3, <1>11

LEMMA MovedUpSet ==
  ASSUME NEW f, f = [o \in DOMAIN f |-> f[o]], DOMAIN f \subseteq Nat,
         NEW at \in Nat, NEW n \in Nat, NEW h \in DOMAIN f, h < at, NEW c
  PROVE  /\ MovedUp([f EXCEPT ![h] = c], at, n) = [MovedUp(f, at, n) EXCEPT ![h] = c]
         /\ h \in DOMAIN MovedUp(f, at, n) /\ MovedUp(f, at, n)[h] = f[h]
<1> DEFINE g == [f EXCEPT ![h] = c]
           D == {x \in DOMAIN f : x < at} \cup {x + n : x \in {y \in DOMAIN f : y >= at}}
<1>1. DOMAIN g = DOMAIN f
  OBVIOUS
<1>2. MovedUp(g, at, n) = [o \in D |-> IF o < at THEN g[o] ELSE g[o - n]]
  BY <1>1 DEF MovedUp
<1>3. MovedUp(f, at, n) = [o \in D |-> IF o < at THEN f[o] ELSE f[o - n]]
  BY DEF MovedUp
<1>4. h \in D
  OBVIOUS
<1>5. \A o \in D : (IF o < at THEN g[o] ELSE g[o - n])
                      = IF o = h THEN c ELSE IF o < at THEN f[o] ELSE f[o - n]
  <2> TAKE o \in D
  <2>1. CASE o < at
    BY <2>1
  <2>2. CASE ~ o < at
    <3>1. PICK y \in DOMAIN f : y >= at /\ o = y + n
      BY <2>2
    <3>2. o - n = y /\ y # h /\ o # h
      BY <2>2, <3>1
    <3> QED
      BY <2>2, <3>2
  <2> QED
    BY <2>1, <2>2
<1>6. [MovedUp(f, at, n) EXCEPT ![h] = c]
        = [o \in D |-> IF o = h THEN c ELSE IF o < at THEN f[o] ELSE f[o - n]]
  BY <1>3
<1>7. MovedUp(g, at, n) = [o \in D |-> IF o = h THEN c ELSE IF o < at THEN f[o] ELSE f[o - n]]
  BY <1>2, <1>5
<1> QED
  BY <1>3, <1>4, <1>6, <1>7

LEMMA CellRecord ==
  ASSUME NEW c \in Cell
  PROVE  /\ c = [name |-> c.name, length |-> c.length, mcount |-> c.mcount,
                 blen |-> c.blen, ioff |-> c.ioff, sbytes |-> c.sbytes]
         /\ c.length \in Nat /\ c.blen \in Nat /\ c.ioff \in Nat /\ c.sbytes \in Nat
         /\ c.mcount \in Nat
BY DEF Cell

LEMMA WiderRecord ==
  ASSUME NEW c \in Cell, NEW n \in Nat
  PROVE  Wider(c, n) = [name |-> c.name, length |-> c.length + n, mcount |-> c.mcount,
                        blen |-> c.blen + n, ioff |-> c.ioff + n, sbytes |-> c.sbytes]
<1> DEFINE w == Wider(c, n)
<1>1. /\ w.length = c.length + n /\ w.blen = c.blen + n /\ w.ioff = c.ioff + n
      /\ w.sbytes = c.sbytes /\ w.name = c.name /\ w.mcount = c.mcount
  BY DEF Wider, Cell
<1>2. w \in Cell
  BY WiderCell
<1>3. w = [name |-> w.name, length |-> w.length, mcount |-> w.mcount,
           blen |-> w.blen, ioff |-> w.ioff, sbytes |-> w.sbytes]
  BY <1>2, CellRecord
<1> QED
  BY <1>1, <1>3

LEMMA WiderTwice ==
  ASSUME NEW c \in Cell, NEW a \in Nat, NEW b \in Nat
  PROVE  Wider(Wider(c, a), b) = Wider(c, a + b) /\ Wider(c, 0) = c
<1>1. PICK w : w = Wider(c, a)
  OBVIOUS
<1>2. w \in Cell
  BY <1>1, WiderCell
<1>3. w = [name |-> c.name, length |-> c.length + a, mcount |-> c.mcount,
           blen |-> c.blen + a, ioff |-> c.ioff + a, sbytes |-> c.sbytes]
  BY <1>1, WiderRecord
<1>4. Wider(w, b) = [name |-> w.name, length |-> w.length + b, mcount |-> w.mcount,
                     blen |-> w.blen + b, ioff |-> w.ioff + b, sbytes |-> w.sbytes]
  BY <1>2, WiderRecord
<1>5. a + b \in Nat /\ 0 \in Nat
  OBVIOUS
<1>6. Wider(c, a + b) = [name |-> c.name, length |-> c.length + (a + b), mcount |-> c.mcount,
                         blen |-> c.blen + (a + b), ioff |-> c.ioff + (a + b), sbytes |-> c.sbytes]
  BY <1>5, WiderRecord
<1>7. Wider(c, 0) = [name |-> c.name, length |-> c.length + 0, mcount |-> c.mcount,
                     blen |-> c.blen + 0, ioff |-> c.ioff + 0, sbytes |-> c.sbytes]
  BY <1>5, WiderRecord
<1>8. /\ c.length \in Nat /\ c.blen \in Nat /\ c.ioff \in Nat
      /\ c = [name |-> c.name, length |-> c.length, mcount |-> c.mcount,
              blen |-> c.blen, ioff |-> c.ioff, sbytes |-> c.sbytes]
  BY CellRecord
<1>9. Wider(c, 0) = c
  BY <1>7, <1>8
<1>10. Wider(w, b) = Wider(c, a + b)
  BY <1>3, <1>4, <1>6, <1>8
<1> QED
  BY <1>1, <1>9, <1>10

LEMMA WidenedFacts ==
  ASSUME NEW B, ImageInv(B), NEW h \in DOMAIN B.hdr, NEW m \in Nat, NEW T, T = WidenedBy(B, h, m)
  PROVE  /\ h \in DOMAIN T.hdr /\ T.hdr[h] = Wider(B.hdr[h], m)
         /\ bucket_indexes(T, h) = bucket_indexes(B, h) + m
         /\ bucket_indexes(B, h) \in Nat /\ h \in Nat /\ h < bucket_indexes(B, h)
         /\ T.hdr[h].sbytes = B.hdr[h].sbytes /\ T.hdr[h].ioff = B.hdr[h].ioff + m
         /\ T.hdr[h].length = B.hdr[h].length + m /\ T.hdr[h].blen = B.hdr[h].blen + m
         /\ T.hdr[h].mcount = B.hdr[h].mcount /\ T.hdr[h].name = B.hdr[h].name
<1>1. /\ h \in Nat /\ B.hdr[h] \in Cell /\ B.hdr[h].ioff \in Nat
  BY CellFacts
<1>2. bucket_indexes(B, h) = h + 128 + B.hdr[h].ioff
  BY Regions
<1>3. bucket_indexes(B, h) \in Nat /\ h < bucket_indexes(B, h)
  BY <1>1, <1>2
<1>4. B.hdr = [o \in DOMAIN B.hdr |-> B.hdr[o]] /\ DOMAIN B.hdr \subseteq Nat
  BY ImageRecord DEF ImageInv
<1>5. h \in DOMAIN MovedUp(B.hdr, bucket_indexes(B, h), m)
  BY <1>3, <1>4, MovedUpSet
<1>6. T.hdr = [MovedUp(B.hdr, bucket_indexes(B, h), m) EXCEPT ![h] = Wider(B.hdr[h], m)]
  BY DEF WidenedBy, Image
<1>7. h \in DOMAIN T.hdr /\ T.hdr[h] = Wider(B.hdr[h], m)
  BY <1>5, <1>6
<1>8. PICK c : c = B.hdr[h]
  OBVIOUS
<1>9. /\ T.hdr[h].ioff = B.hdr[h].ioff + m /\ T.hdr[h].sbytes = B.hdr[h].sbytes
      /\ T.hdr[h].length = B.hdr[h].length + m /\ T.hdr[h].blen = B.hdr[h].blen + m
      /\ T.hdr[h].mcount = B.hdr[h].mcount /\ T.hdr[h].name = B.hdr[h].name
  <2>1. Wider(c, m) = [name |-> c.name, length |-> c.length + m, mcount |-> c.mcount,
                       blen |-> c.blen + m, ioff |-> c.ioff + m, sbytes |-> c.sbytes]
    BY <1>1, <1>8, WiderRecord
  <2>2. T.hdr[h] = Wider(c, m)
    BY <1>7, <1>8
  <2> QED
    BY <1>8, <2>1, <2>2
<1>10. bucket_indexes(T, h) = h + 128 + (B.hdr[h].ioff + m)
  BY <1>9, LayoutConstants DEF bucket_indexes
<1> QED
  BY <1>1, <1>2, <1>3, <1>7, <1>9, <1>10

LEMMA WidenedNone ==
  ASSUME NEW B, ImageInv(B), B.size = B.len, NEW h \in DOMAIN B.hdr
  PROVE  WidenedBy(B, h, 0) = B
<1>1. /\ B = Image(B.len, B.size, B.vm, B.hdr, B.str, B.idx)
      /\ B.len \in Nat
      /\ B.hdr = [o \in DOMAIN B.hdr |-> B.hdr[o]] /\ DOMAIN B.hdr \subseteq Nat
      /\ B.str = [o \in DOMAIN B.str |-> B.str[o]] /\ DOMAIN B.str \subseteq Nat
      /\ B.idx = [o \in DOMAIN B.idx |-> B.idx[o]] /\ DOMAIN B.idx \subseteq Nat
  BY ImageRecord DEF ImageInv
<1>2. bucket_indexes(B, h) \in Nat /\ B.hdr[h] \in Cell
  BY Regions, CellFacts
<1>3. PICK at : at = bucket_indexes(B, h)
  OBVIOUS
<1>4. MovedUp(B.hdr, at, 0) = B.hdr /\ MovedUp(B.str, at, 0) = B.str /\ MovedUp(B.idx, at, 0) = B.idx
  BY <1>1, <1>2, <1>3, MovedUpNone
<1>5. Wider(B.hdr[h], 0) = B.hdr[h]
  BY <1>2, WiderTwice
<1>6. [B.hdr EXCEPT ![h] = B.hdr[h]] = B.hdr
  BY <1>1
<1>7. B.len + 0 = B.len
  BY <1>1
<1> QED
  BY <1>1, <1>3, <1>4, <1>5, <1>6, <1>7 DEF WidenedBy

LEMMA WidenedTwice ==
  ASSUME NEW B, ImageInv(B), NEW h \in DOMAIN B.hdr, NEW a \in Nat, NEW b \in Nat
  PROVE  WidenedBy(WidenedBy(B, h, a), h, b) = WidenedBy(B, h, a + b)
<1>1. /\ B.len \in Nat
      /\ B.hdr = [o \in DOMAIN B.hdr |-> B.hdr[o]] /\ DOMAIN B.hdr \subseteq Nat
      /\ B.str = [o \in DOMAIN B.str |-> B.str[o]] /\ DOMAIN B.str \subseteq Nat
      /\ B.idx = [o \in DOMAIN B.idx |-> B.idx[o]] /\ DOMAIN B.idx \subseteq Nat
  BY ImageRecord DEF ImageInv
<1>2. PICK at : at = bucket_indexes(B, h)
  OBVIOUS
<1>3. PICK T : T = WidenedBy(B, h, a)
  OBVIOUS
<1>4. PICK c : c = B.hdr[h]
  OBVIOUS
<1>5. PICK m : m = MovedUp(B.hdr, at, a)
  OBVIOUS
<1>6. /\ T.hdr[h] = Wider(c, a) /\ bucket_indexes(T, h) = at + a
      /\ at \in Nat /\ h \in Nat /\ h < at /\ h < at + a
  BY <1>2, <1>3, <1>4, WidenedFacts
<1>7. c \in Cell
  BY <1>4, CellFacts
<1>8. /\ T.len = B.len + a /\ T.vm = B.vm /\ T.hdr = [m EXCEPT ![h] = Wider(c, a)]
      /\ T.str = MovedUp(B.str, at, a) /\ T.idx = MovedUp(B.idx, at, a)
  BY <1>2, <1>3, <1>4, <1>5 DEF WidenedBy, Image
<1>9. /\ MovedUp(T.str, at + a, b) = MovedUp(B.str, at, a + b)
      /\ MovedUp(T.idx, at + a, b) = MovedUp(B.idx, at, a + b)
      /\ MovedUp(m, at + a, b) = MovedUp(B.hdr, at, a + b)
  BY <1>1, <1>5, <1>6, <1>8, MovedUpTwice
<1>10. h \in DOMAIN m
  BY <1>1, <1>5, <1>6, MovedUpSet
<1>11. m = [o \in DOMAIN m |-> m[o]] /\ DOMAIN m \subseteq Nat
  BY <1>1, <1>5, <1>6, MovedUpCells
<1>12. at + a \in Nat
  BY <1>6
<1>13. MovedUp(T.hdr, at + a, b) = [MovedUp(m, at + a, b) EXCEPT ![h] = Wider(c, a)]
  BY <1>6, <1>8, <1>10, <1>11, <1>12, MovedUpSet
<1>14. Wider(Wider(c, a), b) = Wider(c, a + b)
  BY <1>7, WiderTwice
<1>15. [MovedUp(T.hdr, at + a, b) EXCEPT ![h] = Wider(T.hdr[h], b)]
         = [MovedUp(B.hdr, at, a + b) EXCEPT ![h] = Wider(c, a + b)]
  BY <1>6, <1>9, <1>13, <1>14
<1>16. T.len + b = B.len + (a + b)
  BY <1>1, <1>8
<1> QED
  BY <1>2, <1>3, <1>4, <1>6, <1>8, <1>9, <1>15, <1>16 DEF WidenedBy

(* What each store makes of a file. *)
SetIn(f, h, field, v) == [f EXCEPT ![h] = [f[h] EXCEPT ![field] = v]]
NoCell(n) == [name |-> n, length |-> 0, mcount |-> 0, blen |-> 0, ioff |-> 0, sbytes |-> 0]
LEMMA ImageFields ==
  ASSUME NEW a, NEW b, NEW c, NEW d, NEW e, NEW f, NEW I, I = Image(a, b, c, d, e, f)
  PROVE  I.len = a /\ I.size = b /\ I.vm = c /\ I.hdr = d /\ I.str = e /\ I.idx = f
BY DEF Image

LEMMA ImageOpened ==
  ASSUME NEW a, NEW b, NEW c, NEW d, NEW e, NEW f, NEW I, I = Image(a, b, c, d, e, f),
         NEW h, NEW n
  PROVE  Opened(I, h, n) = Image(a, b, c, MovedUp(d, h, n), MovedUp(e, h, n), MovedUp(f, h, n))
<1>1. I.len = a /\ I.size = b /\ I.vm = c /\ I.hdr = d /\ I.str = e /\ I.idx = f
  BY ImageFields
<1>2. I \in [len : {a}, size : {b}, vm : {c}, hdr : {d}, str : {e}, idx : {f}]
  BY DEF Image
<1>3. PICK x, y, z : x = MovedUp(d, h, n) /\ y = MovedUp(e, h, n) /\ z = MovedUp(f, h, n)
  OBVIOUS
<1>4. PICK J : J = Opened(I, h, n)
  OBVIOUS
<1>5. J = [I EXCEPT !.hdr = x, !.str = y, !.idx = z]
  BY <1>1, <1>3, <1>4, Zenon DEF Opened
<1>6. J \in [len : {a}, size : {b}, vm : {c}, hdr : {x}, str : {y}, idx : {z}]
  BY <1>2, <1>5
<1>7. J = Image(J.len, J.size, J.vm, J.hdr, J.str, J.idx)
  BY <1>6 DEF Image
<1>8. J.len = a /\ J.size = b /\ J.vm = c /\ J.hdr = x /\ J.str = y /\ J.idx = z
  BY <1>6
<1> QED
  BY <1>3, <1>4, <1>7, <1>8

LEMMA ImageClosed ==
  ASSUME NEW a, NEW b, NEW c, NEW d, NEW e, NEW f, NEW I, I = Image(a, b, c, d, e, f),
         NEW h, NEW n
  PROVE  Closed(I, h, n) = Image(a, b, c, MovedDown(d, h, n, a), MovedDown(e, h, n, a),
                                 MovedDown(f, h, n, a))
<1>1. I.len = a /\ I.size = b /\ I.vm = c /\ I.hdr = d /\ I.str = e /\ I.idx = f
  BY ImageFields
<1>2. I \in [len : {a}, size : {b}, vm : {c}, hdr : {d}, str : {e}, idx : {f}]
  BY DEF Image
<1>3. PICK x, y, z : x = MovedDown(d, h, n, a) /\ y = MovedDown(e, h, n, a) /\ z = MovedDown(f, h, n, a)
  OBVIOUS
<1>4. PICK J : J = Closed(I, h, n)
  OBVIOUS
<1>5. J = [I EXCEPT !.hdr = x, !.str = y, !.idx = z]
  BY <1>1, <1>3, <1>4, Zenon DEF Closed
<1>6. J \in [len : {a}, size : {b}, vm : {c}, hdr : {x}, str : {y}, idx : {z}]
  BY <1>2, <1>5
<1>7. J = Image(J.len, J.size, J.vm, J.hdr, J.str, J.idx)
  BY <1>6 DEF Image
<1>8. J.len = a /\ J.size = b /\ J.vm = c /\ J.hdr = x /\ J.str = y /\ J.idx = z
  BY <1>6
<1> QED
  BY <1>3, <1>4, <1>7, <1>8

LEMMA ImageCut ==
  ASSUME NEW a, NEW b, NEW c, NEW d, NEW e, NEW f, NEW I, I = Image(a, b, c, d, e, f), NEW n
  PROVE  Cut(I, n) = Image(n, n, c, CutAt(d, n), CutAt(e, n), CutAt(f, n))
<1>1. I.len = a /\ I.size = b /\ I.vm = c /\ I.hdr = d /\ I.str = e /\ I.idx = f
  BY ImageFields
<1>2. I \in [len : {a}, size : {b}, vm : {c}, hdr : {d}, str : {e}, idx : {f}]
  BY DEF Image
<1>3. PICK x, y, z : x = CutAt(d, n) /\ y = CutAt(e, n) /\ z = CutAt(f, n)
  OBVIOUS
<1>4. PICK J : J = Cut(I, n)
  OBVIOUS
<1>5. J = [I EXCEPT !.len = n, !.size = n, !.hdr = x, !.str = y, !.idx = z]
  BY <1>1, <1>3, <1>4, Zenon DEF Cut
<1>6. J \in [len : {n}, size : {n}, vm : {c}, hdr : {x}, str : {y}, idx : {z}]
  BY <1>2, <1>5
<1>7. J = Image(J.len, J.size, J.vm, J.hdr, J.str, J.idx)
  BY <1>6 DEF Image
<1>8. J.len = n /\ J.size = n /\ J.vm = c /\ J.hdr = x /\ J.str = y /\ J.idx = z
  BY <1>6
<1> QED
  BY <1>3, <1>4, <1>7, <1>8

LEMMA StoreMade ==
  ASSUME Store, NEW s, s = Head(todo),
         NEW a, NEW b, NEW c, NEW d, NEW e, NEW f, img = Image(a, b, c, d, e, f)
  PROVE  /\ s.store = "size" => img' = Image(a, Max2(b, s.to), c, d, e, f)
         /\ s.store = "len" => img' = Image(s.to, b, c, d, e, f)
         /\ s.store = "cut" =>
              img' = Image(a, s.to, c, CutAt(d, s.to), CutAt(e, s.to), CutAt(f, s.to))
         /\ s.store = "tear" => img' = Image(a, b, c, d, e, f)
         /\ s.store = "up" => img' = Image(a, b, c, MovedUp(d, torn, s.to),
                                           MovedUp(e, torn, s.to), MovedUp(f, torn, s.to))
         /\ s.store = "down" =>
              img' = Image(a, b, c, MovedDown(d, torn, s.to, a), MovedDown(e, torn, s.to, a),
                           MovedDown(f, torn, s.to, a))
         /\ s.store = "magic" => img' = Image(a, b, c, Put(d, s.at, NoCell(s.v)), e, f)
         /\ s.store \in {"length", "mcount", "blen", "ioff", "sbytes"} =>
              img' = Image(a, b, c, SetIn(d, s.at, s.store, s.v), e, f)
         /\ s.store = "bmagic" => img' = Image(a, b, c, d, e, f)
         /\ s.store = "string" => img' = Image(a, b, c, d, Put(e, s.at, s.v), f)
         /\ s.store = "word" => img' = Image(a, b, c, d, e, Put(f, s.at, s.v))
<1>0. img.len = a /\ img.size = b /\ img.vm = c /\ img.hdr = d /\ img.str = e /\ img.idx = f
  BY ImageFields
<1>1. ASSUME s.store = "size" PROVE img' = Image(a, Max2(b, s.to), c, d, e, f)
  <2>1. img' = expand_fd(img, s.to)
    BY <1>1, StoreDone
  <2> QED
    BY <2>1 DEF Image, expand_fd
<1>2. ASSUME s.store = "len" PROVE img' = Image(s.to, b, c, d, e, f)
  <2>1. img' = [img EXCEPT !.len = s.to]
    BY <1>2, StoreDone
  <2> QED
    BY <2>1 DEF Image
<1>3. ASSUME s.store = "cut"
      PROVE  img' = Image(a, s.to, c, CutAt(d, s.to), CutAt(e, s.to), CutAt(f, s.to))
  <2>1. img' = [Cut(img, s.to) EXCEPT !.len = img.len]
    BY <1>3, StoreDone
  <2>2. Cut(img, s.to) = Image(s.to, s.to, c, CutAt(d, s.to), CutAt(e, s.to), CutAt(f, s.to))
    BY ImageCut
  <2> QED
    BY <1>0, <2>1, <2>2 DEF Image
<1>4. ASSUME s.store = "tear" PROVE img' = Image(a, b, c, d, e, f)
  <2>1. img' = img
    BY <1>4, StoreDone
  <2> QED
    BY <2>1
<1>5. ASSUME s.store = "up"
      PROVE  img' = Image(a, b, c, MovedUp(d, torn, s.to), MovedUp(e, torn, s.to), MovedUp(f, torn, s.to))
  <2>1. img' = Opened(img, torn, s.to)
    BY <1>5, StoreDone
  <2> QED
    BY <2>1, ImageOpened
<1>6. ASSUME s.store = "down"
      PROVE  img' = Image(a, b, c, MovedDown(d, torn, s.to, a), MovedDown(e, torn, s.to, a),
                          MovedDown(f, torn, s.to, a))
  <2>1. img' = Closed(img, torn, s.to)
    BY <1>6, StoreDone
  <2> QED
    BY <2>1, ImageClosed
<1>7. ASSUME s.store = "magic" PROVE img' = Image(a, b, c, Put(d, s.at, NoCell(s.v)), e, f)
  <2>1. img' = [img EXCEPT !.hdr = Put(@, s.at, NoCell(s.v))]
    BY <1>7, StoreDone DEF NoCell
  <2> QED
    BY <2>1 DEF Image
<1>8. ASSUME s.store \in {"length", "mcount", "blen", "ioff", "sbytes"}
      PROVE  img' = Image(a, b, c, SetIn(d, s.at, s.store, s.v), e, f)
  <2>1. img' = [img EXCEPT !.hdr[s.at][s.store] = s.v]
    BY <1>8, StoreDone
  <2>2. PICK h, y, v : h = s.at /\ y = s.store /\ v = s.v
    OBVIOUS
  <2>3. img' = [img EXCEPT !.hdr[h][y] = v]
    BY <2>1, <2>2
  <2>4. img' = Image(a, b, c, [d EXCEPT ![h] = [d[h] EXCEPT ![y] = v]], e, f)
    BY <2>3 DEF Image
  <2> QED
    BY <2>2, <2>4 DEF SetIn
<1>9. ASSUME s.store = "string" PROVE img' = Image(a, b, c, d, Put(e, s.at, s.v), f)
  <2>1. img' = [img EXCEPT !.str = Put(@, s.at, s.v)]
    BY <1>9, StoreDone
  <2> QED
    BY <2>1 DEF Image
<1>10. ASSUME s.store = "word" PROVE img' = Image(a, b, c, d, e, Put(f, s.at, s.v))
  <2>1. img' = [img EXCEPT !.idx = Put(@, s.at, s.v)]
    BY <1>10, StoreDone
  <2> QED
    BY <2>1 DEF Image
<1>11. ASSUME s.store = "bmagic" PROVE img' = Image(a, b, c, d, e, f)
  <2>1. img' = img
    BY <1>11, StoreDone
  <2> QED
    BY <2>1
<1> QED
  BY <1>1, <1>2, <1>3, <1>4, <1>5, <1>6, <1>7, <1>8, <1>9, <1>10, <1>11, Zenon

LEMMA PutAgain ==
  ASSUME NEW f, NEW at, NEW v
  PROVE  /\ Put(f, at, v)[at] = v
         /\ \A field, w : SetIn(Put(f, at, v), at, field, w) = Put(f, at, [v EXCEPT ![field] = w])
BY DEF Put, SetIn

LEMMA StartCells ==
  ASSUME NEW n
  PROVE  /\ StartCell(n, 3) = [name |-> Stored(n), length |-> 0, mcount |-> 0, blen |-> 0,
                               ioff |-> 0, sbytes |-> 0]
         /\ StartCell(n, 4) = [StartCell(n, 3) EXCEPT !["length"] = 272]
         /\ StartCell(n, 5) = [StartCell(n, 4) EXCEPT !["mcount"] = 0]
         /\ StartCell(n, 6) = StartCell(n, 5)
         /\ StartCell(n, 7) = [StartCell(n, 6) EXCEPT !["blen"] = 128]
         /\ StartCell(n, 8) = [StartCell(n, 7) EXCEPT !["ioff"] = 128]
         /\ StartCell(n, 9) = [StartCell(n, 8) EXCEPT !["sbytes"] = 0]
<1>1. StartCell(n, 3) = [name |-> Stored(n), length |-> 0, mcount |-> 0, blen |-> 0,
                         ioff |-> 0, sbytes |-> 0]
  BY DEF StartCell
<1>2. StartCell(n, 4) = [StartCell(n, 3) EXCEPT !["length"] = 272]
  BY DEF StartCell
<1>3. StartCell(n, 5) = [StartCell(n, 4) EXCEPT !["mcount"] = 0]
  BY DEF StartCell
<1>4. StartCell(n, 6) = StartCell(n, 5)
  BY DEF StartCell
<1>5. StartCell(n, 7) = [StartCell(n, 6) EXCEPT !["blen"] = 128]
  BY DEF StartCell
<1>6. StartCell(n, 8) = [StartCell(n, 7) EXCEPT !["ioff"] = 128]
  BY DEF StartCell
<1>7. StartCell(n, 9) = [StartCell(n, 8) EXCEPT !["sbytes"] = 0]
  BY DEF StartCell
<1> QED
  BY <1>1, <1>2, <1>3, <1>4, <1>5, <1>6, <1>7, Zenon

LEMMA StartImages ==
  ASSUME NEW B, NEW n
  PROVE  /\ StartImage(B, n, 0) = Image(B.len, B.len, B.vm, B.hdr, B.str, B.idx)
         /\ StartImage(B, n, 1) = Image(B.len, B.len + 272, B.vm, B.hdr, B.str, B.idx)
         /\ StartImage(B, n, 2) = Image(B.len + 272, B.len + 272, B.vm, B.hdr, B.str, B.idx)
         /\ StartImage(B, n, 3) = Image(B.len + 272, B.len + 272, B.vm, Put(B.hdr, B.len, StartCell(n, 3)), B.str, B.idx)
         /\ StartImage(B, n, 4) = Image(B.len + 272, B.len + 272, B.vm, Put(B.hdr, B.len, StartCell(n, 4)), B.str, B.idx)
         /\ StartImage(B, n, 5) = Image(B.len + 272, B.len + 272, B.vm, Put(B.hdr, B.len, StartCell(n, 5)), B.str, B.idx)
         /\ StartImage(B, n, 6) = Image(B.len + 272, B.len + 272, B.vm, Put(B.hdr, B.len, StartCell(n, 6)), B.str, B.idx)
         /\ StartImage(B, n, 7) = Image(B.len + 272, B.len + 272, B.vm, Put(B.hdr, B.len, StartCell(n, 7)), B.str, B.idx)
         /\ StartImage(B, n, 8) = Image(B.len + 272, B.len + 272, B.vm, Put(B.hdr, B.len, StartCell(n, 8)), B.str, B.idx)
         /\ StartImage(B, n, 9) = Image(B.len + 272, B.len + 272, B.vm, Put(B.hdr, B.len, StartCell(n, 9)), B.str, B.idx)
<1>0. StartImage(B, n, 0) = Image(B.len, B.len, B.vm, B.hdr, B.str, B.idx)
  BY DEF StartImage
<1>1. StartImage(B, n, 1) = Image(B.len, B.len + 272, B.vm, B.hdr, B.str, B.idx)
  BY DEF StartImage
<1>2. StartImage(B, n, 2) = Image(B.len + 272, B.len + 272, B.vm, B.hdr, B.str, B.idx)
  BY DEF StartImage
<1>3. StartImage(B, n, 3) = Image(B.len + 272, B.len + 272, B.vm, Put(B.hdr, B.len, StartCell(n, 3)), B.str, B.idx)
  BY DEF StartImage
<1>4. StartImage(B, n, 4) = Image(B.len + 272, B.len + 272, B.vm, Put(B.hdr, B.len, StartCell(n, 4)), B.str, B.idx)
  BY DEF StartImage
<1>5. StartImage(B, n, 5) = Image(B.len + 272, B.len + 272, B.vm, Put(B.hdr, B.len, StartCell(n, 5)), B.str, B.idx)
  BY DEF StartImage
<1>6. StartImage(B, n, 6) = Image(B.len + 272, B.len + 272, B.vm, Put(B.hdr, B.len, StartCell(n, 6)), B.str, B.idx)
  BY DEF StartImage
<1>7. StartImage(B, n, 7) = Image(B.len + 272, B.len + 272, B.vm, Put(B.hdr, B.len, StartCell(n, 7)), B.str, B.idx)
  BY DEF StartImage
<1>8. StartImage(B, n, 8) = Image(B.len + 272, B.len + 272, B.vm, Put(B.hdr, B.len, StartCell(n, 8)), B.str, B.idx)
  BY DEF StartImage
<1>9. StartImage(B, n, 9) = Image(B.len + 272, B.len + 272, B.vm, Put(B.hdr, B.len, StartCell(n, 9)), B.str, B.idx)
  BY DEF StartImage
<1> QED
  BY <1>0, <1>1, <1>2, <1>3, <1>4, <1>5, <1>6, <1>7, <1>8, <1>9, Zenon

LEMMA StartNext ==
  ASSUME NEW k \in 0 .. 8, Starting(k), base.len \in Nat, Store
  PROVE  Starting(k + 1)'
<1> DEFINE n == cmd.name
<1>1. PICK s : s = StartStores(base, n)
  OBVIOUS
<1>2. /\ OfLength(s, 9)
      /\ s[1] = ToFile("size", base.len + 272) /\ s[2] = ToFile("len", base.len + 272)
      /\ s[3] = ToPlaylist("magic", base.len, Stored(n)) /\ s[4] = ToPlaylist("length", base.len, 272)
      /\ s[5] = ToPlaylist("mcount", base.len, 0) /\ s[6] = ToPlaylist("bmagic", base.len, BucketMagic)
      /\ s[7] = ToPlaylist("blen", base.len, 128) /\ s[8] = ToPlaylist("ioff", base.len, 128)
      /\ s[9] = ToPlaylist("sbytes", base.len, 0)
  BY <1>1, StartElems
<1>3. todo = From(s, k) /\ torn = 0 /\ img = StartImage(base, n, k)
  BY <1>1 DEF Starting
<1>9. k \in 0 .. 8
  OBVIOUS
<1>10. k \in Nat /\ k < 9 /\ 9 \in Nat
  BY ONLY <1>9
<1>11. k = 0 \/ k = 1 \/ k = 2 \/ k = 3 \/ k = 4 \/ k = 5 \/ k = 6 \/ k = 7 \/ k = 8
  BY ONLY <1>9
<1>4. Head(todo) = s[k + 1] /\ Tail(todo) = From(s, k + 1)
  <2>1. OfLength(s, 9)
    BY <1>2
  <2>2. Comes(s, k)
    BY <1>10, <2>1, OneStore
  <2> QED
    BY <1>3, <2>2 DEF Comes
<1>5. PICK e : e = s[k + 1]
  OBVIOUS
<1>6. e.store \in {"size", "len", "magic", "length", "mcount", "bmagic", "blen", "ioff", "sbytes"}
  <2>1. \/ e = s[1] \/ e = s[2] \/ e = s[3] \/ e = s[4] \/ e = s[5] \/ e = s[6] \/ e = s[7] \/ e = s[8] \/ e = s[9]
    BY <1>5, <1>11
  <2> QED
    BY <1>2, <2>1 DEF ToFile, ToPlaylist
<1>7. /\ then' = then /\ cmd' = cmd /\ base' = base /\ edge' = edge
      /\ todo' = From(s, k + 1) /\ torn' = 0
  BY <1>3, <1>4, <1>5, <1>6, StoreDone
<1>8. img' = StartImage(base, n, k + 1)
  <2>1. CASE k = 0
    <3>1. e.store = "size" /\ e.to = base.len + 272
      BY <1>2, <1>5, <2>1 DEF ToFile, ToPlaylist
    <3>2. img = Image(base.len, base.len, base.vm,
                      base.hdr, base.str, base.idx)
      BY <1>3, <2>1, StartImages
    <3>3. Max2(base.len, base.len + 272) = base.len + 272
      BY DEF Max2
    <3>4. img' = Image(base.len, base.len + 272, base.vm,
                      base.hdr, base.str, base.idx)
      BY <1>4, <1>5, <3>1, <3>2, <3>3, StoreMade, SMTT(30)
    <3> QED
      BY <2>1, <3>4, StartImages
  <2>2. CASE k = 1
    <3>1. e.store = "len" /\ e.to = base.len + 272
      BY <1>2, <1>5, <2>2 DEF ToFile, ToPlaylist
    <3>2. img = Image(base.len, base.len + 272, base.vm,
                      base.hdr, base.str, base.idx)
      BY <1>3, <2>2, StartImages
    <3>3. e.to = base.len + 272
      BY <3>1
    <3>4. img' = Image(base.len + 272, base.len + 272, base.vm,
                      base.hdr, base.str, base.idx)
      BY <1>4, <1>5, <3>1, <3>2, <3>3, StoreMade, SMTT(30)
    <3> QED
      BY <2>2, <3>4, StartImages
  <2>3. CASE k = 2
    <3>1. e.store = "magic" /\ e.at = base.len /\ e.v = Stored(n)
      BY <1>2, <1>5, <2>3 DEF ToFile, ToPlaylist
    <3>2. img = Image(base.len + 272, base.len + 272, base.vm,
                      base.hdr, base.str, base.idx)
      BY <1>3, <2>3, StartImages
    <3>3. NoCell(Stored(n)) = StartCell(n, 3)
      BY StartCells DEF NoCell
    <3>4. img' = Image(base.len + 272, base.len + 272, base.vm,
                      Put(base.hdr, base.len, StartCell(n, 3)), base.str, base.idx)
      BY <1>4, <1>5, <3>1, <3>2, <3>3, StoreMade
    <3> QED
      BY <2>3, <3>4, StartImages
  <2>4. CASE k = 3
    <3>1. e.store = "length" /\ e.at = base.len /\ e.v = 272
      BY <1>2, <1>5, <2>4 DEF ToFile, ToPlaylist
    <3>2. img = Image(base.len + 272, base.len + 272, base.vm,
                      Put(base.hdr, base.len, StartCell(n, 3)), base.str, base.idx)
      BY <1>3, <2>4, StartImages
    <3>3. SetIn(Put(base.hdr, base.len, StartCell(n, 3)), base.len, "length", 272)
            = Put(base.hdr, base.len, StartCell(n, 4))
      BY PutAgain, StartCells
    <3>4. img' = Image(base.len + 272, base.len + 272, base.vm,
                      Put(base.hdr, base.len, StartCell(n, 4)), base.str, base.idx)
      BY <1>4, <1>5, <3>1, <3>2, <3>3, StoreMade
    <3> QED
      BY <2>4, <3>4, StartImages
  <2>5. CASE k = 4
    <3>1. e.store = "mcount" /\ e.at = base.len /\ e.v = 0
      BY <1>2, <1>5, <2>5 DEF ToFile, ToPlaylist
    <3>2. img = Image(base.len + 272, base.len + 272, base.vm,
                      Put(base.hdr, base.len, StartCell(n, 4)), base.str, base.idx)
      BY <1>3, <2>5, StartImages
    <3>3. SetIn(Put(base.hdr, base.len, StartCell(n, 4)), base.len, "mcount", 0)
            = Put(base.hdr, base.len, StartCell(n, 5))
      BY PutAgain, StartCells
    <3>4. img' = Image(base.len + 272, base.len + 272, base.vm,
                      Put(base.hdr, base.len, StartCell(n, 5)), base.str, base.idx)
      BY <1>4, <1>5, <3>1, <3>2, <3>3, StoreMade
    <3> QED
      BY <2>5, <3>4, StartImages
  <2>6. CASE k = 5
    <3>1. e.store = "bmagic" /\ e.at = base.len
      BY <1>2, <1>5, <2>6 DEF ToFile, ToPlaylist
    <3>2. img = Image(base.len + 272, base.len + 272, base.vm,
                      Put(base.hdr, base.len, StartCell(n, 5)), base.str, base.idx)
      BY <1>3, <2>6, StartImages
    <3>3. StartCell(n, 6) = StartCell(n, 5)
      BY StartCells
    <3>4. img' = img
      BY <1>4, <1>5, <3>1, StoreDone
    <3>5. img' = Image(base.len + 272, base.len + 272, base.vm,
                      Put(base.hdr, base.len, StartCell(n, 6)), base.str, base.idx)
      BY <3>2, <3>3, <3>4
    <3> QED
      BY <2>6, <3>5, StartImages
  <2>7. CASE k = 6
    <3>1. e.store = "blen" /\ e.at = base.len /\ e.v = 128
      BY <1>2, <1>5, <2>7 DEF ToFile, ToPlaylist
    <3>2. img = Image(base.len + 272, base.len + 272, base.vm,
                      Put(base.hdr, base.len, StartCell(n, 6)), base.str, base.idx)
      BY <1>3, <2>7, StartImages
    <3>3. SetIn(Put(base.hdr, base.len, StartCell(n, 6)), base.len, "blen", 128)
            = Put(base.hdr, base.len, StartCell(n, 7))
      BY PutAgain, StartCells
    <3>4. img' = Image(base.len + 272, base.len + 272, base.vm,
                      Put(base.hdr, base.len, StartCell(n, 7)), base.str, base.idx)
      BY <1>4, <1>5, <3>1, <3>2, <3>3, StoreMade
    <3> QED
      BY <2>7, <3>4, StartImages
  <2>8. CASE k = 7
    <3>1. e.store = "ioff" /\ e.at = base.len /\ e.v = 128
      BY <1>2, <1>5, <2>8 DEF ToFile, ToPlaylist
    <3>2. img = Image(base.len + 272, base.len + 272, base.vm,
                      Put(base.hdr, base.len, StartCell(n, 7)), base.str, base.idx)
      BY <1>3, <2>8, StartImages
    <3>3. SetIn(Put(base.hdr, base.len, StartCell(n, 7)), base.len, "ioff", 128)
            = Put(base.hdr, base.len, StartCell(n, 8))
      BY PutAgain, StartCells
    <3>4. img' = Image(base.len + 272, base.len + 272, base.vm,
                      Put(base.hdr, base.len, StartCell(n, 8)), base.str, base.idx)
      BY <1>4, <1>5, <3>1, <3>2, <3>3, StoreMade
    <3> QED
      BY <2>8, <3>4, StartImages
  <2>9. CASE k = 8
    <3>1. e.store = "sbytes" /\ e.at = base.len /\ e.v = 0
      BY <1>2, <1>5, <2>9 DEF ToFile, ToPlaylist
    <3>2. img = Image(base.len + 272, base.len + 272, base.vm,
                      Put(base.hdr, base.len, StartCell(n, 8)), base.str, base.idx)
      BY <1>3, <2>9, StartImages
    <3>3. SetIn(Put(base.hdr, base.len, StartCell(n, 8)), base.len, "sbytes", 0)
            = Put(base.hdr, base.len, StartCell(n, 9))
      BY PutAgain, StartCells
    <3>4. img' = Image(base.len + 272, base.len + 272, base.vm,
                      Put(base.hdr, base.len, StartCell(n, 9)), base.str, base.idx)
      BY <1>4, <1>5, <3>1, <3>2, <3>3, StoreMade
    <3> QED
      BY <2>9, <3>4, StartImages
  <2> QED
    BY <1>11, <2>1, <2>2, <2>3, <2>4, <2>5, <2>6, <2>7, <2>8, <2>9
<1> QED
  BY <1>1, <1>7, <1>8 DEF Starting

-----------------------------------------------------------------------------
(* Room made in a file of which no more is mapped than it has: nothing     *)
(* fails, and the outcome is the wider file.                               *)
LEMMA ImageSet ==
  ASSUME NEW a, NEW b, NEW c, NEW d, NEW e, NEW f, NEW I, I = Image(a, b, c, d, e, f),
         NEW h, NEW w
  PROVE  SetCell(I, h, w) = Image(a, b, c, [d EXCEPT ![h] = w], e, f)
BY DEF SetCell, Image

LEMMA ImageMapped ==
  ASSUME NEW a, NEW b, NEW c, NEW d, NEW e, NEW f, NEW I, I = Image(a, b, c, d, e, f)
  PROVE  Mapped(I) = Image(a, b, Pages(a), d, e, f)
BY DEF Mapped, Image

LEMMA ExpandMapped ==
  ASSUME NEW a, NEW b, NEW c, NEW d, NEW e, NEW f, NEW I, I = Image(a, b, c, d, e, f),
         ~ Leftover(I), NEW newlen, ~ newlen <= a
  PROVE  Result("ok", Image(newlen, Max2(b, newlen), Max2(c, Pages(newlen)), d, e, f))
           \in library_expand(I, newlen)
<1>1. I.len = a /\ I.vm = c
  BY ImageFields
<1>2. PICK vm : vm = Max2(c, Pages(newlen))
  OBVIOUS
<1>3. PICK J : J = [expand_fd(I, newlen) EXCEPT !.len = newlen, !.vm = vm]
  OBVIOUS
<1>4. J = Image(newlen, Max2(b, newlen), vm, d, e, f)
  <2>1. PICK x : x = Max2(b, newlen)
    OBVIOUS
  <2>2. PICK G : G = expand_fd(I, newlen)
    OBVIOUS
  <2>3. G = Image(a, x, c, d, e, f)
    BY <2>1, <2>2 DEF expand_fd, Image
  <2>4. PICK K : K = [G EXCEPT !.len = newlen]
    OBVIOUS
  <2>5. K = Image(newlen, x, c, d, e, f)
    BY <2>3, <2>4 DEF Image
  <2>6. J = [K EXCEPT !.vm = vm]
    BY <1>3, <2>2, <2>4
  <2>7. J = Image(newlen, x, vm, d, e, f)
    BY <2>5, <2>6 DEF Image
  <2> QED
    BY <2>1, <2>7
<1>5. "move" \notin Faults
  BY CrashAssumption
<1>6. Result("ok", J) \in library_expand(I, newlen)
  BY <1>1, <1>2, <1>3, <1>5, Zenon DEF library_expand
<1> QED
  BY <1>2, <1>4, <1>6

LEMMA WidenMapped ==
  ASSUME NEW a, NEW b, NEW c, NEW d, NEW e, NEW f, NEW I, I = Image(a, b, c, d, e, f),
         ~ Leftover(I), NEW h, NEW m, NEW newlen, newlen = Add32(a, m), ~ newlen <= a,
         NEW at, at = bucket_indexes(I, h)
  PROVE  Result("ok", Image(newlen, Max2(b, newlen), Max2(c, Pages(newlen)),
                            [MovedUp(d, at, m) EXCEPT ![h] = Wider(MovedUp(d, at, m)[h], m)],
                            MovedUp(e, at, m), MovedUp(f, at, m)))
           \in bucket_expand(I, h, m)
<1>1. I.len = a
  BY ImageFields
<1>2. PICK x, y, z : x = newlen /\ y = Max2(b, newlen) /\ z = Max2(c, Pages(newlen))
  OBVIOUS
<1>3. PICK q : q = Result("ok", Image(x, y, z, d, e, f))
  OBVIOUS
<1>4. q \in library_expand(I, Add32(I.len, m))
  BY <1>1, <1>2, <1>3, ExpandMapped
<1>5. q.st = "ok" /\ q.img = Image(x, y, z, d, e, f)
  BY <1>3 DEF Result
<1>6. PICK hdr, str, idx : hdr = MovedUp(d, at, m) /\ str = MovedUp(e, at, m) /\ idx = MovedUp(f, at, m)
  OBVIOUS
<1>7. Opened(q.img, at, m) = Image(x, y, z, hdr, str, idx)
  BY <1>5, <1>6, ImageOpened
<1>8. PICK r : r = Result("ok", Image(x, y, z, hdr, str, idx))
  OBVIOUS
<1>9. r \in library_insert_space(I, at, m)
  <2>1. r = IF q.st \in {"ok", "moved"} THEN Result(q.st, Opened(q.img, at, m)) ELSE q
    BY <1>5, <1>7, <1>8
  <2> QED
    BY <1>4, <2>1, Zenon DEF library_insert_space
<1>10. r.st = "ok" /\ r.img = Image(x, y, z, hdr, str, idx)
  BY <1>8 DEF Result
<1>11. r.img.hdr = hdr
  BY <1>10, ImageFields
<1>12. PICK w : w = Wider(hdr[h], m)
  OBVIOUS
<1>13. SetCell(r.img, h, w) = Image(x, y, z, [hdr EXCEPT ![h] = w], str, idx)
  BY <1>10, ImageSet
<1>14. PICK s : s = Result("ok", Image(x, y, z, [hdr EXCEPT ![h] = w], str, idx))
  OBVIOUS
<1>15. s \in bucket_expand(I, h, m)
  <2>1. s = IF r.st \in {"ok", "moved"}
            THEN Result(r.st, SetCell(r.img, h, Wider(r.img.hdr[h], m))) ELSE r
    BY <1>10, <1>11, <1>12, <1>13, <1>14
  <2>2. r \in library_insert_space(I, bucket_indexes(I, h), m)
    BY <1>9
  <2> QED
    BY <2>1, <2>2, Zenon DEF bucket_expand
<1> QED
  BY <1>2, <1>6, <1>12, <1>14, <1>15

LEMMA ImageInvLike ==
  ASSUME NEW I, ImageInv(I), NEW b \in Nat, I.len <= b, NEW c \in Int,
         NEW J, J = Image(I.len, b, c, I.hdr, I.str, I.idx)
  PROVE  ImageInv(J)
<1>1. /\ J.len = I.len /\ J.size = b /\ J.vm = c
      /\ J.hdr = I.hdr /\ J.str = I.str /\ J.idx = I.idx
  BY ImageFields
<1>2. I.len \in Nat /\ I.hdr \in [DOMAIN I.hdr -> Cell]
      /\ I.str \in [DOMAIN I.str -> Paths] /\ I.idx \in [DOMAIN I.idx -> Nat]
      /\ DOMAIN I.hdr \cup DOMAIN I.str \cup DOMAIN I.idx \subseteq Nat
  BY DEF ImageInv, ImageTyped
<1>3. ImageTyped(J)
  <2>1. J \in [len : Nat, size : Nat, vm : Int, hdr : [DOMAIN I.hdr -> Cell],
               str : [DOMAIN I.str -> Paths], idx : [DOMAIN I.idx -> Nat]]
    BY <1>2 DEF Image
  <2> QED
    BY <1>1, <1>2, <2>1 DEF ImageTyped
<1>4. SlotsFilled(J)
  BY <1>1, SameSlots DEF ImageInv, SlotsFilled
<1> QED
  BY <1>1, <1>3, <1>4 DEF ImageInv, CellsFit, CellFits, Disjoint

LEMMA MappedFacts ==
  ASSUME NEW I, ImageInv(I), NEW M, M = Mapped(I)
  PROVE  /\ M = Image(I.len, I.size, Pages(I.len), I.hdr, I.str, I.idx)
         /\ M.len = I.len /\ M.size = I.size /\ M.hdr = I.hdr /\ M.str = I.str /\ M.idx = I.idx
         /\ ImageInv(M) /\ ~ Leftover(M)
<1>1. I = Image(I.len, I.size, I.vm, I.hdr, I.str, I.idx) /\ I.len \in Nat
  BY ImageRecord DEF ImageInv
<1>2. M = Image(I.len, I.size, Pages(I.len), I.hdr, I.str, I.idx)
  BY <1>1, ImageMapped
<1>3. /\ M.len = I.len /\ M.size = I.size /\ M.vm = Pages(I.len)
      /\ M.hdr = I.hdr /\ M.str = I.str /\ M.idx = I.idx
  BY <1>2, ImageFields
<1>4. Pages(I.len) \in Int
  BY <1>1, PagesInt
<1>5. ~ Leftover(M)
  BY <1>3, <1>4 DEF Leftover
<1>6. ImageInv(M)
  BY <1>4, RemappedSafe DEF Mapped
<1> QED
  BY <1>2, <1>3, <1>5, <1>6

LEMMA GrownLike ==
  ASSUME NEW I, NEW J, NEW h, NEW n, Grown(I, J, h, n),
         NEW K, K.len = I.len, K.hdr = I.hdr, K.str = I.str, K.idx = I.idx,
         NEW L, L.len = J.len, L.hdr = J.hdr, L.str = J.str, L.idx = J.idx
  PROVE  Grown(K, L, h, n)
<1>1. ASSUME NEW k, NEW g, Kept(I, k, J, g) PROVE Kept(K, k, L, g)
  BY <1>1 DEF Kept, bucket_nr_indexes, bucket_index, bucket_indexes
<1> QED
  BY <1>1 DEF Grown

LEMMA WidenedGrown ==
  ASSUME NEW B, ImageInv(B), B.size = B.len, NEW h \in DOMAIN B.hdr, NEW m \in Nat,
         B.len + m < U32, NEW T, T = WidenedBy(B, h, m)
  PROVE  ImageInv(T) /\ Grown(B, T, h, m)
<1>1. CASE m = 0
  <2>1. T = B
    BY <1>1, WidenedNone
  <2>2. Grown(B, B, h, 0)
    BY GrownNone
  <2> QED
    BY <1>1, <2>1, <2>2
<1>2. CASE m > 0
  <2>1. PICK at, M : at = bucket_indexes(B, h) /\ M = Mapped(B)
    OBVIOUS
  <2>2. /\ M = Image(B.len, B.size, Pages(B.len), B.hdr, B.str, B.idx)
        /\ M.len = B.len /\ M.hdr = B.hdr /\ M.str = B.str /\ M.idx = B.idx
        /\ ImageInv(M) /\ ~ Leftover(M)
    BY <2>1, MappedFacts
  <2>3. at = bucket_indexes(M, h) /\ h \in DOMAIN M.hdr
    BY <2>1, <2>2 DEF bucket_indexes
  <2>4. /\ B.len \in Nat /\ B.vm \in Int
        /\ B.hdr = [o \in DOMAIN B.hdr |-> B.hdr[o]] /\ DOMAIN B.hdr \subseteq Nat
    BY ImageRecord DEF ImageInv, ImageTyped
  <2>5. U32 \in Nat /\ m < U32
    BY <2>4, SizesAssumption
  <2>6. PICK newlen : newlen = B.len + m
    OBVIOUS
  <2>7. newlen = Add32(B.len, m) /\ ~ newlen <= B.len /\ newlen \in Nat
    BY <1>2, <2>4, <2>6 DEF Add32
  <2>8. PICK hdr, str, idx :
          /\ hdr = [MovedUp(B.hdr, at, m) EXCEPT ![h] = Wider(MovedUp(B.hdr, at, m)[h], m)]
          /\ str = MovedUp(B.str, at, m) /\ idx = MovedUp(B.idx, at, m)
    OBVIOUS
  <2>9. PICK X : X = Image(newlen, Max2(B.size, newlen), Max2(Pages(B.len), Pages(newlen)), hdr, str, idx)
    OBVIOUS
  <2>10. Result("ok", X) \in bucket_expand(M, h, m)
    BY <2>2, <2>3, <2>7, <2>8, <2>9, WidenMapped
  <2>11. PICK r : r = Result("ok", X)
    OBVIOUS
  <2>12. r \in bucket_expand(M, h, m) /\ r.st = "ok" /\ r.img = X
    BY <2>10, <2>11 DEF Result
  <2>13. ImageInv(X)
    BY <2>2, <2>3, <2>5, <2>12, BucketExpandSafe
  <2>14. Grown(M, X, h, m)
    <3>1. \/ r.st \in {"refused", "unmapped"} /\ Grown(M, r.img, h, 0)
          \/ r.st \in {"ok", "moved"} /\ Grown(M, r.img, h, m)
      BY <2>2, <2>3, <2>5, <2>12, BucketExpandKeeps
    <3> QED
      BY <2>12, <3>1
  <2>15. at \in Nat /\ h \in Nat /\ h < at
    BY <2>1, CellFacts, Regions
  <2>16. MovedUp(B.hdr, at, m)[h] = B.hdr[h]
    <3>1. \A o \in DOMAIN B.hdr :
            IF o < at THEN o \in DOMAIN MovedUp(B.hdr, at, m) /\ MovedUp(B.hdr, at, m)[o] = B.hdr[o]
                      ELSE o + m \in DOMAIN MovedUp(B.hdr, at, m) /\ MovedUp(B.hdr, at, m)[o + m] = B.hdr[o]
      BY <2>4, <2>15, MovedUpKeeps
    <3> QED
      BY <2>15, <3>1
  <2>17. T = Image(newlen, newlen, B.vm, hdr, str, idx)
    BY <2>1, <2>6, <2>8, <2>16 DEF WidenedBy
  <2>18. /\ T.len = newlen /\ T.hdr = hdr /\ T.str = str /\ T.idx = idx
    BY <2>17, ImageFields
  <2>19. X.len = newlen /\ X.hdr = hdr /\ X.str = str /\ X.idx = idx
    BY <2>9, ImageFields
  <2>20. ImageInv(T)
    BY <2>4, <2>7, <2>13, <2>17, <2>19, ImageInvLike
  <2> QED
    BY <2>2, <2>14, <2>18, <2>19, <2>20, GrownLike
<1> QED
  BY <1>1, <1>2

LEMMA KeptWords ==
  ASSUME NEW I, NEW h, NEW J, NEW g, Kept(I, h, J, g)
  PROVE  Words(J, g) = Words(I, h)
<1>1. /\ bucket_nr_indexes(J, g) = bucket_nr_indexes(I, h)
      /\ \A i \in 0 .. bucket_nr_indexes(I, h) - 1 : bucket_index(J, g, i) = bucket_index(I, h, i)
  BY DEF Kept
<1> QED
  BY <1>1, WordsByIndex

LEMMA KeptBegun ==
  ASSUME NEW I, NEW h, Begun(I, h), NEW J, NEW g, Kept(I, h, J, g),
         Strings(g) \in DOMAIN J.str => Strings(h) \in DOMAIN I.str
  PROVE  Begun(J, g)
<1>1. Words(J, g) = Words(I, h)
  BY KeptWords
<1>2. J.hdr[g].sbytes = I.hdr[h].sbytes
  BY DEF Kept
<1> QED
  BY <1>1, <1>2 DEF Begun

LEMMA WidenedSound ==
  ASSUME NEW B, Sound(B), NEW h \in DOMAIN B.hdr, NEW m \in Nat, B.len + m < U32,
         NEW T, T = WidenedBy(B, h, m)
  PROVE  Sound(T) /\ Grown(B, T, h, m)
<1>1. ImageInv(B) /\ B.size = B.len /\ AllSound(B) /\ Chained(B) /\ Tidy(B)
  BY DEF Sound
<1>2. ImageInv(T) /\ Grown(B, T, h, m)
  BY <1>1, WidenedGrown
<1>3. AllSound(T)
  BY <1>1, <1>2, GrownSound
<1>4. Chained(T)
  BY <1>1, <1>2, GrownChain
<1>5. PICK at : at = bucket_indexes(B, h)
  OBVIOUS
<1>6. /\ T.len = B.len + m /\ T.size = B.len + m
      /\ T.str = MovedUp(B.str, at, m) /\ T.idx = MovedUp(B.idx, at, m)
  BY <1>5 DEF WidenedBy, Image
<1>7. at \in Nat /\ h \in Nat /\ at = h + 128 + B.hdr[h].ioff /\ h + 144 < at /\ B.len \in Nat
      /\ at <= h + B.hdr[h].length /\ at <= B.len
  <2>1. /\ h \in Nat /\ B.len \in Nat /\ h + B.hdr[h].length <= B.len
        /\ B.hdr[h].length = B.hdr[h].blen + 144
        /\ 16 + B.hdr[h].sbytes < B.hdr[h].ioff /\ B.hdr[h].ioff <= B.hdr[h].blen
        /\ B.hdr[h].blen \in Nat /\ B.hdr[h].ioff \in Nat /\ B.hdr[h].sbytes \in Nat
    BY <1>1, CellFacts
  <2>2. at = h + 128 + B.hdr[h].ioff
    BY <1>1, <1>5, Regions
  <2> QED
    BY <2>1, <2>2
<1>8. /\ B.str = [o \in DOMAIN B.str |-> B.str[o]] /\ DOMAIN B.str \subseteq Nat
      /\ B.idx = [o \in DOMAIN B.idx |-> B.idx[o]] /\ DOMAIN B.idx \subseteq Nat
  BY <1>1, ImageRecord DEF ImageInv
<1>9. /\ DOMAIN T.str \subseteq Nat
      /\ \A o \in DOMAIN T.str : o < at => o \in DOMAIN B.str /\ T.str[o] = B.str[o]
      /\ \A o \in DOMAIN T.str : o >= at => o - m >= at /\ o - m \in DOMAIN B.str /\ T.str[o] = B.str[o - m]
  <2>1. at \in Nat
    BY <1>7
  <2> QED
    BY <1>6, <1>8, <2>1, MovedUpCells
<1>10. /\ DOMAIN T.idx \subseteq Nat
       /\ \A o \in DOMAIN T.idx : o < at => o \in DOMAIN B.idx /\ T.idx[o] = B.idx[o]
       /\ \A o \in DOMAIN T.idx : o >= at => o - m >= at /\ o - m \in DOMAIN B.idx /\ T.idx[o] = B.idx[o - m]
  <2>1. at \in Nat
    BY <1>7
  <2> QED
    BY <1>6, <1>8, <2>1, MovedUpCells
<1>11. Tidy(T)
  <2>1. ASSUME NEW o \in DOMAIN T.str PROVE o < T.len
    <3>1. CASE o < at
      <4>1. o \in Nat
        BY <1>9
      <4> QED
        BY <1>6, <1>7, <3>1, <4>1
    <3>2. CASE ~ o < at
      <4>0. o >= at
        BY <1>7, <1>9, <3>2
      <4>1. o - m \in DOMAIN B.str
        BY <1>9, <4>0
      <4>2. o - m < B.len
        BY <1>1, <4>1 DEF Tidy
      <4> QED
        BY <1>6, <1>7, <1>9, <4>2
    <3> QED
      BY <3>1, <3>2
  <2>2. ASSUME NEW o \in DOMAIN T.idx PROVE o < T.len
    <3>1. CASE o < at
      <4>1. o \in Nat
        BY <1>10
      <4> QED
        BY <1>6, <1>7, <3>1, <4>1
    <3>2. CASE ~ o < at
      <4>0. o >= at
        BY <1>7, <1>10, <3>2
      <4>1. o - m \in DOMAIN B.idx
        BY <1>10, <4>0
      <4>2. o - m < B.len
        BY <1>1, <4>1 DEF Tidy
      <4> QED
        BY <1>6, <1>7, <1>10, <4>2
    <3> QED
      BY <3>1, <3>2
  <2> QED
    BY <2>1, <2>2 DEF Tidy
<1>12. ASSUME NEW g \in DOMAIN T.hdr PROVE Begun(T, g)
  <2>1. PICK k \in DOMAIN B.hdr : g = MovedTo(h, m, k)
    BY <1>2 DEF Grown
  <2>2. Kept(B, k, T, g) /\ Begun(B, k)
    BY <1>2, <2>1 DEF Grown, Sound
  <2>3. k \in Nat /\ Strings(k) = k + 144 /\ Strings(g) = g + 144
    BY <1>1, CellFacts, LayoutConstants DEF Strings
  <2>4. ASSUME Strings(g) \in DOMAIN T.str PROVE Strings(k) \in DOMAIN B.str
    <3>1. CASE k <= h
      <4>1. g = k
        BY <2>1, <3>1 DEF MovedTo
      <4>2. Strings(g) < at
        BY <1>7, <2>3, <3>1, <4>1
      <4> QED
        BY <1>9, <2>3, <2>4, <4>1, <4>2
    <3>2. CASE ~ k <= h
      <4>1. g = k + m
        BY <2>1, <3>2 DEF MovedTo
      <4>2. h + B.hdr[h].length <= k
        BY <1>1, <1>7, <2>3, <3>2 DEF ImageInv, Disjoint
      <4>3. B.hdr[h].length \in Nat
        BY <1>1, CellFacts
      <4>4. Strings(g) >= at /\ Strings(g) - m = Strings(k)
        BY <1>7, <2>3, <4>1, <4>2, <4>3
      <4> QED
        BY <1>9, <2>4, <4>4
    <3> QED
      BY <3>1, <3>2
  <2> QED
    BY <2>2, <2>4, KeptBegun
<1> QED
  BY <1>2, <1>3, <1>4, <1>6, <1>11, <1>12 DEF Sound

-----------------------------------------------------------------------------
(* One turn of the restart loop, store by store. *)
LEMMA TurnCells ==
  ASSUME NEW c \in Cell
  PROVE  /\ \A k \in 0 .. 4 : TurnCell(c, k) = c
         /\ TurnCell(c, 5) = [TurnCell(c, 4) EXCEPT !["blen"] = c.blen + 128]
         /\ TurnCell(c, 6) = [TurnCell(c, 5) EXCEPT !["ioff"] = c.ioff + 128]
         /\ TurnCell(c, 7) = [TurnCell(c, 6) EXCEPT !["length"] = c.length + 128]
         /\ TurnCell(c, 7) = Wider(c, 128)
<1>1. /\ c = [name |-> c.name, length |-> c.length, mcount |-> c.mcount,
             blen |-> c.blen, ioff |-> c.ioff, sbytes |-> c.sbytes]
      /\ c.length \in Nat /\ c.blen \in Nat /\ c.ioff \in Nat
  BY CellRecord
<1>2. c.length + 0 = c.length /\ c.blen + 0 = c.blen /\ c.ioff + 0 = c.ioff
  BY <1>1
<1>3. \A k \in 0 .. 4 : TurnCell(c, k) = c
  BY <1>1, <1>2 DEF TurnCell
<1>4. TurnCell(c, 5) = [TurnCell(c, 4) EXCEPT !["blen"] = c.blen + 128]
  BY DEF TurnCell
<1>5. TurnCell(c, 6) = [TurnCell(c, 5) EXCEPT !["ioff"] = c.ioff + 128]
  BY DEF TurnCell
<1>6. TurnCell(c, 7) = [TurnCell(c, 6) EXCEPT !["length"] = c.length + 128]
  BY DEF TurnCell
<1>7. Wider(c, 128) = [name |-> c.name, length |-> c.length + 128, mcount |-> c.mcount,
                       blen |-> c.blen + 128, ioff |-> c.ioff + 128, sbytes |-> c.sbytes]
  BY WiderRecord
<1>8. TurnCell(c, 7) = Wider(c, 128)
  BY <1>7 DEF TurnCell
<1> QED
  BY <1>3, <1>4, <1>5, <1>6, <1>8, Zenon

LEMMA SetAgain ==
  ASSUME NEW f, NEW h \in DOMAIN f, NEW c, NEW field, NEW v
  PROVE  SetIn([f EXCEPT ![h] = c], h, field, v) = [f EXCEPT ![h] = [c EXCEPT ![field] = v]]
BY DEF SetIn

LEMMA TurnImages ==
  ASSUME NEW T, ImageInv(T), T.size = T.len, NEW h \in DOMAIN T.hdr,
         NEW at, at = bucket_indexes(T, h), NEW c, c = T.hdr[h],
         NEW m, m = MovedUp(T.hdr, at, 128), NEW e, e = MovedUp(T.str, at, 128),
         NEW f, f = MovedUp(T.idx, at, 128), NEW n, n = T.len
  PROVE  /\ TurnImage(T, h, 0) = T
         /\ TurnImage(T, h, 0) = Image(n, n, T.vm, T.hdr, T.str, T.idx)
         /\ TurnImage(T, h, 1) = Image(n, n + 128, T.vm, T.hdr, T.str, T.idx)
         /\ TurnImage(T, h, 2) = Image(n + 128, n + 128, T.vm, T.hdr, T.str, T.idx)
         /\ TurnImage(T, h, 3) = Image(n + 128, n + 128, T.vm, T.hdr, T.str, T.idx)
         /\ \A k \in 4 .. 7 : TurnImage(T, h, k)
                = Image(n + 128, n + 128, T.vm, [m EXCEPT ![h] = TurnCell(c, k)], e, f)
         /\ TurnImage(T, h, 4) = Image(n + 128, n + 128, T.vm, m, e, f)
         /\ TurnImage(T, h, 7) = WidenedBy(T, h, 128)
         /\ h \in DOMAIN m /\ m[h] = c
<1>1. /\ T = Image(T.len, T.size, T.vm, T.hdr, T.str, T.idx)
      /\ T.hdr = [o \in DOMAIN T.hdr |-> T.hdr[o]] /\ DOMAIN T.hdr \subseteq Nat
  BY ImageRecord DEF ImageInv
<1>2. c \in Cell
  BY CellFacts
<1>3. at \in Nat /\ h \in Nat /\ h < at
  BY CellFacts, Regions
<1>4. /\ \A k \in 0 .. 4 : TurnCell(c, k) = c
      /\ TurnCell(c, 7) = Wider(c, 128)
  BY <1>2, TurnCells
<1>5. \A k \in 0 .. 3 : [T.hdr EXCEPT ![h] = TurnCell(T.hdr[h], k)] = T.hdr
  BY <1>1, <1>4
<1>6. /\ m = [o \in DOMAIN m |-> m[o]] /\ DOMAIN m \subseteq Nat
  <2>1. PICK g \in Nat : g = 128
    OBVIOUS
  <2>2. PICK d : d = T.hdr
    OBVIOUS
  <2>3. m = MovedUp(d, at, g)
    BY <2>1, <2>2
  <2> QED
    BY <1>1, <1>3, <2>2, <2>3, MovedUpCells
<1>7. h \in DOMAIN m /\ m[h] = c
  <2>1. \A o \in DOMAIN T.hdr : IF o < at THEN o \in DOMAIN m /\ m[o] = T.hdr[o]
                                          ELSE o + 128 \in DOMAIN m /\ m[o + 128] = T.hdr[o]
    <3>1. 128 \in Nat
      OBVIOUS
    <3> QED
      BY <1>1, <1>3, <3>1, MovedUpKeeps
  <2> QED
    BY <1>3, <2>1
<1>8. TurnImage(T, h, 0) = Image(n, n, T.vm, T.hdr, T.str, T.idx)
  BY <1>5 DEF TurnImage
<1>9. TurnImage(T, h, 1) = Image(n, n + 128, T.vm, T.hdr, T.str, T.idx)
  BY <1>5 DEF TurnImage
<1>10. TurnImage(T, h, 2) = Image(n + 128, n + 128, T.vm, T.hdr, T.str, T.idx)
  BY <1>5 DEF TurnImage
<1>11. TurnImage(T, h, 3) = Image(n + 128, n + 128, T.vm, T.hdr, T.str, T.idx)
  BY <1>5 DEF TurnImage
<1>12. \A k \in 4 .. 7 : TurnImage(T, h, k)
          = Image(n + 128, n + 128, T.vm, [m EXCEPT ![h] = TurnCell(c, k)], e, f)
  BY DEF TurnImage
<1>13. TurnImage(T, h, 4) = Image(n + 128, n + 128, T.vm, m, e, f)
  <2>1. [m EXCEPT ![h] = TurnCell(c, 4)] = m
    BY <1>4, <1>6, <1>7
  <2> QED
    BY <1>12, <2>1
<1>14. TurnImage(T, h, 7) = WidenedBy(T, h, 128)
  <2>1. WidenedBy(T, h, 128) = Image(n + 128, n + 128, T.vm, [m EXCEPT ![h] = Wider(c, 128)], e, f)
    BY DEF WidenedBy
  <2> QED
    BY <1>4, <1>12, <2>1
<1> QED
  BY <1>1, <1>7, <1>8, <1>9, <1>10, <1>11, <1>12, <1>13, <1>14, ZenonT(60)

-----------------------------------------------------------------------------
(* The stores of mlib_delete_playlist(), one by one. *)
LEMMA DeleteImages ==
  ASSUME NEW B, NEW h, NEW n, n = B.hdr[h].length
  PROVE  /\ DeleteImage(B, h, 0) = Image(B.len, B.len, B.vm, B.hdr, B.str, B.idx)
         /\ DeleteImage(B, h, 1) = Image(B.len, B.len, B.vm, B.hdr, B.str, B.idx)
         /\ DeleteImage(B, h, 2)
              = Image(B.len, B.len, B.vm, MovedDown(B.hdr, h, h + n, B.len),
                      MovedDown(B.str, h, h + n, B.len), MovedDown(B.idx, h, h + n, B.len))
         /\ DeleteImage(B, h, 3)
              = Image(B.len, B.len - n, B.vm, CutAt(MovedDown(B.hdr, h, h + n, B.len), B.len - n),
                      CutAt(MovedDown(B.str, h, h + n, B.len), B.len - n),
                      CutAt(MovedDown(B.idx, h, h + n, B.len), B.len - n))
         /\ DeleteImage(B, h, 4)
              = Image(B.len - n, B.len - n, B.vm,
                      CutAt(MovedDown(B.hdr, h, h + n, B.len), B.len - n),
                      CutAt(MovedDown(B.str, h, h + n, B.len), B.len - n),
                      CutAt(MovedDown(B.idx, h, h + n, B.len), B.len - n))
<1>1. DeleteImage(B, h, 0) = Image(B.len, B.len, B.vm, B.hdr, B.str, B.idx)
  BY DEF DeleteImage
<1>2. DeleteImage(B, h, 1) = Image(B.len, B.len, B.vm, B.hdr, B.str, B.idx)
  BY DEF DeleteImage
<1>3. DeleteImage(B, h, 2)
        = Image(B.len, B.len, B.vm, MovedDown(B.hdr, h, h + n, B.len),
                MovedDown(B.str, h, h + n, B.len), MovedDown(B.idx, h, h + n, B.len))
  BY DEF DeleteImage
<1>4. DeleteImage(B, h, 3)
        = Image(B.len, B.len - n, B.vm, CutAt(MovedDown(B.hdr, h, h + n, B.len), B.len - n),
                CutAt(MovedDown(B.str, h, h + n, B.len), B.len - n),
                CutAt(MovedDown(B.idx, h, h + n, B.len), B.len - n))
  BY DEF DeleteImage
<1>5. DeleteImage(B, h, 4)
        = Image(B.len - n, B.len - n, B.vm,
                CutAt(MovedDown(B.hdr, h, h + n, B.len), B.len - n),
                CutAt(MovedDown(B.str, h, h + n, B.len), B.len - n),
                CutAt(MovedDown(B.idx, h, h + n, B.len), B.len - n))
  BY DEF DeleteImage
<1> QED
  BY <1>1, <1>2, <1>3, <1>4, <1>5, Zenon


LEMMA DeleteNext ==
  ASSUME NEW k \in 0 .. 3, Deleting(k), Store
  PROVE  Deleting(k + 1)'
<1>1. PICK s : s = DeleteStores(base, edge)
  OBVIOUS
<1>2. PICK n : n = base.hdr[edge].length
  OBVIOUS
<1>3. PICK d, g, i : d = base.hdr /\ g = base.str /\ i = base.idx
  OBVIOUS
<1>4. /\ OfLength(s, 4)
      /\ s[1] = ToFile("tear", edge) /\ s[2] = ToFile("down", edge + n)
      /\ s[3] = ToFile("cut", base.len - n) /\ s[4] = ToFile("len", base.len - n)
  BY <1>1, <1>2, DeleteElems
<1>5. todo = From(s, k) /\ img = DeleteImage(base, edge, k)
  BY <1>1 DEF Deleting
<1>6. k \in Nat /\ k < 4 /\ 4 \in Nat
  OBVIOUS
<1>7. Head(todo) = s[k + 1] /\ Tail(todo) = From(s, k + 1)
  <2>1. OfLength(s, 4)
    BY <1>4
  <2>2. Comes(s, k)
    BY <1>6, <2>1, OneStore
  <2> QED
    BY <1>5, <2>2 DEF Comes
<1>8. PICK e : e = s[k + 1]
  OBVIOUS
<1>9. e.store \in {"tear", "down", "cut", "len"}
  <2>1. e = s[1] \/ e = s[2] \/ e = s[3] \/ e = s[4]
    BY <1>8
  <2> QED
    BY <1>4, <2>1 DEF ToFile
<1>10. then' = then /\ cmd' = cmd /\ base' = base /\ edge' = edge /\ todo' = From(s, k + 1)
  BY <1>7, <1>8, <1>9, StoreDone
<1>11. img' = DeleteImage(base, edge, k + 1) /\ torn' = IF k = 0 THEN edge ELSE 0
  <2>1. CASE k = 0
    <3>1. e.store = "tear" /\ e.to = edge
      BY <1>4, <1>8, <2>1 DEF ToFile
    <3>2. img' = img /\ torn' = edge
      BY <1>7, <1>8, <3>1, StoreDone
    <3> QED
      BY <1>5, <2>1, <3>2, DeleteImages
  <2>2. CASE k = 1
    <3>1. e.store = "down" /\ e.to = edge + n /\ torn = edge
      BY <1>4, <1>8, <2>2 DEF ToFile, Deleting
    <3>2. img = Image(base.len, base.len, base.vm, d, g, i)
      BY <1>3, <1>5, <2>2, DeleteImages
    <3>3. img' = Image(base.len, base.len, base.vm, MovedDown(d, edge, edge + n, base.len),
                       MovedDown(g, edge, edge + n, base.len), MovedDown(i, edge, edge + n, base.len))
      BY <1>7, <1>8, <3>1, <3>2, StoreMade
    <3>4. torn' = 0
      BY <1>7, <1>8, <3>1, StoreDone
    <3> QED
      BY <1>2, <1>3, <2>2, <3>3, <3>4, DeleteImages
  <2>3. CASE k = 2
    <3>1. e.store = "cut" /\ e.to = base.len - n /\ torn = 0
      BY <1>4, <1>8, <2>3 DEF ToFile, Deleting
    <3>2. PICK x, y, z : /\ x = MovedDown(d, edge, edge + n, base.len)
                         /\ y = MovedDown(g, edge, edge + n, base.len)
                         /\ z = MovedDown(i, edge, edge + n, base.len)
      OBVIOUS
    <3>3. img = Image(base.len, base.len, base.vm, x, y, z)
      BY <1>2, <1>3, <1>5, <2>3, <3>2, DeleteImages
    <3>4. img' = Image(base.len, base.len - n, base.vm, CutAt(x, base.len - n),
                       CutAt(y, base.len - n), CutAt(z, base.len - n))
      BY <1>7, <1>8, <3>1, <3>3, StoreMade
    <3>5. torn' = 0
      BY <1>7, <1>8, <3>1, StoreDone
    <3> QED
      BY <1>2, <1>3, <2>3, <3>2, <3>4, <3>5, DeleteImages
  <2>4. CASE k = 3
    <3>1. e.store = "len" /\ e.to = base.len - n /\ torn = 0
      BY <1>4, <1>8, <2>4 DEF ToFile, Deleting
    <3>2. PICK x, y, z : /\ x = CutAt(MovedDown(d, edge, edge + n, base.len), base.len - n)
                         /\ y = CutAt(MovedDown(g, edge, edge + n, base.len), base.len - n)
                         /\ z = CutAt(MovedDown(i, edge, edge + n, base.len), base.len - n)
      OBVIOUS
    <3>3. img = Image(base.len, base.len - n, base.vm, x, y, z)
      BY <1>2, <1>3, <1>5, <2>4, <3>2, DeleteImages
    <3>4. img' = Image(base.len - n, base.len - n, base.vm, x, y, z)
      BY <1>7, <1>8, <3>1, <3>3, StoreMade
    <3>5. torn' = 0
      BY <1>7, <1>8, <3>1, StoreDone
    <3> QED
      BY <1>2, <1>3, <2>4, <3>2, <3>4, <3>5, DeleteImages
  <2> QED
    BY <2>1, <2>2, <2>3, <2>4
<1>12. IF k + 1 = 1 THEN torn' = edge ELSE torn' = 0
  BY <1>11
<1>13. cmd.op = "delete" /\ edge \in find_playlist(base, cmd.name)
  BY DEF Deleting
<1> QED
  BY <1>1, <1>10, <1>11, <1>12, <1>13 DEF Deleting


-----------------------------------------------------------------------------
(* The stores of one turn of the restart loop. *)
LEMMA TurnNext ==
  ASSUME Sound(base), NEW j \in Nat, base.len + 128 * j < U32, NEW k \in 0 .. 6, Turning(j, k), Store
  PROVE  Turning(j, k + 1)'
<1>1. PICK T : T = WidenedBy(base, edge, 128 * j)
  OBVIOUS
<1>2. PICK s : s = TurnStores(T, edge)
  OBVIOUS
<1>3. PICK at, c : at = bucket_indexes(T, edge) /\ c = T.hdr[edge]
  OBVIOUS
<1>4. PICK n, v : n = T.len /\ v = T.vm
  OBVIOUS
<1>5. PICK m, g, f : /\ m = MovedUp(T.hdr, at, 128) /\ g = MovedUp(T.str, at, 128)
                     /\ f = MovedUp(T.idx, at, 128)
  OBVIOUS
<1>6. edge \in DOMAIN base.hdr
  BY FindPlaylistFacts DEF Turning, AddCall
<1>7. Sound(T) /\ edge \in DOMAIN T.hdr
  <2>1. PICK x \in Nat : x = 128 * j
    OBVIOUS
  <2>2. T = WidenedBy(base, edge, x) /\ base.len + x < U32
    BY <1>1, <2>1
  <2>3. Sound(T)
    BY <1>6, <2>2, WidenedSound
  <2>4. edge \in DOMAIN T.hdr
    BY <1>6, <2>2, WidenedFacts DEF Sound
  <2> QED
    BY <2>3, <2>4
<1>8. /\ OfLength(s, 8)
      /\ s[1] = ToFile("size", n + 128) /\ s[2] = ToFile("len", n + 128)
      /\ s[3] = ToFile("tear", at) /\ s[4] = ToFile("up", 128)
      /\ s[5] = ToPlaylist("blen", edge, c.blen + 128) /\ s[6] = ToPlaylist("ioff", edge, c.ioff + 128)
      /\ s[7] = ToPlaylist("length", edge, c.length + 128) /\ s[8] = ToFile("again", edge)
  BY <1>2, <1>3, <1>4, TurnElems
<1>9. todo = From(s, k) /\ img = TurnImage(T, edge, k) /\ torn = IF k = 3 THEN at ELSE 0
  BY <1>1, <1>2, <1>3 DEF Turning
<1>10. k \in Nat /\ k < 8 /\ 8 \in Nat
  OBVIOUS
<1>11. Head(todo) = s[k + 1] /\ Tail(todo) = From(s, k + 1)
  <2>1. OfLength(s, 8)
    BY <1>8
  <2>2. Comes(s, k)
    BY <1>10, <2>1, OneStore
  <2> QED
    BY <1>9, <2>2 DEF Comes
<1>12. PICK e : e = s[k + 1]
  OBVIOUS
<1>13. e.store \in {"size", "len", "tear", "up", "blen", "ioff", "length"}
  <2>1. \/ e = s[1] \/ e = s[2] \/ e = s[3] \/ e = s[4] \/ e = s[5] \/ e = s[6] \/ e = s[7]
    BY <1>12
  <2> QED
    BY <1>8, <2>1 DEF ToFile, ToPlaylist
<1>14. then' = then /\ cmd' = cmd /\ base' = base /\ edge' = edge /\ todo' = From(s, k + 1)
  BY <1>11, <1>12, <1>13, StoreDone
<1>15. /\ T = Image(n, n, v, T.hdr, T.str, T.idx)
       /\ TurnImage(T, edge, 0) = T
       /\ TurnImage(T, edge, 1) = Image(n, n + 128, v, T.hdr, T.str, T.idx)
       /\ TurnImage(T, edge, 2) = Image(n + 128, n + 128, v, T.hdr, T.str, T.idx)
       /\ TurnImage(T, edge, 3) = Image(n + 128, n + 128, v, T.hdr, T.str, T.idx)
       /\ \A i \in 4 .. 7 : TurnImage(T, edge, i)
              = Image(n + 128, n + 128, v, [m EXCEPT ![edge] = TurnCell(c, i)], g, f)
       /\ TurnImage(T, edge, 4) = Image(n + 128, n + 128, v, m, g, f)
       /\ edge \in DOMAIN m /\ m[edge] = c /\ n \in Nat
  <2>1. ImageInv(T) /\ T.size = T.len /\ n \in Nat
    BY <1>4, <1>7 DEF Sound, ImageInv, ImageTyped
  <2>2. /\ TurnImage(T, edge, 0) = T
        /\ TurnImage(T, edge, 0) = Image(n, n, T.vm, T.hdr, T.str, T.idx)
        /\ TurnImage(T, edge, 1) = Image(n, n + 128, T.vm, T.hdr, T.str, T.idx)
        /\ TurnImage(T, edge, 2) = Image(n + 128, n + 128, T.vm, T.hdr, T.str, T.idx)
        /\ TurnImage(T, edge, 3) = Image(n + 128, n + 128, T.vm, T.hdr, T.str, T.idx)
        /\ \A i \in 4 .. 7 : TurnImage(T, edge, i)
              = Image(n + 128, n + 128, T.vm, [m EXCEPT ![edge] = TurnCell(c, i)], g, f)
        /\ TurnImage(T, edge, 4) = Image(n + 128, n + 128, T.vm, m, g, f)
        /\ TurnImage(T, edge, 7) = WidenedBy(T, edge, 128)
        /\ edge \in DOMAIN m /\ m[edge] = c
    BY <1>3, <1>4, <1>5, <1>7, <2>1, TurnImages
  <2> QED
    BY <1>4, <2>1, <2>2
<1>16. c \in Cell
  BY <1>3, <1>7, CellFacts DEF Sound
<1>17. PICK c4, c5, c6, c7 : c4 = TurnCell(c, 4) /\ c5 = TurnCell(c, 5) /\ c6 = TurnCell(c, 6) /\ c7 = TurnCell(c, 7)
  OBVIOUS
<1>18. /\ c5 = [c4 EXCEPT !["blen"] = c.blen + 128] /\ c6 = [c5 EXCEPT !["ioff"] = c.ioff + 128]
       /\ c7 = [c6 EXCEPT !["length"] = c.length + 128]
  BY <1>16, <1>17, TurnCells
<1>19. img' = TurnImage(T, edge, k + 1) /\ torn' = IF k = 2 THEN at ELSE 0
  <2>1. CASE k = 0
    <3>1. e.store = "size" /\ e.to = n + 128 /\ torn = 0
      BY <1>8, <1>9, <1>12, <2>1 DEF ToFile
    <3>2. img = Image(n, n, v, T.hdr, T.str, T.idx)
      BY <1>9, <1>15, <2>1
    <3>3. img' = Image(n, Max2(n, n + 128), v, T.hdr, T.str, T.idx)
      BY <1>11, <1>12, <3>1, <3>2, StoreMade
    <3>4. torn' = 0
      BY <1>11, <1>12, <3>1, StoreDone
    <3>5. Max2(n, n + 128) = n + 128
      BY <1>15 DEF Max2
    <3> QED
      BY <1>15, <2>1, <3>3, <3>4, <3>5
  <2>2. CASE k = 1
    <3>1. e.store = "len" /\ e.to = n + 128 /\ torn = 0
      BY <1>8, <1>9, <1>12, <2>2 DEF ToFile
    <3>2. PICK x : x = n + 128
      OBVIOUS
    <3>5. img = Image(n, x, v, T.hdr, T.str, T.idx) /\ e.to = x
      BY <1>9, <1>15, <2>2, <3>1, <3>2
    <3>3. img' = Image(x, x, v, T.hdr, T.str, T.idx)
      BY <1>11, <1>12, <3>1, <3>5, StoreMade
    <3>4. torn' = 0
      BY <1>11, <1>12, <3>1, StoreDone
    <3> QED
      BY <1>15, <2>2, <3>2, <3>3, <3>4
  <2>3. CASE k = 2
    <3>1. e.store = "tear" /\ e.to = at
      BY <1>8, <1>12, <2>3 DEF ToFile
    <3>2. img' = img /\ torn' = at
      BY <1>11, <1>12, <3>1, StoreDone
    <3> QED
      BY <1>9, <1>15, <2>3, <3>2
  <2>4. CASE k = 3
    <3>1. e.store = "up" /\ e.to = 128 /\ torn = at
      BY <1>8, <1>9, <1>12, <2>4 DEF ToFile
    <3>2. img = Image(n + 128, n + 128, v, T.hdr, T.str, T.idx)
      BY <1>9, <1>15, <2>4
    <3>3. img' = Image(n + 128, n + 128, v, m, g, f)
      BY <1>5, <1>11, <1>12, <3>1, <3>2, StoreMade
    <3>4. torn' = 0
      BY <1>11, <1>12, <3>1, StoreDone
    <3> QED
      BY <1>15, <2>4, <3>3, <3>4
  <2>5. CASE k = 4
    <3>1. e.store = "blen" /\ e.at = edge /\ e.v = c.blen + 128 /\ torn = 0
      BY <1>8, <1>9, <1>12, <2>5 DEF ToPlaylist
    <3>2. PICK w : w = [m EXCEPT ![edge] = c4]
      OBVIOUS
    <3>3. TurnImage(T, edge, 4) = Image(n + 128, n + 128, v, [m EXCEPT ![edge] = TurnCell(c, 4)], g, f)
      <4>1. 4 \in 4 .. 7
        OBVIOUS
      <4> QED
        BY <1>15, <4>1
    <3>4. img = Image(n + 128, n + 128, v, w, g, f)
      BY <1>9, <1>17, <2>5, <3>2, <3>3
    <3>5. img' = Image(n + 128, n + 128, v, SetIn(w, edge, "blen", c.blen + 128), g, f)
      BY <1>11, <1>12, <3>1, <3>4, StoreMade
    <3>6. SetIn(w, edge, "blen", c.blen + 128) = [m EXCEPT ![edge] = c5]
      <4>1. edge \in DOMAIN m
        BY <1>15
      <4>2. c5 = [c4 EXCEPT !["blen"] = c.blen + 128]
        BY <1>18
      <4> QED
        BY <3>2, <4>1, <4>2 DEF SetIn
    <3>7. TurnImage(T, edge, 5) = Image(n + 128, n + 128, v, [m EXCEPT ![edge] = TurnCell(c, 5)], g, f)
      <4>1. 5 \in 4 .. 7
        OBVIOUS
      <4> QED
        BY <1>15, <4>1
    <3>8. torn' = 0
      BY <1>11, <1>12, <3>1, StoreDone
    <3> QED
      BY <1>17, <2>5, <3>5, <3>6, <3>7, <3>8
  <2>6. CASE k = 5
    <3>1. e.store = "ioff" /\ e.at = edge /\ e.v = c.ioff + 128 /\ torn = 0
      BY <1>8, <1>9, <1>12, <2>6 DEF ToPlaylist
    <3>2. PICK w : w = [m EXCEPT ![edge] = c5]
      OBVIOUS
    <3>3. TurnImage(T, edge, 5) = Image(n + 128, n + 128, v, [m EXCEPT ![edge] = TurnCell(c, 5)], g, f)
      <4>1. 5 \in 4 .. 7
        OBVIOUS
      <4> QED
        BY <1>15, <4>1
    <3>4. img = Image(n + 128, n + 128, v, w, g, f)
      BY <1>9, <1>17, <2>6, <3>2, <3>3
    <3>5. img' = Image(n + 128, n + 128, v, SetIn(w, edge, "ioff", c.ioff + 128), g, f)
      BY <1>11, <1>12, <3>1, <3>4, StoreMade
    <3>6. SetIn(w, edge, "ioff", c.ioff + 128) = [m EXCEPT ![edge] = c6]
      <4>1. edge \in DOMAIN m
        BY <1>15
      <4>2. c6 = [c5 EXCEPT !["ioff"] = c.ioff + 128]
        BY <1>18
      <4> QED
        BY <3>2, <4>1, <4>2 DEF SetIn
    <3>7. TurnImage(T, edge, 6) = Image(n + 128, n + 128, v, [m EXCEPT ![edge] = TurnCell(c, 6)], g, f)
      <4>1. 6 \in 4 .. 7
        OBVIOUS
      <4> QED
        BY <1>15, <4>1
    <3>8. torn' = 0
      BY <1>11, <1>12, <3>1, StoreDone
    <3> QED
      BY <1>17, <2>6, <3>5, <3>6, <3>7, <3>8
  <2>7. CASE k = 6
    <3>1. e.store = "length" /\ e.at = edge /\ e.v = c.length + 128 /\ torn = 0
      BY <1>8, <1>9, <1>12, <2>7 DEF ToPlaylist
    <3>2. PICK w : w = [m EXCEPT ![edge] = c6]
      OBVIOUS
    <3>3. TurnImage(T, edge, 6) = Image(n + 128, n + 128, v, [m EXCEPT ![edge] = TurnCell(c, 6)], g, f)
      <4>1. 6 \in 4 .. 7
        OBVIOUS
      <4> QED
        BY <1>15, <4>1
    <3>4. img = Image(n + 128, n + 128, v, w, g, f)
      BY <1>9, <1>17, <2>7, <3>2, <3>3
    <3>5. img' = Image(n + 128, n + 128, v, SetIn(w, edge, "length", c.length + 128), g, f)
      BY <1>11, <1>12, <3>1, <3>4, StoreMade
    <3>6. SetIn(w, edge, "length", c.length + 128) = [m EXCEPT ![edge] = c7]
      <4>1. edge \in DOMAIN m
        BY <1>15
      <4>2. c7 = [c6 EXCEPT !["length"] = c.length + 128]
        BY <1>18
      <4> QED
        BY <3>2, <4>1, <4>2 DEF SetIn
    <3>7. TurnImage(T, edge, 7) = Image(n + 128, n + 128, v, [m EXCEPT ![edge] = TurnCell(c, 7)], g, f)
      <4>1. 7 \in 4 .. 7
        OBVIOUS
      <4> QED
        BY <1>15, <4>1
    <3>8. torn' = 0
      BY <1>11, <1>12, <3>1, StoreDone
    <3> QED
      BY <1>17, <2>7, <3>5, <3>6, <3>7, <3>8
  <2> QED
    BY <2>1, <2>2, <2>3, <2>4, <2>5, <2>6, <2>7
<1>20. IF k + 1 = 3 THEN torn' = at ELSE torn' = 0
  BY <1>19
<1>21. cmd.op = "add" /\ AddCall /\ ~ bucket_contains(base, edge, cmd.path) /\ j < Lacking
  BY DEF Turning, AddCall
<1> QED
  BY <1>1, <1>2, <1>3, <1>14, <1>19, <1>20, <1>21 DEF Turning, AddCall, Lacking


-----------------------------------------------------------------------------
(* The turns of the restart loop end when, and only when, there is room.   *)
(* The stores that place the string then come from the file as it is.      *)
LEMMA TurnsExact ==
  ASSUME NEW c \in Cell, NEW bytes \in Nat, NEW j \in Nat
  PROVE  16 + c.sbytes + bytes < c.ioff + 128 * j - 4 <=> Turns(c, bytes) <= j
<1>1. c.sbytes \in Nat /\ c.ioff \in Nat
  BY CellRecord
<1>2. PICK lack \in Int : lack = 16 + c.sbytes + bytes - (c.ioff - 4)
  BY <1>1
<1>3. Turns(c, bytes) = IF lack < 0 THEN 0 ELSE lack \div 128 + 1
  BY <1>2, LayoutConstants DEF Turns
<1>4. 16 + c.sbytes + bytes < c.ioff + 128 * j - 4 <=> lack < 128 * j
  BY <1>1, <1>2
<1>5. lack < 128 * j <=> (IF lack < 0 THEN 0 ELSE lack \div 128 + 1) <= j
  OBVIOUS
<1> QED
  BY <1>3, <1>4, <1>5

LEMMA PlaceCells ==
  ASSUME NEW c \in Cell, NEW p \in Paths
  PROVE  /\ PlaceCell(c, p, 0) = c /\ PlaceCell(c, p, 1) = c /\ PlaceCell(c, p, 2) = c
         /\ PlaceCell(c, p, 3) = [c EXCEPT !["ioff"] = c.ioff - 4]
         /\ PlaceCell(c, p, 4) = [PlaceCell(c, p, 3) EXCEPT !["sbytes"] = c.sbytes + PathLen[p]]
         /\ PlaceCell(c, p, 4) = [c EXCEPT !.ioff = @ - 4, !.sbytes = @ + PathLen[p]]
         /\ PlaceCell(c, p, 4).mcount = c.mcount
<1>1. /\ c = [name |-> c.name, length |-> c.length, mcount |-> c.mcount,
             blen |-> c.blen, ioff |-> c.ioff, sbytes |-> c.sbytes]
      /\ c.ioff \in Nat /\ c.sbytes \in Nat
  BY CellRecord
<1>2. c.ioff - 0 = c.ioff /\ c.sbytes + 0 = c.sbytes
  BY <1>1
<1>3. PlaceCell(c, p, 0) = c /\ PlaceCell(c, p, 1) = c /\ PlaceCell(c, p, 2) = c
  BY <1>1, <1>2 DEF PlaceCell
<1>4. PlaceCell(c, p, 3) = [c EXCEPT !["ioff"] = c.ioff - 4]
  <2>1. PlaceCell(c, p, 3) = [PlaceCell(c, p, 2) EXCEPT !["ioff"] = c.ioff - 4]
    BY DEF PlaceCell
  <2> QED
    BY <1>3, <2>1
<1>5. PlaceCell(c, p, 4) = [PlaceCell(c, p, 3) EXCEPT !["sbytes"] = c.sbytes + PathLen[p]]
  BY DEF PlaceCell
<1>6. [c EXCEPT !.ioff = @ - 4, !.sbytes = @ + PathLen[p]] = PlaceCell(c, p, 4)
  <2>1. PICK x, y : x = c.ioff - 4 /\ y = c.sbytes + PathLen[p]
    OBVIOUS
  <2>2. PICK a : a = [c EXCEPT !.ioff = x]
    OBVIOUS
  <2>3. a = [name |-> c.name, length |-> c.length, mcount |-> c.mcount,
             blen |-> c.blen, ioff |-> x, sbytes |-> c.sbytes]
    BY <1>1, <2>2
  <2>4. [a EXCEPT !.sbytes = y] = [name |-> c.name, length |-> c.length, mcount |-> c.mcount,
             blen |-> c.blen, ioff |-> x, sbytes |-> y]
    BY <2>3
  <2>5. [c EXCEPT !.ioff = @ - 4, !.sbytes = @ + PathLen[p]] = [a EXCEPT !.sbytes = y]
    BY <1>1, <2>1, <2>2
  <2> QED
    BY <2>1, <2>4, <2>5 DEF PlaceCell
<1>7. PlaceCell(c, p, 4).mcount = c.mcount
  BY DEF PlaceCell
<1> QED
  BY <1>3, <1>4, <1>5, <1>6, <1>7, Zenon

LEMMA PlaceImages ==
  ASSUME NEW T, ImageInv(T), T.size = T.len, NEW h \in DOMAIN T.hdr, NEW p \in Paths,
         NEW c, c = T.hdr[h], NEW d, d = T.hdr, NEW n, n = T.len, NEW v, v = T.vm,
         NEW e, e = Put(T.str, Strings(h) + c.sbytes, p),
         NEW f, f = Put(T.idx, bucket_indexes(T, h) - 4, c.sbytes)
  PROVE  /\ PlaceImage(T, h, p, 0) = T
         /\ PlaceImage(T, h, p, 0) = Image(n, n, v, d, T.str, T.idx)
         /\ PlaceImage(T, h, p, 1) = Image(n, n, v, d, e, T.idx)
         /\ PlaceImage(T, h, p, 2) = Image(n, n, v, d, e, f)
         /\ PlaceImage(T, h, p, 3) = Image(n, n, v, [d EXCEPT ![h] = PlaceCell(c, p, 3)], e, f)
         /\ PlaceImage(T, h, p, 4) = Image(n, n, v, [d EXCEPT ![h] = PlaceCell(c, p, 4)], e, f)
<1>1. /\ T = Image(T.len, T.size, T.vm, T.hdr, T.str, T.idx)
      /\ T.hdr = [o \in DOMAIN T.hdr |-> T.hdr[o]]
  BY ImageRecord DEF ImageInv
<1>2. c \in Cell
  BY CellFacts
<1>3. PlaceCell(c, p, 0) = c /\ PlaceCell(c, p, 1) = c /\ PlaceCell(c, p, 2) = c
  BY <1>2, PlaceCells
<1>4. /\ [T.hdr EXCEPT ![h] = PlaceCell(T.hdr[h], p, 0)] = T.hdr
      /\ [T.hdr EXCEPT ![h] = PlaceCell(T.hdr[h], p, 1)] = T.hdr
      /\ [T.hdr EXCEPT ![h] = PlaceCell(T.hdr[h], p, 2)] = T.hdr
  BY <1>1, <1>3
<1>5. PlaceImage(T, h, p, 0) = Image(n, n, v, d, T.str, T.idx)
  BY <1>4 DEF PlaceImage
<1>6. PlaceImage(T, h, p, 1) = Image(n, n, v, d, e, T.idx)
  BY <1>4 DEF PlaceImage
<1>7. PlaceImage(T, h, p, 2) = Image(n, n, v, d, e, f)
  BY <1>4 DEF PlaceImage
<1>8. PlaceImage(T, h, p, 3) = Image(n, n, v, [d EXCEPT ![h] = PlaceCell(c, p, 3)], e, f)
  BY DEF PlaceImage
<1>9. PlaceImage(T, h, p, 4) = Image(n, n, v, [d EXCEPT ![h] = PlaceCell(c, p, 4)], e, f)
  BY DEF PlaceImage
<1>10. PlaceImage(T, h, p, 0) = T
  BY <1>1, <1>5
<1> QED
  BY <1>5, <1>6, <1>7, <1>8, <1>9, <1>10, Zenon

LEMMA PlacedSorts ==
  ASSUME NEW T, ImageInv(T), T.size = T.len, NEW h \in DOMAIN T.hdr, NEW p \in Paths
  PROVE  Placed(T, h, p) = bucket_sort(PlaceImage(T, h, p, 4), h)
<1>1. PICK c : c = T.hdr[h]
  OBVIOUS
<1>2. c \in Cell
  BY <1>1, CellFacts
<1>3. PICK e, f : /\ e = Put(T.str, Strings(h) + c.sbytes, p)
                  /\ f = Put(T.idx, bucket_indexes(T, h) - IndexSize, c.sbytes)
  OBVIOUS
<1>4. PICK a : a = [T EXCEPT !.str = e]
  OBVIOUS
<1>5. T = Image(T.len, T.len, T.vm, T.hdr, T.str, T.idx)
  BY ImageRecord DEF ImageInv
<1>6. a = Image(T.len, T.len, T.vm, T.hdr, e, T.idx)
  BY <1>4, <1>5 DEF Image
<1>7. PICK b : b = [a EXCEPT !.idx = f]
  OBVIOUS
<1>8. b = Image(T.len, T.len, T.vm, T.hdr, e, f)
  BY <1>6, <1>7 DEF Image
<1>9. PICK w : w = PlaceCell(c, p, 4)
  OBVIOUS
<1>10. SetCell(b, h, w) = Image(T.len, T.len, T.vm, [T.hdr EXCEPT ![h] = w], e, f)
  BY <1>8, ImageSet
<1>11. PlaceImage(T, h, p, 4) = Image(T.len, T.len, T.vm, [T.hdr EXCEPT ![h] = w], e, f)
  BY <1>1, <1>3, <1>9, LayoutConstants DEF PlaceImage
<1>12. [c EXCEPT !.ioff = @ - IndexSize, !.sbytes = @ + PathLen[p]] = w
  <2>1. PlaceCell(c, p, 4) = [c EXCEPT !.ioff = @ - 4, !.sbytes = @ + PathLen[p]]
    BY <1>2, PlaceCells
  <2>2. IndexSize = 4
    BY LayoutConstants
  <2> QED
    BY <1>9, <2>1, <2>2
<1>13. [T EXCEPT !.str = e, !.idx = f] = b
  BY <1>4, <1>7
<1>14. Placed(T, h, p) = bucket_sort(SetCell(b, h, w), h)
  BY <1>1, <1>3, <1>12, <1>13 DEF Placed
<1> QED
  BY <1>10, <1>11, <1>14

LEMMA NoneStored ==
  ASSUME NEW T, ImageInv(T), T.size = T.len, NEW h \in DOMAIN T.hdr, NEW p \in Paths
  PROVE  TurnImage(T, h, 0) = T /\ PlaceImage(T, h, p, 0) = T
<1>1. /\ T = Image(T.len, T.len, T.vm, T.hdr, T.str, T.idx)
      /\ T.hdr = [o \in DOMAIN T.hdr |-> T.hdr[o]]
  BY ImageRecord DEF ImageInv
<1>2. T.hdr[h] \in Cell
  BY CellFacts
<1>3. TurnCell(T.hdr[h], 0) = T.hdr[h]
  <2>1. 0 \in 0 .. 4
    OBVIOUS
  <2> QED
    BY <1>2, <2>1, TurnCells
<1>4. PlaceCell(T.hdr[h], p, 0) = T.hdr[h]
  BY <1>2, PlaceCells
<1>5. /\ [T.hdr EXCEPT ![h] = TurnCell(T.hdr[h], 0)] = T.hdr
      /\ [T.hdr EXCEPT ![h] = PlaceCell(T.hdr[h], p, 0)] = T.hdr
  BY <1>1, <1>3, <1>4
<1>6. TurnImage(T, h, 0) = T
  BY <1>1, <1>5 DEF TurnImage
<1>7. PlaceImage(T, h, p, 0) = T
  BY <1>1, <1>5 DEF PlaceImage
<1> QED
  BY <1>6, <1>7

LEMMA StoresAt ==
  ASSUME NEW B, Sound(B), NEW h \in DOMAIN B.hdr, NEW p \in Paths, B.len + PathLen[p] + 132 < U32,
         NEW t, t = Turns(B.hdr[h], PathLen[p]), NEW j \in Nat, j <= t,
         NEW T, T = WidenedBy(B, h, 128 * j)
  PROVE  /\ t \in Nat /\ 128 * j < PathLen[p] + 132 /\ Sound(T) /\ h \in DOMAIN T.hdr
         /\ j < t => T = TurnImage(T, h, 0) /\ AddStores(T, h, p) = From(TurnStores(T, h), 0)
         /\ j = t => T = PlaceImage(T, h, p, 0) /\ AddStores(T, h, p) = From(PlaceStores(T, h, p), 0)
<1>1. PICK c : c = B.hdr[h]
  OBVIOUS
<1>2. c \in Cell /\ 16 + c.sbytes < c.ioff /\ c.sbytes \in Nat /\ c.ioff \in Nat
  BY <1>1, CellFacts DEF Sound
<1>3. PathLen[p] \in Nat
  BY PathsAssumption
<1>4. t \in Nat /\ 128 * t < PathLen[p] + 132
  BY <1>1, <1>2, <1>3, TurnsFacts
<1>5. 128 * j < PathLen[p] + 132
  BY <1>3, <1>4
<1>6. PICK x \in Nat : x = 128 * j
  OBVIOUS
<1>7. B.len + x < U32
  <2>1. B.len \in Nat
    BY DEF Sound, ImageInv, ImageTyped
  <2>2. U32 \in Nat
    BY SizesAssumption
  <2> QED
    BY <1>3, <1>5, <1>6, <2>1, <2>2
<1>8. T = WidenedBy(B, h, x)
  BY <1>6
<1>9. Sound(T)
  BY <1>7, <1>8, WidenedSound
<1>10. h \in DOMAIN T.hdr /\ T.hdr[h].sbytes = c.sbytes /\ T.hdr[h].ioff = c.ioff + x
  BY <1>1, <1>8, WidenedFacts DEF Sound
<1>11. AddStores(T, h, p) = IF t <= j THEN PlaceStores(T, h, p) ELSE TurnStores(T, h)
  <2>1. BucketHdr + T.hdr[h].sbytes + PathLen[p] < T.hdr[h].ioff - IndexSize
          <=> 16 + c.sbytes + PathLen[p] < c.ioff + 128 * j - 4
    BY <1>2, <1>3, <1>6, <1>10, LayoutConstants
  <2>2. 16 + c.sbytes + PathLen[p] < c.ioff + 128 * j - 4 <=> t <= j
    BY <1>1, <1>2, <1>3, TurnsExact
  <2> QED
    BY <2>1, <2>2 DEF AddStores
<1>12. ImageInv(T) /\ T.size = T.len
  BY <1>9 DEF Sound
<1>13. TurnImage(T, h, 0) = T /\ PlaceImage(T, h, p, 0) = T
  BY <1>10, <1>12, NoneStored
<1>15. From(TurnStores(T, h), 0) = TurnStores(T, h)
  <2>1. OfLength(TurnStores(T, h), 8)
    BY TurnElems
  <2> QED
    BY <2>1, FromFacts
<1>16. From(PlaceStores(T, h, p), 0) = PlaceStores(T, h, p)
  <2>1. OfLength(PlaceStores(T, h, p), 6)
    BY PlaceElems
  <2> QED
    BY <2>1, FromFacts
<1>17. j < t => ~ t <= j
  BY <1>4
<1>18. j = t => t <= j
  BY <1>4
<1> QED
  BY <1>4, <1>5, <1>9, <1>10, <1>11, <1>13, <1>15, <1>16, <1>17, <1>18


-----------------------------------------------------------------------------
(* The stores that place the string, qsort() and the count. *)
LEMMA RoomyFacts ==
  ASSUME Sound(base), AddCall
  PROVE  /\ edge \in DOMAIN base.hdr /\ Lacking \in Nat /\ 128 * Lacking < PathLen[cmd.path] + 132
         /\ Sound(Roomy) /\ edge \in DOMAIN Roomy.hdr
         /\ Roomy = PlaceImage(Roomy, edge, cmd.path, 0)
         /\ AddStores(Roomy, edge, cmd.path) = From(PlaceStores(Roomy, edge, cmd.path), 0)
         /\ Grown(base, Roomy, edge, 128 * Lacking)
         /\ 16 + Roomy.hdr[edge].sbytes + PathLen[cmd.path] < Roomy.hdr[edge].ioff - 4
<1>1. edge \in DOMAIN base.hdr /\ cmd.path \in Paths /\ base.len + PathLen[cmd.path] + 132 < U32
  BY FindPlaylistFacts DEF AddCall
<1>2. PICK t, p : t = Turns(base.hdr[edge], PathLen[p]) /\ p = cmd.path
  OBVIOUS
<1>3. base.hdr[edge] \in Cell /\ 16 + base.hdr[edge].sbytes < base.hdr[edge].ioff
  BY <1>1, CellFacts DEF Sound
<1>4. PathLen[p] \in Nat
  BY <1>1, <1>2, PathsAssumption
<1>5. /\ t \in Nat
      /\ 16 + base.hdr[edge].sbytes + PathLen[p] < base.hdr[edge].ioff + 128 * t - 4
      /\ 128 * t < PathLen[p] + 132
  BY <1>2, <1>3, <1>4, TurnsFacts
<1>6. PICK T : T = WidenedBy(base, edge, 128 * t)
  OBVIOUS
<1>7. Lacking = t /\ Roomy = T
  BY <1>2, <1>6 DEF Lacking, Roomy
<1>8. /\ Sound(T) /\ edge \in DOMAIN T.hdr
      /\ t = t => T = PlaceImage(T, edge, p, 0) /\ AddStores(T, edge, p) = From(PlaceStores(T, edge, p), 0)
  <2>1. t <= t
    BY <1>5
  <2> QED
    BY <1>1, <1>2, <1>5, <1>6, <2>1, StoresAt
<1>9. PICK x \in Nat : x = 128 * t
  BY <1>5
<1>10. base.len + x < U32
  <2>1. base.len \in Nat
    BY DEF Sound, ImageInv, ImageTyped
  <2>2. U32 \in Nat
    BY SizesAssumption
  <2> QED
    BY <1>1, <1>2, <1>4, <1>5, <1>9, <2>1, <2>2
<1>11. T = WidenedBy(base, edge, x)
  BY <1>6, <1>9
<1>12. Grown(base, T, edge, x)
  BY <1>1, <1>10, <1>11, WidenedSound
<1>13. T.hdr[edge].sbytes = base.hdr[edge].sbytes /\ T.hdr[edge].ioff = base.hdr[edge].ioff + x
  BY <1>1, <1>11, WidenedFacts DEF Sound
<1>14. 16 + T.hdr[edge].sbytes + PathLen[p] < T.hdr[edge].ioff - 4
  <2>1. base.hdr[edge].sbytes \in Nat /\ base.hdr[edge].ioff \in Nat
    BY <1>3, CellRecord
  <2> QED
    BY <1>4, <1>5, <1>9, <1>13, <2>1
<1> QED
  BY <1>1, <1>2, <1>5, <1>7, <1>8, <1>9, <1>12, <1>14

LEMMA PlaceNext ==
  ASSUME Sound(base), Placing, todo # <<>>, Store
  PROVE  Placing'
<1>1. PICK T, p : T = Roomy /\ p = cmd.path
  OBVIOUS
<1>2. /\ AddCall /\ ~ bucket_contains(base, edge, cmd.path) /\ torn = 0
  BY DEF Placing
<1>3. ImageInv(T) /\ T.size = T.len /\ edge \in DOMAIN T.hdr /\ p \in Paths
  BY <1>1, <1>2, RoomyFacts DEF Sound, AddCall
<1>4. PICK s : s = PlaceStores(T, edge, p)
  OBVIOUS
<1>5. PICK c, d, n, v : c = T.hdr[edge] /\ d = T.hdr /\ n = T.len /\ v = T.vm
  OBVIOUS
<1>6. PICK x, y : x = Strings(edge) + c.sbytes /\ y = bucket_indexes(T, edge) - 4
  OBVIOUS
<1>7. PICK e, f : e = Put(T.str, x, p) /\ f = Put(T.idx, y, c.sbytes)
  OBVIOUS
<1>8. /\ OfLength(s, 6)
      /\ s[1] = ToPlaylist("string", x, p) /\ s[2] = ToPlaylist("word", y, c.sbytes)
      /\ s[3] = ToPlaylist("ioff", edge, c.ioff - 4)
      /\ s[4] = ToPlaylist("sbytes", edge, c.sbytes + PathLen[p])
      /\ s[5] = ToPlaylist("sorting", edge, p) /\ s[6] = ToPlaylist("mcount", edge, c.mcount + 1)
  BY <1>4, <1>5, <1>6, PlaceElems
<1>9. PICK c3, c4 : c3 = PlaceCell(c, p, 3) /\ c4 = PlaceCell(c, p, 4)
  OBVIOUS
<1>10. c \in Cell
  BY <1>3, <1>5, CellFacts
<1>11. /\ c3 = [c EXCEPT !["ioff"] = c.ioff - 4] /\ c4 = [c3 EXCEPT !["sbytes"] = c.sbytes + PathLen[p]]
       /\ c4.mcount = c.mcount
  BY <1>3, <1>9, <1>10, PlaceCells
<1>12. /\ PlaceImage(T, edge, p, 0) = T
       /\ PlaceImage(T, edge, p, 0) = Image(n, n, v, d, T.str, T.idx)
       /\ PlaceImage(T, edge, p, 1) = Image(n, n, v, d, e, T.idx)
       /\ PlaceImage(T, edge, p, 2) = Image(n, n, v, d, e, f)
       /\ PlaceImage(T, edge, p, 3) = Image(n, n, v, [d EXCEPT ![edge] = PlaceCell(c, p, 3)], e, f)
       /\ PlaceImage(T, edge, p, 4) = Image(n, n, v, [d EXCEPT ![edge] = PlaceCell(c, p, 4)], e, f)
  <2>1. e = Put(T.str, Strings(edge) + c.sbytes, p) /\ f = Put(T.idx, bucket_indexes(T, edge) - 4, c.sbytes)
    BY <1>6, <1>7
  <2> QED
    BY <1>3, <1>5, <2>1, PlaceImages
<1>13. PICK U : U = PlaceImage(T, edge, p, 4)
  OBVIOUS
<1>14. Placed(T, edge, p) = bucket_sort(U, edge)
  BY <1>3, <1>13, PlacedSorts
<1>15. cmd' = cmd /\ base' = base /\ edge' = edge
  BY StoreDone
<1>16. AddCall' /\ ~ bucket_contains(base, edge, cmd.path)' /\ T = Roomy' /\ p = cmd'.path
  BY <1>1, <1>2, <1>15 DEF AddCall, Roomy, Lacking
<1>17. ASSUME NEW k \in 0 .. 5, todo = From(s, k)
       PROVE  Head(todo) = s[k + 1] /\ Tail(todo) = From(s, k + 1)
  <2>1. k \in Nat /\ k < 6 /\ 6 \in Nat
    OBVIOUS
  <2>3. OfLength(s, 6)
    BY <1>8
  <2>2. Comes(s, k)
    BY <2>1, <2>3, OneStore
  <2> QED
    BY <1>17, <2>2 DEF Comes
<1>20. ASSUME NEW k \in 0 .. 3, img = PlaceImage(T, edge, p, k), todo = From(s, k)
       PROVE  Placing'
  <2>1. Head(todo) = s[k + 1] /\ Tail(todo) = From(s, k + 1)
    <3>1. k \in 0 .. 5
      OBVIOUS
    <3> QED
      BY <1>17, <1>20, <3>1
  <2>2. PICK g : g = s[k + 1]
    OBVIOUS
  <2>3. g.store \in {"string", "word", "ioff", "sbytes"}
    <3>1. g = s[1] \/ g = s[2] \/ g = s[3] \/ g = s[4]
      BY <2>2
    <3> QED
      BY <1>8, <3>1 DEF ToPlaylist
  <2>4. todo' = From(s, k + 1) /\ torn' = 0
    BY <1>2, <2>1, <2>2, <2>3, StoreDone
  <2>5. img' = PlaceImage(T, edge, p, k + 1)
    <3>1. CASE k = 0
      <4>1. g.store = "string" /\ g.at = x /\ g.v = p
        BY <1>8, <2>2, <3>1 DEF ToPlaylist
      <4>2. img = Image(n, n, v, d, T.str, T.idx)
        BY <1>12, <1>20, <3>1
      <4>3. img' = Image(n, n, v, d, e, T.idx)
        BY <1>7, <2>1, <2>2, <4>1, <4>2, StoreMade
      <4> QED
        BY <1>12, <3>1, <4>3
    <3>2. CASE k = 1
      <4>1. g.store = "word" /\ g.at = y /\ g.v = c.sbytes
        BY <1>8, <2>2, <3>2 DEF ToPlaylist
      <4>2. img = Image(n, n, v, d, e, T.idx)
        BY <1>12, <1>20, <3>2
      <4>3. img' = Image(n, n, v, d, e, f)
        BY <1>7, <2>1, <2>2, <4>1, <4>2, StoreMade
      <4> QED
        BY <1>12, <3>2, <4>3
    <3>3. CASE k = 2
      <4>1. g.store = "ioff" /\ g.at = edge /\ g.v = c.ioff - 4
        BY <1>8, <2>2, <3>3 DEF ToPlaylist
      <4>2. img = Image(n, n, v, d, e, f)
        BY <1>12, <1>20, <3>3
      <4>3. img' = Image(n, n, v, SetIn(d, edge, "ioff", c.ioff - 4), e, f)
        BY <2>1, <2>2, <4>1, <4>2, StoreMade
      <4>4. SetIn(d, edge, "ioff", c.ioff - 4) = [d EXCEPT ![edge] = c3]
        BY <1>3, <1>5, <1>11 DEF SetIn
      <4> QED
        BY <1>9, <1>12, <3>3, <4>3, <4>4
    <3>4. CASE k = 3
      <4>1. g.store = "sbytes" /\ g.at = edge /\ g.v = c.sbytes + PathLen[p]
        BY <1>8, <2>2, <3>4 DEF ToPlaylist
      <4>2. PICK w : w = [d EXCEPT ![edge] = c3]
        OBVIOUS
      <4>3. img = Image(n, n, v, w, e, f)
        BY <1>9, <1>12, <1>20, <3>4, <4>2
      <4>4. img' = Image(n, n, v, SetIn(w, edge, "sbytes", c.sbytes + PathLen[p]), e, f)
        BY <2>1, <2>2, <4>1, <4>3, StoreMade
      <4>5. SetIn(w, edge, "sbytes", c.sbytes + PathLen[p]) = [d EXCEPT ![edge] = c4]
        BY <1>3, <1>5, <1>11, <4>2 DEF SetIn
      <4> QED
        BY <1>9, <1>12, <3>4, <4>4, <4>5
    <3> QED
      BY <3>1, <3>2, <3>3, <3>4
  <2>6. k + 1 \in 0 .. 4
    OBVIOUS
  <2> QED
    BY <1>1, <1>4, <1>15, <1>16, <2>4, <2>5, <2>6 DEF Placing
<1>21. ASSUME img = U, todo = From(s, 4)
       PROVE  Placing'
  <2>1. Head(todo) = s[5]
    BY <1>17, <1>21
  <2>2. Head(todo).store = "sorting" /\ Head(todo).at = edge
    BY <1>8, <2>1 DEF ToPlaylist
  <2>3. PICK g : g = Head(todo)
    OBVIOUS
  <2>4. /\ todo' = [todo EXCEPT ![1] = ToPlaylist("sorted", g.at, img)]
        /\ img' \in Shuffled(img, g.at) /\ torn' = torn
    BY <2>2, <2>3, StoreDone
  <2>5. todo' = [From(s, 4) EXCEPT ![1] = ToPlaylist("sorted", edge, U)] /\ img' \in Shuffled(U, edge)
    BY <1>21, <2>2, <2>3, <2>4
  <2> QED
    BY <1>1, <1>2, <1>4, <1>13, <1>15, <1>16, <2>4, <2>5 DEF Placing
<1>22. ASSUME todo = [From(s, 4) EXCEPT ![1] = ToPlaylist("sorted", edge, U)]
       PROVE  Placing'
  <2>1. Head(todo) = ToPlaylist("sorted", edge, U) /\ Tail(todo) = From(s, 5)
    <3>1. PICK t, z : t = todo /\ z = ToPlaylist("sorted", edge, U)
      OBVIOUS
    <3>2. t = [From(s, 4) EXCEPT ![1] = z]
      BY <1>22, <3>1
    <3>3. Head(t) = z /\ Tail(t) = From(s, 5)
      BY <1>8, <3>2, SortElems
    <3> QED
      BY <3>1, <3>3
  <2>2. PICK g : g = Head(todo)
    OBVIOUS
  <2>3. g.store = "sorted" /\ g.at = edge /\ g.v = U
    BY <2>1, <2>2 DEF ToPlaylist
  <2>4. todo' = Tail(todo) /\ torn' = torn /\ img' \in bucket_sort(g.v, g.at)
    BY <2>2, <2>3, StoreDone
  <2>5. img' \in Placed(T, edge, p)
    BY <1>14, <2>3, <2>4
  <2> QED
    BY <1>1, <1>2, <1>4, <1>15, <1>16, <2>1, <2>4, <2>5 DEF Placing
<1>23. ASSUME img \in Placed(T, edge, p), todo = From(s, 5)
       PROVE  Placing'
  <2>1. Head(todo) = s[6] /\ Tail(todo) = From(s, 6)
    BY <1>17, <1>23
  <2>2. From(s, 6) = <<>>
    BY <1>8, FromFacts
  <2>3. PICK g : g = Head(todo)
    OBVIOUS
  <2>4. g.store = "mcount" /\ g.at = edge /\ g.v = c.mcount + 1
    BY <1>8, <2>1, <2>3 DEF ToPlaylist
  <2>5. todo' = Tail(todo) /\ torn' = torn /\ img' = [img EXCEPT !.hdr[g.at][g.store] = g.v]
    BY <2>3, <2>4, StoreDone
  <2>6. img.hdr = U.hdr
    <3>1. PICK F : img = [U EXCEPT !.idx = F]
      BY <1>14, <1>23 DEF bucket_sort
    <3>2. U = Image(n, n, v, [d EXCEPT ![edge] = PlaceCell(c, p, 4)], e, f)
      BY <1>12, <1>13
    <3> QED
      BY <3>1, <3>2 DEF Image
  <2>7. img.hdr[edge].mcount = c.mcount /\ edge \in DOMAIN img.hdr
    <3>1. U.hdr = [d EXCEPT ![edge] = c4]
      BY <1>9, <1>12, <1>13, ImageFields
    <3> QED
      BY <1>3, <1>5, <1>11, <2>6, <3>1
  <2>8. img' = Counted(img, edge)
    BY <2>4, <2>5, <2>7 DEF Counted, SetCell
  <2> QED
    BY <1>1, <1>2, <1>4, <1>15, <1>16, <1>23, <2>1, <2>2, <2>5, <2>8 DEF Placing
<1>24. ASSUME NEW k \in 0 .. 4, img = PlaceImage(T, edge, p, k), todo = From(s, k)
       PROVE  Placing'
  <2>1. CASE k \in 0 .. 3
    BY <1>20, <1>24, <2>1
  <2>2. CASE k = 4
    BY <1>13, <1>21, <1>24, <2>2
  <2> QED
    BY <2>1, <2>2
<1> QED
  BY <1>1, <1>4, <1>13, <1>22, <1>23, <1>24 DEF Placing


-----------------------------------------------------------------------------
(* From one turn to the next, or on to placing; and any store at all. *)
LEMMA TurnAgain ==
  ASSUME Sound(base), NEW j \in Nat, Turning(j, 7), Store
  PROVE  Turning(j + 1, 0)' \/ Placing'
<1>1. PICK T : T = WidenedBy(base, edge, 128 * j)
  OBVIOUS
<1>2. PICK s, p : s = TurnStores(T, edge) /\ p = cmd.path
  OBVIOUS
<1>3. PICK t : t = Turns(base.hdr[edge], PathLen[p])
  OBVIOUS
<1>4. /\ AddCall /\ ~ bucket_contains(base, edge, cmd.path) /\ j < t /\ t = Lacking
      /\ img = TurnImage(T, edge, 7) /\ todo = From(s, 7) /\ torn = 0
  BY <1>1, <1>2, <1>3 DEF Turning, Lacking
<1>5. edge \in DOMAIN base.hdr /\ p \in Paths /\ base.len + PathLen[p] + 132 < U32
  BY <1>2, <1>4, FindPlaylistFacts DEF AddCall
<1>6. t \in Nat /\ 128 * j < PathLen[p] + 132 /\ Sound(T) /\ edge \in DOMAIN T.hdr
  <2>1. t \in Nat
    BY <1>2, <1>3, <1>4, RoomyFacts DEF Lacking
  <2>2. j <= t
    BY <1>4, <2>1
  <2> QED
    BY <1>1, <1>3, <1>5, <2>2, StoresAt
<1>7. TurnImage(T, edge, 7) = WidenedBy(T, edge, 128)
  <2>1. PICK at, c, m, e, f, n : /\ at = bucket_indexes(T, edge) /\ c = T.hdr[edge] /\ n = T.len
                                 /\ m = MovedUp(T.hdr, at, 128) /\ e = MovedUp(T.str, at, 128)
                                 /\ f = MovedUp(T.idx, at, 128)
    OBVIOUS
  <2>2. ImageInv(T) /\ T.size = T.len
    BY <1>6 DEF Sound
  <2>3. /\ TurnImage(T, edge, 0) = T
        /\ TurnImage(T, edge, 0) = Image(n, n, T.vm, T.hdr, T.str, T.idx)
        /\ TurnImage(T, edge, 1) = Image(n, n + 128, T.vm, T.hdr, T.str, T.idx)
        /\ TurnImage(T, edge, 2) = Image(n + 128, n + 128, T.vm, T.hdr, T.str, T.idx)
        /\ TurnImage(T, edge, 3) = Image(n + 128, n + 128, T.vm, T.hdr, T.str, T.idx)
        /\ \A k \in 4 .. 7 : TurnImage(T, edge, k)
              = Image(n + 128, n + 128, T.vm, [m EXCEPT ![edge] = TurnCell(c, k)], e, f)
        /\ TurnImage(T, edge, 4) = Image(n + 128, n + 128, T.vm, m, e, f)
        /\ TurnImage(T, edge, 7) = WidenedBy(T, edge, 128)
        /\ edge \in DOMAIN m /\ m[edge] = c
    BY <1>6, <2>1, <2>2, TurnImages
  <2> QED
    BY <2>3
<1>8. img = WidenedBy(base, edge, 128 * (j + 1))
  <2>1. PICK a \in Nat, b \in Nat : a = 128 * j /\ b = 128
    OBVIOUS
  <2>2. a + b = 128 * (j + 1)
    BY <2>1
  <2>3. WidenedBy(WidenedBy(base, edge, a), edge, b) = WidenedBy(base, edge, a + b)
    BY <1>5, WidenedTwice DEF Sound
  <2> QED
    BY <1>1, <1>4, <1>7, <2>1, <2>2, <2>3
<1>9. PICK i \in Nat : i = j + 1
  OBVIOUS
<1>10. i <= t /\ img = WidenedBy(base, edge, 128 * i)
  BY <1>4, <1>6, <1>8, <1>9
<1>11. /\ i < t => img = TurnImage(img, edge, 0) /\ AddStores(img, edge, p) = From(TurnStores(img, edge), 0)
       /\ i = t => img = PlaceImage(img, edge, p, 0) /\ AddStores(img, edge, p) = From(PlaceStores(img, edge, p), 0)
  BY <1>3, <1>5, <1>10, StoresAt
<1>12. Head(todo) = ToFile("again", edge)
  <2>1. OfLength(s, 8) /\ s[8] = ToFile("again", edge)
    BY <1>2, TurnElems
  <2>2. PICK k \in Nat, n \in Nat : k = 7 /\ n = 8
    OBVIOUS
  <2>3. OfLength(s, n) /\ k < n
    BY <2>1, <2>2
  <2>4. Comes(s, k)
    BY <2>3, OneStore
  <2>5. Head(From(s, k)) = s[8]
    BY <2>2, <2>4 DEF Comes
  <2> QED
    BY <1>4, <2>1, <2>2, <2>5
<1>13. PICK g : g = Head(todo)
  OBVIOUS
<1>14. g.store = "again" /\ g.to = edge
  BY <1>12, <1>13 DEF ToFile
<1>15. /\ cmd' = cmd /\ base' = base /\ edge' = edge /\ torn' = 0
       /\ todo' = AddStores(img, edge, p) /\ img' = img
  <2>1. cmd' = cmd /\ base' = base /\ edge' = edge
    BY StoreDone
  <2>2. torn' = torn
    BY <1>13, <1>14, StoreDone
  <2>3. todo' = AddStores(img, g.to, cmd.path) /\ img' = img
    BY <1>13, <1>14, StoreDone
  <2> QED
    BY <1>2, <1>4, <1>14, <2>1, <2>2, <2>3
<1>16. AddCall' /\ ~ bucket_contains(base, edge, cmd.path)' /\ t = Lacking' /\ cmd'.path = p
  BY <1>2, <1>4, <1>15 DEF AddCall, Lacking
<1>17. CASE i < t
  <2>1. img' = TurnImage(img, edge, 0) /\ todo' = From(TurnStores(img, edge), 0)
    BY <1>11, <1>15, <1>17
  <2> QED
    BY <1>9, <1>10, <1>15, <1>16, <1>17, <2>1 DEF Turning
<1>18. CASE i = t
  <2>1. img = Roomy'
    BY <1>10, <1>15, <1>16, <1>18 DEF Roomy
  <2>2. img' = PlaceImage(img, edge, p, 0) /\ todo' = From(PlaceStores(img, edge, p), 0)
    BY <1>11, <1>15, <1>18
  <2>3. 0 \in 0 .. 4
    OBVIOUS
  <2> QED
    BY <1>15, <1>16, <2>1, <2>2, <2>3 DEF Placing
<1> QED
  BY <1>6, <1>9, <1>10, <1>17, <1>18

LEMMA StoreStep ==
  ASSUME CrashInv, Store
  PROVE  CrashInv'
<1>1. Sound(base) /\ todo # <<>> /\ base.len \in Nat
  BY StoreDone DEF CrashInv, Sound, ImageInv, ImageTyped
<1>2. then' = then /\ cmd' = cmd /\ base' = base /\ edge' = edge
  BY StoreDone
<1>3. Sound(base)' /\ Known'
  BY <1>1, <1>2 DEF CrashInv, Known
<1>4. CASE cmd.op = "none" /\ img = base /\ edge = base.len /\ todo = <<>> /\ torn = 0
  BY <1>1, <1>4
<1>5. ASSUME NEW k \in 0 .. 9, Starting(k)
      PROVE  \E i \in 0 .. 9 : Starting(i)'
  <2>1. CASE k \in 0 .. 8
    <3>1. Starting(k + 1)'
      BY <1>1, <1>5, <2>1, StartNext
    <3>2. k + 1 \in 0 .. 9
      BY <2>1
    <3> QED
      BY <3>1, <3>2
  <2>2. CASE k = 9
    <3>1. OfLength(StartStores(base, cmd.name), 9) /\ 9 \in Nat
      BY StartElems
    <3>2. From(StartStores(base, cmd.name), 9) = <<>>
      BY <3>1, FromFacts
    <3> QED
      BY <1>1, <1>5, <2>2, <3>2 DEF Starting
  <2> QED
    BY <2>1, <2>2
<1>6. ASSUME NEW k \in 0 .. 4, Deleting(k)
      PROVE  \E i \in 0 .. 4 : Deleting(i)'
  <2>1. CASE k \in 0 .. 3
    <3>1. Deleting(k + 1)'
      BY <1>6, <2>1, DeleteNext
    <3>2. k + 1 \in 0 .. 4
      BY <2>1
    <3> QED
      BY <3>1, <3>2
  <2>2. CASE k = 4
    <3>1. PICK s, n : s = DeleteStores(base, edge) /\ n = base.hdr[edge].length
      OBVIOUS
    <3>2. OfLength(s, 4) /\ 4 \in Nat
      BY <3>1, DeleteElems
    <3>3. From(s, 4) = <<>>
      BY <3>2, FromFacts
    <3> QED
      BY <1>1, <1>6, <2>2, <3>1, <3>3 DEF Deleting
  <2> QED
    BY <2>1, <2>2
<1>7. CASE Refused
  BY <1>1, <1>7 DEF Refused
<1>8. ASSUME NEW j \in Nat, NEW k \in 0 .. 7, Turning(j, k)
      PROVE  (\E i \in Nat, q \in 0 .. 7 : Turning(i, q)') \/ Placing'
  <2>1. CASE k \in 0 .. 6
    <3>1. base.len + 128 * j < U32
      <4>1. AddCall /\ j < Lacking
        BY <1>8 DEF Turning
      <4>2. Lacking \in Nat /\ 128 * Lacking < PathLen[cmd.path] + 132
        BY <1>1, <4>1, RoomyFacts
      <4>3. PathLen[cmd.path] \in Nat /\ U32 \in Nat /\ base.len + PathLen[cmd.path] + 132 < U32
        <5>1. cmd.path \in Paths /\ base.len + PathLen[cmd.path] + 132 < U32
          BY <4>1 DEF AddCall
        <5>2. \A p \in Paths : PathLen[p] \in Nat
          BY PathsAssumption
        <5>3. U32 \in Nat
          BY SizesAssumption
        <5> QED
          BY <5>1, <5>2, <5>3
      <4>4. 128 * j < PathLen[cmd.path] + 132
        BY <4>1, <4>2, <4>3
      <4> QED
        BY <1>1, <4>3, <4>4
    <3>2. Turning(j, k + 1)'
      BY <1>1, <1>8, <2>1, <3>1, TurnNext
    <3>3. k + 1 \in 0 .. 7
      BY <2>1
    <3> QED
      BY <3>2, <3>3
  <2>2. CASE k = 7
    <3>1. Turning(j + 1, 0)' \/ Placing'
      BY <1>1, <1>8, <2>2, TurnAgain
    <3>2. j + 1 \in Nat /\ 0 \in 0 .. 7
      OBVIOUS
    <3> QED
      BY <3>1, <3>2
  <2> QED
    BY <2>1, <2>2
<1>9. ASSUME Placing
      PROVE  Placing'
  BY <1>1, <1>9, PlaceNext
<1>10. Stage'
  <2>1. ASSUME \E k \in 0 .. 9 : Starting(k) PROVE Stage'
    BY <1>5, <2>1 DEF Stage
  <2>2. ASSUME \E k \in 0 .. 4 : Deleting(k) PROVE Stage'
    BY <1>6, <2>2 DEF Stage
  <2>3. ASSUME \E j \in Nat, k \in 0 .. 7 : Turning(j, k) PROVE Stage'
    BY <1>8, <2>3 DEF Stage
  <2>4. ASSUME Placing PROVE Stage'
    BY <1>9, <2>4 DEF Stage
  <2> QED
    BY <1>4, <1>7, <2>1, <2>2, <2>3, <2>4 DEF CrashInv, Stage
<1> QED
  BY <1>3, <1>10 DEF CrashInv


-----------------------------------------------------------------------------
(* What a call that was not cut short leaves is sound. *)
LEMMA LongerInv ==
  ASSUME NEW I, ImageInv(I), NEW a \in Nat, I.len <= a, a < U32, NEW b \in Nat, a <= b, NEW c \in Int,
         NEW J, J = Image(a, b, c, I.hdr, I.str, I.idx)
  PROVE  ImageInv(J)
<1>1. /\ J.len = a /\ J.size = b /\ J.vm = c
      /\ J.hdr = I.hdr /\ J.str = I.str /\ J.idx = I.idx
  BY ImageFields
<1>2. I.len \in Nat /\ I.hdr \in [DOMAIN I.hdr -> Cell]
      /\ I.str \in [DOMAIN I.str -> Paths] /\ I.idx \in [DOMAIN I.idx -> Nat]
      /\ DOMAIN I.hdr \cup DOMAIN I.str \cup DOMAIN I.idx \subseteq Nat
  BY DEF ImageInv, ImageTyped
<1>3. ImageTyped(J)
  <2>1. J \in [len : Nat, size : Nat, vm : Int, hdr : [DOMAIN I.hdr -> Cell],
               str : [DOMAIN I.str -> Paths], idx : [DOMAIN I.idx -> Nat]]
    BY <1>2 DEF Image
  <2> QED
    BY <1>1, <1>2, <2>1 DEF ImageTyped
<1>4. SlotsFilled(J)
  BY <1>1, SameSlots DEF ImageInv, SlotsFilled
<1>5. \A h \in DOMAIN J.hdr : CellFits(J, h)
  <2> SUFFICES ASSUME NEW h \in DOMAIN J.hdr PROVE CellFits(J, h)
    OBVIOUS
  <2>1. /\ h \in Nat /\ I.hdr[h].length \in Nat /\ h + I.hdr[h].length <= I.len /\ CellFits(I, h)
    BY <1>1, CellFacts DEF ImageInv, CellsFit
  <2>2. h + I.hdr[h].length <= a
    BY <1>2, <2>1
  <2> QED
    BY <1>1, <2>1, <2>2 DEF CellFits
<1> QED
  BY <1>1, <1>2, <1>3, <1>4, <1>5 DEF ImageInv, CellsFit, Disjoint, HeaderSize

LEMMA StartMade ==
  ASSUME NEW B, Sound(B), B.len + 272 < U32, NEW n \in Names, NEW J, J = StartImage(B, n, 9)
  PROVE  ImageInv(J) /\ Made(B, J, n) /\ J.str = B.str /\ J.idx = B.idx /\ J.size = J.len
<1>1. PICK a, b : a = B.len /\ b = B.len + 272
  OBVIOUS
<1>2. a \in Nat /\ b \in Nat /\ a <= b /\ b < U32 /\ b <= b /\ 1024 <= a /\ B.vm \in Int /\ a + 272 <= b
  BY <1>1 DEF Sound, ImageInv, ImageTyped, HeaderSize
<1>3. PICK Q : Q = Image(b, b, B.vm, B.hdr, B.str, B.idx)
  OBVIOUS
<1>4. Q.len = b /\ Q.size = b /\ Q.hdr = B.hdr /\ Q.str = B.str /\ Q.idx = B.idx
  BY <1>3, ImageFields
<1>5. ImageInv(Q)
  BY <1>1, <1>2, <1>3, LongerInv DEF Sound
<1>6. J = Image(b, b, B.vm, Put(B.hdr, a, StartCell(n, 9)), B.str, B.idx)
  BY <1>1, StartImages
<1>7. StartCell(n, 9) = NewPlaylist(n)
  BY LayoutConstants DEF StartCell, NewPlaylist
<1>8. J = WithPlaylist(Q, a, n)
  <2>1. PICK d : d = Put(B.hdr, a, NewPlaylist(n))
    OBVIOUS
  <2>2. [Q EXCEPT !.hdr = d] = Image(b, b, B.vm, d, B.str, B.idx)
    BY <1>3 DEF Image
  <2> QED
    BY <1>4, <1>6, <1>7, <2>1, <2>2 DEF WithPlaylist
<1>9. \A o \in DOMAIN Q.hdr : o + Q.hdr[o].length <= a
  BY <1>1, <1>4, CellFacts DEF Sound
<1>10. ImageInv(J)
  BY <1>2, <1>4, <1>5, <1>8, <1>9, WithPlaylistSafe
<1>11. Made(B, J, n)
  BY <1>1, <1>4, <1>5, <1>8 DEF Made
<1>12. J.str = B.str /\ J.idx = B.idx /\ J.size = J.len
  BY <1>6, ImageFields
<1> QED
  BY <1>10, <1>11, <1>12

LEMMA MadeSound ==
  ASSUME NEW B, Sound(B), NEW n, NEW J, ImageInv(J), Made(B, J, n),
         J.str = B.str, J.idx = B.idx, J.size = J.len
  PROVE  Sound(J)
<1>1. PICK at : at = B.len
  OBVIOUS
<1>2. ImageInv(B) /\ AllSound(B) /\ Chained(B) /\ Tidy(B)
  BY DEF Sound
<1>3. /\ at \in Nat /\ at \notin DOMAIN B.hdr /\ J.len = at + 272
      /\ DOMAIN J.hdr = DOMAIN B.hdr \cup {at}
      /\ J.hdr[at] = NewPlaylist(n) /\ bucket_nr_indexes(J, at) = 0
      /\ \A g \in DOMAIN B.hdr : Kept(B, g, J, g) /\ J.hdr[g].length = B.hdr[g].length
  BY <1>1, <1>2, MadeFacts
<1>4. BucketSound(J, at)
  <2>1. Slots(J, at) = {}
    BY <1>3 DEF Slots
  <2> QED
    BY <2>1 DEF BucketSound, Words
<1>5. \A g \in DOMAIN B.hdr : BucketSound(J, g)
  BY <1>2, <1>3, KeptFacts DEF AllSound
<1>6. AllSound(J)
  BY <1>3, <1>4, <1>5 DEF AllSound
<1>7. Chained(J)
  BY <1>2, MadeChain
<1>8. Tidy(J)
  <2>1. \A o \in DOMAIN B.str \cup DOMAIN B.idx : o \in Nat
    BY <1>2 DEF ImageInv, ImageTyped
  <2> QED
    BY <1>1, <1>2, <1>3, <2>1 DEF Tidy
<1>9. Begun(J, at)
  <2>1. J.hdr[at].sbytes = 0
    BY <1>3 DEF NewPlaylist
  <2>2. Strings(at) = at + 144
    BY LayoutConstants DEF Strings
  <2>3. Strings(at) \notin DOMAIN J.str
    BY <1>1, <1>2, <1>3, <2>2 DEF Tidy
  <2> QED
    BY <2>1, <2>3 DEF Begun
<1>10. \A g \in DOMAIN B.hdr : Begun(J, g)
  BY <1>3, KeptBegun DEF Sound
<1> QED
  BY <1>3, <1>6, <1>7, <1>8, <1>9, <1>10 DEF Sound

LEMMA DeleteDone ==
  ASSUME NEW B, Sound(B), NEW h \in DOMAIN B.hdr, NEW J, J = DeleteImage(B, h, 4)
  PROVE  /\ J = Cut(Closed(B, h, h + B.hdr[h].length), B.len - B.hdr[h].length)
         /\ ImageInv(J) /\ Excised(B, J, h, B.hdr[h].length) /\ Sound(J)
<1>1. PICK n : n = B.hdr[h].length
  OBVIOUS
<1>2. ImageInv(B) /\ AllSound(B) /\ Chained(B) /\ Tidy(B) /\ B.size = B.len
  BY DEF Sound
<1>3. PICK M : M = Closed(B, h, h + n)
  OBVIOUS
<1>4. /\ h \in Nat /\ n \in Nat /\ B.len \in Nat /\ h + n <= B.len /\ 1024 <= h /\ 144 <= n
      /\ B.hdr[h] \in Cell
  <2>1. /\ h \in Nat /\ n \in Nat /\ B.len \in Nat /\ h + n <= B.len /\ 1024 <= h
        /\ B.hdr[h].blen \in Nat /\ n = B.hdr[h].blen + 144 /\ B.hdr[h] \in Cell
    BY <1>1, <1>2, CellFacts
  <2> QED
    BY <2>1
<1>5. PICK m \in Nat : m = B.len - n
  BY <1>4
<1>6. B = Image(B.len, B.len, B.vm, B.hdr, B.str, B.idx)
  BY <1>2, ImageRecord DEF ImageInv
<1>7. PICK d, e, f : /\ d = MovedDown(B.hdr, h, h + n, B.len) /\ e = MovedDown(B.str, h, h + n, B.len)
                     /\ f = MovedDown(B.idx, h, h + n, B.len)
  OBVIOUS
<1>8. M = Image(B.len, B.len, B.vm, d, e, f)
  <2>1. PICK q : q = h + n
    OBVIOUS
  <2> QED
    BY <1>3, <1>6, <1>7, <2>1, ImageClosed
<1>9. Cut(M, m) = Image(m, m, B.vm, CutAt(d, m), CutAt(e, m), CutAt(f, m))
  BY <1>8, ImageCut
<1>10. J = Image(m, m, B.vm, CutAt(d, m), CutAt(e, m), CutAt(f, m))
  BY <1>1, <1>5, <1>7, DeleteImages
<1>11. J = Cut(M, m)
  BY <1>9, <1>10
<1>12. /\ ImageInv(M) /\ M.len = B.len
       /\ \A o \in DOMAIN M.hdr : o < B.len - n => o + M.hdr[o].length <= B.len - n
  <2>1. ImageInv(M) /\ M.len = B.len
    BY <1>1, <1>2, <1>3, ClosedSafe
  <2>2. \A o \in DOMAIN M.hdr : o < B.len - n => o + M.hdr[o].length <= B.len - n
    BY <1>1, <1>2, <1>3, ClosedSafe, Zenon
  <2> QED
    BY <2>1, <2>2
<1>13. ImageInv(J)
  BY <1>4, <1>5, <1>11, <1>12, CutSafe
<1>14. Excised(B, J, h, n)
  BY <1>1, <1>2, <1>3, <1>5, <1>11, ExcisedAfterCut
<1>15. AllSound(J)
  <2>1. \A g \in DOMAIN J.hdr : \E k \in DOMAIN B.hdr : Kept(B, k, J, g)
    BY <1>14 DEF Excised
  <2> QED
    BY <1>2, <2>1, FromSound
<1>16. Chained(J)
  BY <1>1, <1>2, <1>14, ExcisedChain
<1>17. /\ J.len = m /\ J.size = m /\ J.str = CutAt(e, m) /\ J.idx = CutAt(f, m)
  BY <1>10, ImageFields
<1>18. Tidy(J)
  <2>1. \A o \in DOMAIN CutAt(e, m) : o < m
    BY DEF CutAt
  <2>2. \A o \in DOMAIN CutAt(f, m) : o < m
    BY DEF CutAt
  <2> QED
    BY <1>17, <2>1, <2>2 DEF Tidy
<1>19. ASSUME NEW k \in DOMAIN B.hdr, k # h
       PROVE  Begun(J, MovedBack(h, n, k))
  <2>1. PICK g : g = MovedBack(h, n, k)
    OBVIOUS
  <2>2. Kept(B, k, J, g)
    BY <1>14, <1>19, <2>1 DEF Excised
  <2>3. /\ k \in Nat /\ k + B.hdr[k].length <= B.len /\ 144 < B.hdr[k].length /\ B.hdr[k].length \in Nat
    <3>1. /\ k \in Nat /\ k + B.hdr[k].length <= B.len /\ B.hdr[k].length = B.hdr[k].blen + 144
          /\ 16 + B.hdr[k].sbytes < B.hdr[k].ioff /\ B.hdr[k].ioff <= B.hdr[k].blen
          /\ B.hdr[k].blen \in Nat /\ B.hdr[k].ioff \in Nat /\ B.hdr[k].sbytes \in Nat
      BY <1>2, CellFacts
    <3> QED
      BY <3>1
  <2>4. Strings(g) \in DOMAIN J.str => Strings(k) \in DOMAIN B.str
    <3>1. Strings(g) = g + 144 /\ Strings(k) = k + 144
      BY LayoutConstants DEF Strings
    <3>2. DOMAIN J.str \subseteq DOMAIN e
      BY <1>17 DEF CutAt
    <3>3. B.str = [o \in DOMAIN B.str |-> B.str[o]] /\ DOMAIN B.str \subseteq Nat
      BY <1>2, ImageRecord DEF ImageInv
    <3>4. /\ \A o \in DOMAIN e : o < h \/ o >= B.len - n => o \in DOMAIN B.str
          /\ \A o \in DOMAIN e : ~ (o < h \/ o >= B.len - n) => o + n \in DOMAIN B.str
      <4>1. h <= h + n /\ h + n \in Nat /\ h + n <= B.len /\ (h + n) - h = n
        BY <1>4
      <4>2. PICK q \in Nat : q = h + n
        BY <4>1
      <4>3. e = MovedDown(B.str, h, q, B.len) /\ h <= q /\ q <= B.len /\ q - h = n
        BY <1>7, <4>1, <4>2
      <4>4. /\ \A o \in DOMAIN e : o < h \/ o >= B.len - (q - h) => o \in DOMAIN B.str
            /\ \A o \in DOMAIN e : ~ (o < h \/ o >= B.len - (q - h)) => o + (q - h) \in DOMAIN B.str
        BY <1>4, <3>3, <4>3, MovedDownCells
      <4> QED
        BY <4>3, <4>4
    <3>5. k < h => g = k /\ k + B.hdr[k].length <= h
      BY <1>2, <2>1 DEF MovedBack, ImageInv, Disjoint
    <3>6. k > h => g = k - n /\ h + n <= k
      <4>1. h < k => h + n <= k
        BY <1>1, <1>2 DEF ImageInv, Disjoint
      <4>2. k > h => ~ k < h /\ h < k
        BY <1>4, <2>3
      <4> QED
        BY <2>1, <4>1, <4>2 DEF MovedBack
    <3>7. CASE k < h
      BY <1>4, <2>3, <3>1, <3>2, <3>4, <3>5, <3>7
    <3>8. CASE k > h
      BY <1>4, <2>3, <3>1, <3>2, <3>4, <3>6, <3>8
    <3> QED
      BY <1>4, <1>19, <2>3, <3>7, <3>8
  <2> QED
    BY <2>1, <2>2, <2>4, KeptBegun DEF Sound
<1>20. \A g \in DOMAIN J.hdr : Begun(J, g)
  BY <1>14, <1>19 DEF Excised
<1> QED
  BY <1>1, <1>3, <1>5, <1>11, <1>13, <1>14, <1>15, <1>16, <1>17, <1>18, <1>20 DEF Sound

LEMMA GainedSound ==
  ASSUME NEW T, Sound(T), NEW h \in DOMAIN T.hdr, NEW p \in Paths,
         16 + T.hdr[h].sbytes + PathLen[p] < T.hdr[h].ioff - 4,
         NEW K \in Placed(T, h, p), NEW J, J = Counted(K, h)
  PROVE  Sound(J) /\ ImageInv(K) /\ Entered(T, K, h, p)
<1>1. ImageInv(T) /\ AllSound(T) /\ Chained(T) /\ Tidy(T) /\ T.size = T.len
  BY DEF Sound
<1>2. ImageInv(K) /\ h \in DOMAIN K.hdr
  BY <1>1, PlacedSafe
<1>3. Entered(T, K, h, p)
  BY <1>1, PlacedKeeps
<1>4. AllSound(K)
  BY <1>1, <1>3, EnteredSound
<1>5. ImageInv(J)
  BY <1>2, CountedSafe
<1>6. AllSound(J)
  BY <1>2, <1>4, CountedSound
<1>7. /\ J.len = K.len /\ J.str = K.str /\ J.idx = K.idx /\ DOMAIN J.hdr = DOMAIN K.hdr
      /\ \A o \in DOMAIN K.hdr :
           /\ J.hdr[o].name = K.hdr[o].name /\ J.hdr[o].length = K.hdr[o].length
           /\ J.hdr[o].blen = K.hdr[o].blen /\ J.hdr[o].ioff = K.hdr[o].ioff
           /\ J.hdr[o].sbytes = K.hdr[o].sbytes
           /\ J.hdr[o].mcount = K.hdr[o].mcount + IF o = h THEN 1 ELSE 0
  BY <1>2, CountedKeeps
<1>8. /\ K.len = T.len /\ DOMAIN K.hdr = DOMAIN T.hdr
      /\ \A g \in DOMAIN T.hdr : K.hdr[g].length = T.hdr[g].length /\ (g # h => Kept(T, g, K, g))
      /\ K.hdr[h].sbytes = T.hdr[h].sbytes + PathLen[p]
      /\ Words(K, h) = Words(T, h) \cup {T.hdr[h].sbytes}
  BY <1>3 DEF Entered
<1>9. Chained(J)
  <2>1. J.len = T.len /\ DOMAIN J.hdr = DOMAIN T.hdr /\ \A k \in DOMAIN T.hdr : J.hdr[k].length = T.hdr[k].length
    BY <1>7, <1>8
  <2> QED
    BY <1>1, <2>1, SameChain
<1>10. PICK c, x, y : /\ c = T.hdr[h] /\ x = Strings(h) + c.sbytes /\ y = bucket_indexes(T, h) - 4
  OBVIOUS
<1>11. PICK e, f, U : /\ e = Put(T.str, x, p) /\ f = Put(T.idx, y, c.sbytes)
                      /\ U = PlaceImage(T, h, p, 4)
  OBVIOUS
<1>12. U = Image(T.len, T.len, T.vm, [T.hdr EXCEPT ![h] = PlaceCell(c, p, 4)], e, f)
  BY <1>10, <1>11, LayoutConstants DEF PlaceImage
<1>13. K.str = e /\ DOMAIN K.idx = DOMAIN f /\ K.size = K.len
  <2>1. K \in bucket_sort(U, h)
    BY <1>1, <1>11, PlacedSorts
  <2>2. PICK F : K = [U EXCEPT !.idx = [o \in DOMAIN U.idx |-> IF o \in Slots(U, h) THEN F[o] ELSE U.idx[o]]]
    BY <2>1 DEF bucket_sort
  <2>3. PICK G : G = [o \in DOMAIN U.idx |-> IF o \in Slots(U, h) THEN F[o] ELSE U.idx[o]]
    OBVIOUS
  <2>4. DOMAIN G = DOMAIN f
    BY <1>12, <2>3, ImageFields
  <2>5. K = Image(T.len, T.len, T.vm, [T.hdr EXCEPT ![h] = PlaceCell(c, p, 4)], e, G)
    BY <1>12, <2>2, <2>3 DEF Image
  <2>6. K.len = T.len /\ K.size = T.len /\ K.str = e /\ K.idx = G
    BY <2>5, ImageFields
  <2> QED
    BY <2>4, <2>6
<1>14. J.size = J.len
  <2>1. J.size = K.size
    BY DEF Counted, SetCell
  <2> QED
    BY <1>7, <1>13, <2>1
<1>15. /\ h \in Nat /\ c.sbytes \in Nat /\ c.ioff \in Nat /\ x = h + 144 + c.sbytes /\ y = h + 124 + c.ioff
       /\ 144 + c.sbytes < c.ioff + 124 /\ c.ioff + 144 <= c.length /\ c.length \in Nat
       /\ h + c.length <= T.len /\ T.len \in Nat /\ PathLen[p] \in Nat /\ PathLen[p] > 0
  <2>1. /\ h \in Nat /\ T.len \in Nat /\ h + c.length <= T.len /\ c.length = c.blen + 144
        /\ 16 + c.sbytes < c.ioff /\ c.ioff <= c.blen
        /\ c.length \in Nat /\ c.blen \in Nat /\ c.ioff \in Nat /\ c.sbytes \in Nat
    BY <1>1, <1>10, CellFacts
  <2>2. Strings(h) = h + 144 /\ bucket_indexes(T, h) = h + 128 + c.ioff
    BY <1>1, <1>10, Regions
  <2>3. PathLen[p] \in Nat /\ PathLen[p] > 0
    BY PathsAssumption
  <2> QED
    BY <1>10, <2>1, <2>2, <2>3
<1>16. Tidy(J)
  <2>1. DOMAIN J.str = DOMAIN T.str \cup {x} /\ DOMAIN J.idx = DOMAIN T.idx \cup {y}
    BY <1>7, <1>11, <1>13 DEF Put
  <2>2. x < T.len /\ y < T.len
    BY <1>15
  <2> QED
    BY <1>1, <1>7, <1>8, <2>1, <2>2 DEF Tidy
<1>17. \A g \in DOMAIN T.hdr : Words(J, g) = Words(K, g)
  BY <1>7, <1>8 DEF Words, Slots, bucket_indexes, bucket_nr_indexes
<1>18. Begun(K, h)
  <2>1. K.hdr[h].sbytes # 0
    BY <1>8, <1>10, <1>15
  <2>2. 0 \in Words(K, h)
    BY <1>8, <1>10 DEF Sound, Begun
  <2> QED
    BY <2>1, <2>2 DEF Begun
<1>19. ASSUME NEW g \in DOMAIN T.hdr, g # h PROVE Begun(K, g)
  <2>1. Strings(g) # x
    <3>1. /\ g \in Nat /\ g + T.hdr[g].length <= T.len /\ T.hdr[g].length = T.hdr[g].blen + 144
          /\ T.hdr[g].blen \in Nat /\ T.hdr[g].ioff \in Nat /\ T.hdr[g].sbytes \in Nat
          /\ 16 + T.hdr[g].sbytes < T.hdr[g].ioff /\ T.hdr[g].ioff <= T.hdr[g].blen
      BY <1>1, CellFacts
    <3>2. Strings(g) = g + 144
      BY LayoutConstants DEF Strings
    <3>3. g < h => g + T.hdr[g].length <= h
      BY <1>1 DEF ImageInv, Disjoint
    <3>4. h < g => h + c.length <= g
      BY <1>1, <1>10 DEF ImageInv, Disjoint
    <3> QED
      BY <1>15, <1>19, <3>1, <3>2, <3>3, <3>4
  <2>2. Strings(g) \in DOMAIN K.str => Strings(g) \in DOMAIN T.str
    BY <1>11, <1>13, <2>1 DEF Put
  <2> QED
    BY <1>8, <1>19, <2>2, KeptBegun DEF Sound
<1>20. \A g \in DOMAIN J.hdr : Begun(J, g)
  BY <1>7, <1>8, <1>17, <1>18, <1>19 DEF Begun
<1> QED
  BY <1>2, <1>3, <1>5, <1>6, <1>9, <1>14, <1>16, <1>20 DEF Sound


-----------------------------------------------------------------------------
(* The calls begin from a file at rest. *)
Resting ==
  \/ cmd.op = "none" /\ img = base /\ edge = base.len
  \/ Starting(9)
  \/ Deleting(4)
  \/ Refused
  \/ /\ AddCall /\ ~ bucket_contains(base, edge, cmd.path)
     /\ \E J \in Placed(Roomy, edge, cmd.path) : img = Counted(J, edge)

LEMMA AtRest ==
  ASSUME Stage, todo = <<>>
  PROVE  Resting /\ torn = 0
<1>1. ASSUME NEW k \in 0 .. 9, Starting(k) PROVE k = 9 /\ torn = 0
  <2>0. PICK n \in Nat : n = 9
    OBVIOUS
  <2>1. PICK s : s = StartStores(base, cmd.name)
    OBVIOUS
  <2>2. OfLength(s, n)
    BY <2>0, <2>1, StartElems
  <2>3. k \in Nat /\ (k < n => From(s, k) # <<>>)
    BY <2>2, FromFacts
  <2> QED
    BY <1>1, <2>0, <2>1, <2>3 DEF Starting
<1>2. ASSUME NEW k \in 0 .. 4, Deleting(k) PROVE k = 4 /\ torn = 0
  <2>0. PICK n \in Nat : n = 4
    OBVIOUS
  <2>1. PICK s, l : s = DeleteStores(base, edge) /\ l = base.hdr[edge].length
    OBVIOUS
  <2>2. OfLength(s, n)
    BY <2>0, <2>1, DeleteElems
  <2>3. k \in Nat /\ (k < n => From(s, k) # <<>>)
    BY <2>2, FromFacts
  <2>4. k = 4
    BY <1>2, <2>0, <2>1, <2>3 DEF Deleting
  <2>5. k # 1
    BY <2>4
  <2> QED
    BY <1>2, <2>4, <2>5 DEF Deleting
<1>3. ASSUME NEW j \in Nat, NEW k \in 0 .. 7, Turning(j, k) PROVE FALSE
  <2>0. PICK n \in Nat : n = 8
    OBVIOUS
  <2>1. PICK T, s, c : T = WidenedBy(base, edge, 128 * j) /\ s = TurnStores(T, edge) /\ c = T.hdr[edge]
    OBVIOUS
  <2>2. OfLength(s, n)
    BY <2>0, <2>1, TurnElems
  <2>3. k \in Nat /\ (k < n => From(s, k) # <<>>)
    BY <2>2, FromFacts
  <2> QED
    BY <1>3, <2>0, <2>1, <2>3 DEF Turning
<1>4. ASSUME Placing
      PROVE  /\ AddCall /\ ~ bucket_contains(base, edge, cmd.path) /\ torn = 0
             /\ \E J \in Placed(Roomy, edge, cmd.path) : img = Counted(J, edge)
  <2>0. PICK n \in Nat : n = 6
    OBVIOUS
  <2>1. PICK s, c : s = PlaceStores(Roomy, edge, cmd.path) /\ c = Roomy.hdr[edge]
    OBVIOUS
  <2>2. OfLength(s, n)
    BY <2>0, <2>1, PlaceElems
  <2>3. \A k \in Nat : k < n => From(s, k) # <<>>
    BY <2>2, FromFacts
  <2>4. ASSUME NEW k \in 0 .. 4, todo = From(s, k) PROVE FALSE
    BY <2>0, <2>3, <2>4
  <2>5. ASSUME todo = From(s, 5) PROVE FALSE
    BY <2>0, <2>3, <2>5
  <2>6. ASSUME NEW U, todo = [From(s, 4) EXCEPT ![1] = ToPlaylist("sorted", edge, U)] PROVE FALSE
    <3>1. PICK x : x = ToPlaylist("sorted", edge, U)
      OBVIOUS
    <3>2. todo = [From(s, 4) EXCEPT ![1] = x] /\ OfLength(s, 6)
      BY <2>0, <2>2, <2>6, <3>1
    <3>3. PICK t : t = [From(s, 4) EXCEPT ![1] = x]
      OBVIOUS
    <3>4. t # <<>>
      BY <3>2, <3>3, SortElems
    <3> QED
      BY <3>2, <3>3, <3>4
  <2> QED
    BY <1>4, <2>1, <2>4, <2>5, <2>6 DEF Placing
<1> QED
  BY <1>1, <1>2, <1>3, <1>4 DEF Stage, Resting, Refused

LEMMA RestSound ==
  ASSUME Sound(base), Resting
  PROVE  Sound(img)
<1>1. CASE Starting(9)
  <2>1. PICK n : n = cmd.name
    OBVIOUS
  <2>2. n \in Names /\ base.len <= MaxLen /\ img = StartImage(base, n, 9)
    BY <1>1, <2>1 DEF Starting
  <2>3. base.len + 272 < U32
    <3>1. MaxLen + 272 < U32 /\ MaxLen \in Nat
      BY CrashAssumption, LayoutConstants
    <3>2. base.len \in Nat /\ U32 \in Nat
      BY SizesAssumption DEF Sound, ImageInv, ImageTyped
    <3> QED
      BY <2>2, <3>1, <3>2
  <2>4. ImageInv(img) /\ Made(base, img, n) /\ img.str = base.str /\ img.idx = base.idx /\ img.size = img.len
    BY <2>2, <2>3, StartMade
  <2> QED
    BY <2>4, MadeSound
<1>2. CASE Deleting(4)
  BY <1>2, DeleteDone, FindPlaylistFacts DEF Deleting
<1>3. ASSUME AddCall, NEW J \in Placed(Roomy, edge, cmd.path), img = Counted(J, edge)
      PROVE  Sound(img)
  <2>1. PICK T, p : T = Roomy /\ p = cmd.path
    OBVIOUS
  <2>2. /\ Sound(T) /\ edge \in DOMAIN T.hdr /\ p \in Paths
        /\ 16 + T.hdr[edge].sbytes + PathLen[p] < T.hdr[edge].ioff - 4
    BY <1>3, <2>1, RoomyFacts DEF AddCall
  <2> QED
    BY <1>3, <2>1, <2>2, GainedSound
<1> QED
  BY <1>1, <1>2, <1>3 DEF Resting, Refused

LEMMA StartStep ==
  ASSUME CrashInv, NEW n \in Names, StartPlaylist(n)
  PROVE  CrashInv'
<1>1. /\ todo = <<>> /\ then = NoName /\ img.len <= MaxLen /\ find_playlist(img, n) = {}
      /\ cmd' = Call("start", n, Empty) /\ todo' = StartStores(img, n) /\ base' = img /\ edge' = img.len
      /\ img' = img /\ torn' = torn /\ then' = then
  BY DEF StartPlaylist, Begins, Idle
<1>2. Sound(img) /\ torn = 0
  BY <1>1, AtRest, RestSound DEF CrashInv
<1>3. cmd'.op = "start" /\ cmd'.name = n
  BY <1>1 DEF Call
<1>4. img = StartImage(img, n, 0)
  <2>1. img = Image(img.len, img.len, img.vm, img.hdr, img.str, img.idx)
    BY <1>2, ImageRecord DEF Sound, ImageInv
  <2> QED
    BY <2>1, StartImages
<1>5. todo' = From(StartStores(img, n), 0)
  <2>1. OfLength(StartStores(img, n), 9) /\ 9 \in Nat /\ 0 \in Nat
    BY StartElems
  <2> QED
    BY <1>1, <2>1, FromFacts
<1>6. Starting(0)' /\ 0 \in 0 .. 9
  BY <1>1, <1>2, <1>3, <1>4, <1>5 DEF Starting
<1>7. Known'
  BY <1>1 DEF Known
<1> QED
  BY <1>1, <1>2, <1>6, <1>7 DEF CrashInv, Stage

LEMMA DeleteStep ==
  ASSUME CrashInv, NEW n \in Names, DeletePlaylist(n)
  PROVE  CrashInv'
<1>1. PICK h \in find_playlist(img, n) :
        /\ todo = <<>> /\ then = NoName
        /\ cmd' = Call("delete", n, Empty) /\ todo' = DeleteStores(img, h) /\ base' = img /\ edge' = h
        /\ img' = img /\ torn' = torn /\ then' = then
  BY DEF DeletePlaylist, Begins, Idle
<1>2. Sound(img) /\ torn = 0
  BY <1>1, AtRest, RestSound DEF CrashInv
<1>3. cmd'.op = "delete" /\ cmd'.name = n
  BY <1>1 DEF Call
<1>4. PICK l : l = img.hdr[h].length
  OBVIOUS
<1>5. img = DeleteImage(img, h, 0)
  <2>1. img = Image(img.len, img.len, img.vm, img.hdr, img.str, img.idx)
    BY <1>2, ImageRecord DEF Sound, ImageInv
  <2> QED
    BY <1>4, <2>1, DeleteImages
<1>6. todo' = From(DeleteStores(img, h), 0)
  <2>1. PICK s : s = DeleteStores(img, h)
    OBVIOUS
  <2>2. OfLength(s, 4) /\ 4 \in Nat /\ 0 \in Nat
    BY <1>4, <2>1, DeleteElems
  <2> QED
    BY <1>1, <2>1, <2>2, FromFacts
<1>7. 0 # 1
  OBVIOUS
<1>8. Deleting(0)' /\ 0 \in 0 .. 4
  BY <1>1, <1>2, <1>3, <1>5, <1>6, <1>7 DEF Deleting
<1>9. Known'
  BY <1>1 DEF Known
<1> QED
  BY <1>1, <1>2, <1>8, <1>9 DEF CrashInv, Stage

LEMMA AddingStage ==
  ASSUME Sound(img), torn = 0, NEW n, NEW p \in Paths, img.len + PathLen[p] + 132 < U32, Adding(n, p)
  PROVE  Sound(base)' /\ Stage' /\ cmd'.op = "add" /\ base' = img
<1>1. PICK h \in find_playlist(img, n) :
        /\ cmd' = Call("add", n, p) /\ base' = img /\ edge' = h /\ img' = img /\ torn' = torn
        /\ todo' = IF bucket_contains(img, h, p) THEN <<>> ELSE AddStores(img, h, p)
  BY DEF Adding, Begins
<1>2. cmd'.op = "add" /\ cmd'.name = n /\ cmd'.path = p
  BY <1>1 DEF Call
<1>3. AddCall'
  BY <1>1, <1>2 DEF AddCall
<1>4. h \in DOMAIN img.hdr
  BY FindPlaylistFacts
<1>5. CASE bucket_contains(img, h, p)
  <2>1. Refused'
    BY <1>1, <1>2, <1>3, <1>5 DEF Refused
  <2> QED
    BY <1>1, <1>2, <2>1 DEF Stage
<1>6. CASE ~ bucket_contains(img, h, p)
  <2>1. PICK t : t = Turns(img.hdr[h], PathLen[p])
    OBVIOUS
  <2>2. t \in Nat
    <3>1. img.hdr[h] \in Cell /\ 16 + img.hdr[h].sbytes < img.hdr[h].ioff
      BY <1>4, CellFacts DEF Sound
    <3>2. PathLen[p] \in Nat
      BY PathsAssumption
    <3> QED
      BY <2>1, <3>1, <3>2, TurnsFacts
  <2>3. PICK j \in Nat : j = 0
    OBVIOUS
  <2>4. img = WidenedBy(img, h, 128 * j)
    <3>1. 128 * j = 0
      BY <2>3
    <3> QED
      BY <1>4, <3>1, WidenedNone DEF Sound
  <2>5. /\ j < t => img = TurnImage(img, h, 0) /\ AddStores(img, h, p) = From(TurnStores(img, h), 0)
        /\ j = t => img = PlaceImage(img, h, p, 0) /\ AddStores(img, h, p) = From(PlaceStores(img, h, p), 0)
    <3>1. j <= t
      BY <2>2, <2>3
    <3> QED
      BY <1>4, <2>1, <2>4, <3>1, StoresAt
  <2>6. t = Lacking' /\ ~ bucket_contains(base, edge, cmd.path)'
    BY <1>1, <1>2, <1>6, <2>1 DEF Lacking
  <2>7. CASE j < t
    <3>1. Turning(j, 0)' /\ 0 \in 0 .. 7
      BY <1>1, <1>2, <1>3, <1>6, <2>4, <2>5, <2>6, <2>7 DEF Turning
    <3> QED
      BY <1>1, <1>2, <3>1 DEF Stage
  <2>8. CASE j = t
    <3>1. img = Roomy' /\ 0 \in 0 .. 4
      BY <1>1, <1>2, <2>4, <2>6, <2>8 DEF Roomy
    <3>2. Placing'
      BY <1>1, <1>2, <1>3, <1>6, <2>5, <2>6, <2>8, <3>1 DEF Placing
    <3> QED
      BY <1>1, <1>2, <3>2 DEF Stage
  <2> QED
    BY <2>2, <2>3, <2>7, <2>8
<1> QED
  BY <1>5, <1>6

LEMMA GrowthBound ==
  ASSUME NEW p \in Paths
  PROVE  MaxLen + 2 * (PathLen[p] + 132) < U32 /\ MaxLen \in Nat /\ PathLen[p] \in Nat /\ U32 \in Nat
<1>1. PathLen[p] \in Nat /\ U32 \in Nat
  BY PathsAssumption, SizesAssumption
<1>2. PathLen[p] + Growth + IndexSize = PathLen[p] + 132
  BY <1>1, LayoutConstants
<1>3. MaxLen \in Nat /\ MaxLen + 2 * (PathLen[p] + Growth + IndexSize) < U32
  BY CrashAssumption
<1> QED
  BY <1>1, <1>2, <1>3

LEMMA AddStep ==
  ASSUME CrashInv, NEW n \in Names, NEW p \in Paths, AddPath(n, p)
  PROVE  CrashInv'
<1>1. /\ todo = <<>> /\ img.len <= MaxLen /\ Adding(Global, p)
      /\ then' = IF n = Global THEN NoName ELSE n
  BY DEF AddPath, Idle
<1>2. Sound(img) /\ torn = 0
  BY <1>1, AtRest, RestSound DEF CrashInv
<1>3. img.len \in Nat
  BY <1>2 DEF Sound, ImageInv, ImageTyped
<1>4. img.len + PathLen[p] + 132 < U32
  BY <1>1, <1>3, GrowthBound
<1>5. Sound(base)' /\ Stage' /\ cmd'.op = "add" /\ base' = img
  BY <1>1, <1>2, <1>4, AddingStage
<1>6. Known'
  BY <1>1, <1>5 DEF Known
<1> QED
  BY <1>5, <1>6 DEF CrashInv

LEMMA OtherStep ==
  ASSUME CrashInv, AddToOther
  PROVE  CrashInv'
<1>1. /\ todo = <<>> /\ then # NoName /\ then' = NoName
      /\ \/ Adding(then, cmd.path)
         \/ UNCHANGED <<img, torn, todo, cmd, base, edge, up>>
  BY DEF AddToOther
<1>2. Sound(img) /\ torn = 0 /\ Resting /\ cmd.op = "add" /\ base.len <= MaxLen /\ Sound(base)
  BY <1>1, AtRest, RestSound DEF CrashInv, Known
<1>3. AddCall /\ (img = base \/ \E J \in Placed(Roomy, edge, cmd.path) : img = Counted(J, edge))
  BY <1>2 DEF Resting, Starting, Deleting, Refused
<1>4. PICK p \in Paths : p = cmd.path
  BY <1>3 DEF AddCall
<1>5. img.len <= base.len + PathLen[p] + 132 /\ base.len \in Nat /\ img.len \in Nat
  <2>1. base.len \in Nat /\ img.len \in Nat /\ PathLen[p] \in Nat
    BY <1>2, GrowthBound DEF Sound, ImageInv, ImageTyped
  <2>2. ASSUME NEW J \in Placed(Roomy, edge, p), img = Counted(J, edge)
        PROVE  img.len <= base.len + PathLen[p] + 132
    <3>1. PICK T : T = Roomy
      OBVIOUS
    <3>2. /\ Sound(T) /\ edge \in DOMAIN T.hdr /\ Lacking \in Nat /\ 128 * Lacking < PathLen[p] + 132
          /\ Grown(base, T, edge, 128 * Lacking)
          /\ 16 + T.hdr[edge].sbytes + PathLen[p] < T.hdr[edge].ioff - 4
      BY <1>2, <1>3, <1>4, <3>1, RoomyFacts
    <3>3. ImageInv(J) /\ Entered(T, J, edge, p)
      BY <2>2, <3>1, <3>2, GainedSound
    <3>4. edge \in DOMAIN J.hdr
      BY <3>2, <3>3 DEF Entered
    <3>5. img.len = J.len
      BY <2>2, <3>3, <3>4, CountedKeeps
    <3>6. J.len = T.len /\ T.len = base.len + 128 * Lacking
      BY <3>2, <3>3 DEF Entered, Grown
    <3> QED
      BY <2>1, <3>2, <3>5, <3>6
  <2> QED
    BY <1>3, <1>4, <2>1, <2>2
<1>6. img.len + PathLen[p] + 132 < U32
  BY <1>2, <1>5, GrowthBound
<1>7. CASE Adding(then, cmd.path)
  <2>1. Sound(base)' /\ Stage' /\ cmd'.op = "add" /\ base' = img
    BY <1>2, <1>4, <1>6, <1>7, AddingStage
  <2>2. Known'
    BY <1>1 DEF Known
  <2> QED
    BY <2>1, <2>2 DEF CrashInv
<1>8. CASE UNCHANGED <<img, torn, todo, cmd, base, edge, up>>
  <2>1. Stage' /\ Sound(base)'
    BY <1>8 DEF CrashInv, Stage, Starting, Deleting, Refused, Turning, Placing, AddCall, Roomy, Lacking
  <2>2. Known'
    BY <1>1 DEF Known
  <2> QED
    BY <2>1, <2>2, SMTT(30) DEF CrashInv
<1> QED
  BY <1>1, <1>7, <1>8


-----------------------------------------------------------------------------
(* The first file, and the invariant. *)
LEMMA ExpandOnly ==
  ASSUME NEW a, NEW b, NEW c, NEW d, NEW e, NEW f, NEW I, I = Image(a, b, c, d, e, f),
         ~ Leftover(I), NEW newlen, ~ newlen <= a, NEW r \in library_expand(I, newlen)
  PROVE  r.st = "ok" /\ r.img = Image(newlen, Max2(b, newlen), Max2(c, Pages(newlen)), d, e, f)
<1>1. I.len = a /\ I.vm = c
  BY ImageFields
<1>2. PICK vm : vm = Max2(c, Pages(newlen))
  OBVIOUS
<1>3. PICK J : J = [expand_fd(I, newlen) EXCEPT !.len = newlen, !.vm = vm]
  OBVIOUS
<1>4. J = Image(newlen, Max2(b, newlen), vm, d, e, f)
  <2>1. PICK x : x = Max2(b, newlen)
    OBVIOUS
  <2>2. PICK G : G = expand_fd(I, newlen)
    OBVIOUS
  <2>3. G = Image(a, x, c, d, e, f)
    BY <2>1, <2>2 DEF expand_fd, Image
  <2>4. PICK K : K = [G EXCEPT !.len = newlen]
    OBVIOUS
  <2>5. K = Image(newlen, x, c, d, e, f)
    BY <2>3, <2>4 DEF Image
  <2>6. J = [K EXCEPT !.vm = vm]
    BY <1>3, <2>2, <2>4
  <2>7. J = Image(newlen, x, vm, d, e, f)
    BY <2>5, <2>6 DEF Image
  <2> QED
    BY <2>1, <2>7
<1>5. "move" \notin Faults /\ "write" \notin Faults /\ "mmap" \notin Faults
  BY CrashAssumption
<1>6. r = Result("ok", J)
  BY <1>1, <1>2, <1>3, <1>5, Zenon DEF library_expand, Fault
<1> QED
  BY <1>2, <1>4, <1>6 DEF Result

LEMMA FirstMade ==
  ASSUME NEW r \in start_playlist(BlankLibrary, Global), r.st = "ok"
  PROVE  Sound(r.img)
<1>1. PICK B : B = BlankLibrary
  OBVIOUS
<1>2. ImageInv(B) /\ AllSound(B) /\ Chained(B)
  BY <1>1, BlankSafe, BlankSound, BlankChain
<1>3. B.len = 1024 /\ B.size = 1024 /\ B.vm = Pages(1024) /\ B.hdr = NoCells /\ B.str = NoCells /\ B.idx = NoCells
  BY <1>1, LayoutConstants DEF BlankLibrary
<1>4. DOMAIN NoCells = {}
  BY DEF NoCells
<1>5. Sound(B)
  BY <1>2, <1>3, <1>4 DEF Sound, Tidy
<1>6. Global \in Names /\ 1296 < U32
  BY NamesAssumption, SizesAssumption
<1>7. find_playlist(B, Global) = {}
  BY <1>3, <1>4, FindPlaylistFacts
<1>8. ~ Leftover(B)
  <2>1. Pages(1024) \in Int
    BY PagesInt
  <2> QED
    BY <1>3, <2>1 DEF Leftover
<1>9. Add32(B.len, PlistSize + Growth) = 1296
  BY <1>3, <1>6, LayoutConstants, SizesAssumption DEF Add32
<1>10. PICK q \in library_expand(B, 1296) :
         r \in (CASE q.st = "ok" -> sync_library(WithPlaylist(q.img, B.len, Global))
                  [] q.st = "moved" -> IF Leftover(B) /\ B.len % PageSize = 0
                       THEN sync_library(WithPlaylist(q.img, B.len, Global))
                       ELSE {Result("killed", q.img), Result("wild", q.img)} \cup sync_library(q.img)
                  [] q.st = "refused" -> {Result("fail", q.img)}
                  [] OTHER -> {q})
  BY <1>1, <1>7, <1>9 DEF start_playlist
<1>20. PICK n \in Nat : n = 1296
  OBVIOUS
<1>11. PICK v : n = 1296 /\ v = Max2(Pages(1024), Pages(1296))
  BY <1>20
<1>12. q.st = "ok" /\ q.img = Image(n, n, v, B.hdr, B.str, B.idx)
  <2>1. B = Image(B.len, B.size, B.vm, B.hdr, B.str, B.idx)
    BY <1>2, InvRecord
  <2>2. ~ n <= B.len
    BY <1>3, <1>11
  <2>3. q.st = "ok" /\ q.img = Image(n, Max2(B.size, n), Max2(B.vm, Pages(n)), B.hdr, B.str, B.idx)
    BY <1>8, <1>11, <2>1, <2>2, ExpandOnly
  <2>4. Max2(B.size, n) = n /\ Max2(B.vm, Pages(n)) = v
    BY <1>3, <1>11 DEF Max2
  <2> QED
    BY <2>3, <2>4
<1>13. "msync" \notin Faults
  BY CrashAssumption
<1>14. r.img = WithPlaylist(q.img, B.len, Global)
  BY <1>10, <1>12, <1>13 DEF sync_library, Fault, Result
<1>15. PICK d : d = Put(B.hdr, B.len, NewPlaylist(Global))
  OBVIOUS
<1>16. r.img = Image(n, n, v, d, B.str, B.idx)
  <2>1. q.img.hdr = B.hdr
    BY <1>12, ImageFields
  <2>2. [q.img EXCEPT !.hdr = d] = Image(n, n, v, d, B.str, B.idx)
    BY <1>12 DEF Image
  <2> QED
    BY <1>14, <1>15, <2>1, <2>2 DEF WithPlaylist
<1>17. r.img.len = n /\ r.img.size = n /\ r.img.str = B.str /\ r.img.idx = B.idx
  BY <1>16, ImageFields
<1>18. ImageInv(r.img)
  BY BlankSafe, <1>6, StartPlaylistSafe
<1>19. Made(B, r.img, Global)
  BY <1>1, FirstPlaylist
<1> QED
  BY <1>5, <1>17, <1>18, <1>19, MadeSound

LEMMA CrashInit == Init => CrashInv
<1> SUFFICES ASSUME Init PROVE CrashInv
  OBVIOUS
<1>1. PICK r \in start_playlist(BlankLibrary, Global) : r.st = "ok" /\ img = r.img
  BY DEF Init
<1>2. Sound(img)
  BY <1>1, FirstMade
<1>3. /\ torn = 0 /\ todo = <<>> /\ then = NoName /\ cmd.op = "none" /\ base = img /\ edge = img.len
  BY DEF Init, Call
<1> QED
  BY <1>2, <1>3 DEF CrashInv, Known, Stage

LEMMA CrashNext == CrashInv /\ [Next]_vars => CrashInv'
<1> SUFFICES ASSUME CrashInv, [Next]_vars PROVE CrashInv'
  OBVIOUS
<1>1. CASE Store
  BY <1>1, StoreStep
<1>2. ASSUME NEW n \in Names, StartPlaylist(n) PROVE CrashInv'
  BY <1>2, StartStep
<1>3. ASSUME NEW n \in Names, DeletePlaylist(n) PROVE CrashInv'
  BY <1>3, DeleteStep
<1>4. ASSUME NEW n \in Names, NEW p \in Paths, AddPath(n, p) PROVE CrashInv'
  BY <1>4, AddStep
<1>5. CASE AddToOther
  BY <1>5, OtherStep, SMTT(30)
<1>6. ASSUME UNCHANGED <<img, torn, todo, then, cmd, base, edge>> PROVE CrashInv'
  BY <1>6 DEF CrashInv, Known, Stage, Starting, Deleting, Refused, Turning, Placing, AddCall, Roomy, Lacking
<1>7. CASE Crash
  BY <1>6, <1>7 DEF Crash
<1>8. CASE UNCHANGED vars
  BY <1>6, <1>8 DEF vars
<1> QED
  BY <1>1, <1>2, <1>3, <1>4, <1>5, <1>7, <1>8 DEF Next

(* Whatever the order of calls and wherever the process ends, the file is  *)
(* the one the call began with and the stores made since, in their order,  *)
(* and what a call begins with or ends with is a sound library.            *)
THEOREM Stages == Spec => []CrashInv
BY CrashInit, CrashNext, PTL DEF Spec

-----------------------------------------------------------------------------
(* Everything a playlist claims is in the file. *)
InFile(J) == J.len <= J.size /\ \A h \in DOMAIN J.hdr : h + J.hdr[h].length <= J.size

LEMMA SoundInFile ==
  ASSUME NEW J, ImageInv(J)
  PROVE  InFile(J)
<1>1. J.len \in Nat /\ J.size \in Nat /\ J.len <= J.size
  BY DEF ImageInv, ImageTyped
<1>2. ASSUME NEW h \in DOMAIN J.hdr PROVE h + J.hdr[h].length <= J.size
  <2>1. h \in Nat /\ J.hdr[h].length \in Nat /\ h + J.hdr[h].length <= J.len
    BY CellFacts
  <2> QED
    BY <1>1, <2>1
<1> QED
  BY <1>1, <1>2 DEF InFile

(* Shorter playlists in a file as long are in it too. *)
LEMMA StartShape ==
  ASSUME Sound(base), NEW k \in 0 .. 9, Starting(k)
  PROVE  /\ img.str = base.str /\ img.idx = base.idx
         /\ img.len \in Nat /\ base.len <= img.len /\ img.len <= img.size /\ img.size \in Nat
         /\ base.len \notin DOMAIN base.hdr /\ torn = 0
         /\ \A h \in DOMAIN base.hdr : h \in DOMAIN img.hdr /\ img.hdr[h] = base.hdr[h]
         /\ \A h \in DOMAIN img.hdr : h \notin DOMAIN base.hdr =>
              /\ h = base.len /\ img.hdr[h] = StartCell(cmd.name, k) /\ img.size = base.len + 272
<1>1. ImageInv(base) /\ base.len \in Nat
  BY DEF Sound, ImageInv, ImageTyped
<1>2. PICK n, C : n = cmd.name /\ C = StartCell(n, k)
  OBVIOUS
<1>3. img = Image(IF k < 2 THEN base.len ELSE base.len + 272, IF k < 1 THEN base.len ELSE base.len + 272,
                  base.vm, IF k < 3 THEN base.hdr ELSE Put(base.hdr, base.len, C), base.str, base.idx)
  BY <1>2 DEF Starting, StartImage
<1>4. /\ img.len = IF k < 2 THEN base.len ELSE base.len + 272
      /\ img.size = IF k < 1 THEN base.len ELSE base.len + 272
      /\ img.hdr = IF k < 3 THEN base.hdr ELSE Put(base.hdr, base.len, C)
      /\ img.str = base.str /\ img.idx = base.idx
  BY <1>3, ImageFields
<1>5. base.len \notin DOMAIN base.hdr
  <2>1. ASSUME base.len \in DOMAIN base.hdr PROVE FALSE
    <3>1. base.len < base.len
      BY <1>1, <2>1, BeforeEnd
    <3> QED
      BY <1>1, <3>1
  <2> QED
    BY <2>1
<1>6. \A h \in DOMAIN base.hdr : h \in DOMAIN img.hdr /\ img.hdr[h] = base.hdr[h]
  BY <1>4, <1>5 DEF Put
<1>7. ASSUME NEW h \in DOMAIN img.hdr, h \notin DOMAIN base.hdr
      PROVE  h = base.len /\ img.hdr[h] = C /\ img.size = base.len + 272
  BY <1>4, <1>7 DEF Put
<1> QED
  BY <1>1, <1>2, <1>4, <1>5, <1>6, <1>7 DEF Starting

LEMMA StartInFile ==
  ASSUME Sound(base), NEW k \in 0 .. 9, Starting(k)
  PROVE  InFile(img)
<1>1. ImageInv(base) /\ base.len \in Nat
  BY DEF Sound, ImageInv, ImageTyped
<1>2. /\ img.len \in Nat /\ base.len <= img.len /\ img.len <= img.size /\ img.size \in Nat
      /\ \A h \in DOMAIN base.hdr : h \in DOMAIN img.hdr /\ img.hdr[h] = base.hdr[h]
      /\ \A h \in DOMAIN img.hdr : h \notin DOMAIN base.hdr =>
           /\ h = base.len /\ img.hdr[h] = StartCell(cmd.name, k) /\ img.size = base.len + 272
  BY StartShape
<1>3. ASSUME NEW h \in DOMAIN img.hdr PROVE h + img.hdr[h].length <= img.size
  <2>1. CASE h \in DOMAIN base.hdr
    <3>1. h \in Nat /\ base.hdr[h].length \in Nat /\ h + base.hdr[h].length <= base.len
      BY <1>1, <2>1, CellFacts
    <3> QED
      BY <1>1, <1>2, <2>1, <3>1
  <2>2. CASE h \notin DOMAIN base.hdr
    <3>1. img.hdr[h].length = IF k < 4 THEN 0 ELSE 272
      BY <1>2, <2>2 DEF StartCell
    <3> QED
      BY <1>1, <1>2, <2>2, <3>1
  <2> QED
    BY <2>1, <2>2
<1> QED
  BY <1>2, <1>3 DEF InFile


(* A playlist that is being taken out: until its memmove is done nothing   *)
(* else is stored, and once the file is cut only lib_len is missing.       *)
LEMMA DeleteShape ==
  ASSUME Sound(base), NEW k \in 0 .. 4, Deleting(k), NEW J, J = DeleteImage(base, edge, 4)
  PROVE  /\ edge \in DOMAIN base.hdr /\ cmd.op = "delete" /\ edge \in Nat /\ 1024 <= edge
         /\ k < 2 => img = base
         /\ k = 1 <=> torn # 0
         /\ k = 2 => img = Closed(base, edge, edge + base.hdr[edge].length)
         /\ k > 2 => /\ img.hdr = J.hdr /\ img.str = J.str /\ img.idx = J.idx
                     /\ img.size = J.size /\ J.len <= img.len /\ img.len \in Nat
         /\ k = 3 => todo # <<>> /\ It.store = "len"
         /\ k = 4 => img = J
<1>1. ImageInv(base) /\ base.len \in Nat /\ base.size = base.len
  BY DEF Sound, ImageInv, ImageTyped
<1>2. edge \in DOMAIN base.hdr /\ cmd.op = "delete"
  BY FindPlaylistFacts DEF Deleting
<1>3. PICK h, n : h = edge /\ n = base.hdr[edge].length
  OBVIOUS
<1>4. n \in Nat /\ edge \in Nat /\ 1024 <= edge /\ h + n <= base.len
  BY <1>1, <1>2, <1>3, CellFacts
<1>5. PICK d, e, f : d = MovedDown(base.hdr, h, h + n, base.len)
                     /\ e = MovedDown(base.str, h, h + n, base.len)
                     /\ f = MovedDown(base.idx, h, h + n, base.len)
  OBVIOUS
<1>6. PICK x, y, z : x = CutAt(d, base.len - n) /\ y = CutAt(e, base.len - n) /\ z = CutAt(f, base.len - n)
  OBVIOUS
<1>7. base = Image(base.len, base.len, base.vm, base.hdr, base.str, base.idx)
  BY <1>1, ImageRecord DEF ImageInv
<1>8. k = 1 <=> torn # 0
  BY <1>4 DEF Deleting
<1>9. ASSUME k < 2 PROVE img = base
  <2>1. DeleteImage(base, h, 0) = base /\ DeleteImage(base, h, 1) = base
    BY <1>3, <1>7, DeleteImages
  <2> QED
    BY <1>3, <1>9, <2>1 DEF Deleting
<1>10. ASSUME k = 2 PROVE img = Closed(base, h, h + n)
  <2>1. DeleteImage(base, h, 2) = Image(base.len, base.len, base.vm, d, e, f)
    BY <1>3, <1>5, DeleteImages
  <2>2. Closed(base, h, h + n) = Image(base.len, base.len, base.vm, d, e, f)
    BY <1>5, <1>7, ImageClosed
  <2> QED
    BY <1>3, <1>10, <2>1, <2>2 DEF Deleting
<1>11. J = Image(base.len - n, base.len - n, base.vm, x, y, z)
  BY <1>3, <1>5, <1>6, DeleteImages
<1>12. ASSUME k = 3
       PROVE  /\ img.hdr = J.hdr /\ img.str = J.str /\ img.idx = J.idx /\ img.size = J.size
              /\ J.len <= img.len /\ img.len \in Nat /\ todo # <<>> /\ It.store = "len"
  <2>1. DeleteImage(base, h, 3) = Image(base.len, base.len - n, base.vm, x, y, z)
    BY <1>3, <1>5, <1>6, DeleteImages
  <2>2. img = Image(base.len, base.len - n, base.vm, x, y, z)
    BY <1>3, <1>12, <2>1 DEF Deleting
  <2>3. /\ img.hdr = J.hdr /\ img.str = J.str /\ img.idx = J.idx /\ img.size = J.size
        /\ J.len = base.len - n /\ img.len = base.len
    BY <1>11, <2>2, ImageFields
  <2>4. PICK s : s = DeleteStores(base, h)
    OBVIOUS
  <2>5. OfLength(s, 4) /\ s[4] = ToFile("len", base.len - n)
    BY <1>3, <2>4, DeleteElems
  <2>6. todo = From(s, 3)
    BY <1>3, <1>12, <2>4 DEF Deleting
  <2>7. todo # <<>> /\ Head(todo) = s[4]
    <3>1. PICK l \in Nat : l = 4
      OBVIOUS
    <3>2. OfLength(s, l) /\ 3 \in Nat /\ 3 < l
      BY <2>5, <3>1
    <3>3. From(s, 3) # <<>> /\ Head(From(s, 3)) = s[3 + 1]
      BY <3>2, FromFacts
    <3> QED
      BY <2>6, <3>3
  <2>8. It.store = "len"
    BY <2>5, <2>7 DEF It, ToFile
  <2> QED
    BY <1>1, <1>4, <2>3, <2>7, <2>8
<1>13. ASSUME k = 4 PROVE img = J
  BY <1>13 DEF Deleting
<1>14. J.len \in Nat
  <2>1. J.len = base.len - n
    BY <1>11, ImageFields
  <2> QED
    BY <1>1, <1>3, <1>4, <2>1
<1>15. ASSUME k > 2
       PROVE  /\ img.hdr = J.hdr /\ img.str = J.str /\ img.idx = J.idx
              /\ img.size = J.size /\ J.len <= img.len /\ img.len \in Nat
  BY <1>12, <1>13, <1>14, <1>15
<1> QED
  BY <1>2, <1>3, <1>4, <1>8, <1>9, <1>10, <1>12, <1>13, <1>15

LEMMA DeleteInFile ==
  ASSUME Sound(base), NEW k \in 0 .. 4, Deleting(k), torn = 0
  PROVE  /\ \A h \in DOMAIN img.hdr : h + img.hdr[h].length <= img.size
         /\ img.len <= img.size \/ (cmd.op = "delete" /\ todo # <<>> /\ It.store = "len")
<1>1. PICK J : J = DeleteImage(base, edge, 4)
  OBVIOUS
<1>2. /\ edge \in DOMAIN base.hdr /\ cmd.op = "delete"
      /\ k < 2 => img = base
      /\ k = 2 => img = Closed(base, edge, edge + base.hdr[edge].length)
      /\ k > 2 => img.hdr = J.hdr /\ img.size = J.size
      /\ k = 3 => todo # <<>> /\ It.store = "len"
      /\ k = 4 => img = J
  BY <1>1, DeleteShape
<1>3. InFile(base)
  BY SoundInFile DEF Sound
<1>4. ASSUME k = 2 PROVE InFile(img)
  <2>1. PICK n : n = base.hdr[edge].length
    OBVIOUS
  <2>2. ImageInv(img)
    BY <1>2, <1>4, <2>1, ClosedSafe DEF Sound
  <2> QED
    BY <2>2, SoundInFile
<1>5. InFile(J)
  BY <1>1, <1>2, DeleteDone, SoundInFile
<1>6. k < 2 \/ k = 2 \/ k = 3 \/ k = 4
  OBVIOUS
<1>7. CASE k = 3
  BY <1>2, <1>5, <1>7 DEF InFile
<1> QED
  BY <1>2, <1>3, <1>4, <1>5, <1>6, <1>7 DEF InFile


(* A bucket that grows: as it was until the memmove is done, and but for   *)
(* its own offsets as it will be from then on.                             *)
LEMMA TurnShape ==
  ASSUME Sound(base), NEW j \in Nat, NEW k \in 0 .. 7, Turning(j, k),
         NEW x \in Nat, x = 128 * j, NEW T, T = WidenedBy(base, edge, x),
         NEW W, W = WidenedBy(base, edge, x + 128)
  PROVE  /\ edge \in DOMAIN base.hdr /\ edge \in DOMAIN T.hdr /\ edge \in Nat
         /\ Sound(T) /\ Grown(base, T, edge, x) /\ Sound(W) /\ Grown(base, W, edge, x + 128)
         /\ k = 3 <=> torn # 0
         /\ k < 4 => /\ img.hdr = T.hdr /\ img.str = T.str /\ img.idx = T.idx
                     /\ T.len <= img.len /\ img.len <= img.size
                     /\ img.len \in Nat /\ img.size \in Nat
         /\ k \in 4 .. 6 =>
              /\ img.len = T.len + 128 /\ img.size = T.len + 128
              /\ img.hdr = [MovedUp(T.hdr, bucket_indexes(T, edge), 128) EXCEPT
                               ![edge] = TurnCell(T.hdr[edge], k)]
              /\ img.str = MovedUp(T.str, bucket_indexes(T, edge), 128)
              /\ img.idx = MovedUp(T.idx, bucket_indexes(T, edge), 128)
         /\ k = 7 => img = W
<1>1. PICK p : p = cmd.path
  OBVIOUS
<1>2. PICK t : t = Turns(base.hdr[edge], PathLen[p])
  OBVIOUS
<1>3. AddCall /\ j < t /\ t = Lacking /\ img = TurnImage(T, edge, k)
      /\ torn = IF k = 3 THEN bucket_indexes(T, edge) ELSE 0
  BY <1>1, <1>2 DEF Turning, Lacking
<1>4. edge \in DOMAIN base.hdr /\ p \in Paths /\ base.len + PathLen[p] + 132 < U32
  BY <1>1, <1>3, FindPlaylistFacts DEF AddCall
<1>5. t \in Nat /\ 128 * t < PathLen[p] + 132
  BY <1>1, <1>2, <1>3, RoomyFacts DEF Lacking
<1>6. PICK y \in Nat : y = x + 128
  OBVIOUS
<1>7. base.len + x < U32 /\ base.len + y < U32
  <2>1. base.len \in Nat /\ U32 \in Nat /\ PathLen[p] \in Nat
    BY <1>4, PathsAssumption, SizesAssumption DEF Sound, ImageInv, ImageTyped
  <2>2. y <= 128 * t
    BY <1>3, <1>5, <1>6
  <2> QED
    BY <1>4, <1>5, <1>6, <2>1, <2>2
<1>8. Sound(T) /\ Grown(base, T, edge, x)
  BY <1>4, <1>7, WidenedSound
<1>9. W = WidenedBy(base, edge, y)
  BY <1>6
<1>10. Sound(W) /\ Grown(base, W, edge, x + 128)
  <2>1. Sound(W) /\ Grown(base, W, edge, y)
    BY <1>4, <1>7, <1>9, WidenedSound
  <2> QED
    BY <1>6, <2>1
<1>11. /\ edge \in DOMAIN T.hdr /\ edge \in Nat /\ bucket_indexes(T, edge) = bucket_indexes(base, edge) + x
       /\ bucket_indexes(base, edge) \in Nat /\ edge < bucket_indexes(base, edge)
  BY <1>4, WidenedFacts DEF Sound
<1>12. k = 3 <=> torn # 0
  BY <1>3, <1>11
<1>13. PICK at, c, m, e, f, n : /\ at = bucket_indexes(T, edge) /\ c = T.hdr[edge] /\ n = T.len
                                /\ m = MovedUp(T.hdr, at, 128) /\ e = MovedUp(T.str, at, 128)
                                /\ f = MovedUp(T.idx, at, 128)
  OBVIOUS
<1>14. ImageInv(T) /\ T.size = T.len /\ n \in Nat
  BY <1>8, <1>13 DEF Sound, ImageInv, ImageTyped
<1>15. /\ TurnImage(T, edge, 0) = T
       /\ TurnImage(T, edge, 0) = Image(n, n, T.vm, T.hdr, T.str, T.idx)
       /\ TurnImage(T, edge, 1) = Image(n, n + 128, T.vm, T.hdr, T.str, T.idx)
       /\ TurnImage(T, edge, 2) = Image(n + 128, n + 128, T.vm, T.hdr, T.str, T.idx)
       /\ TurnImage(T, edge, 3) = Image(n + 128, n + 128, T.vm, T.hdr, T.str, T.idx)
       /\ \A i \in 4 .. 7 : TurnImage(T, edge, i)
             = Image(n + 128, n + 128, T.vm, [m EXCEPT ![edge] = TurnCell(c, i)], e, f)
       /\ TurnImage(T, edge, 4) = Image(n + 128, n + 128, T.vm, m, e, f)
       /\ TurnImage(T, edge, 7) = WidenedBy(T, edge, 128)
       /\ edge \in DOMAIN m /\ m[edge] = c
  BY <1>11, <1>13, <1>14, TurnImages
<1>16. ASSUME k < 4
       PROVE  /\ img.hdr = T.hdr /\ img.str = T.str /\ img.idx = T.idx
              /\ T.len <= img.len /\ img.len <= img.size /\ img.len \in Nat /\ img.size \in Nat
  <2>1. PICK a, b : img = Image(a, b, T.vm, T.hdr, T.str, T.idx) /\ a \in {n, n + 128} /\ b \in {n, n + 128} /\ a <= b
    <3>1. k \in {0, 1, 2, 3}
      BY <1>16
    <3> QED
      BY <1>3, <1>14, <1>15, <3>1
  <2>2. img.len = a /\ img.size = b /\ img.hdr = T.hdr /\ img.str = T.str /\ img.idx = T.idx
    BY <2>1, ImageFields
  <2> QED
    BY <1>13, <1>14, <2>1, <2>2
<1>17. ASSUME k \in 4 .. 6
       PROVE  /\ img.len = n + 128 /\ img.size = n + 128
              /\ img.hdr = [m EXCEPT ![edge] = TurnCell(c, k)] /\ img.str = e /\ img.idx = f
  <2>1. k \in 4 .. 7
    BY <1>17
  <2>2. PICK d : d = [m EXCEPT ![edge] = TurnCell(c, k)]
    OBVIOUS
  <2>3. img = Image(n + 128, n + 128, T.vm, d, e, f)
    <3>1. TurnImage(T, edge, k) = Image(n + 128, n + 128, T.vm, [m EXCEPT ![edge] = TurnCell(c, k)], e, f)
      <4>1. 4 \in 4 .. 7 /\ 5 \in 4 .. 7 /\ 6 \in 4 .. 7
        OBVIOUS
      <4>2. CASE k = 4
        BY <1>15, <4>1, <4>2
      <4>3. CASE k = 5
        BY <1>15, <4>1, <4>3
      <4>4. CASE k = 6
        BY <1>15, <4>1, <4>4
      <4> QED
        BY <1>17, <4>2, <4>3, <4>4
    <3> QED
      BY <1>3, <2>2, <3>1
  <2> QED
    BY <2>2, <2>3, ImageFields
<1>18. ASSUME k = 7 PROVE img = W
  <2>1. PICK b \in Nat : b = 128
    OBVIOUS
  <2>2. WidenedBy(WidenedBy(base, edge, x), edge, b) = WidenedBy(base, edge, x + b)
    BY <1>4, WidenedTwice DEF Sound
  <2>3. x + b = y
    BY <1>6, <2>1
  <2>4. img = WidenedBy(T, edge, 128)
    BY <1>3, <1>15, <1>18
  <2> QED
    BY <1>9, <2>1, <2>2, <2>3, <2>4
<1> QED
  BY <1>4, <1>8, <1>10, <1>11, <1>12, <1>13, <1>16, <1>17, <1>18


(* What the memmove of a growing bucket did: the playlists up to that one  *)
(* are where they were, those behind it have moved, and its own length is  *)
(* not yet stored. *)
LEMMA HalfTurned ==
  ASSUME NEW T, Sound(T), NEW h \in DOMAIN T.hdr, NEW k \in 4 .. 6, NEW at, at = bucket_indexes(T, h),
         NEW d, d = [MovedUp(T.hdr, at, 128) EXCEPT ![h] = TurnCell(T.hdr[h], k)]
  PROVE  /\ h \in Nat /\ at \in Nat /\ h < at /\ h \in DOMAIN d /\ T.len \in Nat
         /\ d[h].name = T.hdr[h].name /\ d[h].length = T.hdr[h].length /\ d[h].sbytes = T.hdr[h].sbytes
         /\ d[h].blen = T.hdr[h].blen + (IF k < 5 THEN 0 ELSE 128)
         /\ d[h].ioff = T.hdr[h].ioff + (IF k < 6 THEN 0 ELSE 128)
         /\ \A g \in DOMAIN T.hdr : g < h => g \in DOMAIN d
         /\ \A g \in DOMAIN d : g \in Nat /\ (g < at => g \in DOMAIN T.hdr /\ g <= h)
         /\ \A g \in DOMAIN d : g < h => d[g] = T.hdr[g]
         /\ \A g \in DOMAIN d : g >= at => g - 128 \in DOMAIN T.hdr /\ h < g - 128 /\ d[g] = T.hdr[g - 128]
<1>1. ImageInv(T) /\ ImageTyped(T)
  BY DEF Sound, ImageInv
<1>2. /\ h \in Nat /\ T.len \in Nat /\ h + T.hdr[h].length <= T.len /\ T.hdr[h] \in Cell
      /\ T.hdr[h].length = T.hdr[h].blen + 144 /\ T.hdr[h].ioff <= T.hdr[h].blen
      /\ T.hdr[h].length \in Nat /\ T.hdr[h].blen \in Nat /\ T.hdr[h].ioff \in Nat
  BY <1>1, CellFacts
<1>3. at = h + 128 + T.hdr[h].ioff /\ at \in Nat
  BY <1>1, Regions
<1>4. PICK n \in Nat : n = 128
  OBVIOUS
<1>5. PICK m, q : m = MovedUp(q, at, n) /\ q = T.hdr
  OBVIOUS
<1>6. q = [o \in DOMAIN q |-> q[o]] /\ DOMAIN q \subseteq Nat
  BY <1>1, <1>5, ImageRecord
<1>7. /\ DOMAIN m \subseteq Nat
      /\ \A o \in DOMAIN T.hdr : IF o < at THEN o \in DOMAIN m ELSE o + n \in DOMAIN m
      /\ \A o \in DOMAIN m : o < at => o \in DOMAIN T.hdr /\ m[o] = T.hdr[o]
      /\ \A o \in DOMAIN m : o >= at => o - n >= at /\ o - n \in DOMAIN T.hdr /\ m[o] = T.hdr[o - n]
  <2>1. /\ DOMAIN m \subseteq Nat
        /\ \A o \in DOMAIN q : IF o < at THEN o \in DOMAIN m ELSE o + n \in DOMAIN m
        /\ \A o \in DOMAIN m : o < at => o \in DOMAIN q /\ m[o] = q[o]
        /\ \A o \in DOMAIN m : o >= at => o - n >= at /\ o - n \in DOMAIN q /\ m[o] = q[o - n]
    BY <1>3, <1>5, <1>6, MovedUpCells, SMTT(30)
  <2> QED
    BY <1>5, <2>1
<1>8. d = [m EXCEPT ![h] = TurnCell(T.hdr[h], k)]
  BY <1>4, <1>5
<1>9. h < at /\ h \in DOMAIN m /\ DOMAIN d = DOMAIN m /\ at \in Nat
  <2>1. h < at /\ at \in Nat
    BY <1>2, <1>3
  <2>2. h \in DOMAIN m
    BY <1>2, <1>7, <2>1
  <2>3. DOMAIN d = DOMAIN m
    BY <1>8
  <2> QED
    BY <2>1, <2>2, <2>3
<1>10. d[h] = TurnCell(T.hdr[h], k)
  BY <1>8, <1>9
<1>11. /\ d[h].name = T.hdr[h].name /\ d[h].length = T.hdr[h].length /\ d[h].sbytes = T.hdr[h].sbytes
       /\ d[h].blen = T.hdr[h].blen + (IF k < 5 THEN 0 ELSE 128)
       /\ d[h].ioff = T.hdr[h].ioff + (IF k < 6 THEN 0 ELSE 128)
  BY <1>2, <1>10 DEF TurnCell
<1>12. \A g \in DOMAIN d : g # h => d[g] = m[g]
  BY <1>8
<1>13. ASSUME NEW g \in DOMAIN d, g < at PROVE g \in DOMAIN T.hdr /\ g <= h
  <2>1. g \in DOMAIN T.hdr /\ g \in Nat
    BY <1>7, <1>9, <1>13
  <2>2. h < g => h + T.hdr[h].length <= g
    BY <1>1, <2>1 DEF ImageInv, Disjoint
  <2> QED
    BY <1>2, <1>3, <1>13, <2>1, <2>2
<1>14. \A g \in DOMAIN d : g < h => d[g] = T.hdr[g]
  BY <1>2, <1>7, <1>9, <1>12
<1>15. ASSUME NEW g \in DOMAIN d, g >= at
       PROVE  g - 128 \in DOMAIN T.hdr /\ h < g - 128 /\ d[g] = T.hdr[g - 128]
  <2>1. g - n >= at /\ g - n \in DOMAIN T.hdr /\ m[g] = T.hdr[g - n]
    BY <1>7, <1>9, <1>15
  <2>2. g \in Nat /\ g # h
    BY <1>2, <1>7, <1>9, <1>15
  <2> QED
    BY <1>2, <1>4, <1>9, <1>12, <2>1, <2>2
<1>16. \A g \in DOMAIN T.hdr : g < h => g \in DOMAIN d
  <2>1. \A g \in DOMAIN T.hdr : g < h => g < at
    BY <1>2, <1>5, <1>6, <1>9
  <2> QED
    BY <1>7, <1>9, <2>1
<1> QED
  BY <1>2, <1>7, <1>9, <1>11, <1>13, <1>14, <1>15, <1>16

LEMMA TurnInFile ==
  ASSUME Sound(base), NEW j \in Nat, NEW k \in 0 .. 7, Turning(j, k)
  PROVE  InFile(img)
<1>1. PICK x \in Nat : x = 128 * j
  OBVIOUS
<1>2. PICK T, W : T = WidenedBy(base, edge, x) /\ W = WidenedBy(base, edge, x + 128)
  OBVIOUS
<1>3. PICK at, d : at = bucket_indexes(T, edge)
                   /\ d = [MovedUp(T.hdr, at, 128) EXCEPT ![edge] = TurnCell(T.hdr[edge], k)]
  OBVIOUS
<1>4. /\ edge \in DOMAIN T.hdr /\ Sound(T) /\ Sound(W)
      /\ k < 4 => img.hdr = T.hdr /\ T.len <= img.len /\ img.len <= img.size /\ img.len \in Nat /\ img.size \in Nat
      /\ k \in 4 .. 6 => img.len = T.len + 128 /\ img.size = T.len + 128 /\ img.hdr = d
      /\ k = 7 => img = W
  BY <1>1, <1>2, <1>3, TurnShape
<1>5. ImageInv(T) /\ T.len \in Nat
  BY <1>4 DEF Sound, ImageInv, ImageTyped
<1>6. CASE k < 4
  <2>1. ASSUME NEW g \in DOMAIN T.hdr PROVE g + T.hdr[g].length <= img.size
    <3>1. g \in Nat /\ T.hdr[g].length \in Nat /\ g + T.hdr[g].length <= T.len
      BY <1>5, CellFacts
    <3> QED
      BY <1>4, <1>5, <1>6, <3>1
  <2> QED
    BY <1>4, <1>6, <2>1 DEF InFile
<1>7. CASE k \in 4 .. 6
  <2>1. /\ edge \in Nat /\ at \in Nat /\ edge < at
        /\ d[edge].length = T.hdr[edge].length
        /\ \A g \in DOMAIN d : g \in Nat /\ (g < at => g \in DOMAIN T.hdr /\ g <= edge)
        /\ \A g \in DOMAIN d : g < edge => d[g] = T.hdr[g]
        /\ \A g \in DOMAIN d : g >= at => g - 128 \in DOMAIN T.hdr /\ d[g] = T.hdr[g - 128]
    BY <1>3, <1>4, <1>7, HalfTurned
  <2>2. \A g \in DOMAIN T.hdr : g \in Nat /\ T.hdr[g].length \in Nat /\ g + T.hdr[g].length <= T.len
    BY <1>5, CellFacts
  <2>3. ASSUME NEW g \in DOMAIN d PROVE g + d[g].length <= T.len + 128
    <3>1. CASE g >= at
      <4>1. PICK f : f = g - 128
        OBVIOUS
      <4>2. f \in DOMAIN T.hdr /\ d[g] = T.hdr[f] /\ g = f + 128
        BY <2>1, <3>1, <4>1
      <4> QED
        BY <1>5, <2>2, <4>2
    <3>2. CASE g < at
      BY <1>5, <2>1, <2>2, <2>3, <3>2
    <3> QED
      BY <2>1, <3>1, <3>2
  <2> QED
    BY <1>4, <1>5, <1>7, <2>3 DEF InFile
<1>8. CASE k = 7
  BY <1>4, <1>8, SoundInFile DEF Sound
<1> QED
  BY <1>6, <1>7, <1>8


-----------------------------------------------------------------------------
(* What is shown of a playlist. *)
Word(J, o) == At(J.idx, o, 0)
Shown(J, g, w) == At(J.str, Strings(g) + w, Empty)

LEMMA PathsShown ==
  ASSUME NEW J, NEW g
  PROVE  /\ \A o \in Slots(J, g) : Shown(J, g, Word(J, o)) \in IndexPaths(J, g)
         /\ \A p \in IndexPaths(J, g) : \E o \in Slots(J, g) : p = Shown(J, g, Word(J, o))
BY DEF IndexPaths, Shown, Word

LEMMA PathsByWord ==
  ASSUME NEW J, NEW g, Slots(J, g) \subseteq DOMAIN J.idx
  PROVE  /\ \A w \in Words(J, g) : Shown(J, g, w) \in IndexPaths(J, g)
         /\ \A p \in IndexPaths(J, g) : \E w \in Words(J, g) : p = Shown(J, g, w)
<1>1. \A o \in Slots(J, g) : Word(J, o) = J.idx[o]
  BY DEF Word, At
<1> QED
  BY <1>1, PathsShown DEF Words

LEMMA KeptPaths ==
  ASSUME NEW I, ImageInv(I), NEW h \in DOMAIN I.hdr, BucketSound(I, h), NEW J, NEW g,
         Kept(I, h, J, g), Slots(J, g) \subseteq DOMAIN J.idx
  PROVE  IndexPaths(J, g) = IndexPaths(I, h)
<1>1. Slots(I, h) \subseteq DOMAIN I.idx
  BY DEF ImageInv, SlotsFilled
<1>2. Words(J, g) = Words(I, h)
  BY KeptWords
<1>3. ASSUME NEW w \in Words(I, h) PROVE Shown(J, g, w) = Shown(I, h, w)
  <2>1. w \in Nat /\ w < I.hdr[h].sbytes /\ Strings(h) + w \in DOMAIN I.str
    BY WordFacts
  <2>2. Strings(g) + w \in DOMAIN J.str /\ J.str[Strings(g) + w] = I.str[Strings(h) + w]
    BY <2>1 DEF Kept
  <2> QED
    BY <2>1, <2>2 DEF Shown, At
<1> QED
  BY <1>1, <1>2, <1>3, PathsByWord

LEMMA SamePaths ==
  ASSUME NEW I, NEW J, NEW g, J.hdr[g].blen = I.hdr[g].blen, J.hdr[g].ioff = I.hdr[g].ioff,
         \A o \in Slots(I, g) : /\ Word(J, o) = Word(I, o)
                                /\ Shown(J, g, Word(I, o)) = Shown(I, g, Word(I, o))
  PROVE  IndexPaths(J, g) = IndexPaths(I, g)
<1>1. Slots(J, g) = Slots(I, g)
  BY DEF Slots, bucket_indexes, bucket_nr_indexes
<1>2. IndexPaths(J, g) \subseteq IndexPaths(I, g)
  <2>1. ASSUME NEW p \in IndexPaths(J, g) PROVE p \in IndexPaths(I, g)
    <3>1. PICK o \in Slots(J, g) : p = Shown(J, g, Word(J, o))
      BY <2>1, PathsShown
    <3>2. o \in Slots(I, g) /\ p = Shown(I, g, Word(I, o))
      BY <1>1, <3>1
    <3> QED
      BY <3>2, PathsShown
  <2> QED
    BY <2>1
<1>3. IndexPaths(I, g) \subseteq IndexPaths(J, g)
  <2>1. ASSUME NEW p \in IndexPaths(I, g) PROVE p \in IndexPaths(J, g)
    <3>1. PICK o \in Slots(I, g) : p = Shown(I, g, Word(I, o))
      BY <2>1, PathsShown
    <3>2. o \in Slots(J, g) /\ p = Shown(J, g, Word(J, o))
      BY <1>1, <3>1
    <3> QED
      BY <3>2, PathsShown
  <2> QED
    BY <2>1
<1> QED
  BY <1>2, <1>3

LEMMA Untouched ==
  ASSUME NEW T, Sound(T), NEW g \in DOMAIN T.hdr, NEW J,
         J.hdr[g].blen = T.hdr[g].blen, J.hdr[g].ioff = T.hdr[g].ioff,
         \A o \in Nat : g <= o /\ o < g + T.hdr[g].length =>
           At(J.idx, o, 0) = At(T.idx, o, 0) /\ At(J.str, o, Empty) = At(T.str, o, Empty)
  PROVE  IndexPaths(J, g) = IndexPaths(T, g)
<1>1. ImageInv(T) /\ BucketSound(T, g)
  BY DEF Sound, AllSound
<1>2. /\ g \in Nat /\ T.hdr[g].length \in Nat /\ T.hdr[g].sbytes \in Nat /\ T.hdr[g].ioff \in Nat
      /\ T.hdr[g].length = T.hdr[g].blen + 144 /\ T.hdr[g].blen \in Nat
      /\ 16 + T.hdr[g].sbytes < T.hdr[g].ioff /\ T.hdr[g].ioff <= T.hdr[g].blen
  BY <1>1, CellFacts
<1>3. Strings(g) = g + 144
  BY LayoutConstants DEF Strings
<1>4. ASSUME NEW o \in Slots(T, g)
      PROVE  Word(J, o) = Word(T, o) /\ Shown(J, g, Word(T, o)) = Shown(T, g, Word(T, o))
  <2>1. o \in Nat /\ o >= bucket_indexes(T, g) /\ o < g + T.hdr[g].length /\ o \in DOMAIN T.idx
    BY <1>1, SlotFacts
  <2>2. bucket_indexes(T, g) = g + 128 + T.hdr[g].ioff
    BY <1>1, Regions
  <2>3. PICK w : w = Word(T, o)
    OBVIOUS
  <2>4. w \in Words(T, g)
    BY <2>1, <2>3 DEF Words, Word, At
  <2>5. w \in Nat /\ w < T.hdr[g].sbytes
    BY <1>1, <2>4, WordFacts
  <2>6. Word(J, o) = Word(T, o)
    BY <1>2, <2>1, <2>2 DEF Word
  <2>7. PICK q : q = Strings(g) + w
    OBVIOUS
  <2>8. q \in Nat /\ g <= q /\ q < g + T.hdr[g].length
    BY <1>2, <1>3, <2>5, <2>7
  <2>9. At(J.str, q, Empty) = At(T.str, q, Empty)
    BY <2>8
  <2> QED
    BY <2>3, <2>6, <2>7, <2>9 DEF Shown
<1> QED
  BY <1>4, SamePaths

(* The walk comes to every playlist that another leads to, from the first. *)
LEMMA ReachedWalk ==
  ASSUME NEW J, NEW D \in SUBSET DOMAIN J.hdr, D \subseteq Nat,
         \A t \in D : t < J.len /\ (t = 1024 \/ \E k \in D : k < t /\ k + J.hdr[k].length = t)
  PROVE  D \subseteq Visited(J)
<1>1. ASSUME NEW h \in D, h \notin Visited(J) PROVE FALSE
  <2> DEFINE missed == D \ Visited(J)
  <2>1. missed \in SUBSET Nat /\ missed # {}
    BY <1>1
  <2> HIDE DEF missed
  <2>2. PICK t \in missed : \A j \in missed : t <= j
    BY <2>1, Least
  <2>3. t \in D /\ t \in DOMAIN J.hdr /\ t \notin Visited(J) /\ t \in Nat /\ t < J.len
    BY <2>2 DEF missed
  <2>4. CASE t = 1024
    <3>1. t = HeaderSize
      BY <2>4, LayoutConstants
    <3> QED
      BY <2>3, <3>1, VisitedFacts, Zenon
  <2>5. ASSUME NEW k \in D, k < t, k + J.hdr[k].length = t PROVE FALSE
    <3>1. k \in Nat /\ ~ t <= k
      BY <2>3, <2>5
    <3>2. k \in Visited(J)
      BY <2>2, <2>5, <3>1 DEF missed
    <3> QED
      BY <2>3, <2>5, <3>2, VisitedFacts
  <2> QED
    BY <2>3, <2>4, <2>5
<1> QED
  BY <1>1

(* The playlists in front of one, as long as they were, are still walked. *)
LEMMA FrontWalk ==
  ASSUME NEW B, Sound(B), NEW e \in Nat, NEW J, J.len \in Nat,
         e <= J.len \/ B.len <= J.len,
         \A g \in DOMAIN B.hdr : g < e => g \in DOMAIN J.hdr /\ J.hdr[g].length = B.hdr[g].length
  PROVE  \A g \in DOMAIN B.hdr : g < e => g \in Visited(J)
<1>1. ImageInv(B) /\ Chained(B)
  BY DEF Sound
<1>2. \A k \in DOMAIN B.hdr : /\ k \in Nat /\ k < B.len /\ B.hdr[k].length \in Nat
                              /\ B.hdr[k].length >= 144 /\ B.len \in Nat
  BY <1>1, CellFacts, BeforeEnd
<1>3. PICK D : D = {g \in DOMAIN B.hdr : g < e}
  OBVIOUS
<1>4. D \in SUBSET DOMAIN J.hdr /\ D \subseteq Nat
  BY <1>2, <1>3
<1>5. ASSUME NEW t \in D PROVE t = 1024 \/ \E k \in D : k < t /\ k + J.hdr[k].length = t
  <2>1. t \in DOMAIN B.hdr /\ t < e /\ t \in Nat
    BY <1>2, <1>3
  <2>2. t = HeaderSize \/ \E k \in DOMAIN B.hdr : k + B.hdr[k].length = t
    BY <1>1, <2>1 DEF Chained
  <2>3. ASSUME NEW k \in DOMAIN B.hdr, k + B.hdr[k].length = t
        PROVE  k \in D /\ k < t /\ k + J.hdr[k].length = t
    <3>1. k < t
      BY <1>2, <2>1, <2>3
    <3>2. k < e
      BY <1>2, <2>1, <2>3, <3>1
    <3> QED
      BY <1>3, <2>3, <3>1, <3>2
  <2> QED
    BY <2>2, <2>3, LayoutConstants
<1>6. ASSUME NEW t \in D PROVE t < J.len
  BY <1>2, <1>3
<1>7. D \subseteq Visited(J)
  BY <1>4, <1>5, <1>6, ReachedWalk
<1> QED
  BY <1>3, <1>7


(* A store inside one playlist is not seen in another. *)
LEMMA Beside ==
  ASSUME NEW T, Sound(T), NEW h \in DOMAIN T.hdr, NEW g \in DOMAIN T.hdr, g # h, NEW J,
         J.hdr[g] = T.hdr[g],
         \A o \in Nat : ~ (h <= o /\ o < h + T.hdr[h].length) =>
           At(J.idx, o, 0) = At(T.idx, o, 0) /\ At(J.str, o, Empty) = At(T.str, o, Empty)
  PROVE  IndexPaths(J, g) = IndexPaths(T, g)
<1>1. ImageInv(T)
  BY DEF Sound
<1>2. /\ g \in Nat /\ T.hdr[g].length \in Nat /\ h \in Nat /\ T.hdr[h].length \in Nat
      /\ T.hdr[h].length >= 144 /\ T.hdr[g].length >= 144
  BY <1>1, CellFacts
<1>3. g < h => g + T.hdr[g].length <= h
  BY <1>1 DEF ImageInv, Disjoint
<1>4. h < g => h + T.hdr[h].length <= g
  BY <1>1 DEF ImageInv, Disjoint
<1>5. ASSUME NEW o \in Nat, g <= o, o < g + T.hdr[g].length
      PROVE  At(J.idx, o, 0) = At(T.idx, o, 0) /\ At(J.str, o, Empty) = At(T.str, o, Empty)
  <2>1. ~ (h <= o /\ o < h + T.hdr[h].length)
    BY <1>2, <1>3, <1>4, <1>5
  <2> QED
    BY <2>1
<1> QED
  BY <1>5, Untouched

(* Where a path and its index go: behind the strings and in front of the   *)
(* indexes, in the playlist. *)
LEMMA PlaceSpots ==
  ASSUME NEW T, Sound(T), NEW h \in DOMAIN T.hdr, NEW p \in Paths, NEW c, c = T.hdr[h],
         16 + c.sbytes + PathLen[p] < c.ioff - 4,
         NEW x, x = Strings(h) + c.sbytes, NEW y, y = bucket_indexes(T, h) - 4
  PROVE  /\ h \in Nat /\ x \in Nat /\ y \in Nat /\ c.length \in Nat
         /\ h <= x /\ x < y /\ y < h + c.length
         /\ \A o \in Slots(T, h) : o \in Nat /\ y < o /\ o < h + c.length /\ o \in DOMAIN T.idx
         /\ \A w \in Words(T, h) : /\ w \in Nat /\ w < c.sbytes
                                   /\ Strings(h) + w # x /\ Strings(h) + w \in DOMAIN T.str
<1>1. ImageInv(T) /\ BucketSound(T, h)
  BY DEF Sound, AllSound
<1>2. /\ h \in Nat /\ c.length \in Nat /\ c.sbytes \in Nat /\ c.ioff \in Nat /\ c.blen \in Nat
      /\ c.length = c.blen + 144 /\ c.ioff <= c.blen
  BY <1>1, CellFacts
<1>3. Strings(h) = h + 144 /\ bucket_indexes(T, h) = h + 128 + c.ioff
  BY <1>1, Regions
<1>4. PathLen[p] \in Nat
  BY PathsAssumption
<1>5. x \in Nat /\ y \in Nat /\ h <= x /\ x < y /\ y < h + c.length
  BY <1>2, <1>3, <1>4
<1>6. \A o \in Slots(T, h) : o \in Nat /\ y < o /\ o < h + c.length /\ o \in DOMAIN T.idx
  <2>1. \A o \in Slots(T, h) : o \in Nat /\ o >= bucket_indexes(T, h) /\ o < h + T.hdr[h].length /\ o \in DOMAIN T.idx
    BY <1>1, SlotFacts
  <2> QED
    BY <1>2, <1>3, <2>1
<1>7. \A w \in Words(T, h) : /\ w \in Nat /\ w < c.sbytes
                             /\ Strings(h) + w # x /\ Strings(h) + w \in DOMAIN T.str
  <2>1. \A w \in Words(T, h) : w \in Nat /\ w < T.hdr[h].sbytes /\ Strings(h) + w \in DOMAIN T.str
    BY <1>1, WordFacts
  <2> QED
    BY <1>2, <1>3, <2>1
<1> QED
  BY <1>2, <1>5, <1>6, <1>7

LEMMA SlotGained ==
  ASSUME NEW T, ImageInv(T), NEW h \in DOMAIN T.hdr, NEW J,
         J.hdr[h].ioff = T.hdr[h].ioff - 4, J.hdr[h].blen = T.hdr[h].blen
  PROVE  Slots(J, h) = Slots(T, h) \cup {bucket_indexes(T, h) - 4}
<1>1. PICK a, b, m, n : /\ a = bucket_indexes(T, h) /\ b = bucket_indexes(J, h)
                        /\ n = bucket_nr_indexes(T, h) /\ m = bucket_nr_indexes(J, h)
  OBVIOUS
<1>2. /\ h \in Nat /\ T.hdr[h].ioff \in Nat /\ T.hdr[h].blen \in Nat /\ T.hdr[h].ioff <= T.hdr[h].blen
  BY CellFacts
<1>3. a = h + 128 + T.hdr[h].ioff /\ a \in Nat /\ n \in Nat
  BY <1>1, Regions, NrIndexes
<1>4. b = a - 4
  BY <1>1, <1>2, <1>3, LayoutConstants DEF bucket_indexes
<1>5. m = n + 1
  <2>1. /\ n = (T.hdr[h].blen - T.hdr[h].ioff) \div 4
        /\ m = (T.hdr[h].blen - (T.hdr[h].ioff - 4)) \div 4
    BY <1>1, LayoutConstants DEF bucket_nr_indexes
  <2> QED
    BY <1>2, <2>1
<1>6. Slots(T, h) = {a + 4 * i : i \in 0 .. n - 1} /\ Slots(J, h) = {b + 4 * i : i \in 0 .. m - 1}
  BY <1>1, LayoutConstants DEF Slots
<1>7. ASSUME NEW i \in 0 .. m - 1 PROVE b + 4 * i = a - 4 \/ b + 4 * i \in Slots(T, h)
  <2>1. CASE i = 0
    BY <1>3, <1>4, <2>1
  <2>2. CASE i # 0
    <3>1. i - 1 \in 0 .. n - 1 /\ b + 4 * i = a + 4 * (i - 1)
      BY <1>3, <1>4, <1>5, <1>7, <2>2
    <3> QED
      BY <1>6, <3>1
  <2> QED
    BY <2>1, <2>2
<1>8. ASSUME NEW i \in 0 .. n - 1 PROVE a + 4 * i \in Slots(J, h)
  <2>1. i + 1 \in 0 .. m - 1 /\ a + 4 * i = b + 4 * (i + 1)
    BY <1>3, <1>4, <1>5
  <2> QED
    BY <1>6, <2>1
<1>9. a - 4 \in Slots(J, h)
  <2>1. 0 \in 0 .. m - 1 /\ a - 4 = b + 4 * 0
    BY <1>3, <1>4, <1>5
  <2> QED
    BY <1>6, <2>1
<1> QED
  BY <1>1, <1>6, <1>7, <1>8, <1>9


(* The file while a path is placed: no other playlist shows anything else, *)
(* and that one nothing but the path besides what it had. *)
PlaceView(T, h, p, J) ==
  /\ J.len = T.len /\ J.size = T.size /\ DOMAIN J.hdr = DOMAIN T.hdr
  /\ \A g \in DOMAIN T.hdr : /\ J.hdr[g].length = T.hdr[g].length /\ J.hdr[g].name = T.hdr[g].name
                             /\ g # h => IndexPaths(J, g) = IndexPaths(T, g)
  /\ IndexPaths(J, h) \subseteq IndexPaths(T, h) \cup {p}

(* Before the index array has a slot more. *)
LEMMA PlaceEarly ==
  ASSUME NEW T, Sound(T), NEW h \in DOMAIN T.hdr, NEW p \in Paths, NEW c, c = T.hdr[h],
         16 + c.sbytes + PathLen[p] < c.ioff - 4,
         NEW x, x = Strings(h) + c.sbytes, NEW y, y = bucket_indexes(T, h) - 4,
         NEW J, J.len = T.len, J.size = T.size, J.hdr = T.hdr,
         \A o \in Nat : o # x => At(J.str, o, Empty) = At(T.str, o, Empty),
         \A o \in Nat : o # y => At(J.idx, o, 0) = At(T.idx, o, 0)
  PROVE  PlaceView(T, h, p, J) /\ IndexPaths(J, h) = IndexPaths(T, h)
<1>1. /\ h \in Nat /\ x \in Nat /\ y \in Nat /\ c.length \in Nat
      /\ h <= x /\ x < y /\ y < h + c.length
      /\ \A o \in Slots(T, h) : o \in Nat /\ y < o /\ o < h + c.length /\ o \in DOMAIN T.idx
      /\ \A w \in Words(T, h) : /\ w \in Nat /\ w < c.sbytes
                                /\ Strings(h) + w # x /\ Strings(h) + w \in DOMAIN T.str
  BY PlaceSpots
<1>2. ASSUME NEW g \in DOMAIN T.hdr, g # h PROVE IndexPaths(J, g) = IndexPaths(T, g)
  <2>1. ASSUME NEW o \in Nat, ~ (h <= o /\ o < h + T.hdr[h].length)
        PROVE  At(J.idx, o, 0) = At(T.idx, o, 0) /\ At(J.str, o, Empty) = At(T.str, o, Empty)
    <3>1. o # x /\ o # y
      BY <1>1, <2>1
    <3> QED
      BY <3>1
  <2> QED
    BY <1>2, <2>1, Beside
<1>3. ASSUME NEW o \in Slots(T, h)
      PROVE  Word(J, o) = Word(T, o) /\ Shown(J, h, Word(T, o)) = Shown(T, h, Word(T, o))
  <2>1. o \in Nat /\ o # y /\ o \in DOMAIN T.idx
    BY <1>1
  <2>2. Word(J, o) = Word(T, o)
    BY <2>1 DEF Word
  <2>3. PICK w, q : w = Word(T, o) /\ q = Strings(h) + w
    OBVIOUS
  <2>4. w \in Words(T, h)
    BY <2>1, <2>3 DEF Words, Word, At
  <2>5. q \in Nat /\ q # x
    <3>1. Strings(h) \in Nat
      BY <1>1, LayoutConstants DEF Strings
    <3> QED
      BY <1>1, <2>3, <2>4, <3>1
  <2> QED
    BY <2>2, <2>3, <2>5 DEF Shown
<1>4. IndexPaths(J, h) = IndexPaths(T, h)
  BY <1>3, SamePaths
<1> QED
  BY <1>2, <1>4 DEF PlaceView

(* From then on. *)
LEMMA PlaceLate ==
  ASSUME NEW T, Sound(T), NEW h \in DOMAIN T.hdr, NEW p \in Paths, NEW c, c = T.hdr[h],
         16 + c.sbytes + PathLen[p] < c.ioff - 4,
         NEW x, x = Strings(h) + c.sbytes, NEW y, y = bucket_indexes(T, h) - 4,
         NEW J, J.len = T.len, J.size = T.size, DOMAIN J.hdr = DOMAIN T.hdr,
         \A g \in DOMAIN T.hdr : g # h => J.hdr[g] = T.hdr[g],
         J.hdr[h].name = c.name, J.hdr[h].length = c.length,
         J.hdr[h].blen = c.blen, J.hdr[h].ioff = c.ioff - 4,
         \A o \in Nat : o # x => At(J.str, o, Empty) = At(T.str, o, Empty),
         At(J.str, x, Empty) = p,
         \A o \in Nat : o \notin Slots(J, h) => At(J.idx, o, 0) = At(T.idx, o, 0),
         \A o \in Slots(J, h) : Word(J, o) \in Words(T, h) \cup {c.sbytes}
  PROVE  /\ PlaceView(T, h, p, J)
         /\ (\A w \in Words(T, h) : \E o \in Slots(J, h) : Word(J, o) = w)
              => IndexPaths(T, h) \subseteq IndexPaths(J, h)
<1>1. /\ h \in Nat /\ x \in Nat /\ y \in Nat /\ c.length \in Nat
      /\ h <= x /\ x < y /\ y < h + c.length
      /\ \A o \in Slots(T, h) : o \in Nat /\ y < o /\ o < h + c.length /\ o \in DOMAIN T.idx
      /\ \A w \in Words(T, h) : /\ w \in Nat /\ w < c.sbytes
                                /\ Strings(h) + w # x /\ Strings(h) + w \in DOMAIN T.str
  BY PlaceSpots
<1>2. Slots(J, h) = Slots(T, h) \cup {y}
  <2>1. ImageInv(T)
    BY DEF Sound
  <2>2. Slots(J, h) = Slots(T, h) \cup {bucket_indexes(T, h) - 4}
    BY <2>1, SlotGained
  <2> QED
    BY <2>2
<1>3. ASSUME NEW g \in DOMAIN T.hdr, g # h PROVE IndexPaths(J, g) = IndexPaths(T, g)
  <2>1. ASSUME NEW o \in Nat, ~ (h <= o /\ o < h + T.hdr[h].length)
        PROVE  At(J.idx, o, 0) = At(T.idx, o, 0) /\ At(J.str, o, Empty) = At(T.str, o, Empty)
    <3>1. o # x
      BY <1>1, <2>1
    <3>2. \A q \in Slots(J, h) : q \in Nat /\ h <= q /\ q < h + c.length
      BY <1>1, <1>2
    <3>3. o \notin Slots(J, h)
      BY <2>1, <3>2
    <3> QED
      BY <3>1, <3>3
  <2>2. J.hdr[g] = T.hdr[g]
    BY <1>3
  <2> QED
    BY <1>3, <2>1, <2>2, Beside
<1>4. Strings(h) \in Nat
  BY <1>1, LayoutConstants DEF Strings
<1>5. ASSUME NEW w \in Words(T, h) PROVE Shown(J, h, w) = Shown(T, h, w)
  <2>1. PICK q : q = Strings(h) + w
    OBVIOUS
  <2>2. q \in Nat /\ q # x
    BY <1>1, <1>4, <2>1
  <2> QED
    BY <2>1, <2>2 DEF Shown
<1>6. Shown(J, h, c.sbytes) = p
  BY DEF Shown
<1>7. Slots(T, h) \subseteq DOMAIN T.idx
  BY <1>1
<1>8. \A w \in Words(T, h) : Shown(T, h, w) \in IndexPaths(T, h)
  BY <1>7, PathsByWord
<1>9. IndexPaths(J, h) \subseteq IndexPaths(T, h) \cup {p}
  <2>1. ASSUME NEW q \in IndexPaths(J, h) PROVE q \in IndexPaths(T, h) \cup {p}
    <3>1. PICK o \in Slots(J, h) : q = Shown(J, h, Word(J, o))
      BY PathsShown
    <3>2. CASE Word(J, o) \in Words(T, h)
      BY <1>5, <1>8, <3>1, <3>2
    <3>3. CASE Word(J, o) = c.sbytes
      BY <1>6, <3>1, <3>3
    <3> QED
      BY <3>2, <3>3
  <2> QED
    BY <2>1
<1>10. ASSUME \A w \in Words(T, h) : \E o \in Slots(J, h) : Word(J, o) = w
       PROVE  IndexPaths(T, h) \subseteq IndexPaths(J, h)
  <2>1. ASSUME NEW q \in IndexPaths(T, h) PROVE q \in IndexPaths(J, h)
    <3>1. PICK w \in Words(T, h) : q = Shown(T, h, w)
      BY <1>7, PathsByWord
    <3>2. PICK o \in Slots(J, h) : Word(J, o) = w
      BY <1>10
    <3>3. Shown(J, h, Word(J, o)) \in IndexPaths(J, h)
      BY PathsShown
    <3> QED
      BY <1>5, <3>1, <3>2, <3>3
  <2> QED
    BY <2>1
<1>11. PlaceView(T, h, p, J)
  BY <1>3, <1>9 DEF PlaceView
<1> QED
  BY <1>10, <1>11


(* qsort() moves the words of one bucket about, at any time and when it is *)
(* done, and nothing else.                                                 *)
LEMMA ShuffledFacts ==
  ASSUME NEW a, NEW b, NEW c, NEW d, NEW e, NEW f, NEW U, U = Image(a, b, c, d, e, f),
         NEW h, Slots(U, h) \subseteq DOMAIN f, NEW J,
         J \in Shuffled(U, h) \/ J \in bucket_sort(U, h)
  PROVE  /\ J.len = a /\ J.size = b /\ J.hdr = d /\ J.str = e /\ DOMAIN J.idx = DOMAIN f
         /\ \A o \in DOMAIN f : o \notin Slots(U, h) => J.idx[o] = f[o]
         /\ \A o \in Slots(U, h) : J.idx[o] \in {f[q] : q \in Slots(U, h)}
<1>1. U.idx = f
  BY ImageFields
<1>2. PICK s, ws : s = Slots(U, h) /\ ws = {f[o] : o \in s}
  OBVIOUS
<1>3. PICK F : /\ F \in [s -> ws]
               /\ J = [U EXCEPT !.idx = [o \in DOMAIN U.idx |-> IF o \in s THEN F[o] ELSE U.idx[o]]]
  BY <1>1, <1>2 DEF Shuffled, bucket_sort
<1>4. PICK G : G = [o \in DOMAIN U.idx |-> IF o \in s THEN F[o] ELSE U.idx[o]]
  OBVIOUS
<1>5. J = Image(a, b, c, d, e, G)
  BY <1>3, <1>4 DEF Image
<1>6. J.len = a /\ J.size = b /\ J.hdr = d /\ J.str = e /\ J.idx = G
  BY <1>5, ImageFields
<1>7. DOMAIN G = DOMAIN f /\ \A o \in DOMAIN f : G[o] = IF o \in s THEN F[o] ELSE f[o]
  BY <1>1, <1>4
<1>8. \A o \in s : F[o] \in ws
  BY <1>3
<1> QED
  BY <1>2, <1>6, <1>7, <1>8

(* From the third store on, and while and after the words are sorted. *)
LEMMA PlaceLateImage ==
  ASSUME NEW T, Sound(T), NEW h \in DOMAIN T.hdr, NEW p \in Paths,
         16 + T.hdr[h].sbytes + PathLen[p] < T.hdr[h].ioff - 4,
         NEW k \in {3, 4}, NEW U, U = PlaceImage(T, h, p, k),
         NEW J, J = U \/ J \in Shuffled(U, h) \/ J \in bucket_sort(U, h)
  PROVE  /\ PlaceView(T, h, p, J)
         /\ (J = U \/ \A w \in Words(T, h) : \E o \in Slots(J, h) : Word(J, o) = w)
              => IndexPaths(T, h) \subseteq IndexPaths(J, h)
<1>1. PICK c, x, y, d, e, f : /\ c = T.hdr[h] /\ x = Strings(h) + c.sbytes /\ y = bucket_indexes(T, h) - 4
                              /\ d = [T.hdr EXCEPT ![h] = PlaceCell(c, p, k)]
                              /\ e = Put(T.str, x, p) /\ f = Put(T.idx, y, c.sbytes)
  OBVIOUS
<1>2. ImageInv(T) /\ T.size = T.len
  BY DEF Sound
<1>3. U = Image(T.len, T.len, T.vm, d, e, f)
  BY <1>1, LayoutConstants DEF PlaceImage
<1>4. /\ U.len = T.len /\ U.size = T.len /\ U.hdr = d /\ U.str = e /\ U.idx = f
  BY <1>3, ImageFields
<1>5. /\ DOMAIN d = DOMAIN T.hdr /\ d[h] = PlaceCell(c, p, k)
      /\ \A g \in DOMAIN T.hdr : g # h => d[g] = T.hdr[g]
  BY <1>1
<1>6. /\ d[h].name = c.name /\ d[h].length = c.length /\ d[h].blen = c.blen /\ d[h].ioff = c.ioff - 4
  BY <1>5 DEF PlaceCell
<1>7. /\ y \in DOMAIN f /\ f[y] = c.sbytes /\ DOMAIN f = DOMAIN T.idx \cup {y}
      /\ \A o \in DOMAIN T.idx : o # y => f[o] = T.idx[o]
      /\ At(e, x, Empty) = p
      /\ \A o \in Nat : o # x => At(e, o, Empty) = At(T.str, o, Empty)
  BY <1>1 DEF Put, At
<1>8. /\ \A o \in Slots(T, h) : o \in Nat /\ y < o /\ o \in DOMAIN T.idx
      /\ y \in Nat
  BY <1>1, PlaceSpots
<1>9. Slots(U, h) = Slots(T, h) \cup {y}
  BY <1>1, <1>2, <1>4, <1>6, SlotGained
<1>10. Slots(U, h) \subseteq DOMAIN f
  BY <1>7, <1>8, <1>9
<1>11. \A o \in Slots(T, h) : f[o] = T.idx[o]
  BY <1>7, <1>8
<1>12. {f[q] : q \in Slots(U, h)} = Words(T, h) \cup {c.sbytes}
  BY <1>7, <1>9, <1>11 DEF Words
<1>13. /\ J.len = T.len /\ J.size = T.len /\ J.hdr = d /\ J.str = e /\ DOMAIN J.idx = DOMAIN f
       /\ \A o \in DOMAIN f : o \notin Slots(U, h) => J.idx[o] = f[o]
       /\ \A o \in Slots(U, h) : J.idx[o] \in {f[q] : q \in Slots(U, h)}
  <2>1. CASE J = U
    BY <1>4, <2>1
  <2>2. CASE J \in Shuffled(U, h) \/ J \in bucket_sort(U, h)
    BY <1>3, <1>10, <2>2, ShuffledFacts
  <2> QED
    BY <2>1, <2>2
<1>14. Slots(J, h) = Slots(U, h)
  BY <1>4, <1>13 DEF Slots, bucket_indexes, bucket_nr_indexes
<1>15. \A o \in Nat : o \notin Slots(J, h) => At(J.idx, o, 0) = At(T.idx, o, 0)
  BY <1>7, <1>9, <1>13, <1>14 DEF At
<1>16. \A o \in Slots(J, h) : Word(J, o) \in Words(T, h) \cup {c.sbytes}
  BY <1>10, <1>12, <1>13, <1>14 DEF Word, At
<1>17. ASSUME J = U PROVE \A w \in Words(T, h) : \E o \in Slots(J, h) : Word(J, o) = w
  <2>1. ASSUME NEW o \in Slots(T, h) PROVE o \in Slots(J, h) /\ Word(J, o) = T.idx[o]
    BY <1>4, <1>8, <1>7, <1>9, <1>11, <1>14, <1>17 DEF Word, At
  <2> QED
    BY <2>1 DEF Words
<1>18. /\ J.len = T.len /\ J.size = T.size /\ DOMAIN J.hdr = DOMAIN T.hdr
       /\ \A g \in DOMAIN T.hdr : g # h => J.hdr[g] = T.hdr[g]
       /\ J.hdr[h].name = c.name /\ J.hdr[h].length = c.length
       /\ J.hdr[h].blen = c.blen /\ J.hdr[h].ioff = c.ioff - 4
       /\ \A o \in Nat : o # x => At(J.str, o, Empty) = At(T.str, o, Empty)
       /\ At(J.str, x, Empty) = p
  BY <1>2, <1>5, <1>6, <1>7, <1>13
<1>19. 16 + c.sbytes + PathLen[p] < c.ioff - 4
  BY <1>1
<1>20. /\ PlaceView(T, h, p, J)
       /\ (\A w \in Words(T, h) : \E o \in Slots(J, h) : Word(J, o) = w)
            => IndexPaths(T, h) \subseteq IndexPaths(J, h)
  BY <1>1, <1>15, <1>16, <1>18, <1>19, PlaceLate
<1> QED
  BY <1>17, <1>20


(* Before, in the middle of and after qsort().                             *)
LEMMA PlaceShape ==
  ASSUME Sound(base), Placing, NEW T, T = Roomy
  PROVE  /\ edge \in DOMAIN base.hdr /\ edge \in DOMAIN T.hdr /\ torn = 0 /\ cmd.op = "add"
         /\ Sound(T) /\ Grown(base, T, edge, 128 * Lacking) /\ Lacking \in Nat
         /\ PlaceView(T, edge, cmd.path, img)
         /\ \/ IndexPaths(T, edge) \subseteq IndexPaths(img, edge)
            \/ todo # <<>> /\ It.store = "sorted"
<1>1. AddCall /\ torn = 0 /\ cmd.op = "add"
  BY DEF Placing, AddCall
<1>2. PICK h, p, c : h = edge /\ p = cmd.path /\ c = T.hdr[h]
  OBVIOUS
<1>3. /\ h \in DOMAIN base.hdr /\ Lacking \in Nat /\ Sound(T) /\ h \in DOMAIN T.hdr
      /\ Grown(base, T, h, 128 * Lacking)
      /\ 16 + c.sbytes + PathLen[p] < c.ioff - 4
  BY <1>1, <1>2, RoomyFacts
<1>4. p \in Paths /\ ImageInv(T) /\ T.size = T.len
  BY <1>1, <1>2, <1>3 DEF AddCall, Sound
<1>5. PICK x, y : x = Strings(h) + c.sbytes /\ y = bucket_indexes(T, h) - 4
  OBVIOUS
<1>6. ASSUME NEW k \in 0 .. 2, img = PlaceImage(T, h, p, k)
      PROVE  PlaceView(T, h, p, img) /\ IndexPaths(img, h) = IndexPaths(T, h)
  <2>1. PICK d, e, f, n, v : /\ d = T.hdr /\ n = T.len /\ v = T.vm
                             /\ e = Put(T.str, Strings(h) + c.sbytes, p)
                             /\ f = Put(T.idx, bucket_indexes(T, h) - 4, c.sbytes)
    OBVIOUS
  <2>2. /\ PlaceImage(T, h, p, 0) = T
        /\ PlaceImage(T, h, p, 0) = Image(n, n, v, d, T.str, T.idx)
        /\ PlaceImage(T, h, p, 1) = Image(n, n, v, d, e, T.idx)
        /\ PlaceImage(T, h, p, 2) = Image(n, n, v, d, e, f)
        /\ PlaceImage(T, h, p, 3) = Image(n, n, v, [d EXCEPT ![h] = PlaceCell(c, p, 3)], e, f)
        /\ PlaceImage(T, h, p, 4) = Image(n, n, v, [d EXCEPT ![h] = PlaceCell(c, p, 4)], e, f)
    BY <1>2, <1>3, <1>4, <2>1, PlaceImages
  <2>3. PICK a, b : img = Image(n, n, v, d, a, b) /\ a \in {T.str, e} /\ b \in {T.idx, f}
    <3>1. k = 0 \/ k = 1 \/ k = 2
      OBVIOUS
    <3>2. CASE k = 0
      BY <1>6, <2>2, <3>2
    <3>3. CASE k = 1
      BY <1>6, <2>2, <3>3
    <3>4. CASE k = 2
      BY <1>6, <2>2, <3>4
    <3> QED
      BY <3>1, <3>2, <3>3, <3>4
  <2>4. img.len = n /\ img.size = n /\ img.hdr = d /\ img.str = a /\ img.idx = b
    BY <2>3, ImageFields
  <2>5. \A o \in Nat : o # x => At(a, o, Empty) = At(T.str, o, Empty)
    BY <1>5, <2>1, <2>3 DEF Put, At
  <2>6. \A o \in Nat : o # y => At(b, o, 0) = At(T.idx, o, 0)
    BY <1>5, <2>1, <2>3 DEF Put, At
  <2>7. /\ img.len = T.len /\ img.size = T.size /\ img.hdr = T.hdr
        /\ \A o \in Nat : o # x => At(img.str, o, Empty) = At(T.str, o, Empty)
        /\ \A o \in Nat : o # y => At(img.idx, o, 0) = At(T.idx, o, 0)
    BY <1>4, <2>1, <2>4, <2>5, <2>6
  <2> QED
    BY <1>2, <1>3, <1>4, <1>5, <2>7, PlaceEarly
<1>7. ASSUME NEW k \in {3, 4}, img = PlaceImage(T, h, p, k)
      PROVE  PlaceView(T, h, p, img) /\ IndexPaths(T, h) \subseteq IndexPaths(img, h)
  BY <1>2, <1>3, <1>4, <1>7, PlaceLateImage
<1>8. PICK U : U = PlaceImage(T, h, p, 4)
  OBVIOUS
<1>9. PICK s : s = PlaceStores(T, h, p)
  OBVIOUS
<1>10. ASSUME img \in Shuffled(U, h), todo = [From(s, 4) EXCEPT ![1] = ToPlaylist("sorted", h, U)]
       PROVE  PlaceView(T, h, p, img) /\ todo # <<>> /\ It.store = "sorted"
  <2>1. PlaceView(T, h, p, img)
    BY <1>2, <1>3, <1>4, <1>8, <1>10, PlaceLateImage
  <2>2. OfLength(s, 6)
    BY <1>2, <1>9, PlaceElems
  <2>3. PICK g, t : g = ToPlaylist("sorted", h, U) /\ t = [From(s, 4) EXCEPT ![1] = g]
    OBVIOUS
  <2>4. t # <<>> /\ Head(t) = g
    BY <2>2, <2>3, SortElems
  <2>5. g.store = "sorted"
    BY <2>3 DEF ToPlaylist
  <2>6. todo = t
    BY <1>10, <2>3
  <2> QED
    BY <2>1, <2>4, <2>5, <2>6 DEF It
<1>11. ASSUME NEW K \in Placed(T, h, p)
       PROVE  /\ PlaceView(T, h, p, K) /\ IndexPaths(T, h) \subseteq IndexPaths(K, h)
              /\ ImageInv(K) /\ h \in DOMAIN K.hdr
  <2>1. K \in bucket_sort(U, h)
    BY <1>3, <1>4, <1>8, <1>11, PlacedSorts
  <2>2. Entered(T, K, h, p)
    BY <1>2, <1>3, <1>4, PlacedKeeps
  <2>3. ImageInv(K) /\ h \in DOMAIN K.hdr
    BY <1>2, <1>3, <1>4, PlacedSafe
  <2>4. \A w \in Words(T, h) : \E o \in Slots(K, h) : Word(K, o) = w
    <3>1. Words(K, h) = Words(T, h) \cup {T.hdr[h].sbytes}
      BY <2>2 DEF Entered
    <3>2. \A o \in Slots(K, h) : Word(K, o) = K.idx[o]
      BY <2>3 DEF ImageInv, SlotsFilled, Word, At
    <3> QED
      BY <3>1, <3>2 DEF Words
  <2>5. 4 \in {3, 4}
    OBVIOUS
  <2> QED
    BY <1>2, <1>3, <1>4, <1>8, <2>1, <2>3, <2>4, <2>5, PlaceLateImage
<1>12. ASSUME NEW K \in Placed(T, h, p), img = Counted(K, h)
       PROVE  PlaceView(T, h, p, img) /\ IndexPaths(T, h) \subseteq IndexPaths(img, h)
  <2>1. /\ PlaceView(T, h, p, K) /\ IndexPaths(T, h) \subseteq IndexPaths(K, h)
        /\ ImageInv(K) /\ h \in DOMAIN K.hdr
    BY <1>11
  <2>2. /\ img.len = K.len /\ img.str = K.str /\ img.idx = K.idx /\ DOMAIN img.hdr = DOMAIN K.hdr
        /\ \A o \in DOMAIN K.hdr :
             /\ img.hdr[o].name = K.hdr[o].name /\ img.hdr[o].length = K.hdr[o].length
             /\ img.hdr[o].blen = K.hdr[o].blen /\ img.hdr[o].ioff = K.hdr[o].ioff
    BY <1>12, <2>1, CountedKeeps
  <2>3. img.size = K.size
    BY <1>12 DEF Counted, SetCell
  <2>4. ASSUME NEW g \in DOMAIN K.hdr PROVE IndexPaths(img, g) = IndexPaths(K, g)
    <3>1. \A o \in Slots(K, g) : /\ Word(img, o) = Word(K, o)
                                 /\ Shown(img, g, Word(K, o)) = Shown(K, g, Word(K, o))
      BY <2>2 DEF Word, Shown
    <3> QED
      BY <2>2, <2>4, <3>1, SamePaths
  <2> QED
    BY <1>3, <2>1, <2>2, <2>3, <2>4 DEF PlaceView
<1>13. /\ \/ \E k \in 0 .. 4 : img = PlaceImage(T, h, p, k)
          \/ img \in Shuffled(U, h) /\ todo = [From(s, 4) EXCEPT ![1] = ToPlaylist("sorted", h, U)]
          \/ img \in Placed(T, h, p)
          \/ \E J \in Placed(T, h, p) : img = Counted(J, h)
  BY <1>2, <1>8, <1>9 DEF Placing
<1>14. ASSUME NEW k \in 0 .. 4, img = PlaceImage(T, h, p, k)
       PROVE  PlaceView(T, h, p, img) /\ IndexPaths(T, h) \subseteq IndexPaths(img, h)
  <2>1. k \in 0 .. 2 \/ k \in {3, 4}
    OBVIOUS
  <2> QED
    BY <1>6, <1>7, <1>14, <2>1
<1>15. /\ PlaceView(T, h, p, img)
       /\ IndexPaths(T, h) \subseteq IndexPaths(img, h) \/ (todo # <<>> /\ It.store = "sorted")
  BY <1>10, <1>11, <1>12, <1>13, <1>14
<1> QED
  BY <1>1, <1>2, <1>3, <1>15

(* All that is shown is in the file: CrashInv says so of every stage. *)
LEMMA ShownThere ==
  ASSUME CrashInv
  PROVE  ShownInFile
<1>1. Sound(base) /\ Stage
  BY DEF CrashInv
<1>2. InFile(base)
  BY <1>1, SoundInFile DEF Sound
<1>3. ASSUME Placing PROVE InFile(img)
  <2>1. PICK T : T = Roomy
    OBVIOUS
  <2>2. Sound(T) /\ PlaceView(T, edge, cmd.path, img)
    BY <1>1, <1>3, <2>1, PlaceShape
  <2>3. InFile(T)
    BY <2>2, SoundInFile DEF Sound
  <2> QED
    BY <2>2, <2>3 DEF InFile, PlaceView
<1>4. \/ InFile(img)
      \/ /\ torn = 0 => \A h \in DOMAIN img.hdr : h + img.hdr[h].length <= img.size
         /\ img.len <= img.size \/ (cmd.op = "delete" /\ todo # <<>> /\ It.store = "len")
  <2>1. ASSUME NEW k \in 0 .. 4, Deleting(k), torn # 0 PROVE InFile(img)
    <3>1. PICK J : J = DeleteImage(base, edge, 4)
      OBVIOUS
    <3>2. k = 1 /\ (k < 2 => img = base)
      BY <1>1, <2>1, <3>1, DeleteShape
    <3> QED
      BY <1>2, <3>2
  <2> QED
    BY <1>1, <1>2, <1>3, <2>1, StartInFile, DeleteInFile, TurnInFile DEF Stage, Refused
<1>5. Visited(img) \subseteq DOMAIN img.hdr
  BY VisitedFacts
<1> QED
  BY <1>4, <1>5 DEF InFile, ShownInFile

(* Whatever is cut short, all that the next process shows is in the file,  *)
(* and only between ftruncate() and the store of lib_len is the library    *)
(* longer than its file. *)
THEOREM ShownInFileAlways == Spec => []ShownInFile
BY Stages, ShownThere, PTL


-----------------------------------------------------------------------------
(* The lists that are compared, by the offsets they are at. *)
FrontKept ==
  \A h \in DOMAIN base.hdr : h < edge =>
    /\ h \in Visited(img) /\ img.hdr[h].name = base.hdr[h].name
    /\ IndexPaths(img, h) = IndexPaths(base, h)
NoneLost ==
  \A h \in DOMAIN base.hdr :
    \/ cmd.op = "delete" /\ h = edge
    \/ \E g \in Visited(img) :
         /\ img.hdr[g].name = base.hdr[h].name
         /\ IndexPaths(base, h) \subseteq IndexPaths(img, g) \/ (todo # <<>> /\ It.store = "sorted")
NoneInvented ==
  \A g \in Visited(img) :
    /\ img.hdr[g].name = Stored(cmd.name) \/ \E h \in DOMAIN base.hdr : img.hdr[g].name = base.hdr[h].name
    /\ \A q \in IndexPaths(img, g) :
         \/ q = cmd.path
         \/ img.hdr[g].sbytes = 0 /\ q = Empty
         \/ \E h \in DOMAIN base.hdr : q \in IndexPaths(base, h)

-----------------------------------------------------------------------------
(* The slots of a bucket that has an index offset are not its header.      *)
Indexed(J) == \A h \in DOMAIN J.hdr : J.hdr[h].ioff \in Nat /\ J.hdr[h].ioff > 0
LEMMA NoHeaderPaths ==
  ASSUME NEW J, NEW h, J.hdr[h].ioff # 0 \/ Slots(J, h) = {}
  PROVE  HeaderPaths(J, h) = {}
BY DEF HeaderPaths

LEMMA SoundIndexed ==
  ASSUME NEW J, ImageInv(J)
  PROVE  Indexed(J)
<1>1. ASSUME NEW h \in DOMAIN J.hdr PROVE J.hdr[h].ioff \in Nat /\ J.hdr[h].ioff > 0
  <2>1. J.hdr[h].ioff \in Nat /\ J.hdr[h].sbytes \in Nat /\ 16 + J.hdr[h].sbytes < J.hdr[h].ioff
    BY CellFacts
  <2> QED
    BY <2>1
<1> QED
  BY <1>1 DEF Indexed

LEMMA DeleteIndexed ==
  ASSUME Sound(base), NEW k \in 0 .. 4, Deleting(k)
  PROVE  Indexed(img)
<1>1. PICK J : J = DeleteImage(base, edge, 4)
  OBVIOUS
<1>2. /\ edge \in DOMAIN base.hdr
      /\ k < 2 => img = base
      /\ k = 2 => img = Closed(base, edge, edge + base.hdr[edge].length)
      /\ k > 2 => img.hdr = J.hdr
  BY <1>1, DeleteShape
<1>3. CASE k < 2
  BY <1>2, <1>3, SoundIndexed DEF Sound
<1>4. CASE k = 2
  <2>1. PICK n : n = base.hdr[edge].length
    OBVIOUS
  <2>2. ImageInv(img)
    BY <1>2, <1>4, <2>1, ClosedSafe DEF Sound
  <2> QED
    BY <2>2, SoundIndexed
<1>5. CASE k > 2
  <2>1. Sound(J)
    BY <1>1, <1>2, DeleteDone
  <2>2. Indexed(J)
    BY <2>1, SoundIndexed DEF Sound
  <2> QED
    BY <1>2, <1>5, <2>2 DEF Indexed
<1> QED
  BY <1>3, <1>4, <1>5

LEMMA TurnIndexed ==
  ASSUME Sound(base), NEW j \in Nat, NEW k \in 0 .. 7, Turning(j, k)
  PROVE  Indexed(img)
<1>1. PICK x \in Nat : x = 128 * j
  OBVIOUS
<1>2. PICK T, W : T = WidenedBy(base, edge, x) /\ W = WidenedBy(base, edge, x + 128)
  OBVIOUS
<1>3. PICK at, d : at = bucket_indexes(T, edge)
                   /\ d = [MovedUp(T.hdr, at, 128) EXCEPT ![edge] = TurnCell(T.hdr[edge], k)]
  OBVIOUS
<1>4. /\ edge \in DOMAIN T.hdr /\ Sound(T) /\ Sound(W)
      /\ k < 4 => img.hdr = T.hdr
      /\ k \in 4 .. 6 => img.hdr = d
      /\ k = 7 => img = W
  BY <1>1, <1>2, <1>3, TurnShape
<1>5. Indexed(T)
  BY <1>4, SoundIndexed DEF Sound
<1>6. CASE k < 4
  BY <1>4, <1>5, <1>6 DEF Indexed
<1>7. CASE k \in 4 .. 6
  <2>1. /\ edge \in Nat /\ at \in Nat /\ edge < at
        /\ d[edge].ioff = T.hdr[edge].ioff + (IF k < 6 THEN 0 ELSE 128)
        /\ \A g \in DOMAIN d : g \in Nat /\ (g < at => g \in DOMAIN T.hdr /\ g <= edge)
        /\ \A g \in DOMAIN d : g < edge => d[g] = T.hdr[g]
        /\ \A g \in DOMAIN d : g >= at => g - 128 \in DOMAIN T.hdr /\ d[g] = T.hdr[g - 128]
    BY <1>3, <1>4, <1>7, HalfTurned
  <2>2. d[edge].ioff \in Nat /\ d[edge].ioff > 0
    <3>1. T.hdr[edge].ioff \in Nat /\ T.hdr[edge].ioff > 0
      BY <1>4, <1>5 DEF Indexed
    <3> QED
      BY <2>1, <3>1
  <2>3. ASSUME NEW g \in DOMAIN d, g # edge PROVE \E f \in DOMAIN T.hdr : d[g] = T.hdr[f]
    <3>1. CASE g >= at
      <4>1. g - 128 \in DOMAIN T.hdr /\ d[g] = T.hdr[g - 128]
        BY <2>1, <3>1
      <4> QED
        BY <4>1
    <3>2. CASE g < at
      <4>1. g \in DOMAIN T.hdr /\ d[g] = T.hdr[g]
        BY <2>1, <2>3, <3>2
      <4> QED
        BY <4>1
    <3> QED
      BY <2>1, <3>1, <3>2
  <2>4. ASSUME NEW g \in DOMAIN d PROVE d[g].ioff \in Nat /\ d[g].ioff > 0
    <3>1. CASE g = edge
      BY <2>2, <3>1
    <3>2. CASE g # edge
      BY <1>5, <2>3, <3>2 DEF Indexed
    <3> QED
      BY <3>1, <3>2
  <2> QED
    BY <1>4, <1>7, <2>4 DEF Indexed
<1>8. CASE k = 7
  BY <1>4, <1>8, SoundIndexed DEF Sound
<1> QED
  BY <1>6, <1>7, <1>8

(* One index word less, and there is still room for the strings. *)
LEMMA PlaceIndexed ==
  ASSUME Sound(base), Placing
  PROVE  Indexed(img)
<1>1. AddCall
  BY DEF Placing
<1>2. PICK T, h, p, c : T = Roomy /\ h = edge /\ p = cmd.path /\ c = T.hdr[h]
  OBVIOUS
<1>3. /\ Sound(T) /\ h \in DOMAIN T.hdr /\ p \in Paths /\ ImageInv(T) /\ T.size = T.len
      /\ 16 + c.sbytes + PathLen[p] < c.ioff - 4
  BY <1>1, <1>2, RoomyFacts DEF AddCall, Sound
<1>4. c.sbytes \in Nat /\ c.ioff \in Nat /\ PathLen[p] \in Nat
  BY <1>2, <1>3, CellFacts, PathsAssumption
<1>5. ASSUME NEW k \in Nat PROVE Indexed(PlaceImage(T, h, p, k))
  <2>1. PICK J, w : J = PlaceImage(T, h, p, k) /\ w = PlaceCell(c, p, k)
    OBVIOUS
  <2>2. J.hdr = [T.hdr EXCEPT ![h] = w]
    BY <1>2, <2>1, ImageFields DEF PlaceImage
  <2>3. w.ioff = c.ioff - (IF k < 3 THEN 0 ELSE 4)
    BY <2>1 DEF PlaceCell
  <2>4. w.ioff \in Nat /\ w.ioff > 0
    BY <1>3, <1>4, <2>3
  <2>5. Indexed(T)
    BY <1>3, SoundIndexed
  <2>6. Indexed(J)
    BY <2>2, <2>4, <2>5 DEF Indexed
  <2> QED
    BY <2>1, <2>6
<1>6. PICK U : U = PlaceImage(T, h, p, 4)
  OBVIOUS
<1>7. Indexed(U)
  BY <1>5, <1>6
<1>8. ASSUME NEW J, J \in Shuffled(U, h) \/ J \in bucket_sort(U, h) PROVE J.hdr = U.hdr
  <2>1. \E i : J = [U EXCEPT !.idx = i]
    BY <1>8 DEF Shuffled, bucket_sort
  <2>2. U = Image(U.len, U.size, U.vm, U.hdr, U.str, U.idx)
    BY <1>6, ImageFields DEF PlaceImage, Image
  <2> QED
    BY <2>1, <2>2 DEF Image
<1>9. CASE \E k \in 0 .. 4 : img = PlaceImage(T, h, p, k)
  BY <1>5, <1>9
<1>10. CASE img \in Shuffled(U, h)
  BY <1>7, <1>8, <1>10 DEF Indexed
<1>11. CASE img \in Placed(T, h, p)
  <2>1. img \in bucket_sort(U, h)
    BY <1>3, <1>6, <1>11, PlacedSorts
  <2> QED
    BY <1>7, <1>8, <2>1 DEF Indexed
<1>12. ASSUME NEW J \in Placed(T, h, p), img = Counted(J, h) PROVE Indexed(img)
  <2>1. Sound(img)
    BY <1>2, <1>3, <1>12, GainedSound
  <2> QED
    BY <2>1, SoundIndexed DEF Sound
<1> QED
  BY <1>2, <1>6, <1>9, <1>10, <1>11, <1>12 DEF Placing

(* Of a new playlist, the slots are its header between the stores of the   *)
(* length and of the index offset of its bucket. *)
LEMMA StartIndexed ==
  ASSUME Sound(base), NEW k \in 0 .. 9, Starting(k), NEW h \in DOMAIN img.hdr
  PROVE  \/ HeaderPaths(img, h) = {}
         \/ h = edge /\ BucketHalfMade /\ HeaderPaths(img, h) \subseteq {Stray}
<1>1. ImageInv(base) /\ base.len \in Nat /\ Tidy(base) /\ edge = base.len
  BY DEF Sound, ImageInv, ImageTyped, Starting
<1>2. /\ img.str = base.str
      /\ \A g \in DOMAIN base.hdr : g \in DOMAIN img.hdr /\ img.hdr[g] = base.hdr[g]
      /\ \A g \in DOMAIN img.hdr : g \notin DOMAIN base.hdr =>
           g = base.len /\ img.hdr[g] = StartCell(cmd.name, k)
  BY StartShape
<1>3. CASE h \in DOMAIN base.hdr
  <2>1. img.hdr[h].ioff # 0
    BY <1>1, <1>2, <1>3, SoundIndexed DEF Indexed
  <2> QED
    BY <2>1, NoHeaderPaths
<1>4. CASE h \notin DOMAIN base.hdr /\ k < 7
  <2>1. img.hdr[h].blen = 0 /\ img.hdr[h].ioff = 0
    BY <1>2, <1>4 DEF StartCell
  <2>2. bucket_nr_indexes(img, h) = 0
    BY <2>1, LayoutConstants DEF bucket_nr_indexes
  <2>3. Slots(img, h) = {}
    BY <2>2 DEF Slots
  <2> QED
    BY <2>3, NoHeaderPaths
<1>5. CASE h \notin DOMAIN base.hdr /\ k > 7
  <2>1. img.hdr[h].ioff = 128
    BY <1>2, <1>5 DEF StartCell
  <2> QED
    BY <2>1, NoHeaderPaths
<1>6. CASE h \notin DOMAIN base.hdr /\ k = 7
  <2>1. h = base.len /\ img.hdr[h].blen = 128
    BY <1>2, <1>6 DEF StartCell
  <2>2. BucketHalfMade
    <3>1. PICK s : s = StartStores(base, cmd.name)
      OBVIOUS
    <3>2. OfLength(s, 9) /\ s[8] = ToPlaylist("ioff", base.len, 128)
      BY <3>1, StartElems
    <3>3. cmd.op = "start" /\ todo = From(s, 7)
      BY <1>6, <3>1 DEF Starting
    <3>4. PICK l \in Nat, m \in Nat : l = 9 /\ m = 7
      OBVIOUS
    <3>5. OfLength(s, l) /\ m < l
      BY <3>2, <3>4
    <3>6. Comes(s, m)
      BY <3>5, OneStore
    <3>7. todo # <<>> /\ Head(todo) = s[8]
      BY <3>3, <3>4, <3>6 DEF Comes
    <3> QED
      BY <3>2, <3>3, <3>7 DEF BucketHalfMade, It, ToPlaylist
  <2>3. ASSUME NEW w \in {BucketMagic, img.hdr[h].blen}
        PROVE  At(img.str, Strings(h) + w, Stray) = Stray
    <3>1. w \in Nat
      BY <2>1 DEF BucketMagic
    <3>2. Strings(h) + w \in Nat /\ Strings(h) + w >= base.len
      BY <1>1, <2>1, <3>1, LayoutConstants DEF Strings
    <3>3. Strings(h) + w \notin DOMAIN img.str
      BY <1>1, <1>2, <3>2 DEF Tidy
    <3> QED
      BY <3>3 DEF At
  <2>4. HeaderPaths(img, h) \subseteq {Stray}
    BY <2>3 DEF HeaderPaths
  <2> QED
    BY <1>1, <2>1, <2>2, <2>4
<1>7. k < 7 \/ k = 7 \/ k > 7
  OBVIOUS
<1> QED
  BY <1>3, <1>4, <1>5, <1>6, <1>7

(* In the file that a call began with no playlist's slots are its header,  *)
(* and at no stage are those of another playlist than a new one. *)
HeaderClear ==
  /\ \A h \in DOMAIN base.hdr : h \in Nat /\ HeaderPaths(base, h) = {}
  /\ \A h \in DOMAIN img.hdr :
       \/ HeaderPaths(img, h) = {}
       \/ h = edge /\ BucketHalfMade /\ HeaderPaths(img, h) \subseteq {Stray}

LEMMA HeaderThere ==
  ASSUME CrashInv
  PROVE  HeaderClear
<1>1. Sound(base) /\ Stage /\ ImageInv(base)
  BY DEF CrashInv, Sound
<1>2. Indexed(base) /\ \A h \in DOMAIN base.hdr : h \in Nat
  BY <1>1, SoundIndexed, CellFacts
<1>3. \A J : Indexed(J) => \A h \in DOMAIN J.hdr : HeaderPaths(J, h) = {}
  <2>1. SUFFICES ASSUME NEW J, Indexed(J), NEW h \in DOMAIN J.hdr PROVE HeaderPaths(J, h) = {}
    OBVIOUS
  <2>2. J.hdr[h].ioff # 0
    BY <2>1 DEF Indexed
  <2> QED
    BY <2>2, NoHeaderPaths
<1>4. \/ Indexed(img)
      \/ \E k \in 0 .. 9 : Starting(k)
  BY <1>1, <1>2, DeleteIndexed, TurnIndexed, PlaceIndexed DEF Stage, Refused
<1>5. ASSUME NEW k \in 0 .. 9, Starting(k), NEW h \in DOMAIN img.hdr
      PROVE  \/ HeaderPaths(img, h) = {}
             \/ h = edge /\ BucketHalfMade /\ HeaderPaths(img, h) \subseteq {Stray}
  BY <1>1, <1>5, StartIndexed
<1> QED
  BY <1>2, <1>3, <1>4, <1>5 DEF HeaderClear

Entry(I, h) == [name |-> I.hdr[h].name, at |-> h, paths |-> PathsAt(I, h)]

LEMMA ListsFacts ==
  ASSUME NEW I
  PROVE  /\ \A h \in Visited(I) : Entry(I, h) \in Lists(I)
         /\ \A l \in Lists(I) : \E h \in Visited(I) : l = Entry(I, h)
         /\ \A h : Entry(I, h).name = I.hdr[h].name /\ Entry(I, h).at = h
                   /\ Entry(I, h).paths = IndexPaths(I, h) \cup HeaderPaths(I, h)
BY DEF PathsAt, Lists, Entry

LEMMA FrontByOffset ==
  ASSUME FrontKept, HeaderClear
  PROVE  FrontSafe
<1>1. ASSUME NEW l \in Lists(base), l.at < edge PROVE l \in Lists(img)
  <2>1. PICK h \in Visited(base) : l = Entry(base, h)
    BY ListsFacts
  <2>2. h \in DOMAIN base.hdr /\ h < edge
    BY <1>1, <2>1, ListsFacts, VisitedFacts
  <2>3. h \in Visited(img) /\ Entry(img, h) = Entry(base, h)
    <3>1. /\ h \in Visited(img) /\ img.hdr[h].name = base.hdr[h].name
          /\ IndexPaths(img, h) = IndexPaths(base, h)
      BY <2>2 DEF FrontKept
    <3>2. h # edge /\ HeaderPaths(base, h) = {}
      BY <2>2 DEF HeaderClear
    <3>3. HeaderPaths(img, h) = {}
      BY <3>1, <3>2, VisitedFacts DEF HeaderClear
    <3> QED
      BY <3>1, <3>2, <3>3 DEF Entry, PathsAt
  <2>4. Entry(img, h) \in Lists(img)
    BY <2>3, ListsFacts
  <2> QED
    BY <2>1, <2>3, <2>4
<1> QED
  BY <1>1 DEF FrontSafe

LEMMA LostByOffset ==
  ASSUME Moving \/ NoneLost, HeaderClear
  PROVE  NothingLost
<1>1. ASSUME ~ Moving, NEW l \in Lists(base)
      PROVE  \/ cmd.op = "delete" /\ l.at = edge
             \/ \E s \in Lists(img) :
                  s.name = l.name /\ (l.paths \subseteq s.paths \/ (todo # <<>> /\ It.store = "sorted"))
  <2>1. PICK h \in Visited(base) : l = Entry(base, h)
    BY ListsFacts
  <2>2. h \in DOMAIN base.hdr
    BY <2>1, VisitedFacts
  <2>3. l.at = h /\ l.name = base.hdr[h].name /\ l.paths = IndexPaths(base, h)
    <3>1. HeaderPaths(base, h) = {}
      BY <2>2 DEF HeaderClear
    <3>2. /\ Entry(base, h).name = base.hdr[h].name /\ Entry(base, h).at = h
          /\ Entry(base, h).paths = IndexPaths(base, h) \cup HeaderPaths(base, h)
      BY ListsFacts
    <3> QED
      BY <2>1, <3>1, <3>2
  <2>4. ASSUME NEW g \in Visited(img), img.hdr[g].name = base.hdr[h].name,
               IndexPaths(base, h) \subseteq IndexPaths(img, g) \/ (todo # <<>> /\ It.store = "sorted")
        PROVE  \E s \in Lists(img) :
                 s.name = l.name /\ (l.paths \subseteq s.paths \/ (todo # <<>> /\ It.store = "sorted"))
    <3>1. PICK s : s = Entry(img, g)
      OBVIOUS
    <3>2. s \in Lists(img) /\ s.name = img.hdr[g].name /\ IndexPaths(img, g) \subseteq s.paths
      BY <2>4, <3>1, ListsFacts
    <3>3. s.name = l.name /\ (l.paths \subseteq s.paths \/ (todo # <<>> /\ It.store = "sorted"))
      BY <2>3, <2>4, <3>2
    <3> QED
      BY <3>2, <3>3
  <2> QED
    BY <1>1, <2>2, <2>3, <2>4 DEF NoneLost
<1> QED
  BY <1>1 DEF NothingLost

LEMMA HeaderAllowed ==
  ASSUME HeaderClear, NEW h \in DOMAIN img.hdr
  PROVE  HeaderPaths(img, h) \subseteq HalfMadeAt(h)
<1>1. CASE HeaderPaths(img, h) = {}
  BY <1>1
<1>2. CASE h = edge /\ BucketHalfMade /\ HeaderPaths(img, h) \subseteq {Stray}
  <2>1. HalfMadeAt(h) = {Stray}
    BY <1>2 DEF HalfMadeAt
  <2> QED
    BY <1>2, <2>1
<1>3. HeaderPaths(img, h) = {} \/ (h = edge /\ BucketHalfMade /\ HeaderPaths(img, h) \subseteq {Stray})
  BY DEF HeaderClear
<1> QED
  BY <1>1, <1>2, <1>3

LEMMA InventedByOffset ==
  ASSUME Visited(base) = DOMAIN base.hdr, torn # 0 \/ NoneInvented, HeaderClear
  PROVE  NothingInvented
<1>1. ASSUME torn = 0, NEW l \in Lists(img)
      PROVE  /\ l.name \in {k.name : k \in Lists(base)} \cup {Stored(cmd.name)}
             /\ l.paths \subseteq (UNION {k.paths : k \in Lists(base)}) \cup {cmd.path}
                             \cup (IF img.hdr[l.at].sbytes = 0 THEN {Empty} ELSE {})
                             \cup HalfMadeAt(l.at)
  <2>1. PICK g \in Visited(img) : l = Entry(img, g)
    BY ListsFacts
  <2>2. l.at = g /\ l.name = img.hdr[g].name /\ l.paths = IndexPaths(img, g) \cup HeaderPaths(img, g)
    BY <2>1, ListsFacts
  <2>3. PICK names, paths, none : /\ names = {k.name : k \in Lists(base)}
          /\ paths = UNION {k.paths : k \in Lists(base)}
          /\ none = IF img.hdr[l.at].sbytes = 0 THEN {Empty} ELSE {}
    OBVIOUS
  <2>4. ASSUME NEW h \in DOMAIN base.hdr
        PROVE  base.hdr[h].name \in names /\ IndexPaths(base, h) \subseteq paths
    <3>1. PICK k : k = Entry(base, h)
      OBVIOUS
    <3>2. k \in Lists(base) /\ k.name = base.hdr[h].name /\ IndexPaths(base, h) \subseteq k.paths
      BY <3>1, ListsFacts
    <3> QED
      BY <2>3, <3>2
  <2>5. NoneInvented
    BY <1>1
  <2>6. l.name \in names \cup {Stored(cmd.name)}
    BY <2>1, <2>2, <2>4, <2>5 DEF NoneInvented
  <2>7. ASSUME NEW q \in l.paths PROVE q \in paths \/ q = cmd.path \/ q \in none \/ q \in HalfMadeAt(l.at)
    <3>1. q \in IndexPaths(img, g) =>
            \/ q = cmd.path
            \/ img.hdr[g].sbytes = 0 /\ q = Empty
            \/ \E h \in DOMAIN base.hdr : q \in IndexPaths(base, h)
      BY <2>1, <2>5 DEF NoneInvented
    <3>3. q \in HeaderPaths(img, g) => q \in HalfMadeAt(l.at)
      <4>1. PICK k : k = l.at
        OBVIOUS
      <4>2. k = g /\ k \in DOMAIN img.hdr
        BY <2>1, <2>2, <4>1, VisitedFacts
      <4>3. HeaderPaths(img, k) \subseteq HalfMadeAt(k)
        BY <4>2, HeaderAllowed
      <4>4. HeaderPaths(img, g) \subseteq HalfMadeAt(k)
        BY <4>2, <4>3
      <4> QED
        BY <4>1, <4>4
    <3>2. ASSUME img.hdr[g].sbytes = 0, q = Empty PROVE q \in none
      BY <2>2, <2>3, <3>2
    <3>4. q \in IndexPaths(img, g) \/ q \in HeaderPaths(img, g)
      BY <2>2, <2>7
    <3>5. ASSUME NEW h \in DOMAIN base.hdr, q \in IndexPaths(base, h) PROVE q \in paths
      <4>1. IndexPaths(base, h) \subseteq paths
        BY <2>4
      <4> QED
        BY <3>5, <4>1
    <3> QED
      BY <3>1, <3>2, <3>3, <3>4, <3>5
  <2>8. l.paths \subseteq paths \cup {cmd.path} \cup none \cup HalfMadeAt(l.at)
    BY <2>7
  <2>9. l.name \in {k.name : k \in Lists(base)} \cup {Stored(cmd.name)}
    BY <2>3, <2>6
  <2>10. l.paths \subseteq (UNION {k.paths : k \in Lists(base)}) \cup {cmd.path}
                             \cup (IF img.hdr[l.at].sbytes = 0 THEN {Empty} ELSE {})
                             \cup HalfMadeAt(l.at)
    BY <2>3, <2>8
  <2> QED
    BY <2>9, <2>10
<1> QED
  BY <1>1 DEF NothingInvented

(* A file with the playlists of another, those behind one further on. *)
CopyView(B, J, e, m) ==
  /\ \A k \in DOMAIN B.hdr :
       /\ MovedTo(e, m, k) \in Visited(J) /\ J.hdr[MovedTo(e, m, k)].name = B.hdr[k].name
       /\ IndexPaths(J, MovedTo(e, m, k)) = IndexPaths(B, k)
  /\ \A g \in Visited(J) : \E k \in DOMAIN B.hdr : g = MovedTo(e, m, k)

LEMMA GrownView ==
  ASSUME NEW B, Sound(B), NEW e \in DOMAIN B.hdr, NEW m \in Nat, NEW T, Sound(T), Grown(B, T, e, m)
  PROVE  CopyView(B, T, e, m)
<1>1. ImageInv(B) /\ ImageInv(T) /\ Chained(T) /\ AllSound(B)
  BY DEF Sound
<1>2. Visited(T) = DOMAIN T.hdr /\ DOMAIN T.hdr = {MovedTo(e, m, k) : k \in DOMAIN B.hdr}
  BY <1>1, ChainWalked DEF Grown
<1>3. ASSUME NEW k \in DOMAIN B.hdr, NEW g, g = MovedTo(e, m, k)
      PROVE  g \in Visited(T) /\ T.hdr[g].name = B.hdr[k].name /\ IndexPaths(T, g) = IndexPaths(B, k)
  <2>1. Kept(B, k, T, g)
    BY <1>3 DEF Grown
  <2>2. g \in DOMAIN T.hdr /\ T.hdr[g].name = B.hdr[k].name
    BY <2>1 DEF Kept
  <2>3. Slots(T, g) \subseteq DOMAIN T.idx
    BY <1>1, <2>2 DEF ImageInv, SlotsFilled
  <2>4. IndexPaths(T, g) = IndexPaths(B, k)
    BY <1>1, <2>1, <2>3, KeptPaths DEF AllSound
  <2> QED
    BY <1>2, <2>2, <2>4
<1> QED
  BY <1>2, <1>3 DEF CopyView

(* The same cells in a library that is at least as long. *)
LEMMA LongerWalk ==
  ASSUME NEW T, ImageInv(T), NEW J, J.hdr = T.hdr, J.str = T.str, J.idx = T.idx,
         J.len \in Nat, T.len <= J.len
  PROVE  Visited(J) = Visited(T) /\ \A g : IndexPaths(J, g) = IndexPaths(T, g)
<1>1. \A g \in DOMAIN T.hdr : g < T.len /\ g < J.len
  BY BeforeEnd, CellFacts
<1>2. DOMAIN J.hdr = DOMAIN T.hdr
      /\ \A g \in DOMAIN T.hdr : J.hdr[g].length = T.hdr[g].length /\ g < T.len /\ g < J.len
  BY <1>1
<1>3. Visited(J) = Visited(T)
  BY <1>2, SameWalk
<1>4. \A g : IndexPaths(J, g) = IndexPaths(T, g)
  BY DEF IndexPaths, Slots, bucket_indexes, bucket_nr_indexes
<1> QED
  BY <1>3, <1>4


(* The three at the stages of each call.                                   *)
LEMMA CopyDone ==
  ASSUME NEW m \in Nat, CopyView(base, img, edge, m), edge \in Nat, DOMAIN base.hdr \subseteq Nat
  PROVE  FrontKept /\ NoneLost /\ NoneInvented
<1>1. FrontKept
  <2>1. \A h \in DOMAIN base.hdr : h < edge => MovedTo(edge, m, h) = h
    BY DEF MovedTo
  <2> QED
    BY <2>1 DEF FrontKept, CopyView
<1>2. NoneLost
  BY DEF NoneLost, CopyView
<1>3. NoneInvented
  BY DEF NoneInvented, CopyView
<1> QED
  BY <1>1, <1>2, <1>3

LEMMA BaseDone ==
  ASSUME Sound(base), img = base
  PROVE  FrontKept /\ NoneLost /\ NoneInvented
<1>1. Visited(base) = DOMAIN base.hdr
  BY ChainWalked DEF Sound
<1> QED
  BY <1>1 DEF FrontKept, NoneLost, NoneInvented

LEMMA StartDone ==
  ASSUME Sound(base), NEW k \in 0 .. 9, Starting(k)
  PROVE  FrontKept /\ NoneLost /\ NoneInvented
<1>1. /\ img.str = base.str /\ img.idx = base.idx
      /\ img.len \in Nat /\ base.len <= img.len
      /\ \A h \in DOMAIN base.hdr : h \in DOMAIN img.hdr /\ img.hdr[h] = base.hdr[h]
      /\ \A h \in DOMAIN img.hdr : h \notin DOMAIN base.hdr =>
           h = base.len /\ img.hdr[h] = StartCell(cmd.name, k)
  BY StartShape
<1>2. edge = base.len /\ base.len \in Nat /\ ImageInv(base) /\ Tidy(base)
  BY DEF Starting, Sound, ImageInv, ImageTyped
<1>3. \A h \in DOMAIN base.hdr : h \in Nat /\ h < edge
  BY <1>2, BeforeEnd, CellFacts
<1>4. \A h \in DOMAIN base.hdr : h \in Visited(img)
  <2>1. PICK e \in Nat : e = edge
    BY <1>2
  <2>2. \A h \in DOMAIN base.hdr : h < e => h \in DOMAIN img.hdr /\ img.hdr[h].length = base.hdr[h].length
    BY <1>1
  <2>3. \A h \in DOMAIN base.hdr : h < e => h \in Visited(img)
    BY <1>1, <2>2, FrontWalk
  <2> QED
    BY <1>3, <2>1, <2>3
<1>5. ASSUME NEW h \in DOMAIN base.hdr PROVE IndexPaths(img, h) = IndexPaths(base, h)
  BY <1>1 DEF IndexPaths, Slots, bucket_indexes, bucket_nr_indexes
<1>6. FrontKept /\ NoneLost
  BY <1>1, <1>4, <1>5 DEF FrontKept, NoneLost
<1>7. ASSUME NEW g \in Visited(img), g \notin DOMAIN base.hdr
      PROVE  /\ img.hdr[g].name = Stored(cmd.name) /\ img.hdr[g].sbytes = 0
             /\ \A q \in IndexPaths(img, g) : q = Empty
  <2>1. g = base.len /\ img.hdr[g] = StartCell(cmd.name, k)
    BY <1>1, <1>7, VisitedFacts
  <2>2. img.hdr[g].name = Stored(cmd.name) /\ img.hdr[g].sbytes = 0 /\ img.hdr[g].ioff \in {0, 128}
    BY <2>1 DEF StartCell
  <2>3. ASSUME NEW o \in Slots(img, g) PROVE Word(img, o) = 0
    <3>1. PICK i \in 0 .. bucket_nr_indexes(img, g) - 1 : o = bucket_indexes(img, g) + 4 * i
      BY LayoutConstants DEF Slots
    <3>2. bucket_indexes(img, g) \in Nat /\ bucket_indexes(img, g) >= g
      BY <1>2, <2>1, <2>2, LayoutConstants DEF bucket_indexes
    <3>3. o >= base.len /\ i \in Nat
      BY <1>2, <2>1, <3>1, <3>2
    <3>4. o \notin DOMAIN img.idx
      <4>1. o \in Int
        BY <3>1, <3>2, <3>3
      <4> QED
        BY <1>1, <1>2, <3>3, <4>1 DEF Tidy
    <3> QED
      BY <3>4 DEF Word, At
  <2>4. Shown(img, g, 0) = Empty
    <3>1. Strings(g) + 0 >= base.len /\ Strings(g) + 0 \in Nat
      BY <1>2, <2>1, LayoutConstants DEF Strings
    <3>2. Strings(g) + 0 \notin DOMAIN img.str
      BY <1>1, <1>2, <3>1 DEF Tidy
    <3> QED
      BY <3>2 DEF Shown, At
  <2>5. \A q \in IndexPaths(img, g) : q = Empty
    BY <2>3, <2>4, PathsShown
  <2> QED
    BY <2>2, <2>5
<1>8. NoneInvented
  BY <1>1, <1>5, <1>7 DEF NoneInvented
<1> QED
  BY <1>6, <1>8

LEMMA PlaceDone ==
  ASSUME Sound(base), Placing
  PROVE  FrontKept /\ NoneLost /\ NoneInvented
<1>1. PICK T, p : T = Roomy /\ p = cmd.path
  OBVIOUS
<1>2. PICK m : m = 128 * Lacking
  OBVIOUS
<1>3. /\ edge \in DOMAIN base.hdr /\ edge \in DOMAIN T.hdr /\ m \in Nat
      /\ Sound(T) /\ Grown(base, T, edge, m)
      /\ PlaceView(T, edge, p, img)
      /\ IndexPaths(T, edge) \subseteq IndexPaths(img, edge) \/ (todo # <<>> /\ It.store = "sorted")
  BY <1>1, <1>2, PlaceShape
<1>4. CopyView(base, T, edge, m)
  BY <1>3, GrownView
<1>5. ImageInv(base) /\ ImageInv(T)
  BY <1>3 DEF Sound
<1>6. DOMAIN base.hdr \subseteq Nat /\ edge \in Nat
  BY <1>3, <1>5, CellFacts
<1>7. Visited(img) = Visited(T)
  <2>1. \A g \in DOMAIN T.hdr : g < T.len
    BY <1>5, BeforeEnd
  <2>2. DOMAIN img.hdr = DOMAIN T.hdr
        /\ \A g \in DOMAIN T.hdr : img.hdr[g].length = T.hdr[g].length /\ g < T.len /\ g < img.len
    BY <1>3, <2>1 DEF PlaceView
  <2> QED
    BY <2>2, SameWalk
<1>8. Visited(T) \subseteq DOMAIN T.hdr
  BY VisitedFacts
<1>9. ASSUME NEW k \in DOMAIN base.hdr, NEW g, g = MovedTo(edge, m, k)
      PROVE  /\ g \in Visited(img) /\ img.hdr[g].name = base.hdr[k].name
             /\ k # edge => IndexPaths(img, g) = IndexPaths(base, k)
             /\ k = edge => g = edge /\ IndexPaths(T, edge) = IndexPaths(base, k)
  <2>1. g \in Visited(T) /\ T.hdr[g].name = base.hdr[k].name /\ IndexPaths(T, g) = IndexPaths(base, k)
    BY <1>4, <1>9 DEF CopyView
  <2>2. g = edge <=> k = edge
    BY <1>3, <1>6, <1>9 DEF MovedTo
  <2> QED
    BY <1>3, <1>7, <1>8, <2>1, <2>2 DEF PlaceView
<1>10. FrontKept
  <2>1. \A h \in DOMAIN base.hdr : h < edge => MovedTo(edge, m, h) = h /\ h # edge
    BY <1>6 DEF MovedTo
  <2> QED
    BY <1>9, <2>1 DEF FrontKept
<1>11. NoneLost
  BY <1>3, <1>9 DEF NoneLost
<1>12. ASSUME NEW g \in Visited(img)
       PROVE  /\ \E h \in DOMAIN base.hdr : img.hdr[g].name = base.hdr[h].name
              /\ \A q \in IndexPaths(img, g) : q = p \/ \E h \in DOMAIN base.hdr : q \in IndexPaths(base, h)
  <2>1. PICK k \in DOMAIN base.hdr : g = MovedTo(edge, m, k)
    BY <1>4, <1>7, <1>12 DEF CopyView
  <2>2. CASE k # edge
    BY <1>9, <2>1, <2>2
  <2>3. CASE k = edge
    BY <1>3, <1>9, <2>1, <2>3 DEF PlaceView
  <2> QED
    BY <2>2, <2>3
<1>13. NoneInvented
  BY <1>1, <1>12 DEF NoneInvented
<1> QED
  BY <1>10, <1>11, <1>13


(* After the memmove, and before the file is cut, what was behind the      *)
(* removed playlist is twice in the file, and the walk comes to the last   *)
(* of it still.                                                            *)
LEMMA DeleteKept ==
  ASSUME Sound(base), NEW k \in 0 .. 4, Deleting(k)
  PROVE  FrontKept /\ (torn # 0 \/ NoneLost) /\ NoneInvented
<1>1. PICK h, n, K : h = edge /\ n = base.hdr[edge].length /\ K = DeleteImage(base, edge, 4)
  OBVIOUS
<1>2. /\ h \in DOMAIN base.hdr /\ cmd.op = "delete" /\ h \in Nat
      /\ k < 2 => img = base
      /\ k = 2 => img = Closed(base, h, h + n)
      /\ k > 2 => img.hdr = K.hdr /\ img.str = K.str /\ img.idx = K.idx /\ K.len <= img.len /\ img.len \in Nat
  BY <1>1, DeleteShape
<1>3. /\ K = Cut(Closed(base, h, h + n), base.len - n)
      /\ ImageInv(K) /\ Excised(base, K, h, n) /\ Sound(K)
  BY <1>1, <1>2, DeleteDone
<1>4. ImageInv(base) /\ AllSound(base) /\ DOMAIN base.hdr \subseteq Nat /\ base.len \in Nat
  BY DEF Sound, ImageInv, ImageTyped
<1>5. Visited(K) = DOMAIN K.hdr /\ K.len \in Nat
  BY <1>3, ChainWalked DEF Sound, ImageInv, ImageTyped
<1>6. ASSUME NEW i \in DOMAIN base.hdr \ {h}, NEW g, g = MovedBack(h, n, i)
      PROVE  g \in DOMAIN K.hdr /\ K.hdr[g].name = base.hdr[i].name /\ IndexPaths(K, g) = IndexPaths(base, i)
  <2>1. Kept(base, i, K, g)
    BY <1>3, <1>6 DEF Excised
  <2>2. g \in DOMAIN K.hdr /\ K.hdr[g].name = base.hdr[i].name
    BY <2>1 DEF Kept
  <2>3. Slots(K, g) \subseteq DOMAIN K.idx
    BY <1>3, <2>2 DEF ImageInv, SlotsFilled
  <2>4. IndexPaths(K, g) = IndexPaths(base, i)
    BY <1>4, <2>1, <2>3, KeptPaths DEF AllSound
  <2> QED
    BY <2>2, <2>4
<1>7. \A g \in DOMAIN K.hdr : \E i \in DOMAIN base.hdr \ {h} : g = MovedBack(h, n, i)
  BY <1>3 DEF Excised
<1>8. CASE k < 2
  BY <1>2, <1>8, BaseDone
<1>9. ASSUME \A g \in DOMAIN K.hdr : /\ g \in Visited(img) /\ img.hdr[g].name = K.hdr[g].name
                                    /\ IndexPaths(img, g) = IndexPaths(K, g)
      PROVE  FrontKept /\ NoneLost
  <2>1. \A i \in DOMAIN base.hdr : i < h => i # h /\ MovedBack(h, n, i) = i
    BY <1>2, <1>4 DEF MovedBack
  <2>2. FrontKept
    BY <1>1, <1>6, <1>9, <2>1 DEF FrontKept
  <2>3. ASSUME NEW i \in DOMAIN base.hdr
        PROVE  \/ cmd.op = "delete" /\ i = edge
               \/ \E g \in Visited(img) :
                    /\ img.hdr[g].name = base.hdr[i].name
                    /\ IndexPaths(base, i) \subseteq IndexPaths(img, g) \/ (todo # <<>> /\ It.store = "sorted")
    <3>1. CASE i = h
      BY <1>1, <1>2, <3>1
    <3>2. CASE i # h
      <4>1. PICK g : g = MovedBack(h, n, i)
        OBVIOUS
      <4>2. g \in Visited(img) /\ img.hdr[g].name = base.hdr[i].name /\ IndexPaths(img, g) = IndexPaths(base, i)
        BY <1>6, <1>9, <3>2, <4>1
      <4> QED
        BY <4>2
    <3> QED
      BY <3>1, <3>2
  <2> QED
    BY <2>2, <2>3 DEF NoneLost
<1>10. CASE k > 2
  <2>1. Visited(img) = Visited(K) /\ \A g : IndexPaths(img, g) = IndexPaths(K, g)
    BY <1>2, <1>3, <1>10, LongerWalk
  <2>2. FrontKept /\ NoneLost
    BY <1>2, <1>5, <1>9, <1>10, <2>1
  <2>3. ASSUME NEW g \in Visited(img)
        PROVE  \E i \in DOMAIN base.hdr : img.hdr[g].name = base.hdr[i].name /\ IndexPaths(img, g) = IndexPaths(base, i)
    <3>1. PICK i \in DOMAIN base.hdr \ {h} : g = MovedBack(h, n, i)
      BY <1>5, <1>7, <2>1, <2>3
    <3> QED
      BY <1>2, <1>6, <1>10, <2>1, <3>1
  <2>4. NoneInvented
    BY <2>3 DEF NoneInvented
  <2> QED
    BY <2>2, <2>4
<1>11. CASE k = 2
  <2>1. ImageInv(img) /\ img.len = base.len
    BY <1>1, <1>2, <1>4, <1>11, ClosedSafe
  <2>2. K = Cut(img, base.len - n)
    BY <1>2, <1>3, <1>11
  <2>3. PICK l : l = base.len - n
    OBVIOUS
  <2>4. /\ K.len = l /\ K.hdr = CutAt(img.hdr, l)
        /\ K.str = CutAt(img.str, l) /\ K.idx = CutAt(img.idx, l)
    <3>1. img = Image(img.len, img.size, img.vm, img.hdr, img.str, img.idx)
      BY <2>1, ImageRecord DEF ImageInv
    <3>2. K = Image(l, l, img.vm, CutAt(img.hdr, l), CutAt(img.str, l), CutAt(img.idx, l))
      BY <2>2, <2>3, <3>1, ImageCut
    <3> QED
      BY <3>2, ImageFields
  <2>5. l <= base.len
    <3>1. n \in Nat
      BY <1>1, <1>2, <1>4, CellFacts
    <3> QED
      BY <1>4, <2>3, <3>1
  <2>6. \A g \in DOMAIN K.hdr : g \in DOMAIN img.hdr /\ img.hdr[g] = K.hdr[g]
    BY <2>4 DEF CutAt
  <2>7. \A g \in DOMAIN K.hdr : g \in Visited(img)
    <3>1. \A g \in DOMAIN K.hdr : g < l => g \in Visited(img)
      <4>1. l \in Nat /\ l <= img.len /\ img.len \in Nat
        BY <1>4, <1>5, <2>1, <2>4, <2>5
      <4>2. \A g \in DOMAIN K.hdr : g < l => g \in DOMAIN img.hdr /\ img.hdr[g].length = K.hdr[g].length
        BY <2>6
      <4> QED
        BY <1>3, <4>1, <4>2, FrontWalk
    <3>2. \A g \in DOMAIN K.hdr : g < l
      BY <1>3, <2>4, BeforeEnd
    <3> QED
      BY <3>1, <3>2
  <2>8. ASSUME NEW g \in DOMAIN K.hdr PROVE IndexPaths(img, g) = IndexPaths(K, g)
    <3>1. g \in Nat /\ K.hdr[g].length \in Nat /\ g + K.hdr[g].length <= l
      BY <1>3, <2>4, <2>8, CellFacts
    <3>2. ASSUME NEW o \in Nat, g <= o, o < g + K.hdr[g].length
          PROVE  At(img.idx, o, 0) = At(K.idx, o, 0) /\ At(img.str, o, Empty) = At(K.str, o, Empty)
      <4>1. o < l
        BY <1>5, <2>4, <3>1, <3>2
      <4> QED
        BY <2>4, <4>1 DEF CutAt, At
    <3>3. img.hdr[g].blen = K.hdr[g].blen /\ img.hdr[g].ioff = K.hdr[g].ioff
      BY <2>6, <2>8
    <3> QED
      BY <1>3, <2>8, <3>2, <3>3, Untouched
  <2>9. FrontKept /\ NoneLost
    BY <1>9, <2>6, <2>7, <2>8
  <2>10. ASSUME NEW g \in Visited(img)
         PROVE  \E i \in DOMAIN base.hdr : img.hdr[g].name = base.hdr[i].name /\ IndexPaths(img, g) = IndexPaths(base, i)
    <3>1. g \in DOMAIN img.hdr
      BY <2>10, VisitedFacts
    <3>2. img = Closed(base, h, h + base.hdr[h].length)
      BY <1>1, <1>2, <1>11
    <3>3. PICK i \in DOMAIN base.hdr : Kept(base, i, img, g)
      BY <1>2, <1>4, <3>1, <3>2, ClosedFrom
    <3>4. Slots(img, g) \subseteq DOMAIN img.idx
      BY <2>1, <3>1 DEF ImageInv, SlotsFilled
    <3>5. IndexPaths(img, g) = IndexPaths(base, i)
      BY <1>4, <3>3, <3>4, KeptPaths DEF AllSound
    <3> QED
      BY <3>3, <3>5 DEF Kept
  <2>11. NoneInvented
    BY <2>10 DEF NoneInvented
  <2> QED
    BY <2>9, <2>11
<1> QED
  BY <1>8, <1>10, <1>11


(* Between the memmove of a growing bucket and the store of its length:    *)
(* an index array that already reaches over the gap, or does not yet begin *)
(* behind it, has zeroes there, and zero is the first string.              *)
LEMMA HalfWords ==
  ASSUME NEW T, Sound(T), NEW h \in DOMAIN T.hdr, NEW k \in 4 .. 6, NEW at, at = bucket_indexes(T, h),
         NEW J, J.hdr[h].blen = T.hdr[h].blen + (IF k < 5 THEN 0 ELSE 128),
         J.hdr[h].ioff = T.hdr[h].ioff + (IF k < 6 THEN 0 ELSE 128),
         J.idx = MovedUp(T.idx, at, 128), NEW o \in Slots(J, h)
  PROVE  Word(J, o) = 0 \/ Word(J, o) \in Words(T, h)
<1>1. ImageInv(T) /\ ImageTyped(T)
  BY DEF Sound, ImageInv
<1>2. PICK bl, io : bl = T.hdr[h].blen /\ io = T.hdr[h].ioff
  OBVIOUS
<1>3. /\ h \in Nat /\ bl \in Nat /\ io \in Nat /\ io <= bl
      /\ at = h + 128 + io /\ at \in Nat
  BY <1>1, <1>2, CellFacts, Regions
<1>4. PICK i \in 0 .. bucket_nr_indexes(J, h) - 1 : o = bucket_indexes(J, h) + 4 * i
  BY LayoutConstants DEF Slots
<1>5. /\ bucket_indexes(J, h) = at + (IF k < 6 THEN 0 ELSE 128)
      /\ bucket_nr_indexes(J, h) = (bl - io + (IF k = 5 THEN 128 ELSE 0)) \div 4
      /\ bucket_nr_indexes(T, h) = (bl - io) \div 4
  <2>1. J.hdr[h].blen - J.hdr[h].ioff = bl - io + (IF k = 5 THEN 128 ELSE 0)
    BY <1>2, <1>3
  <2> QED
    BY <1>2, <1>3, <2>1, LayoutConstants DEF bucket_indexes, bucket_nr_indexes
<1>6. PICK j \in Nat : o = at + 4 * j /\ j < (bl - io) \div 4 + 32
  <2>1. CASE k = 4
    BY <1>3, <1>4, <1>5, <2>1
  <2>2. CASE k = 5
    <3>1. (bl - io + 128) \div 4 = (bl - io) \div 4 + 32
      BY <1>3
    <3> QED
      BY <1>3, <1>4, <1>5, <2>2, <3>1
  <2>3. CASE k = 6
    <3>1. o = at + 4 * (i + 32) /\ i + 32 \in Nat /\ i + 32 < (bl - io) \div 4 + 32
      BY <1>3, <1>4, <1>5, <2>3
    <3> QED
      BY <3>1
  <2> QED
    BY <2>1, <2>2, <2>3
<1>7. PICK f, m : f = T.idx /\ m = J.idx
  OBVIOUS
<1>8. PICK x \in Nat : x = 128
  OBVIOUS
<1>9. f = [y \in DOMAIN f |-> f[y]] /\ DOMAIN f \subseteq Nat /\ m = MovedUp(f, at, x)
  BY <1>1, <1>7, <1>8, ImageRecord
<1>10. \A y \in DOMAIN m : y >= at => y - x >= at /\ y - x \in DOMAIN f /\ m[y] = f[y - x]
  BY <1>3, <1>9, MovedUpCells
<1>11. CASE j < 32
  <2>1. o \notin DOMAIN m
    BY <1>3, <1>6, <1>8, <1>10, <1>11
  <2> QED
    BY <1>7, <2>1 DEF Word, At
<1>12. CASE j >= 32
  <2>1. PICK y : y = o - x
    OBVIOUS
  <2>2. y = at + 4 * (j - 32) /\ j - 32 \in 0 .. bucket_nr_indexes(T, h) - 1
    BY <1>3, <1>5, <1>6, <1>8, <1>12, <2>1
  <2>3. y \in Slots(T, h)
    BY <2>2, LayoutConstants DEF Slots
  <2>4. y \in DOMAIN f
    BY <1>1, <1>7, <2>3, SlotFacts
  <2>5. y >= at /\ o = y + x
    BY <1>3, <1>6, <1>8, <1>12, <2>1, <2>2
  <2>6. o \in DOMAIN m /\ m[o] = f[y]
    <3>1. \A z \in DOMAIN f : IF z < at THEN z \in DOMAIN m /\ m[z] = f[z]
                                         ELSE z + x \in DOMAIN m /\ m[z + x] = f[z]
      BY <1>3, <1>9, MovedUpKeeps
    <3>2. ~ y < at
      BY <1>3, <1>9, <2>4, <2>5
    <3> QED
      BY <2>4, <2>5, <3>1, <3>2
  <2> QED
    BY <1>7, <2>3, <2>6 DEF Word, At, Words
<1> QED
  BY <1>6, <1>11, <1>12

LEMMA HalfShown ==
  ASSUME NEW T, Sound(T), NEW h \in DOMAIN T.hdr, NEW at, at = bucket_indexes(T, h),
         NEW J, J.str = MovedUp(T.str, at, 128)
  PROVE  /\ \A w \in Words(T, h) : Shown(J, h, w) \in IndexPaths(T, h)
         /\ Shown(J, h, 0) \in IndexPaths(T, h) \/ (T.hdr[h].sbytes = 0 /\ Shown(J, h, 0) = Empty)
<1>1. ImageInv(T) /\ ImageTyped(T) /\ BucketSound(T, h) /\ Begun(T, h)
  BY DEF Sound, ImageInv, AllSound
<1>2. /\ Strings(h) = h + 144 /\ h \in Nat /\ at \in Nat /\ T.hdr[h].sbytes \in Nat
      /\ Strings(h) + T.hdr[h].sbytes < at
  BY <1>1, CellFacts, Regions
<1>3. PICK f, m : f = T.str /\ m = J.str
  OBVIOUS
<1>4. PICK x \in Nat : x = 128
  OBVIOUS
<1>5. f = [y \in DOMAIN f |-> f[y]] /\ DOMAIN f \subseteq Nat /\ m = MovedUp(f, at, x)
  BY <1>1, <1>3, <1>4, ImageRecord
<1>6. ASSUME NEW w \in Words(T, h) PROVE Shown(J, h, w) \in IndexPaths(T, h)
  <2>1. w \in Nat /\ w < T.hdr[h].sbytes /\ Strings(h) + w \in DOMAIN T.str
    BY <1>1, WordFacts
  <2>2. PICK q : q = Strings(h) + w
    OBVIOUS
  <2>3. q \in DOMAIN f /\ q < at
    BY <1>2, <1>3, <2>1, <2>2
  <2>4. q \in DOMAIN m /\ m[q] = f[q]
    BY <1>2, <1>5, <2>3, MovedUpKeeps
  <2>5. Shown(J, h, w) = Shown(T, h, w)
    BY <1>3, <2>2, <2>3, <2>4 DEF Shown, At
  <2>6. Slots(T, h) \subseteq DOMAIN T.idx
    BY <1>1 DEF ImageInv, SlotsFilled
  <2> QED
    BY <2>5, <2>6, PathsByWord
<1>7. CASE T.hdr[h].sbytes = 0
  <2>1. PICK q : q = Strings(h) + 0
    OBVIOUS
  <2>2. q = Strings(h) /\ q < at /\ q \notin DOMAIN f
    BY <1>1, <1>2, <1>3, <1>7, <2>1 DEF Begun
  <2>3. q \notin DOMAIN m
    <3>1. \A o \in DOMAIN m : o < at => o \in DOMAIN f
      BY <1>2, <1>5, MovedUpCells
    <3> QED
      BY <2>2, <3>1
  <2>4. Shown(J, h, 0) = Empty
    BY <1>3, <2>1, <2>3 DEF Shown, At
  <2> QED
    BY <1>6, <1>7, <2>4
<1>8. CASE T.hdr[h].sbytes # 0
  BY <1>1, <1>6, <1>8 DEF Begun
<1> QED
  BY <1>6, <1>7, <1>8

(* The file between the memmove and the length that leads over the gap. *)
HalfOpen(T, h, k, J) ==
  LET at == bucket_indexes(T, h) IN
  /\ J.len = T.len + 128
  /\ J.hdr = [MovedUp(T.hdr, at, 128) EXCEPT ![h] = TurnCell(T.hdr[h], k)]
  /\ J.str = MovedUp(T.str, at, 128) /\ J.idx = MovedUp(T.idx, at, 128)

LEMMA HalfView ==
  ASSUME NEW T, Sound(T), NEW h \in DOMAIN T.hdr, NEW k \in 4 .. 6, NEW J, HalfOpen(T, h, k, J)
  PROVE  /\ \A g \in DOMAIN T.hdr : g < h =>
              g \in Visited(J) /\ J.hdr[g].name = T.hdr[g].name /\ IndexPaths(J, g) = IndexPaths(T, g)
         /\ \A g \in Visited(J) :
              /\ g \in DOMAIN T.hdr /\ J.hdr[g].name = T.hdr[g].name
              /\ \A q \in IndexPaths(J, g) :
                   (J.hdr[g].sbytes = 0 /\ q = Empty) \/ q \in IndexPaths(T, g)
<1>1. ImageInv(T) /\ ImageTyped(T) /\ Disjoint(T)
  BY DEF Sound, ImageInv
<1>2. PICK at, d : at = bucket_indexes(T, h) /\ d = J.hdr
  OBVIOUS
<1>3. /\ J.len = T.len + 128
       /\ d = [MovedUp(T.hdr, at, 128) EXCEPT ![h] = TurnCell(T.hdr[h], k)]
       /\ J.str = MovedUp(T.str, at, 128) /\ J.idx = MovedUp(T.idx, at, 128)
  BY <1>2 DEF HalfOpen
<1>4. /\ h \in Nat /\ at \in Nat /\ h < at /\ h \in DOMAIN d /\ T.len \in Nat
      /\ d[h].name = T.hdr[h].name /\ d[h].length = T.hdr[h].length /\ d[h].sbytes = T.hdr[h].sbytes
      /\ d[h].blen = T.hdr[h].blen + (IF k < 5 THEN 0 ELSE 128)
      /\ d[h].ioff = T.hdr[h].ioff + (IF k < 6 THEN 0 ELSE 128)
      /\ \A g \in DOMAIN T.hdr : g < h => g \in DOMAIN d
      /\ \A g \in DOMAIN d : g \in Nat /\ (g < at => g \in DOMAIN T.hdr /\ g <= h)
      /\ \A g \in DOMAIN d : g < h => d[g] = T.hdr[g]
      /\ \A g \in DOMAIN d : g >= at => g - 128 \in DOMAIN T.hdr /\ h < g - 128 /\ d[g] = T.hdr[g - 128]
  <2>1. T.len \in Nat
    BY <1>1 DEF ImageTyped
  <2> QED
    BY <1>2, <1>3, HalfTurned
<1>5. \A g \in DOMAIN T.hdr : /\ g \in Nat /\ T.hdr[g].length \in Nat /\ T.hdr[g].length >= 144
                              /\ g + T.hdr[g].length <= T.len
                              /\ g < h => g + T.hdr[g].length <= h
  BY <1>1, CellFacts DEF Disjoint
<1>6. ASSUME NEW g \in DOMAIN T.hdr, g < h
      PROVE  g \in DOMAIN J.hdr /\ J.hdr[g] = T.hdr[g] /\ IndexPaths(J, g) = IndexPaths(T, g)
  <2>1. g \in DOMAIN J.hdr /\ J.hdr[g] = T.hdr[g]
    BY <1>2, <1>4, <1>6
  <2>2. ASSUME NEW o \in Nat, g <= o, o < g + T.hdr[g].length
        PROVE  At(J.idx, o, 0) = At(T.idx, o, 0) /\ At(J.str, o, Empty) = At(T.str, o, Empty)
    <3>1. o < at
      BY <1>4, <1>5, <1>6, <2>2
    <3>2. PICK x \in Nat : x = 128
      OBVIOUS
    <3>3. ASSUME NEW c, c = [y \in DOMAIN c |-> c[y]], DOMAIN c \subseteq Nat, NEW m, m = MovedUp(c, at, x), NEW z
          PROVE  At(m, o, z) = At(c, o, z)
      <4>1. \A y \in DOMAIN m : y < at => y \in DOMAIN c /\ m[y] = c[y]
        BY <1>4, <3>3, MovedUpCells
      <4>2. o \in DOMAIN c => o \in DOMAIN m
        BY <1>4, <3>1, <3>3, MovedUpKeeps
      <4> QED
        BY <3>1, <4>1, <4>2 DEF At
    <3>4. J.idx = MovedUp(T.idx, at, x) /\ J.str = MovedUp(T.str, at, x)
      BY <1>3, <3>2
    <3>5. /\ T.str = [y \in DOMAIN T.str |-> T.str[y]] /\ DOMAIN T.str \subseteq Nat
          /\ T.idx = [y \in DOMAIN T.idx |-> T.idx[y]] /\ DOMAIN T.idx \subseteq Nat
      BY <1>1, ImageRecord
    <3> QED
      BY <3>3, <3>4, <3>5
  <2> QED
    BY <2>1, <2>2, Untouched
<1>7. \A g \in DOMAIN T.hdr : g < h => g \in Visited(J)
  <2>1. J.len \in Nat /\ h <= J.len
    BY <1>3, <1>4, <1>5
  <2>2. \A g \in DOMAIN T.hdr : g < h => g \in DOMAIN J.hdr /\ J.hdr[g].length = T.hdr[g].length
    BY <1>6
  <2> QED
    BY <1>4, <2>1, <2>2, FrontWalk
<1>8. Visited(J) \subseteq {g \in DOMAIN d : g <= h}
  <2>1. PICK S : S = {g \in DOMAIN d : g <= h}
    OBVIOUS
  <2>2. S \in SUBSET DOMAIN J.hdr
    BY <1>2, <2>1
  <2>3. HeaderSize \in DOMAIN J.hdr => HeaderSize \in S
    <3>1. 1024 <= h
      BY <1>1, CellFacts
    <3> QED
      BY <1>2, <2>1, <3>1, LayoutConstants
  <2>4. ASSUME NEW g \in S, g + J.hdr[g].length \in DOMAIN J.hdr PROVE g + J.hdr[g].length \in S
    <3>1. g \in DOMAIN d /\ g <= h /\ g \in Nat /\ h \in Nat
      BY <1>4, <2>1, <2>4
    <3>2. PICK t : t = g + d[g].length
      OBVIOUS
    <3>3. t \in DOMAIN d /\ t \in Nat
      BY <1>2, <1>4, <2>4, <3>2
    <3>4. CASE g < h
      <4>1. g \in DOMAIN T.hdr /\ d[g] = T.hdr[g]
        BY <1>4, <3>1, <3>4
      <4>2. t <= h
        BY <1>5, <3>2, <3>4, <4>1
      <4> QED
        BY <1>2, <2>1, <3>2, <3>3, <4>2
    <3>5. CASE g = h
      <4>1. t = h + T.hdr[h].length
        BY <1>4, <3>2, <3>5
      <4>2. t > h
        BY <1>4, <1>5, <4>1
      <4>3. t >= at
        BY <1>4, <3>3, <4>2
      <4>4. PICK c : c = t - 128
        OBVIOUS
      <4>5. c \in DOMAIN T.hdr /\ h < c /\ c < h + T.hdr[h].length
        BY <1>4, <1>5, <3>3, <4>1, <4>3, <4>4
      <4> QED
        BY <1>1, <1>4, <1>5, <4>5 DEF Disjoint
    <3> QED
      BY <3>1, <3>4, <3>5
  <2>5. Visited(J) \subseteq S
    BY <2>2, <2>3, <2>4, VisitedLeast
  <2> QED
    BY <2>1, <2>5
<1>9. ASSUME NEW g \in Visited(J)
      PROVE  /\ g \in DOMAIN T.hdr /\ J.hdr[g].name = T.hdr[g].name
             /\ \A q \in IndexPaths(J, g) : (J.hdr[g].sbytes = 0 /\ q = Empty) \/ q \in IndexPaths(T, g)
  <2>1. g \in DOMAIN d /\ g <= h /\ g \in Nat /\ g \in DOMAIN T.hdr
    BY <1>4, <1>8, <1>9
  <2>2. CASE g < h
    BY <1>6, <2>1, <2>2
  <2>3. CASE g = h
    <3>1. ASSUME NEW q \in IndexPaths(J, h) PROVE (J.hdr[h].sbytes = 0 /\ q = Empty) \/ q \in IndexPaths(T, h)
      <4>1. PICK o \in Slots(J, h) : q = Shown(J, h, Word(J, o))
        BY <3>1, PathsShown
      <4>2. Word(J, o) = 0 \/ Word(J, o) \in Words(T, h)
        <5>1. /\ J.hdr[h].blen = T.hdr[h].blen + (IF k < 5 THEN 0 ELSE 128)
              /\ J.hdr[h].ioff = T.hdr[h].ioff + (IF k < 6 THEN 0 ELSE 128)
              /\ at = bucket_indexes(T, h) /\ J.idx = MovedUp(T.idx, at, 128)
          BY <1>2, <1>3, <1>4
        <5>2. \A z \in Slots(J, h) : Word(J, z) = 0 \/ Word(J, z) \in Words(T, h)
          BY <5>1, HalfWords
        <5> QED
          BY <4>1, <5>2
      <4>3. /\ \A w \in Words(T, h) : Shown(J, h, w) \in IndexPaths(T, h)
            /\ Shown(J, h, 0) \in IndexPaths(T, h) \/ (T.hdr[h].sbytes = 0 /\ Shown(J, h, 0) = Empty)
        BY <1>2, <1>3, HalfShown
      <4> QED
        BY <1>2, <1>4, <4>1, <4>2, <4>3
    <3> QED
      BY <1>2, <1>4, <2>1, <2>3, <3>1
  <2> QED
    BY <1>4, <2>1, <2>2, <2>3
<1> QED
  BY <1>6, <1>7, <1>9


(* Then what is behind is out of reach, which Moving says.                 *)
LEMMA TurnMoving ==
  ASSUME NEW j \in Nat, NEW k \in 4 .. 6, Turning(j, k)
  PROVE  Moving
<1>1. PICK T : T = WidenedBy(base, edge, 128 * j)
  OBVIOUS
<1>2. PICK s, c : s = TurnStores(T, edge) /\ c = T.hdr[edge]
  OBVIOUS
<1>3. /\ OfLength(s, 8)
      /\ s[1] = ToFile("size", T.len + 128) /\ s[2] = ToFile("len", T.len + 128)
      /\ s[3] = ToFile("tear", bucket_indexes(T, edge)) /\ s[4] = ToFile("up", 128)
      /\ s[5] = ToPlaylist("blen", edge, c.blen + 128) /\ s[6] = ToPlaylist("ioff", edge, c.ioff + 128)
      /\ s[7] = ToPlaylist("length", edge, c.length + 128) /\ s[8] = ToFile("again", edge)
  BY <1>2, TurnElems
<1>4. todo = From(s, k) /\ cmd.op = "add"
  BY <1>1, <1>2 DEF Turning, AddCall
<1>5. PICK n \in Nat : n = 8
  OBVIOUS
<1>6. OfLength(s, n) /\ k \in Nat /\ k < n
  BY <1>3, <1>5
<1>7. /\ todo # <<>> /\ Head(todo) = s[k + 1] /\ Len(todo) = n - k
      /\ k + 1 < n => todo[2] = s[k + 2]
  <2>1. /\ From(s, k) # <<>> /\ Head(From(s, k)) = s[k + 1] /\ Len(From(s, k)) = n - k
        /\ k + 1 < n => From(s, k)[2] = s[k + 2]
    BY <1>6, FromFacts
  <2> QED
    BY <1>4, <2>1
<1>8. CASE k = 4
  BY <1>3, <1>4, <1>7, <1>8 DEF Moving, It, ToPlaylist
<1>9. CASE k = 5
  BY <1>3, <1>4, <1>5, <1>7, <1>9 DEF Moving, It, ToPlaylist
<1>10. CASE k = 6
  BY <1>3, <1>4, <1>7, <1>10 DEF Moving, It, ToPlaylist
<1> QED
  BY <1>8, <1>9, <1>10

LEMMA TurnDone ==
  ASSUME Sound(base), NEW j \in Nat, NEW k \in 0 .. 7, Turning(j, k)
  PROVE  FrontKept /\ (Moving \/ NoneLost) /\ NoneInvented
<1>1. PICK x \in Nat : x = 128 * j
  OBVIOUS
<1>2. PICK T, W, y : T = WidenedBy(base, edge, x) /\ W = WidenedBy(base, edge, x + 128) /\ y = x + 128
  OBVIOUS
<1>3. PICK at, d, e, f : /\ at = bucket_indexes(T, edge)
                         /\ d = [MovedUp(T.hdr, at, 128) EXCEPT ![edge] = TurnCell(T.hdr[edge], k)]
                         /\ e = MovedUp(T.str, at, 128) /\ f = MovedUp(T.idx, at, 128)
  OBVIOUS
<1>4. /\ edge \in DOMAIN base.hdr /\ edge \in DOMAIN T.hdr /\ edge \in Nat
      /\ Sound(T) /\ Grown(base, T, edge, x) /\ Sound(W) /\ Grown(base, W, edge, x + 128)
      /\ k < 4 => /\ img.hdr = T.hdr /\ img.str = T.str /\ img.idx = T.idx
                  /\ T.len <= img.len /\ img.len \in Nat
      /\ k \in 4 .. 6 => /\ img.len = T.len + 128 /\ img.hdr = d /\ img.str = e /\ img.idx = f
      /\ k = 7 => img = W
  BY <1>1, <1>2, <1>3, TurnShape
<1>5. ImageInv(base) /\ ImageInv(T) /\ DOMAIN base.hdr \subseteq Nat
  BY <1>4 DEF Sound, ImageInv, ImageTyped
<1>6. CopyView(base, T, edge, x)
  BY <1>4, GrownView
<1>7. CASE k < 4
  <2>1. Visited(img) = Visited(T) /\ \A g : IndexPaths(img, g) = IndexPaths(T, g)
    BY <1>4, <1>5, <1>7, LongerWalk
  <2>2. CopyView(base, img, edge, x)
    BY <1>4, <1>6, <1>7, <2>1 DEF CopyView
  <2> QED
    BY <1>4, <1>5, <2>2, CopyDone
<1>8. CASE k = 7
  <2>1. CopyView(base, img, edge, y)
    BY <1>2, <1>4, <1>8, GrownView
  <2>2. y \in Nat
    BY <1>2
  <2> QED
    BY <1>4, <1>5, <2>1, <2>2, CopyDone
<1>9. CASE k \in 4 .. 6
  <2>1. PICK h, J : h = edge /\ J = img
    OBVIOUS
  <2>2. h \in DOMAIN T.hdr /\ HalfOpen(T, h, k, J)
    BY <1>3, <1>4, <1>9, <2>1 DEF HalfOpen
  <2>3. /\ \A g \in DOMAIN T.hdr : g < h =>
             g \in Visited(J) /\ J.hdr[g].name = T.hdr[g].name /\ IndexPaths(J, g) = IndexPaths(T, g)
        /\ \A g \in Visited(J) :
             /\ g \in DOMAIN T.hdr /\ J.hdr[g].name = T.hdr[g].name
             /\ \A q \in IndexPaths(J, g) :
                  (J.hdr[g].sbytes = 0 /\ q = Empty) \/ q \in IndexPaths(T, g)
    BY <1>4, <1>9, <2>2, HalfView
  <2>4. ASSUME NEW g \in DOMAIN base.hdr, g < edge
        PROVE  /\ g \in DOMAIN T.hdr /\ T.hdr[g].name = base.hdr[g].name /\ IndexPaths(T, g) = IndexPaths(base, g)
    <3>1. MovedTo(edge, x, g) = g
      BY <1>4, <1>5, <2>4 DEF MovedTo
    <3> QED
      BY <1>6, <2>4, <3>1, VisitedFacts DEF CopyView
  <2>5. FrontKept
    BY <2>1, <2>3, <2>4 DEF FrontKept
  <2>6. Visited(T) = DOMAIN T.hdr
    BY <1>4, ChainWalked DEF Sound
  <2>7. \A g \in DOMAIN T.hdr : \E i \in DOMAIN base.hdr :
          T.hdr[g].name = base.hdr[i].name /\ IndexPaths(T, g) = IndexPaths(base, i)
    BY <1>6, <2>6 DEF CopyView
  <2>8. NoneInvented
    BY <2>1, <2>3, <2>7 DEF NoneInvented
  <2> QED
    BY <1>9, <2>5, <2>8, TurnMoving
<1> QED
  BY <1>7, <1>8, <1>9

(* At each stage of each call. *)
LEMMA ListsKept ==
  ASSUME CrashInv
  PROVE  FrontKept /\ (Moving \/ NoneLost) /\ (torn # 0 \/ NoneInvented)
<1>1. Sound(base) /\ Stage
  BY DEF CrashInv
<1>2. CASE cmd.op = "none" /\ img = base /\ edge = base.len /\ todo = <<>> /\ torn = 0
  BY <1>1, <1>2, BaseDone
<1>3. ASSUME NEW k \in 0 .. 9, Starting(k) PROVE FrontKept /\ NoneLost /\ NoneInvented
  BY <1>1, <1>3, StartDone
<1>4. ASSUME NEW k \in 0 .. 4, Deleting(k) PROVE FrontKept /\ (torn # 0 \/ NoneLost) /\ NoneInvented
  BY <1>1, <1>4, DeleteKept
<1>5. CASE Refused
  BY <1>1, <1>5, BaseDone DEF Refused
<1>6. ASSUME NEW j \in Nat, NEW k \in 0 .. 7, Turning(j, k)
      PROVE  FrontKept /\ (Moving \/ NoneLost) /\ NoneInvented
  BY <1>1, <1>6, TurnDone
<1>7. CASE Placing
  BY <1>1, <1>7, PlaceDone
<1>8. torn # 0 => Moving
  BY DEF Moving
<1> QED
  BY <1>1, <1>2, <1>3, <1>4, <1>5, <1>6, <1>7, <1>8 DEF Stage

LEMMA ListsSafe ==
  ASSUME CrashInv
  PROVE  FrontSafe /\ NothingLost /\ NothingInvented
<1>1. FrontKept /\ (Moving \/ NoneLost) /\ (torn # 0 \/ NoneInvented)
  BY ListsKept
<1>2. Visited(base) = DOMAIN base.hdr
  BY ChainWalked DEF CrashInv, Sound
<1>3. HeaderClear
  BY HeaderThere
<1> QED
  BY <1>1, <1>2, <1>3, FrontByOffset, LostByOffset, InventedByOffset

(* Wherever among its stores a command stops, the playlists in front of    *)
(* the one it changes are as they were before it.                          *)
THEOREM FrontSafeAlways == Spec => []FrontSafe
<1>1. CrashInv => FrontSafe
  BY ListsSafe
<1> QED
  BY <1>1, Stages, PTL

(* Apart from the stores around a memmove, wherever a command stops no     *)
(* playlist is lost but the one mlib_delete_playlist() removes, and none   *)
(* has lost a path, unless qsort() is under way.                           *)
THEOREM NothingLostAlways == Spec => []NothingLost
<1>1. CrashInv => NothingLost
  BY ListsSafe
<1> QED
  BY <1>1, Stages, PTL

(* Wherever a command stops outside of a memmove, every name and every     *)
(* path that the next process shows was there before or is what the        *)
(* command adds, but for the playlist whose bucket mlib_init_bucket() had  *)
(* given a length and no index offset yet: its paths are read outside of   *)
(* it, where the bucket's magic and length taken for indexes lead.         *)
THEOREM NothingInventedAlways == Spec => []NothingInvented
<1>1. CrashInv => NothingInvented
  BY ListsSafe
<1> QED
  BY <1>1, Stages, PTL


-----------------------------------------------------------------------------
(* A call whose stores are all made, against the whole call of LibImage.   *)
(* The two differ in how much is mapped, which no other part of an image   *)
(* depends on.                                                             *)
LEMMA SameMapping ==
  ASSUME NEW a, NEW b, NEW c, NEW d, NEW e, NEW f, NEW I, I = Image(a, b, c, d, e, f),
         NEW v, NEW J, J = Image(a, b, v, d, e, f)
  PROVE  Mapped(I) = Mapped(J)
BY ImageMapped

LEMMA SameContains ==
  ASSUME NEW I, NEW M, M.hdr = I.hdr, M.str = I.str, M.idx = I.idx, NEW h, NEW p
  PROVE  bucket_contains(M, h, p) = bucket_contains(I, h, p)
BY DEF bucket_contains, bucket_nr_indexes, bucket_string, bucket_string_at, bucket_index, bucket_indexes

LEMMA SameFound ==
  ASSUME NEW I, ImageInv(I), NEW M, M = Mapped(I), NEW n
  PROVE  find_playlist(M, n) = find_playlist(I, n)
<1>1. M.len = I.len /\ M.hdr = I.hdr /\ M.str = I.str /\ M.idx = I.idx
  BY MappedFacts
<1>2. I.len \in Nat
  BY DEF ImageInv, ImageTyped
<1>3. Visited(M) = Visited(I)
  BY <1>1, <1>2, LongerWalk
<1> QED
  BY <1>1, <1>3 DEF find_playlist

(* mlib_start_playlist(). *)
LEMMA EndStart ==
  ASSUME Sound(base), Starting(9)
  PROVE  \E r \in Ends : Mapped(img) = Mapped(r.img)
<1>1. PICK B, M, n, t : B = base /\ M = Mapped(base) /\ n = cmd.name /\ t = B.len + 272
  OBVIOUS
<1>2. /\ ImageInv(B) /\ B.size = B.len /\ cmd.op = "start" /\ B.len <= MaxLen
      /\ find_playlist(B, n) = {} /\ img = StartImage(B, n, 9)
  BY <1>1 DEF Sound, Starting
<1>3. /\ M = Image(B.len, B.len, Pages(B.len), B.hdr, B.str, B.idx)
      /\ M.len = B.len /\ M.hdr = B.hdr /\ M.str = B.str /\ M.idx = B.idx /\ ~ Leftover(M)
  BY <1>1, <1>2, MappedFacts
<1>4. B.len \in Nat /\ t \in Nat /\ t < U32 /\ U32 \in Nat /\ t > B.len
  BY <1>1, <1>2, CrashAssumption, SizesAssumption, LayoutConstants DEF ImageInv, ImageTyped
<1>5. Add32(M.len, PlistSize + Growth) = t
  BY <1>1, <1>3, <1>4, LayoutConstants DEF Add32
<1>6. PICK v : v = Max2(Pages(B.len), Pages(t))
  OBVIOUS
<1>7. PICK Q : Q = Image(t, t, v, B.hdr, B.str, B.idx)
  OBVIOUS
<1>8. Result("ok", Q) \in library_expand(M, t)
  <2>1. Max2(B.len, t) = t /\ ~ t <= B.len
    BY <1>4 DEF Max2
  <2>2. Result("ok", Image(t, Max2(B.len, t), Max2(Pages(B.len), Pages(t)), B.hdr, B.str, B.idx))
          \in library_expand(M, t)
    BY <1>3, <2>1, ExpandMapped
  <2> QED
    BY <1>6, <1>7, <2>1, <2>2
<1>9. PICK d : d = Put(B.hdr, B.len, NewPlaylist(n))
  OBVIOUS
<1>10. PICK K : K = WithPlaylist(Q, M.len, n)
  OBVIOUS
<1>11. K = Image(t, t, v, d, B.str, B.idx)
  <2>1. Q.hdr = B.hdr
    BY <1>7, ImageFields
  <2>2. [Q EXCEPT !.hdr = d] = Image(t, t, v, d, B.str, B.idx)
    BY <1>7 DEF Image
  <2> QED
    BY <1>3, <1>9, <1>10, <2>1, <2>2 DEF WithPlaylist
<1>12. PICK r, s : r = Result("ok", K) /\ s = Result("ok", Q)
  OBVIOUS
<1>13. r.img = K /\ s.st = "ok" /\ s.img = Q
  BY <1>12 DEF Result
<1>14. r \in start_playlist(M, n)
  <2>1. find_playlist(M, n) = {}
    BY <1>1, <1>2, SameFound
  <2>2. r \in sync_library(WithPlaylist(s.img, M.len, n))
    BY <1>10, <1>12, <1>13 DEF sync_library
  <2>3. s \in library_expand(M, Add32(M.len, PlistSize + Growth))
    BY <1>5, <1>8, <1>12
  <2> QED
    BY <1>13, <2>1, <2>2, <2>3 DEF start_playlist
<1>15. img = Image(t, t, B.vm, d, B.str, B.idx)
  <2>1. StartCell(n, 9) = NewPlaylist(n)
    BY LayoutConstants DEF StartCell, NewPlaylist
  <2>2. StartImage(B, n, 9) = Image(B.len + 272, B.len + 272, B.vm, Put(B.hdr, B.len, StartCell(n, 9)), B.str, B.idx)
    BY StartImages
  <2> QED
    BY <1>1, <1>2, <1>9, <2>1, <2>2
<1>16. Mapped(img) = Mapped(r.img)
  BY <1>11, <1>13, <1>15, SameMapping
<1>17. Ends = start_playlist(M, n)
  BY <1>1, <1>2 DEF Ends
<1> QED
  BY <1>14, <1>16, <1>17

(* mlib_delete_playlist(). *)
LEMMA EndDelete ==
  ASSUME Sound(base), Deleting(4)
  PROVE  \E r \in Ends : Mapped(img) = Mapped(r.img)
<1>1. PICK B, M, h, n, l, q : /\ B = base /\ M = Mapped(base) /\ h = edge /\ n = base.hdr[edge].length
                              /\ l = B.len - n /\ q = h + n
  OBVIOUS
<1>2. /\ ImageInv(B) /\ B.size = B.len /\ cmd.op = "delete" /\ h \in find_playlist(B, cmd.name)
      /\ img = DeleteImage(B, h, 4)
  BY <1>1 DEF Sound, Deleting
<1>3. /\ M = Image(B.len, B.len, Pages(B.len), B.hdr, B.str, B.idx)
      /\ M.len = B.len /\ M.hdr = B.hdr /\ M.str = B.str /\ M.idx = B.idx
  BY <1>1, <1>2, MappedFacts
<1>4. h \in DOMAIN B.hdr
  BY <1>2, FindPlaylistFacts
<1>5. h \in Nat /\ n \in Nat /\ B.len \in Nat /\ 1024 <= h /\ h + n <= B.len
  BY <1>1, <1>2, <1>4, CellFacts
<1>6. PICK d, e, f : /\ d = MovedDown(B.hdr, h, q, B.len) /\ e = MovedDown(B.str, h, q, B.len)
                     /\ f = MovedDown(B.idx, h, q, B.len)
  OBVIOUS
<1>7. PICK K : K = Closed(M, h, q)
  OBVIOUS
<1>8. K = Image(B.len, B.len, Pages(B.len), d, e, f)
  BY <1>3, <1>6, <1>7, ImageClosed
<1>9. Cut(K, l) = Image(l, l, Pages(B.len), CutAt(d, l), CutAt(e, l), CutAt(f, l))
  BY <1>8, ImageCut
<1>10. img = Image(l, l, B.vm, CutAt(d, l), CutAt(e, l), CutAt(f, l))
  BY <1>1, <1>2, <1>6, DeleteImages
<1>11. PICK r : r = Result("ok", Cut(K, l))
  OBVIOUS
<1>12. r.img = Cut(K, l)
  BY <1>11 DEF Result
<1>13. r \in delete_playlist(M, cmd.name)
  <2>1. K.len = B.len
    BY <1>8, ImageFields
  <2>2. ~ (l < HeaderSize \/ l > K.len)
    BY <1>1, <1>5, <2>1, LayoutConstants
  <2>3. r \in library_trunc(K, l)
    BY <1>11, <2>2 DEF library_trunc
  <2>4. M.len - (q - h) = l /\ h + M.hdr[h].length = q
    BY <1>1, <1>3, <1>5
  <2>5. r \in library_excise(M, h, h + M.hdr[h].length)
    BY <1>7, <2>3, <2>4 DEF library_excise
  <2>6. h \in find_playlist(M, cmd.name)
    BY <1>1, <1>2, SameFound
  <2> QED
    BY <2>5, <2>6 DEF delete_playlist
<1>14. Mapped(img) = Mapped(r.img)
  BY <1>9, <1>10, <1>12, SameMapping
<1>15. Ends = delete_playlist(M, cmd.name)
  BY <1>1, <1>2 DEF Ends
<1> QED
  BY <1>13, <1>14, <1>15

(* A path that is there already. *)
LEMMA EndRefused ==
  ASSUME Sound(base), Refused
  PROVE  \E r \in Ends : Mapped(img) = Mapped(r.img)
<1>1. PICK B, M, p : B = base /\ M = Mapped(base) /\ p = cmd.path
  OBVIOUS
<1>2. /\ ImageInv(B) /\ B.size = B.len /\ cmd.op = "add" /\ bucket_contains(B, edge, p) /\ img = B
  BY <1>1 DEF Sound, Refused, AddCall
<1>3. /\ M = Image(B.len, B.len, Pages(B.len), B.hdr, B.str, B.idx)
      /\ M.hdr = B.hdr /\ M.str = B.str /\ M.idx = B.idx
  BY <1>1, <1>2, MappedFacts
<1>4. PICK q, r : q = Result("refused", M) /\ r = Result("fail", M)
  OBVIOUS
<1>5. q.st = "refused" /\ q.img = M /\ r.img = M
  BY <1>4 DEF Result
<1>6. q \in bucket_add(M, edge, p)
  <2>1. bucket_contains(M, edge, p)
    BY <1>2, <1>3, SameContains
  <2> QED
    BY <1>4, <2>1 DEF bucket_add
<1>7. r \in add_path_to_plist(M, edge, p)
  BY <1>4, <1>5, <1>6 DEF add_path_to_plist
<1>8. Mapped(img) = Mapped(r.img)
  <2>1. B = Image(B.len, B.len, B.vm, B.hdr, B.str, B.idx)
    BY <1>2, ImageRecord DEF ImageInv
  <2> QED
    BY <1>2, <1>3, <1>5, <2>1, SameMapping
<1>9. Ends = add_path_to_plist(M, edge, p)
  BY <1>1, <1>2 DEF Ends
<1> QED
  BY <1>7, <1>8, <1>9


(* What qsort() and the turns may leave does not depend on the mapping.    *)
LEMMA SortMapped ==
  ASSUME NEW a, NEW b, NEW c, NEW d, NEW e, NEW f, NEW U, U = Image(a, b, c, d, e, f),
         NEW v, NEW V, V = Image(a, b, v, d, e, f), NEW h, NEW J \in bucket_sort(U, h)
  PROVE  \E x : J = Image(a, b, c, d, e, x) /\ Image(a, b, v, d, e, x) \in bucket_sort(V, h)
<1> DEFINE slots == Slots(U, h)
           words == {U.idx[o] : o \in slots}
<1>1. U.hdr = d /\ U.str = e /\ U.idx = f /\ V.hdr = d /\ V.str = e /\ V.idx = f
  BY ImageFields
<1>2. slots = Slots(V, h)
  BY <1>1 DEF Slots, bucket_indexes, bucket_nr_indexes
<1>3. words = {V.idx[o] : o \in slots}
  BY <1>1
<1>4. PICK F \in [slots -> words] :
        /\ {F[o] : o \in slots} = words
        /\ \A o, q \in slots : o < q => bucket_string_at(U, h, F[o]) <= bucket_string_at(U, h, F[q])
        /\ J = [U EXCEPT !.idx = [o \in DOMAIN U.idx |-> IF o \in slots THEN F[o] ELSE U.idx[o]]]
  BY DEF bucket_sort
<1> HIDE DEF slots, words
<1>5. PICK x : x = [o \in DOMAIN f |-> IF o \in slots THEN F[o] ELSE f[o]]
  OBVIOUS
<1>6. J = Image(a, b, c, d, e, x)
  BY <1>1, <1>4, <1>5 DEF Image
<1>7. PICK K : K = Image(a, b, v, d, e, x)
  OBVIOUS
<1>8. K = [V EXCEPT !.idx = [o \in DOMAIN V.idx |-> IF o \in slots THEN F[o] ELSE V.idx[o]]]
  BY <1>1, <1>5, <1>7 DEF Image
<1>9. \A o, q \in slots : o < q => bucket_string_at(V, h, F[o]) <= bucket_string_at(V, h, F[q])
  BY <1>1, <1>4 DEF bucket_string_at
<1>10. K \in bucket_sort(V, h)
  <2> DEFINE at == Slots(V, h)
             of == {V.idx[o] : o \in at}
             ascending(g) == /\ {g[o] : o \in at} = of
                             /\ \A o, q \in at : o < q =>
                                  bucket_string_at(V, h, g[o]) <= bucket_string_at(V, h, g[q])
  <2>1. at = slots /\ of = words
    BY <1>2, <1>3
  <2>2. F \in [at -> of] /\ ascending(F)
    BY <1>4, <1>9, <2>1
  <2>3. K = [V EXCEPT !.idx = [o \in DOMAIN V.idx |-> IF o \in at THEN F[o] ELSE V.idx[o]]]
    BY <1>8, <2>1
  <2>4. bucket_sort(V, h) =
          {[V EXCEPT !.idx = [o \in DOMAIN V.idx |-> IF o \in at THEN g[o] ELSE V.idx[o]]] :
             g \in {g \in [at -> of] : ascending(g)}}
    BY DEF bucket_sort
  <2> HIDE DEF at, of, ascending
  <2> QED
    BY <2>2, <2>3, <2>4
<1> QED
  BY <1>6, <1>7, <1>10

(* As many turns as are lacking, in a library with all of it mapped. *)
LEMMA TurnsMapped ==
  ASSUME NEW B, ImageInv(B), B.size = B.len, NEW h \in DOMAIN B.hdr, NEW t \in Nat, B.len + 128 * t < U32,
         NEW M, M = Mapped(B), NEW T, T = WidenedBy(B, h, 128 * t)
  PROVE  \E v \in Int : \E Q : /\ Q = Image(T.len, T.len, v, T.hdr, T.str, T.idx)
                               /\ Result("ok", Q) \in AfterTurns(M, h, t)
<1>1. /\ M = Image(B.len, B.len, Pages(B.len), B.hdr, B.str, B.idx)
      /\ M.len = B.len /\ M.hdr = B.hdr /\ M.str = B.str /\ M.idx = B.idx /\ ~ Leftover(M)
  BY MappedFacts
<1>2. PICK a, m, at : a = B.len + m /\ m = 128 * t /\ at = bucket_indexes(B, h)
  OBVIOUS
<1>3. /\ B.len \in Nat /\ m \in Nat /\ a \in Nat /\ a < U32 /\ at \in Nat /\ h \in Nat /\ h < at
      /\ U32 \in Nat
  <2>1. /\ bucket_indexes(B, h) \in Nat /\ h < bucket_indexes(B, h) /\ h \in Nat
    BY WidenedFacts
  <2> QED
    BY <1>2, <2>1, SizesAssumption DEF ImageInv, ImageTyped
<1>4. PICK d, e, f, w : /\ d = MovedUp(B.hdr, at, m) /\ e = MovedUp(B.str, at, m)
                        /\ f = MovedUp(B.idx, at, m) /\ w = Wider(B.hdr[h], m)
  OBVIOUS
<1>5. T = Image(a, a, B.vm, [d EXCEPT ![h] = w], e, f)
  BY <1>2, <1>4 DEF WidenedBy
<1>6. T.len = a /\ T.hdr = [d EXCEPT ![h] = w] /\ T.str = e /\ T.idx = f
  BY <1>5, ImageFields
<1>7. CASE t = 0
  <2>1. T = B
    BY <1>2, <1>7, WidenedNone
  <2>2. Result("ok", M) \in AfterTurns(M, h, t)
    BY <1>7 DEF AfterTurns
  <2>3. Pages(B.len) \in Int
    BY <1>3, PagesInt
  <2>4. M = Image(T.len, T.len, Pages(B.len), T.hdr, T.str, T.idx)
    BY <1>1, <2>1
  <2> QED
    BY <2>2, <2>3, <2>4
<1>8. CASE t # 0
  <2>1. PICK v : v = Max2(Pages(B.len), Pages(a))
    OBVIOUS
  <2>2. v \in Int
    <3>1. Pages(B.len) \in Int /\ Pages(a) \in Int
      BY <1>3, PagesInt
    <3> QED
      BY <2>1, <3>1 DEF Max2
  <2>3. a = Add32(B.len, m) /\ ~ a <= B.len /\ Max2(B.len, a) = a
    BY <1>2, <1>3, <1>8 DEF Add32, Max2
  <2>4. at = bucket_indexes(M, h)
    BY <1>1, <1>2 DEF bucket_indexes
  <2>5. d[h] = B.hdr[h]
    <3>1. B.hdr = [o \in DOMAIN B.hdr |-> B.hdr[o]] /\ DOMAIN B.hdr \subseteq Nat
      BY ImageRecord DEF ImageInv
    <3> QED
      BY <1>3, <1>4, <3>1, MovedUpKeeps
  <2>6. PICK Q : Q = Image(a, a, v, [d EXCEPT ![h] = w], e, f)
    OBVIOUS
  <2>7. Result("ok", Image(a, Max2(B.len, a), Max2(Pages(B.len), Pages(a)),
                           [MovedUp(B.hdr, at, m) EXCEPT ![h] = Wider(MovedUp(B.hdr, at, m)[h], m)],
                           MovedUp(B.str, at, m), MovedUp(B.idx, at, m)))
          \in bucket_expand(M, h, m)
    BY <1>1, <2>3, <2>4, WidenMapped
  <2>8. Result("ok", Q) \in bucket_expand(M, h, m)
    BY <1>4, <2>1, <2>3, <2>5, <2>6, <2>7
  <2>9. Growth * t = m
    BY <1>2, LayoutConstants
  <2>10. Result("ok", Q) \in AfterTurns(M, h, t)
    BY <1>8, <2>8, <2>9 DEF AfterTurns, Result
  <2> QED
    BY <1>6, <2>2, <2>6, <2>10
<1> QED
  BY <1>7, <1>8


LEMMA PlacedMapped ==
  ASSUME NEW T, ImageInv(T), T.size = T.len, NEW h \in DOMAIN T.hdr, NEW p \in Paths,
         NEW v \in Int, NEW Q, Q = Image(T.len, T.len, v, T.hdr, T.str, T.idx), NEW J \in Placed(T, h, p)
  PROVE  \E K \in Placed(Q, h, p) : Mapped(Counted(J, h)) = Mapped(Counted(K, h))
<1>1. Q.len = T.len /\ Q.size = T.len /\ Q.vm = v /\ Q.hdr = T.hdr /\ Q.str = T.str /\ Q.idx = T.idx
  BY ImageFields
<1>2. ImageInv(Q)
  <2>1. T.len \in Nat
    BY DEF ImageInv, ImageTyped
  <2>2. PICK b \in Nat : b = T.len
    BY <2>1
  <2> QED
    BY <2>2, ImageInvLike
<1>3. PICK U, V : U = PlaceImage(T, h, p, 4) /\ V = PlaceImage(Q, h, p, 4)
  OBVIOUS
<1>4. J \in bucket_sort(U, h) /\ Placed(Q, h, p) = bucket_sort(V, h)
  BY <1>1, <1>2, <1>3, PlacedSorts
<1>5. PICK n, d, e, f : /\ n = T.len /\ d = [T.hdr EXCEPT ![h] = PlaceCell(T.hdr[h], p, 4)]
                        /\ e = Put(T.str, Strings(h) + T.hdr[h].sbytes, p)
                        /\ f = Put(T.idx, bucket_indexes(T, h) - 4, T.hdr[h].sbytes)
  OBVIOUS
<1>6. bucket_indexes(Q, h) = bucket_indexes(T, h)
  BY <1>1 DEF bucket_indexes
<1>7. U = Image(n, n, T.vm, d, e, f) /\ V = Image(n, n, v, d, e, f)
  BY <1>1, <1>3, <1>5, <1>6, LayoutConstants DEF PlaceImage
<1>8. PICK x : J = Image(n, n, T.vm, d, e, x) /\ Image(n, n, v, d, e, x) \in bucket_sort(V, h)
  BY <1>4, <1>7, SortMapped
<1>9. PICK K : K = Image(n, n, v, d, e, x)
  OBVIOUS
<1>10. PICK w : w = [d[h] EXCEPT !.mcount = @ + 1]
  OBVIOUS
<1>11. J.hdr = d /\ K.hdr = d
  BY <1>8, <1>9, ImageFields
<1>12. Counted(J, h) = Image(n, n, T.vm, [d EXCEPT ![h] = w], e, x)
  BY <1>8, <1>10, <1>11, ImageSet DEF Counted
<1>13. Counted(K, h) = Image(n, n, v, [d EXCEPT ![h] = w], e, x)
  BY <1>9, <1>10, <1>11, ImageSet DEF Counted
<1>14. Mapped(Counted(J, h)) = Mapped(Counted(K, h))
  BY <1>12, <1>13, SameMapping
<1> QED
  BY <1>4, <1>8, <1>9, <1>14

(* A path that is added. *)
LEMMA EndPlaced ==
  ASSUME Sound(base), AddCall, ~ bucket_contains(base, edge, cmd.path),
         NEW J \in Placed(Roomy, edge, cmd.path), img = Counted(J, edge)
  PROVE  \E r \in Ends : Mapped(img) = Mapped(r.img)
<1>1. PICK B, M, T, h, p, t : /\ B = base /\ M = Mapped(base) /\ T = Roomy /\ h = edge /\ p = cmd.path
                              /\ t = Lacking
  OBVIOUS
<1>2. /\ ImageInv(B) /\ B.size = B.len /\ B.len \in Nat
      /\ h \in DOMAIN B.hdr /\ t \in Nat /\ 128 * t < PathLen[p] + 132 /\ p \in Paths
      /\ B.len + PathLen[p] + 132 < U32 /\ Sound(T) /\ h \in DOMAIN T.hdr /\ cmd.op = "add"
      /\ T = WidenedBy(B, h, 128 * t) /\ t = Turns(B.hdr[h], PathLen[p])
  BY <1>1, RoomyFacts DEF Sound, ImageInv, ImageTyped, AddCall, Roomy, Lacking
<1>3. M.hdr = B.hdr /\ M.str = B.str /\ M.idx = B.idx
  BY <1>1, <1>2, MappedFacts
<1>4. B.len + 128 * t < U32
  BY <1>2, PathsAssumption, SizesAssumption
<1>20. PICK v \in Int : \E Q : /\ Q = Image(T.len, T.len, v, T.hdr, T.str, T.idx)
                               /\ Result("ok", Q) \in AfterTurns(M, h, t)
  BY <1>1, <1>2, <1>4, TurnsMapped
<1>5. PICK Q : /\ Q = Image(T.len, T.len, v, T.hdr, T.str, T.idx)
               /\ Result("ok", Q) \in AfterTurns(M, h, t)
  BY <1>20
<1>6. PICK K \in Placed(Q, h, p) : Mapped(Counted(J, h)) = Mapped(Counted(K, h))
  <2>1. ImageInv(T) /\ T.size = T.len
    BY <1>2 DEF Sound
  <2>2. J \in Placed(T, h, p)
    BY <1>1
  <2>3. \E K \in Placed(Q, h, p) : Mapped(Counted(J, h)) = Mapped(Counted(K, h))
    BY <1>2, <1>5, <2>1, <2>2, PlacedMapped
  <2> QED
    BY <2>3
<1>7. PICK s, q, r : s = Result("ok", Q) /\ q = Result("ok", K) /\ r = Result("ok", Counted(K, h))
  OBVIOUS
<1>8. s.st = "ok" /\ s.img = Q /\ q.st = "ok" /\ q.img = K /\ r.img = Counted(K, h)
  BY <1>7 DEF Result
<1>9. q \in bucket_add(M, h, p)
  <2>1. ~ bucket_contains(M, h, p)
    <3>1. bucket_contains(M, h, p) = bucket_contains(B, h, p)
      BY <1>3, SameContains
    <3> QED
      BY <1>1, <3>1
  <2>2. Turns(M.hdr[h], PathLen[p]) = t
    BY <1>2, <1>3
  <2>3. s \in AfterTurns(M, h, t)
    BY <1>5, <1>7
  <2>4. q \in {Result(s.st, I) : I \in Placed(s.img, h, p)}
    BY <1>7, <1>8
  <2>5. q \in AddedAfter(M, h, p, t)
    BY <2>3, <2>4 DEF AddedAfter
  <2> QED
    BY <2>1, <2>2, <2>5 DEF bucket_add
<1>10. r \in add_path_to_plist(M, h, p)
  BY <1>7, <1>8, <1>9 DEF add_path_to_plist
<1>11. Ends = add_path_to_plist(M, h, p)
  BY <1>1, <1>2 DEF Ends
<1> QED
  BY <1>1, <1>6, <1>8, <1>10, <1>11

LEMMA EndsAgree ==
  ASSUME CrashInv
  PROVE  EndAgrees
<1>1. SUFFICES ASSUME todo = <<>>
               PROVE  \E r \in Ends : Mapped(img) = Mapped(r.img)
  BY DEF EndAgrees
<1>2. Sound(base) /\ Resting
  BY <1>1, AtRest DEF CrashInv
<1>3. CASE cmd.op = "none" /\ img = base
  <2>1. PICK r : r = Result("ok", base)
    OBVIOUS
  <2>2. Ends = {r} /\ r.img = base
    BY <1>3, <2>1 DEF Ends, Result
  <2> QED
    BY <1>3, <2>2
<1> QED
  BY <1>2, <1>3, EndStart, EndDelete, EndRefused, EndPlaced DEF Resting

(* The stores of a command that is not cut short, in the order in which    *)
(* the code makes them, come to what LibImage says the whole call does:    *)
(* mlib_start_playlist(), mlib_delete_playlist(), and                      *)
(* mlib_add_path_to_plist() with as many turns of mlib_bucket_add() as it  *)
(* takes.                                                                  *)
THEOREM EndAgreesAlways == Spec => []EndAgrees
<1>1. CrashInv => EndAgrees
  BY EndsAgree
<1> QED
  BY <1>1, Stages, PTL
-----------------------------------------------------------------------------
(* The walk of the next process: it never comes back to where it was,      *)
(* because every playlist has a length.                                    *)
Lengthy(J) == \A h \in DOMAIN J.hdr : h \in Nat /\ J.hdr[h].length \in Nat /\ J.hdr[h].length > 0
HalfBegun == cmd.op = "start" /\ todo # <<>> /\ It.store = "length"
WalkOnward ==
  torn = 0 /\ ~ HalfBegun => \A h \in Visited(img) : \A g \in next_playlist(img, h) : h < g

LEMMA SoundLengthy ==
  ASSUME NEW J, ImageInv(J)
  PROVE  Lengthy(J)
<1>1. ASSUME NEW h \in DOMAIN J.hdr PROVE h \in Nat /\ J.hdr[h].length \in Nat /\ J.hdr[h].length > 0
  <2>1. /\ h \in Nat /\ J.hdr[h].length \in Nat /\ J.hdr[h].blen \in Nat
        /\ J.hdr[h].length = J.hdr[h].blen + 144
    BY CellFacts
  <2> QED
    BY <2>1
<1> QED
  BY <1>1 DEF Lengthy

(* Of a playlist that is begun, the length is the next store after the     *)
(* magic. *)
LEMMA StartLengthy ==
  ASSUME Sound(base), NEW k \in 0 .. 9, Starting(k), ~ HalfBegun
  PROVE  Lengthy(img)
<1>1. ImageInv(base) /\ base.len \in Nat
  BY DEF Sound, ImageInv, ImageTyped
<1>2. /\ \A h \in DOMAIN base.hdr : h \in DOMAIN img.hdr /\ img.hdr[h] = base.hdr[h]
      /\ \A h \in DOMAIN img.hdr : h \notin DOMAIN base.hdr =>
           h = base.len /\ img.hdr[h] = StartCell(cmd.name, k)
  BY StartShape
<1>3. k # 3
  <2>1. SUFFICES ASSUME k = 3 PROVE HalfBegun
    OBVIOUS
  <2>2. PICK s : s = StartStores(base, cmd.name)
    OBVIOUS
  <2>3. OfLength(s, 9) /\ s[4] = ToPlaylist("length", base.len, 272)
    BY <2>2, StartElems
  <2>4. cmd.op = "start" /\ todo = From(s, 3)
    BY <2>1, <2>2 DEF Starting
  <2>5. PICK l \in Nat, m \in Nat : l = 9 /\ m = 3
    OBVIOUS
  <2>6. OfLength(s, l) /\ m < l
    BY <2>3, <2>5
  <2>7. Comes(s, m)
    BY <2>6, OneStore
  <2>8. todo # <<>> /\ Head(todo) = s[4]
    BY <2>4, <2>5, <2>7 DEF Comes
  <2> QED
    BY <2>3, <2>4, <2>8 DEF HalfBegun, It, ToPlaylist
<1>4. ASSUME k < 4
      PROVE  img.hdr = base.hdr
  <2>1. k = 0 \/ k = 1 \/ k = 2
    BY <1>3, <1>4
  <2>2. img = StartImage(base, cmd.name, k)
    BY DEF Starting
  <2> QED
    BY <2>1, <2>2 DEF StartImage, Image
<1>5. Lengthy(base)
  BY <1>1, SoundLengthy
<1>6. CASE k < 4
  BY <1>4, <1>5, <1>6 DEF Lengthy
<1>7. CASE ~ k < 4
  <2>1. ASSUME NEW h \in DOMAIN img.hdr, h \notin DOMAIN base.hdr
        PROVE  h \in Nat /\ img.hdr[h].length = 272
    BY <1>1, <1>2, <1>7, <2>1 DEF StartCell
  <2>2. ASSUME NEW h \in DOMAIN img.hdr
        PROVE  h \in Nat /\ img.hdr[h].length \in Nat /\ img.hdr[h].length > 0
    <3>1. CASE h \in DOMAIN base.hdr
      BY <1>2, <1>5, <3>1 DEF Lengthy
    <3>2. CASE h \notin DOMAIN base.hdr
      BY <2>1, <3>2
    <3> QED
      BY <3>1, <3>2
  <2> QED
    BY <2>2 DEF Lengthy
<1> QED
  BY <1>6, <1>7

LEMMA DeleteLengthy ==
  ASSUME Sound(base), NEW k \in 0 .. 4, Deleting(k), torn = 0
  PROVE  Lengthy(img)
<1>1. PICK J : J = DeleteImage(base, edge, 4)
  OBVIOUS
<1>2. /\ edge \in DOMAIN base.hdr
      /\ k < 2 => img = base
      /\ k = 2 => img = Closed(base, edge, edge + base.hdr[edge].length)
      /\ k > 2 => img.hdr = J.hdr
  BY <1>1, DeleteShape
<1>3. CASE k < 2
  BY <1>2, <1>3, SoundLengthy DEF Sound
<1>4. CASE k = 2
  <2>1. PICK n : n = base.hdr[edge].length
    OBVIOUS
  <2>2. ImageInv(img)
    BY <1>2, <1>4, <2>1, ClosedSafe DEF Sound
  <2> QED
    BY <2>2, SoundLengthy
<1>5. CASE k > 2
  <2>1. Lengthy(J)
    BY <1>1, <1>2, DeleteDone, SoundLengthy
  <2> QED
    BY <1>2, <1>5, <2>1 DEF Lengthy
<1> QED
  BY <1>3, <1>4, <1>5

LEMMA TurnLengthy ==
  ASSUME Sound(base), NEW j \in Nat, NEW k \in 0 .. 7, Turning(j, k)
  PROVE  Lengthy(img)
<1>1. PICK x \in Nat : x = 128 * j
  OBVIOUS
<1>2. PICK T, W : T = WidenedBy(base, edge, x) /\ W = WidenedBy(base, edge, x + 128)
  OBVIOUS
<1>3. PICK at, d : at = bucket_indexes(T, edge)
                   /\ d = [MovedUp(T.hdr, at, 128) EXCEPT ![edge] = TurnCell(T.hdr[edge], k)]
  OBVIOUS
<1>4. /\ edge \in DOMAIN T.hdr /\ Sound(T) /\ Sound(W)
      /\ k < 4 => img.hdr = T.hdr
      /\ k \in 4 .. 6 => img.hdr = d
      /\ k = 7 => img = W
  BY <1>1, <1>2, <1>3, TurnShape
<1>5. Lengthy(T)
  BY <1>4, SoundLengthy DEF Sound
<1>6. CASE k < 4
  BY <1>4, <1>5, <1>6 DEF Lengthy
<1>7. CASE k \in 4 .. 6
  <2>1. /\ edge \in Nat /\ at \in Nat /\ edge < at
        /\ d[edge].length = T.hdr[edge].length
        /\ \A g \in DOMAIN d : g \in Nat /\ (g < at => g \in DOMAIN T.hdr /\ g <= edge)
        /\ \A g \in DOMAIN d : g < edge => d[g] = T.hdr[g]
        /\ \A g \in DOMAIN d : g >= at => g - 128 \in DOMAIN T.hdr /\ d[g] = T.hdr[g - 128]
    BY <1>3, <1>4, <1>7, HalfTurned
  <2>2. ASSUME NEW g \in DOMAIN d PROVE \E f \in DOMAIN T.hdr : d[g].length = T.hdr[f].length
    <3>1. CASE g >= at
      <4>1. g - 128 \in DOMAIN T.hdr /\ d[g] = T.hdr[g - 128]
        BY <2>1, <3>1
      <4> QED
        BY <4>1
    <3>2. CASE g < at
      <4>1. g \in DOMAIN T.hdr /\ (g = edge \/ d[g] = T.hdr[g])
        BY <2>1, <3>2
      <4> QED
        BY <1>4, <2>1, <4>1
    <3> QED
      BY <2>1, <3>1, <3>2
  <2>3. Lengthy(img)
    BY <1>4, <1>5, <1>7, <2>1, <2>2 DEF Lengthy
  <2> QED
    BY <2>3
<1>8. CASE k = 7
  BY <1>4, <1>8, SoundLengthy DEF Sound
<1> QED
  BY <1>6, <1>7, <1>8

LEMMA OnwardThere ==
  ASSUME CrashInv
  PROVE  WalkOnward
<1>1. Sound(base) /\ Stage
  BY DEF CrashInv
<1>2. Lengthy(base)
  BY <1>1, SoundLengthy DEF Sound
<1>3. SUFFICES ASSUME torn = 0, ~ HalfBegun
               PROVE  \A h \in Visited(img) : \A g \in next_playlist(img, h) : h < g
  BY DEF WalkOnward
<1>4. ASSUME Placing PROVE Lengthy(img)
  <2>1. PICK T : T = Roomy
    OBVIOUS
  <2>2. Sound(T) /\ PlaceView(T, edge, cmd.path, img)
    BY <1>1, <1>4, <2>1, PlaceShape
  <2>3. Lengthy(T)
    BY <2>2, SoundLengthy DEF Sound
  <2> QED
    BY <2>2, <2>3 DEF Lengthy, PlaceView
<1>5. Lengthy(img)
  BY <1>1, <1>2, <1>3, <1>4, StartLengthy, DeleteLengthy, TurnLengthy DEF Stage, Refused
<1>6. Visited(img) \subseteq DOMAIN img.hdr
  BY VisitedFacts
<1> QED
  BY <1>5, <1>6 DEF Lengthy, next_playlist

(* A file that a process left behind is walked to its end: from every      *)
(* playlist the walk goes on to one behind it. The one exception is the    *)
(* moment between the stores of a new playlist's magic and of its length,  *)
(* in which mlib_next_playlist() leads to where it is (and, as nothing is  *)
(* known then, a memmove).                                                 *)
THEOREM WalkOnwardAlways == Spec => []WalkOnward
BY Stages, OnwardThere, PTL
=============================================================================

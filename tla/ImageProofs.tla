---------------------------- MODULE ImageProofs -----------------------------
(***************************************************************************)
(* What the operators of LibImage do to a library file, for every set of   *)
(* names and paths, every path length, file limit, page size and choice of *)
(* faults.  There is one lemma per operator, from the bottom up, for each  *)
(* of the three things that stay true of a file: its layout (ImageInv),    *)
(* what its buckets hold (AllSound, Ordered), and the chain of its         *)
(* playlists (Chained, NamesApart).  The modules on Library and on         *)
(* LibraryCrash put them together.                                         *)
(***************************************************************************)
EXTENDS LibImage, FiniteSetTheorems, FunctionTheorems, TLAPS

(***************************************************************************)
(* Where playlists lie.  ImageInv: the image is well typed, its playlists  *)
(* keep to their arithmetic and do not overlap, and the file covers        *)
(* lib_len.  Every outcome of every operator satisfies ImageInv again.     *)
(***************************************************************************)

LEMMA LayoutConstants ==
  /\ HeaderSize = 1024 /\ PlistSize = 144 /\ PlistData = 128
  /\ BucketHdr = 16 /\ Growth = 128 /\ IndexSize = 4
BY DEF HeaderSize, PlistSize, PlistData, BucketHdr, Growth, IndexSize

CellsFit(I) == \A h \in DOMAIN I.hdr : CellFits(I, h)

(* The index array holds words throughout; without this, what qsort()      *)
(* writes back need not be a word.                                         *)
SlotsFilled(I) == \A h \in DOMAIN I.hdr : Slots(I, h) \subseteq DOMAIN I.idx

ImageInv(I) ==
  /\ ImageTyped(I)
  /\ SlotsFilled(I)
  /\ HeaderSize <= I.len /\ I.len < U32 /\ I.len <= I.size
  /\ CellsFit(I)
  /\ Disjoint(I)

(* Results of the inner steps. *)
InnerStates == {"ok", "moved", "refused", "unmapped"}

OuterStates == {"ok", "fail", "unmapped", "killed", "wild"}

LEMMA PagesInt == ASSUME NEW n \in Nat PROVE Pages(n) \in Int
BY SizesAssumption DEF Pages

LEMMA SameSlots ==
  ASSUME NEW I, NEW J, NEW h, J.hdr[h] = I.hdr[h]
  PROVE  Slots(J, h) = Slots(I, h)
BY DEF Slots, bucket_indexes, bucket_nr_indexes

(* Growing the file changes no cell and no playlist's place. *)
LEMMA ExpandSafe ==
  ASSUME NEW I, ImageInv(I), NEW newlen \in Nat, newlen < U32,
         NEW r \in library_expand(I, newlen)
  PROVE  /\ r.st \in InnerStates
         /\ r.img.hdr = I.hdr /\ r.img.idx = I.idx
         /\ ImageInv(r.img)
         /\ r.st \in {"ok", "moved"} => r.img.len = newlen /\ newlen > I.len
<1>1. /\ ImageTyped(I) /\ I.len \in Nat /\ I.size \in Nat /\ I.vm \in Int
      /\ HeaderSize <= I.len /\ I.len <= I.size
  BY DEF ImageInv, ImageTyped
<1>2. Pages(newlen) \in Int
  BY PagesInt
<1> DEFINE G(vm) == [expand_fd(I, newlen) EXCEPT !.len = newlen, !.vm = vm]
           U == expand_fd(I, newlen)
<1>3. \/ r = Result("refused", I)
      \/ r = Result("unmapped", I)
      \/ r = Result("unmapped", U)
      \/ newlen > I.len /\ \E st \in {"ok", "moved"}, vm \in Int : r = Result(st, G(vm))
  <2>1. Max2(I.vm, Pages(newlen)) \in Int
    BY <1>1, <1>2 DEF Max2
  <2>2. CASE newlen <= I.len
    BY <2>2 DEF library_expand
  <2>3. CASE ~ newlen <= I.len
    <3>1. r \in {Result("unmapped", I), Result("unmapped", U), Result("moved", G(Pages(newlen))),
                 Result("ok", G(Max2(I.vm, Pages(newlen))))}
      BY <2>3, Zenon DEF library_expand, Fault
    <3>2. newlen > I.len
      BY <1>1, <2>3
    <3> QED
      BY <1>2, <2>1, <3>1, <3>2
  <2> QED
    BY <2>2, <2>3
<1>4. Max2(I.size, newlen) \in Nat /\ Max2(I.size, newlen) >= I.size /\ Max2(I.size, newlen) >= newlen
  BY <1>1 DEF Max2
<1>5. CASE r \in {Result("refused", I), Result("unmapped", I)}
  BY <1>5 DEF Result, InnerStates
<1>6. CASE r = Result("unmapped", U)
  <2>1. U.len = I.len /\ U.size = Max2(I.size, newlen)
        /\ U.hdr = I.hdr /\ U.idx = I.idx
    BY <1>1 DEF ImageTyped, expand_fd
  <2>2. ImageTyped(U)
    BY <1>1, <1>4 DEF ImageTyped, expand_fd
  <2> HIDE DEF U
  <2>3. SlotsFilled(U)
    BY <2>1, SameSlots DEF ImageInv, SlotsFilled
  <2>4. ImageInv(U)
    BY <1>1, <1>4, <2>1, <2>2, <2>3 DEF ImageInv, CellsFit, CellFits, Disjoint
  <2> QED
    BY <1>6, <2>1, <2>4 DEF Result, InnerStates
<1>7. ASSUME newlen > I.len, NEW st \in {"ok", "moved"}, NEW vm \in Int, r = Result(st, G(vm))
      PROVE  /\ r.st \in InnerStates /\ r.img.hdr = I.hdr /\ r.img.idx = I.idx
             /\ ImageInv(r.img) /\ r.img.len = newlen
  <2> DEFINE J == G(vm)
  <2>1. J.len = newlen /\ J.size = Max2(I.size, newlen)
        /\ J.hdr = I.hdr /\ J.idx = I.idx
    BY <1>1 DEF ImageTyped, expand_fd
  <2>2. ImageTyped(J)
    BY <1>1, <1>4 DEF ImageTyped, expand_fd
  <2> HIDE DEF J
  <2>3. CellsFit(J)
    <3> SUFFICES ASSUME NEW h \in DOMAIN I.hdr PROVE CellFits(J, h)
      BY <2>1 DEF CellsFit
    <3>1. CellFits(I, h) /\ I.hdr[h] \in Cell /\ h \in Nat
      BY DEF ImageInv, ImageTyped, CellsFit
    <3> QED
      BY <1>1, <1>7, <2>1, <3>1 DEF CellFits, Cell
  <2>4. SlotsFilled(J)
    BY <2>1, SameSlots DEF ImageInv, SlotsFilled
  <2>5. ImageInv(J)
    BY <1>1, <1>4, <1>7, <2>1, <2>2, <2>3, <2>4 DEF ImageInv, Disjoint, HeaderSize
  <2> QED
    BY <1>7, <2>1, <2>5 DEF Result, InnerStates, J
<1> QED
  BY <1>3, <1>5, <1>6, <1>7 DEF Result

(* memmove upwards: what is at an offset afterwards, and whence it came. *)
LEMMA MovedUpCells ==
  ASSUME NEW f, f = [o \in DOMAIN f |-> f[o]], DOMAIN f \subseteq Nat,
         NEW at \in Nat, NEW n \in Nat, NEW m, m = MovedUp(f, at, n)
  PROVE  /\ m = [o \in DOMAIN m |-> m[o]] /\ DOMAIN m \subseteq Nat
         /\ \A o \in DOMAIN f : IF o < at THEN o \in DOMAIN m ELSE o + n \in DOMAIN m
         /\ \A o \in DOMAIN m : o < at => o \in DOMAIN f /\ m[o] = f[o]
         /\ \A o \in DOMAIN m : o >= at =>
              o - n >= at /\ o - n \in DOMAIN f /\ m[o] = f[o - n]
<1>1. DOMAIN m = {x \in DOMAIN f : x < at} \cup {x + n : x \in {y \in DOMAIN f : y >= at}}
  BY DEF MovedUp
<1>2. \A o \in DOMAIN m : m[o] = IF o < at THEN f[o] ELSE f[o - n]
  BY DEF MovedUp
<1>3. m = [o \in DOMAIN m |-> m[o]]
  BY DEF MovedUp
<1>4. \A o \in DOMAIN f : IF o < at THEN o \in DOMAIN m ELSE o + n \in DOMAIN m
  BY <1>1
<1>5. \A o \in DOMAIN m : o < at => o \in DOMAIN f /\ m[o] = f[o]
  <2> SUFFICES ASSUME NEW o \in DOMAIN m, o < at PROVE o \in DOMAIN f
    BY <1>2
  <2> QED
    BY <1>1
<1>6. \A o \in DOMAIN m : o >= at => o - n >= at /\ o - n \in DOMAIN f /\ m[o] = f[o - n]
  <2> SUFFICES ASSUME NEW o \in DOMAIN m, o >= at
               PROVE  o - n >= at /\ o - n \in DOMAIN f /\ m[o] = f[o - n]
    OBVIOUS
  <2>1. PICK x \in DOMAIN f : x >= at /\ o = x + n
    BY <1>1
  <2>2. o - n = x
    BY <2>1
  <2> QED
    BY <1>2, <2>1, <2>2
<1>7. DOMAIN m \subseteq Nat
  BY <1>1
<1> QED
  BY <1>3, <1>4, <1>5, <1>6, <1>7

LEMMA MovedUpTyped ==
  ASSUME NEW S, NEW f, f \in [DOMAIN f -> S], DOMAIN f \subseteq Nat,
         NEW at \in Nat, NEW n \in Nat, NEW m, m = MovedUp(f, at, n)
  PROVE  m \in [DOMAIN m -> S] /\ DOMAIN m \subseteq Nat
<1>1. /\ m = [o \in DOMAIN m |-> m[o]] /\ DOMAIN m \subseteq Nat
      /\ \A o \in DOMAIN m : o < at => o \in DOMAIN f /\ m[o] = f[o]
      /\ \A o \in DOMAIN m : o >= at => o - n \in DOMAIN f /\ m[o] = f[o - n]
  BY MovedUpCells
<1>2. \A o \in DOMAIN m : m[o] \in S
  BY <1>1
<1> QED
  BY <1>1, <1>2

LEMMA OpenedTyped ==
  ASSUME NEW J, ImageTyped(J), NEW at \in Nat, NEW n \in Nat
  PROVE  /\ ImageTyped(Opened(J, at, n))
         /\ Opened(J, at, n).len = J.len /\ Opened(J, at, n).size = J.size
         /\ Opened(J, at, n).hdr = MovedUp(J.hdr, at, n)
         /\ Opened(J, at, n).idx = MovedUp(J.idx, at, n)
<1> DEFINE K == Opened(J, at, n)
<1>1. PICK H, S, X : H = MovedUp(J.hdr, at, n) /\ S = MovedUp(J.str, at, n)
                     /\ X = MovedUp(J.idx, at, n)
  OBVIOUS
<1>2. /\ J.hdr \in [DOMAIN J.hdr -> Cell] /\ J.str \in [DOMAIN J.str -> Paths]
      /\ J.idx \in [DOMAIN J.idx -> Nat]
      /\ DOMAIN J.hdr \subseteq Nat /\ DOMAIN J.str \subseteq Nat /\ DOMAIN J.idx \subseteq Nat
  BY DEF ImageTyped
<1>3. H \in [DOMAIN H -> Cell] /\ DOMAIN H \subseteq Nat
  BY <1>1, <1>2, MovedUpTyped
<1>4. S \in [DOMAIN S -> Paths] /\ DOMAIN S \subseteq Nat
  BY <1>1, <1>2, MovedUpTyped
<1>5. X \in [DOMAIN X -> Nat] /\ DOMAIN X \subseteq Nat
  BY <1>1, <1>2, MovedUpTyped
<1>6. K = [J EXCEPT !.hdr = H, !.str = S, !.idx = X]
  BY <1>1 DEF Opened
<1> HIDE DEF K
<1>7. K.len = J.len /\ K.size = J.size /\ K.hdr = H /\ K.idx = X
  BY <1>6 DEF ImageTyped
<1>8. ImageTyped(K)
  BY <1>3, <1>4, <1>5, <1>6 DEF ImageTyped
<1> QED
  BY <1>1, <1>7, <1>8 DEF K

LEMMA SetCellTyped ==
  ASSUME NEW J, ImageTyped(J), NEW h \in DOMAIN J.hdr, NEW c \in Cell
  PROVE  LET K == SetCell(J, h, c) IN
         /\ ImageTyped(K) /\ K.len = J.len /\ K.size = J.size /\ K.idx = J.idx
         /\ DOMAIN K.hdr = DOMAIN J.hdr /\ K.hdr[h] = c
         /\ \A o \in DOMAIN J.hdr : o # h => K.hdr[o] = J.hdr[o]
<1> DEFINE K == SetCell(J, h, c)
<1>1. PICK H : H = [J.hdr EXCEPT ![h] = c]
  OBVIOUS
<1>2. H \in [DOMAIN H -> Cell] /\ DOMAIN H = DOMAIN J.hdr /\ DOMAIN H \subseteq Nat
  BY <1>1 DEF ImageTyped
<1>3. K = [J EXCEPT !.hdr = H]
  BY <1>1 DEF SetCell
<1> HIDE DEF K
<1>4. K.hdr = H /\ ImageTyped(K) /\ K.len = J.len /\ K.size = J.size /\ K.idx = J.idx
  BY <1>2, <1>3 DEF ImageTyped
<1> QED
  BY <1>1, <1>2, <1>4 DEF ImageTyped, K

LEMMA WiderCell ==
  ASSUME NEW c \in Cell, NEW n \in Nat
  PROVE  /\ Wider(c, n) \in Cell
         /\ Wider(c, n).length = c.length + n /\ Wider(c, n).blen = c.blen + n
         /\ Wider(c, n).ioff = c.ioff + n /\ Wider(c, n).sbytes = c.sbytes
<1> DEFINE w == Wider(c, n)
<1>1. w.length = c.length + n /\ w.blen = c.blen + n /\ w.ioff = c.ioff + n
      /\ w.sbytes = c.sbytes /\ w.name = c.name /\ w.mcount = c.mcount
  BY DEF Wider, Cell
<1>2. c.length + n \in Nat /\ c.blen + n \in Nat /\ c.ioff + n \in Nat
  BY DEF Cell
<1>3. w \in Cell
  BY <1>2 DEF Wider, Cell
<1> QED
  BY <1>1, <1>3

LEMMA CellFacts ==
  ASSUME NEW I, ImageInv(I), NEW h \in DOMAIN I.hdr
  PROVE  /\ h \in Nat /\ I.len \in Nat /\ I.hdr[h] \in Cell
         /\ 1024 <= h /\ h + I.hdr[h].length <= I.len
         /\ I.hdr[h].length = I.hdr[h].blen + 144
         /\ 16 + I.hdr[h].sbytes < I.hdr[h].ioff /\ I.hdr[h].ioff <= I.hdr[h].blen
         /\ I.hdr[h].length \in Nat /\ I.hdr[h].blen \in Nat
         /\ I.hdr[h].ioff \in Nat /\ I.hdr[h].sbytes \in Nat
<1>1. CellFits(I, h) /\ I.hdr[h] \in Cell /\ h \in Nat /\ I.len \in Nat
  BY DEF ImageInv, ImageTyped, CellsFit
<1> QED
  BY <1>1, LayoutConstants DEF CellFits, Cell

LEMMA SlotFacts ==
  ASSUME NEW I, ImageInv(I), NEW h \in DOMAIN I.hdr, NEW x \in Slots(I, h)
  PROVE  /\ x \in Nat /\ x >= bucket_indexes(I, h) /\ x < h + I.hdr[h].length
         /\ x \in DOMAIN I.idx
BY CellFacts, LayoutConstants
   DEF Slots, bucket_indexes, bucket_nr_indexes, ImageInv, SlotsFilled

(* Room opened at the index array of playlist h, which grows by as much:   *)
(* playlists before it stay, those behind it move, none overlap.           *)
LEMMA BucketExpandSafe ==
  ASSUME NEW I, ImageInv(I), NEW h \in DOMAIN I.hdr, NEW n \in Nat, n < U32,
         NEW r \in bucket_expand(I, h, n)
  PROVE  /\ r.st \in InnerStates
         /\ ImageInv(r.img)
         /\ h \in DOMAIN r.img.hdr
         /\ r.st \in {"ok", "moved"} =>
              /\ r.img.hdr[h].ioff = I.hdr[h].ioff + n
              /\ r.img.hdr[h].sbytes = I.hdr[h].sbytes
<1> DEFINE at == bucket_indexes(I, h)
           newlen == Add32(I.len, n)
           Expanded(J) == SetCell(Opened(J, at, n), h, Wider(Opened(J, at, n).hdr[h], n))
<1>1. /\ I.hdr[h] \in Cell /\ h \in Nat /\ at \in Nat /\ at = h + 128 + I.hdr[h].ioff
      /\ I.len \in Nat /\ I.len < U32
  BY CellFacts, LayoutConstants DEF bucket_indexes, ImageInv
<1>2. newlen \in Nat /\ newlen < U32 /\ (newlen > I.len => newlen = I.len + n)
  BY <1>1, SizesAssumption DEF Add32
<1>3. PICK q \in library_expand(I, newlen) :
        r = IF q.st \in {"ok", "moved"} THEN Result(q.st, Expanded(q.img)) ELSE q
  <2>1. PICK q2 \in library_insert_space(I, at, n) :
          r = IF q2.st \in {"ok", "moved"}
              THEN Result(q2.st, SetCell(q2.img, h, Wider(q2.img.hdr[h], n))) ELSE q2
    BY Zenon DEF bucket_expand
  <2>2. PICK q \in library_expand(I, newlen) :
          q2 = IF q.st \in {"ok", "moved"} THEN Result(q.st, Opened(q.img, at, n)) ELSE q
    BY Zenon DEF library_insert_space
  <2> QED
    BY <2>1, <2>2 DEF Result
<1> HIDE DEF at, newlen
<1>4. /\ q.st \in InnerStates /\ q.img.hdr = I.hdr /\ q.img.idx = I.idx /\ ImageInv(q.img)
      /\ q.st \in {"ok", "moved"} => q.img.len = newlen /\ newlen > I.len
  BY <1>2, ExpandSafe
<1>5. CASE q.st \notin {"ok", "moved"}
  BY <1>3, <1>4, <1>5
<1>6. CASE q.st \in {"ok", "moved"}
  <2> DEFINE J == q.img
             K == Opened(J, at, n)
             w == Wider(K.hdr[h], n)
             M == SetCell(K, h, w)
             H == K.hdr
  <2>1. r.st = q.st /\ r.img = M
    BY <1>3, <1>6 DEF Result
  <2>2. /\ ImageTyped(J) /\ J.len = I.len + n /\ J.len < U32 /\ J.len <= J.size
        /\ J.hdr = I.hdr /\ J.idx = I.idx /\ J.size \in Nat
    BY <1>2, <1>4, <1>6 DEF ImageInv, ImageTyped
  <2>3. /\ K.len = J.len /\ K.size = J.size /\ H = MovedUp(I.hdr, at, n)
        /\ K.idx = MovedUp(I.idx, at, n)
        /\ ImageTyped(K)
    <3>1. K = Opened(J, at, n)
      OBVIOUS
    <3> HIDE DEF K, J
    <3>2. ImageTyped(J) /\ at \in Nat /\ J.hdr = I.hdr /\ J.idx = I.idx
      BY <1>1, <2>2
    <3>3. /\ ImageTyped(K) /\ K.len = J.len /\ K.size = J.size
          /\ K.hdr = MovedUp(J.hdr, at, n) /\ K.idx = MovedUp(J.idx, at, n)
      BY <3>1, <3>2, OpenedTyped
    <3> QED
      BY <3>2, <3>3
  <2> HIDE DEF K
  <2>4. /\ h \in DOMAIN H /\ H[h] = I.hdr[h]
        /\ \A o \in DOMAIN H : o \in Nat
        /\ \A o \in DOMAIN H : o < at => o \in DOMAIN I.hdr /\ H[o] = I.hdr[o]
        /\ \A o \in DOMAIN H : o >= at =>
             o - n >= at /\ o - n \in DOMAIN I.hdr /\ H[o] = I.hdr[o - n]
    <3>1. I.hdr = [o \in DOMAIN I.hdr |-> I.hdr[o]] /\ DOMAIN I.hdr \subseteq Nat
      BY DEF ImageInv, ImageTyped
    <3>2. h < at
      BY <1>1 DEF Cell
    <3> HIDE DEF H
    <3>3. /\ DOMAIN H \subseteq Nat
          /\ \A o \in DOMAIN I.hdr : IF o < at THEN o \in DOMAIN H ELSE o + n \in DOMAIN H
          /\ \A o \in DOMAIN H : o < at => o \in DOMAIN I.hdr /\ H[o] = I.hdr[o]
          /\ \A o \in DOMAIN H : o >= at =>
               o - n >= at /\ o - n \in DOMAIN I.hdr /\ H[o] = I.hdr[o - n]
      BY <1>1, <2>3, <3>1, MovedUpCells
    <3> QED
      BY <3>2, <3>3
  <2>5. /\ w \in Cell /\ w.length = I.hdr[h].length + n /\ w.blen = I.hdr[h].blen + n
        /\ w.ioff = I.hdr[h].ioff + n /\ w.sbytes = I.hdr[h].sbytes
    <3>1. w = Wider(I.hdr[h], n)
      BY <2>4
    <3> HIDE DEF w
    <3> QED
      BY <1>1, <3>1, WiderCell
  <2> HIDE DEF w
  <2>6. /\ M.len = I.len + n /\ M.len <= M.size /\ DOMAIN M.hdr = DOMAIN H
        /\ M.hdr[h] = w
        /\ \A o \in DOMAIN H : o # h => M.hdr[o] = H[o]
        /\ ImageTyped(M) /\ M.idx = MovedUp(I.idx, at, n)
    <3>1. M = SetCell(K, h, w)
      OBVIOUS
    <3> HIDE DEF M
    <3> QED
      BY <2>2, <2>3, <2>4, <2>5, <3>1, SetCellTyped
  <2> HIDE DEF M, H, J
  <2>7. \A o \in DOMAIN I.hdr : o # h => \/ o < h /\ o + I.hdr[o].length <= h
                                         \/ o >= h + I.hdr[h].length /\ o >= at
    <3> SUFFICES ASSUME NEW o \in DOMAIN I.hdr, o # h
                 PROVE  \/ o < h /\ o + I.hdr[o].length <= h
                        \/ o >= h + I.hdr[h].length /\ o >= at
      OBVIOUS
    <3>1. o \in Nat /\ (o < h => o + I.hdr[o].length <= h)
                    /\ (h < o => h + I.hdr[h].length <= o)
      BY CellFacts DEF ImageInv, Disjoint
    <3> QED
      BY <1>1, <3>1, CellFacts
  <2>8. CellsFit(M)
    <3> SUFFICES ASSUME NEW o \in DOMAIN H PROVE CellFits(M, o)
      BY <2>6 DEF CellsFit
    <3>1. CASE o = h
      BY <1>1, <2>5, <2>6, <3>1, CellFacts, LayoutConstants DEF CellFits
    <3>2. CASE o # h /\ o < at
      <4>1. o \in DOMAIN I.hdr /\ M.hdr[o] = I.hdr[o]
        BY <2>4, <2>6, <3>2
      <4> QED
        BY <2>6, <4>1, CellFacts, LayoutConstants DEF CellFits
    <3>3. CASE o >= at
      <4>1. o # h /\ o \in Nat
        BY <1>1, <2>4, <3>3, CellFacts
      <4>2. o - n \in DOMAIN I.hdr /\ M.hdr[o] = I.hdr[o - n]
        BY <2>4, <2>6, <3>3, <4>1
      <4> QED
        BY <2>6, <4>1, <4>2, CellFacts, LayoutConstants DEF CellFits
    <3> QED
      BY <1>1, <2>4, <3>1, <3>2, <3>3
  <2>9. Disjoint(M)
    <3> SUFFICES ASSUME NEW o \in DOMAIN H, NEW k \in DOMAIN H, o < k
                 PROVE  o + M.hdr[o].length <= k
      BY <2>6 DEF Disjoint
    <3>0. o \in Nat /\ k \in Nat
      BY <2>4
    <3>1. CASE k < at
      <4>1. k \in DOMAIN I.hdr /\ o \in DOMAIN I.hdr /\ o < at
        BY <1>1, <2>4, <3>0, <3>1
      <4>2. o # h
        BY <1>1, <2>7, <3>0, <3>1, <4>1, CellFacts
      <4>3. M.hdr[o] = I.hdr[o]
        BY <2>4, <2>6, <4>1, <4>2
      <4> QED
        BY <4>1, <4>3 DEF ImageInv, Disjoint
    <3>2. CASE o < at /\ k >= at
      <4>1. o \in DOMAIN I.hdr /\ k - n \in DOMAIN I.hdr /\ k - n >= at
        BY <2>4, <3>2
      <4>2. o + I.hdr[o].length <= k - n
        BY <1>1, <3>0, <3>2, <4>1 DEF ImageInv, Disjoint
      <4>3. M.hdr[o].length <= I.hdr[o].length + n
        BY <2>4, <2>5, <2>6, <3>2, <4>1, CellFacts
      <4>4. M.hdr[o].length \in Nat /\ I.hdr[o].length \in Nat
        BY <2>6, <4>1, CellFacts DEF ImageTyped, Cell
      <4> QED
        BY <3>0, <4>2, <4>3, <4>4
    <3>3. CASE o >= at
      <4>1. /\ o - n \in DOMAIN I.hdr /\ k - n \in DOMAIN I.hdr /\ o # h
            /\ M.hdr[o] = I.hdr[o - n]
        BY <1>1, <2>4, <2>6, <3>0, <3>3, CellFacts
      <4>2. o - n + I.hdr[o - n].length <= k - n
        BY <3>0, <4>1 DEF ImageInv, Disjoint
      <4> QED
        BY <3>0, <4>1, <4>2, CellFacts
    <3> QED
      BY <1>1, <3>0, <3>1, <3>2, <3>3
  <2>10. SlotsFilled(M)
    <3>1. \A x \in DOMAIN I.idx : IF x < at THEN x \in DOMAIN M.idx ELSE x + n \in DOMAIN M.idx
      <4>1. I.idx = [x \in DOMAIN I.idx |-> I.idx[x]] /\ DOMAIN I.idx \subseteq Nat
        BY DEF ImageInv, ImageTyped
      <4> QED
        BY <1>1, <2>6, <4>1, MovedUpCells
    <3> SUFFICES ASSUME NEW o \in DOMAIN H, NEW x \in Slots(M, o) PROVE x \in DOMAIN M.idx
      BY <2>6 DEF SlotsFilled
    <3>2. o \in Nat
      BY <2>4
    <3>3. CASE o = h
      <4>1. x - n \in Slots(I, h)
        BY <1>1, <2>5, <2>6, <3>3, CellFacts, LayoutConstants
           DEF Slots, bucket_indexes, bucket_nr_indexes
      <4>2. x - n \in DOMAIN I.idx /\ x - n \in Nat /\ x - n >= at
        BY <4>1, SlotFacts DEF at
      <4>3. x - n + n = x /\ ~ x - n < at
        BY <1>1, <4>1, <4>2, <3>3, <2>5, <2>6, LayoutConstants
           DEF Slots, bucket_indexes, bucket_nr_indexes, Cell
      <4> QED
        BY <3>1, <4>2, <4>3
    <3>4. CASE o # h /\ o < at
      <4>1. o \in DOMAIN I.hdr /\ M.hdr[o] = I.hdr[o]
        BY <2>4, <2>6, <3>4
      <4>2. x \in Slots(I, o)
        BY <4>1, SameSlots
      <4>3. o < h /\ o + I.hdr[o].length <= h
        BY <1>1, <2>7, <3>2, <3>4, <4>1
      <4> QED
        BY <1>1, <3>1, <4>1, <4>2, <4>3, SlotFacts, CellFacts
    <3>5. CASE o >= at
      <4>1. o # h
        BY <1>1, <2>4, <3>5, CellFacts
      <4>2. o - n \in DOMAIN I.hdr /\ M.hdr[o] = I.hdr[o - n] /\ o - n >= at
        BY <2>4, <2>6, <3>5, <4>1
      <4>3. x - n \in Slots(I, o - n) /\ x - n + n = x
        BY <3>2, <4>2, CellFacts, LayoutConstants
           DEF Slots, bucket_indexes, bucket_nr_indexes
      <4>4. x - n \in DOMAIN I.idx /\ x - n \in Nat /\ x - n >= at
        BY <1>1, <4>2, <4>3, SlotFacts, CellFacts, LayoutConstants DEF bucket_indexes
      <4>5. ~ x - n < at
        BY <1>1, <4>4
      <4> QED
        BY <3>1, <4>3, <4>4, <4>5
    <3> QED
      BY <1>1, <3>2, <3>3, <3>4, <3>5
  <2>11. ImageInv(M)
    <3>1. HeaderSize <= M.len
      BY <1>1, <2>6, LayoutConstants DEF ImageInv
    <3> QED
      BY <2>2, <2>6, <2>8, <2>9, <2>10, <3>1 DEF ImageInv
  <2> QED
    BY <1>4, <2>1, <2>4, <2>5, <2>6, <2>11
<1> QED
  BY <1>5, <1>6

(* Sorting permutes words within the index array. *)
LEMMA SortSafe ==
  ASSUME NEW I, ImageTyped(I), NEW h, Slots(I, h) \subseteq DOMAIN I.idx,
         NEW J \in bucket_sort(I, h)
  PROVE  /\ ImageTyped(J)
         /\ J.len = I.len /\ J.size = I.size /\ J.hdr = I.hdr
         /\ DOMAIN J.idx = DOMAIN I.idx
<1> DEFINE slots == Slots(I, h)
           words == {I.idx[o] : o \in slots}
<1>1. PICK f \in [slots -> words] :
        J = [I EXCEPT !.idx = [o \in DOMAIN I.idx |-> IF o \in slots THEN f[o] ELSE I.idx[o]]]
  BY DEF bucket_sort
<1>2. PICK X : X = [o \in DOMAIN I.idx |-> IF o \in slots THEN f[o] ELSE I.idx[o]]
  OBVIOUS
<1>3. I.idx \in [DOMAIN I.idx -> Nat] /\ DOMAIN I.idx \subseteq Nat
  BY DEF ImageTyped
<1>4. words \subseteq Nat
  BY <1>3
<1>5. X \in [DOMAIN X -> Nat] /\ DOMAIN X = DOMAIN I.idx
  BY <1>2, <1>3, <1>4
<1>6. J = [I EXCEPT !.idx = X]
  BY <1>1, <1>2
<1>7. J.len = I.len /\ J.size = I.size /\ J.hdr = I.hdr /\ J.idx = X
  BY <1>6 DEF ImageTyped
<1>8. ImageTyped(J)
  BY <1>3, <1>5, <1>6 DEF ImageTyped
<1> QED
  BY <1>5, <1>7, <1>8

(* A string and its index stored in the room between the two arrays. *)
LEMMA PlacedSafe ==
  ASSUME NEW I, ImageInv(I), NEW h \in DOMAIN I.hdr, NEW p \in Paths,
         16 + I.hdr[h].sbytes + PathLen[p] < I.hdr[h].ioff - 4,
         NEW J \in Placed(I, h, p)
  PROVE  ImageInv(J) /\ h \in DOMAIN J.hdr
<1> DEFINE c == I.hdr[h]
           at == Strings(h) + c.sbytes
           slot == bucket_indexes(I, h) - IndexSize
           d == [c EXCEPT !.ioff = @ - IndexSize, !.sbytes = @ + PathLen[p]]
           S == Put(I.str, at, p)
           X == Put(I.idx, slot, c.sbytes)
           K == [I EXCEPT !.str = S, !.idx = X]
           M == SetCell(K, h, d)
<1>1. /\ c \in Cell /\ h \in Nat /\ PathLen[p] \in Nat /\ PathLen[p] > 0
      /\ c.ioff \in Nat /\ c.sbytes \in Nat
  BY CellFacts, PathsAssumption
<1>2. at \in Nat /\ slot \in Nat /\ slot = h + 128 + c.ioff - 4
  BY <1>1, LayoutConstants DEF Strings, bucket_indexes
<1>3. /\ d \in Cell /\ d.ioff = c.ioff - 4 /\ d.sbytes = c.sbytes + PathLen[p]
      /\ d.length = c.length /\ d.blen = c.blen
  <2>1. c.ioff - 4 \in Nat /\ c.sbytes + PathLen[p] \in Nat
    BY <1>1
  <2> QED
    BY <1>1, <2>1, LayoutConstants DEF Cell
<1>4. /\ K.hdr = I.hdr /\ K.len = I.len /\ K.size = I.size /\ K.idx = X
      /\ ImageTyped(K)
  <2>0. /\ I.str \in [DOMAIN I.str -> Paths] /\ DOMAIN I.str \subseteq Nat
        /\ I.idx \in [DOMAIN I.idx -> Nat] /\ DOMAIN I.idx \subseteq Nat
    BY DEF ImageInv, ImageTyped
  <2> HIDE DEF at, slot
  <2>1. S \in [DOMAIN S -> Paths] /\ DOMAIN S \subseteq Nat
    BY <1>2, <2>0 DEF Put
  <2>2. X \in [DOMAIN X -> Nat] /\ DOMAIN X \subseteq Nat
    BY <1>1, <1>2, <2>0 DEF Put
  <2> HIDE DEF S, X
  <2> QED
    BY <2>1, <2>2 DEF ImageInv, ImageTyped
<1>5. DOMAIN X = DOMAIN I.idx \cup {slot}
  BY DEF Put
<1>6. J \in bucket_sort(M, h)
  BY DEF Placed
<1> HIDE DEF c, d, K, S, X, slot, at
<1>7. /\ ImageTyped(M) /\ M.len = I.len /\ M.size = I.size /\ M.idx = X
      /\ DOMAIN M.hdr = DOMAIN I.hdr /\ M.hdr[h] = d
      /\ \A o \in DOMAIN I.hdr : o # h => M.hdr[o] = I.hdr[o]
  BY <1>3, <1>4, SetCellTyped
<1> HIDE DEF M
<1>8. \A o \in DOMAIN I.hdr : Slots(M, o) \subseteq DOMAIN M.idx
  <2> SUFFICES ASSUME NEW o \in DOMAIN I.hdr, NEW x \in Slots(M, o) PROVE x \in DOMAIN M.idx
    OBVIOUS
  <2>1. CASE o # h
    BY <1>5, <1>7, <2>1, SameSlots DEF ImageInv, SlotsFilled
  <2>2. CASE o = h
    <3>1. x = slot \/ x \in Slots(I, h)
      <4>1. PICK i \in 0 .. bucket_nr_indexes(M, h) - 1 : x = bucket_indexes(M, h) + IndexSize * i
        BY <2>2 DEF Slots
      <4>2. bucket_indexes(M, h) = slot /\ bucket_indexes(I, h) = slot + 4
        BY <1>1, <1>2, <1>3, <1>7, LayoutConstants DEF bucket_indexes, c
      <4>3. bucket_nr_indexes(M, h) = bucket_nr_indexes(I, h) + 1
        BY <1>1, <1>3, <1>7, CellFacts, LayoutConstants DEF bucket_nr_indexes, c
      <4>4. bucket_nr_indexes(I, h) \in Int
        BY CellFacts, LayoutConstants DEF bucket_nr_indexes
      <4>5. CASE i = 0
        BY <1>2, <4>1, <4>2, <4>5, LayoutConstants
      <4>6. CASE i # 0
        <5>1. i - 1 \in 0 .. bucket_nr_indexes(I, h) - 1 /\ x = bucket_indexes(I, h) + IndexSize * (i - 1)
          BY <1>2, <4>1, <4>2, <4>3, <4>4, <4>6, LayoutConstants
        <5> QED
          BY <5>1 DEF Slots
      <4> QED
        BY <4>5, <4>6
    <3> QED
      BY <1>5, <1>7, <3>1 DEF ImageInv, SlotsFilled
  <2> QED
    BY <2>1, <2>2
<1>9. /\ ImageTyped(J) /\ J.len = I.len /\ J.size = I.size /\ J.hdr = M.hdr
      /\ DOMAIN J.idx = DOMAIN M.idx
  BY <1>6, <1>7, <1>8, SortSafe
<1>10. SlotsFilled(J)
  BY <1>7, <1>8, <1>9, SameSlots DEF SlotsFilled
<1>11. CellsFit(J)
  <2> SUFFICES ASSUME NEW o \in DOMAIN I.hdr PROVE CellFits(J, o)
    BY <1>7, <1>9 DEF CellsFit
  <2>1. CASE o = h
    BY <1>1, <1>3, <1>7, <1>9, <2>1, CellFacts, LayoutConstants DEF CellFits, c
  <2>2. CASE o # h
    BY <1>7, <1>9, <2>2, CellFacts, LayoutConstants DEF CellFits
  <2> QED
    BY <2>1, <2>2
<1>12. Disjoint(J)
  <2>1. \A o \in DOMAIN I.hdr : J.hdr[o].length = I.hdr[o].length
    BY <1>3, <1>7, <1>9 DEF c
  <2> QED
    BY <1>7, <1>9, <2>1 DEF ImageInv, Disjoint
<1> QED
  BY <1>7, <1>9, <1>10, <1>11, <1>12 DEF ImageInv

(* The restart loop ends with room for the string, an index and a byte,    *)
(* and not after more turns than the path is long.                         *)
LEMMA TurnsFacts ==
  ASSUME NEW c \in Cell, 16 + c.sbytes < c.ioff, NEW bytes \in Nat, NEW k, k = Turns(c, bytes)
  PROVE  /\ k \in Nat
         /\ 16 + c.sbytes + bytes < c.ioff + 128 * k - 4
         /\ 128 * k < bytes + 132
<1>1. c.sbytes \in Nat /\ c.ioff \in Nat
  BY DEF Cell
<1> DEFINE lack == BucketHdr + c.sbytes + bytes - (c.ioff - IndexSize)
<1>2. lack \in Int /\ lack = 20 + c.sbytes + bytes - c.ioff /\ lack < bytes + 4
  BY <1>1, LayoutConstants
<1>3. k = IF lack < 0 THEN 0 ELSE lack \div 128 + 1
  BY LayoutConstants DEF Turns
<1> HIDE DEF lack
<1> QED
  BY <1>1, <1>2, <1>3

LEMMA AfterTurnsSafe ==
  ASSUME NEW I, ImageInv(I), NEW h \in DOMAIN I.hdr, NEW j \in Nat, 128 * j < U32,
         NEW r \in AfterTurns(I, h, j)
  PROVE  /\ r.st \in {"ok", "moved"} /\ ImageInv(r.img) /\ h \in DOMAIN r.img.hdr
         /\ r.img.hdr[h].ioff = I.hdr[h].ioff + 128 * j
         /\ r.img.hdr[h].sbytes = I.hdr[h].sbytes
<1>1. CASE j = 0
  <2>1. r = Result("ok", I)
    BY <1>1 DEF AfterTurns
  <2> QED
    BY <1>1, <2>1, CellFacts DEF Result
<1>2. CASE j # 0
  <2>1. r \in bucket_expand(I, h, 128 * j) /\ r.st \in {"ok", "moved"}
    BY <1>2, LayoutConstants DEF AfterTurns
  <2>2. 128 * j \in Nat
    OBVIOUS
  <2> QED
    BY <2>1, <2>2, BucketExpandSafe
<1> QED
  BY <1>1, <1>2

LEMMA FailedTurnSafe ==
  ASSUME NEW I, ImageInv(I), NEW h \in DOMAIN I.hdr, NEW j \in Nat, 128 * j < U32,
         NEW r \in FailedTurn(I, h, j)
  PROVE  r.st \in InnerStates /\ ImageInv(r.img) /\ h \in DOMAIN r.img.hdr
<1>1. PICK q \in AfterTurns(I, h, j) : r \in bucket_expand(q.img, h, 128)
  BY LayoutConstants DEF FailedTurn
<1>2. ImageInv(q.img) /\ h \in DOMAIN q.img.hdr
  BY AfterTurnsSafe
<1>3. 128 < U32 /\ 128 \in Nat
  BY SizesAssumption
<1> QED
  BY <1>1, <1>2, <1>3, BucketExpandSafe

LEMMA BucketAddSafe ==
  ASSUME NEW I, ImageInv(I), NEW h \in DOMAIN I.hdr, NEW p \in Paths,
         NEW r \in bucket_add(I, h, p)
  PROVE  r.st \in InnerStates /\ ImageInv(r.img) /\ h \in DOMAIN r.img.hdr
<1> DEFINE k == Turns(I.hdr[h], PathLen[p])
<1>1. /\ I.hdr[h] \in Cell /\ 16 + I.hdr[h].sbytes < I.hdr[h].ioff
      /\ PathLen[p] \in Nat /\ PathLen[p] + 1024 < U32
  BY CellFacts, PathsAssumption, SizesAssumption
<1>2. /\ k \in Nat /\ 128 * k < PathLen[p] + 132
      /\ 16 + I.hdr[h].sbytes + PathLen[p] < I.hdr[h].ioff + 128 * k - 4
  BY <1>1, TurnsFacts
<1>3. CASE bucket_contains(I, h, p)
  <2>1. r = Result("refused", I)
    BY <1>3 DEF bucket_add
  <2> QED
    BY <2>1 DEF Result, InnerStates
<1>4. CASE ~ bucket_contains(I, h, p)
  <2>1. \/ \E q \in AfterTurns(I, h, k) : \E J \in Placed(q.img, h, p) : r = Result(q.st, J)
        \/ \E j \in 0 .. k - 1 : r \in FailedTurn(I, h, j)
    <3>1. r \in AddedAfter(I, h, p, k) \/ r \in StuckBefore(I, h, k)
      BY <1>4 DEF bucket_add
    <3> QED
      BY <3>1 DEF AddedAfter, StuckBefore
  <2> HIDE DEF k
  <2>2. ASSUME NEW q \in AfterTurns(I, h, k), NEW J \in Placed(q.img, h, p), r = Result(q.st, J)
        PROVE  r.st \in InnerStates /\ ImageInv(r.img) /\ h \in DOMAIN r.img.hdr
    <3>1. 128 * k < U32
      BY <1>1, <1>2, SizesAssumption
    <3>2. /\ q.st \in {"ok", "moved"} /\ ImageInv(q.img) /\ h \in DOMAIN q.img.hdr
          /\ q.img.hdr[h].ioff = I.hdr[h].ioff + 128 * k
          /\ q.img.hdr[h].sbytes = I.hdr[h].sbytes
      BY <1>2, <3>1, AfterTurnsSafe
    <3>3. 16 + q.img.hdr[h].sbytes + PathLen[p] < q.img.hdr[h].ioff - 4
      BY <1>1, <1>2, <3>2, CellFacts
    <3>4. ImageInv(J) /\ h \in DOMAIN J.hdr
      BY <3>2, <3>3, PlacedSafe
    <3> QED
      BY <2>2, <3>2, <3>4 DEF Result, InnerStates
  <2>3. ASSUME NEW j \in 0 .. k - 1, r \in FailedTurn(I, h, j)
        PROVE  r.st \in InnerStates /\ ImageInv(r.img) /\ h \in DOMAIN r.img.hdr
    <3>1. j \in Nat /\ 128 * j < U32
      BY <1>1, <1>2, SizesAssumption
    <3> QED
      BY <2>3, <3>1, FailedTurnSafe
  <2> QED
    BY <2>1, <2>2, <2>3
<1> QED
  BY <1>3, <1>4

(* memmove downwards, seen from where a cell is afterwards. *)
LEMMA MovedDownCells ==
  ASSUME NEW f, f = [o \in DOMAIN f |-> f[o]], DOMAIN f \subseteq Nat,
         NEW start \in Nat, NEW end \in Nat, start <= end,
         NEW len \in Nat, end <= len, NEW m, m = MovedDown(f, start, end, len)
  PROVE  LET n == end - start IN
         /\ m = [o \in DOMAIN m |-> m[o]] /\ DOMAIN m \subseteq Nat
         /\ \A x \in DOMAIN f : x < start \/ x >= len - n => x \in DOMAIN m
         /\ \A x \in DOMAIN f : end <= x /\ x < len => x - n \in DOMAIN m
         /\ \A o \in DOMAIN m : o < start \/ o >= len - n => o \in DOMAIN f /\ m[o] = f[o]
         /\ \A o \in DOMAIN m : ~ (o < start \/ o >= len - n) =>
              o + n >= end /\ o + n < len /\ o + n \in DOMAIN f /\ m[o] = f[o + n]
<1> DEFINE n == end - start
<1>1. DOMAIN m = {x \in DOMAIN f : x < start \/ x >= len - n}
                   \cup {x - n : x \in {y \in DOMAIN f : end <= y /\ y < len}}
  BY DEF MovedDown
<1>2. \A o \in DOMAIN m : m[o] = IF o < start \/ o >= len - n THEN f[o] ELSE f[o + n]
  BY DEF MovedDown
<1>3. m = [o \in DOMAIN m |-> m[o]]
  BY DEF MovedDown
<1>4. n \in Nat /\ end = start + n
  OBVIOUS
<1> HIDE DEF n
<1>5. \A x \in DOMAIN f : x < start \/ x >= len - n => x \in DOMAIN m
  BY <1>1
<1>6. \A x \in DOMAIN f : end <= x /\ x < len => x - n \in DOMAIN m
  BY <1>1
<1>7. ASSUME NEW o \in DOMAIN m
      PROVE  /\ o \in Nat
             /\ o < start \/ o >= len - n => o \in DOMAIN f /\ m[o] = f[o]
             /\ ~ (o < start \/ o >= len - n) =>
                  o + n >= end /\ o + n < len /\ o + n \in DOMAIN f /\ m[o] = f[o + n]
  <2>1. CASE o \in DOMAIN f /\ (o < start \/ o >= len - n)
    BY <1>2, <2>1
  <2>2. ASSUME NEW x \in DOMAIN f, end <= x, x < len, o = x - n
        PROVE  o \in Nat /\ o >= start /\ o < len - n /\ o + n = x
    BY <1>4, <2>2
  <2>3. CASE \E x \in DOMAIN f : end <= x /\ x < len /\ o = x - n
    BY <1>2, <1>4, <2>2, <2>3
  <2> QED
    BY <1>1, <2>1, <2>3
<1> QED
  BY <1>3, <1>5, <1>6, <1>7 DEF n

LEMMA MovedDownTyped ==
  ASSUME NEW S, NEW f, f \in [DOMAIN f -> S], DOMAIN f \subseteq Nat,
         NEW start \in Nat, NEW end \in Nat, start <= end,
         NEW len \in Nat, end <= len, NEW m, m = MovedDown(f, start, end, len)
  PROVE  m \in [DOMAIN m -> S] /\ DOMAIN m \subseteq Nat
<1> DEFINE n == end - start
<1>1. /\ m = [o \in DOMAIN m |-> m[o]] /\ DOMAIN m \subseteq Nat
      /\ \A o \in DOMAIN m : o < start \/ o >= len - n => o \in DOMAIN f /\ m[o] = f[o]
      /\ \A o \in DOMAIN m : ~ (o < start \/ o >= len - n) =>
           o + n \in DOMAIN f /\ m[o] = f[o + n]
  BY MovedDownCells
<1>2. \A o \in DOMAIN m : m[o] \in S
  BY <1>1
<1> QED
  BY <1>1, <1>2

LEMMA ClosedTyped ==
  ASSUME NEW I, ImageTyped(I), NEW start \in Nat, NEW end \in Nat, start <= end, end <= I.len
  PROVE  /\ ImageTyped(Closed(I, start, end))
         /\ Closed(I, start, end).len = I.len /\ Closed(I, start, end).size = I.size
         /\ Closed(I, start, end).hdr = MovedDown(I.hdr, start, end, I.len)
         /\ Closed(I, start, end).idx = MovedDown(I.idx, start, end, I.len)
<1> DEFINE K == Closed(I, start, end)
<1>1. PICK H, S, X : H = MovedDown(I.hdr, start, end, I.len)
                     /\ S = MovedDown(I.str, start, end, I.len)
                     /\ X = MovedDown(I.idx, start, end, I.len)
  OBVIOUS
<1>2. /\ I.hdr \in [DOMAIN I.hdr -> Cell] /\ I.str \in [DOMAIN I.str -> Paths]
      /\ I.idx \in [DOMAIN I.idx -> Nat] /\ I.len \in Nat
      /\ DOMAIN I.hdr \subseteq Nat /\ DOMAIN I.str \subseteq Nat /\ DOMAIN I.idx \subseteq Nat
  BY DEF ImageTyped
<1>3. H \in [DOMAIN H -> Cell] /\ DOMAIN H \subseteq Nat
  BY <1>1, <1>2, MovedDownTyped
<1>4. S \in [DOMAIN S -> Paths] /\ DOMAIN S \subseteq Nat
  BY <1>1, <1>2, MovedDownTyped
<1>5. X \in [DOMAIN X -> Nat] /\ DOMAIN X \subseteq Nat
  BY <1>1, <1>2, MovedDownTyped
<1>6. K = [I EXCEPT !.hdr = H, !.str = S, !.idx = X]
  BY <1>1 DEF Closed
<1> HIDE DEF K
<1>7. K.len = I.len /\ K.size = I.size /\ K.hdr = H /\ K.idx = X
  BY <1>6 DEF ImageTyped
<1>8. ImageTyped(K)
  BY <1>3, <1>4, <1>5, <1>6 DEF ImageTyped
<1> QED
  BY <1>1, <1>7, <1>8 DEF K

(* A library may be cut where no playlist lies across the cut. *)
LEMMA CutSafe ==
  ASSUME NEW I, ImageInv(I), NEW len \in Nat, 1024 <= len, len <= I.len,
         \A o \in DOMAIN I.hdr : o < len => o + I.hdr[o].length <= len
  PROVE  ImageInv(Cut(I, len))
<1> DEFINE K == Cut(I, len)
<1>1. PICK H, S, X : H = CutAt(I.hdr, len) /\ S = CutAt(I.str, len) /\ X = CutAt(I.idx, len)
  OBVIOUS
<1>2. /\ I.hdr \in [DOMAIN I.hdr -> Cell] /\ I.str \in [DOMAIN I.str -> Paths]
      /\ I.idx \in [DOMAIN I.idx -> Nat] /\ I.len \in Nat /\ I.len < U32
      /\ DOMAIN I.hdr \subseteq Nat /\ DOMAIN I.str \subseteq Nat /\ DOMAIN I.idx \subseteq Nat
  BY DEF ImageInv, ImageTyped
<1>3. H \in [DOMAIN H -> Cell] /\ DOMAIN H \subseteq Nat
  BY <1>1, <1>2 DEF CutAt
<1>4. S \in [DOMAIN S -> Paths] /\ DOMAIN S \subseteq Nat
  BY <1>1, <1>2 DEF CutAt
<1>5. X \in [DOMAIN X -> Nat] /\ DOMAIN X \subseteq Nat
  BY <1>1, <1>2 DEF CutAt
<1>6. \A o \in DOMAIN H : o \in DOMAIN I.hdr /\ o < len /\ H[o] = I.hdr[o]
  BY <1>1 DEF CutAt
<1>7. \A x \in DOMAIN I.idx : x < len => x \in DOMAIN X
  BY <1>1 DEF CutAt
<1>8. K = [I EXCEPT !.len = len, !.size = len, !.hdr = H, !.str = S, !.idx = X]
  BY <1>1 DEF Cut
<1> HIDE DEF K
<1>9. K.len = len /\ K.size = len /\ K.hdr = H /\ K.idx = X
  BY <1>8 DEF ImageInv, ImageTyped
<1>10. ImageTyped(K)
  BY <1>3, <1>4, <1>5, <1>8 DEF ImageInv, ImageTyped
<1>11. CellsFit(K)
  <2> SUFFICES ASSUME NEW o \in DOMAIN H PROVE CellFits(K, o)
    BY <1>9 DEF CellsFit
  <2> QED
    BY <1>6, <1>9, CellFacts, LayoutConstants DEF CellFits
<1>12. Disjoint(K)
  BY <1>6, <1>9 DEF ImageInv, Disjoint
<1>13. SlotsFilled(K)
  <2> SUFFICES ASSUME NEW o \in DOMAIN H, NEW x \in Slots(K, o) PROVE x \in DOMAIN X
    BY <1>9 DEF SlotsFilled
  <2>1. o \in DOMAIN I.hdr /\ o < len /\ K.hdr[o] = I.hdr[o]
    BY <1>6, <1>9
  <2>2. x \in Slots(I, o)
    BY <2>1, SameSlots
  <2>3. x \in Nat /\ x < o + I.hdr[o].length /\ x \in DOMAIN I.idx
    BY <2>1, <2>2, SlotFacts
  <2>4. x < len
    BY <2>1, <2>3, CellFacts
  <2> QED
    BY <1>7, <2>3, <2>4
<1>14. HeaderSize <= K.len /\ K.len < U32 /\ K.len <= K.size
  BY <1>2, <1>9, SizesAssumption, LayoutConstants
<1> QED
  BY <1>10, <1>11, <1>12, <1>13, <1>14 DEF ImageInv, K

(* What is left when playlist h is closed over: the playlists before it,   *)
(* those behind it moved down, and stale copies of the last ones, which    *)
(* begin where the library is cut.                                         *)
LEMMA ClosedSafe ==
  ASSUME NEW I, ImageInv(I), NEW h \in DOMAIN I.hdr,
         NEW n, n = I.hdr[h].length, NEW J, J = Closed(I, h, h + n)
  PROVE  /\ ImageInv(J) /\ J.len = I.len
         /\ \A o \in DOMAIN J.hdr : o < I.len - n => o + J.hdr[o].length <= I.len - n
<1>1. /\ h \in Nat /\ n \in Nat /\ I.len \in Nat /\ h + n <= I.len /\ h + n \in Nat
      /\ n = h + n - h /\ h <= h + n /\ h >= 1024
  BY CellFacts
<1> DEFINE H == MovedDown(I.hdr, h, h + n, I.len)
           X == MovedDown(I.idx, h, h + n, I.len)
<1>2. /\ ImageTyped(J) /\ J.len = I.len /\ J.size = I.size /\ J.hdr = H /\ J.idx = X
  BY <1>1, ClosedTyped DEF ImageInv
<1>3. /\ DOMAIN H \subseteq Nat
      /\ \A o \in DOMAIN H : o < h \/ o >= I.len - n => o \in DOMAIN I.hdr /\ H[o] = I.hdr[o]
      /\ \A o \in DOMAIN H : ~ (o < h \/ o >= I.len - n) =>
           o + n >= h + n /\ o + n < I.len /\ o + n \in DOMAIN I.hdr /\ H[o] = I.hdr[o + n]
  <2>1. I.hdr = [x \in DOMAIN I.hdr |-> I.hdr[x]] /\ DOMAIN I.hdr \subseteq Nat
    BY DEF ImageInv, ImageTyped
  <2> HIDE DEF H
  <2> QED
    BY <1>1, <2>1, MovedDownCells DEF H
<1>4. /\ \A x \in DOMAIN I.idx : x < h \/ x >= I.len - n => x \in DOMAIN X
      /\ \A x \in DOMAIN I.idx : h + n <= x /\ x < I.len => x - n \in DOMAIN X
  <2>1. I.idx = [x \in DOMAIN I.idx |-> I.idx[x]] /\ DOMAIN I.idx \subseteq Nat
    BY DEF ImageInv, ImageTyped
  <2> HIDE DEF X
  <2> QED
    BY <1>1, <2>1, MovedDownCells DEF X
<1> HIDE DEF H, X

(* Each playlist left is one that was there, in place or moved. *)
<1>5. ASSUME NEW o \in DOMAIN H
      PROVE  \/ /\ o \in DOMAIN I.hdr /\ H[o] = I.hdr[o]
                /\ o + I.hdr[o].length <= h \/ o >= I.len - n
             \/ /\ o >= h /\ o < I.len - n
                /\ o + n \in DOMAIN I.hdr /\ H[o] = I.hdr[o + n]
                /\ o + n + I.hdr[o + n].length <= I.len
  <2>1. CASE o < h
    BY <1>1, <1>3, <2>1 DEF ImageInv, Disjoint
  <2>2. CASE o >= I.len - n
    BY <1>3, <2>2
  <2>3. CASE ~ (o < h \/ o >= I.len - n)
    BY <1>1, <1>3, <2>3, CellFacts
  <2> QED
    BY <2>1, <2>2, <2>3
<1>6. \A o \in DOMAIN H : o \in Nat /\ H[o].length \in Nat
  BY <1>3, <1>5, CellFacts
<1>7. CellsFit(J)
  <2> SUFFICES ASSUME NEW o \in DOMAIN H PROVE CellFits(J, o)
    BY <1>2 DEF CellsFit
  <2>1. CASE o \in DOMAIN I.hdr /\ H[o] = I.hdr[o]
    BY <1>2, <2>1, CellFacts, LayoutConstants DEF CellFits
  <2>2. CASE o >= h /\ o + n \in DOMAIN I.hdr /\ H[o] = I.hdr[o + n]
    BY <1>1, <1>2, <1>6, <2>2, CellFacts, LayoutConstants DEF CellFits
  <2> QED
    BY <1>5, <2>1, <2>2
<1>8. \A o \in DOMAIN H : o < I.len - n => o + H[o].length <= I.len - n
  <2> SUFFICES ASSUME NEW o \in DOMAIN H, o < I.len - n PROVE o + H[o].length <= I.len - n
    OBVIOUS
  <2> QED
    BY <1>1, <1>5, <1>6
<1>9. Disjoint(J)
  <2> SUFFICES ASSUME NEW o \in DOMAIN H, NEW k \in DOMAIN H, o < k
               PROVE  o + H[o].length <= k
    BY <1>2 DEF Disjoint
  <2>1. CASE o < I.len - n /\ k >= I.len - n
    BY <1>1, <1>6, <1>8, <2>1
  <2>2. CASE o >= I.len - n
    BY <1>1, <1>3, <1>6, <2>2 DEF ImageInv, Disjoint
  <2>3. CASE k < I.len - n
    <3>1. CASE o < h /\ k < h
      BY <1>1, <1>3, <3>1 DEF ImageInv, Disjoint
    <3>2. CASE o < h /\ k >= h
      BY <1>1, <1>5, <1>6, <3>2, <2>3
    <3>3. CASE o >= h
      <4>1. /\ o + n \in DOMAIN I.hdr /\ k + n \in DOMAIN I.hdr /\ H[o] = I.hdr[o + n]
            /\ o + n < k + n
        BY <1>1, <1>3, <1>6, <2>3, <3>3
      <4>2. o + n + I.hdr[o + n].length <= k + n
        BY <4>1 DEF ImageInv, Disjoint
      <4> QED
        BY <1>1, <1>6, <4>1, <4>2
    <3> QED
      BY <1>1, <1>6, <3>1, <3>2, <3>3
  <2> QED
    BY <1>1, <1>6, <2>1, <2>2, <2>3
<1>10. SlotsFilled(J)
  <2> SUFFICES ASSUME NEW o \in DOMAIN H, NEW x \in Slots(J, o) PROVE x \in DOMAIN X
    BY <1>2 DEF SlotsFilled
  <2>1. CASE /\ o \in DOMAIN I.hdr /\ H[o] = I.hdr[o]
             /\ o + I.hdr[o].length <= h \/ o >= I.len - n
    <3>1. x \in Slots(I, o)
      BY <1>2, <2>1, SameSlots
    <3>2. /\ x \in DOMAIN I.idx /\ x \in Nat /\ x < o + I.hdr[o].length /\ x >= o
      BY <2>1, <3>1, SlotFacts, CellFacts, LayoutConstants DEF bucket_indexes
    <3>3. x < h \/ x >= I.len - n
      BY <1>1, <1>6, <2>1, <3>2
    <3> QED
      BY <1>4, <3>2, <3>3
  <2>2. CASE /\ o >= h /\ o < I.len - n
             /\ o + n \in DOMAIN I.hdr /\ H[o] = I.hdr[o + n]
             /\ o + n + I.hdr[o + n].length <= I.len
    <3>1. x + n \in Slots(I, o + n)
      <4>1. PICK i \in 0 .. bucket_nr_indexes(J, o) - 1 : x = bucket_indexes(J, o) + IndexSize * i
        BY DEF Slots
      <4>2. /\ bucket_nr_indexes(I, o + n) = bucket_nr_indexes(J, o)
            /\ bucket_indexes(I, o + n) = bucket_indexes(J, o) + n
            /\ bucket_indexes(J, o) \in Int /\ bucket_nr_indexes(J, o) \in Int
        BY <1>1, <1>2, <1>6, <2>2, CellFacts, LayoutConstants
           DEF bucket_indexes, bucket_nr_indexes
      <4>3. x + n = bucket_indexes(I, o + n) + IndexSize * i
        BY <1>1, <4>1, <4>2, LayoutConstants
      <4> QED
        BY <4>1, <4>2, <4>3 DEF Slots
    <3>2. /\ x + n \in DOMAIN I.idx /\ x + n \in Nat
          /\ x + n < o + n + I.hdr[o + n].length /\ x + n >= o + n
      BY <2>2, <3>1, SlotFacts, CellFacts, LayoutConstants DEF bucket_indexes
    <3>3. x \in Int
      BY <1>1, <1>2, <1>6, <2>2, CellFacts, LayoutConstants
         DEF Slots, bucket_indexes, bucket_nr_indexes
    <3>4. h + n <= x + n /\ x + n < I.len
      BY <1>1, <1>6, <2>2, <3>2, <3>3
    <3>5. PICK y : y = x + n
      OBVIOUS
    <3>6. y - n \in DOMAIN X
      BY <1>4, <3>2, <3>4, <3>5
    <3> QED
      BY <1>1, <3>3, <3>5, <3>6
  <2> QED
    BY <1>5, <2>1, <2>2
<1>11. HeaderSize <= J.len /\ J.len < U32 /\ J.len <= J.size
  BY <1>2 DEF ImageInv
<1> QED
  BY <1>2, <1>7, <1>8, <1>9, <1>10, <1>11 DEF ImageInv

LEMMA ExciseSafe ==
  ASSUME NEW I, ImageInv(I), NEW h \in DOMAIN I.hdr,
         NEW r \in library_excise(I, h, h + I.hdr[h].length)
  PROVE  r.st \in {"ok", "fail"} /\ ImageInv(r.img)
<1> DEFINE n == I.hdr[h].length
           J == Closed(I, h, h + n)
<1>1. /\ h \in Nat /\ n \in Nat /\ I.len \in Nat /\ h + n <= I.len /\ h >= 1024
      /\ h + n - h = n
  BY CellFacts
<1>2. /\ ImageInv(J) /\ J.len = I.len
      /\ \A o \in DOMAIN J.hdr : o < I.len - n => o + J.hdr[o].length <= I.len - n
  BY ClosedSafe
<1>3. r \in library_trunc(J, I.len - n)
  BY <1>1 DEF library_excise
<1> HIDE DEF J, n
<1>4. r \in {Result("fail", J), Result("ok", Cut(J, I.len - n))}
  BY <1>3 DEF library_trunc, Fault
<1>5. I.len - n \in Nat /\ 1024 <= I.len - n /\ I.len - n <= J.len
  BY <1>1, <1>2
<1>6. ImageInv(Cut(J, I.len - n))
  BY <1>2, <1>5, CutSafe
<1> QED
  BY <1>2, <1>4, <1>6 DEF Result

LEMMA FindPlaylistFacts ==
  ASSUME NEW I, NEW n PROVE find_playlist(I, n) \subseteq DOMAIN I.hdr
BY DEF find_playlist, Visited

LEMMA DeletePlaylistSafe ==
  ASSUME NEW I, ImageInv(I), NEW n, NEW r \in delete_playlist(I, n)
  PROVE  r.st \in {"ok", "fail"} /\ ImageInv(r.img)
<1>1. CASE find_playlist(I, n) = {}
  BY <1>1 DEF delete_playlist, Result
<1>2. CASE find_playlist(I, n) # {}
  <2>1. PICK h \in find_playlist(I, n) : r \in library_excise(I, h, h + I.hdr[h].length)
    BY <1>2 DEF delete_playlist
  <2>2. h \in DOMAIN I.hdr
    BY FindPlaylistFacts
  <2> QED
    BY <2>1, <2>2, ExciseSafe
<1> QED
  BY <1>1, <1>2

(* A new playlist in the 272 bytes by which the library was just grown. *)
LEMMA WithPlaylistSafe ==
  ASSUME NEW J, ImageInv(J), NEW at \in Nat, 1024 <= at, at + 272 <= J.len,
         \A o \in DOMAIN J.hdr : o + J.hdr[o].length <= at, NEW n \in Names
  PROVE  ImageInv(WithPlaylist(J, at, n))
<1> DEFINE c == NewPlaylist(n)
           K == WithPlaylist(J, at, n)
<1>1. /\ c \in Cell /\ c.length = 272 /\ c.blen = 128 /\ c.ioff = 128 /\ c.sbytes = 0
  <2>1. Stored(n) \in Names
    BY NamesAssumption DEF Stored
  <2> QED
    BY <2>1, LayoutConstants DEF NewPlaylist, Cell
<1> HIDE DEF c
<1>2. PICK H : H = Put(J.hdr, at, c)
  OBVIOUS
<1>3. /\ J.hdr \in [DOMAIN J.hdr -> Cell] /\ DOMAIN J.hdr \subseteq Nat
      /\ J.len \in Nat
  BY DEF ImageInv, ImageTyped
<1>4. /\ H \in [DOMAIN H -> Cell] /\ DOMAIN H \subseteq Nat
      /\ \A o \in DOMAIN H : o # at => o \in DOMAIN J.hdr /\ H[o] = J.hdr[o]
      /\ at \in DOMAIN H /\ H[at] = c
  BY <1>1, <1>2, <1>3 DEF Put
<1>5. K = [J EXCEPT !.hdr = H]
  BY <1>2 DEF WithPlaylist, c
<1> HIDE DEF K
<1>6. K.len = J.len /\ K.size = J.size /\ K.hdr = H /\ K.idx = J.idx /\ ImageTyped(K)
  BY <1>4, <1>5 DEF ImageInv, ImageTyped
<1>7. CellsFit(K)
  <2> SUFFICES ASSUME NEW o \in DOMAIN H PROVE CellFits(K, o)
    BY <1>6 DEF CellsFit
  <2>1. CASE o = at
    BY <1>1, <1>3, <1>4, <1>6, <2>1, LayoutConstants DEF CellFits
  <2>2. CASE o # at
    BY <1>4, <1>6, <2>2, CellFacts, LayoutConstants DEF CellFits
  <2> QED
    BY <2>1, <2>2
<1>8. Disjoint(K)
  <2> SUFFICES ASSUME NEW o \in DOMAIN H, NEW k \in DOMAIN H, o < k
               PROVE  o + H[o].length <= k
    BY <1>6 DEF Disjoint
  <2>1. CASE o # at /\ k # at
    BY <1>4, <2>1 DEF ImageInv, Disjoint
  <2>2. CASE k = at
    BY <1>4, <2>2
  <2>3. CASE o = at /\ k # at
    BY <1>4, <2>3, CellFacts
  <2> QED
    BY <2>1, <2>2, <2>3
<1>9. SlotsFilled(K)
  <2> SUFFICES ASSUME NEW o \in DOMAIN H, NEW x \in Slots(K, o) PROVE x \in DOMAIN J.idx
    BY <1>6 DEF SlotsFilled
  <2>1. CASE o = at
    BY <1>1, <1>4, <1>6, <2>1, LayoutConstants DEF Slots, bucket_nr_indexes
  <2>2. CASE o # at
    BY <1>4, <1>6, <2>2, SameSlots DEF ImageInv, SlotsFilled
  <2> QED
    BY <2>1, <2>2
<1> QED
  BY <1>6, <1>7, <1>8, <1>9 DEF ImageInv, K

LEMMA SyncSafe ==
  ASSUME NEW I, ImageInv(I), NEW r \in sync_library(I)
  PROVE  r.st \in {"ok", "fail"} /\ ImageInv(r.img)
BY DEF sync_library, Fault, Result

LEMMA StartPlaylistSafe ==
  ASSUME NEW I, ImageInv(I), NEW n \in Names, NEW r \in start_playlist(I, n)
  PROVE  r.st \in OuterStates /\ ImageInv(r.img)
<1>1. CASE find_playlist(I, n) # {}
  BY <1>1 DEF start_playlist, Result, OuterStates
<1>2. CASE find_playlist(I, n) = {}
  <2> DEFINE newlen == Add32(I.len, PlistSize + Growth)
  <2>1. newlen \in Nat /\ newlen < U32 /\ (newlen > I.len => newlen = I.len + 272)
    BY SizesAssumption, LayoutConstants DEF Add32, ImageInv, ImageTyped
  <2>2. PICK q \in library_expand(I, newlen) :
          \/ q.st \in {"ok", "moved"} /\ r \in sync_library(WithPlaylist(q.img, I.len, n))
          \/ q.st = "moved" /\ r \in {Result("killed", q.img), Result("wild", q.img)}
          \/ q.st = "moved" /\ r \in sync_library(q.img)
          \/ q.st = "refused" /\ r = Result("fail", q.img)
          \/ q.st = "unmapped" /\ r = q
    <3> HIDE DEF newlen
    <3>1. \A q \in library_expand(I, newlen) : q.st \in InnerStates
      BY <2>1, ExpandSafe
    <3> QED
      BY <1>2, <3>1 DEF start_playlist, newlen, InnerStates
  <2>3. /\ q.img.hdr = I.hdr /\ ImageInv(q.img)
        /\ q.st \in {"ok", "moved"} => q.img.len = newlen /\ newlen > I.len
    BY <2>1, ExpandSafe
  <2> HIDE DEF newlen
  <2>4. CASE q.st \in {"ok", "moved"} /\ r \in sync_library(WithPlaylist(q.img, I.len, n))
    <3>1. I.len \in Nat /\ 1024 <= I.len /\ I.len + 272 <= q.img.len
      BY <2>1, <2>3, <2>4, LayoutConstants DEF ImageInv, ImageTyped
    <3>2. \A o \in DOMAIN q.img.hdr : o + q.img.hdr[o].length <= I.len
      BY <2>3, CellFacts
    <3>3. ImageInv(WithPlaylist(q.img, I.len, n))
      BY <2>3, <3>1, <3>2, WithPlaylistSafe
    <3> QED
      BY <2>4, <3>3, SyncSafe DEF OuterStates
  <2>5. CASE q.st = "moved" /\ r \in sync_library(q.img)
    BY <2>3, <2>5, SyncSafe DEF OuterStates
  <2> QED
    BY <2>2, <2>3, <2>4, <2>5 DEF Result, OuterStates
<1> QED
  BY <1>1, <1>2

LEMMA CountedSafe ==
  ASSUME NEW J, ImageInv(J), NEW h \in DOMAIN J.hdr
  PROVE  ImageInv(Counted(J, h))
<1> DEFINE c == J.hdr[h]
           d == [c EXCEPT !.mcount = @ + 1]
           K == SetCell(J, h, d)
<1>1. c \in Cell
  BY CellFacts
<1>2. /\ d \in Cell /\ d.length = c.length /\ d.blen = c.blen /\ d.ioff = c.ioff
      /\ d.sbytes = c.sbytes
  BY <1>1 DEF Cell
<1> HIDE DEF d
<1>3. /\ ImageTyped(K) /\ K.len = J.len /\ K.size = J.size /\ K.idx = J.idx
      /\ DOMAIN K.hdr = DOMAIN J.hdr /\ K.hdr[h] = d
      /\ \A o \in DOMAIN J.hdr : o # h => K.hdr[o] = J.hdr[o]
  BY <1>2, SetCellTyped DEF ImageInv
<1> HIDE DEF K
<1>4. \A o \in DOMAIN J.hdr :
        /\ K.hdr[o].length = J.hdr[o].length /\ K.hdr[o].blen = J.hdr[o].blen
        /\ K.hdr[o].ioff = J.hdr[o].ioff /\ K.hdr[o].sbytes = J.hdr[o].sbytes
  BY <1>2, <1>3
<1>5. \A o \in DOMAIN J.hdr : Slots(K, o) = Slots(J, o)
  BY <1>4 DEF Slots, bucket_indexes, bucket_nr_indexes
<1>6. ImageInv(K)
  BY <1>3, <1>4, <1>5 DEF ImageInv, CellsFit, CellFits, Disjoint, SlotsFilled
<1> QED
  BY <1>6 DEF K, d, Counted

LEMMA AddPathToPlistSafe ==
  ASSUME NEW I, ImageInv(I), NEW h \in DOMAIN I.hdr, NEW p \in Paths,
         NEW r \in add_path_to_plist(I, h, p)
  PROVE  r.st \in OuterStates /\ ImageInv(r.img)
<1>1. PICK q \in bucket_add(I, h, p) :
        \/ q.st = "ok" /\ r = Result("ok", Counted(q.img, h))
        \/ q.st = "moved" /\ r \in {Result("killed", q.img), Result("wild", q.img), Result("ok", q.img)}
        \/ q.st = "refused" /\ r = Result("fail", q.img)
        \/ q.st = "unmapped" /\ r = q
  <2>1. \A q \in bucket_add(I, h, p) : q.st \in InnerStates
    BY BucketAddSafe
  <2> QED
    BY <2>1 DEF add_path_to_plist, InnerStates
<1>2. ImageInv(q.img) /\ h \in DOMAIN q.img.hdr
  BY BucketAddSafe
<1>3. ImageInv(Counted(q.img, h))
  BY <1>2, CountedSafe
<1> QED
  BY <1>1, <1>2, <1>3 DEF Result, OuterStates

LEMMA AddToNamedSafe ==
  ASSUME NEW I, ImageInv(I), NEW n, NEW p \in Paths, NEW r \in AddToNamed(I, n, p)
  PROVE  r.st \in OuterStates /\ ImageInv(r.img)
<1>1. CASE find_playlist(I, n) = {}
  BY <1>1 DEF AddToNamed, Result, OuterStates
<1>2. CASE find_playlist(I, n) # {}
  <2>1. PICK h \in find_playlist(I, n) : r \in add_path_to_plist(I, h, p)
    BY <1>2 DEF AddToNamed
  <2>2. h \in DOMAIN I.hdr
    BY FindPlaylistFacts
  <2> QED
    BY <2>1, <2>2, AddPathToPlistSafe
<1> QED
  BY <1>1, <1>2

LEMMA AddPathSafe ==
  ASSUME NEW I, ImageInv(I), NEW n \in Names, NEW p \in Paths, NEW r \in add_path(I, n, p)
  PROVE  r.st \in OuterStates /\ ImageInv(r.img)
<1>1. \/ r \in AddToNamed(I, n, p)
      \/ r = Result("fail", I)
      \/ \E q \in AddToNamed(I, Global, p) :
           \/ r \in AddToNamed(q.img, n, p)
           \/ r = Result("killed", q.img)
           \/ r = q
  BY DEF add_path
<1>2. CASE \E q \in AddToNamed(I, Global, p) :
             \/ r \in AddToNamed(q.img, n, p)
             \/ r = Result("killed", q.img)
             \/ r = q
  BY <1>2, AddToNamedSafe DEF Result, OuterStates
<1> QED
  BY <1>1, <1>2, AddToNamedSafe DEF Result, OuterStates

-----------------------------------------------------------------------------

LEMMA BlankSafe == ImageInv(BlankLibrary)
<1> DEFINE B == BlankLibrary
<1>1. Pages(1024) \in Int
  BY PagesInt
<1>2. /\ B.len = 1024 /\ B.size = 1024 /\ DOMAIN B.hdr = {}
      /\ B.str = NoCells /\ B.idx = NoCells /\ B.hdr = NoCells
  BY LayoutConstants DEF BlankLibrary, NoCells
<1>3. ImageTyped(B)
  BY <1>1, LayoutConstants DEF ImageTyped, BlankLibrary, NoCells
<1> QED
  BY <1>2, <1>3, SizesAssumption, LayoutConstants
     DEF ImageInv, CellsFit, Disjoint, SlotsFilled

(* Mapping another number of pages changes nothing that ImageInv looks at. *)
LEMMA RemappedSafe ==
  ASSUME NEW I, ImageInv(I), NEW n \in Int
  PROVE  ImageInv([I EXCEPT !.vm = n])
<1> DEFINE J == [I EXCEPT !.vm = n]
<1>1. ImageTyped(J) /\ J.len = I.len /\ J.size = I.size /\ J.hdr = I.hdr /\ J.idx = I.idx
  BY DEF ImageInv, ImageTyped
<1> HIDE DEF J
<1>2. SlotsFilled(J)
  BY <1>1, SameSlots DEF ImageInv, SlotsFilled
<1>3. ImageInv(J)
  BY <1>1, <1>2 DEF ImageInv, CellsFit, CellFits, Disjoint
<1> QED
  BY <1>3 DEF J

-----------------------------------------------------------------------------
(***************************************************************************)
(* What a bucket holds, followed through every memmove.  A playlist of     *)
(* one image is found in the next, with its fields, its index words in     *)
(* their order and the strings they lead to (Kept).  There is a lemma for  *)
(* each operator that says which playlists it keeps, where they are then,  *)
(* and what becomes of the one it writes to; whatever is true of a         *)
(* playlist by its contents then only has to be shown of that one.         *)
(***************************************************************************)

Words(I, h) == {I.idx[o] : o \in Slots(I, h)}

EndOf(I, h, w) == w + PathLen[I.str[Strings(h) + w]]

BucketSound(I, h) ==
  /\ \A w \in Words(I, h) : /\ Strings(h) + w \in DOMAIN I.str
                            /\ EndOf(I, h, w) <= I.hdr[h].sbytes
  /\ \A v, w \in Words(I, h) : v < w => EndOf(I, h, v) <= w

AllSound(I) == \A h \in DOMAIN I.hdr : BucketSound(I, h)

(* Playlist h of image I is playlist g of image J. *)
Kept(I, h, J, g) ==
  /\ g \in DOMAIN J.hdr
  /\ J.hdr[g].name = I.hdr[h].name /\ J.hdr[g].mcount = I.hdr[h].mcount
  /\ J.hdr[g].sbytes = I.hdr[h].sbytes
  /\ bucket_nr_indexes(J, g) = bucket_nr_indexes(I, h)
  /\ \A i \in 0 .. bucket_nr_indexes(I, h) - 1 : bucket_index(J, g, i) = bucket_index(I, h, i)
  /\ \A w \in Nat : w < I.hdr[h].sbytes /\ Strings(h) + w \in DOMAIN I.str =>
                     /\ Strings(g) + w \in DOMAIN J.str
                     /\ J.str[Strings(g) + w] = I.str[Strings(h) + w]

(* Where the parts of a playlist are. *)
LEMMA Regions ==
  ASSUME NEW I, ImageInv(I), NEW h \in DOMAIN I.hdr
  PROVE  /\ Strings(h) = h + 144 /\ bucket_indexes(I, h) = h + 128 + I.hdr[h].ioff
         /\ bucket_indexes(I, h) \in Nat /\ bucket_nr_indexes(I, h) \in Int
         /\ Strings(h) + I.hdr[h].sbytes < bucket_indexes(I, h)
         /\ \A x \in Slots(I, h) : /\ x \in DOMAIN I.idx /\ x \in Nat
                                   /\ bucket_indexes(I, h) <= x /\ x < h + I.hdr[h].length
<1>1. /\ Strings(h) = h + 144 /\ bucket_indexes(I, h) = h + 128 + I.hdr[h].ioff
      /\ bucket_nr_indexes(I, h) \in Int
  BY CellFacts, LayoutConstants DEF Strings, bucket_indexes, bucket_nr_indexes
<1> QED
  BY <1>1, CellFacts, SlotFacts

(* Words are offsets below the bytes that strings take. *)
LEMMA WordFacts ==
  ASSUME NEW I, ImageInv(I), NEW h \in DOMAIN I.hdr, BucketSound(I, h), NEW w \in Words(I, h)
  PROVE  /\ w \in Nat /\ w < I.hdr[h].sbytes
         /\ Strings(h) + w \in DOMAIN I.str
         /\ PathLen[I.str[Strings(h) + w]] \in Nat /\ EndOf(I, h, w) \in Nat
<1>1. w \in Nat
  BY Regions DEF Words, ImageInv, ImageTyped
<1>2. Strings(h) + w \in DOMAIN I.str /\ EndOf(I, h, w) <= I.hdr[h].sbytes
  BY DEF BucketSound
<1>3. I.str[Strings(h) + w] \in Paths
  BY <1>2 DEF ImageInv, ImageTyped
<1>4. PathLen[I.str[Strings(h) + w]] \in Nat \ {0}
  BY <1>3, PathsAssumption
<1> QED
  BY <1>1, <1>2, <1>4, CellFacts DEF EndOf

(* The words of a bucket, by position and as a set. *)
LEMMA WordsByIndex ==
  ASSUME NEW I, NEW h
  PROVE  Words(I, h) = {bucket_index(I, h, i) : i \in 0 .. bucket_nr_indexes(I, h) - 1}
BY DEF Words, Slots, bucket_index

(* A playlist that is kept has its contents and is as sound as it was. *)
LEMMA KeptFacts ==
  ASSUME NEW I, ImageInv(I), NEW h \in DOMAIN I.hdr, BucketSound(I, h),
         NEW J, NEW g, Kept(I, h, J, g)
  PROVE  /\ BucketSound(J, g)
         /\ \A i \in 0 .. bucket_nr_indexes(I, h) - 1 :
              bucket_string(J, g, i) = bucket_string(I, h, i)
         /\ Contents(J, g) = Contents(I, h)
<1> DEFINE used == 0 .. bucket_nr_indexes(I, h) - 1
<1>1. /\ J.hdr[g].sbytes = I.hdr[h].sbytes
      /\ bucket_nr_indexes(J, g) = bucket_nr_indexes(I, h)
      /\ \A i \in used : bucket_index(J, g, i) = bucket_index(I, h, i)
      /\ \A w \in Nat : w < I.hdr[h].sbytes /\ Strings(h) + w \in DOMAIN I.str =>
            Strings(g) + w \in DOMAIN J.str /\ J.str[Strings(g) + w] = I.str[Strings(h) + w]
  BY Zenon DEF Kept
<1>2. Words(J, g) = Words(I, h) /\ \A i \in used : bucket_index(I, h, i) \in Words(I, h)
  <2>1. /\ Words(J, g) = {bucket_index(J, g, i) : i \in used}
        /\ Words(I, h) = {bucket_index(I, h, i) : i \in used}
    BY <1>1, WordsByIndex
  <2> QED
    BY <1>1, <2>1
<1> HIDE DEF used
<1>3. \A w \in Words(I, h) : /\ Strings(g) + w \in DOMAIN J.str
                             /\ J.str[Strings(g) + w] = I.str[Strings(h) + w]
  BY <1>1, WordFacts
<1>4. BucketSound(J, g)
  BY <1>1, <1>2, <1>3 DEF BucketSound, EndOf
<1>5. \A i \in used : bucket_string(J, g, i) = bucket_string(I, h, i)
  BY <1>1, <1>2, <1>3 DEF bucket_string, bucket_string_at
<1>6. Contents(J, g) = Contents(I, h)
  BY <1>1, <1>5 DEF Contents, used
<1> QED
  BY <1>4, <1>5, <1>6 DEF used

(* A playlist is kept when each slot's content moves by as much as the     *)
(* index array, and each string by as much as the playlist.                *)
LEMMA KeptByMove ==
  ASSUME NEW I, ImageInv(I), NEW h \in DOMAIN I.hdr, NEW J, NEW g \in DOMAIN J.hdr, NEW s \in Int,
         J.hdr[g].name = I.hdr[h].name, J.hdr[g].mcount = I.hdr[h].mcount,
         J.hdr[g].sbytes = I.hdr[h].sbytes,
         bucket_indexes(J, g) = bucket_indexes(I, h) + s,
         bucket_nr_indexes(J, g) = bucket_nr_indexes(I, h),
         \A x \in Slots(I, h) : J.idx[x + s] = I.idx[x],
         \A w \in Nat : w < I.hdr[h].sbytes /\ Strings(h) + w \in DOMAIN I.str =>
            Strings(g) + w \in DOMAIN J.str /\ J.str[Strings(g) + w] = I.str[Strings(h) + w]
  PROVE  Kept(I, h, J, g)
<1>1. ASSUME NEW i \in 0 .. bucket_nr_indexes(I, h) - 1
      PROVE  bucket_index(J, g, i) = bucket_index(I, h, i)
  <2>1. PICK x, y : x = bucket_indexes(I, h) + 4 * i /\ y = bucket_indexes(J, g) + 4 * i
    OBVIOUS
  <2>2. x \in Slots(I, h)
    BY <2>1, LayoutConstants DEF Slots
  <2>3. y = x + s
    BY <2>1, Regions
  <2> QED
    BY <2>1, <2>2, <2>3, LayoutConstants DEF bucket_index
<1> QED
  BY <1>1, Zenon DEF Kept

(* A playlist that nothing touches is kept where it is. *)
LEMMA KeptInPlace ==
  ASSUME NEW I, ImageInv(I), NEW h \in DOMAIN I.hdr, NEW J, h \in DOMAIN J.hdr,
         J.hdr[h] = I.hdr[h], \A x \in Slots(I, h) : J.idx[x] = I.idx[x],
         \A w \in Nat : w < I.hdr[h].sbytes /\ Strings(h) + w \in DOMAIN I.str =>
            Strings(h) + w \in DOMAIN J.str /\ J.str[Strings(h) + w] = I.str[Strings(h) + w]
  PROVE  Kept(I, h, J, h)
<1>1. /\ bucket_indexes(J, h) = bucket_indexes(I, h) + 0
      /\ bucket_nr_indexes(J, h) = bucket_nr_indexes(I, h)
  BY Regions DEF bucket_indexes, bucket_nr_indexes
<1>2. \A x \in Slots(I, h) : J.idx[x + 0] = I.idx[x]
  BY Regions
<1> QED
  BY <1>1, <1>2, KeptByMove

LEMMA KeptSelf ==
  ASSUME NEW I, NEW J, J.hdr = I.hdr, J.str = I.str, J.idx = I.idx, NEW h \in DOMAIN I.hdr
  PROVE  Kept(I, h, J, h)
BY DEF Kept, bucket_nr_indexes, bucket_indexes, bucket_index

(* memmove, seen from where a cell was. *)
LEMMA MovedUpKeeps ==
  ASSUME NEW f, f = [o \in DOMAIN f |-> f[o]], DOMAIN f \subseteq Nat,
         NEW at \in Nat, NEW n \in Nat, NEW m, m = MovedUp(f, at, n)
  PROVE  \A o \in DOMAIN f : IF o < at THEN o \in DOMAIN m /\ m[o] = f[o]
                                         ELSE o + n \in DOMAIN m /\ m[o + n] = f[o]
<1>1. /\ \A o \in DOMAIN f : IF o < at THEN o \in DOMAIN m ELSE o + n \in DOMAIN m
      /\ \A o \in DOMAIN m : o < at => o \in DOMAIN f /\ m[o] = f[o]
      /\ \A o \in DOMAIN m : o >= at => o - n >= at /\ o - n \in DOMAIN f /\ m[o] = f[o - n]
  BY MovedUpCells
<1> SUFFICES ASSUME NEW o \in DOMAIN f
             PROVE  IF o < at THEN o \in DOMAIN m /\ m[o] = f[o]
                              ELSE o + n \in DOMAIN m /\ m[o + n] = f[o]
  OBVIOUS
<1>2. CASE ~ o < at
  <2>1. PICK x : x = o + n
    OBVIOUS
  <2>2. x >= at /\ x - n = o /\ x \in DOMAIN m
    BY <1>1, <1>2, <2>1
  <2> QED
    BY <1>1, <1>2, <2>1, <2>2
<1> QED
  BY <1>1, <1>2

LEMMA MovedDownKeeps ==
  ASSUME NEW f, f = [o \in DOMAIN f |-> f[o]], DOMAIN f \subseteq Nat,
         NEW start \in Nat, NEW n \in Nat, NEW len \in Nat, start + n <= len,
         NEW m, m = MovedDown(f, start, start + n, len), NEW x \in DOMAIN f
  PROVE  /\ x < start \/ x >= len - n => x \in DOMAIN m /\ m[x] = f[x]
         /\ start + n <= x /\ x < len => x - n \in DOMAIN m /\ m[x - n] = f[x]
<1>1. /\ x < start \/ x >= len - n => x \in DOMAIN m
      /\ start + n <= x /\ x < len => x - n \in DOMAIN m
      /\ \A o \in DOMAIN m : o < start \/ o >= len - n => m[o] = f[o]
      /\ \A o \in DOMAIN m : ~ (o < start \/ o >= len - n) => m[o] = f[o + n]
  <2>1. start + n \in Nat /\ start <= start + n /\ start + n - start = n
    OBVIOUS
  <2> QED
    BY <2>1, MovedDownCells
<1>2. CASE start + n <= x /\ x < len
  <2>1. PICK o : o = x - n
    OBVIOUS
  <2>2. ~ (o < start \/ o >= len - n) /\ o + n = x /\ o \in DOMAIN m
    BY <1>1, <1>2, <2>1
  <2> QED
    BY <1>1, <2>1, <2>2
<1> QED
  BY <1>1, <1>2

-----------------------------------------------------------------------------

(* Operators that write no string. *)

LEMMA ExpandKeeps ==
  ASSUME NEW I, ImageInv(I), NEW newlen \in Nat, newlen < U32,
         NEW r \in library_expand(I, newlen)
  PROVE  /\ r.img.str = I.str
         /\ r.st \in {"refused", "unmapped"} => r.img.len = I.len
<1> DEFINE G(vm) == [expand_fd(I, newlen) EXCEPT !.len = newlen, !.vm = vm]
<1>1. r \in {Result("refused", I), Result("unmapped", I), Result("unmapped", expand_fd(I, newlen)),
             Result("moved", G(Pages(newlen))), Result("ok", G(Max2(I.vm, Pages(newlen))))}
  BY Zenon DEF library_expand, Fault
<1>2. \/ r.img = I
      \/ r.img = expand_fd(I, newlen)
      \/ r.img = G(Pages(newlen)) /\ r.st = "moved"
      \/ r.img = G(Max2(I.vm, Pages(newlen))) /\ r.st = "ok"
  <2> HIDE DEF G
  <2> QED
    BY <1>1 DEF Result
<1>3. /\ expand_fd(I, newlen).str = I.str /\ expand_fd(I, newlen).len = I.len
      /\ G(Pages(newlen)).str = I.str /\ G(Max2(I.vm, Pages(newlen))).str = I.str
  BY DEF expand_fd, ImageInv, ImageTyped
<1> HIDE DEF G
<1> QED
  BY <1>2, <1>3

(* A length that wraps around is refused. *)
LEMMA NoWrap ==
  ASSUME NEW I, ImageInv(I), NEW n \in Nat, n < U32
  PROVE  /\ Add32(I.len, n) \in Nat /\ Add32(I.len, n) < U32
         /\ Add32(I.len, n) > I.len => Add32(I.len, n) = I.len + n
BY SizesAssumption DEF Add32, ImageInv, ImageTyped

(* Only a length that would wrap around is refused. *)
LEMMA ExpandRefused ==
  ASSUME NEW I, ImageInv(I), NEW n \in Nat, 0 < n,
         NEW r \in library_expand(I, Add32(I.len, n)), r.st = "refused"
  PROVE  I.len + n >= U32
<1>1. I.len \in Nat /\ U32 \in Nat
  BY SizesAssumption DEF ImageInv, ImageTyped
<1>2. CASE Add32(I.len, n) <= I.len
  BY <1>1, <1>2 DEF Add32
<1>3. CASE ~ Add32(I.len, n) <= I.len
  BY <1>3 DEF library_expand, Fault, Result
<1> QED
  BY <1>2, <1>3

LEMMA BucketExpandRefused ==
  ASSUME NEW I, ImageInv(I), NEW h, NEW n \in Nat, 0 < n,
         NEW r \in bucket_expand(I, h, n), r.st = "refused"
  PROVE  I.len + n >= U32
<1>1. PICK q2 \in library_insert_space(I, bucket_indexes(I, h), n) :
        r = IF q2.st \in {"ok", "moved"}
            THEN Result(q2.st, SetCell(q2.img, h, Wider(q2.img.hdr[h], n))) ELSE q2
  BY Zenon DEF bucket_expand
<1>2. PICK q \in library_expand(I, Add32(I.len, n)) :
        q2 = IF q.st \in {"ok", "moved"}
             THEN Result(q.st, Opened(q.img, bucket_indexes(I, h), n)) ELSE q
  BY Zenon DEF library_insert_space
<1>3. q2.st = "refused"
  BY <1>1 DEF Result
<1>4. q.st = "refused"
  BY <1>2, <1>3 DEF Result
<1> QED
  BY <1>4, ExpandRefused

(* bucket_expand does nothing, or opens a gap at the index array. *)
LEMMA BucketExpandShape ==
  ASSUME NEW I, ImageInv(I), NEW h \in DOMAIN I.hdr, NEW n \in Nat, n < U32,
         NEW r \in bucket_expand(I, h, n)
  PROVE  LET at == bucket_indexes(I, h) IN
         \/ /\ r.st \in {"refused", "unmapped"} /\ r.img.len = I.len
            /\ r.img.hdr = I.hdr /\ r.img.str = I.str /\ r.img.idx = I.idx
         \/ /\ r.st \in {"ok", "moved"} /\ r.img.len = I.len + n
            /\ r.img.str = MovedUp(I.str, at, n) /\ r.img.idx = MovedUp(I.idx, at, n)
            /\ r.img.hdr = [MovedUp(I.hdr, at, n) EXCEPT
                               ![h] = Wider(MovedUp(I.hdr, at, n)[h], n)]
<1> DEFINE at == bucket_indexes(I, h)
           newlen == Add32(I.len, n)
           Expanded(J) == SetCell(Opened(J, at, n), h, Wider(Opened(J, at, n).hdr[h], n))
<1>1. newlen \in Nat /\ newlen < U32 /\ (newlen > I.len => newlen = I.len + n)
  BY NoWrap
<1>2. PICK q \in library_expand(I, newlen) :
        r = IF q.st \in {"ok", "moved"} THEN Result(q.st, Expanded(q.img)) ELSE q
  <2>1. PICK q2 \in library_insert_space(I, at, n) :
          r = IF q2.st \in {"ok", "moved"}
              THEN Result(q2.st, SetCell(q2.img, h, Wider(q2.img.hdr[h], n))) ELSE q2
    BY Zenon DEF bucket_expand
  <2>2. PICK q \in library_expand(I, newlen) :
          q2 = IF q.st \in {"ok", "moved"} THEN Result(q.st, Opened(q.img, at, n)) ELSE q
    BY Zenon DEF library_insert_space
  <2> QED
    BY <2>1, <2>2 DEF Result
<1> HIDE DEF at, newlen
<1>3. /\ q.img.hdr = I.hdr /\ q.img.str = I.str /\ q.img.idx = I.idx /\ ImageTyped(q.img)
      /\ q.st \in {"ok", "moved"} => q.img.len = I.len + n
      /\ q.st \notin {"ok", "moved"} => q.st \in {"refused", "unmapped"} /\ q.img.len = I.len
  BY <1>1, ExpandSafe, ExpandKeeps DEF ImageInv, InnerStates
<1>4. CASE q.st \notin {"ok", "moved"}
  BY <1>2, <1>3, <1>4
<1>5. CASE q.st \in {"ok", "moved"}
  <2>1. PICK J, H, S, X : /\ J = q.img /\ H = MovedUp(I.hdr, at, n)
                          /\ S = MovedUp(I.str, at, n) /\ X = MovedUp(I.idx, at, n)
    OBVIOUS
  <2>2. Opened(J, at, n) = [J EXCEPT !.hdr = H, !.str = S, !.idx = X]
    BY <1>3, <2>1 DEF Opened
  <2>3. PICK K : K = Opened(J, at, n)
    OBVIOUS
  <2>4. /\ K.hdr = H /\ K.str = S /\ K.idx = X /\ K.len = J.len
        /\ DOMAIN K = {"len", "size", "vm", "hdr", "str", "idx"}
    BY <1>3, <2>1, <2>2, <2>3 DEF ImageTyped
  <2>5. PICK G : G = [H EXCEPT ![h] = Wider(H[h], n)]
    OBVIOUS
  <2>6. Expanded(J) = [K EXCEPT !.hdr = G]
    BY <2>3, <2>4, <2>5 DEF SetCell
  <2>7. r.img = [K EXCEPT !.hdr = G] /\ r.st = q.st
    BY <1>2, <1>5, <2>1, <2>6 DEF Result
  <2>8. r.img.hdr = G /\ r.img.str = S /\ r.img.idx = X /\ r.img.len = J.len
    BY <2>4, <2>7
  <2> QED
    BY <1>3, <1>5, <2>1, <2>5, <2>7, <2>8 DEF at
<1> QED
  BY <1>4, <1>5

(* Image J is image I with playlist h longer by n bytes: that one has the  *)
(* same contents, those behind it have moved, and no other is there.       *)
MovedTo(h, n, k) == IF k <= h THEN k ELSE k + n

Grown(I, J, h, n) ==
  /\ J.len = I.len + n
  /\ DOMAIN J.hdr = {MovedTo(h, n, k) : k \in DOMAIN I.hdr}
  /\ \A k \in DOMAIN I.hdr :
       /\ Kept(I, k, J, MovedTo(h, n, k))
       /\ J.hdr[MovedTo(h, n, k)].length = I.hdr[k].length + IF k = h THEN n ELSE 0

LEMMA GrownNone ==
  ASSUME NEW I, ImageInv(I), NEW h \in DOMAIN I.hdr, NEW J, J.len = I.len,
         J.hdr = I.hdr, J.str = I.str, J.idx = I.idx
  PROVE  Grown(I, J, h, 0)
<1>1. \A k \in DOMAIN I.hdr : /\ MovedTo(h, 0, k) = k /\ Kept(I, k, J, k)
                              /\ J.hdr[k].length = I.hdr[k].length + IF k = h THEN 0 ELSE 0
  BY KeptSelf, CellFacts DEF MovedTo
<1>2. J.len = I.len + 0
  BY DEF ImageInv, ImageTyped
<1> QED
  BY <1>1, <1>2 DEF Grown

(* The strings of the playlist that grows are below the gap and stay, its  *)
(* words move; playlists before it stay and those behind it move whole.    *)
LEMMA BucketExpandKeeps ==
  ASSUME NEW I, ImageInv(I), NEW h \in DOMAIN I.hdr, NEW n \in Nat, n < U32,
         NEW r \in bucket_expand(I, h, n)
  PROVE  \/ r.st \in {"refused", "unmapped"} /\ Grown(I, r.img, h, 0)
         \/ r.st \in {"ok", "moved"} /\ Grown(I, r.img, h, n)
<1> DEFINE at == bucket_indexes(I, h)
<1>1. CASE /\ r.st \in {"refused", "unmapped"} /\ r.img.len = I.len
           /\ r.img.hdr = I.hdr /\ r.img.str = I.str /\ r.img.idx = I.idx
  BY <1>1, GrownNone
<1>2. CASE /\ r.st \in {"ok", "moved"} /\ r.img.len = I.len + n
           /\ r.img.str = MovedUp(I.str, at, n) /\ r.img.idx = MovedUp(I.idx, at, n)
           /\ r.img.hdr = [MovedUp(I.hdr, at, n) EXCEPT
                              ![h] = Wider(MovedUp(I.hdr, at, n)[h], n)]
  <2>1. PICK J, H : J = r.img /\ H = MovedUp(I.hdr, at, n)
    OBVIOUS
  <2>2. /\ at \in Nat /\ at = h + 128 + I.hdr[h].ioff /\ h \in Nat /\ h < at
        /\ Strings(h) + I.hdr[h].sbytes < at /\ I.hdr[h] \in Cell
    BY Regions, CellFacts
  <2> HIDE DEF at
  <2>3. /\ \A o \in DOMAIN I.str : IF o < at THEN o \in DOMAIN J.str /\ J.str[o] = I.str[o]
              ELSE o + n \in DOMAIN J.str /\ J.str[o + n] = I.str[o]
        /\ \A o \in DOMAIN I.idx : IF o < at THEN o \in DOMAIN J.idx /\ J.idx[o] = I.idx[o]
              ELSE o + n \in DOMAIN J.idx /\ J.idx[o + n] = I.idx[o]
    <3>1. /\ I.str = [o \in DOMAIN I.str |-> I.str[o]] /\ DOMAIN I.str \subseteq Nat
          /\ I.idx = [o \in DOMAIN I.idx |-> I.idx[o]] /\ DOMAIN I.idx \subseteq Nat
      BY DEF ImageInv, ImageTyped
    <3>2. J.str = MovedUp(I.str, at, n) /\ J.idx = MovedUp(I.idx, at, n)
      BY <1>2, <2>1
    <3>3. \A o \in DOMAIN I.str : IF o < at THEN o \in DOMAIN J.str /\ J.str[o] = I.str[o]
              ELSE o + n \in DOMAIN J.str /\ J.str[o + n] = I.str[o]
      BY <2>2, <3>1, <3>2, MovedUpKeeps
    <3>4. \A o \in DOMAIN I.idx : IF o < at THEN o \in DOMAIN J.idx /\ J.idx[o] = I.idx[o]
              ELSE o + n \in DOMAIN J.idx /\ J.idx[o + n] = I.idx[o]
      BY <2>2, <3>1, <3>2, MovedUpKeeps
    <3> QED
      BY <3>3, <3>4
  <2>4. /\ DOMAIN J.hdr = DOMAIN H /\ DOMAIN H \subseteq Nat
        /\ J.hdr[h].sbytes = I.hdr[h].sbytes /\ J.hdr[h].ioff = I.hdr[h].ioff + n
        /\ J.hdr[h].blen = I.hdr[h].blen + n /\ J.hdr[h].length = I.hdr[h].length + n
        /\ J.hdr[h].name = I.hdr[h].name /\ J.hdr[h].mcount = I.hdr[h].mcount
        /\ \A o \in DOMAIN H : o < at => o \in DOMAIN I.hdr
        /\ \A o \in DOMAIN H : o < at /\ o # h => J.hdr[o] = I.hdr[o]
        /\ \A o \in DOMAIN H : o >= at =>
             o - n >= at /\ o - n \in DOMAIN I.hdr /\ J.hdr[o] = I.hdr[o - n]
        /\ \A o \in DOMAIN I.hdr : IF o < at THEN o \in DOMAIN H ELSE o + n \in DOMAIN H
    <3>1. I.hdr = [o \in DOMAIN I.hdr |-> I.hdr[o]] /\ DOMAIN I.hdr \subseteq Nat
      BY DEF ImageInv, ImageTyped
    <3>2. /\ DOMAIN H \subseteq Nat /\ H = [o \in DOMAIN H |-> H[o]]
          /\ \A o \in DOMAIN I.hdr : IF o < at THEN o \in DOMAIN H ELSE o + n \in DOMAIN H
          /\ \A o \in DOMAIN H : o < at => o \in DOMAIN I.hdr /\ H[o] = I.hdr[o]
          /\ \A o \in DOMAIN H : o >= at =>
               o - n >= at /\ o - n \in DOMAIN I.hdr /\ H[o] = I.hdr[o - n]
      <4>1. PICK f : f = I.hdr
        OBVIOUS
      <4>2. f = [o \in DOMAIN f |-> f[o]] /\ DOMAIN f \subseteq Nat /\ H = MovedUp(f, at, n)
        BY <2>1, <3>1, <4>1
      <4>3. /\ H = [o \in DOMAIN H |-> H[o]] /\ DOMAIN H \subseteq Nat
            /\ \A o \in DOMAIN f : IF o < at THEN o \in DOMAIN H ELSE o + n \in DOMAIN H
            /\ \A o \in DOMAIN H : o < at => o \in DOMAIN f /\ H[o] = f[o]
            /\ \A o \in DOMAIN H : o >= at =>
                 o - n >= at /\ o - n \in DOMAIN f /\ H[o] = f[o - n]
        <5>1. at \in Nat
          BY <2>2
        <5> QED
          BY <4>2, <5>1, MovedUpCells
      <4> QED
        BY <4>1, <4>3, Zenon
    <3>3. h \in DOMAIN H /\ H[h] = I.hdr[h]
      BY <2>2, <3>2
    <3>4. PICK w : w = Wider(I.hdr[h], n)
      OBVIOUS
    <3>5. J.hdr = [H EXCEPT ![h] = w]
      BY <1>2, <2>1, <3>3, <3>4
    <3>6. /\ w.sbytes = I.hdr[h].sbytes /\ w.ioff = I.hdr[h].ioff + n /\ w.blen = I.hdr[h].blen + n
          /\ w.length = I.hdr[h].length + n /\ w.name = I.hdr[h].name /\ w.mcount = I.hdr[h].mcount
      BY <2>2, <3>4 DEF Wider, Cell
    <3>7. J.hdr[h] = w /\ DOMAIN J.hdr = DOMAIN H /\ \A o \in DOMAIN H : o # h => J.hdr[o] = H[o]
      BY <3>2, <3>3, <3>5
    <3> QED
      BY <2>2, <3>2, <3>6, <3>7
  (* Below the gap there is nothing behind playlist h. *)
  <2>5. \A k \in DOMAIN I.hdr : /\ k \in Nat /\ I.hdr[k].length \in Nat
                                /\ k < h => k + I.hdr[k].length <= h
                                /\ k > h => k >= at
    BY <2>2, CellFacts DEF ImageInv, Disjoint
  <2>6. ASSUME NEW k \in DOMAIN I.hdr
        PROVE  /\ Kept(I, k, J, MovedTo(h, n, k))
               /\ J.hdr[MovedTo(h, n, k)].length = I.hdr[k].length + IF k = h THEN n ELSE 0
    <3>1. CASE k = h
      <4>1. /\ bucket_indexes(J, h) = bucket_indexes(I, h) + n
            /\ bucket_nr_indexes(J, h) = bucket_nr_indexes(I, h)
        BY <2>2, <2>4, LayoutConstants DEF bucket_indexes, bucket_nr_indexes, Cell
      <4>2. \A x \in Slots(I, h) : J.idx[x + n] = I.idx[x]
        BY <2>2, <2>3, Regions DEF at
      <4>3. \A w \in Nat : w < I.hdr[h].sbytes /\ Strings(h) + w \in DOMAIN I.str =>
              Strings(h) + w \in DOMAIN J.str /\ J.str[Strings(h) + w] = I.str[Strings(h) + w]
        BY <2>2, <2>3, Regions, CellFacts
      <4>4. h \in DOMAIN J.hdr
        BY <2>2, <2>4
      <4>5. Kept(I, h, J, h)
        BY <2>4, <4>1, <4>2, <4>3, <4>4, KeptByMove
      <4> QED
        BY <2>2, <2>4, <3>1, <4>5 DEF MovedTo
    <3>2. CASE k < h
      <4>1. k \in DOMAIN J.hdr /\ J.hdr[k] = I.hdr[k]
        BY <2>2, <2>4, <2>5, <3>2
      <4>2. \A x \in Slots(I, k) : J.idx[x] = I.idx[x]
        BY <2>2, <2>3, <2>5, <3>2, Regions, CellFacts
      <4>3. \A w \in Nat : w < I.hdr[k].sbytes /\ Strings(k) + w \in DOMAIN I.str =>
              Strings(k) + w \in DOMAIN J.str /\ J.str[Strings(k) + w] = I.str[Strings(k) + w]
        BY <2>2, <2>3, <2>5, <3>2, Regions, CellFacts
      <4>4. Kept(I, k, J, k)
        BY <4>1, <4>2, <4>3, KeptInPlace
      <4> QED
        BY <2>2, <2>5, <3>2, <4>1, <4>4 DEF MovedTo
    <3>3. CASE k > h
      <4>1. PICK g : g = k + n
        OBVIOUS
      <4>2. /\ k >= at /\ k \in Nat /\ g \in DOMAIN J.hdr /\ g \in Nat /\ g >= at /\ g - n = k
        BY <2>2, <2>4, <2>5, <3>3, <4>1
      <4>3. J.hdr[g] = I.hdr[k]
        BY <2>4, <4>2
      <4>4. /\ bucket_indexes(J, g) = bucket_indexes(I, k) + n
            /\ bucket_nr_indexes(J, g) = bucket_nr_indexes(I, k)
        BY <4>1, <4>2, <4>3, CellFacts, LayoutConstants DEF bucket_indexes, bucket_nr_indexes
      <4>5. \A x \in Slots(I, k) : J.idx[x + n] = I.idx[x]
        BY <2>2, <2>3, <4>2, Regions, CellFacts
      <4>6. ASSUME NEW w \in Nat, w < I.hdr[k].sbytes, Strings(k) + w \in DOMAIN I.str
            PROVE  Strings(g) + w \in DOMAIN J.str /\ J.str[Strings(g) + w] = I.str[Strings(k) + w]
        <5>1. PICK y : y = Strings(k) + w
          OBVIOUS
        <5>2. y \in Nat /\ ~ y < at /\ y \in DOMAIN I.str /\ Strings(g) + w = y + n
          BY <2>2, <4>1, <4>2, <4>6, <5>1, LayoutConstants DEF Strings
        <5> QED
          BY <2>3, <5>1, <5>2
      <4>7. Kept(I, k, J, g)
        BY <4>2, <4>3, <4>4, <4>5, <4>6, KeptByMove
      <4> QED
        BY <2>2, <2>5, <3>3, <4>1, <4>3, <4>7 DEF MovedTo
    <3> QED
      BY <2>2, <2>5, <3>1, <3>2, <3>3
  <2>7. DOMAIN J.hdr = {MovedTo(h, n, k) : k \in DOMAIN I.hdr}
    <3>1. \A g \in DOMAIN J.hdr : \E k \in DOMAIN I.hdr : g = MovedTo(h, n, k)
      <4> SUFFICES ASSUME NEW g \in DOMAIN J.hdr
                   PROVE  \E k \in DOMAIN I.hdr : g = MovedTo(h, n, k)
        OBVIOUS
      <4>1. CASE g < at
        <5>1. g \in DOMAIN I.hdr /\ g <= h
          BY <2>2, <2>4, <2>5, <4>1
        <5> QED
          BY <5>1 DEF MovedTo
      <4>2. CASE g >= at
        <5>1. PICK k : k = g - n
          OBVIOUS
        <5>2. k \in DOMAIN I.hdr /\ k \in Nat /\ ~ (k <= h) /\ g = k + n
          BY <2>2, <2>4, <2>5, <4>2, <5>1
        <5> QED
          BY <5>2 DEF MovedTo
      <4> QED
        BY <2>2, <2>4, <4>1, <4>2
    <3>2. \A k \in DOMAIN I.hdr : MovedTo(h, n, k) \in DOMAIN J.hdr
      BY <2>6 DEF Kept
    <3> QED
      BY <3>1, <3>2
  <2> QED
    BY <1>2, <2>1, <2>6, <2>7 DEF Grown
<1> QED
  BY <1>1, <1>2, BucketExpandShape

-----------------------------------------------------------------------------

(* A path is added. *)

(* qsort keeps the words of the bucket and brings them into order. *)
LEMMA SortKeeps ==
  ASSUME NEW I, ImageTyped(I), NEW h, Slots(I, h) \subseteq DOMAIN I.idx,
         NEW J \in bucket_sort(I, h)
  PROVE  /\ J.len = I.len /\ J.hdr = I.hdr /\ J.str = I.str
         /\ Words(J, h) = Words(I, h)
         /\ \A x, y \in Slots(I, h) :
              x < y => I.str[Strings(h) + J.idx[x]] <= I.str[Strings(h) + J.idx[y]]
         /\ \A x \in DOMAIN I.idx : x \notin Slots(I, h) => J.idx[x] = I.idx[x]
<1> DEFINE slots == Slots(I, h)
           words == {I.idx[o] : o \in slots}
<1>1. PICK f \in [slots -> words] :
        /\ J = [I EXCEPT !.idx = [o \in DOMAIN I.idx |-> IF o \in slots THEN f[o] ELSE I.idx[o]]]
        /\ {f[o] : o \in slots} = words
        /\ \A o, q \in slots : o < q =>
             bucket_string_at(I, h, f[o]) <= bucket_string_at(I, h, f[q])
  BY DEF bucket_sort
<1>2. PICK X : X = [o \in DOMAIN I.idx |-> IF o \in slots THEN f[o] ELSE I.idx[o]]
  OBVIOUS
<1>3. J = [I EXCEPT !.idx = X]
  BY <1>1, <1>2
<1>4. J.len = I.len /\ J.hdr = I.hdr /\ J.str = I.str /\ J.idx = X
  BY <1>3 DEF ImageTyped
<1>5. Slots(J, h) = slots
  BY <1>4, SameSlots
<1>6. \A x \in slots : J.idx[x] = f[x]
  BY <1>2, <1>4
<1>7. Words(J, h) = Words(I, h)
  <2>1. Words(J, h) = {f[o] : o \in slots}
    BY <1>5, <1>6 DEF Words
  <2> QED
    BY <1>1, <2>1 DEF Words
<1>8. \A x, y \in slots :
        x < y => I.str[Strings(h) + J.idx[x]] <= I.str[Strings(h) + J.idx[y]]
  BY <1>1, <1>6 DEF bucket_string_at
<1>9. \A x \in DOMAIN I.idx : x \notin slots => J.idx[x] = I.idx[x]
  BY <1>2, <1>4
<1> QED
  BY <1>4, <1>7, <1>8, <1>9

(* Image J is image I with path p in the bucket of h, behind the strings   *)
(* that were there and among them in order, and no other playlist touched. *)
Entered(I, J, h, p) ==
  /\ J.len = I.len /\ DOMAIN J.hdr = DOMAIN I.hdr
  /\ \A g \in DOMAIN I.hdr : /\ J.hdr[g].length = I.hdr[g].length
                             /\ g # h => Kept(I, g, J, g)
  /\ J.hdr[h].name = I.hdr[h].name /\ J.hdr[h].mcount = I.hdr[h].mcount
  /\ J.hdr[h].sbytes = I.hdr[h].sbytes + PathLen[p]
  /\ bucket_indexes(J, h) = bucket_indexes(I, h) - 4
  /\ bucket_nr_indexes(J, h) = bucket_nr_indexes(I, h) + 1
  /\ Words(J, h) = Words(I, h) \cup {I.hdr[h].sbytes}
  /\ \A x \in DOMAIN I.str : x # Strings(h) + I.hdr[h].sbytes => x \in DOMAIN J.str /\ J.str[x] = I.str[x]
  /\ Strings(h) + I.hdr[h].sbytes \in DOMAIN J.str
  /\ J.str[Strings(h) + I.hdr[h].sbytes] = p
  /\ \A x, y \in Slots(J, h) :
       x < y => J.str[Strings(h) + J.idx[x]] <= J.str[Strings(h) + J.idx[y]]

(* The new string lies behind the last one, where no word led; its own     *)
(* word leads to it, and no other playlist reaches the bytes written.      *)
LEMMA PlacedKeeps ==
  ASSUME NEW I, ImageInv(I), NEW h \in DOMAIN I.hdr, NEW p \in Paths,
         16 + I.hdr[h].sbytes + PathLen[p] < I.hdr[h].ioff - 4,
         NEW J \in Placed(I, h, p)
  PROVE  Entered(I, J, h, p)
<1> DEFINE c == I.hdr[h]
           at == Strings(h) + c.sbytes
           slot == bucket_indexes(I, h) - IndexSize
           d == [c EXCEPT !.ioff = @ - IndexSize, !.sbytes = @ + PathLen[p]]
           S == Put(I.str, at, p)
           X == Put(I.idx, slot, c.sbytes)
           K == [I EXCEPT !.str = S, !.idx = X]
           M == SetCell(K, h, d)
<1>1. /\ c \in Cell /\ h \in Nat /\ PathLen[p] \in Nat /\ PathLen[p] > 0
      /\ c.ioff \in Nat /\ c.sbytes \in Nat
  BY CellFacts, PathsAssumption
<1>2. /\ at \in Nat /\ at = h + 144 + c.sbytes /\ slot \in Nat /\ slot = h + 128 + c.ioff - 4
      /\ h < at /\ at < slot /\ slot < h + c.length
  BY <1>1, CellFacts, LayoutConstants DEF Strings, bucket_indexes
<1>3. /\ d \in Cell /\ d.ioff = c.ioff - 4 /\ d.sbytes = c.sbytes + PathLen[p]
      /\ d.length = c.length /\ d.blen = c.blen /\ d.name = c.name /\ d.mcount = c.mcount
  <2>1. c.ioff - 4 \in Nat /\ c.sbytes + PathLen[p] \in Nat
    BY <1>1
  <2> QED
    BY <1>1, <2>1, LayoutConstants DEF Cell
<1>4. K.len = I.len /\ K.hdr = I.hdr /\ K.str = S /\ K.idx = X /\ ImageTyped(K)
  <2>0. /\ I.str \in [DOMAIN I.str -> Paths] /\ DOMAIN I.str \subseteq Nat
        /\ I.idx \in [DOMAIN I.idx -> Nat] /\ DOMAIN I.idx \subseteq Nat
    BY DEF ImageInv, ImageTyped
  <2> HIDE DEF at, slot
  <2>1. S \in [DOMAIN S -> Paths] /\ DOMAIN S \subseteq Nat
    BY <1>2, <2>0 DEF Put
  <2>2. X \in [DOMAIN X -> Nat] /\ DOMAIN X \subseteq Nat
    BY <1>1, <1>2, <2>0 DEF Put
  <2> HIDE DEF S, X
  <2> QED
    BY <2>1, <2>2 DEF ImageInv, ImageTyped
<1>5. /\ at \in DOMAIN S /\ S[at] = p /\ slot \in DOMAIN X /\ X[slot] = c.sbytes
      /\ \A o \in DOMAIN I.str : o # at => o \in DOMAIN S /\ S[o] = I.str[o]
      /\ \A o \in DOMAIN I.idx : o # slot => o \in DOMAIN X /\ X[o] = I.idx[o]
  BY DEF Put
<1>6. J \in bucket_sort(M, h)
  BY DEF Placed
<1> HIDE DEF c, d, K, S, X, slot, at
<1>7. /\ ImageTyped(M) /\ M.idx = X /\ DOMAIN M.hdr = DOMAIN I.hdr /\ M.hdr[h] = d
      /\ M.len = I.len /\ \A o \in DOMAIN I.hdr : o # h => M.hdr[o] = I.hdr[o]
  BY <1>3, <1>4, SetCellTyped
<1>8. M.str = S
  BY <1>4 DEF M, SetCell, ImageTyped
<1> HIDE DEF M

(* The bucket's slots are those it had and the new one. *)
<1>9. /\ bucket_indexes(M, h) = slot /\ bucket_indexes(I, h) = slot + 4
      /\ bucket_nr_indexes(M, h) = bucket_nr_indexes(I, h) + 1
      /\ bucket_nr_indexes(I, h) \in Nat
  <2>1. bucket_indexes(M, h) = slot /\ bucket_indexes(I, h) = slot + 4
    BY <1>1, <1>2, <1>3, <1>7, LayoutConstants DEF bucket_indexes, c
  <2>2. bucket_nr_indexes(M, h) = bucket_nr_indexes(I, h) + 1 /\ bucket_nr_indexes(I, h) \in Nat
    BY <1>1, <1>3, <1>7, CellFacts, LayoutConstants DEF bucket_nr_indexes, c
  <2> QED
    BY <2>1, <2>2
<1>10. Slots(M, h) = Slots(I, h) \cup {slot}
  <2>1. ASSUME NEW x \in Slots(M, h) PROVE x = slot \/ x \in Slots(I, h)
    <3>1. PICK i \in 0 .. bucket_nr_indexes(M, h) - 1 : x = bucket_indexes(M, h) + 4 * i
      BY LayoutConstants DEF Slots
    <3>2. CASE i = 0
      BY <1>2, <1>9, <3>1, <3>2
    <3>3. CASE i # 0
      <4>1. i - 1 \in 0 .. bucket_nr_indexes(I, h) - 1 /\ x = bucket_indexes(I, h) + 4 * (i - 1)
        BY <1>2, <1>9, <3>1, <3>3
      <4> QED
        BY <4>1, LayoutConstants DEF Slots
    <3> QED
      BY <3>2, <3>3
  <2>2. ASSUME NEW x \in Slots(I, h) PROVE x \in Slots(M, h)
    <3>1. PICK i \in 0 .. bucket_nr_indexes(I, h) - 1 : x = bucket_indexes(I, h) + 4 * i
      BY LayoutConstants DEF Slots
    <3>2. i + 1 \in 0 .. bucket_nr_indexes(M, h) - 1 /\ x = bucket_indexes(M, h) + 4 * (i + 1)
      BY <1>2, <1>9, <3>1
    <3> QED
      BY <3>2, LayoutConstants DEF Slots
  <2>3. slot \in Slots(M, h)
    <3>1. 0 \in 0 .. bucket_nr_indexes(M, h) - 1 /\ slot = bucket_indexes(M, h) + 4 * 0
      BY <1>2, <1>9
    <3> QED
      BY <3>1, LayoutConstants DEF Slots
  <2> QED
    BY <2>1, <2>2, <2>3
<1>11. \A x \in Slots(I, h) : x \in Nat /\ x # slot /\ x \in DOMAIN I.idx /\ X[x] = I.idx[x]
  BY <1>1, <1>2, <1>5, Regions DEF c
<1>12. Slots(M, h) \subseteq DOMAIN M.idx
  BY <1>5, <1>7, <1>10, <1>11
<1>13. /\ J.len = M.len /\ J.hdr = M.hdr /\ J.str = S /\ Words(J, h) = Words(M, h)
       /\ \A x, y \in Slots(M, h) : x < y => S[Strings(h) + J.idx[x]] <= S[Strings(h) + J.idx[y]]
       /\ \A x \in DOMAIN X : x \notin Slots(M, h) => J.idx[x] = X[x]
  <2>1. /\ J.len = M.len /\ J.hdr = M.hdr /\ J.str = M.str /\ Words(J, h) = Words(M, h)
        /\ \A x, y \in Slots(M, h) : x < y => M.str[Strings(h) + J.idx[x]] <= M.str[Strings(h) + J.idx[y]]
        /\ \A x \in DOMAIN M.idx : x \notin Slots(M, h) => J.idx[x] = M.idx[x]
    BY <1>6, <1>7, <1>12, SortKeeps
  <2> QED
    BY <1>7, <1>8, <2>1
<1>14. Words(M, h) = Words(I, h) \cup {c.sbytes}
  BY <1>5, <1>7, <1>10, <1>11 DEF Words
<1>15. ASSUME NEW g \in DOMAIN I.hdr, g # h PROVE Kept(I, g, J, g)
  <2>1. J.hdr[g] = I.hdr[g] /\ g \in Nat /\ g \in DOMAIN J.hdr
    BY <1>7, <1>13, <1>15, CellFacts
  <2>2. g + I.hdr[g].length <= h \/ h + c.length <= g
    BY <1>1, <1>15, <2>1 DEF ImageInv, Disjoint, c
  <2>3. \A x \in Slots(I, g) : x \in Nat /\ x \in DOMAIN I.idx /\ g <= x /\ x < g + I.hdr[g].length
    BY <2>1, Regions, CellFacts
  <2>4. \A x \in Slots(I, g) : x \notin Slots(M, h) /\ x # slot
    <3>1. \A x \in Slots(M, h) : x \in Nat /\ h <= x /\ x < h + c.length
      BY <1>1, <1>2, <1>10, Regions, CellFacts DEF c
    <3>2. g \in Nat /\ I.hdr[g].length \in Nat /\ c.length \in Nat
      BY <1>1, <2>1, CellFacts DEF Cell
    <3> QED
      BY <1>1, <1>2, <2>2, <2>3, <3>1, <3>2
  <2>5. \A x \in Slots(I, g) : J.idx[x] = I.idx[x]
    BY <1>5, <1>13, <2>3, <2>4
  <2>6. ASSUME NEW w \in Nat, w < I.hdr[g].sbytes, Strings(g) + w \in DOMAIN I.str
        PROVE  Strings(g) + w \in DOMAIN J.str /\ J.str[Strings(g) + w] = I.str[Strings(g) + w]
    <3>1. Strings(g) + w # at
      <4>1. /\ g + 144 + w < g + I.hdr[g].length /\ Strings(g) = g + 144
            /\ I.hdr[g].length \in Nat /\ c.length \in Nat
        BY <1>1, <2>6, CellFacts, Regions DEF Cell
      <4> QED
        BY <1>1, <1>2, <2>1, <2>2, <4>1
    <3> QED
      BY <1>5, <1>13, <2>6, <3>1
  <2> QED
    BY <2>1, <2>5, <2>6, KeptInPlace
<1>16. /\ J.len = I.len /\ DOMAIN J.hdr = DOMAIN I.hdr /\ J.hdr[h] = d
       /\ \A g \in DOMAIN I.hdr : J.hdr[g].length = I.hdr[g].length
  BY <1>3, <1>7, <1>13 DEF c
<1>17. Slots(J, h) = Slots(M, h) /\ bucket_indexes(J, h) = bucket_indexes(M, h)
       /\ bucket_nr_indexes(J, h) = bucket_nr_indexes(M, h)
  BY <1>13 DEF Slots, bucket_indexes, bucket_nr_indexes
<1>18. bucket_indexes(J, h) = bucket_indexes(I, h) - 4
  BY <1>2, <1>9, <1>17
<1>19. /\ J.hdr[h].name = I.hdr[h].name /\ J.hdr[h].mcount = I.hdr[h].mcount
       /\ J.hdr[h].sbytes = I.hdr[h].sbytes + PathLen[p]
  BY <1>3, <1>16 DEF c
<1>20. /\ \A x \in DOMAIN I.str : x # Strings(h) + I.hdr[h].sbytes => x \in DOMAIN J.str /\ J.str[x] = I.str[x]
       /\ Strings(h) + I.hdr[h].sbytes \in DOMAIN J.str
       /\ J.str[Strings(h) + I.hdr[h].sbytes] = p
  BY <1>5, <1>13 DEF at, c
<1>21. \A x, y \in Slots(J, h) : x < y => J.str[Strings(h) + J.idx[x]] <= J.str[Strings(h) + J.idx[y]]
  BY <1>13, <1>17
<1>22. Words(J, h) = Words(I, h) \cup {I.hdr[h].sbytes} /\ bucket_nr_indexes(J, h) = bucket_nr_indexes(I, h) + 1
  BY <1>9, <1>13, <1>14, <1>17 DEF c
<1> QED
  BY <1>15, <1>16, <1>18, <1>19, <1>20, <1>21, <1>22, Zenon DEF Entered

(* The turns of the restart loop, and what mlib_bucket_add() leaves: the   *)
(* bucket as it was, or longer, or longer and with the path in it.         *)
LEMMA KeptKept ==
  ASSUME NEW I, NEW h, NEW Q, NEW k, Kept(I, h, Q, k), NEW J, NEW g, Kept(Q, k, J, g)
  PROVE  Kept(I, h, J, g)
<1>1. \A w \in Nat : w < I.hdr[h].sbytes /\ Strings(h) + w \in DOMAIN I.str =>
        Strings(g) + w \in DOMAIN J.str /\ J.str[Strings(g) + w] = I.str[Strings(h) + w]
  BY DEF Kept
<1>2. /\ g \in DOMAIN J.hdr
      /\ J.hdr[g].name = I.hdr[h].name /\ J.hdr[g].mcount = I.hdr[h].mcount
      /\ J.hdr[g].sbytes = I.hdr[h].sbytes
      /\ bucket_nr_indexes(J, g) = bucket_nr_indexes(I, h)
      /\ \A i \in 0 .. bucket_nr_indexes(I, h) - 1 : bucket_index(J, g, i) = bucket_index(I, h, i)
  BY DEF Kept
<1> QED
  BY <1>1, <1>2 DEF Kept

LEMMA GrownStill ==
  ASSUME NEW I, ImageInv(I), NEW h \in DOMAIN I.hdr, NEW n \in Nat,
         NEW Q, ImageInv(Q), Grown(I, Q, h, n), NEW J, Grown(Q, J, h, 0)
  PROVE  Grown(I, J, h, n)
<1>1. \A k \in DOMAIN Q.hdr : MovedTo(h, 0, k) = k /\ I.len \in Nat /\ Q.hdr[k].length \in Nat
  BY CellFacts DEF MovedTo
<1>2. \A k \in DOMAIN I.hdr : MovedTo(h, n, k) \in DOMAIN Q.hdr
  BY DEF Grown
<1>3. /\ DOMAIN J.hdr = DOMAIN Q.hdr
      /\ \A k \in DOMAIN Q.hdr : Kept(Q, k, J, k) /\ J.hdr[k].length = Q.hdr[k].length
  BY <1>1 DEF Grown
<1>4. J.len = I.len + n
  BY DEF Grown, ImageInv, ImageTyped
<1>5. \A k \in DOMAIN I.hdr :
        /\ Kept(I, k, J, MovedTo(h, n, k))
        /\ J.hdr[MovedTo(h, n, k)].length = I.hdr[k].length + IF k = h THEN n ELSE 0
  BY <1>2, <1>3, KeptKept DEF Grown
<1> QED
  BY <1>3, <1>4, <1>5 DEF Grown

LEMMA AfterTurnsKeeps ==
  ASSUME NEW I, ImageInv(I), NEW h \in DOMAIN I.hdr, NEW j \in Nat, 128 * j < U32,
         NEW r \in AfterTurns(I, h, j)
  PROVE  Grown(I, r.img, h, 128 * j)
<1>1. CASE j = 0
  BY <1>1, GrownNone DEF AfterTurns, Result
<1>2. CASE j # 0
  <2>1. r \in bucket_expand(I, h, 128 * j) /\ 128 * j \in Nat /\ r.st \in {"ok", "moved"}
    BY <1>2, LayoutConstants DEF AfterTurns
  <2> QED
    BY <2>1, BucketExpandKeeps
<1> QED
  BY <1>1, <1>2

LEMMA BucketAddShape ==
  ASSUME NEW I, ImageInv(I), NEW h \in DOMAIN I.hdr, NEW p \in Paths,
         NEW r \in bucket_add(I, h, p)
  PROVE  \/ r = Result("refused", I) /\ bucket_contains(I, h, p)
         \/ /\ r.st \in {"ok", "moved"} /\ ~ bucket_contains(I, h, p)
            /\ \E n \in Nat : \E Q : ImageInv(Q) /\ Grown(I, Q, h, n) /\ Entered(Q, r.img, h, p)
         \/ /\ r.st \in {"refused", "unmapped"}
            /\ r.st = "refused" => r.img.len + 128 >= U32
            /\ \E n \in Nat : Grown(I, r.img, h, n)
<1> DEFINE k == Turns(I.hdr[h], PathLen[p])
<1>1. /\ I.hdr[h] \in Cell /\ 16 + I.hdr[h].sbytes < I.hdr[h].ioff
      /\ PathLen[p] \in Nat /\ PathLen[p] + 1024 < U32
  BY CellFacts, PathsAssumption, SizesAssumption
<1>2. /\ k \in Nat /\ 128 * k < PathLen[p] + 132
      /\ 16 + I.hdr[h].sbytes + PathLen[p] < I.hdr[h].ioff + 128 * k - 4
  BY <1>1, TurnsFacts
<1>3. \/ r = Result("refused", I) /\ bucket_contains(I, h, p)
      \/ /\ ~ bucket_contains(I, h, p)
         /\ \E q \in AfterTurns(I, h, k) : \E J \in Placed(q.img, h, p) : r = Result(q.st, J)
      \/ \E j \in 0 .. k - 1 : r \in FailedTurn(I, h, j)
  <2> HIDE DEF k
  <2>1. \/ r = Result("refused", I) /\ bucket_contains(I, h, p)
        \/ ~ bucket_contains(I, h, p) /\ r \in AddedAfter(I, h, p, k)
        \/ r \in StuckBefore(I, h, k)
    BY Zenon DEF bucket_add, k
  <2> QED
    BY <2>1 DEF AddedAfter, StuckBefore
<1> HIDE DEF k
<1>4. ASSUME NEW q \in AfterTurns(I, h, k), NEW J \in Placed(q.img, h, p), r = Result(q.st, J)
      PROVE  /\ r.st \in {"ok", "moved"}
             /\ \E n \in Nat : \E Q : ImageInv(Q) /\ Grown(I, Q, h, n) /\ Entered(Q, r.img, h, p)
  <2>1. 128 * k < U32 /\ 128 * k \in Nat
    BY <1>1, <1>2, SizesAssumption
  <2>2. /\ q.st \in {"ok", "moved"} /\ ImageInv(q.img) /\ h \in DOMAIN q.img.hdr
        /\ q.img.hdr[h].ioff = I.hdr[h].ioff + 128 * k
        /\ q.img.hdr[h].sbytes = I.hdr[h].sbytes
        /\ Grown(I, q.img, h, 128 * k)
    BY <1>2, <2>1, AfterTurnsSafe, AfterTurnsKeeps
  <2>3. 16 + q.img.hdr[h].sbytes + PathLen[p] < q.img.hdr[h].ioff - 4
    BY <1>1, <1>2, <2>2, CellFacts
  <2>4. Entered(q.img, J, h, p)
    BY <2>2, <2>3, PlacedKeeps
  <2>5. r.st = q.st /\ r.img = J
    BY <1>4 DEF Result
  <2> QED
    BY <2>1, <2>2, <2>4, <2>5
<1>5. ASSUME NEW j \in 0 .. k - 1, r \in FailedTurn(I, h, j)
      PROVE  /\ r.st \in {"refused", "unmapped"} /\ \E n \in Nat : Grown(I, r.img, h, n)
             /\ r.st = "refused" => r.img.len + 128 >= U32
  <2>1. j \in Nat /\ 128 * j < U32 /\ 128 \in Nat /\ 128 < U32 /\ 128 * j \in Nat
    BY <1>1, <1>2, SizesAssumption
  <2>2. PICK q \in AfterTurns(I, h, j) :
          r \in bucket_expand(q.img, h, 128) /\ r.st \in {"refused", "unmapped"}
    BY <1>5, LayoutConstants DEF FailedTurn
  <2>3. ImageInv(q.img) /\ h \in DOMAIN q.img.hdr /\ Grown(I, q.img, h, 128 * j)
    BY <2>1, AfterTurnsSafe, AfterTurnsKeeps
  <2>4. Grown(q.img, r.img, h, 0)
    BY <2>1, <2>2, <2>3, BucketExpandKeeps
  <2>5. Grown(I, r.img, h, 128 * j)
    BY <2>1, <2>3, <2>4, GrownStill
  <2>6. ASSUME r.st = "refused" PROVE r.img.len + 128 >= U32
    <3>1. q.img.len + 128 >= U32
      BY <2>1, <2>2, <2>3, <2>6, BucketExpandRefused
    <3>2. r.img.len = q.img.len /\ q.img.len \in Nat
      BY <2>3, <2>4 DEF Grown, ImageInv, ImageTyped
    <3> QED
      BY <3>1, <3>2
  <2> QED
    BY <2>1, <2>2, <2>5, <2>6
<1> QED
  BY <1>3, <1>4, <1>5

(* Counting a path touches neither string nor word. *)
LEMMA CountedKeeps ==
  ASSUME NEW I, ImageInv(I), NEW h \in DOMAIN I.hdr, NEW J, J = Counted(I, h)
  PROVE  /\ J.len = I.len /\ J.str = I.str /\ J.idx = I.idx /\ DOMAIN J.hdr = DOMAIN I.hdr
         /\ \A o \in DOMAIN I.hdr :
              /\ J.hdr[o].name = I.hdr[o].name /\ J.hdr[o].length = I.hdr[o].length
              /\ J.hdr[o].blen = I.hdr[o].blen /\ J.hdr[o].ioff = I.hdr[o].ioff
              /\ J.hdr[o].sbytes = I.hdr[o].sbytes
              /\ J.hdr[o].mcount = I.hdr[o].mcount + IF o = h THEN 1 ELSE 0
<1> DEFINE c == I.hdr[h]
           d == [c EXCEPT !.mcount = @ + 1]
<1>1. /\ J.str = I.str /\ J.idx = I.idx /\ J.len = I.len /\ J.hdr = [I.hdr EXCEPT ![h] = d]
  BY DEF Counted, SetCell, ImageInv, ImageTyped
<1>2. /\ d.blen = c.blen /\ d.ioff = c.ioff /\ d.sbytes = c.sbytes /\ d.name = c.name
      /\ d.length = c.length /\ d.mcount = c.mcount + 1
  BY CellFacts DEF Cell
<1>3. \A o \in DOMAIN I.hdr : I.hdr[o].mcount \in Nat
  BY CellFacts DEF Cell
<1> HIDE DEF d
<1>4. DOMAIN J.hdr = DOMAIN I.hdr /\ J.hdr[h] = d /\ \A o \in DOMAIN I.hdr : o # h => J.hdr[o] = I.hdr[o]
  BY <1>1 DEF ImageInv, ImageTyped
<1> QED
  BY <1>1, <1>2, <1>3, <1>4

-----------------------------------------------------------------------------

(* A playlist is made or removed. *)

LEMMA WithPlaylistKeeps ==
  ASSUME NEW I, ImageInv(I), NEW at, at \notin DOMAIN I.hdr, NEW n,
         NEW J, J = WithPlaylist(I, at, n)
  PROVE  /\ J.len = I.len /\ DOMAIN J.hdr = DOMAIN I.hdr \cup {at}
         /\ \A g \in DOMAIN I.hdr : Kept(I, g, J, g) /\ J.hdr[g].length = I.hdr[g].length
         /\ J.hdr[at] = NewPlaylist(n) /\ bucket_nr_indexes(J, at) = 0
<1>1. PICK c : c = NewPlaylist(n)
  OBVIOUS
<1>2. c.blen = 128 /\ c.ioff = 128
  BY <1>1, LayoutConstants DEF NewPlaylist
<1>3. J.len = I.len /\ J.str = I.str /\ J.idx = I.idx /\ J.hdr = Put(I.hdr, at, c)
  BY <1>1 DEF WithPlaylist, ImageInv, ImageTyped
<1>4. /\ J.hdr[at] = c /\ DOMAIN J.hdr = DOMAIN I.hdr \cup {at}
      /\ \A o \in DOMAIN I.hdr : J.hdr[o] = I.hdr[o]
  BY <1>3 DEF Put
<1>5. \A g \in DOMAIN I.hdr : Kept(I, g, J, g)
  BY <1>3, <1>4, KeptInPlace
<1>6. bucket_nr_indexes(J, at) = 0
  BY <1>2, <1>4, LayoutConstants DEF bucket_nr_indexes
<1> QED
  BY <1>1, <1>3, <1>4, <1>5, <1>6

(* What lies before the playlist closed over, and the stale copies at the  *)
(* end, are in place; what lay behind it has moved down whole.             *)
LEMMA ClosedKeeps ==
  ASSUME NEW I, ImageInv(I), NEW h \in DOMAIN I.hdr,
         NEW n, n = I.hdr[h].length, NEW J, J = Closed(I, h, h + n)
  PROVE  /\ \A g \in DOMAIN J.hdr : g < h \/ g >= I.len - n =>
              g \in DOMAIN I.hdr /\ Kept(I, g, J, g) /\ J.hdr[g] = I.hdr[g]
         /\ \A g \in DOMAIN J.hdr : ~ (g < h \/ g >= I.len - n) =>
              g + n \in DOMAIN I.hdr /\ Kept(I, g + n, J, g) /\ J.hdr[g] = I.hdr[g + n]
         /\ \A k \in DOMAIN I.hdr : /\ k < h => k \in DOMAIN J.hdr
                                    /\ k > h => k - n \in DOMAIN J.hdr /\ k - n >= h
<1>1. /\ h \in Nat /\ n \in Nat /\ I.len \in Nat /\ h + n <= I.len /\ h + n \in Nat
  BY CellFacts
<1>2. PICK H, S, X : /\ H = MovedDown(I.hdr, h, h + n, I.len)
                     /\ S = MovedDown(I.str, h, h + n, I.len)
                     /\ X = MovedDown(I.idx, h, h + n, I.len)
  OBVIOUS
<1>3. J = [I EXCEPT !.hdr = H, !.str = S, !.idx = X]
  BY <1>2 DEF Closed
<1>4. J.hdr = H /\ J.str = S /\ J.idx = X
  BY <1>3 DEF ImageInv, ImageTyped
<1>5. /\ DOMAIN H \subseteq Nat
      /\ \A x \in DOMAIN I.hdr : x < h \/ x >= I.len - n => x \in DOMAIN H
      /\ \A x \in DOMAIN I.hdr : h + n <= x /\ x < I.len => x - n \in DOMAIN H
      /\ \A o \in DOMAIN H : o < h \/ o >= I.len - n => o \in DOMAIN I.hdr /\ H[o] = I.hdr[o]
      /\ \A o \in DOMAIN H : ~ (o < h \/ o >= I.len - n) =>
           o + n >= h + n /\ o + n < I.len /\ o + n \in DOMAIN I.hdr /\ H[o] = I.hdr[o + n]
  <2>1. PICK f, e : f = I.hdr /\ e = h + n
    OBVIOUS
  <2>2. /\ f = [x \in DOMAIN f |-> f[x]] /\ DOMAIN f \subseteq Nat
        /\ e \in Nat /\ h <= e /\ e <= I.len /\ e - h = n /\ H = MovedDown(f, h, e, I.len)
    BY <1>1, <1>2, <2>1 DEF ImageInv, ImageTyped
  <2>3. /\ DOMAIN H \subseteq Nat
        /\ \A x \in DOMAIN f : x < h \/ x >= I.len - n => x \in DOMAIN H
        /\ \A x \in DOMAIN f : e <= x /\ x < I.len => x - n \in DOMAIN H
        /\ \A o \in DOMAIN H : o < h \/ o >= I.len - n => o \in DOMAIN f /\ H[o] = f[o]
        /\ \A o \in DOMAIN H : ~ (o < h \/ o >= I.len - n) =>
             o + n >= e /\ o + n < I.len /\ o + n \in DOMAIN f /\ H[o] = f[o + n]
    BY <1>1, <2>2, MovedDownCells
  <2> QED
    BY <2>1, <2>3, Zenon
<1>6. /\ \A x \in DOMAIN I.str :
           /\ x < h \/ x >= I.len - n => x \in DOMAIN S /\ S[x] = I.str[x]
           /\ h + n <= x /\ x < I.len => x - n \in DOMAIN S /\ S[x - n] = I.str[x]
      /\ \A x \in DOMAIN I.idx :
           /\ x < h \/ x >= I.len - n => x \in DOMAIN X /\ X[x] = I.idx[x]
           /\ h + n <= x /\ x < I.len => x - n \in DOMAIN X /\ X[x - n] = I.idx[x]
  <2>1. /\ I.str = [x \in DOMAIN I.str |-> I.str[x]] /\ DOMAIN I.str \subseteq Nat
        /\ I.idx = [x \in DOMAIN I.idx |-> I.idx[x]] /\ DOMAIN I.idx \subseteq Nat
    BY DEF ImageInv, ImageTyped
  <2>2. \A x \in DOMAIN I.str :
           /\ x < h \/ x >= I.len - n => x \in DOMAIN S /\ S[x] = I.str[x]
           /\ h + n <= x /\ x < I.len => x - n \in DOMAIN S /\ S[x - n] = I.str[x]
    BY <1>1, <1>2, <2>1, MovedDownKeeps
  <2>3. \A x \in DOMAIN I.idx :
           /\ x < h \/ x >= I.len - n => x \in DOMAIN X /\ X[x] = I.idx[x]
           /\ h + n <= x /\ x < I.len => x - n \in DOMAIN X /\ X[x - n] = I.idx[x]
    BY <1>1, <1>2, <2>1, MovedDownKeeps
  <2> QED
    BY <2>2, <2>3
<1>7. ASSUME NEW g \in DOMAIN H, g < h \/ g >= I.len - n
      PROVE  g \in DOMAIN I.hdr /\ Kept(I, g, J, g) /\ J.hdr[g] = I.hdr[g]
  <2>1. /\ g \in DOMAIN I.hdr /\ J.hdr[g] = I.hdr[g] /\ g \in Nat /\ I.hdr[g].length \in Nat
        /\ g \in DOMAIN J.hdr
    BY <1>4, <1>5, <1>7, CellFacts
  <2>2. g + I.hdr[g].length <= h \/ g >= I.len - n
    BY <1>7, <2>1 DEF ImageInv, Disjoint
  <2>3. \A x \in Slots(I, g) : J.idx[x] = I.idx[x]
    <3>1. \A x \in Slots(I, g) : /\ x \in DOMAIN I.idx /\ x \in Nat
                                 /\ g <= x /\ x < g + I.hdr[g].length
      BY <2>1, Regions, CellFacts
    <3>2. \A x \in Slots(I, g) : x < h \/ x >= I.len - n
      BY <1>1, <2>1, <2>2, <3>1
    <3> QED
      BY <1>4, <1>6, <3>1, <3>2
  <2>4. ASSUME NEW w \in Nat, w < I.hdr[g].sbytes, Strings(g) + w \in DOMAIN I.str
        PROVE  Strings(g) + w \in DOMAIN J.str /\ J.str[Strings(g) + w] = I.str[Strings(g) + w]
    <3>1. Strings(g) = g + 144 /\ g + 144 + w < g + I.hdr[g].length
      BY <2>1, <2>4, Regions, CellFacts
    <3>2. Strings(g) + w < h \/ Strings(g) + w >= I.len - n
      BY <1>1, <2>1, <2>2, <3>1
    <3> QED
      BY <1>4, <1>6, <2>4, <3>2
  <2> QED
    BY <2>1, <2>3, <2>4, KeptInPlace
<1>8. ASSUME NEW g \in DOMAIN H, ~ (g < h \/ g >= I.len - n)
      PROVE  g + n \in DOMAIN I.hdr /\ Kept(I, g + n, J, g) /\ J.hdr[g] = I.hdr[g + n]
  <2>1. PICK k : k = g + n
    OBVIOUS
  <2>2. /\ k \in DOMAIN I.hdr /\ J.hdr[g] = I.hdr[k] /\ g \in Nat /\ k \in Nat /\ g = k - n
        /\ h + n <= k /\ k + I.hdr[k].length <= I.len /\ I.hdr[k].length \in Nat
        /\ g \in DOMAIN J.hdr
    BY <1>1, <1>4, <1>5, <1>8, <2>1, CellFacts
  <2>3. /\ bucket_indexes(J, g) = bucket_indexes(I, k) + (0 - n)
        /\ bucket_nr_indexes(J, g) = bucket_nr_indexes(I, k)
    BY <1>1, <2>2, CellFacts, LayoutConstants DEF bucket_indexes, bucket_nr_indexes
  <2>4. ASSUME NEW x \in Slots(I, k) PROVE J.idx[x + (0 - n)] = I.idx[x]
    <3>1. x \in DOMAIN I.idx /\ x \in Nat /\ k <= x /\ x < k + I.hdr[k].length
      BY <2>2, Regions, CellFacts
    <3>2. h + n <= x /\ x < I.len /\ x + (0 - n) = x - n
      BY <1>1, <2>2, <3>1
    <3> QED
      BY <1>4, <1>6, <3>1, <3>2
  <2>5. 0 - n \in Int
    BY <1>1
  <2>6. ASSUME NEW w \in Nat, w < I.hdr[k].sbytes, Strings(k) + w \in DOMAIN I.str
        PROVE  Strings(g) + w \in DOMAIN J.str /\ J.str[Strings(g) + w] = I.str[Strings(k) + w]
    <3>1. PICK y : y = Strings(k) + w
      OBVIOUS
    <3>2. /\ y = k + 144 + w /\ k + 144 + w < k + I.hdr[k].length
          /\ Strings(g) + w = y - n
      BY <1>1, <2>2, <2>6, <3>1, Regions, CellFacts, LayoutConstants DEF Strings
    <3>3. h + n <= y /\ y < I.len /\ y \in DOMAIN I.str
      BY <1>1, <2>2, <2>6, <3>1, <3>2
    <3> QED
      BY <1>4, <1>6, <3>1, <3>2, <3>3
  <2>7. Kept(I, k, J, g)
    BY <2>2, <2>3, <2>4, <2>5, <2>6, KeptByMove
  <2> QED
    BY <2>1, <2>2, <2>7
<1>9. \A k \in DOMAIN I.hdr : /\ k < h => k \in DOMAIN H
                              /\ k > h => k - n \in DOMAIN H /\ k - n >= h
  <2> SUFFICES ASSUME NEW k \in DOMAIN I.hdr
               PROVE  /\ k < h => k \in DOMAIN H
                      /\ k > h => k - n \in DOMAIN H /\ k - n >= h
    OBVIOUS
  <2>1. k \in Nat /\ I.hdr[k].length \in Nat /\ k + I.hdr[k].length <= I.len /\ I.hdr[k].length > 0
    BY CellFacts
  <2>2. k > h => h + n <= k
    BY <1>1, <2>1 DEF ImageInv, Disjoint
  <2> QED
    BY <1>1, <1>5, <2>1, <2>2
<1> QED
  BY <1>4, <1>7, <1>8, <1>9

LEMMA CutKeeps ==
  ASSUME NEW I, ImageInv(I), NEW len \in Nat,
         \A o \in DOMAIN I.hdr : o < len => o + I.hdr[o].length <= len,
         NEW J, J = Cut(I, len)
  PROVE  /\ J.len = len
         /\ DOMAIN J.hdr = {o \in DOMAIN I.hdr : o < len}
         /\ \A g \in DOMAIN J.hdr : Kept(I, g, J, g) /\ J.hdr[g] = I.hdr[g]
<1>1. PICK H, S, X : H = CutAt(I.hdr, len) /\ S = CutAt(I.str, len) /\ X = CutAt(I.idx, len)
  OBVIOUS
<1>2. J = [I EXCEPT !.len = len, !.size = len, !.hdr = H, !.str = S, !.idx = X]
  BY <1>1 DEF Cut
<1>3. J.len = len /\ J.hdr = H /\ J.str = S /\ J.idx = X
  BY <1>2 DEF ImageInv, ImageTyped
<1>4. /\ DOMAIN H = {o \in DOMAIN I.hdr : o < len}
      /\ \A o \in DOMAIN H : H[o] = I.hdr[o]
      /\ \A x \in DOMAIN I.str : x < len => x \in DOMAIN S /\ S[x] = I.str[x]
      /\ \A x \in DOMAIN I.idx : x < len => x \in DOMAIN X /\ X[x] = I.idx[x]
  BY <1>1 DEF CutAt
<1>5. ASSUME NEW g \in DOMAIN H PROVE Kept(I, g, J, g) /\ J.hdr[g] = I.hdr[g]
  <2>1. /\ g \in DOMAIN I.hdr /\ J.hdr[g] = I.hdr[g] /\ g + I.hdr[g].length <= len
        /\ g \in Nat /\ I.hdr[g].length \in Nat /\ g \in DOMAIN J.hdr
    BY <1>3, <1>4, CellFacts
  <2>2. \A x \in Slots(I, g) : J.idx[x] = I.idx[x]
    <3>1. \A x \in Slots(I, g) : x \in DOMAIN I.idx /\ x < len
      BY <2>1, Regions, CellFacts
    <3> QED
      BY <1>3, <1>4, <3>1
  <2>3. ASSUME NEW w \in Nat, w < I.hdr[g].sbytes, Strings(g) + w \in DOMAIN I.str
        PROVE  Strings(g) + w \in DOMAIN J.str /\ J.str[Strings(g) + w] = I.str[Strings(g) + w]
    <3>1. Strings(g) + w < len
      BY <2>1, <2>3, Regions, CellFacts
    <3> QED
      BY <1>3, <1>4, <2>3, <3>1
  <2> QED
    BY <2>1, <2>2, <2>3, KeptInPlace
<1> QED
  BY <1>3, <1>4, <1>5

(* Image J is image I without playlist h: what lay behind it follows what  *)
(* lay before it.                                                          *)
MovedBack(h, n, k) == IF k < h THEN k ELSE k - n

Excised(I, J, h, n) ==
  /\ J.len = I.len - n
  /\ DOMAIN J.hdr = {MovedBack(h, n, k) : k \in DOMAIN I.hdr \ {h}}
  /\ \A k \in DOMAIN I.hdr \ {h} :
       /\ Kept(I, k, J, MovedBack(h, n, k))
       /\ J.hdr[MovedBack(h, n, k)].length = I.hdr[k].length

LEMMA ExcisedAfterCut ==
  ASSUME NEW I, ImageInv(I), NEW h \in DOMAIN I.hdr, NEW n, n = I.hdr[h].length,
         NEW M, M = Closed(I, h, h + n), NEW J, J = Cut(M, I.len - n)
  PROVE  Excised(I, J, h, n)
<1>1. /\ h \in Nat /\ n \in Nat /\ I.len \in Nat /\ h + n <= I.len /\ I.len - n \in Nat
  BY CellFacts
<1>2. /\ ImageInv(M) /\ M.len = I.len
      /\ \A o \in DOMAIN M.hdr : o < I.len - n => o + M.hdr[o].length <= I.len - n
  <2>1. ImageInv(M) /\ M.len = I.len
    BY ClosedSafe
  <2>2. \A o \in DOMAIN M.hdr : o < I.len - n => o + M.hdr[o].length <= I.len - n
    BY ClosedSafe, Zenon
  <2> QED
    BY <2>1, <2>2
<1>3. /\ J.len = I.len - n
      /\ DOMAIN J.hdr = {o \in DOMAIN M.hdr : o < I.len - n}
      /\ \A g \in DOMAIN J.hdr : Kept(M, g, J, g) /\ J.hdr[g] = M.hdr[g]
  <2>1. PICK l : l = I.len - n
    OBVIOUS
  <2>2. l \in Nat /\ J = Cut(M, l) /\ \A o \in DOMAIN M.hdr : o < l => o + M.hdr[o].length <= l
    BY <1>1, <1>2, <2>1
  <2>3. /\ J.len = l /\ DOMAIN J.hdr = {o \in DOMAIN M.hdr : o < l}
        /\ \A g \in DOMAIN J.hdr : Kept(M, g, J, g) /\ J.hdr[g] = M.hdr[g]
    BY <1>2, <2>2, CutKeeps
  <2> QED
    BY <2>1, <2>3
<1>4. /\ \A g \in DOMAIN M.hdr : g < h \/ g >= I.len - n =>
           g \in DOMAIN I.hdr /\ Kept(I, g, M, g) /\ M.hdr[g] = I.hdr[g]
      /\ \A g \in DOMAIN M.hdr : ~ (g < h \/ g >= I.len - n) =>
           g + n \in DOMAIN I.hdr /\ Kept(I, g + n, M, g) /\ M.hdr[g] = I.hdr[g + n]
      /\ \A k \in DOMAIN I.hdr : /\ k < h => k \in DOMAIN M.hdr
                                 /\ k > h => k - n \in DOMAIN M.hdr /\ k - n >= h
  <2>1. \A g \in DOMAIN M.hdr : g < h \/ g >= I.len - n =>
          g \in DOMAIN I.hdr /\ Kept(I, g, M, g) /\ M.hdr[g] = I.hdr[g]
    BY ClosedKeeps
  <2>2. \A g \in DOMAIN M.hdr : ~ (g < h \/ g >= I.len - n) =>
          g + n \in DOMAIN I.hdr /\ Kept(I, g + n, M, g) /\ M.hdr[g] = I.hdr[g + n]
    BY ClosedKeeps
  <2>3. \A k \in DOMAIN I.hdr : /\ k < h => k \in DOMAIN M.hdr
                                /\ k > h => k - n \in DOMAIN M.hdr /\ k - n >= h
    BY ClosedKeeps
  <2> QED
    BY <2>1, <2>2, <2>3
<1>5. ASSUME NEW k \in DOMAIN I.hdr \ {h}
      PROVE  /\ Kept(I, k, J, MovedBack(h, n, k))
             /\ J.hdr[MovedBack(h, n, k)].length = I.hdr[k].length
  <2>1. k \in Nat /\ k # h /\ k < I.len /\ I.hdr[k].length \in Nat
        /\ (k < h => k < I.len - n)
    BY <1>1, <1>5, CellFacts
  <2>2. CASE k < h
    <3>1. k \in DOMAIN M.hdr /\ k \in DOMAIN J.hdr /\ MovedBack(h, n, k) = k
      BY <1>1, <1>3, <1>4, <1>5, <2>1, <2>2 DEF MovedBack
    <3>2. Kept(I, k, M, k) /\ M.hdr[k] = I.hdr[k] /\ Kept(M, k, J, k) /\ J.hdr[k] = M.hdr[k]
      BY <1>3, <1>4, <2>2, <3>1
    <3> QED
      BY <3>1, <3>2, KeptKept
  <2>3. CASE k > h
    <3>1. PICK g : g = k - n
      OBVIOUS
    <3>2. /\ g \in DOMAIN M.hdr /\ g >= h /\ g < I.len - n /\ g + n = k /\ MovedBack(h, n, k) = g
          /\ g \in Int
      BY <1>1, <1>4, <1>5, <2>1, <2>3, <3>1, CellFacts DEF MovedBack
    <3>3. Kept(I, k, M, g) /\ M.hdr[g] = I.hdr[k] /\ Kept(M, g, J, g) /\ J.hdr[g] = M.hdr[g]
      BY <1>1, <1>3, <1>4, <3>2
    <3> QED
      BY <3>2, <3>3, KeptKept
  <2> QED
    BY <1>1, <2>1, <2>2, <2>3
<1>6. ASSUME NEW g \in DOMAIN J.hdr
      PROVE  \E k \in DOMAIN I.hdr \ {h} : g = MovedBack(h, n, k)
  <2>1. g \in DOMAIN M.hdr /\ g < I.len - n /\ g \in Nat
    BY <1>2, <1>3, CellFacts
  <2>2. CASE g < h
    BY <1>1, <1>4, <2>1, <2>2 DEF MovedBack
  <2>3. CASE ~ (g < h)
    <3>1. PICK k : k = g + n
      OBVIOUS
    <3>2. k \in DOMAIN I.hdr /\ k \in Nat /\ g = k - n
      BY <1>1, <1>4, <2>1, <2>3, <3>1
    <3>3. n > 0
      BY CellFacts
    <3>4. k > h /\ k # h /\ MovedBack(h, n, k) = g
      BY <1>1, <2>1, <2>3, <3>1, <3>2, <3>3 DEF MovedBack
    <3> QED
      BY <3>2, <3>4
  <2> QED
    BY <2>2, <2>3
<1>7. DOMAIN J.hdr = {MovedBack(h, n, k) : k \in DOMAIN I.hdr \ {h}}
  <2>1. \A k \in DOMAIN I.hdr \ {h} : MovedBack(h, n, k) \in DOMAIN J.hdr
    BY <1>5 DEF Kept
  <2> QED
    BY <1>6, <2>1
<1> QED
  BY <1>3, <1>5, <1>7 DEF Excised

(* What mlib_delete_playlist() leaves.  An ftruncate() that fails leaves   *)
(* the memmove done and the library as long as it was.                     *)
LEMMA DeletePlaylistShape ==
  ASSUME NEW I, ImageInv(I), NEW m, NEW r \in delete_playlist(I, m)
  PROVE  \/ r = Result("fail", I) /\ find_playlist(I, m) = {}
         \/ \E h \in find_playlist(I, m) :
              \/ r.st = "ok" /\ Excised(I, r.img, h, I.hdr[h].length)
              \/ /\ r.st = "fail" /\ "ftruncate" \in Faults
                 /\ r.img = Closed(I, h, h + I.hdr[h].length)
<1>1. CASE find_playlist(I, m) = {}
  BY <1>1 DEF delete_playlist
<1>2. CASE find_playlist(I, m) # {}
  <2>1. PICK h \in find_playlist(I, m) : r \in library_excise(I, h, h + I.hdr[h].length)
    BY <1>2 DEF delete_playlist
  <2>2. h \in DOMAIN I.hdr
    BY FindPlaylistFacts
  <2>3. PICK n, M, l : n = I.hdr[h].length /\ M = Closed(I, h, h + n) /\ l = I.len - n
    OBVIOUS
  <2>4. /\ h \in Nat /\ n \in Nat /\ I.len \in Nat /\ h + n <= I.len /\ h >= 1024
        /\ h + n - h = n /\ M.len = I.len
    BY <2>2, <2>3, CellFacts, ClosedSafe
  <2>5. r \in library_trunc(M, l)
    BY <2>1, <2>3, <2>4 DEF library_excise
  <2>6. ~ (l < HeaderSize \/ l > M.len)
    BY <2>3, <2>4, LayoutConstants
  <2>7. \/ r = Result("fail", M) /\ "ftruncate" \in Faults
        \/ r = Result("ok", Cut(M, l))
    BY <2>5, <2>6 DEF library_trunc, Fault
  <2>8. Excised(I, Cut(M, l), h, n)
    BY <2>2, <2>3, ExcisedAfterCut
  <2> QED
    BY <2>3, <2>7, <2>8 DEF Result
<1> QED
  BY <1>1, <1>2

(* What mlib_start_playlist() leaves: nothing done, the library longer and *)
(* nothing in the room, or the new playlist in it.                         *)
LEMMA StartPlaylistShape ==
  ASSUME NEW I, ImageInv(I), NEW n \in Names, NEW r \in start_playlist(I, n)
  PROVE  \/ r = Result("fail", I) /\ find_playlist(I, n) # {}
         \/ /\ find_playlist(I, n) = {}
            /\ \E Q : /\ ImageInv(Q) /\ Q.hdr = I.hdr /\ Q.str = I.str /\ Q.idx = I.idx
                      /\ \/ /\ r.st \in {"ok", "fail"} /\ Q.len = I.len + 272
                            /\ r.img = WithPlaylist(Q, I.len, n)
                         \/ /\ r.st \in {"ok", "fail", "killed", "wild"} /\ r.img = Q
                            /\ Q.len = I.len + 272
                            /\ \E q \in library_expand(I, I.len + 272) : q.st = "moved" /\ q.img = Q
                         \/ /\ r.st \in {"fail", "unmapped"} /\ r.img = Q /\ Q.len = I.len
                            /\ r.st = "fail" => I.len + 272 >= U32
<1>1. CASE find_playlist(I, n) # {}
  BY <1>1 DEF start_playlist
<1>2. CASE find_playlist(I, n) = {}
  <2> DEFINE newlen == Add32(I.len, PlistSize + Growth)
  <2>1. newlen \in Nat /\ newlen < U32 /\ (newlen > I.len => newlen = I.len + 272)
    BY NoWrap, SizesAssumption, LayoutConstants
  <2> HIDE DEF newlen
  <2>2. \A q \in library_expand(I, newlen) : q.st \in InnerStates
    BY <2>1, ExpandSafe
  <2>3. PICK q \in library_expand(I, newlen) :
          \/ q.st \in {"ok", "moved"} /\ r \in sync_library(WithPlaylist(q.img, I.len, n))
          \/ q.st = "moved" /\ r \in {Result("killed", q.img), Result("wild", q.img)}
          \/ q.st = "moved" /\ r \in sync_library(q.img)
          \/ q.st = "refused" /\ r = Result("fail", q.img)
          \/ q.st = "unmapped" /\ r = q
    BY <1>2, <2>2 DEF start_playlist, newlen, InnerStates
  <2>4. PICK Q : Q = q.img
    OBVIOUS
  <2>5. /\ ImageInv(Q) /\ Q.hdr = I.hdr /\ Q.str = I.str /\ Q.idx = I.idx
        /\ q.st \in {"ok", "moved"} => Q.len = I.len + 272 /\ newlen = I.len + 272
        /\ q.st \in {"refused", "unmapped"} => Q.len = I.len
    BY <2>1, <2>4, ExpandSafe, ExpandKeeps
  <2>12. q.st = "refused" => I.len + 272 >= U32
    BY LayoutConstants, ExpandRefused DEF newlen
  <2>6. CASE q.st \in {"ok", "moved"} /\ r \in sync_library(WithPlaylist(Q, I.len, n))
    <3>1. r.st \in {"ok", "fail"} /\ r.img = WithPlaylist(Q, I.len, n)
      BY <2>6 DEF sync_library, Fault, Result
    <3> QED
      BY <1>2, <2>5, <2>6, <3>1
  <2>7. CASE q.st = "moved" /\ r.img = Q /\ r.st \in {"ok", "fail", "killed", "wild"}
    BY <1>2, <2>4, <2>5, <2>7
  <2>8. CASE /\ q.st \in {"refused", "unmapped"} /\ r.img = Q /\ r.st \in {"fail", "unmapped"}
             /\ r.st = "fail" => q.st = "refused"
    BY <1>2, <2>5, <2>8, <2>12
  <2>9. CASE q.st = "moved" /\ r \in {Result("killed", Q), Result("wild", Q)}
    <3>1. r.img = Q /\ r.st \in {"killed", "wild"}
      BY <2>9 DEF Result
    <3> QED
      BY <2>7, <2>9, <3>1
  <2>10. CASE q.st = "moved" /\ r \in sync_library(Q)
    <3>1. r.img = Q /\ r.st \in {"ok", "fail"}
      BY <2>10 DEF sync_library, Fault, Result
    <3> QED
      BY <2>7, <2>10, <3>1
  <2>11. CASE (q.st = "refused" /\ r = Result("fail", Q)) \/ (q.st = "unmapped" /\ r = q)
    <3>1. r.img = Q /\ r.st \in {"fail", "unmapped"} /\ (r.st = "fail" => q.st = "refused")
      BY <2>4, <2>11 DEF Result
    <3> QED
      BY <2>8, <2>11, <3>1
  <2> QED
    BY <2>3, <2>4, <2>6, <2>9, <2>10, <2>11
<1> QED
  BY <1>1, <1>2

-----------------------------------------------------------------------------

(* The strings of every playlist stay sound. *)

LEMMA FromSound ==
  ASSUME NEW I, ImageInv(I), AllSound(I), NEW J,
         \A g \in DOMAIN J.hdr : \E k \in DOMAIN I.hdr : Kept(I, k, J, g)
  PROVE  AllSound(J)
BY KeptFacts DEF AllSound

LEMMA GrownSound ==
  ASSUME NEW I, ImageInv(I), AllSound(I), NEW h, NEW n, NEW J, Grown(I, J, h, n)
  PROVE  AllSound(J)
<1>1. \A g \in DOMAIN J.hdr : \E k \in DOMAIN I.hdr : Kept(I, k, J, g)
  BY DEF Grown
<1> QED
  BY <1>1, FromSound

LEMMA EnteredSound ==
  ASSUME NEW I, ImageInv(I), AllSound(I), NEW h \in DOMAIN I.hdr, NEW p \in Paths,
         NEW J, Entered(I, J, h, p)
  PROVE  AllSound(J)
<1> DEFINE s == I.hdr[h].sbytes
<1>1. /\ DOMAIN J.hdr = DOMAIN I.hdr /\ \A g \in DOMAIN I.hdr : g # h => Kept(I, g, J, g)
      /\ J.hdr[h].sbytes = s + PathLen[p] /\ Words(J, h) = Words(I, h) \cup {s}
      /\ \A x \in DOMAIN I.str : x # Strings(h) + s => x \in DOMAIN J.str /\ J.str[x] = I.str[x]
      /\ Strings(h) + s \in DOMAIN J.str /\ J.str[Strings(h) + s] = p
  BY DEF Entered
<1>2. s \in Nat /\ PathLen[p] \in Nat /\ PathLen[p] > 0 /\ h \in Nat /\ Strings(h) = h + 144
  BY CellFacts, Regions, PathsAssumption
<1>3. ASSUME NEW w \in Words(I, h)
      PROVE  /\ w \in Nat /\ w < s /\ Strings(h) + w \in DOMAIN J.str
             /\ EndOf(J, h, w) = EndOf(I, h, w)
             /\ EndOf(I, h, w) \in Nat /\ EndOf(I, h, w) <= s
  <2>1. BucketSound(I, h)
    BY DEF AllSound
  <2>2. /\ w \in Nat /\ w < s /\ Strings(h) + w \in DOMAIN I.str
        /\ EndOf(I, h, w) \in Nat /\ EndOf(I, h, w) <= s
    BY <2>1, WordFacts DEF BucketSound
  <2>3. Strings(h) + w # Strings(h) + s
    BY <1>2, <2>2
  <2> QED
    BY <1>1, <2>2, <2>3 DEF EndOf
<1>4. EndOf(J, h, s) = s + PathLen[p]
  BY <1>1 DEF EndOf
<1>5. \A v, w \in Words(I, h) : v < w => EndOf(I, h, v) <= w
  BY DEF AllSound, BucketSound
<1> HIDE DEF s
<1>6. \A w \in Words(J, h) : Strings(h) + w \in DOMAIN J.str /\ EndOf(J, h, w) <= J.hdr[h].sbytes
  BY <1>1, <1>2, <1>3, <1>4
<1>7. \A v, w \in Words(J, h) : v < w => EndOf(J, h, v) <= w
  BY <1>1, <1>2, <1>3, <1>5
<1>8. BucketSound(J, h)
  BY <1>6, <1>7 DEF BucketSound
<1>9. \A g \in DOMAIN I.hdr : g # h => BucketSound(J, g)
  BY <1>1, KeptFacts DEF AllSound
<1> QED
  BY <1>1, <1>8, <1>9 DEF AllSound

LEMMA BucketAddSound ==
  ASSUME NEW I, ImageInv(I), AllSound(I), NEW h \in DOMAIN I.hdr, NEW p \in Paths,
         NEW r \in bucket_add(I, h, p)
  PROVE  AllSound(r.img)
<1>1. CASE r = Result("refused", I)
  BY <1>1 DEF Result
<1>2. ASSUME NEW n \in Nat, NEW Q, ImageInv(Q), Grown(I, Q, h, n), Entered(Q, r.img, h, p)
      PROVE  AllSound(r.img)
  <2>1. h \in DOMAIN Q.hdr
    <3>1. MovedTo(h, n, h) = h
      BY CellFacts DEF MovedTo
    <3> QED
      BY <1>2, <3>1 DEF Grown
  <2> QED
    BY <1>2, <2>1, GrownSound, EnteredSound
<1>3. ASSUME NEW n \in Nat, Grown(I, r.img, h, n) PROVE AllSound(r.img)
  BY <1>3, GrownSound
<1> QED
  BY <1>1, <1>2, <1>3, BucketAddShape

LEMMA CountedSound ==
  ASSUME NEW I, ImageInv(I), AllSound(I), NEW h \in DOMAIN I.hdr
  PROVE  AllSound(Counted(I, h))
<1>1. PICK J : J = Counted(I, h)
  OBVIOUS
<1>2. /\ J.str = I.str /\ J.idx = I.idx /\ DOMAIN J.hdr = DOMAIN I.hdr
      /\ \A o \in DOMAIN I.hdr : /\ J.hdr[o].blen = I.hdr[o].blen /\ J.hdr[o].ioff = I.hdr[o].ioff
                                 /\ J.hdr[o].sbytes = I.hdr[o].sbytes
  BY <1>1, CountedKeeps
<1>3. \A o \in DOMAIN I.hdr : Words(J, o) = Words(I, o)
  BY <1>2 DEF Words, Slots, bucket_indexes, bucket_nr_indexes
<1>4. AllSound(J)
  BY <1>2, <1>3 DEF AllSound, BucketSound, EndOf
<1> QED
  BY <1>1, <1>4

LEMMA AddPathToPlistSound ==
  ASSUME NEW I, ImageInv(I), AllSound(I), NEW h \in DOMAIN I.hdr, NEW p \in Paths,
         NEW r \in add_path_to_plist(I, h, p)
  PROVE  AllSound(r.img)
<1>1. PICK q \in bucket_add(I, h, p) : r.img = Counted(q.img, h) \/ r.img = q.img
  <2>1. \A q \in bucket_add(I, h, p) : q.st \in InnerStates
    BY BucketAddSafe
  <2> QED
    BY <2>1 DEF add_path_to_plist, InnerStates, Result
<1>2. ImageInv(q.img) /\ AllSound(q.img) /\ h \in DOMAIN q.img.hdr
  BY BucketAddSafe, BucketAddSound
<1> QED
  BY <1>1, <1>2, CountedSound

LEMMA AddToNamedSound ==
  ASSUME NEW I, ImageInv(I), AllSound(I), NEW n, NEW p \in Paths, NEW r \in AddToNamed(I, n, p)
  PROVE  AllSound(r.img)
<1>1. CASE find_playlist(I, n) = {}
  BY <1>1 DEF AddToNamed, Result
<1>2. CASE find_playlist(I, n) # {}
  <2>1. PICK h \in find_playlist(I, n) : r \in add_path_to_plist(I, h, p)
    BY <1>2 DEF AddToNamed
  <2> QED
    BY <2>1, FindPlaylistFacts, AddPathToPlistSound
<1> QED
  BY <1>1, <1>2

LEMMA AddPathSound ==
  ASSUME NEW I, ImageInv(I), AllSound(I), NEW n \in Names, NEW p \in Paths,
         NEW r \in add_path(I, n, p)
  PROVE  AllSound(r.img)
<1>1. \/ r \in AddToNamed(I, n, p)
      \/ r = Result("fail", I)
      \/ \E q \in AddToNamed(I, Global, p) :
           \/ r \in AddToNamed(q.img, n, p)
           \/ r = Result("killed", q.img)
           \/ r = q
  BY DEF add_path
<1> QED
  BY <1>1, AddToNamedSafe, AddToNamedSound DEF Result

LEMMA StartPlaylistSound ==
  ASSUME NEW I, ImageInv(I), AllSound(I), NEW n \in Names, NEW r \in start_playlist(I, n)
  PROVE  AllSound(r.img)
<1>1. CASE r = Result("fail", I)
  BY <1>1 DEF Result
<1>2. ASSUME NEW Q, ImageInv(Q), Q.hdr = I.hdr, Q.str = I.str, Q.idx = I.idx,
             r.img = Q \/ r.img = WithPlaylist(Q, I.len, n)
      PROVE  AllSound(r.img)
  <2>1. AllSound(Q)
    BY <1>2, KeptSelf, FromSound
  <2>2. CASE r.img = WithPlaylist(Q, I.len, n)
    <3>1. PICK J, at : J = r.img /\ at = I.len
      OBVIOUS
    <3>2. at \notin DOMAIN Q.hdr
      BY <1>2, <3>1, CellFacts
    <3>3. J = WithPlaylist(Q, at, n)
      BY <2>2, <3>1
    <3>4. /\ DOMAIN J.hdr = DOMAIN Q.hdr \cup {at} /\ bucket_nr_indexes(J, at) = 0
          /\ \A g \in DOMAIN Q.hdr : Kept(Q, g, J, g)
      BY <1>2, <3>2, <3>3, WithPlaylistKeeps
    <3>5. BucketSound(J, at)
      <4>1. Slots(J, at) = {}
        BY <3>4 DEF Slots
      <4> QED
        BY <4>1 DEF BucketSound, Words
    <3>6. \A g \in DOMAIN Q.hdr : BucketSound(J, g)
      BY <1>2, <2>1, <3>4, KeptFacts DEF AllSound
    <3> QED
      BY <3>1, <3>4, <3>5, <3>6 DEF AllSound
  <2> QED
    BY <1>2, <2>1, <2>2
<1> QED
  BY <1>1, <1>2, StartPlaylistShape

LEMMA ClosedFrom ==
  ASSUME NEW I, ImageInv(I), NEW h \in DOMAIN I.hdr, NEW J, J = Closed(I, h, h + I.hdr[h].length)
  PROVE  \A g \in DOMAIN J.hdr : \E k \in DOMAIN I.hdr : Kept(I, k, J, g)
<1>1. PICK n : n = I.hdr[h].length
  OBVIOUS
<1>2. \A g \in DOMAIN J.hdr : g < h \/ g >= I.len - n => g \in DOMAIN I.hdr /\ Kept(I, g, J, g)
  BY <1>1, ClosedKeeps
<1>3. \A g \in DOMAIN J.hdr : ~ (g < h \/ g >= I.len - n) =>
        g + n \in DOMAIN I.hdr /\ Kept(I, g + n, J, g)
  BY <1>1, ClosedKeeps
<1> QED
  BY <1>2, <1>3

LEMMA DeletePlaylistSound ==
  ASSUME NEW I, ImageInv(I), AllSound(I), NEW m, NEW r \in delete_playlist(I, m)
  PROVE  AllSound(r.img)
<1>1. CASE r = Result("fail", I)
  BY <1>1 DEF Result
<1>2. ASSUME NEW h \in find_playlist(I, m), Excised(I, r.img, h, I.hdr[h].length)
      PROVE  AllSound(r.img)
  <2>1. \A g \in DOMAIN r.img.hdr : \E k \in DOMAIN I.hdr : Kept(I, k, r.img, g)
    BY <1>2 DEF Excised
  <2> QED
    BY <2>1, FromSound
<1>3. ASSUME NEW h \in find_playlist(I, m), r.img = Closed(I, h, h + I.hdr[h].length)
      PROVE  AllSound(r.img)
  BY <1>3, FindPlaylistFacts, ClosedFrom, FromSound
<1> QED
  BY <1>1, <1>2, <1>3, DeletePlaylistShape

-----------------------------------------------------------------------------

LEMMA BlankSound == AllSound(BlankLibrary)
BY DEF AllSound, BlankLibrary, NoCells

-----------------------------------------------------------------------------

(***************************************************************************)
(* SortedOnce: the indexes of a bucket are strictly sorted by the strings  *)
(* they lead to.  The two halves need each other: bsearch in               *)
(* mlib_bucket_contains() finds a path if the bucket is sorted, and qsort  *)
(* in mlib_bucket_add() leaves the order strict if no path is added twice. *)
(***************************************************************************)

Sorted(I, h) ==
  \A i, j \in 0 .. bucket_nr_indexes(I, h) - 1 :
    i < j => bucket_string(I, h, i) < bucket_string(I, h, j)

AllSorted(I) == \A h \in DOMAIN I.hdr : Sorted(I, h)

(* Every set of natural numbers that has a member has a least one. *)
LEMMA Least ==
  ASSUME NEW S \in SUBSET Nat, S # {}
  PROVE  \E k \in S : \A j \in S : k <= j
<1> DEFINE R == OpToRel(<, Nat)
<1>1. IsWellFoundedOn(R, Nat)
  BY NatLessThanWellFounded
<1>2. \A j, k \in Nat : j < k => <<j, k>> \in R
  BY DEF OpToRel
<1> HIDE DEF R
<1>3. PICK k \in S : \A j \in S : ~ (<<j, k>> \in R)
  BY <1>1, WFMin
<1>4. \A j \in S : ~ (j < k)
  BY <1>2, <1>3
<1> QED
  BY <1>4

-----------------------------------------------------------------------------

(* Binary search over any sorted table of integers. *)

Windows(n) == (0 .. n) \X (0 .. n)

Half(w) == (w[1] + w[2]) \div 2

(* One probe, given what the search says of the two halves. *)
Probe(s, p, f, w) ==
  /\ w[1] < w[2]
  /\ \/ p = s[Half(w)]
     \/ p < s[Half(w)] /\ f[<<w[1], Half(w)>>]
     \/ p > s[Half(w)] /\ f[<<Half(w) + 1, w[2]>>]

(* What it should find: p is at one of the places of the window. *)
Within(s, p, w) == \E i \in 0 .. w[2] - 1 : w[1] <= i /\ s[i] = p

(* The middle of a window that is not empty lies in it. *)
LEMMA HalfFacts ==
  ASSUME NEW n \in Nat, NEW w \in Windows(n), w[1] < w[2]
  PROVE  /\ w = <<w[1], w[2]>> /\ w[1] \in Nat /\ w[2] \in Nat /\ w[2] <= n
         /\ Half(w) \in Nat /\ w[1] <= Half(w) /\ Half(w) < w[2]
         /\ <<w[1], Half(w)>> \in Windows(n) /\ <<Half(w) + 1, w[2]>> \in Windows(n)
<1>1. w = <<w[1], w[2]>> /\ w[1] \in 0 .. n /\ w[2] \in 0 .. n
  BY DEF Windows
<1>2. PICK l, u, m : l = w[1] /\ u = w[2] /\ m = Half(w)
  OBVIOUS
<1>3. l \in Nat /\ u \in Nat /\ u <= n /\ l < u /\ m = (l + u) \div 2
  BY <1>1, <1>2 DEF Half
<1>4. m \in Nat /\ l <= m /\ m < u
  BY <1>3
<1>5. <<l, m>> \in Windows(n) /\ <<m + 1, u>> \in Windows(n)
  BY <1>3, <1>4 DEF Windows
<1> QED
  BY <1>1, <1>2, <1>3, <1>4, <1>5

(* In a sorted table, a probe that is right about the halves is right. *)
LEMMA ProbeRight ==
  ASSUME NEW n \in Nat, NEW s, \A i \in 0 .. n - 1 : s[i] \in Int,
         \A i, j \in 0 .. n - 1 : i < j => s[i] < s[j],
         NEW p \in Int, NEW f, NEW w \in Windows(n), w[1] < w[2],
         f[<<w[1], Half(w)>>] <=> Within(s, p, <<w[1], Half(w)>>),
         f[<<Half(w) + 1, w[2]>>] <=> Within(s, p, <<Half(w) + 1, w[2]>>)
  PROVE  Probe(s, p, f, w) <=> Within(s, p, w)
<1>1. PICK l, u, m : l = w[1] /\ u = w[2] /\ m = Half(w)
  OBVIOUS
<1>2. /\ l \in Nat /\ u \in Nat /\ u <= n /\ m \in Nat /\ l <= m /\ m < u
      /\ w = <<l, u>>
  BY <1>1, HalfFacts
<1>3. /\ f[<<l, m>>] <=> \E i \in 0 .. m - 1 : l <= i /\ s[i] = p
      /\ f[<<m + 1, u>>] <=> \E i \in 0 .. u - 1 : m + 1 <= i /\ s[i] = p
  BY <1>1 DEF Within
<1>4. Within(s, p, w) <=> \E i \in 0 .. u - 1 : l <= i /\ s[i] = p
  BY <1>1 DEF Within
<1>5. Probe(s, p, f, w) <=> \/ p = s[m]
                            \/ p < s[m] /\ f[<<l, m>>]
                            \/ p > s[m] /\ f[<<m + 1, u>>]
  BY <1>1, <1>2 DEF Probe
<1>6. s[m] \in Int /\ m \in 0 .. u - 1
  BY <1>2
<1>7. ASSUME NEW i \in 0 .. u - 1, l <= i, s[i] = p
      PROVE  \/ p = s[m]
             \/ p < s[m] /\ i \in 0 .. m - 1
             \/ p > s[m] /\ m + 1 <= i
  <2>1. i \in 0 .. n - 1 /\ m \in 0 .. n - 1
    BY <1>2
  <2> QED
    BY <1>2, <1>7, <2>1
<1>8. Within(s, p, w) => Probe(s, p, f, w)
  BY <1>3, <1>4, <1>5, <1>7
<1>9. Probe(s, p, f, w) => Within(s, p, w)
  <2>1. CASE p = s[m]
    BY <1>2, <1>4, <1>6, <2>1
  <2>2. ASSUME NEW i \in 0 .. m - 1, l <= i, s[i] = p PROVE Within(s, p, w)
    BY <1>2, <1>4, <2>2
  <2>3. ASSUME NEW i \in 0 .. u - 1, m + 1 <= i, s[i] = p PROVE Within(s, p, w)
    BY <1>2, <1>4, <2>3
  <2> QED
    BY <1>3, <1>5, <2>1, <2>2, <2>3
<1> QED
  BY <1>8, <1>9

(* A window that is empty holds nothing. *)
LEMMA EmptyWindow ==
  ASSUME NEW s, NEW p, NEW n \in Nat, NEW w \in Windows(n), ~ w[1] < w[2]
  PROVE  ~ Within(s, p, w)
<1>1. w[1] \in Nat /\ w[2] \in Nat
  BY DEF Windows
<1> QED
  BY <1>1 DEF Within

(* So a function that probes every window says where p is: were it wrong   *)
(* about a window, it would be wrong about a smaller one.                  *)
LEMMA SearchRight ==
  ASSUME NEW n \in Nat, NEW s, \A i \in 0 .. n - 1 : s[i] \in Int,
         \A i, j \in 0 .. n - 1 : i < j => s[i] < s[j],
         NEW p \in Int, NEW f, \A w \in Windows(n) : f[w] = Probe(s, p, f, w)
  PROVE  \A w \in Windows(n) : f[w] <=> Within(s, p, w)
<1> DEFINE wrong == {w \in Windows(n) : ~ (f[w] <=> Within(s, p, w))}
           sizes == {w[2] - w[1] : w \in {x \in wrong : x[1] < x[2]}}
<1>1. \A w \in wrong : w[1] < w[2]
  BY EmptyWindow DEF Probe
<1>2. sizes \in SUBSET Nat
  BY DEF Windows
<1>3. CASE wrong = {}
  BY <1>3
<1>4. ASSUME wrong # {} PROVE FALSE
  <2>1. sizes # {}
    BY <1>1, <1>4
  <2>2. PICK k \in sizes : \A j \in sizes : k <= j
    BY <1>2, <2>1, Least
  <2>3. PICK w \in wrong : w[1] < w[2] /\ k = w[2] - w[1]
    BY <2>2
  <2>4. /\ w \in Windows(n) /\ w[1] \in Nat /\ w[2] \in Nat
        /\ Half(w) \in Nat /\ w[1] <= Half(w) /\ Half(w) < w[2]
        /\ <<w[1], Half(w)>> \in Windows(n) /\ <<Half(w) + 1, w[2]>> \in Windows(n)
    BY <2>3, HalfFacts
  <2>5. ASSUME NEW v \in Windows(n), v[2] - v[1] < w[2] - w[1], v[1] \in Nat, v[2] \in Nat
        PROVE  f[v] <=> Within(s, p, v)
    <3>1. v \in wrong => v[2] - v[1] \in sizes
      BY <1>1
    <3>2. k = w[2] - w[1] /\ \A j \in sizes : k <= j
      BY <2>2, <2>3
    <3> HIDE DEF sizes
    <3>3. v \notin wrong
      BY <2>4, <2>5, <3>1, <3>2
    <3> QED
      BY <3>3
  <2>6. /\ <<w[1], Half(w)>>[1] = w[1] /\ <<w[1], Half(w)>>[2] = Half(w)
        /\ <<Half(w) + 1, w[2]>>[1] = Half(w) + 1 /\ <<Half(w) + 1, w[2]>>[2] = w[2]
    OBVIOUS
  <2>7. /\ f[<<w[1], Half(w)>>] <=> Within(s, p, <<w[1], Half(w)>>)
        /\ f[<<Half(w) + 1, w[2]>>] <=> Within(s, p, <<Half(w) + 1, w[2]>>)
    <3>1. Half(w) - w[1] < w[2] - w[1] /\ w[2] - (Half(w) + 1) < w[2] - w[1] /\ Half(w) + 1 \in Nat
      BY <2>4
    <3> QED
      BY <2>4, <2>5, <2>6, <3>1
  <2>8. Probe(s, p, f, w) <=> Within(s, p, w)
    BY <2>3, <2>4, <2>7, ProbeRight
  <2> QED
    BY <2>3, <2>4, <2>8
<1> QED
  BY <1>3, <1>4

-----------------------------------------------------------------------------

(* The bucket's table. *)

LEMMA NrIndexes ==
  ASSUME NEW I, ImageInv(I), NEW h \in DOMAIN I.hdr
  PROVE  bucket_nr_indexes(I, h) \in Nat
BY CellFacts, LayoutConstants DEF bucket_nr_indexes

LEMMA StringAtIndex ==
  ASSUME NEW I, ImageInv(I), NEW h \in DOMAIN I.hdr, BucketSound(I, h),
         NEW i \in 0 .. bucket_nr_indexes(I, h) - 1
  PROVE  /\ bucket_index(I, h, i) \in Words(I, h)
         /\ bucket_string(I, h, i) \in Paths /\ bucket_string(I, h, i) \in Nat
<1>1. bucket_index(I, h, i) \in Words(I, h)
  BY WordsByIndex
<1>2. Strings(h) + bucket_index(I, h, i) \in DOMAIN I.str
  BY <1>1 DEF BucketSound
<1>3. bucket_string(I, h, i) \in Paths
  BY <1>2 DEF bucket_string, bucket_string_at, ImageInv, ImageTyped
<1> QED
  BY <1>1, <1>3, PathsAssumption

(* bsearch in mlib_bucket_contains() finds a path that is in a sorted      *)
(* bucket, and no other.                                                   *)
LEMMA ContainsRight ==
  ASSUME NEW I, ImageInv(I), NEW h \in DOMAIN I.hdr, BucketSound(I, h), Sorted(I, h),
         NEW p \in Paths
  PROVE  bucket_contains(I, h, p) <=> p \in Contents(I, h)
<1> DEFINE n == bucket_nr_indexes(I, h)
           s == [i \in 0 .. n - 1 |-> bucket_string(I, h, i)]
           Search(f) == [w \in (0 .. n) \X (0 .. n) |->
             LET mid == (w[1] + w[2]) \div 2
                 q == bucket_string(I, h, mid)
             IN /\ w[1] < w[2]
                /\ \/ p = q
                   \/ p < q /\ f[<<w[1], mid>>]
                   \/ p > q /\ f[<<mid + 1, w[2]>>]]
           F == [w \in Windows(n) |-> Within(s, p, w)]
<1>1. n \in Nat
  BY NrIndexes
<1>2. /\ p \in Int
      /\ \A i \in 0 .. n - 1 : bucket_string(I, h, i) \in Int
  BY StringAtIndex, PathsAssumption
<1>3. /\ \A i \in 0 .. n - 1 : s[i] = bucket_string(I, h, i) /\ s[i] \in Int
      /\ \A i, j \in 0 .. n - 1 : i < j => s[i] < s[j]
  BY <1>2 DEF Sorted
<1>4. bucket_contains(I, h, p) = (CHOOSE f : f = Search(f))[<<0, n>>]
  BY DEF bucket_contains
<1>5. \A f : Search(f) = [w \in Windows(n) |-> Search(f)[w]]
  BY DEF Windows
<1>6. ASSUME NEW f, NEW w \in Windows(n) PROVE Search(f)[w] = Probe(s, p, f, w)
  <2>1. Search(f)[w] =
          (/\ w[1] < w[2]
           /\ \/ p = bucket_string(I, h, Half(w))
              \/ p < bucket_string(I, h, Half(w)) /\ f[<<w[1], Half(w)>>]
              \/ p > bucket_string(I, h, Half(w)) /\ f[<<Half(w) + 1, w[2]>>])
    BY DEF Windows, Half
  <2>2. CASE ~ w[1] < w[2]
    <3> HIDE DEF Search
    <3> QED
      BY <2>1, <2>2 DEF Probe
  <2>3. CASE w[1] < w[2]
    <3>1. Half(w) \in 0 .. n - 1
      <4> HIDE DEF Search, s, n
      <4>1. Half(w) \in Nat /\ Half(w) < w[2] /\ w[2] \in Nat /\ w[2] <= n
        BY <1>1, <2>3, HalfFacts
      <4> QED
        BY <1>1, <4>1
    <3>2. s[Half(w)] = bucket_string(I, h, Half(w))
      BY <3>1
    <3> HIDE DEF Search, s
    <3> QED
      BY <2>1, <3>2 DEF Probe
  <2> QED
    BY <2>2, <2>3
<1> HIDE DEF Search, s, n
<1>7. F = Search(F)
  <2>1. ASSUME NEW w \in Windows(n) PROVE Probe(s, p, F, w) = F[w]
    <3>1. CASE ~ w[1] < w[2]
      <4>1. ~ Within(s, p, w) /\ ~ Probe(s, p, F, w)
        BY <1>1, <3>1, EmptyWindow DEF Probe
      <4> QED
        BY <4>1 DEF Probe, Within
    <3>2. CASE w[1] < w[2]
      <4>1. <<w[1], Half(w)>> \in Windows(n) /\ <<Half(w) + 1, w[2]>> \in Windows(n)
        BY <1>1, <3>2, HalfFacts
      <4>2. /\ F[<<w[1], Half(w)>>] <=> Within(s, p, <<w[1], Half(w)>>)
            /\ F[<<Half(w) + 1, w[2]>>] <=> Within(s, p, <<Half(w) + 1, w[2]>>)
        BY <4>1
      <4> HIDE DEF F
      <4>3. Probe(s, p, F, w) <=> Within(s, p, w)
        BY <1>1, <1>2, <1>3, <3>2, <4>2, ProbeRight
      <4> QED
        BY <4>3 DEF F, Probe, Within
    <3> QED
      BY <3>1, <3>2
  <2>2. \A w \in Windows(n) : Search(F)[w] = F[w]
    <3> HIDE DEF F
    <3> QED
      BY <1>6, <2>1
  <2>3. F = [w \in Windows(n) |-> F[w]]
    OBVIOUS
  <2> HIDE DEF F
  <2> QED
    BY <1>5, <2>2, <2>3
<1> HIDE DEF F
<1>8. PICK f : f = (CHOOSE g : g = Search(g))
  OBVIOUS
<1>9. f = Search(f)
  BY <1>7, <1>8
<1>10. \A w \in Windows(n) : f[w] = Probe(s, p, f, w)
  BY <1>6, <1>9
<1>11. \A w \in Windows(n) : f[w] <=> Within(s, p, w)
  BY <1>1, <1>2, <1>3, <1>10, SearchRight
<1>12. <<0, n>> \in Windows(n) /\ <<0, n>>[1] = 0 /\ <<0, n>>[2] = n
  BY <1>1 DEF Windows
<1>13. bucket_contains(I, h, p) <=> \E i \in 0 .. n - 1 : s[i] = p
  BY <1>1, <1>4, <1>8, <1>11, <1>12 DEF Within
<1> QED
  BY <1>3, <1>13 DEF Contents, n

-----------------------------------------------------------------------------

(* The order of a bucket that a path enters. *)

(* In a sorted bucket each index has a word of its own, ... *)
LEMMA SortedWords ==
  ASSUME NEW I, ImageInv(I), NEW h \in DOMAIN I.hdr, BucketSound(I, h), Sorted(I, h)
  PROVE  /\ IsFiniteSet(Words(I, h)) /\ Cardinality(Words(I, h)) = bucket_nr_indexes(I, h)
         /\ \A v, w \in Words(I, h) :
              v # w => I.str[Strings(h) + v] # I.str[Strings(h) + w]
<1> DEFINE n == bucket_nr_indexes(I, h)
           ix == [i \in 0 .. n - 1 |-> bucket_index(I, h, i)]
<1>1. n \in Nat
  BY NrIndexes
<1>2. Words(I, h) = {bucket_index(I, h, i) : i \in 0 .. n - 1}
  BY WordsByIndex
<1>3. \A i \in 0 .. n - 1 : /\ bucket_string(I, h, i) = I.str[Strings(h) + bucket_index(I, h, i)]
                            /\ bucket_string(I, h, i) \in Nat
  BY StringAtIndex DEF bucket_string, bucket_string_at
<1>4. \A i, j \in 0 .. n - 1 : i < j => bucket_string(I, h, i) < bucket_string(I, h, j)
  BY DEF Sorted
<1> HIDE DEF n
<1>5. \A i, j \in 0 .. n - 1 : i # j => bucket_string(I, h, i) # bucket_string(I, h, j)
  <2> SUFFICES ASSUME NEW i \in 0 .. n - 1, NEW j \in 0 .. n - 1, i # j
               PROVE  bucket_string(I, h, i) # bucket_string(I, h, j)
    OBVIOUS
  <2>1. i < j \/ j < i
    OBVIOUS
  <2> QED
    BY <1>3, <1>4, <2>1
<1>6. \A v, w \in Words(I, h) : v # w => I.str[Strings(h) + v] # I.str[Strings(h) + w]
  BY <1>2, <1>3, <1>5
<1>7. ix \in Surjection(0 .. n - 1, Words(I, h))
  BY <1>2 DEF Surjection
<1>8. ix \in Injection(0 .. n - 1, Words(I, h))
  BY <1>2, <1>3, <1>5 DEF Injection, IsInjective
<1>9. IsFiniteSet(0 .. n - 1) /\ Cardinality(0 .. n - 1) = n
  BY <1>1, FS_Interval
<1> HIDE DEF ix
<1>10. IsFiniteSet(Words(I, h)) /\ Cardinality(Words(I, h)) = n
  BY <1>7, <1>8, <1>9, FS_Surjection
<1> QED
  BY <1>6, <1>10 DEF n

(* ... and a bucket that has as many words as indexes repeats none. *)
LEMMA WordsApart ==
  ASSUME NEW I, NEW h, NEW n \in Nat, bucket_nr_indexes(I, h) = n,
         IsFiniteSet(Words(I, h)), Cardinality(Words(I, h)) = n,
         NEW i \in 0 .. n - 1, NEW j \in 0 .. n - 1, i # j
  PROVE  bucket_index(I, h, i) # bucket_index(I, h, j)
<1> DEFINE ix == [k \in 0 .. n - 1 |-> bucket_index(I, h, k)]
<1>1. Words(I, h) = {bucket_index(I, h, k) : k \in 0 .. n - 1}
  BY WordsByIndex
<1>2. ix \in Surjection(0 .. n - 1, Words(I, h))
  BY <1>1 DEF Surjection
<1>3. IsFiniteSet(0 .. n - 1) /\ Cardinality(0 .. n - 1) = n
  BY FS_Interval
<1> HIDE DEF ix
<1>4. ix \in Injection(0 .. n - 1, Words(I, h))
  BY <1>2, <1>3, FS_Surjection
<1>5. ix[i] # ix[j]
  BY <1>4 DEF Injection, IsInjective
<1> QED
  BY <1>5 DEF ix

(* A new path in a sorted bucket: qsort leaves the order strict. *)
LEMMA EnteredSorted ==
  ASSUME NEW I, ImageInv(I), NEW h \in DOMAIN I.hdr, BucketSound(I, h), Sorted(I, h),
         NEW p \in Paths, p \notin Contents(I, h),
         NEW J, ImageInv(J), BucketSound(J, h), Entered(I, J, h, p)
  PROVE  Sorted(J, h)
<1> DEFINE n == bucket_nr_indexes(I, h)
           s == I.hdr[h].sbytes
           S(w) == J.str[Strings(h) + w]
<1>1. /\ h \in DOMAIN J.hdr /\ n \in Nat /\ bucket_nr_indexes(J, h) = n + 1 /\ s \in Nat
      /\ h \in Nat /\ Strings(h) = h + 144
  BY NrIndexes, CellFacts, Regions DEF Entered
<1>2. /\ Words(J, h) = Words(I, h) \cup {s} /\ S(s) = p
      /\ \A x \in DOMAIN I.str : x # Strings(h) + s => J.str[x] = I.str[x]
      /\ \A x, y \in Slots(J, h) :
           x < y => J.str[Strings(h) + J.idx[x]] <= J.str[Strings(h) + J.idx[y]]
  BY DEF Entered
<1>3. \A w \in Words(I, h) : /\ w \in Nat /\ w < s /\ Strings(h) + w \in DOMAIN I.str
                             /\ S(w) = I.str[Strings(h) + w]
  BY <1>1, <1>2, WordFacts
<1>4. \A w \in Words(I, h) : I.str[Strings(h) + w] \in Contents(I, h)
  BY WordsByIndex DEF Contents, bucket_string, bucket_string_at
<1>5. /\ IsFiniteSet(Words(I, h)) /\ Cardinality(Words(I, h)) = n
      /\ \A v, w \in Words(I, h) : v # w => I.str[Strings(h) + v] # I.str[Strings(h) + w]
  BY SortedWords
<1> HIDE DEF n, s
<1>6. IsFiniteSet(Words(J, h)) /\ Cardinality(Words(J, h)) = n + 1
  BY <1>1, <1>2, <1>3, <1>5, FS_AddElement
<1>7. \A v, w \in Words(J, h) : v # w => S(v) # S(w)
  BY <1>2, <1>3, <1>4, <1>5
<1>8. ASSUME NEW i \in 0 .. n, NEW j \in 0 .. n, i < j
      PROVE  bucket_string(J, h, i) < bucket_string(J, h, j)
  <2>1. i \in 0 .. bucket_nr_indexes(J, h) - 1 /\ j \in 0 .. bucket_nr_indexes(J, h) - 1
    BY <1>1
  <2>2. /\ bucket_index(J, h, i) \in Words(J, h) /\ bucket_string(J, h, i) \in Nat
        /\ bucket_index(J, h, j) \in Words(J, h) /\ bucket_string(J, h, j) \in Nat
    BY <1>1, <2>1, StringAtIndex
  <2>3. bucket_index(J, h, i) # bucket_index(J, h, j)
    <3>1. n + 1 \in Nat /\ i \in 0 .. (n + 1) - 1 /\ j \in 0 .. (n + 1) - 1 /\ i # j
      BY <1>1, <1>8
    <3> QED
      BY <1>1, <1>6, <3>1, WordsApart
  <2>4. /\ bucket_string(J, h, i) = S(bucket_index(J, h, i))
        /\ bucket_string(J, h, j) = S(bucket_index(J, h, j))
    BY DEF bucket_string, bucket_string_at
  <2>5. bucket_string(J, h, i) # bucket_string(J, h, j)
    BY <1>7, <2>2, <2>3, <2>4
  <2>6. bucket_string(J, h, i) <= bucket_string(J, h, j)
    <3>1. PICK x, y : x = bucket_indexes(J, h) + IndexSize * i /\ y = bucket_indexes(J, h) + IndexSize * j
      OBVIOUS
    <3>2. x \in Slots(J, h) /\ y \in Slots(J, h) /\ x < y
      <4>1. x \in Slots(J, h) /\ y \in Slots(J, h)
        BY <2>1, <3>1 DEF Slots
      <4>2. bucket_indexes(J, h) \in Nat
        BY <1>1, Regions
      <4> QED
        BY <1>8, <3>1, <4>1, <4>2, LayoutConstants
    <3>3. bucket_index(J, h, i) = J.idx[x] /\ bucket_index(J, h, j) = J.idx[y]
      BY <3>1 DEF bucket_index
    <3> QED
      BY <1>2, <2>4, <3>2, <3>3
  <2> QED
    BY <2>2, <2>5, <2>6
<1> QED
  BY <1>1, <1>8 DEF Sorted

-----------------------------------------------------------------------------

(* Commands as small steps. *)

(* What one call of mlib_add_path_to_plist() leaves, if it is made at all. *)
OneAdd(I, J, n, p) ==
  \/ J = I
  \/ \E h \in find_playlist(I, n) : \E q \in bucket_add(I, h, p) :
       J = IF q.st = "ok" THEN Counted(q.img, h) ELSE q.img

(* mlib_add_path() makes at most two such calls, for .global first. *)
LEMMA AddToNamedStep ==
  ASSUME NEW I, ImageInv(I), NEW n, NEW p \in Paths, NEW r \in AddToNamed(I, n, p)
  PROVE  ImageInv(r.img) /\ OneAdd(I, r.img, n, p)
<1>1. ImageInv(r.img)
  BY AddToNamedSafe
<1>2. CASE find_playlist(I, n) = {}
  BY <1>1, <1>2 DEF AddToNamed, Result, OneAdd
<1>3. CASE find_playlist(I, n) # {}
  <2>1. PICK h \in find_playlist(I, n) : r \in add_path_to_plist(I, h, p)
    BY <1>3 DEF AddToNamed
  <2>2. PICK q \in bucket_add(I, h, p) : r.img = IF q.st = "ok" THEN Counted(q.img, h) ELSE q.img
    <3>1. \A q \in bucket_add(I, h, p) : q.st \in InnerStates
      BY FindPlaylistFacts, BucketAddSafe
    <3> QED
      BY <2>1, <3>1 DEF add_path_to_plist, InnerStates, Result
  <2> QED
    BY <1>1, <2>1, <2>2 DEF OneAdd
<1> QED
  BY <1>2, <1>3

LEMMA AddPathSteps ==
  ASSUME NEW I, ImageInv(I), NEW n \in Names, NEW p \in Paths, NEW r \in add_path(I, n, p)
  PROVE  \E K : /\ ImageInv(K) /\ OneAdd(I, K, Global, p)
               /\ ImageInv(r.img) /\ OneAdd(K, r.img, n, p)
<1>1. \/ r \in AddToNamed(I, n, p)
      \/ r = Result("fail", I)
      \/ \E q \in AddToNamed(I, Global, p) :
           \/ r \in AddToNamed(q.img, n, p)
           \/ r = Result("killed", q.img)
           \/ r = q
  BY DEF add_path
<1>2. \A K, m : OneAdd(K, K, m, p)
  BY DEF OneAdd
<1>3. CASE r \in AddToNamed(I, n, p) \/ r = Result("fail", I)
  BY <1>2, <1>3, AddToNamedStep DEF Result
<1>4. ASSUME NEW q \in AddToNamed(I, Global, p),
             r \in AddToNamed(q.img, n, p) \/ r = Result("killed", q.img) \/ r = q
      PROVE  \E K : /\ ImageInv(K) /\ OneAdd(I, K, Global, p)
                   /\ ImageInv(r.img) /\ OneAdd(K, r.img, n, p)
  <2>1. ImageInv(q.img) /\ OneAdd(I, q.img, Global, p)
    BY AddToNamedStep
  <2>2. ImageInv(r.img) /\ OneAdd(q.img, r.img, n, p)
    BY <1>2, <1>4, <2>1, AddToNamedStep DEF Result
  <2> QED
    BY <2>1, <2>2
<1> QED
  BY <1>1, <1>3, <1>4

-----------------------------------------------------------------------------

(* Strings that are sound and sorted, through every command. *)

Ordered(I) == \A h \in DOMAIN I.hdr : BucketSound(I, h) /\ Sorted(I, h)

LEMMA FromOrdered ==
  ASSUME NEW I, ImageInv(I), Ordered(I), NEW J,
         \A g \in DOMAIN J.hdr : \E k \in DOMAIN I.hdr : Kept(I, k, J, g)
  PROVE  Ordered(J)
<1> SUFFICES ASSUME NEW g \in DOMAIN J.hdr PROVE BucketSound(J, g) /\ Sorted(J, g)
  BY DEF Ordered
<1>1. PICK k \in DOMAIN I.hdr : Kept(I, k, J, g)
  OBVIOUS
<1>2. BucketSound(I, k) /\ Sorted(I, k)
  BY DEF Ordered
<1>3. /\ BucketSound(J, g)
      /\ \A i \in 0 .. bucket_nr_indexes(I, k) - 1 : bucket_string(J, g, i) = bucket_string(I, k, i)
  BY <1>1, <1>2, KeptFacts
<1>4. bucket_nr_indexes(J, g) = bucket_nr_indexes(I, k)
  BY <1>1 DEF Kept
<1> QED
  BY <1>2, <1>3, <1>4 DEF Sorted

LEMMA BucketAddOrdered ==
  ASSUME NEW I, ImageInv(I), Ordered(I), NEW h \in DOMAIN I.hdr, NEW p \in Paths,
         NEW r \in bucket_add(I, h, p)
  PROVE  Ordered(r.img)
<1>0. ImageInv(r.img) /\ AllSound(r.img)
  BY BucketAddSafe, BucketAddSound DEF Ordered, AllSound
<1>1. CASE r = Result("refused", I)
  BY <1>1 DEF Result
<1>2. ASSUME NEW n \in Nat, Grown(I, r.img, h, n) PROVE Ordered(r.img)
  <2>1. \A g \in DOMAIN r.img.hdr : \E k \in DOMAIN I.hdr : Kept(I, k, r.img, g)
    BY <1>2 DEF Grown
  <2> QED
    BY <2>1, FromOrdered
<1>3. ASSUME NEW n \in Nat, NEW Q, ImageInv(Q), Grown(I, Q, h, n), Entered(Q, r.img, h, p),
             ~ bucket_contains(I, h, p)
      PROVE  Ordered(r.img)
  <2>1. h \in DOMAIN Q.hdr /\ Kept(I, h, Q, h)
    <3>1. MovedTo(h, n, h) = h
      BY CellFacts DEF MovedTo
    <3> QED
      BY <1>3, <3>1 DEF Grown
  <2>2. Ordered(Q)
    <3>1. \A g \in DOMAIN Q.hdr : \E k \in DOMAIN I.hdr : Kept(I, k, Q, g)
      BY <1>3 DEF Grown
    <3> QED
      BY <3>1, FromOrdered
  <2>3. p \notin Contents(Q, h)
    <3>1. p \notin Contents(I, h)
      BY <1>3, ContainsRight DEF Ordered
    <3> QED
      BY <2>1, <3>1, KeptFacts DEF Ordered
  <2>4. DOMAIN r.img.hdr = DOMAIN Q.hdr /\ \A g \in DOMAIN Q.hdr : g # h => Kept(Q, g, r.img, g)
    BY <1>3 DEF Entered
  <2>5. Sorted(r.img, h)
    BY <1>0, <1>3, <2>1, <2>2, <2>3, <2>4, EnteredSorted DEF Ordered, AllSound
  <2>6. ASSUME NEW g \in DOMAIN Q.hdr, g # h PROVE Sorted(r.img, g)
    <3>1. BucketSound(Q, g) /\ Sorted(Q, g) /\ Kept(Q, g, r.img, g)
      BY <2>2, <2>4, <2>6 DEF Ordered
    <3>2. \A i \in 0 .. bucket_nr_indexes(Q, g) - 1 : bucket_string(r.img, g, i) = bucket_string(Q, g, i)
      BY <1>3, <3>1, KeptFacts
    <3>3. bucket_nr_indexes(r.img, g) = bucket_nr_indexes(Q, g)
      BY <3>1 DEF Kept
    <3> QED
      BY <3>1, <3>2, <3>3 DEF Sorted
  <2> QED
    BY <1>0, <2>4, <2>5, <2>6 DEF Ordered, AllSound
<1> QED
  BY <1>1, <1>2, <1>3, BucketAddShape

LEMMA CountedOrdered ==
  ASSUME NEW I, ImageInv(I), Ordered(I), NEW h \in DOMAIN I.hdr
  PROVE  Ordered(Counted(I, h))
<1>1. PICK J : J = Counted(I, h)
  OBVIOUS
<1>2. AllSound(J)
  BY <1>1, CountedSound DEF Ordered, AllSound
<1>3. /\ J.str = I.str /\ J.idx = I.idx /\ DOMAIN J.hdr = DOMAIN I.hdr
      /\ \A o \in DOMAIN I.hdr : J.hdr[o].blen = I.hdr[o].blen /\ J.hdr[o].ioff = I.hdr[o].ioff
  BY <1>1, CountedKeeps
<1>4. \A o \in DOMAIN I.hdr : /\ bucket_indexes(J, o) = bucket_indexes(I, o)
                              /\ bucket_nr_indexes(J, o) = bucket_nr_indexes(I, o)
  BY <1>3 DEF bucket_indexes, bucket_nr_indexes
<1>5. \A o \in DOMAIN I.hdr : Sorted(J, o)
  BY <1>3, <1>4 DEF Ordered, Sorted, bucket_string, bucket_string_at, bucket_index
<1> QED
  BY <1>1, <1>2, <1>3, <1>5 DEF Ordered, AllSound

LEMMA OneAddOrdered ==
  ASSUME NEW I, ImageInv(I), Ordered(I), NEW n, NEW p \in Paths, NEW J, OneAdd(I, J, n, p)
  PROVE  Ordered(J)
<1>1. ASSUME NEW h \in find_playlist(I, n), NEW q \in bucket_add(I, h, p),
             J = q.img \/ J = Counted(q.img, h)
      PROVE  Ordered(J)
  <2>1. h \in DOMAIN I.hdr
    BY FindPlaylistFacts
  <2> QED
    BY <1>1, <2>1, BucketAddSafe, BucketAddOrdered, CountedOrdered
<1> QED
  BY <1>1 DEF OneAdd

LEMMA StartPlaylistOrdered ==
  ASSUME NEW I, ImageInv(I), Ordered(I), NEW n \in Names, NEW r \in start_playlist(I, n)
  PROVE  Ordered(r.img)
<1>0. AllSound(r.img)
  BY StartPlaylistSound DEF Ordered, AllSound
<1>1. CASE r = Result("fail", I)
  BY <1>1 DEF Result
<1>2. ASSUME NEW Q, ImageInv(Q), Q.hdr = I.hdr, Q.str = I.str, Q.idx = I.idx,
             r.img = Q \/ r.img = WithPlaylist(Q, I.len, n)
      PROVE  Ordered(r.img)
  <2>1. Ordered(Q)
    BY <1>2, KeptSelf, FromOrdered
  <2>2. CASE r.img = WithPlaylist(Q, I.len, n)
    <3>1. PICK J, at : J = r.img /\ at = I.len
      OBVIOUS
    <3>2. at \notin DOMAIN Q.hdr
      <4>1. \A h \in DOMAIN I.hdr : h + I.hdr[h].length <= I.len /\ h \in Nat /\ I.len \in Nat
                                   /\ I.hdr[h].length \in Nat /\ I.hdr[h].length >= 144
        BY CellFacts
      <4> QED
        BY <1>2, <3>1, <4>1
    <3>3. /\ DOMAIN J.hdr = DOMAIN Q.hdr \cup {at} /\ bucket_nr_indexes(J, at) = 0
          /\ \A g \in DOMAIN Q.hdr : Kept(Q, g, J, g)
      BY <1>2, <2>2, <3>1, <3>2, WithPlaylistKeeps
    <3>4. Sorted(J, at)
      BY <3>3 DEF Sorted
    <3>5. ASSUME NEW g \in DOMAIN Q.hdr PROVE Sorted(J, g)
      <4>1. BucketSound(Q, g) /\ Sorted(Q, g) /\ Kept(Q, g, J, g)
        BY <2>1, <3>3 DEF Ordered
      <4>2. \A i \in 0 .. bucket_nr_indexes(Q, g) - 1 : bucket_string(J, g, i) = bucket_string(Q, g, i)
        BY <1>2, <4>1, KeptFacts
      <4>3. bucket_nr_indexes(J, g) = bucket_nr_indexes(Q, g)
        BY <4>1 DEF Kept
      <4> QED
        BY <4>1, <4>2, <4>3 DEF Sorted
    <3> QED
      BY <1>0, <3>1, <3>3, <3>4, <3>5 DEF Ordered, AllSound
  <2> QED
    BY <1>2, <2>1, <2>2
<1> QED
  BY <1>1, <1>2, StartPlaylistShape

LEMMA DeletePlaylistOrdered ==
  ASSUME NEW I, ImageInv(I), Ordered(I), NEW m, NEW r \in delete_playlist(I, m)
  PROVE  Ordered(r.img)
<1>1. CASE r = Result("fail", I)
  BY <1>1 DEF Result
<1>2. ASSUME NEW h \in find_playlist(I, m), Excised(I, r.img, h, I.hdr[h].length)
      PROVE  Ordered(r.img)
  <2>1. \A g \in DOMAIN r.img.hdr : \E k \in DOMAIN I.hdr : Kept(I, k, r.img, g)
    BY <1>2 DEF Excised
  <2> QED
    BY <2>1, FromOrdered
<1>3. ASSUME NEW h \in find_playlist(I, m), r.img = Closed(I, h, h + I.hdr[h].length)
      PROVE  Ordered(r.img)
  BY <1>3, FindPlaylistFacts, ClosedFrom, FromOrdered
<1> QED
  BY <1>1, <1>2, <1>3, DeletePlaylistShape

LEMMA BlankOrdered == Ordered(BlankLibrary)
BY DEF Ordered, BlankLibrary, NoCells

-----------------------------------------------------------------------------
(***************************************************************************)
(* The chain of playlists: which playlists the walk of                     *)
(* mlib_next_playlist() comes to, that no two of them have one name, that  *)
(* it comes to all of them, and that each counts its own paths.            *)
(***************************************************************************)

(* The walk as the least set with the first playlist and each next one. *)
LEMMA VisitedFacts ==
  ASSUME NEW I
  PROVE  /\ Visited(I) \subseteq DOMAIN I.hdr
         /\ HeaderSize \in DOMAIN I.hdr /\ HeaderSize < I.len => HeaderSize \in Visited(I)
         /\ \A g \in Visited(I) : LET t == g + I.hdr[g].length IN
              t \in DOMAIN I.hdr /\ t < I.len => t \in Visited(I)
<1>1. Visited(I) \subseteq DOMAIN I.hdr
  BY DEF Visited
<1>2. first_playlist(I) \subseteq Visited(I)
  BY DEF Visited, first_playlist, AtPlaylist
<1>3. ASSUME NEW g \in Visited(I) PROVE next_playlist(I, g) \subseteq Visited(I)
  BY DEF Visited, next_playlist, AtPlaylist
<1> QED
  BY <1>1, <1>2, <1>3 DEF first_playlist, next_playlist, AtPlaylist

LEMMA VisitedLeast ==
  ASSUME NEW I, NEW S \in SUBSET DOMAIN I.hdr,
         HeaderSize \in DOMAIN I.hdr => HeaderSize \in S,
         \A g \in S : g + I.hdr[g].length \in DOMAIN I.hdr => g + I.hdr[g].length \in S
  PROVE  Visited(I) \subseteq S
BY DEF Visited, first_playlist, next_playlist, AtPlaylist

(* The walk depends on where playlists are and how long they are. *)
LEMMA SameWalk ==
  ASSUME NEW I, NEW J, DOMAIN J.hdr = DOMAIN I.hdr,
         \A g \in DOMAIN I.hdr : /\ J.hdr[g].length = I.hdr[g].length
                                 /\ g < I.len /\ g < J.len
  PROVE  Visited(J) = Visited(I)
<1>1. Visited(J) \subseteq Visited(I)
  <2>1. \A g \in Visited(I) : g + J.hdr[g].length = g + I.hdr[g].length
    BY VisitedFacts
  <2> QED
    BY <2>1, VisitedFacts, VisitedLeast
<1>2. Visited(I) \subseteq Visited(J)
  <2>1. \A g \in Visited(J) : g + J.hdr[g].length = g + I.hdr[g].length
    BY VisitedFacts
  <2> QED
    BY <2>1, VisitedFacts, VisitedLeast
<1> QED
  BY <1>1, <1>2

(* After a growth, the walk comes to nothing but what it came to. *)
LEMMA GrownWalk ==
  ASSUME NEW I, ImageInv(I), NEW h \in DOMAIN I.hdr, NEW n \in Nat, NEW J, Grown(I, J, h, n)
  PROVE  \A g \in Visited(J) : \E k \in Visited(I) : g = MovedTo(h, n, k)
<1> DEFINE S == {MovedTo(h, n, k) : k \in Visited(I)}
<1>1. /\ DOMAIN J.hdr = {MovedTo(h, n, k) : k \in DOMAIN I.hdr}
      /\ \A k \in DOMAIN I.hdr :
           J.hdr[MovedTo(h, n, k)].length = I.hdr[k].length + IF k = h THEN n ELSE 0
  BY DEF Grown
<1>2. \A k \in DOMAIN I.hdr : /\ k \in Nat /\ k >= 1024 /\ I.hdr[k].length \in Nat
                              /\ I.len \in Nat /\ k < I.len
                              /\ k < h => k + I.hdr[k].length <= h
                              /\ k > h => h + I.hdr[h].length <= k
  <2>1. \A k \in DOMAIN I.hdr : /\ k \in Nat /\ k >= 1024 /\ I.hdr[k].length \in Nat
                                /\ I.len \in Nat /\ k + I.hdr[k].length <= I.len
                                /\ I.hdr[k].length >= 144
    BY CellFacts
  <2>2. \A j, k \in DOMAIN I.hdr : j < k => j + I.hdr[j].length <= k
    BY DEF ImageInv, Disjoint
  <2> QED
    BY <2>1, <2>2
<1>3. S \in SUBSET DOMAIN J.hdr
  BY <1>1, VisitedFacts
<1>4. HeaderSize \in DOMAIN J.hdr => HeaderSize \in S
  <2> SUFFICES ASSUME NEW k \in DOMAIN I.hdr, HeaderSize = MovedTo(h, n, k) PROVE HeaderSize \in S
    BY <1>1
  <2>1. k = HeaderSize
    BY <1>2, LayoutConstants DEF MovedTo
  <2>2. k \in Visited(I)
    BY <1>2, <2>1, VisitedFacts
  <2> QED
    BY <2>2
<1>5. ASSUME NEW k \in Visited(I), NEW t, t = MovedTo(h, n, k) + J.hdr[MovedTo(h, n, k)].length,
             t \in DOMAIN J.hdr
      PROVE  t \in S
  <2>1. k \in DOMAIN I.hdr
    BY VisitedFacts
  <2>2. PICK j \in DOMAIN I.hdr : t = MovedTo(h, n, j)
    BY <1>1, <1>5
  <2>3. t = MovedTo(h, n, k) + (I.hdr[k].length + IF k = h THEN n ELSE 0)
    BY <1>1, <1>5, <2>1
  <2>4. I.hdr[k].length >= 144
    BY <2>1, CellFacts
  <2>5. j = k + I.hdr[k].length
    <3>1. CASE k < h
      BY <1>2, <2>1, <2>2, <2>3, <3>1 DEF MovedTo
    <3>2. CASE k = h
      BY <1>2, <2>1, <2>2, <2>3, <2>4, <3>2 DEF MovedTo
    <3>3. CASE k > h
      BY <1>2, <2>1, <2>2, <2>3, <2>4, <3>3 DEF MovedTo
    <3> QED
      BY <1>2, <2>1, <3>1, <3>2, <3>3
  <2>6. j \in Visited(I)
    BY <1>2, <2>5, VisitedFacts
  <2> QED
    BY <2>2, <2>6
<1>6. \A g \in S : g + J.hdr[g].length \in DOMAIN J.hdr => g + J.hdr[g].length \in S
  BY <1>5
<1>7. Visited(J) \subseteq S
  <2> HIDE DEF S
  <2> QED
    BY <1>3, <1>4, <1>6, VisitedLeast
<1> QED
  BY <1>7

(* After a removal, the walk comes to nothing but what it came to, without *)
(* the playlist that is gone.                                              *)
LEMMA ExcisedWalk ==
  ASSUME NEW I, ImageInv(I), NEW h \in DOMAIN I.hdr, NEW n, n = I.hdr[h].length,
         NEW J, Excised(I, J, h, n)
  PROVE  \A g \in Visited(J) : \E k \in Visited(I) : k # h /\ g = MovedBack(h, n, k)
<1> DEFINE S == {MovedBack(h, n, k) : k \in Visited(I) \ {h}}
<1>1. /\ DOMAIN J.hdr = {MovedBack(h, n, k) : k \in DOMAIN I.hdr \ {h}}
      /\ \A k \in DOMAIN I.hdr \ {h} : J.hdr[MovedBack(h, n, k)].length = I.hdr[k].length
  BY DEF Excised
<1>2. \A k \in DOMAIN I.hdr : /\ k \in Nat /\ k >= 1024 /\ I.hdr[k].length \in Nat
                              /\ I.hdr[k].length >= 144 /\ I.len \in Nat /\ k < I.len
                              /\ k < h => k + I.hdr[k].length <= h
                              /\ k > h => h + n <= k
  <2>1. \A k \in DOMAIN I.hdr : /\ k \in Nat /\ k >= 1024 /\ I.hdr[k].length \in Nat
                                /\ I.len \in Nat /\ k + I.hdr[k].length <= I.len
                                /\ I.hdr[k].length >= 144
    BY CellFacts
  <2>2. \A j, k \in DOMAIN I.hdr : j < k => j + I.hdr[j].length <= k
    BY DEF ImageInv, Disjoint
  <2> QED
    BY <2>1, <2>2
<1>3. S \in SUBSET DOMAIN J.hdr
  BY <1>1, VisitedFacts
<1>4. HeaderSize \in DOMAIN J.hdr => HeaderSize \in S
  <2> SUFFICES ASSUME NEW k \in DOMAIN I.hdr \ {h}, HeaderSize = MovedBack(h, n, k)
               PROVE  k \in Visited(I)
    BY <1>1
  <2>1. CASE k < h
    BY <1>2, <2>1, VisitedFacts DEF MovedBack
  <2>2. CASE k > h
    <3>1. h = HeaderSize /\ k = h + n
      BY <1>2, <2>2, LayoutConstants DEF MovedBack
    <3>2. h \in Visited(I)
      <4>1. h < I.len /\ h \in DOMAIN I.hdr
        BY <1>2
      <4>2. HeaderSize < I.len
        BY <3>1, <4>1
      <4> QED
        BY <3>1, <4>1, <4>2, VisitedFacts, Zenon
    <3>3. k = h + I.hdr[h].length /\ k \in DOMAIN I.hdr /\ k < I.len
      BY <1>2, <3>1
    <3> QED
      BY <3>2, <3>3, VisitedFacts
  <2> QED
    BY <1>2, <2>1, <2>2
<1>5. ASSUME NEW k \in Visited(I) \ {h}, NEW t,
             t = MovedBack(h, n, k) + J.hdr[MovedBack(h, n, k)].length, t \in DOMAIN J.hdr
      PROVE  t \in S
  <2>1. k \in DOMAIN I.hdr \ {h}
    BY VisitedFacts
  <2>2. PICK j \in DOMAIN I.hdr \ {h} : t = MovedBack(h, n, j)
    BY <1>1, <1>5
  <2>3. t = MovedBack(h, n, k) + I.hdr[k].length
    BY <1>1, <1>5, <2>1
  <2>4. j \in Visited(I)
    <3>1. CASE j = k + I.hdr[k].length
      BY <1>2, <3>1, VisitedFacts
    <3>2. CASE j # k + I.hdr[k].length
      <4>1. k + I.hdr[k].length = h /\ j = h + n
        <5>1. CASE k < h
          BY <1>2, <2>1, <2>2, <2>3, <3>2, <5>1 DEF MovedBack
        <5>2. CASE k > h
          BY <1>2, <2>1, <2>2, <2>3, <3>2, <5>2 DEF MovedBack
        <5> QED
          BY <1>2, <2>1, <5>1, <5>2
      <4>2. h \in Visited(I)
        BY <1>2, <4>1, VisitedFacts
      <4> QED
        BY <1>2, <4>1, <4>2, VisitedFacts
    <3> QED
      BY <3>1, <3>2
  <2> QED
    BY <2>2, <2>4
<1>6. \A g \in S : g + J.hdr[g].length \in DOMAIN J.hdr => g + J.hdr[g].length \in S
  BY <1>5
<1>7. Visited(J) \subseteq S
  <2> HIDE DEF S
  <2> QED
    BY <1>3, <1>4, <1>6, VisitedLeast
<1> QED
  BY <1>7

(* A new playlist at the end is the only one that the walk may come to in  *)
(* addition.                                                               *)
LEMMA MadeWalk ==
  ASSUME NEW I, ImageInv(I), NEW Q, Q.hdr = I.hdr, Q.len = I.len + 272, ImageInv(Q), NEW n,
         NEW J, J = WithPlaylist(Q, I.len, n)
  PROVE  /\ J.len = I.len + 272 /\ DOMAIN J.hdr = DOMAIN I.hdr \cup {I.len}
         /\ I.len \notin DOMAIN I.hdr
         /\ J.hdr[I.len] = NewPlaylist(n) /\ bucket_nr_indexes(J, I.len) = 0
         /\ \A g \in DOMAIN I.hdr : Kept(Q, g, J, g) /\ J.hdr[g].length = I.hdr[g].length
         /\ Visited(J) \subseteq Visited(I) \cup {I.len}
<1>1. PICK at : at = I.len
  OBVIOUS
<1>2. \A g \in DOMAIN I.hdr : /\ g \in Nat /\ at \in Nat /\ I.hdr[g].length \in Nat
                              /\ g < at /\ g + I.hdr[g].length <= at
  <2>1. \A g \in DOMAIN I.hdr : /\ g \in Nat /\ I.len \in Nat /\ I.hdr[g].length \in Nat
                                /\ g + I.hdr[g].length <= I.len /\ I.hdr[g].length >= 144
    BY CellFacts
  <2> QED
    BY <1>1, <2>1
<1>3. at \notin DOMAIN Q.hdr /\ at \in Nat
  BY <1>1, <1>2 DEF ImageInv, ImageTyped
<1>4. /\ J.len = Q.len /\ DOMAIN J.hdr = DOMAIN Q.hdr \cup {at}
      /\ J.hdr[at] = NewPlaylist(n) /\ bucket_nr_indexes(J, at) = 0
      /\ \A g \in DOMAIN Q.hdr : Kept(Q, g, J, g) /\ J.hdr[g].length = Q.hdr[g].length
  BY <1>1, <1>3, WithPlaylistKeeps
<1>5. J.hdr[at].length = 272
  BY <1>4, LayoutConstants DEF NewPlaylist
<1>6. Visited(J) \subseteq Visited(I) \cup {at}
  <2> DEFINE S == Visited(I) \cup {at}
  <2>1. S \in SUBSET DOMAIN J.hdr
    BY <1>4, VisitedFacts
  <2>2. HeaderSize \in DOMAIN J.hdr => HeaderSize \in S
    BY <1>1, <1>2, <1>4, VisitedFacts
  <2>3. ASSUME NEW g \in S, NEW t, t = g + J.hdr[g].length, t \in DOMAIN J.hdr PROVE t \in S
    <3>1. CASE g = at
      BY <1>2, <1>3, <1>4, <1>5, <2>3, <3>1
    <3>2. CASE g # at
      <4>1. g \in Visited(I) /\ g \in DOMAIN I.hdr
        BY <3>2, VisitedFacts
      <4>2. t = g + I.hdr[g].length
        BY <1>4, <2>3, <4>1
      <4>3. CASE t = at
        BY <4>3
      <4>4. CASE t \in DOMAIN I.hdr
        BY <1>1, <1>2, <4>1, <4>2, <4>4, VisitedFacts
      <4> QED
        BY <1>4, <2>3, <4>3, <4>4
    <3> QED
      BY <3>1, <3>2
  <2>4. \A g \in S : g + J.hdr[g].length \in DOMAIN J.hdr => g + J.hdr[g].length \in S
    BY <2>3
  <2> HIDE DEF S
  <2>5. Visited(J) \subseteq S
    BY <2>1, <2>2, <2>4, VisitedLeast
  <2> QED
    BY <2>5 DEF S
<1> QED
  BY <1>1, <1>3, <1>4, <1>6

-----------------------------------------------------------------------------

(* Names. *)

NamesApart(I) == \A g, h \in Visited(I) : I.hdr[g].name = I.hdr[h].name => g = h

(* A name that is not found is not on the walk. *)
LEMMA NotFound ==
  ASSUME NEW I, ImageInv(I), NEW n, find_playlist(I, n) = {}, NEW h \in Visited(I)
  PROVE  I.hdr[h].name # n
<1> DEFINE named == {x \in Visited(I) : I.hdr[x].name = n}
<1>1. named \in SUBSET Nat
  BY VisitedFacts DEF ImageInv, ImageTyped
<1>2. find_playlist(I, n) = {x \in named : \A g \in named : x <= g}
  BY DEF find_playlist
<1> HIDE DEF named
<1>3. named = {}
  BY <1>1, <1>2, Least
<1> QED
  BY <1>3 DEF named

LEMMA GrownApart ==
  ASSUME NEW I, ImageInv(I), NamesApart(I), NEW h \in DOMAIN I.hdr, NEW n \in Nat,
         NEW J, Grown(I, J, h, n)
  PROVE  NamesApart(J)
<1> SUFFICES ASSUME NEW g1 \in Visited(J), NEW g2 \in Visited(J), J.hdr[g1].name = J.hdr[g2].name
             PROVE  g1 = g2
  BY DEF NamesApart
<1>1. PICK k1 \in Visited(I), k2 \in Visited(I) : g1 = MovedTo(h, n, k1) /\ g2 = MovedTo(h, n, k2)
  BY GrownWalk
<1>2. J.hdr[g1].name = I.hdr[k1].name /\ J.hdr[g2].name = I.hdr[k2].name
  BY <1>1, VisitedFacts DEF Grown, Kept
<1> QED
  BY <1>1, <1>2 DEF NamesApart

LEMMA SameApart ==
  ASSUME NEW I, NamesApart(I), NEW J, DOMAIN J.hdr = DOMAIN I.hdr,
         \A g \in DOMAIN I.hdr : /\ J.hdr[g].length = I.hdr[g].length
                                 /\ J.hdr[g].name = I.hdr[g].name
                                 /\ g < I.len /\ g < J.len
  PROVE  NamesApart(J)
BY SameWalk, VisitedFacts DEF NamesApart

(* Playlists begin before the end of the library. *)
LEMMA BeforeEnd ==
  ASSUME NEW I, ImageInv(I), NEW h \in DOMAIN I.hdr
  PROVE  h < I.len /\ h + I.hdr[h].length <= I.len /\ I.hdr[h].length >= 144
BY CellFacts

LEMMA EnteredApart ==
  ASSUME NEW I, ImageInv(I), NamesApart(I), NEW h \in DOMAIN I.hdr, NEW p \in Paths,
         NEW J, Entered(I, J, h, p)
  PROVE  NamesApart(J)
<1>1. DOMAIN J.hdr = DOMAIN I.hdr /\ J.len = I.len
  BY DEF Entered
<1>2. \A g \in DOMAIN I.hdr : J.hdr[g].length = I.hdr[g].length /\ J.hdr[g].name = I.hdr[g].name
  BY DEF Entered, Kept
<1> QED
  BY <1>1, <1>2, BeforeEnd, SameApart

LEMMA OneAddApart ==
  ASSUME NEW I, ImageInv(I), NamesApart(I), NEW n, NEW p \in Paths, NEW J, OneAdd(I, J, n, p)
  PROVE  NamesApart(J)
<1>1. ASSUME NEW h \in find_playlist(I, n), NEW q \in bucket_add(I, h, p)
      PROVE  h \in DOMAIN q.img.hdr /\ ImageInv(q.img) /\ NamesApart(q.img)
  <2>1. h \in DOMAIN I.hdr
    BY FindPlaylistFacts
  <2>2. ImageInv(q.img) /\ h \in DOMAIN q.img.hdr
    BY <2>1, BucketAddSafe
  <2>3. CASE q = Result("refused", I)
    BY <2>2, <2>3 DEF Result
  <2>4. ASSUME NEW m \in Nat, Grown(I, q.img, h, m) PROVE NamesApart(q.img)
    BY <2>1, <2>4, GrownApart
  <2>5. ASSUME NEW m \in Nat, NEW Q, ImageInv(Q), Grown(I, Q, h, m), Entered(Q, q.img, h, p)
        PROVE  NamesApart(q.img)
    <3>1. h \in DOMAIN Q.hdr
      BY <2>2, <2>5 DEF Entered
    <3> QED
      BY <2>1, <2>5, <3>1, GrownApart, EnteredApart
  <2> QED
    BY <2>1, <2>2, <2>3, <2>4, <2>5, BucketAddShape
<1>2. ASSUME NEW h \in find_playlist(I, n), NEW q \in bucket_add(I, h, p), J = Counted(q.img, h)
      PROVE  NamesApart(J)
  <2>1. /\ J.len = q.img.len /\ DOMAIN J.hdr = DOMAIN q.img.hdr
        /\ \A o \in DOMAIN q.img.hdr : /\ J.hdr[o].name = q.img.hdr[o].name
                                       /\ J.hdr[o].length = q.img.hdr[o].length
    BY <1>1, <1>2, CountedKeeps
  <2> QED
    BY <1>1, <2>1, BeforeEnd, SameApart
<1> QED
  BY <1>1, <1>2 DEF OneAdd

(* A name that is stored whole is new when it was looked for in vain. *)
LEMMA StartPlaylistApart ==
  ASSUME NEW I, ImageInv(I), NamesApart(I), NEW n \in Names \ LongNames,
         NEW r \in start_playlist(I, n)
  PROVE  NamesApart(r.img)
<1>1. CASE r = Result("fail", I)
  BY <1>1 DEF Result
<1>2. ASSUME NEW Q, ImageInv(Q), Q.hdr = I.hdr, Q.len = I.len \/ Q.len = I.len + 272
      PROVE  NamesApart(Q)
  <2>1. \A g \in DOMAIN I.hdr : g < I.len /\ g < Q.len
    BY <1>2, BeforeEnd
  <2> QED
    BY <1>2, <2>1, SameApart
<1>3. ASSUME NEW Q, ImageInv(Q), Q.hdr = I.hdr, Q.len = I.len + 272, find_playlist(I, n) = {},
             r.img = WithPlaylist(Q, I.len, n)
      PROVE  NamesApart(r.img)
  <2>1. PICK J, at : J = r.img /\ at = I.len
    OBVIOUS
  <2>2. /\ Visited(J) \subseteq Visited(I) \cup {at} /\ J.hdr[at] = NewPlaylist(n)
        /\ \A g \in DOMAIN I.hdr : Kept(Q, g, J, g)
    BY <1>3, <2>1, MadeWalk
  <2>3. J.hdr[at].name = n
    BY <2>2 DEF NewPlaylist, Stored
  <2>4. \A g \in Visited(I) : J.hdr[g].name = I.hdr[g].name /\ I.hdr[g].name # n
    BY <1>3, <2>2, VisitedFacts, NotFound DEF Kept
  <2>5. NamesApart(J)
    BY <2>2, <2>3, <2>4 DEF NamesApart
  <2> QED
    BY <2>1, <2>5
<1> QED
  BY <1>1, <1>2, <1>3, StartPlaylistShape

LEMMA DeletePlaylistApart ==
  ASSUME NEW I, ImageInv(I), NamesApart(I), "ftruncate" \notin Faults, NEW m,
         NEW r \in delete_playlist(I, m)
  PROVE  NamesApart(r.img)
<1>1. CASE r = Result("fail", I)
  BY <1>1 DEF Result
<1>2. ASSUME NEW h \in find_playlist(I, m), NEW n, n = I.hdr[h].length, Excised(I, r.img, h, n)
      PROVE  NamesApart(r.img)
  <2> SUFFICES ASSUME NEW g1 \in Visited(r.img), NEW g2 \in Visited(r.img),
                      r.img.hdr[g1].name = r.img.hdr[g2].name
               PROVE  g1 = g2
    BY DEF NamesApart
  <2>1. PICK k1 \in Visited(I), k2 \in Visited(I) :
          k1 # h /\ k2 # h /\ g1 = MovedBack(h, n, k1) /\ g2 = MovedBack(h, n, k2)
    BY <1>2, FindPlaylistFacts, ExcisedWalk
  <2>2. r.img.hdr[g1].name = I.hdr[k1].name /\ r.img.hdr[g2].name = I.hdr[k2].name
    BY <1>2, <2>1, VisitedFacts DEF Excised, Kept
  <2> QED
    BY <2>1, <2>2 DEF NamesApart
<1> QED
  BY <1>1, <1>2, DeletePlaylistShape

LEMMA BlankApart == NamesApart(BlankLibrary)
BY VisitedFacts DEF NamesApart, BlankLibrary, NoCells

-----------------------------------------------------------------------------

(* The mapping. *)

(* A step from image I to image J does not move the mapping: it needs no   *)
(* more pages than there were, or the next ones are free and the kernel    *)
(* gives them.                                                             *)
Steady(I, J) ==
  \/ Pages(J.len) <= Pages(I.len)
  \/ ~ Leftover(I) /\ "move" \notin Faults

(* Growth neither shortens a library nor leaves pages behind it. *)
Onward(I, J) == I.len <= J.len /\ (~ Leftover(I) => ~ Leftover(J))

LEMMA PagesGrow ==
  ASSUME NEW a \in Nat, NEW b \in Nat, a <= b
  PROVE  Pages(a) \in Int /\ Pages(b) \in Int /\ Pages(a) <= Pages(b)
<1>1. Pages(a) \in Int /\ Pages(b) \in Int
  BY PagesInt
<1>2. Pages(a) <= Pages(b)
  BY SizesAssumption DEF Pages
<1> QED
  BY <1>1, <1>2

LEMMA OnePage == Pages(1024) = 1 /\ Pages(1296) = 1
BY SizesAssumption DEF Pages

(* A whole step without a move has none in its parts. *)
LEMMA SteadyParts ==
  ASSUME NEW I, NEW K, NEW J, ImageInv(I), ImageInv(K), ImageInv(J),
         Onward(I, K), Onward(K, J), Steady(I, J)
  PROVE  Steady(I, K) /\ Steady(K, J) /\ Onward(I, J)
<1>1. /\ I.len \in Nat /\ K.len \in Nat /\ J.len \in Nat
      /\ I.len <= K.len /\ K.len <= J.len
  BY DEF ImageInv, ImageTyped, Onward
<1>2. /\ Pages(I.len) \in Int /\ Pages(K.len) \in Int /\ Pages(J.len) \in Int
      /\ Pages(I.len) <= Pages(K.len) /\ Pages(K.len) <= Pages(J.len)
  BY <1>1, PagesGrow
<1>3. Onward(I, J)
  BY <1>1 DEF Onward
<1> QED
  BY <1>2, <1>3 DEF Steady, Onward

LEMMA ExpandOnward ==
  ASSUME NEW I, ImageInv(I), NEW newlen \in Nat, NEW r \in library_expand(I, newlen)
  PROVE  Onward(I, r.img) /\ (r.st = "moved" => ~ Steady(I, r.img))
<1> DEFINE G(vm) == [expand_fd(I, newlen) EXCEPT !.len = newlen, !.vm = vm]
           U == expand_fd(I, newlen)
<1>1. /\ ImageTyped(I) /\ I.len \in Nat /\ I.vm \in Int
      /\ Pages(newlen) \in Int /\ Pages(I.len) \in Int
  BY PagesInt DEF ImageInv, ImageTyped
<1>2. \/ r = Result("refused", I) \/ r = Result("unmapped", I) \/ r = Result("unmapped", U)
      \/ /\ newlen > I.len /\ r = Result("moved", G(Pages(newlen)))
         /\ Pages(newlen) > Pages(I.len) /\ (Leftover(I) \/ "move" \in Faults)
      \/ newlen > I.len /\ r = Result("ok", G(Max2(I.vm, Pages(newlen))))
  <2> HIDE DEF G, U
  <2>1. CASE newlen <= I.len
    BY <2>1 DEF library_expand
  <2>2. CASE ~ newlen <= I.len
    <3>1. newlen > I.len
      BY <1>1, <2>2
    <3>2. \/ r = Result("unmapped", I) \/ r = Result("unmapped", U)
          \/ /\ r = Result("moved", G(Pages(newlen)))
             /\ Pages(newlen) > Pages(I.len) /\ (Leftover(I) \/ "move" \in Faults)
          \/ r = Result("ok", G(Max2(I.vm, Pages(newlen))))
      BY <2>2, Zenon DEF library_expand, Fault, G, U
    <3> QED
      BY <3>1, <3>2
  <2> QED
    BY <2>1, <2>2
<1>3. Onward(I, I)
  BY <1>1 DEF Onward
<1>4. CASE r \in {Result("refused", I), Result("unmapped", I)}
  BY <1>3, <1>4 DEF Result
<1>5. CASE r = Result("unmapped", U)
  <2>1. U.len = I.len /\ U.vm = I.vm
    BY <1>1 DEF ImageTyped, expand_fd
  <2> HIDE DEF U
  <2>2. Onward(I, U)
    BY <1>1, <2>1 DEF Onward, Leftover
  <2> QED
    BY <1>5, <2>2 DEF Result
<1>6. ASSUME newlen > I.len, NEW vm \in Int, vm = Pages(newlen) \/ vm = Max2(I.vm, Pages(newlen)),
             NEW J, J = G(vm)
      PROVE  J.len = newlen /\ Onward(I, J)
  <2>1. J.len = newlen /\ J.vm = vm
    BY <1>1, <1>6 DEF ImageTyped, expand_fd
  <2>2. Pages(I.len) <= Pages(newlen)
    BY <1>1, <1>6, PagesGrow
  <2>3. ~ Leftover(I) => ~ Leftover(J)
    BY <1>1, <1>6, <2>1, <2>2 DEF Leftover, Max2
  <2> QED
    BY <1>1, <1>6, <2>1, <2>3 DEF Onward
<1> HIDE DEF G
<1>7. ASSUME newlen > I.len, r = Result("moved", G(Pages(newlen))),
             Pages(newlen) > Pages(I.len), Leftover(I) \/ "move" \in Faults
      PROVE  Onward(I, r.img) /\ ~ Steady(I, r.img)
  <2>1. r.img = G(Pages(newlen))
    BY <1>7 DEF Result
  <2>2. r.img.len = newlen /\ Onward(I, r.img)
    BY <1>1, <1>6, <1>7, <2>1
  <2> QED
    BY <1>1, <1>7, <2>2 DEF Steady
<1>8. ASSUME newlen > I.len, r = Result("ok", G(Max2(I.vm, Pages(newlen))))
      PROVE  Onward(I, r.img) /\ r.st # "moved"
  <2>1. Max2(I.vm, Pages(newlen)) \in Int
    BY <1>1 DEF Max2
  <2>2. r.img = G(Max2(I.vm, Pages(newlen))) /\ r.st = "ok"
    BY <1>8 DEF Result
  <2> QED
    BY <1>6, <1>8, <2>1, <2>2
<1> QED
  BY <1>2, <1>4, <1>5, <1>7, <1>8

LEMMA SameEnd ==
  ASSUME NEW I, NEW K, NEW J, J.len = K.len, J.vm = K.vm
  PROVE  /\ Onward(I, K) => Onward(I, J)
         /\ Steady(I, J) <=> Steady(I, K)
BY DEF Onward, Steady, Leftover

LEMMA BucketExpandOnward ==
  ASSUME NEW I, ImageInv(I), NEW h \in DOMAIN I.hdr, NEW n \in Nat, n < U32,
         NEW r \in bucket_expand(I, h, n)
  PROVE  Onward(I, r.img) /\ (r.st = "moved" => ~ Steady(I, r.img))
<1> DEFINE at == bucket_indexes(I, h)
           newlen == Add32(I.len, n)
           Expanded(J) == SetCell(Opened(J, at, n), h, Wider(Opened(J, at, n).hdr[h], n))
<1>1. newlen \in Nat /\ newlen < U32
  BY NoWrap
<1>2. PICK q \in library_expand(I, newlen) :
        r = IF q.st \in {"ok", "moved"} THEN Result(q.st, Expanded(q.img)) ELSE q
  <2>1. PICK q2 \in library_insert_space(I, at, n) :
          r = IF q2.st \in {"ok", "moved"}
              THEN Result(q2.st, SetCell(q2.img, h, Wider(q2.img.hdr[h], n))) ELSE q2
    BY Zenon DEF bucket_expand
  <2>2. PICK q \in library_expand(I, newlen) :
          q2 = IF q.st \in {"ok", "moved"} THEN Result(q.st, Opened(q.img, at, n)) ELSE q
    BY Zenon DEF library_insert_space
  <2> QED
    BY <2>1, <2>2 DEF Result
<1> HIDE DEF at, newlen
<1>3. ImageTyped(q.img) /\ Onward(I, q.img) /\ (q.st = "moved" => ~ Steady(I, q.img))
  BY <1>1, ExpandSafe, ExpandOnward DEF ImageInv
<1>4. Expanded(q.img).len = q.img.len /\ Expanded(q.img).vm = q.img.vm
  <2>1. PICK J, H, S, X : /\ J = q.img /\ H = MovedUp(J.hdr, at, n)
                          /\ S = MovedUp(J.str, at, n) /\ X = MovedUp(J.idx, at, n)
    OBVIOUS
  <2>2. PICK K : K = [J EXCEPT !.hdr = H, !.str = S, !.idx = X]
    OBVIOUS
  <2>3. K = Opened(J, at, n)
    BY <2>1, <2>2 DEF Opened
  <2>4. K.len = J.len /\ K.vm = J.vm /\ DOMAIN K = {"len", "size", "vm", "hdr", "str", "idx"}
    BY <1>3, <2>1, <2>2 DEF ImageTyped
  <2>5. PICK G : G = [K.hdr EXCEPT ![h] = Wider(K.hdr[h], n)]
    OBVIOUS
  <2>6. Expanded(J) = [K EXCEPT !.hdr = G]
    BY <2>3, <2>5 DEF SetCell
  <2>7. Expanded(J).len = K.len /\ Expanded(J).vm = K.vm
    BY <2>4, <2>6
  <2> QED
    BY <2>1, <2>4, <2>7
<1> HIDE DEF Expanded
<1>5. CASE q.st \in {"ok", "moved"}
  <2>1. r.img = Expanded(q.img) /\ r.st = q.st
    BY <1>2, <1>5 DEF Result
  <2> QED
    BY <1>3, <1>4, <2>1, SameEnd
<1>6. CASE q.st \notin {"ok", "moved"}
  BY <1>2, <1>3, <1>6
<1> QED
  BY <1>5, <1>6

LEMMA AfterTurnsOnward ==
  ASSUME NEW I, ImageInv(I), NEW h \in DOMAIN I.hdr, NEW j \in Nat, 128 * j < U32,
         NEW r \in AfterTurns(I, h, j)
  PROVE  Onward(I, r.img) /\ (r.st = "moved" => ~ Steady(I, r.img))
<1>1. CASE j = 0
  <2>1. r.img = I /\ r.st = "ok"
    BY <1>1 DEF AfterTurns, Result
  <2>2. Onward(I, I)
    BY DEF Onward, ImageInv, ImageTyped
  <2> QED
    BY <2>1, <2>2
<1>2. CASE j # 0
  <2>1. r \in bucket_expand(I, h, 128 * j) /\ 128 * j \in Nat
    BY <1>2, LayoutConstants DEF AfterTurns
  <2> QED
    BY <2>1, BucketExpandOnward
<1> QED
  BY <1>1, <1>2

LEMMA PlacedOnward ==
  ASSUME NEW I, ImageInv(I), NEW h \in DOMAIN I.hdr, NEW p \in Paths, NEW J \in Placed(I, h, p)
  PROVE  J.len = I.len /\ J.vm = I.vm
<1> DEFINE c == I.hdr[h]
           at == Strings(h) + c.sbytes
           slot == bucket_indexes(I, h) - IndexSize
           d == [c EXCEPT !.ioff = @ - IndexSize, !.sbytes = @ + PathLen[p]]
           S == Put(I.str, at, p)
           X == Put(I.idx, slot, c.sbytes)
           K == [I EXCEPT !.str = S, !.idx = X]
           M == SetCell(K, h, d)
<1>1. J \in bucket_sort(M, h)
  BY DEF Placed
<1> HIDE DEF c, at, slot, d, S, X
<1>2. K.len = I.len /\ K.vm = I.vm /\ DOMAIN K = {"len", "size", "vm", "hdr", "str", "idx"}
  BY DEF ImageInv, ImageTyped
<1> HIDE DEF K
<1>3. PICK G : G = [K.hdr EXCEPT ![h] = d]
  OBVIOUS
<1>4. M = [K EXCEPT !.hdr = G]
  BY <1>3 DEF SetCell
<1>5. M.len = I.len /\ M.vm = I.vm /\ DOMAIN M = {"len", "size", "vm", "hdr", "str", "idx"}
  BY <1>2, <1>4
<1> HIDE DEF M
<1>6. \E Y : J = [M EXCEPT !.idx = Y]
  BY <1>1 DEF bucket_sort
<1> QED
  BY <1>5, <1>6

LEMMA BucketAddOnward ==
  ASSUME NEW I, ImageInv(I), NEW h \in DOMAIN I.hdr, NEW p \in Paths,
         NEW r \in bucket_add(I, h, p)
  PROVE  Onward(I, r.img) /\ (r.st = "moved" => ~ Steady(I, r.img))
<1> DEFINE k == Turns(I.hdr[h], PathLen[p])
<1>1. /\ I.hdr[h] \in Cell /\ 16 + I.hdr[h].sbytes < I.hdr[h].ioff
      /\ PathLen[p] \in Nat /\ PathLen[p] + 1024 < U32
  BY CellFacts, PathsAssumption, SizesAssumption
<1>2. k \in Nat /\ 128 * k < PathLen[p] + 132
  BY <1>1, TurnsFacts
<1>3. \/ r = Result("refused", I)
      \/ \E q \in AfterTurns(I, h, k) : \E J \in Placed(q.img, h, p) : r = Result(q.st, J)
      \/ \E j \in 0 .. k - 1 : r \in FailedTurn(I, h, j)
  <2> HIDE DEF k
  <2>1. \/ r = Result("refused", I)
        \/ r \in AddedAfter(I, h, p, k)
        \/ r \in StuckBefore(I, h, k)
    BY Zenon DEF bucket_add, k
  <2> QED
    BY <2>1 DEF AddedAfter, StuckBefore
<1> HIDE DEF k
<1>4. CASE r = Result("refused", I)
  <2>1. Onward(I, I)
    BY DEF Onward, ImageInv, ImageTyped
  <2> QED
    BY <1>4, <2>1 DEF Result
<1>5. ASSUME NEW q \in AfterTurns(I, h, k), NEW J \in Placed(q.img, h, p), r = Result(q.st, J)
      PROVE  Onward(I, r.img) /\ (r.st = "moved" => ~ Steady(I, r.img))
  <2>1. 128 * k < U32
    BY <1>1, <1>2, SizesAssumption
  <2>2. /\ ImageInv(q.img) /\ h \in DOMAIN q.img.hdr
        /\ Onward(I, q.img) /\ (q.st = "moved" => ~ Steady(I, q.img))
    BY <1>2, <2>1, AfterTurnsSafe, AfterTurnsOnward
  <2>3. J.len = q.img.len /\ J.vm = q.img.vm
    BY <2>2, PlacedOnward
  <2>4. r.st = q.st /\ r.img = J
    BY <1>5 DEF Result
  <2> QED
    BY <2>2, <2>3, <2>4, SameEnd
<1>6. ASSUME NEW j \in 0 .. k - 1, r \in FailedTurn(I, h, j)
      PROVE  Onward(I, r.img) /\ r.st # "moved"
  <2>1. j \in Nat /\ 128 * j < U32 /\ 128 \in Nat /\ 128 < U32
    BY <1>1, <1>2, SizesAssumption
  <2>2. PICK q \in AfterTurns(I, h, j) :
          r \in bucket_expand(q.img, h, 128) /\ r.st \in {"refused", "unmapped"}
    BY <1>6, LayoutConstants DEF FailedTurn
  <2>3. ImageInv(q.img) /\ h \in DOMAIN q.img.hdr /\ Onward(I, q.img)
    BY <2>1, AfterTurnsSafe, AfterTurnsOnward
  <2>4. Onward(q.img, r.img) /\ ImageInv(r.img)
    BY <2>1, <2>2, <2>3, BucketExpandOnward, BucketExpandSafe
  <2>5. I.len \in Nat /\ q.img.len \in Nat /\ r.img.len \in Nat
    BY <2>3, <2>4 DEF ImageInv, ImageTyped
  <2> QED
    BY <2>2, <2>3, <2>4, <2>5 DEF Onward
<1> QED
  BY <1>3, <1>4, <1>5, <1>6

-----------------------------------------------------------------------------

(* A path is added without the mapping moving. *)

(* Playlist h of image I grows if need be, path p enters it, and it is     *)
(* counted.                                                                *)
Gained(I, J, h, p) ==
  \E n \in Nat : \E Q, K : /\ ImageInv(Q) /\ Grown(I, Q, h, n)
                          /\ ImageInv(K) /\ Entered(Q, K, h, p)
                          /\ J = Counted(K, h)

(* How mlib_add_path_to_plist_name() ends: the playlist is not there, the  *)
(* path is there already, it is new, or growing the playlist failed on the *)
(* way, at the library's limit unless the library is then unmapped.        *)
AddEnds(I, r, n, p) ==
  \/ r = Result("fail", I) /\ find_playlist(I, n) = {}
  \/ \E h \in find_playlist(I, n) :
       \/ r = Result("fail", I) /\ p \in Contents(I, h)
       \/ r.st = "ok" /\ p \notin Contents(I, h) /\ Gained(I, r.img, h, p)
       \/ /\ r.st \in {"fail", "unmapped"} /\ \E m \in Nat : Grown(I, r.img, h, m)
          /\ r.st = "fail" => r.img.len + 128 >= U32

LEMMA CountedEnd ==
  ASSUME NEW I, ImageInv(I), NEW h \in DOMAIN I.hdr
  PROVE  Counted(I, h).len = I.len /\ Counted(I, h).vm = I.vm
<1>1. PICK G : G = [I.hdr EXCEPT ![h] = [I.hdr[h] EXCEPT !.mcount = @ + 1]]
  OBVIOUS
<1>2. Counted(I, h) = [I EXCEPT !.hdr = G]
  BY <1>1 DEF Counted, SetCell
<1> QED
  BY <1>2 DEF ImageInv, ImageTyped

LEMMA AddToNamedOnward ==
  ASSUME NEW I, ImageInv(I), NEW n, NEW p \in Paths, NEW r \in AddToNamed(I, n, p)
  PROVE  Onward(I, r.img)
<1>1. Onward(I, I)
  BY DEF Onward, ImageInv, ImageTyped
<1>2. ASSUME NEW h \in find_playlist(I, n), NEW q \in bucket_add(I, h, p)
      PROVE  Onward(I, q.img) /\ Onward(I, Counted(q.img, h))
  <2>1. h \in DOMAIN I.hdr
    BY FindPlaylistFacts
  <2>2. Onward(I, q.img) /\ ImageInv(q.img) /\ h \in DOMAIN q.img.hdr
    BY <2>1, BucketAddOnward, BucketAddSafe
  <2> QED
    BY <2>2, CountedEnd, SameEnd
<1> QED
  BY <1>1, <1>2, AddToNamedStep DEF OneAdd

LEMMA AddToNamedEnds ==
  ASSUME NEW I, ImageInv(I), Ordered(I), NEW n, NEW p \in Paths,
         NEW r \in AddToNamed(I, n, p), Steady(I, r.img)
  PROVE  r.st \in {"ok", "fail", "unmapped"} /\ AddEnds(I, r, n, p)
<1>1. CASE find_playlist(I, n) = {}
  BY <1>1 DEF AddToNamed, Result, AddEnds
<1>2. CASE find_playlist(I, n) # {}
  <2>1. PICK h \in find_playlist(I, n) : r \in add_path_to_plist(I, h, p)
    BY <1>2 DEF AddToNamed
  <2>2. h \in DOMAIN I.hdr
    BY FindPlaylistFacts
  <2>3. \A q \in bucket_add(I, h, p) : /\ q.st \in InnerStates /\ ImageInv(q.img)
                                       /\ h \in DOMAIN q.img.hdr
                                       /\ q.st = "moved" => ~ Steady(I, q.img)
    BY <2>2, BucketAddSafe, BucketAddOnward
  <2>4. PICK q \in bucket_add(I, h, p) :
          \/ q.st = "ok" /\ r = Result("ok", Counted(q.img, h))
          \/ q.st = "moved" /\ r.img = q.img
          \/ q.st = "refused" /\ r = Result("fail", q.img)
          \/ q.st = "unmapped" /\ r = q
    BY <2>1, <2>3 DEF add_path_to_plist, InnerStates, Result
  <2>5. q.st # "moved"
    BY <2>3, <2>4
  <2>6. bucket_contains(I, h, p) <=> p \in Contents(I, h)
    BY <2>2, ContainsRight DEF Ordered
  <2>7. CASE q.st = "ok"
    <3>1. r.st = "ok" /\ r.img = Counted(q.img, h)
      BY <2>4, <2>7 DEF Result
    <3>2. ~ bucket_contains(I, h, p) /\ \E m \in Nat : \E Q :
            ImageInv(Q) /\ Grown(I, Q, h, m) /\ Entered(Q, q.img, h, p)
      BY <2>2, <2>7, BucketAddShape DEF Result
    <3>3. Gained(I, r.img, h, p)
      BY <2>3, <3>1, <3>2 DEF Gained
    <3> QED
      BY <2>6, <3>1, <3>2, <3>3 DEF AddEnds
  <2>8. CASE q = Result("refused", I) /\ bucket_contains(I, h, p)
    <3>1. r = Result("fail", I) /\ r.st = "fail"
      BY <2>4, <2>8 DEF Result
    <3> QED
      BY <2>6, <2>8, <3>1 DEF AddEnds
  <2>9. CASE /\ q.st \in {"refused", "unmapped"} /\ \E m \in Nat : Grown(I, q.img, h, m)
             /\ q.st = "refused" => q.img.len + 128 >= U32
    <3>1. /\ r.st \in {"fail", "unmapped"} /\ r.img = q.img
          /\ r.st = "fail" => q.st = "refused"
      BY <2>4, <2>9 DEF Result
    <3> QED
      BY <2>9, <3>1 DEF AddEnds
  <2> QED
    BY <2>2, <2>5, <2>7, <2>8, <2>9, BucketAddShape
<1> QED
  BY <1>1, <1>2

(* mlib_add_path() as two such calls, or one for .global itself. *)
LEMMA AddPathEnds ==
  ASSUME NEW I, ImageInv(I), Ordered(I), NEW n \in Names, NEW p \in Paths,
         NEW r \in add_path(I, n, p), Steady(I, r.img)
  PROVE  \/ n = Global /\ AddEnds(I, r, n, p) /\ r.st \in {"ok", "fail", "unmapped"}
         \/ n # Global /\ r = Result("fail", I) /\ find_playlist(I, Global) = {}
         \/ /\ n # Global /\ find_playlist(I, Global) # {}
            /\ \E s : /\ ImageInv(s.img) /\ Ordered(s.img) /\ s.img.len <= r.img.len
                      /\ AddEnds(I, s, Global, p)
                      /\ \/ /\ s.st \in {"ok", "fail"} /\ AddEnds(s.img, r, n, p)
                            /\ r.st \in {"ok", "fail", "unmapped"}
                         \/ s.st = "unmapped" /\ r = Result("killed", s.img)
<1>1. CASE n = Global
  BY <1>1, AddToNamedEnds DEF add_path
<1>2. CASE n # Global /\ find_playlist(I, Global) = {}
  BY <1>2 DEF add_path
<1>3. CASE n # Global /\ find_playlist(I, Global) # {}
  <2>1. PICK s \in AddToNamed(I, Global, p) :
          \/ s.st \in {"ok", "fail"} /\ r \in AddToNamed(s.img, n, p)
          \/ s.st = "unmapped" /\ r = Result("killed", s.img)
          \/ s.st \notin {"ok", "fail", "unmapped"} /\ r = s
    BY <1>3 DEF add_path
  <2>2. ImageInv(s.img) /\ OneAdd(I, s.img, Global, p) /\ Onward(I, s.img)
    BY AddToNamedStep, AddToNamedOnward
  <2>3. Ordered(s.img)
    BY <2>2, OneAddOrdered
  <2>4. CASE s.st \in {"ok", "fail"} /\ r \in AddToNamed(s.img, n, p)
    <3>1. ImageInv(r.img) /\ Onward(s.img, r.img)
      BY <2>2, <2>4, AddToNamedStep, AddToNamedOnward
    <3>2. Steady(I, s.img) /\ Steady(s.img, r.img)
      BY <2>2, <3>1, SteadyParts
    <3>3. AddEnds(I, s, Global, p) /\ AddEnds(s.img, r, n, p) /\ r.st \in {"ok", "fail", "unmapped"}
      BY <2>2, <2>3, <2>4, <3>2, AddToNamedEnds
    <3> QED
      BY <1>3, <2>2, <2>3, <2>4, <3>1, <3>3 DEF Onward
  <2>5. CASE s.st = "unmapped" /\ r = Result("killed", s.img)
    <3>1. r.img = s.img
      BY <2>5 DEF Result
    <3>2. AddEnds(I, s, Global, p)
      BY <3>1, AddToNamedEnds
    <3> QED
      BY <1>3, <2>2, <2>3, <2>5, <3>1, <3>2 DEF ImageInv, ImageTyped
  <2>6. CASE s.st \notin {"ok", "fail", "unmapped"} /\ r = s
    BY <2>6, AddToNamedEnds
  <2> QED
    BY <2>1, <2>4, <2>5, <2>6
<1> QED
  BY <1>1, <1>2, <1>3

-----------------------------------------------------------------------------

(* What a step does to the image when the mapping stays where it is. *)

Alike(I, J) == J.len = I.len /\ J.hdr = I.hdr /\ J.str = I.str /\ J.idx = I.idx

Made(I, J, n) ==
  \E Q : ImageInv(Q) /\ Q.hdr = I.hdr /\ Q.str = I.str /\ Q.idx = I.idx
         /\ Q.len = I.len + 272 /\ J = WithPlaylist(Q, I.len, n)

Widened(I, J, n, p) ==
  \/ J = I
  \/ \E h \in find_playlist(I, n) : (\E m \in Nat : Grown(I, J, h, m)) \/ Gained(I, J, h, p)

Removed(I, J, h) ==
  \/ Excised(I, J, h, I.hdr[h].length)
  \/ "ftruncate" \in Faults /\ J = Closed(I, h, h + I.hdr[h].length)

(* The new playlist is written into the mapping. *)
LEMMA StartPlaylistEnds ==
  ASSUME NEW I, ImageInv(I), NEW n \in Names, NEW r \in start_playlist(I, n), Steady(I, r.img)
  PROVE  \/ r = Result("fail", I) /\ find_playlist(I, n) # {}
         \/ find_playlist(I, n) = {} /\ r.st \in {"ok", "fail"} /\ Made(I, r.img, n)
         \/ /\ find_playlist(I, n) = {} /\ r.st \in {"fail", "unmapped"} /\ Alike(I, r.img)
            /\ r.st = "fail" => I.len + 272 >= U32
<1>1. CASE r = Result("fail", I) /\ find_playlist(I, n) # {}
  BY <1>1
<1>2. ASSUME find_playlist(I, n) = {}, NEW Q, ImageInv(Q), Q.hdr = I.hdr, Q.str = I.str,
             Q.idx = I.idx, Q.len = I.len + 272, r.img = WithPlaylist(Q, I.len, n)
      PROVE  Made(I, r.img, n)
  BY <1>2 DEF Made
<1>3. ASSUME NEW q \in library_expand(I, I.len + 272), q.st = "moved", q.img = r.img
      PROVE  FALSE
  <2>1. I.len + 272 \in Nat
    BY DEF ImageInv, ImageTyped
  <2> QED
    BY <1>3, <2>1, ExpandOnward
<1>4. ASSUME find_playlist(I, n) = {}, r.st \in {"fail", "unmapped"}, NEW Q, r.img = Q,
             Q.hdr = I.hdr, Q.str = I.str, Q.idx = I.idx, Q.len = I.len
      PROVE  Alike(I, r.img)
  BY <1>4 DEF Alike
<1>5. CASE ~ (r = Result("fail", I) /\ find_playlist(I, n) # {})
  <2>1. PICK Q : /\ find_playlist(I, n) = {}
                 /\ ImageInv(Q) /\ Q.hdr = I.hdr /\ Q.str = I.str /\ Q.idx = I.idx
                 /\ \/ /\ r.st \in {"ok", "fail"} /\ Q.len = I.len + 272
                       /\ r.img = WithPlaylist(Q, I.len, n)
                    \/ \E q \in library_expand(I, I.len + 272) : q.st = "moved" /\ q.img = r.img
                    \/ /\ r.st \in {"fail", "unmapped"} /\ r.img = Q /\ Q.len = I.len
                       /\ r.st = "fail" => I.len + 272 >= U32
    BY <1>5, StartPlaylistShape
  <2> QED
    BY <1>2, <1>3, <1>4, <2>1
<1> QED
  BY <1>1, <1>5

(* The first playlist is made within the page of the header. *)
LEMMA FirstPlaylist ==
  ASSUME NEW r \in start_playlist(BlankLibrary, Global)
  PROVE  \/ r.st \in {"ok", "fail"} /\ Made(BlankLibrary, r.img, Global)
         \/ r.st = "unmapped" /\ Alike(BlankLibrary, r.img)
<1> DEFINE B == BlankLibrary
<1>1. ImageInv(B) /\ B.len = 1024 /\ B.hdr = NoCells /\ Global \in Names
  BY BlankSafe, NamesAssumption, LayoutConstants DEF BlankLibrary
<1>2. find_playlist(B, Global) = {}
  BY <1>1, FindPlaylistFacts DEF NoCells
<1> HIDE DEF B
<1>3. \A Q : ImageInv(Q) => WithPlaylist(Q, B.len, Global).len = Q.len
  BY DEF WithPlaylist, ImageInv, ImageTyped
<1>4. r.img.len = 1024 \/ r.img.len = 1296
  <2>1. r \in start_playlist(B, Global)
    BY DEF B
  <2>2. \E Q : ImageInv(Q) /\ (r.img = Q \/ r.img = WithPlaylist(Q, B.len, Global))
               /\ (Q.len = B.len \/ Q.len = B.len + 272)
    BY <1>1, <1>2, <2>1, StartPlaylistShape
  <2> QED
    BY <1>1, <1>3, <2>2
<1>5. Steady(B, r.img)
  BY <1>1, <1>4, OnePage DEF Steady
<1>6. ~ (B.len + 272 >= U32)
  BY <1>1, SizesAssumption
<1>7. r \in start_playlist(B, Global)
  BY DEF B
<1>8. \/ r.st \in {"ok", "fail"} /\ Made(B, r.img, Global)
      \/ r.st \in {"fail", "unmapped"} /\ Alike(B, r.img) /\ r.st # "fail"
  BY <1>1, <1>2, <1>5, <1>6, <1>7, StartPlaylistEnds
<1> QED
  BY <1>8 DEF B

LEMMA EndsWidened ==
  ASSUME NEW I, NEW r, NEW n, NEW p, AddEnds(I, r, n, p)
  PROVE  Widened(I, r.img, n, p)
BY DEF AddEnds, Widened, Result

LEMMA AddPathWidened ==
  ASSUME NEW I, ImageInv(I), Ordered(I), NEW n \in Names, NEW p \in Paths,
         NEW r \in add_path(I, n, p), Steady(I, r.img)
  PROVE  \E K : ImageInv(K) /\ Widened(I, K, Global, p) /\ Widened(K, r.img, n, p)
<1>1. \A K, m : Widened(K, K, m, p)
  BY DEF Widened
<1>2. CASE AddEnds(I, r, n, p)
  BY <1>1, <1>2, EndsWidened
<1>3. CASE r = Result("fail", I)
  BY <1>1, <1>3 DEF Result
<1>4. ASSUME NEW s, ImageInv(s.img), AddEnds(I, s, Global, p),
             AddEnds(s.img, r, n, p) \/ r = Result("killed", s.img)
      PROVE  \E K : ImageInv(K) /\ Widened(I, K, Global, p) /\ Widened(K, r.img, n, p)
  <2>1. Widened(I, s.img, Global, p)
    BY <1>4, EndsWidened
  <2>2. Widened(s.img, r.img, n, p)
    BY <1>1, <1>4, EndsWidened DEF Result
  <2> QED
    BY <1>4, <2>1, <2>2
<1> QED
  BY <1>2, <1>3, <1>4, AddPathEnds

LEMMA DeletePlaylistRemoved ==
  ASSUME NEW I, ImageInv(I), NEW n, NEW r \in delete_playlist(I, n)
  PROVE  r.img = I \/ \E h \in find_playlist(I, n) : Removed(I, r.img, h)
<1>1. CASE r = Result("fail", I)
  BY <1>1 DEF Result
<1> QED
  BY <1>1, DeletePlaylistShape DEF Removed

-----------------------------------------------------------------------------

(* Each playlist counts its own paths. *)

Counts(I) == \A h \in DOMAIN I.hdr : I.hdr[h].mcount = bucket_nr_indexes(I, h)

LEMMA FromCounts ==
  ASSUME NEW I, Counts(I), NEW J,
         \A g \in DOMAIN J.hdr : \E k \in DOMAIN I.hdr : Kept(I, k, J, g)
  PROVE  Counts(J)
BY DEF Counts, Kept

LEMMA GrownCounts ==
  ASSUME NEW I, Counts(I), NEW h, NEW n, NEW J, Grown(I, J, h, n)
  PROVE  Counts(J)
BY FromCounts DEF Grown

(* The index array and mcount grow by one each. *)
LEMMA GainedCounts ==
  ASSUME NEW I, ImageInv(I), Counts(I), NEW h \in DOMAIN I.hdr, NEW p \in Paths,
         NEW J, Gained(I, J, h, p)
  PROVE  Counts(J)
<1>1. PICK n, Q, K : /\ n \in Nat /\ ImageInv(Q) /\ Grown(I, Q, h, n) /\ ImageInv(K)
                     /\ Entered(Q, K, h, p) /\ J = Counted(K, h)
  BY DEF Gained
<1>2. Counts(Q)
  BY <1>1, GrownCounts
<1>3. h \in DOMAIN Q.hdr /\ h \in DOMAIN K.hdr /\ DOMAIN K.hdr = DOMAIN Q.hdr
  <2>1. h = MovedTo(h, n, h)
    BY CellFacts DEF MovedTo
  <2>2. MovedTo(h, n, h) \in DOMAIN Q.hdr
    BY <1>1 DEF Grown
  <2> QED
    BY <1>1, <2>1, <2>2 DEF Entered
<1>4. \A o \in DOMAIN K.hdr : K.hdr[o].mcount + (IF o = h THEN 1 ELSE 0) = bucket_nr_indexes(K, o)
  <2> SUFFICES ASSUME NEW o \in DOMAIN K.hdr
               PROVE  K.hdr[o].mcount + (IF o = h THEN 1 ELSE 0) = bucket_nr_indexes(K, o)
    OBVIOUS
  <2>1. Q.hdr[o].mcount = bucket_nr_indexes(Q, o) /\ Q.hdr[o].mcount \in Nat
    BY <1>1, <1>2, <1>3, CellFacts DEF Counts, Cell
  <2>2. CASE o = h
    BY <1>1, <2>1, <2>2 DEF Entered
  <2>3. CASE o # h
    BY <1>1, <1>3, <2>1, <2>3 DEF Entered, Kept
  <2> QED
    BY <2>2, <2>3
<1>5. /\ DOMAIN J.hdr = DOMAIN K.hdr
      /\ \A o \in DOMAIN K.hdr : /\ J.hdr[o].mcount = K.hdr[o].mcount + IF o = h THEN 1 ELSE 0
                                 /\ bucket_nr_indexes(J, o) = bucket_nr_indexes(K, o)
  BY <1>1, <1>3, CountedKeeps DEF bucket_nr_indexes
<1> QED
  BY <1>4, <1>5 DEF Counts

LEMMA WidenedCounts ==
  ASSUME NEW I, ImageInv(I), Counts(I), NEW n, NEW p \in Paths, NEW J, Widened(I, J, n, p)
  PROVE  Counts(J)
BY GrownCounts, GainedCounts, FindPlaylistFacts DEF Widened

LEMMA MadeFacts ==
  ASSUME NEW I, ImageInv(I), NEW n, NEW J, Made(I, J, n), NEW at, at = I.len
  PROVE  /\ at \in Nat /\ at \notin DOMAIN I.hdr
         /\ J.len = at + 272 /\ DOMAIN J.hdr = DOMAIN I.hdr \cup {at}
         /\ J.hdr[at] = NewPlaylist(n) /\ bucket_nr_indexes(J, at) = 0
         /\ \A g \in DOMAIN I.hdr : Kept(I, g, J, g) /\ J.hdr[g].length = I.hdr[g].length
         /\ J.hdr[at].name = Stored(n) /\ J.hdr[at].mcount = 0 /\ J.hdr[at].length = 272
<1>1. PICK Q : /\ ImageInv(Q) /\ Q.hdr = I.hdr /\ Q.str = I.str /\ Q.idx = I.idx
               /\ Q.len = at + 272 /\ J = WithPlaylist(Q, at, n)
  BY DEF Made
<1>2. at \in Nat /\ at \notin DOMAIN I.hdr
  BY BeforeEnd DEF ImageInv, ImageTyped
<1>3. /\ J.len = Q.len /\ DOMAIN J.hdr = DOMAIN Q.hdr \cup {at}
      /\ J.hdr[at] = NewPlaylist(n) /\ bucket_nr_indexes(J, at) = 0
      /\ \A g \in DOMAIN Q.hdr : Kept(Q, g, J, g) /\ J.hdr[g].length = Q.hdr[g].length
  BY <1>1, <1>2, WithPlaylistKeeps
<1>4. \A g \in DOMAIN I.hdr : Kept(I, g, J, g)
  BY <1>1, <1>3, KeptSelf, KeptKept
<1>5. PICK c : c = NewPlaylist(n)
  OBVIOUS
<1>6. c.name = Stored(n) /\ c.mcount = 0 /\ c.length = 272
  BY <1>5, LayoutConstants DEF NewPlaylist
<1> QED
  BY <1>1, <1>2, <1>3, <1>4, <1>5, <1>6

LEMMA MadeCounts ==
  ASSUME NEW I, ImageInv(I), Counts(I), NEW n, NEW J, Made(I, J, n)
  PROVE  Counts(J)
<1>1. PICK at : at = I.len
  OBVIOUS
<1>2. /\ DOMAIN J.hdr = DOMAIN I.hdr \cup {at}
      /\ J.hdr[at].mcount = 0 /\ bucket_nr_indexes(J, at) = 0
      /\ \A g \in DOMAIN I.hdr : Kept(I, g, J, g)
  BY <1>1, MadeFacts
<1> QED
  BY <1>2 DEF Counts, Kept

LEMMA RemovedCounts ==
  ASSUME NEW I, ImageInv(I), Counts(I), NEW h \in DOMAIN I.hdr, NEW J, Removed(I, J, h)
  PROVE  Counts(J)
<1>1. CASE Excised(I, J, h, I.hdr[h].length)
  BY <1>1, FromCounts DEF Excised
<1>2. CASE J = Closed(I, h, h + I.hdr[h].length)
  BY <1>2, ClosedFrom, FromCounts
<1> QED
  BY <1>1, <1>2 DEF Removed

LEMMA BlankCounts == Counts(BlankLibrary)
BY DEF Counts, BlankLibrary, NoCells

-----------------------------------------------------------------------------

(* The chain has no gap. *)

(* Where a playlist begins, or the library ends, the header ends or        *)
(* another playlist does.                                                  *)
Chained(I) ==
  \A t \in DOMAIN I.hdr \cup {I.len} :
    t = HeaderSize \/ \E k \in DOMAIN I.hdr : k + I.hdr[k].length = t

(* Every playlist is then on the walk: the first one that is not would     *)
(* begin where one on it ends.                                             *)
LEMMA ChainWalked ==
  ASSUME NEW I, ImageInv(I), Chained(I)
  PROVE  Visited(I) = DOMAIN I.hdr
<1>1. \A k \in DOMAIN I.hdr : /\ k \in Nat /\ k < I.len /\ I.hdr[k].length \in Nat
                              /\ I.hdr[k].length >= 144
  BY CellFacts, BeforeEnd
<1>2. ASSUME NEW h \in DOMAIN I.hdr, h \notin Visited(I) PROVE FALSE
  <2> DEFINE missed == DOMAIN I.hdr \ Visited(I)
  <2>1. missed \in SUBSET Nat /\ missed # {}
    BY <1>1, <1>2
  <2> HIDE DEF missed
  <2>2. PICK t \in missed : \A j \in missed : t <= j
    BY <2>1, Least
  <2>3. t \in DOMAIN I.hdr /\ t \notin Visited(I) /\ t \in Nat /\ t < I.len
    BY <1>1, <2>2 DEF missed
  <2>4. CASE t = HeaderSize
    BY <2>3, <2>4, VisitedFacts, Zenon
  <2>5. ASSUME NEW k \in DOMAIN I.hdr, k + I.hdr[k].length = t PROVE FALSE
    <3>1. k < t
      BY <1>1, <2>3, <2>5
    <3>2. k \in Visited(I)
      BY <1>1, <2>2, <2>3, <3>1 DEF missed
    <3> QED
      BY <2>3, <2>5, <3>2, VisitedFacts
  <2> QED
    BY <2>3, <2>4, <2>5 DEF Chained
<1> QED
  BY <1>2, VisitedFacts

LEMMA SameChain ==
  ASSUME NEW I, Chained(I), NEW J, J.len = I.len, DOMAIN J.hdr = DOMAIN I.hdr,
         \A k \in DOMAIN I.hdr : J.hdr[k].length = I.hdr[k].length
  PROVE  Chained(J)
BY DEF Chained

LEMMA GrownChain ==
  ASSUME NEW I, ImageInv(I), Chained(I), NEW h \in DOMAIN I.hdr, NEW n \in Nat,
         NEW J, Grown(I, J, h, n)
  PROVE  Chained(J)
<1>1. \A k \in DOMAIN I.hdr : /\ k \in Nat /\ k >= 1024 /\ I.hdr[k].length \in Nat
                              /\ I.hdr[k].length >= 144
                              /\ I.len \in Nat /\ k < I.len
                              /\ k < h => k + I.hdr[k].length <= h
                              /\ k > h => h + I.hdr[h].length <= k
  <2>1. \A k \in DOMAIN I.hdr : /\ k \in Nat /\ k >= 1024 /\ I.hdr[k].length \in Nat
                                /\ I.len \in Nat /\ k + I.hdr[k].length <= I.len
                                /\ I.hdr[k].length >= 144
    BY CellFacts
  <2>2. \A j, k \in DOMAIN I.hdr : j < k => j + I.hdr[j].length <= k
    BY DEF ImageInv, Disjoint
  <2> QED
    BY <2>1, <2>2
<1>2. /\ J.len = I.len + n
      /\ DOMAIN J.hdr = {MovedTo(h, n, k) : k \in DOMAIN I.hdr}
      /\ \A k \in DOMAIN I.hdr :
           J.hdr[MovedTo(h, n, k)].length = I.hdr[k].length + IF k = h THEN n ELSE 0
  BY DEF Grown
<1>3. ASSUME NEW u \in DOMAIN I.hdr \cup {I.len}, NEW t, t = MovedTo(h, n, u)
      PROVE  t = HeaderSize \/ \E g \in DOMAIN J.hdr : g + J.hdr[g].length = t
  <2>1. u \in Nat
    BY <1>1
  <2>2. CASE u = HeaderSize
    BY <1>1, <1>3, <2>2, LayoutConstants DEF MovedTo
  <2>3. ASSUME NEW k \in DOMAIN I.hdr, k + I.hdr[k].length = u
        PROVE  \E g \in DOMAIN J.hdr : g + J.hdr[g].length = t
    <3>1. PICK g : g = MovedTo(h, n, k)
      OBVIOUS
    <3>2. g \in DOMAIN J.hdr /\ J.hdr[g].length = I.hdr[k].length + IF k = h THEN n ELSE 0
      BY <1>2, <3>1
    <3>3. g + J.hdr[g].length = t
      <4>1. CASE k < h
        BY <1>1, <1>3, <2>3, <3>1, <3>2, <4>1 DEF MovedTo
      <4>2. CASE k = h
        BY <1>1, <1>3, <2>3, <3>1, <3>2, <4>2 DEF MovedTo
      <4>3. CASE k > h
        BY <1>1, <1>3, <2>3, <3>1, <3>2, <4>3 DEF MovedTo
      <4> QED
        BY <1>1, <4>1, <4>2, <4>3
    <3> QED
      BY <3>2, <3>3
  <2> QED
    BY <2>2, <2>3 DEF Chained
<1>4. J.len = MovedTo(h, n, I.len)
  BY <1>1, <1>2 DEF MovedTo
<1>5. \A t \in DOMAIN J.hdr \cup {J.len} : \E u \in DOMAIN I.hdr \cup {I.len} : t = MovedTo(h, n, u)
  BY <1>2, <1>4
<1> QED
  BY <1>3, <1>5 DEF Chained

LEMMA ExcisedChain ==
  ASSUME NEW I, ImageInv(I), Chained(I), NEW h \in DOMAIN I.hdr, NEW n, n = I.hdr[h].length,
         NEW J, Excised(I, J, h, n)
  PROVE  Chained(J)
<1>1. \A k \in DOMAIN I.hdr : /\ k \in Nat /\ k >= 1024 /\ I.hdr[k].length \in Nat
                              /\ I.hdr[k].length >= 144
                              /\ I.len \in Nat /\ k + I.hdr[k].length <= I.len
                              /\ k < h => k + I.hdr[k].length <= h
                              /\ k > h => h + n <= k
  <2>1. \A k \in DOMAIN I.hdr : /\ k \in Nat /\ k >= 1024 /\ I.hdr[k].length \in Nat
                                /\ I.len \in Nat /\ k + I.hdr[k].length <= I.len
                                /\ I.hdr[k].length >= 144
    BY CellFacts
  <2>2. \A j, k \in DOMAIN I.hdr : j < k => j + I.hdr[j].length <= k
    BY DEF ImageInv, Disjoint
  <2> QED
    BY <2>1, <2>2
<1>2. /\ J.len = I.len - n
      /\ DOMAIN J.hdr = {MovedBack(h, n, k) : k \in DOMAIN I.hdr \ {h}}
      /\ \A k \in DOMAIN I.hdr \ {h} : J.hdr[MovedBack(h, n, k)].length = I.hdr[k].length
  BY DEF Excised
<1> DEFINE Reached(t) == t = HeaderSize \/ \E g \in DOMAIN J.hdr : g + J.hdr[g].length = t

(* What ends before playlist h, or behind it, ends there still. *)
<1>3. ASSUME NEW k \in DOMAIN I.hdr, k # h
      PROVE  Reached(MovedBack(h, n, k) + I.hdr[k].length)
  BY <1>2, <1>3
<1>4. Reached(h)
  <2>1. CASE h = HeaderSize
    BY <2>1
  <2>2. ASSUME NEW k \in DOMAIN I.hdr, k + I.hdr[k].length = h PROVE Reached(h)
    <3>1. k < h
      BY <1>1, <2>2
    <3>2. MovedBack(h, n, k) + I.hdr[k].length = h
      BY <2>2, <3>1 DEF MovedBack
    <3> QED
      BY <1>1, <1>3, <3>1, <3>2
  <2> HIDE DEF Reached
  <2> QED
    BY <2>1, <2>2 DEF Chained
<1>5. ASSUME NEW u \in DOMAIN I.hdr \cup {I.len}, u # h PROVE Reached(MovedBack(h, n, u))
  <2>1. u \in Nat
    BY <1>1
  <2>2. CASE u = HeaderSize
    <3>1. u < h \/ u > h
      BY <1>1, <1>5, <2>1
    <3>2. MovedBack(h, n, u) = u
      BY <1>1, <2>2, <3>1, LayoutConstants DEF MovedBack
    <3> QED
      BY <2>2, <3>2
  <2>3. ASSUME NEW k \in DOMAIN I.hdr, k + I.hdr[k].length = u
        PROVE  Reached(MovedBack(h, n, u))
    <3> HIDE DEF Reached
    <3>1. CASE k = h
      <4>1. MovedBack(h, n, u) = h
        BY <1>1, <2>3, <3>1 DEF MovedBack
      <4> QED
        BY <1>4, <4>1
    <3>2. CASE k < h
      <4>1. MovedBack(h, n, u) = MovedBack(h, n, k) + I.hdr[k].length
        BY <1>1, <1>5, <2>1, <2>3, <3>2 DEF MovedBack
      <4> QED
        BY <1>1, <1>3, <3>2, <4>1
    <3>3. CASE k > h
      <4>1. MovedBack(h, n, u) = MovedBack(h, n, k) + I.hdr[k].length
        BY <1>1, <1>5, <2>1, <2>3, <3>3 DEF MovedBack
      <4> QED
        BY <1>1, <1>3, <3>3, <4>1
    <3> QED
      BY <1>1, <3>1, <3>2, <3>3
  <2> HIDE DEF Reached
  <2> QED
    BY <2>2, <2>3 DEF Chained
<1>6. J.len = MovedBack(h, n, I.len) /\ I.len # h
  BY <1>1, <1>2 DEF MovedBack
<1>7. \A t \in DOMAIN J.hdr \cup {J.len} :
        \E u \in DOMAIN I.hdr \cup {I.len} : u # h /\ t = MovedBack(h, n, u)
  BY <1>2, <1>6
<1> QED
  BY <1>5, <1>7 DEF Chained

LEMMA MadeChain ==
  ASSUME NEW I, ImageInv(I), Chained(I), NEW n, NEW J, Made(I, J, n)
  PROVE  Chained(J)
<1>1. PICK at : at = I.len
  OBVIOUS
<1>2. /\ at \in Nat /\ J.len = at + 272 /\ DOMAIN J.hdr = DOMAIN I.hdr \cup {at}
      /\ J.hdr[at].length = 272
      /\ \A g \in DOMAIN I.hdr : J.hdr[g].length = I.hdr[g].length
  BY <1>1, MadeFacts
<1> QED
  BY <1>1, <1>2 DEF Chained

LEMMA GainedChain ==
  ASSUME NEW I, ImageInv(I), Chained(I), NEW h \in DOMAIN I.hdr, NEW p \in Paths,
         NEW J, Gained(I, J, h, p)
  PROVE  Chained(J)
<1>1. PICK n, Q, K : /\ n \in Nat /\ ImageInv(Q) /\ Grown(I, Q, h, n) /\ ImageInv(K)
                     /\ Entered(Q, K, h, p) /\ J = Counted(K, h)
  BY DEF Gained
<1>2. Chained(Q)
  BY <1>1, GrownChain
<1>3. /\ K.len = Q.len /\ DOMAIN K.hdr = DOMAIN Q.hdr
      /\ \A k \in DOMAIN Q.hdr : K.hdr[k].length = Q.hdr[k].length
  BY <1>1 DEF Entered
<1>4. Chained(K)
  BY <1>2, <1>3, SameChain
<1>5. h \in DOMAIN K.hdr
  <2>1. h = MovedTo(h, n, h)
    BY CellFacts DEF MovedTo
  <2>2. MovedTo(h, n, h) \in DOMAIN Q.hdr
    BY <1>1 DEF Grown
  <2> QED
    BY <1>3, <2>1, <2>2
<1>6. /\ J.len = K.len /\ DOMAIN J.hdr = DOMAIN K.hdr
      /\ \A k \in DOMAIN K.hdr : J.hdr[k].length = K.hdr[k].length
  BY <1>1, <1>5, CountedKeeps
<1> QED
  BY <1>4, <1>6, SameChain

LEMMA WidenedChain ==
  ASSUME NEW I, ImageInv(I), Chained(I), NEW n, NEW p \in Paths, NEW J, Widened(I, J, n, p)
  PROVE  Chained(J)
BY GrownChain, GainedChain, FindPlaylistFacts DEF Widened

LEMMA BlankChain == Chained(BlankLibrary)
BY DEF Chained, BlankLibrary, NoCells
=============================================================================

---------------------------- MODULE StoreProofs -----------------------------
(***************************************************************************)
(* That the bytes keep the promise: every step of Library is a step that   *)
(* PlaylistStore allows, or none that its user can see; and what follows   *)
(* from it for the playlists that a command does not name.                 *)
(***************************************************************************)
EXTENDS LibraryProofs, LibraryStore

(* An image whose playlists are all on the walk, under names of their own. *)
Good(I) == ImageInv(I) /\ Ordered(I) /\ Chained(I) /\ NamesApart(I)

-----------------------------------------------------------------------------
(* The lists of an image. *)

(* Without two playlists of one name, all of them are shown. *)
LEMMA ShownFacts ==
  ASSUME NEW I, Good(I)
  PROVE  /\ Visited(I) = DOMAIN I.hdr
         /\ \A g, h \in DOMAIN I.hdr : I.hdr[g].name = I.hdr[h].name => g = h
         /\ Shown(I) = {<<I.hdr[h].name, Contents(I, h)>> : h \in DOMAIN I.hdr}
<1>1. Visited(I) = DOMAIN I.hdr
  BY ChainWalked DEF Good
<1>2. \A g, h \in DOMAIN I.hdr : I.hdr[g].name = I.hdr[h].name => g = h
  BY <1>1 DEF Good, NamesApart
<1>3. \A h \in DOMAIN I.hdr : h \in Nat
  BY CellFacts DEF Good
<1>4. {x \in Visited(I) : \A y \in Visited(I) : I.hdr[y].name = I.hdr[x].name => x <= y} = DOMAIN I.hdr
  BY <1>1, <1>2, <1>3
<1>5. Shown(I) = {<<I.hdr[h].name, Contents(I, h)>> : h \in DOMAIN I.hdr}
  BY <1>4, Zenon DEF Shown
<1> QED
  BY <1>1, <1>2, <1>5

LEMMA ListsFacts ==
  ASSUME NEW I, Good(I)
  PROVE  /\ Lists(I) = [n \in DOMAIN Lists(I) |-> Lists(I)[n]]
         /\ \A h \in DOMAIN I.hdr : /\ I.hdr[h].name \in DOMAIN Lists(I)
                                    /\ Lists(I)[I.hdr[h].name] = Contents(I, h)
         /\ \A n \in DOMAIN Lists(I) : \E h \in DOMAIN I.hdr : I.hdr[h].name = n
<1> DEFINE S == Shown(I)
           C(n) == CHOOSE s \in S : s[1] = n
<1>1. Lists(I) = [n \in {s[1] : s \in S} |-> C(n)[2]]
  BY DEF Lists
<1>2. /\ \A h \in DOMAIN I.hdr : <<I.hdr[h].name, Contents(I, h)>> \in S
      /\ \A s \in S : \E h \in DOMAIN I.hdr : s = <<I.hdr[h].name, Contents(I, h)>>
  BY ShownFacts
<1> HIDE DEF S
<1>3. ASSUME NEW h \in DOMAIN I.hdr
      PROVE  /\ I.hdr[h].name \in {s[1] : s \in S}
             /\ C(I.hdr[h].name)[2] = Contents(I, h)
  <2>1. PICK c : c = C(I.hdr[h].name)
    OBVIOUS
  <2>2. \E s \in S : s[1] = I.hdr[h].name
    BY <1>2
  <2>3. c \in S /\ c[1] = I.hdr[h].name
    BY <2>1, <2>2
  <2>4. PICK g \in DOMAIN I.hdr : c = <<I.hdr[g].name, Contents(I, g)>>
    BY <1>2, <2>3
  <2>5. g = h
    BY <2>3, <2>4, ShownFacts
  <2>6. I.hdr[h].name \in {s[1] : s \in S}
    BY <2>3
  <2>7. c[2] = Contents(I, h)
    BY <2>4, <2>5
  <2> HIDE DEF C
  <2> QED
    BY <2>1, <2>6, <2>7
<1>4. \A n \in {s[1] : s \in S} : \E h \in DOMAIN I.hdr : I.hdr[h].name = n
  BY <1>2
<1> HIDE DEF C
<1>5. DOMAIN Lists(I) = {s[1] : s \in S} /\ \A n \in DOMAIN Lists(I) : Lists(I)[n] = C(n)[2]
  <2>1. PICK F, D : F = Lists(I) /\ D = {s[1] : s \in S}
    OBVIOUS
  <2>2. F = [n \in D |-> C(n)[2]]
    BY <1>1, <2>1, Zenon
  <2>3. DOMAIN F = D /\ \A n \in D : F[n] = C(n)[2]
    BY <2>2
  <2> QED
    BY <2>1, <2>3, Zenon
<1>6. Lists(I) = [n \in DOMAIN Lists(I) |-> Lists(I)[n]]
  BY <1>1, <1>5
<1> QED
  BY <1>3, <1>4, <1>5, <1>6

(* A function that gives the contents of each playlist by name is Lists. *)
LEMMA ListsAre ==
  ASSUME NEW I, Good(I), NEW f, f = [n \in DOMAIN f |-> f[n]],
         \A h \in DOMAIN I.hdr : I.hdr[h].name \in DOMAIN f /\ f[I.hdr[h].name] = Contents(I, h),
         \A n \in DOMAIN f : \E h \in DOMAIN I.hdr : I.hdr[h].name = n
  PROVE  Lists(I) = f
<1>1. PICK L : L = Lists(I)
  OBVIOUS
<1>2. /\ L = [n \in DOMAIN L |-> L[n]]
      /\ \A h \in DOMAIN I.hdr : I.hdr[h].name \in DOMAIN L /\ L[I.hdr[h].name] = Contents(I, h)
      /\ \A n \in DOMAIN L : \E h \in DOMAIN I.hdr : I.hdr[h].name = n
  BY <1>1, ListsFacts
<1>3. DOMAIN L = DOMAIN f
  BY <1>2
<1>4. \A n \in DOMAIN f : L[n] = f[n]
  BY <1>2
<1> QED
  BY <1>1, <1>2, <1>3, <1>4

(* What mlib_find_playlist() says of the lists. *)
LEMMA FoundLists ==
  ASSUME NEW I, Good(I), NEW n
  PROVE  /\ find_playlist(I, n) = {} <=> n \notin DOMAIN Lists(I)
         /\ \A h \in find_playlist(I, n) : /\ h \in DOMAIN I.hdr /\ I.hdr[h].name = n
                                           /\ n \in DOMAIN Lists(I)
                                           /\ Lists(I)[n] = Contents(I, h)
<1>1. ASSUME NEW h \in find_playlist(I, n)
      PROVE  /\ h \in DOMAIN I.hdr /\ I.hdr[h].name = n
             /\ n \in DOMAIN Lists(I) /\ Lists(I)[n] = Contents(I, h)
  <2>1. h \in DOMAIN I.hdr /\ I.hdr[h].name = n
    BY VisitedFacts DEF find_playlist
  <2> QED
    BY <2>1, ListsFacts
<1>2. ASSUME find_playlist(I, n) = {}, n \in DOMAIN Lists(I) PROVE FALSE
  <2>1. PICK h \in DOMAIN I.hdr : I.hdr[h].name = n
    BY <1>2, ListsFacts
  <2>2. h \in Visited(I)
    BY ShownFacts
  <2> QED
    BY <1>2, <2>1, <2>2, NotFound DEF Good
<1> QED
  BY <1>1, <1>2
-----------------------------------------------------------------------------
(* What each change of the image does to its lists. *)

LEMMA SameLists ==
  ASSUME NEW I, Good(I), NEW J, Good(J),
         \A g \in DOMAIN J.hdr : \E k \in DOMAIN I.hdr : Kept(I, k, J, g),
         \A k \in DOMAIN I.hdr : \E g \in DOMAIN J.hdr : Kept(I, k, J, g)
  PROVE  Lists(J) = Lists(I)
<1>1. PICK f : f = Lists(I)
  OBVIOUS
<1>2. /\ f = [n \in DOMAIN f |-> f[n]]
      /\ \A h \in DOMAIN I.hdr : I.hdr[h].name \in DOMAIN f /\ f[I.hdr[h].name] = Contents(I, h)
      /\ \A n \in DOMAIN f : \E h \in DOMAIN I.hdr : I.hdr[h].name = n
  BY <1>1, ListsFacts
<1>3. \A g \in DOMAIN J.hdr, k \in DOMAIN I.hdr : Kept(I, k, J, g) =>
        J.hdr[g].name = I.hdr[k].name /\ Contents(J, g) = Contents(I, k)
  <2> SUFFICES ASSUME NEW g \in DOMAIN J.hdr, NEW k \in DOMAIN I.hdr, Kept(I, k, J, g)
               PROVE  J.hdr[g].name = I.hdr[k].name /\ Contents(J, g) = Contents(I, k)
    OBVIOUS
  <2>1. J.hdr[g].name = I.hdr[k].name
    BY DEF Kept
  <2>2. Contents(J, g) = Contents(I, k)
    BY KeptFacts DEF Good, Ordered
  <2> QED
    BY <2>1, <2>2
<1>4. \A g \in DOMAIN J.hdr : J.hdr[g].name \in DOMAIN f /\ f[J.hdr[g].name] = Contents(J, g)
  BY <1>2, <1>3
<1>5. \A n \in DOMAIN f : \E g \in DOMAIN J.hdr : J.hdr[g].name = n
  BY <1>2, <1>3
<1> QED
  BY <1>1, <1>2, <1>4, <1>5, ListsAre

LEMMA AlikeLists ==
  ASSUME NEW I, Good(I), NEW J, ImageInv(J), Alike(I, J)
  PROVE  Good(J) /\ Lists(J) = Lists(I)
<1>1. DOMAIN J.hdr = DOMAIN I.hdr /\ \A k \in DOMAIN I.hdr : Kept(I, k, J, k)
  BY KeptSelf DEF Alike
<1>2. Ordered(J)
  BY <1>1, FromOrdered DEF Good
<1>3. Chained(J)
  BY DEF Good, Alike, Chained
<1>4. NamesApart(J)
  BY <1>3, ShownFacts, ChainWalked DEF Alike, NamesApart
<1>5. Good(J)
  BY <1>2, <1>3, <1>4 DEF Good
<1> QED
  BY <1>1, <1>5, SameLists

LEMMA GrownLists ==
  ASSUME NEW I, Good(I), NEW h \in DOMAIN I.hdr, NEW m \in Nat, NEW J, ImageInv(J),
         Grown(I, J, h, m)
  PROVE  Good(J) /\ Lists(J) = Lists(I)
<1>1. /\ \A g \in DOMAIN J.hdr : \E k \in DOMAIN I.hdr : Kept(I, k, J, g)
      /\ \A k \in DOMAIN I.hdr : \E g \in DOMAIN J.hdr : Kept(I, k, J, g)
  BY DEF Grown
<1>2. Ordered(J)
  BY <1>1, FromOrdered DEF Good
<1>3. Chained(J) /\ NamesApart(J)
  BY GrownChain, GrownApart DEF Good
<1>4. Good(J)
  BY <1>2, <1>3 DEF Good
<1> QED
  BY <1>1, <1>4, SameLists

(* A new playlist is listed empty beside the others. *)
LEMMA MadeLists ==
  ASSUME NEW I, Good(I), NEW n \in Names \ LongNames, find_playlist(I, n) = {},
         NEW J, ImageInv(J), Ordered(J), Made(I, J, n)
  PROVE  /\ Good(J)
         /\ Lists(J) = [m \in DOMAIN Lists(I) \cup {n} |-> IF m = n THEN {} ELSE Lists(I)[m]]
<1>1. PICK at, L, f : /\ at = I.len /\ L = Lists(I)
                      /\ f = [m \in DOMAIN L \cup {n} |-> IF m = n THEN {} ELSE L[m]]
  OBVIOUS
<1>2. /\ DOMAIN J.hdr = DOMAIN I.hdr \cup {at} /\ at \notin DOMAIN I.hdr
      /\ J.hdr[at].name = n /\ bucket_nr_indexes(J, at) = 0
      /\ \A g \in DOMAIN I.hdr : Kept(I, g, J, g)
  BY <1>1, MadeFacts DEF Good, Stored
<1>3. /\ \A h \in DOMAIN I.hdr : I.hdr[h].name \in DOMAIN L /\ L[I.hdr[h].name] = Contents(I, h)
      /\ \A m \in DOMAIN L : \E h \in DOMAIN I.hdr : I.hdr[h].name = m
      /\ n \notin DOMAIN L
  BY <1>1, ListsFacts, FoundLists
<1>4. \A g \in DOMAIN I.hdr : /\ J.hdr[g].name = I.hdr[g].name /\ Contents(J, g) = Contents(I, g)
                              /\ J.hdr[g].name # n
  <2>1. \A g \in DOMAIN I.hdr : J.hdr[g].name = I.hdr[g].name
    BY <1>2 DEF Kept
  <2>2. \A g \in DOMAIN I.hdr : Contents(J, g) = Contents(I, g)
    BY <1>2, KeptFacts DEF Good, Ordered
  <2> QED
    BY <1>3, <2>1, <2>2
<1>5. Contents(J, at) = {}
  BY <1>2 DEF Contents
<1>6. Good(J)
  <2>1. Chained(J)
    BY MadeChain DEF Good
  <2>2. Visited(J) = DOMAIN J.hdr
    BY <2>1, ChainWalked
  <2>3. NamesApart(J)
    BY <1>2, <1>4, <2>2, ShownFacts DEF NamesApart
  <2> QED
    BY <2>1, <2>3 DEF Good
<1>7. Lists(J) = f
  <2>1. DOMAIN f = DOMAIN L \cup {n} /\ f[n] = {} /\ \A m \in DOMAIN L : m # n => f[m] = L[m]
    BY <1>1
  <2>2. \A g \in DOMAIN J.hdr : J.hdr[g].name \in DOMAIN f /\ f[J.hdr[g].name] = Contents(J, g)
    BY <1>2, <1>3, <1>4, <1>5, <2>1
  <2>3. \A m \in DOMAIN f : \E g \in DOMAIN J.hdr : J.hdr[g].name = m
    BY <1>2, <1>3, <1>4, <2>1
  <2>4. f = [m \in DOMAIN f |-> f[m]]
    BY <1>1
  <2> QED
    BY <1>6, <2>2, <2>3, <2>4, ListsAre
<1> QED
  BY <1>1, <1>6, <1>7

(* A playlist removed is gone from the lists, and no other is. *)
LEMMA ExcisedLists ==
  ASSUME NEW I, Good(I), NEW n, NEW h \in find_playlist(I, n),
         NEW J, ImageInv(J), Ordered(J), Excised(I, J, h, I.hdr[h].length)
  PROVE  Good(J) /\ Lists(J) = [m \in DOMAIN Lists(I) \ {n} |-> Lists(I)[m]]
<1>1. PICK L, f, x : /\ L = Lists(I) /\ f = [m \in DOMAIN L \ {n} |-> L[m]]
                     /\ x = I.hdr[h].length
  OBVIOUS
<1>2. h \in DOMAIN I.hdr /\ I.hdr[h].name = n
  BY FoundLists
<1>3. /\ \A k \in DOMAIN I.hdr : I.hdr[k].name \in DOMAIN L /\ L[I.hdr[k].name] = Contents(I, k)
      /\ \A m \in DOMAIN L : \E k \in DOMAIN I.hdr : I.hdr[k].name = m
      /\ \A j, k \in DOMAIN I.hdr : I.hdr[j].name = I.hdr[k].name => j = k
  BY <1>1, ListsFacts, ShownFacts
<1>4. /\ DOMAIN J.hdr = {MovedBack(h, x, k) : k \in DOMAIN I.hdr \ {h}}
      /\ \A k \in DOMAIN I.hdr \ {h} : /\ J.hdr[MovedBack(h, x, k)].name = I.hdr[k].name
                                       /\ Contents(J, MovedBack(h, x, k)) = Contents(I, k)
  <2>1. /\ DOMAIN J.hdr = {MovedBack(h, x, k) : k \in DOMAIN I.hdr \ {h}}
        /\ \A k \in DOMAIN I.hdr \ {h} : Kept(I, k, J, MovedBack(h, x, k))
    BY <1>1 DEF Excised
  <2>2. \A k \in DOMAIN I.hdr \ {h} : J.hdr[MovedBack(h, x, k)].name = I.hdr[k].name
    BY <2>1 DEF Kept
  <2>3. \A k \in DOMAIN I.hdr \ {h} : Contents(J, MovedBack(h, x, k)) = Contents(I, k)
    BY <2>1, KeptFacts DEF Good, Ordered
  <2> QED
    BY <2>1, <2>2, <2>3
<1>5. Good(J)
  <2>1. Chained(J)
    BY <1>2, ExcisedChain DEF Good
  <2>2. Visited(J) = DOMAIN J.hdr
    BY <2>1, ChainWalked
  <2>3. NamesApart(J)
    BY <1>3, <1>4, <2>2 DEF NamesApart
  <2> QED
    BY <2>1, <2>3 DEF Good
<1>6. Lists(J) = f
  <2>1. DOMAIN f = DOMAIN L \ {n} /\ \A m \in DOMAIN L \ {n} : f[m] = L[m]
    BY <1>1
  <2>2. \A k \in DOMAIN I.hdr \ {h} : I.hdr[k].name \in DOMAIN f /\ f[I.hdr[k].name] = Contents(I, k)
    BY <1>2, <1>3, <2>1
  <2>3. \A g \in DOMAIN J.hdr : J.hdr[g].name \in DOMAIN f /\ f[J.hdr[g].name] = Contents(J, g)
    BY <1>4, <2>2
  <2>4. \A m \in DOMAIN f : \E k \in DOMAIN I.hdr \ {h} : I.hdr[k].name = m
    BY <1>2, <1>3, <2>1
  <2>5. \A m \in DOMAIN f : \E g \in DOMAIN J.hdr : J.hdr[g].name = m
    BY <1>4, <2>4
  <2>6. f = [m \in DOMAIN f |-> f[m]]
    BY <1>1
  <2> QED
    BY <1>5, <2>3, <2>5, <2>6, ListsAre
<1> QED
  BY <1>1, <1>5, <1>6

(* The strings of the playlist that a path entered: its own and the path. *)
LEMMA EnteredContents ==
  ASSUME NEW I, ImageInv(I), NEW h \in DOMAIN I.hdr, BucketSound(I, h), NEW p \in Paths,
         NEW J, Entered(I, J, h, p)
  PROVE  Contents(J, h) = Contents(I, h) \cup {p}
<1>1. PICK s, W, V : s = I.hdr[h].sbytes /\ W = Words(I, h) /\ V = Words(J, h)
  OBVIOUS
<1>2. \A K : \A c : c \in Contents(K, h) <=> \E w \in Words(K, h) : c = K.str[Strings(h) + w]
  BY WordsByIndex DEF Contents, bucket_string, bucket_string_at
<1>3. V = W \cup {s} /\ J.str[Strings(h) + s] = p
  BY <1>1 DEF Entered
<1>4. \A w \in W : J.str[Strings(h) + w] = I.str[Strings(h) + w]
  <2>1. \A w \in W : w \in Nat /\ w < s /\ Strings(h) + w \in DOMAIN I.str
    BY <1>1, WordFacts
  <2>2. Strings(h) \in Nat /\ s \in Nat
    BY <1>1, Regions, CellFacts
  <2>3. \A x \in DOMAIN I.str : x # Strings(h) + s => J.str[x] = I.str[x]
    BY <1>1 DEF Entered
  <2> QED
    BY <2>1, <2>2, <2>3
<1>5. \A c : c \in Contents(J, h) <=> c \in Contents(I, h) \cup {p}
  <2>1. \A c : c \in Contents(J, h) <=> \E w \in V : c = J.str[Strings(h) + w]
    BY <1>1, <1>2
  <2>2. \A c : c \in Contents(I, h) <=> \E w \in W : c = I.str[Strings(h) + w]
    BY <1>1, <1>2
  <2> QED
    BY <1>3, <1>4, <2>1, <2>2
<1> QED
  BY <1>5

(* A path that enters a playlist is added to its list and to no other. *)
LEMMA GainedLists ==
  ASSUME NEW I, Good(I), NEW n, NEW h \in find_playlist(I, n), NEW p \in Paths,
         NEW J, ImageInv(J), Ordered(J), Gained(I, J, h, p)
  PROVE  Good(J) /\ Lists(J) = [Lists(I) EXCEPT ![n] = @ \cup {p}]
<1>1. h \in DOMAIN I.hdr /\ ImageInv(I)
  BY FoundLists DEF Good
<1>2. PICK m, Q, K : /\ m \in Nat /\ ImageInv(Q) /\ Grown(I, Q, h, m) /\ ImageInv(K)
                     /\ Entered(Q, K, h, p) /\ J = Counted(K, h)
  BY DEF Gained
<1>3. Good(Q) /\ Lists(Q) = Lists(I)
  BY <1>1, <1>2, GrownLists
<1>4. h \in DOMAIN Q.hdr /\ Q.hdr[h].name = n
  <2>1. h = MovedTo(h, m, h)
    BY <1>1, CellFacts DEF MovedTo
  <2>2. Kept(I, h, Q, MovedTo(h, m, h))
    BY <1>1, <1>2 DEF Grown
  <2>3. I.hdr[h].name = n
    BY FoundLists
  <2> QED
    BY <2>1, <2>2, <2>3 DEF Kept
<1>5. /\ DOMAIN K.hdr = DOMAIN Q.hdr
      /\ \A g \in DOMAIN Q.hdr : K.hdr[g].name = Q.hdr[g].name
      /\ \A g \in DOMAIN Q.hdr : g # h => Contents(K, g) = Contents(Q, g)
      /\ Contents(K, h) = Contents(Q, h) \cup {p}
  <2>1. DOMAIN K.hdr = DOMAIN Q.hdr /\ \A g \in DOMAIN Q.hdr : K.hdr[g].name = Q.hdr[g].name
    BY <1>2 DEF Entered, Kept
  <2>2. ASSUME NEW g \in DOMAIN Q.hdr, g # h PROVE Contents(K, g) = Contents(Q, g)
    <3>1. Kept(Q, g, K, g)
      BY <1>2, <2>2 DEF Entered
    <3>2. ImageInv(Q) /\ BucketSound(Q, g)
      BY <1>3 DEF Good, Ordered
    <3> QED
      BY <3>1, <3>2, KeptFacts
  <2>3. Contents(K, h) = Contents(Q, h) \cup {p}
    BY <1>2, <1>3, <1>4, EnteredContents DEF Good, Ordered
  <2> QED
    BY <2>1, <2>2, <2>3
<1>6. /\ DOMAIN J.hdr = DOMAIN K.hdr
      /\ \A g \in DOMAIN K.hdr : J.hdr[g].name = K.hdr[g].name /\ Contents(J, g) = Contents(K, g)
  <2>1. /\ J.str = K.str /\ J.idx = K.idx /\ DOMAIN J.hdr = DOMAIN K.hdr
        /\ \A g \in DOMAIN K.hdr : /\ J.hdr[g].name = K.hdr[g].name
                                   /\ J.hdr[g].blen = K.hdr[g].blen
                                   /\ J.hdr[g].ioff = K.hdr[g].ioff
    BY <1>2, <1>4, <1>5, CountedKeeps
  <2> QED
    BY <2>1 DEF Contents, bucket_string, bucket_string_at, bucket_index, bucket_indexes,
                bucket_nr_indexes
<1>7. Good(J)
  <2>1. Chained(J)
    BY <1>1, GainedChain DEF Good
  <2>2. Visited(J) = DOMAIN J.hdr
    BY <2>1, ChainWalked
  <2>3. \A g, k \in DOMAIN J.hdr : J.hdr[g].name = J.hdr[k].name => g = k
    BY <1>3, <1>5, <1>6, ShownFacts
  <2> QED
    BY <2>1, <2>2, <2>3 DEF Good, NamesApart
<1>8. PICK L, f : L = Lists(I) /\ f = [L EXCEPT ![n] = @ \cup {p}]
  OBVIOUS
<1>9. /\ L = [q \in DOMAIN L |-> L[q]]
      /\ \A g \in DOMAIN Q.hdr : Q.hdr[g].name \in DOMAIN L /\ L[Q.hdr[g].name] = Contents(Q, g)
      /\ \A q \in DOMAIN L : \E g \in DOMAIN Q.hdr : Q.hdr[g].name = q
      /\ \A g, k \in DOMAIN Q.hdr : Q.hdr[g].name = Q.hdr[k].name => g = k
  BY <1>3, <1>8, ListsFacts, ShownFacts
<1>10. /\ DOMAIN f = DOMAIN L /\ f = [q \in DOMAIN f |-> f[q]]
       /\ \A q \in DOMAIN L : q # n => f[q] = L[q]
       /\ f[n] = L[n] \cup {p}
  <2>1. n \in DOMAIN L
    BY <1>4, <1>9
  <2> QED
    BY <1>8, <1>9, <2>1
<1>11. \A g \in DOMAIN J.hdr : J.hdr[g].name \in DOMAIN f /\ f[J.hdr[g].name] = Contents(J, g)
  <2> SUFFICES ASSUME NEW g \in DOMAIN Q.hdr
               PROVE  J.hdr[g].name \in DOMAIN f /\ f[J.hdr[g].name] = Contents(J, g)
    BY <1>5, <1>6
  <2>1. /\ J.hdr[g].name = Q.hdr[g].name /\ Contents(J, g) = Contents(K, g)
        /\ Q.hdr[g].name \in DOMAIN L /\ L[Q.hdr[g].name] = Contents(Q, g)
    BY <1>5, <1>6, <1>9
  <2>2. CASE g = h
    BY <1>4, <1>5, <1>10, <2>1, <2>2
  <2>3. CASE g # h
    <3>1. Q.hdr[g].name # n /\ Contents(K, g) = Contents(Q, g)
      BY <1>4, <1>5, <1>9, <2>3
    <3> QED
      BY <1>10, <2>1, <3>1
  <2> QED
    BY <2>2, <2>3
<1>12. \A q \in DOMAIN f : \E g \in DOMAIN J.hdr : J.hdr[g].name = q
  BY <1>5, <1>6, <1>9, <1>10
<1>13. Lists(J) = f
  BY <1>7, <1>10, <1>11, <1>12, ListsAre
<1> QED
  BY <1>7, <1>8, <1>13
-----------------------------------------------------------------------------
(* A call that adds to one playlist, away from the library's limit. *)

AddLists(I, r, n, p) ==
  \/ /\ r.st = "fail" /\ Lists(r.img) = Lists(I)
     /\ n \notin DOMAIN Lists(I) \/ p \in Lists(I)[n]
  \/ /\ r.st = "ok" /\ n \in DOMAIN Lists(I) /\ p \notin Lists(I)[n]
     /\ Lists(r.img) = [Lists(I) EXCEPT ![n] = @ \cup {p}]
  \/ r.st = "unmapped" /\ Lists(r.img) = Lists(I)

LEMMA AddEndsLists ==
  ASSUME NEW I, Good(I), NEW n, NEW p \in Paths, NEW r, ImageInv(r.img), Ordered(r.img),
         AddEnds(I, r, n, p), r.img.len + 128 < U32
  PROVE  Good(r.img) /\ AddLists(I, r, n, p)
<1>1. ~ (r.img.len + 128 >= U32)
  BY SizesAssumption DEF ImageInv, ImageTyped
<1>2. CASE r = Result("fail", I) /\ find_playlist(I, n) = {}
  <2>1. r.st = "fail" /\ r.img = I /\ n \notin DOMAIN Lists(I)
    BY <1>2, FoundLists DEF Result
  <2> QED
    BY <2>1 DEF AddLists
<1>3. ASSUME NEW h \in find_playlist(I, n), r = Result("fail", I), p \in Contents(I, h)
      PROVE  Good(r.img) /\ AddLists(I, r, n, p)
  <2>1. r.st = "fail" /\ r.img = I /\ p \in Lists(I)[n]
    BY <1>3, FoundLists DEF Result
  <2> QED
    BY <2>1 DEF AddLists
<1>4. ASSUME NEW h \in find_playlist(I, n), r.st = "ok", p \notin Contents(I, h),
             Gained(I, r.img, h, p)
      PROVE  Good(r.img) /\ AddLists(I, r, n, p)
  <2>1. Good(r.img) /\ Lists(r.img) = [Lists(I) EXCEPT ![n] = @ \cup {p}]
    <3>1. PICK J : J = r.img
      OBVIOUS
    <3>2. ImageInv(J) /\ Ordered(J) /\ Gained(I, J, h, p)
      BY <1>4, <3>1
    <3>3. Good(J) /\ Lists(J) = [Lists(I) EXCEPT ![n] = @ \cup {p}]
      BY <3>2, GainedLists
    <3> QED
      BY <3>1, <3>3
  <2>2. n \in DOMAIN Lists(I) /\ p \notin Lists(I)[n]
    BY <1>4, FoundLists
  <2> QED
    BY <1>4, <2>1, <2>2 DEF AddLists
<1>5. ASSUME NEW h \in find_playlist(I, n), r.st = "unmapped", NEW m \in Nat,
             Grown(I, r.img, h, m)
      PROVE  Good(r.img) /\ AddLists(I, r, n, p)
  <2>1. Good(r.img) /\ Lists(r.img) = Lists(I)
    BY <1>5, FoundLists, GrownLists
  <2> QED
    BY <1>5, <2>1 DEF AddLists
<1> QED
  BY <1>1, <1>2, <1>3, <1>4, <1>5 DEF AddEnds

(* The two calls of mlib_add_path(): what .global is refused it holds, so  *)
(* nothing enters another playlist alone.                                  *)
Noted(L, p) == [L EXCEPT ![Global] = @ \cup {p}]
LEMMA AddPathLists ==
  ASSUME NEW I, Good(I), NEW n \in Names, NEW p \in Paths, NEW r \in add_path(I, n, p),
         Steady(I, r.img), ImageInv(r.img), Ordered(r.img), r.img.len + 128 < U32
  PROVE  /\ Good(r.img)
         /\ \/ /\ r.st = "ok" /\ {n, Global} \subseteq DOMAIN Lists(I) /\ p \notin Lists(I)[n]
               /\ Lists(r.img) = [Noted(Lists(I), p) EXCEPT ![n] = @ \cup {p}]
            \/ /\ r.st \in {"fail", "unmapped"}
               /\ \/ Lists(r.img) = Lists(I)
                  \/ n # Global /\ Global \in DOMAIN Lists(I) /\ Lists(r.img) = Noted(Lists(I), p)
            \/ r.st = "killed" /\ Lists(r.img) = Lists(I)
<1>1. PICK L, M : L = Lists(I) /\ M = Lists(r.img)
  OBVIOUS
<1>2. ImageInv(I) /\ Ordered(I) /\ L = [m \in DOMAIN L |-> L[m]] /\ I.len \in Nat
  BY <1>1, ListsFacts DEF Good, ImageInv, ImageTyped
<1> DEFINE Goal == /\ Good(r.img)
                   /\ \/ /\ r.st = "ok" /\ {n, Global} \subseteq DOMAIN L /\ p \notin L[n]
                         /\ M = [Noted(L, p) EXCEPT ![n] = @ \cup {p}]
                      \/ /\ r.st \in {"fail", "unmapped"}
                         /\ \/ M = L
                            \/ n # Global /\ Global \in DOMAIN L /\ M = Noted(L, p)
                      \/ r.st = "killed" /\ M = L
<1>3. ASSUME n = Global, AddEnds(I, r, n, p) PROVE Goal
  <2>1. Good(r.img) /\ AddLists(I, r, n, p)
    BY <1>3, AddEndsLists
  <2>2. CASE r.st = "ok"
    <3>1. Global \in DOMAIN L /\ p \notin L[Global] /\ M = [L EXCEPT ![Global] = @ \cup {p}]
      BY <1>1, <1>3, <2>1, <2>2 DEF AddLists
    <3>2. PICK N : N = [L EXCEPT ![Global] = @ \cup {p}]
      OBVIOUS
    <3>3. N[Global] \cup {p} = N[Global] /\ N = [m \in DOMAIN N |-> N[m]]
      BY <1>2, <3>1, <3>2
    <3>4. [N EXCEPT ![Global] = @ \cup {p}] = N
      BY <3>3
    <3> QED
      BY <1>3, <2>1, <2>2, <3>1, <3>2, <3>4 DEF Noted
  <2>3. CASE r.st # "ok"
    BY <1>1, <2>1, <2>3 DEF AddLists
  <2> QED
    BY <2>2, <2>3
<1>4. ASSUME n # Global, r = Result("fail", I) PROVE Goal
  <2>1. r.st = "fail" /\ r.img = I
    BY <1>4 DEF Result
  <2> QED
    BY <1>1, <2>1
<1>5. ASSUME n # Global, find_playlist(I, Global) # {}, NEW s, ImageInv(s.img), Ordered(s.img),
             s.img.len <= r.img.len, AddEnds(I, s, Global, p)
      PROVE  /\ Good(s.img) /\ Global \in DOMAIN L
             /\ \/ s.st = "fail" /\ Lists(s.img) = L /\ p \in L[Global]
                \/ s.st = "ok" /\ Lists(s.img) = Noted(L, p)
                \/ s.st = "unmapped" /\ Lists(s.img) = L
  <2>1. s.img.len + 128 < U32
    <3>1. s.img.len \in Nat /\ r.img.len \in Nat /\ U32 \in Nat
      BY <1>5, SizesAssumption DEF ImageInv, ImageTyped
    <3> QED
      BY <1>5, <3>1
  <2>2. Good(s.img) /\ AddLists(I, s, Global, p)
    BY <1>5, <2>1, AddEndsLists
  <2>3. Global \in DOMAIN L
    BY <1>1, <1>5, FoundLists
  <2> QED
    BY <1>1, <2>2, <2>3 DEF AddLists, Noted
<1>6. ASSUME n # Global, find_playlist(I, Global) # {}, NEW s, ImageInv(s.img), Ordered(s.img),
             s.img.len <= r.img.len, AddEnds(I, s, Global, p), s.st \in {"ok", "fail"},
             AddEnds(s.img, r, n, p)
      PROVE  Goal
  <2>1. PICK K : K = Lists(s.img)
    OBVIOUS
  <2>2. /\ Good(s.img) /\ Global \in DOMAIN L
        /\ K = Noted(L, p)
    <3>1. CASE s.st = "ok"
      BY <1>5, <1>6, <2>1, <3>1
    <3>2. CASE s.st = "fail"
      <4>1. Good(s.img) /\ Global \in DOMAIN L /\ K = L /\ p \in L[Global]
        BY <1>5, <1>6, <2>1, <3>2
      <4>2. L[Global] \cup {p} = L[Global]
        BY <4>1
      <4>3. [L EXCEPT ![Global] = @ \cup {p}] = L
        BY <1>2, <4>1, <4>2
      <4> QED
        BY <4>1, <4>3 DEF Noted
    <3> QED
      BY <1>6, <3>1, <3>2
  <2>3. Good(r.img) /\ AddLists(s.img, r, n, p)
    BY <1>6, <2>2, AddEndsLists
  <2>4. DOMAIN K = DOMAIN L /\ (n \in DOMAIN L => K[n] = L[n])
    <3>1. K = [L EXCEPT ![Global] = @ \cup {p}]
      BY <2>2 DEF Noted
    <3> QED
      BY <1>2, <1>6, <3>1
  <2>5. CASE r.st = "ok"
    <3>1. n \in DOMAIN K /\ p \notin K[n] /\ M = [K EXCEPT ![n] = @ \cup {p}]
      BY <1>1, <2>1, <2>3, <2>5 DEF AddLists
    <3> QED
      BY <2>2, <2>3, <2>4, <2>5, <3>1
  <2>6. CASE r.st # "ok"
    <3>1. r.st \in {"fail", "unmapped"} /\ M = K
      BY <1>1, <2>1, <2>3, <2>6 DEF AddLists
    <3> QED
      BY <1>6, <2>2, <2>3, <3>1
  <2> QED
    BY <2>5, <2>6
<1>7. ASSUME n # Global, find_playlist(I, Global) # {}, NEW s, ImageInv(s.img), Ordered(s.img),
             s.img.len <= r.img.len, AddEnds(I, s, Global, p), s.st = "unmapped",
             r = Result("killed", s.img)
      PROVE  Goal
  <2>1. r.st = "killed" /\ r.img = s.img
    BY <1>7 DEF Result
  <2>2. Good(s.img) /\ Lists(s.img) = L
    BY <1>5, <1>7
  <2> QED
    BY <1>1, <2>1, <2>2
<1> HIDE DEF Goal
<1>8. Goal
  BY <1>2, <1>3, <1>4, <1>6, <1>7, AddPathEnds
<1> QED
  BY <1>1, <1>8 DEF Goal
-----------------------------------------------------------------------------
(* Every step is one that the promise allows. *)

StoreInv ==
  /\ SortInv /\ Chained(img) /\ NamesApart(img)
  /\ lib # "wild"
  /\ file # "library" => img = BlankLibrary
  /\ lib \in {"open", "dangling"} => file = "library"

(* The library never comes within one growth step of 2^32 bytes. *)
BelowLimit == [](img.len + Growth < U32)

LEMMA ListsPrimed == Lists(img)' = Lists(img')
BY DEF Lists, Shown, Visited, first_playlist, next_playlist, AtPlaylist, Contents,
       bucket_string, bucket_string_at, bucket_index, bucket_indexes, bucket_nr_indexes

LEMMA BlankGood == Good(BlankLibrary) /\ Lists(BlankLibrary) = [n \in {} |-> {}]
<1>1. Good(BlankLibrary)
  BY BlankSafe, BlankOrdered, BlankChain, BlankApart DEF Good
<1>2. DOMAIN BlankLibrary.hdr = {}
  BY DEF BlankLibrary, NoCells
<1>3. PICK f : f = [n \in {} |-> {}]
  OBVIOUS
<1>4. DOMAIN f = {} /\ f = [n \in DOMAIN f |-> f[n]]
  BY <1>3
<1> QED
  BY <1>1, <1>2, <1>3, <1>4, ListsAre

LEMMA InitStore == Init => StoreInv /\ Store!Init
<1> SUFFICES ASSUME Init PROVE StoreInv /\ Store!Init
  OBVIOUS
<1>1. SortInv
  BY InitInv, BlankOrdered DEF Init, SortInv
<1>2. img = BlankLibrary /\ file = "absent" /\ lib = "closed" /\ ret = "none"
  BY DEF Init
<1>3. StoreInv
  BY <1>1, <1>2, BlankGood DEF Good, StoreInv
<1>4. Store!Init
  BY <1>2, BlankGood DEF Store!Init
<1> QED
  BY <1>3, <1>4

(* The parts of the invariant that a step carries over. *)
LEMMA StoreParts ==
  ASSUME StoreInv, [Next]_vars, Steady(img, img')
  PROVE  /\ Good(img) /\ ImageInv(img') /\ Ordered(img')
         /\ file \in FileStates /\ lib \in LibStates /\ SortInv /\ SortInv'
<1>1. SortInv /\ SortInv' /\ Inv /\ ImageInv(img) /\ ImageInv(img')
  BY NextOrdered, ImageStep DEF StoreInv, SortInv
<1>2. SortInv' => Ordered(img')
  BY DEF SortInv, Ordered, BucketSound, Sorted, Words, EndOf, Slots, bucket_indexes,
         bucket_nr_indexes, bucket_string, bucket_string_at, bucket_index
<1> QED
  BY <1>1, <1>2 DEF StoreInv, SortInv, Good, Inv

LEMMA CreateStore ==
  ASSUME StoreInv, CreateLibrary, [Next]_vars, Steady(img, img')
  PROVE  Good(img') /\ lib' # "wild" /\ (file' # "library" => img' = BlankLibrary)
         /\ (lib' \in {"open", "dangling"} => file' = "library") /\ Store!Create
<1>1. Good(img) /\ ImageInv(img') /\ Ordered(img') /\ file \in FileStates /\ lib \in LibStates
  BY StoreParts
<1>2. lib # "wild" /\ (file # "library" => img = BlankLibrary)
      /\ (lib \in {"open", "dangling"} => file = "library")
  BY DEF StoreInv
<1>3. CASE CreateExists
  BY <1>1, <1>2, <1>3, ListsPrimed DEF CreateExists, Store!Create, LibStates
<1>4. CASE CreateUnusable
  BY <1>1, <1>2, <1>4, ListsPrimed DEF CreateUnusable, Store!Create
<1>5. CASE CreateNew
  <2>1. PICK r \in start_playlist(BlankLibrary, Global) :
          /\ file = "absent" /\ lib = "closed" /\ lib' = lib /\ file' = "library" /\ img' = r.img
          /\ ret' = IF r.st \in {"unmapped", "killed"} THEN "killed" ELSE "ok"
    BY <1>5 DEF CreateNew
  <2>2. img = BlankLibrary
    BY <1>2, <2>1
  <2>3. CASE r.st \in {"ok", "fail"} /\ Made(BlankLibrary, r.img, Global)
    <3>1. find_playlist(img, Global) = {}
      BY <1>1, <2>2, BlankGood, FoundLists
    <3>2. /\ Good(img')
          /\ Lists(img') = [m \in DOMAIN Lists(img) \cup {Global} |->
                              IF m = Global THEN {} ELSE Lists(img)[m]]
      <4>1. PICK I : I = img
        OBVIOUS
      <4>2. PICK J : J = img'
        OBVIOUS
      <4>3. Good(I) /\ ImageInv(J) /\ Ordered(J) /\ Made(I, J, Global) /\ Global \in Names \ LongNames
            /\ find_playlist(I, Global) = {}
        BY <1>1, <2>1, <2>2, <2>3, <3>1, <4>1, <4>2, NamesAssumption
      <4>4. Good(J) /\ Lists(J) = [m \in DOMAIN Lists(I) \cup {Global} |->
                                     IF m = Global THEN {} ELSE Lists(I)[m]]
        BY <4>3, MadeLists
      <4> QED
        BY <4>1, <4>2, <4>4
    <3>3. ret' = "ok"
      BY <2>1, <2>3
    <3>4. Lists(img)' = Store!With(Global, {})
      BY <3>2, ListsPrimed DEF Store!With
    <3> QED
      BY <2>1, <3>2, <3>3, <3>4 DEF Store!Create
  <2>4. CASE r.st = "unmapped" /\ Alike(BlankLibrary, r.img)
    <3>1. Good(img') /\ Lists(img') = Lists(img)
      BY <1>1, <2>1, <2>2, <2>4, AlikeLists
    <3>2. ret' = "killed"
      BY <2>1, <2>4
    <3> QED
      BY <2>1, <3>1, <3>2, ListsPrimed DEF Store!Create
  <2> QED
    BY <2>3, <2>4, FirstPlaylist
<1> QED
  BY <1>3, <1>4, <1>5 DEF CreateLibrary

LEMMA OpenStore ==
  ASSUME StoreInv, OpenLibrary, [Next]_vars, Steady(img, img')
  PROVE  Good(img') /\ lib' # "wild" /\ (file' # "library" => img' = BlankLibrary)
         /\ (lib' \in {"open", "dangling"} => file' = "library") /\ Store!Open
<1>1. Good(img) /\ ImageInv(img') /\ ImageInv(img) /\ (file # "library" => img = BlankLibrary)
  BY StoreParts DEF StoreInv, Good
<1>2. CASE file = "library" /\ lib' = "open" /\ ret' = "ok" /\ img' = [img EXCEPT !.vm = Pages(img.size)]
  <2>1. Alike(img, img')
    BY <1>1, <1>2 DEF Alike, ImageInv, ImageTyped
  <2>2. Good(img') /\ Lists(img') = Lists(img)
    BY <1>1, <2>1, AlikeLists
  <2> QED
    BY <1>2, <2>2, ListsPrimed DEF OpenLibrary, Store!Open
<1>3. CASE ret' = "fail" /\ UNCHANGED <<img, lib>>
  BY <1>1, <1>3, ListsPrimed DEF OpenLibrary, Store!Open
<1> QED
  BY <1>2, <1>3 DEF OpenLibrary

LEMMA CloseStore ==
  ASSUME StoreInv, CloseLibrary \/ UseDangling \/ Exit
  PROVE  /\ img' = img /\ lib' = "closed" /\ file' = file
         /\ Store!Close \/ Store!End
<1>1. CASE CloseLibrary
  <2>1. ret' \in {"ok", "fail"}
    BY <1>1 DEF CloseLibrary, sync_library, Fault, Result
  <2> QED
    BY <1>1, <2>1, ListsPrimed DEF CloseLibrary, Store!Close
<1>2. CASE UseDangling
  BY <1>2, ListsPrimed DEF UseDangling, Store!End
<1>3. CASE Exit
  BY <1>3, ListsPrimed DEF Exit, Store!End
<1> QED
  BY <1>1, <1>2, <1>3

LEMMA StartStore ==
  ASSUME LongNames = {}, StoreInv, NEW n \in Names, StartPlaylist(n), [Next]_vars,
         Steady(img, img')
  PROVE  Good(img') /\ lib' \in {"open", "dangling"} /\ file' = file /\ Store!Make(n)
<1>1. Good(img) /\ ImageInv(img') /\ Ordered(img') /\ ImageInv(img)
  BY StoreParts DEF Good
<1>2. PICK r \in start_playlist(img, n) : lib = "open" /\ Ended(r)
  BY DEF StartPlaylist
<1>3. img' = r.img /\ file' = file
  BY <1>2 DEF Ended
<1>4. CASE r = Result("fail", img)
  <2>1. ret' = "fail" /\ lib' = "open" /\ img' = img
    BY <1>2, <1>4 DEF Ended, Result
  <2> QED
    BY <1>1, <1>2, <1>3, <2>1, ListsPrimed DEF Store!Make
<1>5. CASE find_playlist(img, n) = {} /\ r.st \in {"ok", "fail"} /\ Made(img, r.img, n)
  <2>1. ret' \in {"ok", "fail"} /\ lib' = "open"
    BY <1>2, <1>5 DEF Ended
  <2>2. /\ Good(img') /\ n \notin DOMAIN Lists(img)
        /\ Lists(img') = [m \in DOMAIN Lists(img) \cup {n} |-> IF m = n THEN {} ELSE Lists(img)[m]]
    <3>1. PICK J : J = img'
      OBVIOUS
    <3>2. ImageInv(J) /\ Ordered(J) /\ Made(img, J, n) /\ n \in Names \ LongNames
      BY <1>1, <1>3, <1>5, <3>1
    <3>3. Good(J) /\ Lists(J) = [m \in DOMAIN Lists(img) \cup {n} |->
                                   IF m = n THEN {} ELSE Lists(img)[m]]
      BY <1>1, <1>5, <3>2, MadeLists, Zenon
    <3>4. n \notin DOMAIN Lists(img)
      BY <1>1, <1>5, FoundLists
    <3> QED
      BY <3>1, <3>3, <3>4
  <2>3. Lists(img)' = Store!With(n, {})
    BY <2>2, ListsPrimed DEF Store!With
  <2> QED
    BY <1>2, <1>3, <2>1, <2>2, <2>3 DEF Store!Make
<1>6. CASE r.st \in {"fail", "unmapped"} /\ Alike(img, r.img)
  <2>1. ret' = "fail" /\ lib' \in {"open", "dangling"}
    BY <1>2, <1>6 DEF Ended
  <2>2. Good(img') /\ Lists(img') = Lists(img)
    BY <1>1, <1>3, <1>6, AlikeLists
  <2> QED
    BY <1>2, <1>3, <2>1, <2>2, ListsPrimed DEF Store!Make
<1> QED
  BY <1>1, <1>3, <1>4, <1>5, <1>6, StartPlaylistEnds

LEMMA DeleteStore ==
  ASSUME "ftruncate" \notin Faults, StoreInv, NEW n \in Names, DeletePlaylist(n), [Next]_vars,
         Steady(img, img')
  PROVE  Good(img') /\ lib' = "open" /\ file' = file /\ Store!Remove(n)
<1>1. Good(img) /\ ImageInv(img') /\ Ordered(img') /\ ImageInv(img)
  BY StoreParts DEF Good
<1>2. PICK r \in delete_playlist(img, n) : lib = "open" /\ Ended(r)
  BY DEF DeletePlaylist
<1>3. img' = r.img /\ file' = file
  BY <1>2 DEF Ended
<1>4. CASE r = Result("fail", img) /\ find_playlist(img, n) = {}
  <2>1. ret' = "fail" /\ lib' = "open" /\ img' = img
    BY <1>2, <1>4 DEF Ended, Result
  <2>2. n \notin DOMAIN Lists(img)
    BY <1>1, <1>4, FoundLists
  <2> QED
    BY <1>1, <1>2, <1>3, <2>1, <2>2, ListsPrimed DEF Store!Remove
<1>5. ASSUME NEW h \in find_playlist(img, n), r.st = "ok",
             Excised(img, r.img, h, img.hdr[h].length)
      PROVE  Good(img') /\ lib' = "open" /\ file' = file /\ Store!Remove(n)
  <2>1. ret' = "ok" /\ lib' = "open"
    BY <1>2, <1>5 DEF Ended
  <2>2. /\ Good(img') /\ n \in DOMAIN Lists(img)
        /\ Lists(img') = [m \in DOMAIN Lists(img) \ {n} |-> Lists(img)[m]]
    <3>1. PICK J : J = img'
      OBVIOUS
    <3>2. ImageInv(J) /\ Ordered(J) /\ Excised(img, J, h, img.hdr[h].length)
      BY <1>1, <1>3, <1>5, <3>1
    <3>3. Good(J) /\ Lists(J) = [m \in DOMAIN Lists(img) \ {n} |-> Lists(img)[m]]
      BY <1>1, <1>5, <3>2, ExcisedLists, Zenon
    <3>4. n \in DOMAIN Lists(img)
      BY <1>1, <1>5, FoundLists
    <3> QED
      BY <3>1, <3>3, <3>4
  <2>3. Lists(img)' = Store!Without(n)
    BY <2>2, ListsPrimed DEF Store!Without
  <2> QED
    BY <1>2, <1>3, <2>1, <2>2, <2>3 DEF Store!Remove
<1> QED
  BY <1>1, <1>4, <1>5, DeletePlaylistShape

LEMMA AddStore ==
  ASSUME StoreInv, NEW n \in Names, NEW p \in Paths, AddPath(n, p), [Next]_vars,
         Steady(img, img'), img'.len + Growth < U32
  PROVE  Good(img') /\ lib' # "wild" /\ file' = file
         /\ (lib' \in {"open", "dangling"} => lib = "open") /\ Store!Add(n, p)
<1>1. Good(img) /\ ImageInv(img') /\ Ordered(img') /\ ImageInv(img)
  BY StoreParts DEF Good
<1>2. PICK r \in add_path(img, n, p) : lib = "open" /\ Ended(r)
  BY DEF AddPath
<1>3. img' = r.img /\ file' = file /\ img'.len + 128 < U32
  BY <1>2, LayoutConstants DEF Ended
<1>4. /\ Good(img')
      /\ \/ /\ r.st = "ok" /\ {n, Global} \subseteq DOMAIN Lists(img) /\ p \notin Lists(img)[n]
            /\ Lists(img') = [Noted(Lists(img), p) EXCEPT ![n] = @ \cup {p}]
         \/ /\ r.st \in {"fail", "unmapped"}
            /\ \/ Lists(img') = Lists(img)
               \/ /\ n # Global /\ Global \in DOMAIN Lists(img)
                  /\ Lists(img') = Noted(Lists(img), p)
         \/ r.st = "killed" /\ Lists(img') = Lists(img)
  BY <1>1, <1>3, AddPathLists
<1>5. Noted(Lists(img), p) = Store!Noted(p)
  BY DEF Noted, Store!Noted
<1>6. CASE r.st = "ok"
  <2>1. ret' = "ok" /\ lib' = "open"
    BY <1>2, <1>6 DEF Ended
  <2>2. /\ {n, Global} \subseteq DOMAIN Lists(img) /\ p \notin Lists(img)[n]
        /\ Lists(img') = [Store!Noted(p) EXCEPT ![n] = @ \cup {p}]
    BY <1>4, <1>5, <1>6
  <2> QED
    BY <1>2, <1>3, <1>4, <2>1, <2>2, ListsPrimed DEF Store!Add
<1>7. CASE r.st \in {"fail", "unmapped"}
  <2>1. ret' = "fail" /\ lib' \in {"open", "dangling"}
    BY <1>2, <1>7 DEF Ended
  <2>2. \/ Lists(img') = Lists(img)
        \/ n # Global /\ Global \in DOMAIN Lists(img) /\ Lists(img') = Store!Noted(p)
    BY <1>4, <1>5, <1>7
  <2> QED
    BY <1>2, <1>3, <1>4, <2>1, <2>2, ListsPrimed DEF Store!Add
<1>8. CASE r.st = "killed"
  <2>1. ret' = "killed" /\ lib' = "closed"
    BY <1>2, <1>8 DEF Ended
  <2>2. Lists(img') = Lists(img)
    BY <1>4, <1>8
  <2> QED
    BY <1>2, <1>3, <1>4, <2>1, <2>2, ListsPrimed DEF Store!Add
<1> QED
  BY <1>4, <1>6, <1>7, <1>8

LEMMA GoodNow == StoreInv => Good(img)
BY DEF StoreInv, SortInv, Inv, Good

LEMMA NextStore ==
  ASSUME LongNames = {}, "ftruncate" \notin Faults
  PROVE  StoreInv /\ [Next]_vars /\ [Steady(img, img')]_vars /\ (img'.len + Growth < U32)
           => StoreInv' /\ Good(img') /\ [Store!Next]_(Store!vars)
<1> SUFFICES ASSUME StoreInv, [Next]_vars, [Steady(img, img')]_vars, img'.len + Growth < U32
             PROVE  StoreInv' /\ Good(img') /\ [Store!Next]_(Store!vars)
  OBVIOUS
<1>1. CASE UNCHANGED vars
  <2>1. img' = img /\ lib' = lib /\ file' = file /\ ret' = ret
    BY <1>1 DEF vars
  <2>2. StoreInv'
    <3>1. SortInv'
      BY NextOrdered DEF StoreInv
    <3> QED
      BY <2>1, <3>1 DEF StoreInv, Chained, NamesApart, Visited, first_playlist, next_playlist,
                        AtPlaylist
  <2>3. Good(img')
    BY <2>1, GoodNow
  <2> QED
    BY <2>1, <2>2, <2>3, ListsPrimed DEF Store!vars
<1>2. CASE Next /\ Steady(img, img')
  <2>1. SortInv' /\ Good(img) /\ lib # "wild"
        /\ (file # "library" => img = BlankLibrary)
        /\ (lib \in {"open", "dangling"} => file = "library")
    BY <1>2, StoreParts DEF StoreInv
  <2>2. Good(img') /\ lib' # "wild" /\ (file' # "library" => img' = BlankLibrary)
        /\ (lib' \in {"open", "dangling"} => file' = "library")
        => StoreInv' /\ Good(img')
    BY <2>1 DEF StoreInv, Good, Chained, NamesApart, Visited, first_playlist, next_playlist,
                AtPlaylist
  <2>3. CASE CreateLibrary
    BY <1>2, <2>2, <2>3, CreateStore DEF Store!Next
  <2>4. CASE OpenLibrary
    BY <1>2, <2>2, <2>4, OpenStore DEF Store!Next
  <2>5. CASE CloseLibrary \/ UseDangling \/ Exit
    BY <2>1, <2>2, <2>5, CloseStore DEF Store!Next
  <2>6. ASSUME NEW n \in Names, StartPlaylist(n) PROVE StoreInv' /\ Good(img') /\ Store!Next
    <3>1. lib = "open"
      BY <2>6 DEF StartPlaylist
    <3>2. Good(img') /\ lib' \in {"open", "dangling"} /\ file' = file /\ Store!Make(n)
      BY <1>2, <2>6, StartStore
    <3> QED
      BY <2>1, <2>2, <3>1, <3>2 DEF Store!Next
  <2>7. ASSUME NEW n \in Names, DeletePlaylist(n) PROVE StoreInv' /\ Good(img') /\ Store!Next
    <3>1. lib = "open"
      BY <2>7 DEF DeletePlaylist
    <3>2. Good(img') /\ lib' = "open" /\ file' = file /\ Store!Remove(n)
      BY <1>2, <2>7, DeleteStore
    <3> QED
      BY <2>1, <2>2, <3>1, <3>2 DEF Store!Next
  <2>8. ASSUME NEW n \in Names, NEW p \in Paths, AddPath(n, p) PROVE StoreInv' /\ Good(img') /\ Store!Next
    <3>1. lib = "open"
      BY <2>8 DEF AddPath
    <3>2. Good(img') /\ lib' # "wild" /\ file' = file /\ Store!Add(n, p)
      BY <1>2, <2>8, AddStore
    <3> QED
      BY <2>1, <2>2, <3>1, <3>2 DEF Store!Next
  <2> QED
    BY <1>2, <2>3, <2>4, <2>5, <2>6, <2>7, <2>8 DEF Next
<1> QED
  BY <1>1, <1>2

(* The bytes keep the promise, through every failure to grow, to map and   *)
(* to sync the file and every end of the process: as long as names are     *)
(* stored whole, ftruncate() does not fail, no step moves the mapping and  *)
(* the library stays below its limit of 2^32 bytes.                        *)
THEOREM StoreRefined ==
  ASSUME LongNames = {}, "ftruncate" \notin Faults
  PROVE  Spec /\ StaysInPlace /\ BelowLimit => StoreImplements
<1>1. Init => StoreInv /\ Store!Init
  BY InitStore
<1>2. StoreInv /\ [Next]_vars /\ [Steady(img, img')]_vars /\ (img.len + Growth < U32)'
        => StoreInv' /\ Good(img') /\ [Store!Next]_(Store!vars)
  BY NextStore
<1> QED
  BY <1>1, <1>2, PTL DEF Spec, StaysInPlace, BelowLimit, StoreImplements, Store!Spec
-----------------------------------------------------------------------------
(* What the promise says of the playlists that a command does not name. *)

(* From lists L to lists M: what a playlist gains is in .global, one       *)
(* playlist changes besides .global, and one that stays loses nothing.     *)
GainsNoted(L, M) ==
  \A m \in DOMAIN M \ {Global} : \A q \in M[m] :
    (m \in DOMAIN L /\ q \in L[m]) \/ (Global \in DOMAIN M /\ q \in M[Global])
OneMoves(L, M) ==
  \E n : \A m : m \notin {n, Global} =>
    (m \in DOMAIN L <=> m \in DOMAIN M) /\ (m \in DOMAIN L => M[m] = L[m])
StaysWhole(L, M) == \A m \in DOMAIN L \cap DOMAIN M : L[m] \subseteq M[m]
Tame(L, M) == GainsNoted(L, M) /\ OneMoves(L, M) /\ StaysWhole(L, M)

MovesAt(L, M, n) ==
  \A m : m \notin {n, Global} =>
    (m \in DOMAIN L <=> m \in DOMAIN M) /\ (m \in DOMAIN L => M[m] = L[m])
GainsAt(L, M, n) ==
  n \in DOMAIN M => n = Global \/ \A q \in M[n] :
    (n \in DOMAIN L /\ q \in L[n]) \/ (Global \in DOMAIN M /\ q \in M[Global])

LEMMA TameBy ==
  ASSUME NEW L, NEW M, NEW n, MovesAt(L, M, n), StaysWhole(L, M), GainsAt(L, M, n)
  PROVE  Tame(L, M)
<1>1. OneMoves(L, M)
  BY DEF OneMoves, MovesAt
<1>2. StaysWhole(L, M)
  OBVIOUS
<1>3. GainsNoted(L, M)
  <2> SUFFICES ASSUME NEW m \in DOMAIN M, m # Global, NEW q \in M[m]
               PROVE  (m \in DOMAIN L /\ q \in L[m]) \/ (Global \in DOMAIN M /\ q \in M[Global])
    BY DEF GainsNoted
  <2>1. CASE m = n
    BY <2>1 DEF GainsAt
  <2>2. CASE m # n
    <3>1. m \in DOMAIN L /\ M[m] = L[m]
      BY <2>2 DEF MovesAt
    <3> QED
      BY <3>1
  <2> QED
    BY <2>1, <2>2
<1> QED
  BY <1>1, <1>2, <1>3 DEF Tame

LEMMA SameTame == ASSUME NEW L PROVE Tame(L, L)
BY DEF Tame, GainsNoted, OneMoves, StaysWhole

LEMMA WithTame ==
  ASSUME NEW L, NEW n, n \notin DOMAIN L,
         NEW M, M = [m \in DOMAIN L \cup {n} |-> IF m = n THEN {} ELSE L[m]]
  PROVE  Tame(L, M)
<1>1. DOMAIN M = DOMAIN L \cup {n}
  OBVIOUS
<1>2. M[n] = {} /\ \A m \in DOMAIN L : M[m] = L[m]
  OBVIOUS
<1>3. MovesAt(L, M, n)
  BY <1>1, <1>2 DEF MovesAt
<1>4. StaysWhole(L, M)
  BY <1>2 DEF StaysWhole
<1>5. GainsAt(L, M, n)
  BY <1>2 DEF GainsAt
<1> QED
  BY <1>3, <1>4, <1>5, TameBy

LEMMA WithoutTame ==
  ASSUME NEW L, NEW n, NEW M, M = [m \in DOMAIN L \ {n} |-> L[m]]
  PROVE  Tame(L, M)
<1>1. DOMAIN M = DOMAIN L \ {n} /\ \A m \in DOMAIN M : M[m] = L[m]
  OBVIOUS
<1>2. MovesAt(L, M, n)
  BY <1>1 DEF MovesAt
<1>3. StaysWhole(L, M)
  BY <1>1 DEF StaysWhole
<1>4. GainsAt(L, M, n)
  BY <1>1 DEF GainsAt
<1> QED
  BY <1>2, <1>3, <1>4, TameBy

LEMMA NotedTame ==
  ASSUME NEW L, L = [n \in DOMAIN L |-> L[n]], Global \in DOMAIN L, NEW p,
         NEW M, M = [L EXCEPT ![Global] = @ \cup {p}]
  PROVE  Tame(L, M)
<1>1. DOMAIN M = DOMAIN L /\ M[Global] = L[Global] \cup {p}
      /\ \A m \in DOMAIN L : m # Global => M[m] = L[m]
  OBVIOUS
<1>2. StaysWhole(L, M)
  <2> SUFFICES ASSUME NEW m \in DOMAIN L PROVE L[m] \subseteq M[m]
    BY DEF StaysWhole
  <2>1. CASE m = Global
    BY <1>1, <2>1
  <2>2. CASE m # Global
    <3>1. M[m] = L[m]
      BY <1>1, <2>2
    <3> QED
      BY <3>1
  <2> QED
    BY <2>1, <2>2
<1>3. PICK n : n = Global
  OBVIOUS
<1>4. MovesAt(L, M, n)
  BY <1>1, <1>3 DEF MovesAt
<1>5. GainsAt(L, M, n)
  BY <1>3 DEF GainsAt
<1> QED
  BY <1>2, <1>4, <1>5, TameBy, Zenon

LEMMA AddedTame ==
  ASSUME NEW L, L = [m \in DOMAIN L |-> L[m]], NEW n, {n, Global} \subseteq DOMAIN L, NEW p,
         NEW K, K = [L EXCEPT ![Global] = @ \cup {p}],
         NEW M, M = [K EXCEPT ![n] = @ \cup {p}]
  PROVE  Tame(L, M)
<1>1. DOMAIN K = DOMAIN L /\ DOMAIN M = DOMAIN L
  OBVIOUS
<1>2. \A m \in DOMAIN L : K[m] = IF m = Global THEN L[m] \cup {p} ELSE L[m]
  OBVIOUS
<1>3. \A m \in DOMAIN L : M[m] = IF m = n THEN K[m] \cup {p} ELSE K[m]
  BY <1>1
<1>4. ASSUME NEW m \in DOMAIN L
      PROVE  M[m] = IF m \in {n, Global} THEN L[m] \cup {p} ELSE L[m]
  <2>1. K[m] = IF m = Global THEN L[m] \cup {p} ELSE L[m]
    BY <1>2
  <2>2. M[m] = IF m = n THEN K[m] \cup {p} ELSE K[m]
    BY <1>3
  <2> QED
    BY <2>1, <2>2
<1>5. MovesAt(L, M, n)
  BY <1>1, <1>4 DEF MovesAt
<1>6. StaysWhole(L, M)
  BY <1>4 DEF StaysWhole
<1>7. GainsAt(L, M, n)
  <2>1. M[n] = L[n] \cup {p} /\ M[Global] = L[Global] \cup {p}
    BY <1>4
  <2> QED
    BY <1>1, <2>1 DEF GainsAt
<1> QED
  BY <1>5, <1>6, <1>7, TameBy, Zenon

LEMMA StoreTame ==
  ASSUME StoreInv, [Store!Next]_(Store!vars)
  PROVE  Tame(Lists(img), Lists(img'))
<1>1. PICK L, M : L = Lists(img) /\ M = Lists(img')
  OBVIOUS
<1> SUFFICES Tame(L, M)
  BY <1>1
<1>2. L = [n \in DOMAIN L |-> L[n]]
  BY <1>1, GoodNow, ListsFacts
<1>3. Lists(img)' = M
  BY <1>1, ListsPrimed
<1>4. CASE M = L
  <2>1. Tame(L, L)
    BY SameTame
  <2> QED
    BY <1>4, <2>1
<1>5. CASE Store!Create /\ M # L
  <2>1. file = "absent" /\ M = [m \in DOMAIN L \cup {Global} |-> IF m = Global THEN {} ELSE L[m]]
    BY <1>1, <1>3, <1>5 DEF Store!Create, Store!With
  <2>2. PICK n : n = Global
    OBVIOUS
  <2>3. M = [m \in DOMAIN L \cup {n} |-> IF m = n THEN {} ELSE L[m]]
    BY <2>1, <2>2
  <2>4. n \notin DOMAIN L
    BY <1>1, <2>1, BlankGood DEF StoreInv
  <2> QED
    BY <2>3, <2>4, WithTame
<1>6. ASSUME NEW n \in Names, Store!Make(n), M # L PROVE Tame(L, M)
  <2>1. n \notin DOMAIN L /\ M = [m \in DOMAIN L \cup {n} |-> IF m = n THEN {} ELSE L[m]]
    BY <1>1, <1>3, <1>6 DEF Store!Make, Store!With
  <2> QED
    BY <2>1, WithTame
<1>7. ASSUME NEW n \in Names, Store!Remove(n), M # L PROVE Tame(L, M)
  <2>1. M = [m \in DOMAIN L \ {n} |-> L[m]]
    BY <1>1, <1>3, <1>7 DEF Store!Remove, Store!Without
  <2> QED
    BY <2>1, WithoutTame
<1>8. ASSUME NEW n \in Names, NEW p \in Paths, Store!Add(n, p), M # L PROVE Tame(L, M)
  <2>1. PICK K : K = [L EXCEPT ![Global] = @ \cup {p}]
    OBVIOUS
  <2>2. \/ {n, Global} \subseteq DOMAIN L /\ M = [K EXCEPT ![n] = @ \cup {p}]
        \/ Global \in DOMAIN L /\ M = K
    BY <1>1, <1>3, <1>8, <2>1 DEF Store!Add, Store!Noted
  <2> QED
    BY <1>2, <2>1, <2>2, AddedTame, NotedTame
<1>9. Store!Open \/ Store!Close \/ Store!End \/ UNCHANGED Store!vars => M = L
  BY <1>1, <1>3 DEF Store!Open, Store!Close, Store!End, Store!vars
<1> QED
  BY <1>4, <1>5, <1>6, <1>7, <1>8, <1>9 DEF Store!Next

(* Shown is the graph of Lists. *)
LEMMA ShownLists ==
  ASSUME NEW I, Good(I)
  PROVE  /\ \A s \in Shown(I) : /\ s = <<s[1], s[2]>> /\ s[1] \in DOMAIN Lists(I)
                                /\ s[2] = Lists(I)[s[1]]
         /\ \A n \in DOMAIN Lists(I) : <<n, Lists(I)[n]>> \in Shown(I)
<1>1. ASSUME NEW s \in Shown(I)
      PROVE  s = <<s[1], s[2]>> /\ s[1] \in DOMAIN Lists(I) /\ s[2] = Lists(I)[s[1]]
  <2>1. PICK h \in DOMAIN I.hdr : s = <<I.hdr[h].name, Contents(I, h)>>
    BY ShownFacts
  <2> QED
    BY <2>1, ListsFacts
<1>2. ASSUME NEW n \in DOMAIN Lists(I) PROVE <<n, Lists(I)[n]>> \in Shown(I)
  <2>1. PICK h \in DOMAIN I.hdr : I.hdr[h].name = n /\ Lists(I)[n] = Contents(I, h)
    BY ListsFacts
  <2> QED
    BY <2>1, ShownFacts
<1> QED
  BY <1>1, <1>2

(* A path that a playlist gains is in .global as well. *)
LEMMA TameNoted ==
  ASSUME NEW I, NEW J, Good(I), Good(J), Tame(Lists(I), Lists(J)),
         NEW t \in Shown(J), t[1] # Global
  PROVE  t[2] \subseteq UNION {s[2] : s \in {s \in Shown(I) : s[1] = t[1]}
                                      \cup {s \in Shown(J) : s[1] = Global}}
<1> SUFFICES ASSUME NEW q \in t[2]
             PROVE  \/ \E s \in Shown(I) : s[1] = t[1] /\ q \in s[2]
                    \/ \E s \in Shown(J) : s[1] = Global /\ q \in s[2]
  OBVIOUS
<1>1. PICK L, M : L = Lists(I) /\ M = Lists(J)
  OBVIOUS
<1>2. t[1] \in DOMAIN M /\ t[2] = M[t[1]]
  BY <1>1, ShownLists
<1>3. \/ t[1] \in DOMAIN L /\ q \in L[t[1]]
      \/ Global \in DOMAIN M /\ q \in M[Global]
  BY <1>1, <1>2 DEF Tame, GainsNoted
<1>4. t[1] \in DOMAIN L => <<t[1], L[t[1]]>> \in Shown(I)
  BY <1>1, ShownLists
<1>5. Global \in DOMAIN M => <<Global, M[Global]>> \in Shown(J)
  BY <1>1, ShownLists
<1> QED
  BY <1>3, <1>4, <1>5

(* One playlist changes besides .global. *)
LEMMA TameOne ==
  ASSUME NEW I, NEW J, Good(I), Good(J), Tame(Lists(I), Lists(J))
  PROVE  Cardinality(Apart(Shown(I), Shown(J)) \ {Global}) <= 1
<1>1. PICK L, M : L = Lists(I) /\ M = Lists(J)
  OBVIOUS
<1>2. PICK n : \A m : m \notin {n, Global} =>
                 (m \in DOMAIN L <=> m \in DOMAIN M) /\ (m \in DOMAIN L => M[m] = L[m])
  BY <1>1 DEF Tame, OneMoves
<1>3. ASSUME NEW s \in Shown(I), s \notin Shown(J) PROVE s[1] \in {n, Global}
  <2>1. s = <<s[1], L[s[1]]>> /\ s[1] \in DOMAIN L
    BY <1>1, ShownLists
  <2>2. s[1] \in DOMAIN M => <<s[1], M[s[1]]>> \in Shown(J)
    BY <1>1, ShownLists
  <2> QED
    BY <1>2, <1>3, <2>1, <2>2
<1>4. ASSUME NEW s \in Shown(J), s \notin Shown(I) PROVE s[1] \in {n, Global}
  <2>1. s = <<s[1], M[s[1]]>> /\ s[1] \in DOMAIN M
    BY <1>1, ShownLists
  <2>2. s[1] \in DOMAIN L => <<s[1], L[s[1]]>> \in Shown(I)
    BY <1>1, ShownLists
  <2> QED
    BY <1>2, <1>4, <2>1, <2>2
<1>5. Apart(Shown(I), Shown(J)) \ {Global} \subseteq {n}
  BY <1>3, <1>4 DEF Apart
<1> HIDE <1>2
<1>6. IsFiniteSet({n}) /\ Cardinality({n}) = 1
  BY FS_Singleton
<1> QED
  BY <1>5, <1>6, FS_Subset, FS_CardinalityType

(* No playlist that stays loses a path. *)
LEMMA TameWhole ==
  ASSUME NEW I, NEW J, Good(I), Good(J), Tame(Lists(I), Lists(J)),
         NEW s \in Shown(I), NEW t \in Shown(J), s[1] = t[1]
  PROVE  s[2] \subseteq t[2]
<1>1. s[1] \in DOMAIN Lists(I) /\ s[2] = Lists(I)[s[1]]
  BY ShownLists
<1>2. t[1] \in DOMAIN Lists(J) /\ t[2] = Lists(J)[t[1]]
  BY ShownLists
<1> QED
  BY <1>1, <1>2 DEF Tame, StaysWhole

(* What enters a playlist is in .global as well, under the same hypotheses *)
(* as StoreRefined: a .global that may not grow at 2^32 bytes would miss   *)
(* a path that another playlist still has room for.                        *)
THEOREM AlsoGlobalAlways ==
  ASSUME LongNames = {}, "ftruncate" \notin Faults
  PROVE  Spec /\ StaysInPlace /\ BelowLimit => AlsoGlobal
<1>1. Init => StoreInv
  BY InitStore
<1>2. StoreInv /\ [Next]_vars /\ [Steady(img, img')]_vars /\ (img.len + Growth < U32)'
        => StoreInv'
  BY NextStore
<1>3. StoreInv /\ [Next]_vars /\ [Steady(img, img')]_vars /\ (img.len + Growth < U32)'
        => [lib' # "wild" =>
              \A t \in Shown(img') : t[1] # Global =>
                t[2] \subseteq UNION {s[2] : s \in {s \in Shown(img) : s[1] = t[1]}
                                                \cup {s \in Shown(img') : s[1] = Global}}]_vars
  BY NextStore, GoodNow, StoreTame, TameNoted
<1> QED
  BY <1>1, <1>2, <1>3, PTL DEF Spec, StaysInPlace, BelowLimit, AlsoGlobal

(* A command changes the playlist it names and .global and nothing else,   *)
(* under the same hypotheses.                                              *)
THEOREM ChangesOneAlways ==
  ASSUME LongNames = {}, "ftruncate" \notin Faults
  PROVE  Spec /\ StaysInPlace /\ BelowLimit => ChangesOne
<1>1. Init => StoreInv
  BY InitStore
<1>2. StoreInv /\ [Next]_vars /\ [Steady(img, img')]_vars /\ (img.len + Growth < U32)'
        => StoreInv'
  BY NextStore
<1>3. StoreInv /\ [Next]_vars /\ [Steady(img, img')]_vars /\ (img.len + Growth < U32)'
        => [lib' # "wild" =>
              /\ Cardinality(Apart(Shown(img), Shown(img')) \ {Global}) <= 1
              /\ \A s \in Shown(img), t \in Shown(img') : s[1] = t[1] => s[2] \subseteq t[2]]_vars
  BY NextStore, GoodNow, StoreTame, TameOne, TameWhole
<1> QED
  BY <1>1, <1>2, <1>3, PTL DEF Spec, StaysInPlace, BelowLimit, ChangesOne
-----------------------------------------------------------------------------
(* What no command loses.  This asks for less than the refinement does: it *)
(* is true of libraries with two playlists of one name, with copies behind *)
(* the last playlist and with a mapping that moved.                        *)

(* The playlists that are shown, and one that is still shown in J, with    *)
(* all its paths.                                                          *)
Foremost(I, k) ==
  k \in Visited(I) /\ \A y \in Visited(I) : I.hdr[y].name = I.hdr[k].name => k <= y
StillShown(I, J, k) ==
  \E g : /\ Foremost(J, g) /\ J.hdr[g].name = I.hdr[k].name
         /\ Contents(I, k) \subseteq Contents(J, g)
KeepsBut(I, J, m) == \A k : Foremost(I, k) => I.hdr[k].name = m \/ StillShown(I, J, k)
KeepsAll(I, J) == \A k : Foremost(I, k) => StillShown(I, J, k)

LEMMA KeepsTwice ==
  ASSUME NEW I, NEW Q, NEW J, KeepsAll(I, Q), KeepsAll(Q, J)
  PROVE  KeepsAll(I, J)
<1> SUFFICES ASSUME NEW k, Foremost(I, k) PROVE StillShown(I, J, k)
  BY DEF KeepsAll
<1>1. PICK q : /\ Foremost(Q, q) /\ Q.hdr[q].name = I.hdr[k].name
               /\ Contents(I, k) \subseteq Contents(Q, q)
  BY DEF KeepsAll, StillShown
<1>2. PICK g : /\ Foremost(J, g) /\ J.hdr[g].name = Q.hdr[q].name
               /\ Contents(Q, q) \subseteq Contents(J, g)
  BY <1>1 DEF KeepsAll, StillShown
<1> QED
  BY <1>1, <1>2 DEF StillShown

LEMMA KeepsSame ==
  ASSUME NEW I, NEW J, Visited(J) = Visited(I),
         \A g \in Visited(I) : J.hdr[g].name = I.hdr[g].name /\ Contents(I, g) \subseteq Contents(J, g)
  PROVE  KeepsAll(I, J)
<1> SUFFICES ASSUME NEW k, Foremost(I, k) PROVE StillShown(I, J, k)
  BY DEF KeepsAll
<1>1. Foremost(J, k)
  BY DEF Foremost
<1> QED
  BY <1>1 DEF StillShown, Foremost

(* The property, of one step. *)
LEMMA LosesFew ==
  ASSUME NEW I, Visited(I) \subseteq Nat, NEW J, NEW m, KeepsBut(I, J, m)
  PROVE  LET kept(s) == \E t \in Shown(J) : s[1] = t[1] /\ s[2] \subseteq t[2]
         IN Cardinality({s \in Shown(I) : ~ kept(s)}) <= 1
<1> DEFINE kept(s) == \E t \in Shown(J) : s[1] = t[1] /\ s[2] \subseteq t[2]
           lost == {s \in Shown(I) : ~ kept(s)}
<1>1. \A K : Shown(K) = {<<K.hdr[h].name, Contents(K, h)>> : h \in {x \in Visited(K) : Foremost(K, x)}}
  BY DEF Shown, Foremost
<1>2. ASSUME NEW s \in lost PROVE s[1] = m
  <2>1. PICK k : Foremost(I, k) /\ s = <<I.hdr[k].name, Contents(I, k)>>
    BY <1>1
  <2>2. ASSUME NEW g, Foremost(J, g), J.hdr[g].name = I.hdr[k].name,
               Contents(I, k) \subseteq Contents(J, g)
        PROVE  kept(s)
    <3>1. <<J.hdr[g].name, Contents(J, g)>> \in Shown(J)
      BY <1>1, <2>2 DEF Foremost
    <3> QED
      BY <2>1, <2>2, <3>1
  <2> QED
    BY <2>1, <2>2 DEF KeepsBut, StillShown
<1>3. ASSUME NEW s \in lost, NEW t \in lost PROVE s = t
  <2>1. s[1] = m /\ t[1] = m
    BY <1>2
  <2>2. PICK k : Foremost(I, k) /\ s = <<I.hdr[k].name, Contents(I, k)>>
    BY <1>1
  <2>3. PICK j : Foremost(I, j) /\ t = <<I.hdr[j].name, Contents(I, j)>>
    BY <1>1
  <2>4. k <= j /\ j <= k
    BY <2>1, <2>2, <2>3 DEF Foremost
  <2>5. k \in Nat /\ j \in Nat
    BY <2>2, <2>3 DEF Foremost
  <2> QED
    BY <2>2, <2>3, <2>4, <2>5
<1> HIDE DEF lost
<1> SUFFICES Cardinality(lost) <= 1
  BY DEF lost
<1>4. CASE lost = {}
  BY <1>4, FS_EmptySet
<1>5. CASE lost # {}
  <2>1. PICK s : s \in lost
    BY <1>5
  <2>2. lost = {s}
    BY <1>3, <2>1
  <2>3. Cardinality({s}) = 1
    BY FS_Singleton
  <2> QED
    BY <2>2, <2>3
<1> QED
  BY <1>4, <1>5
(* A growth: the walk still comes to what it came to, ... *)
LEMMA GrownWalkOn ==
  ASSUME NEW I, ImageInv(I), NEW h \in DOMAIN I.hdr, NEW n \in Nat, NEW J, Grown(I, J, h, n)
  PROVE  \A k \in Visited(I) : MovedTo(h, n, k) \in Visited(J)
<1> DEFINE S == {k \in DOMAIN I.hdr : MovedTo(h, n, k) \in Visited(J)}
<1>1. \A k \in DOMAIN I.hdr :
        /\ MovedTo(h, n, k) \in DOMAIN J.hdr /\ MovedTo(h, n, k) < J.len
        /\ J.hdr[MovedTo(h, n, k)].length = I.hdr[k].length + IF k = h THEN n ELSE 0
        /\ k \in Nat /\ k >= 1024 /\ I.hdr[k].length \in Nat
        /\ k < h => k + I.hdr[k].length <= h
        /\ k > h => h + I.hdr[h].length <= k
  <2>1. \A k \in DOMAIN I.hdr : /\ k \in Nat /\ k >= 1024 /\ I.hdr[k].length \in Nat
                                /\ I.len \in Nat /\ k < I.len
    BY CellFacts
  <2>2. \A j, k \in DOMAIN I.hdr : j < k => j + I.hdr[j].length <= k
    BY DEF ImageInv, Disjoint
  <2>3. \A k \in DOMAIN I.hdr : MovedTo(h, n, k) < J.len
    BY <2>1 DEF MovedTo, Grown
  <2>4. \A k \in DOMAIN I.hdr :
          /\ MovedTo(h, n, k) \in DOMAIN J.hdr
          /\ J.hdr[MovedTo(h, n, k)].length = I.hdr[k].length + IF k = h THEN n ELSE 0
    BY DEF Grown
  <2> QED
    BY <2>1, <2>2, <2>3, <2>4
<1>2. HeaderSize \in DOMAIN I.hdr => HeaderSize \in S
  <2> SUFFICES ASSUME HeaderSize \in DOMAIN I.hdr PROVE MovedTo(h, n, HeaderSize) \in Visited(J)
    OBVIOUS
  <2>1. MovedTo(h, n, HeaderSize) = HeaderSize
    BY <1>1, LayoutConstants DEF MovedTo
  <2> QED
    BY <1>1, <2>1, VisitedFacts
<1>3. ASSUME NEW g \in S, NEW t, t = g + I.hdr[g].length, t \in DOMAIN I.hdr PROVE t \in S
  <2>1. MovedTo(h, n, t) = MovedTo(h, n, g) + J.hdr[MovedTo(h, n, g)].length
    <3>1. J.hdr[MovedTo(h, n, g)].length = I.hdr[g].length + IF g = h THEN n ELSE 0
      BY <1>1
    <3>2. I.hdr[g].length >= 144
      BY CellFacts
    <3> QED
      BY <1>1, <1>3, <3>1, <3>2 DEF MovedTo
  <2>2. MovedTo(h, n, t) \in DOMAIN J.hdr /\ MovedTo(h, n, t) < J.len /\ MovedTo(h, n, g) \in Visited(J)
    BY <1>1, <1>3
  <2>3. MovedTo(h, n, t) \in Visited(J)
    BY <2>1, <2>2, VisitedFacts
  <2> QED
    BY <1>3, <2>3
<1>4. \A g \in S : g + I.hdr[g].length \in DOMAIN I.hdr => g + I.hdr[g].length \in S
  BY <1>3
<1>5. S \in SUBSET DOMAIN I.hdr
  OBVIOUS
<1>6. Visited(I) \subseteq S
  <2> HIDE DEF S
  <2> QED
    BY <1>2, <1>4, <1>5, VisitedLeast
<1> QED
  BY <1>6

(* ... in the same order, with the same contents. *)
LEMMA GrownKeepsAll ==
  ASSUME NEW I, ImageInv(I), AllSound(I), NEW h \in DOMAIN I.hdr, NEW n \in Nat,
         NEW J, Grown(I, J, h, n)
  PROVE  KeepsAll(I, J)
<1> SUFFICES ASSUME NEW k, Foremost(I, k) PROVE StillShown(I, J, k)
  BY DEF KeepsAll
<1>1. \A x \in Visited(I) : /\ x \in DOMAIN I.hdr /\ x \in Nat /\ h \in Nat
                            /\ J.hdr[MovedTo(h, n, x)].name = I.hdr[x].name
                            /\ Contents(J, MovedTo(h, n, x)) = Contents(I, x)
  <2>1. \A x \in Visited(I) : x \in DOMAIN I.hdr /\ x \in Nat /\ h \in Nat
    BY VisitedFacts, CellFacts
  <2>2. \A x \in DOMAIN I.hdr : Kept(I, x, J, MovedTo(h, n, x)) /\ BucketSound(I, x)
    BY DEF Grown, AllSound
  <2>3. \A x \in DOMAIN I.hdr : Contents(J, MovedTo(h, n, x)) = Contents(I, x)
    BY <2>2, KeptFacts
  <2> QED
    BY <2>1, <2>2, <2>3 DEF Kept
<1>2. k \in Visited(I) /\ MovedTo(h, n, k) \in Visited(J)
  BY GrownWalkOn DEF Foremost
<1>3. Foremost(J, MovedTo(h, n, k))
  <2> SUFFICES ASSUME NEW y \in Visited(J), J.hdr[y].name = J.hdr[MovedTo(h, n, k)].name
               PROVE  MovedTo(h, n, k) <= y
    BY <1>2 DEF Foremost
  <2>1. PICK x \in Visited(I) : y = MovedTo(h, n, x)
    BY GrownWalk
  <2>2. k <= x
    BY <1>1, <1>2, <2>1 DEF Foremost
  <2> QED
    BY <1>1, <1>2, <2>1, <2>2 DEF MovedTo
<1> QED
  BY <1>1, <1>2, <1>3 DEF StillShown

LEMMA EnteredKeepsAll ==
  ASSUME NEW I, ImageInv(I), AllSound(I), NEW h \in DOMAIN I.hdr, NEW p \in Paths,
         NEW J, Entered(I, J, h, p)
  PROVE  KeepsAll(I, J)
<1>1. DOMAIN J.hdr = DOMAIN I.hdr /\ J.len = I.len
  BY DEF Entered
<1>2. \A g \in DOMAIN I.hdr : J.hdr[g].length = I.hdr[g].length /\ J.hdr[g].name = I.hdr[g].name
  BY DEF Entered, Kept
<1>3. Visited(J) = Visited(I)
  BY <1>1, <1>2, BeforeEnd, SameWalk
<1>4. ASSUME NEW g \in DOMAIN I.hdr PROVE Contents(I, g) \subseteq Contents(J, g)
  <2>1. BucketSound(I, g)
    BY DEF AllSound
  <2>2. CASE g = h
    BY <2>1, <2>2, EnteredContents
  <2>3. CASE g # h
    <3>1. Kept(I, g, J, g)
      BY <2>3 DEF Entered
    <3> QED
      BY <2>1, <3>1, KeptFacts
  <2> QED
    BY <2>2, <2>3
<1> QED
  BY <1>2, <1>3, <1>4, VisitedFacts, KeepsSame

LEMMA CountedKeepsAll ==
  ASSUME NEW I, ImageInv(I), NEW h \in DOMAIN I.hdr, NEW J, J = Counted(I, h)
  PROVE  KeepsAll(I, J)
<1>1. /\ J.len = I.len /\ J.str = I.str /\ J.idx = I.idx /\ DOMAIN J.hdr = DOMAIN I.hdr
      /\ \A o \in DOMAIN I.hdr :
           /\ J.hdr[o].name = I.hdr[o].name /\ J.hdr[o].length = I.hdr[o].length
           /\ J.hdr[o].blen = I.hdr[o].blen /\ J.hdr[o].ioff = I.hdr[o].ioff
  BY CountedKeeps
<1>2. Visited(J) = Visited(I)
  BY <1>1, BeforeEnd, SameWalk
<1>3. \A g \in DOMAIN I.hdr : Contents(J, g) = Contents(I, g)
  BY <1>1 DEF Contents, bucket_string, bucket_string_at, bucket_index, bucket_indexes, bucket_nr_indexes
<1> QED
  BY <1>1, <1>2, <1>3, VisitedFacts, KeepsSame
LEMMA OneAddKeepsAll ==
  ASSUME NEW I, ImageInv(I), AllSound(I), NEW n, NEW p \in Paths, NEW J, OneAdd(I, J, n, p)
  PROVE  KeepsAll(I, J) /\ AllSound(J)
<1>1. CASE J = I
  BY <1>1, KeepsSame
<1>2. ASSUME NEW h \in find_playlist(I, n), NEW q \in bucket_add(I, h, p)
      PROVE  h \in DOMAIN q.img.hdr /\ ImageInv(q.img) /\ KeepsAll(I, q.img) /\ AllSound(q.img)
  <2>1. h \in DOMAIN I.hdr
    BY FindPlaylistFacts
  <2>2. ImageInv(q.img) /\ h \in DOMAIN q.img.hdr /\ AllSound(q.img)
    BY <2>1, BucketAddSafe, BucketAddSound
  <2>3. CASE q = Result("refused", I)
    <3>1. q.img = I
      BY <2>3 DEF Result
    <3> QED
      BY <2>2, <3>1, KeepsSame
  <2>4. ASSUME NEW m \in Nat, Grown(I, q.img, h, m) PROVE KeepsAll(I, q.img)
    BY <2>1, <2>4, GrownKeepsAll
  <2>5. ASSUME NEW m \in Nat, NEW Q, ImageInv(Q), Grown(I, Q, h, m), Entered(Q, q.img, h, p)
        PROVE  KeepsAll(I, q.img)
    <3>1. h \in DOMAIN Q.hdr
      BY <2>2, <2>5 DEF Entered
    <3>2. AllSound(Q) /\ KeepsAll(I, Q)
      BY <2>1, <2>5, GrownSound, GrownKeepsAll
    <3>3. KeepsAll(Q, q.img)
      BY <2>5, <3>1, <3>2, EnteredKeepsAll
    <3> QED
      BY <3>2, <3>3, KeepsTwice
  <2> QED
    BY <2>1, <2>2, <2>3, <2>4, <2>5, BucketAddShape
<1>3. ASSUME NEW h \in find_playlist(I, n), NEW q \in bucket_add(I, h, p), J = Counted(q.img, h)
      PROVE  KeepsAll(I, J) /\ AllSound(J)
  <2>1. KeepsAll(q.img, J) /\ AllSound(J)
    BY <1>2, <1>3, CountedKeepsAll, CountedSound
  <2> QED
    BY <1>2, <2>1, KeepsTwice
<1> QED
  BY <1>1, <1>2, <1>3 DEF OneAdd

LEMMA AddPathKeepsAll ==
  ASSUME NEW I, ImageInv(I), AllSound(I), NEW n \in Names, NEW p \in Paths,
         NEW r \in add_path(I, n, p)
  PROVE  KeepsAll(I, r.img)
<1>1. PICK K : ImageInv(K) /\ OneAdd(I, K, Global, p) /\ OneAdd(K, r.img, n, p)
  BY AddPathSteps
<1>2. KeepsAll(I, K) /\ AllSound(K)
  BY <1>1, OneAddKeepsAll
<1>3. KeepsAll(K, r.img)
  BY <1>1, <1>2, OneAddKeepsAll
<1> QED
  BY <1>2, <1>3, KeepsTwice

(* A new playlist is behind all others, also one whose name is cut to that *)
(* of another.                                                             *)
LEMMA StartKeepsAll ==
  ASSUME NEW I, ImageInv(I), AllSound(I), NEW n \in Names, NEW r \in start_playlist(I, n)
  PROVE  KeepsAll(I, r.img)
<1>1. CASE r = Result("fail", I)
  <2>1. r.img = I
    BY <1>1 DEF Result
  <2> QED
    BY <2>1, KeepsSame
<1>2. ASSUME NEW Q, ImageInv(Q), Q.hdr = I.hdr, Q.str = I.str, Q.idx = I.idx,
             Q.len = I.len \/ Q.len = I.len + 272
      PROVE  KeepsAll(I, Q)
  <2>1. \A g \in DOMAIN I.hdr : g < I.len /\ g < Q.len
    BY <1>2, BeforeEnd
  <2>2. Visited(Q) = Visited(I)
    BY <1>2, <2>1, SameWalk
  <2>3. \A g : Contents(Q, g) = Contents(I, g)
    BY <1>2 DEF Contents, bucket_string, bucket_string_at, bucket_index, bucket_indexes, bucket_nr_indexes
  <2> QED
    BY <1>2, <2>2, <2>3, KeepsSame
<1>3. ASSUME NEW Q, ImageInv(Q), Q.hdr = I.hdr, Q.str = I.str, Q.idx = I.idx, Q.len = I.len + 272,
             NEW J, J = WithPlaylist(Q, I.len, n)
      PROVE  KeepsAll(I, J)
  <2>0. PICK at : at = I.len
    OBVIOUS
  <2>1. /\ J.len = at + 272 /\ DOMAIN J.hdr = DOMAIN I.hdr \cup {at}
        /\ \A g \in DOMAIN I.hdr : Kept(I, g, J, g) /\ J.hdr[g].length = I.hdr[g].length
    <3>1. Made(I, J, n)
      BY <1>3 DEF Made
    <3> QED
      BY <2>0, <3>1, MadeFacts
  <2>1a. Visited(J) \subseteq Visited(I) \cup {at}
    BY <1>3, <2>0, MadeWalk
  <2>2. \A g \in DOMAIN I.hdr : g \in Nat /\ at \in Nat /\ g < at
    BY <2>0, BeforeEnd, CellFacts
  <2>3. Visited(I) \subseteq Visited(J)
    <3> DEFINE S == Visited(J) \cap DOMAIN I.hdr
    <3>1. HeaderSize \in DOMAIN I.hdr => HeaderSize \in S
      BY <2>1, <2>2, VisitedFacts
    <3>2. \A g \in S : g + I.hdr[g].length \in DOMAIN I.hdr => g + I.hdr[g].length \in S
      <4> SUFFICES ASSUME NEW g \in S, NEW t \in DOMAIN I.hdr, t = g + I.hdr[g].length PROVE t \in S
        OBVIOUS
      <4>1. t = g + J.hdr[g].length /\ t \in DOMAIN J.hdr /\ t < J.len
        BY <2>1, <2>2
      <4> QED
        BY <4>1, VisitedFacts
    <3>3. S \in SUBSET DOMAIN I.hdr
      OBVIOUS
    <3>4. Visited(I) \subseteq S
      <4> HIDE DEF S
      <4> QED
        BY <3>1, <3>2, <3>3, VisitedLeast
    <3> QED
      BY <3>4
  <2>4. \A g \in DOMAIN I.hdr : J.hdr[g].name = I.hdr[g].name /\ Contents(J, g) = Contents(I, g)
    BY <2>1, KeptFacts DEF AllSound, Kept
  <2> SUFFICES ASSUME NEW k, Foremost(I, k) PROVE StillShown(I, J, k)
    BY DEF KeepsAll
  <2>5. k \in DOMAIN I.hdr /\ Visited(I) \subseteq DOMAIN I.hdr /\ k \in Visited(I)
    BY VisitedFacts DEF Foremost
  <2>6. Foremost(J, k)
    <3> SUFFICES ASSUME NEW y \in Visited(J), J.hdr[y].name = J.hdr[k].name PROVE k <= y
      BY <2>3, <2>5 DEF Foremost
    <3>1. CASE y \in Visited(I)
      BY <2>4, <2>5, <3>1 DEF Foremost
    <3>2. CASE y = at
      BY <2>2, <2>5, <3>2
    <3> QED
      BY <2>1a, <3>1, <3>2
  <2> QED
    BY <2>4, <2>5, <2>6 DEF StillShown
<1>4. \/ r = Result("fail", I)
      \/ \E Q : /\ ImageInv(Q) /\ Q.hdr = I.hdr /\ Q.str = I.str /\ Q.idx = I.idx
                /\ \/ Q.len = I.len + 272 /\ r.img = WithPlaylist(Q, I.len, n)
                   \/ r.img = Q /\ (Q.len = I.len \/ Q.len = I.len + 272)
  BY StartPlaylistShape
<1> QED
  BY <1>1, <1>2, <1>3, <1>4

(* What is behind playlist h, of n bytes, moves down over it; the bytes of *)
(* the last n may or may not stay.                                         *)
Shrunk(I, J, h, n) ==
  /\ I.len - n <= J.len /\ J.len \in Int
  /\ \A k \in DOMAIN I.hdr \ {h} : /\ Kept(I, k, J, MovedBack(h, n, k))
                                   /\ J.hdr[MovedBack(h, n, k)].length = I.hdr[k].length
  /\ \A y \in DOMAIN J.hdr : /\ y \in Nat /\ J.hdr[y].length \in Nat
                             /\ y >= I.len - n \/ \E k \in DOMAIN I.hdr \ {h} : y = MovedBack(h, n, k)

LEMMA ExcisedShrunk ==
  ASSUME NEW I, ImageInv(I), NEW h \in DOMAIN I.hdr, NEW n, n = I.hdr[h].length,
         NEW J, ImageInv(J), Excised(I, J, h, n)
  PROVE  Shrunk(I, J, h, n)
<1>1. J.len = I.len - n /\ J.len \in Int
  BY CellFacts DEF Excised, ImageInv, ImageTyped
<1>2. \A y \in DOMAIN J.hdr : y \in Nat /\ J.hdr[y].length \in Nat
  BY CellFacts
<1> QED
  BY <1>1, <1>2 DEF Excised, Shrunk

LEMMA ClosedShrunk ==
  ASSUME NEW I, ImageInv(I), NEW h \in DOMAIN I.hdr, NEW n, n = I.hdr[h].length,
         NEW J, ImageInv(J), J = Closed(I, h, h + n)
  PROVE  Shrunk(I, J, h, n)
<1>1. /\ h \in Nat /\ n \in Nat /\ I.len \in Nat /\ h + n <= I.len /\ J.len = I.len
  BY CellFacts DEF Closed, ImageInv, ImageTyped
<1>2. \A y \in DOMAIN J.hdr : y \in Nat /\ J.hdr[y].length \in Nat
  BY CellFacts
<1>3. ASSUME NEW k \in DOMAIN I.hdr \ {h}
      PROVE  /\ Kept(I, k, J, MovedBack(h, n, k))
             /\ J.hdr[MovedBack(h, n, k)].length = I.hdr[k].length
  <2>1. k \in Nat /\ k < I.len
    BY CellFacts
  <2>2. CASE k < h
    <3>1. k \in DOMAIN J.hdr /\ MovedBack(h, n, k) = k
      BY <2>2, ClosedKeeps DEF MovedBack
    <3> QED
      BY <2>2, <3>1, ClosedKeeps
  <2>3. CASE k > h
    <3>1. PICK g : g = MovedBack(h, n, k)
      OBVIOUS
    <3>2. g = k - n
      BY <1>1, <2>1, <2>3, <3>1 DEF MovedBack
    <3>3. k - n \in DOMAIN J.hdr /\ k - n >= h
      BY <2>3, ClosedKeeps
    <3>4. g \in DOMAIN J.hdr /\ ~ (g < h \/ g >= I.len - n) /\ g + n = k
      BY <1>1, <2>1, <3>2, <3>3
    <3>5. Kept(I, g + n, J, g) /\ J.hdr[g] = I.hdr[g + n]
      BY <3>4, ClosedKeeps
    <3> QED
      BY <3>1, <3>4, <3>5
  <2> QED
    BY <1>1, <2>1, <2>2, <2>3
<1>4. ASSUME NEW y \in DOMAIN J.hdr, ~ (y >= I.len - n)
      PROVE  \E k \in DOMAIN I.hdr \ {h} : y = MovedBack(h, n, k)
  <2>1. CASE y < h
    <3>1. y \in DOMAIN I.hdr
      BY <2>1, ClosedKeeps
    <3>2. y = MovedBack(h, n, y) /\ y # h
      BY <1>1, <1>2, <2>1 DEF MovedBack
    <3> QED
      BY <3>1, <3>2
  <2>2. CASE ~ (y < h)
    <3>1. y + n \in DOMAIN I.hdr
      BY <1>4, <2>2, ClosedKeeps
    <3>2. n >= 144
      BY BeforeEnd
    <3>3. y + n # h /\ y = MovedBack(h, n, y + n)
      BY <1>1, <1>2, <2>2, <3>2 DEF MovedBack
    <3> QED
      BY <3>1, <3>3
  <2> QED
    BY <2>1, <2>2
<1>5. I.len - n <= J.len /\ J.len \in Int
  BY <1>1
<1> QED
  BY <1>2, <1>3, <1>4, <1>5 DEF Shrunk

LEMMA ShrunkFacts ==
  ASSUME NEW I, ImageInv(I), NEW h \in DOMAIN I.hdr, NEW n, n = I.hdr[h].length,
         NEW J, Shrunk(I, J, h, n)
  PROVE  /\ n \in Nat /\ n >= 144 /\ h \in Nat /\ I.len \in Nat /\ J.len \in Int /\ I.len - n <= J.len
         /\ \A k \in DOMAIN I.hdr : /\ k \in Nat /\ k >= 1024 /\ k < I.len
                                    /\ I.hdr[k].length \in Nat /\ I.hdr[k].length >= 144
                                    /\ k < h => k + I.hdr[k].length <= h
                                    /\ k > h => h + n <= k
         /\ \A k \in DOMAIN I.hdr \ {h} :
              /\ MovedBack(h, n, k) \in DOMAIN J.hdr /\ MovedBack(h, n, k) < I.len - n
              /\ MovedBack(h, n, k) < J.len
              /\ J.hdr[MovedBack(h, n, k)].length = I.hdr[k].length
<1>1. n \in Nat /\ n >= 144 /\ h \in Nat /\ I.len \in Nat /\ J.len \in Int /\ I.len - n <= J.len /\ h + n <= I.len
  BY CellFacts, BeforeEnd DEF Shrunk
<1>2. \A k \in DOMAIN I.hdr : /\ k \in Nat /\ k >= 1024 /\ k < I.len
                              /\ I.hdr[k].length \in Nat /\ I.hdr[k].length >= 144
  BY CellFacts, BeforeEnd
<1>3. \A j, k \in DOMAIN I.hdr : j < k => j + I.hdr[j].length <= k
  BY DEF ImageInv, Disjoint
<1>4. \A k \in DOMAIN I.hdr : /\ k < h => k + I.hdr[k].length <= h
                              /\ k > h => h + n <= k
  BY <1>1, <1>2, <1>3
<1>5. \A k \in DOMAIN I.hdr \ {h} : /\ MovedBack(h, n, k) \in DOMAIN J.hdr
                                    /\ J.hdr[MovedBack(h, n, k)].length = I.hdr[k].length
  BY DEF Shrunk, Kept
<1>6. \A k \in DOMAIN I.hdr \ {h} : MovedBack(h, n, k) < I.len - n
  BY <1>1, <1>2, <1>4 DEF MovedBack
<1>7. \A k \in DOMAIN I.hdr \ {h} : MovedBack(h, n, k) < J.len
  BY <1>1, <1>2, <1>6 DEF MovedBack
<1> QED
  BY <1>1, <1>2, <1>4, <1>5, <1>6, <1>7

LEMMA ShrunkWalkOn ==
  ASSUME NEW I, ImageInv(I), NEW h \in DOMAIN I.hdr, NEW n, n = I.hdr[h].length,
         NEW J, Shrunk(I, J, h, n)
  PROVE  \A k \in Visited(I) \ {h} : MovedBack(h, n, k) \in Visited(J)
<1> DEFINE S == {k \in DOMAIN I.hdr :
                   IF k = h THEN h \in DOMAIN J.hdr /\ h < J.len => h \in Visited(J)
                            ELSE MovedBack(h, n, k) \in Visited(J)}
<1>1. /\ n \in Nat /\ n >= 144 /\ h \in Nat
      /\ \A k \in DOMAIN I.hdr : /\ k \in Nat /\ k >= 1024
                                 /\ I.hdr[k].length \in Nat /\ I.hdr[k].length >= 144
                                 /\ k < h => k + I.hdr[k].length <= h
                                 /\ k > h => h + n <= k
      /\ \A k \in DOMAIN I.hdr \ {h} :
           /\ MovedBack(h, n, k) \in DOMAIN J.hdr /\ MovedBack(h, n, k) < J.len
           /\ J.hdr[MovedBack(h, n, k)].length = I.hdr[k].length
  BY ShrunkFacts
<1>2. HeaderSize \in DOMAIN I.hdr => HeaderSize \in S
  <2> SUFFICES ASSUME HeaderSize \in DOMAIN I.hdr PROVE HeaderSize \in S
    OBVIOUS
  <2>1. CASE HeaderSize = h
    BY <2>1, VisitedFacts
  <2>2. CASE HeaderSize # h
    <3>1. MovedBack(h, n, HeaderSize) = HeaderSize
      BY <1>1, <2>2, LayoutConstants DEF MovedBack
    <3> QED
      BY <1>1, <2>2, <3>1, VisitedFacts
  <2> QED
    BY <2>1, <2>2
<1>3. ASSUME NEW g \in S, NEW t, t = g + I.hdr[g].length, t \in DOMAIN I.hdr PROVE t \in S
  <2>1. CASE t = h
    <3>1. g # h /\ g < h
      BY <1>1, <1>3, <2>1
    <3>2. MovedBack(h, n, g) = g /\ g \in Visited(J) /\ J.hdr[g].length = I.hdr[g].length
      BY <1>1, <1>3, <3>1 DEF MovedBack
    <3>3. h \in DOMAIN J.hdr /\ h < J.len => h \in Visited(J)
      BY <1>3, <2>1, <3>2, VisitedFacts
    <3> QED
      BY <1>3, <2>1, <3>3
  <2>2. CASE g = h
    <3>1. t # h /\ MovedBack(h, n, t) = h
      BY <1>1, <1>3, <2>2 DEF MovedBack
    <3>2. h \in DOMAIN J.hdr /\ h < J.len
      BY <1>1, <1>3, <3>1
    <3>3. h \in Visited(J)
      BY <1>3, <2>2, <3>2
    <3> QED
      BY <1>3, <3>1, <3>3
  <2>3. CASE t # h /\ g # h
    <3>1. MovedBack(h, n, t) = MovedBack(h, n, g) + J.hdr[MovedBack(h, n, g)].length
      <4>1. J.hdr[MovedBack(h, n, g)].length = I.hdr[g].length
        BY <1>1, <2>3
      <4> QED
        BY <1>1, <1>3, <2>3, <4>1 DEF MovedBack
    <3>2. MovedBack(h, n, t) \in DOMAIN J.hdr /\ MovedBack(h, n, t) < J.len
          /\ MovedBack(h, n, g) \in Visited(J)
      BY <1>1, <1>3, <2>3
    <3>3. MovedBack(h, n, t) \in Visited(J)
      BY <3>1, <3>2, VisitedFacts
    <3> QED
      BY <1>3, <2>3, <3>3
  <2> QED
    BY <2>1, <2>2, <2>3
<1>4. \A g \in S : g + I.hdr[g].length \in DOMAIN I.hdr => g + I.hdr[g].length \in S
  BY <1>3
<1>5. S \in SUBSET DOMAIN I.hdr
  OBVIOUS
<1>6. Visited(I) \subseteq S
  <2> HIDE DEF S
  <2> QED
    BY <1>2, <1>4, <1>5, VisitedLeast
<1> QED
  BY <1>6

(* Before the last n bytes, the walk comes to nothing else. *)
LEMMA ShrunkWalk ==
  ASSUME NEW I, ImageInv(I), NEW h \in DOMAIN I.hdr, NEW n, n = I.hdr[h].length,
         NEW J, Shrunk(I, J, h, n)
  PROVE  \A y \in Visited(J) :
           y >= I.len - n \/ \E k \in Visited(I) \ {h} : y = MovedBack(h, n, k)
<1> DEFINE S == {y \in DOMAIN J.hdr :
                   y >= I.len - n \/ \E k \in Visited(I) \ {h} : y = MovedBack(h, n, k)}
<1>1. /\ n \in Nat /\ n >= 144 /\ h \in Nat /\ I.len \in Nat
      /\ \A k \in DOMAIN I.hdr : /\ k \in Nat /\ k >= 1024 /\ k < I.len
                                 /\ I.hdr[k].length \in Nat /\ I.hdr[k].length >= 144
                                 /\ k < h => k + I.hdr[k].length <= h
                                 /\ k > h => h + n <= k
      /\ \A k \in DOMAIN I.hdr \ {h} :
           /\ MovedBack(h, n, k) < I.len - n
           /\ J.hdr[MovedBack(h, n, k)].length = I.hdr[k].length
  BY ShrunkFacts
<1>2. \A y \in DOMAIN J.hdr : /\ y \in Nat /\ J.hdr[y].length \in Nat
                              /\ y >= I.len - n \/ \E k \in DOMAIN I.hdr \ {h} : y = MovedBack(h, n, k)
  BY DEF Shrunk
<1>3. HeaderSize \in DOMAIN J.hdr => HeaderSize \in S
  <2> SUFFICES ASSUME HeaderSize \in DOMAIN J.hdr, NEW k \in DOMAIN I.hdr \ {h},
                      HeaderSize = MovedBack(h, n, k)
               PROVE  k \in Visited(I)
    BY <1>2
  <2>1. CASE k < h
    BY <1>1, <2>1, VisitedFacts DEF MovedBack
  <2>2. CASE k > h
    <3>1. h = HeaderSize /\ k = h + n
      BY <1>1, <2>2, LayoutConstants DEF MovedBack
    <3>2. h \in Visited(I)
      <4>1. h < I.len /\ h \in DOMAIN I.hdr
        BY <1>1
      <4>2. HeaderSize < I.len
        BY <3>1, <4>1
      <4> QED
        BY <3>1, <4>1, <4>2, VisitedFacts, Zenon
    <3>3. k = h + I.hdr[h].length /\ k \in DOMAIN I.hdr /\ k < I.len
      BY <1>1, <3>1
    <3> QED
      BY <3>2, <3>3, VisitedFacts
  <2> QED
    BY <1>1, <2>1, <2>2
<1>4. ASSUME NEW y \in S, NEW t, t = y + J.hdr[y].length, t \in DOMAIN J.hdr PROVE t \in S
  <2>1. CASE y >= I.len - n
    BY <1>1, <1>2, <1>4, <2>1
  <2>2. CASE t >= I.len - n
    BY <1>4, <2>2
  <2>3. ASSUME NEW k \in Visited(I) \ {h}, y = MovedBack(h, n, k),
               NEW j \in DOMAIN I.hdr \ {h}, t = MovedBack(h, n, j)
        PROVE  j \in Visited(I)
    <3>0. k \in DOMAIN I.hdr \ {h}
      BY VisitedFacts
    <3>1. t = MovedBack(h, n, k) + I.hdr[k].length
      BY <1>1, <1>4, <2>3, <3>0
    <3>2. CASE j = k + I.hdr[k].length
      BY <1>1, <3>2, VisitedFacts
    <3>3. CASE j # k + I.hdr[k].length
      <4>1. k + I.hdr[k].length = h /\ j = h + n
        <5>1. CASE k < h
          BY <1>1, <2>3, <3>0, <3>1, <3>3, <5>1 DEF MovedBack
        <5>2. CASE k > h
          BY <1>1, <2>3, <3>0, <3>1, <3>3, <5>2 DEF MovedBack
        <5> QED
          BY <1>1, <3>0, <5>1, <5>2
      <4>2. h \in Visited(I)
        BY <1>1, <4>1, VisitedFacts
      <4> QED
        BY <1>1, <4>1, <4>2, VisitedFacts
    <3> QED
      BY <3>2, <3>3
  <2>4. CASE ~ (y >= I.len - n) /\ ~ (t >= I.len - n)
    <3>1. PICK k \in Visited(I) \ {h} : y = MovedBack(h, n, k)
      BY <2>4
    <3>2. PICK j \in DOMAIN I.hdr \ {h} : t = MovedBack(h, n, j)
      BY <1>2, <1>4, <2>4
    <3>3. j \in Visited(I)
      BY <2>3, <3>1, <3>2
    <3> QED
      BY <1>4, <3>2, <3>3
  <2> QED
    BY <2>1, <2>2, <2>4
<1>5. \A g \in S : g + J.hdr[g].length \in DOMAIN J.hdr => g + J.hdr[g].length \in S
  BY <1>4
<1>6. S \in SUBSET DOMAIN J.hdr
  OBVIOUS
<1>7. Visited(J) \subseteq S
  <2> HIDE DEF S
  <2> QED
    BY <1>3, <1>5, <1>6, VisitedLeast
<1> QED
  BY <1>7

(* So every name but one is shown as it was: what stayed behind the moved  *)
(* playlists is behind every one of them.                                  *)
LEMMA ShrunkKeepsBut ==
  ASSUME NEW I, ImageInv(I), AllSound(I), NEW h \in DOMAIN I.hdr, NEW n, n = I.hdr[h].length,
         NEW J, Shrunk(I, J, h, n)
  PROVE  KeepsBut(I, J, I.hdr[h].name)
<1> SUFFICES ASSUME NEW k, Foremost(I, k), I.hdr[k].name # I.hdr[h].name PROVE StillShown(I, J, k)
  BY DEF KeepsBut
<1>0. /\ n \in Nat /\ h \in Nat /\ I.len \in Nat
      /\ \A x \in DOMAIN I.hdr : x \in Nat /\ (x > h => h + n <= x)
      /\ \A x \in DOMAIN I.hdr \ {h} : MovedBack(h, n, x) < I.len - n
  BY ShrunkFacts
<1>1. k \in Visited(I) \ {h} /\ k \in DOMAIN I.hdr \ {h}
  BY VisitedFacts DEF Foremost
<1>2. PICK g : g = MovedBack(h, n, k)
  OBVIOUS
<1>3. Kept(I, k, J, g) /\ g \in Visited(J)
  BY <1>1, <1>2, ShrunkWalkOn DEF Shrunk
<1>4. J.hdr[g].name = I.hdr[k].name /\ Contents(J, g) = Contents(I, k)
  BY <1>1, <1>3, KeptFacts DEF Kept, AllSound
<1>5. ASSUME NEW y \in Visited(J), J.hdr[y].name = J.hdr[g].name PROVE g <= y
  <2>1. y \in Nat /\ h \in Nat /\ n \in Nat /\ I.len \in Nat
    <3>1. y \in DOMAIN J.hdr
      BY VisitedFacts
    <3> QED
      BY <1>0, <3>1 DEF Shrunk
  <2>2. g < I.len - n /\ k \in Nat
    BY <1>0, <1>1, <1>2
  <2>3. CASE y >= I.len - n
    BY <1>2, <2>1, <2>2, <2>3 DEF MovedBack
  <2>4. ASSUME NEW x \in Visited(I) \ {h}, y = MovedBack(h, n, x) PROVE g <= y
    <3>1. x \in DOMAIN I.hdr \ {h}
      BY VisitedFacts
    <3>2. J.hdr[y].name = I.hdr[x].name
      BY <2>4, <3>1 DEF Shrunk, Kept
    <3>3. k <= x
      <4>1. I.hdr[x].name = I.hdr[k].name /\ x \in Visited(I)
        BY <1>4, <1>5, <3>2
      <4> QED
        BY <4>1 DEF Foremost
    <3> QED
      BY <1>0, <1>1, <1>2, <2>1, <2>2, <2>4, <3>1, <3>3 DEF MovedBack
  <2> QED
    BY <2>3, <2>4, ShrunkWalk
<1>6. Foremost(J, g)
  BY <1>3, <1>5 DEF Foremost
<1> QED
  BY <1>4, <1>6 DEF StillShown

-----------------------------------------------------------------------------
(* The state machine.  A path without a library stands for an empty one.   *)
LoseInv == SoundInv /\ (file # "library" => img = BlankLibrary /\ lib = "closed")

LEMMA NextLose == LoseInv /\ [Next]_vars => LoseInv'
<1> SUFFICES ASSUME LoseInv, [Next]_vars PROVE file' # "library" => img' = BlankLibrary /\ lib' = "closed"
  BY NextSound DEF LoseInv
<1>1. CASE CreateLibrary
  BY <1>1 DEF LoseInv, CreateLibrary, CreateExists, CreateUnusable, CreateNew
<1>2. CASE OpenLibrary
  BY <1>2 DEF LoseInv, OpenLibrary
<1>3. ASSUME NEW n \in Names, StartPlaylist(n) \/ DeletePlaylist(n)
      PROVE  file' # "library" => img' = BlankLibrary /\ lib' = "closed"
  BY <1>3 DEF LoseInv, StartPlaylist, DeletePlaylist, Ended
<1>4. ASSUME NEW n \in Names, NEW p \in Paths, AddPath(n, p)
      PROVE  file' # "library" => img' = BlankLibrary /\ lib' = "closed"
  BY <1>4 DEF LoseInv, AddPath, Ended
<1>5. CASE CloseLibrary \/ UseDangling \/ Exit \/ UNCHANGED vars
  BY <1>5 DEF LoseInv, CloseLibrary, UseDangling, Exit, vars
<1> QED
  BY <1>1, <1>2, <1>3, <1>4, <1>5 DEF Next

LEMMA DeleteKeepsBut ==
  ASSUME NEW I, ImageInv(I), AllSound(I), NEW n, NEW r \in delete_playlist(I, n)
  PROVE  \E m : KeepsBut(I, r.img, m)
<1>1. CASE r = Result("fail", I)
  <2>1. r.img = I
    BY <1>1 DEF Result
  <2> QED
    BY <2>1, KeepsSame DEF KeepsAll, KeepsBut
<1>2. ASSUME NEW h \in find_playlist(I, n), NEW l, l = I.hdr[h].length,
             Excised(I, r.img, h, l) \/ r.img = Closed(I, h, h + l)
      PROVE  \E m : KeepsBut(I, r.img, m)
  <2>1. h \in DOMAIN I.hdr /\ ImageInv(r.img)
    BY FindPlaylistFacts, DeletePlaylistSafe
  <2>2. Shrunk(I, r.img, h, l)
    BY <1>2, <2>1, ExcisedShrunk, ClosedShrunk
  <2>3. KeepsBut(I, r.img, I.hdr[h].name)
    BY <1>2, <2>1, <2>2, ShrunkKeepsBut
  <2> QED
    BY <2>3
<1> QED
  BY <1>1, <1>2, DeletePlaylistShape

LEMMA StepKeepsBut ==
  ASSUME LoseInv, [Next]_vars
  PROVE  \E m : KeepsBut(img, img', m)
<1>0. SoundInv /\ ImageInv(img) /\ AllSound(img)
  BY DEF LoseInv, SoundInv, Inv
<1>1. KeepsAll(img, img') => \E m : KeepsBut(img, img', m)
  BY DEF KeepsAll, KeepsBut
<1>2. CASE img'.len = img.len /\ img'.hdr = img.hdr /\ img'.str = img.str /\ img'.idx = img.idx
  <2>1. \A g \in DOMAIN img.hdr : g < img.len /\ g < img'.len
    BY <1>0, <1>2, BeforeEnd
  <2>2. Visited(img') = Visited(img)
    BY <1>2, <2>1, SameWalk
  <2>3. \A g : Contents(img', g) = Contents(img, g)
    BY <1>2 DEF Contents, bucket_string, bucket_string_at, bucket_index, bucket_indexes, bucket_nr_indexes
  <2> QED
    BY <1>1, <1>2, <2>2, <2>3, KeepsSame
<1>3. CASE CreateNew
  <2>1. img = BlankLibrary
    BY <1>3 DEF LoseInv, CreateNew
  <2>2. Visited(img) = {}
    BY <2>1, VisitedFacts DEF BlankLibrary, NoCells
  <2> QED
    BY <1>1, <2>2 DEF KeepsAll, Foremost
<1>4. ASSUME NEW n \in Names, NEW r \in start_playlist(img, n), img' = r.img
      PROVE  \E m : KeepsBut(img, img', m)
  BY <1>0, <1>1, <1>4, StartKeepsAll
<1>5. ASSUME NEW n \in Names, NEW r \in delete_playlist(img, n), img' = r.img
      PROVE  \E m : KeepsBut(img, img', m)
  BY <1>0, <1>5, DeleteKeepsBut
<1>6. ASSUME NEW n \in Names, NEW p \in Paths, NEW r \in add_path(img, n, p), img' = r.img
      PROVE  \E m : KeepsBut(img, img', m)
  BY <1>0, <1>1, <1>6, AddPathKeepsAll
<1>7. CASE OpenLibrary
  <2>1. img' = [img EXCEPT !.vm = Pages(img.size)] \/ img' = img
    BY <1>7 DEF OpenLibrary
  <2>2. img'.len = img.len /\ img'.hdr = img.hdr /\ img'.str = img.str /\ img'.idx = img.idx
    BY <1>0, <2>1 DEF ImageInv, ImageTyped
  <2> QED
    BY <1>2, <2>2
<1>8. CASE CreateLibrary
  <2>1. img' = img \/ CreateNew
    BY <1>8 DEF CreateLibrary, CreateExists, CreateUnusable
  <2> QED
    BY <1>2, <1>3, <2>1
<1>9. CASE CloseLibrary \/ UseDangling \/ Exit \/ UNCHANGED vars
  <2>1. img' = img
    BY <1>9 DEF CloseLibrary, UseDangling, Exit, vars
  <2> QED
    BY <1>2, <2>1
<1>10. ASSUME NEW n \in Names, StartPlaylist(n) \/ DeletePlaylist(n)
       PROVE  \E m : KeepsBut(img, img', m)
  BY <1>4, <1>5, <1>10 DEF StartPlaylist, DeletePlaylist, Ended
<1>11. ASSUME NEW n \in Names, NEW p \in Paths, AddPath(n, p)
       PROVE  \E m : KeepsBut(img, img', m)
  BY <1>6, <1>11 DEF AddPath, Ended
<1> QED
  BY <1>7, <1>8, <1>9, <1>10, <1>11 DEF Next

(* A command takes paths, or a playlist, from one name at most, whatever   *)
(* fails and wherever the mapping goes, with names that were cut and with  *)
(* the copies that a failing ftruncate() leaves in mlib_delete_playlist(). *)
THEOREM LosesOneAlways == Spec => LosesOne
<1>1. Init => LoseInv
  BY InitInv, BlankSound DEF Init, LoseInv, SoundInv
<1>2. LoseInv /\ [Next]_vars => LoseInv'
  BY NextLose
<1>3. LoseInv /\ [Next]_vars =>
        [LET kept(s) == \E t \in Shown(img') : s[1] = t[1] /\ s[2] \subseteq t[2]
         IN lib' # "wild" => Cardinality({s \in Shown(img) : ~ kept(s)}) <= 1]_vars
  <2> SUFFICES ASSUME LoseInv, [Next]_vars
               PROVE  LET kept(s) == \E t \in Shown(img') : s[1] = t[1] /\ s[2] \subseteq t[2]
                      IN Cardinality({s \in Shown(img) : ~ kept(s)}) <= 1
    OBVIOUS
  <2>1. Visited(img) \subseteq Nat
    BY VisitedFacts, CellFacts DEF LoseInv, SoundInv, Inv
  <2> QED
    BY <2>1, StepKeepsBut, LosesFew
<1> QED
  BY <1>1, <1>2, <1>3, PTL DEF Spec, LosesOne
=============================================================================

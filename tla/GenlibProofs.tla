---------------------------- MODULE GenlibProofs ----------------------------
(***************************************************************************)
(* Theorems about the library generator, for every directory tree, every   *)
(* way of calling it, every order in which directories are read and every  *)
(* number of directories that may be open.                                 *)
(***************************************************************************)
EXTENDS Genlib, WellFoundedInduction, SequenceTheorems, TLAPS

(* A frame of the search: what is left to read is in its directory. *)
Frames ==
  {f \in [dir : DOMAIN call.tree, path : Seq(Chars), pass : {1, 2},
          unread : SUBSET Seq(Chars), ret : {"unset", "zero"}] : f.unread \subseteq Entries(f.dir)}
SearchTyped ==
  /\ call \in Calls
  /\ at \in {"start", "open", "search", "in", "done", "died", "killed"}
  /\ result \in {"none", "zero", "error"}
  /\ at # "done" => result = "none"
  /\ stack \in Seq(Frames)
  /\ at = "in" => stack # <<>>
  /\ dirs \in 0 .. MaxDirs

-----------------------------------------------------------------------------
(* The stack of frames. *)

LEMMA BelowFacts ==
  ASSUME stack \in Seq(Frames), stack # <<>>
  PROVE  /\ Below \in Seq(Frames) /\ Len(Below) = Len(stack) - 1
         /\ \A i \in 1 .. Len(stack) - 1 : Below[i] = stack[i]
         /\ Len(stack) \in Nat /\ Len(stack) >= 1
         /\ \A i \in 1 .. Len(stack) : stack[i] \in Frames
         /\ Top \in Frames /\ Top = stack[Len(stack)]
<1> HIDE DEF Frames
<1>1. Len(stack) \in Nat /\ Len(stack) >= 1
  BY EmptySeq
<1>2. \A i \in 1 .. Len(stack) : stack[i] \in Frames
  OBVIOUS
<1>3. Top \in Frames /\ Top = stack[Len(stack)]
  BY <1>1, <1>2 DEF Top
<1>4. /\ Below \in Seq(Frames) /\ Len(Below) = Len(stack) - 1
      /\ \A i \in 1 .. Len(stack) - 1 : Below[i] = stack[i]
  <2> DEFINE n == Len(stack) - 1
  <2>1. n \in Nat /\ n = Len(stack) - 1 /\ (\A i \in 1 .. n : stack[i] \in Frames) /\ Below = SubSeq(stack, 1, n)
    BY <1>1, <1>2 DEF Below
  <2> HIDE DEF n
  <2>2. /\ SubSeq(stack, 1, n) \in Seq(Frames) /\ Len(SubSeq(stack, 1, n)) = IF 1 <= n THEN n ELSE 0
        /\ \A i \in 1 .. n : SubSeq(stack, 1, n)[i] = stack[i]
    BY <2>1, SubSeqProperties
  <2>3. Below \in Seq(Frames) /\ Len(Below) = n /\ \A i \in 1 .. n : Below[i] = stack[i]
    BY <2>1, <2>2
  <2> QED
    BY <2>1, <2>3
<1> QED
  BY <1>1, <1>2, <1>3, <1>4

(* The top frame gives way to another. *)
LEMMA ContinueShape ==
  ASSUME stack \in Seq(Frames), stack # <<>>, NEW f \in Frames, stack' = Append(Below, f)
  PROVE  /\ stack' \in Seq(Frames) /\ stack' # <<>> /\ Len(stack') = Len(stack)
         /\ stack'[Len(stack)] = f
         /\ \A i \in 1 .. Len(stack) - 1 : stack'[i] = stack[i]
<1> HIDE DEF Frames
<1>1. /\ Below \in Seq(Frames) /\ Len(Below) = Len(stack) - 1
      /\ \A i \in 1 .. Len(stack) - 1 : Below[i] = stack[i]
      /\ Len(stack) \in Nat /\ Len(stack) >= 1
  BY BelowFacts
<1> QED
  BY <1>1

(* It gives way to two. *)
LEMMA DescendShape ==
  ASSUME stack \in Seq(Frames), stack # <<>>, NEW f \in Frames, NEW g \in Frames,
         stack' = Below \o <<f, g>>
  PROVE  /\ stack' \in Seq(Frames) /\ stack' # <<>> /\ Len(stack') = Len(stack) + 1
         /\ stack'[Len(stack)] = f /\ stack'[Len(stack) + 1] = g
         /\ \A i \in 1 .. Len(stack) - 1 : stack'[i] = stack[i]
<1> HIDE DEF Frames
<1>1. /\ Below \in Seq(Frames) /\ Len(Below) = Len(stack) - 1
      /\ \A i \in 1 .. Len(stack) - 1 : Below[i] = stack[i]
      /\ Len(stack) \in Nat /\ Len(stack) >= 1
  BY BelowFacts
<1>2. <<f, g>> \in Seq(Frames) /\ Len(<<f, g>>) = 2 /\ <<f, g>>[1] = f /\ <<f, g>>[2] = g
  OBVIOUS
<1>3. /\ Below \o <<f, g>> \in Seq(Frames) /\ Len(Below \o <<f, g>>) = Len(Below) + 2
      /\ \A i \in 1 .. Len(Below) + 2 :
           (Below \o <<f, g>>)[i] = IF i <= Len(Below) THEN Below[i] ELSE <<f, g>>[i - Len(Below)]
  BY <1>1, <1>2, ConcatProperties
<1>4. /\ stack' \in Seq(Frames) /\ Len(stack') = Len(stack) + 1
      /\ \A i \in 1 .. Len(stack) - 1 : stack'[i] = stack[i]
  BY <1>1, <1>3
<1>5. stack'[Len(stack)] = f /\ stack'[Len(stack) + 1] = g
  <2> DEFINE n == Len(Below)
  <2>1. n \in Nat /\ Len(stack) = n + 1
    BY <1>1
  <2>2. stack'[n + 1] = <<f, g>>[n + 1 - n] /\ stack'[n + 2] = <<f, g>>[n + 2 - n]
    BY <1>3, <2>1
  <2> HIDE DEF n
  <2>3. n + 1 - n = 1 /\ n + 2 - n = 2 /\ Len(stack) + 1 = n + 2
    BY <2>1
  <2> QED
    BY <1>2, <2>1, <2>2, <2>3
<1>6. stack' # <<>>
  BY <1>1, <1>4, EmptySeq
<1> QED
  BY <1>4, <1>5, <1>6

(* It is dropped, and the one below it keeps a value. *)
LEMMA ReturnShape ==
  ASSUME stack \in Seq(Frames), stack # <<>>, Below # <<>>, NEW v \in {"unset", "zero"},
         stack' = [Below EXCEPT ![Len(Below)].ret = v]
  PROVE  /\ stack' \in Seq(Frames) /\ stack' # <<>> /\ Len(stack') = Len(stack) - 1
         /\ Len(stack) - 1 >= 1
         /\ stack'[Len(stack) - 1] = [stack[Len(stack) - 1] EXCEPT !.ret = v]
         /\ \A i \in 1 .. Len(stack) - 2 : stack'[i] = stack[i]
<1> DEFINE n == Len(Below)
           f == [stack[n] EXCEPT !.ret = v]
<1>1. /\ Below \in Seq(Frames) /\ Len(Below) = Len(stack) - 1
      /\ \A i \in 1 .. Len(stack) - 1 : Below[i] = stack[i]
      /\ Len(stack) \in Nat /\ Len(stack) >= 1
      /\ \A i \in 1 .. Len(stack) : stack[i] \in Frames
  BY BelowFacts
<1>2. n \in Nat /\ n >= 1 /\ n = Len(stack) - 1 /\ n \in 1 .. Len(stack) - 1
  BY <1>1
<1>3. stack[n] \in Frames
  BY <1>1, <1>2
<1>4. f \in Frames
  BY <1>3 DEF Frames, Entries
<1>5. stack' = [Below EXCEPT ![n] = f]
  BY <1>1, <1>2
<1> HIDE DEF Frames, f, n
<1>6. stack' \in Seq(Frames) /\ Len(stack') = n
  BY <1>1, <1>2, <1>4, <1>5
<1>7. stack'[n] = f /\ \A i \in 1 .. n - 1 : stack'[i] = Below[i]
  BY <1>1, <1>2, <1>4, <1>5
<1> QED
  BY <1>1, <1>2, <1>6, <1>7 DEF f
-----------------------------------------------------------------------------
(* Types. *)

LEMMA ShortSeqs == ASSUME NEW S, NEW x \in S PROVE <<x>> \in Seq(S) /\ <<x, x>> \in Seq(S)
OBVIOUS

LEMMA EntryFacts ==
  ASSUME call \in Calls, NEW d \in DOMAIN call.tree
  PROVE  /\ Entries(d) \subseteq Seq(Chars)
         /\ \A e \in DOMAIN call.tree[d] :
              /\ e \in Seq(Chars) /\ e # <<>> /\ e[1] # Slash
              /\ e \notin Dots /\ KindOf(d, e) = call.tree[d][e]
              /\ IsDir(d, e) => call.tree[d][e] \in DOMAIN call.tree
         /\ \A e \in Dots : KindOf(d, e) = "dots"
         /\ \A e \in Entries(d) : e \in DOMAIN call.tree[d] \/ e \in Dots
<1>1. \A e \in DOMAIN call.tree[d] :
        /\ e \in Seq(Chars) /\ e # <<>> /\ e[1] # Slash /\ e \notin Dots
        /\ call.tree[d][e] \in {"file", "gone"} \cup DOMAIN call.tree
  BY CallsAssumption
<1>2. \A e \in DOMAIN call.tree[d] :
        /\ KindOf(d, e) = call.tree[d][e]
        /\ IsDir(d, e) => call.tree[d][e] \in DOMAIN call.tree
  BY <1>1 DEF KindOf, IsDir
<1>3. Dots \subseteq Seq(Chars)
  <2>1. "." \in Chars
    BY CallsAssumption
  <2>2. <<".">> \in Seq(Chars) /\ <<".", ".">> \in Seq(Chars)
    BY <2>1, ShortSeqs
  <2> QED
    BY <2>2 DEF Dots
<1>4. Entries(d) \subseteq Seq(Chars)
  BY <1>1, <1>3 DEF Entries
<1>5. \A e \in Dots : KindOf(d, e) = "dots"
  BY DEF KindOf
<1>6. \A e \in Entries(d) : e \in DOMAIN call.tree[d] \/ e \in Dots
  BY DEF Entries
<1> QED
  BY <1>1, <1>2, <1>4, <1>5, <1>6

LEMMA CallFacts ==
  ASSUME call \in Calls
  PROVE  /\ call.dir \in Seq(Chars) /\ call.real \in Seq(Chars) /\ call.prefix \in Seq(Chars)
         /\ call.top \in DOMAIN call.tree /\ MaxDirs \in Nat
BY CallsAssumption

LEMMA CombineTyped ==
  ASSUME NEW path \in Seq(Chars), NEW e \in Seq(Chars)
  PROVE  path_combine(path, e) \in Seq(Chars)
<1>1. Slash \in Chars
  BY CallsAssumption
<1>2. <<Slash>> \in Seq(Chars)
  BY <1>1, ShortSeqs
<1>3. path \o <<Slash>> \in Seq(Chars)
  BY <1>2, ConcatProperties
<1>4. path \o <<Slash>> \o e \in Seq(Chars)
  BY <1>3, ConcatProperties
<1> QED
  BY <1>4 DEF path_combine

LEMMA FrameTyped ==
  ASSUME call \in Calls, NEW d \in DOMAIN call.tree, NEW path \in Seq(Chars)
  PROVE  Frame(d, path) \in Frames
<1>1. Entries(d) \in SUBSET Seq(Chars)
  BY EntryFacts
<1> QED
  BY <1>1 DEF Frame, Frames

LEMMA TopFacts ==
  ASSUME SearchTyped, at = "in"
  PROVE  /\ stack \in Seq(Frames) /\ stack # <<>> /\ Top \in Frames
         /\ Top.dir \in DOMAIN call.tree /\ Top.path \in Seq(Chars) /\ Top.pass \in {1, 2}
         /\ Top.unread \subseteq Entries(Top.dir) /\ Top.ret \in {"unset", "zero"}
         /\ Top.unread \subseteq Seq(Chars)
<1>1. stack \in Seq(Frames) /\ stack # <<>> /\ Top \in Frames
  BY BelowFacts DEF SearchTyped
<1> QED
  BY <1>1 DEF Frames

LEMMA ReadTyped ==
  ASSUME SearchTyped, at = "in", NEW e \in Top.unread
  PROVE  /\ Read(e) \in Frames
         /\ Read(e) = [Top EXCEPT !.unread = Top.unread \ {e}]
         /\ Read(e).dir = Top.dir /\ Read(e).path = Top.path /\ Read(e).pass = Top.pass
         /\ Read(e).unread = Top.unread \ {e}
BY TopFacts DEF Read, Frames

LEMMA ContinueTyped ==
  ASSUME SearchTyped, at = "in", call' = call, NEW f \in Frames, Continue(f), dirs' = dirs
  PROVE  SearchTyped'
<1>1. stack' \in Seq(Frames) /\ stack' # <<>>
  BY TopFacts, ContinueShape DEF Continue
<1>2. Frames' = Frames
  BY DEF Frames, Entries
<1> QED
  BY <1>1, <1>2 DEF Continue, SearchTyped

LEMMA ReturnTyped ==
  ASSUME SearchTyped, at = "in", call' = call, NEW v \in {"zero", "error"}, Return(v),
         dirs' = dirs
  PROVE  SearchTyped'
<1>2. Frames' = Frames
  BY DEF Frames, Entries
<1>3. CASE Below = <<>> \/ v = "error"
  <2>1. stack' = <<>> /\ result' = v /\ at' = "done"
    BY <1>3 DEF Return
  <2>2. stack' \in Seq(Frames)
    BY <2>1
  <2> QED
    BY <1>2, <2>1, <2>2 DEF SearchTyped
<1>4. CASE ~ (Below = <<>> \/ v = "error")
  <2>1. stack' = [Below EXCEPT ![Len(Below)].ret = v] /\ at' = at /\ result' = result /\ v = "zero"
    BY <1>4 DEF Return
  <2>2. stack' \in Seq(Frames) /\ stack' # <<>>
    BY <1>4, <2>1, TopFacts, ReturnShape
  <2> QED
    BY <1>2, <2>1, <2>2 DEF SearchTyped
<1> QED
  BY <1>3, <1>4

LEMMA TypedInit == Init => SearchTyped
BY CallFacts DEF Init, SearchTyped

LEMMA TypedStep == SearchTyped /\ SearchStep => SearchTyped'
<1> SUFFICES ASSUME SearchTyped, SearchStep PROVE SearchTyped'
  OBVIOUS
<1>1. at = "in" /\ call' = call /\ call \in Calls
  BY DEF SearchStep, AddMedia, PassBy, StatFails, SkipFile, Descend, Rewind, EndOfDir, NoGlobal, SearchTyped
<1>0. Frames' = Frames
  BY <1>1 DEF Frames, Entries
<1>2. ASSUME NEW e \in Top.unread, AddMedia(e) PROVE SearchTyped'
  <2>1. CASE Continue(Read(e))
    BY <1>1, <1>2, <2>1, ReadTyped, ContinueTyped DEF AddMedia
  <2>2. CASE at' = "died" /\ UNCHANGED <<global, stack, result>>
    BY <1>0, <1>1, <1>2, <2>2 DEF AddMedia, SearchTyped
  <2> QED
    BY <1>2, <2>1, <2>2 DEF AddMedia
<1>3. ASSUME NEW e \in Top.unread, PassBy(e) PROVE SearchTyped'
  BY <1>1, <1>3, ReadTyped, ContinueTyped DEF PassBy
<1>4. ASSUME NEW e \in Top.unread, StatFails(e) PROVE SearchTyped'
  BY <1>1, <1>4, ReturnTyped DEF StatFails
<1>5. ASSUME NEW e \in Top.unread, SkipFile(e) PROVE SearchTyped'
  <2>1. dirs' = dirs /\ (Continue(Read(e)) \/ Return("error"))
    BY <1>5 DEF SkipFile
  <2> QED
    BY <1>1, <2>1, ReadTyped, ContinueTyped, ReturnTyped
<1>6. ASSUME NEW e \in Top.unread, Descend(e) PROVE SearchTyped'
  <2> DEFINE g == Frame(KindOf(Top.dir, e), path_combine(Top.path, e))
  <2>1. CASE ~ (dirs < MaxDirs)
    BY <1>1, <1>6, <2>1, ReturnTyped DEF Descend
  <2>2. CASE dirs < MaxDirs
    <3>1. stack' = Below \o <<Read(e), g>> /\ dirs' = dirs + 1 /\ at' = at /\ result' = result
      BY <1>6, <2>2 DEF Descend
    <3>2. /\ e \in Entries(Top.dir) /\ e \notin Dots /\ IsDir(Top.dir, e) /\ Top.dir \in DOMAIN call.tree
          /\ Top.path \in Seq(Chars) /\ e \in Seq(Chars)
      BY <1>1, <1>6, TopFacts DEF Descend
    <3>3. KindOf(Top.dir, e) \in DOMAIN call.tree
      BY <1>1, <3>2, EntryFacts
    <3>4. g \in Frames
      BY <1>1, <3>2, <3>3, CombineTyped, FrameTyped
    <3>5. stack' \in Seq(Frames) /\ stack' # <<>>
      BY <1>1, <3>1, <3>4, ReadTyped, TopFacts, DescendShape
    <3>6. dirs' \in 0 .. MaxDirs
      BY <2>2, <3>1, CallFacts DEF SearchTyped
    <3> QED
      BY <1>0, <1>1, <3>1, <3>5, <3>6 DEF SearchTyped
  <2> QED
    BY <2>1, <2>2
<1>7. CASE Rewind
  <2>1. [Top EXCEPT !.pass = 2, !.unread = Entries(Top.dir)] \in Frames
    BY <1>1, TopFacts, EntryFacts DEF Frames
  <2> QED
    BY <1>1, <1>7, <2>1, ContinueTyped DEF Rewind
<1>8. CASE EndOfDir
  BY <1>1, <1>8, ReturnTyped DEF EndOfDir
<1>9. CASE NoGlobal
  BY <1>0, <1>1, <1>9 DEF NoGlobal, SearchTyped
<1> QED
  BY <1>2, <1>3, <1>4, <1>5, <1>6, <1>7, <1>8, <1>9 DEF SearchStep

LEMMA TypedNext == SearchTyped /\ [Next]_vars => SearchTyped'
<1> SUFFICES ASSUME SearchTyped, [Next]_vars PROVE SearchTyped'
  OBVIOUS
<1>0. call' = call => Frames' = Frames
  BY DEF Frames, Entries
<1>1. CASE ParseArgs
  BY <1>0, <1>1 DEF ParseArgs, SearchTyped
<1>2. CASE OpenLibrary
  BY <1>0, <1>2 DEF OpenLibrary, SearchTyped
<1>3. CASE Search
  <2>1. call' = call /\ call \in Calls
    BY <1>3 DEF Search, SearchTyped
  <2>2. CASE dirs < MaxDirs
    <3>1. stack' = <<Frame(call.top, call.dir)>> /\ dirs' = dirs + 1 /\ at' = "in" /\ result' = result
      BY <1>3, <2>2 DEF Search
    <3>2. Frame(call.top, call.dir) \in Frames
      BY <2>1, CallFacts, FrameTyped
    <3>3. stack' \in Seq(Frames) /\ stack' # <<>>
      BY <3>1, <3>2
    <3>4. dirs' \in 0 .. MaxDirs
      BY <2>1, <2>2, <3>1, CallFacts DEF SearchTyped
    <3>5. result = "none"
      BY <1>3 DEF Search, SearchTyped
    <3> QED
      BY <1>0, <2>1, <3>1, <3>3, <3>4, <3>5 DEF SearchTyped
  <2>3. CASE ~ (dirs < MaxDirs)
    BY <1>0, <1>3, <2>1, <2>3 DEF Search, SearchTyped
  <2> QED
    BY <2>2, <2>3
<1>4. CASE SearchStep
  BY <1>4, TypedStep
<1>5. CASE UNCHANGED vars
  BY <1>0, <1>5 DEF vars, SearchTyped
<1> QED
  BY <1>1, <1>2, <1>3, <1>4, <1>5 DEF Next
-----------------------------------------------------------------------------
(* What the search has been through.  A directory is searched when its     *)
(* media are in .global and its subdirectories are searched: D is a set of *)
(* such directories, each with the path it was reached by.  What a frame   *)
(* has read in its first pass is in .global, and what it has read in its   *)
(* second is in D, besides the one the frame above it is in.               *)

Pair(f) == <<f.dir, f.path>>
Start == <<call.top, call.dir>>
AllAddedIn(d) == \A m \in MediaIn(d) : Added(m)
Covers(D) == \A d \in D : AllAddedIn(d) /\ Subdirs(d) \subseteq D
ReadAdded(f) ==
  \A e \in DOMAIN call.tree[f.dir] \ f.unread :
    call.tree[f.dir][e] = "file" /\ mlib_filter(path_combine(f.path, e))
      => Added(path_combine(f.path, e))
ReadSearched(f, D) ==
  \A e \in DOMAIN call.tree[f.dir] \ f.unread :
    IsDir(f.dir, e) => <<call.tree[f.dir][e], path_combine(f.path, e)>> \in D
FrameSearched(f, D) ==
  IF f.pass = 1 THEN ReadAdded(f) ELSE AllAddedIn(Pair(f)) /\ ReadSearched(f, D)
StackSearched(D) ==
  /\ Pair(stack[1]) = Start
  /\ \A i \in 1 .. Len(stack) - 1 :
       stack[i].pass = 2 /\ FrameSearched(stack[i], D \cup {Pair(stack[i + 1])})
  /\ FrameSearched(stack[Len(stack)], D)
SearchedBy(D) ==
  /\ Covers(D)
  /\ at = "in" => StackSearched(D)
  /\ result = "zero" => Start \in D
SearchInv ==
  /\ SearchTyped
  /\ \E D : SearchedBy(D)

(* Searched stays searched while the library is the same and gains media.  *)
LEMMA SearchedStays ==
  ASSUME call' = call, prefix' = prefix, global \subseteq global'
  PROVE  /\ \A f, D, E : FrameSearched(f, D) /\ D \subseteq E => FrameSearched(f, E)'
         /\ \A d : AllAddedIn(d) => AllAddedIn(d)'
         /\ \A D : Covers(D) => Covers(D)'
         /\ Start' = Start
         /\ \A d : Subdirs(d)' = Subdirs(d)
<1>1. \A path : Added(path) => Added(path)'
  BY DEF Added, Overrun, drop_prefix
<1>2. \A d : MediaIn(d)' = MediaIn(d)
  BY DEF MediaIn
<1>3. \A d : Subdirs(d)' = Subdirs(d)
  BY DEF Subdirs, IsDir, KindOf
<1>4. \A d : AllAddedIn(d) => AllAddedIn(d)'
  BY <1>1, <1>2 DEF AllAddedIn
<1>5. \A f : ReadAdded(f) => ReadAdded(f)'
  BY <1>1 DEF ReadAdded
<1>6. \A f, D, E : ReadSearched(f, D) /\ D \subseteq E => ReadSearched(f, E)'
  BY DEF ReadSearched, IsDir, KindOf
<1>7. \A f, D, E : FrameSearched(f, D) /\ D \subseteq E => FrameSearched(f, E)'
  BY <1>4, <1>5, <1>6 DEF FrameSearched, Pair
<1>8. \A D : Covers(D) => Covers(D)'
  BY <1>3, <1>4 DEF Covers
<1>9. Start' = Start
  BY DEF Start
<1> QED
  BY <1>3, <1>4, <1>7, <1>8, <1>9

LEMMA ContinueSearched ==
  ASSUME SearchTyped, at = "in", NEW D, SearchedBy(D),
         call' = call, prefix' = prefix, global \subseteq global',
         NEW f \in Frames, Continue(f), Pair(f) = Pair(Top), FrameSearched(f, D)'
  PROVE  SearchedBy(D)'
<1>1. /\ stack \in Seq(Frames) /\ stack # <<>> /\ Top = stack[Len(stack)]
      /\ Len(stack) \in Nat /\ Len(stack) >= 1
  BY TopFacts, BelowFacts
<1>2. /\ Len(stack') = Len(stack) /\ stack'[Len(stack)] = f
      /\ \A i \in 1 .. Len(stack) - 1 : stack'[i] = stack[i]
  BY <1>1, ContinueShape DEF Continue
<1>3. at' = at /\ result' = result /\ Covers(D) /\ StackSearched(D) /\ result = "none"
  BY DEF Continue, SearchedBy, SearchTyped
<1>4. \A i \in 1 .. Len(stack) : Pair(stack'[i]) = Pair(stack[i])
  BY <1>1, <1>2
<1>5. StackSearched(D)'
  <2>1. (Pair(stack[1]) = Start)'
    BY <1>1, <1>3, <1>4, SearchedStays DEF StackSearched
  <2>2. ASSUME NEW i \in 1 .. Len(stack) - 1
        PROVE  (stack[i].pass = 2 /\ FrameSearched(stack[i], D \cup {Pair(stack[i + 1])}))'
    <3>1. stack[i].pass = 2 /\ FrameSearched(stack[i], D \cup {Pair(stack[i + 1])})
      BY <1>3 DEF StackSearched
    <3>2. PICK s, E : s = stack[i] /\ E = D \cup {Pair(stack[i + 1])}
      OBVIOUS
    <3>3. s = stack'[i] /\ E = D \cup {Pair(stack'[i + 1])}
      BY <1>1, <1>2, <1>4, <3>2
    <3>4. s.pass = 2 /\ FrameSearched(s, E)'
      BY <3>1, <3>2, SearchedStays
    <3> QED
      BY <3>3, <3>4
  <2>3. FrameSearched(stack[Len(stack)], D)'
    BY <1>2
  <2> QED
    BY <1>2, <2>1, <2>2, <2>3 DEF StackSearched
<1>6. Covers(D)'
  BY <1>3, SearchedStays
<1> QED
  BY <1>3, <1>5, <1>6 DEF SearchedBy

LEMMA ErrorSearched ==
  ASSUME NEW D, SearchedBy(D), call' = call, prefix' = prefix, global \subseteq global',
         at' # "in", result' # "zero"
  PROVE  SearchedBy(D)'
<1>1. Covers(D)'
  BY SearchedStays DEF SearchedBy
<1> QED
  BY <1>1 DEF SearchedBy

LEMMA DescendSearched ==
  ASSUME SearchTyped, at = "in", NEW D, SearchedBy(D), NEW e \in Top.unread,
         Descend(e), dirs < MaxDirs
  PROVE  SearchedBy(D)'
<1>0. PICK n : n = Len(stack)
  OBVIOUS
<1> DEFINE g == Frame(KindOf(Top.dir, e), path_combine(Top.path, e))
<1>1. /\ stack \in Seq(Frames) /\ stack # <<>> /\ Top = stack[n] /\ Top \in Frames
      /\ n \in Nat /\ n >= 1
  BY <1>0, TopFacts, BelowFacts
<1>2. /\ call' = call /\ prefix' = prefix /\ global' = global
      /\ stack' = Below \o <<Read(e), g>> /\ at' = at /\ result' = result
      /\ Top.pass = 2 /\ IsDir(Top.dir, e) /\ e \notin Dots
  BY DEF Descend
<1>3. /\ Top.dir \in DOMAIN call.tree /\ Top.path \in Seq(Chars) /\ e \in Seq(Chars)
      /\ e \in Entries(Top.dir) /\ call \in Calls
  BY TopFacts DEF SearchTyped
<1>4. /\ e \in DOMAIN call.tree[Top.dir] /\ KindOf(Top.dir, e) = call.tree[Top.dir][e]
      /\ KindOf(Top.dir, e) \in DOMAIN call.tree
  BY <1>2, <1>3, EntryFacts
<1>5. g \in Frames
  BY <1>3, <1>4, CombineTyped, FrameTyped
<1>6. Pair(g) = <<call.tree[Top.dir][e], path_combine(Top.path, e)>>
  BY <1>4 DEF Pair, Frame
<1>7. FrameSearched(g, D)
  BY <1>3, <1>4 DEF Frame, FrameSearched, ReadAdded, Entries
<1>8. /\ Read(e) \in Frames /\ Read(e).pass = 2 /\ Pair(Read(e)) = Pair(Top)
      /\ Read(e).dir = Top.dir /\ Read(e).path = Top.path /\ Read(e).unread = Top.unread \ {e}
  BY <1>2, ReadTyped DEF Pair
<1>9. FrameSearched(Read(e), D \cup {Pair(g)})
  <2>1. AllAddedIn(Pair(Top)) /\ ReadSearched(Top, D)
    BY <1>0, <1>1, <1>2 DEF SearchedBy, StackSearched, FrameSearched
  <2>2. ReadSearched(Read(e), D \cup {Pair(g)})
    BY <1>6, <1>8, <2>1 DEF ReadSearched
  <2> QED
    BY <1>8, <2>1, <2>2 DEF FrameSearched
<1> HIDE DEF g
<1>10. /\ Len(stack') = n + 1 /\ stack'[n] = Read(e) /\ stack'[n + 1] = g
       /\ \A i \in 1 .. n - 1 : stack'[i] = stack[i]
  BY <1>0, <1>1, <1>2, <1>5, <1>8, DescendShape
<1>11. \A i \in 1 .. n : Pair(stack'[i]) = Pair(stack[i])
  BY <1>1, <1>8, <1>10
<1>12. StackSearched(D)'
  <2>1. (Pair(stack[1]) = Start)'
    BY <1>1, <1>2, <1>11, SearchedStays DEF SearchedBy, StackSearched
  <2>2. ASSUME NEW i \in 1 .. n
        PROVE  (stack[i].pass = 2 /\ FrameSearched(stack[i], D \cup {Pair(stack[i + 1])}))'
    <3>1. PICK s, E : s = stack'[i] /\ E = D \cup {Pair(stack'[i + 1])}
      OBVIOUS
    <3>2. s.pass = 2 /\ FrameSearched(s, E)
      <4>1. CASE i = n
        BY <1>8, <1>9, <1>10, <3>1, <4>1
      <4>2. CASE i # n
        <5>1. i \in 1 .. n - 1 /\ i + 1 \in 1 .. n
          BY <1>1, <4>2
        <5>2. s = stack[i] /\ E = D \cup {Pair(stack[i + 1])}
          BY <1>10, <1>11, <3>1, <5>1
        <5>3. stack[i].pass = 2 /\ FrameSearched(stack[i], D \cup {Pair(stack[i + 1])})
          BY <1>0, <1>2, <5>1 DEF SearchedBy, StackSearched, Descend
        <5> QED
          BY <5>2, <5>3
      <4> QED
        BY <4>1, <4>2
    <3>3. FrameSearched(s, E)'
      BY <1>2, <3>2, SearchedStays
    <3> QED
      BY <3>1, <3>2, <3>3
  <2>3. FrameSearched(stack[n + 1], D)'
    <3>1. PICK s : s = g
      OBVIOUS
    <3>2. FrameSearched(s, D)'
      BY <1>2, <1>7, <3>1, SearchedStays
    <3> QED
      BY <1>1, <1>10, <3>1, <3>2
  <2>4. Len(stack') = n + 1 /\ n + 1 - 1 = n /\ n \in Nat
    BY <1>1, <1>10
  <2>5. (\A i \in 1 .. Len(stack) - 1 :
           stack[i].pass = 2 /\ FrameSearched(stack[i], D \cup {Pair(stack[i + 1])}))'
    <3>1. 1 .. Len(stack') - 1 = 1 .. n
      BY <2>4
    <3> QED
      BY <2>2, <3>1
  <2>6. FrameSearched(stack[Len(stack)], D)'
    BY <2>3, <2>4
  <2> QED
    BY <2>1, <2>5, <2>6 DEF StackSearched
<1>13. Covers(D)'
  BY <1>2, SearchedStays DEF SearchedBy
<1>14. result' = "none"
  BY <1>2 DEF SearchTyped
<1> QED
  BY <1>12, <1>13, <1>14 DEF SearchedBy

(* A directory whose second pass has ended is searched. *)
LEMMA EndSearched ==
  ASSUME SearchTyped, at = "in", NEW D, SearchedBy(D), EndOfDir
  PROVE  \E E : SearchedBy(E)'
<1>0. PICK n : n = Len(stack)
  OBVIOUS
<1>1. /\ stack \in Seq(Frames) /\ stack # <<>> /\ Top = stack[n] /\ Top \in Frames
      /\ n \in Nat /\ n >= 1 /\ Len(Below) = n - 1
  BY <1>0, TopFacts, BelowFacts
<1>2. /\ call' = call /\ prefix' = prefix /\ global' = global /\ Return("zero")
      /\ Top.pass = 2 /\ Top.unread = {} /\ call \in Calls
  BY DEF EndOfDir, SearchTyped
<1>3. StackSearched(D) /\ Covers(D)
  BY <1>2 DEF SearchedBy
<1> DEFINE p == Pair(Top)
<1>4. AllAddedIn(p) /\ ReadSearched(Top, D)
  BY <1>0, <1>1, <1>2, <1>3 DEF StackSearched, FrameSearched
<1>5. Subdirs(p) \subseteq D
  BY <1>2, <1>4 DEF ReadSearched, Subdirs, Pair
<1>6. PICK q, E : q = p /\ E = D \cup {q}
  OBVIOUS
<1>7. Covers(E)
  BY <1>3, <1>4, <1>5, <1>6 DEF Covers
<1>8. Covers(E)'
  BY <1>2, <1>7, SearchedStays
<1>9. SearchedBy(E)'
  <2>1. CASE Below = <<>>
    <3>1. stack' = <<>> /\ result' = "zero" /\ at' = "done"
      BY <1>2, <2>1 DEF Return
    <3>2. n = 1
      BY <1>1, <2>1, EmptySeq
    <3>3. Start \in E
      BY <1>0, <1>1, <1>3, <1>6, <3>2 DEF StackSearched
    <3> QED
      BY <1>2, <1>8, <3>1, <3>3, SearchedStays DEF SearchedBy
  <2>2. CASE Below # <<>>
    <3>1. /\ stack' = [Below EXCEPT ![Len(Below)].ret = "zero"] /\ at' = at /\ result' = result
          /\ result' = "none"
      BY <1>2, <2>2 DEF Return, SearchTyped
    <3>0. PICK k : k = n - 1
      OBVIOUS
    <3>2. /\ Len(stack') = k /\ k >= 1 /\ stack'[k] = [stack[k] EXCEPT !.ret = "zero"]
          /\ \A i \in 1 .. k - 1 : stack'[i] = stack[i]
      BY <1>0, <1>1, <2>2, <3>0, <3>1, ReturnShape
    <3>3. k \in Nat /\ k \in 1 .. n /\ stack[k] \in Frames /\ k \in 1 .. n - 1 /\ k + 1 = n
      BY <1>0, <1>1, <3>0, <3>2, BelowFacts
    <3>4. PICK f : f = stack'[k]
      OBVIOUS
    <3>5. f.dir = stack[k].dir /\ f.path = stack[k].path /\ f.pass = stack[k].pass /\ f.unread = stack[k].unread
      BY <3>2, <3>3, <3>4 DEF Frames
    <3>6. stack[k].pass = 2 /\ FrameSearched(stack[k], D \cup {Pair(stack[n])})
      BY <1>0, <1>3, <3>0, <3>3 DEF StackSearched
    <3>7. f.pass = 2 /\ FrameSearched(f, E)
      BY <1>1, <1>6, <3>5, <3>6 DEF FrameSearched, ReadSearched, Pair
    <3>8. \A i \in 1 .. k : Pair(stack'[i]) = Pair(stack[i])
      <4>1. Pair(stack'[k]) = Pair(stack[k])
        BY <3>4, <3>5 DEF Pair
      <4> QED
        BY <3>2, <3>3, <4>1
    <3>9. StackSearched(E)'
      <4>1. (Pair(stack[1]) = Start)'
        <5>1. Pair(stack'[1]) = Pair(stack[1])
          BY <3>2, <3>3, <3>8
        <5>2. Pair(stack[1]) = Start /\ Start' = Start
          BY <1>2, <1>3, SearchedStays DEF StackSearched
        <5> QED
          BY <5>1, <5>2
      <4>2. ASSUME NEW i \in 1 .. k - 1
            PROVE  (stack[i].pass = 2 /\ FrameSearched(stack[i], E \cup {Pair(stack[i + 1])}))'
        <5>1. PICK s, F : s = stack[i] /\ F = E \cup {Pair(stack[i + 1])}
          OBVIOUS
        <5>2. i \in 1 .. n - 1 /\ i + 1 \in 1 .. k
          BY <1>1, <3>0, <3>3
        <5>3. s = stack'[i] /\ F = E \cup {Pair(stack'[i + 1])}
          BY <3>2, <3>8, <5>1, <5>2
        <5>4. s.pass = 2 /\ FrameSearched(s, D \cup {Pair(stack[i + 1])})
          BY <1>0, <1>3, <5>1, <5>2 DEF StackSearched
        <5>5. D \cup {Pair(stack[i + 1])} \subseteq F
          BY <1>6, <5>1
        <5>6. FrameSearched(s, F)'
          BY <1>2, <5>4, <5>5, SearchedStays
        <5> QED
          BY <5>3, <5>4, <5>6
      <4>3. FrameSearched(f, E)'
        BY <1>2, <3>7, SearchedStays
      <4>4. FrameSearched(stack[k], E)'
        BY <3>4, <4>3
      <4> QED
        BY <3>2, <4>1, <4>2, <4>4 DEF StackSearched
    <3> QED
      BY <1>8, <3>1, <3>9 DEF SearchedBy
  <2> QED
    BY <2>1, <2>2
<1> QED
  BY <1>6, <1>9

LEMMA SearchInit == Init => SearchInv
<1> SUFFICES ASSUME Init PROVE SearchInv
  OBVIOUS
<1>1. SearchedBy({})
  BY DEF Init, SearchedBy, Covers
<1> QED
  BY <1>1, TypedInit DEF SearchInv

LEMMA SearchNext == SearchInv /\ [Next]_vars => SearchInv'
<1> SUFFICES ASSUME SearchInv, [Next]_vars PROVE SearchInv'
  OBVIOUS
<1>1. SearchTyped /\ SearchTyped'
  BY TypedNext DEF SearchInv
<1>2. PICK D : SearchedBy(D)
  BY DEF SearchInv
<1> SUFFICES \E E : SearchedBy(E)'
  BY <1>1 DEF SearchInv
<1>3. CASE ParseArgs
  <2>1. call' = call /\ prefix' = prefix /\ global' = global /\ at' # "in" /\ result' # "zero"
    BY <1>1, <1>3 DEF ParseArgs, SearchTyped
  <2> QED
    BY <1>2, <2>1, ErrorSearched
<1>4. CASE OpenLibrary
  <2>1. at' # "in" /\ result' # "zero"
    BY <1>1, <1>4 DEF OpenLibrary, SearchTyped
  <2>2. SearchedBy({})'
    BY <2>1 DEF SearchedBy, Covers
  <2> QED
    BY <2>2
<1>5. CASE Search
  <2>1. call' = call /\ prefix' = prefix /\ global' = global /\ call \in Calls
    BY <1>1, <1>5 DEF Search, SearchTyped
  <2>2. CASE dirs < MaxDirs
    <3>1. stack' = <<Frame(call.top, call.dir)>> /\ result' = "none"
      BY <1>1, <1>5, <2>2 DEF Search, SearchTyped
    <3>2. PICK f : f = Frame(call.top, call.dir)
      OBVIOUS
    <3>3. Pair(f) = Start /\ FrameSearched(f, D)
      BY <2>1, <3>2, CallFacts DEF Frame, Pair, Start, FrameSearched, ReadAdded, Entries
    <3>4. Len(stack') = 1 /\ stack'[1] = f
      BY <3>1, <3>2
    <3>5. Pair(f) = Start' /\ FrameSearched(f, D)'
      BY <2>1, <3>3, SearchedStays
    <3>6. (Pair(stack[1]) = Start)' /\ FrameSearched(stack[Len(stack)], D)'
      BY <3>4, <3>5
    <3>7. 1 .. Len(stack') - 1 = {}
      BY <3>4
    <3>8. StackSearched(D)'
      BY <3>6, <3>7 DEF StackSearched
    <3>9. Covers(D)'
      BY <1>2, <2>1, SearchedStays DEF SearchedBy
    <3> QED
      BY <3>1, <3>8, <3>9 DEF SearchedBy
  <2>3. CASE ~ (dirs < MaxDirs)
    <3>1. at' # "in" /\ result' # "zero"
      BY <1>5, <2>3 DEF Search
    <3> QED
      BY <1>2, <2>1, <3>1, ErrorSearched
  <2> QED
    BY <2>2, <2>3
<1>6. CASE SearchStep
  <2>1. at = "in" /\ call' = call /\ prefix' = prefix /\ global \subseteq global' /\ call \in Calls
    BY <1>1, <1>6 DEF SearchStep, AddMedia, PassBy, StatFails, SkipFile, Descend, Rewind, EndOfDir, NoGlobal, SearchTyped
  <2>2. /\ Top \in Frames /\ Top.dir \in DOMAIN call.tree
        /\ FrameSearched(Top, D) /\ Covers(D)
    BY <1>1, <1>2, <2>1, TopFacts, BelowFacts DEF SearchedBy, StackSearched
  <2>3. Return("error") => \E E : SearchedBy(E)'
    <3>1. Return("error") => at' # "in" /\ result' # "zero"
      BY DEF Return
    <3> QED
      BY <1>2, <2>1, <3>1, ErrorSearched
  <2>4. ASSUME NEW e \in Top.unread, NEW name, name = path_combine(Top.path, e), Continue(Read(e)),
               \/ Top.pass = 2 /\ ~ (IsDir(Top.dir, e) /\ e \notin Dots)
               \/ Top.pass = 1 /\ (e \in DOMAIN call.tree[Top.dir] /\ call.tree[Top.dir][e] = "file"
                                     /\ mlib_filter(name) => Added(name)')
        PROVE  \E E : SearchedBy(E)'
    <3>1. PICK f : f = Read(e)
      OBVIOUS
    <3>2. /\ f \in Frames /\ f.dir = Top.dir /\ f.path = Top.path /\ f.pass = Top.pass
          /\ f.unread = Top.unread \ {e} /\ Pair(f) = Pair(Top)
      BY <1>1, <2>1, <3>1, ReadTyped DEF Pair
    <3>3. FrameSearched(f, D)'
      <4>1. CASE Top.pass = 2
        <5>1. AllAddedIn(Pair(Top)) /\ ReadSearched(Top, D)
          BY <2>2, <4>1 DEF FrameSearched
        <5>2. \A d \in DOMAIN call.tree[Top.dir] : d \notin Dots
          BY <2>1, <2>2, EntryFacts
        <5>3. ReadSearched(f, D)
          BY <2>4, <3>2, <4>1, <5>1, <5>2 DEF ReadSearched
        <5>4. FrameSearched(f, D)
          BY <3>2, <4>1, <5>1, <5>3 DEF FrameSearched
        <5> QED
          BY <2>1, <5>4, SearchedStays
      <4>2. CASE Top.pass = 1
        <5>1. ReadAdded(Top)
          BY <2>2, <4>2 DEF FrameSearched
        <5>2. \A path : Added(path) => Added(path)'
          BY <2>1 DEF Added, Overrun, drop_prefix
        <5>3. ASSUME NEW x \in DOMAIN call.tree[f.dir] \ f.unread, NEW path, path = path_combine(f.path, x),
                     call.tree[f.dir][x] = "file", mlib_filter(path)
              PROVE  Added(path)'
          <6>1. CASE x = e
            BY <2>4, <3>2, <4>2, <5>3, <6>1
          <6>2. CASE x # e
            <7>1. Added(path)
              BY <3>2, <5>1, <5>3, <6>2 DEF ReadAdded
            <7> QED
              BY <5>2, <7>1
          <6> QED
            BY <6>1, <6>2
        <5>4. ReadAdded(f)'
          BY <2>1, <5>3 DEF ReadAdded
        <5> QED
          BY <3>2, <4>2, <5>4 DEF FrameSearched
      <4> QED
        BY <2>4, <4>1, <4>2
    <3> QED
      BY <1>1, <1>2, <2>1, <2>4, <3>1, <3>2, <3>3, ContinueSearched
  <2>5. ASSUME NEW e \in Top.unread, AddMedia(e) PROVE \E E : SearchedBy(E)'
    <3>1. CASE Continue(Read(e))
      <4>1. CASE at' # "died"
        <5>1. PICK name : name = path_combine(Top.path, e)
          OBVIOUS
        <5>2. \E elem \in Dropped(name) : elem \in global'
          BY <2>5, <4>1, <5>1 DEF AddMedia
        <5>3. Added(name)'
          BY <2>1, <5>2 DEF Added, Dropped, Overrun, drop_prefix
        <5>4. Top.pass = 1
          BY <2>5 DEF AddMedia
        <5> QED
          BY <2>4, <3>1, <5>1, <5>3, <5>4
      <4>2. at' = "died" => result' = result
        BY <1>1, <2>1, <2>5 DEF AddMedia, Continue
      <4>3. CASE at' = "died" /\ result' = result
        BY <1>1, <1>2, <2>1, <4>3, ErrorSearched DEF SearchTyped
      <4> QED
        BY <2>5, <4>1, <4>2, <4>3
    <3>2. CASE at' = "died" /\ result' = result
      BY <1>1, <1>2, <2>1, <3>2, ErrorSearched DEF SearchTyped
    <3> QED
      BY <2>5, <3>1, <3>2 DEF AddMedia
  <2>6. ASSUME NEW e \in Top.unread, PassBy(e) PROVE \E E : SearchedBy(E)'
    <3>0. PICK name : name = path_combine(Top.path, e)
      OBVIOUS
    <3>1. /\ Top.pass = 1 /\ Continue(Read(e)) /\ global' = global
          /\ \/ IsDir(Top.dir, e)
             \/ Added(name)
             \/ ~ mlib_filter(name)
      BY <2>6, <3>0 DEF PassBy, Dropped, Added
    <3>2. e \in DOMAIN call.tree[Top.dir] /\ call.tree[Top.dir][e] = "file" => ~ IsDir(Top.dir, e)
      BY <2>1, <2>2, EntryFacts DEF IsDir
    <3>3. Added(name) => Added(name)'
      BY <2>1 DEF Added, Overrun, drop_prefix
    <3> QED
      BY <2>4, <3>0, <3>1, <3>2, <3>3
  <2>7. ASSUME NEW e \in Top.unread, StatFails(e) PROVE \E E : SearchedBy(E)'
    BY <2>3, <2>7 DEF StatFails
  <2>8. ASSUME NEW e \in Top.unread, SkipFile(e) PROVE \E E : SearchedBy(E)'
    <3>1. /\ Top.pass = 2 /\ KindOf(Top.dir, e) \in {"file", "dots"}
          /\ Continue(Read(e)) \/ Return("error")
      BY <2>8 DEF SkipFile
    <3>2. ~ (IsDir(Top.dir, e) /\ e \notin Dots)
      <4>1. CASE KindOf(Top.dir, e) = "file"
        BY <4>1 DEF IsDir
      <4>2. CASE KindOf(Top.dir, e) = "dots" /\ e \notin Dots
        <5>1. e \in DOMAIN call.tree[Top.dir] /\ call.tree[Top.dir][e] = "dots"
          BY <1>1, <2>1, <2>2, <4>2, TopFacts, EntryFacts
        <5> QED
          BY <2>1, <2>2, <3>1, <5>1, CallsAssumption DEF IsDir
      <4> QED
        BY <3>1, <4>1, <4>2
    <3> QED
      BY <2>3, <2>4, <3>1, <3>2
  <2>9. ASSUME NEW e \in Top.unread, Descend(e) PROVE \E E : SearchedBy(E)'
    <3>1. CASE dirs < MaxDirs
      BY <1>1, <1>2, <2>1, <2>9, <3>1, DescendSearched
    <3>2. CASE ~ (dirs < MaxDirs)
      BY <2>3, <2>9, <3>2 DEF Descend
    <3> QED
      BY <3>1, <3>2
  <2>10. CASE Rewind
    <3>1. PICK f : f = [Top EXCEPT !.pass = 2, !.unread = Entries(Top.dir)]
      OBVIOUS
    <3>2. /\ f \in Frames /\ f.dir = Top.dir /\ f.path = Top.path /\ f.pass = 2
          /\ f.unread = Entries(Top.dir) /\ Pair(f) = Pair(Top)
      BY <2>1, <2>2, <3>1, EntryFacts DEF Frames, Pair
    <3>3. ReadAdded(Top) /\ Top.unread = {} /\ Continue(f)
      BY <2>2, <2>10, <3>1 DEF Rewind, FrameSearched
    <3>4. AllAddedIn(Pair(f))
      BY <3>2, <3>3 DEF AllAddedIn, ReadAdded, MediaIn, Pair
    <3>5. ReadSearched(f, D)
      BY <3>2 DEF ReadSearched, Entries
    <3>6. FrameSearched(f, D)
      BY <3>2, <3>4, <3>5 DEF FrameSearched
    <3>7. FrameSearched(f, D)'
      BY <2>1, <3>6, SearchedStays
    <3> QED
      BY <1>1, <1>2, <2>1, <3>2, <3>3, <3>7, ContinueSearched
  <2>11. CASE EndOfDir
    BY <1>1, <1>2, <2>1, <2>11, EndSearched
  <2>12. CASE NoGlobal
    <3>1. at' = "died" /\ result' = result
      BY <2>12 DEF NoGlobal
    <3> QED
      BY <1>1, <1>2, <2>1, <3>1, ErrorSearched DEF SearchTyped
  <2> QED
    BY <1>6, <2>5, <2>6, <2>7, <2>8, <2>9, <2>10, <2>11, <2>12 DEF SearchStep
<1>7. CASE UNCHANGED vars
  <2>1. call' = call /\ prefix' = prefix /\ global' = global /\ stack' = stack /\ at' = at /\ result' = result
    BY <1>7 DEF vars
  <2>2. Covers(D)' /\ Start' = Start
    BY <1>2, <2>1, SearchedStays DEF SearchedBy
  <2>3. \A i \in 1 .. Len(stack) : Pair(stack'[i]) = Pair(stack[i])
    BY <2>1
  <2>4. at = "in" => StackSearched(D)'
    <3> SUFFICES ASSUME at = "in" PROVE StackSearched(D)'
      OBVIOUS
    <3>1. StackSearched(D)
      BY <1>2 DEF SearchedBy
    <3>2. ASSUME NEW i \in 1 .. Len(stack) - 1
          PROVE  (stack[i].pass = 2 /\ FrameSearched(stack[i], D \cup {Pair(stack[i + 1])}))'
      <4>1. PICK s, E : s = stack[i] /\ E = D \cup {Pair(stack[i + 1])}
        OBVIOUS
      <4>2. s.pass = 2 /\ FrameSearched(s, E)'
        BY <2>1, <3>1, <4>1, SearchedStays DEF StackSearched
      <4> QED
        BY <2>1, <4>1, <4>2
    <3>3. FrameSearched(stack[Len(stack)], D)'
      <4>1. PICK s : s = stack[Len(stack)]
        OBVIOUS
      <4>2. FrameSearched(s, D)'
        BY <2>1, <3>1, <4>1, SearchedStays DEF StackSearched
      <4> QED
        BY <2>1, <4>1, <4>2
    <3>4. (Pair(stack[1]) = Start)'
      BY <2>1, <2>2, <3>1 DEF StackSearched
    <3> QED
      BY <2>1, <3>2, <3>3, <3>4 DEF StackSearched
  <2> QED
    BY <1>2, <2>1, <2>2, <2>4 DEF SearchedBy
<1> QED
  BY <1>3, <1>4, <1>5, <1>6, <1>7 DEF Next
-----------------------------------------------------------------------------
(* The directories below the top one, by depth. *)

(* Every set of natural numbers that has a member has a least one. *)
LEMMA LeastOf ==
  ASSUME NEW S \in SUBSET Nat, S # {}
  PROVE  \E k \in S : \A j \in S : k <= j
<1> DEFINE R == OpToRel(<, Nat)
<1>1. IsWellFoundedOn(R, Nat)
  BY NatLessThanWellFounded
<1>2. \A j, k \in Nat : j < k => <<j, k>> \in R
  BY DEF OpToRel
<1> HIDE DEF R
<1>3. PICK k \in S : \A j \in S : ~ (<<j, k>> \in R)
  BY <1>1, WFMin
<1>4. \A j \in S : ~ (j < k)
  BY <1>2, <1>3
<1> QED
  BY <1>4

Deeper(S) == S \cup UNION {Subdirs(d) : d \in S}
UpTo(f, n) == f = [k \in 0 .. n |-> IF k = 0 THEN {Start} ELSE Deeper(f[k - 1])]

(* The recursion has a solution, to any depth. *)
LEMMA UpToExists == \A n \in Nat : \E f : UpTo(f, n)
<1> DEFINE S == {n \in Nat : ~ \E f : UpTo(f, n)}
<1> SUFFICES ASSUME S # {} PROVE FALSE
  OBVIOUS
<1>1. PICK n \in S : \A j \in S : n <= j
  BY LeastOf
<1>2. n \in Nat /\ ~ \E f : UpTo(f, n)
  OBVIOUS
<1>3. CASE n = 0
  <2> DEFINE f == [k \in 0 .. 0 |-> {Start}]
  <2>1. f = [k \in 0 .. 0 |-> IF k = 0 THEN {Start} ELSE Deeper(f[k - 1])]
    OBVIOUS
  <2>2. UpTo(f, 0)
    BY <2>1 DEF UpTo
  <2> QED
    BY <1>2, <1>3, <2>2
<1>4. CASE n # 0
  <2>1. n - 1 \in Nat /\ n - 1 \notin S
    BY <1>1, <1>2, <1>4
  <2>2. PICK f : UpTo(f, n - 1)
    BY <2>1
  <2> DEFINE g == [k \in 0 .. n |-> IF k = n THEN Deeper(f[n - 1]) ELSE f[k]]
  <2>3. ASSUME NEW k \in 0 .. n - 1
        PROVE  g[k] = f[k] /\ f[k] = IF k = 0 THEN {Start} ELSE Deeper(f[k - 1])
    <3>1. k \in 0 .. n /\ k # n
      BY <1>2
    <3>2. f[k] = IF k = 0 THEN {Start} ELSE Deeper(f[k - 1])
      BY <2>2, Zenon DEF UpTo
    <3> QED
      BY <3>1, <3>2
  <2>4. ASSUME NEW k \in 0 .. n
        PROVE  g[k] = IF k = 0 THEN {Start} ELSE Deeper(g[k - 1])
    <3>1. k # 0 => k - 1 \in 0 .. n - 1
      BY <1>2
    <3>2. CASE k = n
      <4>1. g[k] = Deeper(f[n - 1]) /\ k # 0
        BY <1>2, <1>4, <3>2
      <4>2. f[n - 1] = g[k - 1]
        BY <2>3, <3>1, <3>2, <4>1
      <4> QED
        BY <4>1, <4>2
    <3>3. CASE k # n
      <4>1. k \in 0 .. n - 1
        BY <1>2, <3>3
      <4> HIDE DEF g
      <4>2. g[k] = IF k = 0 THEN {Start} ELSE Deeper(f[k - 1])
        BY <2>3, <4>1
      <4>3. k # 0 => f[k - 1] = g[k - 1]
        BY <2>3, <3>1
      <4> QED
        BY <4>2, <4>3
    <3> QED
      BY <3>2, <3>3
  <2>5. g = [k \in 0 .. n |-> g[k]]
    OBVIOUS
  <2> HIDE DEF g
  <2>6. g = [k \in 0 .. n |-> IF k = 0 THEN {Start} ELSE Deeper(g[k - 1])]
    BY <2>4, <2>5
  <2>7. UpTo(g, n)
    BY <2>6 DEF UpTo
  <2> QED
    BY <1>2, <2>7
<1> QED
  BY <1>3, <1>4

LEMMA UpToIs ==
  ASSUME call \in Calls
  PROVE  /\ DirsUpTo[0] = {Start}
         /\ \A n \in 1 .. MaxDirs : DirsUpTo[n] = Deeper(DirsUpTo[n - 1])
<1>1. MaxDirs \in Nat
  BY CallFacts
<1>2. PICK f : UpTo(f, MaxDirs)
  BY <1>1, UpToExists
<1>3. f = [n \in 0 .. MaxDirs |-> IF n = 0 THEN {<<call.top, call.dir>>}
                                  ELSE f[n - 1] \cup UNION {Subdirs(d) : d \in f[n - 1]}]
  BY <1>2 DEF UpTo, Deeper, Start
<1>4. DirsUpTo = [n \in 0 .. MaxDirs |-> IF n = 0 THEN {<<call.top, call.dir>>}
                                         ELSE DirsUpTo[n - 1] \cup UNION {Subdirs(d) : d \in DirsUpTo[n - 1]}]
  BY <1>3, Zenon DEF DirsUpTo
<1>5. \A n \in 0 .. MaxDirs : DirsUpTo[n] = IF n = 0 THEN {Start} ELSE Deeper(DirsUpTo[n - 1])
  BY <1>4, Zenon DEF Deeper, Start
<1>6. 0 \in 0 .. MaxDirs /\ \A n \in 1 .. MaxDirs : n \in 0 .. MaxDirs /\ n # 0
  BY <1>1
<1> QED
  BY <1>5, <1>6

(* A set that has the top directory and the subdirectories of all it has   *)
(* has them all.                                                           *)
LEMMA UpToCovered ==
  ASSUME call \in Calls, NEW D, Start \in D, \A d \in D : Subdirs(d) \subseteq D
  PROVE  DirsUpTo[MaxDirs] \subseteq D
<1> DEFINE S == {n \in Nat : n <= MaxDirs /\ ~ (DirsUpTo[n] \subseteq D)}
<1>1. MaxDirs \in Nat
  BY CallFacts
<1> SUFFICES ASSUME S # {} PROVE FALSE
  BY <1>1
<1>2. PICK n \in S : \A j \in S : n <= j
  BY LeastOf
<1>3. CASE n = 0
  BY <1>3, UpToIs
<1>4. CASE n # 0
  <2>1. n \in 1 .. MaxDirs /\ n - 1 \in Nat /\ n - 1 <= MaxDirs /\ n - 1 \notin S
    BY <1>1, <1>2, <1>4
  <2>2. DirsUpTo[n - 1] \subseteq D
    BY <2>1
  <2>3. DirsUpTo[n] = Deeper(DirsUpTo[n - 1])
    BY <2>1, UpToIs
  <2>4. DirsUpTo[n] \subseteq D
    BY <2>2, <2>3 DEF Deeper
  <2> QED
    BY <2>4
<1> QED
  BY <1>3, <1>4

(* A search that returned zero has added every media file below the        *)
(* directory whose path is no beginning of the prefix: for every tree,     *)
(* links that lead back included, whatever the order of entries, the       *)
(* library's prefix, what unset memory holds and what lies behind a path.  *)
THEOREM SearchCompleteAlways == Spec => []SearchComplete
<1>1. SearchInv => SearchComplete
  <2> SUFFICES ASSUME SearchInv, result = "zero" PROVE \A m \in MediaBelow : Added(m)
    BY DEF SearchComplete
  <2>1. PICK D : SearchedBy(D)
    BY DEF SearchInv
  <2>2. /\ call \in Calls /\ Start \in D
        /\ \A d \in D : AllAddedIn(d) /\ Subdirs(d) \subseteq D
    BY <2>1 DEF SearchInv, SearchTyped, SearchedBy, Covers
  <2>3. DirsUpTo[MaxDirs] \subseteq D
    BY <2>2, UpToCovered
  <2> QED
    BY <2>2, <2>3 DEF AllAddedIn, MediaBelow
<1> QED
  BY SearchInit, SearchNext, <1>1, PTL DEF Spec

(* What is reached is reached by more directories too. *)
LEMMA UpToGrows ==
  ASSUME call \in Calls, NEW n \in 0 .. MaxDirs
  PROVE  DirsUpTo[n] \subseteq DirsUpTo[MaxDirs]
<1> DEFINE S == {k \in Nat : n + k <= MaxDirs /\ ~ (DirsUpTo[n] \subseteq DirsUpTo[n + k])}
<1>1. MaxDirs \in Nat /\ n \in Nat
  BY CallFacts
<1> SUFFICES ASSUME S # {} PROVE FALSE
  <2>1. MaxDirs - n \in Nat /\ n + (MaxDirs - n) = MaxDirs
    BY <1>1
  <2> QED
    BY <2>1
<1>2. PICK k \in S : \A j \in S : k <= j
  BY LeastOf
<1>3. CASE k = 0
  BY <1>1, <1>3
<1>4. CASE k # 0
  <2>1. /\ k - 1 \in Nat /\ n + (k - 1) <= MaxDirs /\ k - 1 \notin S
        /\ n + k \in 1 .. MaxDirs /\ n + k - 1 = n + (k - 1)
    BY <1>1, <1>2, <1>4
  <2>2. DirsUpTo[n] \subseteq DirsUpTo[n + (k - 1)]
    BY <2>1
  <2>3. DirsUpTo[n + k] = Deeper(DirsUpTo[n + k - 1])
    BY <2>1, UpToIs
  <2>4. DirsUpTo[n] \subseteq DirsUpTo[n + k]
    BY <2>1, <2>2, <2>3 DEF Deeper
  <2> QED
    BY <2>4
<1> QED
  BY <1>3, <1>4

-----------------------------------------------------------------------------
(* Paths and prefixes. *)

LEMMA FromConcat ==
  ASSUME NEW a \in Seq(Chars), NEW b \in Seq(Chars)
  PROVE  From(a \o b, Len(a) + 1) = b
<1> DEFINE s == a \o b
           m == Len(a) + 1
           n == Len(s)
<1>1. /\ s \in Seq(Chars) /\ n = Len(a) + Len(b) /\ Len(a) \in Nat /\ Len(b) \in Nat
      /\ \A i \in 1 .. Len(a) + Len(b) : s[i] = IF i <= Len(a) THEN a[i] ELSE b[i - Len(a)]
  BY ConcatProperties, LenProperties
<1>2. m \in Int /\ n \in Int /\ \A i \in m .. n : s[i] \in Chars
  BY <1>1, ElementOfSeq
<1> HIDE DEF s, m, n
<1>3. /\ SubSeq(s, m, n) \in Seq(Chars)
      /\ Len(SubSeq(s, m, n)) = IF m <= n THEN n - m + 1 ELSE 0
      /\ \A i \in 1 .. n - m + 1 : SubSeq(s, m, n)[i] = s[m + i - 1]
  BY <1>2, SubSeqProperties
<1>4. Len(SubSeq(s, m, n)) = Len(b)
  BY <1>1, <1>3 DEF m
<1>5. ASSUME NEW i \in 1 .. Len(b) PROVE SubSeq(s, m, n)[i] = b[i]
  <2>1. /\ i \in 1 .. n - m + 1 /\ m + i - 1 = Len(a) + i
        /\ Len(a) + i \in 1 .. Len(a) + Len(b) /\ ~ (Len(a) + i <= Len(a)) /\ Len(a) + i - Len(a) = i
    BY <1>1 DEF m
  <2>2. SubSeq(s, m, n)[i] = s[m + i - 1]
    BY <1>3, <2>1
  <2>3. s[Len(a) + i] = b[Len(a) + i - Len(a)]
    BY <1>1, <2>1
  <2> QED
    BY <2>1, <2>2, <2>3
<1>6. SubSeq(s, m, n) = b
  BY <1>3, <1>4, <1>5, SeqEqual
<1> QED
  BY <1>6 DEF From, s, m, n

(* There is one length that two paths share. *)
LEMMA SharedIs ==
  ASSUME NEW path \in Seq(Chars), NEW pre \in Seq(Chars), NEW n \in 0 .. Len(path),
         \A i \in 1 .. n : path[i] = pre[i], n <= Len(pre),
         n = Len(path) \/ n = Len(pre) \/ path[n + 1] # pre[n + 1]
  PROVE  Shared(path, pre) = n
<1>1. Len(path) \in Nat /\ Len(pre) \in Nat
  BY LenProperties
<1>2. ASSUME NEW m \in 0 .. Len(path), m <= Len(pre)
      PROVE  SubSeq(path, 1, m) = SubSeq(pre, 1, m) <=> \A i \in 1 .. m : path[i] = pre[i]
  <2>1. /\ m \in Int /\ (\A i \in 1 .. m : path[i] \in Chars) /\ (\A i \in 1 .. m : pre[i] \in Chars)
    BY <1>1, <1>2, ElementOfSeq
  <2>2. /\ SubSeq(path, 1, m) \in Seq(Chars)
        /\ Len(SubSeq(path, 1, m)) = IF 1 <= m THEN m - 1 + 1 ELSE 0
        /\ \A i \in 1 .. m - 1 + 1 : SubSeq(path, 1, m)[i] = path[1 + i - 1]
    BY <2>1, SubSeqProperties
  <2>3. /\ SubSeq(pre, 1, m) \in Seq(Chars)
        /\ Len(SubSeq(pre, 1, m)) = IF 1 <= m THEN m - 1 + 1 ELSE 0
        /\ \A i \in 1 .. m - 1 + 1 : SubSeq(pre, 1, m)[i] = pre[1 + i - 1]
    BY <2>1, SubSeqProperties
  <2>4. m - 1 + 1 = m /\ (m = IF 1 <= m THEN m - 1 + 1 ELSE 0) /\ \A i \in 1 .. m : 1 + i - 1 = i
    BY <1>1
  <2>5. /\ Len(SubSeq(path, 1, m)) = m /\ Len(SubSeq(pre, 1, m)) = m
        /\ \A i \in 1 .. m : SubSeq(path, 1, m)[i] = path[i] /\ SubSeq(pre, 1, m)[i] = pre[i]
    BY <2>2, <2>3, <2>4
  <2>6. (\A i \in 1 .. m : path[i] = pre[i]) => SubSeq(path, 1, m) = SubSeq(pre, 1, m)
    <3> SUFFICES ASSUME \A i \in 1 .. m : path[i] = pre[i] PROVE SubSeq(path, 1, m) = SubSeq(pre, 1, m)
      OBVIOUS
    <3>1. \A i \in 1 .. Len(SubSeq(path, 1, m)) : SubSeq(path, 1, m)[i] = SubSeq(pre, 1, m)[i]
      BY <2>5
    <3> QED
      BY <2>2, <2>3, <2>5, <3>1, SeqEqual
  <2> QED
    BY <2>5, <2>6
<1> DEFINE Fits(m) == /\ SubSeq(path, 1, m) = SubSeq(pre, 1, m) /\ m <= Len(pre)
                      /\ m = Len(path) \/ m = Len(pre) \/ path[m + 1] # pre[m + 1]
<1>3. Fits(n)
  BY <1>2
<1>4. ASSUME NEW m \in 0 .. Len(path), Fits(m) PROVE m = n
  <2>1. m <= Len(pre) /\ n <= Len(pre) /\ \A i \in 1 .. m : path[i] = pre[i]
    BY <1>2, <1>4
  <2>2. ~ (m < n)
    <3>1. m < n => m # Len(path) /\ m # Len(pre) /\ m + 1 \in 1 .. n
      BY <1>1, <2>1
    <3> QED
      BY <1>4, <3>1
  <2>3. ~ (n < m)
    <3>1. n < m => n # Len(path) /\ n # Len(pre) /\ n + 1 \in 1 .. m
      BY <1>1, <2>1
    <3> QED
      BY <2>1, <3>1
  <2> QED
    BY <1>1, <2>2, <2>3
<1> HIDE DEF Fits
<1>5. Shared(path, pre) = CHOOSE m \in 0 .. Len(path) : Fits(m)
  BY DEF Shared, Fits
<1> QED
  BY <1>3, <1>4, <1>5

(* How the program is called where PathsLead asks anything: realpath()     *)
(* returns an absolute path, and the directory is given as that, with one  *)
(* slash behind it, or as ".".  Another way to write it can take the first *)
(* character off a name.                                                   *)
MadeForDir == MadeAnew /\ call.prefix = <<>>
GivenWell ==
  \A c \in Calls : (c.found = "absent" \/ c.overwrite) /\ c.prefix = <<>> =>
    /\ c.real # <<>> /\ c.real[1] = Slash
    /\ c.dir \in {c.real, c.real \o <<Slash>>, <<".">>}

(* A path below the directory. *)
LiesBelow(name, t) ==
  /\ t \in Seq(Chars) /\ t # <<>> /\ t[1] # Slash
  /\ name = call.dir \o (<<Slash>> \o t)
Led(path) == path = call.dir \/ \E t : LiesBelow(path, t)

LEMMA SlashSeq == <<Slash>> \in Seq(Chars) /\ <<".">> \in Seq(Chars) /\ Len(<<Slash>>) = 1 /\ <<Slash>>[1] = Slash
<1>1. Slash \in Chars /\ "." \in Chars
  BY CallsAssumption
<1> QED
  BY <1>1, ShortSeqs

LEMMA Associative == \A x, y, z \in Seq(Chars) : (x \o y) \o z = x \o (y \o z)
BY ConcatAssociative

LEMMA CombineLed ==
  ASSUME call \in Calls, NEW path \in Seq(Chars), Led(path),
         NEW e \in Seq(Chars), e # <<>>, e[1] # Slash
  PROVE  \E t : LiesBelow(path_combine(path, e), t)
<1>1. call.dir \in Seq(Chars) /\ <<Slash>> \in Seq(Chars)
  BY CallFacts, SlashSeq
<1>2. <<Slash>> \o e \in Seq(Chars) /\ path_combine(path, e) = path \o (<<Slash>> \o e)
  <2>1. <<Slash>> \o e \in Seq(Chars)
    BY <1>1, ConcatProperties
  <2>2. (path \o <<Slash>>) \o e = path \o (<<Slash>> \o e)
    BY <1>1, Associative, Zenon
  <2> QED
    BY <2>1, <2>2 DEF path_combine
<1>3. CASE path = call.dir
  BY <1>2, <1>3 DEF LiesBelow
<1>4. ASSUME NEW t, LiesBelow(path, t) PROVE \E u : LiesBelow(path_combine(path, e), u)
  <2>1. t \in Seq(Chars) /\ t # <<>> /\ t[1] # Slash /\ path = call.dir \o (<<Slash>> \o t)
    BY <1>4 DEF LiesBelow
  <2> DEFINE u == t \o (<<Slash>> \o e)
  <2>2. u \in Seq(Chars) /\ Len(t) \in Nat /\ Len(t) >= 1
    BY <1>2, <2>1, ConcatProperties, EmptySeq
  <2>3. Len(u) = Len(t) + Len(<<Slash>> \o e) /\ Len(<<Slash>> \o e) \in Nat
    BY <1>2, <2>1, ConcatProperties, LenProperties
  <2>4. u[1] = t[1]
    BY <1>2, <2>1, <2>2, <2>3, ConcatProperties
  <2>5. u # <<>>
    BY <2>2, <2>3, EmptySeq
  <2>6. <<Slash>> \o t \in Seq(Chars)
    BY <1>1, <2>1, ConcatProperties
  <2>7. path \o (<<Slash>> \o e) = call.dir \o ((<<Slash>> \o t) \o (<<Slash>> \o e))
    <3>1. PICK a, x, y : a = call.dir /\ x = <<Slash>> \o t /\ y = <<Slash>> \o e
      OBVIOUS
    <3>2. a \in Seq(Chars) /\ x \in Seq(Chars) /\ y \in Seq(Chars)
      BY <1>1, <1>2, <2>6, <3>1
    <3>3. (a \o x) \o y = a \o (x \o y)
      BY <3>2, Associative, Zenon
    <3> QED
      BY <2>1, <3>1, <3>3
  <2>8. (<<Slash>> \o t) \o (<<Slash>> \o e) = <<Slash>> \o u
    BY <1>1, <1>2, <2>1, Associative, Zenon
  <2>9. LiesBelow(path_combine(path, e), u)
    BY <1>2, <2>1, <2>2, <2>4, <2>5, <2>7, <2>8 DEF LiesBelow
  <2> QED
    BY <2>9
<1> QED
  BY <1>3, <1>4 DEF Led

(* Where the directory, a slash and the rest are in such a path. *)
NameOf(name, a, sl, t) ==
  /\ a \in Seq(Chars) /\ sl = <<Slash>> /\ t \in Seq(Chars) /\ t # <<>> /\ t[1] # Slash
  /\ name = a \o (sl \o t)

LEMMA NameFacts ==
  ASSUME NEW name, NEW a, NEW sl, NEW t, NameOf(name, a, sl, t)
  PROVE  /\ name \in Seq(Chars) /\ Len(name) = Len(a) + 1 + Len(t) /\ Len(a) \in Nat /\ Len(t) \in Nat
         /\ Len(t) >= 1
         /\ \A i \in 1 .. Len(a) : name[i] = a[i]
         /\ name[Len(a) + 1] = Slash /\ name[Len(a) + 2] = t[1]
         /\ From(name, Len(a) + 2) = t
         /\ From(name, Len(a) + 1) = sl \o t
<1>1. a \in Seq(Chars) /\ t \in Seq(Chars) /\ t # <<>> /\ t[1] # Slash /\ name = a \o (sl \o t)
  BY DEF NameOf
<1>2. sl \in Seq(Chars) /\ Len(sl) = 1 /\ sl[1] = Slash
  BY SlashSeq DEF NameOf
<1>3. Len(a) \in Nat /\ Len(t) \in Nat /\ Len(t) >= 1
  BY <1>1, EmptySeq, LenProperties
<1>4. /\ a \o sl \in Seq(Chars) /\ Len(a \o sl) = Len(a) + 1
      /\ \A i \in 1 .. Len(a) + Len(sl) : (a \o sl)[i] = IF i <= Len(a) THEN a[i] ELSE sl[i - Len(a)]
  <2>1. /\ a \o sl \in Seq(Chars) /\ Len(a \o sl) = Len(a) + Len(sl)
        /\ \A i \in 1 .. Len(a) + Len(sl) : (a \o sl)[i] = IF i <= Len(a) THEN a[i] ELSE sl[i - Len(a)]
    BY <1>1, <1>2, ConcatProperties, Zenon
  <2> QED
    BY <1>2, <2>1
<1>5. name = (a \o sl) \o t
  BY <1>1, <1>2, Associative, Zenon
<1>6. PICK b : b = a \o sl
  OBVIOUS
<1>7. /\ b \in Seq(Chars) /\ Len(b) = Len(a) + 1 /\ name = b \o t
      /\ \A i \in 1 .. Len(a) : b[i] = a[i]
      /\ b[Len(a) + 1] = Slash
  <2>1. \A i \in 1 .. Len(a) : b[i] = a[i]
    BY <1>2, <1>3, <1>4, <1>6
  <2>2. b[Len(a) + 1] = sl[Len(a) + 1 - Len(a)] /\ Len(a) + 1 - Len(a) = 1
    BY <1>2, <1>3, <1>4, <1>6
  <2> QED
    BY <1>2, <1>4, <1>5, <1>6, <2>1, <2>2
<1>8. /\ name \in Seq(Chars) /\ Len(name) = Len(b) + Len(t)
      /\ \A i \in 1 .. Len(b) + Len(t) : name[i] = IF i <= Len(b) THEN b[i] ELSE t[i - Len(b)]
  <2>1. b \in Seq(Chars) /\ t \in Seq(Chars) /\ name = b \o t
    BY <1>1, <1>7
  <2>2. /\ b \o t \in Seq(Chars) /\ Len(b \o t) = Len(b) + Len(t)
        /\ \A i \in 1 .. Len(b) + Len(t) : (b \o t)[i] = IF i <= Len(b) THEN b[i] ELSE t[i - Len(b)]
    BY <2>1, ConcatProperties, Zenon
  <2> QED
    BY <2>1, <2>2
<1>9. \A i \in 1 .. Len(a) : name[i] = a[i]
  BY <1>3, <1>7, <1>8
<1>10. name[Len(a) + 1] = Slash
  BY <1>3, <1>7, <1>8
<1>11. name[Len(a) + 2] = t[Len(a) + 2 - Len(b)] /\ Len(a) + 2 - Len(b) = 1
  BY <1>3, <1>7, <1>8
<1>12. From(b \o t, Len(b) + 1) = t /\ Len(b) + 1 = Len(a) + 2
  BY <1>1, <1>3, <1>7, FromConcat
<1>13. From(name, Len(a) + 1) = sl \o t
  <2>1. sl \o t \in Seq(Chars)
    BY <1>1, <1>2, ConcatProperties
  <2> QED
    BY <1>1, <2>1, FromConcat
<1> QED
  BY <1>3, <1>7, <1>8, <1>9, <1>10, <1>11, <1>12, <1>13

(* The prefix does not go on behind a path that is longer than it, or      *)
(* begins otherwise.                                                       *)
LEMMA NoOverrun ==
  ASSUME prefix \in Seq(Chars), prefix # <<>>, NEW name \in Seq(Chars), name # <<>>,
         Len(name) > Len(prefix) \/ name[1] # prefix[1]
  PROVE  ~ Overrun(name)
<1> SUFFICES ASSUME Overrun(name) PROVE FALSE
  OBVIOUS
<1>1. /\ Len(name) \in Nat /\ Len(prefix) \in Nat /\ Len(name) >= 1
  BY EmptySeq, LenProperties
<1>2. PICK a, b, n : a = name /\ b = prefix /\ n = Len(name)
  OBVIOUS
<1>3. n <= Len(b) /\ SubSeq(a, 1, n) = SubSeq(b, 1, n)
  BY <1>2 DEF Overrun, IsPrefix
<1>4. SubSeq(a, 1, n)[1] = a[1] /\ SubSeq(b, 1, n)[1] = b[1]
  BY <1>1, <1>2, <1>3
<1> QED
  BY <1>1, <1>2, <1>3, <1>4

LEMMA DropIs ==
  ASSUME prefix \in Seq(Chars), prefix # <<>>, prefix[1] = Slash,
         NEW name, NEW a, NEW sl, NEW t, NameOf(name, a, sl, t), a \in {prefix, prefix \o sl, <<".">>}
  PROVE  drop_prefix(name) = t /\ ~ Overrun(name)
<1>1. PICK R, n, k : R = prefix /\ n = Len(R) /\ k = Shared(name, R) + 2
  OBVIOUS
<1>0. /\ a \in Seq(Chars) /\ sl = <<Slash>> /\ t \in Seq(Chars) /\ t # <<>> /\ t[1] # Slash
  BY DEF NameOf
<1>2. R \in Seq(Chars) /\ n \in Nat /\ n >= 1 /\ R[1] = Slash
  BY <1>1, EmptySeq
<1>3. /\ name \in Seq(Chars) /\ Len(name) = Len(a) + 1 + Len(t) /\ Len(a) \in Nat /\ Len(t) \in Nat
      /\ Len(t) >= 1
      /\ \A i \in 1 .. Len(a) : name[i] = a[i]
      /\ name[Len(a) + 1] = Slash /\ name[Len(a) + 2] = t[1]
      /\ From(name, Len(a) + 2) = t
  BY NameFacts
<1>4. drop_prefix(name) = IF k <= Len(name) /\ name[k] = Slash THEN From(name, k + 1) ELSE From(name, k)
  BY <1>1 DEF drop_prefix
<1>5. CASE a = R
  <2>1. n \in 0 .. Len(name) /\ n <= Len(R) /\ n = Len(R) /\ \A i \in 1 .. n : name[i] = R[i]
    BY <1>1, <1>2, <1>3, <1>5
  <2>2. Shared(name, R) = n
    BY <1>2, <1>3, <2>1, SharedIs
  <2>3. k = Len(a) + 2
    BY <1>1, <1>5, <2>2
  <2>4. ~ Overrun(name)
    BY <1>1, <1>2, <1>3, <1>5, EmptySeq, NoOverrun
  <2> QED
    BY <1>0, <1>3, <1>4, <2>3, <2>4
<1>6. CASE a = R \o sl
  <2>1. Len(a) = n + 1 /\ \A i \in 1 .. n : a[i] = R[i]
    <3>2. sl \in Seq(Chars) /\ Len(sl) = 1
      BY <1>0, SlashSeq
    <3>1. /\ Len(R \o sl) = Len(R) + Len(sl)
          /\ \A i \in 1 .. Len(R) + Len(sl) : (R \o sl)[i] = IF i <= Len(R) THEN R[i] ELSE sl[i - Len(R)]
      BY <1>2, <3>2, ConcatProperties, Zenon
    <3>3. /\ Len(a) = Len(R) + Len(sl)
          /\ \A i \in 1 .. Len(R) + Len(sl) : a[i] = IF i <= Len(R) THEN R[i] ELSE sl[i - Len(R)]
      BY <1>6, <3>1
    <3> QED
      BY <1>1, <1>2, <3>2, <3>3
  <2>2. n \in 0 .. Len(name) /\ n <= Len(R) /\ n = Len(R) /\ \A i \in 1 .. n : name[i] = R[i]
    BY <1>1, <1>2, <1>3, <2>1
  <2>3. Shared(name, R) = n
    BY <1>2, <1>3, <2>2, SharedIs
  <2>4. k = Len(a) + 1 /\ k + 1 = Len(a) + 2 /\ k <= Len(name)
    BY <1>1, <1>2, <1>3, <2>1, <2>3
  <2>5. ~ Overrun(name)
    BY <1>1, <1>2, <1>3, <2>1, EmptySeq, NoOverrun
  <2> QED
    BY <1>3, <1>4, <2>4, <2>5
<1>7. CASE a = <<".">>
  <2>1. Len(a) = 1 /\ a[1] = "."
    BY <1>7
  <2>2. name[1] = "." /\ R[1] # "."
    BY <1>2, <1>3, <2>1 DEF Slash
  <2>3. 0 \in 0 .. Len(name) /\ 0 <= Len(R) /\ (\A i \in 1 .. 0 : name[i] = R[i]) /\ name[0 + 1] # R[0 + 1]
    BY <1>1, <1>2, <1>3, <2>2
  <2>4. Shared(name, R) = 0
    BY <1>2, <1>3, <2>3, SharedIs
  <2>5. k = Len(a) + 1 /\ k + 1 = Len(a) + 2 /\ k <= Len(name)
    BY <1>1, <1>3, <2>1, <2>4
  <2>6. ~ Overrun(name)
    BY <1>1, <1>2, <1>3, <2>2, EmptySeq, NoOverrun
  <2> QED
    BY <1>3, <1>4, <2>5, <2>6
<1> QED
  BY <1>1, <1>5, <1>6, <1>7

(* What enters the library leads back: the prefix and the element make the *)
(* real path.                                                              *)
LEMMA DropLeads ==
  ASSUME call \in Calls, GivenWell, MadeForDir, prefix = call.real, NEW name, NEW t, LiesBelow(name, t)
  PROVE  path_combine(prefix, drop_prefix(name)) = RealPath(name) /\ ~ Overrun(name)
<1>1. PICK a, sl : a = call.dir /\ sl = <<Slash>>
  OBVIOUS
<1>2. /\ prefix \in Seq(Chars) /\ prefix # <<>> /\ prefix[1] = Slash
      /\ a \in Seq(Chars) /\ a \in {prefix, prefix \o sl, <<".">>}
  BY <1>1, CallFacts DEF GivenWell, MadeForDir, MadeAnew
<1>3. NameOf(name, a, sl, t)
  BY <1>1, <1>2 DEF LiesBelow, NameOf
<1>4. drop_prefix(name) = t /\ ~ Overrun(name)
  BY <1>2, <1>3, DropIs
<1>5. From(name, Len(a) + 1) = sl \o t
  BY <1>3, NameFacts
<1>6. path_combine(prefix, t) = prefix \o (sl \o t)
  <2>1. sl \in Seq(Chars) /\ t \in Seq(Chars) /\ prefix \in Seq(Chars)
    BY <1>1, <1>2, SlashSeq DEF LiesBelow
  <2>2. (prefix \o sl) \o t = prefix \o (sl \o t)
    BY <2>1, Associative, Zenon
  <2> QED
    BY <1>1, <2>2 DEF path_combine
<1> QED
  BY <1>1, <1>4, <1>5, <1>6 DEF RealPath
-----------------------------------------------------------------------------
(* Where the frames are: the one at height i is in a directory that i - 1  *)
(* steps lead to, by a path below the one given; there are no more of them *)
(* than directories opened.                                                *)
StackLed ==
  /\ Len(stack) <= dirs
  /\ \A i \in 1 .. Len(stack) : Pair(stack[i]) \in DirsUpTo[i - 1] /\ Led(stack[i].path)
ElementsLead ==
  \A elem \in global : prefix = call.real /\ path_combine(prefix, elem) \in {RealPath(m) : m \in MediaBelow}
PathInv ==
  /\ SearchTyped
  /\ MadeForDir =>
       /\ at \in {"start", "open"} => global = {}
       /\ at \in {"search", "in"} => prefix = call.real
       /\ at = "in" => StackLed
       /\ ElementsLead

(* The directories below are those of the call, which no step changes. *)
SubdirsOf(c, d) ==
  {<<c.tree[d[1]][e], path_combine(d[2], e)>> :
     e \in {f \in DOMAIN c.tree[d[1]] :
              (IF f \in Dots THEN "dots" ELSE c.tree[d[1]][f]) \notin {"file", "gone"}}}
UpToOf(c) == CHOOSE f : f = [n \in 0 .. MaxDirs |->
  IF n = 0 THEN {<<c.top, c.dir>>} ELSE f[n - 1] \cup UNION {SubdirsOf(c, d) : d \in f[n - 1]}]

LEMMA UpToNow == DirsUpTo = UpToOf(call)
BY DEF DirsUpTo, UpToOf, Subdirs, SubdirsOf, IsDir, KindOf

LEMMA UpToThen == DirsUpTo' = UpToOf(call')
BY DEF DirsUpTo, UpToOf, Subdirs, SubdirsOf, IsDir, KindOf

LEMMA PathsStay ==
  ASSUME call' = call
  PROVE  /\ DirsUpTo' = DirsUpTo /\ MediaBelow' = MediaBelow /\ MadeForDir' = MadeForDir
         /\ \A path : Led(path)' = Led(path)
         /\ \A m : RealPath(m)' = RealPath(m)
<1>1. \A d : Subdirs(d)' = Subdirs(d) /\ MediaIn(d)' = MediaIn(d)
  BY DEF Subdirs, MediaIn, IsDir, KindOf
<1>2. DirsUpTo' = DirsUpTo
  BY UpToNow, UpToThen
<1>3. MediaBelow' = MediaBelow
  BY <1>1, <1>2 DEF MediaBelow
<1>4. \A path : Led(path)' = Led(path)
  BY DEF Led, LiesBelow
<1>5. \A m : RealPath(m)' = RealPath(m)
  BY DEF RealPath
<1>6. MadeForDir' = MadeForDir
  BY DEF MadeForDir, MadeAnew
<1> QED
  BY <1>2, <1>3, <1>4, <1>5, <1>6

LEMMA ElementsStay ==
  ASSUME call' = call, prefix' = prefix, global' = global, ElementsLead
  PROVE  ElementsLead'
BY PathsStay DEF ElementsLead

(* A stack that only loses frames, or whose frames read on. *)
LEMMA StackLedStays ==
  ASSUME call' = call, StackLed, Len(stack') <= Len(stack), dirs' = dirs, dirs \in Nat,
         Len(stack) \in Nat, Len(stack') \in Nat,
         \A i \in 1 .. Len(stack') : Pair(stack'[i]) = Pair(stack[i])
  PROVE  StackLed'
<1>1. Len(stack') <= dirs'
  BY DEF StackLed
<1>2. ASSUME NEW i \in 1 .. Len(stack')
      PROVE  (Pair(stack[i]) \in DirsUpTo[i - 1] /\ Led(stack[i].path))'
  <2>1. i \in 1 .. Len(stack)
    OBVIOUS
  <2>2. Pair(stack[i]) \in DirsUpTo[i - 1] /\ Led(stack[i].path)
    BY <2>1 DEF StackLed
  <2>3. stack'[i].path = stack[i].path
    BY DEF Pair
  <2>4. PICK path : path = stack'[i].path
    OBVIOUS
  <2>5. Led(path)'
    BY <2>2, <2>3, <2>4, PathsStay
  <2>6. Pair(stack'[i]) \in DirsUpTo'[i - 1]
    BY <2>2, PathsStay
  <2> QED
    BY <2>4, <2>5, <2>6
<1> QED
  BY <1>1, <1>2 DEF StackLed

LEMMA ContinueLed ==
  ASSUME SearchTyped, at = "in", StackLed, call' = call, dirs' = dirs,
         NEW f \in Frames, Continue(f), Pair(f) = Pair(Top)
  PROVE  StackLed'
<1>1. /\ stack \in Seq(Frames) /\ stack # <<>> /\ Top = stack[Len(stack)]
      /\ Len(stack) \in Nat /\ Len(stack) >= 1 /\ dirs \in Nat
  BY TopFacts, BelowFacts DEF SearchTyped
<1>2. /\ Len(stack') = Len(stack) /\ stack'[Len(stack)] = f
      /\ \A i \in 1 .. Len(stack) - 1 : stack'[i] = stack[i]
  BY <1>1, ContinueShape DEF Continue
<1>3. \A i \in 1 .. Len(stack') : Pair(stack'[i]) = Pair(stack[i])
  BY <1>1, <1>2
<1> QED
  BY <1>1, <1>2, <1>3, StackLedStays

LEMMA ReturnLed ==
  ASSUME SearchTyped, at = "in", StackLed, call' = call, dirs' = dirs,
         NEW v \in {"zero", "error"}, Return(v), at' = "in"
  PROVE  StackLed'
<1>1. /\ stack \in Seq(Frames) /\ stack # <<>> /\ Len(stack) \in Nat /\ Len(stack) >= 1 /\ dirs \in Nat
  BY TopFacts, BelowFacts DEF SearchTyped
<1>2. Below # <<>> /\ v = "zero" /\ stack' = [Below EXCEPT ![Len(Below)].ret = v]
  BY DEF Return
<1>3. PICK k : k = Len(stack) - 1
  OBVIOUS
<1>4. /\ Len(stack') = k /\ k >= 1 /\ stack'[k] = [stack[k] EXCEPT !.ret = v]
      /\ \A i \in 1 .. k - 1 : stack'[i] = stack[i]
  BY <1>1, <1>2, <1>3, ReturnShape
<1>5. k \in 1 .. Len(stack) /\ stack[k] \in Frames
  BY <1>1, <1>3, <1>4, BelowFacts
<1>6. Pair(stack'[k]) = Pair(stack[k])
  BY <1>4, <1>5 DEF Pair, Frames
<1>7. \A i \in 1 .. Len(stack') : Pair(stack'[i]) = Pair(stack[i])
  BY <1>4, <1>5, <1>6
<1> QED
  BY <1>1, <1>3, <1>4, <1>7, StackLedStays

LEMMA DescendLed ==
  ASSUME SearchTyped, at = "in", StackLed, NEW e \in Top.unread, Descend(e), dirs < MaxDirs
  PROVE  StackLed'
<1>0. PICK n, d : n = Len(stack) /\ d = dirs
  OBVIOUS
<1> DEFINE g == Frame(KindOf(Top.dir, e), path_combine(Top.path, e))
<1>1. /\ stack \in Seq(Frames) /\ stack # <<>> /\ Top = stack[n] /\ Top \in Frames
      /\ n \in Nat /\ n >= 1 /\ MaxDirs \in Nat /\ d \in Nat /\ d < MaxDirs /\ n <= d
  BY <1>0, TopFacts, BelowFacts, CallFacts DEF SearchTyped, StackLed
<1>2. /\ call' = call /\ dirs' = d + 1
      /\ stack' = Below \o <<Read(e), g>> /\ IsDir(Top.dir, e) /\ e \notin Dots
  BY <1>0 DEF Descend
<1>3. /\ Top.dir \in DOMAIN call.tree /\ Top.path \in Seq(Chars) /\ e \in Seq(Chars)
      /\ e \in Entries(Top.dir) /\ call \in Calls
  BY TopFacts DEF SearchTyped
<1>4. /\ e \in DOMAIN call.tree[Top.dir] /\ KindOf(Top.dir, e) = call.tree[Top.dir][e]
      /\ KindOf(Top.dir, e) \in DOMAIN call.tree /\ e # <<>> /\ e[1] # Slash
  BY <1>2, <1>3, EntryFacts
<1>5. g \in Frames
  BY <1>3, <1>4, CombineTyped, FrameTyped
<1>6. Pair(g) = <<call.tree[Top.dir][e], path_combine(Top.path, e)>> /\ g.path = path_combine(Top.path, e)
  BY <1>4 DEF Pair, Frame
<1>7. Pair(Top) \in DirsUpTo[n - 1] /\ Led(Top.path)
  BY <1>0, <1>1 DEF StackLed
<1>8. Pair(g) \in Subdirs(Pair(Top))
  BY <1>2, <1>4, <1>6 DEF Subdirs, Pair
<1>9. Pair(g) \in DirsUpTo[n]
  <2>1. n \in 1 .. MaxDirs
    BY <1>1
  <2>2. DirsUpTo[n] = Deeper(DirsUpTo[n - 1])
    BY <1>3, <2>1, UpToIs
  <2> QED
    BY <1>7, <1>8, <2>2 DEF Deeper
<1>10. Led(g.path)
  BY <1>3, <1>4, <1>6, <1>7, CombineLed DEF Led
<1>11. Read(e) \in Frames /\ Pair(Read(e)) = Pair(Top)
  BY ReadTyped DEF Pair
<1> HIDE DEF g
<1>12. /\ Len(stack') = n + 1 /\ stack'[n] = Read(e) /\ stack'[n + 1] = g
       /\ \A i \in 1 .. n - 1 : stack'[i] = stack[i]
  BY <1>0, <1>1, <1>2, <1>5, <1>11, DescendShape
<1>13. \A i \in 1 .. n : Pair(stack'[i]) = Pair(stack[i])
  BY <1>1, <1>11, <1>12
<1>14. ASSUME NEW i \in 1 .. n + 1
       PROVE  (Pair(stack[i]) \in DirsUpTo[i - 1] /\ Led(stack[i].path))'
  <2>1. PICK path : path = stack'[i].path
    OBVIOUS
  <2>2. Pair(stack'[i]) \in DirsUpTo[i - 1] /\ Led(path)
    <3>1. CASE i = n + 1
      <4>1. i - 1 = n
        BY <1>1, <3>1
      <4> QED
        BY <1>9, <1>10, <1>12, <2>1, <3>1, <4>1
    <3>2. CASE i # n + 1
      <4>1. i \in 1 .. n
        BY <1>1, <3>2
      <4>2. Pair(stack[i]) \in DirsUpTo[i - 1] /\ Led(stack[i].path)
        BY <1>0, <4>1 DEF StackLed
      <4>3. stack'[i].path = stack[i].path
        BY <1>13, <4>1 DEF Pair
      <4> QED
        BY <1>13, <2>1, <4>1, <4>2, <4>3
    <3> QED
      BY <3>1, <3>2
  <2>3. Led(path)' /\ Pair(stack'[i]) \in DirsUpTo'[i - 1]
    BY <1>2, <2>2, PathsStay
  <2> QED
    BY <2>1, <2>3
<1>15. Len(stack') <= dirs' /\ 1 .. Len(stack') = 1 .. n + 1
  BY <1>1, <1>2, <1>12
<1> QED
  BY <1>14, <1>15 DEF StackLed

LEMMA AddLeads ==
  ASSUME GivenWell, SearchTyped, MadeForDir, at = "in", prefix = call.real, StackLed, ElementsLead,
         NEW e \in Top.unread, AddMedia(e)
  PROVE  ElementsLead'
<1>0. PICK n, name : n = Len(stack) /\ name = path_combine(Top.path, e)
  OBVIOUS
<1>1. /\ Top = stack[n] /\ n \in Nat /\ n >= 1 /\ n <= MaxDirs /\ MaxDirs \in Nat /\ call \in Calls
      /\ Top.dir \in DOMAIN call.tree /\ Top.path \in Seq(Chars) /\ e \in Seq(Chars)
      /\ e \in Entries(Top.dir)
  BY <1>0, TopFacts, BelowFacts, CallFacts DEF SearchTyped, StackLed
<1>2. call' = call /\ prefix' = prefix /\ KindOf(Top.dir, e) = "file"
  BY DEF AddMedia
<1>3. e \in DOMAIN call.tree[Top.dir] /\ call.tree[Top.dir][e] = "file" /\ e # <<>> /\ e[1] # Slash
  BY <1>1, <1>2, EntryFacts
<1>4. Pair(Top) \in DirsUpTo[n - 1] /\ Led(Top.path)
  BY <1>0, <1>1 DEF StackLed
<1>5. PICK t : LiesBelow(name, t)
  BY <1>0, <1>1, <1>3, <1>4, CombineLed
<1>6. path_combine(prefix, drop_prefix(name)) = RealPath(name) /\ ~ Overrun(name)
  BY <1>1, <1>5, DropLeads
<1>7. mlib_filter(name) /\ (global' = global \cup {drop_prefix(name)} \/ global' = global)
  BY <1>0, <1>6 DEF AddMedia, Dropped
<1>8. name \in MediaBelow
  <2>1. n - 1 \in 0 .. MaxDirs
    BY <1>1
  <2>2. Pair(Top) \in DirsUpTo[MaxDirs]
    BY <1>1, <1>4, <2>1, UpToGrows
  <2>3. name \in MediaIn(Pair(Top))
    BY <1>0, <1>3, <1>7 DEF MediaIn, Pair
  <2> QED
    BY <2>2, <2>3 DEF MediaBelow
<1>9. \A elem \in global' : path_combine(prefix, elem) \in {RealPath(m) : m \in MediaBelow}
  BY <1>6, <1>7, <1>8 DEF ElementsLead
<1> QED
  BY <1>2, <1>9, PathsStay DEF ElementsLead

LEMMA PathInit == Init => PathInv
BY TypedInit DEF Init, PathInv, ElementsLead

LEMMA PathStep ==
  ASSUME GivenWell, PathInv, MadeForDir, SearchStep
  PROVE  /\ at' = "in" => prefix' = call'.real /\ StackLed'
         /\ at' \in {"in", "done", "died"} /\ ElementsLead'
<1>1. /\ at = "in" /\ SearchTyped /\ prefix = call.real /\ StackLed /\ ElementsLead
      /\ call' = call /\ prefix' = prefix
  BY DEF PathInv, SearchStep, AddMedia, PassBy, StatFails, SkipFile, Descend, Rewind, EndOfDir, NoGlobal
<1>2. ASSUME NEW e \in Top.unread, Continue(Read(e)), dirs' = dirs
      PROVE  at' = "in" /\ StackLed'
  <2>1. PICK f : f = Read(e)
    OBVIOUS
  <2>2. f \in Frames /\ Pair(f) = Pair(Top)
    BY <1>1, <2>1, ReadTyped DEF Pair
  <2> QED
    BY <1>1, <1>2, <2>1, <2>2, ContinueLed DEF Continue
<1>3. ASSUME NEW v \in {"zero", "error"}, Return(v), dirs' = dirs
      PROVE  at' \in {"in", "done"} /\ (at' = "in" => StackLed')
  <2>1. at' \in {"in", "done"}
    BY <1>1, <1>3 DEF Return
  <2> QED
    BY <1>1, <1>3, <2>1, ReturnLed
<1>4. ASSUME NEW e \in Top.unread, AddMedia(e)
      PROVE  at' \in {"in", "died"} /\ ElementsLead' /\ (at' = "in" => StackLed')
  <2>1. (dirs' = dirs /\ Continue(Read(e))) \/ at' = "died"
    BY <1>4 DEF AddMedia
  <2>2. ElementsLead'
    BY <1>1, <1>4, AddLeads
  <2> QED
    BY <1>2, <2>1, <2>2
<1>5. ASSUME global' = global PROVE ElementsLead'
  BY <1>1, <1>5, ElementsStay
<1>6. ASSUME NEW e \in Top.unread, PassBy(e)
      PROVE  at' = "in" /\ ElementsLead' /\ StackLed'
  <2>1. dirs' = dirs /\ Continue(Read(e)) /\ global' = global
    BY <1>6 DEF PassBy
  <2> QED
    BY <1>2, <1>5, <2>1
<1>7. ASSUME NEW e \in Top.unread, StatFails(e) \/ SkipFile(e)
      PROVE  at' \in {"in", "done"} /\ ElementsLead' /\ (at' = "in" => StackLed')
  <2>1. dirs' = dirs /\ global' = global /\ (Continue(Read(e)) \/ Return("error"))
    BY <1>7 DEF StatFails, SkipFile
  <2> QED
    BY <1>2, <1>3, <1>5, <2>1
<1>8. ASSUME NEW e \in Top.unread, Descend(e)
      PROVE  at' \in {"in", "done"} /\ ElementsLead' /\ (at' = "in" => StackLed')
  <2>1. global' = global
    BY <1>8 DEF Descend
  <2>2. CASE dirs < MaxDirs
    <3>1. at' = at
      BY <1>8, <2>2 DEF Descend
    <3> QED
      BY <1>1, <1>5, <1>8, <2>1, <2>2, <3>1, DescendLed
  <2>3. CASE ~ (dirs < MaxDirs)
    <3>1. Return("error") /\ dirs' = dirs
      BY <1>8, <2>3 DEF Descend
    <3> QED
      BY <1>3, <1>5, <2>1, <3>1
  <2> QED
    BY <2>2, <2>3
<1>9. CASE Rewind
  <2>1. PICK f : f = [Top EXCEPT !.pass = 2, !.unread = Entries(Top.dir)]
    OBVIOUS
  <2>2. f \in Frames /\ Pair(f) = Pair(Top)
    BY <1>1, <2>1, TopFacts, EntryFacts DEF Frames, Pair, SearchTyped
  <2>3. Continue(f) /\ dirs' = dirs /\ global' = global
    BY <1>9, <2>1 DEF Rewind
  <2>4. at' = at
    BY <2>3 DEF Continue
  <2> QED
    BY <1>1, <1>5, <2>2, <2>3, <2>4, ContinueLed
<1>10. CASE EndOfDir
  <2>1. Return("zero") /\ dirs' = dirs /\ global' = global
    BY <1>10 DEF EndOfDir
  <2> QED
    BY <1>1, <1>3, <1>5, <2>1
<1>11. CASE NoGlobal
  BY <1>5, <1>11 DEF NoGlobal
<1> QED
  BY <1>1, <1>4, <1>6, <1>7, <1>8, <1>9, <1>10, <1>11 DEF SearchStep

LEMMA PathNext == GivenWell /\ PathInv /\ [Next]_vars => PathInv'
<1> SUFFICES ASSUME GivenWell, PathInv, [Next]_vars PROVE PathInv'
  OBVIOUS
<1>1. SearchTyped /\ SearchTyped'
  BY TypedNext DEF PathInv
<1>2. call' = call
  BY DEF Next, vars, ParseArgs, OpenLibrary, Search, SearchStep, AddMedia, PassBy, StatFails,
         SkipFile, Descend, Rewind, EndOfDir, NoGlobal
<1>3. MadeForDir' = MadeForDir
  BY <1>2, PathsStay
<1> SUFFICES ASSUME MadeForDir
             PROVE  /\ at' \in {"start", "open"} => global' = {}
                    /\ at' \in {"search", "in"} => prefix' = call'.real
                    /\ at' = "in" => StackLed'
                    /\ ElementsLead'
  BY <1>1, <1>3 DEF PathInv
<1>4. /\ at \in {"start", "open"} => global = {}
      /\ at \in {"search", "in"} => prefix = call.real
      /\ at = "in" => StackLed
      /\ ElementsLead
  BY DEF PathInv
<1>5. CASE ParseArgs
  <2>1. global' = {} /\ at' \in {"open", "killed"}
    BY <1>4, <1>5 DEF ParseArgs
  <2> QED
    BY <2>1 DEF ElementsLead
<1>6. CASE OpenLibrary
  <2>0. call.found \in {"absent", "junk", "library", "bare"}
    BY <1>1, CallsAssumption DEF SearchTyped
  <2>1. global' = {} /\ at' \in {"search", "died"} /\ (at' = "search" => prefix' = call.real)
    BY <1>4, <1>6, <2>0 DEF OpenLibrary, MadeForDir, MadeAnew
  <2>2. ElementsLead'
    BY <2>1 DEF ElementsLead
  <2> QED
    BY <1>2, <2>1, <2>2
<1>7. CASE Search
  <2>1. global' = global /\ prefix' = prefix /\ prefix = call.real /\ call \in Calls
    BY <1>1, <1>4, <1>7 DEF Search, SearchTyped
  <2>2. ElementsLead'
    BY <1>2, <1>4, <2>1, ElementsStay
  <2>3. CASE dirs < MaxDirs
    <3>1. stack' = <<Frame(call.top, call.dir)>> /\ dirs' = dirs + 1 /\ at' = "in" /\ dirs \in Nat
      BY <1>1, <1>7, <2>3 DEF Search, SearchTyped
    <3>2. PICK f : f = Frame(call.top, call.dir)
      OBVIOUS
    <3>3. Pair(f) = Start /\ f.path = call.dir
      BY <3>2 DEF Frame, Pair, Start
    <3>4. Len(stack') = 1 /\ stack'[1] = f /\ 1 .. Len(stack') = {1}
      BY <3>1, <3>2
    <3>5. Pair(f) \in DirsUpTo'[1 - 1]
      BY <1>2, <2>1, <3>3, PathsStay, UpToIs
    <3>6. PICK path : path = f.path
      OBVIOUS
    <3>7. Led(path)'
      <4>1. Led(path)
        BY <3>3, <3>6 DEF Led
      <4> QED
        BY <1>2, <4>1, PathsStay
    <3>8. (Pair(stack[1]) \in DirsUpTo[1 - 1] /\ Led(stack[1].path))'
      BY <3>4, <3>5, <3>6, <3>7
    <3>9. StackLed'
      BY <3>1, <3>4, <3>8 DEF StackLed
    <3> QED
      BY <1>2, <2>1, <2>2, <3>1, <3>9
  <2>4. CASE ~ (dirs < MaxDirs)
    <3>1. at' = "done"
      BY <1>7, <2>4 DEF Search
    <3> QED
      BY <2>2, <3>1
  <2> QED
    BY <2>3, <2>4
<1>8. CASE SearchStep
  BY <1>8, PathStep
<1>9. CASE UNCHANGED vars
  <2>1. at' = at /\ global' = global /\ prefix' = prefix /\ stack' = stack /\ dirs' = dirs
    BY <1>9 DEF vars
  <2>2. ElementsLead'
    BY <1>2, <1>4, <2>1, ElementsStay
  <2>3. at = "in" => StackLed'
    <3> SUFFICES ASSUME at = "in" PROVE StackLed'
      OBVIOUS
    <3>1. Len(stack) \in Nat /\ dirs \in Nat
      BY <1>1, TopFacts, BelowFacts, CallFacts DEF SearchTyped
    <3> QED
      BY <1>2, <1>4, <2>1, <3>1, StackLedStays
  <2> QED
    BY <1>2, <1>4, <2>1, <2>2, <2>3
<1> QED
  BY <1>5, <1>6, <1>7, <1>8, <1>9 DEF Next

(* Every element of a library made for the directory leads to a media file *)
(* below it: for every tree, in whatever order it is read, also while the  *)
(* search goes on and after it has failed.                                 *)
THEOREM PathsLeadAlways ==
  ASSUME GivenWell
  PROVE  Spec => []PathsLead
<1>1. PathInv => PathsLead
  BY DEF PathInv, PathsLead, MadeForDir, ElementsLead
<1>2. PathInv /\ [Next]_vars => PathInv'
  BY PathNext
<1> QED
  BY PathInit, <1>1, <1>2, PTL DEF Spec
-----------------------------------------------------------------------------
(* What brings the search to its end: each step takes the program on, or   *)
(* opens one of the directories it may open, or else leaves a directory,   *)
(* begins a directory's second pass, or reads an entry.  In that order the *)
(* steps are those of a measure that gets smaller, where directories are   *)
(* finite.                                                                 *)

Follows ==
  {<<"start", "open">>, <<"start", "killed">>, <<"open", "search">>, <<"open", "died">>,
   <<"search", "in">>, <<"search", "done">>, <<"in", "done">>, <<"in", "died">>}
ReadsOn ==
  /\ Len(stack') = Len(stack)
  /\ \/ Top'.pass > Top.pass
     \/ /\ Top'.pass = Top.pass
        /\ Top'.unread \subseteq Top.unread /\ Top'.unread # Top.unread
Closer ==
  \/ <<at, at'>> \in Follows
  \/ at' = at /\ dirs' > dirs /\ dirs' <= MaxDirs
  \/ at' = at /\ dirs' = dirs /\ (Len(stack') < Len(stack) \/ ReadsOn)

LEMMA AlwaysTyped == Spec => []SearchTyped
BY TypedInit, TypedNext, PTL DEF Spec

LEMMA ContinueReads ==
  ASSUME SearchTyped, at = "in", NEW f \in Frames, Continue(f),
         \/ f.pass > Top.pass
         \/ f.pass = Top.pass /\ f.unread \subseteq Top.unread /\ f.unread # Top.unread
  PROVE  at' = at /\ ReadsOn
<1>1. /\ stack' = Append(Below, f) /\ at' = at
      /\ stack \in Seq(Frames) /\ stack # <<>>
  BY TopFacts DEF Continue
<1>2. Len(stack') = Len(stack) /\ stack'[Len(stack)] = f
  BY <1>1, ContinueShape
<1>3. Top' = f
  BY <1>2 DEF Top
<1> QED
  BY <1>1, <1>2, <1>3 DEF ReadsOn

LEMMA ReturnLeaves ==
  ASSUME SearchTyped, at = "in", NEW v \in {"zero", "error"}, Return(v)
  PROVE  <<at, at'>> \in Follows \/ (at' = at /\ Len(stack') < Len(stack))
<1>1. CASE Below = <<>> \/ v = "error"
  BY <1>1 DEF Return, Follows
<1>2. CASE ~ (Below = <<>> \/ v = "error")
  <2>1. stack' = [Below EXCEPT ![Len(Below)].ret = v] /\ at' = at /\ v = "zero"
    BY <1>2 DEF Return
  <2>2. Len(stack') = Len(stack) - 1 /\ Len(stack) \in Nat
    BY <1>2, <2>1, TopFacts, BelowFacts, ReturnShape
  <2> QED
    BY <2>1, <2>2
<1> QED
  BY <1>1, <1>2

LEMMA ReadReads ==
  ASSUME SearchTyped, at = "in", NEW e \in Top.unread, Continue(Read(e))
  PROVE  at' = at /\ ReadsOn
<1>1. /\ Read(e) \in Frames /\ Read(e).pass = Top.pass
      /\ Read(e).unread = Top.unread \ {e}
  BY ReadTyped
<1>2. Read(e).unread \subseteq Top.unread /\ Read(e).unread # Top.unread
  BY <1>1
<1> QED
  BY <1>1, <1>2, ContinueReads

LEMMA StepCloser ==
  ASSUME SearchTyped, SearchStep
  PROVE  Closer
<1>1. at = "in" /\ dirs \in Nat /\ MaxDirs \in Nat
  BY CallFacts DEF SearchStep, SearchTyped
<1>2. ASSUME NEW e \in Top.unread, AddMedia(e) PROVE Closer
  <2>1. CASE Continue(Read(e))
    BY <1>1, <1>2, <2>1, ReadReads DEF AddMedia, Closer
  <2>2. CASE at' = "died"
    BY <1>1, <2>2 DEF Closer, Follows
  <2> QED
    BY <1>2, <2>1, <2>2 DEF AddMedia
<1>3. ASSUME NEW e \in Top.unread, PassBy(e) PROVE Closer
  BY <1>1, <1>3, ReadReads DEF PassBy, Closer
<1>4. ASSUME NEW e \in Top.unread, StatFails(e) PROVE Closer
  BY <1>1, <1>4, ReturnLeaves DEF StatFails, Closer
<1>5. ASSUME NEW e \in Top.unread, SkipFile(e) PROVE Closer
  <2>1. dirs' = dirs /\ (Continue(Read(e)) \/ Return("error"))
    BY <1>5 DEF SkipFile
  <2> QED
    BY <1>1, <2>1, ReadReads, ReturnLeaves DEF Closer
<1>6. ASSUME NEW e \in Top.unread, Descend(e) PROVE Closer
  <2>1. CASE dirs < MaxDirs
    BY <1>1, <1>6, <2>1 DEF Descend, Closer
  <2>2. CASE ~ (dirs < MaxDirs)
    BY <1>1, <1>6, <2>2, ReturnLeaves DEF Descend, Closer
  <2> QED
    BY <2>1, <2>2
<1>7. CASE Rewind
  <2> DEFINE f == [Top EXCEPT !.pass = 2, !.unread = Entries(Top.dir)]
  <2>1. f \in Frames /\ f.pass = 2 /\ Top.pass = 1
    BY <1>1, <1>7, TopFacts, EntryFacts DEF Frames, Rewind, SearchTyped
  <2>2. Continue(f) /\ dirs' = dirs
    BY <1>7 DEF Rewind
  <2>3. f.pass > Top.pass
    BY <2>1
  <2> HIDE DEF f
  <2> QED
    BY <1>1, <2>1, <2>2, <2>3, ContinueReads DEF Closer
<1>8. CASE EndOfDir
  BY <1>1, <1>8, ReturnLeaves DEF EndOfDir, Closer
<1>9. CASE NoGlobal
  BY <1>1, <1>9 DEF NoGlobal, Closer, Follows
<1> QED
  BY <1>2, <1>3, <1>4, <1>5, <1>6, <1>7, <1>8, <1>9 DEF SearchStep

(* No step of the program but brings it closer to its end, also where a    *)
(* directory leads back to one above it.                                   *)
THEOREM AlwaysCloser == Spec => [][Closer]_vars
<1>1. ASSUME SearchTyped, [Next]_vars PROVE [Closer]_vars
  <2>1. CASE ParseArgs \/ OpenLibrary \/ Search
    BY <2>1 DEF ParseArgs, OpenLibrary, Search, Closer, Follows
  <2>2. CASE SearchStep
    BY <1>1, <2>2, StepCloser
  <2> QED
    BY <1>1, <2>1, <2>2 DEF Next
<1> QED
  BY <1>1, AlwaysTyped, PTL DEF Spec
=============================================================================

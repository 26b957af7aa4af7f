---------------------------- MODULE MplayerProofs ---------------------------
(***************************************************************************)
(* Theorems about MplayerEngine, for any descriptors, threads and          *)
(* libraries.  That it does what Engine says comes first: what is proved   *)
(* of engine.c by itself, one thread at a time above all, then holds with  *)
(* mplayer in it, and the pipe and the player belong to that thread.       *)
(***************************************************************************)
EXTENDS MplayerEngine, FiniteSetTheorems, TLAPS

E == INSTANCE EngineProofs WITH thr <- OuterThr

(* Threads are at places of engine.c or inside mplayer's function, which   *)
(* is entered only with an engine that plays video.                        *)
ThreadPlaces == thr \in [Threads -> Places \cup Inner]
EngineThere ==
  \A t \in Threads :
    /\ thr[t] \in {"uri", "video"} => current # NoEngine
    /\ Inside(t) => current # NoEngine /\ Able("video")
TInv == ThreadPlaces /\ EngineThere

LEMMA TInit == MInit => TInv /\ E!Init
BY DEF MInit, Init, TInv, ThreadPlaces, EngineThere, Inside, Inner, Places, E!Init, OuterThr

(* What one thread's going somewhere is, seen from here and from engine.c. *)
LEMMA GoesHere ==
  ASSUME TInv, NEW t \in Threads, NEW from, NEW to \in Places \cup Inner,
         Goes(t, from, to)
  PROVE  /\ thr[t] = from /\ thr'[t] = to /\ ThreadPlaces'
         /\ \A u \in Threads : u # t => thr'[u] = thr[u]
BY DEF Goes, TInv, ThreadPlaces

LEMMA GoesOuter ==
  ASSUME TInv, NEW t \in Threads, NEW from, NEW to \in Places \cup Inner,
         Goes(t, from, to)
  PROVE  E!Goes(t, IF from \in Inner THEN "video" ELSE from,
                   IF to \in Inner THEN "video" ELSE to)
<1>1. thr \in [Threads -> Places \cup Inner]  BY DEF TInv, ThreadPlaces
<1>2. QED  BY <1>1 DEF Goes, E!Goes, OuterThr, Inside

(* An engine that is there stays, and no thread gets past "start" without. *)
LEMMA EngineStays ==
  ASSUME TInv, NEW t \in Threads, NEW from, NEW to \in Places \cup Inner,
         Goes(t, from, to), current' = current,
         to \in {"uri", "video"} => current # NoEngine,
         to \in Inner => current # NoEngine /\ Able("video")
  PROVE  TInv'
<1>1. /\ thr'[t] = to /\ ThreadPlaces' /\ \A u \in Threads : u # t => thr'[u] = thr[u]
  BY GoesHere
<1>2. EngineThere'
  BY <1>1 DEF TInv, EngineThere, Inside, Able
<1>3. QED  BY <1>1, <1>2 DEF TInv

-----------------------------------------------------------------------------
LEMMA ShellOuter ==
  ASSUME TInv, MShellStep
  PROVE  TInv' /\ (E!ShellStep \/ UNCHANGED E!vars)
<1>1. ~ dead  BY DEF MShellStep
<1>2. UNCHANGED thr => OuterThr' = OuterThr
  BY DEF OuterThr, Inside
<1>3. ASSUME UNCHANGED <<thr, current>>
      PROVE  TInv'
  BY <1>3 DEF TInv, ThreadPlaces, EngineThere, Inside, Able
<1>4. ASSUME NEW e \in Engines, Register(e)
      PROVE  TInv' /\ E!ShellStep
  <2>1. E!Register(e)
    BY <1>2, <1>4 DEF Register, Backed, E!Register, E!Backed
  <2>2. TInv'
    BY <1>4 DEF Register, TInv, ThreadPlaces, EngineThere, Inside
  <2>3. QED  BY <1>1, <2>1, <2>2 DEF E!ShellStep
<1>5. ASSUME NEW w \in Words, PlayList(w) \/ PlayMedia(w)
      PROVE  TInv' /\ E!ShellStep
  <2>1. E!PlayList(w) \/ E!PlayMedia(w)
    BY <1>2, <1>5 DEF PlayList, PlayMedia, Claimable, E!PlayList, E!PlayMedia, E!Claimable
  <2>2. w \in E!Words  BY DEF E!Words, Words
  <2>3. TInv'  BY <1>3, <1>5 DEF PlayList, PlayMedia
  <2>4. QED  BY <1>1, <2>1, <2>2, <2>3 DEF E!ShellStep
<1>6. CASE Spawn
  <2>1. CASE \E t \in Threads :
               /\ thr[t] = "idle"
               /\ thr' = [thr EXCEPT ![t] = IF shell = "spawn_media" THEN "start" ELSE "name"]
    <3>1. PICK t \in Threads, to \in {"start", "name"} :
            Goes(t, "idle", to) /\ to = IF shell = "spawn_media" THEN "start" ELSE "name"
      BY <2>1 DEF Goes
    <3>2. to \in Places  BY DEF Places, MediaPlaces, ListPlaces
    <3>7. "idle" \notin Inner /\ to \notin Inner  BY DEF Inner
    <3>3. E!Goes(t, "idle", to)  BY <3>1, <3>2, <3>7, GoesOuter
    <3>4. E!Spawn  BY <1>6, <3>1, <3>3 DEF Spawn, E!Spawn, E!Goes
    <3>5. TInv'  BY <1>6, <3>1, <3>2, <3>7, EngineStays DEF Spawn
    <3>6. QED  BY <1>1, <3>4, <3>5 DEF E!ShellStep
  <2>2. CASE (\A t \in Threads : thr[t] # "idle") /\ UNCHANGED thr
    <3>1. \A t \in Threads : OuterThr[t] # "idle"  BY <2>2 DEF OuterThr, Inside
    <3>2. E!Spawn  BY <1>2, <1>6, <2>2, <3>1 DEF Spawn, E!Spawn
    <3>3. TInv'  BY <1>3, <1>6, <2>2 DEF Spawn
    <3>4. QED  BY <1>1, <3>2, <3>3 DEF E!ShellStep
  <2>3. QED  BY <1>6, <2>1, <2>2 DEF Spawn
<1>7. ASSUME NEW c \in {"toggle", "stop"}, LookAtInUse(c)
      PROVE  TInv' /\ E!ShellStep
  <2>1. E!LookAtInUse(c)  BY <1>2, <1>7 DEF LookAtInUse, E!LookAtInUse
  <2>2. TInv'  BY <1>3, <1>7 DEF LookAtInUse
  <2>3. QED  BY <1>1, <2>1, <2>2 DEF E!ShellStep
<1>8. CASE StartGrowing \/ EndGrowing \/ \E n \in Playlists : Remove(n)
  <2>1. E!StartGrowing \/ E!EndGrowing \/ \E n \in Playlists : E!Remove(n)
    BY <1>2, <1>8 DEF StartGrowing, EndGrowing, Remove, Aged,
                      E!StartGrowing, E!EndGrowing, E!Remove, E!Aged
  <2>2. TInv'  BY <1>3, <1>8 DEF StartGrowing, EndGrowing, Remove
  <2>3. QED  BY <1>1, <2>1, <2>2 DEF E!ShellStep
<1>9. CASE WriteControl
  <2>1. E!CallControl  BY <1>2, <1>9 DEF WriteControl, Written, CallControl, E!CallControl
  <2>2. TInv'  BY <1>3, <1>9 DEF WriteControl, Written, CallControl
  <2>3. QED  BY <1>1, <2>1, <2>2 DEF E!ShellStep
<1>10. CASE OpenFd \/ CloseFd
  <2>1. E!OpenLibrary \/ E!CloseLibrary
    BY <1>2, <1>10 DEF OpenFd, CloseFd, OpenLibrary, CloseLibrary, Aged,
                       E!OpenLibrary, E!CloseLibrary, E!Aged
  <2>2. TInv'  BY <1>3, <1>10 DEF OpenFd, CloseFd, OpenLibrary, CloseLibrary
  <2>3. QED  BY <1>1, <2>1, <2>2 DEF E!ShellStep
<1>11. CASE OpenOther \/ \E f \in Fds : CloseOther(f)
  <2>1. UNCHANGED vars  BY <1>11 DEF OpenOther, CloseOther
  <2>2. UNCHANGED E!vars  BY <1>2, <2>1 DEF vars, E!vars
  <2>3. QED  BY <1>3, <2>1, <2>2 DEF vars
<1>12. QED
  BY <1>4, <1>5, <1>6, <1>7, <1>8, <1>9, <1>10, <1>11 DEF MShellStep

(* A thread's step in engine.c is that step; one in mplayer's function is  *)
(* none, or its end.                                                       *)
LEMMA AroundOuter ==
  ASSUME TInv, NEW t \in Threads, ~ dead, Around(t)
  PROVE  TInv' /\ E!ThreadStep(t)
<1> DEFINE Before == {"start", "uri", "name", "sleep", "audio", "lock", "list_lock",
                      "clear", "list_clear", "free", "unlock"}
           After == {"uri", "video", "sleep", "list_lock", "lock", "clear", "list_clear",
                     "free", "unlock", "done"}
<1>1. After \subseteq Places /\ Before \cap Inner = {} /\ After \cap Inner = {}
  BY DEF Places, MediaPlaces, ListPlaces, Inner
<1>2. ASSUME NEW from \in Before, NEW to \in After, Goes(t, from, to)
      PROVE  E!Goes(t, from, to)
  BY <1>1, <1>2, GoesOuter
<1>3. UNCHANGED thr => OuterThr' = OuterThr /\ (current' = current => TInv')
  BY DEF OuterThr, Inside, TInv, ThreadPlaces, EngineThere, Able
<1>4. thr[t] \in Before => OuterThr[t] = thr[t]
  BY DEF OuterThr, Inside, Inner
<1>5. ASSUME NEW from \in Before, NEW to \in After, Goes(t, from, to), current' = current,
             to \in {"uri", "video"} => current # NoEngine
      PROVE  TInv'
  BY <1>1, <1>5, EngineStays
<1>6. CASE Start(t)
  <2>1. PICK to \in {"lock", "uri"} :
          Goes(t, "start", to) /\ to = (IF current = NoEngine THEN "lock" ELSE "uri")
    BY <1>6 DEF Start
  <2>2. E!Start(t)  BY <1>2, <1>6, <2>1 DEF Start, E!Start
  <2>3. TInv'  BY <1>5, <1>6, <2>1 DEF Start
  <2>4. QED  BY <2>2, <2>3 DEF E!ThreadStep, E!Around
<1>7. CASE BuildUri(t)
  <2>1. CASE Goes(t, "uri", "video") /\ UNCHANGED dead
    <3>1. E!BuildUri(t)
      BY <1>2, <1>7, <2>1 DEF BuildUri, Passes, E!BuildUri, E!Passes
    <3>2. current # NoEngine  BY <2>1 DEF Goes, TInv, EngineThere
    <3>3. TInv'  BY <1>5, <1>7, <2>1, <3>2 DEF BuildUri, Passes
    <3>4. QED  BY <3>1, <3>3 DEF E!ThreadStep, E!Around
  <2>2. CASE thr[t] = "uri" /\ dead' = TRUE /\ UNCHANGED thr
    <3>1. E!BuildUri(t)
      BY <1>3, <1>4, <1>7, <2>2 DEF BuildUri, Passes, E!BuildUri, E!Passes
    <3>2. TInv'  BY <1>3, <1>7, <2>2 DEF BuildUri, Passes
    <3>3. QED  BY <3>1, <3>2 DEF E!ThreadStep, E!Around
  <2>3. QED  BY <1>7, <2>1, <2>2 DEF BuildUri, Passes
<1>8. CASE NamePlaylist(t)
  <2>1. CASE Goes(t, "name", "sleep") /\ UNCHANGED dead
    <3>1. E!NamePlaylist(t)
      BY <1>2, <1>8, <2>1 DEF NamePlaylist, Passes, E!NamePlaylist, E!Passes
    <3>2. TInv'  BY <1>5, <1>8, <2>1 DEF NamePlaylist, Passes
    <3>3. QED  BY <3>1, <3>2 DEF E!ThreadStep, E!Around
  <2>2. CASE thr[t] = "name" /\ dead' = TRUE /\ UNCHANGED thr /\ Unsafe(playing.plist)
    <3>1. E!NamePlaylist(t)
      BY <1>3, <1>4, <1>8, <2>2 DEF NamePlaylist, Passes, Unsafe, E!NamePlaylist, E!Passes, E!Unsafe
    <3>2. TInv'  BY <1>3, <1>8, <2>2 DEF NamePlaylist, Passes
    <3>3. QED  BY <3>1, <3>2 DEF E!ThreadStep, E!Around
  <2>3. QED  BY <1>8, <2>1, <2>2 DEF NamePlaylist, Passes
<1>9. CASE Sleep(t) \/ PlayAudio(t) \/ FreeElem(t) \/ Unlock(t)
  <2>1. PICK from \in Before, to \in After :
          Goes(t, from, to) /\ current' = current /\ to \notin {"uri", "video"}
    BY <1>9 DEF Sleep, PlayAudio, FreeElem, Unlock
  <2>2. TInv'  BY <1>5, <2>1
  <2>3. E!Sleep(t) \/ E!PlayAudio(t) \/ E!FreeElem(t) \/ E!Unlock(t)
    BY <1>2, <1>9 DEF Sleep, PlayAudio, FreeElem, Unlock,
                      E!Sleep, E!PlayAudio, E!FreeElem, E!Unlock
  <2>4. QED  BY <2>2, <2>3 DEF E!ThreadStep, E!Around
<1>10. CASE Lock(t) \/ Clear(t)
  <2>1. PICK from \in Before, to \in After :
          Goes(t, from, to) /\ current' = current /\ to \notin {"uri", "video"}
    BY <1>10 DEF Lock, Clear
  <2>2. TInv'  BY <1>5, <2>1
  <2>3. E!Lock(t) \/ E!Clear(t)
    BY <1>2, <1>10 DEF Lock, Clear, E!Lock, E!Clear
  <2>4. QED  BY <2>2, <2>3 DEF E!ThreadStep, E!Around
<1>11. QED  BY <1>6, <1>7, <1>8, <1>9, <1>10 DEF Around

LEMMA InsideOuter ==
  ASSUME TInv, NEW t \in Threads, ~ dead,
         \/ Pipe(t) \/ NoPipe(t) \/ Fork(t) \/ NoFork(t) \/ CloseRead(t) \/ Assign(t)
         \/ Reap(t) \/ ClosePipe(t)
  PROVE  TInv' /\ (E!ThreadStep(t) \/ UNCHANGED E!vars)
<1>1. UNCHANGED <<current, playing, lock, shell, library, dead>>
  BY DEF Pipe, NoPipe, Fork, NoFork, CloseRead, Assign, Reap, ClosePipe, Within
<1>2. /\ {"video", "audio", "lock"} \cup Inner \subseteq Places \cup Inner
      /\ "video" \notin Inner /\ "audio" \notin Inner /\ "lock" \notin Inner
      /\ {"fork", "shut", "assign", "wait", "close"} \subseteq Inner
  BY DEF Places, MediaPlaces, Inner
<1>3. CASE NoPipe(t) \/ NoFork(t) \/ (Reap(t) /\ Goes(t, "wait", "audio"))
  <2>1. PICK from \in {"video", "fork", "wait"} : Goes(t, from, "audio")
    BY <1>3 DEF NoPipe, NoFork, Within
  <2>2. E!Goes(t, "video", "audio")  BY <1>2, <2>1, GoesOuter
  <2>3. E!PlayVideo(t)  BY <1>1, <2>2 DEF E!PlayVideo
  <2>4. TInv'  BY <1>1, <1>2, <2>1, EngineStays
  <2>5. QED  BY <2>3, <2>4 DEF E!ThreadStep
<1>4. CASE ClosePipe(t)
  <2>1. Goes(t, "close", "lock")  BY <1>4 DEF ClosePipe, Within
  <2>2. E!Goes(t, "video", "lock")  BY <1>2, <2>1, GoesOuter
  <2>3. E!Able("video")
    BY <1>2, <2>1 DEF Goes, TInv, EngineThere, Inside, Able, E!Able
  <2>4. E!PlayVideo(t)  BY <1>1, <2>2, <2>3 DEF E!PlayVideo
  <2>5. TInv'  BY <1>1, <1>2, <2>1, EngineStays
  <2>6. QED  BY <2>4, <2>5 DEF E!ThreadStep
<1>5. CASE Pipe(t) \/ Fork(t) \/ CloseRead(t) \/ Assign(t) \/ (Reap(t) /\ Goes(t, "wait", "close"))
  <2>1. PICK from \in {"video"} \cup Inner, to \in Inner :
          Goes(t, from, to) /\ (from = "video" => Able("video"))
    BY <1>2, <1>5 DEF Pipe, Fork, CloseRead, Assign, Within
  <2>2. current # NoEngine /\ Able("video")
    BY <2>1 DEF Goes, TInv, EngineThere, Inside
  <2>3. TInv'  BY <1>1, <1>2, <2>1, <2>2, EngineStays
  <2>4. E!Goes(t, "video", "video")  BY <1>2, <2>1, GoesOuter
  <2>5. OuterThr' = OuterThr  BY <2>4 DEF E!Goes, OuterThr
  <2>6. QED  BY <1>1, <2>3, <2>5 DEF E!vars
<1>6. QED  BY <1>3, <1>4, <1>5 DEF Reap, Within

LEMMA OuterStep == TInv /\ [MNext]_mvars => TInv' /\ [E!Next]_E!vars
<1> SUFFICES ASSUME TInv, [MNext]_mvars PROVE TInv' /\ [E!Next]_E!vars
  OBVIOUS
<1>1. CASE MShellStep
  BY <1>1, ShellOuter DEF E!Next
<1>2. CASE ChildStep \/ UNCHANGED mvars
  <2>1. UNCHANGED vars  BY <1>2 DEF ChildStep, mvars, vars
  <2>2. OuterThr' = OuterThr  BY <2>1 DEF vars, OuterThr, Inside
  <2>3. QED  BY <2>1, <2>2 DEF vars, E!vars, TInv, ThreadPlaces, EngineThere, Inside, Able
<1>3. ASSUME NEW t \in Threads, MThreadStep(t)
      PROVE  TInv' /\ [E!Next]_E!vars
  BY <1>3, AroundOuter, InsideOuter DEF MThreadStep, E!Next
<1>4. QED  BY <1>1, <1>2, <1>3 DEF MNext

(* engine.c with mplayer's functions in it does what Engine says, for any  *)
(* threads, engines and descriptors; TLC checks the fair version.          *)
THEOREM MplayerImplementsEngine == MSpec => E!Spec
BY TInit, OuterStep, PTL DEF MSpec, E!Spec

LibraryTyped == library \in [st : {"open", "closed", "unmapped"}, lists : SUBSET Playlists]

(* A library that is growing is unmapped until it has grown. *)
GrowingUnmapped == shell = "growing" => library.st = "unmapped"
LEMMA GrowingStep == LibraryTyped /\ GrowingUnmapped /\ [MNext]_mvars => GrowingUnmapped'
<1> SUFFICES ASSUME LibraryTyped, GrowingUnmapped, [MNext]_mvars PROVE GrowingUnmapped'
  OBVIOUS
<1>1. CASE UNCHANGED <<shell, library>>
  BY <1>1 DEF GrowingUnmapped
<1>2. CASE MShellStep
  <2>1. shell' = "growing" => StartGrowing \/ UNCHANGED <<shell, library>>
    BY <1>2 DEF MShellStep, Register, PlayList, PlayMedia, Spawn, LookAtInUse, StartGrowing,
                EndGrowing, Remove, WriteControl, Written, CallControl, OpenFd, CloseFd, OpenLibrary,
                CloseLibrary, OpenOther, CloseOther, vars
  <2>2. StartGrowing => library'.st = "unmapped"
    BY DEF StartGrowing, LibraryTyped
  <2>3. QED  BY <1>1, <2>1, <2>2 DEF GrowingUnmapped
<1>3. ASSUME NEW t \in Threads, MThreadStep(t)
      PROVE  UNCHANGED <<shell, library>>
  BY <1>3 DEF MThreadStep, Around, Start, BuildUri, NamePlaylist, Sleep, PlayAudio, Lock, Clear,
              FreeElem, Unlock, Passes, Pipe, NoPipe, Fork, NoFork, CloseRead, Assign, Reap, ClosePipe, Within
<1>4. ChildStep \/ UNCHANGED mvars => UNCHANGED <<shell, library>>
  BY DEF ChildStep, mvars, vars
<1>5. QED  BY <1>1, <1>2, <1>3, <1>4 DEF MNext

(* So what is proved of engine.c alone holds here: one thread at a time,   *)
(* inside mplayer's function or not.                                       *)
LEMMA OneHere == MSpec => [](TInv /\ OneThread /\ LibraryTyped /\ GrowingUnmapped)
<1>1. E!EngineAssumption
  BY EngineAssumption DEF E!EngineAssumption, E!EngineTypes, EngineTypes, E!Media, Media,
                          E!Words, Words
<1>2. E!Spec => []E!OneThread
  BY <1>1, E!OneThreadAlways, PTL
<1>6. E!Spec => []E!TypeOK
  BY <1>1, E!EngineTyped, PTL
<1>7. E!TypeOK => LibraryTyped
  BY DEF E!TypeOK, LibraryTyped
<1>3. E!OneThread => OneThread
  BY DEF E!OneThread, OneThread, E!Active, Active, OuterThr, Inside, Inner
<1>4. MSpec => []TInv
  BY TInit, OuterStep, PTL DEF MSpec
<1>8. MInit => GrowingUnmapped
  BY DEF MInit, Init, GrowingUnmapped
<1>9. MSpec => []GrowingUnmapped
  BY <1>6, <1>7, <1>8, GrowingStep, MplayerImplementsEngine, PTL DEF MSpec
<1>10. QED  BY <1>2, <1>3, <1>4, <1>6, <1>7, <1>9, MplayerImplementsEngine, PTL

-----------------------------------------------------------------------------
(* The kernel hands out free descriptors, two different ones for a pipe. *)
LEMMA LowestOf ==
  ASSUME NEW S, S \subseteq Nat, S # {}
  PROVE  Min(S) \in S
<1> DEFINE R == OpToRel(<, Nat)
<1>1. IsWellFoundedOn(R, Nat)
  BY NatLessThanWellFounded
<1>2. \A i, j \in Nat : i < j => <<i, j>> \in R
  BY DEF OpToRel
<1> HIDE DEF R
<1>3. PICK i \in S : \A j \in S : ~ (<<j, i>> \in R)
  BY <1>1, WFMin
<1>4. \A j \in S : ~ (j < i)
  BY <1>2, <1>3
<1>5. \A j \in S : i =< j
  BY <1>4
<1>6. QED  BY <1>5 DEF Min

LEMMA FreeParts ==
  /\ Room(1) => Lowest \in Fds /\ fds[Lowest] = "free"
  /\ Room(2) => /\ Second \in Fds /\ fds[Second] = "free" /\ Second # Lowest
                /\ Lowest \in Fds /\ fds[Lowest] = "free"
<1>1. Free \subseteq Fds /\ Free \subseteq Nat /\ IsFiniteSet(Free)
  BY FdsAssumption, FS_Subset DEF Free
<1>2. Cardinality(Free) \in Nat
  BY <1>1, FS_CardinalityType
<1>3. Room(1) => Free # {}
  BY FS_EmptySet DEF Room
<1>4. Room(1) => Lowest \in Free
  BY <1>1, <1>3, LowestOf DEF Lowest
<1>5. Room(2) => Room(1)
  BY <1>2 DEF Room
<1>6. Room(2) => Free \ {Lowest} # {}
  <2> SUFFICES ASSUME Room(2) PROVE Free \ {Lowest} # {}
    OBVIOUS
  <2>1. Cardinality(Free \ {Lowest}) = Cardinality(Free) - 1
    BY <1>1, <1>4, <1>5, FS_RemoveElement
  <2>2. Cardinality(Free \ {Lowest}) # 0
    BY <1>2, <2>1 DEF Room
  <2>3. QED  BY <2>2, FS_EmptySet
<1>7. Room(2) => Second \in Free \ {Lowest}
  BY <1>1, <1>6, LowestOf DEF Second
<1>8. QED  BY <1>1, <1>4, <1>5, <1>7 DEF Free

(* The inductive invariant.  A thread inside mplayer's function is the     *)
(* only one, so that the pipe it made is the last that was made: its ends  *)
(* stay what they are until they are closed, and the child cannot leave    *)
(* the pipe without a reader before the parent has closed its own end.     *)
PipeMade ==
  \A t \in Threads :
    /\ thr[t] \in {"fork", "shut"} =>
         /\ ReadEnd(t) \in Fds /\ fds[ReadEnd(t)] = "read"
         /\ WriteEnd(t) \in Fds /\ fds[WriteEnd(t)] = "pipe"
    /\ thr[t] = "assign" => WriteEnd(t) \in Fds /\ fds[WriteEnd(t)] \in {"pipe", "broken"}
MInv == MTypeOK /\ LibHeld /\ PipeHeld /\ PipeMade /\ Reaped
OneAtATime == TInv /\ OneThread /\ LibraryTyped /\ GrowingUnmapped

LEMMA MInitInv == MInit => MInv
<1> SUFFICES ASSUME MInit PROVE MInv
  OBVIOUS
<1>1. library.st = "closed" /\ \A t \in Threads : thr[t] = "idle"
  BY DEF MInit, Init
<1>2. MTypeOK  BY <1>1 DEF MInit, MTypeOK, FdKinds, ChildStates
<1>3. LibHeld /\ PipeHeld /\ PipeMade /\ Reaped
  BY <1>1 DEF MInit, LibHeld, PipeHeld, PipeMade, Reaped
<1>4. QED  BY <1>2, <1>3 DEF MInv

(* Steps that leave the pipes, the player and the places of threads inside *)
(* mplayer's function alone. *)
Pipes == {"read", "pipe", "broken"}
LEMMA PipesSame ==
  ASSUME MInv, UNCHANGED <<wfd, io_pipe, child>>,
         \A f \in Fds : fds[f] \in Pipes => fds'[f] = fds[f],
         \A t \in Threads : thr'[t] = thr[t] \/ {thr[t], thr'[t]} \cap Inner = {}
  PROVE  PipeHeld' /\ PipeMade' /\ Reaped'
<1>1. \A t \in Threads : thr'[t] \in Inner => thr'[t] = thr[t]
  OBVIOUS
<1>2. \A t \in Threads :
        thr[t] \in {"shut", "assign", "wait"} <=> thr'[t] \in {"shut", "assign", "wait"}
  BY DEF Inner
<1>3. PipeHeld'
  <2> SUFFICES ASSUME NEW t \in Threads, thr'[t] \in {"wait", "close"}
               PROVE  wfd' = WriteEnd(t)' /\ Target' \in {"pipe", "broken"}
    BY DEF PipeHeld
  <2>1. thr[t] \in {"wait", "close"}
    BY <1>1 DEF Inner
  <2>2. wfd = WriteEnd(t) /\ wfd \in Fds /\ fds[wfd] \in {"pipe", "broken"}
    BY <2>1 DEF MInv, PipeHeld, Target
  <2>3. fds'[wfd] = fds[wfd]
    BY <2>2 DEF Pipes
  <2>4. QED  BY <2>2, <2>3 DEF Target, WriteEnd
<1>4. PipeMade'
  <2> SUFFICES ASSUME NEW t \in Threads
               PROVE  /\ thr'[t] \in {"fork", "shut"} =>
                           /\ ReadEnd(t) \in Fds /\ fds'[ReadEnd(t)] = "read"
                           /\ WriteEnd(t) \in Fds /\ fds'[WriteEnd(t)] = "pipe"
                      /\ thr'[t] = "assign" =>
                           WriteEnd(t) \in Fds /\ fds'[WriteEnd(t)] \in {"pipe", "broken"}
    BY DEF PipeMade, ReadEnd, WriteEnd
  <2>1. CASE thr'[t] \in {"fork", "shut"}
    <3>1. thr[t] \in {"fork", "shut"}
      BY <1>1, <2>1 DEF Inner
    <3>2. /\ ReadEnd(t) \in Fds /\ fds[ReadEnd(t)] = "read"
          /\ WriteEnd(t) \in Fds /\ fds[WriteEnd(t)] = "pipe"
      BY <3>1 DEF MInv, PipeMade
    <3>3. QED  BY <2>1, <3>2 DEF Pipes
  <2>2. CASE thr'[t] = "assign"
    <3>1. thr[t] = "assign"
      BY <1>1, <2>2 DEF Inner
    <3>2. WriteEnd(t) \in Fds /\ fds[WriteEnd(t)] \in {"pipe", "broken"}
      BY <3>1 DEF MInv, PipeMade
    <3>3. QED  BY <2>2, <3>2 DEF Pipes
  <2>3. QED  BY <2>1, <2>2
<1>5. Reaped'  BY <1>2 DEF MInv, Reaped
<1>6. QED  BY <1>3, <1>4, <1>5

LEMMA MSame ==
  ASSUME MInv, UNCHANGED pvars, library'.st = "closed" <=> library.st = "closed",
         \A t \in Threads : thr'[t] = thr[t] \/ {thr[t], thr'[t]} \cap Inner = {}
  PROVE  MInv'
<1>1. UNCHANGED <<fds, libfd, wfd, io_pipe, child, spoilt>>  BY DEF pvars
<1>2. MTypeOK' /\ LibHeld'  BY <1>1 DEF MInv, MTypeOK, LibHeld
<1>3. PipeHeld' /\ PipeMade' /\ Reaped'  BY <1>1, PipesSame
<1>4. QED  BY <1>2, <1>3 DEF MInv

LEMMA ShellInv ==
  ASSUME MInv, OneAtATime, MShellStep
  PROVE  MInv'
<1>1. CASE /\ \/ \E e \in Engines : Register(e)
              \/ \E w \in Words : PlayList(w) \/ PlayMedia(w)
              \/ \E c \in {"toggle", "stop"} : LookAtInUse(c)
              \/ StartGrowing \/ EndGrowing
              \/ \E n \in Playlists : Remove(n)
           /\ UNCHANGED pvars
  <2>1. thr' = thr
    BY <1>1 DEF Register, PlayList, PlayMedia, LookAtInUse, StartGrowing, EndGrowing, Remove
  <2>2. \/ library' = library
        \/ library.st # "closed" /\ (StartGrowing \/ EndGrowing \/ \E n \in Playlists : Remove(n))
    <3>1. CASE \/ \E e \in Engines : Register(e)
               \/ \E w \in Words : PlayList(w) \/ PlayMedia(w)
               \/ \E c \in {"toggle", "stop"} : LookAtInUse(c)
      BY <3>1 DEF Register, PlayList, PlayMedia, LookAtInUse
    <3>2. CASE StartGrowing \/ \E n \in Playlists : Remove(n)
      BY <3>2 DEF StartGrowing, Remove
    <3>3. CASE EndGrowing
      BY <3>3 DEF OneAtATime, GrowingUnmapped, EndGrowing
    <3>4. QED  BY <1>1, <3>1, <3>2, <3>3
  <2>3. library.st # "closed" /\ (StartGrowing \/ EndGrowing \/ \E n \in Playlists : Remove(n))
          => library'.st # "closed"
    BY DEF OneAtATime, LibraryTyped, StartGrowing, EndGrowing, Remove
  <2>4. QED  BY <1>1, <2>1, <2>2, <2>3, MSame
<1>2. CASE Spawn /\ UNCHANGED pvars
  <2>1. \A t \in Threads : thr'[t] = thr[t] \/ {thr[t], thr'[t]} \cap Inner = {}
    BY <1>2 DEF Spawn, OneAtATime, TInv, ThreadPlaces, Inner
  <2>2. QED  BY <1>2, <2>1, MSame DEF Spawn
<1>3. CASE WriteControl
  <2>1. UNCHANGED <<thr, library, fds, libfd, wfd, io_pipe, child>> /\ spoilt' \in BOOLEAN
    BY <1>3 DEF WriteControl, Written, CallControl, MInv, MTypeOK
  <2>2. MTypeOK' /\ LibHeld'  BY <2>1 DEF MInv, MTypeOK, LibHeld
  <2>3. QED  BY <2>1, <2>2, PipesSame DEF MInv
<1>4. CASE OpenFd
  <2>1. /\ UNCHANGED <<thr, wfd, io_pipe, child, spoilt>>
        /\ library.st = "closed" /\ library'.st = "open"
        /\ Room(1) /\ libfd' = Lowest /\ fds' = [fds EXCEPT ![Lowest] = "lib"]
    BY <1>4 DEF OpenFd, OpenLibrary
  <2>2. Lowest \in Fds /\ fds[Lowest] = "free" /\ Lowest # None
    BY <2>1, FreeParts, FdsAssumption DEF None
  <2>3. fds \in [Fds -> FdKinds]  BY DEF MInv, MTypeOK
  <2>4. MTypeOK' /\ LibHeld'  BY <2>1, <2>2, <2>3 DEF MInv, MTypeOK, LibHeld, FdKinds
  <2>5. \A f \in Fds : fds[f] \in Pipes => fds'[f] = fds[f]
    BY <2>1, <2>2, <2>3 DEF Pipes
  <2>6. QED  BY <2>1, <2>4, <2>5, PipesSame DEF MInv
<1>5. CASE CloseFd
  <2>1. /\ UNCHANGED <<thr, wfd, io_pipe, child, spoilt>>
        /\ library.st = "open" /\ library'.st = "closed"
        /\ libfd' = None /\ fds' = [fds EXCEPT ![libfd] = "free"]
    BY <1>5 DEF CloseFd, CloseLibrary
  <2>2. libfd \in Fds /\ fds[libfd] = "lib" /\ fds \in [Fds -> FdKinds]
    BY <2>1 DEF MInv, MTypeOK, LibHeld
  <2>3. MTypeOK' /\ LibHeld'  BY <2>1, <2>2 DEF MInv, MTypeOK, LibHeld, FdKinds
  <2>4. \A f \in Fds : fds[f] \in Pipes => fds'[f] = fds[f]
    BY <2>1, <2>2 DEF Pipes
  <2>5. QED  BY <2>1, <2>3, <2>4, PipesSame DEF MInv
<1>6. CASE OpenOther \/ \E f \in Fds : CloseOther(f)
  <2>1. PICK f \in Fds, kind \in {"free", "other"} :
          fds[f] \in {"free", "other"} /\ fds' = [fds EXCEPT ![f] = kind]
    BY <1>6, FreeParts DEF OpenOther, CloseOther
  <2>2. UNCHANGED <<thr, library, libfd, wfd, io_pipe, child, spoilt>>
    BY <1>6 DEF OpenOther, CloseOther, vars
  <2>3. fds \in [Fds -> FdKinds]  BY DEF MInv, MTypeOK
  <2>4. /\ fds' \in [Fds -> FdKinds]
        /\ \A g \in Fds : fds[g] \in {"lib"} \cup Pipes => fds'[g] = fds[g]
    BY <2>1, <2>3 DEF FdKinds, Pipes
  <2>5. MTypeOK'  BY <2>2, <2>4 DEF MInv, MTypeOK
  <2>6. LibHeld'  BY <2>2, <2>4 DEF MInv, MTypeOK, LibHeld
  <2>7. QED  BY <2>2, <2>4, <2>5, <2>6, PipesSame DEF MInv
<1>7. QED  BY <1>1, <1>2, <1>3, <1>4, <1>5, <1>6 DEF MShellStep

(* The thread that takes a step inside mplayer's function is alone there,  *)
(* so that what is said of pipes and the player is said of it.             *)
LEMMA OneInside ==
  ASSUME TInv, OneThread, NEW t \in Threads,
         NEW from \in {"video"} \cup Inner, NEW to \in {"audio", "lock"} \cup Inner,
         Goes(t, from, to)
  PROVE  /\ thr[t] = from /\ thr'[t] = to
         /\ \A u \in Threads : u # t => thr'[u] \notin Inner
         /\ (to \in {"wait", "close"} => wfd' = WriteEnd(t)' /\ Target' \in {"pipe", "broken"})
              => PipeHeld'
         /\ (child' # "none" <=> to \in {"shut", "assign", "wait"}) => Reaped'
<1>1. to \in Places \cup Inner
  BY DEF Places, MediaPlaces
<1>2. thr[t] = from /\ thr'[t] = to /\ \A u \in Threads : u # t => thr'[u] = thr[u]
  BY <1>1, GoesHere
<1>3. \A u \in Threads : u # t => ~ Active(u)
  BY <1>2 DEF OneThread, Active, Inner
<1>4. \A u \in Threads : u # t => thr'[u] \notin Inner
  BY <1>2, <1>3 DEF Active, Inner
<1>5. {"shut", "assign", "wait", "close"} \subseteq Inner
  BY DEF Inner
<1>6. (to \in {"wait", "close"} => wfd' = WriteEnd(t)' /\ Target' \in {"pipe", "broken"})
        => PipeHeld'
  BY <1>2, <1>4, <1>5 DEF PipeHeld
<1>7. (child' # "none" <=> to \in {"shut", "assign", "wait"}) => Reaped'
  BY <1>2, <1>4, <1>5 DEF Reaped
<1>8. QED  BY <1>2, <1>4, <1>6, <1>7

(* The same of its pipe before mplayer_exec() returns. *)
LEMMA MadeInside ==
  ASSUME NEW t \in Threads, \A u \in Threads : u # t => thr'[u] \notin Inner,
         thr'[t] \in {"fork", "shut"} =>
           /\ ReadEnd(t)' \in Fds /\ fds'[ReadEnd(t)'] = "read"
           /\ WriteEnd(t)' \in Fds /\ fds'[WriteEnd(t)'] = "pipe",
         thr'[t] = "assign" => WriteEnd(t)' \in Fds /\ fds'[WriteEnd(t)'] \in {"pipe", "broken"}
  PROVE  PipeMade'
BY DEF PipeMade, Inner

LEMMA ThreadInvM ==
  ASSUME MInv, OneAtATime, NEW t \in Threads, MThreadStep(t)
  PROVE  MInv'
<1> USE DEF Within
<1>1. TInv /\ OneThread  BY DEF OneAtATime
<1>2. {"fork", "shut", "assign", "wait", "close"} \subseteq Inner /\ "audio" \notin Inner /\ "lock" \notin Inner
  BY DEF Inner
<1>3. fds \in [Fds -> FdKinds]  BY DEF MInv, MTypeOK
<1>4. CASE Around(t) /\ UNCHANGED pvars
  <2>1. library' = library
    BY <1>4 DEF Around, Start, BuildUri, NamePlaylist, Sleep, PlayAudio, Lock, Clear, FreeElem,
                Unlock, Passes
  <2>2. \/ UNCHANGED thr
        \/ \E from, to \in Places : Goes(t, from, to)
    BY <1>4 DEF Around, Start, BuildUri, NamePlaylist, Sleep, PlayAudio, Lock, Clear, FreeElem,
                Unlock, Passes, Places, MediaPlaces, ListPlaces
  <2>3. \A p \in Places : p \notin Inner
    BY DEF Places, MediaPlaces, ListPlaces, Inner
  <2>4. \A u \in Threads : thr'[u] = thr[u] \/ {thr[u], thr'[u]} \cap Inner = {}
    BY <2>2, <2>3, GoesHere DEF OneAtATime
  <2>5. QED  BY <1>4, <2>1, <2>4, MSame
<1>5. CASE Pipe(t)
  <2>1. /\ Goes(t, "video", "fork") /\ UNCHANGED <<library, libfd, wfd, child, spoilt>>
        /\ Room(2) /\ fds' = [fds EXCEPT ![Lowest] = "read", ![Second] = "pipe"]
        /\ io_pipe' = [io_pipe EXCEPT ![t] = <<Lowest, Second>>]
    BY <1>5 DEF Pipe
  <2>2. /\ Second \in Fds /\ fds[Second] = "free" /\ Lowest # Second
        /\ Lowest \in Fds /\ fds[Lowest] = "free"
    BY <2>1, FreeParts
  <2>3. /\ thr[t] = "video" /\ thr'[t] = "fork" /\ \A u \in Threads : u # t => thr'[u] \notin Inner
        /\ PipeHeld' /\ (child' = "none" => Reaped')
    BY <1>1, <1>2, <2>1, OneInside
  <2>4. child = "none"
    <3>1. \A u \in Threads : u # t => ~ Active(u)
      BY <1>1, <2>3 DEF OneThread, Active
    <3>2. \A u \in Threads : thr[u] \notin {"shut", "assign", "wait"}
      <4> TAKE u \in Threads
      <4>1. CASE u = t  BY <2>3, <4>1
      <4>2. CASE u # t  BY <3>1, <4>2, GoesHere, <1>1, <1>2, <2>1, <2>3 DEF Inner, TInv, ThreadPlaces
      <4>3. QED  BY <4>1, <4>2
    <3>3. QED  BY <3>2 DEF MInv, Reaped
  <2>5. io_pipe'[t] = <<Lowest, Second>> /\ io_pipe' \in [Threads -> (Fds \cup {None}) \X (Fds \cup {None})]
    BY <2>1, <2>2 DEF MInv, MTypeOK
  <2>6. ReadEnd(t)' = Lowest /\ WriteEnd(t)' = Second
    BY <2>5 DEF ReadEnd, WriteEnd
  <2>7. fds' \in [Fds -> FdKinds] /\ fds'[Lowest] = "read" /\ fds'[Second] = "pipe"
    BY <1>3, <2>1, <2>2 DEF FdKinds
  <2>8. PipeMade'
    BY <2>2, <2>3, <2>6, <2>7, MadeInside
  <2>9. MTypeOK'
    BY <2>1, <2>5, <2>7 DEF MInv, MTypeOK
  <2>10. LibHeld'
    BY <1>3, <2>1, <2>2 DEF MInv, MTypeOK, LibHeld
  <2>11. QED  BY <2>1, <2>3, <2>4, <2>8, <2>9, <2>10 DEF MInv
<1>6. CASE NoPipe(t)
  <2>1. Goes(t, "video", "audio") /\ UNCHANGED <<fds, library, libfd, wfd, io_pipe, child, spoilt>>
    BY <1>6 DEF NoPipe
  <2>2. UNCHANGED pvars  BY <2>1 DEF pvars
  <2>3. "audio" \in Places /\ "video" \notin Inner
    BY DEF Places, MediaPlaces, Inner
  <2>4. \A u \in Threads : thr'[u] = thr[u] \/ {thr[u], thr'[u]} \cap Inner = {}
    BY <1>1, <1>2, <2>1, <2>3, GoesHere
  <2>5. QED  BY <2>1, <2>2, <2>4, MSame
<1>7. CASE Fork(t)
  <2>1. /\ Goes(t, "fork", "shut") /\ UNCHANGED <<fds, library, libfd, wfd, io_pipe, spoilt>>
        /\ child' = "starting"
    BY <1>7 DEF Fork
  <2>2. /\ thr[t] = "fork" /\ thr'[t] = "shut" /\ \A u \in Threads : u # t => thr'[u] \notin Inner
        /\ PipeHeld' /\ Reaped'
    BY <1>1, <1>2, <2>1, OneInside
  <2>3. PipeMade'
    <3>1. /\ ReadEnd(t) \in Fds /\ fds[ReadEnd(t)] = "read"
          /\ WriteEnd(t) \in Fds /\ fds[WriteEnd(t)] = "pipe"
      BY <2>2 DEF MInv, PipeMade
    <3>2. ReadEnd(t)' = ReadEnd(t) /\ WriteEnd(t)' = WriteEnd(t)
      BY <2>1 DEF ReadEnd, WriteEnd
    <3>3. QED  BY <2>1, <2>2, <3>1, <3>2, MadeInside
  <2>4. MTypeOK' /\ LibHeld'
    BY <2>1 DEF MInv, MTypeOK, LibHeld, ChildStates
  <2>5. QED  BY <2>2, <2>3, <2>4 DEF MInv
<1>8. CASE NoFork(t) \/ CloseRead(t)
  <2>1. PICK to \in {"audio", "assign"}, end \in {"lost", "pipe", "broken"}, other \in {"lost", "free"},
             from \in {"fork", "shut"} :
          /\ Goes(t, from, to) /\ UNCHANGED <<library, libfd, wfd, io_pipe, child, spoilt>>
          /\ fds' = [fds EXCEPT ![ReadEnd(t)] = other, ![WriteEnd(t)] = end]
          /\ to = "assign" => end \in {"pipe", "broken"}
          /\ from = "fork" <=> to = "audio"
    BY <1>8 DEF NoFork, CloseRead
  <2>2. /\ thr[t] = from /\ thr'[t] = to /\ \A u \in Threads : u # t => thr'[u] \notin Inner
        /\ PipeHeld' /\ ((child' # "none" <=> to \in {"shut", "assign", "wait"}) => Reaped')
    BY <1>1, <1>2, <2>1, OneInside
  <2>3. /\ ReadEnd(t) \in Fds /\ fds[ReadEnd(t)] = "read"
        /\ WriteEnd(t) \in Fds /\ fds[WriteEnd(t)] = "pipe"
    BY <2>1, <2>2 DEF MInv, PipeMade
  <2>4. ReadEnd(t)' = ReadEnd(t) /\ WriteEnd(t)' = WriteEnd(t)
    BY <2>1 DEF ReadEnd, WriteEnd
  <2>5. fds' \in [Fds -> FdKinds] /\ fds'[WriteEnd(t)] = end
    BY <1>3, <2>1, <2>3 DEF FdKinds
  <2>6. PipeMade'
    BY <2>1, <2>2, <2>3, <2>4, <2>5, MadeInside
  <2>7. MTypeOK'
    BY <2>1, <2>5 DEF MInv, MTypeOK
  <2>8. LibHeld'
    BY <1>3, <2>1, <2>3 DEF MInv, MTypeOK, LibHeld
  <2>9. child # "none" <=> from = "shut"
    <3>1. thr[t] = from /\ \A u \in Threads : u # t => thr[u] \notin Inner
      BY <1>1, <1>2, <2>1, GoesHere, <2>2 DEF Places, MediaPlaces
    <3>2. QED  BY <1>2, <2>1, <3>1 DEF MInv, Reaped
  <2>10. Reaped'
    BY <2>1, <2>2, <2>9
  <2>11. QED  BY <2>2, <2>6, <2>7, <2>8, <2>10 DEF MInv
<1>9. CASE Assign(t)
  <2>1. Goes(t, "assign", "wait") /\ wfd' = WriteEnd(t) /\ UNCHANGED <<fds, library, libfd, io_pipe, child, spoilt>>
    BY <1>9 DEF Assign
  <2>2. thr[t] = "assign" /\ WriteEnd(t)' = WriteEnd(t)
    BY <1>1, <1>2, <2>1, OneInside DEF WriteEnd
  <2>3. WriteEnd(t) \in Fds /\ fds[WriteEnd(t)] \in {"pipe", "broken"} /\ child # "none"
    BY <2>2 DEF MInv, PipeMade, Reaped
  <2>4. wfd' = WriteEnd(t)' /\ Target' \in {"pipe", "broken"}
    BY <2>1, <2>2, <2>3 DEF Target
  <2>5. /\ thr'[t] = "wait" /\ \A u \in Threads : u # t => thr'[u] \notin Inner
        /\ PipeHeld' /\ Reaped'
    BY <1>1, <1>2, <2>1, <2>3, <2>4, OneInside
  <2>6. PipeMade'  BY <2>5, MadeInside
  <2>7. MTypeOK' /\ LibHeld'
    BY <2>1, <2>3 DEF MInv, MTypeOK, LibHeld
  <2>8. QED  BY <2>5, <2>6, <2>7 DEF MInv
<1>10. CASE Reap(t)
  <2>1. PICK to \in {"close", "audio"} : Goes(t, "wait", to)
    BY <1>10 DEF Reap
  <2>2. child' = "none" /\ UNCHANGED <<library, fds, libfd, wfd, io_pipe, spoilt>>
    BY <1>10 DEF Reap
  <2>3. thr[t] = "wait" /\ thr'[t] = to
    BY <1>1, <1>2, <2>1, OneInside
  <2>4. wfd' = WriteEnd(t)' /\ Target' \in {"pipe", "broken"}
    BY <2>2, <2>3 DEF MInv, PipeHeld, Target, WriteEnd
  <2>5. PipeHeld' /\ Reaped' /\ \A u \in Threads : u # t => thr'[u] \notin Inner
    BY <1>1, <1>2, <2>1, <2>2, <2>4, OneInside
  <2>6. PipeMade'  BY <2>3, <2>5, MadeInside
  <2>7. MTypeOK' /\ LibHeld'
    BY <2>2 DEF MInv, MTypeOK, LibHeld, ChildStates
  <2>8. QED  BY <2>5, <2>6, <2>7 DEF MInv
<1>11. CASE ClosePipe(t)
  <2>1. Goes(t, "close", "lock") /\ fds' = [fds EXCEPT ![wfd] = "free"]
        /\ UNCHANGED <<library, libfd, wfd, io_pipe, child, spoilt>>
    BY <1>11 DEF ClosePipe
  <2>2. /\ thr[t] = "close" /\ thr'[t] = "lock" /\ \A u \in Threads : u # t => thr'[u] \notin Inner
        /\ PipeHeld' /\ (child' = "none" => Reaped')
    BY <1>1, <1>2, <2>1, OneInside
  <2>3. wfd \in Fds /\ fds[wfd] \in {"pipe", "broken"}
    BY <2>2 DEF MInv, PipeHeld, Target
  <2>4. MTypeOK' /\ LibHeld'
    BY <1>3, <2>1, <2>3 DEF MInv, MTypeOK, LibHeld, FdKinds
  <2>5. PipeMade'  BY <2>2, MadeInside
  <2>6. child = "none"
    <3>1. "lock" \in Places
      BY DEF Places, MediaPlaces
    <3>2. \A u \in Threads : thr[u] \notin {"shut", "assign", "wait"}
      BY <1>1, <1>2, <2>1, <2>2, <3>1, GoesHere
    <3>3. QED  BY <3>2 DEF MInv, Reaped
  <2>7. QED  BY <2>1, <2>2, <2>4, <2>5, <2>6 DEF MInv
<1>12. QED  BY <1>4, <1>5, <1>6, <1>7, <1>8, <1>9, <1>10, <1>11 DEF MThreadStep

(* The child leaves a pipe without a reader, at most. *)
LEMMA ChildInv ==
  ASSUME MInv, ChildStep
  PROVE  MInv'
<1>1. child # "none" /\ child' # "none" /\ child' \in ChildStates
  BY DEF ChildStep, ChildStates
<1>2. UNCHANGED <<thr, library, libfd, wfd, io_pipe, spoilt>>
  BY DEF ChildStep, vars
<1>3. /\ fds' \in [Fds -> FdKinds]
      /\ \A f \in Fds : fds'[f] = fds[f] \/ (fds[f] = "pipe" /\ fds'[f] = "broken")
      /\ (\E f \in Fds : fds[f] = "read") => fds' = fds
  BY DEF ChildStep, Deserted, MInv, MTypeOK, FdKinds
<1>4. MTypeOK'
  BY <1>1, <1>2, <1>3 DEF MInv, MTypeOK
<1>5. LibHeld'
  BY <1>2, <1>3 DEF MInv, MTypeOK, LibHeld
<1>6. \A f \in Fds : fds[f] \in {"pipe", "broken"} => fds'[f] \in {"pipe", "broken"}
  BY <1>3
<1>7. PipeHeld'
  BY <1>2, <1>6 DEF MInv, PipeHeld, Target, WriteEnd
<1>8. PipeMade'
  BY <1>2, <1>3, <1>6 DEF MInv, PipeMade, ReadEnd, WriteEnd
<1>9. Reaped'
  BY <1>1, <1>2 DEF MInv, Reaped
<1>10. QED  BY <1>4, <1>5, <1>7, <1>8, <1>9 DEF MInv

LEMMA MNextInv == MInv /\ OneAtATime /\ [MNext]_mvars => MInv'
<1> SUFFICES ASSUME MInv, OneAtATime, [MNext]_mvars PROVE MInv'
  OBVIOUS
<1>1. CASE UNCHANGED mvars
  BY <1>1, MSame DEF mvars, pvars
<1>2. QED  BY <1>1, ChildInv, ShellInv, ThreadInvM DEF MNext

LEMMA MInvAlways == MSpec => []MInv
BY MInitInv, MNextInv, OneHere, PTL DEF MSpec, OneAtATime

-----------------------------------------------------------------------------
(* mplayer's state stays well typed, and a library has a descriptor as     *)
(* long as it is open.                                                     *)
THEOREM MplayerTyped == MSpec => []MTypeOK
<1>1. MInv => MTypeOK  BY DEF MInv
<1>2. QED  BY <1>1, MInvAlways, PTL
(* No player's end closes a library's descriptor (mplayer_play_URI).       *)
THEOREM LibHeldAlways == MSpec => []LibHeld
<1>1. MInv => LibHeld  BY DEF MInv
<1>2. QED  BY <1>1, MInvAlways, PTL
(* From mplayer_exec()'s return until the pipe is closed, mplayer_write_fd *)
(* is the pipe of the thread that waits (mplayer_engine.c:56).             *)
THEOREM PipeHeldAlways == MSpec => []PipeHeld
<1>1. MInv => PipeHeld  BY DEF MInv
<1>2. QED  BY <1>1, MInvAlways, PTL
(* No player is left when the next one starts (mplayer_play_URI).          *)
THEOREM ReapedAlways == MSpec => []Reaped
<1>1. MInv => Reaped  BY DEF MInv
<1>2. QED  BY <1>1, MInvAlways, PTL
-----------------------------------------------------------------------------
(* A command meant for a player reaches a library's file at most while no  *)
(* thread is between mplayer_exec()'s return and the end of its pipe.      *)
StrayOnlyBetween ==
  spoilt' # spoilt => \A t \in Threads : thr[t] \notin {"wait", "close"}

LEMMA ShellStray ==
  ASSUME MInv, MShellStep
  PROVE  StrayOnlyBetween
<1>1. CASE WriteControl
  BY <1>1 DEF MInv, MTypeOK, PipeHeld, WriteControl, Written, StrayOnlyBetween
<1>2. CASE MShellStep /\ ~ WriteControl
  BY <1>2 DEF MShellStep, pvars, OpenFd, CloseFd, OpenOther, CloseOther, StrayOnlyBetween
<1>3. QED  BY <1>1, <1>2

LEMMA ThreadStray ==
  ASSUME NEW t \in Threads, MThreadStep(t)
  PROVE  UNCHANGED spoilt
BY DEF MThreadStep, pvars, Pipe, NoPipe, Fork, NoFork, CloseRead, Assign, Reap, ClosePipe, Within

(* What pause and stop write goes astray only before mplayer_exec() has    *)
(* said where they write to, which is a little after the player was        *)
(* started, or after the end of its pipe (mplayer_engine.c:56,97,106,121). *)
THEOREM StrayBetweenPlayers == MSpec => [][StrayOnlyBetween]_mvars
<1>1. MInv /\ [MNext]_mvars => [StrayOnlyBetween]_mvars
  BY ShellStray, ThreadStray DEF MNext, ChildStep, StrayOnlyBetween
<1>2. QED  BY <1>1, MInvAlways, PTL DEF MSpec
=============================================================================

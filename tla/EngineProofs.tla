---------------------------- MODULE EngineProofs ----------------------------
(***************************************************************************)
(* Proofs about Engine for every set of threads, words and engines.        *)
(*                                                                         *)
(* in_use alone does not keep a second thread away: it is cleared before   *)
(* the thread lets go of elem.  The invariant says who covers for whom: a  *)
(* claim covers a thread not yet created, in_use covers a thread until it  *)
(* clears it, and the lock covers it from there on.                        *)
(***************************************************************************)
EXTENDS Engine, TLAPS

Holds(t) == thr[t] \in {"clear", "free", "list_clear", "unlock"}

LockKept == \A t \in Threads : lock = t <=> Holds(t)
UseKept == \A t \in Threads :
             Active(t) /\ thr[t] \notin {"free", "unlock"} => playing.in_use
ClaimKept == shell \in {"spawn_media", "spawn_list"} =>
               playing.in_use /\ \A t \in Threads : ~ Active(t)
WordKept == shell = "spawn_media" => playing.elem \in Words

IInv == /\ TypeOK /\ OneThread /\ ElemOwned
        /\ LockKept /\ UseKept /\ ClaimKept /\ WordKept

(* What a claim finds: nobody is playing. *)
LEMMA ClaimFree ==
  ASSUME IInv, Claimable
  PROVE  \A t \in Threads : ~ Active(t)
BY EngineAssumption DEF IInv, Claimable, LockKept, UseKept, Holds, Active

LEMMA InitIInv == Init => IInv
<1> SUFFICES ASSUME Init PROVE IInv
  OBVIOUS
<1>1. \A t \in Threads : thr[t] = "idle"
  BY DEF Init
<1>2. TypeOK
  BY DEF Init, TypeOK, Pointers, Places, Commands
<1> QED
  BY <1>1, <1>2, EngineAssumption
  DEF Init, IInv, OneThread, ElemOwned, LockKept, UseKept, ClaimKept, WordKept,
      Holds, Active, MediaPlaces

(* A step that leaves threads, lock, claim and word alone. *)
LEMMA Undisturbed ==
  ASSUME IInv, TypeOK', UNCHANGED <<thr, lock>>,
         playing'.in_use = playing.in_use, playing'.elem = playing.elem,
         shell' \notin {"spawn_media", "spawn_list"}
  PROVE  IInv'
BY DEF IInv, OneThread, ElemOwned, LockKept, UseKept, ClaimKept, WordKept, Holds, Active

(* A thread that goes on without touching lock, claim and word. *)
LEMMA Onward ==
  ASSUME IInv, TypeOK', NEW t \in Threads, NEW from \in Places, NEW to \in Places,
         Goes(t, from, to), UNCHANGED <<playing, lock, shell>>,
         from \notin {"idle", "done", "free", "unlock", "clear", "list_clear"},
         to \notin {"idle", "done", "free", "unlock", "clear", "list_clear"},
         to \in MediaPlaces => from \in MediaPlaces
  PROVE  IInv'
<1>1. thr \in [Threads -> Places]
  BY DEF IInv, TypeOK
<1>2. /\ thr[t] = from /\ thr'[t] = to
      /\ \A u \in Threads : u # t => thr'[u] = thr[u]
  BY <1>1 DEF Goes
<1>3. \A u \in Threads : Active(u)' <=> Active(u)
  BY <1>2 DEF Active
<1>4. \A u \in Threads : Holds(u)' <=> Holds(u)
  BY <1>2 DEF Holds
<1>5. OneThread'
  BY <1>3 DEF IInv, OneThread
<1>6. ElemOwned'
  BY <1>2 DEF IInv, ElemOwned
<1>7. UseKept'
  BY <1>2 DEF IInv, UseKept, Active
<1> QED
  BY <1>3, <1>4, <1>5, <1>6, <1>7 DEF IInv, LockKept, ClaimKept, WordKept

-----------------------------------------------------------------------------
LEMMA RegisterStep ==
  ASSUME IInv, NEW e \in Engines, Register(e) PROVE IInv'
<1>1. e \in EngineTypes
  BY EngineAssumption
<1>2. Backed(e) \in EngineTypes /\ Backed(e).caps \subseteq Backed(e).plays
  BY <1>1 DEF Backed, EngineTypes
<1>3. TypeOK'
  BY <1>2 DEF IInv, TypeOK, Register
<1> QED
  BY <1>3, Undisturbed DEF Register, IInv

LEMMA ClaimStep ==
  ASSUME IInv, NEW w \in Words, PlayList(w) \/ PlayMedia(w) PROVE IInv'
<1>1. \A t \in Threads : ~ Active(t)
  BY ClaimFree DEF PlayList, PlayMedia
<1>2. UNCHANGED <<thr, lock>> /\ playing'.in_use = TRUE
  BY DEF PlayList, PlayMedia, IInv, TypeOK
<1>3. TypeOK'
  BY DEF IInv, TypeOK, PlayList, PlayMedia, Pointers, Commands
<1>4. WordKept'
  BY DEF IInv, TypeOK, PlayList, PlayMedia, WordKept
<1>5. \A t \in Threads : ~ Active(t)' /\ Holds(t)' = Holds(t) /\ thr'[t] \notin MediaPlaces
  BY <1>1, <1>2 DEF Active, Holds, MediaPlaces
<1> QED
  BY <1>1, <1>2, <1>3, <1>4, <1>5
  DEF IInv, OneThread, ElemOwned, LockKept, UseKept, ClaimKept

LEMMA SpawnStep ==
  ASSUME IInv, Spawn PROVE IInv'
<1>1. thr \in [Threads -> Places] /\ \A t \in Threads : ~ Active(t)
  BY DEF IInv, TypeOK, Spawn, ClaimKept
<1>2. CASE UNCHANGED thr
  <2>1. TypeOK'
    BY <1>2 DEF IInv, TypeOK, Spawn, Commands
  <2> QED
    BY <1>2, <2>1, Undisturbed DEF Spawn
<1>3. ASSUME NEW t \in Threads, thr[t] = "idle",
             thr' = [thr EXCEPT ![t] = IF shell = "spawn_media" THEN "start" ELSE "name"]
      PROVE  IInv'
  <2>1. /\ (thr'[t] = "start" /\ shell = "spawn_media") \/ thr'[t] = "name"
        /\ \A u \in Threads : u # t => thr'[u] = thr[u] /\ ~ Active(u)'
    BY <1>1, <1>3 DEF Active
  <2>2. UNCHANGED <<playing, lock, library, current, dead>> /\ shell' = "prompt" /\ playing.in_use
    BY DEF Spawn, IInv, ClaimKept
  <2>3. TypeOK'
    BY <1>1, <1>3, <2>2 DEF IInv, TypeOK, Commands, Places, MediaPlaces, ListPlaces
  <2>4. OneThread'
    BY <2>1 DEF OneThread
  <2>5. ElemOwned'
    BY <1>1, <2>1, <2>2 DEF IInv, WordKept, ElemOwned, MediaPlaces, Active
  <2>6. \A u \in Threads : Holds(u)' = Holds(u)
    BY <1>3, <2>1 DEF Holds
  <2> QED
    BY <2>2, <2>3, <2>4, <2>5, <2>6 DEF IInv, LockKept, UseKept, ClaimKept, WordKept
<1> QED
  BY <1>2, <1>3 DEF Spawn

LEMMA ControlStep ==
  ASSUME IInv, CallControl \/ \E c \in {"toggle", "stop"} : LookAtInUse(c) PROVE IInv'
<1>1. TypeOK'
  BY DEF IInv, TypeOK, CallControl, LookAtInUse, Commands
<1> QED
  BY <1>1, Undisturbed DEF CallControl, LookAtInUse

LEMMA AgedType == ASSUME NEW p \in Pointers PROVE Aged(p) \in Pointers
BY DEF Pointers, Aged

LEMMA LibraryStep ==
  ASSUME IInv,
         \/ OpenLibrary \/ CloseLibrary \/ StartGrowing \/ EndGrowing
         \/ \E n \in Playlists : Remove(n)
  PROVE  IInv'
<1> DEFINE Recent == [playing EXCEPT !.plist = Aged(@)]
           Closing == [playing EXCEPT !.lib = Aged(@), !.plist = Aged(@)]
           PlayingType == [in_use : BOOLEAN, lib : Pointers, plist : Pointers,
                           elem : Words \cup {NoElem, Freed}]
<1>1. playing \in PlayingType
  BY DEF IInv, TypeOK
<1>2. Aged(playing.lib) \in Pointers /\ Aged(playing.plist) \in Pointers
  BY <1>1, AgedType
<1>3. playing' \in {playing, Recent, Closing}
  BY DEF OpenLibrary, CloseLibrary, StartGrowing, EndGrowing, Remove
<1>4. /\ playing' \in PlayingType
      /\ playing'.in_use = playing.in_use /\ playing'.elem = playing.elem
  BY <1>1, <1>2, <1>3
<1>5. library' \in [st : {"open", "closed", "unmapped"}, lists : SUBSET Playlists]
  BY DEF IInv, TypeOK, OpenLibrary, CloseLibrary, StartGrowing, EndGrowing, Remove
<1>6. /\ UNCHANGED <<current, lock, thr, dead>>
      /\ shell' \in Commands \ {"spawn_media", "spawn_list"}
  BY DEF IInv, OpenLibrary, CloseLibrary, StartGrowing, EndGrowing, Remove, Commands
<1>7. TypeOK'
  BY <1>4, <1>5, <1>6 DEF IInv, TypeOK
<1> QED
  BY <1>4, <1>6, <1>7, Undisturbed

-----------------------------------------------------------------------------
(* Where threads may be: the shape of a step of thread t. *)
LEMMA GoesShape ==
  ASSUME IInv, NEW t \in Threads, NEW from, NEW to, Goes(t, from, to)
  PROVE  /\ thr[t] = from /\ thr'[t] = to
         /\ \A u \in Threads : u # t => thr'[u] = thr[u]
BY DEF Goes, IInv, TypeOK

LEMMA GoesTyped ==
  ASSUME IInv, NEW t \in Threads, NEW from, NEW to \in Places, Goes(t, from, to)
  PROVE  thr' \in [Threads -> Places]
BY DEF Goes, IInv, TypeOK

(* The steps before the lock. *)
LEMMA PlayStep ==
  ASSUME IInv, NEW t \in Threads,
         Start(t) \/ BuildUri(t) \/ NamePlaylist(t) \/ Sleep(t) \/ PlayVideo(t) \/ PlayAudio(t)
  PROVE  IInv'
<1>1. /\ UNCHANGED <<current, playing, lock, shell, library>>
      /\ dead' \in BOOLEAN
  BY DEF IInv, TypeOK, Start, BuildUri, NamePlaylist, Sleep, PlayVideo, PlayAudio, Passes
<1>2. CASE UNCHANGED thr
  <2>1. TypeOK'
    BY <1>1, <1>2 DEF IInv, TypeOK
  <2> QED
    BY <1>1, <1>2, <2>1 DEF IInv, OneThread, ElemOwned, LockKept, UseKept, ClaimKept, WordKept,
                            Holds, Active
<1> DEFINE Before == {"start", "uri", "video", "audio", "name", "sleep"}
           After == {"uri", "video", "audio", "lock", "sleep", "list_lock"}
<1>3. ASSUME NEW from \in Before, NEW to \in After, Goes(t, from, to),
             to \in MediaPlaces => from \in MediaPlaces
      PROVE  IInv'
  <2>1. from \in Places /\ to \in Places
    BY DEF Places, MediaPlaces, ListPlaces
  <2>2. TypeOK'
    BY <1>1, <1>3, <2>1, GoesTyped DEF IInv, TypeOK
  <2> QED
    BY <1>1, <1>3, <2>1, <2>2, Onward
<1>4. UNCHANGED thr \/ \E from \in Before, to \in After :
        Goes(t, from, to) /\ (to \in MediaPlaces => from \in MediaPlaces)
  BY DEF Start, BuildUri, NamePlaylist, Sleep, PlayVideo, PlayAudio, Passes, MediaPlaces
<1> QED
  BY <1>2, <1>3, <1>4

LEMMA LockStep ==
  ASSUME IInv, NEW t \in Threads, Lock(t) PROVE IInv'
<1>1. PICK from \in {"lock", "list_lock"}, to \in {"clear", "list_clear"} :
        Goes(t, from, to) /\ (to = "clear" <=> from = "lock")
  BY DEF Lock
<1>2. /\ thr[t] = from /\ thr'[t] = to
      /\ \A u \in Threads : u # t => thr'[u] = thr[u]
  BY <1>1, GoesShape
<1>3. lock = Nobody /\ lock' = t /\ UNCHANGED <<current, playing, shell, library, dead>>
  BY DEF Lock
<1>4. TypeOK'
  <2>1. to \in Places
    BY DEF Places, MediaPlaces, ListPlaces
  <2> QED
    BY <1>1, <1>3, <2>1, GoesTyped DEF IInv, TypeOK
<1>5. \A u \in Threads : ~ Holds(u) /\ (Active(u)' <=> Active(u))
  BY <1>2, <1>3, EngineAssumption DEF IInv, LockKept, Active
<1>6. LockKept'
  BY <1>2, <1>3, <1>5 DEF LockKept, Holds
<1>7. ElemOwned'
  BY <1>1, <1>2, <1>3 DEF IInv, ElemOwned, MediaPlaces
<1>8. UseKept'
  BY <1>2, <1>3, <1>5 DEF IInv, UseKept, Active
<1> QED
  BY <1>3, <1>4, <1>5, <1>6, <1>7, <1>8 DEF IInv, OneThread, ClaimKept, WordKept

(* Under the lock: the claim is gone, the word goes, and no claim comes. *)
LEMMA GiveBackStep ==
  ASSUME IInv, NEW t \in Threads, Clear(t) \/ FreeElem(t) PROVE IInv'
<1>1. PICK from \in {"clear", "list_clear", "free"}, to \in {"free", "unlock"} :
        Goes(t, from, to) /\ (to = "free" => from = "clear" /\ playing'.elem = playing.elem)
  BY DEF Clear, FreeElem, IInv, TypeOK
<1>2. /\ thr[t] = from /\ thr'[t] = to
      /\ \A u \in Threads : u # t => thr'[u] = thr[u]
  BY <1>1, GoesShape
<1>3. UNCHANGED <<current, lock, shell, library, dead>>
  BY DEF Clear, FreeElem
<1>4. \A u \in Threads : u # t => ~ Active(u)' /\ ~ Active(u)
  BY <1>1, <1>2 DEF IInv, OneThread, Active
<1>5. TypeOK'
  <2>1. to \in Places
    BY DEF Places, MediaPlaces, ListPlaces
  <2>2. playing' \in [in_use : BOOLEAN, lib : Pointers, plist : Pointers,
                      elem : Words \cup {NoElem, Freed}]
    BY DEF IInv, TypeOK, Clear, FreeElem
  <2> QED
    BY <1>1, <1>3, <2>1, <2>2, GoesTyped DEF IInv, TypeOK
<1>6. LockKept'
  BY <1>1, <1>2, <1>3 DEF IInv, LockKept, Holds
<1>7. ElemOwned'
  BY <1>1, <1>2, <1>4 DEF IInv, ElemOwned, MediaPlaces, Active
<1>8. UseKept'
  BY <1>2, <1>4 DEF UseKept
<1>9. OneThread'
  BY <1>4 DEF OneThread
<1>10. shell \notin {"spawn_media", "spawn_list"}
  BY <1>1, <1>2 DEF IInv, ClaimKept, Active
<1> QED
  BY <1>3, <1>5, <1>6, <1>7, <1>8, <1>9, <1>10 DEF IInv, ClaimKept, WordKept

LEMMA UnlockStep ==
  ASSUME IInv, NEW t \in Threads, Unlock(t) PROVE IInv'
<1>1. /\ thr[t] = "unlock" /\ thr'[t] = "done"
      /\ \A u \in Threads : u # t => thr'[u] = thr[u]
  BY GoesShape DEF Unlock
<1>2. lock' = Nobody /\ UNCHANGED <<current, playing, shell, library, dead>>
  BY DEF Unlock
<1>3. TypeOK'
  BY <1>2, GoesTyped DEF IInv, TypeOK, Unlock, Places
<1>4. \A u \in Threads : ~ Active(u)' /\ ~ Holds(u)'
  BY <1>1 DEF IInv, OneThread, Active, Holds
<1>5. \A u \in Threads : thr'[u] \notin MediaPlaces
  BY <1>4 DEF Active, MediaPlaces
<1>6. LockKept'
  BY <1>2, <1>4, EngineAssumption DEF LockKept
<1> QED
  BY <1>2, <1>3, <1>4, <1>5, <1>6
  DEF IInv, OneThread, ElemOwned, UseKept, ClaimKept, WordKept

LEMMA NextIInv == IInv /\ [Next]_vars => IInv'
<1> SUFFICES ASSUME IInv, [Next]_vars PROVE IInv'
  OBVIOUS
<1>1. CASE ShellStep
  BY <1>1, RegisterStep, ClaimStep, SpawnStep, ControlStep, LibraryStep DEF ShellStep
<1>2. ASSUME NEW t \in Threads, ThreadStep(t) PROVE IInv'
  BY <1>2, PlayStep, LockStep, GiveBackStep, UnlockStep DEF ThreadStep, Around
<1>3. CASE UNCHANGED vars
  <2>1. TypeOK'
    BY <1>3 DEF IInv, TypeOK, vars
  <2> QED
    BY <1>3, <2>1 DEF vars, IInv, OneThread, ElemOwned, LockKept, UseKept, ClaimKept, WordKept,
                      Holds, Active
<1> QED
  BY <1>1, <1>2, <1>3 DEF Next

LEMMA AlwaysIInv == Spec => []IInv
BY InitIInv, NextIInv, PTL DEF Spec

(* The type invariant, for any number of threads and any engines: nothing  *)
(* engine.c does takes playing, the threads or the shell out of range.     *)
THEOREM EngineTyped == Spec => []TypeOK
<1>1. IInv => TypeOK
  BY DEF IInv
<1> QED
  BY AlwaysIInv, <1>1, PTL

(* At most one thread plays, for any number of play commands: what         *)
(* engine.c claims over struct playing.                                    *)
THEOREM OneThreadAlways == Spec => []OneThread
<1>1. IInv => OneThread
  BY DEF IInv
<1> QED
  BY AlwaysIInv, <1>1, PTL

(* A thread that plays a medium finds its copy of the word in playing.elem *)
(* until it frees it, so that free() is called once for each strdup().     *)
THEOREM ElemOwnedAlways == Spec => []ElemOwned
<1>1. IInv => ElemOwned
  BY DEF IInv
<1> QED
  BY AlwaysIInv, <1>1, PTL
-----------------------------------------------------------------------------
(* What stands behind in_use. *)

ClaimAccounted ==
  playing.in_use =>
    \/ shell \in {"spawn_media", "spawn_list"}
    \/ \E t \in Threads : Active(t)
    \/ \A t \in Threads : thr[t] # "idle"

(* Threads start, and start once only. *)
LEMMA ThreadsOnward ==
  ASSUME IInv, NEW t \in Threads, ThreadStep(t)
  PROVE  /\ UNCHANGED shell
         /\ Active(t) /\ thr'[t] # "idle"
         /\ \A u \in Threads : u # t => thr'[u] = thr[u]
         /\ Active(t)' \/ (Unlock(t) /\ UNCHANGED playing)
<1>1. UNCHANGED shell /\ (Unlock(t) => UNCHANGED playing)
  BY DEF ThreadStep, Around, Start, BuildUri, NamePlaylist, Sleep, PlayVideo, PlayAudio,
         Passes, Lock, Clear, FreeElem, Unlock
<1> DEFINE From == Places \ {"idle", "done"}
           To == Places \ {"idle"}
<1>2. \/ UNCHANGED thr /\ thr[t] \in {"uri", "name"}
      \/ \E from \in From, to \in To : Goes(t, from, to) /\ (to = "done" => Unlock(t))
  BY DEF ThreadStep, Around, Start, BuildUri, NamePlaylist, Sleep, PlayVideo, PlayAudio,
         Passes, Lock, Clear, FreeElem, Unlock, Places, MediaPlaces, ListPlaces
<1>3. CASE UNCHANGED thr /\ thr[t] \in {"uri", "name"}
  BY <1>1, <1>3 DEF Active
<1>4. ASSUME NEW from \in From, NEW to \in To, Goes(t, from, to), to = "done" => Unlock(t)
      PROVE  /\ Active(t) /\ thr'[t] # "idle"
             /\ \A u \in Threads : u # t => thr'[u] = thr[u]
             /\ Active(t)' \/ Unlock(t)
  BY <1>4, GoesShape DEF Active
<1> QED
  BY <1>1, <1>2, <1>3, <1>4

(* A thread holds the lock from before it clears in_use until it is done:  *)
(* no claim comes between.                                                 *)
UseCleared == \A t \in Threads : thr[t] \in {"free", "unlock"} => ~ playing.in_use

LEMMA ShellOnward ==
  ASSUME IInv, ShellStep
  PROVE  \/ playing'.in_use = playing.in_use /\ UNCHANGED <<thr, lock>>
            /\ shell \notin {"spawn_media", "spawn_list"}
            /\ shell' \notin {"spawn_media", "spawn_list"}
         \/ Spawn
         \/ /\ \E w \in Words : PlayList(w) \/ PlayMedia(w)
            /\ playing'.in_use /\ UNCHANGED <<thr, lock, library>>
            /\ shell' \in {"spawn_media", "spawn_list"}
            /\ lock = Nobody /\ ~ playing.in_use
<1>1. playing \in [in_use : BOOLEAN, lib : Pointers, plist : Pointers,
                   elem : Words \cup {NoElem, Freed}]
  BY DEF IInv, TypeOK
<1>2. ASSUME NEW w \in Words, PlayList(w) \/ PlayMedia(w)
      PROVE  /\ playing'.in_use /\ UNCHANGED <<thr, lock, library>>
             /\ shell' \in {"spawn_media", "spawn_list"}
             /\ lock = Nobody /\ ~ playing.in_use
  BY <1>1, <1>2 DEF PlayList, PlayMedia, Claimable
<1>3. ASSUME \/ \E e \in Engines : Register(e)
             \/ \E c \in {"toggle", "stop"} : LookAtInUse(c)
             \/ CallControl
             \/ OpenLibrary \/ CloseLibrary \/ StartGrowing \/ EndGrowing
             \/ \E n \in Playlists : Remove(n)
      PROVE  /\ playing'.in_use = playing.in_use /\ UNCHANGED <<thr, lock>>
             /\ shell \notin {"spawn_media", "spawn_list"}
             /\ shell' \notin {"spawn_media", "spawn_list"}
  BY <1>1, <1>3 DEF Register, LookAtInUse, CallControl, OpenLibrary, CloseLibrary,
                    StartGrowing, EndGrowing, Remove
<1> QED
  BY <1>2, <1>3 DEF ShellStep

LEMMA NextAccounted ==
  ASSUME IInv, UseCleared, ClaimAccounted, [Next]_vars
  PROVE  UseCleared' /\ ClaimAccounted'
<1>1. thr \in [Threads -> Places] /\ LockKept
  BY DEF IInv, TypeOK
<1>2. CASE Spawn
  <2>1. /\ playing' = playing /\ playing.in_use
        /\ \A t \in Threads : ~ Active(t)
    BY <1>2 DEF Spawn, IInv, ClaimKept
  <2>2. \/ \E t \in Threads : thr'[t] \in {"start", "name"}
        \/ UNCHANGED thr /\ \A t \in Threads : thr[t] # "idle"
    BY <1>1, <1>2 DEF Spawn
  <2>3. \A t \in Threads : thr'[t] \in {"idle", "done", "start", "name"}
    BY <1>1, <1>2, <2>1 DEF Spawn, Active
  <2> QED
    BY <2>2, <2>3 DEF UseCleared, ClaimAccounted, Active
<1>3. CASE ShellStep /\ ~ Spawn
  <2>1. CASE playing'.in_use = playing.in_use /\ UNCHANGED thr
             /\ shell \notin {"spawn_media", "spawn_list"}
    BY <2>1 DEF UseCleared, ClaimAccounted, Active
  <2>2. CASE /\ playing'.in_use /\ UNCHANGED thr /\ lock = Nobody
             /\ shell' \in {"spawn_media", "spawn_list"}
    BY <1>1, <2>2, EngineAssumption DEF UseCleared, ClaimAccounted, LockKept, Holds
  <2> QED
    BY <1>3, <2>1, <2>2, ShellOnward
<1>4. ASSUME NEW t \in Threads, ThreadStep(t) PROVE UseCleared' /\ ClaimAccounted'
  <2>1. /\ UNCHANGED shell
        /\ Active(t) /\ thr'[t] # "idle"
        /\ \A u \in Threads : u # t => thr'[u] = thr[u]
        /\ Active(t)' \/ (Unlock(t) /\ UNCHANGED playing)
    BY <1>4, ThreadsOnward
  <2>2. \A u \in Threads : u # t => ~ Active(u) /\ ~ Active(u)'
    BY <2>1 DEF IInv, OneThread, Active
  <2>3. thr'[t] \in {"free", "unlock"} => ~ playing'.in_use
    <3>1. CASE Clear(t)
      BY <3>1 DEF Clear, IInv, TypeOK
    <3>2. CASE FreeElem(t)
      BY <3>2 DEF FreeElem, Goes, UseCleared, IInv, TypeOK
    <3>3. CASE ThreadStep(t) /\ ~ Clear(t) /\ ~ FreeElem(t)
      BY <1>1, <3>3 DEF UseCleared, ThreadStep, Around, Start, BuildUri, NamePlaylist, Sleep,
                        PlayVideo, PlayAudio, Passes, Goes, Lock, Unlock
    <3> QED
      BY <1>4, <3>1, <3>2, <3>3
  <2>4. UseCleared'
    BY <2>2, <2>3 DEF UseCleared, Active
  <2>5. ClaimAccounted'
    <3>1. CASE Active(t)'
      BY <3>1 DEF ClaimAccounted
    <3>2. CASE Unlock(t) /\ UNCHANGED playing
      BY <3>2 DEF Unlock, Goes, UseCleared, ClaimAccounted
    <3> QED
      BY <2>1, <3>1, <3>2
  <2> QED
    BY <2>4, <2>5
<1>5. CASE UNCHANGED vars
  BY <1>5 DEF vars, UseCleared, ClaimAccounted, Active
<1> QED
  BY <1>2, <1>3, <1>4, <1>5 DEF Next

(* in_use stays set only for a thread that is there or about to be: the    *)
(* one way to lose the claim for good is that pthread_create() fails, and  *)
(* as long as there are threads to create, a play with nothing playing is  *)
(* accepted.                                                               *)
THEOREM ClaimAccountedAlways == Spec => []ClaimAccounted
<1>1. Init => UseCleared /\ ClaimAccounted
  BY DEF Init, UseCleared, ClaimAccounted
<1>2. IInv /\ UseCleared /\ ClaimAccounted /\ [Next]_vars => (UseCleared /\ ClaimAccounted)'
  BY NextAccounted
<1> QED
  BY AlwaysIInv, <1>1, <1>2, PTL DEF Spec

-----------------------------------------------------------------------------
(* What brings a thread to its end: it goes on and never back, and the     *)
(* lock is free when it comes to it, since whoever else wants it is the    *)
(* shell, which lets go of it before anything else happens.                *)
LockFree == \A t \in Threads : thr[t] \in {"lock", "list_lock"} => lock = Nobody
Onwards ==
  {<<"idle", "start">>, <<"start", "uri">>, <<"start", "lock">>, <<"uri", "video">>,
   <<"video", "audio">>, <<"video", "lock">>, <<"audio", "lock">>, <<"lock", "clear">>,
   <<"clear", "free">>, <<"free", "unlock">>, <<"unlock", "done">>, <<"idle", "name">>,
   <<"name", "sleep">>, <<"sleep", "list_lock">>, <<"list_lock", "list_clear">>,
   <<"list_clear", "unlock">>}
Advance == \A t \in Threads : thr'[t] = thr[t] \/ <<thr[t], thr'[t]>> \in Onwards

LEMMA LockIsFree == IInv => LockFree
BY EngineAssumption DEF IInv, TypeOK, OneThread, LockKept, LockFree, Active, Holds

LEMMA NextAdvances ==
  ASSUME IInv, Next
  PROVE  Advance
<1>1. thr \in [Threads -> Places]
  BY DEF IInv, TypeOK
<1>2. CASE Spawn
  BY <1>1, <1>2 DEF Spawn, Advance, Onwards
<1>3. CASE ShellStep /\ ~ Spawn
  BY <1>3, ShellOnward DEF Advance
<1>4. ASSUME NEW t \in Threads, ThreadStep(t) PROVE Advance
  <2>1. \A u \in Threads : u # t => thr'[u] = thr[u]
    BY <1>4, ThreadsOnward
  <2>2. thr'[t] = thr[t] \/ <<thr[t], thr'[t]>> \in Onwards
    <3>1. \/ UNCHANGED thr
          \/ \E from \in Places, to \in Places :
               Goes(t, from, to) /\ <<from, to>> \in Onwards
      BY <1>4
      DEF ThreadStep, Around, Start, BuildUri, NamePlaylist, Sleep, PlayVideo, PlayAudio,
          Passes, Lock, Clear, FreeElem, Unlock, Onwards, Places, MediaPlaces, ListPlaces
    <3>2. ASSUME NEW from \in Places, NEW to \in Places,
                 Goes(t, from, to), <<from, to>> \in Onwards
          PROVE  <<thr[t], thr'[t]>> \in Onwards
      BY <3>2, GoesShape
    <3> QED
      BY <3>1, <3>2
  <2> QED
    BY <2>1, <2>2 DEF Advance
<1> QED
  BY <1>2, <1>3, <1>4 DEF Next

(* The part of ThreadsEnd that is not fairness: no step takes a thread     *)
(* anywhere but towards its end, and none has to wait for the lock.        *)
THEOREM ThreadsAdvance == Spec => []LockFree /\ [][Advance]_vars
<1>1. IInv /\ [Next]_vars => [Advance]_vars
  BY NextAdvances
<1> QED
  BY AlwaysIInv, LockIsFree, <1>1, PTL DEF Spec

-----------------------------------------------------------------------------
(* What is played while nobody closes or changes its library.              *)
Steady ==
  /\ playing.in_use => library.st = "open" /\ playing.lib = "live"
  /\ shell = "growing" => ~ playing.in_use
  /\ shell = "spawn_list" \/ (\E t \in Threads : thr[t] = "name") => playing.plist = "live"

LEMMA NextSteady ==
  ASSUME Acts = {}, IInv, Steady, [Next]_vars
  PROVE  Steady'
<1>1. /\ thr \in [Threads -> Places]
      /\ playing \in [in_use : BOOLEAN, lib : Pointers, plist : Pointers,
                      elem : Words \cup {NoElem, Freed}]
      /\ library \in [st : {"open", "closed", "unmapped"}, lists : SUBSET Playlists]
  BY DEF IInv, TypeOK
<1>2. /\ \A t \in Threads : thr[t] = "name" => playing.in_use
      /\ shell = "spawn_list" => playing.in_use
  BY DEF IInv, UseKept, ClaimKept, Active
<1>3. ASSUME NEW w \in Words, PlayList(w) \/ PlayMedia(w) PROVE Steady'
  <2>1. \A t \in Threads : thr'[t] # "name"
    BY <1>3, ClaimFree DEF PlayList, PlayMedia, Active
  <2> QED
    BY <1>1, <1>3, <2>1 DEF PlayList, PlayMedia, Steady
<1>4. CASE Spawn
  <2>1. \A t \in Threads : thr'[t] = "name" => thr[t] = "name" \/ shell = "spawn_list"
    BY <1>1, <1>4 DEF Spawn
  <2> QED
    BY <1>4, <2>1 DEF Spawn, Steady
<1>5. CASE \/ \E e \in Engines : Register(e)
           \/ \E c \in {"toggle", "stop"} : LookAtInUse(c)
           \/ CallControl \/ OpenLibrary
  BY <1>1, <1>5 DEF Register, LookAtInUse, CallControl, OpenLibrary, Steady
<1>6. CASE CloseLibrary \/ StartGrowing \/ EndGrowing \/ \E n \in Playlists : Remove(n)
  <2>1. ~ playing.in_use /\ ~ playing'.in_use /\ UNCHANGED thr /\ shell' # "spawn_list"
    BY <1>1, <1>6 DEF CloseLibrary, StartGrowing, EndGrowing, Remove, Steady
  <2> QED
    BY <1>2, <2>1 DEF Steady
<1>7. ASSUME NEW t \in Threads, ThreadStep(t) PROVE Steady'
  <2>1. /\ UNCHANGED <<shell, library>>
        /\ playing' \in {playing, [playing EXCEPT !.in_use = FALSE],
                         [playing EXCEPT !.elem = Freed]}
    BY <1>7
    DEF ThreadStep, Around, Start, BuildUri, NamePlaylist, Sleep, PlayVideo, PlayAudio,
        Passes, Lock, Clear, FreeElem, Unlock
  <2>2. \A u \in Threads : thr'[u] = "name" => thr[u] = "name"
    BY <1>1, <1>7
    DEF ThreadStep, Around, Start, BuildUri, NamePlaylist, Sleep, PlayVideo, PlayAudio,
        Passes, Goes, Lock, Clear, FreeElem, Unlock
  <2> QED
    BY <1>1, <2>1, <2>2 DEF Steady
<1>8. CASE UNCHANGED vars
  BY <1>8 DEF vars, Steady
<1> QED
  BY <1>3, <1>4, <1>5, <1>6, <1>7, <1>8 DEF Next, ShellStep

(* What a playing thread reads of its library is there, if the library is  *)
(* neither closed nor changed while something plays: those two kinds of    *)
(* command, and no order of the others, are what the reads can fall over.  *)
THEOREM ReadsLiveUnlessDisturbed == ASSUME Acts = {} PROVE Spec => []ReadsLive
<1>1. Init => Steady
  BY DEF Init, Steady
<1>2. IInv /\ Steady /\ [Next]_vars => Steady'
  BY NextSteady
<1>3. IInv /\ Steady => ReadsLive
  BY DEF IInv, UseKept, Active, Steady, ReadsLive, Unsafe
<1> QED
  BY AlwaysIInv, <1>1, <1>2, <1>3, PTL DEF Spec
=============================================================================

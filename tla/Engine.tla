------------------------------- MODULE Engine -------------------------------
(***************************************************************************)
(* engine.c: one medium or playlist plays at a time, in a thread of its    *)
(* own, while the shell goes on running commands, those that close or      *)
(* rearrange the library included.                                         *)
(*                                                                         *)
(* The shell and the playing thread share struct playing.  Its lock is     *)
(* taken by the shell to claim it, which is one action because nothing     *)
(* outside the lock sees its middle, and by a thread to give it back,      *)
(* which is four, because pause and stop read in_use without the lock.     *)
(* What an engine does while it plays is left open here; see MplayerEngine.*)
(***************************************************************************)
EXTENDS Naturals

CONSTANTS
  Threads,    \* threads a process may create; those that end are never joined
  Playlists,  \* names a playlist may have
  Paths,      \* other words that may be typed after play <lib>
  Engines,    \* engines that modules register
  NoEngine, Nobody, NoElem, Freed,
  Acts        \* done while something plays: "close", "change"

Words == Playlists \cup Paths
Media == {"audio", "video"}
EngineTypes == [caps : SUBSET Media, plays : SUBSET Media, controls : SUBSET {"toggle", "stop"}]

ASSUME EngineAssumption ==
  /\ Engines \subseteq EngineTypes /\ NoEngine \notin EngineTypes
  /\ Nobody \notin Threads
  /\ {NoElem, Freed} \cap Words = {} /\ NoElem # Freed
  /\ Acts \subseteq {"close", "change"}

VARIABLES
  current,  \* the engine in use
  playing,  \* struct mlib_thread_args playing, without its lock
  lock,     \* the thread that holds playing.lock
  thr,      \* where each thread is
  shell,    \* where the command being run is
  library,  \* the library that is played from
  dead      \* a signal has ended the process

vars == <<current, playing, lock, thr, shell, library, dead>>

Pointers == {"null", "live", "stale"}
MediaPlaces == {"start", "uri", "video", "audio", "lock", "clear", "free"}
ListPlaces == {"name", "sleep", "list_lock", "list_clear"}
Places == {"idle", "done", "unlock"} \cup MediaPlaces \cup ListPlaces
Commands == {"prompt", "spawn_media", "spawn_list", "toggle", "stop", "growing"}

Init ==
  /\ current = NoEngine
  /\ playing = [in_use |-> FALSE, lib |-> "null", plist |-> "null", elem |-> NoElem]
  /\ lock = Nobody
  /\ thr = [t \in Threads |-> "idle"]
  /\ shell = "prompt"
  /\ library = [st |-> "closed", lists |-> {}]
  /\ dead = FALSE

-----------------------------------------------------------------------------
(* The shell. *)

(* mlib_engine_register(), as a module that is loaded calls it:            *)
(* capabilities without a function are dropped, an engine with none left   *)
(* is ignored, and the first one registered stays the current one.  The    *)
(* others are only listed by the engines command.                          *)
(* Mutant: the capabilities are taken as they are reported.                *)
BackedMutant(e) == e
Backed(e) == [e EXCEPT !.caps = @ \cap e.plays]
Register(e) ==
  /\ shell = "prompt"
  /\ Backed(e).caps # {} /\ current = NoEngine
  /\ current' = Backed(e)
  /\ UNCHANGED <<playing, lock, thr, shell, library, dead>>

(* play: a word that names a playlist plays that, any other plays itself.  *)
(* The word is not looked for in the library.                              *)
(* Mutants: in_use is not looked at; the lock is not taken.                *)
ClaimableAlways == lock = Nobody
ClaimableUnlocked == ~ playing.in_use
Claimable == lock = Nobody /\ ~ playing.in_use
PlayList(w) ==
  /\ shell = "prompt" /\ library.st = "open" /\ w \in library.lists
  /\ Claimable
  /\ playing' = [playing EXCEPT !.in_use = TRUE, !.lib = "live", !.plist = "live"]
  /\ shell' = "spawn_list"
  /\ UNCHANGED <<current, lock, thr, library, dead>>
PlayMedia(w) ==
  /\ shell = "prompt" /\ library.st = "open" /\ w \notin library.lists
  /\ Claimable
  /\ playing' = [playing EXCEPT !.in_use = TRUE, !.lib = "live", !.elem = w]
  /\ shell' = "spawn_media"
  /\ UNCHANGED <<current, lock, thr, library, dead>>

(* pthread_create(), with in_use set already. *)
Spawn ==
  /\ shell \in {"spawn_media", "spawn_list"}
  /\ \/ \E t \in Threads :
          /\ thr[t] = "idle"
          /\ thr' = [thr EXCEPT ![t] = IF shell = "spawn_media" THEN "start" ELSE "name"]
     \/ /\ \A t \in Threads : thr[t] # "idle"
        /\ UNCHANGED thr
  /\ shell' = "prompt"
  /\ UNCHANGED <<current, playing, lock, library, dead>>

(* pause and stop look at in_use, then call the engine: two steps.  The    *)
(* call may end the process.                                               *)
LookAtInUse(c) ==
  /\ shell = "prompt"
  /\ current # NoEngine /\ c \in current.controls /\ playing.in_use
  /\ shell' = c
  /\ UNCHANGED <<current, playing, lock, thr, library, dead>>
CallControl ==
  /\ shell \in {"toggle", "stop"}
  /\ shell' = "prompt" /\ dead' \in BOOLEAN
  /\ UNCHANGED <<current, playing, lock, thr, library>>

(* Library commands, as far as playing can tell them apart.  Closing frees *)
(* the struct and unmaps the file; growing unmaps it and maps it again,    *)
(* elsewhere perhaps; growing and removing may move a playlist's bytes.    *)
Aged(ptr) == IF ptr = "live" THEN "stale" ELSE ptr
OpenLibrary ==
  /\ shell = "prompt" /\ library.st = "closed"
  /\ \E S \in SUBSET Playlists : library' = [st |-> "open", lists |-> S]
  /\ UNCHANGED <<current, playing, lock, thr, shell, dead>>
CloseLibrary ==
  /\ shell = "prompt" /\ library.st = "open"
  /\ playing.in_use => "close" \in Acts
  /\ library' = [st |-> "closed", lists |-> {}]
  /\ playing' = [playing EXCEPT !.lib = Aged(@), !.plist = Aged(@)]
  /\ UNCHANGED <<current, lock, thr, shell, dead>>
StartGrowing ==
  /\ shell = "prompt" /\ library.st = "open"
  /\ playing.in_use => "change" \in Acts
  /\ shell' = "growing" /\ library' = [library EXCEPT !.st = "unmapped"]
  /\ UNCHANGED <<current, playing, lock, thr, dead>>
EndGrowing ==
  /\ shell = "growing"
  /\ \E S \in {library.lists} \cup {library.lists \cup {n} : n \in Playlists} :
       library' = [st |-> "open", lists |-> S]
  /\ playing' \in {playing, [playing EXCEPT !.plist = Aged(@)]}
  /\ shell' = "prompt"
  /\ UNCHANGED <<current, lock, thr, dead>>
Remove(n) ==
  /\ shell = "prompt" /\ library.st = "open" /\ n \in library.lists
  /\ playing.in_use => "change" \in Acts
  /\ library' = [library EXCEPT !.lists = @ \ {n}]
  /\ playing' \in {playing, [playing EXCEPT !.plist = Aged(@)]}
  /\ UNCHANGED <<current, lock, thr, shell, dead>>

-----------------------------------------------------------------------------
(* The playing threads. *)

Goes(t, from, to) == thr[t] = from /\ thr' = [thr EXCEPT ![t] = to]

(* __mlib_play_media() gives up without an engine. *)
Start(t) ==
  /\ Goes(t, "start", IF current = NoEngine THEN "lock" ELSE "uri")
  /\ UNCHANGED <<current, playing, lock, shell, library, dead>>

(* Reading through a pointer that is not live, or from an unmapped         *)
(* library, may end the process, or may go on as if nothing were wrong.    *)
(* The same holds for strcat() to the memory of the uri, which malloc()    *)
(* has not cleared.                                                        *)
Unsafe(ptr) == ptr # "live" \/ library.st = "unmapped"
Passes(t, from, to, safe) ==
  /\ \/ Goes(t, from, to) /\ UNCHANGED dead
     \/ thr[t] = from /\ ~ safe /\ dead' = TRUE /\ UNCHANGED thr
  /\ UNCHANGED <<current, playing, lock, shell, library>>
BuildUri(t) == Passes(t, "uri", "video", FALSE)
NamePlaylist(t) == Passes(t, "name", "sleep", ~ Unsafe(playing.plist))
Sleep(t) ==
  /\ Goes(t, "sleep", "list_lock")
  /\ UNCHANGED <<current, playing, lock, shell, library, dead>>

(* Every type is guessed unknown, and so is played as video first.  That   *)
(* the engine's function fails, or there is none, leads to audio, where    *)
(* the capability is looked at but nothing is called.                      *)
Able(m) == m \in current.caps \cap current.plays
PlayVideo(t) ==
  /\ \/ Goes(t, "video", "audio")
     \/ Goes(t, "video", "lock") /\ Able("video")
  /\ UNCHANGED <<current, playing, lock, shell, library, dead>>
PlayAudio(t) ==
  /\ Goes(t, "audio", "lock")
  /\ UNCHANGED <<current, playing, lock, shell, library, dead>>

Lock(t) ==
  /\ lock = Nobody /\ lock' = t
  /\ Goes(t, "lock", "clear") \/ Goes(t, "list_lock", "list_clear")
  /\ UNCHANGED <<current, playing, shell, library, dead>>
Clear(t) ==
  /\ Goes(t, "clear", "free") \/ Goes(t, "list_clear", "unlock")
  /\ playing' = [playing EXCEPT !.in_use = FALSE]
  /\ UNCHANGED <<current, lock, shell, library, dead>>
FreeElem(t) ==
  /\ Goes(t, "free", "unlock")
  /\ playing' = [playing EXCEPT !.elem = Freed]
  /\ UNCHANGED <<current, lock, shell, library, dead>>
(* Mutant: a playing thread returns without giving the lock back. *)
UnlockMutant(t) ==
  /\ Goes(t, "unlock", "done")
  /\ UNCHANGED <<current, playing, lock, shell, library, dead>>
Unlock(t) ==
  /\ Goes(t, "unlock", "done")
  /\ lock' = Nobody
  /\ UNCHANGED <<current, playing, shell, library, dead>>

-----------------------------------------------------------------------------
ShellStep ==
  /\ ~ dead
  /\ \/ \E e \in Engines : Register(e)
     \/ \E w \in Words : PlayList(w) \/ PlayMedia(w)
     \/ Spawn
     \/ \E c \in {"toggle", "stop"} : LookAtInUse(c)
     \/ CallControl
     \/ OpenLibrary \/ CloseLibrary \/ StartGrowing \/ EndGrowing
     \/ \E n \in Playlists : Remove(n)
Around(t) == \/ Start(t) \/ BuildUri(t) \/ NamePlaylist(t) \/ Sleep(t) \/ PlayAudio(t)
             \/ Lock(t) \/ Clear(t) \/ FreeElem(t) \/ Unlock(t)
ThreadStep(t) == ~ dead /\ (Around(t) \/ PlayVideo(t))

Next == ShellStep \/ \E t \in Threads : ThreadStep(t)
Spec == Init /\ [][Next]_vars

(* Threads are scheduled by the kernel, and a medium comes to its end. *)
FairSpec == Spec /\ \A t \in Threads : WF_vars(ThreadStep(t))

-----------------------------------------------------------------------------
(* The type invariant.  The engine in use has a capability, and a function *)
(* for each it has.                                                        *)
TypeOK ==
  /\ current \in {NoEngine} \cup {e \in EngineTypes : e.caps # {} /\ e.caps \subseteq e.plays}
  /\ playing \in [in_use : BOOLEAN, lib : Pointers, plist : Pointers,
                  elem : Words \cup {NoElem, Freed}]
  /\ lock \in Threads \cup {Nobody}
  /\ thr \in [Threads -> Places]
  /\ shell \in Commands
  /\ library \in [st : {"open", "closed", "unmapped"}, lists : SUBSET Playlists]
  /\ dead \in BOOLEAN

(* "Only one media stream should ever be active": never are two threads    *)
(* between their creation and their unlocking of playing, whatever play    *)
(* commands come while one ends.                                           *)
Active(t) == thr[t] \notin {"idle", "done"}
OneThread == \A t, u \in Threads : Active(t) /\ Active(u) => t = u

(* A thread that plays a medium has its own copy of the word until it      *)
(* frees it itself: no other thread frees it, it is not freed twice, and   *)
(* no claim overwrites it, which would lose it.                            *)
ElemOwned == \A t \in Threads : thr[t] \in MediaPlaces => playing.elem \in Words

(* Every thread that was created comes to its end and leaves the way free, *)
(* unless the process ends: the next play is accepted, and does not hang.  *)
ThreadsEnd ==
  \A t \in Threads :
    Active(t) ~> dead \/ (thr[t] = "done" /\ lock = Nobody /\ ~ playing.in_use)

(* What a thread reads of the library is there when it reads it.           *)
ReadsLive ==
  \A t \in Threads : /\ thr[t] = "uri" => ~ Unsafe(playing.lib)
                     /\ thr[t] = "name" => ~ Unsafe(playing.plist)
=============================================================================

---------------------------- MODULE MplayerEngine ---------------------------
(***************************************************************************)
(* mplayer_engine.c under engine.c: what the thread does inside the        *)
(* engine's play function, what pause and stop do to the player, and the   *)
(* descriptors of the process, which players and libraries share.          *)
(*                                                                         *)
(* The child is forked with a pipe for commands.  It swaps the arguments   *)
(* of dup2(), so that from then on nobody can read the pipe.               *)
(***************************************************************************)
EXTENDS Engine, FiniteSetsExt

CONSTANTS
  Fds,      \* descriptors the process may have beyond the standard ones
  ForkFails \* whether fork() may fail

ASSUME FdsAssumption ==
  Fds \subseteq Nat \ {0} /\ IsFiniteSet(Fds) /\ ForkFails \in BOOLEAN

VARIABLES
  fds,    \* what each descriptor is
  libfd,  \* the library's
  wfd,    \* mplayer_write_fd
  io_pipe, \* the ends of the pipe each thread has made: to read, to write
  child,  \* the player process
  spoilt  \* a command meant for a player was written into a library's file

pvars == <<fds, libfd, wfd, io_pipe, child, spoilt>>
mvars == <<current, playing, lock, thr, shell, library, dead,
           fds, libfd, wfd, io_pipe, child, spoilt>>

None == 0  \* no descriptor: the standard ones are never handed out
(* "read" is the parent's reading end of a new pipe; a writing end that     *)
(* somebody can read from is a "pipe", and "broken" when nobody can.       *)
FdKinds == {"free", "lib", "other", "read", "pipe", "broken", "lost"}
Inner == {"fork", "shut", "assign", "wait", "close"}
ChildStates == {"none", "starting", "running", "exited", "failed"}

MInit == /\ Init
         /\ fds = [f \in Fds |-> "free"] /\ libfd = None /\ wfd = None
         /\ io_pipe = [t \in Threads |-> <<None, None>>]
         /\ child = "none" /\ spoilt = FALSE

(* The kernel hands out the lowest free descriptor. *)
Free == {f \in Fds : fds[f] = "free"}
Room(n) == Cardinality(Free) >= n
Lowest == Min(Free)
Second == Min(Free \ {Lowest})

-----------------------------------------------------------------------------
(* The shell: an open library has a descriptor, and so have the libraries  *)
(* that are open besides the one that is played from ("other").            *)
OpenFd ==
  /\ OpenLibrary
  /\ Room(1) /\ libfd' = Lowest
  /\ fds' = [fds EXCEPT ![Lowest] = "lib"]
  /\ UNCHANGED <<wfd, io_pipe, child, spoilt>>
(* Mutant: the library goes, its descriptor stays. *)
CloseFdMutant == CloseLibrary /\ UNCHANGED pvars
CloseFd ==
  /\ CloseLibrary
  /\ fds' = [fds EXCEPT ![libfd] = "free"] /\ libfd' = None
  /\ UNCHANGED <<wfd, io_pipe, child, spoilt>>
OpenOther ==
  /\ shell = "prompt" /\ Room(1)
  /\ fds' = [fds EXCEPT ![Lowest] = "other"]
  /\ UNCHANGED <<vars, libfd, wfd, io_pipe, child, spoilt>>
CloseOther(f) ==
  /\ shell = "prompt" /\ fds[f] = "other"
  /\ fds' = [fds EXCEPT ![f] = "free"]
  /\ UNCHANGED <<vars, libfd, wfd, io_pipe, child, spoilt>>

(* mplayer_pause() and mplayer_stop() write a byte to whatever             *)
(* mplayer_write_fd is now, and read it without a lock.  A pipe without    *)
(* reader ends the process by SIGPIPE.                                     *)
Target == IF wfd \in Fds THEN fds[wfd] ELSE "free"
Written ==
  /\ CallControl
  /\ dead' = (Target = "broken")
  /\ spoilt' = (spoilt \/ Target \in {"lib", "other"})
  /\ UNCHANGED <<libfd, wfd, io_pipe, child>>
(* Mutant: the pipe is closed as well, as if that would end the player. *)
WriteControlMutant ==
  /\ Written
  /\ fds' = [f \in Fds |-> IF f = wfd THEN "free" ELSE fds[f]]
WriteControl == Written /\ UNCHANGED fds

-----------------------------------------------------------------------------
(* mplayer_play_URI() in the playing thread.  What mplayer_exec() does     *)
(* before it returns is a step for each call, since the shell may write to *)
(* the old mplayer_write_fd between any two of them.                       *)
Within(t, from, to) ==
  /\ Goes(t, from, to)
  /\ UNCHANGED <<current, playing, lock, shell, library, dead, libfd, spoilt>>

Pipe(t) ==
  /\ Within(t, "video", "fork") /\ Able("video")
  /\ Room(2)
  /\ fds' = [fds EXCEPT ![Lowest] = "read", ![Second] = "pipe"]
  /\ io_pipe' = [io_pipe EXCEPT ![t] = <<Lowest, Second>>]
  /\ UNCHANGED <<wfd, child>>
NoPipe(t) ==
  /\ Within(t, "video", "audio") /\ Able("video")
  /\ ~ Room(2)
  /\ UNCHANGED <<fds, wfd, io_pipe, child>>

ReadEnd(t) == io_pipe[t][1]
WriteEnd(t) == io_pipe[t][2]

(* fork(), and both ends of the pipe stay open when it fails. *)
Fork(t) ==
  /\ Within(t, "fork", "shut")
  /\ child' = "starting"
  /\ UNCHANGED <<fds, wfd, io_pipe>>
NoFork(t) ==
  /\ Within(t, "fork", "audio") /\ ForkFails
  /\ fds' = [fds EXCEPT ![ReadEnd(t)] = "lost", ![WriteEnd(t)] = "lost"]
  /\ UNCHANGED <<wfd, io_pipe, child>>

(* The parent closes the reading end, which the child may have already     *)
(* lost to its dup2(), and only then says where pause and stop write to.   *)
CloseRead(t) ==
  /\ Within(t, "shut", "assign")
  /\ fds' = [fds EXCEPT ![ReadEnd(t)] = "free",
                        ![WriteEnd(t)] = IF child = "starting" THEN "pipe" ELSE "broken"]
  /\ UNCHANGED <<wfd, io_pipe, child>>
Assign(t) ==
  /\ Within(t, "assign", "wait")
  /\ wfd' = WriteEnd(t)
  /\ UNCHANGED <<fds, io_pipe, child>>

(* waitpid(), and the status; the pipe is closed if the player liked it. *)
(* Mutants: only a good status ends the wait; nothing is waited for. *)
ReapMutant(t) ==
  /\ child = "exited" /\ child' = "none"
  /\ Within(t, "wait", "close")
  /\ UNCHANGED <<fds, wfd, io_pipe>>
ReapNothing(t) ==
  /\ Within(t, "wait", "close")
  /\ UNCHANGED <<fds, wfd, io_pipe, child>>
Reap(t) ==
  /\ child' = "none"
  /\ \/ child = "exited" /\ Within(t, "wait", "close")
     \/ child = "failed" /\ Within(t, "wait", "audio")
  /\ UNCHANGED <<fds, wfd, io_pipe>>
ClosePipe(t) ==
  /\ Within(t, "close", "lock")
  /\ fds' = [fds EXCEPT ![wfd] = "free"]
  /\ UNCHANGED <<wfd, io_pipe, child>>

(* The player: dup2(), after which it does not read the pipe any more, and *)
(* execlp(), which may fail, and the end of the medium.                    *)
Deserted ==
  IF \E f \in Fds : fds[f] = "read" THEN fds
  ELSE [f \in Fds |-> IF fds[f] = "pipe" THEN "broken" ELSE fds[f]]
ChildStep ==
  /\ ~ dead
  /\ \/ child = "starting" /\ child' \in {"running", "failed"} /\ fds' = Deserted
     \/ child = "running" /\ child' \in {"exited", "failed"} /\ UNCHANGED fds
  /\ UNCHANGED <<vars, libfd, wfd, io_pipe, spoilt>>

-----------------------------------------------------------------------------
MShellStep ==
  /\ ~ dead
  /\ \/ /\ \/ \E e \in Engines : Register(e)
           \/ \E w \in Words : PlayList(w) \/ PlayMedia(w)
           \/ Spawn
           \/ \E c \in {"toggle", "stop"} : LookAtInUse(c)
           \/ StartGrowing \/ EndGrowing
           \/ \E n \in Playlists : Remove(n)
        /\ UNCHANGED pvars
     \/ WriteControl
     \/ OpenFd \/ CloseFd \/ OpenOther \/ \E f \in Fds : CloseOther(f)
MThreadStep(t) ==
  /\ ~ dead
  /\ \/ Around(t) /\ UNCHANGED pvars
     \/ Pipe(t) \/ NoPipe(t) \/ Fork(t) \/ NoFork(t) \/ CloseRead(t) \/ Assign(t)
     \/ Reap(t) \/ ClosePipe(t)

MNext == MShellStep \/ ChildStep \/ \E t \in Threads : MThreadStep(t)
MSpec == MInit /\ [][MNext]_mvars

(* Threads and the player are scheduled, and a medium comes to its end. *)
MFairSpec == MSpec /\ WF_mvars(ChildStep) /\ \A t \in Threads : WF_mvars(MThreadStep(t))

-----------------------------------------------------------------------------
(* The type invariant of what this module adds.  The library has a         *)
(* descriptor exactly as long as it is open.                               *)
MTypeOK == /\ fds \in [Fds -> FdKinds] /\ {libfd, wfd} \subseteq Fds \cup {None}
           /\ io_pipe \in [Threads -> (Fds \cup {None}) \X (Fds \cup {None})]
           /\ library.st = "closed" <=> libfd = None
           /\ child \in ChildStates /\ spoilt \in BOOLEAN

(* An open library keeps its descriptor: no player's end closes a number   *)
(* that has been handed out again.                                         *)
LibHeld == library.st # "closed" => fds[libfd] = "lib"

(* From mplayer_exec()'s return until the pipe is closed, mplayer_write_fd *)
(* is the very pipe that the thread has made, though every thread writes   *)
(* to the one variable.  (Not yet between fork() and the assignment: then  *)
(* there is a player already, and the variable is still the old number.)   *)
PipeHeld ==
  \A t \in Threads :
    thr[t] \in {"wait", "close"} => wfd = WriteEnd(t) /\ Target \in {"pipe", "broken"}

(* There is a player exactly as long as a thread is between its fork() and *)
(* its waitpid(): none is left running or a zombie when the next starts.   *)
Reaped == child # "none" <=> \E t \in Threads : thr[t] \in {"shut", "assign", "wait"}

(* With mplayer in it, engine.c still does what Engine says: mplayer's     *)
(* functions change nothing of the engine's, return, and only return.      *)
Inside(t) == thr[t] \in Inner
OuterThr == [t \in Threads |-> IF Inside(t) THEN "video" ELSE thr[t]]
Outer == INSTANCE Engine WITH thr <- OuterThr
ImplementsEngine == Outer!FairSpec

(* What pause and stop write goes to a player, never into a library.       *)
LibraryUntouched == ~ spoilt
=============================================================================

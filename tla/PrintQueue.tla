----------------------------- MODULE PrintQueue -----------------------------
(***************************************************************************)
(* core.c: the messages that playing threads, and commands, leave for the  *)
(* shell to print.  mlib_queue_printf() makes the text first and then      *)
(* links it at the tail under mlib_queue_mutex; mlib_empty_print_queue(),  *)
(* which only the shell's thread calls, holds the mutex for all of its     *)
(* loop.  Linking is two steps, as __list_add() is: where the tail is, and *)
(* the stores that put the message behind it.                              *)
(***************************************************************************)
EXTENDS Naturals, Sequences

CONSTANTS
  Threads,  \* all threads, the shell's among them
  Main,     \* the shell's
  NoThread, \* holder of a free mutex
  MaxMsgs   \* bound: calls of mlib_queue_printf() by one thread

ASSUME ThreadsAssumption ==
  Main \in Threads /\ NoThread \notin Threads /\ MaxMsgs \in Nat

VARIABLES
  queue,    \* mlib_print_queue
  mutex,    \* the thread that holds mlib_queue_mutex
  at,       \* where each thread is
  seen,     \* the list as a thread that is linking found it
  made,     \* calls each thread has made
  given,    \* messages whose call returned zero
  printed   \* what the shell has printed, in order

qvars == <<queue, mutex, at, seen, made, given, printed>>

Msg == [by : Threads, no : Nat]
QPlaces == {"none", "idle", "text", "link", "flush"}

QInit ==
  /\ queue = <<>> /\ mutex = NoThread
  /\ at = [t \in Threads |-> IF t = Main THEN "idle" ELSE "none"]
  /\ seen = [t \in Threads |-> <<>>]
  /\ made = [t \in Threads |-> 0]
  /\ given = {} /\ printed = <<>>

(* A playing thread comes and goes. *)
Begin(t) ==
  /\ at[t] = "none" /\ at' = [at EXCEPT ![t] = "idle"]
  /\ UNCHANGED <<queue, mutex, seen, made, given, printed>>
Finish(t) ==
  /\ t # Main
  /\ at[t] = "idle" /\ at' = [at EXCEPT ![t] = "none"]
  /\ UNCHANGED <<queue, mutex, seen, made, given, printed>>

-----------------------------------------------------------------------------
(* mlib_queue_printf(): the text is made without the mutex, and when there *)
(* is no memory for it the message is gone and the caller is told.         *)
Called(t) == at[t] = "idle" /\ made[t] < MaxMsgs /\ made' = [made EXCEPT ![t] = @ + 1]
Format(t) ==
  /\ Called(t)
  /\ at' = [at EXCEPT ![t] = "text"]
  /\ UNCHANGED <<queue, mutex, seen, given, printed>>
NoMemory(t) ==
  /\ Called(t)
  /\ UNCHANGED <<queue, mutex, at, seen, given, printed>>

(* Mutant: the message is linked without the mutex. *)
LockQueueMutant(t) ==
  /\ at[t] = "text"
  /\ at' = [at EXCEPT ![t] = "link"] /\ seen' = [seen EXCEPT ![t] = queue]
  /\ UNCHANGED <<queue, mutex, made, given, printed>>
LockQueue(t) ==
  /\ at[t] = "text" /\ mutex = NoThread
  /\ mutex' = t
  /\ at' = [at EXCEPT ![t] = "link"] /\ seen' = [seen EXCEPT ![t] = queue]
  /\ UNCHANGED <<queue, made, given, printed>>

ThisMsg(t) == [by |-> t, no |-> made[t]]
(* Mutant: the mutex is not given back. *)
AddTailMutant(t) ==
  /\ at[t] = "link"
  /\ queue' = Append(seen[t], ThisMsg(t))
  /\ given' = given \cup {ThisMsg(t)}
  /\ at' = [at EXCEPT ![t] = "idle"]
  /\ UNCHANGED <<mutex, seen, made, printed>>
AddTail(t) ==
  /\ at[t] = "link"
  /\ queue' = Append(seen[t], ThisMsg(t))
  /\ given' = given \cup {ThisMsg(t)}
  /\ mutex' = NoThread
  /\ at' = [at EXCEPT ![t] = "idle"]
  /\ UNCHANGED <<seen, made, printed>>

-----------------------------------------------------------------------------
(* mlib_empty_print_queue() *)
StartFlush ==
  /\ at[Main] = "idle" /\ mutex = NoThread
  /\ mutex' = Main
  /\ at' = [at EXCEPT ![Main] = "flush"]
  /\ UNCHANGED <<queue, seen, made, given, printed>>
PrintHead ==
  /\ at[Main] = "flush" /\ queue # <<>>
  /\ printed' = Append(printed, Head(queue)) /\ queue' = Tail(queue)
  /\ UNCHANGED <<mutex, at, seen, made, given>>
EndFlush ==
  /\ at[Main] = "flush" /\ queue = <<>>
  /\ mutex' = NoThread
  /\ at' = [at EXCEPT ![Main] = "idle"]
  /\ UNCHANGED <<queue, seen, made, given, printed>>

Queueing(t) == Format(t) \/ NoMemory(t) \/ LockQueue(t) \/ AddTail(t)
QNext == \/ \E t \in Threads : Begin(t) \/ Finish(t) \/ Queueing(t)
         \/ StartFlush \/ PrintHead \/ EndFlush
QSpec == QInit /\ [][QNext]_qvars

-----------------------------------------------------------------------------
(* The type invariant of the queue. *)
QTypeOK ==
  /\ queue \in Seq(Msg) /\ printed \in Seq(Msg)
  /\ mutex \in Threads \cup {NoThread}
  /\ at \in [Threads -> QPlaces]
  /\ seen \in [Threads -> Seq(Msg)]
  /\ made \in [Threads -> Nat]
  /\ given \subseteq Msg

(* Every message whose call returned zero is printed or still queued, and  *)
(* once only, and those of one thread are in the order of its calls:       *)
(* nothing that threads and the shell do to the list at the same time      *)
(* loses, doubles or reorders one.                                         *)
Passed == printed \o queue
EachOnce ==
  /\ {Passed[i] : i \in DOMAIN Passed} = given
  /\ \A i, j \in DOMAIN Passed :
       i < j /\ Passed[i].by = Passed[j].by => Passed[i].no < Passed[j].no
=============================================================================

----------------------------- MODULE ShellProofs ----------------------------
(***************************************************************************)
(* Theorems about the lists that the shell works on, each for itself: the  *)
(* print queue for any set of threads and any number of messages, the      *)
(* registry for any commands, modules and order of loads, and the library  *)
(* list for any files, names and order of commands.  And about the shell,  *)
(* which runs the three together: each of its steps is a step of each of   *)
(* them, or leaves it alone.  So what is proved of each by itself holds in *)
(* the shell, whatever is typed or written in a script.                    *)
(***************************************************************************)
EXTENDS Shell, FiniteSetTheorems, WellFoundedInduction, TLAPS

-----------------------------------------------------------------------------
(* PrintQueue *)

(* Who holds the mutex, what a thread that links has found, and that the   *)
(* call a thread is making is later than all it made before.               *)
Holds(t) == at[t] \in {"link", "flush"}
HoldersAgree ==
  /\ \A t \in Threads : Holds(t) <=> mutex = t
  /\ \A t \in Threads : at[t] = "flush" => t = Main
SeenFresh == \A t \in Threads : at[t] = "link" => seen[t] = queue
NumbersGrow ==
  \A m \in given : /\ m.no <= made[m.by]
                   /\ at[m.by] \in {"text", "link"} => m.no < made[m.by]
QInv == QTypeOK /\ HoldersAgree /\ SeenFresh /\ NumbersGrow /\ EachOnce

-----------------------------------------------------------------------------
(* Taking the head of one sequence to the end of another changes nothing   *)
(* of the two together.                                                    *)
LEMMA HeadToTail ==
  ASSUME NEW S, NEW p \in Seq(S), NEW q \in Seq(S), q # <<>>
  PROVE  /\ Append(p, Head(q)) \in Seq(S) /\ Tail(q) \in Seq(S)
         /\ Append(p, Head(q)) \o Tail(q) = p \o q
<1>1. Head(q) \in S /\ Tail(q) \in Seq(S) /\ Len(q) \in Nat /\ Len(q) >= 1
  OBVIOUS
<1>2. Append(p, Head(q)) \in Seq(S)
  BY <1>1
<1>3. Append(p, Head(q)) \o Tail(q) \in Seq(S) /\ p \o q \in Seq(S)
  BY <1>1, <1>2
<1>4. Len(Append(p, Head(q)) \o Tail(q)) = Len(p \o q)
  BY <1>1, <1>2
<1>5. ASSUME NEW i \in 1 .. Len(p \o q)
      PROVE  (Append(p, Head(q)) \o Tail(q))[i] = (p \o q)[i]
  <2>1. CASE i <= Len(p)  BY <2>1, <1>1, <1>2
  <2>2. CASE i = Len(p) + 1  BY <2>2, <1>1, <1>2
  <2>3. CASE i > Len(p) + 1
    <3>1. Tail(q)[i - (Len(p) + 1)] = q[i - Len(p)]  BY <2>3, <1>1
    <3>2. QED  BY <2>3, <3>1, <1>1, <1>2
  <2>4. QED  BY <2>1, <2>2, <2>3
<1>6. QED  BY <1>1, <1>2, <1>3, <1>4, <1>5

(* What a sequence holds after an element was appended. *)
LEMMA AppendHolds ==
  ASSUME NEW S, NEW s \in Seq(S), NEW e \in S
  PROVE  /\ Append(s, e) \in Seq(S)
         /\ DOMAIN Append(s, e) = DOMAIN s \cup {Len(s) + 1}
         /\ \A i \in DOMAIN s : Append(s, e)[i] = s[i]
         /\ Append(s, e)[Len(s) + 1] = e
         /\ {Append(s, e)[i] : i \in DOMAIN Append(s, e)} = {s[i] : i \in DOMAIN s} \cup {e}
<1>1. /\ Append(s, e) \in Seq(S)
      /\ DOMAIN Append(s, e) = DOMAIN s \cup {Len(s) + 1}
      /\ \A i \in DOMAIN s : Append(s, e)[i] = s[i]
      /\ Append(s, e)[Len(s) + 1] = e
  OBVIOUS
<1>2. QED  BY <1>1

LEMMA AppendConcat ==
  ASSUME NEW S, NEW p \in Seq(S), NEW q \in Seq(S), NEW e \in S
  PROVE  p \o Append(q, e) = Append(p \o q, e)
<1>1. p \o Append(q, e) \in Seq(S) /\ Append(p \o q, e) \in Seq(S)
  OBVIOUS
<1>2. Len(p \o Append(q, e)) = Len(Append(p \o q, e))
  OBVIOUS
<1>3. ASSUME NEW i \in 1 .. Len(p \o Append(q, e))
      PROVE  (p \o Append(q, e))[i] = Append(p \o q, e)[i]
  OBVIOUS
<1>4. QED  BY <1>1, <1>2, <1>3

-----------------------------------------------------------------------------
LEMMA InitInv == QInit => QInv
<1> SUFFICES ASSUME QInit PROVE QInv
  OBVIOUS
<1> USE ThreadsAssumption DEF QInit
<1>1. QTypeOK  BY DEF QTypeOK, QPlaces
<1>2. HoldersAgree  BY DEF HoldersAgree, Holds
<1>3. SeenFresh /\ NumbersGrow  BY DEF SeenFresh, NumbersGrow
<1>4. EachOnce
  <2>1. Passed = <<>>  BY DEF Passed
  <2>2. QED  BY <2>1 DEF EachOnce
<1>5. QED  BY <1>1, <1>2, <1>3, <1>4 DEF QInv

(* What a step that links and prints nothing has to keep. *)
LEMMA Kept ==
  EachOnce /\ UNCHANGED <<queue, given, printed>> => EachOnce'
  BY DEF EachOnce, Passed

LEMMA ThreadInv ==
  ASSUME QInv, NEW t \in Threads,
         Begin(t) \/ Finish(t) \/ Format(t) \/ NoMemory(t) \/ LockQueue(t)
  PROVE  QInv'
<1> USE ThreadsAssumption DEF QInv
<1>1. EachOnce'
  BY Kept DEF Begin, Finish, Format, NoMemory, Called, LockQueue
<1>2. CASE Begin(t) \/ Finish(t)
  <2>1. QTypeOK'  BY <1>2 DEF Begin, Finish, QTypeOK, QPlaces
  <2>2. HoldersAgree'  BY <1>2 DEF Begin, Finish, HoldersAgree, Holds, QTypeOK
  <2>3. SeenFresh' /\ NumbersGrow'
    BY <1>2 DEF Begin, Finish, SeenFresh, NumbersGrow, QTypeOK, Msg
  <2>4. QED  BY <1>1, <2>1, <2>2, <2>3
<1>3. CASE Format(t) \/ NoMemory(t)
  <2>1. QTypeOK'
    <3>1. made' \in [Threads -> Nat]
      <4>1. made \in [Threads -> Nat]  BY DEF QTypeOK
      <4>2. made' = [made EXCEPT ![t] = made[t] + 1]
        BY <1>3 DEF Format, NoMemory, Called
      <4>3. QED  BY <4>1, <4>2
    <3>2. at' \in [Threads -> QPlaces]  BY <1>3 DEF Format, NoMemory, QTypeOK, QPlaces
    <3>3. QED  BY <1>3, <3>1, <3>2 DEF Format, NoMemory, QTypeOK
  <2>2. HoldersAgree'  BY <1>3 DEF Format, NoMemory, Called, HoldersAgree, Holds, QTypeOK
  <2>3. SeenFresh'  BY <1>3 DEF Format, NoMemory, Called, SeenFresh, QTypeOK
  <2>4. NumbersGrow'
    <3> SUFFICES ASSUME NEW m \in given
                 PROVE  /\ m.no <= made'[m.by]
                        /\ at'[m.by] \in {"text", "link"} => m.no < made'[m.by]
      BY <1>3 DEF Format, NoMemory, Called, NumbersGrow
    <3>1. m.by \in Threads /\ m.no \in Nat /\ m.no <= made[m.by] /\ made[m.by] \in Nat
      BY DEF QTypeOK, Msg, NumbersGrow
    <3>2. m.by # t => made'[m.by] = made[m.by] /\ at'[m.by] = at[m.by]
      BY <1>3, <3>1 DEF Format, NoMemory, Called, QTypeOK
    <3>3. m.by = t => made'[m.by] = made[m.by] + 1
      BY <1>3, <3>1 DEF Format, NoMemory, Called, QTypeOK
    <3>4. QED  BY <3>1, <3>2, <3>3 DEF NumbersGrow
  <2>5. QED  BY <1>1, <2>1, <2>2, <2>3, <2>4
<1>4. CASE LockQueue(t)
  <2>1. QTypeOK'  BY <1>4 DEF LockQueue, QTypeOK, QPlaces
  <2>2. HoldersAgree'  BY <1>4 DEF LockQueue, HoldersAgree, Holds, QTypeOK
  <2>3. SeenFresh'  BY <1>4 DEF LockQueue, SeenFresh, QTypeOK
  <2>4. NumbersGrow'
    BY <1>4 DEF LockQueue, NumbersGrow, QTypeOK, Msg
  <2>5. QED  BY <1>1, <2>1, <2>2, <2>3, <2>4
<1>5. QED  BY <1>2, <1>3, <1>4

(* The message that is linked goes behind all that was, since nobody else  *)
(* has the mutex, and is later than all of its thread.                     *)
LEMMA AddTailInv ==
  ASSUME QInv, NEW t \in Threads, AddTail(t)
  PROVE  QInv'
<1> USE ThreadsAssumption DEF QInv
<1> DEFINE m == ThisMsg(t)
<1>1. /\ m \in Msg /\ m.by = t /\ m.no = made[t] /\ made[t] \in Nat
      /\ queue \in Seq(Msg) /\ printed \in Seq(Msg)
  BY DEF ThisMsg, Msg, QTypeOK
<1>2. queue' = Append(queue, m) /\ printed' = printed /\ given' = given \cup {m}
  BY DEF AddTail, SeenFresh
<1>3. Passed \in Seq(Msg) /\ Passed' = Append(Passed, m)
  BY <1>1, <1>2, AppendConcat DEF Passed
<1>4. \A i \in DOMAIN Passed :
        Passed[i] \in given /\ Passed[i].no \in Nat /\ (Passed[i].by = t => Passed[i].no < made[t])
  <2>1. \A i \in DOMAIN Passed : Passed[i] \in given
    BY DEF EachOnce
  <2>2. \A k \in given : k.no \in Nat /\ (k.by = t => k.no < made[t])
    BY DEF AddTail, NumbersGrow, QTypeOK, Msg
  <2>3. QED  BY <2>1, <2>2
<1>5. EachOnce'
  <2>1. {Passed'[i] : i \in DOMAIN Passed'} = given'
    BY <1>1, <1>2, <1>3, AppendHolds DEF EachOnce
  <2>2. ASSUME NEW i \in DOMAIN Passed', NEW j \in DOMAIN Passed',
               i < j, Passed'[i].by = Passed'[j].by
        PROVE  Passed'[i].no < Passed'[j].no
    <3>1. i \in DOMAIN Passed /\ Passed'[i] = Passed[i]
      BY <1>1, <1>3, <2>2
    <3>2. CASE j \in DOMAIN Passed
      <4>1. Passed'[j] = Passed[j]  BY <3>2, <1>1, <1>3
      <4>2. QED  BY <3>1, <3>2, <4>1, <2>2 DEF EachOnce
    <3>3. CASE j \notin DOMAIN Passed
      <4>1. Passed'[j] = m  BY <3>3, <1>1, <1>3
      <4>2. QED  BY <3>1, <4>1, <2>2, <1>1, <1>4
    <3>4. QED  BY <3>2, <3>3
  <2>3. QED  BY <2>1, <2>2 DEF EachOnce
<1>6. QTypeOK'
  <2>1. queue' \in Seq(Msg) /\ given' \subseteq Msg /\ printed' \in Seq(Msg)
    BY <1>1, <1>2 DEF QTypeOK
  <2>2. QED  BY <2>1 DEF AddTail, QTypeOK, QPlaces
<1>7. HoldersAgree'  BY DEF AddTail, HoldersAgree, Holds, QTypeOK
<1>8. SeenFresh'
  <2>1. \A u \in Threads : at[u] = "link" => u = t
    BY DEF AddTail, HoldersAgree, Holds
  <2>2. QED  BY <2>1 DEF AddTail, SeenFresh, QTypeOK
<1>9. NumbersGrow'
  BY <1>1, <1>2 DEF AddTail, NumbersGrow, QTypeOK, Msg
<1>10. QED  BY <1>5, <1>6, <1>7, <1>8, <1>9

LEMMA FlushInv ==
  ASSUME QInv, StartFlush \/ PrintHead \/ EndFlush
  PROVE  QInv'
<1> USE ThreadsAssumption DEF QInv
<1>1. CASE StartFlush \/ EndFlush
  <2>1. EachOnce'  BY <1>1, Kept DEF StartFlush, EndFlush
  <2>2. QTypeOK'  BY <1>1 DEF StartFlush, EndFlush, QTypeOK, QPlaces
  <2>3. HoldersAgree'  BY <1>1 DEF StartFlush, EndFlush, HoldersAgree, Holds, QTypeOK
  <2>4. SeenFresh' /\ NumbersGrow'
    BY <1>1 DEF StartFlush, EndFlush, SeenFresh, NumbersGrow, QTypeOK, Msg
  <2>5. QED  BY <2>1, <2>2, <2>3, <2>4
<1>2. CASE PrintHead
  <2>1. /\ queue' \in Seq(Msg) /\ printed' \in Seq(Msg) /\ Passed' = Passed
    <3>1. queue \in Seq(Msg) /\ printed \in Seq(Msg) /\ queue # <<>>
      BY <1>2 DEF PrintHead, QTypeOK
    <3>2. printed' = Append(printed, Head(queue)) /\ queue' = Tail(queue)
      BY <1>2 DEF PrintHead
    <3>3. QED  BY <3>1, <3>2, HeadToTail DEF Passed
  <2>2. EachOnce'
    <3>1. given' = given  BY <1>2 DEF PrintHead
    <3>2. QED  BY <2>1, <3>1 DEF EachOnce
  <2>3. QTypeOK'  BY <1>2, <2>1 DEF PrintHead, QTypeOK
  <2>4. HoldersAgree'  BY <1>2 DEF PrintHead, HoldersAgree, Holds
  <2>5. SeenFresh'
    <3>1. \A t \in Threads : at[t] # "link"
      BY <1>2 DEF PrintHead, HoldersAgree, Holds
    <3>2. QED  BY <1>2, <3>1 DEF PrintHead, SeenFresh
  <2>6. NumbersGrow'  BY <1>2 DEF PrintHead, NumbersGrow
  <2>7. QED  BY <2>2, <2>3, <2>4, <2>5, <2>6
<1>3. QED  BY <1>1, <1>2

LEMMA NextInv == QInv /\ [QNext]_qvars => QInv'
<1> SUFFICES ASSUME QInv, [QNext]_qvars PROVE QInv'
  OBVIOUS
<1>1. CASE \E t \in Threads : Begin(t) \/ Finish(t) \/ Queueing(t)
  BY <1>1, ThreadInv, AddTailInv DEF Queueing
<1>2. CASE StartFlush \/ PrintHead \/ EndFlush
  BY <1>2, FlushInv
<1>3. CASE UNCHANGED qvars
  <2>1. EachOnce'  BY <1>3, Kept DEF qvars, QInv
  <2>2. QTypeOK'  BY <1>3 DEF qvars, QInv, QTypeOK
  <2>3. (HoldersAgree /\ SeenFresh /\ NumbersGrow)'
    BY <1>3 DEF qvars, QInv, HoldersAgree, Holds, SeenFresh, NumbersGrow
  <2>4. QED  BY <2>1, <2>2, <2>3 DEF QInv
<1>4. QED  BY <1>1, <1>2, <1>3 DEF QNext

LEMMA QInvAlways == QSpec => []QInv
  BY InitInv, NextInv, PTL DEF QSpec

-----------------------------------------------------------------------------
(* The queue stays well typed. *)
THEOREM QueueTyped == QSpec => []QTypeOK
<1>1. QInv => QTypeOK  BY DEF QInv
<1>2. QED  BY <1>1, QInvAlways, PTL

(* Every message that was accepted is printed or queued, once, and in the  *)
(* order of its thread's calls, for any number of threads and messages     *)
(* (mlib_queue_printf, mlib_empty_print_queue).                            *)
THEOREM EachOnceAlways == QSpec => []EachOnce
<1>1. QInv => EachOnce  BY DEF QInv
<1>2. QED  BY <1>1, QInvAlways, PTL
-----------------------------------------------------------------------------
(* Registry *)

(* The walk over the command list ends at a least place. *)
LEMMA LeastPlace ==
  ASSUME NEW S \in SUBSET Nat, S # {}
  PROVE  \E k \in S : \A j \in S : k <= j
<1> DEFINE R == OpToRel(<, Nat)
<1>1. IsWellFoundedOn(R, Nat)
  BY NatLessThanWellFounded
<1>2. \A j, k \in Nat : j < k => <<j, k>> \in R
  BY DEF OpToRel
<1> HIDE DEF R
<1>3. PICK k \in S : \A j \in S : ~ (<<j, k>> \in R)
  BY <1>1, WFMin
<1>4. \A j \in S : ~ (j < k)
  BY <1>2, <1>3
<1>5. QED  BY <1>4

(* The parts of a list of commands. *)
LEMMA CommandParts ==
  ASSUME NEW cmds \in Seq(Command)
  PROVE  /\ Len(cmds) \in Nat /\ DOMAIN cmds = 1 .. Len(cmds)
         /\ \A i \in DOMAIN cmds : /\ cmds[i] \in Command /\ cmds[i].word \in Words
                                    /\ Rank[cmds[i].word] \in Nat
<1>1. Len(cmds) \in Nat /\ DOMAIN cmds = 1 .. Len(cmds)
  OBVIOUS
<1>2. \A i \in DOMAIN cmds : cmds[i] \in Command
  OBVIOUS
<1>3. \A c \in Command : c.word \in Words
  BY DEF Command
<1>4. \A w \in Words : Rank[w] \in Nat
  BY WordsAssumption
<1>5. QED  BY <1>1, <1>2, <1>3, <1>4

(* The new name goes behind all that are not greater, and before the rest. *)
LEMMA PlaceForIs ==
  ASSUME NEW cmds \in Seq(Command), NEW w \in Words
  PROVE  /\ PlaceFor(cmds, w) \in 1 .. Len(cmds) + 1
         /\ \A i \in DOMAIN cmds : i < PlaceFor(cmds, w) => Rank[cmds[i].word] <= Rank[w]
         /\ PlaceFor(cmds, w) \in DOMAIN cmds => Rank[w] < Rank[cmds[PlaceFor(cmds, w)].word]
<1> DEFINE later == {i \in DOMAIN cmds : Rank[w] < Rank[cmds[i].word]}
           k == PlaceFor(cmds, w)
<1>1. later \in SUBSET Nat /\ later \subseteq 1 .. Len(cmds) /\ Len(cmds) \in Nat
  OBVIOUS
<1>2. \A i \in DOMAIN cmds : Rank[cmds[i].word] \in Nat
  BY CommandParts
<1>3. Rank[w] \in Nat  BY WordsAssumption
<1>4. CASE later = {}
  <2>1. k = Len(cmds) + 1  BY <1>4 DEF PlaceFor
  <2>2. QED  BY <2>1, <1>1, <1>2, <1>3, <1>4
<1>5. CASE later # {}
  <2>1. \E i \in later : \A j \in later : i <= j  BY <1>1, <1>5, LeastPlace
  <2>2. k \in later /\ \A j \in later : k <= j
    BY <1>5, <2>1 DEF PlaceFor
  <2>3. QED  BY <2>2, <1>1, <1>2, <1>3
<1>6. QED  BY <1>4, <1>5

Sorted(cmds) ==
  \A i, j \in DOMAIN cmds : i < j => Rank[cmds[i].word] < Rank[cmds[j].word]

(* Registering a command keeps the list sorted, whether the name is new or *)
(* not, and adds nothing but it.                                           *)
LEMMA RegisterSorted ==
  ASSUME NEW cmds \in Seq(Command), Sorted(cmds), NEW w \in Words, NEW who \in Modules \cup {Core}
  PROVE  LET new == mlib_command_register(cmds, w, who)
         IN /\ new \in Seq(Command) /\ Sorted(new)
            /\ Listed(new) \subseteq Listed(cmds) \cup {[word |-> w, owner |-> who]}
<1> DEFINE k == PlaceFor(cmds, w)
           it == [word |-> w, owner |-> who]
           new == [i \in 1 .. Len(cmds) + 1 |->
                     IF i < k THEN cmds[i] ELSE IF i = k THEN it ELSE cmds[i - 1]]
<1>1. CASE Known(cmds, w)
  BY <1>1 DEF mlib_command_register, Listed
<1>2. CASE ~ Known(cmds, w)
  <2>1. mlib_command_register(cmds, w, who) = new
    BY <1>2 DEF mlib_command_register
  <2>2. k \in 1 .. Len(cmds) + 1 /\ Len(cmds) \in Nat /\ it \in Command
    <3>1. it \in Command  BY DEF Command
    <3>2. k \in 1 .. Len(cmds) + 1  BY PlaceForIs
    <3>3. Len(cmds) \in Nat  BY CommandParts
    <3> QED  BY <3>1, <3>2, <3>3
  <2>3. /\ \A i \in DOMAIN cmds : cmds[i] \in Command /\ cmds[i].word \in Words
                                   /\ Rank[cmds[i].word] \in Nat
        /\ Rank[w] \in Nat /\ DOMAIN cmds = 1 .. Len(cmds)
    <3>1. Rank[w] \in Nat  BY WordsAssumption
    <3> QED  BY <3>1, CommandParts
  <2>4. \A i \in DOMAIN cmds : i < k => Rank[cmds[i].word] < Rank[w]
    <3> SUFFICES ASSUME NEW i \in DOMAIN cmds, i < k
                 PROVE  Rank[cmds[i].word] < Rank[w]
      OBVIOUS
    <3>1. Rank[cmds[i].word] <= Rank[w]  BY PlaceForIs
    <3>2. cmds[i].word # w  BY <1>2, <2>2, <2>3 DEF Known
    <3>3. Rank[cmds[i].word] # Rank[w]  BY <3>2, <2>3, WordsAssumption DEF Command
    <3>4. QED  BY <3>1, <3>3, <2>3
  <2>5. \A i \in DOMAIN cmds : i >= k => Rank[w] < Rank[cmds[i].word]
    <3> SUFFICES ASSUME NEW i \in DOMAIN cmds, i >= k
                 PROVE  Rank[w] < Rank[cmds[i].word]
      OBVIOUS
    <3>1. k \in DOMAIN cmds  BY <2>2, <2>3
    <3>2. Rank[w] < Rank[cmds[k].word]  BY <3>1, PlaceForIs
    <3>3. i = k \/ Rank[cmds[k].word] < Rank[cmds[i].word]  BY <3>1, <2>2, <2>3 DEF Sorted
    <3>4. QED  BY <3>1, <3>2, <3>3, <2>3
  <2> HIDE DEF k, it
  <2>6. \A i \in 1 .. Len(cmds) + 1 : new[i] \in Command
    BY <2>2, <2>3
  <2>7. new \in Seq(Command) /\ DOMAIN new = 1 .. Len(cmds) + 1
    <3>1. new \in [1 .. Len(cmds) + 1 -> Command]  BY <2>6
    <3>2. QED  BY <3>1, <2>2
  <2>8. Sorted(new)
    <3> SUFFICES ASSUME NEW i \in 1 .. Len(cmds) + 1, NEW j \in 1 .. Len(cmds) + 1, i < j
                 PROVE  Rank[new[i].word] < Rank[new[j].word]
      BY <2>7 DEF Sorted
    <3>1. it.word = w  BY DEF it
    <3>2. CASE j < k
      BY <3>2, <2>2, <2>3 DEF Sorted
    <3>3. CASE j = k
      BY <3>3, <3>1, <2>2, <2>3, <2>4
    <3>4. CASE j > k /\ i < k
      <4>1. new[i] = cmds[i] /\ new[j] = cmds[j - 1] /\ i \in DOMAIN cmds /\ j - 1 \in DOMAIN cmds
            /\ i < j - 1
        BY <3>4, <2>2, <2>3
      <4>2. QED  BY <4>1 DEF Sorted
    <3>5. CASE j > k /\ i = k
      <4>1. new[i] = it /\ new[j] = cmds[j - 1] /\ j - 1 \in DOMAIN cmds /\ j - 1 >= k
        BY <3>5, <2>2, <2>3
      <4>2. QED  BY <4>1, <3>1, <2>5
    <3>6. CASE i > k
      <4>1. new[i] = cmds[i - 1] /\ new[j] = cmds[j - 1] /\ i - 1 \in DOMAIN cmds /\ j - 1 \in DOMAIN cmds
            /\ i - 1 < j - 1
        BY <3>6, <2>2, <2>3
      <4>2. QED  BY <4>1 DEF Sorted
    <3>7. QED  BY <3>2, <3>3, <3>4, <3>5, <3>6, <2>2
  <2>9. Listed(new) \subseteq Listed(cmds) \cup {it}
    BY <2>2, <2>3, <2>7 DEF Listed
  <2>10. QED  BY <2>1, <2>7, <2>8, <2>9 DEF it
<1>3. QED  BY <1>1, <1>2

-----------------------------------------------------------------------------
(* The inductive invariant: a module that is not in the list is closed.    *)
(* An engine without its module is therefore gone; it is the last of the   *)
(* engines, since the next one would have to be linked behind it, so that  *)
(* no module's engine is linked a second time.                             *)
Closed ==
  \A f \in Modules : Proper(f) /\ f \notin Listed(modules) => refs[f] = 0
EnginesLoaded ==
  /\ \A f \in Listed(engines) : Proper(f)
  /\ \A i \in DOMAIN engines : engines[i] \in Listed(modules) \/ i = Len(engines)
RInv == RTypeOK /\ CommandsSorted /\ ListsSound /\ Closed /\ EnginesLoaded

LEMMA RInitInv == RInit => RInv
<1> SUFFICES ASSUME RInit PROVE RInv
  OBVIOUS
<1>1. RTypeOK
  <2>1. Len(BuiltIn) \in Nat  BY BuiltInAssumption
  <2>2. inited \in 0 .. Len(BuiltIn)  BY <2>1 DEF RInit
  <2>3. QED  BY <2>2 DEF RInit, RTypeOK
<1>2. CommandsSorted /\ ListsSound /\ Closed /\ EnginesLoaded
  BY DEF RInit, CommandsSorted, ListsSound, Closed, EnginesLoaded, Listed, Once
<1>3. QED  BY <1>1, <1>2 DEF RInv

(* What one more of a file that is new to a list does to the list. *)
LEMMA AppendOnce ==
  ASSUME NEW s \in Seq(Modules), NEW f \in Modules
  PROVE  /\ Append(s, f) \in Seq(Modules)
         /\ Listed(Append(s, f)) = Listed(s) \cup {f}
         /\ Once(s) /\ f \notin Listed(s) => Once(Append(s, f))
<1>1. /\ Append(s, f) \in Seq(Modules) /\ Len(s) \in Nat
      /\ DOMAIN s = 1 .. Len(s) /\ DOMAIN Append(s, f) = 1 .. Len(s) + 1
      /\ \A i \in 1 .. Len(s) : Append(s, f)[i] = s[i]
      /\ Append(s, f)[Len(s) + 1] = f
  OBVIOUS
<1>2. Listed(Append(s, f)) = Listed(s) \cup {f}
  <2>1. \A i \in 1 .. Len(s) + 1 : i \in 1 .. Len(s) \/ i = Len(s) + 1
    BY <1>1
  <2>2. Len(s) + 1 \in 1 .. Len(s) + 1 /\ 1 .. Len(s) \subseteq 1 .. Len(s) + 1
    BY <1>1
  <2>3. QED  BY <1>1, <2>1, <2>2 DEF Listed
<1>3. ASSUME Once(s), f \notin Listed(s),
             NEW i \in DOMAIN Append(s, f), NEW j \in DOMAIN Append(s, f),
             Append(s, f)[i] = Append(s, f)[j]
      PROVE  i = j
  BY <1>1, <1>3 DEF Once, Listed
<1>4. QED  BY <1>1, <1>2, <1>3 DEF Once

(* Opening a file once more keeps what is mapped mapped. *)
LEMMA OpenedMore ==
  ASSUME RInv, NEW f \in Modules, Opened(f)
  PROVE  /\ refs' \in [Modules -> Nat] /\ refs'[f] > 0
         /\ \A g \in Modules : refs[g] > 0 => refs'[g] > 0
<1>1. refs \in [Modules -> Nat] /\ MaxRefs \in Nat \ {0}
  BY ModulesAssumption DEF RInv, RTypeOK
<1>2. QED  BY <1>1 DEF Opened

LEMMA InitCommandInv ==
  ASSUME RInv, InitCommand
  PROVE  RInv'
<1> DEFINE w == BuiltIn[inited']
<1>1. commands \in Seq(Command) /\ Sorted(commands) /\ inited \in Nat /\ Len(BuiltIn) \in Nat
  BY BuiltInAssumption DEF RInv, RTypeOK, CommandsSorted, Sorted
<1>2. inited' \in 1 .. Len(BuiltIn)
  BY <1>1 DEF InitCommand
<1>3. w \in Words
  BY <1>2, BuiltInAssumption
<1>4. /\ commands' \in Seq(Command) /\ Sorted(commands')
      /\ Listed(commands') \subseteq Listed(commands) \cup {[word |-> w, owner |-> Core]}
  BY <1>1, <1>3, RegisterSorted DEF InitCommand
<1>5. UNCHANGED <<modules, engines, refs>>
  BY DEF InitCommand
<1>6. RTypeOK'
  BY <1>2, <1>4, <1>5 DEF RInv, RTypeOK
<1>7. CommandsSorted'
  BY <1>4 DEF CommandsSorted, Sorted
<1>8. ListsSound'
  BY <1>4, <1>5 DEF RInv, ListsSound
<1>9. QED  BY <1>5, <1>6, <1>7, <1>8 DEF RInv, Closed, EnginesLoaded

(* Each command in the list belongs to a module or to the program. *)
LEMMA Owners == RInv => \A c \in Listed(commands) : c.owner \in Modules \cup {Core}
<1> SUFFICES ASSUME RInv, NEW c \in Listed(commands)
             PROVE  c.owner \in Modules \cup {Core}
  OBVIOUS
<1>1. commands \in Seq(Command)  BY DEF RInv, RTypeOK
<1>2. c \in Command  BY <1>1 DEF Listed
<1>3. QED  BY <1>2 DEF Command

LEMMA OpenedOnlyInv ==
  ASSUME RInv, NEW f \in Modules, Opened(f), ~ Proper(f) \/ f \in Listed(modules),
         UNCHANGED <<commands, inited, modules, engines>>
  PROVE  RInv'
<1>1. /\ refs' \in [Modules -> Nat]
      /\ \A g \in Modules : refs[g] > 0 => refs'[g] > 0
  BY OpenedMore
<1>2. RTypeOK'
  BY <1>1 DEF RInv, RTypeOK
<1>7. CommandsSorted' /\ EnginesLoaded'
  BY DEF RInv, CommandsSorted, EnginesLoaded, Listed
<1>3. Listed(modules) \cup Listed(engines) \subseteq Modules
  BY DEF RInv, RTypeOK, Listed
<1>4. \A c \in Listed(commands) : c.owner \in Modules \cup {Core}
  BY Owners
<1>5. ListsSound'
  BY <1>1, <1>3, <1>4 DEF RInv, ListsSound
<1>6. Closed'
  <2>1. \A g \in Modules : g # f => refs'[g] = refs[g]
    BY DEF Opened, RInv, RTypeOK
  <2>2. QED  BY <2>1 DEF RInv, Closed
<1>8. QED  BY <1>2, <1>5, <1>6, <1>7 DEF RInv

(* What an init leaves in the list of commands ... *)
LEMMA CommandsRun ==
  ASSUME RInv, NEW f \in Modules, InitRuns(f)
  PROVE  /\ commands' \in Seq(Command) /\ Sorted(commands')
         /\ \A c \in Listed(commands') : c \in Listed(commands)
                                        \/ (c.owner = f /\ Kind[f].word # NoWord)
<1>1. commands \in Seq(Command) /\ Sorted(commands)
  BY DEF RInv, RTypeOK, CommandsSorted, Sorted
<1>2. CASE Kind[f].word = NoWord
  BY <1>1, <1>2 DEF InitRuns
<1>3. CASE Kind[f].word # NoWord
  <2>1. Kind[f] \in KindOf  BY ModulesAssumption
  <2>2. Kind[f].word \in Words  BY <2>1, <1>3 DEF KindOf
  <2>3. commands' = mlib_command_register(commands, Kind[f].word, f)
    BY <1>3 DEF InitRuns
  <2>4. /\ commands' \in Seq(Command) /\ Sorted(commands')
        /\ Listed(commands') \subseteq Listed(commands) \cup {[word |-> Kind[f].word, owner |-> f]}
    BY <1>1, <2>2, <2>3, RegisterSorted
  <2>5. QED  BY <1>3, <2>4
<1>4. QED  BY <1>2, <1>3

(* ... and in that of engines. *)
LEMMA InitRunsInv ==
  ASSUME RInv, NEW f \in Modules, Initialises(f)
  PROVE  /\ f \notin Listed(modules)
         /\ engines' \in Seq(Modules) /\ Once(engines')
         /\ \A g \in Listed(engines') : g \in Listed(engines)
                                       \/ (g = f /\ Kind[f].engine = "good")
         /\ \A i \in DOMAIN engines' : engines'[i] \in Listed(modules) \/ i = Len(engines')
         /\ commands' \in Seq(Command) /\ Sorted(commands')
         /\ \A c \in Listed(commands') : c \in Listed(commands)
                                        \/ (c.owner = f /\ Kind[f].word # NoWord)
<1>1. /\ modules \in Seq(Modules) /\ engines \in Seq(Modules) /\ commands \in Seq(Command)
      /\ f \notin Listed(modules) /\ Proper(f) /\ ~ LoadMeets(f) /\ InitRuns(f)
  BY DEF Initialises, mlib_module_loaded, RInv, RTypeOK
<1>2. Once(engines) /\ \A i \in DOMAIN engines : engines[i] \in Listed(modules) \/ i = Len(engines)
  BY DEF RInv, ListsSound, EnginesLoaded
<1>3. CASE Kind[f].engine # "good"
  <2>1. engines' = engines  BY <1>1, <1>3 DEF InitRuns
  <2>2. QED  BY <1>1, <1>2, <1>3, <2>1, CommandsRun
<1>4. CASE Kind[f].engine = "good"
  <2>1. engines' = Append(engines, f)  BY <1>1, <1>4 DEF InitRuns
  <2>2. Len(engines) \in Nat /\ DOMAIN engines = 1 .. Len(engines)
    BY <1>1
  <2>3. /\ Len(engines') = Len(engines) + 1 /\ DOMAIN engines' = 1 .. Len(engines) + 1
        /\ \A i \in 1 .. Len(engines) : engines'[i] = engines[i]
    BY <1>1, <2>1
  <2>4. ASSUME NEW i \in DOMAIN engines PROVE engines[i] \in Listed(modules)
    <3>1. CASE i # Len(engines)  BY <1>2, <3>1
    <3>2. CASE i = Len(engines)
      <4>1. engines # <<>> /\ engines[i] \in Modules  BY <1>1
      <4>2. ~ Gone(engines[i])  BY <1>1, <1>4, <3>2, <4>1 DEF LoadMeets, mlib_module_loaded
      <4>3. refs[engines[i]] # 0  BY <4>1, <4>2, ModulesAssumption DEF Gone
      <4>4. Proper(engines[i])  BY DEF RInv, EnginesLoaded, Listed
      <4>5. QED  BY <4>1, <4>3, <4>4 DEF RInv, Closed
    <3>3. QED  BY <3>1, <3>2
  <2>5. f \notin Listed(engines)  BY <1>1, <2>4 DEF Listed
  <2>6. /\ engines' \in Seq(Modules) /\ Listed(engines') = Listed(engines) \cup {f}
        /\ Once(engines')
    BY <1>1, <1>2, <2>1, <2>5, AppendOnce
  <2>7. \A i \in DOMAIN engines' : engines'[i] \in Listed(modules) \/ i = Len(engines')
    <3>1. \A i \in 1 .. Len(engines) + 1 : i \in 1 .. Len(engines) \/ i = Len(engines) + 1
      BY <2>2
    <3>2. QED  BY <2>2, <2>3, <2>4, <3>1
  <2>8. QED  BY <1>1, <1>4, <2>6, <2>7, CommandsRun
<1>5. QED  BY <1>3, <1>4

(* A file that was loaded, or was closed again: what is in its list and    *)
(* not mapped was registered by an init that failed late.                  *)
LEMMA AcceptedInv ==
  ASSUME RInv, NEW f \in Modules, Accepted(f)
  PROVE  RInv'
<1>1. /\ refs' \in [Modules -> Nat] /\ refs'[f] > 0
      /\ \A g \in Modules : refs[g] > 0 => refs'[g] > 0
  BY OpenedMore DEF Accepted
<1>2. /\ f \notin Listed(modules)
      /\ engines' \in Seq(Modules) /\ Once(engines')
      /\ \A g \in Listed(engines') : g \in Listed(engines) \cup {f}
      /\ \A i \in DOMAIN engines' : engines'[i] \in Listed(modules) \/ i = Len(engines')
      /\ commands' \in Seq(Command) /\ Sorted(commands')
      /\ \A c \in Listed(commands') : c \in Listed(commands) \/ c.owner = f
  BY InitRunsInv DEF Accepted
<1>3. modules \in Seq(Modules) /\ modules' = Append(modules, f) /\ Once(modules) /\ UNCHANGED inited
  BY DEF Accepted, RInv, RTypeOK, ListsSound
<1>4. modules' \in Seq(Modules) /\ Listed(modules') = Listed(modules) \cup {f} /\ Once(modules')
  BY <1>2, <1>3, AppendOnce
<1>5. engines \in Seq(Modules)
  BY DEF RInv, RTypeOK
<1>6. Listed(modules) \subseteq Modules /\ Listed(engines) \subseteq Modules
  BY <1>3, <1>5 DEF Listed
<1>7. \A c \in Listed(commands) : c.owner \in Modules \cup {Core}
  BY Owners
<1>8. RTypeOK'
  BY <1>1, <1>2, <1>3, <1>4 DEF RInv, RTypeOK
<1>9. CommandsSorted'
  BY <1>2 DEF CommandsSorted, Sorted
<1>10. ListsSound'
  <2>1. \A g \in Listed(modules') : refs'[g] > 0
    BY <1>1, <1>4, <1>6 DEF RInv, ListsSound
  <2>2. \A g \in Listed(engines') : refs'[g] > 0 \/ MayFailLate(g)
    BY <1>1, <1>2, <1>6 DEF RInv, ListsSound
  <2>3. \A c \in Listed(commands') : c.owner = Core \/ refs'[c.owner] > 0 \/ MayFailLate(c.owner)
    BY <1>1, <1>2, <1>7 DEF RInv, ListsSound
  <2>4. QED  BY <1>2, <1>4, <2>1, <2>2, <2>3 DEF ListsSound
<1>11. EnginesLoaded'
  <2>1. Proper(f)  BY DEF Accepted, Initialises
  <2>2. \A g \in Listed(engines') : Proper(g)
    BY <1>2, <2>1 DEF RInv, EnginesLoaded
  <2>3. QED  BY <1>2, <1>4, <2>2 DEF EnginesLoaded
<1>12. Closed'
  <2>1. \A g \in Modules : g # f => refs'[g] = refs[g]
    BY DEF Accepted, Opened, RInv, RTypeOK
  <2>2. QED  BY <1>4, <2>1 DEF RInv, Closed
<1>13. QED  BY <1>8, <1>9, <1>10, <1>11, <1>12 DEF RInv

LEMMA RefusedInv ==
  ASSUME RInv, NEW f \in Modules, Refused(f)
  PROVE  RInv'
<1>1. Initialises(f) /\ InitFails(f) /\ UNCHANGED <<inited, modules, refs>>
  BY DEF Refused
<1>2. /\ engines' \in Seq(Modules) /\ Once(engines')
      /\ \A g \in Listed(engines') : g \in Listed(engines) \/ (g = f /\ Kind[f].engine = "good")
      /\ \A i \in DOMAIN engines' : engines'[i] \in Listed(modules) \/ i = Len(engines')
      /\ commands' \in Seq(Command) /\ Sorted(commands')
  BY <1>1, InitRunsInv
<1>3. Kind[f].engine = "good" => MayFailLate(f)
  BY <1>1 DEF InitFails, Registers, MayFailLate
<1>4. ASSUME NEW c \in Listed(commands'), c \notin Listed(commands)
      PROVE  c.owner = f /\ MayFailLate(f)
  <2>1. c.owner = f /\ Kind[f].word # NoWord
    BY <1>1, <1>4, InitRunsInv
  <2>2. commands' # commands
    BY <1>4
  <2>3. commands' = mlib_command_register(commands, Kind[f].word, f)
    BY <1>1, <2>1 DEF Initialises, InitRuns
  <2>4. ~ Known(commands, Kind[f].word)
    BY <2>2, <2>3 DEF mlib_command_register
  <2>5. Kind[f].engine = "useless" \/ Kind[f].fails
    BY <1>1, <2>4 DEF InitFails, Registers
  <2>6. QED  BY <2>1, <2>5 DEF MayFailLate
<1>5. RTypeOK'
  BY <1>1, <1>2 DEF RInv, RTypeOK
<1>6. CommandsSorted'
  BY <1>2 DEF CommandsSorted, Sorted
<1>7. ListsSound'
  <2>1. \A g \in Listed(modules') : refs'[g] > 0
    BY <1>1 DEF RInv, ListsSound
  <2>2. \A g \in Listed(engines') : refs'[g] > 0 \/ MayFailLate(g)
    BY <1>1, <1>2, <1>3 DEF RInv, ListsSound
  <2>3. \A c \in Listed(commands') : c.owner = Core \/ refs'[c.owner] > 0 \/ MayFailLate(c.owner)
    BY <1>1, <1>4 DEF RInv, ListsSound
  <2>4. QED  BY <1>1, <1>2, <2>1, <2>2, <2>3 DEF RInv, ListsSound
<1>8. EnginesLoaded'
  <2>1. Proper(f)  BY <1>1 DEF Initialises
  <2>2. \A g \in Listed(engines') : Proper(g)
    BY <1>2, <2>1 DEF RInv, EnginesLoaded
  <2>3. QED  BY <1>1, <1>2, <2>2 DEF EnginesLoaded
<1>9. Closed'
  BY <1>1 DEF RInv, Closed
<1>10. QED  BY <1>5, <1>6, <1>7, <1>8, <1>9 DEF RInv

LEMMA RSameInv == RInv /\ UNCHANGED rvars => RInv'
BY DEF rvars, RInv, RTypeOK, CommandsSorted, ListsSound, Closed, EnginesLoaded

LEMMA RNextInv == RInv /\ [RNext]_rvars => RInv'
<1> SUFFICES ASSUME RInv, [RNext]_rvars PROVE RInv'
  OBVIOUS
<1>1. CASE InitCommand
  BY <1>1, InitCommandInv
<1>2. ASSUME NEW f \in Modules, Load(f)
      PROVE  RInv'
  <2>1. CASE CannotOpen(f) \/ Nameless(f)
    <3>1. UNCHANGED rvars  BY <2>1 DEF CannotOpen, Nameless, GivenUp
    <3>2. QED  BY <3>1, RSameInv
  <2>2. CASE NotAModule(f) \/ LoadedAlready(f)
    BY <2>2, OpenedOnlyInv DEF NotAModule, LoadedAlready, Proper, mlib_module_loaded
  <2>3. CASE Accepted(f) \/ Refused(f)
    BY <2>3, AcceptedInv, RefusedInv
  <2>4. QED  BY <1>2, <2>1, <2>2, <2>3 DEF Load
<1>3. CASE UNCHANGED rvars
  BY <1>3, RSameInv
<1>4. QED  BY <1>1, <1>2, <1>3 DEF RNext

LEMMA RInvAlways == RSpec => []RInv
  BY RInitInv, RNextInv, PTL DEF RSpec

-----------------------------------------------------------------------------
(* The command list is in strict order whatever is loaded, for any names   *)
(* and any order of registration (mlib_command_register).                  *)
THEOREM CommandsSortedAlways == RSpec => []CommandsSorted
<1>1. RInv => CommandsSorted  BY DEF RInv
<1>2. QED  BY <1>1, RInvAlways, PTL

(* No list ever holds one node twice, or a node of a closed file but what  *)
(* an init registered that failed late, for any modules, those included,   *)
(* and any sequence of loads (mlib_load_module).                           *)
THEOREM ListsSoundAlways == RSpec => []ListsSound
<1>1. RInv => ListsSound  BY DEF RInv
<1>2. QED  BY <1>1, RInvAlways, PTL
-----------------------------------------------------------------------------
(* LibraryList *)

LInv == LTypeOK /\ OpenSound

(* The parts of the list: the files in it are files, and each has a name   *)
(* that is neither that of a missing nor that of a foreign file.           *)
LEMMA ListParts ==
  ASSUME LInv
  PROVE  /\ Len(libs) \in Nat /\ DOMAIN libs = 1 .. Len(libs)
         /\ \A i \in DOMAIN libs : /\ libs[i] \in LibFiles /\ NameOf(i) \in LibNames
                                   /\ NameOf(i) # Absent /\ NameOf(i) # Junk
                                   /\ maps[libs[i]] \in Nat \ {0}
         /\ \A i, j \in DOMAIN libs : libs[i] = libs[j] => i = j
<1>1. libs \in Seq(LibFiles) /\ maps \in [LibFiles -> Nat]
  BY DEF LInv, LTypeOK
<1>2. Len(libs) \in Nat /\ DOMAIN libs = 1 .. Len(libs)
  BY <1>1
<1>3. \A i \in DOMAIN libs : libs[i] \in LibFiles
  BY <1>1
<1>4. \A i \in DOMAIN libs : NameOf(i) # Absent /\ NameOf(i) # Junk
  BY LibNamesAssumption DEF LInv, OpenSound
<1>5. \A i, j \in DOMAIN libs : libs[i] = libs[j] => i = j
  BY DEF LInv, OpenSound, NameOf
<1>6. \A i \in DOMAIN libs : NameOf(i) \in LibNames /\ maps[libs[i]] \in Nat \ {0}
  BY <1>1, <1>3 DEF LInv, OpenSound
<1>7. QED  BY <1>2, <1>3, <1>4, <1>5, <1>6

LEMMA LInitInv == LInit => LInv
BY LibNamesAssumption DEF LInit, LInv, LTypeOK, OpenSound

LEMMA CreateInv ==
  ASSUME LInv, NEW f \in LibFiles, NEW n \in LibNames, Create(f, n)
  PROVE  LInv'
<1>1. LTypeOK'  BY DEF LInv, LTypeOK, Create
<1>2. \A i \in DOMAIN libs : libs[i] # f
  BY ListParts DEF Create, NameOf
<1>3. disk \in [LibFiles -> LibNames \cup {Absent, Junk}]  BY DEF LInv, LTypeOK
<1>4. \A i \in DOMAIN libs : disk'[libs[i]] = disk[libs[i]]
  BY <1>2, <1>3, ListParts DEF Create
<1>5. OpenSound'
  BY <1>4 DEF Create, LInv, OpenSound, NameOf
<1>6. QED  BY <1>1, <1>5 DEF LInv

(* A file mapped once more leaves the others as they were. *)
LEMMA MappedMore ==
  ASSUME LInv, NEW f \in LibFiles, Mapped(f)
  PROVE  /\ maps' \in [LibFiles -> Nat] /\ maps'[f] > 0
         /\ \A g \in LibFiles : maps[g] > 0 => maps'[g] > 0
<1>1. maps \in [LibFiles -> Nat]  BY DEF LInv, LTypeOK
<1>2. QED  BY <1>1 DEF Mapped

LEMMA OpenRefusedInv ==
  ASSUME LInv, NEW f \in LibFiles, OpenRefused(f)
  PROVE  LInv'
<1>1. UNCHANGED <<disk, libs>> /\ Mapped(f)  BY DEF OpenRefused
<1>2. LTypeOK'  BY <1>1, MappedMore DEF LInv, LTypeOK
<1>3. \A i \in DOMAIN libs : maps'[libs[i]] > 0
  BY <1>1, MappedMore, ListParts
<1>4. OpenSound'  BY <1>1, <1>3 DEF LInv, OpenSound, NameOf
<1>5. QED  BY <1>2, <1>4 DEF LInv

LEMMA OpenInv ==
  ASSUME LInv, NEW f \in LibFiles, Open(f)
  PROVE  LInv'
<1>1. disk' = disk /\ Mapped(f) /\ libs' = Append(libs, f) /\ disk[f] \in LibNames
  BY DEF Open
<1>2. libs \in Seq(LibFiles)  BY DEF LInv, LTypeOK
<1>3. LTypeOK'  BY <1>1, <1>2, MappedMore DEF LInv, LTypeOK
<1>4. /\ DOMAIN libs' = 1 .. Len(libs) + 1 /\ libs'[Len(libs) + 1] = f
      /\ \A i \in 1 .. Len(libs) : libs'[i] = libs[i]
  BY <1>1, <1>2
<1>5. Len(libs) \in Nat /\ DOMAIN libs = 1 .. Len(libs)
  BY ListParts
<1>6. \A i \in 1 .. Len(libs) : disk[libs[i]] # disk[f]
  BY <1>5 DEF Open, AlreadyOpen, NameOf
<1>7. ASSUME NEW i \in DOMAIN libs', NEW j \in DOMAIN libs', disk[libs'[i]] = disk[libs'[j]]
      PROVE  i = j
  <2>1. CASE i \in 1 .. Len(libs) /\ j \in 1 .. Len(libs)
    <3>1. NameOf(i) = NameOf(j)  BY <1>4, <1>7, <2>1 DEF NameOf
    <3>2. QED  BY <2>1, <3>1, <1>5 DEF LInv, OpenSound
  <2>2. CASE i = Len(libs) + 1 \/ j = Len(libs) + 1
    BY <1>4, <1>5, <1>6, <1>7, <2>2
  <2>3. QED  BY <1>4, <1>5, <2>1, <2>2
<1>8. ASSUME NEW i \in DOMAIN libs'
      PROVE  disk[libs'[i]] \in LibNames /\ maps'[libs'[i]] > 0
  <2>1. CASE i = Len(libs) + 1
    BY <1>1, <1>4, <2>1, MappedMore
  <2>2. CASE i \in 1 .. Len(libs)
    <3>1. libs'[i] = libs[i] /\ i \in DOMAIN libs  BY <1>4, <1>5, <2>2
    <3>2. libs[i] \in LibFiles /\ disk[libs[i]] \in LibNames /\ maps[libs[i]] > 0
      BY <3>1, ListParts DEF NameOf
    <3>3. QED  BY <1>1, <3>1, <3>2, MappedMore
  <2>3. QED  BY <1>4, <1>5, <2>1, <2>2
<1>9. OpenSound'  BY <1>1, <1>7, <1>8 DEF OpenSound, NameOf
<1>10. QED  BY <1>3, <1>9 DEF LInv

(* Closing takes one mapping away, of the file that leaves the list; every *)
(* other library has another file, since it has another name.              *)
LEMMA CloseInv ==
  ASSUME LInv, NEW n \in LibNames, Close(n)
  PROVE  LInv'
<1> DEFINE k == mlib_find_library(n)
           was(i) == IF i < k THEN i ELSE i + 1
<1>1. k # 0 /\ libs' = Without(libs, k) /\ disk' = disk
      /\ maps' = [maps EXCEPT ![libs[k]] = @ - 1]
  BY DEF Close
<1>2. Len(libs) \in Nat /\ DOMAIN libs = 1 .. Len(libs)
  BY ListParts
<1>3. k \in DOMAIN libs
  <2>1. \A i \in {j \in DOMAIN libs : <<NameOf(j), n>> \in Begins} : i \in Nat
    BY <1>2
  <2>2. {j \in DOMAIN libs : <<NameOf(j), n>> \in Begins} # {}
    BY <1>1 DEF mlib_find_library
  <2>3. \E i \in {j \in DOMAIN libs : <<NameOf(j), n>> \in Begins} :
          \A j \in {h \in DOMAIN libs : <<NameOf(h), n>> \in Begins} : i <= j
    BY <2>1, <2>2, LeastPlace
  <2>4. QED  BY <2>2, <2>3 DEF mlib_find_library
<1> HIDE DEF k
<1>4. /\ DOMAIN libs' = 1 .. Len(libs) - 1
      /\ \A i \in DOMAIN libs' : was(i) \in DOMAIN libs /\ was(i) # k /\ libs'[i] = libs[was(i)]
      /\ \A i, j \in DOMAIN libs' : was(i) = was(j) => i = j
  BY <1>1, <1>2, <1>3 DEF Without
<1> HIDE DEF was
<1>5. \A i \in DOMAIN libs' : libs'[i] \in LibFiles /\ libs'[i] # libs[k]
  BY <1>3, <1>4, ListParts
<1>6. maps \in [LibFiles -> Nat] /\ libs[k] \in LibFiles /\ maps[libs[k]] \in Nat \ {0}
  BY <1>3, ListParts DEF LInv, LTypeOK
<1>7. maps' \in [LibFiles -> Nat] /\ \A g \in LibFiles \ {libs[k]} : maps'[g] = maps[g]
  BY <1>1, <1>6
<1>8. libs' \in Seq(LibFiles)
  <2>1. Len(libs) - 1 \in Nat  BY <1>2, <1>3
  <2>2. libs' \in [1 .. Len(libs) - 1 -> LibFiles]
    BY <1>1, <1>4, <1>5 DEF Without
  <2>3. QED  BY <2>1, <2>2
<1>9. LTypeOK'  BY <1>1, <1>7, <1>8 DEF LInv, LTypeOK
<1>10. OpenSound'
  <2>1. ASSUME NEW i \in DOMAIN libs', NEW j \in DOMAIN libs', disk[libs'[i]] = disk[libs'[j]]
        PROVE  i = j
    <3>1. NameOf(was(i)) = NameOf(was(j))  BY <1>4, <2>1 DEF NameOf
    <3>2. was(i) = was(j)  BY <1>4, <3>1 DEF LInv, OpenSound
    <3>3. QED  BY <1>4, <3>2
  <2>2. ASSUME NEW i \in DOMAIN libs'
        PROVE  disk[libs'[i]] \in LibNames /\ maps'[libs'[i]] > 0
    <3>1. disk[libs'[i]] \in LibNames /\ maps[libs'[i]] \in Nat \ {0}
      BY <1>4, ListParts DEF NameOf
    <3>2. maps'[libs'[i]] = maps[libs'[i]]  BY <1>5, <1>7
    <3>3. QED  BY <3>1, <3>2
  <2>3. QED  BY <1>1, <2>1, <2>2 DEF OpenSound, NameOf
<1>11. QED  BY <1>9, <1>10 DEF LInv

(* The library that is found is the first whose name the word begins with. *)
LEMMA FoundFirst ==
  ASSUME LInv, NEW n, NEW i \in DOMAIN libs, <<NameOf(i), n>> \in Begins
  PROVE  /\ mlib_find_library(n) \in DOMAIN libs /\ mlib_find_library(n) <= i
         /\ <<NameOf(mlib_find_library(n)), n>> \in Begins
<1> DEFINE found == {j \in DOMAIN libs : <<NameOf(j), n>> \in Begins}
           k == mlib_find_library(n)
<1>1. found \subseteq Nat /\ i \in found
  BY ListParts
<1>2. \E h \in found : \A j \in found : h <= j
  BY <1>1, LeastPlace
<1>3. k \in found /\ \A j \in found : k <= j
  BY <1>1, <1>2 DEF mlib_find_library
<1>4. QED  BY <1>1, <1>3

LEMMA LSameInv == LInv /\ UNCHANGED lvars => LInv'
BY DEF lvars, LInv, LTypeOK, OpenSound, NameOf

LEMMA LNextInv == LInv /\ [LNext]_lvars => LInv'
<1> SUFFICES ASSUME LInv, [LNext]_lvars PROVE LInv'
  OBVIOUS
<1>1. CASE \E f \in LibFiles, n \in LibNames : Create(f, n)
  BY <1>1, CreateInv
<1>2. CASE \E f \in LibFiles : Open(f) \/ OpenRefused(f)
  BY <1>2, OpenInv, OpenRefusedInv
<1>3. CASE \E n \in LibNames : Close(n)
  BY <1>3, CloseInv
<1>4. CASE UNCHANGED lvars
  BY <1>4, LSameInv
<1>5. QED  BY <1>1, <1>2, <1>3, <1>4 DEF LNext

LEMMA LInvAlways == LSpec => []LInv
  BY LInitInv, LNextInv, PTL DEF LSpec

-----------------------------------------------------------------------------
(* Open libraries have different names and each is mapped, for any files,  *)
(* names and sequence of commands (__mlib_open_local_lib,                  *)
(* mlib_close_library).                                                    *)
THEOREM OpenSoundAlways == LSpec => []OpenSound
<1>1. LInv => OpenSound  BY DEF LInv
<1>2. QED  BY <1>1, LInvAlways, PTL

(* A library asked for by its name is found, unless one that was opened    *)
(* before it has a shorter name that the asked one begins with             *)
(* (mlib_find_library).                                                    *)
THEOREM FindsNamedAlways == LSpec => []FindsNamed
<1>1. ASSUME LInv PROVE FindsNamed
  <2>1. ASSUME NEW i \in DOMAIN libs
        PROVE  \/ mlib_find_library(NameOf(i)) = i
               \/ \E j \in 1 .. i - 1 : <<NameOf(j), NameOf(i)>> \in Begins
    <3>1. <<NameOf(i), NameOf(i)>> \in Begins
      BY <1>1, ListParts, LibNamesAssumption
    <3>2. /\ mlib_find_library(NameOf(i)) \in DOMAIN libs /\ mlib_find_library(NameOf(i)) <= i
          /\ <<NameOf(mlib_find_library(NameOf(i))), NameOf(i)>> \in Begins
      BY <1>1, <3>1, FoundFirst
    <3>3. Len(libs) \in Nat /\ DOMAIN libs = 1 .. Len(libs)
      BY <1>1, ListParts
    <3>4. QED  BY <3>2, <3>3
  <2>2. QED  BY <2>1 DEF FindsNamed
<1>2. QED  BY <1>1, LInvAlways, PTL

-----------------------------------------------------------------------------
(* Shell *)

(* The shell's own variables stay in their types. *)
ShTypeOK ==
  /\ sh \in ShellPlaces
  /\ streams \in Seq({"script"})
  /\ current \in {"stdin", "script"}
  /\ script \in Scripts \cup {NoScript}
  /\ rest \in Seq(Input)
  /\ buf \in Input \cup {Blank, Eof}
  /\ argv \in Input \cup {Blank}
SInv == ShTypeOK /\ CurrentOpen

(* A command that runs was read, so that its arguments are sound. *)
LEMMA RunsRead ==
  ASSUME SInv, NEW word \in {"load", "create", "open", "close"}, argv.word = word
  PROVE  argv \in Input /\ ArgsSound(argv)
<1>1. argv # Blank  BY DEF Blank, Line
<1>2. argv \in Input  BY <1>1 DEF SInv, ShTypeOK
<1>3. QED  BY <1>2, ShellAssumption

LEMMA ShInitInv == Init => SInv
<1> SUFFICES ASSUME Init PROVE SInv
  OBVIOUS
<1>1. sh \in ShellPlaces  BY DEF Init, ShellPlaces
<1>2. QED  BY <1>1 DEF Init, SInv, ShTypeOK, CurrentOpen

(* Popping gives the stream below, or the terminal. *)
LEMMA PopSound ==
  ASSUME SInv, PopStream
  PROVE  /\ streams' \in Seq({"script"}) /\ current' \in {"stdin", "script"}
         /\ CurrentOpen'
<1>1. streams \in Seq({"script"}) /\ current \in {"stdin", "script"}
  BY DEF SInv, ShTypeOK
<1>2. CASE streams = <<>>
  <2>1. streams' = <<>> /\ current' = current  BY <1>2 DEF PopStream
  <2>2. current = "stdin"  BY <1>2 DEF SInv, CurrentOpen
  <2>3. QED  BY <1>1, <1>2, <2>1, <2>2 DEF CurrentOpen
<1>3. CASE streams # <<>>
  <2>1. streams' = Tail(streams)  BY <1>3 DEF PopStream
  <2>2. streams' \in Seq({"script"})  BY <1>1, <1>3, <2>1
  <2>3. streams' = <<>> => current' = "stdin"  BY <1>3 DEF PopStream
  <2>4. streams' # <<>> => current' = current /\ Head(streams') = "script"
    BY <1>3, <2>2 DEF PopStream
  <2>5. current' \in {"stdin", "script"}  BY <1>1, <2>3, <2>4
  <2>6. CurrentOpen'  BY <2>3, <2>4, <2>5 DEF CurrentOpen
  <2>7. QED  BY <2>2, <2>5, <2>6
<1>4. QED  BY <1>2, <1>3

LEMMA InputInv ==
  ASSUME SInv, PushStream \/ ReadScript \/ \E line \in Typed : ReadTerm(line)
  PROVE  SInv'
<1> USE DEF SInv, ShellPlaces
<1>1. CASE PushStream
  <2>1. script.lines \in Seq(Input)
    <3>1. CASE script \in Scripts  BY <3>1, ShellAssumption
    <3>2. CASE script = NoScript  BY <3>2 DEF NoScript
    <3>3. QED  BY <3>1, <3>2 DEF ShTypeOK
  <2>2. streams' \in Seq({"script"}) /\ (current' # "stdin" => streams' # <<>> /\ Head(streams') = "script")
    <3>1. CASE streams' = <<"script">> \o streams
      BY <3>1 DEF ShTypeOK
    <3>2. CASE streams' = streams /\ current' = current
      BY <3>2 DEF ShTypeOK, CurrentOpen
    <3>3. QED  BY <1>1, <3>1, <3>2 DEF PushStream
  <2>3. ShTypeOK'  BY <1>1, <2>1, <2>2 DEF PushStream, ShTypeOK
  <2>4. CurrentOpen'  BY <1>1, <2>2, <2>3 DEF CurrentOpen, ShTypeOK
  <2>5. QED  BY <2>3, <2>4
<1>2. CASE ReadScript
  <2>1. rest' \in Seq(Input) /\ buf' \in Input \cup {Blank, Eof}
    <3>1. CASE rest = <<>>  BY <1>2, <3>1 DEF ReadScript
    <3>2. CASE rest # <<>>
      <4>1. rest \in Seq(Input)  BY DEF ShTypeOK
      <4>2. Head(rest) \in Input /\ Tail(rest) \in Seq(Input)  BY <3>2, <4>1
      <4>3. QED  BY <1>2, <3>2, <4>2 DEF ReadScript
    <3>3. QED  BY <3>1, <3>2
  <2>2. ShTypeOK'  BY <1>2, <2>1 DEF ReadScript, ShTypeOK
  <2>3. QED  BY <1>2, <2>2 DEF ReadScript, CurrentOpen
<1>3. ASSUME NEW line \in Typed, ReadTerm(line)
      PROVE  SInv'
  <2>1. line \in Input  BY DEF Input
  <2>2. ShTypeOK'  BY <1>3, <2>1 DEF ReadTerm, ShTypeOK
  <2>3. QED  BY <1>3, <2>2 DEF ReadTerm, CurrentOpen
<1>4. QED  BY <1>1, <1>2, <1>3

LEMMA LexInv ==
  ASSUME SInv, LexStep
  PROVE  SInv'
<1> USE DEF SInv, ShellPlaces
<1>1. CASE LexWords
  <2>1. argv' \in Input  BY <1>1 DEF LexWords, ShTypeOK, Blank, Eof, Line
  <2>2. /\ streams' \in Seq({"script"}) /\ current' \in {"stdin", "script"} /\ CurrentOpen'
    <3>1. CASE current = "stdin"  BY <1>1, <3>1, PopSound DEF LexWords
    <3>2. CASE current # "stdin"  BY <1>1, <3>2 DEF LexWords, CurrentOpen, ShTypeOK
    <3>3. QED  BY <3>1, <3>2
  <2>3. ShTypeOK'  BY <1>1, <2>1, <2>2 DEF LexWords, ShTypeOK
  <2>4. QED  BY <2>2, <2>3
<1>2. CASE LexNothing
  <2>1. /\ streams' \in Seq({"script"}) /\ current' \in {"stdin", "script"} /\ CurrentOpen'
    <3>1. CASE current = "stdin"  BY <1>2, <3>1, PopSound DEF LexNothing
    <3>2. CASE current # "stdin"  BY <1>2, <3>2 DEF LexNothing, CurrentOpen, ShTypeOK
    <3>3. QED  BY <3>1, <3>2
  <2>2. ShTypeOK'  BY <1>2, <2>1 DEF LexNothing, ShTypeOK
  <2>3. QED  BY <2>1, <2>2
<1>3. CASE LexEof
  <2>1. /\ streams' \in Seq({"script"}) /\ current' \in {"stdin", "script"} /\ CurrentOpen'
    BY <1>3, PopSound DEF LexEof
  <2>2. ShTypeOK'  BY <1>3, <2>1 DEF LexEof, ShTypeOK
  <2>3. QED  BY <2>1, <2>2
<1>4. CASE LexError
  BY <1>4 DEF LexError, ShTypeOK, CurrentOpen
<1>5. QED  BY <1>1, <1>2, <1>3, <1>4 DEF LexStep

(* A command changes none of the input but for having used it. *)
LEMMA DoneInv ==
  ASSUME SInv, NEW place \in ShellPlaces, DoneTo(place)
  PROVE  SInv'
BY DEF DoneTo, SInv, ShTypeOK, CurrentOpen

LEMMA PlaceInv ==
  ASSUME SInv, sh' \in ShellPlaces, UNCHANGED <<streams, current, script, rest, buf, argv>>
  PROVE  SInv'
BY DEF SInv, ShTypeOK, CurrentOpen

LEMMA RunInv ==
  ASSUME SInv, RunStep
  PROVE  SInv'
<1>1. CASE QueueMessage
  BY <1>1, PlaceInv DEF QueueMessage, SInv, ShTypeOK, ShellPlaces
<1>2. CASE RunAstray
  BY <1>2, PlaceInv DEF RunAstray, ShellPlaces
<1>3. CASE ~ QueueMessage /\ ~ RunAstray
  <2>1. \E place \in {"read", "queue", "ended"} : DoneTo(place)
    BY <1>3 DEF RunStep, NotFound, RunLoad, RunCreate, RunOpen, RunClose, RunPlay, RunPause,
                RunExit, RunOther, Done
  <2>2. QED  BY <2>1, DoneInv DEF ShellPlaces
<1>4. QED  BY <1>1, <1>2, <1>3

LEMMA ShNextInv == SInv /\ [Next]_vars => SInv'
<1> SUFFICES ASSUME SInv, [Next]_vars PROVE SInv'
  OBVIOUS
<1>1. CASE PushStream \/ ReadScript \/ \E line \in Typed : ReadTerm(line)
  BY <1>1, InputInv
<1>2. CASE LexStep
  BY <1>2, LexInv
<1>3. CASE RunStep
  BY <1>3, RunInv
<1>4. CASE Initialise \/ PlayerStep \/ UNCHANGED vars
  <2>1. UNCHANGED svars  BY <1>4 DEF Initialise, PlayerStep, vars
  <2>2. QED  BY <2>1, PlaceInv DEF svars, SInv, ShTypeOK
<1>5. CASE Flush \/ PlayerAstray
  BY <1>5, PlaceInv DEF Flush, PlayerAstray, SInv, ShTypeOK, ShellPlaces
<1>6. QED  BY <1>1, <1>2, <1>3, <1>4, <1>5 DEF Next, MainStep

LEMMA SInvAlways == Spec => []SInv
  BY ShInitInv, ShNextInv, PTL DEF Spec

-----------------------------------------------------------------------------
(* The shell's own messages and flushes are the queue's, and the playing   *)
(* thread is one of its threads.                                           *)
LEMMA QueueStep == [Next]_vars => [QNext]_qvars
<1> SUFFICES ASSUME [Next]_vars PROVE [QNext]_qvars
  OBVIOUS
<1> USE ShellAssumption, ThreadsAssumption DEF QSame
<1>1. CASE Initialise \/ PushStream \/ ReadScript \/ \E line \in Typed : ReadTerm(line)
  BY <1>1 DEF Initialise, PushStream, ReadScript, ReadTerm
<1>2. CASE Flush
  BY <1>2 DEF Flush, QNext
<1>3. CASE LexStep
  BY <1>3 DEF LexStep, LexWords, LexNothing, LexEof, LexError
<1>4. CASE RunStep
  <2>1. CASE RunPlay
    BY <2>1 DEF RunPlay, QNext
  <2>2. CASE RunPause
    BY <2>2 DEF RunPause, QNext, Queueing
  <2>3. CASE QueueMessage
    BY <2>3 DEF QueueMessage, QNext, Queueing
  <2>4. CASE \/ NotFound \/ RunLoad \/ RunCreate \/ RunOpen \/ RunClose \/ RunExit \/ RunOther
             \/ RunAstray
    BY <2>4 DEF NotFound, RunLoad, RunCreate, RunOpen, RunClose, RunExit, RunOther, RunAstray
  <2>5. QED  BY <1>4, <2>1, <2>2, <2>3, <2>4 DEF RunStep
<1>5. CASE PlayerStep \/ PlayerAstray
  BY <1>5 DEF PlayerStep, PlayerAstray, QNext
<1>6. CASE UNCHANGED vars
  BY <1>6 DEF vars
<1>7. QED  BY <1>1, <1>2, <1>3, <1>4, <1>5, <1>6 DEF Next, MainStep

(* Only mlib_init() and load change the registry. *)
LEMMA RegistryStep == SInv /\ [Next]_vars => [RNext]_rvars
<1> SUFFICES ASSUME SInv, [Next]_vars PROVE [RNext]_rvars
  OBVIOUS
<1> USE DEF RSame
<1>1. CASE Initialise
  BY <1>1 DEF Initialise, RNext
<1>2. CASE \/ PushStream \/ ReadScript \/ Flush \/ LexStep \/ PlayerStep \/ PlayerAstray
           \/ \E line \in Typed : ReadTerm(line)
  BY <1>2 DEF PushStream, ReadScript, ReadTerm, Flush, LexStep, LexWords, LexNothing, LexEof,
              LexError, PlayerStep, PlayerAstray
<1>3. CASE RunStep
  <2>1. CASE RunLoad
    <3>1. argv.arg[1] \in Modules
      BY <2>1, RunsRead DEF RunLoad, Runs, ArgsSound
    <3>2. QED  BY <2>1, <3>1 DEF RunLoad, RNext
  <2>2. CASE \/ NotFound \/ RunCreate \/ RunOpen \/ RunClose \/ RunPlay \/ RunPause
             \/ QueueMessage \/ RunExit \/ RunOther \/ RunAstray
    BY <2>2 DEF NotFound, RunCreate, RunOpen, RunClose, RunPlay, RunPause, QueueMessage, RunExit,
                RunOther, RunAstray
  <2>3. QED  BY <1>3, <2>1, <2>2 DEF RunStep
<1>4. CASE UNCHANGED vars
  BY <1>4 DEF vars
<1>5. QED  BY <1>1, <1>2, <1>3, <1>4 DEF Next, MainStep

(* Only create, open and close change the libraries. *)
LEMMA LibraryStep == SInv /\ [Next]_vars => [LNext]_lvars
<1> SUFFICES ASSUME SInv, [Next]_vars PROVE [LNext]_lvars
  OBVIOUS
<1> USE DEF LSame
<1>1. CASE \/ Initialise \/ PushStream \/ ReadScript \/ Flush \/ LexStep \/ PlayerStep
           \/ PlayerAstray \/ \E line \in Typed : ReadTerm(line)
  BY <1>1 DEF Initialise, PushStream, ReadScript, ReadTerm, Flush, LexStep, LexWords, LexNothing,
              LexEof, LexError, PlayerStep, PlayerAstray
<1>2. CASE RunStep
  <2>1. CASE RunCreate
    <3>1. argv.arg[1] \in LibFiles /\ argv.arg[2] \in LibNames
      BY <2>1, RunsRead DEF RunCreate, Runs, ArgsSound
    <3>2. QED  BY <2>1, <3>1 DEF RunCreate, LNext
  <2>2. CASE RunOpen
    <3>1. argv.arg[1] \in LibFiles
      BY <2>2, RunsRead DEF RunOpen, Runs, ArgsSound
    <3>2. QED  BY <2>2, <3>1 DEF RunOpen, LNext
  <2>3. CASE RunClose
    <3>1. argv.arg[1] \in LibNames
      BY <2>3, RunsRead DEF RunClose, Runs, ArgsSound
    <3>2. QED  BY <2>3, <3>1 DEF RunClose, LNext
  <2>4. CASE \/ NotFound \/ RunLoad \/ RunPlay \/ RunPause \/ QueueMessage \/ RunExit \/ RunOther
             \/ RunAstray
    BY <2>4 DEF NotFound, RunLoad, RunPlay, RunPause, QueueMessage, RunExit, RunOther, RunAstray
  <2>5. QED  BY <1>2, <2>1, <2>2, <2>3, <2>4 DEF RunStep
<1>3. CASE UNCHANGED vars
  BY <1>3 DEF vars
<1>4. QED  BY <1>1, <1>2, <1>3 DEF Next, MainStep

LEMMA InitParts == Init => QInit /\ RInit /\ LInit
BY DEF Init

-----------------------------------------------------------------------------
(* The shell implements its parts: seen through their variables alone, its *)
(* behaviours are theirs, whatever is typed.                               *)
THEOREM ShellImplementsQueue == Spec => QSpec
BY InitParts, QueueStep, PTL DEF Spec, QSpec
THEOREM ShellImplementsRegistry == Spec => RSpec
BY InitParts, RegistryStep, SInvAlways, PTL DEF Spec, RSpec
THEOREM ShellImplementsLibraries == Spec => LSpec
BY InitParts, LibraryStep, SInvAlways, PTL DEF Spec, LSpec

(* In the shell no accepted message is lost, doubled or reordered          *)
(* (mlib_queue_printf).                                                    *)
THEOREM ShellEachOnce == Spec => []EachOnce
BY ShellImplementsQueue, EachOnceAlways, PTL
(* In the shell the command list is in strict order                        *)
(* (mlib_command_register).                                                *)
THEOREM ShellCommandsSorted == Spec => []CommandsSorted
BY ShellImplementsRegistry, CommandsSortedAlways, PTL
(* In the shell no list holds a node of a closed file, but for those of    *)
(* modules whose init failed late (mlib_load_module).                      *)
THEOREM ShellListsSound == Spec => []ListsSound
BY ShellImplementsRegistry, ListsSoundAlways, PTL
(* In the shell open libraries have names of their own and are mapped      *)
(* (mlib_open_library, mlib_close_library).                                *)
THEOREM ShellOpenSound == Spec => []OpenSound
BY ShellImplementsLibraries, OpenSoundAlways, PTL
(* In the shell asking for a library by its name finds it, or an older one *)
(* whose name is a beginning of that name (mlib_find_library).             *)
THEOREM ShellFindsNamed == Spec => []FindsNamed
BY ShellImplementsLibraries, FindsNamedAlways, PTL
(* What the shell reads from is open, for any scripts and typed lines      *)
(* (mlib_push_stream, mlib_pop_stream).                                    *)
THEOREM CurrentOpenAlways == Spec => []CurrentOpen
<1>1. SInv => CurrentOpen  BY DEF SInv
<1>2. QED  BY <1>1, SInvAlways, PTL
(* The shell and its parts stay well typed. *)
THEOREM ShellTyped == Spec => []TypeOK
<1>1. QTypeOK /\ RInv /\ LInv /\ SInv => TypeOK
  BY DEF RInv, LInv, SInv, ShTypeOK, TypeOK
<1>2. QED
  BY <1>1, ShellImplementsQueue, QueueTyped, ShellImplementsRegistry, RInvAlways,
     ShellImplementsLibraries, LInvAlways, SInvAlways, PTL

-----------------------------------------------------------------------------
(* A script is run whole. *)

(* How far the script is read, and the command that waits to be run: read, *)
(* or still in the lexer's buffer.                                         *)
NrRead == Len(script.lines) - Len(rest)
Waiting == argv # Blank \/ buf \notin {Blank, Eof}
Waits == IF argv # Blank THEN argv ELSE buf

(* Before a script is opened, ... *)
Starting ==
  /\ sh = "start" /\ current = "stdin" /\ streams = <<>>
  /\ ran = <<>> /\ rest = <<>> /\ buf = Blank /\ argv = Blank
  /\ script \in Scripts
(* ... at the terminal, when it is forgotten, ... *)
AtTerminal ==
  /\ sh # "start" /\ script = NoScript /\ ran = <<>> /\ current = "stdin"
  /\ sh \in {"read", "queue", "flush", "lex"} => argv = Blank
  /\ sh = "run" => buf # Eof
(* ... and while it is read: the commands up to where it is read are those *)
(* that were run and the one that waits.                                   *)
Tallied ==
  /\ Len(rest) <= Len(script.lines)
  /\ \A i \in 1 .. Len(rest) : rest[i] = script.lines[NrRead + i]
  /\ NrCommands(NrRead) = Len(ran) + (IF Waiting THEN 1 ELSE 0)
  /\ Waiting => NrRead # 0 /\ script.lines[NrRead] = Waits
  /\ \A k \in 1 .. NrRead :
       script.lines[k] # Blank /\ NrCommands(k) <= Len(ran) =>
         ran[NrCommands(k)] = script.lines[k]
Placed ==
  /\ sh # "start" /\ script \in Scripts /\ ran \in Seq(Input)
  /\ IF current = "script" THEN streams = <<"script">> ELSE rest = <<>>
  /\ sh = "queue" => argv = Blank /\ buf = Blank
  /\ sh = "read" => IF argv = Blank THEN buf = Blank ELSE current = "script" /\ rest = <<>>
  /\ sh \in {"flush", "lex"} => /\ current = "script"
                                /\ argv # Blank => buf = Eof
                                /\ buf = Eof => rest = <<>>
  /\ sh = "run" => argv # Blank /\ (current = "script" \/ buf = Eof)
InScript == Placed /\ Tallied
ScriptInv == Starting \/ AtTerminal \/ InScript

-----------------------------------------------------------------------------
(* Counting the commands of a script. *)
Upto(n) == {k \in 1 .. n : script.lines[k] # Blank}

LEMMA CountFacts ==
  ASSUME NEW n \in Nat
  PROVE  /\ IsFiniteSet(Upto(n)) /\ NrCommands(n) = Cardinality(Upto(n)) /\ NrCommands(n) \in Nat
         /\ NrCommands(0) = 0
<1>1. IsFiniteSet(1 .. n)
  BY FS_Interval
<1>2. IsFiniteSet(Upto(n))
  BY <1>1, FS_Subset DEF Upto
<1>3. NrCommands(n) = Cardinality(Upto(n))
  BY DEF NrCommands, Upto
<1>4. {k \in 1 .. 0 : script.lines[k] # Blank} = {}
  OBVIOUS
<1> QED
  BY <1>2, <1>3, <1>4, FS_CardinalityType, FS_EmptySet DEF NrCommands

LEMMA CountNext ==
  ASSUME NEW n \in Nat
  PROVE  NrCommands(n + 1) = IF script.lines[n + 1] = Blank THEN NrCommands(n)
                                                            ELSE NrCommands(n) + 1
<1>1. CASE script.lines[n + 1] = Blank
  <2>1. Upto(n + 1) = Upto(n)
    BY <1>1 DEF Upto
  <2> QED
    BY <1>1, <2>1 DEF NrCommands, Upto
<1>2. CASE script.lines[n + 1] # Blank
  <2>1. Upto(n + 1) = Upto(n) \cup {n + 1} /\ n + 1 \notin Upto(n)
    BY <1>2 DEF Upto
  <2>2. Cardinality(Upto(n + 1)) = Cardinality(Upto(n)) + 1
    BY <2>1, CountFacts, FS_AddElement
  <2> QED
    BY <1>2, <2>2, CountFacts
<1> QED
  BY <1>1, <1>2

LEMMA CountGrows ==
  ASSUME NEW m \in Nat, NEW n \in Nat, m <= n
  PROVE  NrCommands(m) <= NrCommands(n)
<1>1. Upto(m) \subseteq Upto(n)
  BY DEF Upto
<1> QED
  BY <1>1, CountFacts, FS_Subset

(* A command behind line n has a higher number than there are up to n. *)
LEMMA CountBehind ==
  ASSUME NEW n \in Nat, NEW k \in Nat, n < k, script.lines[k] # Blank
  PROVE  NrCommands(n) < NrCommands(k)
<1>1. PICK j : j = k - 1
  OBVIOUS
<1>2. j \in Nat /\ n <= j /\ k = j + 1
  BY <1>1
<1>3. NrCommands(k) = NrCommands(j) + 1 /\ NrCommands(n) <= NrCommands(j)
  BY <1>2, CountNext, CountGrows
<1> QED
  BY <1>2, <1>3, CountFacts

LEMMA ScriptTyped ==
  ASSUME script \in Scripts
  PROVE  /\ script.lines \in Seq(Input) /\ Len(script.lines) \in Nat
         /\ \A i \in 1 .. Len(script.lines) : script.lines[i] # Eof
<1>1. script.lines \in Seq(Input) /\ Eof \notin Listed(script.lines)
  BY ShellAssumption
<1> QED
  BY <1>1 DEF Listed

(* The count says that the script was run whole. *)
LEMMA TalliedWhole ==
  ASSUME script \in Scripts, ran \in Seq(Input), rest \in Seq(Input), Tallied
  PROVE  /\ Len(ran) <= NrCommands(Len(script.lines))
         /\ \A k \in DOMAIN script.lines :
              script.lines[k] # Blank /\ NrCommands(k) <= Len(ran) =>
                ran[NrCommands(k)] = script.lines[k]
         /\ ~ Waiting /\ rest = <<>> => Len(ran) = NrCommands(Len(script.lines))
<1>1. PICK n, all : n = NrRead /\ all = Len(script.lines)
  OBVIOUS
<1>2. /\ n \in Nat /\ all \in Nat /\ n <= all /\ DOMAIN script.lines = 1 .. all
      /\ Len(ran) \in Nat /\ (rest = <<>> => n = all)
  BY <1>1, ScriptTyped DEF Tallied, NrRead
<1>3. NrCommands(n) <= NrCommands(all) /\ NrCommands(n) \in Nat /\ NrCommands(all) \in Nat
  BY <1>2, CountGrows, CountFacts
<1>4. NrCommands(n) = Len(ran) + (IF Waiting THEN 1 ELSE 0)
  BY <1>1 DEF Tallied
<1>5. Len(ran) <= NrCommands(n) /\ (~ Waiting => Len(ran) = NrCommands(n))
  BY <1>2, <1>3, <1>4
<1>6. ASSUME NEW k \in 1 .. all, script.lines[k] # Blank, NrCommands(k) <= Len(ran)
      PROVE  ran[NrCommands(k)] = script.lines[k]
  <2>1. CASE k <= n
    BY <1>1, <1>2, <1>6, <2>1 DEF Tallied
  <2>2. CASE n < k
    <3>1. k \in Nat
      BY <1>2
    <3>2. NrCommands(n) < NrCommands(k)
      BY <1>2, <1>6, <2>2, <3>1, CountBehind
    <3>3. NrCommands(k) \in Nat
      BY <3>1, CountFacts
    <3> QED
      BY <1>2, <1>3, <1>5, <1>6, <3>2, <3>3
  <2> QED
    BY <1>2, <2>1, <2>2
<1>7. ~ Waiting /\ rest = <<>> => Len(ran) = NrCommands(all)
  BY <1>2, <1>5
<1> QED
  BY <1>1, <1>2, <1>3, <1>5, <1>6, <1>7

LEMMA ScriptInvWhole == SInv /\ ScriptInv => ScriptWhole
<1> SUFFICES ASSUME SInv, ScriptInv PROVE ScriptWhole
  OBVIOUS
<1>1. CASE Starting
  <2>1. Len(script.lines) \in Nat /\ Len(ran) = 0 /\ DOMAIN script.lines = 1 .. Len(script.lines)
    BY <1>1, ScriptTyped DEF Starting
  <2>2. ASSUME NEW k \in DOMAIN script.lines, script.lines[k] # Blank PROVE 0 < NrCommands(k)
    <3>1. 0 \in Nat /\ k \in Nat /\ 0 < k
      BY <2>1
    <3> QED
      BY <2>2, <3>1, CountBehind, CountFacts
  <2>3. NrCommands(Len(script.lines)) \in Nat
    BY <2>1, CountFacts
  <2>4. \A k \in DOMAIN script.lines : NrCommands(k) \in Nat
    BY <2>1, CountFacts
  <2> QED
    BY <1>1, <2>1, <2>2, <2>3, <2>4 DEF Starting, ScriptWhole
<1>2. CASE AtTerminal
  <2>1. script.lines = <<>> /\ Len(ran) = 0
    BY <1>2 DEF AtTerminal, NoScript
  <2>2. NrCommands(0) = 0
    BY CountFacts
  <2> QED
    BY <2>1, <2>2 DEF ScriptWhole
<1>3. CASE InScript
  <2>1. rest \in Seq(Input)
    BY DEF SInv, ShTypeOK
  <2>2. sh = "read" /\ current = "stdin" => ~ Waiting /\ rest = <<>>
    BY <1>3 DEF InScript, Placed, Waiting
  <2> QED
    BY <1>3, <2>1, <2>2, TalliedWhole DEF InScript, Placed, ScriptWhole
<1> QED
  BY <1>1, <1>2, <1>3 DEF ScriptInv
-----------------------------------------------------------------------------
(* Each step keeps the count. *)
LEMMA TalliedNext ==
  ASSUME script' = script, NEW n, n = Len(script.lines) - Len(rest'),
         Len(rest') <= Len(script.lines),
         \A i \in 1 .. Len(rest') : rest'[i] = script.lines[n + i],
         NrCommands(n) = Len(ran') + (IF Waiting' THEN 1 ELSE 0),
         Waiting' => n # 0 /\ script.lines[n] = Waits',
         \A k \in 1 .. n : script.lines[k] # Blank /\ NrCommands(k) <= Len(ran') =>
                             ran'[NrCommands(k)] = script.lines[k]
  PROVE  Tallied'
BY DEF Tallied, NrRead, NrCommands

LEMMA TalliedSame ==
  ASSUME Tallied, UNCHANGED <<script, rest, ran>>, Waiting' = Waiting, Waiting => Waits' = Waits
  PROVE  Tallied'
<1>1. PICK n : n = NrRead
  OBVIOUS
<1>2. n = Len(script.lines) - Len(rest')
  BY <1>1 DEF NrRead
<1>3. Waiting' => n # 0 /\ script.lines[n] = Waits'
  BY <1>1 DEF Tallied
<1>4. NrCommands(n) = Len(ran') + (IF Waiting' THEN 1 ELSE 0)
  BY <1>1 DEF Tallied
<1>5. /\ Len(rest') <= Len(script.lines)
      /\ \A i \in 1 .. Len(rest') : rest'[i] = script.lines[n + i]
      /\ \A k \in 1 .. n : script.lines[k] # Blank /\ NrCommands(k) <= Len(ran') =>
                             ran'[NrCommands(k)] = script.lines[k]
  BY <1>1 DEF Tallied
<1> QED
  BY <1>2, <1>3, <1>4, <1>5, TalliedNext

LEMMA TalliedOpened ==
  ASSUME script \in Scripts, ran = <<>>, buf = Blank, argv = Blank, rest' = script.lines,
         UNCHANGED <<script, ran, buf, argv>>
  PROVE  Tallied'
<1>1. PICK n : n = 0
  OBVIOUS
<1>2. Len(script.lines) \in Nat /\ rest' = script.lines /\ Len(ran') = 0
  BY ScriptTyped
<1>3. ~ Waiting'
  BY DEF Waiting
<1>4. NrCommands(n) = Len(ran') + (IF Waiting' THEN 1 ELSE 0)
  BY <1>1, <1>2, <1>3, CountFacts
<1>5. \A i \in 1 .. Len(rest') : rest'[i] = script.lines[n + i]
  BY <1>1, <1>2
<1>6. n = Len(script.lines) - Len(rest') /\ Len(rest') <= Len(script.lines)
  BY <1>1, <1>2
<1>7. \A k \in 1 .. n : FALSE
  BY <1>1
<1> QED
  BY <1>3, <1>4, <1>5, <1>6, <1>7, TalliedNext

(* Numbers of lines. *)
LEMMA LastOf == ASSUME NEW n \in Nat, NEW k \in 1 .. n + 1 PROVE k \in 1 .. n \/ k = n + 1
OBVIOUS
LEMMA NextOf ==
  ASSUME NEW l \in Nat, NEW m, m = l - 1, NEW i \in 1 .. m
  PROVE  i + 1 \in 1 .. l /\ \A n \in Nat : n + (i + 1) = (n + 1) + i
OBVIOUS
LEMMA CountIf ==
  ASSUME NEW n \in Nat
  PROVE  /\ script.lines[n + 1] = Blank => NrCommands(n + 1) = NrCommands(n)
         /\ script.lines[n + 1] # Blank => NrCommands(n + 1) = NrCommands(n) + 1
BY CountNext

(* A line is read: it waits, unless it is blank. *)
LEMMA TalliedRead ==
  ASSUME script \in Scripts, ran \in Seq(Input), rest \in Seq(Input), Tallied, rest # <<>>,
         argv = Blank, buf = Blank,
         rest' = Tail(rest), buf' = Head(rest), UNCHANGED <<script, ran, argv>>
  PROVE  Tallied'
<1>1. PICK n : n = NrRead
  OBVIOUS
<1>2. /\ n \in Nat /\ Len(script.lines) \in Nat /\ Len(rest) \in Nat /\ Len(ran) \in Nat
      /\ n = Len(script.lines) - Len(rest) /\ Len(rest) # 0
  BY <1>1, ScriptTyped DEF Tallied, NrRead
<1>3. /\ Len(rest') = Len(rest) - 1 /\ \A i \in 1 .. Len(rest') : rest'[i] = rest[i + 1]
      /\ buf' = rest[1]
  OBVIOUS
<1>4. /\ n + 1 = Len(script.lines) - Len(rest') /\ Len(rest') <= Len(script.lines)
      /\ n + 1 \in 1 .. Len(script.lines)
  BY <1>2, <1>3
<1>5. \A i \in 1 .. Len(rest) : rest[i] = script.lines[n + i]
  BY <1>1 DEF Tallied
<1>6. ASSUME NEW i \in 1 .. Len(rest') PROVE rest'[i] = script.lines[(n + 1) + i]
  <2>1. i + 1 \in 1 .. Len(rest) /\ n + (i + 1) = (n + 1) + i
    BY <1>2, <1>3, NextOf
  <2> QED
    BY <1>3, <1>5, <2>1
<1>7. buf' = script.lines[n + 1]
  BY <1>2, <1>3, <1>5
<1>8. buf' # Eof
  BY <1>4, <1>7, ScriptTyped
<1>9. (Waiting' <=> script.lines[n + 1] # Blank) /\ (Waiting' => Waits' = script.lines[n + 1])
  BY <1>7, <1>8 DEF Waiting, Waits
<1>10. ~ Waiting
  BY DEF Waiting
<1>11. NrCommands(n) = Len(ran)
  BY <1>1, <1>2, <1>10 DEF Tallied
<1>12. NrCommands(n + 1) = Len(ran') + (IF Waiting' THEN 1 ELSE 0)
  <2>1. NrCommands(n) = Len(ran') /\ Len(ran') \in Nat
    BY <1>2, <1>11
  <2>2. CASE script.lines[n + 1] = Blank
    <3>1. NrCommands(n + 1) = NrCommands(n) /\ ~ Waiting'
      BY <1>2, <1>9, <2>2, CountIf
    <3> QED
      BY <2>1, <3>1
  <2>3. CASE script.lines[n + 1] # Blank
    <3>1. NrCommands(n + 1) = NrCommands(n) + 1 /\ Waiting'
      BY <1>2, <1>9, <2>3, CountIf
    <3> QED
      BY <2>1, <3>1
  <2> QED
    BY <2>2, <2>3
<1>13. ASSUME NEW k \in 1 .. n + 1, script.lines[k] # Blank, NrCommands(k) <= Len(ran)
       PROVE  ran[NrCommands(k)] = script.lines[k]
  <2>1. CASE k = n + 1
    <3>1. NrCommands(n + 1) = NrCommands(n) + 1
      BY <1>2, <1>13, <2>1, CountIf
    <3> QED
      BY <1>2, <1>11, <1>13, <2>1, <3>1
  <2>2. CASE k # n + 1
    <3>1. k \in 1 .. n
      BY <1>2, <2>2, LastOf
    <3> QED
      BY <1>1, <1>13, <3>1 DEF Tallied
  <2> QED
    BY <2>1, <2>2
<1>14. PICK m : m = n + 1
  OBVIOUS
<1>15. m # 0 /\ (Waiting' => script.lines[m] = Waits')
  BY <1>2, <1>9, <1>14
<1>16. /\ m = Len(script.lines) - Len(rest') /\ Len(rest') <= Len(script.lines)
       /\ \A i \in 1 .. Len(rest') : rest'[i] = script.lines[m + i]
       /\ NrCommands(m) = Len(ran') + (IF Waiting' THEN 1 ELSE 0)
  BY <1>4, <1>6, <1>12, <1>14
<1>17. \A k \in 1 .. m : script.lines[k] # Blank /\ NrCommands(k) <= Len(ran') =>
                           ran'[NrCommands(k)] = script.lines[k]
  BY <1>13, <1>14
<1> QED
  BY <1>15, <1>16, <1>17, TalliedNext

(* A command is run: it is the one that waited. *)
LEMMA TalliedRan ==
  ASSUME script \in Scripts, ran \in Seq(Input), rest \in Seq(Input), Tallied,
         argv # Blank, argv' = Blank, buf' = Blank, ran' = Append(ran, argv),
         UNCHANGED <<script, rest>>
  PROVE  Tallied'
<1>1. PICK n : n = NrRead
  OBVIOUS
<1>2. /\ n \in Nat /\ Len(script.lines) \in Nat /\ Len(rest) \in Nat /\ Len(ran) \in Nat
      /\ n = Len(script.lines) - Len(rest)
  BY <1>1, ScriptTyped DEF Tallied, NrRead
<1>3. Waiting /\ Waits = argv /\ ~ Waiting'
  BY DEF Waiting, Waits
<1>4. NrCommands(n) = Len(ran) + 1 /\ n # 0 /\ script.lines[n] = argv
  BY <1>1, <1>2, <1>3 DEF Tallied
<1>5. /\ Len(ran') = Len(ran) + 1 /\ ran'[Len(ran) + 1] = argv
      /\ \A i \in 1 .. Len(ran) : ran'[i] = ran[i]
  BY <1>2
<1>6. ASSUME NEW k \in 1 .. n, script.lines[k] # Blank PROVE ran'[NrCommands(k)] = script.lines[k]
  <2>1. CASE k = n
    BY <1>4, <1>5, <2>1
  <2>2. CASE k # n
    <3>1. PICK j : j = k - 1
      OBVIOUS
    <3>2. j \in Nat /\ k \in Nat /\ k < n /\ j < k
      BY <1>2, <2>2, <3>1
    <3>3. NrCommands(k) < NrCommands(n)
      BY <1>2, <1>4, <3>2, CountBehind
    <3>4. NrCommands(j) < NrCommands(k) /\ NrCommands(j) \in Nat /\ NrCommands(k) \in Nat
      BY <1>6, <3>2, CountBehind, CountFacts
    <3>5. NrCommands(k) \in 1 .. Len(ran)
      BY <1>2, <1>4, <3>3, <3>4
    <3>6. ran[NrCommands(k)] = script.lines[k]
      <4>1. NrCommands(k) <= Len(ran)
        BY <1>2, <3>4, <3>5
      <4> QED
        BY <1>1, <1>6, <4>1 DEF Tallied
    <3> QED
      BY <1>5, <3>5, <3>6
  <2> QED
    BY <2>1, <2>2
<1>7. NrCommands(n) = Len(ran') + (IF Waiting' THEN 1 ELSE 0)
  BY <1>3, <1>4, <1>5
<1>8. /\ n = Len(script.lines) - Len(rest') /\ Len(rest') <= Len(script.lines)
      /\ \A i \in 1 .. Len(rest') : rest'[i] = script.lines[n + i]
  BY <1>1 DEF Tallied, NrRead
<1> QED
  BY <1>3, <1>6, <1>7, <1>8, TalliedNext
LEMMA InScriptParts == /\ InScript <=> Placed /\ Tallied
                       /\ Placed' /\ Tallied' => InScript'
<1>1. InScript <=> Placed /\ Tallied
  BY DEF InScript
<1> QED
  BY <1>1, PTL

LEMMA ScriptStill ==
  ASSUME ScriptInv, UNCHANGED svars
  PROVE  ScriptInv'
<1>1. UNCHANGED <<sh, streams, current, script, rest, buf, argv, ran>>
  BY DEF svars
<1>2. CASE Starting
  BY <1>1, <1>2 DEF Starting, ScriptInv
<1>3. CASE AtTerminal
  BY <1>1, <1>3 DEF AtTerminal, ScriptInv
<1>4. CASE InScript
  <2>1. Waiting' = Waiting /\ Waits' = Waits
    BY <1>1 DEF Waiting, Waits
  <2>2. Tallied'
    BY <1>1, <1>4, <2>1, TalliedSame, InScriptParts
  <2>3. Placed'
    BY <1>1, <1>4, InScriptParts DEF Placed
  <2> QED
    BY <2>2, <2>3, InScriptParts DEF ScriptInv
<1> QED
  BY <1>2, <1>3, <1>4 DEF ScriptInv

(* The shell ends, wherever it is. *)
LEMMA ScriptAstray ==
  ASSUME SInv, ScriptInv, RunAstray \/ PlayerAstray
  PROVE  ScriptInv'
<1>1. sh' = "ended" /\ UNCHANGED <<streams, current, script, rest, buf, argv, ran>>
  BY DEF RunAstray, PlayerAstray
<1>2. sh # "start"
  BY DEF RunAstray, PlayerAstray
<1>3. CASE AtTerminal
  BY <1>1, <1>3 DEF AtTerminal, ScriptInv
<1>4. CASE InScript
  <2>1. Waiting' = Waiting /\ Waits' = Waits
    BY <1>1 DEF Waiting, Waits
  <2>2. Tallied'
    BY <1>1, <1>4, <2>1, TalliedSame, InScriptParts
  <2>3. Placed'
    BY <1>1, <1>4, InScriptParts DEF Placed
  <2> QED
    BY <2>2, <2>3, InScriptParts DEF ScriptInv
<1> QED
  BY <1>2, <1>3, <1>4 DEF ScriptInv, Starting

LEMMA ScriptInput ==
  ASSUME SInv, ScriptInv, PushStream \/ ReadScript \/ \E line \in Typed : ReadTerm(line)
  PROVE  ScriptInv'
<1>1. rest \in Seq(Input)
  BY DEF SInv, ShTypeOK
<1>2. CASE PushStream
  <2>1. Starting
    BY <1>2 DEF PushStream, ScriptInv, AtTerminal, InScript, Placed
  <2>2. CASE streams' = <<"script">> \o streams /\ current' = "script" /\ rest' = script.lines
             /\ UNCHANGED script
    <3>1. Tallied'
      BY <1>2, <2>1, <2>2, TalliedOpened DEF Starting, PushStream
    <3>2. streams' = <<"script">>
      BY <2>1, <2>2 DEF Starting
    <3>3. Placed'
      BY <1>2, <2>1, <2>2, <3>2 DEF Starting, PushStream, Placed
    <3> QED
      BY <3>1, <3>3, InScriptParts DEF ScriptInv
  <2>3. CASE script' = NoScript /\ UNCHANGED <<streams, current, rest>>
    BY <1>2, <2>1, <2>3 DEF Starting, PushStream, AtTerminal, ScriptInv
  <2> QED
    BY <1>2, <2>2, <2>3 DEF PushStream
<1>3. CASE ReadScript
  <2>1. InScript
    BY <1>3 DEF ReadScript, ScriptInv, Starting, AtTerminal
  <2>2. sh = "read" /\ sh' = "flush" /\ current = "script"
        /\ UNCHANGED <<streams, current, script, argv, ran>>
    BY <1>3 DEF ReadScript
  <2>3. CASE rest = <<>>
    <3>1. buf' = Eof /\ rest' = <<>>
      BY <1>3, <2>3 DEF ReadScript
    <3>2. Waiting' = Waiting /\ (Waiting => Waits' = Waits)
      BY <2>1, <2>2, <3>1 DEF InScript, Placed, Waiting, Waits
    <3>3. Tallied'
      BY <2>1, <2>2, <2>3, <3>1, <3>2, TalliedSame, InScriptParts
    <3>4. Placed'
      BY <2>1, <2>2, <3>1 DEF InScript, Placed
    <3> QED
      BY <3>3, <3>4, InScriptParts DEF ScriptInv
  <2>4. CASE rest # <<>>
    <3>1. buf' = Head(rest) /\ rest' = Tail(rest) /\ argv = Blank /\ buf = Blank
      BY <1>3, <2>1, <2>2, <2>4 DEF ReadScript, InScript, Placed
    <3>2. Tallied'
      BY <1>1, <2>1, <2>2, <2>4, <3>1, TalliedRead DEF InScript, Placed
    <3>3. buf' # Eof
      <4>1. script \in Scripts /\ Len(rest) \in Nat /\ Len(rest) # 0 /\ Head(rest) = rest[1]
        BY <1>1, <2>1, <2>4 DEF InScript, Placed
      <4>2. /\ Len(rest) <= Len(script.lines)
            /\ \A i \in 1 .. Len(rest) : rest[i] = script.lines[NrRead + i]
        BY <2>1 DEF InScript, Placed, Tallied
      <4>3. Len(script.lines) \in Nat /\ NrRead + 1 \in 1 .. Len(script.lines)
        BY <4>1, <4>2, ScriptTyped DEF NrRead
      <4>4. buf' = script.lines[NrRead + 1]
        BY <3>1, <4>1, <4>2
      <4> QED
        BY <4>1, <4>3, <4>4, ScriptTyped
    <3>4. Placed'
      BY <2>1, <2>2, <3>1, <3>3 DEF InScript, Placed
    <3> QED
      BY <3>2, <3>4, InScriptParts DEF ScriptInv
  <2> QED
    BY <2>3, <2>4
<1>4. ASSUME NEW line \in Typed, ReadTerm(line)
      PROVE  ScriptInv'
  <2>1. argv = Blank
    BY <1>4 DEF ReadTerm, ScriptInv, Starting, AtTerminal, InScript, Placed
  <2> QED
    BY <1>4, <2>1 DEF ReadTerm, AtTerminal, ScriptInv
<1> QED
  BY <1>2, <1>3, <1>4

LEMMA ScriptFlush ==
  ASSUME SInv, ScriptInv, Flush
  PROVE  ScriptInv'
<1>1. sh = "flush" /\ sh' \in {"flush", "lex"}
      /\ UNCHANGED <<streams, current, script, rest, buf, argv, ran>>
  BY DEF Flush
<1>2. CASE AtTerminal
  BY <1>1, <1>2 DEF AtTerminal, ScriptInv
<1>3. CASE InScript
  <2>1. Waiting' = Waiting /\ Waits' = Waits
    BY <1>1 DEF Waiting, Waits
  <2>2. Tallied'
    BY <1>1, <1>3, <2>1, TalliedSame, InScriptParts
  <2>3. Placed'
    BY <1>1, <1>3 DEF InScript, Placed
  <2> QED
    BY <2>2, <2>3, InScriptParts DEF ScriptInv
<1> QED
  BY <1>1, <1>2, <1>3 DEF ScriptInv, Starting

LEMMA ScriptLex ==
  ASSUME SInv, ScriptInv, LexStep
  PROVE  ScriptInv'
<1>1. sh = "lex" /\ sh' \in {"read", "run", "ended"} /\ UNCHANGED <<script, rest, ran>>
  BY DEF LexStep, LexWords, LexNothing, LexEof, LexError
<1>2. CASE AtTerminal
  <2>1. current = "stdin" /\ argv = Blank /\ script = NoScript /\ ran = <<>>
    BY <1>1, <1>2 DEF AtTerminal
  <2>2. current' = "stdin"
    BY <2>1 DEF LexStep, LexWords, LexNothing, LexEof, LexError, PopStream
  <2>3. (sh' = "read" => argv' = Blank) /\ (sh' = "run" => buf' # Eof)
    BY <2>1 DEF LexStep, LexWords, LexNothing, LexEof, LexError, Eof, Line, Unterminated
  <2> QED
    BY <1>1, <2>1, <2>2, <2>3 DEF AtTerminal, ScriptInv
<1>3. CASE InScript
  <2>1. current = "script" /\ streams = <<"script">>
    BY <1>1, <1>3 DEF InScript, Placed
  <2>2. Waiting' = Waiting /\ (Waiting => Waits' = Waits)
    BY <1>1, <1>3, <2>1 DEF LexStep, LexWords, LexNothing, LexEof, LexError, InScript, Placed, Waiting,
                            Waits, Eof, Blank, Bad, Line
  <2>3. Tallied'
    BY <1>1, <1>3, <2>2, TalliedSame, InScriptParts
  <2>4. CASE LexWords
    <3>1. UNCHANGED <<streams, current, buf>> /\ argv' = buf /\ buf # Blank
          /\ sh' = IF rest = <<>> /\ ~ script.ended THEN "read" ELSE "run"
      BY <2>1, <2>4 DEF LexWords, Unterminated, Blank, Line
    <3> QED
      BY <1>1, <1>3, <2>1, <2>3, <3>1, InScriptParts DEF InScript, Placed, ScriptInv
  <2>5. CASE LexNothing
    <3>1. UNCHANGED <<streams, current, buf, argv>> /\ sh' = "read" /\ buf = Blank
      BY <2>1, <2>5 DEF LexNothing
    <3>2. argv = Blank
      BY <1>1, <1>3, <3>1 DEF InScript, Placed, Blank, Eof, Line
    <3> QED
      BY <1>1, <1>3, <2>1, <2>3, <3>1, <3>2, InScriptParts DEF InScript, Placed, ScriptInv
  <2>6. CASE LexEof
    <3>1. streams' = <<>> /\ current' = "stdin"
      BY <2>1, <2>6 DEF LexEof, PopStream
    <3>2. argv' = argv /\ buf = Eof /\ sh' = (IF argv = Blank THEN "read" ELSE "run")
          /\ buf' = IF argv = Blank THEN Blank ELSE Eof
      BY <2>6, <3>1 DEF LexEof
    <3>3. rest = <<>>
      BY <1>1, <1>3, <3>2 DEF InScript, Placed
    <3>4. Placed'
      BY <1>1, <1>3, <3>1, <3>2, <3>3 DEF InScript, Placed
    <3> QED
      BY <2>3, <3>4, InScriptParts DEF ScriptInv
  <2>7. CASE LexError
    <3>1. UNCHANGED <<streams, current, buf, argv>> /\ sh' = "ended"
      BY <2>7 DEF LexError
    <3> QED
      BY <1>1, <1>3, <2>1, <2>3, <3>1, InScriptParts DEF InScript, Placed, ScriptInv
  <2> QED
    BY <2>4, <2>5, <2>6, <2>7 DEF LexStep
<1> QED
  BY <1>1, <1>2, <1>3 DEF ScriptInv, Starting

LEMMA ScriptDone ==
  ASSUME SInv, ScriptInv, sh = "run", NEW place \in {"read", "queue", "ended"}, DoneTo(place)
  PROVE  ScriptInv'
<1>1. sh' = place /\ argv' = Blank /\ buf' = Blank /\ UNCHANGED <<streams, current, script, rest>>
      /\ ran' = IF FromScript THEN Append(ran, argv) ELSE ran
  BY DEF DoneTo
<1>2. CASE AtTerminal
  BY <1>1, <1>2 DEF AtTerminal, FromScript, ScriptInv
<1>3. CASE InScript
  <2>1. argv # Blank /\ FromScript /\ script \in Scripts /\ ran \in Seq(Input)
    BY <1>3 DEF InScript, Placed, FromScript
  <2>2. rest \in Seq(Input) /\ argv \in Input
    BY <2>1 DEF SInv, ShTypeOK
  <2>3. ran' = Append(ran, argv) /\ ran' \in Seq(Input)
    BY <1>1, <2>1, <2>2
  <2>4. Tallied'
    BY <1>1, <1>3, <2>1, <2>2, <2>3, TalliedRan, InScriptParts
  <2>5. Placed'
    BY <1>1, <1>3, <2>3 DEF InScript, Placed
  <2> QED
    BY <2>4, <2>5, InScriptParts DEF ScriptInv
<1> QED
  BY <1>2, <1>3 DEF ScriptInv, Starting

LEMMA ScriptRun ==
  ASSUME SInv, ScriptInv, RunStep
  PROVE  ScriptInv'
<1>1. CASE QueueMessage
  <2>1. sh = "queue" /\ sh' \in {"queue", "read"}
        /\ UNCHANGED <<streams, current, script, rest, buf, argv, ran>>
    BY <1>1 DEF QueueMessage
  <2>2. CASE AtTerminal
    BY <2>1, <2>2 DEF AtTerminal, ScriptInv
  <2>3. CASE InScript
    <3>1. Waiting' = Waiting /\ Waits' = Waits
      BY <2>1 DEF Waiting, Waits
    <3>2. Tallied'
      BY <2>1, <2>3, <3>1, TalliedSame, InScriptParts
    <3>3. Placed'
      BY <2>1, <2>3 DEF InScript, Placed
    <3> QED
      BY <3>2, <3>3, InScriptParts DEF ScriptInv
  <2> QED
    BY <2>1, <2>2, <2>3 DEF ScriptInv, Starting
<1>2. CASE RunAstray
  BY <1>2, ScriptAstray
<1>3. CASE ~ QueueMessage /\ ~ RunAstray
  <2>1. sh = "run" /\ \E place \in {"read", "queue", "ended"} : DoneTo(place)
    BY <1>3 DEF RunStep, NotFound, RunLoad, RunCreate, RunOpen, RunClose, RunPlay, RunPause,
                RunExit, RunOther, Done, Runs
  <2> QED
    BY <2>1, ScriptDone
<1> QED
  BY <1>1, <1>2, <1>3

LEMMA ScriptNext == SInv /\ ScriptInv /\ [Next]_vars => ScriptInv'
<1> SUFFICES ASSUME SInv, ScriptInv, [Next]_vars PROVE ScriptInv'
  OBVIOUS
<1>1. CASE Initialise \/ PlayerStep \/ UNCHANGED vars
  <2>1. UNCHANGED svars
    BY <1>1 DEF Initialise, PlayerStep, vars
  <2> QED
    BY <2>1, ScriptStill
<1>2. CASE PushStream \/ ReadScript \/ \E line \in Typed : ReadTerm(line)
  BY <1>2, ScriptInput
<1>3. CASE Flush
  BY <1>3, ScriptFlush
<1>4. CASE LexStep
  BY <1>4, ScriptLex
<1>5. CASE RunStep
  BY <1>5, ScriptRun
<1>6. CASE PlayerAstray
  BY <1>6, ScriptAstray
<1> QED
  BY <1>1, <1>2, <1>3, <1>4, <1>5, <1>6 DEF Next, MainStep

(* A script that was opened is run whole, in its order, nothing twice, for *)
(* every script and wherever its last line ends (mlib_readbuf,             *)
(* mlib_read_line, mlib_loop, mlib_pop_stream).                            *)
THEOREM ScriptWholeAlways == Spec => []ScriptWhole
<1>1. Init => ScriptInv
  BY DEF Init, Starting, ScriptInv
<1> QED
  BY <1>1, ScriptNext, SInvAlways, ScriptInvWhole, PTL DEF Spec
=============================================================================

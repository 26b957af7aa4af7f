------------------------------ MODULE Registry ------------------------------
(***************************************************************************)
(* command.c and module.c: the commands the shell knows, kept in           *)
(* alphabetical order, and the modules it has loaded, with what their init *)
(* functions register.  Nothing is ever unregistered, so whatever is in a  *)
(* list has to stay mapped; but a module whose init fails is closed with   *)
(* what its init had registered, and whoever meets such a node then reads  *)
(* what is not there.  No step here does: what happens next is the shell's *)
(* end (Shell).                                                            *)
(***************************************************************************)
EXTENDS Naturals, Sequences

CONSTANTS
  Words,    \* command names
  Rank,     \* the place of each in strcmp's order
  BuiltIn,  \* what mlib_init() registers, in its order
  Modules,  \* files given to load
  Kind,     \* what is in each
  NoWord,   \* of a module without a command
  Core,     \* owner of the built in commands
  MaxRefs   \* bound: times one file is counted to be open

KindOf == [desc : BOOLEAN,   \* there is a __mlib_module_desc__
           named : BOOLEAN,  \* and it has a name
           engine : {"none", "good", "useless"},  \* the engine init registers
           word : Words \cup {NoWord},            \* the command it registers
           fails : BOOLEAN]                       \* init fails though they succeed

ASSUME WordsAssumption ==
  /\ NoWord \notin Words /\ Rank \in [Words -> Nat]
  /\ \A v, w \in Words : Rank[v] = Rank[w] => v = w
ASSUME ModulesAssumption ==
  Core \notin Modules /\ Kind \in [Modules -> KindOf] /\ MaxRefs \in Nat \ {0}
ASSUME BuiltInAssumption == BuiltIn \in Seq(Words)

VARIABLES
  commands,  \* mlib_command_list: names, and who they belong to
  inited,    \* how many of the built in commands are registered
  modules,   \* mlib_modules
  engines,   \* mlib_engines, by the module each is part of
  refs       \* how often dlopen() has the file open

rvars == <<commands, inited, modules, engines, refs>>

Command == [word : Words, owner : Modules \cup {Core}]
Listed(s) == {s[i] : i \in DOMAIN s}

(* The list is walked up to the first greater name: one equal to the new   *)
(* name is met on the way, or the new one goes in there.                   *)
(* Mutants: the walk ends at the first name that is not greater; equal     *)
(* names are not looked at.                                                *)
PlaceForMutant(cmds, w) ==
  LET later == {i \in DOMAIN cmds : Rank[cmds[i].word] < Rank[w]}
  IN IF later = {} THEN Len(cmds) + 1 ELSE CHOOSE i \in later : \A j \in later : i <= j
PlaceFor(cmds, w) ==
  LET later == {i \in DOMAIN cmds : Rank[w] < Rank[cmds[i].word]}
  IN IF later = {} THEN Len(cmds) + 1 ELSE CHOOSE i \in later : \A j \in later : i <= j
Known(cmds, w) == \E i \in 1 .. PlaceFor(cmds, w) - 1 : cmds[i].word = w
mlib_command_register(cmds, w, who) ==
  LET k == PlaceFor(cmds, w)
      new == [word |-> w, owner |-> who]
  IN IF Known(cmds, w) THEN cmds
     ELSE [i \in 1 .. Len(cmds) + 1 |->
             IF i < k THEN cmds[i] ELSE IF i = k THEN new ELSE cmds[i - 1]]

(* The walk to a command looks at every node up to it.  A node is gone     *)
(* when the file it is in has been closed.                                 *)
mlib_find_command(w) == \E i \in DOMAIN commands : commands[i].word = w
Gone(who) == who # Core /\ refs[who] = 0
FindMeets(w) ==
  \E i \in DOMAIN commands : /\ Gone(commands[i].owner)
                             /\ \A j \in 1 .. i - 1 : commands[j].word # w

RInit ==
  /\ commands = <<>> /\ inited = 0
  /\ modules = <<>> /\ engines = <<>>
  /\ refs = [f \in Modules |-> 0]

(* mlib_init(): one registration after another, none of them looked at. *)
InitCommand ==
  /\ inited < Len(BuiltIn)
  /\ inited' = inited + 1
  /\ commands' = mlib_command_register(commands, BuiltIn[inited'], Core)
  /\ UNCHANGED <<modules, engines, refs>>
Inited == inited = Len(BuiltIn)

-----------------------------------------------------------------------------
(* mlib_load_module().  What it opens and does not close stays open: the   *)
(* count never goes down, so that it may stop at its bound.                *)
Opened(f) == refs' = [refs EXCEPT ![f] = IF @ < MaxRefs THEN @ + 1 ELSE @]

(* It cannot be opened; or it is closed again for want of a name.          *)
GivenUp(f) == UNCHANGED rvars
CannotOpen(f) == GivenUp(f)
Nameless(f) == Kind[f].desc /\ ~ Kind[f].named /\ GivenUp(f)

(* Without a description the file stays open, and load succeeds. *)
NotAModule(f) ==
  /\ ~ Kind[f].desc
  /\ Opened(f)
  /\ UNCHANGED <<commands, inited, modules, engines>>

(* Whether a module is loaded is whether its description, which is at one  *)
(* address for one file, is in the list; it stays open once more.          *)
mlib_module_loaded(f) == f \in Listed(modules)
Proper(f) == Kind[f].desc /\ Kind[f].named
LoadedAlready(f) ==
  /\ Proper(f) /\ mlib_module_loaded(f)
  /\ Opened(f)
  /\ UNCHANGED <<commands, inited, modules, engines>>

(* init registers an engine, a command, both or neither, and fails if a    *)
(* registration does, or for a reason of its own.  Whichever was accepted  *)
(* stays in its list.  Appending an engine stores into the last one;       *)
(* registering a command looks at all up to one that is equal or greater.  *)
Registers(f, w) == Kind[f].word = w /\ w # NoWord
InitFails(f) ==
  \/ Kind[f].engine = "useless" \/ Kind[f].fails
  \/ \E w \in Words : Registers(f, w) /\ Known(commands, w)
InitRuns(f) ==
  /\ engines' = IF Kind[f].engine = "good" THEN Append(engines, f) ELSE engines
  /\ commands' = IF Kind[f].word = NoWord THEN commands
                 ELSE mlib_command_register(commands, Kind[f].word, f)
LoadMeets(f) ==
  /\ Proper(f) /\ ~ mlib_module_loaded(f)
  /\ \/ Kind[f].engine = "good" /\ engines # <<>> /\ Gone(engines[Len(engines)])
     \/ \E w \in Words, i \in DOMAIN commands :
          /\ Registers(f, w) /\ Gone(commands[i].owner)
          /\ i < PlaceFor(commands, w) \/ (i = PlaceFor(commands, w) /\ ~ Known(commands, w))
Initialises(f) == Proper(f) /\ ~ mlib_module_loaded(f) /\ ~ LoadMeets(f) /\ InitRuns(f)

(* Mutant: the module goes into the list before it is initialised. *)
RefusedMutant(f) ==
  /\ Initialises(f) /\ InitFails(f)
  /\ modules' = Append(modules, f)
  /\ UNCHANGED <<inited, refs>>
Refused(f) == Initialises(f) /\ InitFails(f) /\ UNCHANGED <<inited, modules, refs>>
Accepted(f) ==
  /\ Initialises(f) /\ ~ InitFails(f)
  /\ Opened(f)
  /\ modules' = Append(modules, f)
  /\ UNCHANGED inited

Load(f) == \/ CannotOpen(f) \/ NotAModule(f) \/ Nameless(f)
           \/ LoadedAlready(f) \/ Refused(f) \/ Accepted(f)
RNext == InitCommand \/ \E f \in Modules : Load(f)
RSpec == RInit /\ [][RNext]_rvars

-----------------------------------------------------------------------------
(* The type invariant of the lists. *)
RTypeOK ==
  /\ commands \in Seq(Command) /\ inited \in 0 .. Len(BuiltIn)
  /\ modules \in Seq(Modules) /\ engines \in Seq(Modules)
  /\ refs \in [Modules -> Nat]

(* The commands are in strict alphabetical order whatever modules register *)
(* and in which order: no name twice, and help lists them in order.        *)
CommandsSorted ==
  \A i, j \in DOMAIN commands :
    i < j => Rank[commands[i].word] < Rank[commands[j].word]

(* What is in a list is linked into it once, and stays mapped, whatever is *)
(* loaded in which order and fails: but for what was registered by an init *)
(* that fails after all, which nobody takes out again (mlib_load_module).  *)
(* The modules that can do that register more than one thing, or fail for  *)
(* a reason of their own; a module of one registration never leaves a node *)
(* of a closed file behind.                                                *)
Once(s) == \A i, j \in DOMAIN s : s[i] = s[j] => i = j
MayFailLate(f) ==
  /\ Kind[f].engine = "good" \/ Kind[f].word # NoWord
  /\ Kind[f].fails \/ (Kind[f].engine # "none" /\ Kind[f].word # NoWord)
ListsSound ==
  /\ Once(modules) /\ Once(engines)
  /\ \A f \in Listed(modules) : refs[f] > 0
  /\ \A f \in Listed(engines) : refs[f] > 0 \/ MayFailLate(f)
  /\ \A c \in Listed(commands) : c.owner = Core \/ refs[c.owner] > 0 \/ MayFailLate(c.owner)
=============================================================================

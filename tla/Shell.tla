-------------------------------- MODULE Shell -------------------------------
(***************************************************************************)
(* The shell: mlib.c and mlib_shell.c with the input of mlib_io.c and      *)
(* mlib_lexxer.l, running commands on the registry (Registry), the open    *)
(* libraries (LibraryList) and the queue of messages (PrintQueue) that a   *)
(* playing thread fills meanwhile.                                         *)
(*                                                                         *)
(* Input is a script, if one is given, and then the terminal.  A line is   *)
(* what the lexer makes of it: a command with its argument, nothing (blank *)
(* or a comment), or a character that no rule takes.  A terminal's line    *)
(* has no newline: it ends because the next read gives nothing.            *)
(***************************************************************************)
EXTENDS PrintQueue, Registry, LibraryList, FiniteSets

CONSTANTS
  Player,  \* the playing thread
  Typed,   \* lines that may be typed
  Scripts  \* scripts that may be given: lines, and whether the last is terminated

Line(word, args) == [word |-> word, arg |-> args]
Blank == Line("blank", <<>>)
Bad == Line("bad", <<>>)
Eof == Line("eof", <<>>)

(* What can be read; the arguments name files, and words, that there are   *)
(* sets of: that a file is missing or is no module is in those sets.       *)
Input == Typed \cup UNION {Listed(s.lines) : s \in Scripts}
ArgsSound(line) ==
  /\ line.word = "load" => line.arg[1] \in Modules
  /\ line.word \in {"create", "open"} => line.arg[1] \in LibFiles
  /\ line.word = "create" => line.arg[2] \in LibNames
  /\ line.word = "close" => line.arg[1] \in LibNames

ASSUME ShellAssumption ==
  /\ Player \in Threads \ {Main}
  /\ \A s \in Scripts : /\ s.ended \in BOOLEAN /\ s.lines \in Seq(Input)
                       /\ Eof \notin Listed(s.lines)
  /\ \A line \in Input : ArgsSound(line)

NoScript == [lines |-> <<>>, ended |-> TRUE]

VARIABLES
  sh,       \* where the shell is
  streams,  \* input_streams
  current,  \* current_stream
  script,   \* the script
  rest,     \* its lines that are still to be read
  buf,      \* the line in the lexer's buffer
  argv,     \* the command read
  ran       \* history: commands of the script that were run, in order

svars == <<sh, streams, current, script, rest, buf, argv, ran>>
vars == <<qvars, rvars, lvars, svars>>
QSame == UNCHANGED qvars
RSame == UNCHANGED rvars
LSame == UNCHANGED lvars

ShellPlaces == {"start", "read", "flush", "lex", "run", "queue", "ended"}

Init ==
  /\ QInit /\ RInit /\ LInit
  /\ sh = "start" /\ streams = <<>> /\ current = "stdin"
  /\ script \in Scripts
  /\ rest = <<>> /\ buf = Blank /\ argv = Blank /\ ran = <<>>

-----------------------------------------------------------------------------
(* main(): mlib_init(), before anything else. *)
Initialise ==
  /\ sh = "start" /\ InitCommand
  /\ QSame /\ LSame /\ UNCHANGED svars

(* main(): the script becomes the current stream if it can be opened. *)
PushStream ==
  /\ sh = "start" /\ Inited /\ sh' = "read"
  /\ \/ /\ streams' = <<"script">> \o streams /\ current' = "script"
        /\ rest' = script.lines /\ UNCHANGED script
     \/ script' = NoScript /\ UNCHANGED <<streams, current, rest>>
  /\ UNCHANGED <<buf, argv, ran>> /\ QSame /\ RSame /\ LSame

(* mlib_readbuf(): a line of the script, or of the terminal; either way    *)
(* the print queue is emptied next.  The script's history ends with the    *)
(* first line that is typed.                                               *)
ReadScript ==
  /\ sh = "read" /\ current = "script"
  /\ IF rest = <<>> THEN buf' = Eof /\ rest' = <<>>
                    ELSE buf' = Head(rest) /\ rest' = Tail(rest)
  /\ sh' = "flush"
  /\ UNCHANGED <<streams, current, script, argv, ran>> /\ QSame /\ RSame /\ LSame
ReadTerm(line) ==
  /\ sh = "read" /\ current = "stdin"
  /\ buf' = line
  /\ sh' = "flush"
  /\ script' = NoScript /\ ran' = <<>>
  /\ UNCHANGED <<streams, current, rest, argv>> /\ QSame /\ RSame /\ LSame
Flush ==
  /\ sh = "flush"
  /\ \/ (StartFlush \/ PrintHead) /\ UNCHANGED sh
     \/ EndFlush /\ sh' = "lex"
  /\ UNCHANGED <<streams, current, script, rest, buf, argv, ran>> /\ RSame /\ LSame

(* mlib_pop_stream(), at the end of the script and after every line of the *)
(* terminal, when there is none to pop.                                    *)
(* Mutant: the stream below becomes current only if there is one.          *)
PopStreamMutant ==
  /\ streams' = IF streams = <<>> THEN streams ELSE Tail(streams)
  /\ current' = IF streams' = <<>> THEN current ELSE "stdin"
PopStream ==
  /\ streams' = IF streams = <<>> THEN streams ELSE Tail(streams)
  /\ current' = IF streams # <<>> /\ streams' = <<>> THEN "stdin" ELSE current

(* mlib_read_line(): words up to the end of the line.  A command in the    *)
(* last line of a script that is not terminated waits for the end of file. *)
Unterminated == current = "script" /\ rest = <<>> /\ ~ script.ended
LexWords ==
  /\ sh = "lex" /\ buf.word \notin {"blank", "bad", "eof"}
  /\ argv' = buf
  /\ IF current = "stdin" THEN PopStream ELSE UNCHANGED <<streams, current>>
  /\ sh' = IF Unterminated THEN "read" ELSE "run"
  /\ UNCHANGED <<script, rest, buf, ran>> /\ QSame /\ RSame /\ LSame
LexNothing ==
  /\ sh = "lex" /\ buf = Blank
  /\ IF current = "stdin" THEN PopStream ELSE UNCHANGED <<streams, current>>
  /\ sh' = "read"
  /\ UNCHANGED <<script, rest, buf, argv, ran>> /\ QSame /\ RSame /\ LSame

(* Mutant: what was read when the file ended is not looked at. *)
LexEofMutant ==
  /\ sh = "lex" /\ buf = Eof
  /\ PopStream
  /\ sh' = "read" /\ argv' = Blank /\ buf' = Blank
  /\ UNCHANGED <<script, rest, ran>> /\ QSame /\ RSame /\ LSame
LexEof ==
  /\ sh = "lex" /\ buf = Eof
  /\ PopStream
  /\ sh' = IF argv = Blank THEN "read" ELSE IF current' # "stdin" THEN "ended" ELSE "run"
  /\ buf' = IF argv = Blank THEN Blank ELSE Eof
  /\ UNCHANGED <<script, rest, argv, ran>> /\ QSame /\ RSame /\ LSame

(* A character that no rule takes ends mlib_loop(), and main() returns. *)
LexError ==
  /\ sh = "lex" /\ buf = Bad
  /\ sh' = "ended"
  /\ UNCHANGED <<streams, current, script, rest, buf, argv, ran>> /\ QSame /\ RSame /\ LSame

-----------------------------------------------------------------------------
(* mlib_loop(): find the command, run it, and read the next. *)
Runs(word) ==
  /\ sh = "run" /\ argv.word = word
  /\ mlib_find_command(word) /\ ~ FindMeets(word)
FromScript == buf = Eof \/ current = "script"
DoneTo(place) ==
  /\ sh' = place /\ argv' = Blank /\ buf' = Blank
  /\ ran' = IF FromScript THEN Append(ran, argv) ELSE ran
  /\ UNCHANGED <<streams, current, script, rest>>
Done == DoneTo("read")

NotFound ==
  /\ sh = "run" /\ ~ mlib_find_command(argv.word) /\ ~ FindMeets(argv.word)
  /\ Done /\ QSame /\ RSame /\ LSame
RunLoad == Runs("load") /\ Load(argv.arg[1]) /\ Done /\ QSame /\ LSame
RunCreate ==
  /\ Runs("create") /\ Done /\ QSame /\ RSame
  /\ LET f == argv.arg[1] IN
     \/ Create(f, argv.arg[2])
     \/ disk[f] # Absent /\ LSame
RunOpen ==
  /\ Runs("open") /\ Done /\ QSame /\ RSame
  /\ \/ Open(argv.arg[1]) \/ OpenRefused(argv.arg[1])
     \/ disk[argv.arg[1]] = Absent /\ LSame
RunClose ==
  /\ Runs("close") /\ Done /\ QSame /\ RSame
  /\ \/ Close(argv.arg[1])
     \/ mlib_find_library(argv.arg[1]) = 0 /\ LSame

(* play: a thread is made unless one is playing. *)
RunPlay ==
  /\ Runs("play") /\ Done /\ RSame /\ LSame
  /\ \/ mlib_find_library(argv.arg[1]) # 0 /\ Begin(Player)
     \/ (mlib_find_library(argv.arg[1]) = 0 \/ at[Player] # "none") /\ QSame

(* pause leaves a message, in the shell's own thread; the engine is the    *)
(* first that registered.                                                  *)
EngineGone == engines # <<>> /\ Gone(Head(engines))
Controls == engines # <<>> /\ at[Player] # "none"
RunPause ==
  /\ Runs("pause") /\ ~ EngineGone /\ RSame /\ LSame
  /\ \/ Controls /\ Format(Main) /\ DoneTo("queue")
     \/ Controls /\ NoMemory(Main) /\ Done
     \/ ~ Controls /\ Done /\ QSame
QueueMessage ==
  /\ sh = "queue" /\ RSame /\ LSame
  /\ \/ LockQueue(Main) /\ UNCHANGED sh
     \/ AddTail(Main) /\ sh' = "read"
  /\ UNCHANGED <<streams, current, script, rest, buf, argv, ran>>

RunExit == Runs("exit") /\ DoneTo("ended") /\ QSame /\ RSame /\ LSame

(* echo, help, lsmod, lslib, engines and run only print; the command of a  *)
(* module is its own affair.                                               *)
ListingMeets ==
  \/ argv.word = "help" /\ \E c \in Listed(commands) : Gone(c.owner)
  \/ argv.word = "engines" /\ \E f \in Listed(engines) : Gone(f)
RunOther ==
  /\ Runs(argv.word) /\ ~ ListingMeets
  /\ argv.word \notin {"load", "create", "open", "close", "play", "pause", "exit"}
  /\ Done /\ QSame /\ RSame /\ LSame

(* A node of a closed file is met, by the search for the command or by the *)
(* command: what is read then is not mapped, or not what was there.  The   *)
(* process is followed no further.                                         *)
RunAstray ==
  /\ sh = "run"
  /\ \/ FindMeets(argv.word)
     \/ Runs("load") /\ LoadMeets(argv.arg[1])
     \/ Runs("pause") /\ EngineGone
     \/ Runs(argv.word) /\ ListingMeets
  /\ sh' = "ended"
  /\ UNCHANGED <<streams, current, script, rest, buf, argv, ran>> /\ QSame /\ RSame /\ LSame

RunStep == \/ NotFound \/ RunLoad \/ RunCreate \/ RunOpen \/ RunClose
           \/ RunPlay \/ RunPause \/ QueueMessage \/ RunExit \/ RunOther \/ RunAstray
LexStep == LexWords \/ LexNothing \/ LexEof \/ LexError
MainStep == Initialise \/ PushStream \/ ReadScript \/ Flush \/ LexStep \/ RunStep

(* The playing thread leaves messages and ends, until the process does. *)
PlayerStep ==
  /\ sh # "ended"
  /\ Queueing(Player) \/ Finish(Player)
  /\ RSame /\ LSame /\ UNCHANGED svars
(* An element is played by the engine, and its file may be closed. *)
PlayerAstray ==
  /\ sh \notin {"start", "ended"} /\ at[Player] # "none" /\ EngineGone
  /\ sh' = "ended"
  /\ UNCHANGED <<streams, current, script, rest, buf, argv, ran>> /\ QSame /\ RSame /\ LSame

Next == \/ MainStep
        \/ \E line \in Typed : ReadTerm(line)
        \/ PlayerStep
        \/ PlayerAstray
Spec == Init /\ [][Next]_vars

(* Both threads are scheduled; nobody has to type anything.  A thread that *)
(* waits for the mutex gets it if it is free again and again.              *)
FairSpec == /\ Spec /\ WF_vars(MainStep) /\ WF_vars(PlayerStep)
            /\ SF_vars(PlayerStep /\ LockQueue(Player))

-----------------------------------------------------------------------------
(* The type invariant of the shell and what it is composed of. *)
TypeOK ==
  /\ QTypeOK /\ RTypeOK /\ LTypeOK
  /\ sh \in ShellPlaces
  /\ streams \in Seq({"script"})
  /\ current \in {"stdin", "script"}
  /\ script \in Scripts \cup {NoScript}
  /\ rest \in Seq(Input)
  /\ buf \in Input \cup {Blank, Eof}
  /\ argv \in Input \cup {Blank}

(* What is read from is open: the terminal, or the top of the stack of     *)
(* streams, also after a script has ended (mlib_pop_stream).               *)
CurrentOpen ==
  current # "stdin" => streams # <<>> /\ current = Head(streams)

(* A script that was opened is run whole: its commands in their order,     *)
(* none skipped or doubled, also when its last line has no newline, before *)
(* anything is read from the terminal, unless one of them ends the shell.  *)
(* The line that is the i-th command is what was run as the i-th.          *)
NrCommands(n) == Cardinality({k \in 1 .. n : script.lines[k] # Blank})
ScriptWhole ==
  /\ Len(ran) <= NrCommands(Len(script.lines))
  /\ \A k \in DOMAIN script.lines :
       script.lines[k] # Blank /\ NrCommands(k) <= Len(ran) =>
         ran[NrCommands(k)] = script.lines[k]
  /\ sh = "read" /\ current = "stdin" => Len(ran) = NrCommands(Len(script.lines))

(* Whoever has made a message gets it into the queue: the mutex comes      *)
(* back, from the shell's long hold as well.                               *)
MessagesQueued ==
  \A t \in {Main, Player} : at[t] = "text" ~> (at[t] = "idle" \/ sh = "ended")

(* A script comes to its end without anybody typing: its stream is popped, *)
(* or a command or character in it has ended the shell.                    *)
ScriptEnds == current = "script" ~> (current = "stdin" \/ sh = "ended")
=============================================================================

------------------------------- MODULE Genlib -------------------------------
(***************************************************************************)
(* mlib_genlib.c: the program that adds all media below a directory to a   *)
(* library, with the list parser and the extension filter of util.c.       *)
(* Paths are sequences of characters, because what enters the library is   *)
(* the path with as many characters taken off as it shares with the        *)
(* library's prefix.  The recursion of __do_search() is a stack of frames; *)
(* what a frame's `ret' holds before the first subdirectory is whatever    *)
(* the memory held.                                                        *)
(***************************************************************************)
EXTENDS Naturals, FiniteSets, SequencesExt

CONSTANTS
  Chars,    \* what paths are made of
  Calls,    \* ways the program may be called
  Builtin,  \* mlib_audio_ext and mlib_video_ext
  Stray,    \* what memory may hold behind the end of a path
  MaxDirs   \* directories the process may have open

Slash == "/"
Dots == {<<".">>, <<".", ".">>}

(* A call: the directory as given and as realpath() has it, the tree that  *)
(* is there, the options, and what is at the library's path: nothing, no   *)
(* library, a library with `old' as its prefix and `paths' in .global, or  *)
(* one without .global.  A tree gives each directory's entries by name,    *)
(* besides "." and "..": a file, nothing any more, or a directory, which   *)
(* may be one above it.                                                    *)
ASSUME CallsAssumption ==
  /\ MaxDirs \in Nat /\ {Slash, "."} \subseteq Chars /\ Builtin \subseteq Seq(Chars)
  /\ Stray \subseteq Seq(Chars) /\ Stray # {}
  /\ \A c \in Calls :
       /\ c.found \in {"absent", "junk", "library", "bare"}
       /\ c.filter \in {"none", "one", "several"}
       /\ c.overwrite \in BOOLEAN
       /\ {c.dir, c.real, c.prefix, c.old} \cup c.paths \subseteq Seq(Chars)
       /\ c.top \in DOMAIN c.tree /\ DOMAIN c.tree \cap {"file", "gone", "dots"} = {}
       /\ \A d \in DOMAIN c.tree : \A e \in DOMAIN c.tree[d] :
            /\ e \in Seq(Chars) \ Dots /\ e # <<>> /\ e[1] # Slash
            /\ c.tree[d][e] \in {"file", "gone"} \cup DOMAIN c.tree

VARIABLES
  call,   \* how it was called
  at,     \* where main() is
  prefix, \* the prefix in the library's header
  global, \* what .global holds
  stack,  \* frames of __do_search(), the innermost last
  dirs,   \* directories opened; none is ever closed
  result  \* what the outermost __do_search() returned

vars == <<call, at, prefix, global, stack, dirs, result>>

Init ==
  /\ call \in Calls
  /\ at = "start" /\ prefix = <<>> /\ global = {}
  /\ stack = <<>> /\ dirs = 0 /\ result = "none"

-----------------------------------------------------------------------------
(* parse_args(): mlib_parse_list() finds nothing to parse in a list of one *)
(* element, and stores the length of a longer one through a null pointer.  *)
ParseArgs ==
  /\ at = "start"
  /\ at' = IF call.filter = "several" THEN "killed" ELSE "open"
  /\ UNCHANGED <<call, prefix, global, stack, dirs, result>>

(* main(): the library is made, made anew, or opened as it is.  realpath() *)
(* of the directory is the prefix if none is given.                        *)
MadeAnew == call.found = "absent" \/ call.overwrite
HasGlobal == call.found # "bare" \/ MadeAnew
OpenLibrary ==
  /\ at = "open"
  /\ IF MadeAnew
     THEN /\ prefix' = IF call.prefix = <<>> THEN call.real ELSE call.prefix
          /\ at' = "search" /\ UNCHANGED global
     ELSE /\ prefix' = call.old
          /\ at' = IF call.found = "junk" THEN "died" ELSE "search"
          /\ global' = IF call.found = "library" THEN call.paths ELSE {}
  /\ UNCHANGED <<call, stack, dirs, result>>

-----------------------------------------------------------------------------
path_combine(path, file) == path \o <<Slash>> \o file

(* The loop that compares stops behind the first character that differs;   *)
(* a path is longer than what it shares with the prefix.                   *)
(* Mutant: at it.                                                          *)
Shared(path, pre) ==
  CHOOSE n \in 0 .. Len(path) :
    /\ SubSeq(path, 1, n) = SubSeq(pre, 1, n) /\ n <= Len(pre)
    /\ n = Len(path) \/ n = Len(pre) \/ path[n + 1] # pre[n + 1]
From(s, k) == SubSeq(s, k, Len(s))
drop_prefixMutant(path) == From(path, Shared(path, prefix) + 1)
drop_prefix(path) ==
  LET k == Shared(path, prefix) + 2
  IN IF k <= Len(path) /\ path[k] = Slash THEN From(path, k + 1) ELSE From(path, k)

(* Where the prefix goes on behind the whole path, the loop leaves the     *)
(* path behind its end.                                                    *)
Overrun(path) == IsPrefix(path, prefix)
Dropped(path) == IF Overrun(path) THEN Stray ELSE {drop_prefix(path)}

mlib_filter(path) == \E ext \in Builtin : IsSuffix(ext, path)

Entries(d) == Dots \cup DOMAIN call.tree[d]
KindOf(d, e) == IF e \in Dots THEN "dots" ELSE call.tree[d][e]
IsDir(d, e) == KindOf(d, e) \notin {"file", "gone"}
Frame(d, path) ==
  [dir |-> d, path |-> path, pass |-> 1, unread |-> Entries(d), ret |-> "unset"]

Top == stack[Len(stack)]
Below == SubSeq(stack, 1, Len(stack) - 1)
Continue(frame) == stack' = Append(Below, frame) /\ UNCHANGED <<at, result>>
Read(e) == [Top EXCEPT !.unread = @ \ {e}]

(* A frame returns: its caller keeps the value, and returns as well if it  *)
(* is an error.  do_search() looks at no value, and main() returns zero.   *)
(* Mutant: only the innermost directory is given up.                       *)
ReturnMutant(v) ==
  IF Below = <<>> THEN /\ stack' = <<>> /\ result' = v /\ at' = "done"
  ELSE /\ stack' = [Below EXCEPT ![Len(Below)].ret = "zero"] /\ UNCHANGED <<at, result>>
Return(v) ==
  IF Below = <<>> \/ v = "error" THEN /\ stack' = <<>> /\ result' = v /\ at' = "done"
  ELSE /\ stack' = [Below EXCEPT ![Len(Below)].ret = v] /\ UNCHANGED <<at, result>>

(* opendir(), for the top directory and for those below. *)
Search ==
  /\ at = "search"
  /\ IF dirs < MaxDirs
     THEN /\ stack' = <<Frame(call.top, call.dir)>> /\ dirs' = dirs + 1
          /\ at' = "in" /\ UNCHANGED result
     ELSE /\ result' = "error" /\ at' = "done" /\ UNCHANGED <<stack, dirs>>
  /\ UNCHANGED <<call, prefix, global>>

(* The first pass, in any order: media enter .global unless there already. *)
(* A library without .global ends the program at the first entry.          *)
AddMedia(e) ==
  LET name == path_combine(Top.path, e)
  IN /\ Top.pass = 1 /\ e \in Top.unread
     /\ KindOf(Top.dir, e) = "file" /\ (mlib_filter(name) \/ Overrun(name))
     /\ \E elem \in Dropped(name) \ global :
          \/ global' = global \cup {elem} /\ Continue(Read(e))
          \/ at' = "died" /\ UNCHANGED <<global, stack, result>>
     /\ UNCHANGED <<call, prefix, dirs>>
PassBy(e) ==
  LET name == path_combine(Top.path, e)
      Refused == ~ mlib_filter(name) \/ Overrun(name)
  IN /\ Top.pass = 1 /\ e \in Top.unread
     /\ \/ IsDir(Top.dir, e)
        \/ KindOf(Top.dir, e) = "file" /\ \E elem \in Dropped(name) : elem \in global \/ Refused
     /\ Continue(Read(e))
     /\ UNCHANGED <<call, prefix, global, dirs>>
NoGlobal ==
  /\ at' = "died"
  /\ UNCHANGED <<call, prefix, global, stack, dirs, result>>

(* stat() of what is gone ends the search, in either pass. *)
StatFails(e) ==
  /\ e \in Top.unread /\ KindOf(Top.dir, e) = "gone"
  /\ Return("error")
  /\ UNCHANGED <<call, prefix, global, dirs>>

(* Mutant: the directory is read again in the same pass. *)
RewindMutant ==
  /\ Top.pass = 1 /\ Top.unread = {}
  /\ Continue([Top EXCEPT !.unread = Entries(Top.dir)])
  /\ UNCHANGED <<call, prefix, global, dirs>>
Rewind ==
  /\ Top.pass = 1 /\ Top.unread = {}
  /\ Continue([Top EXCEPT !.pass = 2, !.unread = Entries(Top.dir)])
  /\ UNCHANGED <<call, prefix, global, dirs>>

(* The second pass: `ret' is looked at after every entry, whether it was   *)
(* set or not.                                                             *)
SkipFile(e) ==
  /\ Top.pass = 2 /\ e \in Top.unread
  /\ KindOf(Top.dir, e) \in {"file", "dots"}
  /\ \/ Continue(Read(e))
     \/ Top.ret = "unset" /\ Return("error")
  /\ UNCHANGED <<call, prefix, global, dirs>>
Descend(e) ==
  /\ Top.pass = 2 /\ e \in Top.unread
  /\ IsDir(Top.dir, e) /\ e \notin Dots
  /\ IF dirs < MaxDirs
     THEN /\ stack' = Below \o <<Read(e), Frame(KindOf(Top.dir, e), path_combine(Top.path, e))>>
          /\ dirs' = dirs + 1 /\ UNCHANGED <<at, result>>
     ELSE Return("error") /\ UNCHANGED dirs
  /\ UNCHANGED <<call, prefix, global>>
EndOfDir == /\ Top.pass = 2 /\ Top.unread = {} /\ Return("zero")
            /\ UNCHANGED <<call, prefix, global, dirs>>

SearchStep ==
  /\ at = "in"
  /\ \/ /\ HasGlobal
        /\ \/ \E e \in Top.unread :
                AddMedia(e) \/ PassBy(e) \/ StatFails(e) \/ SkipFile(e) \/ Descend(e)
           \/ Rewind \/ EndOfDir
     \/ ~ HasGlobal /\ NoGlobal
Next == ParseArgs \/ OpenLibrary \/ Search \/ SearchStep
Spec == Init /\ [][Next]_vars /\ WF_vars(Next)

-----------------------------------------------------------------------------
(* The directories and media below the directory, by paths of at most      *)
(* MaxDirs directories.                                                    *)
Subdirs(d) ==
  {<<call.tree[d[1]][e], path_combine(d[2], e)>> :
     e \in {f \in DOMAIN call.tree[d[1]] : IsDir(d[1], f)}}
MediaIn(d) ==
  {path_combine(d[2], e) : e \in {f \in DOMAIN call.tree[d[1]] :
     call.tree[d[1]][f] = "file" /\ mlib_filter(path_combine(d[2], f))}}
DirsUpTo[n \in 0 .. MaxDirs] ==
  IF n = 0 THEN {<<call.top, call.dir>>}
  ELSE DirsUpTo[n - 1] \cup UNION {Subdirs(d) : d \in DirsUpTo[n - 1]}
MediaBelow == UNION {MediaIn(d) : d \in DirsUpTo[MaxDirs]}

(* In a library that was made for the directory, the prefix and an element *)
(* make the path of a media file below it, whether the directory was given *)
(* as an absolute path, with a slash behind it, or as ".".                 *)
RealPath(path) == call.real \o From(path, Len(call.dir) + 1)
PathsLead ==
  MadeAnew /\ call.prefix = <<>> =>
    \A elem \in global : path_combine(prefix, elem) \in {RealPath(m) : m \in MediaBelow}

(* A search that returned zero has added every media file below the        *)
(* directory, in whatever order directories are read: all but those whose  *)
(* whole path the prefix begins with, for which it looked behind the path. *)
Added(m) == Overrun(m) \/ drop_prefix(m) \in global
SearchComplete == result = "zero" => \A m \in MediaBelow : Added(m)

(* The program comes to an end, also where a directory leads back to one   *)
(* above it: what is opened is never closed, until no more can be.         *)
Terminates == <>(at \in {"done", "died", "killed"})

(* A program that ends without a complaint has added all media below the   *)
(* directory.                                                              *)
AllAdded == at = "done" => \A m \in MediaBelow : Added(m)
=============================================================================

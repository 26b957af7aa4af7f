# mlib: a verification project

mlib is a media library in C: a shell (`mlib`) that runs commands on *libraries*.
A library is one memory-mapped file that holds named *playlists*, each a set of
media paths; the shell can create, open and close libraries, make and remove
playlists, add paths, and play media through engines that are loaded as modules.
This directory holds TLA+ models of it, TLC configurations that check them, and
proofs about them for TLAPS. `PROJECT.json` maps every definition to the lines it
stands for.

## 1. The system

| Component | Source | State | Operations | Hard behaviour |
|---|---|---|---|---|
| library file | `library.c` | the file, its length in the header, the mapping | create, expand, insert space, truncate, excise, sync, open, close | a growing file is unmapped, extended, mapped again; each step can fail, and the mapping can move |
| bucket | `bucket.c` | strings growing up, a sorted index array growing down, two counters | contains, expand, add, sort | pointer arithmetic at the boundary; its growth moves every byte behind it |
| playlists | `playlist.c` | a chain of playlists back to back, each with a name, length, count, bucket | next, find, make, remove, add a path (to `.global` too) | pointers held across a growth; two playlists changed by one call |
| library list | `library.c` | the open libraries | create, open once, find by name, close | names that begin with one another; a mapping for every open, refused or not |
| media engine | `engine.c` | the engines, the current one, what is playing | register, play a medium, play a playlist, pause, stop | a playing thread next to the shell |
| mplayer engine | `mplayer_engine.c` | a child process, a pipe | play, pause, stop | the child ends by itself; descriptors are handed out again |
| core, print queue | `core.c` | messages other threads want printed | queue, empty | producers next to one consumer |
| command registry | `command.c` | the commands, in alphabetical order | register, find, run | registrations from modules, in any order |
| module loader | `module.c` | the loaded modules | load, list | a failing step in the middle, files that stay open |
| shell, streams | `mlib_io.c`, `mlib_shell.c`, `mlib.c` | a stack of input streams, the line being read | push, pop, read a line, run | the end of a stream in the middle of a line |
| command lexer | `mlib_lexxer.l` | its buffer | one token | end of input, characters no rule takes |
| library generator | `mlib_genlib.c` | a directory tree being searched | make or open a library, search, add | errors deep in a recursion, links that lead back, prefixes of paths |
| utilities | `util.c` | none | parse a list, filter by extension | boundaries |
| list.h, tests, test module | `list.h`, `regress/`, `test_mod.c` | none of their own | | |

The shell reads a line, lexes it, finds the command and calls it; commands work on
the one list of libraries and on the files mapped under them, synchronously. The only other
threads are those that play; they share `playing`, the print queue and - through
the pointers `mlib_play` is given - the mapped library. Modules register commands
and engines when they are loaded. `mlib-genlib` is a program of its own, with one library and one thread.

What makes each part correct, in a sentence: *library file*: what is below
`lib_len` is in the file, also after a crash; *bucket*: strings and indexes never meet, and the
indexes are strictly sorted; *playlists*: the chain reaches each playlist, names
are unique, a command changes what it names and nothing else, and `.global` holds
every path; *library list*: a name finds the library of that name (the code: or an older one whose name begins it); *engine*: at
most one medium plays, and it ends; *mplayer*: what is written goes to the player; *print queue*: no message is lost, repeated
or reordered; *registry and loader*: a name is registered once and found, and what is in a list is
still mapped (the code: unless an init fails late); *shell*: a script is run whole and ends, and then the stream below goes on; *generator*: it adds every
medium below the directory, under a path that leads to it, and ends.

## 2. Modules

**`LibImage`** is the file and every function that rearranges it, as operators
from an image to the set of its outcomes (the result, and the image it leaves).
An image keeps one *cell* per thing stored, at its offset in the file: playlists
with their fields (`hdr`), strings (`str`) and index words (`idx`). `memmove` moves
cells (`MovedUp`, `MovedDown`), so whether a string is found again after somebody
else's growth depends on the code's arithmetic and is not assumed. Lengths,
offsets, growth rate and header sizes are the code's numbers. Paths are integers
whose order stands for `strcmp`'s; `PathLen` gives the length of each.
Beside `lib_len` the image has `size`, the file's length, and `vm`, the pages that are
mapped from `lib->header` on. The last two decide what `mmap` can do: `munmap` frees
the pages `lib_len` needs, so after a truncation pages of the older, longer mapping
stay behind the library (`Leftover`), and the next growth into them cannot keep its
address.

The outcome of an inner step is `ok`, `moved` (done, at another address), `refused` or
`unmapped`; a command can also end in `killed` (it touched an unmapped address) or `wild` (it
wrote through a stale pointer into something else; nothing is said of what
happens then).

The restart loop of `mlib_bucket_add` is not unrolled: its turns open adjacent gaps, so
`j` turns are one expansion by `j` growth rates, and a later turn that fails leaves the
image of the turns before it (`Turns`, `AfterTurns`, `FailedTurn`).

**`Library`** is the life of one library: created, opened, changed, closed, opened
again by this or a later process. Each action is a whole command (`StartPlaylist` is
mkpls, `DeletePlaylist` rmpls, `AddPath` plsadd, `CreateLibrary`, `OpenLibrary`,
`CloseLibrary` the commands of those names), because the shell runs them one at
a time and nothing else writes to a library. `lib` is the process's view:
`closed`, `open`, `dangling` (the header is unmapped but the library still listed; the next command
that looks at it, `UseDangling`, ends the process) or `wild`.

**`PlaylistStore`** says what a library promises, without a byte: lists of paths by
name that survive close and restart, with what `fail` and `killed` may have done.

**`LibraryStore`** states `StoreImplements`, the refinement of `PlaylistStore` under the mapping
`Lists(img)`: what lspls shows. **`MCLibrary`** gives the constants of both values.

**`ImageProofs`** has the lemmas about the operators of `LibImage`; **`LibraryProofs`** and **`StoreProofs`**, each upon the one before, have the theorems about `Library`, and **`CrashProofs`** those about `LibraryCrash`.

**`LibraryCrash`** takes the same commands apart. A call becomes the list of stores the code makes (`StartStores`,
`DeleteStores`; `AddStores`, which is `PlaceStores` where there is room and one turn of the restart loop, `TurnStores`, where
there is none), each `Store` makes the next one, `Restart` goes back to the head of that loop, and
`Crash` ends the process between any two. The mapping is shared, so what was stored is in the file. `memmove` is two steps with a
region between them (`torn`) of which nothing is known, `qsort` may leave any words in any slots until it is done, and bytes
nobody has stored are zero (`At`). A new bucket gets its magic, its length and its index offset in three stores; while only the first two are made its
index array begins at its own header (`HeaderPaths`), whose words lead far outside the playlist or right behind it: what is read there is `Stray`. mlib has no recovery: what counts is what the walk of the next process (`Visited`,
`Lists`) makes of the file, so the properties compare that with the file from before the command (`base`). That the stores are the
right ones is itself checked: all of them made, they give what `LibImage` says (`EndAgrees`). One crash is modelled, and no command
after it. System calls do not fail here (`Faults = {}`, an assumption).

**`LibraryList`** is `library_list`: several library files, told apart by the names in their headers. `Open` and `OpenRefused` are
`__mlib_open_local_lib`, `maps` counts the mappings it makes, also those it forgets. `mlib_find_library` compares as many characters as the
*library's* name has; which names begin with which is the constant `Begins`. Errors before the mapping (no such file,
too short) change nothing and are `Absent`.

**`PrintQueue`** is `core.c`'s queue. `Format` makes the text outside the mutex, `LockQueue` and `AddTail` are the two halves of linking
(`__list_add`: where the tail is; the stores), `StartFlush`, `PrintHead`, `EndFlush` are `mlib_empty_print_queue`. `Begin` and `Finish` are
the life of a playing thread.

**`Registry`** is `command.c` and `module.c`: `InitCommand` registers the built in commands one by one; `Load` is
`mlib_load_module` with one disjunct for each way out. What a module is - whether it has a description and a name, and what
its init registers - is `Kind`: an engine, a command, both or neither, and whether it fails though they succeed. An init that fails has its file
closed, but what it had registered stays in the lists (`Refused`); such a node is `Gone`, and a step that would look at one (`FindMeets`, `LoadMeets`) is not the registry's any more.

**`Shell`** composes the three and adds `mlib.c`, `mlib_shell.c`, `mlib_io.c` and what the lexer returns. `sh` is where the shell's thread is: reading
(`ReadScript`, `ReadTerm`), emptying the print queue (`Flush`), lexing what was read (`LexWords`, `LexNothing`, `LexEof`, `LexError`), running a command
(`RunLoad` ... `RunOther`), in the middle of queueing a message of its own, or ended. A walk that meets a node of a closed file (`RunAstray`, and `PlayerAstray` for the current engine) reads what is not mapped, or not
what was there; the process is followed no further. `PopStream` is `mlib_pop_stream`, which the code calls at the end of a script and, since a typed line has no
newline, after each line of the terminal. The playing thread (`PlayerStep`) queues messages meanwhile. Playing itself, and the
commands that change one library, are `Engine`'s and `Library`'s matter.

**`Genlib`** is `mlib_genlib.c` with `mlib_filter` and what `mlib_parse_list` does for it. Here paths are sequences of characters, because what
enters the library is decided by counting characters (`drop_prefix`); `Chars` is what they are made of. The recursion of `__do_search` is a stack of frames (`Frame`), each with its pass, the
entries it has not read, and `ret`, which is `"unset"` until a subdirectory was searched; when it is looked at unset, the search may go either way (`SkipFile`). The library may be an older one with paths in it, or one without `.global` (`NoGlobal`). Where the
prefix goes on behind a whole path (`Overrun`) the element is whatever lies behind the path in memory, `Stray`.

**`Engine`** is `engine.c`: the shell and the threads that play, around `struct
playing`. Here commands are not atomic, because threads run between their steps:
claiming (`PlayList`, `PlayMedia`) and `pthread_create` (`Spawn`) are two steps, and so
are looking at `in_use` and calling the engine in pause and stop (`LookAtInUse`, `CallControl`).
A claim holds `playing.lock` from beginning to end and is one action; a thread's giving
back is four (`Lock`, `Clear`, `FreeElem`, `Unlock`), because pause and stop read `in_use` without
the lock. `thr` says where each thread is; a thread that is `done` is never joined or
detached, so it still counts when `Spawn` looks for a free one. Of the library,
`Engine` keeps what a playing thread can notice: whether it is open, unmapped for
the moment (`StartGrowing` to `EndGrowing`) or closed, which playlists it has, and whether the
pointers in `playing` still lead to what they led to (`Pointers`). What an engine's play
function does is left open: it returns, with or without success.
`use_plist` and `status` are never read by the code and left out.

**`MplayerEngine`** extends `Engine` by `mplayer_engine.c` and the process's table of
descriptors. Because the shell reads `mplayer_write_fd` without a lock, `mplayer_exec` is one step for each call: `Pipe` takes the two lowest free numbers, `Fork` starts the player,
`CloseRead` closes the reading end, and only `Assign` stores the new number (line 56). `Reap` is `waitpid`, `ClosePipe`
the close after it, `WriteControl` what pause and stop write to the number in
`mplayer_write_fd`, whatever it is by then. The player is a process of its own (`ChildStep`).
Libraries take descriptors from the same table (`OpenFd`, `CloseFd`, and `OpenOther`, `CloseOther` for
those that are open besides the one that is played from). `ImplementsEngine` says that with this play
function `Engine!FairSpec` holds again; all the places from the pipe's making to its closing (`Inner`) map to
`Engine`'s place "video".

**`MCEngine`**, **`MCMplayer`**, **`MCCrash`**, **`MCShell`**, **`MCGenlib`** give the constants of their modules values;
**`EngineProofs`**, **`MplayerProofs`**, **`GenlibProofs`** and **`ShellProofs`** have the theorems about theirs, the last one also those about
the three modules that `Shell` composes.

Definitions whose name ends in `Mutant` are plausible bugs, kept next to what they
spoil; each property is broken by one of them.

## 3. Runs

| Run | Asks | Bounds | Result |
|---|---|---|---|
| `library_core` | Is the file well formed, does each command do what it says and do the bytes implement `PlaylistStore`, when writes, maps and syncs fail at every point? | three names, three paths: 108 bytes (the shortest that does not fit in a new bucket), 20, 300 (two turns of the loop); libraries up to 2000 bytes are grown, three playlists and several growths; one page of 64 KB | holds |
| `library_faults` | What survives a mapping that moves, a failing `write` or `ftruncate`, the end of `lib_len`'s range, and a name that is cut? | three names, one of them too long; 4096-byte pages; a path of 2400 bytes (many turns of the loop; over the page from any length) and one of 108; up to 2100 bytes are grown, and the range ends at 5000 | holds |
| `library_stale` | Does `mcount` count? | 4096-byte pages, paths of 900, 20, 1500 bytes, no faults | violated |
| `library_crash` | What is left when a process ends between two stores? | as `library_core`, up to 1850 bytes, no faults: commands on two and three playlists, with and without growth | holds |
| `library_walk` | Does the walk over such a file end? | the same | violated |
| `engine_core` | Does one thread play at a time, own its word, and end? | three threads in the life of the process, one playlist and one path, four engines of which two are accepted whole, one in part, one not | holds |
| `engine_stale` | Is the library there when a thread reads it? | one thread | violated |
| `mplayer_core` | Do players and libraries keep apart, and does `engine.c` with mplayer do what `Engine` says? | two threads, descriptors 3 to 5: a library, and a pipe, or another library and no pipe | holds |
| `mplayer_stray` | Does what stop writes go to a player? | two threads | violated |
| `shell_core` | Does a session keep all its lists sound, run its script whole, end it, and print every message once? | three scripts (one without a last newline) of four, nine and four lines, nine typed lines, seven modules of different kinds, two of which fail in their init when something of theirs is registered, nine built in commands (out of order, one twice), three files with two names of which one begins with the other, one message a thread | holds |
| `genlib_core` | Does the search add what leads to media, all of it, and end? | trees of up to three directories: flat, deep with two ways to one, with a vanished file, with a way back to the top; the directory given absolute, with a slash behind it, as "."; with and without a prefix, one of them longer than a file's path, over an older library with a path or without `.global`, junk, or nothing; four open directories | holds |
| `genlib_complete` | Does a run without a complaint add everything? | one deep tree, nothing in its way | violated |

What the properties say is written over each in `Library.tla`. They divide as follows.
`Layout`, `FileCovers`, `WalkComplete`, `StringsSound` and `SortedOnce` are the
representation: no playlist overlaps another, the file is as long as it says, the chain
is whole, indexes lead to whole strings of their own bucket, and bsearch may be used.
`CountsMatch` and `NamesUnique` relate what users see;
`AlsoGlobal`, `ChangesOne` and `LosesOne` are about steps (`LosesOne` is what is left of `ChangesOne` when
`ftruncate` may leave copies behind).

In `LibraryCrash`, `FrontSafe` is what always survives, `NothingLost` and `NothingInvented` what survives outside a memmove and a sort - that they
hold rests on the order of the stores: index and string before the counters that make them visible, the file's size before
`lib_len`. The one exception is a new bucket between its length and its index offset, which `NothingInvented` names (`HalfMadeAt`). `ShownInFile` is that nothing shown lies behind the end of the file.

In the shell, `EachOnce` relates calls to what is printed, `CommandsSorted` and `ListsSound` are about every sequence of loads (an init that fails
late leaves nodes of a closed file, and `ListsSound` says that nothing else does), `OpenSound` and
`FindsNamed` about every sequence of creates, opens and closes; `FindsNamed` says what the code finds, an older library whose name is a beginning included; `CurrentOpen`, `ScriptWhole` and `ScriptEnds` are about where input comes from, and
`MessagesQueued` is that nobody waits for the queue's mutex for ever. In `Genlib`, `PathsLead` relates the two ends of `drop_prefix`: prefix and element together are the path of a
medium below the directory; `SearchComplete` is the promise of a returned zero, which survives the read of an unset `ret` and excepts only files for which `drop_prefix` left the path (`Overrun`), and `Terminates` holds with links that lead back up
because directories are never closed.

In `Engine`, `OneThread` is the comment "Only one media stream should ever be active", `ElemOwned`
that the word is freed once and not under a reader; `ThreadsEnd` that a thread ends and leaves
`playing` claimable. In `MplayerEngine`, `LibHeld`, `PipeHeld` and `Reaped` say that one variable
for all players (`mplayer_write_fd`, `mplayer_pid`) is enough for the threads, which rests on `OneThread`. `PipeHeld` begins where `mplayer_exec` returns: from `fork()` to line 56
there is a player, and the variable is still the old number.

*Bounds.* Threads are the bound of the engine runs: three let one play, one be done, and one be
created while the second unlocks, and then the process has none left. Three descriptors are the fewest with which
a pipe fits next to a library, and few enough that two libraries leave no room for one.
`Acts` says which library commands come while something plays; in `mplayer_core` closing alone, because growing changes no
descriptor. For the library, `MaxLen` is the only bound that is not the system's: libraries longer than it are
not grown. It is above three playlists in the runs with three names, so that the first
grows with two behind it. Which paths fit with how many turns is what
tells lengths apart, and the three lengths take none, one, and several turns. In the shell, `MaxMsgs` lets each thread have one message, so that the two
race for the tail; `MaxRefs` and `MaxMaps` stop counters that the code only increments, at one more than decides anything.
`MaxDirs` is the process's limit on open directories, which is what ends a search that goes in circles.

*Faults.* `write`, `mmap`, `msync` and `ftruncate` fail nondeterministically when they are
in `Faults`; `move` lets `mmap` ignore its hint when the mapping needs more pages. What
happens with leftover pages is no fault: it is decided by the image. `malloc`
does not fail, except in `mlib_queue_printf` (`NoMemory`), which handles it. A file that cannot be opened, loaded or made is in the inputs of the shell.

*Deadlock.* `library_faults` and `library_stale` switch the deadlock check off because
`wild` has no successor; the engine runs because a process that a signal has ended (`dead`)
has none; and the crash, shell and generator runs because there the process ends. `library_core` checks it.

*Fairness.* `Library` has none: a library does nothing by itself. `Engine` assumes weak fairness of
each thread's steps: the kernel schedules threads, nothing but the lock blocks them, and what an engine
plays comes to its end. `MplayerEngine` takes the last part back: there, a thread that waits for its player can take no step, and
the fairness is the player's (`ChildStep`): the process runs, and its medium is finite. `Shell` assumes weak fairness of the shell's own steps and of the player's, but not of `ReadTerm`: nobody
has to type a command. Taking the queue's mutex has strong fairness: the shell takes it again and again, so it is free again and again only, and a
thread that waits for it gets it in the end. `Genlib` is one thread; weak fairness of its steps says that it runs.

### What the violated runs show

* `library_stale`: create; fill a library past a page; remove a playlist, so that the
  mapping keeps a page behind it; add a path that grows the file. `mmap` cannot keep its
  address, `mlib_bucket_expand` copes (`bucket.c:123`), but `mlib_add_path_to_plist` then counts through its
  old pointer (`playlist.c:218`). No fault is needed.
* `library_walk`: `mlib_start_playlist` stores the magic before the length (`playlist.c:161`). If the process ends between the two, the next one finds a playlist of
  length zero, whose next playlist is itself; a command that lists the playlists, or looks for one that is not in front of it, goes round for ever.
* `engine_stale`: play, then close before the thread gets to `__build_uri`: it reads a freed
  `struct mlib_library` and an unmapped header. Growing a library opens the same window.
* `mplayer_stray`: between `close(mplayer_write_fd)` and the clearing of `in_use` the shell opens a library,
  which gets the number, and then pause or stop write their byte over the first byte of its file. A library opened between two plays gets the old number too,
  and is hit by a stop between the claim of the next play and line 56, where `mplayer_exec` stores the new number: also when the new player runs already.

* `genlib_complete`: `ret` (`mlib_genlib.c:148`) is read after every entry of the second pass and set only by a subdirectory. "." or a file, read first, ends the search with whatever the
  stack held; the errors go up unseen (`do_search` looks at none) and the exit status is zero.

Plain to see in the code, modelled as they are and without a run of their own:

* Library: `rmpls <lib> .global` succeeds, and every later `plsadd` reports "Library corruption" (`playlist.c:176`, `240`). A playlist name of 116
  characters or more is stored cut to 115, compared whole, and so never found and made again (`playlist.c:122`). Where `.global` cannot grow past the 32-bit
  length, a path enters the named playlist alone (`playlist.c:244`). A crash between the file's growth and a new playlist's magic leaves a hole that
  hides playlists made later, and one after the index offset and before the string bytes (`bucket.c:256-259`) lets the next add write over that string. A crash between a new bucket's length and its
  index offset (`bucket.c:56`, `57`) leaves a bucket whose index array begins at its own header: the next process takes the magic 0x12344321 and the length 128 for string offsets, reads outside the playlist
  and, at the first, mostly outside the mapping.
* Library list: `close rocks` closes "rock" if that was opened first (`library.c:326`; the comment at 311 speaks of "the library with the passed @name"). An open that is refused leaves its mapping (`library.c:261`).
* Engine: `play` plays a word that is not in the library (`engine.c:373` against the comment at 345); `__mlib_play_audio` returns 0 without calling the
  engine (`engine.c:104`); when `pthread_create` fails `in_use` stays set and nothing plays again (`engine.c:225`);
  `__build_uri` appends to memory that `malloc` has not cleared (`engine.c:86`), which spoils the URI and at worst ends the process (`BuildUri` may do either).
* mplayer: `dup2(0, io_pipe[0])` has its arguments swapped and closes the only reading end of the pipe (`mplayer_engine.c:60`), so the next pause is SIGPIPE, which nothing catches;
  `mplayer_pause` and `mplayer_stop` report a failure always (`ret < 1`, `mplayer_engine.c:107`, `122`), which nobody looks at.
* Modules: an init that fails after it has registered an engine or a command has its file closed with the node in it (`module.c:83-90`); nothing unregisters it, so the next walk of that list reads
  what is not mapped. An engine that was the first to be registered so stays `current` (`engine.c:298`). The modules of the repository register one thing each. `mlib_module_loaded` compares pointers where its comment says names, so two modules of one name are both loaded (`module.c:30`, `40`); a shared
  library that is no module is reported as loaded (`module.c:69` against 48), and stays open.
* Shell: queued messages are printed after a line was read, not before the prompt (`core.c:110`, `mlib_io.c:178`); those still queued at exit are lost. Ctrl-D does not end the shell. A
  character that no rule of the lexer takes does, without writing the history (`mlib_lexxer.l:73`). A comment needs its newline, so one that is typed is taken for a command.
* Generator: with a relative directory, which the help text allows (`mlib_genlib.c:318-320`), or `-p` and a trailing slash, `drop_prefix` can take the first character of a name away (`mlib_genlib.c:134`): "mu/a" becomes "u/a". `PathsLead`
  holds because it asks about libraries made for the directory, given as an absolute path or as ".". `-f` with one suffix is taken for none, and with two ends the program
  (`util.c:63`, `87`). A link to a directory above is followed until no descriptor is left, or until the system refuses to resolve as many links in one path (ELOOP), which on most systems is earlier.
  A file whose whole path the prefix begins with makes `drop_prefix` read behind the path (`mlib_genlib.c:134`). An existing library without `.global` ends the program at the first entry (`167-169`).

## 4. Proofs

The lemmas about what the operators of `LibImage` do to a file are in `ImageProofs`; `LibraryProofs` puts them together. It proves, for all names, paths, lengths, limits, page sizes and faults that
the assumptions of `LibImage` allow (pages of 4096 bytes or more, every path with
room below the limit):

* `Typed`: `Spec => []TypeOK`;
* `LayoutHolds`: `Spec => []Layout`;
* `FileCovered`: `Spec => []FileCovers`.

None of the three is inductive. The invariant is `Inv`, whose part about the file, `ImageInv`, is: the
image is typed; the slots of each index array are filled (`SlotsFilled`: else what `qsort` writes back
need not be words); `lib_len` is between the header size and the limit and not above the file's
size; each playlist keeps to its arithmetic (`CellsFit`); no two overlap
(`Disjoint`). `Disjoint` is what makes the memmoves work: it tells that the playlists
behind the one that grows move by exactly the gap and those before it stay. There is
a lemma for each operator, from `MovedUpCells` up to `AddPathSafe`, that every
outcome satisfies `ImageInv` again - also the outcomes after a fault and the ones with
a moved mapping - and `NextInv` has one step per action.

About strings and indexes it proves, from the same assumptions,

* `StringsHold`: `Spec => []StringsSound`;
* `SortedForever`: `Spec => []SortedOnce`;
* `ContainsRight`: in a state with `SoundInv` and sorted indexes, the binary search of `bucket_contains` finds a path if and only if an index leads to it.

The invariant (`SoundInv`) adds to `Inv` that every bucket is sound (`BucketSound`), said of the *set* of its words, because `qsort` keeps the set and
not the order. What a playlist can look like after a command is one of four things: what it was (`Kept`: at another offset perhaps, but its words and the
strings they lead to came along), grown by a gap (`Grown`), one path richer (`Entered`), or it lay behind one that was cut out (`Excised`). For each operator of `LibImage` there is
a lemma that says which playlists are which, and one for each of the four says that a sound bucket stays sound. Only `Entered` is about
something new: the string just stored begins where no older word leads, at `string_bytes`, and `Disjoint` keeps the bytes written out of every
other playlist. `SortedOnce` needs in addition that a path is added only when it is not there: that is `ContainsRight`. The search is a recursive function on intervals; that it is right for
all of them is proved by taking the shortest interval for which it is wrong, which needs no induction theorem.

Its last part asks what the chain from the first playlist to the last one is.

* `NamesUniqueAlways`: no two playlists have one name;
* `WalkAlways`: the walk reaches every playlist, and ends;
* `CountsAlways`: `mcount` is the number of words.

Each has hypotheses, and each of them is there because the code breaks the property without it. Names that are cut when they are stored (`LongNames`) are made twice. Where `ftruncate`
fails in the middle of `library_excise` what was moved down stays behind as well, so `NamesUniqueAlways` and `WalkAlways` take `ftruncate` out of `Faults`; writes, maps and
syncs may fail. When a growing file has to be mapped elsewhere the code writes through its old pointer; that is the run `library_stale`, and `WalkAlways` and
`CountsAlways` are about behaviours in which no mapping moves (`StaysInPlace`). `NamesUniqueAlways` needs no such thing. The invariant of the walk is
that the chain has no gap (`Chained`): where a playlist begins, or the library ends, the header ends or another playlist does. `ChainWalked` is then the argument that a first playlist off the walk
would begin where one on it ends.

`StoreProofs` proves the refinement, step by step:

* `StoreRefined`: `Spec /\ StaysInPlace /\ BelowLimit => StoreImplements`, without long names and without failing `ftruncate`;
* `AlsoGlobalAlways` and `ChangesOneAlways`: two action properties, from the same invariant.

`StoreInv` is what `LibraryProofs` proves, and `NextStore` has one step per action: each outcome of a command is an outcome `PlaylistStore` allows for
it. That a step of `PlaylistStore` changes one list besides `.global`, notes there what it adds and takes nothing from a list that stays (`Tame`) is a lemma about
lists alone, and with the refinement gives those two. `BelowLimit` says that the file keeps a page's distance from the 32-bit limit: at the limit `.global` can be refused room where another playlist
has some left, and `playlist.c:244-245` goes on whatever came of it, so there `AlsoGlobal` is false. `library_faults` runs into that limit, and checks what is left:

* `LosesOneAlways`: `Spec => LosesOne`, without any of these hypotheses.

Where two playlists have one name only the one in front is seen (`Foremost`), so the proof follows that one. A step either keeps everything in sight (`KeepsAll`), or it is a removal that
moves what lies behind the playlist down over it (`Shrunk`). Where `ftruncate` fails the library stays as long as it was and its last bytes stay too; whatever is read there lies behind every
playlist that was kept, and so hides none of them (`ShrunkWalkOn`, `ShrunkKeepsBut`).

`EngineProofs` proves, for any set of threads, words and engines:

* `EngineTyped`: `Spec => []TypeOK`;
* `OneThreadAlways`: `Spec => []OneThread`;
* `ElemOwnedAlways`: `Spec => []ElemOwned`.

`OneThread` is not inductive: `in_use` is cleared before the thread lets go of `elem`. `IInv` says who keeps a claim
away at each moment: a claim whose thread is not yet created is covered by `in_use` with no thread active (`ClaimKept`), a
thread up to its `Clear` by `in_use` (`UseKept`), and from there to its `Unlock` by the lock (`LockKept`). `ClaimFree` then says that a claim finds
nobody active, and everything follows. There is one lemma per kind of step. The only
assumption used is `EngineAssumption`, of which it matters that `Nobody` is no thread. From `IInv` follow three more:

* `ClaimAccountedAlways`: `in_use` is set only while the shell is about to create a thread, or one is active, or none is left to create. The only way
  to lose the claim is that `pthread_create` fails, which the code does not undo. The invariant needed is that in_use stays cleared until the thread has unlocked (`UseCleared`).
* `ThreadsAdvance`: a thread goes on towards its end and never back (`Advance`), and the lock is free when it comes to it (`LockFree`), so that each of its steps can be taken.
  With weak fairness that is `ThreadsEnd`.
* `ReadsLiveUnlessDisturbed`: with `Acts = {}`, `Spec => []ReadsLive`. What `engine_stale` finds takes closing or changing a library while something plays; no order of the other
  commands leads there. The invariant (`Steady`) follows a library from the claim to the thread's last read.

`MplayerProofs` proves, for any threads, engines and finite set of descriptors:

* `MplayerImplementsEngine`: `MSpec => E!Spec`, where `E` is `EngineProofs` with `thr` replaced by `OuterThr`, which maps
  all places from the pipe's making to its closing to the place "video". It is the safety half of `ImplementsEngine`;
* with it, `OneThread` of the mapped engine carries over, and on it rest `MplayerTyped`, `LibHeldAlways`, `PipeHeldAlways` and `ReapedAlways`:
  one set of variables is enough for all players because one thread plays. `MInv` is the conjunction of the four and of
  `PipeMade` (from `pipe()` to line 56 the ends of the pipe are what the thread made them); it is inductive together with
  what `Engine` says and with `GrowingUnmapped` (a library is unmapped exactly while it grows);
* `StrayBetweenPlayers`: `[][StrayOnlyBetween]_mvars`. What `mplayer_stray` finds can happen before line 56 has stored the new number, which is a little after the player was started, or after the pipe is closed, and
  not in between: that is `PipeHeld` at the moment of the write.

`ShellProofs` has one part for each of the three lists. `PrintQueue`: `EachOnceAlways`, for any number of threads. The invariant adds who holds the mutex at each place (`HoldersAgree`), that a
thread that links has seen the list as it is (`SeenFresh`), and that numbers grow (`NumbersGrow`). `Registry`: `CommandsSortedAlways` and `ListsSoundAlways`: `PlaceForIs`
says where a name goes, `RegisterSorted` that it may go there, and `EnginesLoaded` that an engine's module is listed, or closed (`Closed`) and then the last of the engines, without which a second load could link an engine twice: a load that would append behind a node of a closed
file is one that `LoadMeets`. Modules whose init fails late are among those the theorems are about.
`LibraryList`: `OpenSoundAlways` and, from the order of names alone, `FindsNamedAlways`.

A last part lifts them: every step of the shell is a step of the queue, or leaves it (`QueueStep`), and likewise of the registry and of the list, so that
`ShellImplementsQueue` (`Spec => QSpec`), `ShellImplementsRegistry` and `ShellImplementsLibraries` hold, and the components' theorems become theorems about the
shell (`ShellEachOnce` and its neighbours). That a command's arguments are among the things there are sets of is an invariant of the shell's own (`SInv`), with `CurrentOpen`. `ScriptWholeAlways` is `Spec => []ScriptWhole`: a script that was read to its end has had every command of it run. It needs
to know where the shell is in a script at each of its steps (`ScriptInv`): the commands among the lines read are those that were run, and the one that waits to be (`Tallied`); the stream read is the one
on top (`Placed`), and what is below a script is not at its end (`AtTerminal`, `Starting`).

`GenlibProofs` proves, for every tree, every order in which directories are read and every number that may be open,

* `SearchCompleteAlways`: `Spec => []SearchComplete`, which needs no hypothesis;
* `PathsLeadAlways`: `Spec => []PathsLead`, if the program is called in the ways `GivenWell` lists.

For the first, `SearchInv` says that there is a set of directories, each with the path it was reached by, whose media are in `.global` and whose subdirectories are in the set again. What a frame has
read in its first pass is in `.global` (`ReadAdded`), what it has read in its second is in the set, but for the one directory the frame above it is in (`ReadSearched`); a frame that
returns zero puts its own directory in. A set that has the top directory and is closed in this way has all there are, to any depth: `UpToCovered`, by
taking the least depth that is missed.

For the second, the frame at height i is in a directory that i - 1 steps lead to (`StackLed`), by a path that is the given one, or that with a slash and a name
behind it. `SharedIs` says what `drop_prefix` counts, and `DropLeads` that nothing but the directory and one slash is taken off.
`GivenWell` is needed for that: `realpath` is absolute, and the directory is given as `realpath` has it, with one slash behind, or as `.`.

`AlwaysCloser` (`[][Closer]_vars`) is what there is to `Terminates` besides fairness: each step takes the program on, or opens one of the directories it may open, or leaves one,
begins its second pass or reads an entry. That is a measure which gets smaller in this order, and it is bounded where directories are finite.

`CrashProofs` proves about `LibraryCrash`, for all names, paths, lengths and sequences of commands, and however many turns of the restart loop an add takes,

* `Stages`: `Spec => []CrashInv`, on which the rest stands;
* `ShownInFileAlways`, `FrontSafeAlways`, `NothingLostAlways`, `NothingInventedAlways`: what the next process finds;
* `EndAgreesAlways`: the stores of a call that is not cut short come to what `LibImage` says of the whole call;
* `WalkOnwardAlways`: from every playlist the next process's walk goes on to one behind it, except where the process ended in a memmove or between the stores of a new playlist's
  magic and of its length (`HalfBegun`). So the state that `library_walk` finds is the only one of its kind.

None of the properties is inductive, because each looks at the file and says nothing of the stores to come. `CrashInv` says what the file *is*: the file `base` that the call began with is a sound library
(`Sound`: what `ImageProofs` knows of one, no gap in the chain, nothing stored behind the end), and the file now is `base` and the first k stores of the call, for some k, with the rest of them in `todo`
(`Stage`). `StartImage`, `DeleteImage`, `TurnImage` and `PlaceImage` are those files, written out; an add is j whole turns (`WidenedBy`), then k stores of one more turn or of the placing, and the file between turns is `base`
with 128 j bytes of room. That a call's last file is a sound library again, and so a `base`, comes from the lemmas about `LibImage`; that all stores come to `LibImage`'s outcome is the same lemma read the other way, and gives `EndAgrees`.

What the next process finds is then read off stage after stage. Where the walk and the words are those of a sound library it is what was there; where the memmove is done and the length that leads over the gap is not yet
stored (`HalfOpen`), the playlists in front are found and the walk ends in the gap; while a string and its index are stored and the counters are not, neither is looked at.
`Shuffled` says that a sort cut short leaves words of the bucket in its slots, which lead to its strings.
What the module assumes, the theorems do too (`CrashAssumption`): system calls do not fail, libraries are grown up to some `MaxLen`, any that keeps clear of the end of `lib_len`'s range, and one crash ends the behaviour.

Only model-checked is liveness: `ThreadsEnd`, the fairness half of `ImplementsEngine`, `MessagesQueued`, `ScriptEnds` and `Terminates`. These need `ENABLED`, which the prover does not reason about. Every safety
invariant and every safety action property that a passing run checks has a theorem.

## 5. What is not modelled, and why

* Text: the wording of messages, how characters make a word in the lexer, help and listings. Nothing else depends on them.
* Remote libraries (`mlib_open_library` refuses them), readline's history, libcurl's initialisation.
* The contents of media and what a player does with them; the kernel's own failures beyond those listed under *Faults*.
* `regress/`, which are tests, and the parts of `list.h` that the program does not use.
* More than one process on one library file, and commands on a library that a crash has left broken: the code has nothing to say about either.
* Two libraries under one playing thread: `Engine` has the one that is played from, `MplayerEngine` counts the others by their descriptors.

What could come next: a second command after a crash.

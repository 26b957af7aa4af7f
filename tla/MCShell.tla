------------------------------- MODULE MCShell ------------------------------
(* A small session for TLC: values for the constants of Shell.             *)
EXTENDS Shell

(* Command names in the order of strcmp. *)
MCWords == {"close", "create", "exit", "find", "help", "load", "lost",
            "open", "pause", "play"}
MCRank == [w \in MCWords |->
             CASE w = "close" -> 1 [] w = "create" -> 2 [] w = "exit" -> 3 [] w = "find" -> 4
               [] w = "help" -> 5 [] w = "load" -> 6 [] w = "lost" -> 7 [] w = "open" -> 8
               [] w = "pause" -> 9 [] w = "play" -> 10]
(* Out of order and one of them twice, as mlib_init()'s calls may be. *)
MCBuiltIn == <<"exit", "open", "close", "create", "load", "play", "help", "pause", "close">>

(* The engine, a module with a new command and one whose command is taken, *)
(* one with an engine and a command that is taken, one that fails after it *)
(* has registered its command, one without a name, and a shared library    *)
(* that is no module.                                                      *)
MCKind == [f \in Modules |->
  [desc |-> f # "libc", named |-> f # "noname", fails |-> f = "half",
   engine |-> IF f \in {"mplayer", "clash"} THEN "good" ELSE "none",
   word |-> CASE f = "finder" -> "find" [] f = "half" -> "lost"
              [] f \in {"opener", "clash"} -> "open" [] OTHER -> NoWord]]

(* One library's name begins with the other's. *)
MCBegins == {<<n, n>> : n \in LibNames} \cup {<<"rock", "rocks">>}

MCTyped ==
  {Bad, Eof, Line("exit", <<>>), Line("pause", <<>>), Line("load", <<"mplayer">>),
   Line("close", <<"rocks">>), Line("play", <<"rocks">>),
   Line("open", <<"a">>), Line("open", <<"b">>)}
(* Most modules are loaded, and all libraries made, by scripts.  The last  *)
(* line of one script has no newline; "a" cannot be made a second time; in *)
(* the second script's sessions an engine, in the third's a command is in  *)
(* the list whose file is closed.                                          *)
MCScripts ==
  {[lines |-> <<Line("load", <<"mplayer">>), Line("load", <<"finder">>), Line("find", <<>>),
                Line("create", <<"a", "rock">>)>>,
    ended |-> FALSE],
   [lines |-> <<Line("load", <<"noname">>), Line("load", <<"libc">>), Line("load", <<"opener">>),
                Line("load", <<"clash">>), Blank, Line("create", <<"a", "rock">>),
                Line("create", <<"b", "rocks">>), Line("create", <<"a", "rocks">>), Line("open", <<"c">>)>>,
    ended |-> TRUE],
   [lines |-> <<Line("load", <<"half">>), Line("load", <<"opener">>), Line("load", <<"finder">>),
                Line("help", <<>>)>>,
    ended |-> TRUE]}
(* The third file is there already, and no library. *)
MCDisks == {[f \in LibFiles |-> IF f = "c" THEN "junk" ELSE "absent"]}
=============================================================================

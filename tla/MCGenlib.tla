------------------------------ MODULE MCGenlib ------------------------------
(* Small directories for TLC: values for the constants of Genlib.          *)
EXTENDS Genlib, TLC

MCChars == {".", "/", "h", "m", "u", "x"}
(* Music is what ends in "x". *)
MCBuiltin == {<<"x">>}

(* A directory of one media file, one other, and a directory with media    *)
(* whose name begins like the prefix; the same with a file that is gone;   *)
(* and one that leads back to the top.                                     *)
Flat == [t |-> (<<"x">> :> "file" @@ <<"m">> :> "file" @@ <<"m", "x">> :> "sub"),
         sub |-> (<<"m", "x">> :> "file")]
Deep == [t |-> (<<"x">> :> "file" @@ <<"m">> :> "a" @@ <<"u">> :> "b"),
         a |-> (<<"u">> :> "b" @@ <<"x">> :> "file"), b |-> (<<"u", "x">> :> "file")]
Gone == [t |-> (<<"x">> :> "file" @@ <<"m">> :> "sub" @@ <<"u">> :> "leaf"),
         sub |-> (<<"u">> :> "gone"), leaf |-> (<<"m", "x">> :> "file")]
Loop == [t |-> (<<"x">> :> "file" @@ <<"m">> :> "t")]
(* An existing library has the other prefix, and one path. *)
MCCall(tree, dir, real, pre, filter, found, overwrite) ==
  [tree |-> tree, top |-> "t", dir |-> dir, real |-> real, prefix |-> pre,
   old |-> <<"/", "u">>, paths |-> {<<"m", "u", "/", "x">>},
   filter |-> filter, found |-> found, overwrite |-> overwrite]
Mu == <<"/", "m", "u">>
MCDirs == {<<Mu, Mu>>, <<Mu \o <<"/">>, Mu>>, <<<<".">>, Mu>>}
(* A prefix that goes on behind the path of a file, and what lies there. *)
LongPrefix == Mu \o <<"/", "x", "/", "h">>
MCStray == {<<>>, <<"u">>}
MCCalls ==
  {MCCall(t, d[1], d[2], <<>>, "none", "absent", FALSE) : t \in {Flat, Gone}, d \in MCDirs}
    \cup {MCCall(Deep, Mu, Mu, p, "none", f, o) :
            p \in {<<>>, <<"h", "/", "m">>}, f \in {"junk", "library", "bare"}, o \in BOOLEAN}
    \cup {MCCall(Flat, Mu, Mu, LongPrefix, "none", "absent", FALSE)}
    \cup {MCCall(Loop, Mu, Mu, <<>>, "none", "absent", FALSE)}
    \cup {MCCall(Flat, Mu, Mu, <<>>, f, "absent", FALSE) : f \in {"one", "several"}}
(* One call with nothing in its way. *)
MCPlain == {MCCall(Deep, Mu, Mu, <<>>, "none", "absent", FALSE)}
=============================================================================

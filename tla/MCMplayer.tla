------------------------------ MODULE MCMplayer -----------------------------
(* mplayer as the only engine. *)
EXTENDS MplayerEngine

MCMplayerOnly == {[caps |-> Media, plays |-> Media, controls |-> {"toggle", "stop"}]}
=============================================================================

------------------------------ MODULE MCEngine ------------------------------
(* Small engines for TLC. *)
EXTENDS Engine

(* One that plays and is controlled, one that plays audio only, one that    *)
(* claims what it has no function for.                                     *)
MCEngines ==
  {[caps |-> Media, plays |-> Media, controls |-> {"toggle", "stop"}],
   [caps |-> {"audio"}, plays |-> {"audio"}, controls |-> {}],
   [caps |-> Media, plays |-> {"audio"}, controls |-> {"stop"}],
   [caps |-> {"video"}, plays |-> {}, controls |-> {}]}
=============================================================================

---------------------------- MODULE PlaylistStore ---------------------------
(***************************************************************************)
(* What a library promises: named playlists, each a set of paths, that     *)
(* survive closing, reopening and the end of the process.  Nothing here is *)
(* an offset or a byte.  "ok" promises the whole effect of a call; "fail"  *)
(* and "killed" say what part of it may have happened.                     *)
(***************************************************************************)
EXTENDS Integers

CONSTANTS Names, Paths, Global

VARIABLES
  lists,  \* the playlists that exist, each with its paths
  store,  \* "absent", "junk" or "library"
  user,   \* "closed", "open", or "broken": the next use ends the process
  ret     \* how the last call ended

vars == <<lists, store, user, ret>>

Init == /\ lists = [n \in {} |-> {}]
        /\ store = "absent" /\ user = "closed" /\ ret = "none"

With(n, S) == [m \in DOMAIN lists \cup {n} |-> IF m = n THEN S ELSE lists[m]]
Without(n) == [m \in DOMAIN lists \ {n} |-> lists[m]]

(* A library that was made without error has its .global, empty. *)
Create ==
  /\ user \in {"closed", "open", "broken"}
  /\ \/ /\ store = "absent" /\ user = "closed"
        /\ \/ store' = "library" /\ ret' = "ok" /\ lists' = With(Global, {})
           \/ store' \in {"junk", "library"} /\ ret' = "killed" /\ UNCHANGED lists
     \/ store # "absent" /\ ret' = "fail" /\ UNCHANGED <<lists, store>>
  /\ UNCHANGED user

Open ==
  /\ user = "closed"
  /\ \/ store = "library" /\ user' = "open" /\ ret' = "ok"
     \/ user' = "closed" /\ ret' = "fail"
  /\ UNCHANGED <<lists, store>>

Close == /\ user = "open" /\ user' = "closed" /\ ret' \in {"ok", "fail"}
         /\ UNCHANGED <<lists, store>>

(* A playlist is made whole or not at all; a failure to sync is reported   *)
(* as a failure though the playlist is there.                              *)
Make(n) ==
  /\ user = "open" /\ UNCHANGED store
  /\ \/ /\ n \notin DOMAIN lists /\ lists' = With(n, {})
        /\ ret' \in {"ok", "fail"} /\ UNCHANGED user
     \/ ret' = "fail" /\ user' \in {"open", "broken"} /\ UNCHANGED lists

Remove(n) ==
  /\ user = "open" /\ UNCHANGED <<store, user>>
  /\ \/ n \in DOMAIN lists /\ lists' = Without(n) /\ ret' = "ok"
     \/ n \notin DOMAIN lists /\ ret' = "fail" /\ UNCHANGED lists

(* A path is added to the playlist and to .global; an error may leave it   *)
(* in .global only, never in the playlist only.                            *)
Noted(p) == [lists EXCEPT ![Global] = @ \cup {p}]
Add(n, p) ==
  /\ user = "open" /\ UNCHANGED store
  /\ \/ /\ {n, Global} \subseteq DOMAIN lists /\ p \notin lists[n]
        /\ lists' = [Noted(p) EXCEPT ![n] = @ \cup {p}]
        /\ ret' = "ok" /\ UNCHANGED user
     \/ /\ ret' = "fail" /\ user' \in {"open", "broken"}
        /\ \/ UNCHANGED lists
           \/ n # Global /\ Global \in DOMAIN lists /\ lists' = Noted(p)
     \/ ret' = "killed" /\ user' = "closed" /\ UNCHANGED lists

End == /\ user # "closed" /\ user' = "closed"
       /\ ret' \in {"none", "killed"} /\ (ret' = "killed" => user = "broken")
       /\ UNCHANGED <<lists, store>>

Next == \/ Create \/ Open \/ Close \/ End
        \/ \E n \in Names : Make(n) \/ Remove(n)
        \/ \E n \in Names, p \in Paths : Add(n, p)

Spec == Init /\ [][Next]_vars
=============================================================================

---------------------------- MODULE LibraryStore ----------------------------
(***************************************************************************)
(* The promise of PlaylistStore, made by the bytes of Library: its         *)
(* playlists are what lspls and the walk show of the image, and a library  *)
(* that an error left unmapped is broken for its user.                     *)
(***************************************************************************)
EXTENDS Library

Store == INSTANCE PlaylistStore WITH
  lists <- Lists(img), store <- file, ret <- ret,
  user <- IF lib = "dangling" THEN "broken" ELSE lib

(* The bytes implement the promise: every command moves Lists(img) as      *)
(* PlaylistStore allows, also when growing the file, mapping it or syncing *)
(* it fails, as long as the file does not outgrow its pages.               *)
StoreImplements == Store!Spec
=============================================================================

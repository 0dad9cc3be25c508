---- MODULE MCStore ----
(* Small instances of Store for TLC. *)
EXTENDS Store
MCKeeps == {0, 1}
====

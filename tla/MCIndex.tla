---------------------------------- MODULE MCIndex ----------------------------------
(* Two repositories; a check for updates, a command that starts a prefix, and
   whatever else syncs, refuses, upgrades and is cut beside them. *)
EXTENDS Index

MCConfig == <<"core", "extra">>
=============================================================================

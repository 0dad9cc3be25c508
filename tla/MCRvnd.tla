-------------------------------- MODULE MCRvnd --------------------------------
(***************************************************************************)
(* Clients and policies for TLC.  "term" is a terminal that shows a plan    *)
(* first, "store" a front-end that does not; they are the same person's in  *)
(* two sessions.  "panel" asks for a service from the store's session,      *)
(* "probe" sends something that is no request, "root" does without rvnd.    *)
(***************************************************************************)
EXTENDS Rvnd

TwoSessions == {"s1", "s2"}
Person == [s \in TwoSessions |-> "ann"]
Seat == [term |-> "s1", store |-> "s2", panel |-> "s2",
         probe |-> "s1", root |-> NoSession]
Wants == [term |-> "aur", store |-> "repo", panel |-> "service",
          probe |-> "repo", root |-> "repo"]
SeatOf == [k \in Clients |-> Seat[k]]
WantsOf == [k \in Clients |-> Wants[k]]

\* The policy rvnd ships.
Shipped == [query |-> "allow", repo |-> "auth", aur |-> "auth", service |-> "auth"]
\* One that asks even for queries and refuses services.
Strict == [query |-> "auth", repo |-> "auth", aur |-> "auth", service |-> "deny"]
=============================================================================

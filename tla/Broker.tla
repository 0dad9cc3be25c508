-------------------------------- MODULE Broker --------------------------------
(***************************************************************************)
(* What rvnd and its client promise together, whatever threads, prompts,    *)
(* locks and children it takes.  A client runs at most two transactions, a  *)
(* preview and the real one, and is then told once how the real one ended.  *)
(***************************************************************************)
CONSTANTS
  Clients,
  Exclusive   \* whether transactions may never overlap

VARIABLES
  active,     \* transactions at work on the install root
  committed,  \* those that have done what they were asked to
  told        \* what each client's user has been told

bvars == <<active, committed, told>>

Transactions == Clients \X {"plan", "apply"}

Init ==
  /\ active = {}
  /\ committed = {}
  /\ told = [k \in Clients |-> "nothing"]

\* Nothing begins for a client whose user has been told the outcome.
Begin(t) ==
  /\ t \notin active \cup committed
  /\ told[t[1]] = "nothing"
  /\ Exclusive => active = {}
  /\ active' = active \cup {t}
  /\ UNCHANGED <<committed, told>>

Commit(t) ==
  /\ t \in active \ committed
  /\ committed' = committed \cup {t}
  /\ UNCHANGED <<active, told>>

End(t) ==
  /\ t \in active
  /\ active' = active \ {t}
  /\ UNCHANGED <<committed, told>>

\* Nobody is told anything while a transaction of theirs is still at work, and
\* nobody is told "ok" about one that did not commit.
Tell(k, v) ==
  /\ told[k] = "nothing"
  /\ {<<k, "plan">>, <<k, "apply">>} \cap active = {}
  /\ v = "ok" => <<k, "apply">> \in committed
  /\ told' = [told EXCEPT ![k] = v]
  /\ UNCHANGED <<active, committed>>

Next ==
  \/ \E t \in Transactions : Begin(t) \/ Commit(t) \/ End(t)
  \/ \E k \in Clients, v \in {"ok", "failed"} : Tell(k, v)

Spec == Init /\ [][Next]_bvars
=============================================================================

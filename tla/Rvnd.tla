--------------------------------- MODULE Rvnd ---------------------------------
(***************************************************************************)
(* The privileged daemon and its clients: daemon.rs, auth.rs, the policy of *)
(* policy.rs and via_daemon of main.rs.  A client is one rvn command.  It   *)
(* opens a connection for a preview (--dry-run), if it shows one, and one   *)
(* for the request itself; a thread of rvnd serves each connection and runs *)
(* rvn as a child whose output is the connection.                           *)
(*                                                                         *)
(* What the child does to the install root is InstallTx's; here it works    *)
(* and then commits or aborts.                                              *)
(***************************************************************************)
EXTENDS Integers

CONSTANTS
  Clients,
  Sessions, User,    \* login sessions, and whose each one is
  SessionOf,         \* the session a client runs in, or NoSession
  NoSession,
  Nobody,            \* the lock is free
  Class,             \* what a client asks for, as Class::of has it
  Preview,           \* clients that show a plan and ask before going on
  Direct,            \* rvn run by root, without the daemon
  Root, Members,     \* clients of uid 0; clients whose account is in the group
  Malformed,         \* clients whose request rvnd cannot read or identify
  Mortal,            \* clients that may be killed while they wait
  Rule,              \* the policy's rule for each class
  WhenUnavailable,   \* on_auth_unavailable
  TTL,               \* auth_cache_seconds, in ticks
  MaxRestarts        \* bound on restarts of rvnd

Classes == {"query", "repo", "aur", "service"}
Conns   == Clients \X {"plan", "apply"}

ASSUME ClientAssumption ==
  /\ SessionOf \in [Clients -> Sessions \cup {NoSession}]
  /\ NoSession \notin Sessions
  /\ Nobody \notin Conns
  /\ Class \in [Clients -> Classes]
  /\ Preview \subseteq Clients /\ Direct \subseteq Clients /\ Mortal \subseteq Clients
  /\ \A k \in Direct : Class[k] # "service"
ASSUME PolicyAssumption ==
  /\ Rule \in [Classes -> {"allow", "auth", "deny"}]
  /\ WhenUnavailable \in {"allow", "deny"}
  /\ TTL \in Nat /\ MaxRestarts \in Nat

VARIABLES
  client,    \* where each rvn command stands
  thread,    \* where rvnd's thread for each connection stands
  session,   \* the session read from /proc for it
  decision,  \* how it was settled, the auth= field of the audit line
  child,     \* the rvn run for it
  outcome,   \* what the stream has said so far
  busy,      \* the connection that holds BUSY
  left,      \* AUTH_CACHE: how long each session's answer still counts
  up, restarts,
  log,       \* connections whose audit line has been written, or tried to be
  agreed     \* read by properties only: how fresh each session's agreement is

work == <<thread, session, decision, child, outcome, busy>>
auth == <<left, agreed>>
daemon == <<up, restarts>>
vars == <<client, work, auth, daemon, log>>

ClassOf(c) == IF c[2] = "plan" THEN "query" ELSE Class[c[1]]
Conn(k)    == IF client[k] = "plan" THEN <<k, "plan">> ELSE <<k, "apply">>
Working    == {"running", "committed", "aborted"}
\* Mutant: the child's output goes through rvnd, and ends with it.
OpenInRvnd(c) == thread[c] # "none"
Open(c)       == thread[c] # "none" \/ child[c] \in Working

Init ==
  /\ client = [k \in Clients |-> "new"]
  /\ thread = [c \in Conns |-> "none"]
  /\ session = [c \in Conns |-> NoSession]
  /\ decision = [c \in Conns |-> "none"]
  /\ child = [c \in Conns |-> "none"]
  /\ outcome = [c \in Conns |-> "none"]
  /\ busy = Nobody
  /\ left = [s \in Sessions |-> 0]
  /\ agreed = [s \in Sessions |-> 0]
  /\ up = TRUE /\ restarts = 0
  /\ log = {}

-----------------------------------------------------------------------------
(* The client.                                                               *)

Connect(k, phase) ==
  /\ client' = [client EXCEPT ![k] = phase]
  /\ thread' = [thread EXCEPT ![<<k, phase>>] = "read"]
  /\ UNCHANGED <<session, decision, child, outcome, busy, auth, daemon, log>>

GiveUp(k) ==
  /\ client' = [client EXCEPT ![k] = "failed"]
  /\ UNCHANGED <<work, auth, daemon, log>>

Start(k) ==
  /\ client[k] = "new" /\ k \notin Direct
  /\ IF up THEN Connect(k, IF k \in Preview THEN "plan" ELSE "apply") ELSE GiveUp(k)

\* Root never asks the daemon: rvn works in the process itself.
StartAsRoot(k) ==
  /\ client[k] = "new" /\ k \in Direct
  /\ client' = [client EXCEPT ![k] = "apply"]
  /\ child' = [child EXCEPT ![<<k, "apply">>] = "running"]
  /\ UNCHANGED <<thread, session, decision, outcome, busy, auth, daemon, log>>

Confirm(k) ==
  /\ client[k] = "confirm"
  /\ IF up THEN Connect(k, "apply") ELSE GiveUp(k)

Cancel(k) == client[k] = "confirm" /\ GiveUp(k)

\* The stream ends when rvnd and the child have both let go of it.
SeesEnd(k) ==
  /\ client[k] \in {"plan", "apply"}
  /\ ~Open(Conn(k))
  /\ client' = [client EXCEPT ![k] =
       IF outcome[Conn(k)] # "ok" THEN "failed"
       ELSE IF @ = "plan" THEN "confirm" ELSE "ok"]
  /\ UNCHANGED <<work, auth, daemon, log>>

Dies(k) ==
  /\ k \in Mortal \ Direct
  /\ client[k] \in {"plan", "confirm", "apply"}
  /\ client' = [client EXCEPT ![k] = "gone"]
  /\ UNCHANGED <<work, auth, daemon, log>>

-----------------------------------------------------------------------------
(* One thread of rvnd: read, decide, record, lock, run, wait, unlock, close. *)

Goes(c, there) == thread' = [thread EXCEPT ![c] = there]
Says(c, what)  == outcome' = [outcome EXCEPT ![c] = what]

Read(c) ==
  /\ thread[c] = "read"
  /\ session' = [session EXCEPT ![c] =
                   IF client[c[1]] = "gone" THEN NoSession ELSE SessionOf[c[1]]]
  /\ IF c[1] \in Malformed
     THEN decision' = [decision EXCEPT ![c] = "malformed"] /\ Goes(c, "audit")
     ELSE decision' = decision /\ Goes(c, "decide")
  /\ UNCHANGED <<client, child, outcome, busy, auth, daemon, log>>

\* Mutant: an answer counts for every session of the same user.
CoveredByUser(s) == \E t \in Sessions : User[t] = User[s] /\ left[t] > 0
Covered(s) == left[s] > 0

\* The auth= field when no prompt is raised; "prompt" when one has to be.
Settled(c, reachable) ==
  CASE c[1] \in Root -> "root"
    [] c[1] \notin Root \cup Members -> "group"
    [] c[1] \in Members \ Root /\ Rule[ClassOf(c)] = "allow" -> "not-required"
    [] c[1] \in Members \ Root /\ Rule[ClassOf(c)] = "deny" -> "policy"
    [] OTHER ->
         IF session[c] = NoSession
         THEN IF reachable THEN "session" ELSE "unavailable"
         ELSE IF Covered(session[c]) THEN "cached" ELSE "prompt"

Decide(c) ==
  /\ thread[c] = "decide"
  /\ \E reachable \in BOOLEAN :
       IF Settled(c, reachable) = "prompt"
       THEN Goes(c, "ask") /\ decision' = decision
       ELSE Goes(c, "audit") /\ decision' = [decision EXCEPT ![c] = Settled(c, reachable)]
  /\ UNCHANGED <<client, session, child, outcome, busy, auth, daemon, log>>

Granted(c) ==
  /\ thread[c] = "ask"
  /\ left' = [left EXCEPT ![session[c]] = TTL]
  /\ agreed' = [agreed EXCEPT ![session[c]] = TTL]
  /\ decision' = [decision EXCEPT ![c] = "prompt"]
  /\ Goes(c, "audit")
  /\ UNCHANGED <<client, session, child, outcome, busy, daemon, log>>

NotGranted(c, how) ==
  /\ thread[c] = "ask"
  /\ decision' = [decision EXCEPT ![c] = how]
  /\ Goes(c, "audit")
  /\ UNCHANGED <<client, session, child, outcome, busy, auth, daemon, log>>

\* Mutant: no deadline on the socket.
WaitsForever(c) == FALSE
\* The read deadline on ravend's socket: a prompt nobody answers is a refusal.
TimesOut(c) == NotGranted(c, "denied")

Allowed(c) ==
  \/ decision[c] \in {"root", "not-required", "cached", "prompt"}
  \/ decision[c] = "unavailable" /\ WhenUnavailable = "allow"

\* Mutant: only refusals are written down.
RefusalsOnly(c) ==
  /\ thread[c] = "audit"
  /\ log' = IF Allowed(c) THEN log ELSE log \cup {c}
  /\ IF Allowed(c)
     THEN Goes(c, IF ClassOf(c) = "service" THEN "service" ELSE "lock") /\ outcome' = outcome
     ELSE Says(c, "failed") /\ Goes(c, "close")
  /\ UNCHANGED <<client, session, decision, child, busy, auth, daemon>>

\* Every decision is written down before anything comes of it; a log that
\* cannot be written stops nothing.
Audit(c) ==
  /\ thread[c] = "audit"
  /\ log' = log \cup {c}
  /\ IF Allowed(c)
     THEN Goes(c, IF ClassOf(c) = "service" THEN "service" ELSE "lock") /\ outcome' = outcome
     ELSE Says(c, "failed") /\ Goes(c, "close")
  /\ UNCHANGED <<client, session, decision, child, busy, auth, daemon>>

\* A service verb is a few lines on init's socket, outside the lock.  It says
\* "ok" or "failed" on the stream, and the client takes no notice of an "ok".
Service(c) ==
  /\ thread[c] = "service"
  /\ \/ child' = [child EXCEPT ![c] = "served"] /\ outcome' = outcome
     \/ child' = child /\ Says(c, "failed")
  /\ Goes(c, "close")
  /\ UNCHANGED <<client, session, decision, busy, auth, daemon, log>>

\* Mutant: the lock is not looked at.
Overrun(c) ==
  /\ thread[c] = "lock"
  /\ busy' = c
  /\ Goes(c, "spawn")
  /\ UNCHANGED <<client, session, decision, child, outcome, auth, daemon, log>>

Lock(c) ==
  /\ thread[c] = "lock"
  /\ busy = Nobody
  /\ busy' = c
  /\ Goes(c, "spawn")
  /\ UNCHANGED <<client, session, decision, child, outcome, auth, daemon, log>>

Busy(c) ==
  /\ thread[c] = "lock"
  /\ busy # Nobody
  /\ Says(c, "failed")
  /\ Goes(c, "close")
  /\ UNCHANGED <<client, session, decision, child, busy, auth, daemon, log>>

Spawn(c) ==
  /\ thread[c] = "spawn"
  /\ child' = [child EXCEPT ![c] = "running"]
  /\ Goes(c, "wait")
  /\ UNCHANGED <<client, session, decision, outcome, busy, auth, daemon, log>>

CannotSpawn(c) ==
  /\ thread[c] = "spawn"
  /\ Says(c, "failed")
  /\ Goes(c, "release")
  /\ UNCHANGED <<client, session, decision, child, busy, auth, daemon, log>>

\* The exit event counts only where the child itself said nothing.
Reap(c) ==
  /\ thread[c] = "wait"
  /\ child[c] \in {"exited", "died", "cut"}
  /\ outcome' = [outcome EXCEPT ![c] = IF child[c] # "exited" /\ @ = "none" THEN "failed" ELSE @]
  /\ Goes(c, "release")
  /\ UNCHANGED <<client, session, decision, child, busy, auth, daemon, log>>

\* Mutant: the lock outlives the stream.
KeepsLock(c) ==
  /\ thread[c] = "release"
  /\ Goes(c, "close")
  /\ UNCHANGED <<client, session, decision, child, outcome, busy, auth, daemon, log>>

\* Leaving handle drops the guard first and the stream last.
Release(c) ==
  /\ thread[c] = "release"
  /\ busy' = Nobody
  /\ Goes(c, "close")
  /\ UNCHANGED <<client, session, decision, child, outcome, auth, daemon, log>>

Close(c) ==
  /\ thread[c] = "close"
  /\ Goes(c, "none")
  /\ UNCHANGED <<client, session, decision, child, outcome, busy, auth, daemon, log>>

-----------------------------------------------------------------------------
(* The child, the clock, and rvnd itself.                                    *)

Works(c) ==
  /\ child[c] = "running"
  /\ \E end \in {"committed", "aborted"} : child' = [child EXCEPT ![c] = end]
  /\ UNCHANGED <<client, thread, session, decision, outcome, busy, auth, daemon, log>>

Reports(c) ==
  /\ child[c] \in {"committed", "aborted"}
  /\ child' = [child EXCEPT ![c] = IF @ = "committed" THEN "exited" ELSE "died"]
  /\ Says(c, IF child[c] = "committed" THEN "ok" ELSE "failed")
  /\ UNCHANGED <<client, thread, session, decision, busy, auth, daemon, log>>

Killed(c) ==
  /\ child[c] \in Working
  /\ child' = [child EXCEPT ![c] = IF @ = "committed" THEN "cut" ELSE "died"]
  /\ UNCHANGED <<client, thread, session, decision, outcome, busy, auth, daemon, log>>

Less(f) == [s \in Sessions |-> IF f[s] > 0 THEN f[s] - 1 ELSE 0]

Tick ==
  /\ \E s \in Sessions : left[s] > 0 \/ agreed[s] > 0
  /\ left' = Less(left)
  /\ agreed' = Less(agreed)
  /\ UNCHANGED <<client, work, daemon, log>>

\* Threads, lock and cache go with the process.  Its children do not: they are
\* still there, on their clients' connections.
Crash ==
  /\ up
  /\ restarts < MaxRestarts
  /\ up' = FALSE
  /\ restarts' = restarts + 1
  /\ thread' = [c \in Conns |-> "none"]
  /\ busy' = Nobody
  /\ left' = [s \in Sessions |-> 0]
  /\ agreed' = [s \in Sessions |-> 0]
  /\ UNCHANGED <<client, session, decision, child, outcome, log>>

Restart ==
  /\ ~up
  /\ up' = TRUE
  /\ UNCHANGED <<client, work, auth, restarts, log>>

Serve(c) ==
  \/ Read(c) \/ Decide(c) \/ TimesOut(c) \/ Audit(c) \/ Service(c)
  \/ Lock(c) \/ Busy(c) \/ Spawn(c) \/ CannotSpawn(c) \/ Reap(c)
  \/ Release(c) \/ Close(c)

Next ==
  \/ \E k \in Clients : Start(k) \/ StartAsRoot(k) \/ Confirm(k) \/ Cancel(k)
                        \/ SeesEnd(k) \/ Dies(k)
  \/ \E c \in Conns : Serve(c)
  \/ \E c \in Conns : Granted(c)
  \/ \E c \in Conns, how \in {"denied", "unavailable"} : NotGranted(c, how)
  \/ \E c \in Conns : Works(c) \/ Reports(c)
  \/ \E c \in Conns : Killed(c)
  \/ Tick
  \/ Crash
  \/ Restart

\* Threads are scheduled, the child ends, the client reads its stream.  Nothing
\* is assumed of ravend, of people, or of init.
Fairness ==
  /\ \A c \in Conns : WF_vars(Serve(c)) /\ WF_vars(Works(c) \/ Reports(c))
  /\ \A k \in Clients : WF_vars(SeesEnd(k))

Spec == Init /\ [][Next]_vars /\ Fairness

-----------------------------------------------------------------------------
(* Properties.                                                               *)

Commands == {"new", "plan", "confirm", "apply", "ok", "failed", "gone"}
Threads == {"none", "read", "decide", "ask", "audit", "service", "lock", "spawn",
            "wait", "release", "close"}
Decisions == {"none", "malformed", "root", "group", "not-required", "policy",
              "session", "unavailable", "cached", "prompt", "denied"}
Children == Working \cup {"none", "served", "exited", "died", "cut"}

\* Every variable stays within the values its counterpart in the code can take.
TypeOK ==
  /\ client \in [Clients -> Commands]
  /\ thread \in [Conns -> Threads]
  /\ session \in [Conns -> Sessions \cup {NoSession}]
  /\ decision \in [Conns -> Decisions]
  /\ child \in [Conns -> Children]
  /\ outcome \in [Conns -> {"none", "ok", "failed"}]
  /\ busy \in Conns \cup {Nobody}
  /\ left \in [Sessions -> 0..TTL] /\ agreed \in [Sessions -> 0..TTL]
  /\ up \in BOOLEAN /\ restarts \in 0..MaxRestarts
  /\ log \subseteq Conns

\* What rvnd promises its clients: their transactions do not overlap, as long as
\* they all go through one run of rvnd; nobody is told an outcome while a
\* transaction of theirs is still at work, even if rvnd died in the middle of
\* it; and nobody is told "done" of one that did not commit.
B == INSTANCE Broker WITH
       Exclusive <- MaxRestarts = 0 /\ Direct = {},
       active <- {c \in Conns : child[c] \in Working},
       committed <- {c \in Conns : child[c] \in {"committed", "exited", "cut"}},
       told <- [k \in Clients |->
                  IF client[k] \in {"ok", "failed"} THEN client[k] ELSE "nothing"]
Promise == B!Spec

\* Two runs of rvn never work on the install root at once.
OneAtATime ==
  \A c, d \in Conns : child[c] \in Working /\ child[d] \in Working => c = d

\* A client whose preview has ended is never told that its own preview is still
\* in the way: the lock is free before the stream ends.
BusyStep ==
  \A c \in Conns : thread[c] = "lock" /\ thread'[c] = "close" =>
                     \E d \in Conns : busy = d /\ d[1] # c[1]
NeverInItsOwnWay == [][BusyStep]_vars

\* Nobody is let in on a remembered answer but in the session that gave it, to
\* this run of rvnd, less than the cache's lifetime ago.
CachedStep ==
  \A c \in Conns : decision[c] = "none" /\ decision'[c] = "cached" =>
                     agreed[session[c]] > 0
OnlyOnAgreement == [][CachedStep]_vars

\* Nothing has been done as root for a request the audit log was not told of.
OnRecord ==
  \A c \in Conns : child[c] # "none" /\ c[1] \notin Direct => c \in log

\* Every connection comes to an end, whether or not anybody answers a prompt,
\* the child or rvnd dies, or the lock is taken.
Answered ==
  \A k \in Clients :
    /\ client[k] = "plan" ~> client[k] # "plan"
    /\ client[k] = "apply" ~> client[k] # "apply"

=============================================================================

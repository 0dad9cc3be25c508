------------------------------ MODULE RvndProofs ------------------------------
(***************************************************************************)
(* Proofs about the daemon, for any clients, sessions and policy.           *)
(***************************************************************************)
EXTENDS Rvnd, TLAPS

Untouched(c) == thread[c] = "none" /\ child[c] = "none" /\ outcome[c] = "none"

\* A connection is open only while its client waits for it, or is gone; a
\* client has one open connection at most, and has not touched the next one.
StreamInv ==
  /\ \A c \in Conns : Open(c) => client[c[1]] \in {c[2], "gone"}
  /\ \A c, d \in Conns : c[1] = d[1] /\ Open(c) /\ Open(d) => c = d
  /\ \A c \in Conns :
       client[c[1]] = "new" \/ (client[c[1]] \in {"plan", "confirm"} /\ c[2] = "apply")
         => Untouched(c)

Before == {"read", "decide", "ask", "audit", "service", "lock", "spawn"}

\* The lock is held by the thread between taking and dropping it; there is no
\* child before that, and a stream that said "ok" is of a child that committed.
LockInv ==
  /\ \A c \in Conns : busy = c <=> thread[c] \in {"spawn", "wait", "release"}
  /\ \A c \in Conns : thread[c] \in Before => child[c] = "none" /\ outcome[c] = "none"
  /\ \A c \in Conns : outcome[c] = "ok" => child[c] = "exited"

\* While rvnd is the only one to run rvn, and lives, its thread waits for it.
ChildInv ==
  MaxRestarts = 0 /\ Direct = {} =>
    \A c \in Conns : child[c] \in Working => thread[c] = "wait"

Inv == StreamInv /\ LockInv /\ ChildInv
FreshInv == left = agreed
RecordInv ==
  /\ \A c \in Conns : thread[c] \in {"service", "lock", "spawn", "wait", "release"} => c \in log
  /\ OnRecord
-----------------------------------------------------------------------------
(* Types.                                                                    *)

LEMMA Pairs == \A c \in Conns : c = <<c[1], c[2]>> /\ c[1] \in Clients /\ c[2] \in {"plan", "apply"}
  BY DEF Conns

LEMMA TypeStart == Init => TypeOK
  BY ClientAssumption, PolicyAssumption, SMTT(30)
     DEF Init, TypeOK, Commands, Threads, Decisions, Children, Working

\* The steps of the client, of rvnd's thread, and of everything else.
ClientStep(k) ==
  Start(k) \/ StartAsRoot(k) \/ Confirm(k) \/ Cancel(k) \/ SeesEnd(k) \/ Dies(k)
ThreadStep(c) ==
  Serve(c) \/ Granted(c) \/ (\E how \in {"denied", "unavailable"} : NotGranted(c, how))
ChildStep(c) == Works(c) \/ Reports(c) \/ Killed(c)
DaemonStep == Tick \/ Crash \/ Restart

LEMMA Steps ==
  Next <=> \/ \E k \in Clients : ClientStep(k)
           \/ \E c \in Conns : ThreadStep(c) \/ ChildStep(c)
           \/ DaemonStep
  BY ZenonT(30) DEF Next, ClientStep, ThreadStep, ChildStep, DaemonStep

LEMMA TypeStep == TypeOK /\ [Next]_vars => TypeOK'
<1> SUFFICES ASSUME TypeOK, [Next]_vars PROVE TypeOK'
  OBVIOUS
<1> USE ClientAssumption, PolicyAssumption
    DEF TypeOK, Commands, Threads, Decisions, Children, Working
<1>1. ASSUME NEW k \in Clients, ClientStep(k) PROVE TypeOK'
  <2>1. ASSUME NEW phase \in {"plan", "apply"}, Connect(k, phase) PROVE TypeOK'
    BY <2>1 DEF Connect, Conns, auth, daemon
  <2>4. CASE GiveUp(k)
    BY <2>4 DEF GiveUp, work, auth, daemon
  <2>5. CASE Start(k) \/ Confirm(k) \/ Cancel(k)
    BY <2>1, <2>4, <2>5 DEF Start, Confirm, Cancel
  <2>2. CASE StartAsRoot(k)
    BY <2>2 DEF StartAsRoot, Conns, auth, daemon
  <2>3. CASE SeesEnd(k) \/ Dies(k)
    BY <2>3 DEF SeesEnd, Dies, work, auth, daemon
  <2> QED BY <1>1, <2>2, <2>3, <2>5 DEF ClientStep
<1>2. ASSUME NEW c \in Conns, ThreadStep(c) PROVE TypeOK'
  <2>1. CASE Read(c)
    BY <2>1, Pairs DEF Read, Goes, auth, daemon
  <2>2. CASE Decide(c)
    <3>1. \A r \in BOOLEAN : Settled(c, r) = "prompt" \/ Settled(c, r) \in Decisions
      BY DEF Settled
    <3>2. PICK r \in BOOLEAN :
            \/ thread' = [thread EXCEPT ![c] = "ask"] /\ decision' = decision
            \/ /\ thread' = [thread EXCEPT ![c] = "audit"]
               /\ decision' = [decision EXCEPT ![c] = Settled(c, r)]
               /\ Settled(c, r) \in Decisions
      BY <2>2, <3>1 DEF Decide, Goes
    <3> QED BY <2>2, <3>2 DEF Decide, auth, daemon
  <2>3. CASE Granted(c)
    <3>1. TTL \in 0..TTL
      OBVIOUS
    <3>2. left' \in [Sessions -> 0..TTL] /\ agreed' \in [Sessions -> 0..TTL]
      BY <2>3, <3>1, Zenon DEF Granted
    <3>3. thread' \in [Conns -> Threads] /\ decision' \in [Conns -> Decisions]
      BY <2>3 DEF Granted, Goes
    <3> QED BY <2>3, <3>2, <3>3 DEF Granted, daemon
  <2>4. CASE TimesOut(c) \/ \E how \in {"denied", "unavailable"} : NotGranted(c, how)
    BY <2>4 DEF TimesOut, NotGranted, Goes, auth, daemon
  <2>5. CASE Audit(c) \/ Service(c)
    BY <2>5 DEF Audit, Service, Goes, Says, auth, daemon
  <2>6. CASE Lock(c) \/ Busy(c) \/ Spawn(c) \/ CannotSpawn(c)
    BY <2>6 DEF Lock, Busy, Spawn, CannotSpawn, Goes, Says, auth, daemon
  <2>7. CASE Reap(c) \/ Release(c) \/ Close(c)
    BY <2>7 DEF Reap, Release, Close, Goes, Says, auth, daemon
  <2> QED BY <1>2, <2>1, <2>2, <2>3, <2>4, <2>5, <2>6, <2>7 DEF ThreadStep, Serve
<1>3. ASSUME NEW c \in Conns, ChildStep(c) PROVE TypeOK'
  BY <1>3 DEF ChildStep, Works, Reports, Killed, Says, auth, daemon
<1>4. CASE DaemonStep
  <2>1. CASE Tick
    BY <2>1 DEF Tick, Less, work, daemon
  <2>2. CASE Crash
    <3>1. left' \in [Sessions -> 0..TTL] /\ agreed' \in [Sessions -> 0..TTL]
      BY <2>2 DEF Crash
    <3>2. thread' \in [Conns -> Threads] /\ restarts' \in 0..MaxRestarts
      BY <2>2 DEF Crash
    <3> QED BY <2>2, <3>1, <3>2 DEF Crash
  <2>3. CASE Restart
    BY <2>3 DEF Restart, work, auth
  <2> QED BY <1>4, <2>1, <2>2, <2>3 DEF DaemonStep
<1>5. CASE UNCHANGED vars
  BY <1>5 DEF vars, work, auth, daemon
<1> QED BY <1>1, <1>2, <1>3, <1>4, <1>5, Steps

\* Every variable keeps to its type, whoever asks, dies or restarts.
THEOREM TypeCorrect == Spec => []TypeOK
  BY TypeStart, TypeStep, PTL DEF Spec

-----------------------------------------------------------------------------
(* Streams: who has one open, and with whom.                                 *)

LEMMA StreamStart == Init => StreamInv
  BY Pairs DEF Init, StreamInv, Open, Untouched, Working

\* A step that leaves the clients alone and opens no stream.
LEMMA NoNewStream ==
  ASSUME StreamInv, client' = client,
         \A d \in Conns : Open(d)' => Open(d),
         \A d \in Conns : Untouched(d) => Untouched(d)'
  PROVE  StreamInv'
  BY DEF StreamInv

\* A step of one thread, or of the child, is no step of another's.
LEMMA OneThread ==
  ASSUME TypeOK, NEW c \in Conns, ThreadStep(c)
  PROVE  /\ client' = client /\ thread[c] # "none"
         /\ \A d \in Conns \ {c} : /\ thread'[d] = thread[d] /\ child'[d] = child[d]
                                   /\ outcome'[d] = outcome[d]
                                   /\ session'[d] = session[d] /\ decision'[d] = decision[d]
<1> USE DEF TypeOK, Goes, Says
<1>1. CASE Read(c) \/ Decide(c)
  BY <1>1 DEF Read, Decide
<1>2. CASE Granted(c) \/ TimesOut(c) \/ \E how \in {"denied", "unavailable"} : NotGranted(c, how)
  BY <1>2 DEF Granted, TimesOut, NotGranted
<1>3. CASE Audit(c) \/ Service(c)
  BY <1>3 DEF Audit, Service
<1>4. CASE Lock(c) \/ Busy(c) \/ Spawn(c) \/ CannotSpawn(c)
  BY <1>4 DEF Lock, Busy, Spawn, CannotSpawn
<1>5. CASE Reap(c) \/ Release(c) \/ Close(c)
  BY <1>5 DEF Reap, Release, Close
<1> QED BY <1>1, <1>2, <1>3, <1>4, <1>5 DEF ThreadStep, Serve

LEMMA OneChild ==
  ASSUME TypeOK, NEW c \in Conns, ChildStep(c)
  PROVE  /\ UNCHANGED <<client, thread, session, decision, busy, auth, log, daemon>>
         /\ child[c] \in Working
         /\ child'[c] \in (Working \ {"running"}) \cup {"exited", "died", "cut"}
         /\ child[c] = "committed" => child'[c] \in {"exited", "cut"}
         /\ outcome'[c] # outcome[c] => outcome'[c] = "failed" \/ child'[c] = "exited"
         /\ outcome'[c] = "ok" => outcome[c] = "ok" \/ child'[c] = "exited"
         /\ child'[c] \in {"exited", "cut"} => child[c] = "committed"
         /\ \A d \in Conns \ {c} : child'[d] = child[d] /\ outcome'[d] = outcome[d]
  BY DEF ChildStep, Works, Reports, Killed, Says, TypeOK, Working, auth, daemon

LEMMA StreamStep == TypeOK /\ StreamInv /\ [Next]_vars => StreamInv'
<1> SUFFICES ASSUME TypeOK, StreamInv, [Next]_vars PROVE StreamInv'
  OBVIOUS
<1>1. ASSUME NEW k \in Clients, ClientStep(k) PROVE StreamInv'
  <2>1. ASSUME NEW phase \in {"plan", "apply"}, Connect(k, phase),
               \/ client[k] = "new"
               \/ client[k] = "confirm" /\ phase = "apply"
        PROVE  StreamInv'
    <3>1. <<k, phase>> \in Conns /\ Untouched(<<k, phase>>)
      BY <2>1 DEF StreamInv, Conns
    <3>2. \A d \in Conns : Open(d)' => Open(d) \/ d = <<k, phase>>
      BY <2>1, <3>1 DEF Open, Connect, TypeOK
    <3>3. \A d \in Conns : d[1] = k => ~Open(d)
      BY <2>1, Pairs DEF StreamInv
    <3>4. \A d \in Conns : Untouched(d) => Untouched(d)' \/ d = <<k, phase>>
      BY <2>1, <3>1 DEF Untouched, Connect, TypeOK
    <3>5. client' = [client EXCEPT ![k] = phase]
      BY <2>1 DEF Connect
    <3> QED BY <2>1, <3>1, <3>2, <3>3, <3>4, <3>5, Pairs DEF StreamInv, TypeOK
  <2>2. ASSUME NEW w \in {"failed", "confirm", "ok", "gone"}, client' = [client EXCEPT ![k] = w],
               UNCHANGED <<thread, child, outcome>>,
               \/ \A d \in Conns : d[1] = k => ~Open(d)
               \/ w = "gone",
               w = "confirm" => client[k] = "plan"
        PROVE  StreamInv'
    <3>1. \A d \in Conns : Open(d)' <=> Open(d)
      BY <2>2 DEF Open
    <3>2. \A d \in Conns : Untouched(d)' <=> Untouched(d)
      BY <2>2 DEF Untouched
    <3> QED BY <2>2, <3>1, <3>2, Pairs DEF StreamInv, TypeOK
  <2>3. CASE Start(k)
    <3>1. CASE GiveUp(k)
      <4>1. \A d \in Conns : d[1] = k => ~Open(d)
        BY <2>3, Pairs DEF Start, StreamInv
      <4> QED BY <3>1, <4>1, <2>2 DEF GiveUp, work
    <3> QED BY <2>1, <2>3, <3>1 DEF Start
  <2>4. CASE Confirm(k) \/ Cancel(k)
    <3>1. CASE GiveUp(k)
      <4>1. \A d \in Conns : d[1] = k => ~Open(d)
        BY <2>4, Pairs DEF Confirm, Cancel, StreamInv
      <4> QED BY <3>1, <4>1, <2>2 DEF GiveUp, work
    <3> QED BY <2>1, <2>4, <3>1 DEF Confirm, Cancel
  <2>5. CASE StartAsRoot(k)
    <3>1. <<k, "apply">> \in Conns /\ \A d \in Conns : d[1] = k => ~Open(d)
      BY <2>5 DEF StreamInv, Conns, StartAsRoot
    <3>2. \A d \in Conns : Open(d)' => Open(d) \/ d = <<k, "apply">>
      BY <2>5, <3>1 DEF Open, StartAsRoot, TypeOK
    <3>3. \A d \in Conns : Untouched(d) => Untouched(d)' \/ d = <<k, "apply">>
      BY <2>5, <3>1 DEF Untouched, StartAsRoot, TypeOK
    <3>4. client' = [client EXCEPT ![k] = "apply"]
      BY <2>5 DEF StartAsRoot
    <3> QED BY <3>1, <3>2, <3>3, <3>4, Pairs, <2>5 DEF StreamInv, TypeOK, StartAsRoot
  <2>6. CASE SeesEnd(k)
    <3>1. \A d \in Conns : d[1] = k => ~Open(d)
      BY <2>6, Pairs DEF SeesEnd, Conn, StreamInv
    <3> QED BY <2>2, <2>6, <3>1 DEF SeesEnd, work
  <2>7. CASE Dies(k)
    BY <2>2, <2>7 DEF Dies, work
  <2> QED BY <1>1, <2>3, <2>4, <2>5, <2>6, <2>7 DEF ClientStep
<1>2. ASSUME NEW c \in Conns, ThreadStep(c) PROVE StreamInv'
  <2>1. /\ \A d \in Conns : Open(d)' => Open(d)
        /\ \A d \in Conns : Untouched(d) => Untouched(d)'
    BY <1>2, OneThread DEF Open, Untouched
  <2> QED BY <1>2, <2>1, OneThread, NoNewStream
<1>3. ASSUME NEW c \in Conns, ChildStep(c) PROVE StreamInv'
  <2>1. /\ \A d \in Conns : Open(d)' => Open(d)
        /\ \A d \in Conns : Untouched(d) => Untouched(d)'
    BY <1>3, OneChild DEF Open, Untouched, Working
  <2> QED BY <1>3, <2>1, OneChild, NoNewStream
<1>4. CASE DaemonStep \/ UNCHANGED vars
  <2>1. /\ client' = client
        /\ \A d \in Conns : Open(d)' => Open(d)
        /\ \A d \in Conns : Untouched(d) => Untouched(d)'
    BY <1>4 DEF DaemonStep, Tick, Crash, Restart, Open, Untouched, work, vars
  <2> QED BY <2>1, NoNewStream
<1> QED BY <1>1, <1>2, <1>3, <1>4, Steps

-----------------------------------------------------------------------------
(* The lock, and the child that runs under it.                               *)

LEMMA LockStart == Init => LockInv /\ ChildInv
  BY ClientAssumption DEF Init, LockInv, ChildInv, Before, Working

\* What each step of a thread leaves behind, as far as the lock is concerned.
LEMMA LockThread ==
  ASSUME TypeOK, LockInv, NEW c \in Conns, ThreadStep(c)
  PROVE  LockInv'
<1> USE ClientAssumption DEF TypeOK, LockInv, Before, Goes, Says, Working
<1>1. CASE Read(c)
  BY <1>1 DEF Read
<1>2. CASE Decide(c)
  <2>1. /\ thread[c] = "decide" /\ UNCHANGED <<child, outcome, busy>>
        /\ \E there \in {"ask", "audit"} : thread' = [thread EXCEPT ![c] = there]
    BY <1>2 DEF Decide
  <2> QED BY <2>1
<1>3. CASE Granted(c) \/ TimesOut(c) \/ \E how \in {"denied", "unavailable"} : NotGranted(c, how)
  <2>1. /\ thread[c] = "ask" /\ UNCHANGED <<child, outcome, busy>>
        /\ thread' = [thread EXCEPT ![c] = "audit"]
    BY <1>3 DEF Granted, TimesOut, NotGranted
  <2> QED BY <2>1
<1>4. CASE Audit(c)
  <2>1. /\ thread[c] = "audit" /\ UNCHANGED <<child, busy>>
        /\ \/ /\ outcome' = outcome
              /\ \E there \in {"service", "lock"} : thread' = [thread EXCEPT ![c] = there]
           \/ /\ outcome' = [outcome EXCEPT ![c] = "failed"]
              /\ thread' = [thread EXCEPT ![c] = "close"]
    BY <1>4 DEF Audit
  <2> QED BY <2>1
<1>5. CASE Service(c)
  BY <1>5 DEF Service
<1>6. CASE Lock(c) \/ Busy(c)
  BY <1>6 DEF Lock, Busy
<1>7. CASE Spawn(c) \/ CannotSpawn(c)
  BY <1>7 DEF Spawn, CannotSpawn
<1>8. CASE Reap(c)
  BY <1>8 DEF Reap
<1>9. CASE Release(c) \/ Close(c)
  BY <1>9 DEF Release, Close
<1> QED BY <1>1, <1>2, <1>3, <1>4, <1>5, <1>6, <1>7, <1>8, <1>9 DEF ThreadStep, Serve

LEMMA LockStep == TypeOK /\ StreamInv /\ LockInv /\ [Next]_vars => LockInv'
<1> SUFFICES ASSUME TypeOK, StreamInv, LockInv, [Next]_vars PROVE LockInv'
  OBVIOUS
<1>1. ASSUME NEW k \in Clients, ClientStep(k) PROVE LockInv'
  <2>1. ASSUME NEW phase \in {"plan", "apply"}, Connect(k, phase),
               \/ client[k] = "new"
               \/ client[k] = "confirm" /\ phase = "apply"
        PROVE  LockInv'
    <3>1. <<k, phase>> \in Conns /\ Untouched(<<k, phase>>)
      BY <2>1 DEF StreamInv, Conns
    <3> QED BY <2>1, <3>1 DEF Connect, LockInv, Untouched, TypeOK, Before
  <2>2. CASE StartAsRoot(k)
    <3>1. <<k, "apply">> \in Conns /\ Untouched(<<k, "apply">>)
      BY <2>2 DEF StreamInv, Conns, StartAsRoot
    <3> QED BY <2>2, <3>1 DEF StartAsRoot, LockInv, Untouched, TypeOK, Before
  <2>3. CASE GiveUp(k) \/ SeesEnd(k) \/ Dies(k)
    BY <2>3 DEF GiveUp, SeesEnd, Dies, work, LockInv
  <2> QED BY <1>1, <2>1, <2>2, <2>3 DEF ClientStep, Start, Confirm, Cancel
<1>2. ASSUME NEW c \in Conns, ThreadStep(c) PROVE LockInv'
  BY <1>2, LockThread
<1>3. ASSUME NEW c \in Conns, ChildStep(c) PROVE LockInv'
  BY <1>3, OneChild DEF LockInv, Working
<1>4. CASE Crash
  BY <1>4, ClientAssumption DEF Crash, LockInv, Before
<1>5. CASE Tick \/ Restart \/ UNCHANGED vars
  BY <1>5 DEF Tick, Restart, work, vars, LockInv
<1> QED BY <1>1, <1>2, <1>3, <1>4, <1>5, Steps DEF DaemonStep

LEMMA ChildStepInv == TypeOK /\ StreamInv /\ LockInv /\ ChildInv /\ [Next]_vars => ChildInv'
<1> SUFFICES ASSUME TypeOK, StreamInv, ChildInv, [Next]_vars, MaxRestarts = 0, Direct = {}
             PROVE  \A c \in Conns : child'[c] \in Working => thread'[c] = "wait"
  BY DEF ChildInv
<1>0. \A c \in Conns : child[c] \in Working => thread[c] = "wait"
  BY DEF ChildInv
<1>1. ASSUME NEW k \in Clients, ClientStep(k)
      PROVE  \A c \in Conns : child'[c] \in Working => thread'[c] = "wait"
  <2>1. ASSUME NEW phase \in {"plan", "apply"}, Connect(k, phase),
               \/ client[k] = "new"
               \/ client[k] = "confirm" /\ phase = "apply"
        PROVE  \A c \in Conns : child'[c] \in Working => thread'[c] = "wait"
    <3>1. <<k, phase>> \in Conns /\ Untouched(<<k, phase>>)
      BY <2>1 DEF StreamInv, Conns
    <3> QED BY <1>0, <2>1, <3>1 DEF Connect, Untouched, TypeOK, Working
  <2>2. CASE GiveUp(k) \/ SeesEnd(k) \/ Dies(k)
    BY <1>0, <2>2 DEF GiveUp, SeesEnd, Dies, work
  <2> QED BY <1>1, <2>1, <2>2 DEF ClientStep, Start, StartAsRoot, Confirm, Cancel
<1>2. ASSUME NEW c \in Conns, ThreadStep(c)
      PROVE  \A d \in Conns : child'[d] \in Working => thread'[d] = "wait"
  <2>1. \A d \in Conns \ {c} : child'[d] \in Working => thread'[d] = "wait"
    BY <1>0, <1>2, OneThread
  <2>2. CASE Spawn(c)
    BY <2>1, <2>2 DEF Spawn, Goes, TypeOK
  <2>3. CASE ~Spawn(c)
    <3>1. thread[c] # "wait" => child'[c] \notin Working
      <4>1. child'[c] \in Working => child[c] \in Working
        BY <1>2, <2>3 DEF ThreadStep, Serve, Read, Decide, Granted, TimesOut, NotGranted, Audit,
           Service, Lock, Busy, CannotSpawn, Reap, Release, Close, TypeOK, Working
      <4> QED BY <4>1, <1>0
    <3>2. thread[c] = "wait" => child'[c] \notin Working
      BY <1>2, <2>3 DEF ThreadStep, Serve, Read, Decide, Granted, TimesOut, NotGranted, Audit,
         Service, Lock, Busy, CannotSpawn, Reap, Release, Close, TypeOK, Working
    <3> QED BY <2>1, <3>1, <3>2
  <2> QED BY <2>2, <2>3
<1>3. ASSUME NEW c \in Conns, ChildStep(c)
      PROVE  \A d \in Conns : child'[d] \in Working => thread'[d] = "wait"
  BY <1>0, <1>3, OneChild
<1>4. CASE Crash
  BY <1>4, PolicyAssumption DEF Crash, TypeOK
<1>5. CASE Tick \/ Restart \/ UNCHANGED vars
  BY <1>0, <1>5 DEF Tick, Restart, work, vars
<1> QED BY <1>1, <1>2, <1>3, <1>4, <1>5, Steps DEF DaemonStep

\* The inductive invariant: streams, the lock and the child go together.
LEMMA InvAlways == Spec => [](TypeOK /\ Inv)
<1>1. Init => TypeOK /\ Inv
  BY TypeStart, StreamStart, LockStart DEF Inv
<1>2. TypeOK /\ Inv /\ [Next]_vars => (TypeOK /\ Inv)'
  BY TypeStep, StreamStep, LockStep, ChildStepInv DEF Inv
<1> QED BY <1>1, <1>2, PTL DEF Spec

-----------------------------------------------------------------------------
(* What follows.                                                             *)

\* One run of rvnd that is the only one to run rvn never has two of them at
\* work at once.
THEOREM OneTransaction ==
  ASSUME MaxRestarts = 0, Direct = {}
  PROVE  Spec => []OneAtATime
<1>1. TypeOK /\ Inv => OneAtATime
  BY DEF Inv, ChildInv, LockInv, OneAtATime
<1> QED BY InvAlways, <1>1, PTL

\* A client that is told another transaction is running is told the truth: it
\* is another client's, never the preview it has just been shown.
THEOREM OwnPreviewReleased == Spec => NeverInItsOwnWay
<1>1. TypeOK /\ Inv /\ [Next]_vars => [BusyStep]_vars
  <2> SUFFICES ASSUME TypeOK, Inv, [Next]_vars, NEW c \in Conns,
                      thread[c] = "lock", thread'[c] = "close"
               PROVE  \E d \in Conns : busy = d /\ d[1] # c[1]
    BY DEF BusyStep
  <2> USE DEF TypeOK
  <2>1. ASSUME NEW k \in Clients, ClientStep(k) PROVE FALSE
    BY <2>1 DEF ClientStep, Start, StartAsRoot, Confirm, Cancel, GiveUp, SeesEnd, Dies,
       Connect, work
  <2>2. ASSUME NEW d \in Conns, ChildStep(d) PROVE FALSE
    BY <2>2, OneChild
  <2>3. CASE DaemonStep \/ UNCHANGED vars
    BY <2>3 DEF DaemonStep, Tick, Crash, Restart, work, vars
  <2>4. ASSUME NEW d \in Conns, ThreadStep(d)
        PROVE  busy # Nobody
    <3>1. d = c
      BY <2>4, OneThread
    <3> QED BY <2>4, <3>1 DEF ThreadStep, Serve, Read, Decide, Granted, TimesOut, NotGranted,
               Audit, Service, Lock, Busy, Spawn, CannotSpawn, Reap, Release, Close, Goes
  <2>5. busy \in Conns
    BY <2>1, <2>2, <2>3, <2>4, Steps
  <2>6. thread[busy] \in {"spawn", "wait", "release"}
    BY <2>5 DEF Inv, LockInv
  <2>7. busy[1] # c[1]
    BY <2>5, <2>6 DEF Inv, StreamInv, Open
  <2> QED BY <2>5, <2>7
<1> QED BY InvAlways, <1>1, PTL DEF Spec, NeverInItsOwnWay

\* The cache holds exactly the agreements still in force.
LEMMA FreshAlways == Spec => []FreshInv
<1>1. Init => FreshInv
  BY DEF Init, FreshInv
<1>2. FreshInv /\ [Next]_vars => FreshInv'
  <2> SUFFICES ASSUME FreshInv, [Next]_vars PROVE FreshInv'
    OBVIOUS
  <2> USE DEF FreshInv
  <2>1. ASSUME NEW k \in Clients, ClientStep(k) PROVE FreshInv'
    BY <2>1 DEF ClientStep, Start, StartAsRoot, Confirm, Cancel, GiveUp, SeesEnd, Dies,
       Connect, auth
  <2>2. ASSUME NEW c \in Conns, ThreadStep(c) PROVE FreshInv'
    BY <2>2 DEF ThreadStep, Serve, Read, Decide, Granted, TimesOut, NotGranted, Audit,
       Service, Lock, Busy, Spawn, CannotSpawn, Reap, Release, Close, auth
  <2>3. ASSUME NEW c \in Conns, ChildStep(c) PROVE FreshInv'
    BY <2>3 DEF ChildStep, Works, Reports, Killed, auth
  <2>4. CASE DaemonStep \/ UNCHANGED vars
    BY <2>4 DEF DaemonStep, Tick, Crash, Restart, auth, vars
  <2> QED BY <2>1, <2>2, <2>3, <2>4, Steps
<1> QED BY <1>1, <1>2, PTL DEF Spec

\* Nobody is let in on an answer other than that of their own session, to this
\* run of rvnd, within the lifetime of the cache.
THEOREM CachedAnswersAreFresh == Spec => OnlyOnAgreement
<1>1. TypeOK /\ FreshInv /\ [Next]_vars => [CachedStep]_vars
  <2> SUFFICES ASSUME TypeOK, FreshInv, [Next]_vars, NEW c \in Conns,
                      decision[c] = "none", decision'[c] = "cached"
               PROVE  agreed[session[c]] > 0
    BY DEF CachedStep
  <2> USE DEF TypeOK
  <2>1. ASSUME NEW k \in Clients, ClientStep(k) PROVE FALSE
    BY <2>1 DEF ClientStep, Start, StartAsRoot, Confirm, Cancel, GiveUp, SeesEnd, Dies,
       Connect, work
  <2>2. ASSUME NEW d \in Conns, ChildStep(d) PROVE FALSE
    BY <2>2, OneChild
  <2>3. CASE DaemonStep \/ UNCHANGED vars
    BY <2>3 DEF DaemonStep, Tick, Crash, Restart, work, vars
  <2>4. ASSUME NEW d \in Conns, ThreadStep(d), d # c PROVE FALSE
    BY <2>4, OneThread
  <2>5. CASE ThreadStep(c)
    <3>1. Decide(c)
      BY <2>5 DEF ThreadStep, Serve, Read, Granted, TimesOut, NotGranted, Audit,
         Service, Lock, Busy, Spawn, CannotSpawn, Reap, Release, Close
    <3>2. PICK r \in BOOLEAN : Settled(c, r) = "cached"
      BY <3>1 DEF Decide
    <3>3. Covered(session[c])
      BY <3>2 DEF Settled
    <3> QED BY <3>3 DEF Covered, FreshInv
  <2> QED BY <2>1, <2>2, <2>3, <2>4, <2>5, Steps
<1> QED BY TypeCorrect, FreshAlways, <1>1, PTL DEF Spec, OnlyOnAgreement

\* Whatever was done as root for a connection, the audit log was told of the
\* request first, even if rvnd dies in between.
THEOREM RecordedFirst == Spec => []OnRecord
<1>1. Init => RecordInv
  BY DEF Init, RecordInv, OnRecord
<1>2. TypeOK /\ RecordInv /\ [Next]_vars => RecordInv'
  <2> SUFFICES ASSUME TypeOK, RecordInv, [Next]_vars PROVE RecordInv'
    OBVIOUS
  <2> USE DEF TypeOK, RecordInv, OnRecord
  <2>1. ASSUME NEW k \in Clients, ClientStep(k) PROVE RecordInv'
    <3>1. CASE StartAsRoot(k)
      <4>1. \A d \in Conns : child'[d] # child[d] => d[1] \in Direct
        BY <3>1, Pairs DEF StartAsRoot
      <4> QED BY <3>1, <4>1 DEF StartAsRoot
    <3>2. ASSUME NEW phase \in {"plan", "apply"}, Connect(k, phase) PROVE RecordInv'
      BY <3>2 DEF Connect
    <3>3. CASE GiveUp(k) \/ SeesEnd(k) \/ Dies(k)
      BY <3>3 DEF GiveUp, SeesEnd, Dies, work
    <3> QED BY <2>1, <3>1, <3>2, <3>3 DEF ClientStep, Start, Confirm, Cancel
  <2>2. ASSUME NEW c \in Conns, ThreadStep(c) PROVE RecordInv'
    <3>1. CASE Read(c) \/ Decide(c)
      BY <2>2, <3>1, OneThread DEF Read, Decide, Goes
    <3>2. CASE Granted(c) \/ TimesOut(c) \/ \E how \in {"denied", "unavailable"} : NotGranted(c, how)
      BY <3>2 DEF Granted, TimesOut, NotGranted, Goes
    <3>3. CASE Audit(c)
      BY <3>3 DEF Audit, Goes
    <3>4. CASE Service(c) \/ Lock(c) \/ Busy(c)
      BY <3>4 DEF Service, Lock, Busy, Goes
    <3>5. CASE Spawn(c) \/ CannotSpawn(c) \/ Reap(c) \/ Release(c) \/ Close(c)
      BY <3>5 DEF Spawn, CannotSpawn, Reap, Release, Close, Goes
    <3> QED BY <2>2, <3>1, <3>2, <3>3, <3>4, <3>5 DEF ThreadStep, Serve
  <2>3. ASSUME NEW c \in Conns, ChildStep(c) PROVE RecordInv'
    BY <2>3, OneChild DEF Working
  <2>4. CASE DaemonStep \/ UNCHANGED vars
    BY <2>4 DEF DaemonStep, Tick, Crash, Restart, work, vars
  <2> QED BY <2>1, <2>2, <2>3, <2>4, Steps
<1>3. RecordInv => OnRecord
  BY DEF RecordInv
<1> QED BY TypeCorrect, <1>1, <1>2, <1>3, PTL DEF Spec

-----------------------------------------------------------------------------
(* The daemon implements the broker.                                         *)

Active    == {c \in Conns : child[c] \in Working}
Committed == {c \in Conns : child[c] \in {"committed", "exited", "cut"}}
Told      == [k \in Clients |->
                IF client[k] \in {"ok", "failed"} THEN client[k] ELSE "nothing"]

LEMMA Vocabulary ==
  /\ B!Transactions = Conns
  /\ B!bvars = <<Active, Committed, Told>>
  BY DEF B!Transactions, B!bvars, Conns, Active, Committed, Told

LEMMA BrokerStart == Init => B!Init
  BY DEF Init, B!Init, Working

\* What the client's user is told.
LEMMA TellsTruth ==
  ASSUME TypeOK, Inv, NEW k \in Clients, NEW v \in {"ok", "failed"},
         client' = [client EXCEPT ![k] = v], child' = child,
         client[k] \notin {"ok", "failed"},
         \A c \in Conns : c[1] = k => ~Open(c),
         v = "ok" => child[<<k, "apply">>] = "exited"
  PROVE  B!Tell(k, v)
<1> USE DEF TypeOK
<1>1. Told[k] = "nothing" /\ Told' = [Told EXCEPT ![k] = v]
  BY DEF Told
<1>2. <<k, "plan">> \in Conns /\ <<k, "apply">> \in Conns
  BY DEF Conns
<1>3. {<<k, "plan">>, <<k, "apply">>} \cap Active = {}
  BY <1>2 DEF Active, Open
<1>4. v = "ok" => <<k, "apply">> \in Committed
  BY <1>2 DEF Committed
<1>5. UNCHANGED <<Active, Committed>>
  BY DEF Active, Committed
<1> QED BY <1>1, <1>3, <1>4, <1>5 DEF B!Tell, Active, Committed, Told

\* A run of rvn starts.
LEMMA BeginsAlone ==
  ASSUME TypeOK, NEW c \in Conns, child[c] = "none",
         child' = [child EXCEPT ![c] = "running"],
         client[c[1]] \notin {"ok", "failed"}, Told' = Told,
         (MaxRestarts = 0 /\ Direct = {}) => \A d \in Conns : child[d] \notin Working
  PROVE  B!Begin(c)
<1> USE DEF TypeOK
<1>1. c \notin Active \cup Committed
  BY DEF Active, Committed, Working
<1>2. c[1] \in Clients /\ Told[c[1]] = "nothing"
  BY Pairs DEF Told
<1>3. Active' = Active \cup {c} /\ Committed' = Committed
  BY DEF Active, Committed, Working
<1>4. (MaxRestarts = 0 /\ Direct = {}) => Active = {}
  BY DEF Active
<1> QED BY <1>1, <1>2, <1>3, <1>4 DEF B!Begin, Active, Committed, Told

\* Nothing the broker knows of changes.
LEMMA Stutters ==
  ASSUME TypeOK,
         \A k \in Clients : client'[k] = client[k] \/ {client[k], client'[k]} \cap {"ok", "failed"} = {},
         \A c \in Conns : child'[c] = child[c] \/ {child[c], child'[c]} \subseteq {"none", "served"}
                          \/ {child[c], child'[c]} \subseteq {"running", "aborted"}
  PROVE  UNCHANGED B!bvars
<1>1. Told' = Told
  BY DEF Told
<1>2. Active' = Active /\ Committed' = Committed
  BY DEF Active, Committed, Working
<1> QED BY <1>1, <1>2, Vocabulary DEF B!bvars, Active, Committed, Told

LEMMA BrokerStep == TypeOK /\ Inv /\ [Next]_vars => [B!Next]_(B!bvars)
<1> SUFFICES ASSUME TypeOK, Inv, [Next]_vars PROVE B!Next \/ UNCHANGED B!bvars
  OBVIOUS
<1> USE DEF TypeOK
<1>1. ASSUME NEW k \in Clients, ClientStep(k) PROVE B!Next \/ UNCHANGED B!bvars
  <2>1. ASSUME client[k] \notin {"ok", "failed"}, child' = child,
               NEW w \in {"plan", "apply", "confirm", "gone"},
               client' = [client EXCEPT ![k] = w]
        PROVE  UNCHANGED B!bvars
    BY <2>1, Stutters
  <2>2. ASSUME GiveUp(k), client[k] \in {"new", "confirm"} PROVE B!Next
    <3>1. \A c \in Conns : c[1] = k => ~Open(c)
      BY <2>2, Pairs DEF Inv, StreamInv
    <3>2. B!Tell(k, "failed")
      BY <2>2, <3>1, TellsTruth DEF GiveUp, work
    <3> QED BY <3>2 DEF B!Next
  <2>3. CASE Start(k) \/ Confirm(k) \/ Cancel(k)
    BY <2>1, <2>2, <2>3 DEF Start, Confirm, Cancel, Connect
  <2>4. CASE StartAsRoot(k)
    <3>1. <<k, "apply">> \in Conns /\ child[<<k, "apply">>] = "none"
      BY <2>4 DEF StartAsRoot, Conns, Inv, StreamInv, Untouched
    <3>2. Told' = Told
      BY <2>4 DEF StartAsRoot, Told
    <3>3. B!Begin(<<k, "apply">>)
      BY <2>4, <3>1, <3>2, BeginsAlone DEF StartAsRoot
    <3> QED BY <3>1, <3>3, Vocabulary DEF B!Next
  <2>5. CASE SeesEnd(k)
    <3>1. \A c \in Conns : c[1] = k => ~Open(c)
      BY <2>5, Pairs DEF SeesEnd, Conn, Inv, StreamInv
    <3>2. CASE client' = [client EXCEPT ![k] = "confirm"]
      BY <2>1, <2>5, <3>2 DEF SeesEnd, work
    <3>3. CASE client' = [client EXCEPT ![k] = "failed"]
      <4>1. B!Tell(k, "failed")
        BY <2>5, <3>1, <3>3, TellsTruth DEF SeesEnd, work
      <4> QED BY <4>1 DEF B!Next
    <3>4. CASE client[k] = "apply" /\ outcome[<<k, "apply">>] = "ok"
               /\ client' = [client EXCEPT ![k] = "ok"]
      <4>1. child[<<k, "apply">>] = "exited"
        BY <3>4 DEF Inv, LockInv, Conns
      <4>2. B!Tell(k, "ok")
        BY <2>5, <3>1, <3>4, <4>1, TellsTruth DEF SeesEnd, work
      <4> QED BY <4>2 DEF B!Next
    <3> QED BY <2>5, <3>2, <3>3, <3>4 DEF SeesEnd, Conn
  <2>6. CASE Dies(k)
    BY <2>1, <2>6 DEF Dies, work
  <2> QED BY <1>1, <2>3, <2>4, <2>5, <2>6 DEF ClientStep
<1>2. ASSUME NEW c \in Conns, ThreadStep(c) PROVE B!Next \/ UNCHANGED B!bvars
  <2>1. client' = client
    BY <1>2, OneThread
  <2>2. CASE Spawn(c)
    <3>1. child[c] = "none" /\ client[c[1]] \notin {"ok", "failed"}
      BY <2>2, Pairs DEF Spawn, Inv, LockInv, Before, StreamInv, Open
    <3>2. (MaxRestarts = 0 /\ Direct = {}) => \A d \in Conns : child[d] \notin Working
      BY <2>2 DEF Spawn, Inv, LockInv, ChildInv
    <3>3. B!Begin(c)
      BY <2>1, <2>2, <3>1, <3>2, BeginsAlone DEF Spawn, Told
    <3> QED BY <3>3, Vocabulary DEF B!Next
  <2>3. CASE Service(c)
    <3>1. child[c] = "none"
      BY <2>3 DEF Service, Inv, LockInv, Before
    <3> QED BY <2>1, <2>3, <3>1, Stutters DEF Service
  <2>4. CASE ~Spawn(c) /\ ~Service(c)
    <3>1. child' = child
      BY <1>2, <2>4 DEF ThreadStep, Serve, Read, Decide, Granted, TimesOut, NotGranted, Audit,
         Lock, Busy, CannotSpawn, Reap, Release, Close
    <3> QED BY <2>1, <3>1, Stutters
  <2> QED BY <2>2, <2>3, <2>4
<1>3. ASSUME NEW c \in Conns, ChildStep(c) PROVE B!Next \/ UNCHANGED B!bvars
  <2>1. Told' = Told
    BY <1>3, OneChild DEF Told
  <2>2. CASE child[c] = "running" /\ child'[c] = "aborted"
    BY <1>3, <2>2, OneChild, Stutters
  <2>3. CASE child[c] = "running" /\ child'[c] = "committed"
    <3>1. c \in Active \ Committed /\ Committed' = Committed \cup {c} /\ Active' = Active
      BY <1>3, <2>3, OneChild DEF Active, Committed, Working
    <3>2. B!Commit(c)
      BY <2>1, <3>1 DEF B!Commit, Active, Committed, Told
    <3> QED BY <3>2, Vocabulary DEF B!Next
  <2>4. CASE child'[c] \in {"exited", "died", "cut"}
    <3>1. c \in Active /\ Active' = Active \ {c} /\ Committed' = Committed
      BY <1>3, <2>4, OneChild DEF Active, Committed, Working
    <3>2. B!End(c)
      BY <2>1, <3>1 DEF B!End, Active, Committed, Told
    <3> QED BY <3>2, Vocabulary DEF B!Next
  <2>5. child[c] \in {"committed", "aborted"} => child'[c] \in {"exited", "died", "cut"}
    BY <1>3 DEF ChildStep, Works, Reports, Killed
  <2> QED BY <1>3, <2>2, <2>3, <2>4, <2>5, OneChild DEF Working
<1>4. CASE DaemonStep \/ UNCHANGED vars
  <2>1. client' = client /\ child' = child
    BY <1>4 DEF DaemonStep, Tick, Crash, Restart, work, vars
  <2> QED BY <2>1, Stutters
<1> QED BY <1>1, <1>2, <1>3, <1>4, Steps

\* rvnd and its clients keep the broker's promise, for any clients and policy,
\* whoever dies or restarts.
THEOREM KeepsPromise == Spec => Promise
  BY InvAlways, BrokerStart, BrokerStep, PTL DEF Spec, Promise, B!Spec
=============================================================================

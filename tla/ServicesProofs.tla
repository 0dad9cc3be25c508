---- MODULE ServicesProofs ----
(***************************************************************************)
(* Proofs about the drop-in directory that rvnd's threads and an install   *)
(* write at once, for any services, clients, requests, kills and silences. *)
(***************************************************************************)
EXTENDS Services, TLAPS

\* What the files and the threads are made of.
Definition(f) == DOMAIN f = {"text", "enabled"}
Suits(pc, verb) == (pc = "stop" => verb = "disable") /\ (pc = "enable" => verb = "enable")
ClientOK(r) ==
  r.pc # "idle" =>
    /\ r.pc \in {"reach", "look", "create", "write", "status", "reload", "enable", "stop", "act"}
    /\ r.verb \in Verbs /\ Head(r.todo) \in Services /\ Suits(r.pc, r.verb)
InstallerOK(r) ==
  /\ r.pc \in {"idle", "consider", "create", "write", "load", "serve"}
  /\ r.todo \in Seq(Services) /\ r.promoted \in Seq(Services)
  /\ r.pc \in {"create", "write"} => r.todo # <<>>
ShapeOK ==
  /\ DOMAIN dropin = Services /\ \A s \in Services : Definition(dropin[s])
  /\ DOMAIN template = Services /\ \A s \in Services : Definition(template[s])
  /\ DOMAIN word = Services /\ \A s \in Services : word[s] \in {"none", "on", "off"}
  /\ DOMAIN thread = Threads /\ \A t \in Threads : DOMAIN thread[t] = DOMAIN NoThread
  /\ \A c \in Clients : ClientOK(thread[c])
  /\ InstallerOK(thread[Installer])
  /\ timeouts \in Nat

\* A thread that counts as alone has nobody beside it.
AloneInv == \A t, o \in Threads : t # o /\ Busy(t) /\ thread[t].alone => ~Busy(o)

\* What a lone verb has done by the time it sends its last request.
HalfDone(c) ==
  /\ thread[c].verb = "enable" => dropin[Service(c)].text = "whole" /\ dropin[Service(c)].enabled
  /\ thread[c].verb = "disable" => Service(c) \notin running \/ timeouts > 0
VerbInv == \A c \in Clients : thread[c].pc = "act" /\ thread[c].alone => HalfDone(c)

\* A service somebody has a word for is one no thread has in hand.
InHand(r, s) ==
  \/ s \in ToSet(r.promoted)
  \/ r.pc \in {"create", "write"} /\ s = Head(r.todo)
  \/ r.pc = "serve" /\ s \in ToSet(r.todo)
LeftAlone(s) ==
  /\ \A c \in Clients : Busy(c) => Service(c) # s
  /\ Busy(Installer) => ~InHand(thread[Installer], s)
WordInv ==
  \A s \in Services : word[s] # "none" => dropin[s].text = "whole" /\ LeftAlone(s)

Inv == ShapeOK /\ AloneInv /\ VerbInv /\ WordInv /\ KeptWord

-----------------------------------------------------------------------------
(* What one step of a client, or of the install, is.                         *)

\* The thread ends, or goes on with the same request.
OnItsWay(c) ==
  /\ DOMAIN thread' = Threads /\ \A u \in Threads \ {c} : thread'[u] = thread[u]
  /\ DOMAIN thread'[c] = DOMAIN NoThread
  /\ \/ thread'[c].pc = "idle"
     \/ /\ ClientOK(thread'[c]) /\ thread'[c].todo = thread[c].todo
        /\ thread'[c].verb = thread[c].verb /\ thread'[c].alone = thread[c].alone

\* It touches the definition of its service and no other, and starts no other.
OnlyIts(c) ==
  /\ DOMAIN dropin' = Services /\ \A s \in Services : Definition(dropin'[s])
  /\ template' = template /\ timeouts' \in Nat /\ timeouts' >= timeouts
  /\ \A s \in Services \ {Service(c)} :
       dropin'[s] = dropin[s] /\ (s \in running' => s \in running)

\* It gives no word, or one that is true, and then it ends.
WordIsTrue(c) ==
  \/ word' = word
  \/ /\ thread[c].alone /\ thread'[c].pc = "idle" /\ DOMAIN word' = Services
     /\ \A s \in Services \ {Service(c)} : word'[s] = word[s]
     /\ dropin'[Service(c)].text = "whole"
     /\ \/ word'[Service(c)] = "on" /\ dropin'[Service(c)].enabled
        \/ /\ word'[Service(c)] = "off" /\ ~dropin'[Service(c)].enabled
           /\ Service(c) \notin running' \/ timeouts' > 0

ClientDid(c) ==
  /\ Busy(c) /\ OnItsWay(c) /\ OnlyIts(c) /\ WordIsTrue(c)
  /\ thread'[c].pc = "act" /\ thread[c].alone => HalfDone(c)'

LEMMA Apart == Installer \notin Clients /\ Clients \subseteq Threads /\ Installer \in Threads
  BY ServicesAssumption DEF Threads

LEMMA Going ==
  ASSUME ShapeOK, NEW c \in Clients, Busy(c),
         NEW pc \in {"look", "create", "write", "status", "reload", "enable", "stop", "act"},
         Suits(pc, thread[c].verb), Goes(c, pc)
  PROVE  OnItsWay(c) /\ thread'[c].pc = pc
<1>1. thread' = [thread EXCEPT ![c] = [thread[c] EXCEPT !.pc = pc]]
  BY DEF Goes, Becomes
<1>2. c \in DOMAIN thread /\ DOMAIN thread = Threads /\ DOMAIN thread[c] = DOMAIN NoThread
      /\ ClientOK(thread[c])
  BY Apart DEF ShapeOK
<1>3. DOMAIN thread' = Threads /\ (\A u \in Threads \ {c} : thread'[u] = thread[u])
      /\ thread'[c] = [thread[c] EXCEPT !.pc = pc]
  BY <1>1, <1>2
<1> QED BY <1>2, <1>3 DEF OnItsWay, ClientOK, Busy, NoThread

LEMMA Replying ==
  ASSUME ShapeOK, NEW c \in Clients, NEW told, Reply(c, told)
  PROVE  /\ OnItsWay(c) /\ thread'[c].pc = "idle"
         /\ word' = IF thread[c].alone /\ Promises(c, told)
                    THEN [word EXCEPT ![Service(c)] = IF thread[c].verb = "enable" THEN "on" ELSE "off"]
                    ELSE word
<1>1. thread' = [thread EXCEPT ![c] = [NoThread EXCEPT !.told = told]]
  BY DEF Reply, Becomes
<1>2. c \in DOMAIN thread /\ DOMAIN thread = Threads
  BY Apart DEF ShapeOK
<1>3. DOMAIN thread' = Threads /\ (\A u \in Threads \ {c} : thread'[u] = thread[u])
      /\ thread'[c] = [NoThread EXCEPT !.told = told]
  BY <1>1, <1>2
<1>4. OnItsWay(c) /\ thread'[c].pc = "idle"
  BY <1>3 DEF OnItsWay, NoThread
<1> QED BY <1>4 DEF Reply

\* A reply that is no promise.
LEMMA NoPromise ==
  ASSUME ShapeOK, NEW c \in Clients, NEW told, Reply(c, told), thread[c].pc # "act", told # "ok"
  PROVE  OnItsWay(c) /\ thread'[c].pc = "idle" /\ word' = word
<1>1. ~Promises(c, told)
  BY DEF Promises
<1> QED BY <1>1, Replying

\* The definitions, when nothing but raven-init changes or one of them does.
LEMMA Untouched ==
  ASSUME ShapeOK, NEW c \in Clients, Busy(c), template' = template,
         timeouts' = timeouts \/ timeouts' = timeouts + 1,
         \/ dropin' = dropin
         \/ \E f : Definition(f) /\ dropin' = [dropin EXCEPT ![Service(c)] = f],
         running' \subseteq running \cup {Service(c)}
  PROVE  OnlyIts(c)
<1>1. Service(c) \in Services
  BY DEF ShapeOK, ClientOK, Busy, Service
<1>2. CASE dropin' = dropin
  BY <1>2 DEF OnlyIts, ShapeOK
<1>3. ASSUME NEW f, Definition(f), dropin' = [dropin EXCEPT ![Service(c)] = f]
      PROVE  OnlyIts(c)
  BY <1>1, <1>3 DEF OnlyIts, ShapeOK
<1> QED BY <1>2, <1>3

\* What raven-init does when asked, seen from the two callers.
LEMMA InitMoves ==
  ASSUME ShapeOK, NEW c \in Clients, Busy(c)
  PROVE  /\ InitReload \/ InitStop(Service(c)) \/ UNCHANGED <<known, running>> =>
              running' \subseteq running
         /\ InitStart(Service(c)) => running' \subseteq running \cup {Service(c)}
         /\ \A on \in BOOLEAN : InitSet(Service(c), on) =>
              /\ running' = running
              /\ \/ dropin' = dropin
                 \/ \E f : Definition(f) /\ dropin' = [dropin EXCEPT ![Service(c)] = f]
              /\ CanSet(Service(c)) =>
                   dropin'[Service(c)].text = "whole" /\ dropin'[Service(c)].enabled = on
<1>1. Service(c) \in Services
  BY DEF ShapeOK, ClientOK, Busy, Service
<1>2. InitReload \/ InitStop(Service(c)) \/ UNCHANGED <<known, running>> => running' \subseteq running
  BY DEF InitReload, InitStop
<1>3. InitStart(Service(c)) => running' \subseteq running \cup {Service(c)}
  BY DEF InitStart
<1>4. ASSUME NEW on \in BOOLEAN, InitSet(Service(c), on)
      PROVE  /\ running' = running
             /\ \/ dropin' = dropin
                \/ \E f : Definition(f) /\ dropin' = [dropin EXCEPT ![Service(c)] = f]
             /\ CanSet(Service(c)) =>
                  dropin'[Service(c)].text = "whole" /\ dropin'[Service(c)].enabled = on
  <2> DEFINE f == [dropin[Service(c)] EXCEPT !.enabled = on]
  <2>1. CASE CanSet(Service(c))
    <3>1. dropin' = [dropin EXCEPT ![Service(c)].enabled = on]
      BY <1>4, <2>1 DEF InitSet
    <3>2. dropin' = [dropin EXCEPT ![Service(c)] = f]
      BY <3>1
    <3>3. Definition(dropin[Service(c)]) /\ dropin[Service(c)].text = "whole"
      BY <1>1, <2>1 DEF ShapeOK, CanSet, Readable
    <3>4. Definition(f) /\ f.text = "whole"
      BY <3>3 DEF Definition
    <3>5. f.enabled = on
      BY <3>3 DEF Definition
    <3>6. dropin'[Service(c)] = f
      BY <1>1, <3>2 DEF ShapeOK
    <3> QED BY <1>4, <3>2, <3>4, <3>5, <3>6 DEF InitSet
  <2>2. CASE ~CanSet(Service(c))
    BY <1>4, <2>2 DEF InitSet
  <2> QED BY <2>1, <2>2
<1> QED BY <1>2, <1>3, <1>4

LEMMA ReachDid ==
  ASSUME ShapeOK, NEW c \in Clients, Reachable(c) \/ EnsureDefined(c) \/ CopyCreate(c) \/ Status(c)
  PROVE  ClientDid(c)
<1>1. Busy(c) /\ thread[c].pc # "act"
  BY DEF Reachable, EnsureDefined, CopyCreate, Status, Busy
<1>2. thread[c].verb \in Verbs
  BY <1>1 DEF ShapeOK, ClientOK, Busy
<1>3. OnlyIts(c)
  <2>1. CASE CopyCreate(c)
    <3>1. dropin' = [dropin EXCEPT ![Service(c)] = Half] /\ Definition(Half)
          /\ UNCHANGED <<template, running, timeouts>>
      BY <2>1 DEF CopyCreate, Half, Definition, init, counts
    <3> QED BY <1>1, <3>1, Untouched
  <2>2. CASE Reachable(c) \/ EnsureDefined(c) \/ Status(c)
    <3>1. UNCHANGED <<template, dropin, running>> /\ (timeouts' = timeouts \/ timeouts' = timeouts + 1)
      BY <2>2 DEF Reachable, EnsureDefined, Status, Answered, Silent, disk, init, counts
    <3> QED BY <1>1, <3>1, Untouched
  <2> QED BY <2>1, <2>2
<1>4. OnItsWay(c) /\ word' = word
      /\ (thread'[c].pc = "act" => thread[c].verb \in {"start", "restart", "stop"})
  <2>1. CASE Reachable(c) /\ ~up
    BY <1>1, <2>1, NoPromise DEF Reachable
  <2>2. CASE Reachable(c) /\ up
    <3> DEFINE pc == IF thread[c].verb \in Turning THEN "look" ELSE Action(thread[c].verb)
    <3>1. Goes(c, pc) /\ word' = word
      BY <2>2 DEF Reachable
    <3>2. pc \in {"look", "enable", "stop", "act"} /\ (pc = "act" => thread[c].verb = "stop")
          /\ Suits(pc, thread[c].verb)
      BY <1>2 DEF Action, Verbs, Turning, Suits
    <3> HIDE DEF pc
    <3> QED BY <1>1, <3>1, <3>2, Going
  <2>3. CASE EnsureDefined(c)
    BY <1>1, <2>3, Going DEF EnsureDefined, Suits
  <2>4. CASE CopyCreate(c)
    BY <1>1, <2>4, Going DEF CopyCreate, Suits
  <2>5. CASE Status(c)
    <3>1. PICK pc \in {"reload", Action(thread[c].verb)} : Goes(c, pc) /\ word' = word
      BY <2>5 DEF Status
    <3>2. pc \in {"reload", "enable", "stop", "act"}
          /\ (pc = "act" => thread[c].verb \in {"start", "restart", "stop"})
          /\ Suits(pc, thread[c].verb)
      BY <1>2, <3>1 DEF Action, Verbs, Turning, Suits
    <3> QED BY <1>1, <3>1, <3>2, Going
  <2> QED BY <2>1, <2>2, <2>3, <2>4, <2>5
<1>5. thread'[c].pc = "act" /\ thread[c].alone => HalfDone(c)'
  <2> SUFFICES ASSUME thread'[c].pc = "act" PROVE HalfDone(c)'
    OBVIOUS
  <2>1. thread'[c].verb = thread[c].verb
    BY <1>4 DEF OnItsWay
  <2> QED BY <1>4, <2>1 DEF HalfDone
<1> QED BY <1>1, <1>3, <1>4, <1>5 DEF ClientDid, WordIsTrue

LEMMA CopyDid ==
  ASSUME ShapeOK, NEW c \in Clients, VerbCopy(c) \/ VerbReload(c) \/ VerbStop(c)
  PROVE  ClientDid(c)
<1>1. Busy(c) /\ thread[c].pc # "act" /\ Service(c) \in Services
  BY DEF VerbCopy, VerbReload, VerbStop, Busy, ShapeOK, ClientOK, Service
<1>2. thread[c].verb \in Verbs
  BY <1>1 DEF ShapeOK, ClientOK, Busy
<1>3. CASE VerbCopy(c)
  <2>1. /\ dropin' = [dropin EXCEPT ![Service(c)] = template[Service(c)]] \/ dropin' = dropin
        /\ UNCHANGED <<template, running, timeouts>> /\ Definition(template[Service(c)])
    BY <1>1, <1>3 DEF VerbCopy, CopyWrite, init, ShapeOK
  <2>2. OnlyIts(c)
    BY <1>1, <2>1, Untouched
  <2>3. OnItsWay(c) /\ word' = word /\ thread'[c].pc # "act"
    <3>1. CASE Goes(c, "status") /\ word' = word
      BY <1>1, <3>1, Going DEF Suits
    <3>2. CASE Reply(c, "failed")
      BY <1>1, <3>2, NoPromise
    <3> QED BY <1>3, <3>1, <3>2 DEF VerbCopy
  <2> QED BY <1>1, <2>2, <2>3 DEF ClientDid, WordIsTrue
<1>4. CASE VerbReload(c)
  <2>1. /\ UNCHANGED <<template, dropin>> /\ (timeouts' = timeouts \/ timeouts' = timeouts + 1)
        /\ running' = running
    BY <1>4 DEF VerbReload, disk, Answered, Silent, InitReload
  <2>2. OnlyIts(c)
    BY <1>1, <2>1, Untouched
  <2>3. OnItsWay(c) /\ word' = word
        /\ (thread'[c].pc = "act" => thread[c].verb \notin {"enable", "disable"})
    <3> DEFINE pc == Action(thread[c].verb)
    <3>1. CASE Goes(c, pc) /\ word' = word
      <4>1. /\ pc \in {"enable", "stop", "act"}
            /\ pc = "act" => thread[c].verb \notin {"enable", "disable"}
            /\ Suits(pc, thread[c].verb)
        BY <1>2 DEF Action, Verbs, Turning, Suits
      <4> HIDE DEF pc
      <4> QED BY <1>1, <3>1, <4>1, Going
    <3>2. CASE Reply(c, "failed")
      BY <1>1, <3>2, NoPromise
    <3> QED BY <1>4, <3>1, <3>2 DEF VerbReload
  <2>4. thread'[c].pc = "act" /\ thread[c].alone => HalfDone(c)'
    BY <2>3 DEF HalfDone, OnItsWay
  <2> QED BY <1>1, <2>2, <2>3, <2>4 DEF ClientDid, WordIsTrue
<1>5. CASE VerbStop(c)
  <2>1. Goes(c, "act") /\ UNCHANGED <<template, dropin, word>>
        /\ \/ timeouts' = timeouts /\ InitStop(Service(c))
           \/ timeouts' = timeouts + 1 /\ running' \subseteq running
    BY <1>1, <1>5, InitMoves DEF VerbStop, disk, Answered, Silent
  <2>2. OnlyIts(c)
    <3>1. running' \subseteq running /\ (timeouts' = timeouts \/ timeouts' = timeouts + 1)
      BY <2>1 DEF InitStop
    <3> QED BY <1>1, <2>1, <3>1, Untouched
  <2>3. OnItsWay(c) /\ thread'[c].pc = "act"
    BY <1>1, <2>1, Going DEF Suits
  <2>4. thread[c].verb = "disable"
    BY <1>1, <1>5 DEF VerbStop, ShapeOK, ClientOK, Busy, Suits
  <2>5. thread[c].verb # "enable" /\ thread'[c].verb = thread[c].verb /\ thread'[c].todo = thread[c].todo
    BY <2>3, <2>4 DEF OnItsWay
  <2>6. Service(c)' \notin running' \/ timeouts' > 0
    BY <2>1, <2>5 DEF Service, InitStop, ShapeOK
  <2>7. HalfDone(c)'
    BY <2>5, <2>6 DEF HalfDone
  <2> QED BY <1>1, <2>1, <2>2, <2>3, <2>7 DEF ClientDid, WordIsTrue
<1> QED BY <1>3, <1>4, <1>5

LEMMA EnableDid ==
  ASSUME ShapeOK, NEW c \in Clients, VerbEnable(c)
  PROVE  ClientDid(c)
<1>1. Busy(c) /\ thread[c].pc = "enable" /\ thread[c].verb = "enable"
  BY DEF VerbEnable, Busy, ShapeOK, ClientOK, Suits
<1>2. /\ \/ Answered /\ InitSet(Service(c), TRUE)
         \/ Silent /\ (InitSet(Service(c), TRUE) \/ UNCHANGED <<dropin, known, running>>)
      /\ \/ Goes(c, "act") /\ word' = word /\ CanSet(Service(c)) /\ InitSet(Service(c), TRUE)
         \/ Reply(c, "failed")
      /\ template' = template
  BY DEF VerbEnable
<1>3. OnlyIts(c)
  <2>1. running' = running /\ (timeouts' = timeouts \/ timeouts' = timeouts + 1)
        /\ (\/ dropin' = dropin
            \/ \E f : Definition(f) /\ dropin' = [dropin EXCEPT ![Service(c)] = f])
    BY <1>1, <1>2, InitMoves DEF Answered, Silent
  <2> QED BY <1>1, <1>2, <2>1, Untouched
<1>4. CASE Goes(c, "act") /\ word' = word /\ CanSet(Service(c)) /\ InitSet(Service(c), TRUE)
  <2>1. OnItsWay(c) /\ thread'[c].pc = "act"
    BY <1>1, <1>4, Going DEF Suits
  <2>2. dropin'[Service(c)].text = "whole" /\ dropin'[Service(c)].enabled = TRUE
    BY <1>1, <1>4, InitMoves
  <2>3. thread'[c].todo = thread[c].todo /\ thread'[c].verb = "enable"
    BY <1>1, <2>1 DEF OnItsWay
  <2>4. HalfDone(c)'
    BY <2>2, <2>3 DEF HalfDone, Service
  <2> QED BY <1>1, <1>3, <1>4, <2>1, <2>4 DEF ClientDid, WordIsTrue
<1>5. CASE Reply(c, "failed")
  <2>1. OnItsWay(c) /\ thread'[c].pc = "idle" /\ word' = word
    BY <1>1, <1>5, NoPromise
  <2> QED BY <1>1, <1>3, <2>1 DEF ClientDid, WordIsTrue
<1> QED BY <1>2, <1>4, <1>5

LEMMA ActDid ==
  ASSUME ShapeOK, VerbInv, NEW c \in Clients, VerbAct(c)
  PROVE  ClientDid(c)
<1> DEFINE s == Service(c)
           v == thread[c].verb
<1>1. Busy(c) /\ thread[c].pc = "act" /\ v \in Verbs /\ s \in Services
  BY DEF VerbAct, Busy, ShapeOK, ClientOK, Service
<1>2. PICK told \in {"ok", "failed"} :
        /\ Reply(c, told) /\ template' = template
        /\ \/ Answered /\ LastRequest(c) /\ (told = "ok" => Accepted(c))
           \/ Silent /\ told = "failed" /\ (LastRequest(c) \/ UNCHANGED <<dropin, known, running>>)
  BY DEF VerbAct
<1>3. /\ OnItsWay(c) /\ thread'[c].pc = "idle"
      /\ word' = IF thread[c].alone /\ Promises(c, told)
                 THEN [word EXCEPT ![s] = IF v = "enable" THEN "on" ELSE "off"] ELSE word
  BY <1>2, Replying
<1>4. timeouts' = timeouts \/ timeouts' = timeouts + 1
  BY <1>2 DEF Answered, Silent
<1>5. LastRequest(c) => \/ v = "disable" /\ InitSet(s, FALSE)
                        \/ v # "disable" /\ dropin' = dropin /\ (InitStop(s) \/ InitStart(s))
  BY DEF LastRequest
<1>6. OnlyIts(c)
  <2>1. running' \subseteq running \cup {s}
        /\ (\/ dropin' = dropin
            \/ \E f : Definition(f) /\ dropin' = [dropin EXCEPT ![s] = f])
    <3> HIDE DEF v
    <3>1. CASE v = "disable" /\ InitSet(s, FALSE)
      BY <1>1, <3>1, InitMoves
    <3>2. CASE dropin' = dropin /\ (InitStop(s) \/ InitStart(s))
      BY <1>1, <3>2, InitMoves
    <3>3. CASE UNCHANGED <<dropin, known, running>>
      BY <3>3
    <3> QED BY <1>2, <1>5, <3>1, <3>2, <3>3
  <2> QED BY <1>1, <1>2, <1>4, <2>1, Untouched
<1>7. WordIsTrue(c)
  <2>1. CASE ~(thread[c].alone /\ Promises(c, told))
    BY <1>3, <2>1 DEF WordIsTrue
  <2>2. CASE thread[c].alone /\ Promises(c, told) /\ v = "enable"
    <3>1. word' = [word EXCEPT ![s] = "on"]
      BY <1>3, <2>2
    <3>2. dropin' = dropin
      BY <1>2, <1>5, <2>2
    <3>3. dropin[s].text = "whole" /\ dropin[s].enabled
      BY <1>1, <2>2 DEF VerbInv, HalfDone
    <3> QED BY <1>1, <1>3, <2>2, <3>1, <3>2, <3>3 DEF WordIsTrue, ShapeOK
  <2>3. CASE thread[c].alone /\ Promises(c, told) /\ v # "enable"
    <3>1. word' = [word EXCEPT ![s] = "off"]
      BY <1>3, <2>3
    <3>2. v = "disable" /\ told = "ok"
      BY <2>3 DEF Promises
    <3>3. InitSet(s, FALSE) /\ CanSet(s) /\ timeouts' = timeouts
      BY <1>2, <1>5, <3>2 DEF Accepted, Answered
    <3>4. running' = running /\ dropin'[s].text = "whole" /\ dropin'[s].enabled = FALSE
      BY <1>1, <3>3, InitMoves
    <3>5. s \notin running \/ timeouts > 0
      BY <1>1, <2>3, <3>2 DEF VerbInv, HalfDone
    <3> QED BY <1>1, <1>3, <2>3, <3>1, <3>3, <3>4, <3>5 DEF WordIsTrue, ShapeOK
  <2> QED BY <2>1, <2>2, <2>3
<1> QED BY <1>1, <1>3, <1>6, <1>7 DEF ClientDid

LEMMA ClientStep ==
  ASSUME Inv, NEW c \in Clients, ClientDid(c)
  PROVE  Inv'
<1>1. /\ Busy(c) /\ Service(c) \in Services /\ ShapeOK /\ AloneInv
      /\ \A s \in Services : word[s] # "none" => s # Service(c)
  <2>1. Busy(c) /\ ShapeOK /\ AloneInv
    BY DEF ClientDid, Inv
  <2>2. Service(c) \in Services
    BY <2>1 DEF ShapeOK, ClientOK, Busy, Service
  <2>3. \A s \in Services : word[s] # "none" => s # Service(c)
    BY <2>1 DEF Inv, WordInv, LeftAlone
  <2> QED BY <2>1, <2>2, <2>3
<1>2. OnItsWay(c) /\ OnlyIts(c) /\ WordIsTrue(c)
      /\ (thread'[c].pc = "act" /\ thread[c].alone => HalfDone(c)')
  BY DEF ClientDid
<1>3. /\ \A u \in Threads : Busy(u)' => Busy(u) /\ (thread'[u].alone => thread[u].alone)
      /\ \A u \in Threads : Busy(u)' => thread'[u].todo = thread[u].todo /\ thread'[u].verb = thread[u].verb
      /\ \A u \in Threads \ {c} : thread'[u] = thread[u]
  BY <1>1, <1>2 DEF OnItsWay, Busy
<1>4. ShapeOK'
  <2>1. DOMAIN word' = Services /\ \A s \in Services : word'[s] \in {"none", "on", "off"}
    BY <1>1, <1>2 DEF WordIsTrue, ShapeOK
  <2>2. DOMAIN thread' = Threads /\ \A t \in Threads : DOMAIN thread'[t] = DOMAIN NoThread
    BY <1>1, <1>2 DEF OnItsWay, ShapeOK
  <2>3. \A u \in Clients : ClientOK(thread'[u])
    BY <1>1, <1>2, Apart DEF OnItsWay, ShapeOK, ClientOK
  <2>4. InstallerOK(thread'[Installer])
    BY <1>1, <1>3, Apart DEF ShapeOK
  <2> QED BY <1>1, <1>2, <2>1, <2>2, <2>3, <2>4 DEF OnlyIts, ShapeOK
<1>5. AloneInv'
  BY <1>1, <1>3 DEF AloneInv
<1>6. VerbInv'
  <2> SUFFICES ASSUME NEW u \in Clients, thread'[u].pc = "act", thread'[u].alone
               PROVE  HalfDone(u)'
    BY DEF VerbInv
  <2>1. u \in Threads /\ Busy(u)'
    BY Apart DEF Busy
  <2>2. CASE u = c
    BY <1>2, <1>3, <2>1, <2>2
  <2>3. CASE u # c
    BY <1>1, <1>3, <2>1, <2>3, Apart DEF AloneInv
  <2> QED BY <2>2, <2>3
<1>7. ASSUME NEW s \in Services, word'[s] # "none"
      PROVE  /\ dropin'[s].text = "whole" /\ LeftAlone(s)'
             /\ word'[s] = "on" => dropin'[s].enabled
             /\ word'[s] = "off" => ~dropin'[s].enabled /\ (s \notin running' \/ timeouts' > 0)
  <2>1. CASE s # Service(c)
    <3>1. word'[s] = word[s] /\ dropin'[s] = dropin[s] /\ (s \in running' => s \in running)
          /\ timeouts \in Nat /\ timeouts' \in Nat /\ timeouts' >= timeouts
      BY <1>1, <1>2, <2>1 DEF WordIsTrue, OnlyIts, ShapeOK
    <3>2. LeftAlone(s) /\ dropin[s].text = "whole"
      BY <1>7, <3>1 DEF Inv, WordInv
    <3>3. LeftAlone(s)'
      BY <1>3, <2>1, <3>2, Apart DEF LeftAlone, Service, Busy
    <3>4. /\ word[s] = "on" => dropin[s].enabled
          /\ word[s] = "off" => ~dropin[s].enabled /\ (s \notin running \/ timeouts > 0)
      BY DEF Inv, KeptWord
    <3> QED BY <3>1, <3>2, <3>3, <3>4
  <2>2. CASE s = Service(c)
    <3>1. word' # word
      BY <1>1, <1>7, <2>2
    <3>2. /\ thread[c].alone /\ thread'[c].pc = "idle" /\ dropin'[s].text = "whole"
          /\ \/ word'[s] = "on" /\ dropin'[s].enabled
             \/ /\ word'[s] = "off" /\ ~dropin'[s].enabled
                /\ s \notin running' \/ timeouts' > 0
      BY <1>2, <2>2, <3>1 DEF WordIsTrue
    <3>3. \A u \in Threads : ~Busy(u)'
      BY <1>1, <1>3, <3>2, Apart DEF AloneInv, Busy
    <3>4. LeftAlone(s)'
      BY <3>3, Apart DEF LeftAlone, Busy
    <3> QED BY <3>2, <3>4
  <2> QED BY <2>1, <2>2
<1>8. WordInv'
  BY <1>7 DEF WordInv
<1>9. KeptWord'
  BY <1>7 DEF KeptWord
<1> QED BY <1>4, <1>5, <1>6, <1>8, <1>9 DEF Inv

LEMMA VerbDid ==
  ASSUME Inv, NEW c \in Clients, VerbStep(c)
  PROVE  Inv'
<1>1. ShapeOK /\ VerbInv
  BY DEF Inv
<1> QED BY <1>1, ReachDid, CopyDid, EnableDid, ActDid, ClientStep DEF VerbStep

-----------------------------------------------------------------------------
(* The install.                                                              *)

LEMMA Lists ==
  /\ \A l \in Seq(Services) : l # <<>> =>
       /\ Head(l) \in Services /\ Head(l) \in ToSet(l)
       /\ Tail(l) \in Seq(Services) /\ ToSet(Tail(l)) \subseteq ToSet(l)
  /\ \A l, m \in Seq(Services) : l \o m \in Seq(Services) /\ ToSet(l \o m) = ToSet(l) \cup ToSet(m)
  /\ ToSet(<<>>) = {} /\ \A s : ToSet(<<s>>) = {s}
<1>1. ASSUME NEW l \in Seq(Services), l # <<>>
      PROVE  /\ Head(l) \in Services /\ Head(l) \in ToSet(l)
             /\ Tail(l) \in Seq(Services) /\ ToSet(Tail(l)) \subseteq ToSet(l)
  BY <1>1 DEF ToSet
<1>2. ASSUME NEW l \in Seq(Services), NEW m \in Seq(Services)
      PROVE  l \o m \in Seq(Services) /\ ToSet(l \o m) = ToSet(l) \cup ToSet(m)
  <2>1. ToSet(l \o m) \subseteq ToSet(l) \cup ToSet(m)
    BY DEF ToSet
  <2>2. ASSUME NEW i \in DOMAIN l PROVE l[i] \in ToSet(l \o m)
    BY DEF ToSet
  <2>3. ASSUME NEW i \in DOMAIN m PROVE m[i] \in ToSet(l \o m)
    <3>1. (l \o m)[Len(l) + i] = m[i] /\ Len(l) + i \in DOMAIN (l \o m)
      OBVIOUS
    <3> QED BY <3>1 DEF ToSet
  <2>4. ToSet(l) \subseteq ToSet(l \o m)
    BY <2>2 DEF ToSet
  <2>5. ToSet(m) \subseteq ToSet(l \o m)
    BY <2>3 DEF ToSet
  <2> QED BY <2>1, <2>4, <2>5
<1>3. ToSet(<<>>) = {} /\ \A s : ToSet(<<s>>) = {s}
  BY DEF ToSet
<1> QED BY <1>1, <1>2, <1>3

InstallDid ==
  LET r == thread[Installer] IN
  /\ Busy(Installer) /\ DOMAIN thread' = Threads
  /\ \A u \in Threads \ {Installer} : thread'[u] = thread[u]
  /\ DOMAIN thread'[Installer] = DOMAIN NoThread /\ InstallerOK(thread'[Installer])
  /\ Busy(Installer)' => thread'[Installer].alone = r.alone
  /\ UNCHANGED <<word, template>> /\ timeouts' \in Nat /\ timeouts' >= timeouts
  /\ DOMAIN dropin' = Services /\ \A s \in Services : Definition(dropin'[s])
  /\ \A s \in Services :
       dropin[s].text = "whole" /\ ~InHand(r, s) =>
         /\ dropin'[s] = dropin[s] /\ (s \in running' => s \in running)
         /\ Busy(Installer)' => ~InHand(thread'[Installer], s)

LEMMA Becoming ==
  ASSUME ShapeOK, NEW r, Becomes(Installer, r)
  PROVE  /\ DOMAIN thread' = Threads /\ thread'[Installer] = r
         /\ \A u \in Threads \ {Installer} : thread'[u] = thread[u]
  BY Apart DEF ShapeOK, Becomes

\* The install's own thread after a step, by what it becomes.
LEMMA Onwards ==
  ASSUME NEW r, DOMAIN r = DOMAIN NoThread, InstallerOK(r)
  PROVE  /\ InstallerOK(NoThread)
         /\ r.todo # <<>> =>
              LET q == NextTemplate(r, <<>>)
                  p == NextTemplate(r, <<Head(r.todo)>>) IN
              /\ InstallerOK(q) /\ DOMAIN q = DOMAIN NoThread /\ q.alone = r.alone
              /\ \A s : ~InHand(r, s) => ~InHand(q, s)
              /\ InstallerOK(p) /\ DOMAIN p = DOMAIN NoThread /\ p.alone = r.alone
              /\ \A s : ~InHand(r, s) /\ s # Head(r.todo) => ~InHand(p, s)
<1>1. InstallerOK(NoThread)
  BY DEF InstallerOK, NoThread
<1>2. ASSUME r.todo # <<>>, NEW m \in Seq(Services), NEW q, q = NextTemplate(r, m)
      PROVE  /\ InstallerOK(q) /\ DOMAIN q = DOMAIN NoThread /\ q.alone = r.alone
             /\ \A s : ~InHand(r, s) /\ s \notin ToSet(m) => ~InHand(q, s)
  <2>1. /\ q.pc = "consider" /\ q.todo = Tail(r.todo) /\ q.promoted = r.promoted \o m
        /\ q.alone = r.alone /\ DOMAIN q = DOMAIN NoThread
    BY <1>2 DEF NextTemplate, NoThread
  <2>2. /\ q.todo \in Seq(Services) /\ q.promoted \in Seq(Services)
        /\ ToSet(q.promoted) = ToSet(r.promoted) \cup ToSet(m)
    BY <1>2, <2>1, Lists DEF InstallerOK
  <2> QED BY <2>1, <2>2 DEF InstallerOK, InHand
<1>3. r.todo # <<>> => Head(r.todo) \in Services
  BY DEF InstallerOK
<1>4. ASSUME r.todo # <<>> PROVE <<>> \in Seq(Services) /\ <<Head(r.todo)>> \in Seq(Services)
  BY <1>3, <1>4
<1> QED BY <1>1, <1>2, <1>4, Lists

LEMMA InstallDoes ==
  ASSUME ShapeOK, InstallStep
  PROVE  InstallDid
<1> DEFINE r == thread[Installer]
<1>1. Busy(Installer) /\ DOMAIN r = DOMAIN NoThread /\ InstallerOK(r)
  BY Apart DEF InstallStep, Consider, CopyCreate, InstallCopy, Load, Serve, Busy, ShapeOK
<1>2. /\ InstallerOK(NoThread) /\ NoThread.pc = "idle"
      /\ DOMAIN dropin = Services /\ \A s \in Services : Definition(dropin[s])
      /\ timeouts \in Nat
  BY Onwards, <1>1 DEF NoThread, ShapeOK
<1>3. CASE Consider
  <2>1. UNCHANGED <<word, template, dropin, running, timeouts>> /\ r.pc = "consider"
    BY <1>3 DEF Consider, disk, init, counts
  <2>2. CASE Becomes(Installer, NoThread)
    BY <1>1, <1>2, <2>1, <2>2, Becoming DEF InstallDid, Busy
  <2>3. CASE Becomes(Installer, [r EXCEPT !.pc = "load"])
    <3>1. thread'[Installer] = [r EXCEPT !.pc = "load"]
      BY <2>3, Becoming
    <3>2. /\ InstallerOK(thread'[Installer]) /\ DOMAIN thread'[Installer] = DOMAIN NoThread
          /\ thread'[Installer].alone = r.alone
          /\ \A s : ~InHand(r, s) => ~InHand(thread'[Installer], s)
      BY <1>1, <3>1 DEF InstallerOK, NoThread, InHand
    <3> QED BY <1>1, <1>2, <2>1, <2>3, <3>2, Becoming DEF InstallDid
  <2>4. CASE /\ r.todo # <<>> /\ Promotable(Head(r.todo))
             /\ Becomes(Installer, [r EXCEPT !.pc = "create"])
    <3>1. thread'[Installer] = [r EXCEPT !.pc = "create"]
      BY <2>4, Becoming
    <3>2. dropin[Head(r.todo)].text # "whole"
      BY <2>4 DEF Promotable, IsFile, NoFile
    <3>3. /\ InstallerOK(thread'[Installer]) /\ DOMAIN thread'[Installer] = DOMAIN NoThread
          /\ thread'[Installer].alone = r.alone
          /\ \A s : ~InHand(r, s) /\ s # Head(r.todo) => ~InHand(thread'[Installer], s)
      BY <1>1, <2>4, <3>1 DEF InstallerOK, NoThread, InHand
    <3> QED BY <1>1, <1>2, <2>1, <2>4, <3>2, <3>3, Becoming DEF InstallDid
  <2>5. CASE r.todo # <<>> /\ Becomes(Installer, NextTemplate(r, <<>>))
    <3>1. thread'[Installer] = NextTemplate(r, <<>>)
      BY <2>5, Becoming
    <3>2. /\ InstallerOK(thread'[Installer]) /\ DOMAIN thread'[Installer] = DOMAIN NoThread
          /\ thread'[Installer].alone = r.alone
          /\ \A s : ~InHand(r, s) => ~InHand(thread'[Installer], s)
      BY <1>1, <2>5, <3>1, Onwards
    <3> QED BY <1>1, <1>2, <2>1, <2>5, <3>2, Becoming DEF InstallDid
  <2> QED BY <1>3, <2>2, <2>3, <2>4, <2>5 DEF Consider
<1>4. CASE CopyCreate(Installer)
  <2>1. /\ UNCHANGED <<word, template, running, timeouts>> /\ r.pc = "create"
        /\ Becomes(Installer, [r EXCEPT !.pc = "write"])
        /\ dropin' = [dropin EXCEPT ![Head(r.todo)] = Half]
    BY <1>4 DEF CopyCreate, init, counts, Goes, Service
  <2>2. thread'[Installer] = [r EXCEPT !.pc = "write"]
    BY <2>1, Becoming
  <2>3. /\ InstallerOK(thread'[Installer]) /\ DOMAIN thread'[Installer] = DOMAIN NoThread
        /\ thread'[Installer].alone = r.alone
        /\ \A s : ~InHand(r, s) => ~InHand(thread'[Installer], s) /\ s # Head(r.todo)
    BY <1>1, <2>1, <2>2 DEF InstallerOK, NoThread, InHand
  <2>4. Head(r.todo) \in Services
    BY <1>1, <2>1 DEF InstallerOK
  <2>5. /\ DOMAIN dropin' = Services /\ \A s \in Services : Definition(dropin'[s])
        /\ \A s \in Services : s # Head(r.todo) => dropin'[s] = dropin[s]
    BY <1>2, <2>1, <2>4 DEF Half, Definition
  <2> QED BY <1>1, <1>2, <2>1, <2>3, <2>5, Becoming DEF InstallDid
<1>5. CASE InstallCopy
  <2>1. /\ UNCHANGED <<word, template, running, timeouts>> /\ r.pc = "write" /\ r.todo # <<>>
        /\ \/ dropin' = [dropin EXCEPT ![Head(r.todo)] = template[Head(r.todo)]]
           \/ dropin' = dropin
        /\ Becomes(Installer, NextTemplate(r, <<Head(r.todo)>>))
           \/ Becomes(Installer, NextTemplate(r, <<>>))
    BY <1>1, <1>5 DEF InstallCopy, init, CopyWrite, Service, InstallerOK
  <2>2. thread'[Installer] \in {NextTemplate(r, <<Head(r.todo)>>), NextTemplate(r, <<>>)}
    BY <2>1, Becoming
  <2>3. \A s : ~InHand(r, s) => s # Head(r.todo)
    BY <2>1 DEF InHand
  <2>4. /\ InstallerOK(thread'[Installer]) /\ DOMAIN thread'[Installer] = DOMAIN NoThread
        /\ thread'[Installer].alone = r.alone
        /\ \A s : ~InHand(r, s) => ~InHand(thread'[Installer], s)
    BY <1>1, <2>1, <2>2, <2>3, Onwards
  <2>5. /\ Head(r.todo) \in Services /\ Definition(template[Head(r.todo)])
    BY <1>1, <2>1 DEF InstallerOK, ShapeOK
  <2>6. /\ DOMAIN dropin' = Services /\ \A s \in Services : Definition(dropin'[s])
        /\ \A s \in Services : s # Head(r.todo) => dropin'[s] = dropin[s]
    BY <1>2, <2>1, <2>5
  <2> QED BY <1>1, <1>2, <2>1, <2>3, <2>4, <2>6, Becoming DEF InstallDid
<1>6. CASE Load
  <2>1. /\ UNCHANGED <<word, template, dropin, running>> /\ r.pc = "load"
        /\ timeouts' \in Nat /\ timeouts' >= timeouts
        /\ \/ Becomes(Installer, [r EXCEPT !.pc = "serve", !.todo = r.promoted])
           \/ Becomes(Installer, NoThread)
    BY <1>2, <1>6 DEF Load, disk, Answered, Silent, InitReload
  <2>2. CASE Becomes(Installer, NoThread)
    BY <1>1, <1>2, <2>1, <2>2, Becoming DEF InstallDid, Busy
  <2>3. CASE Becomes(Installer, [r EXCEPT !.pc = "serve", !.todo = r.promoted])
    <3>1. thread'[Installer] = [r EXCEPT !.pc = "serve", !.todo = r.promoted]
      BY <2>3, Becoming
    <3>2. /\ InstallerOK(thread'[Installer]) /\ DOMAIN thread'[Installer] = DOMAIN NoThread
          /\ thread'[Installer].alone = r.alone
          /\ \A s : ~InHand(r, s) => ~InHand(thread'[Installer], s)
      BY <1>1, <3>1 DEF InstallerOK, NoThread, InHand
    <3> QED BY <1>1, <1>2, <2>1, <2>3, <3>2, Becoming DEF InstallDid
  <2> QED BY <2>1, <2>2, <2>3
<1>7. CASE Serve
  <2>1. UNCHANGED <<word, template, dropin>> /\ r.pc = "serve"
    BY <1>7 DEF Serve, disk
  <2>2. CASE r.todo = <<>>
    BY <1>1, <1>2, <1>7, <2>1, <2>2, Becoming DEF InstallDid, Busy, Serve
  <2>3. CASE r.todo # <<>>
    <3>1. /\ Becomes(Installer, [r EXCEPT !.todo = Tail(@)])
          /\ timeouts' \in Nat /\ timeouts' >= timeouts
          /\ running' \subseteq running \cup {Head(r.todo)}
      BY <1>2, <1>7, <2>3 DEF Serve, Answered, Silent, InitStart
    <3>2. thread'[Installer] = [r EXCEPT !.todo = Tail(@)]
      BY <3>1, Becoming
    <3>3. /\ Head(r.todo) \in ToSet(r.todo) /\ Tail(r.todo) \in Seq(Services)
          /\ ToSet(Tail(r.todo)) \subseteq ToSet(r.todo)
      BY <1>1, <2>3, Lists DEF InstallerOK
    <3>4. /\ InstallerOK(thread'[Installer]) /\ DOMAIN thread'[Installer] = DOMAIN NoThread
          /\ thread'[Installer].alone = r.alone
          /\ \A s : ~InHand(r, s) => ~InHand(thread'[Installer], s) /\ s # Head(r.todo)
      BY <1>1, <2>1, <3>2, <3>3 DEF InstallerOK, NoThread, InHand
    <3> QED BY <1>1, <1>2, <2>1, <3>1, <3>4, Becoming DEF InstallDid
  <2> QED BY <2>2, <2>3
<1> QED BY <1>3, <1>4, <1>5, <1>6, <1>7 DEF InstallStep

LEMMA InstallKeeps ==
  ASSUME Inv, InstallDid
  PROVE  Inv'
<1>1. ShapeOK /\ AloneInv
  BY DEF Inv
<1>2. /\ Busy(Installer) /\ DOMAIN thread' = Threads
      /\ \A u \in Threads \ {Installer} : thread'[u] = thread[u]
      /\ DOMAIN thread'[Installer] = DOMAIN NoThread /\ InstallerOK(thread'[Installer])
      /\ Busy(Installer)' => thread'[Installer].alone = thread[Installer].alone
      /\ UNCHANGED <<word, template>> /\ timeouts' \in Nat /\ timeouts' >= timeouts
      /\ DOMAIN dropin' = Services /\ \A s \in Services : Definition(dropin'[s])
      /\ \A s \in Services :
           dropin[s].text = "whole" /\ ~InHand(thread[Installer], s) =>
             /\ dropin'[s] = dropin[s] /\ (s \in running' => s \in running)
             /\ Busy(Installer)' => ~InHand(thread'[Installer], s)
  BY DEF InstallDid
<1>3. \A u \in Threads : Busy(u)' => Busy(u) /\ (thread'[u].alone => thread[u].alone)
  BY <1>2 DEF Busy
<1>4. ShapeOK'
  BY <1>1, <1>2, Apart DEF ShapeOK
<1>5. AloneInv'
  BY <1>1, <1>3 DEF AloneInv
<1>6. VerbInv'
  <2> SUFFICES ASSUME NEW c \in Clients, thread'[c].pc = "act", thread'[c].alone PROVE FALSE
    BY DEF VerbInv
  <2>1. c \in Threads /\ c # Installer /\ Busy(c)'
    BY Apart DEF Busy
  <2> QED BY <1>1, <1>2, <1>3, <2>1, Apart DEF AloneInv
<1>7. ASSUME NEW s \in Services, word'[s] # "none"
      PROVE  /\ dropin'[s] = dropin[s] /\ (s \in running' => s \in running)
             /\ dropin[s].text = "whole" /\ LeftAlone(s)'
  <2>1. LeftAlone(s) /\ dropin[s].text = "whole"
    BY <1>2, <1>7 DEF Inv, WordInv
  <2>2. /\ dropin'[s] = dropin[s] /\ (s \in running' => s \in running)
        /\ Busy(Installer)' => ~InHand(thread'[Installer], s)
    BY <1>2, <2>1 DEF LeftAlone
  <2>3. \A c \in Clients : Busy(c)' => Service(c)' # s
    BY <1>2, <2>1, Apart DEF LeftAlone, Busy, Service
  <2> QED BY <2>1, <2>2, <2>3 DEF LeftAlone
<1>8. WordInv'
  BY <1>7 DEF WordInv
<1>9. KeptWord'
  <2>1. timeouts \in Nat /\ word' = word
    BY <1>1, <1>2 DEF ShapeOK
  <2> QED BY <1>2, <1>7, <2>1 DEF Inv, KeptWord
<1> QED BY <1>4, <1>5, <1>6, <1>8, <1>9 DEF Inv

-----------------------------------------------------------------------------
(* Requests, kills and boots.                                                *)

\* Threads that begin, or end: none is alone beside one that was busy.
LEMMA Beginning ==
  ASSUME ShapeOK, AloneInv, NEW t \in Threads, ~Busy(t), NEW r, DOMAIN r = DOMAIN NoThread, Begins(t, r)
  PROVE  /\ DOMAIN thread' = Threads /\ \A u \in Threads : DOMAIN thread'[u] = DOMAIN NoThread
         /\ \A u \in Threads \ {t} :
              /\ thread'[u].pc = thread[u].pc /\ thread'[u].verb = thread[u].verb
              /\ thread'[u].todo = thread[u].todo /\ thread'[u].promoted = thread[u].promoted
              /\ Busy(u) => ~thread'[u].alone
         /\ thread'[t].pc = r.pc /\ thread'[t].verb = r.verb /\ thread'[t].todo = r.todo
         /\ thread'[t].promoted = r.promoted
         /\ AloneInv'
<1>1. /\ DOMAIN thread' = Threads
      /\ thread'[t] = [r EXCEPT !.alone = \A o \in Threads \ {t} : ~Busy(o)]
      /\ \A u \in Threads \ {t} : thread'[u] = [thread[u] EXCEPT !.alone = @ /\ ~Busy(u)]
  BY DEF Begins
<1>2. /\ DOMAIN thread'[t] = DOMAIN NoThread
      /\ thread'[t].pc = r.pc /\ thread'[t].verb = r.verb /\ thread'[t].todo = r.todo
      /\ thread'[t].promoted = r.promoted
  BY <1>1 DEF NoThread
<1>3. thread'[t].alone => \A o \in Threads \ {t} : ~Busy(o)
  BY <1>1 DEF NoThread
<1>4. ASSUME NEW u \in Threads \ {t}
      PROVE  /\ DOMAIN thread'[u] = DOMAIN NoThread
             /\ thread'[u].pc = thread[u].pc /\ thread'[u].verb = thread[u].verb
             /\ thread'[u].todo = thread[u].todo /\ thread'[u].promoted = thread[u].promoted
  BY <1>1 DEF NoThread, ShapeOK
<1>5. ASSUME NEW u \in Threads \ {t}, Busy(u) PROVE ~thread'[u].alone
  <2>1. thread'[u] = [thread[u] EXCEPT !.alone = @ /\ ~Busy(u)]
    BY <1>1
  <2>2. "alone" \in DOMAIN thread[u]
    BY DEF ShapeOK, NoThread
  <2> DEFINE b == thread[u].alone /\ ~Busy(u)
  <2>3. thread'[u] = [thread[u] EXCEPT !.alone = b]
    BY <2>1
  <2>4. ~b
    BY <1>5
  <2> HIDE DEF b
  <2>5. thread'[u].alone = b
    BY <2>2, <2>3
  <2> QED BY <2>4, <2>5
<1>6. AloneInv'
  <2> SUFFICES ASSUME NEW u \in Threads, NEW o \in Threads, u # o,
                      thread'[u].pc # "idle", thread'[u].alone, thread'[o].pc # "idle"
               PROVE  FALSE
    BY DEF AloneInv, Busy
  <2>1. CASE u = t
    BY <1>3, <1>4, <2>1 DEF Busy
  <2>2. CASE u # t
    BY <1>4, <1>5, <2>2 DEF Busy
  <2> QED BY <2>1, <2>2
<1> QED BY <1>1, <1>2, <1>4, <1>5, <1>6

LEMMA RunKeeps ==
  ASSUME Inv, NEW c \in Clients, NEW v \in Verbs, NEW s \in Services, RunService(c, v, s)
  PROVE  Inv'
<1> DEFINE r == IF DefinitionPath(s)
                THEN [NoThread EXCEPT !.pc = "reach", !.verb = v, !.todo = <<s>>]
                ELSE [NoThread EXCEPT !.told = "failed"]
<1>1. /\ ~Busy(c) /\ Begins(c, r) /\ word' = [word EXCEPT ![s] = "none"]
      /\ UNCHANGED <<template, dropin, running, timeouts>>
  BY DEF RunService, disk, init
<1>2. /\ DOMAIN r = DOMAIN NoThread /\ ClientOK(r)
      /\ r.pc \in {"reach", "idle"} /\ (r.pc # "idle" => Head(r.todo) = s)
  BY DEF NoThread, ClientOK, Suits
<1>3. ShapeOK /\ AloneInv /\ c \in Threads /\ c # Installer
  BY Apart DEF Inv
<1> HIDE DEF r
<1>4. /\ DOMAIN thread' = Threads /\ \A u \in Threads : DOMAIN thread'[u] = DOMAIN NoThread
      /\ \A u \in Threads \ {c} :
           /\ thread'[u].pc = thread[u].pc /\ thread'[u].verb = thread[u].verb
           /\ thread'[u].todo = thread[u].todo /\ thread'[u].promoted = thread[u].promoted
           /\ Busy(u) => ~thread'[u].alone
      /\ thread'[c].pc = r.pc /\ thread'[c].verb = r.verb /\ thread'[c].todo = r.todo
      /\ AloneInv'
  BY <1>1, <1>2, <1>3, Beginning
<1>5. ShapeOK'
  <2>1. DOMAIN word' = Services /\ \A x \in Services : word'[x] \in {"none", "on", "off"}
    BY <1>1, <1>3 DEF ShapeOK
  <2>2. \A u \in Clients : ClientOK(thread'[u])
    BY <1>2, <1>3, <1>4, Apart DEF ShapeOK, ClientOK
  <2>3. InstallerOK(thread'[Installer])
    BY <1>3, <1>4, Apart DEF ShapeOK, InstallerOK
  <2> QED BY <1>1, <1>3, <1>4, <2>1, <2>2, <2>3 DEF ShapeOK
<1>6. VerbInv'
  BY <1>2, <1>4, Apart DEF VerbInv, Busy
<1>7. \A x \in Services : word'[x] # "none" => x # s /\ word'[x] = word[x]
  BY <1>1, <1>3 DEF ShapeOK
<1>8. WordInv'
  <2> SUFFICES ASSUME NEW x \in Services, word'[x] # "none"
               PROVE  dropin'[x].text = "whole" /\ LeftAlone(x)'
    BY DEF WordInv
  <2>1. x # s /\ dropin'[x].text = "whole" /\ LeftAlone(x)
    BY <1>1, <1>7 DEF Inv, WordInv
  <2>2. LeftAlone(x)'
    BY <1>2, <1>3, <1>4, <2>1, Apart DEF LeftAlone, Busy, Service, InHand
  <2> QED BY <2>1, <2>2
<1>9. KeptWord'
  BY <1>1, <1>7 DEF Inv, KeptWord
<1> QED BY <1>4, <1>5, <1>6, <1>8, <1>9 DEF Inv

LEMMA PromoteKeeps ==
  ASSUME Inv, NEW some \in SUBSET Services, Promote(some)
  PROVE  Inv'
<1> DEFINE r == [NoThread EXCEPT !.pc = "consider", !.verb = "install", !.todo = Order]
<1>1. /\ ~Busy(Installer) /\ Begins(Installer, r)
      /\ UNCHANGED <<template, dropin, word, running, timeouts>>
  BY DEF Promote, init
<1>2. DOMAIN r = DOMAIN NoThread /\ InstallerOK(r) /\ \A x : ~InHand(r, x)
  BY ServicesAssumption, Lists DEF NoThread, InstallerOK, InHand
<1>3. ShapeOK /\ AloneInv /\ Installer \in Threads
  BY Apart DEF Inv
<1> HIDE DEF r
<1>4. /\ DOMAIN thread' = Threads /\ \A u \in Threads : DOMAIN thread'[u] = DOMAIN NoThread
      /\ \A u \in Threads \ {Installer} :
           /\ thread'[u].pc = thread[u].pc /\ thread'[u].verb = thread[u].verb
           /\ thread'[u].todo = thread[u].todo
           /\ Busy(u) => ~thread'[u].alone
      /\ thread'[Installer].pc = r.pc /\ thread'[Installer].todo = r.todo
      /\ thread'[Installer].promoted = r.promoted
      /\ AloneInv'
  BY <1>1, <1>2, <1>3, Beginning
<1>5. ShapeOK'
  <2>1. \A u \in Clients : ClientOK(thread'[u])
    BY <1>3, <1>4, Apart DEF ShapeOK, ClientOK
  <2>2. InstallerOK(thread'[Installer])
    BY <1>2, <1>4 DEF InstallerOK
  <2> QED BY <1>1, <1>3, <1>4, <2>1, <2>2 DEF ShapeOK
<1>6. VerbInv'
  BY <1>4, Apart DEF VerbInv, Busy
<1>7. WordInv'
  <2> SUFFICES ASSUME NEW x \in Services, word'[x] # "none"
               PROVE  dropin'[x].text = "whole" /\ LeftAlone(x)'
    BY DEF WordInv
  <2>1. dropin'[x].text = "whole" /\ LeftAlone(x)
    BY <1>1 DEF Inv, WordInv
  <2>2. ~InHand(thread'[Installer], x)
    BY <1>2, <1>4 DEF InHand
  <2>3. LeftAlone(x)'
    BY <1>4, <2>1, <2>2, Apart DEF LeftAlone, Busy, Service
  <2> QED BY <2>1, <2>3
<1>8. KeptWord'
  BY <1>1 DEF Inv, KeptWord
<1> QED BY <1>4, <1>5, <1>6, <1>7, <1>8 DEF Inv

LEMMA EndKeeps ==
  ASSUME Inv, UNCHANGED <<template, dropin, word, timeouts>>,
         DOMAIN thread' = Threads,
         \A u \in Threads : thread'[u] = thread[u] \/ thread'[u] = NoThread,
         \A c \in Clients : thread'[c] = thread[c] => running' = running \/ ~Busy(c),
         \A s \in Services : s \in running' => s \in running \/ s \in AtBoot
  PROVE  Inv'
<1>1. ShapeOK'
  <2>1. InstallerOK(NoThread) /\ ClientOK(NoThread)
    BY DEF InstallerOK, ClientOK, NoThread
  <2>2. \A u \in Threads : DOMAIN thread'[u] = DOMAIN NoThread
    BY DEF Inv, ShapeOK
  <2> QED BY <2>1, <2>2, Apart DEF Inv, ShapeOK
<1>2. AloneInv'
  BY DEF Inv, AloneInv, Busy, NoThread
<1>3. VerbInv'
  BY Apart DEF Inv, VerbInv, HalfDone, Busy, Service, NoThread
<1>4. WordInv'
  BY Apart DEF Inv, WordInv, LeftAlone, Busy, Service, NoThread
<1>5. KeptWord'
  BY DEF Inv, KeptWord, AtBoot
<1> QED BY <1>1, <1>2, <1>3, <1>4, <1>5 DEF Inv

LEMMA Inductive == Inv /\ [Next]_vars => Inv'
<1> SUFFICES ASSUME Inv, [Next]_vars PROVE Inv'
  OBVIOUS
<1> USE DEF disk, init, counts
<1>0. DOMAIN thread = Threads
  BY DEF Inv, ShapeOK
<1>1. CASE UNCHANGED vars
  BY <1>0, <1>1, EndKeeps DEF vars
<1>2. ASSUME NEW t \in Threads, Kill(t) PROVE Inv'
  BY <1>0, <1>2, EndKeeps DEF Kill, Becomes
<1>3. CASE Boot
  <2>1. \A u \in Threads : thread'[u] = NoThread
    BY <1>3 DEF Boot
  <2> QED BY <1>3, <2>1, EndKeeps, Apart DEF Boot, Busy, NoThread
<1>4. CASE InstallStep
  <2>1. ShapeOK
    BY DEF Inv
  <2> QED BY <1>4, <2>1, InstallDoes, InstallKeeps
<1> QED BY <1>1, <1>2, <1>3, <1>4, VerbDid, RunKeeps, PromoteKeeps DEF Next, Terminating

LEMMA InitInv == Init => Inv
<1> SUFFICES ASSUME Init PROVE Inv
  OBVIOUS
<1>1. /\ \A t \in Threads : thread[t] = NoThread
      /\ DOMAIN thread = Threads /\ timeouts = 0
  BY DEF Init
<1>2. /\ DOMAIN word = Services /\ DOMAIN dropin = Services /\ DOMAIN template = Services
      /\ \A s \in Services : word[s] = "none" /\ Definition(dropin[s]) /\ Definition(template[s])
  BY DEF Init, Definition, NoFile, Half, Whole
<1>3. InstallerOK(NoThread) /\ ClientOK(NoThread)
  BY DEF InstallerOK, ClientOK, NoThread
<1>4. ShapeOK
  BY <1>1, <1>2, <1>3, Apart DEF ShapeOK
<1>5. AloneInv /\ VerbInv
  BY <1>1, Apart DEF AloneInv, VerbInv, Busy, NoThread
<1>6. WordInv /\ KeptWord
  BY <1>2 DEF WordInv, KeptWord
<1> QED BY <1>4, <1>5, <1>6 DEF Inv

LEMMA Always == Spec => []Inv
  BY InitInv, Inductive, PTL DEF Spec

\* The word rvnd gives a person - "will start at boot", "stopped, and will not start at
\* boot" - is true when it is given and stays true, whatever other clients ask for other
\* services, whatever is installed, killed, rebooted or left unanswered, until another verb
\* is sent for that service (daemon.rs, run_service; activate_service_templates copies over
\* no definition that is there).
THEOREM TheWordIsKept == Spec => []KeptWord
<1>1. Inv => KeptWord
  BY DEF Inv
<1> QED BY <1>1, Always, PTL

-----------------------------------------------------------------------------
(* A lone verb that turns a service on.                                      *)

\* The files there can be: only CopyCreate leaves one that does not parse where
\* none was shipped so.
Texts == {NoFile, Half} \cup Whole
FileInv == \A s \in Services : dropin[s] \in Texts /\ template[s] \in Texts

\* How far a lone verb has brought service s by the time it stands at pc: there
\* is a definition somewhere, then in the directory, and then raven-init has
\* read it, if it can be read at all.
Brought(pc, s) ==
  /\ pc \in {"reach", "look"} => IsFile(s) \/ template[s] # NoFile
  /\ pc \in {"create", "write"} => template[s] # NoFile
  /\ pc \in {"status", "reload", "enable", "act"} => IsFile(s)
  /\ pc \in {"enable", "act"} => s \in known \/ dropin[s].text = "half"
Lone(c) == Busy(c) /\ thread[c].alone /\ thread[c].verb \in Turning
BroughtInv == \A c \in Clients : Lone(c) => Brought(thread[c].pc, Service(c))

\* A thread that has not ended has told nobody anything.
SilentInv == \A c \in Clients : Busy(c) => thread[c].told = "nothing"

TurnInv == Inv /\ FileInv /\ BroughtInv /\ SilentInv /\ failures \in Nat

LEMMA FilesStay ==
  ASSUME TurnInv, [Next]_vars
  PROVE  FileInv'
<1> USE DEF disk, init, counts
<1>0. /\ FileInv /\ ShapeOK /\ DOMAIN dropin = Services /\ DOMAIN template = Services
      /\ \A c \in Clients : Busy(c) => Service(c) \in Services
      /\ thread[Installer].pc = "write" => Service(Installer) \in Services
  BY Lists DEF TurnInv, Inv, ShapeOK, ClientOK, InstallerOK, Busy, Service
<1>1. ASSUME UNCHANGED <<template, dropin>> PROVE FileInv'
  BY <1>0, <1>1 DEF FileInv
<1>2. ASSUME NEW s \in Services, NEW f \in Texts, template' = template,
             dropin' = [dropin EXCEPT ![s] = f]
      PROVE  FileInv'
  BY <1>0, <1>2 DEF FileInv
<1>3. ASSUME NEW s \in Services, NEW on \in BOOLEAN, template' = template, InitSet(s, on)
      PROVE  FileInv'
  <2>1. CASE CanSet(s)
    <3>1. dropin[s] \in Whole
      BY <1>0, <2>1 DEF CanSet, Readable, FileInv, Texts, NoFile, Half
    <3>2. [dropin[s] EXCEPT !.enabled = on] \in Whole
      BY <3>1 DEF Whole
    <3>3. dropin' = [dropin EXCEPT ![s] = [dropin[s] EXCEPT !.enabled = on]]
      BY <1>3, <2>1 DEF InitSet
    <3> QED BY <1>2, <1>3, <3>2, <3>3 DEF Texts
  <2>2. CASE ~CanSet(s)
    BY <1>1, <1>3, <2>2 DEF InitSet
  <2> QED BY <2>1, <2>2
<1>4. ASSUME NEW c \in Clients, VerbStep(c) PROVE FileInv'
  <2>1. Busy(c)
    BY <1>4 DEF VerbStep, Reachable, EnsureDefined, CopyCreate, VerbCopy, Status, VerbReload,
       VerbEnable, VerbStop, VerbAct, Busy
  <2>2. PICK s \in Services : s = Service(c)
    BY <1>0, <2>1
  <2>3. CASE CopyCreate(c)
    BY <1>2, <2>2, <2>3 DEF CopyCreate, Texts
  <2>4. CASE VerbCopy(c)
    <3>1. template[s] \in Texts
      BY <1>0 DEF FileInv
    <3>2. template' = template /\ (dropin' = dropin \/ dropin' = [dropin EXCEPT ![s] = template[s]])
      BY <2>2, <2>4 DEF VerbCopy, CopyWrite
    <3> QED BY <1>1, <1>2, <3>1, <3>2
  <2>5. CASE VerbEnable(c)
    <3>1. template' = template /\ (InitSet(s, TRUE) \/ dropin' = dropin)
      BY <2>2, <2>5 DEF VerbEnable
    <3> QED BY <1>1, <1>3, <3>1
  <2>6. CASE VerbAct(c)
    <3>1. template' = template /\ (InitSet(s, FALSE) \/ dropin' = dropin)
      BY <2>2, <2>6 DEF VerbAct, LastRequest
    <3> QED BY <1>1, <1>3, <3>1
  <2>7. CASE Reachable(c) \/ EnsureDefined(c) \/ Status(c) \/ VerbReload(c) \/ VerbStop(c)
    BY <1>1, <2>7 DEF Reachable, EnsureDefined, Status, VerbReload, VerbStop
  <2> QED BY <1>4, <2>3, <2>4, <2>5, <2>6, <2>7 DEF VerbStep
<1>5. CASE InstallStep
  <2>1. CASE CopyCreate(Installer)
    <3>1. Service(Installer) \in Services
      BY <1>0, <2>1, Lists DEF CopyCreate, ShapeOK, InstallerOK, Service
    <3> QED BY <1>2, <2>1, <3>1 DEF CopyCreate, Texts
  <2>2. CASE InstallCopy
    <3>1. PICK s \in Services : s = Service(Installer)
      BY <1>0, <2>2 DEF InstallCopy
    <3>2. template[s] \in Texts
      BY <1>0 DEF FileInv
    <3>3. template' = template /\ (dropin' = dropin \/ dropin' = [dropin EXCEPT ![s] = template[s]])
      BY <2>2, <3>1 DEF InstallCopy, CopyWrite
    <3> QED BY <1>1, <1>2, <3>2, <3>3
  <2> QED BY <1>1, <1>5, <2>1, <2>2 DEF InstallStep, Consider, Load, Serve
<1> QED
  BY <1>1, <1>4, <1>5 DEF Next, Terminating, RunService, Promote, Kill, Boot, vars

\* What a step of a thread's is: it goes on as it was, or ends with a word.
LEMMA GoesOn ==
  ASSUME ShapeOK, NEW c \in Clients, NEW pc, Goes(c, pc)
  PROVE  /\ thread'[c].pc = pc /\ thread'[c].todo = thread[c].todo
         /\ thread'[c].told = thread[c].told /\ thread'[c].alone = thread[c].alone
         /\ thread'[c].verb = thread[c].verb
         /\ \A u \in Threads \ {c} : thread'[u] = thread[u]
<1>1. c \in DOMAIN thread /\ DOMAIN thread[c] = DOMAIN NoThread
  BY Apart DEF ShapeOK
<1>2. /\ thread'[c] = [thread[c] EXCEPT !.pc = pc]
      /\ \A u \in Threads \ {c} : thread'[u] = thread[u]
  BY <1>1 DEF Goes, Becomes, ShapeOK
<1> QED BY <1>1, <1>2 DEF NoThread

LEMMA Ends ==
  ASSUME ShapeOK, NEW c \in Clients, NEW told, Reply(c, told)
  PROVE  /\ thread'[c].pc = "idle" /\ thread'[c].told = told
         /\ \A u \in Threads \ {c} : thread'[u] = thread[u]
<1>1. c \in DOMAIN thread
  BY Apart DEF ShapeOK
<1>2. /\ thread'[c] = [NoThread EXCEPT !.told = told]
      /\ \A u \in Threads \ {c} : thread'[u] = thread[u]
  BY <1>1 DEF Reply, Becomes, ShapeOK
<1> QED BY <1>2 DEF NoThread

\* What else may be to blame.
Outside(c) ==
  \/ ~up \/ dropin[Service(c)].text = "half" \/ Service(c) \notin binary
  \/ timeouts' # timeouts \/ failures' # failures

\* One step of a lone verb brings the service further, or ends it well, or with
\* something else to blame.
Further(c) ==
  \/ thread'[c].pc = "idle" /\ (thread'[c].told = "failed" => Outside(c))
  \/ thread'[c].told = thread[c].told /\ Brought(thread[c].pc, Service(c))'

LEMMA LoneStep ==
  ASSUME TurnInv, NEW c \in Clients, Lone(c), VerbStep(c)
  PROVE  Further(c)
<1> DEFINE v == thread[c].verb
<1>1. /\ ShapeOK /\ FileInv /\ Busy(c) /\ v \in Turning /\ timeouts \in Nat
      /\ Brought(thread[c].pc, Service(c)) /\ DOMAIN dropin = Services
      /\ ClientOK(thread[c])
  BY DEF TurnInv, Inv, ShapeOK, BroughtInv, Lone
<1>2. PICK s \in Services : s = Service(c)
  BY <1>1 DEF ClientOK, Busy, Service
<1>3. dropin[s] \in Texts /\ template[s] \in Texts /\ Brought(thread[c].pc, s)
  BY <1>1, <1>2 DEF FileInv
<1>4. /\ Half # NoFile /\ Half.text = "half"
      /\ \A f \in Texts : f = NoFile \/ f.text = "half" \/ f.text = "whole"
  BY DEF Texts, NoFile, Half, Whole
<1>5. Action(v) \in {"enable", "act"} /\ v # "disable" /\ v # "stop"
      /\ thread[c].pc # "stop"
  BY <1>1 DEF Action, Turning, ClientOK, Busy, Suits
<1> HIDE DEF v
<1>6. ASSUME NEW pc, Goes(c, pc), Brought(pc, s)' PROVE Further(c)
  <2>1. thread'[c].pc = pc /\ thread'[c].todo = thread[c].todo /\ thread'[c].told = thread[c].told
    BY <1>1, <1>6, GoesOn
  <2>2. Service(c)' = s
    BY <1>2, <2>1 DEF Service
  <2> QED BY <1>6, <2>1, <2>2 DEF Further
<1>7. ASSUME Reply(c, "failed"), Outside(c) PROVE Further(c)
  BY <1>1, <1>7, Ends DEF Further
<1>8. CASE Reachable(c)
  <2>1. thread[c].pc = "reach" /\ UNCHANGED <<template, dropin>>
    BY <1>8 DEF Reachable, disk
  <2>2. CASE ~up
    BY <1>7, <1>8, <2>2 DEF Reachable, Outside
  <2>3. CASE up
    <3>1. Goes(c, "look")
      BY <1>1, <1>8, <2>3 DEF Reachable, v
    <3>2. Brought("look", s)'
      BY <1>3, <2>1 DEF Brought, IsFile
    <3> QED BY <1>6, <3>1, <3>2
  <2> QED BY <2>2, <2>3
<1>9. CASE EnsureDefined(c)
  <2>1. thread[c].pc = "look" /\ UNCHANGED <<template, dropin>>
        /\ Goes(c, IF IsFile(s) THEN "status" ELSE "create")
    BY <1>2, <1>9 DEF EnsureDefined, disk
  <2>2. CASE IsFile(s)
    <3>1. Brought("status", s)'
      BY <2>1, <2>2 DEF Brought, IsFile
    <3> QED BY <1>6, <2>1, <2>2, <3>1
  <2>3. CASE ~IsFile(s)
    <3>1. Brought("create", s)'
      BY <1>3, <2>1, <2>3 DEF Brought, IsFile
    <3> QED BY <1>6, <2>1, <2>3, <3>1
  <2> QED BY <2>2, <2>3
<1>10. CASE CopyCreate(c)
  <2>1. thread[c].pc = "create" /\ template' = template /\ Goes(c, "write")
    BY <1>10 DEF CopyCreate
  <2>2. Brought("write", s)'
    BY <1>3, <2>1 DEF Brought
  <2> QED BY <1>6, <2>1, <2>2
<1>11. CASE VerbCopy(c)
  <2>1. CASE CopyWrite(c) /\ Goes(c, "status")
    <3>1. thread[c].pc = "write" /\ dropin' = [dropin EXCEPT ![s] = template[s]]
      BY <1>2, <1>11, <2>1 DEF VerbCopy, CopyWrite
    <3>2. dropin'[s] = template[s]
      BY <1>1, <3>1
    <3>3. Brought("status", s)'
      BY <1>3, <3>1, <3>2 DEF Brought, IsFile
    <3> QED BY <1>6, <2>1, <3>3
  <2>2. CASE failures' = failures + 1 /\ Reply(c, "failed")
    <3>1. failures' # failures
      BY <2>2 DEF TurnInv
    <3> QED BY <1>7, <2>2, <3>1 DEF Outside
  <2> QED BY <1>11, <2>1, <2>2 DEF VerbCopy
<1>12. CASE Status(c)
  <2>1. thread[c].pc = "status" /\ UNCHANGED <<template, dropin, known>>
    BY <1>12 DEF Status, disk, init
  <2>2. CASE Goes(c, "reload")
    <3>1. Brought("reload", s)'
      BY <1>3, <2>1 DEF Brought, IsFile
    <3> QED BY <1>6, <2>2, <3>1
  <2>3. CASE s \in known /\ Goes(c, Action(v))
    <3>1. ASSUME NEW pc \in {"enable", "act"} PROVE Brought(pc, s)'
      BY <1>3, <2>1, <2>3 DEF Brought, IsFile
    <3> QED BY <1>5, <1>6, <2>3, <3>1
  <2> QED BY <1>2, <1>12, <2>2, <2>3 DEF Status, v
<1>13. CASE VerbReload(c)
  <2>1. thread[c].pc = "reload" /\ UNCHANGED <<template, dropin>>
    BY <1>13 DEF VerbReload, disk
  <2>2. CASE InitReload /\ Goes(c, Action(v))
    <3>1. s \in known' \/ dropin[s].text = "half"
      BY <1>3, <1>4, <2>1, <2>2 DEF InitReload, Readable, Brought, IsFile
    <3>2. ASSUME NEW pc \in {"enable", "act"} PROVE Brought(pc, s)'
      BY <1>3, <2>1, <3>1 DEF Brought, IsFile
    <3> QED BY <1>5, <1>6, <2>2, <3>2
  <2>3. CASE Silent /\ Reply(c, "failed")
    BY <1>1, <1>7, <2>3 DEF Silent, Outside
  <2> QED BY <1>13, <2>2, <2>3 DEF VerbReload, v
<1>14. CASE VerbEnable(c)
  <2>1. thread[c].pc = "enable" /\ template' = template
    BY <1>14 DEF VerbEnable
  <2>2. CASE Silent /\ Reply(c, "failed")
    BY <1>1, <1>7, <2>2 DEF Silent, Outside
  <2>3. CASE ~CanSet(s) /\ Reply(c, "failed")
    <3>1. dropin[s].text = "half"
      BY <1>3, <1>4, <2>1, <2>3 DEF CanSet, Readable, Brought, IsFile
    <3> QED BY <1>2, <1>7, <2>3, <3>1 DEF Outside
  <2>4. CASE CanSet(s) /\ InitSet(s, TRUE) /\ Goes(c, "act")
    <3>1. known' = known /\ dropin' = [dropin EXCEPT ![s].enabled = TRUE]
      BY <2>4 DEF InitSet
    <3>2. dropin'[s] = [dropin[s] EXCEPT !.enabled = TRUE] /\ dropin[s].text = "whole"
      BY <1>1, <2>4, <3>1 DEF CanSet, Readable
    <3>3. dropin'[s].text = "whole"
      BY <1>3, <3>2 DEF Texts, NoFile, Half, Whole
    <3>4. dropin'[s] # NoFile /\ s \in known'
      BY <2>4, <3>1, <3>3 DEF NoFile, CanSet
    <3>5. Brought("act", s)'
      BY <3>4 DEF Brought, IsFile
    <3> QED BY <1>6, <2>4, <3>5
  <2> QED BY <1>2, <1>14, <2>2, <2>3, <2>4 DEF VerbEnable
<1>15. CASE VerbAct(c)
  <2>1. thread[c].pc = "act"
    BY <1>15 DEF VerbAct
  <2>2. CASE Silent /\ Reply(c, "failed")
    BY <1>1, <1>7, <2>2 DEF Silent, Outside
  <2>3. CASE Accepted(c) /\ Reply(c, "ok")
    BY <1>1, <2>3, Ends DEF Further
  <2>4. CASE ~Accepted(c) /\ Reply(c, "failed")
    <3>1. s \notin known \cap binary
      BY <1>2, <1>5, <2>4 DEF Accepted, CanStart, v
    <3>2. s \notin binary \/ dropin[s].text = "half"
      BY <1>3, <2>1, <3>1 DEF Brought
    <3> QED BY <1>2, <1>7, <2>4, <3>2 DEF Outside
  <2> QED BY <1>15, <2>2, <2>3, <2>4 DEF VerbAct
<1> QED
  BY <1>5, <1>8, <1>9, <1>10, <1>11, <1>12, <1>13, <1>14, <1>15 DEF VerbStep, VerbStop

LEMMA StepOrEnd ==
  ASSUME NEW c \in Clients, VerbStep(c)
  PROVE  Busy(c) /\ ((\E pc : Goes(c, pc)) \/ (\E told : Reply(c, told)))
BY DEF VerbStep, Reachable, EnsureDefined, CopyCreate, VerbCopy, Status, VerbReload,
   VerbEnable, VerbStop, VerbAct, Busy

LEMMA Begun ==
  ASSUME ShapeOK, NEW t \in Threads, NEW r, DOMAIN r = DOMAIN NoThread, Begins(t, r)
  PROVE  /\ \A u \in Threads \ {t} :
              /\ thread'[u].pc = thread[u].pc /\ thread'[u].told = thread[u].told
              /\ Busy(u) => ~thread'[u].alone
         /\ thread'[t].pc = r.pc /\ thread'[t].told = r.told /\ thread'[t].todo = r.todo
<1>1. \A u \in Threads : DOMAIN thread[u] = DOMAIN NoThread
  BY DEF ShapeOK
<1>2. ASSUME NEW u \in Threads \ {t}
      PROVE  /\ thread'[u].pc = thread[u].pc /\ thread'[u].told = thread[u].told
             /\ Busy(u) => ~thread'[u].alone
  <2>1. thread'[u] = [thread[u] EXCEPT !.alone = @ /\ ~Busy(u)]
    BY <1>2 DEF Begins
  <2> QED BY <1>1, <1>2, <2>1 DEF NoThread
<1>3. thread'[t] = [r EXCEPT !.alone = \A o \in Threads \ {t} : ~Busy(o)]
  BY DEF Begins
<1> QED BY <1>2, <1>3 DEF NoThread

LEMMA TurnKeeps ==
  ASSUME TurnInv, [Next]_vars
  PROVE  BroughtInv' /\ SilentInv' /\ failures' \in Nat
<1> SUFFICES ASSUME NEW c \in Clients, Busy(c)'
             PROVE  /\ Lone(c)' => Brought(thread[c].pc, Service(c))'
                    /\ thread'[c].told = "nothing"
  <2>1. failures' \in Nat
    <3>1. failures' = failures \/ failures' = failures + 1
      BY DEF Next, Terminating, RunService, Promote, Kill, Boot, vars, VerbStep, Reachable,
         EnsureDefined, CopyCreate, VerbCopy, Status, VerbReload, VerbEnable, VerbStop,
         VerbAct, InstallStep, Consider, InstallCopy, Load, Serve, counts
    <3> QED BY <3>1 DEF TurnInv
  <2> QED BY <2>1 DEF BroughtInv, SilentInv, Lone
<1>0. /\ ShapeOK /\ AloneInv /\ c \in Threads /\ c # Installer /\ Installer \in Threads
      /\ Clients \subseteq Threads
      /\ Busy(c) => thread[c].told = "nothing"
      /\ Lone(c) => Brought(thread[c].pc, Service(c))
  BY Apart DEF TurnInv, Inv, BroughtInv, SilentInv
<1>1. ASSUME NEW t \in Threads, t # c, Busy(t), thread'[c] = thread[c]
      PROVE  thread'[c].told = "nothing" /\ ~Lone(c)'
  BY <1>0, <1>1 DEF AloneInv, Busy, Lone
<1>2. ASSUME NEW d \in Clients, VerbStep(d)
      PROVE  /\ Lone(c)' => Brought(thread[c].pc, Service(c))'
             /\ thread'[c].told = "nothing"
  <2>1. Busy(d) /\ ((\E pc : Goes(d, pc)) \/ (\E told : Reply(d, told)))
    BY <1>2, StepOrEnd
  <2>2. CASE d # c
    <3>1. thread'[c] = thread[c]
      BY <1>0, <2>1, <2>2, GoesOn, Ends
    <3> QED BY <1>0, <1>1, <2>1, <2>2, <3>1
  <2>3. CASE d = c
    <3>1. ~ \E told : Reply(c, told)
      BY <1>0, Ends DEF Busy
    <3>2. /\ thread'[c].told = thread[c].told /\ thread'[c].alone = thread[c].alone
          /\ thread'[c].verb = thread[c].verb
      BY <1>0, <2>1, <2>3, <3>1, GoesOn
    <3>3. Lone(c)' => Lone(c)
      BY <2>1, <2>3, <3>2 DEF Lone
    <3>4. Lone(c) => Brought(thread[c].pc, Service(c))'
      BY <1>2, <2>3, LoneStep DEF Further, Busy
    <3> QED BY <1>0, <2>1, <2>3, <3>2, <3>3, <3>4
  <2> QED BY <2>2, <2>3
<1>3. CASE InstallStep
  <2>1. Busy(Installer) /\ \E r : Becomes(Installer, r)
    BY <1>3 DEF InstallStep, Consider, CopyCreate, InstallCopy, Load, Serve, Busy, Goes
  <2>2. thread'[c] = thread[c]
    BY <1>0, <2>1, Becoming
  <2> QED BY <1>0, <1>1, <2>1, <2>2
<1>4. ASSUME NEW d \in Clients, NEW v \in Verbs, NEW s \in Services, RunService(d, v, s)
      PROVE  /\ Lone(c)' => Brought(thread[c].pc, Service(c))'
             /\ thread'[c].told = "nothing"
  <2> DEFINE r == IF DefinitionPath(s)
                  THEN [NoThread EXCEPT !.pc = "reach", !.verb = v, !.todo = <<s>>]
                  ELSE [NoThread EXCEPT !.told = "failed"]
  <2>1. Begins(d, r) /\ UNCHANGED <<template, dropin>> /\ DOMAIN r = DOMAIN NoThread
    BY <1>4 DEF RunService, disk, NoThread
  <2>2. \/ r.pc = "idle"
        \/ r.pc = "reach" /\ r.told = "nothing" /\ Head(r.todo) = s /\ DefinitionPath(s)
    BY DEF NoThread
  <2> HIDE DEF r
  <2>3. CASE d # c
    BY <1>0, <2>1, <2>3, Begun DEF Lone, Busy
  <2>4. CASE d = c
    <3>1. thread'[c].pc = r.pc /\ thread'[c].told = r.told /\ thread'[c].todo = r.todo
      BY <1>0, <2>1, <2>4, Begun
    <3>2. r.pc = "reach" /\ r.told = "nothing" /\ Service(c)' = s /\ DefinitionPath(s)
      BY <2>2, <3>1 DEF Busy, Service
    <3>3. Brought("reach", s)'
      BY <2>1, <3>2 DEF Brought, DefinitionPath, IsFile
    <3> QED BY <3>1, <3>2, <3>3
  <2> QED BY <2>3, <2>4
<1>5. ASSUME NEW some \in SUBSET Services, Promote(some)
      PROVE  ~Lone(c)' /\ thread'[c].told = "nothing"
  <2>1. PICK r : DOMAIN r = DOMAIN NoThread /\ Begins(Installer, r)
    BY <1>5 DEF Promote, NoThread
  <2> QED BY <1>0, <2>1, Begun DEF Lone, Busy
<1>6. ASSUME NEW t \in Threads, Kill(t)
      PROVE  ~Lone(c)' /\ thread'[c].told = "nothing"
  <2>1. thread' = [thread EXCEPT ![t] = NoThread] /\ Busy(t)
    BY <1>6 DEF Kill, Becomes
  <2>2. t # c
    BY <1>0, <2>1 DEF Busy, NoThread, ShapeOK
  <2>3. thread'[c] = thread[c]
    BY <1>0, <2>1, <2>2 DEF ShapeOK
  <2> QED BY <1>0, <1>1, <2>1, <2>2, <2>3
<1>7. ~Boot
  BY <1>0 DEF Boot, Busy, NoThread
<1>8. CASE UNCHANGED vars
  BY <1>0, <1>8 DEF Lone, Busy, Brought, IsFile, Service, vars, disk, init
<1> QED
  BY <1>2, <1>3, <1>4, <1>5, <1>6, <1>7, <1>8 DEF Next, Terminating

\* A verb alone fails only for a reason outside rvn: what it needs of a definition it
\* brings itself, step by step, whatever stood in the directory and whatever raven-init
\* had read before (daemon.rs, ensure_defined).
THEOREM LoneVerbsTurnOn == Spec => TurnsOn
<1>1. TurnInv /\ [Next]_vars => TurnInv'
  BY Inductive, FilesStay, TurnKeeps DEF TurnInv
<1>2. Init => TurnInv
  <2> SUFFICES ASSUME Init PROVE FileInv /\ BroughtInv /\ SilentInv /\ failures \in Nat
    BY InitInv DEF TurnInv
  <2>1. \A c \in Clients : ~Busy(c)
    BY Apart DEF Init, Busy, NoThread
  <2> QED BY <2>1 DEF Init, FileInv, Texts, BroughtInv, SilentInv, Lone
<1>3. TurnInv /\ [Next]_vars =>
        [\A c \in Clients :
           (Busy(c) /\ thread[c].verb \in Turning /\ thread[c].alone /\ thread'[c].told = "failed")
             => LET s == Service(c) IN
                \/ ~up \/ dropin[s].text = "half" \/ s \notin binary
                \/ timeouts' # timeouts \/ failures' # failures]_vars
  <2> SUFFICES ASSUME TurnInv, Next, NEW c \in Clients, Lone(c), thread'[c].told = "failed"
               PROVE  Outside(c)
    BY DEF Outside, Lone
  <2>0. thread[c].told = "nothing" /\ ShapeOK /\ c \in Threads /\ Clients \subseteq Threads
        /\ Installer \in Threads /\ c # Installer
    BY Apart DEF TurnInv, Inv, SilentInv, Lone
  <2>1. CASE VerbStep(c)
    BY <2>0, <2>1, LoneStep DEF Further
  <2>2. ASSUME NEW d \in Clients \ {c}, VerbStep(d) PROVE FALSE
    BY <2>0, <2>2, StepOrEnd, GoesOn, Ends
  <2>3. CASE InstallStep
    <3>1. \E r : Becomes(Installer, r)
      BY <2>3 DEF InstallStep, Consider, CopyCreate, InstallCopy, Load, Serve, Goes
    <3> QED BY <2>0, <3>1, Becoming
  <2>4. ASSUME NEW d \in Clients, NEW v \in Verbs, NEW s \in Services, RunService(d, v, s)
        PROVE  FALSE
    <3>1. d # c
      BY <2>4 DEF RunService, Lone
    <3>2. PICK r : DOMAIN r = DOMAIN NoThread /\ Begins(d, r)
      BY <2>4 DEF RunService, NoThread
    <3> QED BY <2>0, <3>1, <3>2, Begun
  <2>5. ASSUME NEW some \in SUBSET Services, Promote(some) PROVE FALSE
    <3>1. PICK r : DOMAIN r = DOMAIN NoThread /\ Begins(Installer, r)
      BY <2>5 DEF Promote, NoThread
    <3> QED BY <2>0, <3>1, Begun
  <2>6. ASSUME NEW t \in Threads, Kill(t) PROVE FALSE
    BY <2>0, <2>6 DEF Kill, Becomes, ShapeOK, NoThread
  <2>7. CASE Boot \/ Terminating
    BY <2>0, <2>7 DEF Boot, Terminating, vars, NoThread
  <2> QED
    BY <2>1, <2>2, <2>3, <2>4, <2>5, <2>6, <2>7 DEF Next
<1> QED BY <1>1, <1>2, <1>3, PTL DEF Spec, TurnsOn

====

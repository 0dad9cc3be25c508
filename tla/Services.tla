---- MODULE Services ----
(***************************************************************************)
(* Services: the drop-in directory raven-init reads, the templates that    *)
(* packages ship, and the two parts of rvn that copy one into the other -  *)
(* the end of an install (activate_service_templates) and rvnd's service   *)
(* verbs (run_service), each in a thread of its own and under no lock.     *)
(* raven-init is outside src/: it answers one request at a time, knows     *)
(* what it could read at boot or at the last reload, and keeps a service's *)
(* `enabled` key in the drop-in.                                           *)
(***************************************************************************)
EXTENDS Naturals, Sequences, FiniteSets, SequencesExt

CONSTANTS
  Order,        \* the template files, in file-name order
  Clients,      \* rvnd's threads, each serving one service request
  Installer,    \* the rvn that installs packages
  MaxAsks, MaxInstalls, MaxKills, MaxTimeouts, MaxFailures   \* bounds

Services == ToSet(Order)
Threads == Clients \cup {Installer}

ASSUME ServicesAssumption ==
  /\ Order \in Seq(Services) /\ IsInjective(Order) /\ Order # <<>>
  /\ Installer \notin Clients
  /\ {MaxAsks, MaxInstalls, MaxKills, MaxTimeouts, MaxFailures} \subseteq Nat

VARIABLES
  template,   \* usr/share/raven/services: the definition a package ships
  dropin,     \* etc/raven/init.d: the definition raven-init will read
  binary,     \* services whose program is on disk
  up,         \* raven-init answers on its socket
  known,      \* services raven-init has read a definition of
  running,    \* services it runs
  thread,     \* the threads of rvnd and rvn
  asked,      \* history: services a verb has been sent for
  word,       \* history: what the last lone enable or disable reported
  asks, installs, kills, timeouts, failures

disk == <<template, dropin, binary>>
init == <<up, known, running>>
counts == <<asks, installs, kills, timeouts, failures>>
vars == <<disk, init, thread, asked, word, counts>>

(* A definition file: none, one that does not parse (a copy under way, or  *)
(* a broken file), or a whole one with its `enabled` key.                  *)
File == [text : {"none", "half", "whole"}, enabled : BOOLEAN]
NoFile == [text |-> "none", enabled |-> FALSE]
Half == [text |-> "half", enabled |-> FALSE]
Whole == [text : {"whole"}, enabled : BOOLEAN]
IsFile(s) == dropin[s] # NoFile

Turning == {"enable", "start", "restart"}
Verbs == Turning \cup {"disable", "stop"}

NoThread == [pc |-> "idle", verb |-> "none", todo |-> <<>>, promoted |-> <<>>,
             alone |-> TRUE, told |-> "nothing"]

Busy(t) == thread[t].pc # "idle"
Service(t) == Head(thread[t].todo)
Becomes(t, r) == thread' = [thread EXCEPT ![t] = r]
Goes(t, pc) == Becomes(t, [thread[t] EXCEPT !.pc = pc])

(* A thread that begins beside others: none of them is alone any more.     *)
Begins(t, r) ==
  thread' = [u \in Threads |->
    IF u = t THEN [r EXCEPT !.alone = \A o \in Threads \ {t} : ~Busy(o)]
    ELSE [thread[u] EXCEPT !.alone = @ /\ ~Busy(u)]]

(* The reply a service verb ends with, and what it promised: an enable     *)
(* whose start failed still says "will start at boot".                     *)
Promises(t, told) ==
  CASE thread[t].verb = "enable" -> thread[t].pc = "act"
    [] thread[t].verb = "disable" -> told = "ok"
    [] OTHER -> FALSE

Reply(t, told) ==
  LET s == Service(t) v == thread[t].verb IN
  /\ Becomes(t, [NoThread EXCEPT !.told = told])
  /\ word' = IF thread[t].alone /\ Promises(t, told)
             THEN [word EXCEPT ![s] = IF v = "enable" THEN "on" ELSE "off"]
             ELSE word

(***************************************************************************)
(* raven-init, as the two callers see it.                                  *)
(***************************************************************************)
Readable == {s \in Services : dropin[s].text = "whole"}
InitReload == known' = Readable /\ UNCHANGED running
CanStart(s) == s \in known \cap binary
InitStart(s) == running' = running \cup ({s} \cap known \cap binary) /\ UNCHANGED known
InitStop(s) == running' = running \ {s} /\ UNCHANGED known
CanSet(s) == s \in known \cap Readable
InitSet(s, on) ==
  /\ dropin' = IF CanSet(s) THEN [dropin EXCEPT ![s].enabled = on] ELSE dropin
  /\ UNCHANGED <<known, running>>

(* A request whose answer does not come within TIMEOUT.                    *)
Silent == timeouts < MaxTimeouts /\ timeouts' = timeouts + 1
Answered == UNCHANGED timeouts

(***************************************************************************)
(* rvnd: run_service.                                                      *)
(***************************************************************************)
DefinitionPath(s) == IsFile(s) \/ template[s] # NoFile

RunService(c, v, s) ==
  /\ ~Busy(c) /\ asks < MaxAsks /\ asks' = asks + 1
  /\ asked' = asked \cup {s} /\ word' = [word EXCEPT ![s] = "none"]
  /\ Begins(c, IF DefinitionPath(s)
               THEN [NoThread EXCEPT !.pc = "reach", !.verb = v, !.todo = <<s>>]
               ELSE [NoThread EXCEPT !.told = "failed"])
  /\ UNCHANGED <<disk, init, installs, kills, timeouts, failures>>

Action(v) == CASE v = "enable" -> "enable" [] v = "disable" -> "stop" [] OTHER -> "act"

Reachable(c) ==
  /\ thread[c].pc = "reach"
  /\ IF ~up THEN Reply(c, "failed")
     ELSE /\ Goes(c, IF thread[c].verb \in Turning THEN "look" ELSE Action(thread[c].verb))
          /\ UNCHANGED word
  /\ UNCHANGED <<disk, init, asked, counts>>

(* ensure_defined: the drop-in, and then whether init has read it.         *)
EnsureDefined(c) ==
  /\ thread[c].pc = "look"
  /\ Goes(c, IF IsFile(Service(c)) THEN "status" ELSE "create")
  /\ UNCHANGED <<disk, init, asked, word, counts>>

(* std::fs::copy: the target is opened, and truncated, before a byte of it *)
(* is written.                                                             *)
CopyCreate(t) ==
  /\ thread[t].pc = "create"
  /\ dropin' = [dropin EXCEPT ![Service(t)] = Half]
  /\ Goes(t, "write")
  /\ UNCHANGED <<template, binary, init, asked, word, counts>>

CopyWrite(t) == dropin' = [dropin EXCEPT ![Service(t)] = template[Service(t)]]

VerbCopy(c) ==
  /\ c \in Clients /\ thread[c].pc = "write"
  /\ \/ CopyWrite(c) /\ Goes(c, "status") /\ UNCHANGED <<word, failures>>
     \/ /\ failures < MaxFailures /\ failures' = failures + 1
        /\ Reply(c, "failed") /\ UNCHANGED dropin
  /\ UNCHANGED <<template, binary, init, asked, asks, installs, kills, timeouts>>

StatusAssumed(c) ==
  /\ thread[c].pc = "status" /\ Answered /\ Goes(c, Action(thread[c].verb))
  /\ UNCHANGED <<disk, init, asked, word, asks, installs, kills, failures>>

(* `status` names it: nothing to reload. An answer that never comes is     *)
(* read as "unknown".                                                      *)
Status(c) ==
  /\ thread[c].pc = "status"
  /\ \/ Answered /\ Goes(c, IF Service(c) \in known THEN Action(thread[c].verb) ELSE "reload")
     \/ Silent /\ Goes(c, "reload")
  /\ UNCHANGED <<disk, init, asked, word, asks, installs, kills, failures>>

VerbReload(c) ==
  /\ thread[c].pc = "reload"
  /\ \/ Answered /\ InitReload /\ Goes(c, Action(thread[c].verb)) /\ UNCHANGED word
     \/ Silent /\ (InitReload \/ UNCHANGED <<known, running>>) /\ Reply(c, "failed")
  /\ UNCHANGED <<disk, up, asked, asks, installs, kills, failures>>

(* Enable before start: what is left behind if the start fails is a        *)
(* machine that has been told to run it at boot.                           *)
VerbEnable(c) ==
  /\ thread[c].pc = "enable"
  /\ LET s == Service(c) IN
     \/ /\ Answered /\ InitSet(s, TRUE)
        /\ IF CanSet(s) THEN Goes(c, "act") /\ UNCHANGED word ELSE Reply(c, "failed")
     \/ /\ Silent /\ Reply(c, "failed")
        /\ InitSet(s, TRUE) \/ UNCHANGED <<dropin, known, running>>
  /\ UNCHANGED <<template, binary, up, asked, asks, installs, kills, failures>>

(* Disable stops first and does not ask how that went.                     *)
VerbStop(c) ==
  /\ thread[c].pc = "stop" /\ Goes(c, "act")
  /\ \/ Answered /\ InitStop(Service(c))
     \/ Silent /\ (InitStop(Service(c)) \/ UNCHANGED <<known, running>>)
  /\ UNCHANGED <<disk, up, asked, word, asks, installs, kills, failures>>

(* The last request: start (of an enable too), restart, stop or disable.   *)
LastRequest(c) ==
  LET s == Service(c) v == thread[c].verb IN
  CASE v = "disable" -> InitSet(s, FALSE)
    [] v = "stop" -> InitStop(s) /\ UNCHANGED dropin
    [] OTHER -> InitStart(s) /\ UNCHANGED dropin

Accepted(c) ==
  LET s == Service(c) v == thread[c].verb IN
  CASE v = "disable" -> CanSet(s)
    [] v = "stop" -> s \in known
    [] OTHER -> CanStart(s)

VerbAct(c) ==
  /\ thread[c].pc = "act"
  /\ \/ Answered /\ LastRequest(c) /\ Reply(c, IF Accepted(c) THEN "ok" ELSE "failed")
     \/ /\ Silent /\ Reply(c, "failed")
        /\ LastRequest(c) \/ UNCHANGED <<dropin, known, running>>
  /\ UNCHANGED <<template, binary, up, asked, asks, installs, kills, failures>>

VerbStep(c) ==
  Reachable(c) \/ EnsureDefined(c) \/ CopyCreate(c) \/ VerbCopy(c) \/ Status(c)
    \/ VerbReload(c) \/ VerbEnable(c) \/ VerbStop(c) \/ VerbAct(c)

(***************************************************************************)
(* rvn: the end of an install that brought the programs of `some`.         *)
(***************************************************************************)
Promote(some) ==
  /\ ~Busy(Installer) /\ installs < MaxInstalls /\ installs' = installs + 1
  /\ binary' = binary \cup some
  /\ Begins(Installer, [NoThread EXCEPT !.pc = "consider", !.verb = "install", !.todo = Order])
  /\ UNCHANGED <<template, dropin, init, asked, word, asks, kills, timeouts, failures>>

PromotableAgain(s) == template[s].text = "whole" /\ s \in binary
Promotable(s) == ~IsFile(s) /\ template[s].text = "whole" /\ s \in binary

NextTemplate(r, promoted) ==
  [r EXCEPT !.pc = "consider", !.todo = Tail(@), !.promoted = @ \o promoted]

(* activate_service_templates, one template at a time.                     *)
Consider ==
  LET r == thread[Installer] IN
  /\ r.pc = "consider"
  /\ IF r.todo = <<>>
     THEN Becomes(Installer, IF r.promoted = <<>> \/ ~up THEN NoThread
                             ELSE [r EXCEPT !.pc = "load"])
     ELSE Becomes(Installer, IF Promotable(Head(r.todo)) THEN [r EXCEPT !.pc = "create"]
                             ELSE NextTemplate(r, <<>>))
  /\ UNCHANGED <<disk, init, asked, word, counts>>

InstallCopy ==
  LET r == thread[Installer] IN
  /\ r.pc = "write"
  /\ \/ CopyWrite(Installer) /\ Becomes(Installer, NextTemplate(r, <<Head(r.todo)>>)) /\ UNCHANGED failures
     \/ /\ failures < MaxFailures /\ failures' = failures + 1
        /\ Becomes(Installer, NextTemplate(r, <<>>)) /\ UNCHANGED dropin
  /\ UNCHANGED <<template, binary, init, asked, word, asks, installs, kills, timeouts>>

LoadUnread ==
  LET r == thread[Installer] IN
  /\ r.pc = "load" /\ Becomes(Installer, [r EXCEPT !.pc = "serve", !.todo = r.promoted])
  /\ UNCHANGED <<disk, init, asked, word, counts>>

(* load_promoted_services: one reload for all, then those that ship        *)
(* enabled are started; a reload that fails starts none of them.           *)
Load ==
  LET r == thread[Installer] IN
  /\ r.pc = "load"
  /\ \/ Answered /\ InitReload
        /\ Becomes(Installer, [r EXCEPT !.pc = "serve", !.todo = r.promoted])
     \/ Silent /\ (InitReload \/ UNCHANGED <<known, running>>) /\ Becomes(Installer, NoThread)
  /\ UNCHANGED <<disk, up, asked, word, asks, installs, kills, failures>>

Starts(s) == template[s].enabled

Serve ==
  LET r == thread[Installer] IN
  /\ r.pc = "serve"
  /\ IF r.todo = <<>> THEN Becomes(Installer, NoThread) /\ UNCHANGED <<known, running, timeouts>>
     ELSE LET s == Head(r.todo) IN
          /\ Becomes(Installer, [r EXCEPT !.todo = Tail(@)])
          /\ IF ~Starts(s) THEN UNCHANGED <<known, running, timeouts>>
             ELSE \/ Answered /\ InitStart(s)
                  \/ Silent /\ (InitStart(s) \/ UNCHANGED <<known, running>>)
  /\ UNCHANGED <<disk, up, asked, word, asks, installs, kills, failures>>

InstallStep == Consider \/ CopyCreate(Installer) \/ InstallCopy \/ Load \/ Serve

(***************************************************************************)
(* A killed thread leaves what it had written; a power cut kills them all, *)
(* and the boot reads the directory and runs what is enabled in it.        *)
(***************************************************************************)
Kill(t) ==
  /\ Busy(t) /\ kills < MaxKills /\ kills' = kills + 1
  /\ Becomes(t, NoThread)
  /\ UNCHANGED <<disk, init, asked, word, asks, installs, timeouts, failures>>

AtBoot == {s \in Readable \cap binary : dropin[s].enabled}

Boot ==
  /\ kills < MaxKills /\ kills' = kills + 1
  /\ thread' = [t \in Threads |-> NoThread]
  /\ known' = Readable /\ running' = AtBoot
  /\ UNCHANGED <<disk, up, asked, word, asks, installs, timeouts, failures>>

(* A machine at rest: some definitions were promoted before the last boot, *)
(* some templates are newer than their drop-in or have none.               *)
Init ==
  /\ template \in [Services -> {NoFile, Half} \cup Whole]
  /\ binary \in SUBSET Services
  /\ dropin \in [Services -> {NoFile} \cup Whole]
  /\ known = Readable /\ running = AtBoot
  /\ up \in BOOLEAN
  /\ thread = [t \in Threads |-> NoThread]
  /\ asked = {} /\ word = [s \in Services |-> "none"]
  /\ asks = 0 /\ installs = 0 /\ kills = 0 /\ timeouts = 0 /\ failures = 0

(* Every thread has ended and the bounds allow nothing more.               *)
Terminating == (\A t \in Threads : ~Busy(t)) /\ UNCHANGED vars

Next ==
  \/ \E c \in Clients : VerbStep(c) \/ \E v \in Verbs, s \in Services : RunService(c, v, s)
  \/ InstallStep \/ \E some \in SUBSET Services : Promote(some)
  \/ \E t \in Threads : Kill(t)
  \/ Boot
  \/ Terminating

Fairness == WF_vars(InstallStep) /\ \A c \in Clients : WF_vars(VerbStep(c))
Spec == Init /\ [][Next]_vars /\ Fairness

(***************************************************************************)
(* Properties.                                                             *)
(***************************************************************************)
(* The word a person is given - "will start at boot", "stopped, and will   *)
(* not start at boot" - holds from then on, through installs, reloads,     *)
(* kills and reboots, until another verb is sent for that service. A stop  *)
(* raven-init never answered is the one thing disable does not notice      *)
(* (daemon.rs run_service: its result is dropped).                         *)
KeptWord ==
  \A s \in Services :
    /\ word[s] = "on" => dropin[s].text = "whole" /\ dropin[s].enabled
    /\ word[s] = "off" => ~dropin[s].enabled /\ (s \notin running \/ timeouts > 0)

(* A verb that turns a service on and runs beside nothing else fails only  *)
(* for a reason outside rvn: no definition, one that does not parse, no    *)
(* program, a supervisor that is not there or does not answer, a write     *)
(* that failed. A definition newer than the last boot is not a reason.     *)
TurnsOn ==
  [][\A c \in Clients :
       (Busy(c) /\ thread[c].verb \in Turning /\ thread[c].alone /\ thread'[c].told = "failed")
         => LET s == Service(c) IN
            \/ ~up \/ dropin[s].text = "half" \/ s \notin binary
            \/ timeouts' # timeouts \/ failures' # failures]_vars

(* A service that ships enabled and whose program has just been installed  *)
(* comes up without anybody finding the command for it, unless a verb for  *)
(* it, a kill, a silence of raven-init or a failed write comes between.    *)
ComesUp ==
  \A s \in Services :
    (/\ thread[Installer].pc = "consider" /\ thread[Installer].todo # <<>>
     /\ Service(Installer) = s /\ Promotable(s) /\ Starts(s) /\ up)
      ~> (s \in running \/ s \in asked \/ kills + timeouts + failures > 0)

====

---- MODULE Repository ----
(***************************************************************************)
(* Repository: `rvn build` and `rvn repo-add` on one output directory,     *)
(* from which other machines fetch.  A package is prepared under dotted    *)
(* names of its own process and renamed into place, then signed; the       *)
(* database is described from the archives that are there, written beside  *)
(* the one being served, renamed over it, linked under the name that is    *)
(* fetched, and signed.  Several tools work at once and any of them may    *)
(* stop, by an error or a kill, between two steps.                         *)
(***************************************************************************)
EXTENDS Version, FiniteSets, Functions

CONSTANTS
  Tools,      \* processes
  Commands,   \* command lines: what to build, and whether to sign and add
  Configs,    \* what etc/rvn/build.toml may say: "none", "key" or "garbled"
  Order,      \* the archive names of the directory, sorted
  Pkg,        \* for each of them the package and version inside
  Broken,     \* those that are there from the start and cannot be read
  MaxStarts,  \* bound: commands
  MaxStops    \* bound: commands that end early

ASSUME RepositoryAssumption ==
  /\ Order \in Seq(Range(Order))
  /\ Broken \subseteq Range(Order) /\ {MaxStarts, MaxStops} \subseteq Nat
  /\ "db" \notin Range(Order)                 \* a database is no archive
  /\ \A c \in Commands : c.build \in Seq(Range(Order) \ Broken)

VARIABLES
  archive,   \* for each archive name, which build its bytes are of; 0: not there
  sig,       \* for what has a signature beside it, what was signed
  live,      \* the databases other machines fetch: "db" and "files"
  draft,     \* the same, half-written, under the staging name
  alias,     \* the fetched names that link to them, and to the signature
  tool,      \* what each process is doing
  suspect,   \* history: what was put in place and not signed since
  builds, starts, stops

dir == <<archive, sig, live, draft, alias>>
vars == <<dir, tool, suspect, builds, starts, stops>>

Names == Range(Order)
With(f, x, v) == [y \in DOMAIN f \cup {x} |-> IF y = x THEN v ELSE f[y]]
Without(f, x) == Restrict(f, DOMAIN f \ {x})

Idle == [at |-> "idle", add |-> FALSE, files |-> FALSE, sign |-> FALSE, todo |-> <<>>,
         seen |-> {}, queue |-> {}, reading |-> 0, newest |-> <<>>,
         on |-> "db", handle |-> "none", saw |-> <<>>, changed |-> {}]

Init ==
  /\ archive = [f \in Names |-> IF f \in Broken THEN 1 ELSE 0]
  /\ sig = <<>> /\ live = <<>> /\ draft = <<>> /\ alias = {}
  /\ tool = [t \in Tools |-> Idle]
  /\ suspect = {} /\ builds = 1 /\ starts = 0 /\ stops = 0

At(t, at) == tool[t].at = at
Goes(t, r) == tool' = [tool EXCEPT ![t] = r]
Goto(t, at) == tool' = [tool EXCEPT ![t].at = at]

(* Step r of t changes what is beside archive f, as others may notice.     *)
GoesOver(t, r, f) ==
  tool' = [u \in Tools |-> IF u = t THEN r ELSE [tool[u] EXCEPT !.changed = @ \cup {f}]]

(***************************************************************************)
(* rvn build: one manifest after another.                                  *)
(***************************************************************************)
Onward(r, todo) ==
  IF todo # <<>> THEN [r EXCEPT !.todo = todo, !.at = "build"]
  ELSE IF r.add THEN [r EXCEPT !.todo = <<>>, !.at = "scan"]
  ELSE Idle

(* The key is looked for before anything is built.                         *)
Refused(signing, config) ==
  \/ signing \in {"configured", "required"} /\ config = "garbled"
  \/ signing = "required" /\ config = "none"

Signs(signing, config) == signing = "key" \/ (signing # "never" /\ config = "key")

Start(t) ==
  /\ At(t, "idle") /\ starts < MaxStarts /\ starts' = starts + 1
  /\ \E c \in Commands, config \in Configs :
       /\ ~Refused(c.signing, config)
       /\ Goes(t, Onward([Idle EXCEPT !.add = c.add, !.files = c.files,
                                      !.sign = Signs(c.signing, config)], c.build))
  /\ UNCHANGED <<dir, suspect, builds, stops>>

(* The finished archive, compressed under a dotted name, is renamed over   *)
(* whatever an earlier build of the same version left.                     *)
PlaceArchive(t) ==
  LET r == tool[t]
      f == Head(r.todo) IN
  /\ At(t, "build")
  /\ builds' = builds + 1 /\ archive' = [archive EXCEPT ![f] = builds + 1]
  /\ suspect' = suspect \cup {f}
  /\ GoesOver(t, IF r.sign THEN [r EXCEPT !.at = "unsign"] ELSE Onward(r, Tail(r.todo)), f)
  /\ UNCHANGED <<sig, live, draft, alias, starts, stops>>

(***************************************************************************)
(* Signing: the old signature goes, gpg reads the file, gpg writes.        *)
(***************************************************************************)
Item(t) == IF tool[t].todo # <<>> THEN Head(tool[t].todo) ELSE "db"
Bytes(item) == IF item = "db" THEN live["db"].list ELSE archive[item]
AboutToSeal(t, item) == At(t, "seal") /\ Item(t) = item

(* Mutant: gpg's --yes is left to write over the old signature.            *)
LeaveToGpg(t) ==
  /\ At(t, "unsign")
  /\ suspect' = suspect \ {Item(t)}
  /\ GoesOver(t, [tool[t] EXCEPT !.at = "gpg"], Item(t))
  /\ UNCHANGED <<dir, builds, starts, stops>>

Unsign(t) ==
  /\ At(t, "unsign")
  /\ sig' = Without(sig, Item(t))
  /\ suspect' = IF \E u \in Tools : AboutToSeal(u, Item(t)) THEN suspect
                ELSE suspect \ {Item(t)}
  /\ GoesOver(t, [tool[t] EXCEPT !.at = "gpg"], Item(t))
  /\ UNCHANGED <<archive, live, draft, alias, builds, starts, stops>>

GpgReads(t) ==
  /\ At(t, "gpg")
  /\ Goes(t, [tool[t] EXCEPT !.at = "seal", !.saw = <<Bytes(Item(t))>>])
  /\ UNCHANGED <<dir, suspect, builds, starts, stops>>

Seal(t) ==
  LET r == [tool[t] EXCEPT !.saw = <<>>] IN
  /\ At(t, "seal")
  /\ sig' = With(sig, Item(t), tool[t].saw[1])
  /\ GoesOver(t, IF Item(t) = "db" THEN [r EXCEPT !.at = "unlink", !.on = "sig"]
                 ELSE Onward(r, Tail(r.todo)), Item(t))
  /\ UNCHANGED <<archive, live, draft, alias, suspect, builds, starts, stops>>

(***************************************************************************)
(* repo-add: every archive is described, and the newest of each package is *)
(* kept.  Its .PKGINFO is read first, its hash and its signature later.    *)
(***************************************************************************)
Present == {f \in Names : archive[f] # 0}
Earliest(S) == Order[Min({i \in DOMAIN Order : Order[i] \in S})]

Scan(t) ==
  /\ At(t, "scan")
  /\ Goes(t, [tool[t] EXCEPT !.at = "describe", !.queue = Present,
                             !.seen = Present \ Broken, !.changed = {}])
  /\ UNCHANGED <<dir, suspect, builds, starts, stops>>

ReadInfo(t) ==
  LET r == tool[t]
      f == Earliest(r.queue) IN
  /\ At(t, "describe") /\ r.queue # {}
  /\ Goes(t, IF f \in Broken THEN [r EXCEPT !.queue = @ \ {f}]
             ELSE [r EXCEPT !.at = "hash", !.reading = archive[f]])
  /\ UNCHANGED <<dir, suspect, builds, starts, stops>>

Described(f, info, hash) ==
  [filename |-> f, info |-> info, hash |-> hash,
   pgpsig |-> IF f \in DOMAIN sig THEN {sig[f]} ELSE {}]

Name(d) == Pkg[d.filename].name
NewerThan(d, e) == Vercmp(Pkg[d.filename].version, Pkg[e.filename].version) > 0

(* Mutant: the archive that sorts last wins.                               *)
LastWins(newest, d) == With(newest, Name(d), d)

KeepNewest(newest, d) ==
  IF Name(d) \in DOMAIN newest /\ ~NewerThan(d, newest[Name(d)])
  THEN newest ELSE With(newest, Name(d), d)

Hash(t) ==
  LET f == Earliest(tool[t].queue) IN
  /\ At(t, "hash")
  /\ \E d \in {Described(f, tool[t].reading, archive[f])} :
       Goes(t, [tool[t] EXCEPT !.at = "describe", !.queue = @ \ {f}, !.reading = 0,
                               !.newest = KeepNewest(@, d)])
  /\ UNCHANGED <<dir, suspect, builds, starts, stops>>

(***************************************************************************)
(* A database is written under a staging name two tools have in common,    *)
(* and a handle stays with its file when the other tool renames it.        *)
(***************************************************************************)
HasDraft(t, d) == tool[t].on = d /\ tool[t].at \in {"fill", "rename"}
Half(shared) == [state |-> "half", list |-> <<>>, shared |-> shared]

Ready(t, d) ==
  \/ d = "db" /\ At(t, "describe") /\ tool[t].queue = {}
  \/ d = "files" /\ At(t, "files") /\ tool[t].files

(* Mutant: the database is written where it is served.                     *)
CreateInPlace(t) ==
  /\ \E d \in {"db", "files"} :
       /\ Ready(t, d)
       /\ live' = With(live, d, Half(FALSE)) /\ draft' = With(draft, d, Half(FALSE))
       /\ Goes(t, [tool[t] EXCEPT !.at = "fill", !.on = d, !.handle = "draft"])
  /\ UNCHANGED <<archive, sig, alias, suspect, builds, starts, stops>>

CreateDraft(t) ==
  /\ \E d \in {"db", "files"} :
       /\ Ready(t, d)
       /\ draft' = With(draft, d, Half(\E u \in Tools \ {t} : HasDraft(u, d)))
       /\ Goes(t, [tool[t] EXCEPT !.at = "fill", !.on = d, !.handle = "draft"])
  /\ UNCHANGED <<archive, sig, live, alias, suspect, builds, starts, stops>>

(* What two tools wrote into one file reads as one listing only by luck.   *)
Filled(content, t) ==
  {[content EXCEPT !.state = s, !.list = tool[t].newest] :
     s \in IF content.shared THEN {"half", "whole"} ELSE {"whole"}}

Fill(t) ==
  LET r == tool[t] IN
  /\ At(t, "fill")
  /\ \/ /\ r.handle = "draft" /\ UNCHANGED live
        /\ \E c \in Filled(draft[r.on], t) : draft' = With(draft, r.on, c)
     \/ /\ r.handle = "live" /\ UNCHANGED draft
        /\ \E c \in Filled(live[r.on], t) : live' = With(live, r.on, c)
     \/ r.handle = "gone" /\ UNCHANGED <<live, draft>>
  /\ Goes(t, [r EXCEPT !.at = "rename", !.handle = "none"])
  /\ UNCHANGED <<archive, sig, alias, suspect, builds, starts, stops>>

Moved(handle) == IF handle = "draft" THEN "live" ELSE IF handle = "live" THEN "gone" ELSE handle

PutInPlace(t) ==
  LET d == tool[t].on IN
  /\ live' = With(live, d, draft[d]) /\ draft' = Without(draft, d)
  /\ tool' = [u \in Tools |->
       IF u = t THEN [tool[t] EXCEPT !.at = "unlink"]
       ELSE IF tool[u].on = d THEN [tool[u] EXCEPT !.handle = Moved(@)] ELSE tool[u]]
  /\ suspect' = IF d = "db" THEN suspect \cup {"db"} ELSE suspect

Rename(t) ==
  /\ At(t, "rename")
  /\ IF tool[t].on \in DOMAIN draft THEN PutInPlace(t)
     ELSE Goes(t, Idle) /\ UNCHANGED <<live, draft, suspect>>    \* nothing to rename
  /\ UNCHANGED <<archive, sig, alias, builds, starts, stops>>

(***************************************************************************)
(* The fetched names.                                                      *)
(***************************************************************************)
Unlink(t) ==
  /\ At(t, "unlink")
  /\ alias' = alias \ {tool[t].on} /\ Goto(t, "link")
  /\ UNCHANGED <<archive, sig, live, draft, suspect, builds, starts, stops>>

AfterFiles(t) ==
  IF tool[t].sign THEN [Idle EXCEPT !.sign = TRUE, !.at = "unsign"] ELSE Idle

Link(t) ==
  LET r == tool[t] IN
  /\ At(t, "link") /\ alias' = alias \cup {r.on}
  /\ Goes(t, IF r.on \in alias THEN Idle          \* another tool linked it meanwhile
             ELSE CASE r.on = "db" -> [r EXCEPT !.at = "files"]
                    [] r.on = "files" -> AfterFiles(t)
                    [] r.on = "sig" -> Idle)
  /\ UNCHANGED <<archive, sig, live, draft, suspect, builds, starts, stops>>

(* --no-files: whatever an earlier run left is removed, file and name.     *)
DropFiles(t) ==
  /\ At(t, "files") /\ ~tool[t].files
  /\ live' = Without(live, "files")
  /\ tool' = [u \in Tools |->
       IF u = t THEN [tool[t] EXCEPT !.at = "unname"]
       ELSE IF tool[u].on = "files" /\ tool[u].handle = "live"
       THEN [tool[u] EXCEPT !.handle = "gone"] ELSE tool[u]]
  /\ UNCHANGED <<archive, sig, draft, alias, suspect, builds, starts, stops>>

DropAlias(t) ==
  /\ At(t, "unname")
  /\ alias' = alias \ {"files"} /\ Goes(t, AfterFiles(t))
  /\ UNCHANGED <<archive, sig, live, draft, suspect, builds, starts, stops>>

(* A failed build, a refusal by zstd or gpg, a full disk, a kill: what was *)
(* done so far stays.                                                      *)
Stop(t) ==
  /\ ~At(t, "idle") /\ stops < MaxStops /\ stops' = stops + 1
  /\ Goes(t, Idle)
  /\ UNCHANGED <<dir, suspect, builds, starts>>

Next == \E t \in Tools :
  \/ Start(t) \/ PlaceArchive(t) \/ Unsign(t) \/ GpgReads(t) \/ Seal(t)
  \/ Scan(t) \/ ReadInfo(t) \/ Hash(t) \/ CreateDraft(t) \/ Fill(t) \/ Rename(t)
  \/ Unlink(t) \/ Link(t) \/ DropFiles(t) \/ DropAlias(t) \/ Stop(t)

Spec == Init /\ [][Next]_vars

(***************************************************************************)
(* Properties.                                                             *)
(***************************************************************************)

(* Other machines never fetch a half-written database, whenever a tool     *)
(* stops, unless two tools had its draft open at once (repodb.rs,          *)
(* write_archive: a half-written database is a sync failure on all of      *)
(* them).                                                                  *)
ServedWhole == \A d \in DOMAIN live : live[d].shared \/ live[d].state = "whole"

Current(d) ==
  /\ d.info = archive[d.filename] /\ d.hash = archive[d.filename]
  /\ d.pgpsig = IF d.filename \in DOMAIN sig THEN {sig[d.filename]} ELSE {}

Best(t, name) ==
  {f \in tool[t].seen : Pkg[f].name = name
     /\ \A g \in tool[t].seen :
          Pkg[g].name = name => Vercmp(Pkg[g].version, Pkg[f].version) <= 0}

(* A database put in place lists exactly the packages of the archives that *)
(* were there when the tool looked, each by an archive no other of them is *)
(* newer than - whatever their names sort like, and although one cannot be *)
(* read; an archive nobody touched since then is listed with the bytes and *)
(* the signature it has (repodb.rs, build: newest wins).                   *)
NewestListed == [][
  \A t \in Tools :
    At(t, "rename") /\ tool[t].on \in DOMAIN draft /\ ~draft[tool[t].on].shared
    /\ Rename(t) =>
      LET list == live'[tool[t].on].list IN
      /\ DOMAIN list = {Pkg[f].name : f \in tool[t].seen}
      /\ \A n \in DOMAIN list :
           /\ list[n].filename \in Best(t, n)
           /\ list[n].filename \notin tool[t].changed => Current(list[n]) ]_vars

(* Once signing has taken the old signature away, what lies beside an      *)
(* archive or the database is a signature of the bytes it has or none at   *)
(* all, wherever the tool stops and whoever builds meanwhile - until new   *)
(* bytes are put in place, or another tool still seals what it read before *)
(* (sign.rs, sign: a stale signature is worse than none).                  *)
SealMatches ==
  \A i \in DOMAIN sig \ suspect : (i = "db" /\ live["db"].shared) \/ sig[i] = Bytes(i)
====

---- MODULE RepositoryProofs ----
(***************************************************************************)
(* Proofs about one output directory that several tools build, sign and    *)
(* describe, for any tools, command lines, archives and stops; and about   *)
(* the order of the versions those archives carry.                         *)
(***************************************************************************)
EXTENDS Repository, FiniteSetTheorems, WellFoundedInduction, TLAPS

Steps == {"idle", "build", "unsign", "gpg", "seal", "scan", "describe", "hash", "fill",
          "rename", "unlink", "link", "files", "unname"}

\* What a tool carries, and what a database file is.
ToolOK(r) ==
  /\ DOMAIN r = DOMAIN Idle
  /\ r.at \in Steps /\ r.todo \in Seq(Names) /\ r.on \in {"db", "files", "sig"}
  /\ r.at = "build" => r.todo # <<>>
  /\ r.at \in {"fill", "rename"} => r.on \in {"db", "files"}
  /\ r.at = "fill" => r.handle \in {"draft", "live", "gone"}
FileOK(f) == DOMAIN f = {"state", "list", "shared"}
Files(files) == DOMAIN files \subseteq {"db", "files"} /\ \A d \in DOMAIN files : FileOK(files[d])
ShapeOK ==
  /\ DOMAIN tool = Tools /\ \A t \in Tools : ToolOK(tool[t])
  /\ DOMAIN archive = Names /\ DOMAIN sig \subseteq Names \cup {"db"}
  /\ Files(live) /\ Files(draft)

\* A tool that is past the database has left one to be fetched.
PastDb(r) ==
  \/ r.at \in {"files", "unname", "unlink", "link"}
  \/ r.at \in {"fill", "rename"} /\ r.on = "files"
  \/ r.at \in {"unsign", "gpg", "seal"} /\ r.todo = <<>>
DbInv ==
  /\ \A t \in Tools : PastDb(tool[t]) => "db" \in DOMAIN live
  /\ "db" \in alias \/ "db" \in DOMAIN sig => "db" \in DOMAIN live

\* A draft two tools have open is marked as one; what a tool still writes into
\* is a draft, or a file another tool put in place under its hands, or nothing.
Opened(t, handle) == At(t, "fill") /\ tool[t].handle = handle
PutWhole ==
  \A d \in DOMAIN draft, t \in Tools :
    At(t, "rename") /\ tool[t].on = d => draft[d].shared \/ draft[d].state = "whole"
ManyShare ==
  \A d \in DOMAIN draft, t, u \in Tools :
    t # u /\ HasDraft(t, d) /\ HasDraft(u, d) => draft[d].shared
HandlesHold ==
  \A t \in Tools :
    /\ Opened(t, "draft") => tool[t].on \in DOMAIN draft
    /\ Opened(t, "live") => tool[t].on \in DOMAIN live /\ live[tool[t].on].shared
    /\ ~Opened(t, "draft") /\ At(t, "fill") /\ tool[t].on \in DOMAIN draft =>
         draft[tool[t].on].shared
DraftInv == PutWhole /\ ManyShare /\ HandlesHold
WholeInv == \A d \in DOMAIN live : live[d].shared \/ live[d].state = "whole"

\* What gpg has read is what it is about to sign, unless that is suspect.
Untouched(i, b) == i \in suspect \/ (i = "db" /\ live["db"].shared) \/ b = Bytes(i)
SealInv ==
  /\ SealMatches
  /\ \A t \in Tools : At(t, "seal") =>
       tool[t].saw = <<tool[t].saw[1]>> /\ Untouched(Item(t), tool[t].saw[1])

Inv == ShapeOK /\ DbInv /\ DraftInv /\ WholeInv /\ SealInv

-----------------------------------------------------------------------------
(* What one step leaves of a tool.                                           *)

\* The steps at which a tool has nothing in hand.
Calm(r) == r.at \in {"idle", "build", "scan", "describe", "hash"}

Same(u) ==
  /\ DOMAIN tool'[u] = DOMAIN Idle
  /\ tool'[u].at = tool[u].at /\ tool'[u].todo = tool[u].todo /\ tool'[u].on = tool[u].on
  /\ tool'[u].saw = tool[u].saw
OthersStand(t) ==
  /\ DOMAIN tool' = Tools
  /\ \A u \in Tools \ {t} : Same(u) /\ tool'[u].handle = tool[u].handle

LEMMA Names_ == "db" \notin Names /\ \A c \in Commands : c.build \in Seq(Names)
<1>1. "db" \notin Names
  BY RepositoryAssumption DEF Names
<1>2. ASSUME NEW c \in Commands PROVE c.build \in Seq(Names)
  <2>1. c.build \in Seq(Names \ Broken)
    BY RepositoryAssumption DEF Names
  <2> QED BY <2>1
<1> QED BY <1>1, <1>2

LEMMA OneMoves ==
  ASSUME ShapeOK, NEW t \in Tools, NEW r, Goes(t, r)
  PROVE  tool'[t] = r /\ OthersStand(t)
  BY DEF Goes, ShapeOK, ToolOK, OthersStand, Same

LEMMA OneMovesOver ==
  ASSUME ShapeOK, NEW t \in Tools, NEW r, NEW f, GoesOver(t, r, f)
  PROVE  tool'[t] = r /\ OthersStand(t)
<1>1. DOMAIN tool' = Tools /\ tool'[t] = r
      /\ \A u \in Tools \ {t} : tool'[u] = [tool[u] EXCEPT !.changed = @ \cup {f}]
  BY DEF GoesOver
<1> QED BY <1>1 DEF ShapeOK, ToolOK, OthersStand, Same, Idle

LEMMA IdleOK == ToolOK(Idle) /\ Calm(Idle)
  BY DEF ToolOK, Idle, Calm, Steps

LEMMA OnwardOK ==
  ASSUME NEW r, DOMAIN r = DOMAIN Idle, r.on \in {"db", "files", "sig"}, NEW todo \in Seq(Names)
  PROVE  ToolOK(Onward(r, todo)) /\ Calm(Onward(r, todo))
<1>1. CASE todo # <<>>
  BY <1>1 DEF Onward, ToolOK, Calm, Idle, Steps
<1>2. CASE todo = <<>> /\ r.add
  BY <1>2 DEF Onward, ToolOK, Calm, Idle, Steps
<1>3. CASE todo = <<>> /\ ~r.add
  BY <1>3, IdleOK DEF Onward
<1> QED BY <1>1, <1>2, <1>3

LEMMA StartMoves ==
  ASSUME ShapeOK, NEW t \in Tools, Start(t)
  PROVE  OthersStand(t) /\ ToolOK(tool'[t]) /\ Calm(tool'[t])
<1> DEFINE q(c, config) ==
      [Idle EXCEPT !.add = c.add, !.files = c.files, !.sign = Signs(c.signing, config)]
<1>1. PICK c \in Commands, config \in Configs : Goes(t, Onward(q(c, config), c.build))
  BY DEF Start
<1> DEFINE r == q(c, config)
<1>2. DOMAIN r = DOMAIN Idle /\ r.on = "db"
  BY DEF Idle
<1>3. Goes(t, Onward(r, c.build))
  BY <1>1
<1>4. ToolOK(Onward(r, c.build)) /\ Calm(Onward(r, c.build))
  BY <1>2, Names_, OnwardOK
<1> HIDE DEF r, q
<1> QED BY <1>3, <1>4, OneMoves

\* A tool at work on an archive is at the head of its list.
LEMMA AtArchive ==
  ASSUME NEW r, ToolOK(r), r.todo # <<>>
  PROVE  /\ Head(r.todo) \in Names /\ Tail(r.todo) \in Seq(Names)
         /\ ToolOK(Onward(r, Tail(r.todo))) /\ Calm(Onward(r, Tail(r.todo)))
<1>1. Head(r.todo) \in Names /\ Tail(r.todo) \in Seq(Names)
  BY DEF ToolOK
<1> QED BY <1>1, OnwardOK DEF ToolOK

LEMMA ArchiveMoves ==
  ASSUME ShapeOK, NEW t \in Tools, PlaceArchive(t)
  PROVE  /\ OthersStand(t) /\ ToolOK(tool'[t])
         /\ Calm(tool'[t]) \/ (tool'[t].at = "unsign" /\ tool'[t].todo # <<>>)
<1> DEFINE r == tool[t]
<1>1. ToolOK(r) /\ r.todo # <<>>
  BY DEF ShapeOK, PlaceArchive, At, ToolOK
<1>2. ToolOK([r EXCEPT !.at = "unsign"]) /\ [r EXCEPT !.at = "unsign"].at = "unsign"
      /\ [r EXCEPT !.at = "unsign"].todo = r.todo
  BY <1>1 DEF ToolOK, Idle, Steps
<1>3. OthersStand(t) /\ tool'[t] \in {[r EXCEPT !.at = "unsign"], Onward(r, Tail(r.todo))}
  BY OneMovesOver DEF PlaceArchive
<1> QED BY <1>1, <1>2, <1>3, AtArchive

LEMMA SignMoves ==
  ASSUME ShapeOK, NEW t \in Tools
  PROVE  /\ Unsign(t) => /\ OthersStand(t) /\ ToolOK(tool'[t]) /\ tool'[t].at = "gpg"
                         /\ tool'[t].todo = tool[t].todo
         /\ GpgReads(t) => /\ OthersStand(t) /\ ToolOK(tool'[t]) /\ tool'[t].at = "seal"
                           /\ tool'[t].todo = tool[t].todo /\ tool'[t].saw = <<Bytes(Item(t))>>
         /\ Seal(t) => /\ OthersStand(t) /\ ToolOK(tool'[t])
                       /\ Calm(tool'[t]) \/ (tool'[t].at = "unlink" /\ Item(t) = "db")
<1> DEFINE r == tool[t]
<1>1. ToolOK(r)
  BY DEF ShapeOK
<1>2. ASSUME Unsign(t)
      PROVE  /\ OthersStand(t) /\ ToolOK(tool'[t]) /\ tool'[t].at = "gpg"
             /\ tool'[t].todo = tool[t].todo
  <2>1. tool'[t] = [r EXCEPT !.at = "gpg"] /\ OthersStand(t)
    BY <1>2, OneMovesOver DEF Unsign
  <2> QED BY <1>1, <2>1 DEF ToolOK, Idle, Steps
<1>3. ASSUME GpgReads(t)
      PROVE  /\ OthersStand(t) /\ ToolOK(tool'[t]) /\ tool'[t].at = "seal"
             /\ tool'[t].todo = tool[t].todo /\ tool'[t].saw = <<Bytes(Item(t))>>
  <2>1. tool'[t] = [r EXCEPT !.at = "seal", !.saw = <<Bytes(Item(t))>>] /\ OthersStand(t)
    BY <1>3, OneMoves DEF GpgReads
  <2> QED BY <1>1, <2>1 DEF ToolOK, Idle, Steps
<1>4. ASSUME Seal(t)
      PROVE  /\ OthersStand(t) /\ ToolOK(tool'[t])
             /\ Calm(tool'[t]) \/ (tool'[t].at = "unlink" /\ Item(t) = "db")
  <2> DEFINE q == [r EXCEPT !.saw = <<>>]
  <2>1. ToolOK(q) /\ q.todo = r.todo
    BY <1>1, <1>4 DEF ToolOK, Idle, Seal, At
  <2>2. CASE Item(t) = "db"
    <3>1. tool'[t] = [q EXCEPT !.at = "unlink", !.on = "sig"] /\ OthersStand(t)
      BY <1>4, <2>2, OneMovesOver DEF Seal
    <3>2. ToolOK(tool'[t]) /\ tool'[t].at = "unlink"
      BY <2>1, <3>1 DEF ToolOK, Idle, Steps
    <3> QED BY <2>2, <3>1, <3>2
  <2>3. CASE Item(t) # "db"
    <3>1. tool'[t] = Onward(q, Tail(r.todo)) /\ OthersStand(t)
      BY <1>4, <2>3, OneMovesOver DEF Seal
    <3>2. r.todo # <<>>
      BY <2>3 DEF Item
    <3>3. ToolOK(Onward(q, Tail(q.todo))) /\ Calm(Onward(q, Tail(q.todo)))
      BY <2>1, <3>2, AtArchive
    <3> QED BY <2>1, <3>1, <3>3
  <2> QED BY <2>2, <2>3
<1> QED BY <1>2, <1>3, <1>4

LEMMA ScanMoves ==
  ASSUME ShapeOK, NEW t \in Tools, Scan(t) \/ ReadInfo(t) \/ Hash(t) \/ Stop(t)
  PROVE  OthersStand(t) /\ ToolOK(tool'[t]) /\ Calm(tool'[t])
<1> DEFINE r == tool[t]
<1>1. ToolOK(r)
  BY DEF ShapeOK
<1>2. CASE Scan(t)
  <2>1. OthersStand(t)
        /\ tool'[t] = [r EXCEPT !.at = "describe", !.queue = Present,
                                !.seen = Present \ Broken, !.changed = {}]
    BY <1>2, OneMoves DEF Scan
  <2> QED BY <1>1, <2>1 DEF ToolOK, Idle, Steps, Calm
<1>3. CASE ReadInfo(t)
  <2>1. /\ OthersStand(t) /\ r.at = "describe"
        /\ tool'[t] \in {[r EXCEPT !.queue = @ \ {Earliest(r.queue)}],
                         [r EXCEPT !.at = "hash", !.reading = archive[Earliest(r.queue)]]}
    BY <1>3, OneMoves DEF ReadInfo, At
  <2> QED BY <1>1, <2>1 DEF ToolOK, Idle, Steps, Calm
<1>4. CASE Hash(t)
  <2>1. PICK d : Goes(t, [r EXCEPT !.at = "describe", !.queue = @ \ {Earliest(r.queue)}, !.reading = 0,
                                   !.newest = KeepNewest(@, d)])
    BY <1>4 DEF Hash
  <2>2. OthersStand(t)
        /\ tool'[t] = [r EXCEPT !.at = "describe", !.queue = @ \ {Earliest(r.queue)}, !.reading = 0,
                                !.newest = KeepNewest(@, d)]
    BY <2>1, OneMoves
  <2> QED BY <1>1, <2>2 DEF ToolOK, Idle, Steps, Calm
<1>5. CASE Stop(t)
  BY <1>5, IdleOK, OneMoves DEF Stop
<1> QED BY <1>2, <1>3, <1>4, <1>5

\* A tool that starts a draft, writes it, or has it put in place.
LEMMA DraftMoves ==
  ASSUME ShapeOK, NEW t \in Tools
  PROVE  /\ \A d \in {"db", "files"} :
              Goes(t, [tool[t] EXCEPT !.at = "fill", !.on = d, !.handle = "draft"]) =>
                /\ OthersStand(t) /\ ToolOK(tool'[t]) /\ tool'[t].at = "fill"
                /\ tool'[t].on = d /\ tool'[t].handle = "draft"
         /\ Fill(t) => /\ OthersStand(t) /\ ToolOK(tool'[t]) /\ tool'[t].at = "rename"
                       /\ tool'[t].on = tool[t].on
<1> DEFINE r == tool[t]
<1>1. ToolOK(r)
  BY DEF ShapeOK
<1>2. ASSUME NEW d \in {"db", "files"}, Goes(t, [r EXCEPT !.at = "fill", !.on = d, !.handle = "draft"])
      PROVE  /\ OthersStand(t) /\ ToolOK(tool'[t]) /\ tool'[t].at = "fill"
             /\ tool'[t].on = d /\ tool'[t].handle = "draft"
  <2>1. tool'[t] = [r EXCEPT !.at = "fill", !.on = d, !.handle = "draft"] /\ OthersStand(t)
    BY <1>2, OneMoves
  <2> QED BY <1>1, <2>1 DEF ToolOK, Idle, Steps
<1>3. ASSUME Fill(t)
      PROVE  /\ OthersStand(t) /\ ToolOK(tool'[t]) /\ tool'[t].at = "rename"
             /\ tool'[t].on = r.on
  <2>1. tool'[t] = [r EXCEPT !.at = "rename", !.handle = "none"] /\ OthersStand(t) /\ r.at = "fill"
    BY <1>3, OneMoves DEF Fill, At
  <2> QED BY <1>1, <2>1 DEF ToolOK, Idle, Steps
<1> QED BY <1>2, <1>3

LEMMA RenameMoves ==
  ASSUME ShapeOK, NEW t \in Tools, Rename(t), tool[t].on \in DOMAIN draft
  PROVE  /\ DOMAIN tool' = Tools /\ ToolOK(tool'[t]) /\ tool'[t].at = "unlink"
         /\ \A u \in Tools \ {t} :
              /\ Same(u)
              /\ tool'[u].handle = IF tool[u].on = tool[t].on THEN Moved(tool[u].handle)
                                   ELSE tool[u].handle
<1>1. \A u \in Tools : ToolOK(tool[u])
  BY DEF ShapeOK
<1>2. /\ DOMAIN tool' = Tools /\ tool'[t] = [tool[t] EXCEPT !.at = "unlink"]
      /\ \A u \in Tools \ {t} :
           tool'[u] = IF tool[u].on = tool[t].on THEN [tool[u] EXCEPT !.handle = Moved(@)] ELSE tool[u]
  BY DEF Rename, PutInPlace
<1>3. ToolOK(tool'[t]) /\ tool'[t].at = "unlink"
  BY <1>1, <1>2 DEF ToolOK, Idle, Steps
<1>4. ASSUME NEW u \in Tools \ {t}
      PROVE  /\ Same(u)
             /\ tool'[u].handle = IF tool[u].on = tool[t].on THEN Moved(tool[u].handle)
                                  ELSE tool[u].handle
  BY <1>1, <1>2 DEF ToolOK, Idle, Same
<1> QED BY <1>2, <1>3, <1>4

LEMMA AfterFilesOK ==
  ASSUME NEW t
  PROVE  /\ ToolOK(AfterFiles(t))
         /\ Calm(AfterFiles(t)) \/ AfterFiles(t).at = "unsign"
  BY IdleOK DEF AfterFiles, ToolOK, Idle, Steps

LEMMA LinkMoves ==
  ASSUME ShapeOK, NEW t \in Tools
  PROVE  /\ Unlink(t) => OthersStand(t) /\ ToolOK(tool'[t]) /\ tool'[t].at = "link"
         /\ Link(t) \/ DropAlias(t) =>
              /\ OthersStand(t) /\ ToolOK(tool'[t])
              /\ Calm(tool'[t]) \/ tool'[t].at \in {"files", "unsign"}
<1> DEFINE r == tool[t]
<1>1. ToolOK(r)
  BY DEF ShapeOK
<1>2. ASSUME Unlink(t) PROVE OthersStand(t) /\ ToolOK(tool'[t]) /\ tool'[t].at = "link"
  BY <1>1, <1>2 DEF Unlink, Goto, ShapeOK, OthersStand, Same, ToolOK, Idle, Steps
<1>3. ToolOK([r EXCEPT !.at = "files"]) /\ [r EXCEPT !.at = "files"].at = "files"
  BY <1>1 DEF ToolOK, Idle, Steps
<1>4. ASSUME Link(t) PROVE OthersStand(t) /\ tool'[t] \in {Idle, [r EXCEPT !.at = "files"], AfterFiles(t)}
  <2>1. CASE r.on \in alias
    BY <1>4, <2>1, OneMoves DEF Link
  <2>2. CASE r.on \notin alias /\ r.on = "db"
    BY <1>4, <2>2, OneMoves DEF Link
  <2>3. CASE r.on \notin alias /\ r.on = "files"
    BY <1>4, <2>3, OneMoves DEF Link
  <2>4. CASE r.on \notin alias /\ r.on = "sig"
    BY <1>4, <2>4, OneMoves DEF Link
  <2> QED BY <1>1, <2>1, <2>2, <2>3, <2>4 DEF ToolOK
<1>5. ASSUME DropAlias(t) PROVE OthersStand(t) /\ tool'[t] = AfterFiles(t)
  BY <1>5, OneMoves DEF DropAlias
<1> QED BY <1>2, <1>3, <1>4, <1>5, IdleOK, AfterFilesOK

LEMMA DropMoves ==
  ASSUME ShapeOK, NEW t \in Tools, DropFiles(t)
  PROVE  /\ DOMAIN tool' = Tools /\ ToolOK(tool'[t]) /\ tool'[t].at = "unname"
         /\ \A u \in Tools \ {t} :
              /\ Same(u)
              /\ tool'[u].handle = IF tool[u].on = "files" /\ tool[u].handle = "live"
                                   THEN "gone" ELSE tool[u].handle
<1>1. \A u \in Tools : ToolOK(tool[u])
  BY DEF ShapeOK
<1>2. /\ DOMAIN tool' = Tools /\ tool'[t] = [tool[t] EXCEPT !.at = "unname"]
      /\ \A u \in Tools \ {t} :
           tool'[u] = IF tool[u].on = "files" /\ tool[u].handle = "live"
                      THEN [tool[u] EXCEPT !.handle = "gone"] ELSE tool[u]
  BY DEF DropFiles
<1>3. ToolOK(tool'[t]) /\ tool'[t].at = "unname"
  BY <1>1, <1>2 DEF ToolOK, Idle, Steps
<1> QED BY <1>1, <1>2, <1>3 DEF ToolOK, Idle, Same

-----------------------------------------------------------------------------
(* The directory keeps its shape.                                            *)

\* Files that come and go.
LEMMA Having ==
  ASSUME NEW f, NEW x, NEW v
  PROVE  /\ DOMAIN With(f, x, v) = DOMAIN f \cup {x} /\ With(f, x, v)[x] = v
         /\ \A y \in DOMAIN f : y # x => With(f, x, v)[y] = f[y]
  BY DEF With

LEMMA Lacking ==
  ASSUME NEW f, NEW x
  PROVE  /\ DOMAIN Without(f, x) = DOMAIN f \ {x}
         /\ \A y \in DOMAIN f \ {x} : Without(f, x)[y] = f[y]
  BY DEF Without, Restrict

LEMMA FilesStay ==
  ASSUME NEW f, Files(f), NEW x
  PROVE  /\ Files(Without(f, x))
         /\ \A v : x \in {"db", "files"} /\ FileOK(v) => Files(With(f, x, v))
<1>1. Files(Without(f, x))
  BY DEF Files, Without, Restrict
<1>2. ASSUME NEW v, x \in {"db", "files"}, FileOK(v) PROVE Files(With(f, x, v))
  <2>1. DOMAIN With(f, x, v) = DOMAIN f \cup {x} /\ With(f, x, v)[x] = v
        /\ \A y \in DOMAIN f : y # x => With(f, x, v)[y] = f[y]
    BY DEF With
  <2>2. ASSUME NEW y \in DOMAIN With(f, x, v)
        PROVE  y \in {"db", "files"} /\ FileOK(With(f, x, v)[y])
    <3>1. CASE y = x
      BY <3>1, <2>1, <1>2
    <3>2. CASE y # x
      BY <3>2, <2>1, <2>2 DEF Files
    <3> QED BY <3>1, <3>2
  <2> QED BY <2>2 DEF Files
<1> QED BY <1>1, <1>2

LEMMA OthersOK ==
  ASSUME ShapeOK, NEW u \in Tools, Same(u),
         tool'[u].handle \in {tool[u].handle, Moved(tool[u].handle), "gone"}
  PROVE  ToolOK(tool'[u])
  BY DEF ShapeOK, ToolOK, Same, Moved

\* What is written into a draft, or into a file already in place.
LEMMA FilledOK ==
  ASSUME NEW f, FileOK(f), NEW t, NEW c \in Filled(f, t)
  PROVE  FileOK(c) /\ c.shared = f.shared /\ (~f.shared => c.state = "whole")
<1>1. PICK s \in IF f.shared THEN {"half", "whole"} ELSE {"whole"} :
        c = [f EXCEPT !.state = s, !.list = tool[t].newest]
  BY DEF Filled
<1>2. FileOK(c) /\ c.shared = f.shared /\ c.state = s
  BY <1>1 DEF FileOK
<1> QED BY <1>1, <1>2

\* What Fill does to one of the two files, by the handle.
LEMMA FillWrites ==
  ASSUME ShapeOK, DraftInv, NEW t \in Tools, Fill(t)
  PROVE  /\ \/ /\ tool[t].handle = "draft" /\ UNCHANGED live /\ tool[t].on \in DOMAIN draft
               /\ \E c \in Filled(draft[tool[t].on], t) : draft' = With(draft, tool[t].on, c)
            \/ /\ tool[t].handle = "live" /\ UNCHANGED draft /\ tool[t].on \in DOMAIN live
               /\ live[tool[t].on].shared
               /\ \E c \in Filled(live[tool[t].on], t) : live' = With(live, tool[t].on, c)
            \/ tool[t].handle = "gone" /\ UNCHANGED <<live, draft>>
         /\ At(t, "fill") /\ UNCHANGED <<archive, sig, alias, suspect>>
  BY DEF Fill, DraftInv, HandlesHold, Opened

LEMMA ToolsStep ==
  ASSUME ShapeOK, NEW t \in Tools,
         \/ Start(t) \/ PlaceArchive(t) \/ Unsign(t) \/ GpgReads(t) \/ Seal(t)
         \/ Scan(t) \/ ReadInfo(t) \/ Hash(t) \/ CreateDraft(t) \/ Fill(t) \/ Rename(t)
         \/ Unlink(t) \/ Link(t) \/ DropFiles(t) \/ DropAlias(t) \/ Stop(t)
  PROVE  DOMAIN tool' = Tools /\ \A u \in Tools : ToolOK(tool'[u])
<1>1. CASE \/ Start(t) \/ PlaceArchive(t) \/ Unsign(t) \/ GpgReads(t) \/ Seal(t)
           \/ Scan(t) \/ ReadInfo(t) \/ Hash(t) \/ Fill(t)
           \/ Unlink(t) \/ Link(t) \/ DropAlias(t) \/ Stop(t)
  <2>1. OthersStand(t) /\ ToolOK(tool'[t])
    BY <1>1, StartMoves, ArchiveMoves, SignMoves, ScanMoves, DraftMoves, LinkMoves
  <2> QED BY <2>1, OthersOK DEF OthersStand
<1>2. CASE CreateDraft(t)
  <2>1. OthersStand(t) /\ ToolOK(tool'[t])
    BY <1>2, DraftMoves DEF CreateDraft
  <2> QED BY <2>1, OthersOK DEF OthersStand
<1>3. CASE Rename(t)
  <2>1. CASE tool[t].on \in DOMAIN draft
    BY <1>3, <2>1, RenameMoves, OthersOK
  <2>2. CASE tool[t].on \notin DOMAIN draft
    <3>1. OthersStand(t) /\ tool'[t] = Idle
      BY <1>3, <2>2, OneMoves DEF Rename
    <3> QED BY <3>1, IdleOK, OthersOK DEF OthersStand
  <2> QED BY <2>1, <2>2
<1>4. CASE DropFiles(t)
  BY <1>4, DropMoves, OthersOK
<1> QED BY <1>1, <1>2, <1>3, <1>4

LEMMA ShapeStep == ShapeOK /\ DraftInv /\ [Next]_vars => ShapeOK'
<1> SUFFICES ASSUME ShapeOK, DraftInv, [Next]_vars PROVE ShapeOK'
  OBVIOUS
<1> USE DEF dir
<1>1. CASE UNCHANGED vars
  BY <1>1 DEF vars, ShapeOK
<1>2. ASSUME NEW t \in Tools,
             \/ Start(t) \/ GpgReads(t) \/ Scan(t) \/ ReadInfo(t) \/ Hash(t)
             \/ Unlink(t) \/ Link(t) \/ DropAlias(t) \/ Stop(t)
      PROVE  ShapeOK'
  <2>1. UNCHANGED <<archive, sig, live, draft>>
    BY <1>2 DEF Start, GpgReads, Scan, ReadInfo, Hash, Unlink, Link, DropAlias, Stop
  <2>2. DOMAIN tool' = Tools /\ \A u \in Tools : ToolOK(tool'[u])
    BY <1>2, ToolsStep
  <2> QED BY <2>1, <2>2 DEF ShapeOK
<1>3. ASSUME NEW t \in Tools, PlaceArchive(t) PROVE ShapeOK'
  <2>1. DOMAIN tool' = Tools /\ \A u \in Tools : ToolOK(tool'[u])
    BY <1>3, ToolsStep
  <2> QED BY <1>3, <2>1 DEF PlaceArchive, ShapeOK
<1>4. ASSUME NEW t \in Tools, Unsign(t) \/ Seal(t) PROVE ShapeOK'
  <2>1. DOMAIN tool' = Tools /\ \A u \in Tools : ToolOK(tool'[u])
    BY <1>4, ToolsStep
  <2>2. Item(t) \in Names \cup {"db"}
    BY AtArchive DEF Item, ShapeOK
  <2>3. DOMAIN sig' \subseteq DOMAIN sig \cup {Item(t)}
    <3>1. CASE Unsign(t)
      <4>1. sig' = Without(sig, Item(t))
        BY <3>1 DEF Unsign
      <4>2. DOMAIN sig' = DOMAIN sig \ {Item(t)}
        BY <4>1, Lacking
      <4> QED BY <4>2
    <3>2. CASE Seal(t)
      <4>1. sig' = With(sig, Item(t), tool[t].saw[1])
        BY <3>2 DEF Seal
      <4>2. DOMAIN sig' = DOMAIN sig \cup {Item(t)}
        BY <4>1, Having
      <4> QED BY <4>2
    <3> QED BY <1>4, <3>1, <3>2
  <2>4. UNCHANGED <<archive, live, draft>>
    BY <1>4 DEF Unsign, Seal
  <2> QED BY <2>1, <2>2, <2>3, <2>4 DEF ShapeOK
<1>5. ASSUME NEW t \in Tools, CreateDraft(t) PROVE ShapeOK'
  <2>1. DOMAIN tool' = Tools /\ \A u \in Tools : ToolOK(tool'[u])
    BY <1>5, ToolsStep
  <2>2. PICK d \in {"db", "files"} : \E b : draft' = With(draft, d, Half(b))
    BY <1>5 DEF CreateDraft
  <2>3. PICK b : draft' = With(draft, d, Half(b))
    BY <2>2
  <2>4. FileOK(Half(b))
    BY DEF FileOK, Half
  <2>5. Files(draft')
    BY <2>3, <2>4, FilesStay DEF ShapeOK
  <2> QED BY <1>5, <2>1, <2>5 DEF CreateDraft, ShapeOK
<1>6. ASSUME NEW t \in Tools, Fill(t) PROVE ShapeOK'
  <2>1. DOMAIN tool' = Tools /\ \A u \in Tools : ToolOK(tool'[u])
    BY <1>6, ToolsStep
  <2>2. tool[t].on \in {"db", "files"}
    BY <1>6 DEF Fill, At, ShapeOK, ToolOK
  <2>3. CASE tool[t].on \in DOMAIN draft /\ UNCHANGED live
             /\ \E c \in Filled(draft[tool[t].on], t) : draft' = With(draft, tool[t].on, c)
    <3>1. PICK c \in Filled(draft[tool[t].on], t) : draft' = With(draft, tool[t].on, c)
      BY <2>3
    <3>2. FileOK(draft[tool[t].on])
      BY <2>3 DEF ShapeOK, Files
    <3>3. FileOK(c)
      BY <3>2, FilledOK
    <3>4. Files(draft')
      BY <2>2, <3>1, <3>3, FilesStay DEF ShapeOK
    <3> QED BY <2>1, <2>3, <3>4, <1>6, FillWrites DEF ShapeOK
  <2>4. CASE tool[t].on \in DOMAIN live /\ UNCHANGED draft
             /\ \E c \in Filled(live[tool[t].on], t) : live' = With(live, tool[t].on, c)
    <3>1. PICK c \in Filled(live[tool[t].on], t) : live' = With(live, tool[t].on, c)
      BY <2>4
    <3>2. FileOK(live[tool[t].on])
      BY <2>4 DEF ShapeOK, Files
    <3>3. FileOK(c)
      BY <3>2, FilledOK
    <3>4. Files(live')
      BY <2>2, <3>1, <3>3, FilesStay DEF ShapeOK
    <3> QED BY <2>1, <2>4, <3>4, <1>6, FillWrites DEF ShapeOK
  <2>5. CASE UNCHANGED <<live, draft>>
    BY <2>1, <2>5, <1>6, FillWrites DEF ShapeOK
  <2> QED BY <1>6, <2>3, <2>4, <2>5, FillWrites
<1>7. ASSUME NEW t \in Tools, Rename(t) PROVE ShapeOK'
  <2>1. DOMAIN tool' = Tools /\ \A u \in Tools : ToolOK(tool'[u])
    BY <1>7, ToolsStep
  <2>2. tool[t].on \in {"db", "files"}
    BY <1>7 DEF Rename, At, ShapeOK, ToolOK
  <2>3. UNCHANGED <<archive, sig>>
    BY <1>7 DEF Rename
  <2>4. CASE tool[t].on \in DOMAIN draft
    <3>1. live' = With(live, tool[t].on, draft[tool[t].on]) /\ draft' = Without(draft, tool[t].on)
      BY <1>7, <2>4 DEF Rename, PutInPlace
    <3>2. FileOK(draft[tool[t].on])
      BY <2>4 DEF ShapeOK, Files
    <3>3. Files(live') /\ Files(draft')
      BY <2>2, <3>1, <3>2, FilesStay DEF ShapeOK
    <3> QED BY <2>1, <2>3, <3>3 DEF ShapeOK
  <2>5. CASE tool[t].on \notin DOMAIN draft
    BY <1>7, <2>1, <2>3, <2>5 DEF Rename, ShapeOK
  <2> QED BY <2>4, <2>5
<1>8. ASSUME NEW t \in Tools, DropFiles(t) PROVE ShapeOK'
  <2>1. DOMAIN tool' = Tools /\ \A u \in Tools : ToolOK(tool'[u])
    BY <1>8, ToolsStep
  <2>2. live' = Without(live, "files") /\ UNCHANGED <<archive, sig, draft>>
    BY <1>8 DEF DropFiles
  <2>3. Files(live')
    BY <2>2, FilesStay DEF ShapeOK
  <2> QED BY <2>1, <2>2, <2>3 DEF ShapeOK
<1> QED BY <1>1, <1>2, <1>3, <1>4, <1>5, <1>6, <1>7, <1>8 DEF Next

-----------------------------------------------------------------------------
(* Once there is a database to fetch, there always is one.                   *)

LEMMA DbStays ==
  ASSUME ShapeOK, Next, "db" \in DOMAIN live
  PROVE  "db" \in DOMAIN live'
<1> USE DEF dir
<1>1. ASSUME NEW t \in Tools,
             \/ Start(t) \/ PlaceArchive(t) \/ Unsign(t) \/ GpgReads(t) \/ Seal(t)
             \/ Scan(t) \/ ReadInfo(t) \/ Hash(t) \/ CreateDraft(t)
             \/ Unlink(t) \/ Link(t) \/ DropAlias(t) \/ Stop(t)
      PROVE  live' = live
  BY <1>1 DEF Start, PlaceArchive, Unsign, GpgReads, Seal, Scan, ReadInfo, Hash, CreateDraft,
              Unlink, Link, DropAlias, Stop
<1>2. ASSUME NEW t \in Tools, Fill(t) \/ Rename(t)
      PROVE  live' = live \/ \E x, v : live' = With(live, x, v)
  BY <1>2 DEF Fill, Rename, PutInPlace
<1>3. ASSUME NEW x, NEW v, live' = With(live, x, v) PROVE "db" \in DOMAIN live'
  <2>1. DOMAIN With(live, x, v) = DOMAIN live \cup {x}
    BY Having
  <2> QED BY <1>3, <2>1
<1>4. ASSUME NEW t \in Tools, DropFiles(t) PROVE "db" \in DOMAIN live'
  <2>1. live' = Without(live, "files") /\ DOMAIN Without(live, "files") = DOMAIN live \ {"files"}
    BY <1>4, Lacking DEF DropFiles
  <2> QED BY <2>1
<1> QED BY <1>1, <1>2, <1>3, <1>4 DEF Next

LEMMA PastDbStep ==
  ASSUME ShapeOK, NEW t \in Tools,
         \/ Start(t) \/ PlaceArchive(t) \/ Unsign(t) \/ GpgReads(t) \/ Seal(t)
         \/ Scan(t) \/ ReadInfo(t) \/ Hash(t) \/ CreateDraft(t) \/ Fill(t) \/ Rename(t)
         \/ Unlink(t) \/ Link(t) \/ DropFiles(t) \/ DropAlias(t) \/ Stop(t)
  PROVE  /\ \A u \in Tools \ {t} : Same(u)
         /\ PastDb(tool'[t]) => PastDb(tool[t]) \/ "db" \in DOMAIN live'
<1> ToolOK(tool[t])
  BY DEF ShapeOK
<1>1. CASE \/ Start(t) \/ Scan(t) \/ ReadInfo(t) \/ Hash(t) \/ Stop(t)
  <2>1. OthersStand(t) /\ Calm(tool'[t])
    BY <1>1, StartMoves, ScanMoves
  <2> QED BY <2>1 DEF OthersStand, Calm, PastDb
<1>2. CASE PlaceArchive(t)
  BY <1>2, ArchiveMoves DEF OthersStand, Calm, PastDb
<1>3. CASE Unsign(t) \/ GpgReads(t)
  <2>1. /\ OthersStand(t) /\ tool'[t].at \in {"gpg", "seal"} /\ tool'[t].todo = tool[t].todo
        /\ tool[t].at \in {"unsign", "gpg"}
    BY <1>3, SignMoves DEF Unsign, GpgReads, At
  <2> QED BY <2>1 DEF OthersStand, PastDb
<1>4. CASE Seal(t)
  <2>1. OthersStand(t) /\ (Calm(tool'[t]) \/ (tool'[t].at = "unlink" /\ Item(t) = "db"))
        /\ tool[t].at = "seal"
    BY <1>4, SignMoves DEF Seal, At
  <2>2. Item(t) = "db" => tool[t].todo = <<>>
    BY AtArchive, Names_ DEF Item
  <2> QED BY <2>1, <2>2 DEF OthersStand, Calm, PastDb
<1>5. CASE CreateDraft(t)
  <2>1. PICK d \in {"db", "files"} :
             Ready(t, d) /\ Goes(t, [tool[t] EXCEPT !.at = "fill", !.on = d, !.handle = "draft"])
    BY <1>5 DEF CreateDraft
  <2>2. OthersStand(t) /\ tool'[t].at = "fill" /\ tool'[t].on = d
    BY <2>1, DraftMoves
  <2>3. d = "files" => tool[t].at = "files"
    BY <2>1 DEF Ready, At
  <2> QED BY <2>2, <2>3 DEF OthersStand, PastDb
<1>6. CASE Fill(t)
  <2>1. OthersStand(t) /\ tool'[t].at = "rename" /\ tool'[t].on = tool[t].on /\ tool[t].at = "fill"
    BY <1>6, DraftMoves DEF Fill, At
  <2> QED BY <2>1 DEF OthersStand, PastDb
<1>7. CASE Rename(t)
  <2>1. CASE tool[t].on \in DOMAIN draft
    <3>1. live' = With(live, tool[t].on, draft[tool[t].on]) /\ tool[t].at = "rename"
      BY <1>7, <2>1 DEF Rename, PutInPlace, At
    <3>2. tool[t].on \in DOMAIN live'
      <4>1. DOMAIN live' = DOMAIN live \cup {tool[t].on}
        BY <3>1 DEF With
      <4> QED BY <4>1
    <3>3. tool[t].on = "files" => PastDb(tool[t])
      BY <3>1 DEF PastDb
    <3>4. tool[t].on \in {"db", "files"}
      BY <3>1 DEF ToolOK
    <3> QED BY <1>7, <2>1, <3>2, <3>3, <3>4, RenameMoves
  <2>2. CASE tool[t].on \notin DOMAIN draft
    <3>1. OthersStand(t) /\ tool'[t] = Idle
      BY <1>7, <2>2, OneMoves DEF Rename
    <3> QED BY <3>1 DEF OthersStand, PastDb, Idle
  <2> QED BY <2>1, <2>2
<1>8. CASE Unlink(t) \/ Link(t) \/ DropAlias(t)
  <2>1. OthersStand(t) /\ tool[t].at \in {"unlink", "link", "unname"}
    BY <1>8, LinkMoves DEF Unlink, Link, DropAlias, At
  <2> QED BY <2>1 DEF OthersStand, PastDb
<1>9. CASE DropFiles(t)
  <2>1. tool[t].at = "files"
    BY <1>9 DEF DropFiles, At
  <2> QED BY <1>9, <2>1, DropMoves DEF PastDb
<1> QED BY <1>1, <1>2, <1>3, <1>4, <1>5, <1>6, <1>7, <1>8, <1>9

LEMMA NamesStep ==
  ASSUME ShapeOK, DbInv, NEW t \in Tools,
         \/ Start(t) \/ PlaceArchive(t) \/ Unsign(t) \/ GpgReads(t) \/ Seal(t)
         \/ Scan(t) \/ ReadInfo(t) \/ Hash(t) \/ CreateDraft(t) \/ Fill(t) \/ Rename(t)
         \/ Unlink(t) \/ Link(t) \/ DropFiles(t) \/ DropAlias(t) \/ Stop(t)
  PROVE  "db" \in alias' \/ "db" \in DOMAIN sig' => "db" \in DOMAIN live
<1> USE DEF dir
<1> ToolOK(tool[t])
  BY DEF ShapeOK
<1>1. CASE Link(t)
  <2>1. alias' = alias \cup {tool[t].on} /\ sig' = sig /\ PastDb(tool[t])
    BY <1>1 DEF Link, At, PastDb
  <2> QED BY <2>1 DEF DbInv
<1>2. CASE Unlink(t) \/ DropAlias(t)
  <2>1. alias' \subseteq alias /\ sig' = sig
    BY <1>2 DEF Unlink, DropAlias
  <2> QED BY <2>1 DEF DbInv
<1>3. CASE Unsign(t)
  <2>1. alias' = alias /\ sig' = Without(sig, Item(t))
    BY <1>3 DEF Unsign
  <2>2. DOMAIN sig' \subseteq DOMAIN sig
    BY <2>1, Lacking
  <2> QED BY <2>1, <2>2 DEF DbInv
<1>4. CASE Seal(t)
  <2>1. alias' = alias /\ sig' = With(sig, Item(t), tool[t].saw[1]) /\ tool[t].at = "seal"
    BY <1>4 DEF Seal, At
  <2>2. DOMAIN sig' = DOMAIN sig \cup {Item(t)}
    BY <2>1, Having
  <2>3. Item(t) = "db" => PastDb(tool[t])
    BY <2>1, AtArchive, Names_ DEF Item, PastDb
  <2> QED BY <2>1, <2>2, <2>3 DEF DbInv
<1>5. CASE \/ Start(t) \/ PlaceArchive(t) \/ GpgReads(t) \/ Scan(t) \/ ReadInfo(t) \/ Hash(t)
           \/ CreateDraft(t) \/ Fill(t) \/ Rename(t) \/ DropFiles(t) \/ Stop(t)
  <2>1. alias' = alias /\ sig' = sig
    BY <1>5 DEF Start, PlaceArchive, GpgReads, Scan, ReadInfo, Hash, CreateDraft, Fill, Rename,
                DropFiles, Stop
  <2> QED BY <2>1 DEF DbInv
<1> QED BY <1>1, <1>2, <1>3, <1>4, <1>5

LEMMA DbStep == ShapeOK /\ ShapeOK' /\ DbInv /\ [Next]_vars => DbInv'
<1> SUFFICES ASSUME ShapeOK, ShapeOK', DbInv, [Next]_vars PROVE DbInv'
  OBVIOUS
<1>1. CASE UNCHANGED vars
  BY <1>1 DEF vars, dir, DbInv
<1>2. CASE Next
  <2>1. PICK t \in Tools :
         \/ Start(t) \/ PlaceArchive(t) \/ Unsign(t) \/ GpgReads(t) \/ Seal(t)
         \/ Scan(t) \/ ReadInfo(t) \/ Hash(t) \/ CreateDraft(t) \/ Fill(t) \/ Rename(t)
         \/ Unlink(t) \/ Link(t) \/ DropFiles(t) \/ DropAlias(t) \/ Stop(t)
    BY <1>2 DEF Next
  <2>2. "db" \in alias' \/ "db" \in DOMAIN sig' => "db" \in DOMAIN live'
    BY <1>2, <2>1, NamesStep, DbStays
  <2>3. ASSUME NEW u \in Tools, PastDb(tool'[u]) PROVE "db" \in DOMAIN live'
    <3>1. CASE u = t
      BY <1>2, <2>1, <2>3, <3>1, PastDbStep, DbStays DEF DbInv
    <3>2. CASE u # t
      <4>1. Same(u)
        BY <2>1, <3>2, PastDbStep
      <4>2. PastDb(tool[u])
        BY <2>3, <4>1 DEF Same, PastDb
      <4> QED BY <1>2, <4>2, DbStays DEF DbInv
    <3> QED BY <3>1, <3>2
  <2> QED BY <2>2, <2>3 DEF DbInv
<1> QED BY <1>1, <1>2

-----------------------------------------------------------------------------
(* Drafts.                                                                   *)

LEMMA DraftKept ==
  ASSUME DraftInv, NEW t \in Tools, OthersStand(t), UNCHANGED <<live, draft>>,
         tool'[t].at \notin {"fill", "rename"}
  PROVE  DraftInv'
<1>1. PutWhole'
  BY DEF DraftInv, PutWhole, At, OthersStand, Same
<1>2. ManyShare'
  BY DEF DraftInv, ManyShare, HasDraft, OthersStand, Same
<1>3. HandlesHold'
  BY DEF DraftInv, HandlesHold, Opened, At, OthersStand, Same
<1> QED BY <1>1, <1>2, <1>3 DEF DraftInv

LEMMA CreateKeepsDrafts ==
  ASSUME ShapeOK, DraftInv, NEW t \in Tools, CreateDraft(t)
  PROVE  DraftInv'
<1>1. PICK d \in {"db", "files"} :
        /\ Ready(t, d) /\ draft' = With(draft, d, Half(\E u \in Tools \ {t} : HasDraft(u, d)))
        /\ Goes(t, [tool[t] EXCEPT !.at = "fill", !.on = d, !.handle = "draft"])
  BY DEF CreateDraft
<1>2. OthersStand(t) /\ tool'[t].at = "fill" /\ tool'[t].on = d /\ tool'[t].handle = "draft"
  BY <1>1, DraftMoves
<1>3. /\ DOMAIN draft' = DOMAIN draft \cup {d}
      /\ \A e \in DOMAIN draft : e # d => draft'[e] = draft[e]
      /\ draft'[d] = Half(\E u \in Tools \ {t} : HasDraft(u, d))
  BY <1>1 DEF With
<1>4. draft'[d].shared = (\E u \in Tools \ {t} : HasDraft(u, d))
  BY <1>3 DEF Half
<1>5. live' = live /\ tool[t].at \in {"describe", "files"}
  BY <1>1 DEF CreateDraft, Ready, At
<1>6. \A u \in Tools \ {t} : \A e : HasDraft(u, e)' <=> HasDraft(u, e)
  BY <1>2 DEF HasDraft, OthersStand, Same
<1>7. \A u \in Tools \ {t} : HasDraft(u, d) => draft'[d].shared
  BY <1>4
<1>8. PutWhole'
  <2> SUFFICES ASSUME NEW e \in DOMAIN draft', NEW u \in Tools, tool'[u].at = "rename", tool'[u].on = e
               PROVE  draft'[e].shared \/ draft'[e].state = "whole"
    BY DEF PutWhole, At
  <2>1. u # t /\ tool[u].at = "rename" /\ tool[u].on = e
    BY <1>2 DEF OthersStand, Same
  <2>2. CASE e = d
    BY <1>7, <2>1, <2>2 DEF HasDraft
  <2>3. CASE e # d
    BY <1>3, <2>1, <2>3 DEF DraftInv, PutWhole, At
  <2> QED BY <2>2, <2>3
<1>9. ManyShare'
  <2> SUFFICES ASSUME NEW e \in DOMAIN draft', NEW u \in Tools, NEW v \in Tools,
                      u # v, HasDraft(u, e)', HasDraft(v, e)'
               PROVE  draft'[e].shared
    BY DEF ManyShare
  <2>1. CASE e = d
    BY <1>6, <1>7, <2>1
  <2>2. CASE e # d
    <3>1. u # t /\ v # t
      BY <1>2, <2>2 DEF HasDraft
    <3> QED BY <1>3, <1>6, <2>2, <3>1 DEF DraftInv, ManyShare
  <2> QED BY <2>1, <2>2
<1>10. HandlesHold'
  <2> SUFFICES ASSUME NEW u \in Tools, tool'[u].at = "fill"
               PROVE  /\ tool'[u].handle = "draft" => tool'[u].on \in DOMAIN draft'
                      /\ tool'[u].handle = "live" =>
                           tool'[u].on \in DOMAIN live' /\ live'[tool'[u].on].shared
                      /\ tool'[u].handle # "draft" /\ tool'[u].on \in DOMAIN draft' =>
                           draft'[tool'[u].on].shared
    BY DEF HandlesHold, Opened, At
  <2>1. CASE u = t
    BY <1>2, <1>3, <2>1
  <2>2. CASE u # t
    <3>1. tool[u].at = "fill" /\ tool'[u].on = tool[u].on /\ tool'[u].handle = tool[u].handle
      BY <1>2, <2>2 DEF OthersStand, Same
    <3>2. tool[u].on = d => draft'[d].shared
      BY <1>7, <2>2, <3>1 DEF HasDraft
    <3> QED BY <1>3, <1>5, <3>1, <3>2 DEF DraftInv, HandlesHold, Opened, At
  <2> QED BY <2>1, <2>2
<1> QED BY <1>8, <1>9, <1>10 DEF DraftInv

\* What Fill leaves of a file: the one it wrote keeps its mark and is whole unless shared.
Rewritten(old, new) ==
  /\ DOMAIN new = DOMAIN old /\ \A e \in DOMAIN old : new[e].shared = old[e].shared
  /\ \A e \in DOMAIN old : old[e].state = "whole" \/ old[e].shared =>
       new[e].state = "whole" \/ new[e].shared

LEMMA FillRewrites ==
  ASSUME ShapeOK, DraftInv, NEW t \in Tools, Fill(t)
  PROVE  /\ Rewritten(draft, draft') /\ Rewritten(live, live')
         /\ tool[t].handle = "draft" =>
              draft'[tool[t].on].shared \/ draft'[tool[t].on].state = "whole"
         /\ At(t, "fill") /\ tool[t].handle \in {"draft", "live", "gone"}
<1> DEFINE d == tool[t].on
<1>1. ASSUME NEW f, Files(f), d \in DOMAIN f, NEW c \in Filled(f[d], t)
      PROVE  Rewritten(f, With(f, d, c)) /\ (c.shared \/ c.state = "whole")
             /\ With(f, d, c)[d] = c
  <2>1. c.shared = f[d].shared /\ (~f[d].shared => c.state = "whole")
    BY <1>1, FilledOK DEF Files
  <2>2. /\ DOMAIN With(f, d, c) = DOMAIN f \cup {d} /\ With(f, d, c)[d] = c
        /\ \A e \in DOMAIN f : e # d => With(f, d, c)[e] = f[e]
    BY DEF With
  <2>3. DOMAIN f \cup {d} = DOMAIN f
    BY <1>1
  <2> HIDE DEF d
  <2> QED BY <2>1, <2>2, <2>3 DEF Rewritten
<1>2. Rewritten(draft, draft) /\ Rewritten(live, live)
  BY DEF Rewritten
<1>3. Files(draft) /\ Files(live)
  BY DEF ShapeOK
<1>4. CASE /\ tool[t].handle = "draft" /\ UNCHANGED live /\ d \in DOMAIN draft
           /\ \E c \in Filled(draft[d], t) : draft' = With(draft, d, c)
  <2>1. PICK c \in Filled(draft[d], t) : draft' = With(draft, d, c)
    BY <1>4
  <2>2. Rewritten(draft, With(draft, d, c)) /\ (c.shared \/ c.state = "whole") /\ With(draft, d, c)[d] = c
    BY <1>1, <1>3, <1>4
  <2> QED BY <1>2, <1>4, <2>1, <2>2, FillWrites
<1>5. CASE /\ tool[t].handle = "live" /\ UNCHANGED draft /\ d \in DOMAIN live
           /\ \E c \in Filled(live[d], t) : live' = With(live, d, c)
  <2>1. PICK c \in Filled(live[d], t) : live' = With(live, d, c)
    BY <1>5
  <2>2. Rewritten(live, With(live, d, c))
    BY <1>1, <1>3, <1>5
  <2> QED BY <1>2, <1>5, <2>1, <2>2, FillWrites
<1>6. CASE tool[t].handle = "gone" /\ UNCHANGED <<live, draft>>
  BY <1>2, <1>6, FillWrites
<1> QED BY <1>4, <1>5, <1>6, FillWrites

LEMMA FillKeepsDrafts ==
  ASSUME ShapeOK, DraftInv, NEW t \in Tools, Fill(t)
  PROVE  DraftInv'
<1> DEFINE d == tool[t].on
<1>1. OthersStand(t) /\ tool'[t].at = "rename" /\ tool'[t].on = d /\ tool[t].at = "fill"
  BY DraftMoves DEF Fill, At
<1>2. /\ Rewritten(draft, draft') /\ Rewritten(live, live')
      /\ tool[t].handle = "draft" => draft'[d].shared \/ draft'[d].state = "whole"
  BY FillRewrites
<1>3. \A u \in Tools : \A e : HasDraft(u, e)' <=> HasDraft(u, e)
  BY <1>1 DEF HasDraft, OthersStand, Same
<1>4. PutWhole'
  <2> SUFFICES ASSUME NEW e \in DOMAIN draft', NEW u \in Tools, tool'[u].at = "rename", tool'[u].on = e
               PROVE  draft'[e].shared \/ draft'[e].state = "whole"
    BY DEF PutWhole, At
  <2>1. e \in DOMAIN draft
    BY <1>2 DEF Rewritten
  <2>2. CASE u = t /\ tool[t].handle = "draft"
    BY <1>1, <1>2, <2>2
  <2>3. CASE u = t /\ tool[t].handle # "draft"
    <3>1. draft[e].shared
      BY <1>1, <2>1, <2>3 DEF DraftInv, HandlesHold, Opened, At
    <3> QED BY <1>2, <2>1, <3>1 DEF Rewritten
  <2>4. CASE u # t
    <3>1. draft[e].shared \/ draft[e].state = "whole"
      BY <1>1, <2>1, <2>4 DEF DraftInv, PutWhole, At, OthersStand, Same
    <3> QED BY <1>2, <2>1, <3>1 DEF Rewritten
  <2> QED BY <2>2, <2>3, <2>4
<1>5. ManyShare'
  BY <1>2, <1>3 DEF DraftInv, ManyShare, Rewritten
<1>6. HandlesHold'
  <2> SUFFICES ASSUME NEW u \in Tools, tool'[u].at = "fill"
               PROVE  /\ tool'[u].handle = "draft" => tool'[u].on \in DOMAIN draft'
                      /\ tool'[u].handle = "live" =>
                           tool'[u].on \in DOMAIN live' /\ live'[tool'[u].on].shared
                      /\ tool'[u].handle # "draft" /\ tool'[u].on \in DOMAIN draft' =>
                           draft'[tool'[u].on].shared
    BY DEF HandlesHold, Opened, At
  <2>1. u # t /\ tool[u].at = "fill" /\ tool'[u].on = tool[u].on /\ tool'[u].handle = tool[u].handle
    BY <1>1 DEF OthersStand, Same
  <2> QED BY <1>2, <2>1 DEF DraftInv, HandlesHold, Opened, At, Rewritten
<1> QED BY <1>4, <1>5, <1>6 DEF DraftInv

LEMMA RenameKeepsDrafts ==
  ASSUME ShapeOK, DraftInv, NEW t \in Tools, Rename(t), tool[t].on \in DOMAIN draft
  PROVE  DraftInv'
<1> DEFINE d == tool[t].on
<1>1. live' = With(live, d, draft[d]) /\ draft' = Without(draft, d) /\ tool[t].at = "rename"
  BY DEF Rename, PutInPlace, At
<1>2. /\ tool'[t].at = "unlink"
      /\ \A u \in Tools \ {t} :
           Same(u) /\ tool'[u].handle = IF tool[u].on = d THEN Moved(tool[u].handle) ELSE tool[u].handle
  BY RenameMoves
<1>3. DOMAIN draft' = DOMAIN draft \ {d} /\ \A e \in DOMAIN draft \ {d} : draft'[e] = draft[e]
  BY <1>1 DEF Without, Restrict
<1>4. /\ DOMAIN live' = DOMAIN live \cup {d} /\ live'[d] = draft[d]
      /\ \A e \in DOMAIN live : e # d => live'[e] = live[e]
  BY <1>1 DEF With
<1>5. \A u \in Tools : \A e : HasDraft(u, e)' => u # t /\ HasDraft(u, e)
  BY <1>2 DEF HasDraft, Same
<1>6. PutWhole'
  <2> SUFFICES ASSUME NEW e \in DOMAIN draft', NEW u \in Tools, tool'[u].at = "rename", tool'[u].on = e
               PROVE  draft'[e].shared \/ draft'[e].state = "whole"
    BY DEF PutWhole, At
  <2>1. e # d /\ e \in DOMAIN draft /\ tool[u].at = "rename" /\ tool[u].on = e
    BY <1>2, <1>3 DEF Same
  <2> QED BY <1>3, <2>1 DEF DraftInv, PutWhole, At
<1>7. ManyShare'
  BY <1>3, <1>5 DEF DraftInv, ManyShare
<1>8. HandlesHold'
  <2> SUFFICES ASSUME NEW u \in Tools, tool'[u].at = "fill"
               PROVE  /\ tool'[u].handle = "draft" => tool'[u].on \in DOMAIN draft'
                      /\ tool'[u].handle = "live" =>
                           tool'[u].on \in DOMAIN live' /\ live'[tool'[u].on].shared
                      /\ tool'[u].handle # "draft" /\ tool'[u].on \in DOMAIN draft' =>
                           draft'[tool'[u].on].shared
    BY DEF HandlesHold, Opened, At
  <2>1. u # t /\ tool[u].at = "fill" /\ tool'[u].on = tool[u].on
        /\ tool[u].handle \in {"draft", "live", "gone"}
    BY <1>2 DEF Same, ShapeOK, ToolOK
  <2>2. CASE tool[u].on = d
    <3>1. tool'[u].handle = Moved(tool[u].handle)
      BY <1>2, <2>1, <2>2
    <3>2. draft[d].shared
      BY <1>1, <2>1, <2>2 DEF DraftInv, ManyShare, HasDraft, At
    <3> QED BY <1>3, <1>4, <2>1, <2>2, <3>1, <3>2 DEF Moved
  <2>3. CASE tool[u].on # d
    <3>1. tool'[u].handle = tool[u].handle
      BY <1>2, <2>1, <2>3
    <3> QED BY <1>3, <1>4, <2>1, <2>3, <3>1 DEF DraftInv, HandlesHold, Opened, At
  <2> QED BY <2>2, <2>3
<1> QED BY <1>6, <1>7, <1>8 DEF DraftInv

LEMMA DropKeepsDrafts ==
  ASSUME ShapeOK, DraftInv, NEW t \in Tools, DropFiles(t)
  PROVE  DraftInv'
<1>1. live' = Without(live, "files") /\ draft' = draft
  BY DEF DropFiles
<1>2. /\ tool'[t].at = "unname"
      /\ \A u \in Tools \ {t} :
           Same(u) /\ tool'[u].handle = IF tool[u].on = "files" /\ tool[u].handle = "live"
                                        THEN "gone" ELSE tool[u].handle
  BY DropMoves
<1>3. DOMAIN live' = DOMAIN live \ {"files"} /\ \A e \in DOMAIN live \ {"files"} : live'[e] = live[e]
  BY <1>1 DEF Without, Restrict
<1>4. PutWhole'
  BY <1>1, <1>2 DEF DraftInv, PutWhole, At, Same
<1>5. ManyShare'
  BY <1>1, <1>2 DEF DraftInv, ManyShare, HasDraft, Same
<1>6. HandlesHold'
  BY <1>1, <1>2, <1>3 DEF DraftInv, HandlesHold, Opened, At, Same
<1> QED BY <1>4, <1>5, <1>6 DEF DraftInv

LEMMA DraftStep == ShapeOK /\ DraftInv /\ [Next]_vars => DraftInv'
<1> SUFFICES ASSUME ShapeOK, DraftInv, [Next]_vars PROVE DraftInv'
  OBVIOUS
<1> USE DEF dir
<1>1. CASE UNCHANGED vars
  BY <1>1 DEF vars, DraftInv, PutWhole, ManyShare, HandlesHold, HasDraft, Opened, At
<1>2. ASSUME NEW t \in Tools,
             \/ Start(t) \/ PlaceArchive(t) \/ Unsign(t) \/ GpgReads(t) \/ Seal(t)
             \/ Scan(t) \/ ReadInfo(t) \/ Hash(t) \/ Unlink(t) \/ Link(t) \/ DropAlias(t) \/ Stop(t)
      PROVE  DraftInv'
  <2>1. UNCHANGED <<live, draft>>
    BY <1>2 DEF Start, PlaceArchive, Unsign, GpgReads, Seal, Scan, ReadInfo, Hash, Unlink, Link,
                DropAlias, Stop
  <2>2. OthersStand(t) /\ tool'[t].at \notin {"fill", "rename"}
    BY <1>2, StartMoves, ArchiveMoves, SignMoves, ScanMoves, LinkMoves DEF Calm
  <2> QED BY <2>1, <2>2, DraftKept
<1>3. ASSUME NEW t \in Tools, Rename(t), tool[t].on \notin DOMAIN draft PROVE DraftInv'
  <2>1. UNCHANGED <<live, draft>> /\ OthersStand(t) /\ tool'[t] = Idle
    BY <1>3, OneMoves DEF Rename
  <2> QED BY <2>1, DraftKept DEF Idle
<1> QED BY <1>1, <1>2, <1>3, CreateKeepsDrafts, FillKeepsDrafts, RenameKeepsDrafts, DropKeepsDrafts
        DEF Next

-----------------------------------------------------------------------------
(* What is served.                                                           *)

LEMMA WholeStep == ShapeOK /\ DraftInv /\ WholeInv /\ [Next]_vars => WholeInv'
<1> SUFFICES ASSUME ShapeOK, DraftInv, WholeInv, [Next]_vars PROVE WholeInv'
  OBVIOUS
<1> USE DEF dir
<1>1. CASE UNCHANGED vars
  BY <1>1 DEF vars, WholeInv
<1>2. ASSUME NEW t \in Tools,
             \/ Start(t) \/ PlaceArchive(t) \/ Unsign(t) \/ GpgReads(t) \/ Seal(t)
             \/ Scan(t) \/ ReadInfo(t) \/ Hash(t) \/ CreateDraft(t)
             \/ Unlink(t) \/ Link(t) \/ DropAlias(t) \/ Stop(t)
      PROVE  WholeInv'
  <2>1. live' = live
    BY <1>2 DEF Start, PlaceArchive, Unsign, GpgReads, Seal, Scan, ReadInfo, Hash, CreateDraft,
                Unlink, Link, DropAlias, Stop
  <2> QED BY <2>1 DEF WholeInv
<1>3. ASSUME NEW t \in Tools, Fill(t) PROVE WholeInv'
  BY <1>3, FillRewrites DEF Rewritten, WholeInv
<1>4. ASSUME NEW t \in Tools, Rename(t) PROVE WholeInv'
  <2>1. CASE tool[t].on \in DOMAIN draft
    <3>1. live' = With(live, tool[t].on, draft[tool[t].on]) /\ At(t, "rename")
      BY <1>4, <2>1 DEF Rename, PutInPlace
    <3>2. draft[tool[t].on].shared \/ draft[tool[t].on].state = "whole"
      BY <2>1, <3>1 DEF DraftInv, PutWhole
    <3> QED BY <3>1, <3>2 DEF With, WholeInv
  <2>2. CASE tool[t].on \notin DOMAIN draft
    BY <1>4, <2>2 DEF Rename, WholeInv
  <2> QED BY <2>1, <2>2
<1>5. ASSUME NEW t \in Tools, DropFiles(t) PROVE WholeInv'
  BY <1>5 DEF DropFiles, Without, Restrict, WholeInv
<1> QED BY <1>1, <1>2, <1>3, <1>4, <1>5 DEF Next

-----------------------------------------------------------------------------
(* What is signed.                                                           *)

\* Whoever is about to sign signs an archive, or a database that is there.
LEMMA AboutToSign ==
  ASSUME ShapeOK, DbInv, NEW t \in Tools, tool[t].at \in {"unsign", "gpg", "seal"}
  PROVE  /\ Item(t) \in Names \cup {"db"}
         /\ Item(t) = "db" => tool[t].todo = <<>> /\ "db" \in DOMAIN live
<1>1. ToolOK(tool[t])
  BY DEF ShapeOK
<1>2. CASE tool[t].todo = <<>>
  BY <1>2 DEF Item, DbInv, PastDb
<1>3. CASE tool[t].todo # <<>>
  BY <1>1, <1>3, AtArchive, Names_ DEF Item
<1> QED BY <1>2, <1>3

\* Nobody's bytes change unless they become suspect, or the database is one two tools wrote.
BytesStand ==
  /\ \A i \in Names : i \in suspect' \/ archive'[i] = archive[i]
  /\ "db" \in DOMAIN live =>
       \/ "db" \in suspect' \/ live'["db"] = live["db"]
       \/ live["db"].shared /\ live'["db"].shared

LEMMA SealKept ==
  ASSUME ShapeOK, DbInv, SealInv, NEW t \in Tools, \A u \in Tools \ {t} : Same(u),
         tool'[t].at # "seal", sig' = sig, suspect \subseteq suspect', BytesStand
  PROVE  SealInv'
<1>1. ASSUME NEW i \in Names \cup {"db"}, i = "db" => "db" \in DOMAIN live, NEW b, Untouched(i, b)
      PROVE  Untouched(i, b)'
  <2>1. CASE i = "db"
    BY <1>1, <2>1 DEF Untouched, BytesStand, Bytes
  <2>2. CASE i # "db"
    BY <1>1, <2>2 DEF Untouched, BytesStand, Bytes
  <2> QED BY <2>1, <2>2
<1>2. SealMatches'
  <2> SUFFICES ASSUME NEW i \in DOMAIN sig PROVE Untouched(i, sig[i])'
    BY DEF SealMatches, Untouched
  <2>1. Untouched(i, sig[i])
    BY DEF SealInv, SealMatches, Untouched
  <2>2. i \in Names \cup {"db"} /\ (i = "db" => "db" \in DOMAIN live)
    BY DEF ShapeOK, DbInv
  <2>3. \A b : Untouched(i, b) => Untouched(i, b)'
    BY <1>1, <2>2
  <2> QED BY <2>1, <2>3 DEF Untouched
<1>3. ASSUME NEW u \in Tools, At(u, "seal")'
      PROVE  (tool[u].saw = <<tool[u].saw[1]>> /\ Untouched(Item(u), tool[u].saw[1]))'
  <2>1. u # t /\ tool[u].at = "seal" /\ tool'[u].saw = tool[u].saw /\ tool'[u].todo = tool[u].todo
    BY <1>3 DEF At, Same
  <2>2. tool[u].saw = <<tool[u].saw[1]>> /\ Untouched(Item(u), tool[u].saw[1])
    BY <2>1 DEF SealInv, At
  <2>3. Item(u) \in Names \cup {"db"} /\ (Item(u) = "db" => "db" \in DOMAIN live)
    BY <2>1, AboutToSign
  <2>4. Item(u)' = Item(u)
    BY <2>1 DEF Item
  <2> QED BY <1>1, <2>1, <2>2, <2>3, <2>4 DEF Untouched, Bytes
<1> QED BY <1>2, <1>3 DEF SealInv

LEMMA FillBytes ==
  ASSUME ShapeOK, DraftInv, NEW t \in Tools, Fill(t)
  PROVE  BytesStand
<1> ShapeOK /\ UNCHANGED <<archive, suspect>>
  BY FillWrites
<1>1. CASE live' = live
  BY <1>1 DEF BytesStand
<1>2. CASE /\ tool[t].on \in DOMAIN live /\ live[tool[t].on].shared
           /\ \E c \in Filled(live[tool[t].on], t) : live' = With(live, tool[t].on, c)
  <2>1. PICK c : live' = With(live, tool[t].on, c)
    BY <1>2
  <2>2. CASE tool[t].on = "db"
    BY <1>2, <2>2, FillRewrites DEF Rewritten, BytesStand
  <2>3. CASE tool[t].on # "db"
    BY <2>1, <2>3 DEF With, BytesStand
  <2> QED BY <2>2, <2>3
<1> QED BY <1>1, <1>2, FillWrites

LEMMA RenameBytes ==
  ASSUME ShapeOK, NEW t \in Tools, Rename(t) \/ DropFiles(t)
  PROVE  BytesStand /\ suspect \subseteq suspect' /\ sig' = sig
<1>1. CASE Rename(t) /\ tool[t].on \in DOMAIN draft
  <2>1. /\ live' = With(live, tool[t].on, draft[tool[t].on]) /\ archive' = archive /\ sig' = sig
        /\ suspect' = IF tool[t].on = "db" THEN suspect \cup {"db"} ELSE suspect
    BY <1>1 DEF Rename, PutInPlace
  <2>2. CASE tool[t].on = "db"
    BY <2>1, <2>2 DEF BytesStand
  <2>3. CASE tool[t].on # "db"
    BY <2>1, <2>3 DEF With, BytesStand
  <2> QED BY <2>1, <2>2, <2>3
<1>2. CASE Rename(t) /\ tool[t].on \notin DOMAIN draft
  BY <1>2 DEF Rename, BytesStand
<1>3. CASE DropFiles(t)
  BY <1>3 DEF DropFiles, Without, Restrict, BytesStand
<1> QED BY <1>1, <1>2, <1>3

LEMMA UnsignKeeps ==
  ASSUME ShapeOK, DbInv, SealInv, NEW t \in Tools, Unsign(t)
  PROVE  SealInv'
<1>1. OthersStand(t) /\ tool'[t].at = "gpg"
  BY SignMoves
<1>2. sig' = Without(sig, Item(t)) /\ UNCHANGED <<archive, live>>
      /\ suspect' = IF \E u \in Tools : AboutToSeal(u, Item(t)) THEN suspect
                    ELSE suspect \ {Item(t)}
  BY DEF Unsign
<1>3. DOMAIN sig' = DOMAIN sig \ {Item(t)} /\ \A i \in DOMAIN sig \ {Item(t)} : sig'[i] = sig[i]
  BY <1>2 DEF Without, Restrict
<1>4. \A i : Bytes(i)' = Bytes(i)
  BY <1>2 DEF Bytes
<1>5. SealMatches'
  <2> SUFFICES ASSUME NEW i \in DOMAIN sig', i \notin suspect'
               PROVE  (i = "db" /\ live["db"].shared) \/ sig'[i] = Bytes(i)'
    BY <1>2 DEF SealMatches
  <2>1. i \in DOMAIN sig \ suspect /\ sig'[i] = sig[i]
    BY <1>2, <1>3
  <2>2. (i = "db" /\ live["db"].shared) \/ sig[i] = Bytes(i)
    BY <2>1 DEF SealInv, SealMatches
  <2>3. Bytes(i)' = Bytes(i)
    BY <1>2 DEF Bytes
  <2> QED BY <2>1, <2>2, <2>3
<1>6. ASSUME NEW u \in Tools, At(u, "seal")'
      PROVE  (tool[u].saw = <<tool[u].saw[1]>> /\ Untouched(Item(u), tool[u].saw[1]))'
  <2>1. u # t /\ tool[u].at = "seal" /\ tool'[u].saw = tool[u].saw /\ tool'[u].todo = tool[u].todo
    BY <1>1, <1>6 DEF At, OthersStand, Same
  <2>2. tool[u].saw = <<tool[u].saw[1]>> /\ Untouched(Item(u), tool[u].saw[1])
    BY <2>1 DEF SealInv, At
  <2>3. Item(u)' = Item(u)
    BY <2>1 DEF Item
  <2>4. Item(u) \in suspect => Item(u) \in suspect'
    BY <1>2, <2>1 DEF AboutToSeal, At
  <2> QED BY <1>2, <2>1, <2>2, <2>3, <2>4 DEF Untouched, Bytes
<1> QED BY <1>5, <1>6 DEF SealInv

LEMMA ReadKeeps ==
  ASSUME ShapeOK, SealInv, NEW t \in Tools, GpgReads(t)
  PROVE  SealInv'
<1>1. OthersStand(t) /\ tool'[t].saw = <<Bytes(Item(t))>> /\ tool'[t].todo = tool[t].todo
  BY SignMoves
<1>2. UNCHANGED <<archive, sig, live, suspect>>
  BY DEF GpgReads, dir
<1>3. SealMatches'
  BY <1>2 DEF SealInv, SealMatches, Bytes
<1>4. ASSUME NEW u \in Tools, At(u, "seal")'
      PROVE  (tool[u].saw = <<tool[u].saw[1]>> /\ Untouched(Item(u), tool[u].saw[1]))'
  <2>1. Item(u)' = Item(u)
    BY <1>1 DEF Item, OthersStand, Same
  <2>2. CASE u = t
    BY <1>1, <1>2, <2>1, <2>2 DEF Untouched, Bytes
  <2>3. CASE u # t
    <3>1. tool[u].at = "seal" /\ tool'[u].saw = tool[u].saw
      BY <1>1, <1>4, <2>3 DEF At, OthersStand, Same
    <3>2. tool[u].saw = <<tool[u].saw[1]>> /\ Untouched(Item(u), tool[u].saw[1])
      BY <3>1 DEF SealInv, At
    <3> QED BY <1>2, <2>1, <3>1, <3>2 DEF Untouched, Bytes
  <2> QED BY <2>2, <2>3
<1> QED BY <1>3, <1>4 DEF SealInv

LEMMA SealKeeps ==
  ASSUME ShapeOK, DbInv, SealInv, NEW t \in Tools, Seal(t)
  PROVE  SealInv'
<1>1. OthersStand(t) /\ tool'[t].at # "seal"
  BY SignMoves DEF Calm
<1>2. sig' = With(sig, Item(t), tool[t].saw[1]) /\ UNCHANGED <<archive, live, suspect>>
      /\ tool[t].at = "seal"
  BY DEF Seal, At
<1>3. /\ DOMAIN sig' = DOMAIN sig \cup {Item(t)} /\ sig'[Item(t)] = tool[t].saw[1]
      /\ \A i \in DOMAIN sig : i # Item(t) => sig'[i] = sig[i]
  BY <1>2 DEF With
<1>4. SealMatches'
  <2> SUFFICES ASSUME NEW i \in DOMAIN sig', i \notin suspect
               PROVE  (i = "db" /\ live["db"].shared) \/ sig'[i] = Bytes(i)
    BY <1>2 DEF SealMatches, Bytes
  <2>1. CASE i = Item(t)
    BY <1>2, <1>3, <2>1 DEF SealInv, Untouched, At
  <2>2. CASE i # Item(t)
    BY <1>3, <2>2 DEF SealInv, SealMatches
  <2> QED BY <2>1, <2>2
<1>5. ASSUME NEW u \in Tools, At(u, "seal")'
      PROVE  (tool[u].saw = <<tool[u].saw[1]>> /\ Untouched(Item(u), tool[u].saw[1]))'
  <2>1. u # t /\ tool[u].at = "seal" /\ tool'[u].saw = tool[u].saw /\ tool'[u].todo = tool[u].todo
    BY <1>1, <1>5 DEF At, OthersStand, Same
  <2>2. Item(u)' = Item(u)
    BY <2>1 DEF Item
  <2> QED BY <1>2, <2>1, <2>2 DEF SealInv, At, Untouched, Bytes
<1> QED BY <1>4, <1>5 DEF SealInv

LEMMA SealStep == ShapeOK /\ DbInv /\ DraftInv /\ SealInv /\ [Next]_vars => SealInv'
<1> SUFFICES ASSUME ShapeOK, DbInv, DraftInv, SealInv, [Next]_vars PROVE SealInv'
  OBVIOUS
<1> USE DEF dir
<1>1. CASE UNCHANGED vars
  BY <1>1 DEF vars, SealInv, SealMatches, Untouched, Bytes, Item, At
<1>2. ASSUME NEW t \in Tools,
             \/ Start(t) \/ Scan(t) \/ ReadInfo(t) \/ Hash(t) \/ CreateDraft(t)
             \/ Unlink(t) \/ Link(t) \/ DropAlias(t) \/ Stop(t)
      PROVE  SealInv'
  <2>1. UNCHANGED <<archive, sig, live, suspect>>
    BY <1>2 DEF Start, Scan, ReadInfo, Hash, CreateDraft, Unlink, Link, DropAlias, Stop
  <2>2. BytesStand
    BY <2>1 DEF BytesStand
  <2>3. (\A u \in Tools \ {t} : Same(u)) /\ tool'[t].at # "seal"
    <3>1. CASE CreateDraft(t)
      BY <3>1, DraftMoves DEF CreateDraft, OthersStand
    <3>2. CASE \/ Start(t) \/ Scan(t) \/ ReadInfo(t) \/ Hash(t)
               \/ Unlink(t) \/ Link(t) \/ DropAlias(t) \/ Stop(t)
      BY <3>2, StartMoves, ScanMoves, LinkMoves DEF OthersStand, Calm
    <3> QED BY <1>2, <3>1, <3>2
  <2> QED BY <2>1, <2>2, <2>3, SealKept
<1>3. ASSUME NEW t \in Tools, PlaceArchive(t) PROVE SealInv'
  <2>1. /\ sig' = sig /\ live' = live /\ suspect' = suspect \cup {Head(tool[t].todo)}
        /\ archive' = [archive EXCEPT ![Head(tool[t].todo)] = builds + 1]
    BY <1>3 DEF PlaceArchive
  <2>2. BytesStand
    BY <2>1 DEF BytesStand, ShapeOK
  <2>3. (\A u \in Tools \ {t} : Same(u)) /\ tool'[t].at # "seal"
    BY <1>3, ArchiveMoves DEF OthersStand, Calm
  <2> QED BY <2>1, <2>2, <2>3, SealKept
<1>4. ASSUME NEW t \in Tools, Fill(t) PROVE SealInv'
  <2>1. (\A u \in Tools \ {t} : Same(u)) /\ tool'[t].at # "seal"
    BY <1>4, DraftMoves DEF OthersStand
  <2>2. sig' = sig /\ suspect' = suspect
    BY <1>4 DEF Fill
  <2> QED BY <1>4, <2>1, <2>2, FillBytes, SealKept
<1>5. ASSUME NEW t \in Tools, Rename(t) \/ DropFiles(t) PROVE SealInv'
  <2>1. (\A u \in Tools \ {t} : Same(u)) /\ tool'[t].at # "seal"
    <3>1. CASE DropFiles(t)
      BY <3>1, DropMoves
    <3>2. CASE Rename(t) /\ tool[t].on \in DOMAIN draft
      BY <3>2, RenameMoves
    <3>3. CASE Rename(t) /\ tool[t].on \notin DOMAIN draft
      BY <3>3, OneMoves DEF Rename, Idle, OthersStand
    <3> QED BY <1>5, <3>1, <3>2, <3>3
  <2> QED BY <1>5, <2>1, RenameBytes, SealKept
<1> QED BY <1>1, <1>2, <1>3, <1>4, <1>5, UnsignKeeps, ReadKeeps, SealKeeps DEF Next

-----------------------------------------------------------------------------

LEMMA InitInv == Init => Inv
<1> SUFFICES ASSUME Init PROVE Inv
  OBVIOUS
<1>1. \A t \in Tools : tool[t] = Idle
  BY DEF Init
<1>2. DOMAIN sig = {} /\ DOMAIN live = {} /\ DOMAIN draft = {} /\ alias = {}
  BY DEF Init
<1>3. ShapeOK
  BY <1>1, <1>2, IdleOK DEF Init, ShapeOK, Files
<1>4. DbInv
  BY <1>1, <1>2 DEF DbInv, PastDb, Idle
<1>5. DraftInv
  BY <1>1, <1>2 DEF DraftInv, PutWhole, ManyShare, HandlesHold, Opened, At, Idle
<1>6. WholeInv /\ SealInv
  BY <1>1, <1>2 DEF WholeInv, SealInv, SealMatches, At, Idle
<1> QED BY <1>3, <1>4, <1>5, <1>6 DEF Inv

LEMMA Inductive == Inv /\ [Next]_vars => Inv'
  BY ShapeStep, DbStep, DraftStep, WholeStep, SealStep DEF Inv

LEMMA Always == Spec => []Inv
  BY InitInv, Inductive, PTL DEF Spec

\* Whenever a tool stops, and however many of them work on one directory, what other
\* machines fetch is a finished database - unless two tools had its draft open at once
\* (repodb.rs, write_archive: written beside, and renamed over).
THEOREM DatabaseServedWhole == Spec => []ServedWhole
<1>1. Inv => ServedWhole
  BY DEF Inv, WholeInv, ServedWhole
<1> QED BY <1>1, Always, PTL

\* What lies beside an archive or the database is a signature of the bytes it has, or none,
\* but for what was put in place since and what another tool still seals: the old signature
\* goes before gpg reads, so a tool that stops in between leaves none (sign.rs, sign).
THEOREM SignaturesMatch == Spec => []SealMatches
<1>1. Inv => SealMatches
  BY DEF Inv, SealInv
<1> QED BY <1>1, Always, PTL

-----------------------------------------------------------------------------
(* Two versions compare the same from either side, whatever they hold, so that
   an upgrade never sees each of two as the newer one. *)

(* What one side says and what the other does.                             *)
Opposite(x, y) == x \in {-1, 0, 1} /\ y \in {-1, 0, 1} /\ y = -x

(* Two integers compare the same from either side.                         *)
LEMMA CompareOpposite ==
  ASSUME NEW m \in Int, NEW n \in Int PROVE Opposite(Compare(m, n), Compare(n, m))
  BY DEF Compare, Opposite

(* So do two segments: by their separators, their kind, their value.       *)
LEMMA SegmentOpposite ==
  ASSUME NEW a \in Segments, NEW b \in Segments
  PROVE Opposite(SegmentCmp(a, b), SegmentCmp(b, a))
<1>1. CASE a.sep # b.sep
  BY <1>1, CompareOpposite DEF SegmentCmp, Segments
<1>2. CASE a.sep = b.sep /\ a.word # b.word
  BY <1>2 DEF SegmentCmp, Segments, Opposite
<1>3. CASE a.sep = b.sep /\ a.word = b.word
  BY <1>3, CompareOpposite DEF SegmentCmp, Segments
<1> QED BY <1>1, <1>2, <1>3

(* Of a number and one, the smaller is an integer.                         *)
LEMMA SmallerIsInt ==
  ASSUME NEW t \in Nat PROVE Min({t, 1}) \in Int
<1>1. \E x \in {t, 1} : \A y \in {t, 1} : x <= y
  <2>1. CASE t <= 1  BY <2>1
  <2>2. CASE ~(t <= 1)  BY <2>2
  <2> QED BY <2>1, <2>2
<1> QED BY <1>1 DEF Min

(* So do the ends of two versions whose common segments agree.             *)
LEMMA TailOpposite ==
  ASSUME NEW a \in Parts, NEW b \in Parts
  PROVE Opposite(TailCmp(a, b), TailCmp(b, a))
<1>1. Len(a.segments) \in Nat /\ Len(b.segments) \in Nat
  BY DEF Parts
<1>2. CASE Len(a.segments) = Len(b.segments)
  <2>1. Min({a.trailing, 1}) \in Int /\ Min({b.trailing, 1}) \in Int
    BY SmallerIsInt DEF Parts
  <2> QED BY <1>1, <1>2, <2>1, CompareOpposite DEF TailCmp
<1>3. CASE Len(a.segments) > Len(b.segments)
  BY <1>1, <1>3 DEF TailCmp, Opposite
<1>4. CASE Len(a.segments) < Len(b.segments)
  BY <1>1, <1>4 DEF TailCmp, Opposite
<1> QED BY <1>1, <1>2, <1>3, <1>4

(* Every set of naturals has a least member: of the intervals 0..n that    *)
(* end in one of its members, take one that no other is a strict part of.  *)
LEMMA LeastIsThere ==
  ASSUME NEW S \in SUBSET Nat, S # {} PROVE Min(S) \in S /\ \A m \in S : Min(S) <= m
<1> DEFINE T == {0..n : n \in S}
<1>1. T \subseteq FiniteSubsetsOf(Nat)
  <2> SUFFICES ASSUME NEW n \in S PROVE 0..n \in FiniteSubsetsOf(Nat)
    OBVIOUS
  <2>1. IsFiniteSet(0..n)
    BY FS_Interval
  <2> QED BY <2>1 DEF FiniteSubsetsOf
<1>2. PICK x \in T : \A y \in T : <<y, x>> \notin StrictSubsetOrdering(Nat)
  <2>1. T # {}
    OBVIOUS
  <2> HIDE DEF T
  <2> QED BY <1>1, <2>1, FS_StrictSubsetOrderingWellFounded, WFMin, Zenon
<1>3. PICK n \in S : x = 0..n
  OBVIOUS
<1>4. ASSUME NEW m \in S PROVE n <= m
  <2> SUFFICES ASSUME m < n PROVE FALSE
    OBVIOUS
  <2>1. 0..m \in T /\ 0..m \subseteq x /\ n \in x /\ n \notin 0..m
    BY <1>3
  <2>2. 0..m \in SUBSET Nat /\ x \in SUBSET Nat
    BY <1>3
  <2>3. <<0..m, x>> \in StrictSubsetOrdering(Nat)
    BY <2>1, <2>2 DEF StrictSubsetOrdering
  <2> QED BY <1>2, <2>1, <2>3
<1> QED BY <1>4 DEF Min

(* Two parts (a version without epoch and release, or a release) compare   *)
(* the same from either side: the same segment is the first to differ.     *)
LEMMA PartOpposite ==
  ASSUME NEW a \in Parts, NEW b \in Parts
  PROVE Opposite(Rpmvercmp(a, b), Rpmvercmp(b, a))
<1>1. PICK D : D = Differing(a, b)
  OBVIOUS
<1>2. Differing(b, a) = D
  BY <1>1, SegmentOpposite DEF Differing, Parts, Opposite
<1>3. CASE D = {}
  BY <1>1, <1>2, <1>3, TailOpposite DEF Rpmvercmp
<1>4. CASE D # {}
  <2>1. D \subseteq DOMAIN a.segments \cap DOMAIN b.segments
    BY <1>1 DEF Differing
  <2>2. D \in SUBSET Nat
    BY <2>1 DEF Parts
  <2>3. Min(D) \in D
    BY <1>4, <2>2, LeastIsThere
  <2>4. a.segments[Min(D)] \in Segments /\ b.segments[Min(D)] \in Segments
    BY <2>1, <2>3 DEF Parts
  <2> QED BY <1>1, <1>2, <1>4, <2>4, SegmentOpposite DEF Rpmvercmp
<1> QED BY <1>3, <1>4

(* Two versions compare the same from either side: one is newer exactly    *)
(* when the other is older (vercmp, which every upgrade goes by).          *)
THEOREM VercmpOpposite ==
  ASSUME NEW a \in Versions, NEW b \in Versions
  PROVE Opposite(Vercmp(a, b), Vercmp(b, a))
<1>1. Opposite(Rpmvercmp(a.version, b.version), Rpmvercmp(b.version, a.version))
  BY PartOpposite DEF Versions
<1>2. Opposite(ReleaseCmp(a, b), ReleaseCmp(b, a))
  <2>1. CASE a.release = {} \/ b.release = {}
    BY <2>1 DEF ReleaseCmp, Opposite
  <2>2. CASE a.release # {} /\ b.release # {}
    <3>1. PICK r, s : r = (CHOOSE x \in a.release : TRUE) /\ s = (CHOOSE x \in b.release : TRUE)
      OBVIOUS
    <3>2. r \in Parts /\ s \in Parts
      BY <2>2, <3>1 DEF Versions
    <3>3. Opposite(Rpmvercmp(r, s), Rpmvercmp(s, r))
      BY <3>2, PartOpposite
    <3> QED BY <2>2, <3>1, <3>3 DEF ReleaseCmp
  <2> QED BY <2>1, <2>2
<1>3. CASE a.epoch # b.epoch
  BY <1>3, CompareOpposite DEF Vercmp, Versions
<1>4. CASE a.epoch = b.epoch /\ Rpmvercmp(a.version, b.version) # 0
  BY <1>1, <1>4 DEF Vercmp, Opposite
<1>5. CASE a.epoch = b.epoch /\ Rpmvercmp(a.version, b.version) = 0
  <2>1. Rpmvercmp(b.version, a.version) = 0
    <3>1. \A x, y : Opposite(x, y) /\ x = 0 => y = 0
      BY DEF Opposite
    <3> QED BY <1>1, <1>5, <3>1
  <2>2. Vercmp(a, b) = ReleaseCmp(a, b) /\ Vercmp(b, a) = ReleaseCmp(b, a)
    BY <1>5, <2>1 DEF Vercmp
  <2> QED BY <1>2, <2>2
<1> QED BY <1>3, <1>4, <1>5

-----------------------------------------------------------------------------
(* Among versions that carry a release and end in no separator the order is
   transitive: part against part it is the order of a dictionary, in which the
   end of a part is a letter of its own, above the words that follow another
   segment with no separator between and below every other segment. *)

Ends(p, n) == n > Len(p.segments)

\* In its n-th place a comes before b.
Before(a, b, n) ==
  \/ ~Ends(a, n) /\ ~Ends(b, n) /\ SegmentCmp(a.segments[n], b.segments[n]) = -1
  \/ ~Ends(a, n) /\ Ends(b, n) /\ a.segments[n].word /\ a.segments[n].sep = 0
  \/ Ends(a, n) /\ ~Ends(b, n) /\ ~(b.segments[n].word /\ b.segments[n].sep = 0)
SameAt(a, b, n) == (Ends(a, n) <=> Ends(b, n)) /\ (~Ends(a, n) => a.segments[n] = b.segments[n])
Precedes(a, b) ==
  \E n \in Nat \ {0} : Before(a, b, n) /\ \A m \in 1..(n - 1) : SameAt(a, b, m)

(* Segments that compare as equal are the same.                            *)
LEMMA SegmentSame ==
  ASSUME NEW a \in Segments, NEW b \in Segments, SegmentCmp(a, b) = 0 PROVE a = b
<1>1. a = [sep |-> a.sep, word |-> a.word, val |-> a.val]
      /\ b = [sep |-> b.sep, word |-> b.word, val |-> b.val]
  BY DEF Segments
<1>2. a.sep = b.sep
  BY DEF SegmentCmp, Compare, Segments
<1>3. a.word = b.word
  BY <1>2 DEF SegmentCmp, Segments
<1>4. a.val = b.val
  BY <1>2, <1>3 DEF SegmentCmp, Compare, Segments
<1> QED BY <1>1, <1>2, <1>3, <1>4

LEMMA SegmentTransitive ==
  ASSUME NEW a \in Segments, NEW b \in Segments, NEW c \in Segments,
         SegmentCmp(a, b) = -1, SegmentCmp(b, c) = -1
  PROVE  SegmentCmp(a, c) = -1
<1>1. /\ a.sep \in Nat /\ b.sep \in Nat /\ c.sep \in Nat
      /\ a.val \in Nat /\ b.val \in Nat /\ c.val \in Nat
      /\ a.word \in BOOLEAN /\ b.word \in BOOLEAN /\ c.word \in BOOLEAN
  BY DEF Segments
<1>2. a.sep <= b.sep /\ b.sep <= c.sep
  BY <1>1 DEF SegmentCmp, Compare
<1>3. CASE a.sep < b.sep \/ b.sep < c.sep
  BY <1>1, <1>2, <1>3 DEF SegmentCmp, Compare
<1>4. CASE a.sep = b.sep /\ b.sep = c.sep
  BY <1>1, <1>4 DEF SegmentCmp, Compare
<1> QED BY <1>1, <1>2, <1>3, <1>4

(* Place by place, before is a strict order.                               *)
LEMMA BeforeTransitive ==
  ASSUME NEW a \in Parts, NEW b \in Parts, NEW c \in Parts, NEW n \in Nat \ {0}
  PROVE  /\ Before(a, b, n) /\ Before(b, c, n) => Before(a, c, n)
         /\ Before(a, b, n) /\ SameAt(b, c, n) => Before(a, c, n)
         /\ SameAt(a, b, n) /\ Before(b, c, n) => Before(a, c, n)
         /\ SameAt(a, b, n) /\ SameAt(b, c, n) => SameAt(a, c, n)
         /\ ~(Before(a, b, n) /\ SameAt(a, b, n))
         /\ ~(Before(a, b, n) /\ Before(b, a, n))
         /\ SameAt(a, b, n) => SameAt(b, a, n)
<1>1. \A p \in Parts : ~Ends(p, n) => p.segments[n] \in Segments
  BY DEF Parts, Ends
<1>2. \A x, y \in Segments : SegmentCmp(x, y) = -1 => x.sep <= y.sep /\ (x.sep = y.sep => x.word \/ ~y.word)
  BY DEF SegmentCmp, Compare, Segments
<1>3. \A x, y, z \in Segments : SegmentCmp(x, y) = -1 /\ SegmentCmp(y, z) = -1 => SegmentCmp(x, z) = -1
  BY SegmentTransitive
<1>4. \A x \in Segments : SegmentCmp(x, x) = 0
  BY DEF SegmentCmp, Compare, Segments
<1>5. \A x \in Segments : x.sep \in Nat /\ x.word \in BOOLEAN
  BY DEF Segments
<1>6. \A x, y \in Segments : SegmentCmp(x, y) = -1 => SegmentCmp(y, x) = 1
  BY SegmentOpposite DEF Opposite
<1>7. Before(a, b, n) /\ Before(b, c, n) => Before(a, c, n)
  <2>1. CASE ~Ends(a, n) /\ ~Ends(c, n) /\ Ends(b, n)
    BY <1>1, <1>5, <2>1 DEF Before, SegmentCmp, Compare, Segments
  <2>2. CASE ~Ends(a, n) /\ ~Ends(c, n) /\ ~Ends(b, n)
    BY <1>1, <1>3, <2>2 DEF Before
  <2>3. CASE ~(~Ends(a, n) /\ ~Ends(c, n))
    BY <1>1, <1>2, <1>5, <2>3 DEF Before
  <2> QED BY <2>1, <2>2, <2>3
<1>8. ~(Before(a, b, n) /\ SameAt(a, b, n)) /\ ~(Before(a, b, n) /\ Before(b, a, n))
  BY <1>1, <1>4, <1>6 DEF Before, SameAt
<1> QED BY <1>7, <1>8 DEF Before, SameAt

LEMMA PrecedesTransitive ==
  ASSUME NEW a \in Parts, NEW b \in Parts, NEW c \in Parts
  PROVE  /\ Precedes(a, b) /\ Precedes(b, c) => Precedes(a, c)
         /\ ~(Precedes(a, b) /\ Precedes(b, a))
<1>1. ASSUME NEW i \in Nat \ {0}, Before(a, b, i), \A m \in 1..(i - 1) : SameAt(a, b, m),
             NEW j \in Nat \ {0}, Before(b, c, j), \A m \in 1..(j - 1) : SameAt(b, c, m)
      PROVE  Precedes(a, c)
  <2>1. CASE i < j
    <3>1. Before(a, c, i)
      BY <1>1, <2>1, BeforeTransitive
    <3>2. \A m \in 1..(i - 1) : SameAt(a, c, m)
      BY <1>1, <2>1, BeforeTransitive
    <3> QED BY <3>1, <3>2 DEF Precedes
  <2>2. CASE j < i
    <3>1. Before(a, c, j)
      BY <1>1, <2>2, BeforeTransitive
    <3>2. \A m \in 1..(j - 1) : SameAt(a, c, m)
      BY <1>1, <2>2, BeforeTransitive
    <3> QED BY <3>1, <3>2 DEF Precedes
  <2>3. CASE i = j
    <3>1. Before(a, c, i)
      BY <1>1, <2>3, BeforeTransitive
    <3>2. \A m \in 1..(i - 1) : SameAt(a, c, m)
      BY <1>1, <2>3, BeforeTransitive
    <3> QED BY <3>1, <3>2 DEF Precedes
  <2> QED BY <2>1, <2>2, <2>3
<1>2. ASSUME NEW i \in Nat \ {0}, Before(a, b, i), \A m \in 1..(i - 1) : SameAt(a, b, m),
             NEW j \in Nat \ {0}, Before(b, a, j), \A m \in 1..(j - 1) : SameAt(b, a, m)
      PROVE  FALSE
  <2>1. CASE i < j
    <3>1. SameAt(a, b, i)
      BY <1>2, <2>1, BeforeTransitive
    <3> QED BY <1>2, <3>1, BeforeTransitive
  <2>2. CASE j < i
    <3>1. SameAt(b, a, j)
      BY <1>2, <2>2, BeforeTransitive
    <3> QED BY <1>2, <3>1, BeforeTransitive
  <2>3. CASE i = j
    BY <1>2, <2>3, BeforeTransitive
  <2> QED BY <2>1, <2>2, <2>3
<1> QED BY <1>1, <1>2 DEF Precedes

(* What compares as smaller comes first, what compares as equal is the     *)
(* same.                                                                   *)
LEMMA RpmvercmpPrecedes ==
  ASSUME NEW a, NEW b, Finished(a), Finished(b)
  PROVE  /\ Rpmvercmp(a, b) = -1 => Precedes(a, b)
         /\ Rpmvercmp(a, b) = 0 => a = b
<1>1. /\ a \in Parts /\ b \in Parts /\ a.trailing = 0 /\ b.trailing = 0
      /\ Len(a.segments) \in Nat /\ Len(b.segments) \in Nat
      /\ \A n \in Nat \ {0} : ~Ends(a, n) => n \in DOMAIN a.segments /\ a.segments[n] \in Segments
      /\ \A n \in Nat \ {0} : ~Ends(b, n) => n \in DOMAIN b.segments /\ b.segments[n] \in Segments
  BY DEF Finished, Parts, Ends
<1>2. Min({0, 1}) = 0
  <2>1. \E x \in {0, 1} : \A y \in {0, 1} : x <= y
    OBVIOUS
  <2> QED BY <2>1 DEF Min
<1> DEFINE D == Differing(a, b)
<1>3. /\ D \in SUBSET (Nat \ {0}) /\ \A n \in D : ~Ends(a, n) /\ ~Ends(b, n)
      /\ \A n \in Nat \ {0} : ~Ends(a, n) /\ ~Ends(b, n) /\ n \notin D => SameAt(a, b, n)
  <2>1. D \in SUBSET (Nat \ {0}) /\ \A n \in D : ~Ends(a, n) /\ ~Ends(b, n)
    BY <1>1 DEF Differing, Ends, Parts
  <2>2. ASSUME NEW n \in Nat \ {0}, ~Ends(a, n), ~Ends(b, n), n \notin D
        PROVE  SameAt(a, b, n)
    BY <1>1, <2>2, SegmentSame DEF Differing, SameAt
  <2> QED BY <2>1, <2>2
<1>4. CASE D # {}
  <2> DEFINE n == Min(D)
  <2>1. n \in D /\ \A m \in D : n <= m
    BY <1>3, <1>4, LeastIsThere
  <2>2. Rpmvercmp(a, b) = SegmentCmp(a.segments[n], b.segments[n])
        /\ SegmentCmp(a.segments[n], b.segments[n]) # 0
    BY <1>4, <2>1 DEF Rpmvercmp, Differing
  <2>3. \A m \in 1..(n - 1) : SameAt(a, b, m)
    BY <1>3, <2>1 DEF Ends
  <2>4. Rpmvercmp(a, b) = -1 => Before(a, b, n)
    BY <1>3, <2>1, <2>2 DEF Before
  <2> HIDE DEF n, D
  <2> QED BY <1>3, <2>1, <2>2, <2>3, <2>4 DEF Precedes
<1>5. CASE D = {}
  <2>1. Rpmvercmp(a, b) = TailCmp(a, b)
    BY <1>5 DEF Rpmvercmp
  <2>2. CASE Len(a.segments) = Len(b.segments)
    <3>1. Rpmvercmp(a, b) = 0
      BY <1>1, <1>2, <2>1, <2>2 DEF TailCmp, Compare
    <3>2. \A n \in DOMAIN a.segments : a.segments[n] = b.segments[n]
      BY <1>1, <1>3, <1>5, <2>2 DEF SameAt, Ends, Parts
    <3>3. a.segments = b.segments
      BY <1>1, <2>2, <3>2 DEF Parts
    <3>4. a = b
      BY <1>1, <3>3 DEF Parts
    <3> QED BY <3>1, <3>4
  <2>3. CASE Len(a.segments) > Len(b.segments)
    <3> DEFINE n == Len(b.segments) + 1
    <3>1. n \in Nat \ {0} /\ Ends(b, n) /\ ~Ends(a, n) /\ \A m \in 1..(n - 1) : SameAt(a, b, m)
      BY <1>1, <1>3, <1>5, <2>3 DEF Ends
    <3>2. Rpmvercmp(a, b) # 0 /\ (Rpmvercmp(a, b) = -1 => Before(a, b, n))
      BY <1>1, <2>1, <2>3, <3>1 DEF TailCmp, Outlasts, Before
    <3> QED BY <3>1, <3>2 DEF Precedes
  <2>4. CASE Len(a.segments) < Len(b.segments)
    <3> DEFINE n == Len(a.segments) + 1
    <3>1. n \in Nat \ {0} /\ Ends(a, n) /\ ~Ends(b, n) /\ \A m \in 1..(n - 1) : SameAt(a, b, m)
      BY <1>1, <1>3, <1>5, <2>4 DEF Ends
    <3>2. Rpmvercmp(a, b) # 0 /\ (Rpmvercmp(a, b) = -1 => Before(a, b, n))
      BY <1>1, <2>1, <2>4, <3>1 DEF TailCmp, Outlasts, Before
    <3> QED BY <3>1, <3>2 DEF Precedes
  <2> QED BY <1>1, <2>2, <2>3, <2>4
<1> QED BY <1>4, <1>5

LEMMA CompareTransitive ==
  ASSUME NEW a, NEW b, NEW c, Finished(a), Finished(b), Finished(c),
         Rpmvercmp(a, b) <= 0, Rpmvercmp(b, c) <= 0
  PROVE  Rpmvercmp(a, c) <= 0 /\ (Rpmvercmp(a, c) = 0 => a = b /\ b = c)
<1>1. a \in Parts /\ b \in Parts /\ c \in Parts
  BY DEF Finished
<1>2. /\ Opposite(Rpmvercmp(a, b), Rpmvercmp(b, a))
      /\ Opposite(Rpmvercmp(b, c), Rpmvercmp(c, b))
      /\ Opposite(Rpmvercmp(a, c), Rpmvercmp(c, a))
  BY <1>1, PartOpposite
<1>3. a = b \/ Precedes(a, b)
  BY <1>2, RpmvercmpPrecedes DEF Opposite
<1>4. b = c \/ Precedes(b, c)
  BY <1>2, RpmvercmpPrecedes DEF Opposite
<1>5. (a = b /\ b = c) \/ Precedes(a, c)
  BY <1>1, <1>3, <1>4, PrecedesTransitive
<1>6. Rpmvercmp(a, c) = 0 => a = c
  BY RpmvercmpPrecedes
<1>7. Rpmvercmp(c, a) = -1 => Precedes(c, a)
  BY RpmvercmpPrecedes
<1>8. ~Precedes(a, a) /\ ~(Precedes(a, c) /\ Precedes(c, a))
  BY <1>1, PrecedesTransitive
<1>9. a = c => Rpmvercmp(a, c) = 0
  BY <1>2 DEF Opposite
<1> QED BY <1>2, <1>3, <1>4, <1>5, <1>6, <1>7, <1>8, <1>9 DEF Opposite

(* Of finished releases the newest is newer than, or the same as, every    *)
(* other: if a is no newer than b and b no newer than c, a is no newer     *)
(* than c (vercmp; repodb.rs, build goes through the archives once and     *)
(* keeps what is newer than all before it).                                *)
THEOREM VercmpTransitive ==
  ASSUME NEW a \in Released, NEW b \in Released, NEW c \in Released,
         Vercmp(a, b) <= 0, Vercmp(b, c) <= 0
  PROVE  Vercmp(a, c) <= 0
<1> DEFINE rel(v) == CHOOSE r \in v.release : TRUE
<1>1. ASSUME NEW v \in Released
      PROVE  v \in Versions /\ Finished(v.version) /\ v.release # {} /\ Finished(rel(v))
             /\ v.epoch \in Nat
  BY <1>1 DEF Released, Versions
<1>2. \A x, y \in Released : ReleaseCmp(x, y) = Rpmvercmp(rel(x), rel(y))
  BY <1>1 DEF ReleaseCmp
<1>3. \A x, y \in Released : Rpmvercmp(x.version, y.version) \in {-1, 0, 1} 
                             /\ Rpmvercmp(rel(x), rel(y)) \in {-1, 0, 1}
  BY <1>1, PartOpposite DEF Finished, Opposite
<1>4. \A x, y \in Released : Vercmp(x, y) <= 0 <=>
        \/ x.epoch < y.epoch
        \/ x.epoch = y.epoch /\ Rpmvercmp(x.version, y.version) < 0
        \/ /\ x.epoch = y.epoch /\ Rpmvercmp(x.version, y.version) = 0
           /\ Rpmvercmp(rel(x), rel(y)) <= 0
  <2> HIDE DEF rel
  <2> QED BY <1>1, <1>2, <1>3 DEF Vercmp, Compare
<1> HIDE DEF rel
<1>5. Rpmvercmp(a.version, b.version) <= 0 /\ Rpmvercmp(b.version, c.version) <= 0 =>
        /\ Rpmvercmp(a.version, c.version) <= 0
        /\ Rpmvercmp(a.version, c.version) = 0 =>
             Rpmvercmp(a.version, b.version) = 0 /\ Rpmvercmp(b.version, c.version) = 0
  <2>1. \A p : Finished(p) => Rpmvercmp(p, p) = 0
    BY PartOpposite DEF Opposite, Finished
  <2> QED BY <1>1, <2>1, CompareTransitive
<1>6. Rpmvercmp(rel(a), rel(b)) <= 0 /\ Rpmvercmp(rel(b), rel(c)) <= 0 =>
        Rpmvercmp(rel(a), rel(c)) <= 0
  BY <1>1, CompareTransitive
<1>7. a.epoch \in Nat /\ b.epoch \in Nat /\ c.epoch \in Nat
  BY <1>1
<1>8. /\ Rpmvercmp(a.version, b.version) \in {-1, 0, 1}
      /\ Rpmvercmp(b.version, c.version) \in {-1, 0, 1}
      /\ Rpmvercmp(a.version, c.version) \in {-1, 0, 1}
  BY <1>3
<1>9. /\ Vercmp(a, b) <= 0 <=>
           \/ a.epoch < b.epoch
           \/ a.epoch = b.epoch /\ Rpmvercmp(a.version, b.version) < 0
           \/ /\ a.epoch = b.epoch /\ Rpmvercmp(a.version, b.version) = 0
              /\ Rpmvercmp(rel(a), rel(b)) <= 0
      /\ Vercmp(b, c) <= 0 <=>
           \/ b.epoch < c.epoch
           \/ b.epoch = c.epoch /\ Rpmvercmp(b.version, c.version) < 0
           \/ /\ b.epoch = c.epoch /\ Rpmvercmp(b.version, c.version) = 0
              /\ Rpmvercmp(rel(b), rel(c)) <= 0
      /\ Vercmp(a, c) <= 0 <=>
           \/ a.epoch < c.epoch
           \/ a.epoch = c.epoch /\ Rpmvercmp(a.version, c.version) < 0
           \/ /\ a.epoch = c.epoch /\ Rpmvercmp(a.version, c.version) = 0
              /\ Rpmvercmp(rel(a), rel(c)) <= 0
  BY <1>4
<1> QED BY <1>5, <1>6, <1>7, <1>8, <1>9

-----------------------------------------------------------------------------
(* What is listed. *)

\* Two archives by what is in them, and a listing of the archives S: one entry for each of
\* their packages, by an archive none of the others is newer than, and as that archive and
\* its signature are, unless it was touched since the tool looked.
AtMost(f, g) == Vercmp(Pkg[f].version, Pkg[g].version) <= 0
Lists(list, S) ==
  /\ DOMAIN list = {Pkg[f].name : f \in S}
  /\ \A n \in DOMAIN list :
       /\ list[n].filename \in S /\ Pkg[list[n].filename].name = n
       /\ \A g \in S : Pkg[g].name = n => AtMost(g, list[n].filename)
AsItIs(d, arc, sg) ==
  /\ d.info = arc[d.filename] /\ d.hash = arc[d.filename]
  /\ d.pgpsig = IF d.filename \in DOMAIN sg THEN {sg[d.filename]} ELSE {}

\* What a tool has collected, beside archives arc and signatures sg.
Early == {"idle", "build", "unsign", "gpg", "seal", "scan"}
Blank(r) == r.seen = {} /\ r.newest = <<>> /\ r.queue = {}
ListOK(r, arc, sg) ==
  /\ r.at \in Early => Blank(r)
  /\ r.at \notin {"describe", "hash"} => r.queue = {}
  /\ r.queue \subseteq Names /\ r.seen \subseteq Names \ Broken /\ r.queue \ Broken \subseteq r.seen
  /\ Lists(r.newest, r.seen \ r.queue)
  /\ \A n \in DOMAIN r.newest :
       r.newest[n].filename \in r.changed \/ AsItIs(r.newest[n], arc, sg)
  /\ r.at = "hash" =>
       /\ r.queue # {} /\ Earliest(r.queue) \notin Broken
       /\ Earliest(r.queue) \in r.changed \/ r.reading = arc[Earliest(r.queue)]
ListInv == \A t \in Tools : ListOK(tool[t], archive, sig)

\* A draft nobody else opened is of the tool that is about to rename it.
OwnInv ==
  \A t \in Tools :
    At(t, "rename") /\ tool[t].on \in DOMAIN draft =>
      draft[tool[t].on].shared \/ draft[tool[t].on].list = tool[t].newest

LEMMA EarliestIn == ASSUME NEW S \in SUBSET Names, S # {} PROVE Earliest(S) \in S
<1> DEFINE I == {i \in DOMAIN Order : Order[i] \in S}
<1>1. I \in SUBSET Nat
  BY RepositoryAssumption
<1>2. I # {}
  BY DEF Names, Range
<1>3. Min(I) \in I
  BY <1>1, <1>2, LeastIsThere
<1> QED BY <1>3 DEF Earliest

LEMMA AtMostOrders ==
  ASSUME \A f \in Names \ Broken : Pkg[f].version \in Released
  PROVE  \A f, g, h \in Names \ Broken :
           /\ AtMost(f, f)
           /\ AtMost(f, g) /\ AtMost(g, h) => AtMost(f, h)
           /\ AtMost(f, g) \/ AtMost(g, f)
           /\ Vercmp(Pkg[f].version, Pkg[g].version) > 0 <=> ~AtMost(f, g)
<1> SUFFICES ASSUME NEW f \in Names \ Broken, NEW g \in Names \ Broken, NEW h \in Names \ Broken
             PROVE  /\ AtMost(f, f)
                    /\ AtMost(f, g) /\ AtMost(g, h) => AtMost(f, h)
                    /\ AtMost(f, g) \/ AtMost(g, f)
                    /\ Vercmp(Pkg[f].version, Pkg[g].version) > 0 <=> ~AtMost(f, g)
  OBVIOUS
<1>1. Pkg[f].version \in Released /\ Pkg[g].version \in Released /\ Pkg[h].version \in Released
  OBVIOUS
<1>2. \A v \in Released : v \in Versions
  BY DEF Released
<1>3. /\ Opposite(Vercmp(Pkg[f].version, Pkg[f].version), Vercmp(Pkg[f].version, Pkg[f].version))
      /\ Opposite(Vercmp(Pkg[f].version, Pkg[g].version), Vercmp(Pkg[g].version, Pkg[f].version))
  BY <1>1, <1>2, VercmpOpposite
<1>4. AtMost(f, g) /\ AtMost(g, h) => AtMost(f, h)
  BY <1>1, VercmpTransitive DEF AtMost
<1> QED BY <1>3, <1>4 DEF AtMost, Opposite

\* One more archive: its entry is kept when it is newer than the one there was, or the first.
LEMMA OneMore ==
  ASSUME \A f \in Names \ Broken : Pkg[f].version \in Released,
         NEW list, NEW S \in SUBSET (Names \ Broken), Lists(list, S),
         NEW d, d.filename \in Names \ Broken
  PROVE  /\ Lists(KeepNewest(list, d), S \cup {d.filename})
         /\ \A n \in DOMAIN KeepNewest(list, d) :
              \/ n = Name(d) /\ KeepNewest(list, d)[n] = d
              \/ n \in DOMAIN list /\ KeepNewest(list, d)[n] = list[n]
<1> DEFINE f == d.filename
           new == KeepNewest(list, d)
<1>1. /\ DOMAIN With(list, Name(d), d) = DOMAIN list \cup {Name(d)} /\ With(list, Name(d), d)[Name(d)] = d
      /\ \A n \in DOMAIN list : n # Name(d) => With(list, Name(d), d)[n] = list[n]
  BY DEF With
<1>2. Name(d) = Pkg[f].name
  BY DEF Name
<1>3. DOMAIN new = DOMAIN list \cup {Name(d)}
  BY <1>1 DEF KeepNewest
<1>4. DOMAIN new = {Pkg[g].name : g \in S \cup {f}}
  BY <1>2, <1>3 DEF Lists
<1>5. \A n \in DOMAIN new :
        \/ n = Name(d) /\ new[n] = d
        \/ n \in DOMAIN list /\ new[n] = list[n]
  BY <1>1, <1>3 DEF KeepNewest
<1>6. ASSUME NEW n \in DOMAIN new
      PROVE  /\ new[n].filename \in S \cup {f} /\ Pkg[new[n].filename].name = n
             /\ \A g \in S \cup {f} : Pkg[g].name = n => AtMost(g, new[n].filename)
  <2>1. CASE n # Name(d)
    <3>1. n \in DOMAIN list /\ new[n] = list[n]
      BY <1>5, <2>1
    <3> QED BY <1>2, <2>1, <3>1 DEF Lists
  <2>2. CASE n = Name(d) /\ n \in DOMAIN list /\ ~NewerThan(d, list[n])
    <3>1. new[n] = list[n]
      BY <2>2 DEF KeepNewest
    <3>2. list[n].filename \in S /\ AtMost(f, list[n].filename)
      BY <2>2, AtMostOrders DEF Lists, NewerThan
    <3> QED BY <2>2, <3>1, <3>2 DEF Lists
  <2>3. CASE n = Name(d) /\ n \in DOMAIN list /\ NewerThan(d, list[n])
    <3>1. new[n] = d
      BY <1>1, <2>3 DEF KeepNewest
    <3>2. list[n].filename \in S /\ AtMost(list[n].filename, f)
      BY <2>3, AtMostOrders DEF Lists, NewerThan
    <3>3. \A g \in S : Pkg[g].name = n => AtMost(g, list[n].filename)
      BY <2>3 DEF Lists
    <3>4. AtMost(f, f) /\ \A g \in S : Pkg[g].name = n => AtMost(g, f)
      BY <3>2, <3>3, AtMostOrders
    <3> HIDE DEF f, new
    <3> QED BY <1>2, <2>3, <3>1, <3>4 DEF f
  <2>4. CASE n = Name(d) /\ n \notin DOMAIN list
    <3>1. new[n] = d
      BY <1>1, <2>4 DEF KeepNewest
    <3>2. \A g \in S : Pkg[g].name # n
      BY <2>4 DEF Lists
    <3>3. AtMost(f, f)
      BY AtMostOrders
    <3> HIDE DEF f, new
    <3> QED BY <1>2, <2>4, <3>1, <3>2, <3>3 DEF f
  <2> QED BY <2>1, <2>2, <2>3, <2>4
<1> HIDE DEF f, new
<1>7. Lists(new, S \cup {f})
  BY <1>4, <1>6 DEF Lists
<1> QED BY <1>5, <1>7 DEF f, new

\* What a tool has collected outlives the steps that leave it alone, if they say what they
\* touch, and a tool that has collected nothing is right about all of it.
Carries(r, q) ==
  /\ q.newest = r.newest /\ q.seen = r.seen /\ q.queue = r.queue /\ q.reading = r.reading
  /\ r.changed \subseteq q.changed
AsItWas(f) ==
  /\ archive'[f] = archive[f] /\ (f \in DOMAIN sig' <=> f \in DOMAIN sig)
  /\ f \in DOMAIN sig => sig'[f] = sig[f]

LEMMA ListStays ==
  ASSUME NEW r, NEW q, ListOK(r, archive, sig), Carries(r, q),
         \A f \in Names : f \in q.changed \/ AsItWas(f),
         q.at = r.at \/ (q.at \notin {"describe", "hash"} \cup Early /\ r.queue = {})
  PROVE  ListOK(q, archive', sig')
<1>1. \A n \in DOMAIN r.newest : r.newest[n].filename \in Names
  BY DEF ListOK, Lists
<1>2. \A n \in DOMAIN q.newest : q.newest[n].filename \in q.changed \/ AsItIs(q.newest[n], archive', sig')
  <2> SUFFICES ASSUME NEW n \in DOMAIN r.newest, r.newest[n].filename \notin q.changed
               PROVE  AsItIs(r.newest[n], archive', sig')
    BY DEF Carries
  <2>1. AsItIs(r.newest[n], archive, sig)
    BY DEF ListOK, Carries
  <2>2. AsItWas(r.newest[n].filename)
    BY <1>1
  <2> QED BY <2>1, <2>2 DEF AsItIs, AsItWas
<1>3. q.at = "hash" =>
        /\ q.queue # {} /\ Earliest(q.queue) \notin Broken
        /\ Earliest(q.queue) \in q.changed \/ q.reading = archive'[Earliest(q.queue)]
  <2> SUFFICES ASSUME q.at = "hash", r.at = "hash"
               PROVE  /\ q.queue # {} /\ Earliest(q.queue) \notin Broken
                      /\ Earliest(q.queue) \in q.changed \/ q.reading = archive'[Earliest(q.queue)]
    BY DEF Early
  <2>1. /\ r.queue # {} /\ r.queue \in SUBSET Names /\ Earliest(r.queue) \notin Broken
        /\ Earliest(r.queue) \in r.changed \/ r.reading = archive[Earliest(r.queue)]
    BY DEF ListOK
  <2>2. Earliest(r.queue) \in Names
    BY <2>1, EarliestIn
  <2> QED BY <2>1, <2>2 DEF Carries, AsItWas
<1>4. Lists(q.newest, q.seen \ q.queue)
  BY DEF ListOK, Carries
<1>5. q.at \in Early => Blank(q)
  BY DEF ListOK, Carries, Blank, Early
<1> QED BY <1>2, <1>3, <1>4, <1>5 DEF ListOK, Carries, Early

LEMMA BlankOK ==
  ASSUME NEW r, Blank(r), r.at # "hash", NEW arc, NEW sg PROVE ListOK(r, arc, sg)
<1>1. DOMAIN r.newest = {} /\ r.seen \ r.queue = {}
  BY DEF Blank
<1>2. Lists(r.newest, r.seen \ r.queue)
  BY <1>1 DEF Lists
<1> QED BY <1>1, <1>2 DEF ListOK, Blank

\* What a step leaves of the other tools.
LEMMA OthersCarry ==
  ASSUME ShapeOK, NEW t \in Tools, NEW u \in Tools, u # t,
         \/ Start(t) \/ PlaceArchive(t) \/ Unsign(t) \/ GpgReads(t) \/ Seal(t)
         \/ Scan(t) \/ ReadInfo(t) \/ Hash(t) \/ CreateDraft(t) \/ Fill(t) \/ Rename(t)
         \/ Unlink(t) \/ Link(t) \/ DropFiles(t) \/ DropAlias(t) \/ Stop(t)
  PROVE  /\ Carries(tool[u], tool'[u]) /\ tool'[u].at = tool[u].at
         /\ \A f \in Names : f \in tool'[u].changed \/ AsItWas(f)
<1> DEFINE Moves(f) == tool'[u] = [tool[u] EXCEPT !.changed = @ \cup {f}]
<1>1. DOMAIN tool[u] = DOMAIN Idle /\ DOMAIN archive = Names
  BY DEF ShapeOK, ToolOK
<1>2. CASE \/ Start(t) \/ GpgReads(t) \/ Scan(t) \/ ReadInfo(t) \/ Hash(t) \/ CreateDraft(t)
           \/ Fill(t) \/ Unlink(t) \/ Link(t) \/ DropAlias(t) \/ Stop(t)
           \/ (Rename(t) /\ tool[t].on \notin DOMAIN draft)
  <2>1. archive' = archive /\ sig' = sig
    BY <1>2 DEF Start, GpgReads, Scan, ReadInfo, Hash, CreateDraft, Fill, Unlink, Link, DropAlias,
                Stop, Rename, dir
  <2>2. tool'[u] = tool[u]
    BY <1>2 DEF Start, GpgReads, Scan, ReadInfo, Hash, CreateDraft, Fill, Unlink, Link, DropAlias,
                Stop, Rename, Goes, Goto, ShapeOK
  <2> QED BY <2>1, <2>2 DEF Carries, AsItWas
<1>3. CASE (Rename(t) /\ tool[t].on \in DOMAIN draft) \/ DropFiles(t)
  <2>1. archive' = archive /\ sig' = sig
    BY <1>3 DEF Rename, DropFiles
  <2>2. tool'[u] = tool[u] \/ \E h : tool'[u] = [tool[u] EXCEPT !.handle = h]
    BY <1>3 DEF Rename, PutInPlace, DropFiles
  <2> QED BY <1>1, <2>1, <2>2 DEF Carries, AsItWas, Idle
<1>4. ASSUME NEW f, Moves(f), \A g \in Names \ {f} : AsItWas(g)
      PROVE  /\ Carries(tool[u], tool'[u]) /\ tool'[u].at = tool[u].at
             /\ \A g \in Names : g \in tool'[u].changed \/ AsItWas(g)
  BY <1>1, <1>4 DEF Carries, Idle
<1>5. CASE PlaceArchive(t)
  <2>1. Moves(Head(tool[t].todo)) /\ sig' = sig
        /\ archive' = [archive EXCEPT ![Head(tool[t].todo)] = builds + 1]
    BY <1>5 DEF PlaceArchive, GoesOver
  <2> QED BY <1>1, <1>4, <2>1 DEF AsItWas
<1>6. CASE Unsign(t)
  <2>1. Moves(Item(t)) /\ sig' = Without(sig, Item(t)) /\ archive' = archive
    BY <1>6 DEF Unsign, GoesOver
  <2>2. DOMAIN sig' = DOMAIN sig \ {Item(t)} /\ \A y \in DOMAIN sig \ {Item(t)} : sig'[y] = sig[y]
    BY <2>1, Lacking
  <2> QED BY <1>4, <2>1, <2>2 DEF AsItWas
<1>7. CASE Seal(t)
  <2>1. Moves(Item(t)) /\ sig' = With(sig, Item(t), tool[t].saw[1]) /\ archive' = archive
    BY <1>7 DEF Seal, GoesOver
  <2>2. DOMAIN sig' = DOMAIN sig \cup {Item(t)} /\ \A y \in DOMAIN sig : y # Item(t) => sig'[y] = sig[y]
    BY <2>1 DEF With
  <2> QED BY <1>4, <2>1, <2>2 DEF AsItWas
<1> QED BY <1>2, <1>3, <1>5, <1>6, <1>7

LEMMA OnwardBlank ==
  ASSUME NEW r, DOMAIN r = DOMAIN Idle, Blank(r), NEW todo
  PROVE  Blank(Onward(r, todo)) /\ Onward(r, todo).at # "hash"
<1>1. CASE todo # <<>>
  BY <1>1 DEF Onward, Blank, Idle
<1>2. CASE todo = <<>> /\ r.add
  BY <1>2 DEF Onward, Blank, Idle
<1>3. CASE todo = <<>> /\ ~r.add
  BY <1>3 DEF Onward, Blank, Idle
<1> QED BY <1>1, <1>2, <1>3

\* The steps that leave a tool with nothing collected.
LEMMA BlankMoves ==
  ASSUME ShapeOK, NEW t \in Tools, ListOK(tool[t], archive, sig),
         \/ Start(t) \/ PlaceArchive(t) \/ Unsign(t) \/ GpgReads(t) \/ Seal(t)
         \/ DropAlias(t) \/ Stop(t)
  PROVE  Blank(tool'[t]) /\ tool'[t].at # "hash"
<1> DEFINE r == tool[t]
<1>1. DOMAIN r = DOMAIN Idle
  BY DEF ShapeOK, ToolOK
<1>2. Blank(Idle) /\ Blank(AfterFiles(t)) /\ Idle.at # "hash" /\ AfterFiles(t).at # "hash"
  BY DEF Blank, AfterFiles, Idle
<1>3. CASE Start(t)
  <2> DEFINE q(c, config) ==
        [Idle EXCEPT !.add = c.add, !.files = c.files, !.sign = Signs(c.signing, config)]
  <2>1. PICK c \in Commands, config \in Configs : Goes(t, Onward(q(c, config), c.build))
    BY <1>3 DEF Start
  <2>2. DOMAIN q(c, config) = DOMAIN Idle /\ Blank(q(c, config))
    BY DEF Idle, Blank
  <2> HIDE DEF q
  <2>3. tool'[t] = Onward(q(c, config), c.build)
    BY <2>1, OneMoves
  <2> QED BY <2>2, <2>3, OnwardBlank
<1>4. CASE PlaceArchive(t)
  <2>1. Blank(r)
    BY <1>4 DEF PlaceArchive, At, ListOK, Early
  <2>2. Blank([r EXCEPT !.at = "unsign"]) /\ [r EXCEPT !.at = "unsign"].at = "unsign"
    BY <1>1, <2>1 DEF Blank, Idle
  <2>3. tool'[t] \in {[r EXCEPT !.at = "unsign"], Onward(r, Tail(r.todo))}
    BY <1>4, OneMovesOver DEF PlaceArchive
  <2>4. Blank(Onward(r, Tail(r.todo))) /\ Onward(r, Tail(r.todo)).at # "hash"
    BY <1>1, <2>1, OnwardBlank
  <2>5. CASE tool'[t] = [r EXCEPT !.at = "unsign"]
    BY <2>2, <2>5
  <2>6. CASE tool'[t] = Onward(r, Tail(r.todo))
    BY <2>4, <2>6
  <2> QED BY <2>3, <2>5, <2>6
<1>5. CASE Unsign(t) \/ GpgReads(t)
  <2>1. Blank(r)
    BY <1>5 DEF Unsign, GpgReads, At, ListOK, Early
  <2>2. tool'[t] \in {[r EXCEPT !.at = "gpg"], [r EXCEPT !.at = "seal", !.saw = <<Bytes(Item(t))>>]}
    BY <1>5, OneMoves, OneMovesOver DEF Unsign, GpgReads
  <2> QED BY <1>1, <2>1, <2>2 DEF Blank, Idle
<1>6. CASE Seal(t)
  <2> DEFINE q == [r EXCEPT !.saw = <<>>]
  <2>1. Blank(r)
    BY <1>6 DEF Seal, At, ListOK, Early
  <2>2. DOMAIN q = DOMAIN Idle /\ Blank(q)
    BY <1>1, <2>1 DEF Blank, Idle
  <2>3. tool'[t] \in {[q EXCEPT !.at = "unlink", !.on = "sig"], Onward(q, Tail(r.todo))}
    BY <1>6, OneMovesOver DEF Seal
  <2> DEFINE u == [q EXCEPT !.at = "unlink", !.on = "sig"]
  <2>4. Blank(u) /\ u.at # "hash"
    BY <1>1, <2>1 DEF Blank, Idle
  <2> HIDE DEF q
  <2>5. Blank(Onward(q, Tail(r.todo))) /\ Onward(q, Tail(r.todo)).at # "hash"
    BY <2>2, OnwardBlank
  <2>6. tool'[t] \in {u, Onward(q, Tail(r.todo))}
    BY <2>3
  <2> HIDE DEF u, r
  <2>7. CASE tool'[t] = u
    BY <2>4, <2>7
  <2>8. CASE tool'[t] = Onward(q, Tail(r.todo))
    BY <2>5, <2>8
  <2> QED BY <2>6, <2>7, <2>8
<1>7. CASE DropAlias(t) \/ Stop(t)
  BY <1>2, <1>7, OneMoves DEF DropAlias, Stop
<1> QED BY <1>3, <1>4, <1>5, <1>6, <1>7

\* The steps after the collecting.
LEMMA CarryMoves ==
  ASSUME ShapeOK, NEW t \in Tools, ListOK(tool[t], archive, sig),
         CreateDraft(t) \/ Fill(t) \/ Rename(t) \/ Unlink(t) \/ Link(t) \/ DropFiles(t)
  PROVE  /\ archive' = archive /\ sig' = sig
         /\ \/ Blank(tool'[t]) /\ tool'[t].at # "hash"
            \/ /\ Carries(tool[t], tool'[t]) /\ tool[t].queue = {}
               /\ tool'[t].at \notin {"describe", "hash"} \cup Early
<1> DEFINE r == tool[t]
<1>1. DOMAIN r = DOMAIN Idle
  BY DEF ShapeOK, ToolOK
<1>2. Blank(Idle) /\ Blank(AfterFiles(t)) /\ Idle.at # "hash" /\ AfterFiles(t).at # "hash"
  BY DEF Blank, AfterFiles, Idle
<1>3. archive' = archive /\ sig' = sig
  BY DEF CreateDraft, Fill, Rename, Unlink, Link, DropFiles
<1>4. r.at \in {"files", "fill", "rename", "unlink", "link"} => r.queue = {}
  BY DEF ListOK
<1>5. CASE CreateDraft(t)
  <2>1. PICK d \in {"db", "files"} :
          Ready(t, d) /\ Goes(t, [r EXCEPT !.at = "fill", !.on = d, !.handle = "draft"])
    BY <1>5 DEF CreateDraft
  <2>2. tool'[t] = [r EXCEPT !.at = "fill", !.on = d, !.handle = "draft"]
    BY <2>1, OneMoves
  <2>3. r.queue = {}
    BY <1>4, <2>1 DEF Ready, At
  <2> QED BY <1>1, <1>3, <2>2, <2>3 DEF Carries, Idle, Early
<1>6. CASE Fill(t)
  <2>1. tool'[t] = [r EXCEPT !.at = "rename", !.handle = "none"] /\ r.at = "fill"
    BY <1>6, OneMoves DEF Fill, At
  <2> QED BY <1>1, <1>3, <1>4, <2>1 DEF Carries, Idle, Early
<1>7. CASE Rename(t)
  <2>1. r.at = "rename" /\ (tool'[t] = [r EXCEPT !.at = "unlink"] \/ tool'[t] = Idle)
    BY <1>7, OneMoves DEF Rename, PutInPlace, At
  <2> QED BY <1>1, <1>2, <1>3, <1>4, <2>1 DEF Carries, Idle, Early
<1>8. CASE Unlink(t)
  <2>1. r.at = "unlink" /\ tool'[t] = [r EXCEPT !.at = "link"]
    BY <1>8 DEF Unlink, Goto, At, ShapeOK
  <2> QED BY <1>1, <1>3, <1>4, <2>1 DEF Carries, Idle, Early
<1>9. CASE Link(t)
  <2>1. r.at = "link" /\ r.on \in {"db", "files", "sig"}
    BY <1>9 DEF Link, At, ShapeOK, ToolOK
  <2>2. tool'[t] \in {Idle, [r EXCEPT !.at = "files"], AfterFiles(t)}
    <3>1. CASE r.on \in alias
      BY <1>9, <3>1, OneMoves DEF Link
    <3>2. CASE r.on \notin alias /\ r.on = "db"
      BY <1>9, <3>2, OneMoves DEF Link
    <3>3. CASE r.on \notin alias /\ r.on = "files"
      BY <1>9, <3>3, OneMoves DEF Link
    <3>4. CASE r.on \notin alias /\ r.on = "sig"
      BY <1>9, <3>4, OneMoves DEF Link
    <3> QED BY <2>1, <3>1, <3>2, <3>3, <3>4
  <2>3. Carries(r, [r EXCEPT !.at = "files"]) /\ [r EXCEPT !.at = "files"].at = "files"
    BY <1>1 DEF Carries, Idle
  <2>4. "files" \notin {"describe", "hash"} \cup Early
    BY DEF Early
  <2> QED BY <1>2, <1>3, <1>4, <2>1, <2>2, <2>3, <2>4
<1>10. CASE DropFiles(t)
  <2>1. r.at = "files" /\ tool'[t] = [r EXCEPT !.at = "unname"]
    BY <1>10 DEF DropFiles, At
  <2> QED BY <1>1, <1>3, <1>4, <2>1 DEF Carries, Idle, Early
<1> QED BY <1>5, <1>6, <1>7, <1>8, <1>9, <1>10

\* The collecting itself.
LEMMA ScanLists ==
  ASSUME ShapeOK, NEW t \in Tools, ListOK(tool[t], archive, sig), Scan(t)
  PROVE  ListOK(tool'[t], archive', sig')
<1> DEFINE r == tool[t]
           q == [r EXCEPT !.at = "describe", !.queue = Present, !.seen = Present \ Broken,
                          !.changed = {}]
<1>1. DOMAIN r = DOMAIN Idle /\ Blank(r)
  BY DEF ShapeOK, ToolOK, Scan, At, ListOK, Early
<1>2. tool'[t] = q
  BY OneMoves DEF Scan
<1>3. q.at = "describe" /\ q.queue = Present /\ q.seen = Present \ Broken /\ q.newest = r.newest
  BY <1>1 DEF Idle
<1>4. q.queue \subseteq Names /\ q.seen \subseteq Names \ Broken /\ q.queue \ Broken \subseteq q.seen
  BY <1>3 DEF Present
<1>5. DOMAIN q.newest = {} /\ q.seen \ q.queue = {}
  BY <1>1, <1>3 DEF Blank
<1>6. Lists(q.newest, q.seen \ q.queue)
  BY <1>5 DEF Lists
<1> HIDE DEF q
<1> QED BY <1>2, <1>3, <1>4, <1>5, <1>6 DEF ListOK, Early

LEMMA ReadLists ==
  ASSUME ShapeOK, NEW t \in Tools, ListOK(tool[t], archive, sig), ReadInfo(t)
  PROVE  ListOK(tool'[t], archive', sig')
<1> DEFINE r == tool[t]
           f == Earliest(r.queue)
<1>1. DOMAIN r = DOMAIN Idle /\ r.queue # {} /\ r.at = "describe" /\ r.queue \in SUBSET Names
  BY DEF ShapeOK, ToolOK, ReadInfo, At, ListOK
<1>2. archive' = archive /\ sig' = sig
  BY DEF ReadInfo, dir
<1>3. f \in r.queue
  BY <1>1, EarliestIn
<1>4. CASE f \in Broken
  <2>1. tool'[t] = [r EXCEPT !.queue = @ \ {f}]
    BY <1>4, OneMoves DEF ReadInfo
  <2> DEFINE q == [r EXCEPT !.queue = @ \ {f}]
  <2>2. q.at = "describe" /\ q.queue = r.queue \ {f} /\ q.seen = r.seen /\ q.newest = r.newest
        /\ q.changed = r.changed
    BY <1>1 DEF Idle
  <2>3. q.seen \ q.queue = r.seen \ r.queue
    BY <1>4, <2>2 DEF ListOK
  <2> HIDE DEF q, f
  <2> QED BY <1>2, <1>4, <2>1, <2>2, <2>3 DEF ListOK, Early, q
<1>5. CASE f \notin Broken
  <2>1. tool'[t] = [r EXCEPT !.at = "hash", !.reading = archive[f]]
    BY <1>5, OneMoves DEF ReadInfo
  <2> DEFINE q == [r EXCEPT !.at = "hash", !.reading = archive[f]]
  <2>2. q.at = "hash" /\ q.queue = r.queue /\ q.seen = r.seen /\ q.newest = r.newest
        /\ q.changed = r.changed /\ q.reading = archive[Earliest(q.queue)]
    BY <1>1 DEF Idle
  <2> HIDE DEF q
  <2> QED BY <1>1, <1>2, <1>5, <2>1, <2>2 DEF ListOK, Early, q
<1> QED BY <1>4, <1>5

LEMMA HashLists ==
  ASSUME ShapeOK, \A f \in Names \ Broken : Pkg[f].version \in Released,
         NEW t \in Tools, ListOK(tool[t], archive, sig), Hash(t)
  PROVE  ListOK(tool'[t], archive', sig')
<1> DEFINE r == tool[t]
           f == Earliest(r.queue)
           d == Described(f, r.reading, archive[f])
           q == [r EXCEPT !.at = "describe", !.queue = @ \ {f}, !.reading = 0,
                          !.newest = KeepNewest(@, d)]
<1>1. /\ DOMAIN r = DOMAIN Idle /\ r.queue # {} /\ r.queue \in SUBSET Names
      /\ f \notin Broken
      /\ f \in r.changed \/ r.reading = archive[f]
  BY DEF ShapeOK, ToolOK, Hash, At, ListOK
<1>2. archive' = archive /\ sig' = sig /\ tool'[t] = q
  BY OneMoves DEF Hash, dir
<1>3. f \in r.queue /\ f \in r.seen /\ f \in Names \ Broken
  BY <1>1, EarliestIn DEF ListOK
<1>4. d.filename = f /\ (f \in r.changed \/ AsItIs(d, archive, sig))
  BY <1>1 DEF Described, AsItIs
<1>5. /\ q.at = "describe" /\ q.queue = r.queue \ {f} /\ q.seen = r.seen /\ q.changed = r.changed
      /\ q.newest = KeepNewest(r.newest, d)
  BY <1>1 DEF Idle
<1> HIDE DEF q, d, f
<1>6. q.seen \ q.queue = (r.seen \ r.queue) \cup {f}
  BY <1>3, <1>5
<1>7. Lists(r.newest, r.seen \ r.queue) /\ r.seen \ r.queue \in SUBSET (Names \ Broken)
  BY DEF ListOK
<1>8. /\ Lists(q.newest, q.seen \ q.queue)
      /\ \A n \in DOMAIN q.newest :
           q.newest[n] = d \/ (n \in DOMAIN r.newest /\ q.newest[n] = r.newest[n])
  BY <1>3, <1>4, <1>5, <1>6, <1>7, OneMore
<1>9. \A n \in DOMAIN q.newest : q.newest[n].filename \in q.changed \/ AsItIs(q.newest[n], archive, sig)
  BY <1>4, <1>5, <1>8 DEF ListOK
<1> QED BY <1>2, <1>5, <1>8, <1>9 DEF ListOK, Early

LEMMA ListStep ==
  ASSUME \A f \in Names \ Broken : Pkg[f].version \in Released, ShapeOK, ListInv, [Next]_vars
  PROVE  ListInv'
<1> USE DEF dir
<1>1. CASE UNCHANGED vars
  BY <1>1 DEF vars, ListInv
<1>2. ASSUME NEW t \in Tools,
             \/ Start(t) \/ PlaceArchive(t) \/ Unsign(t) \/ GpgReads(t) \/ Seal(t)
             \/ Scan(t) \/ ReadInfo(t) \/ Hash(t) \/ CreateDraft(t) \/ Fill(t) \/ Rename(t)
             \/ Unlink(t) \/ Link(t) \/ DropFiles(t) \/ DropAlias(t) \/ Stop(t)
      PROVE  ListInv'
  <2>1. ListOK(tool[t], archive, sig)
    BY DEF ListInv
  <2>2. ListOK(tool'[t], archive', sig')
    <3>1. CASE Start(t) \/ PlaceArchive(t) \/ Unsign(t) \/ GpgReads(t) \/ Seal(t)
               \/ DropAlias(t) \/ Stop(t)
      BY <2>1, <3>1, BlankMoves, BlankOK
    <3>2. CASE CreateDraft(t) \/ Fill(t) \/ Rename(t) \/ Unlink(t) \/ Link(t) \/ DropFiles(t)
      <4>1. archive' = archive /\ sig' = sig
        BY <2>1, <3>2, CarryMoves
      <4>2. \A f : AsItWas(f)
        BY <4>1 DEF AsItWas
      <4>3. CASE Blank(tool'[t]) /\ tool'[t].at # "hash"
        BY <4>3, BlankOK
      <4>4. CASE /\ Carries(tool[t], tool'[t]) /\ tool[t].queue = {}
                 /\ tool'[t].at \notin {"describe", "hash"} \cup Early
        BY <2>1, <4>2, <4>4, ListStays
      <4> QED BY <2>1, <3>2, <4>3, <4>4, CarryMoves
    <3>3. CASE Scan(t) \/ ReadInfo(t) \/ Hash(t)
      BY <2>1, <3>3, ScanLists, ReadLists, HashLists
    <3> QED BY <1>2, <3>1, <3>2, <3>3
  <2>3. ASSUME NEW u \in Tools, u # t PROVE ListOK(tool'[u], archive', sig')
    <3>1. ListOK(tool[u], archive, sig)
      BY DEF ListInv
    <3> QED BY <1>2, <2>3, <3>1, OthersCarry, ListStays
  <2> QED BY <2>2, <2>3 DEF ListInv
<1> QED BY <1>1, <1>2 DEF Next

\* A draft stays its tool's own until it is renamed, or another tool opens it, too.
LEMMA OwnStep == ShapeOK /\ DraftInv /\ OwnInv /\ [Next]_vars => OwnInv'
<1> SUFFICES ASSUME ShapeOK, DraftInv, OwnInv, [Next]_vars PROVE OwnInv'
  OBVIOUS
<1> USE DEF dir
<1>1. CASE UNCHANGED vars
  BY <1>1 DEF vars, OwnInv, At
<1>2. ASSUME NEW t \in Tools,
             \/ Start(t) \/ PlaceArchive(t) \/ Unsign(t) \/ GpgReads(t) \/ Seal(t)
             \/ Scan(t) \/ ReadInfo(t) \/ Hash(t) \/ CreateDraft(t) \/ Fill(t) \/ Rename(t)
             \/ Unlink(t) \/ Link(t) \/ DropFiles(t) \/ DropAlias(t) \/ Stop(t)
      PROVE  OwnInv'
  <2>0. \A u \in Tools : ToolOK(tool[u])
    BY DEF ShapeOK
  <2>1. ASSUME NEW u \in Tools, u # t
        PROVE  tool'[u].newest = tool[u].newest /\ tool'[u].at = tool[u].at /\ tool'[u].on = tool[u].on
    <3>1. tool'[u].newest = tool[u].newest /\ tool'[u].at = tool[u].at
      BY <1>2, <2>1, OthersCarry DEF Carries
    <3>2. CASE OthersStand(t)
      BY <2>1, <3>1, <3>2 DEF OthersStand, Same
    <3>3. CASE (Rename(t) /\ tool[t].on \in DOMAIN draft) \/ DropFiles(t)
      BY <2>1, <3>1, <3>3, RenameMoves, DropMoves DEF Same
    <3>4. CASE CreateDraft(t)
      <4>1. OthersStand(t)
        BY <3>4, DraftMoves DEF CreateDraft
      <4> QED BY <3>2, <4>1
    <3>5. CASE Rename(t) /\ tool[t].on \notin DOMAIN draft
      <4>1. OthersStand(t)
        BY <3>5, OneMoves DEF Rename
      <4> QED BY <3>2, <4>1
    <3> QED BY <1>2, <3>2, <3>3, <3>4, <3>5, StartMoves, ArchiveMoves, SignMoves, ScanMoves,
               DraftMoves, LinkMoves
  <2>2. ASSUME draft' = draft, tool'[t].at # "rename" PROVE OwnInv'
    BY <2>1, <2>2 DEF OwnInv, At
  <2>3. CASE \/ Start(t) \/ PlaceArchive(t) \/ Unsign(t) \/ GpgReads(t) \/ Seal(t)
             \/ Scan(t) \/ ReadInfo(t) \/ Hash(t) \/ Unlink(t) \/ Link(t) \/ DropAlias(t) \/ Stop(t)
    <3>1. draft' = draft
      BY <2>3 DEF Start, PlaceArchive, Unsign, GpgReads, Seal, Scan, ReadInfo, Hash, Unlink, Link,
                  DropAlias, Stop
    <3>2. tool'[t].at # "rename"
      BY <2>3, StartMoves, ArchiveMoves, SignMoves, ScanMoves, LinkMoves DEF Calm
    <3> QED BY <2>2, <3>1, <3>2
  <2>4. CASE DropFiles(t)
    <3>1. draft' = draft /\ tool'[t].at = "unname"
      BY <2>4, DropMoves DEF DropFiles
    <3> QED BY <2>2, <3>1
  <2>5. CASE CreateDraft(t)
    <3>1. PICK d \in {"db", "files"} :
            /\ draft' = With(draft, d, Half(\E u \in Tools \ {t} : HasDraft(u, d)))
            /\ Goes(t, [tool[t] EXCEPT !.at = "fill", !.on = d, !.handle = "draft"])
      BY <2>5 DEF CreateDraft
    <3>2. tool'[t].at = "fill"
      BY <3>1, DraftMoves
    <3>3. /\ DOMAIN draft' = DOMAIN draft \cup {d}
          /\ \A e \in DOMAIN draft : e # d => draft'[e] = draft[e]
          /\ draft'[d] = Half(\E u \in Tools \ {t} : HasDraft(u, d))
      BY <3>1 DEF With
    <3>4. draft'[d].shared = (\E u \in Tools \ {t} : HasDraft(u, d))
      BY <3>3 DEF Half
    <3>5. ASSUME NEW u \in Tools, tool'[u].at = "rename", tool'[u].on \in DOMAIN draft'
          PROVE  draft'[tool'[u].on].shared \/ draft'[tool'[u].on].list = tool'[u].newest
      <4>1. u # t /\ tool[u].at = "rename" /\ tool'[u].on = tool[u].on
            /\ tool'[u].newest = tool[u].newest
        BY <2>1, <3>2, <3>5
      <4>2. CASE tool[u].on = d
        BY <3>4, <4>1, <4>2 DEF HasDraft
      <4>3. CASE tool[u].on # d
        BY <3>3, <3>5, <4>1, <4>3 DEF OwnInv, At
      <4> QED BY <4>2, <4>3
    <3> QED BY <3>5 DEF OwnInv, At
  <2>6. CASE Fill(t)
    <3> DEFINE d == tool[t].on
    <3>1. tool[t].at = "fill" /\ tool'[t].at = "rename" /\ tool'[t].on = d
          /\ tool'[t].newest = tool[t].newest
      <4>1. tool'[t] = [tool[t] EXCEPT !.at = "rename", !.handle = "none"] /\ tool[t].at = "fill"
        BY <2>6, OneMoves DEF Fill, At
      <4> QED BY <2>0, <4>1 DEF ToolOK, Idle
    <3>2. CASE tool[t].handle = "draft"
      <4>1. d \in DOMAIN draft
        BY <2>6, <3>1, <3>2, FillWrites
      <4>2. PICK c \in Filled(draft[d], t) : draft' = With(draft, d, c)
        BY <2>6, <3>2, FillWrites
      <4>3. FileOK(draft[d])
        BY <4>1 DEF ShapeOK, Files
      <4>4. c.list = tool[t].newest /\ c.shared = draft[d].shared
        BY <4>3 DEF Filled, FileOK
      <4>5. DOMAIN draft' = DOMAIN draft /\ draft'[d] = c
            /\ \A e \in DOMAIN draft : e # d => draft'[e] = draft[e]
        BY <4>1, <4>2 DEF With
      <4>6. ASSUME NEW u \in Tools, tool'[u].at = "rename", tool'[u].on \in DOMAIN draft'
            PROVE  draft'[tool'[u].on].shared \/ draft'[tool'[u].on].list = tool'[u].newest
        <5>1. CASE u = t
          BY <3>1, <4>4, <4>5, <5>1
        <5>2. CASE u # t
          <6>1. tool[u].at = "rename" /\ tool'[u].on = tool[u].on /\ tool'[u].newest = tool[u].newest
            BY <2>1, <4>6, <5>2
          <6>2. CASE tool[u].on = d
            <7>1. draft[d].shared
              BY <3>1, <4>1, <5>2, <6>1, <6>2 DEF DraftInv, ManyShare, HasDraft, At
            <7> QED BY <4>4, <4>5, <6>1, <6>2, <7>1
          <6>3. CASE tool[u].on # d
            BY <4>5, <4>6, <6>1, <6>3 DEF OwnInv, At
          <6> QED BY <6>2, <6>3
        <5> QED BY <5>1, <5>2
      <4> QED BY <4>6 DEF OwnInv, At
    <3>3. CASE tool[t].handle # "draft"
      <4>1. draft' = draft
        BY <2>6, <3>3, FillWrites
      <4>2. d \in DOMAIN draft => draft[d].shared
        BY <3>1, <3>3 DEF DraftInv, HandlesHold, Opened, At
      <4>3. ASSUME NEW u \in Tools, tool'[u].at = "rename", tool'[u].on \in DOMAIN draft'
            PROVE  draft'[tool'[u].on].shared \/ draft'[tool'[u].on].list = tool'[u].newest
        <5>1. CASE u = t
          BY <3>1, <4>1, <4>2, <4>3, <5>1
        <5>2. CASE u # t
          BY <2>1, <4>1, <4>3, <5>2 DEF OwnInv, At
        <5> QED BY <5>1, <5>2
      <4> QED BY <4>3 DEF OwnInv, At
    <3> QED BY <3>2, <3>3
  <2>7. CASE Rename(t)
    <3>1. CASE tool[t].on \notin DOMAIN draft
      <4>1. draft' = draft /\ tool'[t] = Idle
        BY <2>7, <3>1, OneMoves DEF Rename
      <4> QED BY <2>2, <4>1 DEF Idle
    <3>2. CASE tool[t].on \in DOMAIN draft
      <4>1. draft' = Without(draft, tool[t].on) /\ tool'[t].at = "unlink"
        BY <2>7, <3>2, RenameMoves DEF Rename, PutInPlace
      <4>2. DOMAIN draft' \subseteq DOMAIN draft /\ \A e \in DOMAIN draft' : draft'[e] = draft[e]
        BY <4>1 DEF Without, Restrict
      <4> QED BY <2>1, <4>1, <4>2 DEF OwnInv, At
    <3> QED BY <3>1, <3>2
  <2> QED BY <1>2, <2>3, <2>4, <2>5, <2>6, <2>7
<1> QED BY <1>1, <1>2 DEF Next

\* What a database lists when it is put in place: exactly the packages of the archives that
\* were there when the tool looked, each by the newest of its archives, and one nobody
\* touched since with the bytes and the signature it has - for any tools, archives, names
\* and stops, where every archive that can be read carries a finished release: among other
\* versions there need be no newest (repodb.rs, build).
THEOREM NewestIsListed ==
  ASSUME \A f \in Names \ Broken : Pkg[f].version \in Released
  PROVE  Spec => NewestListed
<1> DEFINE Step == \A t \in Tools :
             At(t, "rename") /\ tool[t].on \in DOMAIN draft /\ ~draft[tool[t].on].shared
             /\ Rename(t) =>
               LET list == live'[tool[t].on].list IN
               /\ DOMAIN list = {Pkg[f].name : f \in tool[t].seen}
               /\ \A n \in DOMAIN list :
                    /\ list[n].filename \in Best(t, n)
                    /\ list[n].filename \notin tool[t].changed => Current(list[n])
<1>1. Init => OwnInv /\ ListInv
  <2> SUFFICES ASSUME Init PROVE OwnInv /\ ListInv
    OBVIOUS
  <2>1. \A t \in Tools : tool[t] = Idle
    BY DEF Init
  <2>2. Blank(Idle) /\ Idle.at = "idle"
    BY DEF Blank, Idle
  <2> QED BY <2>1, <2>2, BlankOK DEF OwnInv, ListInv, At
<1>2. OwnInv /\ ListInv /\ Inv /\ [Next]_vars => OwnInv' /\ ListInv'
  BY OwnStep, ListStep DEF Inv
<1>3. ASSUME Inv, OwnInv, ListInv PROVE Step
  <2> SUFFICES ASSUME NEW t \in Tools, At(t, "rename"), tool[t].on \in DOMAIN draft,
                      ~draft[tool[t].on].shared, Rename(t)
               PROVE  LET list == live'[tool[t].on].list IN
                      /\ DOMAIN list = {Pkg[f].name : f \in tool[t].seen}
                      /\ \A n \in DOMAIN list :
                           /\ list[n].filename \in Best(t, n)
                           /\ list[n].filename \notin tool[t].changed => Current(list[n])
    OBVIOUS
  <2>1. live'[tool[t].on].list = tool[t].newest
    <3>1. live' = With(live, tool[t].on, draft[tool[t].on])
      BY DEF Rename, PutInPlace
    <3>2. live'[tool[t].on] = draft[tool[t].on]
      BY <3>1 DEF With
    <3> QED BY <1>3, <3>2 DEF OwnInv
  <2>2. ListOK(tool[t], archive, sig) /\ tool[t].queue = {}
    BY <1>3 DEF ListInv, ListOK, At
  <2>3. Lists(tool[t].newest, tool[t].seen)
    <3>1. tool[t].seen \ tool[t].queue = tool[t].seen
      BY <2>2
    <3> QED BY <2>2, <3>1 DEF ListOK
  <2>4. ASSUME NEW n \in DOMAIN tool[t].newest
        PROVE  /\ tool[t].newest[n].filename \in Best(t, n)
               /\ tool[t].newest[n].filename \notin tool[t].changed => Current(tool[t].newest[n])
    <3>1. tool[t].newest[n].filename \in Best(t, n)
      BY <2>3, <2>4 DEF Lists, Best, AtMost
    <3>2. tool[t].newest[n].filename \notin tool[t].changed => AsItIs(tool[t].newest[n], archive, sig)
      BY <2>2, <2>4 DEF ListOK
    <3> QED BY <3>1, <3>2 DEF AsItIs, Current
  <2> QED BY <2>1, <2>3, <2>4 DEF Lists
<1>4. Spec => [](Inv /\ OwnInv /\ ListInv)
  <2>1. Spec => []Inv
    BY Always
  <2> QED BY <1>1, <1>2, <2>1, PTL DEF Spec
<1>5. NewestListed <=> [][Step]_vars
  BY DEF NewestListed
<1> QED BY <1>3, <1>4, <1>5, PTL

====

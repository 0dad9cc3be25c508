---- MODULE Build ----
(***************************************************************************)
(* Build: what `rvn build` puts into a package.  A manifest names files,   *)
(* symlinks and directories by where they go; staging turns them into one  *)
(* list of payload entries, which both the archive and its .MTREE are      *)
(* written from.  A path is a sequence of names, `.` and `..` among them   *)
(* in a manifest; `rank` puts names in byte order.                         *)
(***************************************************************************)
EXTENDS Naturals, Sequences, FiniteSets, SequencesExt

(* What is refused when the manifest is read.                              *)
NormaliseDest(raw) == SelectSeq(raw, LAMBDA name : name # ".")
CheckedDest(raw) == ~Contains(raw, "..") /\ NormaliseDest(raw) # <<>>

Dests(named) == {NormaliseDest(x.dest) : x \in named}
Accepted(m) ==
  /\ m.files \cup m.symlinks # {}
  /\ \A x \in m.directories \cup m.files \cup m.symlinks : CheckedDest(x.dest)

(* What fails while the tree is staged: directories are made first, then   *)
(* files are copied in, and a link's parents are made, though not the link.*)
Stageable(m) ==
  \A p \in Dests(m.directories) \cup Dests(m.files) \cup Dests(m.symlinks), f \in Dests(m.files) :
    ~IsStrictPrefix(f, p) /\ f \notin Dests(m.directories)

Payload(p, kind, data, to) == [path |-> p, kind |-> kind, data |-> data, to |-> to]

(* Every directory above a path is recorded too, unless something is there.*)
Parents(p) == {SubSeq(p, 1, n) : n \in 1..Len(p) - 1}
AddParents(paths) == UNION {Parents(p) : p \in paths}

(* A manifest names a destination once in each of its tables.              *)
Named(named, p) == CHOOSE x \in named : NormaliseDest(x.dest) = p

(* One entry per path; a link is recorded over a file, a file over nothing.*)
Stage(m) ==
  LET dests == Dests(m.directories) \cup Dests(m.files) \cup Dests(m.symlinks)
      entry(p) ==
        IF p \in Dests(m.symlinks) THEN Payload(p, "link", "", Named(m.symlinks, p).target)
        ELSE IF p \in Dests(m.files) THEN Payload(p, "file", Named(m.files, p).src, <<>>)
        ELSE Payload(p, "dir", "", <<>>)
  IN {entry(p) : p \in dests \cup AddParents(dests)}

(* The order of the paths as strings.                                      *)
PathBefore(rank, p, q) ==
  \/ IsStrictPrefix(p, q)
  \/ \E n \in DOMAIN p \cap DOMAIN q :
       SubSeq(p, 1, n - 1) = SubSeq(q, 1, n - 1) /\ rank[p[n]] < rank[q[n]]

Entries(m, rank) == SetToSortSeq(Stage(m), LAMBDA a, b : PathBefore(rank, a.path, b.path))

(* The .MTREE describes the metadata before it and the payload, and not    *)
(* itself; the archive has all three in front of the payload.              *)
Described(m) == IF m.script THEN <<".INSTALL", ".PKGINFO">> ELSE <<".PKGINFO">>
Metadata(m) == IF m.script THEN <<".INSTALL", ".MTREE", ".PKGINFO">> ELSE <<".MTREE", ".PKGINFO">>

Member(name) == Payload(<<name>>, "file", "metadata", <<>>)
Mtree(m, rank) == [n \in DOMAIN Described(m) |-> Member(Described(m)[n])] \o Entries(m, rank)
Archive(m, rank) == [n \in DOMAIN Metadata(m) |-> Member(Metadata(m)[n])] \o Entries(m, rank)
====

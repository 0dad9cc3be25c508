---- MODULE AftermathProofs ----
(***************************************************************************)
(* Proofs about what surrounds a transaction, for any packages, accounts,  *)
(* defaults and hooks, and however many steps fail.                        *)
(***************************************************************************)
EXTENDS Aftermath, FiniteSetTheorems, WellFoundedInduction, TLAPS

\* The steps of one package, after its files are there, and those of its lines.
OfPackage == {"script", "lines", "group", "passwd", "shadow", "rewrite", "copy"}
OfLines == OfPackage \ {"script"}
Pcs == OfPackage \cup {"idle", "pre", "unpack", "remove", "post"}

\* The lines still to apply are the last ones of a package.
Rest(s, ds) == /\ s \in Seq(ToSet(ds)) /\ Len(s) <= Len(ds)
               /\ \A j \in 1 .. Len(s) : s[j] = ds[Len(ds) - Len(s) + j]

TypeOK ==
  /\ DOMAIN tx = DOMAIN NoTx /\ tx.pc \in Pcs /\ tx.plan \subseteq Packages /\ tx.todo \subseteq Packages
  /\ hookdirs \in HookSets /\ installed \subseteq Packages
  /\ DOMAIN default = Targets /\ \A t \in Targets : default[t] \in {"none", "part", "whole", "admin"}
  /\ tx.pc \in OfPackage => tx.todo # {}
  /\ tx.pc \in OfLines => Rest(tx.lines, Decls[Package])
  /\ tx.pc \in {"group", "passwd", "shadow", "rewrite"} => tx.lines # <<>>
  /\ tx.pc = "group" => Line.kind \in {"u", "g"}
  /\ tx.pc \in {"passwd", "shadow"} => Line.kind = "u"
  /\ tx.pc = "rewrite" => Line.kind = "m"
  /\ tx.pc = "copy" => tx.lines = <<>> /\ tx.target \in Targets
  /\ tx.pc \in OfLines => tx.copies \subseteq Defaults[Package]

\* What has run, and is still to run, is what matched this transaction.
HooksOK ==
  /\ vetoed => tx.pc = "idle" /\ installed = was /\ called = {}
  /\ tx.pc = "pre" => installed = was /\ called = {}
  /\ \A n \in tx.hooks \cup ran : n \in HookNames /\ IsHook(Loaded(n))
  /\ tx.pc = "pre" => \A n \in tx.hooks : Loaded(n).ops \cap tx.ops # {}
  /\ tx.pc # "idle" => \A n \in ran : Loaded(n).when = "pre" => Loaded(n).ops \cap tx.ops # {}
  /\ tx.pc = "post" =>
       /\ \A n \in tx.hooks : Loaded(n).when = "post"
       /\ \A m \in HookNames :
            /\ IsHook(Loaded(m)) /\ Loaded(m).when = "post" /\ Unconditional(Loaded(m))
            /\ Loaded(m).ops \cap tx.ops # {}
            => m \in tx.hooks \cup ran

\* A user's group is there before the user, and the user before its shadow entry.
AccountsOK ==
  /\ AccountsAgree
  /\ \A g \in group : DOMAIN g = {"name", "id", "members"}
  /\ tx.pc = "passwd" => tx.gid \in Gids
  /\ tx.pc = "shadow" => Named(passwd, Line.name) # {}

\* What is installed is provided for, but for the package at hand; and of that
\* one the lines and the defaults that are behind it.
Whole(t) == default[t] \in {"whole", "admin"}
Behind == Len(Decls[Package]) - Len(tx.lines)
ProvidedOK ==
  ~cut =>
    /\ \A p \in installed : Provided(p) \/ (tx.pc \in OfPackage /\ p = Package)
    /\ tx.pc \in OfLines => /\ \A i \in 1 .. Behind : Applied(Package, i)
                            /\ \A t \in Defaults[Package] : t \in tx.copies \/ Whole(t)
    /\ \A t \in Targets : default[t] = "part" => tx.pc = "copy" /\ t = tx.target
    /\ outdated => \/ tx.pc = "script" /\ Notes(Package)
                   \/ tx.pc \in OfLines \cup {"unpack", "remove"} /\ tx.stale

Inv == TypeOK /\ HooksOK /\ AccountsOK /\ ProvidedOK

-----------------------------------------------------------------------------
(* The least and the greatest of some numbers, the next package, the next line. *)

LEMMA HasLeast == ASSUME NEW S \in SUBSET Nat, S # {} PROVE \E n \in S : \A m \in S : n <= m
<1>. DEFINE T == {0 .. n : n \in S}
<1>1. T \subseteq FiniteSubsetsOf(Nat)
  <2>. SUFFICES ASSUME NEW n \in S PROVE 0 .. n \in FiniteSubsetsOf(Nat)
       OBVIOUS
  <2>1. IsFiniteSet(0 .. n)
        BY FS_Interval
  <2>. QED BY <2>1 DEF FiniteSubsetsOf
<1>2. PICK x \in T : \A y \in T : <<y, x>> \notin StrictSubsetOrdering(Nat)
  <2>1. T # {}
        OBVIOUS
  <2>. HIDE DEF T
  <2>. QED BY <1>1, <2>1, FS_StrictSubsetOrderingWellFounded, WFMin, Zenon
<1>3. PICK n \in S : x = 0 .. n
      OBVIOUS
<1>4. ASSUME NEW m \in S PROVE n <= m
  <2>. SUFFICES ASSUME m < n PROVE FALSE
       OBVIOUS
  <2>1. 0 .. m \in T /\ 0 .. m \subseteq x /\ n \in x /\ n \notin 0 .. m
        BY <1>3
  <2>2. 0 .. m \in SUBSET Nat /\ x \in SUBSET Nat
        BY <1>3
  <2>3. <<0 .. m, x>> \in StrictSubsetOrdering(Nat)
        BY <2>1, <2>2 DEF StrictSubsetOrdering
  <2>. QED BY <1>2, <2>1, <2>3
<1>. QED BY <1>4

LEMMA LeastIsThere == ASSUME NEW S \in SUBSET Nat, S # {} PROVE Min(S) \in S
BY HasLeast DEF Min

LEMMA GreatestIsThere ==
  ASSUME NEW N \in Nat, NEW S \in SUBSET (1 .. N), S # {} PROVE Max(S) \in S
<1>. DEFINE T == {t \in 0 .. N : N - t \in S}
<1>1. \A n \in S : n \in 1 .. N /\ N - n \in T
      OBVIOUS
<1>2. T \in SUBSET Nat /\ T # {}
  <2>1. T \in SUBSET Nat
        OBVIOUS
  <2>2. PICK n \in S : TRUE
        OBVIOUS
  <2>3. N - n \in T
        BY <1>1
  <2>. HIDE DEF T
  <2>. QED BY <2>1, <2>3
<1>3. PICK t \in T : \A m \in T : t <= m
      BY <1>2, HasLeast
<1>4. ASSUME NEW n \in S PROVE n <= N - t
  <2>1. n \in 1 .. N /\ t <= N - n /\ t \in 0 .. N
        BY <1>1, <1>3
  <2>. QED BY <2>1
<1>5. N - t \in S
      BY <1>3
<1>. QED BY <1>4, <1>5 DEF Max

LEMMA NextPackage ==
  ASSUME tx.todo \subseteq Packages, tx.todo # {} PROVE Package \in tx.todo
<1>. DEFINE I == {i \in DOMAIN Order : Order[i] \in tx.todo}
<1>1. I \subseteq 1 .. Len(Order) /\ Len(Order) \in Nat /\ I # {}
      BY AftermathAssumption DEF Packages, ToSet
<1>2. Min(I) \in I
  <2>1. I \in SUBSET Nat
        BY <1>1
  <2>. HIDE DEF I
  <2>. QED BY <1>1, <2>1, LeastIsThere
<1>. QED BY <1>2 DEF Package, First

\* What is left of a package's lines after the first of them.
LEMMA RestAfter ==
  ASSUME NEW ds, ds \in Seq(ToSet(ds)), NEW s, Rest(s, ds), s # <<>>
  PROVE  /\ Rest(Tail(s), ds) /\ Len(Tail(s)) = Len(s) - 1 /\ Len(s) \in 1 .. Len(ds)
         /\ Head(s) = ds[Len(ds) - Len(s) + 1] /\ Head(s) \in ToSet(ds)
<1>1. s \in Seq(ToSet(ds)) /\ Len(s) \in 1 .. Len(ds) /\ Len(ds) \in Nat
      BY DEF Rest
<1>2. Tail(s) \in Seq(ToSet(ds)) /\ Len(Tail(s)) = Len(s) - 1 /\ \A j \in 1 .. Len(Tail(s)) : Tail(s)[j] = s[j + 1]
      BY <1>1
<1>3. \A j \in 1 .. Len(Tail(s)) : Tail(s)[j] = ds[Len(ds) - Len(Tail(s)) + j]
      BY <1>1, <1>2 DEF Rest
<1>4. Head(s) = ds[Len(ds) - Len(s) + 1] /\ Head(s) \in ToSet(ds)
      BY <1>1 DEF Rest
<1>. QED BY <1>1, <1>2, <1>3, <1>4 DEF Rest

LEMMA InitOK == Init => Inv
<1>. SUFFICES ASSUME Init PROVE Inv
     OBVIOUS
<1>1. TypeOK
      BY DEF Init, TypeOK, NoTx, Pcs, OfPackage, OfLines, Targets
<1>2. HooksOK
      BY DEF Init, HooksOK, NoTx
<1>3. AccountsOK
  <2>1. PICK admins : /\ \A n, m \in admins : n = m
                      /\ group = {Gives(n, 1, {}) : n \in admins}
                      /\ passwd = {[name |-> n, uid |-> 1, gid |-> 1] : n \in admins} /\ shadow = admins
        BY DEF Init
  <2>2. \A u \in passwd : u.name \in admins /\ u = [name |-> u.name, uid |-> 1, gid |-> 1]
        BY <2>1
  <2>3. \A n \in admins : Gives(n, 1, {}) \in group /\ Gives(n, 1, {}).id = 1
        BY <2>1 DEF Gives
  <2>4. ASSUME NEW g \in group, NEW h \in group PROVE g = h
    <3>1. PICK n \in admins : g = Gives(n, 1, {})
          BY <2>1
    <3>2. PICK m \in admins : h = Gives(m, 1, {})
          BY <2>1
    <3>. QED BY <2>1, <3>1, <3>2
  <2>5. \A u \in passwd : u.gid \in Gids
        BY <2>2, <2>3 DEF Gids
  <2>6. \A u, v \in passwd : u = v
        BY <2>1, <2>2
  <2>7. \A u \in passwd : u.name \in shadow
        BY <2>1, <2>2
  <2>8. \A g \in group : DOMAIN g = {"name", "id", "members"}
        BY <2>1 DEF Gives
  <2>. QED BY <2>4, <2>5, <2>6, <2>7, <2>8 DEF Init, AccountsOK, AccountsAgree, NoTx
<1>4. ASSUME NEW p \in installed PROVE Provided(p)
      BY DEF Init, Provided
<1>5. ProvidedOK
      BY <1>4 DEF Init, ProvidedOK, NoTx, OfLines, OfPackage
<1>. QED BY <1>1, <1>2, <1>3, <1>5 DEF Inv

\* What the invariant says of the three properties.
LEMMA InvSays == Inv => Bracketed /\ AccountsAgree /\ Provisioned
<1>. SUFFICES ASSUME Inv PROVE Bracketed /\ Provisioned
     BY DEF Inv, AccountsOK
<1>1. vetoed => installed = was /\ called = {}
      BY DEF Inv, HooksOK
<1>2. \A n \in ran : hookdirs[n][2].file # "empty"
      BY DEF Inv, HooksOK, IsHook, Loaded, Regular
<1>3. ASSUME tx.pc = "post", tx.hooks = {}, NEW n \in ran, NEW m \in HookNames,
             IsHook(Loaded(m)), Unconditional(Loaded(m)), Loaded(n).when = "pre",
             Loaded(m).when = "post", Loaded(n).ops = Loaded(m).ops
      PROVE  m \in ran
      BY <1>3 DEF Inv, HooksOK
<1>4. Provisioned
      BY DEF Inv, ProvidedOK, Provisioned, OfLines, OfPackage
<1>. QED BY <1>1, <1>2, <1>3, <1>4 DEF Bracketed

-----------------------------------------------------------------------------
(* Steps that are not about a package's lines: what they leave, and that the
   invariant bears it. *)

\* The hooks, in a step between those that come before and those after.
LEMMA HooksBear ==
  ASSUME HooksOK, tx.pc # "idle", UNCHANGED <<hookdirs, vetoed, ran>>,
         tx' = NoTx \/ (tx'.pc \notin {"idle", "pre", "post"} /\ tx'.hooks = tx.hooks /\ tx'.ops = tx.ops)
  PROVE  HooksOK'
<1>1. ~vetoed' /\ \A n \in ran' : n \in HookNames /\ IsHook(Loaded(n))'
      BY DEF HooksOK, IsHook, Loaded
<1>2. CASE tx' = NoTx
      BY <1>1, <1>2 DEF HooksOK, NoTx
<1>3. CASE tx'.pc \notin {"idle", "pre", "post"} /\ tx'.hooks = tx.hooks /\ tx'.ops = tx.ops
      BY <1>1, <1>3 DEF HooksOK, Loaded, IsHook
<1>. QED BY <1>2, <1>3

\* The accounts, in a step that leaves them alone.
LEMMA AccountsBear ==
  ASSUME AccountsOK, UNCHANGED accounts, lost => lost', cut => cut',
         tx.pc # "shadow", tx'.pc \notin {"shadow", "passwd"}
  PROVE  AccountsOK'
BY DEF AccountsOK, AccountsAgree, accounts, Gids

\* What is installed, in a step that installs nothing and ends no package.
LEMMA ProvidedBear ==
  ASSUME ProvidedOK, UNCHANGED <<accounts, default>>, cut => cut', installed' \subseteq installed,
         tx.pc \notin OfPackage, tx'.pc \notin OfPackage,
         ~cut' /\ outdated' => tx'.pc \in {"unpack", "remove"} /\ tx'.stale
  PROVE  ProvidedOK'
<1>. SUFFICES ASSUME ~cut' PROVE ProvidedOK'
     BY DEF ProvidedOK
<1>1. \A p \in installed' : Provided(p)'
      BY DEF ProvidedOK, Provided, Applied, DeclaresFirst, Named, accounts
<1>2. \A t \in Targets : default'[t] # "part"
      BY DEF ProvidedOK, OfPackage
<1>. QED BY <1>1, <1>2 DEF ProvidedOK, OfLines, Targets

LEMMA ProvidedCut == ASSUME cut' PROVE ProvidedOK'
BY DEF ProvidedOK

\* What is typed, in a step that is at no package before or after.
LEMMA TypeBears ==
  ASSUME TypeOK, hookdirs' = hookdirs, installed' \subseteq Packages, default' = default,
         DOMAIN tx' = DOMAIN NoTx, tx'.pc \in Pcs \ OfPackage,
         tx'.plan \subseteq Packages, tx'.todo \subseteq Packages
  PROVE  TypeOK'
BY DEF TypeOK, OfPackage, OfLines, Targets, Packages

LEMMA NoTxIs ==
  /\ DOMAIN NoTx = {"pc", "kind", "ops", "plan", "hooks", "todo", "lines", "copies", "target",
                    "done", "files", "stale", "gid"}
  /\ NoTx.pc = "idle" /\ NoTx.pc \in Pcs \ OfPackage /\ NoTx.plan = {} /\ NoTx.todo = {} /\ NoTx.hooks = {}
  /\ NoTx.ops = {}
BY DEF NoTx, Pcs, OfPackage

\* A step that ends the transaction and leaves the accounts alone.
LEMMA Ends ==
  ASSUME Inv, tx' = NoTx, tx.pc # "idle", UNCHANGED <<hookdirs, vetoed, ran, installed, default, accounts>>,
         lost => lost', cut => cut', tx.pc # "shadow" \/ cut',
         cut' \/ (tx.pc \notin OfPackage /\ ~outdated')
  PROVE  Inv'
<1>1. TypeOK'
      BY NoTxIs, TypeBears DEF Inv, TypeOK
<1>2. HooksOK'
      BY HooksBear DEF Inv
<1>3. AccountsOK'
  <2>1. CASE tx.pc # "shadow"
        BY <2>1, NoTxIs, AccountsBear DEF Inv
  <2>2. CASE cut'
        BY <2>2, NoTxIs DEF Inv, AccountsOK, AccountsAgree, accounts, Gids
  <2>. QED BY <2>1, <2>2
<1>4. ProvidedOK'
  <2>1. CASE cut'
        BY <2>1, ProvidedCut
  <2>2. CASE tx.pc \notin OfPackage /\ ~outdated'
        BY <2>2, NoTxIs, ProvidedBear DEF Inv
  <2>. QED BY <2>1, <2>2
<1>. QED BY <1>1, <1>2, <1>3, <1>4 DEF Inv

LEMMA BeginKeeps ==
  ASSUME Inv, NEW kind \in {"install", "remove"}, NEW S \in SUBSET Packages, Begin(kind, S)
  PROVE  Inv'
<1>. DEFINE ops == IF kind = "remove" THEN {"remove"} ELSE Operations(S)
            H == Matching("pre", ops, S, FilesOf(S))
<1>1. /\ tx.pc = "idle" /\ was' = installed /\ called' = {} /\ vetoed' = FALSE /\ ran' = {}
      /\ UNCHANGED <<hookdirs, installed, outdated, accounts, default, cut, lost>>
      /\ tx' = NoTx \/ tx' = [NoTx EXCEPT !.pc = "pre", !.kind = kind, !.ops = ops, !.plan = S,
                                          !.files = FilesOf(S), !.hooks = H]
      BY DEF Begin, machine
<1>2. \A n \in H : n \in HookNames /\ IsHook(Loaded(n)) /\ Loaded(n).ops \cap ops # {}
      BY DEF Matching, Matches
<1>. HIDE DEF H, ops
<1>3. CASE tx' = NoTx
  <2>1. TypeOK'
        BY <1>1, <1>3, NoTxIs, TypeBears DEF Inv, TypeOK
  <2>2. HooksOK'
        BY <1>1, <1>3, NoTxIs DEF HooksOK
  <2>. QED BY <1>1, <1>3, <2>1, <2>2, NoTxIs, AccountsBear, ProvidedBear DEF Inv, ProvidedOK, OfPackage, OfLines
<1>4. CASE tx' = [NoTx EXCEPT !.pc = "pre", !.kind = kind, !.ops = ops, !.plan = S,
                              !.files = FilesOf(S), !.hooks = H]
  <2>1. /\ DOMAIN tx' = DOMAIN NoTx /\ tx'.pc = "pre" /\ tx'.plan = S /\ tx'.todo = {} /\ tx'.hooks = H
        /\ tx'.ops = ops
        BY <1>4 DEF NoTx
  <2>2. TypeOK'
        BY <1>1, <2>1, TypeBears DEF Inv, TypeOK, Pcs, OfPackage
  <2>3. HooksOK'
        BY <1>1, <1>2, <2>1 DEF HooksOK, IsHook, Loaded
  <2>. QED BY <1>1, <2>1, <2>2, <2>3, AccountsBear, ProvidedBear DEF Inv, ProvidedOK, OfPackage, OfLines
<1>. QED BY <1>1, <1>3, <1>4

LEMMA NextHookIs == ASSUME HooksOK, tx.hooks # {} PROVE NextHook \in tx.hooks
<1>1. tx.hooks \in SUBSET Nat
      BY AftermathAssumption DEF HooksOK
<1>. QED BY <1>1, LeastIsThere DEF NextHook

\* A hook that has run, before the transaction: it goes on, or it is stopped.
LEMMA RunPreKeeps == ASSUME Inv, RunPre PROVE Inv'
<1>. DEFINE n == NextHook
<1>1. /\ tx.pc = "pre" /\ tx.hooks # {} /\ ran' = ran \cup {n} /\ cut' = cut
      /\ UNCHANGED <<hookdirs, installed, outdated, accounts, default, called, was, lost>>
      /\ \/ vetoed' = vetoed /\ tx' = [tx EXCEPT !.hooks = @ \ {n}]
         \/ vetoed' = (vetoed \/ Loaded(n).abort) /\ Loaded(n).abort /\ tx' = NoTx
         \/ vetoed' = (vetoed \/ Loaded(n).abort) /\ ~Loaded(n).abort /\ tx' = [tx EXCEPT !.hooks = @ \ {n}]
      BY DEF RunPre, Stops, Fine, Mishap, machine
<1>2. n \in tx.hooks /\ n \in HookNames /\ IsHook(Loaded(n)) /\ Loaded(n).ops \cap tx.ops # {}
      BY <1>1, NextHookIs DEF Inv, HooksOK
<1>. HIDE DEF n
<1>3. ~vetoed /\ installed = was /\ called = {} /\ (outdated => cut)
      BY <1>1 DEF Inv, HooksOK, ProvidedOK, OfLines, OfPackage
<1>4. CASE tx' = NoTx
  <2>1. TypeOK'
        BY <1>1, <1>4, NoTxIs, TypeBears DEF Inv, TypeOK
  <2>2. HooksOK'
        BY <1>1, <1>2, <1>4, NoTxIs DEF Inv, HooksOK, IsHook, Loaded
  <2>3. ProvidedOK'
        BY <1>1, <1>4, NoTxIs, ProvidedBear DEF Inv, ProvidedOK, OfPackage, OfLines
  <2>. QED BY <1>1, <1>4, <2>1, <2>2, <2>3, NoTxIs, AccountsBear DEF Inv
<1>5. CASE ~vetoed' /\ tx' = [tx EXCEPT !.hooks = @ \ {n}]
  <2>1. /\ DOMAIN tx' = DOMAIN NoTx /\ tx'.pc = "pre" /\ tx'.plan = tx.plan /\ tx'.todo = tx.todo
        /\ tx'.hooks = tx.hooks \ {n} /\ tx'.ops = tx.ops
        BY <1>1, <1>5, NoTxIs DEF Inv, TypeOK
  <2>2. TypeOK'
        BY <1>1, <2>1, TypeBears DEF Inv, TypeOK, OfPackage
  <2>3. HooksOK'
        BY <1>1, <1>2, <1>5, <2>1 DEF Inv, HooksOK, IsHook, Loaded
  <2>4. ProvidedOK'
        BY <1>1, <2>1, ProvidedBear DEF Inv, ProvidedOK, OfPackage, OfLines
  <2>. QED BY <1>1, <2>1, <2>2, <2>3, <2>4, AccountsBear DEF Inv
<1>6. ~vetoed
      BY <1>1 DEF Inv, HooksOK
<1>7. vetoed' = vetoed => ~vetoed'
      BY <1>6
<1>8. vetoed' = (vetoed \/ Loaded(n).abort) /\ ~Loaded(n).abort => ~vetoed'
      BY <1>6, Zenon
<1>. QED BY <1>1, <1>4, <1>5, <1>7, <1>8, Zenon

LEMMA RunPostKeeps == ASSUME Inv, RunPost PROVE Inv'
<1>. DEFINE n == NextHook
<1>1. /\ tx.pc = "post" /\ tx.hooks # {} /\ ran' = ran \cup {n} /\ cut' = cut
      /\ UNCHANGED <<hookdirs, installed, outdated, accounts, default, called, was, lost, vetoed>>
      /\ tx' = [tx EXCEPT !.hooks = @ \ {n}]
      BY DEF RunPost, Fine, Mishap, machine
<1>2. n \in tx.hooks /\ n \in HookNames /\ IsHook(Loaded(n)) /\ Loaded(n).when = "post"
      BY <1>1, NextHookIs DEF Inv, HooksOK
<1>. HIDE DEF n
<1>3. /\ DOMAIN tx' = DOMAIN NoTx /\ tx'.pc = "post" /\ tx'.plan = tx.plan /\ tx'.todo = tx.todo
      /\ tx'.hooks = tx.hooks \ {n} /\ tx'.ops = tx.ops
      BY <1>1, NoTxIs DEF Inv, TypeOK
<1>4. TypeOK'
      BY <1>1, <1>3, TypeBears DEF Inv, TypeOK, OfPackage
<1>5. HooksOK'
      BY <1>1, <1>2, <1>3 DEF Inv, HooksOK, IsHook, Loaded
<1>6. ProvidedOK'
      BY <1>1, <1>3, ProvidedBear DEF Inv, ProvidedOK, OfPackage, OfLines
<1>. QED BY <1>1, <1>3, <1>4, <1>5, <1>6, AccountsBear DEF Inv

LEMMA FetchKeeps == ASSUME Inv, Fetch PROVE Inv'
<1>1. /\ tx.pc = "pre" /\ cut' = cut
      /\ UNCHANGED <<hookdirs, installed, outdated, accounts, default, called, was, lost, vetoed, ran>>
      /\ \/ tx' = NoTx
         \/ \E pc \in {"remove", "unpack"}, S \in SUBSET tx.plan : tx' = [tx EXCEPT !.pc = pc, !.todo = S]
      BY DEF Fetch, Fine, Mishap, machine
<1>2. ~cut => ~outdated
      BY <1>1 DEF Inv, ProvidedOK, OfLines, OfPackage
<1>3. CASE tx' = NoTx
      BY <1>1, <1>2, <1>3, Ends, ProvidedCut, NoTxIs, AccountsBear, HooksBear, TypeBears
         DEF Inv, TypeOK, OfPackage
<1>4. ASSUME NEW pc \in {"remove", "unpack"}, NEW S \in SUBSET tx.plan, tx' = [tx EXCEPT !.pc = pc, !.todo = S]
      PROVE  Inv'
  <2>1. /\ DOMAIN tx' = DOMAIN NoTx /\ tx'.pc = pc /\ tx'.plan = tx.plan /\ tx'.todo = S
        /\ tx'.hooks = tx.hooks /\ tx'.ops = tx.ops
        BY <1>1, <1>4, NoTxIs DEF Inv, TypeOK
  <2>2. TypeOK'
        BY <1>1, <2>1, TypeBears DEF Inv, TypeOK, OfPackage, Pcs
  <2>3. HooksOK'
        BY <1>1, <2>1, HooksBear DEF Inv
  <2>4. ProvidedOK'
        BY <1>1, <1>2, <2>1, ProvidedBear DEF Inv, OfPackage
  <2>. QED BY <1>1, <2>1, <2>2, <2>3, <2>4, AccountsBear DEF Inv
<1>. QED BY <1>1, <1>3, <1>4

LEMMA UninstallKeeps == ASSUME Inv, Uninstall PROVE Inv'
<1>1. /\ tx.pc = "remove" /\ tx.todo # {}
      /\ UNCHANGED <<hookdirs, accounts, default, was, vetoed, ran, lost>>
      BY DEF Uninstall
<1>2. CASE tx' = NoTx /\ cut' /\ UNCHANGED <<installed, outdated>>
      BY <1>1, <1>2, Ends
<1>3. CASE /\ cut' = cut /\ installed' = installed \ {Package} /\ outdated' = (outdated \/ Stale(Package))
           /\ tx' = [tx EXCEPT !.todo = @ \ {Package}, !.stale = Notes(Package), !.done = @ \cup {Package}]
  <2>1. /\ DOMAIN tx' = DOMAIN NoTx /\ tx'.pc = "remove" /\ tx'.plan = tx.plan /\ tx'.todo = tx.todo \ {Package}
        /\ tx'.hooks = tx.hooks /\ tx'.ops = tx.ops /\ tx'.stale = Notes(Package)
        BY <1>1, <1>3, NoTxIs DEF Inv, TypeOK
  <2>2. TypeOK'
        BY <1>1, <1>3, <2>1, TypeBears DEF Inv, TypeOK, OfPackage, Pcs
  <2>3. HooksOK'
        BY <1>1, <2>1, HooksBear DEF Inv
  <2>4. ~cut /\ outdated => tx.stale
        BY <1>1 DEF Inv, ProvidedOK
  <2>5. ProvidedOK'
        BY <1>1, <1>3, <2>1, <2>4, ProvidedBear DEF Inv, Notes, OfPackage
  <2>. QED BY <1>1, <1>3, <2>1, <2>2, <2>3, <2>5, AccountsBear DEF Inv
<1>. QED BY <1>2, <1>3 DEF Uninstall, Fine, Fault

\* Once, at the end: the caches, and what is to run after.
LEMMA RefreshCachesKeeps == ASSUME Inv, RefreshCaches PROVE Inv'
<1>1. /\ tx.pc \in {"unpack", "remove"} /\ tx' = [tx EXCEPT !.pc = "post", !.hooks = PostHooks]
      /\ UNCHANGED <<hookdirs, installed, accounts, default, called, was, vetoed, ran, lost>>
      /\ cut => cut'
      /\ ~tx.stale => cut' = cut /\ outdated' = outdated
      /\ tx.stale => (cut' = cut /\ outdated' = FALSE) \/ (cut' /\ outdated' = outdated)
      BY DEF RefreshCaches, Fine, Fault
<1>2. /\ DOMAIN tx' = DOMAIN NoTx /\ tx'.pc = "post" /\ tx'.plan = tx.plan /\ tx'.todo = tx.todo
      /\ tx'.hooks = PostHooks /\ tx'.ops = tx.ops
      BY <1>1, NoTxIs DEF Inv, TypeOK
<1>3. TypeOK'
      BY <1>1, <1>2, TypeBears DEF Inv, TypeOK, OfPackage, Pcs
<1>4. /\ \A m \in PostHooks : m \in HookNames /\ IsHook(Loaded(m)) /\ Loaded(m).when = "post"
      /\ \A m \in HookNames :
            /\ IsHook(Loaded(m)) /\ Loaded(m).when = "post" /\ Unconditional(Loaded(m))
            /\ Loaded(m).ops \cap tx.ops # {}
            => m \in PostHooks
      BY DEF PostHooks, After, Matching, Matches, Unconditional
<1>5. HooksOK'
      BY <1>1, <1>2, <1>4 DEF Inv, HooksOK, IsHook, Loaded
<1>6. ~cut /\ outdated => tx.stale
      BY <1>1 DEF Inv, ProvidedOK, OfPackage, OfLines
<1>7. ~(~cut' /\ outdated')
  <2>1. CASE tx.stale
        BY <1>1, <2>1
  <2>2. CASE ~tx.stale
    <3>1. cut' = cut /\ outdated' = outdated
          BY <1>1, <2>2
    <3>2. CASE cut
          BY <3>1, <3>2
    <3>3. CASE ~outdated
          BY <3>1, <3>3
    <3>. QED BY <1>6, <2>2, <3>2, <3>3
  <2>. QED BY <2>1, <2>2
<1>8. ProvidedOK'
      BY <1>1, <1>2, <1>7, ProvidedBear DEF Inv, OfPackage
<1>. QED BY <1>1, <1>2, <1>3, <1>5, <1>8, AccountsBear DEF Inv

LEMMA FinishKeeps == ASSUME Inv, Finish PROVE Inv'
<1>1. ~cut => ~outdated
      BY DEF Inv, ProvidedOK, Finish, OfLines, OfPackage
<1>. QED BY <1>1, NoTxIs, TypeBears, HooksBear, AccountsBear, ProvidedBear
        DEF Inv, Finish, machine, history, TypeOK, OfPackage

\* Killed, wherever it is; in the middle of a rewrite, the groups are gone.
LEMMA KillKeeps == ASSUME Inv, Kill PROVE Inv'
<1>1. /\ tx.pc # "idle" /\ cut' = TRUE /\ tx' = NoTx
      /\ UNCHANGED <<hookdirs, installed, outdated, passwd, shadow, default, called, was, vetoed, ran>>
      /\ (lost' = TRUE /\ group' = {}) \/ UNCHANGED <<lost, group>>
      BY DEF Kill, Fault
<1>2. CASE UNCHANGED <<lost, group>>
      BY <1>1, <1>2, Ends DEF accounts
<1>3. CASE lost' = TRUE /\ group' = {}
  <2>1. TypeOK'
        BY <1>1, NoTxIs, TypeBears DEF Inv, TypeOK
  <2>2. HooksOK'
        BY <1>1, HooksBear DEF Inv
  <2>3. AccountsOK'
        BY <1>1, <1>3, NoTxIs DEF Inv, AccountsOK, AccountsAgree
  <2>. QED BY <1>1, <2>1, <2>2, <2>3, ProvidedCut DEF Inv
<1>. QED BY <1>1, <1>2, <1>3

-----------------------------------------------------------------------------
(* One package: its files are there, and its lines begin. *)

LEMMA UnpackKeeps == ASSUME Inv, Unpack PROVE Inv'
<1>1. /\ tx.pc = "unpack" /\ tx.todo # {}
      /\ UNCHANGED <<hookdirs, accounts, default, was, vetoed, ran, lost>>
      BY DEF Unpack
<1>2. CASE tx' = NoTx /\ cut' /\ UNCHANGED <<installed, outdated>>
      BY <1>1, <1>2, Ends
<1>3. CASE /\ cut' = cut /\ installed' = installed \cup {Package}
           /\ outdated' = (outdated \/ Stale(Package)) /\ tx' = [tx EXCEPT !.pc = "script"]
  <2>1. /\ DOMAIN tx' = DOMAIN NoTx /\ tx'.pc = "script" /\ tx'.plan = tx.plan /\ tx'.todo = tx.todo
        /\ tx'.hooks = tx.hooks /\ tx'.ops = tx.ops /\ tx'.stale = tx.stale
        BY <1>1, <1>3, NoTxIs DEF Inv, TypeOK
  <2>2. Package' = Package /\ Package \in Packages
        BY <1>1, <2>1, NextPackage DEF Package, First, Inv, TypeOK
  <2>3. TypeOK'
        BY <1>1, <1>3, <2>1, <2>2 DEF Inv, TypeOK, OfPackage, OfLines, Pcs, Targets, Packages
  <2>4. HooksOK'
        BY <1>1, <2>1, HooksBear DEF Inv
  <2>5. ~cut => \A p \in installed : Provided(p)'
        BY <1>1 DEF Inv, ProvidedOK, OfPackage, Provided, Applied, DeclaresFirst, Named, accounts
  <2>6. ~cut => (outdated => tx.stale) /\ \A t \in Targets : default[t] # "part"
        BY <1>1 DEF Inv, ProvidedOK, OfPackage, OfLines
  <2>7. ProvidedOK'
    <3>. SUFFICES ASSUME ~cut PROVE ProvidedOK'
         BY <1>3 DEF ProvidedOK
    <3>1. \A p \in installed' : Provided(p)' \/ p = Package'
          BY <1>3, <2>2, <2>5
    <3>2. outdated' => Notes(Package)'
          BY <1>3, <2>1, <2>2, <2>6 DEF Notes, Stale
    <3>. QED BY <1>1, <2>1, <2>6, <3>1, <3>2 DEF ProvidedOK, OfPackage, OfLines, Targets
  <2>. QED BY <1>1, <1>3, <2>1, <2>3, <2>4, <2>7, AccountsBear DEF Inv
<1>. QED BY <1>2, <1>3 DEF Unpack, Fine, Fault, Goes

LEMMA AfterRecordKeeps == ASSUME Inv, AfterRecord PROVE Inv'
<1>1. /\ tx.pc = "script"
      /\ UNCHANGED <<hookdirs, installed, outdated, accounts, default, was, vetoed, ran, cut, lost>>
      /\ tx' = [tx EXCEPT !.pc = "lines", !.lines = Decls[Package], !.copies = Defaults[Package],
                          !.stale = Notes(Package)]
      BY DEF AfterRecord, machine, history
<1>2. /\ DOMAIN tx' = DOMAIN NoTx /\ tx'.pc = "lines" /\ tx'.plan = tx.plan /\ tx'.todo = tx.todo
      /\ tx'.hooks = tx.hooks /\ tx'.ops = tx.ops /\ tx'.stale = Notes(Package)
      /\ tx'.lines = Decls[Package] /\ tx'.copies = Defaults[Package]
      BY <1>1, NoTxIs DEF Inv, TypeOK
<1>3. Package' = Package /\ Package \in Packages /\ tx.todo # {}
      BY <1>1, <1>2, NextPackage DEF Package, First, Inv, TypeOK, OfPackage
<1>4. Decls[Package] \in Seq(ToSet(Decls[Package])) /\ Len(Decls[Package]) \in Nat
      BY <1>3, AftermathAssumption
<1>5. Rest(tx'.lines, Decls[Package]) /\ Behind' = 0
      BY <1>2, <1>3, <1>4 DEF Rest, Behind
<1>6. TypeOK'
      BY <1>1, <1>2, <1>3, <1>5 DEF Inv, TypeOK, OfPackage, OfLines, Pcs, Targets, Packages, Rest
<1>7. HooksOK'
      BY <1>1, <1>2, HooksBear DEF Inv
<1>8. ProvidedOK'
  <2>. SUFFICES ASSUME ~cut PROVE ProvidedOK'
       BY <1>1 DEF ProvidedOK
  <2>1. \A p \in installed' : Provided(p)' \/ p = Package'
        BY <1>1, <1>3 DEF Inv, ProvidedOK, Provided, Applied, DeclaresFirst, Named, accounts
  <2>2. outdated => Notes(Package)
        BY <1>1 DEF Inv, ProvidedOK, OfLines
  <2>3. \A t \in Targets : default[t] # "part"
        BY <1>1 DEF Inv, ProvidedOK
  <2>4. \A i \in 1 .. Behind' : FALSE
        BY <1>5
  <2>. QED BY <1>1, <1>2, <1>3, <2>1, <2>2, <2>3, <2>4 DEF ProvidedOK, OfPackage, OfLines, Targets
<1>. QED BY <1>1, <1>2, <1>6, <1>7, <1>8, AccountsBear DEF Inv

-----------------------------------------------------------------------------
(* A step on the lines or the defaults of a package: what it leaves alone, what
   it may change, and that it takes nothing from what was applied before. *)

LineStep ==
  /\ tx.pc \in OfLines /\ tx'.pc \in OfLines
  /\ DOMAIN tx' = DOMAIN NoTx /\ tx'.plan = tx.plan /\ tx'.todo = tx.todo /\ tx'.hooks = tx.hooks
  /\ tx'.ops = tx.ops /\ tx'.stale = tx.stale
  /\ UNCHANGED <<hookdirs, installed, outdated, was, vetoed, ran>>
  /\ \/ tx'.lines = tx.lines
     \/ tx.lines # <<>> /\ tx'.lines = Tail(tx.lines) /\ tx'.pc = "lines"
  /\ tx'.copies \subseteq tx.copies
  /\ tx'.pc \in {"group", "passwd", "shadow", "rewrite"} => tx'.lines # <<>>
  /\ tx'.pc = "group" => Line'.kind \in {"u", "g"}
  /\ tx'.pc \in {"passwd", "shadow"} => Line'.kind = "u"
  /\ tx'.pc = "rewrite" => Line'.kind = "m"
  /\ tx'.pc = "copy" => tx'.lines = <<>> /\ tx'.target \in Targets
  /\ DOMAIN default' = Targets /\ \A t \in Targets : default'[t] \in {"none", "part", "whole", "admin"}

Grown ==
  /\ passwd \subseteq passwd'
  /\ \A g \in group : \E h \in group' : h.name = g.name
  /\ \A h \in group' : (\E g \in group : g.name = h.name)
                       => \E g \in group : g.name = h.name /\ g.members \subseteq h.members

LEMMA AtPackage ==
  ASSUME TypeOK, tx.pc \in OfLines
  PROVE  /\ Package \in Packages /\ Decls[Package] \in Seq(ToSet(Decls[Package]))
         /\ Rest(tx.lines, Decls[Package]) /\ Behind \in 0 .. Len(Decls[Package]) /\ Len(Decls[Package]) \in Nat
         /\ tx.lines # <<>> => /\ Line = Decls[Package][Behind + 1] /\ Line \in ToSet(Decls[Package])
                               /\ Line.kind \in {"u", "g", "m"}
<1>1. Package \in Packages
      BY NextPackage DEF TypeOK, OfLines
<1>2. Decls[Package] \in Seq(ToSet(Decls[Package])) /\ Rest(tx.lines, Decls[Package])
      BY <1>1, AftermathAssumption DEF TypeOK
<1>3. Behind \in 0 .. Len(Decls[Package]) /\ Len(Decls[Package]) \in Nat
  <2>1. Len(tx.lines) \in Nat /\ Len(Decls[Package]) \in Nat /\ Len(tx.lines) <= Len(Decls[Package])
        BY <1>2 DEF Rest
  <2>. DEFINE m == Len(tx.lines)
              n == Len(Decls[Package])
  <2>2. Behind = n - m /\ m \in Nat /\ n \in Nat /\ m <= n
        BY <2>1 DEF Behind
  <2>. HIDE DEF m, n
  <2>3. Behind \in 0 .. n /\ n \in Nat
        BY <2>2
  <2>. QED BY <2>3 DEF n
<1>4. tx.lines # <<>> => Line = Decls[Package][Behind + 1] /\ Line \in ToSet(Decls[Package])
      BY <1>2, RestAfter DEF Line, Behind
<1>. QED BY <1>1, <1>2, <1>3, <1>4, AftermathAssumption

LEMMA LineStepTyped == ASSUME TypeOK, LineStep PROVE TypeOK' /\ Package' = Package
<1>1. Package' = Package /\ Package \in Packages /\ Decls[Package] \in Seq(ToSet(Decls[Package]))
      BY AtPackage DEF LineStep, Package, First
<1>2. Rest(tx'.lines, Decls[Package])
      BY <1>1, AtPackage, RestAfter DEF LineStep
<1>3. tx'.copies \subseteq Defaults[Package]
      BY DEF LineStep, TypeOK
<1>. QED BY <1>1, <1>2, <1>3 DEF LineStep, TypeOK, OfLines, Pcs, Targets, Packages, Line, Rest

LEMMA LineStepHooks == ASSUME HooksOK, LineStep PROVE HooksOK'
BY HooksBear DEF LineStep, OfLines, OfPackage

\* What a package's first n lines have made stays made.
LEMMA AppliedStays ==
  ASSUME Grown, NEW p, NEW n \in Nat, \A i \in 1 .. n : Applied(p, i)
  PROVE  \A i \in 1 .. n : Applied(p, i)'
<1>. SUFFICES ASSUME NEW i \in 1 .. n PROVE Applied(p, i)'
     OBVIOUS
<1>. DEFINE l == Decls[p][i]
<1>1. CASE l.kind = "u"
      BY <1>1 DEF Applied, Grown, Named
<1>2. CASE l.kind = "g"
      BY <1>2 DEF Applied, Grown, Named
<1>3. CASE l.kind \notin {"u", "g"}
  <2>. SUFFICES ASSUME DeclaresFirst(p, i), NEW h \in group', h.name = l.group PROVE l.name \in h.members
       BY <1>3 DEF Applied, Named, DeclaresFirst
  <2>1. PICK j \in 1 .. (i - 1) : Decls[p][j].kind = "g" /\ Decls[p][j].name = l.group
        BY DEF DeclaresFirst
  <2>2. j \in 1 .. n /\ Applied(p, j)
        OBVIOUS
  <2>3. Named(group, l.group) # {}
        BY <2>1, <2>2 DEF Applied
  <2>4. PICK g \in group : g.name = l.group /\ g.members \subseteq h.members
        BY <2>3 DEF Grown, Named
  <2>5. l.name \in g.members
        BY <1>3, <2>4 DEF Applied, Named
  <2>. QED BY <2>4, <2>5
<1>. QED BY <1>1, <1>2, <1>3

LEMMA LineStepProvided ==
  ASSUME Inv, LineStep, ~cut, Grown,
         NEW P, P = Package, NEW n, n = Behind,
         tx'.lines # tx.lines => Applied(P, n + 1)',
         \A t \in Targets : Whole(t) => Whole(t)',
         \A t \in tx.copies \ tx'.copies : Whole(t)',
         \A t \in Targets : default'[t] = "part" => tx'.pc = "copy" /\ t = tx'.target
  PROVE  ProvidedOK'
<1>. USE DEF Inv
<1>1. Package' = P /\ P \in Packages /\ n \in 0 .. Len(Decls[P]) /\ Len(Decls[P]) \in Nat
      BY LineStepTyped, AtPackage DEF LineStep
<1>2. \A p \in Packages : \A t \in Defaults[p] : t \in Targets
      BY DEF Targets
<1>3. ASSUME NEW p \in installed, Provided(p) PROVE Provided(p)'
  <2>1. p \in Packages /\ Len(Decls[p]) \in Nat
        BY AftermathAssumption DEF TypeOK
  <2>2. \A i \in 1 .. Len(Decls[p]) : Applied(p, i)'
        BY <1>3, <2>1, AppliedStays DEF Provided
  <2>3. \A t \in Defaults[p] : default'[t] \in {"whole", "admin"}
        BY <1>2, <1>3, <2>1 DEF Provided, Whole
  <2>. QED BY <2>2, <2>3 DEF Provided
<1>4. \A i \in 1 .. n : Applied(P, i)'
  <2>1. \A i \in 1 .. n : Applied(P, i)
        BY DEF ProvidedOK, LineStep
  <2>2. n \in Nat
        BY <1>1
  <2>. QED BY <2>1, <2>2, AppliedStays
<1>5. \A i \in 1 .. Behind' : Applied(P, i)'
  <2>1. CASE tx'.lines = tx.lines
        BY <1>1, <1>4, <2>1 DEF Behind
  <2>2. CASE tx'.lines # tx.lines
    <3>1. tx.lines # <<>> /\ tx'.lines = Tail(tx.lines)
          BY <2>2 DEF LineStep
    <3>2. Len(tx'.lines) = Len(tx.lines) - 1 /\ Len(tx.lines) \in Nat
          BY <3>1, AtPackage DEF LineStep, Rest
    <3>3. Behind' = n + 1
      <4>1. Behind' = Len(Decls[P]) - Len(tx'.lines) /\ n = Len(Decls[P]) - Len(tx.lines)
            BY <1>1 DEF Behind
      <4>. DEFINE d == Len(Decls[P])
      <4>2. d \in Nat
            BY <1>1
      <4>. HIDE DEF d
      <4>. QED BY <3>2, <4>1, <4>2 DEF d
    <3>4. \A i \in 1 .. Behind' : i \in 1 .. n \/ i = n + 1
          BY <1>1, <3>3
    <3>5. Applied(P, n + 1)'
          BY <2>2
    <3>. QED BY <1>4, <3>4, <3>5
  <2>. QED BY <2>1, <2>2
<1>6. \A t \in Defaults[P] : t \in tx'.copies \/ Whole(t)'
      BY <1>1, <1>2 DEF ProvidedOK, LineStep
<1>7. outdated' => tx'.stale
      BY DEF ProvidedOK, LineStep, OfLines
<1>8. \A p \in installed' : Provided(p)' \/ (tx'.pc \in OfPackage /\ p = Package')
      BY <1>1, <1>3 DEF ProvidedOK, LineStep, OfLines
<1>9. (\A i \in 1 .. Behind : Applied(Package, i))'
      BY <1>1, <1>5
<1>10. (\A t \in Defaults[Package] : t \in tx.copies \/ Whole(t))'
       BY <1>1, <1>6
<1>. QED BY <1>7, <1>8, <1>9, <1>10 DEF ProvidedOK, LineStep, OfLines, Targets

\* What such a step is for: it adds to what its package has, and to nothing's loss.
Furthers(p, n) ==
  /\ Grown
  /\ tx'.lines # tx.lines => Applied(p, n + 1)'
  /\ \A t \in Targets : Whole(t) => Whole(t)'
  /\ \A t \in tx.copies \ tx'.copies : Whole(t)'
  /\ \A t \in Targets : default'[t] = "part" => tx'.pc = "copy" /\ t = tx'.target

LEMMA LineStepKeeps ==
  ASSUME Inv, LineStep, AccountsOK', NEW p, p = Package, NEW n, n = Behind,
         cut' \/ (cut' = cut /\ Furthers(p, n))
  PROVE  Inv'
<1>1. CASE cut'
      BY <1>1, LineStepTyped, LineStepHooks, ProvidedCut DEF Inv
<1>2. CASE ~cut'
  <2>1. ~cut /\ Furthers(p, n)
        BY <1>2
  <2>2. ProvidedOK'
        BY <2>1, LineStepProvided DEF Furthers
  <2>. QED BY <2>2, LineStepTyped, LineStepHooks DEF Inv
<1>. QED BY <1>1, <1>2

\* A step on an account: the defaults are for later.
AccountStep ==
  /\ tx.pc \in {"lines", "group", "passwd", "shadow", "rewrite"} /\ tx.lines # <<>>
  /\ UNCHANGED <<hookdirs, installed, outdated, was, vetoed, ran, default>>

LEMMA NextLineSteps ==
  ASSUME TypeOK, AccountStep, NextLine
  PROVE  LineStep /\ tx'.pc = "lines" /\ tx'.copies = tx.copies
<1>1. /\ DOMAIN tx' = DOMAIN NoTx /\ tx'.pc = "lines" /\ tx'.lines = Tail(tx.lines)
      /\ \A f \in DOMAIN NoTx \ {"pc", "lines"} : tx'[f] = tx[f]
      BY DEF NextLine, TypeOK, NoTx
<1>2. /\ tx'.plan = tx.plan /\ tx'.todo = tx.todo /\ tx'.hooks = tx.hooks
      /\ tx'.ops = tx.ops /\ tx'.stale = tx.stale /\ tx'.copies = tx.copies
      BY <1>1, NoTxIs
<1>. QED BY <1>1, <1>2 DEF LineStep, AccountStep, OfLines, OfPackage, TypeOK

LEMMA GoesOnSteps ==
  ASSUME TypeOK, AccountStep, NEW pc \in {"group", "passwd", "shadow", "rewrite"}, NEW gid,
         tx' = [tx EXCEPT !.pc = pc, !.gid = gid],
         pc = "group" => Line.kind \in {"u", "g"}, pc \in {"passwd", "shadow"} => Line.kind = "u",
         pc = "rewrite" => Line.kind = "m"
  PROVE  /\ LineStep /\ tx'.pc = pc /\ tx'.copies = tx.copies /\ tx'.lines = tx.lines /\ Line' = Line
         /\ tx'.gid = gid
<1>1. /\ DOMAIN tx' = DOMAIN NoTx /\ tx'.pc = pc /\ tx'.gid = gid
      /\ \A f \in DOMAIN NoTx \ {"pc", "gid"} : tx'[f] = tx[f]
      BY DEF TypeOK, NoTx
<1>2. /\ tx'.plan = tx.plan /\ tx'.todo = tx.todo /\ tx'.hooks = tx.hooks /\ tx'.lines = tx.lines
      /\ tx'.ops = tx.ops /\ tx'.stale = tx.stale /\ tx'.copies = tx.copies
      BY <1>1, NoTxIs
<1>3. Line' = Line
      BY <1>2 DEF Line
<1>. QED BY <1>1, <1>2, <1>3 DEF LineStep, AccountStep, OfLines, OfPackage, TypeOK

LEMMA AccountFurthers ==
  ASSUME Inv, AccountStep, ~cut, Grown, tx'.copies = tx.copies, NEW p, NEW n,
         tx'.lines # tx.lines => Applied(p, n + 1)'
  PROVE  Furthers(p, n)
<1>1. \A t \in Targets : default[t] # "part"
      BY DEF Inv, ProvidedOK, AccountStep
<1>. QED BY <1>1 DEF Furthers, AccountStep, Whole

LEMMA DeclaresKeeps == ASSUME Inv, Declares PROVE Inv'
<1>1. /\ tx.pc = "lines" /\ AccountStep /\ UNCHANGED <<accounts, cut, lost>>
      /\ \/ Line.kind = "m" /\ Goes("rewrite")
         \/ Line.kind = "m" /\ ~Adds(Line) /\ NextLine
         \/ Line.kind # "m" /\ Present(Line) /\ NextLine
         \/ Line.kind # "m" /\ Goes("group")
      BY DEF Declares, AccountStep, machine, history
<1>2. TypeOK /\ Line.kind \in {"u", "g", "m"}
      BY <1>1, AtPackage DEF Inv, AccountStep, OfLines, OfPackage
<1>3. Grown
      BY <1>1 DEF Grown, accounts
<1>4. PICK p, n : p = Package /\ n = Behind
      OBVIOUS
<1>5. tx.gid = tx.gid
      OBVIOUS
<1>6. ASSUME NEW pc \in {"group", "rewrite"}, Goes(pc), pc = "group" <=> Line.kind # "m" PROVE Inv'
  <2>1. tx' = [tx EXCEPT !.pc = pc, !.gid = tx.gid]
        BY <1>2, <1>6 DEF Goes, TypeOK, NoTx
  <2>2. LineStep /\ tx'.pc = pc /\ tx'.copies = tx.copies /\ tx'.lines = tx.lines
        BY <1>1, <1>2, <1>6, <2>1, GoesOnSteps
  <2>3. AccountsOK'
        BY <1>1, <2>2, AccountsBear DEF Inv
  <2>4. ~cut => Furthers(p, n)
        BY <1>1, <1>3, <2>2, AccountFurthers
  <2>. QED BY <1>1, <1>4, <2>2, <2>3, <2>4, LineStepKeeps
<1>7. ASSUME NextLine, Applied(p, n + 1) PROVE Inv'
  <2>1. LineStep /\ tx'.pc = "lines" /\ tx'.copies = tx.copies
        BY <1>1, <1>2, <1>7, NextLineSteps
  <2>2. AccountsOK'
        BY <1>1, <2>1, AccountsBear DEF Inv
  <2>3. Applied(p, n + 1)'
        BY <1>1, <1>7 DEF Applied, DeclaresFirst, Named, accounts
  <2>4. ~cut => Furthers(p, n)
        BY <1>1, <1>3, <2>1, <2>3, AccountFurthers
  <2>. QED BY <1>1, <1>4, <2>1, <2>2, <2>4, LineStepKeeps
<1>8. Line = Decls[p][n + 1]
      BY <1>1, <1>4, AtPackage DEF Inv, AccountStep, OfLines, OfPackage
<1>9. Line.kind = "m" /\ ~Adds(Line) => Applied(p, n + 1)
      BY <1>8 DEF Applied, Adds, Members
<1>10. Line.kind # "m" /\ Present(Line) => Applied(p, n + 1)
       BY <1>2, <1>8 DEF Applied, Present
<1>. QED BY <1>1, <1>6, <1>7, <1>9, <1>10

\* What resolves an id gives a free one, the one a package pinned, or none.
LEMMA Resolved ==
  ASSUME NEW spec, NEW used
  PROVE  \/ ResolveId(spec, used) \notin used \/ ResolveId(spec, used) = 0
         \/ spec.by = "number" /\ ResolveId(spec, used) = spec.id
<1>1. FreeId(used) = 0 \/ FreeId(used) \notin used
  <2>. SUFFICES ASSUME FreeIds(used) # {} PROVE Max(FreeIds(used)) \notin used
       BY DEF FreeId
  <2>1. FreeIds(used) \in SUBSET (1 .. MaxId) /\ MaxId \in Nat
        BY AftermathAssumption DEF FreeIds
  <2>2. Max(FreeIds(used)) \in FreeIds(used)
        BY <2>1, GreatestIsThere
  <2>. QED BY <2>2 DEF FreeIds
<1>2. CASE spec.by = "number"
      BY <1>2 DEF ResolveId
<1>3. CASE spec.by = "path"
      BY <1>1, <1>3 DEF ResolveId
<1>4. CASE spec.by \notin {"number", "path"}
      BY <1>1, <1>4 DEF ResolveId
<1>. QED BY <1>2, <1>3, <1>4

LEMMA EnsureGroupKeeps == ASSUME Inv, EnsureGroup PROVE Inv'
<1>. DEFINE name == GroupName(Line)
            id == ResolveId(GroupSpec(Line), Gids)
            there == Named(group, name)
            gid == IF there # {} THEN (CHOOSE g \in there : TRUE).id ELSE id
<1>1. /\ tx.pc = "group" /\ AccountStep /\ UNCHANGED <<passwd, shadow, lost>>
      /\ Line.kind \in {"u", "g"} /\ TypeOK
      BY DEF EnsureGroup, AccountStep, Inv, TypeOK
<1>2. \/ NextLine /\ cut' /\ group' = group
      \/ /\ cut' = cut /\ group' = AddGroup(name, id) /\ ~(there = {} /\ id = 0)
         /\ Line.kind = "u" /\ tx' = [tx EXCEPT !.pc = "passwd", !.gid = gid]
      \/ /\ cut' = cut /\ group' = AddGroup(name, id) /\ ~(there = {} /\ id = 0)
         /\ Line.kind # "u" /\ NextLine
      BY DEF EnsureGroup, Exhausted, Fault, Fine
<1>3. PICK p, n : p = Package /\ n = Behind
      OBVIOUS
<1>4. p \in Packages /\ Line = Decls[p][n + 1] /\ Line \in ToSet(Decls[p])
      BY <1>1, <1>3, AtPackage DEF AccountStep, OfLines, OfPackage
<1>5. id \notin Gids \/ id = 0 \/ id \in Pinned
  <2>1. id \notin Gids \/ id = 0 \/ (GroupSpec(Line).by = "number" /\ id = GroupSpec(Line).id)
        BY Resolved
  <2>2. GroupSpec(Line).by = "number" => GroupSpec(Line) = Line.spec
        BY DEF GroupSpec
  <2>. HIDE DEF id
  <2>. QED BY <1>4, <2>1, <2>2 DEF Pinned
<1>. HIDE DEF id, name
<1>6. AddGroup(name, id) = group \/ (there = {} /\ AddGroup(name, id) = group \cup {Gives(name, id, {})})
      BY DEF AddGroup
<1>7. \E g \in AddGroup(name, id) : g.name = name /\ g.id = gid
  <2>1. CASE there = {}
    <3>. DEFINE new == Gives(name, id, {})
    <3>1. gid = id /\ AddGroup(name, id) = group \cup {new}
          BY <2>1 DEF AddGroup
    <3>2. new.name = name /\ new.id = id
          BY DEF Gives
    <3>. HIDE DEF new, gid
    <3>. QED BY <3>1, <3>2
  <2>2. CASE there # {}
    <3>. DEFINE h == CHOOSE g \in there : TRUE
    <3>1. h \in there
          BY <2>2
    <3>2. gid = h.id /\ AddGroup(name, id) = group
          BY <2>2 DEF AddGroup
    <3>3. h \in group /\ h.name = name
          BY <3>1 DEF Named
    <3>. HIDE DEF h, gid
    <3>. QED BY <3>2, <3>3
  <2>. QED BY <2>1, <2>2
<1>8. ASSUME group' = AddGroup(name, id), cut => cut', tx'.pc \in {"lines", "passwd"},
             tx'.pc = "passwd" => tx'.gid = gid
      PROVE  AccountsOK'
  <2>1. \A g \in group' : DOMAIN g = {"name", "id", "members"}
        BY <1>6, <1>8 DEF Inv, AccountsOK, Gives
  <2>2. Gids \subseteq Gids' /\ gid \in Gids'
        BY <1>6, <1>7, <1>8 DEF Gids
  <2>3. \A g, h \in group' : (g # h /\ g.id = h.id) => g.id \in Pinned \cup {0}
    <3>1. \A g, h \in group : (g # h /\ g.id = h.id) => g.id \in Pinned \cup {0}
          BY DEF Inv, AccountsOK, AccountsAgree
    <3>2. Gives(name, id, {}).id = id /\ \A g \in group : g.id \in Gids
          BY DEF Gives, Gids
    <3>. QED BY <1>5, <1>6, <1>8, <3>1, <3>2
  <2>4. \A u \in passwd : (u.gid \in Gids' \/ lost) /\ (u.name \in shadow \/ cut')
        BY <1>1, <1>8, <2>2 DEF Inv, AccountsOK, AccountsAgree
  <2>5. \A u, v \in passwd : (u # v /\ u.uid = v.uid) => u.uid \in Pinned \cup {0}
        BY DEF Inv, AccountsOK, AccountsAgree
  <2>. HIDE DEF gid
  <2>. QED BY <1>1, <1>8, <2>1, <2>2, <2>3, <2>4, <2>5 DEF AccountsOK, AccountsAgree, Pinned
<1>9. ASSUME group' = AddGroup(name, id) PROVE Grown
  <2>1. \A g \in group : g.name = name => g \in there
        BY DEF Named
  <2>. QED BY <1>1, <1>6, <1>9, <2>1 DEF Grown, Gives
<1>10. CASE NextLine /\ cut' /\ group' = group
  <2>1. LineStep /\ tx'.pc = "lines"
        BY <1>1, <1>10, NextLineSteps
  <2>2. AccountsOK'
        BY <1>1, <1>10, <2>1 DEF Inv, AccountsOK, AccountsAgree, Gids, Pinned
  <2>. QED BY <1>3, <1>10, <2>1, <2>2, LineStepKeeps
<1>11. CASE /\ cut' = cut /\ group' = AddGroup(name, id)
            /\ Line.kind = "u" /\ tx' = [tx EXCEPT !.pc = "passwd", !.gid = gid]
  <2>. HIDE DEF gid
  <2>1. LineStep /\ tx'.pc = "passwd" /\ tx'.copies = tx.copies /\ tx'.lines = tx.lines /\ tx'.gid = gid
        BY <1>1, <1>11, GoesOnSteps
  <2>2. ~cut => Furthers(p, n)
        BY <1>1, <1>9, <1>11, <2>1, AccountFurthers
  <2>. QED BY <1>3, <1>8, <1>11, <2>1, <2>2, LineStepKeeps
<1>12. CASE cut' = cut /\ group' = AddGroup(name, id) /\ Line.kind # "u" /\ NextLine
  <2>1. LineStep /\ tx'.pc = "lines" /\ tx'.copies = tx.copies
        BY <1>1, <1>12, NextLineSteps
  <2>2. Applied(p, n + 1)'
    <3>1. Line.kind = "g" /\ name = Line.name
          BY <1>1, <1>12 DEF GroupName, name
    <3>2. Named(group', Line.name) # {}
          BY <1>7, <1>12, <3>1 DEF Named
    <3>. QED BY <1>4, <3>1, <3>2 DEF Applied, Named
  <2>3. ~cut => Furthers(p, n)
        BY <1>1, <1>9, <1>12, <2>1, <2>2, AccountFurthers
  <2>. QED BY <1>3, <1>8, <1>12, <2>1, <2>3, LineStepKeeps
<1>. QED BY <1>2, <1>10, <1>11, <1>12

LEMMA AppendPasswdKeeps == ASSUME Inv, AppendPasswd PROVE Inv'
<1>. DEFINE uid == ResolveId(Line.spec, Uids)
            user == [name |-> Line.name, uid |-> uid, gid |-> tx.gid]
<1>1. /\ tx.pc = "passwd" /\ AccountStep /\ UNCHANGED <<group, shadow, lost>>
      /\ Line.kind = "u" /\ TypeOK /\ tx.gid \in Gids
      BY DEF AppendPasswd, AccountStep, Inv, TypeOK, AccountsOK
<1>2. \/ cut' = cut /\ Goes("shadow") /\ passwd' = passwd \cup {user}
      \/ cut' /\ NextLine /\ passwd' = passwd
      BY DEF AppendPasswd, Exhausted, Fault, Fine
<1>3. PICK p, n : p = Package /\ n = Behind
      OBVIOUS
<1>4. p \in Packages /\ Line \in ToSet(Decls[p])
      BY <1>1, <1>3, AtPackage DEF AccountStep, OfLines, OfPackage
<1>5. uid \notin Uids \/ uid \in Pinned \cup {0}
  <2>1. uid \notin Uids \/ uid = 0 \/ (Line.spec.by = "number" /\ uid = Line.spec.id)
        BY Resolved
  <2>. HIDE DEF uid
  <2>. QED BY <1>4, <2>1 DEF Pinned
<1>. HIDE DEF uid
<1>6. user.name = Line.name /\ user.uid = uid /\ user.gid = tx.gid
      OBVIOUS
<1>. HIDE DEF user
<1>7. CASE cut' = cut /\ Goes("shadow") /\ passwd' = passwd \cup {user}
  <2>1. tx' = [tx EXCEPT !.pc = "shadow", !.gid = tx.gid]
        BY <1>1, <1>7 DEF Goes, TypeOK, NoTx
  <2>2. LineStep /\ tx'.pc = "shadow" /\ tx'.copies = tx.copies /\ tx'.lines = tx.lines /\ Line' = Line
        BY <1>1, <2>1, GoesOnSteps
  <2>3. Grown
        BY <1>1, <1>7 DEF Grown
  <2>4. \A u \in passwd' : u.gid \in Gids \/ lost
        BY <1>1, <1>6, <1>7 DEF Inv, AccountsOK, AccountsAgree
  <2>5. \A u \in passwd' : u.name \in shadow \/ cut \/ Line.name = u.name
        BY <1>6, <1>7 DEF Inv, AccountsOK, AccountsAgree
  <2>6. \A u, v \in passwd' : (u # v /\ u.uid = v.uid) => u.uid \in Pinned \cup {0}
    <3>1. \A u, v \in passwd : (u # v /\ u.uid = v.uid) => u.uid \in Pinned \cup {0}
          BY DEF Inv, AccountsOK, AccountsAgree
    <3>2. \A u \in passwd : u.uid \in Uids
          BY DEF Uids
    <3>. QED BY <1>5, <1>6, <1>7, <3>1, <3>2
  <2>7. Named(passwd', Line.name) # {}
        BY <1>6, <1>7 DEF Named
  <2>8. AccountsOK'
        BY <1>1, <1>7, <2>2, <2>4, <2>5, <2>6, <2>7 DEF Inv, AccountsOK, AccountsAgree, Gids, Pinned, Named
  <2>9. ~cut => Furthers(p, n)
        BY <1>1, <1>7, <2>2, <2>3, AccountFurthers
  <2>. QED BY <1>3, <1>7, <2>2, <2>8, <2>9, LineStepKeeps
<1>8. CASE cut' /\ NextLine /\ passwd' = passwd
  <2>1. LineStep /\ tx'.pc = "lines"
        BY <1>1, <1>8, NextLineSteps
  <2>2. AccountsOK'
        BY <1>1, <1>8, <2>1 DEF Inv, AccountsOK, AccountsAgree, Gids, Pinned
  <2>. QED BY <1>3, <1>8, <2>1, <2>2, LineStepKeeps
<1>. QED BY <1>2, <1>7, <1>8

LEMMA AppendShadowKeeps == ASSUME Inv, AppendShadow PROVE Inv'
<1>1. /\ tx.pc = "shadow" /\ AccountStep /\ UNCHANGED <<group, passwd, lost>> /\ NextLine
      /\ Line.kind = "u" /\ TypeOK /\ Named(passwd, Line.name) # {}
      /\ (cut' = cut /\ shadow' = shadow \cup {Line.name}) \/ (cut' /\ shadow' = shadow)
      BY DEF AppendShadow, AccountStep, Inv, TypeOK, AccountsOK, Fine, Fault
<1>2. LineStep /\ tx'.pc = "lines" /\ tx'.copies = tx.copies
      BY <1>1, NextLineSteps
<1>3. PICK p, n : p = Package /\ n = Behind
      OBVIOUS
<1>4. Line = Decls[p][n + 1]
      BY <1>1, <1>3, AtPackage DEF AccountStep, OfLines, OfPackage
<1>5. \A u \in passwd : u.name \in shadow' \/ cut'
      BY <1>1 DEF Inv, AccountsOK, AccountsAgree
<1>6. AccountsOK'
      BY <1>1, <1>2, <1>5 DEF Inv, AccountsOK, AccountsAgree, Gids, Pinned
<1>7. ASSUME cut' = cut, ~cut PROVE Furthers(p, n)
  <2>1. Applied(p, n + 1)'
        BY <1>1, <1>4 DEF Applied, Named
  <2>2. Grown
        BY <1>1 DEF Grown
  <2>. QED BY <1>1, <1>2, <1>7, <2>1, <2>2, AccountFurthers
<1>. QED BY <1>1, <1>2, <1>3, <1>6, <1>7, LineStepKeeps

\* The groups are rewritten with the member in theirs, or they are gone.
LEMMA AddMembershipKeeps == ASSUME Inv, AddMembership PROVE Inv'
<1>. DEFINE New(g) == IF g.name = Line.group THEN [g EXCEPT !.members = @ \cup {Line.name}] ELSE g
<1>1. /\ tx.pc = "rewrite" /\ AccountStep /\ UNCHANGED <<passwd, shadow>> /\ NextLine
      /\ Line.kind = "m" /\ TypeOK
      /\ \/ cut' = cut /\ lost' = lost /\ group' = {New(g) : g \in group}
         \/ cut' /\ lost' /\ group' = {}
      BY DEF AddMembership, AccountStep, Inv, TypeOK, Fine, Fault
<1>2. LineStep /\ tx'.pc = "lines" /\ tx'.copies = tx.copies
      BY <1>1, NextLineSteps
<1>3. PICK p, n : p = Package /\ n = Behind
      OBVIOUS
<1>4. Line = Decls[p][n + 1]
      BY <1>1, <1>3, AtPackage DEF AccountStep, OfLines, OfPackage
<1>5. CASE cut' /\ lost' /\ group' = {}
  <2>1. AccountsOK'
        BY <1>1, <1>2, <1>5 DEF Inv, AccountsOK, AccountsAgree, Gids, Pinned
  <2>. QED BY <1>2, <1>3, <1>5, <2>1, LineStepKeeps
<1>6. CASE cut' = cut /\ lost' = lost /\ group' = {New(g) : g \in group}
  <2>1. ASSUME NEW g \in group
        PROVE  /\ DOMAIN New(g) = {"name", "id", "members"} /\ New(g).name = g.name /\ New(g).id = g.id
               /\ g.members \subseteq New(g).members
               /\ g.name = Line.group => Line.name \in New(g).members
    <3>1. DOMAIN g = {"name", "id", "members"}
          BY DEF Inv, AccountsOK
    <3>. QED BY <3>1
  <2>. HIDE DEF New
  <2>2. \A h \in group' : \E g \in group : h = New(g)
        BY <1>6
  <2>3. \A g \in group : New(g) \in group'
        BY <1>6
  <2>4. Gids' = Gids
        BY <2>1, <2>2, <2>3 DEF Gids
  <2>5. \A g, h \in group' : (g # h /\ g.id = h.id) => g.id \in Pinned \cup {0}
    <3>. SUFFICES ASSUME NEW g \in group', NEW h \in group', g # h, g.id = h.id PROVE g.id \in Pinned \cup {0}
         OBVIOUS
    <3>1. PICK x \in group, y \in group : g = New(x) /\ h = New(y)
          BY <2>2
    <3>2. x # y /\ x.id = y.id /\ x.id = g.id
          BY <2>1, <3>1
    <3>. QED BY <3>2 DEF Inv, AccountsOK, AccountsAgree
  <2>6. \A u \in passwd : (u.gid \in Gids \/ lost) /\ (u.name \in shadow \/ cut)
        BY <1>1 DEF Inv, AccountsOK, AccountsAgree
  <2>7. \A u, v \in passwd : (u # v /\ u.uid = v.uid) => u.uid \in Pinned \cup {0}
        BY DEF Inv, AccountsOK, AccountsAgree
  <2>8. AccountsOK'
        BY <1>1, <1>2, <1>6, <2>1, <2>2, <2>4, <2>5, <2>6, <2>7 DEF AccountsOK, AccountsAgree, Pinned
  <2>9. Grown
        BY <1>1, <2>1, <2>2, <2>3 DEF Grown
  <2>10. Applied(p, n + 1)'
    <3>1. \A h \in Named(group', Line.group) : Line.name \in h.members
          BY <2>1, <2>2 DEF Named
    <3>. QED BY <1>1, <1>4, <3>1 DEF Applied, Named
  <2>11. ~cut => Furthers(p, n)
         BY <1>1, <1>2, <2>9, <2>10, AccountFurthers
  <2>. QED BY <1>2, <1>3, <1>6, <2>8, <2>11, LineStepKeeps
<1>. QED BY <1>1, <1>5, <1>6

-----------------------------------------------------------------------------
(* The defaults, and the end of a package. *)

LEMMA CopiesKeeps == ASSUME Inv, Copies PROVE Inv'
<1>1. /\ tx.pc = "lines" /\ tx.lines = <<>> /\ TypeOK /\ tx.pc \in OfLines
      /\ UNCHANGED <<hookdirs, installed, outdated, accounts, was, vetoed, ran, cut, lost>>
      /\ tx.copies \subseteq Defaults[Package] /\ tx.todo # {}
      BY DEF Copies, history, Inv, TypeOK, OfLines, OfPackage
<1>2. PICK p, n : p = Package /\ n = Behind
      OBVIOUS
<1>3. p \in Packages /\ n = Len(Decls[p]) /\ Defaults[p] \subseteq Targets
  <2>1. p \in Packages /\ Len(Decls[p]) \in Nat
        BY <1>1, <1>2, AtPackage
  <2>. QED BY <1>1, <1>2, <2>1 DEF Behind, Targets
<1>4. Grown
      BY <1>1 DEF Grown, accounts
<1>5. ~cut => \A t \in Targets : default[t] # "part"
      BY <1>1 DEF Inv, ProvidedOK
<1>6. CASE /\ tx.copies = {} /\ default' = default
           /\ tx' = [tx EXCEPT !.pc = "unpack", !.todo = @ \ {Package}, !.done = @ \cup {Package}]
  <2>1. /\ DOMAIN tx' = DOMAIN NoTx /\ tx'.pc = "unpack" /\ tx'.plan = tx.plan /\ tx'.todo = tx.todo \ {Package}
        /\ tx'.hooks = tx.hooks /\ tx'.ops = tx.ops /\ tx'.stale = tx.stale
        BY <1>6, NoTxIs DEF Inv, TypeOK
  <2>2. TypeOK'
        BY <1>1, <1>6, <2>1, TypeBears DEF Inv, TypeOK, OfPackage, Pcs
  <2>3. HooksOK'
        BY <1>1, <2>1, HooksBear DEF Inv
  <2>4. AccountsOK'
        BY <1>1, <2>1, AccountsBear DEF Inv
  <2>5. ProvidedOK'
    <3>. SUFFICES ASSUME ~cut PROVE ProvidedOK'
         BY <1>1 DEF ProvidedOK
    <3>1. Provided(p)
          BY <1>1, <1>2, <1>3, <1>6 DEF Inv, ProvidedOK, Provided, Whole
    <3>2. \A q \in installed : Provided(q)
          BY <1>2, <3>1 DEF Inv, ProvidedOK
    <3>3. \A q \in installed' : Provided(q)'
          BY <1>1, <1>6, <3>2 DEF Provided, Applied, DeclaresFirst, Named, accounts
    <3>4. outdated => tx.stale
          BY <1>1 DEF Inv, ProvidedOK
    <3>. QED BY <1>1, <1>5, <1>6, <2>1, <3>3, <3>4 DEF ProvidedOK, OfLines, OfPackage, Targets
  <2>. QED BY <2>2, <2>3, <2>4, <2>5 DEF Inv
<1>7. ASSUME NEW t \in tx.copies, default[t] = "none", tx' = [tx EXCEPT !.pc = "copy", !.target = t],
             default' = [default EXCEPT ![t] = "part"]
      PROVE  Inv'
  <2>1. t \in Targets
        BY <1>1, <1>2, <1>3
  <2>2. /\ DOMAIN tx' = DOMAIN NoTx /\ tx'.pc = "copy" /\ tx'.target = t /\ tx'.lines = tx.lines
        /\ tx'.plan = tx.plan /\ tx'.todo = tx.todo /\ tx'.hooks = tx.hooks
        /\ tx'.ops = tx.ops /\ tx'.stale = tx.stale /\ tx'.copies = tx.copies
        BY <1>1, <1>7, NoTxIs DEF TypeOK
  <2>3. LineStep
        BY <1>1, <1>7, <2>1, <2>2 DEF LineStep, OfLines, OfPackage, TypeOK
  <2>4. AccountsOK'
        BY <1>1, <2>2, AccountsBear DEF Inv
  <2>5. ~cut => Furthers(p, n)
        BY <1>1, <1>4, <1>5, <1>7, <2>2 DEF Furthers, Whole, TypeOK
  <2>. QED BY <1>1, <1>2, <2>3, <2>4, <2>5, LineStepKeeps
<1>8. ASSUME NEW t \in tx.copies, default[t] # "none", tx' = [tx EXCEPT !.copies = @ \ {t}], default' = default
      PROVE  Inv'
  <2>1. t \in Targets
        BY <1>1, <1>2, <1>3
  <2>2. /\ DOMAIN tx' = DOMAIN NoTx /\ tx'.pc = tx.pc /\ tx'.lines = tx.lines
        /\ tx'.plan = tx.plan /\ tx'.todo = tx.todo /\ tx'.hooks = tx.hooks
        /\ tx'.ops = tx.ops /\ tx'.stale = tx.stale /\ tx'.copies = tx.copies \ {t}
        BY <1>1, <1>8, NoTxIs DEF TypeOK
  <2>3. LineStep
        BY <1>1, <1>8, <2>1, <2>2 DEF LineStep, OfLines, OfPackage, TypeOK
  <2>4. AccountsOK'
        BY <1>1, <2>2, AccountsBear DEF Inv
  <2>5. ~cut => Furthers(p, n)
        BY <1>1, <1>4, <1>5, <1>8, <2>1, <2>2 DEF Furthers, Whole, TypeOK
  <2>. QED BY <1>1, <1>2, <2>3, <2>4, <2>5, LineStepKeeps
<1>. QED BY <1>6, <1>7, <1>8 DEF Copies

LEMMA CopyDefaultKeeps == ASSUME Inv, CopyDefault PROVE Inv'
<1>1. /\ tx.pc = "copy" /\ TypeOK /\ tx.lines = <<>> /\ tx.target \in Targets
      /\ UNCHANGED <<hookdirs, installed, outdated, accounts, was, vetoed, ran, lost>>
      /\ tx' = [tx EXCEPT !.pc = "lines", !.copies = @ \ {tx.target}, !.target = "none"]
      /\ \/ cut' = cut /\ default' = [default EXCEPT ![tx.target] = "whole"]
         \/ cut' /\ default' = default
      BY DEF CopyDefault, Fine, Fault, Inv, TypeOK
<1>2. /\ DOMAIN tx' = DOMAIN NoTx /\ tx'.pc = "lines" /\ tx'.lines = tx.lines
      /\ tx'.plan = tx.plan /\ tx'.todo = tx.todo /\ tx'.hooks = tx.hooks
      /\ tx'.ops = tx.ops /\ tx'.stale = tx.stale /\ tx'.copies = tx.copies \ {tx.target}
      BY <1>1, NoTxIs DEF TypeOK
<1>3. LineStep
      BY <1>1, <1>2 DEF LineStep, OfLines, OfPackage, TypeOK
<1>4. AccountsOK'
      BY <1>1, <1>2, AccountsBear DEF Inv
<1>5. PICK p, n : p = Package /\ n = Behind
      OBVIOUS
<1>6. Grown
      BY <1>1 DEF Grown, accounts
<1>7. ASSUME ~cut, cut' = cut PROVE Furthers(p, n)
  <2>1. \A t \in Targets : default[t] = "part" => t = tx.target
        BY <1>7 DEF Inv, ProvidedOK
  <2>2. default' = [default EXCEPT ![tx.target] = "whole"]
        BY <1>1, <1>7
  <2>3. \A t \in Targets : default'[t] = IF t = tx.target THEN "whole" ELSE default[t]
        BY <1>1, <2>2 DEF TypeOK
  <2>. QED BY <1>1, <1>2, <1>6, <2>1, <2>3 DEF Furthers, Whole
<1>. QED BY <1>1, <1>3, <1>4, <1>5, <1>7, LineStepKeeps

-----------------------------------------------------------------------------

LEMMA NextKeeps == ASSUME Inv, [Next]_vars PROVE Inv'
<1>1. CASE \E kind \in {"install", "remove"}, S \in SUBSET Packages : Begin(kind, S)
      BY <1>1, BeginKeeps
<1>2. CASE RunPre
      BY <1>2, RunPreKeeps
<1>3. CASE Fetch
      BY <1>3, FetchKeeps
<1>4. CASE Unpack
      BY <1>4, UnpackKeeps
<1>5. CASE AfterRecord
      BY <1>5, AfterRecordKeeps
<1>6. CASE Declares
      BY <1>6, DeclaresKeeps
<1>7. CASE EnsureGroup
      BY <1>7, EnsureGroupKeeps
<1>8. CASE AppendPasswd
      BY <1>8, AppendPasswdKeeps
<1>9. CASE AppendShadow
      BY <1>9, AppendShadowKeeps
<1>10. CASE AddMembership
       BY <1>10, AddMembershipKeeps
<1>11. CASE Copies
       BY <1>11, CopiesKeeps
<1>12. CASE CopyDefault
       BY <1>12, CopyDefaultKeeps
<1>13. CASE Uninstall
       BY <1>13, UninstallKeeps
<1>14. CASE RefreshCaches
       BY <1>14, RefreshCachesKeeps
<1>15. CASE RunPost
       BY <1>15, RunPostKeeps
<1>16. CASE Finish
       BY <1>16, FinishKeeps
<1>17. CASE Kill
       BY <1>17, KillKeeps
<1>18. CASE UNCHANGED vars
  <2>1. /\ UNCHANGED <<hookdirs, installed, outdated, group, passwd, shadow, default, called, was, tx,
                       vetoed, ran, cut, lost>>
        BY <1>18 DEF vars, machine, accounts, history
  <2>2. TypeOK'
        BY <2>1 DEF Inv, TypeOK, OfPackage, OfLines, Package, First, Line, Rest, Targets, Packages
  <2>3. HooksOK'
        BY <2>1 DEF Inv, HooksOK, IsHook, Loaded
  <2>4. AccountsOK'
        BY <2>1 DEF Inv, AccountsOK, AccountsAgree, Gids, Line, Named, Pinned
  <2>5. ProvidedOK'
    <3>. SUFFICES ASSUME ~cut PROVE ProvidedOK'
         BY <2>1 DEF ProvidedOK
    <3>1. PICK p, n : p = Package /\ n = Behind
          OBVIOUS
    <3>2. Package' = p /\ Behind' = n
          BY <2>1, <3>1 DEF Package, First, Behind
    <3>3. \A q, i : Applied(q, i)' = Applied(q, i)
          BY <2>1 DEF Applied, DeclaresFirst, Named
    <3>4. \A q : Provided(q)' = Provided(q)
          BY <2>1, <3>3 DEF Provided
    <3>5. \A q \in installed' : Provided(q)' \/ (tx'.pc \in OfPackage /\ q = Package')
          BY <2>1, <3>1, <3>2, <3>4 DEF Inv, ProvidedOK
    <3>6. (tx.pc \in OfLines => /\ \A i \in 1 .. Behind : Applied(Package, i)
                                /\ \A t \in Defaults[Package] : t \in tx.copies \/ Whole(t))'
          BY <2>1, <3>1, <3>2, <3>3 DEF Inv, ProvidedOK, Whole
    <3>7. (/\ \A t \in Targets : default[t] = "part" => tx.pc = "copy" /\ t = tx.target
           /\ outdated => \/ tx.pc = "script" /\ Notes(Package)
                          \/ tx.pc \in OfLines \cup {"unpack", "remove"} /\ tx.stale)'
          BY <2>1, <3>1, <3>2 DEF Inv, ProvidedOK, Notes, Stale, Targets
    <3>. QED BY <3>5, <3>6, <3>7 DEF ProvidedOK
  <2>. QED BY <2>2, <2>3, <2>4, <2>5 DEF Inv
<1>. QED BY <1>1, <1>2, <1>3, <1>4, <1>5, <1>6, <1>7, <1>8, <1>9, <1>10, <1>11, <1>12, <1>13, <1>14,
            <1>15, <1>16, <1>17, <1>18 DEF Next, Terminating

\* A hook that may stop a transaction stops it with the machine as it was, and what a
\* hook brackets before a transaction is bracketed after it (txhooks.rs).
THEOREM HooksBracket == Spec => []Bracketed
<1>. QED BY InitOK, NextKeeps, InvSays, PTL DEF Spec

\* No step of ensure_group, ensure_user and add_membership leaves a user without its
\* group or two names on one id that no package pinned (hooks.rs).
THEOREM TheAccountsAgree == Spec => []AccountsAgree
<1>. QED BY InitOK, NextKeeps, InvSays, PTL DEF Spec

\* What is installed has its accounts, memberships and defaults, and is indexed, unless
\* a step failed, whatever was installed before it (hooks.rs, caches.rs).
THEOREM WhatIsInstalledIsProvidedFor == Spec => []Provisioned
<1>. QED BY InitOK, NextKeeps, InvSays, PTL DEF Spec

====

------------------------------ MODULE MCPlanner ------------------------------
(* A small distribution: an application over a library whose second version *)
(* needs a runtime that needs the library back; two rivals for one virtual  *)
(* dependency; a renamed package and a program that needs it; a VCS package *)
(* of the AUR with a build-time need and the toolchain; and a package built *)
(* locally that shares its name with one of the AUR's.                      *)
EXTENDS Planner

D(n) == [name |-> n, ok |-> AnyVersion]
R(n, v, from, deps) ==
    [name |-> n, ver |-> v, from |-> from, url |-> n, depends |-> deps, make |-> <<>>,
     conflicts |-> {}, replaces |-> {}, provides |-> {}]

MCAny == 0..9
MCToolchain == <<D("devel")>>
MCNames == {"app", "lib", "rt", "jack", "pipe", "old", "new", "cli", "tool", "mk", "devel", "crow"}

app1  == R("app", 1, "repo", <<D("lib"), D("sound")>>)
app2  == R("app", 2, "repo", <<[name |-> "lib", ok |-> {2}], D("sound")>>)
lib1  == R("lib", 1, "repo", <<>>)
lib2  == R("lib", 2, "repo", <<D("rt")>>)
rt1   == R("rt", 1, "repo", <<D("lib")>>)
jack1 == [R("jack", 1, "repo", <<>>) EXCEPT !.provides = {<<"sound", 1>>}, !.conflicts = {D("sound")}]
pipe2 == [R("pipe", 2, "repo", <<>>) EXCEPT !.provides = {<<"sound", 1>>}, !.conflicts = {D("sound")}]
old1  == R("old", 1, "repo", <<>>)
new2  == [R("new", 2, "repo", <<D("lib")>>) EXCEPT
             !.provides = {<<"old", 2>>}, !.conflicts = {D("old")}, !.replaces = {D("old")}]
cli1  == R("cli", 1, "repo", <<D("old"), D("xdg-utils")>>)
tool1 == [R("tool", 1, "aur", <<D("lib")>>) EXCEPT !.make = <<D("mk")>>]
mk1   == R("mk", 1, "repo", <<>>)
devel1 == R("devel", 1, "repo", <<D("lib")>>)
crow1 == R("crow", 1, "local", <<>>)
crow2 == R("crow", 2, "aur", <<>>)

MCReleases == {app1, app2, lib1, lib2, rt1, jack1, pipe2, old1, new2, cli1, tool1, mk1, devel1,
               crow1, crow2}
MCPublished ==
    <<[sync |-> <<<<app1, lib1, rt1, jack1>>, <<pipe2, old1, cli1, mk1, devel1>>>>, aur |-> {tool1, crow2}],
      [sync |-> <<<<app2, lib2, rt1, jack1>>, <<pipe2, new2, cli1, mk1, devel1>>>>, aur |-> {tool1, crow2}]>>

Machine(rs, ex) ==
    [inst |-> [n \in MCNames |-> IF \E r \in rs : r.name = n THEN CHOOSE r \in rs : r.name = n ELSE None],
     why  |-> [n \in MCNames |-> IF n \in ex THEN "explicit" ELSE "dependency"]]
MCMachines == {Machine({crow1}, {"crow"}),
               Machine({app1, pipe2, cli1, old1}, {"app", "cli"}),
               Machine({app1, lib1, jack1, tool1, devel1, mk1}, {"app", "tool", "devel"})}
MCOrders == {<<"app", "cli", "crow", "devel", "jack", "lib", "mk", "new", "old", "pipe", "rt", "tool">>,
             <<"tool", "rt", "pipe", "old", "new", "mk", "lib", "jack", "devel", "crow", "cli", "app">>}
MCRequests == {<<D("app")>>, <<D("tool"), D("lib")>>, <<D("lib")>>, <<D("cli"), D("jack"), D("xdg-utils")>>}
MCRemovals ==
    {[names |-> {"app"}, options |-> {"recursive"}],
     [names |-> {"app"}, options |-> {"recursive", "yes"}],
     [names |-> {"app"}, options |-> {"recursive", "yes", "removeOrphans"}],
     [names |-> {"lib"}, options |-> {"cascade", "recursive"}],
     [names |-> {"lib"}, options |-> {"nodeps"}],
     [names |-> {"old"}, options |-> {}],
     [names |-> {"devel"}, options |-> {"yes"}],
     [names |-> {"tool"}, options |-> {"recursive"}]}
MCSystem == {<<"xdg-utils", 0>>}
=============================================================================

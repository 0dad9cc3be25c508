---- MODULE MCAftermath ----
(* A daemon with accounts and a default, a desktop application, and the    *)
(* hook directories of a machine that takes a snapshot around its          *)
(* transactions.                                                           *)
EXTENDS Aftermath
MCOrder == <<"app", "daemon">>
MCPaths == [app |-> {"app"}, daemon |-> {"etc"}]
MCScripted == {"app"}
Free == [by |-> "free", id |-> 0]
MCDecls == [app |-> <<>>,
            daemon |-> <<[kind |-> "g", name |-> "d", spec |-> Free, group |-> "-"],
                         [kind |-> "u", name |-> "d", spec |-> [by |-> "path", id |-> 1], group |-> "-"],
                         [kind |-> "u", name |-> "e", spec |-> [by |-> "path", id |-> 1], group |-> "d"],
                         [kind |-> "m", name |-> "e", spec |-> Free, group |-> "d"]>>]
MCDefaults == [app |-> {}, daemon |-> {"conf"}]
Snap(when, ops, abort) ==
  [file |-> "hook", when |-> when, ops |-> ops, packages |-> {}, paths |-> {}, abort |-> abort]
Marked(file) == [Snap("pre", {}, FALSE) EXCEPT !.file = file]
Shipped == Snap("pre", Ops, TRUE)
Always == Snap("post", Ops, FALSE)
Fresh(when) == Snap(when, {"install"}, FALSE)
Watch == [Always EXCEPT !.paths = {"app"}]
Absent == Marked("absent")
MCHookSets ==
  {<<<<Shipped, Marked(etc)>>, <<Absent, post>>>> :
     etc \in {"absent", "null", "empty"}, post \in {Always, Watch}}
  \cup {<<<<Fresh("pre"), Absent>>, <<Fresh("post"), Absent>>>>,
        <<<<Marked("broken"), Shipped>>, <<Absent, [Always EXCEPT !.abort = TRUE]>>>>,
        <<<<Absent, [Shipped EXCEPT !.packages = {"daemon"}]>>, <<Marked("empty"), Marked("null")>>>>}
====

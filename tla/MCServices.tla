---- MODULE MCServices ----
(* One service, two of rvnd's threads and one install at a time.           *)
EXTENDS Services
MCOrder == <<"faced">>
MCClients == {"c1", "c2"}
====

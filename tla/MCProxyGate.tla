---------------------------- MODULE MCProxyGate ----------------------------
(***************************************************************************)
(* Small instances of ProxyGate: two hosts in scope, "a" with two public   *)
(* addresses to choose from and an answer that mixes in a private one, "b" *)
(* with one address, and "x" out of scope. "A" is another spelling of "a". *)
(***************************************************************************)
EXTENDS ProxyGate, TLC

MCHosts    == {"a", "b", "x"}
MCNormHost == [n \in MCHosts |-> n]

\* One host in scope.
MCHosts2    == {"a", "x"}
MCNormHost2 == [n \in MCHosts2 |-> n]

\* A second spelling.
MCNames3    == MCHosts \cup {"A"}
MCNormHost3 == [n \in MCNames3 |-> IF n = "A" THEN "a" ELSE n]

MCIPs     == {"pub1", "pub2", "priv"}
MCBlocked == {"priv"}
MCAnswers ==
  [h \in MCHosts |->
     IF h = "a" THEN {<<"pub1">>, <<"priv", "pub2">>, <<"pub2">>} ELSE {<<"pub1">>}]
MCAnswers2 == [h \in MCHosts2 |-> {<<"pub1">>, <<"pub2", "priv">>}]

Symmetry == Permutations(Reqs)
============================================================================

------------------------------ MODULE MCSupport ------------------------------
(***************************************************************************)
(* An instance of the modules about the commands and services around the   *)
(* proxy. They share no state, so they are checked side by side and not    *)
(* together: a behaviour runs one of them, and the others rest. The state  *)
(* space is the sum of theirs, and every property holds of each.           *)
(***************************************************************************)
EXTENDS Workers, VPNGateway, ScopeRules, Normalize, RateLimiter, ConfiguredStore,
        ScanCommand

VARIABLE part  \* which module runs

Parts == {"workers", "vpn", "scope", "normalize", "rate", "store", "scan"}

\* The domain e.com: its apex is <<"e">>, and s.e.com is <<"s", "e">>.
TwoNames   == {<<"e">>, <<"s", "e">>}
ThreeNames == TwoNames \cup {<<"o">>}
FourPaths  == {<< >>, <<"a">>, <<"a", "b">>, <<"c">>}
TwoPaths   == {<<"a">>, <<"a", "b">>}
SomeLimits == {[schemes |-> {}, ports |-> {}],
               [schemes |-> {"https"}, ports |-> {}],
               [schemes |-> {"https"}, ports |-> {443}]}

\* No rule, or any one.
AtMostOneRule == {{}} \cup {{r} : r \in Rules}

\* A part that rests starts in one state.
RestingParts ==
  /\ part # "store" =>
       asked = [tag |-> FALSE, enabled |-> FALSE, env |-> FALSE, conn |-> FALSE]
  /\ part # "scan" =>
       /\ setting = [tool |-> "bbot", dryRun |-> TRUE, noProxy |-> FALSE, vpn |-> FALSE,
                     ready |-> TRUE]
       /\ targets = <<"a">> /\ ~switchOn

SupportInit ==
  /\ part \in Parts
  /\ WorkersInit /\ VPNInit /\ ScopeInit /\ NormalizeInit /\ RateInit /\ StoreInit
  /\ ScanInit
  /\ RestingParts

SupportNext ==
  /\ UNCHANGED part
  /\ \/ part = "workers" /\ WorkersNext
     \/ part # "workers" /\ UNCHANGED workersVars
  /\ \/ part = "vpn" /\ VPNNext
     \/ part # "vpn" /\ UNCHANGED vpnVars
  /\ \/ part = "scope" /\ ScopeNext
     \/ part # "scope" /\ UNCHANGED program
  /\ \/ part = "normalize" /\ NormalizeNext
     \/ part # "normalize" /\ UNCHANGED url
  /\ \/ part = "rate" /\ RateNext
     \/ part # "rate" /\ UNCHANGED rateVars
  /\ \/ part = "store" /\ StoreNext
     \/ part # "store" /\ UNCHANGED storeVars
  /\ \/ part = "scan" /\ ScanNext
     \/ part # "scan" /\ UNCHANGED scanVars

supportVars == <<part, workersVars, vpnVars, program, url, rateVars, storeVars, scanVars>>

SupportSpec == SupportInit /\ [][SupportNext]_supportVars
============================================================================

-------------------------- MODULE ProxyGateProofs --------------------------
(***************************************************************************)
(* Proofs about the proxy's gate, for any number of requests, hosts, DNS   *)
(* answers and tokens. The strengthening says, for every place a request   *)
(* can be at, which checks it has behind it and what it holds; the answers *)
(* of the check_url tool and of the gate agree.                            *)
(***************************************************************************)
EXTENDS ProxyGate, TLAPS, FiniteSetTheorems

\* Every request that has arrived is about a URL.
HasURL == \A r \in Reqs : pc[r] # "idle" => url[r] \in URLs /\ kind[r] \in AllKinds

ForwardPhases == {"allow", "reresolve", "repin", "await", "rresolve", "rstore"}
ConnectPhases == {"hijack", "tunnel"}
CommonPhases  == {"static", "store", "rate", "dial"}

\* Which kinds of request each place belongs to.
KindsFit ==
  \A r \in Reqs :
    /\ pc[r] \in ForwardPhases => kind[r] = "forward"
    /\ pc[r] \in ConnectPhases => kind[r] = "connect"
    /\ pc[r] \in CommonPhases  => kind[r] \in {"forward", "connect"}
    /\ pc[r] = "resolve" => kind[r] \in {"forward", "connect", "check"}
    /\ pc[r] # "idle" /\ kind[r] = "connect" => url[r].fault # "path"

\* What is written to the pin map, and what is in it.
StoringPhases == {"store", "repin", "rstore"}

AnswersHeld ==
  \A r \in Reqs : pc[r] \in StoringPhases =>
    answer[r] \in AcceptedLists /\ ValidIPs(answer[r])

TypeInv == TypeOK /\ HasURL /\ KindsFit /\ AnswersHeld

\* A list a lookup returned has a first address.
LEMMA ListsNotEmpty ==
  ASSUME NEW ips \in AcceptedLists
  PROVE  ips \in Seq(IPs) /\ ips # NoAnswer /\ 1 \in DOMAIN ips /\ ips[1] \in IPs
<1>1. PICK h \in Hosts : ips \in Answers[h]
  BY DEF AcceptedLists
<1>2. ips \in Seq(IPs) /\ ips # << >>
  BY <1>1, AnswersAssumption DEF NoAnswer
<1>3. QED
  BY <1>2 DEF NoAnswer

\* Normalising the name of a URL gives a host.
LEMMA HostInHosts ==
  ASSUME NEW r \in Reqs, url[r] \in URLs
  PROVE  Host(r) \in Hosts
BY NamesAssumption DEF Host, URLs

\* A host's answers are accepted lists.
LEMMA AnswerAccepted ==
  ASSUME NEW h \in Hosts, NEW ips \in Answers[h] PROVE ips \in AcceptedLists
BY DEF AcceptedLists

\* storeResolvedIPs changes the entry of host and may empty one other.
LEMMA StoreEffect ==
  ASSUME NEW host \in Hosts, NEW ips \in AcceptedLists,
         pins \in [Hosts -> AcceptedLists \cup {NoAnswer}],
         StoreResolvedIPs(host, ips)
  PROVE  /\ pins' \in [Hosts -> AcceptedLists \cup {NoAnswer}]
         /\ pins'[host] = ips
         /\ \A h \in Hosts \ {host} : pins'[h] \in {pins[h], NoAnswer}
BY DEF StoreResolvedIPs

\* Ending a request keeps the types of what it sets.
LEMMA FinishTyped ==
  ASSUME TypeOK, NEW r \in Reqs, NEW event \in Events, NEW reason \in Reasons,
         Finish(r, event, reason)
  PROVE  /\ pc' = [pc EXCEPT ![r] = "done"]
         /\ pc' \in [Reqs -> Phases]
         /\ entry' \in [Reqs -> Events]
         /\ why' \in [Reqs -> Reasons]
BY DEF TypeOK, Finish, Phases

\* At first no request has arrived.
LEMMA InitTypeInv == Init => TypeInv
<1> SUFFICES ASSUME Init PROVE TypeInv
  OBVIOUS
<1> USE SizesAssumption DEF Init
<1>1. TypeOK
  <2>1. tokens \in [Hosts -> 0..Burst] /\ refills \in 0..MaxRefills
    OBVIOUS
  <2>2. hops \in [Reqs -> Nat] /\ contacts \in [Hosts -> Nat] /\ followed \in [Hosts -> Nat]
    OBVIOUS
  <2>3. dial \in [Reqs -> Dials]
    BY DEF Dials
  <2>4. QED
    BY <2>1, <2>2, <2>3 DEF TypeOK, Phases, Events, Reasons
<1>2. HasURL /\ KindsFit /\ AnswersHeld
  BY DEF HasURL, KindsFit, AnswersHeld, StoringPhases, ForwardPhases,
         ConnectPhases, CommonPhases
<1>3. QED
  BY <1>1, <1>2 DEF TypeInv
----------------------------------------------------------------------------
(***************************************************************************)
(* TypeInv is inductive.                                                   *)
(***************************************************************************)
LEMMA StepTypeInv == TypeInv /\ [Next]_vars => TypeInv'
<1> SUFFICES ASSUME TypeInv, [Next]_vars PROVE TypeInv'
  OBVIOUS
<1> USE SizesAssumption
<1> USE DEF TypeInv, Goto, Proceed, shared, history
<1>1. ASSUME NEW r \in Reqs, Arrive(r) PROVE TypeInv'
  <2>1. TypeOK'
    BY <1>1, ModesAssumption DEF Arrive, TypeOK, Phases, URLs
  <2>2. HasURL'
    BY <1>1, ModesAssumption DEF Arrive, TypeOK, HasURL, URLs
  <2>3. KindsFit'
    BY <1>1 DEF Arrive, TypeOK, KindsFit, ForwardPhases, ConnectPhases, CommonPhases
  <2>4. AnswersHeld'
    BY <1>1 DEF Arrive, TypeOK, AnswersHeld, StoringPhases
  <2>5. QED
    BY <2>1, <2>2, <2>3, <2>4
<1> USE DEF Finish, TypeOK, HasURL, KindsFit, AnswersHeld, Phases, Events, Reasons,
            StoringPhases, ForwardPhases, ConnectPhases, CommonPhases
<1>2. ASSUME NEW r \in Reqs, Health(r) PROVE TypeInv'
  BY <1>2 DEF Health
<1>3. ASSUME NEW r \in Reqs, KillGate(r) PROVE TypeInv'
  BY <1>3 DEF KillGate
<1>4. ASSUME NEW r \in Reqs, StaticGate(r) PROVE TypeInv'
  BY <1>4 DEF StaticGate
<1>5. ASSUME NEW r \in Reqs, Resolve(r) PROVE TypeInv'
  <2>1. Host(r) \in Hosts /\ pc[r] # "idle"
    BY <1>5, HostInHosts DEF Resolve
  <2>2. \A ips \in Answers[Host(r)] : ips \in AcceptedLists
    BY <2>1, AnswerAccepted
  <2>3. QED
    BY <1>5, <2>2 DEF Resolve
<1>6. ASSUME NEW r \in Reqs, Store(r) PROVE TypeInv'
  <2>1. Host(r) \in Hosts /\ pc[r] # "idle"
    BY <1>6, HostInHosts DEF Store
  <2>2. pins' \in [Hosts -> AcceptedLists \cup {NoAnswer}]
    BY <1>6, <2>1, StoreEffect DEF Store
  <2>3. QED
    BY <1>6, <2>2 DEF Store
<1>7. ASSUME NEW r \in Reqs, RateGate(r) PROVE TypeInv'
  <2>1. Host(r) \in Hosts /\ pc[r] # "idle"
    BY <1>7, HostInHosts DEF RateGate
  <2>2. tokens' \in [Hosts -> 0..Burst]
    BY <1>7, <2>1 DEF RateGate, TakeToken
  <2>3. QED
    BY <1>7, <2>2 DEF RateGate
<1>8. ASSUME NEW r \in Reqs, LogAllow(r) PROVE TypeInv'
  BY <1>8 DEF LogAllow
<1>9. ASSUME NEW r \in Reqs, ReResolve(r) PROVE TypeInv'
  <2>1. Host(r) \in Hosts /\ pc[r] # "idle"
    BY <1>9, HostInHosts DEF ReResolve
  <2>2. \A ips \in Answers[Host(r)] : ips \in AcceptedLists
    BY <2>1, AnswerAccepted
  <2>3. QED
    BY <1>9, <2>2 DEF ReResolve
<1>10. ASSUME NEW r \in Reqs, RePin(r) PROVE TypeInv'
  <2>1. Host(r) \in Hosts /\ pc[r] # "idle"
    BY <1>10, HostInHosts DEF RePin
  <2>2. pins' \in [Hosts -> AcceptedLists \cup {NoAnswer}]
    BY <1>10, <2>1, StoreEffect DEF RePin
  <2>3. QED
    BY <1>10, <2>2 DEF RePin
<1>11. ASSUME NEW r \in Reqs, Hijack(r) PROVE TypeInv'
  BY <1>11 DEF Hijack
<1>12. ASSUME NEW r \in Reqs, Dial(r) PROVE TypeInv'
  <2>1. Host(r) \in Hosts /\ pc[r] # "idle"
    BY <1>12, HostInHosts DEF Dial
  <2>2. /\ dial' \in [Reqs -> Dials]
        /\ contacts' \in [Hosts -> Nat] /\ followed' \in [Hosts -> Nat]
    <3>1. \A ip \in IPs, how \in {"pin", "dns"} :
            Connect(r, ip, how) => /\ dial' \in [Reqs -> Dials]
                                   /\ contacts' \in [Hosts -> Nat]
                                   /\ followed' \in [Hosts -> Nat]
      BY <2>1 DEF Connect, Dials
    <3>2. PinFor(r) # NoAnswer => PinFor(r)[1] \in IPs
      BY <2>1, ListsNotEmpty DEF PinFor
    <3>3. \A ips \in Answers[Host(r)] : \A i \in DOMAIN ips : ips[i] \in IPs
      BY <2>1, AnswersAssumption
    <3>4. QED
      BY <1>12, <3>1, <3>2, <3>3 DEF Dial
  <2>3. QED
    BY <1>12, <2>2 DEF Dial
<1>13. ASSUME NEW r \in Reqs, Respond(r) PROVE TypeInv'
  BY <1>13 DEF Respond
<1>14. ASSUME NEW r \in Reqs, Redirect(r) PROVE TypeInv'
  <2>1. url' \in [Reqs -> URLs \cup {NoURL}] /\ url'[r] \in URLs
        /\ kind[r] = "forward"
    <3>1. Faults \subseteq AllFaults
      BY ModesAssumption
    <3>2. QED
      BY <1>14, <3>1 DEF Redirect, URLs
  <2>2. \A q \in Reqs \ {r} : url'[q] = url[q]
    BY <1>14 DEF Redirect
  <2>3. QED
    BY <1>14, <2>1, <2>2 DEF Redirect
<1>15. ASSUME NEW r \in Reqs, RedirectResolve(r) PROVE TypeInv'
  <2>1. Host(r) \in Hosts /\ pc[r] # "idle"
    BY <1>15, HostInHosts DEF RedirectResolve
  <2>2. \A ips \in Answers[Host(r)] : ips \in AcceptedLists
    BY <2>1, AnswerAccepted
  <2>3. QED
    BY <1>15, <2>2 DEF RedirectResolve
<1>16. ASSUME NEW r \in Reqs, RedirectStore(r) PROVE TypeInv'
  <2>1. Host(r) \in Hosts /\ pc[r] # "idle"
    BY <1>16, HostInHosts DEF RedirectStore
  <2>2. pins' \in [Hosts -> AcceptedLists \cup {NoAnswer}]
    BY <1>16, <2>1, StoreEffect DEF RedirectStore
  <2>3. QED
    BY <1>16, <2>2 DEF RedirectStore
<1>17. ASSUME NEW r \in Reqs, TunnelClose(r) PROVE TypeInv'
  BY <1>17 DEF TunnelClose
<1>18. ASSUME NEW r \in Reqs, CheckGate(r) PROVE TypeInv'
  BY <1>18 DEF CheckGate
<1>19. ASSUME NEW r \in Reqs, CheckResolve(r) PROVE TypeInv'
  BY <1>19 DEF CheckResolve
<1>20. CASE Activate \/ Deactivate
  <2>1. CASE Activate
    BY <2>1 DEF Activate
  <2>2. CASE Deactivate
    <3>1. killed' \in BOOLEAN /\ late' \in [Reqs -> BOOLEAN]
      BY <2>2 DEF Deactivate
    <3> QED
      BY <2>2, <3>1 DEF Deactivate
  <2> QED
    BY <1>20, <2>1, <2>2
<1>21. CASE Refill
  <2>1. tokens' \in [Hosts -> 0..Burst] /\ refills' \in 0..MaxRefills
    BY <1>21 DEF Refill
  <2>2. QED
    BY <1>21, <2>1 DEF Refill
<1>22. CASE UNCHANGED vars
  BY <1>22 DEF vars
<1>23. QED
  BY <1>1, <1>2, <1>3, <1>4, <1>5, <1>6, <1>7, <1>8, <1>9, <1>10, <1>11, <1>12,
     <1>13, <1>14, <1>15, <1>16, <1>17, <1>18, <1>19, <1>20, <1>21, <1>22 DEF Next,
     Serve
----------------------------------------------------------------------------
(***************************************************************************)
(* What a request has behind it when it connects.                          *)
(***************************************************************************)
VettedPhases == {"store", "rate", "allow", "reresolve", "repin", "hijack",
                 "dial", "await", "rresolve", "rstore", "tunnel"}

\* Past the static checks the URL is one that every handler accepts.
Vetted ==
  \A r \in Reqs :
    pc[r] \in VettedPhases \/ (pc[r] = "resolve" /\ kind[r] # "check")
      => url[r].fault = "ok" /\ Host(r) \in InScope /\ ActiveTesting

\* Every pin and every list about to be stored has passed ValidateIPs.
PinsValid == \A h \in Hosts : ValidIPs(pins[h])

\* The chains of the two handlers and of the redirect hook check the same
\* things; a tunnel has no path, and a redirect follows an active program.
LEMMA ChainsComplete ==
  ASSUME NEW k \in {"forward", "connect", "redirect"}, NEW u \in URLs, Passes(k, u),
         k = "connect" => u.fault # "path",
         k = "redirect" => ActiveTesting
  PROVE  u.fault = "ok" /\ NormHost[u.name] \in InScope /\ ActiveTesting
<1> DEFINE c == Chain(k)
<1>1. \A i \in DOMAIN c : ~Fails(c[i], u)
  BY DEF Passes
<1>2. CASE k = "forward"
  <2>1. c = <<"parse", "inactive", "scheme", "port", "scope", "path">>
    BY <1>2 DEF Chain, ForwardChain
  <2>2. \A x \in {"parse", "inactive", "scheme", "port", "scope", "path"} : ~Fails(x, u)
    BY <1>1, <2>1
  <2>3. QED
    BY <2>2 DEF Fails, URLs, AllFaults
<1>3. CASE k = "connect"
  <2>1. c = <<"inactive", "parse", "scheme", "port", "scope">>
    BY <1>3 DEF Chain, ConnectChain
  <2>2. \A x \in {"parse", "inactive", "scheme", "port", "scope"} : ~Fails(x, u)
    BY <1>1, <2>1
  <2>3. QED
    BY <1>3, <2>2 DEF Fails, URLs, AllFaults
<1>4. CASE k = "redirect"
  <2>1. c = <<"parse", "scheme", "port", "scope", "path">>
    BY <1>4 DEF Chain, RedirectChain
  <2>2. \A x \in {"parse", "scheme", "port", "scope", "path"} : ~Fails(x, u)
    BY <1>1, <2>1
  <2>3. QED
    BY <1>4, <2>2 DEF Fails, URLs, AllFaults
<1>5. QED
  BY <1>2, <1>3, <1>4

\* Every step keeps what the checks of each place promise.
LEMMA StepVetted == TypeInv /\ Vetted /\ [Next]_vars => Vetted'
<1> SUFFICES ASSUME TypeInv, Vetted, [Next]_vars PROVE Vetted'
  OBVIOUS
<1> USE DEF TypeInv, TypeOK, HasURL, KindsFit, Goto, Proceed, Finish, shared, history,
            Vetted, VettedPhases, Host, ForwardPhases, ConnectPhases, CommonPhases
<1>1. ASSUME NEW r \in Reqs, Arrive(r) PROVE Vetted'
  BY <1>1 DEF Arrive
<1>2. ASSUME NEW r \in Reqs, Health(r) PROVE Vetted'
  BY <1>2 DEF Health
<1>3. ASSUME NEW r \in Reqs, KillGate(r) PROVE Vetted'
  BY <1>3 DEF KillGate
<1>4. ASSUME NEW r \in Reqs, StaticGate(r) PROVE Vetted'
  <2>1. url[r] \in URLs /\ kind[r] \in {"forward", "connect"}
    BY <1>4 DEF StaticGate
  <2>2. QED
    BY <1>4, <2>1, ChainsComplete DEF StaticGate
<1>5. ASSUME NEW r \in Reqs, Resolve(r) PROVE Vetted'
  BY <1>5 DEF Resolve
<1>6. ASSUME NEW r \in Reqs, Store(r) PROVE Vetted'
  BY <1>6 DEF Store
<1>7. ASSUME NEW r \in Reqs, RateGate(r) PROVE Vetted'
  BY <1>7 DEF RateGate
<1>8. ASSUME NEW r \in Reqs, LogAllow(r) PROVE Vetted'
  BY <1>8 DEF LogAllow
<1>9. ASSUME NEW r \in Reqs, ReResolve(r) PROVE Vetted'
  BY <1>9 DEF ReResolve
<1>10. ASSUME NEW r \in Reqs, RePin(r) PROVE Vetted'
  BY <1>10 DEF RePin
<1>11. ASSUME NEW r \in Reqs, Hijack(r) PROVE Vetted'
  BY <1>11 DEF Hijack
<1>12. ASSUME NEW r \in Reqs, Dial(r) PROVE Vetted'
  BY <1>12 DEF Dial, Connect
<1>13. ASSUME NEW r \in Reqs, Respond(r) PROVE Vetted'
  BY <1>13 DEF Respond
<1>14. ASSUME NEW r \in Reqs, Redirect(r) PROVE Vetted'
  <2>1. Faults \subseteq AllFaults
    BY ModesAssumption
  <2>2. PICK u \in URLs :
          /\ url' = [url EXCEPT ![r] = u]
          /\ IF Passes("redirect", u) THEN Proceed(r, "rresolve")
                                     ELSE Finish(r, "none", "redirect")
    BY <1>14, <2>1 DEF Redirect, URLs
  <2>3. ActiveTesting
    BY <1>14 DEF Redirect
  <2>4. QED
    BY <1>14, <2>2, <2>3, ChainsComplete DEF Redirect
<1>15. ASSUME NEW r \in Reqs, RedirectResolve(r) PROVE Vetted'
  BY <1>15 DEF RedirectResolve
<1>16. ASSUME NEW r \in Reqs, RedirectStore(r) PROVE Vetted'
  BY <1>16 DEF RedirectStore
<1>17. ASSUME NEW r \in Reqs, TunnelClose(r) PROVE Vetted'
  BY <1>17 DEF TunnelClose
<1>18. ASSUME NEW r \in Reqs, CheckGate(r) PROVE Vetted'
  BY <1>18 DEF CheckGate
<1>19. ASSUME NEW r \in Reqs, CheckResolve(r) PROVE Vetted'
  BY <1>19 DEF CheckResolve
<1>20. CASE Activate \/ Deactivate \/ Refill \/ UNCHANGED vars
  BY <1>20 DEF Activate, Deactivate, Refill, vars
<1>21. QED
  BY <1>1, <1>2, <1>3, <1>4, <1>5, <1>6, <1>7, <1>8, <1>9, <1>10, <1>11, <1>12,
     <1>13, <1>14, <1>15, <1>16, <1>17, <1>18, <1>19, <1>20
     DEF Next, Serve

\* The three steps that store hold a validated list.
LEMMA StepPinsValid == TypeInv /\ PinsValid /\ [Next]_vars => PinsValid'
<1> SUFFICES ASSUME TypeInv, PinsValid, [Next]_vars PROVE PinsValid'
  OBVIOUS
<1> USE DEF TypeInv, TypeOK, HasURL, AnswersHeld, StoringPhases, Goto, Proceed,
            shared, PinsValid
<1>1. ASSUME NEW r \in Reqs, Arrive(r) PROVE PinsValid'
  BY <1>1 DEF Arrive
<1>2. ASSUME NEW r \in Reqs, Health(r) PROVE PinsValid'
  BY <1>2 DEF Health
<1>3. ASSUME NEW r \in Reqs, KillGate(r) PROVE PinsValid'
  BY <1>3 DEF KillGate
<1>4. ASSUME NEW r \in Reqs, StaticGate(r) PROVE PinsValid'
  BY <1>4 DEF StaticGate
<1>5. ASSUME NEW r \in Reqs, Resolve(r) PROVE PinsValid'
  BY <1>5 DEF Resolve
<1>6. ASSUME NEW r \in Reqs, Store(r) PROVE PinsValid'
  <2>1. Host(r) \in Hosts /\ answer[r] \in AcceptedLists /\ ValidIPs(answer[r])
    BY <1>6, HostInHosts DEF Store
  <2>2. \A h \in Hosts : pins'[h] \in {answer[r], pins[h], NoAnswer}
    BY <1>6, <2>1, StoreEffect DEF Store
  <2>3. ValidIPs(NoAnswer)
    BY DEF ValidIPs, NoAnswer
  <2>4. QED
    BY <2>1, <2>2, <2>3
<1>7. ASSUME NEW r \in Reqs, RateGate(r) PROVE PinsValid'
  BY <1>7 DEF RateGate
<1>8. ASSUME NEW r \in Reqs, LogAllow(r) PROVE PinsValid'
  BY <1>8 DEF LogAllow
<1>9. ASSUME NEW r \in Reqs, ReResolve(r) PROVE PinsValid'
  BY <1>9 DEF ReResolve
<1>10. ASSUME NEW r \in Reqs, RePin(r) PROVE PinsValid'
  <2>1. Host(r) \in Hosts /\ answer[r] \in AcceptedLists /\ ValidIPs(answer[r])
    BY <1>10, HostInHosts DEF RePin
  <2>2. \A h \in Hosts : pins'[h] \in {answer[r], pins[h], NoAnswer}
    BY <1>10, <2>1, StoreEffect DEF RePin
  <2>3. ValidIPs(NoAnswer)
    BY DEF ValidIPs, NoAnswer
  <2>4. QED
    BY <2>1, <2>2, <2>3
<1>11. ASSUME NEW r \in Reqs, Hijack(r) PROVE PinsValid'
  BY <1>11 DEF Hijack
<1>12. ASSUME NEW r \in Reqs, Dial(r) PROVE PinsValid'
  BY <1>12 DEF Dial
<1>13. ASSUME NEW r \in Reqs, Respond(r) PROVE PinsValid'
  BY <1>13 DEF Respond
<1>14. ASSUME NEW r \in Reqs, Redirect(r) PROVE PinsValid'
  BY <1>14 DEF Redirect
<1>15. ASSUME NEW r \in Reqs, RedirectResolve(r) PROVE PinsValid'
  BY <1>15 DEF RedirectResolve
<1>16. ASSUME NEW r \in Reqs, RedirectStore(r) PROVE PinsValid'
  <2>1. Host(r) \in Hosts /\ answer[r] \in AcceptedLists /\ ValidIPs(answer[r])
    BY <1>16, HostInHosts DEF RedirectStore
  <2>2. \A h \in Hosts : pins'[h] \in {answer[r], pins[h], NoAnswer}
    BY <1>16, <2>1, StoreEffect DEF RedirectStore
  <2>3. ValidIPs(NoAnswer)
    BY DEF ValidIPs, NoAnswer
  <2>4. QED
    BY <2>1, <2>2, <2>3
<1>17. ASSUME NEW r \in Reqs, TunnelClose(r) PROVE PinsValid'
  BY <1>17 DEF TunnelClose
<1>18. ASSUME NEW r \in Reqs, CheckGate(r) PROVE PinsValid'
  BY <1>18 DEF CheckGate
<1>19. ASSUME NEW r \in Reqs, CheckResolve(r) PROVE PinsValid'
  BY <1>19 DEF CheckResolve
<1>20. CASE Activate \/ Deactivate \/ Refill \/ UNCHANGED vars
  BY <1>20 DEF Activate, Deactivate, Refill, vars
<1>21. QED
  BY <1>1, <1>2, <1>3, <1>4, <1>5, <1>6, <1>7, <1>8, <1>9, <1>10, <1>11, <1>12,
     <1>13, <1>14, <1>15, <1>16, <1>17, <1>18, <1>19, <1>20
     DEF Next, Serve

\* What a request's last connection says of it.
DialsVetted ==
  \A r \in Reqs :
    /\ dial[r] # NoDial => dial[r].host \in InScope /\ ActiveTesting
    /\ pc[r] \in {"await", "tunnel"} => dial[r].host = Host(r)

\* A connection notes the host of the request's URL, and the pinned address.
LEMMA ConnectionMade ==
  ASSUME TypeInv, NEW r \in Reqs, Dial(r), dial' # dial
  PROVE  /\ dial' = [dial EXCEPT ![r] = dial'[r]]
         /\ dial'[r].host = Host(r)
         /\ dial'[r].how = "pin" =>
              \E h \in Hosts : pins[h] # NoAnswer /\ dial'[r].ip = pins[h][1]
<1>1. r \in DOMAIN dial
  BY DEF TypeInv, TypeOK
<1>2. CASE PinFor(r) # NoAnswer
  <2>1. Connect(r, PinFor(r)[1], "pin")
    BY <1>2 DEF Dial
  <2>2. \E h \in Hosts : PinFor(r) = pins[h]
    BY <1>2 DEF PinFor
  <2>3. QED
    BY <1>1, <1>2, <2>1, <2>2 DEF Connect
<1>3. CASE PinFor(r) = NoAnswer
  <2>1. PICK ips \in Answers[Host(r)] : \E i \in DOMAIN ips : Connect(r, ips[i], "dns")
    BY <1>3 DEF Dial
  <2>2. QED
    BY <1>1, <2>1 DEF Connect
<1>4. QED
  BY <1>2, <1>3

\* Only Dial connects, and a dialling request is vetted.
LEMMA StepDialsVetted == TypeInv /\ Vetted /\ DialsVetted /\ [Next]_vars => DialsVetted'
<1> SUFFICES ASSUME TypeInv, Vetted, DialsVetted, [Next]_vars PROVE DialsVetted'
  OBVIOUS
<1> USE DEF TypeInv, TypeOK, HasURL, Goto, Proceed, Finish, shared, history, DialsVetted, Host
<1>1. ASSUME NEW r \in Reqs, Arrive(r) PROVE DialsVetted'
  BY <1>1 DEF Arrive
<1>2. ASSUME NEW r \in Reqs, Health(r) PROVE DialsVetted'
  BY <1>2 DEF Health
<1>3. ASSUME NEW r \in Reqs, KillGate(r) PROVE DialsVetted'
  BY <1>3 DEF KillGate
<1>4. ASSUME NEW r \in Reqs, StaticGate(r) PROVE DialsVetted'
  BY <1>4 DEF StaticGate
<1>5. ASSUME NEW r \in Reqs, Resolve(r) PROVE DialsVetted'
  BY <1>5 DEF Resolve
<1>6. ASSUME NEW r \in Reqs, Store(r) PROVE DialsVetted'
  BY <1>6 DEF Store
<1>7. ASSUME NEW r \in Reqs, RateGate(r) PROVE DialsVetted'
  BY <1>7 DEF RateGate
<1>8. ASSUME NEW r \in Reqs, LogAllow(r) PROVE DialsVetted'
  BY <1>8 DEF LogAllow
<1>9. ASSUME NEW r \in Reqs, ReResolve(r) PROVE DialsVetted'
  BY <1>9 DEF ReResolve
<1>10. ASSUME NEW r \in Reqs, RePin(r) PROVE DialsVetted'
  BY <1>10 DEF RePin
<1>11. ASSUME NEW r \in Reqs, Hijack(r) PROVE DialsVetted'
  BY <1>11 DEF Hijack
<1>12. ASSUME NEW r \in Reqs, Dial(r) PROVE DialsVetted'
  <2>1. Host(r) \in InScope /\ ActiveTesting
    BY <1>12 DEF Dial, Vetted, VettedPhases
  <2>2. CASE dial' = dial
    <3>1. pc'[r] = "done" \/ dial'[r].host = Host(r)
      BY <1>12, <2>2 DEF Dial, Connect
    <3>2. QED
      BY <1>12, <2>2, <3>1 DEF Dial
  <2>3. CASE dial' # dial
    <3>1. dial' = [dial EXCEPT ![r] = dial'[r]] /\ dial'[r].host = Host(r)
      BY <1>12, <2>3, ConnectionMade
    <3>2. QED
      BY <1>12, <2>1, <3>1 DEF Dial
  <2>4. QED
    BY <2>2, <2>3
<1>13. ASSUME NEW r \in Reqs, Respond(r) PROVE DialsVetted'
  BY <1>13 DEF Respond
<1>14. ASSUME NEW r \in Reqs, Redirect(r) PROVE DialsVetted'
  BY <1>14 DEF Redirect
<1>15. ASSUME NEW r \in Reqs, RedirectResolve(r) PROVE DialsVetted'
  BY <1>15 DEF RedirectResolve
<1>16. ASSUME NEW r \in Reqs, RedirectStore(r) PROVE DialsVetted'
  BY <1>16 DEF RedirectStore
<1>17. ASSUME NEW r \in Reqs, TunnelClose(r) PROVE DialsVetted'
  BY <1>17 DEF TunnelClose
<1>18. ASSUME NEW r \in Reqs, CheckGate(r) PROVE DialsVetted'
  BY <1>18 DEF CheckGate
<1>19. ASSUME NEW r \in Reqs, CheckResolve(r) PROVE DialsVetted'
  BY <1>19 DEF CheckResolve
<1>20. CASE Activate \/ Deactivate \/ Refill \/ UNCHANGED vars
  BY <1>20 DEF Activate, Deactivate, Refill, vars
<1>21. QED
  BY <1>1, <1>2, <1>3, <1>4, <1>5, <1>6, <1>7, <1>8, <1>9, <1>10, <1>11, <1>12,
     <1>13, <1>14, <1>15, <1>16, <1>17, <1>18, <1>19, <1>20
     DEF Next, Serve

\* A pinned dial takes the first address of a valid list.
LEMMA StepPinnedDials ==
  TypeInv /\ PinsValid /\ PinnedContactsAreValid /\ [Next]_vars
    => PinnedContactsAreValid'
<1> SUFFICES ASSUME TypeInv, PinsValid, PinnedContactsAreValid, [Next]_vars
             PROVE  PinnedContactsAreValid'
  OBVIOUS
<1> USE DEF TypeInv, TypeOK, shared, history, PinnedContactsAreValid
<1>1. ASSUME NEW r \in Reqs, Arrive(r) PROVE PinnedContactsAreValid'
  BY <1>1 DEF Arrive
<1>2. ASSUME NEW r \in Reqs, Health(r) PROVE PinnedContactsAreValid'
  BY <1>2 DEF Health
<1>3. ASSUME NEW r \in Reqs, KillGate(r) PROVE PinnedContactsAreValid'
  BY <1>3 DEF KillGate
<1>4. ASSUME NEW r \in Reqs, StaticGate(r) PROVE PinnedContactsAreValid'
  BY <1>4 DEF StaticGate
<1>5. ASSUME NEW r \in Reqs, Resolve(r) PROVE PinnedContactsAreValid'
  BY <1>5 DEF Resolve
<1>6. ASSUME NEW r \in Reqs, Store(r) PROVE PinnedContactsAreValid'
  BY <1>6 DEF Store
<1>7. ASSUME NEW r \in Reqs, RateGate(r) PROVE PinnedContactsAreValid'
  BY <1>7 DEF RateGate
<1>8. ASSUME NEW r \in Reqs, LogAllow(r) PROVE PinnedContactsAreValid'
  BY <1>8 DEF LogAllow
<1>9. ASSUME NEW r \in Reqs, ReResolve(r) PROVE PinnedContactsAreValid'
  BY <1>9 DEF ReResolve
<1>10. ASSUME NEW r \in Reqs, RePin(r) PROVE PinnedContactsAreValid'
  BY <1>10 DEF RePin
<1>11. ASSUME NEW r \in Reqs, Hijack(r) PROVE PinnedContactsAreValid'
  BY <1>11 DEF Hijack
<1>12. ASSUME NEW r \in Reqs, Dial(r) PROVE PinnedContactsAreValid'
  <2>1. CASE dial' = dial
    BY <2>1
  <2>2. CASE dial' # dial
    <3>1. /\ dial' = [dial EXCEPT ![r] = dial'[r]]
          /\ dial'[r].how = "pin" =>
               \E h \in Hosts : pins[h] # NoAnswer /\ dial'[r].ip = pins[h][1]
      BY <1>12, <2>2, ConnectionMade
    <3>2. \A h \in Hosts : pins[h] # NoAnswer => pins[h][1] \notin Blocked
      BY ListsNotEmpty DEF PinsValid, ValidIPs
    <3>3. QED
      BY <3>1, <3>2
  <2>3. QED
    BY <2>1, <2>2
<1>13. ASSUME NEW r \in Reqs, Respond(r) PROVE PinnedContactsAreValid'
  BY <1>13 DEF Respond
<1>14. ASSUME NEW r \in Reqs, Redirect(r) PROVE PinnedContactsAreValid'
  BY <1>14 DEF Redirect
<1>15. ASSUME NEW r \in Reqs, RedirectResolve(r) PROVE PinnedContactsAreValid'
  BY <1>15 DEF RedirectResolve
<1>16. ASSUME NEW r \in Reqs, RedirectStore(r) PROVE PinnedContactsAreValid'
  BY <1>16 DEF RedirectStore
<1>17. ASSUME NEW r \in Reqs, TunnelClose(r) PROVE PinnedContactsAreValid'
  BY <1>17 DEF TunnelClose
<1>18. ASSUME NEW r \in Reqs, CheckGate(r) PROVE PinnedContactsAreValid'
  BY <1>18 DEF CheckGate
<1>19. ASSUME NEW r \in Reqs, CheckResolve(r) PROVE PinnedContactsAreValid'
  BY <1>19 DEF CheckResolve
<1>20. CASE Activate \/ Deactivate \/ Refill \/ UNCHANGED vars
  BY <1>20 DEF Activate, Deactivate, Refill, vars
<1>21. QED
  BY <1>1, <1>2, <1>3, <1>4, <1>5, <1>6, <1>7, <1>8, <1>9, <1>10, <1>11, <1>12,
     <1>13, <1>14, <1>15, <1>16, <1>17, <1>18, <1>19, <1>20
     DEF Next, Serve

\* What the switch has done to a request that came while it was on; until its
\* first check, nothing has happened to any request.
KillHolds ==
  \A r \in Reqs :
    /\ pc[r] \in {"idle", "gate"} => dial[r] = NoDial /\ entry[r] = "none" /\ why[r] = "none"
    /\ pc[r] = "idle" => ~late[r]
    /\ late[r] => /\ killed
                  /\ pc[r] \in {"gate", "done"}
                  /\ dial[r] = NoDial
                  /\ entry[r] \in {"none", "block"}
                  /\ why[r] # "allowed"

\* A late request cannot get past the switch.
LEMMA StepKillHolds == TypeInv /\ KillHolds /\ [Next]_vars => KillHolds'
<1> SUFFICES ASSUME TypeInv, KillHolds, [Next]_vars PROVE KillHolds'
  OBVIOUS
<1> USE DEF TypeInv, TypeOK, Goto, Proceed, Finish, shared, history, KillHolds
<1>1. ASSUME NEW r \in Reqs, Arrive(r) PROVE KillHolds'
  BY <1>1 DEF Arrive
<1>2. ASSUME NEW r \in Reqs, Health(r) PROVE KillHolds'
  BY <1>2 DEF Health
<1>3. ASSUME NEW r \in Reqs, KillGate(r) PROVE KillHolds'
  BY <1>3 DEF KillGate
<1>4. ASSUME NEW r \in Reqs, StaticGate(r) PROVE KillHolds'
  BY <1>4 DEF StaticGate
<1>5. ASSUME NEW r \in Reqs, Resolve(r) PROVE KillHolds'
  BY <1>5 DEF Resolve
<1>6. ASSUME NEW r \in Reqs, Store(r) PROVE KillHolds'
  BY <1>6 DEF Store
<1>7. ASSUME NEW r \in Reqs, RateGate(r) PROVE KillHolds'
  BY <1>7 DEF RateGate
<1>8. ASSUME NEW r \in Reqs, LogAllow(r) PROVE KillHolds'
  BY <1>8 DEF LogAllow
<1>9. ASSUME NEW r \in Reqs, ReResolve(r) PROVE KillHolds'
  BY <1>9 DEF ReResolve
<1>10. ASSUME NEW r \in Reqs, RePin(r) PROVE KillHolds'
  BY <1>10 DEF RePin
<1>11. ASSUME NEW r \in Reqs, Hijack(r) PROVE KillHolds'
  BY <1>11 DEF Hijack
<1>12. ASSUME NEW r \in Reqs, Dial(r) PROVE KillHolds'
  BY <1>12 DEF Dial, Connect
<1>13. ASSUME NEW r \in Reqs, Respond(r) PROVE KillHolds'
  BY <1>13 DEF Respond
<1>14. ASSUME NEW r \in Reqs, Redirect(r) PROVE KillHolds'
  BY <1>14 DEF Redirect
<1>15. ASSUME NEW r \in Reqs, RedirectResolve(r) PROVE KillHolds'
  BY <1>15 DEF RedirectResolve
<1>16. ASSUME NEW r \in Reqs, RedirectStore(r) PROVE KillHolds'
  BY <1>16 DEF RedirectStore
<1>17. ASSUME NEW r \in Reqs, TunnelClose(r) PROVE KillHolds'
  BY <1>17 DEF TunnelClose
<1>18. ASSUME NEW r \in Reqs, CheckGate(r) PROVE KillHolds'
  BY <1>18 DEF CheckGate
<1>19. ASSUME NEW r \in Reqs, CheckResolve(r) PROVE KillHolds'
  BY <1>19 DEF CheckResolve
<1>20. CASE Activate \/ Deactivate \/ Refill \/ UNCHANGED vars
  BY <1>20 DEF Activate, Deactivate, Refill, vars
<1>21. QED
  BY <1>1, <1>2, <1>3, <1>4, <1>5, <1>6, <1>7, <1>8, <1>9, <1>10, <1>11, <1>12,
     <1>13, <1>14, <1>15, <1>16, <1>17, <1>18, <1>19, <1>20
     DEF Next, Serve

\* The entry a forwarded request has when it may connect, and when it is done.
AuditHolds ==
  \A r \in Reqs :
    /\ pc[r] \in {"idle", "gate", "static", "resolve", "store", "rate", "allow"}
         => dial[r] = NoDial
    /\ kind[r] = "forward" =>
         /\ pc[r] \in {"reresolve", "repin", "dial", "await", "rresolve", "rstore"}
              => entry[r] = "allow"
         /\ dial[r] # NoDial => entry[r] = "allow"
         /\ pc[r] = "done" => entry[r] # "none"

\* Every end of a forwarded request but those after "allow" is logged.
LEMMA StepAuditHolds == TypeInv /\ AuditHolds /\ [Next]_vars => AuditHolds'
<1> SUFFICES ASSUME TypeInv, AuditHolds, [Next]_vars PROVE AuditHolds'
  OBVIOUS
<1> USE DEF TypeInv, TypeOK, KindsFit, ForwardPhases, ConnectPhases, CommonPhases,
            Goto, Proceed, Finish, shared, history, AuditHolds
<1>1. ASSUME NEW r \in Reqs, Arrive(r) PROVE AuditHolds'
  BY <1>1 DEF Arrive
<1>2. ASSUME NEW r \in Reqs, Health(r) PROVE AuditHolds'
  BY <1>2 DEF Health
<1>3. ASSUME NEW r \in Reqs, KillGate(r) PROVE AuditHolds'
  BY <1>3 DEF KillGate
<1>4. ASSUME NEW r \in Reqs, StaticGate(r) PROVE AuditHolds'
  BY <1>4 DEF StaticGate
<1>5. ASSUME NEW r \in Reqs, Resolve(r) PROVE AuditHolds'
  BY <1>5 DEF Resolve
<1>6. ASSUME NEW r \in Reqs, Store(r) PROVE AuditHolds'
  BY <1>6 DEF Store
<1>7. ASSUME NEW r \in Reqs, RateGate(r) PROVE AuditHolds'
  BY <1>7 DEF RateGate
<1>8. ASSUME NEW r \in Reqs, LogAllow(r) PROVE AuditHolds'
  BY <1>8 DEF LogAllow
<1>9. ASSUME NEW r \in Reqs, ReResolve(r) PROVE AuditHolds'
  BY <1>9 DEF ReResolve
<1>10. ASSUME NEW r \in Reqs, RePin(r) PROVE AuditHolds'
  BY <1>10 DEF RePin
<1>11. ASSUME NEW r \in Reqs, Hijack(r) PROVE AuditHolds'
  BY <1>11 DEF Hijack
<1>12. ASSUME NEW r \in Reqs, Dial(r) PROVE AuditHolds'
  BY <1>12 DEF Dial, Connect
<1>13. ASSUME NEW r \in Reqs, Respond(r) PROVE AuditHolds'
  BY <1>13 DEF Respond
<1>14. ASSUME NEW r \in Reqs, Redirect(r) PROVE AuditHolds'
  BY <1>14 DEF Redirect
<1>15. ASSUME NEW r \in Reqs, RedirectResolve(r) PROVE AuditHolds'
  BY <1>15 DEF RedirectResolve
<1>16. ASSUME NEW r \in Reqs, RedirectStore(r) PROVE AuditHolds'
  BY <1>16 DEF RedirectStore
<1>17. ASSUME NEW r \in Reqs, TunnelClose(r) PROVE AuditHolds'
  BY <1>17 DEF TunnelClose
<1>18. ASSUME NEW r \in Reqs, CheckGate(r) PROVE AuditHolds'
  BY <1>18 DEF CheckGate
<1>19. ASSUME NEW r \in Reqs, CheckResolve(r) PROVE AuditHolds'
  BY <1>19 DEF CheckResolve
<1>20. CASE Activate \/ Deactivate \/ Refill \/ UNCHANGED vars
  BY <1>20 DEF Activate, Deactivate, Refill, vars
<1>21. QED
  BY <1>1, <1>2, <1>3, <1>4, <1>5, <1>6, <1>7, <1>8, <1>9, <1>10, <1>11, <1>12,
     <1>13, <1>14, <1>15, <1>16, <1>17, <1>18, <1>19, <1>20
     DEF Next, Serve

----------------------------------------------------------------------------
(***************************************************************************)
(* Theorems.                                                               *)
(***************************************************************************)
GateInv == /\ TypeInv /\ Vetted /\ DialsVetted
           /\ PinsValid /\ PinnedContactsAreValid
           /\ KillHolds /\ AuditHolds

\* At first nobody has connected.
LEMMA InitGateInv == Init => GateInv
<1> SUFFICES ASSUME Init PROVE GateInv
  OBVIOUS
<1>1. TypeInv
  BY InitTypeInv
<1>2. Vetted /\ DialsVetted /\ KillHolds /\ AuditHolds /\ PinnedContactsAreValid
  BY DEF Init, Vetted, VettedPhases, DialsVetted, KillHolds, AuditHolds,
         PinnedContactsAreValid, NoDial
<1>3. PinsValid
  BY DEF Init, PinsValid, ValidIPs, NoAnswer
<1>4. QED
  BY <1>1, <1>2, <1>3 DEF GateInv

\* The parts together.
LEMMA StepGateInv == GateInv /\ [Next]_vars => GateInv'
BY StepTypeInv, StepVetted, StepDialsVetted, StepPinsValid, StepPinnedDials,
   StepKillHolds, StepAuditHolds DEF GateInv

\* Being vetted at each place is enough for what has connected.
LEMMA GateInvPermitted == GateInv => ContactsArePermitted
BY DEF GateInv, TypeInv, HasURL, Vetted, VettedPhases, DialsVetted, ContactsArePermitted

\* The proxy's state is well typed: no bucket goes below zero or above its
\* burst (AllowN), no pin is malformed, no request leaves the handlers' paths.
THEOREM GateTypeCorrect == Spec => []TypeOK
<1>1. GateInv => TypeOK
  BY DEF GateInv, TypeInv
<1>2. QED
  BY <1>1, InitGateInv, StepGateInv, PTL DEF Spec

\* However requests, redirects and DNS answers interleave, every connection the
\* proxy makes is to a host in scope, for an active program, and for a URL that
\* passed every check (ServeHTTP, handleConnect, validateRedirectTarget).
THEOREM GatePermits == Spec => []ContactsArePermitted
BY InitGateInv, StepGateInv, GateInvPermitted, PTL DEF Spec

\* A pinned connection never goes to a blocked range, whichever request stored
\* the pin (storeResolvedIPs, ForwardRequest's second lookup, DialContext).
THEOREM GatePinsValid == Spec => []PinnedContactsAreValid
<1>1. GateInv => PinnedContactsAreValid
  BY DEF GateInv
<1>2. QED
  BY <1>1, InitGateInv, StepGateInv, PTL DEF Spec

\* A request that arrives with the kill switch on is turned away while it
\* stays on: no connection, no allow entry, no approval by CheckURL.
THEOREM GateKillsLate == Spec => []KillStopsLateRequests
<1>1. GateInv => KillStopsLateRequests
  BY DEF GateInv, KillHolds, KillStopsLateRequests
<1>2. QED
  BY <1>1, InitGateInv, StepGateInv, PTL DEF Spec

\* Every forwarded request is in the audit log, as allowed before it connects
\* and with some verdict when it ends (LogDecision in ServeHTTP).
THEOREM GateAudits == Spec => []ForwardsAreAudited
<1>1. GateInv => ForwardsAreAudited
  BY DEF GateInv, AuditHolds, ForwardsAreAudited
<1>2. QED
  BY <1>1, InitGateInv, StepGateInv, PTL DEF Spec
----------------------------------------------------------------------------
(***************************************************************************)
(* The pin map, when it has room for every host in scope.                  *)
(***************************************************************************)
Roomy == /\ IsFiniteSet(InScope) /\ Cardinality(InScope) < MaxResolvedIPs
         /\ Names = Hosts

\* Only hosts in scope are pinned, and a request that may dial finds its pin.
PinsHeld ==
  /\ Pinned \subseteq InScope
  /\ \A r \in Reqs :
       pc[r] \in {"rate", "allow", "reresolve", "repin", "hijack", "dial"}
         => pins[Host(r)] # NoAnswer

\* Then storing never evicts.
LEMMA StoreInRoomyMap ==
  ASSUME Roomy, Pinned \subseteq InScope, NEW host \in Hosts, NEW ips,
         StoreResolvedIPs(host, ips)
  PROVE  pins' = [pins EXCEPT ![host] = ips]
<1>1. IsFiniteSet(Pinned) /\ Cardinality(Pinned) <= Cardinality(InScope)
  BY FS_Subset DEF Roomy
<1>2. /\ Cardinality(Pinned) \in Nat /\ Cardinality(InScope) \in Nat
      /\ MaxResolvedIPs \in Nat
  BY <1>1, FS_CardinalityType, SizesAssumption DEF Roomy
<1>3. ~(Cardinality(Pinned) >= MaxResolvedIPs)
  BY <1>1, <1>2 DEF Roomy
<1>4. QED
  BY <1>3 DEF StoreResolvedIPs

\* With room for every host, a dial finds the pin.
LEMMA RoomyDial ==
  ASSUME Roomy, TypeInv, PinsHeld, NEW r \in Reqs, Dial(r), dial' # dial
  PROVE  dial' = [dial EXCEPT ![r] = dial'[r]] /\ dial'[r].how = "pin"
<1>1. url[r] \in URLs /\ pins[Host(r)] # NoAnswer
  BY DEF Dial, TypeInv, HasURL, PinsHeld
<1>2. url[r].name \in Hosts /\ NormHost[url[r].name] = url[r].name
  BY <1>1, NamesAssumption DEF Roomy, URLs
<1>3. PinFor(r) # NoAnswer
  BY <1>1, <1>2 DEF PinFor, Host
<1>4. Connect(r, PinFor(r)[1], "pin")
  BY <1>3 DEF Dial
<1>5. QED
  BY <1>4 DEF Connect, TypeInv, TypeOK

\* With room for every host, no pin is lost between storing and dialling.
LEMMA StepPinsHeld ==
  ASSUME Roomy
  PROVE  TypeInv /\ Vetted /\ PinsHeld /\ [Next]_vars => PinsHeld'
<1> SUFFICES ASSUME TypeInv, Vetted, PinsHeld, [Next]_vars PROVE PinsHeld'
  OBVIOUS
<1> USE DEF TypeInv, TypeOK, HasURL, Goto, Proceed, Finish, shared, history,
            PinsHeld
<1>1. ASSUME NEW r \in Reqs, Arrive(r) PROVE PinsHeld'
  BY <1>1 DEF Arrive, Pinned, Host
<1>2. ASSUME NEW r \in Reqs, Health(r) PROVE PinsHeld'
  BY <1>2 DEF Health, Pinned, Host
<1>3. ASSUME NEW r \in Reqs, KillGate(r) PROVE PinsHeld'
  BY <1>3 DEF KillGate, Pinned, Host
<1>4. ASSUME NEW r \in Reqs, StaticGate(r) PROVE PinsHeld'
  BY <1>4 DEF StaticGate, Pinned, Host
<1>5. ASSUME NEW r \in Reqs, Resolve(r) PROVE PinsHeld'
  BY <1>5 DEF Resolve, Pinned, Host
<1>6. ASSUME NEW r \in Reqs, Store(r) PROVE PinsHeld'
  <2>1. /\ Host(r) \in Hosts /\ Host(r) \in InScope
        /\ answer[r] \in AcceptedLists /\ answer[r] # NoAnswer
    BY <1>6, HostInHosts, ListsNotEmpty DEF Store, AnswersHeld, StoringPhases, Vetted,
       VettedPhases
  <2>2. pins' = [pins EXCEPT ![Host(r)] = answer[r]]
    BY <1>6, <2>1, StoreInRoomyMap DEF Store
  <2>3. Pinned' \subseteq InScope
    BY <2>1, <2>2 DEF Pinned
  <2>4. \A h \in Hosts : pins[h] # NoAnswer => pins'[h] # NoAnswer
    BY <2>1, <2>2
  <2>5. \A q \in Reqs : pc[q] # "idle" => Host(q) \in Hosts
    BY HostInHosts
  <2>6. QED
    BY <1>6, <2>1, <2>2, <2>3, <2>4, <2>5 DEF Store, Host
<1>7. ASSUME NEW r \in Reqs, RateGate(r) PROVE PinsHeld'
  BY <1>7 DEF RateGate, Pinned, Host
<1>8. ASSUME NEW r \in Reqs, LogAllow(r) PROVE PinsHeld'
  BY <1>8 DEF LogAllow, Pinned, Host
<1>9. ASSUME NEW r \in Reqs, ReResolve(r) PROVE PinsHeld'
  BY <1>9 DEF ReResolve, Pinned, Host
<1>10. ASSUME NEW r \in Reqs, RePin(r) PROVE PinsHeld'
  <2>1. /\ Host(r) \in Hosts /\ Host(r) \in InScope
        /\ answer[r] \in AcceptedLists /\ answer[r] # NoAnswer
    BY <1>10, HostInHosts, ListsNotEmpty DEF RePin, AnswersHeld, StoringPhases, Vetted,
       VettedPhases
  <2>2. pins' = [pins EXCEPT ![Host(r)] = answer[r]]
    BY <1>10, <2>1, StoreInRoomyMap DEF RePin
  <2>3. Pinned' \subseteq InScope
    BY <2>1, <2>2 DEF Pinned
  <2>4. \A h \in Hosts : pins[h] # NoAnswer => pins'[h] # NoAnswer
    BY <2>1, <2>2
  <2>5. \A q \in Reqs : pc[q] # "idle" => Host(q) \in Hosts
    BY HostInHosts
  <2>6. QED
    BY <1>10, <2>1, <2>2, <2>3, <2>4, <2>5 DEF RePin, Host
<1>11. ASSUME NEW r \in Reqs, Hijack(r) PROVE PinsHeld'
  BY <1>11 DEF Hijack, Pinned, Host
<1>12. ASSUME NEW r \in Reqs, Dial(r) PROVE PinsHeld'
  BY <1>12 DEF Dial, Pinned, Host
<1>13. ASSUME NEW r \in Reqs, Respond(r) PROVE PinsHeld'
  BY <1>13 DEF Respond, Pinned, Host
<1>14. ASSUME NEW r \in Reqs, Redirect(r) PROVE PinsHeld'
  BY <1>14 DEF Redirect, Pinned, Host
<1>15. ASSUME NEW r \in Reqs, RedirectResolve(r) PROVE PinsHeld'
  BY <1>15 DEF RedirectResolve, Pinned, Host
<1>16. ASSUME NEW r \in Reqs, RedirectStore(r) PROVE PinsHeld'
  <2>1. /\ Host(r) \in Hosts /\ Host(r) \in InScope
        /\ answer[r] \in AcceptedLists /\ answer[r] # NoAnswer
    BY <1>16, HostInHosts, ListsNotEmpty DEF RedirectStore, AnswersHeld, StoringPhases, Vetted,
       VettedPhases
  <2>2. pins' = [pins EXCEPT ![Host(r)] = answer[r]]
    BY <1>16, <2>1, StoreInRoomyMap DEF RedirectStore
  <2>3. Pinned' \subseteq InScope
    BY <2>1, <2>2 DEF Pinned
  <2>4. \A h \in Hosts : pins[h] # NoAnswer => pins'[h] # NoAnswer
    BY <2>1, <2>2
  <2>5. \A q \in Reqs : pc[q] # "idle" => Host(q) \in Hosts
    BY HostInHosts
  <2>6. QED
    BY <1>16, <2>1, <2>2, <2>3, <2>4, <2>5 DEF RedirectStore, Host
<1>17. ASSUME NEW r \in Reqs, TunnelClose(r) PROVE PinsHeld'
  BY <1>17 DEF TunnelClose, Pinned, Host
<1>18. ASSUME NEW r \in Reqs, CheckGate(r) PROVE PinsHeld'
  BY <1>18 DEF CheckGate, Pinned, Host
<1>19. ASSUME NEW r \in Reqs, CheckResolve(r) PROVE PinsHeld'
  BY <1>19 DEF CheckResolve, Pinned, Host
<1>20. CASE Activate \/ Deactivate \/ Refill \/ UNCHANGED vars
  BY <1>20 DEF Activate, Deactivate, Refill, vars, Pinned, Host
<1>21. QED
  BY <1>1, <1>2, <1>3, <1>4, <1>5, <1>6, <1>7, <1>8, <1>9, <1>10, <1>11, <1>12,
     <1>13, <1>14, <1>15, <1>16, <1>17, <1>18, <1>19, <1>20
     DEF Next, Serve

\* Hence no dial looks the name up.
LEMMA StepAlwaysPinned ==
  ASSUME Roomy
  PROVE  TypeInv /\ PinsHeld /\ EveryContactIsPinned /\ [Next]_vars
           => EveryContactIsPinned'
<1> SUFFICES ASSUME TypeInv, PinsHeld, EveryContactIsPinned, [Next]_vars
             PROVE  EveryContactIsPinned'
  OBVIOUS
<1> USE DEF TypeInv, TypeOK, shared, history, EveryContactIsPinned
<1>1. ASSUME NEW r \in Reqs, Arrive(r) PROVE EveryContactIsPinned'
  BY <1>1 DEF Arrive
<1>2. ASSUME NEW r \in Reqs, Health(r) PROVE EveryContactIsPinned'
  BY <1>2 DEF Health
<1>3. ASSUME NEW r \in Reqs, KillGate(r) PROVE EveryContactIsPinned'
  BY <1>3 DEF KillGate
<1>4. ASSUME NEW r \in Reqs, StaticGate(r) PROVE EveryContactIsPinned'
  BY <1>4 DEF StaticGate
<1>5. ASSUME NEW r \in Reqs, Resolve(r) PROVE EveryContactIsPinned'
  BY <1>5 DEF Resolve
<1>6. ASSUME NEW r \in Reqs, Store(r) PROVE EveryContactIsPinned'
  BY <1>6 DEF Store
<1>7. ASSUME NEW r \in Reqs, RateGate(r) PROVE EveryContactIsPinned'
  BY <1>7 DEF RateGate
<1>8. ASSUME NEW r \in Reqs, LogAllow(r) PROVE EveryContactIsPinned'
  BY <1>8 DEF LogAllow
<1>9. ASSUME NEW r \in Reqs, ReResolve(r) PROVE EveryContactIsPinned'
  BY <1>9 DEF ReResolve
<1>10. ASSUME NEW r \in Reqs, RePin(r) PROVE EveryContactIsPinned'
  BY <1>10 DEF RePin
<1>11. ASSUME NEW r \in Reqs, Hijack(r) PROVE EveryContactIsPinned'
  BY <1>11 DEF Hijack
<1>12. ASSUME NEW r \in Reqs, Dial(r) PROVE EveryContactIsPinned'
  <2>1. CASE dial' = dial
    BY <2>1
  <2>2. CASE dial' # dial
    BY <1>12, <2>2, RoomyDial
  <2>3. QED
    BY <2>1, <2>2
<1>13. ASSUME NEW r \in Reqs, Respond(r) PROVE EveryContactIsPinned'
  BY <1>13 DEF Respond
<1>14. ASSUME NEW r \in Reqs, Redirect(r) PROVE EveryContactIsPinned'
  BY <1>14 DEF Redirect
<1>15. ASSUME NEW r \in Reqs, RedirectResolve(r) PROVE EveryContactIsPinned'
  BY <1>15 DEF RedirectResolve
<1>16. ASSUME NEW r \in Reqs, RedirectStore(r) PROVE EveryContactIsPinned'
  BY <1>16 DEF RedirectStore
<1>17. ASSUME NEW r \in Reqs, TunnelClose(r) PROVE EveryContactIsPinned'
  BY <1>17 DEF TunnelClose
<1>18. ASSUME NEW r \in Reqs, CheckGate(r) PROVE EveryContactIsPinned'
  BY <1>18 DEF CheckGate
<1>19. ASSUME NEW r \in Reqs, CheckResolve(r) PROVE EveryContactIsPinned'
  BY <1>19 DEF CheckResolve
<1>20. CASE Activate \/ Deactivate \/ Refill \/ UNCHANGED vars
  BY <1>20 DEF Activate, Deactivate, Refill, vars
<1>21. QED
  BY <1>1, <1>2, <1>3, <1>4, <1>5, <1>6, <1>7, <1>8, <1>9, <1>10, <1>11, <1>12,
     <1>13, <1>14, <1>15, <1>16, <1>17, <1>18, <1>19, <1>20
     DEF Next, Serve

\* When the pin map has room for more than the hosts in scope and names are
\* spelled as normalize.Host spells them, every connection is made to an
\* address its host was validated for: none falls back to a fresh lookup
\* (storeResolvedIPs' eviction, the fallbacks of DialContext and handleConnect).
THEOREM GateAlwaysPinned ==
  ASSUME Roomy
  PROVE  Spec => []EveryContactIsPinned
<1> DEFINE Inv == GateInv /\ PinsHeld /\ EveryContactIsPinned
<1>1. Init => Inv
  <2> SUFFICES ASSUME Init PROVE Inv
    OBVIOUS
  <2>1. GateInv
    BY InitGateInv
  <2>2. PinsHeld /\ EveryContactIsPinned
    BY DEF Init, PinsHeld, Pinned, EveryContactIsPinned, NoDial
  <2>3. QED
    BY <2>1, <2>2
<1>2. Inv /\ [Next]_vars => Inv'
  BY StepGateInv, StepPinsHeld, StepAlwaysPinned DEF GateInv
<1>3. QED
  BY <1>1, <1>2, PTL DEF Spec
----------------------------------------------------------------------------
(***************************************************************************)
(* The rate: every token taken from a host's bucket is a connection made   *)
(* or a request on its way to one.                                         *)
(***************************************************************************)
\* Requests that hold a token of host h.
InFlight(h) ==
  {r \in Reqs : /\ pc[r] \in {"allow", "reresolve", "repin", "hijack", "dial"}
                /\ hops[r] = 0
                /\ Host(r) = h}

TokensAccounted ==
  \A h \in Hosts : contacts[h] + Cardinality(InFlight(h)) + tokens[h] <= Burst + refills

\* No redirect has been followed before the first connection.
HopsFit ==
  \A r \in Reqs :
    pc[r] \notin {"dial", "await", "rresolve", "rstore", "tunnel", "done"} => hops[r] = 0

\* The requests that hold a token can be counted.
LEMMA InFlightFinite ==
  ASSUME IsFiniteSet(Reqs), NEW h
  PROVE  IsFiniteSet(InFlight(h)) /\ Cardinality(InFlight(h)) \in Nat
<1>1. InFlight(h) \subseteq Reqs
  BY DEF InFlight
<1>2. QED
  BY <1>1, FS_Subset, FS_CardinalityType

\* Steps that move no token, and steps that move one of a single host.
LEMMA NoTokenMoves ==
  ASSUME TokensAccounted, UNCHANGED <<tokens, refills, contacts>>,
         \A h \in Hosts : InFlight(h)' = InFlight(h)
  PROVE  TokensAccounted'
BY DEF TokensAccounted

\* A request that takes a token is one more in flight to its host.
LEMMA TokenTaken ==
  ASSUME NEW r \in Reqs, NEW k \in Hosts, k = Host(r), pc[r] = "rate", hops[r] = 0,
         pc'[r] \in {"allow", "hijack"}, UNCHANGED <<hops, url>>,
         \A q \in Reqs \ {r} : pc'[q] = pc[q]
  PROVE  /\ InFlight(k)' = InFlight(k) \cup {r}
         /\ \A h \in Hosts \ {k} : InFlight(h)' = InFlight(h)
<1>1. \A h \in Hosts, q \in Reqs \ {r} : q \in InFlight(h)' <=> q \in InFlight(h)
  BY DEF InFlight, Host
<1>2. \A h \in Hosts : r \notin InFlight(h) /\ (r \in InFlight(h)' <=> h = k)
  BY DEF InFlight, Host
<1>3. \A h \in Hosts : InFlight(h) \subseteq Reqs /\ InFlight(h)' \subseteq Reqs
  BY DEF InFlight
<1>4. InFlight(k)' = InFlight(k) \cup {r}
  BY <1>1, <1>2, <1>3
<1>5. ASSUME NEW h \in Hosts \ {k} PROVE InFlight(h)' = InFlight(h)
  BY <1>1, <1>2, <1>3
<1>6. QED
  BY <1>4, <1>5

\* A step that moves the tokens of one host need only be checked there.
LEMMA OneHostMoves ==
  ASSUME TokensAccounted, NEW k \in Hosts, refills' = refills,
         \A h \in Hosts \ {k} : /\ InFlight(h)' = InFlight(h)
                                 /\ tokens'[h] = tokens[h] /\ contacts'[h] = contacts[h],
         contacts'[k] + Cardinality(InFlight(k)') + tokens'[k] <= Burst + refills
  PROVE  TokensAccounted'
BY DEF TokensAccounted

\* Only a followed redirect counts, after a first connection.
LEMMA StepHopsFit == TypeInv /\ HopsFit /\ [Next]_vars => HopsFit'
<1> SUFFICES ASSUME TypeInv, HopsFit, [Next]_vars PROVE HopsFit'
  OBVIOUS
<1> USE DEF TypeInv, TypeOK, Goto, Proceed, Finish, shared, history, HopsFit
<1>1. ASSUME NEW r \in Reqs, Arrive(r) PROVE HopsFit'
  BY <1>1 DEF Arrive
<1>2. ASSUME NEW r \in Reqs, Health(r) PROVE HopsFit'
  BY <1>2 DEF Health
<1>3. ASSUME NEW r \in Reqs, KillGate(r) PROVE HopsFit'
  BY <1>3 DEF KillGate
<1>4. ASSUME NEW r \in Reqs, StaticGate(r) PROVE HopsFit'
  BY <1>4 DEF StaticGate
<1>5. ASSUME NEW r \in Reqs, Resolve(r) PROVE HopsFit'
  BY <1>5 DEF Resolve
<1>6. ASSUME NEW r \in Reqs, Store(r) PROVE HopsFit'
  BY <1>6 DEF Store
<1>7. ASSUME NEW r \in Reqs, RateGate(r) PROVE HopsFit'
  BY <1>7 DEF RateGate
<1>8. ASSUME NEW r \in Reqs, LogAllow(r) PROVE HopsFit'
  BY <1>8 DEF LogAllow
<1>9. ASSUME NEW r \in Reqs, ReResolve(r) PROVE HopsFit'
  BY <1>9 DEF ReResolve
<1>10. ASSUME NEW r \in Reqs, RePin(r) PROVE HopsFit'
  BY <1>10 DEF RePin
<1>11. ASSUME NEW r \in Reqs, Hijack(r) PROVE HopsFit'
  BY <1>11 DEF Hijack
<1>12. ASSUME NEW r \in Reqs, Dial(r) PROVE HopsFit'
  BY <1>12 DEF Dial
<1>13. ASSUME NEW r \in Reqs, Respond(r) PROVE HopsFit'
  BY <1>13 DEF Respond
<1>14. ASSUME NEW r \in Reqs, Redirect(r) PROVE HopsFit'
  BY <1>14 DEF Redirect
<1>15. ASSUME NEW r \in Reqs, RedirectResolve(r) PROVE HopsFit'
  BY <1>15 DEF RedirectResolve
<1>16. ASSUME NEW r \in Reqs, RedirectStore(r) PROVE HopsFit'
  BY <1>16 DEF RedirectStore
<1>17. ASSUME NEW r \in Reqs, TunnelClose(r) PROVE HopsFit'
  BY <1>17 DEF TunnelClose
<1>18. ASSUME NEW r \in Reqs, CheckGate(r) PROVE HopsFit'
  BY <1>18 DEF CheckGate
<1>19. ASSUME NEW r \in Reqs, CheckResolve(r) PROVE HopsFit'
  BY <1>19 DEF CheckResolve
<1>20. CASE Activate \/ Deactivate \/ Refill \/ UNCHANGED vars
  BY <1>20 DEF Activate, Deactivate, Refill, vars
<1>21. QED
  BY <1>1, <1>2, <1>3, <1>4, <1>5, <1>6, <1>7, <1>8, <1>9, <1>10, <1>11, <1>12,
     <1>13, <1>14, <1>15, <1>16, <1>17, <1>18, <1>19, <1>20
     DEF Next, Serve

\* Every token is in the bucket, held by a request, or spent on a connection.
LEMMA StepTokensAccounted ==
  ASSUME IsFiniteSet(Reqs)
  PROVE  TypeInv /\ HopsFit /\ TokensAccounted /\ [Next]_vars => TokensAccounted'
<1> SUFFICES ASSUME TypeInv, HopsFit, TokensAccounted, [Next]_vars PROVE TokensAccounted'
  OBVIOUS
<1> USE DEF Goto, Proceed, Finish, shared, history
<1>0. /\ tokens \in [Hosts -> 0..Burst] /\ contacts \in [Hosts -> Nat]
      /\ refills \in Nat /\ Burst \in Nat
      /\ pc \in [Reqs -> Phases] /\ hops \in [Reqs -> Nat]
      /\ \A r \in Reqs : pc[r] # "idle" => Host(r) \in Hosts
      /\ \A h \in Hosts : IsFiniteSet(InFlight(h)) /\ Cardinality(InFlight(h)) \in Nat
  BY HostInHosts, InFlightFinite, SizesAssumption DEF TypeInv, TypeOK, HasURL
<1> USE <1>0
<1>1. ASSUME NEW r \in Reqs, Arrive(r) PROVE TokensAccounted'
  <2>1. \A h \in Hosts : InFlight(h)' = InFlight(h)
    BY <1>1 DEF Arrive, InFlight, HopsFit, Host
  <2>2. UNCHANGED <<tokens, refills, contacts>>
    BY <1>1 DEF Arrive
  <2>3. QED
    BY <2>1, <2>2, NoTokenMoves
<1>2. ASSUME NEW r \in Reqs, Health(r) PROVE TokensAccounted'
  <2>1. \A h \in Hosts : InFlight(h)' = InFlight(h)
    BY <1>2 DEF Health, InFlight, HopsFit, Host
  <2>2. UNCHANGED <<tokens, refills, contacts>>
    BY <1>2 DEF Health
  <2>3. QED
    BY <2>1, <2>2, NoTokenMoves
<1>3. ASSUME NEW r \in Reqs, KillGate(r) PROVE TokensAccounted'
  <2>1. \A h \in Hosts : InFlight(h)' = InFlight(h)
    BY <1>3 DEF KillGate, InFlight, HopsFit, Host
  <2>2. UNCHANGED <<tokens, refills, contacts>>
    BY <1>3 DEF KillGate
  <2>3. QED
    BY <2>1, <2>2, NoTokenMoves
<1>4. ASSUME NEW r \in Reqs, StaticGate(r) PROVE TokensAccounted'
  <2>1. \A h \in Hosts : InFlight(h)' = InFlight(h)
    BY <1>4 DEF StaticGate, InFlight, HopsFit, Host
  <2>2. UNCHANGED <<tokens, refills, contacts>>
    BY <1>4 DEF StaticGate
  <2>3. QED
    BY <2>1, <2>2, NoTokenMoves
<1>5. ASSUME NEW r \in Reqs, Resolve(r) PROVE TokensAccounted'
  <2>1. \A h \in Hosts : InFlight(h)' = InFlight(h)
    BY <1>5 DEF Resolve, InFlight, HopsFit, Host
  <2>2. UNCHANGED <<tokens, refills, contacts>>
    BY <1>5 DEF Resolve
  <2>3. QED
    BY <2>1, <2>2, NoTokenMoves
<1>6. ASSUME NEW r \in Reqs, Store(r) PROVE TokensAccounted'
  <2>1. \A h \in Hosts : InFlight(h)' = InFlight(h)
    BY <1>6 DEF Store, InFlight, HopsFit, Host
  <2>2. UNCHANGED <<tokens, refills, contacts>>
    BY <1>6 DEF Store
  <2>3. QED
    BY <2>1, <2>2, NoTokenMoves
<1>7. ASSUME NEW r \in Reqs, RateGate(r) PROVE TokensAccounted'
  <2> PICK k \in Hosts : k = Host(r)
    BY <1>7 DEF RateGate
  <2>1. r \notin InFlight(k) /\ hops[r] = 0
    BY <1>7 DEF RateGate, InFlight, HopsFit
  <2>2. CASE TakeToken(k) /\ pc'[r] \in {"allow", "hijack"}
    <3>1. /\ InFlight(k)' = InFlight(k) \cup {r}
          /\ \A h \in Hosts \ {k} : InFlight(h)' = InFlight(h)
      <4>1. /\ pc[r] = "rate" /\ UNCHANGED <<hops, url>>
            /\ \A q \in Reqs \ {r} : pc'[q] = pc[q]
        BY <1>7 DEF RateGate
      <4>2. QED
        BY <2>1, <2>2, <4>1, TokenTaken
    <3>2. Cardinality(InFlight(k)') = Cardinality(InFlight(k)) + 1
      <4>1. IsFiniteSet(InFlight(k))
        BY InFlightFinite
      <4>2. Cardinality(InFlight(k) \cup {r}) = Cardinality(InFlight(k)) + 1
        BY <2>1, <4>1, FS_AddElement
      <4>3. QED
        BY <3>1, <4>2
    <3>3. \A h \in Hosts : Cardinality(InFlight(h)) \in Nat
      BY InFlightFinite
    <3>4. tokens'[k] = tokens[k] - 1
          /\ \A h \in Hosts \ {k} : tokens'[h] = tokens[h]
      BY <2>1, <2>2 DEF TakeToken
    <3>5. UNCHANGED <<contacts, refills>>
      BY <1>7 DEF RateGate
    <3>6. contacts[k] + (Cardinality(InFlight(k)) + 1) + (tokens[k] - 1)
            <= Burst + refills
      BY <2>1, <3>3 DEF TokensAccounted
    <3>7. QED
      BY <2>1, <3>1, <3>2, <3>4, <3>5, <3>6, OneHostMoves
  <2>3. CASE UNCHANGED tokens /\ pc'[r] = "done"
    <3>1. \A h \in Hosts : InFlight(h)' = InFlight(h)
      BY <1>7, <2>3 DEF RateGate, InFlight, Host
    <3>2. QED
      BY <1>7, <2>3, <3>1, NoTokenMoves DEF RateGate
  <2>4. QED
    BY <1>7, <2>2, <2>3 DEF RateGate
<1>8. ASSUME NEW r \in Reqs, LogAllow(r) PROVE TokensAccounted'
  <2>1. \A h \in Hosts : InFlight(h)' = InFlight(h)
    BY <1>8 DEF LogAllow, InFlight, HopsFit, Host
  <2>2. UNCHANGED <<tokens, refills, contacts>>
    BY <1>8 DEF LogAllow
  <2>3. QED
    BY <2>1, <2>2, NoTokenMoves
<1>9. ASSUME NEW r \in Reqs, ReResolve(r) PROVE TokensAccounted'
  <2>1. \A h \in Hosts : InFlight(h)' = InFlight(h)
    BY <1>9 DEF ReResolve, InFlight, HopsFit, Host
  <2>2. UNCHANGED <<tokens, refills, contacts>>
    BY <1>9 DEF ReResolve
  <2>3. QED
    BY <2>1, <2>2, NoTokenMoves
<1>10. ASSUME NEW r \in Reqs, RePin(r) PROVE TokensAccounted'
  <2>1. \A h \in Hosts : InFlight(h)' = InFlight(h)
    BY <1>10 DEF RePin, InFlight, HopsFit, Host
  <2>2. UNCHANGED <<tokens, refills, contacts>>
    BY <1>10 DEF RePin
  <2>3. QED
    BY <2>1, <2>2, NoTokenMoves
<1>11. ASSUME NEW r \in Reqs, Hijack(r) PROVE TokensAccounted'
  <2>1. UNCHANGED <<tokens, refills, contacts>>
    BY <1>11 DEF Hijack
  <2>2. \A h \in Hosts : InFlight(h)' \subseteq InFlight(h)
    BY <1>11 DEF Hijack, InFlight, HopsFit, Host
  <2>3. \A h \in Hosts :
          /\ Cardinality(InFlight(h)') \in Nat
          /\ Cardinality(InFlight(h)') <= Cardinality(InFlight(h))
    BY <2>2, FS_Subset, FS_CardinalityType
  <2>4. ASSUME NEW h \in Hosts
        PROVE  contacts'[h] + Cardinality(InFlight(h)') + tokens'[h] <= Burst + refills'
    BY <2>1, <2>3 DEF TokensAccounted
  <2>5. QED
    BY <2>4 DEF TokensAccounted
<1>12. ASSUME NEW r \in Reqs, Dial(r) PROVE TokensAccounted'
  <2> PICK k \in Hosts : k = Host(r)
    BY <1>12 DEF Dial
  <2>1. pc[r] = "dial"
    BY <1>12 DEF Dial
  <2>2. UNCHANGED <<tokens, refills, hops, url>> /\ pc'[r] # "dial"
        /\ pc'[r] \in {"await", "tunnel", "done"} /\ \A q \in Reqs \ {r} : pc'[q] = pc[q]
    BY <1>12 DEF Dial
  <2>3. \A h \in Hosts : Cardinality(InFlight(h)) \in Nat /\ IsFiniteSet(InFlight(h))
    BY InFlightFinite
  <2>4. \A h \in Hosts \ {k} : InFlight(h)' = InFlight(h)
    BY <2>1, <2>2 DEF InFlight, Host
  <2>5. CASE hops[r] = 0
    <3>1. r \in InFlight(k) /\ InFlight(k)' = InFlight(k) \ {r}
      BY <2>1, <2>2, <2>5 DEF InFlight, Host
    <3>2. Cardinality(InFlight(k)') = Cardinality(InFlight(k)) - 1
      <4>1. IsFiniteSet(InFlight(k)) /\ r \in InFlight(k)
        BY <2>1, <2>3, <3>1
      <4>2. Cardinality(InFlight(k) \ {r}) = Cardinality(InFlight(k)) - 1
        BY <4>1, FS_RemoveElement
      <4> QED
        BY <3>1, <4>2
    <3>3. /\ contacts'[k] <= contacts[k] + 1 /\ contacts'[k] \in Nat
          /\ \A h \in Hosts \ {k} : contacts'[h] = contacts[h]
      <4>1. \/ contacts' = contacts
            \/ contacts' = [contacts EXCEPT ![k] = @ + 1]
        BY <1>12, <2>5 DEF Dial, Connect
      <4>2. QED
        BY <2>1, <4>1
    <3>4. contacts'[k] + (Cardinality(InFlight(k)) - 1) + tokens[k]
            <= Burst + refills
      BY <2>1, <2>3, <3>3 DEF TokensAccounted
    <3>5. QED
      BY <2>1, <2>2, <2>4, <3>2, <3>3, <3>4, OneHostMoves
  <2>6. CASE hops[r] # 0
    <3>1. InFlight(k)' = InFlight(k)
      BY <2>1, <2>2, <2>6 DEF InFlight, Host
    <3>2. contacts' = contacts
      BY <1>12, <2>6 DEF Dial, Connect
    <3>3. \A h \in Hosts : InFlight(h)' = InFlight(h)
      BY <2>4, <3>1
    <3>4. QED
      BY <2>2, <3>2, <3>3, NoTokenMoves
  <2>7. QED
    BY <2>5, <2>6
<1>13. ASSUME NEW r \in Reqs, Respond(r) PROVE TokensAccounted'
  <2>1. \A h \in Hosts : InFlight(h)' = InFlight(h)
    BY <1>13 DEF Respond, InFlight, HopsFit, Host
  <2>2. UNCHANGED <<tokens, refills, contacts>>
    BY <1>13 DEF Respond
  <2>3. QED
    BY <2>1, <2>2, NoTokenMoves
<1>14. ASSUME NEW r \in Reqs, Redirect(r) PROVE TokensAccounted'
  <2>1. \A h \in Hosts : InFlight(h)' = InFlight(h)
    BY <1>14 DEF Redirect, InFlight, HopsFit, Host
  <2>2. UNCHANGED <<tokens, refills, contacts>>
    BY <1>14 DEF Redirect
  <2>3. QED
    BY <2>1, <2>2, NoTokenMoves
<1>15. ASSUME NEW r \in Reqs, RedirectResolve(r) PROVE TokensAccounted'
  <2>1. \A h \in Hosts : InFlight(h)' = InFlight(h)
    BY <1>15 DEF RedirectResolve, InFlight, HopsFit, Host
  <2>2. UNCHANGED <<tokens, refills, contacts>>
    BY <1>15 DEF RedirectResolve
  <2>3. QED
    BY <2>1, <2>2, NoTokenMoves
<1>16. ASSUME NEW r \in Reqs, RedirectStore(r) PROVE TokensAccounted'
  <2>1. \A h \in Hosts : InFlight(h)' = InFlight(h)
    BY <1>16 DEF RedirectStore, InFlight, HopsFit, Host
  <2>2. UNCHANGED <<tokens, refills, contacts>>
    BY <1>16 DEF RedirectStore
  <2>3. QED
    BY <2>1, <2>2, NoTokenMoves
<1>17. ASSUME NEW r \in Reqs, TunnelClose(r) PROVE TokensAccounted'
  <2>1. \A h \in Hosts : InFlight(h)' = InFlight(h)
    BY <1>17 DEF TunnelClose, InFlight, HopsFit, Host
  <2>2. UNCHANGED <<tokens, refills, contacts>>
    BY <1>17 DEF TunnelClose
  <2>3. QED
    BY <2>1, <2>2, NoTokenMoves
<1>18. ASSUME NEW r \in Reqs, CheckGate(r) PROVE TokensAccounted'
  <2>1. \A h \in Hosts : InFlight(h)' = InFlight(h)
    BY <1>18 DEF CheckGate, InFlight, HopsFit, Host
  <2>2. UNCHANGED <<tokens, refills, contacts>>
    BY <1>18 DEF CheckGate
  <2>3. QED
    BY <2>1, <2>2, NoTokenMoves
<1>19. ASSUME NEW r \in Reqs, CheckResolve(r) PROVE TokensAccounted'
  <2>1. \A h \in Hosts : InFlight(h)' = InFlight(h)
    BY <1>19 DEF CheckResolve, InFlight, HopsFit, Host
  <2>2. UNCHANGED <<tokens, refills, contacts>>
    BY <1>19 DEF CheckResolve
  <2>3. QED
    BY <2>1, <2>2, NoTokenMoves
<1>20. CASE Activate \/ Deactivate \/ Refill \/ UNCHANGED vars
  <2>1. \A h \in Hosts : InFlight(h)' = InFlight(h)
    BY <1>20 DEF Activate, Deactivate, Refill, vars, InFlight, Host
  <2>2. CASE Refill
    <3>1. \A h \in Hosts : tokens'[h] <= tokens[h] + 1 /\ tokens'[h] \in Nat
      BY <2>2, SizesAssumption DEF Refill
    <3>2. \A h \in Hosts : Cardinality(InFlight(h)) \in Nat
      BY InFlightFinite
    <3>3. contacts' = contacts /\ refills' = refills + 1
      BY <2>2 DEF Refill
    <3>4. QED
      BY <2>1, <3>1, <3>2, <3>3 DEF TokensAccounted
  <2>3. CASE ~Refill
    BY <1>20, <2>1, <2>3, NoTokenMoves DEF Activate, Deactivate, vars
  <2>4. QED
    BY <2>2, <2>3
<1>21. QED
  BY <1>1, <1>2, <1>3, <1>4, <1>5, <1>6, <1>7, <1>8, <1>9, <1>10, <1>11, <1>12,
     <1>13, <1>14, <1>15, <1>16, <1>17, <1>18, <1>19, <1>20
     DEF Next, Serve

\* Connections for clients' own URLs never exceed a host's burst plus what was
\* refilled since, for any number of requests in flight (AllowN, CheckRateLimit).
THEOREM GateKeepsRate ==
  ASSUME IsFiniteSet(Reqs)
  PROVE  Spec => []ContactsWithinRate
<1> DEFINE Inv == TypeInv /\ HopsFit /\ TokensAccounted
<1>1. Init => Inv
  <2> SUFFICES ASSUME Init PROVE Inv
    OBVIOUS
  <2>1. TypeInv
    BY InitTypeInv
  <2>2. HopsFit
    BY DEF Init, HopsFit
  <2>3. \A h \in Hosts : InFlight(h) = {}
    BY DEF Init, InFlight
  <2>4. QED
    BY <2>1, <2>2, <2>3, FS_EmptySet, SizesAssumption DEF Init, TokensAccounted
<1>2. Inv /\ [Next]_vars => Inv'
  BY StepTypeInv, StepHopsFit, StepTokensAccounted
<1>3. Inv => ContactsWithinRate
  <2> SUFFICES ASSUME Inv, NEW h \in Hosts PROVE contacts[h] <= Burst + refills
    BY DEF ContactsWithinRate
  <2>1. Cardinality(InFlight(h)) \in Nat /\ tokens[h] \in Nat /\ contacts[h] \in Nat
        /\ refills \in Nat
    BY InFlightFinite, SizesAssumption DEF TypeInv, TypeOK
  <2>2. contacts[h] + Cardinality(InFlight(h)) + tokens[h] <= Burst + refills
    BY DEF TokensAccounted
  <2>3. QED
    BY <2>1, <2>2, SizesAssumption
<1>4. QED
  BY <1>1, <1>2, <1>3, PTL DEF Spec
----------------------------------------------------------------------------
(***************************************************************************)
(* CheckURL and ServeHTTP, which order the same checks differently.        *)
(***************************************************************************)
Good(u) == u.fault = "ok" /\ NormHost[u.name] \in InScope /\ ActiveTesting

\* What each of them has said about a URL is true of it; a redirect puts
\* another URL in its place.
SaysTrue ==
  \A r \in Reqs :
    /\ pc[r] # "done" => why[r] = "none"
    /\ pc[r] \in {"idle", "gate", "static"} => entry[r] = "none"
    /\ kind[r] = "check" /\ pc[r] = "resolve" =>
         ActiveTesting /\ url[r].fault \notin {"parse", "scheme", "port"}
    /\ kind[r] = "check" /\ why[r] = "allowed" => Good(url[r])
    /\ kind[r] \in {"check", "forward"} /\ why[r] \in StaticReasons => ~Good(url[r])
    /\ kind[r] = "forward" /\ entry[r] \in {"allow", "dry_run"} /\ why[r] # "redirect"
         => Good(url[r])

\* A URL that a check turns away is not good, and is turned away for that check.
LEMMA TurnedAwayIsBad ==
  ASSUME NEW k, NEW u \in URLs, NEW c \in Reasons, TurnedAway(k, u, c)
  PROVE  ~Good(u) /\ c \in StaticReasons
<1>1. Fails(c, u) /\ c # "ok"
  BY DEF TurnedAway, Reasons
<1> QED
  BY <1>1 DEF Fails, Good, URLs, AllFaults, StaticReasons

\* CheckURL's two chains together check what ServeHTTP's chain does.
LEMMA CheckChainsComplete ==
  ASSUME NEW u \in URLs
  PROVE  /\ ~Fails("parse", u) /\ Passes("check", u) =>
               ActiveTesting /\ u.fault \notin {"parse", "scheme", "port"}
         /\ /\ ActiveTesting /\ u.fault \notin {"parse", "scheme", "port"}
            /\ Passes("recheck", u)
            => Good(u)
<1>1. ASSUME ~Fails("parse", u), Passes("check", u)
      PROVE  ActiveTesting /\ u.fault \notin {"parse", "scheme", "port"}
  <2>1. Chain("check") = <<"inactive", "scheme", "port">>
    BY DEF Chain, CheckChain
  <2>2. \A x \in {"inactive", "scheme", "port"} : ~Fails(x, u)
    BY <1>1, <2>1 DEF Passes
  <2> QED
    BY <1>1, <2>2 DEF Fails
<1>2. ASSUME ActiveTesting, u.fault \notin {"parse", "scheme", "port"}, Passes("recheck", u)
      PROVE  Good(u)
  <2>1. Chain("recheck") = <<"scope", "path">>
    BY DEF Chain, RecheckChain
  <2>2. \A x \in {"scope", "path"} : ~Fails(x, u)
    BY <1>2, <2>1 DEF Passes
  <2> QED
    BY <1>2, <2>2 DEF Fails, Good, URLs, AllFaults
<1> QED
  BY <1>1, <1>2

\* Every step says the truth.
LEMMA StepSaysTrue == TypeInv /\ Vetted /\ SaysTrue /\ [Next]_vars => SaysTrue'
<1> SUFFICES ASSUME TypeInv, Vetted, SaysTrue, [Next]_vars PROVE SaysTrue'
  OBVIOUS
<1> USE DEF TypeInv, TypeOK, HasURL, KindsFit, ForwardPhases, ConnectPhases, CommonPhases,
            Goto, Proceed, Finish, shared, history, SaysTrue, StaticReasons
<1>1. ASSUME NEW r \in Reqs, Arrive(r) PROVE SaysTrue'
  BY <1>1 DEF Arrive
<1>2. ASSUME NEW r \in Reqs, StaticGate(r) PROVE SaysTrue'
  <2>1. url[r] \in URLs /\ kind[r] \in {"forward", "connect"}
    BY <1>2 DEF StaticGate
  <2> QED
    BY <1>2, <2>1, TurnedAwayIsBad DEF StaticGate
<1>3. ASSUME NEW r \in Reqs, Health(r) PROVE SaysTrue'
  BY <1>3 DEF Health
<1>4. ASSUME NEW r \in Reqs, KillGate(r) PROVE SaysTrue'
  BY <1>4 DEF KillGate
<1>5. ASSUME NEW r \in Reqs, Resolve(r) PROVE SaysTrue'
  BY <1>5 DEF Resolve
<1>6. ASSUME NEW r \in Reqs, Store(r) PROVE SaysTrue'
  BY <1>6 DEF Store, Vetted, VettedPhases, Host, Good
<1>7. ASSUME NEW r \in Reqs, RateGate(r) PROVE SaysTrue'
  BY <1>7 DEF RateGate
<1>8. ASSUME NEW r \in Reqs, LogAllow(r) PROVE SaysTrue'
  BY <1>8 DEF LogAllow, Vetted, VettedPhases, Host, Good
<1>9. ASSUME NEW r \in Reqs, ReResolve(r) PROVE SaysTrue'
  BY <1>9 DEF ReResolve
<1>10. ASSUME NEW r \in Reqs, RePin(r) PROVE SaysTrue'
  BY <1>10 DEF RePin
<1>11. ASSUME NEW r \in Reqs, Hijack(r) PROVE SaysTrue'
  BY <1>11 DEF Hijack
<1>12. ASSUME NEW r \in Reqs, Respond(r) PROVE SaysTrue'
  BY <1>12 DEF Respond
<1>13. ASSUME NEW r \in Reqs, RedirectResolve(r) PROVE SaysTrue'
  BY <1>13 DEF RedirectResolve
<1>14. ASSUME NEW r \in Reqs, RedirectStore(r) PROVE SaysTrue'
  BY <1>14 DEF RedirectStore
<1>15. ASSUME NEW r \in Reqs, TunnelClose(r) PROVE SaysTrue'
  BY <1>15 DEF TunnelClose
<1>16. ASSUME NEW r \in Reqs, Dial(r) PROVE SaysTrue'
  BY <1>16 DEF Dial, Connect
<1>17. ASSUME NEW r \in Reqs, Redirect(r) PROVE SaysTrue'
  <2>1. Faults \subseteq AllFaults
    BY ModesAssumption
  <2>2. PICK u \in URLs :
          /\ url' = [url EXCEPT ![r] = u]
          /\ IF Passes("redirect", u) THEN Proceed(r, "rresolve")
                                     ELSE Finish(r, "none", "redirect")
    BY <1>17, <2>1 DEF Redirect, URLs
  <2>3. ActiveTesting
    BY <1>17 DEF Redirect, Vetted, VettedPhases
  <2>4. Passes("redirect", u) => Good(u)
    BY <2>3, ChainsComplete DEF Good
  <2> QED
    BY <1>17, <2>2, <2>4 DEF Redirect
<1>18. ASSUME NEW r \in Reqs, CheckGate(r) PROVE SaysTrue'
  <2>1. url[r] \in URLs /\ kind[r] = "check"
    BY <1>18 DEF CheckGate
  <2>2. Fails("parse", url[r]) => ~Good(url[r])
    BY DEF Fails, Good
  <2> QED
    BY <1>18, <2>1, <2>2, TurnedAwayIsBad, CheckChainsComplete DEF CheckGate
<1>19. ASSUME NEW r \in Reqs, CheckResolve(r) PROVE SaysTrue'
  <2>1. url[r] \in URLs /\ kind[r] = "check"
    BY <1>19 DEF CheckResolve
  <2> QED
    BY <1>19, <2>1, TurnedAwayIsBad, CheckChainsComplete DEF CheckResolve
<1>20. CASE Activate \/ Deactivate \/ Refill \/ UNCHANGED vars
  BY <1>20 DEF Activate, Deactivate, Refill, vars
<1> QED
  BY <1>1, <1>2, <1>3, <1>4, <1>5, <1>6, <1>7, <1>8, <1>9, <1>10,
     <1>11, <1>12, <1>13, <1>14, <1>15, <1>16, <1>17, <1>18, <1>19, <1>20
     DEF Next, Serve

\* For any requests, rules and DNS answers, a URL CheckURL approves is never
\* turned away by ServeHTTP for a reason of its own, and one it rejects for such
\* a reason is never forwarded (the two chains of proxy.go).
THEOREM GateDoorsAgree == Spec => []CheckURLAgrees
<1>1. Init => SaysTrue
  BY DEF Init, SaysTrue, StaticReasons
<1>2. SaysTrue => CheckURLAgrees
  BY DEF SaysTrue, CheckURLAgrees
<1>3. GateInv => TypeInv /\ Vetted
  BY DEF GateInv
<1> QED
  BY <1>1, <1>2, <1>3, InitGateInv, StepGateInv, StepSaysTrue, PTL DEF Spec
============================================================================

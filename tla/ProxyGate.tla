----------------------------- MODULE ProxyGate -----------------------------
(***************************************************************************)
(* The scope-enforcing proxy (internal/proxy/proxy.go): the goroutines     *)
(* that serve concurrent requests, each walking its own chain of safety    *)
(* checks, and the state they share: the kill switch, the map of resolved  *)
(* IPs that outgoing connections are pinned to, and one token bucket per   *)
(* host.                                                                   *)
(*                                                                         *)
(* Every step below is one access to shared state (a lock held, a lookup,  *)
(* a connection); the checks on the request alone run between two of them  *)
(* and are folded into the step that precedes them.                        *)
(***************************************************************************)
EXTENDS Integers, Sequences, FiniteSets

CONSTANTS
  Reqs,           \* goroutines, each serving one request
  Hosts,          \* normalised host names (what normalize.Host returns)
  Names,          \* host names as clients and redirects spell them
  NormHost,       \* normalize.Host: Names -> Hosts
  InScope,        \* hosts the scope engine accepts
  IPs,            \* addresses DNS may return
  Blocked,        \* those in a blocked range (isBlockedIP)
  Answers,        \* Answers[h]: the IP lists a lookup of h may return
  Kinds,          \* kinds of request the clients send
  Faults,         \* the defects a request's URL may have; "ok" is none
  MaxResolvedIPs, \* maxResolvedIPs, the capacity of the pin map
  Burst,          \* capacity of a host's token bucket
  MaxRefills,     \* bound: tokens the passing of time adds to a bucket
  MaxRedirects,   \* redirects after which the last response is returned
  ActiveTesting,  \* Config.ActiveTestingEnabled
  DryRun          \* Config.DryRun

AllKinds  == {"forward", "connect", "check", "health"}
AllFaults == {"ok", "parse", "scheme", "port", "path"}

NoAnswer == << >>
NoDial   == [how |-> "none"]

ASSUME NamesAssumption ==
  /\ Hosts \subseteq Names
  /\ NormHost \in [Names -> Hosts]
  /\ \A h \in Hosts : NormHost[h] = h
  /\ InScope \subseteq Hosts
ASSUME AnswersAssumption ==
  /\ Answers \in [Hosts -> SUBSET Seq(IPs)]
  /\ \A h \in Hosts : NoAnswer \notin Answers[h]
ASSUME SizesAssumption ==
  /\ MaxResolvedIPs \in Nat \ {0}
  /\ Burst \in Nat /\ MaxRefills \in Nat /\ MaxRedirects \in Nat
ASSUME ModesAssumption ==
  /\ Kinds \subseteq AllKinds /\ Faults \subseteq AllFaults
  /\ ActiveTesting \in BOOLEAN /\ DryRun \in BOOLEAN

VARIABLES
  killed,    \* the kill switch
  pins,      \* resolvedIPs: the list stored for a host, NoAnswer if absent
  tokens,    \* tokens left in each host's bucket
  refills,   \* ticks of the refill clock so far
  pc,        \* where each request is
  kind,      \* what each request is
  url,       \* the URL it is about, replaced by each redirect
  answer,    \* the last IP list this request resolved and accepted
  hops,      \* redirects it has followed
  entry,     \* the audit entry logged for it: an event type, or "none"
  why,       \* why it ended
  dial,      \* its last outgoing connection
  late,      \* history: the switch has been on ever since it arrived
  contacts,  \* history: connections to each host made for a client's own URL
  followed   \* history: those made to follow a redirect

shared  == <<killed, pins, tokens, refills>>
history == <<late, contacts, followed>>
vars == <<killed, pins, tokens, refills, pc, kind, url, answer, hops, entry,
          why, dial, late, contacts, followed>>

URLs == [name : Names, fault : AllFaults]
NoURL == [name |-> "none", fault |-> "none"]

Phases == {"idle", "gate", "static", "resolve", "store", "rate", "allow",
           "reresolve", "repin", "hijack", "dial", "await", "rresolve",
           "rstore", "tunnel", "done"}
Events == {"none", "deny", "block", "dry_run", "allow"}

(***************************************************************************)
(* The checks on the request alone, in the order each handler makes them.  *)
(***************************************************************************)
ForwardChain == <<"parse", "inactive", "scheme", "port", "scope", "path">>

ConnectChain == <<"inactive", "parse", "scheme", "port", "scope">>

RedirectChainUnscoped == <<"parse", "scheme", "port", "path">>       \* mutant
RedirectChain == <<"parse", "scheme", "port", "scope", "path">>

\* CheckURL checks the host and the path after it has resolved the name.
CheckChain == <<"inactive", "scheme", "port">>
RecheckChainAnyPath == <<"scope">>                                   \* mutant
RecheckChain == <<"scope", "path">>

Chain(k) ==
  CASE k = "forward"  -> ForwardChain
    [] k = "connect"  -> ConnectChain
    [] k = "redirect" -> RedirectChain
    [] k = "check"    -> CheckChain
    [] k = "recheck"  -> RecheckChain

Fails(c, u) ==
  CASE c = "inactive" -> ~ActiveTesting
    [] c = "scope"    -> NormHost[u.name] \notin InScope
    [] OTHER          -> u.fault = c

Passes(k, u) == \A i \in DOMAIN Chain(k) : ~Fails(Chain(k)[i], u)

\* c is the check of chain k that turns u away: the first one that fails.
TurnedAway(k, u, c) ==
  \E i \in DOMAIN Chain(k) :
    /\ Chain(k)[i] = c
    /\ Fails(c, u)
    /\ \A j \in 1..(i - 1) : ~Fails(Chain(k)[j], u)

Reasons == {"none", "kill", "parse", "inactive", "scheme", "port", "scope",
            "path", "dns", "blocked", "dry_run", "rate", "hijack", "dial",
            "answered", "redirect", "closed", "allowed"}

Host(r) == NormHost[url[r].name]

\* ValidateIPs: one blocked address condemns the whole list.
ValidIPs(ips) == \A i \in DOMAIN ips : ips[i] \notin Blocked

Pinned == {h \in Hosts : pins[h] # NoAnswer}

\* Mutant: the entry goes one store too early.
StoreEvictsEarly(host, ips) ==
  IF Cardinality(Pinned) + 1 >= MaxResolvedIPs /\ Pinned # {}
    THEN \E k \in Pinned :
           pins' = [h \in Hosts |-> IF h = host THEN ips
                                    ELSE IF h = k THEN NoAnswer ELSE pins[h]]
    ELSE pins' = [pins EXCEPT ![host] = ips]

\* storeResolvedIPs: at capacity a random entry goes, even when host has one.
StoreResolvedIPs(host, ips) ==
  IF Cardinality(Pinned) >= MaxResolvedIPs
    THEN \E k \in Pinned :
           pins' = [h \in Hosts |-> IF h = host THEN ips
                                    ELSE IF h = k THEN NoAnswer ELSE pins[h]]
    ELSE pins' = [pins EXCEPT ![host] = ips]

\* Mutant: the token is seen but not taken.
TakeTokenUndebited(host) == tokens[host] > 0 /\ UNCHANGED tokens

\* AllowN(host, 1): take a token if there is one.
TakeToken(host) ==
  /\ tokens[host] > 0
  /\ tokens' = [tokens EXCEPT ![host] = @ - 1]

Goto(r, from, to) == pc[r] = from /\ pc' = [pc EXCEPT ![r] = to]

\* Request r ends; event is what LogDecision records, "none" when it is not called.
Finish(r, event, reason) ==
  /\ pc'    = [pc EXCEPT ![r] = "done"]
  /\ entry' = [entry EXCEPT ![r] = IF event = "none" THEN @ ELSE event]
  /\ why'   = [why EXCEPT ![r] = reason]

Proceed(r, to) == pc' = [pc EXCEPT ![r] = to] /\ UNCHANGED <<entry, why>>
----------------------------------------------------------------------------
Init ==
  /\ killed = FALSE
  /\ pins = [h \in Hosts |-> NoAnswer]
  /\ tokens = [h \in Hosts |-> Burst]
  /\ refills = 0
  /\ pc = [r \in Reqs |-> "idle"]
  /\ kind = [r \in Reqs |-> "none"]
  /\ url = [r \in Reqs |-> NoURL]
  /\ answer = [r \in Reqs |-> NoAnswer]
  /\ hops = [r \in Reqs |-> 0]
  /\ entry = [r \in Reqs |-> "none"]
  /\ why = [r \in Reqs |-> "none"]
  /\ dial = [r \in Reqs |-> NoDial]
  /\ late = [r \in Reqs |-> FALSE]
  /\ contacts = [h \in Hosts |-> 0]
  /\ followed = [h \in Hosts |-> 0]

\* A request reaches ServeHTTP, or a caller calls CheckURL.
Arrive(r) ==
  /\ Goto(r, "idle", "gate")
  /\ \E k \in Kinds, n \in Names, f \in Faults :
       /\ k = "connect" => f # "path"          \* an authority has no path
       /\ k = "health" => f = "ok"
       /\ kind' = [kind EXCEPT ![r] = k]
       /\ url' = [url EXCEPT ![r] = [name |-> n, fault |-> f]]
  /\ late' = [late EXCEPT ![r] = killed]
  /\ UNCHANGED <<shared, answer, hops, entry, why, dial, contacts,
                 followed>>

\* The health endpoint answers before every safety layer.
Health(r) ==
  /\ pc[r] = "gate" /\ kind[r] = "health"
  /\ Finish(r, "none", "answered")
  /\ UNCHANGED <<shared, kind, url, answer, hops, dial, history>>

\* Mutant: handleConnect does not look at the switch.
KillGateForwardOnly(r) ==
  /\ pc[r] = "gate" /\ kind[r] \in {"forward", "connect"}
  /\ IF killed /\ kind[r] = "forward"
       THEN Finish(r, "block", "kill") ELSE Proceed(r, "static")
  /\ UNCHANGED <<shared, kind, url, answer, hops, dial, history>>

\* CheckKillSwitch, read once per request.
KillGate(r) ==
  /\ pc[r] = "gate" /\ kind[r] \in {"forward", "connect"}
  /\ IF killed THEN Finish(r, "block", "kill") ELSE Proceed(r, "static")
  /\ UNCHANGED <<shared, kind, url, answer, hops, dial, history>>

\* Steps 2-7 of ServeHTTP, 2-5 of handleConnect.
StaticGate(r) ==
  /\ pc[r] = "static"
  /\ IF Passes(kind[r], url[r])
       THEN Proceed(r, "resolve")
       ELSE \E c \in Reasons : TurnedAway(kind[r], url[r], c) /\ Finish(r, "deny", c)
  /\ UNCHANGED <<shared, kind, url, answer, hops, dial, history>>

\* LookupHost and ValidateIPs.
Resolve(r) ==
  /\ pc[r] = "resolve" /\ kind[r] \in {"forward", "connect"}
  /\ \/ Finish(r, "deny", "dns") /\ UNCHANGED answer
     \/ \E ips \in Answers[Host(r)] :
          IF ValidIPs(ips)
            THEN Proceed(r, "store") /\ answer' = [answer EXCEPT ![r] = ips]
            ELSE Finish(r, "block", "blocked") /\ UNCHANGED answer
  /\ UNCHANGED <<shared, kind, url, hops, dial, history>>

\* The pin is stored; a forwarded request then stops here in dry-run mode.
Store(r) ==
  /\ pc[r] = "store"
  /\ StoreResolvedIPs(Host(r), answer[r])
  /\ IF DryRun /\ kind[r] = "forward"
       THEN Finish(r, "dry_run", "dry_run")
       ELSE Proceed(r, "rate")
  /\ UNCHANGED <<killed, tokens, refills, kind, url, answer, hops, dial, history>>

\* Mutant: a request that finds no token waits for one.
RateGateWaits(r) ==
  /\ pc[r] = "rate"
  /\ TakeToken(Host(r))
  /\ Proceed(r, IF kind[r] = "forward" THEN "allow" ELSE "hijack")
  /\ UNCHANGED <<killed, pins, refills, kind, url, answer, hops, dial, history>>

\* CheckRateLimit takes a token or refuses.
RateGate(r) ==
  /\ pc[r] = "rate"
  /\ \/ /\ TakeToken(Host(r))
        /\ Proceed(r, IF kind[r] = "forward" THEN "allow" ELSE "hijack")
     \/ /\ tokens[Host(r)] = 0
        /\ Finish(r, "deny", "rate")
        /\ UNCHANGED tokens
  /\ UNCHANGED <<killed, pins, refills, kind, url, answer, hops, dial, history>>

\* Mutant: the allow entry is forgotten.
LogAllowForgotten(r) ==
  /\ Goto(r, "allow", "reresolve")
  /\ UNCHANGED <<shared, kind, url, answer, hops, entry, why, dial, history>>

\* The allow entry is logged before anything is sent.
LogAllow(r) ==
  /\ Goto(r, "allow", "reresolve")
  /\ entry' = [entry EXCEPT ![r] = "allow"]
  /\ UNCHANGED <<shared, kind, url, answer, hops, why, dial, history>>

\* Mutant: the second lookup is not validated.
ReResolveUnchecked(r) ==
  /\ pc[r] = "reresolve"
  /\ \/ Proceed(r, "dial") /\ UNCHANGED answer
     \/ \E ips \in Answers[Host(r)] :
          /\ answer' = [answer EXCEPT ![r] = ips]
          /\ Proceed(r, "repin")
  /\ UNCHANGED <<shared, kind, url, hops, dial, history>>

\* ForwardRequest looks the host up again; a failed or blocked lookup is ignored.
ReResolve(r) ==
  /\ pc[r] = "reresolve"
  /\ \/ Proceed(r, "dial") /\ UNCHANGED answer
     \/ \E ips \in Answers[Host(r)] :
          /\ ValidIPs(ips)
          /\ answer' = [answer EXCEPT ![r] = ips]
          /\ Proceed(r, "repin")
  /\ UNCHANGED <<shared, kind, url, hops, dial, history>>

RePin(r) ==
  /\ Goto(r, "repin", "dial")
  /\ StoreResolvedIPs(Host(r), answer[r])
  /\ UNCHANGED <<killed, tokens, refills, kind, url, answer, hops, entry, why,
                 dial, history>>

\* Hijack and the 200 line: either may fail, and neither failure is logged.
Hijack(r) ==
  /\ pc[r] = "hijack"
  /\ Proceed(r, "dial") \/ Finish(r, "none", "hijack")
  /\ UNCHANGED <<shared, kind, url, answer, hops, dial, history>>

\* The pin a connection finds: DialContext looks up the name as spelled in the
\* URL, handleConnect the normalised host.
PinFor(r) ==
  LET key == IF kind[r] = "connect" THEN Host(r) ELSE url[r].name
  IN  IF key \in Hosts THEN pins[key] ELSE NoAnswer

Connect(r, ip, how) ==
  /\ dial' = [dial EXCEPT ![r] = [how |-> how, host |-> Host(r), ip |-> ip]]
  /\ IF hops[r] = 0
       THEN contacts' = [contacts EXCEPT ![Host(r)] = @ + 1] /\ UNCHANGED followed
       ELSE followed' = [followed EXCEPT ![Host(r)] = @ + 1] /\ UNCHANGED contacts

\* The outgoing connection: to the first pinned IP, or to what DNS says now
\* when there is no pin. It is made (the peer accepts) or refused; a name that
\* no longer resolves ends the request without one.
Dial(r) ==
  /\ pc[r] = "dial"
  /\ \/ /\ IF PinFor(r) # NoAnswer
             THEN Connect(r, PinFor(r)[1], "pin")
             ELSE \E ips \in Answers[Host(r)] : \E i \in DOMAIN ips : Connect(r, ips[i], "dns")
        /\ \/ Proceed(r, IF kind[r] = "connect" THEN "tunnel" ELSE "await")
           \/ Finish(r, "none", "dial")
     \/ /\ PinFor(r) = NoAnswer
        /\ Finish(r, "none", "dial")
        /\ UNCHANGED <<dial, contacts, followed>>
  /\ UNCHANGED <<shared, kind, url, answer, hops, late>>

\* The upstream answers, or the client's 30 s timeout passes: the client is
\* answered with the response or with the forward error.
Respond(r) ==
  /\ pc[r] = "await"
  /\ Finish(r, "none", "answered")
  /\ UNCHANGED <<shared, kind, url, answer, hops, dial, history>>

\* The upstream redirects: CheckRedirect runs validateRedirectTarget.
Redirect(r) ==
  /\ pc[r] = "await"
  /\ \E n \in Names, f \in Faults :
       LET u == [name |-> n, fault |-> f]
       IN  /\ url' = [url EXCEPT ![r] = u]
           /\ IF Passes("redirect", u)
                THEN Proceed(r, "rresolve")
                ELSE Finish(r, "none", "redirect")
  /\ UNCHANGED <<shared, kind, answer, hops, dial, history>>

RedirectResolve(r) ==
  /\ pc[r] = "rresolve"
  /\ \/ Finish(r, "none", "redirect") /\ UNCHANGED answer
     \/ \E ips \in Answers[Host(r)] :
          /\ ValidIPs(ips)
          /\ answer' = [answer EXCEPT ![r] = ips]
          /\ Proceed(r, "rstore")
  /\ UNCHANGED <<shared, kind, url, hops, dial, history>>

\* The target is pinned; at the redirect limit the last response is the answer.
RedirectStore(r) ==
  /\ pc[r] = "rstore"
  /\ StoreResolvedIPs(Host(r), answer[r])
  /\ IF hops[r] + 1 >= MaxRedirects
       THEN Finish(r, "none", "answered") /\ UNCHANGED hops
       ELSE Proceed(r, "dial") /\ hops' = [hops EXCEPT ![r] = @ + 1]
  /\ UNCHANGED <<killed, tokens, refills, kind, url, answer, dial, history>>

\* Either side closes an established tunnel.
TunnelClose(r) ==
  /\ pc[r] = "tunnel"
  /\ Finish(r, "none", "closed")
  /\ UNCHANGED <<shared, kind, url, answer, hops, dial, history>>

\* CheckURL: the parse comes before the kill switch.
CheckGate(r) ==
  /\ pc[r] = "gate" /\ kind[r] = "check"
  /\ \/ /\ Fails("parse", url[r])
        /\ Finish(r, "none", "parse")
     \/ /\ ~Fails("parse", url[r])
        /\ killed
        /\ Finish(r, "none", "kill")
     \/ /\ ~Fails("parse", url[r])
        /\ ~killed
        /\ IF Passes("check", url[r])
             THEN Proceed(r, "resolve")
             ELSE \E c \in Reasons : TurnedAway("check", url[r], c) /\ Finish(r, "none", c)
  /\ UNCHANGED <<shared, kind, url, answer, hops, dial, history>>

\* CheckURL resolves before it looks at the scope; it pins, takes and logs nothing.
CheckResolve(r) ==
  /\ pc[r] = "resolve" /\ kind[r] = "check"
  /\ \/ Finish(r, "none", "dns")
     \/ \E ips \in Answers[Host(r)] :
          IF ~ValidIPs(ips)
            THEN Finish(r, "none", "blocked")
            ELSE IF Passes("recheck", url[r])
              THEN Finish(r, "none", "allowed")
              ELSE \E c \in Reasons :
                     TurnedAway("recheck", url[r], c) /\ Finish(r, "none", c)
  /\ UNCHANGED <<shared, kind, url, answer, hops, dial, history>>

Activate ==
  /\ killed' = TRUE
  /\ UNCHANGED <<pins, tokens, refills, pc, kind, url, answer, hops, entry, why,
                 dial, history>>

Deactivate ==
  /\ killed' = FALSE
  /\ late' = [r \in Reqs |-> FALSE]
  /\ UNCHANGED <<pins, tokens, refills, pc, kind, url, answer, hops, entry, why,
                 dial, contacts, followed>>

\* Time passes: every bucket gains a token, up to its capacity.
Refill ==
  /\ refills < MaxRefills
  /\ refills' = refills + 1
  /\ tokens' = [h \in Hosts |-> IF tokens[h] < Burst THEN tokens[h] + 1 ELSE Burst]
  /\ UNCHANGED <<killed, pins, pc, kind, url, answer, hops, entry, why, dial,
                 history>>

\* What the goroutine serving r does once the request is in.
Serve(r) ==
  \/ Health(r) \/ KillGate(r) \/ StaticGate(r) \/ Resolve(r) \/ Store(r)
  \/ RateGate(r) \/ LogAllow(r) \/ ReResolve(r) \/ RePin(r) \/ Hijack(r)
  \/ Dial(r) \/ Respond(r) \/ Redirect(r) \/ RedirectResolve(r)
  \/ RedirectStore(r) \/ CheckGate(r) \/ CheckResolve(r)

Next ==
  \/ \E r \in Reqs : Arrive(r) \/ Serve(r) \/ TunnelClose(r)
  \/ Activate \/ Deactivate \/ Refill

Spec == Init /\ [][Next]_vars

\* Lookups, dials and the client carry timeouts (5 s, 10 s, 30 s), so a request
\* that was accepted keeps moving; a tunnel lasts as long as its ends like.
FairSpec == Spec /\ \A r \in Reqs : WF_vars(Serve(r))
----------------------------------------------------------------------------
(***************************************************************************)
(* Properties.                                                             *)
(***************************************************************************)
Dials == [how : {"pin", "dns"}, host : Hosts, ip : IPs] \cup {NoDial}

AcceptedLists == UNION {Answers[h] : h \in Hosts}

\* Every variable has its type; in particular no bucket ever holds more than
\* its capacity or less than nothing (AllowN of internal/ratelimit).
TypeOK ==
  /\ killed \in BOOLEAN
  /\ pins \in [Hosts -> AcceptedLists \cup {NoAnswer}]
  /\ tokens \in [Hosts -> 0..Burst]
  /\ refills \in 0..MaxRefills
  /\ pc \in [Reqs -> Phases]
  /\ kind \in [Reqs -> AllKinds \cup {"none"}]
  /\ url \in [Reqs -> URLs \cup {NoURL}]
  /\ answer \in [Reqs -> AcceptedLists \cup {NoAnswer}]
  /\ hops \in [Reqs -> Nat]
  /\ entry \in [Reqs -> Events]
  /\ why \in [Reqs -> Reasons]
  /\ dial \in [Reqs -> Dials]
  /\ late \in [Reqs -> BOOLEAN]
  /\ contacts \in [Hosts -> Nat]
  /\ followed \in [Hosts -> Nat]

\* Whatever the interleaving and however many redirects were followed, no
\* connection leaves the proxy for a host out of scope, for a program without
\* active testing, or for a URL whose scheme, port or (outside a tunnel)
\* path is excluded: ServeHTTP, handleConnect and validateRedirectTarget
\* make every check before each connection.
ContactsArePermitted ==
  \A r \in Reqs :
    /\ dial[r] # NoDial => dial[r].host \in InScope /\ ActiveTesting
    /\ pc[r] \in {"await", "tunnel"} => url[r].fault = "ok" /\ dial[r].host = Host(r)

\* A connection made to a pinned address never goes to a blocked range,
\* although the pin may have been stored by another request, or by the second
\* lookup of ForwardRequest, whose failures are ignored.
PinnedContactsAreValid ==
  \A r \in Reqs : dial[r].how = "pin" => dial[r].ip \notin Blocked

\* While the pin map is larger than the scope and names are spelled as
\* normalize.Host spells them, no connection falls back to a fresh lookup:
\* the entry a request stored is still there, whoever replaced it, when the
\* request dials (proxy.go, "to avoid a fresh DNS lookup at dial time").
EveryContactIsPinned == \A r \in Reqs : dial[r].how # "dns"

\* A request that arrives while the kill switch is on never connects, is never
\* logged as allowed, and CheckURL never approves it, unless the switch is
\* turned off again before it is done.
KillStopsLateRequests ==
  \A r \in Reqs :
    late[r] => /\ dial[r] = NoDial
               /\ entry[r] \in {"none", "block"}
               /\ why[r] # "allowed"

\* A forwarded request connects only after its allow entry is in the audit
\* log, and none ends without an entry ("every allow/deny recorded").
ForwardsAreAudited ==
  \A r \in Reqs : kind[r] = "forward" =>
    /\ dial[r] # NoDial => entry[r] = "allow"
    /\ pc[r] = "done" => entry[r] # "none"

\* The connections clients ask for stay within the bucket's promise, the
\* burst plus what has been refilled since, for every host and however many
\* requests run at once (CheckRateLimit before forwarding and tunnelling).
ContactsWithinRate == \A h \in Hosts : contacts[h] <= Burst + refills

StaticReasons == {"parse", "inactive", "scheme", "port", "scope", "path"}

\* CheckURL and ServeHTTP agree: a URL CheckURL approves is not turned away by
\* ServeHTTP for a reason of its own, and one CheckURL rejects for such a
\* reason is never forwarded, though the two order the checks differently.
CheckURLAgrees ==
  \A c, q \in Reqs :
    /\ kind[c] = "check" /\ kind[q] = "forward"
    /\ hops[q] = 0 /\ why[q] # "redirect" /\ pc[q] # "rresolve"
    /\ url[c] = url[q]
    => /\ why[c] = "allowed" => why[q] \notin StaticReasons
       /\ why[c] \in StaticReasons => entry[q] \notin {"allow", "dry_run"}

\* Every request is answered or becomes a tunnel: no chain of checks, lookups
\* and redirects goes on for ever.
EveryRequestEnds ==
  \A r \in Reqs : pc[r] = "gate" ~> pc[r] \in {"tunnel", "done"}

(***************************************************************************)
(* What the documentation says and the code does not do.                   *)
(***************************************************************************)
\* killswitch.go:2: the switch will "immediately halt all testing activity".
\* No connection is made in a step that begins and ends with the switch on.
KillHaltsTraffic ==
  [][killed /\ killed' => UNCHANGED <<contacts, followed>>]_vars

\* docs/architecture/README.md:86: LogDecision("allow") for a CONNECT too.
TunnelsAreAudited ==
  \A r \in Reqs : pc[r] = "tunnel" => entry[r] = "allow"

\* README.md:148: "every redirect target re-checked through entire chain",
\* whose step 9 is the rate limit.
AllContactsWithinRate ==
  \A h \in Hosts : contacts[h] + followed[h] <= Burst + refills

\* proxy.go:729: in dry-run mode "no request is forwarded".
DryRunConnectsNowhere == DryRun => \A r \in Reqs : dial[r] = NoDial

\* docs/threat-model/README.md:59: the dial of handleConnect "is pinned to
\* validated IP from first resolution", the tunnel's own.
TunnelsUseTheirOwnAnswer ==
  \A r \in Reqs :
    kind[r] = "connect" /\ dial[r].how = "pin"
      => \E i \in DOMAIN answer[r] : answer[r][i] = dial[r].ip
============================================================================

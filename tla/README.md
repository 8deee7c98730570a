# ScopePilot in TLA+

ScopePilot puts a scope-enforcing proxy between security-testing tools and the
network, and around it an MCP server for agents, a task queue on disk, an
orchestrator that spawns workers from that queue, an audit log, specialists that
run external scanners, a VPN gateway, and commands around all of these. This
directory specifies the parts of it whose correctness depends on the order in which things happen, checks them with TLC on
small instances, and proves the most important facts with TLAPS for every value
of the constants.

How to run, in this directory (a module is checked with the `.cfg` that
`PROJECT.json` lists for it):

    tlc -workers 2 -config proxy_safety.cfg MCProxyGate.tla
    tlapm ProxyGateProofs.tla

Contents: [1 The system](#1-the-system) ·
[2 Modules and code](#2-modules-and-code) ·
[3 Runs](#3-runs-bounds-and-what-they-show) ·
[4 Fairness](#4-fairness) ·
[5 Proofs](#5-proofs) ·
[6 Where code and documentation differ](#6-where-code-and-documentation-differ) ·
[7 What is left out](#7-what-is-left-out) ·
[8 Plan](#8-plan)

## 1 The system

The source paths below are relative to `src/`.

### 1.1 Inventory

| Component | State it keeps | Operations | What makes it correct |
|---|---|---|---|
| Proxy, `internal/proxy/proxy.go` | the pin map `resolvedIPs`; per request the URL, the hop, the audit entry | ServeHTTP, handleConnect, ForwardRequest, CheckRedirect / validateRedirectTarget, DialContext, CheckURL | no connection without every check, also after redirects; pinned addresses are valid; everything forwarded is audited; CheckURL agrees with ServeHTTP |
| Rate limiter, `internal/ratelimit` | a map from hosts to buckets, each with its tokens and the time of the last call | AllowN, Reset, ResetAll | grants never exceed burst plus refill; one bucket per host |
| Kill switch, `internal/killswitch` | active, activatedBy, since | Activate, Deactivate, IsActive | requests that arrive while it is on never connect; no scanner starts |
| Lock file of the queue, `internal/queue/queue.go:13-60` | the file `*.lock` and its age | newLockFile, the deferred unlock | exclusion; no leaked file; a crash does not lock everybody out |
| Task queue, `internal/queue` | the JSON-lines file | Add, Next, Start, Complete, Fail, Retry, Get, List | calls are atomic; identifiers stay unique; Next picks the best task |
| Orchestrator, `cmd/pentest/orchestrator.go`, runSpawn in `main.go` | where its loop is; the results directory; the queue file, rewritten without the lock | the tick, spawning, consuming results, chaining | no task lost; done only if reported; every pending task spawned, and as often as asked; results consumed at least once |
| Workers and PID files, `cmd/pentest/main.go` | a PID file per task; the processes that come and go | spawn, spawn list, spawn stop, isWorkerProcess | a stop kills only what ps takes for a worker; no living worker loses its file |
| Audit log, `internal/audit` | a ring in memory, the SQLite table `audit_entries` | Log, Add/persist, replayFromDB, Recent, Search, Redact | ring and table keep the newest entries in order, across restarts |
| Engagement memory, `internal/db/store.go` | assets, findings, tested endpoints of a program | RecordAssets, RecordFinding, MarkTested, the getters, behind four MCP tools | one asset per host with true times; a recall misses nothing |
| Specialists, `internal/specialist`, and adapters, `internal/adapter` | per call: targets left, targets passed, the scanner process | Run of recon, vuln, gate; FilterInScope; RunBBOT, RunNuclei | scanners start only for permitted targets, never once the switch is on |
| MCP server, `internal/mcp` | the store's log; configuration | authentication and some twenty tools | nothing without the key; the log tells the switch |
| Scope engine, `internal/scope`; `internal/config` | the program's rules, immutable after loading | IsHostInScope, IsURLInScope, the matching of rules, the proxy's ValidateScheme, ValidatePort and CheckPathExclusion; Validate | every door decides what the rules say, and the same |
| Normalisation, `internal/normalize` | none | Host, cleanPath, sortQuery, URL | one form for what is the same; nothing lost |
| Stores, `NewConfiguredStore` in `internal/db`, `pgstore.go` | which store is open; rows of audit entries | NewConfiguredStore, LogEntry, RedactEntry | who asks for the database gets it or an error; what is redacted stays so |
| Server processes, `runServer`, `runStop` in `main.go`, `daemon_unix.go`, `up.go` | a process, two ports, one PID file | server, server --daemon, up, stop | both ports or none; a server can be stopped |
| VPN gateway, `internal/vpn`, `containers/wireguard`, runVPN | a container and its log | Start, Stop, Status; the container's own script | with the kill switch, no traffic but through the tunnel |
| Scan commands, runDiscover and runScan in `main.go` | the list of targets, what was allowed, what was found | discover, scan | only what the server allowed is scanned and listed |
| Report writer, other commands, dashboards, fixture, demo | none that lasts | format, parse, print | |

### 1.2 How they interact

* Agents and tools send HTTP(S) through the **proxy**. Each request is one
  goroutine; it asks the kill switch, the scope, DNS, the pin map and the rate
  limiter in turn, writes the audit log, then dials.
* Agents call **MCP tools** on the server of the same process. `check_url` calls the
  proxy's CheckURL; the kill-switch tools turn the switch; the engagement memory
  tools read and write the store; the specialist tools run a **specialist**, which
  calls `check_url` and `is_kill_switch_active` on the same server *over HTTP*, twice
  for every target, before the adapter starts BBOT or Nuclei.
* The **queue file** is shared by processes: `scopepilot queue …`, `spawn` and the
  orchestrator. Most go through the lock file; the orchestrator's updateStatus and
  Add wrapper do not.
* **Workers** are processes of their own which leave a result file; the orchestrator
  consumes result files, records the verdict, chains findings as new tasks and
  removes the file. `spawn list` and `spawn stop` in other terminals know them by
  their PID files alone.
* The **scope rules** are asked in five places, each of which prepares the host
  itself: `check` and the validator of `queue add`, the proxy, its redirects,
  CheckURL, and validate_hosts.
* `discover` and `scan` ask the server about all targets at once, then, through the
  adapter, about each again, start the scanner, and record what it found.
* A **server** is started in the foreground, with `--daemon`, or by `up`, and is
  found again by `stop` through its PID file. The **VPN gateway** is found through
  the name of its container, and its state through the last lines of its log.

### 1.3 What is hard here

* A check and the use of what it checked are steps apart everywhere: switch and
  connection, pin and dial, lookup and second lookup, filter and launch.
* The queue file is shared between processes that crash, that break stale locks,
  and one of which ignores the lock and rewrites the file in place.
* The orchestrator's consumption of a result is five steps on two files; it may die
  between any two of them, and drops the error of each that fails.
* Log and table, switch and log entry, slice and lock: pairs updated in two steps.
* A PID, a container's name or a port stands for a process that may have ended and
  been replaced by another since somebody looked, or that looks like another.
* The same question, whether a URL is in scope, is answered by code in several
  places that normalises once, twice or not at all.

`PROJECT.json` lists the hazards one by one, at their lines, with the properties
that cover them.

## 2 Modules and code

| Module | Extends / composes | Models |
|---|---|---|
| `ProxyGate` | | proxy.go, ratelimit.go, killswitch.go |
| `ProxyGateProofs` | `ProxyGate` | theorems |
| `LockFile` | | newLockFile, lock |
| `QueueOps` | | what a method does to the list it has loaded |
| `AtomicQueue` | `QueueOps` | the abstract queue: one list, atomic calls |
| `TaskQueue` | `LockFile` × `QueueOps`, instance of `AtomicQueue` | queue.go as processes share it |
| `TaskQueueProofs` | `TaskQueue`, and so `LockFile` and `QueueOps` | theorems, refinement |
| `TaskBoard` | | the abstract hunt: tasks on a board, moved one at a time |
| `Hunt` | instance of `TaskBoard` | orchestrator.go, runSpawn, workers, a user |
| `HuntProofs` | `Hunt` | theorems, refinement |
| `AuditTrail` | | audit.go, persistent.go, LogDecision |
| `AuditTrailProofs` | `AuditTrail` | theorems |
| `Specialists` | | specialist/\*.go, adapter.go, the MCP handlers around them |
| `SpecialistsProofs` | `Specialists` | theorems |
| `EngagementMemory` | | store.go, the MCP handlers around it |
| `EngagementMemoryProofs` | `EngagementMemory` | theorems |
| `Workers` | | runSpawn, isWorkerProcess, processes and PIDs |
| `ServerLife` | | runServer, runStop, daemon_unix.go |
| `VPNGateway` | | vpn.go, runVPN, the container's script |
| `ScopeRules` | | scope.go, its callers, config.go's Validate |
| `Normalize` | | normalize.go: paths and queries |
| `RateLimiter` | | ratelimit.go, lock by lock |
| `ConfiguredStore` | | store_default.go, pgstore.go |
| `ScanCommand` | | runDiscover, runScan, their part of adapter.go |
| `SupportProofs` | these eight, from `Workers` on | theorems |
| `Recursion` | | lemmas: induction and recursion, for the `…Proofs` modules |
| `MCSupport` | these eight but `ServerLife`, side by side | one instance of each |
| `MCEnds` | `ProxyGate`, `LockFile`, `ServerLife`, side by side | one instance of each, with fairness |
| other `MC…` | one each | constants of instances, symmetry |

Definitions named as mutants in a comment are plausible bugs; `PROJECT.json`
pairs each property with one that breaks it.

**ProxyGate.** A request is a place `pc[r]` and the variables of its goroutine:
`url` (replaced by a redirect), `answer` (the last accepted IP list), `hops`,
`entry` (what LogDecision recorded), `dial`. Shared are `killed`, `pins`,
`tokens`. One action is one access to shared state:

    Arrive → KillGate → StaticGate → Resolve → Store → RateGate
      forward:  LogAllow → ReResolve → RePin → Dial → Respond | Redirect
                Redirect → RedirectResolve → RedirectStore → Dial …
      connect:  Hijack → Dial → TunnelClose
      check:    CheckGate → CheckResolve

Checks on the URL alone (parse, active testing, scheme, port, scope, path) are
sequences (`ForwardChain`, `ConnectChain`, `RedirectChain`, `CheckChain`,
`RecheckChain`) in the order of each handler; `TurnedAway` names the first that
fails. A URL is a spelling of a host and at most one further defect; that is all the
checks tell apart. DNS is nondeterministic within `Answers[h]`, may fail, and
may answer differently each time. storeResolvedIPs evicts *some* entry at
capacity (Go's map order), even when the host already has one. `contacts`,
`followed` and `late` are history.

**LockFile.** The four system calls of newLockFile are `Create`, `Stat`, `RemoveOld`,
`Recreate`; others run in between. `GrowStale` lets thirty seconds pass for the
present file. `raced` records that an os.Remove, by a takeover or by an unlock, has
hit a live holder's file. A dead process stays dead; a process is
one call after another, since Queue.mu serialises the goroutines of one.

**QueueOps / AtomicQueue / TaskQueue.** `Updates(call, tasks, new)` is what Add,
Next, Start, Complete, Fail and Retry do to the list they loaded, including Next's
one-pass scan (`NextIndex`, a recursive function). `AtomicQueue` applies it to
one list in one step. `TaskQueue` conjoins it with `LockFile`'s actions:
`Lock`, `Load`, `Save` (the rename), `SaveNothing` (nothing changed, or the
temporary file failed), `Return`, `Die`. Get and List are Loads. `AQ!AtomicSpec`
with `tasks <- file` is the refinement mapping.

**Hunt.** One tick is `ListPending`, then per task `SpawnCheck`, `SpawnDrop` or
`SpawnStart` and `Launch`, then `ReadResults`, and per result `ReadReport`,
`ReadQueue`, `Truncate`, `WriteVerdict`, `Chain`\*, `RemoveResult`. `Truncate`
and `WriteVerdict` are the halves of os.WriteFile; `unlinked` says that a queue
command has meanwhile renamed its file over the one being written. log.Fatalf is
`Exit`, `Crash` is a death at any place, `Restart` the user's new start. A worker
reports any verdict and any *list* of findings, in which a target may come twice, or
dies. `Fails` is the failure of an operation on a file, at every one of them: the loop
goes on, so each action has the branch that loses what could not be done (`Unrecorded`,
`WriteSome`, `LoseLine`, `FailIfWorkable`). `garbled` says that a file has a line cut
short, which every command of the queue package then refuses. A user's command is
`UserLoad` and `UserSave` or `UserReturn`, at any time. The history is what the
properties are about: `asked` and `starts` count how often a task was put up for work and
started, `doubled` names findings added when they were known already, `spoiled` marks a
result whose consumption failed in part, and `harmed` the file once it was cut short or one
process undid the other's writing.
`TaskBoard` knows no file, lock or crash: a task is added, spawned, given up, reported,
settled or retried, each in one step. `board <-` the file, or the copy while os.WriteFile
has truncated the file, is the refinement mapping; until the file is harmed every step is
a move on it.

**AuditTrail.** `Add` appends to the ring; `Insert`, `Count` and `Trim` are the
statements of persist, each of which may fail silently; `Restart` is
replayFromDB, of the newest rows or, as an error of the rows goes unnoticed, only the first
few of them. LogDecision is `Log` alone, because NewProxy keeps the embedded
Logger.

**Specialists.** A call is `Arrive`, `Admit` (handleRunSpecialist), `GateSwitch`,
`CheckTarget`\* (FilterInScope of the specialist), `Refilter`, `CheckTarget`\* (of the
adapter), `Prepare`, the probe for the scanner's version, `Launch`, `ScannerEnds` or
`ScannerKilled`. The place "probe" lasts as long as that process does. Operators' calls are
`Activate`/`Deactivate` and, a step later, `LogSwitch`.

**EngagementMemory.** `RecordAssets` reads the clock; `Lock`, `Upsert`\* and
`Unlock` follow. The slice GetAssets returned is modelled as such: `view` with
`live` says whether it is still the store's array, and `BeginCopy`/`EndCopy` let an
element's fields be read while a writer changes them.

**Workers.** `proc` is what each PID stands for: nothing, a worker, its zombie, or
another program, which may be a *lookalike*: isWorkerProcess searches the arguments ps
prints for the name of an agent. ps and the signals may fail, and the commands go on. `SpawnStarts`, `PidFileOpens` and `PidFileFills` (the halves of
os.WriteFile), `ListReads`/`ListProbes`/`ListCleans`, `StopReads`/`StopVerifies`/
`StopKills`/`StopRemoves` are system calls, in any number of terminals, of which
one is the orchestrator, the parent of what it spawns. `Exits`, `Reuse` and
`Interrupt` are the world's. `misled` remembers the commands whose PID has changed hands
since they looked, or for which ps or the signal to a worker failed; `newer` those whose
file was written after they had read it.

**ServerLife.** A server goes `probing` (each port bound and released), `listening`
(two goroutines bind in either order), `serving`. `Launch` and `WritePid` are the two
halves of daemonize; `StopReadsPid`, `StopSignals`, `StopRemovesPid` those of `stop`;
`Recycled` gives a dead server's PID to another program, `ForeignBinds` its port.
`clashed` marks the servers with which a second command interfered.

**VPNGateway.** A start is `EnsureImage`, `LookForRunning`, `RemoveStale`,
`RunGateway`, `Poll`\*, each a podman command that may fail. Beside it the container
runs its script: `WgQuickUp`, `Shield` (the default-deny rules), `Monitor`. The log
is what `stage` and `after` (lines since "connected") say of it.

**ScopeRules.** One state variable, the program loaded; everything else is
operators. A host is its labels and its trailing dots; `CheckCommand`,
`ScopeValidator`, `ProxyAdmits`, `CheckURLAdmits` and `ValidateHosts` are the doors,
each with its own normalisation. `ProxySchemes` and `ProxyPorts` are the lists the proxy
has: NewProxy puts https and 443 where the program and the defaults list nothing. `Authorised` is the reference: what rules mean when
they are read by names alone. **Normalize** compares `CleanPath` and `SortQuery`, loop
by loop, with what the comments promise.

**RateLimiter.** AllowN is `Find` under the read lock, `FindOrMake` under the write
lock, `Take` under the bucket's own; `Reset` and `ResetAll` drop buckets that calls
may still hold. **ConfiguredStore.** `Open` is NewConfiguredStore in both builds;
statements take effect whole, fail, or are reported to have failed though they took
effect; `RedactReads` and `RedactWrites` are apart.

**ScanCommand.** `Ask`, `Filter`, `CheckPolicy`, `Recheck`\*, `Run`, `ScanEnds`, `Sift`\*,
`Keep`, beside a switch that turns and a deadline that passes. The server's answer
is any list of decisions of which each is true of the host it names. `kept` is the
result's list of subdomains, which goes to the engagement memory; `printed` is what the
command prints, the scanner's raw output in it.

## 3 Runs, bounds and what they show

Twelve runs; each takes from a few seconds to about two minutes on two cores.

| Run | States | Question and answer |
|---|---|---|
| `proxy_safety` | 4.1 M | Two concurrent requests of every kind and defect, redirects, the switch turning, one refill, and a pin map of **one** entry, so pins are evicted and missed. What leaves the proxy is permitted, valid when pinned, audited, within the rate; CheckURL agrees with ServeHTTP. |
| `ends` | 0.1 M | What must end, under fairness, three parts side by side. A pin map larger than the scope and normalised names: every connection is pinned, every request ends. Four processes that crash, take over and outlive thirty seconds: exclusive unless raced, a lockout ends. Two servers, two launchers and a `stop`: a process that starts ends up on both ports or ends, and one that is up is the one in the PID file if no second command interfered. |
| `queue` | 3.9 M | Two processes whose locks may break: identifiers stay unique, Next finds the best task, calls are atomic until a live lock is removed. |
| `hunt_loop` | 0.6 M | One task, reports of up to two findings, the same twice or an unsafe one, a failing operation, a user's command: every pending task is spawned or dropped, unless it has two lines or the file is harmed. |
| `hunt_crash` | 2.0 M | A crash at any point, also inside os.WriteFile, a failing operation, a user who adds or retries at any time: done only if reported, started only as often as asked, results consumed at least once unless an operation failed, and until it is harmed the file is a `TaskBoard`: no task is lost, each rewriting moves one task (`MovesAreAtomic`). |
| `audit` | 2.2 M | Three goroutines, failing inserts and trims, one crash: ring and table keep the newest entries (`NewestAreKept`), in each caller's order, the table stays bounded. |
| `memory` | 2.2 M | Calls that repeat hosts and overtake each other, and recalls beside them: one asset per host, true times, complete recalls. |
| `specialists` | 1.2 M | One call of any specialist, two operators, a client that may go: only permitted targets, never once the switch is on, gate confirmed, the log tells the switch, and the call of a lost client ends or is in the probe for the version. |
| `support` | 0.6 M | Seven parts side by side, see below. |
| `finding_chained_id` | | **violated**: PendingIsSpawned (§6.1). |
| `finding_torn_queue` | | **violated**: NoDataLoss (§6.1). |
| `finding_unpersisted` | | **violated**: DecisionsPersist (§6.1). |

What `support` shows of each part:

| Part | Property | In words |
|---|---|---|
| `Workers` | `StopHitsTheWorker` | `spawn stop` is about to kill only what has an agent's name in its arguments, and afterwards no worker has the PID, unless ps or the signal failed or the PID changed hands after ps |
| | `RemovalsSpareTheLive` | no command takes the file of a living worker by mistake, unless file or PID changed after it looked, or ps or the signal failed |
| `VPNGateway` | `ShieldedWhenStarted` | a start with the kill switch that reports success on its own container leaves its rules in place |
| `ScopeRules` | `ProxyFollowsTheRules` | the proxy admits exactly what the rules authorise, however a host is spelt |
| | `DoorsAgree` | CheckURL and the proxy agree; so do `check` and `queue add` where a scheme and a port are listed |
| `Normalize` | `NormalFormIsRight` | paths are resolved, queries sorted, nothing lost, one form for equal queries |
| `RateLimiter` | `GrantsWithinRate` | within a full bucket and the refill in every stretch of time, twice that per reset |
| `ConfiguredStore` | `RedactedStaysRedacted` | what is redacted stays so, unless a statement failed or redactions overlapped |
| `ScanCommand` | `OnlyAllowedAreUsed` | only targets allowed under their own name are scanned; recon without the proxy lists and records no others |
| | `SwitchStopsTheScan` | a switch on since before the adapter's check stops the scanner |

Type invariants are not run: they are proved (§5), or are parts of what is.

Why the bounds are enough, as far as bounds can be:

* *proxy_safety*: every shared-state conflict in the proxy is between two requests
  (they share a pin, a slot of the map or a token); a third adds nothing a second
  cannot do. Three hosts: one with a choice of answers, one with which it competes
  for the slot, one out of scope; the alternative spelling `A` makes DialContext's
  lookup by raw name miss. `Burst = 1`, `MaxRefills = 1`: the bucket is empty, refilled
  and full. Two redirects: one followed, one that meets the limit. Most of these
  properties are also proved without bounds (§5).
* *ends*: two hosts and two requests in the proxy, with which the roomy map is three
  entries. Two takers of a stale lock file and its dead owner are the smallest race;
  the fourth process lets the robbed holder's unlock hit someone else. Two servers and
  launchers and one stop make every clash there is between two commands.
* *queue*: a lost update needs two processes; priorities 0 and 6 lie outside the
  valid range, 1 and 5 are its ends, equal stamps make ties. Three
  identifiers, one out of scope, give lists long enough for an order.
* *hunt_loop*: two targets, of which one is unsafe, and reports of two findings, so that
  one target can be named twice and both kinds come in either order. *hunt_crash*: one
  task in the file and one a user may add, so that rewriting one must keep the other; two
  starts, so a retry happens. One crash, one command and one failure put each at every
  place of the loop, and each before or after the others.
* *audit*: a ring of two is the smallest with an order; six entries overflow two
  rings and trim, then go on.
* *memory*: two hosts, lists of one or two (a list may repeat a host), three calls at
  three times, so that the third call sees what two overlapping ones left.
* *specialists*: one call, since calls share the switch only, which operators turn
  anyway; three targets of which the limit (2) admits two; three toggles: on, off and
  on again.

* *support*: the seven parts share no variable in the code, and a behaviour of the run
  is one of one part while the others rest (so in *ends*); so its states are the sum of theirs and
  the check of each is complete for its constants. *Workers*: one task, two PIDs
  (so that one is reused), the orchestrator and two terminals, three starts and one
  process of another program, lookalike or not; more tasks are covered by the theorem. *VPNGateway*: two terminals, a log of two lines. *ScopeRules*: one rule for either purpose, every
  type, with and without a dot, hosts with up to two, limits that are empty,
  for which the proxy has its own, or not; lists of several rules are covered by the theorem. *Normalize*: all paths of
  five segments over two names, `.`, `..` and the empty one, all queries of four pairs
  over three keys. *RateLimiter*: two callers, a bucket of two, three ticks, a reset.
  *ConfiguredStore*: one entry of two fields and two goroutines, so that redactions
  overlap. *ScanCommand*: two targets and a host outside them, answers and lists of up
  to two, in any order and with repetitions.

Deadlock is checked where the system cannot stop (the hunt's, the proxy's and the memory's
runs); in the other runs all calls may be used up, all processes may be dead, and
the cfg says so. Symmetry is used only in runs without liveness.

## 4 Fairness

* `ProxyGate`: weak fairness of each request's own steps. Lookups have a 5 s
  timeout, dials 10 s, the client 30 s, so a request that was accepted keeps moving;
  nothing else blocks. No fairness for arrivals, refills, the switch or the end of
  tunnels, which last as long as their ends like.
* `LockFile`: callers keep calling (the orchestrator does so every 5 s), a call of a
  live process runs to its end, time passes. No fairness for crashes.
* `Hunt`: the loop ticks for ever; a user restarts it when it has ended; a started
  queue command ends. No fairness for workers: a task is spawned whether or not
  anyone ever reports.
* `Specialists`: the server's own steps; requests carry 30 s timeouts and end with
  the context. No fairness for scanners (§6.2, `ScansEnd`), nor for `Launch`, which waits
  for the scanner to print its version, with neither context nor timeout (adapter.go:592).
* `ServerLife`: a server's own steps, and the delivery of a SIGTERM. Nothing in a
  start waits for anything but the operating system. No fairness for commands.

## 5 Proofs

All proofs are in the `…Proofs` modules and are complete: every invariant and action
property that a run checks is a theorem, for every value of the constants. `ASSUME`s on
constants are the named assumptions of the modules; TLC evaluates them in every run.

**Induction** (`Recursion`). The provers cannot instantiate an induction theorem whose
premise is an operator. What is to be shown of every number is therefore given as the
*set* of the numbers it holds for (`LeastNumber`, `Interval`), and what an algorithm does
at each element as a *function* (`RecursionExists`, `RecursiveFunction`), which is enough
for every loop of the models: Next's scan, the marking of a queue's lines, the limiter's
sums, cleanPath and sortQuery.

**Proxy** (`ProxyGateProofs`). What a request may do depends on which checks it has
behind it, and that is implied by where it is. The strengthening says so:
`HasURL` and `KindsFit` (which requests can be at a place), `AnswersHeld` (what is about
to be stored is a valid list), `Vetted` (at each place past the static checks the URL passed
them), `DialsVetted`, `PinsValid` (the *map* holds only valid lists; without it nothing can
be said of a pin another request stored), `KillHolds`, `AuditHolds`. Theorems:
`GateTypeCorrect`, `GatePermits`, `GatePinsValid`, `GateKillsLate`, `GateAudits`.
`GateAlwaysPinned` assumes `Roomy` (finite scope smaller than the map, names
normalised) and needs `PinsHeld`: from the store to the dial the host's pin is
there; the proof is that in a roomy map storing never evicts. `GateKeepsRate`
assumes finitely many requests and counts: `TokensAccounted` says that connections
made, tokens held by requests in flight and tokens left together never exceed
burst plus refills; `HopsFit` separates first connections from followed redirects.
`GateDoorsAgree` needs `SaysTrue`: a reason that check_url or the gate has given is true
of the URL, whatever checks came before it, and so is an approval (`Good`); two answers
about one URL can then not contradict each other.

**Lock** (`TaskQueueProofs`). `HoldersOwnLock`: until raced, every holder owns the
file, of which there is one; hence `LockExclusive`. With `NoLeakedLock` and the
types it is inductive. `LockTypeCorrect`, `LockNeverLeaked`.

**Queue** (`TaskQueueProofs`). `QueueInv` adds to the lock's invariant that lists
loaded and stored have unique identifiers (kept even when the lock fails, because a save
writes one update of a list that was once the file), that processes without the lock
are at the start of a call, and `SnapsCurrent`: until raced, what a holder has
loaded *is* the file. From it `QueueTypeCorrect`, `QueueIdsUnique`,
`QueueAtomicUnlessRaced`, and the refinement `QueueImplementsAtomic`:
`Spec /\ []~raced => AQ!AtomicSpec`, initial states to initial states and every step
to a step or a stutter. `QueueScanFindsBest` is about Next's one pass: what it has found
after n tasks is the best of the first n and the earliest of those (`Found`), at
whatever length of the list.

**Hunt** (`HuntProofs`). No theorem assumes anything of crashes, failures or commands;
where they do damage, the history in the property says so. `HonestInv`: every "done" in the
file, in the orchestrator's copy of it, in a user's copy, in a result and in what was read
of a result goes back to a report. So `HuntDoneReported` holds in the behaviours in which
tasks are lost, too. `HuntLosesNoTask` needs `Undisturbed`: until the file is harmed a
command that has seen the orchestrator's last writing has loaded what is in the file,
an orchestrator about to truncate it has read what is in it, and between the two halves
of os.WriteFile its copy has every task; whoever writes the file then writes every task
that was in it. For `HuntConsumesResults`, `Counted` says that a listed result has used up
one of the workers its task was started with, so a task started once has no second
report that could replace one half consumed; `Consumed`, that what was read of a result is
what it holds, and, while it is chained and nothing has spoiled it, its verdict is recorded
and every finding is in the report still or in the queue already. `HuntTypeCorrect` needs
`HonestInv`, too, which says what lists hold. The refinement `HuntMovesAreAtomic` needs
`BoardInv`. `Standing`: each task still to be spawned in this tick has a pending line of
its own, in the order of the listing (`Points`), even where a finding has given a task two
lines; marking the *first* line of the head cannot touch the line of another, so what is
started or given up was pending. `Recorded`: workers and results are of tasks that are on
the board, and what is read of a result was reported. Truncate then changes nothing of
the board, and WriteVerdict is the one step `Settle`. `HuntStartsAsAsked` rests on both: a
task that is not doubled has one line (`AsAsked`), and while that line is pending the task
has been put up for work once more than it was started, also when a command puts it back
between SpawnStart and Launch.

**Specialists** (`SpecialistsProofs`). `Filtered` says what each filter has let
pass of what it was given (first from the targets named, then from `first`) and that
nothing is launched before the end; `Halted`, that a call that is late has let nothing
pass *and the switch is on*, which is why every check_url since has refused; `Asked`,
that gate is past its own question only with approval and the answer "off".
`SpecialistsTypeCorrect`, `SpecialistsPermit`, `SpecialistsHalt`, `SpecialistsConfirm`.
For `LogTellsOfTheSwitch`, `LogFollows`: until two operators overlap, at most one has an
entry still to log, and the switch is as that one turned it.

**Engagement memory** (`EngagementMemoryProofs`). `OneAssetPerHost` is not inductive:
an update in place changes the store's array through the writer's slice, at an
index found in the latter. `Extends` says that the writer's slice begins with
the store's hosts in their order, so the index is right for both. `FindFinds` is
the lemma about the search loop. `MemoryOneAsset`. `MemoryTellsTimes` follows the times
through the call that is at work: `Told` is what the finished calls and the hosts this
one has been through (`Done`, a prefix of its list by `Suffix`) were recorded at, and the
writer's slice is true to it (`TrueTo`) after each host; at Unlock it is `recorded`.
`MemoryRecallComplete` is about readers without the lock. `Given`: the slice a recall was
given holds, at each place, an asset of the host the store has there, for as long as it
is the store's array (`live`), and of a host that stays there when the array has moved.
`Copied`: each value the asset being copied has had (`mix`) is of that host and true to
`Told`, which only grows (`Grows`), so any mixture of their fields is, too. `ArrayInv`
says the same of the old fields of the element being changed. `Needs` carries what was
recorded when the recall began along to what it has read.

**Audit trail** (`AuditTrailProofs`). `LatestOfAppend` and `LatestOfLatest` say what the
newest part of a sequence does when it grows or is cut again. With them the three
parts of `NewestAreKept` are inductive together: the buffer is filled from a table that
has kept the newest rows, and every step that ends a persist without a trim is counted
in `untrimmed`. `TheNewestAreKept`. For `EveryCallerInOrder`, `Past` says that what is in
buffer and table is in each caller's order and was logged before, and a pending entry
is newer than the rows of its caller.

**Parts of `support`** (`SupportProofs`), each for every value of its constants.
*Workers*: `ProcessAsSeen` and `FileAsRead` say that what a command saw of a process, or read
from a file, still holds unless `misled` or `newer` remembers otherwise:
`StopAsksPs`, `FilesOfTheLiveStay`. *ServerLife*: `Undisturbed` says where the PID
of a server that nobody clashed with is, and that no stop under way can remove it
without having signalled it: `ServersCanBeStopped`. *VPNGateway*: the rules of a
connected container are as it was told, and what a start has made was told what the
start asked: `StartsAreShielded`. *ScopeRules*: `MatchesCover`, a comparison of
normalised hosts is one of labels; `EngineDecides`, the engine's answer in the words of
the rules: `RulesDecide`, `AllAsk`, for any lists of rules and any limits, empty ones
with NewProxy's defaults. *RateLimiter*: `OneBucket`: the
buckets made for a host are no more than its resets and, while it has one, that one. `GrantsKeepRate` keeps an account for
each host and each time s: what its buckets could give at s, the credits of each (its
tokens and the refill due) and, of those still to be made, a full one; since s, grants
and credits left have come to no more than that and the refill of the time gone by. A
grant moves a token from the one to the other, a step of time adds the same to both.
*Normalize*: `NormalFormKept`, by induction along the loops. What cleanPath has kept of
the first n segments are those that stay if the path ends there, and after each kept
one there are as many more ordinary segments than ".." as are kept after it (`Kept`).
After any exchange sortQuery's list is a rearrangement of the query, no pair up to the
pass under way is before one of smaller key, and the pair at the pass's place has the least
key so far (`Sorting`); two lists of the same pairs whose keys ascend are one (`SameList`).
*ConfiguredStore*: of an entry in no doubt at most one redaction is under way, and the
row is as it read it: `RedactionsLast`; `DatabaseOrNothing`. *ScanCommand*:
`ScansStayAllowed`, `SwitchedOffScans`.

Only model-checked: liveness (`EveryRequestEnds`, `LockoutEnds`, `PendingIsSpawned`,
`DisconnectEndsCall`, `ServesOrDies`), which the provers cannot reason about under
fairness.

## 6 Where code and documentation differ

### 6.1 Findings, each with a run

* **A chained identifier ends the orchestrator** (`finding_chained_id`;
  `cmd/pentest/main.go:1400`). A finding's task is named after its target; isValidID
  refuses a dot or a slash and runSpawn calls log.Fatalf. The task stays pending, and every
  restart ends at it again.
* **A crash empties the queue** (`finding_torn_queue`; `cmd/pentest/orchestrator.go:198`).
  updateStatus rewrites the file with os.WriteFile, which truncates it first;
  docs/distributed-hunt.md:279 says "No data loss — queue is append-only". The constants of
  *hunt_crash* find two more ways: a write that fails, and no crash or failure at all, when
  updateStatus, which takes no lock (orchestrator.go:176), writes back what it read before
  `queue add` saved a task.
* **The proxy's decisions are not persisted** (`finding_unpersisted`;
  `internal/proxy/proxy.go:119`). NewProxy keeps the Logger inside the
  PersistentLogger; LogDecision calls its Log, which only writes memory.

### 6.2 Stated in a module, not run

These are properties that documents suggest and the models do not have. Each is
defined beside the others with the line it quotes; checking it with the cfg of its
module gives a counterexample.

| Definition | What the code does instead |
|---|---|
| `LockFile!MutualExclusion` | two processes see the same stale file; the faster removes it, creates its own and works; the slower removes *that* one (queue.go:32; queue.go:458 says "an exclusive advisory lock"). What holds is `ExclusiveUnlessRaced`, and everything the queue promises is stated relative to it |
| `ProxyGate!KillHaltsTraffic` | the switch is read once per request; requests in flight, their redirects and open tunnels go on |
| `ProxyGate!TunnelsAreAudited` | handleConnect logs refusals, no allow entry |
| `ProxyGate!AllContactsWithinRate` | followed redirects take no token |
| `ProxyGate!DryRunConnectsNowhere` | handleConnect has no dry-run test |
| `ProxyGate!TunnelsUseTheirOwnAnswer` | pins are shared; a tunnel may dial an address another request resolved (a valid one: `PinnedContactsAreValid`) |
| `TaskQueue!Atomic` | holds only while no lock is broken (`QueueImplementsAtomic`) |
| `Hunt!FindingsBecomeTasks` | the loop drops the error of Add, as of Complete and Fail, and removes the result file all the same (orchestrator.go:88, :99-107) |
| `Hunt!TaskIdsAreUnique` | the wrapper's Add does not look for the identifier, as queue.go:129 does (orchestrator.go:164): a target named twice in a report is two lines. Start marks the first only; the second stays pending and is spawned at every tick, one worker more each time |
| `Hunt!QueuedInScope` | chained tasks and the wrapper's Add pass no scope validation |
| `Specialists!ScansEnd` | Timeout is handed to the adapters, which do not use it (the CLI's discover and scan set a deadline themselves) |
| `EngagementMemory!SourcesAreDeduped` | mergeSource compares whole strings: a, b, a gives "a,b,a" |
| `EngagementMemory!RecallIsConsistent` | a recall copies elements without the lock, field by field |
| `Workers!StopSparesStrangers` | the check that main.go:1369 says is there "to prevent PID recycling issues" looks for four words in the arguments of whatever has the PID now (main.go:1528); and when ps fails the command warns and kills |
| `Workers!KillsOnlyItsOwn` | isWorkerProcess cannot tell the worker of one task from another's that has the PID now |
| `Workers!ListedAreAlive` | signal 0 reaches zombies, and other programs that have the PID |
| `ServerLife!StopReachesTheServer` | a second `server --daemon` overwrites the PID file before it fails on its ports |
| `ServerLife!SomeoneServes` | of two starts each may bind one port and end on the other; main.go:1008 speaks of the window |
| `VPNGateway!KillSwitchIsOn` | a gateway that runs already is used as it is, with or without the rules |
| `VPNGateway!StartedMeansUp` | podman shows the log of a container that has ended, and it says "connected" |
| `VPNGateway!FailedLeavesNothing` | a start that times out leaves its container running |
| `VPNGateway!StatusTellsTunnel` | status looks for a line of the past; the monitor's lines follow it |
| `ScopeRules!AllDoorsAgree` | where no scheme or port is listed the proxy takes https and 443 (proxy.go:131-137) and `check` refuses everything; a trailing dot hides a path exclusion from `check` |
| `ScopeRules!HostIsNormalAfterOnce` | Host takes off one trailing dot at a time |
| `ScopeRules!EveryInclusionAllows` | README.md:235 lists CIDR; a cidr rule is valid and matches nothing, since IsIPInScope has no caller |
| `Normalize!FirstValueStays` | normalize.go:125 says "preserve first value for duplicate keys"; sortQuery's exchanges are not stable |
| `RateLimiter!ResetAddsOneBurst` | a call that found the bucket before the reset goes on taking from it |
| `ConfiguredStore!OverlapIsHarmless` | of two redactions at once the later write brings back what the earlier took out |
| `ConfiguredStore!ToldIsStored` | a failed INSERT is not told: the caller gets the entry all the same |
| `ScanCommand!PrintedAreAllowed` | discover without the proxy announces "RESULTS SCOPE-VALIDATED POST-HOC" (main.go:672) and prints the scanner's raw output (adapter.go:321) beside the filtered list; the specialists return it, too (specialist/recon.go:78, vuln.go:92, gate.go:182) |
| `ScanCommand!KeptAreAllowed` | with the proxy, what BBOT found is recorded as in scope unchecked |
| `ScanCommand!AllowedAreKept` | once the 300 seconds are over every check fails, and all that was found is dropped |

### 6.3 Noticed while reading

* An evicted pin is replaced by a fresh lookup at dial time, which nothing validates;
  `EveryContactIsPinned` is therefore stated for roomy maps. Names that are
  not normalised miss their pin the same way, since DialContext looks up the raw name.
* A result consumed twice (crash before the removal, or a removal that fails) chains its
  findings twice, with the same effect as a target named twice.
* A line cut short in the queue file makes loadTasks refuse the whole file: runSpawn then
  ends the orchestrator at its next pending task, until updateStatus or a user repairs it.
* The late report of a first worker settles a task that was retried; nothing says which
  of the two workers a verdict came from.
* updateStatus's rewrite drops created_at, dependencies and the error text; Next
  ignores depends_on. The documentation says priority runs from "1 (highest) to 5";
  queue.go:222 takes 5 first.
* `queue add` writes `tasks.jsonl` by default, the orchestrator reads
  `~/.scopepilot/queue.jsonl`.
* last_seen can go back: RecordAssets reads the clock before it takes the lock.
  Hosts are not normalised there, and InScope is never set. Scans run by a specialist
  pass no store, so their results are not recorded; discover records into a store that
  ends with the command.
* get_recent_decisions, get_audit_log and the watch stream read the store's log, which
  holds tool calls and switch actions, never the proxy's decisions.
* PersistentLogger.Add, which writes the table, has no caller but tests; `AuditTrail` says
  what holds for whoever calls it.
* RedactEntry scans a TIMESTAMPTZ into a string, which the driver may refuse; that is the
  failed statement of `ConfiguredStore`.
* Redact says "original entry is marked as redacted"; it marks the copy it returns.
* Workers are not waited for, so a finished one stays listed as running.
* `up` prints that the server is live even when its health check has failed, and the
  check may be answered by an older server on the same port.
* PGStore's methods for assets and findings return errors, so a server on PostgreSQL
  has an audit log and no engagement memory.
* CheckPathExclusion is handed the parsed URL's own path at all three doors, never the
  path normalize.URL resolves (proxy.go:253 computes it beside the parsed URL), so an
  exclusion compares the path as it is spelt.

## 7 What is left out

* Formatting, headers, bodies, arguments and parsing of scanner output: no property is
  about them. In `ProxyGate` scope matching and normalisation are sets and functions
  (`InScope`, `NormHost`), with a defect per check; `ScopeRules` has the operators.
* Case, spaces and IDN in host names, which normalize.Host folds wherever hosts are
  compared; default ports and fragments of URLs; Path, IsValidHostname and IsIPLiteral.
* The refill of the limiter is continuous in the code and comes in ticks in the models.
* The Add wrapper of the orchestrator opens and appends in one step of `Hunt`, and a
  line it cuts short is garbled, never complete but for its newline.
  Findings of findings are left out: they would chain in the same way. So are two
  orchestrators at once, and a result file that is read while its worker still writes it,
  which is not JSON and read again at the next tick.
  Stale locks do not occur in `Hunt`; they are `LockFile`'s subject.
* Scanners orphaned by the server's death, and children of a scanner that outlive it.
* os.WriteFile of the server's PID file is one step: a `stop` that finds it empty has
  no effect.
* PGStore's read queries and its connection pool; PostgreSQL itself is external, and a
  statement of it takes effect whole.
* The remaining MCP tools, which only read; `init`, `import` and `connect`, which write
  one file once; `status`, `health` and `watch`; the Windows build's daemon, which is
  refused; report formatting, dashboards, fixture and demo.

## 8 Plan

Written so far, in this order, most important first: the proxy's gate; the lock
file and the queue with their refinement; the hunt; the audit trail; the
specialists; the engagement memory; then the parts around them: workers, servers, the
VPN gateway, scope rules and normalisation, the limiter with resets, the stores, the scan
commands.

Proved so far: every safety property the runs check, the refinements of the queue and of
the hunt, and the algorithms (Next's scan, cleanPath, sortQuery, the limiter's accounts) at any length.

Next, to be stated and proved: an abstract specification of the audit log (the latest N
of a sequence) and its refinement; two orchestrators on one queue file; `Workers` composed with `Hunt`, so that a `spawn stop`
takes the worker whose report the orchestrator waits for.

----------------------------- MODULE ScanCommand -----------------------------
(***************************************************************************)
(* The commands `discover` and `scan` (runDiscover and runScan in          *)
(* cmd/pentest/main.go), which run BBOT and Nuclei on this host: targets   *)
(* come from the scope rules, the MCP server is asked about all of them in *)
(* one run_safe_check, those it allows go to the adapter, which asks about *)
(* each again (internal/adapter/adapter.go), starts the scanner, and looks *)
(* at what it found.                                                       *)
(*                                                                         *)
(* The server is another process: its kill switch turns meanwhile, it may  *)
(* be gone, and what answers may be a server of another version or of      *)
(* other rules, so an answer is any list of decisions, each true of the    *)
(* URL it names.                                                           *)
(***************************************************************************)
EXTENDS Naturals, Sequences, Functions

CONSTANTS
  ScanTargets, \* hosts of the program's exact_host rules
  Elsewhere,   \* other hosts a scanner may find
  Allowable,   \* hosts the server allows while its switch is off
  MaxListed    \* bound: targets in a list, and decisions in an answer

ASSUME ScanAssumption ==
  /\ Allowable \subseteq ScanTargets \cup Elsewhere
  /\ ScanTargets \cap Elsewhere = {}
  /\ MaxListed \in Nat \ {0}

VARIABLES
  setting,  \* command line and configuration
  at,       \* where the command is
  targets,  \* extractTargets: a list
  answer,   \* the server's decisions
  allowed,  \* targets handed to the adapter, whose order makes no difference
  checked,  \* targets the adapter has asked about
  inScope,  \* those it was allowed
  started,  \* targets the scanner was started with
  found,    \* hosts in its output
  kept,     \* hosts in the result's SubdomainsFound and in the engagement memory
  printed,  \* hosts in what the command prints
  timedOut, \* the command's 300 seconds are over
  switchOn, \* the server's kill switch
  stayedOn  \* history: it has been on since before the targets were checked

scanVars == <<setting, at, targets, answer, allowed, checked, inScope, started, found,
              kept, printed, timedOut, switchOn, stayedOn>>

Hosts == ScanTargets \cup Elsewhere
Settings == [tool : {"bbot", "nuclei"}, dryRun : BOOLEAN, noProxy : BOOLEAN,
             vpn : BOOLEAN, ready : BOOLEAN]

SomeOf(S) == UNION {[1..n -> S] : n \in 0..MaxListed}
GoesTo(place) == at' = place

\* A decision of the server about the host it names.
Decisions == {d \in [host : Hosts, allowed : BOOLEAN] :
                d.allowed => d.host \in Allowable /\ ~switchOn}
----------------------------------------------------------------------------
\* extractTargets: a program without exact_host rules has none, and the command ends.
ExtractedTargets == {list \in SomeOf(ScanTargets) : list # << >>}

ScanInit ==
  /\ setting \in Settings
  /\ setting.tool = "nuclei" => ~setting.noProxy
  /\ at = "ask"
  /\ targets \in ExtractedTargets
  /\ answer = << >>
  /\ allowed = {} /\ checked = {} /\ inScope = {} /\ started = {} /\ found = {} /\ kept = {}
  /\ printed = {}
  /\ timedOut = FALSE
  /\ switchOn \in BOOLEAN
  /\ stayedOn = switchOn

\* run_safe_check: an answer, or an error, which ends the command.
Ask ==
  /\ at = "ask"
  /\ \/ answer' \in SomeOf(Decisions) /\ GoesTo("filter")
     \/ UNCHANGED answer /\ GoesTo("done")
  /\ UNCHANGED <<setting, targets, allowed, checked, inScope, started, found, kept, printed,
                 timedOut, switchOn, stayedOn>>

Aligned == /\ Len(answer) = Len(targets)
           /\ \A i \in DOMAIN answer : answer[i].host = targets[i]

\* Mutant: decisions are matched to targets by their place alone.
FilterByPlace ==
  /\ at = "filter"
  /\ IF Len(answer) = Len(targets) /\ \E i \in DOMAIN answer : answer[i].allowed
       THEN /\ allowed' = {targets[i] : i \in {j \in DOMAIN answer : answer[j].allowed}}
            /\ GoesTo("policy")
       ELSE UNCHANGED allowed /\ GoesTo("done")
  /\ UNCHANGED <<setting, targets, answer, checked, inScope, started, found, kept, printed,
                 timedOut, switchOn, stayedOn>>

\* filterAllowedTargets: an answer that does not name the targets, one by one, ends the
\* command, and so does one that allows none.
Filter ==
  /\ at = "filter"
  /\ LET yes == {i \in DOMAIN answer : answer[i].allowed}
     IN  IF Aligned /\ yes # {}
           THEN /\ allowed' = {answer[i].host : i \in yes}
                /\ GoesTo("policy")
           ELSE UNCHANGED allowed /\ GoesTo("done")
  /\ UNCHANGED <<setting, targets, answer, checked, inScope, started, found, kept, printed,
                 timedOut, switchOn, stayedOn>>

\* validateScannerNetworkPolicy: neither does the program require the VPN nor is it
\* enabled, since a scanner on this host cannot use it.
PolicyAllows == ~setting.vpn

\* A dry run ends here; so does a scanner that the policy refuses or is not installed.
CheckPolicy ==
  /\ at = "policy"
  /\ GoesTo(IF setting.dryRun \/ ~PolicyAllows \/ ~setting.ready THEN "done" ELSE "recheck")
  /\ stayedOn' = switchOn
  /\ UNCHANGED <<setting, targets, answer, allowed, checked, inScope, started, found, kept, printed,
                 timedOut, switchOn>>

\* What check_url says of h, once the time is over an error.
ServerAllows(h) == h \in Allowable /\ ~switchOn /\ ~timedOut

\* FilterInScope asks about one target; an error blocks it.
Recheck(h) ==
  /\ at = "recheck" /\ h \in allowed \ checked
  /\ checked' = checked \cup {h}
  /\ \/ ServerAllows(h) /\ inScope' = inScope \cup {h}
     \/ UNCHANGED inScope
  /\ UNCHANGED <<setting, at, targets, answer, allowed, started, found, kept, printed, timedOut,
                 switchOn, stayedOn>>

\* Mutant: the targets of the first answer are used.
RunFirstAnswer ==
  /\ at = "recheck" /\ checked = allowed
  /\ started' = allowed
  /\ GoesTo("running")
  /\ UNCHANGED <<setting, targets, answer, allowed, checked, inScope, found, kept, printed,
                 timedOut, switchOn, stayedOn>>

\* The scanner is started, unless nothing is left or the proxy's URL or the templates are
\* missing; a start may fail, and does once the time is over. It has been asked for its
\* version before, which may take any time.
Run ==
  /\ at = "recheck" /\ checked = allowed
  /\ \/ GoesTo("done") /\ UNCHANGED started
     \/ /\ inScope # {} /\ ~timedOut
        /\ started' = inScope
        /\ GoesTo("running")
  /\ UNCHANGED <<setting, targets, answer, allowed, checked, inScope, found, kept, printed,
                 timedOut, switchOn, stayedOn>>

\* The scanner has ended, or was killed when the time was over; its output is parsed.
ScanEnds ==
  /\ at = "running"
  /\ found' \in SUBSET Hosts
  /\ checked' = {}
  /\ GoesTo("sift")
  /\ UNCHANGED <<setting, targets, answer, allowed, inScope, started, kept, printed, timedOut,
                 switchOn, stayedOn>>

Sifts == setting.tool = "bbot" /\ setting.noProxy

\* Without the proxy, what was found is checked host by host ...
Sift(h) ==
  /\ at = "sift" /\ Sifts /\ h \in found \ checked
  /\ checked' = checked \cup {h}
  /\ \/ UNCHANGED kept
     \/ ServerAllows(h) /\ kept' = kept \cup {h}
  /\ UNCHANGED <<setting, at, targets, answer, allowed, inScope, started, found, printed,
                 timedOut, switchOn, stayedOn>>

\* ... and with it, kept as it is, and recorded as in scope. The result is printed, with
\* the scanner's whole output in it (RawOutput).
Keep ==
  /\ at = "sift"
  /\ Sifts => checked = found
  /\ kept' = IF Sifts THEN kept ELSE found
  /\ printed' = found
  /\ GoesTo("done")
  /\ UNCHANGED <<setting, targets, answer, allowed, checked, inScope, started, found,
                 timedOut, switchOn, stayedOn>>

\* The context of the adapter's part ends after 300 seconds.
TimeIsOver ==
  /\ at \in {"recheck", "running", "sift"} /\ ~timedOut
  /\ timedOut' = TRUE
  /\ UNCHANGED <<setting, at, targets, answer, allowed, checked, inScope, started, found,
                 kept, printed, switchOn, stayedOn>>

\* Somebody turns the server's kill switch.
TurnSwitch ==
  /\ at # "done"
  /\ switchOn' = ~switchOn
  /\ stayedOn' = FALSE
  /\ UNCHANGED <<setting, at, targets, answer, allowed, checked, inScope, started, found,
                 kept, printed, timedOut>>

ScanNext ==
  \/ Ask \/ Filter \/ CheckPolicy \/ Run \/ ScanEnds \/ Keep
  \/ \E h \in Hosts : Recheck(h) \/ Sift(h)
  \/ TimeIsOver \/ TurnSwitch

ScanSpec == ScanInit /\ [][ScanNext]_scanVars
----------------------------------------------------------------------------
ScanTypeOK ==
  /\ setting \in Settings
  /\ at \in {"ask", "filter", "policy", "recheck", "running", "sift", "done"}
  /\ targets \in SomeOf(ScanTargets)
  /\ answer \in SomeOf([host : Hosts, allowed : BOOLEAN])
  /\ allowed \subseteq ScanTargets
  /\ checked \subseteq Hosts /\ inScope \subseteq ScanTargets
  /\ started \subseteq ScanTargets
  /\ found \subseteq Hosts /\ kept \subseteq Hosts /\ printed \subseteq Hosts
  /\ {timedOut, switchOn, stayedOn} \subseteq BOOLEAN

\* Only what the server allowed is used. A target is handed to the adapter only if the
\* decision about that very target allowed it, whatever order or number of decisions the
\* server sends; and recon without the proxy puts no other host in the result's list of
\* subdomains and in the engagement memory ("post-hoc filter results", adapter.go:291),
\* not even when the time is over. What the command prints is another matter:
\* PrintedAreAllowed.
OnlyAllowedAreUsed ==
  /\ allowed \subseteq Allowable \cap Range(targets)
  /\ Sifts => kept \subseteq Allowable

\* No scanner is started when the kill switch has been on since before the adapter
\* checked its targets, though it was off when the command asked first.
SwitchStopsTheScan == [][at = "recheck" /\ at' = "running" => ~stayedOn]_scanVars

\* Holds not: "RESULTS SCOPE-VALIDATED POST-HOC" (main.go:672), says the command: recon
\* without the proxy prints no host the server did not allow. RawOutput has them all.
PrintedAreAllowed == Sifts => printed \subseteq Allowable

\* Holds not: the same with the proxy. What BBOT found is recorded as in scope unchecked.
KeptAreAllowed == kept \subseteq Allowable

\* Holds not: what was found and is allowed is kept. After the 300 seconds every check
\* fails, and all that was found is dropped.
AllowedAreKept == at = "done" /\ Sifts /\ ~switchOn => found \cap Allowable \subseteq kept
============================================================================

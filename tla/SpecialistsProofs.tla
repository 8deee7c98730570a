-------------------------- MODULE SpecialistsProofs --------------------------
(***************************************************************************)
(* Proofs about the specialists, for any calls, operators, targets and     *)
(* bounds: a scanner starts only for permitted targets, never once the     *)
(* switch is on before the second filter, and gate only when confirmed;    *)
(* and what the audit log says of the switch is true.                      *)
(***************************************************************************)
EXTENDS Specialists, TLAPS

\* What the filters have behind them, at each place, and what was launched.
Filtered ==
  \A c \in Calls :
    /\ pc[c] # "idle" => req[c] \in Requests
    /\ pc[c] \in {"switch", "filter", "refilter", "probe"} => req[c].key
    /\ pc[c] \in {"filter", "refilter", "probe"} => passed[c] \subseteq Permitted
    /\ pc[c] = "filter" => passed[c] \cup todo[c] \subseteq req[c].targets
    /\ pc[c] \in {"refilter", "probe"} => /\ passed[c] \cup todo[c] \subseteq first[c]
                                          /\ first[c] \subseteq req[c].targets
    /\ pc[c] = "probe" => ~config.dryRun
    /\ pc[c] \notin {"running", "done"} => launched[c] = {}

\* A call that is late has let nothing pass, as long as the switch stays on.
Halted ==
  \A c \in Calls :
    /\ late[c] => killed
    /\ late[c] => pc[c] \in {"refilter", "probe", "running", "done"}
    /\ late[c] /\ pc[c] \in {"refilter", "probe"} => passed[c] = {}

\* Gate is past its own question only with approval and the answer "off".
Asked ==
  \A c \in Calls :
    /\ pc[c] = "switch" => req[c].tool = "gate" /\ req[c].approved
    /\ pc[c] \in {"filter", "refilter", "probe"} /\ req[c].tool = "gate"
         => req[c].approved /\ confirmed[c]

LaunchInv == TypeOK /\ Filtered /\ LaunchesArePermitted
               /\ Halted /\ KillStopsLaunches /\ Asked /\ GateIsConfirmed
----------------------------------------------------------------------------
\* At first no call has arrived.
LEMMA InitLaunchInv == Init => LaunchInv
<1> SUFFICES ASSUME Init PROVE LaunchInv
  OBVIOUS
<1> USE DEF Init
<1>1. TypeOK
  <2>1. killed \in BOOLEAN /\ by \in {NoOne, "config"} /\ (killed <=> by # NoOne)
    BY DEF NoOne
  <2>2. toggles \in 0..MaxToggles
    BY SpecialistsAssumption
  <2> QED
    BY <2>1, <2>2 DEF TypeOK, Places, Outcomes
<1>2. Filtered /\ LaunchesArePermitted /\ KillStopsLaunches /\ GateIsConfirmed
  BY DEF Filtered, LaunchesArePermitted, KillStopsLaunches, GateIsConfirmed
<1>3. Halted /\ Asked
  BY DEF Halted, Asked
<1> QED
  BY <1>1, <1>2, <1>3 DEF LaunchInv

\* Every step keeps the types.
LEMMA StepTyped == TypeOK /\ Filtered /\ [Next]_vars => TypeOK'
<1> SUFFICES ASSUME TypeOK, Filtered, [Next]_vars PROVE TypeOK'
  OBVIOUS
<1> USE SpecialistsAssumption
    DEF TypeOK, Goto, End, NotEnded, StartFilter, NoFilter, calls, switch, Places, Outcomes
<1>1. ASSUME NEW c \in Calls, Arrive(c) PROVE TypeOK'
  BY <1>1 DEF Arrive
<1>2. ASSUME NEW c \in Calls, Admit(c) PROVE TypeOK'
  <2>1. req[c].targets \in SUBSET Targets
    BY <1>2 DEF Admit, Filtered, Requests
  <2>2. UNCHANGED <<config, req, first, gone, switch, launched, late, confirmed>>
    BY <1>2 DEF Admit
  <2>3. pc' \in [Calls -> Places]
    BY <1>2 DEF Admit
  <2>4. outcome' \in [Calls -> Outcomes] /\ audited' \subseteq Calls
    BY <1>2 DEF Admit
  <2>5. todo' \in [Calls -> SUBSET Targets] /\ passed' \in [Calls -> SUBSET Targets]
    BY <1>2, <2>1 DEF Admit
  <2> QED
    BY <2>2, <2>3, <2>4, <2>5
<1>3. ASSUME NEW c \in Calls, GateSwitch(c) PROVE TypeOK'
  <2>1. req[c].targets \in SUBSET Targets
    BY <1>3 DEF GateSwitch, Filtered, Requests
  <2>2. UNCHANGED <<config, req, first, gone, switch, launched, late>>
    BY <1>3 DEF GateSwitch
  <2>3. pc' \in [Calls -> Places] /\ confirmed' \in [Calls -> BOOLEAN]
    BY <1>3 DEF GateSwitch
  <2>4. outcome' \in [Calls -> Outcomes] /\ audited' \subseteq Calls
    BY <1>3 DEF GateSwitch
  <2>5. todo' \in [Calls -> SUBSET Targets] /\ passed' \in [Calls -> SUBSET Targets]
    BY <1>3, <2>1 DEF GateSwitch
  <2> QED
    BY <2>2, <2>3, <2>4, <2>5
<1>4. ASSUME NEW c \in Calls, CheckTarget(c) PROVE TypeOK'
  BY <1>4 DEF CheckTarget
<1>5. ASSUME NEW c \in Calls, Refilter(c) PROVE TypeOK'
  BY <1>5 DEF Refilter
<1>6. ASSUME NEW c \in Calls, Launch(c) PROVE TypeOK'
  BY <1>6 DEF Launch
<1>15. ASSUME NEW c \in Calls, Prepare(c) PROVE TypeOK'
  BY <1>15 DEF Prepare
<1>7. ASSUME NEW c \in Calls, ScannerEnds(c) PROVE TypeOK'
  BY <1>7 DEF ScannerEnds
<1>8. ASSUME NEW c \in Calls, ScannerKilled(c) PROVE TypeOK'
  BY <1>8 DEF ScannerKilled
<1>9. ASSUME NEW c \in Calls, Disconnect(c) PROVE TypeOK'
  BY <1>9 DEF Disconnect
<1>10. ASSUME NEW o \in Operators, Activate(o) PROVE TypeOK'
  <2>1. toggles' \in 0..MaxToggles
    BY <1>10 DEF Activate
  <2>2. /\ killed' \in BOOLEAN /\ by' \in Operators \cup {NoOne, "config"}
        /\ killed' <=> by' # NoOne
    BY <1>10 DEF Activate
  <2>3. switching' \in [Operators -> {"none", "activate", "deactivate"}]
    BY <1>10 DEF Activate
  <2>4. late' \in [Calls -> BOOLEAN] /\ overlap' \in BOOLEAN
    BY <1>10 DEF Activate
  <2> QED
    BY <1>10, <2>1, <2>2, <2>3, <2>4 DEF Activate
<1>11. ASSUME NEW o \in Operators, Deactivate(o) PROVE TypeOK'
  <2>1. toggles' \in 0..MaxToggles
    BY <1>11 DEF Deactivate
  <2>2. /\ killed' \in BOOLEAN /\ by' \in Operators \cup {NoOne, "config"}
        /\ killed' <=> by' # NoOne
    BY <1>11 DEF Deactivate
  <2>3. switching' \in [Operators -> {"none", "activate", "deactivate"}]
    BY <1>11 DEF Deactivate
  <2>4. late' \in [Calls -> BOOLEAN] /\ overlap' \in BOOLEAN
    BY <1>11 DEF Deactivate
  <2> QED
    BY <1>11, <2>1, <2>2, <2>3, <2>4 DEF Deactivate
<1>12. ASSUME NEW o \in Operators, RefuseDeactivation(o) PROVE TypeOK'
  BY <1>12 DEF RefuseDeactivation
<1>13. ASSUME NEW o \in Operators, LogSwitch(o) PROVE TypeOK'
  BY <1>13 DEF LogSwitch
<1>14. CASE UNCHANGED vars
  BY <1>14 DEF vars
<1> QED
  BY <1>1, <1>2, <1>3, <1>4, <1>5, <1>6, <1>7, <1>8, <1>9, <1>10,
     <1>11, <1>12, <1>13, <1>14, <1>15 DEF Next, Serve

\* Each filter only lets pass what it was given and what is permitted.
LEMMA StepFiltered == TypeOK /\ Filtered /\ [Next]_vars => Filtered'
<1> SUFFICES ASSUME TypeOK, Filtered, [Next]_vars PROVE Filtered'
  OBVIOUS
<1> USE DEF TypeOK, Goto, End, NotEnded, StartFilter, NoFilter, calls, switch, Filtered
<1>1. ASSUME NEW c \in Calls, Arrive(c) PROVE Filtered'
  BY <1>1 DEF Arrive
<1>2. ASSUME NEW c \in Calls, Admit(c) PROVE Filtered'
  BY <1>2 DEF Admit, Authorized, Requests
<1>3. ASSUME NEW c \in Calls, GateSwitch(c) PROVE Filtered'
  BY <1>3 DEF GateSwitch
<1>4. ASSUME NEW c \in Calls, CheckTarget(c) PROVE Filtered'
  BY <1>4 DEF CheckTarget, Allows
<1>5. ASSUME NEW c \in Calls, Refilter(c) PROVE Filtered'
  BY <1>5 DEF Refilter
<1>6. ASSUME NEW c \in Calls, Launch(c) PROVE Filtered'
  BY <1>6 DEF Launch
<1>15. ASSUME NEW c \in Calls, Prepare(c) PROVE Filtered'
  BY <1>15 DEF Prepare
<1>7. ASSUME NEW c \in Calls, ScannerEnds(c) PROVE Filtered'
  BY <1>7 DEF ScannerEnds
<1>8. ASSUME NEW c \in Calls, ScannerKilled(c) PROVE Filtered'
  BY <1>8 DEF ScannerKilled
<1>9. ASSUME NEW c \in Calls, Disconnect(c) PROVE Filtered'
  BY <1>9 DEF Disconnect
<1>10. ASSUME NEW o \in Operators, Activate(o) PROVE Filtered'
  BY <1>10 DEF Activate
<1>11. ASSUME NEW o \in Operators, Deactivate(o) PROVE Filtered'
  BY <1>11 DEF Deactivate
<1>12. ASSUME NEW o \in Operators, RefuseDeactivation(o) PROVE Filtered'
  BY <1>12 DEF RefuseDeactivation
<1>13. ASSUME NEW o \in Operators, LogSwitch(o) PROVE Filtered'
  BY <1>13 DEF LogSwitch
<1>14. CASE UNCHANGED vars
  BY <1>14 DEF vars
<1> QED
  BY <1>1, <1>2, <1>3, <1>4, <1>5, <1>6, <1>7, <1>8, <1>9, <1>10,
     <1>11, <1>12, <1>13, <1>14, <1>15 DEF Next, Serve

\* Launch starts what the second filter let pass.
LEMMA StepPermitted ==
  TypeOK /\ Filtered /\ LaunchesArePermitted /\ [Next]_vars
    => LaunchesArePermitted'
<1> SUFFICES ASSUME TypeOK, Filtered, LaunchesArePermitted, [Next]_vars
             PROVE  LaunchesArePermitted'
  OBVIOUS
<1> USE DEF TypeOK, Goto, End, NotEnded, StartFilter, NoFilter, calls, switch, Filtered,
            LaunchesArePermitted
<1>1. ASSUME NEW c \in Calls, Arrive(c) PROVE LaunchesArePermitted'
  BY <1>1 DEF Arrive
<1>2. ASSUME NEW c \in Calls, Admit(c) PROVE LaunchesArePermitted'
  BY <1>2 DEF Admit
<1>3. ASSUME NEW c \in Calls, GateSwitch(c) PROVE LaunchesArePermitted'
  BY <1>3 DEF GateSwitch
<1>4. ASSUME NEW c \in Calls, CheckTarget(c) PROVE LaunchesArePermitted'
  BY <1>4 DEF CheckTarget
<1>5. ASSUME NEW c \in Calls, Refilter(c) PROVE LaunchesArePermitted'
  BY <1>5 DEF Refilter
<1>6. ASSUME NEW c \in Calls, Launch(c) PROVE LaunchesArePermitted'
  BY <1>6 DEF Launch
<1>15. ASSUME NEW c \in Calls, Prepare(c) PROVE LaunchesArePermitted'
  BY <1>15 DEF Prepare
<1>7. ASSUME NEW c \in Calls, ScannerEnds(c) PROVE LaunchesArePermitted'
  BY <1>7 DEF ScannerEnds
<1>8. ASSUME NEW c \in Calls, ScannerKilled(c) PROVE LaunchesArePermitted'
  BY <1>8 DEF ScannerKilled
<1>9. ASSUME NEW c \in Calls, Disconnect(c) PROVE LaunchesArePermitted'
  BY <1>9 DEF Disconnect
<1>10. ASSUME NEW o \in Operators, Activate(o) PROVE LaunchesArePermitted'
  BY <1>10 DEF Activate
<1>11. ASSUME NEW o \in Operators, Deactivate(o) PROVE LaunchesArePermitted'
  BY <1>11 DEF Deactivate
<1>12. ASSUME NEW o \in Operators, RefuseDeactivation(o) PROVE LaunchesArePermitted'
  BY <1>12 DEF RefuseDeactivation
<1>13. ASSUME NEW o \in Operators, LogSwitch(o) PROVE LaunchesArePermitted'
  BY <1>13 DEF LogSwitch
<1>14. CASE UNCHANGED vars
  BY <1>14 DEF vars
<1> QED
  BY <1>1, <1>2, <1>3, <1>4, <1>5, <1>6, <1>7, <1>8, <1>9, <1>10,
     <1>11, <1>12, <1>13, <1>14, <1>15 DEF Next, Serve

\* check_url lets nothing pass while the switch is on.
LEMMA StepHalted ==
  TypeOK /\ Filtered /\ Halted /\ KillStopsLaunches /\ [Next]_vars
    => (Halted /\ KillStopsLaunches)'
<1> SUFFICES ASSUME TypeOK, Filtered, Halted, KillStopsLaunches, [Next]_vars
             PROVE  (Halted /\ KillStopsLaunches)'
  OBVIOUS
<1> USE DEF TypeOK, Goto, End, NotEnded, StartFilter, NoFilter, calls, switch, Filtered,
            Halted, KillStopsLaunches
<1>1. ASSUME NEW c \in Calls, Arrive(c) PROVE (Halted /\ KillStopsLaunches)'
  BY <1>1 DEF Arrive
<1>2. ASSUME NEW c \in Calls, Admit(c) PROVE (Halted /\ KillStopsLaunches)'
  BY <1>2 DEF Admit
<1>3. ASSUME NEW c \in Calls, GateSwitch(c) PROVE (Halted /\ KillStopsLaunches)'
  BY <1>3 DEF GateSwitch
<1>4. ASSUME NEW c \in Calls, CheckTarget(c) PROVE (Halted /\ KillStopsLaunches)'
  BY <1>4 DEF CheckTarget, Allows
<1>5. ASSUME NEW c \in Calls, Refilter(c) PROVE (Halted /\ KillStopsLaunches)'
  BY <1>5 DEF Refilter
<1>6. ASSUME NEW c \in Calls, Launch(c) PROVE (Halted /\ KillStopsLaunches)'
  BY <1>6 DEF Launch
<1>15. ASSUME NEW c \in Calls, Prepare(c) PROVE (Halted /\ KillStopsLaunches)'
  BY <1>15 DEF Prepare
<1>7. ASSUME NEW c \in Calls, ScannerEnds(c) PROVE (Halted /\ KillStopsLaunches)'
  BY <1>7 DEF ScannerEnds
<1>8. ASSUME NEW c \in Calls, ScannerKilled(c) PROVE (Halted /\ KillStopsLaunches)'
  BY <1>8 DEF ScannerKilled
<1>9. ASSUME NEW c \in Calls, Disconnect(c) PROVE (Halted /\ KillStopsLaunches)'
  BY <1>9 DEF Disconnect
<1>10. ASSUME NEW o \in Operators, Activate(o) PROVE (Halted /\ KillStopsLaunches)'
  BY <1>10 DEF Activate
<1>11. ASSUME NEW o \in Operators, Deactivate(o) PROVE (Halted /\ KillStopsLaunches)'
  BY <1>11 DEF Deactivate
<1>12. ASSUME NEW o \in Operators, RefuseDeactivation(o) PROVE (Halted /\ KillStopsLaunches)'
  BY <1>12 DEF RefuseDeactivation
<1>13. ASSUME NEW o \in Operators, LogSwitch(o) PROVE (Halted /\ KillStopsLaunches)'
  BY <1>13 DEF LogSwitch
<1>14. CASE UNCHANGED vars
  BY <1>14 DEF vars
<1> QED
  BY <1>1, <1>2, <1>3, <1>4, <1>5, <1>6, <1>7, <1>8, <1>9, <1>10,
     <1>11, <1>12, <1>13, <1>14, <1>15 DEF Next, Serve

\* Only GateSwitch leads gate to its filter.
LEMMA StepAsked ==
  TypeOK /\ Filtered /\ Asked /\ GateIsConfirmed /\ [Next]_vars
    => (Asked /\ GateIsConfirmed)'
<1> SUFFICES ASSUME TypeOK, Filtered, Asked, GateIsConfirmed, [Next]_vars
             PROVE  (Asked /\ GateIsConfirmed)'
  OBVIOUS
<1> USE DEF TypeOK, Goto, End, NotEnded, StartFilter, NoFilter, calls, switch, Filtered,
            Asked, GateIsConfirmed
<1>1. ASSUME NEW c \in Calls, Arrive(c) PROVE (Asked /\ GateIsConfirmed)'
  BY <1>1 DEF Arrive
<1>2. ASSUME NEW c \in Calls, Admit(c) PROVE (Asked /\ GateIsConfirmed)'
  BY <1>2 DEF Admit
<1>3. ASSUME NEW c \in Calls, GateSwitch(c) PROVE (Asked /\ GateIsConfirmed)'
  BY <1>3 DEF GateSwitch
<1>4. ASSUME NEW c \in Calls, CheckTarget(c) PROVE (Asked /\ GateIsConfirmed)'
  BY <1>4 DEF CheckTarget
<1>5. ASSUME NEW c \in Calls, Refilter(c) PROVE (Asked /\ GateIsConfirmed)'
  BY <1>5 DEF Refilter
<1>6. ASSUME NEW c \in Calls, Launch(c) PROVE (Asked /\ GateIsConfirmed)'
  BY <1>6 DEF Launch
<1>15. ASSUME NEW c \in Calls, Prepare(c) PROVE (Asked /\ GateIsConfirmed)'
  BY <1>15 DEF Prepare
<1>7. ASSUME NEW c \in Calls, ScannerEnds(c) PROVE (Asked /\ GateIsConfirmed)'
  BY <1>7 DEF ScannerEnds
<1>8. ASSUME NEW c \in Calls, ScannerKilled(c) PROVE (Asked /\ GateIsConfirmed)'
  BY <1>8 DEF ScannerKilled
<1>9. ASSUME NEW c \in Calls, Disconnect(c) PROVE (Asked /\ GateIsConfirmed)'
  BY <1>9 DEF Disconnect
<1>10. ASSUME NEW o \in Operators, Activate(o) PROVE (Asked /\ GateIsConfirmed)'
  BY <1>10 DEF Activate
<1>11. ASSUME NEW o \in Operators, Deactivate(o) PROVE (Asked /\ GateIsConfirmed)'
  BY <1>11 DEF Deactivate
<1>12. ASSUME NEW o \in Operators, RefuseDeactivation(o) PROVE (Asked /\ GateIsConfirmed)'
  BY <1>12 DEF RefuseDeactivation
<1>13. ASSUME NEW o \in Operators, LogSwitch(o) PROVE (Asked /\ GateIsConfirmed)'
  BY <1>13 DEF LogSwitch
<1>14. CASE UNCHANGED vars
  BY <1>14 DEF vars
<1> QED
  BY <1>1, <1>2, <1>3, <1>4, <1>5, <1>6, <1>7, <1>8, <1>9, <1>10,
     <1>11, <1>12, <1>13, <1>14, <1>15 DEF Next, Serve

\* The parts together.
LEMMA StepLaunchInv == LaunchInv /\ [Next]_vars => LaunchInv'
BY StepTyped, StepFiltered, StepPermitted, StepHalted, StepAsked DEF LaunchInv

\* The state of the specialists and of the switch is well typed; the switch names
\* an activator exactly while it is on (internal/killswitch).
THEOREM SpecialistsTypeCorrect == Spec => []TypeOK
<1>1. LaunchInv => TypeOK
  BY DEF LaunchInv
<1> QED
  BY <1>1, InitLaunchInv, StepLaunchInv, PTL DEF Spec

\* RunBBOT and RunNuclei start a scanner only for targets the call named, both
\* filters let pass, and CheckURL permits, whoever turns the switch meanwhile.
THEOREM SpecialistsPermit == Spec => []LaunchesArePermitted
<1>1. LaunchInv => LaunchesArePermitted
  BY DEF LaunchInv
<1> QED
  BY <1>1, InitLaunchInv, StepLaunchInv, PTL DEF Spec

\* No scanner starts while the switch stays on since the adapter's filter began,
\* although no specialist reads it at the launch (FilterInScope).
THEOREM SpecialistsHalt == Spec => []KillStopsLaunches
<1>1. LaunchInv => KillStopsLaunches
  BY DEF LaunchInv
<1> QED
  BY <1>1, InitLaunchInv, StepLaunchInv, PTL DEF Spec

\* Gate starts Nuclei only when approved and after it saw the switch off
\* (Gate.Run, killSwitchActive).
THEOREM SpecialistsConfirm == Spec => []GateIsConfirmed
<1>1. LaunchInv => GateIsConfirmed
  BY DEF LaunchInv
<1> QED
  BY <1>1, InitLaunchInv, StepLaunchInv, PTL DEF Spec
----------------------------------------------------------------------------
(* The store's log and the switch.                                         *)

Due(o) == switching[o] # "none"

\* Unless the last turn overlapped: at most one entry is due, and it tells the
\* state of the switch; when none is due, the last entry does.
LogFollows ==
  ~overlap =>
    /\ \A o, p \in Operators : Due(o) /\ Due(p) => o = p
    /\ \A o \in Operators : Due(o) => (killed <=> switching[o] = "activate")
    /\ (\A o \in Operators : ~Due(o)) /\ action \in {"activate", "deactivate"}
         => (killed <=> action = "activate")

\* Every step keeps it: an operator that turns the switch while nothing is due
\* is the only one with an entry due.
LEMMA StepLogFollows == TypeOK /\ LogFollows /\ [Next]_vars => LogFollows'
<1> SUFFICES ASSUME TypeOK, LogFollows, [Next]_vars PROVE LogFollows'
  OBVIOUS
<1>t. /\ switching \in [Operators -> {"none", "activate", "deactivate"}]
      /\ killed \in BOOLEAN /\ overlap \in BOOLEAN
  BY DEF TypeOK
<1>1. ASSUME UNCHANGED switch PROVE LogFollows'
  BY <1>1 DEF switch, LogFollows, Due
<1>2. ASSUME NEW c \in Calls,
             Arrive(c) \/ Serve(c) \/ Launch(c) \/ ScannerEnds(c) \/ Disconnect(c)
      PROVE  UNCHANGED switch
  BY <1>2 DEF Arrive, Serve, Admit, GateSwitch, CheckTarget, Refilter, Prepare, Launch,
              ScannerKilled, ScannerEnds, Disconnect
<1>3. ASSUME NEW o \in Operators, Activate(o) \/ Deactivate(o) PROVE LogFollows'
  <2>1. killed' <=> switching'[o] = "activate"
    BY <1>3, <1>t DEF Activate, Deactivate
  <2>2. Due(o)'
    BY <1>3, <1>t DEF Activate, Deactivate, Due
  <2>3. \A p \in Operators \ {o} : ~overlap' => ~Due(p)'
    BY <1>3, <1>t DEF Activate, Deactivate, Due
  <2> QED
    BY <2>1, <2>2, <2>3 DEF LogFollows
<1>4. ASSUME NEW o \in Operators, RefuseDeactivation(o) PROVE LogFollows'
  BY <1>4 DEF RefuseDeactivation, LogFollows, Due
<1>5. ASSUME NEW o \in Operators, LogSwitch(o) PROVE LogFollows'
  <2>1. Due(o) /\ ~Due(o)' /\ action' = switching[o] /\ UNCHANGED <<killed, overlap>>
    BY <1>5, <1>t DEF LogSwitch, Due
  <2>2. \A p \in Operators \ {o} : switching'[p] = switching[p]
    BY <1>5, <1>t DEF LogSwitch
  <2>3. \A p \in Operators : ~overlap => ~Due(p)'
    BY <2>1, <2>2 DEF LogFollows, Due
  <2> QED
    BY <2>1, <2>3 DEF LogFollows
<1>6. CASE UNCHANGED vars
  BY <1>1, <1>6 DEF vars
<1> QED
  BY <1>1, <1>2, <1>3, <1>4, <1>5, <1>6 DEF Next

\* With any number of operators turning the switch and logging it in two steps
\* (handleActivateKillSwitch, handleDeactivateKillSwitch), the log's last entry
\* tells its state once all are in, unless the last turn overlapped another.
THEOREM LogTellsOfTheSwitch == Spec => []LogTellsTheSwitch
<1>1. Init => LogFollows
  BY DEF Init, LogFollows, Due
<1>2. LogFollows => LogTellsTheSwitch
  BY DEF LogFollows, LogTellsTheSwitch, Due
<1>3. LaunchInv => TypeOK
  BY DEF LaunchInv
<1> QED
  BY <1>1, <1>2, <1>3, InitLaunchInv, StepLaunchInv, StepLogFollows, PTL DEF Spec
============================================================================

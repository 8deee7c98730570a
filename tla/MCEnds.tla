------------------------------- MODULE MCEnds -------------------------------
(***************************************************************************)
(* What must come to an end: requests in a proxy whose pin map is roomy    *)
(* (ProxyGate, with the hosts of MCProxyGate), the lockout by a lock file  *)
(* that a crash has left (LockFile), and the start of a server             *)
(* (ServerLife). They share no state, so they are checked side by side: a  *)
(* behaviour runs one of them, and the others rest.                        *)
(***************************************************************************)
EXTENDS MCProxyGate, LockFile, ServerLife

VARIABLE part  \* which module runs

Parts == {"gate", "lock", "servers"}

EndsInit == part \in Parts /\ Init /\ LockInit /\ ServerInit

EndsNext ==
  /\ UNCHANGED part
  /\ \/ part = "gate" /\ Next
     \/ part # "gate" /\ UNCHANGED vars
  /\ \/ part = "lock" /\ LockNext
     \/ part # "lock" /\ UNCHANGED lockVars
  /\ \/ part = "servers" /\ ServerNext
     \/ part # "servers" /\ UNCHANGED serverVars

LockRuns == part = "lock"

\* The fairness of each. Requests and servers that rest have no step to take; processes
\* that rest are not asked to take the lock.
EndsSpec ==
  /\ EndsInit /\ [][EndsNext]_<<part, vars, lockVars, serverVars>>
  /\ \A r \in Reqs : WF_vars(Serve(r))
  /\ \A p \in Procs : WF_lockVars(LockRuns /\ (Acquire(p) \/ Unlock(p)))
  /\ WF_lockVars(LockRuns /\ GrowStale)
  /\ ServerFairness
============================================================================

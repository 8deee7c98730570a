----------------------------- MODULE RateLimiter -----------------------------
(***************************************************************************)
(* The per-host rate limiter (PerHostLimiter in internal/ratelimit), under *)
(* concurrent calls: AllowN finds or creates a host's bucket under one     *)
(* lock and takes tokens from it under another, and Reset may drop the     *)
(* bucket in between. ProxyGate has the limiter as one step of a request.  *)
(*                                                                         *)
(* Time is counted in ticks, and whole tokens are refilled at each; the    *)
(* code's floating-point refill is the same at multiples of a tick. A      *)
(* bucket's "last" is the time of the last call on it, refused or not.     *)
(***************************************************************************)
EXTENDS Integers, FiniteSetsExt

CONSTANTS
  LimitedHosts, \* hosts
  Callers,      \* goroutines that call Allow
  Rate, Burst,  \* tokens per tick, and at most
  MaxTime,      \* bound: ticks
  MaxResets     \* bound: calls of Reset and ResetAll, for each host

ASSUME RateAssumption ==
  /\ {Rate, Burst, MaxTime, MaxResets} \subseteq Nat
  /\ "no bucket" \notin LimitedHosts

NoBucket == "no bucket"

VARIABLES
  buckets, \* the map from hosts to buckets; a bucket is its host and a number
  tokens,  \* tokens of each bucket ever made, in the map or not
  last,    \* when each was last called on
  made,    \* buckets made so far, for each host
  caller,  \* what each call does
  now,     \* time
  resets,  \* resets so far, for each host
  granted  \* history: tokens granted up to each time, for each host

rateVars == <<buckets, tokens, last, made, caller, now, resets, granted>>

\* Every bucket there may be: one for each reset, caller and the first.
Numbers == 1..(1 + MaxResets)
Times == 0..MaxTime

Waiting == [at |-> "idle", host |-> NoBucket, bucket |-> 0]

RateInit ==
  /\ buckets = [h \in LimitedHosts |-> 0]
  /\ tokens = [h \in LimitedHosts |-> [b \in Numbers |-> 0]]
  /\ last = [h \in LimitedHosts |-> [b \in Numbers |-> 0]]
  /\ made = [h \in LimitedHosts |-> 0]
  /\ caller = [c \in Callers |-> Waiting]
  /\ now = 0
  /\ resets = [h \in LimitedHosts |-> 0]
  /\ granted = [h \in LimitedHosts |-> [t \in Times |-> 0]]

Holds(c, h, b) == caller' = [caller EXCEPT ![c] = [at |-> "take", host |-> h, bucket |-> b]]

\* getOrCreateBucket, under the read lock.
Find(c, h) ==
  /\ caller[c].at = "idle"
  /\ IF buckets[h] # 0
       THEN Holds(c, h, buckets[h])
       ELSE caller' = [caller EXCEPT ![c] = [at |-> "make", host |-> h, bucket |-> 0]]
  /\ UNCHANGED <<buckets, tokens, last, made, now, resets, granted>>

\* A full bucket for h, the next that is made.
Make(c, h) ==
  LET b == made[h] + 1
  IN  /\ b \in Numbers
      /\ buckets' = [buckets EXCEPT ![h] = b]
      /\ tokens' = [tokens EXCEPT ![h][b] = Burst]
      /\ last' = [last EXCEPT ![h][b] = now]
      /\ made' = [made EXCEPT ![h] = b]
      /\ Holds(c, h, b)
      /\ UNCHANGED <<now, resets, granted>>

\* Under the write lock the map is looked at again.
FindOrMake(c) ==
  /\ caller[c].at = "make"
  /\ LET h == caller[c].host
     IN  IF buckets[h] # 0
           THEN /\ Holds(c, h, buckets[h])
                /\ UNCHANGED <<buckets, tokens, last, made, now, resets, granted>>
           ELSE Make(c, h)

\* One token is granted now.
OneMore(total) == [t \in Times |-> IF t >= now THEN total[t] + 1 ELSE total[t]]

\* Mutant: a refill does not note the time, so the same time is counted again.
TakeForgetsTheTime(c) ==
  /\ caller[c].at = "take"
  /\ LET h == caller[c].host
         b == caller[c].bucket
         full == Min({tokens[h][b] + (now - last[h][b]) * Rate, Burst})
     IN  /\ tokens' = [tokens EXCEPT ![h][b] = IF full > 0 THEN full - 1 ELSE 0]
         /\ last' = [last EXCEPT ![h][b] = @]
         /\ granted' = IF full > 0 THEN [granted EXCEPT ![h] = OneMore(@)] ELSE granted
  /\ caller' = [caller EXCEPT ![c] = Waiting]
  /\ UNCHANGED <<buckets, made, now, resets>>

\* The rest of AllowN, under the bucket's own lock: refill, and take one token.
Take(c) ==
  /\ caller[c].at = "take"
  /\ LET h == caller[c].host
         b == caller[c].bucket
         full == Min({tokens[h][b] + (now - last[h][b]) * Rate, Burst})
     IN  /\ tokens' = [tokens EXCEPT ![h][b] = IF full > 0 THEN full - 1 ELSE 0]
         /\ last' = [last EXCEPT ![h][b] = now]
         /\ granted' = IF full > 0 THEN [granted EXCEPT ![h] = OneMore(@)] ELSE granted
  /\ caller' = [caller EXCEPT ![c] = Waiting]
  /\ UNCHANGED <<buckets, made, now, resets>>

\* Reset of one host. Its bucket lives on with the calls that hold it.
Reset(h) ==
  /\ resets[h] < MaxResets
  /\ buckets' = [buckets EXCEPT ![h] = 0]
  /\ resets' = [resets EXCEPT ![h] = @ + 1]
  /\ UNCHANGED <<tokens, last, made, caller, now, granted>>

ResetAll ==
  /\ \A h \in LimitedHosts : resets[h] < MaxResets
  /\ buckets' = [h \in LimitedHosts |-> 0]
  /\ resets' = [h \in LimitedHosts |-> resets[h] + 1]
  /\ UNCHANGED <<tokens, last, made, caller, now, granted>>

Tick ==
  /\ now < MaxTime
  /\ now' = now + 1
  /\ UNCHANGED <<buckets, tokens, last, made, caller, resets, granted>>

RateNext ==
  \/ \E c \in Callers :
       (\E h \in LimitedHosts : Find(c, h)) \/ FindOrMake(c) \/ Take(c)
  \/ \E h \in LimitedHosts : Reset(h)
  \/ ResetAll \/ Tick

RateSpec == RateInit /\ [][RateNext]_rateVars
----------------------------------------------------------------------------
\* Buckets, calls and counts are of their kinds; no bucket has more than Burst.
RateTypeOK ==
  /\ buckets \in [LimitedHosts -> {0} \cup Numbers]
  /\ tokens \in [LimitedHosts -> [Numbers -> 0..Burst]]
  /\ last \in [LimitedHosts -> [Numbers -> Times]]
  /\ made \in [LimitedHosts -> {0} \cup Numbers]
  /\ caller \in [Callers -> [at : {"idle", "make", "take"},
                              host : LimitedHosts \cup {NoBucket}, bucket : {0} \cup Numbers]]
  /\ now \in Times
  /\ resets \in [LimitedHosts -> 0..MaxResets]
  /\ granted \in [LimitedHosts -> [Times -> Nat]]

\* However many calls race to be a host's first, it has one bucket until it is reset.
OneBucketPerReset ==
  \A h \in LimitedHosts : made[h] <= 1 + resets[h]

\* Tokens granted to h from time s to time t.
GrantedIn(h, s, t) == granted[h][t] - (IF s = 0 THEN 0 ELSE granted[h][s - 1])

\* In every stretch of time a host that is not reset is granted no more than a full
\* bucket and what is refilled meanwhile; each reset may double that, since calls that
\* hold the old bucket go on taking from it.
GrantsWithinRate ==
  \A h \in LimitedHosts, s, t \in Times :
    s <= t => GrantedIn(h, s, t) <= (1 + resets[h]) * (Burst + (t - s) * Rate)

\* Holds not: a reset adds one full bucket and no more. A call that found the bucket
\* before the reset takes from it what is refilled after it.
ResetAddsOneBurst ==
  \A h \in LimitedHosts :
    GrantedIn(h, 0, now) <= (1 + resets[h]) * Burst + now * Rate
============================================================================

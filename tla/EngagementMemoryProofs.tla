----------------------- MODULE EngagementMemoryProofs -----------------------
(***************************************************************************)
(* Proofs about the engagement memory, for any callers, hosts, sources and *)
(* lengths of calls: a host has one asset, in the store and in the slice a *)
(* call is working on, wherever the array has moved; between calls an asset*)
(* has the times it was recorded at; and a recall, which reads without the *)
(* lock, has every host it had to have, at times that are its own.         *)
(***************************************************************************)
EXTENDS EngagementMemory, TLAPS, Recursion

AssetCall == [stamp : Times, source : CallSources, hosts : HostLists, left : Seq(Hosts)]

\* The clock, the assets and the calls have their types.
Typed ==
  /\ now \in Times
  /\ assets \in Seq(Stored) /\ existing \in Seq(Stored)
  /\ call \in [Callers -> AssetCall \cup {NoCall}]
  /\ pc \in [Callers -> {"idle", "lock", "upsert", "findings", "tested", "read"}]
  /\ \A c \in Callers : pc[c] \in {"lock", "upsert"} => call[c] \in AssetCall

\* A call works on the assets while it holds the lock.
Locked == \A c \in Callers : writer = c <=> pc[c] = "upsert"

Unique(list) == \A i, j \in DOMAIN list : list[i].host = list[j].host => i = j

\* Its slice begins with the hosts of the store's, in their order.
Extends ==
  writer # NoOne =>
    /\ Len(assets) <= Len(existing)
    /\ \A i \in 1..Len(assets) : assets[i].host = existing[i].host

MemoryInv == Typed /\ Locked /\ Unique(assets) /\ Unique(existing) /\ Extends
----------------------------------------------------------------------------
\* Find returns an index of the host, or 0 if the list does not have it.
LEMMA FindFinds ==
  ASSUME NEW list \in Seq(Stored), NEW h
  PROVE  \/ Find(list, h) = 0 /\ \A i \in DOMAIN list : list[i].host # h
         \/ Find(list, h) \in DOMAIN list /\ list[Find(list, h)].host = h
<1> DEFINE at == {i \in DOMAIN list : list[i].host = h}
<1>1. CASE at = {}
  BY <1>1 DEF Find
<1>2. CASE at # {}
  <2>1. Find(list, h) = Min(at)
    BY <1>2 DEF Find
  <2>2. at \subseteq Nat /\ at \subseteq DOMAIN list /\ \A i \in at : list[i].host = h
    OBVIOUS
  <2> HIDE DEF at
  <2>5. \E x \in at : \A y \in at : x <= y
    BY <1>2, <2>2, LeastNumber
  <2>6. Min(at) \in at
    BY <2>5 DEF Min
  <2> QED
    BY <2>1, <2>2, <2>6
<1> QED
  BY <1>1, <1>2

\* What a caller names as a source is a list of sources.
LEMMA SourceListed ==
  ASSUME NEW source \in CallSources PROVE source \in Seq(Sources)
<1>1. \A s \in Sources : <<s>> \in Seq(Sources)
  OBVIOUS
<1>2. NoSource \in Seq(Sources)
  BY DEF NoSource
<1> QED
  BY <1>1, <1>2 DEF CallSources

\* What RecordAssets stores about a host is an asset of that host.
LEMMA NewStored ==
  ASSUME MemoryInv, NEW c \in Callers, call[c] \in AssetCall, NEW h \in Hosts
  PROVE  New(c, h) \in Stored /\ New(c, h).host = h
<1>1. call[c].source \in Seq(Sources)
  BY SourceListed DEF AssetCall
<1> QED
  BY <1>1 DEF New, Stored, AssetCall

\* An asset that is seen again keeps its host.
LEMMA UpdatedStored ==
  ASSUME MemoryInv, NEW c \in Callers, call[c] \in AssetCall, NEW a \in Stored
  PROVE  Updated(c, a) \in Stored /\ Updated(c, a).host = a.host
<1>1. call[c].source \in Seq(Sources) /\ call[c].stamp \in Times
  BY SourceListed DEF AssetCall
<1>2. mergeSource(a.source, call[c].source) \in Seq(Sources)
  BY <1>1 DEF mergeSource, Stored
<1> QED
  BY <1>1, <1>2 DEF Updated, Stored

\* Changing an element without changing its host keeps a list unique.
LEMMA ChangeKeeps ==
  ASSUME NEW list \in Seq(Stored), NEW i \in DOMAIN list, NEW new \in Stored,
         new.host = list[i].host, Unique(list),
         NEW changed, changed = [list EXCEPT ![i] = new]
  PROVE  /\ changed \in Seq(Stored) /\ Unique(changed) /\ Len(changed) = Len(list)
         /\ \A j \in 1..Len(list) : changed[j].host = list[j].host
<1>1. /\ changed \in Seq(Stored) /\ Len(changed) = Len(list)
      /\ \A j \in 1..Len(list) : changed[j].host = list[j].host
  OBVIOUS
<1> QED
  BY <1>1 DEF Unique

\* At first the store is empty and nobody calls.
LEMMA MemoryInit == Init => MemoryInv
<1> SUFFICES ASSUME Init PROVE MemoryInv
  OBVIOUS
<1>1. Typed
  BY MemoryAssumption DEF Init, Typed, Times
<1>2. Locked /\ Extends
  BY MemoryAssumption DEF Init, Locked, Extends
<1>3. Unique(<< >>)
  BY DEF Unique
<1> QED
  BY <1>1, <1>2, <1>3 DEF Init, MemoryInv

\* A step that leaves the assets alone.
LEMMA MemoryElsewhere ==
  ASSUME MemoryInv, UNCHANGED <<assets, existing, writer, call>>, now' \in Times,
         pc' \in [Callers -> {"idle", "lock", "upsert", "findings", "tested", "read"}],
         \A c \in Callers : pc'[c] = pc[c]
                              \/ {pc'[c], pc[c]} \cap {"lock", "upsert"} = {}
  PROVE  MemoryInv'
<1>1. Typed'
  BY DEF MemoryInv, Typed
<1>2. Locked' /\ Extends'
  BY DEF MemoryInv, Typed, Locked, Extends
<1>3. Unique(assets)' /\ Unique(existing)'
  BY DEF MemoryInv, Unique
<1> QED
  BY <1>1, <1>2, <1>3 DEF MemoryInv

\* Upsert changes the element of its host or appends one.
LEMMA MemoryUpsert ==
  ASSUME MemoryInv, NEW c \in Callers, Upsert(c) PROVE MemoryInv'
<1> DEFINE h == Head(call[c].left)
           i == Find(existing, h)
<1>1. /\ call[c] \in AssetCall /\ h \in Hosts /\ Tail(call[c].left) \in Seq(Hosts)
      /\ writer # NoOne
  BY MemoryAssumption DEF Upsert, MemoryInv, Typed, Locked, AssetCall
<1>2. assets \in Seq(Stored) /\ existing \in Seq(Stored) /\ Extends
      /\ Unique(assets) /\ Unique(existing)
  BY DEF MemoryInv, Typed
<1>3. /\ call' = [call EXCEPT ![c].left = Tail(@)]
      /\ UNCHANGED <<now, pc, writer>>
  BY DEF Upsert
<1>4. call' \in [Callers -> AssetCall \cup {NoCall}]
      /\ \A d \in Callers : pc'[d] \in {"lock", "upsert"} => call'[d] \in AssetCall
  BY <1>1, <1>3 DEF MemoryInv, Typed, AssetCall
<1>5. CASE i # 0 /\ Change(i, Updated(c, existing[i]))
  <2> DEFINE new == Updated(c, existing[i])
  <2>1. i \in DOMAIN existing
    BY <1>2, <1>5, FindFinds
  <2>2. new \in Stored /\ new.host = existing[i].host
    BY <1>1, <1>2, <2>1, UpdatedStored
  <2> HIDE DEF new, i
  <2>3. existing' = [existing EXCEPT ![i] = new]
    BY <1>5 DEF Change, new
  <2>4. /\ existing' \in Seq(Stored) /\ Unique(existing') /\ Len(existing') = Len(existing)
        /\ \A j \in 1..Len(existing) : existing'[j].host = existing[j].host
    BY <1>2, <2>1, <2>2, <2>3, ChangeKeeps DEF Unique
  <2>5. /\ assets' \in Seq(Stored) /\ Unique(assets') /\ Len(assets') = Len(assets)
        /\ \A j \in 1..Len(assets) : assets'[j].host = assets[j].host
    <3>1. CASE assets' = assets
      BY <1>2, <3>1
    <3>2. CASE i <= Len(assets) /\ assets' = [assets EXCEPT ![i] = new]
      <4>1. i \in DOMAIN assets /\ new.host = assets[i].host
        BY <1>1, <1>2, <2>1, <2>2, <3>2 DEF Extends
      <4> QED
        BY <1>2, <2>2, <3>2, <4>1, ChangeKeeps DEF Unique
    <3>3. Len(assets) \in Nat /\ i \in Nat
      BY <1>2, <2>1
    <3> QED
      BY <1>5, <3>1, <3>2, <3>3 DEF Change, new
  <2>6. Extends'
    BY <1>1, <1>2, <1>3, <2>4, <2>5 DEF Extends
  <2>7. Typed' /\ Locked'
    BY <1>3, <1>4, <2>4, <2>5 DEF MemoryInv, Typed, Locked
  <2> QED
    BY <2>4, <2>5, <2>6, <2>7 DEF MemoryInv, Unique
<1>6. CASE i = 0 /\ existing' = Append(existing, New(c, h)) /\ UNCHANGED assets
  <2> DEFINE new == New(c, h)
  <2>1. new \in Stored /\ new.host = h
    BY <1>1, NewStored
  <2>2. \A j \in DOMAIN existing : existing[j].host # h
    BY <1>2, <1>6, FindFinds
  <2> HIDE DEF new
  <2>3. existing' = Append(existing, new)
    BY <1>6 DEF new
  <2>4. existing' \in Seq(Stored) /\ Unique(existing')
    BY <1>2, <2>1, <2>2, <2>3 DEF Unique
  <2>5. Extends'
    BY <1>1, <1>2, <1>3, <1>6, <2>1, <2>3 DEF Extends
  <2>6. Typed' /\ Locked'
    BY <1>2, <1>3, <1>4, <1>6, <2>4 DEF MemoryInv, Typed, Locked
  <2> QED
    BY <1>2, <1>6, <2>4, <2>5, <2>6 DEF MemoryInv, Unique
<1> QED
  BY <1>5, <1>6 DEF Upsert

\* Every step keeps the invariant.
LEMMA MemoryNext == MemoryInv /\ [Next]_vars => MemoryInv'
<1> SUFFICES ASSUME MemoryInv, [Next]_vars PROVE MemoryInv'
  OBVIOUS
<1>0. /\ now \in Times
      /\ pc \in [Callers -> {"idle", "lock", "upsert", "findings", "tested", "read"}]
  BY DEF MemoryInv, Typed
<1> USE DEF store, lock, reader, Goto
<1>1. CASE Tick
  <2>1. now' \in Times
    BY <1>0, <1>1, MemoryAssumption DEF Tick, Times
  <2> QED
    BY <1>0, <1>1, <2>1, MemoryElsewhere DEF Tick
<1>2. ASSUME NEW c \in Callers, RecordAssets(c) PROVE MemoryInv'
  <2>1. PICK hosts \in HostLists, source \in CallSources :
          call' = [call EXCEPT ![c] = [stamp |-> now, source |-> source,
                                       hosts |-> hosts, left |-> hosts]]
    BY <1>2 DEF RecordAssets
  <2>2. hosts \in Seq(Hosts)
    BY MemoryAssumption DEF HostLists
  <2>3. [stamp |-> now, source |-> source, hosts |-> hosts, left |-> hosts] \in AssetCall
    BY <1>0, <2>2 DEF AssetCall
  <2>4. Typed'
    BY <1>2, <2>1, <2>3 DEF RecordAssets, MemoryInv, Typed
  <2>5. Locked' /\ Extends'
    BY <1>0, <1>2 DEF RecordAssets, MemoryInv, Locked, Extends
  <2>6. Unique(assets)' /\ Unique(existing)'
    BY <1>2 DEF RecordAssets, MemoryInv, Unique
  <2> QED
    BY <2>4, <2>5, <2>6 DEF MemoryInv
<1>3. ASSUME NEW c \in Callers, Lock(c) PROVE MemoryInv'
  <2>1. Typed'
    BY <1>3 DEF Lock, MemoryInv, Typed
  <2>2. Locked'
    BY <1>0, <1>3, MemoryAssumption DEF Lock, MemoryInv, Locked
  <2>3. Extends'
    BY <1>3 DEF Lock, MemoryInv, Typed, Extends
  <2>4. Unique(assets)' /\ Unique(existing)'
    BY <1>3 DEF Lock, MemoryInv, Unique
  <2> QED
    BY <2>1, <2>2, <2>3, <2>4 DEF MemoryInv
<1>4. ASSUME NEW c \in Callers, Upsert(c) PROVE MemoryInv'
  BY <1>4, MemoryUpsert
<1>5. ASSUME NEW c \in Callers, Unlock(c) PROVE MemoryInv'
  <2>1. Typed'
    BY <1>5 DEF Unlock, MemoryInv, Typed
  <2>2. Locked' /\ Extends'
    BY <1>0, <1>5, MemoryAssumption DEF Unlock, MemoryInv, Locked, Extends
  <2>3. Unique(assets)' /\ Unique(existing)'
    BY <1>5 DEF Unlock, MemoryInv, Unique
  <2> QED
    BY <2>1, <2>2, <2>3 DEF MemoryInv
<1>6. ASSUME NEW c \in Callers, RecordFinding(c) \/ MarkTested(c) PROVE MemoryInv'
  BY <1>0, <1>6, MemoryElsewhere DEF RecordFinding, MarkTested, Append1
<1>7. ASSUME NEW c \in Callers, Recall(c) \/ GetFindings(c) \/ GetTested(c)
      PROVE  MemoryInv'
  BY <1>0, <1>7, MemoryElsewhere DEF Recall, GetFindings, GetTested
<1>8. ASSUME NEW c \in Callers, BeginCopy(c) \/ EndCopy(c) \/ Return(c)
      PROVE  MemoryInv'
  BY <1>0, <1>8, MemoryElsewhere DEF BeginCopy, EndCopy, Return, Recalled
<1>9. CASE UNCHANGED vars
  BY <1>0, <1>9, MemoryElsewhere DEF vars
<1> QED
  BY <1>1, <1>2, <1>3, <1>4, <1>5, <1>6, <1>7, <1>8, <1>9 DEF Next

\* A host has one asset, however calls overlap, name hosts twice and move the
\* array (the upsert of RecordAssets, store.go:72).
THEOREM MemoryOneAsset == Spec => []OneAssetPerHost
<1>1. MemoryInv => OneAssetPerHost
  BY DEF MemoryInv, Unique, OneAssetPerHost
<1> QED
  BY <1>1, MemoryInit, MemoryNext, PTL DEF Spec
----------------------------------------------------------------------------
(* The times of an asset are those it was recorded at.                     *)

\* The hosts a call has been through.
Done(c) == {call[c].hosts[i] : i \in 1..(Len(call[c].hosts) - Len(call[c].left))}

\* When each host was recorded, by the finished calls and the one at work.
Told ==
  [h \in Hosts |-> recorded[h] \cup (IF writer # NoOne /\ h \in Done(writer)
                                      THEN {call[writer].stamp} ELSE {})]

\* A list has the hosts that were recorded, with the first time and one of them.
TrueTo(list, told) ==
  /\ \A h \in Hosts : told[h] # {} => \E i \in DOMAIN list : list[i].host = h
  /\ \A i \in DOMAIN list :
       /\ {list[i].first, list[i].last} \subseteq told[list[i].host]
       /\ \A t \in told[list[i].host] : list[i].first <= t

\* What a call still has to do is the end of what it was given.
Suffix(hosts, left) ==
  /\ Len(left) <= Len(hosts)
  /\ \A i \in 1..Len(left) : left[i] = hosts[Len(hosts) - Len(left) + i]

SeenInv ==
  /\ recorded \in [Hosts -> SUBSET Times]
  /\ writer \in Callers \cup {NoOne}
  /\ \A c \in Callers : pc[c] = "lock" => call[c].left = call[c].hosts
  /\ \A c \in Callers : pc[c] = "upsert" => Suffix(call[c].hosts, call[c].left)
  /\ writer = NoOne => TrueTo(assets, recorded)
  /\ writer # NoOne => TrueTo(existing, Told)

\* An asset seen again is true to one more time.
LEMMA TrueChanged ==
  ASSUME NEW list \in Seq(Stored), Unique(list), NEW told \in [Hosts -> SUBSET Times],
         TrueTo(list, told), NEW i \in DOMAIN list, NEW stamp \in Times,
         NEW new \in Stored, new.host = list[i].host, new.last = stamp,
         new.first = IF stamp < list[i].first THEN stamp ELSE list[i].first,
         NEW told2, told2 = [told EXCEPT ![list[i].host] = @ \cup {stamp}],
         NEW changed, changed = [list EXCEPT ![i] = new]
  PROVE  TrueTo(changed, told2)
<1>1. /\ DOMAIN changed = DOMAIN list /\ changed[i] = new
      /\ \A j \in DOMAIN list : j # i => changed[j] = list[j]
      /\ \A j \in DOMAIN list : list[j] \in Stored
  OBVIOUS
<1>2. /\ told2[list[i].host] = told[list[i].host] \cup {stamp}
      /\ \A h \in Hosts : h # list[i].host => told2[h] = told[h]
  BY <1>1 DEF Stored
<1>3. \A j \in DOMAIN list : changed[j].host = list[j].host
  BY <1>1
<1>4. ASSUME NEW h \in Hosts, told2[h] # {}
      PROVE  \E j \in DOMAIN changed : changed[j].host = h
  BY <1>1, <1>2, <1>3, <1>4 DEF TrueTo
<1>5. ASSUME NEW j \in DOMAIN list, j # i
      PROVE  /\ {changed[j].first, changed[j].last} \subseteq told2[changed[j].host]
             /\ \A t \in told2[changed[j].host] : changed[j].first <= t
  <2>1. list[j].host # list[i].host /\ list[j].host \in Hosts
    BY <1>1, <1>5 DEF Unique, Stored
  <2>2. changed[j] = list[j]
    BY <1>5
  <2>3. told2[list[j].host] = told[list[j].host]
    BY <1>2, <2>1
  <2>4. /\ {list[j].first, list[j].last} \subseteq told[list[j].host]
        /\ \A t \in told[list[j].host] : list[j].first <= t
    BY DEF TrueTo
  <2> QED
    BY <2>2, <2>3, <2>4
<1>6. /\ {new.first, new.last} \subseteq told2[new.host]
      /\ \A t \in told2[new.host] : new.first <= t
  <2>1. /\ list[i].first \in told[list[i].host]
        /\ \A t \in told[list[i].host] : list[i].first <= t
    BY DEF TrueTo
  <2>2. /\ stamp \in Nat /\ list[i].first \in Nat
        /\ \A t \in told[list[i].host] : t \in Nat
    <3>1. Times \subseteq Nat
      BY MemoryAssumption DEF Times
    <3>2. list[i].host \in Hosts /\ list[i].first \in Times
      BY <1>1 DEF Stored
    <3>3. told[list[i].host] \subseteq Times
      BY <3>2
    <3> QED
      BY <3>1, <3>2, <3>3, Zenon
  <2>3. new.first \in told2[new.host] /\ new.last \in told2[new.host]
    <3>1. new.first \in {stamp, list[i].first} /\ new.last = stamp
      BY Zenon
    <3>2. new.host = list[i].host
      OBVIOUS
    <3> QED
      BY <1>2, <2>1, <3>1, <3>2, Zenon
  <2>4. ASSUME NEW t \in told[list[i].host] \cup {stamp} PROVE new.first <= t
    <3>1. list[i].first <= t \/ t = stamp
      BY <2>1
    <3>2. t \in Nat
      BY <2>2
    <3>3. new.first = IF stamp < list[i].first THEN stamp ELSE list[i].first
      BY Zenon
    <3> QED
      BY <2>2, <3>1, <3>2, <3>3
  <2> QED
    BY <1>2, <2>3, <2>4
<1> QED
  BY <1>1, <1>4, <1>5, <1>6 DEF TrueTo

\* A host that is new to the list was never recorded before.
LEMMA TrueAppended ==
  ASSUME NEW list \in Seq(Stored), NEW told \in [Hosts -> SUBSET Times],
         TrueTo(list, told), NEW stamp \in Times, NEW h \in Hosts,
         \A i \in DOMAIN list : list[i].host # h,
         NEW new \in Stored, new.host = h, new.first = stamp, new.last = stamp,
         NEW told2, told2 = [told EXCEPT ![h] = @ \cup {stamp}]
  PROVE  TrueTo(Append(list, new), told2)
<1> DEFINE longer == Append(list, new)
<1>1. /\ DOMAIN longer = DOMAIN list \cup {Len(list) + 1}
      /\ longer[Len(list) + 1] = new
      /\ \A j \in DOMAIN list : longer[j] = list[j] /\ list[j] \in Stored
  OBVIOUS
<1>2. told2[h] = {stamp} /\ \A g \in Hosts : g # h => told2[g] = told[g]
  BY DEF TrueTo
<1> HIDE DEF longer
<1>3. \A g \in Hosts : told2[g] # {} => \E j \in DOMAIN longer : longer[j].host = g
  BY <1>1, <1>2 DEF TrueTo
<1>4. \A j \in DOMAIN list :
        /\ {longer[j].first, longer[j].last} \subseteq told2[longer[j].host]
        /\ \A t \in told2[longer[j].host] : longer[j].first <= t
  BY <1>1, <1>2 DEF TrueTo, Stored
<1>5. /\ {new.first, new.last} \subseteq told2[new.host]
      /\ \A t \in told2[new.host] : new.first <= t
  BY <1>2, MemoryAssumption DEF Times
<1> QED
  BY <1>1, <1>3, <1>4, <1>5 DEF TrueTo, longer

\* A list is the end of itself; and its tail is the end of what it is the end of.
LEMMA SuffixTail ==
  ASSUME NEW hosts \in Seq(Hosts), NEW left \in Seq(Hosts)
  PROVE  /\ left = hosts => Suffix(hosts, left)
         /\ Suffix(hosts, left) /\ left # << >> =>
              /\ Suffix(hosts, Tail(left))
              /\ Len(hosts) - Len(left) \in Nat
              /\ Len(Tail(left)) = Len(left) - 1
              /\ Head(left) = hosts[Len(hosts) - Len(left) + 1]
<1>1. Len(hosts) \in Nat /\ Len(left) \in Nat
  OBVIOUS
<1>2. ASSUME left = hosts PROVE Suffix(hosts, left)
  <2>1. \A i \in 1..Len(left) : Len(hosts) - Len(left) + i = i
    BY <1>1, <1>2
  <2> QED
    BY <1>1, <1>2, <2>1 DEF Suffix
<1>3. ASSUME Suffix(hosts, left), left # << >>
      PROVE  /\ Suffix(hosts, Tail(left))
             /\ Len(hosts) - Len(left) \in Nat
             /\ Len(Tail(left)) = Len(left) - 1
             /\ Head(left) = hosts[Len(hosts) - Len(left) + 1]
  <2>1. Len(left) # 0 /\ Len(left) <= Len(hosts)
    BY <1>3 DEF Suffix
  <2>2. /\ Len(Tail(left)) = Len(left) - 1 /\ Head(left) = left[1]
        /\ \A i \in 1..(Len(left) - 1) : Tail(left)[i] = left[i + 1]
    BY <1>3
  <2>3. \A i \in 1..Len(left) : left[i] = hosts[Len(hosts) - Len(left) + i]
    BY <1>3 DEF Suffix
  <2>4. ASSUME NEW i \in 1..(Len(left) - 1)
        PROVE  Tail(left)[i] = hosts[Len(hosts) - (Len(left) - 1) + i]
    <3>1. i + 1 \in 1..Len(left)
      BY <1>1, <2>4
    <3>2. Len(hosts) - Len(left) + (i + 1) = Len(hosts) - (Len(left) - 1) + i
      BY <1>1, <2>4
    <3> QED
      BY <2>2, <2>3, <3>1, <3>2
  <2>5. Suffix(hosts, Tail(left))
    BY <1>1, <2>1, <2>2, <2>4 DEF Suffix
  <2>6. 1 \in 1..Len(left)
    BY <1>1, <2>1
  <2> QED
    BY <1>1, <2>1, <2>2, <2>3, <2>5, <2>6
<1> QED
  BY <1>2, <1>3

\* Going on to the next host of a call adds its clock reading to that host.
LEMMA ToldGrows ==
  ASSUME MemoryInv, SeenInv, NEW c \in Callers, Upsert(c)
  PROVE  /\ Told \in [Hosts -> SUBSET Times]
         /\ Told' = [Told EXCEPT ![Head(call[c].left)] = @ \cup {call[c].stamp}]
         /\ Suffix(call[c].hosts, call[c].left)'
<1> DEFINE hosts == call[c].hosts
           left == call[c].left
           n == Len(hosts) - Len(left)
<1>1. /\ call[c] \in AssetCall /\ pc[c] = "upsert" /\ writer = c /\ left # << >>
      /\ call \in [Callers -> AssetCall \cup {NoCall}]
  BY DEF Upsert, MemoryInv, Typed, Locked
<1>2. hosts \in Seq(Hosts) /\ left \in Seq(Hosts) /\ call[c].stamp \in Times
  BY <1>1 DEF AssetCall, HostLists
<1>3. Suffix(hosts, left)
  BY <1>1 DEF SeenInv
<1>4. /\ call'[c].hosts = hosts /\ call'[c].left = Tail(left)
      /\ call'[c].stamp = call[c].stamp /\ UNCHANGED <<writer, recorded>>
  BY <1>1 DEF Upsert, AssetCall
<1>5. /\ Len(hosts) \in Nat /\ Len(left) \in Nat /\ Len(left) > 0 /\ n \in Nat
      /\ Len(Tail(left)) = Len(left) - 1
      /\ Head(left) = hosts[n + 1]
      /\ Head(left) \in Hosts
  <2> HIDE DEF hosts, left
  <2> QED
    BY <1>1, <1>2, <1>3, SuffixTail DEF n
<1>6. Suffix(hosts, Tail(left))
  <2> HIDE DEF hosts, left
  <2> QED
    BY <1>1, <1>2, <1>3, SuffixTail
<1> HIDE DEF hosts, left
<1>7. {hosts[i] : i \in 1..(Len(hosts) - Len(Tail(left)))}
        = {hosts[i] : i \in 1..n} \cup {Head(left)}
  <2>1. 1..(Len(hosts) - Len(Tail(left))) = 1..n \cup {n + 1}
    BY <1>5
  <2> QED
    BY <1>5, <2>1
<1>8. Done(c)' = Done(c) \cup {Head(left)}
  BY <1>4, <1>7 DEF Done, hosts, left
<1>9. /\ Told = [h \in Hosts |-> recorded[h] \cup (IF h \in Done(c)
                                                     THEN {call[c].stamp} ELSE {})]
      /\ Told' = [h \in Hosts |-> recorded[h] \cup (IF h \in Done(c)'
                                                      THEN {call[c].stamp} ELSE {})]
  BY <1>1, <1>4, MemoryAssumption DEF Told, Done
<1>10. Told \in [Hosts -> SUBSET Times]
  BY <1>2, <1>9 DEF SeenInv
<1>11. Told' = [Told EXCEPT ![Head(left)] = @ \cup {call[c].stamp}]
  BY <1>5, <1>8, <1>9
<1> QED
  BY <1>4, <1>6, <1>10, <1>11 DEF hosts, left

\* Upsert keeps the times true.
LEMMA SeenUpsert ==
  ASSUME MemoryInv, SeenInv, NEW c \in Callers, Upsert(c) PROVE SeenInv'
<1> DEFINE h == Head(call[c].left)
           i == Find(existing, h)
           stamp == call[c].stamp
<1>1. /\ call[c] \in AssetCall /\ h \in Hosts /\ writer = c /\ writer # NoOne
      /\ existing \in Seq(Stored) /\ Unique(existing) /\ stamp \in Times
  BY MemoryAssumption DEF Upsert, MemoryInv, Typed, Locked, AssetCall
<1>2. TrueTo(existing, Told)
  BY <1>1 DEF SeenInv
<1>3. /\ Told \in [Hosts -> SUBSET Times]
      /\ Told' = [Told EXCEPT ![h] = @ \cup {stamp}]
      /\ Suffix(call[c].hosts, call[c].left)'
  BY ToldGrows
<1>4. /\ UNCHANGED <<writer, recorded, pc>> /\ pc[c] = "upsert"
      /\ \A d \in Callers : d # c => call'[d] = call[d]
  BY DEF Upsert, MemoryInv, Typed
<1>5. TrueTo(existing, Told)'
  <2>1. CASE i # 0 /\ Change(i, Updated(c, existing[i]))
    <3> DEFINE new == Updated(c, existing[i])
    <3>1. i \in DOMAIN existing /\ existing[i].host = h
      BY <1>1, <2>1, FindFinds
    <3>2. new \in Stored /\ new.host = h
      BY <1>1, <3>1, UpdatedStored
    <3>3. /\ new.last = stamp
          /\ new.first = IF stamp < existing[i].first THEN stamp ELSE existing[i].first
      BY <1>1, <3>1 DEF Updated, Stored
    <3>4. existing' = [existing EXCEPT ![i] = new]
      BY <2>1 DEF Change
    <3> HIDE DEF new, i, h, stamp
    <3>5. TrueTo(existing', Told')
      BY <1>1, <1>2, <1>3, <3>1, <3>2, <3>3, <3>4, TrueChanged
    <3> QED
      BY <3>5 DEF TrueTo
  <2>2. CASE i = 0 /\ existing' = Append(existing, New(c, h))
    <3> DEFINE new == New(c, h)
    <3>1. \A j \in DOMAIN existing : existing[j].host # h
      BY <1>1, <2>2, FindFinds
    <3>2. new \in Stored /\ new.host = h /\ new.first = stamp /\ new.last = stamp
      BY <1>1, NewStored DEF New
    <3> HIDE DEF new, i, h, stamp
    <3>3. existing' = Append(existing, new)
      BY <2>2 DEF new
    <3>4. TrueTo(existing', Told')
      BY <1>1, <1>2, <1>3, <3>1, <3>2, <3>3, TrueAppended
    <3> QED
      BY <3>4 DEF TrueTo
  <2> QED
    BY <2>1, <2>2 DEF Upsert
<1>6. \A d \in Callers : pc'[d] = "upsert" => Suffix(call[d].hosts, call[d].left)'
  <2>1. ASSUME NEW d \in Callers, pc'[d] = "upsert"
        PROVE  Suffix(call'[d].hosts, call'[d].left)
    <3>1. Suffix(call[d].hosts, call[d].left)
      BY <1>4, <2>1 DEF SeenInv
    <3>2. CASE d # c
      BY <1>4, <3>1, <3>2
    <3>3. CASE d = c
      BY <1>3, <3>3 DEF Suffix
    <3> QED
      BY <3>2, <3>3
  <2> QED
    BY <2>1 DEF Suffix
<1>7. \A d \in Callers : pc'[d] = "lock" => call'[d].left = call'[d].hosts
  BY <1>4 DEF SeenInv
<1> QED
  BY <1>1, <1>4, <1>5, <1>6, <1>7 DEF SeenInv

\* What was told is the same while the writer and its call are.
LEMMA ToldSteady ==
  ASSUME UNCHANGED <<writer, recorded>>, writer # NoOne => call'[writer] = call[writer]
  PROVE  Told' = Told
BY DEF Told, Done

\* A step that leaves the assets and the calls at work alone.
LEMMA SeenElsewhere ==
  ASSUME MemoryInv, SeenInv, UNCHANGED <<assets, existing, writer, call, recorded>>,
         \A c \in Callers : pc'[c] = pc[c] \/ pc'[c] \notin {"lock", "upsert"}
  PROVE  SeenInv'
<1>1. Told' = Told
  BY DEF Told, Done
<1>2. (writer = NoOne => TrueTo(assets, recorded))'
  BY DEF SeenInv, TrueTo
<1>3. (writer # NoOne => TrueTo(existing, Told))'
  BY <1>1 DEF SeenInv, TrueTo
<1> QED
  BY <1>2, <1>3 DEF SeenInv, Suffix

\* Every step keeps them true.
LEMMA SeenNext == MemoryInv /\ SeenInv /\ [Next]_vars => SeenInv'
<1> SUFFICES ASSUME MemoryInv, SeenInv, [Next]_vars PROVE SeenInv'
  OBVIOUS
<1>0. pc \in [Callers -> {"idle", "lock", "upsert", "findings", "tested", "read"}]
  BY DEF MemoryInv, Typed
<1>i. /\ recorded \in [Hosts -> SUBSET Times] /\ writer \in Callers \cup {NoOne}
      /\ \A d \in Callers : pc[d] = "lock" => call[d].left = call[d].hosts
      /\ \A d \in Callers : pc[d] = "upsert" => Suffix(call[d].hosts, call[d].left)
      /\ writer = NoOne => TrueTo(assets, recorded)
      /\ writer # NoOne => TrueTo(existing, Told)
  BY DEF SeenInv
<1>s. ASSUME recorded' \in [Hosts -> SUBSET Times], writer' \in Callers \cup {NoOne},
             \A d \in Callers : pc'[d] = "lock" => call'[d].left = call'[d].hosts,
             \A d \in Callers : pc'[d] = "upsert" => Suffix(call'[d].hosts, call'[d].left),
             writer' = NoOne => TrueTo(assets', recorded'),
             writer' # NoOne => TrueTo(existing', Told')
      PROVE  SeenInv'
  BY <1>s DEF SeenInv, Suffix, TrueTo
<1> USE DEF store, lock, reader, Goto
<1>1. CASE Tick
  BY <1>0, <1>1, SeenElsewhere DEF Tick
<1>2. ASSUME NEW c \in Callers, RecordAssets(c) PROVE SeenInv'
  <2>1. pc[c] = "idle" /\ writer # c
    BY <1>2 DEF RecordAssets, MemoryInv, Locked
  <2>2. PICK hosts \in HostLists, source \in CallSources :
          call' = [call EXCEPT ![c] = [stamp |-> now, source |-> source,
                                       hosts |-> hosts, left |-> hosts]]
    BY <1>2 DEF RecordAssets
  <2>3. \A d \in Callers : d # c => call'[d] = call[d] /\ pc'[d] = pc[d]
    BY <1>2, <2>2 DEF RecordAssets, MemoryInv, Typed
  <2>4. UNCHANGED <<assets, existing, writer, recorded>> /\ pc'[c] = "lock"
    BY <1>0, <1>2 DEF RecordAssets
  <2>5. call'[c].left = call'[c].hosts
    BY <2>2 DEF MemoryInv, Typed
  <2>6. ASSUME writer # NoOne PROVE TrueTo(existing', Told')
    <3>1. writer \in Callers /\ writer # c
      BY <1>i, <2>1, <2>6
    <3>2. Done(writer)' = Done(writer) /\ call'[writer] = call[writer]
      BY <2>3, <2>4, <3>1 DEF Done
    <3>3. Told' = Told
      BY <2>4, <3>2, ToldSteady
    <3> QED
      BY <1>i, <2>4, <2>6, <3>3
  <2>7. \A d \in Callers :
          pc'[d] = "upsert" => Suffix(call'[d].hosts, call'[d].left)
    BY <1>i, <2>3, <2>4
  <2>8. writer' = NoOne => TrueTo(assets', recorded')
    BY <1>i, <2>4
  <2>9. \A d \in Callers : pc'[d] = "lock" => call'[d].left = call'[d].hosts
    BY <1>i, <2>3, <2>5
  <2> QED
    BY <1>i, <1>s, <2>4, <2>6, <2>7, <2>8, <2>9
<1>3. ASSUME NEW c \in Callers, Lock(c) PROVE SeenInv'
  <2>1. /\ writer = NoOne /\ writer' = c /\ existing' = assets
        /\ UNCHANGED <<recorded, call>>
        /\ pc' = [pc EXCEPT ![c] = "upsert"] /\ pc[c] = "lock"
    BY <1>3 DEF Lock
  <2>2. call[c].left = call[c].hosts /\ call[c].hosts \in Seq(Hosts)
    BY <1>i, <2>1 DEF MemoryInv, Typed, AssetCall, HostLists
  <2>3. Done(c)' = {}
    BY <2>1, <2>2 DEF Done
  <2>4. recorded \in [Hosts -> SUBSET Times] /\ TrueTo(assets, recorded)
    BY <1>i, <2>1
  <2>5. Told' = [h \in Hosts |-> recorded[h]]
    BY <2>1, <2>3, MemoryAssumption DEF Told
  <2>6. TrueTo(existing', Told')
    <3>1. Told' = recorded
      BY <2>4, <2>5
    <3> QED
      BY <2>1, <2>4, <3>1
  <2>7. Suffix(call'[c].hosts, call'[c].left)
    <3>1. Suffix(call[c].hosts, call[c].left)
      BY <2>2, SuffixTail
    <3> QED
      BY <2>1, <3>1
  <2>8. \A d \in Callers : d # c => pc'[d] = pc[d]
    BY <1>0, <2>1
  <2>9. \A d \in Callers : pc'[d] = "lock" => call'[d].left = call'[d].hosts
    BY <1>0, <1>i, <2>1
  <2>10. \A d \in Callers :
          pc'[d] = "upsert" => Suffix(call'[d].hosts, call'[d].left)
    <3>1. \A d \in Callers : d # c /\ pc'[d] = "upsert" => Suffix(call'[d].hosts, call'[d].left)
      BY <1>i, <2>1, <2>8
    <3> QED
      BY <2>7, <3>1
  <2>11. recorded' \in [Hosts -> SUBSET Times] /\ writer' \in Callers /\ writer' # NoOne
    BY <2>1, <2>4, MemoryAssumption
  <2> QED
    BY <1>s, <2>6, <2>9, <2>10, <2>11
<1>4. ASSUME NEW c \in Callers, Upsert(c) PROVE SeenInv'
  BY <1>4, SeenUpsert
<1>5. ASSUME NEW c \in Callers, Unlock(c) PROVE SeenInv'
  <2>1. /\ writer = c /\ writer # NoOne /\ call[c] \in AssetCall
        /\ call[c].left = << >> /\ call[c].hosts \in Seq(Hosts)
    BY <1>5, MemoryAssumption DEF Unlock, MemoryInv, Typed, Locked, AssetCall, HostLists
  <2>2. Done(c) = ToSet(call[c].hosts)
    BY <2>1 DEF Done, ToSet
  <2>3. recorded' = Told
    <3>1. Told = [h \in Hosts |-> recorded[h] \cup (IF h \in ToSet(call[c].hosts)
                                                      THEN {call[c].stamp} ELSE {})]
      BY <2>1, <2>2 DEF Told
    <3>2. recorded' = [h \in Hosts |-> IF h \in ToSet(call[c].hosts)
                                         THEN recorded[h] \cup {call[c].stamp}
                                         ELSE recorded[h]]
      BY <1>5 DEF Unlock
    <3>3. \A h \in Hosts : recorded'[h] = Told[h]
      BY <3>1, <3>2
    <3> QED
      BY <3>1, <3>2, <3>3
  <2>4. TrueTo(assets', recorded')
    <3>1. assets' = existing
      BY <1>5 DEF Unlock
    <3> QED
      BY <1>i, <2>1, <2>3, <3>1
  <2>5. recorded' \in [Hosts -> SUBSET Times]
    <3>1. call[c].stamp \in Times
      BY <2>1 DEF AssetCall
    <3> QED
      BY <1>5, <1>i, <3>1 DEF Unlock
  <2>6. \A d \in Callers : d # c => pc'[d] = pc[d] /\ call'[d] = call[d]
    BY <1>5 DEF Unlock, MemoryInv, Typed
  <2>7. pc'[c] = "idle" /\ writer' = NoOne
    BY <1>0, <1>5 DEF Unlock
  <2>8. \A d \in Callers :
          pc'[d] = "upsert" => Suffix(call'[d].hosts, call'[d].left)
    BY <1>i, <2>6, <2>7
  <2>9. \A d \in Callers : pc'[d] = "lock" => call'[d].left = call'[d].hosts
    BY <1>i, <2>6, <2>7
  <2> QED
    BY <1>s, <2>4, <2>5, <2>7, <2>8, <2>9
<1>6. ASSUME NEW c \in Callers, RecordFinding(c) \/ MarkTested(c) PROVE SeenInv'
  BY <1>0, <1>6, SeenElsewhere DEF RecordFinding, MarkTested, Append1
<1>7. ASSUME NEW c \in Callers, Recall(c) \/ GetFindings(c) \/ GetTested(c)
      PROVE  SeenInv'
  BY <1>0, <1>7, SeenElsewhere DEF Recall, GetFindings, GetTested
<1>8. ASSUME NEW c \in Callers, BeginCopy(c) \/ EndCopy(c) \/ Return(c)
      PROVE  SeenInv'
  BY <1>0, <1>8, SeenElsewhere DEF BeginCopy, EndCopy, Return, Recalled
<1>9. CASE UNCHANGED vars
  BY <1>0, <1>9, SeenElsewhere DEF vars
<1> QED
  BY <1>1, <1>2, <1>3, <1>4, <1>5, <1>6, <1>7, <1>8, <1>9 DEF Next

\* Between calls the store tells when each host was first recorded, and one of
\* its times as the last, although a call reads the clock before it takes the
\* lock (RecordAssets, store.go:151) and may come late.
THEOREM MemoryTellsTimes == Spec => []SeenTimesAreTrue
<1>1. MemoryInv /\ SeenInv => SeenTimesAreTrue
  <2> SUFFICES ASSUME MemoryInv, SeenInv, writer = NoOne
               PROVE  /\ {assets[i].host : i \in DOMAIN assets}
                           = {h \in Hosts : recorded[h] # {}}
                      /\ \A i \in DOMAIN assets :
                           /\ assets[i].first = Min(recorded[assets[i].host])
                           /\ assets[i].last \in recorded[assets[i].host]
    BY DEF SeenTimesAreTrue
  <2>1. TrueTo(assets, recorded) /\ recorded \in [Hosts -> SUBSET Times]
    BY DEF SeenInv
  <2>2. \A i \in DOMAIN assets : assets[i].host \in Hosts
    <3>1. assets \in Seq(Stored)
      BY DEF MemoryInv, Typed
    <3>2. \A i \in DOMAIN assets : assets[i] \in Stored
      BY <3>1
    <3> QED
      BY <3>2 DEF Stored
  <2>3. {assets[i].host : i \in DOMAIN assets} = {h \in Hosts : recorded[h] # {}}
    BY <2>1, <2>2 DEF TrueTo
  <2>4. ASSUME NEW i \in DOMAIN assets
        PROVE  assets[i].first = Min(recorded[assets[i].host])
    <3> DEFINE times == recorded[assets[i].host]
               first == assets[i].first
    <3>1. first \in times /\ \A t \in times : first <= t
      BY <2>1 DEF TrueTo
    <3>2. \A t \in times : t \in Nat
      BY <2>1, <2>2 DEF Times
    <3> HIDE DEF times, first
    <3>3. \A x \in times : (\A t \in times : x <= t) => x = first
      BY <3>1, <3>2
    <3>4. Min(times) = first
      BY <3>1, <3>3 DEF Min
    <3> QED
      BY <3>4 DEF times, first
  <2> QED
    BY <2>1, <2>3, <2>4 DEF TrueTo
<1>2. Init => SeenInv
  <2> SUFFICES ASSUME Init PROVE SeenInv
    OBVIOUS
  <2>1. TrueTo(assets, recorded)
    BY DEF Init, TrueTo
  <2> QED
    BY <2>1 DEF Init, SeenInv
<1> QED
  BY <1>1, <1>2, MemoryInit, MemoryNext, SeenNext, PTL DEF Spec
----------------------------------------------------------------------------
(* What a recall reads, without the lock.                                  *)

\* An asset of host h with times h was recorded at.
Fits(a, h) == a \in Stored /\ a.host = h /\ {a.first, a.last} \subseteq Told[h]

\* The array in the store, and the element that is being changed in it.
ArrayInv ==
  /\ findings \in Nat /\ tested \in Nat
  /\ moved \in BOOLEAN /\ live \in [Callers -> BOOLEAN]
  /\ \A i \in DOMAIN assets : Fits(assets[i], assets[i].host)
  /\ changing.at # 0 =>
       changing.at \in DOMAIN assets /\ Fits(changing.was, assets[changing.at].host)
  /\ writer = NoOne => changing.at = 0

\* What a recall was given: the store's own array keeps the hosts where they are.
Given(c) ==
  /\ view[c] \in Seq(Stored) /\ Unique(view[c])
  /\ \A i \in DOMAIN view[c] : Fits(view[c][i], view[c][i].host)
  /\ live[c] =>
       /\ Len(view[c]) <= Len(assets)
       /\ \A i \in 1..Len(view[c]) : view[c][i].host = assets[i].host

\* What it has copied, and the values of the asset it is copying.
Copied(c) ==
  /\ got[c] \in [assets : Seq(Read), findings : Nat, tested : Nat]
  /\ Len(got[c].assets) <= Len(view[c])
  /\ \A i \in 1..Len(got[c].assets) :
       /\ got[c].assets[i].host = view[c][i].host
       /\ {got[c].assets[i].first, got[c].assets[i].last} \subseteq Told[view[c][i].host]
  /\ \A a \in mix[c] :
       /\ Len(got[c].assets) + 1 <= Len(view[c])
       /\ Fits(a, view[c][Len(got[c].assets) + 1].host)
  /\ pc[c] # "read" => got[c].assets = << >> /\ mix[c] = {}

\* What it had to have is in what it was given and in the counts it has read.
Needs(c) ==
  /\ needed[c].findings \in Nat /\ needed[c].tested \in Nat
  /\ pc[c] \in {"findings", "tested", "read"} =>
       /\ needed[c].hosts \subseteq {view[c][i].host : i \in DOMAIN view[c]}
       /\ needed[c].findings <= findings /\ needed[c].tested <= tested
  /\ pc[c] \in {"tested", "read"} => needed[c].findings <= got[c].findings
  /\ pc[c] = "read" => needed[c].tested <= got[c].tested

Functions ==
  /\ view = [c \in Callers |-> view[c]] /\ mix = [c \in Callers |-> mix[c]]
  /\ got = [c \in Callers |-> got[c]] /\ needed = [c \in Callers |-> needed[c]]

ReaderInv == Functions /\ \A c \in Callers : Given(c) /\ Copied(c) /\ Needs(c)

Grows == \A h \in Hosts : Told[h] \subseteq Told'[h]

\* An asset that fits goes on fitting.
LEMMA FitsOn ==
  ASSUME Grows, NEW a, NEW h, Fits(a, h) PROVE Fits(a, h)'
BY DEF Fits, Grows, Stored

\* A recall that is left alone, while the array only gets longer or another.
LEMMA ReaderKept ==
  ASSUME NEW c \in Callers, Given(c), Copied(c), Needs(c), Grows,
         view'[c] = view[c], mix'[c] = mix[c], got'[c] = got[c], needed'[c] = needed[c],
         pc'[c] = pc[c] \/ (pc[c] \notin {"findings", "tested", "read"}
                              /\ pc'[c] \notin {"findings", "tested", "read"}),
         findings \in Nat, tested \in Nat, findings' \in Nat, tested' \in Nat,
         findings <= findings', tested <= tested',
         assets \in Seq(Stored), assets' \in Seq(Stored),
         live'[c] => /\ live[c] /\ Len(assets) <= Len(assets')
                     /\ \A i \in 1..Len(assets) : assets'[i].host = assets[i].host
  PROVE  (Given(c) /\ Copied(c) /\ Needs(c))'
<1>1. view[c] \in Seq(Stored) /\ \A i \in DOMAIN view[c] : view[c][i] \in Stored
  BY DEF Given
<1>2. Given(c)'
  <2>1. ASSUME NEW i \in DOMAIN view[c] PROVE Fits(view[c][i], view[c][i].host)'
    <3>1. Fits(view[c][i], view[c][i].host)
      BY DEF Given
    <3>2. PICK a : a = view[c][i] /\ a = view'[c][i]
      OBVIOUS
    <3>3. Fits(a, a.host)'
      BY <3>1, <3>2, FitsOn
    <3> QED
      BY <3>2, <3>3 DEF Fits
  <2>2. live'[c] =>
          /\ Len(view[c]) <= Len(assets')
          /\ \A i \in 1..Len(view[c]) : view[c][i].host = assets'[i].host
    <3>1. Len(view[c]) \in Nat /\ Len(assets) \in Nat /\ Len(assets') \in Nat
      BY <1>1
    <3> QED
      BY <3>1 DEF Given
  <2>3. Unique(view[c])'
    BY DEF Given, Unique
  <2> QED
    BY <1>1, <2>1, <2>2, <2>3 DEF Given
<1>3. Copied(c)'
  <2>1. Len(got[c].assets) \in Nat /\ Len(view[c]) \in Nat
    BY <1>1 DEF Copied
  <2>2. \A i \in 1..Len(got[c].assets) : view[c][i].host \in Hosts
    <3>1. Len(got[c].assets) <= Len(view[c])
      BY DEF Copied
    <3>2. \A i \in 1..Len(got[c].assets) : i \in 1..Len(view[c])
      BY <2>1, <3>1
    <3>3. \A i \in 1..Len(view[c]) : view[c][i] \in Stored
      BY <1>1
    <3>4. \A a \in Stored : a.host \in Hosts
      BY DEF Stored
    <3> QED
      BY <3>2, <3>3, <3>4, Zenon
  <2>3. ASSUME NEW a \in mix[c]
        PROVE  /\ Len(got[c].assets) + 1 <= Len(view[c])
               /\ Fits(a, view[c][Len(got[c].assets) + 1].host)'
    <3>1. /\ Len(got[c].assets) + 1 <= Len(view[c])
          /\ Fits(a, view[c][Len(got[c].assets) + 1].host)
      BY DEF Copied
    <3> QED
      BY <3>1, FitsOn DEF Fits
  <2>4. \A i \in 1..Len(got[c].assets) :
          {got[c].assets[i].first, got[c].assets[i].last} \subseteq Told'[view[c][i].host]
    BY <2>2 DEF Copied, Grows
  <2>5. pc'[c] # "read" => got'[c].assets = << >> /\ mix'[c] = {}
    BY DEF Copied
  <2> QED
    BY <2>3, <2>4, <2>5 DEF Copied
<1>4. Needs(c)'
  BY DEF Needs
<1> QED
  BY <1>2, <1>3, <1>4

\* Then it grows, too.
LEMMA ToldSame ==
  ASSUME UNCHANGED <<writer, recorded>>, writer # NoOne => call'[writer] = call[writer]
  PROVE  Told' = Told /\ Grows
BY ToldSteady DEF Grows

\* Taking the lock tells nothing yet, and releasing it tells nothing new.
LEMMA ToldAtLock ==
  ASSUME MemoryInv, SeenInv, SeenInv', NEW c \in Callers, Lock(c) \/ Unlock(c)
  PROVE  Told' = Told /\ Grows
<1> USE DEF store, lock, reader, Goto
<1>1. CASE Lock(c)
  <2>1. /\ writer = NoOne /\ writer' = c /\ writer' # NoOne /\ UNCHANGED <<recorded, call>>
        /\ pc[c] = "lock"
    BY <1>1, MemoryAssumption DEF Lock
  <2>2. call[c].left = call[c].hosts /\ call[c].hosts \in Seq(Hosts)
    BY <2>1 DEF SeenInv, MemoryInv, Typed, AssetCall, HostLists
  <2>3. Done(c)' = {}
    BY <2>1, <2>2 DEF Done
  <2>4. Told' = Told
    BY <2>1, <2>3 DEF Told
  <2> QED
    BY <2>4 DEF Grows
<1>2. CASE Unlock(c)
  <2>1. /\ writer = c /\ writer # NoOne /\ writer' = NoOne
        /\ call[c].left = << >> /\ call[c].hosts \in Seq(Hosts)
    <3>1. pc[c] = "upsert" /\ call[c].left = << >> /\ writer' = NoOne
      BY <1>2 DEF Unlock
    <3>2. writer = c /\ call[c] \in AssetCall
      BY <3>1 DEF MemoryInv, Typed, Locked
    <3> QED
      BY <3>1, <3>2, MemoryAssumption DEF AssetCall, HostLists
  <2>2. Done(c) = ToSet(call[c].hosts)
    BY <2>1 DEF Done, ToSet
  <2>3. \A h \in Hosts : recorded'[h] = Told[h]
    <3>1. recorded' = [h \in Hosts |-> IF h \in ToSet(call[c].hosts)
                                         THEN recorded[h] \cup {call[c].stamp}
                                         ELSE recorded[h]]
      BY <1>2 DEF Unlock
    <3> QED
      BY <2>1, <2>2, <3>1 DEF Told
  <2>4. Told' = [h \in Hosts |-> recorded'[h]]
    BY <2>1 DEF Told
  <2>5. Told' = Told
    BY <2>3, <2>4 DEF Told
  <2> QED
    BY <2>5 DEF Grows
<1> QED
  BY <1>1, <1>2


\* The own steps of a recall leave the store, the writer and the others alone.
LEMMA ReaderAlone ==
  ASSUME MemoryInv, ArrayInv, ReaderInv, MemoryInv', NEW c \in Callers,
         UNCHANGED <<store, lock, call, recorded>>,
         live' \in [Callers -> BOOLEAN], Functions',
         \A d \in Callers : d # c =>
           /\ view'[d] = view[d] /\ mix'[d] = mix[d] /\ got'[d] = got[d]
           /\ needed'[d] = needed[d] /\ live'[d] = live[d] /\ pc'[d] = pc[d],
         (Given(c) /\ Copied(c) /\ Needs(c))'
  PROVE  ArrayInv' /\ ReaderInv'
<1>1. Told' = Told /\ Grows
  BY ToldSame DEF lock
<1>2. UNCHANGED <<assets, findings, tested, changing, moved, writer>>
  BY DEF store, lock
<1>3. ArrayInv'
  BY <1>1, <1>2 DEF ArrayInv, Fits
<1>4. ASSUME NEW d \in Callers, d # c PROVE (Given(d) /\ Copied(d) /\ Needs(d))'
  <2>1. Given(d) /\ Copied(d) /\ Needs(d)
    BY DEF ReaderInv
  <2>2. findings \in Nat /\ tested \in Nat /\ assets \in Seq(Stored)
    BY DEF ArrayInv, MemoryInv, Typed
  <2>3. findings <= findings' /\ tested <= tested'
    BY <1>2, <2>2
  <2> QED
    BY <1>1, <1>2, <1>4, <2>1, <2>2, <2>3, ReaderKept
<1> QED
  BY <1>3, <1>4 DEF ReaderInv

\* A step that leaves what the recalls have alone.
LEMMA ReaderLeft ==
  ASSUME MemoryInv, ArrayInv, ReaderInv, MemoryInv', ArrayInv', Grows,
         UNCHANGED <<view, mix, got, needed>>,
         findings <= findings', tested <= tested',
         \A d \in Callers :
           \/ pc'[d] = pc[d]
           \/ {pc[d], pc'[d]} \cap {"findings", "tested", "read"} = {},
         \A d \in Callers : live'[d] =>
           /\ live[d] /\ Len(assets) <= Len(assets')
           /\ \A i \in 1..Len(assets) : assets'[i].host = assets[i].host
  PROVE  ReaderInv'
<1>1. Functions'
  BY DEF ReaderInv, Functions
<1>2. /\ findings \in Nat /\ tested \in Nat /\ findings' \in Nat /\ tested' \in Nat
      /\ assets \in Seq(Stored) /\ assets' \in Seq(Stored)
  BY DEF ArrayInv, MemoryInv, Typed
<1>3. ASSUME NEW d \in Callers PROVE (Given(d) /\ Copied(d) /\ Needs(d))'
  <2>1. Given(d) /\ Copied(d) /\ Needs(d)
    BY DEF ReaderInv
  <2>2. /\ view'[d] = view[d] /\ mix'[d] = mix[d] /\ got'[d] = got[d]
        /\ needed'[d] = needed[d]
    OBVIOUS
  <2>3. \/ pc'[d] = pc[d]
        \/ pc[d] \notin {"findings", "tested", "read"}
             /\ pc'[d] \notin {"findings", "tested", "read"}
    OBVIOUS
  <2> QED
    BY <1>2, <2>1, <2>2, <2>3, ReaderKept
<1> QED
  BY <1>1, <1>3 DEF ReaderInv

\* Recall is given the store's slice, which has what had been recorded.
LEMMA ReaderRecall ==
  ASSUME MemoryInv, SeenInv, ArrayInv, ReaderInv, MemoryInv', NEW c \in Callers, Recall(c)
  PROVE  ArrayInv' /\ ReaderInv'
<1> USE DEF Goto
<1>1. /\ writer = NoOne /\ pc[c] = "idle" /\ pc' = [pc EXCEPT ![c] = "findings"]
      /\ view' = [view EXCEPT ![c] = assets] /\ live' = [live EXCEPT ![c] = TRUE]
      /\ needed' = [needed EXCEPT ![c] = [hosts |-> {h \in Hosts : recorded[h] # {}},
                                           findings |-> findings, tested |-> tested]]
      /\ UNCHANGED <<store, lock, call, mix, got, recorded>>
  BY DEF Recall
<1>2. /\ view \in [Callers -> {view[d] : d \in Callers}]
      /\ needed \in [Callers -> {needed[d] : d \in Callers}]
      /\ pc'[c] = "findings" /\ view'[c] = assets
      /\ needed'[c] = [hosts |-> {h \in Hosts : recorded[h] # {}},
                       findings |-> findings, tested |-> tested]
      /\ \A d \in Callers : d # c =>
           /\ view'[d] = view[d] /\ mix'[d] = mix[d] /\ got'[d] = got[d]
           /\ needed'[d] = needed[d] /\ live'[d] = live[d] /\ pc'[d] = pc[d]
  BY <1>1 DEF MemoryInv, Typed, ReaderInv, Functions, ArrayInv
<1>3. Functions' /\ live' \in [Callers -> BOOLEAN]
  BY <1>1 DEF ReaderInv, Functions, ArrayInv
<1>4. Told' = Told /\ UNCHANGED <<assets, findings, tested>>
  BY <1>1, ToldSame DEF lock, store
<1>5. Given(c)'
  <2>1. assets \in Seq(Stored) /\ Unique(assets) /\ Len(assets) <= Len(assets)
    BY DEF MemoryInv, Typed
  <2>2. \A i \in DOMAIN assets : Fits(assets[i], assets[i].host)'
    BY <1>4 DEF ArrayInv, Fits
  <2> QED
    BY <1>2, <1>4, <2>1, <2>2 DEF Given, Unique
<1>6. Copied(c)'
  <2>1. got'[c] = got[c] /\ mix'[c] = mix[c]
    BY <1>1
  <2>2. /\ got[c] \in [assets : Seq(Read), findings : Nat, tested : Nat]
        /\ got[c].assets = << >> /\ mix[c] = {}
    BY <1>1 DEF ReaderInv, Copied
  <2>3. assets \in Seq(Stored) /\ Len(assets) >= 0
    BY DEF MemoryInv, Typed
  <2> QED
    BY <1>2, <2>1, <2>2, <2>3 DEF Copied
<1>7. Needs(c)'
  <2>1. TrueTo(assets, recorded)
    BY <1>1 DEF SeenInv
  <2>2. {h \in Hosts : recorded[h] # {}} \subseteq {assets[i].host : i \in DOMAIN assets}
    BY <2>1 DEF TrueTo
  <2>3. /\ findings \in Nat /\ tested \in Nat
        /\ findings <= findings /\ tested <= tested
    BY DEF ArrayInv
  <2>4. /\ needed'[c].hosts = {h \in Hosts : recorded[h] # {}}
        /\ needed'[c].findings = findings /\ needed'[c].tested = tested
    BY <1>2
  <2>5. needed'[c].hosts \subseteq {view'[c][i].host : i \in DOMAIN view'[c]}
    BY <1>2, <2>2, <2>4
  <2>6. findings' = findings /\ tested' = tested /\ pc'[c] = "findings"
    BY <1>2, <1>4
  <2> QED
    BY <2>3, <2>4, <2>5, <2>6 DEF Needs
<1> QED
  BY <1>1, <1>2, <1>3, <1>5, <1>6, <1>7, ReaderAlone

\* GetFindings and GetTested are given the numbers of that moment.
LEMMA ReaderGet ==
  ASSUME MemoryInv, ArrayInv, ReaderInv, MemoryInv', NEW c \in Callers,
         GetFindings(c) \/ GetTested(c)
  PROVE  ArrayInv' /\ ReaderInv'
<1> USE DEF Goto
<1>1. UNCHANGED <<store, lock, call, view, live, mix, needed, recorded>>
  BY DEF GetFindings, GetTested
<1>2. /\ got = [d \in Callers |-> got[d]]
      /\ got[c] \in [assets : Seq(Read), findings : Nat, tested : Nat]
      /\ pc[c] # "read" /\ got[c].assets = << >> /\ mix[c] = {}
      /\ findings \in Nat /\ tested \in Nat
      /\ Given(c) /\ Copied(c) /\ Needs(c)
  BY DEF ReaderInv, Functions, Copied, ArrayInv, GetFindings, GetTested
<1>3. /\ got'[c].assets = << >>
      /\ got'[c] \in [assets : Seq(Read), findings : Nat, tested : Nat]
      /\ \A d \in Callers : d # c => got'[d] = got[d] /\ pc'[d] = pc[d]
      /\ got' = [d \in Callers |-> got'[d]]
  <2>1. \A d \in Callers : d # c => pc'[d] = pc[d]
    BY DEF GetFindings, GetTested, MemoryInv, Typed
  <2>2. \/ got' = [got EXCEPT ![c].findings = findings]
        \/ got' = [got EXCEPT ![c].tested = tested]
    BY DEF GetFindings, GetTested
  <2>3. \/ got'[c] = [got[c] EXCEPT !.findings = findings]
        \/ got'[c] = [got[c] EXCEPT !.tested = tested]
    BY <1>2, <2>2
  <2>4. /\ \A d \in Callers : d # c => got'[d] = got[d]
        /\ got' = [d \in Callers |-> got'[d]]
    BY <1>2, <2>2
  <2> QED
    BY <1>2, <2>1, <2>3, <2>4
<1>4. Functions' /\ live' \in [Callers -> BOOLEAN]
  BY <1>1, <1>3 DEF ReaderInv, Functions, ArrayInv
<1>5. Told' = Told /\ UNCHANGED <<assets, findings, tested>>
  BY <1>1, ToldSame DEF lock, store
<1>6. Given(c)'
  BY <1>1, <1>2, <1>5 DEF Given, Fits, Unique
<1>7. Copied(c)'
  <2>1. view[c] \in Seq(Stored) /\ Len(view[c]) >= 0
    BY <1>2 DEF Given
  <2> QED
    BY <1>1, <1>2, <1>3, <2>1 DEF Copied
<1>8. Needs(c)'
  <2>1. CASE GetFindings(c)
    <3>1. /\ pc[c] = "findings" /\ pc'[c] = "tested" /\ got'[c].findings = findings
      BY <1>2, <2>1 DEF GetFindings, MemoryInv, Typed
    <3> QED
      BY <1>1, <1>2, <1>5, <3>1 DEF Needs
  <2>2. CASE GetTested(c)
    <3>1. /\ pc[c] = "tested" /\ pc'[c] = "read" /\ got'[c].tested = tested
          /\ got'[c].findings = got[c].findings
      BY <1>2, <2>2 DEF GetTested, MemoryInv, Typed
    <3> QED
      BY <1>1, <1>2, <1>5, <3>1 DEF Needs
  <2> QED
    BY <2>1, <2>2
<1> QED
  BY <1>1, <1>3, <1>4, <1>6, <1>7, <1>8, ReaderAlone

\* Copying an asset begins with the values it has: those that fit its host.
LEMMA ReaderBegins ==
  ASSUME MemoryInv, ArrayInv, ReaderInv, MemoryInv', NEW c \in Callers, BeginCopy(c)
  PROVE  ArrayInv' /\ ReaderInv'
<1> DEFINE i == Len(got[c].assets) + 1
<1>1. /\ pc[c] = "read" /\ Len(got[c].assets) < Len(view[c])
      /\ mix' = [mix EXCEPT ![c] = {view[c][i]} \cup
                   (IF live[c] /\ changing.at = i THEN {changing.was} ELSE {})]
      /\ UNCHANGED <<store, lock, pc, call, view, live, got, needed, recorded>>
  BY DEF BeginCopy
<1>2. /\ mix = [d \in Callers |-> mix[d]] /\ Given(c) /\ Copied(c) /\ Needs(c)
  BY DEF ReaderInv, Functions
<1>3. /\ mix'[c] = {view[c][i]} \cup
                   (IF live[c] /\ changing.at = i THEN {changing.was} ELSE {})
      /\ \A d \in Callers : d # c => mix'[d] = mix[d]
      /\ mix' = [d \in Callers |-> mix'[d]]
  BY <1>1, <1>2
<1>4. Functions' /\ live' \in [Callers -> BOOLEAN]
  BY <1>1, <1>3 DEF ReaderInv, Functions, ArrayInv
<1>5. Told' = Told /\ UNCHANGED <<assets, findings, tested>>
  BY <1>1, ToldSame DEF lock, store
<1>6. Given(c)' /\ Needs(c)'
  BY <1>1, <1>2, <1>5 DEF Given, Needs, Fits, Unique
<1>7. /\ view[c] \in Seq(Stored) /\ got[c].assets \in Seq(Read)
      /\ i \in 1..Len(view[c])
  <2>1. view[c] \in Seq(Stored) /\ got[c].assets \in Seq(Read)
    BY <1>2 DEF Given, Copied
  <2>2. Len(view[c]) \in Nat /\ Len(got[c].assets) \in Nat
    BY <2>1
  <2> QED
    BY <1>1, <2>1, <2>2
<1>8. \A a \in mix'[c] : Fits(a, view[c][i].host)
  <2>1. Fits(view[c][i], view[c][i].host)
    BY <1>2, <1>7 DEF Given
  <2>2. ASSUME live[c], changing.at = i PROVE Fits(changing.was, view[c][i].host)
    <3>1. changing.at # 0 /\ view[c][i].host = assets[i].host
      BY <1>2, <1>7, <2>2 DEF Given
    <3> QED
      BY <2>2, <3>1 DEF ArrayInv
  <2> QED
    BY <1>3, <2>1, <2>2
<1>9. Copied(c)'
  <2>1. \A a \in mix'[c] : Fits(a, view[c][i].host)'
    BY <1>1, <1>5, <1>8 DEF Fits
  <2>2. i <= Len(view[c]) /\ got'[c] = got[c] /\ view'[c] = view[c] /\ pc'[c] = "read"
    BY <1>1, <1>7
  <2> QED
    BY <1>2, <1>5, <2>1, <2>2 DEF Copied
<1> QED
  BY <1>1, <1>3, <1>4, <1>6, <1>9, ReaderAlone

\* What is copied has each of its fields from a value that fits.
LEMMA ReaderEnds ==
  ASSUME MemoryInv, ArrayInv, ReaderInv, MemoryInv', NEW c \in Callers, EndCopy(c)
  PROVE  ArrayInv' /\ ReaderInv'
<1> DEFINE n == Len(got[c].assets)
           sources == {a.source : a \in mix[c]}
<1>1. PICK host \in {a.host : a \in mix[c]},
           source \in sources \cup (IF Cardinality(sources) > 1 THEN {Torn} ELSE {}),
           first \in {a.first : a \in mix[c]}, last \in {a.last : a \in mix[c]} :
             got' = [got EXCEPT ![c].assets =
                       Append(@, [host |-> host, source |-> source,
                                  first |-> first, last |-> last])]
  BY DEF EndCopy
<1>2. /\ mix' = [mix EXCEPT ![c] = {}]
      /\ UNCHANGED <<store, lock, pc, call, view, live, needed, recorded>>
      /\ mix[c] # {}
  BY DEF EndCopy
<1>3. /\ mix = [d \in Callers |-> mix[d]] /\ got = [d \in Callers |-> got[d]]
      /\ Given(c) /\ Copied(c) /\ Needs(c)
      /\ got[c] \in [assets : Seq(Read), findings : Nat, tested : Nat]
      /\ view[c] \in Seq(Stored)
  BY DEF ReaderInv, Functions, Given, Copied
<1> DEFINE new == [host |-> host, source |-> source, first |-> first, last |-> last]
<1>4. /\ mix'[c] = {} /\ \A d \in Callers : d # c => mix'[d] = mix[d] /\ got'[d] = got[d]
      /\ mix' = [d \in Callers |-> mix'[d]] /\ got' = [d \in Callers |-> got'[d]]
      /\ got'[c] = [got[c] EXCEPT !.assets = Append(@, new)]
  BY <1>1, <1>2, <1>3
<1>5. Functions' /\ live' \in [Callers -> BOOLEAN]
  BY <1>2, <1>4 DEF ReaderInv, Functions, ArrayInv
<1>6. Told' = Told /\ UNCHANGED <<assets, findings, tested>>
  BY <1>2, ToldSame DEF lock, store
<1>7. /\ n \in Nat /\ Len(view[c]) \in Nat /\ n + 1 <= Len(view[c])
      /\ \A a \in mix[c] : Fits(a, view[c][n + 1].host)
      /\ pc[c] = "read"
  BY <1>2, <1>3 DEF Copied
<1>8. /\ host = view[c][n + 1].host
      /\ {first, last} \subseteq Told[view[c][n + 1].host]
      /\ new \in Read
  <2>1. \A a \in mix[c] : /\ a.host = view[c][n + 1].host /\ a \in Stored
                          /\ {a.first, a.last} \subseteq Told[view[c][n + 1].host]
    BY <1>7 DEF Fits
  <2>2. host = view[c][n + 1].host /\ {first, last} \subseteq Told[view[c][n + 1].host]
    BY <2>1
  <2>3. host \in Hosts /\ first \in Times /\ last \in Times
        /\ sources \subseteq Seq(Sources)
    BY <2>1 DEF Stored
  <2>4. source \in Seq(Sources) \cup {Torn}
    BY <2>3
  <2> QED
    BY <2>2, <2>3, <2>4 DEF Read
<1> HIDE DEF new
<1>9. /\ got'[c].assets = Append(got[c].assets, new)
      /\ got'[c].findings = got[c].findings /\ got'[c].tested = got[c].tested
      /\ got'[c] \in [assets : Seq(Read), findings : Nat, tested : Nat]
  <2>1. got[c].assets \in Seq(Read) /\ new \in Read
    BY <1>3, <1>8
  <2>2. Append(got[c].assets, new) \in Seq(Read)
    BY <2>1
  <2> QED
    BY <1>3, <1>4, <2>2
<1>10. Given(c)' /\ Needs(c)'
  BY <1>2, <1>3, <1>6, <1>9 DEF Given, Needs, Fits, Unique
<1>11. Copied(c)'
  <2>1. /\ Len(got'[c].assets) = n + 1 /\ got'[c].assets[n + 1] = new
        /\ \A j \in 1..n : got'[c].assets[j] = got[c].assets[j]
    BY <1>3, <1>8, <1>9
  <2>2. \A j \in 1..(n + 1) : j \in 1..n \/ j = n + 1
    BY <1>7
  <2>3. new.host = view[c][n + 1].host
        /\ {new.first, new.last} \subseteq Told[view[c][n + 1].host]
    BY <1>8 DEF new
  <2>4. \A j \in 1..(n + 1) :
          /\ got'[c].assets[j].host = view[c][j].host
          /\ {got'[c].assets[j].first, got'[c].assets[j].last} \subseteq Told[view[c][j].host]
    <3>1. \A j \in 1..n :
            /\ got[c].assets[j].host = view[c][j].host
            /\ {got[c].assets[j].first, got[c].assets[j].last} \subseteq Told[view[c][j].host]
      BY <1>3 DEF Copied
    <3> HIDE DEF n
    <3> QED
      BY <2>1, <2>2, <2>3, <3>1
  <2>5. view'[c] = view[c] /\ pc'[c] = "read" /\ mix'[c] = {}
    BY <1>2, <1>4, <1>7
  <2> HIDE DEF n
  <2> QED
    BY <1>6, <1>7, <1>9, <2>1, <2>4, <2>5 DEF Copied
<1> QED
  BY <1>2, <1>4, <1>5, <1>10, <1>11, ReaderAlone

\* The call returns, and its recall is over.
LEMMA ReaderReturns ==
  ASSUME MemoryInv, ArrayInv, ReaderInv, MemoryInv', NEW c \in Callers, Return(c)
  PROVE  ArrayInv' /\ ReaderInv'
<1>1. /\ pc[c] = "read" /\ Len(got[c].assets) = Len(view[c])
      /\ pc' = [pc EXCEPT ![c] = "idle"]
      /\ view' = [view EXCEPT ![c] = << >>] /\ live' = [live EXCEPT ![c] = FALSE]
      /\ got' = [got EXCEPT ![c] = Nothing] /\ needed' = [needed EXCEPT ![c] = NoNeed]
      /\ UNCHANGED <<store, lock, call, mix, recorded>>
  BY DEF Return, Recalled
<1>2. /\ pc'[c] = "idle" /\ view'[c] = << >> /\ got'[c] = Nothing
      /\ needed'[c] = NoNeed /\ ~live'[c]
      /\ \A d \in Callers : d # c =>
           /\ view'[d] = view[d] /\ mix'[d] = mix[d] /\ got'[d] = got[d]
           /\ needed'[d] = needed[d] /\ live'[d] = live[d] /\ pc'[d] = pc[d]
  BY <1>1 DEF MemoryInv, Typed, ReaderInv, Functions, ArrayInv
<1>3. Functions' /\ live' \in [Callers -> BOOLEAN]
  BY <1>1 DEF ReaderInv, Functions, ArrayInv
<1>4. Given(c)' /\ Needs(c)'
  BY <1>2 DEF Given, Needs, Unique, NoNeed
<1>5. mix'[c] = {}
  <2>1. Copied(c) /\ Given(c)
    BY DEF ReaderInv
  <2>2. got[c].assets \in Seq(Read) /\ view[c] \in Seq(Stored)
    BY <2>1 DEF Copied, Given
  <2>3. Len(got[c].assets) \in Nat /\ ~(Len(got[c].assets) + 1 <= Len(view[c]))
    BY <1>1, <2>2
  <2>4. mix[c] = {}
    BY <2>1, <2>3 DEF Copied
  <2> QED
    BY <1>1, <2>4
<1>6. Copied(c)'
  BY <1>2, <1>5 DEF Copied, Nothing
<1> QED
  BY <1>1, <1>2, <1>3, <1>4, <1>6, ReaderAlone

\* Upsert in place: the readers of the array see the changed asset.
LEMMA ReaderChanged ==
  ASSUME MemoryInv, SeenInv, ArrayInv, ReaderInv, MemoryInv', SeenInv', Grows,
         NEW i, i \in DOMAIN existing, i <= Len(assets), writer # NoOne,
         NEW old, old = existing[i], NEW new, new \in Stored, new.host = old.host,
         existing' = [existing EXCEPT ![i] = new],
         assets' = [assets EXCEPT ![i] = new],
         view' = [d \in Callers |-> IF live[d] /\ i <= Len(view[d])
                                       THEN [view[d] EXCEPT ![i] = new] ELSE view[d]],
         mix' = [d \in Callers |-> IF live[d] /\ Copying(d) = i
                                      THEN mix[d] \cup {new} ELSE mix[d]],
         changing' = [at |-> i, was |-> old],
         UNCHANGED <<findings, tested, moved, writer, pc, live, got, needed>>
  PROVE  ArrayInv' /\ ReaderInv'
<1>1. /\ assets \in Seq(Stored) /\ existing \in Seq(Stored) /\ Extends
      /\ Len(assets) \in Nat /\ i \in DOMAIN assets /\ i \in Nat /\ i # 0
      /\ existing'[i] = new /\ DOMAIN existing' = DOMAIN existing
  BY DEF MemoryInv, Typed
<1>2. TrueTo(existing, Told) /\ TrueTo(existing, Told)'
  BY DEF SeenInv
<1>3. Fits(old, new.host) /\ Fits(new, new.host)'
  <2>1. old \in Stored
    BY <1>1
  <2>2. {old.first, old.last} \subseteq Told[old.host]
    BY <1>2 DEF TrueTo
  <2>3. {new.first, new.last} \subseteq Told'[new.host]
    BY <1>1, <1>2 DEF TrueTo
  <2> QED
    BY <2>1, <2>2, <2>3 DEF Fits
<1>4. new.host = assets[i].host
  <2>1. \A j \in 1..Len(assets) : assets[j].host = existing[j].host
    BY <1>1 DEF Extends
  <2>2. i \in 1..Len(assets)
    BY <1>1
  <2> QED
    BY <2>1, <2>2
<1>5. /\ DOMAIN assets' = DOMAIN assets /\ Len(assets') = Len(assets)
      /\ assets'[i] = new /\ \A j \in DOMAIN assets : j # i => assets'[j] = assets[j]
      /\ \A j \in 1..Len(assets) : assets'[j].host = assets[j].host
  BY <1>1, <1>4
<1>6. ArrayInv'
  <2>1. ASSUME NEW j \in DOMAIN assets PROVE Fits(assets[j], assets[j].host)'
    <3>1. CASE j = i
      BY <1>3, <1>5, <3>1 DEF Fits
    <3>2. CASE j # i
      <4>1. Fits(assets[j], assets[j].host) /\ assets'[j] = assets[j]
        BY <1>5, <2>1, <3>2 DEF ArrayInv
      <4> QED
        BY <4>1, FitsOn DEF Fits
    <3> QED
      BY <3>1, <3>2
  <2>2. Fits(old, new.host)'
    BY <1>3, FitsOn
  <2>3. changing'.at = i /\ changing'.was = old
    OBVIOUS
  <2>4. /\ findings' \in Nat /\ tested' \in Nat /\ moved' \in BOOLEAN
        /\ live' \in [Callers -> BOOLEAN]
    BY DEF ArrayInv
  <2>5. i \in DOMAIN assets' /\ assets'[i].host = new.host
    BY <1>1, <1>5
  <2>6. \A j \in DOMAIN assets' : Fits(assets[j], assets[j].host)'
    BY <1>5, <2>1
  <2>7. Fits(changing.was, assets[changing.at].host)'
    BY <2>2, <2>3, <2>5 DEF Fits
  <2> QED
    BY <2>3, <2>4, <2>5, <2>6, <2>7 DEF ArrayInv
<1>7. Functions'
  BY DEF ReaderInv, Functions
<1>8. ASSUME NEW d \in Callers PROVE (Given(d) /\ Copied(d) /\ Needs(d))'
  <2>1. /\ Given(d) /\ Copied(d) /\ Needs(d)
        /\ view[d] \in Seq(Stored) /\ got[d].assets \in Seq(Read)
    BY DEF ReaderInv, Given, Copied
  <2>2. Len(view[d]) \in Nat /\ Len(got[d].assets) \in Nat
    BY <2>1
  <2>3. \/ view'[d] = view[d]
        \/ live[d] /\ i \in DOMAIN view[d] /\ view'[d] = [view[d] EXCEPT ![i] = new]
    BY <1>1, <2>1, <2>2
  <2>4. live[d] /\ i \in DOMAIN view[d] => view[d][i].host = new.host
    BY <1>4, <2>1, <2>2 DEF Given
  <2>5. /\ view'[d] \in Seq(Stored) /\ Len(view'[d]) = Len(view[d])
        /\ DOMAIN view'[d] = DOMAIN view[d]
        /\ \A j \in DOMAIN view[d] : view'[d][j].host = view[d][j].host
    <3>1. CASE view'[d] = view[d]
      BY <2>1, <3>1
    <3>2. CASE live[d] /\ i \in DOMAIN view[d] /\ view'[d] = [view[d] EXCEPT ![i] = new]
      BY <2>1, <2>4, <3>2, ChangeKeeps DEF Given
    <3> QED
      BY <2>3, <3>1, <3>2
  <2>6. ASSUME NEW j \in DOMAIN view[d] PROVE Fits(view[d][j], view[d][j].host)'
    <3>1. CASE view'[d][j] = view[d][j]
      <4>1. Fits(view[d][j], view[d][j].host)
        BY <2>1, <2>6 DEF Given
      <4> QED
        BY <3>1, <4>1, FitsOn DEF Fits
    <3>2. CASE view'[d][j] = new
      BY <1>3, <3>2 DEF Fits
    <3> QED
      BY <2>1, <2>3, <3>1, <3>2
  <2>7. Given(d)'
    <3>1. Unique(view'[d])
      BY <2>1, <2>5 DEF Given, Unique
    <3>2. live[d] => /\ Len(view'[d]) <= Len(assets')
                     /\ \A j \in 1..Len(view'[d]) : view'[d][j].host = assets'[j].host
      <4>1. live[d] => Len(view[d]) <= Len(assets)
                       /\ \A j \in 1..Len(view[d]) : view[d][j].host = assets[j].host
        BY <2>1 DEF Given
      <4>2. \A j \in 1..Len(view[d]) : live[d] => j \in 1..Len(assets)
        BY <1>1, <2>2, <4>1
      <4>3. \A j \in 1..Len(view[d]) : view'[d][j].host = view[d][j].host
        BY <2>1, <2>5
      <4> HIDE DEF Given
      <4> QED
        BY <1>5, <2>5, <4>1, <4>2, <4>3
    <3> QED
      BY <2>5, <2>6, <3>1, <3>2 DEF Given, Unique
  <2>8. PICK n \in Nat : n = Len(got[d].assets)
    BY <2>2
  <2>9. Copied(d)'
    <3>1. ASSUME NEW j \in 1..n
          PROVE  /\ got[d].assets[j].host = view'[d][j].host
                 /\ {got[d].assets[j].first, got[d].assets[j].last}
                      \subseteq Told'[view'[d][j].host]
      <4>1. j \in DOMAIN view[d] /\ view[d][j] \in Stored
        BY <2>1, <2>2, <2>8 DEF Copied
      <4>2. view'[d][j].host = view[d][j].host /\ view[d][j].host \in Hosts
        BY <2>5, <4>1 DEF Stored
      <4>3. /\ got[d].assets[j].host = view[d][j].host
            /\ {got[d].assets[j].first, got[d].assets[j].last} \subseteq Told[view[d][j].host]
        BY <2>1, <2>8 DEF Copied
      <4>4. Told[view[d][j].host] \subseteq Told'[view[d][j].host]
        BY <4>2 DEF Grows
      <4> QED
        BY <4>2, <4>3, <4>4
    <3>2. ASSUME NEW a, a \in mix'[d]
          PROVE  n + 1 <= Len(view[d]) /\ Fits(a, view[d][n + 1].host)'
      <4>1. mix[d] # {}
        BY <1>1, <3>2 DEF Copying
      <4>2. n + 1 \in DOMAIN view[d] /\ n + 1 <= Len(view[d])
        BY <2>1, <2>2, <2>8, <4>1 DEF Copied
      <4>3. PICK h : h = view[d][n + 1].host /\ h = view'[d][n + 1].host
        BY <2>5, <4>2
      <4>4. CASE a \in mix[d]
        <5>1. Fits(a, h)
          BY <2>1, <2>8, <4>3, <4>4 DEF Copied
        <5>2. Fits(a, h)'
          BY <5>1, FitsOn
        <5> QED
          BY <4>2, <4>3, <5>2 DEF Fits
      <4>5. CASE a = new /\ live[d] /\ Copying(d) = i
        <5>1. n + 1 = i
          BY <2>8, <4>1, <4>5 DEF Copying
        <5>2. h = new.host
          BY <2>4, <4>2, <4>3, <4>5, <5>1
        <5> QED
          BY <1>3, <4>2, <4>3, <4>5, <5>2 DEF Fits
      <4> QED
        BY <3>2, <4>4, <4>5
    <3>3. /\ got'[d] = got[d] /\ n <= Len(view'[d])
          /\ pc'[d] # "read" => got[d].assets = << >> /\ mix'[d] = {}
      <4>1. mix[d] = {} => mix'[d] = {}
        BY <1>1 DEF Copying
      <4>2. /\ n <= Len(view[d])
            /\ pc[d] # "read" => got[d].assets = << >> /\ mix[d] = {}
        BY <2>1, <2>8 DEF Copied
      <4> QED
        BY <2>5, <4>1, <4>2
    <3>4. got'[d] \in [assets : Seq(Read), findings : Nat, tested : Nat]
      BY <2>1 DEF Copied
    <3> QED
      BY <2>5, <2>8, <3>1, <3>2, <3>3, <3>4 DEF Copied
  <2>10. Needs(d)'
    <3>1. {view'[d][j].host : j \in DOMAIN view'[d]} = {view[d][j].host : j \in DOMAIN view[d]}
      BY <2>5
    <3> QED
      BY <2>1, <3>1 DEF Needs
  <2> QED
    BY <2>7, <2>9, <2>10
<1> QED
  BY <1>6, <1>7, <1>8 DEF ReaderInv

\* Upsert changes an asset in place, or in an array of its own, or appends one.
LEMMA ReaderUpsert ==
  ASSUME MemoryInv, SeenInv, ArrayInv, ReaderInv, MemoryInv', SeenInv',
         NEW c \in Callers, Upsert(c)
  PROVE  ArrayInv' /\ ReaderInv'
<1> DEFINE h == Head(call[c].left)
           i == Find(existing, h)
<1>1. /\ call[c] \in AssetCall /\ h \in Hosts /\ writer # NoOne
      /\ existing \in Seq(Stored) /\ assets \in Seq(Stored)
  BY MemoryAssumption DEF Upsert, MemoryInv, Typed, Locked, AssetCall
<1>2. /\ Told \in [Hosts -> SUBSET Times]
      /\ Told' = [Told EXCEPT ![h] = @ \cup {call[c].stamp}]
  BY ToldGrows
<1>3. Grows
  <2> HIDE DEF h
  <2> QED
    BY <1>2 DEF Grows
<1>4. /\ UNCHANGED <<findings, tested, writer, pc, live, got, needed>>
      /\ findings \in Nat /\ tested \in Nat /\ moved' \in BOOLEAN
  BY DEF Upsert, ArrayInv
<1>5. CASE i # 0 /\ Change(i, Updated(c, existing[i])) /\ UNCHANGED moved
           /\ ~(moved \/ i > Len(assets))
  <2>1. PICK at \in DOMAIN existing : at = i
    BY <1>1, <1>5, FindFinds
  <2>2. PICK old \in Stored : old = existing[at]
    BY <1>1, <2>1
  <2>3. PICK new : new = Updated(c, old)
    OBVIOUS
  <2>4. new \in Stored /\ new.host = old.host
    BY <1>1, <2>2, <2>3, UpdatedStored
  <2>5. /\ existing' = [existing EXCEPT ![at] = new]
        /\ assets' = [assets EXCEPT ![at] = new]
        /\ view' = [d \in Callers |-> IF live[d] /\ at <= Len(view[d])
                                       THEN [view[d] EXCEPT ![at] = new] ELSE view[d]]
        /\ mix' = [d \in Callers |-> IF live[d] /\ Copying(d) = at
                                      THEN mix[d] \cup {new} ELSE mix[d]]
        /\ changing' = [at |-> at, was |-> old]
    BY <1>5, <2>1, <2>2, <2>3 DEF Change
  <2>6. at <= Len(assets)
    BY <1>1, <1>5, <2>1
  <2> HIDE DEF i, h
  <2> QED
    BY <1>1, <1>3, <1>4, <1>5, <2>1, <2>2, <2>4, <2>5, <2>6, ReaderChanged
<1>6. CASE changing' = NoChange /\ UNCHANGED <<assets, view, mix>>
  <2>1. ArrayInv'
    <3>1. \A j \in DOMAIN assets : Fits(assets[j], assets[j].host)'
      BY <1>3, <1>6, FitsOn DEF ArrayInv, Fits
    <3>2. live' \in [Callers -> BOOLEAN] /\ changing'.at = 0
      BY <1>4, <1>6 DEF ArrayInv, NoChange
    <3> QED
      BY <1>1, <1>4, <1>6, <3>1, <3>2 DEF ArrayInv
  <2>2. /\ findings <= findings' /\ tested <= tested' /\ Len(assets) <= Len(assets')
    BY <1>1, <1>4, <1>6
  <2> QED
    BY <1>3, <1>4, <1>6, <2>1, <2>2, ReaderLeft
<1> QED
  BY <1>5, <1>6 DEF Upsert, Change

\* Unlock stores the slice: the readers of an array that stays see it grow.
LEMMA ReaderUnlock ==
  ASSUME MemoryInv, SeenInv, ArrayInv, ReaderInv, MemoryInv', SeenInv',
         NEW c \in Callers, Unlock(c)
  PROVE  ArrayInv' /\ ReaderInv'
<1> USE DEF Goto
<1>1. /\ pc[c] = "upsert" /\ pc' = [pc EXCEPT ![c] = "idle"]
      /\ assets' = existing /\ live' = [d \in Callers |-> live[d] /\ ~moved]
      /\ writer' = NoOne /\ moved' = FALSE /\ changing' = NoChange
      /\ UNCHANGED <<findings, tested, view, mix, got, needed>>
  BY DEF Unlock
<1>2. writer # NoOne /\ existing \in Seq(Stored) /\ assets \in Seq(Stored) /\ Extends
  BY <1>1, MemoryAssumption DEF MemoryInv, Typed, Locked
<1>3. Told' = Told /\ Grows
  BY ToldAtLock
<1>4. ArrayInv'
  <2>1. ASSUME NEW j \in DOMAIN existing
        PROVE  Fits(existing[j], existing[j].host)
    <3>1. existing[j] \in Stored
      BY <1>2
    <3>2. {existing[j].first, existing[j].last} \subseteq Told[existing[j].host]
      BY <1>2 DEF SeenInv, TrueTo
    <3> QED
      BY <3>1, <3>2 DEF Fits
  <2>2. \A j \in DOMAIN assets' : Fits(assets[j], assets[j].host)'
    BY <1>1, <1>3, <2>1 DEF Fits
  <2>3. live' \in [Callers -> BOOLEAN] /\ findings' \in Nat /\ tested' \in Nat
    BY <1>1 DEF ArrayInv
  <2>4. changing'.at = 0
    BY <1>1 DEF NoChange
  <2> QED
    BY <1>1, <2>2, <2>3, <2>4 DEF ArrayInv
<1>5. \A d \in Callers : live'[d] =>
        /\ live[d] /\ Len(assets) <= Len(assets')
        /\ \A j \in 1..Len(assets) : assets'[j].host = assets[j].host
  BY <1>1, <1>2 DEF Extends
<1>6. \A d \in Callers :
        \/ pc'[d] = pc[d]
        \/ {pc[d], pc'[d]} \cap {"findings", "tested", "read"} = {}
  BY <1>1 DEF MemoryInv, Typed
<1>7. findings <= findings' /\ tested <= tested'
  BY <1>1 DEF ArrayInv
<1> QED
  BY <1>1, <1>3, <1>4, <1>5, <1>6, <1>7, ReaderLeft

\* A step that leaves the array alone, and what was told.
LEMMA ReaderElsewhere ==
  ASSUME MemoryInv, ArrayInv, ReaderInv, MemoryInv', Told' = Told,
         UNCHANGED <<assets, view, mix, got, needed, live, changing, moved>>,
         findings' \in Nat, tested' \in Nat, findings <= findings', tested <= tested',
         writer' = NoOne => writer = NoOne,
         \A d \in Callers :
           \/ pc'[d] = pc[d]
           \/ {pc[d], pc'[d]} \cap {"findings", "tested", "read"} = {}
  PROVE  ArrayInv' /\ ReaderInv'
<1>1. Grows
  BY DEF Grows
<1>2. ArrayInv'
  BY DEF ArrayInv, Fits
<1>3. Len(assets) <= Len(assets')
  BY DEF MemoryInv, Typed
<1> QED
  BY <1>1, <1>2, <1>3, ReaderLeft

\* Lock begins on the store's slice, in the store's array.
LEMMA ReaderLock ==
  ASSUME MemoryInv, SeenInv, ArrayInv, ReaderInv, MemoryInv', SeenInv',
         NEW c \in Callers, Lock(c)
  PROVE  ArrayInv' /\ ReaderInv'
<1> USE DEF Goto, store, reader
<1>1. /\ pc[c] = "lock" /\ pc' = [pc EXCEPT ![c] = "upsert"] /\ writer = NoOne
      /\ moved' = FALSE
      /\ UNCHANGED <<assets, findings, tested, changing, view, live, mix, got, needed>>
  BY DEF Lock
<1>2. Told' = Told /\ Grows
  BY ToldAtLock
<1>3. findings <= findings' /\ tested <= tested' /\ Len(assets) <= Len(assets')
  BY <1>1 DEF ArrayInv, MemoryInv, Typed
<1>4. ArrayInv'
  BY <1>1, <1>2 DEF ArrayInv, Fits
<1>5. \A d \in Callers :
        \/ pc'[d] = pc[d]
        \/ {pc[d], pc'[d]} \cap {"findings", "tested", "read"} = {}
  BY <1>1 DEF MemoryInv, Typed
<1> QED
  BY <1>1, <1>2, <1>3, <1>4, <1>5, ReaderLeft

\* Every step keeps what the recalls rely on.
LEMMA ReaderNext ==
  MemoryInv /\ SeenInv /\ ArrayInv /\ ReaderInv /\ [Next]_vars /\ MemoryInv' /\ SeenInv'
    => ArrayInv' /\ ReaderInv'
<1> SUFFICES ASSUME MemoryInv, SeenInv, ArrayInv, ReaderInv, [Next]_vars,
                    MemoryInv', SeenInv'
             PROVE  ArrayInv' /\ ReaderInv'
  OBVIOUS
<1>0. /\ pc \in [Callers -> {"idle", "lock", "upsert", "findings", "tested", "read"}]
      /\ findings \in Nat /\ tested \in Nat
      /\ findings <= findings /\ tested <= tested
      /\ findings + 1 \in Nat /\ tested + 1 \in Nat
      /\ findings <= findings + 1 /\ tested <= tested + 1
  BY DEF MemoryInv, Typed, ArrayInv
<1> USE DEF store, lock, reader, Goto
<1>1. CASE Tick \/ UNCHANGED vars
  <2>1. Told' = Told
    BY <1>1, ToldSame DEF Tick, vars
  <2> QED
    BY <1>0, <1>1, <2>1, ReaderElsewhere DEF Tick, vars
<1>2. ASSUME NEW c \in Callers, RecordAssets(c) PROVE ArrayInv' /\ ReaderInv'
  <2>1. pc[c] = "idle" /\ writer # c
    BY <1>2 DEF RecordAssets, MemoryInv, Locked
  <2>2. writer # NoOne => writer \in Callers /\ call'[writer] = call[writer]
    BY <1>2, <2>1 DEF RecordAssets, SeenInv, MemoryInv, Typed
  <2>3. Told' = Told
    BY <1>2, <2>2, ToldSame DEF RecordAssets
  <2>4. \A d \in Callers :
          \/ pc'[d] = pc[d]
          \/ {pc[d], pc'[d]} \cap {"findings", "tested", "read"} = {}
    BY <1>0, <1>2 DEF RecordAssets
  <2> QED
    BY <1>0, <1>2, <2>3, <2>4, ReaderElsewhere DEF RecordAssets
<1>3. ASSUME NEW c \in Callers, Lock(c) PROVE ArrayInv' /\ ReaderInv'
  BY <1>3, ReaderLock
<1>4. ASSUME NEW c \in Callers, Upsert(c) PROVE ArrayInv' /\ ReaderInv'
  BY <1>4, ReaderUpsert
<1>5. ASSUME NEW c \in Callers, Unlock(c) PROVE ArrayInv' /\ ReaderInv'
  BY <1>5, ReaderUnlock
<1>6. ASSUME NEW c \in Callers, RecordFinding(c) \/ MarkTested(c)
      PROVE  ArrayInv' /\ ReaderInv'
  <2>1. Told' = Told
    BY <1>6, ToldSame DEF RecordFinding, MarkTested, Append1
  <2>2. findings' \in {findings, findings + 1} /\ tested' \in {tested, tested + 1}
    BY <1>6 DEF RecordFinding, MarkTested
  <2> QED
    BY <1>0, <1>6, <2>1, <2>2, ReaderElsewhere DEF RecordFinding, MarkTested, Append1
<1>7. ASSUME NEW c \in Callers,
             \/ Recall(c) \/ GetFindings(c) \/ GetTested(c)
             \/ BeginCopy(c) \/ EndCopy(c) \/ Return(c)
      PROVE  ArrayInv' /\ ReaderInv'
  BY <1>7, ReaderRecall, ReaderGet, ReaderBegins, ReaderEnds, ReaderReturns
<1> QED
  BY <1>1, <1>2, <1>3, <1>4, <1>5, <1>6, <1>7 DEF Next

\* A recall has every host that had been recorded when it began, once, at times
\* at which it was recorded, although it reads the assets after the lock is
\* released and beside a call that changes them (handleRecallEngagement over
\* GetAssets, store.go:99).
THEOREM MemoryRecallComplete == Spec => []RecallIsComplete
<1>1. SeenInv /\ ReaderInv => RecallIsComplete
  <2> SUFFICES ASSUME SeenInv, ReaderInv, NEW c \in Callers, Recalled(c)
               PROVE
    /\ got[c].findings >= needed[c].findings /\ got[c].tested >= needed[c].tested
    /\ needed[c].hosts \subseteq {got[c].assets[i].host : i \in DOMAIN got[c].assets}
    /\ \A i, j \in DOMAIN got[c].assets :
         got[c].assets[i].host = got[c].assets[j].host => i = j
    /\ \A i \in DOMAIN got[c].assets :
         {got[c].assets[i].first, got[c].assets[i].last}
           \subseteq recorded[got[c].assets[i].host] \cup {call[d].stamp : d \in Callers}
    BY DEF RecallIsComplete
  <2>1. /\ pc[c] = "read" /\ Len(got[c].assets) = Len(view[c])
        /\ Given(c) /\ Copied(c) /\ Needs(c)
    BY DEF ReaderInv, Recalled
  <2>2. /\ got[c] \in [assets : Seq(Read), findings : Nat, tested : Nat]
        /\ view[c] \in Seq(Stored) /\ Unique(view[c])
        /\ needed[c].findings \in Nat /\ needed[c].tested \in Nat
        /\ needed[c].findings <= got[c].findings /\ needed[c].tested <= got[c].tested
        /\ needed[c].hosts \subseteq {view[c][i].host : i \in DOMAIN view[c]}
    BY <2>1 DEF Given, Copied, Needs
  <2>3. DOMAIN got[c].assets = DOMAIN view[c]
    BY <2>1, <2>2
  <2>4. \A i \in DOMAIN view[c] :
          /\ got[c].assets[i].host = view[c][i].host
          /\ {got[c].assets[i].first, got[c].assets[i].last} \subseteq Told[view[c][i].host]
          /\ view[c][i].host \in Hosts
    <3>1. 1..Len(got[c].assets) = DOMAIN view[c]
      BY <2>1, <2>2
    <3>2. \A i \in DOMAIN view[c] : view[c][i] \in Stored
      BY <2>2
    <3> QED
      BY <2>1, <3>1, <3>2 DEF Copied, Stored
  <2>5. \A h \in Hosts : Told[h] \subseteq recorded[h] \cup {call[d].stamp : d \in Callers}
    BY DEF Told, SeenInv
  <2>6. got[c].findings >= needed[c].findings /\ got[c].tested >= needed[c].tested
    BY <2>2
  <2>7. needed[c].hosts \subseteq {got[c].assets[i].host : i \in DOMAIN got[c].assets}
    BY <2>2, <2>3, <2>4
  <2>8. \A i, j \in DOMAIN got[c].assets :
          got[c].assets[i].host = got[c].assets[j].host => i = j
    BY <2>2, <2>3, <2>4 DEF Unique
  <2>9. \A i \in DOMAIN got[c].assets :
          {got[c].assets[i].first, got[c].assets[i].last}
            \subseteq recorded[got[c].assets[i].host] \cup {call[d].stamp : d \in Callers}
    BY <2>3, <2>4, <2>5
  <2> QED
    BY <2>6, <2>7, <2>8, <2>9
<1>2. Init => SeenInv /\ ArrayInv /\ ReaderInv
  <2> SUFFICES ASSUME Init PROVE SeenInv /\ ArrayInv /\ ReaderInv
    OBVIOUS
  <2>1. TrueTo(assets, recorded)
    BY DEF Init, TrueTo
  <2>2. SeenInv
    BY <2>1 DEF Init, SeenInv
  <2>3. ArrayInv /\ Functions
    <3>1. Functions
      BY DEF Init, Functions
    <3>2. \A i \in DOMAIN assets : FALSE
      BY DEF Init
    <3>3. changing.at = 0
      BY DEF Init, NoChange
    <3> QED
      BY <3>1, <3>2, <3>3 DEF Init, ArrayInv
  <2>4. ASSUME NEW c \in Callers PROVE Given(c) /\ Copied(c) /\ Needs(c)
    <3>1. Given(c) /\ Needs(c)
      BY DEF Init, Given, Needs, Unique, NoNeed
    <3>2. Copied(c)
      BY DEF Init, Copied, Nothing
    <3> QED
      BY <3>1, <3>2
  <2> QED
    BY <2>2, <2>3, <2>4 DEF ReaderInv
<1> QED
  BY <1>1, <1>2, MemoryInit, MemoryNext, SeenNext, ReaderNext, PTL DEF Spec
============================================================================

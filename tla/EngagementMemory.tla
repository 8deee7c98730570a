-------------------------- MODULE EngagementMemory --------------------------
(***************************************************************************)
(* The engagement memory of one program: MemoryStore (internal/db/store.go)*)
(* behind the tools record_assets, record_finding, mark_tested and         *)
(* recall_engagement (internal/mcp/tools.go).                              *)
(*                                                                         *)
(* RecordAssets reads the clock before it takes the lock, and under the    *)
(* lock updates the elements of the slice in place; it stores the slice    *)
(* when it is done. GetAssets returns that same slice, so a recall reads   *)
(* the elements after the lock is released, beside a later RecordAssets.   *)
(* An append that finds no room moves the assets to a new array, and leaves*)
(* readers with the old one.                                               *)
(*                                                                         *)
(* InScope and Tech, which no tool sets, are left out, and so is what a    *)
(* finding or a tested endpoint says: they are only ever appended.         *)
(***************************************************************************)
EXTENDS Integers, Sequences, FiniteSets, SequencesExt, FiniteSetsExt

CONSTANTS
  Callers,   \* goroutines, each serving one tool call at a time
  Hosts,     \* host names
  Sources,   \* what callers name as a source, if anything
  MaxHosts,  \* hosts in one call (1000 in the code)
  MaxTime,   \* bound: the clock
  MaxCalls   \* bound: calls that record

NoOne == "no one"

ASSUME MemoryAssumption ==
  /\ MaxHosts \in Nat \ {0} /\ MaxTime \in Nat \ {0} /\ MaxCalls \in Nat
  /\ NoOne \notin Callers

VARIABLES
  now,       \* the clock
  assets,    \* the slice the store holds
  findings,  \* how many findings it holds
  tested,    \* how many tested endpoints
  writer,    \* who holds the lock for writing
  existing,  \* the slice the writer works on
  moved,     \* whether that is an array of its own by now
  changing,  \* the element the writer is changing in place, and its old fields
  pc,        \* where each caller is
  call,      \* its RecordAssets: clock reading, source, hosts, hosts still to do
  view,      \* the slice its recall was given
  live,      \* whether that is still the store's array
  mix,       \* the values an asset has had since its recall began to copy it
  got,       \* what its recall has read so far
  count,     \* calls that record so far
  recorded,  \* history: the clock readings of the finished calls for each host
  needed     \* history: what the store had been told when the recall began

store  == <<assets, findings, tested>>
lock   == <<writer, existing, moved, changing>>
reader == <<view, live, mix, got, needed>>
vars   == <<now, store, lock, pc, call, reader, count, recorded>>

NoSource == << >>
Torn == <<"torn">>
NoChange == [at |-> 0]
NoCall == [stamp |-> 0, source |-> NoSource, hosts |-> << >>, left |-> << >>]
Nothing == [assets |-> << >>, findings |-> 0, tested |-> 0]
NoNeed == [hosts |-> {}, findings |-> 0, tested |-> 0]

HostLists == UNION {[1..n -> Hosts] : n \in 1..MaxHosts}

\* A source is a list of names: the string joins them with commas.
CallSources == {<<s>> : s \in Sources} \cup {NoSource}

mergeSource(a, b) ==
  IF a = NoSource THEN b ELSE IF b = NoSource \/ a = b THEN a ELSE a \o b

Goto(c, from, to) == pc[c] = from /\ pc' = [pc EXCEPT ![c] = to]

\* Where the loop over the existing assets finds a host, 0 if it does not.
Find(list, h) ==
  LET at == {i \in DOMAIN list : list[i].host = h}
  IN  IF at = {} THEN 0 ELSE Min(at)

\* An asset seen for the first time.
New(c, h) ==
  [host |-> h, source |-> call[c].source, first |-> call[c].stamp, last |-> call[c].stamp]

\* Mutant: an earlier first_seen is not taken over.
UpdatedKeepsFirst(c, a) ==
  [a EXCEPT !.last = call[c].stamp, !.source = mergeSource(@, call[c].source)]

\* An asset seen again. LastSeen is simply overwritten.
Updated(c, a) ==
  [a EXCEPT !.last = call[c].stamp,
            !.source = mergeSource(@, call[c].source),
            !.first = IF call[c].stamp < @ THEN call[c].stamp ELSE @]
----------------------------------------------------------------------------
Init ==
  /\ now = 1
  /\ assets = << >> /\ findings = 0 /\ tested = 0
  /\ writer = NoOne /\ existing = << >> /\ moved = FALSE /\ changing = NoChange
  /\ pc = [c \in Callers |-> "idle"]
  /\ call = [c \in Callers |-> NoCall]
  /\ view = [c \in Callers |-> << >>]
  /\ live = [c \in Callers |-> FALSE]
  /\ mix = [c \in Callers |-> {}]
  /\ got = [c \in Callers |-> Nothing]
  /\ count = 0
  /\ recorded = [h \in Hosts |-> {}]
  /\ needed = [c \in Callers |-> NoNeed]

Tick ==
  /\ now < MaxTime
  /\ now' = now + 1
  /\ UNCHANGED <<store, lock, pc, call, reader, count, recorded>>

\* handleRecordAssets, as far as the clock reading of RecordAssets.
RecordAssets(c) ==
  /\ Goto(c, "idle", "lock")
  /\ count < MaxCalls /\ count' = count + 1
  /\ \E hosts \in HostLists, source \in CallSources :
       call' = [call EXCEPT ![c] = [stamp |-> now, source |-> source,
                                    hosts |-> hosts, left |-> hosts]]
  /\ UNCHANGED <<now, store, lock, reader, recorded>>

Lock(c) ==
  /\ Goto(c, "lock", "upsert")
  /\ writer = NoOne /\ writer' = c
  /\ existing' = assets
  /\ moved' = FALSE
  /\ UNCHANGED <<now, store, changing, call, reader, count, recorded>>

\* The element a recall is copying, 0 if it is not.
Copying(c) == IF mix[c] = {} THEN 0 ELSE Len(got[c].assets) + 1

\* The writer changes an element, which readers of its array may see.
Change(i, new) ==
  /\ existing' = [existing EXCEPT ![i] = new]
  /\ IF moved \/ i > Len(assets)
       THEN changing' = NoChange /\ UNCHANGED <<assets, view, mix>>
       ELSE /\ assets' = [assets EXCEPT ![i] = new]
            /\ view' = [d \in Callers |-> IF live[d] /\ i <= Len(view[d])
                                            THEN [view[d] EXCEPT ![i] = new]
                                            ELSE view[d]]
            /\ mix' = [d \in Callers |-> IF live[d] /\ Copying(d) = i
                                           THEN mix[d] \cup {new} ELSE mix[d]]
            /\ changing' = [at |-> i, was |-> existing[i]]

\* Mutant: the hosts of one call are not looked for among themselves.
UpsertBlind(c) ==
  /\ pc[c] = "upsert" /\ call[c].left # << >>
  /\ LET h == Head(call[c].left)
         i == Find(assets, h)
     IN  \/ /\ i # 0
            /\ Change(i, Updated(c, existing[i]))
            /\ UNCHANGED moved
         \/ /\ i = 0
            /\ existing' = Append(existing, New(c, h))
            /\ moved' \in {moved, TRUE}
            /\ changing' = NoChange
            /\ UNCHANGED <<assets, view, mix>>
  /\ call' = [call EXCEPT ![c].left = Tail(@)]
  /\ UNCHANGED <<now, findings, tested, writer, pc, live, got, needed, count, recorded>>

\* Mutant: the asset just seen goes to the front of the slice.
UpsertToFront(c) ==
  /\ pc[c] = "upsert" /\ call[c].left # << >>
  /\ LET h == Head(call[c].left)
         i == Find(existing, h)
     IN  \/ /\ i # 0
            /\ existing' = << Updated(c, existing[i]) >> \o RemoveAt(existing, i)
            /\ assets' = IF moved THEN assets ELSE SubSeq(existing', 1, Len(assets))
            /\ view' = [d \in Callers |-> IF live[d] /\ ~moved
                                            THEN SubSeq(existing', 1, Len(view[d]))
                                            ELSE view[d]]
            /\ UNCHANGED <<moved, changing, mix>>
         \/ /\ i = 0
            /\ existing' = Append(existing, New(c, h))
            /\ moved' \in {moved, TRUE}
            /\ changing' = NoChange
            /\ UNCHANGED <<assets, view, mix>>
  /\ call' = [call EXCEPT ![c].left = Tail(@)]
  /\ UNCHANGED <<now, findings, tested, writer, pc, live, got, needed, count, recorded>>

\* One host: the asset it has is changed, or one is appended; whether the
\* array has room for it is up to the allocator.
Upsert(c) ==
  /\ pc[c] = "upsert" /\ call[c].left # << >>
  /\ LET h == Head(call[c].left)
         i == Find(existing, h)
     IN  \/ /\ i # 0
            /\ Change(i, Updated(c, existing[i]))
            /\ UNCHANGED moved
         \/ /\ i = 0
            /\ existing' = Append(existing, New(c, h))
            /\ moved' \in {moved, TRUE}
            /\ changing' = NoChange
            /\ UNCHANGED <<assets, view, mix>>
  /\ call' = [call EXCEPT ![c].left = Tail(@)]
  /\ UNCHANGED <<now, findings, tested, writer, pc, live, got, needed, count, recorded>>

\* The slice is stored, the lock released, and the call returns.
Unlock(c) ==
  /\ call[c].left = << >>
  /\ Goto(c, "upsert", "idle")
  /\ assets' = existing
  /\ live' = [d \in Callers |-> live[d] /\ ~moved]
  /\ writer' = NoOne /\ existing' = << >> /\ moved' = FALSE /\ changing' = NoChange
  /\ recorded' = [h \in Hosts |-> IF h \in ToSet(call[c].hosts)
                                    THEN recorded[h] \cup {call[c].stamp} ELSE recorded[h]]
  /\ call' = [call EXCEPT ![c] = NoCall]
  /\ UNCHANGED <<now, findings, tested, view, mix, got, needed, count>>

Append1(c) ==
  /\ pc[c] = "idle" /\ writer = NoOne
  /\ count < MaxCalls /\ count' = count + 1
  /\ UNCHANGED <<now, assets, lock, pc, call, reader, recorded>>

RecordFinding(c) == Append1(c) /\ findings' = findings + 1 /\ UNCHANGED tested

MarkTested(c) == Append1(c) /\ tested' = tested + 1 /\ UNCHANGED findings

\* handleRecallEngagement begins with GetAssets ...
Recall(c) ==
  /\ Goto(c, "idle", "findings")
  /\ writer = NoOne
  /\ view' = [view EXCEPT ![c] = assets]
  /\ live' = [live EXCEPT ![c] = TRUE]
  /\ needed' = [needed EXCEPT ![c] = [hosts |-> {h \in Hosts : recorded[h] # {}},
                                      findings |-> findings, tested |-> tested]]
  /\ UNCHANGED <<now, store, lock, call, mix, got, count, recorded>>

\* ... then GetFindings and GetTested, under the lock again each time ...
GetFindings(c) ==
  /\ Goto(c, "findings", "tested")
  /\ writer = NoOne
  /\ got' = [got EXCEPT ![c].findings = findings]
  /\ UNCHANGED <<now, store, lock, call, view, live, mix, needed, count, recorded>>

GetTested(c) ==
  /\ Goto(c, "tested", "read")
  /\ writer = NoOne
  /\ got' = [got EXCEPT ![c].tested = tested]
  /\ UNCHANGED <<now, store, lock, call, view, live, mix, needed, count, recorded>>

\* ... and copies the assets one by one, without the lock, field by field.
BeginCopy(c) ==
  /\ pc[c] = "read" /\ mix[c] = {}
  /\ Len(got[c].assets) < Len(view[c])
  /\ LET i == Len(got[c].assets) + 1
     IN  mix' = [mix EXCEPT ![c] = {view[c][i]} \cup
                   (IF live[c] /\ changing.at = i THEN {changing.was} ELSE {})]
  /\ UNCHANGED <<now, store, lock, pc, call, view, live, got, needed, count, recorded>>

\* Each field has one of the values it had meanwhile; of a string that changed,
\* pointer and length may not fit together.
EndCopy(c) ==
  /\ mix[c] # {}
  /\ LET sources == {a.source : a \in mix[c]}
     IN  \E host \in {a.host : a \in mix[c]},
            source \in sources \cup (IF Cardinality(sources) > 1 THEN {Torn} ELSE {}),
            first \in {a.first : a \in mix[c]}, last \in {a.last : a \in mix[c]} :
           got' = [got EXCEPT ![c].assets =
                     Append(@, [host |-> host, source |-> source,
                                first |-> first, last |-> last])]
  /\ mix' = [mix EXCEPT ![c] = {}]
  /\ UNCHANGED <<now, store, lock, pc, call, view, live, needed, count, recorded>>

Recalled(c) == pc[c] = "read" /\ Len(got[c].assets) = Len(view[c])

Return(c) ==
  /\ Recalled(c)
  /\ pc' = [pc EXCEPT ![c] = "idle"]
  /\ view' = [view EXCEPT ![c] = << >>]
  /\ live' = [live EXCEPT ![c] = FALSE]
  /\ got' = [got EXCEPT ![c] = Nothing]
  /\ needed' = [needed EXCEPT ![c] = NoNeed]
  /\ UNCHANGED <<now, store, lock, call, mix, count, recorded>>

Next ==
  \/ Tick
  \/ \E c \in Callers :
       \/ RecordAssets(c) \/ Lock(c) \/ Upsert(c) \/ Unlock(c)
       \/ RecordFinding(c) \/ MarkTested(c)
       \/ Recall(c) \/ GetFindings(c) \/ GetTested(c)
       \/ BeginCopy(c) \/ EndCopy(c) \/ Return(c)

Spec == Init /\ [][Next]_vars
----------------------------------------------------------------------------
Times == 1..MaxTime
Stored == [host : Hosts, source : Seq(Sources), first : Times, last : Times]
Read == [host : Hosts, source : Seq(Sources) \cup {Torn}, first : Times, last : Times]
Idle == {c \in Callers : pc[c] \in {"idle", "findings", "tested", "read"}}

\* Every variable has its type; a stored asset has both its times, and the lock
\* is held exactly while a call works on the assets.
TypeOK ==
  /\ now \in Times
  /\ assets \in Seq(Stored) /\ existing \in Seq(Stored)
  /\ findings \in 0..MaxCalls /\ tested \in 0..MaxCalls /\ count \in 0..MaxCalls
  /\ writer \in Callers \cup {NoOne}
  /\ \A c \in Callers : writer = c <=> pc[c] = "upsert"
  /\ moved \in BOOLEAN
  /\ changing = NoChange \/ changing \in [at : 1..Len(existing), was : Stored]
  /\ pc \in [Callers -> {"idle", "lock", "upsert", "findings", "tested", "read"}]
  /\ \A c \in Idle : call[c] = NoCall
  /\ \A c \in Callers \ Idle :
       call[c] \in [stamp : Times, source : CallSources, hosts : HostLists,
                    left : HostLists \cup {<< >>}]
  /\ view \in [Callers -> Seq(Stored)] /\ live \in [Callers -> BOOLEAN]
  /\ \A c \in Callers : \A a \in mix[c] : a \in Stored
  /\ got \in [Callers -> [assets : Seq(Read), findings : 0..MaxCalls, tested : 0..MaxCalls]]
  /\ recorded \in [Hosts -> SUBSET Times]

\* However calls overlap, and although one call may name a host twice, a host
\* has one asset ("upserts", store.go:72).
OneAssetPerHost ==
  \A list \in {assets, existing} :
    \A i, j \in DOMAIN list : list[i].host = list[j].host => i = j

\* Between calls the store has exactly the hosts that were recorded; first_seen
\* is the earliest of their times and last_seen one of them, though calls may
\* take the lock in another order than they read the clock.
SeenTimesAreTrue ==
  writer = NoOne =>
    /\ {assets[i].host : i \in DOMAIN assets} = {h \in Hosts : recorded[h] # {}}
    /\ \A i \in DOMAIN assets :
         LET times == recorded[assets[i].host]
         IN  assets[i].first = Min(times) /\ assets[i].last \in times

\* A recall has everything that had been recorded when it began, each host
\* once, at times at which it was indeed recorded, although it reads the
\* assets without the lock and beside a call that changes them.
RecallIsComplete ==
  \A c \in Callers : Recalled(c) =>
    /\ got[c].findings >= needed[c].findings /\ got[c].tested >= needed[c].tested
    /\ needed[c].hosts \subseteq {got[c].assets[i].host : i \in DOMAIN got[c].assets}
    /\ \A i, j \in DOMAIN got[c].assets :
         got[c].assets[i].host = got[c].assets[j].host => i = j
    /\ \A i \in DOMAIN got[c].assets :
         LET h == got[c].assets[i].host
         IN  {got[c].assets[i].first, got[c].assets[i].last}
               \subseteq recorded[h] \cup {call[d].stamp : d \in Callers}

\* store.go:241: the sources are "comma-separated, deduped".
SourcesAreDeduped == \A i \in DOMAIN assets : IsInjective(assets[i].source)

\* A recall sees no asset first after it was last seen.
RecallIsConsistent ==
  \A c \in Callers : \A i \in DOMAIN got[c].assets :
    got[c].assets[i].first <= got[c].assets[i].last
============================================================================

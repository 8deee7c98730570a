-------------------------- MODULE AuditTrailProofs --------------------------
(***************************************************************************)
(* Proofs about AuditTrail: what the buffer and the table keep, for any    *)
(* number of callers, entries and crashes and any ring.                    *)
(***************************************************************************)
EXTENDS AuditTrail, TLAPS, FiniteSetTheorems

----------------------------------------------------------------------------
(* The newest elements of a sequence.                                      *)

\* Where the elements of Latest(s, n) come from.
LEMMA LatestElements ==
  ASSUME NEW S, NEW s \in Seq(S), NEW n \in Nat
  PROVE  /\ Latest(s, n) \in Seq(S)
         /\ Len(Latest(s, n)) = IF Len(s) <= n THEN Len(s) ELSE n
         /\ \A i \in 1..Len(Latest(s, n)) :
              /\ Len(s) - Len(Latest(s, n)) + i \in 1..Len(s)
              /\ Latest(s, n)[i] = s[Len(s) - Len(Latest(s, n)) + i]
<1>1. CASE Len(s) <= n
  BY <1>1 DEF Latest
<1>2. CASE Len(s) > n
  <2> DEFINE a == Len(s) - n + 1
  <2>1. a \in 1..(Len(s) + 1) /\ Len(s) - a + 1 = n
    BY <1>2
  <2>2. Latest(s, n) = SubSeq(s, a, Len(s))
    BY <1>2 DEF Latest
  <2>3. \A i \in 1..n : a + i - 1 \in 1..Len(s)
    BY <1>2
  <2>4. /\ SubSeq(s, a, Len(s)) \in Seq(S)
        /\ Len(SubSeq(s, a, Len(s))) = n
        /\ \A i \in 1..n : SubSeq(s, a, Len(s))[i] = s[a + i - 1]
    BY <2>1, <2>3
  <2>5. \A i \in 1..n : Len(s) - n + i = a + i - 1
    OBVIOUS
  <2>6. Len(Latest(s, n)) = n /\ Latest(s, n) \in Seq(S)
    BY <2>2, <2>4
  <2>7. \A i \in 1..n : /\ Len(s) - n + i \in 1..Len(s)
                        /\ Latest(s, n)[i] = s[Len(s) - n + i]
    BY <2>2, <2>3, <2>4, <2>5
  <2> HIDE DEF a
  <2> QED
    BY <1>2, <2>6, <2>7
<1> QED
  BY <1>1, <1>2

\* Sequences of one length and the same elements are equal.
LEMMA SameElements ==
  ASSUME NEW S, NEW s \in Seq(S), NEW t \in Seq(S), Len(s) = Len(t),
         \A i \in 1..Len(s) : s[i] = t[i]
  PROVE  s = t
OBVIOUS

\* The newest of the newest.
LEMMA LatestOfLatest ==
  ASSUME NEW S, NEW s \in Seq(S), NEW n \in Nat
  PROVE  Latest(Latest(s, n), n) = Latest(s, n)
BY LatestElements DEF Latest

\* All of the newest k are among the newest n, if k is no more.
LEMMA LatestOfFewer ==
  ASSUME NEW S, NEW s \in Seq(S), NEW n \in Nat, NEW k \in Nat, k <= n
  PROVE  /\ Latest(s, k) \in Seq(S) /\ Len(Latest(s, k)) <= n
         /\ Latest(Latest(s, k), n) = Latest(s, k)
<1>1. Latest(s, k) \in Seq(S) /\ Len(Latest(s, k)) <= k /\ Len(Latest(s, k)) \in Nat
  BY LatestElements
<1>2. Len(Latest(s, k)) <= n
  BY <1>1
<1> QED
  BY <1>1, <1>2 DEF Latest

\* A buffer that holds the newest elements does so when one more is logged.
LEMMA LatestOfAppend ==
  ASSUME NEW S, NEW s \in Seq(S), NEW e \in S
  PROVE  Latest(Append(s, e), RingSize) = Append(Evicted(Latest(s, RingSize)), e)
<1> DEFINE r == RingSize
           l == Latest(s, r)
           t == Append(s, e)
           m == Latest(t, r)
<1>1. r \in Nat /\ r > 0
  BY AuditAssumption
<1>2. /\ t \in Seq(S) /\ Len(t) = Len(s) + 1
      /\ \A i \in 1..Len(s) : t[i] = s[i]
      /\ t[Len(s) + 1] = e
  OBVIOUS
<1>3. /\ l \in Seq(S) /\ Len(l) = IF Len(s) <= r THEN Len(s) ELSE r
      /\ \A i \in 1..Len(l) : l[i] = s[Len(s) - Len(l) + i]
  BY <1>1, LatestElements
<1> HIDE DEF t, r
<1>0. t \in Seq(S) /\ r \in Nat
  BY <1>1, <1>2
<1>4. /\ m \in Seq(S) /\ Len(m) = IF Len(t) <= r THEN Len(t) ELSE r
      /\ \A i \in 1..Len(m) : m[i] = t[Len(t) - Len(m) + i]
  BY <1>0, LatestElements
<1> HIDE DEF l, m
<1>5. CASE Len(l) < r
  <2>1. Evicted(l) = l /\ Len(m) = Len(s) + 1 /\ Len(l) = Len(s)
    BY <1>1, <1>2, <1>3, <1>4, <1>5 DEF Evicted, r
  <2>2. \A i \in 1..Len(m) : m[i] = Append(l, e)[i]
    <3> SUFFICES ASSUME NEW i \in 1..Len(m) PROVE m[i] = Append(l, e)[i]
      OBVIOUS
    <3>1. m[i] = t[i]
      <4>1. m[i] = t[Len(t) - Len(m) + i]
        BY <1>4
      <4>2. Len(t) - Len(m) + i = i
        BY <1>2, <2>1
      <4> QED
        BY <4>1, <4>2
    <3>2. CASE i \in 1..Len(s)
      <4>1. l[i] = s[i]
        BY <1>3, <2>1, <3>2
      <4> QED
        BY <1>2, <1>3, <2>1, <3>1, <3>2, <4>1
    <3>3. CASE i = Len(s) + 1
      BY <1>2, <1>3, <2>1, <3>1, <3>3
    <3> QED
      BY <2>1, <3>2, <3>3
  <2>3. Append(l, e) \in Seq(S) /\ Len(Append(l, e)) = Len(m)
    BY <1>3, <2>1
  <2> QED
    BY <1>4, <2>1, <2>2, <2>3, SameElements DEF l, m, r, t
<1>6. CASE Len(l) >= r
  <2>1. Evicted(l) = Tail(l) /\ Len(m) = r /\ Len(l) = r /\ Len(s) >= r
    BY <1>1, <1>2, <1>3, <1>4, <1>6 DEF Evicted, r
  <2>2. /\ Tail(l) \in Seq(S) /\ Len(Tail(l)) = r - 1
        /\ \A i \in 1..(r - 1) : Tail(l)[i] = l[i + 1]
    BY <1>1, <1>3, <2>1
  <2>3. /\ Append(Tail(l), e) \in Seq(S) /\ Len(Append(Tail(l), e)) = r
        /\ \A i \in 1..(r - 1) : Append(Tail(l), e)[i] = l[i + 1]
        /\ Append(Tail(l), e)[r] = e
    BY <1>1, <2>2
  <2>4. \A i \in 1..(r - 1) : m[i] = l[i + 1]
    <3> SUFFICES ASSUME NEW i \in 1..(r - 1) PROVE m[i] = l[i + 1]
      OBVIOUS
    <3>1. m[i] = t[Len(s) + 1 - r + i] /\ Len(s) + 1 - r + i \in 1..Len(s)
      <4>1. i \in 1..Len(m)
        BY <1>1, <2>1
      <4>2. m[i] = t[Len(t) - Len(m) + i]
        BY <1>4, <4>1
      <4>3. Len(t) - Len(m) + i = Len(s) + 1 - r + i
        BY <1>1, <1>2, <2>1
      <4>4. Len(s) + 1 - r + i \in 1..Len(s)
        BY <1>1, <2>1
      <4> QED
        BY <4>2, <4>3, <4>4
    <3>2. l[i + 1] = s[Len(s) + 1 - r + i]
      <4>1. i + 1 \in 1..Len(l)
        BY <1>1, <2>1
      <4>2. l[i + 1] = s[Len(s) - Len(l) + (i + 1)]
        BY <1>3, <4>1
      <4>3. Len(s) - Len(l) + (i + 1) = Len(s) + 1 - r + i
        BY <1>1, <2>1
      <4> QED
        BY <4>2, <4>3
    <3> QED
      BY <1>1, <1>2, <3>1, <3>2
  <2>5. m[r] = e
    <3>1. r \in 1..Len(m)
      BY <1>1, <2>1
    <3>2. m[r] = t[Len(t) - Len(m) + r]
      BY <1>4, <3>1
    <3>3. Len(t) - Len(m) + r = Len(s) + 1
      BY <1>1, <1>2, <2>1
    <3> QED
      BY <1>2, <3>2, <3>3
  <2>6. \A i \in 1..Len(m) : m[i] = Append(Tail(l), e)[i]
    BY <1>1, <2>1, <2>3, <2>4, <2>5
  <2> QED
    BY <1>4, <2>1, <2>3, <2>6, SameElements DEF l, m, r, t
<1> QED
  BY <1>1, <1>3, <1>5, <1>6
----------------------------------------------------------------------------
(* Types.                                                                  *)

\* A caller that is about to insert has an entry to insert.
AuditTyped == TypeOK /\ \A c \in Callers : pc[c] = "insert" => saved[c] \in Entry

\* The empty log is its own newest part.
LEMMA NothingLogged ==
  /\ << >> \in Seq(Entry) /\ Len(<< >>) = 0
  /\ \A n \in Nat : Latest(<< >>, n) = << >>
BY DEF Latest

\* A buffer loses its oldest entry to a new one only when it is full.
LEMMA BufferTyped ==
  ASSUME NEW s \in Seq(Entry), Len(s) <= RingSize, NEW e \in Entry
  PROVE  /\ Evicted(s) \in Seq(Entry)
         /\ Append(Evicted(s), e) \in Seq(Entry)
         /\ Len(Append(Evicted(s), e)) <= RingSize
         /\ Append(Evicted(s), e)[Len(Append(Evicted(s), e))] = e
<1>1. RingSize \in Nat /\ RingSize > 0
  BY AuditAssumption
<1>2. Evicted(s) \in Seq(Entry) /\ Len(Evicted(s)) < RingSize
  BY <1>1 DEF Evicted
<1> QED
  BY <1>1, <1>2

\* What an entry is when it is logged.
LEMMA NewEntry ==
  ASSUME TypeOK, NEW c \in Callers, Log(c)
  PROVE  \E e \in Entry :
           /\ e.n = count + 1 /\ e.by = c
           /\ entries' = Append(Evicted(entries), e) /\ stream' = Append(stream, e)
           /\ entries' \in Seq(Entry) /\ Len(entries') <= RingSize
           /\ entries'[Len(entries')] = e
           /\ stream' \in Seq(Entry) /\ count' = count + 1 /\ count' \in 0..MaxEntries
           /\ UNCHANGED <<up, rows, crashes, inserted, refused, untrimmed>>
<1> DEFINE e == [n |-> count + 1, by |-> c]
<1>1. /\ count \in 0..MaxEntries /\ count < MaxEntries /\ MaxEntries \in Nat
      /\ count' = count + 1
      /\ entries' = Append(Evicted(entries), e) /\ stream' = Append(stream, e)
      /\ UNCHANGED <<up, rows, crashes, inserted, refused, untrimmed>>
  BY AuditAssumption DEF Log, TypeOK
<1>2. e \in Entry /\ count' \in 0..MaxEntries
  BY <1>1 DEF Entry
<1>3. e.n = count + 1 /\ e.by = c
  OBVIOUS
<1> HIDE DEF e
<1>4. stream' \in Seq(Entry)
  BY <1>1, <1>2 DEF TypeOK
<1>5. /\ entries' \in Seq(Entry) /\ Len(entries') <= RingSize
      /\ entries'[Len(entries')] = e
  BY <1>1, <1>2, BufferTyped DEF TypeOK
<1> QED
  BY <1>1, <1>2, <1>3, <1>4, <1>5

\* Every step keeps the types.
LEMMA TypesStay == AuditTyped /\ [Next]_vars => AuditTyped'
<1> SUFFICES ASSUME AuditTyped, [Next]_vars PROVE AuditTyped'
  OBVIOUS
<1>t. TypeOK
  BY DEF AuditTyped
<1>r. RingSize \in Nat /\ RingSize - 0 = RingSize
  BY AuditAssumption
<1>1. ASSUME NEW c \in Callers, LogDecision(c) PROVE AuditTyped'
  <2>1. Log(c) /\ UNCHANGED <<pc, saved>>
    BY <1>1 DEF LogDecision
  <2> QED
    BY <1>t, <2>1, NewEntry DEF AuditTyped, TypeOK
<1>2. ASSUME NEW c \in Callers, Add(c) PROVE AuditTyped'
  <2>1. Log(c) /\ pc' = [pc EXCEPT ![c] = "insert"]
               /\ saved' = [saved EXCEPT ![c] = entries'[Len(entries')]]
    BY <1>2 DEF Add
  <2>2. entries'[Len(entries')] \in Entry
    BY <1>t, <2>1, NewEntry
  <2>3. /\ pc' \in [Callers -> {"idle", "insert", "count", "trim"}]
        /\ saved' \in [Callers -> Entry \cup {<< >>}]
        /\ \A d \in Callers : pc'[d] = "insert" => saved'[d] \in Entry
    BY <2>1, <2>2 DEF AuditTyped, TypeOK
  <2> QED
    BY <1>t, <2>1, <2>3, NewEntry DEF AuditTyped, TypeOK
<1>3. ASSUME NEW c \in Callers, Insert(c) PROVE AuditTyped'
  <2>1. saved[c] \in Entry
    BY <1>3 DEF Insert, AuditTyped
  <2>2. /\ pc' \in [Callers -> {"idle", "insert", "count", "trim"}]
        /\ saved' \in [Callers -> Entry \cup {<< >>}]
        /\ \A d \in Callers : pc'[d] = "insert" => d # c /\ pc[d] = "insert"
        /\ \A d \in Callers : d # c => saved'[d] = saved[d]
    BY <1>3, <1>t DEF Insert, TypeOK
  <2>3. rows' \in Seq(Entry) /\ inserted' \in Seq(Entry) /\ refused' \subseteq Entry
    <3>1. Append(rows, saved[c]) \in Seq(Entry) /\ Append(inserted, saved[c]) \in Seq(Entry)
      BY <1>t, <2>1 DEF TypeOK
    <3>2. /\ rows' = Append(rows, saved[c]) \/ rows' = rows
          /\ inserted' = Append(inserted, saved[c]) \/ inserted' = inserted
          /\ refused' \subseteq refused \cup {saved[c]}
      BY <1>3 DEF Insert
    <3> QED
      BY <1>t, <2>1, <3>1, <3>2 DEF TypeOK
  <2>4. UNCHANGED <<up, entries, count, crashes, stream, untrimmed>>
    BY <1>3 DEF Insert
  <2> QED
    BY <1>t, <2>2, <2>3, <2>4 DEF AuditTyped, TypeOK
<1>4. ASSUME NEW c \in Callers, Count(c) PROVE AuditTyped'
  <2>1. untrimmed' \in Nat
    BY <1>4 DEF Count, AuditTyped, TypeOK
  <2>2. pc' \in [Callers -> {"idle", "insert", "count", "trim"}]
        /\ \A d \in Callers : pc'[d] = "insert" => pc[d] = "insert"
    BY <1>4 DEF Count, AuditTyped, TypeOK
  <2> QED
    BY <1>4, <2>1, <2>2 DEF Count, AuditTyped, TypeOK
<1>5. ASSUME NEW c \in Callers, Trim(c) PROVE AuditTyped'
  <2>1. Latest(rows, RingSize) \in Seq(Entry)
    BY <1>t, <1>r, LatestElements DEF TypeOK
  <2>2. rows' \in Seq(Entry) /\ untrimmed' \in Nat
    BY <1>5, <1>t, <2>1 DEF Trim, TypeOK
  <2>3. pc' \in [Callers -> {"idle", "insert", "count", "trim"}]
        /\ \A d \in Callers : pc'[d] = "insert" => pc[d] = "insert"
    BY <1>5 DEF Trim, AuditTyped, TypeOK
  <2> QED
    BY <1>5, <2>2, <2>3 DEF Trim, AuditTyped, TypeOK
<1>6. CASE Crash
  <2>1. Cardinality(Persisting) \in Nat
    BY AuditAssumption, FS_Subset, FS_CardinalityType DEF Persisting
  <2>2. crashes' \in 0..MaxCrashes
    BY <1>6, AuditAssumption DEF Crash, AuditTyped, TypeOK
  <2> QED
    BY <1>6, <1>r, <2>1, <2>2, NothingLogged DEF Crash, AuditTyped, TypeOK
<1>7. CASE Restart
  <2>1. Latest(rows, RingSize) \in Seq(Entry) /\ Len(Latest(rows, RingSize)) <= RingSize
    BY <1>t, <1>r, LatestElements DEF TypeOK
  <2>2. /\ entries' \in Seq(Entry) /\ Len(entries') <= RingSize /\ stream' \in Seq(Entry)
        /\ up' \in {"open", "memory", "down"}
    <3>1. CASE up' = "open" /\ entries' = Latest(rows, RingSize) /\ stream' = inserted
      BY <1>t, <2>1, <3>1 DEF TypeOK
    <3>3. ASSUME NEW k \in 0..RingSize - 1, up' = "open",
                 entries' = Latest(rows, k), stream' = Latest(rows, k)
          PROVE  /\ entries' \in Seq(Entry) /\ Len(entries') <= RingSize
                 /\ stream' \in Seq(Entry) /\ up' \in {"open", "memory", "down"}
      <4>1. rows \in Seq(Entry) /\ k \in Nat /\ k <= RingSize
        BY <1>t, <1>r DEF TypeOK
      <4> QED
        BY <1>r, <3>3, <4>1, LatestOfFewer
    <3>2. CASE up' = "memory" /\ entries' = << >> /\ stream' = << >>
      <4>1. Len(<< >>) <= RingSize
        BY <1>r, NothingLogged
      <4> QED
        BY <3>2, <4>1, NothingLogged
    <3> QED
      BY <1>7, <3>1, <3>2, <3>3 DEF Restart
  <2> QED
    BY <1>7, <2>2 DEF Restart, AuditTyped, TypeOK
<1>8. CASE UNCHANGED vars
  BY <1>8 DEF vars, AuditTyped, TypeOK
<1> QED
  BY <1>1, <1>2, <1>3, <1>4, <1>5, <1>6, <1>7, <1>8 DEF Next
----------------------------------------------------------------------------
(* What buffer and table keep.                                             *)

AuditInv == AuditTyped /\ NewestAreKept

\* A caller that begins or ends to persist changes the number of those that do by one.
LEMMA PersistingCounts ==
  /\ IsFiniteSet(Persisting) /\ Cardinality(Persisting) \in Nat
  /\ \A c \in Callers \ Persisting :
       Cardinality(Persisting \cup {c}) = Cardinality(Persisting) + 1
  /\ \A c \in Persisting : Cardinality(Persisting \ {c}) = Cardinality(Persisting) - 1
<1>1. IsFiniteSet(Persisting)
  BY AuditAssumption, FS_Subset DEF Persisting
<1> QED
  BY <1>1, FS_CardinalityType, FS_AddElement, FS_RemoveElement

\* Every step keeps the newest.
LEMMA NewestStay == AuditInv /\ [Next]_vars => AuditInv'
<1> SUFFICES ASSUME AuditInv, [Next]_vars PROVE AuditInv'
  OBVIOUS
<1> DEFINE p == Cardinality(Persisting)
<1>t. AuditTyped /\ TypeOK /\ AuditTyped' /\ TypeOK'
  BY TypesStay DEF AuditInv, AuditTyped
<1>r. RingSize \in Nat /\ RingSize > 0
  BY AuditAssumption
<1>o. BufferIsLatest /\ TableKeepsLatest /\ TableIsBounded
  BY DEF AuditInv, NewestAreKept
<1>i. ASSUME BufferIsLatest', TableKeepsLatest', TableIsBounded' PROVE AuditInv'
  BY <1>i, <1>t DEF AuditInv, NewestAreKept
<1>c. /\ p \in Nat /\ untrimmed \in Nat /\ rows \in Seq(Entry) /\ inserted \in Seq(Entry)
      /\ DOMAIN pc = Callers /\ Len(rows) \in Nat
  BY <1>t, PersistingCounts DEF TypeOK
<1>p. p' \in Nat
  BY AuditAssumption, FS_Subset, FS_CardinalityType DEF Persisting
\* The table, its trims and its history stay, and the buffer goes on.
<1>l. ASSUME NEW c \in Callers, Log(c), Persisting' = Persisting PROVE AuditInv'
  <2>1. PICK e \in Entry : /\ entries' = Append(Evicted(entries), e)
                           /\ stream' = Append(stream, e)
                           /\ UNCHANGED <<up, rows, inserted, untrimmed>>
    BY <1>l, <1>t, NewEntry
  <2>2. up # "down"
    BY <1>l DEF Log
  <2>3. BufferIsLatest'
    BY <1>o, <1>t, <2>1, <2>2, LatestOfAppend DEF BufferIsLatest, TypeOK
  <2>4. TableKeepsLatest' /\ TableIsBounded'
    BY <1>l, <1>o, <2>1 DEF TableKeepsLatest, TableIsBounded
  <2> QED
    BY <1>i, <2>3, <2>4
<1>1. ASSUME NEW c \in Callers, LogDecision(c) PROVE AuditInv'
  BY <1>1, <1>l DEF LogDecision, Persisting
<1>2. ASSUME NEW c \in Callers, Add(c) PROVE AuditInv'
  <2>1. Log(c) /\ pc[c] = "idle" /\ pc' = [pc EXCEPT ![c] = "insert"]
    BY <1>2 DEF Add, Log
  <2>2. Persisting' = Persisting
    BY <1>c, <2>1 DEF Persisting
  <2> QED
    BY <1>l, <2>1, <2>2
<1>3. ASSUME NEW c \in Callers, Insert(c) PROVE AuditInv'
  <2>1. saved[c] \in Entry /\ c \notin Persisting /\ UNCHANGED <<up, entries, stream, untrimmed>>
    BY <1>3, <1>t DEF Insert, AuditTyped, Persisting
  <2>2. BufferIsLatest'
    BY <1>o, <2>1 DEF BufferIsLatest
  <2>3. CASE rows' = Append(rows, saved[c]) /\ inserted' = Append(inserted, saved[c])
             /\ pc' = [pc EXCEPT ![c] = "count"]
    <3>1. TableKeepsLatest'
      BY <1>c, <1>o, <2>1, <2>3, LatestOfAppend DEF TableKeepsLatest
    <3>2. Persisting' = Persisting \cup {c}
      BY <1>c, <2>3 DEF Persisting
    <3>3. p' = p + 1
      BY <2>1, <3>2, PersistingCounts
    <3>4. Len(rows') = Len(rows) + 1
      BY <1>c, <2>1, <2>3
    <3>5. TableIsBounded'
      BY <1>c, <1>o, <1>r, <2>1, <3>3, <3>4 DEF TableIsBounded
    <3> QED
      BY <1>i, <2>2, <3>1, <3>5
  <2>4. CASE UNCHANGED <<rows, inserted>> /\ pc' = [pc EXCEPT ![c] = "idle"]
    <3>1. Persisting' = Persisting
      BY <1>c, <2>1, <2>4 DEF Persisting
    <3> QED
      BY <1>i, <1>o, <2>1, <2>2, <2>4, <3>1 DEF TableKeepsLatest, TableIsBounded
  <2> QED
    BY <1>3, <2>3, <2>4 DEF Insert
<1>4. ASSUME NEW c \in Callers, Count(c) PROVE AuditInv'
  <2>1. c \in Persisting /\ UNCHANGED <<up, entries, rows, stream, inserted>>
    BY <1>4 DEF Count, Persisting
  <2>2. BufferIsLatest' /\ TableKeepsLatest'
    BY <1>o, <2>1 DEF BufferIsLatest, TableKeepsLatest
  <2>3. CASE pc' = [pc EXCEPT ![c] = "idle"] /\ untrimmed' = untrimmed + 1
    <3>1. Persisting' = Persisting \ {c}
      BY <1>c, <2>3 DEF Persisting
    <3>2. p' = p - 1
      BY <2>1, <3>1, PersistingCounts
    <3> QED
      BY <1>c, <1>i, <1>o, <1>r, <2>1, <2>2, <2>3, <3>2 DEF TableIsBounded
  <2>4. CASE /\ pc' = [pc EXCEPT ![c] = IF Len(rows) > RingSize * 2 THEN "trim" ELSE "idle"]
             /\ UNCHANGED untrimmed
    <3>1. CASE Len(rows) > RingSize * 2
      <4>1. Persisting' = Persisting
        BY <1>c, <2>1, <2>4, <3>1 DEF Persisting
      <4> QED
        BY <1>i, <1>o, <2>1, <2>2, <2>4, <4>1 DEF TableIsBounded
    <3>2. CASE Len(rows) <= RingSize * 2
      BY <1>c, <1>i, <1>p, <1>r, <2>1, <2>2, <2>4, <3>2 DEF TableIsBounded
    <3> QED
      BY <1>c, <1>r, <3>1, <3>2
  <2> QED
    BY <1>4, <2>3, <2>4 DEF Count
<1>5. ASSUME NEW c \in Callers, Trim(c) PROVE AuditInv'
  <2>1. c \in Persisting /\ UNCHANGED <<up, entries, stream, inserted>>
    BY <1>5 DEF Trim, Persisting
  <2>2. BufferIsLatest'
    BY <1>o, <2>1 DEF BufferIsLatest
  <2>3. CASE rows' = Latest(rows, RingSize) /\ UNCHANGED untrimmed
    <3>1. TableKeepsLatest'
      BY <1>c, <1>o, <1>r, <2>1, <2>3, LatestOfLatest DEF TableKeepsLatest
    <3>2. Len(rows') <= RingSize /\ Len(rows') \in Nat
      BY <1>c, <1>r, <2>3, LatestElements
    <3> QED
      BY <1>c, <1>i, <1>p, <1>r, <2>2, <2>3, <3>1, <3>2 DEF TableIsBounded
  <2>4. CASE UNCHANGED rows /\ untrimmed' = untrimmed + 1
    <3>1. Persisting' = Persisting \ {c}
      BY <1>5, <1>c DEF Persisting, Trim
    <3>2. p' = p - 1
      BY <2>1, <3>1, PersistingCounts
    <3>3. TableIsBounded'
      BY <1>c, <1>o, <1>r, <2>4, <3>2 DEF TableIsBounded
    <3> QED
      BY <1>i, <1>o, <2>1, <2>2, <2>4, <3>3 DEF TableKeepsLatest
  <2> QED
    BY <1>5, <2>3, <2>4 DEF Trim
<1>6. CASE Crash
  <2>1. /\ up' = "down" /\ UNCHANGED <<rows, inserted>> /\ untrimmed' = untrimmed + p
        /\ pc' = [c \in Callers |-> "idle"]
    BY <1>6 DEF Crash
  <2>2. Persisting' = {}
    BY <2>1 DEF Persisting
  <2>3. p' = 0
    BY <2>2, FS_EmptySet
  <2> QED
    BY <1>c, <1>i, <1>o, <1>r, <2>1, <2>3
       DEF BufferIsLatest, TableKeepsLatest, TableIsBounded
<1>7. CASE Restart
  <2>1. UNCHANGED <<rows, inserted, untrimmed, pc>>
    BY <1>7 DEF Restart
  <2>2. TableKeepsLatest' /\ TableIsBounded'
    BY <1>o, <2>1 DEF TableKeepsLatest, TableIsBounded, Persisting
  <2>3. BufferIsLatest'
    <3>1. ASSUME NEW k \in 0..RingSize - 1,
                 entries' = Latest(rows, k), stream' = Latest(rows, k)
          PROVE  entries' = Latest(stream', RingSize)
      <4>1. rows \in Seq(Entry) /\ k \in Nat /\ k <= RingSize
        BY <1>t, <1>r DEF TypeOK
      <4> QED
        BY <1>r, <3>1, <4>1, LatestOfFewer
    <3> QED
      BY <1>7, <1>o, <1>r, <3>1, NothingLogged DEF Restart, BufferIsLatest, TableKeepsLatest
  <2> QED
    BY <1>i, <2>2, <2>3
<1>8. CASE UNCHANGED vars
  BY <1>8, <1>i, <1>o
     DEF vars, BufferIsLatest, TableKeepsLatest, TableIsBounded, Persisting
<1> QED
  BY <1>1, <1>2, <1>3, <1>4, <1>5, <1>6, <1>7, <1>8 DEF Next

\* The buffer and the table keep the newest, and the table its bound, for any number of
\* callers, entries and crashes and a ring of any size.
THEOREM TheNewestAreKept == Spec => []NewestAreKept
<1>1. Init => AuditInv
  <2> SUFFICES ASSUME Init PROVE AuditInv
    OBVIOUS
  <2>1. RingSize \in Nat /\ MaxEntries \in Nat /\ MaxCrashes \in Nat
    BY AuditAssumption
  <2>2. AuditTyped
    BY <2>1, NothingLogged DEF Init, AuditTyped, TypeOK
  <2>3. NewestAreKept
    BY <2>1, NothingLogged, PersistingCounts
       DEF Init, NewestAreKept, BufferIsLatest, TableKeepsLatest, TableIsBounded
  <2> QED
    BY <2>2, <2>3 DEF AuditInv
<1>2. AuditInv /\ [Next]_vars => AuditInv'
  BY NewestStay
<1>3. AuditInv => NewestAreKept
  BY DEF AuditInv
<1> QED
  BY <1>1, <1>2, <1>3, PTL DEF Spec
----------------------------------------------------------------------------
(* Order. What a caller is still to insert is newer than its rows.         *)

Ordered(s) ==
  \A i, j \in 1..Len(s) : i < j /\ s[i].by = s[j].by => s[i].n < s[j].n

\* A sequence of entries, in order, of those that were logged so far.
Past(s, k) == s \in Seq(Entry) /\ Ordered(s) /\ \A i \in 1..Len(s) : s[i].n <= k

OrderInv ==
  /\ AuditTyped
  /\ Past(entries, count) /\ Past(rows, count)
  /\ \A c \in Callers : pc[c] = "insert" =>
       /\ saved[c].by = c /\ saved[c].n <= count
       /\ \A i \in 1..Len(rows) : rows[i].by = c => rows[i].n < saved[c].n

\* An entry newer than those of its caller is put last.
LEMMA AppendOrdered ==
  ASSUME NEW s \in Seq(Entry), Ordered(s), NEW e \in Entry,
         \A i \in 1..Len(s) : s[i].by = e.by => s[i].n < e.n
  PROVE  Ordered(Append(s, e))
<1>1. /\ Len(Append(s, e)) = Len(s) + 1 /\ Append(s, e)[Len(s) + 1] = e
      /\ \A i \in 1..Len(s) : Append(s, e)[i] = s[i]
  OBVIOUS
<1>2. ASSUME NEW i \in 1..(Len(s) + 1), NEW j \in 1..(Len(s) + 1), i < j,
             Append(s, e)[i].by = Append(s, e)[j].by
      PROVE  Append(s, e)[i].n < Append(s, e)[j].n
  <2>1. i \in 1..Len(s) /\ Append(s, e)[i] = s[i]
    BY <1>1, <1>2
  <2>2. CASE j \in 1..Len(s)
    <3>1. Append(s, e)[j] = s[j]
      BY <1>1, <2>2
    <3> QED
      BY <1>2, <2>1, <2>2, <3>1 DEF Ordered
  <2>3. CASE j = Len(s) + 1
    <3>1. Append(s, e)[j] = e
      BY <1>1, <2>3
    <3> QED
      BY <1>2, <2>1, <3>1
  <2> QED
    BY <2>2, <2>3
<1> QED
  BY <1>1, <1>2 DEF Ordered

\* The newest of what is in order are in order.
LEMMA LatestOrdered ==
  ASSUME NEW s, NEW k, Past(s, k), NEW n \in Nat
  PROVE  Past(Latest(s, n), k)
<1> DEFINE l == Latest(s, n)
           d == Len(s) - Len(l)
<1>1. /\ s \in Seq(Entry) /\ Ordered(s) /\ \A i \in 1..Len(s) : s[i].n <= k
      /\ l \in Seq(Entry) /\ d \in Int
      /\ \A i \in 1..Len(l) : d + i \in 1..Len(s) /\ l[i] = s[d + i]
  BY LatestElements DEF Past
<1> HIDE DEF l, d
<1>2. ASSUME NEW i \in 1..Len(l), NEW j \in 1..Len(l), i < j, l[i].by = l[j].by
      PROVE  l[i].n < l[j].n
  <2>1. d + i < d + j /\ l[i] = s[d + i] /\ l[j] = s[d + j]
    BY <1>1, <1>2
  <2> QED
    BY <1>1, <1>2, <2>1 DEF Ordered
<1>3. \A i \in 1..Len(l) : l[i].n <= k
  BY <1>1
<1> QED
  BY <1>1, <1>2, <1>3 DEF Past, Ordered, l

\* A full buffer that loses its oldest entry is in order.
LEMMA EvictedOrdered ==
  ASSUME NEW s, NEW k, Past(s, k)
  PROVE  Past(Evicted(s), k)
<1>1. RingSize \in Nat /\ RingSize > 0 /\ s \in Seq(Entry)
  BY AuditAssumption DEF Past
<1>2. CASE Len(s) >= RingSize
  <2>1. /\ Tail(s) \in Seq(Entry) /\ Len(Tail(s)) = Len(s) - 1
        /\ \A i \in 1..Len(Tail(s)) : i + 1 \in 1..Len(s) /\ Tail(s)[i] = s[i + 1]
    BY <1>1, <1>2
  <2>2. ASSUME NEW i \in 1..Len(Tail(s)), NEW j \in 1..Len(Tail(s)), i < j,
               Tail(s)[i].by = Tail(s)[j].by
        PROVE  Tail(s)[i].n < Tail(s)[j].n
    <3>1. i + 1 < j + 1 /\ Tail(s)[i] = s[i + 1] /\ Tail(s)[j] = s[j + 1]
      BY <2>1, <2>2
    <3> QED
      BY <2>1, <2>2, <3>1 DEF Past, Ordered
  <2>3. \A i \in 1..Len(Tail(s)) : Tail(s)[i].n <= k
    BY <2>1 DEF Past
  <2> QED
    BY <1>2, <2>1, <2>2, <2>3 DEF Past, Ordered, Evicted
<1>3. CASE Len(s) < RingSize
  BY <1>1, <1>3 DEF Evicted
<1> QED
  BY <1>1, <1>2, <1>3

\* A new entry, with the next number, is put last.
LEMMA NextOrdered ==
  ASSUME NEW s, NEW k \in Nat, Past(s, k), NEW e \in Entry, e.n = k + 1
  PROVE  Past(Append(s, e), k + 1)
<1>1. s \in Seq(Entry) /\ Ordered(s) /\ \A i \in 1..Len(s) : s[i] \in Entry /\ s[i].n <= k
  BY DEF Past
<1>2. \A i \in 1..Len(s) : s[i].n \in Nat
  BY <1>1, AuditAssumption DEF Entry
<1>3. \A i \in 1..Len(s) : s[i].n < e.n
  BY <1>1, <1>2
<1>4. Ordered(Append(s, e)) /\ Append(s, e) \in Seq(Entry)
  BY <1>1, <1>3, AppendOrdered
<1>5. /\ Len(Append(s, e)) = Len(s) + 1 /\ Append(s, e)[Len(s) + 1] = e
      /\ \A i \in 1..Len(s) : Append(s, e)[i] = s[i]
  BY <1>1
<1>6. ASSUME NEW i \in 1..(Len(s) + 1) PROVE Append(s, e)[i].n <= k + 1
  <2>1. CASE i \in 1..Len(s)
    BY <1>1, <1>2, <1>5, <2>1
  <2>2. CASE i = Len(s) + 1
    BY <1>5, <2>2
  <2> QED
    BY <1>1, <2>1, <2>2
<1> QED
  BY <1>4, <1>5, <1>6 DEF Past

\* Every step keeps the order.
LEMMA OrderStays == OrderInv /\ [Next]_vars => OrderInv'
<1> SUFFICES ASSUME OrderInv, [Next]_vars PROVE OrderInv'
  OBVIOUS
<1> DEFINE Pending(c) ==
      pc[c] = "insert" =>
        /\ saved[c].by = c /\ saved[c].n <= count
        /\ \A i \in 1..Len(rows) : rows[i].by = c => rows[i].n < saved[c].n
<1>t. TypeOK /\ AuditTyped'
  BY TypesStay DEF OrderInv, AuditTyped
<1>0. /\ Past(entries, count) /\ Past(rows, count) /\ \A c \in Callers : Pending(c)
      /\ count \in Nat /\ RingSize \in Nat /\ DOMAIN pc = Callers /\ DOMAIN saved = Callers
      /\ \A c \in Callers : pc[c] = "insert" => saved[c] \in Entry
  BY <1>t, AuditAssumption DEF OrderInv, TypeOK, AuditTyped
<1>i. ASSUME Past(entries, count)', Past(rows, count)', \A c \in Callers : Pending(c)'
      PROVE  OrderInv'
  BY <1>i, <1>t DEF OrderInv
<1>n. \A e \in Entry : e.n \in Nat
  BY AuditAssumption DEF Entry
<1>e. /\ \A i \in 1..Len(rows) : rows[i] \in Entry /\ rows[i].n <= count
      /\ rows \in Seq(Entry) /\ entries \in Seq(Entry)
  BY <1>0 DEF Past
\* An entry is logged.
<1>l. ASSUME NEW c \in Callers, Log(c)
      PROVE  /\ Past(entries', count') /\ Past(rows', count') /\ count' = count + 1
             /\ rows' = rows /\ entries'[Len(entries')].n = count + 1
             /\ entries'[Len(entries')].by = c
             /\ \A d \in Callers : pc[d] = "insert" => saved[d].n <= count'
  <2>1. PICK e \in Entry : /\ e.n = count + 1 /\ e.by = c
                           /\ entries' = Append(Evicted(entries), e)
                           /\ entries'[Len(entries')] = e
                           /\ count' = count + 1 /\ rows' = rows
    BY <1>l, <1>t, NewEntry
  <2>2. Past(entries', count')
    BY <1>0, <2>1, EvictedOrdered, NextOrdered
  <2>3. Past(rows', count')
    <3>1. \A i \in 1..Len(rows) : rows[i].n <= count + 1
      BY <1>0, <1>e, <1>n
    <3> QED
      BY <1>0, <2>1, <3>1 DEF Past
  <2>4. \A d \in Callers : pc[d] = "insert" => saved[d].n <= count'
    BY <1>0, <1>n, <2>1
  <2> QED
    BY <2>1, <2>2, <2>3, <2>4
<1>1. ASSUME NEW c \in Callers, LogDecision(c) PROVE OrderInv'
  BY <1>0, <1>1, <1>i, <1>l DEF LogDecision
<1>2. ASSUME NEW c \in Callers, Add(c) PROVE OrderInv'
  <2>1. /\ Log(c) /\ pc' = [pc EXCEPT ![c] = "insert"]
        /\ saved' = [saved EXCEPT ![c] = entries'[Len(entries')]]
    BY <1>2 DEF Add
  <2>2. /\ pc'[c] = "insert" /\ saved'[c] = entries'[Len(entries')]
        /\ \A d \in Callers : d # c => pc'[d] = pc[d] /\ saved'[d] = saved[d]
    BY <1>0, <2>1
  <2>3. \A i \in 1..Len(rows) : rows[i].n < count + 1
    BY <1>0, <1>e, <1>n
  <2>4. /\ Past(entries', count') /\ Past(rows', count') /\ count' = count + 1
        /\ rows' = rows /\ saved'[c].n = count + 1 /\ saved'[c].by = c
        /\ \A d \in Callers : pc[d] = "insert" => saved[d].n <= count'
    BY <1>l, <2>1, <2>2
  <2>5. Pending(c)'
    BY <1>0, <2>3, <2>4
  <2>6. \A d \in Callers : d # c => Pending(d)'
    BY <1>0, <2>2, <2>4
  <2> QED
    BY <1>i, <2>4, <2>5, <2>6
<1>3. ASSUME NEW c \in Callers, Insert(c) PROVE OrderInv'
  <2>1. /\ saved[c] \in Entry /\ saved[c].by = c /\ saved[c].n <= count
        /\ \A i \in 1..Len(rows) : rows[i].by = c => rows[i].n < saved[c].n
        /\ UNCHANGED <<entries, count>>
    BY <1>0, <1>3 DEF Insert
  <2>2. \A d \in Callers : pc'[d] = "insert" =>
          d # c /\ pc[d] = "insert" /\ saved'[d] = saved[d]
    BY <1>0, <1>3 DEF Insert
  <2>3. CASE rows' = Append(rows, saved[c])
    <3>1. /\ Len(rows') = Len(rows) + 1 /\ rows'[Len(rows) + 1] = saved[c]
          /\ \A i \in 1..Len(rows) : rows'[i] = rows[i]
          /\ rows' \in Seq(Entry) /\ Len(rows) \in Nat
      BY <1>e, <2>1, <2>3
    <3>2. Ordered(rows')
      BY <1>0, <2>1, <2>3, AppendOrdered DEF Past
    <3>3. \A i \in 1..Len(rows') :
            (i \in 1..Len(rows) /\ rows'[i] = rows[i]) \/ rows'[i] = saved[c]
      BY <3>1
    <3>4. Past(rows', count')
      BY <1>e, <2>1, <3>1, <3>2, <3>3 DEF Past
    <3>5. \A d \in Callers : Pending(d)'
      BY <1>0, <2>1, <2>2, <3>3
    <3> QED
      BY <1>0, <1>i, <2>1, <3>4, <3>5
  <2>4. CASE UNCHANGED rows
    BY <1>0, <1>i, <2>1, <2>2, <2>4
  <2> QED
    BY <1>3, <2>3, <2>4 DEF Insert
<1>4. ASSUME NEW c \in Callers, Count(c) PROVE OrderInv'
  <2>1. /\ UNCHANGED <<entries, rows, count, saved>>
        /\ \A d \in Callers : pc'[d] = "insert" => pc[d] = "insert"
    BY <1>0, <1>4 DEF Count
  <2> QED
    BY <1>0, <1>i, <2>1
<1>5. ASSUME NEW c \in Callers, Trim(c) PROVE OrderInv'
  <2>1. /\ UNCHANGED <<entries, count, saved>>
        /\ \A d \in Callers : pc'[d] = "insert" => pc[d] = "insert"
        /\ rows' = Latest(rows, RingSize) \/ rows' = rows
    BY <1>0, <1>5 DEF Trim
  <2>2. Past(rows', count')
    BY <1>0, <2>1, LatestOrdered
  <2>3. \A i \in 1..Len(rows') : \E j \in 1..Len(rows) : rows'[i] = rows[j]
    <3> DEFINE kept == Latest(rows, RingSize)
    <3>1. \A i \in 1..Len(kept) : /\ Len(rows) - Len(kept) + i \in 1..Len(rows)
                                  /\ kept[i] = rows[Len(rows) - Len(kept) + i]
      BY <1>0, <1>e, LatestElements
    <3> HIDE DEF kept
    <3>2. \A i \in 1..Len(kept) : \E j \in 1..Len(rows) : kept[i] = rows[j]
      BY <3>1
    <3>3. rows' = kept \/ rows' = rows
      BY <2>1 DEF kept
    <3> QED
      BY <3>2, <3>3
  <2>4. \A d \in Callers : Pending(d)'
    BY <1>0, <2>1, <2>3
  <2> QED
    BY <1>0, <1>i, <2>1, <2>2, <2>4
<1>6. CASE Crash
  <2>1. /\ UNCHANGED <<rows, count>> /\ entries' = << >>
        /\ \A c \in Callers : pc'[c] = "idle"
    BY <1>6 DEF Crash
  <2>2. Past(<< >>, count)
    BY NothingLogged DEF Past, Ordered
  <2> QED
    BY <1>0, <1>i, <2>1, <2>2
<1>7. CASE Restart
  <2>1. /\ UNCHANGED <<rows, count, pc, saved>>
        /\ entries' = << >> \/ \E k \in 0..RingSize : entries' = Latest(rows, k)
    BY <1>7, AuditAssumption DEF Restart
  <2>2. Past(<< >>, count)
    BY NothingLogged DEF Past, Ordered
  <2>3. \A k \in 0..RingSize : Past(Latest(rows, k), count)
    <3>1. \A k \in 0..RingSize : k \in Nat
      BY AuditAssumption
    <3> QED
      BY <1>0, <3>1, LatestOrdered
  <2> QED
    BY <1>0, <1>i, <2>1, <2>2, <2>3
<1>8. CASE UNCHANGED vars
  BY <1>0, <1>8, <1>i DEF vars
<1> QED
  BY <1>1, <1>2, <1>3, <1>4, <1>5, <1>6, <1>7, <1>8 DEF Next

\* What one goroutine has logged stays in its order, in the table and in any buffer
\* filled from it, for the same.
THEOREM EveryCallerInOrder == Spec => []CallersInOrder
<1>1. Init => OrderInv
  <2> SUFFICES ASSUME Init PROVE OrderInv
    OBVIOUS
  <2>1. RingSize \in Nat /\ MaxEntries \in Nat /\ MaxCrashes \in Nat
    BY AuditAssumption
  <2>2. AuditTyped
    BY <2>1, NothingLogged DEF Init, AuditTyped, TypeOK
  <2> QED
    BY <2>2, NothingLogged DEF Init, OrderInv, Past, Ordered
<1>2. OrderInv /\ [Next]_vars => OrderInv'
  BY OrderStays
<1>3. OrderInv => CallersInOrder
  <2> SUFFICES ASSUME OrderInv, NEW s \in {entries, rows}
               PROVE  \A i, j \in DOMAIN s : i < j /\ s[i].by = s[j].by => s[i].n < s[j].n
    BY DEF CallersInOrder
  <2>1. s \in Seq(Entry) /\ Ordered(s)
    BY DEF OrderInv, Past
  <2> QED
    BY <2>1 DEF Ordered
<1> QED
  BY <1>1, <1>2, <1>3, PTL DEF Spec
============================================================================

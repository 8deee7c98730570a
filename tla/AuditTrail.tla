----------------------------- MODULE AuditTrail -----------------------------
(***************************************************************************)
(* The audit log of the proxy (internal/audit): a ring buffer in memory    *)
(* (Logger) and the SQLite table behind it (PersistentLogger), from which  *)
(* a restart fills the buffer again.                                       *)
(*                                                                         *)
(* Add appends to the buffer under its lock, then inserts a row and trims  *)
(* the table without one: other calls and a crash come in between, and     *)
(* every error of the database is passed over in silence. The proxy's      *)
(* LogDecision calls the embedded Logger's Log, which is the first half.   *)
(* What an entry says is left out; it is known by who logged it and when.  *)
(***************************************************************************)
EXTENDS Integers, Sequences, FiniteSets

CONSTANTS
  Callers,     \* goroutines that log
  RingSize,    \* entries kept in memory; the table keeps up to twice as many
  LogOnly,     \* callers that call LogDecision, the others call Add
  MaxEntries,  \* bound: entries ever logged
  MaxCrashes   \* bound: crashes of the server

ASSUME AuditAssumption ==
  /\ RingSize \in Nat \ {0}
  /\ LogOnly \subseteq Callers /\ IsFiniteSet(Callers)
  /\ MaxEntries \in Nat /\ MaxCrashes \in Nat

VARIABLES
  up,        \* "open": the server runs with its database, "memory": without, "down"
  entries,   \* Logger.entries, oldest first
  rows,      \* the table audit_entries in rowid order
  pc,        \* what each caller does next: nothing ("idle") or a step of persist
  saved,     \* the entry a caller is about to insert
  count,     \* how many entries have been logged so far
  crashes,
  stream,    \* history: what the buffer has been given since the start, replay included
  inserted,  \* history: the rows that were ever inserted
  refused,   \* history: the entries whose insert failed
  untrimmed  \* history: inserts whose trim failed or never came

vars == <<up, entries, rows, pc, saved, count, crashes, stream, inserted, refused,
          untrimmed>>

Entry == [n : 1..MaxEntries, by : Callers]

\* The last n elements, as "ORDER BY rowid DESC LIMIT n" selects them.
Latest(s, n) == IF Len(s) <= n THEN s ELSE SubSeq(s, Len(s) - n + 1, Len(s))

\* A full buffer loses its oldest entry.
Evicted(s) == IF Len(s) >= RingSize THEN Tail(s) ELSE s

Persisting == {c \in Callers : pc[c] \in {"count", "trim"}}
----------------------------------------------------------------------------
Init ==
  /\ up = "down"
  /\ entries = << >> /\ rows = << >>
  /\ pc = [c \in Callers |-> "idle"]
  /\ saved = [c \in Callers |-> << >>]
  /\ count = 0 /\ crashes = 0
  /\ stream = << >> /\ inserted = << >> /\ refused = {} /\ untrimmed = 0

\* Logger.Log, in one step under its lock.
Log(c) ==
  LET e == [n |-> count + 1, by |-> c]
  IN  /\ up # "down" /\ pc[c] = "idle"
      /\ count < MaxEntries
      /\ count' = count + 1
      /\ entries' = Append(Evicted(entries), e)
      /\ stream' = Append(stream, e)
      /\ UNCHANGED <<up, rows, crashes, inserted, refused, untrimmed>>

\* Proxy.LogDecision.
LogDecision(c) == c \in LogOnly /\ Log(c) /\ UNCHANGED <<pc, saved>>

\* PersistentLogger.Add, as far as Log.
Add(c) ==
  /\ c \notin LogOnly /\ up = "open"
  /\ Log(c)
  /\ pc' = [pc EXCEPT ![c] = "insert"]
  /\ saved' = [saved EXCEPT ![c] = entries'[Len(entries')]]

\* The INSERT, or its silent failure.
Insert(c) ==
  /\ pc[c] = "insert"
  /\ \/ /\ rows' = Append(rows, saved[c])
        /\ inserted' = Append(inserted, saved[c])
        /\ pc' = [pc EXCEPT ![c] = "count"]
        /\ UNCHANGED refused
     \/ /\ refused' = refused \cup {saved[c]}
        /\ pc' = [pc EXCEPT ![c] = "idle"]
        /\ UNCHANGED <<rows, inserted>>
  /\ saved' = [saved EXCEPT ![c] = << >>]
  /\ UNCHANGED <<up, entries, count, crashes, stream, untrimmed>>

\* SELECT COUNT(*), which leaves 0 when it fails.
Count(c) ==
  /\ pc[c] = "count"
  /\ \/ /\ pc' = [pc EXCEPT ![c] = IF Len(rows) > RingSize * 2 THEN "trim" ELSE "idle"]
        /\ UNCHANGED untrimmed
     \/ /\ pc' = [pc EXCEPT ![c] = "idle"]
        /\ untrimmed' = untrimmed + 1
  /\ UNCHANGED <<up, entries, rows, saved, count, crashes, stream, inserted, refused>>

\* Mutant: the DELETE keeps one row too few.
TrimOneMore(c) ==
  /\ pc[c] = "trim"
  /\ pc' = [pc EXCEPT ![c] = "idle"]
  /\ rows' = Latest(rows, RingSize - 1)
  /\ UNCHANGED <<up, entries, saved, count, crashes, stream, inserted, refused,
                 untrimmed>>

\* The DELETE, or its silent failure.
Trim(c) ==
  /\ pc[c] = "trim"
  /\ pc' = [pc EXCEPT ![c] = "idle"]
  /\ \/ rows' = Latest(rows, RingSize) /\ UNCHANGED untrimmed
     \/ untrimmed' = untrimmed + 1 /\ UNCHANGED rows
  /\ UNCHANGED <<up, entries, saved, count, crashes, stream, inserted, refused>>

\* The server dies, and with it the buffer and every call under way.
Crash ==
  /\ up # "down" /\ crashes < MaxCrashes
  /\ up' = "down"
  /\ crashes' = crashes + 1
  /\ entries' = << >> /\ stream' = << >>
  /\ pc' = [c \in Callers |-> "idle"]
  /\ saved' = [c \in Callers |-> << >>]
  /\ untrimmed' = untrimmed + Cardinality(Persisting)
  /\ UNCHANGED <<rows, count, inserted, refused>>

\* Mutant: the rows are not put back into chronological order.
RestartReversed ==
  /\ up = "down"
  /\ up' = "open"
  /\ LET last == Latest(rows, RingSize)
     IN  entries' = [i \in DOMAIN last |-> last[Len(last) + 1 - i]]
  /\ stream' = inserted
  /\ UNCHANGED <<rows, pc, saved, count, crashes, inserted, refused, untrimmed>>

\* NewPersistentLogger: the newest rows are replayed into the buffer, newest first. A
\* query that fails, or breaks off after some of them, is taken for the whole; without a
\* database the proxy has a plain Logger.
Restart ==
  /\ up = "down"
  /\ \/ up' = "open" /\ entries' = Latest(rows, RingSize) /\ stream' = inserted
     \/ \E k \in 0..RingSize - 1 :
          up' = "open" /\ entries' = Latest(rows, k) /\ stream' = Latest(rows, k)
     \/ up' = "memory" /\ entries' = << >> /\ stream' = << >>
  /\ UNCHANGED <<rows, pc, saved, count, crashes, inserted, refused, untrimmed>>

Next ==
  \/ \E c \in Callers : LogDecision(c) \/ Add(c) \/ Insert(c) \/ Count(c) \/ Trim(c)
  \/ Crash \/ Restart

Spec == Init /\ [][Next]_vars
----------------------------------------------------------------------------
\* Every variable has its type; the buffer is never longer than the ring.
TypeOK ==
  /\ up \in {"open", "memory", "down"}
  /\ entries \in Seq(Entry) /\ Len(entries) <= RingSize
  /\ rows \in Seq(Entry)
  /\ pc \in [Callers -> {"idle", "insert", "count", "trim"}]
  /\ saved \in [Callers -> Entry \cup {<< >>}]
  /\ count \in 0..MaxEntries /\ crashes \in 0..MaxCrashes
  /\ stream \in Seq(Entry) /\ inserted \in Seq(Entry) /\ refused \subseteq Entry
  /\ untrimmed \in Nat

\* The buffer holds the newest RingSize entries of all it was ever given,
\* across restarts: those are the rows ever inserted and what was logged
\* since, although the table has been trimmed meanwhile (Log, replayFromDB).
BufferIsLatest == up # "down" => entries = Latest(stream, RingSize)

\* However many trims run at once, fail or are cut off, the table never loses
\* one of the newest RingSize rows ("keep ~2x ring size in DB for safety").
TableKeepsLatest == Latest(rows, RingSize) = Latest(inserted, RingSize)

\* The table does not grow beyond two rings and the inserts that have not
\* been followed by a trim, because it is under way, has failed or has died.
TableIsBounded ==
  Len(rows) <= 2 * RingSize + untrimmed + Cardinality(Persisting)

\* What is kept is the newest of what was logged, in the buffer and in the table, and
\* the table stays bounded (Log, persist, replayFromDB).
NewestAreKept == BufferIsLatest /\ TableKeepsLatest /\ TableIsBounded

\* What one goroutine logged stays in order and appears once, in the table
\* and in a buffer filled from it, though rows of several may be swapped.
CallersInOrder ==
  \A s \in {entries, rows} :
    \A i, j \in DOMAIN s : i < j /\ s[i].by = s[j].by => s[i].n < s[j].n

\* persistent.go:17: the log "persists every entry to SQLite". While the server
\* has its database, an entry no caller is still to insert is in the table, or
\* the database has refused it.
DecisionsPersist ==
  up = "open" =>
    \A i \in DOMAIN entries :
      \/ saved[entries[i].by] = entries[i]
      \/ entries[i] \in refused
      \/ \E j \in DOMAIN inserted : inserted[j] = entries[i]
============================================================================

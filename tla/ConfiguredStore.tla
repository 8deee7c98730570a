--------------------------- MODULE ConfiguredStore ---------------------------
(***************************************************************************)
(* The store a server opens (NewConfiguredStore in internal/db, in its two *)
(* builds) and the audit entries in it when it is PostgreSQL               *)
(* (internal/db/pgstore.go): calls log, read and redact entries while      *)
(* statements fail. Redaction reads an entry, and writes it back later.    *)
(*                                                                         *)
(* The in-memory store's entries are AuditTrail's subject, assets and      *)
(* findings EngagementMemory's. PostgreSQL itself is external: a statement *)
(* takes effect whole, and one that is reported to have failed may have    *)
(* taken effect.                                                           *)
(***************************************************************************)
EXTENDS Naturals

CONSTANTS
  Entries,  \* entries that may be logged, each with an identifier of its own
  Fields,   \* fields an entry has that may be redacted
  Loggers   \* goroutines that call the store

VARIABLES
  asked,    \* what configuration and environment ask for
  opened,   \* what NewConfiguredStore returned
  table,    \* the fields that stand in clear in each row, or NoRow
  call,     \* the redaction each goroutine is in
  told,     \* history: what callers have been told is logged
  redacted, \* history: fields of entries a caller was told are redacted
  doubtful  \* history: entries of which a statement failed or redactions overlapped

storeVars == <<asked, opened, table, call, told, redacted, doubtful>>

NoRow == [clear |-> {}, row |-> FALSE]
Row(clear) == [clear |-> clear, row |-> TRUE]

\* The build tag, the configuration's switch, SCOPEPILOT_POSTGRES_ENABLED, and whether
\* the configuration or DATABASE_URL has a connection string.
Askings == [tag : BOOLEAN, enabled : BOOLEAN, env : BOOLEAN, conn : BOOLEAN]

NoCall == [at |-> "idle"]
----------------------------------------------------------------------------
StoreInit ==
  /\ asked \in Askings
  /\ opened = "no"
  /\ table = [e \in Entries |-> NoRow]
  /\ call = [c \in Loggers |-> NoCall]
  /\ told = {} /\ redacted = {} /\ doubtful = {}

Requested(a) == a.enabled \/ a.env \/ a.conn

\* NewConfiguredStore: the build without the tag refuses what is requested; the other
\* wants a connection string when only the configuration asks, and a connection.
Open(ok) ==
  /\ opened = "no"
  /\ opened' = IF ~Requested(asked) THEN "memory"
               ELSE IF ~asked.tag \/ ~ok \/ (~asked.env /\ ~asked.conn) THEN "refused"
               ELSE "postgres"
  /\ UNCHANGED <<asked, table, call, told, redacted, doubtful>>

\* LogEntry: the caller gets the entry whether the INSERT was done or not.
LogEntry(e, done, reported) ==
  /\ opened = "postgres" /\ e \notin told
  /\ reported => done
  /\ table' = IF done THEN [table EXCEPT ![e] = Row(Fields)] ELSE table
  /\ told' = told \cup {e}
  /\ doubtful' = IF reported THEN doubtful ELSE doubtful \cup {e}
  /\ UNCHANGED <<asked, opened, call, redacted>>

\* Others in a redaction of e.
Redacting(c, e) == {d \in Loggers \ {c} : call[d].at = "update" /\ call[d].entry = e}

\* RedactEntry reads the row, and gives up when there is none ...
RedactReads(c, e, fields) ==
  /\ opened = "postgres" /\ call[c].at = "idle"
  /\ table[e].row
  /\ call' = [call EXCEPT ![c] =
                [at |-> "update", entry |-> e, fields |-> fields, read |-> table[e].clear]]
  /\ doubtful' = IF Redacting(c, e) = {} THEN doubtful ELSE doubtful \cup {e}
  /\ UNCHANGED <<asked, opened, table, told, redacted>>

\* Mutant: the row is written back as it was read.
RedactWritesRead(c, done, reported) ==
  /\ call[c].at = "update"
  /\ reported => done
  /\ LET e == call[c].entry
     IN  /\ table' = IF done THEN [table EXCEPT ![e] = Row(call[c].read)] ELSE table
         /\ redacted' = redacted \cup ({e} \X call[c].fields)
         /\ doubtful' = IF reported THEN doubtful ELSE doubtful \cup {e}
  /\ call' = [call EXCEPT ![c] = NoCall]
  /\ UNCHANGED <<asked, opened, told>>

\* ... and writes back what it read without the fields. Its failure is not noticed.
RedactWrites(c, done, reported) ==
  /\ call[c].at = "update"
  /\ reported => done
  /\ LET e == call[c].entry
     IN  /\ table' = IF done THEN [table EXCEPT ![e] = Row(call[c].read \ call[c].fields)]
                             ELSE table
         /\ redacted' = redacted \cup ({e} \X call[c].fields)
         /\ doubtful' = IF reported THEN doubtful ELSE doubtful \cup {e}
  /\ call' = [call EXCEPT ![c] = NoCall]
  /\ UNCHANGED <<asked, opened, told>>

StoreNext ==
  \/ \E ok \in BOOLEAN : Open(ok)
  \/ \E done, reported \in BOOLEAN :
       \/ \E e \in Entries : LogEntry(e, done, reported)
       \/ \E c \in Loggers : RedactWrites(c, done, reported)
  \/ \E c \in Loggers, e \in Entries, fields \in SUBSET Fields : RedactReads(c, e, fields)

StoreSpec == StoreInit /\ [][StoreNext]_storeVars
----------------------------------------------------------------------------
StoreTypeOK ==
  /\ asked \in Askings
  /\ opened \in {"no", "memory", "postgres", "refused"}
  /\ table \in [Entries -> [clear : SUBSET Fields, row : BOOLEAN]]
  /\ DOMAIN call = Loggers
  /\ \A c \in Loggers :
       \/ call[c] = NoCall
       \/ call[c] \in [at : {"update"}, entry : Entries, fields : SUBSET Fields,
                       read : SUBSET Fields]
  /\ told \subseteq Entries /\ doubtful \subseteq Entries
  /\ redacted \subseteq Entries \X Fields

\* "PostgreSQL failures are returned so the caller can fail closed rather than losing
\* durable audit data" (pgstore.go:234): whatever asks for the database, in either
\* build, nobody who asked gets memory.
NeverSilentlyVolatile == Requested(asked) => opened # "memory"

\* What a caller was told is redacted stands in clear no more, unless a statement about
\* the entry failed, or two redactions of it overlapped.
RedactedStaysRedacted ==
  \A e \in Entries \ doubtful, f \in Fields :
    <<e, f>> \in redacted => f \notin table[e].clear

\* Holds not: the same of two redactions at once. The later write brings back what the
\* earlier one took out.
OverlapIsHarmless ==
  \A e \in Entries, f \in Fields : <<e, f>> \in redacted => f \notin table[e].clear

\* Holds not: an entry the caller was given is in the table. A failed INSERT is not told.
ToldIsStored == \A e \in told : table[e].row
============================================================================

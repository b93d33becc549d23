---------------------------- MODULE ChangeCapture ----------------------------
(***************************************************************************)
(* DebeziumMessageParser of src/connectors/data_format.rs and the input    *)
(* sessions of src/connectors/adaptors.rs: the changes of a database come  *)
(* as messages, become inserts and deletes (Postgres) or upserts (MongoDB) *)
(* and build up a table.  A row is <<key, value>>, an event <<key, value,  *)
(* diff>> where diff 0 stands for an upsert and NoneValue for no value.    *)
(* The database and Kafka are external.                                    *)
(***************************************************************************)
EXTENDS Collections, Values, Sequences

CONSTANTS
    CdcKeys,
    CdcValues,        \* numbers above zero
    MaxChanges,       \* bound on changes of the database
    CdcRestarts,      \* bound on restarts
    BeforeImages      \* whether messages of Postgres hold the old row (REPLICA IDENTITY FULL)

VARIABLES
    database,         \* DebeziumDBType
    source,           \* key -> value in the database
    messages,         \* messages that were not read
    pending,          \* messages read at the session's present time
    session,          \* their events
    eventLog,         \* events of closed times, as they were written to the snapshot
    captured,         \* the table that the session feeds
    together,         \* history: per key, what was said of it in the last time that spoke of it
    changes, cdcRestarts

cdcVars == <<database, source, messages, pending, session, eventLog, captured, together, changes, cdcRestarts>>

\* What precedes a change in its message; a field that is not there is an error.
Before(k) == IF BeforeImages THEN source[k] ELSE ErrorValue
ChangeMessage(k, v) ==
    <<CASE source[k] = NoneValue -> "c" [] v = NoneValue -> "d" [] OTHER -> "u", k, Before(k), v>>
NoPayload == <<"none", 0, 0, 0>>

\* A change, which a tombstone or a message that is no change may follow.
ChangeSource ==
    /\ changes < MaxChanges /\ changes' = changes + 1
    /\ \E k \in CdcKeys, v \in CdcValues \cup {NoneValue}, noise \in {<<>>, <<NoPayload>>} :
        /\ v # source[k]
        /\ messages' = messages \o <<ChangeMessage(k, v)>> \o noise
        /\ source' = [source EXCEPT ![k] = v]
    /\ UNCHANGED <<database, pending, session, eventLog, captured, together, cdcRestarts>>

\* The parser.  A row of Postgres is taken out by its old value, a document by its key.
ParseReadOrCreate(m) == <<<<m[2], m[4], IF database = "Postgres" THEN 1 ELSE 0>>>>
ParseDelete(m) == IF database = "Postgres" THEN <<<<m[2], m[3], -1>>>> ELSE <<<<m[2], NoneValue, 0>>>>
Mut_ParseUpdate(m) == ParseReadOrCreate(m)
ParseUpdate(m) ==
    IF database = "Postgres" THEN <<<<m[2], m[3], -1>>, <<m[2], m[4], 1>>>> ELSE <<<<m[2], m[4], 0>>>>
Parse(m) ==
    CASE m[1] = "c" -> ParseReadOrCreate(m)
      [] m[1] = "u" -> ParseUpdate(m)
      [] m[1] = "d" -> ParseDelete(m)
      [] OTHER -> <<>>

ReadMessage ==
    /\ messages # <<>> /\ messages' = Tail(messages)
    /\ pending' = Append(pending, Head(messages))
    /\ session' = session \o Parse(Head(messages))
    /\ UNCHANGED <<database, source, eventLog, captured, together, changes, cdcRestarts>>

\* The events of one time, applied to a table.  Inserts and deletes add up;
\* arrange_from_upsert sorts the upserts of a key and keeps the largest.
NativeTable(table, events) ==
    LET w(row) == LET d(i) == IF <<events[i][1], events[i][2]>> = row THEN events[i][3] ELSE 0
                  IN Weight(table, row) + MapThenSumSet(d, DOMAIN events)
    IN Consolidated(DOMAIN table \cup {<<events[i][1], events[i][2]>> : i \in DOMAIN events}, w)
UpsertTable(table, events) ==
    LET touched == {events[i][1] : i \in DOMAIN events}
        new(k) == Max({events[i][2] : i \in {j \in DOMAIN events : events[j][1] = k}})
    IN Once({row \in DOMAIN table : row[1] \notin touched}
            \cup {<<k, new(k)>> : k \in {x \in touched : new(x) # NoneValue}})
SessionTable(table, events) ==
    IF database = "Postgres" THEN NativeTable(table, events) ELSE UpsertTable(table, events)

\* What the events of one time say of each key.
Untouched == [k \in CdcKeys |-> {NoneValue}]
Together(before, events) ==
    [k \in CdcKeys |-> LET said == {events[i][2] : i \in {j \in DOMAIN events : events[j][1] = k}}
                       IN IF said = {} THEN before[k] ELSE said]

\* The time advances: the events reach the table and are in the snapshot.
CloseSession ==
    /\ pending # <<>>
    /\ captured' = SessionTable(captured, session) /\ eventLog' = eventLog \o session
    /\ together' = Together(together, session)
    /\ pending' = <<>> /\ session' = <<>>
    /\ UNCHANGED <<database, source, messages, changes, cdcRestarts>>

\* A start: the whole snapshot is one time of the session, and reading goes on
\* behind the last closed time.
RestartCapture ==
    /\ cdcRestarts < CdcRestarts /\ cdcRestarts' = cdcRestarts + 1
    /\ captured' = SessionTable(Once({}), eventLog) /\ together' = Together(Untouched, eventLog)
    /\ messages' = pending \o messages
    /\ pending' = <<>> /\ session' = <<>>
    /\ UNCHANGED <<database, source, eventLog, changes>>

CdcInit ==
    /\ database \in {"Postgres", "MongoDB"}
    /\ source = [k \in CdcKeys |-> NoneValue]
    /\ messages = <<>> /\ pending = <<>> /\ session = <<>> /\ eventLog = <<>>
    /\ captured = Once({}) /\ together = Untouched /\ changes = 0 /\ cdcRestarts = 0
CdcNext == ChangeSource \/ ReadMessage \/ CloseSession \/ RestartCapture

-----------------------------------------------------------------------------
\* Once its messages are read and committed, the table is the database: no update
\* leaves the old row behind, no deletion is missed, whatever messages come between,
\* over restarts that read the messages of the last time again.  Upserts of one
\* document that share a time, as all do in the replay of a restart, have lost their
\* order: the table has one row or none of it, as one of them says, and the database
\* agrees with one of them.  So a document with one upsert in its time is exact.
CapturedExact ==
    messages = <<>> /\ pending = <<>> =>
    \E shown \in [CdcKeys -> CdcValues \cup {NoneValue}] :
        /\ captured = Once({<<k, shown[k]>> : k \in {x \in CdcKeys : shown[x] # NoneValue}})
        /\ \A k \in CdcKeys :
              IF database = "Postgres" THEN shown[k] = source[k]
              ELSE {shown[k], source[k]} \subseteq together[k]

=============================================================================

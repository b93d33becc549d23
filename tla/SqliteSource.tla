----------------------------- MODULE SqliteSource -----------------------------
(***************************************************************************)
(* SqliteReader of src/connectors/data_storage.rs: the table is loaded and *)
(* compared with stored_state whenever data_version has changed.  A row is *)
(* <<row id, values, 1>>.  Offsets are EMPTY_OFFSET and seek is not        *)
(* supported, so there is no restart.                                      *)
(***************************************************************************)
EXTENDS Connector, FiniteSets

CONSTANTS
    RowIds, RowValues,
    MaxCommits        \* bound on the transactions of the database

ASSUME SqliteAssumption == IsFiniteSet(RowIds) /\ IsFiniteSet(RowValues)

VARIABLES
    dbTable,          \* set of rows
    dbStates,         \* history: what the table was after each transaction
    dbVersion,        \* data_version
    savedVersion,     \* last_saved_data_version, 0 before the first load
    storedState,      \* stored_state
    queuedUpdates,    \* queued_updates
    loading           \* data_version that was read and the table not yet, 0 otherwise

sqliteVars == <<dbTable, dbStates, dbVersion, savedVersion, storedState, queuedUpdates, loading>>

\* A transaction of another connection: any rows may change, also none we read.
Transaction ==
    /\ dbVersion <= MaxCommits
    /\ \E t \in SUBSET (RowIds \X RowValues \X {1}) :
        /\ \A i \in RowIds : Cardinality({r \in t : r[1] = i}) <= 1
        /\ dbTable' = t /\ dbStates' = dbStates \cup {t}
    /\ dbVersion' = dbVersion + 1
    /\ UNCHANGED <<savedVersion, storedState, queuedUpdates, loading, connectorVars>>

\* load_table: an update is a deletion or an insertion of a row.  A changed row is
\* deleted and inserted at once; rows come in any order (the SELECT has none), and
\* after them, in that of a HashMap, the deletions of those that are gone.
IdsOf(t) == {r[1] : r \in t}
RowUpdates(gone, new) == {DataEntry(r, -1) : r \in gone} \cup {DataEntry(r, 1) : r \in new}
Mut_TableChanges == RowUpdates({r \in storedState \ dbTable : r[1] \in IdsOf(dbTable)}, dbTable \ storedState)
TableChanges == RowUpdates(storedState \ dbTable, dbTable \ storedState)
IsGone(e) == e[2][1] \notin IdsOf(dbTable)
LoadOrder(q) ==
    \A i \in DOMAIN q :
        /\ IsGone(q[i]) => \A j \in DOMAIN q : i < j => IsGone(q[j])
        /\ q[i][3] = -1 /\ ~IsGone(q[i]) =>
              \E j \in DOMAIN q : j = i + 1 /\ q[j][2][1] = q[i][2][1]
LoadTable == {q \in Bijection(1 .. Cardinality(TableChanges), TableChanges) : LoadOrder(q)}
Mut_WithEnd(updates) == updates
WithEnd(updates) == IF updates = <<>> THEN <<>> ELSE Append(updates, FinishedSource(TRUE))

\* read(): a queued update, or a look at the version and then a load.  The
\* version is read first, so that a change in between is found the next time.
TakeQueued ==
    /\ CanRead /\ queuedUpdates # <<>> /\ loading = 0
    /\ Send(Head(queuedUpdates)) /\ queuedUpdates' = Tail(queuedUpdates)
    /\ UNCHANGED <<dbTable, dbStates, dbVersion, savedVersion, storedState, loading, pollVars>>
CheckVersion ==
    /\ CanRead /\ queuedUpdates = <<>> /\ loading = 0 /\ savedVersion # dbVersion
    /\ loading' = dbVersion
    /\ UNCHANGED <<dbTable, dbStates, dbVersion, savedVersion, storedState, queuedUpdates, connectorVars>>
VersionLoaded == loading
LoadChanges ==
    /\ loading # 0
    /\ \E q \in LoadTable : queuedUpdates' = WithEnd(q)
    /\ storedState' = dbTable
    /\ savedVersion' = VersionLoaded /\ loading' = 0
    /\ Send(NewSource)
    /\ UNCHANGED <<dbTable, dbStates, dbVersion, pollVars>>

ReadSqlite == TakeQueued \/ CheckVersion \/ LoadChanges
PollSqlite == ConnectorNext /\ UNCHANGED sqliteVars

SqliteInit ==
    /\ ConnectorInit
    /\ dbTable = {} /\ dbStates = {{}} /\ dbVersion = 1 /\ savedVersion = 0
    /\ storedState = {} /\ queuedUpdates = <<>> /\ loading = 0
SqliteNext == reader = "sqlite" /\ (Transaction \/ ReadSqlite \/ PollSqlite) /\ UNCHANGED reader
SqliteSpec == SqliteInit /\ [][SqliteNext]_<<reader, sqliteVars, connectorVars>>
SqliteFairness ==
    /\ WF_<<sqliteVars, connectorVars>>(reader = "sqlite" /\ ReadSqlite)
    /\ WF_<<sqliteVars, connectorVars>>(reader = "sqlite" /\ PollSqlite)

-----------------------------------------------------------------------------
\* Transactions stay whole: what a closed time shows is the table as it was after
\* some transaction, however the reading is interleaved with later ones.
SqliteStates == reader = "sqlite" => visible \in {Once(t) : t \in dbStates}

\* No change is missed: when the database rests, the table is shown in the end.
SqliteCatchesUp == <>[](reader = "sqlite" => visible = Once(dbTable))

=============================================================================

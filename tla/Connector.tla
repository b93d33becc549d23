------------------------------ MODULE Connector ------------------------------
(***************************************************************************)
(* Connector::run of src/connectors/mod.rs on live data: the input thread  *)
(* sends what Reader::read returns; the poller takes entries, feeds rows   *)
(* to the input session and decides when the session's time may advance.   *)
(* A row is <<object, version, number>>, a set of weighted rows a          *)
(* collection.                                                             *)
(***************************************************************************)
EXTENDS Collections, Sequences

CONSTANTS
    Readers,          \* the readers a connector may be given
    ChannelBound      \* bound on the entries in flight

VARIABLES
    reader,           \* the reader of this connector
    channel,          \* entries sent and not handled
    readErrors,       \* consecutive errors of Reader::read
    reported,         \* ReaderFailed was reported: the program stops
    commitAllowed,
    taken,            \* rows inserted at the session's present time
    visible,          \* rows of times that have been closed
    frontier,         \* current_frontier: the last row handled, which is its offset
    savedFrontier,    \* the frontier that was logged with the last closed time
    inputClosed       \* Finished was handled: the poller has stopped

sendVars == <<channel, readErrors, reported>>
pollVars == <<commitAllowed, taken, visible, frontier, savedFrontier, inputClosed>>
connectorVars == <<sendVars, pollVars>>

NoRows == Once({})
NoOffset == <<0, 0, 0>>
DataEntry(row, diff) == <<"Data", row, diff>>
NewSource == <<"NewSource">>
FinishedSource(allowed) == <<"FinishedSource", allowed>>

\* read_realtime_updates: a result goes to the channel, an error is counted
\* against the reader's max_allowed_consecutive_errors.
CanRead == Len(channel) < ChannelBound /\ ~reported
Send(entry) == channel' = Append(channel, entry) /\ readErrors' = 0 /\ UNCHANGED reported
FailRead(allowed) ==
    /\ readErrors' = readErrors + 1
    /\ reported' = (readErrors + 1 > allowed)
    /\ UNCHANGED channel

\* ParsedEvent::AdvanceTime: the rows taken so far belong to a closed time.
CloseTime ==
    /\ visible' = Concat(visible, taken) /\ taken' = NoRows
    /\ savedFrontier' = frontier /\ UNCHANGED frontier
KeepTime == UNCHANGED <<taken, visible, frontier, savedFrontier>>
TakeRow(row, diff) ==
    /\ taken' = Concat(taken, [x \in {row} |-> diff])
    /\ frontier' = row /\ UNCHANGED <<visible, savedFrontier>>

\* The rows of one object are not split between times.
Mut_BlockCommits == UNCHANGED commitAllowed
BlockCommits == commitAllowed' = FALSE

\* One entry of the poller's loop.  The end of the source drops the session.
HandleEntry ==
    /\ channel # <<>> /\ ~inputClosed /\ ~reported
    /\ channel' = Tail(channel) /\ UNCHANGED <<readErrors, reported>>
    /\ LET entry == Head(channel) IN
       \/ /\ entry[1] = "Data"
          /\ TakeRow(entry[2], entry[3]) /\ UNCHANGED <<commitAllowed, inputClosed>>
       \/ /\ entry[1] = "NewSource"
          /\ BlockCommits /\ KeepTime /\ UNCHANGED inputClosed
       \/ /\ entry[1] = "FinishedSource"
          /\ commitAllowed' = entry[2] /\ UNCHANGED inputClosed
          /\ IF entry[2] THEN CloseTime ELSE KeepTime
       \/ /\ entry[1] = "Finished"
          /\ CloseTime /\ inputClosed' = TRUE /\ UNCHANGED commitAllowed

\* The commit timer, checked before entries are taken.
AutocommitTimer ==
    /\ commitAllowed /\ ~inputClosed /\ ~reported /\ taken # NoRows
    /\ CloseTime
    /\ UNCHANGED <<sendVars, commitAllowed, inputClosed>>

ConnectorInit ==
    /\ reader \in Readers
    /\ channel = <<>> /\ readErrors = 0 /\ reported = FALSE /\ commitAllowed = TRUE
    /\ taken = NoRows /\ visible = NoRows /\ frontier = NoOffset /\ savedFrontier = NoOffset
    /\ inputClosed = FALSE

ConnectorNext == HandleEntry \/ AutocommitTimer

\* A process that starts again replays the rows of closed times from its log.
ConnectorRestart ==
    /\ channel' = <<>> /\ readErrors' = 0 /\ reported' = FALSE /\ commitAllowed' = TRUE
    /\ taken' = NoRows /\ frontier' = savedFrontier /\ inputClosed' = FALSE
    /\ UNCHANGED <<visible, savedFrontier>>

\* Rows that were taken in become visible, unless reading fails for good: a source
\* that blocks commits always allows them again.
TakenIsCommitted == taken # NoRows ~> taken = NoRows \/ reported

=============================================================================

------------------------------- MODULE S3Source -------------------------------
(***************************************************************************)
(* S3Scanner, S3CsvReader and S3GenericReader of src/connectors/           *)
(* data_storage.rs.  Objects are written once; the loader thread of an     *)
(* object feeds its rows through a pipe.  Modification times are seconds,  *)
(* which are S3SecondLength puts long.                                     *)
(***************************************************************************)
EXTENDS Connector

CONSTANTS
    ObjectKeys,       \* names, numbers in their order
    ObjectRows,       \* rows of an object that is read by lines
    S3SecondLength,
    LoaderFailures,   \* bound on downloads that break off
    S3Restarts,       \* bound on restarts
    PolledLines,      \* whether a reader that polls may read by lines
    WholeRestarts     \* whether a reader of whole objects is restarted, too

ASSUME S3Assumption == ObjectRows \in Nat

VARIABLES
    objects,          \* key -> last_modified, 0 when it is not there
    puts,
    s3Full,           \* ReadMethod::Full
    s3Poll,           \* poll_new_objects
    processed,        \* processed_objects
    current,          \* current_object, as a set of at most one key
    stream,           \* rows the reader will get, NoStream without a reader
    loaderFailed,     \* the loader thread of the current object ended with an error
    deferred,         \* deferred_read_result is FinishedSource
    s3Ended,
    failures, s3Restarts

s3ReadVars == <<processed, current, stream, loaderFailed, deferred, s3Ended>>
s3Vars == <<objects, puts, s3Full, s3Poll, s3ReadVars, failures, s3Restarts>>

NoStream == <<NoOffset>>
Listed == {k \in ObjectKeys : objects[k] # 0}
RowsOf(k) == [i \in 1 .. (IF s3Full THEN 1 ELSE ObjectRows) |-> <<k, objects[k], i>>]

CutRow(k) == <<k, objects[k], 0>>

PutObject ==
    /\ \E k \in ObjectKeys \ Listed : objects' = [objects EXCEPT ![k] = 1 + puts \div S3SecondLength]
    /\ puts' = puts + 1
    /\ UNCHANGED <<s3Full, s3Poll, s3ReadVars, failures, s3Restarts, connectorVars>>

\* The download breaks off: the pipe ends early, and what there is of an object
\* that is read as a whole passes for its row.
LoaderFails ==
    /\ failures < LoaderFailures /\ current # {} /\ ~loaderFailed /\ stream # NoStream
    /\ \E n \in 0 .. Len(stream) :
        stream' = IF s3Full /\ n = 0 THEN <<CutRow(CHOOSE k \in current : TRUE)>> ELSE SubSeq(stream, 1, n)
    /\ loaderFailed' = TRUE /\ failures' = failures + 1
    /\ UNCHANGED <<objects, puts, s3Full, s3Poll, processed, current, deferred, s3Ended, s3Restarts, connectorVars>>

\* stream_next_object: the last loader is joined first, then the oldest object is taken.
Older(j, k) == objects[j] < objects[k] \/ (objects[j] = objects[k] /\ j < k)
Mut_JoinFails == FALSE
JoinFails == loaderFailed
StreamNext ==
    /\ stream \in {<<>>, NoStream} /\ ~deferred /\ loaderFailed' = FALSE /\ UNCHANGED deferred
    /\ LET new == Listed \ processed IN
       \/ /\ JoinFails /\ FailRead(0)
          /\ current' = {} /\ UNCHANGED <<processed, stream, s3Ended>>
       \/ /\ ~JoinFails /\ new # {} /\ Send(NewSource)
          /\ \E k \in new : /\ \A j \in new \ {k} : Older(k, j)
                            /\ current' = {k} /\ stream' = RowsOf(k)
                            /\ processed' = processed \cup {k}
          /\ UNCHANGED s3Ended
       \/ /\ ~JoinFails /\ new = {} /\ ~s3Poll /\ Send(<<"Finished">>)
          /\ current' = {} /\ s3Ended' = TRUE /\ UNCHANGED <<processed, stream>>

\* read of one row.  A whole object is followed by FinishedSource, one read by
\* lines is not.
NextRow ==
    /\ stream \notin {<<>>, NoStream} /\ ~deferred
    /\ Send(DataEntry(Head(stream), 1))
    /\ stream' = (IF s3Full THEN NoStream ELSE Tail(stream)) /\ deferred' = s3Full
    /\ UNCHANGED <<processed, current, loaderFailed, s3Ended>>
SendDeferred ==
    /\ deferred /\ deferred' = FALSE
    /\ Send(FinishedSource(TRUE))
    /\ UNCHANGED <<processed, current, stream, loaderFailed, s3Ended>>

ReadS3 ==
    /\ CanRead /\ ~s3Ended
    /\ StreamNext \/ NextRow \/ SendDeferred
    /\ UNCHANGED <<objects, puts, s3Full, s3Poll, failures, s3Restarts, pollVars>>

\* seek and seek_to_object: older objects are taken for processed, and the rows
\* of this one up to the offset are skipped; after them a whole object gives a row
\* of no bytes.
SeekTo(k) == {j \in Listed : Older(j, k)} \cup {k}
RestartS3 ==
    /\ s3Restarts < S3Restarts /\ s3Restarts' = s3Restarts + 1
    /\ s3Full => WholeRestarts
    /\ ConnectorRestart
    /\ IF savedFrontier = NoOffset
       THEN processed' = {} /\ current' = {} /\ stream' = NoStream
       ELSE LET k == savedFrontier[1] IN
            /\ processed' = SeekTo(k) /\ current' = {k}
            /\ stream' = IF s3Full THEN <<CutRow(k)>> ELSE SubSeq(RowsOf(k), savedFrontier[3] + 1, ObjectRows)
    /\ loaderFailed' = FALSE /\ deferred' = FALSE /\ s3Ended' = FALSE
    /\ UNCHANGED <<objects, puts, s3Full, s3Poll, failures>>

PollS3 == ConnectorNext /\ UNCHANGED s3Vars

S3Init ==
    /\ ConnectorInit
    /\ \E k \in ObjectKeys : objects = [j \in ObjectKeys |-> IF j = k THEN 1 ELSE 0]  \* NoObjectsToRead otherwise
    /\ puts = 1 /\ s3Full \in BOOLEAN /\ s3Poll \in BOOLEAN /\ (s3Poll /\ ~s3Full => PolledLines)
    /\ processed = {} /\ current = {} /\ stream = NoStream /\ loaderFailed = FALSE /\ deferred = FALSE
    /\ s3Ended = FALSE /\ failures = 0 /\ s3Restarts = 0

S3Next == reader = "s3" /\ (PutObject \/ LoaderFails \/ ReadS3 \/ PollS3 \/ RestartS3) /\ UNCHANGED reader
S3Spec == S3Init /\ [][S3Next]_<<reader, s3Vars, connectorVars>>
S3Fairness ==
    /\ WF_<<s3Vars, connectorVars>>(reader = "s3" /\ ReadS3)
    /\ WF_<<s3Vars, connectorVars>>(reader = "s3" /\ PollS3)

-----------------------------------------------------------------------------
\* Once the reader has nothing left, every row of every object was taken in
\* exactly once: the objects that appeared while it was reading, those whose
\* download broke off and was resumed by a restart, and those before it included.
S3Exact ==
    /\ reader = "s3"
    /\ channel = <<>> /\ ~reported /\ stream \in {<<>>, NoStream} /\ ~loaderFailed /\ ~deferred
    /\ Listed \subseteq processed
    => Concat(visible, taken) = Once(UNION {{RowsOf(k)[i] : i \in DOMAIN RowsOf(k)} : k \in Listed})

=============================================================================

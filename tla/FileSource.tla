------------------------------ MODULE FileSource ------------------------------
(***************************************************************************)
(* FilesystemScanner, FilesystemReader and CsvFilesystemReader of src/     *)
(* connectors/data_storage.rs over a directory others write to.  A file is *)
(* replaced as a whole; its rows are numbered within its version, and the  *)
(* version is the modification time.  The scanner compares times in        *)
(* seconds, which are SecondLength ticks long.                             *)
(***************************************************************************)
EXTENDS Connector, Functions

CONSTANTS
    Paths,          \* names, numbers in their order
    FileRows,       \* rows of a file
    MaxEdits,       \* bound on the changes of the directory
    SecondLength,   \* ticks in a second
    EditSteps,      \* steps of read() before which a change of the directory may come
    FileRestarts,   \* bound on the restarts of the process
    StreamingRestarts, \* whether a streaming source is restarted, too
    FullRestarts    \* whether a reader of whole files is

VARIABLES
    files,          \* path -> modification time, 0 when there is no file
    edits,
    lastGone,       \* history: when each path was last removed
    mode,           \* ConnectorMode
    method,         \* "csv" of CsvFilesystemReader, "lines" or "full" of FilesystemReader
    known,          \* known_files: set of <<path, modification time in seconds>>
    cachedMeta,     \* keys of cached_metadata
    copies,         \* copies kept for deletion: set of <<path, version>>
    action,         \* current_action, NoAction, or <<"Read" | "Delete", path>>
    planned,        \* next_file_for_insertion, as a set of at most one path
    openFile,       \* the rows the reader has left, NoFile when there is no reader
    readStep,       \* where read() is: "idle", "copy", "open" or "ended"
    panicked,       \* "inconsistency between known_files and cached_metadata"
    fileRestarts

scanVars == <<known, cachedMeta, copies, action, planned, openFile, readStep, panicked>>
fileVars == <<files, edits, lastGone, mode, method, scanVars, fileRestarts>>

NoAction == <<"None", 0>>
NoFile == <<NoOffset>>
Seconds(t) == t \div SecondLength
KnownPaths == {k[1] : k \in known}
RowCount == IF method = "full" THEN 1 ELSE FileRows
RowsOfVersion(p, v) == [i \in 1 .. RowCount |-> <<p, v, i>>]
\* What a reader at row n finds: ReadMethod::Full makes a row of no bytes, too.
RowsAfter(p, n) == IF method = "full" THEN <<<<p, files[p], 0>>>>
                   ELSE SubSeq(RowsOfVersion(p, files[p]), n + 1, RowCount)
Deletions == mode = "Streaming"

-----------------------------------------------------------------------------
\* The directory: a file appears, is replaced or goes away.
EditFile ==
    /\ edits < MaxEdits /\ readStep \in {"idle", "ended"} \cup EditSteps
    /\ \E p \in Paths, gone \in BOOLEAN :
        /\ gone => files[p] # 0
        /\ mode = "Static" => files[p] = 0
        /\ files' = [files EXCEPT ![p] = IF gone THEN 0 ELSE edits + 1]
        /\ lastGone' = [lastGone EXCEPT ![p] = IF gone THEN edits + 1 ELSE @]
    /\ edits' = edits + 1
    /\ UNCHANGED <<mode, method, scanVars, fileRestarts, connectorVars>>

-----------------------------------------------------------------------------
\* next_deletion_entry: gone, or modified in another second; the least path.
Stale == {k \in known : files[k[1]] = 0 \/ Seconds(files[k[1]]) # k[2]}
\* next_insertion_entry: the oldest file that is not known.
Unknown == {p \in Paths : files[p] # 0 /\ p \notin KnownPaths}
NextInsertion == CHOOSE p \in Unknown : \A q \in Unknown : files[p] < files[q] \/ (files[p] = files[q] /\ p <= q)

\* initiate_file_insertion up to the copy of the file.
Mut_InitiateInsertion(p) ==
    /\ known' = known \cup {<<p, Seconds(files[p])>>}
    /\ UNCHANGED cachedMeta
    /\ action' = <<"Read", p>> /\ readStep' = "copy"
InitiateInsertion(p) ==
    /\ known' = known \cup {<<p, Seconds(files[p])>>}
    /\ cachedMeta' = cachedMeta \cup {p}
    /\ action' = <<"Read", p>> /\ readStep' = "copy"

\* has_planned_insertion holds the commit back.
Mut_CommitAtEnd == TRUE
CommitAtEnd == planned = {}

Drop(set, p) == {k \in set : k[1] # p}

\* next_action_determined.  Errors of the file system, the removal of a copy that
\* is not there among them, are reported and stop the program.
Planned(p) == planned' = IF files[p] # 0 THEN {p} ELSE {}

Scan ==
    /\ CanRead /\ ~inputClosed /\ readStep = "idle" /\ ~panicked
    /\ openFile = NoFile \/ (method = "csv" /\ openFile = <<>>)   \* at its end a CSV reader looks further at once
    /\ copies' = IF action[1] = "Delete" THEN Drop(copies, action[2]) ELSE copies
    /\ \/ /\ planned # {}
          /\ planned' = {} /\ UNCHANGED <<panicked, openFile>>
          /\ LET p == CHOOSE q \in planned : TRUE
             IN IF files[p] # 0
                THEN InitiateInsertion(p) /\ UNCHANGED sendVars
                ELSE /\ Send(FinishedSource(TRUE)) /\ action' = NoAction
                     /\ UNCHANGED <<known, cachedMeta, readStep>>
       \/ /\ planned = {} /\ Deletions /\ Stale # {}
          /\ LET p == Min({k[1] : k \in Stale})
             IN /\ panicked' = (p \notin cachedMeta)
                /\ cachedMeta' = cachedMeta \ {p}
                /\ known' = Drop(known, p)
                /\ action' = <<"Delete", p>> /\ readStep' = "open"
                /\ Planned(p)
          /\ UNCHANGED <<sendVars, openFile>>
       \/ /\ planned = {} /\ ~(Deletions /\ Stale # {}) /\ Unknown # {}
          /\ InitiateInsertion(NextInsertion)
          /\ UNCHANGED <<planned, panicked, sendVars, openFile>>
       \/ /\ planned = {} /\ ~(Deletions /\ Stale # {}) /\ Unknown = {}   \* wait, or the end
          /\ action' = NoAction /\ openFile' = NoFile
          /\ IF openFile # NoFile THEN Send(FinishedSource(CommitAtEnd)) /\ UNCHANGED readStep
             ELSE IF mode = "Static" THEN Send(<<"Finished">>) /\ readStep' = "ended"
             ELSE UNCHANGED <<sendVars, readStep>>
          /\ UNCHANGED <<known, cachedMeta, planned, panicked>>
    /\ UNCHANGED <<files, edits, lastGone, mode, method, fileRestarts, pollVars>>

\* The copy fails when the file is gone by now.  Without deletions there is none.
CopyFile ==
    /\ readStep = "copy"
    /\ IF ~Deletions THEN readStep' = "open" /\ UNCHANGED <<copies, action, sendVars>>
       ELSE IF files[action[2]] = 0
       THEN FailRead(0) /\ readStep' = "idle" /\ action' = NoAction /\ UNCHANGED copies
       ELSE /\ copies' = Drop(copies, action[2]) \cup {<<action[2], files[action[2]]>>}
            /\ readStep' = "open" /\ UNCHANGED <<action, sendVars>>
    /\ UNCHANGED <<files, edits, lastGone, mode, method, known, cachedMeta, planned, openFile, panicked, fileRestarts, pollVars>>

\* What is read: the file of the directory, or the copy when rows are deleted.
OpenFile ==
    /\ readStep = "open" /\ ~panicked
    /\ LET p == action[2]
           versions == IF action[1] = "Read" THEN {files[p]} \ {0} ELSE {c[2] : c \in {x \in copies : x[1] = p}}
       IN IF versions = {} THEN FailRead(0) /\ UNCHANGED openFile
          ELSE /\ openFile' = RowsOfVersion(p, CHOOSE v \in versions : TRUE)
               /\ Send(NewSource)
    /\ readStep' = "idle"
    /\ UNCHANGED <<files, edits, lastGone, mode, method, known, cachedMeta, copies, action, planned, panicked, fileRestarts, pollVars>>

\* The next row, or the end of the file.
ReadFileRow ==
    /\ CanRead /\ openFile # NoFile /\ readStep = "idle" /\ (method = "csv" => openFile # <<>>)
    /\ IF openFile # <<>>
       THEN /\ Send(DataEntry(Head(openFile), IF action[1] = "Delete" THEN -1 ELSE 1))
            /\ openFile' = Tail(openFile)
       ELSE Send(FinishedSource(CommitAtEnd)) /\ openFile' = NoFile
    /\ UNCHANGED <<files, edits, lastGone, mode, method, known, cachedMeta, copies, action, planned, readStep, panicked, fileRestarts, pollVars>>

\* Reader::seek to the offset of the last closed time.
SeenBefore(p, target) == files[p] < files[target] \/ (files[p] = files[target] /\ p <= target)
RestartFiles ==
    /\ fileRestarts < FileRestarts /\ (mode = "Streaming" => StreamingRestarts)
    /\ (method = "full" => FullRestarts)
    /\ fileRestarts' = fileRestarts + 1
    /\ ConnectorRestart
    /\ LET p == savedFrontier[1]
           seeks == savedFrontier # NoOffset /\ files[p] # 0
       IN /\ known' = IF ~seeks THEN {}
                      ELSE {<<q, Seconds(files[q])>> : q \in {x \in Paths : files[x] # 0 /\ SeenBefore(x, p)}}
          /\ action' = IF seeks THEN <<"Read", p>> ELSE NoAction
          /\ openFile' = IF seeks THEN RowsAfter(p, savedFrontier[3]) ELSE NoFile
    /\ cachedMeta' = {} /\ copies' = {} /\ planned' = {} /\ readStep' = "idle" /\ panicked' = FALSE
    /\ UNCHANGED <<files, edits, lastGone, mode, method>>

PollFiles == ConnectorNext /\ UNCHANGED fileVars

FileInit ==
    /\ ConnectorInit
    /\ files = [p \in Paths |-> 0] /\ edits = 0 /\ lastGone = [p \in Paths |-> 0]
    /\ mode \in {"Static", "Streaming"} /\ method \in {"csv", "lines", "full"}
    /\ known = {} /\ cachedMeta = {} /\ copies = {} /\ action = NoAction /\ planned = {}
    /\ openFile = NoFile /\ readStep = "idle" /\ panicked = FALSE /\ fileRestarts = 0

ReadFiles == Scan \/ CopyFile \/ OpenFile \/ ReadFileRow
FileNext == reader = "files" /\ (EditFile \/ ReadFiles \/ PollFiles \/ RestartFiles) /\ UNCHANGED reader

\* The input thread and the poller keep running.
FileFairness ==
    /\ WF_<<fileVars, connectorVars>>(reader = "files" /\ ReadFiles)
    /\ WF_<<fileVars, connectorVars>>(reader = "files" /\ PollFiles)

-----------------------------------------------------------------------------
Shown(p) == {r \in DOMAIN visible : r[1] = p}

\* A file that is replaced passes from the old version to the new one at once: it
\* is shown as missing only when it really was removed after the shown version.
ReplacedAtOnce ==
    [][\A p \in Paths : reader = "files" /\ Shown(p) # {} /\ Shown(p)' = {} => \A r \in Shown(p) : lastGone[p] > r[2]]_visible

\* A file is atomic: at every closed time each path shows nothing or all rows of
\* one version, each once, although a replaced file is read as a deletion and an
\* insertion with the directory changing in between; and the scanner's two maps
\* never disagree.  Once the reader finds nothing more to do, what it has shown is
\* the directory: the changes made while it was reading, and those before a
\* restart, included.
FilesExact ==
    reader = "files" =>
    /\ ~panicked
    /\ \A p \in Paths :
        Shown(p) = {} \/ \E r \in Shown(p) : /\ Shown(p) = Range(RowsOfVersion(p, r[2]))
                                           /\ \A q \in Shown(p) : visible[q] = 1
    /\ /\ channel = <<>> /\ taken = NoRows /\ openFile = NoFile /\ readStep \in {"idle", "ended"}
       /\ planned = {} /\ action[1] # "Delete" /\ Unknown = {} /\ (Deletions => Stale = {})
       => visible = Once(UNION {Range(RowsOfVersion(p, files[p])) : p \in {q \in Paths : files[q] # 0}})

=============================================================================

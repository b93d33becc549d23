---------------------------- MODULE SnapshotStore ----------------------------
(***************************************************************************)
(* The snapshot of one persistent id of one worker as it lies in storage   *)
(* (src/connectors/snapshot.rs, created by src/persistence/config.rs):     *)
(* files in a local directory, or objects in S3.  Each is named after the  *)
(* millisecond of its creation and read in the order of these names.       *)
(*                                                                         *)
(* A program opens the writer, rewinds and truncates what the last commit  *)
(* does not cover, file by file, and appends.  It may die at every step.   *)
(***************************************************************************)
EXTENDS SnapshotEvents, FiniteSetsExt

CONSTANTS
    Backends,   \* the storage kinds: "local", "s3"
    Hazards,    \* what may happen to an S3 snapshot: "naming", "removal"
    MaxTime,    \* bound: the last reading of the wall clock
    MaxRuns     \* bound: number of times the program is started

ASSUME StoreAssumption ==
    /\ Backends \subseteq {"local", "s3"} /\ Hazards \subseteq {"naming", "removal"}
    /\ MaxTime \in Nat /\ MaxRuns \in Nat

Name    == 1 .. MaxTime
Done    == MaxTime + 1      \* TotalFrontier::Done
Nothing == -1

VARIABLES
    backend,    \* the configured storage
    files,      \* the events of each file, by name; no file and an empty one read alike
    threshold,  \* the minimum over the stored metadata
    clock,      \* milliseconds: files created one after the other have different names
    phase,      \* "down", "opened", "truncate", "rewound", "run" or "done"
    target,     \* the file the writer fills, once it has a name
    buffer,     \* events the writer holds in memory
    doomed,     \* the files truncate() has yet to remove
    now,        \* the time of the last AdvanceTime written
    \* History.
    runs,       \* times the program has been started
    committed   \* the events that the last commit covers

vars == <<backend, files, threshold, clock, phase, target, buffer, doomed, now, runs,
          committed>>

-----------------------------------------------------------------------------
\* The events of the files up to name n, in the order a reader takes them.
ReadOrder(fs) ==
    LET cat[n \in 0 .. MaxTime] == IF n = 0 THEN << >> ELSE cat[n - 1] \o fs[n]
    IN  cat

Content(fs) == ReadOrder(fs)[MaxTime]

\* The file in which the reader stands after the k-th event.
FileOf(fs, k) == CHOOSE n \in Name : Len(ReadOrder(fs)[n - 1]) < k /\ k <= Len(ReadOrder(fs)[n])

\* What it has read of that file by then.
ReadPart(fs, k) == SubSeq(fs[FileOf(fs, k)], 1, k - Len(ReadOrder(fs)[FileOf(fs, k) - 1]))

\* times_advanced from index n on.
NamesFrom(fs, n) == {m \in n .. MaxTime : fs[m] # << >>}

Tick == clock < MaxTime /\ clock' = clock + 1

Init ==
    /\ backend \in Backends
    /\ files = [n \in Name |-> << >>]
    /\ threshold = 0
    /\ clock = 1
    /\ phase = "down"
    /\ target = Nothing
    /\ buffer = << >>
    /\ doomed = {}
    /\ now = 0
    /\ runs = 1
    /\ committed = << >>

\* Connector::run creates the writer and then starts the thread that rewinds.
Open ==
    /\ phase = "down"
    /\ phase' = "opened"
    /\ UNCHANGED <<backend, files, threshold, clock, target, buffer, doomed, now, runs,
                   committed>>

\* The uploader thread of the S3 writer picks the name of its first object when
\* it gets to run: before or after the copy made by truncate() is named.  (Nothing
\* else is named later, so it may as well have run before the first event.)
StartUploader ==
    /\ backend = "s3" /\ target = Nothing
    /\ phase \in {"opened", "truncate", "rewound"}
    /\ phase # "rewound" => "naming" \in Hazards
    /\ target' = clock
    /\ Tick
    /\ UNCHANGED <<backend, files, threshold, phase, buffer, doomed, now, runs, committed>>

\* Without a closing AdvanceTime the reader comes to the end of the snapshot.
RewindToEnd ==
    /\ phase = "opened"
    /\ threshold # 0 /\ Closing(Content(files), threshold) = {}
    /\ phase' = "rewound"
    /\ UNCHANGED <<backend, files, threshold, clock, target, buffer, doomed, now, runs,
                   committed>>

\* Threshold At(0): everything is discarded, and nothing read.
DiscardAll ==
    /\ phase = "opened" /\ threshold = 0
    /\ doomed' = NamesFrom(files, 1)
    /\ phase' = IF doomed' = {} THEN "rewound" ELSE "truncate"
    /\ UNCHANGED <<backend, files, threshold, clock, target, buffer, now, runs, committed>>

\* At the closing AdvanceTime the local reader shrinks its file ...
Mut_TruncateLocal ==
    LET k == ReadLength(Content(files), threshold)
    IN  /\ phase = "opened" /\ backend = "local"
        /\ threshold # 0 /\ Closing(Content(files), threshold) # {}
        /\ doomed' = NamesFrom(files, FileOf(files, k) + 1)
        /\ phase' = IF doomed' = {} THEN "rewound" ELSE "truncate"
        /\ UNCHANGED <<backend, files, threshold, clock, target, buffer, now, runs, committed>>
TruncateLocal ==
    LET k == ReadLength(Content(files), threshold)
    IN  /\ phase = "opened" /\ backend = "local"
        /\ threshold # 0 /\ Closing(Content(files), threshold) # {}
        /\ files' = [files EXCEPT ![FileOf(files, k)] = ReadPart(files, k)]
        /\ doomed' = NamesFrom(files, FileOf(files, k) + 1)
        /\ phase' = IF doomed' = {} THEN "rewound" ELSE "truncate"
        /\ UNCHANGED <<backend, threshold, clock, target, buffer, now, runs, committed>>

\* ... and the S3 reader copies what it has read of the object to a new one; the
\* object itself and the later ones are to be removed.
Mut_TruncateS3 ==
    LET k == ReadLength(Content(files), threshold)
    IN  /\ phase = "opened" /\ backend = "s3"
        /\ threshold # 0 /\ Closing(Content(files), threshold) # {}
        /\ files' = [files EXCEPT ![clock] = files[FileOf(files, k)]]
        /\ Tick
        /\ doomed' = NamesFrom(files, FileOf(files, k))
        /\ phase' = "truncate"
        /\ UNCHANGED <<backend, threshold, target, buffer, now, runs, committed>>
TruncateS3 ==
    LET k == ReadLength(Content(files), threshold)
    IN  /\ phase = "opened" /\ backend = "s3"
        /\ threshold # 0 /\ Closing(Content(files), threshold) # {}
        /\ files' = [files EXCEPT ![clock] = ReadPart(files, k)]
        /\ Tick
        /\ doomed' = NamesFrom(files, FileOf(files, k))
        /\ phase' = "truncate"
        /\ UNCHANGED <<backend, threshold, target, buffer, now, runs, committed>>

\* The loop at the end of truncate(), in the order of the names.
RemoveFile ==
    /\ phase = "truncate"
    /\ files' = [files EXCEPT ![Min(doomed)] = << >>]
    /\ doomed' = doomed \ {Min(doomed)}
    /\ phase' = IF doomed' = {} THEN "rewound" ELSE "truncate"
    /\ UNCHANGED <<backend, threshold, clock, target, buffer, now, runs, committed>>

-----------------------------------------------------------------------------
(* The writer.                                                             *)

Event == [kind : {"row", "adv"}, time : 0 .. MaxTime]

\* The time to which the connector advances next: later than all before it.
NextTime == IF now < clock THEN clock ELSE clock + 1

\* An AdvanceTime is written.  The local writer creates its file with the first
\* event of the run, which is an AdvanceTime.
WriteAdvance ==
    LET creates == backend = "local" /\ target = Nothing
    IN  /\ phase \in {"rewound", "run"} /\ clock < MaxTime
        /\ backend = "s3" => target # Nothing
        /\ phase' = "run"
        /\ buffer' = Append(buffer, [kind |-> "adv", time |-> NextTime])
        /\ now' = NextTime
        /\ IF creates THEN target' = clock /\ Tick ELSE clock' = NextTime /\ UNCHANGED target
        /\ UNCHANGED <<backend, files, threshold, doomed, runs, committed>>

\* A row is written; (a bound) at most one after each AdvanceTime.
WriteRow ==
    LET all == Content(files) \o buffer
    IN  /\ phase = "run" /\ all[Len(all)].kind = "adv"
        /\ buffer' = Append(buffer, [kind |-> "row", time |-> now])
        /\ UNCHANGED <<backend, files, threshold, clock, phase, target, doomed, now, runs,
                       committed>>

\* A full BufWriter writes some of its bytes on its own.
Spill ==
    /\ backend = "local" /\ buffer # << >>
    /\ files' = [files EXCEPT ![target] = Append(@, Head(buffer))]
    /\ buffer' = Tail(buffer)
    /\ UNCHANGED <<backend, threshold, clock, phase, target, doomed, now, runs, committed>>

\* flush(): the file takes the rest of the buffer; an S3 upload is completed, which
\* makes the object visible, and the next one is named.  (With an empty buffer
\* nothing is added, and only the name moves on.)
FlushWriter ==
    /\ phase = "run" /\ target # Nothing /\ buffer # << >>
    /\ files' = [files EXCEPT ![target] = @ \o buffer]
    /\ buffer' = << >>
    /\ IF backend = "s3" THEN target' = clock /\ Tick ELSE UNCHANGED <<target, clock>>
    /\ UNCHANGED <<backend, threshold, phase, doomed, now, runs, committed>>

\* The times of the AdvanceTime events in the files.  (The times between two of
\* them cut the log at the same place as the second.)
FlushedTimes == {Content(files)[i].time : i \in Closing(Content(files), 0)}

\* The minimum over the metadata moves on to a time that the files have reached;
\* at the end of the program, with everything flushed, to Done.
Mut_StoreEarlier ==
    /\ phase = "run"
    /\ \E t \in FlushedTimes \union {Done} :
         /\ threshold < t \/ threshold = Done
         /\ t = Done => buffer = << >>
         /\ threshold' = t - 1
         /\ phase' = IF t = Done THEN "done" ELSE "run"
         /\ committed' = Truncated(Content(files), t)
    /\ UNCHANGED <<backend, files, clock, target, buffer, doomed, now, runs>>
StoreThreshold ==
    /\ phase = "run"
    /\ \E t \in FlushedTimes \union {Done} :
         /\ threshold < t \/ threshold = Done
         /\ t = Done => buffer = << >>
         /\ threshold' = t
         /\ phase' = IF t = Done THEN "done" ELSE "run"
         /\ committed' = Truncated(Content(files), t)
    /\ UNCHANGED <<backend, files, clock, target, buffer, doomed, now, runs>>

-----------------------------------------------------------------------------
\* The S3 object that held the last events is gone and a later one is not: a new
\* reader meets the later one before the copy.
CopyExposed ==
    /\ backend = "s3" /\ phase = "truncate" /\ threshold # 0
    /\ Truncated(Content(files), threshold) # committed

\* The program dies, or ends; then it is started again.
Restart ==
    /\ phase # "down" /\ runs < MaxRuns
    /\ CopyExposed => "removal" \in Hazards
    /\ phase' = "down"
    /\ target' = Nothing
    /\ buffer' = << >>
    /\ doomed' = {}
    /\ runs' = runs + 1
    /\ UNCHANGED <<backend, files, threshold, clock, now, committed>>

Next ==
    \/ Open \/ StartUploader
    \/ RewindToEnd \/ DiscardAll \/ TruncateLocal \/ TruncateS3 \/ RemoveFile
    \/ WriteAdvance \/ WriteRow \/ Spill \/ FlushWriter \/ StoreThreshold
    \/ Restart

Spec == Init /\ [][Next]_vars

-----------------------------------------------------------------------------
(* Properties.                                                             *)

IsPrefixOf(s, t) == Len(s) <= Len(t) /\ SubSeq(t, 1, Len(s)) = s

\* A run that has rewound and truncated finds everything that a commit covered, in
\* the order in which it was written and with nothing in between, whatever the
\* steps of truncate() at which earlier runs died.
CommittedSurvives ==
    phase = "rewound" => IsPrefixOf(committed, Content(files))

\* Files in a directory behave like one log that is cut at once.  While truncate()
\* is under way the log consists of the files that stay.
Staying == [n \in Name |-> IF n \in doomed THEN << >> ELSE files[n]]
LogNow ==
    CASE phase \in {"rewound", "run", "done"} -> Content(files) \o buffer
      [] phase = "truncate"                   -> Content(Staying)
      [] OTHER                                -> Truncated(Content(files), threshold)

Log == INSTANCE SnapshotLog WITH
           log <- LogNow, synced <- Len(LogNow) - Len(buffer),
           Threshold <- 0 .. Done

ImplementsLog == Log!Spec

=============================================================================

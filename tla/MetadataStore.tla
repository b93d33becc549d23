---------------------------- MODULE MetadataStore ----------------------------
(***************************************************************************)
(* The metadata blocks in which the workers keep their last finalized time *)
(* (MetadataAccessor in src/persistence/state.rs, on the backends of       *)
(* src/persistence/metadata_backends).  A block's key is                   *)
(* <version>-<worker>-<rotation>: the version is the start of the program, *)
(* and the two rotations are written in turn, so that the one before the   *)
(* last save stays readable while its successor is written.                *)
(***************************************************************************)
EXTENDS Integers

CONSTANTS
    Worker,
    MetadataBackends,  \* the storage kinds: "fs" (std::fs::write), "s3" (put_object)
    TornFirst,         \* whether a program may stop with its first block unreadable
    LastTime,          \* bound: the last time finalized
    MaxStarts          \* bound: number of times the program is started; the last one only reads

ASSUME MetadataAssumption ==
    /\ MetadataBackends \subseteq {"fs", "s3"} /\ TornFirst \in BOOLEAN
    /\ LastTime \in Nat \ {0} /\ MaxStarts \in Nat \ {0}

LastTimeDone == LastTime + 1   \* TotalFrontier::Done
NoBlock == -1               \* no such block, or no entry in a map
Torn    == -2               \* a block that StoredMetadata::parse rejects
Key     == [version : 1 .. MaxStarts, worker : Worker, rotation : 0 .. 1]

VARIABLES
    kvStorage,  \* the configured storage
    blocks,     \* Key -> the stored time, Torn or NoBlock
    access,     \* of each worker: "down", "reading", "open", "saving", "failed"
    keys,       \* the keys each worker has listed, while it goes through them
    todo,       \* those it has not processed yet
    past_runs_threshold_times,  \* of each worker, for each worker
    last_advanced_timestamp,    \* of each worker, in memory
    rotation,   \* of current_key_to_use
    start,      \* the number of this start, its version
    \* History.
    saved,      \* the time each worker has last saved
    inherited,  \* saved, as it was when this run started
    first       \* the workers that have not completed a save in this run

metadataVars == <<kvStorage, blocks, access, keys, todo, past_runs_threshold_times,
                  last_advanced_timestamp, rotation, start, saved, inherited, first>>

MetadataInit ==
    /\ kvStorage \in MetadataBackends
    /\ blocks = [k \in Key |-> NoBlock]
    /\ access = [w \in Worker |-> "down"]
    /\ keys = [w \in Worker |-> {}]
    /\ todo = [w \in Worker |-> {}]
    /\ past_runs_threshold_times = [w \in Worker |-> [v \in Worker |-> NoBlock]]
    /\ last_advanced_timestamp = [w \in Worker |-> 0]
    /\ rotation = [w \in Worker |-> 0]
    /\ start = 1
    /\ saved = [w \in Worker |-> NoBlock]
    /\ inherited = saved
    /\ first = Worker

-----------------------------------------------------------------------------
(* MetadataAccessor::new.  The workers are started together, each on its   *)
(* own; they all go through the blocks of all of them.                     *)

ListKeys(w) ==
    /\ access[w] = "down"
    /\ keys' = [keys EXCEPT ![w] = {k \in Key : blocks[k] # NoBlock}]
    /\ todo' = [todo EXCEPT ![w] = keys'[w]]
    /\ access' = [access EXCEPT ![w] = IF keys'[w] = {} THEN "open" ELSE "reading"]
    /\ UNCHANGED <<kvStorage, blocks, past_runs_threshold_times, last_advanced_timestamp,
                   rotation, start, saved, inherited, first>>

\* last_version_per_worker, from the keys that w has listed.
Obsolete(w, k) == \E l \in keys[w] : l.worker = k.worker /\ l.version > k.version

\* Oldest versions first, which leaves the other workers the most time to remove a
\* block before it is read; what is read does not depend on the order otherwise.
Processed(w, k) ==
    /\ \A l \in todo[w] : l.version >= k.version
    /\ \A l \in todo[w] : l.version = k.version => l.rotation >= k.rotation
    /\ todo' = [todo EXCEPT ![w] = @ \ {k}]
    /\ keys' = [keys EXCEPT ![w] = IF todo'[w] = {} THEN {} ELSE @]
    /\ UNCHANGED <<kvStorage, last_advanced_timestamp, rotation, start, saved, inherited, first>>

PhaseAfter(w, k) == IF todo[w] = {k} THEN "open" ELSE "reading"

\* An older version goes; another worker may have removed it already, which is
\* only logged.
RemoveObsolete(w, k) ==
    /\ access[w] = "reading" /\ k \in todo[w] /\ Obsolete(w, k)
    /\ blocks' = [blocks EXCEPT ![k] = NoBlock]
    /\ access' = [access EXCEPT ![w] = PhaseAfter(w, k)]
    /\ Processed(w, k)
    /\ UNCHANGED past_runs_threshold_times

\* The newest version is read: the larger of the two rotations counts, a block that
\* cannot be parsed is skipped, and one that is gone fails the worker.
ReadBlock(w, k) ==
    /\ access[w] = "reading" /\ k \in todo[w] /\ ~Obsolete(w, k)
    /\ past_runs_threshold_times' =
         IF blocks[k] <= past_runs_threshold_times[w][k.worker] THEN past_runs_threshold_times
         ELSE [past_runs_threshold_times EXCEPT ![w][k.worker] = blocks[k]]
    /\ access' = [access EXCEPT ![w] = IF blocks[k] = NoBlock THEN "failed" ELSE PhaseAfter(w, k)]
    /\ Processed(w, k)
    /\ UNCHANGED blocks

-----------------------------------------------------------------------------
(* save_current_state, called with a new finalized time.                   *)

CurrentKey(w) == [version |-> start, worker |-> w, rotation |-> rotation[w]]

\* Times advance only once every worker takes part in the computation.  The file
\* is emptied first; an S3 object changes in one piece.
BeginSave(w, t) ==
    /\ access[w] = "open" /\ \A v \in Worker : access[v] \in {"open", "saving"}
    /\ t > last_advanced_timestamp[w] /\ start < MaxStarts
    /\ last_advanced_timestamp' = [last_advanced_timestamp EXCEPT ![w] = t]
    /\ access' = [access EXCEPT ![w] = "saving"]
    /\ blocks' = IF kvStorage = "fs" THEN [blocks EXCEPT ![CurrentKey(w)] = Torn] ELSE blocks
    /\ UNCHANGED <<kvStorage, keys, todo, past_runs_threshold_times, rotation, start, saved,
                   inherited, first>>

Mut_EndSave(w) ==
    /\ access[w] = "saving"
    /\ blocks' = [blocks EXCEPT ![CurrentKey(w)] = last_advanced_timestamp[w]]
    /\ saved' = [saved EXCEPT ![w] = last_advanced_timestamp[w]]
    /\ first' = first \ {w}
    /\ access' = [access EXCEPT ![w] = "open"]
    /\ UNCHANGED <<kvStorage, keys, todo, past_runs_threshold_times, last_advanced_timestamp,
                   rotation, start, inherited>>
EndSave(w) ==
    /\ access[w] = "saving"
    /\ blocks' = [blocks EXCEPT ![CurrentKey(w)] = last_advanced_timestamp[w]]
    /\ rotation' = [rotation EXCEPT ![w] = 1 - @]
    /\ saved' = [saved EXCEPT ![w] = last_advanced_timestamp[w]]
    /\ first' = first \ {w}
    /\ access' = [access EXCEPT ![w] = "open"]
    /\ UNCHANGED <<kvStorage, keys, todo, past_runs_threshold_times, last_advanced_timestamp,
                   start, inherited>>

\* put_value fails, which is logged: the key stays the current one.
FailSave(w) ==
    /\ access[w] = "saving"
    /\ access' = [access EXCEPT ![w] = "open"]
    /\ UNCHANGED <<kvStorage, blocks, keys, todo, past_runs_threshold_times,
                   last_advanced_timestamp, rotation, start, saved, inherited, first>>

-----------------------------------------------------------------------------
\* Worker w leaves a torn block of this run.
TornBlock(w) == \E r \in 0 .. 1 : blocks[[version |-> start, worker |-> w, rotation |-> r]] = Torn

\* The program stops, at whatever step, and is started again.
RestartWorkers ==
    /\ start < MaxStarts
    /\ (\E w \in first : TornBlock(w)) => TornFirst
    /\ start' = start + 1
    /\ access' = [w \in Worker |-> "down"]
    /\ keys' = [w \in Worker |-> {}]
    /\ todo' = [w \in Worker |-> {}]
    /\ past_runs_threshold_times' = [w \in Worker |-> [v \in Worker |-> NoBlock]]
    /\ last_advanced_timestamp' = [w \in Worker |-> 0]
    /\ rotation' = [w \in Worker |-> 0]
    /\ inherited' = saved
    /\ first' = Worker
    /\ UNCHANGED <<kvStorage, blocks, saved>>

MetadataNext ==
    \/ \E w \in Worker :
         \/ ListKeys(w)
         \/ \E k \in Key : RemoveObsolete(w, k) \/ ReadBlock(w, k)
         \/ \E t \in 1 .. LastTimeDone : BeginSave(w, t)
         \/ EndSave(w) \/ FailSave(w)
    \/ RestartWorkers
MetadataSpec == MetadataInit /\ [][MetadataNext]_metadataVars

-----------------------------------------------------------------------------
(* Properties.                                                             *)

\* A worker that has read the metadata knows, for every worker, exactly the time of
\* its last completed save: although that may be below the time of an earlier run,
\* although a later save may have broken off in the middle, and although other
\* workers remove obsolete blocks meanwhile.
RecoversSaved ==
    \A w \in Worker :
        /\ access[w] # "failed"
        /\ access[w] \in {"open", "saving"} => past_runs_threshold_times[w] = inherited

=============================================================================

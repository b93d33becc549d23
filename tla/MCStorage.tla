------------------------------ MODULE MCStorage ------------------------------
(***************************************************************************)
(* Instances of the two stores for TLC: a snapshot in files or in objects, *)
(* and the metadata blocks.  A behaviour exercises one of them.            *)
(***************************************************************************)
EXTENDS SnapshotStore, MetadataStore

CONSTANTS
    w0, w1,
    LocalClock,  \* bound: the wall clock of a run on local files
    S3Runs       \* bound: the number of starts on S3

VARIABLE part

storageVars == <<part, vars, metadataVars>>

StorageInit ==
    /\ part \in {"snapshot", "blocks"}
    /\ Init /\ MetadataInit
    /\ part = "blocks" => backend = "local"
    /\ part = "snapshot" => kvStorage = "fs"

SnapshotPart ==
    /\ part = "snapshot" /\ Next
    /\ backend = "local" => clock' <= LocalClock
    /\ backend = "s3" => runs' <= S3Runs
    /\ UNCHANGED <<part, metadataVars>>
BlocksPart == part = "blocks" /\ MetadataNext /\ UNCHANGED <<part, vars>>

StorageSpec == StorageInit /\ [][SnapshotPart \/ BlocksPart]_storageVars

=============================================================================

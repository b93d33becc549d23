----------------------------- MODULE StoreProofs -----------------------------
(***************************************************************************)
(* Theorems about what is kept on disk.  MetadataStore, for any workers,   *)
(* times and starts: every worker finds the last completed saves.          *)
(* SnapshotStore, for every number of files, times and starts, on local    *)
(* files and on S3: what a commit covers survives truncate(), and the      *)
(* files implement the log of SnapshotLog.  Before them, what reading the  *)
(* files gives, and what truncation and appending do to it.                *)
(***************************************************************************)
EXTENDS MetadataStore, SnapshotStore, WellFoundedInduction, SequenceTheorems, TLAPS

-----------------------------------------------------------------------------
(* MetadataStore.                                                          *)

Times == 1 .. LastTimeDone

MetadataTypeOK ==
    /\ blocks \in [Key -> Times \cup {NoBlock, Torn}]
    /\ access \in [Worker -> {"down", "reading", "open", "saving", "failed"}]
    /\ keys \in [Worker -> SUBSET Key] /\ todo \in [Worker -> SUBSET Key]
    /\ past_runs_threshold_times \in [Worker -> [Worker -> Times \cup {NoBlock}]]
    /\ last_advanced_timestamp \in [Worker -> 0 .. LastTimeDone]
    /\ rotation \in [Worker -> 0 .. 1]
    /\ start \in 1 .. MaxStarts
    /\ saved \in [Worker -> Times \cup {NoBlock}] /\ inherited \in [Worker -> Times \cup {NoBlock}]
    /\ first \in SUBSET Worker

\* Block k is the one that the last save of its worker before this run left.
LastSaved(k) ==
    /\ k.version < start /\ inherited[k.worker] # NoBlock /\ blocks[k] = inherited[k.worker]
    /\ \A l \in Key : l.worker = k.worker /\ l.version = k.version => blocks[l] <= inherited[k.worker]
    /\ \A l \in Key : l.worker = k.worker /\ k.version < l.version /\ l.version < start => blocks[l] = NoBlock

\* There is such a block for each worker that has saved, and none for the others.
InheritedStored ==
    \A x \in Worker :
        IF inherited[x] = NoBlock
        THEN \A l \in Key : l.worker = x /\ l.version < start => blocks[l] = NoBlock
        ELSE \E k \in Key : k.worker = x /\ LastSaved(k)

\* The blocks of this run: the last save is in the rotation that is not written next.
SavedStored ==
    /\ \A l \in Key : l.version > start => blocks[l] = NoBlock
    /\ \A x \in first :
        /\ rotation[x] = 0 /\ saved[x] = inherited[x]
        /\ \A l \in Key : l.worker = x /\ l.version = start => blocks[l] \in {NoBlock, Torn}
    /\ \A x \in Worker \ first :
        /\ saved[x] # NoBlock /\ saved[x] <= last_advanced_timestamp[x]
        /\ \A l \in Key : l.worker = x /\ l.version = start =>
            blocks[l] <= saved[x] /\ (l.rotation # rotation[x] => blocks[l] = saved[x])
    /\ \A x \in Worker : access[x] = "saving" => last_advanced_timestamp[x] >= 1

\* Nobody writes as long as somebody reads.
ReadBeforeSave ==
    (\E w \in Worker : access[w] \in {"down", "reading"}) =>
        /\ \A w \in Worker : access[w] # "saving"
        /\ \A l \in Key : l.version = start => blocks[l] = NoBlock
        /\ first = Worker

\* What a reading worker has listed ends with the block that counts, and it has
\* read that block or still has it to do.
ReadsLastSaved(w) ==
    /\ access[w] # "failed"
    /\ \A x \in Worker : past_runs_threshold_times[w][x] <= inherited[x]
    /\ access[w] = "down" => \A x \in Worker : past_runs_threshold_times[w][x] = NoBlock
    /\ access[w] \in {"open", "saving"} => past_runs_threshold_times[w] = inherited
    /\ access[w] = "reading" =>
        /\ todo[w] \subseteq keys[w]
        /\ \A l \in keys[w] : l.version < start /\ inherited[l.worker] # NoBlock
        /\ \A k \in Key : LastSaved(k) =>
            /\ k \in keys[w]
            /\ k \in todo[w] \/ past_runs_threshold_times[w][k.worker] = inherited[k.worker]
            /\ \A l \in keys[w] : l.worker = k.worker =>
                l.version <= k.version /\ (l.version = k.version => blocks[l] # NoBlock)

MetadataInv ==
    /\ MetadataTypeOK /\ InheritedStored /\ SavedStored /\ ReadBeforeSave
    /\ \A w \in Worker : ReadsLastSaved(w)

-----------------------------------------------------------------------------
(* Facts about keys and about the block that counts.                       *)

\* The bounds and the two values that are no times.
LEMMA MetadataConstants ==
    /\ LastTimeDone \in Nat /\ LastTimeDone >= 1 /\ NoBlock = -1 /\ Torn = -2
    /\ \A t \in Times : t \in Nat /\ t >= 1 /\ t # NoBlock /\ t # Torn
  BY MetadataAssumption DEF LastTimeDone, NoBlock, Torn, Times

\* The fields of a key determine it, and have their types.
LEMMA KeyFields ==
    /\ \A k \in Key : k.version \in 1 .. MaxStarts /\ k.worker \in Worker /\ k.rotation \in 0 .. 1
    /\ \A k, l \in Key : k.version = l.version /\ k.worker = l.worker /\ k.rotation = l.rotation => k = l
  BY DEF Key

\* The key that save_current_state writes next.
LEMMA CurrentKeyFields ==
    ASSUME MetadataTypeOK, NEW w \in Worker
    PROVE  /\ CurrentKey(w) \in Key /\ CurrentKey(w).version = start
           /\ CurrentKey(w).worker = w /\ CurrentKey(w).rotation = rotation[w]
  BY DEF CurrentKey, Key, MetadataTypeOK

\* Writing blocks of this run, and removing blocks that are older than the one that
\* counts, does not change which block counts.
LEMMA LastSavedStable ==
    ASSUME MetadataTypeOK, InheritedStored, UNCHANGED <<start, inherited>>,
           \A l \in Key : blocks'[l] # blocks[l] =>
               \/ l.version >= start
               \/ blocks'[l] = NoBlock
                  /\ \E b \in Key : b.worker = l.worker /\ LastSaved(b) /\ l.version < b.version
    PROVE  \A k \in Key : LastSaved(k)' <=> LastSaved(k)
<1> USE MetadataConstants, KeyFields
<1>1. ASSUME NEW k \in Key, LastSaved(k) PROVE LastSaved(k)'
  <2>1. ASSUME NEW l \in Key, l.worker = k.worker, l.version >= k.version, l.version < start
        PROVE  blocks'[l] = blocks[l]
    <3> SUFFICES ASSUME blocks'[l] # blocks[l] PROVE FALSE
      OBVIOUS
    <3>1. PICK b \in Key : b.worker = l.worker /\ LastSaved(b) /\ l.version < b.version
      BY <2>1 DEF MetadataTypeOK
    <3>2. blocks[b] = NoBlock
      BY <1>1, <2>1, <3>1 DEF LastSaved, MetadataTypeOK
    <3> QED  BY <3>1, <3>2 DEF LastSaved
  <2> QED  BY <1>1, <2>1 DEF LastSaved, MetadataTypeOK
<1>2. ASSUME NEW k \in Key, LastSaved(k)' PROVE LastSaved(k)
  <2>1. inherited[k.worker] # NoBlock /\ k.version < start /\ k.worker \in Worker
    BY <1>2 DEF LastSaved
  <2>2. PICK b \in Key : b.worker = k.worker /\ LastSaved(b)
    BY <2>1 DEF InheritedStored
  <2>3. LastSaved(b)'
    BY <1>1, <2>2
  <2>4. b.version = k.version
    <3>1. blocks'[b] # NoBlock /\ blocks'[k] # NoBlock /\ b.version < start
      BY <1>2, <2>1, <2>2, <2>3 DEF LastSaved
    <3>2. ~ (k.version < b.version) /\ ~ (b.version < k.version)
      BY <1>2, <2>1, <2>2, <2>3, <3>1 DEF LastSaved
    <3> QED  BY <3>2
  <2>5. blocks[k] = blocks'[k]
    <3> SUFFICES ASSUME blocks[k] # blocks'[k] PROVE FALSE
      OBVIOUS
    <3>1. blocks'[k] # NoBlock
      BY <1>2, <2>1 DEF LastSaved
    <3> QED  BY <2>1, <3>1 DEF MetadataTypeOK
  <2>6. blocks[k] = inherited[k.worker]
    BY <1>2, <2>5 DEF LastSaved
  <2> QED  BY <2>1, <2>2, <2>4, <2>6 DEF LastSaved
<1> QED  BY <1>1, <1>2

\* Nothing is inherited when no block is stored.
LEMMA NothingInherited ==
    ASSUME MetadataTypeOK, InheritedStored, NEW x \in Worker, \A l \in Key : ~ (l.worker = x /\ LastSaved(l))
    PROVE  inherited[x] = NoBlock
  BY DEF InheritedStored

-----------------------------------------------------------------------------
(* The steps.                                                              *)

\* The initial states.
LEMMA MetadataInitInv == MetadataInit => MetadataInv
<1> SUFFICES ASSUME MetadataInit PROVE MetadataInv
  OBVIOUS
<1> USE MetadataConstants, KeyFields, MetadataAssumption DEF MetadataInit
<1>1. MetadataTypeOK
  BY DEF MetadataTypeOK
<1>2. InheritedStored
  BY DEF InheritedStored
<1>3. SavedStored
  BY DEF SavedStored
<1>4. ReadBeforeSave
  BY DEF ReadBeforeSave
<1>5. ASSUME NEW w \in Worker PROVE ReadsLastSaved(w)
  BY DEF ReadsLastSaved
<1> QED  BY <1>1, <1>2, <1>3, <1>4, <1>5 DEF MetadataInv

\* MetadataAccessor::new lists the keys.
LEMMA ListKeysInv ==
    ASSUME MetadataInv, NEW w \in Worker, ListKeys(w)
    PROVE  MetadataInv'
<1> USE MetadataConstants, KeyFields DEF MetadataInv, ListKeys
<1>1. MetadataTypeOK'
  BY DEF MetadataTypeOK
<1>2. \A k \in Key : LastSaved(k)' <=> LastSaved(k)
  BY DEF LastSaved
<1>3. InheritedStored'
  BY <1>2 DEF InheritedStored
<1>4. SavedStored'
  BY DEF SavedStored, MetadataTypeOK
<1>5. ReadBeforeSave'
  BY DEF ReadBeforeSave, MetadataTypeOK
<1>6. ASSUME NEW v \in Worker, v # w PROVE ReadsLastSaved(v)'
  <2>1. access'[v] = access[v] /\ keys'[v] = keys[v] /\ todo'[v] = todo[v]
    BY <1>6 DEF MetadataTypeOK
  <2>2. ReadsLastSaved(v)
    OBVIOUS
  <2> QED  BY <1>2, <2>1, <2>2 DEF ReadsLastSaved
<1>7. ReadsLastSaved(w)'
  <2>1. keys'[w] = {k \in Key : blocks[k] # NoBlock} /\ todo'[w] = keys'[w]
    BY DEF MetadataTypeOK
  <2>2. access'[w] = IF keys'[w] = {} THEN "open" ELSE "reading"
    BY DEF MetadataTypeOK
  <2>3. \A x \in Worker : past_runs_threshold_times[w][x] = NoBlock /\ past_runs_threshold_times[w][x] <= inherited[x]
    BY DEF ReadsLastSaved
  <2>4. \A l \in keys'[w] : l.version < start /\ inherited[l.worker] # NoBlock
    <3> SUFFICES ASSUME NEW l \in Key, blocks[l] # NoBlock PROVE l.version < start /\ inherited[l.worker] # NoBlock
      BY <2>1
    <3>1. l.version # start
      BY DEF ReadBeforeSave
    <3>2. ~ (l.version > start)
      BY DEF SavedStored
    <3>3. l.version < start
      <4>1. l.version \in Int /\ start \in Int
        BY DEF MetadataTypeOK
      <4> QED  BY <3>1, <3>2, <4>1
    <3> QED  BY <3>3 DEF InheritedStored
  <2>5. ASSUME keys'[w] = {} PROVE past_runs_threshold_times[w] = inherited
    <3>1. \A l \in Key : blocks[l] = NoBlock
      BY <2>1, <2>5
    <3>2. \A x \in Worker : inherited[x] = NoBlock
      BY <3>1, NothingInherited DEF LastSaved
    <3> QED  BY <2>3, <3>2 DEF MetadataTypeOK
  <2>6. ASSUME NEW k \in Key, LastSaved(k)
        PROVE  k \in keys'[w] /\ \A l \in keys'[w] : l.worker = k.worker =>
                   l.version <= k.version /\ (l.version = k.version => blocks[l] # NoBlock)
    BY <2>1, <2>4, <2>6 DEF LastSaved
  <2> QED  BY <1>2, <2>1, <2>2, <2>3, <2>4, <2>5, <2>6 DEF ReadsLastSaved
<1> QED  BY <1>1, <1>3, <1>4, <1>5, <1>6, <1>7

\* What holds of a worker that another one's removal of block k leaves alone.
LEMMA RemovalHarmless ==
    ASSUME MetadataInv, NEW w \in Worker, NEW k \in Key, RemoveObsolete(w, k)
    PROVE  /\ \A b \in Key : LastSaved(b) /\ b.worker = k.worker => k.version < b.version
           /\ k.version < start
           /\ \A b \in Key : LastSaved(b)' <=> LastSaved(b)
<1> USE MetadataConstants, KeyFields DEF MetadataInv
<1>0. ReadsLastSaved(w) /\ access[w] = "reading" /\ k \in todo[w]
  BY DEF RemoveObsolete
<1>1. PICK l \in keys[w] : l.worker = k.worker /\ l.version > k.version
  BY DEF RemoveObsolete, Obsolete
<1>2. l \in Key /\ l.version < start /\ inherited[l.worker] # NoBlock
  BY <1>0, <1>1 DEF ReadsLastSaved, MetadataTypeOK
<1>3. \A b \in Key : LastSaved(b) /\ b.worker = k.worker => k.version < b.version
  BY <1>0, <1>1, <1>2 DEF ReadsLastSaved
<1>4. PICK b \in Key : b.worker = k.worker /\ LastSaved(b)
  BY <1>1, <1>2 DEF InheritedStored
<1>5. \A m \in Key : blocks'[m] # blocks[m] => m = k /\ blocks'[m] = NoBlock
  BY Zenon DEF RemoveObsolete, MetadataTypeOK
<1>6. \A m \in Key : LastSaved(m)' <=> LastSaved(m)
  <2>1. UNCHANGED <<start, inherited>>
    BY DEF RemoveObsolete, Processed
  <2>2. \A m \in Key : blocks'[m] # blocks[m] =>
            blocks'[m] = NoBlock /\ \E c \in Key : c.worker = m.worker /\ LastSaved(c) /\ m.version < c.version
    BY <1>3, <1>4, <1>5
  <2> QED  BY <2>1, <2>2, LastSavedStable
<1>7. k.version < start
  BY <1>1, <1>2, MetadataAssumption DEF MetadataTypeOK
<1> QED  BY <1>3, <1>6, <1>7, Zenon

\* MetadataAccessor::new removes an obsolete block.
LEMMA RemoveObsoleteInv ==
    ASSUME MetadataInv, NEW w \in Worker, NEW k \in Key, RemoveObsolete(w, k)
    PROVE  MetadataInv'
<1> USE MetadataConstants, KeyFields DEF MetadataInv, RemoveObsolete, Processed
<1>0. /\ \A b \in Key : LastSaved(b) /\ b.worker = k.worker => k.version < b.version
      /\ k.version < start
      /\ \A b \in Key : LastSaved(b)' <=> LastSaved(b)
  BY RemovalHarmless, Zenon
<1>1. MetadataTypeOK'
  BY DEF MetadataTypeOK, PhaseAfter
<1>2. \A m \in Key : blocks'[m] = IF m = k THEN NoBlock ELSE blocks[m]
  BY DEF MetadataTypeOK
<1>3. InheritedStored'
  BY <1>0, <1>2 DEF InheritedStored
<1>4. access' = [access EXCEPT ![w] = PhaseAfter(w, k)] /\ access[w] = "reading"
      /\ PhaseAfter(w, k) \in {"open", "reading"}
  BY DEF PhaseAfter
<1>5. SavedStored'
  <2>1. \A m \in Key : m.version >= start => blocks'[m] = blocks[m]
    BY <1>0, <1>2 DEF MetadataTypeOK
  <2>2. \A x \in Worker : access'[x] = "saving" => access[x] = "saving"
    BY <1>4 DEF MetadataTypeOK
  <2> QED  BY <2>1, <2>2 DEF SavedStored, MetadataTypeOK
<1>6. ReadBeforeSave'
  BY <1>2, <1>4 DEF ReadBeforeSave, MetadataTypeOK
<1>7. ASSUME NEW v \in Worker, v # w PROVE ReadsLastSaved(v)'
  <2>1. access'[v] = access[v] /\ keys'[v] = keys[v] /\ todo'[v] = todo[v]
    BY <1>7 DEF MetadataTypeOK
  <2>2. ReadsLastSaved(v)
    OBVIOUS
  <2>3. ASSUME access[v] = "reading", NEW b \in Key, LastSaved(b), NEW l \in keys[v],
               l.worker = b.worker, l.version = b.version
        PROVE  blocks'[l] # NoBlock
    <3>1. l \in Key /\ blocks[l] # NoBlock
      BY <2>2, <2>3 DEF ReadsLastSaved, MetadataTypeOK
    <3> QED  BY <1>0, <1>2, <2>3, <3>1
  <2> QED  BY <1>0, <2>1, <2>2, <2>3 DEF ReadsLastSaved
<1>8. ReadsLastSaved(w)'
  <2>0. ReadsLastSaved(w)
    OBVIOUS
  <2>1. todo'[w] = todo[w] \ {k} /\ access'[w] = PhaseAfter(w, k)
        /\ keys'[w] = IF todo'[w] = {} THEN {} ELSE keys[w]
    BY Zenon DEF MetadataTypeOK
  <2>2. \A b \in Key : LastSaved(b) =>
            b \in todo'[w] \/ past_runs_threshold_times[w][b.worker] = inherited[b.worker]
    BY <1>0, <1>4, <2>0, <2>1 DEF ReadsLastSaved
  <2>3. CASE todo[w] = {k}
    <3>1. access'[w] = "open"
      BY <2>1, <2>3 DEF PhaseAfter
    <3>2. \A x \in Worker : past_runs_threshold_times[w][x] = inherited[x]
      <4> SUFFICES ASSUME NEW x \in Worker PROVE past_runs_threshold_times[w][x] = inherited[x]
        BY Zenon
      <4>1. CASE inherited[x] = NoBlock
        BY <2>0, <4>1 DEF ReadsLastSaved, MetadataTypeOK
      <4>2. CASE inherited[x] # NoBlock
        <5>1. PICK b \in Key : b.worker = x /\ LastSaved(b)
          BY <4>2 DEF InheritedStored
        <5> QED  BY <2>1, <2>2, <2>3, <5>1, Zenon
      <4> QED  BY <4>1, <4>2, Zenon
    <3>3. past_runs_threshold_times[w] = inherited
      BY <3>2 DEF MetadataTypeOK
    <3> QED  BY <2>0, <3>1, <3>3 DEF ReadsLastSaved
  <2>4. CASE todo[w] # {k}
    <3>1. access'[w] = "reading" /\ keys'[w] = keys[w]
      BY <1>4, <2>1, <2>4 DEF PhaseAfter
    <3>2. ASSUME NEW b \in Key, LastSaved(b), NEW l \in keys[w], l.worker = b.worker, l.version = b.version
          PROVE  blocks'[l] # NoBlock
      <4>1. l \in Key /\ blocks[l] # NoBlock
        BY <1>4, <2>0, <3>2 DEF ReadsLastSaved, MetadataTypeOK
      <4> QED  BY <1>0, <1>2, <3>2, <4>1
    <3> QED  BY <1>0, <1>4, <2>0, <2>1, <2>2, <3>1, <3>2 DEF ReadsLastSaved
  <2> QED  BY <2>3, <2>4
<1> QED  BY <1>1, <1>3, <1>5, <1>6, <1>7, <1>8

\* MetadataAccessor::new reads a block of the newest version.
LEMMA ReadBlockInv ==
    ASSUME MetadataInv, NEW w \in Worker, NEW k \in Key, ReadBlock(w, k)
    PROVE  MetadataInv'
<1> USE MetadataConstants, KeyFields DEF MetadataInv, ReadBlock, Processed
<1>0. ReadsLastSaved(w) /\ access[w] = "reading" /\ k \in todo[w] /\ k \in keys[w]
  BY Zenon DEF ReadsLastSaved
<1>1. PICK b \in Key : b.worker = k.worker /\ LastSaved(b)
  BY <1>0 DEF ReadsLastSaved, InheritedStored
<1>2. b.version = k.version
  <2>1. b \in keys[w] /\ k.version <= b.version
    BY <1>0, <1>1 DEF ReadsLastSaved
  <2>2. ~ (b.version > k.version)
    BY <1>1, <2>1, Zenon DEF Obsolete
  <2> QED  BY <2>1, <2>2
<1>3. blocks[k] # NoBlock /\ blocks[k] <= inherited[k.worker]
  BY <1>0, <1>1, <1>2 DEF ReadsLastSaved, LastSaved
<1>4. \A m \in Key : LastSaved(m)' <=> LastSaved(m)
  BY DEF LastSaved
<1>5. access' = [access EXCEPT ![w] = PhaseAfter(w, k)] /\ PhaseAfter(w, k) \in {"open", "reading"}
  BY <1>3, Zenon DEF PhaseAfter
<1>6. /\ past_runs_threshold_times' \in [Worker -> [Worker -> Times \cup {NoBlock}]]
      /\ \A v, x \in Worker : past_runs_threshold_times'[v][x] =
            IF v = w /\ x = k.worker /\ past_runs_threshold_times[v][x] < blocks[k]
            THEN blocks[k] ELSE past_runs_threshold_times[v][x]
  <2>1. k.worker \in Worker /\ blocks[k] \in Times \cup {NoBlock, Torn}
        /\ past_runs_threshold_times[w][k.worker] \in Times \cup {NoBlock}
    BY DEF MetadataTypeOK
  <2>2. CASE blocks[k] <= past_runs_threshold_times[w][k.worker]
    BY <2>1, <2>2 DEF MetadataTypeOK
  <2>3. CASE ~ (blocks[k] <= past_runs_threshold_times[w][k.worker])
    <3>1. past_runs_threshold_times[w][k.worker] < blocks[k] /\ blocks[k] \in Times
      BY <1>3, <2>1, <2>3
    <3> QED  BY <2>1, <2>3, <3>1, Zenon DEF MetadataTypeOK
  <2> QED  BY <2>2, <2>3, Zenon
<1>7. MetadataTypeOK'
  BY <1>5, <1>6 DEF MetadataTypeOK
<1>8. InheritedStored'
  BY <1>4 DEF InheritedStored
<1>9. SavedStored' /\ ReadBeforeSave'
  <2>1. \A x \in Worker : access'[x] = "saving" => access[x] = "saving"
    BY <1>5, Zenon DEF MetadataTypeOK
  <2>2. \A x \in Worker : access'[x] \in {"down", "reading"} => access[x] \in {"down", "reading"}
    BY <1>0, <1>5, Zenon DEF MetadataTypeOK
  <2>3. SavedStored'
    BY <2>1 DEF SavedStored
  <2>4. ReadBeforeSave'
    BY <2>1, <2>2, Zenon DEF ReadBeforeSave
  <2> QED  BY <2>3, <2>4, Zenon
<1>10. ASSUME NEW v \in Worker, v # w PROVE ReadsLastSaved(v)'
  <2>1. access'[v] = access[v] /\ keys'[v] = keys[v] /\ todo'[v] = todo[v]
    BY <1>5, <1>10, Zenon DEF MetadataTypeOK
  <2>2. past_runs_threshold_times'[v] = past_runs_threshold_times[v]
    BY <1>10 DEF MetadataTypeOK
  <2>3. ReadsLastSaved(v)
    OBVIOUS
  <2> QED  BY <1>4, <2>1, <2>2, <2>3 DEF ReadsLastSaved
<1>11. ReadsLastSaved(w)'
  <2>1. todo'[w] = todo[w] \ {k} /\ access'[w] = PhaseAfter(w, k)
        /\ keys'[w] = IF todo'[w] = {} THEN {} ELSE keys[w]
    BY <1>5, Zenon DEF MetadataTypeOK
  <2>2. \A x \in Worker : past_runs_threshold_times'[w][x] <= inherited[x]
    BY <1>0, <1>3, <1>6 DEF ReadsLastSaved
  <2>3. \A c \in Key : LastSaved(c) =>
            c \in todo'[w] \/ past_runs_threshold_times'[w][c.worker] = inherited[c.worker]
    <3> SUFFICES ASSUME NEW c \in Key, LastSaved(c), c \notin todo'[w]
                 PROVE  past_runs_threshold_times'[w][c.worker] = inherited[c.worker]
      BY Zenon
    <3>1. past_runs_threshold_times[w][c.worker] <= inherited[c.worker]
      BY <1>0, Zenon DEF ReadsLastSaved
    <3>2. CASE c = k
      <4>1. blocks[k] = inherited[k.worker] /\ k.worker \in Worker
        BY <3>2, Zenon DEF LastSaved
      <4>2. past_runs_threshold_times[w][k.worker] \in Int /\ inherited[k.worker] \in Int
        BY <4>1 DEF MetadataTypeOK
      <4>3. past_runs_threshold_times'[w][k.worker] =
                IF past_runs_threshold_times[w][k.worker] < blocks[k]
                THEN blocks[k] ELSE past_runs_threshold_times[w][k.worker]
        BY <1>6, <4>1, Zenon
      <4> QED  BY <3>1, <3>2, <4>1, <4>2, <4>3
    <3>3. CASE c # k
      <4>1. past_runs_threshold_times[w][c.worker] = inherited[c.worker]
        BY <1>0, <2>1, <3>3, Zenon DEF ReadsLastSaved
      <4> QED  BY <1>3, <1>6, <4>1 DEF MetadataTypeOK
    <3> QED  BY <3>2, <3>3
  <2>4. CASE todo[w] = {k}
    <3>1. access'[w] = "open"
      BY <2>1, <2>4, Zenon DEF PhaseAfter
    <3>2. \A x \in Worker : past_runs_threshold_times'[w][x] = inherited[x]
      <4> SUFFICES ASSUME NEW x \in Worker PROVE past_runs_threshold_times'[w][x] = inherited[x]
        BY Zenon
      <4>1. CASE inherited[x] = NoBlock
        BY <1>6, <2>2, <4>1
      <4>2. CASE inherited[x] # NoBlock
        <5>1. PICK c \in Key : c.worker = x /\ LastSaved(c)
          BY <4>2, Zenon DEF InheritedStored
        <5> QED  BY <2>1, <2>3, <2>4, <5>1, Zenon
      <4> QED  BY <4>1, <4>2
    <3>3. past_runs_threshold_times'[w] = inherited
      BY <1>6, <3>2 DEF MetadataTypeOK
    <3> QED  BY <2>2, <3>1, <3>3, Zenon DEF ReadsLastSaved
  <2>5. CASE todo[w] # {k}
    <3>1. access'[w] = "reading" /\ keys'[w] = keys[w]
      BY <1>0, <2>1, <2>5 DEF PhaseAfter
    <3> QED  BY <1>0, <1>4, <2>1, <2>2, <2>3, <3>1 DEF ReadsLastSaved
  <2> QED  BY <2>4, <2>5
<1> QED  BY <1>7, <1>8, <1>9, <1>10, <1>11, Zenon

\* save_current_state begins: the block of the rotation in use may become unreadable.
LEMMA BeginSaveInv ==
    ASSUME MetadataInv, NEW w \in Worker, NEW t \in Times, BeginSave(w, t)
    PROVE  MetadataInv'
<1> USE MetadataConstants, KeyFields DEF MetadataInv, BeginSave
<1>0. CurrentKey(w) \in Key /\ CurrentKey(w).version = start /\ CurrentKey(w).worker = w
      /\ CurrentKey(w).rotation = rotation[w]
  BY CurrentKeyFields
<1>1. \A m \in Key : blocks'[m] # blocks[m] => m = CurrentKey(w) /\ blocks'[m] = Torn
  BY DEF MetadataTypeOK
<1>2. MetadataTypeOK'
  BY <1>0 DEF MetadataTypeOK, Times
<1>3. \A m \in Key : LastSaved(m)' <=> LastSaved(m)
  <2>1. \A m \in Key : blocks'[m] # blocks[m] => m.version >= start
    BY <1>0, <1>1 DEF MetadataTypeOK
  <2> QED  BY <2>1, LastSavedStable, Zenon
<1>4. InheritedStored'
  BY <1>0, <1>1, <1>3 DEF InheritedStored, MetadataTypeOK
<1>5. \A x \in Worker : access'[x] \in {"open", "saving"} /\ (access'[x] = "saving" /\ x # w => access[x] = "saving")
  BY DEF MetadataTypeOK
<1>6. \A x \in Worker : last_advanced_timestamp[x] <= last_advanced_timestamp'[x]
      /\ (x = w => last_advanced_timestamp'[x] >= 1)
  BY DEF MetadataTypeOK, Times
<1>7. SavedStored'
  <2>1. \A m \in Key : m.version > start => blocks'[m] = NoBlock
    BY <1>0, <1>1 DEF SavedStored, MetadataTypeOK
  <2>2. ASSUME NEW x \in first PROVE \A l \in Key : l.worker = x /\ l.version = start => blocks'[l] \in {NoBlock, Torn}
    BY <1>1, Zenon DEF SavedStored
  <2>3. ASSUME NEW x \in Worker \ first
        PROVE  /\ saved[x] <= last_advanced_timestamp'[x]
               /\ \A l \in Key : l.worker = x /\ l.version = start =>
                   blocks'[l] <= saved[x] /\ (l.rotation # rotation[x] => blocks'[l] = saved[x])
    <3>1. saved[x] \in Times /\ saved[x] <= last_advanced_timestamp'[x]
      BY <1>2, <1>6 DEF SavedStored, MetadataTypeOK
    <3> QED  BY <1>0, <1>1, <3>1 DEF SavedStored
  <2>4. \A x \in Worker : access'[x] = "saving" => last_advanced_timestamp'[x] >= 1
    BY <1>2, <1>5, <1>6 DEF SavedStored, MetadataTypeOK
  <2> QED  BY <2>1, <2>2, <2>3, <2>4 DEF SavedStored
<1>8. ReadBeforeSave'
  BY <1>5, Zenon DEF ReadBeforeSave
<1>9. ASSUME NEW v \in Worker PROVE ReadsLastSaved(v)'
  <2>1. ReadsLastSaved(v) /\ access[v] \in {"open", "saving"}
    BY Zenon
  <2> QED  BY <1>5, <2>1 DEF ReadsLastSaved
<1> QED  BY <1>2, <1>4, <1>7, <1>8, <1>9, Zenon

\* save_current_state ends: the other rotation comes next.
LEMMA EndSaveInv ==
    ASSUME MetadataInv, NEW w \in Worker, EndSave(w)
    PROVE  MetadataInv'
<1> USE MetadataConstants, KeyFields DEF MetadataInv, EndSave
<1>0. CurrentKey(w) \in Key /\ CurrentKey(w).version = start /\ CurrentKey(w).worker = w
      /\ CurrentKey(w).rotation = rotation[w]
  BY CurrentKeyFields, Zenon
<1>1. last_advanced_timestamp[w] \in Times
  BY DEF SavedStored, MetadataTypeOK, Times
<1>2. \A m \in Key : blocks'[m] = IF m = CurrentKey(w) THEN last_advanced_timestamp[w] ELSE blocks[m]
  BY Zenon DEF MetadataTypeOK
<1>3. MetadataTypeOK'
  BY <1>0, <1>1 DEF MetadataTypeOK
<1>4. \A m \in Key : LastSaved(m)' <=> LastSaved(m)
  <2>1. \A m \in Key : blocks'[m] # blocks[m] => m.version >= start
    BY <1>0, <1>2 DEF MetadataTypeOK
  <2> QED  BY <2>1, LastSavedStable
<1>5. InheritedStored'
  BY <1>0, <1>2, <1>4 DEF InheritedStored, MetadataTypeOK
<1>6. \A x \in Worker : access[x] \notin {"down", "reading"} /\ access'[x] \notin {"down", "reading"}
      /\ (access'[x] = "saving" => access[x] = "saving")
  BY Zenon DEF ReadBeforeSave, MetadataTypeOK
<1>7. SavedStored'
  <2>1. \A m \in Key : m.version > start => blocks'[m] = NoBlock
    BY <1>0, <1>2 DEF SavedStored, MetadataTypeOK
  <2>2. ASSUME NEW x \in first'
        PROVE  /\ rotation'[x] = 0 /\ saved'[x] = inherited[x]
               /\ \A l \in Key : l.worker = x /\ l.version = start => blocks'[l] \in {NoBlock, Torn}
    <3>1. x \in first /\ x # w /\ x \in Worker
      BY DEF MetadataTypeOK
    <3> QED  BY <1>0, <1>2, <3>1, Zenon DEF SavedStored, MetadataTypeOK
  <2>3. ASSUME NEW x \in Worker \ first'
        PROVE  /\ saved'[x] # NoBlock /\ saved'[x] <= last_advanced_timestamp[x]
               /\ \A l \in Key : l.worker = x /\ l.version = start =>
                   blocks'[l] <= saved'[x] /\ (l.rotation # rotation'[x] => blocks'[l] = saved'[x])
    <3>1. CASE x # w
      <4>1. x \notin first /\ saved'[x] = saved[x] /\ rotation'[x] = rotation[x]
        BY <3>1, Zenon DEF MetadataTypeOK
      <4> QED  BY <1>0, <1>2, <3>1, <4>1 DEF SavedStored
    <3>2. CASE x = w
      <4>1. saved'[w] = last_advanced_timestamp[w] /\ rotation'[w] = 1 - rotation[w] /\ rotation[w] \in 0 .. 1
        BY Zenon DEF MetadataTypeOK
      <4>2. ASSUME NEW l \in Key, l.worker = w, l.version = start
            PROVE  /\ blocks'[l] <= last_advanced_timestamp[w]
                   /\ l.rotation = rotation[w] => blocks'[l] = last_advanced_timestamp[w]
        <5>1. CASE l.rotation = rotation[w]
          <6>1. l = CurrentKey(w)
            BY <1>0, <4>2, <5>1, Zenon
          <6> QED  BY <1>1, <1>2, <6>1
        <5>2. CASE l.rotation # rotation[w]
          <6>1. blocks'[l] = blocks[l] /\ blocks[l] \in Times \cup {NoBlock, Torn}
            BY <1>0, <1>2, <5>2, Zenon DEF MetadataTypeOK
          <6>2. CASE w \in first
            BY <1>1, <4>2, <5>2, <6>1, <6>2 DEF SavedStored
          <6>3. CASE w \notin first
            BY <1>1, <4>2, <5>2, <6>1, <6>3, Zenon DEF SavedStored, MetadataTypeOK
          <6> QED  BY <6>2, <6>3
        <5> QED  BY <5>1, <5>2, Zenon
      <4> QED  BY <1>1, <3>2, <4>1, <4>2
    <3> QED  BY <3>1, <3>2, Zenon
  <2>4. \A x \in Worker : access'[x] = "saving" => last_advanced_timestamp[x] >= 1
    BY <1>6 DEF SavedStored
  <2> QED  BY <2>1, <2>2, <2>3, <2>4 DEF SavedStored
<1>8. ReadBeforeSave'
  BY <1>6, Zenon DEF ReadBeforeSave
<1>9. ASSUME NEW v \in Worker PROVE ReadsLastSaved(v)'
  <2>1. ReadsLastSaved(v) /\ access[v] \in {"open", "saving"} /\ access'[v] \in {"open", "saving"}
    BY <1>3, <1>6 DEF ReadsLastSaved, MetadataTypeOK
  <2> QED  BY <2>1, Zenon DEF ReadsLastSaved
<1> QED  BY <1>3, <1>5, <1>7, <1>8, <1>9, Zenon

\* put_value fails.
LEMMA FailSaveInv ==
    ASSUME MetadataInv, NEW w \in Worker, FailSave(w)
    PROVE  MetadataInv'
<1> USE MetadataConstants, KeyFields DEF MetadataInv, FailSave
<1>1. MetadataTypeOK'
  BY DEF MetadataTypeOK
<1>2. \A m \in Key : LastSaved(m)' <=> LastSaved(m)
  BY Zenon DEF LastSaved
<1>3. InheritedStored'
  BY <1>2 DEF InheritedStored
<1>4. \A x \in Worker : access[x] \notin {"down", "reading"} /\ access'[x] \notin {"down", "reading"}
      /\ (access'[x] = "saving" => access[x] = "saving")
  BY Zenon DEF ReadBeforeSave, MetadataTypeOK
<1>5. SavedStored' /\ ReadBeforeSave'
  BY <1>4, Zenon DEF SavedStored, ReadBeforeSave
<1>6. ASSUME NEW v \in Worker PROVE ReadsLastSaved(v)'
  <2>1. ReadsLastSaved(v) /\ access[v] \in {"open", "saving"} /\ access'[v] \in {"open", "saving"}
    BY <1>1, <1>4 DEF ReadsLastSaved, MetadataTypeOK
  <2> QED  BY <2>1, Zenon DEF ReadsLastSaved
<1> QED  BY <1>1, <1>3, <1>5, <1>6, Zenon

\* The program stops at any step, but not with its first block unreadable.
LEMMA RestartInv ==
    ASSUME MetadataInv, TornFirst = FALSE, RestartWorkers
    PROVE  MetadataInv'
<1> USE MetadataConstants, KeyFields, MetadataAssumption DEF MetadataInv, RestartWorkers
<1>1. MetadataTypeOK'
  BY DEF MetadataTypeOK
<1>2. \A x \in first : \A l \in Key : l.worker = x /\ l.version = start => blocks[l] = NoBlock
  <2> SUFFICES ASSUME NEW x \in first, NEW l \in Key, l.worker = x, l.version = start, blocks[l] # NoBlock
               PROVE  FALSE
    BY Zenon
  <2>1. blocks[l] = Torn
    BY Zenon DEF SavedStored
  <2>2. l = [version |-> start, worker |-> x, rotation |-> l.rotation] /\ l.rotation \in 0 .. 1
    BY Zenon DEF Key
  <2> QED  BY <2>1, <2>2 DEF TornBlock
<1>3. \A l \in Key : l.version >= start' => blocks[l] = NoBlock
  BY DEF SavedStored, MetadataTypeOK
<1>4. InheritedStored'
  <2> SUFFICES ASSUME NEW x \in Worker
               PROVE  IF saved[x] = NoBlock
                      THEN \A l \in Key : l.worker = x /\ l.version < start + 1 => blocks[l] = NoBlock
                      ELSE \E k \in Key : k.worker = x /\ LastSaved(k)'
    BY Zenon DEF InheritedStored
  <2>1. CASE x \in first /\ saved[x] = NoBlock
    <3>1. inherited[x] = NoBlock
      BY <2>1, Zenon DEF SavedStored
    <3>2. ASSUME NEW l \in Key, l.worker = x, l.version < start + 1 PROVE blocks[l] = NoBlock
      <4>1. l.version < start \/ l.version = start
        <5>1. l.version \in Int /\ start \in Int
          BY DEF MetadataTypeOK
        <5> QED  BY <3>2, <5>1
      <4> QED  BY <1>2, <2>1, <3>1, <3>2, <4>1, Zenon DEF InheritedStored
    <3> QED  BY <2>1, <3>2, Zenon
  <2>2. CASE x \in first /\ saved[x] # NoBlock
    <3>1. PICK k \in Key : k.worker = x /\ LastSaved(k)
      BY <2>2, Zenon DEF SavedStored, InheritedStored
    <3>2. saved[x] = inherited[x]
      BY <2>2, Zenon DEF SavedStored
    <3>3. LastSaved(k)'
      <4>1. start \in Nat /\ start' = start + 1 /\ inherited'[x] = inherited[x] /\ blocks' = blocks
        BY <3>2 DEF MetadataTypeOK
      <4>2. k.version < start + 1 /\ blocks[k] = inherited[x] /\ inherited[x] # NoBlock
        BY <3>1, <4>1 DEF LastSaved
      <4>3. ASSUME NEW l \in Key, l.worker = x, k.version < l.version, l.version < start + 1
            PROVE  blocks[l] = NoBlock
        <5>1. l.version < start \/ l.version = start
          BY <4>1, <4>3
        <5> QED  BY <1>2, <2>2, <3>1, <4>3, <5>1, Zenon DEF LastSaved
      <4> QED  BY <3>1, <4>1, <4>2, <4>3, Zenon DEF LastSaved
    <3> QED  BY <2>2, <3>1, <3>3, Zenon
  <2>3. CASE x \notin first
    <3>1. PICK k \in Key : k.version = start /\ k.worker = x /\ k.rotation # rotation[x]
      <4>1. rotation[x] \in 0 .. 1 /\ 1 - rotation[x] \in 0 .. 1 /\ 1 - rotation[x] # rotation[x]
        BY DEF MetadataTypeOK
      <4>2. [version |-> start, worker |-> x, rotation |-> 1 - rotation[x]] \in Key
        BY <4>1, Zenon DEF MetadataTypeOK, Key
      <4> QED  BY <4>1, <4>2, Zenon
    <3>2. saved[x] # NoBlock /\ blocks[k] = saved[x]
      BY <2>3, <3>1, Zenon DEF SavedStored
    <3>3. \A l \in Key : l.worker = x /\ l.version = start => blocks[l] <= saved[x]
      BY <2>3, Zenon DEF SavedStored
    <3>4. start \in Nat /\ start' = start + 1 /\ inherited' = saved /\ blocks' = blocks
      BY DEF MetadataTypeOK
    <3>5. LastSaved(k)'
      <4>1. \A l \in Key : ~ (k.version < l.version /\ l.version < start + 1)
        BY <3>1, <3>4
      <4> QED  BY <3>1, <3>2, <3>3, <3>4, <4>1 DEF LastSaved
    <3> QED  BY <3>1, <3>2, <3>5, Zenon
  <2> QED  BY <2>1, <2>2, <2>3, Zenon
<1>5. SavedStored'
  BY <1>3 DEF SavedStored, MetadataTypeOK
<1>6. ReadBeforeSave'
  BY <1>3 DEF ReadBeforeSave, MetadataTypeOK
<1>7. ASSUME NEW w \in Worker PROVE ReadsLastSaved(w)'
  <2>1. access'[w] = "down"
    BY Zenon
  <2>2. ASSUME NEW x \in Worker PROVE past_runs_threshold_times'[w][x] = NoBlock /\ NoBlock <= inherited'[x]
    <3>1. saved[x] \in Times \cup {NoBlock}
      BY DEF MetadataTypeOK
    <3> QED  BY <3>1
  <2> QED  BY <2>1, <2>2 DEF ReadsLastSaved
<1> QED  BY <1>1, <1>4, <1>5, <1>6, <1>7, Zenon

-----------------------------------------------------------------------------
\* For any number of workers, saves and starts, on files and on S3, a worker that has
\* read the metadata knows exactly the last completed save of every worker, whatever
\* step the program was stopped at, except within the first save of a run.
THEOREM RecoversSavedAlways == TornFirst = FALSE /\ MetadataSpec => []RecoversSaved
<1> SUFFICES ASSUME TornFirst = FALSE PROVE MetadataSpec => []RecoversSaved
  BY Zenon
<1>1. MetadataInit => MetadataInv
  BY MetadataInitInv
<1>2. MetadataInv /\ [MetadataNext]_metadataVars => MetadataInv'
  <2> SUFFICES ASSUME MetadataInv, [MetadataNext]_metadataVars PROVE MetadataInv'
    OBVIOUS
  <2>1. CASE UNCHANGED metadataVars
    <3> USE <2>1 DEF metadataVars, MetadataInv
    <3>1. \A k \in Key : LastSaved(k)' <=> LastSaved(k)
      BY Zenon DEF LastSaved
    <3>2. MetadataTypeOK' /\ SavedStored' /\ ReadBeforeSave'
      BY DEF MetadataTypeOK, SavedStored, ReadBeforeSave
    <3>3. InheritedStored'
      BY <3>1, Zenon DEF InheritedStored
    <3>4. ASSUME NEW w \in Worker PROVE ReadsLastSaved(w)'
      BY <3>1, Zenon DEF ReadsLastSaved
    <3> QED  BY <3>2, <3>3, <3>4, Zenon
  <2>2. CASE RestartWorkers
    BY <2>2, RestartInv, Zenon
  <2>3. ASSUME NEW w \in Worker,
               ListKeys(w) \/ EndSave(w) \/ FailSave(w)
               \/ (\E k \in Key : RemoveObsolete(w, k) \/ ReadBlock(w, k))
               \/ (\E t \in 1 .. LastTimeDone : BeginSave(w, t))
        PROVE  MetadataInv'
    BY <2>3, ListKeysInv, EndSaveInv, FailSaveInv, RemoveObsoleteInv, ReadBlockInv, BeginSaveInv DEF Times
  <2> QED  BY <2>1, <2>2, <2>3 DEF MetadataNext
<1>3. MetadataInv => RecoversSaved
  BY Zenon DEF MetadataInv, ReadsLastSaved, RecoversSaved
<1> QED  BY <1>1, <1>2, <1>3, PTL DEF MetadataSpec

-----------------------------------------------------------------------------
(* Reading the files one after the other.                                  *)

\* A non-empty set of naturals has a least element.
LEMMA NatMin ==
    ASSUME NEW S \in SUBSET Nat, S # {}
    PROVE  \E m \in S : \A x \in S : m <= x
<1>1. PICK m \in S : \A x \in S : ~ (<<x, m>> \in OpToRel(<, Nat))
  BY NatLessThanWellFounded, WFMin, Zenon
<1>2. \A x \in S : ~ (x < m)
  BY <1>1, Zenon DEF OpToRel
<1> QED  BY <1>2

\* What a directory or a bucket may hold.
Dir == [Name -> Seq(Event)]

\* There is a function that satisfies the recursion of ReadOrder.
LEMMA ReadOrderExists ==
    ASSUME NEW fs
    PROVE  \E cat : cat = [n \in 0 .. MaxTime |-> IF n = 0 THEN << >> ELSE cat[n - 1] \o fs[n]]
<1> DEFINE S == {k \in Nat : ~ \E cat : cat = [n \in 0 .. k |-> IF n = 0 THEN << >> ELSE cat[n - 1] \o fs[n]]}
<1>1. SUFFICES ASSUME S # {}
               PROVE  FALSE
  <2>1. MaxTime \in Nat
    BY StoreAssumption
  <2> QED  BY <2>1, Zenon
<1>2. PICK k \in S : \A j \in S : k <= j
  BY <1>1, NatMin, Zenon
<1>3. k # 0
  <2> SUFFICES ASSUME k = 0
               PROVE  \E cat : cat = [n \in 0 .. k |-> IF n = 0 THEN << >> ELSE cat[n - 1] \o fs[n]]
    BY <1>2, Zenon
  <2> DEFINE c == [n \in 0 .. 0 |-> << >>]
  <2>1. c = [n \in 0 .. 0 |-> IF n = 0 THEN << >> ELSE c[n - 1] \o fs[n]]
    OBVIOUS
  <2> QED  BY <2>1, Zenon
<1>4. PICK c : c = [n \in 0 .. k - 1 |-> IF n = 0 THEN << >> ELSE c[n - 1] \o fs[n]]
  <2>1. k - 1 \in Nat /\ ~ (k <= k - 1)
    BY <1>3
  <2>2. k - 1 \notin S
    BY <2>1, <1>2, Zenon
  <2> QED  BY <2>1, <2>2, Zenon
<1> DEFINE d == [n \in 0 .. k |-> IF n = k THEN c[k - 1] \o fs[k] ELSE c[n]]
<1>5. ASSUME NEW n \in 0 .. k
      PROVE  d[n] = IF n = 0 THEN << >> ELSE d[n - 1] \o fs[n]
  <2>1. CASE n = k
    <3>1. k - 1 \in 0 .. k /\ k - 1 # k
      BY <1>3
    <3>2. d[k - 1] = c[k - 1]
      BY <3>1, Zenon
    <3> QED  BY <2>1, <3>2, <1>3, Zenon
  <2>2. CASE n # k
    <3>1. n \in 0 .. k - 1 /\ d[n] = c[n]
      BY <2>2
    <3>2. c[n] = IF n = 0 THEN << >> ELSE c[n - 1] \o fs[n]
      BY <3>1, <1>4
    <3>3. n # 0 => n - 1 \in 0 .. k /\ n - 1 # k /\ d[n - 1] = c[n - 1]
      BY <3>1
    <3> QED  BY <3>1, <3>2, <3>3
  <2> QED  BY <2>1, <2>2, Zenon
<1>6. d = [n \in 0 .. k |-> IF n = 0 THEN << >> ELSE d[n - 1] \o fs[n]]
  <2> HIDE DEF d
  <2>1. d = [n \in 0 .. k |-> d[n]]
    BY DEF d
  <2> QED  BY <1>5, <2>1
<1>7. k \notin S
  <2> HIDE DEF d
  <2> QED  BY <1>6, Zenon
<1> QED  BY <1>2, <1>7, Zenon

\* What was read by the end of a file is what was read before, and the file.
LEMMA ReadOrderDef ==
    ASSUME NEW fs
    PROVE  /\ ReadOrder(fs)[0] = << >>
           /\ \A n \in Name : ReadOrder(fs)[n] = ReadOrder(fs)[n - 1] \o fs[n]
<1>1. ReadOrder(fs) = [n \in 0 .. MaxTime |->
                          IF n = 0 THEN << >> ELSE ReadOrder(fs)[n - 1] \o fs[n]]
  BY ReadOrderExists, Zenon DEF ReadOrder
<1>2. MaxTime \in Nat
  BY StoreAssumption
<1> QED  BY <1>1, <1>2 DEF Name

\* Reading gives a log of events for every number of files.
LEMMA ReadOrderType ==
    ASSUME NEW fs \in Dir
    PROVE  \A n \in 0 .. MaxTime : ReadOrder(fs)[n] \in Seq(Event)
<1> DEFINE S == {n \in 0 .. MaxTime : ReadOrder(fs)[n] \notin Seq(Event)}
<1>0. MaxTime \in Nat
  BY StoreAssumption
<1>1. SUFFICES ASSUME S # {}
               PROVE  FALSE
  OBVIOUS
<1>2. PICK k \in S : \A j \in S : k <= j
  <2>1. S \in SUBSET Nat
    BY <1>0
  <2> HIDE DEF S
  <2> QED  BY <2>1, <1>1, NatMin
<1>3. k # 0
  <2>1. ReadOrder(fs)[0] = << >>
    BY ReadOrderDef, Zenon
  <2>2. << >> \in Seq(Event)
    OBVIOUS
  <2> QED  BY <1>2, <2>1, <2>2, Zenon
<1>4. k \in Name /\ k - 1 \in 0 .. MaxTime /\ ~ (k <= k - 1)
  BY <1>0, <1>2, <1>3 DEF Name
<1>5. ReadOrder(fs)[k - 1] \in Seq(Event)
  <2>1. k - 1 \notin S
    BY <1>2, <1>4
  <2> QED  BY <1>4, <2>1
<1>6. ReadOrder(fs)[k] = ReadOrder(fs)[k - 1] \o fs[k]
  BY <1>4, ReadOrderDef, Zenon
<1>7. fs[k] \in Seq(Event)
  BY <1>4, Zenon DEF Dir
<1>8. ReadOrder(fs)[k] \in Seq(Event)
  BY <1>5, <1>6, <1>7, ConcatProperties
<1> QED  BY <1>2, <1>8

\* The content is a log of events.
LEMMA ContentType ==
    ASSUME NEW fs \in Dir
    PROVE  /\ Content(fs) \in Seq(Event)
           /\ Content(fs) = ReadOrder(fs)[MaxTime]
<1>1. MaxTime \in 0 .. MaxTime
  BY StoreAssumption
<1> QED  BY <1>1, ReadOrderType DEF Content

\* A reader cannot tell directories with the same files apart.
LEMMA ReadSame ==
    ASSUME NEW fs, NEW gs, NEW n \in 0 .. MaxTime, \A m \in 1 .. n : fs[m] = gs[m]
    PROVE  ReadOrder(fs)[n] = ReadOrder(gs)[n]
<1> DEFINE S == {j \in 0 .. n : ReadOrder(fs)[j] # ReadOrder(gs)[j]}
<1>0. MaxTime \in Nat /\ n \in Nat
  BY StoreAssumption
<1>1. SUFFICES ASSUME S # {}
               PROVE  FALSE
  BY <1>0
<1>2. PICK k \in S : \A j \in S : k <= j
  <2>1. S \in SUBSET Nat
    BY <1>0
  <2> HIDE DEF S
  <2> QED  BY <2>1, <1>1, NatMin
<1>3. k # 0
  <2>1. ReadOrder(fs)[0] = << >> /\ ReadOrder(gs)[0] = << >>
    BY ReadOrderDef, Zenon
  <2> QED  BY <1>2, <2>1
<1>4. k \in 1 .. n /\ k \in Name /\ k - 1 \in 0 .. n /\ ~ (k <= k - 1)
  BY <1>0, <1>2, <1>3 DEF Name
<1>5. ReadOrder(fs)[k - 1] = ReadOrder(gs)[k - 1]
  <2>1. k - 1 \notin S
    BY <1>2, <1>4
  <2> QED  BY <1>4, <2>1
<1>6. /\ ReadOrder(fs)[k] = ReadOrder(fs)[k - 1] \o fs[k]
      /\ ReadOrder(gs)[k] = ReadOrder(gs)[k - 1] \o gs[k]
  BY <1>4, ReadOrderDef, Zenon
<1>7. fs[k] = gs[k]
  BY <1>4, Zenon
<1> QED  BY <1>2, <1>5, <1>6, <1>7, Zenon

\* Files that are empty add nothing.
LEMMA ReadEmpty ==
    ASSUME NEW fs \in Dir, NEW a \in 0 .. MaxTime, NEW b \in a .. MaxTime,
           \A m \in Name : a < m /\ m <= b => fs[m] = << >>
    PROVE  ReadOrder(fs)[b] = ReadOrder(fs)[a]
<1> DEFINE S == {j \in a .. b : ReadOrder(fs)[j] # ReadOrder(fs)[a]}
<1>0. MaxTime \in Nat /\ a \in Nat /\ b \in Nat /\ a <= b
  BY StoreAssumption
<1>1. SUFFICES ASSUME S # {}
               PROVE  FALSE
  BY <1>0
<1>2. PICK k \in S : \A j \in S : k <= j
  <2>1. S \in SUBSET Nat
    BY <1>0
  <2> HIDE DEF S
  <2> QED  BY <2>1, <1>1, NatMin
<1>3. k # a
  BY <1>2
<1>4. k \in Name /\ a < k /\ k <= b /\ k - 1 \in a .. b /\ k - 1 \in 0 .. MaxTime /\ ~ (k <= k - 1)
  BY <1>0, <1>2, <1>3 DEF Name
<1>5. ReadOrder(fs)[k - 1] = ReadOrder(fs)[a]
  <2>1. k - 1 \notin S
    BY <1>2, <1>4
  <2> QED  BY <1>4, <2>1, Zenon
<1>6. ReadOrder(fs)[k] = ReadOrder(fs)[k - 1] \o fs[k]
  BY <1>4, ReadOrderDef, Zenon
<1>7. fs[k] = << >>
  BY <1>4, Zenon
<1>8. ReadOrder(fs)[k - 1] \in Seq(Event)
  BY <1>4, ReadOrderType, Zenon
<1>9. ReadOrder(fs)[k] = ReadOrder(fs)[k - 1]
  BY <1>6, <1>7, <1>8, ConcatEmptySeq, Zenon
<1> QED  BY <1>2, <1>5, <1>9

\* What was read stays a prefix of what will have been read.
LEMMA ReadPrefix ==
    ASSUME NEW fs \in Dir, NEW a \in 0 .. MaxTime, NEW b \in a .. MaxTime
    PROVE  /\ Len(ReadOrder(fs)[a]) <= Len(ReadOrder(fs)[b])
           /\ \A i \in 1 .. Len(ReadOrder(fs)[a]) : ReadOrder(fs)[b][i] = ReadOrder(fs)[a][i]
<1> DEFINE R(j) == ReadOrder(fs)[j]
           Good(j) == Len(R(a)) <= Len(R(j)) /\ \A i \in 1 .. Len(R(a)) : R(j)[i] = R(a)[i]
           S == {j \in a .. b : ~ Good(j)}
<1>0. MaxTime \in Nat /\ a \in Nat /\ b \in Nat /\ a <= b
  BY StoreAssumption
<1>a. Len(R(a)) \in Nat
  BY ReadOrderType, LenProperties, Zenon
<1>1. SUFFICES ASSUME S # {}
               PROVE  FALSE
  BY <1>0
<1>2. PICK k \in S : \A j \in S : k <= j
  <2>1. S \in SUBSET Nat
    BY <1>0
  <2> HIDE DEF S
  <2> QED  BY <2>1, <1>1, NatMin, Zenon
<1>3. k # a
  <2>1. Good(a)
    BY <1>a
  <2> HIDE DEF Good
  <2> QED  BY <1>2, <2>1, Zenon
<1>4. k \in Name /\ k - 1 \in a .. b /\ k - 1 \in 0 .. MaxTime /\ ~ (k <= k - 1)
  BY <1>0, <1>2, <1>3 DEF Name
<1>5. Good(k - 1)
  <2> HIDE DEF Good
  <2>1. k - 1 \notin S
    BY <1>2, <1>4
  <2> QED  BY <1>4, <2>1
<1>6. R(k) = R(k - 1) \o fs[k]
  BY <1>4, ReadOrderDef, Zenon
<1>7. R(k - 1) \in Seq(Event) /\ fs[k] \in Seq(Event)
  BY <1>4, ReadOrderType DEF Dir
<1>8. /\ Len(R(k)) = Len(R(k - 1)) + Len(fs[k])
      /\ \A i \in 1 .. Len(R(k - 1)) : R(k)[i] = R(k - 1)[i]
      /\ Len(R(k - 1)) \in Nat /\ Len(fs[k]) \in Nat
  <2> HIDE DEF R
  <2> QED  BY <1>6, <1>7
<1>9. Good(k)
  <2> HIDE DEF R, S
  <2>1. Len(R(a)) <= Len(R(k))
    <3>1. Len(R(a)) <= Len(R(k - 1))
      BY <1>5, Zenon
    <3>2. Len(R(k)) = Len(R(k - 1)) + Len(fs[k]) /\ Len(R(k - 1)) \in Nat /\ Len(fs[k]) \in Nat
      BY <1>8, Zenon
    <3>3. \A x, y, z \in Nat : x <= y => x <= y + z
      OBVIOUS
    <3> QED  BY <3>1, <3>2, <3>3, <1>a, Zenon
  <2>2. ASSUME NEW i \in 1 .. Len(R(a))
        PROVE  R(k)[i] = R(a)[i]
    <3>1. i \in 1 .. Len(R(k - 1))
      BY <1>5, <1>8, <1>a
    <3> QED  BY <3>1, <1>5, <1>8, Zenon
  <2> QED  BY <2>1, <2>2
<1> QED  BY <1>2, <1>9

\* Every event is in one of the files.
LEMMA FileOfFacts ==
    ASSUME NEW fs \in Dir, NEW k \in 1 .. Len(Content(fs))
    PROVE  /\ FileOf(fs, k) \in Name /\ FileOf(fs, k) - 1 \in 0 .. MaxTime
           /\ Len(ReadOrder(fs)[FileOf(fs, k) - 1]) < k
           /\ k <= Len(ReadOrder(fs)[FileOf(fs, k)])
<1> DEFINE S == {n \in 0 .. MaxTime : k <= Len(ReadOrder(fs)[n])}
<1>0. MaxTime \in Nat /\ k \in Nat
  BY StoreAssumption, ContentType, LenProperties
<1>1. MaxTime \in S
  BY <1>0, ContentType
<1>2. PICK n \in S : \A j \in S : n <= j
  <2>1. S \in SUBSET Nat
    BY <1>0
  <2> HIDE DEF S
  <2> QED  BY <2>1, <1>1, NatMin
<1>3. n # 0
  <2>1. Len(ReadOrder(fs)[0]) = 0
    <3>1. ReadOrder(fs)[0] = << >>
      BY ReadOrderDef, Zenon
    <3> QED  BY <3>1
  <2> QED  BY <2>1, <1>2, <1>0
<1>4. n \in Name /\ n - 1 \in 0 .. MaxTime /\ ~ (n <= n - 1)
  BY <1>0, <1>2, <1>3 DEF Name
<1>5. Len(ReadOrder(fs)[n - 1]) < k
  <2>1. n - 1 \notin S
    BY <1>2, <1>4
  <2>2. Len(ReadOrder(fs)[n - 1]) \in Nat
    BY <1>4, ReadOrderType, LenProperties
  <2> QED  BY <2>1, <2>2, <1>4, <1>0
<1>6. k <= Len(ReadOrder(fs)[n])
  BY <1>2
<1> HIDE DEF S
<1>7. /\ FileOf(fs, k) \in Name /\ Len(ReadOrder(fs)[FileOf(fs, k) - 1]) < k
      /\ k <= Len(ReadOrder(fs)[FileOf(fs, k)])
  BY <1>4, <1>5, <1>6, Zenon DEF FileOf
<1> QED  BY <1>7, <1>0 DEF Name

\* The files before the one in which event k is, and the part of this one up to
\* it, are the first k events.
LEMMA ReadPartFacts ==
    ASSUME NEW fs \in Dir, NEW k \in 1 .. Len(Content(fs))
    PROVE  /\ ReadPart(fs, k) \in Seq(Event) /\ ReadPart(fs, k) # << >>
           /\ ReadOrder(fs)[FileOf(fs, k) - 1] \o ReadPart(fs, k) = SubSeq(Content(fs), 1, k)
<1>1. PICK n, a, f, c : /\ n = FileOf(fs, k) /\ a = ReadOrder(fs)[n - 1] /\ f = fs[n]
                        /\ c = Content(fs)
  OBVIOUS
<1>2. /\ n \in Name /\ n - 1 \in 0 .. MaxTime /\ Len(a) < k /\ k <= Len(ReadOrder(fs)[n])
  BY <1>1, FileOfFacts
<1>3. a \in Seq(Event) /\ f \in Seq(Event) /\ c \in Seq(Event) /\ ReadOrder(fs)[n] = a \o f
  BY <1>1, <1>2, ReadOrderDef, ReadOrderType, ContentType, Zenon DEF Dir
<1>4. n \in 0 .. MaxTime /\ MaxTime \in n .. MaxTime
  BY <1>2, StoreAssumption DEF Name
<1>5. Len(a \o f) <= Len(c) /\ \A i \in 1 .. Len(a \o f) : c[i] = (a \o f)[i]
  <2>1. c = ReadOrder(fs)[MaxTime]
    BY <1>1, ContentType
  <2> QED  BY <1>3, <1>4, <2>1, ReadPrefix, Zenon
<1>6. /\ Len(a) \in Nat /\ Len(f) \in Nat /\ Len(a \o f) = Len(a) + Len(f) /\ a \o f \in Seq(Event)
      /\ k \in Nat /\ Len(c) \in Nat
  BY <1>1, <1>3
<1>7. PICK p : p = SubSeq(f, 1, k - Len(a))
  BY Zenon
<1>8. p \in Seq(Event) /\ Len(p) = k - Len(a) /\ \A i \in 1 .. k - Len(a) : p[i] = f[i]
  BY <1>2, <1>3, <1>6, <1>7
<1>9. ReadPart(fs, k) = p
  BY <1>1, <1>7 DEF ReadPart
<1>10. a \o p = SubSeq(c, 1, k)
  <2>1. /\ SubSeq(c, 1, k) \in Seq(Event) /\ Len(SubSeq(c, 1, k)) = k
        /\ \A i \in 1 .. k : SubSeq(c, 1, k)[i] = c[i]
    BY <1>1, <1>3, <1>6
  <2>2. /\ a \o p \in Seq(Event) /\ Len(a \o p) = k
    <3>1. a \o p \in Seq(Event) /\ Len(a \o p) = Len(a) + Len(p)
      BY <1>3, <1>8
    <3> QED  BY <3>1, <1>6, <1>8
  <2>3. ASSUME NEW i \in 1 .. k
        PROVE  (a \o p)[i] = c[i]
    <3>1. c[i] = (a \o f)[i]
      BY <1>5, <1>3, <1>6, <1>2
    <3>2. CASE i <= Len(a)
      BY <3>1, <3>2, <1>3, <1>8, <1>6
    <3>3. CASE i > Len(a)
      <4>1. i - Len(a) \in 1 .. k - Len(a)
        BY <3>3, <1>6
      <4>2. (a \o p)[i] = p[i - Len(a)]
        BY <4>1, <3>3, <1>3, <1>6, <1>8
      <4>3. (a \o f)[i] = f[i - Len(a)]
        BY <4>1, <3>3, <1>3, <1>6, <1>2
      <4> QED  BY <4>1, <4>2, <4>3, <3>1, <1>8, Zenon
    <3>4. i <= Len(a) \/ i > Len(a)
      BY <1>6
    <3> QED  BY <3>2, <3>3, <3>4, Zenon
  <2> QED  BY <2>1, <2>2, <2>3, SeqEqual, Zenon
<1> QED  BY <1>1, <1>2, <1>8, <1>9, <1>10, <1>6

\* A copy of that part, in the same place or later, replaces the file and all after it.
LEMMA CutContent ==
    ASSUME NEW fs \in Dir, NEW gs \in Dir, NEW k \in 1 .. Len(Content(fs)),
           NEW c \in Name, c >= FileOf(fs, k), gs[c] = ReadPart(fs, k),
           \A m \in Name : m < FileOf(fs, k) => gs[m] = fs[m],
           \A m \in Name : m >= FileOf(fs, k) /\ m # c => gs[m] = << >>
    PROVE  Content(gs) = SubSeq(Content(fs), 1, k)
<1>1. PICK n : n = FileOf(fs, k)
  BY Zenon
<1>2. n \in Name /\ n - 1 \in 0 .. MaxTime
  BY <1>1, FileOfFacts
<1>3. /\ c >= n /\ \A m \in Name : m < n => gs[m] = fs[m]
      /\ \A m \in Name : m >= n /\ m # c => gs[m] = << >>
  BY <1>1, Zenon
<1>4. /\ MaxTime \in Nat /\ n \in 1 .. MaxTime /\ c \in 1 .. MaxTime
      /\ c - 1 \in n - 1 .. MaxTime /\ c \in 0 .. MaxTime /\ MaxTime \in c .. MaxTime
  BY <1>2, <1>3, StoreAssumption DEF Name
<1>5. ReadOrder(gs)[n - 1] = ReadOrder(fs)[n - 1]
  <2>1. \A m \in 1 .. n - 1 : gs[m] = fs[m]
    BY <1>3, <1>4 DEF Name
  <2> QED  BY <2>1, <1>2, ReadSame, Zenon
<1>6. ReadOrder(gs)[c - 1] = ReadOrder(gs)[n - 1]
  <2>1. \A m \in Name : n - 1 < m /\ m <= c - 1 => gs[m] = << >>
    BY <1>3, <1>4 DEF Name
  <2> QED  BY <2>1, <1>2, <1>4, ReadEmpty, Zenon
<1>7. ReadOrder(gs)[c] = ReadOrder(gs)[c - 1] \o ReadPart(fs, k)
  <2>1. ReadOrder(gs)[c] = ReadOrder(gs)[c - 1] \o gs[c]
    BY ReadOrderDef, Zenon
  <2> QED  BY <2>1
<1>8. ReadOrder(gs)[MaxTime] = ReadOrder(gs)[c]
  <2>1. \A m \in Name : c < m /\ m <= MaxTime => gs[m] = << >>
    BY <1>3, <1>4 DEF Name
  <2> QED  BY <2>1, <1>4, ReadEmpty, Zenon
<1>9. Content(gs) = ReadOrder(gs)[MaxTime]
  BY ContentType
<1> QED  BY <1>1, <1>5, <1>6, <1>7, <1>8, <1>9, ReadPartFacts, Zenon

\* What is added to the last file is added to the end.
LEMMA AppendContent ==
    ASSUME NEW fs \in Dir, NEW t \in Name, \A m \in Name : m > t => fs[m] = << >>,
           NEW b \in Seq(Event), NEW gs \in Dir, gs[t] = fs[t] \o b,
           \A m \in Name : m # t => gs[m] = fs[m]
    PROVE  Content(gs) = Content(fs) \o b
<1>0. MaxTime \in Nat /\ t \in 1 .. MaxTime /\ t - 1 \in 0 .. MaxTime /\ t \in 0 .. MaxTime
      /\ MaxTime \in t .. MaxTime
  BY StoreAssumption DEF Name
<1>1. fs[t] \in Seq(Event)
  BY DEF Dir
<1>3. ReadOrder(gs)[t - 1] = ReadOrder(fs)[t - 1]
  <2>1. \A m \in 1 .. t - 1 : m \in Name /\ m # t
    BY <1>0 DEF Name
  <2>2. \A m \in 1 .. t - 1 : gs[m] = fs[m]
    BY <2>1
  <2> QED  BY <2>2, <1>0, ReadSame, Zenon
<1>4. /\ ReadOrder(gs)[t] = ReadOrder(gs)[t - 1] \o gs[t]
      /\ ReadOrder(fs)[t] = ReadOrder(fs)[t - 1] \o fs[t]
  BY ReadOrderDef, Zenon
<1>2. \A m \in Name : t < m => m > t /\ m # t
  BY <1>0 DEF Name
<1>5. ReadOrder(gs)[MaxTime] = ReadOrder(gs)[t]
  <2>1. \A m \in Name : t < m /\ m <= MaxTime => gs[m] = << >>
    BY <1>2, Zenon
  <2> QED  BY <2>1, <1>0, ReadEmpty, Zenon
<1>6. ReadOrder(fs)[MaxTime] = ReadOrder(fs)[t]
  <2>1. \A m \in Name : t < m /\ m <= MaxTime => fs[m] = << >>
    BY <1>2, Zenon
  <2> QED  BY <2>1, <1>0, ReadEmpty, Zenon
<1>7. ReadOrder(fs)[t - 1] \in Seq(Event)
  BY <1>0, ReadOrderType
<1>8. ReadOrder(fs)[t - 1] \o (fs[t] \o b) = (ReadOrder(fs)[t - 1] \o fs[t]) \o b
  <2>1. \A p, q, r \in Seq(Event) : p \o (q \o r) = (p \o q) \o r
    BY ConcatAssociative
  <2> QED  BY <1>1, <1>7, <2>1, Zenon
<1>9. Content(gs) = ReadOrder(gs)[MaxTime] /\ Content(fs) = ReadOrder(fs)[MaxTime]
  BY ContentType
<1> QED  BY <1>3, <1>4, <1>5, <1>6, <1>8, <1>9, Zenon

-----------------------------------------------------------------------------
(* Logs, and where they are cut.                                           *)

\* A prefix, event by event.
LEMMA PrefixFacts ==
    ASSUME NEW s \in Seq(Event), NEW t \in Seq(Event)
    PROVE  IsPrefixOf(s, t) <=> Len(s) <= Len(t) /\ \A i \in 1 .. Len(s) : t[i] = s[i]
<1>0. Len(s) \in Nat /\ Len(t) \in Nat
  OBVIOUS
<1>1. ASSUME Len(s) <= Len(t)
      PROVE  /\ SubSeq(t, 1, Len(s)) \in Seq(Event) /\ Len(SubSeq(t, 1, Len(s))) = Len(s)
             /\ \A i \in 1 .. Len(s) : SubSeq(t, 1, Len(s))[i] = t[i]
  BY <1>0, <1>1
<1>2. ASSUME IsPrefixOf(s, t)
      PROVE  Len(s) <= Len(t) /\ \A i \in 1 .. Len(s) : t[i] = s[i]
  BY <1>1, <1>2 DEF IsPrefixOf
<1>3. ASSUME Len(s) <= Len(t), \A i \in 1 .. Len(s) : t[i] = s[i]
      PROVE  IsPrefixOf(s, t)
  <2>1. SubSeq(t, 1, Len(s)) = s
    BY <1>1, <1>3, SeqEqual, Zenon
  <2> QED  BY <2>1, <1>3 DEF IsPrefixOf
<1> QED  BY <1>2, <1>3

\* A directory without the files after the n-th reads as a prefix.
LEMMA PrefixContent ==
    ASSUME NEW fs \in Dir, NEW gs \in Dir, NEW n \in 0 .. MaxTime,
           \A m \in Name : m <= n => gs[m] = fs[m],
           \A m \in Name : m > n => gs[m] = << >>
    PROVE  IsPrefixOf(Content(gs), Content(fs))
<1>0. MaxTime \in Nat /\ n \in Nat /\ MaxTime \in n .. MaxTime
  BY StoreAssumption
<1>1. ReadOrder(gs)[n] = ReadOrder(fs)[n]
  <2>1. \A m \in 1 .. n : gs[m] = fs[m]
    BY <1>0 DEF Name
  <2> QED  BY <2>1, ReadSame, Zenon
<1>2. ReadOrder(gs)[MaxTime] = ReadOrder(gs)[n]
  <2>1. \A m \in Name : n < m /\ m <= MaxTime => gs[m] = << >>
    BY <1>0, Zenon DEF Name
  <2> QED  BY <2>1, <1>0, ReadEmpty, Zenon
<1>3. /\ Content(gs) = ReadOrder(gs)[MaxTime] /\ Content(fs) = ReadOrder(fs)[MaxTime]
      /\ Content(gs) \in Seq(Event) /\ Content(fs) \in Seq(Event)
  BY ContentType
<1>4. /\ Len(ReadOrder(fs)[n]) <= Len(ReadOrder(fs)[MaxTime])
      /\ \A i \in 1 .. Len(ReadOrder(fs)[n]) : ReadOrder(fs)[MaxTime][i] = ReadOrder(fs)[n][i]
  BY <1>0, ReadPrefix, Zenon
<1>5. /\ Len(Content(gs)) <= Len(Content(fs))
      /\ \A i \in 1 .. Len(Content(gs)) : Content(fs)[i] = Content(gs)[i]
  BY <1>1, <1>2, <1>3, <1>4, Zenon
<1> QED  BY <1>3, <1>5, PrefixFacts, Zenon

\* Empty files have no content.
LEMMA EmptyContent ==
    ASSUME NEW fs \in Dir, \A m \in Name : fs[m] = << >>
    PROVE  Content(fs) = << >>
<1>1. MaxTime \in 0 .. MaxTime /\ 0 \in 0 .. MaxTime
  BY StoreAssumption
<1>2. ReadOrder(fs)[MaxTime] = ReadOrder(fs)[0]
  BY <1>1, ReadEmpty, Zenon
<1>3. ReadOrder(fs)[0] = << >>
  BY ReadOrderDef, Zenon
<1> QED  BY <1>2, <1>3, ContentType, Zenon

\* A log that ends with the first AdvanceTime to reach T.
Closed(c, T) == Len(c) \in Closing(c, T) /\ \A i \in Closing(c, T) : i = Len(c)

\* A reader that finds a closing event stops at the first one, and truncation
\* leaves a closed log.
LEMMA TruncatedClosed ==
    ASSUME NEW l \in Seq(Event), NEW T \in Nat, T # 0, Closing(l, T) # {}
    PROVE  /\ ReadLength(l, T) \in 1 .. Len(l)
           /\ Truncated(l, T) = SubSeq(l, 1, ReadLength(l, T))
           /\ Truncated(l, T) \in Seq(Event)
           /\ Closed(Truncated(l, T), T)
           /\ IsPrefixOf(Truncated(l, T), l)
<1>0. Len(l) \in Nat /\ DOMAIN l = 1 .. Len(l)
  OBVIOUS
<1>1. Closing(l, T) \in SUBSET Nat /\ Closing(l, T) \subseteq 1 .. Len(l)
  BY <1>0 DEF Closing
<1>2. \E m \in Closing(l, T) : \A x \in Closing(l, T) : m <= x
  BY <1>1, NatMin, Zenon
<1>3. ReadLength(l, T) \in Closing(l, T) /\ \A j \in Closing(l, T) : ReadLength(l, T) <= j
  BY <1>2, Zenon DEF ReadLength
<1>4. PICK k : k = ReadLength(l, T)
  OBVIOUS
<1>5. k \in 1 .. Len(l) /\ k \in Closing(l, T) /\ \A j \in Closing(l, T) : k <= j
  BY <1>1, <1>3, <1>4
<1>6. PICK c : c = SubSeq(l, 1, k)
  BY Zenon
<1>7. c = Truncated(l, T)
  BY <1>4, <1>6, Zenon DEF Truncated
<1>8. c \in Seq(Event) /\ Len(c) = k /\ DOMAIN c = 1 .. k /\ \A i \in 1 .. k : c[i] = l[i]
  BY <1>0, <1>5, <1>6
<1>9. Closed(c, T)
  <2>1. k \in Closing(c, T)
    BY <1>0, <1>5, <1>8 DEF Closing
  <2>2. ASSUME NEW i \in Closing(c, T)
        PROVE  i = k
    <3>1. i \in 1 .. k /\ i \in Closing(l, T)
      BY <1>0, <1>5, <1>8 DEF Closing
    <3>2. k <= i
      BY <1>5, <3>1, Zenon
    <3> QED  BY <3>1, <3>2, <1>5
  <2> QED  BY <2>1, <2>2, <1>8, Zenon DEF Closed
<1>10. IsPrefixOf(c, l)
  BY <1>0, <1>5, <1>8, PrefixFacts
<1> QED  BY <1>4, <1>5, <1>6, <1>7, <1>8, <1>9, <1>10, Zenon

\* A log that begins with a closed one is cut there.
LEMMA ClosedPrefix ==
    ASSUME NEW l \in Seq(Event), NEW c \in Seq(Event), NEW T \in Nat, T # 0,
           Closed(c, T), IsPrefixOf(c, l)
    PROVE  Truncated(l, T) = c /\ Closing(l, T) # {} /\ ReadLength(l, T) = Len(c)
<1>0. /\ Len(l) \in Nat /\ DOMAIN l = 1 .. Len(l) /\ Len(c) \in Nat /\ DOMAIN c = 1 .. Len(c)
      /\ Len(c) <= Len(l) /\ \A i \in 1 .. Len(c) : l[i] = c[i]
  BY PrefixFacts
<1>1. Len(c) \in 1 .. Len(c) /\ Len(c) \in Closing(l, T)
  BY <1>0 DEF Closed, Closing
<1>2. ASSUME NEW j \in Closing(l, T)
      PROVE  Len(c) <= j
  <2> SUFFICES ASSUME j < Len(c)
               PROVE  FALSE
    BY <1>0 DEF Closing
  <2>1. j \in 1 .. Len(c)
    BY <1>0 DEF Closing
  <2>2. j \in Closing(c, T)
    BY <1>0, <2>1 DEF Closing
  <2>3. j = Len(c)
    BY <2>2, Zenon DEF Closed
  <2> QED  BY <2>3, <1>0
<1>3. \E i \in Closing(l, T) : \A j \in Closing(l, T) : i <= j
  BY <1>1, <1>2
<1>4. ReadLength(l, T) \in Closing(l, T) /\ \A j \in Closing(l, T) : ReadLength(l, T) <= j
  BY <1>1, <1>3, Zenon DEF ReadLength
<1>5. ReadLength(l, T) = Len(c)
  <2>1. ReadLength(l, T) \in Nat
    BY <1>0, <1>4 DEF Closing
  <2> QED  BY <2>1, <1>0, <1>1, <1>2, <1>4
<1>6. SubSeq(l, 1, Len(c)) = c
  BY DEF IsPrefixOf
<1> QED  BY <1>1, <1>5, <1>6, Zenon DEF Truncated

\* Without a closing event a reader comes to the end.
LEMMA NotClosed ==
    ASSUME NEW l \in Seq(Event), NEW T, T # 0, Closing(l, T) = {}
    PROVE  Truncated(l, T) = l
<1>1. SubSeq(l, 1, Len(l)) = l
  BY SubSeqFull
<1> QED  BY <1>1 DEF Truncated, ReadLength

\* No time reaches Done.
LEMMA DoneNotClosed ==
    ASSUME NEW l \in Seq(Event)
    PROVE  Closing(l, Done) = {}
<1>1. ASSUME NEW i \in DOMAIN l
      PROVE  l[i].time < Done
  <2>1. l[i] \in Event
    OBVIOUS
  <2> QED  BY <2>1, StoreAssumption DEF Event, Done
<1>2. ASSUME NEW i \in DOMAIN l
      PROVE  l[i].time \in Nat
  <2>1. l[i] \in Event
    OBVIOUS
  <2> QED  BY <2>1, StoreAssumption DEF Event
<1>3. Done \in Nat
  BY StoreAssumption DEF Done
<1> QED  BY <1>1, <1>2, <1>3 DEF Closing

\* A prefix stays one when the log grows.
LEMMA PrefixGrows ==
    ASSUME NEW c \in Seq(Event), NEW l \in Seq(Event), NEW b \in Seq(Event), IsPrefixOf(c, l)
    PROVE  IsPrefixOf(c, l \o b)
<1>1. /\ Len(l) \in Nat /\ Len(c) \in Nat /\ Len(c) <= Len(l) /\ \A i \in 1 .. Len(c) : l[i] = c[i]
  BY PrefixFacts
<1>2. /\ l \o b \in Seq(Event) /\ Len(l \o b) >= Len(l) /\ Len(l \o b) \in Nat
      /\ \A i \in 1 .. Len(l) : (l \o b)[i] = l[i]
  OBVIOUS
<1>3. \A i \in 1 .. Len(c) : (l \o b)[i] = c[i]
  BY <1>1, <1>2
<1>4. Len(c) <= Len(l \o b)
  BY <1>1, <1>2
<1> QED  BY <1>2, <1>3, <1>4, PrefixFacts, Zenon

-----------------------------------------------------------------------------
(* The inductive invariant.                                                *)

StoreType ==
    /\ backend \in {"local", "s3"}
    /\ files \in Dir
    /\ threshold \in 0 .. Done
    /\ clock \in 1 .. Done
    /\ phase \in {"down", "opened", "truncate", "rewound", "run", "done"}
    /\ target \in {Nothing} \union Name
    /\ buffer \in Seq(Event)
    /\ doomed \in SUBSET Name
    /\ now \in 0 .. MaxTime
    /\ committed \in Seq(Event)

\* No file has a name that the clock has yet to reach, the writer fills the last
\* one, and it does so only after truncate().
NamesInv ==
    /\ \A n \in Name : n >= clock => files[n] = << >>
    /\ target # Nothing => target < clock /\ \A n \in Name : n > target => files[n] = << >>
    /\ phase \in {"down", "opened", "truncate"} => target = Nothing
    /\ phase \in {"run", "done"} => target # Nothing
    /\ phase # "run" => buffer = << >>
    /\ phase = "truncate" <=> doomed # {}

\* The files begin with what the last commit covers, which ends where a reader
\* would stop.  While truncate() is under way the files that stay are just that;
\* those of a directory come before the ones that are to be removed.
KeptInv ==
    /\ threshold = 0 => /\ committed = << >>
                        /\ phase = "truncate" => \A n \in Name : Staying[n] = << >>
    /\ threshold = Done => phase # "truncate" /\ IsPrefixOf(committed, Content(files))
    /\ threshold \in 1 .. MaxTime =>
         /\ Closed(committed, threshold)
         /\ phase # "truncate" => IsPrefixOf(committed, Content(files))
         /\ phase = "truncate" =>
              /\ Content(Staying) = committed
              /\ backend = "local" => \A m \in doomed, n \in Name \ doomed : files[n] # << >> => n < m

StoreInv == StoreType /\ NamesInv /\ KeptInv

\* The bounds are naturals.
LEMMA StoreNumbers ==
    ASSUME StoreType
    PROVE  /\ MaxTime \in Nat /\ Done \in Nat /\ Done = MaxTime + 1 /\ threshold \in Nat
           /\ clock \in Nat /\ now \in Nat /\ Name = 1 .. MaxTime /\ Nothing = -1 /\ Nothing \notin Name
BY StoreAssumption DEF StoreType, Done, Name, Nothing

\* Truncation gives a log.
LEMMA TruncatedType ==
    ASSUME NEW l \in Seq(Event), NEW T \in Nat
    PROVE  Truncated(l, T) \in Seq(Event)
<1>1. CASE T = 0
  <2>1. Truncated(l, T) = << >>
    BY <1>1 DEF Truncated
  <2>2. << >> \in Seq(Event)
    OBVIOUS
  <2> QED  BY <2>1, <2>2
<1>2. CASE T # 0 /\ Closing(l, T) # {}
  BY <1>2, TruncatedClosed
<1>3. CASE T # 0 /\ Closing(l, T) = {}
  BY <1>3, NotClosed
<1> QED  BY <1>1, <1>2, <1>3

\* The times that the files have reached.
LEMMA FlushedFacts ==
    ASSUME StoreType, NEW t \in FlushedTimes
    PROVE  /\ t \in 0 .. MaxTime
           /\ Closing(Content(files), t) # {}
<1>1. PICK i \in Closing(Content(files), 0) : t = Content(files)[i].time
  BY DEF FlushedTimes
<1>2. Content(files) \in Seq(Event)
  BY ContentType, Zenon DEF StoreType
<1>3. i \in DOMAIN Content(files) /\ Content(files)[i].kind = "adv"
  BY <1>1, Zenon DEF Closing
<1>4. Content(files)[i] \in Event
  BY <1>2, <1>3
<1>5. t \in 0 .. MaxTime
  BY <1>1, <1>4, Zenon DEF Event
<1>6. i \in Closing(Content(files), t)
  <2>1. t \in Nat /\ Content(files)[i].time >= t
    BY <1>1, <1>5, StoreNumbers
  <2> QED  BY <1>3, <2>1, Zenon DEF Closing
<1> QED  BY <1>5, <1>6, Zenon

\* Where a reader stops, and what it has read of the file by then.
LEMMA StopFacts ==
    ASSUME StoreType, threshold # 0, Closing(Content(files), threshold) # {},
           NEW k, k = ReadLength(Content(files), threshold)
    PROVE  /\ k \in 1 .. Len(Content(files))
           /\ FileOf(files, k) \in Name
           /\ ReadPart(files, k) \in Seq(Event) /\ ReadPart(files, k) # << >>
           /\ SubSeq(Content(files), 1, k) = Truncated(Content(files), threshold)
           /\ files[FileOf(files, k)] # << >>
<1>1. files \in Dir /\ threshold \in Nat /\ Content(files) \in Seq(Event)
  BY ContentType, StoreNumbers, Zenon DEF StoreType
<1>2. k \in 1 .. Len(Content(files)) /\ SubSeq(Content(files), 1, k) = Truncated(Content(files), threshold)
  BY <1>1, TruncatedClosed, Zenon
<1>3. FileOf(files, k) \in Name /\ ReadPart(files, k) \in Seq(Event) /\ ReadPart(files, k) # << >>
  BY <1>1, <1>2, FileOfFacts, ReadPartFacts, Zenon
<1>4. files[FileOf(files, k)] # << >>
  <2>1. ASSUME files[FileOf(files, k)] = << >>
        PROVE  FALSE
    <3>1. ReadOrder(files)[FileOf(files, k)] = ReadOrder(files)[FileOf(files, k) - 1] \o << >>
      BY <1>3, <2>1, ReadOrderDef, Zenon
    <3>2. ReadOrder(files)[FileOf(files, k) - 1] \in Seq(Event)
      BY <1>1, <1>2, FileOfFacts, ReadOrderType, Zenon
    <3>3. ReadOrder(files)[FileOf(files, k)] = ReadOrder(files)[FileOf(files, k) - 1]
      BY <3>1, <3>2, ConcatEmptySeq, Zenon
    <3>4. Len(ReadOrder(files)[FileOf(files, k) - 1]) \in Nat
      BY <3>2
    <3>5. /\ Len(ReadOrder(files)[FileOf(files, k) - 1]) < k
          /\ k <= Len(ReadOrder(files)[FileOf(files, k)])
      BY <1>1, <1>2, FileOfFacts, Zenon
    <3>6. k \in Nat
      BY <1>1, <1>2
    <3> QED  BY <3>3, <3>4, <3>5, <3>6
  <2> QED  BY <2>1
<1> QED  BY <1>2, <1>3, <1>4, Zenon

\* The next file to be removed.
LEMMA RemovedFacts ==
    ASSUME StoreType, doomed # {}
    PROVE  Min(doomed) \in doomed /\ Min(doomed) \in Name /\ \A m \in doomed : Min(doomed) <= m
<1>1. doomed \in SUBSET Nat
  BY StoreNumbers DEF StoreType
<1>2. \E m \in doomed : \A x \in doomed : m <= x
  BY <1>1, NatMin
<1>3. Min(doomed) \in doomed /\ \A m \in doomed : Min(doomed) <= m
  BY <1>2, Zenon DEF Min
<1> QED  BY <1>3, Zenon DEF StoreType

-----------------------------------------------------------------------------
(* Every step keeps the invariant.                                         *)

\* The variables keep their types.
LEMMA StoreTypeNext ==
    ASSUME StoreType, NamesInv, [Next]_vars
    PROVE  StoreType'
<1> USE DEF StoreType
<1>0. /\ MaxTime \in Nat /\ Done \in Nat /\ Done = MaxTime + 1 /\ threshold \in Nat
      /\ clock \in Nat /\ now \in Nat /\ Name = 1 .. MaxTime /\ Nothing = -1 /\ Nothing \notin Name
  BY StoreNumbers
<1>a. << >> \in Seq(Event)
  OBVIOUS
<1>1. CASE Open \/ RewindToEnd
  BY <1>1, Zenon DEF Open, RewindToEnd
<1>2. CASE StartUploader
  BY <1>0, <1>2 DEF StartUploader, Tick
<1>3. CASE DiscardAll
  <2>1. NamesFrom(files, 1) \in SUBSET Name
    BY <1>0, Zenon DEF NamesFrom
  <2> QED  BY <1>3, <2>1 DEF DiscardAll
<1>4. CASE TruncateLocal
  <2>1. PICK k : k = ReadLength(Content(files), threshold)
    BY Zenon
  <2>2. /\ threshold # 0 /\ Closing(Content(files), threshold) # {}
        /\ files' = [files EXCEPT ![FileOf(files, k)] = ReadPart(files, k)]
        /\ doomed' = NamesFrom(files, FileOf(files, k) + 1) /\ phase' \in {"rewound", "truncate"}
        /\ UNCHANGED <<backend, threshold, clock, target, buffer, now, runs, committed>>
    BY <1>4, <2>1, Zenon DEF TruncateLocal
  <2>3. FileOf(files, k) \in Name /\ ReadPart(files, k) \in Seq(Event)
    BY <2>1, <2>2, StopFacts, Zenon
  <2>4. files' \in Dir
    BY <2>2, <2>3, Zenon DEF Dir
  <2>5. doomed' \in SUBSET Name
    BY <2>2, <2>3, <1>0 DEF NamesFrom
  <2> QED  BY <2>2, <2>4, <2>5
<1>5. CASE TruncateS3
  <2>1. PICK k : k = ReadLength(Content(files), threshold)
    OBVIOUS
  <2>2. /\ threshold # 0 /\ Closing(Content(files), threshold) # {}
        /\ files' = [files EXCEPT ![clock] = ReadPart(files, k)]
        /\ doomed' = NamesFrom(files, FileOf(files, k)) /\ phase' = "truncate"
        /\ clock < MaxTime /\ clock' = clock + 1
        /\ UNCHANGED <<backend, threshold, target, buffer, now, runs, committed>>
    BY <1>5, <2>1, Zenon DEF TruncateS3, Tick
  <2>3. FileOf(files, k) \in Name /\ ReadPart(files, k) \in Seq(Event)
    BY <2>1, <2>2, StopFacts
  <2>4. files' \in Dir
    BY <2>2, <2>3, Zenon DEF Dir
  <2>5. doomed' \in SUBSET Name
    BY <2>2, <2>3, <1>0 DEF NamesFrom
  <2>6. clock' \in 1 .. Done
    BY <2>2, <1>0
  <2> QED  BY <2>2, <2>4, <2>5, <2>6, Zenon
<1>6. CASE RemoveFile
  <2>1. files' = [files EXCEPT ![Min(doomed)] = << >>] /\ doomed' \subseteq doomed
        /\ phase' \in {"rewound", "truncate"}
        /\ UNCHANGED <<backend, threshold, clock, target, buffer, now, runs, committed>>
    BY <1>6 DEF RemoveFile
  <2>2. files' \in Dir
    BY <2>1, <1>a, Zenon DEF Dir
  <2> QED  BY <2>1, <2>2, Zenon
<1>7. CASE WriteAdvance
  <2>1. /\ clock < MaxTime /\ phase' = "run" /\ now' = NextTime
        /\ buffer' = Append(buffer, [kind |-> "adv", time |-> NextTime])
        /\ (target' = clock /\ clock' = clock + 1) \/ (clock' = NextTime /\ target' = target)
        /\ UNCHANGED <<backend, files, threshold, doomed, runs, committed>>
    BY <1>7, Zenon DEF WriteAdvance, Tick
  <2>2. NextTime \in 1 .. MaxTime
    BY <1>0, <2>1 DEF NextTime
  <2>3. PICK e : e = [kind |-> "adv", time |-> NextTime]
    BY Zenon
  <2>4. e \in Event
    BY <2>2, <2>3 DEF Event
  <2>5. buffer' \in Seq(Event)
    BY <2>1, <2>3, <2>4
  <2> QED  BY <1>0, <2>1, <2>2, <2>5
<1>8. CASE WriteRow
  <2>1. PICK e : e = [kind |-> "row", time |-> now]
    BY Zenon
  <2>2. e \in Event
    BY <2>1, Zenon DEF Event
  <2>3. buffer' = Append(buffer, e)
    BY <1>8, <2>1 DEF WriteRow
  <2>4. buffer' \in Seq(Event)
    BY <2>2, <2>3
  <2> QED  BY <1>8, <2>4 DEF WriteRow
<1>9. CASE Spill
  <2>1. /\ buffer # << >> /\ buffer' = Tail(buffer)
        /\ files' = [files EXCEPT ![target] = Append(files[target], Head(buffer))]
        /\ UNCHANGED <<backend, threshold, clock, phase, target, doomed, now, runs, committed>>
    BY <1>9, Zenon DEF Spill
  <2>2. target \in Name
    BY <2>1, Zenon DEF NamesInv
  <2>3. files[target] \in Seq(Event) /\ Head(buffer) \in Event /\ Tail(buffer) \in Seq(Event)
    BY <2>1, <2>2 DEF Dir
  <2>4. Append(files[target], Head(buffer)) \in Seq(Event)
    BY <2>3
  <2>5. files' \in Dir
    BY <2>1, <2>4, Zenon DEF Dir
  <2> QED  BY <2>1, <2>3, <2>5, Zenon
<1>10. CASE FlushWriter
  <2>1. /\ target # Nothing /\ buffer' = << >>
        /\ files' = [files EXCEPT ![target] = files[target] \o buffer]
        /\ (target' = clock /\ clock' = clock + 1 /\ clock < MaxTime) \/ (target' = target /\ clock' = clock)
        /\ UNCHANGED <<backend, threshold, phase, doomed, now, runs, committed>>
    BY <1>10, Zenon DEF FlushWriter, Tick
  <2>2. files[target] \in Seq(Event)
    BY <2>1, Zenon DEF Dir
  <2>3. files[target] \o buffer \in Seq(Event)
    BY <2>2, ConcatProperties, Zenon
  <2>4. files' \in Dir
    BY <2>1, <2>3, Zenon DEF Dir
  <2>5. clock' \in 1 .. Done /\ target' \in {Nothing} \union Name
    BY <1>0, <2>1
  <2> QED  BY <2>1, <2>4, <2>5, <1>a, Zenon
<1>11. CASE StoreThreshold
  <2>1. PICK t \in FlushedTimes \union {Done} :
          /\ threshold' = t /\ phase' \in {"done", "run"} /\ committed' = Truncated(Content(files), t)
          /\ UNCHANGED <<backend, files, clock, target, buffer, doomed, now, runs>>
    BY <1>11, Zenon DEF StoreThreshold
  <2>2. t \in 0 .. Done /\ t \in Nat
    BY <1>0, FlushedFacts
  <2>3. Content(files) \in Seq(Event)
    BY ContentType
  <2>4. committed' \in Seq(Event)
    BY <2>1, <2>2, <2>3, TruncatedType, Zenon
  <2> QED  BY <2>1, <2>2, <2>4, Zenon
<1>12. CASE Restart
  BY <1>12, <1>a, Zenon DEF Restart
<1>13. CASE UNCHANGED vars
  BY <1>13 DEF vars
<1> QED
  BY <1>1, <1>2, <1>3, <1>4, <1>5, <1>6, <1>7, <1>8, <1>9, <1>10, <1>11, <1>12, <1>13, Zenon DEF Next

\* What truncate() does to the files, and which it leaves to the loop.
LEMMA TruncateEffect ==
    ASSUME StoreType, NamesInv, TruncateLocal \/ TruncateS3
    PROVE  \E k, n, c :
             /\ threshold # 0 /\ Closing(Content(files), threshold) # {}
             /\ k \in 1 .. Len(Content(files)) /\ n = FileOf(files, k) /\ n \in Name /\ n < clock
             /\ SubSeq(Content(files), 1, k) = Truncated(Content(files), threshold)
             /\ files[n] # << >> /\ ReadPart(files, k) \in Seq(Event)
             /\ files' = [files EXCEPT ![c] = ReadPart(files, k)]
             /\ \/ backend = "local" /\ c = n /\ clock' = clock /\ doomed' = NamesFrom(files, n + 1)
                \/ backend = "s3" /\ c = clock /\ clock \in Name /\ clock' = clock + 1 /\ doomed' = NamesFrom(files, n)
             /\ phase = "opened" /\ phase' = IF doomed' = {} THEN "rewound" ELSE "truncate"
             /\ UNCHANGED <<backend, threshold, target, buffer, committed>>
<1>0. /\ MaxTime \in Nat /\ clock \in Nat /\ Name = 1 .. MaxTime /\ clock >= 1
  BY StoreNumbers DEF StoreType
<1>1. PICK k : k = ReadLength(Content(files), threshold)
  BY Zenon
<1>2. threshold # 0 /\ Closing(Content(files), threshold) # {} /\ phase = "opened"
  BY DEF TruncateLocal, TruncateS3
<1>3. PICK n : n = FileOf(files, k)
  OBVIOUS
<1>4. /\ k \in 1 .. Len(Content(files)) /\ n \in Name /\ ReadPart(files, k) \in Seq(Event)
      /\ SubSeq(Content(files), 1, k) = Truncated(Content(files), threshold) /\ files[n] # << >>
  BY <1>1, <1>2, <1>3, StopFacts, Zenon
<1>5. n < clock
  BY <1>0, <1>4 DEF NamesInv
<1>6. CASE TruncateLocal
  <2>1. /\ backend = "local" /\ clock' = clock /\ doomed' = NamesFrom(files, n + 1)
        /\ files' = [files EXCEPT ![n] = ReadPart(files, k)]
        /\ phase' = IF doomed' = {} THEN "rewound" ELSE "truncate"
        /\ UNCHANGED <<backend, threshold, target, buffer, committed>>
    BY <1>1, <1>3, <1>6 DEF TruncateLocal
  <2> QED  BY <1>2, <1>3, <1>4, <1>5, <2>1, Zenon
<1>7. CASE TruncateS3
  <2>1. /\ backend = "s3" /\ clock' = clock + 1 /\ clock < MaxTime /\ doomed' = NamesFrom(files, n)
        /\ files' = [files EXCEPT ![clock] = ReadPart(files, k)]
        /\ phase' = "truncate"
        /\ UNCHANGED <<backend, threshold, target, buffer, committed>>
    BY <1>1, <1>3, <1>7, Zenon DEF TruncateS3, Tick
  <2>2. clock \in Name
    BY <1>0, <2>1
  <2>3. n \in doomed'
    BY <1>0, <1>4, <2>1 DEF NamesFrom
  <2> QED  BY <1>2, <1>3, <1>4, <1>5, <2>1, <2>2, <2>3, Zenon
<1> QED  BY <1>6, <1>7, Zenon

\* What the writer adds to its file.
LEMMA WriterEffect ==
    ASSUME StoreType, NamesInv, Spill \/ FlushWriter
    PROVE  \E b \in Seq(Event) :
             /\ phase = "run" /\ target \in Name /\ b # << >>
             /\ files' = [files EXCEPT ![target] = files[target] \o b]
             /\ buffer = b \o buffer' /\ buffer' \in Seq(Event)
             /\ \/ UNCHANGED <<clock, target>>
                \/ target' = clock /\ clock' = clock + 1
             /\ UNCHANGED <<backend, threshold, phase, doomed, committed>>
<1>0. buffer \in Seq(Event)
  BY DEF StoreType
<1>1. CASE Spill
  <2>1. /\ buffer # << >> /\ buffer' = Tail(buffer)
        /\ files' = [files EXCEPT ![target] = Append(files[target], Head(buffer))]
        /\ UNCHANGED <<backend, threshold, clock, phase, target, doomed, committed>>
    BY <1>1, Zenon DEF Spill
  <2>2. target \in Name /\ phase = "run"
    BY <2>1 DEF NamesInv, StoreType
  <2>3. PICK h : h = Head(buffer)
    OBVIOUS
  <2>4. h \in Event /\ files[target] \in Seq(Event) /\ Tail(buffer) \in Seq(Event)
    BY <2>1, <2>2, <2>3, <1>0 DEF StoreType, Dir
  <2>5. Append(files[target], h) = files[target] \o <<h>> /\ <<h>> \in Seq(Event) /\ <<h>> # << >>
    BY <2>4, AppendIsConcat
  <2>6. buffer = <<h>> \o Tail(buffer)
    BY <1>0, <2>1, <2>3
  <2> QED  BY <2>1, <2>2, <2>3, <2>4, <2>5, <2>6, Zenon
<1>2. CASE FlushWriter
  <2>1. /\ phase = "run" /\ target # Nothing /\ buffer' = << >> /\ buffer # << >>
        /\ files' = [files EXCEPT ![target] = files[target] \o buffer]
        /\ \/ UNCHANGED <<clock, target>>
           \/ target' = clock /\ clock' = clock + 1
        /\ UNCHANGED <<backend, threshold, phase, doomed, committed>>
    BY <1>2, Zenon DEF FlushWriter, Tick
  <2>2. target \in Name
    BY <2>1 DEF StoreType
  <2>3. buffer = buffer \o << >> /\ << >> \in Seq(Event)
    BY <1>0, ConcatEmptySeq
  <2> QED  BY <1>0, <2>1, <2>2, <2>3, Zenon
<1> QED  BY <1>1, <1>2, Zenon

\* The clock stays ahead of the names, and the writer on the last file.
LEMMA NamesNext ==
    ASSUME Hazards = {}, StoreType, NamesInv, [Next]_vars
    PROVE  NamesInv'
<1>0. /\ MaxTime \in Nat /\ Done \in Nat /\ Done = MaxTime + 1 /\ clock \in Nat /\ now \in Nat
      /\ Name = 1 .. MaxTime /\ Nothing = -1 /\ Nothing \notin Name /\ clock >= 1
      /\ target \in {Nothing} \union Name /\ files \in Dir
      /\ phase \in {"down", "opened", "truncate", "rewound", "run", "done"}
  BY StoreNumbers DEF StoreType
<1>1. CASE Open \/ RewindToEnd
  BY <1>1, Zenon DEF Open, RewindToEnd, NamesInv
<1>2. CASE StartUploader
  <2>1. /\ phase = "rewound" /\ target' = clock /\ clock' = clock + 1
        /\ UNCHANGED <<files, phase, buffer, doomed>>
    BY <1>2, Zenon DEF StartUploader, Tick
  <2>2. \A n \in Name : n >= clock' => files'[n] = << >>
    BY <1>0, <2>1 DEF NamesInv
  <2>3. \A n \in Name : n > target' => files'[n] = << >>
    BY <1>0, <2>1 DEF NamesInv
  <2> QED  BY <1>0, <2>1, <2>2, <2>3 DEF NamesInv
<1>3. CASE DiscardAll
  <2>1. /\ phase = "opened" /\ phase' = IF doomed' = {} THEN "rewound" ELSE "truncate"
        /\ UNCHANGED <<files, clock, target, buffer>>
    BY <1>3, Zenon DEF DiscardAll
  <2> QED  BY <2>1, Zenon DEF NamesInv
<1>4. CASE TruncateLocal \/ TruncateS3
  <2>1. PICK k, n, c :
          /\ n \in Name /\ n < clock
          /\ files' = [files EXCEPT ![c] = ReadPart(files, k)]
          /\ (c = n /\ clock' = clock) \/ (c = clock /\ clock' = clock + 1)
          /\ phase = "opened" /\ phase' = IF doomed' = {} THEN "rewound" ELSE "truncate"
          /\ UNCHANGED <<target, buffer>>
    BY <1>4, TruncateEffect, Zenon
  <2>2. \A m \in Name : m >= clock' => m # c /\ m >= clock
    BY <1>0, <2>1
  <2>3. \A m \in Name : m # c => files'[m] = files[m]
    BY <1>0, <2>1, Zenon DEF Dir
  <2>4. \A m \in Name : m >= clock' => files'[m] = << >>
    BY <2>2, <2>3, Zenon DEF NamesInv
  <2>5. target' = Nothing
    BY <2>1, Zenon DEF NamesInv
  <2> QED  BY <2>1, <2>4, <2>5 DEF NamesInv
<1>5. CASE RemoveFile
  <2>1. /\ phase = "truncate" /\ files' = [files EXCEPT ![Min(doomed)] = << >>]
        /\ phase' = IF doomed' = {} THEN "rewound" ELSE "truncate"
        /\ UNCHANGED <<clock, target, buffer>>
    BY <1>5 DEF RemoveFile
  <2>2. \A m \in Name : files[m] = << >> => files'[m] = << >>
    BY <1>0, <2>1, Zenon DEF Dir
  <2> QED  BY <2>1, <2>2, Zenon DEF NamesInv
<1>6. CASE WriteAdvance
  <2>1. /\ phase \in {"rewound", "run"} /\ phase' = "run"
        /\ \/ target = Nothing /\ target' = clock /\ clock' = clock + 1
           \/ target # Nothing /\ clock' = NextTime /\ target' = target
        /\ UNCHANGED <<files, doomed>>
    BY <1>0, <1>6, Zenon DEF WriteAdvance, Tick, StoreType
  <2>2. clock' >= clock /\ clock' \in Nat
    BY <1>0, <2>1 DEF NextTime
  <2>3. \A n \in Name : n >= clock' => files'[n] = << >>
    BY <1>0, <2>1, <2>2 DEF NamesInv
  <2>4. target' \in Nat /\ target' < clock'
    BY <1>0, <2>1, <2>2 DEF NamesInv
  <2>5. \A n \in Name : n > target' => files'[n] = << >>
    BY <1>0, <2>1 DEF NamesInv
  <2> QED  BY <1>0, <2>1, <2>3, <2>4, <2>5 DEF NamesInv
<1>7. CASE WriteRow
  BY <1>7, Zenon DEF WriteRow, NamesInv
<1>8. CASE Spill \/ FlushWriter
  <2>1. PICK b \in Seq(Event) :
          /\ phase = "run" /\ target \in Name
          /\ files' = [files EXCEPT ![target] = files[target] \o b]
          /\ \/ UNCHANGED <<clock, target>>
             \/ target' = clock /\ clock' = clock + 1
          /\ UNCHANGED <<phase, doomed>>
    BY <1>8, WriterEffect, Zenon
  <2>2. target < clock /\ \A m \in Name : m > target => files[m] = << >>
    BY <1>0, <2>1, Zenon DEF NamesInv
  <2>3. \A m \in Name : m # target => files'[m] = files[m]
    BY <1>0, <2>1, Zenon DEF Dir
  <2>4. \A m \in Name : m > target => files'[m] = << >>
    BY <1>0, <2>1, <2>2, <2>3
  <2>5. target' >= target /\ target' < clock' /\ target' \in Nat /\ clock' > target /\ clock' \in Nat
    BY <1>0, <2>1, <2>2
  <2>6. \A m \in Name : m > target' \/ m >= clock' => files'[m] = << >>
    BY <1>0, <2>4, <2>5, <2>1
  <2> QED  BY <1>0, <2>1, <2>5, <2>6 DEF NamesInv
<1>9. CASE StoreThreshold
  <2>1. /\ phase = "run" /\ phase' \in {"done", "run"} /\ (phase' = "done" => buffer = << >>)
        /\ UNCHANGED <<files, clock, target, buffer, doomed>>
    BY <1>9, Zenon DEF StoreThreshold
  <2> QED  BY <2>1 DEF NamesInv
<1>10. CASE Restart
  BY <1>10, Zenon DEF Restart, NamesInv
<1>11. CASE UNCHANGED vars
  BY <1>11 DEF vars, NamesInv
<1> QED
  BY <1>1, <1>2, <1>3, <1>4, <1>5, <1>6, <1>7, <1>8, <1>9, <1>10, <1>11, Zenon DEF Next

\* A log is a prefix of itself.
LEMMA PrefixSelf ==
    ASSUME NEW l \in Seq(Event)
    PROVE  IsPrefixOf(l, l)
BY PrefixFacts

\* What stays of a directory.
Stay(fs, ds) == [n \in Name |-> IF n \in ds THEN << >> ELSE fs[n]]

\* The files that stay, after the loop of truncate() has removed one or has yet to.
LEMMA StayFacts ==
    ASSUME NEW fs \in Dir, NEW ds
    PROVE  /\ Stay(fs, ds) \in Dir
           /\ ds = {} => Stay(fs, ds) = fs
           /\ \A n \in Name : Stay(fs, ds)[n] = IF n \in ds THEN << >> ELSE fs[n]
<1>1. << >> \in Seq(Event)
  OBVIOUS
<1> QED  BY <1>1 DEF Stay, Dir

\* Where the files that stay come first they read as a prefix.
LEMMA StayPrefix ==
    ASSUME NEW fs \in Dir, NEW ds \in SUBSET Name, ds # {},
           \A m \in ds, n \in Name \ ds : fs[n] # << >> => n < m
    PROVE  IsPrefixOf(Content(Stay(fs, ds)), Content(fs))
<1>0. MaxTime \in Nat /\ Name = 1 .. MaxTime
  BY StoreAssumption, Zenon DEF Name
<1>1. PICK m \in ds : \A x \in ds : m <= x
  <2>1. ds \in SUBSET Nat
    BY <1>0
  <2> QED  BY <2>1, NatMin, Zenon
<1>2. PICK gs : gs = Stay(fs, ds)
  BY Zenon
<1>3. gs \in Dir /\ \A n \in Name : gs[n] = IF n \in ds THEN << >> ELSE fs[n]
  BY <1>2, StayFacts, Zenon
<1>4. m - 1 \in 0 .. MaxTime /\ m \in Nat
  BY <1>0, <1>1
<1>5. ASSUME NEW n \in Name, n <= m - 1
      PROVE  gs[n] = fs[n]
  <2>1. ~ (m <= n)
    BY <1>0, <1>4, <1>5
  <2>2. n \notin ds
    BY <2>1, <1>1, Zenon
  <2> QED  BY <2>2, <1>3, Zenon
<1>6. ASSUME NEW n \in Name, n > m - 1
      PROVE  gs[n] = << >>
  <2>1. ~ (n < m)
    BY <1>0, <1>4, <1>6
  <2>2. n \notin ds => fs[n] = << >>
    BY <2>1, <1>1, Zenon
  <2> QED  BY <2>2, <1>3, Zenon
<1> QED  BY <1>2, <1>3, <1>4, <1>5, <1>6, PrefixContent, Zenon

\* Where truncate() stops is where the last commit ends, and with the part it has
\* read the files that stay hold just what that covers.
LEMMA TruncateKeeps ==
    ASSUME StoreType, NamesInv, KeptInv, StoreType', TruncateLocal \/ TruncateS3
    PROVE  /\ threshold \in 1 .. MaxTime /\ Closed(committed, threshold)
           /\ committed = Truncated(Content(files), threshold)
           /\ Content(Staying') = committed
           /\ doomed' = {} => Staying' = files'
           /\ backend' = "local" =>
                \A m \in doomed', j \in Name \ doomed' : files'[j] # << >> => j < m
           /\ phase' = IF doomed' = {} THEN "rewound" ELSE "truncate"
           /\ phase = "opened" /\ UNCHANGED <<threshold, committed, buffer>>
<1>0. /\ MaxTime \in Nat /\ Done = MaxTime + 1 /\ threshold \in 0 .. Done /\ threshold \in Nat
      /\ Name = 1 .. MaxTime /\ files \in Dir /\ files' \in Dir /\ committed \in Seq(Event)
      /\ Content(files) \in Seq(Event) /\ doomed \in SUBSET Name
  BY StoreNumbers, ContentType, Zenon DEF StoreType
<1>a. Staying = Stay(files, doomed) /\ Staying' = Stay(files', doomed')
  BY DEF Staying, Stay
<1>1. PICK k, n, c :
           /\ threshold # 0 /\ Closing(Content(files), threshold) # {}
           /\ k \in 1 .. Len(Content(files)) /\ n = FileOf(files, k) /\ n \in Name /\ n < clock
           /\ SubSeq(Content(files), 1, k) = Truncated(Content(files), threshold)
           /\ files[n] # << >> /\ ReadPart(files, k) \in Seq(Event)
           /\ files' = [files EXCEPT ![c] = ReadPart(files, k)]
           /\ \/ backend = "local" /\ c = n /\ clock' = clock /\ doomed' = NamesFrom(files, n + 1)
              \/ backend = "s3" /\ c = clock /\ clock \in Name /\ clock' = clock + 1 /\ doomed' = NamesFrom(files, n)
           /\ phase = "opened" /\ phase' = IF doomed' = {} THEN "rewound" ELSE "truncate"
           /\ UNCHANGED <<backend, threshold, target, buffer, committed>>
  BY TruncateEffect, Zenon
<1>2. threshold \in 1 .. MaxTime
  <2>1. threshold # Done
    BY <1>0, <1>1, DoneNotClosed, Zenon
  <2>2. threshold # 0
    BY <1>1, Zenon
  <2> QED  BY <1>0, <2>1, <2>2
<1>3. Closed(committed, threshold) /\ committed = SubSeq(Content(files), 1, k)
  BY <1>0, <1>1, <1>2, ClosedPrefix, Zenon DEF KeptInv
<1>4. c \in Name /\ c >= n /\ (c # n => files[c] = << >>)
  BY <1>0, <1>1 DEF NamesInv, StoreType
<1>5. \A m \in Name : files'[m] = IF m = c THEN ReadPart(files, k) ELSE files[m]
  BY <1>0, <1>1, Zenon DEF Dir
<1>6. \A m \in doomed' : m \in Name /\ m >= n /\ m # c
  BY <1>0, <1>1, <1>4 DEF NamesFrom
<1>7. \A m \in Name : m >= n /\ m # c /\ files[m] # << >> => m \in doomed'
  <2>1. CASE c = n /\ doomed' = NamesFrom(files, n + 1)
    BY <1>0, <1>1, <2>1 DEF NamesFrom
  <2>2. CASE doomed' = NamesFrom(files, n)
    BY <1>0, <1>1, <2>2 DEF NamesFrom
  <2> QED  BY <1>1, <2>1, <2>2, Zenon
<1>8. PICK gs : gs = Staying'
  BY Zenon
<1>9. gs \in Dir /\ \A m \in Name : gs[m] = IF m \in doomed' THEN << >> ELSE files'[m]
  BY <1>0, <1>a, <1>8, StayFacts, Zenon
<1>10. Content(gs) = SubSeq(Content(files), 1, k)
  <2>1. gs[c] = ReadPart(files, k)
    BY <1>4, <1>5, <1>6, <1>9, Zenon
  <2>2. \A m \in Name : m < n => gs[m] = files[m]
    <3>1. \A m \in Name : m < n => ~ (m >= n) /\ m # c
      BY <1>0, <1>1, <1>4
    <3> QED  BY <3>1, <1>5, <1>6, <1>9, Zenon
  <2>3. \A m \in Name : m >= n /\ m # c => gs[m] = << >>
    BY <1>5, <1>7, <1>9, Zenon
  <2>4. c >= FileOf(files, k)
    BY <1>1, <1>4, Zenon
  <2>5. \A m \in Name : m < FileOf(files, k) => gs[m] = files[m]
    BY <1>1, <2>2, Zenon
  <2>6. \A m \in Name : m >= FileOf(files, k) /\ m # c => gs[m] = << >>
    BY <1>1, <2>3, Zenon
  <2>7. k \in 1 .. Len(Content(files))
    BY <1>1, Zenon
  <2>8. files \in Dir /\ gs \in Dir /\ c \in Name
    BY <1>0, <1>4, <1>9, Zenon
  <2> QED  BY <2>1, <2>4, <2>5, <2>6, <2>7, <2>8, CutContent
<1>11. Content(Staying') = committed
  BY <1>3, <1>8, <1>10, Zenon
<1>12. ASSUME backend' = "local", NEW m \in doomed', NEW j \in Name \ doomed', files'[j] # << >>
       PROVE  j < m
  <2>1. c = n /\ doomed' = NamesFrom(files, n + 1)
    BY <1>1, <1>12, Zenon
  <2>2. m >= n + 1 /\ m \in Nat
    BY <1>0, <2>1, <1>1 DEF NamesFrom
  <2>3. j <= n
    BY <1>0, <1>1, <1>5, <1>7, <1>12, <2>1
  <2> QED  BY <1>0, <1>1, <2>2, <2>3
<1>13. doomed' = {} => Staying' = files'
  BY <1>0, <1>a, StayFacts, Zenon
<1> QED  BY <1>1, <1>2, <1>3, <1>11, <1>12, <1>13, Zenon

\* The loop of truncate() takes away nothing that stays.
LEMMA RemoveKeeps ==
    ASSUME StoreType, NamesInv, StoreType', RemoveFile
    PROVE  /\ Staying' = Staying
           /\ doomed' = {} => Staying' = files'
           /\ doomed' \subseteq doomed
           /\ \A j \in Name : files'[j] # << >> /\ j \notin doomed' => files[j] # << >> /\ j \notin doomed
           /\ phase = "truncate" /\ phase' = IF doomed' = {} THEN "rewound" ELSE "truncate"
           /\ UNCHANGED <<backend, threshold, committed, buffer>>
<1>0. /\ MaxTime \in Nat /\ Done = MaxTime + 1 /\ threshold \in 0 .. Done /\ threshold \in Nat
      /\ Name = 1 .. MaxTime /\ files \in Dir /\ files' \in Dir /\ committed \in Seq(Event)
      /\ Content(files) \in Seq(Event) /\ doomed \in SUBSET Name
  BY StoreNumbers, ContentType, Zenon DEF StoreType
<1>a. Staying = Stay(files, doomed) /\ Staying' = Stay(files', doomed')
  BY Zenon DEF Staying, Stay
<1>1. /\ phase = "truncate" /\ files' = [files EXCEPT ![Min(doomed)] = << >>]
      /\ doomed' = doomed \ {Min(doomed)}
      /\ phase' = IF doomed' = {} THEN "rewound" ELSE "truncate"
      /\ UNCHANGED <<backend, threshold, committed, buffer>>
  BY Zenon DEF RemoveFile
<1>2. Min(doomed) \in doomed /\ Min(doomed) \in Name
  BY <1>1, RemovedFacts DEF NamesInv
<1>3. PICK x : x = Min(doomed)
  OBVIOUS
<1>4. \A m \in Name : files'[m] = IF m = x THEN << >> ELSE files[m]
  BY <1>0, <1>1, <1>3, Zenon DEF Dir
<1>5. Staying' = Staying
  <2>1. \A m \in Name : (IF m \in doomed' THEN << >> ELSE files'[m]) = IF m \in doomed THEN << >> ELSE files[m]
    BY <1>1, <1>2, <1>3, <1>4, Zenon
  <2> QED  BY <2>1 DEF Staying
<1>6. doomed' = {} => Staying' = files'
  BY <1>0, <1>a, StayFacts, Zenon
<1>7. \A j \in Name : files'[j] # << >> /\ j \notin doomed' => files[j] # << >> /\ j \notin doomed
  BY <1>1, <1>3, <1>4
<1> QED  BY <1>1, <1>5, <1>6, <1>7, Zenon

\* What a commit covers stays in front of everything else.
LEMMA KeptNext ==
    ASSUME Hazards = {}, StoreType, NamesInv, KeptInv, StoreType', [Next]_vars
    PROVE  KeptInv'
<1>0. /\ MaxTime \in Nat /\ Done = MaxTime + 1 /\ threshold \in 0 .. Done /\ threshold \in Nat
      /\ Name = 1 .. MaxTime /\ files \in Dir /\ files' \in Dir /\ committed \in Seq(Event)
      /\ Content(files) \in Seq(Event) /\ doomed \in SUBSET Name
  BY StoreNumbers, ContentType, Zenon DEF StoreType
<1>a. Staying = Stay(files, doomed) /\ Staying' = Stay(files', doomed')
  BY Zenon DEF Staying, Stay
<1>1. CASE phase # "truncate" /\ phase' # "truncate" /\ UNCHANGED <<files, threshold, committed>>
  BY <1>1, Zenon DEF KeptInv
<1>2. CASE DiscardAll
  <2>1. threshold = 0 /\ threshold' = 0 /\ committed' = committed /\ doomed' = NamesFrom(files, 1)
        /\ files' = files
    BY <1>2, Zenon DEF DiscardAll
  <2>2. \A n \in Name : n \notin doomed' => files'[n] = << >>
    BY <2>1, <1>0, Zenon DEF NamesFrom
  <2>3. \A n \in Name : Staying'[n] = << >>
    BY <1>0, <1>a, <2>2, StayFacts
  <2>4. threshold' # Done /\ threshold' \notin 1 .. MaxTime
    BY <2>1, <1>0
  <2> QED  BY <2>1, <2>3, <2>4, Zenon DEF KeptInv
<1>3. CASE TruncateLocal \/ TruncateS3
  <2>1. /\ threshold \in 1 .. MaxTime /\ Closed(committed, threshold) /\ Content(Staying') = committed
        /\ doomed' = {} => Staying' = files'
        /\ backend' = "local" =>
              \A m \in doomed', j \in Name \ doomed' : files'[j] # << >> => j < m
        /\ phase' = IF doomed' = {} THEN "rewound" ELSE "truncate"
        /\ UNCHANGED <<threshold, committed>>
    BY <1>3, TruncateKeeps, Zenon
  <2>2. phase' # "truncate" => IsPrefixOf(committed, Content(files'))
    BY <1>0, <2>1, PrefixSelf, Zenon
  <2>3. threshold' # 0 /\ threshold' # Done
    BY <1>0, <2>1
  <2> QED  BY <2>1, <2>2, <2>3, Zenon DEF KeptInv
<1>4. CASE RemoveFile
  <2>1. /\ Staying' = Staying /\ doomed' \subseteq doomed
        /\ doomed' = {} => Staying' = files'
        /\ \A j \in Name : files'[j] # << >> /\ j \notin doomed' => files[j] # << >> /\ j \notin doomed
        /\ phase = "truncate" /\ phase' = IF doomed' = {} THEN "rewound" ELSE "truncate"
        /\ UNCHANGED <<backend, threshold, committed>>
    BY <1>4, RemoveKeeps, Zenon
  <2>2. threshold # Done
    BY <2>1, Zenon DEF KeptInv
  <2>3. CASE threshold = 0
    <3>1. committed' = << >> /\ \A m \in Name : Staying'[m] = << >>
      BY <2>1, <2>3, Zenon DEF KeptInv
    <3>2. threshold' = 0 /\ threshold' # Done /\ threshold' \notin 1 .. MaxTime
      BY <1>0, <2>1, <2>3
    <3> QED  BY <3>1, <3>2, Zenon DEF KeptInv
  <2>4. CASE threshold \in 1 .. MaxTime
    <3>1. Closed(committed, threshold) /\ Content(Staying) = committed
      BY <2>1, <2>4, Zenon DEF KeptInv
    <3>2. phase' # "truncate" => IsPrefixOf(committed, Content(files'))
      BY <1>0, <2>1, <3>1, PrefixSelf, Zenon
    <3>3. ASSUME backend' = "local", NEW m \in doomed', NEW j \in Name \ doomed', files'[j] # << >>
          PROVE  j < m
      <4>1. j \notin doomed /\ files[j] # << >> /\ m \in doomed
        BY <2>1, <3>3, Zenon
      <4> QED  BY <2>1, <2>4, <3>3, <4>1, Zenon DEF KeptInv
    <3>4. threshold' # 0 /\ threshold' # Done
      BY <1>0, <2>1, <2>4
    <3> QED  BY <2>1, <2>4, <3>1, <3>2, <3>3, <3>4, Zenon DEF KeptInv
  <2> QED  BY <1>0, <2>2, <2>3, <2>4
<1>5. CASE Spill \/ FlushWriter
  <2>1. PICK b \in Seq(Event) :
             /\ phase = "run" /\ target \in Name
             /\ files' = [files EXCEPT ![target] = files[target] \o b]
             /\ UNCHANGED <<backend, threshold, phase, committed>>
    BY <1>5, WriterEffect, Zenon
  <2>2. \A m \in Name : m > target => files[m] = << >>
    BY <1>0, <2>1, StoreNumbers, Zenon DEF NamesInv
  <2>3. files'[target] = files[target] \o b /\ \A m \in Name : m # target => files'[m] = files[m]
    BY <1>0, <2>1, Zenon DEF Dir
  <2>4. Content(files') = Content(files) \o b
    <3>1. PICK fs \in Dir, gs \in Dir, t \in Name : fs = files /\ gs = files' /\ t = target
      BY <1>0, <2>1, Zenon
    <3>2. \A m \in Name : m > t => fs[m] = << >>
      BY <2>2, <3>1
    <3>3. gs[t] = fs[t] \o b /\ \A m \in Name : m # t => gs[m] = fs[m]
      BY <2>3, <3>1, Zenon
    <3>4. Content(gs) = Content(fs) \o b
      BY <3>2, <3>3, AppendContent, Zenon
    <3> QED  BY <3>1, <3>4
  <2>5. IsPrefixOf(committed, Content(files)) => IsPrefixOf(committed, Content(files'))
    BY <1>0, <2>4, PrefixGrows, Zenon
  <2> QED  BY <2>1, <2>5 DEF KeptInv
<1>6. CASE StoreThreshold
  <2>1. PICK t \in FlushedTimes \union {Done} :
          /\ threshold' = t /\ phase' # "truncate" /\ committed' = Truncated(Content(files), t)
          /\ files' = files
    BY <1>6, Zenon DEF StoreThreshold
  <2>2. CASE t = 0
    <3>1. committed' = << >>
      BY <2>1, <2>2, Zenon DEF Truncated
    <3>2. threshold' = 0 /\ threshold' # Done /\ threshold' \notin 1 .. MaxTime
      BY <1>0, <2>1, <2>2
    <3> QED  BY <2>1, <3>1, <3>2, Zenon DEF KeptInv
  <2>3. CASE t = Done
    <3>1. committed' = Content(files)
      BY <1>0, <2>1, <2>3, NotClosed, DoneNotClosed
    <3>2. threshold' = Done /\ threshold' # 0 /\ threshold' \notin 1 .. MaxTime
      BY <1>0, <2>1, <2>3
    <3>3. IsPrefixOf(committed', Content(files'))
      BY <1>0, <2>1, <3>1, PrefixSelf, Zenon
    <3> QED  BY <2>1, <3>2, <3>3, Zenon DEF KeptInv
  <2>4. CASE t # 0 /\ t \in FlushedTimes
    <3>1. t \in 1 .. MaxTime /\ t \in Nat /\ Closing(Content(files), t) # {}
      BY <1>0, <2>4, FlushedFacts
    <3>2. Closed(committed', t) /\ IsPrefixOf(committed', Content(files'))
      BY <1>0, <2>1, <2>4, <3>1, TruncatedClosed, Zenon
    <3>3. threshold' = t /\ threshold' # 0 /\ threshold' # Done
      BY <1>0, <2>1, <3>1
    <3> QED  BY <2>1, <3>1, <3>2, <3>3, Zenon DEF KeptInv
  <2> QED  BY <2>2, <2>3, <2>4, Zenon
<1>7. CASE Restart /\ phase = "truncate"
  <2>1. /\ phase' = "down" /\ UNCHANGED <<backend, files, threshold, committed>>
        /\ CopyExposed => "removal" \in Hazards
    BY <1>7, Zenon DEF Restart
  <2>2. CASE threshold = 0
    <3>1. threshold' = 0 /\ threshold' # Done /\ threshold' \notin 1 .. MaxTime
      BY <1>0, <2>1, <2>2
    <3> QED  BY <2>1, <2>2, <3>1, Zenon DEF KeptInv
  <2>3. CASE threshold \in 1 .. MaxTime
    <3>1. Closed(committed, threshold) /\ Content(Staying) = committed /\ doomed # {}
      BY <1>7, <2>3, Zenon DEF KeptInv, NamesInv
    <3>2. IsPrefixOf(committed, Content(files))
      <4>1. CASE backend = "local"
        <5>1. \A m \in doomed, n \in Name \ doomed : files[n] # << >> => n < m
          BY <1>7, <2>3, <4>1, Zenon DEF KeptInv
        <5> QED  BY <1>0, <1>a, <3>1, <5>1, StayPrefix, Zenon
      <4>2. CASE backend = "s3"
        <5>1. Truncated(Content(files), threshold) = committed
          BY <1>7, <2>1, <2>3, <4>2, <1>0 DEF CopyExposed
        <5>2. CASE Closing(Content(files), threshold) # {}
          BY <1>0, <2>3, <5>1, <5>2, TruncatedClosed
        <5>3. CASE Closing(Content(files), threshold) = {}
          BY <1>0, <2>3, <5>1, <5>3, NotClosed, PrefixSelf
        <5> QED  BY <5>2, <5>3, Zenon
      <4> QED  BY <4>1, <4>2, Zenon DEF StoreType
    <3>3. threshold' # 0 /\ threshold' # Done
      BY <1>0, <2>1, <2>3
    <3> QED  BY <2>1, <2>3, <3>1, <3>2, <3>3, Zenon DEF KeptInv
  <2>4. threshold # Done
    BY <1>7, Zenon DEF KeptInv
  <2> QED  BY <1>0, <2>2, <2>3, <2>4
<1>8. CASE UNCHANGED vars
  BY <1>8 DEF vars, KeptInv, Staying
<1>9. CASE Open \/ StartUploader \/ RewindToEnd \/ WriteAdvance \/ WriteRow \/ (Restart /\ phase # "truncate")
  <2>1. CASE phase # "truncate"
    <3>1. phase' # "truncate" /\ UNCHANGED <<files, threshold, committed>>
      BY <1>9, <2>1 DEF Open, StartUploader, RewindToEnd, WriteAdvance, WriteRow, Restart
    <3> QED  BY <1>1, <2>1, <3>1, Zenon
  <2>2. CASE phase = "truncate"
    <3>1. UNCHANGED <<backend, files, threshold, committed, phase, doomed>>
      BY <1>9, <2>2, Zenon DEF Open, StartUploader, RewindToEnd, WriteAdvance, WriteRow
    <3> QED  BY <3>1, Zenon DEF KeptInv, Staying
  <2> QED  BY <2>1, <2>2
<1> QED  BY <1>2, <1>3, <1>4, <1>5, <1>6, <1>7, <1>8, <1>9, Zenon DEF Next

-----------------------------------------------------------------------------
(* The theorems about snapshots.                                           *)

\* A first start has an empty directory and has committed nothing.
LEMMA StoreInit ==
    ASSUME Init
    PROVE  StoreInv
<1>0. MaxTime \in Nat /\ Done = MaxTime + 1 /\ Name = 1 .. MaxTime /\ Nothing = -1
  BY StoreAssumption DEF Done, Name, Nothing
<1>1. << >> \in Seq(Event)
  OBVIOUS
<1>2. files \in Dir
  BY <1>1, Zenon DEF Init, Dir
<1>3. StoreType
  BY <1>0, <1>1, <1>2, StoreAssumption DEF Init, StoreType
<1>4. NamesInv
  BY DEF Init, NamesInv
<1>5. threshold # Done /\ threshold \notin 1 .. MaxTime
  BY <1>0 DEF Init
<1>6. KeptInv
  BY <1>5, Zenon DEF Init, KeptInv
<1> QED  BY <1>3, <1>4, <1>6, Zenon DEF StoreInv

\* Every step keeps the invariant.
LEMMA StoreNext ==
    ASSUME Hazards = {}, StoreInv, [Next]_vars
    PROVE  StoreInv'
<1>1. StoreType'
  BY StoreTypeNext DEF StoreInv
<1> QED  BY <1>1, NamesNext, KeptNext, Zenon DEF StoreInv

\* The invariant holds in every reachable state.
LEMMA StoreInvariant ==
    ASSUME Hazards = {}
    PROVE  Spec => []StoreInv
<1>1. Init => StoreInv
  BY StoreInit
<1>2. StoreInv /\ [Next]_vars => StoreInv'
  BY StoreNext
<1> QED  BY <1>1, <1>2, PTL DEF Spec

\* Whatever the steps of truncate() at which earlier runs died, a run that has rewound
\* finds everything that a commit covered: for every number of starts, and files or
\* objects alike, as long as an S3 writer names its objects after the copy that
\* truncate() makes and no run dies while that copy is out of order.
THEOREM CommittedKept ==
    ASSUME Hazards = {}
    PROVE  Spec => []CommittedSurvives
<1>1. StoreInv => CommittedSurvives
  <2> SUFFICES ASSUME StoreInv, phase = "rewound"
               PROVE  IsPrefixOf(committed, Content(files))
    BY Zenon DEF CommittedSurvives
  <2>1. threshold \in 0 .. Done /\ Done = MaxTime + 1 /\ MaxTime \in Nat
    BY StoreNumbers DEF StoreInv, StoreType
  <2>2. CASE threshold = 0
    <3>1. committed = << >> /\ Content(files) \in Seq(Event) /\ << >> \in Seq(Event)
      BY <2>2, ContentType, Zenon DEF StoreInv, StoreType, KeptInv
    <3>2. SubSeq(Content(files), 1, 0) = << >> /\ Len(<< >>) = 0 /\ Len(Content(files)) \in Nat
      BY <3>1, SubSeqEmpty
    <3> QED  BY <3>1, <3>2 DEF IsPrefixOf
  <2>3. CASE threshold = Done
    BY <2>3, Zenon DEF StoreInv, KeptInv
  <2>4. CASE threshold \in 1 .. MaxTime
    BY <2>4, Zenon DEF StoreInv, KeptInv
  <2> QED  BY <2>1, <2>2, <2>3, <2>4
<1> QED  BY <1>1, StoreInvariant, PTL

-----------------------------------------------------------------------------
(* The refinement.                                                         *)

\* The operators of the log are those of the files.
LEMMA LogOperators ==
    ASSUME NEW l, NEW T
    PROVE  Log!Closing(l, T) = Closing(l, T) /\ Log!Truncated(l, T) = Truncated(l, T)
BY DEF Log!Closing, Closing, Log!Truncated, Truncated, Log!ReadLength, ReadLength

\* What the log is.
LEMMA LogFacts ==
    ASSUME StoreInv
    PROVE  /\ phase \in {"rewound", "run", "done"} => LogNow = Content(files) \o buffer
           /\ phase = "truncate" => LogNow = Content(Staying)
           /\ phase \in {"down", "opened"} => LogNow = Truncated(Content(files), threshold)
BY DEF LogNow, StoreInv, StoreType

\* The same after a step.
LEMMA LogFactsNext ==
    ASSUME StoreInv'
    PROVE  /\ phase' \in {"rewound", "run", "done"} => LogNow' = Content(files') \o buffer'
           /\ phase' = "truncate" => LogNow' = Content(Staying')
           /\ phase' \in {"down", "opened"} => LogNow' = Truncated(Content(files'), threshold')
BY Zenon DEF LogNow, StoreInv, StoreType

\* A step of the store is one of the log, or changes nothing of it.
LEMMA LogStep ==
    ASSUME Hazards = {}, StoreInv, StoreInv', [Next]_vars
    PROVE  [Log!Next]_(Log!vars)
<1> DEFINE synced == Len(LogNow) - Len(buffer)
           Silent == LogNow' = LogNow /\ synced' = synced /\ threshold' = threshold
<1>0. /\ StoreType /\ NamesInv /\ KeptInv /\ StoreType' /\ NamesInv' /\ KeptInv'
      /\ MaxTime \in Nat /\ Done = MaxTime + 1 /\ threshold \in 0 .. Done /\ threshold \in Nat
      /\ files \in Dir /\ files' \in Dir /\ committed \in Seq(Event)
      /\ buffer \in Seq(Event) /\ buffer' \in Seq(Event)
      /\ Content(files) \in Seq(Event) /\ Content(files') \in Seq(Event)
      /\ doomed \in SUBSET Name
  BY StoreNumbers, ContentType, Zenon DEF StoreInv, StoreType
<1>s. Silent => UNCHANGED Log!vars
  BY Zenon DEF Log!vars
<1>a. Staying = Stay(files, doomed) /\ Staying' = Stay(files', doomed')
  BY DEF Staying, Stay
<1>1. CASE Open \/ StartUploader
  <2>1. UNCHANGED <<files, threshold, buffer, doomed>>
    BY <1>1, Zenon DEF Open, StartUploader
  <2>2. \/ phase \in {"down", "opened"} /\ phase' \in {"down", "opened"}
        \/ phase = "rewound" /\ phase' = "rewound"
    BY <1>1 DEF Open, StartUploader
  <2>3. LogNow' = LogNow
    BY <2>1, <2>2, LogFacts, LogFactsNext, Zenon
  <2> QED  BY <1>s, <2>1, <2>3, Zenon
<1>2. CASE RewindToEnd
  <2>1. /\ phase = "opened" /\ phase' = "rewound" /\ threshold # 0 /\ Closing(Content(files), threshold) = {}
        /\ UNCHANGED <<files, threshold, buffer>> /\ buffer = << >>
    BY <1>0, <1>2, Zenon DEF RewindToEnd, NamesInv
  <2>2. LogNow = Content(files)
    BY <1>0, <2>1, LogFacts, NotClosed, Zenon
  <2>3. LogNow' = Content(files) \o << >>
    BY <2>1, LogFactsNext, Zenon
  <2>4. LogNow' = LogNow
    BY <1>0, <2>2, <2>3, ConcatEmptySeq, Zenon
  <2> QED  BY <1>s, <2>1, <2>4, Zenon
<1>3. CASE DiscardAll
  <2>1. /\ phase = "opened" /\ phase' = IF doomed' = {} THEN "rewound" ELSE "truncate"
        /\ threshold = 0 /\ UNCHANGED <<files, threshold, buffer>> /\ buffer = << >>
        /\ doomed' = NamesFrom(files, 1)
    BY <1>0, <1>3, Zenon DEF DiscardAll, NamesInv
  <2>2. LogNow = << >>
    BY <2>1, LogFacts, Zenon DEF Truncated
  <2>3. \A n \in Name : n \notin doomed' => files[n] = << >>
    BY <1>0, <2>1, Zenon DEF NamesFrom, Name
  <2>4. Stay(files, doomed') \in Dir /\ \A n \in Name : Stay(files, doomed')[n] = << >>
    <3>1. PICK ds : ds = doomed'
      OBVIOUS
    <3>2. /\ Stay(files, ds) \in Dir
          /\ \A n \in Name : Stay(files, ds)[n] = IF n \in ds THEN << >> ELSE files[n]
      BY <1>0, StayFacts, Zenon
    <3>3. \A n \in Name : Stay(files, ds)[n] = << >>
      BY <2>3, <3>1, <3>2, Zenon
    <3> QED  BY <3>1, <3>2, <3>3, Zenon
  <2>5. Content(Staying') = << >>
    BY <1>a, <2>1, <2>4, EmptyContent, Zenon
  <2>6. doomed' = {} => Content(files') = << >>
    BY <1>0, <1>a, <2>5, StayFacts, Zenon
  <2>7. << >> \o << >> = << >>
    OBVIOUS
  <2>8. LogNow' = << >>
    BY <2>1, <2>5, <2>6, <2>7, LogFactsNext, Zenon
  <2> QED  BY <1>s, <2>1, <2>2, <2>8, Zenon
<1>4. CASE TruncateLocal \/ TruncateS3
  <2>1. /\ committed = Truncated(Content(files), threshold) /\ Content(Staying') = committed
        /\ doomed' = {} => Staying' = files'
        /\ phase' = IF doomed' = {} THEN "rewound" ELSE "truncate"
        /\ phase = "opened" /\ UNCHANGED <<threshold, buffer>> /\ buffer = << >>
    BY <1>0, <1>4, TruncateKeeps, Zenon DEF NamesInv
  <2>2. LogNow = committed
    BY <2>1, LogFacts, Zenon
  <2>3. committed \o << >> = committed
    BY <1>0, ConcatEmptySeq, Zenon
  <2>4. LogNow' = committed
    BY <2>1, <2>3, LogFactsNext, Zenon
  <2> QED  BY <1>s, <2>1, <2>2, <2>4, Zenon
<1>5. CASE RemoveFile
  <2>1. /\ Staying' = Staying
        /\ doomed' = {} => Staying' = files'
        /\ phase = "truncate" /\ phase' = IF doomed' = {} THEN "rewound" ELSE "truncate"
        /\ UNCHANGED <<threshold, buffer>> /\ buffer = << >>
    BY <1>0, <1>5, RemoveKeeps, Zenon DEF NamesInv
  <2>2. LogNow = Content(Staying)
    BY <2>1, LogFacts, Zenon
  <2>3. Content(Staying) \in Seq(Event)
    BY <1>0, <1>a, StayFacts, ContentType, Zenon
  <2>4. Content(Staying) \o << >> = Content(Staying)
    BY <2>3, ConcatEmptySeq, Zenon
  <2>5. LogNow' = Content(Staying)
    BY <2>1, <2>4, LogFactsNext, Zenon
  <2> QED  BY <1>s, <2>1, <2>2, <2>5, Zenon
<1>6. CASE WriteAdvance \/ WriteRow
  <2>1. PICK e : /\ buffer' = Append(buffer, e)
                 /\ e \in {[kind |-> "adv", time |-> NextTime], [kind |-> "row", time |-> now]}
                 /\ WriteAdvance => e = [kind |-> "adv", time |-> NextTime]
    BY <1>6, Zenon DEF WriteAdvance, WriteRow
  <2>2. /\ phase \in {"rewound", "run"} /\ phase' = "run" /\ UNCHANGED <<files, threshold>>
    BY <1>6, Zenon DEF WriteAdvance, WriteRow
  <2>3. e \in Event
    <3>1. buffer'[Len(buffer) + 1] = e /\ Len(buffer') = Len(buffer) + 1
      BY <1>0, <2>1
    <3>2. Len(buffer) + 1 \in 1 .. Len(buffer')
      BY <1>0, <3>1
    <3> QED  BY <1>0, <3>1, <3>2
  <2>4. LogNow = Content(files) \o buffer /\ LogNow' = Content(files) \o Append(buffer, e)
    BY <2>1, <2>2, LogFacts, LogFactsNext, Zenon
  <2>5. Content(files) \o Append(buffer, e) = Append(Content(files) \o buffer, e)
    BY <1>0, <2>3
  <2>6. /\ Len(LogNow) \in Nat /\ Len(LogNow') = Len(LogNow) + 1
        /\ Len(buffer) \in Nat /\ Len(buffer') = Len(buffer) + 1
    BY <1>0, <2>1, <2>3, <2>4, <2>5
  <2>7. LogNow' = Append(LogNow, e) /\ synced' = synced
    BY <2>4, <2>5, <2>6
  <2> QED  BY <2>2, <2>3, <2>6, <2>7, Zenon DEF Log!Next, Log!Write
<1>7. CASE Spill \/ FlushWriter
  <2>1. PICK b \in Seq(Event) :
             /\ phase = "run" /\ target \in Name
             /\ files' = [files EXCEPT ![target] = files[target] \o b]
             /\ buffer = b \o buffer'
             /\ UNCHANGED <<threshold, phase>>
    BY <1>0, <1>7, WriterEffect, Zenon
  <2>2. Content(files') = Content(files) \o b
    <3>1. \A m \in Name : m > target => files[m] = << >>
      BY <1>0, <2>1, StoreNumbers, Zenon DEF NamesInv
    <3>2. files'[target] = files[target] \o b /\ \A m \in Name : m # target => files'[m] = files[m]
      BY <1>0, <2>1 DEF Dir
    <3>3. PICK fs \in Dir, gs \in Dir, t \in Name : fs = files /\ gs = files' /\ t = target
      BY <1>0, <2>1, Zenon
    <3>4. \A m \in Name : m > t => fs[m] = << >>
      BY <3>1, <3>3, Zenon
    <3>5. gs[t] = fs[t] \o b /\ \A m \in Name : m # t => gs[m] = fs[m]
      BY <3>2, <3>3, Zenon
    <3>6. Content(gs) = Content(fs) \o b
      BY <3>4, <3>5, AppendContent, Zenon
    <3> QED  BY <3>3, <3>6, Zenon
  <2>3. LogNow = Content(files) \o (b \o buffer') /\ LogNow' = (Content(files) \o b) \o buffer'
    BY <2>1, <2>2, LogFacts, LogFactsNext, Zenon
  <2>4. LogNow' = LogNow
    <3>1. \A p, q, r \in Seq(Event) : p \o (q \o r) = (p \o q) \o r
      BY ConcatAssociative
    <3> QED  BY <1>0, <2>3, <3>1
  <2>5. /\ Len(buffer) = Len(b) + Len(buffer') /\ Len(b) \in Nat /\ Len(buffer') \in Nat
        /\ Len(LogNow) \in Nat
    <3>1. Len(b \o buffer') = Len(b) + Len(buffer') /\ Len(b) \in Nat /\ Len(buffer') \in Nat
      BY <1>0
    <3>2. Len(LogNow) \in Nat
      <4>1. Content(files) \o buffer \in Seq(Event)
        BY <1>0, ConcatProperties, Zenon
      <4> QED  BY <4>1, <2>1, LogFacts
    <3> QED  BY <2>1, <3>1, <3>2, Zenon
  <2>6. synced' \in synced .. Len(LogNow)
    BY <2>4, <2>5
  <2> QED  BY <2>1, <2>4, <2>6, Zenon DEF Log!Next, Log!Flush
<1>8. CASE StoreThreshold
  <2>1. PICK t \in FlushedTimes \union {Done} :
          /\ threshold' = t /\ phase = "run" /\ phase' \in {"done", "run"}
          /\ t = Done => buffer = << >>
          /\ UNCHANGED <<files, buffer>>
    BY <1>8, Zenon DEF StoreThreshold
  <2>2. LogNow = Content(files) \o buffer /\ LogNow' = LogNow
    BY <2>1, LogFacts, LogFactsNext, Zenon
  <2>3. /\ Len(LogNow) = Len(Content(files)) + Len(buffer)
        /\ Len(Content(files)) \in Nat /\ Len(buffer) \in Nat
    BY <1>0, <2>2
  <2>4. synced = Len(Content(files))
    BY <2>3
  <2>5. SubSeq(LogNow, 1, synced) = Content(files)
    BY <1>0, <2>2, <2>4, SubSeqOfConcat1, SubSeqFull
  <2>6. t \in 0 .. Done
    BY <1>0, FlushedFacts
  <2>7. t \in FlushedTimes => Log!Closing(SubSeq(LogNow, 1, synced), t) # {}
    BY <1>0, <2>5, FlushedFacts, LogOperators, Zenon
  <2>8. t = Done => synced = Len(LogNow)
    <3>1. Len(<< >>) = 0
      OBVIOUS
    <3> QED  BY <2>1, <2>3, <3>1
  <2>9. synced' = synced
    BY <2>1, <2>2, Zenon
  <2>10. Log!Commit(t)
    BY <2>1, <2>2, <2>7, <2>8, <2>9, Zenon DEF Log!Commit
  <2> QED  BY <2>6, <2>10, Zenon DEF Log!Next
<1>9. CASE Restart
  <2>1. /\ phase # "down" /\ phase' = "down" /\ UNCHANGED <<files, threshold, committed>>
        /\ buffer' = << >> /\ Len(buffer') = 0
    BY <1>9, Zenon DEF Restart
  <2>2. LogNow' = Truncated(Content(files), threshold)
    BY <2>1, LogFactsNext
  <2>3. CASE phase = "opened"
    <3>1. LogNow' = LogNow /\ buffer = << >>
      BY <1>0, <2>2, <2>3, LogFacts, Zenon DEF NamesInv
    <3> QED  BY <1>s, <2>1, <3>1, Zenon
  <2>4. CASE phase \in {"rewound", "run", "done"}
    <3>1. LogNow = Content(files) \o buffer
      BY <2>4, LogFacts, Zenon
    <3>2. /\ Len(LogNow) = Len(Content(files)) + Len(buffer)
          /\ Len(Content(files)) \in Nat /\ Len(buffer) \in Nat
      BY <1>0, <3>1
    <3>3. synced = Len(Content(files)) /\ synced \in synced .. Len(LogNow)
      BY <3>2
    <3>4. SubSeq(LogNow, 1, synced) = Content(files)
      BY <1>0, <3>1, <3>3, SubSeqOfConcat1, SubSeqFull
    <3>5. LogNow' = Log!Truncated(SubSeq(LogNow, 1, synced), threshold)
      BY <2>2, <3>4, LogOperators, Zenon
    <3>6. synced' = Len(LogNow')
      <4>1. LogNow' \in Seq(Event)
        BY <1>0, <2>2, TruncatedType, Zenon
      <4>2. Len(LogNow') \in Nat
        BY <4>1
      <4> QED  BY <2>1, <4>2
    <3>7. Log!Restart
      BY <2>1, <3>3, <3>5, <3>6, Zenon DEF Log!Restart
    <3> QED  BY <3>7 DEF Log!Next
  <2>5. CASE phase = "truncate"
    <3>1. LogNow = Content(Staying) /\ buffer = << >>
      BY <1>0, <2>5, LogFacts, Zenon DEF NamesInv
    <3>2. CASE threshold = 0
      <4>1. LogNow' = << >>
        BY <2>2, <3>2, Zenon DEF Truncated
      <4>2. Stay(files, doomed) \in Dir /\ \A n \in Name : Stay(files, doomed)[n] = << >>
        BY <1>0, <1>a, <2>5, <3>2, StayFacts, Zenon DEF KeptInv
      <4>3. LogNow = << >>
        BY <1>a, <3>1, <4>2, EmptyContent, Zenon
      <4> QED  BY <1>s, <2>1, <3>1, <4>1, <4>3, Zenon
    <3>3. CASE threshold \in 1 .. MaxTime
      <4>1. Closed(committed, threshold) /\ LogNow = committed
        BY <1>0, <2>5, <3>1, <3>3, Zenon DEF KeptInv
      <4>2. IsPrefixOf(committed, Content(files))
        BY <1>0, <2>1, <3>3, Zenon DEF KeptInv
      <4>3. LogNow' = committed
        BY <1>0, <2>2, <3>3, <4>1, <4>2, ClosedPrefix
      <4> QED  BY <1>s, <2>1, <3>1, <4>1, <4>3, Zenon
    <3>4. threshold # Done
      BY <1>0, <2>5, Zenon DEF KeptInv
    <3> QED  BY <1>0, <3>2, <3>3, <3>4
  <2> QED  BY <1>0, <2>1, <2>3, <2>4, <2>5, Zenon DEF StoreType
<1>10. CASE UNCHANGED vars
  <2>1. LogNow' = LogNow /\ UNCHANGED <<threshold, buffer>>
    BY <1>10 DEF vars, LogNow, Staying
  <2> QED  BY <1>s, <2>1
<1> QED  BY <1>1, <1>2, <1>3, <1>4, <1>5, <1>6, <1>7, <1>8, <1>9, <1>10, Zenon DEF Next

\* The files or objects, and what happens to them file by file, implement one log to
\* which events are appended and that a restart cuts at once where the last commit
\* ends: every step of the store is a step of SnapshotLog or changes nothing there.
THEOREM StoreImplementsLog ==
    ASSUME Hazards = {}
    PROVE  Spec => ImplementsLog
<1>1. Init => Log!Init
  <2> SUFFICES ASSUME Init
               PROVE  Log!Init
    OBVIOUS
  <2>1. phase = "down" /\ threshold = 0 /\ buffer = << >> /\ StoreInv
    BY StoreInit DEF Init
  <2>2. LogNow = << >>
    BY <2>1, LogFacts DEF Truncated
  <2>3. Len(LogNow) - Len(buffer) = 0
    BY <2>1, <2>2
  <2> QED  BY <2>1, <2>2, <2>3 DEF Log!Init
<1>2. StoreInv /\ StoreInv' /\ [Next]_vars => [Log!Next]_(Log!vars)
  BY LogStep
<1>3. Spec => []StoreInv
  BY StoreInvariant
<1> QED  BY <1>1, <1>2, <1>3, PTL DEF Spec, ImplementsLog, Log!Spec

=============================================================================

----------------------------- MODULE KafkaSource -----------------------------
(***************************************************************************)
(* KafkaReader of src/connectors/data_storage.rs: a consumer of several    *)
(* partitions that is moved lazily, at the first message it gets, to what  *)
(* the stored frontier says.  A row is <<partition, 1, offset>>, offsets   *)
(* start with 1.  The broker, its consumer group and the client's position *)
(* are external.                                                           *)
(***************************************************************************)
EXTENDS Connector

CONSTANTS
    Partitions,
    MaxMessages,      \* bound on the messages of a partition
    KafkaErrors,      \* max_allowed_consecutive_errors of KafkaReader
    KafkaRestarts,    \* bound on restarts
    GroupCommits      \* whether the client stored its position for the next start (enable.auto.commit)

VARIABLES
    topic,            \* partition -> messages in it
    position,         \* partition -> the next offset of the consumer
    positionsForSeek, \* positions_for_seek, 0 where there is none
    kafkaRestarts

kafkaVars == <<topic, position, positionsForSeek, kafkaRestarts>>

Produce ==
    /\ \E p \in Partitions : topic[p] < MaxMessages /\ topic' = [topic EXCEPT ![p] = @ + 1]
    /\ UNCHANGED <<position, positionsForSeek, kafkaRestarts, connectorVars>>

\* read(): a message at or below the stored offset moves the consumer past it,
\* and when the consumer cannot be moved the next one is looked at in the same way.
Mut_SeenMessage(p) == positionsForSeek[p] > position[p]
SeenMessage(p) == positionsForSeek[p] >= position[p]
SkipMessage(p) ==
    /\ SeenMessage(p)
    /\ \E failed \in BOOLEAN :
        position' = [position EXCEPT ![p] = IF failed THEN @ + 1 ELSE positionsForSeek[p] + 1]
    /\ UNCHANGED <<positionsForSeek, sendVars>>
ReturnMessage(p) ==
    /\ ~SeenMessage(p) /\ CanRead
    /\ Send(DataEntry(<<p, 1, position[p]>>, 1))
    /\ position' = [position EXCEPT ![p] = @ + 1]
    /\ positionsForSeek' = [positionsForSeek EXCEPT ![p] = 0]
ReadKafka ==
    /\ \E p \in Partitions : position[p] <= topic[p] /\ (SkipMessage(p) \/ ReturnMessage(p))
    /\ UNCHANGED <<topic, kafkaRestarts, pollVars>>

\* consumer.poll fails.
PollError ==
    /\ CanRead /\ FailRead(KafkaErrors)
    /\ UNCHANGED <<kafkaVars, pollVars>>

\* seek: the offsets stored with the last closed time.
StoredOffset(p) == Max({0} \cup {r[3] : r \in {x \in DOMAIN visible : x[1] = p}})
RestartKafka ==
    /\ kafkaRestarts < KafkaRestarts /\ kafkaRestarts' = kafkaRestarts + 1
    /\ ConnectorRestart
    /\ positionsForSeek' = [p \in Partitions |-> StoredOffset(p)]
    /\ \E p \in {[q \in Partitions |-> 1]} \cup (IF GroupCommits THEN {position} ELSE {}) : position' = p
    /\ UNCHANGED topic

PollKafka == ConnectorNext /\ UNCHANGED kafkaVars

KafkaInit ==
    /\ ConnectorInit
    /\ topic = [p \in Partitions |-> 0] /\ position = [p \in Partitions |-> 1]
    /\ positionsForSeek = [p \in Partitions |-> 0]
    /\ kafkaRestarts = 0
KafkaNext == reader = "kafka" /\ (Produce \/ ReadKafka \/ PollError \/ PollKafka \/ RestartKafka) /\ UNCHANGED reader
KafkaSpec == KafkaInit /\ [][KafkaNext]_<<reader, kafkaVars, connectorVars>>
KafkaFairness == WF_<<kafkaVars, connectorVars>>(reader = "kafka" /\ PollKafka)

-----------------------------------------------------------------------------
\* Every message is taken in exactly once, in the order of its partition, over
\* restarts, consumers that cannot be moved and messages delivered again: what was
\* taken is a prefix of each partition, and everything once the consumer is at the end.
KafkaExact ==
    reader = "kafka" =>
    /\ \A r \in DOMAIN Concat(visible, taken) :
        /\ Weight(visible, r) + Weight(taken, r) = 1
        /\ r[3] > 1 => <<r[1], 1, r[3] - 1>> \in DOMAIN Concat(visible, taken)
    /\ channel = <<>> /\ (\A p \in Partitions : position[p] > topic[p])
       => DOMAIN Concat(visible, taken) = UNION {{<<p, 1, o>> : o \in 1 .. topic[p]} : p \in Partitions}

=============================================================================

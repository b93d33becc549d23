---------------------------- MODULE MCConnectors ----------------------------
(***************************************************************************)
(* Instances of the connectors for TLC.  A behaviour exercises one part: a *)
(* connector with one of the readers, the sinks, a change capture source,  *)
(* the parsers, the threads of a process, a subscriber, or one of the      *)
(* monitors.                                                               *)
(***************************************************************************)
EXTENDS FileSource, S3Source, SqliteSource, KafkaSource, Sinks, ChangeCapture, Parsers, Runtime,
        Subscribe, Monitoring

VARIABLE part

Schema ==
    <<[name |-> "a", type |-> "Int", optional |-> FALSE, default |-> FALSE],
      [name |-> "b", type |-> "Float", optional |-> TRUE, default |-> TRUE],
      [name |-> "c", type |-> "Json", optional |-> FALSE, default |-> FALSE],
      [name |-> "_metadata", type |-> "Json", optional |-> FALSE, default |-> FALSE]>>

FileHeaders ==
    {<<"a", "b", "c">>, <<"b", "c", "a">>, <<"c", "x", "a", "b">>, <<"a", "c">>, <<"x", "x">>}

sourceVars == <<reader, fileVars, s3Vars, sqliteVars, kafkaVars, connectorVars>>
observerVars == <<subVars, monitorVars>>
vars == <<part, sourceVars, sinkVars, cdcVars, parserVars, runtimeVars, observerVars>>

\* What the parts that are not exercised start with.
Resting ==
    /\ reader # "files" => mode = "Static" /\ method = "csv"
    /\ reader # "s3" => ~s3Full /\ ~s3Poll /\ objects[Min(ObjectKeys)] = 1
    /\ part # "sinks" => sinkKind = "file"
    /\ part # "capture" => database = "Postgres"
    /\ part # "parsers" => parser = "dsv" /\ ~skipAllErrors
    /\ part # "runtime" => terminateOnError

Init ==
    /\ part \in {"source", "sinks", "capture", "parsers", "runtime", "subscribe",
             "source monitor", "sink monitor", "prober"}
    /\ FileInit /\ S3Init /\ SqliteInit /\ KafkaInit
    /\ (reader = "none") = (part # "source")
    /\ SinkInit /\ CdcInit /\ ParserInit /\ RuntimeInit
    /\ Resting
    /\ MonitoringInit /\ (part # "prober" => everyTime)
    /\ IF part = "subscribe" THEN SubInit
       ELSE /\ subTables = <<>> /\ skipInitial = FALSE /\ skipErrors = FALSE /\ sealed = 0 /\ sealedBatches = <<>>
            /\ outputs = <<>> /\ calls = <<>> /\ sinkTimes = <<>> /\ subState = "running"

SourcePart ==
    /\ part = "source"
    /\ \/ FileNext /\ UNCHANGED <<s3Vars, sqliteVars, kafkaVars>>
       \/ S3Next /\ UNCHANGED <<fileVars, sqliteVars, kafkaVars>>
       \/ SqliteNext /\ UNCHANGED <<fileVars, s3Vars, kafkaVars>>
       \/ KafkaNext /\ UNCHANGED <<fileVars, s3Vars, sqliteVars>>
    /\ UNCHANGED <<part, sinkVars, cdcVars, parserVars, runtimeVars, observerVars>>
SinkPart == part = "sinks" /\ SinkNext
    /\ UNCHANGED <<part, sourceVars, cdcVars, parserVars, runtimeVars, observerVars>>
CapturePart == part = "capture" /\ CdcNext
    /\ UNCHANGED <<part, sourceVars, sinkVars, parserVars, runtimeVars, observerVars>>
ParserPart == part = "parsers" /\ ParserNext
    /\ UNCHANGED <<part, sourceVars, sinkVars, cdcVars, runtimeVars, observerVars>>
RuntimePart == part = "runtime" /\ RuntimeNext
    /\ UNCHANGED <<part, sourceVars, sinkVars, cdcVars, parserVars, observerVars>>
SubscribePart == part = "subscribe" /\ SubNext
    /\ UNCHANGED <<part, sourceVars, sinkVars, cdcVars, parserVars, runtimeVars, monitorVars>>
MonitorPart ==
    /\ \/ part = "source monitor" /\ SourceMonitorNext
       \/ part = "sink monitor" /\ SinkMonitorNext
       \/ part = "prober" /\ ProberNext
    /\ UNCHANGED <<part, sourceVars, sinkVars, cdcVars, parserVars, runtimeVars, subVars>>

Next == SourcePart \/ SinkPart \/ CapturePart \/ ParserPart \/ RuntimePart
    \/ SubscribePart \/ MonitorPart

\* Threads run; that a source produces, fails or ends is not assumed.
RuntimeFairness ==
    /\ WF_runtimeVars(part = "runtime" /\ MainStep)
    /\ \A w \in RuntimeWorkers :
          /\ WF_runtimeVars(part = "runtime" /\ WorkerStep(w))
          /\ WF_runtimeVars(part = "runtime" /\ (UnparkWorker(w) \/ DropSender(w) \/ EndReader(w)))

Spec ==
    Init /\ [][Next]_vars
    /\ FileFairness /\ S3Fairness /\ SqliteFairness /\ KafkaFairness /\ RuntimeFairness

\* What a parser makes of a record, be it a row of a file or a change of a database,
\* is what the source said.
ParsedExact == CapturedExact /\ RowsTyped

\* What leaves the engine is what it computed: the rows that a sink's target holds,
\* the calls that a subscriber gets, and the numbers that a run reports of itself.
DeliveredExact ==
    /\ part = "sinks" => SinksExact
    /\ part = "subscribe" => SubscribedExact
    /\ part \in {"source monitor", "sink monitor", "prober"} => MonitoringExact

=============================================================================

---------------------------- MODULE MCOperators ----------------------------
(***************************************************************************)
(* Instances of the operators of the dataflow for TLC.  A behaviour        *)
(* exercises one of them, the part; their states are disjoint.             *)
(***************************************************************************)
EXTENDS TimeColumn, PrevNext, GradualBroadcast, Tables, ConsistentMap, Deduplicate,
        Reducers, ExternalIndex, Expressions, Iterate, ComplexColumns, Export

VARIABLE part

Rows == {<<1, 1, 1>>, <<2, 1, 2>>, <<2, 1, 3>>, <<3, 2, 1>>}   \* threshold, key, value
GroupStarts == {1, 3}
GivenTriplets == {<<0, 0, 2>>, <<2, 3, 4>>, <<2, 4, 4>>, <<2, 2, 2>>, <<4, 5, 6>>}
Cells == {-1, 0, 4, 5}
Units == <<24, 12, 4, 2, 1>>
TimeRange == (-30) .. 30
WholeHours == {4, -4}

Parts == {"buffer", "freeze", "sort", "broadcast", "tables", "map", "deduplicate",
          "grouped", "arrivals", "index", "expressions", "iterate", "columns", "export"}

loopVars == <<iterVars, columnVars, exVars>>
vars == <<part, tcVars, sortVars, gbVars, tableVars, mapVars, dedupVars, reduceVars,
          indexVars, exprVars, loopVars>>

Init ==
    /\ part \in Parts
    /\ TimeColumnInit /\ SortInit /\ BroadcastInit /\ TablesInit /\ MapInit /\ DedupInit
    /\ ReduceInit /\ IndexInit
    /\ IF part = "expressions" THEN ExprInit
       ELSE /\ question = [about |-> "nothing"] /\ evalStage = 0 /\ cells = <<>>
            /\ errorLog = {} /\ result = <<>>
    /\ IF part = "iterate" THEN IterInit
       ELSE /\ iterKind = "iterated" /\ iterLimit = 0 /\ iterLogic = <<>> /\ iterInput = {}
            /\ returned = "matching" /\ iteration = 0 /\ variable = Nothing /\ resultOf = Nothing
            /\ iterState = "new"
    /\ IF part = "columns" THEN ColumnsInit
       ELSE rowsPresent = {} /\ nextRow = <<>> /\ colEvents = {} /\ settled = FALSE
    /\ part # "export" => tableHistory = [t \in 1 .. ExportTimes |-> {}]
    /\ ExportInit

BufferPart == part = "buffer" /\ BufferNext
    /\ UNCHANGED <<part, sortVars, gbVars, tableVars, mapVars, dedupVars, reduceVars, indexVars, exprVars, loopVars>>
FreezePart == part = "freeze" /\ FreezeNext
    /\ UNCHANGED <<part, sortVars, gbVars, tableVars, mapVars, dedupVars, reduceVars, indexVars, exprVars, loopVars>>
SortPart == part = "sort" /\ SortNext
    /\ UNCHANGED <<part, tcVars, gbVars, tableVars, mapVars, dedupVars, reduceVars, indexVars, exprVars, loopVars>>
BroadcastPart == part = "broadcast" /\ BroadcastNext
    /\ UNCHANGED <<part, tcVars, sortVars, tableVars, mapVars, dedupVars, reduceVars, indexVars, exprVars, loopVars>>
TablesPart == part = "tables" /\ TablesNext
    /\ UNCHANGED <<part, tcVars, sortVars, gbVars, mapVars, dedupVars, reduceVars, indexVars, exprVars, loopVars>>
MapPart == part = "map" /\ MapNext
    /\ UNCHANGED <<part, tcVars, sortVars, gbVars, tableVars, dedupVars, reduceVars, indexVars, exprVars, loopVars>>
DedupPart == part = "deduplicate" /\ DedupNext
    /\ UNCHANGED <<part, tcVars, sortVars, gbVars, tableVars, mapVars, reduceVars, indexVars, exprVars, loopVars>>
GroupedPart == part = "grouped" /\ ChangeGrouped
    /\ UNCHANGED <<part, tcVars, sortVars, gbVars, tableVars, mapVars, dedupVars, indexVars, exprVars, loopVars>>
ArrivalsPart == part = "arrivals" /\ Arrive
    /\ UNCHANGED <<part, tcVars, sortVars, gbVars, tableVars, mapVars, dedupVars, indexVars, exprVars, loopVars>>
IndexPart == part = "index" /\ IndexStep
    /\ UNCHANGED <<part, tcVars, sortVars, gbVars, tableVars, mapVars, dedupVars, reduceVars, exprVars, loopVars>>
ExprPart == part = "expressions" /\ ExprNext
    /\ UNCHANGED <<part, tcVars, sortVars, gbVars, tableVars, mapVars, dedupVars, reduceVars, indexVars, loopVars>>

operatorVars == <<tcVars, sortVars, gbVars, tableVars, mapVars, dedupVars, reduceVars, indexVars, exprVars>>
IteratePart == part = "iterate" /\ IterNext /\ UNCHANGED <<part, operatorVars, columnVars, exVars>>
ColumnsPart == part = "columns" /\ IterateEvents /\ UNCHANGED <<part, operatorVars, iterVars, exVars>>
ExportPart == part = "export" /\ ExportNext /\ UNCHANGED <<part, operatorVars, iterVars, columnVars>>

Next ==
    \/ BufferPart \/ FreezePart \/ SortPart \/ BroadcastPart \/ TablesPart \/ MapPart
    \/ DedupPart \/ GroupedPart \/ ArrivalsPart \/ IndexPart \/ ExprPart
    \/ IteratePart \/ ColumnsPart \/ ExportPart

\* Timely schedules every operator that has work; the input need not end.
BufferFairness ==
    /\ WF_tcVars(part = "buffer" /\ Arrange)
    /\ WF_tcVars(part = "buffer" /\ Postpone)
    /\ WF_tcVars(part = "buffer" /\ FlushOnEnd)

\* The threads of both sides run, a sleeping one when it has its token; that the
\* exporting dataflow goes on or ends is not assumed.
ExportFairness ==
    /\ WF_exVars(part = "export" /\ Notify)
    /\ \A i \in Importers :
          /\ WF_exVars(part = "export" /\ Poll(i))
          /\ WF_exVars(part = "export" /\ imToken[i] /\ Wake(i))

Spec == Init /\ [][Next]_vars /\ BufferFairness /\ ExportFairness

-----------------------------------------------------------------------------
\* The operators of tables, the reducers, loops of operators, columns computed on
\* demand and snapshots of exported tables give what their definitions say.
ComputedExact ==
    /\ part = "tables" => TablesExact
    /\ part \in {"grouped", "arrivals"} => ReducedExact
    /\ part = "iterate" => IterateExact
    /\ part = "columns" => ColumnsExact
    /\ part = "export" => SnapshotsExact

\* Nothing that was taken in stays behind: a buffer is given back when its input
\* ends, and an importer ends when the dataflow that exports does.
InputsEnd == BufferDrains /\ ImportEnds

=============================================================================

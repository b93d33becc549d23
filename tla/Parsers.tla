------------------------------- MODULE Parsers -------------------------------
(***************************************************************************)
(* The parsers of src/connectors/data_format.rs that map an entry to the   *)
(* columns of a schema (DsvParser, JsonLinesParser, TransparentParser) and *)
(* Connector::on_parsed_data, which takes the errors out.  A value is      *)
(* <<type, the column it comes from>>; what an entry has in a column is    *)
(* one of a few texts or JSON values.                                      *)
(***************************************************************************)
EXTENDS Integers, Sequences, FiniteSets

CONSTANTS
    Columns,          \* value_field_names: sequence of records of name, type, optional, default
    KeyColumns,       \* positions in Columns of the primary key
    Headers,          \* headers of delimited files: sequences of names
    Texts,            \* what a token of a delimited file looks like
    FieldAbsenceIsError,
    HeaderRead        \* whether the header of a source comes again after a restart

VARIABLES
    parser,           \* "dsv", "jsonlines" or "transparent"
    skipAllErrors,
    fileHeader,       \* the header of the present file
    headerSent,       \* whether the reader has sent it
    dsvHeaderRead, columnIndices,   \* state of DsvParser
    entry,            \* the last entry: column -> what it has there
    parsed            \* the rows that the entry became

parserVars == <<parser, skipAllErrors, fileHeader, headerSent, dsvHeaderRead, columnIndices, entry, parsed>>

Metadata == "_metadata"
Absent == "absent"
Failed == <<"Err", "">>
ErrorCell == <<"Error", "">>
Default(c) == <<c.type, "default">>

\* CompoundType::matches and convert_value.
Matches(c, v) == c.type = "Any" \/ v[1] = c.type
ConvertValue(c, v) ==
    IF Matches(c, v) \/ (c.optional /\ v[1] = "None") THEN v
    ELSE IF v[1] = "Int" /\ c.type = "Float" THEN <<"Float", v[2]>>
    ELSE Failed

\* parse_with_type.
ParseWithType(c, text) ==
    LET As(t) == <<t, c.name>> IN
    IF c.default /\ text = "empty" /\ c.type \notin {"Any", "String"} THEN Default(c)
    ELSE CASE c.type \in {"Any", "String"} -> As("String")
           [] c.type = "Bool" /\ text = "int" -> As("Bool")
           [] c.type = "Int" /\ text = "int" -> As("Int")
           [] c.type = "Float" /\ text \in {"int", "float"} -> As("Float")
           [] c.type = "Json" /\ text \in {"int", "float"} -> As("Json")
           [] OTHER -> Failed

\* parse_value_from_json: an object is no value unless the column is Json.
JsonKinds == {"Null", "Bool", "Int", "Float", "String", "Array", "Object"}
ParseValueFromJson(c, j) ==
    CASE j = "Null" -> <<"None", c.name>>
      [] j = "Array" -> <<"Tuple", c.name>>
      [] j = "Object" -> Failed
      [] OTHER -> <<j, c.name>>

\* One field of values_by_names_from_json.
ValueFromJson(c, j) ==
    IF c.name = Metadata THEN <<"Json", Metadata>>
    ELSE IF j = Absent
    THEN IF c.default THEN Default(c) ELSE IF FieldAbsenceIsError THEN Failed ELSE <<"None", c.name>>
    ELSE IF c.type = "Json" THEN <<"Json", c.name>>
    ELSE LET v == ParseValueFromJson(c, j) IN IF v = Failed THEN Failed ELSE ConvertValue(c, v)

\* InnerSchemaField::adjust_value, for a reader that gives values.
ValueKinds == {"None", "Bool", "Int", "Float", "String", "PyObjectWrapper"}
AdjustValue(c, kind) ==
    IF kind = Absent THEN IF c.default THEN Default(c) ELSE Failed
    ELSE IF c.type = "Json" THEN IF kind = "PyObjectWrapper" THEN Failed ELSE <<"Json", c.name>>
    ELSE ConvertValue(c, <<kind, c.name>>)

\* column_indices_by_names: the position of each sought column, 0 for the metadata,
\* and <<>> when the names that were found are not as many as those sought.
ColumnIndices(header, sought) ==
    LET At(i) == {p \in DOMAIN header : header[p] = sought[i].name}
        found == Cardinality({i \in DOMAIN sought : sought[i].name = Metadata})
                 + Cardinality(UNION {{<<i, p>> : p \in At(i)} : i \in {j \in DOMAIN sought : sought[j].name # Metadata}})
    IN IF found # Len(sought) THEN <<>>
       ELSE [i \in DOMAIN sought |->
              IF At(i) = {} \/ sought[i].name = Metadata THEN 0
              ELSE CHOOSE p \in At(i) : \A q \in At(i) : q <= p]

\* values_by_indices, with the default schema for a name it does not know; tokens is what the line has at each position.
ColumnAt(p) ==
    LET fields == {Columns[i] : i \in {j \in DOMAIN Columns : Columns[j].name = fileHeader[p]}}
    IN IF fields # {} THEN CHOOSE c \in fields : TRUE
       ELSE [name |-> fileHeader[p], type |-> "Any", optional |-> FALSE, default |-> FALSE]
ValuesByIndices(tokens) ==
    [i \in DOMAIN Columns |->
        IF columnIndices[i] = 0 THEN <<"Json", Metadata>>
        ELSE ParseWithType(ColumnAt(columnIndices[i]), tokens[columnIndices[i]])]

\* on_parsed_data: an error in the key drops the row, one in a value drops it or
\* becomes an error value.
RemoveErrors(values) ==
    IF \/ \E i \in KeyColumns : values[i] = Failed
       \/ skipAllErrors /\ \E i \in DOMAIN values : values[i] = Failed
    THEN {}
    ELSE {[i \in DOMAIN values |-> IF values[i] = Failed THEN ErrorCell ELSE values[i]]}

Keep == UNCHANGED <<parser, skipAllErrors, fileHeader, headerSent, dsvHeaderRead, columnIndices>>

\* on_new_source_started: DsvParser expects a header again.
Mut_NewSourceStarted(header) ==
    /\ fileHeader' = header /\ headerSent' = FALSE
    /\ entry' = <<>> /\ parsed' = {} /\ UNCHANGED <<parser, skipAllErrors, dsvHeaderRead, columnIndices>>
NewSourceStarted(header) ==
    /\ fileHeader' = header /\ headerSent' = FALSE /\ dsvHeaderRead' = FALSE
    /\ entry' = <<>> /\ parsed' = {} /\ UNCHANGED <<parser, skipAllErrors, columnIndices>>
StartFile == parser = "dsv" /\ \E h \in Headers : NewSourceStarted(h)

\* parse_tokenized_entries on the first line, and again on the next one when the
\* names were not found.
ParseDsvHeader(tokens) ==
    /\ ~dsvHeaderRead
    /\ LET indices == ColumnIndices(tokens, Columns) IN
       /\ dsvHeaderRead' = (indices # <<>>)
       /\ columnIndices' = IF indices = <<>> THEN columnIndices ELSE indices
    /\ parsed' = {}
ParseDsvLine(tokens) ==
    /\ dsvHeaderRead
    /\ parsed' = IF \A i \in DOMAIN columnIndices : columnIndices[i] <= Len(tokens)
                 THEN RemoveErrors(ValuesByIndices(tokens)) ELSE {}
    /\ UNCHANGED <<dsvHeaderRead, columnIndices>>
ReadDsv ==
    /\ parser = "dsv" /\ fileHeader # <<>> /\ headerSent' = TRUE
    /\ \E tokens \in IF headerSent THEN UNION {[1..n -> Texts] : n \in {Len(fileHeader) - 1, Len(fileHeader)}}
                     ELSE {fileHeader} :
        /\ entry' = (IF headerSent THEN tokens ELSE <<>>)
        /\ ParseDsvHeader(tokens) \/ ParseDsvLine(tokens)
    /\ UNCHANGED <<parser, skipAllErrors, fileHeader>>

\* A new process and a new parser go on within the file.
RestartDsv ==
    /\ parser = "dsv" /\ headerSent
    /\ headerSent' = ~HeaderRead /\ dsvHeaderRead' = FALSE /\ columnIndices' = <<>>
    /\ entry' = <<>> /\ parsed' = {}
    /\ UNCHANGED <<parser, skipAllErrors, fileHeader>>

\* These two parsers keep no state from one entry to the next.
ReadJson ==
    /\ parser = "jsonlines" /\ entry = <<>> /\ Keep
    /\ entry' \in [DOMAIN Columns -> JsonKinds \cup {Absent}]
    /\ parsed' = RemoveErrors([i \in DOMAIN Columns |-> ValueFromJson(Columns[i], entry'[i])])
ReadValues ==
    /\ parser = "transparent" /\ entry = <<>> /\ Keep
    /\ entry' \in [DOMAIN Columns -> ValueKinds \cup {Absent}]
    /\ parsed' = RemoveErrors([i \in DOMAIN Columns |-> AdjustValue(Columns[i], entry'[i])])

ParserInit ==
    /\ parser \in {"dsv", "jsonlines", "transparent"} /\ skipAllErrors \in BOOLEAN
    /\ fileHeader = <<>> /\ headerSent = FALSE /\ dsvHeaderRead = FALSE /\ columnIndices = <<>>
    /\ entry = <<>> /\ parsed = {}
ParserNext == StartFile \/ ReadDsv \/ RestartDsv \/ ReadJson \/ ReadValues

-----------------------------------------------------------------------------
\* What a row may hold in a column: a value of the column's type, the default, the
\* metadata, or an error that did not stop the row.
CellTyped(c, v) ==
    \/ v = ErrorCell /\ ~skipAllErrors
    \/ v = Default(c) /\ c.default
    \/ v[2] = c.name /\ (Matches(c, v) \/ (v[1] = "None" /\ c.optional))
    \/ c.name = Metadata /\ v = <<"Json", Metadata>>

\* Every row that reaches the engine has in each column a value of the declared type
\* that comes from that column of its own file, an error is never part of a key, and
\* a line whose tokens all fit is not lost: whatever order the headers of successive
\* files have, however short a line is, and when reading goes on within a file.
RowsTyped ==
    /\ \A row \in parsed :
        /\ \A i \in DOMAIN Columns : CellTyped(Columns[i], row[i])
        /\ \A i \in KeyColumns : row[i] # ErrorCell
    /\ parser = "dsv" /\ entry # <<>> /\ parsed = {}
       => \/ \E i \in DOMAIN Columns : Columns[i].name # Metadata /\ \A p \in DOMAIN entry : fileHeader[p] # Columns[i].name
          \/ \E p \in DOMAIN entry : entry[p] # "int"

=============================================================================

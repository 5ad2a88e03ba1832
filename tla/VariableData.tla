----------------------------- MODULE VariableData -----------------------------
(***************************************************************************)
(* Variable data: a CSV file with one record per page, as the proof PDF    *)
(* and the production composition read it (src/src/PdfComposer.cpp) and as *)
(* the merge reads it (src/src/VariableData.cpp), and the overlay each of  *)
(* them makes for a page from a template.  A template is a list of texts   *)
(* and of fields to be filled in.                                          *)
(***************************************************************************)
EXTENDS CliOptions

\* The CSV files by name: a header of names, <<>> in an empty file, and the
\* rows below it, <<>> being an empty line.
CONSTANT Tables

ASSUME TablesAssumption ==
    \A name \in DOMAIN Tables :
        LET table == Tables[name] IN
        /\ IsSequence(table.header) /\ IsSequence(table.rows)
        /\ \A i \in DOMAIN table.rows : AreArguments(table.rows[i])

Field(name) == [kind |-> "field", text |-> name]

IsTable(path) == path.kind = "text" /\ path.text \in DOMAIN Tables

RowsOf(table) == Without(table.rows, <<>>)

\* A row may be shorter than the header; of two columns of one name the last
\* one counts, and a column without a name is passed over.
ColumnsNamed(table, name) == {i \in DOMAIN table.header : table.header[i] = name}

Record(table, row) ==
    LET names == {table.header[i] : i \in 2 .. Len(table.header)} \ {""}
        place(name) == Max(ColumnsNamed(table, name) \ {1}) IN
    [name \in names |-> IF place(name) <= Len(row) THEN row[place(name)] ELSE Empty]

\* The first column is the page as people count, from 1.
HasPages(table) == \A row \in Range(RowsOf(table)) : IsNumber(row[1], "atLeastOne")

\* Mutation of ByPage: the number is taken for the index of the page.
ByPage_NumberAsIndex(table) ==
    LET rows == RowsOf(table)
        index(k) == rows[k][1].number IN
    [page \in {index(k) : k \in DOMAIN rows} |->
        Record(table, rows[Max({k \in DOMAIN rows : index(k) = page})])]

\* The records by the index of their page; a later row replaces an earlier one.
ByPage(table) ==
    LET rows == RowsOf(table)
        index(k) == rows[k][1].number - 1 IN
    [page \in {index(k) : k \in DOMAIN rows} |->
        Record(table, rows[Max({k \in DOMAIN rows : index(k) = page})])]

\* LoadVariableDataCsv succeeds; without a file there are no records.
CsvLoads(path) ==
    \/ path = Empty
    \/ /\ IsTable(path)
       /\ LET table == Tables[path.text] IN
          table.header # <<>> /\ table.header[1] = "page" /\ HasPages(table)

CsvRecords(path) == IF path = Empty \/ ~CsvLoads(path) THEN <<>> ELSE ByPage(Tables[path.text])

\* LoadVariableDataSet succeeds: it needs a file, and page in any case.
DataSetLoads(path) ==
    /\ IsTable(path)
    /\ LET table == Tables[path.text] IN
       table.header # <<>> /\ table.header[1] \in {"page", "Page", "PAGE"} /\ HasPages(table)

-----------------------------------------------------------------------------
\* A field without a value is left empty.
ExpandOverlayTemplate(template, variables) ==
    [i \in DOMAIN template.items |->
        LET item == template.items[i] IN
        IF item.kind # "field" THEN item
        ELSE IF item.text \in DOMAIN variables THEN variables[item.text] ELSE Empty]

RecordFor(page, records) == IF page \in DOMAIN records THEN records[page] ELSE <<>>

\* resolvedOverlay of ToProductionCompositionJson: slots from 1.
CompositionOverlay(p, template, path) ==
    ExpandOverlayTemplate(template,
        (IF p.page = Blank THEN <<>> ELSE RecordFor(p.page, CsvRecords(path)))
     ++ [sheet |-> Number(p.sheet + 1), slot |-> Number(p.slot + 1),
         page |-> Number(ItemOfPage(p.page))])

\* The overlay ComposePlanPdf draws: slots from 0.
PdfOverlay(p, template, path) ==
    ExpandOverlayTemplate(template,
        RecordFor(p.page, CsvRecords(path))
     ++ [sheet |-> Number(p.sheet + 1), slot |-> Number(p.slot),
         page |-> IF p.page = Blank THEN Text("blank") ELSE Number(p.page + 1),
         doc |-> IF p.page = Blank THEN Empty ELSE Text("cli-input")])

\* MergeVariableData: page by page of the document, without a plan.
MergeVariableData(template, path, pages) ==
    LET records == ByPage(Tables[path.text]) IN
    [page \in 0 .. pages - 1 |->
        IF template = Empty \/ page \notin DOMAIN records THEN <<>>
        ELSE ExpandOverlayTemplate(template, records[page])]
===============================================================================

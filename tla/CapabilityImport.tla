--------------------------- MODULE CapabilityImport ---------------------------
(***************************************************************************)
(* The import of capabilities from a CSV content: the validation that a    *)
(* dry run and a commit share, and the one transaction of a commit.        *)
(* Source: apps/api/src/capability/capability-import.service.ts.           *)
(*                                                                         *)
(* A request is parsed and checked, reads twice what exists, and answers   *)
(* or opens its transaction; the names and parents it read may be gone by  *)
(* then, so each row is checked again as it is written.  Other writers act *)
(* between any two of these steps.  Of a row the module keeps its name,    *)
(* its parent, its type, and whether any other column is at fault.         *)
(***************************************************************************)
EXTENDS Integers, FiniteSets, Sequences, Functions

CONSTANTS
    Names,         \* values of unique_name
    Ids,           \* capability ids, in the order they are given out
    Contents,      \* CSV contents that are sent
    CheckedFiles,  \* lines of further files that ValidationIsExact looks at
    Handlers,      \* requests the server works on at a time
    NoName,        \* an empty cell
    NoId,          \* parent_id NULL, or no capability of that name
    Unborn,        \* an id not given out yet
    Deleted,       \* an id whose capability is gone
    NoContent      \* no CSV content

Cells == Names \cup {NoName}
CapabilityType == {"ABSTRACT", "LEAF"}

\* type "" is an empty cell.  faulty: an enum, boolean, date, ACTIVE metadata
\* or guardrail rationale of the row is refused.
FileRow == [uniqueName : Cells, parentUniqueName : Cells,
            type : CapabilityType \cup {""}, faulty : BOOLEAN]

\* Not readable: an unterminated quote, nothing but blank lines, an unsupported
\* column or no uniqueName column.  Blank lines are among the rows.
Content == [readable : BOOLEAN, rows : Seq(FileRow)]

Row == [uniqueName : Names, parentId : Ids \cup {NoId}, type : CapabilityType, branchLocal : BOOLEAN]

Codes == {"REQUIRED", "DUPLICATE_IN_FILE", "INVALID_PARENT", "INVALID_HIERARCHY_TYPE",
          "INVALID_CELL", "EXISTING_CONFLICT", "CYCLIC_PARENT"}

ASSUME IdsAssumption == Ids = 1..Cardinality(Ids)
ASSUME ContentsAssumption ==
    Contents \subseteq Content /\ NoContent \notin Contents /\ CheckedFiles \subseteq Seq(FileRow)
ASSUME NullsAssumption ==
    NoName \notin Names /\ NoId \notin Ids /\ {Unborn, Deleted} \cap Row = {} /\ Unborn # Deleted

VARIABLES
    capability,  \* the table: a row, Unborn or Deleted for each id
    request      \* what each handler works on

serverVars == <<capability, request>>

-----------------------------------------------------------------------------
(* The validation of a file *)

\* parseCsvContent leaves out the lines all of whose cells are blank.
Blank(r) == r.uniqueName = NoName /\ r.parentUniqueName = NoName /\ r.type = "" /\ ~r.faulty
ParsedRows(lines) ==
    LET rows[i \in 0..Len(lines)] ==
            IF i = 0 THEN <<>>
            ELSE IF Blank(lines[i]) THEN rows[i - 1] ELSE Append(rows[i - 1], lines[i])
    IN  rows[Len(lines)]

SeenNames(rows) == {rows[i].uniqueName : i \in DOMAIN rows} \ {NoName}
ParentNamesInFile(rows) == {rows[i].parentUniqueName : i \in DOMAIN rows} \ {NoName}

\* An enum, a boolean or a date that does not parse, an ACTIVE row without its
\* metadata, or an override of the guardrail without a rationale.
FaultyCell(r) == r.faulty

\* The names the second read asks for.
ReferencedNames(rows) ==
    SeenNames(rows) \cup {rows[i].parentUniqueName : i \in {j \in DOMAIN rows : rows[j].uniqueName # NoName}}

ResolvedType(r, rows) ==
    IF r.type # "" THEN r.type
    ELSE IF r.uniqueName \in ParentNamesInFile(rows) THEN "ABSTRACT" ELSE "LEAF"

\* What the row and the file say, before anything is read.
FaultInFile(rows, i, code) ==
    LET name == rows[i].uniqueName
        parent == rows[i].parentUniqueName
    IN  \/ code = "REQUIRED" /\ name = NoName
        \/ code = "DUPLICATE_IN_FILE" /\ name # NoName /\ \E j \in 1..(i - 1) : rows[j].uniqueName = name
        \/ code = "INVALID_PARENT" /\ name # NoName /\ parent = name
        \/ code = "INVALID_HIERARCHY_TYPE" /\ rows[i].type = "LEAF" /\ name \in ParentNamesInFile(rows)
        \/ code = "INVALID_CELL" /\ FaultyCell(rows[i])

\* What the two reads add: taken holds the names in use, ids the main capabilities by name.
FaultInModel(rows, i, code, taken, ids) ==
    LET parent == rows[i].parentUniqueName
    IN  /\ rows[i].uniqueName # NoName
        /\ \/ code = "EXISTING_CONFLICT" /\ rows[i].uniqueName \in taken
           \/ /\ code = "INVALID_PARENT" /\ parent # NoName
              /\ ids[parent] = NoId /\ parent \notin SeenNames(rows)

\* Mutant: the rows placed in a pass count only from the next one on, and one pass is made.
PlaceInOnePass(rows, ids) ==
    LET remaining == SeenNames(rows)
        ready(r) == \/ r.parentUniqueName = NoName
                    \/ ids[r.parentUniqueName] # NoId
                    \/ r.parentUniqueName \notin remaining
        left == {rows[i].uniqueName : i \in {j \in DOMAIN rows : ~ready(rows[j])}}
    IN  [ordered |-> SelectSeq(rows, ready), remaining |-> left]

\* orderRows: a row is placed once nothing it waits for remains; a pass over the
\* rows places at least one, until none can be placed.
Place(state, r, ids) ==
    IF /\ r.uniqueName \in state.remaining
       /\ \/ r.parentUniqueName = NoName
          \/ ids[r.parentUniqueName] # NoId
          \/ r.parentUniqueName \notin state.remaining
    THEN [ordered |-> Append(state.ordered, r), remaining |-> state.remaining \ {r.uniqueName}]
    ELSE state

Pass(state, rows, ids) ==
    LET after[i \in 0..Len(rows)] ==
            IF i = 0 THEN state ELSE Place(after[i - 1], rows[i], ids)
    IN  after[Len(rows)]

OrderRows(rows, ids) ==
    LET pass[n \in 0..Len(rows)] ==
            IF n = 0 THEN [ordered |-> <<>>, remaining |-> SeenNames(rows)]
            ELSE Pass(pass[n - 1], rows, ids)
    IN  pass[Len(rows)]

Errors(rows, taken, ids) ==
    LET found == {e \in (DOMAIN rows) \X Codes :
                    \/ FaultInFile(rows, e[1], e[2])
                    \/ FaultInModel(rows, e[1], e[2], taken, ids)}
        unplaced == OrderRows(rows, ids).remaining
    IN  IF found # {} THEN found
        ELSE {e \in (DOMAIN rows) \X {"CYCLIC_PARENT"} : rows[e[1]].uniqueName \in unplaced}

\* countInvalidRows and readyCount of buildDryRunResult.
InvalidRows(errors) == Cardinality({e[1] : e \in errors})

ReadyCount(rows, errors) == Len(rows) - InvalidRows(errors)

-----------------------------------------------------------------------------
(* The server *)

Live(i) == capability[i] \notin {Unborn, Deleted}
Main(i) == Live(i) /\ ~capability[i].branchLocal
NamesInUse == {capability[i].uniqueName : i \in {j \in Ids : Live(j)}}
NoIds == [n \in Names |-> NoId]
MainIds ==
    [n \in Names |->
        IF \E i \in Ids : Main(i) /\ capability[i].uniqueName = n
        THEN CHOOSE i \in Ids : Main(i) /\ capability[i].uniqueName = n
        ELSE NoId]

Answers == {"none", "validated", "invalid", "created", "refused"}

\* rest: the ordered rows still to be created; rows: those written, not yet committed.
Idle ==
    [pc |-> "idle", commit |-> FALSE, content |-> NoContent, taken |-> {}, ids |-> NoIds,
     rest |-> <<>>, rows |-> <<>>, answer |-> "none", errors |-> {}]

Uncommitted(h) == DOMAIN request[h].rows
NamesWritten(h) == {request[h].rows[i].uniqueName : i \in Uncommitted(h)}
WrittenByOthers(h) == UNION {NamesWritten(g) : g \in Handlers \ {h}}
NamesBeingWritten == UNION {NamesWritten(h) : h \in Handlers}
ParentsBeingWritten == UNION {{request[h].rows[i].parentId : i \in Uncommitted(h)} : h \in Handlers}

\* The next id given out, if there is one left.
Unused == {i \in Ids : capability[i] = Unborn /\ \A h \in Handlers : i \notin Uncommitted(h)}
NextId(i) == i \in Unused /\ \A j \in Unused : i <= j

Finish(h, answer, errors) ==
    request' = [request EXCEPT ![h] =
        [Idle EXCEPT !.pc = "done", !.commit = request[h].commit, !.content = request[h].content,
                     !.answer = answer, !.errors = errors]]

\* A request arrives; isCommit tells the two endpoints apart.
Receive(h, isCommit, c) ==
    /\ request[h] = Idle
    /\ request' = [request EXCEPT ![h].pc = "parsing", ![h].commit = isCommit, ![h].content = c]
    /\ UNCHANGED capability

\* Refused at the door: no valid session, not a role that may import, too long, or not readable.
Refuse(h) ==
    /\ request[h].pc = "parsing"
    /\ Finish(h, "refused", {})
    /\ UNCHANGED capability

RowsOf(h) == ParsedRows(request[h].content.rows)

\* loadExistingCapabilityConflicts: branch-local capabilities count too.
ReadConflicts(h) ==
    /\ request[h].pc = "parsing"
    /\ request[h].content # NoContent /\ request[h].content.readable
    /\ request' = [request EXCEPT ![h].pc = "reading",
                                  ![h].taken = SeenNames(RowsOf(h)) \cap NamesInUse]
    /\ UNCHANGED capability

\* loadExistingMainCapabilityIds, and what follows from both reads.
ReadMainIds(h) ==
    LET errors == Errors(RowsOf(h), request[h].taken, MainIds)
        ordered == OrderRows(RowsOf(h), MainIds).ordered
    IN  /\ request[h].pc = "reading"
        /\ IF request[h].commit /\ errors = {}
           THEN request' = [request EXCEPT ![h].pc = "writing", ![h].taken = {},
                                           ![h].ids = [n \in Names |-> IF n \in ReferencedNames(RowsOf(h))
                                                                      THEN MainIds[n] ELSE NoId],
                                           ![h].rest = ordered]
           ELSE Finish(h, IF request[h].commit THEN "invalid" ELSE "validated", errors)
        /\ UNCHANGED capability

\* The parent of a row: created by this import, or read before the transaction.
ParentId(h, r) ==
    LET made == {i \in Uncommitted(h) : request[h].rows[i].uniqueName = r.parentUniqueName}
    IN  IF r.parentUniqueName = NoName THEN NoId
        ELSE IF made # {} THEN CHOOSE i \in made : TRUE
        ELSE request[h].ids[r.parentUniqueName]

NewRow(h, r) ==
    [uniqueName |-> r.uniqueName, parentId |-> ParentId(h, r),
     type |-> ResolvedType(r, RowsOf(h)), branchLocal |-> FALSE]

\* validateParent and ensureUniqueNameAvailable of CapabilityService.create.
Creatable(h, r) ==
    /\ ParentId(h, r) \in {NoId} \cup Uncommitted(h) \cup {i \in Ids : Main(i)}
    /\ r.uniqueName \notin NamesInUse \cup NamesWritten(h)

\* Mutant: the capability is created outside the transaction of the import.
CreateOutsideTransaction(h) ==
    /\ request[h].pc = "writing" /\ request[h].rest # <<>>
    /\ Creatable(h, Head(request[h].rest))
    /\ \E i \in Ids :
         /\ NextId(i)
         /\ capability' = [capability EXCEPT ![i] = NewRow(h, Head(request[h].rest))]
         /\ request' = [request EXCEPT ![h].rest = Tail(@)]

\* One row: the check, the insert, the history and the audit entry.  The insert
\* waits while another transaction holds the same name in the unique index.
CreateRow(h) ==
    /\ request[h].pc = "writing" /\ request[h].rest # <<>>
    /\ Creatable(h, Head(request[h].rest))
    /\ Head(request[h].rest).uniqueName \notin WrittenByOthers(h)
    /\ \E i \in Ids :
         /\ NextId(i)
         /\ request' = [request EXCEPT
                ![h].rows = [j \in {i} \cup DOMAIN @ |->
                                IF j = i THEN NewRow(h, Head(request[h].rest)) ELSE @[j]],
                ![h].rest = Tail(@)]
    /\ UNCHANGED capability

\* A row that cannot be created undoes those before it.
CreateFails(h) ==
    /\ request[h].pc = "writing" /\ request[h].rest # <<>>
    /\ ~Creatable(h, Head(request[h].rest))
    /\ Finish(h, "refused", {})
    /\ UNCHANGED capability

\* The transaction exceeds its time limit, or is the victim of a deadlock.
TimeOut(h) ==
    /\ request[h].pc = "writing"
    /\ Finish(h, "refused", {})
    /\ UNCHANGED capability

CommitImport(h) ==
    /\ request[h].pc = "writing" /\ request[h].rest = <<>>
    /\ capability' = [i \in Ids |-> IF i \in Uncommitted(h) THEN request[h].rows[i] ELSE capability[i]]
    /\ Finish(h, "created", {})

\* The answer leaves; Reply(h) has no effect on the tables.
Reply(h) ==
    /\ request[h].pc = "done"
    /\ request' = [request EXCEPT ![h] = Idle]
    /\ UNCHANGED capability

-----------------------------------------------------------------------------
(* Other writers of the table: the registry and the branches *)

\* Where others put their capabilities does not matter here: at the root.
Register(n, branchLocal) ==
    /\ n \notin NamesInUse \cup NamesBeingWritten
    /\ \E i \in Ids :
         /\ NextId(i)
         /\ capability' = [capability EXCEPT ![i] =
                [uniqueName |-> n, parentId |-> NoId, type |-> "LEAF", branchLocal |-> branchLocal]]
    /\ UNCHANGED request

\* A row that an import has written a child of is locked.
Rename(i, n) ==
    /\ Main(i)
    /\ n \notin NamesInUse \cup NamesBeingWritten
    /\ i \notin ParentsBeingWritten
    /\ capability' = [capability EXCEPT ![i].uniqueName = n]
    /\ UNCHANGED request

Delete(i) ==
    /\ Main(i)
    /\ \A j \in Ids : Live(j) => capability[j].parentId # i
    /\ i \notin ParentsBeingWritten
    /\ capability' = [capability EXCEPT ![i] = Deleted]
    /\ UNCHANGED request

-----------------------------------------------------------------------------
ServerInit ==
    /\ capability = [i \in Ids |-> Unborn]
    /\ request = [h \in Handlers |-> Idle]

Work(h) ==
    \/ Refuse(h) \/ ReadConflicts(h) \/ ReadMainIds(h)
    \/ CreateRow(h) \/ CreateFails(h) \/ TimeOut(h) \/ CommitImport(h)

Others ==
    \/ \E n \in Names, b \in BOOLEAN : Register(n, b)
    \/ \E i \in Ids, n \in Names : Rename(i, n)
    \/ \E i \in Ids : Delete(i)

Requests ==
    [pc : {"idle", "parsing", "reading", "writing", "done"}, commit : BOOLEAN,
     content : Contents \cup {NoContent}, taken : SUBSET Names, ids : [Names -> Ids \cup {NoId}],
     rest : Seq(FileRow), rows : UNION {[made -> Row] : made \in SUBSET Ids},
     answer : Answers, errors : SUBSET (Nat \X Codes)]

ServerTypeOK ==
    /\ capability \in [Ids -> Row \cup {Unborn, Deleted}]
    /\ request \in [Handlers -> Requests]

-----------------------------------------------------------------------------
(* What an import promises *)

\* The reference: every row is sound by itself, and the rows can be ranked so
\* that each parent is a main capability or a row of lower rank.
Importable(rows, taken, ids) ==
    LET name(i) == rows[i].uniqueName
        parent(i) == rows[i].parentUniqueName
    IN  /\ \A i \in DOMAIN rows :
             name(i) \notin taken \cup {NoName} /\ parent(i) # name(i) /\ ~rows[i].faulty
        /\ \A i, j \in DOMAIN rows : name(i) = name(j) => i = j
        /\ \A i, j \in DOMAIN rows : name(i) = parent(j) => rows[i].type # "LEAF"
        /\ \E rank \in [DOMAIN rows -> DOMAIN rows] : \A i \in DOMAIN rows :
             parent(i) # NoName =>
                \/ ids[parent(i)] # NoId
                \/ \E j \in DOMAIN rows : name(j) = parent(i) /\ rank[j] < rank[i]

\* Each row once, none before the row that is to be its parent.
ParentsFirst(rows, ordered, ids) ==
    /\ Len(ordered) = Len(rows) /\ Range(ordered) = Range(rows)
    /\ \A i, j \in DOMAIN ordered : 
         ordered[i].uniqueName = ordered[j].parentUniqueName => i < j \/ ids[ordered[i].uniqueName] # NoId

Exact(rows, taken, ids) ==
    LET errors == Errors(rows, taken, ids)
    IN  /\ errors = {} <=> Importable(rows, taken, ids)
        /\ errors = {} => ParentsFirst(rows, OrderRows(rows, ids).ordered, ids)
        /\ ReadyCount(rows, errors) = Len(rows) <=> errors = {}
        /\ ReadyCount(rows, errors) >= 0

ExactOnCheckedFiles ==
    \A lines \in CheckedFiles, main \in SUBSET Names : \A branch \in SUBSET (Names \ main) :
        LET rows == ParsedRows(lines)
        IN  Exact(rows, SeenNames(rows) \cap (main \cup branch),
                  [n \in Names |-> IF n \in main THEN CHOOSE i \in Ids : TRUE ELSE NoId])

\* validate and orderRows: for the file of a request, and for each of CheckedFiles
\* and each way its names can be in use, no error is found exactly when the file
\* can be imported; the order then has parents first, and all rows are ready.
ValidationIsExact ==
    \A h \in Handlers : request[h].pc = "reading" =>
        Exact(RowsOf(h), request[h].taken, MainIds) /\ ExactOnCheckedFiles

\* A step in which capabilities appear or a request is answered that it created them.
CreatesWhole(h) ==
    LET new == {i \in Ids : ~Live(i) /\ capability'[i] \notin {Unborn, Deleted}}
        rows == RowsOf(h)
        rowOf(i) == CHOOSE r \in Range(rows) : r.uniqueName = capability'[i].uniqueName
    IN  request'[h] # request[h] /\ (new # {} \/ request'[h].answer = "created") =>
          /\ {capability'[i].uniqueName : i \in new} = SeenNames(rows)
          /\ Cardinality(new) = Len(rows)
          /\ \A i \in new :
               LET p == rowOf(i).parentUniqueName
                   id == capability'[i].parentId
               IN  IF p = NoName THEN id = NoId
                   ELSE \/ id \in new /\ capability'[id].uniqueName = p
                        \/ id # NoId /\ id = request[h].ids[p] /\ Main(id)

\* commit: the step in which capabilities appear creates all rows of the file and
\* no other, each below the row that bears the name of its parent or below the
\* capability that bore it when it was read, which still exists.
ImportIsWhole == [][\A h \in Handlers : CreatesWhole(h)]_serverVars

\* A row whose parent is in the file goes below that row.
BelowOwnRow ==
    \A h \in Handlers : request[h].pc = "writing" =>
        \A i, j \in Uncommitted(h), r \in Range(RowsOf(h)) :
            LET rows == request[h].rows
            IN  rows[i].uniqueName = r.uniqueName /\ rows[j].uniqueName = r.parentUniqueName
                  => rows[i].parentId = j
=============================================================================

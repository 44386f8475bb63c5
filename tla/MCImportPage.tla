---------------------------- MODULE MCImportPage ----------------------------
(* Small instances of ImportPage for TLC.  A behaviour has either requests of two *)
(* handlers at a time, about capabilities two at most, or one request at a time   *)
(* about one file, which may be read late, and a third name and id, for what is   *)
(* renamed between the reads of a commit and its writes.                          *)
EXTENDS ImportPage, TLC

CONSTANTS a, b, c, h1, h2

FileRowOf(n, p, t, f) == [uniqueName |-> n, parentUniqueName |-> p, type |-> t, faulty |-> f]
Plain(n, p) == FileRowOf(n, p, "", FALSE)
Csv(rows) == [readable |-> TRUE, rows |-> rows]

\* A child before its parent, and a child of what exists.
ChildFirst == Csv(<<Plain(b, a), Plain(a, NoName)>>)
PageContents == {ChildFirst, Csv(<<Plain(b, a)>>)}

\* All files of up to three rows over three names, blank lines and blank names
\* among them, with an explicit type or a faulty cell in one of the rows.
OddRows == {FileRowOf(a, NoName, "LEAF", FALSE), FileRowOf(b, a, "LEAF", FALSE),
            FileRowOf(c, NoName, "", TRUE)}
SmallRows == {Plain(n, p) : n \in {a, b, c, NoName}, p \in {a, b, c, NoName}} \cup OddRows
SmallFiles == UNION {[1..n -> SmallRows] : n \in 0..3}

VARIABLE visit

VisitInit == Init /\ visit \in {"two requests", "three capabilities"}

VisitNext ==
    /\ UNCHANGED visit
    /\ Next
    /\ CASE visit = "two requests" ->
              /\ reading' = 0 /\ capability'[3] = Unborn /\ \A h \in Handlers : 3 \notin DOMAIN request'[h].rows
              /\ \A i \in {1, 2} : capability'[i] \in Row => capability'[i].uniqueName # c
         [] visit = "three capabilities" ->
              /\ csvContent' \in {ChildFirst, NoContent}
              /\ \A g, h \in Handlers : Idle \in {request'[g], request'[h]} \/ g = h

VisitSpec == VisitInit /\ [][VisitNext]_<<visit, vars>>

Symmetry == Permutations(Handlers)
=============================================================================

----------------------------- MODULE ImportProofs -----------------------------
(***************************************************************************)
(* Theorems about ImportPage, for any contents, names, ids and numbers of  *)
(* requests: the preview finds no error exactly in a file that can be      *)
(* imported, and an import creates the whole file or nothing.              *)
(*                                                                         *)
(* Why orderRows finds an order whenever there is one: were rows left, the *)
(* one of least rank among them would wait for none of those left, and the *)
(* last pass would have placed it; each pass but the last places a row, so *)
(* there are no more passes than rows.  Why the commit creates them all:   *)
(* the rows written and the rows still to write are, at each step, those   *)
(* of the file, and what a row is to be created below is known by then:    *)
(* an earlier row, or a capability read before and checked again.          *)
(***************************************************************************)
EXTENDS ImportPage, FiniteSetTheorems, SequenceTheorems, WellFoundedInduction, TLAPS

-----------------------------------------------------------------------------
(* Recursion over the rows of a file *)

\* Of some natural numbers one is the least.
LEMMA LeastNumber ==
    ASSUME NEW T, T \subseteq Nat, T # {}
    PROVE  \E n \in T : \A k \in T : n <= k
<1>1. PICK n \in T : \A k \in T : ~(<<k, n>> \in OpToRel(<, Nat))
  BY NatLessThanWellFounded, WFMin
<1>2. \A k \in T : ~(k < n)
  BY <1>1 DEF OpToRel
<1> QED
  BY <1>2

\* What holds at 0 and goes from each number to the next holds up to n.
LEMMA Upwards ==
    ASSUME NEW n \in Nat, NEW T, 0 \in T, \A i \in 1..n : i - 1 \in T => i \in T
    PROVE  \A i \in 0..n : i \in T
<1> DEFINE Bad == {i \in 0..n : i \notin T}
<1>1. SUFFICES ASSUME Bad # {} PROVE FALSE
  OBVIOUS
<1>2. PICK i \in Bad : \A j \in Bad : i <= j
  <2>1. Bad \subseteq Nat
    OBVIOUS
  <2> HIDE DEF Bad
  <2> QED
    BY <1>1, <2>1, LeastNumber
<1>3. i \in 1..n /\ i \notin T
  BY <1>2
<1>4. i - 1 \in 0..n /\ ~(i <= i - 1)
  BY <1>3
<1>5. i - 1 \notin Bad
  BY <1>2, <1>4
<1>6. i - 1 \in T
  BY <1>4, <1>5
<1> QED
  BY <1>3, <1>6

\* f begins with z and takes each value from the one before it.
Iterates(f, n, X, z, step) ==
    f \in [0..n -> X] /\ f[0] = z /\ \A i \in 1..n : f[i] = step[<<i, f[i - 1]>>]

\* Every step function can be iterated.
LEMMA IterationExists ==
    ASSUME NEW n \in Nat, NEW X, NEW z \in X, NEW step \in [(1..n) \X X -> X]
    PROVE  \E f : Iterates(f, n, X, z, step)
<1> DEFINE T == {k \in 0..n : \E f \in [0..k -> X] : f[0] = z /\ \A i \in 1..k : f[i] = step[<<i, f[i - 1]>>]}
<1>1. 0 \in T
  <2> DEFINE f == [i \in 0..0 |-> z]
  <2>1. f \in [0..0 -> X] /\ f[0] = z
    OBVIOUS
  <2> HIDE DEF f
  <2>2. \A i \in 1..0 : f[i] = step[<<i, f[i - 1]>>]
    OBVIOUS
  <2> QED
    BY <2>1, <2>2
<1>2. ASSUME NEW k \in 1..n, k - 1 \in T PROVE k \in T
  <2>1. PICK f \in [0..(k - 1) -> X] : f[0] = z /\ \A i \in 1..(k - 1) : f[i] = step[<<i, f[i - 1]>>]
    BY <1>2
  <2>2. step[<<k, f[k - 1]>>] \in X
    BY <2>1
  <2> DEFINE g == [i \in 0..k |-> IF i = k THEN step[<<k, f[k - 1]>>] ELSE f[i]]
  <2>3. g \in [0..k -> X]
    BY <2>1, <2>2
  <2>4. g[k] = step[<<k, f[k - 1]>>] /\ \A i \in 0..(k - 1) : g[i] = f[i]
    OBVIOUS
  <2> HIDE DEF g
  <2>5. ASSUME NEW i \in 1..k PROVE g[i] = step[<<i, g[i - 1]>>]
    <3>1. g[i - 1] = f[i - 1]
      BY <2>4
    <3>2. CASE i = k
      BY <2>4, <3>1, <3>2
    <3>3. CASE i # k
      BY <2>1, <2>4, <3>1, <3>3
    <3> QED
      BY <3>2, <3>3
  <2>6. g[0] = z
    BY <2>1, <2>4
  <2> QED
    BY <2>3, <2>5, <2>6
<1>3. n \in T
  <2> HIDE DEF T
  <2> QED
    BY <1>1, <1>2, Upwards
<1> QED
  BY <1>3 DEF Iterates

-----------------------------------------------------------------------------
(* The order in which the rows are placed *)

\* What a pass starts from and leaves: the rows placed, and the names that remain.
States == [ordered : Seq(FileRow), remaining : SUBSET Names]

LEMMA RowFields ==
    ASSUME NEW rows \in Seq(FileRow)
    PROVE  /\ Len(rows) \in Nat /\ DOMAIN rows = 1..Len(rows)
           /\ \A i \in 1..Len(rows) :
                rows[i] \in FileRow /\ rows[i].uniqueName \in Cells /\ rows[i].parentUniqueName \in Cells
           /\ SeenNames(rows) \subseteq Names /\ NoName \notin SeenNames(rows)
           /\ \A i \in 1..Len(rows) : rows[i].uniqueName # NoName => rows[i].uniqueName \in SeenNames(rows)
<1>1. Len(rows) \in Nat /\ DOMAIN rows = 1..Len(rows) /\ \A i \in 1..Len(rows) : rows[i] \in FileRow
  BY LenProperties, ElementOfSeq
<1>2. \A r \in FileRow : r.uniqueName \in Cells /\ r.parentUniqueName \in Cells
  BY DEF FileRow
<1> QED
  BY <1>1, <1>2 DEF SeenNames, Cells

LEMMA PlaceTyped ==
    ASSUME NEW state \in States, NEW r \in FileRow, NEW ids
    PROVE  Place(state, r, ids) \in States
<1>1. Append(state.ordered, r) \in Seq(FileRow)
  BY AppendProperties DEF States
<1> QED
  BY <1>1 DEF Place, States

\* The states of a pass, row by row.
PassStates(f, state, rows, ids) ==
    /\ f \in [0..Len(rows) -> States]
    /\ f[0] = state
    /\ \A i \in 1..Len(rows) : f[i] = Place(f[i - 1], rows[i], ids)

\* A pass is the iteration of Place over the rows.
LEMMA PassDefined ==
    ASSUME NEW rows \in Seq(FileRow), NEW state \in States, NEW ids
    PROVE  \E f : PassStates(f, state, rows, ids) /\ Pass(state, rows, ids) = f[Len(rows)]
<1> DEFINE n == Len(rows)
           Is(f) == f = [i \in 0..Len(rows) |-> IF i = 0 THEN state ELSE Place(f[i - 1], rows[i], ids)]
           after == CHOOSE f : Is(f)
           step == [p \in (1..n) \X States |-> Place(p[2], rows[p[1]], ids)]
<1>1. n \in Nat /\ \A i \in 1..n : rows[i] \in FileRow
  BY RowFields
<1>2. step \in [(1..n) \X States -> States]
  BY <1>1, PlaceTyped
<1>3. \A i \in 1..n, s \in States : step[<<i, s>>] = Place(s, rows[i], ids)
  OBVIOUS
<1>4. PICK f : Iterates(f, n, States, state, step)
  <2> HIDE DEF step
  <2> QED
    BY <1>1, <1>2, IterationExists
<1>5. f \in [0..n -> States] /\ f[0] = state /\ \A i \in 1..n : f[i] = Place(f[i - 1], rows[i], ids)
  <2> HIDE DEF step
  <2>1. f \in [0..n -> States] /\ f[0] = state /\ \A i \in 1..n : f[i] = step[<<i, f[i - 1]>>]
    BY <1>4 DEF Iterates
  <2>2. \A i \in 1..n : i - 1 \in 0..n
    BY <1>1
  <2> QED
    BY <1>3, <2>1, <2>2
<1>6. Is(f)
  <2> DEFINE g == [i \in 0..n |-> IF i = 0 THEN state ELSE Place(f[i - 1], rows[i], ids)]
  <2>1. \A i \in 0..n : f[i] = g[i]
    <3>1. \A i \in 0..n : i # 0 => i \in 1..n
      BY <1>1
    <3> QED
      BY <1>5, <3>1
  <2>2. f = g
    BY <1>5, <2>1
  <2> QED
    BY <2>2
<1>7. Is(after)
  BY <1>6
<1>8. Pass(state, rows, ids) = after[Len(rows)]
  BY DEF Pass
<1> HIDE DEF after
<1>9. after[0] = state /\ \A i \in 1..n : after[i] = Place(after[i - 1], rows[i], ids)
  <2>1. 0 \in 0..n /\ \A i \in 1..n : i \in 0..n /\ i # 0
    BY <1>1
  <2> QED
    BY <1>7, <2>1
<1>10. \A i \in 0..n : after[i] \in States
  <2> DEFINE T == {i \in 0..n : after[i] \in States}
  <2>1. 0 \in T
    BY <1>1, <1>9
  <2>2. ASSUME NEW i \in 1..n, i - 1 \in T PROVE i \in T
    BY <1>1, <1>9, <2>2, PlaceTyped
  <2>3. \A i \in 0..n : i \in T
    <3> HIDE DEF T
    <3> QED
      BY <1>1, <2>1, <2>2, Upwards
  <2> QED
    BY <2>3
<1>11. after \in [0..n -> States]
  BY <1>7, <1>10
<1> QED
  BY <1>8, <1>9, <1>11 DEF PassStates

-----------------------------------------------------------------------------
(* What a pass keeps *)

\* The states between the passes.
OrderStates(g, rows, ids) ==
    /\ g \in [0..Len(rows) -> States]
    /\ g[0] = [ordered |-> <<>>, remaining |-> SeenNames(rows)]
    /\ \A n \in 1..Len(rows) : g[n] = Pass(g[n - 1], rows, ids)

LEMMA PassTyped ==
    ASSUME NEW rows \in Seq(FileRow), NEW state \in States, NEW ids
    PROVE  Pass(state, rows, ids) \in States
<1>1. Len(rows) \in 0..Len(rows)
  BY RowFields
<1> QED
  BY <1>1, PassDefined DEF PassStates

\* The order is the iteration of Pass.
LEMMA OrderDefined ==
    ASSUME NEW rows \in Seq(FileRow), NEW ids
    PROVE  \E g : OrderStates(g, rows, ids) /\ OrderRows(rows, ids) = g[Len(rows)]
<1> DEFINE m == Len(rows)
           start == [ordered |-> <<>>, remaining |-> SeenNames(rows)]
           Is(f) == f = [n \in 0..Len(rows) |->
                           IF n = 0 THEN [ordered |-> <<>>, remaining |-> SeenNames(rows)]
                           ELSE Pass(f[n - 1], rows, ids)]
           pass == CHOOSE f : Is(f)
           step == [p \in (1..m) \X States |-> Pass(p[2], rows, ids)]
<1>0. start \in States
  BY RowFields, EmptySeq DEF States
<1>1. m \in Nat
  BY RowFields
<1>2. step \in [(1..m) \X States -> States]
  BY PassTyped
<1>3. \A n \in 1..m, s \in States : step[<<n, s>>] = Pass(s, rows, ids)
  OBVIOUS
<1> HIDE DEF start
<1>4. PICK f : Iterates(f, m, States, start, step)
  <2> HIDE DEF step
  <2> QED
    BY <1>0, <1>1, <1>2, IterationExists
<1>5. f \in [0..m -> States] /\ f[0] = start /\ \A n \in 1..m : f[n] = Pass(f[n - 1], rows, ids)
  <2> HIDE DEF step
  <2>1. f \in [0..m -> States] /\ f[0] = start /\ \A n \in 1..m : f[n] = step[<<n, f[n - 1]>>]
    BY <1>4 DEF Iterates
  <2>2. \A n \in 1..m : n - 1 \in 0..m
    BY <1>1
  <2> QED
    BY <1>3, <2>1, <2>2
<1>6. Is(f)
  <2> DEFINE g == [n \in 0..m |-> IF n = 0 THEN start ELSE Pass(f[n - 1], rows, ids)]
  <2>1. \A n \in 0..m : f[n] = g[n]
    <3>1. \A n \in 0..m : n # 0 => n \in 1..m
      BY <1>1
    <3> QED
      BY <1>5, <3>1
  <2>2. f = g
    BY <1>5, <2>1
  <2> QED
    BY <2>2 DEF start
<1>7. Is(pass)
  BY <1>6
<1>8. OrderRows(rows, ids) = pass[Len(rows)]
  BY DEF OrderRows
<1> HIDE DEF pass
<1>9. pass[0] = start /\ \A n \in 1..m : pass[n] = Pass(pass[n - 1], rows, ids)
  <2>1. 0 \in 0..m /\ \A n \in 1..m : n \in 0..m /\ n # 0
    BY <1>1
  <2> QED
    BY <1>7, <2>1 DEF start
<1>10. \A n \in 0..m : pass[n] \in States
  <2> DEFINE T == {n \in 0..m : pass[n] \in States}
  <2>1. 0 \in T
    BY <1>0, <1>1, <1>9
  <2>2. ASSUME NEW n \in 1..m, n - 1 \in T PROVE n \in T
    BY <1>1, <1>9, <2>2, PassTyped
  <2>3. \A n \in 0..m : n \in T
    <3> HIDE DEF T
    <3> QED
      BY <1>1, <2>1, <2>2, Upwards
  <2> QED
    BY <2>3
<1>11. pass \in [0..m -> States]
  BY <1>7, <1>10
<1> QED
  BY <1>8, <1>9, <1>11 DEF OrderStates, start

\* No row is without a name and no two have the same.
Named(rows) ==
    /\ \A i \in DOMAIN rows : rows[i].uniqueName # NoName
    /\ \A i, j \in DOMAIN rows : rows[i].uniqueName = rows[j].uniqueName => i = j

\* Nothing r waits for remains.
Ready(r, remaining, ids) ==
    r.parentUniqueName = NoName \/ ids[r.parentUniqueName] # NoId \/ r.parentUniqueName \notin remaining

Placed(state, r) == \E k \in 1..Len(state.ordered) : state.ordered[k] = r

\* Rows of the file, none twice, and none before the row it waits for.
InOrder(ordered, rows, ids) ==
    /\ \A j, k \in 1..Len(ordered) : ordered[j].uniqueName = ordered[k].uniqueName => j = k
    /\ \A k \in 1..Len(ordered) :
         /\ \E i \in 1..Len(rows) : ordered[k] = rows[i]
         /\ \/ ordered[k].parentUniqueName = NoName
            \/ ids[ordered[k].parentUniqueName] # NoId
            \/ ordered[k].parentUniqueName \notin SeenNames(rows)
            \/ \E j \in 1..(k - 1) : ordered[j].uniqueName = ordered[k].parentUniqueName

\* The invariant of the passes: each row of the file is placed or remains.
StateOK(state, rows, ids) ==
    /\ state \in States
    /\ InOrder(state.ordered, rows, ids)
    /\ state.remaining \subseteq SeenNames(rows)
    /\ \A i \in 1..Len(rows) : (rows[i].uniqueName \notin state.remaining) <=> Placed(state, rows[i])

LEMMA PlaceOK ==
    ASSUME NEW rows \in Seq(FileRow), Named(rows), NEW ids, NEW state, StateOK(state, rows, ids),
           NEW i \in 1..Len(rows)
    PROVE  StateOK(Place(state, rows[i], ids), rows, ids)
<1>0. /\ Len(rows) \in Nat /\ DOMAIN rows = 1..Len(rows) /\ rows[i] \in FileRow
      /\ \A j \in 1..Len(rows) : rows[j].uniqueName = rows[i].uniqueName => j = i
  BY RowFields DEF Named
<1>1. CASE ~(rows[i].uniqueName \in state.remaining /\ Ready(rows[i], state.remaining, ids))
  BY <1>1 DEF Place, Ready
<1>2. CASE rows[i].uniqueName \in state.remaining /\ Ready(rows[i], state.remaining, ids)
  <2> DEFINE r == rows[i]
             next == Append(state.ordered, r)
             m == Len(state.ordered)
             left == state.remaining \ {r.uniqueName}
  <2>1. Place(state, r, ids) = [ordered |-> next, remaining |-> left]
    BY <1>2 DEF Place, Ready
  <2>2. /\ state.ordered \in Seq(FileRow) /\ state.remaining \subseteq Names
        /\ m \in Nat
    BY LenProperties DEF StateOK, States
  <2>3. /\ next \in Seq(FileRow) /\ Len(next) = m + 1
        /\ next[m + 1] = r /\ \A k \in 1..m : next[k] = state.ordered[k]
    BY <1>0, <2>2, AppendProperties
  <2>4. \A k \in 1..(m + 1) : k \in 1..m \/ k = m + 1
    BY <2>2
  <2>5. [ordered |-> next, remaining |-> left] \in States
    BY <2>2, <2>3 DEF States
  <2>6. \A k \in 1..m : state.ordered[k].uniqueName # r.uniqueName
    <3> SUFFICES ASSUME NEW k \in 1..m, state.ordered[k].uniqueName = r.uniqueName PROVE FALSE
      OBVIOUS
    <3>1. PICK j \in 1..Len(rows) : state.ordered[k] = rows[j]
      BY DEF StateOK, InOrder
    <3>2. j = i
      BY <1>0, <3>1
    <3>3. Placed(state, rows[i])
      BY <3>1, <3>2 DEF Placed
    <3> QED
      BY <1>2, <3>3 DEF StateOK
  <2>7. \/ r.parentUniqueName = NoName
        \/ ids[r.parentUniqueName] # NoId
        \/ r.parentUniqueName \notin SeenNames(rows)
        \/ \E k \in 1..m : state.ordered[k].uniqueName = r.parentUniqueName
    <3> SUFFICES ASSUME r.parentUniqueName \notin state.remaining, r.parentUniqueName \in SeenNames(rows)
                 PROVE  \E k \in 1..m : state.ordered[k].uniqueName = r.parentUniqueName
      BY <1>2 DEF Ready
    <3>1. PICK j \in 1..Len(rows) : rows[j].uniqueName = r.parentUniqueName
      BY <1>0 DEF SeenNames
    <3>2. Placed(state, rows[j])
      BY <3>1 DEF StateOK
    <3> QED
      BY <3>1, <3>2 DEF Placed
  <2> HIDE DEF r, next, m, left
  <2>8. InOrder(next, rows, ids)
    <3>1. ASSUME NEW j \in 1..(m + 1), NEW k \in 1..(m + 1), next[j].uniqueName = next[k].uniqueName PROVE j = k
      <4>1. CASE j \in 1..m /\ k \in 1..m
        BY <2>3, <3>1, <4>1 DEF StateOK, InOrder, m
      <4>2. CASE j = m + 1 /\ k \in 1..m
        BY <2>3, <2>6, <3>1, <4>2
      <4>3. CASE k = m + 1 /\ j \in 1..m
        BY <2>3, <2>6, <3>1, <4>3
      <4> QED
        BY <2>4, <4>1, <4>2, <4>3
    <3>2. ASSUME NEW k \in 1..(m + 1)
          PROVE  /\ \E j \in 1..Len(rows) : next[k] = rows[j]
                 /\ \/ next[k].parentUniqueName = NoName
                    \/ ids[next[k].parentUniqueName] # NoId
                    \/ next[k].parentUniqueName \notin SeenNames(rows)
                    \/ \E j \in 1..(k - 1) : next[j].uniqueName = next[k].parentUniqueName
      <4>1. CASE k \in 1..m
        <5>1. next[k] = state.ordered[k] /\ \A j \in 1..(k - 1) : j \in 1..m /\ next[j] = state.ordered[j]
          BY <2>2, <2>3, <4>1
        <5> QED
          BY <4>1, <5>1 DEF StateOK, InOrder, m
      <4>2. CASE k = m + 1
        <5>1. next[k] = r /\ (k - 1) = m
          BY <2>2, <2>3, <4>2
        <5> QED
          BY <2>3, <2>7, <5>1 DEF r
      <4> QED
        BY <2>4, <4>1, <4>2
    <3> QED
      BY <2>3, <3>1, <3>2 DEF InOrder
  <2>9. left \subseteq SeenNames(rows)
    BY DEF StateOK, left
  <2>10. ASSUME NEW j \in 1..Len(rows)
         PROVE  (rows[j].uniqueName \notin left) <=> Placed([ordered |-> next, remaining |-> left], rows[j])
    <3>1. Placed([ordered |-> next, remaining |-> left], rows[j]) <=> \E k \in 1..(m + 1) : next[k] = rows[j]
      BY <2>3 DEF Placed
    <3>2. (\E k \in 1..(m + 1) : next[k] = rows[j]) <=> Placed(state, rows[j]) \/ rows[j] = r
      <4>1. m + 1 \in 1..(m + 1) /\ \A k \in 1..m : k \in 1..(m + 1)
        BY <2>2
      <4> QED
        BY <2>3, <2>4, <4>1 DEF Placed, m
    <3>3. rows[j].uniqueName \notin left <=> rows[j].uniqueName \notin state.remaining \/ rows[j].uniqueName = r.uniqueName
      BY DEF left
    <3>4. rows[j].uniqueName = r.uniqueName <=> rows[j] = r
      BY <1>0 DEF r
    <3>5. (rows[j].uniqueName \notin state.remaining) <=> Placed(state, rows[j])
      BY DEF StateOK
    <3> QED
      BY <3>1, <3>2, <3>3, <3>4, <3>5
  <2> QED
    BY <2>1, <2>5, <2>8, <2>9, <2>10 DEF StateOK, r
<1> QED
  BY <1>1, <1>2

-----------------------------------------------------------------------------
(* Rows that can be ranked are placed *)

\* A row is placed when its turn comes, if nothing it waits for remains.
LEMMA PlaceShrinks ==
    ASSUME NEW state \in States, NEW r, NEW ids
    PROVE  /\ Place(state, r, ids).remaining \subseteq state.remaining
           /\ Ready(r, state.remaining, ids) => r.uniqueName \notin Place(state, r, ids).remaining
  BY DEF Place, Ready, States

\* So does each pass, and it places every row that is ready when it begins.
LEMMA PassPlaces ==
    ASSUME NEW rows \in Seq(FileRow), Named(rows), NEW ids, NEW state, StateOK(state, rows, ids)
    PROVE  /\ StateOK(Pass(state, rows, ids), rows, ids)
           /\ \A i \in 1..Len(rows) :
                Ready(rows[i], state.remaining, ids) => rows[i].uniqueName \notin Pass(state, rows, ids).remaining
<1> DEFINE n == Len(rows)
<1>1. n \in Nat /\ state \in States
  BY RowFields DEF StateOK
<1>2. PICK f : PassStates(f, state, rows, ids) /\ Pass(state, rows, ids) = f[n]
  BY <1>1, PassDefined
<1>3. f \in [0..n -> States] /\ f[0] = state /\ \A i \in 1..n : f[i] = Place(f[i - 1], rows[i], ids)
  BY <1>2 DEF PassStates
<1>4. \A i \in 1..n : i \in 0..n /\ i - 1 \in 0..n
  BY <1>1
<1>5. \A i \in 0..n : StateOK(f[i], rows, ids)
  <2> DEFINE T == {i \in 0..n : StateOK(f[i], rows, ids)}
  <2>1. 0 \in T
    BY <1>1, <1>3
  <2>2. ASSUME NEW i \in 1..n, i - 1 \in T PROVE i \in T
    BY <1>3, <1>4, <2>2, PlaceOK
  <2>3. \A i \in 0..n : i \in T
    <3> HIDE DEF T
    <3> QED
      BY <1>1, <2>1, <2>2, Upwards
  <2> QED
    BY <2>3
<1>6. \A j \in 0..n : \A i \in 0..j : f[j].remaining \subseteq f[i].remaining
  <2> DEFINE T == {j \in 0..n : \A i \in 0..j : f[j].remaining \subseteq f[i].remaining}
  <2>1. 0 \in T
    BY <1>1
  <2>2. ASSUME NEW j \in 1..n, j - 1 \in T PROVE j \in T
    <3>1. f[j].remaining \subseteq f[j - 1].remaining
      BY <1>3, <1>4, PlaceShrinks
    <3>2. \A i \in 0..j : i = j \/ i \in 0..(j - 1)
      OBVIOUS
    <3> QED
      BY <1>4, <2>2, <3>1, <3>2
  <2>3. \A j \in 0..n : j \in T
    <3> HIDE DEF T
    <3> QED
      BY <1>1, <2>1, <2>2, Upwards
  <2> QED
    BY <2>3
<1>7. ASSUME NEW i \in 1..n, Ready(rows[i], state.remaining, ids)
      PROVE  rows[i].uniqueName \notin f[n].remaining
  <2>1. f[i - 1].remaining \subseteq state.remaining
    <3>1. 0 \in 0..(i - 1)
      BY <1>1
    <3> QED
      BY <1>3, <1>4, <1>6, <3>1
  <2>2. Ready(rows[i], f[i - 1].remaining, ids)
    BY <1>7, <2>1 DEF Ready
  <2>3. rows[i].uniqueName \notin f[i].remaining
    BY <1>3, <1>4, <2>2, PlaceShrinks
  <2>4. n \in 0..n /\ i \in 0..n
    BY <1>1
  <2> QED
    BY <1>6, <2>3, <2>4
<1>8. n \in 0..n
  BY <1>1
<1> QED
  BY <1>2, <1>5, <1>7, <1>8

LEMMA StartOK ==
    ASSUME NEW rows \in Seq(FileRow), Named(rows), NEW ids
    PROVE  StateOK([ordered |-> <<>>, remaining |-> SeenNames(rows)], rows, ids)
<1>1. /\ Len(rows) \in Nat /\ DOMAIN rows = 1..Len(rows) /\ SeenNames(rows) \subseteq Names
      /\ \A i \in 1..Len(rows) : rows[i].uniqueName \in SeenNames(rows)
  BY RowFields DEF Named
<1>2. <<>> \in Seq(FileRow) /\ Len(<<>>) = 0
  BY EmptySeq
<1> DEFINE s == [ordered |-> <<>>, remaining |-> SeenNames(rows)]
<1>3. s \in States /\ s.remaining = SeenNames(rows) /\ Len(s.ordered) = 0
  BY <1>1, <1>2 DEF States
<1> HIDE DEF s
<1>4. InOrder(s.ordered, rows, ids) /\ \A i \in 1..Len(rows) : ~Placed(s, rows[i])
  BY <1>3 DEF InOrder, Placed
<1>5. StateOK(s, rows, ids)
  BY <1>1, <1>3, <1>4 DEF StateOK
<1> QED
  BY <1>5 DEF s

LEMMA OrderPasses ==
    ASSUME NEW rows \in Seq(FileRow), Named(rows), NEW ids, NEW g, OrderStates(g, rows, ids)
    PROVE  \A p \in 0..Len(rows) : StateOK(g[p], rows, ids)
<1> DEFINE n == Len(rows)
           T == {p \in 0..n : StateOK(g[p], rows, ids)}
<1>1. n \in Nat
  BY RowFields
<1>2. /\ g[0] = [ordered |-> <<>>, remaining |-> SeenNames(rows)]
      /\ \A p \in 1..n : g[p] = Pass(g[p - 1], rows, ids)
  BY DEF OrderStates
<1>3. 0 \in T
  BY <1>1, <1>2, StartOK
<1>4. ASSUME NEW p \in 1..n, p - 1 \in T PROVE p \in T
  BY <1>1, <1>2, <1>4, PassPlaces
<1>5. \A p \in 0..n : p \in T
  <2> HIDE DEF T
  <2> QED
    BY <1>1, <1>3, <1>4, Upwards
<1> QED
  BY <1>5

\* Each row that waits for a row of the file has a higher rank than that row.
Ranked(rank, rows, ids) ==
    /\ rank \in [1..Len(rows) -> 1..Len(rows)]
    /\ \A i \in 1..Len(rows) :
         \/ rows[i].parentUniqueName = NoName
         \/ ids[rows[i].parentUniqueName] # NoId
         \/ \E j \in 1..Len(rows) : rows[j].uniqueName = rows[i].parentUniqueName /\ rank[j] < rank[i]

\* If the rows can be ranked with parents first, all of them are placed: those of rank p
\* within p passes.
LEMMA RankedArePlaced ==
    ASSUME NEW rows \in Seq(FileRow), Named(rows), NEW ids, NEW rank, Ranked(rank, rows, ids)
    PROVE  OrderRows(rows, ids).remaining = {}
<1> DEFINE n == Len(rows)
<1>1. n \in Nat /\ DOMAIN rows = 1..n
  BY RowFields
<1>2. PICK g : OrderStates(g, rows, ids) /\ OrderRows(rows, ids) = g[n]
  BY OrderDefined
<1>3. \A p \in 0..n : StateOK(g[p], rows, ids)
  BY <1>2, OrderPasses
<1>4. \A p \in 1..n : g[p] = Pass(g[p - 1], rows, ids)
  BY <1>2 DEF OrderStates
<1> DEFINE T == {p \in 0..n : \A i \in 1..n : rank[i] <= p => rows[i].uniqueName \notin g[p].remaining}
<1>5. rank \in [1..n -> 1..n]
  BY DEF Ranked
<1>6. 0 \in T
  BY <1>1, <1>5
<1>7. ASSUME NEW p \in 1..n, p - 1 \in T PROVE p \in T
  <2>1. p \in 0..n /\ p - 1 \in 0..n
    BY <1>1
  <2> SUFFICES ASSUME NEW i \in 1..n, rank[i] <= p PROVE rows[i].uniqueName \notin g[p].remaining
    BY <2>1
  <2>2. Ready(rows[i], g[p - 1].remaining, ids)
    <3>1. CASE \E j \in 1..n : rows[j].uniqueName = rows[i].parentUniqueName /\ rank[j] < rank[i]
      <4>1. PICK j \in 1..n : rows[j].uniqueName = rows[i].parentUniqueName /\ rank[j] < rank[i]
        BY <3>1
      <4>2. rank[j] <= p - 1
        BY <1>5, <4>1
      <4>3. rows[j].uniqueName \notin g[p - 1].remaining
        BY <1>7, <4>2
      <4> QED
        BY <4>1, <4>3 DEF Ready
    <3> QED
      BY <3>1 DEF Ranked, Ready
  <2> QED
    BY <1>3, <1>4, <2>1, <2>2, PassPlaces
<1>8. \A p \in 0..n : p \in T
  <2> HIDE DEF T
  <2> QED
    BY <1>1, <1>6, <1>7, Upwards
<1>9. n \in 0..n /\ \A i \in 1..n : rank[i] <= n
  BY <1>1, <1>5
<1>10. \A i \in 1..n : rows[i].uniqueName \notin g[n].remaining
  BY <1>8, <1>9
<1>11. g[n].remaining \subseteq SeenNames(rows)
  BY <1>3, <1>9 DEF StateOK
<1> QED
  BY <1>1, <1>2, <1>10, <1>11 DEF SeenNames

-----------------------------------------------------------------------------
(* What the validation finds *)

-----------------------------------------------------------------------------
(* What the validation finds *)

\* The rows placed are all rows, once each, if none remains.
LEMMA AllPlaced ==
    ASSUME NEW rows \in Seq(FileRow), Named(rows), NEW ids, OrderRows(rows, ids).remaining = {}
    PROVE  LET ordered == OrderRows(rows, ids).ordered IN
             /\ ordered \in Seq(FileRow) /\ Len(ordered) = Len(rows) /\ InOrder(ordered, rows, ids)
             /\ \A i \in 1..Len(rows) : \E k \in 1..Len(rows) : ordered[k] = rows[i]
<1> DEFINE n == Len(rows)
           ordered == OrderRows(rows, ids).ordered
           m == Len(ordered)
<1>1. n \in Nat /\ DOMAIN rows = 1..n /\ n \in 0..n
  BY RowFields
<1>2. StateOK(OrderRows(rows, ids), rows, ids)
  <2>1. PICK g : OrderStates(g, rows, ids) /\ OrderRows(rows, ids) = g[n]
    BY OrderDefined
  <2> QED
    BY <1>1, <2>1, OrderPasses
<1>3. ordered \in Seq(FileRow) /\ m \in Nat /\ InOrder(ordered, rows, ids)
  BY <1>2, LenProperties DEF StateOK, States
<1>4. \A i \in 1..n : \E k \in 1..m : ordered[k] = rows[i]
  BY <1>2 DEF StateOK, Placed
<1> HIDE DEF ordered, n, m
<1>5. \A k \in 1..m : \E i \in 1..n : ordered[k] = rows[i]
  BY <1>3 DEF InOrder, m, n
<1> DEFINE at == [k \in 1..m |-> CHOOSE i \in 1..n : ordered[k] = rows[i]]
<1>6. \A k \in 1..m : at[k] \in 1..n /\ ordered[k] = rows[at[k]]
  BY <1>5
<1>7. at \in Injection(1..m, 1..n)
  <2>1. \A j, k \in 1..m : at[j] = at[k] => j = k
    BY <1>3, <1>6 DEF InOrder, m
  <2>2. at \in [1..m -> 1..n]
    BY <1>6
  <2> HIDE DEF at
  <2> QED
    BY <2>1, <2>2 DEF Injection, IsInjective
<1>8. at \in Surjection(1..m, 1..n)
  <2>1. ASSUME NEW i \in 1..n PROVE \E k \in 1..m : at[k] = i
    <3>1. PICK k \in 1..m : ordered[k] = rows[i]
      BY <1>4
    <3>2. rows[at[k]] = rows[i] /\ at[k] \in 1..n
      BY <1>6, <3>1
    <3> QED
      BY <1>1, <3>2 DEF Named
  <2>2. at \in [1..m -> 1..n]
    BY <1>6
  <2> HIDE DEF at
  <2> QED
    BY <2>1, <2>2 DEF Surjection
<1>9. m = n
  <2> HIDE DEF at
  <2>1. /\ IsFiniteSet(1..m) /\ IsFiniteSet(1..n)
        /\ Cardinality(1..m) = m /\ Cardinality(1..n) = n
    BY <1>1, <1>3, FS_Interval
  <2>2. Cardinality(1..m) = Cardinality(1..n)
    BY <1>7, <1>8, <2>1, FS_Injection
  <2> QED
    BY <2>1, <2>2
<1> QED
  BY <1>3, <1>4, <1>9 DEF ordered, m, n

\* An error is found in the file, or in the model, before the rows are ordered.
Found(rows, taken, ids) ==
    {e \in (DOMAIN rows) \X Codes :
       FaultInFile(rows, e[1], e[2]) \/ FaultInModel(rows, e[1], e[2], taken, ids)}

\* Every row is sound by itself.
Sound(rows, taken, ids) ==
    /\ \A i \in 1..Len(rows) :
         /\ rows[i].uniqueName \notin taken \cup {NoName}
         /\ rows[i].parentUniqueName # rows[i].uniqueName
         /\ ~rows[i].faulty
         /\ \/ rows[i].parentUniqueName = NoName
            \/ ids[rows[i].parentUniqueName] # NoId
            \/ rows[i].parentUniqueName \in SeenNames(rows)
    /\ Named(rows)
    /\ \A i, j \in 1..Len(rows) : rows[i].uniqueName = rows[j].parentUniqueName => rows[i].type # "LEAF"

\* Nothing is found before the rows are ordered exactly when they are sound.
LEMMA FoundNothing ==
    ASSUME NEW rows \in Seq(FileRow), NEW taken, NEW ids
    PROVE  Found(rows, taken, ids) = {} <=> Sound(rows, taken, ids)
<1> DEFINE n == Len(rows)
           name(i) == rows[i].uniqueName
           parent(i) == rows[i].parentUniqueName
           Fault(i, code) == FaultInFile(rows, i, code) \/ FaultInModel(rows, i, code, taken, ids)
<1>1. n \in Nat /\ DOMAIN rows = 1..n
  BY RowFields
<1>2. Found(rows, taken, ids) = {} <=> \A i \in 1..n, code \in Codes : ~Fault(i, code)
  <2>1. \A e \in (1..n) \X Codes : e[1] \in 1..n /\ e[2] \in Codes /\ e = <<e[1], e[2]>>
    OBVIOUS
  <2>2. \A i \in 1..n, code \in Codes : <<i, code>> \in (1..n) \X Codes
    OBVIOUS
  <2>3. Found(rows, taken, ids) = {e \in (1..n) \X Codes : Fault(e[1], e[2])}
    BY <1>1 DEF Found
  <2> HIDE DEF Fault
  <2> QED
    BY <2>1, <2>2, <2>3
<1>3. ASSUME NEW i \in 1..n
      PROVE  (\A code \in Codes : ~Fault(i, code)) <=>
               /\ name(i) # NoName /\ ~(name(i) # NoName /\ \E j \in 1..(i - 1) : name(j) = name(i))
               /\ ~(name(i) # NoName /\ parent(i) = name(i))
               /\ ~(rows[i].type = "LEAF" /\ name(i) \in ParentNamesInFile(rows))
               /\ ~rows[i].faulty
               /\ ~(name(i) # NoName /\ name(i) \in taken)
               /\ ~(name(i) # NoName /\ parent(i) # NoName /\ ids[parent(i)] = NoId /\ parent(i) \notin SeenNames(rows))
  BY DEF FaultInFile, FaultInModel, FaultyCell, Codes
<1>4. (\A i, j \in 1..n : name(i) = name(j) => i = j) <=> \A i \in 1..n : ~ \E j \in 1..(i - 1) : name(j) = name(i)
  <2>1. ASSUME NEW i \in 1..n, NEW j \in 1..(i - 1) PROVE j \in 1..n /\ j # i
    BY <1>1
  <2>2. ASSUME NEW i \in 1..n, NEW j \in 1..n, i # j PROVE i \in 1..(j - 1) \/ j \in 1..(i - 1)
    BY <1>1, <2>2
  <2> HIDE DEF name
  <2> QED
    BY <2>1, <2>2
<1>5. ParentNamesInFile(rows) = {parent(j) : j \in 1..n} \ {NoName}
  BY <1>1 DEF ParentNamesInFile
<1>6. Named(rows) <=> (\A i \in 1..n : name(i) # NoName) /\ \A i, j \in 1..n : name(i) = name(j) => i = j
  BY <1>1 DEF Named
<1> QED
  BY <1>2, <1>3, <1>4, <1>5, <1>6 DEF Sound

\* Nothing is found at all exactly when, besides, no row remains.
LEMMA NoErrors ==
    ASSUME NEW rows \in Seq(FileRow), NEW taken, NEW ids
    PROVE  /\ Errors(rows, taken, ids) \subseteq (1..Len(rows)) \X Codes
           /\ Errors(rows, taken, ids) = {} <=>
                Sound(rows, taken, ids) /\ OrderRows(rows, ids).remaining = {}
<1> DEFINE found == Found(rows, taken, ids)
           left == OrderRows(rows, ids).remaining
           cyclic == {e \in (DOMAIN rows) \X {"CYCLIC_PARENT"} : rows[e[1]].uniqueName \in left}
<1>1. Len(rows) \in Nat /\ DOMAIN rows = 1..Len(rows)
  BY RowFields
<1>2. Errors(rows, taken, ids) = IF found # {} THEN found ELSE cyclic
  BY DEF Errors, Found
<1>3. found \subseteq (1..Len(rows)) \X Codes /\ cyclic \subseteq (1..Len(rows)) \X Codes
  BY <1>1 DEF Found, Codes
<1>4. ASSUME Sound(rows, taken, ids) PROVE cyclic = {} <=> left = {}
  <2>1. Named(rows)
    BY <1>4 DEF Sound
  <2>2. left \subseteq SeenNames(rows)
    <3>1. PICK g : OrderStates(g, rows, ids) /\ OrderRows(rows, ids) = g[Len(rows)]
      BY OrderDefined
    <3> QED
      BY <1>1, <2>1, <3>1, OrderPasses DEF StateOK
  <2>3. ASSUME cyclic = {} PROVE left = {}
    <3> SUFFICES ASSUME NEW x \in left PROVE FALSE
      OBVIOUS
    <3>1. PICK i \in 1..Len(rows) : rows[i].uniqueName = x
      BY <1>1, <2>2 DEF SeenNames
    <3>2. <<i, "CYCLIC_PARENT">> \in cyclic
      BY <1>1, <3>1
    <3> QED
      BY <2>3, <3>2
  <2> QED
    BY <2>3
<1> HIDE DEF found, left, cyclic
<1>5. found = {} <=> Sound(rows, taken, ids)
  BY FoundNothing DEF found
<1> QED
  BY <1>2, <1>3, <1>4, <1>5 DEF left

-----------------------------------------------------------------------------
(* The validation is exact *)

\* The ranks of the reference and the places of the order, each taken from the other.
LEMMA ImportableExactly ==
    ASSUME NEW rows \in Seq(FileRow), NEW taken, NEW ids
    PROVE  Importable(rows, taken, ids) <=> Errors(rows, taken, ids) = {}
<1> DEFINE n == Len(rows)
           name(i) == rows[i].uniqueName
           parent(i) == rows[i].parentUniqueName
<1>1. n \in Nat /\ DOMAIN rows = 1..n /\ \A i \in 1..n : name(i) # NoName => name(i) \in SeenNames(rows)
  BY RowFields
<1>2. SeenNames(rows) = {name(i) : i \in 1..n} \ {NoName}
  BY <1>1 DEF SeenNames
<1>3. Importable(rows, taken, ids) <=>
        /\ \A i \in 1..n : name(i) \notin taken \cup {NoName} /\ parent(i) # name(i) /\ ~rows[i].faulty
        /\ \A i, j \in 1..n : name(i) = name(j) => i = j
        /\ \A i, j \in 1..n : name(i) = parent(j) => rows[i].type # "LEAF"
        /\ \E rank \in [1..n -> 1..n] : Ranked(rank, rows, ids)
  BY <1>1 DEF Importable, Ranked
<1>4. ASSUME Importable(rows, taken, ids) PROVE Errors(rows, taken, ids) = {}
  <2>1. Named(rows)
    BY <1>1, <1>3, <1>4 DEF Named
  <2>2. PICK rank \in [1..n -> 1..n] : Ranked(rank, rows, ids)
    BY <1>3, <1>4
  <2>3. \A i \in 1..n : parent(i) = NoName \/ ids[parent(i)] # NoId \/ parent(i) \in SeenNames(rows)
    <3> SUFFICES ASSUME NEW i \in 1..n, NEW j \in 1..n, name(j) = parent(i), parent(i) # NoName
                 PROVE  parent(i) \in SeenNames(rows)
      BY <2>2 DEF Ranked
    <3> QED
      BY <1>1
  <2>4. Sound(rows, taken, ids)
    BY <1>3, <1>4, <2>1, <2>3 DEF Sound
  <2>5. OrderRows(rows, ids).remaining = {}
    BY <2>1, <2>2, RankedArePlaced
  <2> QED
    BY <2>4, <2>5, NoErrors
<1>5. ASSUME Errors(rows, taken, ids) = {} PROVE Importable(rows, taken, ids)
  <2>1. Sound(rows, taken, ids) /\ Named(rows) /\ OrderRows(rows, ids).remaining = {}
    BY <1>5, NoErrors DEF Sound
  <2>2. PICK ordered :
          /\ ordered \in Seq(FileRow) /\ Len(ordered) = n /\ InOrder(ordered, rows, ids)
          /\ \A i \in 1..n : \E k \in 1..n : ordered[k] = rows[i]
    BY <2>1, AllPlaced
  <2> DEFINE rank == [i \in 1..n |-> CHOOSE k \in 1..n : ordered[k] = rows[i]]
  <2>3. \A i \in 1..n : rank[i] \in 1..n /\ ordered[rank[i]] = rows[i]
    BY <2>2
  <2>4. rank \in [1..n -> 1..n]
    BY <2>3
  <2> HIDE DEF rank
  <2>7. \A k \in 1..n :
          /\ \E j \in 1..n : ordered[k] = rows[j]
          /\ \/ ordered[k].parentUniqueName = NoName
             \/ ids[ordered[k].parentUniqueName] # NoId
             \/ ordered[k].parentUniqueName \notin SeenNames(rows)
             \/ \E j \in 1..(k - 1) : ordered[j].uniqueName = ordered[k].parentUniqueName
    BY <2>2 DEF InOrder
  <2>8. \A j, k \in 1..n : ordered[j].uniqueName = ordered[k].uniqueName => j = k
    BY <2>2 DEF InOrder
  <2> HIDE DEF n
  <2>5. ASSUME NEW i \in 1..n, parent(i) # NoName, ids[parent(i)] = NoId
        PROVE  \E j \in 1..n : name(j) = parent(i) /\ rank[j] < rank[i]
    <3>1. parent(i) \in SeenNames(rows)
      BY <2>1, <2>5 DEF Sound, n
    <3>2. PICK l \in 1..(rank[i] - 1) : ordered[l].uniqueName = parent(i)
      <4>1. ordered[rank[i]].parentUniqueName = parent(i)
        BY <2>3
      <4>2. rank[i] \in 1..n
        BY <2>3
      <4> QED
        BY <2>5, <2>7, <3>1, <4>1, <4>2
    <3>3. l \in 1..n /\ l < rank[i]
      BY <1>1, <2>3, <3>2
    <3>4. PICK j \in 1..n : ordered[l] = rows[j]
      BY <2>7, <3>3
    <3>5. rank[j] = l
      <4>1. rank[j] \in 1..n /\ ordered[rank[j]] = ordered[l]
        BY <2>3, <3>4
      <4> QED
        BY <2>8, <3>3, <4>1
    <3> QED
      BY <3>2, <3>3, <3>4, <3>5
  <2>6. Ranked(rank, rows, ids)
    BY <1>1, <2>4, <2>5 DEF Ranked, n
  <2> QED
    BY <1>1, <1>3, <2>1, <2>4, <2>6 DEF Sound, Named, n
<1> QED
  BY <1>4, <1>5

LEMMA OrderedParentsFirst ==
    ASSUME NEW rows \in Seq(FileRow), NEW taken, NEW ids, Errors(rows, taken, ids) = {}
    PROVE  ParentsFirst(rows, OrderRows(rows, ids).ordered, ids)
<1> DEFINE n == Len(rows)
           ordered == OrderRows(rows, ids).ordered
<1>1. Named(rows) /\ OrderRows(rows, ids).remaining = {}
  BY NoErrors DEF Sound
<1>2. n \in Nat /\ DOMAIN rows = 1..n /\ \A i \in 1..n : rows[i].uniqueName \in SeenNames(rows) \ {NoName}
  BY <1>1, RowFields DEF Named
<1>3. /\ ordered \in Seq(FileRow) /\ Len(ordered) = n /\ InOrder(ordered, rows, ids)
      /\ \A i \in 1..n : \E k \in 1..n : ordered[k] = rows[i]
  BY <1>1, AllPlaced
<1> HIDE DEF ordered
<1>4. DOMAIN ordered = 1..n
  BY <1>3, LenProperties
<1>7. /\ \A j, k \in 1..n : ordered[j].uniqueName = ordered[k].uniqueName => j = k
      /\ \A k \in 1..n : \E j \in 1..n : ordered[k] = rows[j]
  BY <1>3 DEF InOrder
<1>8. \A k \in 1..n :
          \/ ordered[k].parentUniqueName = NoName
          \/ ids[ordered[k].parentUniqueName] # NoId
          \/ ordered[k].parentUniqueName \notin SeenNames(rows)
          \/ \E j \in 1..(k - 1) : ordered[j].uniqueName = ordered[k].parentUniqueName
  BY <1>3 DEF InOrder
<1> HIDE DEF n
<1>5. Range(ordered) = Range(rows)
  <2>1. Range(ordered) = {ordered[k] : k \in 1..n} /\ Range(rows) = {rows[k] : k \in 1..n}
    BY <1>2, <1>4 DEF Range
  <2>2. \A k \in 1..n : \E i \in 1..n : rows[k] = ordered[i]
    BY <1>3 DEF n
  <2>3. \A k \in 1..n : \E i \in 1..n : ordered[k] = rows[i]
    BY <1>7
  <2>4. {ordered[k] : k \in 1..n} = {rows[k] : k \in 1..n}
    <3>1. \A x : x \in {ordered[k] : k \in 1..n} => x \in {rows[k] : k \in 1..n}
      BY <2>3
    <3>2. \A x : x \in {rows[k] : k \in 1..n} => x \in {ordered[k] : k \in 1..n}
      BY <2>2
    <3> QED
      BY <3>1, <3>2, Zenon
  <2> QED
    BY <2>1, <2>4
<1>6. ASSUME NEW i \in 1..n, NEW j \in 1..n, ordered[i].uniqueName = ordered[j].parentUniqueName
      PROVE  i < j \/ ids[ordered[i].uniqueName] # NoId
  <2>1. ordered[i].uniqueName \in SeenNames(rows) \ {NoName}
    BY <1>2, <1>7
  <2>2. ids[ordered[i].uniqueName] # NoId \/ \E k \in 1..(j - 1) : ordered[k].uniqueName = ordered[i].uniqueName
    BY <1>6, <1>8, <2>1
  <2>3. \A k \in 1..(j - 1) : k \in 1..n /\ k < j
    BY <1>2
  <2>4. \A k \in 1..n : ordered[k].uniqueName = ordered[i].uniqueName => k = i
    BY <1>7
  <2> QED
    BY <2>2, <2>3, <2>4
<1> QED
  BY <1>3, <1>4, <1>5, <1>6 DEF ParentsFirst, ordered, n

\* The rows at fault are counted; none is ready twice.
LEMMA ReadyRows ==
    ASSUME NEW rows \in Seq(FileRow), NEW errors, errors \subseteq (1..Len(rows)) \X Codes
    PROVE  /\ ReadyCount(rows, errors) \in Nat
           /\ ReadyCount(rows, errors) = Len(rows) <=> errors = {}
<1> DEFINE n == Len(rows)
           S == {e[1] : e \in errors}
<1>1. n \in Nat /\ S \subseteq 1..n /\ (S = {} <=> errors = {})
  BY RowFields
<1>2. ReadyCount(rows, errors) = n - Cardinality(S)
  BY Zenon DEF ReadyCount, InvalidRows
<1> HIDE DEF S, n
<1>3. IsFiniteSet(1..n) /\ Cardinality(1..n) = n
  <2>1. n \in Int /\ 1 \in Int
    BY <1>1
  <2>2. IsFiniteSet(1..n) /\ Cardinality(1..n) = IF 1 > n THEN 0 ELSE n - 1 + 1
    BY <2>1, FS_Interval, Zenon
  <2> QED
    BY <1>1, <2>2
<1>4. IsFiniteSet(S) /\ Cardinality(S) <= n
  BY <1>1, <1>3, FS_Subset
<1>5. Cardinality(S) \in Nat /\ (Cardinality(S) = 0 <=> S = {})
  BY <1>4, FS_CardinalityType, FS_EmptySet
<1>6. n - Cardinality(S) \in Nat /\ (n - Cardinality(S) = n <=> Cardinality(S) = 0)
  BY <1>1, <1>4, <1>5
<1> QED
  BY <1>1, <1>2, <1>5, <1>6 DEF n

LEMMA ExactAlways ==
    ASSUME NEW rows \in Seq(FileRow), NEW taken, NEW ids
    PROVE  Exact(rows, taken, ids)
<1>1. LET errors == Errors(rows, taken, ids)
      IN  /\ ReadyCount(rows, errors) \in Nat
          /\ ReadyCount(rows, errors) = Len(rows) <=> errors = {}
  BY NoErrors, ReadyRows
<1>2. ReadyCount(rows, Errors(rows, taken, ids)) >= 0
  BY <1>1
<1> QED
  BY <1>1, <1>2, ImportableExactly, OrderedParentsFirst DEF Exact

\* Leaving out blank lines leaves rows.
LEMMA ParsedTyped ==
    ASSUME NEW lines \in Seq(FileRow)
    PROVE  ParsedRows(lines) \in Seq(FileRow)
<1> DEFINE n == Len(lines)
           X == Seq(FileRow)
           Next1(s, i) == IF Blank(lines[i]) THEN s ELSE Append(s, lines[i])
           Is(f) == f = [i \in 0..Len(lines) |->
                           IF i = 0 THEN <<>>
                           ELSE IF Blank(lines[i]) THEN f[i - 1] ELSE Append(f[i - 1], lines[i])]
           rows == CHOOSE f : Is(f)
           step == [p \in (1..n) \X X |-> IF Blank(lines[p[1]]) THEN p[2] ELSE Append(p[2], lines[p[1]])]
<1>1. n \in Nat /\ (\A i \in 1..n : lines[i] \in FileRow) /\ <<>> \in X
  BY RowFields, EmptySeq
<1>2. \A s \in X, i \in 1..n : Next1(s, i) \in X
  BY <1>1, AppendProperties
<1>3. step \in [(1..n) \X X -> X] /\ \A i \in 1..n, s \in X : step[<<i, s>>] = Next1(s, i)
  <2> HIDE DEF X
  <2>1. \A p \in (1..n) \X X : p[1] \in 1..n /\ p[2] \in X
    OBVIOUS
  <2>2. \A p \in (1..n) \X X : step[p] = Next1(p[2], p[1])
    OBVIOUS
  <2>3. \A p \in (1..n) \X X : step[p] \in X
    BY <1>2, <2>1, <2>2
  <2>4. DOMAIN step = (1..n) \X X
    OBVIOUS
  <2>5. \A i \in 1..n, s \in X : <<i, s>> \in (1..n) \X X /\ <<i, s>>[1] = i /\ <<i, s>>[2] = s
    OBVIOUS
  <2>6. step = [p \in (1..n) \X X |-> step[p]]
    OBVIOUS
  <2> HIDE DEF step
  <2> QED
    BY <2>2, <2>3, <2>4, <2>5, <2>6
<1>4. PICK f : Iterates(f, n, X, <<>>, step)
  <2> HIDE DEF step, X
  <2> QED
    BY <1>1, <1>3, IterationExists
<1>5. f \in [0..n -> X] /\ f[0] = <<>> /\ \A i \in 1..n : f[i] = Next1(f[i - 1], i)
  <2> HIDE DEF step, X, Next1
  <2>1. f \in [0..n -> X] /\ f[0] = <<>> /\ \A i \in 1..n : f[i] = step[<<i, f[i - 1]>>]
    BY <1>4 DEF Iterates
  <2>2. \A i \in 1..n : i - 1 \in 0..n
    BY <1>1
  <2> QED
    BY <1>3, <2>1, <2>2
<1>6. Is(f)
  <2> DEFINE g == [i \in 0..n |-> IF i = 0 THEN <<>>
                                  ELSE IF Blank(lines[i]) THEN f[i - 1] ELSE Append(f[i - 1], lines[i])]
  <2>1. \A i \in 0..n : f[i] = g[i]
    <3>1. \A i \in 0..n : i # 0 => i \in 1..n
      BY <1>1
    <3> QED
      BY <1>5, <3>1
  <2>2. f = g
    BY <1>5, <2>1
  <2> QED
    BY <2>2
<1>7. Is(rows)
  BY <1>6
<1>8. ParsedRows(lines) = rows[Len(lines)]
  BY DEF ParsedRows
<1> HIDE DEF rows
<1>9. rows[0] = <<>> /\ \A i \in 1..n : rows[i] = Next1(rows[i - 1], i)
  <2>1. 0 \in 0..n /\ \A i \in 1..n : i \in 0..n /\ i # 0
    BY <1>1
  <2> QED
    BY <1>7, <2>1
<1>10. \A i \in 0..n : rows[i] \in X
  <2> DEFINE T == {i \in 0..n : rows[i] \in X}
  <2> HIDE DEF X, Next1
  <2>1. 0 \in T
    BY <1>1, <1>9
  <2>2. ASSUME NEW i \in 1..n, i - 1 \in T PROVE i \in T
    BY <1>1, <1>2, <1>9, <2>2
  <2>3. \A i \in 0..n : i \in T
    <3> HIDE DEF T
    <3> QED
      BY <1>1, <2>1, <2>2, Upwards
  <2> QED
    BY <2>3
<1>11. n \in 0..n
  BY <1>1
<1> QED
  BY <1>8, <1>10, <1>11

-----------------------------------------------------------------------------
(* The requests *)

\* The request that Finish leaves.
Finished(h, answer, errors) ==
    [Idle EXCEPT !.pc = "done", !.commit = request[h].commit, !.content = request[h].content,
                 !.answer = answer, !.errors = errors]

LEMMA NothingWritten == <<>> \in UNION {[made -> Row] : made \in SUBSET Ids} /\ DOMAIN <<>> = {}
<1>1. DOMAIN <<>> = {}
  OBVIOUS
<1>2. <<>> \in [{} -> Row]
  OBVIOUS
<1> QED
  BY <1>1, <1>2

LEMMA IdleTyped ==
    /\ Idle \in Requests
    /\ Idle.pc = "idle" /\ Idle.content = NoContent /\ Idle.rest = <<>> /\ Idle.rows = <<>>
    /\ Idle.answer = "none" /\ Idle.errors = {}
<1>1. NoIds \in [Names -> Ids \cup {NoId}] /\ <<>> \in Seq(FileRow)
  BY EmptySeq DEF NoIds
<1> QED
  BY <1>1, NothingWritten DEF Idle, Requests, Answers

LEMMA FinishedTyped ==
    ASSUME ServerTypeOK, NEW h \in Handlers, NEW answer \in Answers, NEW errors \in SUBSET (Nat \X Codes)
    PROVE  /\ Finished(h, answer, errors) \in Requests
           /\ Finished(h, answer, errors).pc = "done"
           /\ Finished(h, answer, errors).content = request[h].content
           /\ Finished(h, answer, errors).answer = answer
           /\ Finished(h, answer, errors).errors = errors
           /\ Finished(h, answer, errors).rows = <<>>
<1>1. request[h] \in Requests
  BY DEF ServerTypeOK
<1>2. request[h].commit \in BOOLEAN /\ request[h].content \in Contents \cup {NoContent}
  BY <1>1 DEF Requests
<1> QED
  BY <1>2, IdleTyped DEF Finished, Requests, Idle

\* A step that gives one handler a new request.
LEMMA OneHandler ==
    ASSUME ServerTypeOK, NEW h \in Handlers, NEW r \in Requests, request' = [request EXCEPT ![h] = r]
    PROVE  /\ request' \in [Handlers -> Requests]
           /\ request'[h] = r
           /\ \A g \in Handlers \ {h} : request'[g] = request[g]
BY DEF ServerTypeOK

LEMMA ReceiveTyped ==
    ASSUME ServerTypeOK, NEW h \in Handlers, NEW b \in BOOLEAN, NEW c \in Contents \cup {NoContent}, Receive(h, b, c)
    PROVE  /\ request' \in [Handlers -> Requests]
           /\ request'[h].pc = "parsing" /\ request'[h].content = c
           /\ request'[h].answer = "none" /\ request'[h].errors = {} /\ request'[h].rows = <<>>
           /\ \A g \in Handlers \ {h} : request'[g] = request[g]
<1> DEFINE r == [Idle EXCEPT !.pc = "parsing", !.commit = b, !.content = c]
<1>1. request' = [request EXCEPT ![h] = r]
  BY DEF Receive, ServerTypeOK
<1>2. r \in Requests /\ r.pc = "parsing" /\ r.content = c /\ r.answer = "none" /\ r.errors = {} /\ r.rows = <<>>
  BY IdleTyped DEF Requests, Idle
<1> HIDE DEF r
<1> QED
  BY <1>1, <1>2, OneHandler

LEMMA ReadConflictsTyped ==
    ASSUME ServerTypeOK, NEW h \in Handlers, ReadConflicts(h)
    PROVE  /\ request' \in [Handlers -> Requests]
           /\ request'[h].pc = "reading" /\ request'[h].content = request[h].content
           /\ request'[h].answer = request[h].answer /\ request'[h].errors = request[h].errors
           /\ request'[h].rows = request[h].rows
           /\ \A g \in Handlers \ {h} : request'[g] = request[g]
<1> DEFINE t == SeenNames(RowsOf(h)) \cap NamesInUse
           r == [request[h] EXCEPT !.pc = "reading", !.taken = t]
<1>1. request' = [request EXCEPT ![h] = r]
  BY DEF ReadConflicts, ServerTypeOK
<1>2. t \in SUBSET Names
  BY DEF NamesInUse, Live, ServerTypeOK, Row
<1>3. request[h] \in Requests
  BY DEF ServerTypeOK
<1> HIDE DEF t
<1>4. /\ r \in Requests /\ r.pc = "reading" /\ r.content = request[h].content
      /\ r.answer = request[h].answer /\ r.errors = request[h].errors /\ r.rows = request[h].rows
  BY <1>2, <1>3 DEF Requests
<1> HIDE DEF r
<1> QED
  BY <1>1, <1>4, OneHandler

LEMMA FileTyped ==
    ASSUME NEW h, request[h].content \in Contents
    PROVE  RowsOf(h) \in Seq(FileRow)
<1>1. request[h].content.rows \in Seq(FileRow)
  BY ContentsAssumption DEF Content
<1> QED
  BY <1>1, ParsedTyped DEF RowsOf

LEMMA MainIdsTyped ==
    ASSUME ServerTypeOK
    PROVE  /\ MainIds \in [Names -> Ids \cup {NoId}]
           /\ \A n \in Names : MainIds[n] # NoId => Main(MainIds[n])
<1> DEFINE bears(i, n) == Main(i) /\ capability[i].uniqueName = n
<1>1. \A n \in Names : MainIds[n] = IF \E i \in Ids : bears(i, n) THEN CHOOSE i \in Ids : bears(i, n) ELSE NoId
  BY DEF MainIds
<1>2. ASSUME NEW n \in Names
      PROVE  MainIds[n] \in Ids \cup {NoId} /\ (MainIds[n] # NoId => Main(MainIds[n]))
  <2> HIDE DEF bears
  <2>1. CASE \E i \in Ids : bears(i, n)
    <3>1. MainIds[n] \in Ids /\ bears(MainIds[n], n)
      BY <1>1, <2>1
    <3> QED
      BY <3>1 DEF bears
  <2>2. CASE ~\E i \in Ids : bears(i, n)
    BY <1>1, <2>2
  <2> QED
    BY <2>1, <2>2
<1>3. MainIds = [n \in Names |-> MainIds[n]]
  BY DEF MainIds
<1> QED
  BY <1>2, <1>3

LEMMA FinishTyped ==
    ASSUME ServerTypeOK, NEW h \in Handlers, NEW answer \in Answers, NEW errors \in SUBSET (Nat \X Codes),
           Finish(h, answer, errors)
    PROVE  /\ request' \in [Handlers -> Requests]
           /\ request'[h] = Finished(h, answer, errors)
           /\ \A g \in Handlers \ {h} : request'[g] = request[g]
<1>1. request' = [request EXCEPT ![h] = Finished(h, answer, errors)]
  BY DEF Finish, Finished
<1> QED
  BY <1>1, FinishedTyped, OneHandler

\* The names and parents of the file, as the import read them.
IdsRead(h) == [n \in Names |-> IF n \in ReferencedNames(RowsOf(h)) THEN MainIds[n] ELSE NoId]

LEMMA StartsWriting ==
    ASSUME ServerTypeOK, NEW h \in Handlers, request[h].content \in Contents, ReadMainIds(h),
           request[h].commit, Errors(RowsOf(h), request[h].taken, MainIds) = {}
    PROVE  /\ request' \in [Handlers -> Requests]
           /\ request'[h].pc = "writing" /\ request'[h].content = request[h].content
           /\ request'[h].answer = request[h].answer /\ request'[h].errors = request[h].errors
           /\ request'[h].rows = request[h].rows
           /\ request'[h].ids = IdsRead(h)
           /\ request'[h].rest = OrderRows(RowsOf(h), MainIds).ordered
           /\ \A g \in Handlers \ {h} : request'[g] = request[g]
           /\ capability' = capability
<1> DEFINE ordered == OrderRows(RowsOf(h), MainIds).ordered
           ids == IdsRead(h)
           r == [request[h] EXCEPT !.pc = "writing", !.taken = {}, !.ids = ids, !.rest = ordered]
<1>1. request' = [request EXCEPT ![h] = r] /\ capability' = capability
  BY DEF ReadMainIds, ServerTypeOK, IdsRead
<1>2. ids \in [Names -> Ids \cup {NoId}]
  BY MainIdsTyped DEF IdsRead
<1>3. ordered \in Seq(FileRow)
  <2>1. RowsOf(h) \in Seq(FileRow)
    BY FileTyped
  <2>2. Named(RowsOf(h)) /\ OrderRows(RowsOf(h), MainIds).remaining = {}
    BY <2>1, NoErrors DEF Sound
  <2> QED
    BY <2>1, <2>2, AllPlaced
<1>4. request[h] \in Requests
  BY DEF ServerTypeOK
<1> HIDE DEF ordered, ids
<1>5. /\ r \in Requests /\ r.pc = "writing" /\ r.content = request[h].content
      /\ r.answer = request[h].answer /\ r.errors = request[h].errors /\ r.rows = request[h].rows
      /\ r.ids = ids /\ r.rest = ordered
  BY <1>2, <1>3, <1>4 DEF Requests
<1> HIDE DEF r
<1> QED
  BY <1>1, <1>5, OneHandler DEF ordered, ids

LEMMA ReadMainIdsEnds ==
    ASSUME ServerTypeOK, NEW h \in Handlers, request[h].content \in Contents, ReadMainIds(h),
           ~(request[h].commit /\ Errors(RowsOf(h), request[h].taken, MainIds) = {})
    PROVE  \E answer \in {"invalid", "validated"}, errors \in SUBSET ((1..Len(RowsOf(h))) \X Codes) :
             /\ errors \in SUBSET (Nat \X Codes)
             /\ Finish(h, answer, errors)
             /\ capability' = capability
<1> DEFINE errors == Errors(RowsOf(h), request[h].taken, MainIds)
           answer == IF request[h].commit THEN "invalid" ELSE "validated"
<1>1. Finish(h, answer, errors) /\ capability' = capability
  BY DEF ReadMainIds
<1>2. RowsOf(h) \in Seq(FileRow)
  BY FileTyped
<1>3. errors \in SUBSET ((1..Len(RowsOf(h))) \X Codes)
  BY <1>2, NoErrors
<1>4. Len(RowsOf(h)) \in Nat
  BY <1>2, RowFields
<1> HIDE DEF errors
<1>5. errors \in SUBSET (Nat \X Codes)
  BY <1>3, <1>4
<1>6. answer \in {"invalid", "validated"}
  OBVIOUS
<1> HIDE DEF answer
<1> QED
  BY <1>1, <1>3, <1>5, <1>6

-----------------------------------------------------------------------------
(* What each handler works on *)

\* What a request holds in each state it can be in.
RequestOK(h) ==
    /\ request[h].pc # "done" => request[h].answer = "none"
    /\ request[h].pc \in {"reading", "writing"} \/ request[h].answer \in {"validated", "invalid", "created"}
         => request[h].content \in Contents
    /\ request[h].errors = {} \/ request[h].errors \subseteq (1..Len(RowsOf(h))) \X Codes
    /\ request[h].pc # "writing" => request[h].rows = <<>>

\* The ids of rows not committed are in use by nobody else.
IdsApart ==
    /\ \A h \in Handlers : \A i \in Uncommitted(h) : i \in Ids /\ capability[i] = Unborn
    /\ \A g, h \in Handlers : g # h => Uncommitted(g) \cap Uncommitted(h) = {}

\* A row written for the row r of the file is where the file wants it.
BelowParent(h, i, r) ==
    LET p == r.parentUniqueName
        id == request[h].rows[i].parentId
    IN  /\ r.uniqueName = request[h].rows[i].uniqueName
        /\ IF p = NoName THEN id = NoId
           ELSE \/ id \in Uncommitted(h) /\ request[h].rows[id].uniqueName = p
                \/ id \in Ids /\ id = request[h].ids[p] /\ Main(id)

\* The parent of r is read, written, or comes before the k-th of the rows to write.
ParentKnown(h, k, r) ==
    LET p == r.parentUniqueName
    IN  \/ p = NoName
        \/ request[h].ids[p] # NoId
        \/ p \in NamesWritten(h)
        \/ \E j \in 1..(k - 1) : request[h].rest[j].uniqueName = p

\* The rows of the file are those written and those still to write.
WritingOK(h) ==
    LET file == RowsOf(h)
        rest == request[h].rest
    IN  /\ Named(file)
        /\ \A n \in Names : request[h].ids[n] # NoId => capability[request[h].ids[n]] # Unborn
        /\ \A k \in 1..Len(rest) : (\E i \in 1..Len(file) : rest[k] = file[i]) /\ ParentKnown(h, k, rest[k])
        /\ \A i \in 1..Len(file) :
             file[i].uniqueName \in NamesWritten(h) \/ \E k \in 1..Len(rest) : rest[k] = file[i]
        /\ IsFiniteSet(Uncommitted(h))
        /\ Cardinality(Uncommitted(h)) + Len(rest) = Len(file)
        /\ \A i \in Uncommitted(h) : \E j \in 1..Len(file) : BelowParent(h, i, file[j])

\* The inductive invariant of the server.
ServerInv ==
    /\ ServerTypeOK
    /\ IdsApart
    /\ \A h \in Handlers : RequestOK(h) /\ (request[h].pc = "writing" => WritingOK(h))

\* What the others may do to the table while a handler is at work.
Spared(h) ==
    /\ request'[h] = request[h]
    /\ \A i \in Ids : capability[i] # Unborn => capability'[i] # Unborn
    /\ \A i \in Ids : Main(i) /\ i \in {request[h].rows[j].parentId : j \in Uncommitted(h)} => Main(i)'

LEMMA RowTyped ==
    ASSUME ServerTypeOK, NEW h \in Handlers, NEW i \in Uncommitted(h)
    PROVE  i \in Ids /\ request[h].rows[i] \in Row /\ request[h].rows \in [Uncommitted(h) -> Row]
<1>1. request[h].rows \in UNION {[made -> Row] : made \in SUBSET Ids}
  BY DEF ServerTypeOK, Requests
<1>2. PICK made \in SUBSET Ids : request[h].rows \in [made -> Row]
  BY <1>1
<1> QED
  BY <1>2 DEF Uncommitted

\* What a handler holds survives what the others may do.
LEMMA SparedOK ==
    ASSUME ServerTypeOK, NEW h \in Handlers, Spared(h), RequestOK(h), request[h].pc = "writing" => WritingOK(h)
    PROVE  RequestOK(h)' /\ (request'[h].pc = "writing" => WritingOK(h)')
<1>1. RowsOf(h)' = RowsOf(h) /\ Uncommitted(h)' = Uncommitted(h) /\ NamesWritten(h)' = NamesWritten(h)
  BY DEF Spared, RowsOf, Uncommitted, NamesWritten
<1>2. RequestOK(h)'
  BY <1>1 DEF RequestOK, Spared
<1>3. ASSUME request[h].pc = "writing" PROVE WritingOK(h)'
  <2>1. WritingOK(h)
    BY <1>3
  <2>2. Named(RowsOf(h))'
    BY <1>1, <2>1 DEF WritingOK, Named
  <2>3. \A n \in Names : request'[h].ids[n] # NoId => capability'[request'[h].ids[n]] # Unborn
    <3>1. request[h].ids \in [Names -> Ids \cup {NoId}]
      BY DEF ServerTypeOK, Requests
    <3> QED
      BY <2>1, <3>1 DEF WritingOK, Spared
  <2>4. ASSUME NEW k \in 1..Len(request[h].rest)
        PROVE  /\ \E i \in 1..Len(RowsOf(h)) : request[h].rest[k] = RowsOf(h)[i]
               /\ ParentKnown(h, k, request[h].rest[k])'
    <3>1. request'[h] = request[h]
      BY DEF Spared
    <3>2. (\E i \in 1..Len(RowsOf(h)) : request[h].rest[k] = RowsOf(h)[i]) /\ ParentKnown(h, k, request[h].rest[k])
      BY <2>1 DEF WritingOK
    <3> QED
      BY <1>1, <3>1, <3>2 DEF ParentKnown
  <2>5. ASSUME NEW i \in Uncommitted(h) PROVE \E j \in 1..Len(RowsOf(h)) : BelowParent(h, i, RowsOf(h)[j])'
    <3>1. PICK j \in 1..Len(RowsOf(h)) : BelowParent(h, i, RowsOf(h)[j])
      BY <2>1 DEF WritingOK
    <3>2. \A x \in Ids : Main(x) /\ x = request[h].rows[i].parentId => Main(x)'
      BY DEF Spared
    <3>3. request'[h] = request[h]
      BY DEF Spared
    <3>4. BelowParent(h, i, RowsOf(h)[j])'
      BY <1>1, <3>1, <3>2, <3>3 DEF BelowParent
    <3> QED
      BY <3>4
  <2> QED
    BY <1>1, <2>1, <2>2, <2>3, <2>4, <2>5 DEF WritingOK, Spared
<1> QED
  BY <1>2, <1>3 DEF Spared

-----------------------------------------------------------------------------
(* The steps of the server *)

\* A step of one handler that leaves the table alone.
LEMMA OneWorks ==
    ASSUME ServerInv, NEW h \in Handlers, capability' = capability,
           request' \in [Handlers -> Requests],
           \A g \in Handlers \ {h} : request'[g] = request[g],
           \A i \in Uncommitted(h)' : i \in Uncommitted(h) \/ i \in Unused,
           RequestOK(h)', request'[h].pc = "writing" => WritingOK(h)'
    PROVE  ServerInv'
<1>1. ServerTypeOK'
  BY DEF ServerInv, ServerTypeOK
<1>2. \A g \in Handlers \ {h} : Uncommitted(g)' = Uncommitted(g)
  BY DEF Uncommitted
<1>3. \A i \in Unused : i \in Ids /\ capability[i] = Unborn /\ \A g \in Handlers : i \notin Uncommitted(g)
  BY DEF Unused
<1>4. IdsApart'
  <2>1. ASSUME NEW g \in Handlers, NEW i \in Uncommitted(g)' PROVE i \in Ids /\ capability[i] = Unborn
    <3>1. CASE g = h
      BY <1>3, <2>1, <3>1 DEF ServerInv, IdsApart
    <3>2. CASE g # h
      BY <1>2, <2>1, <3>2 DEF ServerInv, IdsApart
    <3> QED
      BY <3>1, <3>2
  <2>2. ASSUME NEW g \in Handlers, g # h, NEW i, i \in Uncommitted(g)', i \in Uncommitted(h)' PROVE FALSE
    BY <1>2, <1>3, <2>2 DEF ServerInv, IdsApart
  <2>3. ASSUME NEW g \in Handlers, NEW f \in Handlers, g # f, g # h, f # h, NEW i, i \in Uncommitted(g)', i \in Uncommitted(f)'
        PROVE  FALSE
    BY <1>2, <2>3 DEF ServerInv, IdsApart
  <2>4. ASSUME NEW g \in Handlers, NEW f \in Handlers, g # f PROVE Uncommitted(g)' \cap Uncommitted(f)' = {}
    BY <2>2, <2>3, <2>4
  <2> QED
    BY <2>1, <2>4 DEF IdsApart
<1>5. ASSUME NEW g \in Handlers, g # h PROVE RequestOK(g)' /\ (request'[g].pc = "writing" => WritingOK(g)')
  <2>1. Spared(g)
    BY <1>5 DEF Spared, Main, Live
  <2> QED
    BY <1>5, <2>1, SparedOK DEF ServerInv
<1> QED
  BY <1>1, <1>4, <1>5 DEF ServerInv

LEMMA ReceiveKeeps ==
    ASSUME ServerInv, NEW h \in Handlers, NEW b \in BOOLEAN, NEW c \in Contents \cup {NoContent}, Receive(h, b, c)
    PROVE  ServerInv'
<1>1. /\ request' \in [Handlers -> Requests]
      /\ request'[h].pc = "parsing" /\ request'[h].content = c
      /\ request'[h].answer = "none" /\ request'[h].errors = {} /\ request'[h].rows = <<>>
      /\ \A g \in Handlers \ {h} : request'[g] = request[g]
  BY ReceiveTyped DEF ServerInv
<1>2. capability' = capability
  BY DEF Receive
<1>3. Uncommitted(h)' = {}
  BY <1>1, NothingWritten DEF Uncommitted
<1>4. RequestOK(h)'
  BY <1>1 DEF RequestOK
<1> QED
  BY <1>1, <1>2, <1>3, <1>4, OneWorks

LEMMA ReadConflictsKeeps ==
    ASSUME ServerInv, NEW h \in Handlers, ReadConflicts(h)
    PROVE  ServerInv'
<1>1. /\ request' \in [Handlers -> Requests]
      /\ request'[h].pc = "reading" /\ request'[h].content = request[h].content
      /\ request'[h].answer = request[h].answer /\ request'[h].errors = request[h].errors
      /\ request'[h].rows = request[h].rows
      /\ \A g \in Handlers \ {h} : request'[g] = request[g]
  BY ReadConflictsTyped DEF ServerInv
<1>2. capability' = capability /\ request[h].pc = "parsing" /\ request[h].content # NoContent
  BY DEF ReadConflicts
<1>3. Uncommitted(h)' = Uncommitted(h) /\ RowsOf(h)' = RowsOf(h)
  BY <1>1 DEF Uncommitted, RowsOf
<1>4. RequestOK(h)'
  <2>1. RequestOK(h)
    BY DEF ServerInv
  <2>2. request[h].content \in Contents
    BY <1>2 DEF ServerInv, ServerTypeOK, Requests
  <2> QED
    BY <1>1, <1>2, <1>3, <2>1, <2>2 DEF RequestOK
<1> QED
  BY <1>1, <1>2, <1>3, <1>4, OneWorks

LEMMA FinishKeeps ==
    ASSUME ServerInv, NEW h \in Handlers, NEW answer \in Answers, NEW errors \in SUBSET (Nat \X Codes),
           Finish(h, answer, errors), capability' = capability,
           answer \in {"validated", "invalid", "created"} => request[h].content \in Contents,
           errors = {} \/ errors \subseteq (1..Len(RowsOf(h))) \X Codes
    PROVE  ServerInv'
<1>1. /\ request' \in [Handlers -> Requests] /\ request'[h] = Finished(h, answer, errors)
      /\ \A g \in Handlers \ {h} : request'[g] = request[g]
  BY FinishTyped DEF ServerInv
<1>2. /\ request'[h].pc = "done" /\ request'[h].content = request[h].content
      /\ request'[h].answer = answer /\ request'[h].errors = errors /\ request'[h].rows = <<>>
  BY <1>1, FinishedTyped DEF ServerInv
<1>3. Uncommitted(h)' = {} /\ RowsOf(h)' = RowsOf(h)
  BY <1>2, NothingWritten DEF Uncommitted, RowsOf
<1>4. RequestOK(h)'
  BY <1>2, <1>3 DEF RequestOK
<1> QED
  BY <1>1, <1>2, <1>3, <1>4, OneWorks

\* A handler is free again.
LEMMA IdleKeeps ==
    ASSUME ServerInv, NEW h \in Handlers, request' = [request EXCEPT ![h] = Idle], capability' = capability
    PROVE  ServerInv'
<1>1. /\ request' \in [Handlers -> Requests] /\ request'[h] = Idle
      /\ \A g \in Handlers \ {h} : request'[g] = request[g]
  BY IdleTyped, OneHandler DEF ServerInv
<1>2. Uncommitted(h)' = {}
  BY <1>1, IdleTyped, NothingWritten DEF Uncommitted
<1>3. RequestOK(h)'
  BY <1>1, IdleTyped DEF RequestOK
<1> QED
  BY <1>1, <1>2, <1>3, IdleTyped, OneWorks

\* What the reads say is what the transaction starts from.
LEMMA WritingStarts ==
    ASSUME ServerInv, NEW h \in Handlers, request[h].content \in Contents, request[h].rows = <<>>,
           Errors(RowsOf(h), request[h].taken, MainIds) = {},
           capability' = capability,
           request'[h].content = request[h].content, request'[h].rows = <<>>,
           request'[h].ids = IdsRead(h),
           request'[h].rest = OrderRows(RowsOf(h), MainIds).ordered
    PROVE  WritingOK(h)'
<1> DEFINE file == RowsOf(h)
           n == Len(file)
           rest == OrderRows(file, MainIds).ordered
           ids == IdsRead(h)
<1>1. file \in Seq(FileRow)
  BY FileTyped
<1>2. Named(file) /\ OrderRows(file, MainIds).remaining = {} /\ Sound(file, request[h].taken, MainIds)
  BY <1>1, NoErrors DEF Sound
<1>3. /\ rest \in Seq(FileRow) /\ Len(rest) = n /\ InOrder(rest, file, MainIds)
      /\ \A i \in 1..n : \E k \in 1..n : rest[k] = file[i]
  BY <1>1, <1>2, AllPlaced
<1>4. RowsOf(h)' = file /\ Uncommitted(h)' = {} /\ NamesWritten(h)' = {}
  BY NothingWritten DEF RowsOf, Uncommitted, NamesWritten
<1>5. /\ n \in Nat /\ DOMAIN file = 1..n
      /\ \A i \in 1..n : file[i] \in FileRow /\ file[i].uniqueName # NoName
  BY <1>1, <1>2, RowFields DEF Named
<1> HIDE DEF rest
<1>6. \A k \in 1..n : \E i \in 1..n : rest[k] = file[i]
  BY <1>3 DEF InOrder
<1>7. \A i \in 1..n :
         \/ file[i].parentUniqueName = NoName
         \/ MainIds[file[i].parentUniqueName] # NoId
         \/ file[i].parentUniqueName \in SeenNames(file)
  BY <1>2 DEF Sound
<1>8. \A k \in 1..n :
         \/ rest[k].parentUniqueName = NoName
         \/ MainIds[rest[k].parentUniqueName] # NoId
         \/ rest[k].parentUniqueName \notin SeenNames(file)
         \/ \E j \in 1..(k - 1) : rest[j].uniqueName = rest[k].parentUniqueName
  BY <1>3 DEF InOrder
<1>9. \A i \in 1..n : file[i].parentUniqueName # NoName =>
         /\ file[i].parentUniqueName \in Names
         /\ ids[file[i].parentUniqueName] = MainIds[file[i].parentUniqueName]
  <2> SUFFICES ASSUME NEW i \in 1..n, file[i].parentUniqueName # NoName
               PROVE  /\ file[i].parentUniqueName \in Names
                      /\ ids[file[i].parentUniqueName] = MainIds[file[i].parentUniqueName]
    OBVIOUS
  <2>1. file[i].parentUniqueName \in ReferencedNames(file)
    BY <1>5 DEF ReferencedNames
  <2>2. file[i].parentUniqueName \in Names
    BY <1>5 DEF FileRow, Cells
  <2> QED
    BY <2>1, <2>2 DEF IdsRead
<1>10. \A m \in Names : ids[m] # NoId => capability[ids[m]] # Unborn
  <2> SUFFICES ASSUME NEW m \in Names, ids[m] # NoId PROVE capability[ids[m]] # Unborn
    OBVIOUS
  <2>1. ids[m] = MainIds[m]
    BY DEF IdsRead
  <2>2. Main(ids[m])
    BY <2>1, MainIdsTyped DEF ServerInv
  <2> QED
    BY <2>2 DEF Main, Live
<1> HIDE DEF file, n, ids
<1>11. ASSUME NEW k \in 1..n
       PROVE  \/ rest[k].parentUniqueName = NoName
              \/ ids[rest[k].parentUniqueName] # NoId
              \/ \E j \in 1..(k - 1) : rest[j].uniqueName = rest[k].parentUniqueName
  <2>1. PICK i \in 1..n : rest[k] = file[i]
    BY <1>6
  <2> DEFINE p == file[i].parentUniqueName
  <2>2. \/ p = NoName
        \/ MainIds[p] # NoId
        \/ \E j \in 1..(k - 1) : rest[j].uniqueName = p
    BY <1>7, <1>8, <2>1
  <2>3. p # NoName => ids[p] = MainIds[p]
    BY <1>9
  <2> QED
    BY <2>1, <2>2, <2>3
<1>12. request'[h].ids = ids /\ request'[h].rest = rest
  BY DEF ids, rest, file
<1>13. Cardinality({}) = 0 /\ IsFiniteSet({})
  BY FS_EmptySet
<1>14. Cardinality({}) + Len(rest) = n
  BY <1>3, <1>5, <1>13
<1>15. \A i \in 1..n : \E k \in 1..Len(rest) : rest[k] = file[i]
  BY <1>3
<1>16. n = Len(file) /\ Len(rest) = n
  BY <1>3 DEF n
<1>17. ASSUME NEW k \in 1..Len(request'[h].rest)
       PROVE  /\ \E i \in 1..n : request'[h].rest[k] = file[i]
              /\ ParentKnown(h, k, request[h].rest[k])'
  BY <1>3, <1>6, <1>11, <1>12 DEF ParentKnown
<1>18. \A m \in Names : request'[h].ids[m] # NoId => capability'[request'[h].ids[m]] # Unborn
  BY <1>10, <1>12
<1>19. Named(file)'
  BY <1>2, <1>4 DEF Named, file
<1>20. file' = file /\ n' = n /\ IsFiniteSet(Uncommitted(h)') /\ Cardinality(Uncommitted(h)') + Len(request'[h].rest) = n
  BY <1>4, <1>12, <1>13, <1>14 DEF file, n
<1> QED
  BY <1>4, <1>12, <1>15, <1>16, <1>17, <1>18, <1>19, <1>20 DEF WritingOK, file, n

LEMMA ReadMainIdsKeeps ==
    ASSUME ServerInv, NEW h \in Handlers, ReadMainIds(h)
    PROVE  ServerInv'
<1>1. request[h].pc = "reading"
  BY DEF ReadMainIds
<1>2. RequestOK(h) /\ request[h].content \in Contents /\ request[h].rows = <<>>
  BY <1>1 DEF ServerInv, RequestOK
<1>3. CASE request[h].commit /\ Errors(RowsOf(h), request[h].taken, MainIds) = {}
  <2>1. /\ request' \in [Handlers -> Requests]
        /\ request'[h].pc = "writing" /\ request'[h].content = request[h].content
        /\ request'[h].answer = request[h].answer /\ request'[h].errors = request[h].errors
        /\ request'[h].rows = request[h].rows
        /\ request'[h].ids = IdsRead(h)
        /\ request'[h].rest = OrderRows(RowsOf(h), MainIds).ordered
        /\ \A g \in Handlers \ {h} : request'[g] = request[g]
        /\ capability' = capability
    BY <1>2, <1>3, StartsWriting DEF ServerInv
  <2>2. WritingOK(h)'
    BY <1>2, <1>3, <2>1, WritingStarts
  <2>3. Uncommitted(h)' = Uncommitted(h) /\ RowsOf(h)' = RowsOf(h)
    BY <2>1 DEF Uncommitted, RowsOf
  <2>4. RequestOK(h)'
    BY <1>1, <1>2, <2>1, <2>3 DEF RequestOK
  <2> QED
    BY <2>1, <2>2, <2>3, <2>4, OneWorks
<1>4. CASE ~(request[h].commit /\ Errors(RowsOf(h), request[h].taken, MainIds) = {})
  <2>1. PICK answer \in {"invalid", "validated"}, errors \in SUBSET ((1..Len(RowsOf(h))) \X Codes) :
             /\ errors \in SUBSET (Nat \X Codes)
             /\ Finish(h, answer, errors)
             /\ capability' = capability
    BY <1>2, <1>4, ReadMainIdsEnds DEF ServerInv
  <2>2. answer \in Answers
    BY DEF Answers
  <2> QED
    BY <1>2, <2>1, <2>2, FinishKeeps
<1> QED
  BY <1>3, <1>4

\* What CreateRow makes of the request.
LEMMA CreateRowTyped ==
    ASSUME ServerInv, NEW h \in Handlers, CreateRow(h)
    PROVE  /\ request[h].pc = "writing" /\ WritingOK(h) /\ RequestOK(h)
           /\ request[h].rest # <<>> /\ Head(request[h].rest) \in FileRow
           /\ Head(request[h].rest).uniqueName \in Names
           /\ Creatable(h, Head(request[h].rest))
           /\ capability' = capability
           /\ request' \in [Handlers -> Requests]
           /\ request'[h].pc = "writing" /\ request'[h].content = request[h].content
           /\ request'[h].answer = request[h].answer /\ request'[h].errors = request[h].errors
           /\ request'[h].ids = request[h].ids
           /\ request'[h].rest = Tail(request[h].rest)
           /\ \E i \in Unused :
                /\ Uncommitted(h)' = {i} \cup Uncommitted(h)
                /\ request'[h].rows[i] = NewRow(h, Head(request[h].rest))
                /\ \A j \in Uncommitted(h) : request'[h].rows[j] = request[h].rows[j]
           /\ \A g \in Handlers \ {h} : request'[g] = request[g]
<1> DEFINE q == request[h]
           first == Head(q.rest)
<1>1. q \in Requests /\ q.pc = "writing" /\ q.rest # <<>> /\ Creatable(h, first) /\ capability' = capability
  BY DEF ServerInv, ServerTypeOK, CreateRow
<1>2. WritingOK(h) /\ RequestOK(h) /\ q.content \in Contents
  BY <1>1 DEF ServerInv, RequestOK
<1>3. q.rest \in Seq(FileRow)
  BY <1>1 DEF Requests
<1>4. /\ Len(q.rest) \in Nat /\ 1 \in 1..Len(q.rest) /\ first = q.rest[1] /\ first \in FileRow
      /\ Tail(q.rest) \in Seq(FileRow)
  BY <1>1, <1>3, LenProperties, HeadTailProperties, EmptySeq
<1>5. RowsOf(h) \in Seq(FileRow)
  BY <1>2, FileTyped
<1>6. first.uniqueName \in Names
  <2>1. PICK j \in 1..Len(RowsOf(h)) : first = RowsOf(h)[j]
    BY <1>2, <1>4 DEF WritingOK
  <2>2. RowsOf(h)[j].uniqueName # NoName
    BY <1>2, <1>5, RowFields DEF WritingOK, Named
  <2> QED
    BY <1>4, <2>1, <2>2 DEF FileRow, Cells
<1>7. PICK i \in Unused :
         request' = [request EXCEPT
                ![h].rows = [j \in {i} \cup DOMAIN @ |-> IF j = i THEN NewRow(h, first) ELSE @[j]],
                ![h].rest = Tail(@)]
  BY DEF CreateRow, NextId
<1>8. i \in Ids /\ i \notin Uncommitted(h)
  BY DEF Unused
<1>9. ParentId(h, first) \in Ids \cup {NoId}
  <2>1. q.ids \in [Names -> Ids \cup {NoId}] /\ first.parentUniqueName \in Names \cup {NoName}
    BY <1>1, <1>4 DEF Requests, FileRow, Cells
  <2>2. Uncommitted(h) \subseteq Ids
    BY DEF ServerInv, IdsApart
  <2> QED
    BY <2>1, <2>2 DEF ParentId
<1>10. ResolvedType(first, RowsOf(h)) \in CapabilityType
  BY <1>4 DEF ResolvedType, FileRow, CapabilityType
<1>11. NewRow(h, first) \in Row
  BY <1>6, <1>9, <1>10 DEF NewRow, Row
<1> DEFINE rows == [j \in {i} \cup Uncommitted(h) |-> IF j = i THEN NewRow(h, first) ELSE q.rows[j]]
           r == [q EXCEPT !.rows = rows, !.rest = Tail(q.rest)]
<1>12. request' = [request EXCEPT ![h] = r]
  BY <1>7 DEF ServerInv, ServerTypeOK, Uncommitted
<1>13. Uncommitted(h) \subseteq Ids /\ \A j \in Uncommitted(h) : q.rows[j] \in Row
  BY RowTyped DEF ServerInv
<1>14. /\ rows \in UNION {[made -> Row] : made \in SUBSET Ids} /\ DOMAIN rows = {i} \cup Uncommitted(h)
       /\ rows[i] = NewRow(h, first) /\ \A j \in Uncommitted(h) : rows[j] = q.rows[j]
  <2> DEFINE made == {i} \cup Uncommitted(h)
  <2>1. made \in SUBSET Ids
    BY <1>8, <1>13
  <2>2. rows \in [made -> Row]
    BY <1>11, <1>13
  <2>3. DOMAIN rows = made /\ rows[i] = NewRow(h, first) /\ \A j \in Uncommitted(h) : rows[j] = q.rows[j]
    BY <1>8
  <2> HIDE DEF made, rows
  <2>4. rows \in UNION {[s -> Row] : s \in SUBSET Ids}
    BY <2>1, <2>2
  <2> QED
    BY <2>3, <2>4 DEF made
<1> HIDE DEF rows
<1>15. /\ r \in Requests /\ r.pc = q.pc /\ r.content = q.content /\ r.answer = q.answer /\ r.errors = q.errors
       /\ r.ids = q.ids /\ r.rest = Tail(q.rest) /\ r.rows = rows
  BY <1>1, <1>4, <1>14 DEF Requests
<1> HIDE DEF r
<1>16. /\ request' \in [Handlers -> Requests] /\ request'[h] = r
       /\ \A g \in Handlers \ {h} : request'[g] = request[g]
  BY <1>12, <1>15, OneHandler DEF ServerInv
<1>17. Uncommitted(h)' = {i} \cup Uncommitted(h)
  BY <1>14, <1>15, <1>16 DEF Uncommitted
<1> QED
  BY <1>1, <1>2, <1>4, <1>6, <1>14, <1>15, <1>16, <1>17

\* The new row is where the file wants it: its parent is never lost on the way.
LEMMA NewRowPlaced ==
    ASSUME ServerInv, NEW h \in Handlers, WritingOK(h), Creatable(h, Head(request[h].rest)),
           NEW r \in FileRow, r = Head(request[h].rest), ParentKnown(h, 1, r)
    PROVE  LET p == r.parentUniqueName
               id == NewRow(h, r).parentId
           IN  IF p = NoName THEN id = NoId
               ELSE \/ id \in Uncommitted(h) /\ request[h].rows[id].uniqueName = p
                    \/ id \in Ids /\ id = request[h].ids[p] /\ Main(id)
<1> DEFINE p == r.parentUniqueName
           id == NewRow(h, r).parentId
           made == {i \in Uncommitted(h) : request[h].rows[i].uniqueName = p}
<1>1. id = IF p = NoName THEN NoId ELSE IF made # {} THEN CHOOSE i \in made : TRUE ELSE request[h].ids[p]
  BY DEF NewRow, ParentId
<1>2. CASE p = NoName
  BY <1>1, <1>2
<1>3. CASE p # NoName /\ made # {}
  <2>1. id \in made
    BY <1>1, <1>3
  <2> QED
    BY <1>3, <2>1
<1>4. CASE p # NoName /\ made = {}
  <2>1. p \notin NamesWritten(h)
    BY <1>4 DEF NamesWritten
  <2>2. request[h].ids[p] # NoId
    <3>1. ~\E j \in 1..(1 - 1) : TRUE
      OBVIOUS
    <3> QED
      BY <1>4, <2>1, <3>1 DEF ParentKnown
  <2>3. id = request[h].ids[p] /\ p \in Names
    BY <1>1, <1>4 DEF FileRow, Cells
  <2>4. request[h].ids \in [Names -> Ids \cup {NoId}]
    BY DEF ServerInv, ServerTypeOK, Requests
  <2>5. id \in Ids /\ capability[id] # Unborn
    BY <2>2, <2>3, <2>4 DEF WritingOK
  <2>6. id \notin Uncommitted(h)
    BY <2>5 DEF ServerInv, IdsApart
  <2>7. ParentId(h, r) = id
    BY DEF NewRow
  <2>8. id # NoId
    BY <2>2, <2>3
  <2>9. Main(id)
    BY <2>6, <2>7, <2>8 DEF Creatable
  <2> QED
    BY <1>4, <2>3, <2>5, <2>9
<1> QED
  BY <1>2, <1>3, <1>4

LEMMA CreateRowKeeps ==
    ASSUME ServerInv, NEW h \in Handlers, CreateRow(h)
    PROVE  ServerInv'
<1> DEFINE q == request[h]
           rest == q.rest
           r == Head(rest)
           file == RowsOf(h)
           n == Len(file)
           m == Len(rest)
<1>1. /\ q.pc = "writing" /\ WritingOK(h) /\ RequestOK(h) /\ rest # <<>>
      /\ r \in FileRow /\ r.uniqueName \in Names /\ Creatable(h, r)
  BY CreateRowTyped
<1>2. /\ capability' = capability /\ request' \in [Handlers -> Requests]
      /\ request'[h].pc = "writing" /\ request'[h].content = q.content
      /\ request'[h].answer = q.answer /\ request'[h].errors = q.errors
      /\ request'[h].ids = q.ids /\ request'[h].rest = Tail(rest)
      /\ \A g \in Handlers \ {h} : request'[g] = request[g]
  BY CreateRowTyped
<1>3. PICK i \in Unused :
        /\ Uncommitted(h)' = {i} \cup Uncommitted(h)
        /\ request'[h].rows[i] = NewRow(h, r)
        /\ \A j \in Uncommitted(h) : request'[h].rows[j] = q.rows[j]
  BY CreateRowTyped
<1>4. i \in Ids /\ i \notin Uncommitted(h) /\ capability[i] = Unborn
  BY DEF Unused
<1>5. RowsOf(h)' = file
  BY <1>2 DEF RowsOf
<1>6. q.content \in Contents /\ file \in Seq(FileRow) /\ n \in Nat /\ DOMAIN file = 1..n
  BY <1>1, FileTyped, RowFields DEF RequestOK
<1>7. /\ m \in Nat /\ m # 0 /\ r = rest[1]
      /\ Len(Tail(rest)) = m - 1 /\ \A k \in 1..(m - 1) : Tail(rest)[k] = rest[k + 1]
  <2>1. rest \in Seq(FileRow)
    BY DEF ServerInv, ServerTypeOK, Requests
  <2>2. Len(rest) \in Nat /\ Len(rest) # 0
    BY <1>1, <2>1, LenProperties, EmptySeq
  <2>3. r = rest[1] /\ Len(Tail(rest)) = m - 1
    BY <1>1, <2>1, <2>2, HeadTailProperties
  <2>4. \A k \in 1..Len(Tail(rest)) : Tail(rest)[k] = rest[k + 1]
    BY <1>1, <2>1, HeadTailProperties
  <2> QED
    BY <2>2, <2>3, <2>4
<1>8. NewRow(h, r).uniqueName = r.uniqueName
  BY DEF NewRow
<1>9. NamesWritten(h)' = NamesWritten(h) \cup {r.uniqueName}
  <2>1. NamesWritten(h) = {q.rows[j].uniqueName : j \in Uncommitted(h)}
    BY DEF NamesWritten
  <2>2. NamesWritten(h)' = {request'[h].rows[j].uniqueName : j \in Uncommitted(h)'}
    BY DEF NamesWritten
  <2> QED
    BY <1>3, <1>4, <1>8, <2>1, <2>2
<1>10. /\ Named(file)
       /\ \A x \in Names : q.ids[x] # NoId => capability[q.ids[x]] # Unborn
       /\ \A k \in 1..m : (\E j \in 1..n : rest[k] = file[j]) /\ ParentKnown(h, k, rest[k])
       /\ \A j \in 1..n : file[j].uniqueName \in NamesWritten(h) \/ \E k \in 1..m : rest[k] = file[j]
       /\ IsFiniteSet(Uncommitted(h))
       /\ Cardinality(Uncommitted(h)) + m = n
       /\ \A x \in Uncommitted(h) : \E j \in 1..n : BelowParent(h, x, file[j])
  BY <1>1 DEF WritingOK
<1>11. 1 \in 1..m
  BY <1>7
<1>23. \A k \in 1..m : \E j \in 1..n : rest[k] = file[j]
  BY <1>10
<1> HIDE DEF q, rest, r, file, n, m
<1>12. \A k \in 1..(m - 1) : k + 1 \in 1..m
  BY <1>7
<1>13. ASSUME NEW k \in 1..(m - 1)
       PROVE  (\E j \in 1..n : Tail(rest)[k] = file[j]) /\ ParentKnown(h, k, request[h].rest[k])'
  <2>1. k + 1 \in 1..m /\ Tail(rest)[k] = rest[k + 1]
    BY <1>7, <1>12
  <2> DEFINE p == rest[k + 1].parentUniqueName
  <2>2. \/ p = NoName
        \/ q.ids[p] # NoId
        \/ p \in NamesWritten(h)
        \/ \E j \in 1..k : rest[j].uniqueName = p
    <3>1. ParentKnown(h, k + 1, rest[k + 1]) /\ (k + 1) - 1 = k
      BY <1>10, <2>1
    <3> QED
      BY <3>1 DEF ParentKnown, q, rest
  <2>3. \/ p = NoName
        \/ q.ids[p] # NoId
        \/ p \in NamesWritten(h) \cup {r.uniqueName}
        \/ \E j \in 1..(k - 1) : Tail(rest)[j].uniqueName = p
    <3>1. ASSUME NEW j \in 1..k, rest[j].uniqueName = p
          PROVE  p = r.uniqueName \/ \E x \in 1..(k - 1) : Tail(rest)[x].uniqueName = p
      <4>1. CASE j = 1
        BY <1>7, <3>1, <4>1
      <4>2. CASE j # 1
        <5>1. j - 1 \in 1..(k - 1) /\ j - 1 \in 1..(m - 1) /\ (j - 1) + 1 = j
          BY <1>7, <4>2
        <5>2. Tail(rest)[j - 1] = rest[j]
          BY <1>7, <5>1
        <5> QED
          BY <3>1, <5>1, <5>2
      <4> QED
        BY <4>1, <4>2
    <3> QED
      BY <2>2, <3>1
  <2>4. \E j \in 1..n : Tail(rest)[k] = file[j]
    BY <1>23, <2>1
  <2>5. ParentKnown(h, k, request[h].rest[k])'
    BY <1>2, <1>9, <2>1, <2>3 DEF ParentKnown, q, rest
  <2> QED
    BY <2>4, <2>5
<1>14. ASSUME NEW j \in 1..n
       PROVE  file[j].uniqueName \in NamesWritten(h) \cup {r.uniqueName} \/ \E k \in 1..(m - 1) : Tail(rest)[k] = file[j]
  <2> SUFFICES ASSUME NEW k \in 1..m, rest[k] = file[j], k # 1
               PROVE  \E x \in 1..(m - 1) : Tail(rest)[x] = file[j]
    BY <1>7, <1>10
  <2>1. k - 1 \in 1..(m - 1) /\ (k - 1) + 1 = k
    BY <1>7
  <2> QED
    BY <1>7, <2>1
<1>15. IsFiniteSet(Uncommitted(h)') /\ Cardinality(Uncommitted(h)') = Cardinality(Uncommitted(h)) + 1
  <2>1. Uncommitted(h)' = Uncommitted(h) \cup {i}
    BY <1>3
  <2> QED
    BY <1>4, <1>10, <2>1, FS_AddElement
<1>16. Cardinality(Uncommitted(h)) \in Nat
  BY <1>10, FS_CardinalityType
<1>17. Cardinality(Uncommitted(h)') + (m - 1) = n
  BY <1>6, <1>7, <1>10, <1>15, <1>16
<1>18. ASSUME NEW x \in Uncommitted(h)' PROVE \E j \in 1..n : BelowParent(h, x, RowsOf(h)[j])'
  <2>1. CASE x \in Uncommitted(h)
    <3>1. PICK j \in 1..n : BelowParent(h, x, file[j])
      BY <1>10, <2>1
    <3>2. request'[h].rows[x] = q.rows[x] /\ Uncommitted(h) \subseteq Uncommitted(h)'
      BY <1>3, <2>1
    <3>3. \A y \in Uncommitted(h) : request'[h].rows[y] = q.rows[y]
      BY <1>3
    <3>4. BelowParent(h, x, RowsOf(h)[j])'
      BY <1>2, <1>5, <3>1, <3>2, <3>3 DEF BelowParent, Main, Live, q, file
    <3> QED
      BY <3>4
  <2>2. CASE x = i
    <3>1. ParentKnown(h, 1, r)
      BY <1>7, <1>10, <1>11
    <3>2. LET p == r.parentUniqueName
              id == NewRow(h, r).parentId
          IN  IF p = NoName THEN id = NoId
              ELSE \/ id \in Uncommitted(h) /\ q.rows[id].uniqueName = p
                   \/ id \in Ids /\ id = q.ids[p] /\ Main(id)
      <4>1. r = Head(request[h].rest)
        BY DEF r, rest, q
      <4> QED
        BY <1>1, <3>1, <4>1, NewRowPlaced DEF q
    <3>3. PICK j \in 1..n : r = file[j]
      BY <1>7, <1>10, <1>11
    <3>4. RowsOf(h)'[j] = r /\ request'[h].rows[i] = NewRow(h, r) /\ Uncommitted(h) \subseteq Uncommitted(h)'
      BY <1>3, <1>5, <3>3
    <3>5. \A y \in Uncommitted(h) : request'[h].rows[y] = q.rows[y]
      BY <1>3
    <3>6. BelowParent(h, i, RowsOf(h)[j])'
      BY <1>2, <1>8, <3>2, <3>4, <3>5 DEF BelowParent, Main, Live
    <3> QED
      BY <2>2, <3>6
  <2> QED
    BY <1>3, <2>1, <2>2
<1>19. Named(RowsOf(h))'
  BY <1>5, <1>10 DEF Named
<1>20. WritingOK(h)'
  <2>1. Len(RowsOf(h)') = n /\ Len(request'[h].rest) = m - 1
    BY <1>2, <1>5, <1>7 DEF n
  <2>2. \A x \in Names : request'[h].ids[x] # NoId => capability'[request'[h].ids[x]] # Unborn
    BY <1>2, <1>10
  <2>3. ASSUME NEW k \in 1..(m - 1)
        PROVE  (\E j \in 1..n : request'[h].rest[k] = RowsOf(h)'[j]) /\ ParentKnown(h, k, request[h].rest[k])'
    BY <1>2, <1>5, <1>13
  <2>4. \A j \in 1..n : RowsOf(h)'[j].uniqueName \in NamesWritten(h)'
                          \/ \E k \in 1..(m - 1) : request'[h].rest[k] = RowsOf(h)'[j]
    BY <1>2, <1>5, <1>9, <1>14
  <2>5. Cardinality(Uncommitted(h)') + Len(request'[h].rest) = n
    BY <1>17, <2>1
  <2> QED
    BY <1>15, <1>18, <1>19, <2>1, <2>2, <2>3, <2>4, <2>5 DEF WritingOK
<1>21. RequestOK(h)'
  BY <1>1, <1>2, <1>5, <1>6 DEF RequestOK, q, file
<1>22. \A x \in Uncommitted(h)' : x \in Uncommitted(h) \/ x \in Unused
  BY <1>3
<1> QED
  BY <1>2, <1>20, <1>21, <1>22, OneWorks

-----------------------------------------------------------------------------
(* The commit, and the other writers *)

\* A step of the others leaves the requests alone.
LEMMA OthersKeep ==
    ASSUME ServerInv, request' = request,
           capability' \in [Ids -> Row \cup {Unborn, Deleted}],
           \A i \in Ids : capability[i] # Unborn => capability'[i] # Unborn,
           \A h \in Handlers : \A i \in Uncommitted(h) : capability'[i] = Unborn,
           \A i \in Ids : Main(i) /\ i \in ParentsBeingWritten => Main(i)'
    PROVE  ServerInv'
<1>1. ServerTypeOK'
  BY DEF ServerInv, ServerTypeOK
<1>2. \A h \in Handlers : Uncommitted(h)' = Uncommitted(h)
  BY DEF Uncommitted
<1>3. IdsApart'
  BY <1>2 DEF ServerInv, IdsApart
<1>4. ASSUME NEW h \in Handlers PROVE RequestOK(h)' /\ (request'[h].pc = "writing" => WritingOK(h)')
  <2>1. {request[h].rows[j].parentId : j \in Uncommitted(h)} \subseteq ParentsBeingWritten
    BY DEF ParentsBeingWritten
  <2>2. Spared(h)
    BY <2>1 DEF Spared
  <2> QED
    BY <2>2, SparedOK DEF ServerInv
<1> QED
  BY <1>1, <1>3, <1>4 DEF ServerInv

LEMMA RegisterKeeps ==
    ASSUME ServerInv, NEW n \in Names, NEW b \in BOOLEAN, Register(n, b)
    PROVE  ServerInv'
<1> DEFINE r == [uniqueName |-> n, parentId |-> NoId, type |-> "LEAF", branchLocal |-> b]
<1>1. PICK i \in Unused : capability' = [capability EXCEPT ![i] = r]
  BY DEF Register, NextId
<1>2. r \in Row
  BY DEF Row, CapabilityType
<1> HIDE DEF r
<1>3. i \in Ids /\ capability[i] = Unborn /\ \A h \in Handlers : i \notin Uncommitted(h)
  BY DEF Unused
<1>4. capability \in [Ids -> Row \cup {Unborn, Deleted}]
  BY DEF ServerInv, ServerTypeOK
<1>5. capability' \in [Ids -> Row \cup {Unborn, Deleted}] /\ capability'[i] = r /\ r # Unborn
  BY <1>1, <1>2, <1>3, <1>4, NullsAssumption
<1>6. \A j \in Ids \ {i} : capability'[j] = capability[j]
  BY <1>1, <1>4
<1>7. \A h \in Handlers : \A j \in Uncommitted(h) : capability'[j] = Unborn
  BY <1>3, <1>6 DEF ServerInv, IdsApart
<1>8. \A j \in Ids : Main(j) => Main(j)'
  BY <1>3, <1>6 DEF Main, Live
<1>9. request' = request
  BY DEF Register
<1> QED
  BY <1>3, <1>5, <1>6, <1>7, <1>8, <1>9, OthersKeep

LEMMA RenameKeeps ==
    ASSUME ServerInv, NEW i \in Ids, NEW n \in Names, Rename(i, n)
    PROVE  ServerInv'
<1> DEFINE r == [capability[i] EXCEPT !.uniqueName = n]
<1>1. capability' = [capability EXCEPT ![i] = r] /\ request' = request /\ Main(i)
  BY DEF Rename
<1>2. capability \in [Ids -> Row \cup {Unborn, Deleted}]
  BY DEF ServerInv, ServerTypeOK
<1>3. capability[i] \in Row /\ capability[i] # Unborn
  BY <1>1, <1>2 DEF Main, Live
<1>4. r \in Row /\ r.branchLocal = capability[i].branchLocal
  BY <1>3 DEF Row
<1> HIDE DEF r
<1>5. capability' \in [Ids -> Row \cup {Unborn, Deleted}] /\ capability'[i] = r /\ r \notin {Unborn, Deleted}
  BY <1>1, <1>2, <1>4, NullsAssumption
<1>6. \A j \in Ids \ {i} : capability'[j] = capability[j]
  BY <1>1, <1>2
<1>7. \A h \in Handlers : \A j \in Uncommitted(h) : capability'[j] = Unborn
  BY <1>3, <1>6 DEF ServerInv, IdsApart
<1>8. \A j \in Ids : Main(j) => Main(j)'
  <2>1. Main(i)'
    BY <1>1, <1>4, <1>5 DEF Main, Live
  <2> QED
    BY <1>6, <2>1 DEF Main, Live
<1> QED
  BY <1>1, <1>3, <1>5, <1>6, <1>7, <1>8, OthersKeep

LEMMA DeleteKeeps ==
    ASSUME ServerInv, NEW i \in Ids, Delete(i)
    PROVE  ServerInv'
<1>1. capability' = [capability EXCEPT ![i] = Deleted] /\ request' = request /\ Main(i) /\ i \notin ParentsBeingWritten
  BY DEF Delete
<1>2. capability \in [Ids -> Row \cup {Unborn, Deleted}]
  BY DEF ServerInv, ServerTypeOK
<1>3. capability[i] # Unborn
  BY <1>1 DEF Main, Live
<1>4. capability' \in [Ids -> Row \cup {Unborn, Deleted}] /\ capability'[i] = Deleted /\ Deleted # Unborn
  BY <1>1, <1>2, NullsAssumption
<1>5. \A j \in Ids \ {i} : capability'[j] = capability[j]
  BY <1>1, <1>2
<1>6. \A h \in Handlers : \A j \in Uncommitted(h) : capability'[j] = Unborn
  BY <1>3, <1>5 DEF ServerInv, IdsApart
<1>7. \A j \in Ids \ {i} : Main(j) => Main(j)'
  BY <1>5 DEF Main, Live
<1> QED
  BY <1>1, <1>4, <1>5, <1>6, <1>7, OthersKeep

\* The rows of the transaction are in the table, and nowhere else any more.
LEMMA CommitTyped ==
    ASSUME ServerInv, NEW h \in Handlers, CommitImport(h)
    PROVE  /\ request[h].pc = "writing" /\ WritingOK(h) /\ RequestOK(h) /\ request[h].rest = <<>>
           /\ request' \in [Handlers -> Requests] /\ request'[h] = Finished(h, "created", {})
           /\ \A g \in Handlers \ {h} : request'[g] = request[g]
           /\ capability' \in [Ids -> Row \cup {Unborn, Deleted}]
           /\ \A i \in Uncommitted(h) :
                capability'[i] = request[h].rows[i] /\ capability'[i] \in Row /\ capability[i] = Unborn
           /\ \A i \in Ids \ Uncommitted(h) : capability'[i] = capability[i]
<1>1. /\ request[h].pc = "writing" /\ request[h].rest = <<>> /\ Finish(h, "created", {})
      /\ capability' = [i \in Ids |-> IF i \in Uncommitted(h) THEN request[h].rows[i] ELSE capability[i]]
  BY DEF CommitImport
<1>2. WritingOK(h) /\ RequestOK(h)
  BY <1>1 DEF ServerInv
<1>3. "created" \in Answers /\ {} \in SUBSET (Nat \X Codes)
  BY DEF Answers
<1>4. /\ request' \in [Handlers -> Requests] /\ request'[h] = Finished(h, "created", {})
      /\ \A g \in Handlers \ {h} : request'[g] = request[g]
  BY <1>1, <1>3, FinishTyped DEF ServerInv
<1>5. \A i \in Uncommitted(h) : i \in Ids /\ request[h].rows[i] \in Row /\ capability[i] = Unborn
  BY RowTyped DEF ServerInv, IdsApart
<1>6. capability \in [Ids -> Row \cup {Unborn, Deleted}]
  BY DEF ServerInv, ServerTypeOK
<1>7. capability' \in [Ids -> Row \cup {Unborn, Deleted}]
  BY <1>1, <1>5, <1>6
<1> QED
  BY <1>1, <1>2, <1>4, <1>5, <1>7

LEMMA CommitKeeps ==
    ASSUME ServerInv, NEW h \in Handlers, CommitImport(h)
    PROVE  ServerInv'
<1>1. /\ request[h].pc = "writing" /\ WritingOK(h) /\ RequestOK(h)
      /\ request' \in [Handlers -> Requests] /\ request'[h] = Finished(h, "created", {})
      /\ \A g \in Handlers \ {h} : request'[g] = request[g]
      /\ capability' \in [Ids -> Row \cup {Unborn, Deleted}]
  BY CommitTyped
<1>2. /\ \A i \in Uncommitted(h) : capability'[i] \in Row /\ capability[i] = Unborn
      /\ \A i \in Ids \ Uncommitted(h) : capability'[i] = capability[i]
  BY CommitTyped
<1>3. /\ request'[h].pc = "done" /\ request'[h].content = request[h].content
      /\ request'[h].answer = "created" /\ request'[h].errors = {} /\ request'[h].rows = <<>>
  BY <1>1, FinishedTyped DEF ServerInv, Answers
<1>4. ServerTypeOK'
  BY <1>1 DEF ServerTypeOK
<1>5. Uncommitted(h)' = {} /\ \A g \in Handlers \ {h} : Uncommitted(g)' = Uncommitted(g)
  BY <1>1, <1>3, NothingWritten DEF Uncommitted
<1>6. \A g \in Handlers \ {h} : Uncommitted(g) \cap Uncommitted(h) = {}
  BY DEF ServerInv, IdsApart
<1>7. IdsApart'
  <2>1. ASSUME NEW g \in Handlers, NEW i \in Uncommitted(g)' PROVE i \in Ids /\ capability'[i] = Unborn
    BY <1>2, <1>5, <1>6 DEF ServerInv, IdsApart
  <2>2. ASSUME NEW g \in Handlers, NEW f \in Handlers, g # f PROVE Uncommitted(g)' \cap Uncommitted(f)' = {}
    BY <1>5, <2>2 DEF ServerInv, IdsApart
  <2> QED
    BY <2>1, <2>2 DEF IdsApart
<1>8. RequestOK(h)'
  BY <1>1, <1>3 DEF RequestOK
<1>9. ASSUME NEW g \in Handlers, g # h PROVE RequestOK(g)' /\ (request'[g].pc = "writing" => WritingOK(g)')
  <2>1. \A i \in Ids : capability[i] # Unborn => capability'[i] = capability[i]
    BY <1>2
  <2>2. \A i \in Ids : capability[i] # Unborn => capability'[i] # Unborn
    BY <2>1
  <2>3. \A i \in Ids : Main(i) => Main(i)'
    BY <2>1 DEF Main, Live
  <2>4. Spared(g)
    BY <1>1, <1>9, <2>2, <2>3 DEF Spared
  <2> QED
    BY <1>9, <2>4, SparedOK DEF ServerInv
<1> QED
  BY <1>3, <1>4, <1>7, <1>8, <1>9 DEF ServerInv

-----------------------------------------------------------------------------
(* The page *)

LEMMA WorkKeeps ==
    ASSUME ServerInv, NEW h \in Handlers, Work(h)
    PROVE  ServerInv'
<1>1. "refused" \in Answers /\ {} \in SUBSET (Nat \X Codes)
  BY DEF Answers
<1>2. ASSUME Finish(h, "refused", {}), capability' = capability PROVE ServerInv'
  BY <1>1, <1>2, FinishKeeps
<1>3. CASE Refuse(h)
  BY <1>2, <1>3 DEF Refuse
<1>4. CASE ReadConflicts(h)
  BY <1>4, ReadConflictsKeeps
<1>5. CASE ReadMainIds(h)
  BY <1>5, ReadMainIdsKeeps
<1>6. CASE CreateRow(h)
  BY <1>6, CreateRowKeeps
<1>7. CASE CreateFails(h)
  BY <1>2, <1>7 DEF CreateFails
<1>8. CASE TimeOut(h)
  BY <1>2, <1>8 DEF TimeOut
<1>9. CASE CommitImport(h)
  BY <1>9, CommitKeeps
<1> QED
  BY <1>3, <1>4, <1>5, <1>6, <1>7, <1>8, <1>9 DEF Work

LEMMA OthersAllKeep ==
    ASSUME ServerInv, Others
    PROVE  ServerInv'
<1>1. CASE \E n \in Names, b \in BOOLEAN : Register(n, b)
  BY <1>1, RegisterKeeps
<1>2. CASE \E i \in Ids, n \in Names : Rename(i, n)
  BY <1>2, RenameKeeps
<1>3. CASE \E i \in Ids : Delete(i)
  BY <1>3, DeleteKeeps
<1> QED
  BY <1>1, <1>2, <1>3 DEF Others

LEMMA ServerStarts ==
    ASSUME ServerInit
    PROVE  ServerInv
<1>1. \A h \in Handlers : request[h] = Idle
  BY DEF ServerInit
<1>2. \A h \in Handlers : Uncommitted(h) = {}
  BY <1>1, IdleTyped, NothingWritten DEF Uncommitted
<1>3. ServerTypeOK
  BY IdleTyped DEF ServerInit, ServerTypeOK
<1>4. IdsApart
  BY <1>2 DEF IdsApart
<1>5. \A h \in Handlers : RequestOK(h) /\ request[h].pc # "writing"
  BY <1>1, IdleTyped DEF RequestOK
<1> QED
  BY <1>3, <1>4, <1>5 DEF ServerInv

\* An answer the page keeps, read from a request.
LEMMA ResultTyped ==
    ASSUME ServerInv, NEW h \in Handlers, request[h].answer \in {"validated", "invalid"}
    PROVE  ResultOf(h) \in Results
<1>1. RequestOK(h)
  BY DEF ServerInv
<1>2. request[h].content \in Contents
  BY <1>1 DEF RequestOK
<1>3. RowsOf(h) \in Seq(FileRow)
  BY <1>2, FileTyped
<1>4. request[h].errors \subseteq (1..Len(RowsOf(h))) \X Codes
  BY <1>1 DEF RequestOK
<1>5. ReadyCount(RowsOf(h), request[h].errors) \in Nat
  BY <1>3, <1>4, ReadyRows
<1>6. (request[h].errors = {}) \in BOOLEAN
  OBVIOUS
<1> QED
  BY <1>2, <1>5, <1>6 DEF ResultOf, Results

\* What the page keeps is of its type.
PageTyped ==
    /\ currentStep \in WizardSteps
    /\ csvContent \in Contents \cup {NoContent}
    /\ reading \in 0..MaxReading
    /\ dryRunResult \in Results \cup {NoContent}
    /\ commitResult \in Contents \cup {NoContent}
    /\ {dryRunRequest, commitRequest} \subseteq Handlers \cup {NoRequest}

\* The inductive invariant.
Inv == ServerInv /\ PageTyped

LEMMA InvIsTyped == Inv => TypeOK
BY DEF Inv, PageTyped, ServerInv, TypeOK

LEMMA InvInit == Init => Inv
<1> SUFFICES ASSUME Init PROVE Inv
  OBVIOUS
<1>1. ServerInv
  BY ServerStarts DEF Init
<1>2. PageTyped
  BY PageAssumption DEF Init, PageTyped, WizardSteps
<1> QED
  BY <1>1, <1>2 DEF Inv

LEMMA ServerStands ==
    ASSUME ServerInv, UNCHANGED serverVars
    PROVE  ServerInv'
<1>1. capability' = capability /\ request' = request
  BY DEF serverVars
<1>2. capability \in [Ids -> Row \cup {Unborn, Deleted}]
  BY DEF ServerInv, ServerTypeOK
<1>3. \A h \in Handlers : \A i \in Uncommitted(h) : capability[i] = Unborn
  BY DEF ServerInv, IdsApart
<1>4. \A i \in Ids : Main(i) => Main(i)'
  BY <1>1 DEF Main, Live
<1> QED
  BY <1>1, <1>2, <1>3, <1>4, OthersKeep

LEMMA UserKeeps ==
    ASSUME Inv, User
    PROVE  Inv'
<1>0. ServerInv /\ PageTyped
  BY DEF Inv
<1>1. ASSUME UNCHANGED serverVars PROVE ServerInv'
  BY <1>0, <1>1, ServerStands
<1>2. ASSUME NEW c \in Contents, ChangeContent(c) PROVE Inv'
  <2>1. PageTyped'
    BY <1>0, <1>2 DEF ChangeContent, SetContent, PageTyped, WizardSteps
  <2> QED
    BY <1>1, <1>2, <2>1 DEF ChangeContent, Inv
<1>3. CASE SelectFile
  <2>1. PageTyped'
    BY <1>0, <1>3, PageAssumption DEF SelectFile, PageTyped
  <2> QED
    BY <1>1, <1>3, <2>1 DEF SelectFile, Inv
<1>4. CASE Clear
  <2>1. PageTyped'
    BY <1>0, <1>4 DEF Clear, SetContent, PageTyped, WizardSteps
  <2> QED
    BY <1>1, <1>4, <2>1 DEF Clear, Inv
<1>5. ASSUME NEW s \in WizardSteps, GoTo(s) PROVE Inv'
  <2>1. PageTyped'
    BY <1>0, <1>5 DEF GoTo, PageTyped
  <2> QED
    BY <1>1, <1>5, <2>1 DEF GoTo, Inv
<1>6. ASSUME NEW h \in Handlers, RunDryRun(h) PROVE Inv'
  <2>1. PageTyped'
    BY <1>0, <1>6 DEF RunDryRun, PageTyped, WizardSteps
  <2>2. Receive(h, FALSE, csvContent) /\ csvContent \in Contents \cup {NoContent} /\ FALSE \in BOOLEAN
    BY <1>0, <1>6 DEF RunDryRun, PageTyped
  <2> QED
    BY <1>0, <2>1, <2>2, ReceiveKeeps DEF Inv
<1>7. ASSUME NEW h \in Handlers, Commit(h) PROVE Inv'
  <2>1. PageTyped'
    BY <1>0, <1>7 DEF Commit, PageTyped
  <2>2. Receive(h, TRUE, csvContent) /\ csvContent \in Contents \cup {NoContent} /\ TRUE \in BOOLEAN
    BY <1>0, <1>7 DEF Commit, PageTyped
  <2> QED
    BY <1>0, <2>1, <2>2, ReceiveKeeps DEF Inv
<1> QED
  BY <1>2, <1>3, <1>4, <1>5, <1>6, <1>7 DEF User

LEMMA BrowserKeeps ==
    ASSUME Inv, Browser
    PROVE  Inv'
<1>0. ServerInv /\ PageTyped
  BY DEF Inv
<1>1. ASSUME UNCHANGED serverVars PROVE ServerInv'
  BY <1>0, <1>1, ServerStands
<1>2. ASSUME NEW c \in Contents, FileLoaded(c) PROVE Inv'
  <2>1. PageTyped'
    BY <1>0, <1>2, PageAssumption DEF FileLoaded, SetContent, PageTyped, WizardSteps
  <2> QED
    BY <1>1, <1>2, <2>1 DEF FileLoaded, Inv
<1>3. CASE FileUnreadable
  <2>1. PageTyped'
    BY <1>0, <1>3, PageAssumption DEF FileUnreadable, PageTyped
  <2> QED
    BY <1>1, <1>3, <2>1 DEF FileUnreadable, Inv
<1>4. CASE DryRunLost
  <2>1. dryRunRequest \in Handlers
    BY <1>0, <1>4 DEF DryRunLost, dryRunPending, PageTyped
  <2>2. PageTyped'
    BY <1>0, <1>4 DEF DryRunLost, DryRunSettles, PageTyped
  <2>3. ServerInv'
    BY <1>0, <1>4, <2>1, IdleKeeps DEF DryRunLost
  <2> QED
    BY <2>2, <2>3 DEF Inv
<1>5. CASE CommitLost
  <2>1. PageTyped'
    BY <1>0, <1>5 DEF CommitLost, PageTyped
  <2> QED
    BY <1>1, <1>5, <2>1 DEF CommitLost, Inv
<1> QED
  BY <1>2, <1>3, <1>4, <1>5 DEF Browser

LEMMA AnswerKeeps ==
    ASSUME Inv, NEW h \in Handlers, Answer(h)
    PROVE  Inv'
<1>0. ServerInv /\ PageTyped
  BY DEF Inv
<1>1. ASSUME Reply(h) PROVE ServerInv'
  BY <1>0, <1>1, IdleKeeps DEF Reply
<1>2. ASSUME request[h].answer \in {"created", "validated", "invalid"} PROVE request[h].content \in Contents
  BY <1>0, <1>2 DEF ServerInv, RequestOK
<1>3. CASE DryRunAnswered(h)
  <2>1. Reply(h) /\ DryRunSettles(request[h].answer = "validated", ResultOf(h))
    BY <1>3 DEF DryRunAnswered
  <2>2. request[h].answer = "validated" => ResultOf(h) \in Results
    BY <1>0, ResultTyped
  <2>3. dryRunResult' \in Results \cup {NoContent}
    BY <2>1, <2>2 DEF DryRunSettles
  <2>4. PageTyped'
    BY <1>0, <2>1, <2>3 DEF DryRunSettles, PageTyped
  <2> QED
    BY <1>1, <2>1, <2>4 DEF Inv
<1>4. CASE CommitAnswered(h)
  <2>1. request[h].answer = "invalid" => ResultOf(h) \in Results
    BY <1>0, ResultTyped
  <2>2. dryRunResult' \in Results \cup {NoContent} /\ commitResult' \in Contents \cup {NoContent}
    BY <1>0, <1>2, <1>4, <2>1 DEF CommitAnswered, PageTyped
  <2>3. currentStep' \in WizardSteps
    BY <1>0, <1>4 DEF CommitAnswered, PageTyped, WizardSteps
  <2>4. PageTyped'
    BY <1>0, <1>4, <2>2, <2>3 DEF CommitAnswered, PageTyped
  <2> QED
    BY <1>1, <1>4, <2>4 DEF CommitAnswered, Inv
<1>5. CASE AnswerDropped(h)
  <2>1. PageTyped'
    BY <1>0, <1>5 DEF AnswerDropped, pageVars, PageTyped
  <2> QED
    BY <1>1, <1>5, <2>1 DEF AnswerDropped, Inv
<1> QED
  BY <1>3, <1>4, <1>5 DEF Answer

LEMMA InvNext == Inv /\ [Next]_vars => Inv'
<1> SUFFICES ASSUME Inv, [Next]_vars PROVE Inv'
  OBVIOUS
<1>0. ServerInv /\ PageTyped
  BY DEF Inv
<1>1. ASSUME UNCHANGED pageVars PROVE PageTyped'
  BY <1>0, <1>1 DEF pageVars, PageTyped
<1>2. CASE Server /\ UNCHANGED pageVars
  <2>1. ServerInv'
    BY <1>0, <1>2, WorkKeeps, OthersAllKeep DEF Server
  <2> QED
    BY <1>1, <1>2, <2>1 DEF Inv
<1>3. CASE UNCHANGED vars
  BY <1>0, <1>1, <1>3, ServerStands DEF vars, Inv
<1> QED
  BY <1>2, <1>3, UserKeeps, BrowserKeeps, AnswerKeeps DEF Next

LEMMA InvAlways == Spec => []Inv
<1> QED
  BY InvInit, InvNext, PTL DEF Spec

LEMMA InvIsExact == Inv => PreviewIsRight
<1> SUFFICES ASSUME Inv PROVE PreviewIsRight
  OBVIOUS
<1>1. TypeOK
  BY InvIsTyped
<1>2. ASSUME NEW h \in Handlers, request[h].pc = "reading"
      PROVE  Exact(RowsOf(h), request[h].taken, MainIds)
  <2>1. request[h].content \in Contents
    BY <1>2 DEF Inv, ServerInv, RequestOK
  <2>2. RowsOf(h) \in Seq(FileRow)
    BY <2>1, FileTyped
  <2> QED
    BY <2>2, ExactAlways
<1>3. ExactOnCheckedFiles
  <2>1. \A lines \in CheckedFiles : ParsedRows(lines) \in Seq(FileRow)
    BY ContentsAssumption, ParsedTyped
  <2> QED
    BY <2>1, ExactAlways DEF ExactOnCheckedFiles
<1> QED
  BY <1>1, <1>2, <1>3 DEF PreviewIsRight, ValidationIsExact

\* What the page previews is typed, and the validation of a file, of those sent and of
\* those only checked, finds no error exactly when the file can be imported; the order
\* then has every parent before its children, and all rows count as ready (validate,
\* orderRows and buildDryRunResult of capability-import.service.ts).
THEOREM PreviewCorrect == Spec => []PreviewIsRight
<1> QED
  BY InvAlways, InvIsExact, PTL

-----------------------------------------------------------------------------
(* The import is whole *)

LEMMA Quiet ==
    ASSUME NEW h \in Handlers, request'[h] = request[h] \/ (capability' = capability /\ request'[h].answer # "created")
    PROVE  CreatesWhole(h)
<1>1. CASE request'[h] = request[h]
  BY <1>1 DEF CreatesWhole
<1>2. CASE capability' = capability /\ request'[h].answer # "created"
  <2>1. {i \in Ids : ~Live(i) /\ capability'[i] \notin {Unborn, Deleted}} = {}
    BY <1>2 DEF Live
  <2> QED
    BY <1>2, <2>1 DEF CreatesWhole
<1> QED
  BY <1>1, <1>2

\* The step that the property is about.
LEMMA CommitWhole ==
    ASSUME ServerInv, NEW h \in Handlers, CommitImport(h)
    PROVE  CreatesWhole(h)
<1> DEFINE new == {i \in Ids : ~Live(i) /\ capability'[i] \notin {Unborn, Deleted}}
           file == RowsOf(h)
           n == Len(file)
           made == Uncommitted(h)
           rows == request[h].rows
           rowOf(i) == CHOOSE r \in Range(file) : r.uniqueName = capability'[i].uniqueName
<1>1. /\ request[h].pc = "writing" /\ WritingOK(h) /\ RequestOK(h) /\ request[h].rest = <<>>
      /\ \A i \in made : capability'[i] = rows[i] /\ capability'[i] \in Row /\ capability[i] = Unborn
      /\ \A i \in Ids \ made : capability'[i] = capability[i]
  BY CommitTyped
<1>2. made \subseteq Ids
  BY DEF ServerInv, IdsApart
<1>3. new = made
  <2>1. \A i \in made : i \in new
    BY <1>1, <1>2, NullsAssumption DEF Live
  <2>2. \A i \in Ids \ made : i \notin new
    BY <1>1 DEF Live
  <2> QED
    BY <1>2, <2>1, <2>2
<1>4. file \in Seq(FileRow)
  BY <1>1, FileTyped DEF RequestOK
<1>5. n \in Nat /\ DOMAIN file = 1..n /\ Range(file) = {file[j] : j \in 1..n}
  BY <1>4, RowFields DEF Range
<1>6. Named(file) /\ IsFiniteSet(made) /\ Cardinality(made) + Len(request[h].rest) = n
  BY <1>1 DEF WritingOK
<1>7. \A j \in 1..n : file[j].uniqueName \in NamesWritten(h) \/ \E k \in 1..Len(request[h].rest) : request[h].rest[k] = file[j]
  BY <1>1 DEF WritingOK
<1>8. \A i \in made : \E j \in 1..n : BelowParent(h, i, file[j])
  BY <1>1 DEF WritingOK
<1>9. Len(request[h].rest) = 0
  BY <1>1
<1>10. Cardinality(made) = n
  BY <1>6, <1>9, FS_CardinalityType
<1>11. \A j \in 1..n : file[j].uniqueName \in NamesWritten(h)
  <2>1. ~\E k \in 1..0 : TRUE
    OBVIOUS
  <2> QED
    BY <1>7, <1>9, <2>1
<1>12. SeenNames(file) = {file[j].uniqueName : j \in 1..n}
  BY <1>5, <1>6 DEF SeenNames, Named
<1>13. NamesWritten(h) = {capability'[i].uniqueName : i \in made}
  BY <1>1 DEF NamesWritten
<1>14. {capability'[i].uniqueName : i \in made} = SeenNames(file)
  <2>1. ASSUME NEW i \in made PROVE capability'[i].uniqueName \in {file[j].uniqueName : j \in 1..n}
    <3>1. PICK j \in 1..n : BelowParent(h, i, file[j])
      BY <1>8
    <3>2. file[j].uniqueName = rows[i].uniqueName
      BY <3>1 DEF BelowParent
    <3> QED
      BY <1>1, <3>2
  <2>2. \A x : x \in {capability'[i].uniqueName : i \in made} => x \in {file[j].uniqueName : j \in 1..n}
    BY <2>1
  <2>3. \A x : x \in {file[j].uniqueName : j \in 1..n} => x \in {capability'[i].uniqueName : i \in made}
    BY <1>11, <1>13
  <2> HIDE DEF made, file, n
  <2>4. {capability'[i].uniqueName : i \in made} = {file[j].uniqueName : j \in 1..n}
    BY <2>2, <2>3
  <2> QED
    BY <1>12, <2>4
<1>15. ASSUME NEW i \in made
       PROVE  LET p == rowOf(i).parentUniqueName
                  id == capability'[i].parentId
              IN  IF p = NoName THEN id = NoId
                  ELSE \/ id \in made /\ capability'[id].uniqueName = p
                       \/ id # NoId /\ id = request[h].ids[p] /\ Main(id)
  <2>1. PICK j \in 1..n : BelowParent(h, i, file[j])
    BY <1>8
  <2>2. file[j].uniqueName = capability'[i].uniqueName
    BY <1>1, <2>1 DEF BelowParent
  <2>3. rowOf(i) = file[j]
    <3>1. file[j] \in Range(file) /\ file[j].uniqueName = capability'[i].uniqueName
      BY <1>5, <2>2
    <3>2. \A r \in Range(file) : r.uniqueName = capability'[i].uniqueName => r = file[j]
      BY <1>5, <1>6, <2>2 DEF Named
    <3> HIDE DEF file
    <3> QED
      BY <3>1, <3>2
  <2> HIDE DEF rowOf, file, n
  <2>4. LET p == file[j].parentUniqueName
            id == rows[i].parentId
        IN  IF p = NoName THEN id = NoId
            ELSE \/ id \in made /\ rows[id].uniqueName = p
                 \/ id \in Ids /\ id = request[h].ids[p] /\ Main(id)
    BY <2>1 DEF BelowParent
  <2>5. capability'[i] = rows[i] /\ \A x \in made : capability'[x] = rows[x]
    BY <1>1
  <2>6. \A x \in Ids : x # NoId
    BY NullsAssumption
  <2> QED
    BY <2>3, <2>4, <2>5, <2>6
<1> HIDE DEF new, made, rowOf, file, n
<1>16. /\ {capability'[i].uniqueName : i \in new} = SeenNames(file)
       /\ Cardinality(new) = n
       /\ \A i \in new :
            LET p == rowOf(i).parentUniqueName
                id == capability'[i].parentId
            IN  IF p = NoName THEN id = NoId
                ELSE \/ id \in new /\ capability'[id].uniqueName = p
                     \/ id # NoId /\ id = request[h].ids[p] /\ Main(id)
  BY <1>3, <1>10, <1>14, <1>15
<1> QED
  BY <1>16 DEF CreatesWhole, new, rowOf, file, n

LEMMA WorkWhole ==
    ASSUME ServerInv, NEW g \in Handlers, Work(g), NEW h \in Handlers
    PROVE  CreatesWhole(h)
<1>1. ASSUME NEW answer \in Answers, NEW errors \in SUBSET (Nat \X Codes), Finish(g, answer, errors),
             answer # "created", capability' = capability
      PROVE  CreatesWhole(h)
  <2>1. request'[g] = Finished(g, answer, errors) /\ \A f \in Handlers \ {g} : request'[f] = request[f]
    BY <1>1, FinishTyped DEF ServerInv
  <2>2. request'[g].answer # "created"
    BY <1>1, <2>1, FinishedTyped DEF ServerInv
  <2> QED
    BY <1>1, <2>1, <2>2, Quiet
<1>2. ASSUME \A f \in Handlers \ {g} : request'[f] = request[f], capability' = capability,
             request'[g].answer = request[g].answer, request[g].pc # "done"
      PROVE  CreatesWhole(h)
  <2>1. request[g].answer = "none"
    BY <1>2 DEF ServerInv, RequestOK
  <2> QED
    BY <1>2, <2>1, Quiet
<1>3. "refused" \in Answers /\ {} \in SUBSET (Nat \X Codes) /\ "refused" # "created"
  BY DEF Answers
<1>4. CASE Refuse(g)
  BY <1>1, <1>3, <1>4 DEF Refuse
<1>5. CASE ReadConflicts(g)
  <2>1. request'[g].answer = request[g].answer /\ \A f \in Handlers \ {g} : request'[f] = request[f]
    BY <1>5, ReadConflictsTyped DEF ServerInv
  <2> QED
    BY <1>2, <1>5, <2>1 DEF ReadConflicts
<1>6. CASE ReadMainIds(g)
  <2>1. request[g].pc = "reading" /\ request[g].content \in Contents
    BY <1>6 DEF ReadMainIds, ServerInv, RequestOK
  <2>2. CASE request[g].commit /\ Errors(RowsOf(g), request[g].taken, MainIds) = {}
    <3>1. /\ request'[g].answer = request[g].answer /\ capability' = capability
          /\ \A f \in Handlers \ {g} : request'[f] = request[f]
      BY <1>6, <2>1, <2>2, StartsWriting DEF ServerInv
    <3> QED
      BY <1>2, <2>1, <3>1
  <2>3. CASE ~(request[g].commit /\ Errors(RowsOf(g), request[g].taken, MainIds) = {})
    <3>1. PICK answer \in {"invalid", "validated"}, errors \in SUBSET ((1..Len(RowsOf(g))) \X Codes) :
               /\ errors \in SUBSET (Nat \X Codes)
               /\ Finish(g, answer, errors)
               /\ capability' = capability
      BY <1>6, <2>1, <2>3, ReadMainIdsEnds DEF ServerInv
    <3>2. answer \in Answers /\ answer # "created"
      BY DEF Answers
    <3> QED
      BY <1>1, <3>1, <3>2
  <2> QED
    BY <2>2, <2>3
<1>7. CASE CreateRow(g)
  <2>1. /\ request[g].pc = "writing" /\ capability' = capability
        /\ request'[g].answer = request[g].answer
        /\ \A f \in Handlers \ {g} : request'[f] = request[f]
    BY <1>7, CreateRowTyped
  <2> QED
    BY <1>2, <2>1
<1>8. CASE CreateFails(g)
  BY <1>1, <1>3, <1>8 DEF CreateFails
<1>9. CASE TimeOut(g)
  BY <1>1, <1>3, <1>9 DEF TimeOut
<1>10. CASE CommitImport(g)
  <2>1. CASE h = g
    BY <1>10, <2>1, CommitWhole
  <2>2. CASE h # g
    BY <1>10, <2>2, CommitTyped, Quiet
  <2> QED
    BY <2>1, <2>2
<1> QED
  BY <1>4, <1>5, <1>6, <1>7, <1>8, <1>9, <1>10 DEF Work

\* A handler that takes up or lays down a request creates nothing.
LEMMA PageWhole ==
    ASSUME Inv, User \/ Browser \/ \E g \in Handlers : Answer(g), NEW h \in Handlers
    PROVE  CreatesWhole(h)
<1>0. ServerInv /\ PageTyped
  BY DEF Inv
<1>1. ASSUME UNCHANGED serverVars PROVE CreatesWhole(h)
  BY <1>1, Quiet DEF serverVars
<1>2. ASSUME NEW g \in Handlers, NEW b \in BOOLEAN, Receive(g, b, csvContent) PROVE CreatesWhole(h)
  <2>1. csvContent \in Contents \cup {NoContent}
    BY <1>0 DEF PageTyped
  <2>2. request'[g].answer = "none" /\ \A f \in Handlers \ {g} : request'[f] = request[f]
    BY <1>0, <1>2, <2>1, ReceiveTyped DEF ServerInv
  <2>3. capability' = capability
    BY <1>2 DEF Receive
  <2> QED
    BY <2>2, <2>3, Quiet
<1>3. ASSUME NEW g \in Handlers, request' = [request EXCEPT ![g] = Idle], capability' = capability
      PROVE  CreatesWhole(h)
  <2>1. request'[g] = Idle /\ \A f \in Handlers \ {g} : request'[f] = request[f]
    BY <1>0, <1>3, IdleTyped, OneHandler DEF ServerInv
  <2> QED
    BY <1>3, <2>1, IdleTyped, Quiet
<1>4. CASE User
  <2>1. ASSUME NEW g \in Handlers, RunDryRun(g) \/ Commit(g) PROVE CreatesWhole(h)
    <3>1. Receive(g, FALSE, csvContent) \/ Receive(g, TRUE, csvContent)
      BY <2>1 DEF RunDryRun, Commit
    <3> QED
      BY <1>2, <3>1
  <2> QED
    BY <1>1, <1>4, <2>1 DEF User, ChangeContent, SelectFile, Clear, GoTo
<1>5. CASE Browser
  <2>1. CASE DryRunLost
    <3>1. dryRunRequest \in Handlers
      BY <1>0, <2>1 DEF DryRunLost, dryRunPending, PageTyped
    <3> QED
      BY <1>3, <2>1, <3>1 DEF DryRunLost
  <2> QED
    BY <1>1, <1>5, <2>1 DEF Browser, FileLoaded, FileUnreadable, CommitLost
<1>6. CASE \E g \in Handlers : Answer(g)
  <2>1. PICK g \in Handlers : Reply(g)
    BY <1>6 DEF Answer, DryRunAnswered, CommitAnswered, AnswerDropped
  <2> QED
    BY <1>3, <2>1 DEF Reply
<1> QED
  BY <1>4, <1>5, <1>6

LEMMA StepWhole == Inv /\ [Next]_vars => [\A h \in Handlers : CreatesWhole(h)]_serverVars
<1> SUFFICES ASSUME Inv, [Next]_vars, NEW h \in Handlers PROVE CreatesWhole(h) \/ UNCHANGED serverVars
  OBVIOUS
<1>1. CASE UNCHANGED vars
  BY <1>1 DEF vars
<1>2. CASE Server
  <2>1. ASSUME Others PROVE CreatesWhole(h)
    <3>1. request' = request
      BY <2>1 DEF Others, Register, Rename, Delete
    <3> QED
      BY <3>1, Quiet
  <2> QED
    BY <1>2, <2>1, WorkWhole DEF Server, Inv
<1> QED
  BY <1>1, <1>2, PageWhole DEF Next

\* A commit creates all rows of its file in one step and no others, each at the root, below
\* the new row of its parent's name, or below a capability that bore that name when it was
\* read and still exists, whatever is registered, renamed, deleted or imported by
\* others meanwhile (commit of capability-import.service.ts).
THEOREM ImportWhole == Spec => ImportIsWhole
<1> QED
  BY InvAlways, StepWhole, PTL DEF Spec, ImportIsWhole
===============================================================================

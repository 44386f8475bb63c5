---------------------------- MODULE CapabilityForm ----------------------------
(***************************************************************************)
(* The page that creates and edits a capability: the form, the query for   *)
(* the capability it is filled from, and the save.  Source: apps/web/src/  *)
(* components/capability/CapabilityForm, pages/CapabilityFormPage,         *)
(* api/capabilities.                                                       *)
(*                                                                         *)
(* A save sends every column of the form.  The columns are those of        *)
(* Hierarchy, where tags stands for the three lists (aliases, tags, source *)
(* references); each entry of a list is split at commas and newlines.      *)
(***************************************************************************)
EXTENDS Hierarchy

CONSTANTS
    MeantimeBodies,  \* what others ask for while the page is open
    SplitAt,         \* for each tag the entries its text falls into
    NoEditor,        \* the page is not open
    NoDetail         \* the capability has not been read

ASSUME MeantimeAssumption == MeantimeBodies \subseteq WellFormed
ASSUME SplitAssumption ==
    /\ SplitAt \in [Tags -> SUBSET Tags]
    /\ \A t \in Tags : \A u \in SplitAt[t] : SplitAt[u] = {u}

FormColumns == {"parentId", "type", "lifecycleStatus", "tags"}

CapabilityFormValues ==
    [parentId : Parents, type : CapabilityType, lifecycleStatus : LifecycleStatus, tags : SUBSET Tags]

\* on DETAIL: the save has succeeded, and the page of the capability is shown.
\* edited is of the specification: the columns changed since the form was filled.
Editor ==
    [on : {"CREATE", "EDIT", "DETAIL"}, of : Capabilities, values : CapabilityFormValues,
     edited : SUBSET FormColumns, saving : BOOLEAN, committed : BOOLEAN]

\* What GET /capabilities/:id returns: the row, and the children with their types.
\* Of the specification: nothing was committed since it was read (quiet), between
\* the reads of this and the answer before it (same), no save of the form (current).
Detail ==
    [of : Capabilities, row : Row, children : [Capabilities -> SUBSET CapabilityType],
     quiet : BOOLEAN, same : BOOLEAN, current : BOOLEAN]

ASSUME NoDetailAssumption == NoDetail \notin Detail

VARIABLES
    editor,    \* the page
    detail,    \* the cached answer
    reading    \* the answer on its way

editorVars == <<exists, capability, mapping, open, mergedTags, editor, detail, reading>>

\* createCapabilityFormInitialValues.
InitialValues(row) ==
    [parentId |-> row.parentId, type |-> row.type, lifecycleStatus |-> row.lifecycleStatus,
     tags |-> row.tags]

\* splitMultiValueField.
SplitMultiValueField(T) == UNION {SplitAt[t] : t \in T}

EditorInit == editor = NoEditor /\ detail = NoDetail /\ reading = NoDetail

-----------------------------------------------------------------------------
(* The page and its query *)

OpenPage(mode, c, row) ==
    [on |-> mode, of |-> c, values |-> InitialValues(row), edited |-> {},
     saving |-> FALSE, committed |-> FALSE]

\* What is cached of another capability is not followed.
EditCapability(c) ==
    LET cached == detail # NoDetail /\ detail.of = c IN
      /\ c \in exists
      /\ editor' = OpenPage("EDIT", c, IF cached THEN detail.row ELSE NewRow)
      /\ detail' = IF cached THEN detail ELSE NoDetail

\* The capability that is created has a name; it stands for the id that it gets.
CreateNew(c) ==
    /\ c \notin exists
    /\ editor' = OpenPage("CREATE", c, NewRow)
    /\ detail' = NoDetail

OpenEditor ==
    /\ editor = NoEditor
    /\ \E c \in Capabilities : EditCapability(c) \/ CreateNew(c)
    /\ UNCHANGED <<vars, reading>>

\* Cancel, or the link back.
CloseEditor ==
    /\ editor # NoEditor
    /\ editor' = NoEditor
    /\ UNCHANGED <<vars, detail, reading>>

\* include: children: none, or the type, of every capability.
IncludedChildren(c) ==
    [x \in Capabilities |-> IF x \in exists /\ Parent(x) = c THEN {capability[x].type} ELSE {}]

FindOne(c) ==
    [of |-> c, row |-> capability[c], children |-> IncludedChildren(c),
     quiet |-> TRUE, same |-> detail # NoDetail /\ detail.quiet, current |-> TRUE]

\* The first read and every refetch, of a page that shows the capability.
ReadDetail ==
    /\ editor # NoEditor /\ editor.on \in {"EDIT", "DETAIL"} /\ reading = NoDetail
    /\ editor.of \in exists
    /\ reading' = FindOne(editor.of)
    /\ UNCHANGED <<vars, editor, detail>>

\* Mutant: every answer fills the form anew.
RefillsAlways(answer) == {TRUE}

\* Mutant: the form is filled when it is first shown.
RefillsOnce(answer) == {detail = NoDetail}

\* Structural sharing and the memo: an answer that is equal to the one before
\* leaves the form alone.  updatedAt makes one differ whose columns are the same.
Refills(answer) ==
    IF detail = NoDetail \/ answer.row # detail.row \/ answer.children # detail.children THEN {TRUE}
    ELSE IF answer.same THEN {FALSE} ELSE BOOLEAN

Refilled(row) == [editor EXCEPT !.values = InitialValues(row), !.edited = {}]

\* The answer for another capability goes to an entry that is not followed.
DetailArrives ==
    /\ reading # NoDetail
    /\ reading' = NoDetail
    /\ IF editor = NoEditor \/ editor.of # reading.of THEN UNCHANGED <<editor, detail>>
       ELSE /\ detail' = reading
            /\ \E refill \in Refills(reading) :
                 editor' = IF editor.on = "EDIT" /\ refill THEN Refilled(reading.row) ELSE editor
    /\ UNCHANGED vars

-----------------------------------------------------------------------------
(* The fields.  They stay enabled during a save. *)

\* Loading capability details... until the first answer.
FormShown == editor # NoEditor /\ (editor.on = "CREATE" \/ (editor.on = "EDIT" /\ detail # NoDetail))

SetValue(column, value) ==
    /\ value # editor.values[column]
    /\ editor' = [editor EXCEPT !.values[column] = value, !.edited = @ \cup {column}]

UpdateValue ==
    /\ FormShown
    /\ \/ \E p \in (exists \ {editor.of}) \cup {NoParent} : SetValue("parentId", p)
       \/ \E t \in CapabilityType : SetValue("type", t)
       \/ \E s \in LifecycleStatus : SetValue("lifecycleStatus", s)
       \/ \E T \in SUBSET Tags : SetValue("tags", T)
    /\ UNCHANGED <<vars, detail, reading>>

-----------------------------------------------------------------------------
(* The save *)

\* buildCreateCapabilityInput and buildUpdateCapabilityInput.
CapabilityInput(values) ==
    [parentId |-> values.parentId, type |-> values.type, lifecycleStatus |-> values.lifecycleStatus,
     isErroneous |-> FALSE, tags |-> SplitMultiValueField(values.tags)]

SaveBody ==
    [op |-> IF editor.on = "CREATE" THEN "CREATE" ELSE "UPDATE", affected |-> {editor.of},
     target |-> NoParent, fields |-> FormColumns, row |-> CapabilityInput(editor.values)]

HandleSubmit(h) ==
    /\ FormShown /\ ~editor.saving
    /\ Begin(h, SaveBody)
    /\ editor' = [editor EXCEPT !.saving = TRUE]
    /\ UNCHANGED <<detail, reading>>

Disturbed(d) == IF d = NoDetail THEN d ELSE [d EXCEPT !.quiet = FALSE]
Overwritten(d) == IF d = NoDetail THEN d ELSE [d EXCEPT !.quiet = FALSE, !.current = FALSE]

Saving == editor # NoEditor /\ editor.saving /\ ~editor.committed

SaveCommits(h) ==
    /\ Saving
    /\ UpdateCapability(h) \/ CreateCapability(h)
    /\ editor' = [editor EXCEPT !.committed = TRUE]
    /\ detail' = Overwritten(detail) /\ reading' = Overwritten(reading)

SaveFails(h) ==
    /\ Saving
    /\ Abort(h)
    /\ editor' = [editor EXCEPT !.saving = FALSE]
    /\ UNCHANGED <<detail, reading>>

\* removeQueries: nothing of what was read before is kept.
RemoveQueries(d) == NoDetail

SaveSucceeds ==
    /\ editor # NoEditor /\ editor.committed
    /\ editor' = [editor EXCEPT !.on = "DETAIL", !.saving = FALSE, !.committed = FALSE]
    /\ detail' = RemoveQueries(detail) /\ reading' = RemoveQueries(reading)
    /\ UNCHANGED vars

\* The answer is lost: the form shows an error, and the cache keeps what it has.
SaveAnswerLost ==
    /\ editor # NoEditor /\ editor.committed
    /\ editor' = [editor EXCEPT !.saving = FALSE, !.committed = FALSE]
    /\ UNCHANGED <<vars, detail, reading>>

OthersSave ==
    /\ ~Saving
    /\ Writers(MeantimeBodies)
    /\ LET changed == exists' # exists \/ capability' # capability
           After(d) == IF changed THEN Disturbed(d) ELSE d IN
         detail' = After(detail) /\ reading' = After(reading)
    /\ UNCHANGED editor

EditorNext ==
    \/ OpenEditor \/ CloseEditor
    \/ ReadDetail \/ DetailArrives
    \/ UpdateValue
    \/ \E h \in Handlers : HandleSubmit(h) \/ SaveCommits(h) \/ SaveFails(h)
    \/ SaveSucceeds \/ SaveAnswerLost
    \/ OthersSave

EditorSpec == Init /\ EditorInit /\ [][EditorNext]_editorVars

-----------------------------------------------------------------------------
(* Properties *)

EditorTypeOK ==
    /\ editor \in Editor \cup {NoEditor}
    /\ detail \in Detail \cup {NoDetail} /\ reading \in Detail \cup {NoDetail}

\* The form sends every column, so a save also writes those the user has left
\* alone.  When nothing was committed since the capability was read, it sends them
\* as they are, however often the form was filled before, but for entries that it
\* splits.  (The effect on initialValues, buildUpdateCapabilityInput, update.)
SaveSendsOnlyEdits ==
    [][\A h \in Handlers :
         HandleSubmit(h) /\ editor.on = "EDIT" /\ detail.quiet =>
           LET sent == open'[h].row
               kept == capability[editor.of] IN
             /\ \A f \in {"parentId", "type", "lifecycleStatus"} \ editor.edited : sent[f] = kept[f]
             /\ "tags" \notin editor.edited => sent.tags = SplitMultiValueField(kept.tags)]_editorVars

\* A refetch takes away what the user has typed only if something was committed
\* between the two reads.  (useCapability, useMemo, the effect of CapabilityForm.)
EditsSurvive ==
    [][DetailArrives /\ editor # NoEditor /\ editor.edited # {} =>
         editor' = editor \/ ~reading.same]_editorVars

\* The page that follows a successful save never shows the capability as it was
\* before it, even if a read was on its way.  (useUpdateCapability: removeQueries.)
SavedIsShown ==
    editor # NoEditor /\ editor.on = "DETAIL" /\ detail # NoDetail => detail.current

\* What is cached and shown of the capability, in its parts.
DetailIsRight == EditorTypeOK /\ SavedIsShown
=============================================================================

----------------------------- MODULE MappingsPage ------------------------------
(***************************************************************************)
(* The list of all mappings and the mappings of one capability's page, the *)
(* dialogs that add and edit a mapping, and the registry of mappings that  *)
(* other clients change as well.                                           *)
(* Source: MappingsPage.tsx, CapabilityDetailPage.tsx, AddMappingDialog,   *)
(* EditMappingDialog, MappingTable, web api/mappings.ts, mapping.service.  *)
(*                                                                         *)
(* A list is one entry of the query cache.  The dialogs are modal: while   *)
(* one is open nothing but it, and the browser's own buttons, can be used. *)
(* details stands for the type, the name of the system and the notes.      *)
(***************************************************************************)
EXTENDS Integers, FiniteSets

CONSTANTS
    Mappings, Capabilities, Systems, MappingState, Details,
    MappingTables,   \* the tables a behaviour may start with
    InitialRetired,  \* and the sets of capabilities that may be retired then
    Filters,         \* the filters of the list of all mappings
    DialogDefaults,  \* the values of an empty dialog, for state and details
    Blank,           \* no filter, no system entered
    NoMapping, NoData, NoDialog,
    NoFetch, Unanswered, \* a list query that is not in flight, or not answered
    MaxVisits,       \* how many times another list is opened
    MaxMappingEvents \* how many edits, requests, refetches, losses and changes by others

VARIABLES
    row,       \* the table
    usedIds,   \* the ids that have been given out
    retired,   \* the capabilities that are RETIRED
    shown,     \* the list on screen
    cache,     \* the lists read so far
    fetches,   \* for each list the query in flight: NoFetch, Unanswered or its answer
    dialog,    \* the dialog that is open
    requests,  \* the requests of the page
    visits, clicks

tables == <<row, usedIds, retired>>
screenVars == <<shown, cache, fetches, dialog>>
bounds == <<visits, clicks>>
mappingVars == <<tables, screenVars, requests, bounds>>

MappingRow == [capability : Capabilities, system : Systems, state : MappingState, details : Details]

AllMappings == [capability |-> Blank, system |-> Blank, state |-> Blank]
OfCapability(c) == [AllMappings EXCEPT !.capability = c]
Queries == Filters \cup {AllMappings} \cup {OfCapability(c) : c \in Capabilities}

IsCapabilityPage(q) == q.capability # Blank

StoredMappings == {m \in Mappings : row[m] # NoMapping}

\* findAll, findByCapability.
Matching(q) ==
    [m \in {n \in StoredMappings : \A f \in DOMAIN q : q[f] \in {Blank, row[n][f]}} |-> row[m]]

MappingEvent == clicks < MaxMappingEvents /\ clicks' = clicks + 1 /\ UNCHANGED visits

\* The fields of the dialogs.  The state and the details can be changed later.
Columns == {"state", "details"}

\* Of a list: its rows, whether it is stale, and, of the specification, what has
\* changed since it was read that the page was not told of.
Entry(rows) == [rows |-> rows, stale |-> FALSE, untold |-> {}]

Entries ==
    [rows : UNION {[S -> MappingRow] : S \in SUBSET Mappings}, stale : BOOLEAN,
     untold : SUBSET {"foreign", "misdirected", "uncancelled"}]

Dialogs ==
    [kind : {"create", "update"}, of : Mappings \cup {Blank}, read : MappingRow \cup {NoMapping},
     system : Systems \cup {Blank}, values : [state : MappingState, details : Details],
     typed : SUBSET {"state", "details", "system"}, submitted : BOOLEAN]

\* What the constants have to be: the filters of the list of all mappings name no
\* capability, tables and dialogs start with values of the enumerations, and what
\* stands for a list or a dialog that is not there is none.
ConstantsOK ==
    /\ MappingTables \subseteq [Mappings -> MappingRow \cup {NoMapping}]
    /\ InitialRetired \subseteq SUBSET Capabilities
    /\ Filters \subseteq [capability : {Blank}, system : Systems \cup {Blank}, state : MappingState \cup {Blank}]
    /\ DialogDefaults \in [state : MappingState, details : Details]
    /\ \A e \in {NoData, NoFetch, Unanswered} : e \notin Entries
    /\ NoFetch # Unanswered /\ NoDialog \notin Dialogs

ASSUME ConstantsAssumption == ConstantsOK

Stale(q) == IF cache[q] = NoData THEN TRUE ELSE cache[q].stale

PageInit ==
    /\ row \in MappingTables
    /\ usedIds = StoredMappings
    /\ retired \in InitialRetired
    /\ shown \in Queries \ Filters
    /\ cache = [q \in Queries |-> NoData]
    /\ fetches = [q \in Queries |-> IF q = shown THEN Unanswered ELSE NoFetch]
    /\ dialog = NoDialog
    /\ requests = {}
    /\ visits = 0 /\ clicks = 0

-----------------------------------------------------------------------------
(* The lists *)

InFlight(q) == fetches[q] # NoFetch

MappingsServed(q) ==
    /\ fetches[q] = Unanswered
    /\ fetches' = [fetches EXCEPT ![q] = Entry(Matching(q))]
    /\ UNCHANGED <<tables, shown, cache, dialog, requests, bounds>>

MappingsAnswered(q) ==
    /\ InFlight(q) /\ fetches[q] # Unanswered
    /\ cache' = [cache EXCEPT ![q] = fetches[q]]
    /\ fetches' = [fetches EXCEPT ![q] = NoFetch]
    /\ UNCHANGED <<tables, shown, dialog, requests, bounds>>

\* Retry, or the window gets the focus back after the list has become old.
RefetchMappings ==
    /\ MappingEvent
    /\ ~InFlight(shown)
    /\ fetches' = [fetches EXCEPT ![shown] = Unanswered]
    /\ UNCHANGED <<tables, shown, cache, dialog, requests>>

\* A change that the page makes without telling a list, or does not know of.
Untold(entry, kind) ==
    IF entry \in {NoData, NoFetch, Unanswered} THEN entry ELSE [entry EXCEPT !.untold = @ \cup {kind}]

Affected == {q \in Queries : Matching(q)' # Matching(q)}

ChangeUntold(kind, lists) ==
    /\ cache' = [q \in Queries |-> IF q \in lists THEN Untold(cache[q], kind) ELSE cache[q]]
    /\ fetches' = [q \in Queries |-> IF q \in lists THEN Untold(fetches[q], kind) ELSE fetches[q]]

\* Mutant: only the lists of all mappings.
InvalidatedAll(c) == {q \in Queries : ~IsCapabilityPage(q)}

\* All lists of mappings, and that of the capability the request names.
Invalidated(c) == {q \in Queries : ~IsCapabilityPage(q)} \cup {OfCapability(c)}

\* invalidateQueries: the list on screen is fetched anew, a fetch under way is
\* abandoned, but not the first one, nor that of a list that is off screen.
InvalidateLists(c) ==
    /\ cache' = [q \in Queries |-> IF q \in Invalidated(c) /\ cache[q] # NoData
                                   THEN [cache[q] EXCEPT !.stale = TRUE] ELSE cache[q]]
    /\ fetches' = [q \in Queries |->
            IF q \notin Invalidated(c) THEN fetches[q]
            ELSE IF q = shown /\ (cache[q] # NoData \/ ~InFlight(q)) THEN Unanswered
            ELSE Untold(fetches[q], "uncancelled")]

-----------------------------------------------------------------------------
(* The pages and their dialogs *)

\* typed: the columns changed since the dialog was filled; submitted: the request
\* under way was made of it.
Dialog(kind, m, read, values) ==
    [kind |-> kind, of |-> m, read |-> read, system |-> Blank, values |-> values, typed |-> {},
     submitted |-> FALSE]

\* The effects over isOpen and the mapping.
AddDialog == Dialog("create", Blank, NoMapping, DialogDefaults)
EditDialog(m, r) == Dialog("update", m, r, [f \in Columns |-> r[f]])

\* The page of another capability is the same component: its dialog stays open,
\* filled anew when the capability has yet to be loaded.
Reopened == IF dialog.kind = "create" THEN AddDialog ELSE EditDialog(dialog.of, dialog.read)

Show(q) ==
    /\ q # shown /\ visits < MaxVisits /\ visits' = visits + 1
    /\ (~IsCapabilityPage(q) /\ q # AllMappings) => (~IsCapabilityPage(shown) /\ dialog = NoDialog)
    /\ shown' = q
    /\ fetches' = IF ~InFlight(q) /\ Stale(q) THEN [fetches EXCEPT ![q] = Unanswered] ELSE fetches
    /\ IF IsCapabilityPage(q) <=> IsCapabilityPage(shown)
       THEN /\ dialog' \in IF dialog = NoDialog THEN {NoDialog} ELSE {dialog, Reopened}
            /\ UNCHANGED requests
       ELSE /\ dialog' = NoDialog
            /\ requests' = {[c EXCEPT !.mounted = FALSE] : c \in requests}
    /\ UNCHANGED <<tables, cache, clicks>>

OnPage == UNCHANGED <<tables, shown, cache, fetches>>

OpenAdd ==
    /\ dialog = NoDialog /\ IsCapabilityPage(shown)
    /\ dialog' = AddDialog
    /\ OnPage /\ UNCHANGED <<requests, bounds>>

Rows == IF cache[shown] = NoData THEN {} ELSE DOMAIN cache[shown].rows

OpenEdit(m) ==
    /\ dialog = NoDialog /\ m \in Rows
    /\ dialog' = EditDialog(m, cache[shown].rows[m])
    /\ OnPage /\ UNCHANGED <<requests, bounds>>

\* The Escape key and the backdrop work during a request too.
CloseDialog ==
    /\ dialog # NoDialog
    /\ dialog' = NoDialog
    /\ OnPage /\ UNCHANGED <<requests, bounds>>

\* Mutant: the fields stay enabled.
NothingPending(kind) == FALSE

\* isPending of the mutation of this page, whichever dialog it was made of.
CallPending(kind) == \E c \in requests : c.kind = kind /\ c.mounted /\ ~c.lost

Editable(kind) ==
    /\ dialog # NoDialog
    /\ dialog.kind = kind /\ ~CallPending(kind)

SetField(f, v) == dialog' = [dialog EXCEPT !.values[f] = v, !.typed = @ \cup {f}]

TypeValues ==
    \/ \E v \in MappingState \ {dialog.values.state} : SetField("state", v)
    \/ \E v \in Details \ {dialog.values.details} : SetField("details", v)

TypeInAdd ==
    /\ MappingEvent
    /\ Editable("create")
    /\ \/ TypeValues
       \/ \E s \in Systems \ {dialog.system} :
            dialog' = [dialog EXCEPT !.system = s, !.typed = @ \cup {"system"}]
    /\ OnPage /\ UNCHANGED requests

\* What is typed for the system is not sent.
TypeInEdit ==
    /\ MappingEvent
    /\ Editable("update")
    /\ TypeValues
    /\ OnPage /\ UNCHANGED requests

\* capability: whose list the hook is to invalidate.
Call(kind, m, capability) ==
    [n |-> clicks, kind |-> kind, of |-> m, capability |-> capability, system |-> Blank,
     values |-> DialogDefaults, step |-> "sent", mounted |-> TRUE, lost |-> FALSE]

CapabilityOf(r) == IF IsCapabilityPage(shown) THEN shown.capability ELSE r.capability

SendCall(c) ==
    /\ MappingEvent
    /\ requests' = requests \cup {[c EXCEPT !.values = dialog.values]}
    /\ dialog' = [dialog EXCEPT !.submitted = TRUE]
    /\ OnPage

\* mappingFormValuesToCreateInput: for the capability of the page.
SubmitAdd ==
    /\ Editable("create") /\ dialog.system # Blank
    /\ SendCall([Call("create", Blank, shown.capability) EXCEPT !.system = dialog.system])

\* mappingFormValuesToUpdateInput: all columns, also those that were not typed.
SubmitEdit ==
    /\ Editable("update")
    /\ SendCall(Call("update", dialog.of, CapabilityOf(dialog.read)))

\* Confirmed.
ClickDeleteMapping(m) ==
    /\ MappingEvent
    /\ dialog = NoDialog /\ m \in Rows
    /\ requests' = requests \cup {Call("delete", m, CapabilityOf(cache[shown].rows[m]))}
    /\ OnPage /\ UNCHANGED dialog

\* onSuccess of the mutations, and what the page does after it.
AfterCall(c) ==
    IF dialog = NoDialog THEN dialog
    ELSE IF dialog.kind # c.kind \/ ~c.mounted THEN dialog
    ELSE IF c.step = "done" THEN NoDialog ELSE [dialog EXCEPT !.submitted = FALSE]

CallAnswered(c) ==
    /\ c.step \in {"done", "failed"} /\ ~c.lost
    /\ requests' = requests \ {c}
    /\ dialog' = AfterCall(c)
    /\ IF c.step = "done" THEN InvalidateLists(c.capability) ELSE UNCHANGED <<cache, fetches>>
    /\ UNCHANGED <<tables, shown, bounds>>

\* The connection breaks: the page shows an error, the server goes on.
CallLost(c) ==
    /\ MappingEvent
    /\ ~c.lost
    /\ requests' = (requests \ {c}) \cup
                (IF c.step \in {"sent", "checked"} THEN {[c EXCEPT !.lost = TRUE]} ELSE {})
    /\ dialog' = AfterCall([c EXCEPT !.step = "failed"])
    /\ IF c.step = "done" THEN ChangeUntold("foreign", Queries) ELSE UNCHANGED <<cache, fetches>>
    /\ UNCHANGED <<tables, shown>>

-----------------------------------------------------------------------------
(* The server *)

Insert(m, r) == /\ row' = [row EXCEPT ![m] = r]
                /\ usedIds' = usedIds \cup {m}
UpdateColumns(m, columns, values) ==
    row' = [row EXCEPT ![m] = [f \in DOMAIN @ |-> IF f \in columns THEN values[f] ELSE @[f]]]
Remove(m) == row' = [row EXCEPT ![m] = NoMapping]

\* Nobody waits for the answer of a lost request.
Finish(c, step) ==
    requests' = (requests \ {c}) \cup (IF c.lost THEN {} ELSE {[c EXCEPT !.step = step]})

Fail(c) == Finish(c, "failed") /\ UNCHANGED <<tables, cache, fetches>>

\* What the page will not be told of a write: all of a lost one, and the list of the
\* mapping's capability when the request names another.
Wrote(c, capability) ==
    /\ Finish(c, "done")
    /\ UNCHANGED retired
    /\ IF c.lost THEN ChangeUntold("foreign", Affected)
       ELSE IF capability = c.capability THEN UNCHANGED <<cache, fetches>>
       ELSE ChangeUntold("misdirected", {OfCapability(capability)})

\* create reads the capability and inserts later.
CheckCapability(c) ==
    /\ c.kind = "create" /\ c.step = "sent"
    /\ \/ c.capability \notin retired /\ requests' = (requests \ {c}) \cup {[c EXCEPT !.step = "checked"]}
       \/ c.capability \in retired /\ Finish(c, "failed")
    /\ UNCHANGED <<tables, screenVars, bounds>>

CreateMapping(c) ==
    /\ c.kind = "create" /\ c.step = "checked"
    /\ \E m \in Mappings \ usedIds :
         Insert(m, [capability |-> c.capability, system |-> c.system,
                    state |-> c.values.state, details |-> c.values.details])
    /\ Wrote(c, c.capability)
    /\ UNCHANGED <<shown, dialog, bounds>>

\* update sets the columns it is given; P2025 when there is no such row.
UpdateMapping(c) ==
    /\ c.kind = "update" /\ c.step = "sent"
    /\ IF row[c.of] = NoMapping THEN Fail(c)
       ELSE UpdateColumns(c.of, Columns, c.values) /\ UNCHANGED usedIds /\ Wrote(c, row[c.of].capability)
    /\ UNCHANGED <<shown, dialog, bounds>>

DeleteMapping(c) ==
    /\ c.kind = "delete" /\ c.step = "sent"
    /\ IF row[c.of] = NoMapping THEN Fail(c)
       ELSE Remove(c.of) /\ UNCHANGED usedIds /\ Wrote(c, row[c.of].capability)
    /\ UNCHANGED <<shown, dialog, bounds>>

\* Other clients, and the change requests that merge and retire capabilities.
OtherMappingClient ==
    /\ MappingEvent
    /\ \/ \E m \in StoredMappings, s \in MappingState : UpdateColumns(m, {"state"}, [state |-> s]) /\ UNCHANGED <<usedIds, retired>>
       \/ \E m \in StoredMappings : Remove(m) /\ UNCHANGED <<usedIds, retired>>
       \/ \E m \in Mappings \ usedIds, c \in Capabilities \ retired, s \in Systems :
            Insert(m, [capability |-> c, system |-> s, state |-> DialogDefaults.state,
                       details |-> DialogDefaults.details]) /\ UNCHANGED retired
       \/ \E from, to \in Capabilities \ retired :
            /\ from # to
            /\ row' = [m \in Mappings |-> IF m \in StoredMappings /\ row[m] # NoMapping /\ row[m].capability = from
                                          THEN [row[m] EXCEPT !.capability = to] ELSE row[m]]
            /\ retired' = retired \cup {from} /\ UNCHANGED usedIds
    /\ ChangeUntold("foreign", Affected)
    /\ UNCHANGED <<shown, dialog, requests>>

PageNext ==
    \/ \E q \in Queries : MappingsServed(q) \/ MappingsAnswered(q) \/ Show(q)
    \/ RefetchMappings \/ OpenAdd \/ CloseDialog \/ TypeInAdd \/ TypeInEdit \/ SubmitAdd \/ SubmitEdit
    \/ \E m \in Mappings : OpenEdit(m) \/ ClickDeleteMapping(m)
    \/ \E c \in requests :
         \/ CallAnswered(c) \/ CallLost(c)
         \/ CheckCapability(c) \/ CreateMapping(c) \/ UpdateMapping(c) \/ DeleteMapping(c)
    \/ OtherMappingClient

PageSpec == PageInit /\ [][PageNext]_mappingVars

-----------------------------------------------------------------------------
(* Properties *)

MappingsTypeOK ==
    /\ row \in [Mappings -> MappingRow \cup {NoMapping}] /\ StoredMappings \subseteq usedIds /\ retired \subseteq Capabilities
    /\ \A kind \in {"create", "update"} : Cardinality({c \in requests : c.kind = kind /\ c.mounted /\ ~c.lost}) <= 1
    /\ \A q \in Queries : cache[q] = NoData \/ DOMAIN cache[q].rows \subseteq usedIds

\* Once the requests of the page are answered a list that counts as fresh shows what
\* the server has, whatever the page did meanwhile, unless something has changed that
\* the page was not told of.  (useCreateMapping, useUpdateMapping, useDeleteMapping.)
SettledListIsCurrent ==
    \A q \in Queries :
      /\ \A c \in requests : c.lost
      /\ ~InFlight(q) /\ ~Stale(q) /\ cache[q].untold = {}
      => cache[q].rows = Matching(q)

\* The lists of mappings: their types, and that they are current.
MappingsAreRight == MappingsTypeOK /\ SettledListIsCurrent

\* An answer that comes late, when its dialog was closed and another one opened,
\* takes away nothing that the user has typed.
\* (handleUpdateMapping, handleCreateMapping, handleEdit; disabled={isPending}.)
TypedSurvives ==
    [][\A c \in requests :
         CallAnswered(c) /\ dialog # NoDialog /\ dialog' = NoDialog => dialog.submitted \/ dialog.typed = {}]_mappingVars

\* Does not hold: the dialog of a save closes before the list is fetched again, and
\* what Edit opens then holds, and sends, the values from before that save.
\* A dialog opens with what the page has saved.
EditShowsEarlierSave ==
    [][\A m \in Mappings :
         OpenEdit(m) /\ requests = {} /\ cache[shown].untold = {} /\ row[m] # NoMapping =>
           dialog'.read = row[m]]_mappingVars

\* Does not hold: a dialog that was taken along to the page of another capability
\* has the list of that one fetched.
\* All that the page saves is shown in its lists.
EverySaveIsShown ==
    \A q \in Queries :
      /\ \A c \in requests : c.lost
      /\ ~InFlight(q) /\ ~Stale(q) /\ cache[q].untold \subseteq {"misdirected"}
      => cache[q].rows = Matching(q)
=============================================================================

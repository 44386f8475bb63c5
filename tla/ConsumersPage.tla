----------------------------- MODULE ConsumersPage -----------------------------
(***************************************************************************)
(* The page on which an integration engineer registers, edits and deletes  *)
(* consumers, against the registry that other clients change as well.  The *)
(* form holds the values of one consumer or of a new one; an effect loads  *)
(* it again whenever the list behind it changes.  Edit and Delete stay     *)
(* enabled while a save is under way, and the answer of the save resets    *)
(* the form, whatever it holds by then.                                    *)
(* Source: IntegrationConsumersPage.tsx, web api/integration.ts.           *)
(***************************************************************************)
EXTENDS DownstreamConsumers

CONSTANTS
    Idle, Waiting,  \* a list query that is not in flight, or not answered
    OtherDtos,      \* the bodies of the PATCH requests of other clients
    MaxEvents       \* how many edits, requests and losses happen

\* The defaults of the form are members of the enumerations, and the bodies of other
\* clients have passed the validation of the interface.
ASSUME FormAssumption ==
    /\ "REST_API" \in ContractTypes
    /\ "HEALTHY" \in HealthStatus
    /\ \A dto \in OtherDtos : IsPartial(dto)

VARIABLES
    list,       \* the consumers the page shows
    fetch,      \* the list query in flight: Idle, Waiting or its answer
    editing,    \* editingConsumerId
    form,       \* formState; of: whose values it was loaded from, typed: edited since
    calls,      \* the page's own requests: key n, kind, consumer, whose values, editing at the click
    events

pageVars == <<list, fetch, editing, form, calls, events>>
vars == <<serverVars, pageVars>>

Event == events < MaxEvents /\ events' = events + 1

\* The first profile that supports the contract type.
SelectPreferredProfileId(contractType) ==
    Profiles[CHOOSE i \in DOMAIN Profiles :
               /\ contractType \in SupportedContractTypes[Profiles[i]]
               /\ \A j \in 1..(i - 1) : contractType \notin SupportedContractTypes[Profiles[j]]]

InitialValues ==
    [name |-> Unset, contractType |-> "REST_API", healthStatus |-> "HEALTHY",
     transformationProfile |-> SelectPreferredProfileId("REST_API")]

FormOf(i, row) == [of |-> i, values |-> row, typed |-> FALSE]
InitialForm == FormOf(Unset, InitialValues)

Shown == {i \in Ids : list[i] # NoRow}

Init ==
    /\ ServerInit
    /\ list = rows
    /\ fetch = Idle
    /\ editing = Unset
    /\ form = InitialForm
    /\ calls = {}
    /\ events = 0

\* Mutant: the form keeps the consumer it was editing.
ClearForm ==
    form' = InitialForm /\ UNCHANGED editing

ResetForm == editing' = Unset /\ form' = InitialForm

BeginEditing(i) ==
    /\ i \in Shown
    /\ editing' = i
    /\ form' = FormOf(i, list[i])
    /\ UNCHANGED <<serverVars, list, fetch, calls, events>>

CancelEdit ==
    /\ editing # Unset
    /\ ResetForm
    /\ UNCHANGED <<serverVars, list, fetch, calls, events>>

\* A change of the contract type takes a profile along that supports it.
HandleContractTypeChange(contractType) ==
    [form.values EXCEPT
        !.contractType = contractType,
        !.transformationProfile =
            IF contractType \in SupportedContractTypes[@] THEN @ ELSE SelectPreferredProfileId(contractType)]

Edit ==
    /\ Event
    /\ \E values \in {[form.values EXCEPT !.name = name] : name \in Names}
                     \cup {HandleContractTypeChange(t) : t \in ContractTypes}
                     \cup {[form.values EXCEPT !.transformationProfile = p] : p \in ProfileIds}
                     \cup {[form.values EXCEPT !.healthStatus = s] : s \in HealthStatus} :
          /\ values # form.values
          /\ form' = [form EXCEPT !.values = values, !.typed = TRUE]
    /\ UNCHANGED <<serverVars, list, fetch, editing, calls>>

\* Mutant: the buttons stay enabled.
NeverPending(kind) == FALSE

Pending(kind) == \E c \in calls : c.kind = kind

Send(h, kind, i) ==
    /\ Event
    /\ Receive(h, kind, i, form.values, events)
    /\ calls' = calls \cup {[n |-> events, kind |-> kind, id |-> i, of |-> form.of, editing |-> editing]}
    /\ UNCHANGED <<list, fetch, editing, form>>

\* handleSubmit: disabled while a save is under way; the name is required.
Submit(h) ==
    /\ ~Pending("create") /\ ~Pending("update")
    /\ form.values.name # Unset
    /\ Send(h, IF editing = Unset THEN "create" ELSE "update", editing)

\* handleDelete, confirmed.
ClickDelete(h) == \E i \in Shown : Send(h, "delete", i)

\* The onSuccess of the three mutations: the list is fetched anew.
InvalidateList == fetch' = Waiting

\* A save that succeeded resets the form, a delete only if it was the consumer
\* being edited when Delete was clicked.
Answered(h) ==
    \E c \in calls :
        /\ Finished(h) /\ request[h].n = c.n
        /\ Release(h)
        /\ calls' = calls \ {c}
        /\ IF request[h].step = "done"
           THEN /\ InvalidateList
                /\ IF c.kind # "delete" \/ c.editing = c.id THEN ResetForm ELSE UNCHANGED <<editing, form>>
           ELSE UNCHANGED <<fetch, editing, form>>
        /\ UNCHANGED <<rows, used, list, events>>

\* The connection breaks: the page shows an error, the server goes on.
Lost ==
    /\ Event
    /\ \E c \in calls : calls' = calls \ {c}
    /\ UNCHANGED <<serverVars, list, fetch, editing, form>>

AnswerDropped(h) ==
    /\ Finished(h)
    /\ ~\E c \in calls : c.n = request[h].n
    /\ Release(h)
    /\ UNCHANGED <<rows, used, pageVars>>

\* The window gets the focus again after the data became old, or Retry is clicked.
Refetch ==
    /\ fetch = Idle /\ fetch' = Waiting
    /\ UNCHANGED <<serverVars, list, editing, form, calls, events>>

ListServed ==
    /\ fetch = Waiting /\ fetch' = rows
    /\ UNCHANGED <<serverVars, list, editing, form, calls, events>>

\* The effect over the list and the consumer being edited: it loads the form again
\* when a row, or the delivery history shown with it, has changed.  A consumer that
\* is gone from the list leaves the form as it is.
ReloadForm(newList) ==
    IF editing \in {i \in Ids : newList[i] # NoRow}
    THEN \/ form' = FormOf(editing, newList[editing])
         \/ newList = list /\ UNCHANGED form
    ELSE UNCHANGED form

ListAnswered ==
    /\ fetch \notin {Idle, Waiting}
    /\ list' = fetch /\ fetch' = Idle
    /\ ReloadForm(fetch)
    /\ UNCHANGED <<serverVars, editing, calls, events>>

\* Another client of the interface: a PATCH of some fields, or a DELETE.
OtherClient(h) ==
    /\ Event
    /\ \E i \in Ids :
          \/ \E dto \in OtherDtos : Receive(h, "update", i, dto, events)
          \/ i \in Stored /\ Receive(h, "delete", i, form.values, events)
    /\ UNCHANGED <<list, fetch, editing, form, calls>>

Next ==
    \/ \E i \in Ids : BeginEditing(i)
    \/ CancelEdit \/ Edit \/ Lost \/ Refetch \/ ListServed \/ ListAnswered
    \/ \E h \in Handlers :
          \/ Submit(h) \/ ClickDelete(h) \/ Answered(h) \/ AnswerDropped(h) \/ OtherClient(h)
          \/ Serve(h) /\ UNCHANGED pageVars

Spec == Init /\ [][Next]_vars
-----------------------------------------------------------------------------
\* Tables, requests and page hold what the code can put there; the page has one
\* save under way at most.
TypeOK ==
    /\ \A i \in Ids : rows[i] \in Row \cup {NoRow} /\ list[i] \in Row \cup {NoRow}
    /\ Stored \subseteq used
    /\ editing \in Ids \cup {Unset}
    /\ form.values.contractType \in ContractTypes \cup {"REST_API"}
    /\ Cardinality({c \in calls : c.kind # "delete"}) <= 1

\* A save writes to the consumer whose values the form was loaded from, and a
\* registration takes nothing from an existing one, whichever Edit, Delete, Cancel
\* and late answers have changed the form since.
SavesOwnValues == \A c \in calls : c.kind # "delete" => c.of = c.id \/ (c.kind = "create" /\ c.of = Unset)

\* A form in which nothing has been typed shows the consumer being edited as the
\* list shows it, however often the list has changed underneath.
FormShowsListedRow ==
    editing # Unset /\ ~form.typed /\ list[editing] # NoRow =>
        form.of = editing /\ form.values = list[editing]

\* The form and the requests made of it belong to the consumer they were loaded from.
FormBelongsToRow == TypeOK /\ SavesOwnValues /\ FormShowsListedRow

\* What is stored can be delivered to, and what the form shows and saves is of
\* the consumer it was loaded from.
ConsumersAreRight == ProfileSupportsContract /\ FormBelongsToRow
=============================================================================

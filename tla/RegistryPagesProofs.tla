-------------------------- MODULE RegistryPagesProofs --------------------------
(***************************************************************************)
(* Theorems about ConsumersPage and MappingsPage, the two pages that edit  *)
(* a registry in a list and a dialog, for any numbers of consumers, names, *)
(* mappings, capabilities, lists, requests served at a time and bodies of  *)
(* other clients.  The pages share nothing, and each has its own invariant.*)
(*                                                                         *)
(* Why a stored profile supports its contract type although two PATCHes    *)
(* overlap: the profile is resolved against the very contract type that    *)
(* the same statement writes.  Why a save is of its own consumer: the form *)
(* is loaded from the consumer being edited in every step that changes     *)
(* either of the two.                                                      *)
(*                                                                         *)
(* Why the lists of mappings are current: whatever is written either       *)
(* belongs to a request whose answer is still to come, and the answer      *)
(* makes the list stale, or it is recorded with the list that nobody will  *)
(* tell it.  Why nothing typed is lost: the dialog whose kind has a request*)
(* under way is the one it was made of, or nothing can be typed in it.     *)
(***************************************************************************)
EXTENDS ConsumersPage, MappingsPage, FiniteSetTheorems, TLAPS

-----------------------------------------------------------------------------
(* The page of the consumers *)

FormValues ==
    [name : Names \cup {Unset}, contractType : ContractTypes,
     transformationProfile : ProfileIds, healthStatus : HealthStatus]

Request ==
    [op : {"create", "update", "delete"}, id : Ids \cup {Unset}, dto : FormValues \cup OtherDtos,
     n : Nat, step : {"received", "read", "written", "done", "refused"}, row : Row \cup {NoRow}]

\* A registration has all columns of the form, and a row that has been read is one.
RequestOK(r) ==
    /\ r \in Request
    /\ r.op = "create" => r.dto \in FormValues
    /\ r.step = "read" => r.row \in Row

ServerOK ==
    /\ rows \in Tables
    /\ used \subseteq Ids /\ Stored \subseteq used
    /\ request \in [Handlers -> Request \cup {NoRequest}]
    /\ \A h \in Handlers : request[h] = NoRequest \/ RequestOK(request[h])
    /\ ProfileSupportsContract

\* The form belongs to the consumer being edited.
FormOK ==
    /\ editing \in Ids \cup {Unset}
    /\ form \in [of : Ids \cup {Unset}, values : FormValues, typed : BOOLEAN]
    /\ form.of = editing
    /\ FormShowsListedRow

Saves == {c \in calls : c.kind # "delete"}

ConsumerCallsOK ==
    /\ \A c \in calls : c.kind \in {"create", "update", "delete"}
    /\ \A c \in Saves : c.of = c.id
    /\ \A c, d \in Saves : c = d

ConsumerListsOK == list \in Tables /\ fetch \in Tables \cup {Idle, Waiting}

ConsumersInv == ServerOK /\ FormOK /\ ConsumerCallsOK /\ ConsumerListsOK /\ events \in Nat

-----------------------------------------------------------------------------
(* Profiles and rows *)

LEMMA ContractTypeKnown ==
    ASSUME NEW t \in ContractTypes
    PROVE  t \in AllContractTypes
  BY ContractTypesKnown

LEMMA ThreeProfiles ==
    /\ DOMAIN Profiles = {1, 2, 3}
    /\ Profiles[1] = "published-model-v1" /\ Profiles[2] = "capability-delta-v1"
    /\ Profiles[3] = "release-summary-v1"
    /\ ProfileIds = {"published-model-v1", "capability-delta-v1", "release-summary-v1"}
<1>1. DOMAIN Profiles = {1, 2, 3}
  BY DEF Profiles
<1>2. /\ Profiles[1] = "published-model-v1" /\ Profiles[2] = "capability-delta-v1"
      /\ Profiles[3] = "release-summary-v1"
  BY DEF Profiles
<1>3. QED
  BY <1>1, <1>2 DEF ProfileIds

LEMMA Supported ==
    /\ SupportedContractTypes["published-model-v1"] = {"REST_API", "WEBHOOK", "FILE_DROP"}
    /\ SupportedContractTypes["capability-delta-v1"] = {"WEBHOOK", "EVENT_STREAM", "KAFKA", "REST_API"}
    /\ SupportedContractTypes["release-summary-v1"] = {"BATCH_EXPORT", "FILE_DROP", "REST_API"}
  BY ThreeProfiles DEF SupportedContractTypes

\* Every contract type has a profile that supports it.
LEMMA PreferredIsProfile ==
    ASSUME NEW t \in ContractTypes
    PROVE  SelectPreferredProfileId(t) \in ProfileIds
<1> DEFINE First(i) ==
        /\ t \in SupportedContractTypes[Profiles[i]]
        /\ \A j \in 1..(i - 1) : t \notin SupportedContractTypes[Profiles[j]]
<1>1. \E i \in DOMAIN Profiles : First(i)
  <2>1. CASE t \in {"REST_API", "WEBHOOK", "FILE_DROP"}
    <3>1. First(1)
      BY <2>1, ThreeProfiles, Supported
    <3>2. QED
      BY <3>1, ThreeProfiles
  <2>2. CASE t \in {"EVENT_STREAM", "KAFKA"}
    <3>1. t \in SupportedContractTypes[Profiles[2]]
      BY <2>2, ThreeProfiles, Supported
    <3>2. \A j \in 1..1 : j = 1
      OBVIOUS
    <3>3. First(2)
      BY <2>2, <3>1, <3>2, ThreeProfiles, Supported
    <3>4. QED
      BY <3>3, ThreeProfiles
  <2>3. CASE t = "BATCH_EXPORT"
    <3>1. t \in SupportedContractTypes[Profiles[3]]
      BY <2>3, ThreeProfiles, Supported
    <3>2. \A j \in 1..2 : j = 1 \/ j = 2
      OBVIOUS
    <3>3. First(3)
      BY <2>3, <3>1, <3>2, ThreeProfiles, Supported
    <3>4. QED
      BY <3>3, ThreeProfiles
  <2>4. QED
    BY <2>1, <2>2, <2>3, ContractTypeKnown DEF AllContractTypes
<1> DEFINE chosen == CHOOSE i \in DOMAIN Profiles : First(i)
<1>2. chosen \in DOMAIN Profiles
  BY <1>1
<1>3. Profiles[chosen] \in ProfileIds
  BY <1>2 DEF ProfileIds
<1>4. QED
  BY <1>3 DEF SelectPreferredProfileId

LEMMA DefaultIsProfile ==
    ASSUME NEW t \in ContractTypes
    PROVE  DefaultProfile[t] \in ProfileIds
  BY ContractTypeKnown, ThreeProfiles DEF DefaultProfile, AllContractTypes

\* A profile that has been resolved supports the contract type, and is resolved to
\* itself ever after.
LEMMA ResolvedSupports ==
    ASSUME NEW p \in ProfileIds \cup {Unset}, NEW t \in ContractTypes,
           ResolveProfile(p, t) # Unset
    PROVE  /\ ResolveProfile(p, t) \in ProfileIds
           /\ ResolveProfile(ResolveProfile(p, t), t) # Unset
  BY DefaultIsProfile DEF ResolveProfile

\* What create and update write.
LEMMA MergedIsRow ==
    ASSUME NEW dto, NEW existing, Acceptable(Merged(dto, existing)),
           \/ dto \in FormValues /\ existing = Defaults
           \/ IsPartial(dto) /\ existing \in Row
    PROVE  Merged(dto, existing) \in Row /\ Deliverable(Merged(dto, existing))
<1> DEFINE ct == Of(dto, "contractType", existing.contractType)
           pf == Of(dto, "transformationProfile", existing.transformationProfile)
           nm == Of(dto, "name", existing.name)
           hs == Of(dto, "healthStatus", existing.healthStatus)
<1>1. /\ nm \in Names \cup {Unset} /\ ct \in ContractTypes
      /\ pf \in ProfileIds \cup {Unset} /\ hs \in HealthStatus
  <2>1. CASE dto \in FormValues /\ existing = Defaults
    BY <2>1 DEF FormValues, Of
  <2>2. CASE IsPartial(dto) /\ existing \in Row
    BY <2>2 DEF IsPartial, Row, Of
  <2>3. QED
    BY <2>1, <2>2
<1>2. Merged(dto, existing) = [name |-> nm, contractType |-> ct,
        transformationProfile |-> ResolveProfile(pf, ct), healthStatus |-> hs]
  BY DEF Merged
<1> HIDE DEF ct, pf, nm, hs
<1>3. nm # Unset /\ ResolveProfile(pf, ct) # Unset
  BY <1>2 DEF Acceptable
<1>4. ResolveProfile(pf, ct) \in ProfileIds /\ ResolveProfile(ResolveProfile(pf, ct), ct) # Unset
  BY <1>1, <1>3, ResolvedSupports
<1>5. QED
  BY <1>1, <1>2, <1>3, <1>4 DEF Row, Deliverable

-----------------------------------------------------------------------------
(* The server *)

LEMMA BodyIsPartial ==
    ASSUME NEW dto \in FormValues \cup OtherDtos
    PROVE  IsPartial(dto)
  BY FormAssumption DEF IsPartial, FormValues

\* A request that begins.
LEMMA ReceiveKeeps ==
    ASSUME ServerOK, NEW h \in Handlers, NEW op \in {"create", "update", "delete"},
           NEW i \in Ids \cup {Unset}, NEW dto \in FormValues \cup OtherDtos, NEW n \in Nat,
           op = "create" => dto \in FormValues,
           Receive(h, op, i, dto, n)
    PROVE  ServerOK'
<1> DEFINE r == [op |-> op, id |-> i, dto |-> dto, n |-> n, step |-> "received", row |-> NoRow]
<1>1. RequestOK(r)
  BY DEF RequestOK, Request
<1>2. /\ request' = [request EXCEPT ![h] = r]
      /\ UNCHANGED <<rows, used>>
  BY DEF Receive
<1> HIDE DEF r
<1>3. request' \in [Handlers -> Request \cup {NoRequest}]
  BY <1>1, <1>2 DEF ServerOK, RequestOK
<1>4. \A g \in Handlers : request'[g] = NoRequest \/ RequestOK(request'[g])
  BY <1>1, <1>2 DEF ServerOK
<1>5. QED
  BY <1>2, <1>3, <1>4 DEF ServerOK, Stored, ProfileSupportsContract

\* A request that ends.
LEMMA ReleaseKeeps ==
    ASSUME ServerOK, NEW h \in Handlers, Release(h), UNCHANGED <<rows, used>>
    PROVE  ServerOK'
  BY DEF ServerOK, Release, Stored, ProfileSupportsContract

\* A request that goes on.
LEMMA GotoKeeps ==
    ASSUME ServerOK, NEW h \in Handlers, request[h] # NoRequest,
           NEW step \in {"read", "written", "done", "refused"}, NEW next \in Row \cup {NoRow},
           step = "read" => next \in Row,
           Goto(h, step, next)
    PROVE  /\ request' \in [Handlers -> Request \cup {NoRequest}]
           /\ \A g \in Handlers : request'[g] = NoRequest \/ RequestOK(request'[g])
<1> DEFINE r == [request[h] EXCEPT !.step = step, !.row = next]
<1>1. request' = [request EXCEPT ![h] = r]
  BY DEF Goto, ServerOK
<1>2. RequestOK(r)
  BY DEF ServerOK, RequestOK, Request
<1> HIDE DEF r
<1>3. QED
  BY <1>1, <1>2 DEF ServerOK, RequestOK

LEMMA WorkingIs ==
    ASSUME ServerOK, NEW h \in Handlers, NEW op, NEW step, Working(h, op, step)
    PROVE  /\ request[h] # NoRequest /\ RequestOK(request[h])
           /\ request[h].op = op /\ request[h].step = step
  BY DEF ServerOK, Working

LEMMA CreateKeeps ==
    ASSUME ServerOK, NEW h \in Handlers, Create(h)
    PROVE  ServerOK'
<1> DEFINE next == Merged(request[h].dto, Defaults)
<1>1. /\ request[h] # NoRequest /\ RequestOK(request[h]) /\ request[h].op = "create"
  BY WorkingIs DEF Create
<1>2. CASE Acceptable(next) /\ ~NameTaken(next.name, Unset)
  <2>1. next \in Row /\ Deliverable(next)
    BY <1>1, <1>2, MergedIsRow DEF RequestOK
  <2>2. PICK i \in Ids \ used :
            /\ rows' = [rows EXCEPT ![i] = next]
            /\ used' = used \cup {i}
            /\ request' = [request EXCEPT ![h].id = i, ![h].step = "written"]
    BY <1>2 DEF Create
  <2> HIDE DEF next
  <2>3. rows' \in Tables /\ used' \subseteq Ids
    BY <2>1, <2>2 DEF ServerOK, Tables
  <2>4. Stored' \subseteq used'
    BY <2>2 DEF ServerOK, Stored, Tables
  <2>5. \A j \in Stored' : Deliverable(rows'[j])
    BY <2>1, <2>2 DEF ServerOK, Stored, Tables, ProfileSupportsContract
  <2> DEFINE r == [request[h] EXCEPT !.id = i, !.step = "written"]
  <2>6. request' = [request EXCEPT ![h] = r]
    BY <2>2 DEF ServerOK
  <2>7. RequestOK(r)
    BY <1>1 DEF RequestOK, Request
  <2> HIDE DEF r
  <2>8. request' \in [Handlers -> Request \cup {NoRequest}]
    BY <2>6, <2>7 DEF ServerOK, RequestOK
  <2>9. \A g \in Handlers : request'[g] = NoRequest \/ RequestOK(request'[g])
    BY <2>6, <2>7 DEF ServerOK
  <2>10. QED
    BY <2>3, <2>4, <2>5, <2>8, <2>9 DEF ServerOK, ProfileSupportsContract
<1>3. CASE ~(Acceptable(next) /\ ~NameTaken(next.name, Unset))
  <2>1. Refuse(h) /\ UNCHANGED <<rows, used>>
    BY <1>3 DEF Create
  <2>2. QED
    BY <1>1, <2>1, GotoKeeps DEF Refuse, ServerOK, Stored, ProfileSupportsContract
<1>4. QED
  BY <1>2, <1>3

LEMMA ReadKeeps ==
    ASSUME ServerOK, NEW h \in Handlers, NEW op \in {"update", "delete"}, ReadRecord(h, op)
    PROVE  ServerOK'
<1>1. request[h] # NoRequest
  BY WorkingIs DEF ReadRecord
<1>2. UNCHANGED <<rows, used>>
  BY DEF ReadRecord
<1>3. \/ request[h].id \in Stored /\ Goto(h, "read", rows[request[h].id])
      \/ Goto(h, "refused", NoRow)
  BY DEF ReadRecord, Refuse
<1>4. request[h].id \in Stored => rows[request[h].id] \in Row
  BY DEF ServerOK, Stored, Tables
<1>5. /\ request' \in [Handlers -> Request \cup {NoRequest}]
      /\ \A g \in Handlers : request'[g] = NoRequest \/ RequestOK(request'[g])
  BY <1>1, <1>3, <1>4, GotoKeeps
<1>6. QED
  BY <1>2, <1>5 DEF ServerOK, Stored, ProfileSupportsContract

LEMMA UpdateKeeps ==
    ASSUME ServerOK, NEW h \in Handlers, Update(h)
    PROVE  ServerOK'
<1> DEFINE next == Merged(request[h].dto, request[h].row)
           i == request[h].id
<1>1. request[h] # NoRequest /\ RequestOK(request[h]) /\ request[h].step = "read"
  BY WorkingIs DEF Update
<1>2. used' = used
  BY DEF Update
<1>3. CASE Acceptable(next) /\ i \in Stored /\ ~NameTaken(next.name, i)
  <2>1. IsPartial(request[h].dto) /\ request[h].row \in Row
    BY <1>1, BodyIsPartial DEF RequestOK, Request
  <2>2. next \in Row /\ Deliverable(next)
    BY <1>3, <2>1, MergedIsRow
  <2>3. rows' = [rows EXCEPT ![i] = next] /\ Goto(h, "written", NoRow)
    BY <1>3 DEF Update, WriteColumns
  <2>4. i \in Ids /\ i \in Stored
    BY <1>3 DEF Stored
  <2> HIDE DEF next, i
  <2>5. rows' \in Tables
    BY <2>2, <2>3, <2>4 DEF ServerOK, Tables
  <2>6. Stored' \subseteq used'
    BY <1>2, <2>3, <2>4 DEF ServerOK, Tables, Stored
  <2>7. \A j \in Stored' : Deliverable(rows'[j])
    BY <2>2, <2>3, <2>4 DEF ServerOK, Stored, Tables, ProfileSupportsContract
  <2>8. /\ request' \in [Handlers -> Request \cup {NoRequest}]
        /\ \A g \in Handlers : request'[g] = NoRequest \/ RequestOK(request'[g])
    BY <1>1, <2>3, GotoKeeps
  <2>9. QED
    BY <1>2, <2>5, <2>6, <2>7, <2>8 DEF ServerOK, ProfileSupportsContract
<1>4. CASE ~(Acceptable(next) /\ i \in Stored /\ ~NameTaken(next.name, i))
  <2>1. Goto(h, "refused", NoRow) /\ UNCHANGED rows
    BY <1>4 DEF Update, Refuse
  <2>2. QED
    BY <1>1, <1>2, <2>1, GotoKeeps DEF ServerOK, Stored, ProfileSupportsContract
<1>5. QED
  BY <1>3, <1>4

LEMMA DeleteKeeps ==
    ASSUME ServerOK, NEW h \in Handlers, Delete(h)
    PROVE  ServerOK'
<1>1. request[h] # NoRequest
  BY WorkingIs DEF Delete
<1>2. used' = used
  BY DEF Delete
<1>3. CASE request[h].id \in Stored
  <2>1. rows' = [rows EXCEPT ![request[h].id] = NoRow] /\ Goto(h, "done", NoRow)
    BY <1>3 DEF Delete
  <2>2. rows' \in Tables /\ Stored' \subseteq Stored /\ \A j \in Stored' : rows'[j] = rows[j]
    BY <1>3, <2>1 DEF ServerOK, Tables, Stored
  <2>3. QED
    BY <1>1, <1>2, <2>1, <2>2, GotoKeeps DEF ServerOK, ProfileSupportsContract
<1>4. CASE request[h].id \notin Stored
  BY <1>1, <1>2, <1>4, GotoKeeps DEF Delete, Refuse, ServerOK, Stored, ProfileSupportsContract
<1>5. QED
  BY <1>3, <1>4

LEMMA FindOneKeeps ==
    ASSUME ServerOK, NEW h \in Handlers, FindOne(h)
    PROVE  ServerOK'
<1>1. request[h] # NoRequest
  BY WorkingIs DEF FindOne
<1>2. UNCHANGED <<rows, used>> /\ (Goto(h, "done", NoRow) \/ Goto(h, "refused", NoRow))
  BY DEF FindOne, Refuse
<1>3. /\ request' \in [Handlers -> Request \cup {NoRequest}]
      /\ \A g \in Handlers : request'[g] = NoRequest \/ RequestOK(request'[g])
  BY <1>1, <1>2, GotoKeeps
<1>4. QED
  BY <1>2, <1>3 DEF ServerOK, Stored, ProfileSupportsContract

LEMMA ServeKeeps ==
    ASSUME ServerOK, NEW h \in Handlers, Serve(h)
    PROVE  ServerOK'
  BY CreateKeeps, ReadKeeps, UpdateKeeps, DeleteKeeps, FindOneKeeps
  DEF Serve, ReadForUpdate, ReadForDelete

-----------------------------------------------------------------------------
(* The page *)

LEMMA InitialFormOK ==
    /\ InitialForm \in [of : Ids \cup {Unset}, values : FormValues, typed : BOOLEAN]
    /\ InitialForm.of = Unset
  BY FormAssumption, PreferredIsProfile DEF InitialForm, FormOf, InitialValues, FormValues

LEMMA FormOfRow ==
    ASSUME NEW table \in Tables, NEW i \in Ids, table[i] # NoRow
    PROVE  /\ FormOf(i, table[i]) \in [of : Ids \cup {Unset}, values : FormValues, typed : BOOLEAN]
           /\ FormOf(i, table[i]).of = i /\ FormOf(i, table[i]).values = table[i]
<1>1. table[i] \in Row
  BY DEF Tables
<1>2. table[i] \in FormValues
  BY <1>1 DEF Row, FormValues
<1>3. QED
  BY <1>2 DEF FormOf

LEMMA ConsumerInitOK == Init => ConsumersInv
<1> SUFFICES ASSUME Init PROVE ConsumersInv
  OBVIOUS
<1> USE DEF Init
<1>1. ServerOK
  BY TablesAssumption DEF ServerOK, ServerInit, Stored, ProfileSupportsContract
<1>2. FormOK
  BY InitialFormOK DEF FormOK, FormShowsListedRow
<1>3. ConsumerCallsOK /\ ConsumerListsOK
  BY TablesAssumption DEF ConsumerCallsOK, Saves, ConsumerListsOK, ServerInit
<1>4. QED
  BY <1>1, <1>2, <1>3 DEF ConsumersInv

\* The form is emptied, and belongs to nobody.
LEMMA ResetFormKeeps ==
    ASSUME ResetForm
    PROVE  FormOK'
  BY InitialFormOK DEF ResetForm, FormOK, FormShowsListedRow

\* A step that leaves the form, and the list it was loaded from, as they are.
LEMMA FormLeftAlone ==
    ASSUME FormOK, UNCHANGED <<editing, form, list>>
    PROVE  FormOK'
  BY DEF FormOK, FormShowsListedRow

\* A request that is forgotten.
LEMMA ForgetKeeps ==
    ASSUME ConsumerCallsOK, NEW c \in calls, calls' = calls \ {c}
    PROVE  ConsumerCallsOK'
  BY DEF ConsumerCallsOK, Saves

LEMMA BeginEditingKeeps ==
    ASSUME ConsumersInv, NEW i \in Ids, BeginEditing(i)
    PROVE  ConsumersInv'
<1> USE DEF ConsumersInv, BeginEditing
<1>1. FormOK'
  <2>1. list[i] # NoRow /\ list \in Tables
    BY DEF Shown, ConsumerListsOK
  <2>2. editing' = i /\ form' = FormOf(i, list[i]) /\ list' = list
    OBVIOUS
  <2>3. QED
    BY <2>1, <2>2, FormOfRow DEF FormOK, FormShowsListedRow
<1>2. ServerOK'
  BY DEF ServerOK, Stored, ProfileSupportsContract, serverVars
<1>3. QED
  BY <1>1, <1>2 DEF ConsumerCallsOK, Saves, ConsumerListsOK

LEMMA CancelEditKeeps ==
    ASSUME ConsumersInv, CancelEdit
    PROVE  ConsumersInv'
<1> USE DEF ConsumersInv, CancelEdit
<1>1. ServerOK'
  BY DEF ServerOK, Stored, ProfileSupportsContract, serverVars
<1>2. QED
  BY <1>1, ResetFormKeeps DEF ConsumerCallsOK, Saves, ConsumerListsOK

LEMMA EditKeeps ==
    ASSUME ConsumersInv, Edit
    PROVE  ConsumersInv'
<1> USE DEF ConsumersInv
<1>1. \A t \in ContractTypes : HandleContractTypeChange(t) \in FormValues
  BY PreferredIsProfile DEF HandleContractTypeChange, FormOK, FormValues
<1>2. \E values \in FormValues : form' = [form EXCEPT !.values = values, !.typed = TRUE]
  <2>1. PICK values \in {[form.values EXCEPT !.name = name] : name \in Names}
                     \cup {HandleContractTypeChange(t) : t \in ContractTypes}
                     \cup {[form.values EXCEPT !.transformationProfile = p] : p \in ProfileIds}
                     \cup {[form.values EXCEPT !.healthStatus = s] : s \in HealthStatus} :
               form' = [form EXCEPT !.values = values, !.typed = TRUE]
    BY DEF Edit
  <2>2. form.values \in FormValues
    BY DEF FormOK
  <2>3. values \in FormValues
    BY <1>1, <2>1, <2>2 DEF FormValues
  <2>4. QED
    BY <2>1, <2>3
<1>3. UNCHANGED <<serverVars, list, fetch, editing, calls>>
  BY DEF Edit
<1>4. FormOK'
  BY <1>2, <1>3 DEF FormOK, FormShowsListedRow
<1>5. ServerOK'
  BY <1>3 DEF ServerOK, Stored, ProfileSupportsContract, serverVars
<1>6. events' \in Nat
  BY DEF Edit, Event
<1>7. QED
  BY <1>3, <1>4, <1>5, <1>6 DEF ConsumerCallsOK, Saves, ConsumerListsOK

\* A request of the page; a save is sent only while no other one is pending.
LEMMA ConsumerSendKeeps ==
    ASSUME ConsumersInv, NEW h \in Handlers, NEW kind \in {"create", "update", "delete"},
           NEW i \in Ids \cup {Unset}, Send(h, kind, i),
           kind # "delete" => i = editing /\ Saves = {}
    PROVE  ConsumersInv'
<1> USE DEF ConsumersInv
<1>1. /\ Receive(h, kind, i, form.values, events)
      /\ calls' = calls \cup {[n |-> events, kind |-> kind, id |-> i, of |-> form.of, editing |-> editing]}
      /\ UNCHANGED <<list, fetch, editing, form>>
      /\ events' \in Nat
  BY DEF Send, Event
<1>2. form.values \in FormValues
  BY DEF FormOK
<1>3. ServerOK'
  BY <1>1, <1>2, ReceiveKeeps
<1>4. ConsumerCallsOK'
  <2>1. CASE kind = "delete"
    BY <1>1, <2>1 DEF ConsumerCallsOK, Saves
  <2>2. CASE kind # "delete"
    BY <1>1, <2>2 DEF ConsumerCallsOK, Saves, FormOK
  <2>3. QED
    BY <2>1, <2>2
<1>5. QED
  BY <1>1, <1>3, <1>4, FormLeftAlone DEF ConsumerListsOK

LEMMA SubmitKeeps ==
    ASSUME ConsumersInv, NEW h \in Handlers, Submit(h)
    PROVE  ConsumersInv'
<1>1. Saves = {}
  BY DEF ConsumersInv, ConsumerCallsOK, Saves, Submit, Pending
<1>2. editing \in Ids \cup {Unset}
  BY DEF ConsumersInv, FormOK
<1>3. \E kind \in {"create", "update"} : Send(h, kind, editing)
  BY DEF Submit
<1>4. QED
  BY <1>1, <1>2, <1>3, ConsumerSendKeeps

LEMMA ConsumerClickDeleteKeeps ==
    ASSUME ConsumersInv, NEW h \in Handlers, ClickDelete(h)
    PROVE  ConsumersInv'
  BY ConsumerSendKeeps DEF ClickDelete, Shown

LEMMA ConsumerAnsweredKeeps ==
    ASSUME ConsumersInv, NEW h \in Handlers, Answered(h)
    PROVE  ConsumersInv'
<1> USE DEF ConsumersInv
<1>1. PICK c \in calls :
          /\ Release(h)
          /\ calls' = calls \ {c}
          /\ \/ fetch' = Waiting /\ (ResetForm \/ UNCHANGED <<editing, form>>)
             \/ UNCHANGED <<fetch, editing, form>>
          /\ UNCHANGED <<rows, used, list, events>>
  BY DEF Answered, InvalidateList
<1>2. ServerOK'
  BY <1>1, ReleaseKeeps
<1>3. ConsumerCallsOK'
  BY <1>1, ForgetKeeps
<1>4. FormOK'
  BY <1>1, ResetFormKeeps, FormLeftAlone
<1>5. QED
  BY <1>1, <1>2, <1>3, <1>4 DEF ConsumerListsOK

LEMMA ConsumerLostKeeps ==
    ASSUME ConsumersInv, Lost
    PROVE  ConsumersInv'
<1> USE DEF ConsumersInv
<1>1. PICK c \in calls : calls' = calls \ {c}
  BY DEF Lost
<1>2. UNCHANGED <<serverVars, list, fetch, editing, form>> /\ events' \in Nat
  BY DEF Lost, Event
<1>3. ServerOK'
  BY <1>2 DEF ServerOK, Stored, ProfileSupportsContract, serverVars
<1>4. QED
  BY <1>1, <1>2, <1>3, ForgetKeeps, FormLeftAlone DEF ConsumerListsOK

LEMMA AnswerDroppedKeeps ==
    ASSUME ConsumersInv, NEW h \in Handlers, AnswerDropped(h)
    PROVE  ConsumersInv'
<1> USE DEF ConsumersInv
<1>1. Release(h) /\ UNCHANGED <<rows, used, pageVars>>
  BY DEF AnswerDropped
<1>2. QED
  BY <1>1, ReleaseKeeps, FormLeftAlone DEF pageVars, ConsumerCallsOK, Saves, ConsumerListsOK

LEMMA ConsumerListServedKeeps ==
    ASSUME ConsumersInv, Refetch \/ ListServed
    PROVE  ConsumersInv'
<1> USE DEF ConsumersInv
<1>1. /\ fetch' \in Tables \cup {Idle, Waiting}
      /\ UNCHANGED <<serverVars, list, editing, form, calls, events>>
  BY DEF Refetch, ListServed, ServerOK
<1>2. ServerOK'
  BY <1>1 DEF ServerOK, Stored, ProfileSupportsContract, serverVars
<1>3. QED
  BY <1>1, <1>2, FormLeftAlone DEF ConsumerCallsOK, Saves, ConsumerListsOK

LEMMA ConsumerListAnsweredKeeps ==
    ASSUME ConsumersInv, ListAnswered
    PROVE  ConsumersInv'
<1> USE DEF ConsumersInv
<1>1. /\ fetch \in Tables /\ list' = fetch /\ fetch' = Idle
      /\ UNCHANGED <<serverVars, editing, calls, events>>
  BY DEF ListAnswered, ConsumerListsOK
<1>2. ServerOK'
  BY <1>1 DEF ServerOK, Stored, ProfileSupportsContract, serverVars
<1>3. FormOK'
  <2>1. CASE editing \in Ids /\ fetch[editing] # NoRow
    <3>1. CASE form' = FormOf(editing, fetch[editing])
      BY <1>1, <2>1, <3>1, FormOfRow DEF FormOK, FormShowsListedRow
    <3>2. CASE list' = list /\ UNCHANGED form
      BY <1>1, <3>2, FormLeftAlone
    <3>3. QED
      BY <1>1, <2>1, <3>1, <3>2 DEF ListAnswered, ReloadForm
  <2>2. CASE ~(editing \in Ids /\ fetch[editing] # NoRow)
    <3>1. UNCHANGED form
      BY <2>2 DEF ListAnswered, ReloadForm
    <3>2. QED
      BY <1>1, <2>2, <3>1 DEF FormOK, FormShowsListedRow
  <2>3. QED
    BY <2>1, <2>2
<1>4. QED
  BY <1>1, <1>2, <1>3 DEF ConsumerCallsOK, Saves, ConsumerListsOK

LEMMA ConsumerOtherClientKeeps ==
    ASSUME ConsumersInv, NEW h \in Handlers, OtherClient(h)
    PROVE  ConsumersInv'
<1> USE DEF ConsumersInv
<1>1. form.values \in FormValues
  BY DEF FormOK
<1>2. UNCHANGED <<list, fetch, editing, form, calls>> /\ events' \in Nat
  BY DEF OtherClient, Event
<1>3. \E i \in Ids, op \in {"update", "delete"}, dto \in FormValues \cup OtherDtos :
          Receive(h, op, i, dto, events)
  BY <1>1 DEF OtherClient
<1>4. ServerOK'
  BY <1>3, ReceiveKeeps
<1>5. QED
  BY <1>2, <1>4, FormLeftAlone DEF ConsumerCallsOK, Saves, ConsumerListsOK

LEMMA ConsumerNextOK == ConsumersInv /\ [Next]_vars => ConsumersInv'
<1> SUFFICES ASSUME ConsumersInv, [Next]_vars PROVE ConsumersInv'
  OBVIOUS
<1>1. CASE \E i \in Ids : BeginEditing(i)
  BY <1>1, BeginEditingKeeps
<1>2. CASE CancelEdit
  BY <1>2, CancelEditKeeps
<1>3. CASE Edit
  BY <1>3, EditKeeps
<1>4. CASE Lost
  BY <1>4, ConsumerLostKeeps
<1>5. CASE Refetch \/ ListServed
  BY <1>5, ConsumerListServedKeeps
<1>6. CASE ListAnswered
  BY <1>6, ConsumerListAnsweredKeeps
<1>7. ASSUME NEW h \in Handlers,
             Submit(h) \/ ClickDelete(h) \/ Answered(h) \/ AnswerDropped(h) \/ OtherClient(h)
      PROVE  ConsumersInv'
  BY <1>7, SubmitKeeps, ConsumerClickDeleteKeeps, ConsumerAnsweredKeeps, AnswerDroppedKeeps, ConsumerOtherClientKeeps
<1>8. ASSUME NEW h \in Handlers, Serve(h), UNCHANGED pageVars
      PROVE  ConsumersInv'
  BY <1>8, ServeKeeps, FormLeftAlone DEF ConsumersInv, pageVars, ConsumerCallsOK, Saves, ConsumerListsOK
<1>9. CASE UNCHANGED vars
  BY <1>9, FormLeftAlone
  DEF ConsumersInv, vars, serverVars, pageVars, ConsumerCallsOK, Saves, ConsumerListsOK, ServerOK, Stored, ProfileSupportsContract
<1>10. QED
  BY <1>1, <1>2, <1>3, <1>4, <1>5, <1>6, <1>7, <1>8, <1>9 DEF Next

-----------------------------------------------------------------------------
(* What follows *)

LEMMA OneSave == ConsumerCallsOK => Cardinality({c \in calls : c.kind # "delete"}) <= 1
<1> SUFFICES ASSUME ConsumerCallsOK PROVE Cardinality(Saves) <= 1
  BY DEF Saves
<1>1. CASE Saves = {}
  BY <1>1, FS_EmptySet
<1>2. CASE Saves # {}
  <2>1. PICK c \in Saves : Saves = {c}
    BY <1>2 DEF ConsumerCallsOK
  <2>2. Cardinality({c}) = 1
    BY FS_Singleton
  <2>3. QED
    BY <2>1, <2>2
<1>3. QED
  BY <1>1, <1>2

LEMMA ConsumerRight == ConsumersInv => ConsumersAreRight
<1> SUFFICES ASSUME ConsumersInv PROVE ConsumersAreRight
  OBVIOUS
<1> USE DEF ConsumersInv
<1>1. TypeOK
  BY OneSave DEF TypeOK, ServerOK, Tables, ConsumerListsOK, FormOK, FormValues
<1>2. SavesOwnValues
  BY DEF SavesOwnValues, ConsumerCallsOK, Saves
<1>3. FormShowsListedRow
  BY DEF FormOK
<1>4. QED
  BY <1>1, <1>2, <1>3 DEF ConsumersAreRight, FormBelongsToRow, ServerOK

\* Whichever requests overlap: the profile of every stored consumer supports its
\* contract type, so that the worker can build its payload, and every save of the page
\* is of the consumer that the form was loaded from.
\* (downstream-consumer.service.ts, IntegrationConsumersPage.tsx.)
THEOREM ConsumersCorrect == Spec => []ConsumersAreRight
<1>1. Init => ConsumersInv
  BY ConsumerInitOK
<1>2. ConsumersInv /\ [Next]_vars => ConsumersInv'
  BY ConsumerNextOK
<1>3. ConsumersInv => ConsumersAreRight
  BY ConsumerRight
<1>4. QED
  BY <1>1, <1>2, <1>3, PTL DEF Spec

-----------------------------------------------------------------------------
(* The page of the mappings *)

Values == [state : MappingState, details : Details]

Calls ==
    [n : Nat, kind : {"create", "update", "delete"}, of : Mappings \cup {Blank},
     capability : Capabilities, system : Systems \cup {Blank}, values : Values,
     step : {"sent", "checked", "done", "failed"}, mounted : BOOLEAN, lost : BOOLEAN]

CallOK(c) ==
    /\ c \in Calls
    /\ c.kind = "create" => c.system \in Systems
    /\ c.kind # "create" => c.of \in Mappings

\* Mappings are added on the page of a capability only.
DialogOK ==
    /\ dialog \in Dialogs
    /\ dialog.kind = "create" => IsCapabilityPage(shown)
    /\ dialog.kind = "update" => dialog.of \in Mappings /\ dialog.read \in MappingRow

\* The requests that the page shows as pending; at most one, and the dialog of its
\* kind is the one it was made of, or one in which nothing has been typed.
PendingCalls(kind) == {c \in requests : c.kind = kind /\ c.mounted /\ ~c.lost}

OnePending ==
    \A kind \in {"create", "update"} : \A c, d \in PendingCalls(kind) : c = d

NothingTyped ==
    dialog # NoDialog /\ PendingCalls(dialog.kind) # {} => dialog.submitted \/ dialog.typed = {}

\* An answer to come makes the list stale.
ToBeTold(q) ==
    \E c \in requests : ~c.lost /\ c.step = "done" /\ q \in Invalidated(c.capability)

Current(q, entry) == entry.untold = {} => entry.rows = Matching(q) \/ ToBeTold(q)

EntryOK(entry) == entry \in Entries /\ DOMAIN entry.rows \subseteq usedIds

TablesOK ==
    /\ row \in [Mappings -> MappingRow \cup {NoMapping}]
    /\ StoredMappings \subseteq usedIds /\ usedIds \subseteq Mappings
    /\ retired \subseteq Capabilities

ListsOK ==
    /\ shown \in Queries
    /\ cache \in [Queries -> Entries \cup {NoData}]
    /\ fetches \in [Queries -> Entries \cup {NoFetch, Unanswered}]
    /\ \A q \in Queries :
         /\ cache[q] # NoData => EntryOK(cache[q])
         /\ fetches[q] \notin {NoFetch, Unanswered} => EntryOK(fetches[q])

ListsCurrent ==
    \A q \in Queries :
      /\ ~Stale(q) => Current(q, cache[q])
      /\ fetches[q] \notin {NoFetch, Unanswered} => Current(q, fetches[q])

CallsOK == (\A c \in requests : CallOK(c)) /\ OnePending

IInv ==
    /\ ConstantsOK
    /\ TablesOK /\ ListsOK /\ CallsOK /\ (dialog = NoDialog \/ DialogOK)
    /\ clicks \in Nat
    /\ ListsCurrent
    /\ NothingTyped

-----------------------------------------------------------------------------
(* Lists *)

LEMMA QueryTypes ==
    ASSUME ConstantsOK
    PROVE  Queries \subseteq [capability : Capabilities \cup {Blank}, system : Systems \cup {Blank},
                              state : MappingState \cup {Blank}]
  BY DEF ConstantsOK, Queries, AllMappings, OfCapability

\* A list of one capability is that of its page.
LEMMA CapabilityPages ==
    ASSUME ConstantsOK, NEW q \in Queries, IsCapabilityPage(q)
    PROVE  q.capability \in Capabilities /\ q = OfCapability(q.capability)
  BY DEF ConstantsOK, Queries, IsCapabilityPage, AllMappings, OfCapability

LEMMA MatchingIsEntry ==
    ASSUME TablesOK, NEW q \in Queries
    PROVE  EntryOK(Entry(Matching(q)))
<1> DEFINE S == {n \in StoredMappings : \A f \in DOMAIN q : q[f] \in {Blank, row[n][f]}}
<1>1. S \subseteq StoredMappings /\ StoredMappings \subseteq Mappings /\ \A n \in S : row[n] \in MappingRow
  BY DEF TablesOK, StoredMappings
<1>2. Matching(q) = [m \in S |-> row[m]]
  BY DEF Matching
<1> HIDE DEF S
<1>3. Matching(q) \in [S -> MappingRow] /\ DOMAIN Matching(q) = S /\ S \in SUBSET Mappings
  BY <1>1, <1>2
<1>4. Matching(q) \in UNION {[T -> MappingRow] : T \in SUBSET Mappings}
  BY <1>3
<1>5. Entry(Matching(q)) \in Entries
  BY <1>4 DEF Entry, Entries
<1>6. QED
  BY <1>1, <1>3, <1>5 DEF EntryOK, Entry, TablesOK

\* A list does not depend on the rows of other capabilities.
LEMMA OtherCapability ==
    ASSUME ConstantsOK, TablesOK, NEW q \in Queries, IsCapabilityPage(q), NEW m \in Mappings,
           \A n \in Mappings \ {m} : row'[n] = row[n],
           row[m] # NoMapping => row[m].capability # q.capability,
           row'[m] # NoMapping => row'[m].capability # q.capability
    PROVE  Matching(q)' = Matching(q)
<1> DEFINE S == {n \in StoredMappings : \A f \in DOMAIN q : q[f] \in {Blank, row[n][f]}}
           T == {n \in Mappings : row'[n] # NoMapping /\ \A f \in DOMAIN q : q[f] \in {Blank, row'[n][f]}}
<1>1. "capability" \in DOMAIN q /\ q.capability # Blank
  BY QueryTypes DEF IsCapabilityPage
<1>2. m \notin S /\ m \notin T
  BY <1>1 DEF StoredMappings
<1>3. S = T /\ \A n \in S : row'[n] = row[n]
  BY <1>2 DEF StoredMappings
<1>4. Matching(q) = [n \in S |-> row[n]] /\ Matching(q)' = [n \in T |-> row'[n]]
  BY DEF Matching, StoredMappings
<1>5. QED
  BY <1>3, <1>4

\* A list is fetched anew, or noted as one that is not told.
LEMMA UntoldIs ==
    ASSUME ConstantsOK, NEW entry \in Entries \cup {NoData, NoFetch, Unanswered},
           NEW kind \in {"foreign", "misdirected", "uncancelled"}
    PROVE  /\ entry \in {NoData, NoFetch, Unanswered} => Untold(entry, kind) = entry
           /\ entry \in Entries =>
                /\ Untold(entry, kind) \in Entries
                /\ Untold(entry, kind).rows = entry.rows /\ Untold(entry, kind).stale = entry.stale
                /\ Untold(entry, kind).untold # {}
<1>1. entry \in {NoData, NoFetch, Unanswered} => Untold(entry, kind) = entry
  BY DEF Untold
<1>2. ASSUME entry \in Entries
      PROVE  /\ Untold(entry, kind) \in Entries
             /\ Untold(entry, kind).rows = entry.rows /\ Untold(entry, kind).stale = entry.stale
             /\ Untold(entry, kind).untold # {}
  <2>1. Untold(entry, kind) = [entry EXCEPT !.untold = entry.untold \cup {kind}]
    BY <1>2 DEF Untold, Entries, ConstantsOK
  <2>2. QED
    BY <1>2, <2>1 DEF Entries
<1>3. QED
  BY <1>1, <1>2

\* No answer that is to come has been lost from sight.
Kept ==
    \A c \in requests : ~c.lost /\ c.step = "done" =>
        \E d \in requests' : ~d.lost /\ d.step = "done" /\ d.capability = c.capability

LEMMA KeptTells ==
    ASSUME Kept, NEW q \in Queries, ToBeTold(q)
    PROVE  ToBeTold(q)'
<1>1. PICK c \in requests : ~c.lost /\ c.step = "done" /\ q \in Invalidated(c.capability)
  BY DEF ToBeTold
<1>2. PICK d \in requests' : ~d.lost /\ d.step = "done" /\ d.capability = c.capability
  BY <1>1 DEF Kept
<1>3. QED
  BY <1>1, <1>2 DEF ToBeTold

\* After a change of the tables: each list is noted as not told, or is not concerned,
\* or is still to be told.
LEMMA ListsAfterChange ==
    ASSUME ConstantsOK, ListsOK, ListsCurrent, NEW lists,
           \A q \in Queries : q \notin lists /\ ToBeTold(q) => ToBeTold(q)',
           NEW kind \in {"foreign", "misdirected", "uncancelled"},
           ChangeUntold(kind, lists) \/ (lists = {} /\ UNCHANGED <<cache, fetches>>),
           usedIds \subseteq usedIds', shown' = shown,
           \A q \in Queries : q \notin lists => Matching(q)' = Matching(q) \/ ToBeTold(q)'
    PROVE  ListsOK' /\ ListsCurrent'
<1>1. \A q \in Queries :
        /\ cache'[q] = IF q \in lists THEN Untold(cache[q], kind) ELSE cache[q]
        /\ fetches'[q] = IF q \in lists THEN Untold(fetches[q], kind) ELSE fetches[q]
  BY DEF ChangeUntold
<1>2. \A q \in Queries :
        /\ cache[q] \in Entries \cup {NoData} /\ fetches[q] \in Entries \cup {NoFetch, Unanswered}
        /\ cache'[q] \in Entries \cup {NoData} /\ fetches'[q] \in Entries \cup {NoFetch, Unanswered}
  BY <1>1, UntoldIs DEF ListsOK
<1>3. /\ cache' \in [Queries -> Entries \cup {NoData}]
      /\ fetches' \in [Queries -> Entries \cup {NoFetch, Unanswered}]
  BY <1>1, <1>2 DEF ChangeUntold, ListsOK
<1>4. ASSUME NEW q \in Queries, q \in lists
      PROVE  /\ cache'[q] # NoData => EntryOK(cache[q])'
             /\ fetches'[q] \notin {NoFetch, Unanswered} => EntryOK(fetches[q])'
             /\ cache'[q] # NoData => cache'[q].untold # {}
             /\ fetches'[q] \notin {NoFetch, Unanswered} => fetches'[q].untold # {}
  <2>1. cache'[q] = Untold(cache[q], kind) /\ fetches'[q] = Untold(fetches[q], kind)
    BY <1>1, <1>4
  <2>2. CASE cache[q] = NoData /\ fetches[q] \in {NoFetch, Unanswered}
    BY <1>2, <2>1, <2>2, UntoldIs
  <2>3. ASSUME cache[q] # NoData
        PROVE  EntryOK(cache[q])' /\ cache'[q].untold # {}
    BY <1>2, <2>1, <2>3, UntoldIs DEF ListsOK, EntryOK
  <2>4. ASSUME fetches[q] \notin {NoFetch, Unanswered}
        PROVE  EntryOK(fetches[q])' /\ fetches'[q].untold # {}
    BY <1>2, <2>1, <2>4, UntoldIs DEF ListsOK, EntryOK
  <2>5. /\ cache[q] = NoData => cache'[q] = NoData
        /\ fetches[q] \in {NoFetch, Unanswered} => fetches'[q] \in {NoFetch, Unanswered}
    BY <1>2, <2>1, UntoldIs
  <2>6. QED
    BY <2>3, <2>4, <2>5
<1>5. ASSUME NEW q \in Queries, q \notin lists
      PROVE  /\ cache'[q] = cache[q] /\ fetches'[q] = fetches[q]
             /\ cache'[q] # NoData => EntryOK(cache[q])'
             /\ fetches'[q] \notin {NoFetch, Unanswered} => EntryOK(fetches[q])'
             /\ \A entry : Current(q, entry) => Current(q, entry)'
  <2>1. cache'[q] = cache[q] /\ fetches'[q] = fetches[q]
    BY <1>1, <1>5
  <2>2. \A entry : Current(q, entry) => Current(q, entry)'
    BY <1>5 DEF Current
  <2>3. QED
    BY <2>1, <2>2 DEF ListsOK, EntryOK
<1>6. ListsOK'
  BY <1>3, <1>4, <1>5 DEF ListsOK
<1>7. ListsCurrent'
  <2>1. ASSUME NEW q \in Queries, q \in lists
        PROVE  /\ ~Stale(q)' => Current(q, cache[q])'
               /\ fetches'[q] \notin {NoFetch, Unanswered} => Current(q, fetches[q])'
    BY <1>4, <2>1 DEF Stale, Current
  <2>2. ASSUME NEW q \in Queries, q \notin lists
        PROVE  /\ ~Stale(q)' => Current(q, cache[q])'
               /\ fetches'[q] \notin {NoFetch, Unanswered} => Current(q, fetches[q])'
    <3>1. /\ cache'[q] = cache[q] /\ fetches'[q] = fetches[q]
          /\ \A entry : Current(q, entry) => Current(q, entry)'
      BY <1>5, <2>2
    <3>2. ~Stale(q)' => ~Stale(q)
      BY <3>1 DEF Stale
    <3>3. /\ ~Stale(q) => Current(q, cache[q])
          /\ fetches[q] \notin {NoFetch, Unanswered} => Current(q, fetches[q])
      BY DEF ListsCurrent
    <3>4. /\ Current(q, cache[q]) => Current(q, cache[q])'
          /\ Current(q, fetches[q]) => Current(q, fetches[q])'
      BY <3>1 DEF Current
    <3>5. QED
      BY <3>1, <3>2, <3>3, <3>4
  <2>3. QED
    BY <2>1, <2>2 DEF ListsCurrent
<1>8. QED
  BY <1>6, <1>7

\* When neither tables nor lists change.
LEMMA ListsLeftAlone ==
    ASSUME ConstantsOK, ListsOK, ListsCurrent, Kept, UNCHANGED <<row, usedIds, shown, cache, fetches>>
    PROVE  ListsOK' /\ ListsCurrent'
<1>1. \A q \in Queries : Matching(q)' = Matching(q)
  BY DEF Matching, StoredMappings
<1>2. QED
  BY <1>1, KeptTells, ListsAfterChange

-----------------------------------------------------------------------------
(* Requests and dialogs *)

\* A request that the server goes on with.
LEMMA StepOfCall ==
    ASSUME CallsOK, NothingTyped, dialog = NoDialog \/ DialogOK, UNCHANGED dialog,
           NEW c \in requests, NEW step \in {"sent", "checked", "done", "failed"},
           requests' = (requests \ {c}) \cup {[c EXCEPT !.step = step]}
    PROVE  CallsOK' /\ NothingTyped'
<1> DEFINE e == [c EXCEPT !.step = step]
<1>1. /\ CallOK(e) /\ e.kind = c.kind /\ e.mounted = c.mounted /\ e.lost = c.lost
  BY DEF CallsOK, CallOK, Calls
<1>2. requests' = (requests \ {c}) \cup {e}
  OBVIOUS
<1> HIDE DEF e
<1>3. ASSUME NEW kind
      PROVE  /\ c \notin PendingCalls(kind) => PendingCalls(kind)' = PendingCalls(kind)
             /\ c \in PendingCalls(kind) => PendingCalls(kind)' = (PendingCalls(kind) \ {c}) \cup {e}
  <2>1. c \in PendingCalls(kind) <=> c.kind = kind /\ c.mounted /\ ~c.lost
    BY DEF PendingCalls
  <2>2. PendingCalls(kind)' = {d \in requests' : d.kind = kind /\ d.mounted /\ ~d.lost}
    BY DEF PendingCalls
  <2>3. QED
    BY <1>1, <1>2, <2>1, <2>2 DEF PendingCalls
<1>4. OnePending'
  BY <1>3 DEF CallsOK, OnePending
<1>5. \A d \in requests' : CallOK(d)
  BY <1>1, <1>2 DEF CallsOK
<1>6. NothingTyped'
  BY <1>3 DEF NothingTyped
<1>7. QED
  BY <1>4, <1>5, <1>6 DEF CallsOK

\* Requests that are gone, lost or off screen.
LEMMA FewerCalls ==
    ASSUME CallsOK, \A c \in requests' : CallOK(c),
           \A kind : PendingCalls(kind)' \subseteq PendingCalls(kind)
    PROVE  CallsOK'
  BY DEF CallsOK, OnePending

LEMMA FinishKeeps ==
    ASSUME CallsOK, NothingTyped, dialog = NoDialog \/ DialogOK, UNCHANGED dialog,
           NEW c \in requests, NEW step \in {"done", "failed"}, c.step # "done", Finish(c, step)
    PROVE  /\ CallsOK' /\ NothingTyped' /\ Kept
           /\ ~c.lost /\ step = "done" => \A q \in Invalidated(c.capability) : ToBeTold(q)'
<1>1. Kept
  BY DEF Finish, Kept
<1>2. CASE c.lost
  <2>1. requests' = requests \ {c}
    BY <1>2 DEF Finish
  <2>2. \A kind : PendingCalls(kind)' \subseteq PendingCalls(kind)
    BY <2>1 DEF PendingCalls
  <2>3. CallsOK'
    BY <2>1, <2>2, FewerCalls DEF CallsOK
  <2>4. NothingTyped'
    BY <2>2 DEF NothingTyped
  <2>5. QED
    BY <1>1, <1>2, <2>3, <2>4
<1>3. CASE ~c.lost
  <2>1. requests' = (requests \ {c}) \cup {[c EXCEPT !.step = step]}
    BY <1>3 DEF Finish
  <2>2. CallsOK' /\ NothingTyped'
    BY <2>1, StepOfCall
  <2>3. [c EXCEPT !.step = step].step = step /\ [c EXCEPT !.step = step].capability = c.capability
        /\ ~[c EXCEPT !.step = step].lost
    BY <1>3 DEF CallsOK, CallOK, Calls
  <2>4. step = "done" => \A q \in Invalidated(c.capability) : ToBeTold(q)'
    BY <2>1, <2>3 DEF ToBeTold
  <2>5. QED
    BY <1>1, <2>2, <2>4
<1>4. QED
  BY <1>2, <1>3

\* What a page does with the dialog after an answer or an error.
LEMMA AfterCallKeeps ==
    ASSUME IInv, NEW c \in requests, ~c.lost, NEW d, d.kind = c.kind, d.mounted = c.mounted,
           dialog' = AfterCall(d), UNCHANGED shown,
           \A kind : PendingCalls(kind)' \subseteq PendingCalls(kind) \ {c}
    PROVE  NothingTyped' /\ (dialog' = NoDialog \/ DialogOK')
<1>1. CASE dialog = NoDialog \/ (d.step = "done" /\ dialog.kind = d.kind /\ d.mounted)
  BY <1>1 DEF AfterCall, NothingTyped
<1>2. CASE dialog # NoDialog /\ (dialog.kind # d.kind \/ ~d.mounted)
  <2>1. dialog' = dialog
    BY <1>2 DEF AfterCall
  <2>2. QED
    BY <2>1 DEF IInv, NothingTyped, DialogOK
<1>3. CASE dialog # NoDialog /\ dialog.kind = d.kind /\ d.mounted /\ d.step # "done"
  <2>1. dialog' = [dialog EXCEPT !.submitted = FALSE]
    BY <1>3 DEF AfterCall
  <2>2. DialogOK
    BY <1>3 DEF IInv
  <2>3. DialogOK' /\ dialog'.kind = dialog.kind
    BY <2>1, <2>2 DEF DialogOK, Dialogs
  <2>4. PICK kind \in {"create", "update"} : kind = dialog.kind
    BY <2>2 DEF DialogOK, Dialogs
  <2>5. c \in PendingCalls(kind)
    BY <1>3, <2>4 DEF PendingCalls
  <2>6. PendingCalls(kind) \ {c} = {}
    BY <2>5 DEF IInv, CallsOK, OnePending
  <2>7. PendingCalls(kind)' = {}
    BY <2>6
  <2>9. NothingTyped'
    BY <2>3, <2>4, <2>7 DEF NothingTyped
  <2>10. QED
    BY <2>3, <2>9
<1>4. QED
  BY <1>1, <1>2, <1>3

-----------------------------------------------------------------------------
(* The lists *)

LEMMA InitOK ==
    ASSUME ConstantsOK, PageInit
    PROVE  IInv
<1> USE DEF PageInit
<1>1. TablesOK
  BY DEF TablesOK, ConstantsOK, StoredMappings
<1>2. ListsOK /\ ListsCurrent
  BY DEF ListsOK, ListsCurrent, ConstantsOK, Stale, Queries
<1>3. CallsOK
  BY DEF CallsOK, OnePending, PendingCalls
<1>4. QED
  BY <1>1, <1>2, <1>3 DEF IInv, NothingTyped

\* A step that leaves requests and dialog as they are.
LEMMA CallsLeftAlone ==
    ASSUME IInv, UNCHANGED <<requests, dialog, shown>>
    PROVE  CallsOK' /\ NothingTyped' /\ Kept /\ (dialog' = NoDialog \/ DialogOK')
<1>1. \A kind : PendingCalls(kind)' = PendingCalls(kind)
  BY DEF PendingCalls
<1>2. CallsOK' /\ NothingTyped'
  BY <1>1 DEF IInv, CallsOK, OnePending, NothingTyped
<1>3. QED
  BY <1>2 DEF IInv, Kept, DialogOK

LEMMA TablesLeftAlone ==
    ASSUME TablesOK, UNCHANGED tables
    PROVE  TablesOK' /\ (\A q \in Queries : Matching(q)' = Matching(q))
  BY DEF TablesOK, tables, StoredMappings, Matching

LEMMA ListServedKeeps ==
    ASSUME IInv, NEW p \in Queries, MappingsServed(p)
    PROVE  IInv'
<1> USE DEF IInv
<1>1. /\ fetches' = [fetches EXCEPT ![p] = Entry(Matching(p))]
      /\ UNCHANGED <<tables, shown, cache, dialog, requests, bounds>>
  BY DEF MappingsServed
<1>2. EntryOK(Entry(Matching(p)))
  BY MatchingIsEntry
<1>3. TablesOK' /\ \A q \in Queries : Matching(q)' = Matching(q)
  BY <1>1, TablesLeftAlone
<1>4. ListsOK'
  BY <1>1, <1>2 DEF ListsOK, EntryOK, tables
<1>5. Entry(Matching(p)).rows = Matching(p)
  BY DEF Entry
<1>6. ListsCurrent'
  <2>1. ASSUME NEW q \in Queries, ~Stale(q)' PROVE Current(q, cache[q])'
    <3>1. ~Stale(q) /\ cache' = cache
      BY <1>1, <2>1 DEF Stale
    <3>2. QED
      BY <1>1, <1>3, <3>1 DEF ListsCurrent, Current, ToBeTold
  <2>2. ASSUME NEW q \in Queries, fetches'[q] \notin {NoFetch, Unanswered} PROVE Current(q, fetches[q])'
    <3>1. CASE q = p
      BY <1>1, <1>3, <1>5, <3>1 DEF Current, ListsOK
    <3>2. CASE q # p
      BY <1>1, <1>3, <2>2, <3>2 DEF ListsCurrent, Current, ToBeTold, ListsOK
    <3>3. QED
      BY <3>1, <3>2
  <2>3. QED
    BY <2>1, <2>2 DEF ListsCurrent
<1>7. QED
  BY <1>1, <1>3, <1>4, <1>6, CallsLeftAlone DEF bounds

LEMMA ListAnsweredKeeps ==
    ASSUME IInv, NEW p \in Queries, MappingsAnswered(p)
    PROVE  IInv'
<1> USE DEF IInv
<1>1. /\ fetches[p] \notin {NoFetch, Unanswered}
      /\ cache' = [cache EXCEPT ![p] = fetches[p]]
      /\ fetches' = [fetches EXCEPT ![p] = NoFetch]
      /\ UNCHANGED <<tables, shown, dialog, requests, bounds>>
  BY DEF MappingsAnswered, InFlight
<1>2. TablesOK' /\ \A q \in Queries : Matching(q)' = Matching(q)
  BY <1>1, TablesLeftAlone
<1>3. EntryOK(fetches[p]) /\ Current(p, fetches[p])
  BY <1>1 DEF ListsOK, ListsCurrent
<1>4. ListsOK'
  BY <1>1, <1>3 DEF ListsOK, EntryOK, tables
<1>5. ListsCurrent'
  <2>1. ASSUME NEW q \in Queries, ~Stale(q)' PROVE Current(q, cache[q])'
    <3>1. CASE q = p
      BY <1>1, <1>2, <1>3, <3>1 DEF Current, ToBeTold, ListsOK
    <3>2. CASE q # p
      <4>1. cache'[q] = cache[q] /\ ~Stale(q)
        BY <1>1, <2>1, <3>2 DEF Stale, ListsOK
      <4>2. QED
        BY <1>1, <1>2, <4>1 DEF ListsCurrent, Current, ToBeTold
    <3>3. QED
      BY <3>1, <3>2
  <2>2. ASSUME NEW q \in Queries, fetches'[q] \notin {NoFetch, Unanswered} PROVE Current(q, fetches[q])'
    <3>1. q # p /\ fetches'[q] = fetches[q]
      BY <1>1, <2>2 DEF ListsOK
    <3>2. QED
      BY <1>1, <1>2, <2>2, <3>1 DEF ListsCurrent, Current, ToBeTold
  <2>3. QED
    BY <2>1, <2>2 DEF ListsCurrent
<1>6. QED
  BY <1>1, <1>2, <1>4, <1>5, CallsLeftAlone DEF bounds

\* A list that is fetched: what is shown until the answer stays what it was.
LEMMA FetchBegins ==
    ASSUME IInv, NEW p \in Queries, Kept,
           fetches' = [fetches EXCEPT ![p] = Unanswered] \/ fetches' = fetches,
           shown' \in Queries, UNCHANGED <<tables, cache>>
    PROVE  ListsOK' /\ ListsCurrent'
<1> USE DEF IInv
<1>1. TablesOK' /\ \A q \in Queries : Matching(q)' = Matching(q)
  BY TablesLeftAlone
<1>2. ListsOK'
  BY DEF ListsOK, EntryOK, tables
<1>3. ASSUME NEW q \in Queries, ~Stale(q)' PROVE Current(q, cache[q])'
  <2>1. ~Stale(q)
    BY <1>3 DEF Stale
  <2>2. QED
    BY <1>1, <2>1, KeptTells DEF ListsCurrent, Current
<1>4. ASSUME NEW q \in Queries, fetches'[q] \notin {NoFetch, Unanswered} PROVE Current(q, fetches[q])'
  <2>1. fetches'[q] = fetches[q]
    BY <1>4 DEF ListsOK
  <2>2. QED
    BY <1>1, <1>4, <2>1, KeptTells DEF ListsCurrent, Current
<1>5. QED
  BY <1>2, <1>3, <1>4 DEF ListsCurrent

LEMMA RefetchKeeps ==
    ASSUME IInv, RefetchMappings
    PROVE  IInv'
<1>1. /\ fetches' = [fetches EXCEPT ![shown] = Unanswered]
      /\ UNCHANGED <<tables, shown, cache, dialog, requests>>
      /\ clicks' \in Nat /\ shown \in Queries
  BY DEF RefetchMappings, MappingEvent, IInv, ListsOK
<1>2. CallsOK' /\ NothingTyped' /\ Kept /\ (dialog' = NoDialog \/ DialogOK')
  BY <1>1, CallsLeftAlone
<1>3. ListsOK' /\ ListsCurrent'
  BY <1>1, <1>2, FetchBegins
<1>4. QED
  BY <1>1, <1>2, <1>3, TablesLeftAlone DEF IInv

LEMMA ShowKeeps ==
    ASSUME IInv, NEW p \in Queries, Show(p)
    PROVE  IInv'
<1>1. /\ shown' = p
      /\ fetches' = [fetches EXCEPT ![p] = Unanswered] \/ fetches' = fetches
      /\ UNCHANGED <<tables, cache, clicks>>
  BY DEF Show
<1>2. CASE IsCapabilityPage(p) <=> IsCapabilityPage(shown)
  <2>1. requests' = requests /\ (dialog' = dialog \/ (dialog # NoDialog /\ dialog' = Reopened))
    BY <1>2 DEF Show
  <2>2. \A kind : PendingCalls(kind)' = PendingCalls(kind)
    BY <2>1 DEF PendingCalls
  <2>3. CallsOK' /\ Kept
    BY <2>1, <2>2 DEF IInv, CallsOK, OnePending, Kept
  <2>4. CASE dialog' = dialog
    <3>1. NothingTyped'
      BY <2>2, <2>4 DEF IInv, NothingTyped
    <3>2. dialog' = NoDialog \/ DialogOK'
      BY <1>1, <1>2, <2>4 DEF IInv, DialogOK
    <3>3. QED
      BY <1>1, <2>3, <3>1, <3>2, FetchBegins, TablesLeftAlone DEF IInv
  <2>5. CASE dialog # NoDialog /\ dialog' = Reopened
    <3>1. DialogOK
      BY <2>5 DEF IInv
    <3>2. DialogOK' /\ dialog'.typed = {}
      <4>1. CASE dialog.kind = "create"
        BY <1>1, <1>2, <2>5, <3>1, <4>1
        DEF Reopened, AddDialog, Dialog, DialogOK, Dialogs, IInv, ConstantsOK
      <4>2. CASE dialog.kind = "update"
        BY <2>5, <3>1, <4>2
        DEF Reopened, EditDialog, Dialog, DialogOK, Dialogs, MappingRow, Columns
      <4>3. QED
        BY <3>1, <4>1, <4>2 DEF DialogOK, Dialogs
    <3>3. NothingTyped'
      BY <3>2 DEF NothingTyped
    <3>4. QED
      BY <1>1, <2>3, <3>2, <3>3, FetchBegins, TablesLeftAlone DEF IInv
  <2>6. QED
    BY <2>1, <2>4, <2>5
<1>3. CASE ~(IsCapabilityPage(p) <=> IsCapabilityPage(shown))
  <2>1. dialog' = NoDialog /\ requests' = {[c EXCEPT !.mounted = FALSE] : c \in requests}
    BY <1>3 DEF Show
  <2>2. ASSUME NEW c \in requests
        PROVE  /\ CallOK([c EXCEPT !.mounted = FALSE])
               /\ [c EXCEPT !.mounted = FALSE].step = c.step
               /\ [c EXCEPT !.mounted = FALSE].lost = c.lost
               /\ [c EXCEPT !.mounted = FALSE].capability = c.capability
               /\ ~[c EXCEPT !.mounted = FALSE].mounted
    BY DEF IInv, CallsOK, CallOK, Calls
  <2>3. \A kind : PendingCalls(kind)' = {}
    BY <2>1, <2>2 DEF PendingCalls
  <2>4. \A c \in requests' : CallOK(c)
    BY <2>1, <2>2
  <2>5. CallsOK' /\ NothingTyped'
    BY <2>1, <2>3, <2>4 DEF CallsOK, OnePending, NothingTyped
  <2>6. Kept
    BY <2>1, <2>2 DEF Kept
  <2>7. QED
    BY <1>1, <2>1, <2>5, <2>6, FetchBegins, TablesLeftAlone DEF IInv
<1>4. QED
  BY <1>2, <1>3

-----------------------------------------------------------------------------
(* The dialogs *)

\* What happens in a dialog leaves tables and lists alone.
LEMMA OnPageKeeps ==
    ASSUME IInv, OnPage, Kept, CallsOK', NothingTyped', dialog' = NoDialog \/ DialogOK', clicks' \in Nat
    PROVE  IInv'
<1>1. UNCHANGED <<tables, shown, cache, fetches>> /\ UNCHANGED <<row, usedIds>>
  BY DEF OnPage, tables
<1>2. QED
  BY <1>1, ListsLeftAlone, TablesLeftAlone DEF IInv

\* A dialog is opened, or closed.
LEMMA OpenKeeps ==
    ASSUME IInv, OnPage, UNCHANGED <<requests, bounds>>,
           dialog' = NoDialog \/ (DialogOK' /\ dialog'.typed = {})
    PROVE  IInv'
<1>1. Kept /\ CallsOK'
  BY DEF IInv, Kept, CallsOK, OnePending, PendingCalls
<1>2. NothingTyped' /\ clicks' \in Nat
  BY DEF NothingTyped, bounds, IInv
<1>3. QED
  BY <1>1, <1>2, OnPageKeeps

LEMMA RowsAreRows ==
    ASSUME IInv, NEW m \in Rows
    PROVE  m \in Mappings /\ cache[shown].rows[m] \in MappingRow
<1>1. cache[shown] # NoData /\ m \in DOMAIN cache[shown].rows /\ shown \in Queries
  BY DEF Rows, IInv, ListsOK
<1>2. cache[shown] \in Entries
  BY <1>1 DEF IInv, ListsOK, EntryOK
<1>3. PICK S \in SUBSET Mappings : cache[shown].rows \in [S -> MappingRow]
  BY <1>2 DEF Entries
<1>4. QED
  BY <1>1, <1>3

LEMMA DialogsOpenKeep ==
    ASSUME IInv, OpenAdd \/ CloseDialog \/ (\E m \in Mappings : OpenEdit(m))
    PROVE  IInv'
<1>1. CASE OpenAdd
  <2>1. dialog' = AddDialog /\ IsCapabilityPage(shown)' /\ OnPage /\ UNCHANGED <<requests, bounds>>
    BY <1>1 DEF OpenAdd, OnPage, IsCapabilityPage
  <2>2. DialogOK' /\ dialog'.typed = {}
    BY <2>1 DEF AddDialog, Dialog, DialogOK, Dialogs, IInv, ConstantsOK
  <2>3. QED
    BY <2>1, <2>2, OpenKeeps
<1>2. CASE CloseDialog
  BY <1>2, OpenKeeps DEF CloseDialog
<1>3. ASSUME NEW m \in Mappings, OpenEdit(m) PROVE IInv'
  <2>1. m \in Rows /\ dialog' = EditDialog(m, cache[shown].rows[m]) /\ OnPage /\ UNCHANGED <<requests, bounds>>
    BY <1>3 DEF OpenEdit
  <2>2. PICK r \in MappingRow : r = cache[shown].rows[m]
    BY <2>1, RowsAreRows
  <2>3. dialog' = EditDialog(m, r)
    BY <2>1, <2>2
  <2>4. DialogOK' /\ dialog'.typed = {}
    BY <2>3 DEF EditDialog, Dialog, DialogOK, Dialogs, MappingRow, Columns
  <2>5. QED
    BY <2>1, <2>4, OpenKeeps
<1>4. QED
  BY <1>1, <1>2, <1>3

\* Nothing can be typed while a request of the dialog's kind is pending.
LEMMA NotPending ==
    ASSUME NEW kind, ~CallPending(kind)
    PROVE  PendingCalls(kind) = {}
  BY DEF CallPending, PendingCalls

LEMMA TypingKeeps ==
    ASSUME IInv, TypeInAdd \/ TypeInEdit
    PROVE  IInv'
<1>1. PICK kind \in {"create", "update"} : Editable(kind)
  BY DEF TypeInAdd, TypeInEdit
<1>2. /\ OnPage /\ UNCHANGED requests /\ clicks' \in Nat
  <2>1. OnPage /\ UNCHANGED requests /\ MappingEvent
    BY DEF TypeInAdd, TypeInEdit
  <2>2. clicks' \in Nat
    BY <2>1 DEF MappingEvent, IInv
  <2>3. QED
    BY <2>1, <2>2
<1>3. DialogOK /\ dialog.kind = kind
  BY <1>1 DEF Editable, IInv
<1>4. DialogOK' /\ dialog'.kind = kind
  <2> DEFINE Typed(f) == dialog.typed \cup {f}
  <2>1. \A f \in {"state", "details", "system"} : Typed(f) \in SUBSET {"state", "details", "system"}
    BY <1>3 DEF DialogOK, Dialogs
  <2>2. dialog \in Dialogs /\ UNCHANGED shown
    BY <1>2, <1>3 DEF DialogOK, OnPage
  <2> HIDE DEF Typed
  <2>3. ASSUME NEW v \in MappingState,
               dialog' = [dialog EXCEPT !.values["state"] = v, !.typed = Typed("state")]
        PROVE  DialogOK' /\ dialog'.kind = kind
    BY <1>3, <2>1, <2>2, <2>3 DEF DialogOK, Dialogs
  <2>4. ASSUME NEW v \in Details,
               dialog' = [dialog EXCEPT !.values["details"] = v, !.typed = Typed("details")]
        PROVE  DialogOK' /\ dialog'.kind = kind
    BY <1>3, <2>1, <2>2, <2>4 DEF DialogOK, Dialogs
  <2>5. ASSUME NEW s \in Systems,
               dialog' = [dialog EXCEPT !.system = s, !.typed = Typed("system")]
        PROVE  DialogOK' /\ dialog'.kind = kind
    BY <1>3, <2>1, <2>2, <2>5 DEF DialogOK, Dialogs
  <2>6. \/ \E v \in MappingState : dialog' = [dialog EXCEPT !.values["state"] = v, !.typed = Typed("state")]
        \/ \E v \in Details : dialog' = [dialog EXCEPT !.values["details"] = v, !.typed = Typed("details")]
        \/ \E s \in Systems : dialog' = [dialog EXCEPT !.system = s, !.typed = Typed("system")]
    BY DEF TypeInAdd, TypeInEdit, TypeValues, SetField, Typed
  <2>7. QED
    BY <2>3, <2>4, <2>5, <2>6
<1>5. PendingCalls(kind)' = {}
  BY <1>1, <1>2, NotPending DEF Editable, PendingCalls
<1>6. NothingTyped'
  BY <1>4, <1>5 DEF NothingTyped
<1>7. CallsOK' /\ Kept
  BY <1>2 DEF IInv, CallsOK, OnePending, PendingCalls, Kept
<1>8. QED
  BY <1>2, <1>4, <1>6, <1>7, OnPageKeeps

-----------------------------------------------------------------------------
(* The requests of the page *)

LEMMA CapabilityOfPage ==
    ASSUME IInv, IsCapabilityPage(shown)
    PROVE  shown.capability \in Capabilities
  BY CapabilityPages DEF IInv, ListsOK

LEMMA CapabilityOfRow ==
    ASSUME IInv, NEW r \in MappingRow
    PROVE  CapabilityOf(r) \in Capabilities
  BY CapabilityOfPage DEF CapabilityOf, MappingRow

\* A request is added, of a dialog or of a row.
LEMMA MoreCalls ==
    ASSUME IInv, NEW c, CallOK(c), requests' = requests \cup {c},
           c.kind # "delete" => PendingCalls(c.kind) = {}
    PROVE  /\ CallsOK' /\ Kept
           /\ \A kind : kind # c.kind => PendingCalls(kind)' = PendingCalls(kind)
<1>1. \A kind : kind # c.kind => PendingCalls(kind)' = PendingCalls(kind)
  BY DEF PendingCalls
<1>2. c.kind # "delete" => PendingCalls(c.kind)' \subseteq {c}
  BY DEF PendingCalls
<1>3. OnePending'
  <2> SUFFICES ASSUME NEW kind \in {"create", "update"}
               PROVE  \A d, e \in PendingCalls(kind)' : d = e
    BY DEF OnePending
  <2>1. CASE kind = c.kind
    <3>1. c.kind # "delete"
      BY <2>1
    <3>2. PendingCalls(kind)' \subseteq {c}
      BY <1>2, <2>1, <3>1
    <3>3. QED
      BY <3>2
  <2>2. CASE kind # c.kind
    <3>1. PendingCalls(kind)' = PendingCalls(kind)
      BY <1>1, <2>2
    <3>2. \A d, e \in PendingCalls(kind) : d = e
      BY DEF IInv, CallsOK, OnePending
    <3>3. QED
      BY <3>1, <3>2
  <2>3. QED
    BY <2>1, <2>2
<1>4. QED
  BY <1>1, <1>3 DEF IInv, CallsOK, Kept

\* The request of a dialog.
LEMMA SendKeeps ==
    ASSUME IInv, NEW kind \in {"create", "update"}, Editable(kind), NEW b,
           CallOK([b EXCEPT !.values = dialog.values]), [b EXCEPT !.values = dialog.values].kind = kind,
           SendCall(b)
    PROVE  IInv'
<1> DEFINE c == [b EXCEPT !.values = dialog.values]
<1>1. /\ requests' = requests \cup {c} /\ dialog' = [dialog EXCEPT !.submitted = TRUE]
      /\ MappingEvent /\ OnPage
  BY DEF SendCall
<1>2. CallOK(c) /\ c.kind = kind
  OBVIOUS
<1> HIDE DEF c
<1>3. DialogOK
  BY DEF IInv, Editable
<1>4. PendingCalls(kind) = {}
  BY NotPending DEF Editable
<1>5. CallsOK' /\ Kept
  BY <1>1, <1>2, <1>4, MoreCalls
<1>6. DialogOK' /\ dialog'.submitted
  BY <1>1, <1>3 DEF DialogOK, Dialogs, OnPage
<1>7. NothingTyped'
  BY <1>6 DEF NothingTyped
<1>8. clicks' \in Nat
  BY <1>1 DEF MappingEvent, IInv
<1>9. QED
  BY <1>1, <1>5, <1>6, <1>7, <1>8, OnPageKeeps

\* A request before it has its values.
LEMMA CallTypes ==
    ASSUME IInv, NEW kind \in {"create", "update", "delete"}, NEW m \in Mappings \cup {Blank},
           NEW k \in Capabilities
    PROVE  /\ Call(kind, m, k) \in Calls
           /\ Call(kind, m, k).kind = kind /\ Call(kind, m, k).of = m
  BY DEF Call, Calls, IInv, ConstantsOK, Values

LEMMA SubmitAddKeeps ==
    ASSUME IInv, SubmitAdd
    PROVE  IInv'
<1> DEFINE b == [Call("create", Blank, shown.capability) EXCEPT !.system = dialog.system]
           c == [b EXCEPT !.values = dialog.values]
<1>1. Editable("create") /\ dialog.system # Blank /\ SendCall(b)
  BY DEF SubmitAdd
<1>2. DialogOK /\ dialog.kind = "create"
  BY <1>1 DEF Editable, IInv
<1>3. shown.capability \in Capabilities
  BY <1>2, CapabilityOfPage DEF DialogOK
<1>4. dialog.system \in Systems /\ dialog.values \in Values
  BY <1>1, <1>2 DEF DialogOK, Dialogs, Values
<1>5. /\ Call("create", Blank, shown.capability) \in Calls
      /\ Call("create", Blank, shown.capability).kind = "create"
  BY <1>3, CallTypes
<1>6. CallOK(c) /\ c.kind = "create"
  BY <1>4, <1>5 DEF CallOK, Calls
<1> HIDE DEF b
<1>7. QED
  BY <1>1, <1>6, SendKeeps

LEMMA SubmitEditKeeps ==
    ASSUME IInv, SubmitEdit
    PROVE  IInv'
<1> DEFINE b == Call("update", dialog.of, CapabilityOf(dialog.read))
           c == [b EXCEPT !.values = dialog.values]
<1>1. Editable("update") /\ SendCall(b)
  BY DEF SubmitEdit
<1>2. DialogOK /\ dialog.kind = "update"
  BY <1>1 DEF Editable, IInv
<1>3. dialog.of \in Mappings /\ CapabilityOf(dialog.read) \in Capabilities /\ dialog.values \in Values
  BY <1>2, CapabilityOfRow DEF DialogOK, Dialogs, Values
<1>4. b \in Calls /\ b.kind = "update" /\ b.of \in Mappings
  BY <1>3, CallTypes
<1>5. CallOK(c) /\ c.kind = "update"
  BY <1>3, <1>4 DEF CallOK, Calls
<1> HIDE DEF b
<1>6. QED
  BY <1>1, <1>5, SendKeeps

LEMMA ClickDeleteKeeps ==
    ASSUME IInv, NEW m \in Mappings, ClickDeleteMapping(m)
    PROVE  IInv'
<1> DEFINE c == Call("delete", m, CapabilityOf(cache[shown].rows[m]))
<1>1. MappingEvent /\ dialog = NoDialog /\ m \in Rows /\ requests' = requests \cup {c} /\ OnPage /\ UNCHANGED dialog
  BY DEF ClickDeleteMapping
<1>2. CapabilityOf(cache[shown].rows[m]) \in Capabilities
  BY <1>1, RowsAreRows, CapabilityOfRow
<1>3. CallOK(c) /\ c.kind = "delete"
  BY <1>2, CallTypes DEF CallOK
<1> HIDE DEF c
<1>4. CallsOK' /\ Kept
  BY <1>1, <1>3, MoreCalls
<1>5. dialog' = NoDialog /\ NothingTyped' /\ clicks' \in Nat
  BY <1>1 DEF NothingTyped, MappingEvent, IInv
<1>6. QED
  BY <1>1, <1>4, <1>5, OnPageKeeps

\* An answer: the lists it concerns are stale from now on.
LEMMA InvalidateKeeps ==
    ASSUME IInv, NEW c \in requests, requests' = requests \ {c}, InvalidateLists(c.capability),
           UNCHANGED <<tables, shown>>
    PROVE  ListsOK' /\ ListsCurrent'
<1> DEFINE I == Invalidated(c.capability)
<1> USE DEF IInv
<1>1. \A q \in Queries : Matching(q)' = Matching(q)
  BY TablesLeftAlone
<1>2. ASSUME NEW q \in Queries
      PROVE  /\ cache'[q] = IF q \in I /\ cache[q] # NoData THEN [cache[q] EXCEPT !.stale = TRUE] ELSE cache[q]
             /\ q \notin I => fetches'[q] = fetches[q]
             /\ q \in I => fetches'[q] = Unanswered \/ fetches'[q] = Untold(fetches[q], "uncancelled")
  BY DEF InvalidateLists
<1>3. /\ DOMAIN cache' = Queries /\ cache' = [q \in Queries |-> cache'[q]]
      /\ DOMAIN fetches' = Queries /\ fetches' = [q \in Queries |-> fetches'[q]]
  BY DEF InvalidateLists
<1> HIDE DEF I
<1>4. ASSUME NEW q \in Queries
      PROVE  /\ cache[q] \in Entries \cup {NoData} /\ fetches[q] \in Entries \cup {NoFetch, Unanswered}
             /\ cache[q] # NoData => EntryOK(cache[q])
             /\ fetches[q] \notin {NoFetch, Unanswered} => EntryOK(fetches[q])
             /\ ~Stale(q) => Current(q, cache[q])
             /\ fetches[q] \notin {NoFetch, Unanswered} => Current(q, fetches[q])
  BY DEF ListsOK, ListsCurrent
<1>5. ASSUME NEW q \in Queries, q \in I
      PROVE  /\ cache'[q] \in Entries \cup {NoData} /\ fetches'[q] \in Entries \cup {NoFetch, Unanswered}
             /\ cache'[q] # NoData => EntryOK(cache[q])'
             /\ fetches'[q] \notin {NoFetch, Unanswered} => EntryOK(fetches[q])'
             /\ Stale(q)'
             /\ fetches'[q] \notin {NoFetch, Unanswered} => fetches'[q].untold # {}
  <2>1. ASSUME cache[q] # NoData
        PROVE  /\ cache'[q] \in Entries /\ cache'[q].stale
               /\ DOMAIN cache'[q].rows \subseteq usedIds
    <3>1. cache'[q] = [cache[q] EXCEPT !.stale = TRUE]
      BY <1>2, <1>5, <2>1
    <3>2. cache[q] \in Entries /\ DOMAIN cache[q].rows \subseteq usedIds
      BY <1>4, <2>1 DEF EntryOK
    <3>3. QED
      BY <3>1, <3>2 DEF Entries
  <2>2. cache[q] = NoData => cache'[q] = NoData
    BY <1>2
  <2>3. usedIds' = usedIds
    BY DEF tables
  <2>4. CASE fetches'[q] = Unanswered
    BY <1>4, <2>1, <2>2, <2>3, <2>4 DEF Stale, EntryOK
  <2>5. CASE fetches'[q] = Untold(fetches[q], "uncancelled")
    <3>1. CASE fetches[q] \in {NoFetch, Unanswered}
      <4>1. fetches'[q] = fetches[q]
        BY <2>5, <3>1, UntoldIs
      <4>2. QED
        BY <1>4, <2>1, <2>2, <2>3, <3>1, <4>1 DEF Stale, EntryOK
    <3>2. CASE fetches[q] \notin {NoFetch, Unanswered}
      <4>1. fetches[q] \in Entries /\ DOMAIN fetches[q].rows \subseteq usedIds
        BY <1>4, <3>2 DEF EntryOK
      <4>2. fetches'[q] \in Entries /\ fetches'[q].rows = fetches[q].rows /\ fetches'[q].untold # {}
        BY <2>5, <4>1, UntoldIs
      <4>3. QED
        BY <1>4, <2>1, <2>2, <2>3, <4>1, <4>2 DEF Stale, EntryOK
    <3>3. QED
      BY <3>1, <3>2
  <2>6. QED
    BY <1>2, <1>5, <2>4, <2>5
<1>6. ASSUME NEW q \in Queries, q \notin I
      PROVE  /\ cache'[q] = cache[q] /\ fetches'[q] = fetches[q]
             /\ \A entry : Current(q, entry) => Current(q, entry)'
  <2>1. cache'[q] = cache[q] /\ fetches'[q] = fetches[q]
    BY <1>2, <1>6
  <2>2. ToBeTold(q) => ToBeTold(q)'
    BY <1>6 DEF ToBeTold, I
  <2>3. QED
    BY <1>1, <2>1, <2>2 DEF Current
<1>7. ListsOK'
  <2>1. ASSUME NEW q \in Queries
        PROVE  /\ cache'[q] \in Entries \cup {NoData} /\ fetches'[q] \in Entries \cup {NoFetch, Unanswered}
               /\ cache'[q] # NoData => EntryOK(cache[q])'
               /\ fetches'[q] \notin {NoFetch, Unanswered} => EntryOK(fetches[q])'
    BY <1>4, <1>5, <1>6 DEF EntryOK, tables
  <2>2. shown' \in Queries
    BY DEF ListsOK
  <2>3. QED
    BY <1>3, <2>1, <2>2 DEF ListsOK
<1>8. ListsCurrent'
  <2>1. ASSUME NEW q \in Queries
        PROVE  /\ ~Stale(q)' => Current(q, cache[q])'
               /\ fetches'[q] \notin {NoFetch, Unanswered} => Current(q, fetches[q])'
    <3>1. CASE q \in I
      BY <1>5, <3>1 DEF Current
    <3>2. CASE q \notin I
      <4>1. Stale(q)' <=> Stale(q)
        BY <1>6, <3>2 DEF Stale
      <4>2. /\ Current(q, cache[q]) => Current(q, cache[q])'
            /\ Current(q, fetches[q]) => Current(q, fetches[q])'
        BY <1>6, <3>2 DEF Current
      <4>3. QED
        BY <1>4, <1>6, <3>2, <4>1, <4>2
    <3>3. QED
      BY <3>1, <3>2
  <2>2. QED
    BY <2>1 DEF ListsCurrent
<1>9. QED
  BY <1>7, <1>8

LEMMA AnsweredKeeps ==
    ASSUME IInv, NEW c \in requests, CallAnswered(c)
    PROVE  IInv'
<1>1. /\ c.step \in {"done", "failed"} /\ ~c.lost
      /\ requests' = requests \ {c} /\ dialog' = AfterCall(c)
      /\ UNCHANGED <<tables, shown, bounds>>
  BY DEF CallAnswered
<1>2. \A kind : PendingCalls(kind)' \subseteq PendingCalls(kind) \ {c}
  BY <1>1 DEF PendingCalls
<1>3. NothingTyped' /\ (dialog' = NoDialog \/ DialogOK')
  BY <1>1, <1>2, AfterCallKeeps
<1>4. \A d \in requests' : CallOK(d)
  BY <1>1 DEF IInv, CallsOK
<1>5. CallsOK'
  BY <1>2, <1>4, FewerCalls DEF IInv
<1>6. ListsOK' /\ ListsCurrent'
  <2>1. CASE c.step = "done"
    BY <1>1, <2>1, InvalidateKeeps DEF CallAnswered
  <2>2. CASE c.step # "done"
    <3>1. UNCHANGED <<cache, fetches>>
      BY <2>2 DEF CallAnswered
    <3>2. Kept
      BY <1>1, <2>2 DEF Kept
    <3>3. QED
      BY <1>1, <3>1, <3>2, ListsLeftAlone DEF IInv, tables
  <2>3. QED
    BY <2>1, <2>2
<1>7. QED
  BY <1>1, <1>3, <1>5, <1>6, TablesLeftAlone DEF IInv, bounds

LEMMA LostKeeps ==
    ASSUME IInv, NEW c \in requests, CallLost(c)
    PROVE  IInv'
<1> DEFINE d == [c EXCEPT !.step = "failed"]
           e == [c EXCEPT !.lost = TRUE]
<1>1. /\ ~c.lost /\ MappingEvent
      /\ requests' = (requests \ {c}) \cup (IF c.step \in {"sent", "checked"} THEN {e} ELSE {})
      /\ dialog' = AfterCall(d)
      /\ UNCHANGED <<tables, shown>>
  BY DEF CallLost
<1>2. CallOK(e) /\ e.lost /\ d.kind = c.kind /\ d.mounted = c.mounted
  BY DEF IInv, CallsOK, CallOK, Calls
<1> HIDE DEF d, e
<1>3. \A kind : PendingCalls(kind)' \subseteq PendingCalls(kind) \ {c}
  BY <1>1, <1>2 DEF PendingCalls
<1>4. NothingTyped' /\ (dialog' = NoDialog \/ DialogOK')
  BY <1>1, <1>2, <1>3, AfterCallKeeps
<1>5. \A x \in requests' : CallOK(x)
  BY <1>1, <1>2 DEF IInv, CallsOK
<1>6. CallsOK'
  BY <1>3, <1>5, FewerCalls DEF IInv
<1>7. \A q \in Queries : Matching(q)' = Matching(q)
  BY <1>1, TablesLeftAlone DEF IInv
<1>8. ListsOK' /\ ListsCurrent'
  <2>1. CASE c.step = "done"
    <3>1. ChangeUntold("foreign", Queries)
      BY <2>1 DEF CallLost
    <3>2. QED
      BY <1>1, <3>1, ListsAfterChange DEF IInv, tables
  <2>2. CASE c.step # "done"
    <3>1. UNCHANGED <<cache, fetches>>
      BY <2>2 DEF CallLost
    <3>2. Kept
      BY <1>1, <2>2 DEF Kept
    <3>3. QED
      BY <1>1, <3>1, <3>2, ListsLeftAlone DEF IInv, tables
  <2>3. QED
    BY <2>1, <2>2
<1>9. clicks' \in Nat
  BY <1>1 DEF MappingEvent, IInv
<1>10. QED
  BY <1>1, <1>4, <1>6, <1>8, <1>9, TablesLeftAlone DEF IInv

-----------------------------------------------------------------------------
(* The server *)

\* The lists that a request for a capability invalidates are all that show a row of it.
LEMMA OtherLists ==
    ASSUME ConstantsOK, TablesOK, NEW m \in Mappings, NEW k,
           \A n \in Mappings \ {m} : row'[n] = row[n],
           row[m] # NoMapping => row[m].capability = k,
           row'[m] # NoMapping => row'[m].capability = k,
           NEW q \in Queries, q \notin Invalidated(k)
    PROVE  Matching(q)' = Matching(q)
<1>1. IsCapabilityPage(q) /\ q # OfCapability(k)
  BY DEF Invalidated
<1>2. q.capability # k
  BY <1>1, CapabilityPages
<1>3. QED
  BY <1>1, <1>2, OtherCapability

\* A write of one row, by a request of the page.
LEMMA WroteKeeps ==
    ASSUME IInv, NEW c \in requests, c.step # "done", NEW m \in Mappings, NEW k,
           Wrote(c, k), UNCHANGED <<shown, dialog, bounds>>,
           usedIds \subseteq usedIds', TablesOK',
           \A n \in Mappings \ {m} : row'[n] = row[n],
           row[m] # NoMapping => row[m].capability = k,
           row'[m] # NoMapping => row'[m].capability = k
    PROVE  IInv'
<1>1. /\ CallsOK' /\ NothingTyped' /\ Kept
      /\ ~c.lost => \A q \in Invalidated(c.capability) : ToBeTold(q)'
  BY FinishKeeps DEF Wrote, IInv
<1>2. \A q \in Queries : q \notin Invalidated(k) => Matching(q)' = Matching(q)
  BY OtherLists DEF IInv
<1>3. \A q \in Queries : ToBeTold(q) => ToBeTold(q)'
  BY <1>1, KeptTells
<1>4. ListsOK' /\ ListsCurrent'
  <2>1. CASE c.lost
    <3>1. ChangeUntold("foreign", Affected)
      BY <2>1 DEF Wrote
    <3>2. \A q \in Queries : q \notin Affected => Matching(q)' = Matching(q)
      BY DEF Affected
    <3>3. QED
      BY <1>3, <3>1, <3>2, ListsAfterChange DEF IInv
  <2>2. CASE ~c.lost /\ k = c.capability
    <3>1. UNCHANGED <<cache, fetches>>
      BY <2>2 DEF Wrote
    <3>2. \A q \in Queries : Matching(q)' = Matching(q) \/ ToBeTold(q)'
      BY <1>1, <1>2, <2>2
    <3>3. QED
      BY <1>3, <3>1, <3>2, ListsAfterChange DEF IInv
  <2>3. CASE ~c.lost /\ k # c.capability
    <3>1. ChangeUntold("misdirected", {OfCapability(k)})
      BY <2>3 DEF Wrote
    <3>2. ASSUME NEW q \in Queries, q \notin {OfCapability(k)}
          PROVE  Matching(q)' = Matching(q) \/ ToBeTold(q)'
      <4>1. CASE IsCapabilityPage(q)
        <5>1. q \notin Invalidated(k)
          BY <3>2, <4>1 DEF Invalidated
        <5>2. QED
          BY <1>2, <5>1
      <4>2. CASE ~IsCapabilityPage(q)
        BY <1>1, <2>3, <4>2 DEF Invalidated
      <4>3. QED
        BY <4>1, <4>2
    <3>3. QED
      BY <1>3, <3>1, <3>2, ListsAfterChange DEF IInv
  <2>4. QED
    BY <2>1, <2>2, <2>3
<1>5. QED
  BY <1>1, <1>4 DEF IInv, bounds, DialogOK

\* A request that changes no table.
LEMMA NoWrite ==
    ASSUME IInv, UNCHANGED <<tables, cache, fetches, shown, dialog, bounds>>,
           CallsOK', NothingTyped', Kept
    PROVE  IInv'
  BY ListsLeftAlone, TablesLeftAlone DEF IInv, bounds, DialogOK, tables

LEMMA FailKeeps ==
    ASSUME IInv, NEW c \in requests, c.step # "done", Fail(c), UNCHANGED <<shown, dialog, bounds>>
    PROVE  IInv'
<1>1. CallsOK' /\ NothingTyped' /\ Kept
  BY FinishKeeps DEF Fail, IInv
<1>2. QED
  BY <1>1, NoWrite DEF Fail

LEMMA CheckCapabilityKeeps ==
    ASSUME IInv, NEW c \in requests, CheckCapability(c)
    PROVE  IInv'
<1>1. c.step # "done" /\ UNCHANGED <<tables, screenVars, bounds>>
  BY DEF CheckCapability
<1>2. CASE requests' = (requests \ {c}) \cup {[c EXCEPT !.step = "checked"]}
  <2>1. CallsOK' /\ NothingTyped'
    BY <1>1, <1>2, StepOfCall DEF IInv, screenVars
  <2>2. Kept
    BY <1>1, <1>2 DEF Kept
  <2>3. QED
    BY <1>1, <2>1, <2>2, NoWrite DEF screenVars
<1>3. CASE Finish(c, "failed")
  BY <1>1, <1>3, FailKeeps DEF Fail, screenVars
<1>4. QED
  BY <1>2, <1>3 DEF CheckCapability

LEMMA CreateMappingKeeps ==
    ASSUME IInv, NEW c \in requests, CreateMapping(c)
    PROVE  IInv'
<1> DEFINE r == [capability |-> c.capability, system |-> c.system,
                 state |-> c.values.state, details |-> c.values.details]
<1>1. PICK m \in Mappings \ usedIds : row' = [row EXCEPT ![m] = r] /\ usedIds' = usedIds \cup {m}
  BY DEF CreateMapping, Insert
<1>2. c.step # "done" /\ Wrote(c, c.capability) /\ UNCHANGED <<shown, dialog, bounds>>
  BY DEF CreateMapping
<1>3. r \in MappingRow
  BY DEF CreateMapping, IInv, CallsOK, CallOK, Calls, Values, MappingRow
<1>4. r.capability = c.capability
  OBVIOUS
<1> HIDE DEF r
<1>5. row[m] = NoMapping
  BY <1>1 DEF IInv, TablesOK, StoredMappings
<1>6. TablesOK'
  BY <1>1, <1>2, <1>3 DEF IInv, TablesOK, StoredMappings, Wrote
<1>7. row'[m] = r /\ \A n \in Mappings \ {m} : row'[n] = row[n]
  BY <1>1 DEF IInv, TablesOK
<1>8. QED
  BY <1>1, <1>2, <1>4, <1>5, <1>6, <1>7, WroteKeeps

LEMMA UpdateMappingKeeps ==
    ASSUME IInv, NEW c \in requests, UpdateMapping(c)
    PROVE  IInv'
<1> DEFINE m == c.of
           r == [f \in DOMAIN row[m] |-> IF f \in Columns THEN c.values[f] ELSE row[m][f]]
<1>1. c.step # "done" /\ UNCHANGED <<shown, dialog, bounds>> /\ m \in Mappings /\ c.values \in Values
  BY DEF UpdateMapping, IInv, CallsOK, CallOK, Calls
<1>2. CASE row[m] = NoMapping
  BY <1>1, <1>2, FailKeeps DEF UpdateMapping
<1>3. CASE row[m] # NoMapping
  <2>1. row' = [row EXCEPT ![m] = r] /\ usedIds' = usedIds /\ Wrote(c, row[m].capability)
    BY <1>3 DEF UpdateMapping, UpdateColumns
  <2>2. row[m] \in MappingRow
    BY <1>1, <1>3 DEF IInv, TablesOK
  <2>3. r \in MappingRow /\ r.capability = row[m].capability
    BY <1>1, <2>2 DEF MappingRow, Values, Columns
  <2> HIDE DEF r, m
  <2>4. TablesOK'
    BY <1>1, <1>3, <2>1, <2>3 DEF IInv, TablesOK, StoredMappings, Wrote
  <2>5. row'[m] = r /\ \A n \in Mappings \ {m} : row'[n] = row[n]
    BY <1>1, <2>1 DEF IInv, TablesOK
  <2>6. QED
    BY <1>1, <2>1, <2>3, <2>4, <2>5, WroteKeeps
<1>4. QED
  BY <1>2, <1>3

LEMMA DeleteMappingKeeps ==
    ASSUME IInv, NEW c \in requests, DeleteMapping(c)
    PROVE  IInv'
<1> DEFINE m == c.of
<1>1. c.step # "done" /\ UNCHANGED <<shown, dialog, bounds>> /\ m \in Mappings
  BY DEF DeleteMapping, IInv, CallsOK, CallOK, Calls
<1>2. CASE row[m] = NoMapping
  BY <1>1, <1>2, FailKeeps DEF DeleteMapping
<1>3. CASE row[m] # NoMapping
  <2>1. row' = [row EXCEPT ![m] = NoMapping] /\ usedIds' = usedIds /\ Wrote(c, row[m].capability)
    BY <1>3 DEF DeleteMapping, Remove
  <2> HIDE DEF m
  <2>2. TablesOK'
    BY <1>1, <2>1 DEF IInv, TablesOK, StoredMappings, Wrote
  <2>3. row'[m] = NoMapping /\ \A n \in Mappings \ {m} : row'[n] = row[n]
    BY <1>1, <2>1 DEF IInv, TablesOK
  <2>4. QED
    BY <1>1, <2>1, <2>2, <2>3, WroteKeeps
<1>4. QED
  BY <1>2, <1>3

\* Whatever others do to the tables, the lists it affects are noted.
LEMMA OtherClientKeeps ==
    ASSUME IInv, OtherMappingClient
    PROVE  IInv'
<1>1. /\ MappingEvent /\ ChangeUntold("foreign", Affected)
      /\ UNCHANGED <<shown, dialog, requests>>
  BY DEF OtherMappingClient
<1>2. TablesOK' /\ usedIds \subseteq usedIds'
  <2>1. ASSUME NEW m \in StoredMappings, NEW s \in MappingState, UpdateColumns(m, {"state"}, [state |-> s]),
               UNCHANGED <<usedIds, retired>>
        PROVE  TablesOK' /\ usedIds \subseteq usedIds'
    <3> DEFINE r == [f \in DOMAIN row[m] |-> IF f \in {"state"} THEN [state |-> s][f] ELSE row[m][f]]
    <3>1. row' = [row EXCEPT ![m] = r]
      BY <2>1 DEF UpdateColumns
    <3>2. m \in Mappings /\ row[m] \in MappingRow
      BY DEF IInv, TablesOK, StoredMappings
    <3>3. r \in MappingRow
      BY <3>2 DEF MappingRow
    <3> HIDE DEF r
    <3>4. QED
      BY <2>1, <3>1, <3>2, <3>3 DEF IInv, TablesOK, StoredMappings
  <2>2. ASSUME NEW m \in StoredMappings, Remove(m), UNCHANGED <<usedIds, retired>>
        PROVE  TablesOK' /\ usedIds \subseteq usedIds'
    BY <2>2 DEF Remove, IInv, TablesOK, StoredMappings
  <2>3. ASSUME NEW m \in Mappings \ usedIds, NEW c \in Capabilities \ retired, NEW s \in Systems,
               Insert(m, [capability |-> c, system |-> s, state |-> DialogDefaults.state,
                          details |-> DialogDefaults.details]),
               UNCHANGED retired
        PROVE  TablesOK' /\ usedIds \subseteq usedIds'
    <3> DEFINE r == [capability |-> c, system |-> s, state |-> DialogDefaults.state,
                     details |-> DialogDefaults.details]
    <3>1. r \in MappingRow
      BY DEF IInv, ConstantsOK, MappingRow
    <3>2. row' = [row EXCEPT ![m] = r] /\ usedIds' = usedIds \cup {m}
      BY <2>3 DEF Insert
    <3> HIDE DEF r
    <3>3. QED
      BY <2>3, <3>1, <3>2 DEF IInv, TablesOK, StoredMappings
  <2>4. ASSUME NEW from \in Capabilities \ retired, NEW to \in Capabilities \ retired,
               row' = [m \in Mappings |-> IF m \in StoredMappings /\ row[m] # NoMapping /\ row[m].capability = from
                                          THEN [row[m] EXCEPT !.capability = to] ELSE row[m]],
               retired' = retired \cup {from}, UNCHANGED usedIds
        PROVE  TablesOK' /\ usedIds \subseteq usedIds'
    <3>1. \A m \in StoredMappings : m \in Mappings /\ row[m] \in MappingRow /\ [row[m] EXCEPT !.capability = to] \in MappingRow
      BY DEF IInv, TablesOK, StoredMappings, MappingRow
    <3>2. row' \in [Mappings -> MappingRow \cup {NoMapping}] /\ StoredMappings' \subseteq StoredMappings
      BY <2>4, <3>1 DEF IInv, TablesOK, StoredMappings
    <3>3. QED
      BY <2>4, <3>2 DEF IInv, TablesOK
  <2>5. QED
    BY <2>1, <2>2, <2>3, <2>4 DEF OtherMappingClient
<1>3. CallsOK' /\ NothingTyped' /\ Kept /\ (dialog' = NoDialog \/ DialogOK')
  BY <1>1, CallsLeftAlone
<1>4. \A q \in Queries : ToBeTold(q) => ToBeTold(q)'
  BY <1>3, KeptTells
<1>5. \A q \in Queries : q \notin Affected => Matching(q)' = Matching(q)
  BY DEF Affected
<1>6. ListsOK' /\ ListsCurrent'
  BY <1>1, <1>2, <1>4, <1>5, ListsAfterChange DEF IInv
<1>7. clicks' \in Nat
  BY <1>1 DEF MappingEvent, IInv
<1>8. QED
  BY <1>2, <1>3, <1>6, <1>7 DEF IInv

-----------------------------------------------------------------------------
(* What follows *)

LEMMA NextOK == IInv /\ [PageNext]_mappingVars => IInv'
<1> SUFFICES ASSUME IInv, [PageNext]_mappingVars PROVE IInv'
  OBVIOUS
<1>1. ASSUME NEW q \in Queries, MappingsServed(q) \/ MappingsAnswered(q) \/ Show(q) PROVE IInv'
  BY <1>1, ListServedKeeps, ListAnsweredKeeps, ShowKeeps
<1>2. CASE RefetchMappings
  BY <1>2, RefetchKeeps
<1>3. CASE OpenAdd \/ CloseDialog \/ (\E m \in Mappings : OpenEdit(m))
  BY <1>3, DialogsOpenKeep
<1>4. CASE TypeInAdd \/ TypeInEdit
  BY <1>4, TypingKeeps
<1>5. CASE SubmitAdd \/ SubmitEdit
  BY <1>5, SubmitAddKeeps, SubmitEditKeeps
<1>6. CASE \E m \in Mappings : ClickDeleteMapping(m)
  BY <1>6, ClickDeleteKeeps
<1>7. ASSUME NEW c \in requests,
             \/ CallAnswered(c) \/ CallLost(c)
             \/ CheckCapability(c) \/ CreateMapping(c) \/ UpdateMapping(c) \/ DeleteMapping(c)
      PROVE  IInv'
  BY <1>7, AnsweredKeeps, LostKeeps, CheckCapabilityKeeps, CreateMappingKeeps, UpdateMappingKeeps,
     DeleteMappingKeeps
<1>8. CASE OtherMappingClient
  BY <1>8, OtherClientKeeps
<1>9. CASE UNCHANGED mappingVars
  <2>1. UNCHANGED <<tables, cache, fetches, shown, dialog, bounds, requests>>
    BY <1>9 DEF mappingVars, screenVars
  <2>2. CallsOK' /\ NothingTyped' /\ Kept
    BY <2>1, CallsLeftAlone
  <2>3. QED
    BY <2>1, <2>2, NoWrite
<1>10. QED
  BY <1>1, <1>2, <1>3, <1>4, <1>5, <1>6, <1>7, <1>8, <1>9 DEF PageNext

LEMMA OneCall ==
    ASSUME CallsOK, NEW kind \in {"create", "update"}
    PROVE  Cardinality({c \in requests : c.kind = kind /\ c.mounted /\ ~c.lost}) <= 1
<1> SUFFICES Cardinality(PendingCalls(kind)) <= 1
  BY DEF PendingCalls
<1>1. CASE PendingCalls(kind) = {}
  BY <1>1, FS_EmptySet
<1>2. CASE PendingCalls(kind) # {}
  <2>1. PICK c \in PendingCalls(kind) : PendingCalls(kind) = {c}
    BY <1>2 DEF CallsOK, OnePending
  <2>2. Cardinality({c}) = 1
    BY FS_Singleton
  <2>3. QED
    BY <2>1, <2>2
<1>3. QED
  BY <1>1, <1>2

LEMMA Right == IInv => MappingsAreRight
<1> SUFFICES ASSUME IInv PROVE MappingsAreRight
  OBVIOUS
<1>1. MappingsTypeOK
  BY OneCall DEF IInv, MappingsTypeOK, TablesOK, ListsOK, EntryOK
<1>2. SettledListIsCurrent
  BY DEF IInv, SettledListIsCurrent, ListsCurrent, Current, ToBeTold
<1>3. QED
  BY <1>1, <1>2 DEF MappingsAreRight

\* The answer that closes a dialog belongs to a request of its kind.
LEMMA ClosesItsOwn ==
    ASSUME IInv, NEW c \in requests, CallAnswered(c), dialog # NoDialog, dialog' = NoDialog
    PROVE  dialog.submitted \/ dialog.typed = {}
<1>1. ~c.lost /\ dialog' = AfterCall(c)
  BY DEF CallAnswered
<1>2. dialog.kind = c.kind /\ c.mounted
  BY <1>1 DEF AfterCall
<1>3. c \in PendingCalls(dialog.kind)
  BY <1>1, <1>2 DEF PendingCalls
<1>4. QED
  BY <1>3 DEF IInv, NothingTyped

\* Once the requests of the page are answered, whichever others overtook them or were
\* lost, every list that counts as fresh shows what the server has, unless the page was
\* not told of a change; and one request of a dialog is under way at a time.
\* (useCreateMapping, useUpdateMapping, useDeleteMapping in web api/mappings.ts.)
THEOREM MappingListsCorrect == PageSpec => []MappingsAreRight
<1>1. PageInit => IInv
  BY InitOK, ConstantsAssumption
<1>2. IInv /\ [PageNext]_mappingVars => IInv'
  BY NextOK
<1>3. IInv => MappingsAreRight
  BY Right
<1>4. QED
  BY <1>1, <1>2, <1>3, PTL DEF PageSpec

\* A late answer closes no dialog in which something has been typed that was not sent.
\* (handleUpdateMapping, handleCreateMapping; disabled={isPending} in the dialogs.)
THEOREM NothingTypedIsLost == PageSpec => TypedSurvives
<1> DEFINE Survives ==
        \A c \in requests :
          CallAnswered(c) /\ dialog # NoDialog /\ dialog' = NoDialog => dialog.submitted \/ dialog.typed = {}
<1>1. PageInit => IInv
  BY InitOK, ConstantsAssumption
<1>2. IInv /\ [PageNext]_mappingVars => IInv'
  BY NextOK
<1>3. IInv => Survives
  BY ClosesItsOwn
<1>4. IInv /\ [PageNext]_mappingVars => [Survives]_mappingVars
  BY <1>3
<1> HIDE DEF Survives
<1>5. PageSpec => [][Survives]_mappingVars
  BY <1>1, <1>2, <1>4, PTL DEF PageSpec
<1>6. QED
  BY <1>5 DEF TypedSurvives, Survives
=============================================================================

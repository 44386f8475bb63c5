-------------------------- MODULE DownstreamConsumers --------------------------
(***************************************************************************)
(* The registry of downstream consumers on the server: its table and the   *)
(* requests that are being served, one step per database call.  A PATCH    *)
(* reads the row, resolves the transformation profile against the contract *)
(* type that the row will have, and later writes all columns; every answer *)
(* reads the row again.  The delivery worker resolves the stored profile   *)
(* against the stored contract type once more, for every attempt.          *)
(* Source: integration/downstream-consumer.service.ts and                  *)
(* integration/transformation-profile.service.ts.                          *)
(***************************************************************************)
EXTENDS Integers, FiniteSets

CONSTANTS
    Ids,            \* the keys of rows, each given once
    Names,
    ContractTypes,  \* those in use, of AllContractTypes
    HealthStatus,
    InitialRows,    \* the tables to start from
    Handlers,       \* requests served at a time
    Unset,          \* an absent value, and the name of a consumer that is not there
    NoRow,
    NoRequest

AllContractTypes == {"REST_API", "WEBHOOK", "BATCH_EXPORT", "FILE_DROP", "EVENT_STREAM", "KAFKA"}

ASSUME ContractTypesKnown == ContractTypes \subseteq AllContractTypes

Profiles == <<"published-model-v1", "capability-delta-v1", "release-summary-v1">>
ProfileIds == {Profiles[i] : i \in DOMAIN Profiles}

SupportedContractTypes ==
    [p \in ProfileIds |->
        CASE p = "published-model-v1" -> {"REST_API", "WEBHOOK", "FILE_DROP"}
          [] p = "capability-delta-v1" -> {"WEBHOOK", "EVENT_STREAM", "KAFKA", "REST_API"}
          [] p = "release-summary-v1" -> {"BATCH_EXPORT", "FILE_DROP", "REST_API"}]

DefaultProfile ==
    [t \in AllContractTypes |->
        CASE t \in {"BATCH_EXPORT", "FILE_DROP"} -> "release-summary-v1"
          [] t \in {"EVENT_STREAM", "KAFKA", "WEBHOOK"} -> "capability-delta-v1"
          [] t = "REST_API" -> "published-model-v1"]

\* resolveProfile: the profile named, or else the default of the contract type;
\* Unset when the request is refused.
ResolveProfile(profile, contractType) ==
    LET effective == IF profile = Unset THEN DefaultProfile[contractType] ELSE profile
    IN  IF contractType \in SupportedContractTypes[effective] THEN effective ELSE Unset

VARIABLES
    rows,       \* the table
    used,       \* the keys given so far
    request     \* what each handler is working on

serverVars == <<rows, used, request>>

Fields == {"name", "contractType", "transformationProfile", "healthStatus"}
Row == [name : Names, contractType : ContractTypes, transformationProfile : ProfileIds,
        healthStatus : HealthStatus]

Stored == {i \in Ids : rows[i] # NoRow}
Tables == [Ids -> Row \cup {NoRow}]
NameTaken(name, i) == \E j \in Stored \ {i} : rows[j].name = name

ServerInit ==
    /\ rows \in InitialRows
    /\ used = Stored
    /\ request = [h \in Handlers |-> NoRequest]

\* dto: a function from the fields the body has to their values.
Receive(h, op, id, dto, n) ==
    /\ request[h] = NoRequest
    /\ request' = [request EXCEPT ![h] =
                     [op |-> op, id |-> id, dto |-> dto, n |-> n, step |-> "received", row |-> NoRow]]
    /\ UNCHANGED <<rows, used>>

Working(h, op, step) ==
    IF request[h] = NoRequest THEN FALSE
    ELSE request[h].op = op /\ request[h].step = step

Goto(h, step, row) == request' = [request EXCEPT ![h].step = step, ![h].row = row]
Refuse(h) == Goto(h, "refused", NoRow)

Of(dto, field, other) == IF field \in DOMAIN dto THEN dto[field] ELSE other

\* The columns that a body and the row it is about make; a blank name is refused.
Merged(dto, existing) ==
    LET contractType == Of(dto, "contractType", existing.contractType)
    IN  [name |-> Of(dto, "name", existing.name),
         contractType |-> contractType,
         transformationProfile |->
            ResolveProfile(Of(dto, "transformationProfile", existing.transformationProfile), contractType),
         healthStatus |-> Of(dto, "healthStatus", existing.healthStatus)]

Acceptable(row) == row.name # Unset /\ row.transformationProfile # Unset

Defaults == [name |-> Unset, contractType |-> Unset, transformationProfile |-> Unset,
             healthStatus |-> "HEALTHY"]

\* create: validation and insert; the unique index on the name decides.
Create(h) ==
    LET row == Merged(request[h].dto, Defaults)
    IN  /\ Working(h, "create", "received")
        /\ IF Acceptable(row) /\ ~NameTaken(row.name, Unset)
           THEN \E i \in Ids \ used :
                  /\ rows' = [rows EXCEPT ![i] = row]
                  /\ used' = used \cup {i}
                  /\ request' = [request EXCEPT ![h].id = i, ![h].step = "written"]
           ELSE Refuse(h) /\ UNCHANGED <<rows, used>>

\* getRecordOrThrow.
ReadRecord(h, op) ==
    /\ Working(h, op, "received")
    /\ IF request[h].id \in Stored THEN Goto(h, "read", rows[request[h].id]) ELSE Refuse(h)
    /\ UNCHANGED <<rows, used>>

ReadForUpdate(h) == ReadRecord(h, "update")
ReadForDelete(h) == ReadRecord(h, "delete")

WriteColumns(h, row) == rows' = [rows EXCEPT ![request[h].id] = row]

\* update, after the read: refused by the profile, by the index, or because the row
\* is gone; otherwise every column is written.
Update(h) ==
    LET row == Merged(request[h].dto, request[h].row)
        i == request[h].id
    IN  /\ Working(h, "update", "read")
        /\ IF Acceptable(row) /\ i \in Stored /\ ~NameTaken(row.name, i)
           THEN WriteColumns(h, row) /\ Goto(h, "written", NoRow)
           ELSE Refuse(h) /\ UNCHANGED rows
        /\ UNCHANGED used

Delete(h) ==
    /\ Working(h, "delete", "read")
    /\ IF request[h].id \in Stored
       THEN rows' = [rows EXCEPT ![request[h].id] = NoRow] /\ Goto(h, "done", NoRow)
       ELSE Refuse(h) /\ UNCHANGED rows
    /\ UNCHANGED used

\* findOne: the answer of create and update is read after the write, and is an
\* error when the row has been deleted in between.
FindOne(h) ==
    /\ \E op \in {"create", "update"} : Working(h, op, "written")
    /\ IF request[h].id \in Stored THEN Goto(h, "done", NoRow) ELSE Refuse(h)
    /\ UNCHANGED <<rows, used>>

Finished(h) == IF request[h] = NoRequest THEN FALSE ELSE request[h].step \in {"done", "refused"}
Release(h) == request' = [request EXCEPT ![h] = NoRequest]

Serve(h) ==
    Create(h) \/ ReadForUpdate(h) \/ ReadForDelete(h) \/ Update(h) \/ Delete(h) \/ FindOne(h)

\* The body of a PATCH: some of the columns, each with a value of its kind.  (A
\* contract type or profile that is not known is always refused.)
IsPartial(dto) ==
    /\ "name" \in DOMAIN dto => dto["name"] \in Names \cup {Unset}
    /\ "contractType" \in DOMAIN dto => dto["contractType"] \in ContractTypes
    /\ "transformationProfile" \in DOMAIN dto => dto["transformationProfile"] \in ProfileIds \cup {Unset}
    /\ "healthStatus" \in DOMAIN dto => dto["healthStatus"] \in HealthStatus

Deliverable(row) == ResolveProfile(row.transformationProfile, row.contractType) # Unset

\* The rows to start from were written by this code.
ASSUME TablesAssumption ==
    /\ InitialRows \subseteq Tables
    /\ \A table \in InitialRows : \A i \in Ids : table[i] # NoRow => Deliverable(table[i])

\* Every stored consumer can be delivered to: its profile supports its contract
\* type, so resolveProfile in buildPayload never throws in the delivery worker.
\* Two PATCHes, one of the profile and one of the contract type, each validate
\* against a row that the other is about to change.
ProfileSupportsContract ==
    \A i \in Stored : Deliverable(rows[i])
=============================================================================

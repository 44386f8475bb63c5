---------------------------- MODULE ModelVersions ---------------------------
(***************************************************************************)
(* Versions of the capability model: the draft of the main model, the      *)
(* changes recorded in it, its publication, and what-if branches over it.  *)
(* Source: apps/api/src/versioning and the endpoints of capability that    *)
(* record changes.                                                         *)
(*                                                                         *)
(* A request is one or two reads followed by one commit; others commit in  *)
(* between (READ COMMITTED).  What the database adds is in the guards of   *)
(* the commits: one MAIN draft, one MAIN published version and unique      *)
(* labels (indexes of model_version), one successor per history entry      *)
(* (index of capability_version), foreign keys, and the row lock that an   *)
(* update of a capability holds until it commits.                          *)
(*                                                                         *)
(* Time is counted in versions and in history entries.  A capability id is *)
(* used once: the database never gives an id again.                        *)
(***************************************************************************)
EXTENDS Naturals, Sequences, FiniteSets

CONSTANTS
    Capabilities,    \* ids of rows of the table capability
    Contents,        \* what a row holds
    Handlers,        \* requests running at a time
    Labels,          \* version labels of releases
    BranchNames,     \* names of what-if branches
    MaxVersions,     \* bound on the rows of model_version
    MaxChanges,      \* bound on the rows of capability_version ever inserted
    NoContent,       \* a snapshot that is null
    NoRow,           \* a capability that has not been created yet
    Gone,            \* a capability that has been deleted
    Unnamed          \* the label of a draft, which nobody else chooses

ModelVersionState == {"DRAFT", "PUBLISHED", "ROLLED_BACK"}
VersionId == 1..MaxVersions
Null == 0

ASSUME VersionsAssumption ==
    /\ MaxVersions \in Nat
    /\ MaxChanges \in Nat
    /\ NoContent \notin Contents
    /\ NoRow # Gone
    /\ Unnamed \notin Labels \cup BranchNames

ModelVersion ==
    [state : ModelVersionState, branchType : {"MAIN", "WHAT_IF"},
     label : Labels \cup BranchNames \cup {Unnamed},
     base : VersionId \cup {Null}, publishedAt : VersionId \cup {Null}]

CapabilityRow == [content : Contents, origin : VersionId \cup {Null}]

ASSUME RowsAssumption == NoRow \notin CapabilityRow /\ Gone \notin CapabilityRow

CapabilityVersion ==
    [changedAt : 1..MaxChanges, capability : Capabilities, version : VersionId,
     changeType : {"CREATE", "UPDATE", "DELETE"}, after : Contents \cup {NoContent},
     previous : 0..MaxChanges]

VARIABLES
    versions,     \* the rows of model_version, in order of creation
    capability,   \* the table capability
    history,      \* the rows of capability_version
    inserted,     \* how many of them there have ever been
    request       \* the requests in flight: what they have read so far

vars == <<versions, capability, history, inserted, request>>

Idle == [op |-> "idle"]

\* version: the draft or branch the request writes to, as it has read it.
\* linked: whether the previous entry has been read.
Request ==
    [op : {"CREATE", "UPDATE", "DELETE"}, capability : Capabilities, version : VersionId \cup {Null},
     branch : BOOLEAN, after : Contents \cup {NoContent}, linked : BOOLEAN, previous : 0..MaxChanges]
    \cup [op : {"REMOVE"}, capability : Capabilities]
    \cup [op : {"PUBLISH"}, version : VersionId, label : Labels]
    \cup [op : {"FORK"}, version : VersionId, name : BranchNames]
    \cup [op : {"DISCARD"}, version : VersionId]
    \cup {Idle}

TypeOK ==
    /\ versions \in Seq(ModelVersion) /\ Len(versions) <= MaxVersions
    /\ \A v \in DOMAIN versions : versions[v].base < v
    /\ capability \in [Capabilities -> CapabilityRow \cup {NoRow, Gone}]
    /\ history \subseteq CapabilityVersion
    /\ inserted \in 0..MaxChanges
    /\ request \in [Handlers -> Request]
    /\ \A e \in history : e.version \in DOMAIN versions /\ e.changedAt <= inserted

\* A database without the sample data of the seed.
Init ==
    /\ versions = << >>
    /\ capability = [c \in Capabilities |-> NoRow]
    /\ history = {}
    /\ inserted = 0
    /\ request = [h \in Handlers |-> Idle]

-----------------------------------------------------------------------------
(* Queries *)

Exists(c) == capability[c] \notin {NoRow, Gone}
OnMain(c) == Exists(c) /\ capability[c].origin = Null

IsMain(v) == versions[v].branchType = "MAIN"
IsBranch(v) == versions[v].branchType = "WHAT_IF"
Drafts == {v \in DOMAIN versions : IsMain(v) /\ versions[v].state = "DRAFT"}
Released == {v \in DOMAIN versions : IsMain(v) /\ versions[v].state # "DRAFT"}
Closed(v) == versions[v].state # "DRAFT"

\* getCurrentDraft.
Draft == IF Drafts = {} THEN Null ELSE CHOOSE v \in Drafts : TRUE

Entries(V) == {e \in history : e.version \in V}
EntriesOf(c) == {e \in history : e.capability = c}
Last(E) == CHOOSE e \in E : \A f \in E : f.changedAt <= e.changedAt
First(E) == CHOOSE e \in E : \A f \in E : e.changedAt <= f.changedAt

\* The newest entry of a capability in any version, which the next one links to.
NewestEntry(c) == IF EntriesOf(c) = {} THEN 0 ELSE Last(EntriesOf(c)).changedAt

\* Of the entries E, what the newest says of each capability: its content, or
\* NoContent if it was deleted or never there.
Newest(E) ==
    [c \in Capabilities |->
        LET own == {e \in E : e.capability = c}
        IN  IF own = {} THEN NoContent ELSE Last(own).after]

\* buildCapabilityStateAtVersion: the versions of MAIN published at or before
\* the cutoff, and the version itself.
Cutoff(v) == IF versions[v].publishedAt = Null THEN v ELSE versions[v].publishedAt
UpTo(v) == {u \in DOMAIN versions : IsMain(u) /\ versions[u].publishedAt \in 1..Cutoff(v)}
           \cup {u \in {v} : IsMain(u)}
StateAt(v) == Newest(Entries(UpTo(v)))

\* getVersionLineageRange: from `to` back along base_version_id until `from` or
\* the end of the chain.
Lineage(from, to) ==
    LET back[v \in 0..Len(versions)] ==
          CASE v = Null               -> {}
            [] v # Null /\ v = from   -> {v}
            [] OTHER                  -> {v} \cup back[versions[v].base]
    IN  back[to]

\* Mutant: the changes of the baseline itself are compared too.
DiffRangeWithBaseline(from, to) ==
    IF from \in Lineage(from, to) /\ from # to THEN Lineage(from, to) ELSE {to}

\* computeDiff: the versions after the baseline, or the version alone.
DiffRange(from, to) ==
    IF from \in Lineage(from, to) /\ from # to THEN Lineage(from, to) \ {from} ELSE {to}

ChangesIn(from, to, c) == {e \in Entries(DiffRange(from, to)) : e.capability = c}

Added(from, to) ==
    {c \in Capabilities :
        LET changes == ChangesIn(from, to, c)
        IN  /\ changes # {}
            /\ First(changes).changeType = "CREATE"
            /\ Last(changes).changeType # "DELETE"}

Removed(from, to) ==
    {c \in Capabilities :
        LET changes == ChangesIn(from, to, c)
        IN  changes # {} /\ Last(changes).changeType = "DELETE"}

Modified(from, to) ==
    {c \in Capabilities : ChangesIn(from, to, c) # {}} \ (Added(from, to) \cup Removed(from, to))

-----------------------------------------------------------------------------
(* What a branch shows *)

\* Mutant: the newest entry of any version.
OwnEntriesAnywhere(b, c) == EntriesOf(c)

OwnEntries(b, c) == {e \in Entries({b}) : e.capability = c}

\* getCapabilityInBranch: the branch's own newest entry, else the base.
GetInBranch(b, c) ==
    IF OwnEntries(b, c) # {} THEN Last(OwnEntries(b, c)).after ELSE StateAt(versions[b].base)[c]

\* listCapabilitiesInBranch: the base with the branch's newest entries over it;
\* of the capabilities the base does not know, those whose newest entry is CREATE.
InBase(b, c) == \E e \in Entries(UpTo(versions[b].base)) : e.capability = c

ListInBranch(b) ==
    {c \in Capabilities :
        IF InBase(b, c)
        THEN StateAt(versions[b].base)[c] # NoContent /\ GetInBranch(b, c) # NoContent
        ELSE OwnEntries(b, c) # {} /\ Last(OwnEntries(b, c)).changeType = "CREATE"}

-----------------------------------------------------------------------------
(* Commits to the tables *)

Entry(c, v, type, after, previous) ==
    [changedAt |-> inserted + 1, capability |-> c, version |-> v, changeType |-> type,
     after |-> after, previous |-> previous]

\* Mutant: without the unique index on previous_version_id.
RecordWithoutIndex(e) ==
    /\ inserted < MaxChanges
    /\ history' = history \cup {e}
    /\ inserted' = inserted + 1

Record(e) ==
    /\ inserted < MaxChanges
    /\ e.previous # 0 => \A f \in history : f.previous # e.previous
    /\ history' = history \cup {e}
    /\ inserted' = inserted + 1

\* The row lock of an update of the main model that has not committed.
Locked(c) ==
    \E h \in Handlers : request[h].op = "UPDATE" /\ ~request[h].branch /\ request[h].capability = c

Start(h, r) ==
    /\ request[h] = Idle
    /\ request' = [request EXCEPT ![h] = r]
    /\ UNCHANGED <<versions, capability, history, inserted>>

Finish(h) == request' = [request EXCEPT ![h] = Idle]

\* A refused check, a violated index or key, a lost connection.
Abort(h) ==
    /\ request[h] # Idle
    /\ Finish(h)
    /\ UNCHANGED <<versions, capability, history, inserted>>

NewDraft(base) ==
    [state |-> "DRAFT", branchType |-> "MAIN", label |-> Unnamed, base |-> base, publishedAt |-> Null]

\* A new capability has no previous entry to link to.
Change(op, c, v, onBranch, after) ==
    [op |-> op, capability |-> c, version |-> v, branch |-> onBranch, after |-> after,
     linked |-> op = "CREATE", previous |-> 0]
-----------------------------------------------------------------------------
(* Changes of the main model: CapabilityService.create, update and delete *)

\* The new row is invisible until its transaction commits.
BeginCreate(h, c, content) ==
    /\ capability[c] = NoRow
    /\ Start(h, Change("CREATE", c, Draft, FALSE, content))

\* The update of the row takes its lock; then recordChange looks for the draft.
BeginUpdate(h, c, content) ==
    /\ OnMain(c)
    /\ ~Locked(c)
    /\ Start(h, Change("UPDATE", c, Draft, FALSE, content))

\* recordChange links to the most recent entry of the capability.
Link(h) ==
    /\ request[h].op \in {"UPDATE", "DELETE"}
    /\ ~request[h].linked
    /\ request' = [request EXCEPT ![h].linked = TRUE, ![h].previous = NewestEntry(request[h].capability)]
    /\ UNCHANGED <<versions, capability, history, inserted>>

\* ensureDraftVersionId: with no draft found, one is created.
EnsureDraft(v) ==
    IF v # Null THEN UNCHANGED versions
    ELSE /\ Drafts = {}
         /\ Len(versions) < MaxVersions
         /\ versions' = Append(versions, NewDraft(Null))

\* Mutant: the change is recorded in the published version, if there is one.
RecordedInPublished(v) ==
    IF \E u \in Released : versions[u].state = "PUBLISHED"
    THEN CHOOSE u \in Released : versions[u].state = "PUBLISHED"
    ELSE IF v # Null THEN v ELSE Len(versions) + 1

RecordedIn(v) == IF v # Null THEN v ELSE Len(versions) + 1


CommitChange(h) ==
    LET r == request[h] IN
    /\ r.op \in {"CREATE", "UPDATE"} /\ ~r.branch /\ r.linked
    /\ r.op = "CREATE" => capability[r.capability] = NoRow
    /\ EnsureDraft(r.version)
    /\ Record(Entry(r.capability, RecordedIn(r.version), r.op, r.after, r.previous))
    /\ capability' = [capability EXCEPT ![r.capability] =
                        [content |-> r.after, origin |-> Null]]
    /\ Finish(h)

\* The hard delete looks for entries in closed versions before its transaction.
BeginRemove(h, c) ==
    /\ OnMain(c)
    /\ \A e \in EntriesOf(c) : ~Closed(e.version)
    /\ Start(h, [op |-> "REMOVE", capability |-> c])

CommitRemove(h) ==
    LET c == request[h].capability IN
    /\ request[h].op = "REMOVE"
    /\ OnMain(c)
    /\ ~Locked(c)
    /\ history' = history \ EntriesOf(c)
    /\ capability' = [capability EXCEPT ![c] = Gone]
    /\ Finish(h)
    /\ UNCHANGED <<versions, inserted>>

-----------------------------------------------------------------------------
(* Publication: publishSnapshot *)

\* The draft is read in the transaction; the label may be that draft's own.
BeginPublish(h, label) ==
    /\ Draft # Null
    /\ \A v \in DOMAIN versions : versions[v].label # label
    /\ Start(h, [op |-> "PUBLISH", version |-> Draft, label |-> label])

Archived(v) ==
    IF IsMain(v) /\ versions[v].state = "PUBLISHED"
    THEN [versions[v] EXCEPT !.state = "ROLLED_BACK"] ELSE versions[v]

Published(v, label) ==
    [versions[v] EXCEPT !.state = "PUBLISHED", !.label = label, !.publishedAt = Len(versions) + 1]

\* Mutant: the new draft is based on what the draft itself was based on.
CommitPublishOnOldBase(h) ==
    LET r == request[h] IN
    /\ r.op = "PUBLISH"
    /\ Drafts \subseteq {r.version}
    /\ \A v \in DOMAIN versions \ {r.version} : versions[v].label # r.label
    /\ Len(versions) < MaxVersions
    /\ versions' = Append([v \in DOMAIN versions |->
                             IF v = r.version THEN Published(v, r.label) ELSE Archived(v)],
                          NewDraft(versions[r.version].base))
    /\ Finish(h)
    /\ UNCHANGED <<capability, history, inserted>>

\* Archive, promote, open the next draft: one draft and one published version
\* (indexes), and a label nobody else has.
CommitPublish(h) ==
    LET r == request[h] IN
    /\ r.op = "PUBLISH"
    /\ Drafts \subseteq {r.version}
    /\ \A v \in DOMAIN versions \ {r.version} : versions[v].label # r.label
    /\ Len(versions) < MaxVersions
    /\ versions' = Append([v \in DOMAIN versions |->
                             IF v = r.version THEN Published(v, r.label) ELSE Archived(v)],
                          NewDraft(r.version))
    /\ Finish(h)
    /\ UNCHANGED <<capability, history, inserted>>

-----------------------------------------------------------------------------
(* What-if branches *)

ActiveBranch(name) ==
    \E v \in DOMAIN versions : IsBranch(v) /\ versions[v].label = name /\ ~Closed(v)

\* createBranch: the draft and the name are read, then the branch is inserted.
BeginFork(h, name) ==
    /\ Draft # Null
    /\ ~ActiveBranch(name)
    /\ Start(h, [op |-> "FORK", version |-> Draft, name |-> name])

CommitFork(h) ==
    /\ request[h].op = "FORK"
    /\ Len(versions) < MaxVersions
    /\ versions' = Append(versions,
                     [state |-> "DRAFT", branchType |-> "WHAT_IF", label |-> request[h].name,
                      base |-> request[h].version, publishedAt |-> Null])
    /\ Finish(h)
    /\ UNCHANGED <<capability, history, inserted>>

\* discardBranch: the state is read, then set whatever it is by then; the
\* capabilities created in the branch go, with their entries.
BeginDiscard(h, b) ==
    /\ IsBranch(b)
    /\ ~Closed(b)
    /\ Start(h, [op |-> "DISCARD", version |-> b])

LocalTo(b) == {c \in Capabilities : Exists(c) /\ capability[c].origin = b}

CommitDiscard(h) ==
    LET b == request[h].version IN
    /\ request[h].op = "DISCARD"
    /\ versions' = [versions EXCEPT ![b].state = "ROLLED_BACK"]
    /\ capability' = [c \in Capabilities |-> IF c \in LocalTo(b) THEN Gone ELSE capability[c]]
    /\ history' = {e \in history : e.capability \notin LocalTo(b)}
    /\ Finish(h)
    /\ UNCHANGED inserted

\* ensureBranchWritable.
Writable(b) == IsBranch(b) /\ ~Closed(b)

BeginCreateInBranch(h, b, c, content) ==
    /\ Writable(b)
    /\ capability[c] = NoRow
    /\ Start(h, Change("CREATE", c, b, TRUE, content))

BeginUpdateInBranch(h, b, c, content) ==
    /\ Writable(b)
    /\ GetInBranch(b, c) \notin {NoContent, content}
    /\ Start(h, Change("UPDATE", c, b, TRUE, content))

BeginDeleteInBranch(h, b, c) ==
    /\ Writable(b)
    /\ GetInBranch(b, c) # NoContent
    /\ Start(h, Change("DELETE", c, b, TRUE, NoContent))

\* The foreign key of the entry wants the capability.
CommitInBranch(h) ==
    LET r == request[h] IN
    /\ r.op \in {"CREATE", "UPDATE", "DELETE"} /\ r.branch /\ r.linked
    /\ IF r.op = "CREATE" THEN capability[r.capability] = NoRow ELSE Exists(r.capability)
    /\ Record(Entry(r.capability, r.version, r.op, r.after, r.previous))
    /\ capability' = IF r.op = "CREATE"
                     THEN [capability EXCEPT ![r.capability] =
                             [content |-> r.after, origin |-> r.version]]
                     ELSE capability
    /\ Finish(h)
    /\ UNCHANGED versions

-----------------------------------------------------------------------------
Step(h) ==
    \/ \E c \in Capabilities :
         \/ \E x \in Contents : BeginCreate(h, c, x) \/ BeginUpdate(h, c, x)
         \/ BeginRemove(h, c)
    \/ \E l \in Labels : BeginPublish(h, l)
    \/ \E n \in BranchNames : BeginFork(h, n)
    \/ \E b \in DOMAIN versions :
         \/ BeginDiscard(h, b)
         \/ \E c \in Capabilities :
              \/ \E x \in Contents : BeginCreateInBranch(h, b, c, x) \/ BeginUpdateInBranch(h, b, c, x)
              \/ BeginDeleteInBranch(h, b, c)
    \/ Link(h) \/ CommitChange(h) \/ CommitRemove(h) \/ CommitPublish(h)
    \/ CommitFork(h) \/ CommitDiscard(h) \/ CommitInBranch(h)
    \/ Abort(h)

Next == \E h \in Handlers : Step(h)

Spec == Init /\ [][Next]_vars

-----------------------------------------------------------------------------
(* Properties *)

\* The releases the draft descends from, oldest first.
ReleaseChain ==
    LET chain[v \in 0..Len(versions)] ==
          CASE v = Null         -> << >>
            [] v \in Released   -> Append(chain[versions[v].base], versions[v].label)
            [] OTHER            -> chain[versions[v].base]
    IN  chain[Draft]

Current ==
    LET live == {v \in Released : versions[v].state = "PUBLISHED"}
    IN  IF live = {} THEN Unnamed ELSE versions[CHOOSE v \in live : TRUE].label

\* Releases form a log: each publication adds one release with a label of its
\* own after all earlier ones, on which the next draft builds, and the last one
\* is the published version.
Log == INSTANCE ReleaseLog WITH releases <- ReleaseChain, published <- Current, NoRelease <- Unnamed
ImplementsReleaseLog == Log!Spec

\* Exactly one MAIN draft at a time, once there is a version, and at most one
\* published one, whoever publishes or records at the same time.  It follows
\* that a rollback, which refuses while there is a draft, never gets further.
OneDraft ==
    /\ (\E v \in DOMAIN versions : IsMain(v)) => Drafts # {}
    /\ \A u, v \in Drafts : u = v
    /\ \A u, v \in Released : versions[u].state = "PUBLISHED" /\ versions[v].state = "PUBLISHED" => u = v

\* The history of a capability is one chain: each entry links to the one
\* inserted just before it, whether that is of the main model or of a branch.
HistoryIsLinear ==
    \A e \in history :
        LET before == {f \in EntriesOf(e.capability) : f.changedAt < e.changedAt}
        IN  e.previous = IF before = {} THEN 0 ELSE Last(before).changedAt

\* What the main table holds is what its history says: a capability of the main
\* model has the content of its newest MAIN entry, and one created in a branch
\* is in no MAIN version.  Branches never leak.
TableMatchesHistory ==
    \A c \in Capabilities :
        LET main == {e \in EntriesOf(c) : IsMain(e.version)} IN
        /\ OnMain(c) => main # {} /\ capability[c].content = Last(main).after
        /\ Exists(c) /\ ~OnMain(c) => main = {}

\* The comparison of a release with a later version of the main model shows as
\* added what only the later one has, as modified at least what differs, and
\* leaves out only what is the same.
DiffMatchesStates ==
    \A to \in DOMAIN versions : IsMain(to) =>
        \A from \in Lineage(Null, to) \ {to} : \A c \in Capabilities :
            LET before == StateAt(from)[c]  after == StateAt(to)[c] IN
            /\ c \in Added(from, to) <=> before = NoContent /\ after # NoContent
            /\ before # NoContent /\ after # before => c \in Modified(from, to)
            /\ Removed(from, to) = {}

\* A version that is closed, published or discarded, changes only by a request
\* that was under way when it was closed: none starts on a closed version, and
\* a hard delete starts only on a capability no closed version has.
ClosedVersionsChangeOnlyLate ==
    [][/\ \A v \in DOMAIN versions : Closed(v) /\ Entries({v})' # Entries({v}) =>
            \E h \in Handlers :
               /\ request[h] # Idle /\ request'[h] = Idle
               /\ request[h].op = "REMOVE" \/ request[h].version = v
       /\ \A h \in Handlers : request[h] = Idle /\ request'[h] # Idle =>
            CASE request'[h].op = "REMOVE" ->
                   \A e \in EntriesOf(request'[h].capability) : ~Closed(e.version)
              [] request'[h].op # "REMOVE" /\ request'[h].version # Null -> ~Closed(request'[h].version)
              [] OTHER -> TRUE]_vars

\* What a branch shows of a capability it has changed itself is changed by its
\* own requests only, and ends when the capability is deleted.
BranchKeepsItsOwn ==
    [][\A b \in DOMAIN versions, c \in Capabilities :
         IsBranch(b) /\ OwnEntries(b, c) # {} /\ Last(OwnEntries(b, c)).after # GetInBranch(b, c)' =>
            \/ capability'[c] = Gone
            \/ \E h \in Handlers : /\ request[h] # Idle /\ request'[h] = Idle
                                   /\ request[h].op \in {"UPDATE", "DELETE"}
                                   /\ request[h].version = b]_vars

\* The list of a branch and the lookup of one capability agree: "CREATE / UPDATE:
\* use afterSnapshot as field values", says the comment on the list.
ListShowsWhatGetFinds ==
    \A b \in DOMAIN versions : Writable(b) =>
        ListInBranch(b) = {c \in Capabilities : GetInBranch(b, c) # NoContent}

\* The tables agree with one another: versions, capabilities and histories, in
\* the parts stated above.
VersionsAgree == TypeOK /\ OneDraft /\ HistoryIsLinear /\ TableMatchesHistory
=============================================================================

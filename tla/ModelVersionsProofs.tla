------------------------- MODULE ModelVersionsProofs -------------------------
(***************************************************************************)
(* Proofs about ModelVersions and ReleasesPage, for any number of versions,*)
(* capabilities and concurrent requests.                                   *)
(*                                                                         *)
(* Every request commits what it has read some time before, so the         *)
(* inductive invariant says what such a read still tells when the commit   *)
(* comes: which version it is about, that a locked capability stays in the *)
(* main model, and that the entry a change links to is still there.  That  *)
(* it is still the newest follows from the unique index over the links.    *)
(* Of the pages it says what an answer in the cache, and one on its way,   *)
(* is worth: which foreign changes it includes, and that a change of the   *)
(* page's own makes it stale in the end.                                   *)
(***************************************************************************)
EXTENDS ReleasesPage, SequenceTheorems, WellFoundedInduction, TLAPS

MainEntriesOf(c) == {e \in EntriesOf(c) : IsMain(e.version)}

HasLast(E) == \E e \in E : \A f \in E : f.changedAt <= e.changedAt

\* What holds of the histories, beyond their being chains.
HistoryOK ==
    /\ \A e, f \in history : e.changedAt = f.changedAt => e = f
    /\ \A c \in Capabilities :
         /\ EntriesOf(c) # {} => HasLast(EntriesOf(c))
         /\ MainEntriesOf(c) # {} => HasLast(MainEntriesOf(c))
         /\ capability[c] = NoRow => EntriesOf(c) = {}
         /\ Exists(c) => EntriesOf(c) # {}
         /\ Exists(c) /\ ~OnMain(c) => \A e \in EntriesOf(c) : e.version = capability[c].origin
    /\ \A e \in history :
         \/ \A f \in EntriesOf(e.capability) : f.changedAt <= e.changedAt
         \/ \E f \in EntriesOf(e.capability) : f.previous = e.changedAt

\* The versions that capabilities and requests name are of the kind they should be.
OriginsOK ==
    \A c \in Capabilities : Exists(c) /\ ~OnMain(c) =>
        capability[c].origin \in DOMAIN versions /\ IsBranch(capability[c].origin)

ChangeTypes == {"CREATE", "UPDATE", "DELETE"}

RequestOK(r) ==
    /\ r.op \in ChangeTypes =>
         /\ r.op = "CREATE" => r.previous = 0
         /\ r.op = "DELETE" => r.branch
         /\ r.op # "DELETE" => r.after \in Contents
         /\ ~r.branch /\ r.version # Null => r.version \in DOMAIN versions /\ IsMain(r.version)
         /\ r.branch => r.version \in DOMAIN versions /\ IsBranch(r.version)
         /\ r.op = "UPDATE" /\ ~r.branch => OnMain(r.capability)
         /\ r.op # "CREATE" => capability[r.capability] # NoRow
         /\ r.op # "CREATE" /\ r.branch /\ Exists(r.capability) =>
              capability[r.capability].origin \in {Null, r.version}
         /\ r.op # "CREATE" /\ r.linked /\ Exists(r.capability) =>
              \E e \in EntriesOf(r.capability) : e.changedAt = r.previous
    /\ r.op \in {"PUBLISH", "FORK"} => r.version \in DOMAIN versions /\ IsMain(r.version)
    /\ r.op = "DISCARD" => r.version \in DOMAIN versions /\ IsBranch(r.version)

RequestsOK == \A h \in Handlers : request[h] # Idle => RequestOK(request[h])

IInv == TypeOK /\ OneDraft /\ HistoryIsLinear /\ HistoryOK /\ OriginsOK /\ TableMatchesHistory /\ RequestsOK

-----------------------------------------------------------------------------
(* The steps *)

Quiet == UNCHANGED <<versions, capability, history, inserted>>

\* What a request has read when it begins.
Begun(r) ==
    /\ r \in Request /\ r # Idle
    /\ r.op \in ChangeTypes =>
         /\ r.linked <=> r.op = "CREATE"
         /\ r.previous = 0
         /\ r.op = "DELETE" => r.branch
         /\ r.op # "DELETE" => r.after \in Contents
         /\ IF r.branch THEN r.version \in DOMAIN versions /\ Writable(r.version)
                        ELSE r.version = Draft
         /\ r.op = "UPDATE" /\ ~r.branch => OnMain(r.capability) /\ ~Locked(r.capability)
         /\ r.op # "CREATE" /\ r.branch => GetInBranch(r.version, r.capability) # NoContent
    /\ r.op = "REMOVE" => \A e \in EntriesOf(r.capability) : ~Closed(e.version)
    /\ r.op \in {"PUBLISH", "FORK"} => r.version = Draft /\ Draft # Null
    /\ r.op = "DISCARD" => r.version \in DOMAIN versions /\ Writable(r.version)

LEMMA DraftType ==
    ASSUME TypeOK
    PROVE  /\ DOMAIN versions \subseteq VersionId /\ DOMAIN versions = 1..Len(versions)
           /\ Len(versions) \in Nat
           /\ Draft \in VersionId \cup {Null}
           /\ Draft # Null => Draft \in Drafts
  <1>1. /\ versions \in Seq(ModelVersion) /\ Len(versions) <= MaxVersions
    BY DEF TypeOK
  <1>2. DOMAIN versions = 1..Len(versions) /\ Len(versions) \in Nat
    BY <1>1, LenProperties
  <1>3. DOMAIN versions \subseteq VersionId
    BY <1>1, <1>2, VersionsAssumption DEF VersionId
  <1>4. Drafts # {} => Draft \in Drafts
    BY DEF Draft
  <1> QED
    BY <1>2, <1>3, <1>4 DEF Draft, Drafts

LEMMA BeginCases ==
    ASSUME TypeOK, NEW h \in Handlers, Step(h),
           ~Link(h), ~CommitChange(h), ~CommitRemove(h), ~CommitPublish(h), ~CommitFork(h),
           ~CommitDiscard(h), ~CommitInBranch(h), ~Abort(h)
    PROVE  \E r : Begun(r) /\ Start(h, r)
  <1>0. DOMAIN versions \subseteq VersionId /\ Draft \in VersionId \cup {Null}
    BY DraftType
  <1>1. ASSUME NEW op \in ChangeTypes, NEW c \in Capabilities, NEW v \in VersionId \cup {Null},
               NEW b \in BOOLEAN, NEW x \in Contents \cup {NoContent}
        PROVE  /\ Change(op, c, v, b, x) \in Request /\ Change(op, c, v, b, x) # Idle
               /\ Change(op, c, v, b, x).op = op /\ Change(op, c, v, b, x).capability = c
               /\ Change(op, c, v, b, x).version = v /\ Change(op, c, v, b, x).branch = b
               /\ Change(op, c, v, b, x).previous = 0
               /\ Change(op, c, v, b, x).after = x
               /\ Change(op, c, v, b, x).linked <=> op = "CREATE"
    <2>1. 0 \in 0..MaxChanges
      BY VersionsAssumption
    <2>2. Change(op, c, v, b, x) \in
            [op : {"CREATE", "UPDATE", "DELETE"}, capability : Capabilities, version : VersionId \cup {Null},
             branch : BOOLEAN, after : Contents \cup {NoContent}, linked : BOOLEAN, previous : 0..MaxChanges]
      BY <2>1 DEF Change, ChangeTypes
    <2> QED
      BY <2>2 DEF Change, Request, ChangeTypes, Idle
  <1>2. ASSUME NEW c \in Capabilities, NEW x \in Contents, BeginCreate(h, c, x) \/ BeginUpdate(h, c, x)
        PROVE  \E r : Begun(r) /\ Start(h, r)
    <2>1. PICK op \in {"CREATE", "UPDATE"}, f \in BOOLEAN :
             /\ Start(h, Change(op, c, Draft, f, x)) /\ f = FALSE
             /\ op = "UPDATE" => OnMain(c) /\ ~Locked(c)
      BY <1>2 DEF BeginCreate, BeginUpdate
    <2>2. PICK q : q = Change(op, c, Draft, f, x)
      OBVIOUS
    <2>3. /\ q \in Request /\ q # Idle /\ q.op = op /\ q.capability = c
          /\ q.version = Draft /\ q.branch = f /\ q.previous = 0
          /\ q.linked <=> op = "CREATE"
          /\ op # "DELETE" => q.after \in Contents
      BY <1>0, <1>1, <2>1, <2>2 DEF ChangeTypes
    <2>4. Begun(q)
      BY <2>1, <2>3 DEF Begun
    <2> QED
      BY <2>1, <2>2, <2>4
  <1>3. ASSUME NEW c \in Capabilities, BeginRemove(h, c)
        PROVE  \E r : Begun(r) /\ Start(h, r)
    <2>1. Begun([op |-> "REMOVE", capability |-> c])
      BY <1>3 DEF BeginRemove, Begun, Request, Idle, ChangeTypes
    <2> QED
      BY <1>3, <2>1 DEF BeginRemove
  <1>4. ASSUME NEW l \in Labels, BeginPublish(h, l)
        PROVE  \E r : Begun(r) /\ Start(h, r)
    <2>1. Begun([op |-> "PUBLISH", version |-> Draft, label |-> l])
      BY <1>0, <1>4 DEF BeginPublish, Begun, Request, Idle, ChangeTypes, Null, VersionId
    <2> QED
      BY <1>4, <2>1 DEF BeginPublish
  <1>5. ASSUME NEW n \in BranchNames, BeginFork(h, n)
        PROVE  \E r : Begun(r) /\ Start(h, r)
    <2>1. Begun([op |-> "FORK", version |-> Draft, name |-> n])
      BY <1>0, <1>5 DEF BeginFork, Begun, Request, Idle, ChangeTypes
    <2> QED
      BY <1>5, <2>1 DEF BeginFork
  <1>6. ASSUME NEW b \in DOMAIN versions, BeginDiscard(h, b)
        PROVE  \E r : Begun(r) /\ Start(h, r)
    <2>1. Begun([op |-> "DISCARD", version |-> b])
      BY <1>0, <1>6 DEF BeginDiscard, Begun, Request, Idle, ChangeTypes, Writable
    <2> QED
      BY <1>6, <2>1 DEF BeginDiscard
  <1>7. ASSUME NEW b \in DOMAIN versions, NEW c \in Capabilities, NEW x \in Contents,
               BeginCreateInBranch(h, b, c, x) \/ BeginUpdateInBranch(h, b, c, x)
        PROVE  \E r : Begun(r) /\ Start(h, r)
    <2>1. PICK op \in {"CREATE", "UPDATE"}, f \in BOOLEAN :
             /\ Start(h, Change(op, c, b, f, x)) /\ f = TRUE /\ Writable(b)
             /\ op = "UPDATE" => GetInBranch(b, c) # NoContent
      BY <1>7 DEF BeginCreateInBranch, BeginUpdateInBranch
    <2>2. PICK q : q = Change(op, c, b, f, x)
      OBVIOUS
    <2>a. b \in VersionId \cup {Null} /\ x \in Contents \cup {NoContent} /\ op \in ChangeTypes
      BY <1>0 DEF ChangeTypes
    <2>3. /\ q \in Request /\ q # Idle /\ q.op = op /\ q.capability = c
          /\ q.version = b /\ q.branch = f /\ q.previous = 0
          /\ q.linked <=> op = "CREATE"
          /\ op # "DELETE" => q.after \in Contents
      BY <1>1, <2>2, <2>a
    <2>4. Begun(q)
      BY <2>1, <2>3 DEF Begun
    <2> QED
      BY <2>1, <2>2, <2>4
  <1>8. ASSUME NEW b \in DOMAIN versions, NEW c \in Capabilities, BeginDeleteInBranch(h, b, c)
        PROVE  \E r : Begun(r) /\ Start(h, r)
    <2>1. PICK op \in {"DELETE"}, f \in BOOLEAN :
             /\ Start(h, Change(op, c, b, f, NoContent)) /\ f = TRUE /\ Writable(b)
             /\ GetInBranch(b, c) # NoContent
      BY <1>8 DEF BeginDeleteInBranch
    <2>2. PICK q : q = Change(op, c, b, f, NoContent)
      OBVIOUS
    <2>a. b \in VersionId \cup {Null} /\ NoContent \in Contents \cup {NoContent} /\ op \in ChangeTypes
      BY <1>0 DEF ChangeTypes
    <2>3. /\ q \in Request /\ q # Idle /\ q.op = op /\ q.capability = c
          /\ q.version = b /\ q.branch = f /\ q.previous = 0
          /\ q.linked <=> op = "CREATE"
          /\ op # "DELETE" => q.after \in Contents
      BY <1>1, <2>2, <2>a
    <2>4. Begun(q)
      BY <2>1, <2>3 DEF Begun
    <2> QED
      BY <2>1, <2>2, <2>4
  <1> QED
    BY <1>2, <1>3, <1>4, <1>5, <1>6, <1>7, <1>8 DEF Step

LEMMA RequestFields ==
    ASSUME NEW r \in Request, r # Idle
    PROVE  /\ r.op \in ChangeTypes =>
                /\ r.capability \in Capabilities /\ r.version \in VersionId \cup {Null}
                /\ r.branch \in BOOLEAN /\ r.after \in Contents \cup {NoContent}
                /\ r.linked \in BOOLEAN /\ r.previous \in 0..MaxChanges
           /\ r.op = "REMOVE" => r.capability \in Capabilities
           /\ r.op = "PUBLISH" => r.version \in VersionId /\ r.label \in Labels
           /\ r.op = "FORK" => r.version \in VersionId /\ r.name \in BranchNames
           /\ r.op = "DISCARD" => r.version \in VersionId
           /\ r.op \in ChangeTypes \cup {"REMOVE", "PUBLISH", "FORK", "DISCARD"}
           /\ r.op # "idle"
  BY DEF Request, ChangeTypes, Idle

ChangeRecord ==
    [op : {"CREATE", "UPDATE", "DELETE"}, capability : Capabilities, version : VersionId \cup {Null},
     branch : BOOLEAN, after : Contents \cup {NoContent}, linked : BOOLEAN, previous : 0..MaxChanges]

LEMMA ChangeIsRecord ==
    ASSUME NEW r \in Request, r.op \in ChangeTypes
    PROVE  r \in ChangeRecord
  <1>1. CASE r \in ChangeRecord
    BY <1>1
  <1>2. CASE r \in [op : {"REMOVE"}, capability : Capabilities]
    BY <1>2 DEF ChangeTypes
  <1>3. CASE r \in [op : {"PUBLISH"}, version : VersionId, label : Labels]
    BY <1>3 DEF ChangeTypes
  <1>4. CASE r \in [op : {"FORK"}, version : VersionId, name : BranchNames]
    BY <1>4 DEF ChangeTypes
  <1>5. CASE r \in [op : {"DISCARD"}, version : VersionId]
    BY <1>5 DEF ChangeTypes
  <1>6. CASE r = Idle
    BY <1>6 DEF Idle, ChangeTypes
  <1> QED
    BY <1>1, <1>2, <1>3, <1>4, <1>5, <1>6 DEF Request, ChangeRecord

\* The kinds of versions never change, and none is taken away.
VersionsKept ==
    /\ DOMAIN versions \subseteq DOMAIN versions'
    /\ \A v \in DOMAIN versions : versions'[v].branchType = versions[v].branchType

VersionsTyped ==
    /\ versions \in Seq(ModelVersion) /\ Len(versions) <= MaxVersions
    /\ \A v \in DOMAIN versions : versions[v].base < v

LEMMA Appended ==
    ASSUME TypeOK, NEW w \in Seq(ModelVersion), Len(w) = Len(versions),
           \A v \in DOMAIN versions : /\ w[v].base = versions[v].base
                                      /\ w[v].branchType = versions[v].branchType,
           NEW m \in ModelVersion, m.base <= Len(versions), Len(versions) < MaxVersions,
           versions' = Append(w, m)
    PROVE  /\ VersionsTyped' /\ VersionsKept
           /\ DOMAIN versions' = DOMAIN versions \cup {Len(versions) + 1}
           /\ Len(versions) + 1 \notin DOMAIN versions
           /\ \A v \in DOMAIN versions : versions'[v] = w[v]
           /\ versions'[Len(versions) + 1] = m
  <1> DEFINE n == Len(versions)
  <1>1. /\ n \in Nat /\ DOMAIN versions = 1..n
        /\ \A v \in DOMAIN versions : versions[v].base < v
    BY DraftType DEF TypeOK
  <1>2. DOMAIN w = 1..n
    BY <1>1, LenProperties
  <1>3. /\ versions' \in Seq(ModelVersion) /\ Len(versions') = n + 1
        /\ versions'[n + 1] = m /\ \A v \in 1..n : versions'[v] = w[v]
    BY <1>1, <1>2, AppendProperties
  <1>4. DOMAIN versions' = 1..(n + 1)
    BY <1>3, LenProperties
  <1>5. 1..(n + 1) = (1..n) \cup {n + 1} /\ n + 1 \notin 1..n
    BY <1>1
  <1>6. n + 1 <= MaxVersions
    BY <1>1, VersionsAssumption
  <1>7. m.base < n + 1
    BY <1>1, VersionsAssumption DEF ModelVersion, VersionId, Null
  <1>8. \A v \in DOMAIN versions' : versions'[v].base < v
    BY <1>1, <1>3, <1>4, <1>5, <1>7
  <1> QED
    BY <1>1, <1>3, <1>4, <1>5, <1>6, <1>8 DEF VersionsTyped, VersionsKept

LEMMA NewDraftType ==
    ASSUME NEW b \in VersionId \cup {Null}
    PROVE  NewDraft(b) \in ModelVersion
  BY DEF NewDraft, ModelVersion, ModelVersionState

\* ensureDraftVersionId.
LEMMA DraftEnsured ==
    ASSUME TypeOK, NEW v \in DOMAIN versions \cup {Null}, EnsureDraft(v)
    PROVE  /\ VersionsTyped' /\ VersionsKept
           /\ RecordedIn(v) \in DOMAIN versions'
           /\ \A u \in DOMAIN versions : versions'[u] = versions[u]
           /\ \/ v # Null /\ RecordedIn(v) = v /\ UNCHANGED versions
              \/ /\ v = Null /\ Drafts = {} /\ RecordedIn(v) = Len(versions) + 1
                 /\ DOMAIN versions' = DOMAIN versions \cup {RecordedIn(v)}
                 /\ RecordedIn(v) \notin DOMAIN versions
                 /\ versions'[RecordedIn(v)] = NewDraft(Null)
  <1>1. CASE v # Null
    BY <1>1 DEF EnsureDraft, RecordedIn, VersionsTyped, VersionsKept, TypeOK
  <1>2. CASE v = Null
    <2>1. /\ versions' = Append(versions, NewDraft(Null)) /\ Drafts = {}
          /\ Len(versions) < MaxVersions
          /\ RecordedIn(v) = Len(versions) + 1
      BY <1>2 DEF EnsureDraft, RecordedIn
    <2>2. NewDraft(Null) \in ModelVersion
      BY NewDraftType
    <2>3. NewDraft(Null).base <= Len(versions)
      BY DraftType DEF NewDraft, Null
    <2>4. versions \in Seq(ModelVersion)
      BY DEF TypeOK
    <2> QED
      BY <1>2, <2>1, <2>2, <2>3, <2>4, Appended
  <1> QED
    BY <1>1, <1>2

LEMMA PublishedVersions ==
    ASSUME TypeOK, RequestsOK, NEW h \in Handlers, CommitPublish(h)
    PROVE  /\ request[h] # Idle /\ request[h].version \in DOMAIN versions /\ IsMain(request[h].version)
           /\ VersionsTyped' /\ VersionsKept
           /\ DOMAIN versions' = DOMAIN versions \cup {Len(versions) + 1}
           /\ Len(versions) + 1 \notin DOMAIN versions
           /\ \A v \in DOMAIN versions : versions'[v] =
                IF v = request[h].version THEN Published(v, request[h].label) ELSE Archived(v)
           /\ versions'[Len(versions) + 1] = NewDraft(request[h].version)
  <1> DEFINE r == request[h]
             n == Len(versions)
             w == [v \in DOMAIN versions |-> IF v = r.version THEN Published(v, r.label) ELSE Archived(v)]
  <1>1. /\ r \in Request /\ r.op = "PUBLISH" /\ n < MaxVersions
        /\ versions' = Append(w, NewDraft(r.version))
    BY DEF CommitPublish, TypeOK
  <1>2. r # Idle
    BY <1>1 DEF Idle
  <1>3. r.version \in DOMAIN versions /\ IsMain(r.version) /\ r.label \in Labels
    BY <1>1, <1>2, RequestFields DEF RequestsOK, RequestOK
  <1>4. /\ n \in Nat /\ DOMAIN versions = 1..n /\ DOMAIN versions \subseteq VersionId
        /\ n + 1 \in VersionId
    BY <1>1, DraftType, VersionsAssumption DEF VersionId
  <1>5. \A v \in DOMAIN versions : versions[v] \in ModelVersion
    BY <1>4, ElementOfSeq DEF TypeOK
  <1>6. ASSUME NEW v \in DOMAIN versions
        PROVE  /\ Published(v, r.label) \in ModelVersion /\ Archived(v) \in ModelVersion
               /\ Published(v, r.label).base = versions[v].base
               /\ Published(v, r.label).branchType = versions[v].branchType
               /\ Archived(v).base = versions[v].base
               /\ Archived(v).branchType = versions[v].branchType
    BY <1>3, <1>4, <1>5 DEF Published, Archived, ModelVersion, ModelVersionState
  <1>7. /\ w \in [1..n -> ModelVersion]
        /\ \A v \in DOMAIN versions : w[v] = IF v = r.version THEN Published(v, r.label) ELSE Archived(v)
    BY <1>4, <1>6
  <1> HIDE DEF w
  <1>8. w \in Seq(ModelVersion) /\ Len(w) = n
    <2>1. w \in Seq(ModelVersion)
      BY <1>4, <1>7, SeqDef
    <2> QED
      BY <1>4, <1>7, <2>1, LenProperties
  <1>9. NewDraft(r.version) \in ModelVersion /\ NewDraft(r.version).base <= n
    BY <1>3, <1>4, NewDraftType DEF NewDraft
  <1>10. \A v \in DOMAIN versions : /\ w[v].base = versions[v].base
                                   /\ w[v].branchType = versions[v].branchType
    BY <1>6, <1>7
  <1> QED
    BY <1>1, <1>2, <1>3, <1>7, <1>8, <1>9, <1>10, Appended


LEMMA ForkedVersions ==
    ASSUME TypeOK, RequestsOK, NEW h \in Handlers, CommitFork(h)
    PROVE  /\ VersionsTyped' /\ VersionsKept
           /\ DOMAIN versions' = DOMAIN versions \cup {Len(versions) + 1}
           /\ Len(versions) + 1 \notin DOMAIN versions
           /\ \A v \in DOMAIN versions : versions'[v] = versions[v]
           /\ versions'[Len(versions) + 1].branchType = "WHAT_IF"
  <1> DEFINE r == request[h]
             m == [state |-> "DRAFT", branchType |-> "WHAT_IF", label |-> r.name,
                   base |-> r.version, publishedAt |-> Null]
  <1>1. /\ r \in Request /\ r.op = "FORK" /\ Len(versions) < MaxVersions
        /\ versions' = Append(versions, m)
    BY DEF CommitFork, TypeOK
  <1>2. r # Idle
    BY <1>1 DEF Idle
  <1>3. r.version \in DOMAIN versions /\ r.version \in VersionId /\ r.name \in BranchNames
    BY <1>1, <1>2, RequestFields DEF RequestsOK, RequestOK
  <1>4. m \in ModelVersion /\ m.base <= Len(versions) /\ m.branchType = "WHAT_IF"
    BY <1>3, DraftType DEF ModelVersion, ModelVersionState
  <1>5. versions \in Seq(ModelVersion)
    BY DEF TypeOK
  <1> HIDE DEF m
  <1> QED
    BY <1>1, <1>4, <1>5, Appended

LEMMA DiscardedVersions ==
    ASSUME TypeOK, RequestsOK, NEW h \in Handlers, CommitDiscard(h)
    PROVE  /\ request[h] # Idle /\ request[h].version \in DOMAIN versions /\ IsBranch(request[h].version)
           /\ VersionsTyped' /\ VersionsKept
           /\ DOMAIN versions' = DOMAIN versions
           /\ \A v \in DOMAIN versions : v # request[h].version => versions'[v] = versions[v]
  <1> DEFINE b == request[h].version
             n == Len(versions)
  <1>1. /\ request[h] \in Request /\ request[h].op = "DISCARD"
        /\ versions' = [versions EXCEPT ![b].state = "ROLLED_BACK"]
    BY DEF CommitDiscard, TypeOK
  <1>2. request[h] # Idle
    BY <1>1 DEF Idle
  <1>3. b \in DOMAIN versions /\ IsBranch(b)
    BY <1>1, <1>2 DEF RequestsOK, RequestOK
  <1>4. n \in Nat /\ DOMAIN versions = 1..n /\ n <= MaxVersions
    BY DraftType DEF TypeOK
  <1>5. \A v \in DOMAIN versions : versions[v] \in ModelVersion
    BY <1>4, ElementOfSeq DEF TypeOK
  <1>6. [versions[b] EXCEPT !.state = "ROLLED_BACK"] \in ModelVersion
    BY <1>3, <1>5 DEF ModelVersion, ModelVersionState
  <1>7. /\ DOMAIN versions' = 1..n
        /\ \A v \in DOMAIN versions : v # b => versions'[v] = versions[v]
        /\ versions'[b] = [versions[b] EXCEPT !.state = "ROLLED_BACK"]
    BY <1>1, <1>3, <1>4
  <1>8. versions' = [v \in 1..n |-> versions'[v]]
    BY <1>1, <1>4
  <1>9. /\ versions'[b].branchType = versions[b].branchType
        /\ versions'[b].base = versions[b].base
    BY <1>3, <1>5, <1>7 DEF ModelVersion
  <1>10. versions' \in [1..n -> ModelVersion]
    BY <1>3, <1>4, <1>5, <1>6, <1>7, <1>8
  <1>11. versions' \in Seq(ModelVersion) /\ Len(versions') = n
    <2>1. versions' \in Seq(ModelVersion)
      BY <1>4, <1>10, SeqDef
    <2> QED
      BY <1>4, <1>7, <2>1, LenProperties
  <1>12. \A v \in DOMAIN versions' : versions'[v].base < v
    BY <1>4, <1>7, <1>9 DEF TypeOK
  <1> QED
    BY <1>2, <1>3, <1>4, <1>7, <1>9, <1>11, <1>12 DEF VersionsTyped, VersionsKept

LEMMA VersionsStep ==
    ASSUME TypeOK, RequestsOK, NEW h \in Handlers, Step(h)
    PROVE  VersionsTyped' /\ VersionsKept
  <1>1. CASE UNCHANGED versions
    BY <1>1 DEF VersionsTyped, VersionsKept, TypeOK
  <1>2. CASE CommitChange(h)
    <2>1. request[h] \in Request /\ request[h] # Idle /\ request[h].op \in ChangeTypes
          /\ ~request[h].branch /\ EnsureDraft(request[h].version)
      BY <1>2 DEF CommitChange, TypeOK, ChangeTypes, Idle
    <2>2. request[h].version \in DOMAIN versions \cup {Null}
      BY <2>1 DEF RequestsOK, RequestOK
    <2> QED
      BY <2>1, <2>2, DraftEnsured
  <1>3. CASE CommitPublish(h)
    BY <1>3, PublishedVersions
  <1>4. CASE CommitFork(h)
    BY <1>4, ForkedVersions
  <1>5. CASE CommitDiscard(h)
    BY <1>5, DiscardedVersions
  <1>6. CASE Link(h) \/ CommitRemove(h) \/ CommitInBranch(h) \/ Abort(h)
    BY <1>1, <1>6 DEF Link, CommitRemove, CommitInBranch, Abort
  <1>7. CASE \E r : Begun(r) /\ Start(h, r)
    BY <1>1, <1>7 DEF Start
  <1> QED
    BY <1>2, <1>3, <1>4, <1>5, <1>6, <1>7, BeginCases

-----------------------------------------------------------------------------
(* What a step does to the history of one capability *)

\* The commit of a change: an entry for capability c in version v.
Records(c, v, r) ==
    /\ inserted < MaxChanges /\ inserted' = inserted + 1
    /\ history' = history \cup {Entry(c, v, r.op, r.after, r.previous)}
    /\ r.previous # 0 => \A f \in history : f.previous # r.previous

LEMMA CommitRecords ==
    ASSUME IInv, NEW h \in Handlers, CommitChange(h) \/ CommitInBranch(h)
    PROVE  LET r == request[h]  v == RecordedIn(r.version) IN
           /\ r \in Request /\ r # Idle /\ r.op \in ChangeTypes /\ r.linked
           /\ RequestOK(r) /\ r.capability \in Capabilities
           /\ r.branch => r.version \in DOMAIN versions /\ r.version # Null
           /\ Records(r.capability, v, r)
           /\ v \in DOMAIN versions' /\ v \in VersionId
           /\ r.branch => IsBranch(v)
           /\ r.branch <=> CommitInBranch(h)
           /\ ~r.branch => versions'[v].branchType = "MAIN"
           /\ r.op # "CREATE" => Exists(r.capability)
           /\ r.op = "CREATE" => capability[r.capability] = NoRow
           /\ request' = [request EXCEPT ![h] = Idle]
  <1> DEFINE r == request[h]
             v == RecordedIn(r.version)
  <1>0. TypeOK /\ RequestsOK
    BY DEF IInv
  <1>1. /\ r \in Request /\ r # Idle /\ r.op \in ChangeTypes /\ r.linked
        /\ request' = [request EXCEPT ![h] = Idle]
        /\ CommitChange(h) => r.op # "DELETE" /\ ~r.branch
        /\ CommitInBranch(h) => r.branch
    BY <1>0 DEF CommitChange, CommitInBranch, TypeOK, ChangeTypes, Idle, Finish
  <1>2. RequestOK(r) /\ r.capability \in Capabilities
    BY <1>0, <1>1, RequestFields DEF RequestsOK
  <1>3. DOMAIN versions \subseteq VersionId /\ Null \notin DOMAIN versions
    BY <1>0, DraftType DEF VersionId, Null
  <1>4. VersionsTyped' /\ VersionsKept
    <2>1. Step(h)
      BY DEF Step
    <2> QED
      BY <1>0, <2>1, VersionsStep
  <1>5. CASE CommitChange(h)
    <2>1. r.version \in DOMAIN versions \cup {Null} /\ EnsureDraft(r.version)
      BY <1>1, <1>2, <1>5 DEF RequestOK, CommitChange
    <2>2. /\ v \in DOMAIN versions' /\ versions'[v].branchType = "MAIN"
      <3>1. /\ v \in DOMAIN versions'
            /\ \/ r.version # Null /\ v = r.version /\ UNCHANGED versions
               \/ versions'[v] = NewDraft(Null)
        BY <1>0, <2>1, DraftEnsured
      <3>2. r.version # Null => versions[r.version].branchType = "MAIN"
        BY <1>1, <1>2, <1>5 DEF RequestOK, IsMain
      <3>3. NewDraft(Null).branchType = "MAIN"
        BY DEF NewDraft
      <3> QED
        BY <3>1, <3>2, <3>3
    <2>3. DOMAIN versions' \subseteq VersionId
      BY <1>4, LenProperties, VersionsAssumption DEF VersionsTyped, VersionId
    <2>4. r.op # "CREATE" => Exists(r.capability)
      BY <1>1, <1>2, <1>5 DEF RequestOK, OnMain, ChangeTypes
    <2>5. Record(Entry(r.capability, v, r.op, r.after, r.previous))
      BY <1>5 DEF CommitChange
    <2>6. Records(r.capability, v, r)
      BY <2>5 DEF Record, Records, Entry
    <2> QED
      BY <1>1, <1>2, <1>5, <2>2, <2>3, <2>4, <2>6 DEF CommitChange
  <1>6. CASE CommitInBranch(h)
    <2>1. r.version \in DOMAIN versions /\ r.version # Null /\ IsBranch(r.version) /\ v = r.version
      BY <1>1, <1>2, <1>3, <1>6 DEF RequestOK, RecordedIn
    <2>2. v \in DOMAIN versions' /\ v \in VersionId
      BY <1>3, <1>4, <2>1 DEF VersionsKept
    <2>3. Record(Entry(r.capability, v, r.op, r.after, r.previous))
      BY <1>6, <2>1 DEF CommitInBranch
    <2>4. Records(r.capability, v, r)
      BY <2>3 DEF Record, Records, Entry
    <2> QED
      BY <1>1, <1>2, <1>6, <2>1, <2>2, <2>4 DEF CommitInBranch
  <1> QED
    BY <1>5, <1>6

\* A delete or the discarding of a branch: capabilities go, with their entries.
Drops(S) ==
    /\ \A c \in S : Exists(c) /\ (OnMain(c) => ~Locked(c))
    /\ capability' = [c \in Capabilities |-> IF c \in S THEN Gone ELSE capability[c]]
    /\ history' = {e \in history : e.capability \notin S}
    /\ UNCHANGED inserted

LEMMA CommitDrops ==
    ASSUME TypeOK, RequestsOK, NEW h \in Handlers, CommitRemove(h) \/ CommitDiscard(h)
    PROVE  \E S \in SUBSET Capabilities : Drops(S)
  <1>0. request[h] \in Request
    BY DEF TypeOK
  <1>1. CASE CommitRemove(h)
    <2> DEFINE c == request[h].capability
    <2>1. c \in Capabilities
      <3>1. request[h].op = "REMOVE" /\ request[h] # Idle
        BY <1>1 DEF CommitRemove, Idle
      <3> QED
        BY <1>0, <3>1, RequestFields
    <2>2. /\ OnMain(c) /\ ~Locked(c) /\ UNCHANGED inserted
          /\ history' = history \ EntriesOf(c)
          /\ capability' = [capability EXCEPT ![c] = Gone]
      BY <1>1 DEF CommitRemove
    <2>3. history' = {e \in history : e.capability \notin {c}}
      BY <2>2 DEF EntriesOf
    <2>4. capability' = [d \in Capabilities |-> IF d \in {c} THEN Gone ELSE capability[d]]
      BY <2>2 DEF TypeOK
    <2>5. Exists(c)
      BY <2>2 DEF OnMain
    <2>6. Drops({c})
      BY <2>2, <2>3, <2>4, <2>5 DEF Drops
    <2> QED
      BY <2>1, <2>6
  <1>2. CASE CommitDiscard(h)
    <2> DEFINE b == request[h].version
    <2>1. request[h] # Idle /\ request[h].version \in DOMAIN versions
      BY <1>2, DiscardedVersions
    <2>2. b # Null
      BY <2>1, DraftType DEF VersionId, Null
    <2>3. \A c \in LocalTo(b) : Exists(c) /\ ~OnMain(c)
      BY <2>2 DEF LocalTo, OnMain
    <2>4. LocalTo(b) \in SUBSET Capabilities
      BY DEF LocalTo
    <2>5. Drops(LocalTo(b))
      BY <1>2, <2>3 DEF CommitDiscard, Drops
    <2> QED
      BY <2>4, <2>5
  <1> QED
    BY <1>1, <1>2

\* What a step does to the tables of capabilities and of their histories.
TableCase ==
    \/ UNCHANGED <<capability, history, inserted>>
    \/ \E h \in Handlers : CommitChange(h) \/ CommitInBranch(h)
    \/ \E S \in SUBSET Capabilities : Drops(S)

LEMMA TableCases ==
    ASSUME IInv, [Next]_vars
    PROVE  TableCase /\ VersionsTyped' /\ VersionsKept
  <1>0. TypeOK /\ RequestsOK
    BY DEF IInv
  <1>1. ASSUME NEW h \in Handlers, Step(h)
        PROVE  TableCase /\ VersionsTyped' /\ VersionsKept
    <2>1. VersionsTyped' /\ VersionsKept
      BY <1>0, <1>1, VersionsStep
    <2>2. CASE CommitChange(h) \/ CommitInBranch(h)
      BY <2>1, <2>2 DEF TableCase
    <2>3. CASE CommitRemove(h) \/ CommitDiscard(h)
      BY <1>0, <2>1, <2>3, CommitDrops DEF TableCase
    <2>4. CASE Link(h) \/ CommitPublish(h) \/ CommitFork(h) \/ Abort(h)
      BY <2>1, <2>4 DEF Link, CommitPublish, CommitFork, Abort, TableCase
    <2>5. CASE \E r : Begun(r) /\ Start(h, r)
      BY <2>1, <2>5 DEF Start, TableCase
    <2> QED
      BY <1>0, <1>1, <2>2, <2>3, <2>4, <2>5, BeginCases
  <1>2. CASE UNCHANGED vars
    BY <1>0, <1>2 DEF vars, TableCase, VersionsTyped, VersionsKept, TypeOK
  <1> QED
    BY <1>1, <1>2 DEF Next

\* The new row and the new entry of a commit.
LEMMA CommitTables ==
    ASSUME IInv, NEW h \in Handlers, CommitChange(h) \/ CommitInBranch(h)
    PROVE  LET r == request[h] IN
           /\ \A c \in Capabilities : c # r.capability => capability'[c] = capability[c]
           /\ CommitChange(h) =>
                capability'[r.capability] = [content |-> r.after, origin |-> Null]
           /\ CommitInBranch(h) /\ r.op = "CREATE" =>
                capability'[r.capability] = [content |-> r.after, origin |-> r.version]
           /\ CommitInBranch(h) /\ r.op # "CREATE" => UNCHANGED capability
           /\ r.op # "DELETE" => r.after \in Contents
           /\ capability' \in [Capabilities -> CapabilityRow \cup {NoRow, Gone}]
  <1> DEFINE r == request[h]
  <1>1. /\ r.capability \in Capabilities /\ r.op \in ChangeTypes /\ RequestOK(r)
        /\ r.branch => r.version \in VersionId
        /\ CommitInBranch(h) <=> r.branch
    BY CommitRecords, DraftType DEF IInv
  <1>2. r.op # "DELETE" => r.after \in Contents
    BY <1>1 DEF RequestOK
  <1>3. capability \in [Capabilities -> CapabilityRow \cup {NoRow, Gone}]
    BY DEF IInv, TypeOK
  <1>4. CASE CommitChange(h)
    <2>1. /\ capability' = [capability EXCEPT ![r.capability] = [content |-> r.after, origin |-> Null]]
          /\ r.op # "DELETE" /\ ~r.branch
      BY <1>4 DEF CommitChange
    <2>2. [content |-> r.after, origin |-> Null] \in CapabilityRow
      BY <1>2, <2>1 DEF CapabilityRow
    <2> QED
      BY <1>1, <1>2, <1>3, <1>4, <2>1, <2>2
  <1>5. CASE CommitInBranch(h) /\ r.op = "CREATE"
    <2>1. capability' = [capability EXCEPT ![r.capability] = [content |-> r.after, origin |-> r.version]]
      BY <1>5 DEF CommitInBranch
    <2>2. [content |-> r.after, origin |-> r.version] \in CapabilityRow
      BY <1>1, <1>2, <1>5 DEF CapabilityRow
    <2>3. ~CommitChange(h)
      BY <1>1, <1>5 DEF CommitChange
    <2> QED
      BY <1>1, <1>2, <1>3, <1>5, <2>1, <2>2, <2>3
  <1>6. CASE CommitInBranch(h) /\ r.op # "CREATE"
    <2>1. UNCHANGED capability
      BY <1>6 DEF CommitInBranch
    <2>2. ~CommitChange(h)
      BY <1>1, <1>6 DEF CommitChange
    <2> QED
      BY <1>2, <1>3, <1>6, <2>1, <2>2
  <1> QED
    BY <1>4, <1>5, <1>6


LEMMA LastOf ==
    ASSUME NEW E, HasLast(E)
    PROVE  Last(E) \in E /\ \A f \in E : f.changedAt <= Last(E).changedAt
  BY DEF HasLast, Last

\* A step leaves the other requests alone; its own begins, links or ends.
LEMMA RequestStep ==
    ASSUME IInv, NEW h \in Handlers, Step(h)
    PROVE  /\ request' \in [Handlers -> Request]
           /\ \A g \in Handlers : g # h => request'[g] = request[g]
           /\ \/ request'[h] = Idle
              \/ request[h] = Idle /\ Begun(request'[h]) /\ Quiet
              \/ /\ Link(h) /\ request[h] # Idle /\ request'[h] # Idle
                 /\ request'[h] \in Request /\ request'[h].op = request[h].op
                 /\ request'[h].capability = request[h].capability
                 /\ request'[h].version = request[h].version
                 /\ request'[h].branch = request[h].branch /\ request'[h].after = request[h].after
                 /\ request'[h].previous = NewestEntry(request[h].capability)
  <1>0. request \in [Handlers -> Request] /\ Idle \in Request /\ TypeOK
    BY DEF IInv, TypeOK, Request
  <1>1. CASE request' = [request EXCEPT ![h] = Idle]
    BY <1>0, <1>1
  <1>2. CASE \E r : Begun(r) /\ Start(h, r)
    <2>1. PICK r : Begun(r) /\ Start(h, r)
      BY <1>2
    <2>2. r \in Request /\ request[h] = Idle /\ request' = [request EXCEPT ![h] = r] /\ Quiet
      BY <2>1 DEF Begun, Start, Quiet
    <2> QED
      BY <1>0, <2>1, <2>2
  <1>3. CASE Link(h)
    <2> DEFINE r == request[h]
               q == [r EXCEPT !.linked = TRUE, !.previous = NewestEntry(r.capability)]
    <2>1. r \in Request /\ r.op \in {"UPDATE", "DELETE"} /\ request' = [request EXCEPT ![h] = q]
      BY <1>0, <1>3 DEF Link
    <2>2. r # Idle
      BY <2>1 DEF Idle
    <2>3. r.capability \in Capabilities
      BY <2>1, <2>2, RequestFields DEF ChangeTypes
    <2>4. NewestEntry(r.capability) \in 0..MaxChanges
      <3>1. EntriesOf(r.capability) # {} =>
              Last(EntriesOf(r.capability)) \in EntriesOf(r.capability)
        BY <2>3, LastOf DEF IInv, HistoryOK
      <3>2. \A e \in EntriesOf(r.capability) : e.changedAt \in 0..MaxChanges
        BY VersionsAssumption DEF IInv, TypeOK, EntriesOf, CapabilityVersion
      <3> QED
        BY <3>1, <3>2, VersionsAssumption DEF NewestEntry
    <2>5. /\ q \in Request /\ q.op = r.op /\ q.capability = r.capability
          /\ q.version = r.version /\ q.branch = r.branch /\ q.after = r.after
          /\ q.previous = NewestEntry(r.capability) /\ q # Idle
      <3>1. r \in ChangeRecord
        BY <2>1, ChangeIsRecord DEF ChangeTypes
      <3>2. q \in ChangeRecord
        <4>1. PICK t \in BOOLEAN, n \in 0..MaxChanges : t = TRUE /\ n = NewestEntry(r.capability)
          BY <2>4
        <4>2. [r EXCEPT !.linked = t, !.previous = n] \in ChangeRecord
          BY <3>1 DEF ChangeRecord
        <4>3. q = [r EXCEPT !.linked = t, !.previous = n]
          BY <4>1
        <4> QED
          BY <4>2, <4>3
      <3>3. q \in Request
        BY <3>2 DEF Request, ChangeRecord
      <3> QED
        BY <2>1, <3>1, <3>2, <3>3 DEF Idle, ChangeRecord
    <2> HIDE DEF q
    <2> QED
      BY <1>0, <1>3, <2>1, <2>2, <2>5
  <1> QED
    BY <1>0, <1>1, <1>2, <1>3, BeginCases
       DEF CommitChange, CommitRemove, CommitPublish, CommitFork, CommitDiscard, CommitInBranch, Abort, Finish

-----------------------------------------------------------------------------
(* Types *)

LEMMA EntriesTyped ==
    ASSUME IInv, TableCase, VersionsKept
    PROVE  /\ history' \subseteq CapabilityVersion /\ inserted' \in 0..MaxChanges
           /\ \A e \in history' : e.version \in DOMAIN versions' /\ e.changedAt <= inserted'
           /\ capability' \in [Capabilities -> CapabilityRow \cup {NoRow, Gone}]
  <1>0. /\ history \subseteq CapabilityVersion /\ inserted \in 0..MaxChanges
        /\ \A e \in history : e.version \in DOMAIN versions /\ e.changedAt <= inserted
        /\ capability \in [Capabilities -> CapabilityRow \cup {NoRow, Gone}]
        /\ DOMAIN versions \subseteq DOMAIN versions'
    BY DEF IInv, TypeOK, VersionsKept
  <1>1. CASE UNCHANGED <<capability, history, inserted>>
    BY <1>0, <1>1
  <1>2. CASE \E S \in SUBSET Capabilities : Drops(S)
    BY <1>0, <1>2 DEF Drops
  <1>3. ASSUME NEW h \in Handlers, CommitChange(h) \/ CommitInBranch(h)
        PROVE  /\ history' \subseteq CapabilityVersion /\ inserted' \in 0..MaxChanges
               /\ \A e \in history' : e.version \in DOMAIN versions' /\ e.changedAt <= inserted'
               /\ capability' \in [Capabilities -> CapabilityRow \cup {NoRow, Gone}]
    <2> DEFINE r == request[h]
               v == RecordedIn(r.version)
               n == Entry(r.capability, v, r.op, r.after, r.previous)
    <2>1. /\ r \in Request /\ r # Idle /\ r.op \in ChangeTypes /\ r.capability \in Capabilities
          /\ Records(r.capability, v, r) /\ v \in DOMAIN versions' /\ v \in VersionId
      BY <1>3, CommitRecords
    <2>2. /\ r.after \in Contents \cup {NoContent} /\ r.previous \in 0..MaxChanges
      BY <2>1, RequestFields
    <2>3. /\ inserted < MaxChanges /\ inserted' = inserted + 1 /\ history' = history \cup {n}
      BY <2>1 DEF Records
    <2>4. inserted + 1 \in 1..MaxChanges /\ inserted' \in 0..MaxChanges
      BY <1>0, <2>3, VersionsAssumption
    <2>5. n \in CapabilityVersion /\ n.version = v /\ n.changedAt = inserted'
      BY <2>1, <2>2, <2>3, <2>4 DEF Entry, CapabilityVersion, ChangeTypes
    <2> HIDE DEF n, v
    <2>6. \A e \in history : e.changedAt <= inserted'
      BY <1>0, <2>3 DEF CapabilityVersion
    <2>7. inserted' <= inserted'
      BY <2>4
    <2>8. capability' \in [Capabilities -> CapabilityRow \cup {NoRow, Gone}]
      BY <1>3, CommitTables
    <2> QED
      BY <1>0, <2>1, <2>3, <2>4, <2>5, <2>6, <2>7, <2>8
  <1> QED
    BY <1>1, <1>2, <1>3 DEF TableCase

LEMMA TypePreserved ==
    ASSUME IInv, [Next]_vars
    PROVE  TypeOK'
  <1>1. TableCase /\ VersionsTyped' /\ VersionsKept
    BY TableCases
  <1>2. request' \in [Handlers -> Request]
    <2>1. CASE UNCHANGED vars
      BY <2>1 DEF vars, IInv, TypeOK
    <2> QED
      BY <2>1, RequestStep DEF Next
  <1>3. /\ history' \subseteq CapabilityVersion /\ inserted' \in 0..MaxChanges
        /\ \A e \in history' : e.version \in DOMAIN versions' /\ e.changedAt <= inserted'
        /\ capability' \in [Capabilities -> CapabilityRow \cup {NoRow, Gone}]
    BY <1>1, EntriesTyped
  <1> QED
    BY <1>1, <1>2, <1>3 DEF TypeOK, VersionsTyped

-----------------------------------------------------------------------------
(* One draft, and one published version *)

\* The main model's versions stay as they are.
LEMMA MainsStay ==
    ASSUME OneDraft, DOMAIN versions \subseteq DOMAIN versions',
           \A v \in DOMAIN versions : IsMain(v) => versions'[v] = versions[v],
           \A v \in DOMAIN versions' : versions'[v].branchType = "MAIN" =>
                v \in DOMAIN versions /\ versions'[v] = versions[v]
    PROVE  OneDraft'
  <1>1. Drafts' = Drafts /\ Released' = Released
    BY DEF Drafts, Released, IsMain
  <1>2. \A v \in Released : versions'[v] = versions[v]
    BY DEF Released
  <1>3. (\E v \in DOMAIN versions' : versions'[v].branchType = "MAIN") => Drafts' # {}
    BY <1>1 DEF OneDraft, IsMain
  <1>4. \A u, v \in Drafts' : u = v
    BY <1>1 DEF OneDraft
  <1>5. \A u, v \in Released' : versions'[u].state = "PUBLISHED" /\ versions'[v].state = "PUBLISHED" => u = v
    BY <1>1, <1>2 DEF OneDraft
  <1> QED
    BY <1>3, <1>4, <1>5 DEF OneDraft, IsMain

\* A new draft where there is none.
LEMMA DraftOpened ==
    ASSUME OneDraft, NEW n, n \notin DOMAIN versions, DOMAIN versions' = DOMAIN versions \cup {n},
           \A v \in DOMAIN versions : versions'[v] = versions[v],
           versions'[n].branchType = "MAIN", versions'[n].state = "DRAFT", Drafts = {}
    PROVE  OneDraft'
  <1>1. Drafts' = {n} /\ Released' = Released
    BY DEF Drafts, Released, IsMain
  <1>2. \A v \in Released : versions'[v] = versions[v]
    BY DEF Released
  <1>5. \A u, v \in Released' : versions'[u].state = "PUBLISHED" /\ versions'[v].state = "PUBLISHED" => u = v
    BY <1>1, <1>2 DEF OneDraft
  <1> QED
    BY <1>1, <1>5 DEF OneDraft, IsMain

LEMMA PublishKeepsOne ==
    ASSUME IInv, NEW h \in Handlers, CommitPublish(h)
    PROVE  OneDraft'
  <1> DEFINE r == request[h]
             n == Len(versions) + 1
  <1>0. TypeOK /\ RequestsOK /\ OneDraft
    BY DEF IInv
  <1>1. /\ r.version \in DOMAIN versions /\ IsMain(r.version)
        /\ DOMAIN versions' = DOMAIN versions \cup {n} /\ n \notin DOMAIN versions
        /\ \A v \in DOMAIN versions : versions'[v] =
             IF v = r.version THEN Published(v, r.label) ELSE Archived(v)
        /\ versions'[n] = NewDraft(r.version) /\ VersionsKept
    BY <1>0, PublishedVersions
  <1>2. Drafts \subseteq {r.version}
    BY DEF CommitPublish
  <1>3. \A v \in DOMAIN versions : versions[v] \in ModelVersion
    BY <1>0, DraftType, ElementOfSeq DEF TypeOK
  <1>4. versions'[n].branchType = "MAIN" /\ versions'[n].state = "DRAFT"
    BY <1>1 DEF NewDraft
  <1>5. versions'[r.version].state = "PUBLISHED"
    BY <1>1, <1>3 DEF Published, ModelVersion
  <1>6. ASSUME NEW v \in DOMAIN versions, v # r.version, versions'[v].branchType = "MAIN"
        PROVE  versions'[v].state \notin {"DRAFT", "PUBLISHED"}
    <2>1. IsMain(v)
      BY <1>1, <1>6 DEF VersionsKept, IsMain
    <2>2. versions[v].state # "DRAFT"
      BY <1>2, <1>6, <2>1 DEF Drafts
    <2>3. versions'[v] = Archived(v)
      BY <1>1, <1>6
    <2> QED
      BY <1>3, <2>1, <2>2, <2>3 DEF Archived, ModelVersion
  <1>7. Drafts' = {n}
    BY <1>1, <1>4, <1>5, <1>6 DEF Drafts, IsMain
  <1>8. \A u \in Released' : versions'[u].state = "PUBLISHED" => u = r.version
    BY <1>1, <1>4, <1>6 DEF Released, IsMain
  <1> QED
    BY <1>7, <1>8 DEF OneDraft

LEMMA OneDraftPreserved ==
    ASSUME IInv, [Next]_vars
    PROVE  OneDraft'
  <1>0. TypeOK /\ RequestsOK /\ OneDraft
    BY DEF IInv
  <1>1. CASE UNCHANGED versions
    BY <1>0, <1>1, MainsStay
  <1>2. ASSUME NEW h \in Handlers, CommitChange(h)
        PROVE  OneDraft'
    <2> DEFINE r == request[h]
               n == RecordedIn(r.version)
    <2>1. r.version \in DOMAIN versions \cup {Null} /\ EnsureDraft(r.version)
      BY <1>2, CommitRecords DEF RequestOK, CommitChange
    <2>2. \/ UNCHANGED versions
          \/ /\ Drafts = {} /\ DOMAIN versions' = DOMAIN versions \cup {n} /\ n \notin DOMAIN versions
             /\ versions'[n] = NewDraft(Null) /\ \A u \in DOMAIN versions : versions'[u] = versions[u]
      BY <1>0, <2>1, DraftEnsured
    <2>3. NewDraft(Null).branchType = "MAIN" /\ NewDraft(Null).state = "DRAFT"
      BY DEF NewDraft
    <2> QED
      BY <1>0, <1>1, <2>2, <2>3, DraftOpened
  <1>3. ASSUME NEW h \in Handlers, CommitFork(h)
        PROVE  OneDraft'
    BY <1>0, <1>3, ForkedVersions, MainsStay
  <1>4. ASSUME NEW h \in Handlers, CommitDiscard(h)
        PROVE  OneDraft'
    <2>1. \A v \in DOMAIN versions : IsMain(v) => v # request[h].version
      BY <1>0, <1>4, DiscardedVersions DEF IsMain, IsBranch
    <2> QED
      BY <1>0, <1>4, <2>1, DiscardedVersions, MainsStay DEF VersionsKept, IsMain
  <1>5. ASSUME NEW h \in Handlers, Step(h)
        PROVE  OneDraft'
    <2>1. CASE Link(h) \/ CommitRemove(h) \/ CommitInBranch(h) \/ Abort(h)
      BY <1>1, <2>1 DEF Link, CommitRemove, CommitInBranch, Abort
    <2>2. CASE \E r : Begun(r) /\ Start(h, r)
      BY <1>1, <2>2 DEF Start
    <2> QED
      BY <1>0, <1>2, <1>3, <1>4, <1>5, <2>1, <2>2, BeginCases, PublishKeepsOne
  <1> QED
    BY <1>1, <1>5 DEF Next, vars

-----------------------------------------------------------------------------
(* Histories *)

\* The history grows by entry n, which links to the newest of its capability.
Extends(n) ==
    /\ n.capability \in Capabilities
    /\ history' = history \cup {n}
    /\ \A f \in history : f.changedAt < n.changedAt
    /\ n.previous = NewestEntry(n.capability)

LEMMA EntriesFields ==
    ASSUME TypeOK, NEW e \in history
    PROVE  /\ e.changedAt \in Nat /\ e.changedAt # 0 /\ e.changedAt <= inserted
           /\ e.capability \in Capabilities /\ e.version \in DOMAIN versions
           /\ inserted \in Nat
  BY VersionsAssumption DEF TypeOK, CapabilityVersion

\* Of the entries of a capability only the newest has no successor, so a link
\* that the unique index lets through is to the newest.
LEMMA LinkIsNewest ==
    ASSUME IInv, NEW c \in Capabilities, NEW e \in EntriesOf(c),
           \A f \in history : f.previous # e.changedAt
    PROVE  e.changedAt = NewestEntry(c)
  <1>1. e \in history /\ e.capability = c
    BY DEF EntriesOf
  <1>2. \A f \in EntriesOf(c) : f.changedAt <= e.changedAt
    BY <1>1 DEF IInv, HistoryOK, EntriesOf
  <1>3. HasLast(EntriesOf(c))
    BY <1>2 DEF HasLast
  <1>4. /\ Last(EntriesOf(c)) \in EntriesOf(c)
        /\ e.changedAt <= Last(EntriesOf(c)).changedAt
        /\ Last(EntriesOf(c)).changedAt <= e.changedAt
    BY <1>2, <1>3, LastOf
  <1>5. e.changedAt \in Nat /\ Last(EntriesOf(c)).changedAt \in Nat
    BY <1>1, <1>4, EntriesFields DEF IInv, EntriesOf
  <1> QED
    BY <1>4, <1>5 DEF NewestEntry

LEMMA Recorded ==
    ASSUME IInv, NEW h \in Handlers, CommitChange(h) \/ CommitInBranch(h)
    PROVE  LET r == request[h] IN
           \E n : /\ Extends(n) /\ n.capability = r.capability /\ n.after = r.after
                  /\ n.version = RecordedIn(r.version) /\ n \notin history
                  /\ n.changedAt = inserted + 1
  <1> DEFINE r == request[h]
             c == r.capability
             n == Entry(c, RecordedIn(r.version), r.op, r.after, r.previous)
  <1>1. /\ r.op \in ChangeTypes /\ r.linked /\ RequestOK(r) /\ c \in Capabilities
        /\ Records(c, RecordedIn(r.version), r)
        /\ r.op # "CREATE" => Exists(c)
        /\ r.op = "CREATE" => capability[c] = NoRow
    BY CommitRecords
  <1>2. /\ n.capability = c /\ n.after = r.after /\ n.version = RecordedIn(r.version)
        /\ n.changedAt = inserted + 1 /\ n.previous = r.previous
    BY DEF Entry
  <1>3. history' = history \cup {n} /\ (r.previous # 0 => \A f \in history : f.previous # r.previous)
    BY <1>1 DEF Records
  <1>4. \A f \in history : f.changedAt < inserted + 1
    BY EntriesFields DEF IInv
  <1>5. r.previous = NewestEntry(c)
    <2>1. CASE r.op = "CREATE"
      BY <1>1, <2>1 DEF RequestOK, NewestEntry, IInv, HistoryOK
    <2>2. CASE r.op # "CREATE"
      <3>1. PICK e \in EntriesOf(c) : e.changedAt = r.previous
        BY <1>1, <2>2 DEF RequestOK, Exists
      <3>2. r.previous # 0
        BY <3>1, EntriesFields DEF EntriesOf, IInv
      <3> QED
        BY <1>1, <1>3, <3>1, <3>2, LinkIsNewest
    <2> QED
      BY <2>1, <2>2
  <1>6. n \notin history
    BY <1>2, <1>4, EntriesFields DEF IInv
  <1> QED
    BY <1>1, <1>2, <1>3, <1>4, <1>5, <1>6 DEF Extends

\* The entries of each capability after its history has grown.
LEMMA ExtendedEntries ==
    ASSUME IInv, VersionsKept, NEW n, Extends(n), NEW c \in Capabilities
    PROVE  /\ EntriesOf(c)' = IF c = n.capability THEN EntriesOf(c) \cup {n} ELSE EntriesOf(c)
           /\ MainEntriesOf(c)' =
                IF c = n.capability /\ versions'[n.version].branchType = "MAIN"
                THEN MainEntriesOf(c) \cup {n} ELSE MainEntriesOf(c)
           /\ \A f \in EntriesOf(c) : f.changedAt < n.changedAt
  <1>1. EntriesOf(c)' = IF c = n.capability THEN EntriesOf(c) \cup {n} ELSE EntriesOf(c)
    BY DEF EntriesOf, Extends
  <1>2. \A f \in history : versions'[f.version].branchType = versions[f.version].branchType
    BY EntriesFields DEF IInv, VersionsKept
  <1>3. \A f \in EntriesOf(c) : f \in history /\ f.changedAt < n.changedAt
    BY DEF EntriesOf, Extends
  <1>4. MainEntriesOf(c)' = {f \in EntriesOf(c)' : versions'[f.version].branchType = "MAIN"}
    BY DEF MainEntriesOf, IsMain
  <1>5. MainEntriesOf(c) = {f \in EntriesOf(c) : versions'[f.version].branchType = "MAIN"}
    BY <1>2, <1>3 DEF MainEntriesOf, IsMain
  <1> QED
    BY <1>1, <1>3, <1>4, <1>5

LEMMA DroppedEntries ==
    ASSUME IInv, VersionsKept, NEW S \in SUBSET Capabilities, Drops(S), NEW c \in Capabilities
    PROVE  /\ EntriesOf(c)' = IF c \in S THEN {} ELSE EntriesOf(c)
           /\ MainEntriesOf(c)' = IF c \in S THEN {} ELSE MainEntriesOf(c)
           /\ capability'[c] = IF c \in S THEN Gone ELSE capability[c]
  <1>1. EntriesOf(c)' = IF c \in S THEN {} ELSE EntriesOf(c)
    BY DEF EntriesOf, Drops
  <1>2. \A f \in history : versions'[f.version].branchType = versions[f.version].branchType
    BY EntriesFields DEF IInv, VersionsKept
  <1>3. MainEntriesOf(c)' = {f \in EntriesOf(c)' : versions'[f.version].branchType = "MAIN"}
    BY DEF MainEntriesOf, IsMain
  <1>4. MainEntriesOf(c) = {f \in EntriesOf(c) : versions'[f.version].branchType = "MAIN"}
    BY <1>2 DEF MainEntriesOf, IsMain, EntriesOf
  <1> QED
    BY <1>1, <1>3, <1>4 DEF Drops

LEMMA UnchangedEntries ==
    ASSUME IInv, VersionsKept, UNCHANGED history, NEW c \in Capabilities
    PROVE  EntriesOf(c)' = EntriesOf(c) /\ MainEntriesOf(c)' = MainEntriesOf(c)
  <1>2. \A f \in history : versions'[f.version].branchType = versions[f.version].branchType
    BY EntriesFields DEF IInv, VersionsKept
  <1> QED
    BY <1>2 DEF MainEntriesOf, IsMain, EntriesOf

LEMMA LinearPreserved ==
    ASSUME IInv, TableCase, VersionsKept
    PROVE  HistoryIsLinear'
  <1> DEFINE Before(e) == {f \in EntriesOf(e.capability) : f.changedAt < e.changedAt}
             Linked(e, B) == e.previous = IF B = {} THEN 0 ELSE Last(B).changedAt
  <1>0. TypeOK /\ \A e \in history : Linked(e, Before(e))
    BY DEF IInv, HistoryIsLinear
  <1>1. SUFFICES ASSUME NEW e \in history'
                 PROVE  \E B : /\ B = {f \in history' : f.capability = e.capability /\ f.changedAt < e.changedAt}
                               /\ Linked(e, B)
    BY DEF HistoryIsLinear, EntriesOf
  <1>2. CASE UNCHANGED <<capability, history, inserted>>
    BY <1>0, <1>1, <1>2 DEF EntriesOf
  <1>3. CASE \E S \in SUBSET Capabilities : Drops(S)
    <2>1. PICK S \in SUBSET Capabilities : Drops(S)
      BY <1>3
    <2>2. e \in history /\ {f \in history' : f.capability = e.capability /\ f.changedAt < e.changedAt} = Before(e)
      BY <1>1, <2>1 DEF Drops, EntriesOf
    <2> QED
      BY <1>0, <2>2
  <1>4. ASSUME NEW h \in Handlers, CommitChange(h) \/ CommitInBranch(h)
        PROVE  \E B : /\ B = {f \in history' : f.capability = e.capability /\ f.changedAt < e.changedAt}
                      /\ Linked(e, B)
    <2>1. PICK n : Extends(n) /\ n.changedAt = inserted + 1
      BY <1>4, Recorded
    <2>0. inserted + 1 \in Nat /\ \A f \in history : f.changedAt \in Nat
      BY EntriesFields, VersionsAssumption DEF IInv, TypeOK
    <2>2. CASE e = n
      <3>1. {f \in history' : f.capability = e.capability /\ f.changedAt < e.changedAt} = EntriesOf(n.capability)
        BY <2>0, <2>1, <2>2 DEF Extends, EntriesOf
      <3> QED
        BY <2>1, <2>2, <3>1 DEF Extends, NewestEntry
    <2>3. CASE e # n
      <3>1. e \in history
        BY <1>1, <2>1, <2>3 DEF Extends
      <3>2. {f \in history' : f.capability = e.capability /\ f.changedAt < e.changedAt} = Before(e)
        BY <2>0, <2>1, <3>1 DEF Extends, EntriesOf
      <3> QED
        BY <1>0, <3>1, <3>2
    <2> QED
      BY <2>2, <2>3
  <1> QED
    BY <1>2, <1>3, <1>4 DEF TableCase

\* A capability keeps its origin and its entries until it is deleted, and it is
\* deleted for good; while an update holds its lock it stays in the main model.
LEMMA CapabilityKept ==
    ASSUME IInv, TableCase, NEW c \in Capabilities
    PROVE  /\ capability[c] # NoRow => capability'[c] # NoRow
           /\ capability[c] # NoRow /\ Exists(c)' =>
                /\ Exists(c) /\ capability'[c].origin = capability[c].origin
                /\ EntriesOf(c) \subseteq EntriesOf(c)'
           /\ OnMain(c) /\ Locked(c) => OnMain(c)'
  <1>0. TypeOK
    BY DEF IInv
  <1>1. CASE UNCHANGED <<capability, history, inserted>>
    BY <1>1 DEF Exists, OnMain, EntriesOf
  <1>2. CASE \E S \in SUBSET Capabilities : Drops(S)
    <2>1. PICK S \in SUBSET Capabilities : Drops(S)
      BY <1>2
    <2>2. CASE c \in S
      BY <2>1, <2>2, VersionsAssumption DEF Drops, Exists
    <2>3. CASE c \notin S
      BY <2>1, <2>3 DEF Drops, Exists, OnMain, EntriesOf
    <2> QED
      BY <2>2, <2>3
  <1>3. ASSUME NEW h \in Handlers, CommitChange(h) \/ CommitInBranch(h)
        PROVE  /\ capability[c] # NoRow => capability'[c] # NoRow
               /\ capability[c] # NoRow /\ Exists(c)' =>
                    /\ Exists(c) /\ capability'[c].origin = capability[c].origin
                    /\ EntriesOf(c) \subseteq EntriesOf(c)'
               /\ OnMain(c) /\ Locked(c) => OnMain(c)'
    <2> DEFINE r == request[h]
    <2>1. EntriesOf(c) \subseteq EntriesOf(c)'
      BY <1>3, Recorded DEF Extends, EntriesOf
    <2>2. CASE capability'[c] = capability[c]
      BY <2>1, <2>2 DEF Exists, OnMain
    <2>3. CASE capability'[c] # capability[c]
      <3>1. c = r.capability /\ ~(CommitInBranch(h) /\ r.op # "CREATE")
        BY <1>3, <2>3, CommitTables
      <3>2. CASE r.op = "CREATE"
        <4>1. capability[c] = NoRow
          BY <1>3, <3>1, <3>2, CommitRecords
        <4>2. /\ r.after \in Contents /\ r.op \in ChangeTypes /\ r \in Request /\ r # Idle
          BY <1>3, <3>1, <3>2, CommitRecords, CommitTables
        <4> QED
          BY <4>1 DEF OnMain, Exists
      <3>3. CASE r.op # "CREATE"
        <4>1. CommitChange(h) /\ ~r.branch /\ r.op = "UPDATE"
          BY <1>3, <3>1, <3>3 DEF CommitChange
        <4>2. OnMain(c) /\ capability'[c] = [content |-> r.after, origin |-> Null] /\ r.after \in Contents
          BY <1>3, <3>1, <4>1, CommitRecords, CommitTables DEF RequestOK, ChangeTypes
        <4>3. capability'[c] \in CapabilityRow /\ capability'[c].origin = Null
          BY <4>2 DEF CapabilityRow
        <4>4. Exists(c)'
          BY <4>3, RowsAssumption DEF Exists
        <4> QED
          BY <2>1, <4>2, <4>3, <4>4 DEF Exists, OnMain
      <3> QED
        BY <3>2, <3>3
    <2> QED
      BY <2>2, <2>3
  <1> QED
    BY <1>1, <1>2, <1>3 DEF TableCase

LEMMA GrownHasLast ==
    ASSUME NEW E, NEW n, n.changedAt \in Nat,
           \A f \in E : f.changedAt \in Nat /\ f.changedAt < n.changedAt
    PROVE  /\ HasLast(E \cup {n}) /\ Last(E \cup {n}) = n
  <1>1. \A f \in E \cup {n} : f.changedAt <= n.changedAt
    OBVIOUS
  <1> QED
    BY <1>1 DEF HasLast, Last

\* What the commit of a change leaves in the table and in the histories.
LEMMA CommittedTables ==
    ASSUME IInv, VersionsKept, NEW h \in Handlers, CommitChange(h) \/ CommitInBranch(h)
    PROVE  LET r == request[h] IN
           \E n, c, v :
                  /\ Extends(n) /\ n.capability = c /\ n.after = r.after /\ n.version = v
                  /\ c = r.capability /\ c \in Capabilities /\ v = RecordedIn(r.version)
                  /\ n.changedAt \in Nat
                  /\ r.op # "CREATE" => Exists(c)
                  /\ r.op = "CREATE" => EntriesOf(c) = {}
                  /\ \A d \in Capabilities \ {c} : capability'[d] = capability[d]
                  /\ Exists(c)' /\ capability'[c] # NoRow
                  /\ \/ /\ CommitChange(h) /\ versions'[v].branchType = "MAIN"
                        /\ OnMain(c)' /\ capability'[c].content = r.after
                     \/ /\ CommitInBranch(h) /\ versions'[v].branchType = "WHAT_IF"
                        /\ v = r.version /\ v \in DOMAIN versions
                        /\ IF r.op = "CREATE" THEN capability'[c].origin = v
                                              ELSE capability'[c] = capability[c]
  <1> DEFINE r == request[h]
  <1>a. PICK c, v : c = r.capability /\ v = RecordedIn(r.version)
    OBVIOUS
  <1>1. PICK n : /\ Extends(n) /\ n.capability = c /\ n.after = r.after /\ n.version = v
                 /\ n.changedAt = inserted + 1
    BY <1>a, Recorded
  <1>2. n.changedAt \in Nat
    BY <1>1 DEF IInv, TypeOK
  <1>3. /\ c \in Capabilities /\ RequestOK(r) /\ r.op \in ChangeTypes
        /\ r.branch => r.version \in DOMAIN versions /\ r.version # Null
        /\ r.branch => IsBranch(v)
        /\ r.branch <=> CommitInBranch(h)
        /\ ~r.branch => versions'[v].branchType = "MAIN"
        /\ r.op # "CREATE" => Exists(c)
        /\ r.op = "CREATE" => capability[c] = NoRow
    BY <1>a, CommitRecords
  <1>4. r.op = "CREATE" => EntriesOf(c) = {}
    BY <1>3 DEF IInv, HistoryOK
  <1>5. \A d \in Capabilities \ {c} : capability'[d] = capability[d]
    BY <1>a, CommitTables
  <1>6. CASE CommitChange(h)
    <2>1. capability'[c] = [content |-> r.after, origin |-> Null] /\ ~r.branch /\ r.op # "DELETE" /\ r.after \in Contents
      BY <1>a, <1>6, CommitTables DEF CommitChange
    <2>2. capability'[c] \in CapabilityRow /\ capability'[c].origin = Null /\ capability'[c].content = r.after
      BY <2>1 DEF CapabilityRow
    <2>3. OnMain(c)' /\ capability'[c] # NoRow
      BY <2>2, RowsAssumption DEF OnMain, Exists
    <2>4. Exists(c)'
      BY <2>3 DEF OnMain
    <2> QED
      BY <1>a, <1>1, <1>2, <1>3, <1>4, <1>5, <1>6, <2>1, <2>2, <2>3, <2>4
  <1>7. CASE CommitInBranch(h)
    <2>1. v = r.version /\ v \in DOMAIN versions
      BY <1>a, <1>3, <1>7 DEF RecordedIn
    <2>2. versions'[v].branchType = "WHAT_IF"
      BY <1>3, <1>7, <2>1 DEF VersionsKept, IsBranch
    <2>3. CASE r.op = "CREATE"
      <3>1. capability'[c] = [content |-> r.after, origin |-> r.version] /\ r.after \in Contents
        BY <1>a, <1>7, <2>3, CommitTables
      <3>2. r.version \in VersionId
        BY <2>1, DraftType DEF IInv
      <3>3. capability'[c] \in CapabilityRow /\ capability'[c].origin = v
        BY <2>1, <3>1, <3>2 DEF CapabilityRow
      <3>4. Exists(c)' /\ capability'[c] # NoRow
        BY <3>3, RowsAssumption DEF Exists
      <3> QED
        BY <1>a, <1>1, <1>2, <1>3, <1>4, <1>5, <1>7, <2>1, <2>2, <2>3, <3>3, <3>4
    <2>4. CASE r.op # "CREATE"
      <3>1. capability' = capability
        BY <1>7, <2>4, CommitTables
      <3>2. Exists(c)' /\ capability'[c] # NoRow
        BY <1>3, <2>4, <3>1 DEF Exists
      <3> QED
        BY <1>a, <1>1, <1>2, <1>3, <1>4, <1>5, <1>7, <2>1, <2>2, <2>4, <3>1, <3>2
    <2> QED
      BY <2>3, <2>4
  <1> QED
    BY <1>6, <1>7

\* The part of HistoryOK about one capability.
CapabilityHistoryOK(c) ==
    /\ EntriesOf(c) # {} => HasLast(EntriesOf(c))
    /\ MainEntriesOf(c) # {} => HasLast(MainEntriesOf(c))
    /\ capability[c] = NoRow => EntriesOf(c) = {}
    /\ Exists(c) => EntriesOf(c) # {}
    /\ Exists(c) /\ ~OnMain(c) => \A e \in EntriesOf(c) : e.version = capability[c].origin

\* Its content and its origin agree with its history.
CapabilityTableOK(c) ==
    /\ OnMain(c) => MainEntriesOf(c) # {} /\ capability[c].content = Last(MainEntriesOf(c)).after
    /\ Exists(c) /\ ~OnMain(c) =>
         /\ MainEntriesOf(c) = {}
         /\ capability[c].origin \in DOMAIN versions /\ IsBranch(capability[c].origin)

LEMMA TablesByCapability ==
    ASSUME IInv
    PROVE  \A c \in Capabilities : CapabilityHistoryOK(c) /\ CapabilityTableOK(c)
  BY DEF IInv, HistoryOK, OriginsOK, TableMatchesHistory, MainEntriesOf,
         CapabilityHistoryOK, CapabilityTableOK

\* A capability the step does not touch.
LEMMA UntouchedTable ==
    ASSUME IInv, VersionsKept, NEW c \in Capabilities, capability'[c] = capability[c],
           EntriesOf(c)' = EntriesOf(c), MainEntriesOf(c)' = MainEntriesOf(c)
    PROVE  CapabilityHistoryOK(c)' /\ CapabilityTableOK(c)'
  <1>1. CapabilityHistoryOK(c) /\ CapabilityTableOK(c)
    BY TablesByCapability
  <1>2. Exists(c)' = Exists(c) /\ OnMain(c)' = OnMain(c)
    BY DEF Exists, OnMain
  <1>3. CapabilityHistoryOK(c)'
    BY <1>1, <1>2 DEF CapabilityHistoryOK, HasLast
  <1>4. CapabilityTableOK(c)'
    BY <1>1, <1>2 DEF CapabilityTableOK, VersionsKept, IsBranch, IsMain
  <1> QED
    BY <1>3, <1>4

\* The capability whose change is committed.
LEMMA TouchedTable ==
    ASSUME IInv, VersionsKept, NEW h \in Handlers, CommitChange(h) \/ CommitInBranch(h),
           NEW c \in Capabilities, c = request[h].capability
    PROVE  CapabilityHistoryOK(c)' /\ CapabilityTableOK(c)'
  <1> DEFINE r == request[h]
  <1>0. CapabilityHistoryOK(c) /\ CapabilityTableOK(c)
    BY TablesByCapability
  <1>1. PICK n, v :
           /\ Extends(n) /\ n.capability = c /\ n.after = r.after /\ n.version = v
           /\ n.changedAt \in Nat
           /\ r.op # "CREATE" => Exists(c)
           /\ r.op = "CREATE" => EntriesOf(c) = {}
           /\ Exists(c)' /\ capability'[c] # NoRow
           /\ \/ /\ CommitChange(h) /\ versions'[v].branchType = "MAIN"
                 /\ OnMain(c)' /\ capability'[c].content = r.after
              \/ /\ CommitInBranch(h) /\ versions'[v].branchType = "WHAT_IF"
                 /\ v = r.version /\ v \in DOMAIN versions
                 /\ IF r.op = "CREATE" THEN capability'[c].origin = v
                                       ELSE capability'[c] = capability[c]
    BY CommittedTables
  <1>2. /\ EntriesOf(c)' = EntriesOf(c) \cup {n}
        /\ MainEntriesOf(c)' = IF versions'[v].branchType = "MAIN"
                               THEN MainEntriesOf(c) \cup {n} ELSE MainEntriesOf(c)
        /\ \A f \in EntriesOf(c) : f.changedAt < n.changedAt
    BY <1>1, ExtendedEntries
  <1>3. /\ MainEntriesOf(c) \subseteq EntriesOf(c)
        /\ \A f \in EntriesOf(c) : f.changedAt \in Nat
    BY EntriesFields DEF IInv, MainEntriesOf, EntriesOf
  <1>4. /\ HasLast(EntriesOf(c) \cup {n}) /\ HasLast(EntriesOf(c)')
        /\ HasLast(MainEntriesOf(c) \cup {n}) /\ Last(MainEntriesOf(c) \cup {n}) = n
    <2>1. HasLast(EntriesOf(c) \cup {n})
      BY <1>1, <1>2, <1>3, GrownHasLast
    <2>2. HasLast(MainEntriesOf(c) \cup {n}) /\ Last(MainEntriesOf(c) \cup {n}) = n
      BY <1>1, <1>2, <1>3, GrownHasLast
    <2> QED
      BY <1>2, <2>1, <2>2 DEF HasLast
  <1>5. CASE CommitChange(h) /\ versions'[v].branchType = "MAIN"
    <2>1. HasLast(MainEntriesOf(c)') /\ Last(MainEntriesOf(c)') = n
      BY <1>2, <1>4, <1>5 DEF HasLast, Last
    <2>2. OnMain(c)' /\ capability'[c].content = r.after
      BY <1>1, <1>5
    <2>3. CapabilityHistoryOK(c)'
      BY <1>1, <1>2, <1>4, <2>1, <2>2 DEF CapabilityHistoryOK, HasLast
    <2>4. CapabilityTableOK(c)'
      <3>1. MainEntriesOf(c)' # {} /\ capability'[c].content = Last(MainEntriesOf(c)').after
        BY <1>1, <1>2, <1>5, <2>1, <2>2
      <3> QED
        BY <2>2, <3>1 DEF CapabilityTableOK
    <2> QED
      BY <2>3, <2>4
  <1>6. CASE CommitInBranch(h) /\ versions'[v].branchType = "WHAT_IF"
    <2>1. MainEntriesOf(c)' = MainEntriesOf(c) /\ IsBranch(v)'
      BY <1>2, <1>6 DEF IsBranch
    <2>2. /\ v = r.version /\ v \in DOMAIN versions
          /\ IF r.op = "CREATE" THEN capability'[c].origin = v
                                ELSE capability'[c] = capability[c]
      <3>1. ~CommitChange(h)
        BY <1>6 DEF CommitChange, CommitInBranch
      <3> QED
        BY <1>1, <3>1
    <2>a. v \in DOMAIN versions' /\ v # Null
      BY <2>2, DraftType DEF VersionsKept, IInv, VersionId, Null
    <2>3. CASE r.op = "CREATE"
      <3>1. capability'[c].origin = v /\ EntriesOf(c)' = {n} /\ MainEntriesOf(c)' = {}
        BY <1>1, <1>2, <1>3, <2>1, <2>2, <2>3
      <3>2. ~OnMain(c)'
        BY <2>a, <3>1 DEF OnMain
      <3>3. CapabilityHistoryOK(c)'
        BY <1>1, <1>4, <3>1, <3>2 DEF CapabilityHistoryOK, HasLast
      <3>4. CapabilityTableOK(c)'
        BY <2>1, <2>a, <3>1, <3>2 DEF CapabilityTableOK, IsBranch
      <3> QED
        BY <3>3, <3>4
    <2>4. CASE r.op # "CREATE"
      <3>1. capability'[c] = capability[c] /\ Exists(c)' = Exists(c) /\ OnMain(c)' = OnMain(c)
        BY <2>2, <2>4 DEF Exists, OnMain
      <3>2. Exists(c) /\ ~OnMain(c) => n.version = capability[c].origin
        <4>1. RequestOK(r) /\ r.op \in ChangeTypes /\ r.branch
          BY <1>6, CommitRecords
        <4>2. Exists(c) /\ ~OnMain(c) => capability[c].origin = r.version
          BY <2>4, <4>1 DEF RequestOK, OnMain
        <4> QED
          BY <1>1, <2>2, <4>2
      <3>3. CapabilityHistoryOK(c)'
        BY <1>0, <1>1, <1>2, <1>4, <2>1, <3>1, <3>2 DEF CapabilityHistoryOK, HasLast
      <3>4. CapabilityTableOK(c)'
        BY <1>0, <2>1, <3>1 DEF CapabilityTableOK, IsBranch, VersionsKept
      <3> QED
        BY <3>3, <3>4
    <2> QED
      BY <2>3, <2>4
  <1> QED
    BY <1>1, <1>5, <1>6

LEMMA TablesPreserved ==
    ASSUME IInv, TableCase, VersionsKept, NEW c \in Capabilities
    PROVE  CapabilityHistoryOK(c)' /\ CapabilityTableOK(c)'
  <1>1. CASE UNCHANGED <<capability, history, inserted>>
    BY <1>1, UnchangedEntries, UntouchedTable
  <1>2. CASE \E S \in SUBSET Capabilities : Drops(S)
    <2>1. PICK S \in SUBSET Capabilities : Drops(S)
      BY <1>2
    <2>2. CASE c \in S
      <3>1. EntriesOf(c)' = {} /\ MainEntriesOf(c)' = {} /\ capability'[c] = Gone
        BY <2>1, <2>2, DroppedEntries
      <3>2. ~Exists(c)' /\ ~OnMain(c)'
        BY <3>1 DEF Exists, OnMain
      <3> QED
        BY <3>1, <3>2 DEF CapabilityHistoryOK, CapabilityTableOK
    <2>3. CASE c \notin S
      BY <2>1, <2>3, DroppedEntries, UntouchedTable
    <2> QED
      BY <2>2, <2>3
  <1>3. ASSUME NEW h \in Handlers, CommitChange(h) \/ CommitInBranch(h)
        PROVE  CapabilityHistoryOK(c)' /\ CapabilityTableOK(c)'
    <2>1. CASE c = request[h].capability
      BY <1>3, <2>1, TouchedTable
    <2>2. CASE c # request[h].capability
      <3>1. capability'[c] = capability[c]
        BY <1>3, <2>2, CommitTables
      <3>2. EntriesOf(c)' = EntriesOf(c) /\ MainEntriesOf(c)' = MainEntriesOf(c)
        BY <1>3, <2>2, Recorded, ExtendedEntries
      <3> QED
        BY <3>1, <3>2, UntouchedTable
    <2> QED
      BY <2>1, <2>2
  <1> QED
    BY <1>1, <1>2, <1>3 DEF TableCase

\* No two entries of one moment, and a successor for all but the newest of each
\* capability.
EntriesChained ==
    /\ \A e, f \in history : e.changedAt = f.changedAt => e = f
    /\ \A e \in history :
         \/ \A f \in EntriesOf(e.capability) : f.changedAt <= e.changedAt
         \/ \E f \in EntriesOf(e.capability) : f.previous = e.changedAt

LEMMA ChainPreserved ==
    ASSUME IInv, TableCase, VersionsKept
    PROVE  EntriesChained'
  <1>0. EntriesChained /\ TypeOK
    BY DEF IInv, HistoryOK, EntriesChained
  <1>1. CASE UNCHANGED <<capability, history, inserted>>
    BY <1>0, <1>1 DEF EntriesChained, EntriesOf
  <1>2. CASE \E S \in SUBSET Capabilities : Drops(S)
    <2>1. PICK S \in SUBSET Capabilities : Drops(S)
      BY <1>2
    <2>2. \A e \in history' : e \in history /\ EntriesOf(e.capability)' = EntriesOf(e.capability)
      BY <2>1 DEF Drops, EntriesOf
    <2>3. \A e \in history' : \/ \A f \in EntriesOf(e.capability)' : f.changedAt <= e.changedAt
                              \/ \E f \in EntriesOf(e.capability)' : f.previous = e.changedAt
      BY <1>0, <2>2 DEF EntriesChained
    <2>4. \A e, f \in history' : e.changedAt = f.changedAt => e = f
      BY <1>0, <2>2 DEF EntriesChained
    <2> QED
      BY <2>3, <2>4 DEF EntriesChained, EntriesOf
  <1>3. ASSUME NEW h \in Handlers, CommitChange(h) \/ CommitInBranch(h)
        PROVE  EntriesChained'
    <2>1. PICK n : Extends(n) /\ n.changedAt = inserted + 1
      BY <1>3, Recorded
    <2>2. /\ n.changedAt \in Nat /\ \A f \in history : f.changedAt \in Nat
          /\ \A f \in history : f.changedAt < n.changedAt
          /\ history' = history \cup {n} /\ n.capability \in Capabilities
          /\ n.previous = NewestEntry(n.capability)
      BY <2>1, EntriesFields DEF IInv, TypeOK, Extends
    <2>3. \A e, f \in history' : e.changedAt = f.changedAt => e = f
      BY <1>0, <2>2 DEF EntriesChained
    <2>4. ASSUME NEW e \in history'
          PROVE  \/ \A f \in history' : f.capability = e.capability => f.changedAt <= e.changedAt
                 \/ \E f \in history' : f.capability = e.capability /\ f.previous = e.changedAt
      <3>1. CASE e = n
        BY <2>2, <3>1
      <3>2. CASE e # n /\ e.capability # n.capability
        BY <1>0, <2>2, <3>2 DEF EntriesChained, EntriesOf
      <3>3. CASE e # n /\ e.capability = n.capability
        <4>1. e \in EntriesOf(n.capability) /\ e \in history
          BY <2>2, <3>3 DEF EntriesOf
        <4>2. CASE \E f \in EntriesOf(e.capability) : f.previous = e.changedAt
          BY <2>2, <4>2 DEF EntriesOf
        <4>3. CASE \A f \in EntriesOf(e.capability) : f.changedAt <= e.changedAt
          <5> DEFINE l == Last(EntriesOf(n.capability))
          <5>1. HasLast(EntriesOf(n.capability))
            BY <3>3, <4>1, <4>3 DEF HasLast
          <5>2. l \in EntriesOf(n.capability) /\ e.changedAt <= l.changedAt /\ l.changedAt <= e.changedAt
            BY <3>3, <4>1, <4>3, <5>1, LastOf
          <5>3. n.previous = e.changedAt
            BY <2>2, <4>1, <5>2 DEF NewestEntry, EntriesOf
          <5> QED
            BY <2>2, <3>3, <5>3
        <4> QED
          BY <1>0, <4>1, <4>2, <4>3 DEF EntriesChained
      <3> QED
        BY <3>1, <3>2, <3>3
    <2> QED
      BY <2>3, <2>4 DEF EntriesChained, EntriesOf
  <1> QED
    BY <1>1, <1>2, <1>3 DEF TableCase

-----------------------------------------------------------------------------
(* What a request has read *)

\* A request that has not moved still knows what it has read.
LEMMA RequestStays ==
    ASSUME IInv, TableCase, VersionsKept, NEW g \in Handlers, request[g] # Idle,
           NEW r, r = request[g]
    PROVE  RequestOK(r)'
  <1>1. r \in Request /\ RequestOK(r)
    BY DEF IInv, TypeOK, RequestsOK
  <1>2. r.op \in ChangeTypes => r.capability \in Capabilities
    BY <1>1, RequestFields
  <1>3. r.op = "UPDATE" /\ ~r.branch => Locked(r.capability)
    BY DEF Locked
  <1>4. ASSUME NEW v \in DOMAIN versions
        PROVE  v \in DOMAIN versions' /\ (IsMain(v) => IsMain(v)') /\ (IsBranch(v) => IsBranch(v)')
    BY DEF VersionsKept, IsMain, IsBranch
  <1>5. ASSUME r.op \in ChangeTypes
        PROVE  LET c == r.capability IN
               /\ capability[c] # NoRow => capability'[c] # NoRow
               /\ capability[c] # NoRow /\ Exists(c)' =>
                    /\ Exists(c) /\ capability'[c].origin = capability[c].origin
                    /\ EntriesOf(c) \subseteq EntriesOf(c)'
               /\ OnMain(c) /\ Locked(c) => OnMain(c)'
    BY <1>2, <1>5, CapabilityKept
  <1> QED
    BY <1>1, <1>3, <1>4, <1>5 DEF RequestOK

\* What a branch shows of a capability is in the capability's history; one made
\* in a branch is shown by no other.
LEMMA ShownInBranch ==
    ASSUME IInv, NEW b \in DOMAIN versions, NEW c \in Capabilities, GetInBranch(b, c) # NoContent
    PROVE  /\ capability[c] # NoRow
           /\ Exists(c) => capability[c].origin \in {Null, b}
  <1>0. CapabilityHistoryOK(c) /\ CapabilityTableOK(c)
    BY TablesByCapability
  <1>1. CASE OwnEntries(b, c) # {}
    <2>1. PICK e \in EntriesOf(c) : e.version = b
      BY <1>1 DEF OwnEntries, Entries, EntriesOf
    <2> QED
      BY <1>0, <2>1 DEF CapabilityHistoryOK, OnMain
  <1>2. CASE OwnEntries(b, c) = {}
    <2>1. StateAt(versions[b].base)[c] # NoContent
      BY <1>2 DEF GetInBranch
    <2>2. PICK e \in Entries(UpTo(versions[b].base)) : e.capability = c
      BY <2>1 DEF StateAt, Newest
    <2>3. e \in MainEntriesOf(c)
      BY <2>2 DEF Entries, UpTo, MainEntriesOf, EntriesOf
    <2>4. e \in EntriesOf(c)
      BY <2>3 DEF MainEntriesOf
    <2> QED
      BY <1>0, <2>3, <2>4 DEF CapabilityHistoryOK, CapabilityTableOK, OnMain
  <1> QED
    BY <1>1, <1>2

LEMMA BegunOK ==
    ASSUME IInv, Quiet, NEW r, Begun(r)
    PROVE  RequestOK(r)'
  <1>1. /\ r \in Request /\ r # Idle
    BY DEF Begun
  <1>2. Draft # Null => Draft \in DOMAIN versions /\ IsMain(Draft)
    BY DraftType DEF IInv, Drafts
  <1>3. r.op \in ChangeTypes => r.capability \in Capabilities
    BY <1>1, RequestFields
  <1>4. r.op \in ChangeTypes /\ r.op # "CREATE" =>
          /\ capability[r.capability] # NoRow
          /\ r.branch /\ Exists(r.capability) => capability[r.capability].origin \in {Null, r.version}
    <2>1. r.op \in ChangeTypes /\ r.op # "CREATE" /\ r.branch =>
            r.version \in DOMAIN versions /\ GetInBranch(r.version, r.capability) # NoContent
      BY DEF Begun
    <2>2. r.op \in ChangeTypes /\ r.op # "CREATE" /\ ~r.branch => OnMain(r.capability)
      BY DEF Begun, ChangeTypes
    <2> QED
      BY <1>3, <2>1, <2>2, ShownInBranch DEF OnMain, Exists
  <1>5. RequestOK(r)
    BY <1>2, <1>4 DEF Begun, RequestOK, Writable
  <1> QED
    BY <1>5 DEF Quiet, RequestOK, OnMain, Exists, IsMain, IsBranch, EntriesOf

LEMMA LinkedOK ==
    ASSUME IInv, NEW h \in Handlers, Link(h), request[h] # Idle,
           NEW q \in Request, q # Idle,
           q.op = request[h].op, q.capability = request[h].capability,
           q.version = request[h].version, q.branch = request[h].branch,
           q.after = request[h].after,
           q.previous = NewestEntry(request[h].capability)
    PROVE  RequestOK(q)'
  <1>1. /\ request[h].op \in {"UPDATE", "DELETE"} /\ Quiet
    BY DEF Link, Quiet
  <1>2. RequestOK(request[h])
    BY DEF IInv, RequestsOK
  <1>3. q.capability \in Capabilities /\ q.op \in ChangeTypes
    BY <1>1, RequestFields DEF ChangeTypes
  <1>4. Exists(q.capability) => \E e \in EntriesOf(q.capability) : e.changedAt = q.previous
    <2>1. ASSUME Exists(q.capability)
          PROVE  EntriesOf(q.capability) # {} /\ HasLast(EntriesOf(q.capability))
      BY <1>3, <2>1, TablesByCapability DEF CapabilityHistoryOK
    <2> QED
      BY <2>1, LastOf DEF NewestEntry
  <1>5. RequestOK(q)
    BY <1>1, <1>2, <1>3, <1>4 DEF RequestOK, ChangeTypes
  <1> QED
    BY <1>1, <1>5 DEF Quiet, RequestOK, OnMain, Exists, IsMain, IsBranch, EntriesOf

LEMMA RequestsPreserved ==
    ASSUME IInv, [Next]_vars
    PROVE  RequestsOK'
  <1>1. TableCase /\ VersionsKept
    BY TableCases
  <1>2. CASE UNCHANGED vars
    <2>1. \A g \in Handlers : request[g] # Idle => RequestOK(request[g])
      BY DEF IInv, RequestsOK
    <2> QED
      BY <1>2, <2>1 DEF vars, RequestsOK, RequestOK, OnMain, Exists, IsMain, IsBranch, EntriesOf
  <1>3. ASSUME NEW h \in Handlers, Step(h)
        PROVE  RequestsOK'
    <2> SUFFICES ASSUME NEW g \in Handlers, NEW q, q = request'[g], q # Idle
                 PROVE  RequestOK(q)'
      BY DEF RequestsOK
    <2>1. CASE g # h
      <3>1. q = request[g]
        BY <1>3, <2>1, RequestStep
      <3> QED
        BY <1>1, <3>1, RequestStays
    <2>2. CASE g = h
      <3>1. \/ Begun(q) /\ Quiet
            \/ /\ Link(h) /\ request[h] # Idle
               /\ q \in Request /\ q.op = request[h].op
               /\ q.capability = request[h].capability
               /\ q.version = request[h].version
               /\ q.branch = request[h].branch /\ q.after = request[h].after
               /\ q.previous = NewestEntry(request[h].capability)
        BY <1>3, <2>2, RequestStep
      <3> QED
        BY <3>1, BegunOK, LinkedOK
    <2> QED
      BY <2>1, <2>2
  <1> QED
    BY <1>2, <1>3 DEF Next

-----------------------------------------------------------------------------
(* The invariant *)

LEMMA InitIInv ==
    ASSUME Init
    PROVE  IInv
  <1>1. TypeOK
    <2>1. versions \in Seq(ModelVersion) /\ Len(versions) = 0 /\ DOMAIN versions = {}
      BY DEF Init
    <2>2. Idle \in Request
      BY DEF Request
    <2> QED
      BY <2>1, <2>2, VersionsAssumption DEF Init, TypeOK
  <1>2. DOMAIN versions = {} /\ history = {} /\ \A h \in Handlers : request[h] = Idle
    BY DEF Init
  <1>3. \A c \in Capabilities : ~Exists(c) /\ EntriesOf(c) = {} /\ MainEntriesOf(c) = {}
    BY DEF Init, Exists, EntriesOf, MainEntriesOf
  <1>4. OneDraft
    BY <1>2 DEF OneDraft, Drafts, Released
  <1> QED
    BY <1>1, <1>2, <1>3, <1>4
       DEF IInv, HistoryIsLinear, HistoryOK, OriginsOK, TableMatchesHistory, RequestsOK, OnMain

LEMMA IInvPreserved ==
    ASSUME IInv, [Next]_vars
    PROVE  IInv'
  <1>1. TableCase /\ VersionsKept
    BY TableCases
  <1>2. TypeOK' /\ OneDraft' /\ RequestsOK'
    BY TypePreserved, OneDraftPreserved, RequestsPreserved
  <1>3. HistoryIsLinear' /\ EntriesChained'
    BY <1>1, LinearPreserved, ChainPreserved
  <1>4. \A c \in Capabilities : CapabilityHistoryOK(c)' /\ CapabilityTableOK(c)'
    BY <1>1, TablesPreserved
  <1>5. HistoryOK'
    BY <1>3, <1>4 DEF HistoryOK, EntriesChained, CapabilityHistoryOK
  <1>6. OriginsOK'
    BY <1>4 DEF OriginsOK, CapabilityTableOK
  <1>7. TableMatchesHistory'
    BY <1>4 DEF TableMatchesHistory, CapabilityTableOK, MainEntriesOf
  <1> QED
    BY <1>2, <1>3, <1>5, <1>6, <1>7 DEF IInv

LEMMA Inductive == Spec => []IInv
  BY InitIInv, IInvPreserved, PTL DEF Spec

\* The tables agree: one draft, one published version, histories that are single
\* chains over main model and branches, and a main table that holds what they say,
\* however many requests commit what they have read before (recordChange,
\* publishSnapshot, createBranch, discardBranch, delete).
THEOREM VersionsCorrect == Spec => []VersionsAgree
  <1>1. IInv => VersionsAgree
    BY DEF IInv, VersionsAgree
  <1> QED
    BY <1>1, Inductive, PTL

-----------------------------------------------------------------------------
(* What a step may change *)

LEMMA CommitEnds ==
    ASSUME IInv, NEW h \in Handlers,
           CommitChange(h) \/ CommitInBranch(h) \/ CommitRemove(h) \/ CommitDiscard(h)
    PROVE  request[h] # Idle /\ request'[h] = Idle
  <1>1. request \in [Handlers -> Request]
    BY DEF IInv, TypeOK
  <1> QED
    BY <1>1 DEF CommitChange, CommitInBranch, CommitRemove, CommitDiscard, Finish, Idle

\* A version that is already there gets an entry only from a request about it.
LEMMA RecordedWhere ==
    ASSUME IInv, NEW h \in Handlers, CommitChange(h) \/ CommitInBranch(h),
           NEW v \in DOMAIN versions, v = RecordedIn(request[h].version)
    PROVE  request[h].version = v
  <1>1. v # Len(versions) + 1
    BY DraftType DEF IInv
  <1> QED
    BY <1>1 DEF RecordedIn

LEMMA EntriesChange ==
    ASSUME IInv, NEW h \in Handlers, Step(h), NEW v \in DOMAIN versions, Entries({v})' # Entries({v})
    PROVE  /\ request[h] # Idle /\ request'[h] = Idle
           /\ request[h].op = "REMOVE" \/ request[h].version = v
  <1>0. history' # history
    BY DEF Entries
  <1>1. CASE CommitChange(h) \/ CommitInBranch(h)
    <2>1. PICK n : Extends(n) /\ n.version = RecordedIn(request[h].version)
      BY <1>1, Recorded
    <2>2. n.version = v
      BY <2>1 DEF Extends, Entries
    <2> QED
      BY <1>1, <2>1, <2>2, CommitEnds, RecordedWhere
  <1>2. CASE CommitRemove(h)
    BY <1>2, CommitEnds DEF CommitRemove
  <1>3. CASE CommitDiscard(h)
    <2> DEFINE b == request[h].version
    <2>1. history' = {e \in history : e.capability \notin LocalTo(b)}
      BY <1>3 DEF CommitDiscard
    <2>2. PICK e \in history : e.version = v /\ e.capability \in LocalTo(b)
      BY <2>1 DEF Entries
    <2>3. b \in DOMAIN versions
      BY <1>3, DiscardedVersions DEF IInv
    <2>4. b # Null
      BY <2>3, DraftType DEF IInv, VersionId, Null
    <2>5. /\ e.capability \in Capabilities /\ Exists(e.capability) /\ ~OnMain(e.capability)
          /\ capability[e.capability].origin = b
      BY <2>2, <2>4 DEF LocalTo, OnMain
    <2>6. e.version = b
      BY <2>2, <2>5, TablesByCapability DEF CapabilityHistoryOK, EntriesOf
    <2> QED
      BY <1>3, <2>2, <2>6, CommitEnds
  <1>4. CASE Link(h) \/ CommitPublish(h) \/ CommitFork(h) \/ Abort(h)
    BY <1>0, <1>4 DEF Link, CommitPublish, CommitFork, Abort
  <1>5. CASE \E r : Begun(r) /\ Start(h, r)
    BY <1>0, <1>5 DEF Start
  <1> QED
    BY <1>1, <1>2, <1>3, <1>4, <1>5, BeginCases DEF IInv

\* None but a late request changes a closed version, and none starts on one
\* (ensureBranchWritable, getCurrentDraft, the check before a hard delete).
THEOREM ClosedStaysClosed == Spec => ClosedVersionsChangeOnlyLate
  <1> DEFINE Late == \A v \in DOMAIN versions : Closed(v) /\ Entries({v})' # Entries({v}) =>
                       \E h \in Handlers :
                          /\ request[h] # Idle /\ request'[h] = Idle
                          /\ request[h].op = "REMOVE" \/ request[h].version = v
             OnOpen == \A h \in Handlers : request[h] = Idle /\ request'[h] # Idle =>
                       CASE request'[h].op = "REMOVE" ->
                              \A e \in EntriesOf(request'[h].capability) : ~Closed(e.version)
                         [] request'[h].op # "REMOVE" /\ request'[h].version # Null ->
                              ~Closed(request'[h].version)
                         [] OTHER -> TRUE
  <1>1. ASSUME IInv, Next
        PROVE  Late
    BY <1>1, EntriesChange DEF Next
  <1>2. ASSUME IInv, Next
        PROVE  OnOpen
    <2> SUFFICES ASSUME NEW g \in Handlers, request[g] = Idle, request'[g] # Idle,
                        NEW r, r = request'[g]
                 PROVE  CASE r.op = "REMOVE" -> \A e \in EntriesOf(r.capability) : ~Closed(e.version)
                          [] r.op # "REMOVE" /\ r.version # Null -> ~Closed(r.version)
                          [] OTHER -> TRUE
      OBVIOUS
    <2>1. PICK h \in Handlers : Step(h)
      BY <1>2 DEF Next
    <2>2. g = h /\ Begun(r)
      BY <1>2, <2>1, RequestStep
    <2>3. Draft # Null => ~Closed(Draft)
      BY <1>2, DraftType DEF IInv, Drafts, Closed
    <2>4. r \in Request /\ r # Idle
      BY <2>2 DEF Begun
    <2>5. r.op = "REMOVE" => \A e \in EntriesOf(r.capability) : ~Closed(e.version)
      BY <2>2 DEF Begun
    <2>6. r.op # "REMOVE" /\ r.version # Null => ~Closed(r.version)
      <3>1. r.op \in ChangeTypes \cup {"REMOVE", "PUBLISH", "FORK", "DISCARD"}
        BY <2>4, RequestFields
      <3> QED
        BY <2>2, <2>3, <3>1 DEF Begun, Writable
    <2> QED
      BY <2>5, <2>6
  <1>3. IInv /\ [Next]_vars => [Late /\ OnOpen]_vars
    BY <1>1, <1>2
  <1> QED
    BY <1>3, Inductive, PTL DEF Spec, ClosedVersionsChangeOnlyLate

LEMMA OwnChange ==
    ASSUME IInv, TableCase, VersionsKept, NEW b \in DOMAIN versions, NEW c \in Capabilities,
           IsBranch(b), OwnEntries(b, c) # {}, OwnEntries(b, c)' # OwnEntries(b, c)
    PROVE  \/ capability'[c] = Gone
           \/ \E h \in Handlers : /\ request[h] # Idle /\ request'[h] = Idle
                                  /\ request[h].op \in {"UPDATE", "DELETE"}
                                  /\ request[h].version = b
  <1>0. history' # history
    BY DEF OwnEntries, Entries
  <1>1. CASE \E S \in SUBSET Capabilities : Drops(S)
    <2>1. PICK S \in SUBSET Capabilities : Drops(S)
      BY <1>1
    <2>2. c \in S
      BY <2>1 DEF Drops, OwnEntries, Entries
    <2> QED
      BY <2>1, <2>2 DEF Drops
  <1>2. ASSUME NEW h \in Handlers, CommitChange(h) \/ CommitInBranch(h)
        PROVE  \E g \in Handlers : /\ request[g] # Idle /\ request'[g] = Idle
                                   /\ request[g].op \in {"UPDATE", "DELETE"}
                                   /\ request[g].version = b
    <2>1. PICK n : /\ Extends(n) /\ n.capability = request[h].capability
                   /\ n.version = RecordedIn(request[h].version)
                   /\ request[h].op = "CREATE" => EntriesOf(n.capability) = {}
      BY <1>2, CommittedTables
    <2>2. n.version = b /\ n.capability = c
      BY <2>1 DEF Extends, OwnEntries, Entries
    <2>3. request[h].version = b
      BY <1>2, <2>1, <2>2, RecordedWhere
    <2>4. request[h].op # "CREATE"
      BY <2>1, <2>2 DEF OwnEntries, Entries, EntriesOf
    <2>5. request[h].op \in ChangeTypes
      BY <1>2, CommitRecords
    <2> QED
      BY <1>2, <2>3, <2>4, <2>5, CommitEnds DEF ChangeTypes
  <1> QED
    BY <1>0, <1>1, <1>2 DEF TableCase

\* What a branch has changed itself it keeps showing, whatever the main model and
\* other branches do (getCapabilityInBranch, discardBranch).
THEOREM BranchIsolated == Spec => BranchKeepsItsOwn
  <1> DEFINE Keeps == \A b \in DOMAIN versions, c \in Capabilities :
                        IsBranch(b) /\ OwnEntries(b, c) # {}
                          /\ Last(OwnEntries(b, c)).after # GetInBranch(b, c)' =>
                             \/ capability'[c] = Gone
                             \/ \E h \in Handlers : /\ request[h] # Idle /\ request'[h] = Idle
                                                    /\ request[h].op \in {"UPDATE", "DELETE"}
                                                    /\ request[h].version = b
  <1>1. ASSUME IInv, Next
        PROVE  Keeps
    <2>1. TableCase /\ VersionsKept
      BY <1>1, TableCases
    <2> SUFFICES ASSUME NEW b \in DOMAIN versions, NEW c \in Capabilities, IsBranch(b),
                        OwnEntries(b, c) # {}, Last(OwnEntries(b, c)).after # GetInBranch(b, c)'
                 PROVE  \/ capability'[c] = Gone
                        \/ \E h \in Handlers : /\ request[h] # Idle /\ request'[h] = Idle
                                               /\ request[h].op \in {"UPDATE", "DELETE"}
                                               /\ request[h].version = b
      OBVIOUS
    <2>2. OwnEntries(b, c)' # OwnEntries(b, c)
      BY DEF GetInBranch
    <2> QED
      BY <1>1, <2>1, <2>2, OwnChange
  <1>2. IInv /\ [Next]_vars => [Keeps]_vars
    BY <1>1
  <1> QED
    BY <1>2, Inductive, PTL DEF Spec, BranchKeepsItsOwn

-----------------------------------------------------------------------------
(* The main model as a chain of versions *)

Mains == {v \in DOMAIN versions : IsMain(v)}

\* Each version of the main model but the first is based on the one before it, which
\* was published when it was opened; branches start from one of them.
MainChain ==
    /\ \A v \in Mains :
         /\ versions[v].base = Null => \A u \in Mains : v <= u
         /\ versions[v].base # Null =>
              /\ versions[v].base \in Mains
              /\ \A u \in Mains : u <= versions[v].base \/ v <= u
              /\ versions[versions[v].base].publishedAt = v
         /\ Closed(v) => versions[v].publishedAt \in Mains /\ versions[versions[v].publishedAt].base = v
         /\ ~Closed(v) => versions[v].publishedAt = Null /\ \A u \in Mains : u <= v
    /\ \A v \in DOMAIN versions \ Mains : versions[v].base \in Mains

\* What is recorded in the main model: capabilities begin with their creation and
\* are never recorded in an older version than before.
MainHistoryOK ==
    /\ \A e \in history : IsMain(e.version) =>
         /\ e.changeType \in {"CREATE", "UPDATE"} /\ e.after \in Contents
         /\ e.changeType = "CREATE" => \A f \in MainEntriesOf(e.capability) : e.changedAt <= f.changedAt
         /\ e.changeType = "UPDATE" => \E f \in MainEntriesOf(e.capability) :
              f.changeType = "CREATE" /\ f.changedAt < e.changedAt
    /\ \A c \in Capabilities : \A e, f \in MainEntriesOf(c) :
         e.changedAt <= f.changedAt => e.version <= f.version

MainUpdate(r) == r.op = "UPDATE" /\ ~r.branch

\* Of the updates of one capability of the main model one is under way at a time, and
\* the version it has read is not older than what is recorded of the capability.
UpdatesOK ==
    /\ \A g, h \in Handlers : MainUpdate(request[g]) /\ MainUpdate(request[h])
         /\ request[g].capability = request[h].capability => g = h
    /\ \A h \in Handlers : MainUpdate(request[h]) =>
         /\ request[h].version # Null
         /\ \A e \in MainEntriesOf(request[h].capability) : e.version <= request[h].version

ChainInv == MainChain /\ MainHistoryOK /\ UpdatesOK

-----------------------------------------------------------------------------
(* Recursion over the versions *)

LEMMA Least ==
    ASSUME NEW T, T \subseteq Nat, T # {}
    PROVE  \E n \in T : \A k \in T : n <= k
  <1>1. PICK n \in T : \A k \in T : ~(<<k, n>> \in OpToRel(<, Nat))
    BY NatLessThanWellFounded, WFMin
  <1>2. \A k \in T : ~(k < n)
    BY <1>1 DEF OpToRel
  <1> QED
    BY <1>2

\* Of entries, the first and the last exist.
LEMMA EndsExist ==
    ASSUME TypeOK, NEW E, E \subseteq history, E # {}
    PROVE  HasLast(E) /\ \E e \in E : \A f \in E : e.changedAt <= f.changedAt
  <1>1. /\ inserted \in Nat
        /\ \A e \in E : e.changedAt \in Nat /\ e.changedAt <= inserted
    BY EntriesFields
  <1>2. \E e \in E : \A f \in E : e.changedAt <= f.changedAt
    <2> DEFINE T == {e.changedAt : e \in E}
    <2>1. T \subseteq Nat /\ T # {}
      BY <1>1
    <2>2. PICK n \in T : \A k \in T : n <= k
      BY <2>1, Least
    <2> QED
      BY <2>2
  <1>3. HasLast(E)
    <2> DEFINE T == {inserted - e.changedAt : e \in E}
    <2>1. T \subseteq Nat /\ T # {}
      BY <1>1
    <2>2. PICK n \in T : \A k \in T : n <= k
      BY <2>1, Least
    <2>3. PICK e \in E : n = inserted - e.changedAt
      BY <2>2
    <2>4. \A f \in E : inserted - e.changedAt <= inserted - f.changedAt
      BY <2>2, <2>3
    <2>5. \A f \in E : f.changedAt <= e.changedAt
      BY <1>1, <2>4
    <2> QED
      BY <2>5 DEF HasLast
  <1> QED
    BY <1>2, <1>3

\* b leads from each number to a smaller one, and f is defined along it.
Downward(n, b) == b \in [1..n -> Nat] /\ \A v \in 1..n : b[v] < v
Steps(n, b, X) == [(1..n) \X X -> X]
Recursive(f, n, b, X, z, step) ==
    f \in [0..n -> X] /\ f[0] = z /\ \A v \in 1..n : f[v] = step[<<v, f[b[v]]>>]

\* A function defined along smaller numbers exists.
LEMMA RecursionExists ==
    ASSUME NEW n \in Nat, NEW b, Downward(n, b), NEW X, NEW z \in X, NEW step \in Steps(n, b, X)
    PROVE  \E f : Recursive(f, n, b, X, z, step)
  <1>0. b \in [1..n -> Nat] /\ (\A v \in 1..n : b[v] < v) /\ step \in [(1..n) \X X -> X]
    BY DEF Downward, Steps
  <1> DEFINE Upto(k) == \E f \in [0..k -> X] : f[0] = z /\ \A v \in 1..k : f[v] = step[<<v, f[b[v]]>>]
             Bad == {k \in 0..n : ~Upto(k)}
  <1>1. SUFFICES ASSUME Bad # {} PROVE FALSE
    <2>1. n \in 0..n
      OBVIOUS
    <2>2. Upto(n)
      BY <1>1, <2>1
    <2> QED
      BY <2>2 DEF Recursive
  <1>2. PICK k \in Bad : \A j \in Bad : k <= j
    <2>1. Bad \subseteq Nat
      OBVIOUS
    <2> HIDE DEF Bad
    <2> QED
      BY <1>1, <2>1, Least
  <1>3. k \in 0..n /\ ~Upto(k)
    BY <1>2
  <1>4. k # 0
    <2>1. Upto(0)
      <3> DEFINE f == [v \in 0..0 |-> z]
      <3>1. f \in [0..0 -> X] /\ f[0] = z
        OBVIOUS
      <3> HIDE DEF f
      <3>2. \A v \in 1..0 : f[v] = step[<<v, f[b[v]]>>]
        OBVIOUS
      <3> QED
        BY <3>1, <3>2
    <2> QED
      BY <1>3, <2>1
  <1>5. Upto(k - 1)
    <2>1. k - 1 \in 0..n /\ ~(k <= k - 1)
      BY <1>3, <1>4
    <2>2. k - 1 \notin Bad
      BY <1>2, <2>1
    <2> QED
      BY <2>1, <2>2
  <1>6. PICK f \in [0..(k - 1) -> X] : f[0] = z /\ \A v \in 1..(k - 1) : f[v] = step[<<v, f[b[v]]>>]
    BY <1>5
  <1>7. b[k] \in 0..(k - 1)
    BY <1>0, <1>3, <1>4
  <1>8. step[<<k, f[b[k]]>>] \in X
    BY <1>0, <1>3, <1>4, <1>6, <1>7
  <1> DEFINE g == [v \in 0..k |-> IF v = k THEN step[<<k, f[b[k]]>>] ELSE f[v]]
  <1>9. g \in [0..k -> X]
    BY <1>3, <1>4, <1>6, <1>8
  <1>10. /\ g[k] = step[<<k, f[b[k]]>>]
         /\ \A v \in 0..(k - 1) : g[v] = f[v]
    BY <1>3, <1>4
  <1> HIDE DEF g
  <1>11. g[0] = z
    BY <1>3, <1>4, <1>6, <1>10
  <1>12. ASSUME NEW v \in 1..k PROVE g[v] = step[<<v, g[b[v]]>>]
    <2>1. v \in 1..n /\ b[v] \in Nat /\ b[v] < v
      BY <1>0, <1>3
    <2>2. g[b[v]] = f[b[v]]
      BY <1>3, <1>4, <1>10, <2>1
    <2>3. CASE v = k
      BY <1>10, <2>2, <2>3
    <2>4. CASE v # k
      BY <1>3, <1>6, <1>10, <2>2, <2>4
    <2> QED
      BY <2>3, <2>4
  <1> QED
    BY <1>3, <1>9, <1>11, <1>12

\* Two functions each of whose values follow alike from one at a smaller number are equal.
Alike(f, g, n) ==
    f[0] = g[0] /\ \A v \in 1..n : \E u \in 0..(v - 1) : f[u] = g[u] => f[v] = g[v]

LEMMA RecursionUnique ==
    ASSUME NEW n \in Nat, NEW f, NEW g, Alike(f, g, n)
    PROVE  \A v \in 0..n : f[v] = g[v]
  <1> DEFINE Bad == {v \in 0..n : f[v] # g[v]}
  <1>1. SUFFICES ASSUME Bad # {} PROVE FALSE
    OBVIOUS
  <1>2. PICK v \in Bad : \A u \in Bad : v <= u
    <2>1. Bad \subseteq Nat
      OBVIOUS
    <2> HIDE DEF Bad
    <2> QED
      BY <1>1, <2>1, Least
  <1>3. v \in 1..n /\ f[v] # g[v]
    BY <1>2 DEF Alike
  <1>4. PICK u \in 0..(v - 1) : f[u] = g[u] => f[v] = g[v]
    BY <1>3 DEF Alike
  <1>5. u \in 0..n /\ ~(v <= u)
    BY <1>3
  <1>6. f[u] = g[u]
    BY <1>2, <1>5
  <1> QED
    BY <1>3, <1>4, <1>6

-----------------------------------------------------------------------------
(* The versions of the main model *)

LEMMA MainsTyped ==
    ASSUME TypeOK
    PROVE  /\ Mains \subseteq DOMAIN versions /\ Mains \subseteq Nat /\ Null \notin Mains
           /\ \A v \in DOMAIN versions : versions[v] \in ModelVersion /\ versions[v].base \in Nat
           /\ Len(versions) \in Nat /\ \A v \in Mains : v <= Len(versions)
           /\ Drafts = {v \in Mains : ~Closed(v)}
  <1>1. DOMAIN versions = 1..Len(versions) /\ Len(versions) \in Nat /\ DOMAIN versions \subseteq VersionId
    BY DraftType
  <1>2. \A v \in DOMAIN versions : versions[v] \in ModelVersion
    BY <1>1, ElementOfSeq DEF TypeOK
  <1>3. \A v \in DOMAIN versions : versions[v].base \in Nat
    BY <1>2, VersionsAssumption DEF ModelVersion, VersionId, Null
  <1> QED
    BY <1>1, <1>2, <1>3 DEF Mains, Null, Drafts, Closed

\* A draft is the newest version of the main model.
LEMMA DraftIsNewest ==
    ASSUME TypeOK, OneDraft, MainChain, Mains # {}
    PROVE  Draft \in Mains /\ ~Closed(Draft) /\ Drafts = {Draft} /\ \A v \in Mains : v <= Draft
  <1>1. Drafts # {}
    BY DEF OneDraft, Mains
  <1>2. Draft \in Drafts
    BY <1>1 DEF Draft
  <1> QED
    BY <1>2, MainsTyped DEF OneDraft, MainChain

\* Branches come and go beside the chain.
LEMMA BranchesAside ==
    ASSUME MainChain, VersionsKept, \A v \in Mains : versions'[v] = versions[v],
           \A v \in DOMAIN versions : versions'[v].base = versions[v].base,
           \A v \in DOMAIN versions' \ DOMAIN versions :
              versions'[v].branchType = "WHAT_IF" /\ versions'[v].base \in Mains
    PROVE  Mains' = Mains /\ MainChain'
  <1>1. Mains' = Mains
    BY DEF Mains, IsMain, VersionsKept
  <1>2. \A v \in Mains : Closed(v)' <=> Closed(v)
    BY DEF Closed
  <1>3. \A v \in DOMAIN versions' \ Mains : versions'[v].base \in Mains
    BY DEF MainChain
  <1>4. \A v \in Mains : v \in DOMAIN versions
    BY DEF Mains
  <1>5. ASSUME NEW v \in Mains
        PROVE  /\ versions'[v].base = Null => \A u \in Mains : v <= u
               /\ versions'[v].base # Null =>
                    /\ versions'[v].base \in Mains
                    /\ \A u \in Mains : u <= versions'[v].base \/ v <= u
                    /\ versions'[versions'[v].base].publishedAt = v
               /\ Closed(v)' => versions'[v].publishedAt \in Mains /\ versions'[versions'[v].publishedAt].base = v
               /\ ~Closed(v)' => versions'[v].publishedAt = Null /\ \A u \in Mains : u <= v
    BY <1>2, <1>4 DEF MainChain
  <1> QED
    BY <1>1, <1>3, <1>5 DEF MainChain

\* A publication closes the draft and opens the next one on it.
LEMMA PublishGrowsChain ==
    ASSUME IInv, MainChain, NEW h \in Handlers, CommitPublish(h)
    PROVE  /\ MainChain' /\ Mains' = Mains \cup {Len(versions) + 1}
           /\ request[h].version = Draft /\ Draft \in Mains /\ ~Closed(Draft)
           /\ Len(versions) + 1 \notin DOMAIN versions /\ Draft' = Len(versions) + 1
  <1> DEFINE r == request[h]
             d == r.version
             n == Len(versions) + 1
  <1>0. TypeOK /\ RequestsOK /\ OneDraft
    BY DEF IInv
  <1>1. /\ d \in DOMAIN versions /\ IsMain(d) /\ VersionsKept
        /\ DOMAIN versions' = DOMAIN versions \cup {n} /\ n \notin DOMAIN versions
        /\ \A v \in DOMAIN versions : versions'[v] = IF v = d THEN Published(v, r.label) ELSE Archived(v)
        /\ versions'[n] = NewDraft(d)
    BY <1>0, PublishedVersions
  <1>2. Drafts \subseteq {d}
    BY DEF CommitPublish
  <1>3. /\ d \in Mains /\ Draft = d /\ ~Closed(d) /\ \A v \in Mains : v <= d
    <2>1. d \in Mains
      BY <1>1 DEF Mains
    <2> QED
      BY <1>0, <1>2, <2>1, DraftIsNewest
  <1>4. /\ Mains \subseteq DOMAIN versions /\ Mains \subseteq Nat /\ Null \notin Mains
        /\ \A v \in DOMAIN versions : versions[v] \in ModelVersion /\ versions[v].base \in Nat
        /\ n \in Nat /\ \A v \in Mains : v < n /\ v # n
    BY <1>0, MainsTyped
  <1>5. /\ versions'[n].branchType = "MAIN" /\ versions'[n].base = d /\ versions'[n].publishedAt = Null
        /\ versions'[n].state = "DRAFT"
    BY <1>1 DEF NewDraft
  <1>6. Mains' = Mains \cup {n}
    BY <1>1, <1>5 DEF Mains, IsMain, VersionsKept
  <1>7. \A v \in DOMAIN versions : versions'[v].base = versions[v].base
    BY <1>1, <1>4 DEF Published, Archived, ModelVersion
  <1>8. versions'[d].publishedAt = n /\ versions'[d].state = "PUBLISHED"
    BY <1>1, <1>3, <1>4 DEF Published, ModelVersion
  <1>9. \A v \in DOMAIN versions \ {d} : versions'[v].publishedAt = versions[v].publishedAt
    BY <1>1, <1>4 DEF Archived, ModelVersion
  <1>10. \A v \in Mains : versions'[v].state # "DRAFT"
    <2>1. \A v \in Mains \ {d} : versions[v].state # "DRAFT"
      BY <1>2, <1>4 DEF Drafts, Mains
    <2>2. \A v \in Mains \ {d} : versions'[v].state # "DRAFT"
      BY <1>1, <1>4, <2>1 DEF Archived, ModelVersion
    <2> QED
      BY <1>8, <2>2
  <1>11. Draft' = n
    <2>1. Drafts' = {n}
      BY <1>1, <1>5, <1>6, <1>10 DEF Drafts, Mains, IsMain
    <2> QED
      BY <2>1 DEF Draft
  <1>12. \A v \in Mains : versions[v].base # d
    BY <1>3, <1>4 DEF MainChain
  <1>13. ASSUME NEW v \in Mains
         PROVE  /\ versions'[v].base = Null => \A u \in Mains' : v <= u
                /\ versions'[v].base # Null =>
                     /\ versions'[v].base \in Mains'
                     /\ \A u \in Mains' : u <= versions'[v].base \/ v <= u
                     /\ versions'[versions'[v].base].publishedAt = v
                /\ Closed(v)' /\ versions'[v].publishedAt \in Mains' /\ versions'[versions'[v].publishedAt].base = v
    <2>1. v < n /\ v \in DOMAIN versions /\ versions'[v].base = versions[v].base
      BY <1>4, <1>7
    <2>2. versions[v].base = Null => \A u \in Mains' : v <= u
      BY <1>4, <1>6, <2>1 DEF MainChain
    <2>3. versions[v].base # Null =>
                     /\ versions[v].base \in Mains'
                     /\ \A u \in Mains' : u <= versions[v].base \/ v <= u
                     /\ versions'[versions[v].base].publishedAt = v
      BY <1>4, <1>6, <1>9, <1>12, <2>1 DEF MainChain
    <2>4. Closed(v)'
      BY <1>10 DEF Closed
    <2>5. versions'[v].publishedAt \in Mains' /\ versions'[versions'[v].publishedAt].base = v
      <3>1. CASE v = d
        BY <1>5, <1>6, <1>8, <3>1
      <3>2. CASE v # d
        <4>1. Closed(v)
          BY <1>2, <1>0, <3>2, MainsTyped
        <4>2. versions[v].publishedAt \in Mains /\ versions[versions[v].publishedAt].base = v
          BY <4>1 DEF MainChain
        <4> QED
          BY <1>4, <1>6, <1>7, <1>9, <2>1, <3>2, <4>2
      <3> QED
        BY <3>1, <3>2
    <2> QED
      BY <2>1, <2>2, <2>3, <2>4, <2>5
  <1>14. /\ versions'[n].base # Null /\ versions'[n].base \in Mains'
         /\ \A u \in Mains' : u <= versions'[n].base \/ n <= u
         /\ versions'[versions'[n].base].publishedAt = n
         /\ versions'[n].publishedAt = Null /\ \A u \in Mains' : u <= n
    <2>2. \A u \in Mains' : (u <= d \/ n <= u) /\ u <= n
      BY <1>3, <1>4, <1>6
    <2>3. d # Null /\ d \in Mains'
      BY <1>3, <1>4, <1>6
    <2> QED
      BY <1>5, <1>8, <2>2, <2>3
  <1>15. \A v \in DOMAIN versions' \ Mains' : versions'[v].base \in Mains'
    BY <1>1, <1>6, <1>7 DEF MainChain
  <1>16. ASSUME NEW v \in Mains'
         PROVE  /\ versions'[v].base = Null => \A u \in Mains' : v <= u
                /\ versions'[v].base # Null =>
                     /\ versions'[v].base \in Mains'
                     /\ \A u \in Mains' : u <= versions'[v].base \/ v <= u
                     /\ versions'[versions'[v].base].publishedAt = v
                /\ Closed(v)' => versions'[v].publishedAt \in Mains' /\ versions'[versions'[v].publishedAt].base = v
                /\ ~Closed(v)' => versions'[v].publishedAt = Null /\ \A u \in Mains' : u <= v
    <2>1. CASE v = n
      <3>1. ~Closed(v)'
        BY <1>5, <2>1 DEF Closed
      <3> QED
        BY <1>14, <2>1, <3>1
    <2>2. CASE v \in Mains
      BY <1>13, <2>2
    <2> QED
      BY <1>6, <2>1, <2>2
  <1>17. MainChain'
    BY <1>15, <1>16 DEF MainChain
  <1> QED
    BY <1>1, <1>3, <1>6, <1>11, <1>17

LEMMA ChainOfVersionsPreserved ==
    ASSUME IInv, MainChain, [Next]_vars
    PROVE  MainChain'
  <1>0. TypeOK /\ RequestsOK /\ OneDraft
    BY DEF IInv
  <1>1. CASE UNCHANGED versions
    BY <1>1 DEF MainChain, Mains, IsMain, Closed
  <1>2. ASSUME NEW h \in Handlers, CommitChange(h)
        PROVE  MainChain'
    <2> DEFINE n == RecordedIn(request[h].version)
    <2>1. request[h].version \in DOMAIN versions \cup {Null} /\ EnsureDraft(request[h].version)
      BY <1>2, CommitRecords DEF RequestOK, CommitChange
    <2>2. CASE UNCHANGED versions
      BY <1>1, <2>2
    <2>3. CASE ~UNCHANGED versions
      <3>1. /\ Drafts = {} /\ DOMAIN versions' = DOMAIN versions \cup {n} /\ n \notin DOMAIN versions
            /\ versions'[n] = NewDraft(Null)
        BY <1>0, <2>1, <2>3, DraftEnsured
      <3>2. Mains = {}
        BY <1>0, <3>1 DEF OneDraft, Mains
      <3>3. DOMAIN versions = {}
        BY <3>2 DEF MainChain
      <3>4. DOMAIN versions' = {n} /\ versions'[n].branchType = "MAIN" /\ versions'[n].base = Null
            /\ versions'[n].publishedAt = Null /\ versions'[n].state = "DRAFT"
        BY <3>1, <3>3 DEF NewDraft
      <3>5. Mains' = {n}
        BY <3>4 DEF Mains, IsMain
      <3>6. n \in Nat
        BY <1>2, CommitRecords DEF VersionId
      <3> QED
        BY <3>4, <3>5, <3>6 DEF MainChain, Closed
    <2> QED
      BY <2>2, <2>3
  <1>3. ASSUME NEW h \in Handlers, CommitFork(h)
        PROVE  MainChain'
    <2>1. /\ VersionsKept /\ DOMAIN versions' = DOMAIN versions \cup {Len(versions) + 1}
          /\ Len(versions) + 1 \notin DOMAIN versions
          /\ \A v \in DOMAIN versions : versions'[v] = versions[v]
          /\ versions'[Len(versions) + 1].branchType = "WHAT_IF"
      BY <1>0, <1>3, ForkedVersions
    <2>2. request[h].version \in Mains /\ versions'[Len(versions) + 1].base = request[h].version
      <3>1. request[h].op = "FORK" /\ request[h] # Idle
        BY <1>3 DEF CommitFork, Idle
      <3>2. versions' = Append(versions,
                     [state |-> "DRAFT", branchType |-> "WHAT_IF", label |-> request[h].name,
                      base |-> request[h].version, publishedAt |-> Null])
        BY <1>3 DEF CommitFork
      <3>3. versions'[Len(versions) + 1].base = request[h].version
        BY <1>0, <3>2, AppendProperties DEF TypeOK
      <3> QED
        BY <1>0, <3>1, <3>3 DEF RequestsOK, RequestOK, Mains
    <2> QED
      BY <2>1, <2>2, BranchesAside DEF Mains
  <1>4. ASSUME NEW h \in Handlers, CommitDiscard(h)
        PROVE  MainChain'
    <2>1. /\ IsBranch(request[h].version) /\ VersionsKept /\ DOMAIN versions' = DOMAIN versions
          /\ \A v \in DOMAIN versions : v # request[h].version => versions'[v] = versions[v]
      BY <1>0, <1>4, DiscardedVersions
    <2>2. \A v \in DOMAIN versions : versions'[v].base = versions[v].base
      BY <1>4, <1>0, MainsTyped DEF CommitDiscard, ModelVersion
    <2> QED
      BY <2>1, <2>2, BranchesAside DEF Mains, IsMain, IsBranch
  <1>5. ASSUME NEW h \in Handlers, Step(h)
        PROVE  MainChain'
    <2>1. CASE Link(h) \/ CommitRemove(h) \/ CommitInBranch(h) \/ Abort(h)
      BY <1>1, <2>1 DEF Link, CommitRemove, CommitInBranch, Abort
    <2>2. CASE \E r : Begun(r) /\ Start(h, r)
      BY <1>1, <2>2 DEF Start
    <2> QED
      BY <1>0, <1>2, <1>3, <1>4, <1>5, <2>1, <2>2, BeginCases, PublishGrowsChain
  <1> QED
    BY <1>1, <1>5 DEF Next, vars

LEMMA MainEntriesTyped ==
    ASSUME TypeOK, NEW c \in Capabilities, NEW e \in MainEntriesOf(c)
    PROVE  /\ e \in history /\ e.capability = c /\ e.version \in Mains /\ IsMain(e.version)
           /\ e.changedAt \in Nat /\ e.version \in Nat
  BY EntriesFields, MainsTyped DEF MainEntriesOf, EntriesOf, Mains

\* An entry of the main model in a history that has only lost other capabilities.
LEMMA MainHistoryShrinks ==
    ASSUME IInv, MainHistoryOK, VersionsKept, history' \subseteq history,
           \A e \in history' : MainEntriesOf(e.capability)' = MainEntriesOf(e.capability),
           \A c \in Capabilities : MainEntriesOf(c)' \in {{}, MainEntriesOf(c)}
    PROVE  MainHistoryOK'
  <1>0. TypeOK
    BY DEF IInv
  <1>1. ASSUME NEW e \in history', versions'[e.version].branchType = "MAIN"
        PROVE  /\ e.changeType \in {"CREATE", "UPDATE"} /\ e.after \in Contents
               /\ e.changeType = "CREATE" => \A f \in MainEntriesOf(e.capability)' : e.changedAt <= f.changedAt
               /\ e.changeType = "UPDATE" => \E f \in MainEntriesOf(e.capability)' :
                    f.changeType = "CREATE" /\ f.changedAt < e.changedAt
    <2>1. e \in history /\ IsMain(e.version)
      BY <1>0, <1>1, EntriesFields DEF VersionsKept, IsMain
    <2> QED
      BY <2>1 DEF MainHistoryOK
  <1>2. \A c \in Capabilities : \A e, f \in MainEntriesOf(c)' : e.changedAt <= f.changedAt => e.version <= f.version
    BY DEF MainHistoryOK
  <1> QED
    BY <1>1, <1>2 DEF MainHistoryOK, IsMain

\* The entry that a commit adds to the main model.
LEMMA MainRecorded ==
    ASSUME IInv, ChainInv, VersionsKept, NEW h \in Handlers, CommitChange(h),
           NEW n, Extends(n), n.capability = request[h].capability, n.after = request[h].after,
           n.version = RecordedIn(request[h].version), n.changeType = request[h].op,
           n.changedAt = inserted + 1
    PROVE  /\ n.changeType \in {"CREATE", "UPDATE"} /\ n.after \in Contents
           /\ versions'[n.version].branchType = "MAIN"
           /\ n.changeType = "CREATE" => MainEntriesOf(n.capability) = {}
           /\ n.changeType = "UPDATE" => \E f \in MainEntriesOf(n.capability) : f.changeType = "CREATE"
           /\ \A f \in MainEntriesOf(n.capability) : f.version <= n.version
  <1> DEFINE r == request[h]
             c == r.capability
  <1>0. TypeOK /\ TableMatchesHistory /\ MainHistoryOK /\ UpdatesOK /\ HistoryOK
    BY DEF IInv, ChainInv
  <1>1. /\ r.op \in {"CREATE", "UPDATE"} /\ ~r.branch
        /\ r.op = "CREATE" => capability[c] = NoRow
    BY DEF CommitChange
  <1>2. c \in Capabilities /\ RequestOK(r) /\ versions'[n.version].branchType = "MAIN"
    BY <1>1, CommitRecords
  <1>3. n.after \in Contents
    BY <1>1, CommitTables
  <1>4. r.op = "CREATE" => MainEntriesOf(c) = {}
    BY <1>0, <1>1, <1>2 DEF HistoryOK, MainEntriesOf
  <1>5. CASE r.op = "UPDATE"
    <2>1. OnMain(c)
      BY <1>1, <1>2, <1>5 DEF RequestOK, ChangeTypes
    <2>2. MainEntriesOf(c) # {}
      BY <1>0, <1>2, <2>1 DEF TableMatchesHistory, MainEntriesOf
    <2>3. PICK e \in MainEntriesOf(c) : TRUE
      BY <2>2
    <2>4. \E f \in MainEntriesOf(c) : f.changeType = "CREATE"
      BY <1>0, <1>2, <2>3, MainEntriesTyped DEF MainHistoryOK
    <2>5. MainUpdate(r)
      BY <1>1, <1>5 DEF MainUpdate
    <2>6. r.version # Null /\ \A f \in MainEntriesOf(c) : f.version <= r.version
      BY <1>0, <2>5 DEF UpdatesOK
    <2>7. n.version = r.version
      BY <2>6 DEF RecordedIn
    <2> QED
      BY <1>1, <1>2, <1>3, <1>5, <2>4, <2>6, <2>7
  <1>6. CASE r.op = "CREATE"
    BY <1>1, <1>2, <1>3, <1>4, <1>6
  <1> QED
    BY <1>1, <1>5, <1>6

LEMMA MainHistoryPreserved ==
    ASSUME IInv, ChainInv, TableCase, VersionsKept
    PROVE  MainHistoryOK'
  <1>0. TypeOK /\ MainHistoryOK
    BY DEF IInv, ChainInv
  <1>00. \A e \in history : e.capability \in Capabilities
    BY <1>0, EntriesFields
  <1>1. CASE UNCHANGED <<capability, history, inserted>>
    BY <1>0, <1>00, <1>1, UnchangedEntries, MainHistoryShrinks
  <1>2. CASE \E S \in SUBSET Capabilities : Drops(S)
    <2>1. PICK S \in SUBSET Capabilities : Drops(S)
      BY <1>2
    <2>2. \A e \in history' : e \in history /\ e.capability \notin S
      BY <2>1 DEF Drops
    <2>3. \A c \in Capabilities : MainEntriesOf(c)' = IF c \in S THEN {} ELSE MainEntriesOf(c)
      BY <2>1, DroppedEntries
    <2> QED
      BY <1>0, <1>00, <2>2, <2>3, MainHistoryShrinks
  <1>3. ASSUME NEW h \in Handlers, CommitChange(h) \/ CommitInBranch(h)
        PROVE  MainHistoryOK'
    <2> DEFINE r == request[h]
    <2>1. PICK n : /\ Extends(n) /\ n.capability = r.capability /\ n.after = r.after
                   /\ n.version = RecordedIn(r.version) /\ n \notin history
                   /\ n.changedAt = inserted + 1
      BY <1>3, Recorded
    <2>2. n.changeType = r.op
      <3>1. history' = history \cup {Entry(r.capability, RecordedIn(r.version), r.op, r.after, r.previous)}
        BY <1>3, CommitRecords DEF Records
      <3>2. n = Entry(r.capability, RecordedIn(r.version), r.op, r.after, r.previous)
        BY <2>1, <3>1 DEF Extends
      <3> QED
        BY <3>2 DEF Entry
    <2>3. /\ \A c \in Capabilities : MainEntriesOf(c)' =
               IF c = n.capability /\ versions'[n.version].branchType = "MAIN"
               THEN MainEntriesOf(c) \cup {n} ELSE MainEntriesOf(c)
          /\ \A f \in history : f.changedAt < n.changedAt
          /\ n.capability \in Capabilities /\ history' = history \cup {n}
      BY <2>1, ExtendedEntries DEF Extends
    <2>4. \A e \in history : versions'[e.version].branchType = versions[e.version].branchType
      BY <1>0, EntriesFields DEF VersionsKept
    <2>5. n.changedAt \in Nat
      BY <1>0, <2>1, VersionsAssumption DEF TypeOK
    <2>6. CASE CommitInBranch(h)
      <3>1. versions'[n.version].branchType # "MAIN"
        <4>1. r.branch /\ IsBranch(n.version) /\ r.version \in DOMAIN versions /\ r.version # Null
          BY <2>1, <2>6, CommitRecords
        <4>2. n.version \in DOMAIN versions
          BY <2>1, <4>1 DEF RecordedIn
        <4> QED
          BY <4>1, <4>2 DEF VersionsKept, IsBranch
      <3>2. \A c \in Capabilities : MainEntriesOf(c)' = MainEntriesOf(c)
        BY <2>3, <3>1
      <3>3. ASSUME NEW e \in history', versions'[e.version].branchType = "MAIN"
            PROVE  /\ e.changeType \in {"CREATE", "UPDATE"} /\ e.after \in Contents
                   /\ e.changeType = "CREATE" => \A f \in MainEntriesOf(e.capability)' : e.changedAt <= f.changedAt
                   /\ e.changeType = "UPDATE" => \E f \in MainEntriesOf(e.capability)' :
                        f.changeType = "CREATE" /\ f.changedAt < e.changedAt
        <4>1. e \in history /\ IsMain(e.version)
          BY <2>3, <2>4, <3>1, <3>3 DEF IsMain
        <4> QED
          BY <1>0, <1>00, <3>2, <4>1 DEF MainHistoryOK
      <3>4. \A c \in Capabilities : \A e, f \in MainEntriesOf(c)' : e.changedAt <= f.changedAt => e.version <= f.version
        BY <1>0, <3>2 DEF MainHistoryOK
      <3> QED
        BY <3>3, <3>4 DEF MainHistoryOK, IsMain
    <2>7. CASE CommitChange(h)
      <3>1. /\ n.changeType \in {"CREATE", "UPDATE"} /\ n.after \in Contents
            /\ versions'[n.version].branchType = "MAIN"
            /\ n.changeType = "CREATE" => MainEntriesOf(n.capability) = {}
            /\ n.changeType = "UPDATE" => \E f \in MainEntriesOf(n.capability) : f.changeType = "CREATE"
            /\ \A f \in MainEntriesOf(n.capability) : f.version <= n.version
        BY <2>1, <2>2, <2>7, MainRecorded
      <3>2. \A c \in Capabilities : \A f \in MainEntriesOf(c) :
              f \in history /\ f.changedAt < n.changedAt /\ f.changedAt \in Nat /\ f.version \in Nat
        BY <1>0, <2>3, MainEntriesTyped
      <3>3. n.version \in Nat
        BY <2>1, <2>7, CommitRecords DEF VersionId
      <3>4. MainEntriesOf(n.capability)' = MainEntriesOf(n.capability) \cup {n}
        BY <2>3, <3>1
      <3>5. ASSUME NEW e \in history', versions'[e.version].branchType = "MAIN"
            PROVE  /\ e.changeType \in {"CREATE", "UPDATE"} /\ e.after \in Contents
                   /\ e.changeType = "CREATE" => \A f \in MainEntriesOf(e.capability)' : e.changedAt <= f.changedAt
                   /\ e.changeType = "UPDATE" => \E f \in MainEntriesOf(e.capability)' :
                        f.changeType = "CREATE" /\ f.changedAt < e.changedAt
        <4>1. CASE e = n
          BY <2>5, <3>1, <3>2, <3>4, <2>3, <4>1
        <4>2. CASE e # n
          <5>1. e \in history /\ IsMain(e.version) /\ e.capability \in Capabilities
            BY <1>00, <2>3, <2>4, <3>5, <4>2 DEF IsMain
          <5>2. MainEntriesOf(e.capability) \subseteq MainEntriesOf(e.capability)'
            BY <2>3, <5>1
          <5>3. \A f \in MainEntriesOf(e.capability)' : f \in MainEntriesOf(e.capability) \/ f = n
            BY <2>3, <5>1
          <5>4. e.changedAt \in Nat /\ e.changedAt < n.changedAt
            BY <1>0, <2>3, <5>1, EntriesFields
          <5> QED
            BY <1>0, <2>5, <5>1, <5>2, <5>3, <5>4 DEF MainHistoryOK
        <4> QED
          BY <4>1, <4>2
      <3>6. ASSUME NEW c \in Capabilities, NEW e \in MainEntriesOf(c)', NEW f \in MainEntriesOf(c)',
                   e.changedAt <= f.changedAt
            PROVE  e.version <= f.version
        <4>1. CASE e \in MainEntriesOf(c) /\ f \in MainEntriesOf(c)
          BY <1>0, <3>6, <4>1 DEF MainHistoryOK
        <4>2. CASE f = n /\ c = n.capability
          BY <2>3, <3>1, <3>3, <3>6, <4>2
        <4>3. CASE e = n /\ f \in MainEntriesOf(c)
          BY <2>5, <3>2, <3>6, <4>3
        <4> QED
          BY <2>3, <3>6, <4>1, <4>2, <4>3
      <3> QED
        BY <3>5, <3>6 DEF MainHistoryOK, IsMain
    <2> QED
      BY <1>3, <2>6, <2>7
  <1> QED
    BY <1>1, <1>2, <1>3 DEF TableCase

\* While an update of a capability of the main model is under way, nothing else is
\* recorded of the capability in the main model.
LEMMA NothingMeanwhile ==
    ASSUME IInv, ChainInv, [Next]_vars, NEW g \in Handlers, MainUpdate(request[g]),
           request'[g] # Idle, NEW c, c = request[g].capability
    PROVE  c \in Capabilities /\ MainEntriesOf(c)' \subseteq MainEntriesOf(c)
  <1>0. TypeOK /\ UpdatesOK /\ RequestsOK
    BY DEF IInv, ChainInv
  <1>1. TableCase /\ VersionsKept
    BY TableCases
  <1>2. /\ c \in Capabilities /\ OnMain(c)
    <2>1. request[g] \in Request /\ request[g] # Idle /\ request[g].op = "UPDATE"
      BY <1>0 DEF TypeOK, MainUpdate, Idle
    <2> QED
      BY <1>0, <2>1, RequestFields DEF RequestsOK, RequestOK, MainUpdate, ChangeTypes
  <1>3. CASE UNCHANGED <<capability, history, inserted>>
    BY <1>1, <1>2, <1>3, UnchangedEntries
  <1>4. CASE \E S \in SUBSET Capabilities : Drops(S)
    BY <1>1, <1>2, <1>4, DroppedEntries
  <1>5. ASSUME NEW h \in Handlers, CommitChange(h) \/ CommitInBranch(h)
        PROVE  MainEntriesOf(c)' \subseteq MainEntriesOf(c)
    <2> DEFINE r == request[h]
    <2>1. PICK n : /\ Extends(n) /\ n.capability = r.capability
                   /\ n.version = RecordedIn(r.version)
      BY <1>5, Recorded
    <2>2. MainEntriesOf(c)' =
             IF c = n.capability /\ versions'[n.version].branchType = "MAIN"
             THEN MainEntriesOf(c) \cup {n} ELSE MainEntriesOf(c)
      BY <1>1, <1>2, <2>1, ExtendedEntries
    <2>3. SUFFICES ASSUME c = r.capability, versions'[n.version].branchType = "MAIN"
                   PROVE  FALSE
      BY <2>1, <2>2
    <2>4. ~r.branch
      <3>1. ASSUME r.branch PROVE FALSE
        <4>1. IsBranch(n.version) /\ r.version \in DOMAIN versions /\ r.version # Null
          BY <1>5, <2>1, <3>1, CommitRecords
        <4>2. n.version \in DOMAIN versions
          BY <2>1, <4>1 DEF RecordedIn
        <4> QED
          BY <1>1, <2>3, <4>1, <4>2 DEF VersionsKept, IsBranch
      <3> QED
        BY <3>1
    <2>5. CommitChange(h)
      BY <1>5, <2>4 DEF CommitInBranch
    <2>6. r.op = "UPDATE"
      BY <1>2, <2>3, <2>5 DEF CommitChange, OnMain, Exists
    <2>7. MainUpdate(r)
      BY <2>4, <2>6 DEF MainUpdate
    <2>8. g = h
      BY <1>0, <2>3, <2>7 DEF UpdatesOK
    <2>9. request'[h] = Idle
      BY <1>5, CommitEnds
    <2> QED
      BY <2>8, <2>9
  <1> QED
    BY <1>1, <1>2, <1>3, <1>4, <1>5 DEF TableCase

LEMMA UpdatesPreserved ==
    ASSUME IInv, ChainInv, [Next]_vars
    PROVE  UpdatesOK'
  <1>0. TypeOK /\ UpdatesOK /\ RequestsOK /\ OneDraft /\ MainChain /\ TableMatchesHistory
    BY DEF IInv, ChainInv
  <1>1. CASE UNCHANGED vars
    BY <1>0, <1>1 DEF vars, UpdatesOK, MainUpdate, MainEntriesOf, EntriesOf, IsMain
  <1>2. ASSUME NEW h \in Handlers, Step(h)
        PROVE  UpdatesOK'
    <2>1. /\ \A g \in Handlers : g # h => request'[g] = request[g]
          /\ \/ request'[h] = Idle
             \/ request[h] = Idle /\ Begun(request'[h]) /\ Quiet
             \/ /\ Link(h) /\ request[h] # Idle /\ request'[h] # Idle
                /\ request'[h].op = request[h].op
                /\ request'[h].capability = request[h].capability
                /\ request'[h].version = request[h].version
                /\ request'[h].branch = request[h].branch
      BY <1>0, <1>2, RequestStep
    <2>2. ~MainUpdate(Idle)
      BY DEF MainUpdate, Idle
    <2>3. \A g \in Handlers :
            MainUpdate(request'[g]) /\ ~(request[g] = Idle /\ Begun(request'[g]) /\ Quiet) =>
            /\ MainUpdate(request[g]) /\ request'[g] # Idle
            /\ request'[g].capability = request[g].capability /\ request'[g].version = request[g].version
      BY <2>1, <2>2 DEF MainUpdate
    <2>4. ASSUME NEW g \in Handlers, NEW r, r = request'[g], MainUpdate(r), request[g] = Idle, Begun(r), Quiet
          PROVE  /\ \A k \in Handlers : MainUpdate(request[k]) => request[k].capability # r.capability
                 /\ r.version # Null
                 /\ \A e \in MainEntriesOf(r.capability)' : e.version <= r.version
      <3> DEFINE c == r.capability
      <3>1. /\ r \in Request /\ r # Idle /\ r.op = "UPDATE" /\ ~r.branch
            /\ OnMain(c) /\ ~Locked(c) /\ r.version = Draft
        BY <2>4 DEF Begun, MainUpdate, ChangeTypes
      <3>2. c \in Capabilities
        BY <3>1, RequestFields DEF ChangeTypes
      <3>3. \A k \in Handlers : MainUpdate(request[k]) => request[k].capability # c
        BY <3>1 DEF Locked, MainUpdate
      <3>4. MainEntriesOf(c) # {}
        BY <1>0, <3>1, <3>2 DEF TableMatchesHistory, MainEntriesOf
      <3>5. Mains # {} /\ \A e \in MainEntriesOf(c) : e.version \in Mains
        BY <1>0, <3>2, <3>4, MainEntriesTyped
      <3>6. Draft \in Mains /\ \A v \in Mains : v <= Draft
        BY <1>0, <3>5, DraftIsNewest
      <3>7. MainEntriesOf(c)' = MainEntriesOf(c)
        BY <2>4, <3>2 DEF Quiet, MainEntriesOf, EntriesOf, IsMain
      <3>8. Draft # Null
        BY <1>0, <3>6, MainsTyped
      <3> QED
        BY <3>1, <3>3, <3>5, <3>6, <3>7, <3>8
    <2>5. ASSUME NEW g \in Handlers, NEW r, r = request'[g], MainUpdate(r)
          PROVE  r.version # Null /\ \A e \in MainEntriesOf(r.capability)' : e.version <= r.version
      <3>1. CASE request[g] = Idle /\ Begun(r) /\ Quiet
        BY <2>4, <2>5, <3>1
      <3>2. CASE ~(request[g] = Idle /\ Begun(r) /\ Quiet)
        <4>1. /\ MainUpdate(request[g]) /\ request'[g] # Idle
              /\ r.capability = request[g].capability /\ r.version = request[g].version
          BY <2>3, <2>5, <3>2
        <4>2. MainEntriesOf(r.capability)' \subseteq MainEntriesOf(r.capability)
          BY <4>1, NothingMeanwhile
        <4>3. request[g].version # Null /\ \A e \in MainEntriesOf(r.capability) : e.version <= request[g].version
          BY <1>0, <4>1 DEF UpdatesOK
        <4> QED
          BY <4>1, <4>2, <4>3
      <3> QED
        BY <3>1, <3>2
    <2>6. ASSUME NEW f \in Handlers, NEW g \in Handlers, MainUpdate(request'[f]), MainUpdate(request'[g]),
                 request'[f].capability = request'[g].capability
          PROVE  f = g
      <3>1. CASE f # h /\ g # h
        BY <1>0, <2>1, <2>6, <3>1 DEF UpdatesOK
      <3>2. CASE ~(request[h] = Idle /\ Begun(request'[h]) /\ Quiet)
        <4>1. \A k \in Handlers : MainUpdate(request'[k]) =>
                MainUpdate(request[k]) /\ request'[k].capability = request[k].capability
          BY <2>1, <2>3, <3>2
        <4> QED
          BY <1>0, <2>6, <4>1 DEF UpdatesOK
      <3>3. CASE request[h] = Idle /\ Begun(request'[h]) /\ Quiet /\ (f = h \/ g = h)
        <4>1. \A k \in Handlers : MainUpdate(request[k]) => request[k].capability # request'[h].capability
          BY <2>4, <2>6, <3>3
        <4>2. \A k \in Handlers : k # h /\ MainUpdate(request'[k]) => request'[k].capability # request'[h].capability
          BY <2>1, <4>1
        <4> QED
          BY <2>6, <3>3, <4>2
      <3> QED
        BY <3>1, <3>2, <3>3
    <2>7. ASSUME NEW g \in Handlers, MainUpdate(request'[g])
          PROVE  /\ request'[g].version # Null
                 /\ \A e \in history' : e.capability = request'[g].capability /\ versions'[e.version].branchType = "MAIN"
                       => e.version <= request'[g].version
      <3>1. PICK r : r = request'[g]
        OBVIOUS
      <3>2. r.version # Null /\ \A e \in MainEntriesOf(r.capability)' : e.version <= r.version
        BY <2>5, <2>7, <3>1
      <3> QED
        BY <3>1, <3>2 DEF MainEntriesOf, EntriesOf, IsMain
    <2>8. \A g \in Handlers : MainUpdate(request[g])' <=> MainUpdate(request'[g])
      BY DEF MainUpdate
    <2> QED
      BY <2>6, <2>7, <2>8 DEF UpdatesOK, MainEntriesOf, EntriesOf, IsMain
  <1> QED
    BY <1>1, <1>2 DEF Next

LEMMA ChainInit == Init => ChainInv
  <1> SUFFICES ASSUME Init PROVE ChainInv
    OBVIOUS
  <1>1. versions = << >> /\ history = {} /\ \A h \in Handlers : request[h] = Idle
    BY DEF Init
  <1>2. DOMAIN versions = {}
    BY <1>1
  <1>3. MainChain
    BY <1>2 DEF MainChain, Mains
  <1>4. MainHistoryOK
    BY <1>1 DEF MainHistoryOK, MainEntriesOf, EntriesOf
  <1>5. UpdatesOK
    BY <1>1 DEF UpdatesOK, MainUpdate, Idle
  <1> QED
    BY <1>3, <1>4, <1>5 DEF ChainInv

LEMMA ChainInvPreserved == IInv /\ ChainInv /\ [Next]_vars => ChainInv'
  <1> SUFFICES ASSUME IInv, ChainInv, [Next]_vars PROVE ChainInv'
    OBVIOUS
  <1>1. TableCase /\ VersionsKept
    BY TableCases
  <1>2. MainChain'
    BY ChainOfVersionsPreserved DEF ChainInv
  <1> QED
    BY <1>1, <1>2, MainHistoryPreserved, UpdatesPreserved DEF ChainInv

LEMMA ChainInductive == Spec => [](IInv /\ ChainInv)
  BY ChainInit, InitIInv, IInvPreserved, ChainInvPreserved, PTL DEF Spec

-----------------------------------------------------------------------------
(* The comparison of two versions *)

\* The function that getVersionLineageRange walks along.
Back(from) ==
    CHOOSE back : back = [v \in 0..Len(versions) |->
          CASE v = Null               -> {}
            [] v # Null /\ v = from   -> {v}
            [] OTHER                  -> {v} \cup back[versions[v].base]]

LEMMA LineageIsBack == \A from, to : Lineage(from, to) = Back(from)[to]
  BY DEF Lineage, Back

\* Of the main model, the walk collects the versions from the one to the other.
MainsBetween(from, to) == {u \in Mains : from <= u /\ u <= to}

Walk(from, v) ==
    IF v = Null THEN {}
    ELSE IF v \in Mains /\ from <= v THEN MainsBetween(from, v)
    ELSE MainsBetween(Null, v)

LEMMA WalkAlongChain ==
    ASSUME TypeOK, MainChain, NEW from \in Mains \cup {Null}, NEW v \in Mains
    PROVE  Walk(from, v) = IF v = from THEN {v} ELSE {v} \cup Walk(from, versions[v].base)
  <1>1. /\ Mains \subseteq Nat /\ Null \notin Mains /\ Null = 0
        /\ versions[v].base \in Nat /\ versions[v].base < v
    BY MainsTyped DEF TypeOK, Null
  <1>2. /\ versions[v].base = Null => \A u \in Mains : v <= u
        /\ versions[v].base # Null =>
             versions[v].base \in Mains /\ \A u \in Mains : u <= versions[v].base \/ v <= u
    BY DEF MainChain
  <1>3. from \in Nat /\ v \in Nat /\ v # Null
    BY <1>1
  <1>n. \A u \in Mains : u \in Nat
    BY <1>1
  <1>4. CASE v = from
    <2>1. \A u \in Mains : v <= u /\ u <= v <=> u = v
      BY <1>3, <1>n
    <2>2. MainsBetween(v, v) = {v}
      BY <2>1 DEF MainsBetween
    <2>3. v <= v
      BY <1>3
    <2> QED
      BY <1>3, <1>4, <2>2, <2>3 DEF Walk
  <1>5. CASE v # from /\ versions[v].base = Null
    <2>1. from = Null \/ v < from
      BY <1>1, <1>2, <1>3, <1>5
    <2>a. \A u \in Mains : Null <= u /\ u <= v <=> u = v
      BY <1>1, <1>2, <1>3, <1>5, <1>n
    <2>2. MainsBetween(Null, v) = {v}
      BY <2>a DEF MainsBetween
    <2>3. Walk(from, v) = {v}
      BY <1>1, <1>3, <2>1, <2>2 DEF Walk
    <2>4. Walk(from, versions[v].base) = {}
      BY <1>5 DEF Walk
    <2> QED
      BY <1>5, <2>3, <2>4
  <1>6. CASE v # from /\ versions[v].base # Null
    <2> DEFINE w == versions[v].base
    <2>1. w \in Mains /\ w < v /\ \A u \in Mains : u <= w \/ v <= u
      BY <1>1, <1>2, <1>6
    <2> HIDE DEF w
    <2>2. CASE from <= v
      <3>1. from <= w
        BY <1>1, <1>6, <2>1, <2>2
      <3>a. \A u \in Mains : from <= u /\ u <= v <=> u = v \/ (from <= u /\ u <= w)
        BY <1>3, <1>n, <2>1, <2>2
      <3>2. MainsBetween(from, v) = {v} \cup MainsBetween(from, w)
        BY <3>a DEF MainsBetween
      <3>3. Walk(from, v) = MainsBetween(from, v) /\ Walk(from, w) = MainsBetween(from, w)
        BY <1>1, <2>1, <2>2, <3>1 DEF Walk
      <3>4. Walk(from, v) = {v} \cup Walk(from, w)
        BY <3>2, <3>3
      <3> QED
        BY <1>6, <3>4 DEF w
    <2>3. CASE ~(from <= v)
      <3>1. ~(from <= w)
        BY <1>1, <1>3, <2>1, <2>3
      <3>a. \A u \in Mains : Null <= u /\ u <= v <=> u = v \/ (Null <= u /\ u <= w)
        BY <1>1, <1>3, <1>n, <2>1
      <3>2. MainsBetween(Null, v) = {v} \cup MainsBetween(Null, w)
        BY <3>a DEF MainsBetween
      <3>3. Walk(from, v) = MainsBetween(Null, v) /\ Walk(from, w) = MainsBetween(Null, w)
        BY <1>1, <2>1, <2>3, <3>1 DEF Walk
      <3>4. Walk(from, v) = {v} \cup Walk(from, w)
        BY <3>2, <3>3
      <3> QED
        BY <1>6, <3>4 DEF w
    <2> QED
      BY <2>2, <2>3
  <1> QED
    BY <1>4, <1>5, <1>6

\* A branch is one step away from the main model.
LEMMA BackWalks ==
    ASSUME TypeOK, MainChain, NEW from \in Mains \cup {Null}
    PROVE  \A v \in 0..Len(versions) :
             Back(from)[v] = IF v \in Mains \cup {Null} THEN Walk(from, v)
                             ELSE {v} \cup Walk(from, versions[v].base)
  <1> DEFINE n == Len(versions)
             Eq(f) == f = [v \in 0..n |->
                CASE v = Null               -> {}
                  [] v # Null /\ v = from   -> {v}
                  [] OTHER                  -> {v} \cup f[versions[v].base]]
             g == [v \in 0..n |-> IF v \in Mains \cup {Null} THEN Walk(from, v)
                                  ELSE {v} \cup Walk(from, versions[v].base)]
  <1>1. /\ n \in Nat /\ DOMAIN versions = 1..n /\ Null = 0
        /\ Mains \subseteq 1..n
        /\ \A v \in 1..n : versions[v].base \in Nat /\ versions[v].base < v
    BY MainsTyped, DraftType DEF TypeOK, Null
  <1>2. \A v \in (1..n) \ Mains : versions[v].base \in Mains
    BY <1>1 DEF MainChain
  <1>3. \A v \in Mains : Walk(from, v) = IF v = from THEN {v} ELSE {v} \cup Walk(from, versions[v].base)
    BY WalkAlongChain
  <1>4. Walk(from, Null) = {}
    BY DEF Walk
  <1>5. \A v \in Mains : versions[v].base \in Mains \cup {Null}
    BY DEF MainChain
  <1>6. \A v \in 0..n : g[v] = IF v \in Mains \cup {Null} THEN Walk(from, v)
                                ELSE {v} \cup Walk(from, versions[v].base)
    OBVIOUS
  <1>7. g = [v \in 0..n |-> g[v]]
    OBVIOUS
  <1> HIDE DEF g
  <1>8. ASSUME NEW v \in 0..n
        PROVE  g[v] = CASE v = Null               -> {}
                        [] v # Null /\ v = from   -> {v}
                        [] OTHER                  -> {v} \cup g[versions[v].base]
    <2>1. CASE v = Null
      BY <1>1, <1>4, <1>6, <2>1
    <2>2. CASE v \in Mains
      <3>1. v # Null /\ versions[v].base \in Mains \cup {Null} /\ versions[v].base \in 0..n
        BY <1>1, <1>5, <2>2
      <3>2. g[v] = Walk(from, v) /\ g[versions[v].base] = Walk(from, versions[v].base)
        BY <1>6, <2>2, <3>1
      <3>3. g[v] = IF v = from THEN {v} ELSE {v} \cup g[versions[v].base]
        BY <1>3, <2>2, <3>2
      <3> QED
        BY <3>1, <3>3
    <2>3. CASE v # Null /\ v \notin Mains
      <3>1. v \in 1..n
        BY <1>1, <2>3
      <3>2. versions[v].base \in Mains /\ versions[v].base \in 0..n /\ v # from
        BY <1>1, <1>2, <2>3, <3>1
      <3>3. g[versions[v].base] = Walk(from, versions[v].base)
        BY <1>6, <3>2
      <3> QED
        BY <1>6, <2>3, <3>2, <3>3
    <2> QED
      BY <2>1, <2>2, <2>3
  <1>9. Eq(g)
    BY <1>7, <1>8
  <1>10. Eq(Back(from))
    BY <1>9 DEF Back
  <1> DEFINE f == Back(from)
  <1>11. \A v \in 0..n : f[v] = CASE v = Null               -> {}
                                  [] v # Null /\ v = from   -> {v}
                                  [] OTHER                  -> {v} \cup f[versions[v].base]
    BY <1>10
  <1> HIDE DEF f
  <1>z. 0 \in 0..n
    BY <1>1
  <1>12. f[0] = g[0]
    <2>1. f[0] = {}
      BY <1>1, <1>11, <1>z
    <2>2. g[0] = {}
      BY <1>1, <1>8, <1>z
    <2> QED
      BY <2>1, <2>2
  <1> HIDE DEF n
  <1>14. \A v \in 1..n : \E u \in 0..(v - 1) : f[u] = g[u] => f[v] = g[v]
    <2> SUFFICES ASSUME NEW v \in 1..n
                 PROVE  /\ versions[v].base \in 0..(v - 1)
                        /\ f[versions[v].base] = g[versions[v].base] => f[v] = g[v]
      OBVIOUS
    <2>1. v \in 0..n /\ v # Null
      BY <1>1
    <2>2. f[v] = IF v = from THEN {v} ELSE {v} \cup f[versions[v].base]
      BY <1>11, <2>1
    <2>3. g[v] = IF v = from THEN {v} ELSE {v} \cup g[versions[v].base]
      BY <1>8, <2>1
    <2>4. versions[v].base \in 0..(v - 1)
      BY <1>1
    <2>5. f[versions[v].base] = g[versions[v].base] => f[v] = g[v]
      BY <2>2, <2>3
    <2> QED
      BY <2>4, <2>5
  <1>15. \A v \in 0..n : f[v] = g[v]
    <2>1. Alike(f, g, n)
      BY <1>12, <1>14 DEF Alike
    <2>2. n \in Nat
      BY <1>1
    <2> QED
      BY <2>1, <2>2, RecursionUnique
  <1> QED
    BY <1>6, <1>15 DEF f, n

LEMMA LineageInMain ==
    ASSUME TypeOK, MainChain, NEW from \in Mains \cup {Null}, NEW to \in Mains, from <= to
    PROVE  Lineage(from, to) = MainsBetween(from, to)
  <1>1. to \in 0..Len(versions) /\ to # Null
    BY MainsTyped, DraftType
  <1> QED
    BY <1>1, BackWalks, LineageIsBack DEF Walk

LEMMA DiffRangeInMain ==
    ASSUME TypeOK, MainChain, NEW from \in Mains, NEW to \in Mains, from < to
    PROVE  DiffRange(from, to) = {u \in Mains : from < u /\ u <= to}
  <1>1. Mains \subseteq Nat
    BY MainsTyped
  <1>2. Lineage(from, to) = MainsBetween(from, to)
    BY <1>1, LineageInMain
  <1>3. from \in MainsBetween(from, to) /\ from # to
    BY <1>1 DEF MainsBetween
  <1>4. \A u \in Mains : from < u /\ u <= to <=> (from <= u /\ u <= to) /\ u # from
    BY <1>1
  <1>5. DiffRange(from, to) = MainsBetween(from, to) \ {from}
    BY <1>2, <1>3 DEF DiffRange
  <1> QED
    BY <1>4, <1>5 DEF MainsBetween

\* The state at a version is made of the versions of the main model up to it.
LEMMA UpToInMain ==
    ASSUME TypeOK, MainChain, NEW v \in Mains
    PROVE  UpTo(v) = {u \in Mains : u <= v}
  <1>1. Mains \subseteq Nat /\ Null \notin Mains /\ Null = 0 /\ Mains \subseteq DOMAIN versions
    BY MainsTyped DEF Null
  <1>2. \A u \in Mains : versions[u].base \in Nat /\ versions[u].base < u
    BY <1>1, MainsTyped DEF TypeOK
  <1>3. ASSUME NEW u \in Mains, Closed(u)
        PROVE  /\ versions[u].publishedAt \in Mains /\ u < versions[u].publishedAt
               /\ \A w \in Mains : w <= u \/ versions[u].publishedAt <= w
    <2>1. PICK p : p = versions[u].publishedAt
      OBVIOUS
    <2>2. p \in Mains /\ versions[p].base = u
      BY <1>3, <2>1 DEF MainChain
    <2>3. u # Null
      BY <1>1
    <2> QED
      BY <1>2, <2>1, <2>2, <2>3 DEF MainChain
  <1>4. \A u \in Mains : ~Closed(u) => versions[u].publishedAt = Null /\ \A w \in Mains : w <= u
    BY DEF MainChain
  <1>5. Cutoff(v) \in Nat /\ v <= Cutoff(v)
    <2>1. PICK p : p = versions[v].publishedAt
      OBVIOUS
    <2>2. p = Null \/ (p \in Mains /\ v < p)
      BY <1>3, <1>4, <2>1
    <2>3. Cutoff(v) = IF p = Null THEN v ELSE p
      BY <2>1 DEF Cutoff
    <2>4. v \in Nat /\ (p \in Mains => p \in Nat)
      BY <1>1
    <2> HIDE DEF Cutoff
    <2> QED
      BY <2>2, <2>3, <2>4
  <1>6. ASSUME NEW u \in Mains
        PROVE  versions[u].publishedAt \in 1..Cutoff(v) \/ u = v <=> u <= v
    <2>1. CASE ~Closed(u)
      <3>1. versions[u].publishedAt \notin 1..Cutoff(v) /\ v <= u
        BY <1>1, <1>4, <2>1
      <3> QED
        BY <1>1, <3>1
    <2>2. CASE Closed(u) /\ ~Closed(v)
      <3> DEFINE p == versions[u].publishedAt
      <3>1. Cutoff(v) = v /\ \A w \in Mains : w <= v
        BY <1>4, <2>2 DEF Cutoff
      <3>2. p \in Mains
        BY <1>3, <2>2
      <3> HIDE DEF p
      <3>3. p \in 1..v /\ u <= v
        BY <1>1, <3>1, <3>2
      <3> QED
        BY <3>1, <3>3 DEF p
    <2>3. CASE Closed(u) /\ Closed(v)
      <3> DEFINE p == versions[u].publishedAt
                 q == versions[v].publishedAt
      <3>1. /\ p \in Mains /\ u < p /\ \A w \in Mains : w <= u \/ p <= w
            /\ q \in Mains /\ v < q /\ \A w \in Mains : w <= v \/ q <= w
        BY <1>3, <2>3
      <3>2. Cutoff(v) = q
        BY <1>1, <3>1 DEF Cutoff
      <3> HIDE DEF p, q
      <3>3. p \in Nat /\ q \in Nat /\ p # 0 /\ u \in Nat /\ v \in Nat
        BY <1>1, <3>1
      <3>4. p \in 1..q \/ u = v <=> u <= v
        <4>1. CASE u < v
          BY <3>1, <3>3, <4>1
        <4>2. CASE v < u
          BY <3>1, <3>3, <4>2
        <4>3. CASE u = v
          BY <3>3, <4>3
        <4> QED
          BY <3>3, <4>1, <4>2, <4>3
      <3> QED
        BY <3>2, <3>4 DEF p
    <2> QED
      BY <2>1, <2>2, <2>3
  <1>7. UpTo(v) = {u \in Mains : versions[u].publishedAt \in 1..Cutoff(v) \/ u = v}
    BY <1>1 DEF UpTo, Mains
  <1> QED
    BY <1>6, <1>7

\* The entries of a capability in the versions of the main model after the one and up
\* to the other, before that, and up to the other.
RecordedUpTo(v, c) == {e \in MainEntriesOf(c) : e.version <= v}
RecordedAfter(from, to, c) == {e \in MainEntriesOf(c) : from < e.version /\ e.version <= to}

LEMMA RecordedIsRead ==
    ASSUME TypeOK, MainChain, NEW c \in Capabilities, NEW v \in Mains
    PROVE  /\ StateAt(v)[c] = IF RecordedUpTo(v, c) = {} THEN NoContent ELSE Last(RecordedUpTo(v, c)).after
           /\ \A from \in Mains : from < v => ChangesIn(from, v, c) = RecordedAfter(from, v, c)
  <1>1. \A e \in history : e.version \in DOMAIN versions
    BY DEF TypeOK
  <1>2. \A e \in history : e.version \in Mains <=> IsMain(e.version)
    BY <1>1 DEF Mains
  <1>3. {e \in Entries(UpTo(v)) : e.capability = c} = RecordedUpTo(v, c)
    <2>1. UpTo(v) = {u \in Mains : u <= v}
      BY UpToInMain
    <2> QED
      BY <1>2, <2>1 DEF Entries, RecordedUpTo, MainEntriesOf, EntriesOf
  <1>4. StateAt(v)[c] = IF RecordedUpTo(v, c) = {} THEN NoContent ELSE Last(RecordedUpTo(v, c)).after
    BY <1>3 DEF StateAt, Newest
  <1>5. ASSUME NEW from \in Mains, from < v
        PROVE  ChangesIn(from, v, c) = RecordedAfter(from, v, c)
    <2>1. DiffRange(from, v) = {u \in Mains : from < u /\ u <= v}
      BY <1>5, DiffRangeInMain
    <2> QED
      BY <1>2, <2>1 DEF Entries, ChangesIn, RecordedAfter, MainEntriesOf, EntriesOf
  <1> QED
    BY <1>4, <1>5

LEMMA ComparedRight ==
    ASSUME TypeOK, MainChain, MainHistoryOK, NEW to \in Mains, NEW from \in Mains, from < to,
           NEW c \in Capabilities
    PROVE  LET before == StateAt(from)[c]  after == StateAt(to)[c] IN
           /\ c \in Added(from, to) <=> before = NoContent /\ after # NoContent
           /\ before # NoContent /\ after # before => c \in Modified(from, to)
           /\ c \notin Removed(from, to)
  <1> DEFINE old == RecordedUpTo(from, c)
             new == RecordedAfter(from, to, c)
             all == RecordedUpTo(to, c)
             before == StateAt(from)[c]
             after == StateAt(to)[c]
  <1>1. /\ before = IF old = {} THEN NoContent ELSE Last(old).after
        /\ after = IF all = {} THEN NoContent ELSE Last(all).after
        /\ ChangesIn(from, to, c) = new
    BY RecordedIsRead
  <1>2. \A e \in MainEntriesOf(c) : /\ e \in history /\ e.capability = c /\ IsMain(e.version)
                                    /\ e.changedAt \in Nat /\ e.version \in Nat
    BY MainEntriesTyped
  <1>3. from \in Nat /\ to \in Nat
    BY MainsTyped
  <1>4. all = old \cup new /\ old \cap new = {} /\ old \subseteq MainEntriesOf(c) /\ new \subseteq MainEntriesOf(c)
    <2>1. \A e \in MainEntriesOf(c) : /\ e.version <= to <=> e.version <= from \/ (from < e.version /\ e.version <= to)
                                      /\ ~(e.version <= from /\ from < e.version)
      BY <1>2, <1>3
    <2> QED
      BY <2>1 DEF RecordedUpTo, RecordedAfter
  <1>5. \A e \in old, f \in new : e.changedAt < f.changedAt
    <2> SUFFICES ASSUME NEW e \in old, NEW f \in new, ~(e.changedAt < f.changedAt) PROVE FALSE
      OBVIOUS
    <2>1. e \in MainEntriesOf(c) /\ f \in MainEntriesOf(c) /\ e.version <= from /\ from < f.version
      BY <1>4 DEF RecordedUpTo, RecordedAfter
    <2>2. f.changedAt <= e.changedAt
      BY <1>2, <2>1
    <2>3. f.version <= e.version
      BY <2>1, <2>2 DEF MainHistoryOK
    <2> QED
      BY <1>2, <1>3, <2>1, <2>3
  <1>6. \A e \in MainEntriesOf(c) : e.changeType \in {"CREATE", "UPDATE"} /\ e.after \in Contents
    BY <1>2 DEF MainHistoryOK
  <1>7. \A E : E \subseteq MainEntriesOf(c) /\ E # {} =>
          /\ Last(E) \in E /\ \A f \in E : f.changedAt <= Last(E).changedAt
          /\ First(E) \in E /\ \A f \in E : First(E).changedAt <= f.changedAt
    <2> SUFFICES ASSUME NEW E, E \subseteq MainEntriesOf(c), E # {}
                 PROVE  /\ Last(E) \in E /\ \A f \in E : f.changedAt <= Last(E).changedAt
                        /\ First(E) \in E /\ \A f \in E : First(E).changedAt <= f.changedAt
      OBVIOUS
    <2>1. E \subseteq history
      BY <1>2
    <2>2. HasLast(E) /\ \E e \in E : \A f \in E : e.changedAt <= f.changedAt
      BY <2>1, EndsExist
    <2> QED
      BY <2>2, LastOf DEF First
  <1> HIDE DEF old, new, all, before, after
  <1>8. NoContent \notin Contents
    BY VersionsAssumption
  <1>9. c \notin Removed(from, to)
    <2>1. new # {} => Last(new).changeType # "DELETE"
      BY <1>4, <1>6, <1>7
    <2> QED
      BY <1>1, <2>1 DEF Removed
  <1>10. before = NoContent <=> old = {}
    BY <1>1, <1>4, <1>6, <1>7, <1>8
  <1>11. after = NoContent <=> all = {}
    <2>1. all \subseteq MainEntriesOf(c)
      BY <1>4
    <2> QED
      BY <1>1, <1>6, <1>7, <1>8, <2>1
  <1>12. c \in Added(from, to) <=> new # {} /\ First(new).changeType = "CREATE"
    <2>1. new # {} => Last(new).changeType # "DELETE"
      BY <1>4, <1>6, <1>7
    <2> QED
      BY <1>1, <2>1 DEF Added
  <1>13. new # {} => (First(new).changeType = "CREATE" <=> old = {})
    <2> SUFFICES ASSUME new # {} PROVE First(new).changeType = "CREATE" <=> old = {}
      OBVIOUS
    <2> DEFINE e == First(new)
    <2>1. e \in new /\ e \in MainEntriesOf(c) /\ \A f \in new : e.changedAt <= f.changedAt
      BY <1>4, <1>7
    <2> HIDE DEF e
    <2>2. ASSUME e.changeType = "CREATE", NEW f \in old PROVE FALSE
      <3>1. e.changedAt <= f.changedAt
        BY <1>2, <1>4, <2>1, <2>2 DEF MainHistoryOK
      <3>2. f.changedAt < e.changedAt
        BY <1>5, <2>1
      <3> QED
        BY <1>2, <1>4, <2>1, <3>1, <3>2
    <2>3. ASSUME e.changeType # "CREATE", old = {} PROVE FALSE
      <3>1. e.changeType = "UPDATE"
        BY <1>6, <2>1, <2>3
      <3>2. PICK f \in MainEntriesOf(c) : f.changedAt < e.changedAt
        BY <1>2, <2>1, <3>1 DEF MainHistoryOK
      <3>3. f.version <= e.version
        BY <1>2, <2>1, <3>2 DEF MainHistoryOK
      <3>4. e.version <= to
        BY <2>1 DEF new, RecordedAfter
      <3>5. f \in all
        BY <1>2, <1>3, <2>1, <3>3, <3>4 DEF all, RecordedUpTo
      <3>6. f \in new
        BY <1>4, <2>3, <3>5
      <3> QED
        BY <1>2, <2>1, <3>2, <3>6
    <2> QED
      BY <2>2, <2>3 DEF e
  <1>14. c \in Added(from, to) <=> before = NoContent /\ after # NoContent
    BY <1>4, <1>10, <1>11, <1>12, <1>13
  <1>15. before # NoContent /\ after # before => c \in Modified(from, to)
    <2> SUFFICES ASSUME before # NoContent, after # before PROVE c \in Modified(from, to)
      OBVIOUS
    <2>1. new # {}
      BY <1>1, <1>4
    <2>2. c \notin Added(from, to)
      BY <1>14
    <2> QED
      BY <1>1, <1>9, <2>1, <2>2 DEF Modified
  <1> QED
    BY <1>9, <1>14, <1>15 DEF before, after

\* The comparison of a release with a later version of the main model shows as added
\* what only the later one has, as modified at least what differs, and leaves out only
\* what is the same (getVersionLineageRange, computeDiff, buildCapabilityStateAtVersion):
\* the chain of base versions is the order of publication, and no change of a capability
\* is recorded in an older version than the one before.
THEOREM ComparisonCorrect == Spec => []DiffMatchesStates
  <1>1. ASSUME IInv, ChainInv
        PROVE  DiffMatchesStates
    <2>0. TypeOK /\ MainChain /\ MainHistoryOK
      BY <1>1 DEF IInv, ChainInv
    <2>1. SUFFICES ASSUME NEW to \in DOMAIN versions, IsMain(to), NEW from \in Lineage(Null, to) \ {to},
                          NEW c \in Capabilities
                   PROVE  LET before == StateAt(from)[c]  after == StateAt(to)[c] IN
                          /\ c \in Added(from, to) <=> before = NoContent /\ after # NoContent
                          /\ before # NoContent /\ after # before => c \in Modified(from, to)
                          /\ Removed(from, to) = {}
      BY DEF DiffMatchesStates
    <2>2. to \in Mains /\ to \in Nat /\ Null <= to
      <3>1. to \in Mains
        BY <2>1 DEF Mains
      <3> QED
        BY <2>0, <3>1, MainsTyped DEF Null
    <2>3. Lineage(Null, to) = MainsBetween(Null, to)
      BY <2>0, <2>2, LineageInMain
    <2>4. from \in Mains /\ from < to
      BY <2>0, <2>1, <2>2, <2>3, MainsTyped DEF MainsBetween
    <2>5. \A d \in Capabilities : d \notin Removed(from, to)
      BY <2>0, <2>2, <2>4, ComparedRight
    <2>6. Removed(from, to) = {}
      BY <2>5 DEF Removed
    <2> QED
      BY <2>0, <2>2, <2>4, <2>6, ComparedRight
  <1> QED
    BY <1>1, ChainInductive, PTL

-----------------------------------------------------------------------------
(* Releases form a log *)

\* The function that ReleaseChain reads at the draft.
Chain ==
    CHOOSE chain : chain = [v \in 0..Len(versions) |->
          CASE v = Null         -> << >>
            [] v \in Released   -> Append(chain[versions[v].base], versions[v].label)
            [] OTHER            -> chain[versions[v].base]]

LEMMA ReleaseChainIsChain == ReleaseChain = Chain[Draft]
  BY DEF ReleaseChain, Chain

AllLabels == Labels \cup BranchNames \cup {Unnamed}

ChainSteps ==
    /\ Chain[0] = << >>
    /\ \A v \in 1..Len(versions) :
         /\ versions[v].base \in 0..Len(versions) /\ versions[v].base < v
         /\ Chain[v] = IF v \in Released THEN Append(Chain[versions[v].base], versions[v].label)
                       ELSE Chain[versions[v].base]
    /\ \A v \in 0..Len(versions) : Chain[v] \in Seq(AllLabels)

LEMMA ChainDefined == TypeOK => ChainSteps
  <1> SUFFICES ASSUME TypeOK PROVE ChainSteps
    OBVIOUS
  <1> DEFINE n == Len(versions)
             X == Seq(AllLabels)
             b == [v \in 1..n |-> versions[v].base]
             step == [p \in (1..n) \X X |->
                        IF p[1] \in Released THEN Append(p[2], versions[p[1]].label) ELSE p[2]]
             Eq(f) == f = [v \in 0..n |->
                CASE v = Null         -> << >>
                  [] v \in Released   -> Append(f[versions[v].base], versions[v].label)
                  [] OTHER            -> f[versions[v].base]]
  <1>1. /\ n \in Nat /\ DOMAIN versions = 1..n /\ Null = 0
        /\ \A v \in 1..n : versions[v] \in ModelVersion /\ versions[v].base \in Nat /\ versions[v].base < v
    BY MainsTyped, DraftType DEF TypeOK, Null
  <1>2. \A v \in 1..n : versions[v].label \in AllLabels
    BY <1>1 DEF ModelVersion, AllLabels
  <1>3. << >> \in X /\ \A s \in X, l \in AllLabels : Append(s, l) \in X
    BY EmptySeq, AppendProperties
  <1> HIDE DEF X
  <1>4. b \in [1..n -> Nat] /\ \A v \in 1..n : b[v] = versions[v].base
    BY <1>1
  <1>5. \A v \in 1..n : b[v] < v
    BY <1>1, <1>4
  <1>6. /\ step \in [(1..n) \X X -> X]
        /\ \A v \in 1..n, s \in X : step[<<v, s>>] = IF v \in Released THEN Append(s, versions[v].label) ELSE s
    BY <1>2, <1>3
  <1> HIDE DEF b, step, n
  <1>r. PICK f : Recursive(f, n, b, X, << >>, step)
    <2>1. Downward(n, b) /\ step \in Steps(n, b, X) /\ << >> \in X /\ n \in Nat
      BY <1>1, <1>3, <1>4, <1>5, <1>6 DEF Downward, Steps
    <2> QED
      BY <2>1, RecursionExists
  <1>7. f \in [0..n -> X] /\ f[0] = << >> /\ \A v \in 1..n : f[v] = step[<<v, f[b[v]]>>]
    BY <1>r DEF Recursive
  <1>8. 0 \notin Released
    BY <1>1 DEF Released
  <1>9. ASSUME NEW v \in 0..n
        PROVE  f[v] = CASE v = Null         -> << >>
                        [] v \in Released   -> Append(f[versions[v].base], versions[v].label)
                        [] OTHER            -> f[versions[v].base]
    <2>1. CASE v = 0
      BY <1>1, <1>7, <1>8, <2>1
    <2>2. CASE v # 0
      <3>1. v \in 1..n /\ b[v] = versions[v].base
        BY <1>1, <1>4, <2>2
      <3>2. b[v] \in 0..n
        BY <1>1, <1>4, <1>5, <3>1
      <3>3. f[b[v]] \in X
        BY <1>7, <3>2
      <3>4. f[v] = IF v \in Released THEN Append(f[b[v]], versions[v].label) ELSE f[b[v]]
        BY <1>6, <1>7, <3>1, <3>3
      <3> QED
        BY <1>1, <2>2, <3>1, <3>4
    <2> QED
      BY <2>1, <2>2
  <1>10. Eq(f)
    <2>1. f = [v \in 0..n |-> f[v]]
      BY <1>7
    <2> QED
      BY <1>9, <2>1
  <1>11. Eq(Chain)
    BY <1>10 DEF Chain, n
  <1> DEFINE g == Chain
  <1>12. \A v \in 0..n : g[v] = CASE v = Null         -> << >>
                                  [] v \in Released   -> Append(g[versions[v].base], versions[v].label)
                                  [] OTHER            -> g[versions[v].base]
    BY <1>11
  <1>13. g = [v \in 0..n |-> g[v]]
    BY <1>11
  <1> HIDE DEF g
  <1>14. g[0] = << >>
    BY <1>1, <1>8, <1>12
  <1>15. ASSUME NEW v \in 1..n
         PROVE  /\ b[v] = versions[v].base /\ b[v] \in 0..n /\ b[v] < v
                /\ g[v] = IF v \in Released THEN Append(g[versions[v].base], versions[v].label)
                          ELSE g[versions[v].base]
                /\ f[v] = IF v \in Released THEN Append(f[versions[v].base], versions[v].label)
                          ELSE f[versions[v].base]
    <2>1. v \in 0..n /\ v # Null
      BY <1>1
    <2> QED
      BY <1>1, <1>4, <1>5, <1>9, <1>12, <2>1
  <1>16. \A v \in 0..n : f[v] = g[v]
    <2>1. \A v \in 1..n : b[v] \in 0..(v - 1) /\ (f[b[v]] = g[b[v]] => f[v] = g[v])
      BY <1>1, <1>15
    <2>2. Alike(f, g, n)
      BY <1>7, <1>14, <2>1 DEF Alike
    <2> QED
      BY <1>1, <2>2, RecursionUnique
  <1>17. \A v \in 0..n : g[v] \in X
    BY <1>7, <1>16
  <1> QED
    BY <1>14, <1>15, <1>17 DEF ChainSteps, g, n, X

\* The labels along the chain are those of releases.
LEMMA ChainLabels ==
    ASSUME TypeOK
    PROVE  \A v \in 0..Len(versions) : \A i \in DOMAIN Chain[v] :
             \E u \in Released : Chain[v][i] = versions[u].label
  <1> DEFINE n == Len(versions)
             Good(v) == \A i \in DOMAIN Chain[v] : \E u \in Released : Chain[v][i] = versions[u].label
             Bad == {v \in 0..n : ~Good(v)}
  <1>1. ChainSteps /\ n \in Nat
    BY ChainDefined, DraftType
  <1>2. SUFFICES ASSUME Bad # {} PROVE FALSE
    OBVIOUS
  <1>3. PICK v \in Bad : \A u \in Bad : v <= u
    <2>1. Bad \subseteq Nat
      OBVIOUS
    <2> HIDE DEF Bad
    <2> QED
      BY <1>2, <2>1, Least
  <1>4. v \in 0..n /\ ~Good(v)
    BY <1>3
  <1>5. v # 0
    <2>1. Chain[0] = << >>
      BY <1>1 DEF ChainSteps
    <2> QED
      BY <1>4, <2>1
  <1>6. PICK b : b = versions[v].base
    OBVIOUS
  <1>7. /\ b \in 0..n /\ b < v /\ Chain[b] \in Seq(AllLabels)
        /\ Chain[v] = IF v \in Released THEN Append(Chain[b], versions[v].label) ELSE Chain[b]
    BY <1>1, <1>4, <1>5, <1>6 DEF ChainSteps
  <1>8. Good(b)
    BY <1>3, <1>7
  <1>9. v \in Released
    BY <1>4, <1>7, <1>8
  <1>10. \A i \in DOMAIN Chain[v] : \/ i \in DOMAIN Chain[b] /\ Chain[v][i] = Chain[b][i]
                                   \/ Chain[v][i] = versions[v].label
    <2> DEFINE s == Chain[b]
               l == versions[v].label
    <2> HIDE DEF s
    <2>1. s \in Seq(AllLabels) /\ Chain[v] = Append(s, l)
      BY <1>7, <1>9 DEF s
    <2>2. /\ Len(s) \in Nat /\ DOMAIN s = 1..Len(s)
          /\ DOMAIN Append(s, l) = 1..(Len(s) + 1)
          /\ \A i \in 1..Len(s) : Append(s, l)[i] = s[i]
          /\ Append(s, l)[Len(s) + 1] = l
      <3>1. s \in Seq(AllLabels \cup {l})
        BY <2>1
      <3> QED
        BY <2>1, <3>1, AppendProperties, LenProperties
    <2>3. \A i \in 1..(Len(s) + 1) : i \in 1..Len(s) \/ i = Len(s) + 1
      BY <2>2
    <2> QED
      BY <2>1, <2>2, <2>3 DEF s
  <1> QED
    BY <1>4, <1>8, <1>9, <1>10

\* What is the same along the versions up to k makes the same chain.
LEMMA ChainKept ==
    ASSUME TypeOK, TypeOK', NEW k \in Nat, k <= Len(versions), k <= Len(versions'),
           \A v \in 1..k : /\ versions'[v].base = versions[v].base
                           /\ v \in Released' <=> v \in Released
                           /\ v \in Released => versions'[v].label = versions[v].label
    PROVE  \A v \in 0..k : Chain'[v] = Chain[v]
  <1> DEFINE b == [v \in 1..k |-> versions[v].base]
             f == Chain
             g == Chain'
  <1>1. ChainSteps /\ Len(versions) \in Nat
    BY ChainDefined, DraftType
  <1>2. (TypeOK => ChainSteps)'
    BY ChainDefined, PTL
  <1>3. /\ Chain'[0] = << >>
        /\ \A v \in 1..Len(versions') :
             Chain'[v] = IF v \in Released' THEN Append(Chain'[versions'[v].base], versions'[v].label)
                         ELSE Chain'[versions'[v].base]
    BY <1>2 DEF ChainSteps
  <1>4. Len(versions') \in Nat
    BY LenProperties DEF TypeOK
  <1>5. \A v \in 1..k : /\ v \in 1..Len(versions) /\ v \in 1..Len(versions')
    BY <1>1, <1>4
  <1>6. \A v \in 1..k : b[v] = versions[v].base
    OBVIOUS
  <1>7. b \in [1..k -> Nat] /\ \A v \in 1..k : b[v] < v
    BY <1>1, <1>5 DEF ChainSteps
  <1> HIDE DEF b
  <1>8. \A v \in 1..k :
          f[v] = IF v \in Released THEN Append(f[b[v]], versions[v].label) ELSE f[b[v]]
    BY <1>1, <1>5, <1>6 DEF ChainSteps
  <1>9. \A v \in 1..k :
          g[v] = IF v \in Released' THEN Append(g[b[v]], versions'[v].label) ELSE g[b[v]]
    BY <1>3, <1>5, <1>6
  <1>10. f[0] = g[0]
    BY <1>1, <1>3 DEF ChainSteps
  <1> HIDE DEF f, g
  <1>11. \A v \in 1..k : f[b[v]] = g[b[v]] => f[v] = g[v]
    BY <1>8, <1>9
  <1>12. \A v \in 0..k : f[v] = g[v]
    <2>1. \A v \in 1..k : b[v] \in 0..(v - 1)
      BY <1>7
    <2>2. Alike(f, g, k)
      BY <1>10, <1>11, <2>1 DEF Alike
    <2> QED
      BY <2>2, RecursionUnique
  <1> QED
    BY <1>12 DEF f, g

LEMMA SameMains ==
    ASSUME Mains' = Mains, \A v \in Mains : versions'[v] = versions[v]
    PROVE  Released' = Released /\ Drafts' = Drafts /\ Draft' = Draft /\ Current' = Current
  <1>1. Released = {v \in Mains : versions[v].state # "DRAFT"} /\ Drafts = {v \in Mains : versions[v].state = "DRAFT"}
    BY DEF Released, Drafts, Mains
  <1>2. /\ Released' = {v \in Mains' : versions'[v].state # "DRAFT"}
        /\ Drafts' = {v \in Mains' : versions'[v].state = "DRAFT"}
    BY DEF Released, Drafts, Mains
  <1>3. Released' = Released /\ Drafts' = Drafts
    BY <1>1, <1>2
  <1>4. Draft' = Draft
    BY <1>3 DEF Draft
  <1>5. \A v \in Released : versions'[v] = versions[v]
    BY <1>1
  <1> DEFINE live == {v \in Released : versions[v].state = "PUBLISHED"}
  <1>6. live' = live
    BY <1>3, <1>5
  <1>7. live # {} => (CHOOSE v \in live : TRUE) \in live
    OBVIOUS
  <1>8. Current = IF live = {} THEN Unnamed ELSE versions[CHOOSE v \in live : TRUE].label
    BY DEF Current
  <1>9. Current' = IF live' = {} THEN Unnamed ELSE versions'[CHOOSE v \in live' : TRUE].label
    BY DEF Current
  <1>10. live \subseteq Released
    OBVIOUS
  <1> HIDE DEF live
  <1>11. Current' = Current
    BY <1>5, <1>6, <1>7, <1>8, <1>9, <1>10
  <1> QED
    BY <1>3, <1>4, <1>11

\* Branches come and go beside the log of releases.
LEMMA LogKept ==
    ASSUME TypeOK, TypeOK', MainChain, VersionsKept, \A v \in Mains : versions'[v] = versions[v],
           \A v \in DOMAIN versions : versions'[v].base = versions[v].base,
           Mains' = Mains
    PROVE  ReleaseChain' = ReleaseChain /\ Current' = Current
  <1>1. Released' = Released /\ Draft' = Draft /\ Current' = Current
    BY SameMains
  <1>2. /\ Len(versions) \in Nat /\ DOMAIN versions = 1..Len(versions)
        /\ Draft \in DOMAIN versions \cup {0}
    BY DraftType DEF Drafts, Null
  <1>3. Len(versions) <= Len(versions')
    <2>1. Len(versions') \in Nat /\ DOMAIN versions' = 1..Len(versions')
      BY LenProperties DEF TypeOK
    <2>2. 1..Len(versions) \subseteq 1..Len(versions')
      BY <1>2, <2>1 DEF VersionsKept
    <2> QED
      BY <1>2, <2>1, <2>2
  <1>4. \A v \in DOMAIN versions : /\ versions'[v].base = versions[v].base
                                   /\ v \in Released' <=> v \in Released
                                   /\ v \in Released => versions'[v].label = versions[v].label
    <2>1. \A v \in Released : v \in Mains
      BY DEF Released, Mains
    <2> QED
      BY <1>1, <2>1
  <1>5. \A v \in 0..Len(versions) : Chain'[v] = Chain[v]
    <2>1. PICK k : k = Len(versions)
      OBVIOUS
    <2>2. k \in Nat /\ k <= Len(versions) /\ k <= Len(versions')
      BY <1>2, <1>3, <2>1
    <2>3. \A v \in 1..k : /\ versions'[v].base = versions[v].base
                          /\ v \in Released' <=> v \in Released
                          /\ v \in Released => versions'[v].label = versions[v].label
      BY <1>2, <1>4, <2>1
    <2>4. \A v \in 0..k : Chain'[v] = Chain[v]
      BY <2>2, <2>3, ChainKept
    <2> QED
      BY <2>1, <2>4
  <1>6. Draft \in 0..Len(versions)
    BY <1>2
  <1>7. Chain'[Draft'] = Chain[Draft]
    BY <1>1, <1>5, <1>6
  <1>8. (ReleaseChain = Chain[Draft])'
    BY ReleaseChainIsChain, PTL
  <1> QED
    BY <1>1, <1>7, <1>8, ReleaseChainIsChain

\* A publication is a release of the log.
LEMMA PublishReleases ==
    ASSUME IInv, ChainInv, TypeOK', NEW h \in Handlers, CommitPublish(h)
    PROVE  Log!Release(request[h].label) /\ request[h].label \in Labels
  <1> DEFINE r == request[h]
             n == Len(versions)
  <1>0. TypeOK /\ MainChain /\ RequestsOK /\ OneDraft
    BY DEF IInv, ChainInv
  <1>1. /\ Mains' = Mains \cup {n + 1} /\ r.version = Draft /\ Draft \in Mains
        /\ ~Closed(Draft) /\ Draft' = n + 1
    BY <1>0, PublishGrowsChain
  <1> DEFINE d == Draft
             p == versions[d].base
             l == r.label
  <1>2. /\ r # Idle /\ DOMAIN versions' = DOMAIN versions \cup {n + 1}
        /\ \A v \in DOMAIN versions : versions'[v] = IF v = d THEN Published(v, l) ELSE Archived(v)
        /\ versions'[n + 1] = NewDraft(d)
    BY <1>0, <1>1, PublishedVersions
  <1>3. l \in Labels
    <2>1. r \in Request /\ r.op = "PUBLISH"
      BY <1>0 DEF CommitPublish, TypeOK
    <2> QED
      BY <1>2, <2>1, RequestFields
  <1>4. /\ n \in Nat /\ DOMAIN versions = 1..n
        /\ \A v \in DOMAIN versions : versions[v] \in ModelVersion /\ versions[v].base \in Nat /\ versions[v].base < v
    BY <1>0, DraftType, MainsTyped DEF TypeOK
  <1>5. d \in 1..n /\ p \in 0..(d - 1) /\ p \in 0..n
    BY <1>1, <1>4 DEF Mains
  <1>6. \A v \in 1..n : /\ versions'[v].base = versions[v].base
                        /\ v # d => /\ v \in Released' <=> v \in Released
                                    /\ v \in Released => versions'[v].label = versions[v].label
    <2> SUFFICES ASSUME NEW v \in 1..n
                 PROVE  /\ versions'[v].base = versions[v].base
                        /\ v # d => /\ v \in Released' <=> v \in Released
                                    /\ v \in Released => versions'[v].label = versions[v].label
      OBVIOUS
    <2>1. v \in DOMAIN versions /\ versions[v] \in ModelVersion /\ v \in DOMAIN versions'
      BY <1>2, <1>4
    <2>2. CASE v = d
      BY <1>2, <2>1, <2>2 DEF Published, ModelVersion
    <2>3. CASE v # d
      <3>1. versions'[v] = Archived(v)
        BY <1>2, <2>1, <2>3
      <3>2. /\ versions'[v].base = versions[v].base /\ versions'[v].label = versions[v].label
            /\ versions'[v].branchType = versions[v].branchType
            /\ versions'[v].state = "DRAFT" <=> versions[v].state = "DRAFT"
        BY <2>1, <3>1 DEF Archived, ModelVersion
      <3> QED
        BY <2>1, <3>2 DEF Released, IsMain
    <2> QED
      BY <2>2, <2>3
  <1>7. \A v \in 0..(d - 1) : Chain'[v] = Chain[v]
    <2>1. PICK k : k = d - 1
      OBVIOUS
    <2>2. k \in Nat /\ k <= Len(versions) /\ \A v \in 1..k : v \in 1..n /\ v # d
      BY <1>4, <1>5, <2>1
    <2>3. k <= Len(versions')
      <3>1. Len(versions') \in Nat /\ DOMAIN versions' = 1..Len(versions')
        BY LenProperties DEF TypeOK
      <3>2. d \in 1..Len(versions')
        BY <1>2, <1>4, <1>5, <3>1
      <3> QED
        BY <1>5, <2>1, <3>1, <3>2
    <2> QED
      BY <1>0, <1>6, <2>1, <2>2, <2>3, ChainKept
  <1>8. d \in Released' /\ n + 1 \notin Released' /\ versions'[d].label = l /\ versions'[n + 1].base = d
    <2>1. /\ versions[d] \in ModelVersion /\ IsMain(d) /\ d \in DOMAIN versions'
          /\ versions'[d] = Published(d, l)
      BY <1>1, <1>2, <1>4, <1>5 DEF Mains
    <2>2. /\ versions'[d].label = l /\ versions'[d].state = "PUBLISHED" /\ versions'[d].branchType = "MAIN"
      BY <2>1 DEF Published, ModelVersion, IsMain
    <2>3. versions'[n + 1].base = d /\ versions'[n + 1].state = "DRAFT"
      BY <1>2 DEF NewDraft
    <2> QED
      BY <2>1, <2>2, <2>3 DEF Released, IsMain
  <1>9. Chain'[n + 1] = Append(Chain[p], l)
    <2>1. (TypeOK => ChainSteps)'
      BY ChainDefined, PTL
    <2>2. Len(versions') \in Nat /\ DOMAIN versions' = 1..Len(versions')
      BY LenProperties DEF TypeOK
    <2>3. n + 1 \in 1..Len(versions') /\ d \in 1..Len(versions')
      BY <1>2, <1>4, <1>5, <2>2
    <2>4. \A v \in 1..Len(versions') :
            Chain'[v] = IF v \in Released' THEN Append(Chain'[versions'[v].base], versions'[v].label)
                        ELSE Chain'[versions'[v].base]
      BY <2>1 DEF ChainSteps
    <2>5. Chain'[n + 1] = Chain'[d]
      BY <1>8, <2>3, <2>4
    <2>6. Chain'[d] = Append(Chain'[versions'[d].base], l)
      BY <1>8, <2>3, <2>4
    <2>7. versions'[d].base = p /\ Chain'[p] = Chain[p]
      BY <1>5, <1>6, <1>7
    <2> QED
      BY <2>5, <2>6, <2>7
  <1>10. d \notin Released
    BY <1>1 DEF Released, Closed
  <1>11. Chain[d] = Chain[p]
    BY <1>0, <1>5, <1>10, ChainDefined DEF ChainSteps
  <1>12. ReleaseChain = Chain[p]
    BY <1>11, ReleaseChainIsChain
  <1>13. ReleaseChain' = Append(ReleaseChain, l)
    <2>1. (ReleaseChain = Chain[Draft])'
      BY ReleaseChainIsChain, PTL
    <2> QED
      BY <1>1, <1>9, <1>12, <2>1
  <1>14. \A i \in DOMAIN ReleaseChain : ReleaseChain[i] # l
    <2>1. \A i \in DOMAIN Chain[p] : \E u \in Released : Chain[p][i] = versions[u].label
      BY <1>0, <1>5, ChainLabels
    <2>2. \A u \in Released : versions[u].label # l
      BY <1>1, <1>10 DEF CommitPublish, Released
    <2> QED
      BY <1>12, <2>1, <2>2
  <1>15. Current' = l
    <2> DEFINE live == {v \in Released : versions[v].state = "PUBLISHED"}
    <2>1. Current' = IF live' = {} THEN Unnamed ELSE versions'[CHOOSE v \in live' : TRUE].label
      BY DEF Current
    <2>2. versions'[d].state = "PUBLISHED"
      BY <1>2, <1>4, <1>5 DEF Published, ModelVersion
    <2>3. ASSUME NEW v \in Released', v # d PROVE versions'[v].state # "PUBLISHED"
      <3>1. v \in DOMAIN versions /\ versions'[v] = Archived(v) /\ versions[v] \in ModelVersion
        BY <1>2, <1>4, <1>8, <2>3 DEF Released
      <3>2. versions'[v].branchType = "MAIN"
        BY <2>3 DEF Released, IsMain
      <3> QED
        BY <3>1, <3>2 DEF Archived, ModelVersion, IsMain
    <2>4. PICK L : L = {v \in Released' : versions'[v].state = "PUBLISHED"}
      OBVIOUS
    <2>5. L = {d}
      BY <1>8, <2>2, <2>3, <2>4
    <2>6. live' = L
      BY <2>4
    <2> HIDE DEF live
    <2> QED
      BY <1>8, <2>1, <2>5, <2>6
  <1> QED
    BY <1>3, <1>13, <1>14, <1>15 DEF Log!Release

LEMMA LogStep ==
    ASSUME IInv, ChainInv, [Next]_vars
    PROVE  [Log!Next]_<<ReleaseChain, Current>>
  <1>0. TypeOK /\ MainChain /\ RequestsOK /\ OneDraft /\ TypeOK'
    BY TypePreserved DEF IInv, ChainInv
  <1>1. CASE UNCHANGED versions
    <2>1. Mains' = Mains /\ VersionsKept /\ (\A v \in Mains : versions'[v] = versions[v])
      BY <1>1 DEF Mains, IsMain, VersionsKept
    <2> QED
      BY <1>0, <1>1, <2>1, LogKept
  <1>2. ASSUME NEW h \in Handlers, CommitChange(h)
        PROVE  UNCHANGED <<ReleaseChain, Current>>
    <2> DEFINE n == RecordedIn(request[h].version)
    <2>1. request[h].version \in DOMAIN versions \cup {Null} /\ EnsureDraft(request[h].version)
      BY <1>2, CommitRecords DEF RequestOK, CommitChange
    <2>2. CASE UNCHANGED versions
      <3>1. Mains' = Mains /\ VersionsKept /\ (\A v \in Mains : versions'[v] = versions[v])
        BY <2>2 DEF Mains, IsMain, VersionsKept
      <3> QED
        BY <1>0, <2>2, <3>1, LogKept
    <2>3. CASE ~UNCHANGED versions
      <3>1. /\ Drafts = {} /\ DOMAIN versions' = DOMAIN versions \cup {n} /\ n \notin DOMAIN versions
            /\ versions'[n] = NewDraft(Null)
        BY <1>0, <2>1, <2>3, DraftEnsured
      <3>2. Mains = {}
        BY <1>0, <3>1 DEF OneDraft, Mains
      <3>3. DOMAIN versions = {}
        BY <1>0, <3>2 DEF MainChain
      <3>4. DOMAIN versions' = {n} /\ versions'[n].branchType = "MAIN" /\ versions'[n].base = Null
            /\ versions'[n].state = "DRAFT"
        BY <3>1, <3>3 DEF NewDraft
      <3>5. Released = {} /\ Released' = {} /\ Drafts' = {n}
        BY <3>3, <3>4 DEF Released, Drafts, IsMain
      <3>6. Draft = Null /\ Draft' = n
        BY <3>1, <3>5 DEF Draft
      <3>7. Current = Unnamed /\ Current' = Unnamed
        BY <3>5 DEF Current
      <3>8. (TypeOK => ChainSteps)'
        BY ChainDefined, PTL
      <3>9. n \in 1..Len(versions')
        BY <1>0, <3>4, LenProperties DEF TypeOK
      <3>10. Chain[0] = << >> /\ Chain'[0] = << >>
        BY <1>0, <3>8, ChainDefined DEF ChainSteps
      <3>11. Chain'[n] = Chain'[versions'[n].base]
        BY <1>0, <3>5, <3>8, <3>9 DEF ChainSteps
      <3>12. ReleaseChain = << >> /\ ReleaseChain' = << >>
        <4>1. (ReleaseChain = Chain[Draft])'
          BY ReleaseChainIsChain, PTL
        <4> QED
          BY <3>4, <3>6, <3>10, <3>11, <4>1, ReleaseChainIsChain DEF Null
      <3> QED
        BY <3>7, <3>12
    <2> QED
      BY <2>2, <2>3
  <1>3. ASSUME NEW h \in Handlers, CommitFork(h)
        PROVE  UNCHANGED <<ReleaseChain, Current>>
    <2>1. /\ VersionsKept /\ DOMAIN versions' = DOMAIN versions \cup {Len(versions) + 1}
          /\ Len(versions) + 1 \notin DOMAIN versions
          /\ \A v \in DOMAIN versions : versions'[v] = versions[v]
          /\ versions'[Len(versions) + 1].branchType = "WHAT_IF"
      BY <1>0, <1>3, ForkedVersions
    <2>2. Mains' = Mains /\ \A v \in Mains : versions'[v] = versions[v]
      BY <2>1 DEF Mains, IsMain
    <2> QED
      BY <1>0, <2>1, <2>2, LogKept
  <1>4. ASSUME NEW h \in Handlers, CommitDiscard(h)
        PROVE  UNCHANGED <<ReleaseChain, Current>>
    <2>1. /\ IsBranch(request[h].version) /\ VersionsKept /\ DOMAIN versions' = DOMAIN versions
          /\ \A v \in DOMAIN versions : v # request[h].version => versions'[v] = versions[v]
      BY <1>0, <1>4, DiscardedVersions
    <2>2. \A v \in DOMAIN versions : versions'[v].base = versions[v].base
      BY <1>4, <1>0, MainsTyped DEF CommitDiscard, ModelVersion
    <2>3. Mains' = Mains /\ \A v \in Mains : versions'[v] = versions[v]
      BY <2>1 DEF Mains, IsMain, IsBranch, VersionsKept
    <2> QED
      BY <1>0, <2>1, <2>2, <2>3, LogKept
  <1>5. ASSUME NEW h \in Handlers, Step(h)
        PROVE  [Log!Next]_<<ReleaseChain, Current>>
    <2>1. CASE Link(h) \/ CommitRemove(h) \/ CommitInBranch(h) \/ Abort(h)
      BY <1>1, <2>1 DEF Link, CommitRemove, CommitInBranch, Abort
    <2>2. CASE \E r : Begun(r) /\ Start(h, r)
      BY <1>1, <2>2 DEF Start
    <2>3. CASE CommitPublish(h)
      BY <1>0, <2>3, PublishReleases DEF Log!Next
    <2> QED
      BY <1>0, <1>2, <1>3, <1>4, <1>5, <2>1, <2>2, <2>3, BeginCases
  <1> QED
    BY <1>1, <1>5 DEF Next, vars

LEMMA LogInit ==
    ASSUME Init
    PROVE  Log!Init
  <1>1. versions = << >> /\ TypeOK
    BY InitIInv DEF Init, IInv
  <1>2. DOMAIN versions = {}
    BY <1>1
  <1>3. Draft = Null /\ Current = Unnamed
    BY <1>2 DEF Draft, Current, Drafts, Released
  <1>4. ReleaseChain = << >>
    BY <1>1, <1>3, ReleaseChainIsChain, ChainDefined DEF ChainSteps, Null
  <1> QED
    BY <1>3, <1>4 DEF Log!Init

\* Publication implements the log of releases: each adds one release with a label of
\* its own after all earlier ones, on which the next draft builds, and the last one is
\* the published version, whoever publishes, forks or discards at the same time
\* (publishSnapshot, createBranch, discardBranch, ensureDraftVersionId).
THEOREM LogImplemented == Spec => ImplementsReleaseLog
  <1>1. Init => Log!Init
    BY LogInit
  <1>2. IInv /\ ChainInv /\ [Next]_vars => [Log!Next]_<<ReleaseChain, Current>>
    BY LogStep
  <1> QED
    BY <1>1, <1>2, ChainInductive, PTL DEF Spec, ImplementsReleaseLog, Log!Spec
-----------------------------------------------------------------------------
(* The release pages: what their answers and the request under way are worth *)

\* The release that is published is the one the draft is based on.
PublishedIsBase ==
    \A p, v \in Mains : versions[p].state = "PUBLISHED" /\ versions[v].state = "DRAFT" => versions[v].base = p

Changed(V) == {e.capability : e \in Entries(V)}

\* Answers name versions that are there, of the right kind, and will stay so.
Sound(q, a) ==
    /\ q.name = "list" => DOMAIN a \subseteq Mains
    /\ q.name = "current-draft" => a \in Mains \cup {Null}
    /\ q.name = "diff" => q.to \in Mains
    /\ q.name = "branches" => DOMAIN a \subseteq DOMAIN versions
    /\ q.name = "branch-diff" => q.to \in DOMAIN versions

\* What the server would answer now.
Truth(q, a) ==
    /\ q.name \in {"list", "current-draft", "branches"} => a = Answer(q)
    /\ q.name = "diff" /\ versions[q.to].base = q.from => Changes(a) = Changed({q.to})
    /\ q.name = "branch-diff" => Changes(a) = Changed({q.to})

\* The change has been made, and the page does not know yet.
DoneFor(q) == mutation # NoMutation /\ mutation.fate = "done" /\ Invalidates(q, mutation.kind)

Timely(q, e) == Sound(q, e.answer) /\ e.since \in Int /\ e.since <= foreign
Right(q, e) == e.since = foreign /\ ~DoneFor(q) => Truth(q, e.answer)

CacheOK == \A q \in DOMAIN cache :
    /\ DOMAIN cache[q] = {"answer", "since", "stale"} /\ cache[q].stale \in BOOLEAN
    /\ Timely(q, cache[q])
    /\ ~cache[q].stale => Right(q, cache[q])

FetchOK == \A q \in DOMAIN fetch :
    /\ DOMAIN fetch[q] = {"answer", "since"}
    /\ Timely(q, fetch[q])
    /\ Right(q, fetch[q])

OpOf(kind) ==
    CASE kind = "publish" -> "PUBLISH" [] kind = "create" -> "FORK"
      [] kind = "discard" -> "DISCARD" [] OTHER -> "none"

MutationOK ==
    /\ mutation \in Mutation \cup {NoMutation}
    /\ request[Tab] # Idle =>
         mutation # NoMutation /\ mutation.fate = "begun" /\ request[Tab].op = OpOf(mutation.kind)
    /\ mutation # NoMutation /\ mutation.fate = "begun" => request[Tab] # Idle

\* A discard names a version that is there.
ArgumentOK == mutation # NoMutation /\ mutation.kind = "discard" => mutation.argument \in DOMAIN versions

\* The review was confirmed with what the server still has.
Reviewed == form \notin {NoForm, Unconfirmed} /\ form.since = foreign

ReviewOK ==
    /\ compare.to \in Mains \cup {Null}
    /\ foreign \in Nat
    /\ form \notin {NoForm, Unconfirmed} => form.since \in Int /\ form.since <= foreign
    /\ Reviewed /\ mutation # NoMutation => mutation.mounted
    /\ Reviewed /\ ~DoneFor(List) => form.changes = Changed(Drafts)

PageInv ==
    /\ IInv /\ ChainInv /\ Mains # {} /\ PublishedIsBase
    /\ CacheOK /\ FetchOK /\ MutationOK /\ ArgumentOK /\ ReviewOK

LEMMA MutationFields ==
    ASSUME NEW m \in Mutation
    PROVE  /\ m.kind \in {"publish", "rollback", "create", "discard"}
           /\ m.fate \in {"sent", "begun", "done", "failed"} /\ m.created \in Nat /\ m.mounted \in BOOLEAN
           /\ \A fate \in {"sent", "begun", "done", "failed"}, k \in Nat :
                /\ [m EXCEPT !.fate = fate] \in Mutation
                /\ [m EXCEPT !.fate = fate, !.created = k] \in Mutation
           /\ [m EXCEPT !.mounted = FALSE] \in Mutation
  <1>1. ASSUME NEW K, NEW A, K \subseteq {"publish", "rollback", "create", "discard"}, m \in MutationOf(K, A)
        PROVE  /\ m.kind \in {"publish", "rollback", "create", "discard"}
               /\ m.fate \in {"sent", "begun", "done", "failed"} /\ m.created \in Nat /\ m.mounted \in BOOLEAN
               /\ \A fate \in {"sent", "begun", "done", "failed"}, k \in Nat :
                    /\ [m EXCEPT !.fate = fate] \in MutationOf(K, A)
                    /\ [m EXCEPT !.fate = fate, !.created = k] \in MutationOf(K, A)
               /\ [m EXCEPT !.mounted = FALSE] \in MutationOf(K, A)
    BY <1>1 DEF MutationOf
  <1>2. CASE m \in MutationOf({"publish"}, Labels)
    BY <1>1, <1>2 DEF Mutation
  <1>3. CASE m \in MutationOf({"create"}, BranchNames)
    BY <1>1, <1>3 DEF Mutation
  <1>4. CASE m \in MutationOf({"rollback", "discard"}, VersionId)
    BY <1>1, <1>4 DEF Mutation
  <1> QED
    BY <1>2, <1>3, <1>4 DEF Mutation

-----------------------------------------------------------------------------
(* What the server's steps leave as it was *)

\* What the main model shows is the same.
MainKept ==
    /\ Mains' = Mains /\ \A v \in Mains : versions'[v] = versions[v]

\* The first draft is the first version of all; later ones come with publications.
LEMMA MainSteps ==
    ASSUME IInv, ChainInv, [Next]_vars
    PROVE  MainKept \/ (\E h \in Handlers : CommitPublish(h)) \/ Mains = {}
  <1>0. TypeOK /\ MainChain /\ RequestsOK /\ OneDraft
    BY DEF IInv, ChainInv
  <1>1. UNCHANGED versions => MainKept
    BY DEF Mains, IsMain, MainKept
  <1>2. ASSUME NEW h \in Handlers, CommitChange(h)
        PROVE  MainKept \/ Mains = {}
    <2>1. request[h].version \in DOMAIN versions \cup {Null} /\ EnsureDraft(request[h].version)
      BY <1>0, <1>2, CommitRecords DEF RequestOK, CommitChange
    <2>2. CASE UNCHANGED versions
      BY <2>2 DEF Mains, IsMain, MainKept
    <2>3. CASE ~UNCHANGED versions
      <3>1. Drafts = {}
        BY <1>0, <2>1, <2>3, DraftEnsured
      <3> QED
        BY <1>0, <3>1 DEF OneDraft, Mains
    <2> QED
      BY <2>2, <2>3
  <1>3. ASSUME NEW h \in Handlers, CommitFork(h)
        PROVE  MainKept
    <2>1. /\ DOMAIN versions' = DOMAIN versions \cup {Len(versions) + 1}
          /\ Len(versions) + 1 \notin DOMAIN versions
          /\ \A v \in DOMAIN versions : versions'[v] = versions[v]
          /\ versions'[Len(versions) + 1].branchType = "WHAT_IF"
      BY <1>0, <1>3, ForkedVersions
    <2> QED
      BY <2>1 DEF Mains, IsMain, MainKept
  <1>4. ASSUME NEW h \in Handlers, CommitDiscard(h)
        PROVE  MainKept
    <2>1. /\ IsBranch(request[h].version) /\ VersionsKept /\ DOMAIN versions' = DOMAIN versions
          /\ \A v \in DOMAIN versions : v # request[h].version => versions'[v] = versions[v]
      BY <1>0, <1>4, DiscardedVersions
    <2> QED
      BY <2>1 DEF Mains, IsMain, IsBranch, VersionsKept, MainKept
  <1>5. ASSUME NEW h \in Handlers, Step(h)
        PROVE  MainKept \/ (\E g \in Handlers : CommitPublish(g)) \/ Mains = {}
    <2>1. CASE Link(h) \/ CommitRemove(h) \/ CommitInBranch(h) \/ Abort(h)
      BY <1>1, <2>1 DEF Link, CommitRemove, CommitInBranch, Abort
    <2>2. CASE \E r : Begun(r) /\ Start(h, r)
      BY <1>1, <2>2 DEF Start
    <2>3. CASE CommitPublish(h)
      BY <2>3
    <2> QED
      BY <1>0, <1>2, <1>3, <1>4, <1>5, <2>1, <2>2, <2>3, BeginCases
  <1> QED
    BY <1>1, <1>5 DEF Next, vars

LEMMA PublishedIsBasePreserved ==
    ASSUME IInv, ChainInv, PublishedIsBase, Mains # {}, [Next]_vars
    PROVE  PublishedIsBase'
  <1>0. TypeOK /\ MainChain /\ RequestsOK /\ OneDraft /\ VersionsKept
    BY TableCases DEF IInv, ChainInv
  <1>1. CASE MainKept
    BY <1>1 DEF MainKept, PublishedIsBase
  <1>2. ASSUME NEW h \in Handlers, CommitPublish(h)
        PROVE  PublishedIsBase'
    <2> DEFINE r == request[h]
               n == Len(versions) + 1
    <2>1. /\ Mains' = Mains \cup {n} /\ r.version = Draft /\ Draft \in Mains
      BY <1>0, <1>2, PublishGrowsChain
    <2>2. /\ \A v \in DOMAIN versions : versions'[v] =
               IF v = r.version THEN Published(v, r.label) ELSE Archived(v)
          /\ versions'[n] = NewDraft(r.version)
      BY <1>0, <1>2, PublishedVersions
    <2>3. \A v \in Mains : v \in DOMAIN versions /\ versions[v] \in ModelVersion
      BY <1>0 DEF Mains, TypeOK
    <2>4. ASSUME NEW v \in Mains
          PROVE  /\ v # Draft => versions'[v].state # "PUBLISHED"
                 /\ versions'[v].state # "DRAFT"
      <3>1. CASE v = Draft
        BY <2>1, <2>2, <2>3, <3>1 DEF Published, ModelVersion
      <3>2. CASE v # Draft
        <4>1. versions'[v] = Archived(v) /\ v \notin Drafts
          BY <1>0, <2>1, <2>2, <2>3, <3>2, DraftIsNewest
        <4>2. versions[v].state # "DRAFT" /\ IsMain(v)
          BY <4>1 DEF Mains, Drafts
        <4> QED
          BY <2>3, <3>2, <4>1, <4>2 DEF Archived, ModelVersion
      <3> QED
        BY <3>1, <3>2
    <2>5. versions'[n].state = "DRAFT" /\ versions'[n].base = Draft
      BY <2>1, <2>2 DEF NewDraft
    <2> QED
      BY <2>1, <2>4, <2>5 DEF PublishedIsBase
  <1> QED
    BY <1>1, <1>2, MainSteps

-----------------------------------------------------------------------------
(* Answers *)

LEMMA AnswerOf ==
    ASSUME NEW q
    PROVE  /\ q.name = "list" => Answer(q) = [v \in Mains |-> versions[v]]
           /\ q.name = "current-draft" => Answer(q) = Draft
           /\ q.name = "diff" => Answer(q) = Diffed(q.from, q.to)
           /\ q.name = "branches" => Answer(q) = [b \in {u \in DOMAIN versions : IsBranch(u)} |-> versions[b]]
           /\ q.name = "branch-diff" => Answer(q) = Diffed(versions[q.to].base, q.to)
  <1>1. Mains = {u \in DOMAIN versions : IsMain(u)}
    BY DEF Mains
  <1> QED
    BY <1>1 DEF Answer

\* What a comparison shows is what was recorded in the versions it goes over.
LEMMA ChangesAre ==
    ASSUME TypeOK, NEW from, NEW to
    PROVE  Changes(Diffed(from, to)) = Changed(DiffRange(from, to))
  <1>1. \A e \in history : e.capability \in Capabilities
    BY DEF TypeOK, CapabilityVersion
  <1>2. Changes(Diffed(from, to)) = Added(from, to) \cup Modified(from, to) \cup Removed(from, to)
    BY DEF Changes, Diffed
  <1>3. Added(from, to) \subseteq {c \in Capabilities : ChangesIn(from, to, c) # {}}
    BY DEF Added
  <1>4. Removed(from, to) \subseteq {c \in Capabilities : ChangesIn(from, to, c) # {}}
    BY DEF Removed
  <1>5. Changes(Diffed(from, to)) = {c \in Capabilities : ChangesIn(from, to, c) # {}}
    BY <1>2, <1>3, <1>4 DEF Modified
  <1>6. \A c \in Capabilities : ChangesIn(from, to, c) # {} <=> c \in Changed(DiffRange(from, to))
    BY DEF ChangesIn, Changed
  <1>7. Changed(DiffRange(from, to)) \subseteq Capabilities
    BY <1>1 DEF Changed, Entries
  <1> QED
    BY <1>5, <1>6, <1>7

\* A version compared with its base.
LEMMA RangeFromBase ==
    ASSUME TypeOK, MainChain, NEW v \in DOMAIN versions
    PROVE  DiffRange(versions[v].base, v) = {v}
  <1> DEFINE b == versions[v].base
  <1>1. /\ b \in Nat /\ b < v /\ v \in 1..Len(versions) /\ v \in Nat /\ Null = 0
        /\ Mains \subseteq Nat /\ Null \notin Mains
    BY MainsTyped, DraftType DEF TypeOK, Null
  <1>2. b \in Mains \cup {Null}
    BY DEF MainChain
  <1>3. v \in 0..Len(versions) /\ b # v /\ v # Null
    BY <1>1
  <1>4. Lineage(b, v) = IF v \in Mains THEN Walk(b, v) ELSE {v} \cup Walk(b, b)
    BY <1>2, <1>3, BackWalks, LineageIsBack
  <1>5. CASE v \in Mains /\ b \in Mains
    <2>1. DiffRange(b, v) = {u \in Mains : b < u /\ u <= v}
      BY <1>1, <1>5, DiffRangeInMain
    <2>2. \A u \in Mains : u <= b \/ v <= u
      BY <1>1, <1>5 DEF MainChain
    <2>3. \A u \in Mains : b < u /\ u <= v <=> u = v
      <3>1. \A u \in Mains : u \in Nat
        BY <1>1
      <3> HIDE DEF b
      <3> QED
        BY <1>1, <2>2, <3>1
    <2> QED
      BY <1>5, <2>1, <2>3
  <1>6. CASE v \in Mains /\ b = Null
    <2>1. Lineage(b, v) = MainsBetween(b, v)
      BY <1>1, <1>6, LineageInMain
    <2>2. b \notin Lineage(b, v)
      BY <1>1, <1>6, <2>1 DEF MainsBetween
    <2> QED
      BY <2>2 DEF DiffRange
  <1>7. CASE v \notin Mains
    <2>1. b \in Mains
      BY <1>7 DEF MainChain
    <2>2. Walk(b, b) = {b}
      <3>1. \A u \in Mains : b <= u /\ u <= b <=> u = b
        <4>1. \A u \in Mains : u \in Nat
          BY <1>1
        <4> HIDE DEF b
        <4> QED
          BY <1>1, <4>1
      <3>2. b <= b /\ b # Null
        BY <1>1, <2>1
      <3> QED
        BY <2>1, <3>1, <3>2 DEF Walk, MainsBetween
    <2>3. Lineage(b, v) = {v, b}
      BY <1>4, <1>7, <2>2
    <2> QED
      BY <1>3, <2>3 DEF DiffRange
  <1> QED
    BY <1>2, <1>5, <1>6, <1>7

\* What the server answers is sound, and the truth.
LEMMA AnswersTrue ==
    ASSUME TypeOK, OneDraft, MainChain, Mains # {}, NEW q,
           q.name = "diff" => q.to \in Mains,
           q.name = "branch-diff" => q.to \in DOMAIN versions
    PROVE  Sound(q, Answer(q)) /\ Truth(q, Answer(q))
  <1>1. Draft \in Mains
    BY DraftIsNewest
  <1>2. \A v \in Mains : v \in DOMAIN versions
    BY DEF Mains
  <1>3. Sound(q, Answer(q))
    <2>1. q.name = "list" => DOMAIN Answer(q) \subseteq Mains
      BY AnswerOf
    <2>2. q.name = "branches" => DOMAIN Answer(q) \subseteq DOMAIN versions
      BY AnswerOf
    <2>3. q.name = "current-draft" => Answer(q) \in Mains
      BY <1>1, AnswerOf
    <2> QED
      BY <2>1, <2>2, <2>3 DEF Sound
  <1>4. ASSUME NEW v \in DOMAIN versions
        PROVE  Changes(Diffed(versions[v].base, v)) = Changed({v})
    <2>1. PICK b : b = versions[v].base
      OBVIOUS
    <2>2. Changes(Diffed(b, v)) = Changed(DiffRange(b, v))
      BY ChangesAre
    <2>3. DiffRange(b, v) = {v}
      BY <2>1, RangeFromBase
    <2> QED
      BY <2>1, <2>2, <2>3
  <1>5. ASSUME q.name = "diff", versions[q.to].base = q.from
        PROVE  Changes(Answer(q)) = Changed({q.to})
    <2>1. q.to \in DOMAIN versions /\ Answer(q) = Diffed(q.from, q.to)
      BY <1>2, <1>5, AnswerOf
    <2> QED
      BY <1>4, <1>5, <2>1
  <1>6. ASSUME q.name = "branch-diff"
        PROVE  Changes(Answer(q)) = Changed({q.to})
    <2>1. q.to \in DOMAIN versions /\ Answer(q) = Diffed(versions[q.to].base, q.to)
      BY <1>6, AnswerOf
    <2> QED
      BY <1>4, <2>1
  <1> QED
    BY <1>3, <1>5, <1>6 DEF Truth

LEMMA SoundKept ==
    ASSUME VersionsKept, NEW q, NEW a, Sound(q, a)
    PROVE  Sound(q, a)'
  <1>1. Mains \subseteq Mains' /\ DOMAIN versions \subseteq DOMAIN versions'
    BY DEF Mains, IsMain, VersionsKept
  <1> QED
    BY <1>1 DEF Sound

\* What is recorded in the main model is the same.
MainEntriesKept == \A t \in Mains : \A e : e.version = t => (e \in history' <=> e \in history)

LEMMA MainTruthKept ==
    ASSUME MainKept, MainEntriesKept, NEW q, NEW a, ModelVersionsKey(q), Sound(q, a), Truth(q, a)
    PROVE  Truth(q, a)'
  <1>0. q.name \notin {"branches", "branch-diff"}
    BY DEF ModelVersionsKey
  <1>1. Mains' = Mains /\ (\A v \in Mains : versions'[v] = versions[v]) /\ Draft' = Draft
    BY SameMains DEF MainKept
  <1>2. q.name = "list" => a = Answer(q)'
    <2>1. q.name = "list" => Answer(q) = [v \in Mains |-> versions[v]] /\ Answer(q)' = [v \in Mains' |-> versions'[v]]
      <3>1. Mains = {u \in DOMAIN versions : IsMain(u)} /\ Mains' = {u \in DOMAIN versions : IsMain(u)}'
        BY DEF Mains
      <3> QED
        BY <3>1 DEF Answer
    <2> QED
      BY <1>1, <2>1 DEF Truth
  <1>3. q.name = "current-draft" => a = Answer(q)'
    BY <1>1 DEF Truth, Answer
  <1>4. ASSUME q.name = "diff", versions'[q.to].base = q.from
        PROVE  Changes(a) = Changed({q.to})'
    <2>1. q.to \in Mains /\ Changes(a) = Changed({q.to})
      BY <1>1, <1>4 DEF Sound, Truth
    <2>2. {e \in history' : e.version = q.to} = {e \in history : e.version = q.to}
      BY <2>1 DEF MainEntriesKept
    <2>3. Changed({q.to}) = {e.capability : e \in {e \in history : e.version = q.to}}
      BY DEF Changed, Entries
    <2>4. Changed({q.to})' = {e.capability : e \in {e \in history' : e.version = q.to}}
      BY DEF Changed, Entries
    <2> QED
      BY <2>1, <2>2, <2>3, <2>4
  <1> QED
    BY <1>0, <1>2, <1>3, <1>4 DEF Truth

\* Branches are the same, and what is recorded of them.
BranchesKept ==
    /\ {u \in DOMAIN versions' : IsBranch(u)'} = {u \in DOMAIN versions : IsBranch(u)}
    /\ \A u \in DOMAIN versions : IsBranch(u) => versions'[u] = versions[u]
    /\ history' = history

LEMMA BranchTruthKept ==
    ASSUME BranchesKept, NEW q, NEW a, WhatIfBranchesKey(q), Truth(q, a)
    PROVE  Truth(q, a)'
  <1>0. q.name \notin {"list", "current-draft", "diff"}
    BY DEF ModelVersionsKey, WhatIfBranchesKey
  <1>1. q.name = "branches" => a = Answer(q)'
    <2> DEFINE B == {u \in DOMAIN versions : IsBranch(u)}
    <2>1. q.name = "branches" => Answer(q) = [b \in B |-> versions[b]] /\ Answer(q)' = [b \in B' |-> versions'[b]]
      BY DEF Answer
    <2>2. [b \in B' |-> versions'[b]] = [b \in B |-> versions[b]]
      BY DEF BranchesKept
    <2> QED
      BY <2>1, <2>2 DEF Truth
  <1>2. Changed({q.to})' = Changed({q.to})
    BY DEF BranchesKept, Changed, Entries
  <1> QED
    BY <1>0, <1>1, <1>2 DEF Truth

KeptFor(q) ==
    /\ ModelVersionsKey(q) => MainKept /\ MainEntriesKept
    /\ WhatIfBranchesKey(q) => BranchesKept

LEMMA TruthKept ==
    ASSUME NEW q, NEW a, KeptFor(q), Sound(q, a), Truth(q, a)
    PROVE  Truth(q, a)'
  <1>1. ModelVersionsKey(q) \/ WhatIfBranchesKey(q)
    BY DEF WhatIfBranchesKey
  <1> QED
    BY <1>1, MainTruthKept, BranchTruthKept DEF KeptFor

LEMMA NothingChanged ==
    ASSUME UNCHANGED <<versions, history>>, NEW q
    PROVE  KeptFor(q)
  BY DEF KeptFor, MainKept, MainEntriesKept, BranchesKept, Mains, IsMain, IsBranch

\* A publication changes no branch, and a branch comes and goes beside the main model.
LEMMA PublishKeepsBranches ==
    ASSUME IInv, NEW h \in Handlers, CommitPublish(h)
    PROVE  BranchesKept
  <1>0. TypeOK /\ RequestsOK
    BY DEF IInv
  <1> DEFINE d == request[h].version
             n == Len(versions) + 1
  <1>1. /\ IsMain(d) /\ VersionsKept
        /\ DOMAIN versions' = DOMAIN versions \cup {n} /\ n \notin DOMAIN versions
        /\ \A v \in DOMAIN versions : versions'[v] =
             IF v = d THEN Published(v, request[h].label) ELSE Archived(v)
        /\ versions'[n] = NewDraft(d)
    BY <1>0, PublishedVersions
  <1>2. \A u \in DOMAIN versions : IsBranch(u) => versions'[u] = versions[u]
    BY <1>1 DEF Archived, IsMain, IsBranch
  <1>3. \A u \in DOMAIN versions : IsBranch(u)' <=> IsBranch(u)
    BY <1>1 DEF VersionsKept, IsBranch
  <1>4. versions'[n].branchType = "MAIN"
    BY <1>1 DEF NewDraft
  <1>5. history' = history
    BY DEF CommitPublish
  <1> QED
    BY <1>1, <1>2, <1>3, <1>4, <1>5 DEF BranchesKept, IsBranch

LEMMA BranchKeepsMain ==
    ASSUME IInv, NEW h \in Handlers, CommitFork(h) \/ CommitDiscard(h)
    PROVE  MainKept /\ MainEntriesKept
  <1>0. TypeOK /\ RequestsOK /\ HistoryOK
    BY DEF IInv
  <1>1. CASE CommitFork(h)
    <2>1. /\ DOMAIN versions' = DOMAIN versions \cup {Len(versions) + 1}
          /\ Len(versions) + 1 \notin DOMAIN versions
          /\ \A v \in DOMAIN versions : versions'[v] = versions[v]
          /\ versions'[Len(versions) + 1].branchType = "WHAT_IF"
      BY <1>0, <1>1, ForkedVersions
    <2>2. history' = history
      BY <1>1 DEF CommitFork
    <2> QED
      BY <2>1, <2>2 DEF Mains, IsMain, MainKept, MainEntriesKept
  <1>2. CASE CommitDiscard(h)
    <2> DEFINE b == request[h].version
    <2>1. /\ b \in DOMAIN versions /\ IsBranch(b) /\ VersionsKept /\ DOMAIN versions' = DOMAIN versions
          /\ \A v \in DOMAIN versions : v # b => versions'[v] = versions[v]
      BY <1>0, <1>2, DiscardedVersions
    <2>2. MainKept
      BY <2>1 DEF Mains, IsMain, IsBranch, VersionsKept, MainKept
    <2>3. history' = {e \in history : e.capability \notin LocalTo(b)}
      BY <1>2 DEF CommitDiscard
    <2>4. ASSUME NEW e \in history, e.capability \in LocalTo(b)
          PROVE  e.version = b
      <3>1. b # Null
        BY <1>0, <2>1, DraftType DEF Null
      <3>2. /\ e.capability \in Capabilities /\ Exists(e.capability) /\ ~OnMain(e.capability)
            /\ capability[e.capability].origin = b
        BY <2>4, <3>1 DEF LocalTo, OnMain
      <3> QED
        BY <1>0, <3>2 DEF HistoryOK, EntriesOf
    <2>5. b \notin Mains
      BY <2>1 DEF Mains, IsMain, IsBranch
    <2>6. MainEntriesKept
      BY <2>3, <2>4, <2>5 DEF MainEntriesKept
    <2> QED
      BY <2>2, <2>6
  <1> QED
    BY <1>1, <1>2

-----------------------------------------------------------------------------
(* What the page keeps *)

LEMMA TimelyKept ==
    ASSUME VersionsKept, foreign' = foreign, NEW q, NEW e, Timely(q, e)
    PROVE  Timely(q, e)'
  BY SoundKept DEF Timely

LEMMA RightKept ==
    ASSUME foreign' = foreign, NEW q, NEW e, Sound(q, e.answer), Right(q, e),
           ~DoneFor(q)' => ~DoneFor(q) /\ KeptFor(q)
    PROVE  Right(q, e)'
  <1>1. Truth(q, e.answer) /\ KeptFor(q) => Truth(q, e.answer)'
    BY TruthKept
  <1> QED
    BY <1>1 DEF Right

LEMMA Outdated ==
    ASSUME VersionsKept, foreign \in Nat, foreign' = foreign + 1, NEW q, NEW e, Timely(q, e)
    PROVE  Timely(q, e)' /\ Right(q, e)'
  <1>1. e.since \in Int /\ e.since <= foreign' /\ e.since # foreign'
    BY DEF Timely
  <1> QED
    BY <1>1, SoundKept DEF Timely, Right

LEMMA EntriesKept ==
    ASSUME VersionsKept, foreign' = foreign, NEW q, NEW e, Timely(q, e),
           ~DoneFor(q)' => ~DoneFor(q) /\ KeptFor(q)
    PROVE  Timely(q, e)' /\ (Right(q, e) => Right(q, e)')
  <1>1. Timely(q, e)'
    BY TimelyKept
  <1>2. Right(q, e) => Right(q, e)'
    BY RightKept DEF Timely
  <1> QED
    BY <1>1, <1>2

LEMMA CacheKept ==
    ASSUME CacheOK, VersionsKept, UNCHANGED <<cache, foreign>>,
           \A q : ~DoneFor(q)' => ~DoneFor(q) /\ KeptFor(q)
    PROVE  CacheOK'
  <1>1. ASSUME NEW q \in DOMAIN cache
        PROVE  /\ DOMAIN cache'[q] = {"answer", "since", "stale"} /\ cache'[q].stale \in BOOLEAN
               /\ Timely(q, cache[q])'
               /\ ~cache'[q].stale => Right(q, cache[q])'
    <2>1. PICK e : e = cache[q]
      OBVIOUS
    <2>2. Timely(q, e) /\ (~e.stale => Right(q, e)) /\ DOMAIN e = {"answer", "since", "stale"} /\ e.stale \in BOOLEAN
      BY <2>1 DEF CacheOK
    <2>3. Timely(q, e)' /\ (~e.stale => Right(q, e)')
      BY <2>2, EntriesKept
    <2>4. e = cache'[q]
      BY <2>1
    <2> QED
      BY <2>2, <2>3, <2>4 DEF Timely, Right, Sound, Truth
  <1> QED
    BY <1>1 DEF CacheOK

LEMMA FetchKept ==
    ASSUME FetchOK, VersionsKept, UNCHANGED <<fetch, foreign>>,
           \A q : ~DoneFor(q)' => ~DoneFor(q) /\ KeptFor(q)
    PROVE  FetchOK'
  <1>1. ASSUME NEW q \in DOMAIN fetch
        PROVE  /\ DOMAIN fetch'[q] = {"answer", "since"}
               /\ Timely(q, fetch[q])'
               /\ Right(q, fetch[q])'
    <2>1. PICK e : e = fetch[q]
      OBVIOUS
    <2>2. Timely(q, e) /\ Right(q, e) /\ DOMAIN e = {"answer", "since"}
      BY <2>1 DEF FetchOK
    <2>3. Timely(q, e)' /\ Right(q, e)'
      BY <2>2, EntriesKept
    <2>4. e = fetch'[q]
      BY <2>1
    <2> QED
      BY <2>2, <2>3, <2>4 DEF Timely, Right, Sound, Truth
  <1> QED
    BY <1>1 DEF FetchOK

\* The draft goes on as it was reviewed.
LEMMA DraftKept ==
    ASSUME KeptFor(List)
    PROVE  Changed(Drafts)' = Changed(Drafts) /\ Mains' = Mains
  <1>1. MainKept /\ MainEntriesKept
    BY DEF KeptFor, ModelVersionsKey, List, Query
  <1>2. Drafts' = Drafts
    BY <1>1, SameMains DEF MainKept
  <1>3. Drafts \subseteq Mains
    BY DEF Drafts, Mains
  <1>4. {e \in history' : e.version \in Drafts} = {e \in history : e.version \in Drafts}
    BY <1>1, <1>3 DEF MainEntriesKept
  <1>5. /\ Changed(Drafts) = {e.capability : e \in {e \in history : e.version \in Drafts}}
        /\ Changed(Drafts)' = {e.capability : e \in {e \in history' : e.version \in Drafts'}}
    BY DEF Changed, Entries
  <1> QED
    BY <1>1, <1>2, <1>4, <1>5 DEF MainKept

LEMMA ReviewKept ==
    ASSUME ReviewOK, VersionsKept, UNCHANGED <<form, compare, foreign>>,
           ~DoneFor(List)' => ~DoneFor(List) /\ KeptFor(List),
           mutation' # NoMutation => mutation'.mounted \/ (mutation # NoMutation /\ ~mutation.mounted)
    PROVE  ReviewOK'
  <1>1. Mains \subseteq Mains'
    BY DEF Mains, IsMain, VersionsKept
  <1>2. Reviewed' <=> Reviewed
    BY DEF Reviewed
  <1>3. Reviewed /\ ~DoneFor(List)' => form.changes = Changed(Drafts)'
    BY DraftKept DEF ReviewOK
  <1> QED
    BY <1>1, <1>2, <1>3 DEF ReviewOK

-----------------------------------------------------------------------------
(* Steps of the page *)

\* What the page asks for is there.
LEMMA ActiveSound ==
    ASSUME CacheOK, ReviewOK, NEW q \in Active
    PROVE  /\ q.name = "diff" => q.to \in Mains
           /\ q.name = "branch-diff" => q.to \in DOMAIN versions
  <1>1. ShownDraft \in Mains \cup {Null}
    <2>1. CASE Known(CurrentDraft)
      <3>1. Sound(CurrentDraft, cache[CurrentDraft].answer) /\ CurrentDraft.name = "current-draft"
        BY <2>1 DEF CacheOK, Timely, Known, CurrentDraft, Query
      <3> QED
        BY <2>1, <3>1 DEF Sound, ShownDraft, Data
    <2> QED
      BY <2>1 DEF ShownDraft
  <1>2. compare.to \in Mains \cup {Null}
    BY DEF ReviewOK
  <1>3. Or(compare.to, ShownDraft) \in Mains \cup {Null}
    BY <1>1, <1>2 DEF Or
  <1>4. Known(Branches) => DOMAIN Data(Branches) \subseteq DOMAIN versions
    <2>1. SUFFICES ASSUME Known(Branches) PROVE DOMAIN Data(Branches) \subseteq DOMAIN versions
      OBVIOUS
    <2>2. Sound(Branches, cache[Branches].answer) /\ Branches.name = "branches"
      BY <2>1 DEF CacheOK, Timely, Known, Branches, Query
    <2> QED
      BY <2>2 DEF Sound, Data
  <1>5. CASE place = "releases"
    <2>1. \/ q = List \/ q = CurrentDraft
          \/ Enabled(q) /\ q = Comparison
          \/ Enabled(q) /\ q = PublicationDiff
      BY <1>5 DEF Active
    <2>2. List.name = "list" /\ CurrentDraft.name = "current-draft"
      BY DEF List, CurrentDraft, Query
    <2>3. /\ Comparison.name = "diff" /\ Comparison.to = Or(compare.to, ShownDraft)
          /\ PublicationDiff.name = "diff" /\ PublicationDiff.to = ShownDraft
      BY DEF Comparison, PublicationDiff, Diff, Query
    <2> QED
      BY <1>1, <1>3, <2>1, <2>2, <2>3 DEF Enabled
  <1>6. CASE place = "what-if"
    <2>1. q = Branches \/ \E b : Known(Branches) /\ b \in DOMAIN Data(Branches) /\ q = BranchDiff(b)
      BY <1>6 DEF Active
    <2>2. Branches.name = "branches" /\ \A b : BranchDiff(b).name = "branch-diff" /\ BranchDiff(b).to = b
      BY DEF Branches, BranchDiff, Query
    <2> QED
      BY <1>4, <2>1, <2>2
  <1>7. CASE place \notin {"releases", "what-if"}
    <2>1. q = CurrentDraft
      BY <1>7 DEF Active
    <2> QED
      BY <2>1 DEF CurrentDraft, Query
  <1> QED
    BY <1>5, <1>6, <1>7

\* As long as the server, the change under way and the number of foreign changes are
\* the same, so is the worth of an answer, and the review.
LEMMA NothingHappens ==
    ASSUME UNCHANGED <<serverVars, mutation, foreign>>
    PROVE  VersionsKept /\ \A q : ~DoneFor(q)' => ~DoneFor(q) /\ KeptFor(q)
  <1>1. UNCHANGED <<versions, history, mutation>>
    BY DEF serverVars
  <1>2. VersionsKept
    BY <1>1 DEF VersionsKept
  <1>3. \A q : DoneFor(q)' <=> DoneFor(q)
    BY <1>1 DEF DoneFor
  <1> QED
    BY <1>1, <1>2, <1>3, NothingChanged

LEMMA ReviewSame ==
    ASSUME ReviewOK, UNCHANGED <<serverVars, mutation, foreign, form, compare>>
    PROVE  ReviewOK'
  <1>1. UNCHANGED <<versions, history, mutation>>
    BY DEF serverVars
  <1>2. VersionsKept /\ (~DoneFor(List)' => ~DoneFor(List) /\ KeptFor(List))
    BY NothingHappens
  <1>3. mutation' # NoMutation => mutation'.mounted \/ (mutation # NoMutation /\ ~mutation.mounted)
    BY <1>1
  <1> QED
    BY <1>2, <1>3, ReviewKept

StoreOK == CacheOK /\ FetchOK

LEMMA ReadStep ==
    ASSUME PageInv, NEW q \in Active, Read(q)
    PROVE  StoreOK' /\ MutationOK' /\ ReviewOK'
  <1>1. /\ UNCHANGED <<serverVars, localVars, cache, mutation, foreign>>
        /\ fetch' = Put(fetch, q, [answer |-> Answer(q), since |-> foreign])
    BY DEF Read
  <1>2. UNCHANGED <<versions, history, request, compare, form>>
    BY <1>1 DEF serverVars, localVars
  <1>w. VersionsKept /\ \A p : ~DoneFor(p)' => ~DoneFor(p) /\ KeptFor(p)
    BY <1>1, NothingHappens
  <1>3. foreign \in Nat /\ CacheOK /\ FetchOK /\ MutationOK /\ ReviewOK
    BY DEF PageInv, ReviewOK
  <1>4. Sound(q, Answer(q)) /\ Truth(q, Answer(q))
    <2>1. TypeOK /\ OneDraft /\ MainChain /\ Mains # {}
      BY DEF PageInv, IInv, ChainInv
    <2>2. q.name = "diff" => q.to \in Mains
      BY <1>3, ActiveSound
    <2>3. q.name = "branch-diff" => q.to \in DOMAIN versions
      BY <1>3, ActiveSound
    <2> QED
      BY <2>1, <2>2, <2>3, AnswersTrue
  <1>5. PICK e : e = [answer |-> Answer(q), since |-> foreign]
    OBVIOUS
  <1>6. e.answer = Answer(q) /\ e.since = foreign /\ DOMAIN e = {"answer", "since"}
    BY <1>5
  <1>7. Timely(q, e) /\ Right(q, e)
    BY <1>3, <1>4, <1>6 DEF Timely, Right
  <1>8. Timely(q, e)' /\ Right(q, e)'
    BY <1>1, <1>7, <1>w, EntriesKept
  <1>9. /\ DOMAIN fetch' = DOMAIN fetch \cup {q} /\ fetch'[q] = e
        /\ \A p \in DOMAIN fetch : p # q => fetch'[p] = fetch[p]
    <2>1. fetch' = Put(fetch, q, e)
      BY <1>1, <1>5
    <2> QED
      BY <2>1 DEF Put
  <1>10. ASSUME NEW p \in DOMAIN fetch'
         PROVE  DOMAIN fetch'[p] = {"answer", "since"} /\ Timely(p, fetch[p])' /\ Right(p, fetch[p])'
    <2>1. CASE p = q
      <3>1. Timely(q, fetch[q])' /\ Right(q, fetch[q])'
        BY <1>8, <1>9 DEF Timely, Right, Sound, Truth
      <3> QED
        BY <1>6, <1>9, <2>1, <3>1
    <2>2. CASE p # q
      <3>1. PICK d : d = fetch[p]
        OBVIOUS
      <3>2. p \in DOMAIN fetch /\ d = fetch'[p]
        BY <1>9, <2>2, <3>1
      <3>3. DOMAIN d = {"answer", "since"} /\ Timely(p, d) /\ Right(p, d)
        BY <1>3, <3>1, <3>2 DEF FetchOK
      <3>4. Timely(p, d)' /\ Right(p, d)'
        BY <1>1, <1>w, <3>3, EntriesKept
      <3> QED
        BY <3>2, <3>3, <3>4 DEF Timely, Right, Sound, Truth
    <2> QED
      BY <2>1, <2>2
  <1>11. FetchOK'
    BY <1>10 DEF FetchOK
  <1>12. CacheOK'
    BY <1>1, <1>3, <1>w, CacheKept
  <1>13. MutationOK'
    BY <1>1, <1>2, <1>3 DEF MutationOK
  <1>14. ReviewOK'
    BY <1>1, <1>2, <1>3, <1>w, ReviewSame
  <1> QED
    BY <1>11, <1>12, <1>13, <1>14 DEF StoreOK

LEMMA ArriveStep ==
    ASSUME PageInv, NEW q \in DOMAIN fetch, Arrive(q)
    PROVE  StoreOK' /\ MutationOK' /\ ReviewOK'
  <1>1. /\ UNCHANGED <<serverVars, localVars, mutation, foreign>>
        /\ cache' = Put(cache, q, [answer |-> fetch[q].answer, since |-> fetch[q].since, stale |-> FALSE])
        /\ fetch' = Drop(fetch, {q})
    BY DEF Arrive
  <1>2. UNCHANGED <<versions, history, request, compare, form>>
    BY <1>1 DEF serverVars, localVars
  <1>3. foreign \in Nat /\ CacheOK /\ FetchOK /\ MutationOK /\ ReviewOK
    BY DEF PageInv, ReviewOK
  <1>w. VersionsKept /\ \A p : ~DoneFor(p)' => ~DoneFor(p) /\ KeptFor(p)
    BY <1>1, NothingHappens
  <1>5. PICK e : e = [answer |-> fetch[q].answer, since |-> fetch[q].since, stale |-> FALSE]
    OBVIOUS
  <1>6. /\ e.answer = fetch[q].answer /\ e.since = fetch[q].since
        /\ DOMAIN e = {"answer", "since", "stale"} /\ e.stale = FALSE
    BY <1>5
  <1>7. Timely(q, e) /\ Right(q, e)
    <2>1. Timely(q, fetch[q]) /\ Right(q, fetch[q])
      BY <1>3 DEF FetchOK
    <2> QED
      BY <1>6, <2>1 DEF Timely, Right
  <1>8. Timely(q, e)' /\ Right(q, e)'
    BY <1>1, <1>7, <1>w, EntriesKept
  <1>9. /\ DOMAIN cache' = DOMAIN cache \cup {q} /\ cache'[q] = e
        /\ \A p \in DOMAIN cache : p # q => cache'[p] = cache[p]
    <2>1. cache' = Put(cache, q, e)
      BY <1>1, <1>5
    <2> QED
      BY <2>1 DEF Put
  <1>10. ASSUME NEW p \in DOMAIN cache'
         PROVE  /\ DOMAIN cache'[p] = {"answer", "since", "stale"} /\ cache'[p].stale \in BOOLEAN
                /\ Timely(p, cache[p])' /\ (~cache'[p].stale => Right(p, cache[p])')
    <2>1. CASE p = q
      <3>1. Timely(q, cache[q])' /\ Right(q, cache[q])'
        BY <1>8, <1>9 DEF Timely, Right, Sound, Truth
      <3> QED
        BY <1>6, <1>9, <2>1, <3>1
    <2>2. CASE p # q
      <3>1. PICK d : d = cache[p]
        OBVIOUS
      <3>2. p \in DOMAIN cache /\ d = cache'[p]
        BY <1>9, <2>2, <3>1
      <3>3. /\ DOMAIN d = {"answer", "since", "stale"} /\ d.stale \in BOOLEAN
            /\ Timely(p, d) /\ (~d.stale => Right(p, d))
        BY <1>3, <3>1, <3>2 DEF CacheOK
      <3>4. Timely(p, d)' /\ (~d.stale => Right(p, d)')
        BY <1>1, <1>w, <3>3, EntriesKept
      <3> QED
        BY <3>2, <3>3, <3>4 DEF Timely, Right, Sound, Truth
    <2> QED
      BY <2>1, <2>2
  <1>11. CacheOK'
    BY <1>10 DEF CacheOK
  <1>12. FetchOK'
    <2>1. DOMAIN fetch' = DOMAIN fetch \ {q} /\ \A p \in DOMAIN fetch' : fetch'[p] = fetch[p]
      BY <1>1 DEF Drop
    <2>2. ASSUME NEW p \in DOMAIN fetch'
          PROVE  DOMAIN fetch'[p] = {"answer", "since"} /\ Timely(p, fetch[p])' /\ Right(p, fetch[p])'
      <3>1. PICK d : d = fetch[p]
        OBVIOUS
      <3>2. p \in DOMAIN fetch /\ d = fetch'[p]
        BY <2>1, <3>1
      <3>3. DOMAIN d = {"answer", "since"} /\ Timely(p, d) /\ Right(p, d)
        BY <1>3, <3>1, <3>2 DEF FetchOK
      <3>4. Timely(p, d)' /\ Right(p, d)'
        BY <1>1, <1>w, <3>3, EntriesKept
      <3> QED
        BY <3>2, <3>3, <3>4 DEF Timely, Right, Sound, Truth
    <2> QED
      BY <2>2 DEF FetchOK
  <1>13. MutationOK'
    BY <1>1, <1>2, <1>3 DEF MutationOK
  <1>14. ReviewOK'
    BY <1>1, <1>2, <1>3, <1>w, ReviewSame
  <1> QED
    BY <1>11, <1>12, <1>13, <1>14 DEF StoreOK

\* A settled status is true.
LEMMA StatusTrue ==
    ASSUME PageInv, Enabled(PublicationDiff), Settled({List, CurrentDraft, PublicationDiff})
    PROVE  Pending = Changed(Drafts) /\ Shown[LatestPublished].label = Current /\ ShownDraft = Draft
  <1>0. TypeOK /\ OneDraft /\ MainChain /\ Mains # {} /\ PublishedIsBase /\ CacheOK
    BY DEF PageInv, IInv, ChainInv
  <1>1. ASSUME NEW q \in {List, CurrentDraft, PublicationDiff}
        PROVE  q \in DOMAIN cache /\ Sound(q, cache[q].answer) /\ Truth(q, cache[q].answer)
    <2>1. q \in DOMAIN cache /\ ~cache[q].stale /\ cache[q].since = foreign /\ mutation = NoMutation
      BY <1>1 DEF Settled, Fresh, Known
    <2> QED
      BY <1>0, <2>1 DEF CacheOK, Timely, Right, DoneFor
  <1>2. Shown = [v \in Mains |-> versions[v]]
    <2>1. List.name = "list" /\ Answer(List) = [v \in Mains |-> versions[v]]
      BY AnswerOf DEF List, Query
    <2> QED
      BY <1>1, <2>1 DEF Shown, Known, Data, Truth
  <1>3. ShownDraft = Draft
    <2>1. CurrentDraft.name = "current-draft" /\ Answer(CurrentDraft) = Draft
      BY AnswerOf DEF CurrentDraft, Query
    <2> QED
      BY <1>1, <2>1 DEF ShownDraft, Known, Data, Truth
  <1>4. PICK p : p = LatestPublished
    OBVIOUS
  <1>5. p \in Mains /\ versions[p].state = "PUBLISHED"
    <2> DEFINE published == {v \in DOMAIN Shown : Shown[v].state = "PUBLISHED"}
    <2>1. published = {v \in Mains : versions[v].state = "PUBLISHED"}
      BY <1>2
    <2>2. LatestPublished = IF published = {} THEN Null
                            ELSE CHOOSE v \in published : \A u \in published : Shown[u].publishedAt <= Shown[v].publishedAt
      BY DEF LatestPublished
    <2>3. p # Null
      BY <1>4 DEF Enabled, PublicationDiff, Diff, Query
    <2>4. PICK v : v \in published
      BY <1>4, <2>2, <2>3
    <2>5. \A u \in published : u = v
      <3>1. published \subseteq {u \in Released : versions[u].state = "PUBLISHED"}
        BY <2>1 DEF Released, Mains
      <3> QED
        BY <1>0, <2>4, <3>1 DEF OneDraft
    <2>6. versions[v].publishedAt \in Nat
      <3>1. v \in DOMAIN versions
        BY <2>1, <2>4 DEF Mains
      <3>2. versions[v] \in ModelVersion
        BY <1>0, <3>1, MainsTyped
      <3> QED
        BY <3>2, VersionsAssumption DEF ModelVersion, VersionId, Null
    <2>7. \A u \in published : Shown[u].publishedAt <= Shown[v].publishedAt
      <3>1. Shown[v] = versions[v]
        BY <1>2, <2>1, <2>4
      <3> QED
        BY <2>5, <2>6, <3>1
    <2> HIDE DEF published
    <2>8. p \in published
      BY <1>4, <2>2, <2>4, <2>7
    <2> QED
      BY <2>1, <2>8
  <1>6. Shown[p].label = Current
    <2> DEFINE live == {v \in Released : versions[v].state = "PUBLISHED"}
    <2>1. p \in live
      BY <1>5 DEF Released, Mains
    <2>2. live = {p}
      BY <1>0, <2>1 DEF OneDraft
    <2>3. Current = versions[CHOOSE v \in live : TRUE].label
      BY <2>1 DEF Current
    <2> HIDE DEF live
    <2> QED
      BY <1>2, <1>5, <2>2, <2>3
  <1>7. Draft \in Mains /\ Drafts = {Draft} /\ versions[Draft].state = "DRAFT"
    BY <1>0, DraftIsNewest DEF Closed
  <1>8. versions[Draft].base = p
    BY <1>0, <1>5, <1>7 DEF PublishedIsBase
  <1>9. PublicationDiff.name = "diff" /\ PublicationDiff.from = p /\ PublicationDiff.to = Draft
    BY <1>3, <1>4 DEF PublicationDiff, Diff, Query
  <1>10. Changes(cache[PublicationDiff].answer) = Changed({Draft})
    BY <1>1, <1>8, <1>9 DEF Truth
  <1>11. Pending = Changes(cache[PublicationDiff].answer)
    BY <1>1 DEF Pending, Known, Data
  <1> QED
    BY <1>3, <1>4, <1>6, <1>7, <1>10, <1>11

LEMMA StaysStored ==
    ASSUME PageInv, StaysHere, \A q : ~DoneFor(q)' => ~DoneFor(q)
    PROVE  StoreOK'
  <1>1. UNCHANGED <<versions, history, cache, fetch, foreign>>
    BY DEF StaysHere, serverVars
  <1>2. VersionsKept /\ \A q : ~DoneFor(q)' => ~DoneFor(q) /\ KeptFor(q)
    BY <1>1, NothingChanged DEF VersionsKept
  <1> QED
    BY <1>1, <1>2, CacheKept, FetchKept DEF PageInv, StoreOK

\* A click that sends nothing.
LEMMA LocalStep ==
    ASSUME PageInv, Local
    PROVE  StoreOK' /\ MutationOK'
  <1>1. StaysHere /\ UNCHANGED <<serverVars, mutation, foreign, request>>
    BY DEF Local, StaysHere, serverVars
  <1>2. \A q : ~DoneFor(q)' => ~DoneFor(q)
    BY <1>1 DEF DoneFor
  <1> QED
    BY <1>1, <1>2, StaysStored DEF PageInv, MutationOK

LEMMA FormSteps ==
    ASSUME PageInv, OpenForm \/ CancelForm \/ ConfirmReview
    PROVE  StoreOK' /\ MutationOK' /\ ReviewOK'
  <1>1. Local /\ compare' = compare
    BY DEF OpenForm, CancelForm, ConfirmReview
  <1>2. UNCHANGED <<versions, history, mutation, foreign>>
    BY <1>1 DEF Local, StaysHere, serverVars
  <1>3. /\ ReviewOK /\ foreign \in Nat
        /\ Mains' = Mains /\ Changed(Drafts)' = Changed(Drafts) /\ (DoneFor(List)' <=> DoneFor(List))
    BY <1>2 DEF PageInv, ReviewOK, Mains, Changed, Drafts, Entries, IsMain, DoneFor
  <1>4. form' \in {NoForm, Unconfirmed} => ReviewOK'
    BY <1>1, <1>2, <1>3 DEF ReviewOK, Reviewed
  <1>5. ASSUME ConfirmReview PROVE ReviewOK'
    <2>1. form' = [changes |-> Pending, since |-> ReviewSince]
      BY <1>5 DEF ConfirmReview
    <2>2. form'.changes = Pending /\ form'.since = ReviewSince
      BY <2>1
    <2>3. ReviewSince = foreign \/ ReviewSince = -1
      BY DEF ReviewSince
    <2>4. ReviewSince = foreign => mutation = NoMutation /\ Pending = Changed(Drafts)
      <3>1. SUFFICES ASSUME ReviewSince = foreign PROVE mutation = NoMutation /\ Pending = Changed(Drafts)
        OBVIOUS
      <3>2. Enabled(PublicationDiff) /\ Settled({List, CurrentDraft, PublicationDiff})
        BY <1>3, <3>1 DEF ReviewSince
      <3> QED
        BY <3>2, StatusTrue DEF Settled
    <2> QED
      BY <1>1, <1>2, <1>3, <2>2, <2>3, <2>4 DEF ReviewOK, Reviewed
  <1>6. form' \in {NoForm, Unconfirmed} \/ ConfirmReview
    BY DEF OpenForm, CancelForm
  <1> QED
    BY <1>1, <1>4, <1>5, <1>6, LocalStep

LEMMA CompareStep ==
    ASSUME PageInv, NEW side \in {"from", "to"}, NEW v, Compare(side, v)
    PROVE  StoreOK' /\ MutationOK' /\ ReviewOK'
  <1>1. Local /\ form' = form /\ v \in VersionsForSelect /\ compare' = [compare EXCEPT ![side] = v]
    BY DEF Compare
  <1>2. UNCHANGED <<versions, history, mutation, foreign>>
    BY <1>1 DEF Local, StaysHere, serverVars
  <1>3. /\ ReviewOK /\ CacheOK
        /\ Mains' = Mains /\ Changed(Drafts)' = Changed(Drafts) /\ (DoneFor(List)' <=> DoneFor(List))
    BY <1>2 DEF PageInv, Mains, Changed, Drafts, Entries, IsMain, DoneFor
  <1>4. v \in Mains \cup {Null}
    <2>1. ASSUME Known(List) PROVE DOMAIN Shown \subseteq Mains
      <3>1. Sound(List, cache[List].answer) /\ List.name = "list"
        BY <1>3, <2>1 DEF CacheOK, Timely, Known, List, Query
      <3> QED
        BY <2>1, <3>1 DEF Sound, Shown, Data
    <2>2. ~Known(List) => DOMAIN Shown = {}
      BY DEF Shown
    <2>3. ASSUME Known(CurrentDraft) PROVE ShownDraft \in Mains \cup {Null}
      <3>1. Sound(CurrentDraft, cache[CurrentDraft].answer) /\ CurrentDraft.name = "current-draft"
        BY <1>3, <2>3 DEF CacheOK, Timely, Known, CurrentDraft, Query
      <3> QED
        BY <2>3, <3>1 DEF Sound, ShownDraft, Data
    <2>4. ~Known(CurrentDraft) => ShownDraft = Null
      BY DEF ShownDraft
    <2> QED
      BY <1>1, <2>1, <2>2, <2>3, <2>4 DEF VersionsForSelect
  <1>5. compare'.to \in Mains \cup {Null}
    BY <1>1, <1>3, <1>4 DEF ReviewOK
  <1>6. ReviewOK'
    BY <1>1, <1>2, <1>3, <1>5 DEF ReviewOK, Reviewed
  <1> QED
    BY <1>1, <1>6, LocalStep

LEMMA SelectStep ==
    ASSUME PageInv, NEW b, Select(b)
    PROVE  StoreOK' /\ MutationOK' /\ ReviewOK'
  <1>1. Local /\ UNCHANGED <<compare, form>>
    BY DEF Select
  <1>2. ReviewOK /\ UNCHANGED <<serverVars, mutation, foreign>>
    BY <1>1 DEF Local, StaysHere, PageInv
  <1>3. ReviewOK'
    BY <1>1, <1>2, ReviewSame
  <1> QED
    BY <1>1, <1>3, LocalStep

\* Leaving a page.
LEMMA OpenStep ==
    ASSUME PageInv, NEW p, Open(p)
    PROVE  StoreOK' /\ MutationOK' /\ ReviewOK'
  <1>1. /\ StaysHere /\ form' = NoForm /\ compare' = [from |-> Null, to |-> Null]
        /\ mutation' = IF mutation = NoMutation THEN NoMutation ELSE [mutation EXCEPT !.mounted = FALSE]
    BY DEF Open
  <1>2. UNCHANGED <<versions, history, request, cache, fetch, foreign>>
    BY <1>1 DEF StaysHere, serverVars
  <1>3. ReviewOK /\ MutationOK
    BY DEF PageInv
  <1>4. /\ mutation' \in Mutation \cup {NoMutation}
        /\ mutation' = NoMutation <=> mutation = NoMutation
        /\ mutation # NoMutation => mutation'.kind = mutation.kind /\ mutation'.fate = mutation.fate
    <2>1. CASE mutation = NoMutation
      BY <1>1, <2>1
    <2>2. CASE mutation # NoMutation
      <3>1. mutation \in Mutation
        BY <1>3, <2>2 DEF MutationOK
      <3>2. mutation' \in Mutation
        BY <1>1, <2>2, <3>1, MutationFields
      <3>3. mutation'.kind = mutation.kind /\ mutation'.fate = mutation.fate
        BY <1>1, <2>2, <3>1 DEF Mutation, MutationOf
      <3> QED
        BY <2>2, <3>2, <3>3, PageAssumption
    <2> QED
      BY <2>1, <2>2
  <1>5. \A q : DoneFor(q)' <=> DoneFor(q)
    BY <1>4 DEF DoneFor
  <1>6. StoreOK'
    BY <1>1, <1>5, StaysStored
  <1>7. MutationOK'
    BY <1>2, <1>3, <1>4 DEF MutationOK
  <1>8. ReviewOK'
    BY <1>1, <1>2, <1>3 DEF ReviewOK, Reviewed
  <1> QED
    BY <1>6, <1>7, <1>8

\* A click that sends a change.
LEMMA SendStep ==
    ASSUME PageInv, UNCHANGED localVars, NEW kind, NEW argument, Send(kind, argument),
           \/ kind = "publish" /\ argument \in Labels
           \/ kind = "create" /\ argument \in BranchNames
           \/ kind \in {"rollback", "discard"} /\ argument \in VersionId
    PROVE  StoreOK' /\ MutationOK' /\ ReviewOK'
  <1> DEFINE m == [kind |-> kind, argument |-> argument, fate |-> "sent", created |-> Null, mounted |-> TRUE]
  <1>1. mutation = NoMutation /\ mutation' = m /\ StaysHere
    BY DEF Send
  <1>2. UNCHANGED <<serverVars, versions, history, request, cache, fetch, foreign, compare, form>>
    BY <1>1 DEF StaysHere, serverVars, localVars
  <1>3. m.fate = "sent" /\ m.mounted /\ m \in Mutation
    BY DEF Mutation, MutationOf, Null
  <1> HIDE DEF m
  <1>4. \A q : ~DoneFor(q)' /\ ~DoneFor(q)
    BY <1>1, <1>3 DEF DoneFor
  <1>5. StoreOK'
    BY <1>1, <1>4, StaysStored
  <1>6. MutationOK'
    BY <1>1, <1>2, <1>3 DEF PageInv, MutationOK
  <1>7. ReviewOK'
    <2>1. VersionsKept /\ KeptFor(List)
      BY <1>2, NothingChanged DEF VersionsKept
    <2> QED
      BY <1>1, <1>2, <1>3, <1>4, <2>1, ReviewKept DEF PageInv
  <1> QED
    BY <1>5, <1>6, <1>7

-----------------------------------------------------------------------------
(* Steps of the server, and its answers *)

\* A step that tells the page nothing yet.
LEMMA Unnoticed ==
    ASSUME PageInv, VersionsKept, UNCHANGED <<cache, fetch, foreign, form, compare>>,
           \A q : ~DoneFor(q)' => ~DoneFor(q) /\ KeptFor(q),
           mutation' # NoMutation => mutation'.mounted \/ (mutation # NoMutation /\ ~mutation.mounted)
    PROVE  StoreOK' /\ ReviewOK'
  <1>1. CacheOK /\ FetchOK /\ ReviewOK
    BY DEF PageInv
  <1> QED
    BY <1>1, CacheKept, FetchKept, ReviewKept DEF StoreOK

\* What a step does to the change under way.
LEMMA Goes ==
    ASSUME MutationOK, mutation # NoMutation, NEW fate \in {"sent", "begun", "done", "failed"}, Fate(fate)
    PROVE  /\ mutation' \in Mutation /\ mutation' # NoMutation
           /\ mutation'.fate = fate /\ mutation'.kind = mutation.kind /\ mutation'.mounted = mutation.mounted
           /\ mutation.mounted \in BOOLEAN
  <1>1. mutation \in Mutation
    BY DEF MutationOK
  <1>2. PICK m : m = mutation
    OBVIOUS
  <1>3. mutation' = [m EXCEPT !.fate = fate]
    BY <1>2 DEF Fate
  <1>4. m \in Mutation /\ [m EXCEPT !.fate = fate] \in Mutation /\ m.mounted \in BOOLEAN
    BY <1>1, <1>2, MutationFields
  <1>5. LET w == [m EXCEPT !.fate = fate] IN
        w.fate = fate /\ w.kind = m.kind /\ w.mounted = m.mounted
    BY <1>4 DEF Mutation, MutationOf
  <1> QED
    BY <1>2, <1>3, <1>4, <1>5, PageAssumption

LEMMA ReceivedStep ==
    ASSUME PageInv, Received
    PROVE  StoreOK' /\ MutationOK' /\ ReviewOK'
  <1>1. /\ mutation # NoMutation /\ mutation.fate = "sent" /\ Fate("begun")
        /\ UNCHANGED <<localVars, cache, fetch, foreign>>
    BY DEF Received, Sent
  <1>2. /\ mutation' \in Mutation /\ mutation' # NoMutation
        /\ mutation'.fate = "begun" /\ mutation'.kind = mutation.kind /\ mutation'.mounted = mutation.mounted
        /\ mutation.mounted \in BOOLEAN
    BY <1>1, Goes DEF PageInv
  <1>3. /\ UNCHANGED <<versions, history>>
        /\ request'[Tab].op = OpOf(mutation.kind) /\ request'[Tab] # Idle
    <2>1. request \in [Handlers -> Request] /\ Tab \in Handlers
      BY PageAssumption DEF PageInv, IInv, TypeOK
    <2>2. CASE mutation.kind = "publish" /\ BeginPublish(Tab, mutation.argument)
      <3>1. Start(Tab, [op |-> "PUBLISH", version |-> Draft, label |-> mutation.argument])
        BY <2>2 DEF BeginPublish
      <3>2. request'[Tab] = [op |-> "PUBLISH", version |-> Draft, label |-> mutation.argument]
        BY <2>1, <3>1 DEF Start
      <3>3. request'[Tab].op = "PUBLISH"
        BY <3>2
      <3> QED
        BY <2>2, <3>1, <3>3 DEF Start, OpOf, Idle
    <2>3. CASE mutation.kind = "create" /\ BeginFork(Tab, mutation.argument)
      <3>1. Start(Tab, [op |-> "FORK", version |-> Draft, name |-> mutation.argument])
        BY <2>3 DEF BeginFork
      <3>2. request'[Tab] = [op |-> "FORK", version |-> Draft, name |-> mutation.argument]
        BY <2>1, <3>1 DEF Start
      <3>3. request'[Tab].op = "FORK"
        BY <3>2
      <3> QED
        BY <2>3, <3>1, <3>3 DEF Start, OpOf, Idle
    <2>4. CASE mutation.kind = "discard" /\ BeginDiscard(Tab, mutation.argument)
      <3>1. Start(Tab, [op |-> "DISCARD", version |-> mutation.argument])
        BY <2>4 DEF BeginDiscard
      <3>2. request'[Tab] = [op |-> "DISCARD", version |-> mutation.argument]
        BY <2>1, <3>1 DEF Start
      <3>3. request'[Tab].op = "DISCARD"
        BY <3>2
      <3> QED
        BY <2>4, <3>1, <3>3 DEF Start, OpOf, Idle
    <2> QED
      BY <2>2, <2>3, <2>4 DEF Received
  <1>4. MutationOK'
    BY <1>2, <1>3 DEF MutationOK
  <1>5. VersionsKept /\ \A q : KeptFor(q)
    BY <1>3, NothingChanged DEF VersionsKept
  <1>6. \A q : ~DoneFor(q) /\ ~DoneFor(q)'
    BY <1>1, <1>2 DEF DoneFor
  <1> QED
    BY <1>1, <1>2, <1>4, <1>5, <1>6, Unnoticed DEF localVars

\* Refused by the checks, or aborted on the way.
LEMMA RefusedStep ==
    ASSUME PageInv, Refused \/ Aborted
    PROVE  StoreOK' /\ MutationOK' /\ ReviewOK'
  <1>0. MutationOK /\ request \in [Handlers -> Request] /\ Tab \in Handlers
    BY PageAssumption DEF PageInv, IInv, TypeOK
  <1>1. /\ mutation # NoMutation /\ mutation.fate # "done" /\ Fate("failed")
        /\ UNCHANGED <<localVars, cache, fetch, foreign>>
    BY <1>0 DEF Refused, Aborted, Abort, Sent, MutationOK
  <1>2. /\ mutation' \in Mutation /\ mutation' # NoMutation
        /\ mutation'.fate = "failed" /\ mutation'.kind = mutation.kind /\ mutation'.mounted = mutation.mounted
        /\ mutation.mounted \in BOOLEAN
    BY <1>0, <1>1, Goes
  <1>3. UNCHANGED <<versions, history>> /\ request'[Tab] = Idle
    BY <1>0 DEF Refused, Aborted, Abort, Sent, Finish, serverVars
  <1>4. MutationOK'
    BY <1>2, <1>3 DEF MutationOK
  <1>5. VersionsKept /\ \A q : KeptFor(q)
    BY <1>3, NothingChanged DEF VersionsKept
  <1>6. \A q : ~DoneFor(q) /\ ~DoneFor(q)'
    BY <1>1, <1>2 DEF DoneFor
  <1> QED
    BY <1>1, <1>2, <1>4, <1>5, <1>6, Unnoticed DEF localVars

\* A commit changes what its answer will make stale, and nothing else that the page shows.
LEMMA CommittedStep ==
    ASSUME PageInv, Committed
    PROVE  StoreOK' /\ MutationOK' /\ ReviewOK'
  <1>0. /\ IInv /\ MutationOK /\ request \in [Handlers -> Request] /\ Tab \in Handlers
        /\ TypeOK /\ RequestsOK /\ Len(versions) \in Nat
    BY PageAssumption DEF PageInv, IInv, TypeOK
  <1>1. /\ CommitPublish(Tab) \/ CommitFork(Tab) \/ CommitDiscard(Tab)
        /\ UNCHANGED <<localVars, cache, fetch, foreign>>
    BY DEF Committed
  <1>2. request[Tab].op \in {"PUBLISH", "FORK", "DISCARD"} /\ request[Tab] # Idle
    BY <1>1 DEF CommitPublish, CommitFork, CommitDiscard, Idle
  <1>3. /\ mutation # NoMutation /\ mutation \in Mutation /\ mutation.fate = "begun"
        /\ request[Tab].op = OpOf(mutation.kind)
    BY <1>0, <1>2 DEF MutationOK
  <1>4. /\ mutation' \in Mutation /\ mutation' # NoMutation
        /\ mutation'.fate = "done" /\ mutation'.kind = mutation.kind /\ mutation'.mounted = mutation.mounted
        /\ mutation.mounted \in BOOLEAN
    <2>1. PICK m : m = mutation
      OBVIOUS
    <2>2. PICK k : k = IF mutation.kind = "create" THEN Len(versions) + 1 ELSE Null
      OBVIOUS
    <2>3. k \in Nat
      BY <1>0, <2>2 DEF Null
    <2>4. mutation' = [m EXCEPT !.fate = "done", !.created = k]
      BY <2>1, <2>2 DEF Committed
    <2>5. m \in Mutation /\ [m EXCEPT !.fate = "done", !.created = k] \in Mutation /\ m.mounted \in BOOLEAN
      BY <1>3, <2>1, <2>3, MutationFields
    <2>6. LET w == [m EXCEPT !.fate = "done", !.created = k] IN
          w.fate = "done" /\ w.kind = m.kind /\ w.mounted = m.mounted
      BY <2>5 DEF Mutation, MutationOf
    <2> QED
      BY <2>1, <2>4, <2>5, <2>6, PageAssumption
  <1>5. VersionsKept
    BY <1>0, <1>1, PublishedVersions, ForkedVersions, DiscardedVersions
  <1>6. \A q : ~DoneFor(q) /\ (DoneFor(q)' <=> Invalidates(q, mutation.kind))
    BY <1>3, <1>4 DEF DoneFor, Invalidates
  <1>7. ASSUME NEW q, ~DoneFor(q)'
        PROVE  KeptFor(q)
    <2>1. ~Invalidates(q, mutation.kind)
      BY <1>6, <1>7
    <2>2. CASE CommitPublish(Tab)
      <3>1. request[Tab].op = "PUBLISH"
        BY <2>2 DEF CommitPublish
      <3>2. mutation.kind = "publish"
        BY <1>3, <3>1 DEF OpOf
      <3>3. ~ModelVersionsKey(q)
        BY <2>1, <3>2 DEF Invalidates
      <3> QED
        BY <1>0, <2>2, <3>3, PublishKeepsBranches DEF KeptFor
    <2>3. CASE CommitFork(Tab) \/ CommitDiscard(Tab)
      <3>1. request[Tab].op # "PUBLISH"
        BY <2>3 DEF CommitFork, CommitDiscard
      <3>2. mutation.kind # "publish"
        BY <1>3, <3>1 DEF OpOf
      <3>3. ~WhatIfBranchesKey(q)
        BY <2>1, <3>2 DEF Invalidates
      <3> QED
        BY <1>0, <2>3, <3>3, BranchKeepsMain DEF KeptFor
    <2> QED
      BY <1>1, <2>2, <2>3
  <1>8. request'[Tab] = Idle
    BY <1>0, <1>1 DEF CommitPublish, CommitFork, CommitDiscard, Finish
  <1>9. MutationOK'
    BY <1>4, <1>8 DEF MutationOK
  <1>10. UNCHANGED <<cache, fetch, foreign, form, compare>>
    BY <1>1 DEF localVars
  <1>11. \A q : ~DoneFor(q)' => ~DoneFor(q) /\ KeptFor(q)
    BY <1>6, <1>7
  <1>12. mutation'.mounted \/ (mutation # NoMutation /\ ~mutation.mounted)
    BY <1>3, <1>4
  <1> QED
    BY <1>5, <1>9, <1>10, <1>11, <1>12, Unnoticed

\* A step that the page does not know of.
LEMMA NotKnown ==
    ASSUME PageInv, VersionsKept, UNCHANGED <<cache, fetch, form, compare>>, foreign' = foreign + 1
    PROVE  StoreOK' /\ ReviewOK'
  <1>0. CacheOK /\ FetchOK /\ ReviewOK /\ foreign \in Nat
    BY DEF PageInv, ReviewOK
  <1>1. ASSUME NEW q \in DOMAIN cache
        PROVE  Timely(q, cache[q])' /\ Right(q, cache[q])'
    <2>1. PICK e : e = cache[q]
      OBVIOUS
    <2>2. Timely(q, e)
      BY <1>0, <2>1 DEF CacheOK
    <2>3. Timely(q, e)' /\ Right(q, e)'
      BY <1>0, <2>2, Outdated
    <2>4. e = cache'[q]
      BY <2>1
    <2> QED
      BY <2>3, <2>4 DEF Timely, Right, Sound, Truth
  <1>2. CacheOK'
    BY <1>0, <1>1 DEF CacheOK
  <1>3. ASSUME NEW q \in DOMAIN fetch
        PROVE  Timely(q, fetch[q])' /\ Right(q, fetch[q])'
    <2>1. PICK e : e = fetch[q]
      OBVIOUS
    <2>2. Timely(q, e)
      BY <1>0, <2>1 DEF FetchOK
    <2>3. Timely(q, e)' /\ Right(q, e)'
      BY <1>0, <2>2, Outdated
    <2>4. e = fetch'[q]
      BY <2>1
    <2> QED
      BY <2>3, <2>4 DEF Timely, Right, Sound, Truth
  <1>4. FetchOK'
    BY <1>0, <1>3 DEF FetchOK
  <1>5. ReviewOK'
    <2>1. Mains \subseteq Mains'
      BY DEF Mains, IsMain, VersionsKept
    <2>2. foreign' \in Nat /\ foreign <= foreign' /\ foreign' > foreign
      BY <1>0
    <2>3. form \notin {NoForm, Unconfirmed} => form.since \in Int /\ form.since <= foreign' /\ form.since # foreign'
      BY <1>0, <2>2 DEF ReviewOK
    <2>4. ~Reviewed'
      BY <2>3 DEF Reviewed
    <2> QED
      BY <1>0, <2>1, <2>2, <2>3, <2>4 DEF ReviewOK
  <1> QED
    BY <1>2, <1>4, <1>5 DEF StoreOK

LEMMA FailedStep ==
    ASSUME PageInv, Failed
    PROVE  StoreOK' /\ MutationOK' /\ ReviewOK'
  <1>1. /\ mutation # NoMutation /\ mutation.fate \in {"failed", "done"} /\ mutation' = NoMutation
        /\ foreign' = IF mutation.fate = "done" THEN foreign + 1 ELSE foreign
        /\ UNCHANGED <<serverVars, localVars, cache, fetch>>
    BY DEF Failed
  <1>2. UNCHANGED <<versions, history, request, form, compare>> /\ MutationOK
    BY <1>1 DEF serverVars, localVars, PageInv
  <1>3. MutationOK'
    BY <1>1, <1>2 DEF MutationOK
  <1>4. VersionsKept /\ \A q : KeptFor(q)
    BY <1>2, NothingChanged DEF VersionsKept
  <1>5. CASE mutation.fate = "done"
    BY <1>1, <1>2, <1>3, <1>4, <1>5, NotKnown
  <1>6. CASE mutation.fate # "done"
    <2>1. \A q : ~DoneFor(q) /\ ~DoneFor(q)'
      BY <1>1, <1>6 DEF DoneFor
    <2> QED
      BY <1>1, <1>2, <1>3, <1>4, <1>6, <2>1, Unnoticed
  <1> QED
    BY <1>5, <1>6

LEMMA ElsewhereStep ==
    ASSUME PageInv, NEW h \in Handlers \ {Tab}, Elsewhere(h)
    PROVE  StoreOK' /\ MutationOK' /\ ReviewOK'
  <1>1. /\ Step(h) /\ UNCHANGED <<localVars, cache, fetch, mutation>>
        /\ foreign' = IF <<versions, capability, history>>' = <<versions, capability, history>>
                      THEN foreign ELSE foreign + 1
    BY DEF Elsewhere
  <1>2. request'[Tab] = request[Tab] /\ VersionsKept
    <2>1. IInv /\ [Next]_vars /\ Tab \in Handlers /\ Tab # h
      BY <1>1, PageAssumption DEF PageInv, Next
    <2> QED
      BY <1>1, <2>1, RequestStep, TableCases
  <1>3. MutationOK'
    BY <1>1, <1>2 DEF PageInv, MutationOK
  <1>4. \A q : DoneFor(q)' <=> DoneFor(q)
    BY <1>1 DEF DoneFor
  <1>5. mutation' # NoMutation => mutation'.mounted \/ (mutation # NoMutation /\ ~mutation.mounted)
    BY <1>1
  <1>6. CASE <<versions, capability, history>>' = <<versions, capability, history>>
    <2>1. \A q : KeptFor(q)
      BY <1>6, NothingChanged
    <2> QED
      BY <1>1, <1>2, <1>3, <1>4, <1>5, <1>6, <2>1, Unnoticed DEF localVars
  <1>7. CASE <<versions, capability, history>>' # <<versions, capability, history>>
    BY <1>1, <1>2, <1>3, <1>7, NotKnown DEF localVars
  <1> QED
    BY <1>6, <1>7

\* The answer makes stale what the change may have changed.
LEMMA SucceededStep ==
    ASSUME PageInv, Succeeded
    PROVE  StoreOK' /\ MutationOK' /\ ReviewOK'
  <1> DEFINE kind == mutation.kind
             hit(q) == Invalidates(q, kind)
  <1>1. /\ mutation # NoMutation /\ mutation.fate = "done" /\ mutation' = NoMutation
        /\ form' = IF kind = "publish" /\ mutation.mounted THEN NoForm ELSE form
        /\ UNCHANGED <<serverVars, compare, foreign>>
    BY DEF Succeeded
  <1>2. UNCHANGED <<versions, history, request>> /\ MutationOK /\ CacheOK /\ FetchOK /\ ReviewOK
    BY <1>1 DEF serverVars, PageInv
  <1>3. foreign \in Nat
    BY <1>2 DEF ReviewOK
  <1>4. VersionsKept /\ \A q : KeptFor(q)
    BY <1>2, NothingChanged DEF VersionsKept
  <1>5. \A q : ~DoneFor(q)' /\ (DoneFor(q) <=> hit(q))
    BY <1>1 DEF DoneFor
  <1>6. PICK removed : Invalidate(kind, removed)
    BY DEF Succeeded
  <1>7. ASSUME NEW q \in DOMAIN cache'
        PROVE  /\ DOMAIN cache'[q] = {"answer", "since", "stale"} /\ cache'[q].stale \in BOOLEAN
               /\ Timely(q, cache[q])'
               /\ ~cache'[q].stale => Right(q, cache[q])'
    <2>1. q \in DOMAIN cache /\ cache'[q] = [cache[q] EXCEPT !.stale = @ \/ hit(q)]
      BY <1>6 DEF Invalidate
    <2>2. PICK e : e = cache[q]
      OBVIOUS
    <2>3. /\ DOMAIN e = {"answer", "since", "stale"} /\ e.stale \in BOOLEAN
          /\ Timely(q, e) /\ (~e.stale => Right(q, e))
      BY <1>2, <2>1, <2>2 DEF CacheOK
    <2>4. PICK s : s = (e.stale \/ hit(q))
      OBVIOUS
    <2>5. PICK d : d = [e EXCEPT !.stale = s]
      OBVIOUS
    <2>6. cache'[q] = d
      BY <2>1, <2>2, <2>4, <2>5
    <2>7. DOMAIN d = {"answer", "since", "stale"} /\ d.answer = e.answer /\ d.since = e.since /\ d.stale = s
      BY <2>3, <2>5
    <2>8. s \in BOOLEAN /\ (~s => ~e.stale /\ ~hit(q))
      BY <2>3, <2>4
    <2>9. Timely(q, d) /\ (~s => Right(q, d) /\ ~DoneFor(q))
      BY <1>5, <2>3, <2>7, <2>8 DEF Timely, Right
    <2>10. Timely(q, d)'
      BY <1>1, <1>4, <2>9, TimelyKept
    <2>11. ~s => Right(q, d)'
      BY <1>1, <1>4, <2>9, RightKept DEF Timely
    <2> QED
      BY <2>6, <2>7, <2>8, <2>10, <2>11 DEF Timely, Right, Sound, Truth
  <1>8. CacheOK'
    BY <1>7 DEF CacheOK
  <1>9. ASSUME NEW q \in DOMAIN fetch'
        PROVE  DOMAIN fetch'[q] = {"answer", "since"} /\ Timely(q, fetch[q])' /\ Right(q, fetch[q])'
    <2>1. q \in DOMAIN fetch /\ fetch'[q] = IF hit(q) THEN [fetch[q] EXCEPT !.since = -1] ELSE fetch[q]
      BY <1>6 DEF Invalidate
    <2>2. PICK e : e = fetch[q]
      OBVIOUS
    <2>3. DOMAIN e = {"answer", "since"} /\ Timely(q, e) /\ Right(q, e)
      BY <1>2, <2>1, <2>2 DEF FetchOK
    <2>4. PICK d : d = fetch'[q]
      OBVIOUS
    <2>5. DOMAIN d = {"answer", "since"} /\ Timely(q, d) /\ Right(q, d) /\ (d.since = foreign => ~DoneFor(q))
      <3>1. CASE hit(q)
        <4>1. d = [e EXCEPT !.since = -1]
          BY <2>1, <2>2, <2>4, <3>1
        <4>2. DOMAIN d = {"answer", "since"} /\ d.answer = e.answer /\ d.since = -1
          BY <2>3, <4>1
        <4>3. -1 # foreign /\ -1 \in Int /\ -1 <= foreign
          BY <1>3
        <4> QED
          BY <2>3, <4>2, <4>3 DEF Timely, Right
      <3>2. CASE ~hit(q)
        BY <1>5, <2>1, <2>2, <2>3, <2>4, <3>2
      <3> QED
        BY <3>1, <3>2
    <2>6. Timely(q, d)'
      BY <1>1, <1>4, <2>5, TimelyKept
    <2>7. Right(q, d)'
      <3>1. CASE d.since = foreign
        BY <1>1, <1>4, <2>5, <3>1, RightKept DEF Timely
      <3>2. CASE d.since # foreign
        BY <1>1, <3>2 DEF Right
      <3> QED
        BY <3>1, <3>2
    <2> QED
      BY <2>4, <2>5, <2>6, <2>7 DEF Timely, Right, Sound, Truth
  <1>10. FetchOK'
    BY <1>9 DEF FetchOK
  <1>11. MutationOK'
    BY <1>1, <1>2 DEF MutationOK
  <1>12. ReviewOK'
    <2>1. Mains' = Mains /\ Changed(Drafts)' = Changed(Drafts)
      BY <1>4, DraftKept
    <2>2. ASSUME Reviewed' PROVE Reviewed /\ ~DoneFor(List) /\ form' = form
      <3>1. Reviewed /\ form' = form /\ ~(kind = "publish" /\ mutation.mounted)
        BY <1>1, <2>2 DEF Reviewed
      <3>2. kind # "publish"
        BY <1>1, <1>2, <3>1 DEF ReviewOK
      <3>3. ~hit(List)
        BY <3>2 DEF Invalidates, WhatIfBranchesKey, ModelVersionsKey, List, Query
      <3> QED
        BY <1>5, <3>1, <3>3
    <2>3. Reviewed' => form'.changes = Changed(Drafts)'
      BY <1>2, <2>1, <2>2 DEF ReviewOK
    <2>4. form' \notin {NoForm, Unconfirmed} => form'.since \in Int /\ form'.since <= foreign
      BY <1>1, <1>2 DEF ReviewOK
    <2> QED
      BY <1>1, <1>2, <1>3, <2>1, <2>3, <2>4 DEF ReviewOK
  <1> QED
    BY <1>8, <1>10, <1>11, <1>12 DEF StoreOK

-----------------------------------------------------------------------------
(* Every step *)

\* Every step of the page is one of the server, or none.
LEMMA PageSteps ==
    ASSUME PageInv, PageNext
    PROVE  [Next]_vars
  <1>1. UNCHANGED serverVars => UNCHANGED vars
    BY DEF serverVars, vars
  <1>2. Tab \in Handlers /\ TypeOK
    BY PageAssumption DEF PageInv, IInv
  <1>3. mutation # NoMutation => mutation \in Mutation
    BY DEF PageInv, MutationOK
  <1>4. CASE Received
    <2>1. mutation # NoMutation
      BY <1>4 DEF Received, Sent
    <2>2. CASE mutation.kind = "publish" /\ BeginPublish(Tab, mutation.argument)
      <3>1. mutation.argument \in Labels
        BY <1>3, <2>1, <2>2 DEF Mutation, MutationOf
      <3> QED
        BY <1>2, <2>2, <3>1 DEF Next, Step
    <2>3. CASE mutation.kind = "create" /\ BeginFork(Tab, mutation.argument)
      <3>1. mutation.argument \in BranchNames
        BY <1>3, <2>1, <2>3 DEF Mutation, MutationOf
      <3> QED
        BY <1>2, <2>3, <3>1 DEF Next, Step
    <2>4. CASE mutation.kind = "discard" /\ BeginDiscard(Tab, mutation.argument)
      <3>1. mutation.argument \in DOMAIN versions
        BY <2>1, <2>4 DEF PageInv, ArgumentOK
      <3> QED
        BY <1>2, <2>4, <3>1 DEF Next, Step
    <2> QED
      BY <1>4, <2>2, <2>3, <2>4 DEF Received
  <1>5. CASE Committed
    BY <1>2, <1>5 DEF Committed, Next, Step
  <1>6. CASE Aborted
    BY <1>2, <1>6 DEF Aborted, Next, Step
  <1>7. CASE \E h \in Handlers \ {Tab} : Elsewhere(h)
    BY <1>7 DEF Elsewhere, Next
  <1>8. CASE \/ \E q \in Active : Read(q)
             \/ \E q \in DOMAIN fetch : Arrive(q)
             \/ Refused \/ Succeeded \/ Failed
    BY <1>1, <1>8 DEF Read, Arrive, Refused, Succeeded, Failed
  <1>9. CASE StaysHere
    BY <1>1, <1>9 DEF StaysHere
  <1>10. /\ \A p : Open(p) => StaysHere
         /\ \A v : Rollback(v) \/ DiscardBranch(v) \/ Select(v) => StaysHere
         /\ \A side, v : Compare(side, v) => StaysHere
         /\ OpenForm \/ CancelForm \/ ConfirmReview => StaysHere
         /\ \A l : Publish(l) \/ CreateBranch(l) => StaysHere
    BY DEF Open, Rollback, DiscardBranch, Select, Compare, OpenForm, CancelForm, ConfirmReview,
           Publish, CreateBranch, Send, Local
  <1> QED
    BY <1>4, <1>5, <1>6, <1>7, <1>8, <1>9, <1>10 DEF PageNext

\* The change under way stays what it is until it is answered.
LEMMA ArgumentKept ==
    ASSUME PageInv, PageNext
    PROVE  ArgumentOK'
  <1>1. DOMAIN versions \subseteq DOMAIN versions'
    BY PageSteps, TableCases DEF PageInv, VersionsKept
  <1>2. /\ ArgumentOK /\ (mutation # NoMutation => mutation \in Mutation)
    BY DEF PageInv, MutationOK
  <1>3. /\ mutation \in Mutation => "argument" \in DOMAIN mutation /\ "kind" \in DOMAIN mutation
    BY DEF Mutation, MutationOf
  <1>4. CASE mutation' = NoMutation \/ UNCHANGED mutation
    BY <1>1, <1>2, <1>4 DEF ArgumentOK
  <1>5. CASE mutation # NoMutation /\ mutation'.kind = mutation.kind /\ mutation'.argument = mutation.argument
    BY <1>1, <1>2, <1>5 DEF ArgumentOK
  <1>6. ASSUME NEW fate, mutation # NoMutation, Fate(fate)
        PROVE  mutation'.kind = mutation.kind /\ mutation'.argument = mutation.argument
    <2>1. PICK m \in Mutation : m = mutation /\ mutation' = [m EXCEPT !.fate = fate]
      BY <1>2, <1>6 DEF Fate
    <2>2. [m EXCEPT !.fate = fate].kind = m.kind /\ [m EXCEPT !.fate = fate].argument = m.argument
      BY DEF Mutation, MutationOf
    <2> QED
      BY <2>1, <2>2
  <1>7. CASE Received \/ Refused
    BY <1>5, <1>6, <1>7 DEF Received, Refused, Sent
  <1>8. request[Tab] # Idle => mutation # NoMutation
    BY DEF PageInv, MutationOK
  <1>9. CASE Aborted
    BY <1>5, <1>6, <1>8, <1>9 DEF Aborted, Abort
  <1>10. CASE Committed
    <2>1. mutation # NoMutation
      BY <1>8, <1>10 DEF Committed, CommitPublish, CommitFork, CommitDiscard, Idle
    <2>2. PICK m \in Mutation, k \in {Len(versions) + 1, Null} :
            m = mutation /\ mutation' = [m EXCEPT !.fate = "done", !.created = k]
      BY <1>2, <1>10, <2>1 DEF Committed
    <2>3. LET w == [m EXCEPT !.fate = "done", !.created = k] IN w.kind = m.kind /\ w.argument = m.argument
      BY DEF Mutation, MutationOf
    <2> QED
      BY <1>5, <2>1, <2>2, <2>3
  <1>11. CASE \E p : Open(p)
    <2>1. CASE mutation = NoMutation
      BY <1>4, <1>11, <2>1 DEF Open
    <2>2. CASE mutation # NoMutation
      <3>1. PICK m \in Mutation : m = mutation /\ mutation' = [m EXCEPT !.mounted = FALSE]
        BY <1>2, <1>11, <2>2 DEF Open
      <3>2. LET w == [m EXCEPT !.mounted = FALSE] IN w.kind = m.kind /\ w.argument = m.argument
        BY DEF Mutation, MutationOf
      <3> QED
        BY <1>5, <2>2, <3>1, <3>2
    <2> QED
      BY <2>1, <2>2
  <1>12. ASSUME NEW kind, NEW argument, Send(kind, argument), kind = "discard" => argument \in DOMAIN versions
         PROVE  ArgumentOK'
    <2>1. mutation'.kind = kind /\ mutation'.argument = argument
      BY <1>12 DEF Send
    <2> QED
      BY <1>1, <1>12, <2>1 DEF ArgumentOK
  <1>13. CASE \E v \in DOMAIN versions : DiscardBranch(v)
    BY <1>12, <1>13 DEF DiscardBranch
  <1>14. CASE \E v : Rollback(v)
    BY <1>12, <1>14 DEF Rollback
  <1>15. CASE \E l : Publish(l)
    BY <1>12, <1>15 DEF Publish
  <1>16. CASE \E n : CreateBranch(n)
    BY <1>12, <1>16 DEF CreateBranch
  <1>17. /\ \A q : Read(q) \/ Arrive(q) => UNCHANGED mutation
         /\ \A h : Elsewhere(h) => UNCHANGED mutation
         /\ \A side, v : Compare(side, v) => UNCHANGED mutation
         /\ \A v : Select(v) => UNCHANGED mutation
         /\ OpenForm \/ CancelForm \/ ConfirmReview => UNCHANGED mutation
         /\ Succeeded \/ Failed => mutation' = NoMutation
    BY DEF Read, Arrive, Elsewhere, Compare, Select, OpenForm, CancelForm, ConfirmReview, Succeeded, Failed, Local
  <1> QED
    BY <1>4, <1>7, <1>9, <1>10, <1>11, <1>13, <1>14, <1>15, <1>16, <1>17 DEF PageNext

LEMMA PageInvPreserved ==
    ASSUME PageInv, [PageNext]_pageVars
    PROVE  PageInv'
  <1>1. CASE UNCHANGED pageVars
    <2>1. UNCHANGED <<vars, serverVars, mutation, foreign, form, compare, cache, fetch, request, versions, history>>
      BY <1>1 DEF pageVars, serverVars, localVars, vars
    <2>2. IInv' /\ ChainInv' /\ PublishedIsBase'
      BY <2>1, IInvPreserved, ChainInvPreserved, PublishedIsBasePreserved DEF PageInv
    <2>3. Mains' # {} /\ MutationOK' /\ ArgumentOK'
      BY <2>1 DEF PageInv, Mains, IsMain, MutationOK, ArgumentOK
    <2>4. CacheOK' /\ FetchOK' /\ ReviewOK'
      BY <2>1, NothingHappens, CacheKept, FetchKept, ReviewSame DEF PageInv
    <2> QED
      BY <2>2, <2>3, <2>4 DEF PageInv
  <1>2. CASE PageNext
    <2>1. [Next]_vars
      BY <1>2, PageSteps
    <2>2. IInv' /\ ChainInv' /\ PublishedIsBase' /\ VersionsKept
      BY <2>1, IInvPreserved, ChainInvPreserved, PublishedIsBasePreserved, TableCases DEF PageInv
    <2>3. Mains' # {}
      BY <2>2 DEF PageInv, VersionsKept, Mains, IsMain
    <2>4. ArgumentOK'
      BY <1>2, ArgumentKept
    <2>5. ASSUME NEW v \in DOMAIN versions, Rollback(v)
          PROVE  StoreOK' /\ MutationOK' /\ ReviewOK'
      <3>1. v \in VersionId
        BY DraftType DEF PageInv, IInv
      <3> QED
        BY <2>5, <3>1, SendStep DEF Rollback
    <2>6. ASSUME NEW v \in DOMAIN versions, DiscardBranch(v)
          PROVE  StoreOK' /\ MutationOK' /\ ReviewOK'
      <3>1. v \in VersionId
        BY DraftType DEF PageInv, IInv
      <3> QED
        BY <2>6, <3>1, SendStep DEF DiscardBranch
    <2>7. ASSUME NEW l \in Labels, Publish(l)
          PROVE  StoreOK' /\ MutationOK' /\ ReviewOK'
      BY <2>7, SendStep DEF Publish
    <2>8. ASSUME NEW n \in BranchNames, CreateBranch(n)
          PROVE  StoreOK' /\ MutationOK' /\ ReviewOK'
      BY <2>8, SendStep DEF CreateBranch
    <2>9. StoreOK' /\ MutationOK' /\ ReviewOK'
      BY <1>2, <2>5, <2>6, <2>7, <2>8, ReadStep, ArriveStep, OpenStep, CompareStep, SelectStep, FormSteps,
         ReceivedStep, RefusedStep, CommittedStep, SucceededStep, FailedStep, ElsewhereStep DEF PageNext
    <2> QED
      BY <2>2, <2>3, <2>4, <2>9 DEF PageInv, StoreOK
  <1> QED
    BY <1>1, <1>2

\* The release there is to begin with, and its draft.
LEMMA PageInitInv == PageInit => PageInv
  <1> SUFFICES ASSUME PageInit PROVE PageInv
    OBVIOUS
  <1>0. Labels # {} /\ Capabilities # {} /\ Contents # {} /\ MaxVersions >= 2 /\ MaxChanges >= 1
    BY PageAssumption
  <1>1. PICK l \in Labels : l = CHOOSE a \in Labels : TRUE
    BY <1>0
  <1>2. PICK c \in Capabilities : c = CHOOSE a \in Capabilities : TRUE
    BY <1>0
  <1>3. PICK x \in Contents : x = CHOOSE a \in Contents : TRUE
    BY <1>0
  <1> DEFINE first == [NewDraft(Null) EXCEPT !.state = "PUBLISHED", !.label = l, !.publishedAt = 2]
             second == NewDraft(1)
             row == [content |-> x, origin |-> Null]
             entry == [changedAt |-> 1, capability |-> c, version |-> 1, changeType |-> "CREATE",
                       after |-> x, previous |-> 0]
  <1>4. /\ versions = <<first, second>> /\ history = {entry} /\ inserted = 1
        /\ capability = [d \in Capabilities |-> IF d = c THEN row ELSE NoRow]
        /\ request = [h \in Handlers |-> Idle]
    BY <1>1, <1>2, <1>3 DEF PageInit
  <1>5. /\ compare = [from |-> Null, to |-> Null] /\ form = NoForm /\ cache = << >> /\ fetch = << >>
        /\ mutation = NoMutation /\ foreign = 0
    BY DEF PageInit
  <1>6. /\ 1 \in VersionId /\ 2 \in VersionId
        /\ NewDraft(Null) \in ModelVersion /\ second \in ModelVersion
    <2>1. 1 \in VersionId /\ 2 \in VersionId
      BY <1>0, VersionsAssumption DEF VersionId
    <2> QED
      BY <2>1, NewDraftType
  <1>7. /\ first \in ModelVersion /\ second \in ModelVersion
        /\ first.state = "PUBLISHED" /\ first.branchType = "MAIN" /\ first.base = 0 /\ first.publishedAt = 2
        /\ second.state = "DRAFT" /\ second.branchType = "MAIN" /\ second.base = 1 /\ second.publishedAt = 0
    <2>1. PICK n \in ModelVersion : n = NewDraft(Null)
      BY <1>6
    <2>2. n.branchType = "MAIN" /\ n.base = 0
      BY <2>1 DEF NewDraft, Null
    <2>3. LET w == [n EXCEPT !.state = "PUBLISHED", !.label = l, !.publishedAt = 2] IN
          /\ w \in ModelVersion /\ w.state = "PUBLISHED" /\ w.branchType = n.branchType /\ w.base = n.base
          /\ w.publishedAt = 2
      BY <1>1, <1>6 DEF ModelVersion, ModelVersionState
    <2>4. first = [n EXCEPT !.state = "PUBLISHED", !.label = l, !.publishedAt = 2]
      BY <2>1
    <2>5. second.state = "DRAFT" /\ second.branchType = "MAIN" /\ second.base = 1 /\ second.publishedAt = 0
      BY DEF NewDraft, Null
    <2> HIDE DEF first, second
    <2> QED
      BY <1>6, <2>2, <2>3, <2>4, <2>5
  <1>8. /\ entry \in CapabilityVersion
        /\ entry.changedAt = 1 /\ entry.capability = c /\ entry.version = 1 /\ entry.changeType = "CREATE"
        /\ entry.after = x /\ entry.previous = 0
    <2>1. 1 \in VersionId /\ 1 \in 1..MaxChanges /\ 0 \in 0..MaxChanges
      BY <1>0, VersionsAssumption DEF VersionId
    <2> QED
      BY <1>2, <1>3, <2>1 DEF CapabilityVersion
  <1>9. row \in CapabilityRow /\ row.content = x /\ row.origin = Null
    BY <1>3 DEF CapabilityRow
  <1> HIDE DEF first, second, row, entry
  <1>10. /\ versions \in Seq(ModelVersion) /\ Len(versions) = 2 /\ DOMAIN versions = {1, 2}
         /\ versions[1] = first /\ versions[2] = second
    BY <1>4, <1>7
  <1>11. /\ Mains = {1, 2} /\ Drafts = {2} /\ Released = {1}
         /\ IsMain(1) /\ IsMain(2) /\ Closed(1) /\ ~Closed(2)
    BY <1>7, <1>10 DEF Mains, Drafts, Released, IsMain, Closed
  <1>12. /\ Exists(c) /\ OnMain(c) /\ capability[c] = row
         /\ \A d \in Capabilities : d # c => ~Exists(d) /\ ~OnMain(d)
         /\ \A d \in Capabilities : capability[d] = NoRow => d # c
    BY <1>2, <1>4, <1>9, RowsAssumption DEF Exists, OnMain
  <1>13. /\ EntriesOf(c) = {entry} /\ MainEntriesOf(c) = {entry}
         /\ \A d \in Capabilities : d # c => EntriesOf(d) = {} /\ MainEntriesOf(d) = {}
    BY <1>4, <1>8, <1>11 DEF EntriesOf, MainEntriesOf
  <1>14. TypeOK
    <2>1. \A v \in DOMAIN versions : versions[v].base < v
      BY <1>7, <1>10
    <2>2. capability \in [Capabilities -> CapabilityRow \cup {NoRow, Gone}]
      BY <1>4, <1>9
    <2>3. request \in [Handlers -> Request]
      BY <1>4 DEF Request
    <2>4. inserted \in 0..MaxChanges /\ Len(versions) <= MaxVersions
      BY <1>0, <1>4, <1>10, VersionsAssumption
    <2>5. \A e \in history : e \in CapabilityVersion /\ e.version \in DOMAIN versions /\ e.changedAt <= inserted
      BY <1>4, <1>8, <1>10
    <2> QED
      BY <1>10, <2>1, <2>2, <2>3, <2>4, <2>5 DEF TypeOK
  <1>15. OneDraft
    BY <1>10, <1>11 DEF OneDraft
  <1>16. Last({entry}) = entry
    BY <1>8 DEF Last
  <1>17. HistoryIsLinear
    <2>1. {f \in EntriesOf(entry.capability) : f.changedAt < entry.changedAt} = {}
      BY <1>8, <1>13
    <2> QED
      BY <1>4, <1>8, <2>1 DEF HistoryIsLinear
  <1>18. HistoryOK
    <2>1. HasLast({entry})
      BY <1>8 DEF HasLast
    <2> QED
      BY <1>4, <1>8, <1>12, <1>13, <2>1 DEF HistoryOK
  <1>19. OriginsOK /\ RequestsOK
    BY <1>4, <1>12 DEF OriginsOK, RequestsOK
  <1>20. TableMatchesHistory
    <2>1. \A d \in Capabilities : MainEntriesOf(d) = {e \in EntriesOf(d) : IsMain(e.version)}
      BY DEF MainEntriesOf
    <2> QED
      BY <1>8, <1>9, <1>12, <1>13, <1>16, <2>1 DEF TableMatchesHistory
  <1>21. MainChain
    BY <1>7, <1>10, <1>11 DEF MainChain, Null
  <1>22. MainHistoryOK
    BY <1>3, <1>4, <1>8, <1>13 DEF MainHistoryOK
  <1>23. UpdatesOK
    BY <1>4 DEF UpdatesOK, MainUpdate, Idle
  <1>24. PublishedIsBase
    BY <1>7, <1>10, <1>11 DEF PublishedIsBase
  <1>25. CacheOK /\ FetchOK
    BY <1>5 DEF CacheOK, FetchOK
  <1>26. MutationOK /\ ArgumentOK
    BY <1>4, <1>5, PageAssumption DEF MutationOK, ArgumentOK
  <1>27. ReviewOK
    BY <1>5 DEF ReviewOK, Reviewed
  <1> QED
    BY <1>11, <1>14, <1>15, <1>17, <1>18, <1>19, <1>20, <1>21, <1>22, <1>23, <1>24, <1>25, <1>26, <1>27
       DEF PageInv, IInv, ChainInv

LEMMA PageInductive == PageSpec => []PageInv
  BY PageInitInv, PageInvPreserved, PTL DEF PageSpec

\* The publication status of the release dashboard is right once what it is made of has
\* arrived: what it calls pending is what is recorded in the draft
\* (ReleaseDashboardPage.tsx, versioning.ts useModelVersions, useCurrentDraft, useVersionDiff).
LEMMA StatusCorrect == PageSpec => []StatusIsRight
  <1>1. PageInv => StatusIsRight
    BY StatusTrue DEF StatusIsRight, Changed
  <1> QED
    BY <1>1, PageInductive, PTL

\* The list of branches and the diff of the selected one are what the server has once
\* they have arrived (WhatIfManagerPage.tsx, versioning.ts useWhatIfBranches, useBranchDiff).
LEMMA BranchesCorrect == PageSpec => []BranchesAreRight
  <1>1. ASSUME PageInv, place = "what-if", Settled(Active)
        PROVE  /\ Data(Branches) = Answer(Branches)
               /\ \A b \in {selected} \cap DOMAIN Data(Branches) :
                    Changes(Data(BranchDiff(b))) = {e.capability : e \in Entries({b})}
    <2>1. ASSUME NEW q \in Active
          PROVE  q \in DOMAIN cache /\ Truth(q, Data(q))
      <3>1. q \in DOMAIN cache /\ ~cache[q].stale /\ cache[q].since = foreign /\ mutation = NoMutation
        BY <1>1, <2>1 DEF Settled, Fresh, Known
      <3> QED
        BY <1>1, <3>1 DEF PageInv, CacheOK, Right, DoneFor, Data
    <2>2. Branches \in Active /\ Branches.name = "branches"
      BY <1>1 DEF Active, Branches, Query
    <2>3. Known(Branches) /\ Data(Branches) = Answer(Branches)
      BY <2>1, <2>2 DEF Truth, Known
    <2>4. ASSUME NEW b \in {selected} \cap DOMAIN Data(Branches)
          PROVE  Changes(Data(BranchDiff(b))) = Changed({b})
      <3>1. BranchDiff(b) \in Active
        BY <1>1, <2>3, <2>4 DEF Active
      <3>2. BranchDiff(b).name = "branch-diff" /\ BranchDiff(b).to = b
        BY DEF BranchDiff, Query
      <3> QED
        BY <2>1, <3>1, <3>2 DEF Truth
    <2> QED
      BY <2>3, <2>4 DEF Changed
  <1>2. PageInv => BranchesAreRight
    BY <1>1 DEF BranchesAreRight
  <1> QED
    BY <1>2, PageInductive, PTL

\* So both pages show what is so, for any versions, changes and users.
THEOREM ReleasePagesCorrect == PageSpec => []ReleasePagesAreRight
  BY StatusCorrect, BranchesCorrect, PTL DEF ReleasePagesAreRight

\* What is published is what was reviewed: though the request names no draft, the one the
\* server takes holds what the status showed when the review was confirmed
\* (ReleaseDashboardPage.tsx PublishReleaseForm, model-version.service.ts publishSnapshot).
THEOREM ReviewPublished == PageSpec => ReviewedIsPublished
  <1>1. ASSUME PageInv, NEW v \in Drafts, form \notin {NoForm, Unconfirmed}, form.since = foreign, CommitPublish(Tab)
        PROVE  {e.capability : e \in Entries({v})} = form.changes
    <2>1. request[Tab] # Idle
      BY <1>1 DEF CommitPublish, Idle
    <2>2. mutation # NoMutation => mutation.fate # "done"
      BY <1>1, <2>1 DEF PageInv, MutationOK
    <2>3. form.changes = Changed(Drafts)
      BY <1>1, <2>2 DEF PageInv, ReviewOK, Reviewed, DoneFor
    <2>4. Drafts = {v}
      BY <1>1 DEF PageInv, IInv, OneDraft
    <2> QED
      BY <2>3, <2>4 DEF Changed
  <1>2. PageInv => [\A v \in Drafts :
                      /\ form \notin {NoForm, Unconfirmed} /\ form.since = foreign
                      /\ CommitPublish(Tab)
                      => {e.capability : e \in Entries({v})} = form.changes]_pageVars
    BY <1>1
  <1> QED
    BY <1>2, PageInductive, PTL DEF ReviewedIsPublished
=============================================================================

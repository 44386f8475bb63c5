----------------------------- MODULE ReleasesPage -----------------------------
(***************************************************************************)
(* The release dashboard and the manager of what-if branches in one tab,   *)
(* over the versions on the server, which others change too.               *)
(* Source: web api/versioning.ts, ReleaseDashboardPage.tsx,                *)
(* WhatIfManagerPage.tsx and the dialogs of components/versioning.         *)
(*                                                                         *)
(* The pages keep the answers to their queries in a cache, where they stay *)
(* fresh until a change made on these pages has been answered (a visit is  *)
(* shorter than the five minutes they last); a change made anywhere else,  *)
(* on another page of the same tab too, goes unnoticed.  A query is        *)
(* answered when the server reads, and the answer arrives later; a query   *)
(* that fails leaves everything as it was, for the retry of the page.      *)
(* Dialogs are modal: opening one and confirming it are one step, except   *)
(* for the publish form, which leaves the page usable.  One change is      *)
(* under way at a time.                                                    *)
(***************************************************************************)
EXTENDS ModelVersions, Integers

CONSTANTS
    Tab,          \* the request the page has under way, one of Handlers
    NoData,       \* a query without an answer
    NoMutation,
    NoForm,       \* the publish form is closed
    Unconfirmed,  \* it is open, and the review is not confirmed
    MaxClicks,    \* what the user does
    MaxForeign    \* changes made elsewhere

VARIABLES
    place,      \* "releases", "what-if", or "capability"
    selected,   \* the branch of the address
    compare,    \* the versions chosen for comparison, Null: not chosen
    form,       \* the publish form, and the changes shown when the review was confirmed
    cache,      \* the answers that have arrived
    fetch,      \* the answers on their way
    mutation,   \* the change the page waits for
    foreign,    \* of the specification: changes made elsewhere
    clicks

\* A change under way: what it is, how far it has got, and whether the page that has
\* sent it is still there.
MutationOf(kinds, arguments) ==
    [kind : kinds, argument : arguments, fate : {"sent", "begun", "done", "failed"},
     created : Nat, mounted : BOOLEAN]
Mutation ==
    MutationOf({"publish"}, Labels) \cup MutationOf({"create"}, BranchNames)
    \cup MutationOf({"rollback", "discard"}, VersionId)

\* There is a release to begin with.
ASSUME PageAssumption ==
    /\ Tab \in Handlers
    /\ Labels # {} /\ Capabilities # {} /\ Contents # {}
    /\ MaxVersions >= 2 /\ MaxChanges >= 1
    /\ MaxClicks \in Nat /\ MaxForeign \in Nat
    /\ NoMutation \notin Mutation

serverVars == <<versions, capability, history, inserted, request>>
localVars == <<place, selected, compare, form>>
pageVars == <<serverVars, localVars, cache, fetch, mutation, foreign, clicks>>

-----------------------------------------------------------------------------
(* Queries and their answers *)

Query(name, from, to) == [name |-> name, from |-> from, to |-> to]

List == Query("list", Null, Null)
CurrentDraft == Query("current-draft", Null, Null)
Diff(from, to) == Query("diff", from, to)
Branches == Query("branches", Null, Null)
BranchDiff(b) == Query("branch-diff", Null, b)

\* versions and branches live under different key roots.
ModelVersionsKey(q) == q.name \in {"list", "current-draft", "diff"}
WhatIfBranchesKey(q) == ~ModelVersionsKey(q)

Diffed(from, to) ==
    [added |-> Added(from, to), modified |-> Modified(from, to), removed |-> Removed(from, to)]

\* The branch is compared with the draft it was forked from.
Answer(q) ==
    CASE q.name = "list" -> [v \in {u \in DOMAIN versions : IsMain(u)} |-> versions[v]]
      [] q.name = "current-draft" -> Draft
      [] q.name = "diff" -> Diffed(q.from, q.to)
      [] q.name = "branches" -> [b \in {u \in DOMAIN versions : IsBranch(u)} |-> versions[b]]
      [] q.name = "branch-diff" -> Diffed(versions[q.to].base, q.to)

Known(q) == q \in DOMAIN cache
Fresh(q) == Known(q) /\ ~cache[q].stale
Data(q) == cache[q].answer

-----------------------------------------------------------------------------
(* What the pages show *)

Shown == IF Known(List) THEN Data(List) ELSE << >>
ShownDraft == IF Known(CurrentDraft) THEN Data(CurrentDraft) ELSE Null

\* The first published version in the list, newest first.
LatestPublished ==
    LET published == {v \in DOMAIN Shown : Shown[v].state = "PUBLISHED"}
    IN  IF published = {} THEN Null
        ELSE CHOOSE v \in published : \A u \in published : Shown[u].publishedAt <= Shown[v].publishedAt

Or(chosen, default) == IF chosen # Null THEN chosen ELSE default
Comparison == Diff(Or(compare.from, LatestPublished), Or(compare.to, ShownDraft))

\* Mutant: the status follows the versions chosen for comparison.
StatusFollowsComparison == Comparison

\* The changes pending since the last publication, whatever is compared below.
PublicationDiff == Diff(LatestPublished, ShownDraft)

Enabled(q) == q.from # Null /\ q.to # Null

\* The queries the page on screen asks, with the answers it has: the third is that
\* of a capability.
Active ==
    CASE place = "releases" ->
           {List, CurrentDraft} \cup {q \in {Comparison, PublicationDiff} : Enabled(q)}
      [] place = "what-if" ->
           {Branches} \cup {BranchDiff(b) : b \in {selected} \cap
                               (IF Known(Branches) THEN DOMAIN Data(Branches) ELSE {})}
      [] OTHER -> {CurrentDraft}

Changes(diff) == diff.added \cup diff.modified \cup diff.removed

\* The publication status: what is pending, if that is known.
Pending == IF Enabled(PublicationDiff) /\ Known(PublicationDiff)
           THEN Changes(Data(PublicationDiff)) ELSE NoData

VersionsForSelect == DOMAIN Shown \cup ({ShownDraft} \ {Null})
Loaded == place = "releases" /\ Known(List) /\ Known(CurrentDraft)

PageInit ==
    /\ versions = <<[NewDraft(Null) EXCEPT !.state = "PUBLISHED", !.label = CHOOSE l \in Labels : TRUE,
                                           !.publishedAt = 2], NewDraft(1)>>
    /\ LET c == CHOOSE c \in Capabilities : TRUE  x == CHOOSE x \in Contents : TRUE IN
         /\ capability = [d \in Capabilities |-> IF d = c THEN [content |-> x, origin |-> Null] ELSE NoRow]
         /\ history = {[changedAt |-> 1, capability |-> c, version |-> 1, changeType |-> "CREATE",
                        after |-> x, previous |-> 0]}
    /\ inserted = 1
    /\ request = [h \in Handlers |-> Idle]
    /\ place \in {"releases", "what-if"} /\ selected = Null
    /\ compare = [from |-> Null, to |-> Null] /\ form = NoForm
    /\ cache = << >> /\ fetch = << >>
    /\ mutation = NoMutation
    /\ foreign = 0 /\ clicks = 0

-----------------------------------------------------------------------------
(* Fetching *)

Put(f, q, x) == [p \in DOMAIN f \cup {q} |-> IF p = q THEN x ELSE f[p]]
Drop(f, Q) == [p \in DOMAIN f \ Q |-> f[p]]

\* since: the number of foreign changes the answer includes, -1: not known.
Read(q) ==
    /\ q \in Active /\ ~Fresh(q) /\ q \notin DOMAIN fetch
    /\ fetch' = Put(fetch, q, [answer |-> Answer(q), since |-> foreign])
    /\ UNCHANGED <<serverVars, localVars, cache, mutation, foreign, clicks>>

Arrive(q) ==
    /\ cache' = Put(cache, q, [answer |-> fetch[q].answer, since |-> fetch[q].since, stale |-> FALSE])
    /\ fetch' = Drop(fetch, {q})
    /\ UNCHANGED <<serverVars, localVars, mutation, foreign, clicks>>

\* Mutant: the key of the list instead of the root above it.
InvalidatesListOnly(q, kind) == q = List /\ kind = "publish"

\* Publishing concerns the versions, forking and discarding the branches.
Invalidates(q, kind) ==
    IF kind = "publish" THEN ModelVersionsKey(q) ELSE WhatIfBranchesKey(q)

\* invalidateQueries: what is cached becomes stale, and its fetches for the page on
\* screen are abandoned; a first fetch, or one for a page that was left, goes on,
\* and what it brings counts as fresh but may be older than the change.
Invalidate(kind, removed) ==
    LET hit(q) == Invalidates(q, kind)
        abandoned == {q \in DOMAIN fetch \cap DOMAIN cache \cap Active : hit(q)}
    IN
    /\ cache' = [q \in DOMAIN cache \ removed |-> [cache[q] EXCEPT !.stale = @ \/ hit(q)]]
    /\ fetch' = [q \in DOMAIN fetch \ (removed \cup abandoned) |->
                   IF hit(q) THEN [fetch[q] EXCEPT !.since = -1] ELSE fetch[q]]

-----------------------------------------------------------------------------
(* The user *)

\* A dialog of the page waits for an answer.
Waiting == IF mutation = NoMutation THEN FALSE ELSE mutation.mounted

Click == clicks < MaxClicks /\ clicks' = clicks + 1
StaysHere == UNCHANGED <<serverVars, cache, fetch, foreign>>
Local == StaysHere /\ UNCHANGED mutation

\* What a page has begun is forgotten when it is left, not what it has sent.
Open(p) ==
    /\ Click /\ p # place
    /\ place' = p /\ selected' = Null
    /\ compare' = [from |-> Null, to |-> Null] /\ form' = NoForm
    /\ mutation' = IF mutation = NoMutation THEN NoMutation ELSE [mutation EXCEPT !.mounted = FALSE]
    /\ StaysHere

Compare(side, v) ==
    /\ Click /\ Loaded
    /\ v \in VersionsForSelect
    /\ compare' = [compare EXCEPT ![side] = v]
    /\ Local /\ UNCHANGED <<place, selected, form>>

OpenForm ==
    /\ Click /\ Loaded
    /\ ShownDraft # Null /\ form = NoForm
    /\ form' = Unconfirmed
    /\ Local /\ UNCHANGED <<place, selected, compare>>

CancelForm ==
    /\ Click /\ Loaded
    /\ form # NoForm /\ ~Waiting
    /\ form' = NoForm
    /\ Local /\ UNCHANGED <<place, selected, compare>>

\* Of the specification: the queries Q have been answered since the last change.
Settled(Q) == mutation = NoMutation /\ \A q \in Q : Fresh(q) /\ cache[q].since = foreign

\* The foreign changes that the publication status includes, if it is settled.
ReviewSince ==
    IF Enabled(PublicationDiff) /\ Settled({List, CurrentDraft, PublicationDiff}) THEN foreign ELSE -1

\* The confirmation stays, however the page changes.
ConfirmReview ==
    /\ Loaded
    /\ form = Unconfirmed
    /\ form' = [changes |-> Pending, since |-> ReviewSince]
    /\ Local /\ UNCHANGED <<place, selected, compare, clicks>>

\* A change that is sent; mounted: the page that has sent it is still there.
Send(kind, argument) ==
    /\ mutation = NoMutation
    /\ mutation' = [kind |-> kind, argument |-> argument, fate |-> "sent", created |-> Null, mounted |-> TRUE]
    /\ StaysHere

Publish(label) ==
    /\ Loaded
    /\ form \notin {NoForm, Unconfirmed}
    /\ Click
    /\ Send("publish", label)
    /\ UNCHANGED localVars

\* Offered for the published version.
Rollback(v) ==
    /\ Click /\ Loaded
    /\ v \in DOMAIN Shown /\ Shown[v].state = "PUBLISHED"
    /\ Send("rollback", v)
    /\ UNCHANGED localVars

CreateBranch(name) ==
    /\ Click /\ place = "what-if"
    /\ Send("create", name)
    /\ UNCHANGED localVars

\* The list shows discarded branches too, with the same buttons.
DiscardBranch(b) ==
    /\ Click /\ place = "what-if"
    /\ Known(Branches) /\ b \in DOMAIN Data(Branches)
    /\ Send("discard", b)
    /\ UNCHANGED localVars

\* The diff of a branch is shown, or hidden again.
Select(b) ==
    /\ Click /\ place = "what-if"
    /\ ~Waiting
    /\ Known(Branches) /\ b \in DOMAIN Data(Branches)
    /\ selected' = IF selected = b THEN Null ELSE b
    /\ Local /\ UNCHANGED <<place, compare, form>>

-----------------------------------------------------------------------------
(* The change on the server *)

Sent == mutation # NoMutation /\ mutation.fate = "sent" /\ request[Tab] = Idle
Fate(fate) == mutation' = [mutation EXCEPT !.fate = fate]

Received ==
    /\ Sent
    /\ CASE mutation.kind = "publish" -> BeginPublish(Tab, mutation.argument)
         [] mutation.kind = "create" -> BeginFork(Tab, mutation.argument)
         [] mutation.kind = "discard" -> BeginDiscard(Tab, mutation.argument)
         [] OTHER -> FALSE
    /\ Fate("begun")
    /\ UNCHANGED <<localVars, cache, fetch, foreign, clicks>>

\* The checks refuse it, or it is lost; a rollback is refused while there is a draft.
Refused ==
    /\ Sent
    /\ mutation.kind = "rollback" => Drafts # {}
    /\ Fate("failed")
    /\ UNCHANGED <<serverVars, localVars, cache, fetch, foreign, clicks>>

Committed ==
    /\ CommitPublish(Tab) \/ CommitFork(Tab) \/ CommitDiscard(Tab)
    /\ mutation' = [mutation EXCEPT !.fate = "done",
                      !.created = IF mutation.kind = "create" THEN Len(versions) + 1 ELSE Null]
    /\ UNCHANGED <<localVars, cache, fetch, foreign, clicks>>

Aborted ==
    /\ Abort(Tab)
    /\ Fate("failed")
    /\ UNCHANGED <<localVars, cache, fetch, foreign, clicks>>

\* onSuccess of the hook, and of the page if it is still there.
Succeeded ==
    /\ mutation # NoMutation /\ mutation.fate = "done"
    /\ mutation' = NoMutation
    /\ Invalidate(mutation.kind, IF mutation.kind = "discard" THEN {BranchDiff(mutation.argument)} ELSE {})
    /\ form' = IF mutation.kind = "publish" /\ mutation.mounted THEN NoForm ELSE form
    /\ selected' = CASE ~mutation.mounted -> selected
                     [] mutation.kind = "create" -> mutation.created
                     [] mutation.kind = "discard" /\ selected = mutation.argument -> Null
                     [] OTHER -> selected
    /\ UNCHANGED <<serverVars, place, compare, foreign, clicks>>

\* The error is shown, and nothing is fetched again; a change whose answer was lost
\* is then one the page does not know of.
Failed ==
    /\ mutation # NoMutation /\ mutation.fate \in {"failed", "done"}
    /\ mutation' = NoMutation
    /\ foreign' = IF mutation.fate = "done" THEN foreign + 1 ELSE foreign
    /\ UNCHANGED <<serverVars, localVars, cache, fetch, clicks>>

Elsewhere(h) ==
    /\ foreign < MaxForeign
    /\ Step(h)
    /\ foreign' = IF <<versions, capability, history>>' = <<versions, capability, history>>
                  THEN foreign ELSE foreign + 1
    /\ UNCHANGED <<localVars, cache, fetch, mutation, clicks>>

PageNext ==
    \/ \E q \in Active : Read(q)
    \/ \E q \in DOMAIN fetch : Arrive(q)
    \/ \E p \in {"releases", "what-if", "capability"} : Open(p)
    \/ \E v \in DOMAIN versions :
         \/ \E side \in {"from", "to"} : Compare(side, v)
         \/ Rollback(v)
         \/ DiscardBranch(v)
         \/ Select(v)
    \/ OpenForm \/ CancelForm
    \/ ConfirmReview
    \/ \E l \in Labels : Publish(l)
    \/ \E n \in BranchNames : CreateBranch(n)
    \/ Received \/ Refused \/ Committed \/ Aborted
    \/ Succeeded
    \/ Failed
    \/ \E h \in Handlers \ {Tab} : Elsewhere(h)

PageSpec == PageInit /\ [][PageNext]_pageVars

-----------------------------------------------------------------------------
(* Properties *)

\* The publication status is right once all it is made of has arrived, unless
\* something was changed elsewhere since: what it calls pending is what has been
\* recorded in the draft, and what it calls the last publication is the published
\* version.  It comes from three queries, which the page's own publication makes
\* stale together.
StatusIsRight ==
    place = "releases" /\ Enabled(PublicationDiff) /\ Settled({List, CurrentDraft, PublicationDiff}) =>
        /\ Pending = {e.capability : e \in Entries(Drafts)}
        /\ Shown[LatestPublished].label = Current
        /\ ShownDraft = Draft

\* What the page publishes is what its publication status said when the review was
\* confirmed, if that was settled and nothing has been changed elsewhere since: the
\* request names no draft, the server takes the one it finds.  (The status stays as
\* it was until the queries that a publication has made stale have been answered
\* again: a review confirmed meanwhile is of what has been published already.)
ReviewedIsPublished ==
    [][\A v \in Drafts :
         /\ form \notin {NoForm, Unconfirmed} /\ form.since = foreign
         /\ CommitPublish(Tab)
         => {e.capability : e \in Entries({v})} = form.changes]_pageVars

\* The list of branches, and the diff of the one that is selected, are what the
\* server has once they have arrived, unless something was changed elsewhere since:
\* a diff shows what was changed in the branch itself, however its base goes on.
BranchesAreRight ==
    place = "what-if" /\ Settled(Active) =>
        /\ Data(Branches) = Answer(Branches)
        /\ \A b \in {selected} \cap DOMAIN Data(Branches) :
             Changes(Data(BranchDiff(b))) = {e.capability : e \in Entries({b})}

\* The two pages.
ReleasePagesAreRight == StatusIsRight /\ BranchesAreRight
=============================================================================

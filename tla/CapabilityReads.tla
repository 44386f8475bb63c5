-------------------------- MODULE CapabilityReads ---------------------------
(***************************************************************************)
(* The reads that walk the hierarchy, one query per level or per ancestor, *)
(* while writers commit in between, and the pages that show what they      *)
(* return.  Source: apps/api/src/capability, apps/web/src/components and   *)
(* pages/CapabilityDetailPage.                                             *)
(*                                                                         *)
(* One walk at a time is followed; walks do not influence one another.     *)
(* Names, descriptions and the order of siblings are left out: a search or *)
(* filter is the set of capabilities it matches.  The pages keep no state  *)
(* of the hierarchy of their own, so what they offer is a function of the  *)
(* last answer and of the rows.                                            *)
(***************************************************************************)
EXTENDS Reports, Sequences

CONSTANTS
    Stewarded,   \* capabilities with a steward or a department of their own
    NoWalk       \* no read is running or shown

WalkKinds == {"SUBTREE", "BREADCRUMBS", "STEWARDSHIP"}
WalkResults == {"READING", "DONE", "CIRCULAR", "NOT_FOUND"}

\* at: the parents whose children, or the one capability whose row, is read next.
Walks ==
    [kind : WalkKinds, of : Capabilities, seen : SUBSET Capabilities, at : SUBSET Capabilities,
     path : UNION {[1..n -> Capabilities] : n \in 0..Cardinality(Capabilities)}, result : WalkResults, undisturbed : BOOLEAN]

ASSUME ReadsAssumption == NoWalk \notin Walks

VARIABLE walk

readVars == <<exists, capability, mapping, open, mergedTags, walk>>

ReadsInit == Init /\ walk = NoWalk

StartWalk(kind, c) ==
    /\ walk = NoWalk
    /\ walk' = [kind |-> kind, of |-> c, seen |-> {}, at |-> {c}, path |-> <<>>,
                result |-> "READING", undisturbed |-> TRUE]

Walking(kinds) == walk # NoWalk /\ walk.result = "READING" /\ walk.kind \in kinds

\* collectSubtree reads the root, then the children of a level at a time.
ReadRoot ==
    /\ Walking({"SUBTREE"}) /\ walk.seen = {}
    /\ walk' = IF walk.of \in exists THEN [walk EXCEPT !.seen = {walk.of}]
               ELSE [walk EXCEPT !.result = "NOT_FOUND"]

ReadLevel ==
    /\ Walking({"SUBTREE"}) /\ walk.seen # {}
    /\ LET children == Children(walk.at) IN
         walk' = IF children = {} THEN [walk EXCEPT !.result = "DONE"]
                 ELSE IF children \cap walk.seen # {} THEN [walk EXCEPT !.result = "CIRCULAR"]
                 ELSE [walk EXCEPT !.seen = @ \cup children, !.at = children]

\* Mutant: a capability that was read before is read again.
WalkOn(seen, p) == [walk EXCEPT !.seen = seen, !.at = {p}]

\* The check that ends a walk which comes back to where it has been.
NextAncestor(seen, p) ==
    IF p \in seen THEN [walk EXCEPT !.seen = seen, !.result = "CIRCULAR"]
    ELSE [walk EXCEPT !.seen = seen, !.at = {p}]

AtEnd(c) == Parent(c) = NoParent \/ (walk.kind = "STEWARDSHIP" /\ c \in Stewarded)

\* getBreadcrumbs and resolveEffectiveStewardship read one ancestor at a time.
\* One that is gone ends the walk; stewardship ends at the first with its own.
ReadAncestor ==
    /\ Walking({"BREADCRUMBS", "STEWARDSHIP"})
    /\ \E c \in walk.at :
         LET seen == walk.seen \cup {c}
             step == IF AtEnd(c)
                     THEN [walk EXCEPT !.seen = seen, !.result = "DONE"]
                     ELSE NextAncestor(seen, Parent(c)) IN
           walk' = IF c \notin exists
                   THEN [walk EXCEPT !.result = IF walk.seen = {} THEN "NOT_FOUND" ELSE "DONE"]
                   ELSE [step EXCEPT !.path = IF c \in walk.seen THEN @ ELSE <<c>> \o @]

ReadStep == (ReadRoot \/ ReadLevel \/ ReadAncestor) /\ UNCHANGED vars

\* The page is left, or asks again.
Leave == walk # NoWalk /\ walk.result # "READING" /\ walk' = NoWalk

\* undisturbed is of the specification: nothing was committed since the start.
Commit ==
    /\ Next
    /\ walk' = IF walk = NoWalk THEN walk
               ELSE [walk EXCEPT !.undisturbed = @ /\ exists' = exists /\ capability' = capability]

ReadsNext ==
    \/ Commit
    \/ \E kind \in WalkKinds, c \in Capabilities : StartWalk(kind, c) /\ UNCHANGED vars
    \/ ReadStep
    \/ Leave /\ UNCHANGED vars

ReadsSpec == ReadsInit /\ [][ReadsNext]_readVars

\* The services answer: a read that has started comes to its end.
FairReadsSpec == ReadsSpec /\ WF_readVars(ReadStep)

-----------------------------------------------------------------------------
(* The answers *)

Answered(kind) == walk # NoWalk /\ walk.kind = kind /\ walk.result = "DONE"

Leaves == walk.seen \ {Parent(x) : x \in walk.seen}

\* The assignment that is shown, or none of the walked ones.
EffectiveSteward ==
    LET own == {x \in walk.seen : x \in Stewarded} IN
      IF own = {} THEN NoParent ELSE CHOOSE x \in own : TRUE

\* The published model has its whole subtree in memory: a stack, no second look.
SelectSubtree(items, root) ==
    {x \in items : \A S \in SUBSET items :
        root \in S /\ (\A y \in items : Parent(y) \in S => y \in S) => x \in S}

-----------------------------------------------------------------------------
(* Explorer and dialogs of the detail page, from the subtree that was read *)

\* SubtreeList: an entry stays if it or one below it matches (as long as nothing
\* was committed, the rows are what was read).
SubtreeList(M) ==
    {x \in walk.seen \ {walk.of} : \E y \in M \cap walk.seen : x \in Visited(y)}

\* The buttons of a retired capability are disabled.
MoveOffered(c) == Status(c) # "RETIRED"

CanDelete(c) == Status(c) = "DRAFT" /\ Children({c}) = {}

\* Mutant: only the children of the capability are left out.
ExcludeChildren(c) == {c} \cup (Children({c}) \cap walk.seen)

ExcludedIds(c) == {c} \cup walk.seen

\* The root level is always offered, a parent once the subtree has been read.
ReparentOffers(c) ==
    {NoParent} \cup (IF walk.result = "DONE" THEN exists \ ExcludedIds(c) ELSE {})

\* The parents on the edit form: without its subtree only the capability is left out.
ParentOptions(c) == exists \ (IF walk.result = "DONE" THEN walk.seen ELSE {c})

MergeOffers(c) ==
    UNION {{[affected |-> {c, other}, target |-> survivor] : survivor \in {c, other}} :
             other \in exists \ {c}}

-----------------------------------------------------------------------------
(* The tree of the list page: L the listed, M the matching, E the expanded *)

TreeRoots(L) == {x \in L : Parent(x) \notin L}

\* Below a root of the tree, along parents that are listed.
UnderRoot(x, L) == \E r \in TreeRoots(L) : r \in Visited(x) /\ Visited(x) \ Visited(r) \subseteq L

\* filterTree keeps what matches and what leads to it.
FilterTree(L, M) ==
    {x \in L : \E y \in L \cap M : x \in Visited(y) /\ Visited(y) \ Visited(x) \subseteq L}

CollectExpandable(kept) == {x \in kept : \E y \in kept : Parent(y) = x}

\* What leads from its root in the tree to x.
ListedAncestors(x, L) == {y \in L : y \in Visited(x) \ {x} /\ Visited(x) \ Visited(y) \subseteq L}

FlattenVisible(L, kept, E) ==
    {x \in kept : UnderRoot(x, L) /\ ListedAncestors(x, L) \subseteq E}

\* A new list: what is still listed stays expanded, or else the roots are.
KeepExpanded(L, E) == IF E \cap L = {} THEN TreeRoots(L) ELSE E \cap L

Reveal(L, E, selected) == E \cup ListedAncestors(selected, L)

-----------------------------------------------------------------------------
(* Properties *)

ReadsTypeOK == TypeOK /\ walk \in Walks \cup {NoWalk}

\* While nothing has been committed since a read began, it reports no circle and
\* what it returns is the hierarchy as it is: the whole subtree, which is the one
\* the published model would select, the path from the root, and the nearest
\* assignment of a steward.  (collectSubtree, getBreadcrumbs,
\* resolveEffectiveStewardship, selectSubtree.)
UndisturbedReadIsExact ==
    walk # NoWalk /\ walk.undisturbed /\ walk.of \in exists =>
      /\ walk.result \in {"READING", "DONE"}
      /\ Answered("SUBTREE") =>
           /\ walk.seen = {x \in exists : walk.of \in Visited(x)}
           /\ walk.seen = SelectSubtree(exists, walk.of)
           /\ \A x \in walk.seen : \E y \in Leaves : x \in Visited(y)
      /\ Answered("BREADCRUMBS") =>
           /\ walk.seen = Visited(walk.of) /\ Len(walk.path) = Cardinality(walk.seen)
           /\ Parent(walk.path[1]) = NoParent /\ walk.path[Len(walk.path)] = walk.of
           /\ \A i \in 2..Len(walk.path) : Parent(walk.path[i]) = walk.path[i - 1]
      /\ Answered("STEWARDSHIP") =>
           IF Visited(walk.of) \cap Stewarded = {} THEN EffectiveSteward = NoParent
           ELSE /\ EffectiveSteward \in Visited(walk.of) \cap Stewarded
                /\ \A x \in Visited(walk.of) \cap Stewarded : x \in Visited(EffectiveSteward)

\* What the detail page offers is what the server accepts, as long as nothing has
\* changed since its subtree was read: exactly the parents under which the
\* capability may be moved, a deletion exactly when it is allowed, and no merge
\* or retirement is withheld; and the edit form offers the parents that update
\* accepts.  (ReparentDialog, MergeDialog, canDelete, excludedParentIds, against
\* applyReparent, applyMerge, applyRetire, delete and validateParent.)
OffersMatchServer ==
    walk # NoWalk /\ walk.kind = "SUBTREE" /\ walk.result # "READING"
      /\ walk.undisturbed /\ walk.of \in exists =>
      LET c == walk.of
          Asked(S, t) == [affected |-> S, target |-> t] IN
        /\ MoveOffered(c) => \A p \in Parents :
             p \in ReparentOffers(c) <=> ReparentAllowed(Asked({c}, p))
        /\ walk.result = "DONE" => \A p \in exists :
             p \in ParentOptions(c) <=>
               UpdateAllowed([affected |-> {c}, fields |-> {"parentId"}, row |-> [NewRow EXCEPT !.parentId = p]])
        /\ CanDelete(c) <=> RemoveAllowed(Asked({c}, NoParent))
        /\ MoveOffered(c) => \A x \in exists \ {c}, s \in exists :
             MergeAllowed(Asked({c, x}, s)) /\ s \in {c, x} => Asked({c, x}, s) \in MergeOffers(c)
        /\ RetireAllowed(Asked({c}, NoParent)) => MoveOffered(c)

\* Whatever part of the model the filters leave in the list, the tree shows each
\* listed capability once it is expanded, a search shows every match with the
\* path to it, as the explorer of the detail page does, and the selected
\* capability is visible after every reload.  (buildTree, filterTree,
\* flattenVisibleNodes, findAncestorIds, SubtreeList.)
TreeShowsMatches ==
    (\A h \in Handlers : open[h] = NoBody) /\ (walk = NoWalk \/ Answered("SUBTREE")) =>
      \A L \in SUBSET exists :
        /\ FlattenVisible(L, L, L) = L
        /\ \A M \in SUBSET L :
             LET kept == FilterTree(L, M) IN
               /\ M \subseteq kept
               /\ FlattenVisible(L, kept, CollectExpandable(kept)) = kept
               /\ L = exists /\ Answered("SUBTREE") /\ walk.undisturbed =>
                    SubtreeList(M) = (kept \cap walk.seen) \ {walk.of}
        /\ \A E \in SUBSET exists, selected \in L :
             selected \in FlattenVisible(L, L, Reveal(L, KeepExpanded(L, E), selected))

\* The reports on the rows (see Reports): no write or walk that is under way changes
\* them, so they are looked at where there is none.
ReportsAreRight ==
    (\A h \in Handlers : open[h] = NoBody) /\ walk = NoWalk => ReportsAddUp /\ GapsMatchImpact

\* Every read ends, however often what it walks over is moved.
\* (visitedCapabilityIds of collectSubtree, getBreadcrumbs and stewardship.)
WalkEnds == Walking(WalkKinds) ~> ~Walking(WalkKinds)

\* Every walk keeps to the shape of its kind, and is right if nothing was moved.
ReadsAreRight == ReadsTypeOK /\ UndisturbedReadIsExact

\* What dialogs offer and what the tree shows, against the table.
PagesMatchTree == OffersMatchServer /\ TreeShowsMatches
=============================================================================

---------------------------- MODULE MCRegistryPages ----------------------------
(* Small instances of ConsumersPage and MappingsPage for TLC.  The two share       *)
(* neither queries nor tables: a behaviour is a visit to the one or to the other.  *)
EXTENDS ConsumersPage, MappingsPage, TLC

CONSTANTS x, y, h1, h2, m1, m2, c1, c2, s1, d1

VARIABLE visit

Consumer(name, contractType, profile) ==
    [name |-> name, contractType |-> contractType, transformationProfile |-> profile,
     healthStatus |-> "HEALTHY"]

\* One or two consumers, of a contract type that three profiles support.
SmallTables ==
    {<<Consumer(x, "REST_API", "release-summary-v1"), NoRow>>,
     <<Consumer(x, "REST_API", "release-summary-v1"), Consumer(y, "FILE_DROP", "published-model-v1")>>}

\* One field each, of a pair of columns that have to fit.
PartialDtos ==
    {[f \in {"contractType"} |-> "FILE_DROP"], [f \in {"transformationProfile"} |-> "capability-delta-v1"]}

\* One or two mappings of a capability.
Mapped(state) == [capability |-> c1, system |-> s1, state |-> state, details |-> d1]
OneOrTwoMappings ==
    {(m1 :> Mapped("ACTIVE")) @@ (m2 :> NoMapping), (m1 :> Mapped("ACTIVE")) @@ (m2 :> Mapped("INACTIVE"))}
NoneOrOther == {{}, {c2}}
EmptyDialog == [state |-> "ACTIVE", details |-> d1]
ActiveOnly == {[capability |-> Blank, system |-> Blank, state |-> "ACTIVE"]}

VisitInit ==
    /\ visit \in {"consumers", "mappings"}
    /\ Init /\ PageInit
    /\ visit = "mappings" => rows[2] = NoRow /\ shown # OfCapability(c2)
    /\ visit = "consumers" => row[m2] = NoMapping /\ retired = {} /\ ~IsCapabilityPage(shown)

VisitNext ==
    \/ visit = "consumers" /\ Next /\ UNCHANGED <<visit, mappingVars>>
    \/ visit = "mappings" /\ PageNext /\ UNCHANGED <<visit, vars>>

VisitSpec == VisitInit /\ [][VisitNext]_<<visit, vars, mappingVars>>

Symmetry == Permutations(Handlers)
=============================================================================

------------------------------ MODULE Reports -------------------------------
(***************************************************************************)
(* The analytics of the model and the impact analysis of a change.         *)
(* Source: apps/api/src/analytics, impact-analysis.                        *)
(*                                                                         *)
(* A report reads the capabilities and the mappings in two statements that *)
(* run side by side at READ COMMITTED: a capability may be deleted before  *)
(* or created after the other statement.  So a report is a function of the *)
(* set S of capabilities that were returned, any set at all, with the      *)
(* columns reports look at in row, and of the mappings as they are now.    *)
(* Percentages, limits and the order of lists are left out.                *)
(***************************************************************************)
EXTENDS Hierarchy, Integers, FiniteSetsExt

CONSTANTS
    NoDomain,      \* domain NULL
    BlankDomain,   \* a domain of white space
    ReportRows     \* the columns of a capability that reports look at

ReportStatus == {"DRAFT", "ACTIVE", "DEPRECATED", "RETIRED"}
MappingStates == {"ACTIVE", "INACTIVE", "PENDING"}

ASSUME ReportRowsAssumption ==
    \A r \in ReportRows :
      /\ DOMAIN r = {"domain", "type", "status", "steward"}
      /\ r.type \in CapabilityType /\ r.status \in ReportStatus
      /\ r.steward \subseteq {"PERSON", "DEPARTMENT"}

\* A table has finitely many rows.
ASSUME TablesAssumption == IsFiniteSet(Capabilities) /\ IsFiniteSet(Mappings)

-----------------------------------------------------------------------------
(* loadAnalyticsDataset *)

FilteredMappings(S) == {m \in Mappings : mapping[m] # NoMapping /\ mapping[m].capability \in S}

InState(M, state) == {m \in M : mapping[m].state = state}

MappedIds(S) == {mapping[m].capability : m \in FilteredMappings(S)}

ActiveMappedIds(S) == {mapping[m].capability : m \in InState(FilteredMappings(S), "ACTIVE")}

DomainKey(domain) == IF domain = BlankDomain THEN NoDomain ELSE domain

InDomain(S, row, key) == {c \in S : DomainKey(row[c].domain) = key}
DomainKeys(S, row) == {DomainKey(row[c].domain) : c \in S}

OfType(S, row, type) == {c \in S : row[c].type = type}
LeavesOf(S, row) == OfType(S, row, "LEAF")
WithStatus(S, row, status) == {c \in S : row[c].status = status}
Assigned(S, row, who) == {c \in S : who \in row[c].steward}
FullyCovered(S, row) == {c \in S : row[c].steward = {"PERSON", "DEPARTMENT"}}

-----------------------------------------------------------------------------
(* The reports *)

\* The part of the health summary that is kept in total and per domain: M is the
\* set of mapped capabilities.
HealthOf(S, row, M) ==
    [capabilityCount |-> Cardinality(S),
     leafCapabilityCount |-> Cardinality(LeavesOf(S, row)),
     mappedCapabilityCount |-> Cardinality(S \cap M),
     mappedLeafCapabilityCount |-> Cardinality(LeavesOf(S, row) \cap M),
     stewardshipCoverageCount |-> Cardinality(FullyCovered(S, row)),
     lifecycleStatusCounts |-> [s \in ReportStatus |-> Cardinality(WithStatus(S, row, s))],
     capabilityTypeCounts |-> [t \in CapabilityType |-> Cardinality(OfType(S, row, t))]]

\* In the total, the mapped capabilities are the size of the set that was built
\* from the mappings; in a domain they are counted one by one.
ModelHealth(S, row) ==
    [total |-> [HealthOf(S, row, MappedIds(S)) EXCEPT !.mappedCapabilityCount = Cardinality(MappedIds(S))],
     totalMappings |-> Cardinality(FilteredMappings(S)),
     domains |-> [k \in DomainKeys(S, row) |-> HealthOf(InDomain(S, row, k), row, MappedIds(S))]]

StewardshipOf(S, row) ==
    [totalCapabilities |-> Cardinality(S),
     stewardAssignedCount |-> Cardinality(Assigned(S, row, "PERSON")),
     stewardDepartmentAssignedCount |-> Cardinality(Assigned(S, row, "DEPARTMENT")),
     fullyCoveredCount |-> Cardinality(FullyCovered(S, row))]

StewardshipCoverage(S, row) ==
    [total |-> StewardshipOf(S, row),
     domains |-> [k \in DomainKeys(S, row) |-> StewardshipOf(InDomain(S, row, k), row)]]

\* Only leaves count, so a domain without leaves has no line.
CoverageOf(S, row, M, A) ==
    [totalLeafCapabilities |-> Cardinality(LeavesOf(S, row)),
     mappedLeafCapabilities |-> Cardinality(LeavesOf(S, row) \cap M),
     activeMappedLeafCapabilities |-> Cardinality(LeavesOf(S, row) \cap A)]

MappingCoverage(S, row) ==
    LET M == MappedIds(S)
        A == ActiveMappedIds(S) IN
      [total |-> CoverageOf(S, row, M, A),
       mappedCapabilities |-> Cardinality(M),
       totalMappings |-> Cardinality(FilteredMappings(S)),
       mappingStateCounts |-> [s \in MappingStates |-> Cardinality(InState(FilteredMappings(S), s))],
       domains |-> [k \in DomainKeys(LeavesOf(S, row), row) |->
                      CoverageOf(InDomain(S, row, k), row, M, A)]]

\* A cell for every observed domain and every status.
Heatmap(S, row) ==
    [cell \in DomainKeys(S, row) \X ReportStatus |->
       LET here == WithStatus(InDomain(S, row, cell[1]), row, cell[2]) IN
         [capabilityCount |-> Cardinality(here),
          mappedCapabilityCount |-> Cardinality(here \cap MappedIds(S)),
          mappedLeafCapabilityCount |-> Cardinality(LeavesOf(here, row) \cap MappedIds(S)),
          stewardshipCoverageCount |-> Cardinality(FullyCovered(here, row))]]

\* Mutant: a leaf whose mappings are all inactive is a gap.
GapsByActive(S, row) ==
    {c \in LeavesOf(S, row) : row[c].status = "ACTIVE" /\ c \notin ActiveMappedIds(S)}

UnmappedActiveLeaves(S, row) ==
    {c \in LeavesOf(S, row) : row[c].status = "ACTIVE" /\ c \notin MappedIds(S)}

DeprecatedWithActiveMappings(S, row) ==
    WithStatus(S, row, "DEPRECATED") \cap ActiveMappedIds(S)

\* The domain filter is normalized as the column is; none asks for all.
GapAnalysis(S, row, domain) ==
    LET scope == IF DomainKey(domain) = NoDomain THEN S ELSE InDomain(S, row, DomainKey(domain)) IN
      [unmapped |-> UnmappedActiveLeaves(S, row) \cap scope,
       deprecated |-> DeprecatedWithActiveMappings(S, row) \cap scope]

-----------------------------------------------------------------------------
(* ImpactAnalysisService *)

HighSeverityTypes == {"RETIRE", "MERGE"}

ComputeSeverity(active, total, op) ==
    IF active > 0 THEN IF op \in HighSeverityTypes THEN "HIGH" ELSE "MEDIUM"
    ELSE IF total > 0 THEN "MEDIUM" ELSE "LOW"

Analyse(S, op) ==
    LET impacted == FilteredMappings(S)
        Impacted(state) == Cardinality(InState(impacted, state)) IN
      [totalMappings |-> Cardinality(impacted),
       activeMappings |-> Impacted("ACTIVE"),
       inactiveMappings |-> Impacted("INACTIVE"),
       pendingMappings |-> Impacted("PENDING"),
       severity |-> ComputeSeverity(Impacted("ACTIVE"), Cardinality(impacted), op)]

-----------------------------------------------------------------------------
(* Properties *)

Total(f) == MapThenSumSet(LAMBDA k : f[k], DOMAIN f)

\* The numbers of the reports made of these rows agree with one another.
NumbersAgree(S, row) ==
    LET health == ModelHealth(S, row)
        coverage == MappingCoverage(S, row)
        steward == StewardshipCoverage(S, row)
        cells == Heatmap(S, row) IN
      /\ Total([k \in DOMAIN health.domains |-> health.domains[k].mappedCapabilityCount])
           = health.total.mappedCapabilityCount
      /\ Total([k \in DOMAIN health.domains |-> health.domains[k].leafCapabilityCount])
           = health.total.leafCapabilityCount
      /\ Total([k \in DOMAIN coverage.domains |-> coverage.domains[k].mappedLeafCapabilities])
           = health.total.mappedLeafCapabilityCount
      /\ Total(coverage.mappingStateCounts) = health.totalMappings
      /\ Total([k \in DOMAIN steward.domains |-> steward.domains[k].fullyCoveredCount])
           = health.total.stewardshipCoverageCount
      /\ Total([c \in DOMAIN cells |-> cells[c].capabilityCount]) = Cardinality(S)
      /\ Total([c \in DOMAIN cells |-> cells[c].mappedCapabilityCount]) = coverage.mappedCapabilities
      /\ Total([c \in DOMAIN cells |-> cells[c].mappedLeafCapabilityCount])
           = coverage.total.mappedLeafCapabilities
      /\ coverage.total.activeMappedLeafCapabilities <= coverage.total.mappedLeafCapabilities
      /\ coverage.mappedCapabilities <= Cardinality(S)

\* Whatever is created, deleted or merged between the two statements of a report,
\* its numbers add up: the domains sum to the totals, the heatmap counts what the
\* health summary counts, and no part is larger than what it is a part of.
\* (loadAnalyticsDataset, getModelHealthSummary, getMappingCoverage,
\* getStewardshipCoverage, getHeatmap.)
ReportsAddUp == \A S \in SUBSET Capabilities : \A row \in [S -> ReportRows] : NumbersAgree(S, row)

\* The gaps of the analytics page and the impact analysis of a change request tell
\* the same story of a capability that is there: an active leaf is reported as
\* unmapped exactly when changing it is of low impact, and a deprecated capability
\* as still in use exactly when retiring it is of high impact.
\* (getGapAnalysis, computeSeverity, analyse.)
GapsMatchImpact ==
    \A row \in [exists -> ReportRows] : \A domain \in {NoDomain} \cup DomainKeys(exists, row) :
      LET gaps == GapAnalysis(exists, row, domain)
          asked == IF domain = NoDomain THEN exists ELSE InDomain(exists, row, domain) IN
        \A c \in asked :
          /\ c \in gaps.unmapped <=>
               /\ row[c].type = "LEAF" /\ row[c].status = "ACTIVE"
               /\ Analyse({c}, "UPDATE").severity = "LOW"
          /\ c \in gaps.deprecated <=>
               row[c].status = "DEPRECATED" /\ Analyse({c}, "RETIRE").severity = "HIGH"
=============================================================================

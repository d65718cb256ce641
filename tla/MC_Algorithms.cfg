SPECIFICATION MCSpec
CONSTANTS
    Stores <- MCStores
    Events <- MCEvents
    Docs <- MCDocs
    Blocks <- MCBlocks
    Schemas <- MCSchemas
    Arguments <- MCArguments
    Pods <- MCPods
    InjectionConfigs <- MCInjectionConfigs
    Trees <- MCTrees
    Fold <- MCFold
    NamespaceOf <- MCNamespaceOf
    Written <- MCWritten
    Documents <- MCDocuments
    Recorded <- MCRecorded
    DomainOf <- MCDomainOf
    SlugOf <- MCSlugOf
    Order <- MCOrder
    Counts <- MCCounts
    Usual <- MCUsual
    Outages <- MCOutages
    Thresholds <- MCThresholds
    Caps <- MCCaps
    Estates <- MCEstates
    AskedOf <- MCAskedOf
    RiskOf <- MCRiskOf
    VerbOf <- MCVerbOf
    NsRank <- MCNsRank
    MaxPriority = 2
    Ids = {"a/x", "b/x", "foreign"}
INVARIANTS
    NothingLoosens
    EveryWayOut
    NothingUnreadIsPassed
    AdmissionAgrees
    PodsAreGoverned
    CallersActAtHome
    PoliciesSeeTheCall
    IntentsAreMeant
    ScoresAreFair
    WorstPathsAreShown
CHECK_DEADLOCK FALSE

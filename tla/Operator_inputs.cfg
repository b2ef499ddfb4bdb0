SPECIFICATION MCSpec
CONSTANTS
    Strictest <- MCStrictest
    Approvers = {1, 2}
    NoExpiry = NoExpiry
    NoAuthority = NoAuthority
    MaxValue = 3
    MaxTime = 2
    MaxRecords = 2
    Extensions = {e1, e2}
    PluginFindings <- MCFindings
    MAX_DETAIL_MAGNITUDE = 2
    NoQuantity = NoQuantity
    Silent = Silent
    conformance_corpus <- MCCorpus
    Content = {c1, c2}
    Amounts = {0, 1}
    Ages = {0, 1, 2}
    MAX_QUOTE_AGE = 1
SYMMETRY Symmetry
INVARIANTS TypeOK OnlyAuthorityLoosens AuthorityIsNarrowest NobodyIsSilenced ConcernsAreActionable
PROPERTIES LapseTightens

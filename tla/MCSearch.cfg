CONSTANTS
    NFiles = 2
    Hidden = {2}
    Query = {"a", "b"}
    NoQuery = ""
    Matches <- MCMatches
    Volatile = {1}
    Cap = 1
    MaxSearches = 2
SPECIFICATION FairSpec
INVARIANTS
    TypeOK
    RowsAnswerTheQuery
    FoundOnce
PROPERTIES
    SearchCompletes
    ReplacedSearchesEnd

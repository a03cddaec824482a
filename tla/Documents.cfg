\* Bounds scaled to where one level more makes a difference: the walk's depth
\* is the least that its bounds assumption allows.
SPECIFICATION MCSpec
CONSTANTS
    MaxSubqueryDepth = 1
    MaxSources = 3
    MaxNesting = 3
    MaxWalkDepth = 3
    MaxTreeDepth = 3
    PlainNames = {"f", "g", "h", "k", "s", "F", "nope", "$id"}
    QuotedNames = {"f", "g", "h", "k", "s", "F", "nope", "$id", "zip code"}
    Identifiers = {"c", "d", "u", "f", "g", "h", "k", "s", "x", "y", "z"}
    Columns <- MCColumns
    Fold <- MCFold
    Unlisted = {"u"}
    KeyField = "$id"
    Leaves <- MCLeaves
    Self = "db"
    Around = "c"
    SelectLists <- MCSelectLists
    Clauses <- MCClauses
    SchemaKeys = {"'c'", "c"}
    Logical <- MCLogical
    SchemaOf <- MCSchemaOf
    Lower <- MCLower
    PlainFields = {"n", "N", "o", "b", "B", "x", "id", "ID"}
    MapKeys = {"n", "N", "o", "b", "B", "x", "id", "ID", "a b"}
    KeySpellings = {"id", "ID"}
    Batches <- MCBatches
    MaxHalves = 2
INVARIANTS
    ClassifierListsEveryRead
    WalkAdmitsClassified
    GuardsNest
    HandedIsPlain
    NamesReadAsMeant
    StoredIsValid
    StoredIsStaged
CHECK_DEADLOCK FALSE

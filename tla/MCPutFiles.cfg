SPECIFICATION PutSpec
CONSTANTS
    html = html
    js = js
    z = z
    root = root
    a = a
    Dot = Dot
    star = star
    named = named
    index = index
    bad = bad
    EmptyLine = EmptyLine
    Bad = {bad}
    Files <- MCFiles
    Directories <- MCDirectories
    Patterns <- MCPatterns
    Trees <- MCTrees
    Full <- MCFull
    Base <- MCBase
    Includes <- MCIncludes
    Excludes <- MCExcludes
    indexes = indexes
    nested = nested
    wrong = wrong
    short = short
    long = long
    Star = Star
    Empty = Empty
    CachePatterns = {indexes, nested, wrong}
    CacheBad = {wrong}
    Keys = {html, js, z}
    Nested = {js}
    Texts = {short, long}
    Matches <- MCMatches
    BaseMatches <- MCBaseMatches
    Formats <- MCFormats
    KeyOf <- MCKeyOf
    Scenarios <- MCScenarios
    Operations = 6
    MaxAttempts = 3
    Lifetime = 2
    MaxClock = 7
    Rounds = 2
INVARIANTS
    PutTypeOK
    ChosenAsAsked
    ValueAsked
    OneTokenEach
PROPERTIES
    RunsEnd
CHECK_DEADLOCK FALSE

---------------------------- MODULE CacheControl ----------------------------
(***************************************************************************)
(* Which Cache-Control value an object is put with: the lines of           *)
(* CACHE_CONTROL are parsed into a map (ParseCacheControlFormats); for     *)
(* each file the map is searched for a pattern that matches                *)
(* (GetCacheControlValue), in the order of a Go map iteration, which is    *)
(* chosen anew every time.  PutFiles says which keys are looked up, and    *)
(* puts the objects.                                                       *)
(***************************************************************************)
EXTENDS Naturals, Sequences, FiniteSets

CONSTANTS
    Keys,           \* object keys
    CachePatterns,  \* patterns other than "*"
    Star,           \* the pattern "*", which stands for the default
    CacheBad,       \* the patterns that filepath.Match rejects
    Matches,        \* Matches[k]: the patterns that match the key k itself
    BaseMatches,    \* BaseMatches[k]: those that match its base name
    Nested,         \* the keys that contain a "/"
    Texts,          \* cache control values without the spaces around them
    Empty,          \* the value of which nothing is left then
    Formats         \* what CACHE_CONTROL may be: sequences of lines

ASSUME CachePatternsAssumption ==
    /\ Star \notin CachePatterns /\ CacheBad \subseteq CachePatterns
    /\ Nested \subseteq Keys /\ Keys # {}
    /\ Matches \in [Keys -> SUBSET (CachePatterns \ CacheBad)]
    /\ BaseMatches \in [Keys -> SUBSET (CachePatterns \ CacheBad)]
    /\ \A k \in Keys \ Nested : BaseMatches[k] = Matches[k]
ASSUME TextsAssumption == Empty \notin Texts

\* A value may have spaces around it.
Values == [text : Texts \cup {Empty}, padded : BOOLEAN]
NoValue == [text |-> Empty, padded |-> FALSE]

\* A line: how many parts there are between its ":", the patterns listed in
\* the first and the value in the second.
FormatLines ==
    [parts : Nat \ {0}, keys : Seq(CachePatterns \cup {Star}), value : Values]

ASSUME FormatsAssumption == Formats \subseteq Seq(FormatLines)

VARIABLES
    formats,  \* the lines of CACHE_CONTROL
    stage,    \* where the upload is
    line,     \* how many lines have been parsed
    mapping,  \* the map that is built: the values of the patterns it has
    default,  \* CacheControlConfig.Default
    key,      \* the key whose value is looked for
    left,     \* the patterns the iteration has not come to
    value     \* what GetCacheControlValue returned

config == <<formats, line, mapping, default>>
lookup == <<formats, stage, line, mapping, default, key, left, value>>

EmptyMap == [p \in {} |-> NoValue]
AnyKey == CHOOSE k \in Keys : TRUE

CacheTypeOK ==
    /\ formats \in Formats
    /\ stage \in {"parse", "upload", "match", "put", "end"}
    /\ line \in 0 .. Len(formats)
    /\ DOMAIN mapping \subseteq CachePatterns \cup {Star}
    /\ \A p \in DOMAIN mapping : mapping[p] \in Values
    /\ stage # "parse" => Star \notin DOMAIN mapping
    /\ default \in Values
    /\ key \in Keys
    /\ left \subseteq DOMAIN mapping
    /\ value \in Values

CacheInit ==
    /\ formats \in Formats
    /\ stage = "parse"
    /\ line = 0
    /\ mapping = EmptyMap
    /\ default = NoValue
    /\ key = AnyKey
    /\ left = {}
    /\ value = NoValue
-----------------------------------------------------------------------------
(***************************************************************************)
(* Faulty variants of the definitions below, for the mutation checks.      *)
(***************************************************************************)
\* The first value given for a pattern stays.
FirstWins(m, l) ==
    [p \in DOMAIN m \cup {l.keys[i] : i \in 1 .. Len(l.keys)} |->
        IF p \in DOMAIN m THEN m[p] ELSE [l.value EXCEPT !.padded = FALSE]]
\* A bad pattern ends the search.
StopAtBad(p) == IF p \in CacheBad THEN {} ELSE left \ {p}
\* The default stays in the map.
DefaultStays(m) == m
-----------------------------------------------------------------------------
Trim(v) == [v EXCEPT !.padded = FALSE]

\* A line with another number of parts than two is passed over.
Usable(l) == l.parts = 2

\* The default keeps its spaces when "*" stands alone; later lines win.
Entered(m, l) ==
    [p \in DOMAIN m \cup {l.keys[i] : i \in 1 .. Len(l.keys)} |->
        IF \E i \in 1 .. Len(l.keys) : l.keys[i] = p
        THEN IF l.keys = <<Star>> THEN l.value ELSE Trim(l.value)
        ELSE m[p]]

ParseLine ==
    /\ stage = "parse"
    /\ line < Len(formats)
    /\ line' = line + 1
    /\ mapping' = IF Usable(formats[line'])
                  THEN Entered(mapping, formats[line']) ELSE mapping
    /\ UNCHANGED <<formats, stage, default, key, left, value>>

WithoutDefault(m) == [p \in DOMAIN m \ {Star} |-> m[p]]

\* The default is taken out of the map, and the upload begins.
TakeDefault ==
    /\ stage = "parse"
    /\ line = Len(formats)
    /\ default' = IF Star \in DOMAIN mapping THEN mapping[Star] ELSE NoValue
    /\ mapping' = WithoutDefault(mapping)
    /\ stage' = "upload"
    /\ UNCHANGED <<formats, line, key, left, value>>

\* uploadFile asks for the value of a key.
LookUp(k) ==
    /\ stage = "upload"
    /\ key' = k
    /\ left' = DOMAIN mapping
    /\ stage' = "match"
    /\ UNCHANGED <<config, value>>

Matching(k) == Matches[k] \cup (IF k \in Nested THEN BaseMatches[k] ELSE {})

\* One that does not match, or that Match rejects.
PassOver(p) == left \ {p}

\* One pattern of the iteration, any that is left.
TryPattern(p) ==
    /\ stage = "match"
    /\ p \in left
    /\ IF p \in Matching(key)
       THEN /\ value' = mapping[p]
            /\ stage' = "put"
            /\ UNCHANGED left
       ELSE /\ left' = PassOver(p)
            /\ UNCHANGED <<value, stage>>
    /\ UNCHANGED <<config, key>>

NoPattern ==
    /\ stage = "match"
    /\ left = {}
    /\ value' = default
    /\ stage' = "put"
    /\ UNCHANGED <<config, key, left>>
-----------------------------------------------------------------------------
(***************************************************************************)
(* What the inputs ask for, without the map and its iteration.             *)
(***************************************************************************)
Names(l, p) == Usable(l) /\ \E i \in 1 .. Len(l.keys) : l.keys[i] = p

Given(p) == {i \in 1 .. Len(formats) : Names(formats[i], p)}

\* The value of the last line that names the pattern.
Asked(p) ==
    LET last == CHOOSE i \in Given(p) : \A j \in Given(p) : j <= i
    IN IF formats[last].keys = <<Star>>
       THEN formats[last].value ELSE Trim(formats[last].value)

\* The values a key may get: those of the patterns that match it, or else
\* the default.
Candidates(k) ==
    LET matching == {p \in Matches[k] \cup BaseMatches[k] : Given(p) # {}}
    IN IF matching # {} THEN {Asked(p) : p \in matching}
       ELSE IF Given(Star) # {} THEN {Asked(Star)}
       ELSE {NoValue}
=============================================================================

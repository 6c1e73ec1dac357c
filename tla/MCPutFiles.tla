----------------------------- MODULE MCPutFiles -----------------------------
(***************************************************************************)
(* The tree of upload_test.go with one entry more: index.html, a/index.js  *)
(* and z, which is a file, a link to a directory, or a link to nothing.    *)
(* Includes and excludes are ".", "*", "index.html", "index.*", which      *)
(* matches a/index.js by its base name only, one that is bad and an empty  *)
(* line.  Cache control patterns are index.*, a/* and a bad one; PREFIX is *)
(* empty.  A scenario varies the selection, or CACHE_CONTROL, or what time *)
(* and failures do to the requests, and is plain in the rest.              *)
(***************************************************************************)
EXTENDS PutFiles, TLC

CONSTANTS html, js, z, root, a, star, named, index, bad,
          indexes, nested, wrong, short, long

MCFiles == {html, js, z}
MCDirectories == {root, a}
MCPatterns == {Dot, star, named, index, bad, EmptyLine}

Tree(kind) ==
    [glob |-> (Dot :> <<root>> @@ star :> <<a, html, z>> @@ named :> <<html>>
               @@ index :> <<html>> @@ bad :> <<>> @@ EmptyLine :> <<>>),
     walk |-> (root :> <<js, html, z>> @@ a :> <<js>>),
     kind |-> (html :> "file" @@ js :> "file" @@ z :> kind)]

MCTrees == {Tree(kind) : kind \in Kinds}

MCFull ==
    [p \in MCPatterns |->
        CASE p = star -> {html, z} [] p \in {named, index} -> {html} [] OTHER -> {}]
MCBase ==
    [p \in MCPatterns |->
        CASE p = star -> MCFiles [] p = named -> {html}
          [] p = index -> {html, js} [] OTHER -> {}]

UpTo(n, S) == UNION {[1 .. m -> S] : m \in 0 .. n}

MCIncludes == UpTo(2, MCPatterns)
MCExcludes == UpTo(2, MCPatterns \ {Dot})

MCKeyOf == [f \in MCFiles |-> f]
MCMatches == html :> {indexes} @@ js :> {nested} @@ z :> {}
MCBaseMatches == html :> {indexes} @@ js :> {indexes} @@ z :> {}

Line(keys, text, padded) ==
    [parts |-> 2, keys |-> keys, value |-> [text |-> text, padded |-> padded]]

\* The lines that differ for the parser: one or several patterns, values
\* with spaces, an empty value, the default alone and in a list, a line with
\* a ":" too many.
SomeLines ==
    { Line(<<indexes>>, short, FALSE),    Line(<<indexes>>, long, TRUE),
      Line(<<nested>>, long, FALSE),      Line(<<indexes, nested>>, short, TRUE),
      Line(<<Star>>, long, TRUE),         Line(<<indexes, Star>>, short, TRUE),
      Line(<<wrong>>, short, FALSE),      Line(<<indexes>>, Empty, TRUE),
      [Line(<<nested>>, short, FALSE) EXCEPT !.parts = 3] }

MCFormats == UpTo(3, SomeLines)

Plain ==
    [tree |-> Tree("file"), include |-> <<>>, exclude |-> <<>>, formats |-> <<>>,
     disturbed |-> FALSE]

MCScenarios ==
    {[Plain EXCEPT !.tree = t, !.include = i, !.exclude = e] :
        t \in MCTrees, i \in MCIncludes, e \in MCExcludes}
    \cup {[Plain EXCEPT !.formats = f] : f \in MCFormats}
    \cup {[Plain EXCEPT !.disturbed = TRUE]}
=============================================================================

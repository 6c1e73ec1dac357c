----------------------------- MODULE Selection -----------------------------
(***************************************************************************)
(* Which files the function action zips (zipSources) and which ones        *)
(* obj-storage-upload puts (Upload), given the same INCLUDE and EXCLUDE    *)
(* over the same files.  Both glob each include, walk the directories      *)
(* among the matches and try the excludes one after the other; they differ *)
(* in which files they try and against what.  They share nothing, so the   *)
(* model lets one finish before the other begins.  What becomes of the     *)
(* files that Upload takes is in CacheControl and PutFiles.                *)
(***************************************************************************)
EXTENDS Naturals, Sequences, SequencesExt

CONSTANTS
    Files,       \* what a walk may come to that is not a directory
    Directories,
    Patterns,
    Dot,         \* the include "."
    EmptyLine,   \* an empty line of INCLUDE or EXCLUDE
    Bad,         \* the patterns that Match and Glob reject
    Trees,       \* file systems, see TreesAssumption
    Full,        \* Full[p]: the files whose path below the root p matches
    Base,        \* Base[p]: the files whose base name p matches
    Includes,    \* what INCLUDE may be: sequences of patterns
    Excludes     \* what EXCLUDE may be

\* An entry is a file, a link to a directory or a link to nothing.
Kinds == {"file", "dirlink", "dangling"}

\* The matches of each include in order, the files of each directory in the
\* order of the walk, the kind of each file.
ASSUME TreesAssumption ==
    /\ Files \cap Directories = {}
    /\ \A tree \in Trees :
       /\ tree.glob \in [Patterns -> Seq(Files \cup Directories)]
       /\ tree.walk \in [Directories -> Seq(Files)]
       /\ tree.kind \in [Files -> Kinds]
ASSUME PatternsAssumption ==
    /\ Dot \in Patterns \ Bad /\ EmptyLine \in Patterns \ Bad
    /\ Bad \subseteq Patterns
    /\ Full \in [Patterns -> SUBSET Files] /\ Base \in [Patterns -> SUBSET Files]
    /\ \A p \in Bad : Full[p] = {} /\ Base[p] = {}
    /\ Includes \subseteq Seq(Patterns) /\ Excludes \subseteq Seq(Patterns)

VARIABLES
    tree,      \* the file system
    include,   \* the lines of INCLUDE
    exclude,   \* the lines of EXCLUDE
    program,   \* the program that runs now
    position,  \* how many includes it has taken up
    queue,     \* the matches of the current include it has not come to
    walk,      \* the files of the current directory it has not come to
    status,    \* how far each program is
    chosen     \* the files it has taken to zip or put them, in order

inputs == <<tree, include, exclude>>
selection == <<tree, include, exclude, program, position, queue, walk, status, chosen>>

Programs == {"function", "upload"}

\* The include "." is the default of both programs.
Included == IF include = <<>> THEN <<Dot>> ELSE include

SelectionTypeOK ==
    /\ tree \in Trees /\ include \in Includes /\ exclude \in Excludes
    /\ program \in Programs
    /\ position \in 0 .. Len(Included)
    /\ queue \in Seq(Files \cup Directories)
    /\ walk \in Seq(Files)
    /\ status \in [Programs -> {"running", "done", "failed"}]
    /\ chosen \in [Programs -> Seq(Files)]

SelectionInit ==
    /\ tree \in Trees /\ include \in Includes /\ exclude \in Excludes
    /\ program = "function"
    /\ position = 0
    /\ queue = <<>>
    /\ walk = <<>>
    /\ status = [p \in Programs |-> "running"]
    /\ chosen = [p \in Programs |-> <<>>]
-----------------------------------------------------------------------------
(***************************************************************************)
(* Faulty variants of the definitions below, for the mutation checks.      *)
(***************************************************************************)
\* An empty line swallows the line after it.
SkipTwo == position + 2
\* The wrong program tries the files that an include names.
TriedOther(entry) == program = "function" \/ ~entry.direct
\* The full path only, in both programs.
NoBaseName(p) == Full[p]
\* A pattern that cannot be read is passed over.
PassedOver(p) == FALSE
-----------------------------------------------------------------------------
\* parseIgnoreGlobPatterns: the lines of EXCLUDE that are kept.
Ignore == {i \in 1 .. Len(exclude) : exclude[i] # EmptyLine}

Running == status[program] = "running"

End(how) ==
    /\ status' = [status EXCEPT ![program] = how]
    /\ queue' = <<>>
    /\ walk' = <<>>
    /\ IF program = "function"
       THEN program' = "upload" /\ position' = 0
       ELSE UNCHANGED <<program, position>>

NextPosition == position + 1

\* filepath.Glob always rejects a bad include; afero.Glob does so only when
\* there is a name to compare it with.
NextInclude ==
    /\ Running /\ queue = <<>> /\ walk = <<>> /\ position < Len(Included)
    /\ LET p == Included[position + 1] IN
       \/ /\ p \in Bad
          /\ End("failed")
       \/ /\ p \in Bad => program = "upload"
          /\ queue' = IF p \in Bad \cup {EmptyLine} THEN <<>> ELSE tree.glob[p]
          /\ position' = NextPosition
          /\ UNCHANGED <<program, walk, status>>
    /\ UNCHANGED <<inputs, chosen>>

\* A match that is a directory is walked.
EnterDirectory ==
    /\ Running /\ walk = <<>> /\ queue # <<>>
    /\ Head(queue) \in Directories
    /\ walk' = tree.walk[Head(queue)]
    /\ queue' = Tail(queue)
    /\ UNCHANGED <<inputs, program, position, status, chosen>>

\* So is a match that is a link to a directory, but the walk does not follow
\* links and comes to the link itself.
Coming ==
    IF walk # <<>> THEN [file |-> Head(walk), direct |-> FALSE]
    ELSE [file |-> Head(queue), direct |-> tree.kind[Head(queue)] # "dirlink"]

\* zipSources tries the files of walked directories only.
Tried(entry) == program = "upload" \/ ~entry.direct

\* Upload compares the base name too.
Excluded(p) == IF program = "upload" THEN Full[p] \cup Base[p] ELSE Full[p]

Rejected(p) == p \in Bad

\* The patterns are tried in order up to the first that matches or is bad.
Decides(i, f) == Rejected(exclude[i]) \/ f \in Excluded(exclude[i])

Verdict(f) ==
    LET deciding == {i \in Ignore : Decides(i, f)}
    IN IF deciding = {} THEN "take"
       ELSE LET first == CHOOSE i \in deciding : \A j \in deciding : i <= j
            IN IF Rejected(exclude[first]) THEN "error" ELSE "skip"

\* addFileToZip opens and reads what it is given; uploadFile leaves out what
\* turns out to be a directory.
Take(f) ==
    CASE tree.kind[f] = "file"     -> "take"
      [] tree.kind[f] = "dangling" -> "error"
      [] OTHER -> IF program = "upload" THEN "skip" ELSE "error"

\* A match is looked at with Stat before anything else.
Outcome(entry) ==
    IF entry.direct /\ tree.kind[entry.file] = "dangling" THEN "error"
    ELSE IF Tried(entry) /\ Verdict(entry.file) # "take"
         THEN Verdict(entry.file)
         ELSE Take(entry.file)

\* The next file of the directory, or the next match.
Advance ==
    /\ IF walk # <<>> THEN walk' = Tail(walk) /\ UNCHANGED queue
       ELSE queue' = Tail(queue) /\ UNCHANGED walk
    /\ UNCHANGED <<program, position, status>>

Visit ==
    /\ Running
    /\ walk # <<>> \/ (queue # <<>> /\ Head(queue) \notin Directories)
    /\ LET outcome == Outcome(Coming) IN
       /\ chosen' = [chosen EXCEPT ![program] =
                        IF outcome = "take" THEN Append(@, Coming.file) ELSE @]
       /\ IF outcome = "error" THEN End("failed") ELSE Advance
    /\ UNCHANGED inputs

Finish ==
    /\ Running /\ queue = <<>> /\ walk = <<>> /\ position = Len(Included)
    /\ End("done")
    /\ UNCHANGED <<inputs, chosen>>

Select == NextInclude \/ EnterDirectory \/ Visit \/ Finish
-----------------------------------------------------------------------------
(***************************************************************************)
(* What the inputs ask for, as sets.                                       *)
(***************************************************************************)
Lines(s) == {s[i] : i \in 1 .. Len(s)} \ {EmptyLine}

\* The files an include names, and those it reaches through a directory.
Direct == {f \in Files : \E p \in Lines(Included) \ Bad :
              \E i \in DOMAIN tree.glob[p] : tree.glob[p][i] = f}
Walked == {f \in Files : \E p \in Lines(Included) \ Bad :
              \E i \in DOMAIN tree.glob[p] :
                 /\ tree.glob[p][i] \in Directories
                 /\ \E j \in DOMAIN tree.walk[tree.glob[p][i]] :
                       tree.walk[tree.glob[p][i]][j] = f}
ByPath == {f \in Files : \E p \in Lines(exclude) : f \in Full[p]}
ByName == {f \in Files : \E p \in Lines(exclude) : f \in Base[p]}
Regular == {f \in Files : tree.kind[f] = "file"}

\* What Upload is asked for: whatever the includes reach and no exclude
\* matches by path or by base name.
ToBePut == ((Direct \cup Walked) \ (ByPath \cup ByName)) \cap Regular

(***************************************************************************)
(* A package has what was asked for: what an include names, excluded or    *)
(* not, and what the walks reach and no exclude matches by path            *)
(* (zipSources).                                                           *)
(***************************************************************************)
ZippedAsAsked ==
    status["function"] = "done" =>
       ToSet(chosen["function"]) = (Direct \cup (Walked \ ByPath)) \cap Regular
=============================================================================

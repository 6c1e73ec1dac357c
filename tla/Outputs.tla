------------------------------ MODULE Outputs ------------------------------
(***************************************************************************)
(* How the outputs of an action reach the cubes that run after it:         *)
(* SetOutput of pkg/sourcecraft appends a line to the file SOURCECRAFT_ENV *)
(* under a key made of the name of the cube and that of the output, and    *)
(* only logs when it cannot.  The cubes of a workflow run one after the    *)
(* other and share the file; of two lines with one key the later counts.   *)
(* Names are sequences of characters, as the keys depend on them.  What    *)
(* the cubes do before they set outputs is in ContainerCube.               *)
(***************************************************************************)
EXTENDS Integers, Filter

CONSTANTS
    Workflows,   \* sequences of cubes: their name and the outputs they set
    Capital,     \* the capital of every letter in lower case
    Nothing,     \* what is read under a key that no line has
    Garbled,     \* a value cut off, or with something behind it
    CutPoints    \* after how many characters a key may break off

Letters == DOMAIN Capital
Capitals == {Capital[x] : x \in Letters}
Characters == Letters \cup Capitals \cup {"-", "_"}

ASSUME WorkflowsAssumption ==
    Workflows \subseteq Seq([name : Seq(Characters), outputs : Seq(Seq(Characters))])
ASSUME CutPointsAssumption == CutPoints \subseteq Nat \ {0}
ASSUME ValuesAssumption == {Nothing, Garbled} \cap (Nat \X Nat) = {}
ASSUME CapitalAssumption ==
    /\ \A x, y \in Letters : Capital[x] = Capital[y] => x = y
    /\ Letters \cap Capitals = {}
    /\ {"-", "_"} \cap (Letters \cup Capitals) = {}

VARIABLES
    workflow,   \* the cubes that run, in their order
    failing,    \* whether the file may not open, or not take all of a line
    at,         \* the cube that runs and how many outputs it has set
    file,       \* the lines of SOURCECRAFT_ENV: a key and whose value it is
    torn,       \* where the last line broke off: the next goes on with it
    calls       \* of SetOutput, whether they logged an error

writing == <<workflow, failing, at, file, torn, calls>>

\* The outputs of the workflow, as <<cube, output>>.
Settings == UNION {{c} \X DOMAIN workflow[c].outputs : c \in DOMAIN workflow}

OutputsTypeOK ==
    /\ failing \in BOOLEAN
    /\ at \in [cube : 1 .. Len(workflow) + 1, done : Nat]
    /\ \A i \in DOMAIN file :
          /\ file[i].key \in Seq(Capitals \cup {"_"})
          /\ file[i].value \in Settings \cup {Garbled, Nothing}
    /\ torn \in {"nowhere", "key", "value"}
    /\ calls \in Seq([of : Settings, logged : BOOLEAN])

\* ContainerCube says which cubes run, and whether writes fail.
OutputsInit ==
    /\ at = [cube |-> 1, done |-> 0]
    /\ file = <<>>
    /\ torn = "nowhere"
    /\ calls = <<>>
-----------------------------------------------------------------------------
(***************************************************************************)
(* Faulty variants of the definitions below, for the mutation checks.      *)
(***************************************************************************)
\* The letters keep their case.
CaseKept(name) == [i \in DOMAIN name |-> IF name[i] = "-" THEN "_" ELSE name[i]]
\* The file is truncated when it is opened.
Truncated(line) == <<line>>
\* The key is that of the output alone.
OutputOnly(c, o) ==
    LET name == workflow[c].outputs[o]
    IN  [i \in DOMAIN name |-> IF name[i] \in Letters THEN Capital[name[i]] ELSE name[i]]
-----------------------------------------------------------------------------
\* An underscore goes before a capital that starts a word.
Starts(s, i) == i > 1 /\ s[i] \in Capitals /\ s[i - 1] \notin Capitals \cup {"_"}

UpperSnakeCase(name) ==
    LET s == [i \in DOMAIN name |-> IF name[i] = "-" THEN "_" ELSE name[i]]
        upper(x) == IF x \in Letters THEN Capital[x] ELSE x
    IN  FlattenSeq([i \in DOMAIN s |->
           IF Starts(s, i) THEN <<"_", upper(s[i])>> ELSE <<upper(s[i])>>])

Key(c, o) ==
    UpperSnakeCase(workflow[c].name) \o <<"_">> \o UpperSnakeCase(workflow[c].outputs[o])

\* The file is opened to append: to the last line if that has no end.
Appended(line) ==
    CASE torn = "nowhere" -> Append(file, line)
      [] torn = "key"     -> [file EXCEPT ![Len(file)] =
                                [key |-> @.key \o line.key, value |-> line.value]]
      [] torn = "value"   -> [file EXCEPT ![Len(file)].value = Garbled]

Called(s, logged) == calls' = Append(calls, [of |-> s, logged |-> logged])

\* The line is written.
Written(c, o) ==
    /\ file' = Appended([key |-> Key(c, o), value |-> <<c, o>>])
    /\ torn' = "nowhere"
    /\ Called(<<c, o>>, FALSE)

\* There is no SOURCECRAFT_ENV, or it cannot be opened.
NotOpened(c, o) ==
    /\ failing
    /\ Called(<<c, o>>, TRUE)
    /\ UNCHANGED <<file, torn>>

\* Some of the key is written.
CutInKey(c, o) ==
    /\ failing
    /\ \E n \in CutPoints \cap 1 .. Len(Key(c, o)) :
          file' = Appended([key |-> SubSeq(Key(c, o), 1, n), value |-> Nothing])
    /\ torn' = IF torn = "value" THEN "value" ELSE "key"
    /\ Called(<<c, o>>, TRUE)

\* The key and some of the value is written, or all but the end of the line.
CutInValue(c, o) ==
    /\ failing
    /\ \E v \in {Garbled, <<c, o>>} :
          file' = Appended([key |-> Key(c, o), value |-> v])
    /\ torn' = "value"
    /\ Called(<<c, o>>, TRUE)

SetOutput(c, o) ==
    Written(c, o) \/ NotOpened(c, o) \/ CutInKey(c, o) \/ CutInValue(c, o)

\* The action of the cube sets its next output.
NextOutput ==
    /\ at.cube \in DOMAIN workflow
    /\ at.done < Len(workflow[at.cube].outputs)
    /\ SetOutput(at.cube, at.done + 1)
    /\ at' = [at EXCEPT !.done = @ + 1]
    /\ UNCHANGED <<workflow, failing>>

\* The cube ends, well or not, and the next one runs.
NextCube ==
    /\ at.cube \in DOMAIN workflow
    /\ at' = [cube |-> at.cube + 1, done |-> 0]
    /\ UNCHANGED <<workflow, failing, file, torn, calls>>
-----------------------------------------------------------------------------
\* What a later cube reads under the key of an output; a line that has not
\* come to its "=" sets nothing.
Read(s) ==
    LET lines == {i \in DOMAIN file : /\ file[i].key = Key(s[1], s[2])
                                      /\ file[i].value # Nothing}
    IN  IF lines = {} THEN Nothing ELSE file[Max(lines)].value

\* The letters of a cube's name and an output's, whatever their case and
\* what is between them.
Squashed(s) ==
    LET name == Without(workflow[s[1]].name \o workflow[s[1]].outputs[s[2]],
                        {"-", "_"})
    IN  [i \in DOMAIN name |->
           CHOOSE x \in Letters : name[i] \in {x, Capital[x]}]

Unambiguous == \A s, t \in Settings : Squashed(s) = Squashed(t) => s = t

\* The calls whose line may go on with one that broke off before its "=".
Continued == {j \in DOMAIN calls : j > 1 /\ calls[j - 1].logged}

(***************************************************************************)
(* When the names of no two outputs are the same but for their case and    *)
(* their separators, a cube reads the value of another output under the    *)
(* key of one only if the line of that output went on with a key that had  *)
(* broken off: two keys together may be a third one (SetOutput).           *)
(***************************************************************************)
NeverAnothers ==
    Unambiguous =>
       \A s \in Settings :
          Read(s) \in {Nothing, Garbled, s} \cup {calls[j].of : j \in Continued}

(***************************************************************************)
(* An error that is only logged loses its own output, and may lose others  *)
(* through the next line only: an output that logged none and follows on   *)
(* none is read as it was set, unless a later one follows on an error.     *)
(***************************************************************************)
LosesOnlyByTheNext ==
    Unambiguous =>
       \A i \in DOMAIN calls :
          ~calls[i].logged /\ i .. Len(calls) \cap Continued = {}
             => Read(calls[i].of) = calls[i].of

(***************************************************************************)
(* What a cube reads is what was set, but for the errors that were logged  *)
(* and the line after each of them.                                        *)
(***************************************************************************)
ReadAsSet == NeverAnothers /\ LosesOnlyByTheNext
=============================================================================

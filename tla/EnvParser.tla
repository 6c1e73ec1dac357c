----------------------------- MODULE EnvParser -----------------------------
(***************************************************************************)
(* The parsers of pkg/env: lines of environment variables and references   *)
(* to Lockbox secrets, as the function and container actions get them.     *)
(***************************************************************************)
EXTENDS Filter

CONSTANTS
    Word,   \* a nonempty piece of text
    Blank   \* a piece that is empty, a whole side once it is trimmed

ASSUME WordsAssumption == Word # Blank

\* A secret as Split sees it: the sides of its "=", each of them the pieces
\* between "/".  The empty line is <<>>.
SecretLines == Seq(Seq({Word, Blank}))

Given(lines) == Without(lines, {<<>>})

\* ParseSecret: one "=", a variable, a path of three nonempty pieces.
Broken(line) ==
    ~ /\ Len(line) = 2
      /\ line[1] # <<Blank>>
      /\ Len(line[2]) = 3
      /\ \A i \in 1 .. 3 : line[2][i] # Blank

\* ParseSecrets meets a broken line and calls SetFailed.
SomeBroken(lines) == \E i \in 1 .. Len(Given(lines)) : Broken(Given(lines)[i])

Parsed(lines) ==
    Without(Given(lines), {line \in ToSet(Given(lines)) : Broken(line)})

\* ParseEnvironmentVariables: lines <<name, value>>, those without a "=" are
\* <<name>> and passed over; a later line wins.
EnvironmentOf(lines) ==
    LET used == {i \in DOMAIN lines : Len(lines[i]) = 2}
        last(name) == CHOOSE i \in used :
                         /\ lines[i][1] = name
                         /\ \A j \in used : lines[j][1] = name => j <= i
    IN [name \in {lines[i][1] : i \in used} |-> lines[last(name)][2]]
=============================================================================

-------------------------- MODULE MCVersionRequest --------------------------
(***************************************************************************)
(* Two names and three accounts: a name can go from one account to another *)
(* during the run.  References are taken from those that differ for the    *)
(* code: none, by id, by name, by a second name, both.                     *)
(***************************************************************************)
EXTENDS VersionRequest

CONSTANTS a1, a2, a3, n1, n2

MCAccounts == {a1, a2, a3}
MCNames == {n1, n2}

Unset == [id |-> None, name |-> None]
ById == [id |-> a3, name |-> None]
ByName == [id |-> None, name |-> n1]
ByOther == [id |-> None, name |-> n2]
Both == [id |-> a1, name |-> n1]

Good == << <<Word>>, <<Word, Word, Word>> >>
NoPath == << <<Word>> >>
NoVersion == << <<Word>>, <<Word, Blank, Word>> >>
ShortPath == << <<Word>>, <<Word, Word>> >>

Rest ==
    { [secrets |-> <<>>,                    fits |-> TRUE],
      [secrets |-> <<Good, <<>>, Good>>,    fits |-> TRUE],
      [secrets |-> <<Good, NoPath>>,        fits |-> TRUE],
      [secrets |-> <<NoVersion, Good>>,     fits |-> TRUE],
      [secrets |-> <<Good, ShortPath>>,     fits |-> TRUE],
      [secrets |-> <<Good>>,                fits |-> FALSE] }

\* Without asynchronous invocation the other inputs are not looked at.
Plain ==
    { [service |-> s, async |-> FALSE, invoker |-> ByName, queue |-> {"failure"},
       target |-> [o \in {"success", "failure"} |-> Unset],
       secrets |-> t.secrets, fits |-> t.fits] :
      s \in {Unset, ById, ByName, Both}, t \in Rest }

Async ==
    { [service |-> s, async |-> TRUE, invoker |-> i, queue |-> q,
       target |-> [success |-> x, failure |-> y],
       secrets |-> <<Good>>, fits |-> TRUE] :
      s \in {Unset, ByName}, i \in {Unset, ById, ByOther},
      q \in SUBSET {"success", "failure"},
      x \in {Unset, ByOther}, y \in {Unset, ById, ByName, Both} }

MCInputs == Plain \cup Async
=============================================================================

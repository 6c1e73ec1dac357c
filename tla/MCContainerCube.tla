-------------------------- MODULE MCContainerCube --------------------------
(***************************************************************************)
(* Integers of 8 bits with a megabyte of 4 and a gigabyte of 8, so that    *)
(* sizes up to eight times the limit and more digits than fit occur.       *)
(* Names of a letter or two: the outputs of the coi action are VM_CREATED  *)
(* and created, here "A_B" and "b", which meet under the key A_A_B in the  *)
(* cubes "a" and "a-a".  A scenario varies one input, or the names and the *)
(* failures of writes, beside others that parse.                           *)
(***************************************************************************)
EXTENDS ContainerCube

Good == << <<Word>>, <<Word, Word, Word>> >>
NoKey == << <<Word>>, <<Word, Word, Blank>> >>
Mount(parts, s3Path, path, mode) ==
    [parts |-> parts, s3Path |-> s3Path, path |-> path, mode |-> mode]

\* "bucket:mount", with other paths and modes.
MountsAt == {Mount(2, s3, TRUE, Unset) : s3 \in {<<Blank>>, <<Word>>, <<Blank, Word>>,
                                                <<Word, Blank>>, <<Word, Word, Word>>}}
MountsFor == {Mount(3, <<Word>>, TRUE, mode) : mode \in Modes}
BadParts == {Mount(1, <<Word>>, FALSE, Unset), Mount(2, <<Word>>, FALSE, Unset),
             Mount(4, <<Word>>, TRUE, "read-write")}

Plain ==
    [image |-> "image",
     numbers |-> [n \in Numbers |-> Unset], provisioned |-> Unset,
     environment |-> <<>>, memory |-> [digits |-> 2, unit |-> "mb"],
     secrets |-> <<>>, logGroup |-> Unset, logFolder |-> Unset,
     logLevel |-> Unset, mounts |-> <<>>]

Sizes == {Unset, Junk} \cup [digits : 0 .. 130, unit : {"mb", "gb"}]

Memories == {[Plain EXCEPT !.memory = m] : m \in Sizes}
Images == {[Plain EXCEPT !.image = Unset]}
NumberInputs ==
    {[Plain EXCEPT !.numbers[n] = v, !.provisioned = w] :
        n \in Numbers, v \in {Unset, Junk, 0, 7}, w \in {Unset, Junk, 0, 2}}
Environments ==
    {[Plain EXCEPT !.environment = e, !.secrets = s] :
        e \in UNION {[1 .. n -> {<<Word>>} \cup {Word, Blank} \X {Word, Blank}] : n \in 0 .. 3},
        s \in UNION {[1 .. n -> {<<>>, Good, NoKey}] : n \in 0 .. 2}}
Logs ==
    {[Plain EXCEPT !.logGroup = g, !.logFolder = f, !.logLevel = l] :
        g \in {Unset, "group"}, f \in {Unset, "folder"}, l \in {Unset, Junk, "WARN"}}
Mounts ==
    {[Plain EXCEPT !.mounts = m] :
        m \in UNION {[1 .. n -> {<<>>} \cup MountsAt \cup MountsFor \cup BadParts] :
                     n \in 0 .. 2}}

MCEnvirons == Memories \cup Images \cup NumberInputs \cup Environments \cup Logs \cup Mounts

MCCapital == [x \in {"a", "b"} |-> IF x = "a" THEN "A" ELSE "B"]

Names == {<<"a">>, <<"a", "-", "a">>, <<"B", "a">>}
OutputNames == {<<"b">>, <<"A">>, <<"A", "_", "B">>, <<"a", "B">>}

Workflow(n1, n2, o1, o2, o3) ==
    <<[name |-> n1, outputs |-> <<o1, o2>>], [name |-> n2, outputs |-> <<o3>>]>>

PlainWorkflow ==
    Workflow(<<"a">>, <<"B", "a">>, <<"A">>, <<"A", "_", "B">>, <<"b">>)

\* No two cubes, and no two outputs of a cube, have the same name.
MCWorkflows ==
    {w \in {Workflow(n1, n2, o1, o2, o3) :
               n1, n2 \in Names, o1, o2, o3 \in OutputNames} :
        w[1].name # w[2].name /\ w[1].outputs[1] # w[1].outputs[2]}

MCScenarios ==
    {[environ |-> in, workflow |-> PlainWorkflow, failing |-> FALSE] : in \in MCEnvirons}
    \cup {[environ |-> Plain, workflow |-> w, failing |-> TRUE] : w \in MCWorkflows}
=============================================================================

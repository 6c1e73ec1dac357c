-------------------------- MODULE RevisionOptions --------------------------
(***************************************************************************)
(* How the container action turns its inputs into the request for a        *)
(* revision: ParseRevOptions with the parsers it calls (pkg/sourcecraft,   *)
(* pkg/memory, pkg/env, pkg/loglevel, storagemounts.go), which may end the *)
(* process at any of them, and createRevision, which leaves out what was   *)
(* not given.  Sizes are integers of a given width, as int64 is of 64.     *)
(* What surrounds the parsers is in ContainerDeploy and ContainerCube.     *)
(***************************************************************************)
EXTENDS Integers, Sequences, EnvParser

CONSTANTS
    Width,    \* bits of an integer
    MB, GB,   \* the multipliers, powers of two
    Environs, \* what a run may be given, see EnvironsAssumption
    Unset,    \* an input that is not given
    Junk      \* one that does not parse

Limit == 2 ^ (Width - 1)
Integer == -Limit .. Limit - 1

Numbers == {"cores", "coreFraction", "concurrency", "executionTimeout"}
Levels == {"TRACE", "DEBUG", "INFO", "WARN", "ERROR", "FATAL"}
Modes == {"read-only", "read-write", Junk, Unset}

\* A path as Split sees it: the pieces between "/", one at least.  The empty
\* path is <<Blank>>.
S3Paths == Seq({Word, Blank}) \ {<<>>}

\* A line of REVISION_STORAGE_MOUNTS: how many parts there are between its
\* ":", the path in the store, is the mount point there, the access mode.
MountLines ==
    {<<>>} \cup [parts : 1 .. 4, s3Path : S3Paths, path : BOOLEAN, mode : Modes]

StorageMounts ==
    [bucketID : {Word, Blank}, prefix : Seq({Word, Blank}), readOnly : BOOLEAN]

ASSUME EnvironsAssumption ==
    \A in \in Environs :
       /\ in.image \in {Unset, "image"}
       /\ in.numbers \in [Numbers -> Integer \cup {Unset, Junk}]
       /\ in.provisioned \in Integer \cup {Unset, Junk}
       /\ in.environment \in Seq({<<Word>>} \cup {Word, Blank} \X {Word, Blank})
       /\ in.memory \in {Unset, Junk} \cup [digits : Nat, unit : {"mb", "gb"}]
       /\ in.secrets \in Seq(SecretLines)
       /\ in.logGroup \in {Unset, "group"} /\ in.logFolder \in {Unset, "folder"}
       /\ in.logLevel \in Levels \cup {Unset, Junk}
       /\ in.mounts \in Seq(MountLines)
\* The width holds the defaults, as that of the code does.
ASSUME WidthAssumption ==
    /\ Width \in Nat \ {0} /\ Limit \in Nat /\ 100 < Limit
    /\ {MB, GB} \subseteq 1 .. Limit - 1

VARIABLES
    environ,  \* the environment of the process: the inputs
    parser,   \* the parser it is at
    options,  \* CreateRevisionOptions as far as they are filled in
    revision  \* the request for a revision

parsing == <<environ, parser, options, revision>>

Parsers == {"image", "numbers", "memory", "secrets", "logOptions", "mounts"}

NoOptions ==
    [cores |-> 0, coreFraction |-> 0, concurrency |-> 0, executionTimeout |-> 0,
     provisioned |-> Unset, memory |-> 0, environment |-> EnvironmentOf(<<>>),
     secrets |-> <<>>, destination |-> Unset, level |-> Unset, mounts |-> <<>>]

OptionsTypeOK ==
    /\ parser \in Parsers \cup {"deploy", "sent", "failed"}
    /\ \A o \in {options} \cup ({revision} \ {Unset}) :
          /\ DOMAIN o = DOMAIN NoOptions
          /\ \A n \in Numbers \cup {"memory"} : o[n] \in Integer
          /\ o.provisioned \in Integer \cup {Unset}
          /\ o.secrets \in Seq(SecretLines)
          /\ o.level \in Levels \cup {Unset}
          /\ o.destination \in {"group", "folder", Unset}
          /\ o.mounts \in Seq(StorageMounts)

\* ContainerCube says which inputs are there.
OptionsInit ==
    /\ parser = "image"
    /\ options = NoOptions
    /\ revision = Unset
-----------------------------------------------------------------------------
(***************************************************************************)
(* Faulty variants of the definitions below, for the mutation checks.      *)
(***************************************************************************)
\* Junk is taken for an input that is not given.
NeverJunk(in) == FALSE
\* The product is not cut to the width.
Unbounded(n) == n
\* Only one piece after the bucket is kept of a path.
OnePiece(line) == IF Len(line.s3Path) = 1 THEN <<>> ELSE <<line.s3Path[2]>>
\* The path in the store is not looked at.
PathUnchecked(line) ==
    line.parts \notin {2, 3} \/ ~line.path \/ (line.parts = 3 /\ line.mode = Junk)
\* A mount is writable unless it says otherwise.
WritableByDefault(line) == line.parts = 3 /\ line.mode = "read-only"
-----------------------------------------------------------------------------
Default == [cores |-> 1, coreFraction |-> 100, concurrency |-> 1, executionTimeout |-> 3]

Reach(label) == parser' = label

\* An error of ParseRevOptions, or SetFailed in one of the parsers.
Fail == Reach("failed") /\ UNCHANGED <<environ, options, revision>>

\* The parser at hand has read its inputs.
Parse(next, filled) ==
    /\ options' = filled
    /\ Reach(next)
    /\ UNCHANGED <<environ, revision>>

ParseImage ==
    /\ parser = "image"
    /\ IF environ.image = Unset THEN Fail ELSE Parse("numbers", options)

\* GetInt64Input and GetInt64InputOpt call SetFailed.
JunkNumber(in) == Junk \in {in.numbers[n] : n \in Numbers} \cup {in.provisioned}

NumberOf(n) == IF environ.numbers[n] = Unset THEN Default[n] ELSE environ.numbers[n]

ParseNumbers ==
    /\ parser = "numbers"
    /\ IF JunkNumber(environ)
       THEN Fail
       ELSE Parse("memory",
               [options EXCEPT !.cores            = NumberOf("cores"),
                               !.coreFraction     = NumberOf("coreFraction"),
                               !.concurrency      = NumberOf("concurrency"),
                               !.executionTimeout = NumberOf("executionTimeout"),
                               !.provisioned      = environ.provisioned,
                               !.environment      = EnvironmentOf(environ.environment)])

\* What an integer of this width holds of n.
Wrap(n) == ((n + Limit) % (2 * Limit)) - Limit

Size(m) == m.digits * (IF m.unit = "mb" THEN MB ELSE GB)

\* ParseMemory: the digits are checked against the width, the product not.
ParseMemory ==
    /\ parser = "memory"
    /\ IF environ.memory \in {Unset, Junk} \/ environ.memory.digits \notin Integer
       THEN Fail
       ELSE Parse("secrets", [options EXCEPT !.memory = Wrap(Size(environ.memory))])

ParseLockboxSecrets ==
    /\ parser = "secrets"
    /\ IF SomeBroken(environ.secrets)
       THEN Fail
       ELSE Parse("logOptions", [options EXCEPT !.secrets = Parsed(environ.secrets)])

ParseLogOptions ==
    /\ parser = "logOptions"
    /\ IF (environ.logGroup # Unset /\ environ.logFolder # Unset) \/ environ.logLevel = Junk
       THEN Fail
       ELSE Parse("mounts", [options EXCEPT !.level = environ.logLevel])

\* ParseStorageMount: the path in the store must not be empty; whether its
\* first piece, the bucket, is there is not looked at.
BadMount(line) ==
    \/ line.parts \notin {2, 3}
    \/ line.s3Path = <<Blank>>
    \/ ~line.path
    \/ line.parts = 3 /\ line.mode = Junk

ReadOnly(line) == ~(line.parts = 3 /\ line.mode = "read-write")

Prefix(line) == Tail(line.s3Path)

MountOf(line) ==
    [bucketID |-> line.s3Path[1], prefix |-> Prefix(line), readOnly |-> ReadOnly(line)]

ParseStorageMounts ==
    /\ parser = "mounts"
    /\ LET lines == Given(environ.mounts) IN
       IF \E i \in DOMAIN lines : BadMount(lines[i])
       THEN Fail
       ELSE Parse("deploy", [options EXCEPT !.mounts =
                                [i \in DOMAIN lines |-> MountOf(lines[i])]])

\* createRevision: the log group goes before the folder.
Destination == IF environ.logGroup # Unset THEN environ.logGroup ELSE environ.logFolder

CreateRevision ==
    /\ parser = "deploy"
    /\ revision' = [options EXCEPT !.destination = Destination]
    /\ Reach("sent")
    /\ UNCHANGED <<environ, options>>

ParseRevOptions ==
    \/ ParseImage \/ ParseNumbers \/ ParseMemory \/ ParseLockboxSecrets
    \/ ParseLogOptions \/ ParseStorageMounts
-----------------------------------------------------------------------------
\* All inputs are given, and in the formats that the comments of their parsers
\* and the errors of these name.  "/prefix" is an S3 path without a bucket.
Understood ==
    /\ environ.image # Unset
    /\ \A n \in Numbers : environ.numbers[n] # Junk
    /\ environ.provisioned # Junk
    /\ environ.memory \notin {Unset, Junk}
    /\ environ.logLevel # Junk
    /\ \A i \in DOMAIN environ.secrets :
          environ.secrets[i] # <<>> => ~Broken(environ.secrets[i])
    /\ \A i \in DOMAIN environ.mounts :
          environ.mounts[i] # <<>> =>
             /\ environ.mounts[i].parts \in {2, 3}
             /\ environ.mounts[i].s3Path # <<Blank>> /\ environ.mounts[i].path
             /\ environ.mounts[i].mode # Junk \/ environ.mounts[i].parts = 2
    /\ Unset \in {environ.logGroup, environ.logFolder}

\* The size in the request is the one asked for as far as the width goes:
\* equal if it fits, and otherwise off by a multiple of 2^Width.
SizeUpToWidth ==
    LET size == Size(environ.memory)
    IN /\ size < Limit => revision.memory = size
       /\ (size - revision.memory) % (2 * Limit) = 0

(***************************************************************************)
(* The request has what was given, no line of it lost, and the defaults    *)
(* for the rest; its size is right up to the width of an integer; a mount  *)
(* has the whole path of its line, a missing bucket too, and is writable   *)
(* only if the line says so; instances are provisioned only if their       *)
(* number was given, 0 too.                                                *)
(***************************************************************************)
RequestAsAsked ==
    revision # Unset =>
       /\ \A n \in Numbers :
             revision[n] = IF environ.numbers[n] = Unset THEN Default[n] ELSE environ.numbers[n]
       /\ SizeUpToWidth
       /\ revision.provisioned = environ.provisioned
       /\ revision.secrets = Given(environ.secrets)
       /\ {revision.destination} \cup {Unset} = {environ.logGroup, environ.logFolder} \cup {Unset}
       /\ Len(revision.mounts) = Len(Given(environ.mounts))
       /\ \A i \in DOMAIN revision.mounts :
             LET mount == revision.mounts[i]
                 line == Given(environ.mounts)[i]
             IN /\ <<mount.bucketID>> \o mount.prefix = line.s3Path
                /\ ~mount.readOnly => line.parts = 3 /\ line.mode = "read-write"
       /\ \A i \in DOMAIN environ.environment :
             Len(environ.environment[i]) = 2 =>
                LET name == environ.environment[i][1] IN
                \E j \in i .. Len(environ.environment) :
                   /\ Len(environ.environment[j]) = 2
                   /\ environ.environment[j] = <<name, revision.environment[name]>>
=============================================================================

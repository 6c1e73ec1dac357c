------------------------------ MODULE PutFiles ------------------------------
(***************************************************************************)
(* A whole run of obj-storage-upload over its data: CACHE_CONTROL is       *)
(* parsed, Upload selects files (Selection), uploadFile looks up the       *)
(* Cache-Control value of each under its key (CacheControl) and puts it    *)
(* into the bucket, an operation of the S3 client with its attempts and    *)
(* its token (IamToken).  Other runs with the same inputs may follow.  The *)
(* function action has zipped the same files before.                       *)
(*                                                                         *)
(* What overlapping runs, kills and CLEAR do to a bucket is in             *)
(* ObjStorageUpload, which knows files and keys by number only.            *)
(***************************************************************************)
EXTENDS Selection, CacheControl, IamToken

CONSTANTS
    KeyOf,      \* the key of a file: its path below the root after PREFIX
    Scenarios,  \* what the inputs are and whether time matters
    Rounds      \* how many runs follow each other

ASSUME KeyOfAssumption == KeyOf \in [Files -> Keys]
ASSUME ScenariosAssumption ==
    Scenarios \subseteq [tree : Trees, include : Includes, exclude : Excludes,
                         formats : Formats, disturbed : BOOLEAN]
ASSUME RoundsAssumption == Rounds \in Nat \ {0}

VARIABLES
    disturbed,  \* whether time passes and requests fail
    puts,       \* how many of the files it has taken this run is done with
    object,     \* the bucket: the Cache-Control metadata of its objects
    round       \* the number of this run

own == <<disturbed, puts, object, round>>
putVars == <<selection, lookup, vars, own>>

taken == chosen["upload"]
Ran == status["upload"] # "running"

PutTypeOK ==
    /\ TypeOK
    /\ SelectionTypeOK
    /\ CacheTypeOK
    /\ puts \in 0 .. Len(taken)
    /\ DOMAIN object \subseteq {KeyOf[f] : f \in Files}
    /\ \A k \in DOMAIN object : object[k] \in Values
    /\ round \in 1 .. Rounds

PutInit ==
    /\ \E s \in Scenarios :
          /\ tree = s.tree /\ include = s.include /\ exclude = s.exclude
          /\ formats = s.formats
          /\ disturbed = s.disturbed
    /\ SelectionInit /\ CacheInit /\ Init
    /\ ~disturbed => credentials = Key
    /\ puts = 0
    /\ object = EmptyMap
    /\ round = 1
-----------------------------------------------------------------------------
(***************************************************************************)
(* Faulty variants of the definitions below, for the mutation checks.      *)
(***************************************************************************)
\* The error of one file is logged, and the upload goes on with the next.
NextFileInstead ==
    /\ pc' = "next"
    /\ stage' = "upload"
    /\ puts' = puts + 1
    /\ UNCHANGED <<selection, credentials, operation, attempt, cachedToken, token,
                   clock, began, issued>>
-----------------------------------------------------------------------------
\* Both programs select; Upload has put a file before it looks for another.
SelectFiles ==
    /\ program = "upload" => stage = "upload" /\ puts = Len(taken)
    /\ Select
    /\ UNCHANGED <<lookup, vars, own>>

\* main reads the inputs.
ParseInputs ==
    /\ program = "upload"
    /\ ParseLine \/ TakeDefault
    /\ UNCHANGED <<selection, vars, own>>

\* uploadFile up to the call of PutObject.
NextFile ==
    /\ puts < Len(taken)
    /\ LookUp(KeyOf[taken[puts + 1]])
    /\ UNCHANGED <<selection, vars, own>>

FindValue ==
    /\ NoPattern \/ \E p \in CachePatterns \cup {Star} : TryPattern(p)
    /\ UNCHANGED <<selection, vars, own>>

\* PutObject: the S3 client sets up the operation and gets its token.
Request ==
    /\ stage = "put"
    /\ \/ BeginOperation \/ GetFromCache \/ CreateIAMToken
       \/ disturbed /\ CreateFails
    /\ UNCHANGED <<selection, lookup, own>>

\* The value goes into the metadata of the user.
WithObject ==
    [k \in DOMAIN object \cup {key} |-> IF k = key THEN value ELSE object[k]]

PutAnswered ==
    /\ stage = "put"
    /\ Answered
    /\ IF Valid(token)
       THEN /\ object' = WithObject
            /\ puts' = puts + 1
            /\ stage' = "upload"
       ELSE UNCHANGED <<object, puts, stage>>
    /\ UNCHANGED <<selection, config, key, left, value, disturbed, round>>

\* The put may have been carried out if its token was valid.
PutTransient ==
    /\ stage = "put" /\ disturbed
    /\ Transient
    /\ object' = object \/ (Valid(token) /\ object' = WithObject)
    /\ UNCHANGED <<selection, lookup, disturbed, puts, round>>

\* The error goes up to main, which calls SetFailed.
AfterPutError ==
    /\ End("failed")
    /\ stage' = "end"
    /\ UNCHANGED <<inputs, chosen, vars, puts>>

GiveUp ==
    /\ stage = "put"
    /\ pc \in {"failed", "expired"}
    /\ AfterPutError
    /\ UNCHANGED <<config, key, left, value, disturbed, object, round>>

\* Time that passes outside of an operation passes before the next begins.
TimePasses ==
    /\ stage = "put" /\ disturbed
    /\ Tick
    /\ UNCHANGED <<selection, lookup, own>>

\* A new process has the inputs and the bucket, and nothing else.
NextRun ==
    /\ Ran
    /\ round < Rounds
    /\ round' = round + 1
    /\ status' = [status EXCEPT !["upload"] = "running"]
    /\ chosen' = [chosen EXCEPT !["upload"] = <<>>]
    /\ position' = 0 /\ puts' = 0
    /\ stage' = "parse" /\ line' = 0 /\ mapping' = EmptyMap /\ default' = NoValue
    /\ key' = AnyKey /\ left' = {} /\ value' = NoValue
    /\ pc' = "next" /\ operation' = 0 /\ attempt' = 0 /\ issued' = 0
    /\ cachedToken' = NoToken /\ token' = NoToken
    /\ UNCHANGED <<inputs, program, queue, walk, formats, credentials, clock, began,
                   disturbed, object>>

Process ==
    \/ SelectFiles \/ ParseInputs \/ NextFile \/ FindValue
    \/ Request \/ PutAnswered \/ PutTransient \/ GiveUp \/ NextRun

PutNext == Process \/ TimePasses

\* The process is held up by nothing: each request is answered or given up.
PutSpec == PutInit /\ [][PutNext]_putVars /\ WF_putVars(Process)
-----------------------------------------------------------------------------
(***************************************************************************)
(* An object is put with a value the inputs ask for: that of a pattern     *)
(* that matches its key or base name, the last line given for the pattern, *)
(* and the default only if no pattern matches, whatever order the map      *)
(* iteration takes and whatever patterns are bad (GetCacheControlValue).   *)
(* So the next run changes a value only if two matching patterns ask for   *)
(* different ones.                                                         *)
(***************************************************************************)
ValueAsked == \A k \in DOMAIN object : object[k] \in Candidates(k)

(***************************************************************************)
(* The bucket has nothing but what the inputs ask for, and all of it once  *)
(* a run has succeeded, whatever requests were retried and tokens made.  A *)
(* pattern of EXCLUDE that does not parse is noticed at the first file     *)
(* that no pattern before it excludes: nothing is ever put then (Upload).  *)
(***************************************************************************)
PutAsAsked ==
    LET asked == {KeyOf[f] : f \in ToBePut} IN
    /\ DOMAIN object \subseteq asked
    /\ status["upload"] = "done" => DOMAIN object = asked
    /\ Lines(exclude) \cap Bad # {} => DOMAIN object = {}

(***************************************************************************)
(* With the same INCLUDE and EXCLUDE the package and the bucket get        *)
(* different files: each those its program is asked for.                   *)
(***************************************************************************)
ChosenAsAsked == ZippedAsAsked /\ PutAsAsked

(***************************************************************************)
(* The runs end, whatever fails and expires.                               *)
(***************************************************************************)
RunsEnd == <>(Ran /\ round = Rounds)
=============================================================================

--------------------------- MODULE VersionRequest ---------------------------
(***************************************************************************)
(* How a run of the function action puts together its request for a new    *)
(* version (createFunctionVersion with CreateAsyncInvocationConfig,        *)
(* ResolveID and ParseSecrets): ValidateAsync looks at the inputs at the   *)
(* start of main; much later up to five service accounts are looked up,    *)
(* each by a request of its own, while others may delete the account that  *)
(* has a name and create another one.                                      *)
(***************************************************************************)
EXTENDS Naturals, Sequences, EnvParser

CONSTANTS
    Accounts,  \* ids of service accounts
    Names,     \* names of service accounts
    Inputs,    \* what a run may be given, see InputsAssumption
    None       \* an input that is not given, an account that is not there

\* A service account is given by its id, by its name, by both or not at all.
References == [id : Accounts \cup {None}, name : Names \cup {None}]

ASSUME InputsAssumption ==
    \A in \in Inputs :
       /\ in.service \in References    \* SERVICE_ACCOUNT, ..._NAME
       /\ in.async \in BOOLEAN
       /\ in.invoker \in References    \* ASYNC_SA_ID, ..._NAME
       /\ in.queue \subseteq {"success", "failure"}  \* ASYNC_..._YMQ_ARN
       /\ in.target \in [{"success", "failure"} -> References]
       /\ in.secrets \in Seq(SecretLines)
       /\ in.fits \in BOOLEAN          \* a BUCKET, or a small enough zip
ASSUME NoneAssumption == None \notin Accounts \cup Names

VARIABLES
    inputs,    \* the inputs of the run
    pc,        \* where the run is
    resolved,  \* the ids it has looked up, one for each place of the request
    secrets,   \* what ParseSecrets returned
    request,   \* the request for a version, when it has been sent
    account,   \* the account that has a name now
    held       \* history: the accounts that had a name since the run began

run == <<inputs, pc, resolved, secrets, request>>
vars == <<inputs, pc, resolved, secrets, request, account, held>>

Places == {"service", "success", "failure", "invoker"}
Lookups == Places \cup {"fallback"}
Running == {"main", "secrets", "content"} \cup Lookups
Requests ==
    [service : Accounts \cup {None}, async : BOOLEAN,
     success : Accounts \cup {None}, failure : Accounts \cup {None},
     invoker : Accounts \cup {None}, secrets : Seq(SecretLines)]

TypeOK ==
    /\ inputs \in Inputs
    /\ pc \in Running \cup {"sent", "failed", "killed"}
    /\ resolved \in [Places -> Accounts \cup {None}]
    /\ secrets \in Seq(SecretLines)
    /\ request \in Requests \cup {None}
    /\ account \in [Names -> Accounts \cup {None}]
    /\ held \in [Names -> SUBSET Accounts]

Init ==
    /\ inputs \in Inputs
    /\ pc = "main"
    /\ resolved = [place \in Places |-> None]
    /\ secrets = <<>>
    /\ request = None
    /\ account \in [Names -> Accounts \cup {None}]
    /\ \A m, n \in Names : account[m] = account[n] => m = n \/ account[m] = None
    /\ held = [n \in Names |-> {account[n]} \ {None}]
-----------------------------------------------------------------------------
(***************************************************************************)
(* Faulty variants of the definitions below, for the mutation checks.      *)
(***************************************************************************)
\* Only the account of the success target is asked for.
SuccessOnly(in) ==
    in.async /\ "success" \in in.queue =>
       (in.target["success"].id = None) # (in.target["success"].name = None)
\* The filter by name is forgotten.
FirstOfFolder(ref) ==
    IF ref.id # None \/ ref.name = None THEN ref.id
    ELSE account[CHOOSE n \in Names : TRUE]
\* The name is taken for the id.
NameForID(ref) ==
    IF ref.id # None \/ ref.name = None THEN ref.id ELSE ref.name
\* A broken reference is passed over.
PassedOver == "content"
\* The asynchronous invocation falls back on the account of the target.
TargetsAccount(in) == in.target["failure"]
-----------------------------------------------------------------------------
Goto(label) == pc' = label

\* ValidateAsync: a queue needs an account, given in one way only.
ValidateAsync(in) ==
    in.async => \A outcome \in in.queue :
       (in.target[outcome].id = None) # (in.target[outcome].name = None)

\* ResolveID: an id is taken as it is; a name must be that of an account.
Missing(ref) == ref.id = None /\ ref.name # None /\ account[ref.name] = None
ResolvedID(ref) ==
    IF ref.id # None \/ ref.name = None THEN ref.id ELSE account[ref.name]

Resolve(place, ref, next) ==
    IF Missing(ref)
    THEN Goto("failed") /\ UNCHANGED resolved
    ELSE /\ resolved' = [resolved EXCEPT ![place] = ResolvedID(ref)]
         /\ Goto(next)

\* main, before the sources are zipped and the function is looked for.
Validate ==
    /\ pc = "main"
    /\ Goto(IF ValidateAsync(inputs) THEN "service" ELSE "failed")
    /\ UNCHANGED <<inputs, resolved, secrets, request, account, held>>

ResolveService ==
    /\ pc = "service"
    /\ Resolve("service", inputs.service, IF inputs.async THEN "success" ELSE "secrets")
    /\ UNCHANGED <<inputs, secrets, request, account, held>>

\* CreateAsyncInvocationConfig: the targets, the success target first.
ResolveTarget(outcome, next) ==
    /\ pc = outcome
    /\ IF outcome \in inputs.queue
       THEN Resolve(outcome, inputs.target[outcome], next)
       ELSE Goto(next) /\ UNCHANGED resolved
    /\ UNCHANGED <<inputs, secrets, request, account, held>>

AfterInvoker(id) == IF id = None THEN "fallback" ELSE "secrets"

ResolveInvoker ==
    /\ pc = "invoker"
    /\ Resolve("invoker", inputs.invoker, AfterInvoker(ResolvedID(inputs.invoker)))
    /\ UNCHANGED <<inputs, secrets, request, account, held>>

\* The reference the invocation without an account of its own falls back on.
FallbackReference(in) == in.service

\* The function's account is looked up once more.
ResolveFallback ==
    /\ pc = "fallback"
    /\ Resolve("invoker", FallbackReference(inputs), "secrets")
    /\ UNCHANGED <<inputs, secrets, request, account, held>>

\* SetFailed ends the process; the "continue" after it is not reached.
AfterBroken == "failed"

\* ParseSecrets: empty lines are skipped, a broken one ends the process.
ParseSecrets ==
    /\ pc = "secrets"
    /\ secrets' = Parsed(inputs.secrets)
    /\ Goto(IF SomeBroken(inputs.secrets) THEN AfterBroken ELSE "content")
    /\ UNCHANGED <<inputs, resolved, request, account, held>>

\* The package or the content is set and the request is sent.
CreateVersion ==
    /\ pc = "content"
    /\ IF inputs.fits
       THEN /\ request' = [service |-> resolved["service"],
                           async   |-> inputs.async,
                           success |-> resolved["success"],
                           failure |-> resolved["failure"],
                           invoker |-> resolved["invoker"],
                           secrets |-> secrets]
            /\ Goto("sent")
       ELSE Goto("failed") /\ UNCHANGED request
    /\ UNCHANGED <<inputs, resolved, secrets, account, held>>

\* A lookup fails, or the process ends.
Breaks ==
    /\ \/ pc \in Lookups \cup {"content"} /\ Goto("failed")
       \/ pc \in Running /\ Goto("killed")
    /\ UNCHANGED <<inputs, resolved, secrets, request, account, held>>

Run ==
    \/ Validate \/ ResolveService
    \/ ResolveTarget("success", "failure") \/ ResolveTarget("failure", "invoker")
    \/ ResolveInvoker \/ ResolveFallback \/ ParseSecrets \/ CreateVersion
-----------------------------------------------------------------------------
(***************************************************************************)
(* Others delete accounts and create new ones; an id is used once.         *)
(***************************************************************************)
DeleteAccount(n) ==
    /\ account[n] # None
    /\ account' = [account EXCEPT ![n] = None]
    /\ UNCHANGED <<run, held>>

CreateAccount(n, id) ==
    /\ account[n] = None
    /\ \A m \in Names : id \notin held[m]
    /\ account' = [account EXCEPT ![n] = id]
    /\ held' = [held EXCEPT ![n] = @ \cup {id}]
    /\ UNCHANGED run

Others ==
    \E n \in Names : DeleteAccount(n) \/ \E id \in Accounts : CreateAccount(n, id)

Next == Run \/ Breaks \/ Others

Spec == Init /\ [][Next]_vars
-----------------------------------------------------------------------------
(***************************************************************************)
(* A request that was sent writes to no queue without an account: what     *)
(* ValidateAsync accepted at the start of main and what                    *)
(* CreateAsyncInvocationConfig finds in the end fit together.              *)
(***************************************************************************)
TargetsHaveAccounts ==
    request # None /\ request.async =>
       \A outcome \in inputs.queue : request[outcome] # None

\* What a place of the request is made of.
Source(place) ==
    CASE place = "service" -> {inputs.service}
      [] place = "invoker" -> {inputs.invoker, inputs.service}
      [] OTHER -> {inputs.target[place]}

(***************************************************************************)
(* The request is made with no account but those that were given for the   *)
(* place (ResolveID): by id, or one that had the given name while the run  *)
(* was going on.                                                           *)
(***************************************************************************)
AccountsAsGiven ==
    request # None =>
       \A place \in Places :
          request[place] # None =>
             \E ref \in Source(place) :
                \/ request[place] = ref.id
                \/ ref.name # None /\ request[place] \in held[ref.name]

\* No name has gone from one account to another since the run began.
Steady == \A n \in Names : \A a, b \in held[n] : a = b

(***************************************************************************)
(* "use the function's service account" (asyncinvocation.go:134): an       *)
(* asynchronous invocation without an account of its own is made with the  *)
(* function's.  The code looks the name up a second time, so this holds as *)
(* long as the name stays with one account.                                *)
(***************************************************************************)
InvokedAsFunction ==
    request # None /\ request.async /\ inputs.invoker = [id |-> None, name |-> None]
    /\ Steady => request.invoker = request.service

(***************************************************************************)
(* No version is asked for without one of its secrets: the request has all *)
(* lines of SECRETS that are not empty, in their order (ParseSecrets).     *)
(***************************************************************************)
SecretsComplete ==
    request # None =>
       request.secrets = Given(inputs.secrets)
=============================================================================

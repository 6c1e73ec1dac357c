# A TLA+ model of sourcecraft-actions

The repository holds five Sourcecraft CI actions for Yandex Cloud. Each is a short
Go program: it reads its inputs from the environment, looks a resource up by name,
creates or changes it through the cloud's API, and hands outputs to the workflow.
A single run is sequential. What is hard about it lies outside one run: workflows
of several commits run at once on the same bucket, function, container, VM or
gateway; every request can fail, or take effect although its answer was lost; the
CI kills a process at any point; the cloud goes on with operations nobody waits
for; and one API call succeeds in part. Nothing in the code locks anything and
nothing is rolled back, so the state left behind is the state the next run starts
from. The models are about that.

Contents: [Inventory](#inventory) · [Plan](#plan) · [Modules](#modules) ·
[Runs](#runs) · [Assumptions](#assumptions) · [Fairness](#fairness) ·
[Proofs](#proofs) · [Findings](#findings) · [Not modelled](#not-modelled)

## Inventory

| component | source | state it keeps | operations | what is hard | what makes it correct |
|---|---|---|---|---|---|
| Clearing a bucket | `pkg/storage/storage.go` `ClearBucket`, `ListObjects`, `DeleteObjects` | page of keys, continuation token, truncation flag; the bucket, which it shares | list a page, delete it, go on while truncated | other clients write and delete between the two requests and between pages; part of a page is refused; the request fails after it took effect; the loop has no limit while others keep adding | no object that was there at the beginning is passed over; success means they are gone; only names in the bucket keep the loop going |
| obj-storage-upload | `cmd/obj-storage-upload/main.go`, `internal/objstore/upload.go` | position in the walk over the matched files | check inputs, clear, put each file that is not excluded, stop at the first error | clear and upload are not atomic; two runs on one bucket; late requests of a dead run | no mix of former and new content; a run never deletes its own files; a run that is alone repairs what broken runs left |
| function | `cmd/function/main.go`, `internal/function/asyncinvocation.go`, `internal/function/actioninputs.go` | id of the function; outputs | list by name, create, zip, put package, resolve up to five service accounts, create version, wait | check-then-create race; the package lies in a shared bucket and is read later; deletion between steps; unbounded wait; an account's name changes hands between two lookups; a rule checked at the start of `main` is relied on at its end | a version runs the code of its commit; outputs name real things; success means the version exists; the request has the accounts and all the secrets that were given |
| container | `cmd/container/main.go`, `internal/container/rev_options.go` | id of the container; outputs | list by name, create, deploy a revision, publish | the id must reach the deploy request; publishing may fail after deployment and replaces the bindings others made; six parsers that fail in three ways | the request names the container; nothing is opened to everybody before its revision is deployed; success means that the container put out was opened, if that was asked for; the request says what the inputs say, or there is none |
| coi | `cmd/coi/main.go` | id of the VM; outputs | find by name, create; or check metadata, update; look up; set outputs | does not wait: an operation under way ends the run with an error and goes on in the cloud; VM replaced, or its metadata changed, between check and update | docker-compose is not put beside a container declaration that the check could see; success means the run's operation was carried out |
| apigw | `cmd/apigw/main.go` | gateway and its id; output | list by name, create or update, wait | check-then-create race; two updates carried out in either order | `GATEWAY_ID` is the gateway that took the specification; runs that follow each other do not undo each other |
| IAM token | `pkg/storage/auth.go` | cached token, mutex | middleware per S3 operation | token never refreshed; a cache for each operation, shared by its retries | only an operation that outlives its own token is refused |
| Cache control | `internal/objstore/cache-control.go` | none | pick a value for a key from patterns | the order of a map iteration, which is random in each run | a value that the inputs ask for |
| Action runtime | `pkg/sourcecraft` | the output file of the workflow | get inputs, set outputs, fail | a failed write is only logged and may break off in the middle of a line; two outputs with one key | a cube reads what was set, but for errors that were logged |
| Parsers | `pkg/env`, `pkg/memory`, `pkg/loglevel`, `pkg/serviceaccount`, `internal/container` | none | parse memory, secrets, environment, mounts, options | overflow of a size; an error that is only logged | what is not understood is refused |

Interactions: `obj-storage-upload` calls `ClearBucket` and `PutObject` of
`pkg/storage`; `function` puts its package with the same `PutObject` (and may share
the bucket with the former); every action fails through `sourcecraft.SetFailed`,
which ends the process, and reports through `sourcecraft.SetOutput`. Otherwise the
programs meet only in the cloud.

The hazards, each at its line and with the properties that would catch it, are in
`PROJECT.json`.

## Plan

The order in which the models were written, the most important behaviour first:

1. `ObjectStore`, `ClearBucket`, `ClearPromise`: the one loop of the code whose
   correctness is not plain to see; proofs.
2. `ObjStorageUpload`: the composition clear + upload, several runs; proofs.
3. `DeployPromise` with `FunctionDeploy`, `ContainerDeploy`, `CoiDeploy`,
   `ApigwDeploy`: what each deploying action does to the cloud, and that each
   keeps one and the same promise; proofs.
4. `VersionRequest`: how the function action puts its request together; proofs.
5. `IamToken`, `CacheControl`, `Selection`, composed in `PutFiles`: the
   obj-storage-upload action over its data; proofs.
6. `RevisionOptions`, `Outputs`, composed in `ContainerCube`: the container action
   over its data, as a cube of a workflow; proofs.

All of it is done. What could follow: the text substitution of
`internal/container/template.go`.

## Modules

| module | stands for | extends / instantiates |
|---|---|---|
| `ObjectStore` | answers of the object storage service | |
| `ClearPromise` | what clearing a bucket promises (abstract) | |
| `ClearBucket` | `StorageServiceImpl.ClearBucket` among other clients | `ObjectStore`; `ClearPromise` by a refinement mapping |
| `ObjStorageUpload` | several runs of obj-storage-upload on one bucket | |
| `DeployPromise` | what a deploying action promises (abstract) | |
| `FunctionDeploy`, `ContainerDeploy`, `CoiDeploy`, `ApigwDeploy` | several runs of the action, the cloud, its other clients | |
| `Filter` | loops that keep some elements of a list | |
| `EnvParser` | the parsers of `pkg/env`, as operators | `Filter` |
| `VersionRequest` | one run of the function action up to its request for a version, and the accounts of the folder | `EnvParser` |
| `Selection` | `zipSources` and `Upload` over a file system | |
| `CacheControl` | `ParseCacheControlFormats`, `GetCacheControlValue` | |
| `IamToken` | the token middleware under the retries of the S3 client, and time | |
| `PutFiles` | a run of obj-storage-upload from its inputs to the objects, and the run after it | `Selection`, `CacheControl`, `IamToken` |
| `RevisionOptions` | `ParseRevOptions`, the parsers it calls, the request of `createRevision` | `EnvParser` |
| `Outputs` | `SetOutput` and the file the cubes of a workflow share | `Filter` |
| `ContainerCube` | a workflow whose first cube is the container action | `RevisionOptions`, `Outputs` |
| `MC...` | values of the constants; `MCObjStorageUpload` also instantiates `ClearPromise`, and the MC modules of the deploying actions `DeployPromise` | the module of the same name |
| `ClearBucketProofs`, `ObjStorageUploadProofs`, `FunctionDeployProofs`, `ContainerDeployProofs`, `CoiDeployProofs`, `ApigwDeployProofs` | theorems | the module of the same name, `TLAPS`; the promise it keeps |
| `PutFilesProofs` | theorems about a run of obj-storage-upload over its data | `PutFiles`, `TLAPS` |
| `RequestProofs` | theorems about the requests of the function and container actions and about outputs; lemmas about sequences | `VersionRequest`, `ContainerCube`, `TLAPS` |

Each module with actions has a section of faulty variants: one-line versions of a
definition of the module that differ from it the way a plausible slip would
(an error swallowed, a wait dropped, a wrong id). They belong to no specification;
`PROJECT.json` names for each property the variant that breaks it.

### ClearBucket

`bucket` is the service's state; `keys`, `continuationToken` and `isTruncated` are the
variables of the loop; `pc` is where the call is. One action per request and outcome:
`ListPage`/`ListEmpty`/`ListFails` for `ListObjects`, `DeletePage`/`DeleteFails` for
`DeleteObjects`. The loop test and the early returns are `LoopAgain` and `OnError`.
`Put` and `Remove` are the other clients. A key is a number, ordered as the service
orders names; the token is the last key of the page before, which is all a client can
rely on. The service may return short pages. A multi-object deletion answers for each
key on its own (`Removals`); the code looks at the error of the whole request only.

`old`, `refused`, `ahead` and `passes` are history: what was there when the call began and
was not written since, what the service declined to delete, the names that were there when
the call began or were written after its token since, and the pages it has listed.
`SweptInv` is the loop's invariant: while listing, what is still owed lies after the token;
while deleting it is in the page, or after the token and the listing was truncated.

The loop need not end. It goes on while listings are truncated, without a limit, and
clients who write ever later names ahead of its token keep it going; neither `Spec` nor
`ClearPromise` says otherwise. A small set of keys would hide that: a run with three names
ends after three pages whatever the others do. What does hold for any set of keys, an
infinite one too, is `PassesAreEarned`: each page is accounted for by a name that was there
or was written ahead of the token, so neither refused keys nor writes behind the token keep
the loop going, and it ends once the others stop writing ahead of it.

### ObjStorageUpload

One program counter per run: `inputs`, `clear`, `upload` and the ways to end. `Begin`
and `Reject` are `main` up to its first request; `Sweep`, `ClearReturns` and
`ClearBreaks` are the call of `ClearBucket`, taken at the level of `ClearPromise`: it
may remove anything, new objects too, and returns when it owes nothing;
`SkipFile`, `PutFile`, `UploadBreaks` and `UploadReturns` are the loops of `Upload`.
A run left in `putting` or `deleting` is one whose last request may still take effect
(`LatePut`, `LateDelete`) or be lost (`Vanish`) after the process is gone.
`visits` is the sequence of files the `INCLUDE` patterns match, with repetitions when
two patterns match one file, as in the code; content of an object is the run that put
it. That the level of `ClearPromise` is kept on both sides is checked:
`KeepsPromise` in `ClearBucket` says that the loop implements it, and
`ClearsAsPromised` that what a run of the upload does during its clear, with the puts
of other runs going on, is a behaviour of it.

### The deploying actions

All four have the same shape. A run's variables (`inputs`, `pc`, its id, `output`) follow
`main`; the cloud's are the resource that has the name now, what was deployed on it,
and the state of the operation each run asked for last. Asking for an operation
(`CreateFunction`, `DeployRevision`, ...) and the cloud's carrying it out (`CarryOut...`) are
different steps, and `Breaks` ends a run anywhere between them, with an error or by a
kill, without taking the operation back. Others may delete the resource (and in
`CoiDeploy` put their own in its place). A resource, version or revision is known by
the run that asked for it, so "whose code is it" can be asked.

- `FunctionDeploy`: `List`, `CreateFunction`, `CreateReturns` are `getOrCreateFunctionID`;
  `UploadToS3` and `NoCommitSha` are `uploadToS3`, with the object named by function id
  and commit (`ObjectName`); `CreateVersion` and `VersionReturns` are
  `createFunctionVersion`. The package is read when the operation is carried out.
  What can make the request impossible before it is sent (service account, asynchronous
  invocation, secrets, size of an inline zip) is one flag, `complete`, because all of
  them end the run in the same place: after the function was created. `VersionRequest`
  opens that flag up. `DeletePackage` is any other client of the package bucket, a run
  of obj-storage-upload with `CLEAR` among them.
- `ContainerDeploy`: `FindContainer`, `CreateContainer`, `DeployRevision`,
  `SetAccessBindings` and their answers; every error ends the run (`OnOperationError`). `RequestContainer` is `options.ContainerID`, which
  no code sets. What the API makes of a request without a container is not known from
  the repository: refuse it, or deploy to some container (`Targets`). Others allow and
  remove invokers while a run goes on, and `SetAccessBindings` replaces whatever it finds.
  `opened` is history: the container a run's publication has opened.
- `CoiDeploy`: no waiting. `CreateInstance` and `UpdateMetadata` either are done in the
  first answer or end the run (`NotDone`), and `CarryOut` goes on. An operation has an id
  of its own, different from any VM's (`InstanceIDFrom`). `Declare` and `Undeclare` are other
  clients who change the metadata of a VM that is there; `overtaken` is history: the runs
  whose VM was given a container declaration after their check, or after their file was put.
- `ApigwDeploy`: `CreateGateway` or `UpdateGateway`, wait, set the output. `earlier` is
  history: the runs that had succeeded when a run began.

`DeployPromise` is what they have in common: a run ends; it reports success only if what
it asked for has come into being; what it asked for may also come into being after it
failed or was killed.

### VersionRequest

One run, in the order of the code: `Validate` is `ValidateAsync` at the start of `main`;
`ResolveService`, `ResolveTarget`, `ResolveInvoker`, `ResolveFallback` are the calls of
`ResolveID` in `createFunctionVersion` and `CreateAsyncInvocationConfig`, a request each;
then `ParseSecrets` and `CreateVersion`. Between any two of them others delete the
account that has a name and create another one under it. `held` is history: which
accounts a name has had since the run began.

### PutFiles: Selection, CacheControl, IamToken

`Selection` has one set of actions for both programs, as their loops are the same:
`NextInclude` globs an include into `queue`, `EnterDirectory` takes the files of a match
that is a directory into `walk`, `Visit` tries the file it has come to, and `Finish` returns.
They differ in `Tried`
(whether the excludes are looked at for a file an include names), `Excluded` (base names)
and `Take` (links to directories). A file system is a record: what each include
matches, what a walk of each directory comes to, what each entry is. Patterns are model
values with the files they match; that matching is `path/filepath`'s and is external.

`CacheControl` parses a line at a time (`ParseLine`, `TakeDefault`); `TryPattern` takes any
pattern the iteration has not come to, which is what a Go map iteration promises.

`IamToken` counts operations and attempts, and has a clock. A token is known by when it
was issued. `swapAuth` puts a new middleware into the stack of each operation
(`NewMiddleware`), so the cache serves the attempts of one.

`PutFiles` puts them together in the order of the program: parse, select a file, look up
its value under its key, begin an operation, get a token, send, and only then select the
next file. A put that meets a transient error may have taken effect. A second run with
the same inputs finds the bucket as the first left it and nothing else.

### ContainerCube: RevisionOptions, Outputs

`RevisionOptions` has one action per parser in the order of `ParseRevOptions`. Lines are
reduced to what the parsers look at (how many parts, which of them empty). `SetFailed`
and a returned error both end in `failed`. Integers have `Width` bits: `ParseMemory` checks
the digits against the width and not the product, which `Wrap` cuts off.

In `Outputs` a write may fail to open the file, break off in the key or in the value, or
lack its end of line; the next line is appended to what is there (`Appended`). Names are sequences of
characters because the keys are made of them (`UpperSnakeCase`).

## Runs

| run | module, cfg | asks | bounds | distinct states |
|---|---|---|---|---|
| `clear_bucket` | `MCClearBucket` | is a page ever skipped, does the loop end, does it implement `ClearPromise` | 3 names with gaps, pages of at most 2 | 5,242 |
| `clear_refused` | `MCClearBucket`, `MCClearRefused.cfg` | does success mean cleared (it does not) | same | |
| `upload` | `MCObjStorageUpload` | what two runs on one bucket leave in it | 2 runs, 3 keys, 3 inputs | 250,931 |
| `function` | `MCFunctionDeploy` | whose code a version runs, what outputs name | 2 runs, 2 commits, 6 inputs | 193,634 |
| `container` | `MCContainerDeploy` | outputs, publishing | 2 runs, 3 inputs, an invoker of somebody else | 516,648 |
| `container_request` | `MCContainerDeploy`, `MCContainerRevision.cfg` | does the request name the container (it does not) | same | |
| `coi` | `MCCoiDeploy` | metadata conflict, success | 2 runs, 3 inputs, a foreign VM | 86,660 |
| `coi_lookup` | `MCCoiDeploy`, `MCCoiLookup.cfg` | is the created VM looked up (it is not) | same | |
| `apigw` | `MCApigwDeploy` | is a run undone by an earlier one, what the output names | 4 runs, one of them refused | 262,542 |
| `version_request` | `MCVersionRequest` | does the request say what was given while accounts change | 2 names, 3 accounts, all references that differ for the code | 229,908 |
| `put_files` | `MCPutFiles` | are the right files packed and put, with the right value, each with its own token | 3 files, 2 directories, 2 lines of `INCLUDE` and `EXCLUDE` from 6, 3 lines of `CACHE_CONTROL` from 9, 3 attempts, tokens of 2 ticks in 5 ticks, 2 runs | 198,978 |
| `container_cube` | `MCContainerCube` | does the request say what was given, does the next cube read what was set | 8-bit integers, 2,608 inputs, 2 cubes with 3 outputs under 216 choices of names | 233,747 |

Properties of the passing runs:

- `clear_bucket`: `SweptInv` (contains `OnlyRefusedSurvive`: after a success only refused
  objects are left of what was there), `PassesAreEarned` (only names that were there, or
  that others write ahead of the token, keep the loop going), `KeepsPromise` (refinement).
- `upload`: `UploadProgress` (a file the walk has put is there unless another run
  touched it since; nothing of a run is there that its walk has not reached),
  `NoMixWithFormer` (no put of a `CLEAR` run before all former content is gone or was
  refused), `ExactWhenAlone` (a successful run no other overlaps leaves exactly its
  files, whatever broken runs left before), `ClearsAsPromised`.
- `function`: `CodeOfSameCommit` (concurrent deployments of two commits never exchange
  their code), `OutputsTruthful` (the outputs name a function that existed and a version
  of it, however the run ended), `DeploysAsPromised` (refinement of `DeployPromise`,
  safety and liveness).
- `container`: `OutputsTruthful`, `OpenOnlyIfAsked` (nobody is let in before a run that was
  asked to publish has deployed its revision), `DoneMeansOpened` (a run that was asked to
  publish succeeds only if its own operation opened the container in its outputs, which are
  set before), `DeploysAsPromised`.
- `coi`: `NoMetadataConflict` (a docker-compose file stands beside a container declaration
  only where another client put the declaration after the check, into the VM that was
  checked: no other VM, and no declaration that was there before, escapes the check),
  `SuccessMeansUpdated`, `DeploysAsPromised`.
- `apigw`: `OutputIsServedGateway` (the output names the gateway that took the run's
  specification, whatever had the name before or after), `NoRollback` (a gateway that took
  a run's specification never serves again that of a run that had succeeded before it
  began), `DeploysAsPromised`.
- `version_request`: `TargetsHaveAccounts` (no queue without an account: the rule is
  checked by `ValidateAsync` and relied on many requests later), `AccountsAsGiven` (ids as
  given, or held by the given name during the run), `InvokedAsFunction` (an invocation
  without an account of its own gets the function's, though the code looks the name up
  twice: as long as the name stays with one account), `SecretsComplete`.
- `put_files`: `ChosenAsAsked` (the package and the bucket have exactly the files their
  programs are asked for, by a definition over sets that knows no loop; nothing is put if
  an exclude does not parse), `ValueAsked` (the last line given for a pattern that
  matches, the default only if none does, in any order of the map), `OneTokenEach` (a run
  with a key is refused only when a single operation outlived its token, and retries
  create no further tokens), `RunsEnd`.
- `container_cube`: `RefusedUnlessUnderstood` (no request and no output unless each input,
  and each line of it, has its format), `RequestAsAsked` (nothing given is lost, mounts have
  the path of their line and are writable only on demand, the size is right up to a multiple of 2^Width), `ReadAsSet` (a cube reads what was
  set; an error that was only logged costs its own output and at most the next line, and
  only a line that goes on with a torn key can show up under a third name).

Why the bounds are enough. *Clear*: three names in pages of two give listings of one,
two and three pages, short pages, and a name between the token and the next page,
which others can write before, on and after the page. *Upload*: two runs are what a
pair of concurrent workflows is; the inputs give overlapping and private files, a file
visited twice, an excluded file, runs with and without `CLEAR`, refused ones; each run
may start before, during and after the other, so a repair after a failure is among the
behaviours. *Deploying*: every property relates at most two runs (a run and the one
that took the name, the package or the VM from under it); `ApigwDeploy` is small enough
for a third that races and a fourth that is refused. *Requests*: two names and three accounts let each name change hands and two
lookups of one name differ; the references are all that `ResolveID` tells apart. *PutFiles*:
a file below the root, one in a directory and one that is a file, a link to a directory or
to nothing; pairs of lines give overlaps and every order of a matching, a bad and an
empty one; three lines of `CACHE_CONTROL` give two that dispute and one that overrides. One
input varies at a time, beside plain values of the others, because the parts they feed
share no state but the sequence of files. Tokens of two ticks expire within an operation,
between two, and when three operations together outlive one. *ContainerCube*: sizes up to
130 units of 8 at 8 bits are up to eight times the limit, and digits beyond the limit
occur; one input varies at a time, as each parser has its own; two cubes suffice because
a key is made of one cube's name and one output's. Except for the clock and the number of operations
in `IamToken`, and `passes` in `ClearBucket`, which its invariant bounds, no action counts
anything, so no bound cuts a behaviour off (if the operations did not suffice, `RunsEnd`
would fail): the state spaces are complete for their constants. What three names cannot
show, a clear that goes on and on, is no property (see [ClearBucket](#clearbucket)). Liveness is checked for one of the runs where the runs
are alike, and no symmetry is used, since TLC's liveness check does not allow it.

`CHECK_DEADLOCK FALSE` is set in all of them because runs end: when every process has
ended, no operation is under way and there is nothing left that others could delete,
the system has stopped.

## Assumptions

- A request that succeeds takes effect between its sending and its answer and is one
  step, as is a request refused. A request whose answer is lost may have taken effect, take
  effect later, or never. What the SDK retries is one request. In the
  deploying modules a request whose answer is lost is a run that breaks while it waits;
  none of their properties asks when a run ended.
- Names are unique in a folder: of several creations of one name the cloud carries out
  one at most (`CarryOutCreate`).
- A listing returns names in order, a nonempty page if anything is left, and a token
  with a truncated page only.
- Content that others put into the bucket between two runs is not modelled in
  `ObjStorageUpload`; content from before all runs is (`Earlier`), and what other clients
  do during a clear is in `ClearBucket`.
- `SetOutput` only logs an output it cannot write; the modules of the deploying actions
  take outputs as written, `Outputs` does not.
- The S3 client makes a bounded number of attempts (`MaxAttempts`), does not retry a
  refusal, and an expired token is a refusal.
- An id of a service account is used once.
- Values that stand for different things differ: `None` is no run, id or state of an
  operation (`NamesAssumption` of each module), the `Stranger` of `ContainerDeploy` is not
  `allUsers`, and the id of an operation in `CoiDeploy` is not that of a VM. In `Outputs` no two
  letters have one capital, and in `RevisionOptions` an integer holds more than 100, the
  largest default.

## Fairness

- `ClearBucket` and `ObjStorageUpload`: none. They have safety properties only: the loop
  of a clear need not end while others write ahead of it, so neither need a run that clears,
  and that it does would have to be assumed, not checked.
- `FunctionDeploy`, `ContainerDeploy`, `ApigwDeploy`: `WF(Run(r))` for a process that has
  passed its checks, and `WF(CarryOut(r))`: the cloud brings an operation to an end, one
  way or the other. The second is an assumption about the cloud that the code
  needs and the models do not check: `op.Wait` is called with a background context and
  polls until the operation is done.
- `CoiDeploy`: `WF(Run(r))` only. The action never waits for an operation, so it ends
  whether or not the cloud does anything.
- `PutFiles`: `WF(Process)`: one process that waits for requests only, which the client
  ends. The clock is not fair, and stops.

Starting a run, breaking one and other clients' steps are never fair.

## Proofs

`ClearBucketProofs` (every set of keys of positive numbers and page limit; assumptions
`KeysAssumption`, `MaxKeysAssumption`):

- `TypeCorrect`, with `PageTypes` for what a listing returns.
- `LoopInvariant`: `Spec => []SweptInv`. `OnlyRefusedSurvive` is not inductive:
  it says nothing before the end. `SweptInv` adds where the owed objects are in the two
  phases of the loop. The step that matters is `ListPage`; its lemma `PageCovers` says that
  an owed object after the old token is in the page, or after the new token and the
  listing is truncated. `OthersShrink` deals with the other clients.
- `PromiseIsKept`: `Spec => KeepsPromise`. `Init` maps to the promise's `Init`, and every step
  to a step of the promise or a stutter. The step that needs `SweptInv` is `DeletePage` on
  the last page.
- `LoopIsEarned`: `Spec => []PassesAreEarned`. `EarnedInv` adds that the pages are no more than
  the names at or before the token (`Passed`), and that each name in the bucket after the token
  is in `ahead`; so the next page moves the token over one name more (`OneMoreName`).

`ObjStorageUploadProofs` (any number of runs, keys, inputs with finite visits;
assumptions `InputsAssumption`, `ContentAssumption`):

- `TypeCorrect`: types, and `WalkPhase`: where the walk stands in each phase. The second is
  needed for the first: `Visit(r)` is a key only while the walk is within the visits.
- `RunsInvariant`: `Spec => []RunsInv`. `UploadProgress` needs `WalkPhase`; `NoMixWithFormer`
  needs `FormerOwed` (during a clear, former content is owed or was refused), which
  becomes it when `ClearReturns` finds nothing owed; `ExactWhenAlone` needs `AloneSoFar` (what a
  run knows of the bucket while no other has been active since it began).
- `AloneIsExact`: `Spec => []ExactWhenAlone`, from `RunsInv` at the end of a run.

`PutFilesProofs` (any files, patterns and trees, any lines of `CACHE_CONTROL`, any number of
runs, operations and attempts, any lifetime). First `IamToken` by itself: `TokenInvariant` is
types, `IssuedPerOperation` (no more tokens are issued than operations have begun, and one fewer
while the current one has none yet) and `YoungerThanOperation` (a cached token of a key was issued
after its operation began); from it `ExpiryWithinOperation`, `TokensPerOperation` and
`TokenOfOperation`. A retry keeps the cache of its operation and so has no second token
issued; `IssuedPerOperation` is where the proof uses that. Then the whole run,
`RunInvariant`: `PutSpec => []RunInv`, whose parts need each other:

- `TokenInv`, which every step of `PutFiles` keeps: a step of `IamToken`, none, or a new
  process (`TokenOfPut`).
- `SelectionInv`: `NothingElse` (what was taken and what lies ahead is asked for) and
  `NoMatchLost` (each match of an include that was taken up is still in `queue`, or what it
  stands for was taken, and the same for a directory and `walk`). With nothing ahead the two
  say that exactly what was asked for was taken (`AllWhenDone`). Neither half is inductive
  without `queue` and `walk`.
- `CacheInv`: `MapSoFar` (an entry is that of the latest line so far that names its pattern),
  which becomes `MapSettled` when the default is taken out; `NotPassed` (the iteration has
  not come past a pattern that matches), which is why its order does not matter.
- `PutsInv` and `BucketInv`: which of the files taken have been put, under which keys and
  with which values.

From them `PutTypes`, `FilesChosenAsAsked` and `EveryValueAsked`.

The deploying actions, each for any number of runs. Their promises speak of what the cloud
does later for runs that are gone, so each `IInv` ties an operation to its run:

- `FunctionDeployProofs`: `IdKnown` (an id a run has was a function's), `OperationAsked` (what
  state an operation can be in where a run is), `PackagesInPlace` (an object holds the
  package of a run of the commit and function it is named by), `CommitKnown`,
  `VersionsMade`, `FunctionExisted`. `CodeOfSameCommit` rests on `PackagesInPlace`: the
  overwriting run is one of the same commit, or it has another object.
- `ContainerDeployProofs`: `ContainerKnown`, `OperationAsked`, `RevisionMade`, `OutputOwn`; from them
  `OutputsAreTrue` and `OpenIsAsked`; `Opening` (the operation a run waits for opens the
  container it has put out) gives `DoneIsOpened`.
- `CoiDeployProofs`: `Known`, `Checked` (the VM a run updates, now or by an operation nobody
  waits for, has no declaration unless the run was overtaken), `OperationAsked`, `LooksUp`; from
  them `ConflictCameLater`, `SuccessIsUpdate`, `RejectedLeavesNothing`.
- `ApigwDeployProofs`: `AskedOnce`, `AppliedAsAsked`, `PutOutAtEnd`; from them `OutputIsServed`.
  `NeverRolledBack` needs `EarlierAreDone`: a run before has succeeded, so its operation has been
  carried out and is not carried out again.
- `KeepsPromise` in each of them: for every run the initial states map to the initial states
  of `DeployPromise` and every step to a step of it or a stutter (its safety part; the
  model checker adds the liveness, for one run).

`RequestProofs`, about lists of any length, rests on lemmas about sequences. The library states
induction for a predicate, which cannot be instantiated here; `NatSetInduction` states it for
a set and follows from the least element of a set of numbers. `FlattenSteps` takes the
recursive function `FlattenSeq` apart into its partial results, and `WithoutRange`,
`WithoutNone`, `WithoutConcat` say what is left of a list that is filtered (`Filter`).

- `VersionRequest`, for all inputs, names and accounts: `Remembered` (`held` knows who has a
  name), `LookedUp` (an id that was looked up was given or held), `TargetsDone` (past a target,
  its account is there: this is where `ValidateAsync` comes in), `FellBack`, `RequestMade`; from
  them `QueuesHaveAccounts`, `OnlyGivenAccounts`, `InvokedAsItself`. `SecretsRead` (past the
  parser, the secrets are all the lines that are not empty, as none of them was broken) gives
  `NoSecretLost`.
- `RevisionOptions`, for inputs of any length and integers of any width that holds the defaults:
  `ParsedSoFar` has a part for each parser, which says what it has found and filled in once
  the run is past it. The parsers after it keep that, which is what a parser that resets or mixes
  up options would break. From it `EveryRequestAsAsked`, by `LastLineWins` (the latest line of a
  variable of the environment counts), `WrapProperties` (what the width leaves of a
  product) and `WholePath` (a mount has every piece of its path), and `NothingFromBadInputs`, together with `OutputsOfRevision`.
- `Outputs`, for workflows of any length and names of any letters: `WhatIsReadWasSet`. `ReadInv`
  says that the calls are of different outputs (`CallsInOrder`), that a value stands under its
  own key unless its line went on with a torn one (`ValuesPlaced`), and that the line of an
  output that was set well is the last with a value under its key as long as no call had to
  go on with a line (`LinesStand`). That a later output has another key is `SameKey`: two keys
  that are equal have the same letters in the same order, because `UpperSnakeCase` only adds
  or replaces separators and raises letters (`KeyOfName`).

`ObjStorageUploadProofs` also has `WalkAgrees` and `NothingFormerBeside`, the parts of `RunsInv`
that the run checks, and `ClearKeepsPromise`: for every run the behaviours of the system are
behaviours of `ClearPromise`. What a run owes grows at the beginning of its own clear
only (`OwedShrinks`). With `PromiseIsKept` this joins the two levels from both sides: what the
upload relies on is what the loop keeps.

Only model-checked: all liveness (`RunsEnd` of `PutFiles`, and the leads-to of `DeployPromise`), which the
proof system does not cover, so of `DeploysAsPromised` the safety is proved and the rest
checked. Every invariant that
a passing run checks is a theorem. Proved but not checked on their own:
`RejectedLeavesNothing`, and `RunsInvariant`, `RunInvariant` and `ParsingInvariant`, from which
the invariants that are checked follow.

What the proofs found out about the models, for constants beyond those of the runs:

- A new run of `PutFiles` used to keep what the former one had left of its map iteration, which need
  not be in a map that is empty again. `NextRun` now resets it, as a new process does.
- Three definitions used `CASE` with guards that can hold together. TLC takes the first that
  holds; the logic leaves the value open. They are `IF` now (`Entered`, `Candidates`;
  `ClearStatus` of `ObjStorageUpload`).
- The default of `executionTimeout` and its like must fit the width (`WidthAssumption`), two letters
  must not share a capital (`CapitalAssumption`), and the marks for a missing and a garbled value
  must not be outputs (`ValuesAssumption`). The instances kept to that; now it is stated.

## Findings

- `clear_refused`: `DeleteObjects` drops the per-key errors of its answer, so `ClearBucket`
  returns success with objects left, against "Loop until all objects are deleted"
  (`storage.go:203`).
- `container_request`: the deploy request takes the container id from a field that no code
  assigns, against "createRevision creates a new revision for a container" (`main.go:25`).
- `coi_lookup`: after a creation the VM is looked up by the operation's id, against "Get
  instance ID directly from the operation" (`main.go:241`). In the model no run that creates
  a VM ever succeeds.

What else the models show, without a run of its own:

- A `memory` that does not fit 64 bits as a product is not refused (`memory.go:40`); the
  request asks for what is left of it. `RequestAsAsked` says exactly that.
- The value of `CACHE_CONTROL` becomes metadata of the user (`storage.go:82`-`94`), while
  `upload.go:56` speaks of the header. When two patterns match and differ, each run may
  pick another (`ValueAsked`).
- `ParseSecrets` says that it logs errors (`parse.go:75`); `SetFailed` ends the process
  (`parse.go:88`), so the `continue` after it is not reached. `SecretsComplete` rests on that.
- "Get IAM token from cache" (`storage.go:86`) holds for the retries of an operation; each
  operation has a middleware of its own (`auth.go:79`).
- `rev_options_test.go` sets its inputs under names in lower case, and `rev_options.go:39`
  reads them in upper case.
- Two outputs can meet in one key (`sdk.go:128`): `VM_CREATED` in a cube `x` and `created` in a
  cube `x-vm`. `ReadAsSet` is about names that cannot.
- A storage mount without a bucket is sent: `storagemounts.go:45` asks only for an S3 path
  that is not empty, and of `/prefix:/mnt` line 55 makes a mount whose `BucketID` is empty.
  `Understood` and `RequestAsAsked` take such a line as it is.
- "If the input is empty or not a valid integer, it returns the default value" says
  `sdk.go:66` (and 49, 78) of integer inputs, and in the next line that it "sets a failure
  message". `SetFailed` ends the process, so no caller sees the default of an invalid integer;
  the models have the run end there (`JunkNumber`).
- The clear has no limit (see [ClearBucket](#clearbucket)).
- A container declaration that another client puts into a VM between the check
  (`cmd/coi/main.go:427`) and the update (line 294) stands beside the docker-compose file.
- Publishing takes away the invokers others have allowed (`cmd/container/main.go:254`): the bindings are
  set anew, not added to.
- An update of a gateway that was asked for by a killed or overlapping run may be carried out
  last, and its older specification stays.
- A bad pattern in `EXCLUDE` shows only after `CLEAR` has emptied the bucket.

Two more, against which the repository promises nothing: a function
or container may be left without a version or revision by a run that fails later
(`partial_failure` hazards), and two overlapping upload runs with `CLEAR` may both succeed
with files of either missing; `UploadProgress` and `ExactWhenAlone` say exactly what is left
to rely on.

## Not modelled

Log groups and wording (`pkg/sourcecraft/sdk.go`) and the functions that take owner and name
of the repository from its address, which go into descriptions only; substitution of
variables by the template library (`internal/container/template.go`, called by apigw: what
the specification says matters to no property); the parsers of
`internal/container/types.go`, which nothing calls; `GetObject` and the readers of
`StorageObject` (no caller of their own); the endpoint resolver, a constant; content types;
generated mocks; the Docker build.

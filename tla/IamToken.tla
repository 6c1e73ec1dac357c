------------------------------ MODULE IamToken ------------------------------
(***************************************************************************)
(* The IAM tokens of a run that uses the object storage (pkg/storage/      *)
(* auth.go).  The storage operations of a run follow each other; each is   *)
(* retried by the S3 client, and every attempt goes through                *)
(* iamRequestMiddleware.HandleFinalize.  swapAuth puts a new middleware    *)
(* into the stack of every operation, so a token is cached for the         *)
(* attempts of one operation.  Time passes at any point.  PutFiles says    *)
(* what an upload asks of the storage and what follows from the answers.   *)
(***************************************************************************)
EXTENDS Naturals

CONSTANTS
    Operations,   \* how many storage operations the run makes
    MaxAttempts,  \* how often the S3 client tries one
    Lifetime,     \* how long a token is valid
    MaxClock      \* bound: when the model's clock stops

ASSUME BoundsAssumption ==
    /\ Operations \in Nat \ {0} /\ MaxAttempts \in Nat \ {0}
    /\ Lifetime \in Nat \ {0} /\ MaxClock \in Nat /\ Lifetime < MaxClock

VARIABLES
    credentials,  \* a service account key, or when the IAM token given to
                  \* the run was issued
    pc,           \* where the run is
    operation,    \* the number of the operation it is at
    attempt,      \* the number of the attempt
    cachedToken,  \* cachedToken of the operation's middleware
    token,        \* the token the attempt is made with
    clock,        \* the time
    began,        \* history: when the operation began
    issued        \* history: the tokens the run has had issued, in order

vars == <<credentials, pc, operation, attempt, cachedToken, token, clock, began, issued>>

\* A token is known by when it was issued and how many were issued before.
Tokens == [at : Nat, number : Nat]
NoToken == [at |-> 0, number |-> 0]
Key == [key |-> TRUE, at |-> 0]
GivenTokens == [key : {FALSE}, at : 0 .. Lifetime]
Ended == {"done", "failed", "expired"}

TypeOK ==
    /\ credentials \in {Key} \cup GivenTokens
    /\ pc \in {"next", "token", "send"} \cup Ended
    /\ operation \in 0 .. Operations
    /\ attempt \in 0 .. MaxAttempts
    /\ cachedToken \in Tokens
    /\ token \in Tokens
    /\ clock \in Lifetime .. MaxClock
    /\ began \in Lifetime .. MaxClock
    /\ issued \in Nat

Init ==
    /\ credentials \in {Key} \cup GivenTokens
    /\ pc = "next"
    /\ operation = 0
    /\ attempt = 0
    /\ cachedToken = NoToken
    /\ token = NoToken
    /\ clock = Lifetime
    /\ began = Lifetime
    /\ issued = 0
-----------------------------------------------------------------------------
(***************************************************************************)
(* Faulty variants of the definitions below, for the mutation checks.      *)
(***************************************************************************)
\* One middleware, made once, for all operations.
SharedMiddleware == cachedToken
\* The token is not kept.
NotCached(t) == NoToken
\* There is no limit to the attempts.
NoLimit == TRUE
\* The attempts are not counted.
RetryUncounted == pc' = "token" /\ UNCHANGED attempt
-----------------------------------------------------------------------------
\* swapAuth: &iamRequestMiddleware{sdk: sdk}
NewMiddleware == NoToken

\* The next operation: its stack is built.
BeginOperation ==
    /\ pc = "next"
    /\ IF operation < Operations
       THEN /\ operation' = operation + 1
            /\ attempt' = 1
            /\ cachedToken' = NewMiddleware
            /\ began' = clock
            /\ pc' = "token"
       ELSE pc' = "done" /\ UNCHANGED <<operation, attempt, cachedToken, began>>
    /\ UNCHANGED <<credentials, token, clock, issued>>

\* sdk.CreateIAMToken: a key is exchanged, a given token is returned.
Created ==
    IF credentials.key THEN [at |-> clock, number |-> issued + 1]
    ELSE [at |-> credentials.at, number |-> issued + 1]

\* The token is kept for the next attempt.
Cached(t) == t

\* getIAMToken
GetFromCache ==
    /\ pc = "token"
    /\ cachedToken # NoToken
    /\ token' = cachedToken
    /\ pc' = "send"
    /\ UNCHANGED <<credentials, operation, attempt, cachedToken, clock, began, issued>>

CreateIAMToken ==
    /\ pc = "token"
    /\ cachedToken = NoToken
    /\ token' = Created
    /\ cachedToken' = Cached(Created)
    /\ issued' = issued + 1
    /\ pc' = "send"
    /\ UNCHANGED <<credentials, operation, attempt, clock, began>>

MayRetry == attempt < MaxAttempts

\* The client tries again, or gives up and the operation fails.
Retry ==
    IF MayRetry THEN attempt' = attempt + 1 /\ pc' = "token"
    ELSE pc' = "failed" /\ UNCHANGED attempt

\* No token is issued; the client may or may not take it for transient.
CreateFails ==
    /\ pc = "token"
    /\ cachedToken = NoToken
    /\ \/ Retry
       \/ pc' = "failed" /\ UNCHANGED attempt
    /\ UNCHANGED <<credentials, operation, cachedToken, token, clock, began, issued>>

Valid(t) == clock <= t.at + Lifetime

\* The service looks at the token; a refusal is not retried.
Answered ==
    /\ pc = "send"
    /\ pc' = IF Valid(token) THEN "next" ELSE "expired"
    /\ UNCHANGED <<credentials, operation, attempt, cachedToken, token, clock, began, issued>>

\* A transient error, with or without effect.
Transient ==
    /\ pc = "send"
    /\ Retry
    /\ UNCHANGED <<credentials, operation, cachedToken, token, clock, began, issued>>

Tick ==
    /\ pc \notin Ended
    /\ clock < MaxClock
    /\ clock' = clock + 1
    /\ UNCHANGED <<credentials, pc, operation, attempt, cachedToken, token, began, issued>>

Step ==
    \/ BeginOperation \/ GetFromCache \/ CreateIAMToken \/ CreateFails
    \/ Answered \/ Transient

Next == Step \/ Tick

Spec == Init /\ [][Next]_vars
-----------------------------------------------------------------------------
(***************************************************************************)
(* A run with a key is refused for an expired token only if a single       *)
(* operation, with its retries, outlived its token; a long run of many     *)
(* operations never is (swapAuth).                                         *)
(***************************************************************************)
ExpiresOnlyWithin ==
    pc = "expired" /\ credentials.key => clock - began > Lifetime

(***************************************************************************)
(* The attempts of one operation share a token (getIAMToken): no more are  *)
(* created than operations begun, however often the client retries.        *)
(***************************************************************************)
SharedByRetries == issued <= operation

(***************************************************************************)
(* Each operation has a token of its own: it is made when the operation    *)
(* first needs it, serves all of its attempts and none of the next.        *)
(***************************************************************************)
OneTokenEach == ExpiresOnlyWithin /\ SharedByRetries
=============================================================================

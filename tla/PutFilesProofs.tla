--------------------------- MODULE PutFilesProofs ---------------------------
(***************************************************************************)
(* Proofs about the runs of PutFiles, for any files, patterns and inputs,  *)
(* any lines of CACHE_CONTROL and any number of runs, operations and       *)
(* attempts: first the tokens of IamToken, by themselves and in these      *)
(* runs, then what Selection takes, what CacheControl finds and what is    *)
(* put in the end.                                                         *)
(***************************************************************************)
EXTENDS PutFiles, SequenceTheorems, WellFoundedInduction, TLAPS

(***************************************************************************)
(* IamToken.                                                               *)
(***************************************************************************)
\* An operation that has no token yet has not had one issued.
IssuedPerOperation ==
    issued <= IF pc = "token" /\ cachedToken = NoToken
              THEN operation - 1 ELSE operation

\* The tokens of an operation are younger than the operation, when they are
\* had for a key; an attempt under way has its operation's token.
YoungerThanOperation ==
    /\ began <= clock
    /\ pc = "send" => cachedToken # NoToken /\ token = cachedToken
    /\ credentials.key =>
          /\ pc = "token" /\ cachedToken # NoToken => began <= cachedToken.at
          /\ pc \in {"send", "expired"} => began <= token.at
    /\ pc = "expired" => ~Valid(token)

TokenInv == TypeOK /\ IssuedPerOperation /\ YoungerThanOperation

\* The invariant holds before the first operation.
LEMMA InitTokenInv == Init => TokenInv
<1> SUFFICES ASSUME Init PROVE TokenInv
    OBVIOUS
<1> USE BoundsAssumption DEF Init, Key, GivenTokens, NoToken, Tokens
<1>1. TypeOK
  <2>1. NoToken \in Tokens
      OBVIOUS
  <2>2. /\ 0 \in 0 .. Operations /\ 0 \in 0 .. MaxAttempts
        /\ Lifetime \in Lifetime .. MaxClock /\ 0 \in Nat
      OBVIOUS
  <2> QED
      BY <2>1, <2>2 DEF TypeOK
<1>2. IssuedPerOperation
    BY DEF IssuedPerOperation
<1>3. YoungerThanOperation
    BY DEF YoungerThanOperation
<1> QED
    BY <1>1, <1>2, <1>3 DEF TokenInv

\* A token that is created has its types, is not NoToken, and is new when it
\* is had for a key.
LEMMA CreatedToken ==
    ASSUME TypeOK
    PROVE  /\ Created \in Tokens
           /\ Created # NoToken
           /\ credentials.key => Created.at = clock
<1> USE BoundsAssumption DEF TypeOK, Created, Tokens, NoToken
<1>1. issued \in Nat /\ clock \in Nat
    OBVIOUS
<1>2. CASE credentials.key
    BY <1>1, <1>2
<1>3. CASE ~credentials.key
  <2>1. credentials.at \in Nat
    <3>1. CASE credentials = Key
        BY <3>1 DEF Key
    <3>2. CASE credentials \in GivenTokens
        BY <3>2 DEF GivenTokens
    <3> QED
        BY <3>1, <3>2
  <2> QED
      BY <1>1, <1>3, <2>1
<1> QED
    BY <1>2, <1>3

\* Every step keeps the types and what ties the tokens to their operation.
LEMMA StepTokenInv == TokenInv /\ [Next]_vars => TokenInv'
<1> SUFFICES ASSUME TokenInv, [Next]_vars PROVE TokenInv'
    OBVIOUS
<1> USE BoundsAssumption
    DEF TokenInv, IssuedPerOperation, YoungerThanOperation, Ended
<1>t. /\ operation \in Nat /\ issued \in Nat /\ clock \in Nat /\ began \in Nat
      /\ attempt \in Nat
    BY DEF TypeOK
<1>1. CASE BeginOperation
  <2>1. NoToken \in Tokens
      BY DEF NoToken, Tokens
  <2>2. TypeOK'
      BY <1>1, <2>1 DEF BeginOperation, NewMiddleware, TypeOK
  <2>3. IssuedPerOperation' /\ YoungerThanOperation'
      BY <1>1, <1>t DEF BeginOperation, NewMiddleware, Valid
  <2> QED
      BY <2>2, <2>3
<1>2. CASE GetFromCache
    BY <1>2, <1>t DEF GetFromCache, TypeOK, Valid
<1>3. CASE CreateIAMToken
  <2>1. TypeOK'
      BY <1>3, <1>t, CreatedToken DEF CreateIAMToken, Cached, TypeOK
  <2>2. IssuedPerOperation' /\ YoungerThanOperation'
      BY <1>3, <1>t, CreatedToken DEF CreateIAMToken, Cached, Valid
  <2> QED
      BY <2>1, <2>2
<1>4. CASE CreateFails
    BY <1>4, <1>t DEF CreateFails, Retry, MayRetry, TypeOK, Valid
<1>5. CASE Answered
    BY <1>5, <1>t DEF Answered, TypeOK, Valid
<1>6. CASE Transient
  <2>1. TypeOK'
      BY <1>6, <1>t DEF Transient, Retry, MayRetry, TypeOK
  <2>2. cachedToken \in Tokens /\ token \in Tokens
      BY DEF TypeOK
  <2>3. IssuedPerOperation' /\ YoungerThanOperation'
      BY <1>6, <1>t, <2>2 DEF Transient, Retry, MayRetry, Valid, Tokens
  <2> QED
      BY <2>1, <2>3
<1>7. CASE Tick
    BY <1>7, <1>t DEF Tick, TypeOK, Valid
<1>8. CASE UNCHANGED vars
    BY <1>8 DEF vars, TypeOK, Valid
<1> QED
    BY <1>1, <1>2, <1>3, <1>4, <1>5, <1>6, <1>7, <1>8 DEF Next, Step

\* What the invariant says of every state.
LEMMA TokenInvShows ==
    ASSUME TokenInv
    PROVE  ExpiresOnlyWithin /\ SharedByRetries
<1>1. ExpiresOnlyWithin
    BY BoundsAssumption
       DEF TokenInv, TypeOK, YoungerThanOperation, ExpiresOnlyWithin, Valid, Tokens
<1>2. SharedByRetries
    BY DEF TokenInv, TypeOK, IssuedPerOperation, SharedByRetries
<1> QED
    BY <1>1, <1>2

(***************************************************************************)
(* The types of the run and the clock, and the invariant that ties the     *)
(* cached token to the operation whose middleware made it (swapAuth).      *)
(***************************************************************************)
THEOREM TokenInvariant == Spec => []TokenInv
BY InitTokenInv, StepTokenInv, PTL DEF Spec

(***************************************************************************)
(* The bounds of the counters and of the clock, and the shape of tokens    *)
(* (TypeOK).                                                               *)
(***************************************************************************)
THEOREM TypeCorrect == Spec => []TypeOK
<1>1. TokenInv => TypeOK
    BY DEF TokenInv
<1> QED
    BY <1>1, TokenInvariant, PTL

(***************************************************************************)
(* A run with a key is refused for an expired token only if one operation  *)
(* outlived the token it created (ExpiresOnlyWithin).                      *)
(***************************************************************************)
THEOREM ExpiryWithinOperation == Spec => []ExpiresOnlyWithin
<1>1. TokenInv => ExpiresOnlyWithin
    BY TokenInvShows
<1> QED
    BY <1>1, TokenInvariant, PTL

(***************************************************************************)
(* However often the client retries, no more tokens are created than there *)
(* were operations (SharedByRetries).                                      *)
(***************************************************************************)
THEOREM TokensPerOperation == Spec => []SharedByRetries
<1>1. TokenInv => SharedByRetries
    BY TokenInvShows
<1> QED
    BY <1>1, TokenInvariant, PTL

(***************************************************************************)
(* Each operation has a token of its own, for all of its attempts and for  *)
(* none of the next operation (OneTokenEach).                              *)
(***************************************************************************)
THEOREM TokenOfOperation == Spec => []OneTokenEach
<1>1. ExpiresOnlyWithin /\ SharedByRetries => OneTokenEach
    BY DEF OneTokenEach
<1> QED
    BY <1>1, ExpiryWithinOperation, TokensPerOperation, PTL

\* The runs of PutFiles take the steps of IamToken, and each begins anew.
LEMMA TokenPutStep ==
    ASSUME TokenInv, [PutNext]_putVars
    PROVE  TokenInv'
<1>1. CASE UNCHANGED vars
    BY <1>1, StepTokenInv
<1>2. CASE Request \/ PutAnswered \/ PutTransient \/ TimePasses
    BY <1>2, StepTokenInv DEF Request, PutAnswered, PutTransient, TimePasses, Next, Step
<1>3. CASE NextRun
  <2>1. NoToken \in Tokens
      BY DEF NoToken, Tokens
  <2>2. TypeOK'
      BY <1>3, <2>1, BoundsAssumption DEF NextRun, TokenInv, TypeOK
  <2>3. IssuedPerOperation' /\ YoungerThanOperation'
      BY <1>3 DEF NextRun, TokenInv, TypeOK, IssuedPerOperation, YoungerThanOperation
  <2> QED
      BY <2>2, <2>3 DEF TokenInv
<1> QED
    BY <1>1, <1>2, <1>3
       DEF PutNext, Process, SelectFiles, ParseInputs, NextFile, FindValue, GiveUp, AfterPutError,
           putVars

LEMMA TokenPutInit == PutInit => TokenInv
BY InitTokenInv DEF PutInit

(***************************************************************************)
(* The tokens of an upload and of those that follow it are those of        *)
(* IamToken, so each operation that puts a file has a token of its own     *)
(* (OneTokenEach).                                                         *)
(***************************************************************************)
THEOREM TokenOfPut == PutSpec => []OneTokenEach
<1>1. TokenInv => OneTokenEach
    BY TokenInvShows DEF OneTokenEach
<1> QED
    BY <1>1, TokenPutInit, TokenPutStep, PTL DEF PutSpec
-----------------------------------------------------------------------------
(***************************************************************************)
(* Sequences and positions.                                                *)
(***************************************************************************)
\* A set of numbers that is not empty has a least one.
LEMMA LeastNumber ==
    ASSUME NEW P \in SUBSET Nat, P # {}
    PROVE  \E i \in P : \A j \in P : i <= j
<1> DEFINE less == {p \in Nat \X Nat : p[1] < p[2]}
<1>1. IsWellFoundedOn(less, Nat)
  <2>1. OpToRel(<, Nat) = less
      BY DEF OpToRel
  <2> QED
      BY <2>1, NatLessThanWellFounded
<1>2. PICK i \in P : \A j \in P : <<j, i>> \notin less
  <2> HIDE DEF less
  <2> QED
      BY <1>1, WFMin
<1>3. ASSUME NEW j \in P
      PROVE  i <= j
  <2>1. <<j, i>> \notin less /\ <<j, i>> \in Nat \X Nat
      BY <1>2
  <2>2. i \in Nat /\ j \in Nat /\ ~(j < i)
      BY <2>1
  <2> QED
      BY <2>2
<1> QED
    BY <1>3

\* The elements of a sequence are its head and those of its tail.
LEMMA HeadAndTail ==
    ASSUME NEW T, NEW s \in Seq(T), s # <<>>
    PROVE  /\ Head(s) \in T
           /\ Tail(s) \in Seq(T)
           /\ ToSet(s) = {Head(s)} \cup ToSet(Tail(s))
<1>1. /\ Head(s) \in T /\ Tail(s) \in Seq(T)
      /\ Len(s) \in Nat \ {0} /\ DOMAIN s = 1 .. Len(s)
      /\ Len(Tail(s)) = Len(s) - 1
      /\ \A i \in 1 .. Len(Tail(s)) : Tail(s)[i] = s[i + 1]
    BY HeadTailProperties, EmptySeq, LenProperties
<1>2. DOMAIN Tail(s) = 1 .. Len(s) - 1
    BY <1>1, LenProperties
<1>3. Head(s) = s[1]
    OBVIOUS
<1>4. 1 .. Len(s) = {1} \cup {i + 1 : i \in 1 .. Len(s) - 1}
  <2>1. ASSUME NEW i \in 1 .. Len(s), i # 1
        PROVE  i - 1 \in 1 .. Len(s) - 1 /\ i = (i - 1) + 1
      BY <1>1, <2>1
  <2>2. \A i \in 1 .. Len(s) - 1 : i + 1 \in 1 .. Len(s)
      BY <1>1
  <2>3. 1 \in 1 .. Len(s)
      BY <1>1
  <2> QED
      BY <2>1, <2>2, <2>3
<1>5. ToSet(Tail(s)) = {s[i + 1] : i \in 1 .. Len(s) - 1}
    BY <1>1, <1>2 DEF ToSet
<1>6. ToSet(s) = {s[1]} \cup {s[i + 1] : i \in 1 .. Len(s) - 1}
  <2>1. ToSet(s) = {s[i] : i \in 1 .. Len(s)}
      BY <1>1 DEF ToSet
  <2> QED
      BY <1>4, <2>1
<1> QED
    BY <1>1, <1>3, <1>5, <1>6

LEMMA AppendedSet ==
    ASSUME NEW T, NEW s \in Seq(T), NEW x \in T
    PROVE  Append(s, x) \in Seq(T) /\ ToSet(Append(s, x)) = ToSet(s) \cup {x}
<1>1. /\ Append(s, x) \in Seq(T)
      /\ Len(Append(s, x)) = Len(s) + 1
      /\ \A i \in 1 .. Len(s) : Append(s, x)[i] = s[i]
      /\ Append(s, x)[Len(s) + 1] = x
    BY AppendProperties
<1>2. Len(s) \in Nat /\ DOMAIN s = 1 .. Len(s) /\ DOMAIN Append(s, x) = 1 .. Len(s) + 1
    BY <1>1, LenProperties
<1>3. 1 .. Len(s) + 1 = 1 .. Len(s) \cup {Len(s) + 1}
    BY <1>2
<1> DEFINE a == Append(s, x)
           n == Len(s)
<1>4. ToSet(a) = {a[i] : i \in 1 .. n} \cup {a[n + 1]}
    BY <1>2, <1>3 DEF ToSet
<1>5. ToSet(s) = {s[i] : i \in 1 .. n}
    BY <1>2 DEF ToSet
<1> QED
    BY <1>1, <1>4, <1>5

LEMMA SetOfSequence ==
    ASSUME NEW T, NEW s \in Seq(T)
    PROVE  ToSet(s) \subseteq T
BY LenProperties, ElementOfSeq DEF ToSet

LEMMA NothingInEmpty == ToSet(<<>>) = {}
BY DEF ToSet
-----------------------------------------------------------------------------
(***************************************************************************)
(* Selection.                                                              *)
(***************************************************************************)
\* What the inputs ask of each of the programs.
WantedBy(q) ==
    IF q = "function" THEN (Direct \cup (Walked \ ByPath)) \cap Regular ELSE ToBePut

WantsDirect(q, f) == f \in Regular /\ (q = "upload" => f \notin ByPath \cup ByName)
WantsWalked(q, f) == f \in Regular \ ByPath /\ (q = "upload" => f \notin ByName)
Has(q, f) == f \in ToSet(chosen[q])

\* The includes taken up so far that Glob has read.
Globbed == {i \in 1 .. position : Included[i] \notin Bad \cup {EmptyLine}}

\* Nothing is taken, or lies ahead, that the inputs do not ask for.
NothingElse ==
    /\ ToSet(walk) \subseteq Walked
    /\ ToSet(queue) \cap Files \subseteq Direct
    /\ \A d \in ToSet(queue) \cap Directories : ToSet(tree.walk[d]) \subseteq Walked
    /\ \A q \in Programs : ToSet(chosen[q]) \subseteq WantedBy(q)
    /\ chosen["upload"] # <<>> => Lines(exclude) \cap Bad = {}

\* A match that was taken up is still ahead, or what it stands for is taken.
NoMatchLost ==
    Running =>
       \A i \in Globbed :
          /\ \A f \in ToSet(tree.glob[Included[i]]) \cap Files :
                f \in ToSet(queue) \/ (WantsDirect(program, f) => Has(program, f))
          /\ \A d \in ToSet(tree.glob[Included[i]]) \cap Directories :
                \/ d \in ToSet(queue)
                \/ \A f \in ToSet(tree.walk[d]) :
                      f \in ToSet(walk) \/ (WantsWalked(program, f) => Has(program, f))

AllWhenDone ==
    \A q \in Programs : status[q] = "done" => WantedBy(q) \subseteq ToSet(chosen[q])

SelectionInv == SelectionTypeOK /\ NothingElse /\ NoMatchLost /\ AllWhenDone

\* The parts of what a run is given.
LEMMA SelectionParts ==
    ASSUME SelectionTypeOK
    PROVE  /\ tree.glob \in [Patterns -> Seq(Files \cup Directories)]
           /\ tree.walk \in [Directories -> Seq(Files)]
           /\ tree.kind \in [Files -> Kinds]
           /\ Included \in Seq(Patterns) /\ Len(Included) \in Nat
           /\ \A i \in 1 .. Len(Included) : Included[i] \in Patterns
           /\ Len(exclude) \in Nat /\ \A i \in 1 .. Len(exclude) : exclude[i] \in Patterns
           /\ position \in 0 .. Len(Included)
           /\ queue \in Seq(Files \cup Directories) /\ walk \in Seq(Files)
           /\ program \in Programs
           /\ status \in [Programs -> {"running", "done", "failed"}]
           /\ chosen \in [Programs -> Seq(Files)]
<1> USE DEF SelectionTypeOK
<1>1. /\ tree.glob \in [Patterns -> Seq(Files \cup Directories)]
      /\ tree.walk \in [Directories -> Seq(Files)]
      /\ tree.kind \in [Files -> Kinds]
    BY TreesAssumption
<1>2. include \in Seq(Patterns) /\ exclude \in Seq(Patterns)
    BY PatternsAssumption
<1>3. Included \in Seq(Patterns)
  <2>1. Dot \in Patterns
      BY PatternsAssumption
  <2>2. <<Dot>> \in Seq(Patterns)
      BY <2>1
  <2> QED
      BY <1>2, <2>2 DEF Included
<1>4. Len(Included) \in Nat /\ \A i \in 1 .. Len(Included) : Included[i] \in Patterns
    BY <1>3, LenProperties, ElementOfSeq
<1>5. Len(exclude) \in Nat /\ \A i \in 1 .. Len(exclude) : exclude[i] \in Patterns
    BY <1>2, LenProperties, ElementOfSeq
<1> QED
    BY <1>1, <1>3, <1>4, <1>5

\* What is asked for depends on the inputs alone.
AskedFrame ==
    /\ tree' = tree /\ include' = include /\ exclude' = exclude
    /\ Included' = Included
    /\ Direct' = Direct /\ Walked' = Walked /\ ByPath' = ByPath /\ ByName' = ByName
    /\ Regular' = Regular /\ ToBePut' = ToBePut /\ Lines(exclude)' = Lines(exclude)
    /\ \A q : WantedBy(q)' = WantedBy(q)
    /\ \A q, f : /\ WantsDirect(q, f)' = WantsDirect(q, f)
                 /\ WantsWalked(q, f)' = WantsWalked(q, f)

LEMMA SameInputs ==
    ASSUME UNCHANGED inputs
    PROVE  AskedFrame
<1>1. tree' = tree /\ include' = include /\ exclude' = exclude
    BY DEF inputs
<1>2. Included' = Included /\ Lines(exclude)' = Lines(exclude) /\ Lines(Included)' = Lines(Included)
    BY <1>1 DEF Included
<1>3. Direct' = Direct /\ Walked' = Walked /\ ByPath' = ByPath /\ ByName' = ByName /\ Regular' = Regular
    BY <1>1, <1>2 DEF Direct, Walked, ByPath, ByName, Regular
<1> QED
    BY <1>1, <1>2, <1>3 DEF AskedFrame, ToBePut, WantedBy, WantsDirect, WantsWalked

\* What a pattern of INCLUDE stands for, from its position.
LEMMA IncludedAt ==
    ASSUME SelectionTypeOK, NEW i \in 1 .. Len(Included), Included[i] \notin Bad \cup {EmptyLine}
    PROVE  /\ ToSet(tree.glob[Included[i]]) \cap Files \subseteq Direct
           /\ \A d \in ToSet(tree.glob[Included[i]]) \cap Directories :
                 ToSet(tree.walk[d]) \subseteq Walked
<1> DEFINE p == Included[i]
           g == tree.glob[p]
<1>1. p \in Lines(Included) \ Bad
    BY DEF Lines
<1>2. ToSet(g) \cap Files \subseteq Direct
    BY <1>1 DEF Direct, ToSet
<1>3. ASSUME NEW d \in ToSet(g) \cap Directories
      PROVE  ToSet(tree.walk[d]) \subseteq Walked
  <2>1. tree.walk[d] \in Seq(Files)
      BY SelectionParts
  <2>2. ToSet(tree.walk[d]) \subseteq Files
      BY <2>1, SetOfSequence
  <2>3. PICK m \in DOMAIN g : g[m] = d
      BY DEF ToSet
  <2> QED
      BY <1>1, <2>2, <2>3 DEF Walked, ToSet
<1> QED
    BY <1>2, <1>3

\* What is asked for stands for a pattern at some position.
LEMMA AskedFrom ==
    ASSUME SelectionTypeOK
    PROVE  /\ \A f \in Direct : \E i \in 1 .. Len(Included) :
                 /\ Included[i] \notin Bad \cup {EmptyLine}
                 /\ f \in ToSet(tree.glob[Included[i]]) \cap Files
           /\ \A f \in Walked : \E i \in 1 .. Len(Included) :
                 /\ Included[i] \notin Bad \cup {EmptyLine}
                 /\ \E d \in ToSet(tree.glob[Included[i]]) \cap Directories :
                       f \in ToSet(tree.walk[d])
<1>1. ASSUME NEW f \in Direct
      PROVE  \E i \in 1 .. Len(Included) :
                /\ Included[i] \notin Bad \cup {EmptyLine}
                /\ f \in ToSet(tree.glob[Included[i]]) \cap Files
    BY DEF Direct, Lines, ToSet
<1>2. ASSUME NEW f \in Walked
      PROVE  \E i \in 1 .. Len(Included) :
                /\ Included[i] \notin Bad \cup {EmptyLine}
                /\ \E d \in ToSet(tree.glob[Included[i]]) \cap Directories :
                      f \in ToSet(tree.walk[d])
  <2>1. PICK p \in Lines(Included) \ Bad :
           \E m \in DOMAIN tree.glob[p] :
              /\ tree.glob[p][m] \in Directories
              /\ \E j \in DOMAIN tree.walk[tree.glob[p][m]] :
                    tree.walk[tree.glob[p][m]][j] = f
      BY DEF Walked
  <2>2. PICK m \in DOMAIN tree.glob[p] :
              /\ tree.glob[p][m] \in Directories
              /\ \E j \in DOMAIN tree.walk[tree.glob[p][m]] :
                    tree.walk[tree.glob[p][m]][j] = f
      BY <2>1
  <2> DEFINE d == tree.glob[p][m]
  <2>3. d \in ToSet(tree.glob[p]) \cap Directories /\ f \in ToSet(tree.walk[d])
      BY <2>2 DEF ToSet
  <2>4. PICK i \in 1 .. Len(Included) : Included[i] = p /\ p \notin Bad \cup {EmptyLine}
      BY <2>1 DEF Lines
  <2> HIDE DEF d
  <2> QED
      BY <2>3, <2>4
<1> QED
    BY <1>1, <1>2

\* A file is passed over only when a pattern of EXCLUDE matches it, and its
\* excludes are an error when one before that is bad.
LEMMA VerdictMeans ==
    ASSUME NEW f
    PROVE  /\ Verdict(f) = "take" => \A i \in Ignore : ~Decides(i, f)
           /\ Verdict(f) \in {"take", "skip", "error"}
           /\ Verdict(f) = "skip" => \E i \in Ignore : f \in Excluded(exclude[i])
<1> DEFINE D == {i \in Ignore : Decides(i, f)}
           first == CHOOSE i \in D : \A j \in D : i <= j
<1>1. Verdict(f) = IF D = {} THEN "take" ELSE IF Rejected(exclude[first]) THEN "error" ELSE "skip"
    BY DEF Verdict
<1>2. CASE D = {}
    BY <1>1, <1>2
<1>3. CASE D # {}
  <2>1. D \in SUBSET Nat
      BY DEF Ignore
  <2>2. \E i \in D : \A j \in D : i <= j
    <3> HIDE DEF D
    <3> QED
        BY <1>3, <2>1, LeastNumber
  <2>3. first \in D
    <3> HIDE DEF D
    <3> QED
        BY <2>2
  <2>4. first \in Ignore /\ Decides(first, f)
      BY <2>3
  <2> HIDE DEF first, D
  <2> QED
      BY <1>1, <1>3, <2>4 DEF Decides
<1> QED
    BY <1>2, <1>3

\* What becomes of an entry.
LEMMA OutcomeMeans ==
    ASSUME NEW entry, NEW f, f = entry.file
    PROVE  /\ Outcome(entry) = "take" =>
                 /\ tree.kind[f] = "file"
                 /\ Tried(entry) => \A i \in Ignore : ~Decides(i, f)
           /\ /\ Outcome(entry) # "error" /\ tree.kind[f] = "file"
              /\ Tried(entry) => \A i \in Ignore : f \notin Excluded(exclude[i])
              => Outcome(entry) = "take"
<1>1. /\ Verdict(f) = "take" => \A i \in Ignore : ~Decides(i, f)
      /\ Verdict(f) \in {"take", "skip", "error"}
      /\ Verdict(f) = "skip" => \E i \in Ignore : f \in Excluded(exclude[i])
    BY VerdictMeans
<1>2. Take(f) = "take" <=> tree.kind[f] = "file"
  <2>1. CASE tree.kind[f] = "file"
      BY <2>1 DEF Take
  <2>2. CASE tree.kind[f] = "dangling"
      BY <2>2 DEF Take
  <2>3. CASE tree.kind[f] \notin {"file", "dangling"}
      BY <2>3 DEF Take
  <2> QED
      BY <2>1, <2>2, <2>3
<1> QED
    BY <1>1, <1>2 DEF Outcome

\* The excludes a file is compared with, from the lines of EXCLUDE.
LEMMA ExcludeMeans ==
    ASSUME SelectionTypeOK, NEW f \in Files
    PROVE  /\ (\A i \in Ignore : f \notin Excluded(exclude[i])) <=>
                 f \notin ByPath /\ (program = "upload" => f \notin ByName)
           /\ (\A i \in Ignore : ~Decides(i, f)) => Lines(exclude) \cap Bad = {}
           /\ (\A i \in Ignore : ~Decides(i, f)) => \A i \in Ignore : f \notin Excluded(exclude[i])
<1>1. Lines(exclude) = {exclude[i] : i \in Ignore}
    BY DEF Lines, Ignore
<1>2. (\A i \in Ignore : f \notin Excluded(exclude[i])) <=>
          \A p \in Lines(exclude) : f \notin Excluded(p)
    BY <1>1
<1>3. (\A p \in Lines(exclude) : f \notin Excluded(p)) <=>
          f \notin ByPath /\ (program = "upload" => f \notin ByName)
  <2>1. CASE program = "upload"
      BY <2>1 DEF Excluded, ByPath, ByName
  <2>2. CASE program # "upload"
      BY <2>2 DEF Excluded, ByPath, ByName
  <2> QED
      BY <2>1, <2>2
<1>4. ASSUME \A i \in Ignore : ~Decides(i, f)
      PROVE  Lines(exclude) \cap Bad = {}
    BY <1>1, <1>4 DEF Decides, Rejected
<1>5. (\A i \in Ignore : ~Decides(i, f)) => \A i \in Ignore : f \notin Excluded(exclude[i])
    BY DEF Decides
<1> QED
    BY <1>2, <1>3, <1>4, <1>5

\* The entry a program comes to next: it is taken only if the inputs ask for
\* it, and always then, unless it is an error.
LEMMA ComingMeans ==
    ASSUME SelectionTypeOK, NothingElse,
           walk # <<>> \/ (queue # <<>> /\ Head(queue) \notin Directories)
    PROVE  /\ Coming.file \in Files
           /\ Coming.file = IF walk # <<>> THEN Head(walk) ELSE Head(queue)
           /\ Outcome(Coming) = "take" =>
                 /\ Coming.file \in WantedBy(program)
                 /\ program = "upload" => Lines(exclude) \cap Bad = {}
           /\ /\ Outcome(Coming) # "error"
              /\ IF walk # <<>> THEN WantsWalked(program, Coming.file)
                                ELSE WantsDirect(program, Coming.file)
              => Outcome(Coming) = "take"
<1>1. /\ queue \in Seq(Files \cup Directories) /\ walk \in Seq(Files)
      /\ program \in Programs
      /\ tree.kind \in [Files -> Kinds]
    BY SelectionParts
<1>2. CASE walk # <<>>
  <2> DEFINE f == Head(walk)
             c == [file |-> f, direct |-> FALSE]
  <2>1. f \in Files /\ f \in ToSet(walk)
      BY <1>1, <1>2, HeadAndTail
  <2>2. Coming = c
      BY <1>2 DEF Coming
  <2>3. f \in Walked
      BY <2>1 DEF NothingElse
  <2>4. Tried(c) /\ c.file = f
      BY DEF Tried
  <2>5. /\ Outcome(c) = "take" =>
              /\ tree.kind[f] = "file"
              /\ \A i \in Ignore : ~Decides(i, f)
        /\ /\ Outcome(c) # "error" /\ tree.kind[f] = "file"
           /\ \A i \in Ignore : f \notin Excluded(exclude[i])
           => Outcome(c) = "take"
      BY <2>4, OutcomeMeans
  <2>6. /\ (\A i \in Ignore : f \notin Excluded(exclude[i])) <=>
                 f \notin ByPath /\ (program = "upload" => f \notin ByName)
        /\ (\A i \in Ignore : ~Decides(i, f)) => Lines(exclude) \cap Bad = {}
        /\ (\A i \in Ignore : ~Decides(i, f)) => \A i \in Ignore : f \notin Excluded(exclude[i])
      BY <2>1, ExcludeMeans
  <2>7. f \in Regular <=> tree.kind[f] = "file"
      BY <2>1 DEF Regular
  <2> HIDE DEF f, c
  <2>8. Outcome(c) = "take" => f \in WantedBy(program) /\ Lines(exclude) \cap Bad = {}
      BY <1>1, <2>3, <2>5, <2>6, <2>7 DEF WantedBy, ToBePut, Programs
  <2>9. Outcome(c) # "error" /\ WantsWalked(program, f) => Outcome(c) = "take"
      BY <2>5, <2>6, <2>7 DEF WantsWalked
  <2> QED
      BY <1>2, <2>1, <2>2, <2>4, <2>8, <2>9 DEF f
<1>3. CASE walk = <<>>
  <2> DEFINE f == Head(queue)
             c == [file |-> f, direct |-> tree.kind[f] # "dirlink"]
  <2>1. f \in Files /\ f \in ToSet(queue)
      BY <1>1, <1>3, HeadAndTail
  <2>2. Coming = c
      BY <1>3 DEF Coming
  <2>3. f \in Direct
      BY <2>1 DEF NothingElse
  <2>4. c.file = f
      OBVIOUS
  <2>5. tree.kind[f] = "file" => (Tried(c) <=> program = "upload")
      BY DEF Tried
  <2>6. /\ Outcome(c) = "take" =>
              /\ tree.kind[f] = "file"
              /\ Tried(c) => \A i \in Ignore : ~Decides(i, f)
        /\ /\ Outcome(c) # "error" /\ tree.kind[f] = "file"
           /\ Tried(c) => \A i \in Ignore : f \notin Excluded(exclude[i])
           => Outcome(c) = "take"
      BY <2>4, OutcomeMeans
  <2>7. /\ (\A i \in Ignore : f \notin Excluded(exclude[i])) <=>
                 f \notin ByPath /\ (program = "upload" => f \notin ByName)
        /\ (\A i \in Ignore : ~Decides(i, f)) => Lines(exclude) \cap Bad = {}
        /\ (\A i \in Ignore : ~Decides(i, f)) => \A i \in Ignore : f \notin Excluded(exclude[i])
      BY <2>1, ExcludeMeans
  <2>8. f \in Regular <=> tree.kind[f] = "file"
      BY <2>1 DEF Regular
  <2> HIDE DEF f, c
  <2>9. Outcome(c) = "take" =>
           /\ f \in WantedBy(program)
           /\ program = "upload" => Lines(exclude) \cap Bad = {}
      BY <1>1, <2>3, <2>5, <2>6, <2>7, <2>8 DEF WantedBy, ToBePut, Programs
  <2>10. Outcome(c) # "error" /\ WantsDirect(program, f) => Outcome(c) = "take"
      BY <2>5, <2>6, <2>7, <2>8 DEF WantsDirect
  <2> QED
      BY <1>3, <2>1, <2>2, <2>4, <2>9, <2>10 DEF f
<1> QED
    BY <1>2, <1>3

(***************************************************************************)
(* The steps of Selection.                                                 *)
(***************************************************************************)
LEMMA EndStep ==
    ASSUME SelectionInv, NEW how \in {"done", "failed"}, End(how),
           UNCHANGED <<inputs, chosen>>,
           how = "done" => WantedBy(program) \subseteq ToSet(chosen[program])
    PROVE  SelectionInv'
<1>0. SelectionTypeOK /\ NothingElse /\ NoMatchLost /\ AllWhenDone
    BY DEF SelectionInv
<1>1. AskedFrame
    BY SameInputs
<1>2. /\ program \in Programs /\ position \in 0 .. Len(Included) /\ Len(Included) \in Nat
      /\ status \in [Programs -> {"running", "done", "failed"}]
      /\ chosen \in [Programs -> Seq(Files)]
    BY <1>0, SelectionParts
<1>3. /\ queue' = <<>> /\ walk' = <<>> /\ chosen' = chosen
      /\ status' = [status EXCEPT ![program] = how]
      /\ program' = "upload"
      /\ program = "function" => position' = 0
      /\ program # "function" => position' = position
    BY <1>2 DEF End, Programs
<1>4. SelectionTypeOK'
  <2>1. tree' \in Trees /\ include' \in Includes /\ exclude' \in Excludes
      BY <1>0, <1>1 DEF SelectionTypeOK, AskedFrame
  <2>2. status' \in [Programs -> {"running", "done", "failed"}]
      BY <1>2, <1>3
  <2>3. position' \in 0 .. Len(Included)'
      BY <1>1, <1>2, <1>3 DEF AskedFrame
  <2>4. program' \in Programs
      BY <1>3 DEF Programs
  <2> QED
      BY <1>2, <1>3, <2>1, <2>2, <2>3, <2>4 DEF SelectionTypeOK
<1>5. NothingElse'
  <2>1. ToSet(queue') = {} /\ ToSet(walk') = {}
      BY <1>3, NothingInEmpty
  <2> QED
      BY <1>0, <1>1, <1>3, <2>1 DEF NothingElse, AskedFrame
<1>6. NoMatchLost'
  <2>1. CASE program = "function"
    <3>1. Globbed' = {}
        BY <1>3, <2>1 DEF Globbed
    <3> QED
        BY <3>1 DEF NoMatchLost
  <2>2. CASE program = "upload"
    <3>1. ~Running'
        BY <1>2, <1>3, <2>2 DEF Running
    <3> QED
        BY <3>1 DEF NoMatchLost
  <2> QED
      BY <1>2, <2>1, <2>2 DEF Programs
<1>7. AllWhenDone'
  <2> SUFFICES ASSUME NEW q \in Programs, status'[q] = "done"
               PROVE  WantedBy(q) \subseteq ToSet(chosen[q])
      BY <1>1, <1>3 DEF AllWhenDone, AskedFrame
  <2>1. CASE q = program
      BY <1>2, <1>3, <2>1
  <2>2. CASE q # program
      BY <1>0, <1>2, <1>3, <2>2 DEF AllWhenDone
  <2> QED
      BY <2>1, <2>2
<1> QED
    BY <1>4, <1>5, <1>6, <1>7 DEF SelectionInv

LEMMA NextIncludeStep == SelectionInv /\ NextInclude => SelectionInv'
<1> SUFFICES ASSUME SelectionInv, NextInclude
             PROVE  SelectionInv'
    OBVIOUS
<1> DEFINE p == Included[position + 1]
<1>0. SelectionTypeOK /\ NothingElse /\ NoMatchLost /\ AllWhenDone
    BY DEF SelectionInv
<1>1. AskedFrame /\ chosen' = chosen
    BY SameInputs DEF NextInclude
<1>2. CASE p \in Bad /\ End("failed")
    BY <1>2, EndStep DEF NextInclude
<1>3. CASE /\ queue' = IF p \in Bad \cup {EmptyLine} THEN <<>> ELSE tree.glob[p]
           /\ position' = NextPosition
           /\ UNCHANGED <<program, walk, status>>
  <2>1. /\ program \in Programs /\ position \in 0 .. Len(Included) /\ Len(Included) \in Nat
        /\ tree.glob \in [Patterns -> Seq(Files \cup Directories)]
        /\ tree.walk \in [Directories -> Seq(Files)]
        /\ \A i \in 1 .. Len(Included) : Included[i] \in Patterns
      BY <1>0, SelectionParts
  <2>2. Running /\ queue = <<>> /\ walk = <<>> /\ position < Len(Included)
      BY DEF NextInclude
  <2>3. position + 1 \in 1 .. Len(Included) /\ position' = position + 1
      BY <1>3, <2>1, <2>2 DEF NextPosition
  <2>4. p \in Patterns
      BY <2>1, <2>3
  <2>5. queue' \in Seq(Files \cup Directories)
      BY <1>3, <2>1, <2>4
  <2>6. ToSet(queue) = {} /\ ToSet(walk) = {}
      BY <2>2, NothingInEmpty
  <2>7. SelectionTypeOK'
    <3>1. tree' \in Trees /\ include' \in Includes /\ exclude' \in Excludes
        BY <1>0, <1>1 DEF SelectionTypeOK, AskedFrame
    <3>2. position' \in 0 .. Len(Included)'
        BY <1>1, <2>1, <2>3 DEF AskedFrame
    <3> QED
        BY <1>0, <1>1, <1>3, <2>5, <3>1, <3>2 DEF SelectionTypeOK
  <2>8. /\ ToSet(queue') \cap Files \subseteq Direct
        /\ \A d \in ToSet(queue') \cap Directories : ToSet(tree.walk[d]) \subseteq Walked
    <3>1. CASE p \in Bad \cup {EmptyLine}
        BY <1>3, <3>1, NothingInEmpty
    <3>2. CASE p \notin Bad \cup {EmptyLine}
      <4>1. queue' = tree.glob[p]
          BY <1>3, <3>2
      <4> QED
          BY <1>0, <2>3, <3>2, <4>1, IncludedAt
    <3> QED
        BY <3>1, <3>2
  <2>9. NothingElse'
    <3>1. walk' = walk
        BY <1>3
    <3> QED
        BY <1>0, <1>1, <2>8, <3>1 DEF NothingElse, AskedFrame
  <2>10. NoMatchLost'
    <3>1. program' = program /\ walk' = walk
        BY <1>3
    <3> SUFFICES ASSUME NEW i \in Globbed'
        PROVE
          /\ \A f \in ToSet(tree.glob[Included[i]]) \cap Files :
                f \in ToSet(queue') \/ (WantsDirect(program, f) => Has(program, f))
          /\ \A d \in ToSet(tree.glob[Included[i]]) \cap Directories :
                \/ d \in ToSet(queue')
                \/ \A f \in ToSet(tree.walk[d]) :
                      f \in ToSet(walk') \/ (WantsWalked(program, f) => Has(program, f))
        BY <1>1, <3>1 DEF NoMatchLost, AskedFrame, Has
    <3>2. i \in 1 .. position + 1 /\ Included[i] \notin Bad \cup {EmptyLine}
        BY <1>1, <2>3 DEF Globbed, AskedFrame
    <3>3. CASE i = position + 1
      <4>1. queue' = tree.glob[Included[i]]
          BY <1>3, <3>2, <3>3
      <4> QED
          BY <4>1
    <3>4. CASE i # position + 1
      <4>1. i \in Globbed
          BY <2>1, <3>2, <3>4 DEF Globbed
      <4> QED
          BY <1>0, <2>2, <2>6, <4>1 DEF NoMatchLost
    <3> QED
        BY <3>3, <3>4
  <2>11. AllWhenDone'
    <3>1. status' = status
        BY <1>3
    <3> QED
        BY <1>0, <1>1, <3>1 DEF AllWhenDone, AskedFrame
  <2> QED
      BY <2>7, <2>9, <2>10, <2>11 DEF SelectionInv
<1> QED
    BY <1>2, <1>3 DEF NextInclude

LEMMA EnterDirectoryStep == SelectionInv /\ EnterDirectory => SelectionInv'
<1> SUFFICES ASSUME SelectionInv, EnterDirectory
             PROVE  SelectionInv'
    OBVIOUS
<1> DEFINE d == Head(queue)
<1>0. SelectionTypeOK /\ NothingElse /\ NoMatchLost /\ AllWhenDone
    BY DEF SelectionInv
<1>1. AskedFrame
    BY SameInputs DEF EnterDirectory
<1>2. /\ Running /\ walk = <<>> /\ queue # <<>> /\ d \in Directories
      /\ walk' = tree.walk[d] /\ queue' = Tail(queue)
      /\ program' = program /\ position' = position /\ status' = status /\ chosen' = chosen
    BY DEF EnterDirectory
<1>3. /\ tree.walk \in [Directories -> Seq(Files)]
      /\ queue \in Seq(Files \cup Directories)
    BY <1>0, SelectionParts
<1>4. /\ queue' \in Seq(Files \cup Directories)
      /\ ToSet(queue) = {d} \cup ToSet(queue')
    BY <1>2, <1>3, HeadAndTail
<1>5. ToSet(walk) = {} /\ walk' \in Seq(Files)
    BY <1>2, <1>3, NothingInEmpty
<1>6. d \notin Files
    BY <1>2, TreesAssumption
<1> HIDE DEF d
<1>7. SelectionTypeOK'
  <2>1. tree' \in Trees /\ include' \in Includes /\ exclude' \in Excludes
      BY <1>0, <1>1 DEF SelectionTypeOK, AskedFrame
  <2>2. position' \in 0 .. Len(Included)'
      BY <1>0, <1>1, <1>2 DEF AskedFrame, SelectionTypeOK
  <2> QED
      BY <1>0, <1>2, <1>4, <1>5, <2>1, <2>2 DEF SelectionTypeOK
<1>8. NothingElse'
  <2>1. ToSet(walk') \subseteq Walked
      BY <1>0, <1>2, <1>4 DEF NothingElse
  <2>2. /\ ToSet(queue') \cap Files \subseteq Direct
        /\ \A e \in ToSet(queue') \cap Directories : ToSet(tree.walk[e]) \subseteq Walked
      BY <1>0, <1>4 DEF NothingElse
  <2> QED
      BY <1>0, <1>1, <1>2, <2>1, <2>2 DEF NothingElse, AskedFrame
<1>9. NoMatchLost'
  <2>1. Globbed' = Globbed
      BY <1>1, <1>2 DEF Globbed, AskedFrame
  <2> SUFFICES ASSUME NEW i \in Globbed
      PROVE
        /\ \A f \in ToSet(tree.glob[Included[i]]) \cap Files :
              f \in ToSet(queue') \/ (WantsDirect(program, f) => Has(program, f))
        /\ \A e \in ToSet(tree.glob[Included[i]]) \cap Directories :
              \/ e \in ToSet(queue')
              \/ \A f \in ToSet(tree.walk[e]) :
                    f \in ToSet(walk') \/ (WantsWalked(program, f) => Has(program, f))
      BY <1>1, <1>2, <2>1 DEF NoMatchLost, AskedFrame, Has
  <2>2. /\ \A f \in ToSet(tree.glob[Included[i]]) \cap Files :
              f \in ToSet(queue) \/ (WantsDirect(program, f) => Has(program, f))
        /\ \A e \in ToSet(tree.glob[Included[i]]) \cap Directories :
              \/ e \in ToSet(queue)
              \/ \A f \in ToSet(tree.walk[e]) :
                    f \in ToSet(walk) \/ (WantsWalked(program, f) => Has(program, f))
      BY <1>0, <1>2 DEF NoMatchLost
  <2>3. ASSUME NEW f \in ToSet(tree.glob[Included[i]]) \cap Files
        PROVE  f \in ToSet(queue') \/ (WantsDirect(program, f) => Has(program, f))
      BY <1>4, <1>6, <2>2
  <2>4. ASSUME NEW e \in ToSet(tree.glob[Included[i]]) \cap Directories
        PROVE  \/ e \in ToSet(queue')
               \/ \A f \in ToSet(tree.walk[e]) :
                    f \in ToSet(walk') \/ (WantsWalked(program, f) => Has(program, f))
      BY <1>2, <1>4, <1>5, <2>2
  <2> QED
      BY <2>3, <2>4
<1>10. AllWhenDone'
    BY <1>0, <1>1, <1>2 DEF AllWhenDone, AskedFrame
<1> QED
    BY <1>7, <1>8, <1>9, <1>10 DEF SelectionInv

LEMMA VisitStep == SelectionInv /\ Visit => SelectionInv'
<1> SUFFICES ASSUME SelectionInv, Visit
             PROVE  SelectionInv'
    OBVIOUS
<1> DEFINE e == Coming
           f == Coming.file
           out == Outcome(Coming)
<1>0. SelectionTypeOK /\ NothingElse /\ NoMatchLost /\ AllWhenDone
    BY DEF SelectionInv
<1>1. AskedFrame
    BY SameInputs DEF Visit
<1>2. /\ Running
      /\ walk # <<>> \/ (queue # <<>> /\ Head(queue) \notin Directories)
      /\ chosen' = [chosen EXCEPT ![program] = IF out = "take" THEN Append(@, f) ELSE @]
      /\ IF out = "error" THEN End("failed") ELSE Advance
    BY DEF Visit
<1>3. /\ f \in Files
      /\ f = IF walk # <<>> THEN Head(walk) ELSE Head(queue)
      /\ out = "take" =>
            /\ f \in WantedBy(program)
            /\ program = "upload" => Lines(exclude) \cap Bad = {}
      /\ /\ out # "error"
         /\ IF walk # <<>> THEN WantsWalked(program, f) ELSE WantsDirect(program, f)
         => out = "take"
    BY <1>0, <1>2, ComingMeans
<1>4. /\ program \in Programs /\ chosen \in [Programs -> Seq(Files)]
      /\ queue \in Seq(Files \cup Directories) /\ walk \in Seq(Files)
      /\ chosen[program] \in Seq(Files)
    BY <1>0, SelectionParts
<1> HIDE DEF f, out
<1>5. CASE out = "error"
  <2>1. chosen' = chosen
      BY <1>2, <1>4, <1>5
  <2> QED
      BY <1>2, <1>5, <2>1, EndStep DEF Visit
<1>6. CASE out # "error"
  <2>1. Advance
      BY <1>2, <1>6
  <2>2. program' = program /\ position' = position /\ status' = status
      BY <2>1 DEF Advance
  <2>3. /\ chosen' \in [Programs -> Seq(Files)]
        /\ \A q \in Programs : ToSet(chosen[q]) \subseteq ToSet(chosen'[q])
        /\ \A q \in Programs \ {program} : chosen'[q] = chosen[q]
        /\ out = "take" => ToSet(chosen'[program]) = ToSet(chosen[program]) \cup {f}
        /\ out # "take" => chosen' = chosen
    <3>1. CASE out = "take"
      <4>1. chosen' = [chosen EXCEPT ![program] = Append(chosen[program], f)]
          BY <1>2, <3>1
      <4>2. /\ Append(chosen[program], f) \in Seq(Files)
            /\ ToSet(Append(chosen[program], f)) = ToSet(chosen[program]) \cup {f}
          BY <1>3, <1>4, AppendedSet
      <4>3. chosen'[program] = Append(chosen[program], f)
          BY <1>4, <4>1
      <4>4. \A q \in Programs \ {program} : chosen'[q] = chosen[q]
          BY <1>4, <4>1
      <4>5. chosen' \in [Programs -> Seq(Files)]
          BY <1>4, <4>1, <4>2
      <4>6. ASSUME NEW q \in Programs
            PROVE  ToSet(chosen[q]) \subseteq ToSet(chosen'[q])
        <5>1. CASE q = program
            BY <4>2, <4>3, <5>1
        <5>2. CASE q # program
            BY <4>4, <5>2
        <5> QED
            BY <5>1, <5>2
      <4> QED
          BY <3>1, <4>2, <4>3, <4>4, <4>5, <4>6
    <3>2. CASE out # "take"
      <4>1. chosen' = chosen
          BY <1>2, <1>4, <3>2
      <4> QED
          BY <1>4, <3>2, <4>1
    <3> QED
        BY <3>1, <3>2
  \* What lies ahead after it, and what it was if it is not ahead any more.
  <2>4. /\ queue' \in Seq(Files \cup Directories) /\ walk' \in Seq(Files)
        /\ ToSet(queue') \subseteq ToSet(queue) /\ ToSet(walk') \subseteq ToSet(walk)
        /\ walk # <<>> => queue' = queue /\ ToSet(walk) \subseteq {f} \cup ToSet(walk')
        /\ walk = <<>> => /\ walk' = walk /\ ToSet(queue) \subseteq {f} \cup ToSet(queue')
    <3>1. CASE walk # <<>>
      <4>1. walk' = Tail(walk) /\ queue' = queue /\ f = Head(walk)
          BY <1>3, <2>1, <3>1 DEF Advance
      <4>2. Tail(walk) \in Seq(Files) /\ ToSet(walk) = {Head(walk)} \cup ToSet(Tail(walk))
          BY <1>4, <3>1, HeadAndTail
      <4> QED
          BY <1>4, <3>1, <4>1, <4>2
    <3>2. CASE walk = <<>>
      <4>1. queue' = Tail(queue) /\ walk' = walk /\ f = Head(queue)
          BY <1>3, <2>1, <3>2 DEF Advance
      <4>2. /\ Tail(queue) \in Seq(Files \cup Directories)
            /\ ToSet(queue) = {Head(queue)} \cup ToSet(Tail(queue))
          BY <1>2, <1>4, <3>2, HeadAndTail
      <4> QED
          BY <1>4, <3>2, <4>1, <4>2
    <3> QED
        BY <3>1, <3>2
  <2>5. SelectionTypeOK'
    <3>1. tree' \in Trees /\ include' \in Includes /\ exclude' \in Excludes
        BY <1>0, <1>1 DEF SelectionTypeOK, AskedFrame
    <3>2. position' \in 0 .. Len(Included)'
        BY <1>0, <1>1, <2>2 DEF AskedFrame, SelectionTypeOK
    <3> QED
        BY <1>0, <2>2, <2>3, <2>4, <3>1, <3>2 DEF SelectionTypeOK
  <2>6. NothingElse'
    <3>1. /\ ToSet(walk') \subseteq Walked
          /\ ToSet(queue') \cap Files \subseteq Direct
          /\ \A d \in ToSet(queue') \cap Directories : ToSet(tree.walk[d]) \subseteq Walked
        BY <1>0, <2>4 DEF NothingElse
    <3>2. ASSUME NEW q \in Programs
          PROVE  ToSet(chosen'[q]) \subseteq WantedBy(q)
      <4>0. ToSet(chosen[q]) \subseteq WantedBy(q)
          BY <1>0 DEF NothingElse
      <4>1. CASE q = program /\ out = "take"
          BY <1>3, <2>3, <4>0, <4>1
      <4>2. CASE q # program \/ out # "take"
          BY <2>3, <4>0, <4>2
      <4> QED
          BY <4>1, <4>2
    <3>3. chosen'["upload"] # <<>> => Lines(exclude) \cap Bad = {}
      <4>0. chosen["upload"] # <<>> => Lines(exclude) \cap Bad = {}
          BY <1>0 DEF NothingElse
      <4>1. CASE program = "upload" /\ out = "take"
          BY <1>3, <4>1
      <4>2. CASE program # "upload" \/ out # "take"
          BY <2>3, <4>0, <4>2 DEF Programs
      <4> QED
          BY <4>1, <4>2
    <3> QED
        BY <1>1, <3>1, <3>2, <3>3 DEF NothingElse, AskedFrame
  <2>7. NoMatchLost'
    <3>1. Globbed' = Globbed
        BY <1>1, <2>2 DEF Globbed, AskedFrame
    <3>2. \A x : Has(program, x) => x \in ToSet(chosen'[program])
        BY <1>4, <2>3 DEF Has
    <3> SUFFICES ASSUME NEW i \in Globbed
        PROVE
          /\ \A x \in ToSet(tree.glob[Included[i]]) \cap Files :
                \/ x \in ToSet(queue')
                \/ WantsDirect(program, x) => x \in ToSet(chosen'[program])
          /\ \A d \in ToSet(tree.glob[Included[i]]) \cap Directories :
                \/ d \in ToSet(queue')
                \/ \A x \in ToSet(tree.walk[d]) :
                      \/ x \in ToSet(walk')
                      \/ WantsWalked(program, x) => x \in ToSet(chosen'[program])
        BY <1>1, <2>2, <3>1 DEF NoMatchLost, AskedFrame, Has
    <3>3. /\ \A x \in ToSet(tree.glob[Included[i]]) \cap Files :
                x \in ToSet(queue) \/ (WantsDirect(program, x) => Has(program, x))
          /\ \A d \in ToSet(tree.glob[Included[i]]) \cap Directories :
                \/ d \in ToSet(queue)
                \/ \A x \in ToSet(tree.walk[d]) :
                      x \in ToSet(walk) \/ (WantsWalked(program, x) => Has(program, x))
        BY <1>0, <1>2 DEF NoMatchLost
    <3>4. out = "take" => f \in ToSet(chosen'[program])
        BY <2>3
    <3>5. CASE walk # <<>>
      <4>1. WantsWalked(program, f) => f \in ToSet(chosen'[program])
          BY <1>3, <1>6, <3>4, <3>5
      <4>2. queue' = queue /\ \A x \in ToSet(walk) : x = f \/ x \in ToSet(walk')
          BY <2>4, <3>5
      <4> QED
          BY <3>2, <3>3, <4>1, <4>2
    <3>6. CASE walk = <<>>
      <4>1. WantsDirect(program, f) => f \in ToSet(chosen'[program])
          BY <1>3, <1>6, <3>4, <3>6
      <4>2. walk' = walk /\ \A x \in ToSet(queue) : x = f \/ x \in ToSet(queue')
          BY <2>4, <3>6
      <4>3. f \notin Directories
          BY <1>3, TreesAssumption
      <4> QED
          BY <3>2, <3>3, <4>1, <4>2, <4>3
    <3> QED
        BY <3>5, <3>6
  <2>8. AllWhenDone'
    <3> SUFFICES ASSUME NEW q \in Programs, status[q] = "done"
                 PROVE  WantedBy(q) \subseteq ToSet(chosen'[q])
        BY <1>1, <2>2 DEF AllWhenDone, AskedFrame
    <3> QED
        BY <1>0, <2>3 DEF AllWhenDone
  <2> QED
      BY <2>5, <2>6, <2>7, <2>8 DEF SelectionInv
<1> QED
    BY <1>5, <1>6

LEMMA FinishStep == SelectionInv /\ Finish => SelectionInv'
<1> SUFFICES ASSUME SelectionInv, Finish
             PROVE  SelectionInv'
    OBVIOUS
<1>0. SelectionTypeOK /\ NoMatchLost
    BY DEF SelectionInv
<1>1. Running /\ queue = <<>> /\ walk = <<>> /\ position = Len(Included) /\ End("done")
    BY DEF Finish
<1>2. ToSet(queue) = {} /\ ToSet(walk) = {}
    BY <1>1, NothingInEmpty
<1>3. \A i \in 1 .. Len(Included) : Included[i] \notin Bad \cup {EmptyLine} => i \in Globbed
    BY <1>1 DEF Globbed
<1>4. program \in Programs
    BY <1>0, SelectionParts
<1>5. ASSUME NEW f \in Direct, WantsDirect(program, f)
      PROVE  Has(program, f)
  <2>1. PICK i \in 1 .. Len(Included) :
           /\ Included[i] \notin Bad \cup {EmptyLine}
           /\ f \in ToSet(tree.glob[Included[i]]) \cap Files
      BY <1>0, AskedFrom
  <2> QED
      BY <1>0, <1>1, <1>2, <1>3, <1>5, <2>1 DEF NoMatchLost
<1>6. ASSUME NEW f \in Walked, WantsWalked(program, f)
      PROVE  Has(program, f)
  <2>1. PICK i \in 1 .. Len(Included) :
           /\ Included[i] \notin Bad \cup {EmptyLine}
           /\ \E d \in ToSet(tree.glob[Included[i]]) \cap Directories :
                 f \in ToSet(tree.walk[d])
      BY <1>0, AskedFrom
  <2>2. PICK d \in ToSet(tree.glob[Included[i]]) \cap Directories : f \in ToSet(tree.walk[d])
      BY <2>1
  <2> QED
      BY <1>0, <1>1, <1>2, <1>3, <1>6, <2>1, <2>2 DEF NoMatchLost
<1>7. WantedBy(program) \subseteq ToSet(chosen[program])
  <2>1. ASSUME NEW f \in WantedBy(program)
        PROVE  \/ f \in Direct /\ WantsDirect(program, f)
               \/ f \in Walked /\ WantsWalked(program, f)
      BY <1>4 DEF WantedBy, ToBePut, WantsDirect, WantsWalked, Programs
  <2> QED
      BY <1>5, <1>6, <2>1 DEF Has
<1> QED
    BY <1>1, <1>7, EndStep DEF Finish

LEMMA SelectStep == SelectionInv /\ Select => SelectionInv'
BY NextIncludeStep, EnterDirectoryStep, VisitStep, FinishStep DEF Select

LEMMA SelectionStutter == SelectionInv /\ UNCHANGED selection => SelectionInv'
<1> SUFFICES ASSUME SelectionInv, UNCHANGED selection
             PROVE  SelectionInv'
    OBVIOUS
<1>1. AskedFrame
    BY SameInputs DEF inputs, selection
<1>2. UNCHANGED selection
    OBVIOUS
<1> USE <1>1, <1>2 DEF selection
<1>3. SelectionTypeOK'
    BY DEF SelectionInv, SelectionTypeOK, AskedFrame
<1>4. NothingElse'
    BY DEF SelectionInv, NothingElse, AskedFrame
<1>5. NoMatchLost'
  <2>1. Globbed' = Globbed /\ Running' = Running
      BY DEF Globbed, Running, AskedFrame
  <2> QED
      BY <2>1 DEF SelectionInv, NoMatchLost, AskedFrame, Has
<1>6. AllWhenDone'
    BY DEF SelectionInv, AllWhenDone, AskedFrame
<1> QED
    BY <1>3, <1>4, <1>5, <1>6 DEF SelectionInv

LEMMA SelectionStart == SelectionInit => SelectionInv
<1> SUFFICES ASSUME SelectionInit
             PROVE  SelectionInv
    OBVIOUS
<1>1. SelectionTypeOK
  <2>1. include \in Seq(Patterns) /\ Dot \in Patterns
      BY PatternsAssumption DEF SelectionInit
  <2>2. Included \in Seq(Patterns)
    <3>1. <<Dot>> \in Seq(Patterns)
        BY <2>1
    <3> QED
        BY <2>1, <3>1 DEF Included
  <2>3. Len(Included) \in Nat
      BY <2>2, LenProperties
  <2>4. <<>> \in Seq(Files) /\ <<>> \in Seq(Files \cup Directories)
      OBVIOUS
  <2> QED
      BY <2>3, <2>4 DEF SelectionInit, SelectionTypeOK, Programs
<1>2. NothingElse
    BY NothingInEmpty DEF SelectionInit, NothingElse, Programs
<1>3. NoMatchLost
  <2>1. Globbed = {}
      BY DEF SelectionInit, Globbed
  <2> QED
      BY <2>1 DEF NoMatchLost
<1>4. AllWhenDone
    BY DEF SelectionInit, AllWhenDone
<1> QED
    BY <1>1, <1>2, <1>3, <1>4 DEF SelectionInv
-----------------------------------------------------------------------------
(***************************************************************************)
(* CacheControl.                                                           *)
(***************************************************************************)
\* The last of the lines parsed so far that names the pattern says its value.
ValueOf(l) == IF l.keys = <<Star>> THEN l.value ELSE Trim(l.value)

Latest(i, p) ==
    /\ i \in 1 .. line /\ Names(formats[i], p)
    /\ \A j \in 1 .. line : Names(formats[j], p) => j <= i

MapSoFar ==
    stage = "parse" =>
       /\ \A p \in DOMAIN mapping :
             \E i \in 1 .. line : Latest(i, p) /\ mapping[p] = ValueOf(formats[i])
       /\ \A i \in 1 .. line : \A p \in CachePatterns \cup {Star} :
             Names(formats[i], p) => p \in DOMAIN mapping

MapSettled ==
    stage # "parse" =>
       /\ DOMAIN mapping = {p \in CachePatterns : Given(p) # {}}
       /\ \A p \in DOMAIN mapping : mapping[p] = Asked(p)
       /\ default = IF Given(Star) # {} THEN Asked(Star) ELSE NoValue

\* The iteration, once it has begun, has passed over no pattern that matches.
NotPassed ==
    /\ stage = "parse" => left = {}
    /\ stage = "match" => {p \in DOMAIN mapping : p \in Matching(key)} \subseteq left
    /\ stage = "put" => value \in Candidates(key)

CacheInv == CacheTypeOK /\ MapSoFar /\ MapSettled /\ NotPassed


\* What the lines of CACHE_CONTROL are, and the values they give.
LEMMA LinesTyped ==
    ASSUME CacheTypeOK
    PROVE  /\ Len(formats) \in Nat
           /\ \A i \in 1 .. Len(formats) :
                 /\ formats[i] \in FormatLines
                 /\ formats[i].keys \in Seq(CachePatterns \cup {Star})
                 /\ Len(formats[i].keys) \in Nat
                 /\ \A j \in 1 .. Len(formats[i].keys) :
                       formats[i].keys[j] \in CachePatterns \cup {Star}
                 /\ ValueOf(formats[i]) \in Values
<1>1. formats \in Seq(FormatLines)
    BY FormatsAssumption DEF CacheTypeOK
<1>2. Len(formats) \in Nat /\ \A i \in 1 .. Len(formats) : formats[i] \in FormatLines
    BY <1>1, LenProperties, ElementOfSeq
<1>3. ASSUME NEW l \in FormatLines
      PROVE  /\ l.keys \in Seq(CachePatterns \cup {Star}) /\ Len(l.keys) \in Nat
             /\ \A j \in 1 .. Len(l.keys) : l.keys[j] \in CachePatterns \cup {Star}
             /\ ValueOf(l) \in Values
  <2>1. l.keys \in Seq(CachePatterns \cup {Star}) /\ l.value \in Values
      BY DEF FormatLines
  <2>2. Len(l.keys) \in Nat
        /\ \A j \in 1 .. Len(l.keys) : l.keys[j] \in CachePatterns \cup {Star}
      BY <2>1, LenProperties, ElementOfSeq
  <2>3. Trim(l.value) \in Values
      BY <2>1 DEF Trim, Values
  <2> QED
      BY <2>1, <2>2, <2>3 DEF ValueOf
<1> QED
    BY <1>2, <1>3

\* The patterns that match a key, in the order of the code or not.
LEMMA MatchingMeans ==
    ASSUME NEW k \in Keys
    PROVE  Matching(k) = Matches[k] \cup BaseMatches[k] /\ Matching(k) \subseteq CachePatterns
BY CachePatternsAssumption DEF Matching

\* What is asked for is the value of the last of all the lines.
LEMMA LatestAsked ==
    ASSUME CacheTypeOK, line = Len(formats), NEW i, NEW p, Latest(i, p)
    PROVE  Given(p) # {} /\ Asked(p) = ValueOf(formats[i])
<1> DEFINE last == CHOOSE n \in Given(p) : \A j \in Given(p) : j <= n
<1>1. i \in Given(p) /\ \A j \in Given(p) : j <= i
    BY DEF Latest, Given
<1>2. Given(p) \subseteq Nat
    BY DEF Given
<1>3. last \in Given(p) /\ \A j \in Given(p) : j <= last
    BY <1>1
<1>4. last = i
  <2> HIDE DEF last
  <2>1. last <= i /\ i <= last /\ last \in Nat /\ i \in Nat
      BY <1>1, <1>2, <1>3
  <2> QED
      BY <2>1
<1>5. Asked(p) = ValueOf(formats[last])
    BY DEF Asked, ValueOf
<1> QED
    BY <1>1, <1>4, <1>5

LEMMA CacheStart == CacheInit => CacheInv
<1> SUFFICES ASSUME CacheInit
             PROVE  CacheInv
    OBVIOUS
<1>1. DOMAIN mapping = {} /\ line = 0 /\ stage = "parse" /\ formats \in Formats
    BY DEF CacheInit, EmptyMap
<1>2. Len(formats) \in Nat
    BY <1>1, FormatsAssumption, LenProperties
<1>3. NoValue \in Values
    BY DEF NoValue, Values
<1>4. AnyKey \in Keys
    BY CachePatternsAssumption DEF AnyKey
<1>5. CacheTypeOK
    BY <1>1, <1>2, <1>3, <1>4 DEF CacheInit, CacheTypeOK
<1>6. MapSoFar
    BY <1>1 DEF MapSoFar
<1>7. MapSettled /\ NotPassed
    BY <1>1 DEF CacheInit, MapSettled, NotPassed
<1> QED
    BY <1>5, <1>6, <1>7 DEF CacheInv

(***************************************************************************)
(* The steps of CacheControl.                                              *)
(***************************************************************************)
LEMMA ParseLineStep == CacheInv /\ ParseLine => CacheInv'
<1> SUFFICES ASSUME CacheInv, ParseLine
             PROVE  CacheInv'
    OBVIOUS
<1> DEFINE n == line + 1
           l == formats[n]
           named == {l.keys[i] : i \in 1 .. Len(l.keys)}
<1>0. CacheTypeOK /\ MapSoFar
    BY DEF CacheInv
<1>1. /\ stage = "parse" /\ stage' = "parse" /\ line < Len(formats) /\ line' = n
      /\ mapping' = IF Usable(l) THEN Entered(mapping, l) ELSE mapping
      /\ formats' = formats /\ default' = default /\ key' = key
      /\ left' = left /\ value' = value
    BY DEF ParseLine
<1>2. line \in Nat /\ line <= Len(formats) /\ Len(formats) \in Nat
    BY <1>0, LinesTyped DEF CacheTypeOK
<1>3. n \in 1 .. Len(formats) /\ 1 .. n = 1 .. line \cup {n}
    BY <1>1, <1>2
<1>4. named \subseteq CachePatterns \cup {Star} /\ ValueOf(l) \in Values
    BY <1>0, <1>3, LinesTyped
<1>5. \A p : Names(l, p) <=> Usable(l) /\ p \in named
    BY DEF Names
<1>6. Usable(l) => /\ DOMAIN mapping' = DOMAIN mapping \cup named
                   /\ \A p \in named : mapping'[p] = ValueOf(l)
                   /\ \A p \in DOMAIN mapping \ named : mapping'[p] = mapping[p]
  <2> SUFFICES ASSUME Usable(l)
               PROVE  /\ DOMAIN mapping' = DOMAIN mapping \cup named
                      /\ \A p \in named : mapping'[p] = ValueOf(l)
                      /\ \A p \in DOMAIN mapping \ named : mapping'[p] = mapping[p]
      OBVIOUS
  <2>1. mapping' = [p \in DOMAIN mapping \cup named |->
                       IF p \in named THEN ValueOf(l) ELSE mapping[p]]
      BY <1>1 DEF Entered, ValueOf
  <2> HIDE DEF named, l
  <2> QED
      BY <2>1
<1>7. ~Usable(l) => mapping' = mapping
    BY <1>1
<1> HIDE DEF named
<1>8. CacheTypeOK'
  <2>1. /\ DOMAIN mapping' \subseteq CachePatterns \cup {Star}
        /\ \A p \in DOMAIN mapping' : mapping'[p] \in Values
        /\ left \subseteq DOMAIN mapping'
    <3>1. /\ DOMAIN mapping \subseteq CachePatterns \cup {Star}
          /\ \A p \in DOMAIN mapping : mapping[p] \in Values
          /\ left \subseteq DOMAIN mapping
        BY <1>0 DEF CacheTypeOK
    <3>2. CASE Usable(l)
        BY <1>4, <1>6, <3>1, <3>2
    <3>3. CASE ~Usable(l)
        BY <1>7, <3>1, <3>3
    <3> QED
        BY <3>2, <3>3
  <2>2. line' \in 0 .. Len(formats')
      BY <1>1, <1>2, <1>3
  <2> HIDE DEF n, l
  <2> QED
      BY <1>0, <1>1, <2>1, <2>2 DEF CacheTypeOK
<1>9. MapSoFar'
  <2>1. ASSUME NEW p \in DOMAIN mapping'
        PROVE  \E i \in 1 .. n : /\ Names(formats[i], p)
                                 /\ \A j \in 1 .. n : Names(formats[j], p) => j <= i
                                 /\ mapping'[p] = ValueOf(formats[i])
    <3>1. CASE Names(l, p)
      <4>1. mapping'[p] = ValueOf(formats[n])
          BY <1>5, <1>6, <3>1
      <4>2. n \in 1 .. n /\ \A j \in 1 .. n : j <= n
          BY <1>2
      <4> QED
          BY <3>1, <4>1, <4>2
    <3>2. CASE ~Names(l, p)
      <4>1. p \in DOMAIN mapping /\ mapping'[p] = mapping[p]
          BY <1>5, <1>6, <1>7, <3>2
      <4>2. PICK i \in 1 .. line : Latest(i, p) /\ mapping[p] = ValueOf(formats[i])
          BY <1>0, <1>1, <4>1 DEF MapSoFar
      <4>3. \A j \in 1 .. n : Names(formats[j], p) => j \in 1 .. line
          BY <1>3, <3>2
      <4> QED
          BY <1>3, <4>1, <4>2, <4>3 DEF Latest
    <3> QED
        BY <3>1, <3>2
  <2>2. ASSUME NEW i \in 1 .. n, NEW p \in CachePatterns \cup {Star}, Names(formats[i], p)
        PROVE  p \in DOMAIN mapping'
    <3>1. CASE i = n
        BY <1>5, <1>6, <2>2, <3>1
    <3>2. CASE i # n
      <4>1. p \in DOMAIN mapping
          BY <1>0, <1>1, <1>3, <2>2, <3>2 DEF MapSoFar
      <4> QED
          BY <1>6, <1>7, <4>1
    <3> QED
        BY <3>1, <3>2
  <2> HIDE DEF n
  <2> QED
      BY <1>1, <2>1, <2>2 DEF MapSoFar, Latest
<1>10. MapSettled' /\ NotPassed'
    BY <1>1 DEF MapSettled, NotPassed, CacheInv
<1> QED
    BY <1>8, <1>9, <1>10 DEF CacheInv

LEMMA TakeDefaultStep == CacheInv /\ TakeDefault => CacheInv' /\ stage' = "upload"
<1> SUFFICES ASSUME CacheInv, TakeDefault
             PROVE  CacheInv' /\ stage' = "upload"
    OBVIOUS
<1>0. CacheTypeOK /\ MapSoFar
    BY DEF CacheInv
<1>1. /\ stage = "parse" /\ line = Len(formats) /\ stage' = "upload"
      /\ default' = IF Star \in DOMAIN mapping THEN mapping[Star] ELSE NoValue
      /\ DOMAIN mapping' = DOMAIN mapping \ {Star}
      /\ \A p \in DOMAIN mapping' : mapping'[p] = mapping[p]
      /\ formats' = formats /\ line' = line /\ key' = key /\ left' = left /\ value' = value
    BY DEF TakeDefault, WithoutDefault
<1>2. \A p : Given(p)' = Given(p) /\ Asked(p)' = Asked(p)
    BY <1>1 DEF Given, Asked
<1>3. ASSUME NEW p \in DOMAIN mapping
      PROVE  p \in CachePatterns \cup {Star} /\ Given(p) # {} /\ mapping[p] = Asked(p)
  <2>1. PICK i \in 1 .. line : Latest(i, p) /\ mapping[p] = ValueOf(formats[i])
      BY <1>0, <1>1 DEF MapSoFar
  <2> QED
      BY <1>0, <1>1, <2>1, LatestAsked DEF CacheTypeOK
<1>4. ASSUME NEW p \in CachePatterns \cup {Star}, Given(p) # {}
      PROVE  p \in DOMAIN mapping
    BY <1>0, <1>1, <1>4 DEF MapSoFar, Given
<1>5. Star \notin CachePatterns /\ left = {}
    BY <1>1, CachePatternsAssumption DEF CacheInv, NotPassed
<1>6. CacheTypeOK'
  <2>1. default' \in Values
    <3>1. NoValue \in Values
        BY DEF NoValue, Values
    <3> QED
        BY <1>0, <1>1, <3>1 DEF CacheTypeOK
  <2>2. Star \notin DOMAIN mapping'
      BY <1>1
  <2> QED
      BY <1>0, <1>1, <1>5, <2>1, <2>2 DEF CacheTypeOK
<1>7. MapSettled'
  <2>1. DOMAIN mapping' = {p \in CachePatterns : Given(p) # {}}
      BY <1>1, <1>3, <1>4, <1>5
  <2>2. \A p \in DOMAIN mapping' : mapping'[p] = Asked(p)
      BY <1>1, <1>3
  <2>3. default' = IF Given(Star) # {} THEN Asked(Star) ELSE NoValue
      BY <1>1, <1>3, <1>4
  <2> QED
      BY <1>2, <2>1, <2>2, <2>3 DEF MapSettled
<1>8. MapSoFar' /\ NotPassed'
    BY <1>1 DEF MapSoFar, NotPassed
<1> QED
    BY <1>1, <1>6, <1>7, <1>8 DEF CacheInv

\* What the lines ask for depends on the lines alone.
LEMMA SameLines ==
    ASSUME UNCHANGED formats
    PROVE  /\ \A p : Given(p)' = Given(p) /\ Asked(p)' = Asked(p)
           /\ \A k : Candidates(k)' = Candidates(k)
<1>1. \A p : Given(p)' = Given(p) /\ Asked(p)' = Asked(p)
    BY DEF Given, Asked
<1> QED
    BY <1>1 DEF Candidates

LEMMA LookUpStep == CacheInv /\ (\E k \in Keys : LookUp(k)) => CacheInv'
<1> SUFFICES ASSUME CacheInv, NEW k \in Keys, LookUp(k)
             PROVE  CacheInv'
    OBVIOUS
<1>1. /\ stage = "upload" /\ stage' = "match" /\ key' = k /\ left' = DOMAIN mapping
      /\ formats' = formats /\ line' = line /\ mapping' = mapping /\ default' = default
      /\ value' = value
    BY DEF LookUp, config
<1>2. CacheTypeOK'
    BY <1>1 DEF CacheInv, CacheTypeOK
<1>3. MapSettled'
    BY <1>1, SameLines DEF CacheInv, MapSettled
<1>4. MapSoFar' /\ NotPassed'
    BY <1>1 DEF MapSoFar, NotPassed
<1> QED
    BY <1>2, <1>3, <1>4 DEF CacheInv

LEMMA TryPatternStep == CacheInv /\ (\E p : TryPattern(p)) => CacheInv'
<1> SUFFICES ASSUME CacheInv, NEW p, TryPattern(p)
             PROVE  CacheInv'
    OBVIOUS
<1>1. /\ stage = "match" /\ p \in left
      /\ formats' = formats /\ line' = line /\ mapping' = mapping /\ default' = default
      /\ key' = key
    BY DEF TryPattern, config
<1>2. key \in Keys /\ left \subseteq DOMAIN mapping
    BY DEF CacheInv, CacheTypeOK
<1>3. MapSettled /\ MapSettled'
  <2>1. stage' # "parse"
      BY <1>1 DEF TryPattern
  <2> QED
      BY <1>1, <2>1, SameLines DEF CacheInv, MapSettled
<1>4. CASE p \in Matching(key)
  <2>1. value' = mapping[p] /\ stage' = "put" /\ left' = left
      BY <1>4 DEF TryPattern
  <2>2. CacheTypeOK'
      BY <1>1, <1>2, <2>1 DEF CacheInv, CacheTypeOK
  <2>3. p \in Matches[key] \cup BaseMatches[key] /\ Given(p) # {} /\ mapping[p] = Asked(p)
      BY <1>1, <1>2, <1>3, <1>4, MatchingMeans DEF MapSettled
  <2>4. value' \in Candidates(key)
      BY <2>1, <2>3 DEF Candidates
  <2>5. MapSoFar' /\ NotPassed'
      BY <1>1, <2>1, <2>4, SameLines DEF MapSoFar, NotPassed
  <2> QED
      BY <1>3, <2>2, <2>5 DEF CacheInv
<1>5. CASE p \notin Matching(key)
  <2>1. value' = value /\ stage' = stage /\ left' = left \ {p}
      BY <1>5 DEF TryPattern, PassOver
  <2>2. CacheTypeOK'
      BY <1>1, <1>2, <2>1 DEF CacheInv, CacheTypeOK
  <2>3. Matching(key)' = Matching(key)
      BY <1>1 DEF Matching
  <2>4. MapSoFar' /\ NotPassed'
      BY <1>1, <1>5, <2>1, <2>3 DEF CacheInv, MapSoFar, NotPassed
  <2> QED
      BY <1>3, <2>2, <2>4 DEF CacheInv
<1> QED
    BY <1>4, <1>5

LEMMA NoPatternStep == CacheInv /\ NoPattern => CacheInv'
<1> SUFFICES ASSUME CacheInv, NoPattern
             PROVE  CacheInv'
    OBVIOUS
<1>1. /\ stage = "match" /\ left = {} /\ value' = default /\ stage' = "put"
      /\ formats' = formats /\ line' = line /\ mapping' = mapping /\ default' = default
      /\ key' = key /\ left' = left
    BY DEF NoPattern, config
<1>2. key \in Keys
    BY DEF CacheInv, CacheTypeOK
<1>3. MapSettled /\ MapSettled'
    BY <1>1, SameLines DEF CacheInv, MapSettled
<1>4. CacheTypeOK'
    BY <1>1 DEF CacheInv, CacheTypeOK
<1>5. {p \in Matches[key] \cup BaseMatches[key] : Given(p) # {}} = {}
  <2>1. \A p \in Matches[key] \cup BaseMatches[key] :
           p \in CachePatterns /\ p \in Matching(key)
      BY <1>2, MatchingMeans
  <2>2. DOMAIN mapping = {p \in CachePatterns : Given(p) # {}}
      BY <1>1, <1>3 DEF MapSettled
  <2>3. {p \in DOMAIN mapping : p \in Matching(key)} = {}
      BY <1>1 DEF CacheInv, NotPassed
  <2> QED
      BY <2>1, <2>2, <2>3
<1>6. value' \in Candidates(key)
  <2>1. default = IF Given(Star) # {} THEN Asked(Star) ELSE NoValue
      BY <1>1, <1>3 DEF MapSettled
  <2> QED
      BY <1>1, <1>5, <2>1 DEF Candidates
<1>7. MapSoFar' /\ NotPassed'
    BY <1>1, <1>6, SameLines DEF MapSoFar, NotPassed
<1> QED
    BY <1>3, <1>4, <1>7 DEF CacheInv

\* What becomes of the object does not touch the map.
LEMMA CacheStage ==
    ASSUME CacheInv, UNCHANGED <<config, key, left, value>>,
           \/ stage' = stage
           \/ stage # "parse" /\ stage' \in {"upload", "end"}
    PROVE  CacheInv'
<1>1. /\ formats' = formats /\ line' = line /\ mapping' = mapping /\ default' = default
      /\ key' = key /\ left' = left /\ value' = value
    BY DEF config
<1>2. CacheTypeOK'
    BY <1>1 DEF CacheInv, CacheTypeOK
<1>3. MapSoFar'
  <2>1. \A i, p : Latest(i, p)' = Latest(i, p)
      BY <1>1 DEF Latest
  <2>2. stage' = "parse" => stage = "parse"
      OBVIOUS
  <2> QED
      BY <1>1, <2>1, <2>2 DEF CacheInv, MapSoFar
<1>4. MapSettled'
  <2>1. stage' # "parse" => stage # "parse"
      OBVIOUS
  <2> QED
      BY <1>1, <2>1, SameLines DEF CacheInv, MapSettled
<1>5. NotPassed'
  <2>1. Matching(key)' = Matching(key)
      BY <1>1 DEF Matching
  <2>2. stage' \in {"parse", "match", "put"} => stage' = stage
      OBVIOUS
  <2>3. Candidates(key)' = Candidates(key)
    <3>1. \A p : Given(p)' = Given(p) /\ Asked(p)' = Asked(p)
        BY <1>1, SameLines
    <3> QED
        BY <1>1, <3>1 DEF Candidates
  <2> QED
      BY <1>1, <2>1, <2>2, <2>3 DEF CacheInv, NotPassed
<1> QED
    BY <1>2, <1>3, <1>4, <1>5 DEF CacheInv
-----------------------------------------------------------------------------
(***************************************************************************)
(* PutFiles.                                                               *)
(***************************************************************************)
\* The files that have been put, and the one that is being put.
PutsInv ==
    /\ round \in 1 .. Rounds
    /\ puts \in 0 .. Len(taken)
    /\ program = "function" => stage = "parse" /\ status["upload"] = "running"
    /\ stage = "parse" => taken = <<>>
    /\ stage \in {"match", "put"} => puts < Len(taken) /\ key = KeyOf[taken[puts + 1]]
    /\ status["upload"] = "done" => puts = Len(taken)
    /\ \A i \in 1 .. puts : KeyOf[taken[i]] \in DOMAIN object

\* What is in the bucket, and why.
BucketInv ==
    /\ DOMAIN object \subseteq {KeyOf[f] : f \in ToBePut}
    /\ DOMAIN object # {} => Lines(exclude) \cap Bad = {}
    /\ \A k \in DOMAIN object : object[k] \in Candidates(k) \cap Values

RunInv == TokenInv /\ SelectionInv /\ CacheInv /\ PutsInv /\ BucketInv

\* The files an upload has taken.
LEMMA TakenTyped ==
    ASSUME SelectionInv
    PROVE  /\ taken \in Seq(Files) /\ Len(taken) \in Nat
           /\ \A i \in 1 .. Len(taken) : taken[i] \in Files \cap ToBePut
           /\ taken # <<>> => Lines(exclude) \cap Bad = {}
           /\ status["upload"] = "done" =>
                 \A f \in ToBePut : \E i \in 1 .. Len(taken) : taken[i] = f
<1> USE DEF taken
<1>1. taken \in Seq(Files)
    BY SelectionParts DEF SelectionInv, Programs
<1>2. /\ Len(taken) \in Nat /\ ToSet(taken) = {taken[i] : i \in 1 .. Len(taken)}
      /\ \A i \in 1 .. Len(taken) : taken[i] \in Files
    BY <1>1, LenProperties, ElementOfSeq DEF ToSet
<1>3. /\ ToSet(taken) \subseteq ToBePut
      /\ taken # <<>> => Lines(exclude) \cap Bad = {}
      /\ status["upload"] = "done" => ToBePut \subseteq ToSet(taken)
    BY DEF SelectionInv, NothingElse, AllWhenDone, WantedBy, Programs
<1> QED
    BY <1>1, <1>2, <1>3

\* What a step of Select does to the upload.
LEMMA SelectFrame ==
    ASSUME SelectionInv, Select
    PROVE  /\ UNCHANGED inputs
           /\ program' \in {program, "upload"}
           /\ program = "function" =>
                 taken' = taken /\ status'["upload"] = status["upload"]
           /\ \/ taken' = taken
              \/ status'["upload"] # "done" /\ \E f \in Files : taken' = Append(taken, f)
<1> USE DEF taken
<1>1. /\ program \in Programs /\ chosen \in [Programs -> Seq(Files)]
      /\ status \in [Programs -> {"running", "done", "failed"}]
      /\ "upload" \in Programs /\ "upload" # "function"
    BY SelectionParts DEF SelectionInv, Programs
<1>2. ASSUME NEW how, End(how)
      PROVE  /\ program' \in {program, "upload"}
             /\ program = "function" => status'["upload"] = status["upload"]
             /\ program = "upload" => status'["upload"] = how
    BY <1>1, <1>2 DEF End, Programs
<1>3. CASE NextInclude
  <2>1. UNCHANGED <<inputs, chosen>> /\ (End("failed") \/ UNCHANGED <<program, status>>)
      BY <1>3 DEF NextInclude
  <2> QED
      BY <1>2, <2>1
<1>4. CASE EnterDirectory
    BY <1>4 DEF EnterDirectory
<1>5. CASE Finish
    BY <1>2, <1>5 DEF Finish
<1>6. CASE Visit
  <2> DEFINE f == Coming.file
             out == Outcome(Coming)
  <2>1. /\ UNCHANGED inputs /\ Running
        /\ walk # <<>> \/ (queue # <<>> /\ Head(queue) \notin Directories)
        /\ chosen' = [chosen EXCEPT ![program] = IF out = "take" THEN Append(@, f) ELSE @]
        /\ IF out = "error" THEN End("failed") ELSE Advance
      BY <1>6 DEF Visit
  <2>2. f \in Files
      BY <2>1, ComingMeans DEF SelectionInv
  <2> HIDE DEF f, out
  <2>3. \/ End("failed")
        \/ program' = program /\ status' = status
      BY <2>1 DEF Advance
  <2>4. CASE program = "function"
    <3>1. taken' = taken
        BY <1>1, <2>1, <2>4
    <3> QED
        BY <1>2, <2>1, <2>3, <2>4, <3>1
  <2>5. CASE program = "upload"
    <3>1. taken' = IF out = "take" THEN Append(taken, f) ELSE taken
        BY <1>1, <2>1, <2>5
    <3>2. status'["upload"] # "done"
        BY <1>2, <2>1, <2>3, <2>5 DEF Running
    <3>3. program' \in {program, "upload"}
        BY <1>2, <2>3
    <3> QED
        BY <2>1, <2>2, <2>5, <3>1, <3>2, <3>3
  <2> QED
      BY <1>1, <2>4, <2>5 DEF Programs
<1> QED
    BY <1>3, <1>4, <1>5, <1>6 DEF Select

(***************************************************************************)
(* The steps of PutFiles, for each component in turn.                      *)
(***************************************************************************)
LEMMA SelectionPutStep ==
    ASSUME RunInv, [PutNext]_putVars
    PROVE  SelectionInv'
<1>0. SelectionInv /\ PutsInv
    BY DEF RunInv
<1>1. CASE SelectFiles
    BY <1>0, <1>1, SelectStep DEF SelectFiles
<1>2. CASE GiveUp
    BY <1>0, <1>2, EndStep DEF GiveUp, AfterPutError
<1>3. CASE NextRun
  <2>0. SelectionTypeOK /\ NothingElse /\ AllWhenDone
      BY <1>0 DEF SelectionInv
  <2>1. AskedFrame
      BY <1>3, SameInputs DEF NextRun
  <2>2. /\ program' = program /\ queue' = queue /\ walk' = walk /\ position' = 0
        /\ status' = [status EXCEPT !["upload"] = "running"]
        /\ chosen' = [chosen EXCEPT !["upload"] = <<>>]
      BY <1>3 DEF NextRun
  <2>3. /\ status \in [Programs -> {"running", "done", "failed"}]
        /\ chosen \in [Programs -> Seq(Files)]
        /\ Len(Included) \in Nat /\ "upload" \in Programs /\ <<>> \in Seq(Files)
      BY <2>0, SelectionParts DEF Programs
  <2>4. /\ chosen' \in [Programs -> Seq(Files)] /\ chosen'["upload"] = <<>>
        /\ \A q \in Programs \ {"upload"} : chosen'[q] = chosen[q]
      BY <2>2, <2>3
  <2>5. /\ status' \in [Programs -> {"running", "done", "failed"}]
        /\ status'["upload"] = "running"
        /\ \A q \in Programs \ {"upload"} : status'[q] = status[q]
      BY <2>2, <2>3
  <2>6. SelectionTypeOK'
    <3>1. tree' \in Trees /\ include' \in Includes /\ exclude' \in Excludes
        BY <2>0, <2>1 DEF SelectionTypeOK, AskedFrame
    <3>2. position' \in 0 .. Len(Included)'
        BY <2>1, <2>2, <2>3 DEF AskedFrame
    <3> QED
        BY <2>0, <2>2, <2>4, <2>5, <3>1, <3>2 DEF SelectionTypeOK
  <2>7. NothingElse'
    <3>1. \A q \in Programs : ToSet(chosen'[q]) \subseteq WantedBy(q)
        BY <2>0, <2>4, NothingInEmpty DEF NothingElse
    <3> QED
        BY <2>0, <2>1, <2>2, <2>4, <3>1 DEF NothingElse, AskedFrame
  <2>8. NoMatchLost'
    <3>1. Globbed' = {}
        BY <2>2 DEF Globbed
    <3> QED
        BY <3>1 DEF NoMatchLost
  <2>9. AllWhenDone'
    <3>1. \A q \in Programs : status'[q] = "done" => WantedBy(q) \subseteq ToSet(chosen'[q])
        BY <2>0, <2>4, <2>5 DEF AllWhenDone
    <3> QED
        BY <2>1, <3>1 DEF AllWhenDone, AskedFrame
  <2> QED
      BY <2>6, <2>7, <2>8, <2>9 DEF SelectionInv
<1>4. CASE UNCHANGED selection
    BY <1>0, <1>4, SelectionStutter
<1> QED
    BY <1>1, <1>2, <1>3, <1>4
       DEF PutNext, Process, ParseInputs, NextFile, FindValue, Request, PutAnswered,
           PutTransient, TimePasses, putVars

LEMMA CachePutStep ==
    ASSUME RunInv, [PutNext]_putVars
    PROVE  CacheInv'
<1>0. CacheInv /\ SelectionInv /\ PutsInv
    BY DEF RunInv
<1>1. CASE ParseInputs
    BY <1>0, <1>1, ParseLineStep, TakeDefaultStep DEF ParseInputs
<1>2. CASE NextFile
  <2>1. puts + 1 \in 1 .. Len(taken)
      BY <1>0, <1>2, TakenTyped DEF NextFile, PutsInv
  <2>2. KeyOf[taken[puts + 1]] \in Keys
      BY <1>0, <2>1, TakenTyped, KeyOfAssumption
  <2> QED
      BY <1>0, <1>2, <2>2, LookUpStep DEF NextFile
<1>3. CASE FindValue
    BY <1>0, <1>3, TryPatternStep, NoPatternStep DEF FindValue
<1>4. CASE PutAnswered
  <2>1. /\ UNCHANGED <<config, key, left, value>> /\ stage = "put"
        /\ stage' = stage \/ stage' = "upload"
      BY <1>4 DEF PutAnswered, config
  <2> QED
      BY <1>0, <2>1, CacheStage
<1>5. CASE GiveUp
  <2>1. /\ UNCHANGED <<config, key, left, value>> /\ stage = "put" /\ stage' = "end"
      BY <1>5 DEF GiveUp, AfterPutError, config
  <2> QED
      BY <1>0, <2>1, CacheStage
<1>6. CASE NextRun
  <2>1. /\ formats' = formats /\ stage' = "parse" /\ line' = 0 /\ mapping' = EmptyMap
        /\ default' = NoValue /\ key' = AnyKey /\ left' = {} /\ value' = NoValue
      BY <1>6 DEF NextRun
  <2>2. DOMAIN mapping' = {}
      BY <2>1 DEF EmptyMap
  <2>3. CacheTypeOK'
    <3>1. NoValue \in Values
        BY DEF NoValue, Values
    <3>2. AnyKey \in Keys
        BY CachePatternsAssumption DEF AnyKey
    <3>3. Len(formats) \in Nat /\ formats \in Formats
        BY <1>0, LinesTyped DEF CacheInv, CacheTypeOK
    <3> QED
        BY <2>1, <2>2, <3>1, <3>2, <3>3 DEF CacheTypeOK
  <2>4. MapSoFar' /\ MapSettled' /\ NotPassed'
      BY <2>1, <2>2 DEF MapSoFar, MapSettled, NotPassed
  <2> QED
      BY <2>3, <2>4 DEF CacheInv
<1>7. CASE UNCHANGED lookup
    BY <1>0, <1>7, CacheStage DEF lookup, config
<1> QED
    BY <1>1, <1>2, <1>3, <1>4, <1>5, <1>6, <1>7
       DEF PutNext, Process, SelectFiles, Request, PutTransient, TimePasses, own, putVars

LEMMA PutsStep ==
    ASSUME RunInv, [PutNext]_putVars
    PROVE  PutsInv'
<1>0. CacheInv /\ SelectionInv /\ PutsInv /\ BucketInv
    BY DEF RunInv
<1>1. /\ taken \in Seq(Files) /\ Len(taken) \in Nat
      /\ \A i \in 1 .. Len(taken) : taken[i] \in Files
      /\ program \in Programs /\ chosen \in [Programs -> Seq(Files)]
      /\ status \in [Programs -> {"running", "done", "failed"}]
    BY <1>0, TakenTyped, SelectionParts DEF SelectionInv
<1>2. puts \in Nat /\ puts <= Len(taken) /\ Rounds \in Nat
    BY <1>0, RoundsAssumption DEF PutsInv
<1>3. CASE SelectFiles
  <2>1. /\ program' \in {program, "upload"}
        /\ program = "function" =>
              taken' = taken /\ status'["upload"] = status["upload"]
        /\ \/ taken' = taken
           \/ status'["upload"] # "done" /\ \E f \in Files : taken' = Append(taken, f)
        /\ program = "upload" => stage = "upload" /\ puts = Len(taken)
      BY <1>0, <1>3, SelectFrame DEF SelectFiles
  <2>2. /\ stage' = stage /\ key' = key /\ puts' = puts /\ object' = object /\ round' = round
      BY <1>3 DEF SelectFiles, lookup, own
  <2>3. Len(taken') \in Nat /\ puts <= Len(taken') /\ \A i \in 1 .. puts : taken'[i] = taken[i]
    <3>1. CASE taken' = taken
        BY <1>1, <1>2, <3>1
    <3>2. CASE taken' # taken
      <4>1. PICK f \in Files : taken' = Append(taken, f)
          BY <2>1, <3>2
      <4>2. Len(taken') = Len(taken) + 1 /\ \A i \in 1 .. Len(taken) : taken'[i] = taken[i]
          BY <1>1, <4>1, AppendProperties
      <4> QED
          BY <1>1, <1>2, <4>2
    <3> QED
        BY <3>1, <3>2
  <2>4. CASE program = "function"
      BY <1>0, <1>2, <2>1, <2>2, <2>3, <2>4 DEF PutsInv
  <2>5. CASE program = "upload"
    <3>1. program' = "upload" /\ stage = "upload" /\ puts = Len(taken)
        BY <2>1, <2>5
    <3>2. status'["upload"] = "done" => puts = Len(taken')
        BY <2>1, <3>1
    <3> QED
        BY <1>0, <1>2, <2>2, <2>3, <3>1, <3>2 DEF PutsInv
  <2> QED
      BY <1>1, <2>4, <2>5 DEF Programs
<1>4. CASE ParseInputs
  <2>1. /\ program = "upload" /\ UNCHANGED <<selection, own>>
        /\ stage' \in {"parse", "upload"}
        /\ stage = "parse"
      BY <1>4 DEF ParseInputs, ParseLine, TakeDefault
  <2>2. /\ program' = program /\ taken' = taken /\ status' = status
        /\ puts' = puts /\ object' = object /\ round' = round
      BY <2>1 DEF selection, own, taken
  <2> QED
      BY <1>0, <2>1, <2>2 DEF PutsInv
<1>5. CASE NextFile
  <2>1. /\ UNCHANGED <<selection, own>> /\ puts < Len(taken)
        /\ key' = KeyOf[taken[puts + 1]] /\ stage' = "match" /\ stage = "upload"
      BY <1>5 DEF NextFile, LookUp
  <2>2. /\ program' = program /\ taken' = taken /\ status' = status
        /\ puts' = puts /\ object' = object /\ round' = round
      BY <2>1 DEF selection, own, taken
  <2> QED
      BY <1>0, <2>1, <2>2 DEF PutsInv
<1>6. CASE FindValue
  <2>1. /\ UNCHANGED <<selection, own>> /\ key' = key
        /\ stage = "match" /\ stage' \in {"match", "put"}
      BY <1>6 DEF FindValue, NoPattern, TryPattern
  <2>2. /\ program' = program /\ taken' = taken /\ status' = status
        /\ puts' = puts /\ object' = object /\ round' = round
      BY <2>1 DEF selection, own, taken
  <2> QED
      BY <1>0, <2>1, <2>2 DEF PutsInv
<1>7. CASE PutAnswered
  <2>1. /\ UNCHANGED <<selection, key, round>> /\ stage = "put"
        /\ \/ object' = WithObject /\ puts' = puts + 1 /\ stage' = "upload"
           \/ UNCHANGED <<object, puts, stage>>
      BY <1>7 DEF PutAnswered
  <2>2. program' = program /\ taken' = taken /\ status' = status
      BY <2>1 DEF selection, taken
  <2>3. puts < Len(taken) /\ key = KeyOf[taken[puts + 1]]
      BY <1>0, <2>1 DEF PutsInv
  <2>4. CASE object' = WithObject /\ puts' = puts + 1 /\ stage' = "upload"
    <3>1. DOMAIN object' = DOMAIN object \cup {key}
        BY <2>4 DEF WithObject
    <3>2. ASSUME NEW i \in 1 .. puts + 1
          PROVE  KeyOf[taken[i]] \in DOMAIN object'
        BY <1>0, <1>2, <2>3, <3>1 DEF PutsInv
    <3>3. status["upload"] # "done" /\ program # "function" /\ puts + 1 \in 0 .. Len(taken)
        BY <1>0, <1>1, <1>2, <2>1, <2>3 DEF PutsInv
    <3> QED
        BY <1>0, <2>1, <2>2, <2>4, <3>2, <3>3 DEF PutsInv
  <2>5. CASE UNCHANGED <<object, puts, stage>>
      BY <1>0, <2>1, <2>2, <2>5 DEF PutsInv
  <2> QED
      BY <2>1, <2>4, <2>5
<1>8. CASE PutTransient
  <2>1. /\ UNCHANGED <<selection, lookup, puts, round>>
        /\ object' = object \/ object' = WithObject
      BY <1>8 DEF PutTransient
  <2>2. /\ program' = program /\ taken' = taken /\ status' = status
        /\ stage' = stage /\ key' = key /\ puts' = puts /\ round' = round
      BY <2>1 DEF selection, lookup, taken
  <2>3. DOMAIN object \subseteq DOMAIN object'
      BY <2>1 DEF WithObject
  <2> QED
      BY <1>0, <2>2, <2>3 DEF PutsInv
<1>9. CASE GiveUp
  <2>1. /\ stage = "put" /\ stage' = "end" /\ End("failed")
        /\ chosen' = chosen /\ puts' = puts /\ object' = object /\ round' = round
      BY <1>9 DEF GiveUp, AfterPutError
  <2>2. program = "upload"
      BY <1>0, <1>1, <2>1 DEF PutsInv, Programs
  <2>3. program' = "upload" /\ status'["upload"] = "failed" /\ taken' = taken
      BY <1>1, <2>1, <2>2 DEF End, taken
  <2> QED
      BY <1>0, <2>1, <2>3 DEF PutsInv
<1>10. CASE NextRun
  <2>1. /\ Ran /\ round < Rounds /\ round' = round + 1
        /\ status' = [status EXCEPT !["upload"] = "running"]
        /\ chosen' = [chosen EXCEPT !["upload"] = <<>>]
        /\ puts' = 0 /\ stage' = "parse" /\ program' = program
      BY <1>10 DEF NextRun
  <2>2. taken' = <<>> /\ status'["upload"] = "running" /\ Len(taken') = 0
      BY <1>1, <2>1 DEF taken, Programs
  <2>3. round' \in 1 .. Rounds
      BY <1>0, <1>2, <2>1 DEF PutsInv
  <2> QED
      BY <2>1, <2>2, <2>3 DEF PutsInv
<1>11. CASE UNCHANGED <<selection, lookup, own>>
  <2>1. /\ program' = program /\ taken' = taken /\ status' = status
        /\ stage' = stage /\ key' = key /\ puts' = puts /\ object' = object /\ round' = round
      BY <1>11 DEF selection, lookup, own, taken
  <2> QED
      BY <1>0, <2>1 DEF PutsInv
<1> QED
    BY <1>3, <1>4, <1>5, <1>6, <1>7, <1>8, <1>9, <1>10, <1>11
       DEF PutNext, Process, Request, TimePasses, putVars

LEMMA BucketStep ==
    ASSUME RunInv, [PutNext]_putVars
    PROVE  BucketInv'
<1>0. CacheInv /\ SelectionInv /\ PutsInv /\ BucketInv
    BY DEF RunInv
<1>1. UNCHANGED inputs /\ UNCHANGED formats
  <2>1. CASE SelectFiles
      BY <1>0, <2>1, SelectFrame DEF SelectFiles, lookup
  <2>2. CASE UNCHANGED <<selection, formats>>
      BY <2>2 DEF selection, inputs
  <2>3. CASE GiveUp \/ NextRun
      BY <2>3 DEF GiveUp, AfterPutError, NextRun, config
  <2>4. CASE UNCHANGED <<selection, lookup>>
      BY <2>4 DEF selection, inputs, lookup
  <2>5. ParseInputs \/ NextFile \/ FindValue \/ PutAnswered => UNCHANGED <<selection, formats>>
      BY DEF ParseInputs, ParseLine, TakeDefault, NextFile, LookUp, FindValue, TryPattern,
             NoPattern, PutAnswered, config
  <2> QED
      BY <2>1, <2>2, <2>3, <2>4, <2>5
         DEF PutNext, Process, Request, PutTransient, TimePasses, putVars
<1>2. /\ ToBePut' = ToBePut /\ Lines(exclude)' = Lines(exclude)
      /\ \A k : Candidates(k)' = Candidates(k)
    BY <1>1, SameInputs, SameLines DEF AskedFrame
<1>3. object' = object \/ (stage = "put" /\ object' = WithObject)
    BY DEF PutNext, Process, SelectFiles, ParseInputs, NextFile, FindValue, Request, PutAnswered,
           PutTransient, GiveUp, NextRun, TimePasses, own, putVars
<1>4. CASE object' = object
    BY <1>0, <1>2, <1>4 DEF BucketInv
<1>5. CASE stage = "put" /\ object' = WithObject
  <2>1. key = KeyOf[taken[puts + 1]] /\ puts + 1 \in 1 .. Len(taken) /\ taken # <<>>
    <3>1. puts \in 0 .. Len(taken) /\ puts < Len(taken) /\ key = KeyOf[taken[puts + 1]]
        BY <1>0, <1>5 DEF PutsInv
    <3> QED
        BY <1>0, <3>1, TakenTyped
  <2>2. taken[puts + 1] \in ToBePut /\ Lines(exclude) \cap Bad = {}
      BY <1>0, <2>1, TakenTyped
  <2>3. value \in Candidates(key) \cap Values
      BY <1>0, <1>5 DEF CacheInv, CacheTypeOK, NotPassed
  <2>4. /\ DOMAIN object' = DOMAIN object \cup {key}
        /\ \A k \in DOMAIN object' : object'[k] = IF k = key THEN value ELSE object[k]
      BY <1>5 DEF WithObject
  <2>5. DOMAIN object' \subseteq {KeyOf[f] : f \in ToBePut}
      BY <1>0, <2>1, <2>2, <2>4 DEF BucketInv
  <2>6. \A k \in DOMAIN object' : object'[k] \in Candidates(k) \cap Values
      BY <1>0, <2>3, <2>4 DEF BucketInv
  <2> QED
      BY <1>2, <2>2, <2>5, <2>6 DEF BucketInv
<1> QED
    BY <1>3, <1>4, <1>5

LEMMA RunStart == PutInit => RunInv
<1> SUFFICES ASSUME PutInit
             PROVE  RunInv
    OBVIOUS
<1>1. TokenInv /\ SelectionInv /\ CacheInv
    BY TokenPutInit, SelectionStart, CacheStart DEF PutInit
<1>2. taken = <<>> /\ Len(taken) = 0
    BY DEF PutInit, SelectionInit, taken, Programs
<1>3. PutsInv
    BY <1>2, RoundsAssumption DEF PutInit, SelectionInit, CacheInit, PutsInv, Programs
<1>4. BucketInv
    BY DEF PutInit, BucketInv, EmptyMap
<1> QED
    BY <1>1, <1>3, <1>4 DEF RunInv

\* The invariant of the runs: the tokens, what is taken, what is found and
\* what is put, which rely on each other at every step.
THEOREM RunInvariant == PutSpec => []RunInv
<1>1. RunInv /\ [PutNext]_putVars => RunInv'
  <2> SUFFICES ASSUME RunInv, [PutNext]_putVars
               PROVE  RunInv'
      OBVIOUS
  <2>1. TokenInv'
      BY TokenPutStep DEF RunInv
  <2> QED
      BY <2>1, SelectionPutStep, CachePutStep, PutsStep, BucketStep DEF RunInv
<1> QED
    BY <1>1, RunStart, PTL DEF PutSpec

(***************************************************************************)
(* The variables of the runs are of the types stated.                      *)
(***************************************************************************)
THEOREM PutTypes == PutSpec => []PutTypeOK
<1>1. RunInv => PutTypeOK
  <2> SUFFICES ASSUME RunInv
               PROVE  PutTypeOK
      OBVIOUS
  <2>1. TypeOK /\ SelectionTypeOK /\ CacheTypeOK
      BY DEF RunInv, TokenInv, SelectionInv, CacheInv
  <2>2. ToBePut \subseteq Files
      BY DEF ToBePut, Regular
  <2>3. DOMAIN object \subseteq {KeyOf[f] : f \in Files}
      BY <2>2 DEF RunInv, BucketInv
  <2>4. puts \in 0 .. Len(taken) /\ round \in 1 .. Rounds
      BY DEF RunInv, PutsInv
  <2>5. \A k \in DOMAIN object : object[k] \in Values
      BY DEF RunInv, BucketInv
  <2> QED
      BY <2>1, <2>3, <2>4, <2>5 DEF PutTypeOK
<1> QED
    BY <1>1, RunInvariant, PTL

(***************************************************************************)
(* Every object has a Cache-Control value that the inputs ask for its key, *)
(* in whatever order the map is iterated and whatever the lines name       *)
(* (ParseCacheControlFormats, GetCacheControlValue).                       *)
(***************************************************************************)
THEOREM EveryValueAsked == PutSpec => []ValueAsked
<1>1. RunInv => ValueAsked
    BY DEF RunInv, BucketInv, ValueAsked
<1> QED
    BY <1>1, RunInvariant, PTL

(***************************************************************************)
(* The package and the bucket have what the same INCLUDE and EXCLUDE ask   *)
(* of each program, for any tree and any patterns, and all of it once the  *)
(* run has succeeded (zipSources, Upload).                                 *)
(***************************************************************************)
THEOREM FilesChosenAsAsked == PutSpec => []ChosenAsAsked
<1>1. RunInv => ChosenAsAsked
  <2> SUFFICES ASSUME RunInv
               PROVE  ChosenAsAsked
      OBVIOUS
  <2>0. SelectionInv /\ PutsInv /\ BucketInv
      BY DEF RunInv
  <2>1. ZippedAsAsked
    <3>1. ToSet(chosen["function"]) \subseteq WantedBy("function")
        BY <2>0 DEF SelectionInv, NothingElse, Programs
    <3>2. status["function"] = "done" => WantedBy("function") \subseteq ToSet(chosen["function"])
        BY <2>0 DEF SelectionInv, AllWhenDone, Programs
    <3> QED
        BY <3>1, <3>2 DEF ZippedAsAsked, WantedBy
  <2>2. ASSUME status["upload"] = "done", NEW f \in ToBePut
        PROVE  KeyOf[f] \in DOMAIN object
    <3>1. PICK i \in 1 .. Len(taken) : taken[i] = f
        BY <2>0, <2>2, TakenTyped
    <3> QED
        BY <2>0, <2>2, <3>1 DEF PutsInv
  <2>3. DOMAIN object \subseteq {KeyOf[f] : f \in ToBePut}
      BY <2>0 DEF BucketInv
  <2>4. Lines(exclude) \cap Bad # {} => DOMAIN object = {}
      BY <2>0 DEF BucketInv
  <2>5. PutAsAsked
      BY <2>2, <2>3, <2>4 DEF PutAsAsked
  <2> QED
      BY <2>1, <2>5 DEF ChosenAsAsked
<1> QED
    BY <1>1, RunInvariant, PTL
=============================================================================

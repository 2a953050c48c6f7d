--------------------------- MODULE RPCClientProofs ---------------------------
(***************************************************************************)
(* Theorems about RPCClient, for every value of its constants: every retry *)
(* bound, every width of a duration, every number of calls.                *)
(*                                                                         *)
(* None of the properties is inductive by itself.  FrameOK says what each  *)
(* program point of retryOnFailure knows; Bookkeeping ties requests and    *)
(* answers to the calls they belong to; Cancelled says what a server that  *)
(* honours cancellation still has to carry out.                            *)
(***************************************************************************)
EXTENDS RPCClient, FiniteSetTheorems, SequenceTheorems, TLAPS

(* Program points inside an attempt or before one that will be made.       *)
Attempting == {"backoff", "connect", "stub", "sent"}

FrameOK ==
    /\ pc \in Attempting => attempt <= RetryMax
    /\ pc # "idle" => Call <= MaxCalls /\ op \in Ops
    /\ pc # "sent" => answer = None

Inv == TypeOK /\ FrameOK

(* Calls that have been made.                                              *)
Made == IF pc # "idle" THEN 1..Call ELSE 1..Len(results)

Bookkeeping ==
    /\ \A q \in inflight : q.call \in Made
    /\ applied \subseteq Made
    /\ answer = "OK" => Call \in applied

(* The row after the operation o with payload v has been carried out.      *)
Effect(o, v) ==
    /\ o = "CreateLoadBalancer" => row.st # "none"
    /\ o = "UpdateLoadBalancer" => row.st = "live" /\ row.cfg = v
    /\ o = "DeleteLoadBalancer" => row.st = "gone"
    /\ o = "AllocateFloatingIp" => row.fip
    /\ o = "ReleaseFloatingIp" => ~row.fip

Cancelled ==
    ~late => /\ pc # "sent" => inflight = {}
             /\ pc = "sent" => inflight \subseteq {[call |-> Call, op |-> op, val |-> val]}
             /\ answer = "OK" => inflight = {} /\ Effect(op, val)

-----------------------------------------------------------------------------
(* Powers of two.  The prover knows nothing of them but that 2^n counts    *)
(* the subsets of a set with n elements.                                   *)

LEMMA PowerCounts ==
    ASSUME NEW a \in Nat
    PROVE  IsFiniteSet(SUBSET (1..a)) /\ Cardinality(SUBSET (1..a)) = 2^a
<1>1. IsFiniteSet(1..a) /\ Cardinality(1..a) = a
  BY FS_Interval
<1> QED BY <1>1, FS_SUBSET

LEMMA PowerPositive ==
    ASSUME NEW a \in Nat
    PROVE  2^a \in Nat /\ 2^a > 0
<1>1. IsFiniteSet(SUBSET (1..a)) /\ Cardinality(SUBSET (1..a)) = 2^a
  BY PowerCounts
<1>2. 2^a \in Nat
  BY <1>1, FS_CardinalityType
<1>3. 2^a # 0
  <2>1. SUBSET (1..a) # {}
    OBVIOUS
  <2> QED BY <2>1, <1>1, FS_EmptySet, Zenon
<1> QED BY <1>2, <1>3

LEMMA PowerMonotonic ==
    ASSUME NEW a \in Nat, NEW b \in Nat, a <= b
    PROVE  2^a <= 2^b
<1> DEFINE A == SUBSET (1..a)
           B == SUBSET (1..b)
<1>1. A \in SUBSET B
  OBVIOUS
<1>2. Cardinality(A) = 2^a /\ IsFiniteSet(B) /\ Cardinality(B) = 2^b
  BY PowerCounts
<1> HIDE DEF A, B
<1>3. Cardinality(A) <= Cardinality(B)
  BY <1>1, <1>2, FS_Subset
<1> QED BY <1>2, <1>3

(* A subset of 1..a+1 is one of 1..a, or one with a + 1 added.             *)
LEMMA PowerDoubles ==
    ASSUME NEW a \in Nat
    PROVE  2^(a + 1) = 2 * 2^a
<1> DEFINE S == SUBSET (1..a)
           T == {u \cup {a + 1} : u \in S}
           f == [u \in S |-> u \cup {a + 1}]
<1>1. SUBSET (1..(a + 1)) = S \cup T
  <2>1. ASSUME NEW u \in SUBSET (1..(a + 1)) PROVE u \in S \cup T
    <3>1. CASE a + 1 \in u
      <4>1. u \ {a + 1} \in S /\ u = (u \ {a + 1}) \cup {a + 1}
        BY <3>1
      <4> QED BY <4>1
    <3>2. CASE a + 1 \notin u
      BY <3>2
    <3> QED BY <3>1, <3>2
  <2>2. ASSUME NEW u \in S \cup T PROVE u \in SUBSET (1..(a + 1))
    OBVIOUS
  <2> QED BY <2>1, <2>2
<1>2. S \cap T = {}
  OBVIOUS
<1>3. f \in Bijection(S, T)
  <2>1. f \in [S -> T] /\ DOMAIN f = S
    OBVIOUS
  <2>2. \A u, v \in S : f[u] = f[v] => u = v
    OBVIOUS
  <2>3. \A t \in T : \E s \in S : f[s] = t
    OBVIOUS
  <2> HIDE DEF f, S, T
  <2> QED BY <2>1, <2>2, <2>3 DEF Bijection, Injection, Surjection, IsInjective
<1>4. IsFiniteSet(S) /\ Cardinality(S) = 2^a
  BY PowerCounts
<1>5. Cardinality(S \cup T) = 2^(a + 1)
  <2>1. a + 1 \in Nat
    OBVIOUS
  <2> QED BY <1>1, <2>1, PowerCounts
<1> HIDE DEF f, S, T
<1>6. IsFiniteSet(T) /\ Cardinality(T) = 2^a
  BY <1>3, <1>4, FS_Bijection DEF ExistsBijection
<1>7. Cardinality(S \cup T) = Cardinality(S) + Cardinality(T) - Cardinality(S \cap T)
  BY <1>4, <1>6, FS_Union
<1>8. Cardinality(S \cap T) = 0
  BY <1>2, FS_EmptySet
<1> QED BY <1>4, <1>5, <1>6, <1>7, <1>8, PowerPositive

-----------------------------------------------------------------------------
(* calculateBackoff.                                                       *)

LEMMA RetryMaxType == RetryMax \in Int
BY ClientConstants DEF RetryMax, NewClientRetryMax

(* Half the range of a duration.                                           *)
LEMMA HalfRange ==
    /\ 2^(Width - 1) \in Nat /\ 2^(Width - 1) > 0
    /\ 2^Width = 2 * 2^(Width - 1)
<1>1. Width - 1 \in Nat /\ Width = (Width - 1) + 1
  BY ClientConstants
<1>2. 2^((Width - 1) + 1) = 2 * 2^(Width - 1)
  BY <1>1, PowerDoubles
<1> QED BY <1>1, <1>2, PowerPositive

LEMMA WrapType == ASSUME NEW x \in Int PROVE Wrap(x) \in Int
<1> DEFINE h == 2^(Width - 1)
           m == 2^Width
<1>1. h \in Nat /\ m \in Nat /\ m > 0
  BY HalfRange
<1> HIDE DEF h, m
<1>2. ((x + h) % m) - h \in Int
  BY <1>1
<1> QED BY <1>2 DEF Wrap, h, m

(* A number that fits stays as it is.                                      *)
LEMMA WrapFits ==
    ASSUME NEW x \in Nat, x < 2^(Width - 1)
    PROVE  Wrap(x) = x
<1> DEFINE h == 2^(Width - 1)
           m == 2^Width
<1>1. h \in Nat /\ m = 2 * h /\ x < h /\ h > 0
  BY HalfRange
<1> HIDE DEF h, m
<1>2. x + h \in Nat /\ x + h < m /\ m \in Nat /\ m > 0
  BY <1>1
<1>3. (x + h) % m = x + h
  BY <1>2
<1>4. ((x + h) % m) - h = x
  BY <1>1, <1>3
<1> QED BY <1>4 DEF Wrap, h, m

LEMMA BackoffType == ASSUME NEW a \in Nat PROVE Backoff(a) \in Int
<1>1. 2^a \in Int
  BY PowerPositive
<1>2. Wrap(2^a) \in Int
  BY <1>1, WrapType
<1>3. RetryDelay * Wrap(2^a) \in Int
  BY <1>2, ClientConstants
<1> QED BY <1>3, WrapType DEF Backoff

LEMMA ProductMonotonic ==
    ASSUME NEW d \in Nat, NEW x \in Nat, NEW y \in Nat, x <= y
    PROVE  d * x <= d * y
OBVIOUS

(* As long as the longest backoff fits, no attempt overflows.              *)
LEMMA BackoffExact ==
    ASSUME BackoffFits, NEW a \in 1..RetryMax
    PROVE  /\ Backoff(a) \in Nat /\ Backoff(a) >= 2
           /\ 3 * Backoff(a) < 2 * 2^(Width - 1)
<1> DEFINE x == 2^a
           y == 2^RetryMax
           h == 2^(Width - 1)
<1>1. a \in Nat /\ RetryMax \in Nat /\ 1 <= a /\ a <= RetryMax
  BY RetryMaxType
<1>2. x \in Nat /\ y \in Nat /\ x <= y
  BY <1>1, PowerPositive, PowerMonotonic
<1>3. x >= 2
  <2>1. 1 \in Nat /\ 2^1 = 2
    OBVIOUS
  <2>2. 2^1 <= 2^a
    BY <1>1, <2>1, PowerMonotonic
  <2> QED BY <2>1, <2>2
<1>4. h \in Nat /\ 3 * RetryDelay * y < 2 * h
  BY <1>1, HalfRange DEF BackoffFits
<1>5. RetryDelay \in Nat /\ RetryDelay >= 1
  BY ClientConstants
<1> HIDE DEF x, y, h
<1>6. RetryDelay * x \in Nat /\ RetryDelay * y \in Nat /\ RetryDelay * x <= RetryDelay * y
  BY <1>2, <1>5, ProductMonotonic
<1>7. 3 * (RetryDelay * y) < 2 * h
  <2>1. 3 * (RetryDelay * y) = 3 * RetryDelay * y
    BY <1>2, <1>5
  <2> QED BY <1>4, <2>1
<1>8. x <= RetryDelay * x
  <2>1. x * 1 <= x * RetryDelay
    BY <1>2, <1>5, ProductMonotonic
  <2> QED BY <2>1, <1>2, <1>5
<1>9. x < h /\ RetryDelay * x < h
  BY <1>2, <1>4, <1>6, <1>7, <1>8
<1>10. Wrap(x) = x /\ Wrap(RetryDelay * x) = RetryDelay * x
  BY <1>2, <1>6, <1>9, WrapFits DEF h
<1>11. Backoff(a) = RetryDelay * x
  BY <1>10 DEF Backoff, x
<1> QED BY <1>3, <1>4, <1>6, <1>7, <1>8, <1>11, <1>2 DEF h

LEMMA DelayType ==
    ASSUME NEW a \in Nat, NEW d \in calculateBackoff(a)
    PROVE  d \in Int
<1> DEFINE half == Backoff(a) \div 2
<1>1. Backoff(a) \in Int /\ half \in Int
  BY BackoffType
<1>2. PICK jitter \in 0..(half - 1) :
        d = LET e == Wrap(Backoff(a) + jitter) IN IF e > MaxDelay THEN MaxDelay ELSE e
  BY DEF calculateBackoff
<1>3. Wrap(Backoff(a) + jitter) \in Int
  BY <1>1, WrapType
<1> QED BY <1>2, <1>3, ClientConstants

LEMMA DelaySane ==
    ASSUME BackoffFits, NEW a \in 1..RetryMax
    PROVE  /\ ~BackoffPanics(a)
           /\ calculateBackoff(a) \subseteq 1..MaxDelay
<1> DEFINE b == Backoff(a)
           h == 2^(Width - 1)
<1>1. b \in Nat /\ b >= 2 /\ 3 * b < 2 * h /\ h \in Nat
  BY BackoffExact, HalfRange
<1> HIDE DEF b, h
<1>2. b \div 2 \in Nat /\ b \div 2 >= 1 /\ 2 * (b \div 2) <= b
  BY <1>1
<1>3. ~BackoffPanics(a)
  BY <1>2 DEF BackoffPanics, b
<1>4. ASSUME NEW d \in calculateBackoff(a) PROVE d \in 1..MaxDelay
  <2>1. PICK jitter \in 0..(b \div 2 - 1) :
          d = LET e == Wrap(b + jitter) IN IF e > MaxDelay THEN MaxDelay ELSE e
    BY <1>4 DEF calculateBackoff, b
  <2>2. b + jitter \in Nat /\ b + jitter < h
    BY <1>1, <1>2
  <2>3. Wrap(b + jitter) = b + jitter
    BY <2>2, WrapFits DEF h
  <2>4. MaxDelay \in Nat /\ MaxDelay >= 1
    BY ClientConstants
  <2> QED BY <1>1, <2>1, <2>2, <2>3, <2>4
<1> QED BY <1>3, <1>4

-----------------------------------------------------------------------------
(* Types and frames.                                                       *)

LEMMA AppendResult ==
    ASSUME results \in Seq(Result), NEW x \in Result
    PROVE  /\ Append(results, x) \in Seq(Result)
           /\ Len(Append(results, x)) = Len(results) + 1
           /\ Last(Append(results, x)) = x
           /\ Append(results, x) # <<>>
           /\ Len(results) \in Nat
BY DEF Last

LEMMA ReturnInv ==
    ASSUME Inv, pc # "idle", NEW x \in Result, Return(x), lastErr' \in Code \cup {None}
    PROVE  Inv'
<1>1. /\ results' \in Seq(Result) /\ Len(results') <= MaxCalls
  BY AppendResult, ClientConstants DEF Inv, TypeOK, FrameOK, Return, Call
<1>2. attempt' \in 0..(RetryMax + 1) \cup {0} /\ delay' \in Int
  BY DEF Return
<1>3. inflight' \subseteq Request /\ answer' = None
  BY DEF Inv, TypeOK, Return, Abandon
<1>4. TypeOK'
  BY <1>1, <1>2, <1>3 DEF Inv, TypeOK, Return, serverVars
<1>5. FrameOK'
  BY <1>3 DEF FrameOK, Return, Attempting
<1> QED BY <1>4, <1>5 DEF Inv

LEMMA RetryInv ==
    ASSUME Inv, pc \in Attempting, Retry, lastErr' \in Code \cup {None}
    PROVE  Inv'
<1>1. attempt' \in 0..(RetryMax + 1)
  BY RetryMaxType DEF Inv, TypeOK, FrameOK, Retry
<1>2. inflight' \subseteq Request /\ answer' = None
  BY DEF Inv, TypeOK, Retry, Abandon
<1> QED
  BY <1>1, <1>2 DEF Inv, TypeOK, FrameOK, Retry, serverVars, Attempting, Call

LEMMA StartAttemptInv ==
    ASSUME Inv, StartAttempt, attempt <= RetryMax, pc # "idle", pc # "sent"
    PROVE  Inv'
<1>1. delay' \in Int
  BY DEF StartAttempt
<1>3. TypeOK'
  BY ZenonT(30), <1>1 DEF Inv, TypeOK, StartAttempt, serverVars
<1>2. FrameOK'
  BY DEF Inv, FrameOK, StartAttempt, Attempting, Call
<1> QED BY <1>2, <1>3 DEF Inv

LEMMA InvokeInv == ASSUME Inv, Invoke PROVE Inv'
BY DEF Inv, TypeOK, FrameOK, Invoke, Payloads, serverVars, Attempting, Call

LEMMA LoopHeadInv == ASSUME Inv, LoopHead PROVE Inv'
<1>1. attempt \in Nat /\ RetryMax \in Int
  BY RetryMaxType DEF Inv, TypeOK
<1>2. CASE exhausted(attempt) /\ Return("Exhausted") /\ UNCHANGED lastErr
  BY <1>2, ReturnInv DEF LoopHead, Inv, TypeOK, Result
<1>3. CASE ~exhausted(attempt) /\ StartAttempt
  BY <1>1, <1>3, StartAttemptInv DEF LoopHead, exhausted
<1>4. CASE /\ ~exhausted(attempt)
           /\ \/ pc' = "panic" /\ UNCHANGED delay
              \/ pc' = "backoff" /\ delay' \in calculateBackoff(attempt)
           /\ UNCHANGED <<op, val, attempt, lastErr, expired, ended, results,
                          inflight, answer, serverVars>>
  <2>1. delay' \in Int
    BY <1>1, <1>4, DelayType DEF Inv, TypeOK
  <2>2. attempt <= RetryMax
    BY <1>1, <1>4 DEF exhausted
  <2> QED
    BY <1>4, <2>1, <2>2 DEF Inv, TypeOK, FrameOK, LoopHead, serverVars, Attempting, Call
<1> QED BY <1>2, <1>3, <1>4 DEF LoopHead

LEMMA BackoffEndsInv == ASSUME Inv, BackoffEnds PROVE Inv'
<1>1. CASE Return("CallerDone") /\ UNCHANGED lastErr
  BY <1>1, ReturnInv DEF BackoffEnds, Inv, TypeOK, Result
<1>2. CASE StartAttempt
  BY <1>2, StartAttemptInv DEF BackoffEnds, Inv, FrameOK, Attempting
<1> QED BY <1>1, <1>2 DEF BackoffEnds

LEMMA WaitForReadyInv == ASSUME Inv, waitForReady PROVE Inv'
<1>1. CASE /\ pc' = "stub"
           /\ UNCHANGED <<op, val, attempt, delay, lastErr, expired, ended,
                          results, inflight, answer, serverVars>>
  BY <1>1 DEF waitForReady, Inv, TypeOK, FrameOK, serverVars, Attempting, Call
<1>2. CASE Return("CallerDone") /\ UNCHANGED lastErr
  BY <1>2, ReturnInv DEF waitForReady, Inv, TypeOK, Result
<1>3. CASE Retry /\ UNCHANGED lastErr
  BY <1>3, RetryInv DEF waitForReady, Inv, TypeOK, Attempting
<1> QED BY <1>1, <1>2, <1>3 DEF waitForReady

LEMMA SendInv == ASSUME Inv, Send PROVE Inv'
<1>1. [call |-> Call, op |-> op, val |-> val] \in Request
  <2>1. Call \in 1..MaxCalls
    BY ClientConstants DEF Inv, TypeOK, FrameOK, Send, Call
  <2>2. op \in Ops
    BY DEF Inv, TypeOK, FrameOK, Send, Call
  <2> QED BY <2>1, <2>2 DEF Inv, TypeOK, Request
<1> QED
  BY <1>1 DEF Inv, TypeOK, FrameOK, Send, serverVars, Attempting, Call

LEMMA FnReturnsInv == ASSUME Inv, NEW code \in Code, fnReturns(code) PROVE Inv'
<1>1. pc \in {"stub", "sent"}
  BY DEF fnReturns, StubReturns
<1>2. CASE Retry
  BY <1>1, <1>2, RetryInv DEF fnReturns, Attempting
<1>3. CASE ~Retry
  <2>1. \E x \in Result : Return(x)
    BY <1>3 DEF fnReturns, Result
  <2> QED BY <1>1, <2>1, ReturnInv DEF fnReturns
<1> QED BY <1>2, <1>3

LEMMA EnvironmentInv == ASSUME Inv, Environment \/ AttemptExpires PROVE Inv'
<1> USE DEF Inv, TypeOK, FrameOK, Attempting, Call
<1>1. CASE AttemptExpires
  BY <1>1 DEF AttemptExpires, serverVars
<1>2. CASE CallerGivesUp
  BY <1>2 DEF CallerGivesUp, serverVars
<1>3. CASE ConnChange
  BY <1>3 DEF ConnChange, Code, Retried
<1>4. CASE Close
  BY <1>4 DEF Close, ConnState
<1>5. CASE Execute
  <2>1. PICK q \in inflight : Execute!(q)
    BY <1>5 DEF Execute
  <2>2. row' \in [st : {"none", "live", "gone"}, cfg : Configs \cup {None}, fip : BOOLEAN]
    BY <2>1 DEF ServerRow, Request
  <2>3. applied' \subseteq 1..MaxCalls
    BY <2>1 DEF Request
  <2>4. answer' \in Code \cup {None} /\ (pc # "sent" => answer' = answer)
    BY <2>1 DEF Awaited, ServerCode, Code, Final
  <2> QED BY <2>1, <2>2, <2>3, <2>4
<1>6. CASE Refuse
  BY <1>6 DEF Refuse, Awaited
<1> QED BY <1>1, <1>2, <1>3, <1>4, <1>5, <1>6 DEF Environment

LEMMA InitInv == ASSUME Init PROVE Inv
<1>1. delay \in Int /\ attempt \in 0..(RetryMax + 1) \cup {0} /\ Len(results) <= MaxCalls
  BY ClientConstants DEF Init
<1>3. results \in Seq(Result) /\ inflight \subseteq Request /\ applied \subseteq 1..MaxCalls
  BY DEF Init
<1>4. TypeOK
  BY <1>1, <1>3 DEF Init, TypeOK, ConnState
<1>2. FrameOK
  BY DEF Init, FrameOK, Attempting
<1> QED BY <1>2, <1>4 DEF Inv

LEMMA NextInv == ASSUME Inv, [Next]_vars PROVE Inv'
<1>1. CASE UNCHANGED vars
  BY <1>1 DEF vars, Inv, TypeOK, FrameOK, Call
<1>2. CASE Client
  BY <1>2, LoopHeadInv, BackoffEndsInv, WaitForReadyInv, SendInv, FnReturnsInv DEF Client
<1> QED BY <1>1, <1>2, InvokeInv, EnvironmentInv DEF Next

(* Every call stays within its attempts, its results and its requests,     *)
(* whatever the server, the connection and the caller do (retryOnFailure). *)
THEOREM TypeCorrect == Spec => []TypeOK
<1>1. Init => Inv
  BY InitInv
<1>2. Inv /\ [Next]_vars => Inv'
  BY NextInv
<1>3. Inv => TypeOK
  BY DEF Inv
<1> QED BY <1>1, <1>2, <1>3, PTL DEF Spec

-----------------------------------------------------------------------------
(* What each step does to the row, the requests, the answer and the        *)
(* results.  The four kinds of steps below are all there are.              *)

(* Nothing the properties speak of changes but the program point.          *)
Quiet == /\ pc # "idle" /\ pc' # "idle" /\ pc' # "sent" /\ pc # "sent"
         /\ UNCHANGED <<op, val, lastErr, results, inflight, answer, row, applied, late>>

Returns == \E x \in Result : /\ pc # "idle" /\ Return(x)
                              /\ \/ lastErr' = lastErr /\ x \in {"CallerDone", "Exhausted"}
                                 \/ lastErr' = "OK" /\ x = "OK" /\ answer = "OK"
                                 \/ lastErr' \in Code \ {"OK"} /\ x = "CallerDone"
                                 \/ lastErr' \in Final /\ x = lastErr'

Retries == /\ pc \in Attempting /\ Retry
           /\ lastErr' = lastErr \/ lastErr' \in Code \ Final

LEMMA ClientSteps ==
    ASSUME Inv, Client
    PROVE  Quiet \/ Returns \/ Retries \/ Send
<1> USE DEF Inv, TypeOK
<1>1. CASE LoopHead
  BY <1>1 DEF LoopHead, Quiet, Returns, StartAttempt, serverVars, Result
<1>2. CASE BackoffEnds
  BY <1>2 DEF BackoffEnds, Quiet, Returns, StartAttempt, serverVars, Result
<1>3. CASE waitForReady
  BY <1>3 DEF waitForReady, Quiet, Returns, Retries, serverVars, Result, Attempting
<1>4. ASSUME NEW code \in Code, fnReturns(code) PROVE Returns \/ Retries
  <2>1. pc \in {"stub", "sent"} /\ lastErr' = code
    BY <1>4 DEF fnReturns, StubReturns
  <2>2. CASE code = "OK"
    <3>1. answer = "OK"
      BY <1>4, <2>2 DEF fnReturns, StubReturns
    <3>2. Return("OK")
      BY <1>4, <2>2 DEF fnReturns, Final
    <3> QED BY <2>1, <2>2, <3>1, <3>2 DEF Returns, Result
  <2>3. CASE code # "OK" /\ ended
    BY <1>4, <2>1, <2>3 DEF fnReturns, Returns, Result
  <2>4. CASE code \in Final /\ ~ended
    BY <1>4, <2>1, <2>4 DEF fnReturns, Returns, Result, Final
  <2>5. CASE code \notin Final \cup {"OK"} /\ ~ended
    BY <1>4, <2>1, <2>5 DEF fnReturns, Retries, Attempting
  <2> QED BY <2>2, <2>3, <2>4, <2>5
<1> QED BY <1>1, <1>2, <1>3, <1>4 DEF Client

-----------------------------------------------------------------------------
(* Refusals and backoffs.                                                  *)

LEMMA LastReturned ==
    ASSUME Inv, NEW x \in Result, Return(x)
    PROVE  Last(results') = x /\ results' # <<>> /\ Len(results') = Len(results) + 1
BY AppendResult DEF Inv, TypeOK, Return

LEMMA RefusalStep ==
    ASSUME Inv, RefusalIsFinal, [Next]_vars
    PROVE  RefusalIsFinal'
<1>1. CASE UNCHANGED vars \/ Environment \/ AttemptExpires
  BY <1>1 DEF RefusalIsFinal, vars, Environment, AttemptExpires, CallerGivesUp,
              ConnChange, Close, Execute, Refuse, Last
<1>2. CASE Invoke
  BY <1>2, NoneIsNoCode DEF RefusalIsFinal, Invoke, Code
<1>3. CASE Quiet \/ Send
  BY <1>3 DEF RefusalIsFinal, Quiet, Send
<1>4. CASE Retries
  BY <1>4, NoneIsNoCode DEF RefusalIsFinal, Retries, Attempting, Inv, TypeOK, Code
<1>5. CASE Returns
  <2>1. PICK x \in Result : /\ pc # "idle" /\ Return(x)
                            /\ \/ lastErr' = lastErr /\ x \in {"CallerDone", "Exhausted"}
                               \/ lastErr' = "OK" /\ x = "OK" /\ answer = "OK"
                               \/ lastErr' \in Code \ {"OK"} /\ x = "CallerDone"
                               \/ lastErr' \in Final /\ x = lastErr'
    BY <1>5 DEF Returns
  <2>2. Last(results') = x /\ pc' = "idle"
    BY <2>1, LastReturned DEF Return
  <2> QED BY <2>1, <2>2 DEF RefusalIsFinal, Final
<1> QED BY <1>1, <1>2, <1>3, <1>4, <1>5, ClientSteps DEF Next

(* A refusal by the server ends the call and reaches the caller unchanged, *)
(* for every number of retries and whatever was lost before it (the switch *)
(* in retryOnFailure).                                                     *)
THEOREM RefusalHolds == Spec => []RefusalIsFinal
<1>1. Init => Inv /\ RefusalIsFinal
  BY InitInv, NoneIsNoCode DEF Init, RefusalIsFinal, Code
<1>2. (Inv /\ RefusalIsFinal) /\ [Next]_vars => (Inv /\ RefusalIsFinal)'
  BY NextInv, RefusalStep
<1> QED BY <1>1, <1>2, PTL DEF Spec

LEMMA BackoffStep ==
    ASSUME Inv, BackoffSane, [Next]_vars
    PROVE  BackoffSane'
<1> SUFFICES ASSUME BackoffFits
             PROVE  pc' # "panic" /\ (pc' = "backoff" => delay' \in 1..MaxDelay)
  BY DEF BackoffSane, BackoffFits
<1>1. pc # "panic" /\ (pc = "backoff" => delay \in 1..MaxDelay)
  BY DEF BackoffSane
<1>2. CASE LoopHead
  <2>1. attempt \in Nat /\ RetryMax \in Int
    BY RetryMaxType DEF Inv, TypeOK
  <2>2. CASE attempt > 0 /\ ~exhausted(attempt)
    <3>1. attempt \in 1..RetryMax
      BY <2>1, <2>2 DEF exhausted
    <3>2. ~BackoffPanics(attempt) /\ calculateBackoff(attempt) \subseteq 1..MaxDelay
      BY <3>1, DelaySane
    <3> QED BY <1>2, <2>1, <2>2, <3>2 DEF LoopHead
  <2>3. CASE ~(attempt > 0 /\ ~exhausted(attempt))
    BY <1>2, <2>3 DEF LoopHead, Return, StartAttempt
  <2> QED BY <2>2, <2>3
<1>3. CASE Invoke \/ BackoffEnds \/ waitForReady \/ Send
  BY <1>3 DEF Invoke, BackoffEnds, waitForReady, Send, Return, Retry, StartAttempt
<1>4. ASSUME NEW code \in Code, fnReturns(code)
      PROVE  pc' # "panic" /\ pc' # "backoff"
  BY <1>4 DEF fnReturns, Return, Retry
<1>5. CASE UNCHANGED vars \/ Environment \/ AttemptExpires
  BY <1>1, <1>5 DEF vars, Environment, AttemptExpires, CallerGivesUp,
                    ConnChange, Close, Execute, Refuse
<1> QED BY <1>2, <1>3, <1>4, <1>5 DEF Next, Client

(* For every configuration whose longest backoff fits into a duration, the *)
(* jitter never panics and every wait lies between one unit and the cap    *)
(* (calculateBackoff); nothing is said when it does not fit.               *)
THEOREM BackoffHolds == Spec => []BackoffSane
<1>1. Init => Inv /\ BackoffSane
  BY InitInv DEF Init, BackoffSane
<1>2. (Inv /\ BackoffSane) /\ [Next]_vars => (Inv /\ BackoffSane)'
  BY NextInv, BackoffStep
<1> QED BY <1>1, <1>2, PTL DEF Spec

-----------------------------------------------------------------------------
(* Bookkeeping: who asked for what has been carried out.                   *)

LEMMA ReturnBookkeeping ==
    ASSUME Inv, Bookkeeping, pc # "idle", NEW x \in Result, Return(x)
    PROVE  Bookkeeping'
<1>1. Len(results) \in Nat /\ Made = 1..Call /\ Made' = 1..Call
  BY LastReturned DEF Inv, TypeOK, Made, Call, Return
<1>2. inflight' \subseteq inflight /\ answer' = None /\ applied' = applied
  BY DEF Return, Abandon, serverVars
<1> QED BY <1>1, <1>2, NoneIsNoCode DEF Bookkeeping, Code

LEMMA ExecuteBookkeeping ==
    ASSUME Inv, Bookkeeping, Execute
    PROVE  Bookkeeping'
<1>1. PICK q \in inflight : Execute!(q)
  BY DEF Execute
<1>2. Made' = Made /\ Call' = Call
  BY <1>1 DEF Made, Call
<1>3. applied \subseteq applied' /\ applied' \subseteq applied \cup {q.call}
  BY <1>1
<1>4. answer' = "OK" => Call \in applied'
  <2>1. CASE answer' = answer
    BY <1>3, <2>1 DEF Bookkeeping
  <2>2. CASE Awaited(q) /\ answer' = ServerCode(q)
    BY <1>1, <2>2 DEF Awaited
  <2> QED BY <1>1, <2>1, <2>2
<1>5. inflight' \subseteq inflight
  BY <1>1
<1> QED BY <1>2, <1>3, <1>4, <1>5 DEF Bookkeeping

LEMMA BookkeepingStep ==
    ASSUME Inv, Bookkeeping, [Next]_vars
    PROVE  Bookkeeping'
<1>0. Len(results) \in Nat
  BY DEF Inv, TypeOK
<1>1. CASE UNCHANGED vars \/ AttemptExpires \/ CallerGivesUp \/ Close \/ ConnChange \/ Refuse
  BY <1>1 DEF Bookkeeping, Made, Call, vars, serverVars, AttemptExpires, CallerGivesUp,
              Close, ConnChange, Refuse
<1>2. CASE Invoke
  <2>1. 1..Len(results) \subseteq 1..Call
    BY <1>0 DEF Call
  <2>2. Made \subseteq Made' /\ Call' = Call
    BY <1>2, <2>1 DEF Invoke, Made, Call
  <2> QED BY <1>2, <2>2 DEF Bookkeeping, Invoke, serverVars
<1>3. CASE Quiet
  BY <1>3 DEF Bookkeeping, Made, Call, Quiet
<1>4. CASE Send
  <2>1. Made = 1..Call /\ Made' = Made /\ Call' = Call /\ Call \in Made
    BY <1>0, <1>4 DEF Made, Call, Send
  <2> QED BY <1>4, <2>1 DEF Bookkeeping, Send, serverVars
<1>5. CASE Retries
  <2>1. Made' = Made /\ Call' = Call
    BY <1>5 DEF Retries, Retry, Made, Call, Attempting
  <2>2. inflight' \subseteq inflight /\ answer' = None /\ applied' = applied
    BY <1>5 DEF Retries, Retry, Abandon, serverVars
  <2> QED BY <2>1, <2>2, NoneIsNoCode DEF Bookkeeping, Code
<1>6. CASE Returns
  BY <1>6, ReturnBookkeeping DEF Returns
<1> QED
  BY <1>1, <1>2, <1>3, <1>4, <1>5, <1>6, ClientSteps, ExecuteBookkeeping DEF Next, Environment

LEMMA InitBookkeeping == ASSUME Init PROVE Bookkeeping
BY NoneIsNoCode DEF Init, Bookkeeping, Code

-----------------------------------------------------------------------------
(* The client implements RemoteCall.                                       *)

Reported == [i \in DOMAIN results |-> results[i] = "OK"]

LEMMA ReportedLength ==
    ASSUME results \in Seq(Result)
    PROVE  Len(Reported) = Len(results)
BY DEF Reported

LEMMA ReportedAppend ==
    ASSUME results \in Seq(Result), NEW x \in Result, results' = Append(results, x)
    PROVE  Reported' = Append(Reported, x = "OK")
<1>1. Len(results) \in Nat /\ DOMAIN results = 1..Len(results)
  BY LenProperties
<1>2. Reported \in Seq(BOOLEAN) /\ Len(Reported) = Len(results)
  BY <1>1 DEF Reported
<1>3. Reported' \in Seq(BOOLEAN) /\ Len(Reported') = Len(results) + 1
  BY <1>1 DEF Reported
<1>4. ASSUME NEW i \in 1..(Len(results) + 1)
      PROVE  Reported'[i] = Append(Reported, x = "OK")[i]
  BY <1>1, <1>2 DEF Reported
<1> QED
  BY <1>1, <1>2, <1>3, <1>4, AppendProperties, SeqEqual

LEMMA AbstractReturn ==
    ASSUME Inv, Bookkeeping, Returns
    PROVE  Abstract!Return
<1>1. PICK x \in Result : pc # "idle" /\ Return(x) /\ (x = "OK" => answer = "OK")
  BY DEF Returns, Final
<1>2. Reported' = Append(Reported, x = "OK")
  BY <1>1, ReportedAppend DEF Inv, TypeOK, Return
<1>3. (x = "OK") => Call \in applied
  BY <1>1 DEF Bookkeeping
<1>4. Len(Reported) + 1 = Call
  BY ReportedLength DEF Inv, TypeOK, Call
<1>5. pc' = "idle" /\ applied' = applied
  BY <1>1 DEF Return, serverVars
<1>6. (x = "OK") \in BOOLEAN
  OBVIOUS
<1> QED
  BY <1>1, <1>2, <1>3, <1>4, <1>5, <1>6 DEF Abstract!Return, Abstract!Current, Reported

LEMMA AbstractExecute ==
    ASSUME Inv, Bookkeeping, Execute
    PROVE  Abstract!Apply \/ UNCHANGED Abstract!vars
<1>1. PICK q \in inflight : Execute!(q)
  BY DEF Execute
<1>2. q.call \in Made
  BY DEF Bookkeeping
<1>3. Abstract!Made = Made
  BY ReportedLength DEF Abstract!Made, Abstract!Current, Made, Call, Reported, Inv, TypeOK
<1>4. pc' = pc /\ Reported' = Reported
  BY <1>1 DEF Reported
<1>5. CASE ServerCode(q) = "OK"
  BY <1>1, <1>2, <1>3, <1>4, <1>5 DEF Abstract!Apply, Reported
<1>6. CASE ServerCode(q) # "OK"
  BY <1>1, <1>4, <1>6 DEF Abstract!vars, Reported
<1> QED BY <1>5, <1>6

LEMMA AbstractStep ==
    ASSUME Inv, Bookkeeping, [Next]_vars
    PROVE  [Abstract!Next]_(Abstract!vars)
<1>1. CASE UNCHANGED vars \/ AttemptExpires \/ CallerGivesUp \/ Close \/ ConnChange \/ Refuse
  BY <1>1 DEF Abstract!vars, vars, serverVars, AttemptExpires, CallerGivesUp, Close,
              ConnChange, Refuse
<1>2. CASE Quiet \/ Send
  BY <1>2 DEF Abstract!vars, Quiet, Send, serverVars
<1>3. CASE Retries
  BY <1>3 DEF Abstract!vars, Retries, Retry, Attempting, serverVars
<1>4. CASE Invoke
  BY <1>4 DEF Abstract!Next, Abstract!Invoke, Invoke, serverVars
<1>5. CASE Returns
  BY <1>5, AbstractReturn DEF Abstract!Next
<1>6. CASE Execute
  BY <1>6, AbstractExecute DEF Abstract!Next
<1> QED BY <1>1, <1>2, <1>3, <1>4, <1>5, <1>6, ClientSteps DEF Next, Environment

(* Every behaviour of the client is one of the abstract call: with any     *)
(* number of retries, lost answers and requests carried out late, each     *)
(* call returns once, and success means that the server did it.            *)
THEOREM ImplementsCall == Spec => ImplementsRemoteCall
<1>1. Init => Inv /\ Bookkeeping
  BY InitInv, InitBookkeeping
<1>2. (Inv /\ Bookkeeping) /\ [Next]_vars => (Inv /\ Bookkeeping)'
  BY NextInv, BookkeepingStep
<1>3. Init => Abstract!Init
  BY DEF Init, Abstract!Init
<1>4. (Inv /\ Bookkeeping) /\ [Next]_vars => [Abstract!Next]_(Abstract!vars)
  BY AbstractStep
<1> QED BY <1>1, <1>2, <1>3, <1>4, PTL DEF Spec, ImplementsRemoteCall, Abstract!Spec

-----------------------------------------------------------------------------
(* A success reported by a server that honours cancellation stays.         *)

(* What the server answers with OK it has done.                            *)
LEMMA OKHasEffect ==
    ASSUME Inv, NEW q \in Request, row' = ServerRow(q), ServerCode(q) = "OK"
    PROVE  Effect(q.op, q.val)'
<1>1. row.st \in {"none", "live", "gone"} /\ row \in [st : {"none", "live", "gone"}, cfg : Configs \cup {None}, fip : BOOLEAN]
  BY DEF Inv, TypeOK
<1>2. q.op \in AllOps
  BY ClientConstants DEF Request
<1>3. CASE q.op = "CreateLoadBalancer"
  BY <1>1, <1>3 DEF ServerRow, Effect
<1>4. CASE q.op \in {"GetLoadBalancer", "ListLoadBalancers"}
  BY <1>4 DEF Effect
<1>5. CASE q.op = "UpdateLoadBalancer"
  BY <1>1, <1>5 DEF ServerRow, ServerCode, Effect
<1>6. CASE q.op = "DeleteLoadBalancer"
  BY <1>1, <1>6 DEF ServerRow, ServerCode, Effect
<1>7. CASE q.op = "AllocateFloatingIp"
  BY <1>1, <1>7 DEF ServerRow, ServerCode, Effect
<1>8. CASE q.op = "ReleaseFloatingIp"
  BY <1>1, <1>8 DEF ServerRow, ServerCode, Effect
<1> QED BY <1>2, <1>3, <1>4, <1>5, <1>6, <1>7, <1>8 DEF AllOps

LEMMA ExecuteCancelled ==
    ASSUME Inv, Cancelled, Execute
    PROVE  Cancelled'
<1> SUFFICES ASSUME ~late PROVE Cancelled'
  BY DEF Execute, Cancelled
<1>1. PICK q \in inflight : Execute!(q)
  BY DEF Execute
<1>2. pc = "sent" /\ inflight = {q} /\ inflight' = {}
  BY <1>1 DEF Cancelled
<1>3. q = [call |-> Call, op |-> op, val |-> val] /\ q \in Request
  BY <1>2 DEF Cancelled, Inv, TypeOK
<1>4. answer # "OK"
  BY <1>2 DEF Cancelled
<1>5. answer' = "OK" => Effect(op, val)'
  <2> SUFFICES ASSUME answer' = "OK" PROVE Effect(op, val)'
    OBVIOUS
  <2>1. ServerCode(q) = "OK" /\ row' = ServerRow(q)
    BY <1>1, <1>4
  <2>2. Effect(q.op, q.val)'
    BY <1>3, <2>1, OKHasEffect
  <2>3. op' = op /\ val' = val /\ q.op = op /\ q.val = val
    BY <1>1, <1>3
  <2> QED BY <2>2, <2>3 DEF Effect
<1> QED BY <1>2, <1>5 DEF Cancelled

LEMMA CancelledStep ==
    ASSUME Inv, Cancelled, [Next]_vars
    PROVE  Cancelled'
<1>0. late' = late
  BY ClientSteps DEF Next, vars, Environment, Invoke, AttemptExpires, CallerGivesUp, Close,
       ConnChange, Execute, Refuse, Quiet, Returns, Return, Retries, Retry, Send, serverVars
<1>1. CASE UNCHANGED vars \/ AttemptExpires \/ CallerGivesUp \/ Close
  BY <1>1 DEF Cancelled, Call, Effect, vars, serverVars, AttemptExpires, CallerGivesUp, Close
<1>2. CASE ConnChange
  BY <1>2 DEF Cancelled, Call, Effect, ConnChange
<1>3. CASE Refuse
  BY <1>3 DEF Cancelled, Call, Effect, Refuse
<1>4. CASE Invoke
  BY <1>4, NoneIsNoCode DEF Cancelled, Invoke, serverVars, Inv, FrameOK, Code
<1>5. CASE Quiet
  BY <1>5, NoneIsNoCode DEF Cancelled, Quiet, Inv, FrameOK, Code
<1>6. CASE Send
  BY <1>6, NoneIsNoCode DEF Cancelled, Call, Send, serverVars, Inv, FrameOK, Code
<1>7. CASE Retries
  BY <1>7, NoneIsNoCode DEF Cancelled, Retries, Retry, Abandon, serverVars, Code
<1>8. CASE Returns
  BY <1>8, NoneIsNoCode DEF Cancelled, Returns, Return, Abandon, serverVars, Code
<1> QED
  BY <1>1, <1>2, <1>3, <1>4, <1>5, <1>6, <1>7, <1>8, ClientSteps, ExecuteCancelled
     DEF Next, Environment

LEMMA StickyStep ==
    ASSUME Inv, Cancelled, SuccessSticks, [Next]_vars
    PROVE  SuccessSticks'
<1> SUFFICES ASSUME pc' = "idle", ~late' PROVE SuccessSticks'
  BY DEF SuccessSticks
<1>1. CASE UNCHANGED vars \/ AttemptExpires \/ CallerGivesUp \/ Close \/ ConnChange \/ Refuse
  BY <1>1 DEF SuccessSticks, vars, serverVars, AttemptExpires, CallerGivesUp, Close,
              ConnChange, Refuse, Last
<1>2. CASE Execute
  BY <1>2 DEF Execute, Cancelled
<1>3. CASE Returns
  <2>1. PICK x \in Result : pc # "idle" /\ Return(x) /\ (x = "OK" => answer = "OK")
    BY <1>3 DEF Returns, Final
  <2>2. Last(results') = x
    BY <2>1, LastReturned
  <2>3. x = "OK" => Effect(op, val)
    BY <2>1 DEF Cancelled, Return, serverVars
  <2>4. op' = op /\ val' = val /\ row' = row
    BY <2>1 DEF Return, serverVars
  <2> QED BY <2>2, <2>3, <2>4 DEF SuccessSticks, Effect
<1>4. CASE Invoke \/ Quiet \/ Send \/ Retries
  BY <1>4 DEF Invoke, Quiet, Send, Retries, Retry
<1> QED BY <1>1, <1>2, <1>3, <1>4, ClientSteps DEF Next, Environment

(* When the server drops what the client abandons, a success the caller    *)
(* saw is the state of the load balancer until the next call: no earlier   *)
(* attempt, of this or another call, overwrites it (retryOnFailure).       *)
THEOREM SuccessHolds == Spec => []SuccessSticks
<1>1. Init => Inv /\ Cancelled /\ SuccessSticks
  BY InitInv, NoneIsNoCode DEF Init, Cancelled, SuccessSticks, Code
<1>2. (Inv /\ Cancelled /\ SuccessSticks) /\ [Next]_vars => (Inv /\ Cancelled /\ SuccessSticks)'
  BY NextInv, CancelledStep, StickyStep
<1> QED BY <1>1, <1>2, PTL DEF Spec
=============================================================================

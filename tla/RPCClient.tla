----------------------------- MODULE RPCClient -----------------------------
(***************************************************************************)
(* pkg/rpc/loadbalancer/client.go: the client every provider call goes     *)
(* through.  retryOnFailure runs an RPC up to RetryMax + 1 times, each     *)
(* time under a fresh deadline, with a capped exponential backoff before   *)
(* every attempt but the first.                                            *)
(*                                                                         *)
(* One worker makes calls one after another.  Between two of its steps the *)
(* connection may change, the caller's context may end, a deadline may     *)
(* pass, and the server may carry out a request it has received, also one  *)
(* the client has abandoned when the server does not honour cancellation   *)
(* (late).  The server keeps one load balancer; its answers are those the  *)
(* provider relies on in module LBApi.                                     *)
(***************************************************************************)
EXTENDS Integers, Sequences, SequencesExt

CONSTANTS
    RPCRetryMax,    \* rpcRetryMax of the cloud configuration
    RetryDelay,     \* Config.RetryDelay, in units of time
    MaxDelay,       \* the cap of calculateBackoff
    Width,          \* bits of a time.Duration, 64 in the program
    Ops,            \* the operations the worker uses
    Configs,        \* listener lists an update or a creation carries
    MaxCalls,       \* calls in one behaviour
    None

VARIABLES
    pc,             \* where retryOnFailure is; "idle" between two calls
    op, val,        \* operation and payload of the last call
    attempt,        \* attempts started before the current one
    delay,          \* backoff before the attempt
    lastErr,        \* what fn returned last in this call, or None
    expired,        \* the deadline of the attempt has passed
    ended,          \* the caller's context has ended
    results,        \* codes returned to the caller, one per finished call
    conn,           \* connectivity state of the gRPC connection
    inflight,       \* requests the server has received and not carried out
    answer,         \* code on its way to the stub, or None
    row,            \* the load balancer the server holds
    applied,        \* calls with a request carried out
    late            \* the server carries out abandoned requests too

vars == <<pc, op, val, attempt, delay, lastErr, expired, ended, results, conn,
          inflight, answer, row, applied, late>>

(* NewClient: an unset value takes its default.                            *)
NewClientRetryMax == IF RPCRetryMax = 0 THEN 3 ELSE RPCRetryMax

RetryMax == NewClientRetryMax

AllOps == {"CreateLoadBalancer", "GetLoadBalancer", "ListLoadBalancers",
           "DeleteLoadBalancer", "UpdateLoadBalancer", "AllocateFloatingIp",
           "ReleaseFloatingIp"}

ASSUME ClientConstants ==
    /\ RPCRetryMax \in Int /\ RetryDelay \in Nat \ {0} /\ MaxDelay \in Nat \ {0}
    /\ Width \in Nat \ {0} /\ Ops \subseteq AllOps /\ Configs # {}
    /\ MaxCalls \in Nat /\ None \notin Configs

(* Codes of the switch in retryOnFailure.  "Other" stands for every status *)
(* code it does not name, "Plain" for an error without a status.           *)
Retried == {"Unavailable", "Canceled", "DeadlineExceeded"}
Final == {"NotFound", "AlreadyExists", "InvalidArgument", "PermissionDenied"}
Code == {"OK", "Other", "Plain"} \cup Retried \cup Final

ASSUME NoneIsNoCode == None \notin Code

(* What a caller sees: an answer, the end of its context, or the error     *)
(* after the last attempt.                                                 *)
Result == {"OK", "CallerDone", "Exhausted"} \cup Final

(* TransientFailure is one with Connecting: waitForReady treats them alike. *)
ConnState == {"Idle", "Connecting", "Ready", "Shutdown"}

Request == [call : 1..MaxCalls, op : Ops, val : Configs \cup {None}]

TypeOK ==
    /\ pc \in {"idle", "head", "backoff", "connect", "stub", "sent", "panic"}
    /\ op \in Ops \cup {None} /\ val \in Configs \cup {None}
    /\ attempt \in 0..(RetryMax + 1) \cup {0}
    /\ delay \in Int
    /\ lastErr \in Code \cup {None}
    /\ expired \in BOOLEAN /\ ended \in BOOLEAN /\ late \in BOOLEAN
    /\ results \in Seq(Result) /\ Len(results) <= MaxCalls
    /\ conn \in ConnState
    /\ inflight \subseteq Request /\ answer \in Code \cup {None}
    /\ row \in [st : {"none", "live", "gone"}, cfg : Configs \cup {None}, fip : BOOLEAN]
    /\ applied \subseteq 1..MaxCalls

-----------------------------------------------------------------------------
(* calculateBackoff.                                                       *)

(* A signed integer of Width bits.                                         *)
Wrap(x) == ((x + 2^(Width - 1)) % 2^Width) - 2^(Width - 1)

Backoff(a) == Wrap(RetryDelay * Wrap(2^a))

(* rand.Int63n panics unless its argument is positive.                     *)
BackoffPanics(a) == Backoff(a) \div 2 <= 0

(* Mutant: the cap is applied before the jitter.                           *)
capBeforeJitter(a) ==
    {(IF Backoff(a) > MaxDelay THEN MaxDelay ELSE Backoff(a)) + jitter :
        jitter \in 0..(Backoff(a) \div 2 - 1)}

calculateBackoff(a) ==
    {LET d == Wrap(Backoff(a) + jitter) IN IF d > MaxDelay THEN MaxDelay ELSE d :
        jitter \in 0..(Backoff(a) \div 2 - 1)}

-----------------------------------------------------------------------------
(* The client.                                                             *)

Call == Len(results) + 1

serverVars == <<conn, row, applied, late>>

(* What the client abandons a server that honours cancellation drops.      *)
Abandon == /\ inflight' = IF late THEN inflight ELSE {}
           /\ answer' = None

Return(result) ==
    /\ pc' = "idle"
    /\ results' = Append(results, result)
    /\ Abandon
    /\ attempt' = 0 /\ delay' = 0 /\ expired' = FALSE /\ ended' = FALSE
    /\ UNCHANGED <<op, val, serverVars>>

Retry ==
    /\ pc' = "head" /\ attempt' = attempt + 1
    /\ Abandon
    /\ expired' = FALSE
    /\ UNCHANGED <<op, val, delay, ended, results, serverVars>>

(* A fresh deadline for every attempt.                                     *)
StartAttempt ==
    /\ pc' = "connect" /\ delay' = 0 /\ expired' = FALSE
    /\ UNCHANGED <<op, val, attempt, lastErr, ended, results, inflight, answer,
                   serverVars>>

(* Only creations and updates carry listeners.                             *)
Payloads(o) == IF o \in {"CreateLoadBalancer", "UpdateLoadBalancer"}
                 THEN Configs ELSE {None}

(* One of the seven wrappers, with a context that has not ended.           *)
Invoke ==
    /\ pc = "idle" /\ Call <= MaxCalls
    /\ \E o \in Ops : op' = o /\ val' \in Payloads(o)
    /\ pc' = "head" /\ lastErr' = None
    /\ UNCHANGED <<attempt, delay, expired, ended, results, inflight, answer, serverVars>>

(* Mutant: one attempt too many.                                           *)
exhaustedLate(a) == a > RetryMax + 1

(* The loop condition attempt <= RetryMax is false.                        *)
exhausted(a) == a > RetryMax

(* The head of the loop: give up, wait, or start the first attempt.        *)
LoopHead ==
    /\ pc = "head"
    /\ \/ /\ exhausted(attempt)
          /\ Return("Exhausted") /\ UNCHANGED lastErr
       \/ /\ attempt = 0 /\ ~exhausted(attempt)
          /\ StartAttempt
       \/ /\ attempt > 0 /\ ~exhausted(attempt)
          /\ \/ /\ BackoffPanics(attempt)
                /\ pc' = "panic" /\ UNCHANGED delay
             \/ /\ ~BackoffPanics(attempt)
                /\ pc' = "backoff" /\ delay' \in calculateBackoff(attempt)
          /\ UNCHANGED <<op, val, attempt, lastErr, expired, ended, results,
                         inflight, answer, serverVars>>

(* The select: the timer, or the end of the caller's context.              *)
BackoffEnds ==
    /\ pc = "backoff"
    /\ \/ /\ ended
          /\ Return("CallerDone") /\ UNCHANGED lastErr
       \/ StartAttempt

(* isConnectionReady and waitForReady.                                     *)
waitForReady ==
    /\ pc = "connect"
    /\ \/ /\ conn \in {"Ready", "Idle"}
          /\ pc' = "stub"
          /\ UNCHANGED <<op, val, attempt, delay, lastErr, expired, ended,
                         results, inflight, answer, serverVars>>
       \/ /\ \/ conn = "Shutdown"
             \/ conn = "Connecting" /\ (expired \/ ended)
          /\ UNCHANGED lastErr
          /\ IF ended THEN Return("CallerDone") ELSE Retry

(* The stub sends the request once the connection is ready.                *)
Send ==
    /\ pc = "stub" /\ conn = "Ready"
    /\ pc' = "sent"
    /\ inflight' = inflight \cup {[call |-> Call, op |-> op, val |-> val]}
    /\ UNCHANGED <<op, val, attempt, delay, lastErr, expired, ended, results,
                   answer, serverVars>>

(* The code the stub may return now: what has arrived, or the reason why   *)
(* nothing can.                                                            *)
StubReturns(code) ==
    \/ pc = "sent" /\ answer = code
    \/ pc \in {"stub", "sent"} /\ answer = None /\ expired /\ code = "DeadlineExceeded"
    \/ pc \in {"stub", "sent"} /\ answer = None /\ ended /\ code = "Canceled"
    \/ pc = "stub" /\ conn = "Shutdown" /\ code = "Canceled"

(* Mutant: an unavailable server counts as success.                        *)
fnReturnsUnavailableOK(code) ==
    /\ StubReturns(code)
    /\ lastErr' = code
    /\ \/ code \in {"OK", "Unavailable"} /\ Return("OK")
       \/ code \notin {"OK", "Unavailable"} /\ ended /\ Return("CallerDone")
       \/ code \in Final /\ ~ended /\ Return(code)
       \/ code \notin Final \cup {"OK", "Unavailable"} /\ ~ended /\ Retry

(* Mutant: a refusal is retried like any other error.                      *)
fnReturnsRetriesAll(code) ==
    /\ StubReturns(code)
    /\ lastErr' = code
    /\ \/ code = "OK" /\ Return("OK")
       \/ code # "OK" /\ ended /\ Return("CallerDone")
       \/ code # "OK" /\ ~ended /\ Retry

(* retryOnFailure after fn: success, the caller's end, a refusal, or the   *)
(* next attempt.  Codes the switch does not name are tried again too.      *)
fnReturns(code) ==
    /\ StubReturns(code)
    /\ lastErr' = code
    /\ \/ code = "OK" /\ Return("OK")
       \/ code # "OK" /\ ended /\ Return("CallerDone")
       \/ code \in Final /\ ~ended /\ Return(code)
       \/ code \notin Final \cup {"OK"} /\ ~ended /\ Retry

Client == \/ LoopHead \/ BackoffEnds \/ waitForReady \/ Send
          \/ \E code \in Code : fnReturns(code)

-----------------------------------------------------------------------------
(* The environment.                                                        *)

(* Mutant: an attempt runs under the caller's context alone.               *)
NoDeadline == FALSE /\ UNCHANGED vars

(* context.WithTimeout: every attempt runs into its deadline.              *)
AttemptExpires ==
    /\ pc \in {"connect", "stub", "sent"} /\ ~expired
    /\ expired' = TRUE
    /\ UNCHANGED <<pc, op, val, attempt, delay, lastErr, ended, results,
                   inflight, answer, serverVars>>

CallerGivesUp ==
    /\ pc # "idle" /\ ~ended
    /\ ended' = TRUE
    /\ UNCHANGED <<pc, op, val, attempt, delay, lastErr, expired, results,
                   inflight, answer, serverVars>>

(* The transport.  Losing it answers the request that is waiting.          *)
ConnChange ==
    /\ conn # "Shutdown"
    /\ conn' \in ConnState \ {conn, "Shutdown"}
    /\ answer' = IF pc = "sent" /\ answer = None /\ conn = "Ready"
                   THEN "Unavailable" ELSE answer
    /\ UNCHANGED <<pc, op, val, attempt, delay, lastErr, expired, ended, results,
                   inflight, row, applied, late>>

(* Client.Close.                                                           *)
Close ==
    /\ pc = "idle" /\ conn # "Shutdown"
    /\ conn' = "Shutdown"
    /\ UNCHANGED <<pc, op, val, attempt, delay, lastErr, expired, ended, results,
                   inflight, answer, row, applied, late>>

(* The code of a request carried out, and the row after it.  A creation    *)
(* whose key is known is replayed.                                         *)
ServerCode(r) ==
    IF \/ r.op \in {"CreateLoadBalancer", "ListLoadBalancers"}
       \/ row.st = "live"
       \/ row.st = "gone" /\ r.op = "GetLoadBalancer"
    THEN "OK" ELSE "NotFound"

ServerRow(r) ==
    CASE r.op = "CreateLoadBalancer" /\ row.st = "none" ->
             [st |-> "live", cfg |-> r.val, fip |-> FALSE]
      [] r.op = "UpdateLoadBalancer" /\ row.st = "live" -> [row EXCEPT !.cfg = r.val]
      [] r.op = "DeleteLoadBalancer" /\ row.st = "live" -> [row EXCEPT !.st = "gone"]
      [] r.op = "AllocateFloatingIp" /\ row.st = "live" -> [row EXCEPT !.fip = TRUE]
      [] r.op = "ReleaseFloatingIp" /\ row.st = "live" -> [row EXCEPT !.fip = FALSE]
      [] OTHER -> row

(* The request the stub is waiting for, rather than one of an abandoned    *)
(* attempt.                                                                *)
Awaited(r) == pc = "sent" /\ r.call = Call /\ answer = None

(* The server carries out a request and answers, or the answer is lost.    *)
Execute ==
    \E r \in inflight :
        /\ inflight' = inflight \ {r}
        /\ row' = ServerRow(r)
        /\ applied' = IF ServerCode(r) = "OK" THEN applied \cup {r.call} ELSE applied
        /\ \/ Awaited(r) /\ conn = "Ready" /\ answer' = ServerCode(r)
           \/ UNCHANGED answer
        /\ UNCHANGED <<pc, op, val, attempt, delay, lastErr, expired, ended,
                       results, conn, late>>

(* The server, or the transport, refuses a request without effect.         *)
Refuse ==
    \E r \in inflight :
        /\ Awaited(r) /\ conn = "Ready"
        /\ inflight' = inflight \ {r}
        /\ answer' \in Code \ {"OK", "NotFound", "DeadlineExceeded", "Canceled"}
        /\ UNCHANGED <<pc, op, val, attempt, delay, lastErr, expired, ended,
                       results, conn, row, applied, late>>

Environment == \/ CallerGivesUp \/ ConnChange \/ Close \/ Execute \/ Refuse

-----------------------------------------------------------------------------
Init ==
    /\ pc = "idle" /\ op = None /\ val = None /\ attempt = 0 /\ delay = 0
    /\ lastErr = None /\ expired = FALSE /\ ended = FALSE /\ results = <<>>
    /\ conn = "Idle" /\ inflight = {} /\ answer = None
    /\ row = [st |-> "none", cfg |-> None, fip |-> FALSE]
    /\ applied = {} /\ late \in BOOLEAN

Next == Invoke \/ Client \/ AttemptExpires \/ Environment

Spec == Init /\ [][Next]_vars

(* The worker runs and time passes.  Neither the server nor the network is *)
(* assumed to do anything.                                                 *)
FairSpec == Spec /\ WF_vars(Client) /\ WF_vars(AttemptExpires)

-----------------------------------------------------------------------------
(* Properties.                                                             *)

(* The client implements the abstract call: whatever is retried, lost or   *)
(* carried out late, a call returns once and reports success only when the *)
(* server has carried out a request of that call (retryOnFailure and the   *)
(* seven wrappers).                                                        *)
Abstract == INSTANCE RemoteCall WITH
    busy <- pc # "idle",
    results <- [i \in DOMAIN results |-> results[i] = "OK"],
    applied <- applied

ImplementsRemoteCall == Abstract!Spec

(* With a server that honours cancellation, a call that reported success   *)
(* has its effect in place when the caller goes on: no abandoned attempt   *)
(* of it or of an earlier call overwrites it (retryOnFailure sends the     *)
(* same request again after a deadline or a broken connection).            *)
SuccessSticks ==
    pc = "idle" /\ results # <<>> /\ Last(results) = "OK" /\ ~late =>
        /\ op = "CreateLoadBalancer" => row.st # "none"
        /\ op = "UpdateLoadBalancer" => row.st = "live" /\ row.cfg = val
        /\ op = "DeleteLoadBalancer" => row.st = "gone"
        /\ op = "AllocateFloatingIp" => row.fip
        /\ op = "ReleaseFloatingIp" => ~row.fip

(* A refusal ends the call and reaches the caller as it is, also after     *)
(* attempts that were lost: EnsureLoadBalancerDeleted takes NotFound for   *)
(* success and must see it (the switch in retryOnFailure).                 *)
RefusalIsFinal ==
    lastErr \in Final => /\ pc = "idle"
                         /\ Last(results) \in {lastErr, "CallerDone"}

(* As long as the longest backoff with its jitter can be represented, no   *)
(* attempt panics and every delay lies between one unit and the cap        *)
(* (calculateBackoff shifts by the attempt and adds the jitter first).     *)
BackoffFits == RetryMax >= 1 => 3 * RetryDelay * 2^RetryMax < 2^Width

BackoffSane == BackoffFits => /\ pc # "panic"
                              /\ pc = "backoff" => delay \in 1..MaxDelay

(* Every call returns, even when the server never answers and the          *)
(* connection never becomes ready: no attempt outlives its deadline and    *)
(* the attempts are bounded (client_test.go, "must still be bounded by     *)
(* Config.Timeout").                                                       *)
CallReturns == pc # "idle" ~> pc = "idle"
=============================================================================

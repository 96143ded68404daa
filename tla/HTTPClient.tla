------------------------------ MODULE HTTPClient ------------------------------
(***************************************************************************)
(* One call of HTTPClientWithRetries.ExecuteRequest (httpclient/client.go).*)
(* Calls share nothing but the limiter they wait for.  The server, the     *)
(* network, net/http and x/time/rate are what they may answer: a response  *)
(* or none, a body that can be read or not, a token or a refusal.          *)
(***************************************************************************)
EXTENDS Integers, Sequences, SequencesExt

CONSTANTS
    MaxRetries,     \* Opts.MaxRetries
    BaseBackoffs,   \* values of Opts.BaseBackoff, in nanoseconds
    StatusCodes,    \* what the server may answer
    NoResponse      \* Client.Do returned an error

ASSUME HTTPClientAssumption ==
    /\ MaxRetries \in Nat
    /\ BaseBackoffs \subseteq Nat
    /\ StatusCodes \subseteq 200..599
    /\ NoResponse \notin Int

VARIABLES
    pc,
    base,           \* Opts.BaseBackoff
    limited,        \* does RateLimiter return a limiter for the request?
    cancelled,      \* the context of the request
    attempt,
    bodyOpen,       \* a response body that is not closed
    sent,           \* history: what became of each request sent
    reports,        \* history: OnRequest calls
    retries,        \* history: OnRetry calls
    slept,          \* history: nanoseconds waited between attempts
    tokens          \* history: tokens taken from the limiter

vars == <<pc, base, limited, cancelled, attempt, bodyOpen, sent, reports, retries, slept, tokens>>

-------------------------------------------------------------------------------
\* 1 << n.
Shifted[n \in Nat] == IF n = 0 THEN 1 ELSE 2 * Shifted[n - 1]

\* Mutants: client errors are retried too; the shift is the attempt.
isRetryableErrorBroad(statusCode) == statusCode >= 400

CalculateBackoffLate(attempt_) == base * Shifted[attempt_]

isRetryableError(statusCode) == statusCode \in {429, 500, 502, 503, 504}

\* The first part of CalculateBackoffWithJitter.
CalculateBackoff(attempt_) == base * Shifted[attempt_ - 1]

\* rand.Int63n of half the backoff; it panics when that is nothing.
Jitters(backoff) == 0 .. (backoff \div 2) - 1

Init ==
    /\ pc = "loop"
    /\ base \in BaseBackoffs
    /\ limited \in BOOLEAN
    /\ cancelled = FALSE
    /\ attempt = 0
    /\ bodyOpen = FALSE
    /\ sent = <<>> /\ reports = <<>> /\ retries = 0 /\ slept = 0 /\ tokens = 0

-------------------------------------------------------------------------------
\* The head of the loop, and the wait before a retry.  The wait does not look at
\* the context.
BeginAttempt ==
    /\ pc = "loop"
    /\ attempt < MaxRetries
    /\ IF attempt = 0
       THEN pc' = "limit" /\ UNCHANGED <<retries, slept>>
       ELSE LET backoff == CalculateBackoff(attempt)
            IN /\ retries' = retries + 1
               /\ \/ /\ Jitters(backoff) = {}
                     /\ pc' = "panic"
                     /\ UNCHANGED slept
                  \/ \E jitter \in Jitters(backoff) :
                        /\ slept' = slept + backoff + jitter
                        /\ pc' = "limit"
    /\ UNCHANGED <<base, limited, cancelled, attempt, bodyOpen, sent, reports, tokens>>

\* Mutant: one attempt more.
AllAttemptsFailedLate ==
    /\ pc = "loop"
    /\ attempt >= MaxRetries
    /\ pc' = IF attempt > MaxRetries THEN "failed" ELSE "do"
    /\ UNCHANGED <<base, limited, cancelled, attempt, bodyOpen, sent, reports, retries, slept, tokens>>

AllAttemptsFailed ==
    /\ pc = "loop"
    /\ attempt >= MaxRetries
    /\ pc' = "failed"
    /\ UNCHANGED <<base, limited, cancelled, attempt, bodyOpen, sent, reports, retries, slept, tokens>>

\* Mutant: the limiter is not given the context of the request.
RateLimiterWaitOn ==
    /\ pc = "limit"
    /\ \/ ~ limited /\ pc' = "do" /\ UNCHANGED <<reports, tokens>>
       \/ /\ limited
          /\ tokens' = tokens + 1
          /\ pc' = "do"
          /\ UNCHANGED reports
       \/ /\ limited
          /\ reports' = Append(reports, "error")
          /\ pc' = "failed"
          /\ UNCHANGED tokens
    /\ UNCHANGED <<base, limited, cancelled, attempt, bodyOpen, sent, retries, slept>>

\* limiter.Wait: it refuses when the context ends first, when its deadline is too
\* near, and when the limiter can never give a token.
RateLimiterWait ==
    /\ pc = "limit"
    /\ \/ ~ limited /\ pc' = "do" /\ UNCHANGED <<reports, tokens>>
       \/ /\ limited /\ ~ cancelled
          /\ tokens' = tokens + 1
          /\ pc' = "do"
          /\ UNCHANGED reports
       \/ /\ limited
          /\ reports' = Append(reports, "error")
          /\ pc' = "failed"
          /\ UNCHANGED tokens
    /\ UNCHANGED <<base, limited, cancelled, attempt, bodyOpen, sent, retries, slept>>

\* c.Client.Do.
Do ==
    /\ pc = "do"
    /\ \/ /\ sent' = Append(sent, NoResponse)
          /\ reports' = Append(reports, "error")
          /\ attempt' = attempt + 1
          /\ pc' = "loop"
          /\ UNCHANGED bodyOpen
       \/ /\ ~ cancelled
          /\ \E statusCode \in StatusCodes : sent' = Append(sent, statusCode)
          /\ bodyOpen' = TRUE
          /\ pc' = "response"
          /\ UNCHANGED <<reports, attempt>>
    /\ UNCHANGED <<base, limited, cancelled, retries, slept, tokens>>

\* Mutants: the body of a response that is retried stays open; a status that is
\* retried goes unreported.
ProcessResponseLeaks ==
    /\ pc = "response"
    /\ LET statusCode == Last(sent)
       IN \/ /\ isRetryableError(statusCode)
             /\ reports' = Append(reports, "rate_limited")
             /\ attempt' = attempt + 1
             /\ pc' = "loop"
             /\ UNCHANGED bodyOpen
          \/ /\ ~ isRetryableError(statusCode)
             /\ bodyOpen' = FALSE
             /\ reports' = Append(reports, "error")
             /\ pc' = "failed"
             /\ UNCHANGED attempt
          \/ /\ statusCode = 200
             /\ reports' = Append(reports, "success")
             /\ pc' = "ok"
             /\ UNCHANGED <<bodyOpen, attempt>>
    /\ UNCHANGED <<base, limited, cancelled, sent, retries, slept, tokens>>

ProcessResponseSilent ==
    /\ pc = "response"
    /\ LET statusCode == Last(sent)
       IN \/ /\ isRetryableError(statusCode)
             /\ bodyOpen' = FALSE
             /\ attempt' = attempt + 1
             /\ pc' = "loop"
             /\ UNCHANGED reports
          \/ /\ ~ isRetryableError(statusCode)
             /\ bodyOpen' = FALSE
             /\ reports' = Append(reports, "error")
             /\ pc' = "failed"
             /\ UNCHANGED attempt
          \/ /\ statusCode = 200
             /\ reports' = Append(reports, "success")
             /\ pc' = "ok"
             /\ UNCHANGED <<bodyOpen, attempt>>
    /\ UNCHANGED <<base, limited, cancelled, sent, retries, slept, tokens>>

\* processResponse and what follows it.  A 200 whose body cannot be read is an
\* error that is not retried; the body of a good answer is left to the caller.
ProcessResponse ==
    /\ pc = "response"
    /\ LET statusCode == Last(sent)
       IN \/ /\ isRetryableError(statusCode)
             /\ bodyOpen' = FALSE
             /\ reports' = Append(reports, "rate_limited")
             /\ attempt' = attempt + 1
             /\ pc' = "loop"
          \/ /\ ~ isRetryableError(statusCode)
             /\ bodyOpen' = FALSE
             /\ reports' = Append(reports, "error")
             /\ pc' = "failed"
             /\ UNCHANGED attempt
          \/ /\ statusCode = 200
             /\ reports' = Append(reports, "success")
             /\ pc' = "ok"
             /\ UNCHANGED <<bodyOpen, attempt>>
    /\ UNCHANGED <<base, limited, cancelled, sent, retries, slept, tokens>>

Cancel ==
    /\ ~ cancelled
    /\ cancelled' = TRUE
    /\ UNCHANGED <<pc, base, limited, attempt, bodyOpen, sent, reports, retries, slept, tokens>>

Next ==
    \/ BeginAttempt \/ AllAttemptsFailed \/ RateLimiterWait \/ Do \/ ProcessResponse
    \/ Cancel

Spec == Init /\ [][Next]_vars

-------------------------------------------------------------------------------
(* Properties.                                                             *)

\* Types of the variables; no request is sent beyond MaxRetries.
TypeOK ==
    /\ pc \in {"loop", "limit", "do", "response", "ok", "failed", "panic"}
    /\ base \in BaseBackoffs
    /\ limited \in BOOLEAN /\ cancelled \in BOOLEAN /\ bodyOpen \in BOOLEAN
    /\ attempt \in 0..MaxRetries
    /\ sent \in Seq(StatusCodes \cup {NoResponse}) /\ Len(sent) <= MaxRetries
    /\ reports \in Seq({"error", "rate_limited", "success"})
    /\ retries \in 0..MaxRetries
    /\ slept \in Nat /\ tokens \in Nat

\* However a call goes, the only body it leaves open is that of the response it
\* returns: no connection is lost to a retry.
BodiesClosed ==
    pc \in {"limit", "do", "ok", "failed", "panic"} => (bodyOpen <=> pc = "ok")

\* The handler and the limiter see every attempt once: one report each, one retry
\* less than reports, one token for each request sent, and a success reported if
\* and only if it is returned.
AttemptsAccounted ==
    pc \in {"ok", "failed"} =>
        /\ Len(reports) - Len(sent) \in (IF limited THEN {0, 1} ELSE {0})
        /\ retries = (IF reports = <<>> THEN 0 ELSE Len(reports) - 1)
        /\ limited => tokens = Len(sent)
        /\ (\E i \in DOMAIN reports : reports[i] = "success") <=> pc = "ok"

\* No response, and the statuses that a README calls retryable.
MayPass == {NoResponse, 429, 500, 502, 503, 504}

\* A call that ended with a 200 it could not read the body of.
BodyUnread == pc = "failed" /\ sent # <<>> /\ Last(sent) = 200

\* A request is sent again after no response and after a status that may pass, and
\* after nothing else; no other call gives up before its attempts are used up than
\* one whose limiter refuses, whose last answer has another status, or whose 200
\* broke off while its body was read.  That last failure may pass as well, but the
\* code takes it for final: NetworkErrorsRetried says what the README makes of it.
RetriedForCause ==
    /\ \A i \in 1 .. Len(sent) - 1 : sent[i] \in MayPass
    /\ pc = "failed" /\ Len(reports) = Len(sent) /\ sent # <<>> =>
          \/ Len(sent) = MaxRetries
          \/ Last(sent) \notin MayPass \cup {200}
          \/ BodyUnread

\* "Also retries on network errors" (httpclient/README.md): the connection that fails
\* while a body is read is one, so a call does not fail for it before the last
\* attempt.  The code returns the error at once.
NetworkErrorsRetried == BodyUnread => Len(sent) = MaxRetries

\* Before its n-th retry a call has waited at least 2^n - 1 times the base, and
\* less than half as much again.
BackoffGrows ==
    pc \in {"do", "response", "ok"} =>
        LET least == base * (Shifted[attempt] - 1)
        IN least <= slept /\ (attempt > 0 => 2 * slept < 3 * least)

===============================================================================

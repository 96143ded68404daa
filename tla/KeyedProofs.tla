----------------------------- MODULE KeyedProofs -----------------------------
(***************************************************************************)
(* Theorems about a request served with several keys: the invariants of    *)
(* HTTPClient and KeyedRequest for every list of keys, every number of     *)
(* retries and every backoff.                                              *)
(***************************************************************************)
EXTENDS KeyedRequest, NaturalsLemmas, TLAPS

-------------------------------------------------------------------------------
(* The inductive invariant of one ExecuteRequest: where it is in its loop  *)
(* says how much of each thing there has been.                             *)

\* Nothing but the head of the loop lies between an attempt and its retry.
RetriesBefore(n) == IF n = 0 THEN 0 ELSE n - 1

\* So much is sent, reported, waited for and paid to the limiter.
Count(nSent, nReports, nRetries, nTokens) ==
    /\ Len(sent) = nSent
    /\ Len(reports) = nReports
    /\ retries = nRetries
    /\ limited => tokens = nTokens

Progress ==
    /\ pc = "loop" => Count(attempt, attempt, RetriesBefore(attempt), attempt)
    /\ pc = "limit" => Count(attempt, attempt, attempt, attempt)
    /\ pc = "do" => Count(attempt, attempt, attempt, attempt + 1)
    /\ pc = "response" => /\ Count(attempt + 1, attempt, attempt, attempt + 1)
                          /\ sent[attempt + 1] \in StatusCodes
    /\ pc = "ok" => Count(attempt + 1, attempt + 1, attempt, attempt + 1)
    /\ pc = "failed" =>
          \/ attempt = MaxRetries /\ Count(attempt, attempt, RetriesBefore(attempt), attempt)
          \/ limited /\ Count(attempt, attempt + 1, attempt, attempt)
          \/ /\ Count(attempt + 1, attempt + 1, attempt, attempt + 1)
             /\ sent[attempt + 1] \notin MayPass
    /\ pc = "panic" => Len(sent) = attempt

\* The attempts that are over failed in a way that may pass.
Failures ==
    /\ \A n \in 1 .. attempt : n \in DOMAIN sent /\ sent[n] \in MayPass
    /\ Len(sent) <= attempt + 1

Successes ==
    /\ \A n \in DOMAIN reports : reports[n] = "success" => pc = "ok"
    /\ pc = "ok" => reports # <<>> /\ reports[Len(reports)] = "success"

\* The sum of the waits, in which the n-th is base * Shifted[n - 1] and less than
\* half as much again.
Waits ==
    pc # "panic" =>
        /\ base * (Shifted[retries] - 1) <= slept
        /\ IF retries = 0 THEN slept = 0
                          ELSE 2 * slept < 3 * (base * (Shifted[retries] - 1))

HInv ==
    /\ TypeOK
    /\ pc \in {"limit", "do", "response", "ok", "panic"} => attempt < MaxRetries
    /\ bodyOpen <=> pc \in {"response", "ok"}
    /\ Progress /\ Failures /\ Successes /\ Waits

-------------------------------------------------------------------------------
(* The inductive invariant of the request.                                 *)

MostRetries == IF MaxRetries = 0 THEN 0 ELSE MaxRetries - 1

KTypeOK ==
    /\ availableKeys \in Seq(Keys \cup {EmptyKey})
    /\ i \in 1 .. Len(availableKeys) + 1
    /\ marked \in Seq(Keys)
    /\ load \in Seq(Nat)
    /\ begunLate \subseteq 1 .. i
    /\ late \in Nat

\* A limiter sends nothing with a key whose turn came too late.
NothingSentLate ==
    /\ begunLate # {} => cancelled
    /\ limited /\ i \in begunLate =>
          pc \in {"loop", "limit", "failed"} /\ attempt = 0 /\ sent = <<>>

LateWaits ==
    /\ ~ cancelled => late = 0
    /\ limited =>
          \/ late = 0
          \/ late = 1 /\ (pc \in {"limit", "failed", "panic"} \/ (pc = "loop" /\ attempt = 0))
    /\ ~ limited => late <= MostRetries * (i - 1) + retries

KInv ==
    /\ HInv /\ KTypeOK
    /\ MarkedInTurn /\ NothingSentLate /\ LateWaits
    /\ retries <= MostRetries
    /\ i = Len(availableKeys) + 1 => pc = "loop" /\ attempt = 0
-------------------------------------------------------------------------------
(* The powers of two.                                                      *)

LEMMA ShiftedValues ==
    /\ Shifted[0] = 1
    /\ \A n \in Nat : Shifted[n] \in Nat \ {0} /\ Shifted[n + 1] = 2 * Shifted[n]
<1> DEFINE Positive == Nat \ {0}
           double == [n \in Nat |-> [m \in Positive |-> 2 * m]]
<1>1. PICK f : IsRecursive(f, Positive, 1, double)
  <2>1. double \in [Nat -> [Positive -> Positive]] /\ 1 \in Positive
    OBVIOUS
  <2> HIDE DEF double, Positive
  <2> QED
    BY <2>1, Recursion
<1>2. f = [n \in Nat |-> IF n = 0 THEN 1 ELSE 2 * f[n - 1]]
  <2>1. ASSUME NEW n \in Nat, n # 0 PROVE f[n] = 2 * f[n - 1]
    <3>1. n - 1 \in Nat /\ (n - 1) + 1 = n
      BY <2>1
    <3> QED
      BY <1>1, <3>1 DEF IsRecursive
  <2> QED
    BY <1>1, <2>1 DEF IsRecursive
<1>3. Shifted = [n \in Nat |-> IF n = 0 THEN 1 ELSE 2 * Shifted[n - 1]]
  BY <1>2, Zenon DEF Shifted
<1> HIDE DEF double
<1>4. Shifted[0] = 1 /\ \A n \in Nat : Shifted[n + 1] = 2 * Shifted[n]
  BY <1>3
<1> DEFINE S == {n \in Nat : Shifted[n] \in Positive}
<1>5. Nat \subseteq S
  <2>1. 0 \in S /\ \A n \in Nat : n \in S => n + 1 \in S
    BY <1>4
  <2> HIDE DEF S
  <2> QED
    BY <2>1, SetInduction
<1> QED
  BY <1>4, <1>5
-------------------------------------------------------------------------------
(* One ExecuteRequest.                                                     *)

\* The type of an element of an extended sequence.
LEMMA AppendElements ==
    ASSUME NEW S, NEW s \in Seq(S), NEW e \in S
    PROVE  /\ Append(s, e) \in Seq(S)
           /\ Len(Append(s, e)) = Len(s) + 1
           /\ DOMAIN Append(s, e) = 1 .. Len(s) + 1
           /\ Append(s, e)[Len(s) + 1] = e
           /\ \A n \in 1 .. Len(s) : Append(s, e)[n] = s[n]
OBVIOUS

\* The wait before the retry after the attempt: at least its backoff, and less than
\* half as much again.
LEMMA WaitsGrow ==
    ASSUME NEW b \in Nat, NEW n \in Nat, NEW waited \in Nat, NEW backoff, NEW jitter \in Nat,
           b * (Shifted[n] - 1) <= waited,
           IF n = 0 THEN waited = 0 ELSE 2 * waited < 3 * (b * (Shifted[n] - 1)),
           backoff = b * Shifted[n], 2 * jitter < backoff
    PROVE  /\ b * (Shifted[n + 1] - 1) <= waited + backoff + jitter
           /\ 2 * (waited + backoff + jitter) < 3 * (b * (Shifted[n + 1] - 1))
           /\ waited + backoff + jitter \in Nat
<1> DEFINE p == b * Shifted[n]
<1>1. p \in Nat
  BY ShiftedValues
<1>2. b * (Shifted[n] - 1) = p - b
  BY ShiftedValues
<1>3. b * (Shifted[n + 1] - 1) = 2 * p - b
  <2>1. \A k \in Nat : b * (2 * k - 1) = 2 * (b * k) - b
    OBVIOUS
  <2> QED
    BY <2>1, ShiftedValues
<1>4. n = 0 => p = b
  BY ShiftedValues
<1> HIDE DEF p
<1>5. backoff = p
  BY DEF p
<1> QED
  BY <1>1, <1>2, <1>3, <1>4, <1>5

LEMMA HInit ==
    Init => HInv
<1> SUFFICES ASSUME Init PROVE HInv
  OBVIOUS
<1> USE HTTPClientAssumption DEF Init
<1>1. TypeOK
  <2>1. attempt \in 0 .. MaxRetries /\ retries \in 0 .. MaxRetries
    OBVIOUS
  <2>2. sent \in Seq(StatusCodes \cup {NoResponse}) /\ Len(sent) <= MaxRetries
    OBVIOUS
  <2>3. reports \in Seq({"error", "rate_limited", "success"})
    OBVIOUS
  <2> QED
    BY <2>1, <2>2, <2>3 DEF TypeOK
<1>2. base * (Shifted[0] - 1) = 0
  BY ShiftedValues
<1>3. Waits
  BY <1>2 DEF Waits
<1> QED
  BY <1>1, <1>3 DEF HInv, Progress, Count, RetriesBefore, Failures, Successes

LEMMA HBeginAttempt ==
    HInv /\ BeginAttempt => HInv'
<1> SUFFICES ASSUME HInv, BeginAttempt PROVE HInv'
  OBVIOUS
<1> USE HTTPClientAssumption DEF BeginAttempt
<1>1. TypeOK /\ Progress /\ Waits
  BY DEF HInv
<1>2. /\ pc = "loop" /\ attempt < MaxRetries /\ attempt \in Nat /\ base \in Nat
      /\ UNCHANGED <<base, limited, cancelled, attempt, bodyOpen, sent, reports, tokens>>
      /\ retries = RetriesBefore(attempt)
  BY <1>1 DEF TypeOK, Progress, Count
<1>3. CASE attempt = 0
  <2>1. pc' = "limit" /\ UNCHANGED <<retries, slept>> /\ retries = 0
    BY <1>2, <1>3 DEF RetriesBefore
  <2>2. TypeOK'
    BY <1>1, <1>2, <2>1 DEF TypeOK
  <2>3. Progress'
    BY <1>1, <1>2, <1>3, <2>1 DEF Progress, Count
  <2>4. (Failures /\ Successes)'
    BY <1>2, <2>1 DEF HInv, Failures, Successes
  <2>5. Waits'
    BY <1>1, <1>2, <2>1 DEF Waits
  <2> QED
    BY <1>2, <2>1, <2>2, <2>3, <2>4, <2>5 DEF HInv
<1>4. CASE attempt # 0 /\ pc' = "panic"
  <2>1. retries' = retries + 1 /\ UNCHANGED slept /\ retries = attempt - 1
    BY <1>2, <1>4 DEF RetriesBefore
  <2>2. TypeOK'
    BY <1>1, <1>2, <1>4, <2>1 DEF TypeOK
  <2>3. Progress'
    BY <1>1, <1>2, <1>4, <2>1 DEF Progress, Count
  <2>4. (Failures /\ Successes)'
    BY <1>2, <1>4 DEF HInv, Failures, Successes
  <2> QED
    BY <1>2, <1>4, <2>2, <2>3, <2>4 DEF HInv, Waits
<1>5. CASE attempt # 0 /\ pc' # "panic"
  <2> DEFINE backoff == CalculateBackoff(attempt)
  <2>1. /\ retries' = retries + 1 /\ retries = attempt - 1 /\ retries \in Nat
        /\ pc' = "limit"
        /\ \E jitter \in Jitters(backoff) : slept' = slept + backoff + jitter
    BY <1>2, <1>5 DEF RetriesBefore
  <2>2. PICK jitter \in Jitters(backoff) : slept' = slept + backoff + jitter
    BY <2>1
  <2>3. backoff \in Nat /\ backoff = base * Shifted[retries]
    BY <1>2, <2>1, ShiftedValues DEF CalculateBackoff
  <2>4. jitter \in Nat /\ 2 * jitter < backoff
    <3> HIDE DEF backoff
    <3>1. jitter \in 0 .. (backoff \div 2) - 1
      BY <2>2 DEF Jitters
    <3> QED
      BY <2>3, <3>1
  <2>5. /\ base * (Shifted[retries + 1] - 1) <= slept'
        /\ 2 * slept' < 3 * (base * (Shifted[retries + 1] - 1))
        /\ slept' \in Nat
    <3>1. /\ base * (Shifted[retries] - 1) <= slept
          /\ IF retries = 0 THEN slept = 0
                            ELSE 2 * slept < 3 * (base * (Shifted[retries] - 1))
      BY <1>1, <1>2 DEF Waits
    <3>2. slept \in Nat
      BY <1>1 DEF TypeOK
    <3> HIDE DEF backoff
    <3> QED
      BY <1>2, <2>1, <2>2, <2>3, <2>4, <3>1, <3>2, WaitsGrow
  <2>6. TypeOK'
    BY <1>1, <1>2, <2>1, <2>5 DEF TypeOK
  <2>7. Progress'
    BY <1>1, <1>2, <1>5, <2>1 DEF Progress, Count
  <2>8. (Failures /\ Successes)'
    BY <1>2, <2>1 DEF HInv, Failures, Successes
  <2>9. Waits'
    BY <1>2, <2>1, <2>5 DEF Waits
  <2> QED
    BY <1>2, <2>1, <2>6, <2>7, <2>8, <2>9 DEF HInv
<1> QED
  BY <1>3, <1>4, <1>5

LEMMA HAllAttemptsFailed ==
    HInv /\ AllAttemptsFailed => HInv'
<1> SUFFICES ASSUME HInv, AllAttemptsFailed PROVE HInv'
  OBVIOUS
<1> USE HTTPClientAssumption DEF AllAttemptsFailed
<1>1. attempt = MaxRetries
  BY DEF HInv, TypeOK
<1>2. TypeOK'
  BY DEF HInv, TypeOK
<1>3. Progress'
  BY <1>1 DEF HInv, Progress, Count
<1> QED
  BY <1>2, <1>3 DEF HInv, Failures, Successes, Waits

LEMMA HRateLimiterWait ==
    HInv /\ RateLimiterWait => HInv'
<1> SUFFICES ASSUME HInv, RateLimiterWait PROVE HInv'
  OBVIOUS
<1> USE HTTPClientAssumption
<1>1. /\ pc = "limit" /\ attempt < MaxRetries /\ attempt \in Nat
      /\ Count(attempt, attempt, attempt, attempt)
      /\ UNCHANGED <<base, limited, cancelled, attempt, bodyOpen, sent, retries, slept>>
  BY DEF HInv, TypeOK, Progress, RateLimiterWait
<1>2. CASE pc' = "do" /\ UNCHANGED reports /\ (limited => tokens' = tokens + 1) /\ tokens' \in Nat
  <2>1. TypeOK'
    BY <1>1, <1>2 DEF HInv, TypeOK
  <2>2. Progress'
    BY <1>1, <1>2 DEF Progress, Count
  <2> QED
    BY <1>1, <1>2, <2>1, <2>2 DEF HInv, Failures, Successes, Waits
<1>3. CASE limited /\ reports' = Append(reports, "error") /\ pc' = "failed" /\ UNCHANGED tokens
  <2>1. reports \in Seq({"error", "rate_limited", "success"})
    BY DEF HInv, TypeOK
  <2>2. /\ reports' \in Seq({"error", "rate_limited", "success"})
        /\ Len(reports') = Len(reports) + 1
        /\ DOMAIN reports' = 1 .. Len(reports) + 1
        /\ reports'[Len(reports) + 1] = "error"
        /\ \A n \in 1 .. Len(reports) : reports'[n] = reports[n]
    BY <1>3, <2>1, AppendElements
  <2>3. TypeOK'
    BY <1>1, <1>3, <2>2 DEF HInv, TypeOK
  <2>4. Progress'
    BY <1>1, <1>3, <2>2 DEF Progress, Count
  <2>5. Successes'
    BY <1>1, <1>3, <2>1, <2>2 DEF HInv, Successes
  <2> QED
    BY <1>1, <1>3, <2>3, <2>4, <2>5 DEF HInv, Failures, Waits
<1> QED
  BY <1>2, <1>3 DEF RateLimiterWait, HInv, TypeOK

LEMMA HDo ==
    HInv /\ Do => HInv'
<1> SUFFICES ASSUME HInv, Do PROVE HInv'
  OBVIOUS
<1> USE HTTPClientAssumption
<1>1. /\ pc = "do" /\ attempt < MaxRetries /\ attempt \in Nat
      /\ Count(attempt, attempt, attempt, attempt + 1)
      /\ UNCHANGED <<base, limited, cancelled, retries, slept, tokens>>
      /\ sent \in Seq(StatusCodes \cup {NoResponse})
      /\ reports \in Seq({"error", "rate_limited", "success"})
  BY DEF HInv, TypeOK, Progress, Do
<1>2. CASE /\ sent' = Append(sent, NoResponse)
           /\ reports' = Append(reports, "error")
           /\ attempt' = attempt + 1
           /\ pc' = "loop"
           /\ UNCHANGED bodyOpen
  <2>1. /\ reports' \in Seq({"error", "rate_limited", "success"})
        /\ Len(reports') = Len(reports) + 1
        /\ DOMAIN reports' = 1 .. Len(reports) + 1
        /\ reports'[Len(reports) + 1] = "error"
        /\ \A n \in 1 .. Len(reports) : reports'[n] = reports[n]
    BY <1>1, <1>2, AppendElements
  <2>2. /\ sent' \in Seq(StatusCodes \cup {NoResponse})
        /\ Len(sent') = Len(sent) + 1
        /\ DOMAIN sent' = 1 .. Len(sent) + 1
        /\ sent'[Len(sent) + 1] = NoResponse
        /\ \A n \in 1 .. Len(sent) : sent'[n] = sent[n]
    BY <1>1, <1>2, AppendElements
  <2>3. Len(sent) = attempt /\ Len(reports) = attempt
    BY <1>1 DEF Count
  <2>4. TypeOK'
    BY <1>1, <1>2, <2>1, <2>2, <2>3 DEF HInv, TypeOK
  <2>5. Progress'
    BY <1>1, <1>2, <2>1, <2>2 DEF Progress, Count, RetriesBefore
  <2>6. Failures'
    BY <1>1, <1>2, <2>2, <2>3 DEF HInv, Failures, MayPass
  <2>7. Successes'
    BY <1>1, <1>2, <2>1 DEF HInv, Successes
  <2> QED
    BY <1>1, <1>2, <2>4, <2>5, <2>6, <2>7 DEF HInv, Waits
<1>3. CASE /\ \E statusCode \in StatusCodes : sent' = Append(sent, statusCode)
           /\ bodyOpen' = TRUE
           /\ pc' = "response"
           /\ UNCHANGED <<reports, attempt>>
  <2>1. PICK statusCode \in StatusCodes : sent' = Append(sent, statusCode)
    BY <1>3
  <2>2. /\ sent' \in Seq(StatusCodes \cup {NoResponse})
        /\ Len(sent') = Len(sent) + 1
        /\ DOMAIN sent' = 1 .. Len(sent) + 1
        /\ sent'[Len(sent) + 1] = statusCode
        /\ \A n \in 1 .. Len(sent) : sent'[n] = sent[n]
    BY <1>1, <2>1, AppendElements
  <2>3. Len(sent) = attempt /\ Len(reports) = attempt
    BY <1>1 DEF Count
  <2>4. TypeOK'
    BY <1>1, <1>3, <2>2, <2>3 DEF HInv, TypeOK
  <2>5. Progress'
    BY <1>1, <1>3, <2>1, <2>2 DEF Progress, Count
  <2>6. Failures'
    BY <1>1, <1>3, <2>2, <2>3 DEF HInv, Failures
  <2> QED
    BY <1>1, <1>3, <2>4, <2>5, <2>6 DEF HInv, Waits, Successes
<1> QED
  BY <1>2, <1>3 DEF Do

LEMMA HProcessResponse ==
    HInv /\ ProcessResponse => HInv'
<1> SUFFICES ASSUME HInv, ProcessResponse PROVE HInv'
  OBVIOUS
<1> USE HTTPClientAssumption
<1>1. /\ pc = "response" /\ attempt < MaxRetries /\ attempt \in Nat
      /\ Count(attempt + 1, attempt, attempt, attempt + 1)
      /\ sent[attempt + 1] \in StatusCodes
      /\ UNCHANGED <<base, limited, cancelled, sent, retries, slept, tokens>>
      /\ sent \in Seq(StatusCodes \cup {NoResponse})
      /\ reports \in Seq({"error", "rate_limited", "success"})
  BY DEF HInv, TypeOK, Progress, ProcessResponse
<1>2. Len(sent) = attempt + 1 /\ Len(reports) = attempt
  BY <1>1 DEF Count
<1>3. Last(sent) = sent[attempt + 1]
  BY <1>2 DEF Last
<1>4. PICK report \in {"error", "rate_limited", "success"} : reports' = Append(reports, report)
  BY DEF ProcessResponse
<1>5. /\ reports' \in Seq({"error", "rate_limited", "success"})
      /\ Len(reports') = Len(reports) + 1
      /\ DOMAIN reports' = 1 .. Len(reports) + 1
      /\ reports'[Len(reports) + 1] = report
      /\ \A n \in 1 .. Len(reports) : reports'[n] = reports[n]
  BY <1>1, <1>4, AppendElements
<1>6. CASE /\ isRetryableError(sent[attempt + 1]) /\ report # "success"
           /\ bodyOpen' = FALSE
           /\ attempt' = attempt + 1
           /\ pc' = "loop"
  <2>1. TypeOK'
    <3>1. attempt' \in 0 .. MaxRetries
      BY <1>1, <1>6
    <3>2. /\ base \in BaseBackoffs /\ limited \in BOOLEAN /\ cancelled \in BOOLEAN
          /\ Len(sent) <= MaxRetries /\ retries \in 0 .. MaxRetries
          /\ slept \in Nat /\ tokens \in Nat
      BY DEF HInv, TypeOK
    <3> QED
      BY <1>1, <1>5, <1>6, <3>1, <3>2 DEF TypeOK
  <2>2. Progress'
    BY <1>1, <1>5, <1>6 DEF Progress, Count, RetriesBefore
  <2>3. Failures'
    BY <1>1, <1>2, <1>6 DEF HInv, Failures, MayPass, isRetryableError
  <2>4. Successes'
    BY <1>1, <1>5, <1>6 DEF HInv, Successes
  <2> QED
    BY <1>1, <1>6, <2>1, <2>2, <2>3, <2>4 DEF HInv, Waits
<1>7. CASE /\ ~ isRetryableError(sent[attempt + 1]) /\ report = "error"
           /\ bodyOpen' = FALSE
           /\ pc' = "failed"
           /\ UNCHANGED attempt
  <2>1. TypeOK'
    BY <1>1, <1>5, <1>7 DEF HInv, TypeOK
  <2>2. sent[attempt + 1] \notin MayPass
    <3>1. sent[attempt + 1] # NoResponse
      <4>1. 200 .. 599 \subseteq Int
        OBVIOUS
      <4> QED
        BY <1>1, <4>1, Zenon
    <3> QED
      BY <1>7, <3>1 DEF MayPass, isRetryableError
  <2>3. Progress'
    BY <1>1, <1>5, <1>7, <2>2 DEF Progress, Count
  <2>4. Successes'
    BY <1>1, <1>5, <1>7 DEF HInv, Successes
  <2> QED
    BY <1>1, <1>7, <2>1, <2>3, <2>4 DEF HInv, Waits, Failures
<1>8. CASE /\ report = "success"
           /\ pc' = "ok"
           /\ UNCHANGED <<bodyOpen, attempt>>
  <2>1. TypeOK'
    BY <1>1, <1>5, <1>8 DEF HInv, TypeOK
  <2>2. Progress'
    BY <1>1, <1>5, <1>8 DEF Progress, Count
  <2>3. Successes'
    BY <1>1, <1>2, <1>5, <1>8 DEF HInv, Successes
  <2> QED
    BY <1>1, <1>8, <2>1, <2>2, <2>3 DEF HInv, Waits, Failures
<1> QED
  <2>1. Append(reports, "error")[Len(reports) + 1] = "error"
    BY <1>1, AppendElements
  <2>2. Append(reports, "rate_limited")[Len(reports) + 1] = "rate_limited"
    BY <1>1, AppendElements
  <2>3. Append(reports, "success")[Len(reports) + 1] = "success"
    BY <1>1, AppendElements
  <2> QED
    BY <1>3, <1>5, <1>6, <1>7, <1>8, <2>1, <2>2, <2>3 DEF ProcessResponse

LEMMA HCancel ==
    HInv /\ Cancel => HInv'
BY DEF HInv, TypeOK, Progress, Count, Failures, Successes, Waits, Cancel

LEMMA HNext ==
    HInv /\ [Next]_vars => HInv'
<1>1. HInv /\ UNCHANGED vars => HInv'
  BY DEF HInv, TypeOK, Progress, Count, Failures, Successes, Waits, vars
<1> QED
  BY <1>1, HBeginAttempt, HAllAttemptsFailed, HRateLimiterWait, HDo, HProcessResponse, HCancel
     DEF Next

\* What the positions of the inductive invariant say once a call is over.
LEMMA HInvImplies ==
    HInv => BodiesClosed /\ AttemptsAccounted /\ RetriedForCause /\ BackoffGrows
<1> SUFFICES ASSUME HInv
             PROVE  BodiesClosed /\ AttemptsAccounted /\ RetriedForCause /\ BackoffGrows
  OBVIOUS
<1> USE HTTPClientAssumption
<1>1. /\ attempt \in Nat
      /\ sent \in Seq(StatusCodes \cup {NoResponse})
      /\ reports \in Seq({"error", "rate_limited", "success"})
  BY DEF HInv, TypeOK
<1>2. BodiesClosed
  BY DEF HInv, BodiesClosed
<1>3. AttemptsAccounted
  <2> SUFFICES ASSUME pc \in {"ok", "failed"}
               PROVE  /\ Len(reports) - Len(sent) \in (IF limited THEN {0, 1} ELSE {0})
                      /\ retries = (IF reports = <<>> THEN 0 ELSE Len(reports) - 1)
                      /\ limited => tokens = Len(sent)
                      /\ (\E n \in DOMAIN reports : reports[n] = "success") <=> pc = "ok"
    BY DEF AttemptsAccounted
  <2>1. /\ Len(reports) - Len(sent) \in (IF limited THEN {0, 1} ELSE {0})
        /\ retries = RetriesBefore(Len(reports))
        /\ limited => tokens = Len(sent)
    BY <1>1 DEF HInv, Progress, Count, RetriesBefore
  <2>2. reports = <<>> <=> Len(reports) = 0
    BY <1>1
  <2>3. (\E n \in DOMAIN reports : reports[n] = "success") <=> pc = "ok"
    BY <1>1 DEF HInv, Successes
  <2> QED
    BY <2>1, <2>2, <2>3 DEF RetriesBefore
<1>4. RetriedForCause
  <2>1. ASSUME NEW n \in 1 .. Len(sent) - 1 PROVE sent[n] \in MayPass
    BY <1>1 DEF HInv, Failures
  <2>2. ASSUME pc = "failed", Len(reports) = Len(sent), sent # <<>>
        PROVE  Len(sent) = MaxRetries \/ Last(sent) \notin MayPass
    BY <1>1, <2>2 DEF HInv, Progress, Count, Last
  <2> QED
    BY <2>1, <2>2 DEF RetriedForCause, BodyUnread
<1>5. BackoffGrows
  <2> SUFFICES ASSUME pc \in {"do", "response", "ok"}
               PROVE  /\ base * (Shifted[attempt] - 1) <= slept
                      /\ attempt > 0 => 2 * slept < 3 * (base * (Shifted[attempt] - 1))
    BY DEF BackoffGrows
  <2>1. retries = attempt
    BY DEF HInv, Progress, Count
  <2> QED
    BY <1>1, <2>1 DEF HInv, Waits
<1> QED
  BY <1>2, <1>3, <1>4, <1>5

\* The next ExecuteRequest begins as the first.
LEMMA HFresh ==
    HInv /\ pc = "failed" /\ NewExecuteRequest => HInv'
<1> SUFFICES ASSUME HInv, pc = "failed", NewExecuteRequest PROVE HInv'
  OBVIOUS
<1> USE HTTPClientAssumption DEF NewExecuteRequest
<1>1. TypeOK'
  <2>1. attempt' \in 0 .. MaxRetries /\ retries' \in 0 .. MaxRetries
    OBVIOUS
  <2>2. sent' \in Seq(StatusCodes \cup {NoResponse}) /\ Len(sent') <= MaxRetries
    OBVIOUS
  <2>3. reports' \in Seq({"error", "rate_limited", "success"})
    OBVIOUS
  <2> QED
    BY <2>1, <2>2, <2>3 DEF HInv, TypeOK
<1>2. base' * (Shifted[0] - 1) = 0
  BY ShiftedValues DEF HInv, TypeOK
<1>3. Waits'
  BY <1>2 DEF Waits
<1> QED
  BY <1>1, <1>3 DEF HInv, Progress, Count, RetriesBefore, Failures, Successes

-------------------------------------------------------------------------------
(* The request and its keys.                                               *)

LEMMA KInit ==
    KeyedInit => KInv
<1> SUFFICES ASSUME KeyedInit PROVE KInv
  OBVIOUS
<1> USE KeyListsAssumption, HTTPClientAssumption
<1>1. HInv
  BY HInit DEF KeyedInit
<1>2. availableKeys \in Seq(Keys \cup {EmptyKey})
  BY DEF KeyedInit
<1>3. KTypeOK
  BY <1>2 DEF KeyedInit, KTypeOK
<1>4. MarkedInTurn
  <2>1. TurnsWithKey = {} /\ DOMAIN marked = {}
    BY DEF KeyedInit, TurnsWithKey
  <2>2. [n \in {} |-> 0] \in [{} -> {}]
    OBVIOUS
  <2>3. Len(load) = 0 /\ DOMAIN load = {} /\ i = 1 /\ outcome = "trying"
    BY DEF KeyedInit
  <2>4. \E turn \in [{} -> {}] :
           /\ \A n \in {} : \E m \in {} : turn[m] = n
           /\ \A m, n \in {} : m < n => turn[m] < turn[n]
           /\ \A m \in {} : marked[m] = availableKeys[turn[m]]
    BY <2>2
  <2>5. \E turn \in [DOMAIN marked -> TurnsWithKey] :
           /\ \A n \in TurnsWithKey : \E m \in DOMAIN marked : turn[m] = n
           /\ \A m, n \in DOMAIN marked : m < n => turn[m] < turn[n]
           /\ \A m \in DOMAIN marked : marked[m] = availableKeys[turn[m]]
    BY <2>1, <2>4, Zenon
  <2>6. Len(load) = i - 1 /\ \A n \in DOMAIN load :
           load[n] <= IF limited /\ n \in begunLate THEN 0 ELSE MaxRetries
    BY <2>3
  <2> QED
    BY <2>3, <2>5, <2>6, Zenon DEF MarkedInTurn
<1>5. retries = 0 /\ attempt = 0 /\ pc = "loop" /\ retries <= MostRetries
  BY DEF KeyedInit, Init, MostRetries
<1>6. LateWaits
  <2>1. MostRetries * (i - 1) = 0
    BY DEF KeyedInit, MostRetries
  <2> QED
    BY <1>5, <2>1 DEF KeyedInit, LateWaits
<1> QED
  BY <1>1, <1>3, <1>4, <1>5, <1>6 DEF KInv, KeyedInit, NothingSentLate

\* Waits are counted while they are not too many, and those after the cancellation
\* are late.
LEMMA KExecutor ==
    KInv /\ Executor => KInv'
<1> SUFFICES ASSUME KInv, Executor PROVE KInv'
  OBVIOUS
<1>0. MaxRetries \in Nat
  BY HTTPClientAssumption
<1>1. /\ HInv /\ KTypeOK /\ TypeOK
      /\ UNCHANGED <<availableKeys, i, outcome, marked, load, begunLate, limited, cancelled>>
      /\ i <= Len(availableKeys)
      /\ late' = IF cancelled /\ retries' # retries THEN late + 1 ELSE late
  BY DEF KInv, HInv, Executor, BeginAttempt, AllAttemptsFailed, RateLimiterWait, Do, ProcessResponse
<1>2. HInv'
  BY <1>1, HNext DEF Executor, Next
<1>3. MarkedInTurn'
  <2>1. TurnsWithKey' = TurnsWithKey
    BY <1>1 DEF TurnsWithKey
  <2>2. MarkedInTurn
    BY DEF KInv
  <2> QED
    BY <1>1, <2>1, <2>2 DEF MarkedInTurn
<1>4. /\ retries \in Nat
      /\ retries' = retries \/ retries' = retries + 1
      /\ retries' <= MostRetries
      /\ retries' # retries => pc = "loop" /\ attempt # 0 /\ pc' \in {"limit", "panic"}
  <2>1. CASE BeginAttempt
    <3>1. CASE attempt = 0
      BY <1>0, <1>1, <2>1, <3>1 DEF BeginAttempt, KInv, TypeOK
    <3>2. CASE attempt # 0
      <4>1. retries = attempt - 1 /\ retries' = retries + 1 /\ attempt < MaxRetries
        BY <1>1, <2>1, <3>2 DEF BeginAttempt, HInv, Progress, Count, RetriesBefore, TypeOK
      <4>2. pc = "loop" /\ pc' \in {"limit", "panic"}
        BY <2>1, <3>2 DEF BeginAttempt
      <4> QED
        BY <1>0, <1>1, <3>2, <4>1, <4>2 DEF MostRetries, TypeOK
    <3> QED
      BY <3>1, <3>2
  <2>2. CASE ~ BeginAttempt
    BY <1>0, <1>1, <2>2 DEF Executor, AllAttemptsFailed, RateLimiterWait, Do, ProcessResponse, KInv, TypeOK
  <2> QED
    BY <2>1, <2>2
<1>5. /\ late \in Nat
      /\ \/ late' = late
         \/ cancelled /\ late' = late + 1 /\ retries' # retries
  BY <1>1 DEF KTypeOK
<1>8. KTypeOK'
  BY <1>1, <1>5 DEF KTypeOK
<1>6. NothingSentLate'
  <2> SUFFICES ASSUME limited, i \in begunLate
               PROVE  pc' \in {"loop", "limit", "failed"} /\ attempt' = 0 /\ sent' = <<>>
    BY <1>1 DEF KInv, NothingSentLate
  <2>1. cancelled /\ pc \in {"loop", "limit", "failed"} /\ attempt = 0 /\ sent = <<>>
    BY DEF KInv, NothingSentLate
  <2> QED
    BY <2>1 DEF Executor, BeginAttempt, AllAttemptsFailed, RateLimiterWait, Do, ProcessResponse
<1>7. LateWaits'
  <2>1. ASSUME ~ cancelled PROVE late' = 0
    BY <1>5, <2>1 DEF KInv, LateWaits
  <2>2. ASSUME limited
        PROVE  \/ late' = 0
               \/ /\ late' = 1
                  /\ pc' \in {"limit", "failed", "panic"} \/ (pc' = "loop" /\ attempt' = 0)
    <3>1. CASE late = 0
      BY <1>4, <1>5, <3>1
    <3>2. CASE late = 1
      <4>1. cancelled /\ (pc \in {"limit", "failed", "panic"} \/ (pc = "loop" /\ attempt = 0))
        BY <2>2, <3>2 DEF KInv, LateWaits
      <4>2. late' = 1
        BY <1>4, <1>5, <3>2, <4>1
      <4> QED
        BY <2>2, <4>1, <4>2
           DEF Executor, BeginAttempt, AllAttemptsFailed, RateLimiterWait, Do, ProcessResponse
    <3> QED
      BY <2>2, <3>1, <3>2 DEF KInv, LateWaits
  <2>3. ASSUME ~ limited PROVE late' <= MostRetries * (i - 1) + retries'
    <3>1. late <= MostRetries * (i - 1) + retries
      BY <2>3 DEF KInv, LateWaits
    <3>2. MostRetries * (i - 1) \in Int
      BY <1>0, <1>1 DEF KTypeOK, MostRetries
    <3> DEFINE waits == MostRetries * (i - 1)
    <3> HIDE DEF waits
    <3>3. late <= waits + retries /\ waits \in Int
      BY <3>1, <3>2 DEF waits
    <3>4. CASE retries' = retries
      <4>1. late' = late
        BY <1>5, <3>4
      <4> QED
        BY <3>3, <3>4, <4>1 DEF waits
    <3>5. CASE retries' = retries + 1
      <4>1. late' = late \/ late' = late + 1
        BY <1>5
      <4>2. late <= waits + (retries + 1) /\ late + 1 <= waits + (retries + 1)
        <5>1. retries \in Nat /\ late \in Nat
          BY <1>4, <1>5
        <5> QED
          BY <3>3, <5>1
      <4>3. late' <= waits + (retries + 1)
        BY <4>1, <4>2
      <4> QED
        BY <3>5, <4>3 DEF waits
    <3> QED
      BY <1>4, <3>4, <3>5
  <2> QED
    BY <1>1, <2>1, <2>2, <2>3 DEF LateWaits
<1>9. i' # Len(availableKeys') + 1
  BY <1>1 DEF KTypeOK
<1> QED
  BY <1>2, <1>3, <1>4, <1>6, <1>7, <1>8, <1>9 DEF KInv

\* What is sent with a key is counted when its turn ends.
LEMMA MarkedLoad ==
    ASSUME KInv, OnFailed
    PROVE  /\ Len(load') = i' - 1
           /\ \A n \in DOMAIN load' :
                 load'[n] <= IF limited' /\ n \in begunLate' THEN 0 ELSE MaxRetries
           /\ outcome' = "all keys failed" => i' = Len(availableKeys') + 1
<1>1. /\ load \in Seq(Nat) /\ Len(load) = i - 1 /\ i \in Nat
      /\ sent \in Seq(StatusCodes \cup {NoResponse}) /\ Len(sent) <= MaxRetries
      /\ outcome = "trying" /\ begunLate \subseteq 1 .. i
  BY DEF KInv, KTypeOK, MarkedInTurn, OnFailed, HInv, TypeOK
<1>2. /\ load' = Append(load, Len(sent)) /\ i' = i + 1
      /\ begunLate' = IF cancelled THEN begunLate \cup {i + 1} ELSE begunLate
      /\ limited' = limited /\ outcome' = outcome
  BY DEF OnFailed, NewExecuteRequest
<1>3. /\ Len(load') = Len(load) + 1
      /\ DOMAIN load' = 1 .. Len(load) + 1
      /\ load'[Len(load) + 1] = Len(sent)
      /\ \A n \in 1 .. Len(load) : load'[n] = load[n]
  BY <1>1, <1>2, AppendElements
<1>4. Len(load') = i' - 1
  BY <1>1, <1>2, <1>3
<1>5. ASSUME NEW n \in DOMAIN load'
      PROVE  load'[n] <= IF limited' /\ n \in begunLate' THEN 0 ELSE MaxRetries
  <2>1. n \in 1 .. i /\ (n \in begunLate' => n \in begunLate)
    BY <1>1, <1>2, <1>3
  <2>2. CASE n = i
    <3>1. load'[n] = Len(sent)
      BY <1>1, <1>3, <2>2
    <3>2. limited /\ i \in begunLate => Len(sent) = 0
      BY DEF KInv, NothingSentLate
    <3> QED
      BY <1>1, <1>2, <2>1, <2>2, <3>1, <3>2
  <2>3. CASE n # i
    <3>1. n \in 1 .. Len(load) /\ n \in DOMAIN load
      BY <1>1, <2>1, <2>3
    <3>2. load[n] <= IF limited /\ n \in begunLate THEN 0 ELSE MaxRetries
      BY <3>1 DEF KInv, MarkedInTurn
    <3>3. load'[n] = load[n] /\ load[n] \in Nat
      BY <1>1, <1>3, <3>1
    <3>4. MaxRetries \in Nat
      BY HTTPClientAssumption
    <3> QED
      BY <1>2, <2>1, <3>2, <3>3, <3>4
  <2> QED
    BY <2>2, <2>3
<1> QED
  BY <1>1, <1>2, <1>4, <1>5

\* The turn of the key at i ends: it is marked if it is a key.
LEMMA MarkedInTurnStep ==
    ASSUME KInv, OnFailed
    PROVE  MarkedInTurn'
<1> DEFINE InOrder(turn) ==
        /\ \A n \in TurnsWithKey : \E m \in DOMAIN marked : turn[m] = n
        /\ \A m, n \in DOMAIN marked : m < n => turn[m] < turn[n]
        /\ \A m \in DOMAIN marked : marked[m] = availableKeys[turn[m]]
<1>1. PICK turn \in [DOMAIN marked -> TurnsWithKey] : InOrder(turn)
  BY DEF KInv, MarkedInTurn
<1>2. /\ i \in 1 .. Len(availableKeys) /\ pc = "failed"
      /\ availableKeys \in Seq(Keys \cup {EmptyKey})
      /\ i' = i + 1
      /\ UNCHANGED <<availableKeys, outcome, limited, late>>
      /\ outcome = "trying"
      /\ marked \in Seq(Keys)
  BY DEF KInv, KTypeOK, OnFailed, NewExecuteRequest
<1>3. TurnsWithKey \subseteq 1 .. i - 1
  BY DEF TurnsWithKey
<1>4. CASE availableKeys[i] = EmptyKey
  <2>1. marked' = marked
    BY <1>4 DEF OnFailed
  <2>2. TurnsWithKey' = TurnsWithKey
    BY <1>2, <1>4 DEF TurnsWithKey
  <2>3. \E turn_ \in [DOMAIN marked' -> TurnsWithKey'] : InOrder(turn_)'
    BY <1>1, <1>2, <2>1, <2>2
  <2> QED
    BY <2>3, MarkedLoad DEF MarkedInTurn
<1>5. CASE availableKeys[i] # EmptyKey
  <2> DEFINE last == Len(marked) + 1
             next == [m \in 1 .. last |-> IF m = last THEN i ELSE turn[m]]
  <2>1. availableKeys[i] \in Keys
    BY <1>2, <1>5
  <2>2. /\ DOMAIN marked = 1 .. Len(marked) /\ Len(marked) \in Nat
        /\ DOMAIN marked' = 1 .. last
        /\ marked'[last] = availableKeys[i]
        /\ \A m \in 1 .. Len(marked) : marked'[m] = marked[m]
    BY <1>2, <1>5, <2>1, AppendElements DEF OnFailed
  <2>3. TurnsWithKey' = TurnsWithKey \cup {i}
    BY <1>2, <1>5 DEF TurnsWithKey
  <2>4. \A m \in 1 .. Len(marked) : turn[m] \in TurnsWithKey /\ turn[m] < i
    <3> SUFFICES ASSUME NEW m \in 1 .. Len(marked)
                 PROVE  turn[m] \in TurnsWithKey /\ turn[m] < i
      OBVIOUS
    <3>1. turn[m] \in TurnsWithKey
      BY <1>1, <2>2
    <3>2. turn[m] \in 1 .. i - 1
      BY <1>3, <3>1
    <3>3. i \in Int
      BY <1>2
    <3> QED
      BY <3>1, <3>2, <3>3
  <2>5. next \in [DOMAIN marked' -> TurnsWithKey']
    BY <2>2, <2>3, <2>4
  <2>6. \A n \in TurnsWithKey' : \E m \in DOMAIN marked' : next[m] = n
    <3>1. ASSUME NEW n \in TurnsWithKey PROVE \E m \in DOMAIN marked' : next[m] = n
      <4>1. PICK m \in DOMAIN marked : turn[m] = n
        BY <1>1
      <4> QED
        BY <2>2, <4>1
    <3>2. next[last] = i /\ last \in DOMAIN marked'
      BY <2>2
    <3> QED
      BY <2>3, <3>1, <3>2
  <2>7. \A m, n \in DOMAIN marked' : m < n => next[m] < next[n]
    BY <1>1, <1>2, <2>2, <2>4
  <2>8. \A m \in DOMAIN marked' : marked'[m] = availableKeys'[next[m]]
    BY <1>1, <1>2, <2>2
  <2> QED
    BY <2>5, <2>6, <2>7, <2>8, MarkedLoad DEF MarkedInTurn
<1> QED
  BY <1>4, <1>5

LEMMA KOnFailed ==
    KInv /\ OnFailed => KInv'
<1> SUFFICES ASSUME KInv, OnFailed PROVE KInv'
  OBVIOUS
<1>1. /\ i \in 1 .. Len(availableKeys) + 1 /\ i # Len(availableKeys) + 1
      /\ availableKeys \in Seq(Keys \cup {EmptyKey})
      /\ retries <= MostRetries /\ MostRetries \in Nat /\ retries \in Nat /\ late \in Nat
  BY HTTPClientAssumption DEF KInv, KTypeOK, HInv, TypeOK, OnFailed, MostRetries
<1>2. /\ pc = "failed" /\ NewExecuteRequest
      /\ i' = i + 1
      /\ UNCHANGED <<availableKeys, limited, cancelled, late>>
      /\ pc' = "loop" /\ attempt' = 0 /\ sent' = <<>> /\ retries' = 0
      /\ begunLate' = IF cancelled THEN begunLate \cup {i + 1} ELSE begunLate
  BY DEF OnFailed, NewExecuteRequest
<1>3. HInv'
  BY <1>2, HFresh DEF KInv
<1>4. KTypeOK'
  <2>1. /\ marked \in Seq(Keys) /\ load \in Seq(Nat) /\ begunLate \subseteq 1 .. i
        /\ sent \in Seq(StatusCodes \cup {NoResponse})
    BY DEF KInv, KTypeOK, HInv, TypeOK
  <2>2. availableKeys[i] \in Keys \cup {EmptyKey} /\ Len(sent) \in Nat
    BY <1>1, <2>1
  <2>3. marked' \in Seq(Keys)
    BY <2>1, <2>2 DEF OnFailed
  <2>4. load' \in Seq(Nat)
    BY <2>1, <2>2 DEF OnFailed
  <2>5. i' \in 1 .. Len(availableKeys') + 1
    BY <1>1, <1>2
  <2>6. begunLate' \subseteq 1 .. i'
    <3>1. begunLate \subseteq 1 .. i + 1 /\ i + 1 \in 1 .. i + 1
      BY <1>1, <2>1
    <3> QED
      BY <1>2, <3>1
  <2> QED
    BY <1>1, <1>2, <2>3, <2>4, <2>5, <2>6 DEF KTypeOK
<1>5. MarkedInTurn'
  BY MarkedInTurnStep
<1>6. NothingSentLate'
  BY <1>2 DEF KInv, NothingSentLate
<1>7. LateWaits'
  <2>1. ASSUME ~ cancelled PROVE late = 0
    BY <2>1 DEF KInv, LateWaits
  <2>2. ASSUME limited PROVE late \in {0, 1}
    BY <2>2 DEF KInv, LateWaits
  <2>3. ASSUME ~ limited PROVE late <= MostRetries * i
    <3>1. late <= MostRetries * (i - 1) + retries
      BY <2>3 DEF KInv, LateWaits
    <3>2. i \in Nat /\ MostRetries * (i - 1) + MostRetries = MostRetries * i
      BY <1>1
    <3>3. MostRetries * (i - 1) \in Int /\ MostRetries * i \in Int
      BY <1>1
    <3> HIDE DEF MostRetries
    <3> QED
      BY <1>1, <3>1, <3>2, <3>3
  <2>4. ~ limited => late <= MostRetries * ((i + 1) - 1) + 0
    <3>1. (i + 1) - 1 = i /\ MostRetries * i \in Int
      BY <1>1
    <3> QED
      BY <2>3, <3>1
  <2> QED
    BY <1>2, <2>1, <2>2, <2>4 DEF LateWaits
<1>8. retries' <= MostRetries
  BY <1>1, <1>2
<1> QED
  BY <1>2, <1>3, <1>4, <1>5, <1>6, <1>7, <1>8 DEF KInv

LEMMA KNext ==
    KInv /\ [KeyedNext]_<<vars, keyVars>> => KInv'
<1> SUFFICES ASSUME KInv, [KeyedNext]_<<vars, keyVars>> PROVE KInv'
  OBVIOUS
<1>1. ASSUME UNCHANGED <<vars, availableKeys, i, marked, load, begunLate, late>>,
             outcome' = "all keys failed" => i = Len(availableKeys) + 1
      PROVE  KInv'
  <2>1. HInv'
    BY <1>1, HNext DEF KInv
  <2>2. TurnsWithKey' = TurnsWithKey
    BY <1>1 DEF TurnsWithKey
  <2>3. MarkedInTurn'
    BY <1>1, <2>2 DEF KInv, MarkedInTurn, vars
  <2> QED
    BY <1>1, <2>1, <2>3 DEF KInv, KTypeOK, NothingSentLate, LateWaits, vars
<1>2. CASE TryWithKeysReturns
  <2>1. UNCHANGED <<vars, availableKeys, i, marked, load, begunLate, late>>
    BY <1>2 DEF TryWithKeysReturns, Return
  <2>2. outcome' = "all keys failed" => i = Len(availableKeys) + 1
    <3>1. outcome' = "all keys failed" => i > Len(availableKeys)
      BY <1>2 DEF TryWithKeysReturns, Return
    <3>2. i \in 1 .. Len(availableKeys) + 1 /\ availableKeys \in Seq(Keys \cup {EmptyKey})
      BY DEF KInv, KTypeOK
    <3>3. i > Len(availableKeys) => i = Len(availableKeys) + 1
      BY <3>2
    <3> QED
      BY <3>1, <3>3
  <2> QED
    BY <1>1, <2>1, <2>2
<1>3. CASE outcome = "trying" /\ Cancel /\ UNCHANGED keyVars
  <2>1. HInv'
    BY <1>3, HNext DEF KInv, Next
  <2>2. /\ UNCHANGED <<availableKeys, i, outcome, marked, load, begunLate, late>>
        /\ UNCHANGED <<pc, limited, attempt, sent, retries>> /\ cancelled'
    BY <1>3 DEF Cancel, keyVars
  <2>3. TurnsWithKey' = TurnsWithKey
    BY <2>2 DEF TurnsWithKey
  <2>4. MarkedInTurn'
    BY <2>2, <2>3 DEF KInv, MarkedInTurn
  <2> QED
    BY <2>1, <2>2, <2>4 DEF KInv, KTypeOK, NothingSentLate, LateWaits
<1>4. CASE UNCHANGED <<vars, keyVars>>
  <2>1. UNCHANGED <<vars, availableKeys, i, outcome, marked, load, begunLate, late>>
    BY <1>4 DEF keyVars
  <2>2. outcome = "all keys failed" => i = Len(availableKeys) + 1
    BY DEF KInv, MarkedInTurn
  <2> QED
    BY <1>1, <2>1, <2>2
<1> QED
  BY <1>2, <1>3, <1>4, KExecutor, KOnFailed DEF KeyedNext

LEMMA KInvImplies ==
    KInv => CancelledSoon
<1> SUFFICES ASSUME KInv
             PROVE  late <= IF limited THEN 1 ELSE MostRetries * Len(availableKeys)
  BY DEF CancelledSoon, MostRetries
<1>1. /\ i \in 1 .. Len(availableKeys) + 1 /\ Len(availableKeys) \in Nat
      /\ retries <= MostRetries /\ MostRetries \in Nat /\ retries \in Nat /\ late \in Nat
  BY HTTPClientAssumption DEF KInv, KTypeOK, HInv, TypeOK, MostRetries
<1>2. CASE limited
  BY <1>2 DEF KInv, LateWaits
<1>3. CASE ~ limited
  <2>1. late <= MostRetries * (i - 1) + retries
    BY <1>3 DEF KInv, LateWaits
  <2>2. CASE i = Len(availableKeys) + 1
    <3>1. retries = 0
      BY <2>2 DEF KInv, HInv, Progress, Count, RetriesBefore
    <3>2. i - 1 = Len(availableKeys) /\ MostRetries * Len(availableKeys) \in Int
      BY <1>1, <2>2
    <3> QED
      BY <1>3, <2>1, <3>1, <3>2
  <2>3. CASE i <= Len(availableKeys)
    <3>1. \A r, m \in Nat : \A n \in Nat : n < m => r * n + r <= r * m
      <4> SUFFICES ASSUME NEW r \in Nat, NEW m \in Nat, NEW n \in Nat, n < m
                   PROVE  r * n + r <= r * m
        OBVIOUS
      <4>1. PICK k \in Nat : m = n + 1 + k
        <5>1. m - n - 1 \in Nat /\ m = n + 1 + (m - n - 1)
          OBVIOUS
        <5> QED
          BY <5>1
      <4>2. r * m = r * n + r + r * k /\ r * k \in Nat
        BY <4>1
      <4>3. r * n \in Nat
        OBVIOUS
      <4> QED
        BY <4>2, <4>3
    <3> DEFINE before == MostRetries * (i - 1)
               all == MostRetries * Len(availableKeys)
    <3>2. i - 1 \in Nat /\ i - 1 < Len(availableKeys)
      BY <1>1, <2>3
    <3>3. before + MostRetries <= all /\ before \in Nat /\ all \in Nat
      BY <1>1, <3>1, <3>2
    <3>4. late <= before + retries
      BY <2>1
    <3> HIDE DEF before, all, MostRetries
    <3>5. late <= all
      BY <1>1, <3>3, <3>4
    <3> QED
      BY <1>3, <3>5 DEF all
  <2> QED
    BY <1>1, <2>2, <2>3
<1> QED
  BY <1>2, <1>3

-------------------------------------------------------------------------------
(* Theorems.                                                               *)

LEMMA KeyedInvariant == KeyedSpec => []KInv
BY KInit, KNext, PTL DEF KeyedSpec

\* Types, and never a request beyond MaxRetries with one key, whatever the servers
\* and the limiter answer (ExecuteRequest, httpclient/client.go).
THEOREM KeyedTypeOK == KeyedSpec => []TypeOK
<1>1. KInv => TypeOK
  BY DEF KInv, HInv
<1> QED
  BY <1>1, KeyedInvariant, PTL

\* No response body is left open by a retry, an error or the next key's turn
\* (processResponse, httpclient/client.go).
THEOREM KeyedBodiesClosed == KeyedSpec => []BodiesClosed
<1>1. KInv => BodiesClosed
  BY HInvImplies DEF KInv
<1> QED
  BY <1>1, KeyedInvariant, PTL

\* Every attempt is reported once, retried once less and paid for once
\* (IHttpStatusHandler and IRateLimiter in ExecuteRequest).
THEOREM KeyedAttemptsAccounted == KeyedSpec => []AttemptsAccounted
<1>1. KInv => AttemptsAccounted
  BY HInvImplies DEF KInv
<1> QED
  BY <1>1, KeyedInvariant, PTL

\* Only failures that may pass are retried, and those to the last attempt, but for
\* a 200 whose body breaks off (isRetryableError, httpclient/client.go).
THEOREM KeyedRetriedForCause == KeyedSpec => []RetriedForCause
<1>1. KInv => RetriedForCause
  BY HInvImplies DEF KInv
<1> QED
  BY <1>1, KeyedInvariant, PTL

\* The waits between the attempts of one key double, for every base and number of
\* retries (CalculateBackoffWithJitter, httpclient/backoff.go).
THEOREM KeyedBackoffGrows == KeyedSpec => []BackoffGrows
<1>1. KInv => BackoffGrows
  BY HInvImplies DEF KInv
<1> QED
  BY <1>1, KeyedInvariant, PTL

\* The keys marked are those whose turn is over, in order, whatever the list, and a
\* limiter sends nothing with a key whose turn came after the cancellation
\* (TryWithKeys, apikeys/rotator.go).
THEOREM KeyedMarkedInTurn == KeyedSpec => []MarkedInTurn
<1>1. KInv => MarkedInTurn
  BY DEF KInv
<1> QED
  BY <1>1, KeyedInvariant, PTL

\* How long a cancelled request may still wait, for every number of keys and of
\* retries (TryWithKeys and the wait of ExecuteRequest).
THEOREM KeyedCancelledSoon == KeyedSpec => []CancelledSoon
<1>1. KInv => CancelledSoon
  BY KInvImplies
<1> QED
  BY <1>1, KeyedInvariant, PTL

===============================================================================

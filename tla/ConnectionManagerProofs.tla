---------------------- MODULE ConnectionManagerProofs ----------------------
(***************************************************************************)
(* Proofs about ConnectionManager, for all configurations, endpoints, call *)
(* times, intervals and limits.                                            *)
(***************************************************************************)
EXTENDS ConnectionManager, Induction

USE DEF config, schedule, result, history, discovery, clients, allButPc, vars,
        Goes, Return

\* Where each client is open.
ClientsInv ==
  /\ pc \in {"getEndpoints", "select"} => channels = {"discovery"}
  /\ pc \in {"options", "connect"} => channels \subseteq {"discovery"}
  /\ pc \in {"validate", "dial", "retry", "waiting", "failed", "closed"} =>
       channels = {}
  /\ pc = "connected" => channels = {"session"}

\* A wait starts with a context that is not cancelled, so it has seen no late
\* attempt yet.
CancelInv ==
  /\ late \in {0, 1}
  /\ late = 1 => ctxDone
  /\ pc = "waiting" => late = 0

\* A wait that has begun ends within the limit.
LimitInv ==
  Limit > 0 =>
    /\ pc = "waiting" => wake <= Limit
    /\ pc = "validate" => now <= Limit

\* The first attempt of an invalid configuration returns the permanent error.
InvalidInv ==
  NeverValid =>
    /\ attempts = 1 /\ channels = {} /\ pc \in {"validate", "retry", "failed"}
    /\ pc = "retry" => err = "permanent"

BoundInv == pc = "waiting" => attempts < MaxAttempts

IInv ==
  TypeOK /\ ClientsInv /\ CancelInv /\ LimitInv /\ InvalidInv /\ BoundInv

\* The invariant holds when Connect is called.
LEMMA InitInv == Init => IInv
<1> SUFFICES ASSUME Init PROVE IInv
  OBVIOUS
<1> USE DEF Init
<1>1. TypeOK
  BY ConnectionAssumption DEF TypeOK, InAttempt
<1>2. ClientsInv /\ CancelInv /\ LimitInv /\ InvalidInv /\ BoundInv
  BY ConnectionAssumption
     DEF ClientsInv, CancelInv, LimitInv, InvalidInv, BoundInv
<1>3. QED
  BY <1>1, <1>2 DEF IInv

\* The waits are not negative, and the interval stays in its range.
LEMMA JitterIsNatural ==
  ASSUME NEW i \in Nat, NEW next \in Jitter(i)
  PROVE  next \in Nat
<1>1. i \div 10 \in Nat /\ i \div 10 <= i
  OBVIOUS
<1>2. QED
  BY <1>1 DEF Jitter

\* The interval stays between the initial and the longest one.
LEMMA NextIntervalInRange ==
  ASSUME interval \in InitialInterval .. MaxInterval
  PROVE  NextInterval \in InitialInterval .. MaxInterval
BY ConnectionAssumption DEF NextInterval, Least

\* A network call does not turn the clock back.
LEMMA CallTakesTime ==
  ASSUME now \in Nat, CallsNetwork
  PROVE  now' \in Nat
BY ConnectionAssumption DEF CallsNetwork

\* No step of Connect, of the server or of the caller breaks the invariant.
LEMMA NextInv ==
  ASSUME IInv, [Next]_vars
  PROVE  IInv'
<1> USE ConnectionAssumption
<1>1. CASE Attempt
  <2> USE DEF TypeOK, InAttempt
  <2>1. CASE Validate
    BY <2>1 DEF IInv, Validate, NeedsEndpointDiscovery, ClientsInv,
         CancelInv, LimitInv, InvalidInv, BoundInv, NeverValid
  <2>2. CASE Invalid
    BY <2>2 DEF IInv, Invalid, ClientsInv, CancelInv, LimitInv,
         InvalidInv, BoundInv, NeverValid
  <2>3. CASE CallFails
    <3>1. now' \in Nat
      BY <2>3, CallTakesTime DEF CallFails, IInv
    <3>2. QED
      BY <2>3, <3>1 DEF IInv, CallFails, ClientsInv, CancelInv,
           LimitInv, InvalidInv, BoundInv, NeverValid
  <2>4. CASE Dial
    <3>1. now' \in Nat
      BY <2>4, CallTakesTime DEF Dial, IInv
    <3>2. QED
      BY <2>4, <3>1 DEF IInv, Dial, ClientsInv, CancelInv, LimitInv,
           InvalidInv, BoundInv, NeverValid
  <2>5. CASE GetEndpoints
    <3>1. now' \in Nat
      BY <2>5, CallTakesTime DEF GetEndpoints, IInv
    <3>2. QED
      BY <2>5, <3>1 DEF IInv, GetEndpoints, ClientsInv, CancelInv, LimitInv,
           InvalidInv, BoundInv, NeverValid
  <2>6. CASE Select
    BY <2>6 DEF IInv, Select, ClientsInv, CancelInv, LimitInv, InvalidInv,
         BoundInv, NeverValid
  <2>7. CASE NoneSelected
    BY <2>7 DEF IInv, NoneSelected, ClientsInv, CancelInv, LimitInv,
         InvalidInv, BoundInv, NeverValid
  <2>8. CASE MakeOptions
    BY <2>8 DEF IInv, MakeOptions, ClientsInv, CancelInv, LimitInv,
         InvalidInv, BoundInv, NeverValid
  <2>9. CASE OptionsFail
    BY <2>9 DEF IInv, OptionsFail, ClientsInv, CancelInv, LimitInv,
         InvalidInv, BoundInv, NeverValid
  <2>10. CASE Connect
    <3>1. now' \in Nat
      BY <2>10, CallTakesTime DEF Connect, IInv
    <3>2. QED
      BY <2>10, <3>1 DEF IInv, Connect, ClientsInv, CancelInv, LimitInv,
           InvalidInv, BoundInv, NeverValid
  <2>11. QED
    BY <1>1, <2>1, <2>2, <2>3, <2>4, <2>5, <2>6, <2>7, <2>8, <2>9, <2>10
       DEF Attempt
<1>2. CASE Retry
  <2> USE DEF TypeOK, InAttempt
  <2>1. CASE StopPermanent \/ StopCancelled \/ StopElapsed
    BY <2>1 DEF IInv, StopPermanent, StopCancelled, StopElapsed, Retryable,
         ClientsInv, CancelInv, LimitInv, InvalidInv, BoundInv,
         NeverValid
  <2>2. CASE Wait
    <3>1. PICK next \in Jitter(interval) :
            ~Elapsed(next) /\ wake' = now + next
      BY <2>2 DEF Wait
    <3>2. interval \in Nat /\ now \in Nat
      BY DEF IInv
    <3>3. next \in Nat
      BY <3>1, <3>2, JitterIsNatural
    <3>4. wake' \in Nat /\ (Limit > 0 => wake' <= Limit)
      BY <3>1, <3>2, <3>3 DEF Elapsed
    <3>5. interval' \in InitialInterval .. MaxInterval
      BY <2>2, NextIntervalInRange DEF Wait, IInv
    <3>6. QED
      BY <2>2, <3>4, <3>5 DEF IInv, Wait, Retryable, ClientsInv, CancelInv,
           LimitInv, InvalidInv, BoundInv, NeverValid
  <2>3. CASE WakeUp
    BY <2>3 DEF IInv, WakeUp, ClientsInv, CancelInv, LimitInv, InvalidInv,
         BoundInv, NeverValid
  <2>4. CASE WaitCancelled
    BY <2>4 DEF IInv, WaitCancelled, ClientsInv, CancelInv, LimitInv,
         InvalidInv, BoundInv, NeverValid
  <2>5. QED
    BY <1>2, <2>1, <2>2, <2>3, <2>4 DEF Retry
<1>3. CASE Close
  BY <1>3 DEF IInv, TypeOK, InAttempt, Close, ClientsInv, CancelInv, LimitInv,
       InvalidInv, BoundInv, NeverValid
<1>4. CASE Cancel
  BY <1>4 DEF IInv, TypeOK, Cancel, ClientsInv, CancelInv, LimitInv,
       InvalidInv, BoundInv, NeverValid
<1>5. CASE FilesChange
  BY <1>5 DEF IInv, TypeOK, FilesChange, ClientsInv, CancelInv, LimitInv,
       InvalidInv, BoundInv, NeverValid
<1>6. CASE OutOfBound \/ Finished \/ UNCHANGED vars
  <2>1. UNCHANGED vars
    BY <1>6 DEF OutOfBound, Finished
  <2>2. UNCHANGED <<sec, files, pc, now, interval, wake, failedAt, attempts>>
    BY <2>1
  <2>3. UNCHANGED <<late, ctxDone, channels, err>>
    BY <2>1
  <2>4. QED
    BY <2>2, <2>3 DEF IInv, TypeOK, ClientsInv, CancelInv, LimitInv,
         InvalidInv, BoundInv, NeverValid
<1>7. QED
  BY <1>1, <1>2, <1>3, <1>4, <1>5, <1>6 DEF Next

\* So the invariant always holds.
LEMMA Invariance == Spec => []IInv
BY InitInv, NextInv, PTL DEF Spec

\* Connect's state is well typed and within its bounds for every instance.
THEOREM TypeCorrect == Spec => []TypeOK
BY Invariance, PTL DEF IInv

\* No attempt leaves a client open, whatever step of it fails.
THEOREM NoClientLeaksCorrect == Spec => []NoClientLeaks
<1>1. IInv => NoClientLeaks
  BY DEF IInv, TypeOK, InAttempt, ClientsInv, NoClientLeaks
<1>2. QED
  BY <1>1, Invariance, PTL

\* A configuration that can never be valid costs one attempt and no client.
THEOREM InvalidIsNotRetriedCorrect == Spec => []InvalidIsNotRetried
<1>1. IInv => InvalidIsNotRetried
  BY DEF IInv, InvalidInv, InvalidIsNotRetried
<1>2. QED
  BY <1>1, Invariance, PTL

\* No attempt starts after the retry limit.
THEOREM NoLateAttemptCorrect == Spec => []NoLateAttempt
<1>1. IInv => NoLateAttempt
  BY DEF IInv, LimitInv, NoLateAttempt
<1>2. QED
  BY <1>1, Invariance, PTL

\* At most one attempt starts with a cancelled context.
THEOREM OneAttemptAfterCancelCorrect == Spec => []OneAttemptAfterCancel
<1>1. IInv => OneAttemptAfterCancel
  BY DEF IInv, CancelInv, OneAttemptAfterCancel
<1>2. QED
  BY <1>1, Invariance, PTL

-----------------------------------------------------------------------------
(* The time that Connect takes.                                            *)

\* When no call takes longer than m, the place in an attempt bounds the time:
\* the attempt began within the limit and makes at most three calls.
OvershootWith(m) ==
  /\ pc = "dial" => now <= Limit
  /\ pc = "getEndpoints" => now <= Limit + m
  /\ pc \in {"select", "options", "connect"} => now <= Limit + 2 * m
  /\ now <= Limit + 3 * m

OvershootInv ==
  \A m \in CallTimes :
    Limit > 0 /\ (\A d \in CallTimes : d <= m) => OvershootWith(m)

\* The clock starts at 0.
LEMMA InitOvershoot == Init => OvershootInv
<1> SUFFICES ASSUME Init, NEW m \in CallTimes PROVE OvershootWith(m)
  BY DEF OvershootInv
<1>1. m \in Nat
  BY ConnectionAssumption
<1>2. QED
  BY <1>1, ConnectionAssumption DEF Init, OvershootWith

\* Every call moves the time by m at most and the attempt one call on, and
\* a wait ends within the limit.
LEMMA NextOvershoot ==
  ASSUME IInv, OvershootInv, [Next]_vars
  PROVE  OvershootInv'
<1> SUFFICES ASSUME NEW m \in CallTimes, Limit > 0,
                    \A d \in CallTimes : d <= m
             PROVE  OvershootWith(m)'
  BY DEF OvershootInv
<1> USE DEF OvershootWith
<1>a. /\ m \in Nat /\ now \in Nat /\ wake \in Nat /\ Limit \in Nat
      /\ OvershootWith(m)
  BY ConnectionAssumption DEF IInv, TypeOK, OvershootInv
<1>b. CallsNetwork => \E d \in Nat : d <= m /\ now' = now + d
  BY ConnectionAssumption DEF CallsNetwork
<1>1. CASE Validate \/ Invalid
  BY <1>1, <1>a DEF IInv, LimitInv, Validate, Invalid
<1>2. CASE CallFails
  <2>1. PICK d \in Nat : d <= m /\ now' = now + d
    BY <1>2, <1>b DEF CallFails
  <2>2. pc \in {"dial", "getEndpoints", "connect"} /\ pc' = "retry"
    BY <1>2 DEF CallFails
  <2>3. QED
    BY <1>a, <2>1, <2>2
<1>3. CASE Dial \/ GetEndpoints \/ Connect
  <2>1. PICK d \in Nat : d <= m /\ now' = now + d
    BY <1>3, <1>b DEF Dial, GetEndpoints, Connect
  <2>2. \/ pc = "dial" /\ pc' = "getEndpoints"
        \/ pc = "getEndpoints" /\ pc' = "select"
        \/ pc = "connect" /\ pc' = "connected"
    BY <1>3 DEF Dial, GetEndpoints, Connect
  <2>3. QED
    BY <1>a, <2>1, <2>2
<1>4. CASE Select \/ NoneSelected \/ MakeOptions \/ OptionsFail
  BY <1>4, <1>a
     DEF Select, NoneSelected, MakeOptions, OptionsFail
<1>5. CASE StopPermanent \/ StopCancelled \/ StopElapsed \/ Wait
  BY <1>5, <1>a DEF StopPermanent, StopCancelled, StopElapsed, Wait
<1>6. CASE WakeUp \/ WaitCancelled
  <2>1. wake <= Limit
    BY <1>6 DEF IInv, LimitInv, WakeUp, WaitCancelled
  <2>2. now' \in {now, wake} /\ pc' \in {"validate", "failed"}
    BY <1>6 DEF WakeUp, WaitCancelled
  <2>3. QED
    BY <1>a, <2>1, <2>2
<1>7. CASE Close \/ Cancel \/ FilesChange
  BY <1>7, <1>a DEF Close, Cancel, FilesChange
<1>8. CASE OutOfBound \/ Finished \/ UNCHANGED vars
  <2>1. UNCHANGED <<pc, now>>
    BY <1>8 DEF OutOfBound, Finished
  <2>2. QED
    BY <1>a, <2>1
<1>9. QED
  BY <1>1, <1>2, <1>3, <1>4, <1>5, <1>6, <1>7, <1>8 DEF Next, Attempt, Retry

\* Connect returns at most one attempt after its limit: three calls of the
\* network, each as long as the longest.
THEOREM OvershootBoundedCorrect == Spec => []OvershootBounded
<1>1. OvershootInv => OvershootBounded
  BY DEF OvershootInv, OvershootBounded, OvershootWith
<1>2. QED
  BY <1>1, Invariance, InitOvershoot, NextOvershoot, PTL DEF Spec

-----------------------------------------------------------------------------
(* The distance of the attempts.                                           *)

\* The interval after a number of waits.
Doubled(k) == Least(InitialInterval * Pow2[k], MaxInterval)

\* The interval has been doubled once for every wait that has begun, and a wait
\* is counted from the failure before it.
BackoffInv ==
  /\ pc \in InAttempt \cup {"retry"} => interval = Doubled(attempts - 1)
  /\ pc = "retry" => now = failedAt
  /\ pc = "waiting" =>
       /\ interval = Doubled(attempts)
       /\ wake - failedAt \in Jitter(Doubled(attempts - 1))

\* Doubling a capped interval and capping it again is doubling below the cap.
LEMMA DoubledOnce ==
  ASSUME NEW k \in Nat
  PROVE  /\ Doubled(k) \in Nat
         /\ Least(2 * Doubled(k), MaxInterval) = Doubled(k + 1)
<1> DEFINE p == InitialInterval * Pow2[k]
<1>1. /\ Pow2[k] \in Nat /\ Pow2[k + 1] = 2 * Pow2[k]
      /\ InitialInterval \in Nat /\ MaxInterval \in Nat
  BY Pow2Properties, ConnectionAssumption
<1>2. p \in Nat /\ InitialInterval * Pow2[k + 1] = 2 * p
  BY <1>1
<1>3. Doubled(k) = Least(p, MaxInterval)
      /\ Doubled(k + 1) = Least(2 * p, MaxInterval)
  BY <1>2 DEF Doubled
<1> HIDE DEF p
<1>4. QED
  BY <1>1, <1>2, <1>3 DEF Least

\* The first attempt begins with the initial interval.
LEMMA InitBackoff == Init => BackoffInv
<1> SUFFICES ASSUME Init PROVE BackoffInv
  OBVIOUS
<1>1. Doubled(0) = InitialInterval
  BY Pow2Properties, ConnectionAssumption DEF Doubled, Least
<1>2. QED
  BY <1>1 DEF Init, BackoffInv

\* An attempt leaves the interval alone, a wait doubles it.
LEMMA NextBackoff ==
  ASSUME IInv, BackoffInv, [Next]_vars
  PROVE  BackoffInv'
<1> USE DEF BackoffInv, InAttempt
<1>1. CASE Invalid \/ NoneSelected \/ OptionsFail
  BY <1>1 DEF Invalid, NoneSelected, OptionsFail
<1>2. CASE CallFails
  BY <1>2 DEF CallFails
<1>3. CASE Validate \/ Dial \/ GetEndpoints \/ Select \/ MakeOptions \/ Connect
  BY <1>3 DEF Validate, Dial, GetEndpoints, Select, MakeOptions, Connect
<1>4. CASE StopPermanent \/ StopCancelled \/ StopElapsed \/ WaitCancelled
  BY <1>4 DEF StopPermanent, StopCancelled, StopElapsed, WaitCancelled
<1>5. CASE Wait
  <2>1. /\ pc = "retry" /\ pc' = "waiting"
        /\ interval' = Least(2 * interval, MaxInterval)
        /\ attempts' = attempts /\ failedAt' = failedAt
    BY <1>5 DEF Wait, Retryable, NextInterval
  <2>2. PICK next \in Jitter(interval) : wake' = now + next
    BY <1>5 DEF Wait
  <2>3. interval \in Nat /\ now \in Nat /\ attempts - 1 \in Nat
    BY ConnectionAssumption DEF IInv, TypeOK
  <2>4. next \in Nat
    BY <2>3, JitterIsNatural
  <2>5. interval = Doubled(attempts - 1) /\ now = failedAt
    BY <2>1
  <2>6. wake' - failedAt' = next
    BY <2>1, <2>2, <2>3, <2>4, <2>5
  <2>7. interval' = Doubled(attempts')
    <3>1. Least(2 * interval, MaxInterval) = Doubled((attempts - 1) + 1)
      BY <2>3, <2>5, DoubledOnce
    <3>2. (attempts - 1) + 1 = attempts'
      BY <2>1, ConnectionAssumption DEF IInv, TypeOK
    <3>3. QED
      BY <2>1, <3>1, <3>2
  <2>8. QED
    BY <2>1, <2>2, <2>5, <2>6, <2>7
<1>6. CASE WakeUp
  <2>1. /\ pc = "waiting" /\ pc' = "validate" /\ interval' = interval
        /\ attempts' - 1 = attempts
    BY <1>6 DEF WakeUp, IInv, TypeOK
  <2>2. QED
    BY <2>1
<1>7. CASE Close \/ Cancel \/ FilesChange
  BY <1>7 DEF Close, Cancel, FilesChange
<1>8. CASE OutOfBound \/ Finished \/ UNCHANGED vars
  BY <1>8 DEF OutOfBound, Finished
<1>9. QED
  BY <1>1, <1>2, <1>3, <1>4, <1>5, <1>6, <1>7, <1>8 DEF Next, Attempt, Retry

\* The attempts keep their distance, which doubles until it is the longest
\* interval, for every initial and longest interval.
THEOREM BackoffKeptCorrect == Spec => []BackoffKept
<1>1. BackoffInv => BackoffKept
  BY DEF BackoffInv, BackoffKept, Doubled
<1>2. QED
  BY <1>1, Invariance, InitBackoff, NextBackoff, PTL DEF Spec

-----------------------------------------------------------------------------
(* The endpoint that is selected.                                          *)

Endpoints == [mode : STRING, policy : Seq(STRING), tokens : SUBSET STRING]

\* The first of a set of endpoints is one of them, as the indices have a least
\* one.
LEMMA FirstOfIsOne ==
  ASSUME NEW eps \in Seq(Endpoints), NEW I \in SUBSET DOMAIN eps, I # {}
  PROVE  \E i \in I : FirstOf(eps, I) = eps[i]
<1>1. I \in SUBSET Nat
  OBVIOUS
<1>2. \E i \in I : \A j \in I : i <= j
  BY <1>1, LeastElement
<1>3. QED
  BY <1>2 DEF FirstOf

\* A policy that serves the configured one.
Serves(wanted, uri) == Pieces[wanted] \in SubSeqs(uri)

\* What makes an endpoint fit to serve a session.
Suits(ep) ==
  /\ ep.mode = sec.mode /\ sec.auth \in ep.tokens
  /\ sec.policy # "None" => Serves(sec.policy, ep.policy)

\* The selected endpoint suits a valid configuration.
LEMMA SelectedSuits ==
  ASSUME NEW eps \in Seq(Endpoints), ValidateSecurityConfig(sec),
         SelectEndpoint(sec, eps) # NoEndpoint
  PROVE  /\ Suits(SelectEndpoint(sec, eps))
         /\ \E i \in DOMAIN eps : SelectEndpoint(sec, eps) = eps[i]
<1>1. CASE ExactMatches(sec, eps) # {}
  <2>1. ExactMatches(sec, eps) \in SUBSET DOMAIN eps
    BY DEF ExactMatches
  <2>2. PICK i \in ExactMatches(sec, eps) :
          SelectEndpoint(sec, eps) = eps[i]
    BY <1>1, <2>1, FirstOfIsOne DEF SelectEndpoint
  <2>3. /\ eps[i].mode = sec.mode /\ sec.auth \in eps[i].tokens
        /\ PolicyMatch(sec.policy, eps[i].policy)
    BY <2>2 DEF ExactMatches, AuthModeSupported
  <2>4. sec.policy # "None" => Serves(sec.policy, eps[i].policy)
    BY <2>3 DEF PolicyMatch, Serves
  <2>5. Suits(eps[i])
    BY <2>3, <2>4 DEF Suits
  <2>6. QED
    BY <2>1, <2>2, <2>5
<1>2. CASE ExactMatches(sec, eps) = {}
  <2>1. FallbackMatches(sec, eps) \in SUBSET DOMAIN eps
    BY DEF FallbackMatches
  <2>2. FallbackMatches(sec, eps) # {}
    BY <1>2 DEF SelectEndpoint, FirstOf
  <2>3. PICK i \in FallbackMatches(sec, eps) :
          SelectEndpoint(sec, eps) = eps[i]
    BY <1>2, <2>1, <2>2, FirstOfIsOne DEF SelectEndpoint
  <2>4. QED
    BY <2>1, <2>3
       DEF FallbackMatches, AuthModeSupported, Suits, ValidateSecurityConfig
<1>3. QED
  BY <1>1, <1>2

\* The options as the configuration needs them.
OptionsFit ==
  /\ options.token = sec.auth
  /\ sec.mode # "None" => "channel" \in options.certs
  /\ sec.auth = "Certificate" => options.certs = {"user", "channel"}

\* After the validation the configuration is a valid one, and what was
\* selected for it suits it, as do the options.
SecuredInv ==
  /\ offered \in Seq(Endpoints)
  /\ pc \in {"dial", "getEndpoints", "select", "options", "connect"} =>
       ValidateSecurityConfig(sec) /\ sec.auth \in AuthModes
  /\ pc \in {"options", "connect"} /\ NeedsEndpointDiscovery =>
       Suits(selected) /\ \E i \in DOMAIN offered : selected = offered[i]
  /\ pc \in InAttempt \ {"validate"} /\ sec.mode # "None" =>
       sec.cert /\ sec.key
  /\ pc = "connect" => OptionsFit
  /\ session # NoSession =>
       pc \in {"connected", "closed"} /\ session.token = sec.auth
  /\ SecuredAsConfigured

\* Nothing is selected when Connect is called.
LEMMA InitSecured == Init => SecuredInv
<1> SUFFICES ASSUME Init PROVE SecuredInv
  OBVIOUS
<1>1. pc = "validate" /\ session = NoSession /\ offered = <<>>
  BY DEF Init
<1>2. <<>> \in Seq(Endpoints)
  OBVIOUS
<1>3. QED
  BY <1>1, <1>2 DEF SecuredInv, SecuredAsConfigured

\* No step of Connect leads to an endpoint or to options that do not suit.
LEMMA NextSecured ==
  ASSUME SecuredInv, [Next]_vars
  PROVE  SecuredInv'
<1> USE DEF NeedsEndpointDiscovery, Suits, OptionsFit,
            ValidateSecurityConfig, InAttempt
<1>1. CASE Validate
  BY <1>1 DEF SecuredInv, SecuredAsConfigured, Validate, ValidConfig,
       ValidateAuthConfig, ValidateSecurityConfigWithCertificates,
       RequiresCertificates
<1>2. CASE Invalid \/ CallFails \/ NoneSelected \/ OptionsFail
  BY <1>2 DEF SecuredInv, SecuredAsConfigured, Invalid, CallFails,
       NoneSelected, OptionsFail
<1>3. CASE Dial
  BY <1>3 DEF SecuredInv, SecuredAsConfigured, Dial
<1>4. CASE GetEndpoints
  BY <1>4, ConnectionAssumption
     DEF SecuredInv, SecuredAsConfigured, GetEndpoints, Endpoints
<1>5. CASE Select
  <2>1. /\ Suits(SelectEndpoint(sec, offered))
        /\ \E i \in DOMAIN offered : SelectEndpoint(sec, offered) = offered[i]
    BY <1>5, SelectedSuits DEF SecuredInv, Select
  <2>2. QED
    BY <1>5, <2>1 DEF SecuredInv, SecuredAsConfigured, Select
<1>6. CASE MakeOptions
  <2>1. CASE NeedsEndpointDiscovery
    <3>1. SecureOptionsMade(sec, selected, files)
          /\ options' = SecureOptions(sec, files)
      BY <1>6, <2>1 DEF MakeOptions, OptionsMade
    <3>2. sec.mode # "None" \/ sec.auth = "Certificate" =>
            LoadCertificate(sec, files)
      BY <1>6, <3>1 DEF MakeOptions, SecuredInv, SecureOptionsMade
    <3>3. OptionsFit'
      <4>1. sec' = sec
        BY <1>6 DEF MakeOptions
      <4>2. QED
        BY <3>1, <3>2, <4>1 DEF SecureOptions
    <3>4. QED
      BY <1>6, <3>3 DEF SecuredInv, MakeOptions, SecuredAsConfigured
  <2>2. CASE ~NeedsEndpointDiscovery
    <3>1. OptionsFit'
      BY <1>6, <2>2 DEF SecuredInv, MakeOptions, InsecureOptions, AuthModes
    <3>2. QED
      BY <1>6, <3>1 DEF SecuredInv, MakeOptions, SecuredAsConfigured
  <2>3. QED
    BY <2>1, <2>2
<1>7. CASE Connect
  <2>a. /\ OptionsFit /\ sec' = sec /\ selected' = selected
        /\ ValidateSecurityConfig(sec) /\ sec.auth \in AuthModes
        /\ session'.token = sec.auth /\ session'.certs = options.certs
    BY <1>7 DEF SecuredInv, Connect
  <2>1. CASE NeedsEndpointDiscovery
    <3>1. /\ session'.mode = selected.mode /\ session'.policy = selected.policy
          /\ Suits(selected)
      BY <1>7, <2>1 DEF SecuredInv, Connect
    <3>2. SecuredAsConfigured'
      BY <2>a, <3>1 DEF SecuredAsConfigured, Serves
    <3>3. QED
      BY <1>7, <2>a, <3>2 DEF SecuredInv, Connect
  <2>2. CASE ~NeedsEndpointDiscovery
    <3>1. session'.mode = "None" /\ sec.mode = "None" /\ sec.auth = "Anonymous"
      BY <1>7, <2>2, <2>a DEF Connect, Unsecured, AuthModes
    <3>2. SecuredAsConfigured'
      BY <2>a, <3>1 DEF SecuredAsConfigured
    <3>3. QED
      BY <1>7, <2>a, <3>2 DEF SecuredInv, Connect
  <2>3. QED
    BY <2>1, <2>2
<1>8. CASE Retry
  <2>1. /\ pc \in {"retry", "waiting"}
        /\ pc' \in {"validate", "waiting", "failed"}
        /\ UNCHANGED <<sec, offered, session>>
    BY <1>8 DEF Retry, StopPermanent, StopCancelled, StopElapsed, Retryable,
         Wait, WakeUp, WaitCancelled
  <2>2. session = NoSession
    BY <2>1 DEF SecuredInv
  <2>3. QED
    BY <2>1, <2>2 DEF SecuredInv, SecuredAsConfigured
<1>9. CASE Close \/ Cancel \/ FilesChange
  BY <1>9 DEF SecuredInv, SecuredAsConfigured, Close, Cancel, FilesChange
<1>10. CASE OutOfBound \/ Finished \/ UNCHANGED vars
  <2>1. UNCHANGED vars
    BY <1>10 DEF OutOfBound, Finished
  <2>2. UNCHANGED <<sec, pc, offered, selected, options, session>>
    BY <2>1
  <2>3. QED
    BY <2>2 DEF SecuredInv, SecuredAsConfigured
<1>11. QED
  BY <1>1, <1>2, <1>3, <1>4, <1>5, <1>6, <1>7, <1>8, <1>9, <1>10
     DEF Next, Attempt

\* No session is weaker than the configuration asks for: it has the configured
\* mode, a policy that contains the configured name, a token that its endpoint
\* takes, and the certificates it needs, whatever becomes of the files.
THEOREM SecuredAsConfiguredCorrect == Spec => []SecuredAsConfigured
<1>1. SecuredInv => SecuredAsConfigured
  BY DEF SecuredInv
<1>2. QED
  BY <1>1, InitSecured, NextSecured, PTL DEF Spec

\* The options are only made for an endpoint that the server has offered and
\* that takes the configured kind of token.
THEOREM SelectedEndpointHasTokenCorrect == Spec => []SelectedEndpointHasToken
<1>1. SecuredInv => SelectedEndpointHasToken
  BY DEF SecuredInv, SelectedEndpointHasToken, UserTokenFound, Suits
<1>2. QED
  BY <1>1, InitSecured, NextSecured, PTL DEF Spec

-----------------------------------------------------------------------------
(* Connect implements ConnectOutcome.                                      *)

\* Every step of Connect is a step of ConnectOutcome or changes nothing there.
LEMMA OutcomeStep ==
  ASSUME IInv, SecuredInv, SecuredInv', [Next]_vars
  PROVE  [Promise!Next]_<<sec, Outcome, "session" \in channels, session>>
<1> USE DEF Outcome
<1>1. CASE Connect
  <2>1. pc = "connect" /\ pc' = "connected" /\ channels' = {"session"}
    BY <1>1 DEF Connect
  <2>2. sec' = sec /\ session' # NoSession
    BY <1>1 DEF Connect, NoSession, SecuredInv, OptionsFit, AuthModes
  <2>3. session'.mode = sec.mode /\ session'.token = sec.auth
    BY <2>2 DEF SecuredInv, SecuredAsConfigured
  <2>4. Promise!Succeeds
    BY <2>1, <2>2, <2>3 DEF Promise!Succeeds
  <2>5. QED
    BY <2>4 DEF Promise!Next
<1>2. CASE StopPermanent \/ StopCancelled \/ StopElapsed \/ WaitCancelled
  <2>1. Promise!Fails
    BY <1>2 DEF StopPermanent, StopCancelled, StopElapsed, Retryable,
         WaitCancelled, Promise!Fails
  <2>2. QED
    BY <2>1 DEF Promise!Next
<1>3. CASE Close
  <2>1. Promise!Closes
    BY <1>3 DEF Close, Promise!Closes
  <2>2. QED
    BY <2>1 DEF Promise!Next
<1>4. CASE Validate \/ Invalid \/ CallFails \/ Dial \/ GetEndpoints \/ Select
           \/ NoneSelected \/ MakeOptions \/ OptionsFail
  BY <1>4 DEF Validate, Invalid, CallFails, Dial, GetEndpoints, Select,
       NoneSelected, MakeOptions, OptionsFail
<1>5. CASE Wait \/ WakeUp \/ Cancel \/ FilesChange
  BY <1>5 DEF Wait, Retryable, WakeUp, Cancel, FilesChange, Ended
<1>6. CASE OutOfBound \/ Finished \/ UNCHANGED vars
  BY <1>6 DEF OutOfBound, Finished
<1>7. QED
  BY <1>1, <1>2, <1>3, <1>4, <1>5, <1>6 DEF Next, Attempt, Retry

\* Whatever the server, the network and the files do, the caller of Connect
\* sees an error with nothing open or a session as configured, which stays.
THEOREM ConnectOutcomeCorrect == Spec => ImplementsConnectOutcome
<1>1. Init => Promise!Init
  BY DEF Init, Promise!Init, Outcome
<1>2. QED
  BY <1>1, Invariance, InitSecured, NextSecured, OutcomeStep, PTL
     DEF Spec, ImplementsConnectOutcome, Promise!Spec
=============================================================================

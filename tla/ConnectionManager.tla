------------------------- MODULE ConnectionManager -------------------------
(***************************************************************************)
(* Manager.Connect of internal/connection/manager.go: attempts to open a   *)
(* session, each with its validation and, where needed, its own client for *)
(* the discovery of endpoints, driven by backoff.Retry.                    *)
(*                                                                         *)
(* Time is counted in tenths of the initial interval, so that the jitter   *)
(* of one tenth is whole.  It moves in jumps: a call of the network takes  *)
(* one of CallTimes, a wait takes as long as the backoff says.             *)
(***************************************************************************)
EXTENDS Security, Powers

CONSTANTS
  Configs,         \* security configurations
  EndpointLists,   \* what the server may answer to GetEndpoints
  CallTimes,       \* durations of a call of the network
  InitialInterval, MaxInterval,   \* of the exponential backoff
  Limit,           \* ConnectionRetryTimeout, 0 for none
  MaxAttempts      \* bound: attempts

ASSUME ConnectionAssumption ==
  /\ CallTimes \subseteq Nat /\ CallTimes # {}
  /\ InitialInterval \in Nat \ {0}
  /\ MaxInterval \in Nat /\ MaxInterval >= InitialInterval
  /\ Limit \in Nat
  /\ MaxAttempts \in Nat \ {0}
  /\ \A eps \in EndpointLists :
       eps \in Seq([mode : STRING, policy : Seq(STRING),
                    tokens : SUBSET STRING])

VARIABLES
  sec,        \* the configuration
  files,      \* the certificate files on disk, looked at by every attempt
  pc,         \* where Connect is
  now,        \* time since Connect was called
  interval,   \* the current interval of the backoff
  wake,       \* when the wait ends
  failedAt,   \* when the last attempt failed
  attempts,   \* attempts made
  late,       \* attempts begun with a cancelled context
  ctxDone,    \* the context of Connect is cancelled
  offered,    \* the answer of GetEndpoints
  selected,   \* the selected endpoint
  options,    \* the options of the client that is to be the session
  channels,   \* the clients that are open: "discovery", "session"
  session,    \* mode, policy, token and certificates of the session
  err         \* what the last attempt returned

config == <<sec, files>>
schedule == <<interval, wake>>
result == <<failedAt, err>>
history == <<attempts, late, ctxDone>>
discovery == <<offered, selected, options>>
clients == <<channels, session>>
allButPc == <<now, config, schedule, result, history, discovery, clients>>
vars == <<pc, allButPc>>

NoOptions == [token |-> "", certs |-> {}]
NoSession == [mode |-> "", policy |-> <<>>, token |-> "", certs |-> {}]
Least(a, b) == IF a <= b THEN a ELSE b

InAttempt == {"validate", "dial", "getEndpoints", "select", "options",
              "connect"}
Ended == pc \in {"connected", "failed", "closed"}

Init ==
  /\ sec \in Configs /\ files \in {"missing", "unusable", "good"}
  /\ pc = "validate" /\ attempts = 1
  /\ ctxDone \in BOOLEAN /\ late = IF ctxDone THEN 1 ELSE 0
  /\ now = 0 /\ interval = InitialInterval /\ wake = 0 /\ failedAt = 0
  /\ offered = <<>> /\ selected = NoEndpoint /\ options = NoOptions
  /\ channels = {} /\ session = NoSession /\ err = "none"

-----------------------------------------------------------------------------
(* One attempt: connectOperation.                                          *)

\* The attempt goes from one place to another.
Goes(from, to) ==
  pc = from /\ pc' = to /\ UNCHANGED <<config, schedule, history>>

\* A call of the network takes its time.
CallsNetwork == \E d \in CallTimes : now' = now + d

\* Mutant: the discovery client stays open.
ReturnLeaking(from, e) ==
  /\ Goes(from, "retry") /\ err' = e /\ failedAt' = now'
  /\ UNCHANGED <<discovery, clients>>

\* The attempt fails; the deferred Close takes care of the discovery client.
Return(from, e) ==
  /\ Goes(from, "retry") /\ err' = e /\ failedAt' = now'
  /\ channels' = channels \ {"discovery"}
  /\ UNCHANGED <<discovery, session>>

\* Mutant: the mode is left out.
NeedsDiscoveryForToken == sec.auth \notin {"Anonymous", ""}

NeedsEndpointDiscovery ==
  sec.mode # "None" \/ sec.auth \notin {"Anonymous", ""}

Validate ==
  /\ ValidConfig(sec, files)
  /\ Goes("validate", IF NeedsEndpointDiscovery THEN "dial" ELSE "options")
  /\ UNCHANGED <<now, result, discovery, clients>>

\* The only error that is not worth another attempt.
Invalid ==
  /\ ~ValidConfig(sec, files)
  /\ UNCHANGED now /\ Return("validate", "permanent")

CallFails ==
  \E from \in {"dial", "getEndpoints", "connect"} :
    CallsNetwork /\ Return(from, "transient")

Dial ==
  /\ CallsNetwork /\ Goes("dial", "getEndpoints")
  /\ channels' = channels \cup {"discovery"}
  /\ UNCHANGED <<result, discovery, session>>

GetEndpoints ==
  /\ CallsNetwork /\ Goes("getEndpoints", "select")
  /\ offered' \in EndpointLists
  /\ UNCHANGED <<result, selected, options, clients>>

Select ==
  /\ Goes("select", "options")
  /\ selected' = SelectEndpoint(sec, offered) /\ selected' # NoEndpoint
  /\ UNCHANGED <<now, result, offered, options, clients>>

NoneSelected ==
  /\ SelectEndpoint(sec, offered) = NoEndpoint
  /\ UNCHANGED now /\ Return("select", "transient")

\* The options are made for the selected endpoint, or for no security, and
\* from the files as they are now.
OptionsMade ==
  IF NeedsEndpointDiscovery THEN SecureOptionsMade(sec, selected, files)
  ELSE InsecureOptionsMade(sec, files)

MakeOptions ==
  /\ OptionsMade /\ Goes("options", "connect")
  /\ options' = IF NeedsEndpointDiscovery THEN SecureOptions(sec, files)
                ELSE InsecureOptions(sec, files)
  /\ UNCHANGED <<now, result, offered, selected, clients>>

OptionsFail ==
  /\ ~OptionsMade
  /\ UNCHANGED now /\ Return("options", "transient")

\* The client's own choice.
Unsecured == [mode |-> "None", policy |-> <<"#", "None">>]

\* Without discovery the session has no security; after it the session has
\* the security of the selected endpoint.
Connect ==
  /\ CallsNetwork /\ Goes("connect", "connected")
  /\ channels' = {"session"}
  /\ LET ep == IF NeedsEndpointDiscovery THEN selected ELSE Unsecured
     IN  session' = [mode |-> ep.mode, policy |-> ep.policy,
                     token |-> options.token, certs |-> options.certs]
  /\ UNCHANGED <<result, discovery>>

-----------------------------------------------------------------------------
(* backoff.Retry after a failed attempt.                                   *)

\* Intervals i with a randomization factor of 0.1.
Jitter(i) == i - (i \div 10) .. i + (i \div 10)

\* Mutants: the wait to come is left out; the limit is not passed on.
ElapsedNow(next) == Limit > 0 /\ now > Limit
ElapsedNever(next) == FALSE

Elapsed(next) == Limit > 0 /\ now + next > Limit

\* Mutant: MaxInterval is not set.
NextIntervalUncapped == 2 * interval

NextInterval == Least(2 * interval, MaxInterval)

\* Mutants: a permanent error is retried like any other; the context is only
\* looked at while waiting.
AnyErrorIsRetryable == pc = "retry" /\ ~ctxDone
CancelledIsRetryable == pc = "retry" /\ err # "permanent"

Retryable == pc = "retry" /\ err # "permanent" /\ ~ctxDone

StopPermanent ==
  /\ pc = "retry" /\ err = "permanent"
  /\ pc' = "failed" /\ UNCHANGED allButPc

\* Mutant: the loop goes on after noticing.
StopCancelledContinue ==
  /\ pc = "retry" /\ err # "permanent" /\ ctxDone
  /\ pc' = "validate" /\ UNCHANGED allButPc

StopCancelled ==
  /\ pc = "retry" /\ err # "permanent" /\ ctxDone
  /\ pc' = "failed" /\ UNCHANGED allButPc

StopElapsed ==
  /\ Retryable /\ \E next \in Jitter(interval) : Elapsed(next)
  /\ pc' = "failed" /\ UNCHANGED allButPc

Wait ==
  /\ Retryable /\ attempts < MaxAttempts
  /\ \E next \in Jitter(interval) : ~Elapsed(next) /\ wake' = now + next
  /\ interval' = NextInterval
  /\ pc' = "waiting"
  /\ UNCHANGED <<now, config, result, history, discovery, clients>>

\* The timer fires.  If the context is cancelled too, select may still choose
\* the timer.
WakeUp ==
  /\ pc = "waiting"
  /\ now' = wake /\ pc' = "validate" /\ attempts' = attempts + 1
  /\ late' = IF ctxDone THEN late + 1 ELSE late
  /\ UNCHANGED <<config, schedule, result, ctxDone, discovery, clients>>

WaitCancelled ==
  /\ pc = "waiting" /\ ctxDone
  /\ now' \in {now, wake} /\ pc' = "failed"
  /\ UNCHANGED <<config, schedule, result, history, discovery, clients>>

OutOfBound == Retryable /\ attempts = MaxAttempts /\ UNCHANGED vars

-----------------------------------------------------------------------------
(* The rest of the program and of the world.                               *)

\* Manager.Close
Close ==
  /\ pc = "connected" /\ pc' = "closed"
  /\ channels' = {}
  /\ UNCHANGED <<now, config, schedule, result, history, discovery, session>>

Cancel ==
  /\ ~Ended /\ ~ctxDone
  /\ ctxDone' = TRUE
  /\ UNCHANGED <<pc, now, config, schedule, result, attempts, late, discovery,
                 clients>>

FilesChange ==
  /\ ~Ended /\ sec.cert
  /\ files' \in {"missing", "unusable", "good"} \ {files}
  /\ UNCHANGED <<pc, now, sec, schedule, result, history, discovery, clients>>

Finished == Ended /\ pc # "connected" /\ UNCHANGED vars

Attempt ==
  \/ Validate \/ Invalid \/ CallFails \/ Dial \/ GetEndpoints \/ Select
  \/ NoneSelected \/ MakeOptions \/ OptionsFail \/ Connect
Retry ==
  \/ StopPermanent \/ StopCancelled \/ StopElapsed \/ Wait
  \/ WakeUp \/ WaitCancelled
Next ==
  Attempt \/ Retry \/ OutOfBound \/ Close \/ Cancel \/ FilesChange \/ Finished

Spec == Init /\ [][Next]_vars

\* Connect runs in a goroutine of its own and every call of the network has a
\* timeout, so an attempt and a wait end.
FairSpec == Spec /\ WF_vars(Attempt) /\ WF_vars(Retry)

-----------------------------------------------------------------------------
(* Properties.                                                             *)

\* Type invariant, with the ranges of the clocks.
TypeOK ==
  /\ sec \in Configs /\ files \in {"missing", "unusable", "good"}
  /\ pc \in InAttempt \cup {"retry", "waiting", "connected", "failed",
                          "closed"}
  /\ {now, wake, failedAt} \subseteq Nat
  /\ interval \in InitialInterval .. MaxInterval
  /\ attempts \in 1 .. MaxAttempts /\ late \in 0 .. attempts
  /\ ctxDone \in BOOLEAN
  /\ channels \subseteq {"discovery", "session"}
  /\ err \in {"none", "transient", "permanent"}

\* Whatever way an attempt ends, it leaves no client open behind it: the
\* discovery client is closed, and there is a session exactly while Connect
\* has returned one that is not closed.
NoClientLeaks ==
  /\ pc \notin {"getEndpoints", "select", "options", "connect"} =>
       "discovery" \notin channels
  /\ "session" \in channels <=> pc = "connected"

\* A configuration that no state of the files makes valid is refused by the
\* first attempt: it opens no client and is never tried again.
NeverValid == \A f \in {"missing", "unusable", "good"} : ~ValidConfig(sec, f)
InvalidIsNotRetried ==
  NeverValid =>
     attempts = 1 /\ channels = {} /\ pc \in {"validate", "retry", "failed"}

\* With a limit, no attempt starts after it: the wait is counted before it
\* begins.
NoLateAttempt == Limit > 0 /\ pc = "validate" => now <= Limit

\* At most one attempt starts after the context was cancelled, although the
\* wait may end by its timer then: the context is looked at after every
\* failure.
OneAttemptAfterCancel == late <= 1

\* Attempts keep their distance: the n-th wait is the initial interval
\* doubled n - 1 times, but at most MaxInterval, up to the jitter.
BackoffKept ==
  pc = "waiting" =>
    wake - failedAt \in
      Jitter(Least(InitialInterval * Pow2[attempts - 1], MaxInterval))

\* A session has the mode that is configured and a policy whose URI contains
\* the configured name (Basic256 may turn out as Basic256Sha256), its token is
\* one that the endpoint takes, and the certificates that it needs have been
\* loaded in this attempt: discovery, fallback and files that change between
\* the validation and the options never weaken a connection, whatever the
\* server offers and although certificate authentication without files passes
\* the validation.
SecuredAsConfigured ==
  session # NoSession =>
    /\ session.mode = sec.mode
    /\ sec.policy = "None" <=> sec.mode = "None"
    /\ sec.policy # "None" => Pieces[sec.policy] \in SubSeqs(session.policy)
    /\ \/ session.token \in selected.tokens
       \/ session.token = "Anonymous" /\ session.mode = "None"
    /\ session.mode # "None" => "channel" \in session.certs
    /\ session.token = "Certificate" => session.certs = {"user", "channel"}

\* An endpoint that is selected can serve the configured token, so that from
\* there on only the certificate can make the options fail.
SelectedEndpointHasToken ==
  pc = "options" /\ NeedsEndpointDiscovery =>
    /\ UserTokenFound(sec, selected)
    /\ \E i \in DOMAIN offered : selected = offered[i]

\* A cancelled context ends Connect, with or without a limit.
CancelReturns == ctxDone ~> Ended

\* With a limit Connect returns whatever the server does.
LimitReturns == Limit > 0 => <>Ended

\* With a limit, Connect outlasts it by one attempt at most, so by its three
\* calls of the network, however often and at whatever time calls fail.
OvershootBounded ==
  \A m \in CallTimes :
    Limit > 0 /\ (\A d \in CallTimes : d <= m) => now <= Limit + 3 * m

\* The refinement mapping to what the program relies on.
Outcome ==
  IF pc = "connected" THEN "session"
  ELSE IF pc = "failed" THEN "error"
  ELSE IF pc = "closed" THEN "closed" ELSE "pending"

Promise ==
  INSTANCE ConnectOutcome
    WITH wanted <- sec, outcome <- Outcome, open <- "session" \in channels,
         session <- session

\* Attempts, retries and cancellation implement one answer: an error that
\* leaves no session behind, or a session as configured that stays the same
\* and open until Close.
ImplementsConnectOutcome == Promise!Spec
=============================================================================

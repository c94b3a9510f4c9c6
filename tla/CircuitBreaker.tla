--------------------------- MODULE CircuitBreaker ---------------------------
(***************************************************************************)
(* core/circuit_breaker.py, as Neo4jBackend shares one instance among all   *)
(* its callers: call() decides whether to attempt, awaits the dependency,   *)
(* and records the outcome afterwards. The breaker may change state any     *)
(* number of times between the two halves of one call.                      *)
(***************************************************************************)
EXTENDS Naturals, FiniteSets

CONSTANTS Callers,      \* the coroutines that share the breaker
          FailMax,      \* fail_max
          ResetTimeout  \* reset_timeout, in ticks of time.monotonic()

ASSUME BreakerAssumption == FailMax \in Nat \ {0} /\ ResetTimeout \in Nat

VARIABLES
  state,     \* CLOSED, OPEN or HALF_OPEN
  failures,  \* the failure count; beyond FailMax it makes no difference
  elapsed,   \* monotonic() - opened_at; beyond ResetTimeout it makes no difference
  calls,     \* what each caller awaits: nothing, or the dependency
  probes,    \* the callers admitted since the breaker last became half-open
  dependency \* "up" or "down", as an awaited call will find it

vars == <<state, failures, elapsed, calls, probes, dependency>>

Capped(n, limit) == IF n > limit THEN limit ELSE n

Init ==
    /\ state = "closed" /\ failures = 0 /\ elapsed = 0
    /\ calls = [c \in Callers |-> "idle"]
    /\ probes = {}
    /\ dependency = "up"

\* _can_attempt, then the dependency is awaited. Half-open admits everyone.
Attempt(c) ==
    /\ calls[c] = "idle"
    /\ \/ /\ state = "open" /\ elapsed = ResetTimeout
          /\ state' = "half_open"
          /\ probes' = {c}
       \/ /\ state = "half_open"
          /\ probes' = probes \cup {c}
          /\ UNCHANGED state
       \/ /\ state = "closed"
          /\ UNCHANGED <<state, probes>>
    /\ calls' = [calls EXCEPT ![c] = "awaiting"]
    /\ UNCHANGED <<failures, elapsed, dependency>>

\* CircuitOpen is raised before anything changes.
Reject(c) ==
    /\ calls[c] = "idle"
    /\ state = "open" /\ elapsed < ResetTimeout
    /\ UNCHANGED vars

\* Mutant of Succeed: the count decays instead of being reset.
SucceedDecays(c) ==
    /\ calls[c] = "awaiting" /\ dependency = "up"
    /\ state' = "closed"
    /\ failures' = failures - 1
    /\ calls' = [calls EXCEPT ![c] = "idle"]
    /\ probes' = {}
    /\ UNCHANGED <<elapsed, dependency>>

\* Mutant of Succeed: _on_success does not reset the failure count.
SucceedKeepsCount(c) ==
    /\ calls[c] = "awaiting" /\ dependency = "up"
    /\ state' = "closed"
    /\ calls' = [calls EXCEPT ![c] = "idle"]
    /\ probes' = {}
    /\ UNCHANGED <<failures, elapsed, dependency>>

\* Mutant of Succeed: a success only closes a half-open breaker.
SucceedNeverCloses(c) ==
    /\ calls[c] = "awaiting" /\ dependency = "up"
    /\ failures' = 0
    /\ calls' = [calls EXCEPT ![c] = "idle"]
    /\ UNCHANGED <<state, elapsed, probes, dependency>>

\* _on_success: close, whatever the state is by now.
Succeed(c) ==
    /\ calls[c] = "awaiting" /\ dependency = "up"
    /\ state' = "closed"
    /\ failures' = 0
    /\ calls' = [calls EXCEPT ![c] = "idle"]
    /\ probes' = {}
    /\ UNCHANGED <<elapsed, dependency>>

\* Mutant of Fail: only a failure of the probe opens the breaker.
FailOpensProbesOnly(c) ==
    /\ calls[c] = "awaiting" /\ dependency = "down"
    /\ failures' = Capped(failures + 1, FailMax - 1)
    /\ \/ /\ state = "half_open"
          /\ state' = "open" /\ elapsed' = 0 /\ probes' = {}
       \/ /\ state # "half_open"
          /\ UNCHANGED <<state, elapsed, probes>>
    /\ calls' = [calls EXCEPT ![c] = "idle"]
    /\ UNCHANGED dependency

\* _on_failure: count, open at the limit or from half-open, and restart the
\* cooldown even if the breaker was open already.
Fail(c) ==
    /\ calls[c] = "awaiting" /\ dependency = "down"
    /\ failures' = Capped(failures + 1, FailMax)
    /\ \/ /\ failures' = FailMax \/ state = "half_open"
          /\ state' = "open" /\ elapsed' = 0 /\ probes' = {}
       \/ /\ failures' < FailMax /\ state # "half_open"
          /\ UNCHANGED <<state, elapsed, probes>>
    /\ calls' = [calls EXCEPT ![c] = "idle"]
    /\ UNCHANGED dependency

\* CancelledError is not an Exception: the call ends and nothing is recorded.
Cancel(c) ==
    /\ calls[c] = "awaiting"
    /\ calls' = [calls EXCEPT ![c] = "idle"]
    /\ UNCHANGED <<state, failures, elapsed, probes, dependency>>

Tick ==
    /\ state = "open" /\ elapsed < ResetTimeout
    /\ elapsed' = elapsed + 1
    /\ UNCHANGED <<state, failures, calls, probes, dependency>>

Flip ==
    /\ dependency' \in {"up", "down"} \ {dependency}
    /\ UNCHANGED <<state, failures, elapsed, calls, probes>>

Next ==
    \/ \E c \in Callers : Attempt(c) \/ Reject(c) \/ Succeed(c) \/ Fail(c) \/ Cancel(c)
    \/ Tick \/ Flip

Spec == Init /\ [][Next]_vars

\* Time passes, callers come back, and a caller that tries again and again is
\* not cancelled every time before the dependency answers it.
Fairness ==
    /\ WF_vars(Tick)
    /\ \A c \in Callers : WF_vars(Attempt(c)) /\ SF_vars(Succeed(c)) /\ SF_vars(Fail(c))

FairSpec == Spec /\ Fairness
-----------------------------------------------------------------------------
(* Properties *)

\* Every variable keeps its shape; the count never goes below zero.
TypeOK ==
    /\ state \in {"closed", "open", "half_open"}
    /\ failures \in 0 .. FailMax
    /\ elapsed \in 0 .. ResetTimeout
    /\ calls \in [Callers -> {"idle", "awaiting"}]
    /\ probes \subseteq Callers
    /\ dependency \in {"up", "down"}

\* A closed breaker has room for another failure: whatever order the outcomes
\* of calls admitted before, during and after an outage are recorded in, the
\* breaker never admits callers while its count says it should be open.
ClosedBelowLimit == state = "closed" => failures < FailMax

\* Once the dependency answers for good the breaker closes and stays closed:
\* neither a cancelled probe nor a late failure leaves it open or half-open.
Recovers == <>[](dependency = "up") => <>[](state = "closed")

\* Once the dependency is down for good the breaker keeps opening: callers are
\* turned away again and again, a cancelled probe notwithstanding.
ShedsOutage == <>[](dependency = "down") => []<>(state = "open")

\* circuit_breaker.py: after the cooldown the breaker "goes half-open and lets
\* one probe through".
SingleProbe == Cardinality(probes) <= 1
=============================================================================

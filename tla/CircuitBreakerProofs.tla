------------------------ MODULE CircuitBreakerProofs ------------------------
(* The safety of CircuitBreaker for any callers, limit and cooldown. *)
EXTENDS CircuitBreaker, TLAPS

SafeBreaker == TypeOK /\ ClosedBelowLimit

\* A fresh breaker is closed with nothing counted.
LEMMA BreakerInit == Init => SafeBreaker
BY BreakerAssumption DEF Init, SafeBreaker, TypeOK, ClosedBelowLimit

\* The count a failure leaves is positive and within the limit.
LEMMA CappedCount ==
    ASSUME NEW n \in 0 .. FailMax
    PROVE  /\ Capped(n + 1, FailMax) \in 0 .. FailMax
           /\ Capped(n + 1, FailMax) # FailMax => Capped(n + 1, FailMax) < FailMax
BY BreakerAssumption DEF Capped

\* Every step keeps the types and leaves room below the limit. Only Succeed
\* closes the breaker, and only Fail counts.
LEMMA BreakerStep == SafeBreaker /\ [Next]_vars => SafeBreaker'
<1> SUFFICES ASSUME TypeOK, ClosedBelowLimit, [Next]_vars
             PROVE  SafeBreaker'
  BY DEF SafeBreaker
<1> USE BreakerAssumption DEF SafeBreaker, TypeOK, ClosedBelowLimit
<1>1. ASSUME NEW c \in Callers, Attempt(c) PROVE SafeBreaker'
  BY <1>1 DEF Attempt
<1>2. ASSUME NEW c \in Callers, Succeed(c) PROVE SafeBreaker'
  BY <1>2 DEF Succeed
<1>3. ASSUME NEW c \in Callers, Fail(c) PROVE SafeBreaker'
  <2>1. failures' \in 0 .. FailMax
    BY <1>3, CappedCount DEF Fail
  <2>2. ClosedBelowLimit'
    BY <1>3, <2>1 DEF Fail
  <2> QED BY <1>3, <2>1, <2>2 DEF Fail
<1>4. ASSUME NEW c \in Callers, Cancel(c) PROVE SafeBreaker'
  BY <1>4 DEF Cancel
<1>5. CASE Tick
  BY <1>5 DEF Tick
<1>6. CASE Flip
  BY <1>6 DEF Flip
<1>7. ASSUME NEW c \in Callers, Reject(c) PROVE SafeBreaker'
  BY <1>7 DEF Reject, vars
<1>8. CASE UNCHANGED vars
  BY <1>8 DEF vars
<1> QED BY <1>1, <1>2, <1>3, <1>4, <1>5, <1>6, <1>7, <1>8 DEF Next

\* The types and the room below the limit, whatever the order in which the
\* outcomes of calls are recorded.
THEOREM BreakerIsSafe == Spec => []SafeBreaker
<1>1. Init => SafeBreaker
  BY BreakerInit
<1>2. SafeBreaker /\ [Next]_vars => SafeBreaker'
  BY BreakerStep
<1> QED BY <1>1, <1>2, PTL DEF Spec

\* The count stays between zero and the limit, and the clock within the cooldown.
THEOREM BreakerTypes == Spec => []TypeOK
<1>1. SafeBreaker => TypeOK
  BY DEF SafeBreaker
<1> QED BY <1>1, BreakerIsSafe, PTL

\* A closed breaker never holds a count that should have opened it.
THEOREM ClosedHasRoom == Spec => []ClosedBelowLimit
<1>1. SafeBreaker => ClosedBelowLimit
  BY DEF SafeBreaker
<1> QED BY <1>1, BreakerIsSafe, PTL
=============================================================================

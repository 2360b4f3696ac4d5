------------------------------- MODULE Retry -------------------------------
(***************************************************************************)
(* common::retry: call, and after an error call again, MaxRetries times at *)
(* most, sleeping in between for as long as the backoff strategy, its      *)
(* jitter and the cap say.  Every service reaches Postgres, Redis and the  *)
(* other services through it when it starts; the loops of one start-up run *)
(* side by side.  Durations are numbers of some unit.                      *)
(***************************************************************************)
EXTENDS Integers

CONSTANTS
    Loops,          \* the calls to Retry that run side by side
    Strategy,       \* "none", "constant", "linear" or "exponential"
    Jitter,         \* "none", "full" or "equal"
    Initial,        \* the duration the strategy was made with
    MaxDelay,       \* the cap; DurationMax where the code has None
    MaxRetries,
    DurationMax,    \* Duration::MAX, where durations saturate
    AttemptValues   \* size of the u32 a linear backoff multiplies with

ASSUME RetryAssumption ==
    /\ Strategy \in {"none", "constant", "linear", "exponential"}
    /\ Jitter \in {"none", "full", "equal"}
    /\ DurationMax \in Nat /\ Initial \in 0 .. DurationMax /\ MaxDelay \in 0 .. DurationMax
    /\ MaxRetries \in Nat /\ AttemptValues \in Nat \ {0}

VARIABLE
    loops           \* of each loop: where it is, the attempt, the state of
                    \* its strategy, and (history) for how long it has slept

(* The locals of a loop before its first call, and once it has returned.   *)
Local(pc) == [pc |-> pc, attempt |-> 0, backoff |-> Initial, slept |-> 0]

RetryInit == loops = [l \in Loops |-> Local("calling")]

-----------------------------------------------------------------------------
Min2(a, b) == IF a <= b THEN a ELSE b

SaturatingMul_Plain(d, n) == d * n
SaturatingMul(d, n) == Min2(d * n, DurationMax)

(* next_backoff of each strategy: the delay it returns.                    *)
NoBackoff == 0
ConstantBackoff(backoff) == backoff
LinearBackoff(backoff, attempt) == SaturatingMul(backoff, attempt % AttemptValues)
ExponentialBackoff_Doubled(backoff) == SaturatingMul(backoff, 2)
ExponentialBackoff(backoff) == backoff

NextBackoff(backoff, attempt) ==
    CASE Strategy = "none" -> NoBackoff
      [] Strategy = "constant" -> ConstantBackoff(backoff)
      [] Strategy = "linear" -> LinearBackoff(backoff, attempt)
      [] Strategy = "exponential" -> ExponentialBackoff(backoff)

(* Only the exponential one has a state that changes.                      *)
BackoffAfter(backoff) == IF Strategy = "exponential" THEN SaturatingMul(backoff, 2) ELSE backoff

(* JitterTy::jitter: a random part of the delay, from nothing or from half *)
(* of it upwards; mul_f32 may round up to the whole.                       *)
Jittered(d) ==
    CASE Jitter = "none" -> {d}
      [] Jitter = "full" -> 0 .. d
      [] Jitter = "equal" -> (d \div 2) .. d

(* The cap comes after the jitter.                                         *)
Delays(backoff, attempt) == {Min2(MaxDelay, d) : d \in Jittered(NextBackoff(backoff, attempt))}

-----------------------------------------------------------------------------
Succeed(l) ==
    /\ loops[l].pc = "calling"
    /\ loops' = [loops EXCEPT ![l] = Local("ok")]

FailOnce(l) ==
    /\ loops[l].pc = "calling" /\ loops[l].attempt < MaxRetries
    /\ \E delay \in Delays(loops[l].backoff, loops[l].attempt + 1) :
        loops' = [loops EXCEPT ![l] = [pc |-> "sleeping", attempt |-> loops[l].attempt,
                                       backoff |-> BackoffAfter(loops[l].backoff),
                                       slept |-> loops[l].slept + delay]]

GiveUp(l) ==
    /\ loops[l].pc = "calling" /\ loops[l].attempt >= MaxRetries
    /\ loops' = [loops EXCEPT ![l] = Local("failed")]

Wake(l) ==
    /\ loops[l].pc = "sleeping"
    /\ loops' = [loops EXCEPT ![l] = [pc |-> "calling", attempt |-> loops[l].attempt + 1,
                                      backoff |-> loops[l].backoff, slept |-> loops[l].slept]]

RetryStep(l) == Succeed(l) \/ FailOnce(l) \/ GiveUp(l) \/ Wake(l)
RetryNext == \E l \in Loops : RetryStep(l)

(* The next run of the process, after the last one ended.                  *)
RetryAgain == loops' = [l \in Loops |-> Local("calling")]

RetrySpec == RetryInit /\ [][RetryNext \/ RetryAgain]_loops

-----------------------------------------------------------------------------
RetryTypeOK ==
    loops \in [Loops -> [pc : {"calling", "sleeping", "ok", "failed"}, attempt : 0 .. MaxRetries,
                         backoff : 0 .. DurationMax, slept : Nat]]

(* Delays a loop has chosen so far.                                        *)
Slept(l) == loops[l].attempt + (IF loops[l].pc = "sleeping" THEN 1 ELSE 0)

(* A loop with exponential backoff keeps the pace of the doubling, however *)
(* the jitter falls.  It has waited no longer than the cap for each call   *)
(* that failed, and until the durations saturate no longer than the plain  *)
(* doubling, so a start that gives up does so in time.  With the equal     *)
(* jitter the services use it has waited, up to rounding, at least half of *)
(* the plain doubling or the cap, and at each failure half of the initial  *)
(* duration or the cap, so a service that does not come up is never called *)
(* in a hot loop.                                                          *)
Pace(l) ==
    LET slept == loops[l].slept
        doubled == loops[l].backoff - Initial
    IN  /\ slept <= Slept(l) * MaxDelay
        /\ loops[l].backoff < DurationMax => slept <= doubled
        /\ Jitter # "full" => /\ Min2(doubled, 2 * MaxDelay) <= 2 * slept + Slept(l)
                              /\ Slept(l) * Min2(Initial, 2 * MaxDelay) <= 2 * slept + Slept(l)

SleptFollowsBackoff == Strategy = "exponential" => \A l \in Loops : Pace(l)

=============================================================================

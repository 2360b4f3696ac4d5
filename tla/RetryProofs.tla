---------------------------- MODULE RetryProofs ----------------------------
(***************************************************************************)
(* The pace of the retries, for every number of loops and attempts, every  *)
(* initial delay, cap and jitter, and durations that saturate anywhere.    *)
(***************************************************************************)
EXTENDS Retry, TLAPS

Durations == 0 .. DurationMax

(* Multiplication saturates; below the limit it is exact.                  *)
LEMMA Doubling ==
    ASSUME NEW d \in Durations
    PROVE  /\ SaturatingMul(d, 2) \in Durations /\ d <= SaturatingMul(d, 2) /\ SaturatingMul(d, 2) <= 2 * d
           /\ SaturatingMul(d, 2) < DurationMax => SaturatingMul(d, 2) = 2 * d /\ d < DurationMax
BY RetryAssumption DEF SaturatingMul, Min2, Durations

LEMMA ProductIsNat ==
    ASSUME NEW d \in Nat, NEW n \in Nat
    PROVE  d * n \in Nat
OBVIOUS

(* A delay is a duration, whatever the strategy and the jitter.            *)
LEMMA NextBackoffIsDuration ==
    ASSUME NEW b \in Durations, NEW n \in Nat
    PROVE  NextBackoff(b, n) \in Durations
<1>1. CASE Strategy = "linear"
    <2>1. n % AttemptValues \in Nat
        BY RetryAssumption
    <2>2. b * (n % AttemptValues) \in Nat
        BY <2>1, ProductIsNat, RetryAssumption DEF Durations
    <2> QED BY <1>1, <2>2, RetryAssumption DEF NextBackoff, LinearBackoff, SaturatingMul, Min2, Durations
<1>2. CASE Strategy # "linear"
    BY <1>2, RetryAssumption DEF NextBackoff, NoBackoff, ConstantBackoff, ExponentialBackoff, Durations
<1> QED BY <1>1, <1>2

LEMMA DelayRange ==
    ASSUME NEW b \in Durations, NEW n \in Nat, NEW delay \in Delays(b, n)
    PROVE  /\ delay \in Durations /\ delay <= NextBackoff(b, n) /\ delay <= MaxDelay
           /\ Jitter # "full" => Min2(NextBackoff(b, n), 2 * MaxDelay) <= 2 * delay + 1
<1> DEFINE d0 == NextBackoff(b, n)
<1>1. d0 \in Durations
    BY NextBackoffIsDuration
<1>2. PICK d \in Jittered(d0) : delay = Min2(MaxDelay, d)
    BY DEF Delays
<1> HIDE DEF d0
<1>3. d \in Int /\ 0 <= d /\ d <= d0 /\ (Jitter # "full" => d0 <= 2 * d + 1)
    BY <1>1, RetryAssumption DEF Jittered, Durations
<1> QED BY <1>1, <1>2, <1>3, RetryAssumption DEF Min2, Durations, d0

-----------------------------------------------------------------------------
(* Of one loop: it has a type, and its sleep follows its backoff.          *)
LoopType == [pc : {"calling", "sleeping", "ok", "failed"}, attempt : 0 .. MaxRetries,
             backoff : 0 .. DurationMax, slept : Nat]

DelaysOf(s) == s.attempt + (IF s.pc = "sleeping" THEN 1 ELSE 0)

(* The last conjunct of the last part needs the first: a backoff never     *)
(* falls below the initial one.                                            *)
Follows(s) ==
    Strategy = "exponential" =>
        /\ Initial <= s.backoff
        /\ s.slept <= DelaysOf(s) * MaxDelay
        /\ s.backoff < DurationMax => s.slept <= s.backoff - Initial
        /\ Jitter # "full" => /\ Min2(s.backoff - Initial, 2 * MaxDelay) <= 2 * s.slept + DelaysOf(s)
                              /\ DelaysOf(s) * Min2(Initial, 2 * MaxDelay) <= 2 * s.slept + DelaysOf(s)

(* A sleeping loop has a retry left.                                       *)
Good(s) ==
    /\ s \in LoopType
    /\ s.pc = "sleeping" => s.attempt < MaxRetries
    /\ Follows(s)

LEMMA LocalIsGood ==
    ASSUME NEW pc \in {"calling", "ok", "failed"}
    PROVE  Good(Local(pc))
<1>1. Local(pc) \in LoopType /\ DelaysOf(Local(pc)) = 0 /\ Local(pc).slept = 0 /\ Local(pc).backoff = Initial
    BY RetryAssumption DEF LoopType, DelaysOf, Local
<1>2. \A k \in Nat : 0 * k = 0
    OBVIOUS
<1>3. Min2(Initial, 2 * MaxDelay) \in Nat /\ MaxDelay \in Nat /\ Initial \in Nat /\ Min2(Initial - Initial, 2 * MaxDelay) = 0
    BY RetryAssumption DEF Min2
<1>4. Local(pc).pc # "sleeping"
    BY DEF Local
<1>5. Follows(Local(pc))
    BY <1>1, <1>2, <1>3 DEF Follows
<1> QED BY <1>1, <1>4, <1>5 DEF Good

LEMMA FailureIsGood ==
    ASSUME NEW s \in LoopType, Good(s), s.pc = "calling", s.attempt < MaxRetries,
           NEW delay \in Delays(s.backoff, s.attempt + 1)
    PROVE  Good([pc |-> "sleeping", attempt |-> s.attempt,
                 backoff |-> BackoffAfter(s.backoff), slept |-> s.slept + delay])
<1> DEFINE t == [pc |-> "sleeping", attempt |-> s.attempt,
                 backoff |-> BackoffAfter(s.backoff), slept |-> s.slept + delay]
<1>1. s.backoff \in Durations /\ s.attempt \in Nat /\ s.slept \in Nat /\ s.attempt \in 0 .. MaxRetries
    BY RetryAssumption DEF LoopType, Durations
<1>2. /\ delay \in Durations /\ delay <= NextBackoff(s.backoff, s.attempt + 1) /\ delay <= MaxDelay
      /\ Jitter # "full" => Min2(NextBackoff(s.backoff, s.attempt + 1), 2 * MaxDelay) <= 2 * delay + 1
    BY <1>1, DelayRange
<1>3. BackoffAfter(s.backoff) \in Durations
    BY <1>1, Doubling DEF BackoffAfter
<1>4. t \in LoopType
    BY <1>1, <1>2, <1>3, RetryAssumption DEF LoopType, Durations
<1>5. Follows(t)
    <2> SUFFICES ASSUME Strategy = "exponential" PROVE Follows(t)
        BY DEF Follows
    <2>1. PICK b \in Durations, after \in Durations, n \in Nat, slept \in Nat :
            b = s.backoff /\ after = BackoffAfter(s.backoff) /\ n = s.attempt /\ slept = s.slept
        BY <1>1, <1>3
    <2>2. t.backoff = after /\ t.slept = slept + delay /\ DelaysOf(t) = n + 1
        BY <2>1 DEF DelaysOf
    <2>3. NextBackoff(b, n + 1) = b
        BY DEF NextBackoff, ExponentialBackoff
    <2>4. delay \in Nat /\ delay <= b /\ delay <= MaxDelay /\ (Jitter # "full" => Min2(b, 2 * MaxDelay) <= 2 * delay + 1)
        BY <1>2, <2>1, <2>3, RetryAssumption DEF Durations
    <2>5. b <= after /\ after <= 2 * b /\ (after < DurationMax => after = 2 * b /\ b < DurationMax)
        BY <2>1, Doubling DEF BackoffAfter
    <2>6. /\ Initial <= b /\ slept <= n * MaxDelay /\ (b < DurationMax => slept <= b - Initial)
          /\ Jitter # "full" => /\ Min2(b - Initial, 2 * MaxDelay) <= 2 * slept + n
                                /\ n * Min2(Initial, 2 * MaxDelay) <= 2 * slept + n
        BY <1>1, <2>1 DEF Good, Follows, DelaysOf
    <2>7. /\ b \in Nat /\ after \in Nat /\ MaxDelay \in Nat /\ Initial \in Nat /\ DurationMax \in Nat
          /\ Min2(Initial, 2 * MaxDelay) \in Nat
        BY RetryAssumption DEF Durations, Min2
    <2>8. Initial <= after /\ (after < DurationMax => slept + delay <= after - Initial)
        BY <2>4, <2>5, <2>6, <2>7
    <2>9. slept + delay <= (n + 1) * MaxDelay
        <3>1. (n + 1) * MaxDelay = n * MaxDelay + MaxDelay /\ n * MaxDelay \in Nat
            BY <2>7
        <3> QED BY <2>4, <2>6, <2>7, <3>1
    <2>10. ASSUME Jitter # "full"
           PROVE  /\ Min2(after - Initial, 2 * MaxDelay) <= 2 * (slept + delay) + (n + 1)
                  /\ (n + 1) * Min2(Initial, 2 * MaxDelay) <= 2 * (slept + delay) + (n + 1)
        <3>1. Min2(after - Initial, 2 * MaxDelay) <= 2 * (slept + delay) + (n + 1)
            BY <2>4, <2>5, <2>6, <2>7, <2>10 DEF Min2
        <3>2. PICK k \in Nat : k = Min2(Initial, 2 * MaxDelay)
            BY <2>7
        <3>3. k <= 2 * delay + 1
            BY <2>4, <2>6, <2>7, <2>10, <3>2 DEF Min2
        <3>4. (n + 1) * k = n * k + k /\ n * k \in Nat
            OBVIOUS
        <3>5. n * k <= 2 * slept + n
            BY <2>6, <2>10, <3>2
        <3>6. (n + 1) * k <= 2 * (slept + delay) + (n + 1)
            BY <2>4, <3>3, <3>4, <3>5
        <3> QED BY <3>1, <3>2, <3>6
    <2> HIDE DEF t
    <2> QED BY <2>2, <2>8, <2>9, <2>10 DEF Follows
<1> QED BY <1>4, <1>5 DEF Good

LEMMA WakeIsGood ==
    ASSUME NEW s \in LoopType, Good(s), s.pc = "sleeping"
    PROVE  Good([pc |-> "calling", attempt |-> s.attempt + 1, backoff |-> s.backoff, slept |-> s.slept])
BY RetryAssumption DEF Good, LoopType, Follows, DelaysOf

-----------------------------------------------------------------------------
RetryInv == loops \in [Loops -> LoopType] /\ \A l \in Loops : Good(loops[l])

LEMMA RetryInvStep ==
    ASSUME RetryInv, [RetryNext \/ RetryAgain]_loops
    PROVE  RetryInv'
<1>1. CASE RetryAgain
    BY <1>1, LocalIsGood DEF RetryInv, RetryAgain, Good
<1>2. CASE RetryNext
    <2>1. PICK l \in Loops : RetryStep(l)
        BY <1>2 DEF RetryNext
    <2>2. \E s \in LoopType : Good(s) /\ loops' = [loops EXCEPT ![l] = s]
        <3>1. CASE Succeed(l)
            BY <3>1, LocalIsGood DEF Succeed, Good
        <3>2. CASE GiveUp(l)
            BY <3>2, LocalIsGood DEF GiveUp, Good
        <3>3. CASE FailOnce(l)
            <4>1. loops[l] \in LoopType /\ Good(loops[l])
                BY DEF RetryInv
            <4>2. PICK delay \in Delays(loops[l].backoff, loops[l].attempt + 1) :
                    loops' = [loops EXCEPT ![l] = [pc |-> "sleeping", attempt |-> loops[l].attempt,
                                                   backoff |-> BackoffAfter(loops[l].backoff),
                                                   slept |-> loops[l].slept + delay]]
                BY <3>3 DEF FailOnce
            <4>3. Good([pc |-> "sleeping", attempt |-> loops[l].attempt,
                        backoff |-> BackoffAfter(loops[l].backoff), slept |-> loops[l].slept + delay])
                BY <3>3, <4>1, FailureIsGood DEF FailOnce
            <4> QED BY <4>2, <4>3 DEF Good
        <3>4. CASE Wake(l)
            <4>1. loops[l] \in LoopType /\ Good(loops[l])
                BY DEF RetryInv
            <4>2. Good([pc |-> "calling", attempt |-> loops[l].attempt + 1,
                        backoff |-> loops[l].backoff, slept |-> loops[l].slept])
                BY <3>4, <4>1, WakeIsGood DEF Wake
            <4> QED BY <3>4, <4>2 DEF Wake, Good
        <3> QED BY <2>1, <3>1, <3>2, <3>3, <3>4 DEF RetryStep
    <2> QED BY <2>2 DEF RetryInv
<1>3. CASE UNCHANGED loops
    BY <1>3 DEF RetryInv
<1> QED BY <1>1, <1>2, <1>3

LEMMA RetryInvInit == RetryInit => RetryInv
BY LocalIsGood DEF RetryInit, RetryInv, Good

LEMMA RetryInvFollows == RetryInv => RetryTypeOK /\ SleptFollowsBackoff
<1> SUFFICES ASSUME RetryInv PROVE RetryTypeOK /\ SleptFollowsBackoff
    OBVIOUS
<1>1. RetryTypeOK
    BY DEF RetryInv, RetryTypeOK, LoopType
<1>2. SleptFollowsBackoff
    BY DEF RetryInv, Good, Follows, DelaysOf, Slept, Pace, SleptFollowsBackoff
<1> QED BY <1>1, <1>2

(* A retry keeps the pace of its doubling backoff, whatever fails: it has  *)
(* never slept longer than the plain doubling, or than the cap each time,  *)
(* and with the jitter the services use never less than half of it or the  *)
(* cap.                                                                    *)
THEOREM RetriesKeepPace == RetrySpec => [](RetryTypeOK /\ SleptFollowsBackoff)
<1>1. RetryInit => RetryInv
    BY RetryInvInit
<1>2. RetryInv /\ [RetryNext \/ RetryAgain]_loops => RetryInv'
    BY RetryInvStep
<1>3. RetryInv => RetryTypeOK /\ SleptFollowsBackoff
    BY RetryInvFollows
<1> QED BY <1>1, <1>2, <1>3, PTL DEF RetrySpec

=============================================================================

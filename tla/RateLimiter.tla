---------------------------- MODULE RateLimiter ----------------------------
(***************************************************************************)
(* The distributed token bucket (pkg/ratelimit/ratelimit.go): one Lua      *)
(* script per decision on a Redis key with a TTL, the time taken from the  *)
(* clock of the pod that asks.  One bucket is followed.                    *)
(*                                                                         *)
(* Time is in ticks.  The rate is RateNum / RateDen tokens a tick; tokens  *)
(* are counted in units of 1 / RateDen, so that the script's fractions are *)
(* exact.                                                                  *)
(***************************************************************************)
EXTENDS Integers

CONSTANTS Burst, RateNum, RateDen,
          TTLMargin,  \* the code's 60 s beyond a full refill
          ClockLag,   \* how far "now" may be off when the script runs: the skew
                      \* between pods and the delay of the call
          MaxTick,    \* bound: the time the model runs for
          MaxRewound  \* bound: how far the stored time is set back, in all

ASSUME RateAssumption ==
  /\ {Burst, RateNum, RateDen} \subseteq Nat \ {0}
  /\ ClockLag \in Nat /\ TTLMargin \in Nat /\ 2 * ClockLag < TTLMargin
  /\ MaxTick \in Nat

VARIABLES tick,      \* Redis' own time
          bucket,    \* the hash: tokens and ts; "live" is that the key exists
          admitted,  \* tokens granted, in units
          rewound,   \* ticks by which ts has been set back, in all
          refusal    \* the last refusal, while nobody has called since

limitVars == <<tick, bucket, admitted, rewound, refusal>>

Capacity == Burst * RateDen
NoRefusal == [due |-> 0, valid |-> FALSE]

LimitTypeOK ==
  /\ tick \in 0..MaxTick
  /\ bucket.live \in BOOLEAN /\ bucket.tokens \in 0..Capacity
  /\ admitted \in Nat /\ rewound \in Nat
  /\ refusal.valid \in BOOLEAN

LimitInit ==
  /\ tick = 0 /\ admitted = 0 /\ rewound = 0 /\ refusal = NoRefusal
  /\ bucket = [live |-> FALSE, tokens |-> 0, ts |-> 0, expires |-> 0]

\* Mutant of KeyTTL: the key is kept for the margin alone.
KeyTTLMargin == TTLMargin

\* AllowN: the TTL outlives a full refill.
KeyTTL == (Burst * RateDen) \div RateNum + TTLMargin

Least(a, b) == IF a <= b THEN a ELSE b
Most(a, b) == IF a >= b THEN a ELSE b

\* The tokens the script finds for a call that says it is "now".
Refilled(now) == IF bucket.live
                 THEN Least(Capacity, bucket.tokens + Most(0, now - bucket.ts) * RateNum)
                 ELSE Capacity

\* math.ceil(deficit / rate).
RetryAfter(deficit) == (deficit + RateNum - 1) \div RateNum

StoreBucket(now, tokens) ==
  bucket' = [live |-> TRUE, tokens |-> tokens, ts |-> now, expires |-> tick + KeyTTL]

Rewind(now) == /\ rewound' = rewound + IF bucket.live THEN Most(0, bucket.ts - now) ELSE 0
               /\ rewound' <= MaxRewound

\* AllowN(1), granted.
Grant(now) ==
  /\ Refilled(now) >= RateDen
  /\ StoreBucket(now, Refilled(now) - RateDen) /\ Rewind(now)
  /\ admitted' = admitted + RateDen
  /\ refusal' = NoRefusal
  /\ UNCHANGED tick

\* AllowN(1), refused: the state is written back all the same.
Deny(now) ==
  /\ Refilled(now) < RateDen
  /\ StoreBucket(now, Refilled(now)) /\ Rewind(now)
  /\ refusal' = [due |-> now + RetryAfter(RateDen - Refilled(now)), valid |-> TRUE]
  /\ UNCHANGED <<tick, admitted>>

\* Time passes; Redis drops the key when its TTL is over.
Pass ==
  /\ tick < MaxTick
  /\ tick' = tick + 1
  /\ bucket' = IF bucket.live /\ tick' >= bucket.expires
               THEN [bucket EXCEPT !.live = FALSE, !.tokens = 0] ELSE bucket
  /\ UNCHANGED <<admitted, rewound, refusal>>

LimitNext == Pass \/ \E now \in tick - ClockLag..tick + ClockLag : Grant(now) \/ Deny(now)

LimitSpec == LimitInit /\ [][LimitNext]_limitVars

(***************************************************************************)
(* Properties.                                                             *)
(***************************************************************************)
\* Over any time the bucket grants at most its burst and the refill of that
\* time.  The script stores the caller's clock even when it is behind the one
\* stored: every tick it is set back by is refilled a second time, and nothing
\* else is.  An expired key never grants more than a key that had been kept.
AdmissionBounded ==
  admitted <= Capacity + RateNum * (tick + 2 * ClockLag + rewound)

\* A caller told to come back after retry_after is let in when it does and
\* nobody has called in between.
RetryAfterSuffices ==
  refusal.valid => Refilled(Most(refusal.due, bucket.ts)) >= RateDen

\* The bucket keeps both of its promises: to the service, and to a caller that
\* waits as told.
BucketKept == LimitTypeOK /\ AdmissionBounded /\ RetryAfterSuffices
=============================================================================

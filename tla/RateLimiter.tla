----------------------------- MODULE RateLimiter -----------------------------
(***************************************************************************)
(* internal/admin/ratelimit.go and api_ratelimit.go: one token bucket in   *)
(* Redis shared by replicas, each of which passes its own clock to the     *)
(* script.  Tokens are counted in fractions (TokenUnit of them make one).  *)
(***************************************************************************)
EXTENDS Naturals

CONSTANTS Replicas, Skew,  \* how far ahead each replica's clock is
          MaxSkew,         \* the largest of them
          Capacity,        \* tokens of a full bucket
          TokenUnit,       \* fractions in a token
          Refill,          \* fractions the bucket gains in a tick
          IdleLifetime,    \* ticks until an untouched bucket expires
          MaxRateTime,     \* bound on the clock
          MaxRewind        \* bound on how often the bucket's clock goes back

(* An expired bucket is full again, so it must have had the time to fill by *)
(* any replica's clock: an hour at the default 100 tokens and 10 a second.  *)
ASSUME BucketAssumption ==
  /\ Skew \in [Replicas -> 0 .. MaxSkew]
  /\ TokenUnit \in Nat \ {0} /\ Refill \in Nat \ {0}
  /\ Capacity * TokenUnit + Refill * MaxSkew <= Refill * IdleLifetime

VARIABLES
  bucket,   \* [tokens, last]; last is the clock of the replica that called
  bucketTouched,  \* when Redis last renewed the bucket's expiry; there is none at 0
  wakes,    \* when the WaitFor of each replica tries again
  granted,  \* tokens consumed
  rewound,  \* how far the bucket's clock was set back, in all
  rateTime

rateVars == <<bucket, bucketTouched, wakes, granted, rewound, rateTime>>

Full == Capacity * TokenUnit
Less(a, b) == IF a < b THEN a ELSE b
Over(a, b) == IF a > b THEN a - b ELSE 0

RateLimiterInit ==
  /\ rateTime = 1 /\ bucketTouched = 0 /\ granted = 0 /\ rewound = 0
  /\ bucket = [tokens |-> 0, last |-> 0] /\ wakes = [r \in Replicas |-> 0]

Clock(r) == rateTime + Skew[r]

(* What the bucket holds by a replica's clock: inspectLua, and the first    *)
(* half of tokenBucketLua.                                                  *)
Inspect(r) ==
  IF bucketTouched = 0 THEN Full
  ELSE Less(Full, bucket.tokens + Over(Clock(r), bucket.last) * Refill)

Allowed(r) == Inspect(r) >= TokenUnit

(* Mutant: the time of the last refill is only stored with a grant.         *)
tokenBucketGrantTime(r) ==
  [tokens |-> IF Allowed(r) THEN Inspect(r) - TokenUnit ELSE Inspect(r),
   last |-> IF Allowed(r) \/ bucketTouched = 0 THEN Clock(r) ELSE bucket.last]

(* The fields the script stores: refilled, and less a token if there was    *)
(* one.  A replica whose clock is behind sets "last" back, and the next one *)
(* refills the same interval again.                                         *)
tokenBucket(r) ==
  [tokens |-> IF Allowed(r) THEN Inspect(r) - TokenUnit ELSE Inspect(r), last |-> Clock(r)]

(* The script runs, and renews the expiry.                                  *)
Eval(r) ==
  /\ bucketTouched > 0 => bucket.last <= Clock(r) + (MaxRewind - rewound)
  /\ bucket' = tokenBucket(r) /\ bucketTouched' = rateTime
  /\ rewound' = rewound + (IF bucketTouched = 0 THEN 0 ELSE Over(bucket.last, Clock(r)))
  /\ UNCHANGED rateTime

Allow(r) == Eval(r) /\ granted' = granted + (IF Allowed(r) THEN 1 ELSE 0)

(* EvalSha ran the script but its answer was lost: Allow runs it again with *)
(* Eval, and the first token is wasted.                                     *)
EvalShaLost(r) == Eval(r) /\ UNCHANGED <<granted, wakes>>

(* ceil((1 - tokens) / refill), on the tokens before the grant.             *)
RetryAfter(r) == IF Allowed(r) THEN 0 ELSE (TokenUnit - Inspect(r) + Refill - 1) \div Refill

(* A backfill waits for its token: one turn of the loop of WaitFor.         *)
WaitFor(r) ==
  /\ wakes[r] <= rateTime
  /\ Allow(r)
  /\ wakes' = [wakes EXCEPT ![r] = IF Allowed(r) THEN 0 ELSE rateTime + RetryAfter(r)]

(* The middleware answers at once, 429 or the handler.  When Redis does not *)
(* answer it lets the request through and no token moves.                   *)
APIRateLimit(r) == Allow(r) /\ UNCHANGED wakes

BucketExpires ==
  /\ bucketTouched > 0 /\ rateTime - bucketTouched >= IdleLifetime
  /\ bucketTouched' = 0 /\ bucket' = [tokens |-> 0, last |-> 0]
  /\ UNCHANGED <<wakes, granted, rewound, rateTime>>

RateTick ==
  /\ rateTime < MaxRateTime /\ rateTime' = rateTime + 1
  /\ UNCHANGED <<bucket, bucketTouched, wakes, granted, rewound>>

RateLimiterNext ==
  \/ \E r \in Replicas : WaitFor(r) \/ APIRateLimit(r) \/ EvalShaLost(r)
  \/ BucketExpires \/ RateTick

-----------------------------------------------------------------------------
(* Tokens granted, and those still in the bucket, never exceed the capacity *)
(* plus the refill of the time that has passed, of the skew between the     *)
(* replicas and of every interval their clocks made the bucket count twice: *)
(* expiry, refusals and waiting add nothing.                                *)
GrantedWithinBudget ==
  granted * TokenUnit + (IF bucketTouched = 0 THEN Full ELSE bucket.tokens)
    <= Full + Refill * ((rateTime - 1) + MaxSkew + rewound)
=============================================================================

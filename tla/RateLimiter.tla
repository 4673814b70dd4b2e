---------------------------- MODULE RateLimiter ----------------------------
(***************************************************************************)
(* The token bucket of one control connection: consumeToken and the bucket  *)
(* made by accept, in apps/server/src/server.ts.  Tokens are counted in     *)
(* thousandths, so a bucket refills by RefillPerSecond of them every        *)
(* millisecond; the code's floating-point rounding is left out.  The clock  *)
(* is Date.now(): it moves forward with time and back when it is set.       *)
(***************************************************************************)
EXTENDS Integers, Sequences

CONSTANTS Capacity,           \* tokens, the burst
          RefillPerSecond,
          MaxClock,           \* bound: the readings of the clock
          MaxAdmitted         \* bound: requests admitted

ASSUME LimitAssumption ==
  /\ Capacity \in Nat \ {0}
  /\ RefillPerSecond \in Nat \ {0}
  /\ MaxClock \in Nat
  /\ MaxAdmitted \in Nat

Token == 1000
NotLimited == -1

VARIABLES tokens,             \* bucket.tokens, in thousandths
          lastRefillMs,       \* bucket.lastRefillMs
          now,                \* the clock
          admissions,         \* the clock at each admitted request
          retryAt             \* the clock the first refusal after the last
                              \* admission gave, or NotLimited

bucketVars == <<tokens, lastRefillMs, now, admissions, retryAt>>

BucketInit ==
  /\ tokens = Capacity * Token
  /\ now \in 0 .. MaxClock
  /\ lastRefillMs = now
  /\ admissions = <<>>
  /\ retryAt = NotLimited

\* The bucket at this moment.
Refilled ==
  LET grown == tokens + (now - lastRefillMs) * RefillPerSecond
  IN  IF grown < Capacity * Token THEN grown ELSE Capacity * Token

\* Mutant of RetryAfter: rounds down.
RetryAfterRoundedDown == (Token - Refilled) \div RefillPerSecond

\* Math.max(1, Math.ceil(...)), in milliseconds.
RetryAfter ==
  LET ceil == (Token - Refilled + RefillPerSecond - 1) \div RefillPerSecond
  IN  IF ceil > 1 THEN ceil ELSE 1

Admit ==
  /\ Refilled >= Token
  /\ Len(admissions) < MaxAdmitted
  /\ tokens' = Refilled - Token
  /\ lastRefillMs' = now
  /\ admissions' = Append(admissions, now)
  /\ retryAt' = NotLimited
  /\ UNCHANGED now

\* Mutant of Limit: a refusal does not write the bucket's time back.
LimitKeepsTime ==
  /\ Refilled < Token
  /\ tokens' = Refilled
  /\ retryAt' = IF retryAt = NotLimited THEN now + RetryAfter ELSE retryAt
  /\ UNCHANGED <<lastRefillMs, now, admissions>>

\* 429 TOO MANY REQUESTS
Limit ==
  /\ Refilled < Token
  /\ tokens' = Refilled
  /\ lastRefillMs' = now
  /\ retryAt' = IF retryAt = NotLimited THEN now + RetryAfter ELSE retryAt
  /\ UNCHANGED <<now, admissions>>

Tick ==
  /\ now < MaxClock
  /\ now' = now + 1
  /\ UNCHANGED <<tokens, lastRefillMs, admissions, retryAt>>

ClockSetBack ==
  /\ \E t \in 0 .. now - 1 : now' = t
  /\ UNCHANGED <<tokens, lastRefillMs, admissions, retryAt>>

BucketNext == Admit \/ Limit \/ Tick \/ ClockSetBack

BucketSpec == BucketInit /\ [][BucketNext]_bucketVars

-----------------------------------------------------------------------------
(* Properties *)

BucketTypeOK ==
  /\ tokens \in Int
  /\ tokens <= Capacity * Token
  /\ now \in 0 .. MaxClock
  /\ lastRefillMs \in 0 .. MaxClock
  /\ admissions \in Seq(0 .. MaxClock)
  /\ Len(admissions) <= MaxAdmitted
  /\ retryAt \in Nat \cup {NotLimited}

\* Between any two admitted requests, counting both, at most the burst and
\* what the bucket refilled between their times was admitted: the limit of
\* "a burst of 120 requests and refills at 60 per second"
\* (docs/status-codes.md:836), over every window, whatever the refused
\* requests in between did to the bucket and wherever the clock was set.
AdmissionsAreLimited ==
  \A i, j \in DOMAIN admissions :
    i <= j => (j - i + 1) * Token
                <= Capacity * Token + RefillPerSecond * (admissions[j] - admissions[i])

\* Retry-After is "the time until at least one token is available"
\* (docs/status-codes.md:848): after a refusal, a request is admitted if the
\* clock has reached what the refusal said and refused before, however many
\* requests were refused in the meantime.
RetryAfterIsExact ==
  [][retryAt # NotLimited => /\ Admit => now >= retryAt
                             /\ Limit => now < retryAt]_bucketVars
=============================================================================

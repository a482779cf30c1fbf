------------------------------ MODULE Buckets -------------------------------
(***************************************************************************)
(* The arithmetic of a token bucket (cmd/proxy/ratelimit.go, redisrl.go).  *)
(* The code keeps floating-point tokens; one token is Minute units here,   *)
(* so that a refill of rpm/60 tokens a second is a whole number of units   *)
(* per tick of the clock.                                                  *)
(***************************************************************************)
EXTENDS Integers

CONSTANT Minute   \* clock ticks in a minute: the units of one token

MinuteAssumption == Minute \in Nat \ {0}

Unit == Minute

\* capacity = float64(rpm)
Capacity(rpm) == rpm * Unit

Lesser(x, y) == IF x <= y THEN x ELSE y

\* min(capacity, tokens + elapsed*rate), with rate = rpm/60 a second
Refill(tokens, elapsed, rpm) == Lesser(Capacity(rpm), tokens + elapsed * rpm)
=============================================================================

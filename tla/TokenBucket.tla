---------------------------- MODULE TokenBucket -----------------------------
(***************************************************************************)
(* What a per-client limiter promises: every client has a bucket that      *)
(* fills with time, at the rate in force and never beyond capacity, and a  *)
(* request is let through only against a token.  What an edit of the rate  *)
(* makes of the buckets is left open, up to the new capacity.              *)
(***************************************************************************)
EXTENDS Buckets

CONSTANTS Client, Rates

VARIABLES
  rpm,      \* requests per minute in force
  tokens,   \* tokens[c]: what client c may still spend, in units
  answer    \* the client last answered, and whether it was let through

vars == <<rpm, tokens, answer>>

Init ==
  /\ rpm \in Rates
  /\ tokens = [c \in Client |-> Capacity(rpm)]
  /\ answer = <<>>

Grant(c) ==
  /\ tokens[c] >= Unit
  /\ tokens' = [tokens EXCEPT ![c] = tokens[c] - Unit]
  /\ answer' = <<c, TRUE>>
  /\ UNCHANGED rpm

\* A client without a token, or a new one when too many are tracked already.
Deny(c) ==
  /\ tokens[c] < Unit \/ tokens[c] = Capacity(rpm)
  /\ answer' = <<c, FALSE>>
  /\ UNCHANGED <<rpm, tokens>>

Fill ==
  /\ tokens' = [c \in Client |-> Refill(tokens[c], 1, rpm)]
  /\ UNCHANGED <<rpm, answer>>

SetRate(r) ==
  /\ r # rpm
  /\ rpm' = r
  /\ tokens' \in [Client -> 0 .. Capacity(r)]
  /\ UNCHANGED answer

Next ==
  \/ \E c \in Client : Grant(c) \/ Deny(c)
  \/ Fill
  \/ \E r \in Rates : SetRate(r)

Spec == Init /\ [][Next]_vars
=============================================================================

------------------------------ MODULE MCWaits -------------------------------
(***************************************************************************)
(* What somebody waits for: a fill of the response cache, and the message  *)
(* of the status bot.  The two share no state, so a behaviour is one of    *)
(* either: part says of which.  The cache is ResponseCache itself, the bot *)
(* has v1, v2... as variables.                                             *)
(***************************************************************************)
EXTENDS ResponseCache

VARIABLES
  part,   \* the part of the system this behaviour is of
  v1, v2, v3, v4, v5, v6, v7, v8, v9   \* its variables, if it is not ResponseCache

state == <<vars, part, v1, v2, v3, v4, v5, v6, v7, v8, v9>>

\* Two channels, two commands, a deleted message, a failure, a restart.
Bot == INSTANCE StatusBot WITH
  Channel <- {"c1", "c2"}, None <- "none", Environment <- {"c1", "none"},
  Command <- {"k1", "k2"}, MaxMsg <- 5, MaxGone <- 1, MaxFail <- 1,
  MaxCrash <- 1, posted <- v1, gone <- v2, fails <- v3, crashes <- v4,
  alertChannelID <- v5, statusMessageID <- v6, disk <- v7, poll <- v8,
  cmd <- v9

\* The variables beside ResponseCache's.
others == <<v1, v2, v3, v4, v5, v6, v7, v8, v9>>

OtherInit ==
  \/ part = "bot" /\ Bot!Init

\* ResponseCache at rest, in the behaviours of the other parts.
AtRest == Init /\ ttl = 1

MCInit ==
  \/ part = "cache" /\ Init
     /\ v1 = 0 /\ v2 = 0 /\ v3 = 0 /\ v4 = 0 /\ v5 = 0 /\ v6 = 0
     /\ v7 = 0 /\ v8 = 0 /\ v9 = 0
  \/ AtRest /\ OtherInit

OtherNext ==
  \/ part = "bot" /\ Bot!Next

MCNext ==
  /\ UNCHANGED part
  /\ \/ part = "cache" /\ Next /\ UNCHANGED others
     \/ OtherNext /\ UNCHANGED vars

\* What ResponseCache and StatusBot take for granted.
MCFairness ==
  /\ \A q \in Request :
       /\ WF_vars(part = "cache" /\ Wake(q))
       /\ WF_vars(part = "cache" /\ \E kind \in Kind, size \in BodySize : Respond(q, kind, size))
       /\ WF_vars(part = "cache" /\ StoreDeferred(q))
       /\ WF_vars(part = "cache" /\ endFill(q))
  /\ WF_(Bot!vars)(part = "bot" /\ Bot!pollStatus)
  /\ \A k \in {"k1", "k2"} : WF_(Bot!vars)(part = "bot" /\ Bot!Handler(k))

MCSpec == MCInit /\ [][MCNext]_state /\ MCFairness

ASSUME PartsAssumption == CacheAssumption
-----------------------------------------------------------------------------
(* The properties beside ResponseCache's OnlyValidAnswers and NoStampede *)

\* ResponseCache: whatever transfers break off and entries expire, the store stays
\* within its limits, counted by what it holds, and a parked request is released.
FillsSettle == []WithinBounds /\ WaitersReleased

\* StatusBot: once commands, deletions, failures and restarts end, the bot keeps
\* editing a message that exists, in the channel it was told to use; and however
\* often Discord fails, it posts none but the first, one for every command and
\* restart, and one for each that people deleted.
SettlesOnMessage ==
  /\ [](part = "bot" => Bot!EditsInPlace)
  /\ <>[](part = "bot" => Bot!OnMessage)
=============================================================================

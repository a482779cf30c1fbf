----------------------------- MODULE StatusBot -----------------------------
(***************************************************************************)
(* The status bot (cmd/statusbot): one message in a Discord channel that a  *)
(* poll loop keeps editing.  /set-alert-channel moves it: its handler runs  *)
(* in a goroutine of its own, beside the poll loop and beside other         *)
(* handlers, posts a message in the new channel and then records it, first  *)
(* in memory and then in two writes to disk (channelstore.go).  A restart   *)
(* takes up what is on disk.                                                *)
(*                                                                         *)
(* Discord is external: messages that exist, each in its channel.  What the *)
(* message shows, its pages and the buttons that turn them, and the !status *)
(* reply are left out.                                                      *)
(***************************************************************************)
EXTENDS Naturals, FiniteSets, Sequences

CONSTANTS Channel,   \* channels
          None,      \* no channel
          Environment, \* what DISCORD_CHANNEL_ID may be: channels and None
          Command,   \* uses of /set-alert-channel
          MaxMsg,    \* bound: messages
          MaxGone,   \* bound: messages deleted by people
          MaxFail,   \* bound: transient errors of Discord
          MaxCrash   \* bound: restarts

VARIABLES
    posted,   \* the messages ever posted, in order: the channel of each
    gone,     \* ids of messages that have been deleted
    fails, crashes,  \* how often Discord has failed, and the bot restarted
    alertChannelID, statusMessageID, \* guarded by mu
    disk,     \* the channel store: ChannelID, StatusMessageID
    poll,     \* the poll loop's pollStatus
    cmd       \* the handler of each command

vars == <<posted, gone, fails, crashes, alertChannelID, statusMessageID,
          disk, poll, cmd>>

memory == <<alertChannelID, statusMessageID>>
discord == <<posted, gone, fails, crashes>>

IdlePoll == [pc |-> "idle", target |-> None, msg |-> 0, new |-> 0]

IdleCmd == [pc |-> "unused", channel |-> None, sent |-> 0]

DoneCmd == [IdleCmd EXCEPT !.pc = "done"]

(* initialAlertChannel: an empty store is seeded from the environment. *)
Init ==
    /\ posted = <<>>
    /\ gone = {}
    /\ fails = 0 /\ crashes = 0
    /\ alertChannelID \in Environment
    /\ statusMessageID = 0
    /\ disk = [channel |-> alertChannelID, msg |-> 0]
    /\ poll = IdlePoll
    /\ cmd = [k \in Command |-> IdleCmd]

-----------------------------------------------------------------------------
(* Discord. *)

Post(c) ==
    /\ Len(posted) < MaxMsg
    /\ posted' = Append(posted, c)

NextId == Len(posted) + 1

(* Discord has the message, in this channel. *)
Exists(c, i) == i \in DOMAIN posted /\ posted[i] = c /\ i \notin gone

(* Someone deletes a message. *)
Deleted(i) ==
    /\ Cardinality(gone) < MaxGone
    /\ i \in DOMAIN posted \ gone
    /\ gone' = gone \union {i}
    /\ UNCHANGED <<posted, fails, crashes, memory, disk, poll, cmd>>

(* A call to Discord fails without having had any effect. *)
Transient ==
    /\ fails < MaxFail
    /\ fails' = fails + 1

-----------------------------------------------------------------------------
(* pollStatus, in the steps between which it holds no lock. *)

(* The response is fetched, or a page saying that it could not be, and the  *)
(* target and the message read.                                             *)
PollFetch ==
    /\ poll.pc = "idle"
    /\ alertChannelID # None
    /\ poll' = [pc |-> IF statusMessageID = 0 THEN "send" ELSE "edit",
                target |-> alertChannelID, msg |-> statusMessageID, new |-> 0]
    /\ UNCHANGED <<discord, memory, disk, cmd>>

(* The edit succeeds, and there is nothing to record. *)
PollEdited ==
    /\ poll.pc = "edit"
    /\ Exists(poll.target, poll.msg)
    /\ poll' = IdlePoll
    /\ UNCHANGED <<discord, memory, disk, cmd>>

\* Mutant: a message that is gone is tried again like any other.
PollUnknownKept ==
    /\ poll.pc = "edit"
    /\ ~Exists(poll.target, poll.msg)
    /\ poll' = IdlePoll
    /\ UNCHANGED <<discord, memory, disk, cmd>>

(* Discord says that there is no such message (isUnknownMessageErr). *)
PollUnknown ==
    /\ poll.pc = "edit"
    /\ ~Exists(poll.target, poll.msg)
    /\ poll' = [poll EXCEPT !.pc = "send"]
    /\ UNCHANGED <<discord, memory, disk, cmd>>

(* Any other failure: the same message is tried again at the next tick. *)
PollEditFailed ==
    /\ poll.pc = "edit"
    /\ Transient
    /\ poll' = IdlePoll
    /\ UNCHANGED <<posted, gone, crashes, memory, disk, cmd>>

PollSend ==
    /\ poll.pc = "send"
    /\ Post(poll.target)
    /\ poll' = [poll EXCEPT !.pc = "sent", !.new = NextId]
    /\ UNCHANGED <<gone, fails, crashes, memory, disk, cmd>>

PollSendFailed ==
    /\ poll.pc = "send"
    /\ Transient
    /\ poll' = IdlePoll
    /\ UNCHANGED <<posted, gone, crashes, memory, disk, cmd>>

(* The channel changed while the poll was talking to Discord. *)
Stale == alertChannelID # poll.target

PollRecord ==
    /\ poll.pc = "sent"
    /\ statusMessageID' = IF Stale THEN statusMessageID ELSE poll.new
    /\ poll' = IF Stale THEN IdlePoll ELSE [poll EXCEPT !.pc = "recorded"]
    /\ UNCHANGED <<discord, alertChannelID, disk, cmd>>

(* SetStatusMessageID: the id alone is written, whatever channel is there. *)
PollPersist ==
    /\ poll.pc = "recorded"
    /\ disk' = [disk EXCEPT !.msg = poll.new]
    /\ poll' = IdlePoll
    /\ UNCHANGED <<discord, memory, cmd>>

-----------------------------------------------------------------------------
(* /set-alert-channel. *)

(* The response is fetched and a message posted; if that fails, nothing     *)
(* is changed.                                                              *)
CommandPost(k, c) ==
    /\ cmd[k].pc = "unused"
    /\ Post(c)
    /\ cmd' = [cmd EXCEPT ![k] = [pc |-> "posted", channel |-> c, sent |-> NextId]]
    /\ UNCHANGED <<gone, fails, crashes, memory, disk, poll>>

CommandRefused(k) ==
    /\ cmd[k].pc = "unused"
    /\ Transient
    /\ cmd' = [cmd EXCEPT ![k].pc = "refused"]
    /\ UNCHANGED <<posted, gone, crashes, memory, disk, poll>>

CommandRecord(k) ==
    /\ cmd[k].pc = "posted"
    /\ alertChannelID' = cmd[k].channel
    /\ statusMessageID' = cmd[k].sent
    /\ cmd' = [cmd EXCEPT ![k].pc = "recorded"]
    /\ UNCHANGED <<discord, disk, poll>>

(* Set: the new channel, and no message. *)
CommandSet(k) ==
    /\ cmd[k].pc = "recorded"
    /\ disk' = [channel |-> cmd[k].channel, msg |-> 0]
    /\ cmd' = [cmd EXCEPT ![k].pc = "set"]
    /\ UNCHANGED <<discord, memory, poll>>

CommandSetMessage(k) ==
    /\ cmd[k].pc = "set"
    /\ disk' = [disk EXCEPT !.msg = cmd[k].sent]
    /\ cmd' = [cmd EXCEPT ![k] = DoneCmd]
    /\ UNCHANGED <<discord, memory, poll>>

(* The bot dies and starts again from its disk; handlers die with it. *)
Restart ==
    /\ crashes < MaxCrash
    /\ crashes' = crashes + 1
    /\ alertChannelID' = disk.channel
    /\ statusMessageID' = disk.msg
    /\ poll' = IdlePoll
    /\ cmd' = [k \in Command |->
                 IF cmd[k].pc \in {"unused", "refused"} THEN cmd[k] ELSE DoneCmd]
    /\ UNCHANGED <<posted, gone, fails, disk>>

pollStatus ==
    \/ PollFetch \/ PollEdited \/ PollUnknown \/ PollEditFailed
    \/ PollSend \/ PollSendFailed \/ PollRecord \/ PollPersist

Handler(k) == CommandRecord(k) \/ CommandSet(k) \/ CommandSetMessage(k)

Next ==
    \/ pollStatus
    \/ \E k \in Command :
         \/ \E c \in Channel : CommandPost(k, c)
         \/ CommandRefused(k)
         \/ Handler(k)
    \/ \E i \in DOMAIN posted : Deleted(i)
    \/ Restart

(* The poll loop's ticker fires for ever, and a handler that has begun is   *)
(* scheduled.                                                               *)
Fairness == WF_vars(pollStatus) /\ \A k \in Command : WF_vars(Handler(k))

Spec == Init /\ [][Next]_vars /\ Fairness

-----------------------------------------------------------------------------
(* However often Discord fails, the bot does not litter its channels: there *)
(* is the first message and one for every command, and another only for one *)
(* that people deleted or for a restart (main.go, pollStatus: posting anew on every     *)
(* transient error "is what caused a runaway spam loop").                   *)
EditsInPlace ==
    Len(posted)
        <= 1 + Cardinality({k \in Command : cmd[k].pc \notin {"unused", "refused"}}) + Cardinality(gone) + crashes

(* Once commands, deletions, failures and restarts end, the bot keeps       *)
(* editing a message that exists, in the channel it was told to use.        *)
OnMessage == alertChannelID # None => Exists(alertChannelID, statusMessageID)
SettlesOnMessage == <>[]OnMessage

=============================================================================

------------------------------ MODULE WorkTopic ------------------------------
(***************************************************************************)
(* One Kafka work topic with one partition, as internal/queue writes and   *)
(* reads it: an append-only log, one consumer group with auto-commit       *)
(* disabled, and writers whose WriteMessages call lands message by         *)
(* message.                                                                *)
(***************************************************************************)
EXTENDS Environment

CONSTANT Poison  \* a message that is not a NotificationMessage

VARIABLES
    log,        \* the messages written so far; a message is the id it carries
    committed,  \* the group's committed offset: messages 1..committed are done
    position,   \* the reader has fetched messages up to here
    outbox      \* outbox[c]: messages of c's WriteMessages not yet in the log

topicVars == <<log, committed, position, outbox>>

ASSUME PoisonAssumption == Poison \notin Notifications

TopicTypeOK ==
    /\ log \in Seq(Notifications \cup {Poison})
    /\ committed \in 0..Len(log)
    /\ position \in 0..Len(log)
    /\ outbox \in [Publishers -> SUBSET Notifications]

TopicInit ==
    /\ log = <<>>
    /\ committed = 0
    /\ position = 0
    /\ outbox = [c \in Publishers |-> {}]

-----------------------------------------------------------------------------
(* PublishNotifications builds all messages, then hands them to one        *)
(* WriteMessages call.  A consumer can read a message as soon as it is in  *)
(* the log, before the call returns.                                       *)
StartPublish(c, ids) ==
    /\ outbox' = [outbox EXCEPT ![c] = ids]
    /\ UNCHANGED <<log, committed, position>>

WriteMessage(c, n) ==
    /\ n \in outbox[c]
    /\ log' = Append(log, n)
    /\ outbox' = [outbox EXCEPT ![c] = @ \ {n}]
    /\ UNCHANGED <<committed, position>>

(* The call failed or its context ended: what is left is lost, or the      *)
(* writer's background goroutine still delivers it.                        *)
AbandonPublish(c) ==
    /\ \/ outbox' = [outbox EXCEPT ![c] = {}]
       \/ UNCHANGED outbox
    /\ UNCHANGED <<log, committed, position>>

(* Some other producer writes a message no worker can parse. *)
WritePoison ==
    /\ Fault
    /\ log' = Append(log, Poison)
    /\ UNCHANGED <<committed, position, outbox>>

-----------------------------------------------------------------------------
(* FetchMessage: the message at the reader's position. *)
FetchMessage ==
    /\ position < Len(log)
    /\ position' = position + 1
    /\ UNCHANGED <<log, outbox>>

(* CommitMessages sends exactly the offset of the message it is given: it  *)
(* covers every earlier message, and it may move the offset back.          *)
CommitPastMessage(offset) ==  \* wrong variant: one too far
    /\ committed' = offset + 1
    /\ UNCHANGED <<log, position, outbox>>

CommitMessage(offset) ==
    /\ committed' = offset
    /\ UNCHANGED <<log, position, outbox>>

(* The group rebalances: the reader resumes from the committed offset.     *)
Rebalance ==
    /\ position # committed
    /\ position' = committed
    /\ UNCHANGED <<log, committed, outbox>>
=============================================================================

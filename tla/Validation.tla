------------------------------ MODULE Validation ------------------------------
(***************************************************************************)
(* The rules of creation, NewNotification of internal/domain/validate.go,  *)
(* beside the contract that the API documents (openapi.yaml).              *)
(*                                                                         *)
(* A text is reduced to what the rules measure: [value, blank, bytes,      *)
(* chars]; "blank" says that there is only white space in it.              *)
(***************************************************************************)
EXTENDS Naturals

CONSTANTS
    NoKey,     \* no idempotency key: null in a batch item, no header
    EmptyKey,  \* the key ""
    BlankKey   \* a key of white space

ContentLimits == [sms |-> 160, push |-> 512, email |-> 10000]
MaxRecipientLength == 320
Priorities == {"high", "normal", "low"}

(* No rule is broken, key being the key that the handler passes.  The      *)
(* priority "" and the time "none" are absent; a time is "past" when it is *)
(* not after the request's now.                                            *)
Valid(p, key) ==
    /\ ~p.recipient.blank
    /\ p.recipient.bytes <= MaxRecipientLength
    /\ p.channel \in DOMAIN ContentLimits
    /\ ~p.content.blank
    /\ p.content.chars <= ContentLimits[p.channel]
    /\ p.priority \in Priorities \cup {""}
    /\ key \notin {EmptyKey, BlankKey}
    /\ p.scheduled_at # "past"

(* What a replay has to repeat; priority and time may differ.              *)
PayloadOf(p) == <<p.recipient.value, p.channel, p.content.value>>

-----------------------------------------------------------------------------
(* The documented contract, openapi.yaml: lengths in characters, and       *)
(* nothing about white space, about the keys or about a time in the past.  *)
WithinContract(p) ==
    /\ p.recipient.chars <= 320
    /\ \/ p.channel = "sms" /\ p.content.chars <= 160
       \/ p.channel = "push" /\ p.content.chars <= 512
       \/ p.channel = "email" /\ p.content.chars <= 10000
    /\ p.priority \in {"high", "normal", "low", ""}

(* What the program refuses all the same.  A required text that is missing *)
(* arrives as an empty one, which is blank.                                *)
BeyondContract(p, key) ==
    \/ p.recipient.blank \/ p.content.blank
    \/ p.recipient.chars <= 320 /\ p.recipient.bytes > 320
    \/ key \in {EmptyKey, BlankKey}
    \/ p.scheduled_at = "past"
=============================================================================

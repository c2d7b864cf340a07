-------------------------- MODULE MCIdempotentCreate --------------------------
(* Instances of IdempotentCreate for TLC. *)
EXTENDS IdempotentCreate

CONSTANTS b1, b2, b3, b4, s1, k1, k2, k3, p1, p2

Text(value, bytes, chars) ==
    [value |-> value, blank |-> chars = 0, bytes |-> bytes, chars |-> chars]

(* As long as the rules allow: a recipient of 320 bytes, and as many       *)
(* characters as the channel takes, each of them two bytes.                *)
Params(key, channel, value, longer) ==
    LET limit == [sms |-> 160, push |-> 512, email |-> 10000][channel] + longer
    IN  [key |-> key, recipient |-> Text(p1, 320, 320), channel |-> channel,
         content |-> Text(value, 2 * limit, limit), priority |-> "", scheduled_at |-> "none"]

Entry(key, value) ==
    Params(key, IF key = k2 THEN "push" ELSE IF key = k3 THEN "email" ELSE "sms", value, 0)

Plain == [Entry(NoKey, p1) EXCEPT !.priority = "high", !.scheduled_at = "future"]

(* Single requests with one thing wrong each, the last five within the     *)
(* documented contract.                                                    *)
Broken ==
    [long_sms       |-> Params(NoKey, "sms", p1, 1),
     long_push      |-> Params(NoKey, "push", p1, 1),
     long_email     |-> Params(NoKey, "email", p1, 1),
     fax            |-> [Plain EXCEPT !.channel = "fax"],
     urgent         |-> [Plain EXCEPT !.priority = "urgent"],
     long_recipient |-> [Plain EXCEPT !.recipient = Text(p1, 321, 321)],
     umlauts        |-> [Plain EXCEPT !.recipient = Text(p1, 321, 161), !.key = EmptyKey],
     no_recipient   |-> [Plain EXCEPT !.recipient = Text(p1, 0, 0)],
     no_content     |-> [Plain EXCEPT !.content = Text(p1, 0, 0)],
     past           |-> [Plain EXCEPT !.scheduled_at = "past"],
     blank_key      |-> [Plain EXCEPT !.key = BlankKey]]

(* Batches of no, of too many, and of one item with an empty key. *)
BrokenBatches ==
    [empty     |-> <<>>,
     oversize  |-> <<Plain, Plain, Plain, Plain, Plain>>,
     empty_key |-> <<[Plain EXCEPT !.key = EmptyKey]>>]

(* Batches that take their keys in orders that let two or three of them    *)
(* wait in a circle, one with a key twice, one with an item without a key, *)
(* a single request, and all that is refused, a batch with one bad item    *)
(* among them.                                                             *)
CrossingBatches == {b1, b2, b3, b4} \cup DOMAIN BrokenBatches
CrossingSingles == {s1} \cup DOMAIN Broken

Crossing ==
    [r \in CrossingBatches \cup CrossingSingles |->
       CASE r = b1 -> <<Entry(k1, p1), Entry(k2, p1), Entry(k1, p1)>>
         [] r = b2 -> <<Entry(k2, p1), Plain, Entry(k3, p1), Entry(k1, p1)>>
         [] r = b3 -> <<Entry(k3, p1), Entry(k1, p2)>>
         [] r = b4 -> <<Params(k2, "sms", p1, 1), Entry(k1, p1)>>
         [] r = s1 -> <<Entry(k1, p2)>>
         [] r \in DOMAIN Broken -> <<Broken[r]>>
         [] r \in DOMAIN BrokenBatches -> BrokenBatches[r]]

(* What is to be refused comes first, in one order (an action constraint). *)
(* Nobody waits for such a request and its refusal changes nothing else,   *)
(* so that the other interleavings show no more.                           *)
Refusable == {b4} \cup DOMAIN Broken \cup DOMAIN BrokenBatches
Unrefused == {r \in Refusable : at[r] = "received"}

RefusalsFirst == Unrefused # {} => at'[CHOOSE r \in Unrefused : TRUE] # "received"

(* A batch and a single request reuse a key with another payload. *)
Reused ==
    [r \in {b1, b2, s1} |->
       CASE r = b1 -> <<Entry(k1, p1), Entry(k2, p1)>>
         [] r = b2 -> <<Entry(k2, p2)>>
         [] r = s1 -> <<Entry(k1, p2)>>]
=============================================================================

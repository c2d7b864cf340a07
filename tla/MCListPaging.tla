----------------------------- MODULE MCListPaging -----------------------------
(* Instances of ListPaging for TLC. *)
EXTENDS ListPaging

CONSTANT any

(* Two of the rows come from one batch. *)
Times == [x \in Rows |-> IF x < 2 THEN 1 ELSE IF x < 4 THEN 2 ELSE 3]
Channels == [x \in Rows |-> IF x = 2 THEN "push" ELSE "sms"]

All == [status |-> any, channel |-> any, from |-> any, to |-> any]

Queries == {All, [All EXCEPT !.status = "queued"], [All EXCEPT !.channel = "sms", !.from = 2, !.to = 2]}
=============================================================================

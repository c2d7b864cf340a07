------------------------------ MODULE KeyRegistry ------------------------------
(***************************************************************************)
(* What idempotency keys promise, without transactions: a key gets an      *)
(* owner once and for good; one request claims several keys in one step;   *)
(* and whoever asks about a key is told its owner, possibly never.         *)
(***************************************************************************)
CONSTANTS
    Claims,  \* items of requests that carry a key
    KeyIn,   \* KeyIn[c]: the key of claim c
    By,      \* By[c]: the request that makes it
    Nobody   \* no claim

VARIABLES
    owner,  \* owner[k]: the claim that has key k, or Nobody
    told    \* told[c]: the owner that the answer to c names, or Nobody

registryVars == <<owner, told>>

RegisteredKeys == {KeyIn[c] : c \in Claims}

Init ==
    /\ owner = [k \in RegisteredKeys |-> Nobody]
    /\ told = [c \in Claims |-> Nobody]

(* Claims of request r get keys that nobody had. *)
Register(r) ==
    /\ owner' \in [RegisteredKeys -> Claims \cup {Nobody}]
    /\ \A k \in RegisteredKeys :
         owner'[k] # owner[k] =>
           /\ owner[k] = Nobody
           /\ \E c \in Claims : By[c] = r /\ KeyIn[c] = k /\ owner'[k] = c

(* Claims of r are told the owners there are by now. *)
Tell(r) ==
    /\ told' \in [Claims -> Claims \cup {Nobody}]
    /\ \A c \in Claims :
         told'[c] # told[c] =>
           /\ By[c] = r /\ told[c] = Nobody
           /\ told'[c] = owner'[KeyIn[c]]

Next == \E r \in {By[c] : c \in Claims} : Register(r) /\ Tell(r)

Spec == Init /\ [][Next]_registryVars
=============================================================================

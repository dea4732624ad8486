----------------------------- MODULE TokenBucket -----------------------------
(***************************************************************************)
(* AsyncTokenBucket of verl/experimental/reward_loop/reward_manager/       *)
(* limited.py: what one locked section of acquire() does to the bucket.    *)
(*                                                                         *)
(* Tokens are counted by the time they take to come back: a tick adds one. *)
(* RateLimitedRewardManager gives every bucket the rate of a second as its *)
(* size, so that each of them holds Second, the ticks of a second, and a   *)
(* request that needs n is one for n / Second of a second's budget.        *)
(*                                                                         *)
(* A definition called a variant is a wrong version of the one after it.   *)
(***************************************************************************)
EXTENDS Integers

CONSTANT Second

ASSUME SecondAssumption == Second \in Nat \ {0}

Never == -1

\* last_update is None until the first request.
NewBucket == [tokens |-> Second, last_update |-> Never]

BucketType == [tokens : {n \in Int : n <= Second}, last_update : {Never} \cup Nat]

Least(a, b) == IF a <= b THEN a ELSE b

\* Variant: last_update stays what it was.
RefilledFromStart(b, now) ==
    LET from == IF b.last_update = Never THEN now ELSE b.last_update
    IN  [tokens |-> Least(Second, b.tokens + now - from), last_update |-> from]

\* new_tokens since last_update, cut at max_tokens; both branches of acquire() begin so.
Refilled(b, now) ==
    LET elapsed == IF b.last_update = Never THEN 0 ELSE now - b.last_update
    IN  [tokens |-> Least(Second, b.tokens + elapsed), last_update |-> now]

Debited(b, num_tokens) == [b EXCEPT !.tokens = @ - num_tokens]

\* Variant: the wait is for the whole request, whatever the bucket holds.
all_tokens(b, num_tokens) == num_tokens

tokens_needed(b, num_tokens) == num_tokens - b.tokens

\* A request that no full bucket could serve is paid for in advance.
ExceedsBucket(num_tokens) == num_tokens > Second
=============================================================================

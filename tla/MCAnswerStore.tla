---------------------------- MODULE MCAnswerStore ----------------------------
(* k3 and k4 collide.                                                       *)
EXTENDS AnswerStore, TLC

CONSTANTS k1, k2, k3, k4, h1, h2, h3

MCHash == k1 :> h1 @@ k2 :> h2 @@ k3 :> h3 @@ k4 :> h3

(* A failure, an answer of the small queue's share, one above that share    *)
(* but within the limit, and one that is oversized.                         *)
MCAnswers ==
    {[cost |-> 2, failure |-> TRUE, life |-> 1],
     [cost |-> 2, failure |-> FALSE, life |-> 2],
     [cost |-> 3, failure |-> FALSE, life |-> 2],
     [cost |-> 4, failure |-> FALSE, life |-> 2]}

(* The automatic number of shards is a power of two, as the mask requires,  *)
(* that leaves every shard its least size unless there is only one, and no  *)
(* larger one within four per core and the maximum does (store.rs,          *)
(* default_shard_count).                                                    *)
ASSUME ShardCountChecked ==
    \A maxBytes \in 0 .. 100 : \A parallelism \in 0 .. 5 :
        LET count == DefaultShardCount(maxBytes, parallelism, 16, 3) IN
        /\ count \in {1, 2, 4, 8, 16}
        /\ count > 1 => maxBytes \div count >= 3
        /\ \A more \in {2, 4, 8, 16} :
            more > count /\ more <= 4 * parallelism => maxBytes \div more < 3

(* k1 and k2, with their hashes, are interchangeable.                       *)
Twins == {[x \in {k1, k2, h1, h2} |-> x],
          (k1 :> k2 @@ k2 :> k1 @@ h1 :> h2 @@ h2 :> h1)}

=============================================================================

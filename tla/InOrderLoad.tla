----------------------------- MODULE InOrderLoad -----------------------------
(***************************************************************************)
(* What a safetensors iterator promises its consumer, however it schedules *)
(* its reads: the tensors of the shards come out in file order and, within *)
(* a file, in name order, each once; if a shard cannot be read everything  *)
(* before it has come out and nothing after it does.                       *)
(***************************************************************************)
EXTENDS Naturals, Sequences

CONSTANTS
    ShardCount,     \* files, numbered in the order they were given
    TensorsPerShard

VARIABLES
    out,            \* tensors handed to the consumer, <<shard, index>>
    outcome         \* "open", "complete", "raised" or "closed"

Tensors == (1 .. ShardCount) \X (1 .. TensorsPerShard)

TensorAt(n) ==
    <<((n - 1) \div TensorsPerShard) + 1, ((n - 1) % TensorsPerShard) + 1>>

Init == out = <<>> /\ outcome = "open"

Yield ==
    /\ outcome = "open"
    /\ Len(out) < ShardCount * TensorsPerShard
    /\ out' = Append(out, TensorAt(Len(out) + 1))
    /\ UNCHANGED outcome

Complete ==
    /\ outcome = "open"
    /\ Len(out) = ShardCount * TensorsPerShard
    /\ outcome' = "complete"
    /\ UNCHANGED out

\* A shard that cannot be read ends the iteration at its first tensor.
Raise ==
    /\ outcome = "open"
    /\ Len(out) < ShardCount * TensorsPerShard
    /\ Len(out) % TensorsPerShard = 0
    /\ outcome' = "raised"
    /\ UNCHANGED out

\* The consumer may abandon the iterator after any tensor.
Close ==
    /\ outcome = "open"
    /\ out # <<>>
    /\ outcome' = "closed"
    /\ UNCHANGED out

Next == Yield \/ Complete \/ Raise \/ Close

Spec == Init /\ [][Next]_<<out, outcome>>
=============================================================================

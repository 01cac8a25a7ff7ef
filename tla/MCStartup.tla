------------------------------ MODULE MCStartup ------------------------------
(* Three processes share a snapshot of two shards and may be cut off twice; *)
(* five shards on a node of two ranks are prefetched by two threads and     *)
(* read through a window of three; three processes share the dumps of three *)
(* tensors and three are killed; a table of five rows in three parts is     *)
(* loaded, a killed process is followed by one with another checkpoint; the *)
(* dense groups asked for are those of the launcher, none, or few.          *)
EXTENDS Startup, TLC

CONSTANTS now, before

MCJobs == 1 .. ShardCount
MCSortedFiles == [n \in 1 .. ShardCount |-> n]
MCPartDtype == now :> "fp8" @@ before :> "bf16"
MCGroups == {{}, {"gdn"}, {"shared", "lm_head"}, {"gdn", "attn", "lm_head"}}
=============================================================================

------------------------------ MODULE PleLookup ------------------------------
(***************************************************************************)
(* The ways a PLE row reaches its layer.  A process is configured with a   *)
(* device cache in front of the table, or without one and with the advise  *)
(* gate before each gather (_ple_cache_state, gather); in either case the  *)
(* gathers may be made ahead on the second stream.  The gate's counters,   *)
(* the cache's tensors and the lookahead's buffers are read and written by *)
(* nobody else, so each is followed on its own.                            *)
(***************************************************************************)
EXTENDS PlePrefetchGate, PleDeviceCache, PleLookahead

VARIABLE path       \* "gate", "cache" or "lookahead"

lookupVars == <<path, gateVars, cacheVars, streamVars>>

LookupInit ==
    /\ path \in {"gate", "cache", "lookahead"}
    /\ GateInit /\ CacheInit /\ StreamInit
    /\ path # "gate" => mode = "on" /\ heat = "warm"

LookupNext ==
    \/ path = "gate"      /\ GateNext   /\ UNCHANGED <<path, cacheVars, streamVars>>
    \/ path = "cache"     /\ CacheNext  /\ UNCHANGED <<path, gateVars, streamVars>>
    \/ path = "lookahead" /\ StreamNext /\ UNCHANGED <<path, gateVars, cacheVars>>

LookupSpec == LookupInit /\ [][LookupNext]_lookupVars

(* The fairness of GateFairSpec and StreamFairSpec, for the path taken.    *)
LookupFairSpec ==
    /\ LookupSpec
    /\ WF_lookupVars(path = "gate" /\ LargeGather(TRUE, TRUE) /\ UNCHANGED <<path, cacheVars, streamVars>>)
    /\ WF_lookupVars(path = "lookahead" /\ Host /\ UNCHANGED <<path, gateVars, cacheVars>>)
    /\ WF_lookupVars(path = "lookahead" /\ RunMain /\ UNCHANGED <<path, gateVars, cacheVars>>)
    /\ WF_lookupVars(path = "lookahead" /\ RunSide /\ UNCHANGED <<path, gateVars, cacheVars>>)
-----------------------------------------------------------------------------
(* Every forward made with the lookahead runs to its end: the streams      *)
(* never wait for each other in a circle, and no forward is refused        *)
(* because an earlier one left its prefetch unconsumed.                    *)
LookaheadEnds == path = "lookahead" => EveryForwardRuns
=============================================================================

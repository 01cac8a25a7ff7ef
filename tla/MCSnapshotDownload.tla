-------------------------- MODULE MCSnapshotDownload --------------------------
(* Two processes share a snapshot of two shards; one of them is cut off.    *)
EXTENDS SnapshotDownload
=============================================================================

--------------------------- MODULE MCSseBroadcast ---------------------------
(* Small instances of SseBroadcast; the bounds are in the cfg files.       *)
EXTENDS SseBroadcast
=============================================================================

------------------------- MODULE MCConnectionManager -------------------------
(* Small instances of ConnectionManager.  Handles and thread slots are     *)
(* interchangeable; the symmetry is used by the safety runs only.          *)
EXTENDS ConnectionManager, TLC

(* `reported' is written and never read by the manager: the safety runs     *)
(* whose properties do not mention it leave it out of the fingerprint.     *)
NoReports == <<registry, infoVars, libVars, threadVars, others>>

Symmetry == Permutations(Conns) \cup Permutations(Threads)
=============================================================================

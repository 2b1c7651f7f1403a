----------------------------- MODULE MCLocalRun -----------------------------
(***************************************************************************)
(* Instances of LocalRun for TLC.  Where NeverRevisited holds, a           *)
(* coefficient gets at most MaxHits records and the constraint cuts        *)
(* nothing off; it keeps the corpus finite where it does not hold.         *)
(***************************************************************************)
EXTENDS LocalRun

CONSTANT RecordCap    \* bound: the records of a corpus

CorpusBound == records <= RecordCap
=============================================================================

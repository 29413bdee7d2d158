-------------------------- MODULE MCPrinterQueues --------------------------
(***************************************************************************)
(* PrinterQueues for TLC: devices and queue names are interchangeable, and *)
(* every property of the run is an invariant.                              *)
(***************************************************************************)
EXTENDS PrinterQueues, TLC

MCSymmetry == Permutations(Devices) \cup Permutations(Queues)

\* Bound: TLC goes no further where an edit was begun, a deletion was begun and a queue is
\* stopped; it covers every two of the three.
MCBound == stopped = {} \/ edits = 0 \/ begun = {}
=============================================================================

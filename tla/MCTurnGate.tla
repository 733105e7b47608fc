----------------------------- MODULE MCTurnGate -----------------------------
(* Instances of TurnGate: more callers than keys and more keys than slots,   *)
(* so that a full channel, a contended key and a free key occur together.    *)
EXTENDS TurnGate
=============================================================================

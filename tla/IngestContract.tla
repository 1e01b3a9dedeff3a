---------------------------- MODULE IngestContract ----------------------------
(***************************************************************************)
(* What a checkpointed loader promises: an item is acknowledged only after *)
(* it was written, and is never written again while it is acknowledged.    *)
(* An item may be written again before it is acknowledged (a crash between *)
(* the write and the acknowledgement), so this is at-least-once delivery   *)
(* with acknowledged items delivered no more.                              *)
(***************************************************************************)
EXTENDS Sequences

CONSTANT Items

VARIABLES
    log,    \* the items written, in the order they were
    acked   \* the items acknowledged

vars == <<log, acked>>

Init == log = <<>> /\ acked = {}

Write(x) ==
    /\ x \notin acked
    /\ log' = Append(log, x)
    /\ UNCHANGED acked

Ack(x) ==
    /\ \E i \in DOMAIN log : log[i] = x
    /\ acked' = acked \cup {x}
    /\ UNCHANGED log

\* Acknowledgements are withdrawn all at once, to write everything again.
Clear == acked' = {} /\ UNCHANGED log

Next == Clear \/ \E x \in Items : Write(x) \/ Ack(x)

Spec == Init /\ [][Next]_vars
=============================================================================

----------------------------- MODULE MCNetFetch -----------------------------
(* Two servers for NetFetch, of which one sends more than the buffer holds. *)
EXTENDS NetFetch

CONSTANTS a, b

\* With a buffer of four, b's second segment does not fit behind its header, its third does.
MCSizes == [h \in {a, b} |-> IF h = a THEN <<1, 1>> ELSE <<1, 3, 1>>]
=============================================================================

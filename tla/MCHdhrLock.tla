----------------------------- MODULE MCHdhrLock -----------------------------
(* Three services that start the HDHomeRun driver, p3 by sourcing it. *)
EXTENDS HdhrLock

CONSTANTS p1, p2, p3

MCThree   == {p1, p2, p3}
MCSourced == {p3}
MCNone    == {}
=============================================================================

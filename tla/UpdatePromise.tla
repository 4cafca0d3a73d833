--------------------------- MODULE UpdatePromise ---------------------------
(***************************************************************************)
(* What the update promises a user, without its steps.  The device has one *)
(* release installed; another one replaces it only while the device is not *)
(* up, in one step, and only if /storage/.update offers its kernel and its *)
(* SYSTEM with their checksums.  The promise is void once the power failed *)
(* in the middle of an update, or the user waived the checks.              *)
(***************************************************************************)
CONSTANT Releases

VARIABLES installed, offered, up, void
promised == <<installed, offered, up, void>>

Init ==
  /\ installed \in Releases /\ offered = {}
  /\ up = FALSE /\ void = FALSE

Start == ~up /\ up' = TRUE  /\ UNCHANGED <<installed, offered, void>>
Stop  == up  /\ up' = FALSE /\ offered' \in SUBSET Releases
             /\ UNCHANGED <<installed, void>>

\* The user copies; the machine unpacks, discards, consumes.
Stage ==
  /\ offered' \in SUBSET Releases
  /\ UNCHANGED <<installed, up, void>>

Install ==
  /\ ~up /\ installed' \in offered
  /\ UNCHANGED <<offered, up, void>>

Kept == ~void /\ (Start \/ Stop \/ Stage \/ Install)
Void == void'      \* and then anything may happen

Spec == Init /\ [][Kept \/ Void]_promised
=============================================================================

----------------------------- MODULE MCInstaller -----------------------------
(* The medium, a large and a small disk; sizes in units.                   *)
EXTENDS Installer

CONSTANTS usb, sda, sdb

MCDevices == {usb, sda, sdb}
MCSmall   == {sdb}
\* The new files fill a smaller partition of an earlier release to the last
\* unit, which Repair refuses; in a larger one a unit is to spare.
MCOldRooms == {6, 7}
MCNew      == [f \in Files |-> IF f = "KERNEL" THEN 2 ELSE 4]
MCOld      == [f \in Files |-> IF f = "KERNEL" THEN 1 ELSE 4]
=============================================================================

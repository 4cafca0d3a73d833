-------------------------- MODULE MCFlashUpdate ---------------------------
(* Small instances of FlashUpdate: two releases and the bundles a user can  *)
(* copy of them; sizes in units of which FLASH_FREE_MIN is one.             *)
EXTENDS FlashUpdate

CONSTANTS r1, r2

Bundled(k, s, km, sm) ==
  [img |-> [f \in Files |-> IF f = "KERNEL" THEN k  ELSE s],
   md5 |-> [f \in Files |-> IF f = "KERNEL" THEN km ELSE sm]]

Intact(r)     == Bundled(r, r, r, r)
BadKernel(r)  == Bundled(Corrupt, r, r, r)
BadSystem(r)  == Bundled(r, Corrupt, r, r)
Unsummed(r)   == Bundled(r, r, Absent, Absent)
EmptySum(r)   == Bundled(r, r, Empty, r)
KernelOnly(r) == Bundled(r, Absent, r, Absent)

MCReleases     == {r1, r2}
\* Whole downloads, sound and unsound.
MCWhole        == {Intact(r1), Intact(r2), BadKernel(r2), BadSystem(r1),
                   Unsummed(r2), EmptySum(r1)}
MCSound        == {Intact(r1), Intact(r2)}
\* With truncated archives and copies broken off.
MCPartial      == {Intact(r2), BadKernel(r1), BadKernel(r2), KernelOnly(r1),
                   Unsummed(r2), EmptySum(r1)}
\* With the corrupt SYSTEM, KERNEL and SYSTEM fill /flash to the last unit.
MCSizes ==
  [f \in Files |->
    IF f = "KERNEL" THEN [r \in Staged |-> IF r = r2 THEN 3 ELSE 2]
    ELSE [r \in Staged |-> CASE r = r1 -> 5 [] r = r2 -> 4 [] OTHER -> 7]]
\* r2 moves three units from the SYSTEM to the kernel.
MCShifted ==
  [f \in Files |->
    IF f = "KERNEL"
    THEN [r \in Staged |-> CASE r = r1 -> 1 [] r = r2 -> 4 [] OTHER -> 2]
    ELSE [r \in Staged |-> IF r = r2 THEN 4 ELSE 7]]
=============================================================================

---------------------------- MODULE MCStorageCare ----------------------------
(* Small instances of StorageCare: two archives.                           *)
EXTENDS StorageCare

MCBackups == {1, 2}
MCNewer   == {2}
MCBoot    == {"boot"}
MCDisks   == {"boot", "storage"}
=============================================================================

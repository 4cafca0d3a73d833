CONSTANTS
  usb = usb
  sda = sda
  sdb = sdb
  Devices <- MCDevices
  Medium = usb
  Small <- MCSmall
  Uefi = FALSE
  NewSize <- MCNew
  OldSize <- MCOld
  Room = 7
  OldRooms <- MCOldRooms
  MaxFails = 2
  MaxCuts = 1
  MaxJobs = 2
SPECIFICATION Spec
INVARIANTS TypeOK SoundJobInstalls MenuIsClean
PROPERTIES OnlyConfirmed

SPECIFICATION FairSpec
CONSTANTS
  v1 = v1 v2 = v2 q1 = q1 q2 = q2
  boot1 = boot1 boot2 = boot2 ci1 = ci1 ci2 = ci2 disk1 = disk1
  None = None
  Procs = {q1, q2}
  VM <- MCVM
  Vol <- MCVol
  Boot <- MCBoot
  CIData <- MCCIData
  Disks <- MCDisks
  LastID = 3
  Wanted <- MCWantedOwn
  Static = TRUE
  Ops = {"run", "rm", "hostadd", "hostrm"}
  Faults = {"call"}
  MaxFaults = 1
INVARIANT NoLeftoverBoot
PROPERTY StaticEntriesKept
PROPERTY CommandsEnd

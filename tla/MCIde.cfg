SPECIFICATION FairSpec
CONSTANTS
  Drives = {"A", "B"}
  Kinds <- MCMachines
  Clients = {"c1", "c2"}
  ByteSize = 3
  Lbas = {0, 5, 25, 26}
  Counts = {1, 2, 3}
INVARIANTS OneOwner PortsUsedInTurn ReadsWhatWasAsked
PROPERTY OperationReturns

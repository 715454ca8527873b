SPECIFICATION Spec
CONSTANTS
  Small = 4
  Medium = 16
  Large = 64
  Huge = 256
  StoreChunk = 16
  Payload <- MCPayload
  MaxPieces = 3
  MaxFaults = 2
  MaxDescribed = 4
  ClientRange <- MCClient
  Hellos <- MCHellos
  OwnAddress = TRUE
INVARIANTS TransferTypeOK PlanFits CleanFailure DownloadIsTheFile
CHECK_DEADLOCK FALSE

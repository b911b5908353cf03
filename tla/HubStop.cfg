SPECIFICATION FairSpec
CONSTANTS
  Workers = {w1}
  Leases = {l1}
  phone = phone
  Devices = {phone}
  None = None
  PhoneOf <- MCPhoneOf
  TargetOf <- MCTargetOf
  Batches <- MCBatches
  Lossy = {"poll", "receipt"}
  MaxStale = 1
  MaxCrash = 1
INVARIANTS ExecutedOnce
PROPERTIES StopHeard

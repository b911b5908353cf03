SPECIFICATION Spec
CONSTANTS
  Workers = {w1, w2}
  Leases = {l1, l2}
  phone = phone
  Devices = {phone}
  None = None
  PhoneOf <- MCPhoneOf
  TargetOf <- MCTargetOf
  Batches <- MCBatches
  Lossy = {"handshake", "poll", "receipt"}
  MaxStale = 0
  MaxCrash = 0
SYMMETRY MCSymmetry
INVARIANTS NoLostLease
PROPERTIES Contract

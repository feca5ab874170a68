\* A USB endpoint that is busy until the host has fetched a report, and a BLE host
\* that comes and goes.
CONSTANTS
  Positions = 2
  Layers = 1
  Setups <- LossSetups
SPECIFICATION Spec
INVARIANTS AcceptedWasSent

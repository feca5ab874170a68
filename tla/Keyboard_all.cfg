\* Three positions on two layers, every kind of layer key and of endpoint.
CONSTANTS
  Positions = 3
  Layers = 2
  Setups <- AllSetups
SPECIFICATION Spec
INVARIANTS TypeOK NoStuckCode CountsHaveKeys MomentaryExact HostInSync HostNeverStuck LatestWanted

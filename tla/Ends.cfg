SPECIFICATION Spec
CONSTANTS
  Nil = Nil
\* ota.c: two bundles and a restart of hassmic.
  MaxBundles = 2
  MaxRestarts = 1
  MaxWants = 2
  NoneYet = NoneYet
INVARIANT OkIsMine
PROPERTY BluetoothSettles
PROPERTY SetupAndUpdatesEnd
PROPERTY PeersFound
PROPERTY CallsAndRingsEnd
PROPERTY OutputsFollow
CHECK_DEADLOCK FALSE

\* Two devices, every kind of interrupt, a setup that may fail.
SPECIFICATION Spec
CONSTANTS
  Devices = {d1, d2}
  NoDevice = NoDevice
  Bars = {0}
  Kinds = {"none", "msi", "msix"}
INVARIANTS TypeOK OwnBars RoutedWhenRealized UninitComplete
PROPERTIES ExitCompletes
\* QEMU ends.
CHECK_DEADLOCK FALSE

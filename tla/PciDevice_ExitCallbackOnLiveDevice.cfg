\* ExitCallbackOnLiveDevice alone.
SPECIFICATION Spec
CONSTANTS
  Devices = {d1, d2}
  NoDevice = NoDevice
  Bars = {0}
  Kinds = {"none", "msi", "msix"}
INVARIANT ExitCallbackOnLiveDevice
\* QEMU ends.
CHECK_DEADLOCK FALSE

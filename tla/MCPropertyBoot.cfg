CONSTANTS
  Contents <- MCContents
  Kernels <- MCKernels
  Contexts <- MCContexts
  LabelledBy <- MCLabelledBy
  IllegalNames <- MCIllegalNames
  Granted <- MCGranted
  Mistyped <- MCMistyped
  VendorIsOld = FALSE
  Recovery = FALSE
  DebugRamdisk = TRUE
  Sdk <- MCSdk
SPECIFICATION Spec
CHECK_DEADLOCK FALSE
INVARIANTS
  PrecedenceHolds
  IdentityIsConsistent

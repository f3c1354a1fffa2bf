SPECIFICATION Spec
CONSTANTS
  Requests = {r1, r2}
  Devices = {"cuda", "vulkan"}
  NoBundle = NoBundle
  Nobody = Nobody
  PackageRevision = 3
PROPERTIES NothingLost FailureKeepsTheFormer
CHECK_DEADLOCK FALSE

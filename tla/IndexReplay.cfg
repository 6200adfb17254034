SPECIFICATION Spec
CONSTANTS
  Window = 3
  Dense = 2
  None = None  Admin = Admin
  o1 = o1  o2 = o2  o3 = o3  v1 = v1  v2 = v2  x = x  y = y
  Ops = {o1, o2, o3}
  Media = {v1, v2}
  Modalities = {x, y}
  MediaOf <- TwoMedia
  ProfileOf <- MixedProfiles
  Backends = {"local"}
  LateErrors = FALSE
  MaxCrashes = 1
  MaxRemovals = 1
PROPERTIES PublishedOnce

CHECK_DEADLOCK FALSE

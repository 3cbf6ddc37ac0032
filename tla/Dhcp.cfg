SPECIFICATION Spec
CONSTANTS
  s1 = s1
  s2 = s2
  none = none
  fallback = fallback
  Servers <- MCServers
  None = none
  Fallback = fallback
  Lease <- MCLease
  Slice <- MCSlice
  DefaultLease <- MCDefaultLease
  Timeout <- MCTimeout
  MaxDelay <- MCMaxDelay
  MaxNet <- MCMaxNet
INVARIANTS
  SocketBalanced
  AddressInUse
  BoundHasLease
PROPERTIES
  Binds

SPECIFICATION Spec
CONSTANTS
  c1 = c1
  c2 = c2
  p1 = p1
  a1 = a1
  l1 = l1
  dflt = dflt
  rom = rom
  zero = zero
  erased = erased
  garbage = garbage
  absent = absent
  invalid = invalid
  none = none
  Conns <- MCConns
  Passwords <- MCPasswords
  Addresses <- MCAddresses
  Leases <- MCLeases
  DefaultPass = dflt
  RomAddr = rom
  ZeroAddr = zero
  Erased = erased
  Garbage = garbage
  Absent = absent
  Invalid = invalid
  None = none
  MaxToken <- MCMaxToken
  MaxCuts <- MCMaxCuts
INVARIANTS
  SavedSurvives
PROPERTIES
  BootRunsSaved
  DefaultsOnlyWhenLost
  KeepsBooting
  KeepsPromise

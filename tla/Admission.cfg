SPECIFICATION AdmissionSpec
CONSTANTS
  V4Bits = 2
  V6Bits = 3
  MappedBlock <- MCMappedBlock
  None = None
  Configurations <- MCConfigurations
  Headers <- MCHeaders
  Addrs <- MCAddrs
  Operators <- MCOperators
  ControlTimeout = 3
  Normal <- normalizeIP
  NoClient = NoClient
  Never = Never
  Challenger <- MCChallenger
INVARIANTS LeasedTypeOK RecentGrantOwns AtMostOneGranted
INVARIANTS TrustAsConfigured NearestProxyDecides SameClientByAnyRoute
PROPERTIES ImplementsLease LiveOwnerKeepsControl SilentOwnerYields

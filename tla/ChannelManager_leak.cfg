SPECIFICATION SafetySpec
CONSTANTS
  Admins = {a1}
  Services = {s1}
  NoService = NoService
  Nobody = Nobody
  MaxChannels = 1
  MaxFifos = 2
  MayFail = FALSE
  MayQuit = FALSE
INVARIANTS
  StopReleasesFifos

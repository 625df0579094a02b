\* Two servents, two services, failures and quit.
SPECIFICATION SafetySpec
CONSTANTS
  Admins = {a1, a2}
  Services = {s1, s2}
  NoService = NoService
  Nobody = Nobody
  MaxChannels = 2
  MaxFifos = 4
  MayFail = TRUE
  MayQuit = TRUE
SYMMETRY CommandSymmetry
INVARIANTS
  ServicesSound
  OneMuxPerChannel
  MuxFifosLive

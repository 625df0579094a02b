\* One servent starts and stops two services, nothing fails.
SPECIFICATION Spec
CONSTANTS
  Admins = {a1}
  Services = {s1, s2}
  NoService = NoService
  Nobody = Nobody
  MaxChannels = 2
  MaxFifos = 6
  MayFail = FALSE
  MayQuit = FALSE
INVARIANTS
  CallbackFifoLive
PROPERTIES
  StopFreesChannel

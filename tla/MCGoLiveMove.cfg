SPECIFICATION Spec
CONSTANTS
  b1 = b1
  b2 = b2
  rtmp = rtmp
  tube = tube
  chan = chan
  yt = yt
  tw = tw
  NoAccount = NoAccount
  Idle = Idle
  Binding = {b1, b2}
  Profile = {rtmp, tube, chan}
  Account = {yt, tw}
  AccountOf <- MCAccountOf
  Persistent = {tw}
  Order <- MCOrder
  Carries <- MCBroadcasts
  Dialog = {}
  QuietPrelude = TRUE
  MaxGeneration = 1
  MaxToken = 0
INVARIANT LiveHasBroadcast

SPECIFICATION SceneSpec
CONSTANTS
  b1 = b1
  b2 = b2
  rtmp = rtmp
  tube = tube
  chan = chan
  yt = yt
  tw = tw
  NoAccount = NoAccount
  Idle = Idle
  Binding = {b1, b2}
  Profile = {rtmp, tube, chan}
  Account = {yt, tw}
  AccountOf <- MCAccountOf
  Persistent = {tw}
  Order <- MCOrder
  Carries <- MCBroadcasts
  Dialog = {chan}
  QuietPrelude = TRUE
  MaxGeneration = 2
  MaxToken = 0
INVARIANT  OneArmPerChannel 
PROPERTY  StopWins

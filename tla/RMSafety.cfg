SPECIFICATION Spec
CONSTANTS
  f1 = f1
  f2 = f2
  i1 = i1
  i2 = i2
  Frontend = {f1, f2}
  ChannelId = {i1, i2}
  Channel = {c1, c2, c3}
  Handler = {h1, h2}
  Scanner = {r1}
  Score <- MCScore
  Listed = {i1, i2}
  StreamId = {i1}
  NoFrontend = NoFrontend
  NoId = NoId
  NoChannel = NoChannel
SYMMETRY MCSymmetry
INVARIANTS
  UseCountExact
  FrontendExclusive
  PointersSound
  NoLeak
  OneTunerPerId
  OpenExactly
  ClientsAreTold
  RetuneFindsItsChannel
  CanAllocateHonest
PROPERTY NoStealing

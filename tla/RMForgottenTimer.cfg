SPECIFICATION FairSpec
CONSTANTS
  f1 = f1
  f2 = f2
  i1 = i1
  i2 = i2
  Frontend = {f1, f2}
  ChannelId = {i1, i2}
  Channel = {c1, c2}
  Handler = {h1, h2}
  Scanner = {}
  Score <- MCScore
  Listed = {i1, i2}
  StreamId = {}
  NoFrontend = NoFrontend
  NoId = NoId
  NoChannel = NoChannel
PROPERTY LastInstanceEnds

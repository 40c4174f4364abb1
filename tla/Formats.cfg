\* Fields of one or two bytes, an accumulator that overflows, two cards over
\* two ticks and two sources over seven.
CONSTANTS
  Base = 2
  IdBytes = 2
  TagBytes = 1
  MaxDatagram = 2
  MaxTags = 2
  MaxText = 2
  ByteBits = 4
  CharBits = 3
  AccBits = 6
  MaxBody = 8
  MaxJson = 6
  MaxEnvelope = 12
  MaxFetch = 16
  MaxWitness = 2
  Receipt = 3
  MaxBlob = 20
  MaxDiscarded = 1
  Seeded = TRUE
  Top = 3
  ClockSkew = 1
  MaxLifetime = 2
  MaxTime = 2
  MaxIssued = 2
  Owns <- MCOwns
  Ttls = {0, 9}
  Extras <- MCExtras
  Sources = {a, b}
  PerSecond = 1
  PerTick = 2
  SweepAt = 1
  SweepAge = 4
  MaxTick = 7
SPECIFICATION FormatsSpec
INVARIANTS FormatsExact SerialsRise CardsAccepted LimitsHold
CHECK_DEADLOCK FALSE

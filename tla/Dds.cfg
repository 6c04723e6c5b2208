SPECIFICATION FairSpec
CONSTANTS
  a = a
  b = b
  g = g
  Instances = {a, b}
  Guests = {g}
  Earlier = Earlier
  None = None
  Nothing = Nothing
  Saved = {Earlier}
  MaxSends = 1
  MaxKills = 1
INVARIANT TypeOK
INVARIANT PeersAgree
INVARIANT StateIsTold
INVARIANT StateSurvives
PROPERTY EveryoneRegisters
PROPERTY EveryoneMeets
CHECK_DEADLOCK FALSE

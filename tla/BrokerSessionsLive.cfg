SPECIFICATION FairSpec
CONSTANTS
  Conns = {c1}
  Accounts = {a1}
  Null = Null
  MaxKilled = 2
PROPERTIES
  TerminationTakesEffect
  TeardownFinishes

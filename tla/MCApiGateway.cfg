\* Every deployment with every request.
SPECIFICATION Spec
CONSTANTS
  None = None
  Empty = Empty
  Blank = Blank
  Slashes = Slashes
  Localhost = Localhost
  Malformed = Malformed
  Unprintable = Unprintable
  key = key
  other_key = other_key
  odd_key = odd_key
  runtime = runtime
  remote = remote
  database_key = database_key
  my_id = my_id
  FreshIds = {u1, u2}
  Unusual <- MCUnusual
  Deployments <- MCDeployments
  Requests <- MCRequests
  Upper <- MCUpper
  Cent = 4
  Micro = 10
  Fine = 2
  BpsScale = 120
  Coarse = 5
  Whole = 20
  Unit = 5
  FactorUnit = 10
  MinObservations = 2
  MaxMinimum = 10
  ConfidenceUnit = 4
INVARIANTS
  OnlyKeyHoldersServed
  ReadyMeansServed
  OneCorrelationId
  GroupsAddUp
  ProfitFactorTellsNet
  DrawdownIsWorstFall
  FloorCoversObservations
  ForwardNeedsPaper
  WinKeepsReadiness

SPECIFICATION ServicesSpec
CONSTANTS
  None = None
  NoRoom = NoRoom
  NoTemplate = NoTemplate
  a = a
  b = b
  c = c
  t1 = t1
  t2 = t2
  u1 = u1
  u2 = u2
  u3 = u3
  u4 = u4
  h1 = h1
  d1 = d1
  d2 = d2
  g = g
  Spaces <- ThreeSpaces
  Templates <- TwoTemplates
  TemplateOf <- Templating
  MaxLevels = 2
  TopIndex = 1
  MaxItems = 3
  Depth = 4
  MaxCoord = 12
  Imports <- SomeBuildings
  Batches <- FewBatches
  Offers <- Proposed
  MaxMade = 3
  CpuCalls <- ThreeCalls
  CpuWorkers = 1
  CpuQueue = 0
  CpuExecutors = {1, 2}
  RunCalls <- TwoCalls
  RunCapacity = 1
  PipeSize = 2
  RateKeys <- FourKeys
  Limit <- Limits
  Window <- Windows
  MaxKeys = 1
  PurgeBudget = 1
  Peeked = {g}
  Requests <- TwoCalls
  Visits <- Quotas
  Budget = "global"
  Cap <- Caps
  Uploads <- FourCalls
  Bytes <- Drawings
  About <- Notes
  NoBytes = "none"
  MaxLost = 2
  Outline <- NamedZones
  Briefs <- Kinds
  Room = 8
  SafeRoom = 5
  ZoneTokens = 2
  Tolerance = 3
  MinZones = 1
  MaxZones = 2
  MaxSplits = 1
  MaxChunks = 3
  Answers = {1}
  Groups = {1, 2}
  Ceilings = {5, 8}
  MaxStarts = 2
  Tabs <- TwoCalls
  MaxSaves = 3
  TabOf <- Alternating
  FirstRecords <- Earlier
  FirstTime = 2
  KeepRecords = 1
  MaxUpsets = 1
  Documents <- Code
  Candidates <- Rules
  Packs <- Pack
  TakenFrom <- FromCode
  HeldBy <- BothRules
  Official <- Code
  Regulatory <- Binding
  Complete <- Pack
  MaxEdits = 2
  OccupancyGroups <- TwoGroups
  AppliesTo <- ForOneGroup
INVARIANTS ActiveRulesStand CurrentAnswersItsQuestion WorkIsKept HistoryTrue SoundBuilding WhatWasShown SeatsReturn WorkersHoldSlots QuotaSurvives BudgetIsShared SavedIsReadable NothingPaidTwice DeliveredIsWhole
PROPERTIES TerminalIsFinal RunsEnd WaitIsEnough SomeoneIsSaved
CHECK_DEADLOCK FALSE

\* Three turns of each kind of intent with each kind of agent.
SPECIFICATION Spec
CONSTANTS
  None = None
  Garbled = Garbled
  Values <- TwoValues
  TooMuch <- Two
  Messages <- SevenMessages
  Payloads <- FourPayloads
  Intents = {"transfer", "balance", "fallback"}
  Agents = {"service", "simulator", "other", "unsupported"}
  MaxTurns = 3
  MaxEvents = 2
INVARIANTS
  TypeOK
  ActsOnAllSlots
  CorrectionHolds
PROPERTIES
  SlotsKept
  TurnEnds
CHECK_DEADLOCK FALSE

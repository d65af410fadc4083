\* A block that was heard, a request that was accepted, full registries and a closed
\* host are the end.
CHECK_DEADLOCK FALSE
SPECIFICATION PartsSpec
CONSTANTS
  Messages <- TheMessages
  Foreign <- TheForeign
  Strange = {0, 1, 2, 3, 4, 8, 128, 255}
  Inputs <- TheInputs
  Configurations <- TheConfigurations
  Questions <- TheQuestions
  Metrics <- TheMetrics
  Connects = {k1}
  None = None
  Registries = {client, server}
  Descriptors <- TheDescriptors
  Payloads <- ThePayloads
  MaxOffers = 3
  Accepts = {a1, a2, a3}
  Untimed = {a1}
INVARIANTS
  SurvivesTheWire NoByteIgnored
  SubmittedIsReceived
  EvidenceIsComplete EvidenceDecides NothingHalfOpen
  SameOffersSameAnswers
  TicketsSettleOnce CallbackLivesWithServer
PROPERTY VersionsAreFinal

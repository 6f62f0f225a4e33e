SPECIFICATION Spec
CONSTANTS
  None = None
  Providers <- MCProviders
  FieldOf <- MCFieldOf
  RankOf <- MCRankOf
  Violators = {"raw"}
  MaxServices = 3
  Broken = {"shadowed"}
  Chain <- MCChain
INVARIANTS
  LlmIsNearest
  GraphServesWhatIsInstalled
PROPERTIES
  RefusedOnlyForCause

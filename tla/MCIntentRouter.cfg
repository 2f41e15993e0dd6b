\* Two calls of Match while an intent and a vectorizer are set.
CONSTANTS
  Callers = {1, 2}
  Domains = {"bank", "shop"}
  Vectorizers = {"v", "w"}
  MaxChanges = 2
  Exchanges <- MCExchanges
  Texts <- MCTexts
  Words <- MCWords
  Queries <- MCQueries
  Cosine <- MCCosine
  Registered <- MCRegistered
  Nodes <- MCNodes
  Threshold <- MCThreshold
  None = None
SPECIFICATION Spec
INVARIANTS OneMeasure

\* Runs recorded and replayed, and past events compared under two versions.
CONSTANTS
  Fields = {"probe_command", "amount", "who", "big", "same", "decision"}
  Schemas <- MCSchemas
  Probes <- MCProbes
  Exponent = 6
  Programs <- MCPrograms
  Contexts <- MCContexts
  Wanted <- MCWanted
  ModelReplies <- MCReplies
  Rehearsals <- MCRehearsals
  Events <- MCEvents
  None = None
SPECIFICATION DiffSpec
CHECK_DEADLOCK FALSE
INVARIANTS TypeOK ReplayReproduces NoDecisionOnAGuess FlipsAreDecisions ActsOnlyRehearsed

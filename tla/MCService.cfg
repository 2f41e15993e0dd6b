\* Two requests at once over one engine and one memory store.
CONSTANTS
  Callers = {1, 2}
  Pointers = {1, 2, 3}
  Routes = {"pay"}
  MaxSteps = 3
  MaxChanges = 1
  Parked <- MCParked
  Flows <- MCFlows
  Asked <- MCAsked
  Earlier = Earlier
  Anyone = Anyone
  None = None
SPECIFICATION Spec
CHECK_DEADLOCK FALSE
INVARIANTS TypeOK AnswersAreTrue CountersAgree
PROPERTIES TicketLife EveryRequestEnds

\* The bounds let a connection launch, load, replace the load and stop with a
\* volume or a command waiting at any point, and start again after a drop.
CONSTANTS
  MaxReq = 8
  MaxQueue = 1
  MaxEvents = 2
SPECIFICATION Spec
INVARIANTS
  TypeOK
  
  NoCommandLeftBehind
  WaitIsAnswerable
  OneStaleEvent
PROPERTIES
  AnswersMatch

CONSTANTS
  NumChan = 2
  Getter = {g1}
  MaxPut = 2
  Scenes = {{"thread"}, {"getters"}}
SPECIFICATION Spec
CONSTRAINT Bounds
INVARIANTS ItemsConserved GetNotStranded RaceNotStranded
PROPERTY ImplementsQueues

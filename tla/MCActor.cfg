SPECIFICATION Spec
CONSTANTS
    agentA = agentA
    agentB = agentB
    Agents = {agentA, agentB}
    NumTask = 4
    NumCall = 3
    NumRoot = 2
    MaxDepth = 2
    Envs <- Scenes
INVARIANTS OneRootSession NoWaitCycle ContextKept StackIsOpen
PROPERTY CallsReturn
CHECK_DEADLOCK FALSE

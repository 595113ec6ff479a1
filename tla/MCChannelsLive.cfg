CONSTANTS
  NumChan = 2
  Getter = {}
  MaxPut = 1
  Scenes = {{"thread"}}
SPECIFICATION FairSpec
PROPERTY Delivered

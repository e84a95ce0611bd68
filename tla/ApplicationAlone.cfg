CONSTANTS
  Clients = {a}
  MaxRegs = 1
  MaxLevel = 0
  MaxPosted = 2
  Keys = {k}
  ParamTypes = {"float", "enum"}
  MaxValue = 1
SPECIFICATION ParamsSpec
INVARIANTS DrawsOnlyWithScreens AnswersFollowSchema
PROPERTIES JoinReturnsOrIsStuck
CHECK_DEADLOCK FALSE

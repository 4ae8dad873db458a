SPECIFICATION Spec
CONSTANTS
  Cells = {"c1", "c2"}
  Things = {"t1", "t2"}
  NoRef = "None"
  JSContexts = {1, 2}
  EntryMethods = {"getMember", "call", "toString"}
  MaxDepth = 5
  MaxErrors = 2
  AssignedValues = {2}
  FirstArgument = 1
  UndefinedValue = 0
  CallMixes <- FunctionMixes
INVARIANT ParsesAsWritten OperatorsAgree PropertiesSound BuiltinsAgree WrappersSound CallsSound FramesSound
PROPERTY ImplementsPropertyMap
CHECK_DEADLOCK FALSE

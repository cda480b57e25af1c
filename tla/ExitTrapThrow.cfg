SPECIFICATION Spec
CONSTANT MaxCalls = 2
INVARIANT ArmedOnStack

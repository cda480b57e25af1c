SPECIFICATION Spec
CONSTANT MaxCalls = 3
INVARIANTS Restored JumpTargetLive ErrorIsOwn

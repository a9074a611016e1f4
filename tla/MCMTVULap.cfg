\* The same ring when nothing keeps the EE from getting a whole lap ahead.
CONSTANTS
  BufferSize = 10
  Sizes = {2, 3}
  SafetyNet = 1
  MaxAhead = 10
SPECIFICATION Spec
INVARIANT
  EmptyLooksEmpty

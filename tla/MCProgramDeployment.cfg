SPECIFICATION Spec
CONSTANTS
  Program = {"p", "q"}
  Key = {"alice", "bob"}
  Byte = {0, 1, 2}
  Zero = 0
  CHUNK_SIZE = 2
  MaxBuffers = 2
  MaxSent = 2
  Loadable <- MCLoadable
  Requests <- MCRequests
INVARIANTS
  BufferHoldsPrefix
  LeftoversAreFailures
PROPERTIES
  ImplementsAtomic
CHECK_DEADLOCK FALSE

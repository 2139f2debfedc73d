SPECIFICATION Spec
CONSTANTS
  Buffers = {m, n}
  Bytes = {x, y, z}
  x = x
  y = y
  z = z
  Zero = z
  Chunks <- MCChunks
  BufferOffset = 2
  InitCap = 2
  ExtBuffer = 2
  MaxReadable = 3
VIEW MCView
INVARIANTS TypeOK WithinVector EnsureMakesRoom MemoryBounded
PROPERTY ImplementsQueue

SPECIFICATION BufferSpec
CONSTANTS
  Bytes = {x, y}
  Size = 5
  Width = 6
INVARIANTS SegmentsApart
PROPERTIES IsFifo

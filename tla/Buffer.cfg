\* Every way two kinds of bytes can lie in five places, with a size to shrink
\* to and one to grow to: full, empty and wrapped at every offset.
CONSTANTS
  Byte = {a, b}
  Garbage = Garbage
  Sizes = {3, 5}
  MaxChunk = 3
SPECIFICATION Spec
INVARIANTS
  TypeOK
  UnwrapKeeps
PROPERTY ImplementsFifo

CONSTANTS
  Bytes = {b1, b2}
  Zero = Zero
  Threshold = 2
  MaxFileSize = 4
  MaxWrite = 2
SPECIFICATION FileSpec
SYMMETRY ByteSymmetry
INVARIANTS ReadsExact DataKept

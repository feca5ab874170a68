\* One position; a code of every row of the design's table and some of no row.
CONSTANTS
  Positions = 1
  Codes = {0, 1, 4, 164, 165, 224, 231, 516, 4612, 8192, 20993, 21025, 21057, 21089, 21120, 31744, 31745}
SPECIFICATION ReportsSpec
INVARIANTS CodesActAsDesigned

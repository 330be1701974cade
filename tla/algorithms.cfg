\* The reader against its inverse, numbers of up to five digits, answers with up
\* to two results, the bodies of the smallest and the largest collections; two
\* threads that parse two texts each.
SPECIFICATION MCSpec
CONSTANTS
  Inputs <- MCInputs
  Size = 12
  Wide = 8192
  Threads = {t1, t2}
  Texts <- MCTexts
  stackLimit_g = 2
  MaxParses = 2
SYMMETRY Symmetry
INVARIANTS
  TypeOK
  AloneKeepsLimit
  AloneIsBalanced
  RoundTrip
  BrokenKeepsRead
  NumbersExact
  ReadsAsReporterSays
  BodyFits

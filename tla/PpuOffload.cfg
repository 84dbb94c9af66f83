SPECIFICATION Spec
CONSTANTS
  Rows = 2
  EpochSpan = 3
INVARIANTS FrameExact LoansReturned Settled CertificateCurrent

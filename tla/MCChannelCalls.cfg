CONSTANTS
  Caller = {c1, c2}
  Data = {d1, d2}
SPECIFICATION FairSpec
INVARIANTS VerdictIsOwn AckedIsAccepted OvertakenIsNotAcked
PROPERTIES LeftOverIsCleared CallsReturn

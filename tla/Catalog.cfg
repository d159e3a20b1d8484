SPECIFICATION Spec
CONSTANTS
  Names = {"t"}
  Rows = {r1, r2}
  MaxTime = 2
INVARIANTS TypeOK    TwinsNeedALostLabel
  OpensAgain

CONSTANTS
  Threads = {t1, t2, t3}
  VerMod = 12
  IdMaxRange = 2
  MaxErrors = 0
  WrapEnabled = FALSE
  ResetContended = TRUE
  UnlockDoomed = FALSE
SPECIFICATION Spec
INVARIANT NoStrandedLocker

---------------------------- MODULE MCTimerThread ----------------------------
EXTENDS TimerThread, TLC
CONSTANTS t1, t2, b1, b2
Hash == t1 :> b1 @@ t2 :> b2
Same == t1 :> b1 @@ t2 :> b1
==============================================================================

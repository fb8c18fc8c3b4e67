----------------------------- MODULE MCHealSession -----------------------------
(* Small instances of HealSession for TLC.                                 *)
EXTENDS HealSession

CONSTANTS t1, t2

OneThread  == {t1}
TwoThreads == {t1, t2}

NoFaults        == {}
HostFaults      == {"host"}
HostAndCrash    == {"host", "crash"}
Nonstandard     == {"host", "nonstd"}
AllButTamper    == {"host", "nonstd", "torn", "crash"}
AllButNonstd    == {"host", "torn", "tamper", "crash"}
===============================================================================

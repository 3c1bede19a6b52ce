----------------------------- MODULE MCLifecycle -----------------------------
(***************************************************************************)
(* Instances of SinbohaLifecycle for TLC: one thread of the application    *)
(* that initializes and releases, and one that may come in between.        *)
(***************************************************************************)
EXTENDS SinbohaLifecycle, TLC

CONSTANTS t1, t2

Threads2 == {t1, t2}
ThreeAndOne == (t1 :> 3) @@ (t2 :> 1)
OneThreadOnly == {t1}
OnlyTwo == t1 :> 2
NoAddress == {{"secondary"}, {"primary", "secondary"}}
AllGiven == {{}}
=============================================================================

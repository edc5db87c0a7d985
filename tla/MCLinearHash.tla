----------------------------- MODULE MCLinearHash -----------------------------
(***************************************************************************)
(* Model-checking module of LinearHash.                                    *)
(***************************************************************************)
EXTENDS LinearHash

CONSTANT UpdatedKey   \* bound: the one key that is given more than one value

\* Bound: nothing is looked at beyond a mishap, after which the invariants say
\* nothing of the entries; and the values differ for one key, as a stale value of
\* any key would show in the same way.
Bounds ==
  /\ ~strayed
  /\ \A k \in Key \ {UpdatedKey} : dict[k] \in {0, 1}
=============================================================================

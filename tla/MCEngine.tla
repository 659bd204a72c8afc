------------------------------ MODULE MCEngine ------------------------------
(***************************************************************************)
(* The TUN engine for TLC.  The view leaves out values that are written    *)
(* before they are read again: locals of a health loop that has returned   *)
(* or is past the place that reads them, channels and bridges of a Start   *)
(* that no loop waits for, and flags of a streak or a rebuild that is over.*)
(***************************************************************************)
EXTENDS Engine

LoopsAt(places) == {l \in Loops : pc[l] \in places}
Seen(var, places) == [l \in LoopsAt(places) |-> var[l]]
Waiting == {"select", "sweep2", "upgrade"}

LiveState ==
    <<status, gen, pc, trVars, swap, flowVars, history, streamOpenFailures,
      closedCh \cap ({gen} \cup {sel[l] : l \in LoopsAt({"select"})}),
      lost \cap ({gen} \cup {bwatch[l] : l \in LoopsAt(Waiting \cup Rebuilding)}),
      Seen(sel, {"select"}),
      Seen(watch, Waiting),
      Seen(bwatch, Waiting \cup Rebuilding),
      Seen(fails, Waiting),
      Seen(keepConns, Rebuilding),
      streamOpenFailures > 0 /\ streakSawUnreach,
      rebuildSawUnreach /\ \E l \in LoopsAt(Rebuilding) : keepConns[l]>>
=============================================================================

--------------------------- MODULE FrontierTarget ---------------------------
(* What transition frontier sync promises, with the fetching, applying and *)
(* committing left out: the node holds a best tip (the frontier) and at   *)
(* most one sync target; a new target is always consensus-better than the *)
(* target it replaces (or than the frontier, when there is none); and the  *)
(* frontier only ever moves to the current target, which it eventually    *)
(* does unless the target is one that can never be reached (its chain      *)
(* holds a block that fails to apply); such a target stays until a better *)
(* one replaces it.                                                        *)
CONSTANTS Tips, Genesis, NoTip, Better(_, _), Unreachable

VARIABLES frontier, target

vars == <<frontier, target>>

\* The tip a new target must beat.
Current == IF target = NoTip THEN frontier ELSE target

Init == frontier = Genesis /\ target = NoTip

SetTarget(t) ==
    /\ t \notin {frontier, target}
    /\ Better(Current, t)
    /\ target' = t
    /\ UNCHANGED frontier

Commit ==
    /\ target # NoTip
    /\ frontier' = target
    /\ target' = NoTip

Next == (\E t \in Tips : SetTarget(t)) \/ Commit

\* A target that can be reached is committed, unless a better one comes.
CommitReachable == Commit /\ target \notin Unreachable

Spec == Init /\ [][Next]_vars /\ WF_vars(CommitReachable)
=============================================================================

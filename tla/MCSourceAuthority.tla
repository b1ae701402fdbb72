------------------------- MODULE MCSourceAuthority -------------------------
(* Jobs of two sources, one of them under two job keys, a manual namespace, *)
(* two stages, and the configurations an operator may move between: split,  *)
(* exchanged, renamed, the whole season for one job, one stage handed to    *)
(* the manual namespace, and one stage claimed twice.                       *)
EXTENDS SourceAuthority, TLC

CONSTANTS a, b, r, m, s, t, group, final, e1, e2

MCSource == (a :> s) @@ (b :> t) @@ (r :> s) @@ (m :> m)
MCRank == (a :> 1) @@ (b :> 2) @@ (r :> 3) @@ (m :> 4)
MCWriter == (e1 :> s) @@ (e2 :> m)

Grant(stages) == [stages |-> stages, enabled |-> TRUE]
Setting(ra, rb, rr, manual) ==
    [jobs |-> (a :> ra) @@ (b :> rb) @@ (r :> rr), profiles |-> (m :> manual)]

MCSettings == {
    Setting(Grant({group}), Grant({final}), None, {}),
    Setting(Grant({final}), Grant({group}), None, {}),
    Setting(None, Grant({final}), Grant({group}), {}),
    Setting(Grant({group, final, None}), None, None, {}),
    Setting(Grant({group}), [stages |-> {final}, enabled |-> FALSE], None, {final}),
    Setting(Grant({group, final}), Grant({final}), None, {}) }

MCDecisions == {[completed |-> 0, grace |-> 1]}
=============================================================================

------------------------ MODULE ReminderPolicyProofs ------------------------
(***************************************************************************)
(* Proofs about ReminderPolicy for every set of events, deliveries, rules  *)
(* and zones.                                                               *)
(***************************************************************************)
EXTENDS ReminderPolicy, FiniteSetTheorems, WellFoundedInduction, TLAPS

(* The shape of the state, as far as the proofs need it.                    *)
Shape ==
    /\ rules = [s \in Selectors |-> rules[s]]
    /\ \A s \in Selectors : rules[s] # None =>
          rules[s] = [policy |-> rules[s].policy, active |-> rules[s].active]
    /\ delivered = [e \in Events |-> delivered[e]]
    /\ calendar = [e \in Events |-> calendar[e]]
    /\ existing \subseteq Events /\ mapped \subseteq Events
    /\ item # None =>
         item = [event |-> item.event, reminder |-> item.reminder, current |-> item.current]

(* What is up to date, or being brought up to date, has a mapping a rule    *)
(* can invalidate, and an event that exists.                                 *)
KnownToRules ==
    /\ \A e \in Events : calendar[e] # None => e \in existing \cap mapped
    /\ item # None => item.event \in mapped
    /\ item # None /\ item.current => item.event \in existing

(* A payload whose listing is still current was built from today's rules.   *)
BuiltIsCurrent ==
    item # None /\ item.current /\ item.reminder # None =>
        item.reminder = Effective(rules, delivered[item.event])

IInv ==
    /\ Shape
    /\ KnownToRules
    /\ BuiltIsCurrent
    /\ ShownIsCurrent

-----------------------------------------------------------------------------
(* A change of one selector's row is a change for the events it applies to, *)
(* and only where the row is or was active.                                  *)
LEMMA Elsewhere ==
    ASSUME Shape, NEW s \in Selectors, NEW d, NEW row, NEW new,
           new = [rules EXCEPT ![s] = row],
           \/ ~AppliesTo(s, d)
           \/ (rules[s] = None \/ ~rules[s].active) /\ (row = None \/ ~row.active)
    PROVE  Effective(new, d) = Effective(rules, d)
<1>1. new[s] = row /\ \A x \in Selectors \ {s} : new[x] = rules[x]
  BY DEF Shape
<1>2. {x \in Selectors : new[x] # None /\ new[x].active /\ AppliesTo(x, d)}
       = {x \in Selectors : rules[x] # None /\ rules[x].active /\ AppliesTo(x, d)}
  BY <1>1
<1>3. \A x \in {y \in Selectors : rules[y] # None /\ rules[y].active /\ AppliesTo(y, d)} :
         new[x] = rules[x]
  BY <1>1
<1>4. Applicable(new, d) = Applicable(rules, d)
  BY <1>2, <1>3 DEF Applicable
<1> QED
  BY <1>4 DEF Effective

(* A change of the rules that announces the events it may matter to.        *)
LEMMA RuleChange ==
    ASSUME IInv, NEW s \in Selectors, NEW row, NEW es,
           rules' = [rules EXCEPT ![s] = row],
           row # None => row = [policy |-> row.policy, active |-> row.active],
           \/ es = Invalidated(s)
           \/ (rules[s] = None \/ ~rules[s].active) /\ (row = None \/ ~row.active),
           Announce(es), UNCHANGED <<delivered, existing, mapped>>
    PROVE  IInv'
<1>1. ASSUME NEW e \in existing \cap mapped, e \notin es
      PROVE  Effective(rules', delivered[e]) = Effective(rules, delivered[e])
  <2>1. \/ ~AppliesTo(s, delivered[e])
        \/ (rules[s] = None \/ ~rules[s].active) /\ (row = None \/ ~row.active)
    BY <1>1 DEF Invalidated
  <2> QED
    BY <2>1, Elsewhere DEF IInv
<1>2. Shape'
  <2>1. /\ rules' = [x \in Selectors |-> rules'[x]]
        /\ \A x \in Selectors : rules'[x] = IF x = s THEN row ELSE rules[x]
    BY DEF IInv, Shape
  <2> QED
    BY <2>1 DEF IInv, Shape, Announce
<1>3. \A e \in Events : calendar'[e] = IF e \in es THEN None ELSE calendar[e]
  BY DEF Announce
<1>4. /\ item = None => item' = None
      /\ item # None => /\ item'.event = item.event /\ item'.reminder = item.reminder
                        /\ item'.current => item.current /\ item.event \notin es
  <2>1. CASE item # None /\ item.event \in es
    <3>1. item' = [item EXCEPT !.current = FALSE]
      BY <2>1 DEF Announce
    <3>2. item = [event |-> item.event, reminder |-> item.reminder, current |-> item.current]
      BY <2>1 DEF IInv, Shape
    <3> QED
      BY <2>1, <3>1, <3>2
  <2>2. CASE item = None \/ item.event \notin es
    BY <2>2 DEF Announce
  <2> QED
    BY <2>1, <2>2
<1>5. KnownToRules'
  BY <1>3, <1>4 DEF IInv, KnownToRules
<1>6. BuiltIsCurrent'
  <2> SUFFICES ASSUME item' # None, item'.current, item'.reminder # None
               PROVE  item'.reminder = Effective(rules', delivered'[item'.event])
    BY DEF BuiltIsCurrent
  <2>1. /\ item # None /\ item.current /\ item.reminder # None
        /\ item'.event = item.event /\ item'.reminder = item.reminder
        /\ item.event \notin es /\ item.event \in existing \cap mapped
    BY <1>4 DEF IInv, KnownToRules
  <2>2. item.reminder = Effective(rules, delivered[item.event])
    BY <2>1 DEF IInv, BuiltIsCurrent
  <2> QED
    BY <1>1, <2>1, <2>2
<1>7. ShownIsCurrent'
  <2> SUFFICES ASSUME NEW e \in existing, calendar'[e] # None
               PROVE  calendar'[e] = Effective(rules', delivered[e])
    BY DEF ShownIsCurrent
  <2>1. e \in Events /\ e \notin es /\ calendar'[e] = calendar[e] /\ e \in mapped
    BY <1>3 DEF IInv, Shape, KnownToRules
  <2>2. calendar[e] = Effective(rules, delivered[e])
    BY <2>1 DEF IInv, ShownIsCurrent
  <2> QED
    BY <1>1, <2>1, <2>2
<1> QED
  BY <1>2, <1>5, <1>6, <1>7 DEF IInv

(* A change of one event, by the import.                                    *)
LEMMA EventChange ==
    ASSUME IInv, NEW e \in Events, Announce({e}), UNCHANGED <<rules, mapped>>,
           delivered' = [x \in Events |-> delivered'[x]],
           existing' \subseteq Events,
           \A x \in Events \ {e} : /\ delivered'[x] = delivered[x]
                                   /\ x \in existing' <=> x \in existing
    PROVE  IInv'
<1>1. \A x \in Events : calendar'[x] = IF x = e THEN None ELSE calendar[x]
  BY DEF Announce
<1>2. /\ item = None => item' = None
      /\ item # None => /\ item'.event = item.event /\ item'.reminder = item.reminder
                        /\ item'.current => item.current /\ item.event # e
  <2>1. CASE item # None /\ item.event = e
    <3>1. item' = [item EXCEPT !.current = FALSE]
      BY <2>1 DEF Announce
    <3>2. item = [event |-> item.event, reminder |-> item.reminder, current |-> item.current]
      BY <2>1 DEF IInv, Shape
    <3> QED
      BY <2>1, <3>1, <3>2
  <2>2. CASE item = None \/ item.event # e
    BY <2>2 DEF Announce
  <2> QED
    BY <2>1, <2>2
<1>3. Shape'
  BY DEF IInv, Shape, Announce
<1>4. KnownToRules'
  BY <1>1, <1>2 DEF IInv, KnownToRules, Shape
<1>5. BuiltIsCurrent'
  <2> SUFFICES ASSUME item' # None, item'.current, item'.reminder # None
               PROVE  item'.reminder = Effective(rules, delivered'[item'.event])
    BY DEF BuiltIsCurrent
  <2>1. /\ item # None /\ item.current /\ item.reminder # None
        /\ item'.event = item.event /\ item'.reminder = item.reminder
        /\ item.event \in Events \ {e}
    BY <1>2 DEF IInv, KnownToRules, Shape
  <2>2. item.reminder = Effective(rules, delivered[item.event])
    BY <2>1 DEF IInv, BuiltIsCurrent
  <2> QED
    BY <2>1, <2>2
<1>6. ShownIsCurrent'
  <2> SUFFICES ASSUME NEW x \in existing', calendar'[x] # None
               PROVE  calendar'[x] = Effective(rules, delivered'[x])
    BY DEF ShownIsCurrent
  <2>1. /\ x \in Events \ {e} /\ calendar'[x] = calendar[x] /\ delivered'[x] = delivered[x]
        /\ x \in existing
    BY <1>1
  <2>2. calendar[x] = Effective(rules, delivered[x])
    BY <2>1 DEF IInv, ShownIsCurrent
  <2> QED
    BY <2>1, <2>2
<1> QED
  BY <1>3, <1>4, <1>5, <1>6 DEF IInv

-----------------------------------------------------------------------------
LEMMA StepsKeep == ASSUME IInv, [Next]_vars PROVE IInv'
<1>1. ASSUME NEW w \in Writes, SetRule(w) PROVE IInv'
  <2> DEFINE row == [policy |-> w.policy, active |-> TRUE]
  <2>1. w.selector \in Selectors
    BY DEF Selectors
  <2>2. row = [policy |-> row.policy, active |-> row.active]
    OBVIOUS
  <2> HIDE DEF row
  <2>3. /\ rules' = [rules EXCEPT ![w.selector] = row]
        /\ Announce(Invalidated(w.selector)) /\ UNCHANGED <<delivered, existing, mapped>>
    BY <1>1 DEF SetRule, row
  <2> QED
    BY <2>1, <2>2, <2>3, RuleChange
<1>2. ASSUME NEW s \in Selectors, NEW left, EndRule(s, left), left = None \/ ~left.active,
             left # None => left = [policy |-> left.policy, active |-> left.active]
      PROVE  IInv'
  <2>1. rules' = [rules EXCEPT ![s] = left] /\ UNCHANGED <<delivered, existing, mapped>>
    BY <1>2 DEF EndRule
  <2>2. CASE rules[s].active
    BY <1>2, <2>1, <2>2, RuleChange DEF EndRule
  <2>3. CASE ~rules[s].active
    BY <1>2, <2>1, <2>3, RuleChange DEF EndRule
  <2> QED
    BY <2>2, <2>3
<1>3. ASSUME NEW s \in Selectors, DisableRule(s) PROVE IInv'
  <2> DEFINE left == [rules[s] EXCEPT !.active = FALSE]
  <2>1. rules[s] = [policy |-> rules[s].policy, active |-> rules[s].active]
    BY <1>3 DEF DisableRule, IInv, Shape
  <2>2. left = [policy |-> left.policy, active |-> left.active] /\ ~left.active
    <3> DEFINE old == rules[s]
               p == rules[s].policy
               a == rules[s].active
    <3>1. old = [policy |-> p, active |-> a] /\ left = [old EXCEPT !.active = FALSE]
      BY <2>1
    <3> HIDE DEF old, p, a, left
    <3>2. left = [policy |-> p, active |-> FALSE]
      BY <3>1
    <3> QED
      BY <3>2
  <2>3. EndRule(s, left)
    BY <1>3 DEF DisableRule
  <2> HIDE DEF left
  <2> QED
    BY <1>2, <2>2, <2>3
<1>4. ASSUME NEW s \in Selectors, DeleteRule(s) PROVE IInv'
  BY <1>2, <1>4 DEF DeleteRule
<1>5. ASSUME NEW d \in Deliveries, Deliver(d) PROVE IInv'
  <2>1. d.event \in Events
    BY PolicyAssumption
  <2>2. /\ delivered' = [delivered EXCEPT ![d.event] = d]
        /\ existing' = existing \cup {d.event}
        /\ Announce({d.event}) /\ UNCHANGED <<rules, mapped>>
    BY <1>5 DEF Deliver
  <2>3. delivered = [e \in Events |-> delivered[e]] /\ existing \subseteq Events
    BY DEF IInv, Shape
  <2>4. /\ delivered' = [x \in Events |-> delivered'[x]]
        /\ existing' \subseteq Events
        /\ \A x \in Events \ {d.event} : /\ delivered'[x] = delivered[x]
                                         /\ x \in existing' <=> x \in existing
    BY <2>1, <2>2, <2>3
  <2> QED
    BY <2>1, <2>2, <2>4, EventChange
<1>6. ASSUME NEW e \in Events, Remove(e) PROVE IInv'
  <2>1. /\ existing' = existing \ {e} /\ Announce({e})
        /\ UNCHANGED <<rules, delivered, mapped>>
    BY <1>6 DEF Remove
  <2>2. delivered = [x \in Events |-> delivered[x]] /\ existing \subseteq Events
    BY DEF IInv, Shape
  <2> QED
    BY <2>1, <2>2, EventChange
<1>7. ASSUME NEW e \in Events, List(e) PROVE IInv'
  <2>1. /\ e \in existing /\ mapped' = mapped \cup {e}
        /\ item' = [event |-> e, reminder |-> None, current |-> TRUE]
        /\ UNCHANGED <<rules, delivered, existing, calendar>>
    BY <1>7 DEF List
  <2>2. item'.event = e /\ item'.reminder = None
    BY <2>1
  <2> QED
    BY <2>1, <2>2 DEF IInv, Shape, KnownToRules, BuiltIsCurrent, ShownIsCurrent
<1>8. ASSUME NEW e \in Events, TakeDown(e) PROVE IInv'
  BY <1>8 DEF TakeDown, IInv, Shape, KnownToRules, BuiltIsCurrent, ShownIsCurrent
<1>9. CASE Build
  <2>1. /\ item # None
        /\ item' = [item EXCEPT !.reminder = Effective(rules, delivered[item.event])]
        /\ UNCHANGED <<rules, delivered, existing, mapped, calendar>>
    BY <1>9 DEF Build
  <2>2. item = [event |-> item.event, reminder |-> item.reminder, current |-> item.current]
    BY <2>1 DEF IInv, Shape
  <2>3. /\ item'.event = item.event /\ item'.current = item.current
        /\ item'.reminder = Effective(rules, delivered[item.event])
        /\ item' = [event |-> item'.event, reminder |-> item'.reminder,
                    current |-> item'.current]
    BY <2>1, <2>2
  <2>4. Shape' /\ ShownIsCurrent'
    BY <2>1, <2>3 DEF IInv, Shape, ShownIsCurrent
  <2>5. KnownToRules' /\ BuiltIsCurrent'
    BY <2>1, <2>3 DEF IInv, KnownToRules, BuiltIsCurrent
  <2> QED
    BY <2>4, <2>5 DEF IInv
<1>10. CASE Written
  <2>1. /\ item # None /\ item.reminder # None /\ item' = None
        /\ calendar' = [calendar EXCEPT ![item.event] =
                           IF item.current THEN item.reminder ELSE None]
        /\ UNCHANGED <<rules, delivered, existing, mapped>>
    BY <1>10 DEF Written
  <2>2. item.event \in Events /\ calendar = [e \in Events |-> calendar[e]]
    BY <2>1 DEF IInv, Shape, KnownToRules
  <2>3. /\ calendar'[item.event] = IF item.current THEN item.reminder ELSE None
        /\ \A e \in Events \ {item.event} : calendar'[e] = calendar[e]
    BY <2>1, <2>2
  <2>4. Shape' /\ BuiltIsCurrent'
    BY <2>1, <2>2 DEF IInv, Shape, BuiltIsCurrent
  <2>5. KnownToRules'
    BY <2>1, <2>2, <2>3 DEF IInv, KnownToRules
  <2>6. ShownIsCurrent'
    BY <2>1, <2>2, <2>3 DEF IInv, Shape, ShownIsCurrent, BuiltIsCurrent
  <2> QED
    BY <2>4, <2>5, <2>6 DEF IInv
<1>11. CASE NotWritten
  BY <1>11 DEF NotWritten, IInv, Shape, KnownToRules, BuiltIsCurrent, ShownIsCurrent
<1>12. CASE UNCHANGED vars
  BY <1>12 DEF vars, IInv, Shape, KnownToRules, BuiltIsCurrent, ShownIsCurrent
<1> QED
  BY <1>1, <1>3, <1>4, <1>5, <1>6, <1>7, <1>8, <1>9, <1>10, <1>11, <1>12 DEF Next

LEMMA InitialStates == ASSUME Init PROVE IInv
BY DEF Init, IInv, Shape, KnownToRules, BuiltIsCurrent, ShownIsCurrent

-----------------------------------------------------------------------------
(* The overlay, scope by scope.                                             *)
LEMMA FiniteCandidates ==
    ASSUME NEW rs, NEW d, NEW scope, NEW f
    PROVE  IsFiniteSet(Candidates(Applicable(rs, d), scope, f))
<1> DEFINE C == Candidates(Applicable(rs, d), scope, f)
           sel == [w \in Writes |-> w.selector]
           R == {x \in Selectors : rs[x] # None /\ rs[x].active /\ AppliesTo(x, d)
                                   /\ x.scope = scope}
           val == [x \in R |-> rs[x].policy[f]]
           V == {val[x] : x \in R}
<1>1. IsFiniteSet(Selectors)
  <2>1. sel \in Surjection(Writes, Selectors)
    BY DEF Selectors, Surjection
  <2> QED
    BY <2>1, FS_Surjection, PolicyAssumption
<1>2. IsFiniteSet(R)
  BY <1>1, FS_Subset
<1>3. val \in Surjection(R, V)
  BY DEF Surjection
<1>4. IsFiniteSet(V)
  BY <1>2, <1>3, FS_Surjection
<1>5. C \subseteq V
  BY DEF Candidates, Applicable
<1> QED
  BY <1>4, <1>5, FS_Subset

LEMMA Layers ==
    ASSUME NEW applicable, NEW f
    PROVE  \E layer :
             /\ layer[0] = [value |-> Fallback[f], conflict |-> FALSE]
             /\ \A k \in 1..5 :
                  layer[k] = Overlaid(layer[k - 1], Candidates(applicable, Scopes[k], f))
             /\ Resolved(applicable, f) = layer[5]
<1> DEFINE C(k) == Candidates(applicable, Scopes[k], f)
           a0 == [value |-> Fallback[f], conflict |-> FALSE]
           a1 == Overlaid(a0, C(1))
           a2 == Overlaid(a1, C(2))
           a3 == Overlaid(a2, C(3))
           a4 == Overlaid(a3, C(4))
           a5 == Overlaid(a4, C(5))
           g == [k \in 0..5 |-> IF k = 0 THEN a0 ELSE IF k = 1 THEN a1 ELSE
                   IF k = 2 THEN a2 ELSE IF k = 3 THEN a3 ELSE IF k = 4 THEN a4 ELSE a5]
           layer == CHOOSE l : l = [k \in 0..Len(Scopes) |->
                      IF k = 0 THEN [value |-> Fallback[f], conflict |-> FALSE]
                      ELSE Overlaid(l[k - 1], Candidates(applicable, Scopes[k], f))]
<1>1. Len(Scopes) = 5
  BY DEF Scopes
<1>2. \A k \in 1..5 : g[k] = Overlaid(g[k - 1], C(k))
  <2> HIDE DEF a0
  <2>1. g[0] = a0 /\ g[1] = a1 /\ g[2] = a2 /\ g[3] = a3 /\ g[4] = a4 /\ g[5] = a5
    <3> HIDE DEF a1, a2, a3, a4, a5
    <3> QED
      OBVIOUS
  <2> HIDE DEF g
  <2>2. \A k \in 1..5 : k = 1 \/ k = 2 \/ k = 3 \/ k = 4 \/ k = 5
    OBVIOUS
  <2>3. /\ 1 - 1 = 0 /\ 2 - 1 = 1 /\ 3 - 1 = 2 /\ 4 - 1 = 3 /\ 5 - 1 = 4
    OBVIOUS
  <2> QED
    BY <2>1, <2>2, <2>3
<1>3. g = [k \in 0..Len(Scopes) |-> IF k = 0 THEN a0 ELSE Overlaid(g[k - 1], C(k))]
  <2>1. g = [k \in 0..5 |-> g[k]]
    OBVIOUS
  <2>2. g[0] = a0
    OBVIOUS
  <2> HIDE DEF g, a0
  <2>3. \A k \in 0..5 : g[k] = IF k = 0 THEN a0 ELSE Overlaid(g[k - 1], C(k))
    <3>1. \A k \in 0..5 : k = 0 \/ k \in 1..5
      OBVIOUS
    <3> QED
      BY <1>2, <2>2, <3>1
  <2> QED
    BY <1>1, <2>1, <2>3
<1>4. layer = [k \in 0..Len(Scopes) |->
                 IF k = 0 THEN [value |-> Fallback[f], conflict |-> FALSE]
                 ELSE Overlaid(layer[k - 1], Candidates(applicable, Scopes[k], f))]
  <2> HIDE DEF g
  <2> QED
    BY <1>3, Zenon
<1>5. Resolved(applicable, f) = layer[Len(Scopes)]
  BY Zenon DEF Resolved
<1> HIDE DEF layer
<1>6. layer[0] = [value |-> Fallback[f], conflict |-> FALSE]
  BY <1>1, <1>4
<1>7. \A k \in 1..5 :
         layer[k] = Overlaid(layer[k - 1], Candidates(applicable, Scopes[k], f))
  <2>1. \A k \in 1..5 : k \in 0..Len(Scopes) /\ k # 0
    BY <1>1
  <2> QED
    BY <1>4, <2>1
<1> QED
  BY <1>1, <1>5, <1>6, <1>7

(* What one scope makes of the scopes below it.                             *)
LEMMA OneLayer ==
    ASSUME NEW below, below = [value |-> below.value, conflict |-> below.conflict],
           NEW values, IsFiniteSet(values), NEW above, above = Overlaid(below, values)
    PROVE  /\ above = [value |-> above.value, conflict |-> above.conflict]
           /\ values = {} => above = below
           /\ values # {} =>
                IF Cardinality(values) = 1 THEN ~above.conflict /\ above.value \in values
                ELSE above.conflict
<1>1. Cardinality(values) \in Nat /\ (Cardinality(values) = 0 <=> values = {})
  BY FS_CardinalityType, FS_EmptySet
<1>2. CASE values = {}
  BY <1>2 DEF Overlaid
<1>3. CASE values # {} /\ Cardinality(values) > 1
  <2>1. above = [below EXCEPT !.conflict = TRUE]
    BY <1>3 DEF Overlaid
  <2> DEFINE v == below.value
             c == below.conflict
  <2>2. below = [value |-> v, conflict |-> c]
    OBVIOUS
  <2> HIDE DEF v, c
  <2>3. above = [value |-> v, conflict |-> TRUE]
    BY <2>1, <2>2
  <2> QED
    BY <1>1, <1>3, <2>3
<1>4. CASE values # {} /\ ~(Cardinality(values) > 1)
  <2> DEFINE v == CHOOSE v \in values : TRUE
  <2>1. above = [value |-> v, conflict |-> FALSE]
    BY <1>4 DEF Overlaid
  <2>2. v \in values
    BY <1>4
  <2> HIDE DEF v
  <2> QED
    BY <1>1, <1>4, <2>1, <2>2
<1> QED
  BY <1>2, <1>3, <1>4

LEMMA Documented ==
    ASSUME NEW rs, NEW d, NEW f
    PROVE  LET applicable == Applicable(rs, d)
               C(k) == Candidates(applicable, Scopes[k], f)
               resolved == Resolved(applicable, f)
           IN  \/ /\ \A k \in 1..5 : C(k) = {}
                  /\ resolved = [value |-> Fallback[f], conflict |-> FALSE]
               \/ \E t \in 1..5 :
                    /\ C(t) # {} /\ \A k \in 1..5 : k > t => C(k) = {}
                    /\ IF Cardinality(C(t)) = 1
                       THEN ~resolved.conflict /\ resolved.value \in C(t)
                       ELSE resolved.conflict
<1> DEFINE C(k) == Candidates(Applicable(rs, d), Scopes[k], f)
           fallback == [value |-> Fallback[f], conflict |-> FALSE]
<1>1. PICK layer :
         /\ layer[0] = fallback
         /\ \A k \in 1..5 : layer[k] = Overlaid(layer[k - 1], C(k))
         /\ Resolved(Applicable(rs, d), f) = layer[5]
  BY Layers
<1>2. \A k \in 1..5 : IsFiniteSet(C(k))
  BY FiniteCandidates
<1>3. fallback = [value |-> fallback.value, conflict |-> fallback.conflict]
  OBVIOUS
<1> DEFINE Settled(n) ==
              /\ layer[n] = [value |-> layer[n].value, conflict |-> layer[n].conflict]
              /\ \/ (\A k \in 1..n : C(k) = {}) /\ layer[n] = fallback
                 \/ \E t \in 1..n :
                      /\ C(t) # {} /\ \A k \in 1..n : k > t => C(k) = {}
                      /\ IF Cardinality(C(t)) = 1
                         THEN ~layer[n].conflict /\ layer[n].value \in C(t)
                         ELSE layer[n].conflict
<1> HIDE DEF C, fallback
<1>4. Settled(0)
  BY <1>1, <1>3
<1>5. ASSUME NEW n \in 1..5, Settled(n - 1) PROVE Settled(n)
  <2>1. layer[n] = Overlaid(layer[n - 1], C(n)) /\ IsFiniteSet(C(n))
    BY <1>1, <1>2
  <2>2. /\ layer[n] = [value |-> layer[n].value, conflict |-> layer[n].conflict]
        /\ C(n) = {} => layer[n] = layer[n - 1]
        /\ C(n) # {} =>
             IF Cardinality(C(n)) = 1 THEN ~layer[n].conflict /\ layer[n].value \in C(n)
             ELSE layer[n].conflict
    BY <1>5, <2>1, OneLayer
  <2>3. \A k \in 1..n : k \in 1..(n - 1) \/ k = n
    OBVIOUS
  <2>4. CASE C(n) # {}
    BY <2>2, <2>3, <2>4
  <2>5. CASE C(n) = {}
    <3>1. layer[n] = layer[n - 1]
      BY <2>2, <2>5
    <3>2. CASE (\A k \in 1..(n - 1) : C(k) = {}) /\ layer[n - 1] = fallback
      BY <2>2, <2>3, <2>5, <3>1, <3>2
    <3>3. CASE \E t \in 1..(n - 1) :
                  /\ C(t) # {} /\ \A k \in 1..(n - 1) : k > t => C(k) = {}
                  /\ IF Cardinality(C(t)) = 1
                     THEN ~layer[n - 1].conflict /\ layer[n - 1].value \in C(t)
                     ELSE layer[n - 1].conflict
      <4>1. PICK t \in 1..(n - 1) :
                  /\ C(t) # {} /\ \A k \in 1..(n - 1) : k > t => C(k) = {}
                  /\ IF Cardinality(C(t)) = 1
                     THEN ~layer[n - 1].conflict /\ layer[n - 1].value \in C(t)
                     ELSE layer[n - 1].conflict
        BY <3>3
      <4>2. t \in 1..n /\ \A k \in 1..n : k > t => C(k) = {}
        BY <2>3, <2>5, <4>1
      <4> QED
        BY <2>2, <3>1, <4>1, <4>2
    <3> QED
      BY <1>5, <3>2, <3>3
  <2> QED
    BY <2>4, <2>5
<1>6. Settled(5)
  <2>1. Settled(1 - 1)
    BY <1>4
  <2>2. Settled(1)
    BY <2>1, <1>5
  <2>3. Settled(2 - 1) => Settled(2)
    BY <1>5
  <2>4. Settled(3 - 1) => Settled(3)
    BY <1>5
  <2>5. Settled(4 - 1) => Settled(4)
    BY <1>5
  <2>6. Settled(5 - 1) => Settled(5)
    BY <1>5
  <2>7. 2 - 1 = 1 /\ 3 - 1 = 2 /\ 4 - 1 = 3 /\ 5 - 1 = 4
    OBVIOUS
  <2> HIDE DEF Settled
  <2> QED
    BY <2>2, <2>3, <2>4, <2>5, <2>6, <2>7
<1> QED
  BY <1>1, <1>6 DEF C, fallback

LEMMA Precedence == ResolvedAsDocumented
<1> SUFFICES ASSUME NEW e \in existing, NEW f \in Fields
             PROVE  LET applicable == Applicable(rules, delivered[e])
                        setting == {k \in DOMAIN Scopes :
                                       Candidates(applicable, Scopes[k], f) # {}}
                        values == Candidates(applicable, Scopes[Last(setting)], f)
                        resolved == Resolved(applicable, f)
                    IN IF setting = {}
                       THEN resolved = [value |-> Fallback[f], conflict |-> FALSE]
                       ELSE IF Cardinality(values) = 1
                       THEN ~resolved.conflict /\ resolved.value \in values
                       ELSE resolved.conflict
  BY Zenon DEF ResolvedAsDocumented
<1> DEFINE applicable == Applicable(rules, delivered[e])
           C(k) == Candidates(applicable, Scopes[k], f)
           setting == {k \in DOMAIN Scopes : C(k) # {}}
           resolved == Resolved(applicable, f)
<1>1. DOMAIN Scopes = 1..5
  BY DEF Scopes
<1>2. \/ /\ \A k \in 1..5 : C(k) = {}
         /\ resolved = [value |-> Fallback[f], conflict |-> FALSE]
      \/ \E t \in 1..5 :
           /\ C(t) # {} /\ \A k \in 1..5 : k > t => C(k) = {}
           /\ IF Cardinality(C(t)) = 1
              THEN ~resolved.conflict /\ resolved.value \in C(t)
              ELSE resolved.conflict
  BY Documented
<1> HIDE DEF C, resolved
<1>3. CASE \A k \in 1..5 : C(k) = {}
  BY <1>1, <1>2, <1>3 DEF C, resolved
<1>4. ASSUME NEW t \in 1..5, C(t) # {}, \A k \in 1..5 : k > t => C(k) = {}
      PROVE  setting # {} /\ Last(setting) = t
  <2>1. t \in setting /\ \A k \in setting : k \in 1..5 /\ t >= k
    BY <1>1, <1>4
  <2> HIDE DEF setting
  <2>2. Last(setting) \in setting /\ \A k \in setting : Last(setting) >= k
    BY <2>1 DEF Last
  <2>3. Last(setting) >= t /\ t >= Last(setting) /\ Last(setting) \in 1..5
    BY <2>1, <2>2
  <2> QED
    BY <2>1, <2>3
<1> QED
  BY <1>2, <1>3, <1>4 DEF C, resolved

-----------------------------------------------------------------------------
(* Quiet times.                                                             *)
LEMMA Least ==
    ASSUME NEW S, S \subseteq Nat, S # {}
    PROVE  First(S) \in S /\ \A j \in S : First(S) <= j
<1>1. PICK m \in S : \A k \in S : <<k, m>> \notin OpToRel(<, Nat)
  BY WFMin, NatLessThanWellFounded
<1>2. \A k \in S : ~ (k < m)
  BY <1>1, Zenon DEF OpToRel
<1>3. \A k \in S : m <= k
  BY <1>2
<1> QED
  BY <1>3 DEF First

LEMMA Multiple ==
    ASSUME NEW D \in Int, D > 0, NEW m \in Int, m >= 1
    PROVE  D * m >= D
OBVIOUS

LEMMA Divided ==
    ASSUME NEW D \in Int, D > 0, NEW a \in Int
    PROVE  /\ a \div D \in Int /\ a % D \in Int /\ a % D >= 0 /\ a % D < D
           /\ a = D * (a \div D) + (a % D)
OBVIOUS

LEMMA Remainder ==
    ASSUME NEW D \in Int, D > 0, NEW k \in Int, NEW l \in Int,
           NEW q \in Int, NEW r \in Int, q >= 0, q < D, r >= 0, r < D,
           D * k + q = D * l + r
    PROVE  q = r
<1>1. CASE k = l
  BY <1>1
<1>2. CASE k > l
  <2>1. D * (k - l) >= D
    BY <1>2, Multiple
  <2>2. D * (k - l) = D * k - D * l
    OBVIOUS
  <2> QED
    BY <2>1, <2>2
<1>3. CASE k < l
  <2>1. D * (l - k) >= D
    BY <1>3, Multiple
  <2>2. D * (l - k) = D * l - D * k
    OBVIOUS
  <2> QED
    BY <2>1, <2>2
<1> QED
  BY <1>1, <1>2, <1>3

LEMMA Clockwork ==
    ASSUME NEW t \in Int
    PROVE  t % Day \in Int /\ t % Day >= 0 /\ t % Day < Day
BY PolicyAssumption, Divided

(* The time of day as far from another one as the local times are.          *)
LEMMA OtherTime ==
    ASSUME NEW t \in Int, NEW u \in Int, NEW q \in Int, q >= 0, q < Day,
           q = u - t + (t % Day) \/ q = u - t + (t % Day) + Day
    PROVE  u % Day = q
<1> DEFINE k == t \div Day
           l == u \div Day
           s == u % Day
<1>1. Day \in Int /\ Day > 0
  BY PolicyAssumption
<1>2. k \in Int /\ t = Day * k + (t % Day)
  BY <1>1, Divided
<1>3. l \in Int /\ s \in Int /\ s >= 0 /\ s < Day /\ u = Day * l + s
  BY <1>1, Divided
<1>4. t % Day \in Int
  BY <1>1, Divided
<1> HIDE DEF k, l, s
<1>5. Day * (k - 1) = Day * k - Day /\ k - 1 \in Int
  BY <1>1, <1>2
<1>6. \/ u = Day * k + q
      \/ u = Day * (k - 1) + q
  <2> DEFINE a == Day * k
             b == t % Day
             c == Day * (k - 1)
  <2>1. a \in Int /\ b \in Int /\ c = a - Day /\ t = a + b
    BY <1>1, <1>2, <1>4, <1>5
  <2>2. q = u - t + b \/ q = u - t + b + Day
    OBVIOUS
  <2> HIDE DEF a, b, c
  <2>3. u = a + q \/ u = c + q
    BY <1>1, <2>1, <2>2
  <2> QED
    BY <2>3 DEF a, c
<1>7. q = s
  <2>1. CASE u = Day * k + q
    <3>1. Day * k + q = Day * l + s
      BY <1>3, <2>1
    <3> QED
      BY <1>1, <1>2, <1>3, <3>1, Remainder
  <2>2. CASE u = Day * (k - 1) + q
    <3> DEFINE m == k - 1
    <3>1. Day * m + q = Day * l + s /\ m \in Int
      BY <1>3, <1>5, <2>2
    <3> HIDE DEF m
    <3> QED
      BY <1>1, <1>3, <3>1, Remainder
  <2> QED
    BY <1>6, <2>1, <2>2
<1> QED
  BY <1>7 DEF s

(* The quiet time around a local time began within the day before, is quiet *)
(* from then on, and not when it begins.                                     *)
LEMMA QuietTimes ==
    ASSUME NEW p, NEW local \in Int, Quiet(p, local),
           p.quiet_start \in 0..(Day - 1), p.quiet_end \in 0..(Day - 1)
    PROVE  /\ local - QuietBegan(p, local) \in 1..Day
           /\ ~Quiet(p, QuietBegan(p, local))
           /\ \A t \in Int : QuietBegan(p, local) < t /\ t <= local => Quiet(p, t)
<1> DEFINE qs == p.quiet_start
           qe == p.quiet_end
           tod == local % Day
           B == QuietBegan(p, local)
<1>0. Day \in Int /\ Day > 0
  BY PolicyAssumption
<1>1. /\ qs \in Int /\ qs >= 0 /\ qs < Day /\ qe \in Int /\ qe >= 0 /\ qe < Day
      /\ tod \in Int /\ tod >= 0 /\ tod < Day
  BY <1>0, Clockwork
<1>2. /\ qs # None /\ qs # qe
      /\ IF qs < qe THEN qs < tod /\ tod < qe ELSE tod > qs \/ tod < qe
  BY DEF Quiet, TimeOfDay
<1>3. B = local - tod + qs - (IF tod > qs THEN 0 ELSE Day)
  BY DEF QuietBegan, Midnight, TimeOfDay
<1>4. \A t : Quiet(p, t) <=> IF qs < qe THEN qs < t % Day /\ t % Day < qe
                                        ELSE t % Day > qs \/ t % Day < qe
  BY <1>2 DEF Quiet, TimeOfDay
<1> HIDE DEF qs, qe, B
<1>5. B \in Int /\ local - B \in 1..Day
  BY <1>0, <1>1, <1>2, <1>3
<1>6. B % Day = qs
  <2>1. qs = B - local + (local % Day) \/ qs = B - local + (local % Day) + Day
    BY <1>0, <1>1, <1>3
  <2>2. qs \in Int /\ qs >= 0 /\ qs < Day /\ B \in Int
    BY <1>1, <1>5
  <2> QED
    BY <2>1, <2>2, OtherTime
<1>7. ~Quiet(p, B)
  BY <1>1, <1>2, <1>4, <1>6
<1>8. ASSUME NEW t \in Int, B < t, t <= local PROVE Quiet(p, t)
  <2> DEFINE r == t - local + tod
  <2>1. r \in Int /\ r <= tod
    BY <1>1, <1>8
  <2>4. ASSUME NEW q \in Int, q >= 0, q < Day, q = r \/ q = r + Day
        PROVE  t % Day = q
    <3>1. q = t - local + (local % Day) \/ q = t - local + (local % Day) + Day
      BY <2>4
    <3> QED
      BY <2>4, <3>1, OtherTime
  <2>5. /\ tod > qs => t - local > qs - tod
        /\ ~(tod > qs) => t - local + Day > qs - tod
    BY <1>0, <1>1, <1>3, <1>8
  <2>6. r - tod = t - local
    BY <1>1
  <2> HIDE DEF r, tod
  <2>2. CASE r >= 0
    <3>1. t % Day = r
      BY <1>0, <1>1, <2>1, <2>2, <2>4
    <3>2. tod > qs => r > qs
      BY <1>1, <1>8, <2>1, <2>5, <2>6
    <3> QED
      BY <1>1, <1>2, <1>4, <2>1, <3>1, <3>2
  <2>3. CASE r < 0
    <3>1. ~(tod > qs) /\ r + Day > qs
      BY <1>0, <1>1, <1>8, <2>1, <2>3, <2>5, <2>6
    <3>2. r + Day \in Int /\ r + Day >= 0 /\ r + Day < Day
      BY <1>0, <1>1, <2>1, <2>3, <3>1
    <3>3. t % Day = r + Day
      BY <2>4, <3>2
    <3> QED
      BY <1>0, <1>1, <1>2, <1>4, <2>1, <3>1, <3>2, <3>3
  <2> QED
    BY <2>1, <2>2, <2>3
<1> QED
  BY <1>5, <1>7, <1>8 DEF B

(* The instants of a local time within two days before one that is shown.    *)
LEMMA Shows ==
    ASSUME NEW zone \in DOMAIN Shift, NEW i \in Clock, NEW n \in 0..2 * Day
    PROVE  /\ Local(zone, i) \in Int
           /\ At(zone, Local(zone, i) - n)
                 = {j \in Clock : Local(zone, j) = Local(zone, i) - n}
<1>1. Local(zone, i) \in Int
  <2>1. Shift[zone][i] \in Int /\ i \in Int
    BY PolicyAssumption, ZoneAssumption
  <2> QED
    BY <2>1 DEF Local
<1>2. Local(zone, i) - n \in LocalTimes
  <2>1. Local(zone, i) - n \in {Local(zone, j) - m : j \in Clock, m \in 0..2 * Day}
    OBVIOUS
  <2> QED
    BY <2>1 DEF LocalTimes
<1> QED
  BY <1>1, <1>2 DEF At, Instants

(* A preferred instant in a quiet time gives way to the first instant of    *)
(* its beginning, or of the latest local time before that exists.           *)
LEMMA Moved ==
    ASSUME NEW p, NEW d \in Deliveries, p.preferred \in Leads, p.timezone \in DOMAIN Shift,
           p.quiet_start \in 0..(Day - 1), p.quiet_end \in 0..(Day - 1),
           Quiet(p, Local(p.timezone, d.kickoff - p.preferred))
    PROVE  LET zone == p.timezone
               preferred == d.kickoff - p.preferred
               began == QuietBegan(p, Local(zone, preferred))
               rings == Boundary(zone, began)
           IN  /\ rings \in Clock /\ rings < preferred
               /\ ~Repeats(zone, rings)
               /\ At(zone, began) # {} =>
                     /\ ~Quiet(p, Local(zone, rings))
                     /\ \A i \in Clock : rings < i /\ i <= preferred =>
                           \/ Quiet(p, Local(zone, i))
                           \/ Repeats(zone, i)
                           \/ Local(zone, i) > Local(zone, preferred)
               /\ At(zone, began) = {} =>
                     /\ Local(zone, rings) < began
                     /\ \A i \in Clock : rings < i /\ i <= preferred =>
                           Repeats(zone, i) \/ Local(zone, i) > began
<1> DEFINE zone == p.timezone
           preferred == d.kickoff - p.preferred
           local == Local(zone, preferred)
           began == QuietBegan(p, local)
           shown == {n \in 0..Day : At(zone, began - n) # {}}
           back == First(shown)
           rings == First(At(zone, began - back))
<1>0. Day \in Nat /\ Day > 0 /\ Clock \subseteq Nat
  BY PolicyAssumption
<1>1. /\ preferred \in Clock /\ preferred \in Nat
      /\ \A n \in 0..Day : \E b \in 0..Day : At(zone, local - n - b) # {}
  BY <1>0, ZoneAssumption
<1>2. local \in Int /\ \A i \in Clock : Local(zone, i) \in Int
  BY <1>0, <1>1, Shows
<1> HIDE DEF preferred
<1>3. /\ local - began \in 1..Day /\ ~Quiet(p, began)
      /\ \A t \in Int : began < t /\ t <= local => Quiet(p, t)
  <2> HIDE DEF local
  <2>1. Quiet(p, local)
    BY DEF local, preferred
  <2> QED
    BY <1>2, <2>1, QuietTimes
<1>4. began \in Int
  <2>1. began = Midnight(local) + p.quiet_start
                - (IF TimeOfDay(local) > p.quiet_start THEN 0 ELSE Day)
    BY DEF QuietBegan
  <2>2. TimeOfDay(local) \in Int
    BY <1>0, <1>2, Clockwork DEF TimeOfDay
  <2> HIDE DEF local, began
  <2> QED
    BY <1>0, <1>2, <2>1, <2>2 DEF Midnight
<1> HIDE DEF began
<1>5. ASSUME NEW n \in 0..Day
      PROVE  At(zone, began - n) = {j \in Clock : Local(zone, j) = began - n}
  <2> DEFINE m == local - began + n
  <2>1. m \in 0..2 * Day /\ local - m = began - n
    BY <1>0, <1>2, <1>3, <1>4
  <2> HIDE DEF m
  <2>2. At(zone, local - m) = {j \in Clock : Local(zone, j) = local - m}
    BY <1>1, <2>1, Shows
  <2> QED
    BY <2>1, <2>2
<1>6. shown # {} /\ shown \subseteq Nat
  <2>1. PICK b \in 0..Day : At(zone, local - (local - began) - b) # {}
    BY <1>0, <1>1, <1>3
  <2>2. local - (local - began) - b = began - b
    BY <1>2, <1>4
  <2> QED
    BY <1>0, <2>1, <2>2
<1> HIDE DEF shown
<1>7. back \in shown /\ \A n \in shown : back <= n
  BY <1>6, Least
<1> HIDE DEF back
<1>8. back \in 0..Day /\ At(zone, began - back) # {}
  BY <1>7 DEF shown
<1>9. At(zone, began - back) \subseteq Nat
  BY <1>0, <1>5, <1>8
<1>10. rings \in At(zone, began - back) /\ \A i \in At(zone, began - back) : rings <= i
  BY <1>8, <1>9, Least
<1> HIDE DEF rings
<1>11. rings \in Clock /\ rings \in Nat /\ Local(zone, rings) = began - back
  BY <1>0, <1>5, <1>8, <1>10
<1>12. ~Repeats(zone, rings)
  <2> SUFFICES ASSUME NEW j \in Clock, j < rings, Local(zone, j) >= Local(zone, rings)
               PROVE  FALSE
    BY DEF Repeats
  <2>1. PICK k \in Clock : k < rings /\ Local(zone, k) = Local(zone, rings)
    BY <1>11, ZoneAssumption
  <2>2. k \in At(zone, began - back)
    BY <1>5, <1>8, <1>11, <2>1
  <2> QED
    BY <1>0, <1>10, <1>11, <2>1, <2>2
<1>13. rings < preferred
  <2>1. local > Local(zone, rings)
    BY <1>0, <1>2, <1>3, <1>4, <1>8, <1>11
  <2>2. ~(preferred < rings)
    BY <1>1, <1>2, <1>11, <1>12, <2>1 DEF Repeats
  <2>3. preferred # rings
    BY <1>2, <2>1
  <2> QED
    BY <1>1, <1>11, <2>2, <2>3
<1>14. ASSUME At(zone, began) # {} PROVE Local(zone, rings) = began
  <2>1. 0 \in shown
    BY <1>0, <1>4, <1>14 DEF shown
  <2>2. back = 0
    BY <1>0, <1>7, <1>8, <2>1
  <2> QED
    BY <1>4, <1>11, <2>2
<1>15. ASSUME At(zone, began) # {}, NEW i \in Clock, rings < i, i <= preferred,
              ~Repeats(zone, i), ~(Local(zone, i) > local)
       PROVE  Quiet(p, Local(zone, i))
  <2>1. ~(Local(zone, rings) >= Local(zone, i))
    BY <1>11, <1>15 DEF Repeats
  <2> QED
    BY <1>2, <1>3, <1>4, <1>14, <1>15, <2>1
<1>17. ASSUME At(zone, began) = {}
       PROVE  Local(zone, rings) < began
  <2>1. began - 0 = began
    BY <1>4
  <2>2. back # 0
    BY <1>8, <1>17, <2>1
  <2> QED
    BY <1>0, <1>4, <1>8, <1>11, <2>2
<1>18. ASSUME NEW i \in Clock, rings < i, i <= preferred,
              ~Repeats(zone, i), ~(Local(zone, i) > began)
       PROVE  At(zone, began) # {}
  <2>1. ~(Local(zone, rings) >= Local(zone, i))
    BY <1>11, <1>18 DEF Repeats
  <2> DEFINE n == began - Local(zone, i)
  <2>2. n \in 0..Day /\ n < back /\ began - n = Local(zone, i)
    BY <1>0, <1>2, <1>4, <1>8, <1>11, <1>18, <2>1
  <2> HIDE DEF n
  <2>3. n \in shown
    BY <1>5, <1>18, <2>2 DEF shown
  <2> QED
    BY <1>0, <1>7, <1>8, <2>2, <2>3
<1>16. Boundary(zone, began) = rings
  BY DEF Boundary, rings, back, shown
<1> QED
  BY <1>3, <1>11, <1>12, <1>13, <1>14, <1>15, <1>16, <1>17, <1>18 DEF began, preferred

-----------------------------------------------------------------------------
(* The policy in force, and the reminder it makes.                          *)
LEMMA SettledValue ==
    ASSUME TypeOK, NEW d, NEW f, ~Resolved(Applicable(rules, d), f).conflict
    PROVE  \/ Resolved(Applicable(rules, d), f).value = Fallback[f]
           \/ \E w \in Writes : /\ Resolved(Applicable(rules, d), f).value = w.policy[f]
                                /\ w.policy[f] # None
<1> DEFINE applicable == Applicable(rules, d)
           resolved == Resolved(applicable, f)
           C(k) == Candidates(applicable, Scopes[k], f)
<1>1. \/ resolved = [value |-> Fallback[f], conflict |-> FALSE]
      \/ \E t \in 1..5 : IF Cardinality(C(t)) = 1
                         THEN ~resolved.conflict /\ resolved.value \in C(t)
                         ELSE resolved.conflict
  BY Documented
<1>2. ASSUME NEW t \in 1..5, NEW v \in C(t)
      PROVE  v # None /\ \E w \in Writes : v = w.policy[f]
  <2>1. v # None /\ \E r \in applicable : v = r.policy[f]
    BY <1>2 DEF Candidates
  <2>2. PICK r \in applicable : v = r.policy[f]
    BY <2>1
  <2>3. PICK s \in Selectors : rules[s] # None /\ r = [scope |-> s.scope, policy |-> rules[s].policy]
    BY DEF Applicable
  <2>4. PICK w \in Writes : rules[s] \in [policy : {w.policy}, active : BOOLEAN]
    BY <2>3 DEF TypeOK
  <2>5. r.policy = w.policy
    BY <2>3, <2>4
  <2> QED
    BY <2>1, <2>2, <2>5
<1> HIDE DEF resolved, C
<1>3. CASE resolved = [value |-> Fallback[f], conflict |-> FALSE]
  BY <1>3 DEF resolved
<1>4. CASE \E t \in 1..5 : resolved.value \in C(t)
  BY <1>2, <1>4 DEF resolved
<1> QED
  BY <1>1, <1>3, <1>4 DEF resolved

Settled(p) ==
    /\ p.preferred \in Leads /\ p.preferred \in Nat
    /\ p.minimum \in Nat /\ p.maximum \in {None} \cup Nat
    /\ p.timezone \in DOMAIN Shift
    /\ p.quiet_start \in {None} \cup 0..(Day - 1)
    /\ p.quiet_end \in {None} \cup 0..(Day - 1)
    /\ p.quiet_start = None <=> p.quiet_end = None

LEMMA SettledPolicy ==
    ASSUME TypeOK, NEW d, Usable(Applicable(rules, d))
    PROVE  Settled(Policy(Applicable(rules, d)))
<1> DEFINE applicable == Applicable(rules, d)
           V(f) == Resolved(applicable, f).value
           p == Policy(applicable)
<1>1. ASSUME NEW f \in Fields
      PROVE  V(f) = Fallback[f] \/ \E w \in Writes : V(f) = w.policy[f] /\ w.policy[f] # None
  BY SettledValue DEF Usable
<1>2. /\ Fields = {"action", "preferred", "minimum", "maximum", "quiet_start",
                   "quiet_end", "timezone"}
      /\ Fallback["preferred"] = DefaultLead /\ Fallback["minimum"] = 0
      /\ Fallback["maximum"] = None /\ Fallback["quiet_start"] = None
      /\ Fallback["quiet_end"] = None /\ Fallback["timezone"] = DefaultZone
  BY DEF Fields, Fallback
<1>3. /\ p.preferred = V("preferred") /\ p.minimum = V("minimum")
      /\ p.maximum = V("maximum") /\ p.timezone = V("timezone")
      /\ p.quiet_start = V("quiet_start") /\ p.quiet_end = V("quiet_end")
  BY DEF Policy
<1>4. p.quiet_start = None <=> p.quiet_end = None
  BY DEF Usable, Valid
<1> HIDE DEF V, p
<1>5. V("preferred") \in Leads /\ V("preferred") \in Nat
  <2>1. \/ V("preferred") = DefaultLead
        \/ \E w \in Writes : V("preferred") = w.policy.preferred /\ w.policy.preferred # None
    BY <1>1, <1>2
  <2>2. DefaultLead \in Nat
    BY ValueAssumption
  <2>3. \A w \in Writes : w.policy.preferred \in {None} \cup Nat
    BY ValueAssumption
  <2> QED
    BY <2>1, <2>2, <2>3 DEF Leads
<1>6. V("minimum") \in Nat
  <2>1. \/ V("minimum") = 0
        \/ \E w \in Writes : V("minimum") = w.policy.minimum /\ w.policy.minimum # None
    BY <1>1, <1>2
  <2>2. \A w \in Writes : w.policy.minimum \in {None} \cup Nat
    BY ValueAssumption
  <2> QED
    BY <2>1, <2>2
<1>7. V("maximum") \in {None} \cup Nat
  <2>1. \/ V("maximum") = None
        \/ \E w \in Writes : V("maximum") = w.policy.maximum /\ w.policy.maximum # None
    BY <1>1, <1>2
  <2>2. \A w \in Writes : w.policy.maximum \in {None} \cup Nat
    BY ValueAssumption
  <2> QED
    BY <2>1, <2>2
<1>8. V("timezone") \in DOMAIN Shift
  <2>1. \/ V("timezone") = DefaultZone
        \/ \E w \in Writes : V("timezone") = w.policy.timezone /\ w.policy.timezone # None
    BY <1>1, <1>2
  <2> QED
    BY <2>1, ValueAssumption
<1>9. V("quiet_start") \in {None} \cup 0..(Day - 1)
  <2>1. \/ V("quiet_start") = None
        \/ \E w \in Writes : V("quiet_start") = w.policy.quiet_start
    BY <1>1, <1>2
  <2>2. \A w \in Writes : w.policy.quiet_start \in {None} \cup 0..(Day - 1)
    BY ValueAssumption
  <2> QED
    BY <2>1, <2>2
<1>10. V("quiet_end") \in {None} \cup 0..(Day - 1)
  <2>1. \/ V("quiet_end") = None
        \/ \E w \in Writes : V("quiet_end") = w.policy.quiet_end
    BY <1>1, <1>2
  <2>2. \A w \in Writes : w.policy.quiet_end \in {None} \cup 0..(Day - 1)
    BY ValueAssumption
  <2> QED
    BY <2>1, <2>2
<1> QED
  BY <1>3, <1>4, <1>5, <1>6, <1>7, <1>8, <1>9, <1>10 DEF p, Settled

(* Where a reminder that is on rings.                                       *)
LEMMA Ringing ==
    ASSUME NEW p, Settled(p), NEW d \in Deliveries
    PROVE  LET reminder == Scheduled(p, d.kickoff)
               rings == d.kickoff - reminder.lead
               preferred == Local(p.timezone, d.kickoff - p.preferred)
           IN /\ reminder \in Reminders
              /\ reminder.on =>
                   /\ p.minimum <= reminder.lead
                   /\ p.maximum # None => reminder.lead <= p.maximum
                   /\ reminder.lead >= p.preferred
                   /\ reminder.lead > p.preferred => ~Repeats(p.timezone, rings)
                   /\ \/ /\ ~Quiet(p, Local(p.timezone, rings))
                         /\ \A i \in Clock :
                               rings < i /\ i <= d.kickoff - p.preferred =>
                                 \/ Quiet(p, Local(p.timezone, i))
                                 \/ Repeats(p.timezone, i)
                                 \/ Local(p.timezone, i) > preferred
                      \/ /\ At(p.timezone, QuietBegan(p, preferred)) = {}
                         /\ Local(p.timezone, rings) < QuietBegan(p, preferred)
                         /\ \A i \in Clock :
                               rings < i /\ i <= d.kickoff - p.preferred =>
                                 \/ Repeats(p.timezone, i)
                                 \/ Local(p.timezone, i) > QuietBegan(p, preferred)
<1> DEFINE k == d.kickoff
           wanted == k - p.preferred
           local == Local(p.timezone, wanted)
           began == QuietBegan(p, local)
           boundary == Boundary(p.timezone, began)
           instant == IF Quiet(p, local) THEN boundary ELSE wanted
           reminder == Scheduled(p, k)
           lead == k - instant
           off == p.action = "suppress" \/ lead < p.minimum
                  \/ (p.maximum # None /\ lead > p.maximum)
<1>1. /\ k \in Nat /\ Clock \subseteq Nat /\ wanted \in Clock
      /\ p.preferred \in Nat /\ p.minimum \in Nat /\ p.maximum \in {None} \cup Nat
  BY PolicyAssumption, ZoneAssumption DEF Settled
<1>2. reminder = IF off THEN Off ELSE [on |-> TRUE, lead |-> lead]
  BY DEF Scheduled
<1>3. Quiet(p, local) =>
         /\ boundary \in Clock /\ boundary < wanted
         /\ ~Repeats(p.timezone, boundary)
         /\ At(p.timezone, began) # {} =>
               /\ ~Quiet(p, Local(p.timezone, boundary))
               /\ \A i \in Clock : boundary < i /\ i <= wanted =>
                     \/ Quiet(p, Local(p.timezone, i))
                     \/ Repeats(p.timezone, i)
                     \/ Local(p.timezone, i) > local
         /\ At(p.timezone, began) = {} =>
               /\ Local(p.timezone, boundary) < began
               /\ \A i \in Clock : boundary < i /\ i <= wanted =>
                     Repeats(p.timezone, i) \/ Local(p.timezone, i) > began
  <2> SUFFICES ASSUME Quiet(p, local)
               PROVE  /\ boundary \in Clock /\ boundary < wanted
                      /\ ~Repeats(p.timezone, boundary)
                      /\ At(p.timezone, began) # {} =>
                            /\ ~Quiet(p, Local(p.timezone, boundary))
                            /\ \A i \in Clock : boundary < i /\ i <= wanted =>
                                  \/ Quiet(p, Local(p.timezone, i))
                                  \/ Repeats(p.timezone, i)
                                  \/ Local(p.timezone, i) > local
                      /\ At(p.timezone, began) = {} =>
                            /\ Local(p.timezone, boundary) < began
                            /\ \A i \in Clock : boundary < i /\ i <= wanted =>
                                  Repeats(p.timezone, i) \/ Local(p.timezone, i) > began
    OBVIOUS
  <2>1. p.quiet_start # None
    BY Zenon DEF Quiet
  <2>2. /\ p.quiet_start \in 0..(Day - 1) /\ p.quiet_end \in 0..(Day - 1)
        /\ p.preferred \in Leads /\ p.timezone \in DOMAIN Shift
    BY <2>1 DEF Settled
  <2> QED
    BY <2>2, Moved, Zenon
<1> HIDE DEF boundary, wanted, local, began
<1>4. /\ instant \in Clock /\ instant \in Nat /\ instant <= wanted
      /\ instant < wanted => ~Repeats(p.timezone, instant)
      /\ \/ /\ ~Quiet(p, Local(p.timezone, instant))
            /\ \A i \in Clock : instant < i /\ i <= wanted =>
                  \/ Quiet(p, Local(p.timezone, i))
                  \/ Repeats(p.timezone, i)
                  \/ Local(p.timezone, i) > local
         \/ /\ At(p.timezone, began) = {} /\ Local(p.timezone, instant) < began
            /\ \A i \in Clock : instant < i /\ i <= wanted =>
                  Repeats(p.timezone, i) \/ Local(p.timezone, i) > began
  <2>1. CASE Quiet(p, local)
    <3>1. instant = boundary
      BY <2>1
    <3> HIDE DEF instant
    <3>2. /\ instant \in Clock /\ instant < wanted /\ ~Repeats(p.timezone, instant)
          /\ At(p.timezone, began) # {} =>
                /\ ~Quiet(p, Local(p.timezone, instant))
                /\ \A i \in Clock : instant < i /\ i <= wanted =>
                      \/ Quiet(p, Local(p.timezone, i))
                      \/ Repeats(p.timezone, i)
                      \/ Local(p.timezone, i) > local
          /\ At(p.timezone, began) = {} =>
                /\ Local(p.timezone, instant) < began
                /\ \A i \in Clock : instant < i /\ i <= wanted =>
                      Repeats(p.timezone, i) \/ Local(p.timezone, i) > began
      BY <1>3, <2>1, <3>1, Zenon
    <3>3. instant \in Nat /\ wanted \in Nat /\ instant <= wanted
      BY <1>1, <3>2
    <3> QED
      BY <3>2, <3>3, Zenon
  <2>2. CASE ~Quiet(p, local)
    <3>1. instant = wanted /\ wanted \in Nat
      BY <1>1, <2>2
    <3>2. ~Quiet(p, Local(p.timezone, instant))
      BY <2>2, <3>1 DEF local
    <3> QED
      BY <1>1, <3>1, <3>2
  <2> QED
    BY <2>1, <2>2
<1> HIDE DEF instant
<1>5. lead \in Int /\ k - lead = instant /\ lead >= p.preferred
      /\ (lead > p.preferred => instant < wanted)
  BY <1>1, <1>4 DEF wanted
<1>6. CASE off
  BY <1>2, <1>6 DEF Off, Reminders
<1>7. CASE ~off
  <2>1. reminder = [on |-> TRUE, lead |-> lead]
    BY <1>2, <1>7
  <2>2. p.minimum <= lead /\ (p.maximum # None => lead <= p.maximum)
    BY <1>1, <1>5, <1>7
  <2> HIDE DEF lead, reminder
  <2>3. reminder.lead = lead /\ k - reminder.lead = instant /\ reminder \in Reminders
    BY <1>5, <2>1 DEF Reminders
  <2>4. /\ p.minimum <= reminder.lead
        /\ p.maximum # None => reminder.lead <= p.maximum
        /\ reminder.lead >= p.preferred
        /\ reminder.lead > p.preferred => ~Repeats(p.timezone, k - reminder.lead)
    BY <1>4, <1>5, <2>2, <2>3
  <2>5. \/ /\ ~Quiet(p, Local(p.timezone, k - reminder.lead))
           /\ \A i \in Clock : k - reminder.lead < i /\ i <= wanted =>
                 \/ Quiet(p, Local(p.timezone, i))
                 \/ Repeats(p.timezone, i)
                 \/ Local(p.timezone, i) > local
        \/ /\ At(p.timezone, began) = {} /\ Local(p.timezone, k - reminder.lead) < began
           /\ \A i \in Clock : k - reminder.lead < i /\ i <= wanted =>
                 Repeats(p.timezone, i) \/ Local(p.timezone, i) > began
    <3> DEFINE rings == k - reminder.lead
    <3>1. rings = instant
      BY <2>3
    <3> HIDE DEF rings
    <3>2. \/ /\ ~Quiet(p, Local(p.timezone, rings))
             /\ \A i \in Clock : rings < i /\ i <= wanted =>
                   \/ Quiet(p, Local(p.timezone, i))
                   \/ Repeats(p.timezone, i)
                   \/ Local(p.timezone, i) > local
          \/ /\ At(p.timezone, began) = {} /\ Local(p.timezone, rings) < began
             /\ \A i \in Clock : rings < i /\ i <= wanted =>
                   Repeats(p.timezone, i) \/ Local(p.timezone, i) > began
      BY <1>4, <3>1
    <3> QED
      BY <3>2, Zenon DEF rings
  <2> QED
    BY <2>3, <2>4, <2>5, Zenon DEF local, began, wanted, reminder
<1> QED
  BY <1>6, <1>7

LEMMA EffectiveType ==
    ASSUME TypeOK, NEW d \in Deliveries
    PROVE  Effective(rules, d) \in Reminders
<1>1. CASE Usable(Applicable(rules, d))
  BY <1>1, SettledPolicy, Ringing, Zenon DEF Effective
<1>2. CASE ~Usable(Applicable(rules, d))
  BY <1>2 DEF Effective, Reminders
<1> QED
  BY <1>1, <1>2

LEMMA QuietTimesKept == ASSUME TypeOK PROVE NeverInQuietTime
<1> SUFFICES ASSUME NEW e \in existing, Effective(rules, delivered[e]).on
             PROVE  LET d == delivered[e]
                        p == Policy(Applicable(rules, d))
                        reminder == Effective(rules, d)
                        rings == d.kickoff - reminder.lead
                        preferred == Local(p.timezone, d.kickoff - p.preferred)
                        began == QuietBegan(p, preferred)
                    IN /\ p.minimum <= reminder.lead
                       /\ p.maximum # None => reminder.lead <= p.maximum
                       /\ reminder.lead >= p.preferred
                       /\ reminder.lead > p.preferred => ~Repeats(p.timezone, rings)
                       /\ \/ /\ ~Quiet(p, Local(p.timezone, rings))
                             /\ \A i \in Clock :
                                   rings < i /\ i <= d.kickoff - p.preferred =>
                                     \/ Quiet(p, Local(p.timezone, i))
                                     \/ Repeats(p.timezone, i)
                                     \/ Local(p.timezone, i) > preferred
                          \/ /\ At(p.timezone, began) = {}
                             /\ Local(p.timezone, rings) < began
                             /\ \A i \in Clock :
                                   rings < i /\ i <= d.kickoff - p.preferred =>
                                     Repeats(p.timezone, i) \/ Local(p.timezone, i) > began
  BY Zenon DEF NeverInQuietTime
<1> DEFINE d == delivered[e]
           p == Policy(Applicable(rules, d))
<1>1. d \in Deliveries
  BY DEF TypeOK
<1>2. Usable(Applicable(rules, d))
  BY DEF Effective, Off
<1>3. Effective(rules, d) = Scheduled(p, d.kickoff)
  BY <1>2 DEF Effective
<1>4. Settled(p)
  BY <1>2, SettledPolicy
<1> HIDE DEF d, p
<1> QED
  BY <1>1, <1>3, <1>4, Ringing, Zenon DEF d, p

-----------------------------------------------------------------------------
(* The types, with what a cycle lists known to the import.                  *)
KnownTypes == TypeOK /\ \A e \in mapped : delivered[e] # None

LEMMA InitialTypes == ASSUME Init PROVE KnownTypes
BY DEF Init, KnownTypes, TypeOK

LEMMA AnnouncedTypes ==
    ASSUME TypeOK, NEW es, Announce(es), UNCHANGED mapped
    PROVE  /\ calendar' \in [Events -> Reminders \cup {None}]
           /\ item' = None \/ item' \in [event : mapped', reminder : Reminders \cup {None},
                                         current : BOOLEAN]
BY DEF TypeOK, Announce

LEMMA TypesKept == ASSUME KnownTypes, [Next]_vars PROVE KnownTypes'
<1>1. ASSUME NEW s \in Selectors, NEW row, rules' = [rules EXCEPT ![s] = row],
             row # None => \E w \in Writes :
                 w.selector = s /\ row \in [policy : {w.policy}, active : BOOLEAN],
             NEW es, Announce(es), UNCHANGED <<delivered, existing, mapped>>
      PROVE  KnownTypes'
  <2>1. DOMAIN rules = Selectors
    BY DEF KnownTypes, TypeOK
  <2>2. DOMAIN rules' = Selectors /\ rules'[s] = row
        /\ \A x \in Selectors \ {s} : rules'[x] = rules[x]
    BY <1>1, <2>1
  <2>3. \A x \in Selectors : rules'[x] # None => \E w \in Writes :
           w.selector = x /\ rules'[x] \in [policy : {w.policy}, active : BOOLEAN]
    BY <1>1, <2>2 DEF KnownTypes, TypeOK
  <2> QED
    BY <1>1, <2>2, <2>3, AnnouncedTypes DEF KnownTypes, TypeOK
<1>2. ASSUME NEW w \in Writes, SetRule(w) PROVE KnownTypes'
  <2>1. w.selector \in Selectors
    BY DEF Selectors
  <2> DEFINE row == [policy |-> w.policy, active |-> TRUE]
  <2>2. row \in [policy : {w.policy}, active : BOOLEAN]
    OBVIOUS
  <2>3. /\ rules' = [rules EXCEPT ![w.selector] = row]
        /\ Announce(Invalidated(w.selector)) /\ UNCHANGED <<delivered, existing, mapped>>
    BY <1>2 DEF SetRule
  <2> HIDE DEF row
  <2> QED
    BY <1>1, <2>1, <2>2, <2>3
<1>3. ASSUME NEW s \in Selectors, DisableRule(s) PROVE KnownTypes'
  <2> DEFINE left == [rules[s] EXCEPT !.active = FALSE]
  <2>1. PICK w \in Writes :
           w.selector = s /\ rules[s] \in [policy : {w.policy}, active : BOOLEAN]
    BY <1>3 DEF DisableRule, KnownTypes, TypeOK
  <2>2. left \in [policy : {w.policy}, active : BOOLEAN]
    BY <2>1
  <2>3. /\ rules' = [rules EXCEPT ![s] = left]
        /\ Announce(IF rules[s].active THEN Invalidated(s) ELSE {})
        /\ UNCHANGED <<delivered, existing, mapped>>
    BY <1>3 DEF DisableRule, EndRule
  <2> HIDE DEF left
  <2> QED
    BY <1>1, <2>1, <2>2, <2>3
<1>4. ASSUME NEW s \in Selectors, DeleteRule(s) PROVE KnownTypes'
  <2>1. /\ rules' = [rules EXCEPT ![s] = None]
        /\ Announce(IF rules[s].active THEN Invalidated(s) ELSE {})
        /\ UNCHANGED <<delivered, existing, mapped>>
    BY <1>4 DEF DeleteRule, EndRule
  <2> QED
    BY <1>1, <2>1
<1>5. ASSUME NEW d \in Deliveries, Deliver(d) PROVE KnownTypes'
  <2>1. /\ delivered' = [delivered EXCEPT ![d.event] = d]
        /\ existing' = existing \cup {d.event}
        /\ Announce({d.event}) /\ UNCHANGED <<rules, mapped>>
    BY <1>5 DEF Deliver
  <2>2. d.event \in Events /\ d # None
    BY PolicyAssumption, ValueAssumption
  <2>3. /\ DOMAIN delivered' = Events /\ delivered'[d.event] = d
        /\ \A e \in Events \ {d.event} : delivered'[e] = delivered[e]
    BY <2>1, <2>2 DEF KnownTypes, TypeOK
  <2>4. \A e \in Events : delivered'[e] # None => delivered'[e] \in {x \in Deliveries : x.event = e}
    BY <2>3 DEF KnownTypes, TypeOK
  <2>5. /\ existing' \subseteq {e \in Events : delivered'[e] # None}
        /\ mapped' \subseteq Events /\ \A e \in mapped' : delivered'[e] # None
    BY <2>1, <2>2, <2>3 DEF KnownTypes, TypeOK
  <2> QED
    BY <2>1, <2>3, <2>4, <2>5, AnnouncedTypes DEF KnownTypes, TypeOK
<1>6. ASSUME NEW e \in Events, Remove(e) PROVE KnownTypes'
  BY <1>6, AnnouncedTypes DEF Remove, KnownTypes, TypeOK
<1>7. ASSUME NEW e \in Events, List(e) PROVE KnownTypes'
  <2>1. /\ e \in existing /\ mapped' = mapped \cup {e}
        /\ item' = [event |-> e, reminder |-> None, current |-> TRUE]
        /\ UNCHANGED <<rules, delivered, existing, calendar>>
    BY <1>7 DEF List
  <2>2. item' \in [event : mapped', reminder : Reminders \cup {None}, current : BOOLEAN]
    BY <2>1
  <2> QED
    BY <2>1, <2>2 DEF KnownTypes, TypeOK
<1>8. ASSUME NEW e \in Events, TakeDown(e) PROVE KnownTypes'
  BY <1>8 DEF TakeDown, KnownTypes, TypeOK
<1>9. CASE Build
  <2> DEFINE reminder == Effective(rules, delivered[item.event])
  <2>1. /\ item # None /\ item' = [item EXCEPT !.reminder = reminder]
        /\ UNCHANGED <<rules, delivered, existing, mapped, calendar>>
    BY <1>9 DEF Build
  <2>2. item \in [event : mapped, reminder : Reminders \cup {None}, current : BOOLEAN]
    BY <2>1 DEF KnownTypes, TypeOK
  <2>3. delivered[item.event] \in Deliveries
    BY <2>2 DEF KnownTypes, TypeOK
  <2>4. reminder \in Reminders
    BY <2>3, EffectiveType DEF KnownTypes
  <2> HIDE DEF reminder
  <2>5. item' \in [event : mapped, reminder : Reminders \cup {None}, current : BOOLEAN]
    BY <2>1, <2>2, <2>4
  <2> QED
    BY <2>1, <2>5 DEF KnownTypes, TypeOK
<1>10. CASE Written
  <2>1. /\ item # None /\ item' = None
        /\ calendar' = [calendar EXCEPT ![item.event] =
                           IF item.current THEN item.reminder ELSE None]
        /\ UNCHANGED <<rules, delivered, existing, mapped>>
    BY <1>10 DEF Written
  <2>2. item \in [event : mapped, reminder : Reminders \cup {None}, current : BOOLEAN]
    BY <2>1 DEF KnownTypes, TypeOK
  <2> QED
    BY <2>1, <2>2 DEF KnownTypes, TypeOK
<1>11. CASE NotWritten
  BY <1>11 DEF NotWritten, KnownTypes, TypeOK
<1>12. CASE UNCHANGED vars
  BY <1>12 DEF vars, KnownTypes, TypeOK
<1> QED
  BY <1>2, <1>3, <1>4, <1>5, <1>6, <1>7, <1>8, <1>9, <1>10, <1>11, <1>12 DEF Next

(* Every row is of a write the operator made, every reminder a lead time or *)
(* none, and the cycle is at an event with a row.                            *)
THEOREM TypeCorrect == Spec => []TypeOK
<1>1. Init => KnownTypes
  BY InitialTypes
<1>2. KnownTypes /\ [Next]_vars => KnownTypes'
  BY TypesKept
<1>3. KnownTypes => TypeOK
  BY DEF KnownTypes
<1> QED
  BY <1>1, <1>2, <1>3, PTL DEF Spec

(* Whatever the rules, the zones' shifts and the kickoff: a reminder that   *)
(* is on rings outside the quiet time, as late as may be, unless no minute  *)
(* the quiet time could begin at was shown.                                  *)
THEOREM QuietTimesRespected == Spec => []NeverInQuietTime
<1>1. TypeOK => NeverInQuietTime
  BY QuietTimesKept
<1> QED
  BY TypeCorrect, <1>1, PTL

-----------------------------------------------------------------------------
(* The invariant ShownIsCurrent follows from: an up-to-date appointment has *)
(* a mapping, and what is being written is written of today's rules.         *)
THEOREM Inductive == Spec => []IInv
<1>1. Init => IInv
  BY InitialStates
<1>2. IInv /\ [Next]_vars => IInv'
  BY StepsKeep
<1> QED
  BY <1>1, <1>2, PTL DEF Spec

(* Whoever makes an effective reminder another one makes its event a        *)
(* candidate again, in any order of rule changes, imports and cycles.        *)
THEOREM RemindersAreCurrent == Spec => []ShownIsCurrent
<1>1. IInv => ShownIsCurrent
  BY DEF IInv
<1> QED
  BY Inductive, <1>1, PTL

(* The overlay in the code is the documented order of precedence, for every *)
(* set of rules.                                                             *)
THEOREM PrecedenceAsDocumented == Spec => []ResolvedAsDocumented
BY Precedence, PTL

=============================================================================

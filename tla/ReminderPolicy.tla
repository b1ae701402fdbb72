--------------------------- MODULE ReminderPolicy ---------------------------
(***************************************************************************)
(* The reminder rules: how the rules in force are overlaid for an event,   *)
(* how a policy and a kickoff become one lead time, and how a change of    *)
(* the rules, made by the operator's tool in a process of its own while    *)
(* the service imports and synchronizes, reaches the appointments.         *)
(*                                                                          *)
(* Time is a line of minutes (Clock); a zone's local time is that instant  *)
(* plus the zone's shift, so that a spring gap is a local minute of no     *)
(* instant and an autumn overlap one of two.  CalendarSync models how an   *)
(* appointment is written; here a write succeeds or fails.                  *)
(***************************************************************************)
EXTENDS Integers, Sequences, FiniteSets

CONSTANTS
    None,           \* a field that is not set, and no value at all
    Events,
    CompetitionOf,  \* the competition of each event
    Deliveries,     \* what an import may deliver: event, lineup and kickoff
    Writes,         \* what the operator may set: a selector and a policy
    Clock,          \* the instants, in minutes
    Shift,          \* zone |-> instant |-> local time minus instant
    Day,            \* the minutes of a day
    DefaultZone,
    DefaultLead,
    MaxDisabled     \* bound: the rows disabled but not deleted at a time

Selectors == {w.selector : w \in Writes}
Scopes == <<"global", "competition", "participant", "competition_participant", "event">>

Fallback == [action |-> "enable",
             preferred |-> DefaultLead, minimum |-> 0, maximum |-> None,
             quiet_start |-> None, quiet_end |-> None,
             timezone |-> DefaultZone]
Fields == DOMAIN Fallback

(* The identifiers a selector has are those of its scope.                   *)
WellShaped(s) ==
    /\ s.scope \in {Scopes[k] : k \in DOMAIN Scopes}
    /\ s.competition # None <=> s.scope \in {"competition", "competition_participant"}
    /\ s.participant # None <=> s.scope \in {"participant", "competition_participant"}
    /\ s.event # None <=> s.scope = "event"

LeadsInOrder(p) ==
    /\ p.minimum # None /\ p.preferred # None => p.minimum <= p.preferred
    /\ p.preferred # None /\ p.maximum # None => p.preferred <= p.maximum
    /\ p.minimum # None /\ p.maximum # None => p.minimum <= p.maximum

Valid(p) == LeadsInOrder(p) /\ (p.quiet_start = None <=> p.quiet_end = None)

ASSUME PolicyAssumption ==
    /\ Clock \subseteq Nat /\ Day \in Nat \ {0}
    /\ IsFiniteSet(Writes)
    /\ DOMAIN CompetitionOf = Events
    /\ \A d \in Deliveries : d.event \in Events /\ d.kickoff \in Clock
    /\ \A w \in Writes : /\ WellShaped(w.selector)
                         /\ DOMAIN w.policy = Fields /\ Valid(w.policy)
                         /\ \E f \in Fields : w.policy[f] # None
ASSUME ValueAssumption ==
    /\ None \notin Deliveries
    /\ DefaultLead \in Nat /\ DefaultZone \in DOMAIN Shift
    /\ \A w \in Writes :
          /\ \A f \in {"preferred", "minimum", "maximum"} : w.policy[f] \in {None} \cup Nat
          /\ \A f \in {"quiet_start", "quiet_end"} : w.policy[f] \in {None} \cup 0..(Day - 1)
          /\ w.policy.timezone \in {None} \cup DOMAIN Shift

VARIABLES
    rules,      \* the current row of each selector, or None
    delivered,  \* the events' last delivery, or None
    existing,   \* the events whose deleted_at is null
    mapped,     \* the events with a mapping a mutation may invalidate
    calendar,   \* the reminder acknowledged as written, or None: a candidate
    item        \* the event a cycle is at: its reminder, whether still current

vars == <<rules, delivered, existing, mapped, calendar, item>>

-----------------------------------------------------------------------------
(* The rules that apply to an event, and how they are overlaid.             *)
AppliesTo(s, d) ==
    \/ s.scope = "global"
    \/ s.scope = "competition" /\ s.competition = CompetitionOf[d.event]
    \/ s.scope = "participant" /\ s.participant \in d.lineup
    \/ /\ s.scope = "competition_participant"
       /\ s.competition = CompetitionOf[d.event] /\ s.participant \in d.lineup
    \/ s.scope = "event" /\ s.event = d.event

Applicable(rs, d) ==
    {[scope |-> s.scope, policy |-> rs[s].policy] :
        s \in {x \in Selectors : rs[x] # None /\ rs[x].active /\ AppliesTo(x, d)}}

(* The distinct values the rules of one scope give a field.                 *)
Candidates(applicable, scope, f) ==
    {r.policy[f] : r \in {x \in applicable : x.scope = scope}} \ {None}

(* Two values leave the field in conflict, whatever was settled below.      *)
Unforgiving(below, values) ==
    IF values = {} THEN below
    ELSE IF Cardinality(values) > 1 THEN [below EXCEPT !.conflict = TRUE]
    ELSE [below EXCEPT !.value = CHOOSE v \in values : TRUE]

(* One value overrides what is below it and settles a conflict there.       *)
Overlaid(below, values) ==
    IF values = {} THEN below
    ELSE IF Cardinality(values) > 1 THEN [below EXCEPT !.conflict = TRUE]
    ELSE [value |-> CHOOSE v \in values : TRUE, conflict |-> FALSE]

Resolved(applicable, f) ==
    LET layer[k \in 0..Len(Scopes)] ==
          IF k = 0 THEN [value |-> Fallback[f], conflict |-> FALSE]
          ELSE Overlaid(layer[k - 1], Candidates(applicable, Scopes[k], f))
    IN layer[Len(Scopes)]

Policy(applicable) ==
    [action |-> Resolved(applicable, "action").value,
     preferred |-> Resolved(applicable, "preferred").value,
     minimum |-> Resolved(applicable, "minimum").value,
     maximum |-> Resolved(applicable, "maximum").value,
     quiet_start |-> Resolved(applicable, "quiet_start").value,
     quiet_end |-> Resolved(applicable, "quiet_end").value,
     timezone |-> Resolved(applicable, "timezone").value]

Usable(applicable) ==
    /\ \A f \in Fields : ~Resolved(applicable, f).conflict
    /\ Valid(Policy(applicable))

-----------------------------------------------------------------------------
(* From a policy and a kickoff to a lead time.                               *)
Local(zone, i) == i + Shift[zone][i]
LocalTimes == UNION {{Local(z, i) - n : i \in Clock, n \in 0..2 * Day} : z \in DOMAIN Shift}
Instants == [z \in DOMAIN Shift |-> [t \in LocalTimes |-> {i \in Clock : Local(z, i) = t}]]
At(zone, local) == Instants[zone][local]
TimeOfDay(local) == local % Day
Midnight(local) == local - TimeOfDay(local)

(* The quiet period with its bounds included.                                *)
QuietWithBounds(p, local) ==
    LET t == TimeOfDay(local)
    IN /\ p.quiet_start # None /\ p.quiet_start # p.quiet_end
       /\ IF p.quiet_start < p.quiet_end
          THEN p.quiet_start <= t /\ t <= p.quiet_end
          ELSE t >= p.quiet_start \/ t <= p.quiet_end

(* Strictly between the two bounds, over midnight if they say so.           *)
Quiet(p, local) ==
    LET t == TimeOfDay(local)
    IN /\ p.quiet_start # None /\ p.quiet_start # p.quiet_end
       /\ IF p.quiet_start < p.quiet_end
          THEN p.quiet_start < t /\ t < p.quiet_end
          ELSE t > p.quiet_start \/ t < p.quiet_end

(* The local time at which the quiet period around a local time began.      *)
QuietBegan(p, local) ==
    Midnight(local) + p.quiet_start
    - (IF TimeOfDay(local) > p.quiet_start THEN 0 ELSE Day)

(* The first of the instants of a local time, the last one of them.         *)
First(S) == CHOOSE i \in S : \A j \in S : i <= j
Last(S) == CHOOSE i \in S : \A j \in S : i >= j

(* A local time that does not exist gives way to the latest before it.      *)
Boundary(zone, local) ==
    LET back == First({n \in 0..Day : At(zone, local - n) # {}})
    IN First(At(zone, local - back))

(* What is taken for granted of zones: a local time the clocks have gone    *)
(* back to was shown before.  And of the line: it reaches back from every    *)
(* preferred instant to the beginning of a quiet time, or to a local time    *)
(* before it that exists.                                                    *)
Leads == {DefaultLead} \cup ({w.policy.preferred : w \in Writes} \ {None})

ASSUME ZoneAssumption == \A zone \in DOMAIN Shift :
    /\ Shift[zone] \in [Clock -> Int]
    /\ \A i, j \in Clock : j < i /\ Local(zone, j) >= Local(zone, i) =>
           \E k \in Clock : k < i /\ Local(zone, k) = Local(zone, i)
    /\ \A d \in Deliveries, lead \in Leads :
           /\ d.kickoff - lead \in Clock
           /\ \A n \in 0..Day : \E back \in 0..Day :
                 At(zone, Local(zone, d.kickoff - lead) - n - back) # {}

Off == [on |-> FALSE, lead |-> 0]

(* Times are whole minutes, so that a lead is one (NON_INTEGER_LEAD is left   *)
(* out).                                                                      *)
Scheduled(p, kickoff) ==
    LET preferred == kickoff - p.preferred
        local == Local(p.timezone, preferred)
        instant == IF Quiet(p, local)
                   THEN Boundary(p.timezone, QuietBegan(p, local))
                   ELSE preferred
        lead == kickoff - instant
    IN IF p.action = "suppress" \/ lead < p.minimum
          \/ (p.maximum # None /\ lead > p.maximum)
       THEN Off
       ELSE [on |-> TRUE, lead |-> lead]

(* What the payload of an event says: a conflict or an invalid combination  *)
(* turns the reminder off.                                                   *)
Effective(rs, d) ==
    LET applicable == Applicable(rs, d)
        policy == Policy(applicable)
    IN IF Usable(applicable) THEN Scheduled(policy, d.kickoff) ELSE Off

-----------------------------------------------------------------------------
Init ==
    /\ rules = [s \in Selectors |-> None]
    /\ delivered = [e \in Events |-> None]
    /\ existing = {} /\ mapped = {}
    /\ calendar = [e \in Events |-> None]
    /\ item = None

(* A revision of these events rises: they are candidates again, and what a  *)
(* cycle is writing of them will not be acknowledged.                        *)
Announce(es) ==
    /\ calendar' = [e \in Events |-> IF e \in es THEN None ELSE calendar[e]]
    /\ item' = IF item # None /\ item.event \in es
               THEN [item EXCEPT !.current = FALSE] ELSE item

(* The operator's tool: each command is one transaction.                     *)
Accepted(rs) == \A e \in existing : Usable(Applicable(rs, delivered[e]))

(* The mappings of the events the selector itself names.                     *)
InvalidatedByName(s) ==
    {e \in existing \cap mapped :
        AppliesTo(s, [delivered[e] EXCEPT !.lineup = {}])}

Invalidated(s) == {e \in existing \cap mapped : AppliesTo(s, delivered[e])}

(* A row that is set as it is announces nothing: a stuttering step.         *)
SetRule(w) ==
    LET row == [policy |-> w.policy, active |-> TRUE]
        new == [rules EXCEPT ![w.selector] = row]
    IN /\ rules[w.selector] # row /\ Accepted(new)
       /\ rules' = new
       /\ Announce(Invalidated(w.selector))
       /\ UNCHANGED <<delivered, existing, mapped>>

(* Disabled, the row stays current; deleted, it becomes history.             *)
EndRule(s, left) ==
    LET new == [rules EXCEPT ![s] = left]
    IN /\ rules[s] # None /\ Accepted(new)
       /\ rules' = new
       /\ Announce(IF rules[s].active THEN Invalidated(s) ELSE {})
       /\ UNCHANGED <<delivered, existing, mapped>>

Disabled == {s \in Selectors : rules[s] # None /\ ~rules[s].active}

DisableRule(s) ==
    /\ rules[s] # None /\ Cardinality(Disabled) < MaxDisabled
    /\ EndRule(s, [rules[s] EXCEPT !.active = FALSE])

DeleteRule(s) == EndRule(s, None)

-----------------------------------------------------------------------------
(* The import, in one transaction per fixture here: what is delivered and   *)
(* differs, or comes back, raises the event's own revision by trigger.       *)
Deliver(d) ==
    /\ d.event \notin existing \/ delivered[d.event] # d
    /\ delivered' = [delivered EXCEPT ![d.event] = d]
    /\ existing' = existing \cup {d.event}
    /\ Announce({d.event})
    /\ UNCHANGED <<rules, mapped>>

Remove(e) ==
    /\ e \in existing
    /\ existing' = existing \ {e}
    /\ Announce({e})
    /\ UNCHANGED <<rules, delivered, mapped>>

-----------------------------------------------------------------------------
(* The listing without the row.                                             *)
ListUnmapped(e) ==
    /\ item = None
    /\ e \in existing /\ calendar[e] = None
    /\ item' = [event |-> e, reminder |-> None, current |-> TRUE]
    /\ UNCHANGED <<rules, delivered, existing, mapped, calendar>>

(* The cycle.  A candidate is listed and its row created or revived; the    *)
(* payload is built from the rules as they are then; the write is           *)
(* acknowledged for the revisions that were listed.                          *)
List(e) ==
    /\ item = None
    /\ e \in existing /\ calendar[e] = None
    /\ mapped' = mapped \cup {e}
    /\ item' = [event |-> e, reminder |-> None, current |-> TRUE]
    /\ UNCHANGED <<rules, delivered, existing, calendar>>

(* A listing that is no longer current may build anything: nothing of it    *)
(* is acknowledged.                                                          *)
Build ==
    /\ item # None /\ item.reminder = None
    /\ item' = [item EXCEPT !.reminder = Effective(rules, delivered[item.event])]
    /\ UNCHANGED <<rules, delivered, existing, mapped, calendar>>

Written ==
    /\ item # None /\ item.reminder # None
    /\ calendar' = [calendar EXCEPT ![item.event] =
                       IF item.current THEN item.reminder ELSE None]
    /\ item' = None
    /\ UNCHANGED <<rules, delivered, existing, mapped>>

NotWritten ==
    /\ item # None
    /\ item' = None
    /\ UNCHANGED <<rules, delivered, existing, mapped, calendar>>

(* The appointment of a removed event is deleted, and its row with it.      *)
TakeDown(e) ==
    /\ item = None
    /\ e \in mapped \ existing
    /\ mapped' = mapped \ {e}
    /\ UNCHANGED <<rules, delivered, existing, calendar, item>>

Next ==
    \/ \E w \in Writes : SetRule(w)
    \/ \E s \in Selectors : DisableRule(s) \/ DeleteRule(s)
    \/ \E d \in Deliveries : Deliver(d)
    \/ \E e \in Events : Remove(e) \/ List(e) \/ TakeDown(e)
    \/ Build \/ Written \/ NotWritten

Spec == Init /\ [][Next]_vars

-----------------------------------------------------------------------------
Reminders == {Off} \cup [on : {TRUE}, lead : Int]

(* Types of the state.                                                       *)
TypeOK ==
    /\ \A s \in Selectors :
          rules[s] # None => \E w \in Writes :
              w.selector = s /\ rules[s] \in [policy : {w.policy}, active : BOOLEAN]
    /\ DOMAIN rules = Selectors /\ DOMAIN delivered = Events
    /\ \A e \in Events :
          delivered[e] # None => delivered[e] \in {d \in Deliveries : d.event = e}
    /\ existing \subseteq {e \in Events : delivered[e] # None}
    /\ mapped \subseteq Events
    /\ calendar \in [Events -> Reminders \cup {None}]
    /\ item = None \/ item \in [event : mapped, reminder : Reminders \cup {None},
                                current : BOOLEAN]

(* An appointment the service regards as up to date shows the reminder the  *)
(* rules give its event now: whatever the order of rule changes, imports,   *)
(* removals, returns and the steps of a cycle, whoever makes the effective   *)
(* reminder another one also makes the event a candidate again - a rule     *)
(* masked, unmasked or in conflict included.                                 *)
ShownIsCurrent ==
    \A e \in existing :
        calendar[e] # None => calendar[e] = Effective(rules, delivered[e])

(* Every field comes from the most specific scope that sets it at all, and  *)
(* is in conflict exactly if that scope disagrees with itself: the          *)
(* precedence the contract documents, whatever was settled or in conflict   *)
(* in the broader scopes on the way (outlook-presentation-reminder-media-   *)
(* contract, "Resolution order").                                            *)
ResolvedAsDocumented ==
    \A e \in existing :
        LET applicable == Applicable(rules, delivered[e]) IN \A f \in Fields :
        LET setting == {k \in DOMAIN Scopes : Candidates(applicable, Scopes[k], f) # {}}
            top == Last(setting)
            values == Candidates(applicable, Scopes[top], f)
            resolved == Resolved(applicable, f)
        IN IF setting = {}
           THEN resolved = [value |-> Fallback[f], conflict |-> FALSE]
           ELSE IF Cardinality(values) = 1
           THEN ~resolved.conflict /\ resolved.value \in values
           ELSE resolved.conflict

(* An instant whose local time the clocks have shown before.                *)
Repeats(zone, i) == \E j \in Clock : j < i /\ Local(zone, j) >= Local(zone, i)

(* A reminder that is on rings outside the quiet time of its policy's zone, *)
(* never later than preferred and with a lead within the bounds, and a      *)
(* later instant would be in that quiet time or in an hour the clocks show  *)
(* twice.  If the quiet time begins at a time the clocks skip, it rings at  *)
(* the last time they do show before that; at a repeated one the first time. *)
NeverInQuietTime ==
    \A e \in existing :
        LET d == delivered[e]
            p == Policy(Applicable(rules, d))
            reminder == Effective(rules, d)
            rings == d.kickoff - reminder.lead
            preferred == Local(p.timezone, d.kickoff - p.preferred)
            began == QuietBegan(p, preferred)
        IN reminder.on =>
             /\ p.minimum <= reminder.lead
             /\ p.maximum # None => reminder.lead <= p.maximum
             /\ reminder.lead >= p.preferred
             /\ reminder.lead > p.preferred => ~Repeats(p.timezone, rings)
             /\ \/ /\ ~Quiet(p, Local(p.timezone, rings))
                   /\ \A i \in Clock : rings < i /\ i <= d.kickoff - p.preferred =>
                         \/ Quiet(p, Local(p.timezone, i))
                         \/ Repeats(p.timezone, i)
                         \/ Local(p.timezone, i) > preferred
                \/ /\ At(p.timezone, began) = {} /\ Local(p.timezone, rings) < began
                   /\ \A i \in Clock : rings < i /\ i <= d.kickoff - p.preferred =>
                         Repeats(p.timezone, i) \/ Local(p.timezone, i) > began
=============================================================================

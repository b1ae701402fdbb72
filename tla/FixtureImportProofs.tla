------------------------- MODULE FixtureImportProofs -------------------------
(***************************************************************************)
(* Proofs about FixtureImport and the ManualPreview that extends it, for   *)
(* every set of sources, stages, fixtures and scopes.                      *)
(*                                                                         *)
(* The invariant speaks of one database d at a time, because the committed *)
(* one and the one of the open transaction must both satisfy it: a         *)
(* rollback returns to the former, a commit publishes the latter.          *)
(***************************************************************************)
EXTENDS ManualPreview, TLAPS

Exact(d) == \A s \in Sources, x, y \in Externals :
    d.mapping[s][x] # None =>
        /\ d.event[d.mapping[s][x]] # None
        /\ d.mapping[s][x] = d.mapping[s][y] => x = y

\* The last absence a source has counted is one of those it has seen.
Candidate(d) == \A s \in Sources, e \in EventIds :
    d.missing[s][e] # None => d.missing[s][e].at \in d.absent[s][e]

Confirmed(d) == \A e \in EventIds :
    d.event[e] # None /\ d.event[e].deleted =>
        \E s \in Sources : \E t, u \in d.absent[s][e] : t < u

Covered(d) == \A s \in Sources, x \in Externals :
    authority[s] # {} /\ d.mapping[s][x] # None =>
        d.event[d.mapping[s][x]].stage \in authority[s]

DatabaseInv(d) == d \in Databases /\ Exact(d) /\ Candidate(d) /\ Confirmed(d)
                  /\ Covered(d)

\* No stage has two writers.
Disjoint == \A s, t \in Sources : s # t => authority[s] \cap authority[t] = {}

\* What the open transaction has changed lies in the stages of its source.
Within(old, new, stages) == \A e \in EventIds : new.event[e] # old.event[e] =>
    /\ old.event[e] # None => old.event[e].stage \in stages
    /\ new.event[e] # None /\ new.event[e].stage \in stages

TransactionInv ==
    /\ tx = None => work = db
    /\ tx # None => /\ tx.todo \subseteq tx.observation.fixtures
                    /\ Authorized(tx.observation)
                    /\ Within(db, work, authority[Source])

IInv ==
    /\ TypeOK
    /\ DatabaseInv(db)
    /\ DatabaseInv(work)
    /\ Disjoint
    /\ TransactionInv

-----------------------------------------------------------------------------
(* What an open transaction knows of its observation.                       *)

LEMMA OpenTransaction ==
    ASSUME IInv, tx # None
    PROVE  /\ tx \in Transactions
           /\ tx.observation \in Observations
           /\ Source \in Sources
           /\ ObservedAt \in 1..MaxTime
           /\ authority[Source] \subseteq Season
           /\ authority[Source] # {}
           /\ \A f \in tx.todo : f \in FixtureRecords /\ f.stage \in authority[Source]
           /\ Boundary # None => Boundary \subseteq authority[Source]
  <1>1. tx \in Transactions
    BY DEF IInv, TypeOK
  <1>2. tx.observation \in Observations /\ tx.todo \in SUBSET FixtureRecords
    BY <1>1 DEF Transactions
  <1>3. Source \in Sources /\ ObservedAt \in 1..MaxTime
    BY <1>2 DEF Observations, Source, ObservedAt
  <1>4. authority[Source] \subseteq Season
    BY <1>3 DEF IInv, TypeOK, Grants, Season
  <1>5. Authorized(tx.observation) /\ tx.todo \subseteq tx.observation.fixtures
    BY DEF IInv, TransactionInv
  <1> QED
    BY <1>1, <1>2, <1>3, <1>4, <1>5 DEF Authorized, Source, Boundary

\* A step of the transaction that only moves on keeps it open and the same.
LEMMA MovedOn ==
    ASSUME IInv, tx # None, NEW f \in tx.todo, NEW delivered \in SUBSET EventIds,
           Done(f, delivered)
    PROVE  /\ tx' \in Transactions
           /\ tx' # None
           /\ tx'.observation = tx.observation
           /\ tx'.todo \subseteq tx.observation.fixtures
           /\ Source' = Source
           /\ Authorized(tx.observation)'
  <1>1. tx \in Transactions
    BY OpenTransaction
  <1>2. tx' = [observation |-> tx.observation, todo |-> tx.todo \ {f},
               seen |-> tx.seen \cup delivered]
    BY <1>1 DEF Done, Transactions
  <1>3. tx' \in Transactions
    BY <1>1, <1>2 DEF Transactions
  <1>4. tx' # None
    BY <1>3, RowAssumption
  <1>5. tx'.observation = tx.observation /\ tx'.todo \subseteq tx.todo
    BY <1>2
  <1> QED
    BY <1>3, <1>4, <1>5 DEF IInv, TransactionInv, Source, Done, Authorized

\* A step inside the transaction preserves the invariant if what it makes of
\* the working database satisfies its part.
LEMMA WorkStep ==
    ASSUME IInv, tx # None, NEW f \in tx.todo, NEW delivered \in SUBSET EventIds,
           Done(f, delivered),
           work' \in Databases, Exact(work'), Candidate(work'), Confirmed(work'),
           Covered(work'), Within(db, work', authority[Source])
    PROVE  IInv'
  <1>1. db' = db /\ authority' = authority /\ last' = last
    BY DEF Done
  <1>2. TypeOK'
    BY <1>1, MovedOn DEF IInv, TypeOK
  <1>3. DatabaseInv(db)'
    BY <1>1 DEF IInv, DatabaseInv, Exact, Candidate, Confirmed, Covered
  <1>4. DatabaseInv(work)'
    BY <1>1 DEF DatabaseInv, Exact, Candidate, Confirmed, Covered
  <1>5. Disjoint'
    BY <1>1 DEF IInv, Disjoint
  <1>6. TransactionInv'
    BY <1>1, MovedOn DEF TransactionInv, Within
  <1> QED
    BY <1>2, <1>3, <1>4, <1>5, <1>6 DEF IInv

-----------------------------------------------------------------------------
(* The fixtures of the transaction.                                         *)

\* A fixture that writes nothing preserves the invariant.
LEMMA SameWork ==
    ASSUME IInv, tx # None, NEW f \in tx.todo, NEW delivered \in SUBSET EventIds,
           Done(f, delivered), UNCHANGED work
    PROVE  IInv'
  BY WorkStep DEF IInv, DatabaseInv, TransactionInv

\* What the source has mapped for a fixture is an event or nothing.
LEMMA MappedTo ==
    ASSUME IInv, tx # None, NEW f \in tx.todo
    PROVE  /\ f.external \in Externals
           /\ Mapped(f) \in EventIds \cup {None}
  <1>1. f.external \in Externals /\ Source \in Sources
    BY OpenTransaction DEF FixtureRecords
  <1>2. work.mapping \in [Sources -> [Externals -> EventIds \cup {None}]]
    BY DEF IInv, TypeOK, Databases
  <1>3. work.mapping[Source] \in [Externals -> EventIds \cup {None}]
    BY <1>1, <1>2
  <1> QED
    BY <1>1, <1>3 DEF Mapped

\* Deferring a fixture, unresolved or unscheduled, preserves the invariant.
LEMMA Deferred ==
    ASSUME IInv, NEW f, DeferUnresolved(f) \/ DeferUnscheduled(f)
    PROVE  IInv'
  <1>1. tx # None /\ f \in tx.todo
    BY DEF DeferUnresolved, DeferUnscheduled, Turn
  <1>2. Mapped(f) \in EventIds \cup {None}
    BY <1>1, OpenTransaction, MappedTo
  <1>3. {Mapped(f)} \ {None} \in SUBSET EventIds
    BY <1>2
  <1> QED
    BY <1>1, <1>3, SameWork DEF DeferUnresolved, DeferUnscheduled

\* The types of the tables of a database.
LEMMA Fields ==
    ASSUME NEW d, d \in Databases
    PROVE  /\ d.event \in [EventIds -> Events \cup {None}]
           /\ d.mapping \in [Sources -> [Externals -> EventIds \cup {None}]]
           /\ d.missing \in [Sources -> [EventIds -> Candidacies \cup {None}]]
           /\ d.absent \in [Sources -> [EventIds -> SUBSET (1..MaxTime)]]
  BY DEF Databases

\* A working database put together from its fields.
LEMMA Assembled ==
    ASSUME work' = [event |-> work'.event, mapping |-> work'.mapping,
                    missing |-> work'.missing, absent |-> work'.absent],
           work'.event \in [EventIds -> Events \cup {None}],
           work'.mapping \in [Sources -> [Externals -> EventIds \cup {None}]],
           work'.missing \in [Sources -> [EventIds -> Candidacies \cup {None}]],
           work'.absent \in [Sources -> [EventIds -> SUBSET (1..MaxTime)]]
    PROVE  work' \in Databases
  BY DEF Databases

\* The parts of the invariant that speak of mappings and stages, for a row
\* written in the stages of the source, whether it is new or already mapped.
LEMMA WrittenInv ==
    ASSUME IInv, tx # None, work' \in Databases,
           NEW x \in Externals, NEW e \in EventIds, NEW row \in Events,
           row.stage \in authority[Source],
           \A g \in EventIds : work'.event[g] = IF g = e THEN row ELSE work.event[g],
           \A t \in Sources, y \in Externals : work'.mapping[t][y] =
               IF t = Source /\ y = x THEN e ELSE work.mapping[t][y],
           work.event[e] # None => work.event[e].stage \in authority[Source],
           work.mapping[Source][x] \in {None, e},
           \A y \in Externals : work.mapping[Source][y] = e => y = x
    PROVE  Exact(work') /\ Covered(work') /\ Within(db, work', authority[Source])
  <1>1. row # None
    BY RowAssumption
  <1>2. Source \in Sources
    BY OpenTransaction
  <1>3. \A t \in Sources, y \in Externals :
          work.mapping[t][y] \in EventIds \cup {None}
    BY Fields DEF IInv, TypeOK
  <1>4. Exact(work) /\ Covered(work) /\ Within(db, work, authority[Source])
    BY DEF IInv, DatabaseInv, TransactionInv
  <1>5. Exact(work')
    <2>1. SUFFICES ASSUME NEW s \in Sources, NEW y \in Externals,
                          NEW z \in Externals, work'.mapping[s][y] # None
                   PROVE  /\ work'.event[work'.mapping[s][y]] # None
                          /\ work'.mapping[s][y] = work'.mapping[s][z] => y = z
      BY DEF Exact
    <2>2. work'.event[work'.mapping[s][y]] # None
      BY <1>1, <1>3, <1>4, <2>1 DEF Exact
    <2>3. ASSUME work'.mapping[s][y] = work'.mapping[s][z]
          PROVE  y = z
      BY <1>2, <1>4, <2>1, <2>3 DEF Exact
    <2> QED
      BY <2>2, <2>3
  <1>6. Covered(work')
    <2>1. SUFFICES ASSUME NEW s \in Sources, NEW y \in Externals,
                          authority[s] # {}, work'.mapping[s][y] # None
                   PROVE  work'.event[work'.mapping[s][y]].stage \in authority[s]
      BY DEF Covered
    <2>2. CASE work'.mapping[s][y] # e
      BY <1>2, <1>3, <1>4, <2>1, <2>2 DEF Covered
    <2>3. CASE work'.mapping[s][y] = e /\ s = Source
      BY <2>3
    <2>4. CASE work'.mapping[s][y] = e /\ s # Source
      <3>1. work.mapping[s][y] = e /\ work.mapping[s][y] # None
        BY <2>1, <2>4
      <3>2. work.event[e] # None /\ work.event[e].stage \in authority[s]
        BY <1>4, <2>1, <3>1 DEF Exact, Covered
      <3>3. authority[s] \cap authority[Source] = {}
        BY <1>2, <2>4 DEF IInv, Disjoint
      <3> QED
        BY <3>2, <3>3
    <2> QED
      BY <2>2, <2>3, <2>4
  <1>7. Within(db, work', authority[Source])
    <2>1. SUFFICES ASSUME NEW g \in EventIds, work'.event[g] # db.event[g]
                   PROVE  /\ db.event[g] # None => db.event[g].stage \in authority[Source]
                          /\ work'.event[g] # None /\ work'.event[g].stage \in authority[Source]
      BY DEF Within
    <2>2. CASE g # e
      BY <1>4, <2>1, <2>2 DEF Within
    <2>3. CASE g = e
      <3>1. work'.event[g] = row
        BY <2>3
      <3>2. db.event[g] # None => db.event[g].stage \in authority[Source]
        BY <1>4, <2>3 DEF Within
      <3> QED
        BY <1>1, <3>1, <3>2
    <2> QED
      BY <2>2, <2>3
  <1> QED
    BY <1>5, <1>6, <1>7

\* The key of an event that does not exist is mapped by nobody.
LEMMA Unmapped ==
    ASSUME IInv, NEW s \in Sources, NEW e \in EventIds, work.event[e] = None
    PROVE  \A y \in Externals : work.mapping[s][y] = e => e = None
  BY DEF IInv, DatabaseInv, Exact

\* _create_event and its mapping preserve the invariant.
LEMMA Created ==
    ASSUME IInv, NEW f, Create(f)
    PROVE  IInv'
  <1> DEFINE e == <<Source, f.external>>
             row == [pair |-> f.pair, stage |-> f.stage, start |-> f.kickoff,
                     deleted |-> FALSE]
  <1>1. /\ tx # None /\ f \in tx.todo
        /\ f.pair # None /\ f.kickoff # None
        /\ Mapped(f) = None
        /\ work.event[e] = None
        /\ Done(f, {e})
        /\ work' = [work EXCEPT !.event[e] = row,
                                !.mapping[Source][f.external] = e]
    BY DEF Create, Turn
  <1>2. /\ f \in FixtureRecords /\ f.external \in Externals
        /\ f.stage \in authority[Source] /\ f.stage \in Season
        /\ Source \in Sources
    BY <1>1, OpenTransaction, MappedTo
  <1>3. row \in Events
    BY <1>1, <1>2 DEF FixtureRecords, Events
  <1>4. e \in EventIds
    BY <1>2 DEF EventIds
  <1>5. work \in Databases
    BY DEF IInv, TypeOK
  <1>6. work' = [event |-> [work.event EXCEPT ![e] = row],
                 mapping |-> [work.mapping EXCEPT ![Source][f.external] = e],
                 missing |-> work.missing, absent |-> work.absent]
    BY <1>1, <1>5 DEF Databases
  <1>7. /\ work'.event = [work.event EXCEPT ![e] = row]
        /\ work'.mapping = [work.mapping EXCEPT ![Source][f.external] = e]
        /\ work'.missing = work.missing
        /\ work'.absent = work.absent
        /\ work' = [event |-> work'.event, mapping |-> work'.mapping,
                    missing |-> work'.missing, absent |-> work'.absent]
    BY <1>6
  <1> HIDE DEF e, row
  <1>8. /\ work' \in Databases
        /\ \A g \in EventIds :
              work'.event[g] = IF g = e THEN row ELSE work.event[g]
        /\ \A t \in Sources, y \in Externals : work'.mapping[t][y] =
              IF t = Source /\ y = f.external THEN e ELSE work.mapping[t][y]
    <2>1. /\ work'.missing \in [Sources -> [EventIds -> Candidacies \cup {None}]]
          /\ work'.absent \in [Sources -> [EventIds -> SUBSET (1..MaxTime)]]
      BY <1>5, <1>7, Fields
    <2>2. /\ work'.event \in [EventIds -> Events \cup {None}]
          /\ work'.mapping \in [Sources -> [Externals -> EventIds \cup {None}]]
      BY <1>2, <1>3, <1>4, <1>5, <1>7, Fields
    <2>3. work' \in Databases
      BY <1>7, <2>1, <2>2, Assembled
    <2>4. \A g \in EventIds :
              work'.event[g] = IF g = e THEN row ELSE work.event[g]
      BY <1>2, <1>3, <1>4, <1>5, <1>7, Fields
    <2>5. \A t \in Sources, y \in Externals : work'.mapping[t][y] =
              IF t = Source /\ y = f.external THEN e ELSE work.mapping[t][y]
      BY <1>2, <1>3, <1>4, <1>5, <1>7, Fields
    <2> QED
      BY <2>3, <2>4, <2>5
  <1>9. \A y \in Externals : work.mapping[Source][y] # e
    BY <1>1, <1>2, <1>4, RowAssumption, Unmapped
  <1>10. Exact(work') /\ Covered(work')
         /\ Within(db, work', authority[Source])
    <2>1. row.stage = f.stage
      BY DEF row
    <2> QED
      BY <1>1, <1>2, <1>3, <1>4, <1>8, <1>9, <2>1, WrittenInv DEF Mapped
  <1>11. Candidate(work')
    BY <1>7 DEF IInv, DatabaseInv, Candidate
  <1>12. Confirmed(work')
    <2>1. ~row.deleted
      BY DEF row
    <2> QED
      BY <1>7, <1>8, <2>1 DEF IInv, DatabaseInv, Confirmed
  <1> QED
    BY <1>1, <1>4, <1>8, <1>10, <1>11, <1>12, WorkStep

\* A fixture that updates or adopts an event.
LEMMA Delivered ==
    ASSUME IInv, tx # None, NEW f \in tx.todo, NEW e \in EventIds,
           f.pair # None, Deliver(f, e),
           work.event[e] # None, work.event[e].stage \in authority[Source],
           Mapped(f) \in {None, e},
           \A y \in Externals : work.mapping[Source][y] = e => y = f.external
    PROVE  IInv'
  <1> DEFINE row == Target(work.event[e], f)
  <1>1. /\ Done(f, {e})
        /\ work' = [work EXCEPT !.event[e] = row,
                                !.mapping[Source][f.external] = e,
                                !.missing[Source][e] = None,
                                !.absent[Source][e] = {}]
    BY DEF Deliver
  <1>2. /\ f \in FixtureRecords /\ f.external \in Externals
        /\ f.stage \in authority[Source] /\ f.stage \in Season
        /\ Source \in Sources
    BY OpenTransaction, MappedTo
  <1>3. work \in Databases
    BY DEF IInv, TypeOK
  <1>4. work.event[e] \in Events
    BY <1>3, Fields
  <1>5. row \in Events /\ row.stage \in authority[Source] /\ ~row.deleted
    BY <1>2, <1>4 DEF Target, FixtureRecords, Events
  <1>6. work' = [event |-> [work.event EXCEPT ![e] = row],
                 mapping |-> [work.mapping EXCEPT ![Source][f.external] = e],
                 missing |-> [work.missing EXCEPT ![Source][e] = None],
                 absent |-> [work.absent EXCEPT ![Source][e] = {}]]
    BY <1>1, <1>3 DEF Databases
  <1> HIDE DEF row
  <1> DEFINE missing == [work.missing EXCEPT ![Source][e] = None]
             absent == [work.absent EXCEPT ![Source][e] = {}]
  <1>7. /\ work'.event = [work.event EXCEPT ![e] = row]
        /\ work'.mapping = [work.mapping EXCEPT ![Source][f.external] = e]
        /\ work'.missing = missing
        /\ work'.absent = absent
        /\ work' = [event |-> work'.event, mapping |-> work'.mapping,
                    missing |-> work'.missing, absent |-> work'.absent]
    BY <1>6
  <1>8. /\ missing \in [Sources -> [EventIds -> Candidacies \cup {None}]]
        /\ absent \in [Sources -> [EventIds -> SUBSET (1..MaxTime)]]
    <2>1. missing \in [Sources -> [EventIds -> Candidacies \cup {None}]]
      BY <1>2, <1>3, Fields
    <2>2. absent \in [Sources -> [EventIds -> SUBSET (1..MaxTime)]]
      BY <1>2, <1>3, Fields
    <2> QED
      BY <2>1, <2>2
  <1>9. \A t \in Sources, g \in EventIds :
          /\ work'.missing[t][g] =
                IF t = Source /\ g = e THEN None ELSE work.missing[t][g]
          /\ work'.absent[t][g] =
                IF t = Source /\ g = e THEN {} ELSE work.absent[t][g]
    BY <1>2, <1>3, <1>7, Fields
  <1>10. /\ work' \in Databases
         /\ \A g \in EventIds :
               work'.event[g] = IF g = e THEN row ELSE work.event[g]
         /\ \A t \in Sources, y \in Externals : work'.mapping[t][y] =
               IF t = Source /\ y = f.external THEN e ELSE work.mapping[t][y]
    <2>1. /\ work'.missing \in [Sources -> [EventIds -> Candidacies \cup {None}]]
          /\ work'.absent \in [Sources -> [EventIds -> SUBSET (1..MaxTime)]]
      BY <1>7, <1>8
    <2>2. /\ work'.event \in [EventIds -> Events \cup {None}]
          /\ work'.mapping \in [Sources -> [Externals -> EventIds \cup {None}]]
      BY <1>2, <1>3, <1>5, <1>7, Fields
    <2>3. work' \in Databases
      BY <1>7, <2>1, <2>2, Assembled
    <2>4. \A g \in EventIds :
              work'.event[g] = IF g = e THEN row ELSE work.event[g]
      BY <1>2, <1>3, <1>5, <1>7, Fields
    <2>5. \A t \in Sources, y \in Externals : work'.mapping[t][y] =
              IF t = Source /\ y = f.external THEN e ELSE work.mapping[t][y]
      BY <1>2, <1>3, <1>5, <1>7, Fields
    <2> QED
      BY <2>3, <2>4, <2>5
  <1>11. Exact(work') /\ Covered(work')
         /\ Within(db, work', authority[Source])
    BY <1>2, <1>5, <1>10, WrittenInv DEF Mapped
  <1>12. Candidate(work')
    BY <1>9 DEF IInv, DatabaseInv, Candidate
  <1>13. Confirmed(work')
    <2>1. SUFFICES ASSUME NEW g \in EventIds,
                          work'.event[g] # None, work'.event[g].deleted
                   PROVE  \E s \in Sources : \E t, u \in work'.absent[s][g] : t < u
      BY DEF Confirmed
    <2>2. g # e
      BY <1>5, <1>10, <2>1
    <2>3. work.event[g] # None /\ work.event[g].deleted
      BY <1>10, <2>1, <2>2
    <2>4. \A s \in Sources : work'.absent[s][g] = work.absent[s][g]
      BY <1>9, <2>2
    <2> QED
      BY <2>3, <2>4 DEF IInv, DatabaseInv, Confirmed
  <1> QED
    BY <1>1, <1>10, <1>11, <1>12, <1>13, WorkStep

\* A fixture the source has mapped preserves the invariant.
LEMMA Updated ==
    ASSUME IInv, NEW f, Update(f)
    PROVE  IInv'
  <1> DEFINE e == Mapped(f)
  <1>1. /\ tx # None /\ f \in tx.todo
        /\ f.pair # None /\ e # None
        /\ work.event[e].stage \in authority[Source]
        /\ Deliver(f, e)
    BY DEF Update, Turn
  <1>2. e \in EventIds /\ f.external \in Externals /\ Source \in Sources
    BY <1>1, MappedTo, OpenTransaction
  <1>3. Exact(work)
    BY DEF IInv, DatabaseInv
  <1>4. work.event[e] # None
    BY <1>1, <1>2, <1>3 DEF Exact, Mapped
  <1>5. \A y \in Externals : work.mapping[Source][y] = e => y = f.external
    BY <1>1, <1>2, <1>3 DEF Exact, Mapped
  <1> QED
    BY <1>1, <1>2, <1>4, <1>5, Delivered

\* Taking another source's event for a fixture preserves the invariant.
LEMMA Adopted ==
    ASSUME IInv, NEW f, Adopt(f)
    PROVE  IInv'
  <1>1. /\ tx # None /\ f \in tx.todo
        /\ f.pair # None /\ Mapped(f) = None
    BY DEF Adopt, Turn
  <1>2. PICK e \in EventIds :
          /\ CrossSource(f) = {e}
          /\ work.event[e].stage \in authority[Source]
          /\ e \notin MappedBy(work, Source)
          /\ Deliver(f, e)
    BY DEF Adopt
  <1>3. work.event[e] # None
    BY <1>2 DEF CrossSource
  <1>4. \A y \in Externals : work.mapping[Source][y] = e => e = None
    BY <1>2 DEF MappedBy
  <1>5. e # None
    BY RowAssumption
  <1> QED
    BY <1>1, <1>2, <1>3, <1>4, <1>5, Delivered

-----------------------------------------------------------------------------
(* The end of the transaction.                                              *)

\* A rollback preserves the invariant.
LEMMA RolledBack ==
    ASSUME IInv, Rollback
    PROVE  IInv'
  <1>1. /\ work' = db /\ tx' = None
        /\ db' = db /\ authority' = authority /\ last' = last
    BY DEF Rollback
  <1>2. TypeOK'
    BY <1>1 DEF IInv, TypeOK
  <1>3. DatabaseInv(db)' /\ DatabaseInv(work)'
    BY <1>1 DEF IInv, DatabaseInv, Exact, Candidate, Confirmed, Covered
  <1>4. Disjoint' /\ TransactionInv'
    BY <1>1 DEF IInv, Disjoint, TransactionInv
  <1> QED
    BY <1>2, <1>3, <1>4 DEF IInv

\* What is known of an event a complete observation lacks.
LEMMA Missed ==
    ASSUME IInv, tx # None, Boundary # None, NEW e \in EventIds, Missing(e)
    PROVE  /\ work.event[e] \in Events
           /\ work.event[e].stage \in authority[Source]
           /\ NewCount(e) \in Nat
           /\ Removed(e) => \E t \in work.absent[Source][e] : t < ObservedAt
  <1>1. work \in Databases /\ Source \in Sources
    BY OpenTransaction DEF IInv, TypeOK
  <1>2. PICK x \in Externals : work.mapping[Source][x] = e /\ e # None
    BY DEF Missing, MappedBy
  <1>3. work.event[e] # None
    BY <1>1, <1>2 DEF IInv, DatabaseInv, Exact
  <1>4. work.event[e] \in Events
    BY <1>1, <1>3, Fields
  <1>5. work.event[e].stage \in authority[Source]
    BY OpenTransaction DEF Missing
  <1>6. work.missing[Source][e] \in Candidacies \cup {None}
    BY <1>1, Fields
  <1>7. NewCount(e) \in Nat
    BY <1>6 DEF NewCount, Candidacies
  <1>8. ASSUME Removed(e)
        PROVE  \E t \in work.absent[Source][e] : t < ObservedAt
    <2>1. Counts(e) /\ NewCount(e) >= 2
      BY <1>8 DEF Removed
    <2>2. work.missing[Source][e] # None
      BY <2>1 DEF NewCount
    <2>3. work.missing[Source][e].at < ObservedAt
      BY <2>1, <2>2 DEF Counts
    <2>4. work.missing[Source][e].at \in work.absent[Source][e]
      BY <1>1, <2>2 DEF IInv, DatabaseInv, Candidate
    <2> QED
      BY <2>3, <2>4
  <1> QED
    BY <1>4, <1>5, <1>7, <1>8

\* What a reconciliation may do to a database: delete mapped events of the
\* granted stages that were absent twice, and remember the absences.
LEMMA ReconciledFields ==
    ASSUME IInv, tx # None, Boundary # None, NEW w, w = Reconciled
    PROVE  /\ w = [event |-> w.event, mapping |-> work.mapping,
                   missing |-> w.missing, absent |-> w.absent]
           /\ \A e \in EventIds : w.event[e] =
                 IF Removed(e) THEN [work.event[e] EXCEPT !.deleted = TRUE]
                               ELSE work.event[e]
           /\ \A s \in Sources, e \in EventIds : w.missing[s][e] =
                 IF s = Source /\ Counts(e)
                 THEN [count |-> NewCount(e), at |-> ObservedAt]
                 ELSE work.missing[s][e]
           /\ \A s \in Sources, e \in EventIds : w.absent[s][e] =
                 IF s = Source /\ Missing(e)
                 THEN work.absent[s][e] \cup {ObservedAt}
                 ELSE work.absent[s][e]
           /\ w \in Databases
  <1> DEFINE event == [e \in EventIds |->
                 IF Removed(e) THEN [work.event[e] EXCEPT !.deleted = TRUE]
                               ELSE work.event[e]]
             missing == [e \in EventIds |->
                 IF Counts(e)
                 THEN [count |-> NewCount(e), at |-> ObservedAt]
                 ELSE work.missing[Source][e]]
             absent == [e \in EventIds |->
                 IF Missing(e) THEN work.absent[Source][e] \cup {ObservedAt}
                               ELSE work.absent[Source][e]]
  <1>1. work \in Databases /\ Source \in Sources
    BY OpenTransaction DEF IInv, TypeOK
  <1>2. w = [work EXCEPT !.event = event, !.missing[Source] = missing,
                         !.absent[Source] = absent]
    BY DEF Reconciled
  <1> HIDE DEF event, missing, absent
  <1>3. w = [event |-> event, mapping |-> work.mapping,
             missing |-> [work.missing EXCEPT ![Source] = missing],
             absent |-> [work.absent EXCEPT ![Source] = absent]]
    BY <1>1, <1>2 DEF Databases
  <1>4. /\ w.event = event
        /\ w.missing = [work.missing EXCEPT ![Source] = missing]
        /\ w.absent = [work.absent EXCEPT ![Source] = absent]
        /\ w = [event |-> w.event, mapping |-> work.mapping,
                missing |-> w.missing, absent |-> w.absent]
    BY <1>3
  <1>6. \A s \in Sources : /\ w.missing[s] = IF s = Source THEN missing
                                             ELSE work.missing[s]
                           /\ w.absent[s] = IF s = Source THEN absent
                                            ELSE work.absent[s]
    BY <1>1, <1>4, Fields
  <1>7. \A e \in EventIds : w.event[e] =
                 IF Removed(e) THEN [work.event[e] EXCEPT !.deleted = TRUE]
                               ELSE work.event[e]
    BY <1>4 DEF event
  <1>8. \A s \in Sources, e \in EventIds : w.missing[s][e] =
                 IF s = Source /\ Counts(e)
                 THEN [count |-> NewCount(e), at |-> ObservedAt]
                 ELSE work.missing[s][e]
    <2>1. \A e \in EventIds : missing[e] =
                 IF Counts(e) THEN [count |-> NewCount(e), at |-> ObservedAt]
                              ELSE work.missing[Source][e]
      BY DEF missing
    <2> QED
      BY <1>6, <2>1
  <1>9. \A s \in Sources, e \in EventIds : w.absent[s][e] =
                 IF s = Source /\ Missing(e)
                 THEN work.absent[s][e] \cup {ObservedAt}
                 ELSE work.absent[s][e]
    <2>1. \A e \in EventIds : absent[e] =
                 IF Missing(e) THEN work.absent[Source][e] \cup {ObservedAt}
                               ELSE work.absent[Source][e]
      BY DEF absent
    <2> QED
      BY <1>6, <2>1
  <1>10. event \in [EventIds -> Events \cup {None}]
    <2>1. ASSUME NEW e \in EventIds, Removed(e)
          PROVE  [work.event[e] EXCEPT !.deleted = TRUE] \in Events
      <3>1. work.event[e] \in Events
        BY <2>1, Missed DEF Removed, Counts
      <3> QED
        BY <3>1 DEF Events
    <2>2. \A e \in EventIds : work.event[e] \in Events \cup {None}
      BY <1>1, Fields
    <2> QED
      BY <2>1, <2>2 DEF event
  <1>11. missing \in [EventIds -> Candidacies \cup {None}]
    <2>1. ASSUME NEW e \in EventIds, Counts(e)
          PROVE  [count |-> NewCount(e), at |-> ObservedAt] \in Candidacies
      BY <2>1, Missed, OpenTransaction DEF Counts, Candidacies
    <2>2. \A e \in EventIds : work.missing[Source][e] \in Candidacies \cup {None}
      BY <1>1, Fields
    <2> QED
      BY <2>1, <2>2 DEF missing
  <1>12. absent \in [EventIds -> SUBSET (1..MaxTime)]
    <2>1. \A e \in EventIds : work.absent[Source][e] \in SUBSET (1..MaxTime)
      BY <1>1, Fields
    <2>2. ObservedAt \in 1..MaxTime
      BY OpenTransaction
    <2> QED
      BY <2>1, <2>2 DEF absent
  <1>13. w \in Databases
    <2>1. w.missing \in [Sources -> [EventIds -> Candidacies \cup {None}]]
      BY <1>1, <1>4, <1>11, Fields
    <2>2. w.absent \in [Sources -> [EventIds -> SUBSET (1..MaxTime)]]
      BY <1>1, <1>4, <1>12, Fields
    <2>3. work.mapping \in [Sources -> [Externals -> EventIds \cup {None}]]
      BY <1>1, Fields
    <2>4. w.event \in [EventIds -> Events \cup {None}]
      BY <1>4, <1>10
    <2>5. w = [event |-> w.event, mapping |-> work.mapping,
               missing |-> w.missing, absent |-> w.absent]
      BY <1>4
    <2> QED
      BY <2>1, <2>2, <2>3, <2>4, <2>5 DEF Databases
  <1> QED
    BY <1>4, <1>7, <1>8, <1>9, <1>13

\* A reconciliation keeps the invariant of a database and changes only events
\* in the granted stages, without moving them.
LEMMA ReconciledInv ==
    ASSUME IInv, tx # None, Boundary # None, NEW w, w = Reconciled
    PROVE  DatabaseInv(w) /\ Within(db, w, authority[Source])
  <1>1. /\ w \in Databases
        /\ w.mapping = work.mapping
        /\ \A e \in EventIds : w.event[e] =
              IF Removed(e) THEN [work.event[e] EXCEPT !.deleted = TRUE]
                            ELSE work.event[e]
        /\ \A s \in Sources, e \in EventIds : w.missing[s][e] =
              IF s = Source /\ Counts(e)
              THEN [count |-> NewCount(e), at |-> ObservedAt]
              ELSE work.missing[s][e]
        /\ \A s \in Sources, e \in EventIds : w.absent[s][e] =
              IF s = Source /\ Missing(e)
              THEN work.absent[s][e] \cup {ObservedAt}
              ELSE work.absent[s][e]
    BY ReconciledFields
  <1>2. Source \in Sources /\ DatabaseInv(work) /\ Within(db, work, authority[Source])
    BY OpenTransaction DEF IInv, TransactionInv
  <1>3. \A e \in EventIds : Removed(e) =>
          /\ Missing(e)
          /\ work.event[e] \in Events
          /\ work.event[e].stage \in authority[Source]
          /\ \E t \in work.absent[Source][e] : t < ObservedAt
    BY Missed DEF Removed, Counts
  <1>4. \A e \in EventIds :
          /\ w.event[e] = None <=> work.event[e] = None
          /\ w.event[e] # None => w.event[e].stage = work.event[e].stage
    <2>1. SUFFICES ASSUME NEW e \in EventIds, Removed(e)
                   PROVE  /\ w.event[e] # None /\ work.event[e] # None
                          /\ w.event[e].stage = work.event[e].stage
      BY <1>1
    <2>2. work.event[e] \in Events /\ w.event[e] = [work.event[e] EXCEPT !.deleted = TRUE]
      BY <1>1, <1>3, <2>1
    <2>3. w.event[e] \in Events /\ w.event[e].stage = work.event[e].stage
      BY <2>2 DEF Events
    <2> QED
      BY <2>2, <2>3, RowAssumption
  <1>5. work.mapping \in [Sources -> [Externals -> EventIds \cup {None}]]
    BY <1>2, Fields DEF DatabaseInv
  <1>6. Exact(w)
    BY <1>1, <1>2, <1>4, <1>5 DEF DatabaseInv, Exact
  <1>7. Covered(w)
    <2>1. SUFFICES ASSUME NEW s \in Sources, NEW x \in Externals,
                          authority[s] # {}, w.mapping[s][x] # None
                   PROVE  w.event[w.mapping[s][x]].stage \in authority[s]
      BY DEF Covered
    <2>2. w.mapping[s][x] \in EventIds /\ w.mapping[s][x] = work.mapping[s][x]
      BY <1>1, <1>5, <2>1
    <2>3. work.event[w.mapping[s][x]] # None
          /\ work.event[w.mapping[s][x]].stage \in authority[s]
      BY <1>2, <2>1, <2>2 DEF DatabaseInv, Exact, Covered
    <2> QED
      BY <1>4, <2>2, <2>3
  <1>8. Candidate(w)
    <2>1. SUFFICES ASSUME NEW s \in Sources, NEW e \in EventIds,
                          w.missing[s][e] # None
                   PROVE  w.missing[s][e].at \in w.absent[s][e]
      BY DEF Candidate
    <2>2. CASE s = Source /\ Counts(e)
      <3>1. w.missing[s][e] = [count |-> NewCount(e), at |-> ObservedAt]
        BY <1>1, <2>2
      <3>2. ObservedAt \in w.absent[s][e]
        BY <1>1, <2>2 DEF Counts
      <3> QED
        BY <3>1, <3>2
    <2>3. CASE ~(s = Source /\ Counts(e))
      <3>1. w.missing[s][e] = work.missing[s][e]
        BY <1>1, <2>3
      <3>2. work.missing[s][e].at \in work.absent[s][e]
        BY <1>2, <2>1, <3>1 DEF DatabaseInv, Candidate
      <3>3. work.absent[s][e] \subseteq w.absent[s][e]
        BY <1>1
      <3> QED
        BY <3>1, <3>2, <3>3
    <2> QED
      BY <2>2, <2>3
  <1>9. Confirmed(w)
    <2>1. SUFFICES ASSUME NEW e \in EventIds,
                          w.event[e] # None, w.event[e].deleted
                   PROVE  \E s \in Sources : \E t, u \in w.absent[s][e] : t < u
      BY DEF Confirmed
    <2>2. \A s \in Sources : work.absent[s][e] \subseteq w.absent[s][e]
      BY <1>1
    <2>3. CASE Removed(e)
      <3>1. PICK t \in work.absent[Source][e] : t < ObservedAt
        BY <1>3, <2>3
      <3>2. ObservedAt \in w.absent[Source][e]
        BY <1>1, <1>2, <1>3, <2>3
      <3> QED
        BY <1>2, <2>2, <3>1, <3>2
    <2>4. CASE ~Removed(e)
      <3>1. work.event[e] # None /\ work.event[e].deleted
        BY <1>1, <2>1, <2>4
      <3>2. PICK s \in Sources : \E t, u \in work.absent[s][e] : t < u
        BY <1>2, <3>1 DEF DatabaseInv, Confirmed
      <3> QED
        BY <2>2, <3>2
    <2> QED
      BY <2>3, <2>4
  <1>10. Within(db, w, authority[Source])
    <2>1. SUFFICES ASSUME NEW e \in EventIds, w.event[e] # db.event[e]
                   PROVE  /\ db.event[e] # None => db.event[e].stage \in authority[Source]
                          /\ w.event[e] # None /\ w.event[e].stage \in authority[Source]
      BY DEF Within
    <2>2. CASE work.event[e] # db.event[e]
      BY <1>2, <1>4, <2>2 DEF Within
    <2>3. CASE work.event[e] = db.event[e]
      <3>1. Removed(e)
        BY <1>1, <2>1, <2>3
      <3>2. work.event[e] # None /\ work.event[e].stage \in authority[Source]
        BY <1>3, <3>1, RowAssumption
      <3> QED
        BY <1>4, <2>3, <3>2
    <2> QED
      BY <2>2, <2>3
  <1> QED
    BY <1>1, <1>6, <1>7, <1>8, <1>9, <1>10 DEF DatabaseInv

\* What a commit publishes is consistent and within the grant.
LEMMA Published ==
    ASSUME IInv, tx # None
    PROVE  /\ Commit => DatabaseInv(db')
           /\ Commit => Within(db, db', authority[Source])
  <1>1. CASE Boundary = None
    BY <1>1 DEF Commit, IInv, TransactionInv
  <1>2. CASE Boundary # None
    BY <1>2, ReconciledInv DEF Commit
  <1> QED
    BY <1>1, <1>2

\* A commit preserves the invariant.
LEMMA Committed ==
    ASSUME IInv, Commit
    PROVE  IInv'
  <1>1. /\ tx # None /\ tx' = None /\ work' = db'
        /\ last' = tx.observation /\ authority' = authority
    BY DEF Commit
  <1>2. DatabaseInv(db')
    BY <1>1, Published
  <1>3. DatabaseInv(db)' /\ DatabaseInv(work)'
    BY <1>1, <1>2 DEF DatabaseInv, Exact, Candidate, Confirmed, Covered
  <1>4. TypeOK'
    <2>1. last' \in Observations
      BY <1>1, OpenTransaction
    <2>2. db' \in Databases /\ work' \in Databases
      BY <1>1, <1>2 DEF DatabaseInv
    <2> QED
      BY <1>1, <2>1, <2>2 DEF IInv, TypeOK
  <1>5. Disjoint' /\ TransactionInv'
    BY <1>1 DEF IInv, Disjoint, TransactionInv
  <1> QED
    BY <1>3, <1>4, <1>5 DEF IInv

-----------------------------------------------------------------------------
(* Between transactions.                                                    *)

\* Opening a transaction preserves the invariant.
LEMMA Started ==
    ASSUME IInv
    PROVE  (\E o \in Observable : Begin(o)) => IInv'
  <1> SUFFICES ASSUME NEW o \in Observable, Begin(o)
               PROVE  IInv'
    OBVIOUS
  <1>1. /\ tx = None /\ Authorized(o)
        /\ tx' = [observation |-> o, todo |-> o.fixtures, seen |-> {}]
        /\ work' = work /\ db' = db /\ authority' = authority /\ last' = last
    BY DEF Begin
  <1>2. o \in Observations
    <2>1. PICK s \in Sources :
             \/ o \in Observed(s, Boundaries \cup {Season}, Windows, 1..MaxTime)
             \/ o \in Observed(s, {None}, {Kickoffs}, {1})
      BY DEF Observable
    <2>2. Feed[s] \subseteq FixtureRecords
      BY FeedAssumption
    <2>3. CASE o \in Observed(s, Boundaries \cup {Season}, Windows, 1..MaxTime)
      BY <2>2, <2>3, ScopeAssumption DEF Observed, Observations
    <2>4. CASE o \in Observed(s, {None}, {Kickoffs}, {1})
      <3>1. 1 \in 1..MaxTime
        BY ScopeAssumption
      <3> QED
        BY <2>2, <2>4, <3>1 DEF Observed, Observations
    <2> QED
      BY <2>1, <2>3, <2>4
  <1>3. tx' \in Transactions
    <2>1. o.fixtures \in SUBSET FixtureRecords
      BY <1>2 DEF Observations
    <2> QED
      BY <1>1, <1>2, <2>1 DEF Transactions
  <1>4. TypeOK'
    BY <1>1, <1>3 DEF IInv, TypeOK
  <1>5. DatabaseInv(db)' /\ DatabaseInv(work)' /\ Disjoint'
    BY <1>1 DEF IInv, DatabaseInv, Exact, Candidate, Confirmed, Covered, Disjoint
  <1>6. TransactionInv'
    <2>1. tx' # None
      BY <1>3, RowAssumption
    <2>2. tx'.observation = o /\ tx'.todo = o.fixtures
      BY <1>1
    <2>3. Authorized(tx.observation)'
      BY <1>1, <2>2 DEF Authorized
    <2>4. work' = db'
      BY <1>1 DEF IInv, TransactionInv
    <2> QED
      BY <2>1, <2>2, <2>3, <2>4 DEF TransactionInv, Within
  <1> QED
    BY <1>4, <1>5, <1>6 DEF IInv

\* Writing a grant preserves the invariant.
LEMMA Assigned ==
    ASSUME IInv, NEW s \in Sources, NEW stages \in Grants, Assign(s, stages)
    PROVE  IInv'
  <1>1. /\ tx = None /\ tx' = None /\ db' = db /\ work' = work /\ last' = None
        /\ work = db
        /\ authority' = [authority EXCEPT ![s] = stages]
        /\ Grantable(s, stages)
    BY DEF Assign, IInv, TransactionInv
  <1>2. authority \in [Sources -> Grants] /\ db \in Databases
    BY DEF IInv, TypeOK
  <1>3. \A t \in Sources : authority'[t] = IF t = s THEN stages ELSE authority[t]
    BY <1>1, <1>2
  <1>4. TypeOK'
    BY <1>1, <1>2 DEF IInv, TypeOK
  <1>5. Disjoint'
    BY <1>1, <1>3 DEF IInv, Disjoint, Grantable
  <1>6. Covered(db)'
    <2>1. SUFFICES ASSUME NEW t \in Sources, NEW x \in Externals,
                          authority'[t] # {}, db.mapping[t][x] # None
                   PROVE  db.event[db.mapping[t][x]].stage \in authority'[t]
      BY <1>1 DEF Covered
    <2>2. CASE t # s
      BY <1>3, <2>1, <2>2 DEF IInv, DatabaseInv, Covered
    <2>3. CASE t = s /\ stages # Season
      BY <1>1, <1>3, <2>1, <2>3 DEF Grantable, MappedBy
    <2>4. CASE t = s /\ stages = Season
      <3>1. db.mapping[t][x] \in EventIds
        BY <1>2, <2>1, Fields
      <3>2. db.event[db.mapping[t][x]] \in Events
        BY <1>2, <2>1, <3>1, Fields DEF IInv, DatabaseInv, Exact
      <3> QED
        BY <1>3, <2>4, <3>2 DEF Events
    <2> QED
      BY <2>2, <2>3, <2>4
  <1>7. DatabaseInv(db)' /\ DatabaseInv(work)'
    BY <1>1, <1>6 DEF IInv, DatabaseInv, Exact, Candidate, Confirmed, Covered
  <1>8. TransactionInv'
    BY <1>1 DEF TransactionInv
  <1> QED
    BY <1>4, <1>5, <1>7, <1>8 DEF IInv

\* The empty database satisfies the invariant.
LEMMA Initially ==
    ASSUME Init
    PROVE  IInv
  <1>1. /\ db = EmptyDatabase /\ work = EmptyDatabase /\ tx = None /\ last = None
        /\ authority = [s \in Sources |-> {}]
    BY DEF Init
  <1>2. EmptyDatabase \in Databases
    BY DEF EmptyDatabase, Databases
  <1>3. TypeOK
    BY <1>1, <1>2 DEF TypeOK, Grants
  <1>4. DatabaseInv(EmptyDatabase)
    BY <1>2 DEF DatabaseInv, Exact, Candidate, Confirmed, Covered, EmptyDatabase
  <1>5. Disjoint /\ TransactionInv
    BY <1>1 DEF Disjoint, TransactionInv
  <1> QED
    BY <1>1, <1>3, <1>4, <1>5 DEF IInv

\* A stuttering step preserves the invariant.
LEMMA Idle ==
    ASSUME IInv, UNCHANGED vars
    PROVE  IInv'
  BY DEF vars, IInv, TypeOK, DatabaseInv, Exact, Candidate, Confirmed, Covered,
         Disjoint, TransactionInv, Within, Authorized, Source

-----------------------------------------------------------------------------

(* The inductive invariant holds in every reachable state: the committed    *)
(* database and the one of the open transaction are both consistent at      *)
(* every step of an import, so both a commit and a rollback are safe.       *)
THEOREM Inductive == Spec => []IInv
  <1>1. Init => IInv
    BY Initially
  <1>2. IInv /\ [Next]_vars => IInv'
    <2> SUFFICES ASSUME IInv, [Next]_vars
                 PROVE  IInv'
      OBVIOUS
    <2>1. ASSUME NEW s \in Sources, NEW stages \in Grants, Assign(s, stages)
          PROVE  IInv'
      BY <2>1, Assigned
    <2>2. ASSUME \E o \in Observable : Begin(o)
          PROVE  IInv'
      BY <2>2, Started
    <2>3. ASSUME NEW f \in FixtureRecords, ImportFixture(f)
          PROVE  IInv'
      BY <2>3, Deferred, Created, Updated, Adopted DEF ImportFixture
    <2>4. CASE Commit
      BY <2>4, Committed
    <2>5. CASE Rollback
      BY <2>5, RolledBack
    <2>6. CASE UNCHANGED vars
      BY <2>6, Idle
    <2> QED
      BY <2>1, <2>2, <2>3, <2>4, <2>5, <2>6 DEF Next
  <1> QED
    BY <1>1, <1>2, PTL DEF Spec

(* The rows of the import are those its tables and records allow.           *)
THEOREM TypeCorrect == Spec => []TypeOK
  <1>1. IInv => TypeOK
    BY DEF IInv
  <1> QED
    BY <1>1, Inductive, PTL

(* fixture_import_repository.py never maps two external IDs of one source   *)
(* to one event, and never maps an event that is not there.                 *)
THEOREM MappingsExact == Spec => []MappingsAreExact
  <1>1. IInv => MappingsAreExact
    BY DEF IInv, DatabaseInv, Exact, MappingsAreExact
  <1> QED
    BY <1>1, Inductive, PTL

(* _reconcile_missing deletes an event only on two complete observations of *)
(* different times that lacked it, whatever is replayed, reordered, handed  *)
(* over or rolled back in between.                                          *)
THEOREM RemovalsAreConfirmed == Spec => []RemovalIsConfirmed
  <1>1. IInv => RemovalIsConfirmed
    BY DEF IInv, DatabaseInv, Confirmed, RemovalIsConfirmed
  <1> QED
    BY <1>1, Inductive, PTL

(* The grants checked when assignments are written and the stages checked   *)
(* when fixtures are written agree for ever: the events a granted source    *)
(* has mapped lie in its stages, though other sources may write them.       *)
THEOREM GrantsCoverMappings == Spec => []GrantCoversMappings
  <1>1. IInv => GrantCoversMappings
    <2> SUFFICES ASSUME IInv, NEW s \in Sources, authority[s] # {},
                        NEW e \in MappedBy(db, s)
                 PROVE  db.event[e].stage \in authority[s]
      BY DEF GrantCoversMappings
    <2>1. PICK x \in Externals : e = db.mapping[s][x] /\ e # None
      BY DEF MappedBy
    <2> QED
      BY <2>1 DEF IInv, DatabaseInv, Covered
  <1> QED
    BY <1>1, Inductive, PTL

(* Whatever one observation creates, updates, adopts and removes together,  *)
(* the committed change lies in the stages granted to its source.           *)
THEOREM AuthorityKept == Spec => AuthorityIsKept
  <1>1. IInv /\ [Next]_vars =>
          [db' # db => tx # None /\ ChangesWithin(authority[Source])]_vars
    <2> SUFFICES ASSUME IInv, Next, db' # db
                 PROVE  tx # None /\ ChangesWithin(authority[Source])
      OBVIOUS
    <2>1. Commit
      <3>1. \A f : ImportFixture(f) => db' = db
        <4>1. \A f, delivered : Done(f, delivered) => db' = db
          BY DEF Done
        <4>2. \A f, e : Deliver(f, e) => db' = db
          BY <4>1 DEF Deliver
        <4>3. \A f : Update(f) \/ Adopt(f) => db' = db
          BY <4>2 DEF Update, Adopt
        <4>4. \A f : Create(f) => db' = db
          BY <4>1 DEF Create
        <4>5. \A f : DeferUnresolved(f) \/ DeferUnscheduled(f) => db' = db
          BY <4>1 DEF DeferUnresolved, DeferUnscheduled
        <4> QED
          BY <4>3, <4>4, <4>5 DEF ImportFixture
      <3>2. \A s, stages : Assign(s, stages) => db' = db
        BY DEF Assign
      <3>3. \A o : Begin(o) => db' = db
        BY DEF Begin
      <3>4. Rollback => db' = db
        BY DEF Rollback
      <3> QED
        BY <3>1, <3>2, <3>3, <3>4 DEF Next
    <2>2. tx # None
      BY <2>1 DEF Commit
    <2> QED
      BY <2>1, <2>2, Published DEF Within, ChangesWithin
  <1> QED
    BY <1>1, Inductive, PTL DEF Spec, AuthorityIsKept

-----------------------------------------------------------------------------
(* The reviewed import (ManualPreview).                                     *)
(*                                                                          *)
(* Everything proved of the import holds of it, because planning only       *)
(* forbids some transactions to begin.  What a plan promises rests on one   *)
(* fact more: a fixture of an accepted package reads and writes no event    *)
(* but the one of its own key, so while a fixture waits the database says   *)
(* of it what it said when it was planned.                                  *)

\* A namespace has no complete scopes, so nothing it maps is ever missed.
NothingMissed(d) == \A s \in Manual, e \in EventIds :
    d.missing[s][e] = None /\ d.absent[s][e] = {}

\* The row of an event is what a fixture made of it.
Written(f, e) ==
    /\ e = Key(Source, f)
    /\ f.pair # None
    /\ work.event[e] # None
    /\ work.event[e].pair = f.pair
    /\ work.event[e].stage = f.stage

Taken == tx.observation.fixtures \ tx.todo

PackageInv ==
    /\ Boundary = None
    /\ \A f, g \in tx.observation.fixtures : f.external = g.external => f = g
    /\ Accepted(tx.observation)
    /\ \A e \in EventIds :
          work.event[e] # db.event[e] => \E f \in Taken : Written(f, e)
    /\ \A f \in tx.todo : Mapped(f) = Known(Source, f)

PlanInv ==
    /\ NothingMissed(db)
    /\ NothingMissed(work)
    /\ \A s \in Manual : None \notin authority[s]
    /\ Applying => PackageInv

-----------------------------------------------------------------------------
(* What planning adds to the import.                                        *)

LEMMA PreviewedIsNext == PreviewedNext => Next
  BY DEF PreviewedNext, Next, BeginReviewed

(* An import that begins with a plan is an import: whatever holds of every  *)
(* import holds of it.                                                      *)
THEOREM ReviewedIsImport == PreviewedSpec => Spec
  BY PreviewedIsNext, PTL DEF PreviewedSpec, Spec

-----------------------------------------------------------------------------
(* What the steps of a transaction write.                                   *)

\* _create_event writes the row and the mapping of the fixture's key.
LEMMA CreateWrites ==
    ASSUME IInv, NEW f, Create(f)
    PROVE  /\ \A e \in EventIds : work'.event[e] # work.event[e] =>
                  /\ e = <<Source, f.external>>
                  /\ work'.event[e] = [pair |-> f.pair, stage |-> f.stage,
                                       start |-> f.kickoff, deleted |-> FALSE]
           /\ \A y \in Externals :
                  work'.mapping[Source][y] # work.mapping[Source][y] => y = f.external
           /\ work'.missing = work.missing /\ work'.absent = work.absent
           /\ work'.event # work.event
  <1> DEFINE e == <<Source, f.external>>
             row == [pair |-> f.pair, stage |-> f.stage, start |-> f.kickoff,
                     deleted |-> FALSE]
  <1>1. /\ tx # None /\ f \in tx.todo
        /\ f.pair # None /\ f.kickoff # None
        /\ work.event[e] = None
        /\ work' = [work EXCEPT !.event[e] = row,
                                !.mapping[Source][f.external] = e]
    BY DEF Create, Turn
  <1>2. /\ f \in FixtureRecords /\ f.external \in Externals
        /\ f.stage \in Season /\ Source \in Sources
    BY <1>1, OpenTransaction, MappedTo
  <1>3. row \in Events /\ e \in EventIds
    BY <1>1, <1>2 DEF FixtureRecords, Events, EventIds
  <1>4. row # None
    BY <1>3, RowAssumption
  <1>5. work \in Databases
    BY DEF IInv, TypeOK
  <1> HIDE DEF e, row
  <1>6. /\ work'.event = [work.event EXCEPT ![e] = row]
        /\ work'.mapping = [work.mapping EXCEPT ![Source][f.external] = e]
        /\ work'.missing = work.missing
        /\ work'.absent = work.absent
    BY <1>1, <1>5 DEF Databases
  <1>7. /\ \A g \in EventIds :
              work'.event[g] = IF g = e THEN row ELSE work.event[g]
        /\ \A y \in Externals : work'.mapping[Source][y] =
              IF y = f.external THEN e ELSE work.mapping[Source][y]
    BY <1>2, <1>3, <1>5, <1>6, Fields
  <1>8. work'.event # work.event
    BY <1>1, <1>3, <1>4, <1>7
  <1> QED
    BY <1>6, <1>7, <1>8 DEF e, row

\* Delivering an event writes its row, its mapping and the reconciliation state.
LEMMA DeliverWrites ==
    ASSUME IInv, tx # None, NEW f \in tx.todo, NEW e \in EventIds, Deliver(f, e)
    PROVE  /\ work' = [event |-> [work.event EXCEPT ![e] = Target(work.event[e], f)],
                       mapping |-> [work.mapping EXCEPT ![Source][f.external] = e],
                       missing |-> [work.missing EXCEPT ![Source][e] = None],
                       absent |-> [work.absent EXCEPT ![Source][e] = {}]]
           /\ \A g \in EventIds : work'.event[g] =
                 IF g = e THEN Target(work.event[e], f) ELSE work.event[g]
           /\ \A y \in Externals : work'.mapping[Source][y] =
                 IF y = f.external THEN e ELSE work.mapping[Source][y]
           /\ \A t \in Sources, g \in EventIds :
                 /\ work'.missing[t][g] =
                       IF t = Source /\ g = e THEN None ELSE work.missing[t][g]
                 /\ work'.absent[t][g] =
                       IF t = Source /\ g = e THEN {} ELSE work.absent[t][g]
  <1> DEFINE row == Target(work.event[e], f)
  <1>1. work' = [work EXCEPT !.event[e] = row,
                             !.mapping[Source][f.external] = e,
                             !.missing[Source][e] = None,
                             !.absent[Source][e] = {}]
    BY DEF Deliver
  <1>2. f.external \in Externals /\ Source \in Sources
    BY OpenTransaction, MappedTo
  <1>3. work \in Databases
    BY DEF IInv, TypeOK
  <1> HIDE DEF row
  <1>4. work' = [event |-> [work.event EXCEPT ![e] = row],
                 mapping |-> [work.mapping EXCEPT ![Source][f.external] = e],
                 missing |-> [work.missing EXCEPT ![Source][e] = None],
                 absent |-> [work.absent EXCEPT ![Source][e] = {}]]
    BY <1>1, <1>3 DEF Databases
  <1>5. /\ work'.event = [work.event EXCEPT ![e] = row]
        /\ work'.mapping = [work.mapping EXCEPT ![Source][f.external] = e]
        /\ work'.missing = [work.missing EXCEPT ![Source][e] = None]
        /\ work'.absent = [work.absent EXCEPT ![Source][e] = {}]
    BY <1>4
  <1>6. \A g \in EventIds : work'.event[g] = IF g = e THEN row ELSE work.event[g]
    BY <1>3, <1>5, Fields
  <1>7. \A y \in Externals : work'.mapping[Source][y] =
            IF y = f.external THEN e ELSE work.mapping[Source][y]
    BY <1>2, <1>3, <1>5, Fields
  <1>8. \A t \in Sources, g \in EventIds :
          /\ work'.missing[t][g] =
                IF t = Source /\ g = e THEN None ELSE work.missing[t][g]
          /\ work'.absent[t][g] =
                IF t = Source /\ g = e THEN {} ELSE work.absent[t][g]
    BY <1>2, <1>3, <1>5, Fields
  <1> QED
    BY <1>4, <1>6, <1>7, <1>8 DEF row

\* Writing what is there already changes nothing.
LEMMA SameIsIdle ==
    ASSUME IInv, tx # None, NEW f \in tx.todo, NEW e \in EventIds, Deliver(f, e),
           Target(work.event[e], f) = work.event[e], Mapped(f) = e,
           work.missing[Source][e] = None, work.absent[Source][e] = {}
    PROVE  work' = work
  <1>1. f.external \in Externals /\ Source \in Sources
    BY OpenTransaction, MappedTo
  <1>2. work \in Databases
    BY DEF IInv, TypeOK
  <1>3. [work.event EXCEPT ![e] = Target(work.event[e], f)] = work.event
    BY <1>2, Fields
  <1>4. [work.mapping EXCEPT ![Source][f.external] = e] = work.mapping
    BY <1>1, <1>2, Fields DEF Mapped
  <1>5. [work.missing EXCEPT ![Source][e] = None] = work.missing
    BY <1>1, <1>2, Fields
  <1>6. [work.absent EXCEPT ![Source][e] = {}] = work.absent
    BY <1>1, <1>2, Fields
  <1>7. work = [event |-> work.event, mapping |-> work.mapping,
                missing |-> work.missing, absent |-> work.absent]
    BY <1>2 DEF Databases
  <1>8. work' = [event |-> [work.event EXCEPT ![e] = Target(work.event[e], f)],
                 mapping |-> [work.mapping EXCEPT ![Source][f.external] = e],
                 missing |-> [work.missing EXCEPT ![Source][e] = None],
                 absent |-> [work.absent EXCEPT ![Source][e] = {}]]
    BY DeliverWrites
  <1>9. work' = [event |-> work.event, mapping |-> work.mapping,
                 missing |-> work.missing, absent |-> work.absent]
    BY <1>3, <1>4, <1>5, <1>6, <1>8, Zenon
  <1> QED
    BY <1>7, <1>9

-----------------------------------------------------------------------------
(* The invariant of a plan through the transaction.                         *)

\* A plan depends on the committed database and the grants alone.
LEMMA SamePlan ==
    ASSUME db' = db, authority' = authority, NEW s, NEW f
    PROVE  Plannable(s, f)' <=> Plannable(s, f)
  <1>1. Known(s, f)' = Known(s, f)
    BY DEF Known
  <1>2. Shared(s, f)' <=> Shared(s, f)
    BY <1>1 DEF Shared
  <1>3. MappedAlone(s, f)' <=> MappedAlone(s, f)
    BY <1>1, <1>2 DEF MappedAlone, Key
  <1>4. NewMatch(s, f)' <=> NewMatch(s, f)
    BY DEF NewMatch, Key
  <1> QED
    BY <1>1, <1>3, <1>4 DEF Plannable

\* While fixtures wait, what the transaction has written stays theirs.
LEMMA PackageStep ==
    ASSUME IInv, PlanInv, tx # None, NEW f \in tx.todo,
           NEW delivered \in SUBSET EventIds, Done(f, delivered),
           NothingMissed(work'),
           Applying => \A e \in EventIds : work'.event[e] # work.event[e] =>
                          /\ e = Key(Source, f) /\ f.pair # None
                          /\ work'.event[e] # None
                          /\ work'.event[e].pair = f.pair
                          /\ work'.event[e].stage = f.stage,
           Applying => \A y \in Externals :
                          work'.mapping[Source][y] # work.mapping[Source][y] => y = f.external
    PROVE  PlanInv'
  <1>1. /\ tx' # None /\ tx'.observation = tx.observation /\ Source' = Source
    BY MovedOn
  <1>2. tx'.todo = tx.todo \ {f}
    BY OpenTransaction DEF Done, Transactions
  <1>3. db' = db /\ authority' = authority
    BY DEF Done
  <1>4. tx.todo \subseteq tx.observation.fixtures
    BY DEF IInv, TransactionInv
  <1>5. Applying' => Applying
    BY <1>1 DEF Applying
  <1>6. ASSUME Applying
        PROVE  PackageInv'
    <2>1. PackageInv
      BY <1>6 DEF PlanInv
    <2>2. (Boundary = None)'
      BY <1>1, <2>1 DEF PackageInv, Boundary
    <2>3. (\A g, h \in tx.observation.fixtures : g.external = h.external => g = h)'
      BY <1>1, <2>1 DEF PackageInv
    <2>4. Accepted(tx.observation)'
      BY <1>1, <1>3, <2>1, SamePlan DEF PackageInv, Accepted
    <2>5. Taken' = Taken \cup {f}
      BY <1>1, <1>2, <1>4 DEF Taken
    <2>6. (\A e \in EventIds :
              work.event[e] # db.event[e] => \E g \in Taken : Written(g, e))'
      <3>1. SUFFICES ASSUME NEW e \in EventIds, work'.event[e] # db.event[e]
                     PROVE  \E g \in Taken \cup {f} : Written(g, e)'
        BY <1>3, <2>5
      <3>2. CASE work'.event[e] # work.event[e]
        BY <1>1, <1>6, <3>2 DEF Written, Key
      <3>3. CASE work'.event[e] = work.event[e]
        <4>1. PICK g \in Taken : Written(g, e)
          BY <2>1, <3>1, <3>3 DEF PackageInv
        <4>2. Written(g, e)'
          BY <1>1, <3>3, <4>1 DEF Written, Key
        <4> QED
          BY <4>2
      <3> QED
        BY <3>2, <3>3
    <2>7. (\A g \in tx.todo : Mapped(g) = Known(Source, g))'
      <3>1. SUFFICES ASSUME NEW g \in tx.todo, g # f
                     PROVE  work'.mapping[Source][g.external] = db.mapping[Source][g.external]
        BY <1>1, <1>2, <1>3 DEF Mapped, Known
      <3>2. g.external # f.external
        BY <1>4, <2>1, <3>1 DEF PackageInv
      <3>3. g.external \in Externals
        BY MappedTo
      <3>4. work.mapping[Source][g.external] = db.mapping[Source][g.external]
        BY <2>1 DEF PackageInv, Mapped, Known
      <3> QED
        BY <1>6, <3>2, <3>3, <3>4
    <2> QED
      BY <2>2, <2>3, <2>4, <2>6, <2>7 DEF PackageInv
  <1> QED
    BY <1>3, <1>5, <1>6 DEF PlanInv, NothingMissed

\* What a waiting fixture of a package finds is what its plan was made of.
LEMMA AsPlanned ==
    ASSUME IInv, PlanInv, Applying, NEW f \in tx.todo
    PROVE  /\ Source \in Sources /\ Source \in Manual
           /\ f \in FixtureRecords /\ f.external \in Externals
           /\ f \in tx.observation.fixtures
           /\ Key(Source, f) \in EventIds
           /\ f.stage # None /\ f.stage \in authority[Source]
           /\ Mapped(f) = Known(Source, f)
           /\ Plannable(Source, f)
           /\ work.event[Key(Source, f)] = db.event[Key(Source, f)]
  <1>1. /\ Source \in Sources /\ Source \in Manual
        /\ f \in FixtureRecords /\ f.external \in Externals
        /\ f \in tx.observation.fixtures
        /\ f.stage \in authority[Source]
    BY OpenTransaction, MappedTo DEF Applying, IInv, TransactionInv
  <1>2. f.stage # None
    BY <1>1 DEF PlanInv
  <1>3. Key(Source, f) \in EventIds
    BY <1>1 DEF Key, EventIds
  <1>4. PackageInv
    BY DEF PlanInv
  <1>5. Mapped(f) = Known(Source, f) /\ Plannable(Source, f)
    BY <1>1, <1>4 DEF PackageInv, Accepted, Source
  <1>6. work.event[Key(Source, f)] = db.event[Key(Source, f)]
    <2> SUFFICES ASSUME work.event[Key(Source, f)] # db.event[Key(Source, f)]
                 PROVE  FALSE
      OBVIOUS
    <2>1. PICK g \in Taken : Written(g, Key(Source, f))
      BY <1>3, <1>4 DEF PackageInv
    <2>2. g.external = f.external
      BY <2>1 DEF Written, Key
    <2> QED
      BY <1>1, <1>4, <2>1, <2>2 DEF PackageInv, Taken
  <1> QED
    BY <1>1, <1>2, <1>3, <1>5, <1>6

\* A mapped fixture of a package is mapped to its own key, which exists.
LEMMA MappedToKey ==
    ASSUME IInv, PlanInv, Applying, NEW f \in tx.todo, Mapped(f) # None
    PROVE  /\ Mapped(f) = Key(Source, f)
           /\ Known(Source, f) = Key(Source, f)
           /\ ~Shared(Source, f)
           /\ db.event[Key(Source, f)].stage \in authority[Source]
           /\ db.event[Key(Source, f)] \in Events
  <1>1. MappedAlone(Source, f) /\ Mapped(f) = Known(Source, f)
    BY AsPlanned DEF Plannable
  <1>2. db.event[Key(Source, f)] # None
    <2>1. db.mapping[Source][f.external] = Key(Source, f)
      BY <1>1 DEF MappedAlone, Known
    <2>2. Key(Source, f) # None
      BY <1>1 DEF MappedAlone
    <2> QED
      BY <2>1, <2>2, AsPlanned DEF IInv, DatabaseInv, Exact
  <1>3. db.event[Key(Source, f)] \in Events
    BY <1>2, AsPlanned, Fields DEF IInv, DatabaseInv
  <1> QED
    BY <1>1, <1>3 DEF MappedAlone

-----------------------------------------------------------------------------
(* Every step preserves the invariant.                                      *)

\* An unresolved or unscheduled fixture only takes its turn.
LEMMA PlanDeferred ==
    ASSUME IInv, PlanInv, NEW f, DeferUnresolved(f) \/ DeferUnscheduled(f)
    PROVE  PlanInv'
  <1>1. tx # None /\ f \in tx.todo /\ work' = work
    BY DEF DeferUnresolved, DeferUnscheduled, Turn
  <1>2. PICK delivered \in SUBSET EventIds : Done(f, delivered)
    BY <1>1, MappedTo DEF DeferUnresolved, DeferUnscheduled
  <1>3. NothingMissed(work')
    BY <1>1 DEF PlanInv
  <1> QED
    BY <1>1, <1>2, <1>3, PackageStep

\* A new fixture writes its own key.
LEMMA PlanCreated ==
    ASSUME IInv, PlanInv, NEW f, Create(f)
    PROVE  PlanInv'
  <1>1. /\ tx # None /\ f \in tx.todo /\ f.pair # None /\ f.kickoff # None
        /\ Done(f, {<<Source, f.external>>})
    BY DEF Create, Turn
  <1>2. /\ f \in FixtureRecords /\ f.stage \in Season
        /\ <<Source, f.external>> \in EventIds
    BY <1>1, OpenTransaction, MappedTo DEF EventIds
  <1>3. NothingMissed(work')
    <2>1. work'.missing = work.missing /\ work'.absent = work.absent
      BY CreateWrites
    <2> QED
      BY <2>1 DEF PlanInv, NothingMissed
  <1>4. \A e \in EventIds : work'.event[e] # work.event[e] =>
           /\ e = Key(Source, f)
           /\ work'.event[e] # None
           /\ work'.event[e].pair = f.pair
           /\ work'.event[e].stage = f.stage
    <2> DEFINE row == [pair |-> f.pair, stage |-> f.stage, start |-> f.kickoff,
                       deleted |-> FALSE]
    <2>1. row \in Events /\ row.pair = f.pair /\ row.stage = f.stage
      BY <1>1, <1>2 DEF FixtureRecords, Events
    <2>2. row # None
      BY <2>1, RowAssumption
    <2>3. \A e \in EventIds : work'.event[e] # work.event[e] =>
             e = <<Source, f.external>> /\ work'.event[e] = row
      BY CreateWrites
    <2> HIDE DEF row
    <2> QED
      BY <2>1, <2>2, <2>3 DEF Key
  <1>5. \A y \in Externals :
           work'.mapping[Source][y] # work.mapping[Source][y] => y = f.external
    BY CreateWrites
  <1>6. {<<Source, f.external>>} \in SUBSET EventIds
    BY <1>2
  <1> DEFINE delivered == {<<Source, f.external>>}
  <1>7. Done(f, delivered) /\ delivered \in SUBSET EventIds
    BY <1>1, <1>6
  <1> HIDE DEF delivered
  <1> QED
    BY <1>1, <1>3, <1>4, <1>5, <1>7, PackageStep

\* What a delivery writes of an event that is there.
LEMMA TargetRow ==
    ASSUME IInv, NEW f \in FixtureRecords, NEW row \in Events, f.pair # None
    PROVE  /\ Target(row, f) \in Events
           /\ Target(row, f) # None
           /\ Target(row, f).pair = f.pair
           /\ f.stage # None => Target(row, f).stage = f.stage
  <1>1. /\ Target(row, f) \in Events
        /\ Target(row, f).pair = f.pair
        /\ f.stage # None => Target(row, f).stage = f.stage
    BY DEF Target, FixtureRecords, Events, Season
  <1>2. Target(row, f) # None
    BY <1>1, RowAssumption
  <1> QED
    BY <1>1, <1>2

\* A mapped fixture of a package writes its own key.
LEMMA PlanUpdated ==
    ASSUME IInv, PlanInv, NEW f, Update(f)
    PROVE  PlanInv'
  <1> DEFINE e == Mapped(f)
  <1>1. /\ tx # None /\ f \in tx.todo /\ f.pair # None /\ e # None
        /\ Deliver(f, e)
    BY DEF Update, Turn
  <1>2. e \in EventIds /\ Done(f, {e})
    BY <1>1, MappedTo DEF Deliver
  <1>3. NothingMissed(work')
    BY <1>1, <1>2, DeliverWrites, ManualAssumption DEF PlanInv, NothingMissed
  <1>4. ASSUME Applying, NEW g \in EventIds, work'.event[g] # work.event[g]
        PROVE  /\ g = Key(Source, f)
               /\ work'.event[g] # None
               /\ work'.event[g].pair = f.pair
               /\ work'.event[g].stage = f.stage
    <2>1. g = e /\ work'.event[g] = Target(work.event[e], f)
      BY <1>1, <1>2, <1>4, DeliverWrites
    <2>2. e = Key(Source, f) /\ work.event[e] \in Events
      BY <1>1, <1>4, AsPlanned, MappedToKey
    <2>3. f \in FixtureRecords /\ f.stage # None
      BY <1>1, <1>4, AsPlanned
    <2> QED
      BY <1>1, <2>1, <2>2, <2>3, TargetRow
  <1>5. \A y \in Externals :
           work'.mapping[Source][y] # work.mapping[Source][y] => y = f.external
    BY <1>1, <1>2, DeliverWrites
  <1> HIDE DEF e
  <1> QED
    BY <1>1, <1>2, <1>3, <1>4, <1>5, PackageStep

\* A package adopts nothing.
LEMMA PlanAdopted ==
    ASSUME IInv, PlanInv, NEW f, Adopt(f)
    PROVE  PlanInv'
  <1>1. /\ tx # None /\ f \in tx.todo
    BY DEF Adopt, Turn
  <1>2. PICK e \in EventIds : CrossSource(f) = {e} /\ Deliver(f, e)
    BY DEF Adopt
  <1>3. ~Applying
    BY <1>2 DEF CrossSource, Applying
  <1>4. NothingMissed(work')
    BY <1>1, <1>2, DeliverWrites, ManualAssumption DEF PlanInv, NothingMissed
  <1>5. Done(f, {e})
    BY <1>2 DEF Deliver
  <1> QED
    BY <1>1, <1>3, <1>4, <1>5, PackageStep

\* A package is committed as written; another source counts its own absences.
LEMMA PlanCommitted ==
    ASSUME IInv, PlanInv, Commit
    PROVE  PlanInv'
  <1>1. /\ tx # None /\ tx' = None /\ work' = db' /\ authority' = authority
        /\ db' = IF Boundary = None THEN work ELSE Reconciled
    BY DEF Commit
  <1>2. NothingMissed(db')
    <2>1. CASE Boundary = None
      BY <1>1, <2>1 DEF PlanInv
    <2>2. CASE Boundary # None
      <3>1. Source \notin Manual
        BY <1>1, <2>2 DEF PlanInv, Applying, PackageInv
      <3>2. /\ work \in Databases /\ Source \in Sources
        BY <1>1, OpenTransaction DEF IInv, TypeOK
      <3>3. \A s \in Manual : /\ Reconciled.missing[s] = work.missing[s]
                              /\ Reconciled.absent[s] = work.absent[s]
        BY <3>1, <3>2, ManualAssumption DEF Reconciled, Databases
      <3> QED
        BY <1>1, <2>2, <3>3 DEF PlanInv, NothingMissed
    <2> QED
      BY <2>1, <2>2
  <1>3. ~Applying'
    BY <1>1 DEF Applying
  <1> QED
    BY <1>1, <1>2, <1>3 DEF PlanInv

\* A rollback, and a grant, leave the rows as committed.
LEMMA PlanOutside ==
    ASSUME IInv, PlanInv,
           \/ Rollback
           \/ \E s \in Sources, stages \in Grants : Assign(s, stages)
    PROVE  PlanInv'
  <1>1. NothingMissed(db)' /\ NothingMissed(work)' /\ ~Applying'
    BY DEF Rollback, Assign, PlanInv, NothingMissed, Applying
  <1>2. \A s \in Manual : None \notin authority'[s]
    <2>1. CASE Rollback
      BY <2>1 DEF Rollback, PlanInv
    <2>2. ASSUME NEW t \in Sources, NEW stages \in Grants, Assign(t, stages)
          PROVE  \A s \in Manual : None \notin authority'[s]
      <3>1. authority \in [Sources -> Grants]
        BY DEF IInv, TypeOK
      <3>2. authority' = [authority EXCEPT ![t] = stages]
        BY <2>2 DEF Assign
      <3>3. t \in Manual => None \notin stages
        BY <2>2, NoneAssumption DEF Assign, Grants
      <3> QED
        BY <3>1, <3>2, <3>3, ManualAssumption DEF PlanInv
    <2> QED
      BY <2>1, <2>2
  <1> QED
    BY <1>1, <1>2 DEF PlanInv

\* A package is opened as it was accepted.
LEMMA PlanOpened ==
    ASSUME IInv, PlanInv, NEW o \in Observable, BeginReviewed(o)
    PROVE  PlanInv'
  <1>1. /\ tx = None /\ Valid(o)
        /\ o.source \in Manual => Accepted(o)
        /\ tx' = [observation |-> o, todo |-> o.fixtures, seen |-> {}]
        /\ work' = work /\ db' = db /\ authority' = authority
    BY DEF BeginReviewed, Begin
  <1>2. /\ tx'.observation = o /\ tx'.todo = o.fixtures /\ work = db
    BY <1>1 DEF IInv, TransactionInv
  <1>3. ASSUME Applying'
        PROVE  PackageInv'
    <2>1. o.source \in Manual
      BY <1>2, <1>3 DEF Applying, Source
    <2>2. (Boundary = None)'
      BY <1>1, <1>2, <2>1 DEF Valid, Boundary
    <2>3. (\A f, g \in tx.observation.fixtures : f.external = g.external => f = g)'
      BY <1>1, <1>2 DEF Valid
    <2>4. Accepted(tx.observation)'
      BY <1>1, <1>2, <2>1, SamePlan DEF Accepted
    <2>5. (\A e \in EventIds :
              work.event[e] # db.event[e] => \E f \in Taken : Written(f, e))'
      BY <1>1, <1>2
    <2>6. (\A f \in tx.todo : Mapped(f) = Known(Source, f))'
      BY <1>1, <1>2 DEF Mapped, Known
    <2> QED
      BY <2>2, <2>3, <2>4, <2>5, <2>6 DEF PackageInv
  <1> QED
    BY <1>1, <1>3 DEF PlanInv, NothingMissed

\* A stuttering step.
LEMMA PlanIdle ==
    ASSUME PlanInv, UNCHANGED vars
    PROVE  PlanInv'
  <1>1. /\ db' = db /\ work' = work /\ tx' = tx /\ authority' = authority
    BY DEF vars
  <1>2. Accepted(tx.observation)' <=> Accepted(tx.observation)
    BY <1>1, SamePlan DEF Accepted
  <1> QED
    BY <1>1, <1>2 DEF PlanInv, NothingMissed, Applying, PackageInv, Taken, Written, Key,
                      Source, Boundary, Mapped, Known

-----------------------------------------------------------------------------

(* The inductive invariant: what the open transaction of a package has      *)
(* written belongs to the fixtures it has taken, and every fixture that     *)
(* waits still finds the rows its plan was made of.                         *)
THEOREM PlanInductive == PreviewedSpec => [](IInv /\ PlanInv)
  <1>1. Init => PlanInv
    <2>1. EmptyDatabase.missing = [s \in Sources |-> [e \in EventIds |-> None]]
      BY DEF EmptyDatabase
    <2>2. EmptyDatabase.absent = [s \in Sources |-> [e \in EventIds |-> {}]]
      BY DEF EmptyDatabase
    <2>3. NothingMissed(EmptyDatabase)
      BY <2>1, <2>2, ManualAssumption DEF NothingMissed
    <2> QED
      BY <2>3, ManualAssumption DEF Init, PlanInv, Applying
  <1>2. IInv /\ PlanInv /\ [PreviewedNext]_vars => PlanInv'
    <2> SUFFICES ASSUME IInv, PlanInv, [PreviewedNext]_vars
                 PROVE  PlanInv'
      OBVIOUS
    <2>1. ASSUME NEW s \in Sources, NEW stages \in Grants, Assign(s, stages)
          PROVE  PlanInv'
      BY <2>1, PlanOutside
    <2>2. ASSUME NEW o \in Observable, BeginReviewed(o)
          PROVE  PlanInv'
      BY <2>2, PlanOpened
    <2>3. ASSUME NEW f \in FixtureRecords, ImportFixture(f)
          PROVE  PlanInv'
      BY <2>3, PlanDeferred, PlanCreated, PlanUpdated, PlanAdopted DEF ImportFixture
    <2>4. CASE Commit
      BY <2>4, PlanCommitted
    <2>5. CASE Rollback
      BY <2>5, PlanOutside
    <2>6. CASE UNCHANGED vars
      BY <2>6, PlanIdle
    <2> QED
      BY <2>1, <2>2, <2>3, <2>4, <2>5, <2>6 DEF PreviewedNext
  <1>3. PreviewedSpec => []IInv
    BY ReviewedIsImport, Inductive
  <1> QED
    BY <1>1, <1>2, <1>3, PTL DEF PreviewedSpec

-----------------------------------------------------------------------------
(* A package is imported as planned.                                        *)

\* Every fixture that waits can be written.
LEMMA WaitingFits ==
    ASSUME IInv, PlanInv
    PROVE  PlanFits
  <1>1. SUFFICES ASSUME Applying, NEW f \in tx.todo
                 PROVE  Fits(f)
    BY DEF PlanFits
  <1>2. ASSUME Mapped(f) # None
        PROVE  work.event[Mapped(f)].stage \in authority[Source]
    BY <1>1, <1>2, AsPlanned, MappedToKey
  <1>3. ASSUME Decision(Source, f) = "CREATE"
        PROVE  work.event[Key(Source, f)] = None
    <2>1. Known(Source, f) = None
      BY <1>3 DEF Decision
    <2>2. NewMatch(Source, f)
      BY <1>1, <2>1, AsPlanned DEF Plannable
    <2> QED
      BY <1>1, <2>2, AsPlanned DEF NewMatch
  <1> QED
    BY <1>2, <1>3 DEF Fits

\* A step of the transaction makes of a fixture what was planned for it.
LEMMA ImportedAsDecided ==
    ASSUME IInv, PlanInv, Applying, NEW f, ImportFixture(f)
    PROVE  f \in tx.todo /\ Decision(Source, f) \in Outcome(f)
  <1>1. f \in tx.todo /\ tx # None
    BY DEF ImportFixture, DeferUnresolved, DeferUnscheduled, Create, Update, Adopt, Turn
  <1>2. Mapped(f) = Known(Source, f)
    BY <1>1, AsPlanned
  <1>3. CASE DeferUnresolved(f)
    <2>1. work' = work /\ f.pair = None
      BY <1>3 DEF DeferUnresolved
    <2> QED
      BY <1>1, <2>1 DEF Decision, Outcome
  <1>4. CASE DeferUnscheduled(f)
    <2>1. work' = work /\ f.pair # None /\ Mapped(f) = None /\ f.kickoff = None
      BY <1>4 DEF DeferUnscheduled
    <2>2. Decision(Source, f) = "DEFER"
      BY <1>2, <2>1 DEF Decision
    <2> QED
      BY <1>1, <2>1, <2>2 DEF Outcome
  <1>5. CASE Create(f)
    <2>1. f.pair # None /\ Mapped(f) = None /\ f.kickoff # None
      BY <1>5 DEF Create
    <2>2. work' # work
      BY <1>5, CreateWrites
    <2>3. Decision(Source, f) = "CREATE"
      BY <1>2, <2>1 DEF Decision
    <2> QED
      BY <1>1, <2>1, <2>2, <2>3 DEF Outcome
  <1>6. CASE Update(f)
    <2> DEFINE e == Mapped(f)
    <2>1. f.pair # None /\ e # None /\ Deliver(f, e)
      BY <1>6 DEF Update
    <2>2. /\ e = Key(Source, f) /\ Known(Source, f) = e
          /\ e \in EventIds /\ db.event[e] \in Events
          /\ work.event[e] = db.event[e]
          /\ Source \in Manual
      BY <1>1, <2>1, AsPlanned, MappedToKey
    <2>3. CASE Target(db.event[e], f) = db.event[e]
      <3>1. work.missing[Source][e] = None /\ work.absent[Source][e] = {}
        BY <2>2 DEF PlanInv, NothingMissed
      <3>2. work' = work
        BY <1>1, <2>1, <2>2, <2>3, <3>1, SameIsIdle
      <3>3. Decision(Source, f) = "SKIP"
        BY <2>1, <2>2, <2>3 DEF Decision
      <3> QED
        BY <1>1, <3>2, <3>3 DEF Outcome
    <2>4. CASE Target(db.event[e], f) # db.event[e]
      <3>1. work'.event[e] = Target(work.event[e], f)
        BY <1>1, <2>1, <2>2, DeliverWrites
      <3>2. work' # work
        BY <2>2, <2>4, <3>1
      <3>3. Decision(Source, f) = "UPDATE"
        BY <2>1, <2>2, <2>4 DEF Decision
      <3> QED
        BY <1>1, <2>1, <3>2, <3>3 DEF Outcome
    <2> QED
      BY <2>3, <2>4
  <1>7. ~Adopt(f)
    <2>1. CrossSource(f) = {}
      BY DEF CrossSource, Applying
    <2> QED
      BY <2>1 DEF Adopt
  <1> QED
    BY <1>3, <1>4, <1>5, <1>6, <1>7 DEF ImportFixture

(* The importer, which sees the database while the other fixtures of the    *)
(* package are written, decides as the planner did before the first of      *)
(* them, and refuses nothing: "Canonical outcome differs from reviewed      *)
(* plan" is unreachable.                                                    *)
THEOREM PlansAreImported == PreviewedSpec => PlanIsImported
  <1>1. IInv /\ PlanInv => PlanFits
    BY WaitingFits
  <1>2. IInv /\ PlanInv /\ [PreviewedNext]_vars => [Follows]_vars
    <2> SUFFICES ASSUME IInv, PlanInv, PreviewedNext, Applying, tx' # None,
                        NEW f \in tx.todo \ tx'.todo
                 PROVE  Decision(Source, f) \in Outcome(f)
      BY DEF Follows
    <2>1. PICK g \in FixtureRecords : ImportFixture(g)
      BY DEF PreviewedNext, Assign, BeginReviewed, Begin, Commit, Rollback, Applying
    <2>2. tx'.todo = tx.todo \ {g}
      <3>1. \E delivered : Done(g, delivered)
        BY <2>1 DEF ImportFixture, DeferUnresolved, DeferUnscheduled, Create, Update,
                    Adopt, Deliver
      <3> QED
        BY <3>1, OpenTransaction DEF Done, Transactions, Applying
    <2> QED
      BY <2>1, <2>2, ImportedAsDecided
  <1> QED
    BY <1>1, <1>2, PlanInductive, PTL DEF PreviewedSpec, PlanIsImported

-----------------------------------------------------------------------------
(* What a package never does.                                               *)

\* Only a commit changes the database, and a package is committed as written.
LEMMA PackagePublished ==
    ASSUME IInv, PlanInv, PreviewedNext, Applying, db' # db,
           NEW e \in EventIds, db'.event[e] # db.event[e]
    PROVE  \E f \in tx.observation.fixtures :
              /\ e = Key(Source, f) /\ f.pair # None
              /\ db'.event[e] # None
              /\ db'.event[e].pair = f.pair /\ db'.event[e].stage = f.stage
              /\ Plannable(Source, f)
  <1>1. PackageInv
    BY DEF PlanInv
  <1>2. Commit
    <2>1. \A f : ImportFixture(f) => db' = db
      <3>1. \A f, delivered : Done(f, delivered) => db' = db
        BY DEF Done
      <3>2. \A f : DeferUnresolved(f) \/ DeferUnscheduled(f) \/ Create(f) => db' = db
        BY <3>1 DEF DeferUnresolved, DeferUnscheduled, Create
      <3>3. \A f, g : Deliver(f, g) => db' = db
        BY <3>1 DEF Deliver
      <3> QED
        BY <3>2, <3>3 DEF ImportFixture, Update, Adopt
    <2>2. \A s, stages : Assign(s, stages) => db' = db
      BY DEF Assign
    <2>3. \A o : BeginReviewed(o) => db' = db
      BY DEF BeginReviewed, Begin
    <2>4. Rollback => db' = db
      BY DEF Rollback
    <2> QED
      BY <2>1, <2>2, <2>3, <2>4 DEF PreviewedNext
  <1>3. db' = work
    BY <1>1, <1>2 DEF Commit, PackageInv
  <1>4. PICK f \in Taken : Written(f, e)
    BY <1>1, <1>3 DEF PackageInv
  <1>5. f \in tx.observation.fixtures
    BY <1>4 DEF Taken
  <1>6. Plannable(Source, f)
    BY <1>1, <1>5 DEF PackageInv, Accepted, Source
  <1> QED
    BY <1>3, <1>4, <1>5, <1>6 DEF Written

(* No package changes an event another source has mapped, though the stage  *)
(* was handed to that source and back since the package's own mapping.      *)
THEOREM SharedStaysUntouched == PreviewedSpec => SharedIsUntouched
  <1>1. IInv /\ PlanInv /\ [PreviewedNext]_vars =>
          [Applying /\ db' # db =>
              \A e \in EventIds, t \in Sources \ {Source} :
                  db'.event[e] # db.event[e] => e \notin MappedBy(db, t)]_vars
    <2> SUFFICES ASSUME IInv, PlanInv, PreviewedNext, Applying, db' # db,
                        NEW e \in EventIds, NEW t \in Sources \ {Source},
                        db'.event[e] # db.event[e], e \in MappedBy(db, t)
                 PROVE  FALSE
      OBVIOUS
    <2>1. PICK f \in tx.observation.fixtures :
              e = Key(Source, f) /\ Plannable(Source, f)
      BY PackagePublished
    <2>2. PICK y \in Externals : db.mapping[t][y] = e /\ e # None
      BY DEF MappedBy
    <2>3. db.event[e] # None
      BY <2>2 DEF IInv, DatabaseInv, Exact
    <2>4. CASE Known(Source, f) # None
      <3>1. Known(Source, f) = e /\ ~Shared(Source, f)
        BY <2>1, <2>4 DEF Plannable, MappedAlone
      <3>2. <<t, y>> # <<Source, f.external>>
        OBVIOUS
      <3> QED
        BY <2>2, <3>1, <3>2 DEF Shared
    <2>5. CASE Known(Source, f) = None
      BY <2>1, <2>3, <2>5 DEF Plannable, NewMatch
    <2> QED
      BY <2>4, <2>5
  <1> QED
    BY <1>1, PlanInductive, PTL DEF PreviewedSpec, SharedIsUntouched

(* No package adds a second event for the same participants in the same     *)
(* stage, neither to an event that is there nor within itself.              *)
THEOREM NoTwins == PreviewedSpec => NoTwinIsCreated
  <1>1. IInv /\ PlanInv /\ [PreviewedNext]_vars =>
          [Applying /\ db' # db =>
              \A e1, e2 \in EventIds :
                  e1 # e2 /\ db.event[e1] = None => ~Twins(db', e1, e2)]_vars
    <2> SUFFICES ASSUME IInv, PlanInv, PreviewedNext, Applying, db' # db,
                        NEW e1 \in EventIds, NEW e2 \in EventIds,
                        e1 # e2, db.event[e1] = None, Twins(db', e1, e2)
                 PROVE  FALSE
      OBVIOUS
    <2>1. /\ db'.event[e1] # None /\ db'.event[e2] # None
          /\ db'.event[e1].pair = db'.event[e2].pair
          /\ db'.event[e1].stage = db'.event[e2].stage
      BY DEF Twins
    <2>2. PICK f \in tx.observation.fixtures :
              /\ e1 = Key(Source, f) /\ f.pair # None
              /\ db'.event[e1].pair = f.pair /\ db'.event[e1].stage = f.stage
              /\ Plannable(Source, f)
      BY <2>1, PackagePublished
    <2>3. NewMatch(Source, f)
      <3>1. Known(Source, f) = None
        <4> SUFFICES ASSUME Known(Source, f) # None
                     PROVE  FALSE
          OBVIOUS
        <4>1. db.mapping[Source][f.external] = e1
          BY <2>2 DEF Plannable, MappedAlone, Known
        <4>2. Source \in Sources /\ f.external \in Externals
          BY <2>2, OpenTransaction DEF Applying, Observations, FixtureRecords
        <4> QED
          BY <4>1, <4>2 DEF IInv, DatabaseInv, Exact, Known
      <3> QED
        BY <2>2, <3>1 DEF Plannable
    <2>4. CASE db'.event[e2] = db.event[e2]
      BY <2>1, <2>2, <2>3, <2>4 DEF NewMatch
    <2>5. CASE db'.event[e2] # db.event[e2]
      <3>1. PICK g \in tx.observation.fixtures :
                /\ e2 = Key(Source, g)
                /\ db'.event[e2].pair = g.pair /\ db'.event[e2].stage = g.stage
        BY <2>5, PackagePublished
      <3>2. f # g
        BY <2>2, <3>1
      <3>3. Distinct(tx.observation.fixtures)
        BY DEF PlanInv, PackageInv, Accepted
      <3> QED
        BY <2>1, <2>2, <3>1, <3>2, <3>3 DEF Distinct
    <2> QED
      BY <2>4, <2>5
  <1> QED
    BY <1>1, PlanInductive, PTL DEF PreviewedSpec, NoTwinIsCreated

-----------------------------------------------------------------------------
(* Importing an observation again.                                          *)
(*                                                                          *)
(* Nothing that was imported tells an observation apart from its replay,    *)
(* which takes its fixtures in another order.  What makes the replay idle   *)
(* is a property of the committed database: every fixture finds what it     *)
(* would write, and every event the observation lacks was counted missing.  *)

\* Taken once more, a fixture writes nothing: its event has its values, or it
\* cannot create one, and all it could adopt is known by other IDs.
Kept(d, s, f) ==
    f.pair # None =>
        IF d.mapping[s][f.external] # None
        THEN /\ Target(d.event[d.mapping[s][f.external]], f)
                    = d.event[d.mapping[s][f.external]]
             /\ d.missing[s][d.mapping[s][f.external]] = None
        ELSE /\ f.kickoff = None
             /\ s \notin Manual => \A e \in EventIds :
                   d.event[e] # None /\ d.event[e].pair = f.pair =>
                       e \in MappedBy(d, s)

Seen(d, s, fixtures) == {d.mapping[s][f.external] : f \in fixtures} \ {None}

Counted(d, o) == \A e \in MappedBy(d, o.source) :
    /\ d.event[e].stage \in o.boundary
    /\ d.event[e].start \in o.window
    /\ e \notin Seen(d, o.source, o.fixtures)
    => d.missing[o.source][e] # None /\ ~(d.missing[o.source][e].at < o.at)

Settled(d, o) ==
    /\ \A f \in o.fixtures : Kept(d, o.source, f)
    /\ o.boundary # None => Counted(d, o)

\* An absence is counted of an event that is there.
Recorded(d) == \A s \in Sources, e \in EventIds :
    d.missing[s][e] # None => d.event[e] # None

TakenInv ==
    /\ \A f, g \in tx.observation.fixtures : f.external = g.external => f = g
    /\ \A f \in Taken : Kept(work, Source, f)
    /\ tx.seen = Seen(work, Source, Taken)

SameTables ==
    /\ work.event = db.event
    /\ work.mapping = db.mapping
    /\ work.missing = db.missing

ReplayInv ==
    /\ Recorded(db) /\ Recorded(work)
    /\ tx # None => TakenInv
    /\ last # None => Settled(db, last)
    /\ tx # None /\ tx.observation = last => SameTables

LEMMA SettledNext == (Settled(db, last))' <=> Settled(db', last')
  BY DEF Settled, Kept, Seen, Counted, MappedBy, Target

\* Delivering twice writes what delivering once does.
LEMMA TargetTwice ==
    ASSUME NEW row, NEW f
    PROVE  Target(Target(row, f), f) = Target(row, f)
  <1>1. /\ Target(row, f).stage = IF f.stage # None THEN f.stage ELSE row.stage
        /\ Target(row, f).start = IF f.kickoff # None THEN f.kickoff ELSE row.start
    BY DEF Target
  <1>2. \A r : Target(r, f) = [
          pair |-> f.pair,
          stage |-> IF f.stage # None THEN f.stage ELSE r.stage,
          start |-> IF f.kickoff # None THEN f.kickoff ELSE r.start,
          deleted |-> FALSE]
    BY DEF Target
  <1> QED
    BY <1>1, <1>2

\* A step that takes a fixture.
LEMMA TakenStep ==
    ASSUME IInv, ReplayInv, tx # None, NEW f \in tx.todo,
           NEW delivered \in SUBSET EventIds, Done(f, delivered),
           delivered = {work'.mapping[Source][f.external]} \ {None},
           \A y \in Externals : y # f.external =>
               work'.mapping[Source][y] = work.mapping[Source][y],
           Kept(work', Source, f),
           \A g \in Taken : Kept(work', Source, g),
           Recorded(work'),
           tx.observation = last =>
               /\ work'.event = work.event
               /\ work'.mapping = work.mapping
               /\ work'.missing = work.missing
    PROVE  ReplayInv'
  <1>1. /\ tx' # None /\ tx'.observation = tx.observation /\ Source' = Source
    BY MovedOn
  <1>2. tx'.todo = tx.todo \ {f} /\ tx'.seen = tx.seen \cup delivered
    BY OpenTransaction DEF Done, Transactions
  <1>3. db' = db /\ authority' = authority /\ last' = last
    BY DEF Done
  <1>4. tx.todo \subseteq tx.observation.fixtures
    BY DEF IInv, TransactionInv
  <1>5. Taken' = Taken \cup {f}
    BY <1>1, <1>2, <1>4 DEF Taken
  <1>6. TakenInv
    BY DEF ReplayInv
  <1>7. \A g \in Taken : g.external \in Externals /\ g.external # f.external
    <2>1. tx.observation.fixtures \subseteq FixtureRecords
      BY OpenTransaction DEF Observations
    <2> QED
      BY <1>4, <1>6, <2>1 DEF TakenInv, Taken, FixtureRecords
  <1>8. tx'.seen = Seen(work', Source, Taken \cup {f})
    <2>1. \A g \in Taken :
             work'.mapping[Source][g.external] = work.mapping[Source][g.external]
      BY <1>7
    <2>2. Seen(work', Source, Taken) = tx.seen
      BY <1>6, <2>1 DEF TakenInv, Seen
    <2>3. Seen(work', Source, Taken \cup {f})
             = Seen(work', Source, Taken) \cup ({work'.mapping[Source][f.external]} \ {None})
      BY DEF Seen
    <2> QED
      BY <1>2, <2>2, <2>3
  <1>9. TakenInv'
    <2>1. (\A g, h \in tx.observation.fixtures : g.external = h.external => g = h)'
      BY <1>1, <1>6 DEF TakenInv
    <2>2. \A g \in Taken' : Kept(work', Source', g)
      BY <1>1, <1>5
    <2>3. tx'.seen = Seen(work', Source', Taken')
      BY <1>1, <1>5, <1>8
    <2> QED
      BY <2>1, <2>2, <2>3 DEF TakenInv, Kept, Seen, MappedBy, Target
  <1>10. (last # None => Settled(db, last))'
    BY <1>3, SettledNext DEF ReplayInv
  <1>11. Recorded(db)' /\ Recorded(work)'
    BY <1>3 DEF ReplayInv, Recorded
  <1>12. (tx # None /\ tx.observation = last => SameTables)'
    BY <1>1, <1>3 DEF ReplayInv, SameTables
  <1> QED
    BY <1>9, <1>10, <1>11, <1>12 DEF ReplayInv

\* Writing the event of one fixture keeps what was taken of the others.
LEMMA OthersKept ==
    ASSUME IInv, ReplayInv, tx # None, NEW f \in tx.todo, NEW e \in EventIds,
           \A h \in EventIds \ {e} :
               /\ work'.event[h] = work.event[h]
               /\ work'.missing[Source][h] = work.missing[Source][h],
           \A y \in Externals : work'.mapping[Source][y] =
               IF y = f.external THEN e ELSE work.mapping[Source][y],
           Mapped(f) \in {None, e},
           \A y \in Externals : work.mapping[Source][y] = e => y = f.external
    PROVE  \A g \in Taken : Kept(work', Source, g)
  <1> SUFFICES ASSUME NEW g \in Taken, g.pair # None
               PROVE  Kept(work', Source, g)
    BY DEF Kept
  <1> DEFINE x == work.mapping[Source][g.external]
  <1>1. TakenInv /\ f.external \in Externals /\ Source \in Sources /\ e # None
    BY MappedTo, OpenTransaction, RowAssumption DEF ReplayInv
  <1>2. g.external \in Externals /\ g.external # f.external
    <2>1. tx.observation.fixtures \subseteq FixtureRecords
      BY OpenTransaction DEF Observations
    <2>2. tx.todo \subseteq tx.observation.fixtures
      BY DEF IInv, TransactionInv
    <2> QED
      BY <1>1, <2>1, <2>2 DEF TakenInv, Taken, FixtureRecords
  <1>3. work'.mapping[Source][g.external] = x /\ x \in EventIds \cup {None}
    <2>1. work.mapping \in [Sources -> [Externals -> EventIds \cup {None}]]
      BY Fields DEF IInv, TypeOK
    <2> QED
      BY <1>1, <1>2, <2>1
  <1>4. Kept(work, Source, g)
    BY <1>1 DEF TakenInv
  <1>5. CASE x # None
    <2>1. x \in EventIds \ {e}
      BY <1>2, <1>3, <1>5
    <2>2. Target(work.event[x], g) = work.event[x] /\ work.missing[Source][x] = None
      BY <1>4, <1>5 DEF Kept
    <2>3. work'.event[x] = work.event[x] /\ work'.missing[Source][x] = None
      BY <2>1, <2>2
    <2> HIDE DEF x
    <2> QED
      BY <1>3, <1>5, <2>2, <2>3 DEF Kept
  <1>6. CASE x = None
    <2>1. /\ g.kickoff = None
          /\ Source \notin Manual => \A h \in EventIds :
                work.event[h] # None /\ work.event[h].pair = g.pair =>
                    h \in MappedBy(work, Source)
      BY <1>4, <1>6 DEF Kept
    <2>2. ASSUME NEW h \in EventIds, h \in MappedBy(work, Source)
          PROVE  h \in MappedBy(work', Source)
      <3>1. PICK y \in Externals : work.mapping[Source][y] = h /\ h # None
        BY <2>2 DEF MappedBy
      <3>2. CASE y = f.external
        <4>1. h = e
          BY <3>1, <3>2 DEF Mapped
        <4> QED
          BY <1>1, <4>1 DEF MappedBy
      <3>3. CASE y # f.external
        BY <3>1, <3>3 DEF MappedBy
      <3> QED
        BY <3>2, <3>3
    <2>3. e \in MappedBy(work', Source)
      BY <1>1 DEF MappedBy
    <2>4. Source \notin Manual => \A h \in EventIds :
              work'.event[h] # None /\ work'.event[h].pair = g.pair =>
                  h \in MappedBy(work', Source)
      BY <2>1, <2>2, <2>3
    <2> QED
      BY <1>3, <1>6, <2>1, <2>4 DEF Kept
  <1> QED
    BY <1>5, <1>6

\* What a replay finds of a fixture it has yet to take.
LEMMA Replayed ==
    ASSUME IInv, ReplayInv, tx # None, tx.observation = last, NEW f \in tx.todo
    PROVE  SameTables /\ Kept(work, Source, f)
  <1>1. SameTables
    BY DEF ReplayInv
  <1>2. f \in last.fixtures /\ Source = last.source
    BY DEF IInv, TransactionInv, Source
  <1>3. last # None
    BY OpenTransaction, RowAssumption
  <1>4. Kept(db, Source, f)
    BY <1>2, <1>3 DEF ReplayInv, Settled
  <1> QED
    BY <1>1, <1>4 DEF SameTables, Kept, MappedBy

LEMMA ReplayDeferred ==
    ASSUME IInv, ReplayInv, NEW f, DeferUnresolved(f) \/ DeferUnscheduled(f)
    PROVE  ReplayInv'
  <1>1. tx # None /\ f \in tx.todo /\ work' = work
    BY DEF DeferUnresolved, DeferUnscheduled, Turn
  <1>2. Mapped(f) \in EventIds \cup {None}
    BY <1>1, OpenTransaction, MappedTo
  <1>3. Done(f, {Mapped(f)} \ {None})
    <2>1. CASE DeferUnresolved(f)
      BY <2>1 DEF DeferUnresolved
    <2>2. CASE DeferUnscheduled(f)
      <3>1. Mapped(f) = None /\ Done(f, {})
        BY <2>2 DEF DeferUnscheduled
      <3>2. {Mapped(f)} \ {None} = {}
        BY <3>1
      <3> QED
        BY <3>1, <3>2
    <2> QED
      BY <2>1, <2>2
  <1>4. Kept(work, Source, f)
    BY <1>1 DEF DeferUnresolved, DeferUnscheduled, Kept, CrossSource, Mapped
  <1>5. /\ \A g \in Taken : Kept(work, Source, g)
        /\ Recorded(work)
    BY <1>1 DEF ReplayInv, TakenInv
  <1> DEFINE delivered == {Mapped(f)} \ {None}
  <1>6. delivered \in SUBSET EventIds
    BY <1>2
  <1>7. delivered = {work'.mapping[Source][f.external]} \ {None}
    BY <1>1 DEF Mapped
  <1> HIDE DEF delivered
  <1>8. Kept(work', Source, f) /\ (\A g \in Taken : Kept(work', Source, g)) /\ Recorded(work')
    BY <1>1, <1>4, <1>5
  <1> QED
    BY <1>1, <1>3, <1>6, <1>7, <1>8, TakenStep DEF delivered

LEMMA ReplayCreated ==
    ASSUME IInv, ReplayInv, NEW f, Create(f)
    PROVE  ReplayInv'
  <1> DEFINE e == <<Source, f.external>>
             row == [pair |-> f.pair, stage |-> f.stage, start |-> f.kickoff,
                     deleted |-> FALSE]
  <1>1. /\ tx # None /\ f \in tx.todo
        /\ f.pair # None /\ f.kickoff # None
        /\ Mapped(f) = None
        /\ work.event[e] = None
        /\ Done(f, {e})
        /\ work' = [work EXCEPT !.event[e] = row,
                                !.mapping[Source][f.external] = e]
    BY DEF Create, Turn
  <1>2. /\ f \in FixtureRecords /\ f.external \in Externals
        /\ f.stage \in Season /\ Source \in Sources
    BY <1>1, OpenTransaction, MappedTo
  <1>3. row \in Events /\ e \in EventIds
    BY <1>1, <1>2 DEF FixtureRecords, Events, EventIds
  <1>4. row # None /\ e # None
    BY <1>3, RowAssumption
  <1>5. Target(row, f) = row
    BY <1>1 DEF Target
  <1>6. work \in Databases
    BY DEF IInv, TypeOK
  <1> HIDE DEF e, row
  <1>7. /\ work'.event = [work.event EXCEPT ![e] = row]
        /\ work'.mapping = [work.mapping EXCEPT ![Source][f.external] = e]
        /\ work'.missing = work.missing
    BY <1>1, <1>6 DEF Databases
  <1>8. /\ \A g \in EventIds :
              work'.event[g] = IF g = e THEN row ELSE work.event[g]
        /\ \A y \in Externals : work'.mapping[Source][y] =
              IF y = f.external THEN e ELSE work.mapping[Source][y]
    BY <1>2, <1>3, <1>6, <1>7, Fields
  <1>9. \A y \in Externals : work.mapping[Source][y] # e
    BY <1>1, <1>2, <1>3, <1>4, Unmapped
  <1>10. work.missing[Source][e] = None
    BY <1>1, <1>2, <1>3 DEF ReplayInv, Recorded
  <1>11. Kept(work', Source, f)
    BY <1>2, <1>3, <1>4, <1>5, <1>7, <1>8, <1>10 DEF Kept
  <1>12. \A g \in Taken : Kept(work', Source, g)
    BY <1>1, <1>3, <1>7, <1>8, <1>9, OthersKept
  <1>13. Recorded(work')
    BY <1>4, <1>7, <1>8 DEF ReplayInv, Recorded
  <1>14. tx.observation # last
    <2> SUFFICES ASSUME tx.observation = last PROVE FALSE
      OBVIOUS
    <2>1. Kept(work, Source, f)
      BY <1>1, Replayed
    <2> QED
      BY <1>1, <2>1 DEF Kept, Mapped
  <1>15. {e} = {work'.mapping[Source][f.external]} \ {None}
    BY <1>2, <1>4, <1>8
  <1> QED
    BY <1>1, <1>3, <1>8, <1>11, <1>12, <1>13, <1>14, <1>15, TakenStep

LEMMA ReplayDelivered ==
    ASSUME IInv, ReplayInv, tx # None, NEW f \in tx.todo, NEW e \in EventIds,
           f.pair # None, Deliver(f, e), work.event[e] # None,
           Mapped(f) \in {None, e},
           \A y \in Externals : work.mapping[Source][y] = e => y = f.external,
           tx.observation = last => Mapped(f) = e
    PROVE  ReplayInv'
  <1> DEFINE row == Target(work.event[e], f)
  <1>1. /\ work' = [event |-> [work.event EXCEPT ![e] = row],
                    mapping |-> [work.mapping EXCEPT ![Source][f.external] = e],
                    missing |-> [work.missing EXCEPT ![Source][e] = None],
                    absent |-> [work.absent EXCEPT ![Source][e] = {}]]
        /\ \A g \in EventIds : work'.event[g] =
              IF g = e THEN row ELSE work.event[g]
        /\ \A y \in Externals : work'.mapping[Source][y] =
              IF y = f.external THEN e ELSE work.mapping[Source][y]
        /\ \A t \in Sources, g \in EventIds : work'.missing[t][g] =
              IF t = Source /\ g = e THEN None ELSE work.missing[t][g]
    BY DeliverWrites
  <1>2. Done(f, {e}) /\ f.external \in Externals /\ Source \in Sources /\ e # None
    BY MappedTo, OpenTransaction, RowAssumption DEF Deliver
  <1>3. work \in Databases
    BY DEF IInv, TypeOK
  <1>4. row # None
    <2>1. row \in Events
      <3>1. work.event[e] \in Events
        BY <1>3, Fields
      <3>2. f \in FixtureRecords
        BY OpenTransaction
      <3>3. f.stage # None => f.stage \in Season
        BY <3>2 DEF FixtureRecords, Season
      <3> QED
        BY <3>1, <3>2, <3>3 DEF Target, FixtureRecords, Events, Season
    <2> QED
      BY <2>1, RowAssumption
  <1>5. Target(row, f) = row
    BY TargetTwice
  <1>6. tx.observation = last =>
          /\ work'.event = work.event
          /\ work'.mapping = work.mapping
          /\ work'.missing = work.missing
    <2> SUFFICES ASSUME tx.observation = last
                 PROVE  /\ work'.event = work.event
                        /\ work'.mapping = work.mapping
                        /\ work'.missing = work.missing
      OBVIOUS
    <2>1. row = work.event[e] /\ work.missing[Source][e] = None /\ Mapped(f) = e
      BY <1>2, Replayed DEF Kept, Mapped
    <2> HIDE DEF row
    <2>2. [work.event EXCEPT ![e] = row] = work.event
      BY <1>3, <2>1, Fields
    <2>3. [work.mapping EXCEPT ![Source][f.external] = e] = work.mapping
      BY <1>2, <1>3, <2>1, Fields DEF Mapped
    <2>4. [work.missing EXCEPT ![Source][e] = None] = work.missing
      BY <1>2, <1>3, <2>1, Fields
    <2> QED
      BY <1>1, <2>2, <2>3, <2>4
  <1> HIDE DEF row
  <1>7. Kept(work', Source, f)
    BY <1>1, <1>2, <1>5 DEF Kept
  <1>8. \A g \in Taken : Kept(work', Source, g)
    <2>1. \A h \in EventIds \ {e} : /\ work'.event[h] = work.event[h]
                                    /\ work'.missing[Source][h] = work.missing[Source][h]
      BY <1>1, <1>2
    <2>2. \A y \in Externals : work'.mapping[Source][y] =
             IF y = f.external THEN e ELSE work.mapping[Source][y]
      BY <1>1
    <2> QED
      BY <2>1, <2>2, OthersKept
  <1>9. Recorded(work')
    BY <1>1, <1>4 DEF ReplayInv, Recorded
  <1>10. {e} = {work'.mapping[Source][f.external]} \ {None}
    BY <1>1, <1>2
  <1>11. \A y \in Externals : y # f.external =>
            work'.mapping[Source][y] = work.mapping[Source][y]
    BY <1>1
  <1>12. {e} \in SUBSET EventIds
    OBVIOUS
  <1> QED
    BY <1>2, <1>6, <1>7, <1>8, <1>9, <1>10, <1>11, <1>12, TakenStep

LEMMA ReplayUpdated ==
    ASSUME IInv, ReplayInv, NEW f, Update(f)
    PROVE  ReplayInv'
  <1> DEFINE e == Mapped(f)
  <1>1. /\ tx # None /\ f \in tx.todo
        /\ f.pair # None /\ e # None
        /\ Deliver(f, e)
    BY DEF Update, Turn
  <1>2. e \in EventIds /\ f.external \in Externals /\ Source \in Sources
    BY <1>1, MappedTo, OpenTransaction
  <1>3. Exact(work)
    BY DEF IInv, DatabaseInv
  <1>4. work.event[e] # None
    BY <1>1, <1>2, <1>3 DEF Exact, Mapped
  <1>5. \A y \in Externals : work.mapping[Source][y] = e => y = f.external
    BY <1>1, <1>2, <1>3 DEF Exact, Mapped
  <1> QED
    BY <1>1, <1>2, <1>4, <1>5, ReplayDelivered

LEMMA ReplayAdopted ==
    ASSUME IInv, ReplayInv, NEW f, Adopt(f)
    PROVE  ReplayInv'
  <1>1. /\ tx # None /\ f \in tx.todo
        /\ f.pair # None /\ Mapped(f) = None
    BY DEF Adopt, Turn
  <1>2. PICK e \in EventIds :
          /\ CrossSource(f) = {e}
          /\ e \notin MappedBy(work, Source)
          /\ Deliver(f, e)
    BY DEF Adopt
  <1>3. /\ Source \notin Manual /\ work.event[e] # None
        /\ work.event[e].pair = f.pair
    BY <1>2 DEF CrossSource
  <1>4. \A y \in Externals : work.mapping[Source][y] # e
    BY <1>2, RowAssumption DEF MappedBy
  <1>5. tx.observation # last
    <2> SUFFICES ASSUME tx.observation = last PROVE FALSE
      OBVIOUS
    <2>1. Kept(work, Source, f)
      BY <1>1, Replayed
    <2> QED
      BY <1>1, <1>2, <1>3, <2>1 DEF Kept, Mapped
  <1> QED
    BY <1>1, <1>2, <1>3, <1>4, <1>5, ReplayDelivered

\* What a commit publishes is settled for its observation.
LEMMA CommitSettles ==
    ASSUME IInv, ReplayInv, Commit
    PROVE  /\ Settled(db', tx.observation)
           /\ Recorded(db')
           /\ tx.observation = last =>
                 /\ db'.event = db.event
                 /\ db'.mapping = db.mapping
                 /\ db'.missing = db.missing
  <1>1. /\ tx # None /\ tx.todo = {}
        /\ db' = IF Boundary = None THEN work ELSE Reconciled
    BY DEF Commit
  <1>2. TakenInv /\ Taken = tx.observation.fixtures /\ Source \in Sources
    BY <1>1, OpenTransaction DEF ReplayInv, Taken
  <1>3. \A f \in tx.observation.fixtures : Kept(work, Source, f)
    BY <1>2 DEF TakenInv
  <1>4. tx.seen = Seen(work, Source, tx.observation.fixtures)
    BY <1>2 DEF TakenInv
  <1>5. tx.observation = last => SameTables
    BY <1>1 DEF ReplayInv
  <1>6. CASE Boundary = None
    BY <1>1, <1>3, <1>5, <1>6 DEF Settled, Boundary, Source, SameTables, ReplayInv
  <1>7. CASE Boundary # None
    <2> DEFINE w == Reconciled
    <2>1. db' = w
      BY <1>1, <1>7
    <2>2. /\ w.mapping = work.mapping
          /\ \A e \in EventIds : w.event[e] =
                IF Removed(e) THEN [work.event[e] EXCEPT !.deleted = TRUE]
                              ELSE work.event[e]
          /\ \A s \in Sources, e \in EventIds : w.missing[s][e] =
                IF s = Source /\ Counts(e)
                THEN [count |-> NewCount(e), at |-> ObservedAt]
                ELSE work.missing[s][e]
          /\ w \in Databases
      BY <1>1, <1>7, ReconciledFields
    <2> HIDE DEF w
    <2>3. \A e \in EventIds : Missing(e) =>
            /\ work.event[e] \in Events
            /\ Removed(e) => Counts(e)
      BY <1>1, <1>7, Missed DEF Removed
    <2>4. \A e \in EventIds : Removed(e) \/ Counts(e) => Missing(e)
      BY DEF Removed, Counts
    <2>5. ASSUME NEW e \in EventIds
          PROVE  /\ w.event[e] = None <=> work.event[e] = None
                 /\ w.event[e] # None => /\ w.event[e].pair = work.event[e].pair
                                         /\ w.event[e].stage = work.event[e].stage
                                         /\ w.event[e].start = work.event[e].start
      <3>1. CASE Removed(e)
        <4>1. work.event[e] \in Events /\ w.event[e] = [work.event[e] EXCEPT !.deleted = TRUE]
          BY <2>2, <2>3, <2>4, <3>1
        <4>2. /\ w.event[e] \in Events /\ w.event[e].pair = work.event[e].pair
              /\ w.event[e].stage = work.event[e].stage
              /\ w.event[e].start = work.event[e].start
          BY <4>1 DEF Events
        <4> QED
          BY <4>1, <4>2, RowAssumption
      <3>2. CASE ~Removed(e)
        BY <2>2, <3>2
      <3> QED
        BY <3>1, <3>2
    <2>6. MappedBy(w, Source) = MappedBy(work, Source)
          /\ Seen(w, Source, tx.observation.fixtures) = tx.seen
      BY <1>4, <2>2 DEF MappedBy, Seen
    <2>7. ASSUME NEW f \in tx.observation.fixtures, f.pair # None
          PROVE  Kept(w, Source, f)
      <3> DEFINE x == work.mapping[Source][f.external]
      <3>1. x \in EventIds \cup {None}
        <4>1. f.external \in Externals
          BY <1>1, OpenTransaction DEF Observations, FixtureRecords
        <4>2. work.mapping \in [Sources -> [Externals -> EventIds \cup {None}]]
          BY Fields DEF IInv, TypeOK
        <4> QED
          BY <1>2, <4>1, <4>2
      <3>2. Kept(work, Source, f) /\ w.mapping[Source][f.external] = x
        BY <1>3, <2>2
      <3>3. x # None => x \in tx.seen
        BY <1>4 DEF Seen
      <3> HIDE DEF x
      <3>4. CASE x # None
        <4>1. ~Removed(x) /\ ~Counts(x)
          BY <2>4, <3>1, <3>3, <3>4 DEF Missing
        <4>2. w.event[x] = work.event[x] /\ w.missing[Source][x] = work.missing[Source][x]
          BY <1>2, <2>2, <3>1, <3>4, <4>1
        <4> QED
          BY <3>2, <3>4, <4>2 DEF Kept, x
      <3>5. CASE x = None
        BY <2>5, <2>6, <2>7, <3>2, <3>5 DEF Kept, x
      <3> QED
        BY <3>4, <3>5
    <2>8. Counted(w, tx.observation)
      <3> SUFFICES ASSUME NEW e \in MappedBy(w, Source),
                          w.event[e].stage \in Boundary, w.event[e].start \in Window,
                          e \notin tx.seen
                   PROVE  w.missing[Source][e] # None /\ ~(w.missing[Source][e].at < ObservedAt)
        BY <2>6, Zenon DEF Counted, Source, Boundary, Window, ObservedAt
      <3>1. e \in EventIds /\ e \in MappedBy(work, Source)
        <4>1. work.mapping \in [Sources -> [Externals -> EventIds \cup {None}]]
          BY Fields DEF IInv, TypeOK
        <4> QED
          <5>1. e \in MappedBy(work, Source)
            BY <2>6
          <5>2. PICK y \in Externals : work.mapping[Source][y] = e /\ e # None
            BY <5>1 DEF MappedBy
          <5> QED
            BY <1>2, <4>1, <5>1, <5>2
      <3>2. work.event[e] # None
        BY <1>2, <3>1 DEF IInv, DatabaseInv, Exact, MappedBy
      <3>3. Missing(e)
        BY <2>5, <3>1, <3>2 DEF Missing
      <3>4. CASE Counts(e)
        <4>1. w.missing[Source][e] = [count |-> NewCount(e), at |-> ObservedAt]
          BY <1>2, <2>2, <3>1, <3>4
        <4>2. ObservedAt \in Nat
          BY <1>1, OpenTransaction, ScopeAssumption
        <4>3. w.missing[Source][e] \in Candidacies \cup {None} /\ NewCount(e) \in Nat
          BY <1>1, <1>2, <1>7, <2>2, <3>1, <3>3, Fields, Missed
        <4>4. e \in EventIds /\ w.missing[Source][e].at = ObservedAt
          BY <3>1, <4>1
        <4>5. w.missing[Source][e] # None
          <5>1. w.missing[Source][e] \in Candidacies
            BY <1>1, <4>1, <4>3, OpenTransaction DEF Candidacies
          <5> QED
            BY <5>1, RowAssumption
        <4> QED
          BY <4>2, <4>4, <4>5
      <3>5. CASE ~Counts(e)
        BY <1>2, <2>2, <3>1, <3>3, <3>5 DEF Counts
      <3> QED
        BY <3>4, <3>5
    <2>9. Settled(w, tx.observation)
      <3>1. \A f \in tx.observation.fixtures : Kept(w, Source, f)
        BY <2>7 DEF Kept
      <3> QED
        BY <2>8, <3>1 DEF Settled, Source
    <2>10. Recorded(w)
      <3> SUFFICES ASSUME NEW s \in Sources, NEW e \in EventIds, w.missing[s][e] # None
                   PROVE  w.event[e] # None
        BY DEF Recorded
      <3>1. CASE s = Source /\ Counts(e)
        BY <2>3, <2>4, <2>5, <3>1, RowAssumption
      <3>2. CASE ~(s = Source /\ Counts(e))
        <4>1. work.missing[s][e] # None
          BY <2>2, <3>2
        <4> QED
          BY <2>5, <4>1 DEF ReplayInv, Recorded
      <3> QED
        BY <3>1, <3>2
    <2>11. ASSUME tx.observation = last
           PROVE  w.event = db.event /\ w.mapping = db.mapping /\ w.missing = db.missing
      <3>1. SameTables
        BY <1>5, <2>11
      <3>2. last # None /\ Settled(db, last)
        BY <1>1, <2>11, OpenTransaction, RowAssumption DEF ReplayInv
      <3>3. ASSUME NEW e \in EventIds, Counts(e) PROVE FALSE
        <4>1. Missing(e) /\ (work.missing[Source][e] # None =>
                                work.missing[Source][e].at < ObservedAt)
          BY <3>3 DEF Counts
        <4>2. Counted(db, last) /\ last.source = Source /\ last.at = ObservedAt
              /\ last.boundary = Boundary /\ last.window = Window
          BY <1>7, <2>11, <3>2 DEF Settled, Source, Boundary, Window, ObservedAt
        <4>3. MappedBy(db, Source) = MappedBy(work, Source)
              /\ Seen(db, Source, last.fixtures) = tx.seen
          BY <1>4, <2>11, <3>1 DEF MappedBy, Seen, SameTables
        <4>4. /\ e \in MappedBy(db, Source) /\ db.event[e].stage \in Boundary
              /\ db.event[e].start \in Window /\ e \notin tx.seen
          BY <3>1, <4>1, <4>3 DEF Missing, SameTables
        <4>5. db.missing[Source][e] # None /\ ~(db.missing[Source][e].at < ObservedAt)
          BY <4>2, <4>3, <4>4, Zenon DEF Counted
        <4> QED
          BY <3>1, <4>1, <4>5 DEF SameTables
      <3>4. \A e \in EventIds : ~Counts(e) /\ ~Removed(e)
        BY <3>3 DEF Removed
      <3>5. /\ w.event \in [EventIds -> Events \cup {None}]
            /\ w.missing \in [Sources -> [EventIds -> Candidacies \cup {None}]]
            /\ work.event \in [EventIds -> Events \cup {None}]
            /\ work.missing \in [Sources -> [EventIds -> Candidacies \cup {None}]]
        BY <2>2, Fields DEF IInv, TypeOK
      <3>6. w.event = work.event
        <4>1. \A e \in EventIds : w.event[e] = work.event[e]
          BY <2>2, <3>4
        <4> QED
          BY <3>5, <4>1
      <3>7. w.missing = work.missing
        <4>1. \A s \in Sources : w.missing[s] = work.missing[s]
          <5> SUFFICES ASSUME NEW s \in Sources PROVE w.missing[s] = work.missing[s]
            OBVIOUS
          <5>1. \A e \in EventIds : w.missing[s][e] = work.missing[s][e]
            BY <2>2, <3>4
          <5>2. /\ w.missing[s] \in [EventIds -> Candidacies \cup {None}]
                /\ work.missing[s] \in [EventIds -> Candidacies \cup {None}]
            BY <3>5
          <5> QED
            BY <5>1, <5>2
        <4> QED
          BY <3>5, <4>1
      <3> QED
        BY <2>2, <3>1, <3>6, <3>7 DEF SameTables
    <2> QED
      BY <2>1, <2>9, <2>10, <2>11
  <1> QED
    BY <1>6, <1>7

LEMMA ReplayStarted ==
    ASSUME IInv, ReplayInv, NEW o, Begin(o)
    PROVE  ReplayInv'
  <1>1. /\ tx = None /\ Valid(o) /\ work = db
        /\ tx' = [observation |-> o, todo |-> o.fixtures, seen |-> {}]
        /\ work' = work /\ db' = db /\ last' = last
    BY DEF Begin, IInv, TransactionInv
  <1>2. Taken' = {} /\ tx'.seen = {} /\ tx'.observation = o
    BY <1>1 DEF Taken
  <1>3. TakenInv'
    BY <1>1, <1>2 DEF TakenInv, Seen, Valid
  <1>4. (last # None => Settled(db, last))' /\ Recorded(db)' /\ Recorded(work)'
    BY <1>1, SettledNext DEF ReplayInv, Recorded
  <1>5. SameTables'
    BY <1>1 DEF SameTables
  <1> QED
    BY <1>3, <1>4, <1>5 DEF ReplayInv

LEMMA ReplayOutside ==
    ASSUME IInv, ReplayInv,
           \/ \E s \in Sources, stages \in Grants : Assign(s, stages)
           \/ Rollback
           \/ UNCHANGED vars
    PROVE  ReplayInv'
  <1>1. ASSUME NEW s \in Sources, NEW stages \in Grants, Assign(s, stages)
        PROVE  ReplayInv'
    BY <1>1 DEF Assign, ReplayInv, Recorded
  <1>2. CASE Rollback
    BY <1>2, SettledNext DEF Rollback, ReplayInv, Recorded
  <1>3. CASE UNCHANGED vars
    <2>1. db' = db /\ work' = work /\ tx' = tx /\ last' = last
      BY <1>3 DEF vars
    <2>2. (tx # None => TakenInv)'
      <3>1. Taken' = Taken /\ Source' = Source
        BY <2>1 DEF Taken, Source
      <3>2. TakenInv' <=>
              /\ \A f, g \in tx'.observation.fixtures : f.external = g.external => f = g
              /\ \A f \in Taken' : Kept(work', Source', f)
              /\ tx'.seen = Seen(work', Source', Taken')
        BY DEF TakenInv, Kept, Seen, MappedBy, Target
      <3> QED
        BY <2>1, <3>1, <3>2 DEF ReplayInv, TakenInv
    <2> QED
      BY <2>1, <2>2, SettledNext DEF ReplayInv, Recorded, SameTables
  <1> QED
    BY <1>1, <1>2, <1>3

LEMMA ReplayCommitted ==
    ASSUME IInv, ReplayInv, Commit
    PROVE  ReplayInv'
  <1>1. tx' = None /\ work' = db' /\ last' = tx.observation
    BY DEF Commit
  <1>2. Settled(db', tx.observation) /\ Recorded(db')
    BY CommitSettles
  <1>3. (last # None => Settled(db, last))'
    BY <1>1, <1>2, SettledNext
  <1> QED
    BY <1>1, <1>2, <1>3 DEF ReplayInv, Recorded

(* Whatever order the fixtures of an observation are taken in, the database *)
(* a commit leaves is settled for it until the next assignment.             *)
THEOREM ReplayInductive == Spec => [](IInv /\ ReplayInv)
  <1>1. Init => ReplayInv
    BY DEF Init, ReplayInv, Recorded, EmptyDatabase
  <1>2. IInv /\ ReplayInv /\ [Next]_vars => ReplayInv'
    <2> SUFFICES ASSUME IInv, ReplayInv, [Next]_vars
                 PROVE  ReplayInv'
      OBVIOUS
    <2>1. ASSUME NEW f \in FixtureRecords, ImportFixture(f)
          PROVE  ReplayInv'
      BY <2>1, ReplayDeferred, ReplayCreated, ReplayUpdated, ReplayAdopted DEF ImportFixture
    <2>2. ASSUME NEW o \in Observable, Begin(o)
          PROVE  ReplayInv'
      BY <2>2, ReplayStarted
    <2>3. CASE Commit
      BY <2>3, ReplayCommitted
    <2> QED
      BY <2>1, <2>2, <2>3, ReplayOutside DEF Next
  <1> QED
    BY <1>1, <1>2, Inductive, PTL DEF Spec

(* Importing the observation that was just committed again leaves events,   *)
(* mappings and reconciliation states as they are.                          *)
THEOREM ReplaysAreIdle == Spec => ReplaysChangeNothing
  <1>1. IInv /\ ReplayInv /\ [Next]_vars => [ReplayIsIdle]_vars
    <2> SUFFICES ASSUME IInv, ReplayInv, Next, tx # None, tx.observation = last
                 PROVE  SameRows
      BY DEF ReplayIsIdle
    <2>1. CASE Commit
      BY <2>1, CommitSettles DEF SameRows
    <2>2. CASE db' = db
      BY <2>2 DEF SameRows
    <2>3. Commit \/ db' = db
      <3>1. \A f, delivered : Done(f, delivered) => db' = db
        BY DEF Done
      <3>2. \A f, e : Deliver(f, e) => db' = db
        BY <3>1 DEF Deliver
      <3>3. \A f : ImportFixture(f) => db' = db
        BY <3>1, <3>2 DEF ImportFixture, DeferUnresolved, DeferUnscheduled, Create,
                          Update, Adopt
      <3> QED
        BY <3>3 DEF Next, Assign, Begin, Rollback
    <2> QED
      BY <2>1, <2>2, <2>3
  <1> QED
    BY <1>1, ReplayInductive, PTL DEF Spec, ReplaysChangeNothing

=============================================================================

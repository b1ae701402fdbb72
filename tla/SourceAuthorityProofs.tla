----------------------- MODULE SourceAuthorityProofs -----------------------
(***************************************************************************)
(* Proofs about SourceAuthority for every set of jobs, namespaces, stages, *)
(* configurations and fixtures.                                             *)
(***************************************************************************)
EXTENDS SourceAuthority, TLAPS

\* The configuration in force was loadable, and the profiles still to be
\* installed are its own.
SettingsOK ==
    settings # None => /\ Loadable(settings)
                       /\ \A n \in profiles : settings.profiles[n] # {}

IInv ==
    /\ AuthorityTypeOK
    /\ SettingsOK
    /\ OneWriterPerStage
    /\ RetiredIsFinished

USE OwnerAssumption, AbsentAssumption

Enabled(row) == row # None /\ row.enabled

-----------------------------------------------------------------------------
(* What a start does to the table.                                          *)

LEMMA ReleasedRows ==
    ASSUME AuthorityTypeOK, NEW c \in Settings, NEW j \in Jobs
    PROVE  /\ Released(c)[j] \in Rows \cup {None}
           /\ Released(c)[j] = None <=> assignment[j] = None
           /\ Enabled(Released(c)[j]) =>
                /\ Released(c)[j] = assignment[j]
                /\ Enabled(c.jobs[j]) /\ c.jobs[j].stages = assignment[j].stages
<1>1. assignment[j] \in Rows \cup {None}
  BY DEF AuthorityTypeOK, Owners
<1>2. CASE Released(c)[j] = assignment[j] /\ ~(assignment[j] # None /\
             (\/ c.jobs[j] = None
              \/ ~c.jobs[j].enabled
              \/ c.jobs[j].stages # assignment[j].stages))
  BY <1>1, <1>2 DEF Enabled
<1>3. CASE assignment[j] # None /\ Released(c)[j] = [assignment[j] EXCEPT !.enabled = FALSE]
  <2>1. Released(c)[j] \in Rows /\ Released(c)[j].enabled = FALSE
    BY <1>1, <1>3 DEF Rows
  <2> QED
    BY <1>3, <2>1 DEF Enabled
<1> QED
  BY <1>2, <1>3 DEF Released

LEMMA SettingRows ==
    ASSUME NEW c \in Settings, NEW j \in Jobs
    PROVE  /\ c.jobs[j] \in Rows \cup {None}
           /\ Loadable(c) =>
                \A i \in Jobs \ {j} : Enabled(c.jobs[i]) /\ Enabled(c.jobs[j]) =>
                    c.jobs[i].stages \cap c.jobs[j].stages = {}
BY SettingsAssumption DEF Configurations, Loadable, Enabled

LEMMA SynchronizedRows ==
    ASSUME AuthorityTypeOK, NEW c \in Settings
    PROVE  /\ Synchronized(c) \in [Owners -> Rows \cup {None}]
           /\ \A n \in Namespaces : Synchronized(c)[n] = assignment[n]
           /\ \A j \in Jobs : Enabled(Synchronized(c)[j]) =>
                Synchronized(c)[j] = c.jobs[j] /\ c.jobs[j] # None
<1>1. \A n \in Namespaces : Synchronized(c)[n] = assignment[n]
                             /\ assignment[n] \in Rows \cup {None}
  BY DEF Synchronized, Owners, AuthorityTypeOK
<1>2. ASSUME NEW j \in Jobs
      PROVE  /\ Synchronized(c)[j] = IF c.jobs[j] # None THEN c.jobs[j] ELSE Released(c)[j]
             /\ Synchronized(c)[j] \in Rows \cup {None}
             /\ Enabled(Synchronized(c)[j]) =>
                  Synchronized(c)[j] = c.jobs[j] /\ c.jobs[j] # None
  <2>1. Synchronized(c)[j] = IF c.jobs[j] # None THEN c.jobs[j] ELSE Released(c)[j]
    BY DEF Synchronized, Owners
  <2> QED
    BY <2>1, ReleasedRows, SettingRows DEF Enabled
<1> QED
  BY <1>1, <1>2 DEF Synchronized, Owners

\* What the application's own writes keep.
LEMMA SynchronizeWrites ==
    ASSUME AuthorityTypeOK, OneWriterPerStage, NEW c \in Settings, Loadable(c), ~Refused(c)
    PROVE  /\ \A i, j \in Owners :
                i # j /\ Enabled(Synchronized(c)[i]) /\ Enabled(Synchronized(c)[j])
                => Synchronized(c)[i].stages \cap Synchronized(c)[j].stages = {}
           /\ \A o \in Owners : Active(o) => Synchronized(c)[o] = assignment[o]
<1>1. ASSUME NEW j \in Jobs, Enabled(Synchronized(c)[j]), NEW n \in Namespaces,
             Enabled(assignment[n])
      PROVE  Synchronized(c)[j].stages \cap assignment[n].stages = {}
  <2>1. Synchronized(c)[j] = c.jobs[j] /\ c.jobs[j] # None /\ c.jobs[j].enabled
    BY <1>1, SynchronizedRows DEF Enabled
  <2>2. TableBefore(c, j)[n] = assignment[n]
    BY DEF TableBefore, Owners
  <2>3. ~Overlaps(TableBefore(c, j), j, c.jobs[j])
    BY <2>1 DEF Refused, WriteRefused
  <2>4. n \in Owners \ {j}
    BY DEF Owners
  <2> QED
    BY <1>1, <2>1, <2>2, <2>3, <2>4 DEF Overlaps, Enabled
<1>2. ASSUME NEW i \in Jobs, NEW j \in Jobs, i # j, Enabled(Synchronized(c)[i]),
             Enabled(Synchronized(c)[j])
      PROVE  Synchronized(c)[i].stages \cap Synchronized(c)[j].stages = {}
  <2>1. /\ Synchronized(c)[i] = c.jobs[i] /\ Synchronized(c)[j] = c.jobs[j]
    BY <1>2, SynchronizedRows
  <2> QED
    BY <1>2, <2>1, SettingRows
<1>3. ASSUME NEW i \in Namespaces, NEW j \in Namespaces, i # j,
             Enabled(assignment[i]), Enabled(assignment[j])
      PROVE  assignment[i].stages \cap assignment[j].stages = {}
  BY <1>3 DEF OneWriterPerStage, Enabled, Owners
<1>4. ASSUME NEW o \in Owners, Active(o)
      PROVE  Synchronized(c)[o] = assignment[o]
  <2>1. CASE o \in Namespaces
    BY <2>1, SynchronizedRows
  <2>2. CASE o \in Jobs
    <3>1. Released(c)[o] = assignment[o]
      BY <1>4, <2>2 DEF Refused, Reserved
    <3>2. TableBefore(c, o)[o] = Released(c)[o]
      <4>1. ~(Rank[o] < Rank[o])
        BY <1>4, RankAssumption
      <4> QED
        BY <1>4, <2>2, <4>1 DEF TableBefore
    <3>3. c.jobs[o] # None => c.jobs[o] = assignment[o]
      BY <1>4, <2>2, <3>1, <3>2 DEF Refused, WriteRefused, Reserved
    <3> QED
      BY <1>4, <2>2, <3>1, <3>3 DEF Synchronized
  <2> QED
    BY <2>1, <2>2 DEF Owners
<1>5. \A n \in Namespaces : Synchronized(c)[n] = assignment[n]
  BY SynchronizedRows
<1> QED
  BY <1>1, <1>2, <1>3, <1>4, <1>5 DEF Owners

LEMMA GrantedRow ==
    ASSUME AuthorityTypeOK, SettingsOK, NEW n \in profiles, phase = "configuring"
    PROVE  n \in Namespaces /\ Granted(n) \in Rows /\ Enabled(Granted(n))
<1>1. n \in Namespaces /\ settings \in Settings
  BY DEF AuthorityTypeOK
<1>2. settings.profiles[n] \subseteq Stages /\ settings.profiles[n] # {}
  BY <1>1, SettingsAssumption DEF SettingsOK, Configurations, AuthorityTypeOK
<1>3. settings.profiles[n] \in Grants
  BY <1>2 DEF Grants
<1>4. Granted(n) \in Rows
  BY <1>3 DEF Granted, Rows
<1>5. Granted(n).enabled
  BY DEF Granted
<1> QED
  BY <1>1, <1>4, <1>5 DEF Enabled

-----------------------------------------------------------------------------
(* A retired scope.                                                         *)

\* What a step leaves of the retired scopes, in terms of the rows.
KeepsRetired ==
    /\ \A o \in Owners : Active(o) /\ Active(o)' => assignment'[o] = assignment[o]
    /\ \A e \in Events : event'[e] # event[e] =>
         \A o \in Owners : Active(o) => e \notin Boundary(o) /\ e \notin Boundary(o)'

LEMMA Standing ==
    ASSUME IInv, KeepsRetired, event' \in [Events -> Fixtures \cup {None}]
    PROVE  RetiredStands
<1> SUFFICES ASSUME NEW o \in Owners, Active(o), Active(o)'
             PROVE  /\ assignment'[o] = assignment[o]
                    /\ Boundary(o)' = Boundary(o)
                    /\ \A e \in Boundary(o) : event'[e] = event[e]
  BY DEF RetiredStands
<1>1. assignment'[o] = assignment[o]
  BY DEF KeepsRetired
<1>2. \A e \in Boundary(o) : e \in Events /\ event'[e] = event[e]
  BY DEF KeepsRetired, Boundary
<1>3. \A e \in Boundary(o)' : e \in Events /\ event'[e] = event[e]
  BY DEF KeepsRetired, Boundary
<1>4. Boundary(o)' = Boundary(o)
  BY <1>1, <1>2, <1>3 DEF Boundary
<1> QED
  BY <1>1, <1>2, <1>4

\* A scope that stays retired stays finished.
LEMMA StaysFinished ==
    ASSUME IInv, RetiredStands, today' \in Nat, today' >= today,
           \A o \in Owners : retired'[o] \in {retired[o], None},
           \A n \in Namespaces : package'[n] = package[n] \/ package'[n] = "rejected"
               \/ \A o \in Owners : Active(o) => n \notin Covered(o),
           \A n \in Namespaces : \/ assignment'[n] = assignment[n]
                                 \/ ~\E o \in Owners : Active(o) /\ Active(o)' /\ n \in Covered(o)'
    PROVE  RetiredIsFinished'
<1> SUFFICES ASSUME NEW o \in Owners, Active(o)'
             PROVE  /\ assignment'[o] # None /\ assignment'[o].enabled
                    /\ today' >= retired'[o].completed + retired'[o].grace
                    /\ Unresolved(o, retired[o])' = {}
                    /\ \A n \in Covered(o)' : package'[n] \notin {"open", "approved"}
  BY DEF RetiredIsFinished
<1>1. Active(o) /\ retired'[o] = retired[o]
  BY DEF Active
<1>2. /\ assignment'[o] = assignment[o] /\ Boundary(o)' = Boundary(o)
      /\ \A e \in Boundary(o) : event'[e] = event[e]
  BY <1>1 DEF RetiredStands
<1>3. /\ assignment[o] # None /\ assignment[o].enabled
      /\ today >= retired[o].completed + retired[o].grace
      /\ Unresolved(o, retired[o]) = {}
      /\ \A n \in Covered(o) : package[n] \notin {"open", "approved"}
  BY <1>1 DEF IInv, RetiredIsFinished
<1>4. today' >= retired'[o].completed + retired'[o].grace
  <2>1. retired[o] \in Decisions /\ today \in Nat
    BY <1>1 DEF IInv, AuthorityTypeOK, Active
  <2>2. retired[o].completed \in Nat /\ retired[o].grace \in Nat
    BY <2>1, DayAssumption
  <2> QED
    BY <1>1, <1>3, <2>1, <2>2
<1>5. Unresolved(o, retired[o])' = {}
  BY <1>1, <1>2, <1>3 DEF Unresolved
<1>6. ASSUME NEW n \in Covered(o)' PROVE package'[n] \notin {"open", "approved"}
  <2>1. n \in Namespaces
    BY DEF Covered
  <2>2. assignment'[n] = assignment[n]
    BY <1>1, <1>6, <2>1
  <2>3. n \in Covered(o)
    BY <1>2, <1>6, <2>1, <2>2 DEF Covered
  <2>4. package'[n] = package[n] \/ package'[n] = "rejected"
    BY <1>1, <2>1, <2>3
  <2> QED
    BY <1>3, <2>3, <2>4
<1> QED
  BY <1>2, <1>3, <1>4, <1>5, <1>6

\* A scope that is not blocked has nothing to do with a retired one.
LEMMA Apart ==
    ASSUME IInv, NEW p \in Owners, ~Blocked(p), assignment[p] # None,
           NEW o \in Owners, Active(o)
    PROVE  assignment[p].stages \cap assignment[o].stages = {} /\ assignment[o] # None
BY DEF IInv, RetiredIsFinished, Blocked

-----------------------------------------------------------------------------
(* The steps.                                                               *)

\* A step that changes neither the rows nor the fixtures.
LEMMA NoWrite ==
    ASSUME IInv, UNCHANGED <<assignment, event>>
    PROVE  RetiredStands /\ OneWriterPerStage'
<1>1. RetiredStands
  BY DEF RetiredStands, Boundary
<1>2. OneWriterPerStage'
  BY DEF IInv, OneWriterPerStage
<1> QED
  BY <1>1, <1>2

LEMMA StartStep ==
    ASSUME IInv, NEW c \in Settings, Start(c)
    PROVE  IInv' /\ RetiredStands
<1>1. RetiredStands /\ OneWriterPerStage'
  BY NoWrite DEF Start, databaseVars
<1>2. RetiredIsFinished'
  BY <1>1, StaysFinished DEF Start, databaseVars, IInv, AuthorityTypeOK
<1>3. AuthorityTypeOK' /\ SettingsOK'
  BY DEF IInv, AuthorityTypeOK, SettingsOK, Start, databaseVars
<1> QED
  BY <1>1, <1>2, <1>3 DEF IInv

LEMMA SynchronizeStep ==
    ASSUME IInv, Synchronize
    PROVE  IInv' /\ RetiredStands
<1>1. /\ settings \in Settings /\ ~Refused(settings) /\ Loadable(settings)
      /\ assignment' = Synchronized(settings) /\ shown' = shown \ Revised(assignment')
      /\ phase' = "configuring"
      /\ UNCHANGED <<settings, profiles, retired, event, package, seen, today>>
  BY DEF IInv, AuthorityTypeOK, SettingsOK, Synchronize, Assign
<1>2. /\ assignment' \in [Owners -> Rows \cup {None}]
      /\ \A n \in Namespaces : assignment'[n] = assignment[n]
      /\ \A i, j \in Owners :
            i # j /\ Enabled(assignment'[i]) /\ Enabled(assignment'[j])
            => assignment'[i].stages \cap assignment'[j].stages = {}
      /\ \A o \in Owners : Active(o) => assignment'[o] = assignment[o]
  BY <1>1, SynchronizedRows, SynchronizeWrites DEF IInv
<1>3. AuthorityTypeOK' /\ SettingsOK'
  BY <1>1, <1>2 DEF IInv, AuthorityTypeOK, SettingsOK
<1>4. OneWriterPerStage'
  BY <1>2 DEF OneWriterPerStage, Enabled
<1>5. RetiredStands
  <2>1. KeepsRetired
    BY <1>1, <1>2 DEF KeepsRetired
  <2> QED
    BY <1>1, <2>1, Standing DEF IInv, AuthorityTypeOK
<1>6. RetiredIsFinished'
  BY <1>1, <1>2, <1>5, StaysFinished DEF IInv, AuthorityTypeOK
<1> QED
  BY <1>3, <1>4, <1>5, <1>6 DEF IInv

LEMMA ConfigureStep ==
    ASSUME IInv, NEW n \in Namespaces, Configure(n)
    PROVE  IInv' /\ RetiredStands
<1>1. /\ phase = "configuring" /\ n \in profiles /\ n \in Owners
      /\ ~WriteRefused(assignment, n, Granted(n))
      /\ assignment' = [assignment EXCEPT ![n] = Granted(n)]
      /\ shown' = shown \ Revised(assignment')
      /\ profiles' = profiles \ {n}
      /\ UNCHANGED <<phase, settings, retired, event, package, seen, today>>
      /\ assignment \in [Owners -> Rows \cup {None}]
  BY DEF IInv, AuthorityTypeOK, Configure, Assign, Owners
<1>2. Granted(n) \in Rows /\ Enabled(Granted(n))
  BY <1>1, GrantedRow DEF IInv
<1>3. /\ assignment' \in [Owners -> Rows \cup {None}]
      /\ assignment'[n] = Granted(n)
      /\ \A o \in Owners \ {n} : assignment'[o] = assignment[o]
  BY <1>1, <1>2
<1>4. \A o \in Owners \ {n} : Enabled(assignment[o]) =>
         assignment[o].stages \cap Granted(n).stages = {}
  BY <1>1, <1>2 DEF WriteRefused, Overlaps, Enabled
<1>5. Active(n) => assignment'[n] = assignment[n]
  BY <1>1, <1>3 DEF WriteRefused, Reserved
<1>6. AuthorityTypeOK' /\ SettingsOK'
  <2>1. AuthorityTypeOK'
    BY <1>1, <1>3 DEF IInv, AuthorityTypeOK
  <2>2. SettingsOK'
    BY <1>1 DEF IInv, SettingsOK
  <2> QED
    BY <2>1, <2>2
<1>7. OneWriterPerStage'
  <2> SUFFICES ASSUME NEW i \in Owners, NEW j \in Owners, i # j,
                      Enabled(assignment'[i]), Enabled(assignment'[j])
               PROVE  assignment'[i].stages \cap assignment'[j].stages = {}
    BY DEF OneWriterPerStage, Enabled
  <2>1. CASE i = n
    BY <1>3, <1>4, <2>1
  <2>2. CASE j = n
    BY <1>3, <1>4, <2>2
  <2>3. CASE i # n /\ j # n
    BY <1>3, <2>3 DEF IInv, OneWriterPerStage, Enabled
  <2> QED
    BY <2>1, <2>2, <2>3
<1>8. RetiredStands
  <2>1. KeepsRetired
    BY <1>1, <1>3, <1>5 DEF KeepsRetired
  <2> QED
    BY <1>1, <2>1, Standing DEF IInv, AuthorityTypeOK
<1>9. RetiredIsFinished'
  <2>1. ASSUME NEW o \in Owners, Active(o), Active(o)', n \in Covered(o)'
        PROVE  assignment'[n] = assignment[n]
    <3>1. assignment'[o] # None /\ assignment'[o].enabled
      BY <2>1, <1>8 DEF RetiredStands, IInv, RetiredIsFinished
    <3>2. assignment'[n].stages \cap assignment'[o].stages # {}
          /\ assignment'[n] # None /\ assignment'[n].enabled
      BY <2>1 DEF Covered
    <3>3. o = n
      BY <1>1, <1>7, <3>1, <3>2 DEF OneWriterPerStage
    <3> QED
      BY <1>5, <2>1, <3>3
  <2>2. \A k \in Namespaces : \/ assignment'[k] = assignment[k]
           \/ ~\E o \in Owners : Active(o) /\ Active(o)' /\ k \in Covered(o)'
    <3> SUFFICES ASSUME NEW k \in Namespaces, k # n PROVE assignment'[k] = assignment[k]
      BY <2>1
    <3> QED
      BY <1>3 DEF Owners
  <2> QED
    BY <1>1, <1>8, <2>2, StaysFinished DEF IInv, AuthorityTypeOK
<1> QED
  BY <1>6, <1>7, <1>8, <1>9 DEF IInv

\* An observation of a source that no retired scope blocks.
LEMMA DeliverStands ==
    ASSUME IInv, NEW o \in Owners, NEW e \in Events, NEW f \in Fixtures,
           Deliver(o, e, f), ~Blocked(o), UNCHANGED <<assignment, retired>>
    PROVE  /\ RetiredStands /\ OneWriterPerStage'
           /\ event' \in [Events -> Fixtures \cup {None}]
           /\ shown' \in SUBSET {x \in Events : event'[x] # None}
<1>1. /\ event \in [Events -> Fixtures \cup {None}]
      /\ shown \in SUBSET {x \in Events : event[x] # None}
      /\ event' = [event EXCEPT ![e] = f] /\ shown' = shown \ {e}
      /\ assignment[o] # None /\ f.stage \in assignment[o].stages
      /\ event[e] # None => event[e].stage \in assignment[o].stages
  BY DEF IInv, AuthorityTypeOK, Deliver
<1>2. /\ event' \in [Events -> Fixtures \cup {None}] /\ event'[e] = f
      /\ \A x \in Events \ {e} : event'[x] = event[x]
  BY <1>1
<1>3. shown' \in SUBSET {x \in Events : event'[x] # None}
  BY <1>1, <1>2
<1>4. KeepsRetired
  <2>1. ASSUME NEW r \in Owners, Active(r) PROVE e \notin Boundary(r) /\ e \notin Boundary(r)'
    <3>1. assignment[o].stages \cap assignment[r].stages = {}
      BY <1>1, <2>1, Apart
    <3>2. e \notin Boundary(r)
      BY <1>1, <3>1 DEF Boundary
    <3>3. e \notin Boundary(r)'
      BY <1>1, <1>2, <3>1 DEF Boundary
    <3> QED
      BY <3>2, <3>3
  <2> QED
    BY <1>2, <2>1 DEF KeepsRetired
<1>5. RetiredStands
  BY <1>2, <1>4, Standing
<1>6. OneWriterPerStage'
  BY DEF IInv, OneWriterPerStage
<1> QED
  BY <1>2, <1>3, <1>5, <1>6

LEMMA ImportStep ==
    ASSUME IInv, NEW j \in Jobs, NEW e \in Events, NEW f \in Fixtures, Import(j, e, f)
    PROVE  IInv' /\ RetiredStands
<1>1. /\ j \in Owners /\ ~Blocked(j) /\ Deliver(j, e, f)
      /\ UNCHANGED <<phase, settings, profiles, assignment, retired, package, seen, today>>
  BY DEF Import, processVars, Owners
<1>2. /\ RetiredStands /\ OneWriterPerStage'
      /\ event' \in [Events -> Fixtures \cup {None}]
      /\ shown' \in SUBSET {x \in Events : event'[x] # None}
  BY <1>1, DeliverStands
<1>3. AuthorityTypeOK' /\ SettingsOK'
  BY <1>1, <1>2 DEF IInv, AuthorityTypeOK, SettingsOK
<1>4. RetiredIsFinished'
  BY <1>1, <1>2, StaysFinished DEF IInv, AuthorityTypeOK
<1> QED
  BY <1>2, <1>3, <1>4 DEF IInv

\* A package of a namespace that no retired scope blocks.
LEMMA PackageStays ==
    ASSUME IInv, NEW n \in Namespaces, NEW from, NEW to \in PackageStates,
           PackageStep(n, from, to), RetiredStands, OneWriterPerStage',
           event' \in [Events -> Fixtures \cup {None}],
           shown' \in SUBSET {x \in Events : event'[x] # None}
    PROVE  IInv'
<1>1. /\ ~Blocked(n) /\ assignment[n] # None /\ n \in Owners
      /\ package' = [package EXCEPT ![n] = to]
      /\ UNCHANGED <<phase, settings, profiles, assignment, retired, seen, today>>
      /\ package \in [Namespaces -> PackageStates]
  BY DEF PackageStep, processVars, Owners, IInv, AuthorityTypeOK
<1>2. /\ package' \in [Namespaces -> PackageStates]
      /\ \A m \in Namespaces \ {n} : package'[m] = package[m]
  BY <1>1
<1>3. \A o \in Owners : Active(o) => n \notin Covered(o)
  BY <1>1, Apart DEF Covered
<1>4. AuthorityTypeOK' /\ SettingsOK'
  BY <1>1, <1>2 DEF IInv, AuthorityTypeOK, SettingsOK
<1>5. RetiredIsFinished'
  BY <1>1, <1>2, <1>3, StaysFinished DEF IInv, AuthorityTypeOK
<1> QED
  BY <1>4, <1>5 DEF IInv

LEMMA PackageSteps ==
    ASSUME IInv, NEW n \in Namespaces,
           \/ Receive(n) \/ Prepare(n) \/ Approve(n)
           \/ \E e \in Events, f \in Fixtures : Apply(n, e, f)
    PROVE  IInv' /\ RetiredStands
<1>1. {"open", "approved", "applied"} \subseteq PackageStates
  BY DEF PackageStates
<1>2. CASE Receive(n) \/ Prepare(n) \/ Approve(n)
  <2>1. PICK from \in SUBSET PackageStates, to \in PackageStates :
           PackageStep(n, from, to) /\ UNCHANGED <<event, shown>>
    BY <1>2 DEF Receive, Prepare, Approve, PackageStates
  <2>2. RetiredStands /\ OneWriterPerStage'
    BY <2>1, NoWrite DEF PackageStep
  <2> QED
    BY <2>1, <2>2, PackageStays DEF IInv, AuthorityTypeOK
<1>3. CASE \E e \in Events, f \in Fixtures : Apply(n, e, f)
  <2>1. PICK e \in Events, f \in Fixtures : Apply(n, e, f)
    BY <1>3
  <2>2. /\ PackageStep(n, {"approved"}, "applied") /\ Deliver(n, e, f)
        /\ ~Blocked(n) /\ n \in Owners /\ UNCHANGED <<assignment, retired>>
    BY <2>1 DEF Apply, PackageStep, Owners
  <2>3. /\ RetiredStands /\ OneWriterPerStage'
        /\ event' \in [Events -> Fixtures \cup {None}]
        /\ shown' \in SUBSET {x \in Events : event'[x] # None}
    BY <2>2, DeliverStands
  <2> QED
    BY <1>1, <2>2, <2>3, PackageStays
<1> QED
  BY <1>2, <1>3

LEMMA DeactivateStep ==
    ASSUME IInv, NEW o \in Owners, NEW d \in Decisions, Deactivate(o, d)
    PROVE  IInv' /\ RetiredStands
<1>1. /\ assignment[o] # None /\ ~Active(o) /\ Clear(o, d)
      /\ retired' = [retired EXCEPT ![o] = d] /\ package' = Rejected(o)
      /\ UNCHANGED <<phase, settings, profiles, assignment, event, shown, seen, today>>
      /\ retired \in [Owners -> Decisions \cup {None}]
      /\ package \in [Namespaces -> PackageStates]
  BY DEF Deactivate, processVars, IInv, AuthorityTypeOK
<1>2. /\ retired' \in [Owners -> Decisions \cup {None}] /\ retired'[o] = d
      /\ \A p \in Owners \ {o} : retired'[p] = retired[p]
  BY <1>1
<1>3. /\ package' \in [Namespaces -> PackageStates]
      /\ \A n \in Namespaces : package'[n] = package[n] \/ package'[n] = "rejected"
      /\ \A n \in Covered(o) : package'[n] \notin {"open", "approved"}
  BY <1>1 DEF Rejected, PackageStates, Covered
<1>4. RetiredStands /\ OneWriterPerStage'
  BY <1>1, NoWrite
<1>5. AuthorityTypeOK' /\ SettingsOK'
  BY <1>1, <1>2, <1>3 DEF IInv, AuthorityTypeOK, SettingsOK
<1>6. RetiredIsFinished'
  <2> SUFFICES ASSUME NEW p \in Owners, Active(p)'
               PROVE  /\ assignment'[p] # None /\ assignment'[p].enabled
                      /\ today' >= retired'[p].completed + retired'[p].grace
                      /\ Unresolved(p, retired[p])' = {}
                      /\ \A n \in Covered(p)' : package'[n] \notin {"open", "approved"}
    BY DEF RetiredIsFinished
  <2>1. Unresolved(p, retired[p])' = Unresolved(p, retired'[p]) /\ Covered(p)' = Covered(p)
    BY <1>1 DEF Unresolved, Boundary, Covered
  <2>2. CASE p = o
    BY <1>1, <1>2, <1>3, <2>1, <2>2 DEF Clear
  <2>3. CASE p # o
    <3>1. Active(p) /\ retired'[p] = retired[p]
      BY <1>2, <2>3 DEF Active
    <3>2. \A n \in Covered(p) : n \in Namespaces
      BY DEF Covered
    <3> QED
      BY <1>1, <1>3, <2>1, <3>1, <3>2 DEF IInv, RetiredIsFinished
  <2> QED
    BY <2>2, <2>3
<1> QED
  BY <1>4, <1>5, <1>6 DEF IInv

LEMMA OtherSteps ==
    ASSUME IInv,
           \/ Serve \/ Stop \/ NextDay \/ UNCHANGED authorityVars
           \/ \E e \in Events : SynchronizeCalendar(e)
           \/ \E o \in Owners : Reactivate(o) \/ \E d \in Decisions : Preview(o, d)
    PROVE  IInv' /\ RetiredStands
<1>1. /\ UNCHANGED <<assignment, event, package, settings, profiles>>
      /\ retired' \in [Owners -> Decisions \cup {None}]
      /\ \A o \in Owners : retired'[o] \in {retired[o], None}
      /\ today' \in 0..MaxDay /\ today' >= today
      /\ shown' \in SUBSET {e \in Events : event[e] # None}
      /\ phase' = phase \/ phase' = "stopped" \/ (phase = "configuring" /\ phase' = "running")
  <2>1. /\ retired \in [Owners -> Decisions \cup {None}] /\ today \in 0..MaxDay
        /\ shown \in SUBSET {e \in Events : event[e] # None} /\ MaxDay \in Nat
    BY DayAssumption DEF IInv, AuthorityTypeOK
  <2>2. CASE Serve \/ Stop \/ UNCHANGED authorityVars
    BY <2>1, <2>2 DEF Serve, Stop, authorityVars, databaseVars, processVars
  <2>3. CASE NextDay
    BY <2>1, <2>3 DEF NextDay, databaseVars, processVars
  <2>4. CASE \E e \in Events : SynchronizeCalendar(e)
    BY <2>1, <2>4 DEF SynchronizeCalendar, processVars
  <2>5. CASE \E o \in Owners : Reactivate(o)
    BY <2>1, <2>5 DEF Reactivate, processVars
  <2>6. CASE \E o \in Owners : \E d \in Decisions : Preview(o, d)
    BY <2>1, <2>6 DEF Preview, processVars, databaseVars
  <2> QED
    BY <2>2, <2>3, <2>4, <2>5, <2>6
<1>2. RetiredStands /\ OneWriterPerStage'
  BY <1>1, NoWrite
<1>3. AuthorityTypeOK' /\ SettingsOK'
  BY <1>1 DEF IInv, AuthorityTypeOK, SettingsOK
<1>4. RetiredIsFinished'
  BY <1>1, <1>2, StaysFinished DEF IInv, AuthorityTypeOK
<1> QED
  BY <1>2, <1>3, <1>4 DEF IInv

LEMMA Steps ==
    ASSUME IInv, [AuthorityNext]_authorityVars
    PROVE  IInv' /\ RetiredStands
BY StartStep, SynchronizeStep, ConfigureStep, ImportStep, PackageSteps, DeactivateStep,
   OtherSteps
   DEF AuthorityNext, Application, Maintenance

LEMMA InitialStates == ASSUME AuthorityInit PROVE IInv
<1>1. AuthorityTypeOK
  BY DayAssumption DEF AuthorityInit, AuthorityTypeOK, PackageStates
<1>2. SettingsOK /\ OneWriterPerStage /\ RetiredIsFinished
  BY DEF AuthorityInit, SettingsOK, OneWriterPerStage, RetiredIsFinished, Active
<1> QED
  BY <1>1, <1>2 DEF IInv

-----------------------------------------------------------------------------
(* A possible configuration is accepted.                                    *)

LEMMA Accepted ==
    ASSUME IInv, NEW c \in Settings, Loadable(c), Feasible(c)
    PROVE  ~Refused(c)
<1> SUFFICES ASSUME NEW j \in Jobs
             PROVE  /\ ~Reserved(j, assignment[j], Released(c)[j])
                    /\ c.jobs[j] # None => ~WriteRefused(TableBefore(c, j), j, c.jobs[j])
  BY DEF Refused
<1>1. j \in Owners /\ AuthorityTypeOK
  BY DEF Owners, IInv
<1>2. Active(j) => Released(c)[j] = assignment[j] /\ c.jobs[j] = assignment[j]
  <2> SUFFICES ASSUME Active(j)
               PROVE  Released(c)[j] = assignment[j] /\ c.jobs[j] = assignment[j]
    OBVIOUS
  <2>1. c.jobs[j] = assignment[j] /\ assignment[j] # None /\ assignment[j].enabled
    BY <1>1 DEF Feasible, IInv, RetiredIsFinished
  <2> QED
    BY <2>1 DEF Released
<1>3. ~Reserved(j, assignment[j], Released(c)[j])
  BY <1>2 DEF Reserved
<1>4. TableBefore(c, j)[j] = Released(c)[j]
  <2>1. ~(Rank[j] < Rank[j])
    BY <1>1, RankAssumption
  <2> QED
    BY <1>1, <2>1 DEF TableBefore
<1>5. ASSUME c.jobs[j] # None
      PROVE  ~WriteRefused(TableBefore(c, j), j, c.jobs[j])
  <2>1. ~Reserved(j, TableBefore(c, j)[j], c.jobs[j])
    BY <1>2, <1>4 DEF Reserved
  <2>2. ~Exceeded(j, c.jobs[j])
    BY <1>5 DEF Feasible
  <2>3. ~Taken(TableBefore(c, j), j)
    <3> SUFFICES ASSUME TableBefore(c, j)[j] = None, NEW p \in Jobs \ {j},
                        Source[p] = Source[j]
                 PROVE  TableBefore(c, j)[p] = None
      BY DEF Taken
    <3>1. assignment[j] = None
      BY <1>1, <1>4, ReleasedRows
    <3>2. assignment[p] = None /\ c.jobs[p] = None
      BY <1>5, <3>1 DEF Feasible
    <3>3. Released(c)[p] = None
      BY <1>1, <3>2, ReleasedRows
    <3> QED
      BY <3>2, <3>3 DEF TableBefore, Owners
  <2>4. ~Overlaps(TableBefore(c, j), j, c.jobs[j])
    <3> SUFFICES ASSUME c.jobs[j].enabled, NEW p \in Owners \ {j},
                        Enabled(TableBefore(c, j)[p])
                 PROVE  TableBefore(c, j)[p].stages \cap c.jobs[j].stages = {}
      BY DEF Overlaps, Enabled
    <3>1. CASE p \in Namespaces
      <4>1. TableBefore(c, j)[p] = assignment[p]
        BY <3>1 DEF TableBefore
      <4> QED
        BY <1>5, <3>1, <4>1 DEF Feasible, Enabled
    <3>2. CASE p \in Jobs
      <4>1. Enabled(c.jobs[p]) /\ TableBefore(c, j)[p].stages = c.jobs[p].stages
        <5>1. CASE TableBefore(c, j)[p] = c.jobs[p]
          BY <5>1
        <5>2. CASE TableBefore(c, j)[p] = Released(c)[p]
          BY <1>1, <3>2, <5>2, ReleasedRows
        <5> QED
          BY <3>2, <5>1, <5>2 DEF TableBefore
      <4> QED
        BY <1>5, <3>2, <4>1, SettingRows DEF Enabled
    <3> QED
      BY <3>1, <3>2 DEF Owners
  <2> QED
    BY <2>1, <2>2, <2>3, <2>4 DEF WriteRefused
<1> QED
  BY <1>3, <1>5

-----------------------------------------------------------------------------
\* What the rows, the retirements and the packages of every start and every
\* retirement have in common.
THEOREM Inductive == AuthoritySpec => []IInv
<1>1. AuthorityInit => IInv
  BY InitialStates
<1>2. IInv /\ [AuthorityNext]_authorityVars => IInv'
  BY Steps
<1> QED
  BY <1>1, <1>2, PTL DEF AuthoritySpec

\* Processes, rows, fixtures and packages keep their types.
THEOREM TypeCorrect == AuthoritySpec => []AuthorityTypeOK
<1>1. IInv => AuthorityTypeOK
  BY DEF IInv
<1> QED
  BY Inductive, <1>1, PTL

\* No stage has two enabled writers, over any sequence of starts, failed
\* starts and configurations.
THEOREM WritersAreSeparate == AuthoritySpec => []OneWriterPerStage
<1>1. IInv => OneWriterPerStage
  BY DEF IInv
<1> QED
  BY Inductive, <1>1, PTL

\* A retired scope is finished for as long as it is retired.
THEOREM RetiredScopesAreFinished == AuthoritySpec => []RetiredIsFinished
<1>1. IInv => RetiredIsFinished
  BY DEF IInv
<1> QED
  BY Inductive, <1>1, PTL

\* No step changes the grant or a fixture of a scope that stays retired.
THEOREM RetiredScopesStand == AuthoritySpec => RetiredHistoryStands
<1>1. IInv /\ [AuthorityNext]_authorityVars => [RetiredStands]_authorityVars
  BY Steps
<1> QED
  BY Inductive, <1>1, PTL DEF AuthoritySpec, RetiredHistoryStands

\* A configuration that leaves manual, retired and mapped scopes alone is
\* never refused.
THEOREM PossibleStartsSucceed == AuthoritySpec => []PossibleIsAccepted
<1>1. IInv => PossibleIsAccepted
  BY Accepted DEF PossibleIsAccepted
<1> QED
  BY Inductive, <1>1, PTL

=============================================================================

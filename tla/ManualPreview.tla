---------------------------- MODULE ManualPreview ----------------------------
(***************************************************************************)
(* The plan of a manual package (app/application/manual_preview_service.py) *)
(* and what the transaction that applies it makes of it                    *)
(* (app/application/manual_import_service.py, apply).                      *)
(*                                                                         *)
(* A package is planned without a write, fixture by fixture, against the   *)
(* rows it will be imported into.  One fixture that cannot be planned      *)
(* makes the whole package unacceptable; an accepted one goes through the  *)
(* importer of FixtureImport, in one transaction that begins by planning   *)
(* it again.  When packages are reviewed, approved and applied is the      *)
(* subject of ManualImport.                                                *)
(***************************************************************************)
EXTENDS FixtureImport

-----------------------------------------------------------------------------
(* plan_preview and _plan_fixture.                                         *)

\* The event a namespace creates for its external ID, and the one it has mapped.
Key(s, f) == <<s, f.external>>
Known(s, f) == db.mapping[s][f.external]

\* shared_event_requires_explicit_handover
Shared(s, f) ==
    \E t \in Sources, x \in Externals :
        <<t, x>> # <<s, f.external>> /\ db.mapping[t][x] = Known(s, f)

\* Mutant: an event that another source has adopted is updated all the same.
MappedAndShared(s, f) ==
    /\ Known(s, f) = Key(s, f)
    /\ db.event[Known(s, f)].stage \in authority[s]

\* A mapping must be the namespace's own: with the stable key, within its
\* stages, and nobody else's.
MappedAlone(s, f) ==
    /\ Known(s, f) = Key(s, f)
    /\ db.event[Known(s, f)].stage \in authority[s]
    /\ ~Shared(s, f)

\* Mutant: a new ID is taken for a new match.
NewId(s, f) == db.event[Key(s, f)] = None

\* unmapped_stable_key_collision, candidate_identity_requires_review: a new ID
\* for a match of the same stage and round is suspicious, deleted or not.
NewMatch(s, f) ==
    /\ db.event[Key(s, f)] = None
    /\ f.pair # None =>
          \A e \in EventIds :
              db.event[e] # None =>
                  <<db.event[e].pair, db.event[e].stage>> # <<f.pair, f.stage>>

Plannable(s, f) ==
    IF Known(s, f) # None THEN MappedAlone(s, f) ELSE NewMatch(s, f)

\* duplicate_fixture_candidate
Distinct(fixtures) ==
    \A f, g \in fixtures :
        f # g /\ f.pair # None => <<f.pair, f.stage>> # <<g.pair, g.stage>>

Accepted(o) ==
    /\ Distinct(o.fixtures)
    /\ \A f \in o.fixtures : Plannable(o.source, f)

\* Mutant: the plan compares what is delivered, not what would be written.
DecisionAsDelivered(s, f) ==
    CASE f.pair = None -> "DEFER"
      [] f.pair # None /\ Known(s, f) = None ->
            IF f.kickoff = None THEN "DEFER" ELSE "CREATE"
      [] OTHER ->
            LET row == db.event[Known(s, f)] IN
            IF row.start = f.kickoff /\ Target(row, f) = row THEN "SKIP" ELSE "UPDATE"

\* What is planned for a fixture; an existing event is compared with the values
\* the importer would give it.
Decision(s, f) ==
    CASE f.pair = None -> "DEFER"
      [] f.pair # None /\ Known(s, f) = None ->
            IF f.kickoff = None THEN "DEFER" ELSE "CREATE"
      [] OTHER ->
            LET row == db.event[Known(s, f)] IN
            IF Target(row, f) = row THEN "SKIP" ELSE "UPDATE"

-----------------------------------------------------------------------------
(* ManualImportService.apply plans again in the transaction it imports in.  *)

BeginReviewed(o) ==
    /\ o.source \in Manual => Accepted(o)
    /\ Begin(o)

PreviewedNext ==
    \/ \E s \in Sources, stages \in Grants : Assign(s, stages)
    \/ \E o \in Observable : BeginReviewed(o)
    \/ \E f \in FixtureRecords : ImportFixture(f)
    \/ Commit
    \/ Rollback

PreviewedSpec == Init /\ [][PreviewedNext]_vars

-----------------------------------------------------------------------------
(* What a plan promises.                                                    *)

Applying == tx # None /\ Source \in Manual

\* The importer refuses nothing that was planned, whatever it has written for
\* the other fixtures of the package.
Fits(f) ==
    /\ Mapped(f) # None => work.event[Mapped(f)].stage \in authority[Source]
    /\ Decision(Source, f) = "CREATE" => work.event[Key(Source, f)] = None

PlanFits == Applying => \A f \in tx.todo : Fits(f)

\* What a step made of the fixture it took up.
Outcome(f) ==
    CASE work' = work -> {"SKIP", "DEFER"}
      [] work' # work /\ Mapped(f) = None -> {"CREATE"}
      [] OTHER -> {"UPDATE"}

Follows ==
    Applying /\ tx' # None =>
        \A f \in tx.todo \ tx'.todo : Decision(Source, f) \in Outcome(f)

\* "Canonical outcome differs from reviewed plan" cannot happen: two pieces of
\* code, one of which sees the database before and one while the other fixtures
\* are written, decide alike, so that an approved package is never refused.
PlanIsImported == []PlanFits /\ [][Follows]_vars

\* docs/manual-import-preview.md: "shared provider mappings ... require explicit
\* review".  After stages were handed to a provider and back, a package still
\* changes no event that the provider has adopted.
SharedIsUntouched ==
    [][Applying /\ db' # db =>
          \A e \in EventIds, t \in Sources \ {Source} :
              db'.event[e] # db.event[e] => e \notin MappedBy(db, t)]_vars

\* docs/manual-import-preview.md: "suspicious new IDs for an existing matchup"
\* are reviewed: no package adds a second event for a match of a stage, against
\* the database or within itself.
Twins(d, e1, e2) ==
    /\ d.event[e1] # None /\ d.event[e2] # None
    /\ <<d.event[e1].pair, d.event[e1].stage>> = <<d.event[e2].pair, d.event[e2].stage>>

NoTwinIsCreated ==
    [][Applying /\ db' # db =>
          \A e1, e2 \in EventIds :
              e1 # e2 /\ db.event[e1] = None => ~Twins(db', e1, e2)]_vars
=============================================================================

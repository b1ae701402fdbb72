-------------------------- MODULE EventMediaProofs --------------------------
(***************************************************************************)
(* Proofs about EventMedia for every set of slots, images and versions,    *)
(* every choice of candidates, any changes of the library and of the event *)
(* and every fault: the body refers to attached images only, an upload     *)
(* Graph already has is not repeated, and a cycle over an appointment that *)
(* shows what it should changes nothing.                                   *)
(*                                                                         *)
(* They rest on one invariant about three places that are changed by       *)
(* separate requests and transactions: the rows, which remember what was   *)
(* intended and what was done, the attachments Graph has, and the body.    *)
(***************************************************************************)
EXTENDS EventMedia, FiniteSetTheorems, TLAPS

TypeOK ==
    /\ active \subseteq Assets
    /\ content \in Contents /\ removed \in BOOLEAN
    /\ mapping \in {"absent", "live", "deleted"} /\ presentation \in Nat
    /\ row \in [Slots -> Rows \cup {None}]
    /\ remote \subseteq [id: Attachments, cid: ContentIds]
    /\ body \in Bodies \cup {None}
    /\ pc \in Steps /\ todo \subseteq Slots
    /\ pc # "idle" =>
          snapshot \in [content: Contents, removed: BOOLEAN, presentation: Nat]
    /\ damaged \in BOOLEAN

\* The images a row refers to.
Known(s) == IF row[s] = None THEN {} ELSE {row[s].synced, row[s].pending} \ {None}

(* No two rows refer to one content ID or one attachment, and none of them   *)
(* to an attachment that is to be deleted.                                  *)
IdsApart ==
    /\ \A s, t \in Slots : \A i \in Known(s), j \in Known(t) :
          /\ i.cid = j.cid => s = t /\ i = j
          /\ i.attachment # None /\ i.attachment = j.attachment => s = t /\ i = j
    /\ \A s \in Existing : row[s].synced # None => row[s].synced # row[s].pending
    /\ \A s \in Existing, t \in Slots : \A i \in Known(t) :
          row[s].obsolete # None => row[s].obsolete # i.attachment

(* An attachment has the content ID under which its row remembers it; one    *)
(* that is to be deleted has a content ID no row remembers.                 *)
RemoteApart(attachments) ==
    /\ \A a, b \in attachments : a.id = b.id => a = b
    /\ \A s \in Slots : \A i \in Known(s), a \in attachments :
          a.id = i.attachment => a.cid = i.cid
    /\ \A s \in Existing, t \in Slots : \A i \in Known(t), a \in attachments :
          a.id = row[s].obsolete => a.cid # i.cid

(* The pending image is the desired one, and there is none before the last   *)
(* obsolete attachment is gone.                                             *)
RowOK(r) ==
    /\ r.pending # None =>
          /\ r.obsolete = None /\ r.desired # None
          /\ ImageSha(r.pending) = ShaOf(r.desired)
    /\ r.synced # None => r.synced.attachment # None

RowsOK == \A s \in Existing : RowOK(row[s])

Reconciling == {"queued", "refresh", "clean", "audit", "select", "reclean", "prepare",
                "upload", "finish", "deleted"}

Unsent(s) == \A a \in remote : a.cid # row[s].pending.cid

ProcessOK ==
    /\ pc \in Reconciling => mapping = "live"
    /\ pc = "text" => (snapshot.removed => mapping = "live")
    /\ pc \in {"deleted", "unmapped"} => body = None
    /\ pc \in {"clean", "reclean", "finish"} => todo \subseteq Existing
    /\ pc = "prepare" => \A s \in todo : Preparable(s)
    /\ pc = "upload" => \A s \in todo :
          s \in Awaiting /\ ("repeated" \notin Faults => Unsent(s))

(* As long as nothing was damaged, the body shows images that the rows have  *)
(* recorded, whatever the rows refer to is attached, and rows without an     *)
(* appointment refer to nothing.                                            *)
BodyOK ==
    /\ body # None =>
          /\ RowsIntact(remote)
          /\ \A s \in Slots : body.images[s] # None =>
                s \in Synchronized /\ body.images[s] = row[s].synced.cid
    /\ mapping = "absent" \/ (mapping = "deleted" /\ pc # "unmapped") => RowsIntact({})

IInv ==
    /\ TypeOK /\ IdsApart /\ RemoteApart(remote) /\ RowsOK /\ ProcessOK
    /\ ~damaged => BodyOK
    /\ "repeated" \notin Faults => NoDuplicateUpload

-----------------------------------------------------------------------------
(* Values.                                                                  *)

LEMMA NoneIsNone ==
    /\ None \notin Rows /\ None \notin Images /\ None \notin Bodies
    /\ None \notin Assets /\ None \notin ContentIds /\ None \notin Attachments
BY RowAssumption, NoneAssumption

LEMMA ShaFacts ==
    /\ ShaOf(None) = None /\ ImageSha(None) = None
    /\ \A x \in Assets : ShaOf(x) = Sha[x] /\ Sha[x] # None
    /\ \A i \in Images : ImageSha(i) = Sha[i.asset] /\ ImageSha(i) # None
BY NoneAssumption, NoneIsNone DEF ShaOf, ImageSha, Images

LEMMA FailedRow ==
    ASSUME NEW r \in Rows
    PROVE  /\ Failed(r) \in Rows
           /\ Failed(r).desired = r.desired /\ Failed(r).synced = r.synced
           /\ Failed(r).pending = r.pending /\ Failed(r).obsolete = r.obsolete
           /\ Failed(r).status = "failed"
BY DEF Failed, Rows, Statuses

LEMMA CleanedRow ==
    ASSUME NEW r \in Rows
    PROVE  /\ Cleaned(r) \in Rows
           /\ Cleaned(r).desired = r.desired /\ Cleaned(r).synced = r.synced
           /\ Cleaned(r).pending = r.pending /\ Cleaned(r).obsolete = None
BY DEF Cleaned, Rows, Statuses

LEMMA MissingRow ==
    ASSUME NEW r \in Rows
    PROVE  /\ Missing(r) \in Rows
           /\ Missing(r).desired = r.desired /\ Missing(r).synced = None
           /\ Missing(r).pending = r.pending /\ Missing(r).obsolete = r.obsolete
BY DEF Missing, Rows, Statuses

LEMMA ForgottenRow ==
    /\ Forgotten \in Rows /\ Forgotten.synced = None /\ Forgotten.pending = None
    /\ Forgotten.obsolete = None
BY DEF Forgotten, Rows, Statuses

LEMMA RefreshedRow ==
    ASSUME NEW r \in Rows
    PROVE  /\ Refreshed(r) \in Rows
           /\ Refreshed(r).desired = r.desired /\ Refreshed(r).synced = r.synced
           /\ Refreshed(r).pending = r.pending /\ Refreshed(r).obsolete = r.obsolete
BY NoneIsNone DEF Refreshed, Rows, Statuses

\* A new choice drops a pending image that is not of it.
LEMMA DesiredRow ==
    ASSUME NEW r \in Rows, RowOK(r), NEW x \in Assets \cup {None}
    PROVE  LET n == Desire(r, x) IN
           /\ n \in Rows /\ RowOK(n)
           /\ n.synced = r.synced
           /\ n.pending \in {r.pending, None}
           /\ \/ n.obsolete = r.obsolete
              \/ /\ r.pending # None /\ n.pending = None
                 /\ n.obsolete = r.pending.attachment
<1> DEFINE n == Desire(r, x)
           kept == ImageSha(r.pending) = ShaOf(x)
           moved == IF r.pending = None \/ kept THEN r.obsolete
                    ELSE IF r.pending.attachment = None THEN r.obsolete
                    ELSE r.pending.attachment
           m == [r EXCEPT !.desired = x,
                          !.pending = IF kept THEN @ ELSE None,
                          !.obsolete = moved,
                          !.status = IF moved # None THEN "cleanup_pending"
                                     ELSE IF ShaOf(x) = ImageSha(r.synced)
                                     THEN "synced" ELSE "pending"]
<1>0. r # None
  BY NoneIsNone
<1>1. CASE r.desired = x
  BY <1>0, <1>1 DEF Desire
<1>2. CASE r.desired # x
  <2>1. n = m
    BY <1>0, <1>2 DEF Desire
  <2>2. /\ r.pending \in Images \cup {None} /\ r.synced \in Images \cup {None}
        /\ r.obsolete \in Attachments \cup {None}
    BY DEF Rows
  <2>3. moved \in Attachments \cup {None}
    BY <2>2 DEF Images
  <2> HIDE DEF moved, kept
  <2>4. /\ m \in Rows /\ m.desired = x /\ m.synced = r.synced
        /\ m.pending = (IF kept THEN r.pending ELSE None) /\ m.obsolete = moved
    BY <2>2, <2>3 DEF Rows, Statuses
  <2> HIDE DEF m
  <2>5. RowOK(m)
    <3> SUFFICES ASSUME m.pending # None
                 PROVE  /\ m.obsolete = None /\ m.desired # None
                        /\ ImageSha(m.pending) = ShaOf(m.desired)
      BY <2>4 DEF RowOK
    <3>1. kept /\ m.pending = r.pending /\ r.pending # None
      BY <2>4
    <3>2. moved = r.obsolete /\ r.obsolete = None
      BY <3>1 DEF moved, RowOK
    <3>3. ImageSha(r.pending) = ShaOf(x) /\ ImageSha(r.pending) # None
      BY <2>2, <3>1, ShaFacts DEF kept
    <3> QED
      BY <2>4, <3>1, <3>2, <3>3, ShaFacts
  <2>6. \/ m.obsolete = r.obsolete
        \/ /\ r.pending # None /\ m.pending = None
           /\ m.obsolete = r.pending.attachment
    BY <2>4 DEF moved, kept
  <2> QED
    BY <2>1, <2>4, <2>5, <2>6
<1> QED
  BY <1>1, <1>2

LEMMA TargetFacts ==
    ASSUME NEW r \in Rows, RowOK(r)
    PROVE  /\ Target(r) \in {None, r.pending, r.synced} /\ Target(r) \in Images \cup {None}
           /\ Target(r) # None => Target(r).attachment # None
           /\ Target(r) = None /\ r.pending # None =>
                 r.synced = None /\ r.pending.attachment = None
           /\ r.pending # None /\ r.pending.attachment # None => Target(r) = r.pending
<1>1. r.pending \in Images \cup {None} /\ r.synced \in Images \cup {None}
      /\ r.desired \in Assets \cup {None}
  BY DEF Rows
<1>2. r.pending # None => r.desired \in Assets /\ ImageSha(r.pending) = Sha[r.desired]
  BY <1>1, ShaFacts DEF RowOK
<1> QED
  BY <1>1, <1>2 DEF Target, RowOK

\* What the body shows is recorded, and the image it showed is obsolete.
LEMMA ShownRow ==
    ASSUME NEW r \in Rows, RowOK(r), r.synced # None => r.synced # r.pending
    PROVE  LET n == Shown(r) IN
           /\ n \in Rows /\ RowOK(n)
           /\ n.synced = Target(r)
           /\ n.pending \in {r.pending, None}
           /\ n.synced # None => n.synced # n.pending
           /\ \/ n.obsolete = r.obsolete
              \/ /\ r.synced # None /\ n.synced # r.synced /\ n.pending # r.synced
                 /\ n.obsolete = r.synced.attachment
<1> DEFINE t == Target(r)
           obsolete == IF r.synced # None /\ AttachmentOf(t) # r.synced.attachment
                       THEN r.synced.attachment ELSE r.obsolete
           n == [r EXCEPT !.synced = t,
                          !.pending = IF t # None /\ r.pending = t THEN None ELSE @,
                          !.obsolete = obsolete,
                          !.status = IF obsolete # None THEN "cleanup_pending"
                                     ELSE IF ShaOf(r.desired) = ImageSha(t)
                                     THEN "synced" ELSE "pending"]
<1>0. Shown(r) = n
  BY DEF Shown
<1>1. /\ r.pending \in Images \cup {None} /\ r.synced \in Images \cup {None}
      /\ r.obsolete \in Attachments \cup {None}
  BY DEF Rows
<1>2. /\ t \in {None, r.pending, r.synced} /\ t \in Images \cup {None}
      /\ t # None => t.attachment # None
      /\ t = None /\ r.pending # None => r.synced = None /\ r.pending.attachment = None
      /\ r.pending # None /\ r.pending.attachment # None => t = r.pending
  BY TargetFacts
<1>3. obsolete \in Attachments \cup {None}
  BY <1>1 DEF Images
<1>4. obsolete = r.obsolete \/ (r.synced # None /\ t # r.synced /\ obsolete = r.synced.attachment)
  BY <1>1 DEF AttachmentOf
<1>5. r.pending # None /\ t # r.pending => obsolete = r.obsolete
  BY <1>1, <1>2, NoneIsNone DEF AttachmentOf
<1> HIDE DEF t, obsolete
<1>6. /\ n \in Rows /\ n.desired = r.desired /\ n.synced = t /\ n.obsolete = obsolete
      /\ n.pending = (IF t # None /\ r.pending = t THEN None ELSE r.pending)
  BY <1>1, <1>2, <1>3 DEF Rows, Statuses
<1> HIDE DEF n
<1>7. RowOK(n)
  BY <1>2, <1>5, <1>6 DEF RowOK
<1>8. n.synced # None => n.synced # n.pending
  BY <1>2, <1>6
<1>9. r.synced # None => n.pending # r.synced
  BY <1>6
<1> QED
  BY <1>0, <1>4, <1>6, <1>7, <1>8, <1>9 DEF t

-----------------------------------------------------------------------------
(* What rows and attachments have to do with each other.                    *)

LEMMA KnownImages ==
    ASSUME TypeOK, NEW s \in Slots
    PROVE  /\ Known(s) \subseteq Images
           /\ s \in Existing <=> row[s] # None
           /\ s \in Existing => row[s] \in Rows
           /\ s \in Existing => Known(s) = {row[s].synced, row[s].pending} \ {None}
BY DEF TypeOK, Known, Existing, Rows

(* Rows that refer to fewer images than before, except that an image that is *)
(* dropped may become obsolete, are as far apart as they were.              *)
LEMMA Narrowed ==
    ASSUME TypeOK, IdsApart, RemoteApart(remote), remote' \subseteq remote,
           \A s \in Slots : Known(s)' \subseteq Known(s),
           \A s \in Existing' :
              /\ row'[s].synced # None => row'[s].synced # row'[s].pending
              /\ \/ row'[s].obsolete = None
                 \/ s \in Existing /\ row'[s].obsolete = row[s].obsolete
                 \/ \E i \in Known(s) : i \notin Known(s)' /\ row'[s].obsolete = i.attachment
    PROVE  IdsApart' /\ RemoteApart(remote)'
<1>1. \A s, t \in Slots : \A i \in Known(s)', j \in Known(t)' :
          /\ i.cid = j.cid => s = t /\ i = j
          /\ i.attachment # None /\ i.attachment = j.attachment => s = t /\ i = j
  BY DEF IdsApart
<1>2. Existing' \subseteq Slots
  BY DEF Existing
<1>3. ASSUME NEW s \in Existing', NEW t \in Slots, NEW j \in Known(t)', row'[s].obsolete # None
      PROVE  row'[s].obsolete # j.attachment
  <2>1. j \in Known(t) /\ s \in Slots
    BY <1>2
  <2>2. CASE s \in Existing /\ row'[s].obsolete = row[s].obsolete
    BY <1>3, <2>1, <2>2 DEF IdsApart
  <2>3. ASSUME NEW i \in Known(s), i \notin Known(s)', row'[s].obsolete = i.attachment
        PROVE  row'[s].obsolete # j.attachment
    BY <1>3, <2>1, <2>3 DEF IdsApart
  <2> QED
    BY <1>3, <2>2, <2>3
<1>4. ASSUME NEW s \in Existing', NEW t \in Slots, NEW j \in Known(t)', NEW a \in remote',
             a.id = row'[s].obsolete
      PROVE  a.cid # j.cid
  <2>1. j \in Known(t) /\ s \in Slots /\ a \in remote /\ a.id # None
    BY <1>2, NoneIsNone DEF TypeOK
  <2>2. CASE s \in Existing /\ row'[s].obsolete = row[s].obsolete
    BY <1>4, <2>1, <2>2 DEF RemoteApart
  <2>3. ASSUME NEW i \in Known(s), i \notin Known(s)', row'[s].obsolete = i.attachment
        PROVE  a.cid # j.cid
    <3>1. a.cid = i.cid
      BY <1>4, <2>1, <2>3 DEF RemoteApart
    <3> QED
      BY <2>1, <2>3, <3>1 DEF IdsApart
  <2> QED
    BY <1>4, <2>1, <2>2, <2>3
<1>5. IdsApart'
  BY <1>1, <1>3 DEF IdsApart
<1>6. RemoteApart(remote)'
  BY <1>4 DEF RemoteApart
<1> QED
  BY <1>5, <1>6

(* Images whose attachment is found by their content ID.                    *)
LEMMA FoundImages ==
    ASSUME TypeOK, IdsApart, NEW R, RemoteApart(R),
           \A a \in R : a.id # None,
           row' \in [Slots -> Rows \cup {None}],
           \A s \in Slots :
              /\ row'[s] = None <=> row[s] = None
              /\ row[s] # None =>
                    /\ row'[s].synced = row[s].synced /\ row'[s].obsolete = row[s].obsolete
                    /\ row'[s].pending = None <=> row[s].pending = None
                    /\ row'[s].pending # None => row'[s].pending.cid = row[s].pending.cid
                    /\ \/ row'[s].pending = row[s].pending
                       \/ [id |-> row'[s].pending.attachment,
                           cid |-> row'[s].pending.cid] \in R
    PROVE  /\ IdsApart'
           /\ \A a, b \in R : a.id = b.id => a = b
           /\ \A s \in Slots : \A i \in Known(s)', a \in R :
                 a.id = i.attachment => a.cid = i.cid
           /\ \A s \in Existing', t \in Slots : \A i \in Known(t)', a \in R :
                 a.id = row'[s].obsolete => a.cid # i.cid
<1> DEFINE Entry(j) == [id |-> j.attachment, cid |-> j.cid]
<1>0. Existing' = Existing /\ Existing \subseteq Slots
  BY DEF Existing
<1>1. ASSUME NEW s \in Slots, NEW j \in Known(s)'
      PROVE  /\ s \in Existing
             /\ \/ /\ j = row[s].synced /\ j # None /\ j \in Known(s)
                \/ /\ j = row'[s].pending /\ row[s].pending # None
                   /\ row[s].pending \in Known(s) /\ j.cid = row[s].pending.cid
                   /\ j = row[s].pending \/ Entry(j) \in R
  BY DEF Known, Existing
<1>2. ASSUME NEW s \in Slots, NEW t \in Slots, NEW i \in Known(s)', NEW j \in Known(t)',
             i.cid = j.cid
      PROVE  s = t /\ i = j
  <2>1. s \in Existing /\ t \in Existing
    BY <1>1
  <2>2. \E k \in Known(s), l \in Known(t) :
           /\ k.cid = i.cid /\ l.cid = j.cid
           /\ (k = row[s].synced /\ i = k) \/ (k = row[s].pending /\ i = row'[s].pending)
           /\ (l = row[t].synced /\ j = l) \/ (l = row[t].pending /\ j = row'[t].pending)
    BY <1>1
  <2>3. PICK k \in Known(s), l \in Known(t) :
           /\ k.cid = i.cid /\ l.cid = j.cid
           /\ (k = row[s].synced /\ i = k) \/ (k = row[s].pending /\ i = row'[s].pending)
           /\ (l = row[t].synced /\ j = l) \/ (l = row[t].pending /\ j = row'[t].pending)
    BY <2>2
  <2>4. s = t /\ k = l
    BY <1>2, <2>3 DEF IdsApart
  <2>5. row[s].synced # None => row[s].synced # row[s].pending
    BY <2>1 DEF IdsApart
  <2>6. k # None
    BY DEF Known
  <2> QED
    BY <2>3, <2>4, <2>5, <2>6
<1>3. ASSUME NEW s \in Slots, NEW j \in Known(s)'
      PROVE  \/ j \in Known(s)
             \/ Entry(j) \in R /\ \E k \in Known(s) : k.cid = j.cid
  BY <1>1
<1>4. ASSUME NEW s \in Slots, NEW t \in Slots, NEW i \in Known(s)', NEW j \in Known(t)',
             i.attachment # None, i.attachment = j.attachment
      PROVE  s = t /\ i = j
  <2>1. CASE i \in Known(s) /\ j \in Known(t)
    BY <1>4, <2>1 DEF IdsApart
  <2>2. CASE Entry(i) \in R /\ j \in Known(t)
    <3>1. Entry(i).cid = j.cid
      BY <1>4, <2>2 DEF RemoteApart
    <3> QED
      BY <1>2, <3>1
  <2>3. CASE i \in Known(s) /\ Entry(j) \in R
    <3>1. Entry(j).cid = i.cid
      BY <1>4, <2>3 DEF RemoteApart
    <3> QED
      BY <1>2, <3>1
  <2>4. CASE Entry(i) \in R /\ Entry(j) \in R
    <3>1. Entry(i).id = Entry(j).id
      BY <1>4
    <3>2. Entry(i) = Entry(j)
      BY <2>4, <3>1 DEF RemoteApart
    <3>3. i.cid = j.cid
      BY <3>2
    <3> QED
      BY <1>2, <3>3
  <2> QED
    BY <1>3, <2>1, <2>2, <2>3, <2>4
<1>5. ASSUME NEW s \in Existing', row'[s].synced # None
      PROVE  row'[s].synced # row'[s].pending
  <2>1. s \in Existing /\ s \in Slots /\ row[s] # None
    BY <1>0 DEF Existing
  <2>2. row[s].synced \in Known(s) /\ row'[s].synced = row[s].synced
    BY <1>5, <2>1 DEF Known
  <2>3. CASE row[s].pending = None
    BY <1>5, <2>1, <2>3
  <2>4. CASE row[s].pending # None
    <3>1. row[s].pending \in Known(s) /\ row[s].synced # row[s].pending
      BY <2>1, <2>2, <2>4 DEF Known, IdsApart
    <3>2. row[s].synced.cid # row[s].pending.cid
      BY <2>1, <2>2, <3>1 DEF IdsApart
    <3> QED
      BY <2>1, <2>2, <2>4, <3>2
  <2> QED
    BY <2>3, <2>4
<1>6. ASSUME NEW s \in Existing', NEW t \in Slots, NEW j \in Known(t)', row'[s].obsolete # None
      PROVE  row'[s].obsolete # j.attachment
  <2>1. s \in Existing /\ s \in Slots /\ row[s] # None /\ row'[s].obsolete = row[s].obsolete
    BY <1>0 DEF Existing
  <2>2. CASE j \in Known(t)
    BY <1>6, <2>1, <2>2 DEF IdsApart
  <2>3. CASE Entry(j) \in R /\ \E k \in Known(t) : k.cid = j.cid
    BY <2>1, <2>3 DEF RemoteApart
  <2> QED
    BY <1>3, <2>2, <2>3
<1>7. ASSUME NEW s \in Slots, NEW j \in Known(s)', NEW a \in R, a.id = j.attachment
      PROVE  a.cid = j.cid
  <2>1. CASE j \in Known(s)
    BY <1>7, <2>1 DEF RemoteApart
  <2>2. CASE Entry(j) \in R
    <3>1. a = Entry(j)
      BY <1>7, <2>2 DEF RemoteApart
    <3> QED
      BY <3>1
  <2> QED
    BY <1>3, <2>1, <2>2
<1>8. ASSUME NEW s \in Existing', NEW t \in Slots, NEW j \in Known(t)', NEW a \in R,
             a.id = row'[s].obsolete
      PROVE  a.cid # j.cid
  <2>1. s \in Existing /\ row'[s].obsolete = row[s].obsolete
    BY <1>0 DEF Existing
  <2>2. \E k \in Known(t) : k.cid = j.cid
    BY <1>3
  <2> QED
    BY <1>8, <2>1, <2>2 DEF RemoteApart
<1>9. IdsApart'
  BY <1>2, <1>4, <1>5, <1>6 DEF IdsApart
<1>10. \A a, b \in R : a.id = b.id => a = b
  BY DEF RemoteApart
<1> QED
  BY <1>7, <1>8, <1>9, <1>10

\* What Graph or uuid4 returns is not the same as anything the rows remember.
LEMMA FreshAttachment ==
    ASSUME TypeOK, NEW known, KnownAttachments \subseteq known, NEW id, Fresh(Attachments, known, id)
    PROVE  /\ id \in Attachments /\ id # None
           /\ \A a \in remote : a.id # id
           /\ \A s \in Slots : \A i \in Known(s) : i.attachment # id
           /\ \A s \in Existing : row[s].obsolete # id
<1>1. id \in Attachments /\ id \notin KnownAttachments /\ id # None
  BY NoneIsNone DEF Fresh
<1>2. \A a \in remote : a.id # id
  BY <1>1 DEF KnownAttachments
<1>3. ASSUME NEW s \in Slots, NEW i \in Known(s) PROVE i.attachment # id
  <2>1. s \in Existing /\ (i = row[s].synced \/ i = row[s].pending) /\ i # None
    BY DEF Known, Existing
  <2> QED
    BY <1>1, <2>1 DEF KnownAttachments, Synchronized
<1>4. ASSUME NEW s \in Existing PROVE row[s].obsolete # id
  BY <1>1 DEF KnownAttachments, Obsolete
<1> QED
  BY <1>1, <1>2, <1>3, <1>4

LEMMA FreshContentId ==
    ASSUME TypeOK, NEW cid, Fresh(ContentIds, KnownContentIds, cid)
    PROVE  /\ cid \in ContentIds
           /\ \A a \in remote : a.cid # cid
           /\ \A s \in Slots : \A i \in Known(s) : i.cid # cid
<1>1. cid \in ContentIds /\ cid \notin KnownContentIds
  BY DEF Fresh
<1>2. \A a \in remote : a.cid # cid
  BY <1>1 DEF KnownContentIds
<1>3. ASSUME NEW s \in Slots, NEW i \in Known(s) PROVE i.cid # cid
  <2>1. s \in Existing /\ (i = row[s].synced \/ i = row[s].pending) /\ i # None
    BY DEF Known, Existing
  <2> QED
    BY <1>1, <2>1 DEF KnownContentIds, Synchronized
<1> QED
  BY <1>1, <1>2, <1>3

\* New attachments with a content ID that a row remembers.
LEMMA GrownRemote ==
    ASSUME TypeOK, IdsApart, RemoteApart(remote),
           NEW s \in Slots, NEW p \in Known(s), p.attachment = None,
           NEW id, NEW again,
           Fresh(Attachments, KnownAttachments, id),
           again = id \/ Fresh(Attachments, KnownAttachments \cup {id}, again)
    PROVE  LET R == remote \cup {[id |-> i, cid |-> p.cid] : i \in {id, again}} IN
           /\ RemoteApart(R)
           /\ R \subseteq [id: Attachments, cid: ContentIds]
<1> DEFINE R == remote \cup {[id |-> i, cid |-> p.cid] : i \in {id, again}}
<1>1. ASSUME NEW i \in {id, again}
      PROVE  /\ i \in Attachments /\ i # None
             /\ \A a \in remote : a.id # i
             /\ \A t \in Slots : \A j \in Known(t) : j.attachment # i
             /\ \A t \in Existing : row[t].obsolete # i
  BY FreshAttachment
<1>2. p.cid \in ContentIds
  BY KnownImages DEF Images
<1>3. \A a, b \in R : a.id = b.id => a = b
  BY <1>1 DEF RemoteApart
<1>4. \A t \in Slots : \A j \in Known(t), a \in R : a.id = j.attachment => a.cid = j.cid
  BY <1>1 DEF RemoteApart
<1>5. \A t \in Existing, u \in Slots : \A j \in Known(u), a \in R :
          a.id = row[t].obsolete => a.cid # j.cid
  BY <1>1 DEF RemoteApart
<1>6. RemoteApart(R)
  BY <1>3, <1>4, <1>5 DEF RemoteApart
<1>7. R \subseteq [id: Attachments, cid: ContentIds]
  BY <1>1, <1>2 DEF TypeOK
<1> QED
  BY <1>6, <1>7

LEMMA IntactRows ==
    ASSUME NEW R
    PROVE  RowsIntact(R) <=>
             \A s \in Slots : \A i \in Known(s) :
                i.attachment # None => [id |-> i.attachment, cid |-> i.cid] \in R
BY DEF RowsIntact, Known

LEMMA IntactRowsNext ==
    /\ RowsIntact(remote)' <=>
          \A s \in Slots : \A i \in Known(s)' :
             i.attachment # None => [id |-> i.attachment, cid |-> i.cid] \in remote'
    /\ RowsIntact({})' <=>
          \A s \in Slots : \A i \in Known(s)' : i.attachment = None
<1>1. RowsIntact(remote)' <=>
          \A s \in Slots : \A i \in Known(s)' :
             i.attachment # None => [id |-> i.attachment, cid |-> i.cid] \in remote'
  BY DEF RowsIntact, Known
<1>2. RowsIntact({})' <=>
          \A s \in Slots : \A i \in Known(s)' : i.attachment = None
  BY DEF RowsIntact, Known
<1> QED
  BY <1>1, <1>2

(* A step that only drops images or attachments.                            *)
LEMMA NarrowedInv ==
    ASSUME IInv, TypeOK', RowsOK', ProcessOK', ~damaged' => BodyOK',
           remote' \subseteq remote,
           \A s \in Slots : Known(s)' \subseteq Known(s),
           \A s \in Existing' :
              /\ row'[s].synced # None => row'[s].synced # row'[s].pending
              /\ \/ row'[s].obsolete = None
                 \/ s \in Existing /\ row'[s].obsolete = row[s].obsolete
                 \/ \E i \in Known(s) : i \notin Known(s)' /\ row'[s].obsolete = i.attachment
    PROVE  IInv'
<1>1. IdsApart' /\ RemoteApart(remote)'
  BY Narrowed DEF IInv
<1>2. "repeated" \notin Faults => NoDuplicateUpload'
  BY DEF IInv, NoDuplicateUpload
<1> QED
  BY <1>1, <1>2 DEF IInv

(* One that leaves the appointment alone, and the images its body shows.     *)
LEMMA KeptBody ==
    ASSUME TypeOK, BodyOK, UNCHANGED <<remote, body>>,
           mapping' \in {mapping, "live"},
           \A s \in Slots : Known(s)' \subseteq Known(s),
           body # None =>
              \A s \in Synchronized : s \in Existing' /\ row'[s].synced = row[s].synced,
           pc = "unmapped" => pc' = "unmapped" \/ RowsIntact({})'
    PROVE  BodyOK'
<1>1. /\ RowsIntact(remote) => RowsIntact(remote)'
      /\ RowsIntact({}) => RowsIntact({})'
  <2>1. ASSUME NEW s \in Slots, NEW R,
               \A i \in Known(s) : i.attachment # None => [id |-> i.attachment, cid |-> i.cid] \in R
        PROVE  \A i \in Known(s)' : i.attachment # None => [id |-> i.attachment, cid |-> i.cid] \in R
    BY <2>1
  <2>2. RowsIntact(remote) => RowsIntact(remote)'
    BY <2>1 DEF RowsIntact, Known
  <2>3. RowsIntact({}) => RowsIntact({})'
    BY <2>1 DEF RowsIntact, Known
  <2> QED
    BY <2>2, <2>3
<1>2. ASSUME body # None
      PROVE  /\ RowsIntact(remote)'
             /\ \A s \in Slots : body'.images[s] # None =>
                   s \in Synchronized' /\ body'.images[s] = row'[s].synced.cid
  <2>1. RowsIntact(remote)'
    BY <1>1, <1>2 DEF BodyOK
  <2>2. ASSUME NEW s \in Slots, body'.images[s] # None
        PROVE  s \in Synchronized' /\ body'.images[s] = row'[s].synced.cid
    BY <1>2, <2>2 DEF BodyOK, Synchronized
  <2> QED
    BY <2>1, <2>2
<1>3. mapping' = "absent" \/ (mapping' = "deleted" /\ pc' # "unmapped") => RowsIntact({})'
  <2>1. RowsIntact({}) => RowsIntact({})'
    BY <1>1
  <2> QED
    BY <2>1 DEF BodyOK
<1> QED
  BY <1>2, <1>3 DEF BodyOK

(* The rows and the appointment stay as they are.                           *)
LEMMA StillInv ==
    ASSUME IInv, TypeOK', ProcessOK', UNCHANGED <<row, remote, body>>,
           mapping' \in {mapping, "live"},
           damaged => damaged',
           pc = "unmapped" => pc' = "unmapped" \/ damaged'
    PROVE  IInv'
<1>1. /\ \A s \in Slots : Known(s)' = Known(s)
      /\ Existing' = Existing /\ Existing \subseteq Slots
      /\ Synchronized' = Synchronized /\ Synchronized \subseteq Existing
  BY DEF Known, Existing, Synchronized
<1>2. RowsOK' /\ \A s \in Existing : row[s].synced # None => row[s].synced # row[s].pending
  BY <1>1 DEF IInv, RowsOK, IdsApart
<1>3. ASSUME ~damaged' PROVE BodyOK'
  BY <1>1, <1>3, KeptBody DEF IInv
<1> QED
  BY <1>1, <1>2, <1>3, NarrowedInv

-----------------------------------------------------------------------------
(* The steps.                                                               *)

LEMMA LibraryStep == IInv /\ Library => IInv'
<1> SUFFICES ASSUME IInv, Library PROVE IInv'
  OBVIOUS
<1>1. \E x \in Assets : ImportAsset(x) \/ Approve(x) \/ Disable(x)
  BY DEF Library
<1>2. PICK x \in Assets : ImportAsset(x) \/ Approve(x) \/ Disable(x)
  BY <1>1
<1>3. /\ UNCHANGED <<content, removed, mapping, row, remote, body, pc, todo, snapshot, damaged>>
      /\ active' \subseteq active \cup {x}
      /\ presentation' = presentation \/ presentation' = presentation + 1
  BY <1>2 DEF ImportAsset, Approve, Disable, Invalidate, LibraryUnchanged, eventVars,
              graphVars, processVars
<1>4. TypeOK'
  BY <1>3 DEF IInv, TypeOK
<1>5. ProcessOK'
  BY <1>3 DEF IInv, ProcessOK, Preparable, Existing, Awaiting, Unsent
<1> QED
  BY <1>3, <1>4, <1>5, StillInv

LEMMA ImportsStep == IInv /\ Imports => IInv'
<1> SUFFICES ASSUME IInv, Imports PROVE IInv'
  OBVIOUS
<1>1. /\ pc = "idle" /\ content' \in Contents /\ removed' \in BOOLEAN
      /\ UNCHANGED <<active, mapping, presentation, row, remote, body, pc, todo,
                     snapshot, damaged>>
  BY DEF Imports, ImportEvent, libraryVars, mappingVars, graphVars, processVars
<1>2. TypeOK'
  BY <1>1 DEF IInv, TypeOK
<1>3. ProcessOK'
  BY <1>1 DEF ProcessOK, Reconciling
<1> QED
  BY <1>1, <1>2, <1>3, StillInv

LEMMA BeginStep == IInv /\ Begin => IInv'
<1> SUFFICES ASSUME IInv, Begin PROVE IInv'
  OBVIOUS
<1>1. /\ pc = "idle" /\ pc' = "text" /\ todo' = {}
      /\ snapshot' = [content |-> content, removed |-> removed,
                      presentation |-> presentation]
      /\ UNCHANGED <<active, content, removed, presentation, mapping, row, remote, body,
                     damaged>>
  BY DEF Begin, Goto, libraryVars, eventVars, mappingVars, graphVars
<1>2. (removed => mapping = "live")
  BY DEF Begin
<1>3. TypeOK'
  BY <1>1 DEF IInv, TypeOK, Steps
<1>4. ProcessOK'
  BY <1>1, <1>2 DEF ProcessOK, Reconciling
<1> QED
  BY <1>1, <1>3, <1>4, StillInv

\* A cycle that ends, by itself, by a refusal or with the process.
LEMMA EndStep ==
    ASSUME IInv, Done, UNCHANGED <<libraryVars, eventVars, mappingVars, row, graphVars>>,
           damaged' \in BOOLEAN, damaged => damaged', pc = "unmapped" => damaged'
    PROVE  IInv'
<1>1. /\ pc' = "idle" /\ todo' = {}
      /\ UNCHANGED <<active, content, removed, presentation, mapping, row, remote, body>>
  BY DEF Done, Goto, libraryVars, eventVars, mappingVars, graphVars
<1>2. TypeOK'
  BY <1>1 DEF IInv, TypeOK, Steps
<1>3. ProcessOK'
  BY <1>1 DEF ProcessOK, Reconciling
<1> QED
  BY <1>1, <1>2, <1>3, StillInv

LEMMA EndSteps ==
    IInv /\ (RefuseText \/ SelectAmbiguous \/ SkipBody \/ EndFinish \/ Die) => IInv'
<1> SUFFICES ASSUME IInv, RefuseText \/ SelectAmbiguous \/ SkipBody \/ EndFinish \/ Die
             PROVE  IInv'
  OBVIOUS
<1>1. CASE RefuseText \/ SelectAmbiguous \/ SkipBody \/ EndFinish
  <2>1. /\ Done /\ pc # "unmapped" /\ UNCHANGED <<libraryVars, eventVars, mappingVars, row,
                                                  graphVars, damaged>>
    BY <1>1 DEF RefuseText, SelectAmbiguous, SkipBody, EndFinish, MediaUnchanged
  <2> QED
    BY <2>1, EndStep DEF IInv, TypeOK
<1>2. CASE Die
  <2>1. /\ Done /\ UNCHANGED <<libraryVars, eventVars, mappingVars, row, graphVars>>
        /\ damaged' = (damaged \/ pc \in {"text_sent", "unmapped"}
                               \/ (pc = "refresh" /\ written))
    BY <1>2 DEF Die
  <2>2. damaged' \in BOOLEAN /\ (damaged => damaged') /\ (pc = "unmapped" => damaged')
    BY <2>1
  <2> QED
    BY <2>1, <2>2, EndStep
<1> QED
  BY <1>1, <1>2

\* Moving on to the next part of the cycle.
LEMMA MoveStep ==
    ASSUME IInv, NEW step \in Steps \ {"idle", "text", "unmapped"}, pc # "idle",
           pc' = step, todo' \subseteq Slots, snapshot' = snapshot,
           UNCHANGED <<active, content, removed, presentation, row, remote, body, damaged>>,
           mapping' \in {mapping, "live"}, step \in Reconciling => mapping' = "live",
           step \in {"deleted", "unmapped"} => body = None,
           step \in {"clean", "reclean", "finish"} => todo' \subseteq Existing,
           step = "prepare" => \A s \in todo' : Preparable(s),
           step = "upload" => todo' = {},
           pc # "unmapped"
    PROVE  IInv'
<1>1. TypeOK'
  BY DEF IInv, TypeOK
<1>2. ProcessOK'
  BY DEF ProcessOK, Preparable, Existing
<1> QED
  BY <1>1, <1>2, StillInv

LEMMA RecordTextStep == IInv /\ RecordText => IInv'
<1> SUFFICES ASSUME IInv, RecordText PROVE IInv'
  OBVIOUS
<1>1. /\ pc = "text_sent" /\ pc' = "refresh" /\ todo' = {} /\ mapping' = "live"
      /\ UNCHANGED <<active, content, removed, presentation, row, remote, body, snapshot,
                     damaged>>
  BY DEF RecordText, Goto, libraryVars, eventVars, graphVars
<1> QED
  BY <1>1, MoveStep DEF Steps

LEMMA MarkCheckedStep == IInv /\ MarkChecked => IInv'
<1> SUFFICES ASSUME IInv, MarkChecked PROVE IInv'
  OBVIOUS
<1>1. /\ pc = "queued" /\ pc' = "refresh" /\ todo' = {}
      /\ UNCHANGED <<active, content, removed, presentation, mapping, row, remote, body,
                     snapshot, damaged>>
  BY DEF MarkChecked, Goto, Stay, libraryVars, eventVars, graphVars
<1>2. mapping = "live"
  BY <1>1 DEF IInv, ProcessOK, Reconciling
<1> QED
  BY <1>1, <1>2, MoveStep DEF Steps

LEMMA EndCleanStep == IInv /\ EndClean => IInv'
<1> SUFFICES ASSUME IInv, EndClean PROVE IInv'
  OBVIOUS
<1>1. CASE Obsolete # {}
  <2>1. /\ Done /\ pc = "clean" /\ UNCHANGED <<libraryVars, eventVars, mappingVars, row,
                                                  graphVars, damaged>>
    BY <1>1 DEF EndClean, MediaUnchanged
  <2> QED
    BY <2>1, EndStep DEF IInv, TypeOK
<1>2. CASE Obsolete = {}
  <2>1. /\ pc = "clean" /\ pc' \in {"audit", "select"} /\ todo' = {}
        /\ UNCHANGED <<active, content, removed, presentation, mapping, row, remote, body,
                     snapshot, damaged>>
    BY <1>2 DEF EndClean, Goto, Stay, MediaUnchanged, libraryVars, eventVars, mappingVars,
                graphVars
  <2>2. mapping = "live"
    BY <2>1 DEF IInv, ProcessOK, Reconciling
  <2> QED
    BY <2>1, <2>2, MoveStep DEF Steps
<1> QED
  BY <1>1, <1>2

LEMMA EndRecleanStep == IInv /\ EndReclean => IInv'
<1> SUFFICES ASSUME IInv, EndReclean PROVE IInv'
  OBVIOUS
<1>1. /\ pc = "reclean" /\ pc' = "prepare" /\ todo' = {s \in Slots : Preparable(s)}
      /\ UNCHANGED <<active, content, removed, presentation, mapping, row, remote, body,
                     snapshot, damaged>>
  BY DEF EndReclean, Goto, Stay, MediaUnchanged, libraryVars, eventVars, mappingVars,
         graphVars
<1>2. mapping = "live"
  BY <1>1 DEF IInv, ProcessOK, Reconciling
<1> QED
  BY <1>1, <1>2, MoveStep DEF Steps

LEMMA LoseFileStep == IInv /\ (\E h \in files : LoseFile(h)) => IInv'
<1> SUFFICES ASSUME IInv, NEW h \in files, LoseFile(h) PROVE IInv'
  OBVIOUS
<1>1. UNCHANGED <<active, content, removed, mapping, presentation, row, remote, body, pc,
                  todo, snapshot, damaged>>
  BY DEF LoseFile, LibraryUnchanged, eventVars, graphVars, processVars
<1>2. TypeOK'
  BY <1>1 DEF IInv, TypeOK
<1>3. ProcessOK'
  BY <1>1 DEF IInv, ProcessOK, Preparable, Existing, Awaiting, Unsent
<1> QED
  BY <1>1, <1>2, <1>3, StillInv

\* The rows stay as they are, and the appointment loses attachments.
LEMMA SameRows ==
    ASSUME IInv, row' = row
    PROVE  /\ \A s \in Slots : Known(s)' = Known(s)
           /\ Existing' = Existing /\ Synchronized' = Synchronized
           /\ RowsOK'
           /\ \A s \in Existing : row[s].synced # None => row[s].synced # row[s].pending
BY DEF IInv, RowsOK, IdsApart, Known, Existing, Synchronized

LEMMA UserRemovesStep == IInv /\ (\E a \in remote : UserRemoves(a)) => IInv'
<1> SUFFICES ASSUME IInv, NEW a \in remote, UserRemoves(a) PROVE IInv'
  OBVIOUS
<1>1. /\ damaged' = TRUE /\ remote' \subseteq remote
      /\ UNCHANGED <<active, content, removed, mapping, presentation, row, body, pc,
                     todo, snapshot>>
  BY DEF UserRemoves, libraryVars, eventVars, mappingVars, processVars
<1>2. TypeOK'
  BY <1>1 DEF IInv, TypeOK
<1>3. ProcessOK'
  BY <1>1 DEF IInv, ProcessOK, Preparable, Existing, Awaiting, Unsent
<1> QED
  BY <1>1, <1>2, <1>3, SameRows, NarrowedInv

LEMMA WriteTextStep == IInv /\ WriteText => IInv'
<1> SUFFICES ASSUME IInv, WriteText PROVE IInv'
  OBVIOUS
<1>1. /\ pc = "text" /\ pc' = "text_sent" /\ todo' = {} /\ ~Gone
      /\ UNCHANGED <<active, content, removed, mapping, presentation, row, snapshot>>
      /\ body' = Text
      /\ remote' = (IF mapping = "live" THEN remote ELSE {})
      /\ damaged' = (damaged /\ ~RowsIntact(remote'))
  BY DEF WriteText, Goto, Stay, libraryVars, eventVars, mappingVars
<1>2. body' \in Bodies /\ body' # None /\ \A s \in Slots : body'.images[s] = None
  BY <1>1, NoneIsNone DEF IInv, TypeOK, Text, Bodies, NoImages
<1>3. TypeOK'
  BY <1>1, <1>2 DEF IInv, TypeOK, Steps
<1>4. ProcessOK'
  BY <1>1 DEF ProcessOK, Reconciling
<1>5. ASSUME ~damaged' PROVE BodyOK'
  <2>1. RowsIntact(remote')
    <3>1. CASE damaged
      BY <1>1, <1>5, <3>1
    <3>2. CASE ~damaged /\ mapping = "live"
      BY <1>1, <3>2 DEF IInv, BodyOK, Gone
    <3>3. CASE ~damaged /\ mapping # "live"
      BY <1>1, <3>3 DEF IInv, BodyOK, TypeOK
    <3> QED
      BY <3>1, <3>2, <3>3
  <2>2. RowsIntact(remote)'
    BY <1>1, <2>1 DEF RowsIntact
  <2>3. mapping' # "live" => RowsIntact({})'
    BY <1>1, <2>1 DEF RowsIntact
  <2> QED
    BY <1>2, <2>2, <2>3 DEF BodyOK
<1> QED
  BY <1>1, <1>3, <1>4, <1>5, SameRows, NarrowedInv

LEMMA DeleteEventStep == IInv /\ DeleteEvent => IInv'
<1> SUFFICES ASSUME IInv, DeleteEvent PROVE IInv'
  OBVIOUS
<1>1. /\ pc = "text" /\ snapshot.removed /\ pc' = "deleted" /\ todo' = {}
      /\ remote' = {} /\ body' = None
      /\ UNCHANGED <<active, content, removed, mapping, presentation, row, snapshot, damaged>>
  BY DEF DeleteEvent, Goto, Stay, libraryVars, eventVars, mappingVars
<1>2. mapping = "live"
  BY <1>1 DEF IInv, ProcessOK
<1>3. TypeOK'
  BY <1>1 DEF IInv, TypeOK, Steps
<1>4. ProcessOK'
  BY <1>1, <1>2 DEF ProcessOK, Reconciling
<1>5. BodyOK'
  BY <1>1, <1>2 DEF BodyOK
<1> QED
  BY <1>1, <1>3, <1>4, <1>5, SameRows, NarrowedInv

LEMMA MarkDeletedStep == IInv /\ MarkDeleted => IInv'
<1> SUFFICES ASSUME IInv, MarkDeleted PROVE IInv'
  OBVIOUS
<1>1. /\ pc = "deleted" /\ pc' = "unmapped" /\ todo' = {} /\ mapping' = "deleted"
      /\ UNCHANGED <<active, content, removed, presentation, row, remote, body, snapshot,
                     damaged>>
  BY DEF MarkDeleted, Goto, Stay, libraryVars, eventVars, graphVars
<1>2. body = None
  BY <1>1 DEF IInv, ProcessOK
<1>3. TypeOK'
  BY <1>1 DEF IInv, TypeOK, Steps
<1>4. ProcessOK'
  BY <1>1, <1>2 DEF ProcessOK, Reconciling
<1>5. BodyOK'
  BY <1>1, <1>2 DEF BodyOK
<1> QED
  BY <1>1, <1>3, <1>4, <1>5, SameRows, NarrowedInv

LEMMA MarkEventDeletedStep == IInv /\ MarkEventDeleted => IInv'
<1> SUFFICES ASSUME IInv, MarkEventDeleted PROVE IInv'
  OBVIOUS
<1>1. /\ pc = "unmapped" /\ pc' = "idle" /\ todo' = {}
      /\ row' = [s \in Slots |-> IF row[s] = None THEN None ELSE Forgotten]
      /\ UNCHANGED <<active, content, removed, mapping, presentation, remote, body, damaged>>
  BY DEF MarkEventDeleted, Done, Goto, libraryVars, eventVars, mappingVars, graphVars
<1>2. body = None
  BY <1>1 DEF IInv, ProcessOK
<1>3. /\ \A s \in Slots : Known(s)' = {}
      /\ \A s \in Existing' : row'[s] = Forgotten
  BY <1>1, ForgottenRow DEF Known, Existing
<1>4. row' \in [Slots -> Rows \cup {None}]
  BY <1>1, ForgottenRow DEF IInv, TypeOK
<1>5. TypeOK'
  BY <1>1, <1>4 DEF IInv, TypeOK, Steps
<1>6. ProcessOK'
  BY <1>1 DEF ProcessOK, Reconciling
<1>7. RowsOK'
  BY <1>3, ForgottenRow DEF RowsOK, RowOK
<1>8. RowsIntact({})'
  BY <1>3, IntactRowsNext
<1>9. BodyOK'
  BY <1>1, <1>2, <1>8 DEF BodyOK
<1> QED
  BY <1>1, <1>3, <1>5, <1>6, <1>7, <1>9, ForgottenRow, NarrowedInv

\* Rows that keep their images, whatever becomes of their status.
SameImages(s) ==
    IF row[s] = None THEN row'[s] = None
    ELSE /\ row'[s] \in Rows
         /\ row'[s].desired = row[s].desired /\ row'[s].synced = row[s].synced
         /\ row'[s].pending = row[s].pending /\ row'[s].obsolete = row[s].obsolete

LEMMA SameImagesFacts ==
    ASSUME IInv, \A s \in Slots : SameImages(s)
    PROVE  /\ \A s \in Slots : Known(s)' = Known(s)
           /\ Existing' = Existing /\ Existing \subseteq Slots
           /\ Synchronized' = Synchronized /\ Synchronized \subseteq Existing
           /\ \A s \in Synchronized : row'[s].synced = row[s].synced
           /\ RowsOK'
           /\ \A s \in Existing :
                 /\ row'[s].synced # None => row'[s].synced # row'[s].pending
                 /\ row'[s].obsolete = row[s].obsolete
<1>1. ASSUME NEW s \in Slots PROVE row'[s] = None <=> row[s] = None
  BY NoneIsNone DEF SameImages
<1>2. Existing' = Existing /\ Existing \subseteq Slots
  BY <1>1 DEF Existing
<1>3. ASSUME NEW s \in Existing
      PROVE  /\ row'[s].desired = row[s].desired /\ row'[s].synced = row[s].synced
             /\ row'[s].pending = row[s].pending /\ row'[s].obsolete = row[s].obsolete
  BY <1>3, <1>2 DEF SameImages, Existing
<1>4. \A s \in Slots : Known(s)' = Known(s)
  BY <1>1, <1>3 DEF Known, Existing
<1>5. Synchronized' = Synchronized /\ Synchronized \subseteq Existing
  BY <1>2, <1>3 DEF Synchronized
<1>6. RowsOK'
  BY <1>2, <1>3 DEF IInv, RowsOK, RowOK, ShaOf, ImageSha
<1>7. \A s \in Existing : row[s].synced # None => row[s].synced # row[s].pending
  BY DEF IInv, IdsApart
<1> QED
  BY <1>2, <1>3, <1>4, <1>5, <1>6, <1>7

LEMMA SameImagesInv ==
    ASSUME IInv, \A s \in Slots : SameImages(s), TypeOK', ProcessOK',
           remote' = remote, mapping' = mapping, body' = body \/ damaged',
           damaged => damaged', pc # "unmapped"
    PROVE  IInv'
<1>1. ASSUME ~damaged' PROVE BodyOK'
  BY <1>1, SameImagesFacts, KeptBody DEF IInv
<1> QED
  BY <1>1, SameImagesFacts, NarrowedInv

LEMMA RefreshedRows ==
    ASSUME TypeOK, row' = [s \in Slots |-> Refreshed(row[s])]
    PROVE  (\A s \in Slots : SameImages(s)) /\ row' \in [Slots -> Rows \cup {None}]
<1>1. ASSUME NEW s \in Slots PROVE SameImages(s) /\ row'[s] \in Rows \cup {None}
  <2>1. CASE row[s] = None
    BY <2>1 DEF SameImages, Refreshed
  <2>2. CASE row[s] # None
    <3>1. row[s] \in Rows
      BY <2>2 DEF TypeOK
    <3> QED
      BY <2>2, <3>1, RefreshedRow DEF SameImages
  <2> QED
    BY <2>1, <2>2
<1> QED
  BY <1>1

LEMMA UnchangedRows ==
    ASSUME TypeOK, row' = row
    PROVE  (\A s \in Slots : SameImages(s)) /\ row' \in [Slots -> Rows \cup {None}]
BY DEF TypeOK, SameImages

LEMMA FailedRows ==
    ASSUME TypeOK, NEW T, T \subseteq Existing,
           row' = [s \in Slots |-> IF s \in T THEN Failed(row[s]) ELSE row[s]]
    PROVE  (\A s \in Slots : SameImages(s)) /\ row' \in [Slots -> Rows \cup {None}]
<1>1. ASSUME NEW s \in Slots PROVE SameImages(s) /\ row'[s] \in Rows \cup {None}
  <2>1. CASE s \notin T
    BY <2>1 DEF SameImages, TypeOK
  <2>2. CASE s \in T
    <3>1. row[s] \in Rows /\ row[s] # None
      BY <2>2 DEF TypeOK, Existing
    <3> QED
      BY <2>2, <3>1, FailedRow DEF SameImages
  <2> QED
    BY <2>1, <2>2
<1> QED
  BY <1>1

LEMMA QueueRefreshStep == IInv /\ QueueRefresh => IInv'
<1> SUFFICES ASSUME IInv, QueueRefresh PROVE IInv'
  OBVIOUS
<1>1. /\ pc = "text" /\ pc' = "queued" /\ todo' = {} /\ mapping = "live"
      /\ UNCHANGED <<active, content, removed, mapping, presentation, remote, body,
                     snapshot, damaged>>
      /\ row' = (IF snapshot.presentation > acknowledged
                 THEN [s \in Slots |-> Refreshed(row[s])] ELSE row)
  BY DEF QueueRefresh, TextChanged, Goto, Stay, libraryVars, eventVars, mappingVars, graphVars
<1>2. (\A s \in Slots : SameImages(s)) /\ row' \in [Slots -> Rows \cup {None}]
  BY <1>1, RefreshedRows, UnchangedRows DEF IInv
<1>3. TypeOK'
  BY <1>1, <1>2 DEF IInv, TypeOK, Steps
<1>4. ProcessOK'
  BY <1>1 DEF ProcessOK, Reconciling
<1> QED
  BY <1>1, <1>2, <1>3, <1>4, SameImagesInv

LEMMA StartReconcileStep == IInv /\ StartReconcile => IInv'
<1> SUFFICES ASSUME IInv, StartReconcile PROVE IInv'
  OBVIOUS
<1>1. /\ pc = "refresh" /\ pc' = "clean" /\ todo' = Obsolete
      /\ UNCHANGED <<active, content, removed, mapping, presentation, remote, body,
                     snapshot, damaged>>
      /\ row' = (IF written THEN [s \in Slots |-> Refreshed(row[s])] ELSE row)
  BY DEF StartReconcile, MediaUnchanged, Goto, Stay, libraryVars, eventVars, mappingVars,
         graphVars
<1>2. (\A s \in Slots : SameImages(s)) /\ row' \in [Slots -> Rows \cup {None}]
  BY <1>1, RefreshedRows, UnchangedRows DEF IInv
<1>3. mapping = "live"
  BY <1>1 DEF IInv, ProcessOK, Reconciling
<1>4. Obsolete \subseteq Existing /\ Existing' = Existing /\ Existing \subseteq Slots
  BY <1>2, SameImagesFacts DEF Obsolete
<1>5. TypeOK'
  BY <1>1, <1>2, <1>4 DEF IInv, TypeOK, Steps
<1>6. ProcessOK'
  BY <1>1, <1>3, <1>4 DEF ProcessOK, Reconciling
<1> QED
  BY <1>1, <1>2, <1>5, <1>6, SameImagesInv

LEMMA AuditRefusedStep == IInv /\ AuditRefused => IInv'
<1> SUFFICES ASSUME IInv, AuditRefused PROVE IInv'
  OBVIOUS
<1>1. /\ pc = "audit" /\ pc' = "idle" /\ todo' = {}
      /\ UNCHANGED <<active, content, removed, mapping, presentation, remote, body, damaged>>
      /\ row' = [s \in Slots |-> IF s \in Synchronized THEN Failed(row[s]) ELSE row[s]]
  BY DEF AuditRefused, MediaUnchanged, Done, Goto, libraryVars, eventVars, mappingVars,
         graphVars
<1>2. (\A s \in Slots : SameImages(s)) /\ row' \in [Slots -> Rows \cup {None}]
  BY <1>1, FailedRows DEF IInv, Synchronized
<1>3. TypeOK'
  BY <1>1, <1>2 DEF IInv, TypeOK, Steps
<1>4. ProcessOK'
  BY <1>1 DEF ProcessOK, Reconciling
<1> QED
  BY <1>1, <1>2, <1>3, <1>4, SameImagesInv

LEMMA RecoverRefusedStep == IInv /\ RecoverRefused => IInv'
<1> SUFFICES ASSUME IInv, RecoverRefused PROVE IInv'
  OBVIOUS
<1>1. /\ pc = "prepare" /\ pc' = "upload"
      /\ todo' = {s \in Awaiting : Uploadable(Failed(row[s]))}
      /\ UNCHANGED <<active, content, removed, mapping, presentation, remote, body, snapshot,
                     damaged>>
      /\ row' = [s \in Slots |-> IF s \in Awaiting THEN Failed(row[s]) ELSE row[s]]
  BY DEF RecoverRefused, MediaUnchanged, Stay, Goto, libraryVars, eventVars, mappingVars,
         graphVars
<1>2. (\A s \in Slots : SameImages(s)) /\ row' \in [Slots -> Rows \cup {None}]
  BY <1>1, FailedRows DEF IInv, Awaiting
<1>3. todo' = {}
  <2>1. ASSUME NEW s \in Awaiting PROVE ~Uploadable(Failed(row[s]))
    <3>1. row[s] \in Rows
      BY <2>1 DEF IInv, TypeOK, Awaiting, Existing
    <3> QED
      BY <3>1, FailedRow DEF Uploadable
  <2> QED
    BY <1>1, <2>1
<1>4. mapping = "live"
  BY <1>1 DEF IInv, ProcessOK, Reconciling
<1>5. TypeOK'
  BY <1>1, <1>2, <1>3 DEF IInv, TypeOK, Steps
<1>6. ProcessOK'
  BY <1>1, <1>3, <1>4 DEF ProcessOK, Reconciling
<1> QED
  BY <1>1, <1>2, <1>5, <1>6, SameImagesInv

LEMMA NewBodyOK ==
    ASSUME IInv, pc = "upload"
    PROVE  /\ NewBody \in Bodies
           /\ \A s \in Slots : NewBody.images[s] =
                 (IF row[s] = None THEN None ELSE CidOf(Target(row[s])))
<1> DEFINE images == [s \in Slots |-> IF row[s] = None THEN None ELSE CidOf(Target(row[s]))]
<1>1. ASSUME NEW s \in Slots, row[s] # None PROVE CidOf(Target(row[s])) \in ContentIds \cup {None}
  <2>1. row[s] \in Rows /\ RowOK(row[s])
    BY <1>1 DEF IInv, TypeOK, RowsOK, Existing
  <2>2. Target(row[s]) \in Images \cup {None}
    BY <2>1, TargetFacts
  <2> QED
    BY <2>2 DEF CidOf, Images
<1>2. images \in [Slots -> ContentIds \cup {None}]
  BY <1>1
<1>3. NewBody = [images |-> images]
  BY DEF NewBody
<1> HIDE DEF images
<1>4. NewBody \in Bodies /\ NewBody.images = images
  BY <1>2, <1>3 DEF Bodies
<1> QED
  BY <1>4 DEF images

LEMMA UnrecordedSteps == IInv /\ (PatchRefused \/ PatchUnrecorded \/ PatchOverfull) => IInv'
<1> SUFFICES ASSUME IInv, PatchRefused \/ PatchUnrecorded \/ PatchOverfull PROVE IInv'
  OBVIOUS
<1>1. /\ pc = "upload" /\ pc' = "idle" /\ todo' = {}
      /\ UNCHANGED <<active, content, removed, mapping, presentation, remote>>
  BY DEF PatchRefused, PatchUnrecorded, PatchOverfull, MediaUnchanged, Done, Goto,
         libraryVars, eventVars, mappingVars, graphVars
<1>2. row' = Unswitched \/ row' = row
  BY DEF PatchRefused, PatchUnrecorded, PatchOverfull
<1>3. (body' = body /\ damaged' = damaged) \/ (body' = NewBody /\ damaged' = TRUE)
  BY DEF PatchRefused, PatchUnrecorded, PatchOverfull, graphVars
<1>4. (\A s \in Slots : SameImages(s)) /\ row' \in [Slots -> Rows \cup {None}]
  <2>1. CASE row' = row
    BY <2>1, UnchangedRows DEF IInv
  <2>2. CASE row' = Unswitched
    <3> DEFINE T == {s \in Existing : written \/ Switches(s)}
    <3>1. row' = [s \in Slots |-> IF s \in T THEN Failed(row[s]) ELSE row[s]]
      BY <2>2 DEF Unswitched
    <3>2. T \subseteq Existing
      OBVIOUS
    <3> HIDE DEF T
    <3> QED
      BY <3>1, <3>2, FailedRows DEF IInv
  <2> QED
    BY <1>2, <2>1, <2>2
<1>5. TypeOK'
  BY <1>1, <1>3, <1>4, NewBodyOK DEF IInv, TypeOK, Steps
<1>6. ProcessOK'
  BY <1>1 DEF ProcessOK, Reconciling
<1> QED
  BY <1>1, <1>3, <1>4, <1>5, <1>6, SameImagesInv

LEMMA UploadUnreadStep == IInv /\ (\E s \in Slots : UploadUnread(s)) => IInv'
<1> SUFFICES ASSUME IInv, NEW s \in Slots, UploadUnread(s) PROVE IInv'
  OBVIOUS
<1>1. /\ pc = "upload" /\ pc' = "upload" /\ todo' = todo \ {s} /\ s \in todo
      /\ UNCHANGED <<active, content, removed, mapping, presentation, remote, body, snapshot,
                     damaged>>
      /\ row' = [row EXCEPT ![s] = Failed(@)]
  BY DEF UploadUnread, MediaUnchanged, Stay, Goto, libraryVars, eventVars, mappingVars,
         graphVars
<1>2. /\ mapping = "live" /\ s \in Existing
      /\ \A t \in todo : t \in Awaiting /\ ("repeated" \notin Faults => Unsent(t))
  BY <1>1 DEF IInv, ProcessOK, Reconciling, Awaiting
<1>3. row' = [t \in Slots |-> IF t \in {s} THEN Failed(row[t]) ELSE row[t]]
  BY <1>1 DEF IInv, TypeOK
<1>4. (\A t \in Slots : SameImages(t)) /\ row' \in [Slots -> Rows \cup {None}]
  BY <1>2, <1>3, FailedRows DEF IInv
<1>5. TypeOK'
  BY <1>1, <1>4 DEF IInv, TypeOK
<1>6. \A t \in todo' : row'[t] = row[t]
  BY <1>1, <1>3 DEF IInv, TypeOK
<1>7. ProcessOK'
  BY <1>1, <1>2, <1>6 DEF ProcessOK, Reconciling, Awaiting, Existing, Unsent
<1> QED
  BY <1>1, <1>4, <1>5, <1>7, SameImagesInv

\* Deleting an obsolete attachment takes no image from the rows.
LEMMA CleanStep == IInv /\ (\E s \in Slots, o \in Outcomes : Clean(s, o)) => IInv'
<1> SUFFICES ASSUME IInv, NEW s \in Slots, NEW o \in Outcomes, Clean(s, o) PROVE IInv'
  OBVIOUS
<1>1. /\ pc \in {"clean", "reclean", "finish"} /\ s \in todo
      /\ UNCHANGED <<active, content, removed, mapping, presentation, body>>
      /\ damaged' \in BOOLEAN /\ (damaged => damaged')
      /\ remote' = (IF Applied(o) THEN {a \in remote : a.id # row[s].obsolete} ELSE remote)
      /\ row' \in {[row EXCEPT ![s] = Cleaned(@)], row, [row EXCEPT ![s] = Failed(@)]}
      /\ \/ pc' = "idle" /\ todo' = {}
         \/ pc' = pc /\ todo' = todo \ {s} /\ snapshot' = snapshot
  BY DEF IInv, TypeOK, Clean, MediaUnchanged, Done, Stay, Goto, libraryVars, eventVars, mappingVars
<1>2. mapping = "live" /\ todo \subseteq Existing /\ row[s] \in Rows /\ row[s] # None
  BY <1>1 DEF IInv, ProcessOK, Reconciling, TypeOK, Existing
<1>3. /\ row' \in [Slots -> Rows \cup {None}] /\ row'[s] \in Rows
      /\ row'[s].desired = row[s].desired /\ row'[s].synced = row[s].synced
      /\ row'[s].pending = row[s].pending /\ row'[s].obsolete \in {None, row[s].obsolete}
      /\ \A t \in Slots \ {s} : row'[t] = row[t]
  BY <1>1, <1>2, CleanedRow, FailedRow DEF IInv, TypeOK
<1>4. row'[s] # None /\ \A t \in Slots : row'[t] = None <=> row[t] = None
  BY <1>2, <1>3, NoneIsNone
<1>5. Existing' = Existing /\ Existing \subseteq Slots /\ s \in Existing
  BY <1>2, <1>4 DEF Existing
<1>6. /\ \A t \in Slots : Known(t)' = Known(t)
      /\ \A t \in Existing :
            /\ row'[t].desired = row[t].desired /\ row'[t].synced = row[t].synced
            /\ row'[t].pending = row[t].pending /\ row'[t].obsolete \in {None, row[t].obsolete}
  BY <1>3, <1>4, <1>5 DEF Known
<1>7. TypeOK'
  BY <1>1, <1>3 DEF IInv, TypeOK, Steps
<1>8. RowsOK'
  BY <1>5, <1>6, NoneIsNone DEF IInv, RowsOK, RowOK, ShaOf, ImageSha
<1>9. ProcessOK'
  BY <1>1, <1>2, <1>5 DEF ProcessOK, Reconciling
<1>10. remote' \subseteq remote
  BY <1>1
<1>11. ASSUME ~damaged' PROVE BodyOK'
  <2>1. ASSUME body # None PROVE RowsIntact(remote)'
    <3>1. ASSUME NEW t \in Slots, NEW i \in Known(t)', i.attachment # None
          PROVE  [id |-> i.attachment, cid |-> i.cid] \in remote'
      <4>1. i \in Known(t) /\ [id |-> i.attachment, cid |-> i.cid] \in remote
        BY <1>1, <1>6, <1>11, <2>1, <3>1, IntactRows DEF IInv, BodyOK
      <4>2. i.attachment # row[s].obsolete
        BY <1>5, <3>1, <4>1 DEF IInv, IdsApart
      <4> QED
        BY <1>1, <4>1, <4>2
    <3> QED
      BY <3>1, IntactRowsNext
  <2>2. Synchronized' = Synchronized /\ Synchronized \subseteq Existing
    BY <1>5, <1>6 DEF Synchronized
  <2>3. ASSUME body # None, NEW t \in Slots, body.images[t] # None
        PROVE  t \in Synchronized' /\ body.images[t] = row'[t].synced.cid
    BY <1>1, <1>6, <1>11, <2>2, <2>3 DEF IInv, BodyOK
  <2> QED
    BY <1>1, <1>2, <2>1, <2>3 DEF BodyOK
<1>12. \A t \in Existing : row[t].synced # None => row[t].synced # row[t].pending
  BY DEF IInv, IdsApart
<1> QED
  BY <1>5, <1>6, <1>7, <1>8, <1>9, <1>10, <1>11, <1>12, NarrowedInv

\* While nothing was damaged, the audit finds every image.
LEMMA AuditStep == IInv /\ Audit => IInv'
<1> SUFFICES ASSUME IInv, Audit PROVE IInv'
  OBVIOUS
<1>1. /\ pc = "audit" /\ pc' = "select" /\ todo' = {} /\ ~Gone
      /\ UNCHANGED <<active, content, removed, mapping, presentation, remote, body, snapshot,
                     damaged>>
      /\ row' = [s \in Slots |->
            IF s \in Synchronized /\ ~Present(row[s].synced) THEN Missing(row[s]) ELSE row[s]]
  BY DEF Audit, MediaUnchanged, Stay, Goto, libraryVars, eventVars, mappingVars, graphVars
<1>2. mapping = "live"
  BY <1>1 DEF IInv, ProcessOK, Reconciling
<1>3. ASSUME NEW s \in Slots
      PROVE  /\ row'[s] \in Rows \cup {None} /\ (row'[s] = None <=> row[s] = None)
             /\ row[s] # None =>
                   /\ row'[s].desired = row[s].desired /\ row'[s].synced \in {None, row[s].synced}
                   /\ row'[s].pending = row[s].pending /\ row'[s].obsolete = row[s].obsolete
             /\ s \in Synchronized /\ Present(row[s].synced) => row'[s].synced = row[s].synced
  <2>1. row[s] # None => row[s] \in Rows
    BY DEF IInv, TypeOK
  <2>2. s \in Synchronized => row[s] # None
    BY DEF Synchronized, Existing
  <2> QED
    BY <1>1, <2>1, <2>2, MissingRow, NoneIsNone
<1>4. Existing' = Existing /\ Existing \subseteq Slots
  BY <1>3 DEF Existing
<1>5. \A s \in Slots : Known(s)' \subseteq Known(s)
  BY <1>3 DEF Known
<1>6. \A s \in Existing :
         /\ row'[s].desired = row[s].desired /\ row'[s].synced \in {None, row[s].synced}
         /\ row'[s].pending = row[s].pending /\ row'[s].obsolete = row[s].obsolete
         /\ row[s].synced # None => row[s].synced # row[s].pending
  BY <1>3 DEF IInv, IdsApart, Existing
<1>7. TypeOK'
  <2>1. row' \in [Slots -> Rows \cup {None}]
    BY <1>1, <1>3
  <2> QED
    BY <1>1, <2>1 DEF IInv, TypeOK, Steps
<1>8. RowsOK'
  BY <1>4, <1>6, NoneIsNone DEF IInv, RowsOK, RowOK, ShaOf, ImageSha
<1>9. ProcessOK'
  BY <1>1, <1>2 DEF ProcessOK, Reconciling
<1>10. ASSUME ~damaged' PROVE BodyOK'
  <2>1. RowsIntact(remote)
    BY <1>1, <1>2, <1>10 DEF IInv, BodyOK, Gone
  <2>2. ASSUME NEW s \in Synchronized PROVE s \in Existing' /\ row'[s].synced = row[s].synced
    <3>1. s \in Existing /\ s \in Slots /\ row[s] # None /\ row[s].synced # None
      BY DEF Synchronized, Existing
    <3>2. row[s].synced \in Known(s) /\ row[s].synced.attachment # None
      BY <3>1 DEF IInv, RowsOK, RowOK, Known
    <3>3. Present(row[s].synced)
      BY <2>1, <3>1, <3>2, IntactRows DEF Present
    <3> QED
      BY <1>3, <1>4, <3>1, <3>3
  <2> QED
    BY <1>1, <1>5, <1>10, <2>2, KeptBody DEF IInv
<1> QED
  BY <1>1, <1>4, <1>5, <1>6, <1>7, <1>8, <1>9, <1>10, NarrowedInv

LEMMA SelectedAsset ==
    ASSUME TypeOK, NEW c, NEW s
    PROVE  Selected(c, s) \in Assets \cup {None}
<1>1. Selection(c, s) \subseteq Assets
  BY DEF Selection, Claims, TypeOK
<1>2. CASE Selection(c, s) = {}
  BY <1>2 DEF Selected
<1>3. CASE Selection(c, s) # {}
  <2>1. (CHOOSE x \in Selection(c, s) : TRUE) \in Selection(c, s)
    BY <1>3
  <2> QED
    BY <1>1, <1>3, <2>1 DEF Selected
<1> QED
  BY <1>2, <1>3

\* A row without images is new; the others keep theirs or make them obsolete.
LEMMA SelectImagesStep == IInv /\ SelectImages => IInv'
<1> SUFFICES ASSUME IInv, SelectImages PROVE IInv'
  OBVIOUS
<1>1. /\ pc = "select" /\ pc' = "reclean"
      /\ todo' = {s \in Slots : Reconciled[s] # None /\ Reconciled[s].obsolete # None}
      /\ UNCHANGED <<active, content, removed, mapping, presentation, remote, body, snapshot>>
      /\ damaged' \in BOOLEAN /\ (damaged => damaged')
      /\ row' = Reconciled
  BY DEF IInv, TypeOK, SelectImages, MediaUnchanged, Stay, Goto, libraryVars, eventVars, mappingVars, graphVars
<1>2. mapping = "live"
  BY <1>1 DEF IInv, ProcessOK, Reconciling
<1>3. ASSUME NEW s \in Slots, row[s] # None
      PROVE  /\ s \in Existing
             /\ row'[s] \in Rows /\ row'[s] # None /\ RowOK(row'[s])
             /\ row'[s].synced = row[s].synced
             /\ row'[s].pending \in {row[s].pending, None}
             /\ \/ row'[s].obsolete = row[s].obsolete
                \/ /\ row[s].pending # None /\ row'[s].pending = None
                   /\ row'[s].obsolete = row[s].pending.attachment
             /\ row[s].synced # None => row[s].synced # row[s].pending
  <2> DEFINE x == Selected(snapshot.content, s)
  <2>1. row[s] \in Rows /\ RowOK(row[s]) /\ s \in Existing
    BY <1>3 DEF IInv, TypeOK, RowsOK, Existing
  <2>2. x \in Assets \cup {None}
    BY SelectedAsset DEF IInv
  <2>3. row'[s] = Desire(row[s], x)
    BY <1>1 DEF Reconciled
  <2> HIDE DEF x
  <2>4. row[s].synced # None => row[s].synced # row[s].pending
    BY <2>1 DEF IInv, IdsApart
  <2> QED
    BY <2>1, <2>2, <2>3, <2>4, DesiredRow, NoneIsNone
<1>4. ASSUME NEW s \in Slots, row[s] = None, row'[s] # None
      PROVE  /\ row'[s] \in Rows /\ RowOK(row'[s])
             /\ row'[s].synced = None /\ row'[s].pending = None /\ row'[s].obsolete = None
  <2> DEFINE x == Selected(snapshot.content, s)
  <2>1. x \in Assets \cup {None}
    BY SelectedAsset DEF IInv
  <2>2. row'[s] = Desire(row[s], x)
    BY <1>1 DEF Reconciled
  <2> HIDE DEF x
  <2>3. x # None /\ row'[s] = [desired |-> x, synced |-> None, pending |-> None,
                               obsolete |-> None, status |-> "pending"]
    BY <1>4, <2>2 DEF Desire
  <2> QED
    BY <2>1, <2>3 DEF Rows, Statuses, RowOK
<1>5. row' \in [Slots -> Rows \cup {None}]
  <2>1. \A s \in Slots : row'[s] \in Rows \cup {None}
    BY <1>3, <1>4
  <2> QED
    BY <1>1, <2>1 DEF Reconciled
<1>6. \A s \in Slots : s \in Existing <=> row[s] # None
  BY DEF Existing
<1>7. \A s \in Slots : s \in Existing' <=> row'[s] # None
  BY DEF Existing
<1>8. Existing' \subseteq Slots /\ Existing \subseteq Slots /\ Existing \subseteq Existing'
  BY <1>3, <1>6, <1>7 DEF Existing
<1>9. \A s \in Slots : Known(s)' \subseteq Known(s)
  BY <1>3, <1>4 DEF Known
<1>10. todo' \subseteq Existing'
  BY <1>1 DEF Existing
<1>11. TypeOK'
  BY <1>1, <1>5, <1>8, <1>10 DEF IInv, TypeOK, Steps
<1>12. RowsOK'
  BY <1>3, <1>4, <1>7, <1>8 DEF RowsOK
<1>13. ProcessOK'
  BY <1>1, <1>2, <1>10 DEF ProcessOK, Reconciling
<1>14. ASSUME NEW s \in Existing'
       PROVE  /\ row'[s].synced # None => row'[s].synced # row'[s].pending
              /\ \/ row'[s].obsolete = None
                 \/ s \in Existing /\ row'[s].obsolete = row[s].obsolete
                 \/ \E i \in Known(s) : i \notin Known(s)' /\ row'[s].obsolete = i.attachment
  <2>1. s \in Slots /\ row'[s] # None
    BY <1>7, <1>8
  <2>2. CASE row[s] = None
    BY <1>4, <2>1, <2>2
  <2>3. CASE row[s] # None /\ row'[s].obsolete = row[s].obsolete
    BY <1>3, <2>1, <2>3
  <2>4. CASE /\ row[s] # None /\ row[s].pending # None /\ row'[s].pending = None
             /\ row'[s].obsolete = row[s].pending.attachment
    <3>1. row[s].pending \in Known(s) /\ row[s].pending \notin Known(s)'
      BY <1>3, <2>1, <2>4 DEF Known
    <3> QED
      BY <1>3, <2>1, <2>4, <3>1
  <2> QED
    BY <1>3, <2>1, <2>2, <2>3, <2>4
<1>15. ASSUME NEW s \in Synchronized PROVE s \in Existing' /\ row'[s].synced = row[s].synced
  BY <1>3, <1>8 DEF Synchronized, Existing
<1>16. ASSUME ~damaged' PROVE BodyOK'
  BY <1>1, <1>9, <1>15, <1>16, KeptBody DEF IInv
<1> QED
  BY <1>1, <1>9, <1>11, <1>12, <1>13, <1>14, <1>16, NarrowedInv

\* The body refers to the images its rows record with it.
LEMMA PatchBodyStep == IInv /\ PatchBody => IInv'
<1> SUFFICES ASSUME IInv, PatchBody PROVE IInv'
  OBVIOUS
<1>1. /\ pc = "upload" /\ pc' = "finish" /\ ~Gone
      /\ todo' = {s \in Existing : Shown(row[s]).obsolete # None}
      /\ UNCHANGED <<active, content, removed, mapping, presentation, remote, snapshot>>
      /\ row' = [s \in Slots |-> IF row[s] = None THEN None ELSE Shown(row[s])]
      /\ body' = NewBody
      /\ damaged' = (damaged /\ ~(Attached(NewBody) /\ RowsIntact(remote)))
  BY DEF PatchBody, MediaUnchanged, Stay, Goto, libraryVars, eventVars, mappingVars
<1>2. mapping = "live"
  BY <1>1 DEF IInv, ProcessOK, Reconciling
<1>3. ASSUME NEW s \in Slots, row[s] # None
      PROVE  /\ s \in Existing /\ row[s] \in Rows /\ RowOK(row[s])
             /\ row'[s] \in Rows /\ row'[s] # None /\ RowOK(row'[s])
             /\ row'[s].synced = Target(row[s])
             /\ row'[s].pending \in {row[s].pending, None}
             /\ row'[s].synced # None => row'[s].synced # row'[s].pending
             /\ \/ row'[s].obsolete = row[s].obsolete
                \/ /\ row[s].synced # None /\ row'[s].synced # row[s].synced
                   /\ row'[s].pending # row[s].synced
                   /\ row'[s].obsolete = row[s].synced.attachment
  <2>1. row[s] \in Rows /\ RowOK(row[s]) /\ s \in Existing
    BY <1>3 DEF IInv, TypeOK, RowsOK, Existing
  <2>2. row[s].synced # None => row[s].synced # row[s].pending
    BY <2>1 DEF IInv, IdsApart
  <2>3. row'[s] = Shown(row[s])
    BY <1>1, <1>3
  <2> QED
    BY <2>1, <2>2, <2>3, ShownRow, NoneIsNone
<1>4. \A s \in Slots : row[s] = None => row'[s] = None
  BY <1>1
<1>5. row' \in [Slots -> Rows \cup {None}]
  <2>1. \A s \in Slots : row'[s] \in Rows \cup {None}
    BY <1>3, <1>4
  <2> QED
    BY <1>1, <2>1
<1>6. Existing' = Existing /\ Existing \subseteq Slots
  BY <1>3, <1>4 DEF Existing
<1>7. ASSUME NEW s \in Slots PROVE Known(s)' \subseteq Known(s)
  <2>1. CASE row[s] = None
    BY <1>4, <2>1 DEF Known
  <2>2. CASE row[s] # None
    <3>1. Target(row[s]) \in {None, row[s].pending, row[s].synced}
      BY <1>3, <2>2, TargetFacts
    <3> QED
      BY <1>3, <2>2, <3>1 DEF Known
  <2> QED
    BY <2>1, <2>2
<1>8. NewBody \in Bodies /\ NewBody # None
  BY <1>1, NewBodyOK, NoneIsNone
<1>9. TypeOK'
  BY <1>1, <1>5, <1>6, <1>8 DEF IInv, TypeOK, Steps
<1>10. RowsOK'
  BY <1>3, <1>6 DEF RowsOK, Existing
<1>11. todo' \subseteq Existing'
  BY <1>1, <1>6
<1>12. ProcessOK'
  BY <1>1, <1>2, <1>11 DEF ProcessOK, Reconciling
<1>13. ASSUME NEW s \in Existing'
       PROVE  /\ row'[s].synced # None => row'[s].synced # row'[s].pending
              /\ \/ row'[s].obsolete = None
                 \/ s \in Existing /\ row'[s].obsolete = row[s].obsolete
                 \/ \E i \in Known(s) : i \notin Known(s)' /\ row'[s].obsolete = i.attachment
  <2>1. s \in Slots /\ row[s] # None
    BY <1>6 DEF Existing
  <2>2. CASE row'[s].obsolete = row[s].obsolete
    BY <1>3, <2>1, <2>2
  <2>3. CASE /\ row[s].synced # None /\ row'[s].synced # row[s].synced
             /\ row'[s].pending # row[s].synced
             /\ row'[s].obsolete = row[s].synced.attachment
    <3>1. row[s].synced \in Known(s) /\ row[s].synced \notin Known(s)'
      BY <2>1, <2>3 DEF Known
    <3> QED
      BY <1>3, <2>1, <2>3, <3>1
  <2> QED
    BY <1>3, <2>1, <2>2, <2>3
<1>14. ASSUME ~damaged' PROVE BodyOK'
  <2>1. RowsIntact(remote)
    BY <1>1, <1>2, <1>14 DEF IInv, BodyOK, Gone
  <2>2. RowsIntact(remote)'
    BY <1>1, <1>7, <2>1, IntactRows, IntactRowsNext
  <2>3. ASSUME NEW s \in Slots, body'.images[s] # None
        PROVE  s \in Synchronized' /\ body'.images[s] = row'[s].synced.cid
    <3>1. NewBody.images[s] = (IF row[s] = None THEN None ELSE CidOf(Target(row[s])))
      BY <1>1, NewBodyOK
    <3>2. row[s] # None /\ Target(row[s]) # None /\ body'.images[s] = Target(row[s]).cid
      BY <1>1, <2>3, <3>1 DEF CidOf
    <3> QED
      BY <1>3, <3>2 DEF Synchronized, Existing
  <2> QED
    BY <1>1, <1>2, <2>2, <2>3 DEF BodyOK
<1> QED
  BY <1>1, <1>7, <1>9, <1>10, <1>12, <1>13, <1>14, NarrowedInv

\* An image that is to be uploaded gets the content ID of the unfinished upload
\* of the same bytes, or a new one.
LEMMA PrepareStep == IInv /\ (\E s \in Slots : Prepare(s)) => IInv'
<1> SUFFICES ASSUME IInv, NEW s \in Slots, Prepare(s) PROVE IInv'
  OBVIOUS
<1>1. PICK cid \in ContentIds :
         /\ IF ImageSha(row[s].pending) = Sha[row[s].desired]
            THEN cid = row[s].pending.cid
            ELSE Fresh(ContentIds, KnownContentIds, cid)
         /\ row' = [row EXCEPT ![s].pending = [asset |-> row[s].desired,
                                               cid |-> cid, attachment |-> None],
                                ![s].status = "pending"]
  BY DEF Prepare
<1> DEFINE p == [asset |-> row[s].desired, cid |-> cid, attachment |-> None]
<1>2. /\ pc = "prepare" /\ pc' = "prepare" /\ s \in todo /\ todo' = todo \ {s}
      /\ UNCHANGED <<active, content, removed, mapping, presentation, remote, body, snapshot,
                     damaged>>
  BY DEF Prepare, MediaUnchanged, Stay, Goto, libraryVars, eventVars, mappingVars, graphVars
<1>3. mapping = "live" /\ \A t \in todo : Preparable(t)
  BY <1>2 DEF IInv, ProcessOK, Reconciling
<1>4. /\ s \in Existing /\ row[s] \in Rows /\ row[s] # None
      /\ row[s].desired \in Assets /\ row[s].desired # None /\ row[s].obsolete = None
      /\ row[s].pending = None \/ row[s].pending.attachment = None
      /\ row[s].pending \in Images \cup {None}
  BY <1>2, <1>3 DEF Preparable, Existing, IInv, TypeOK, Rows
<1>5. p \in Images /\ p # None
  BY <1>4, NoneIsNone DEF Images
<1>6. /\ row' \in [Slots -> Rows \cup {None}]
      /\ row'[s] \in Rows /\ row'[s] # None
      /\ row'[s].desired = row[s].desired /\ row'[s].synced = row[s].synced
      /\ row'[s].pending = p /\ row'[s].obsolete = None
      /\ \A t \in Slots \ {s} : row'[t] = row[t]
  <2>1. [row[s] EXCEPT !.pending = p, !.status = "pending"] \in Rows
    BY <1>4, <1>5 DEF Rows, Statuses
  <2>2. row' = [row EXCEPT ![s] = [row[s] EXCEPT !.pending = p, !.status = "pending"]]
    BY <1>1 DEF IInv, TypeOK
  <2>3. row \in [Slots -> Rows \cup {None}]
    BY DEF IInv, TypeOK
  <2>4. row'[s] = [row[s] EXCEPT !.pending = p, !.status = "pending"]
    BY <2>2, <2>3
  <2>5. /\ row'[s].desired = row[s].desired /\ row'[s].synced = row[s].synced
        /\ row'[s].pending = p /\ row'[s].obsolete = None
    BY <1>4, <2>4 DEF Rows
  <2> QED
    BY <2>1, <2>2, <2>3, <2>4, <2>5, NoneIsNone
<1>7. /\ \A a \in remote, t \in Existing : a.id = row[t].obsolete => a.cid # cid
      /\ \A t \in Slots : \A k \in Known(t) : k.cid = cid => t = s /\ k = row[s].pending
  <2>1. CASE ImageSha(row[s].pending) = Sha[row[s].desired]
    <3>1. row[s].pending # None /\ row[s].pending.cid = cid
      BY <1>1, <1>4, <2>1, ShaFacts
    <3>2. row[s].pending \in Known(s)
      BY <1>4, <3>1 DEF Known
    <3> QED
      BY <3>1, <3>2 DEF IInv, IdsApart, RemoteApart
  <2>2. CASE ImageSha(row[s].pending) # Sha[row[s].desired]
    BY <1>1, <2>2, FreshContentId DEF IInv
  <2> QED
    BY <2>1, <2>2
<1> HIDE DEF p
<1>8. p.cid = cid /\ p.attachment = None /\ p.asset = row[s].desired
  BY DEF p
<1>9. /\ \A t \in Slots \ {s} : Known(t)' = Known(t)
      /\ Known(s)' = {row[s].synced, p} \ {None}
      /\ row[s].synced # None => row[s].synced \in Known(s)
      /\ Known(s)' \subseteq Known(s) \cup {p}
  BY <1>4, <1>6 DEF Known
<1>10. Existing' = Existing /\ Existing \subseteq Slots
  BY <1>4, <1>6 DEF Existing
<1>11. row[s].synced # None => row[s].synced # row[s].pending
  BY <1>4 DEF IInv, IdsApart
<1>12. row[s].synced # None => row[s].synced.cid # cid
  BY <1>7, <1>9, <1>11
<1>13. ASSUME NEW t \in Slots, NEW k \in Known(t)'
       PROVE  \/ k = p /\ t = s
              \/ k \in Known(t) /\ k.cid # cid
  <2>1. CASE t = s
    BY <1>9, <1>12, <1>13, <2>1
  <2>2. CASE t # s
    BY <1>7, <1>9, <1>13, <2>2
  <2> QED
    BY <2>1, <2>2
<1>14. IdsApart'
  <2>1. ASSUME NEW t \in Slots, NEW u \in Slots, NEW i \in Known(t)', NEW j \in Known(u)'
        PROVE  /\ i.cid = j.cid => t = u /\ i = j
               /\ i.attachment # None /\ i.attachment = j.attachment => t = u /\ i = j
    <3>1. CASE i = p /\ t = s
      BY <1>8, <1>13, <3>1
    <3>2. CASE j = p /\ u = s
      BY <1>8, <1>13, <3>2
    <3>3. CASE i \in Known(t) /\ j \in Known(u)
      BY <3>3 DEF IInv, IdsApart
    <3> QED
      BY <1>13, <3>1, <3>2, <3>3
  <2>2. ASSUME NEW t \in Existing', row'[t].synced # None PROVE row'[t].synced # row'[t].pending
    <3>1. CASE t = s
      BY <1>6, <1>8, <1>12, <2>2, <3>1
    <3>2. CASE t # s
      BY <1>6, <1>10, <2>2, <3>2 DEF IInv, IdsApart
    <3> QED
      BY <3>1, <3>2
  <2>3. ASSUME NEW t \in Existing', NEW u \in Slots, NEW i \in Known(u)', row'[t].obsolete # None
        PROVE  row'[t].obsolete # i.attachment
    <3>1. t \in Existing /\ t # s /\ row'[t] = row[t]
      BY <1>6, <1>10, <2>3
    <3>2. CASE i = p
      BY <1>8, <2>3, <3>2
    <3>3. CASE i \in Known(u)
      BY <2>3, <3>1, <3>3 DEF IInv, IdsApart
    <3> QED
      BY <1>13, <3>2, <3>3
  <2> QED
    BY <2>1, <2>2, <2>3 DEF IdsApart
<1>15. RemoteApart(remote)'
  <2>0. remote' = remote /\ \A a \in remote : a.id # None
    BY <1>2, NoneIsNone DEF IInv, TypeOK
  <2>1. ASSUME NEW t \in Slots, NEW i \in Known(t)', NEW a \in remote, a.id = i.attachment
        PROVE  a.cid = i.cid
    BY <1>8, <1>13, <2>0, <2>1 DEF IInv, RemoteApart
  <2>2. ASSUME NEW t \in Existing', NEW u \in Slots, NEW i \in Known(u)', NEW a \in remote,
               a.id = row'[t].obsolete
        PROVE  a.cid # i.cid
    <3>1. t \in Existing /\ row'[t] = row[t]
      BY <1>6, <1>10, <2>0, <2>2
    <3>2. CASE i = p
      BY <1>7, <1>8, <2>2, <3>1, <3>2
    <3>3. CASE i \in Known(u)
      BY <2>2, <3>1, <3>3 DEF IInv, RemoteApart
    <3> QED
      BY <1>13, <3>2, <3>3
  <2>3. \A a, b \in remote : a.id = b.id => a = b
    BY DEF IInv, RemoteApart
  <2> QED
    BY <2>0, <2>1, <2>2, <2>3 DEF RemoteApart
<1>16. TypeOK'
  BY <1>2, <1>6 DEF IInv, TypeOK, Steps
<1>17. RowsOK'
  <2>1. ImageSha(p) = ShaOf(row[s].desired)
    BY <1>4, <1>5, <1>8, ShaFacts
  <2>2. RowOK(row'[s])
    BY <1>4, <1>6, <2>1 DEF RowOK, IInv, RowsOK
  <2>3. ASSUME NEW t \in Existing', t # s PROVE RowOK(row'[t])
    BY <1>6, <1>10, <2>3 DEF IInv, RowsOK
  <2> QED
    BY <2>2, <2>3 DEF RowsOK
<1>18. ProcessOK'
  <2>1. ASSUME NEW t \in todo' PROVE Preparable(t)'
    <3>1. t \in Slots \ {s} /\ Preparable(t)
      BY <1>2, <1>3, <2>1 DEF IInv, TypeOK
    <3> QED
      BY <1>6, <1>10, <3>1 DEF Preparable
  <2> QED
    BY <1>2, <1>3, <2>1 DEF ProcessOK, Reconciling
<1>19. ASSUME ~damaged' PROVE BodyOK'
  <2>1. ASSUME body # None PROVE RowsIntact(remote)'
    <3>1. ASSUME NEW t \in Slots, NEW i \in Known(t)', i.attachment # None
          PROVE  [id |-> i.attachment, cid |-> i.cid] \in remote'
      <4>1. i \in Known(t)
        BY <1>8, <1>13, <3>1
      <4> QED
        BY <1>2, <1>19, <2>1, <3>1, <4>1, IntactRows DEF IInv, BodyOK
    <3> QED
      BY <3>1, IntactRowsNext
  <2>2. ASSUME body # None, NEW t \in Slots, body.images[t] # None
        PROVE  t \in Synchronized' /\ body.images[t] = row'[t].synced.cid
    <3>1. t \in Synchronized /\ body.images[t] = row[t].synced.cid
      BY <1>2, <1>19, <2>2 DEF IInv, BodyOK
    <3> QED
      BY <1>6, <1>10, <3>1 DEF Synchronized
  <2> QED
    BY <1>2, <1>3, <2>1, <2>2 DEF BodyOK
<1> QED
  BY <1>2, <1>14, <1>15, <1>16, <1>17, <1>18, <1>19 DEF IInv, NoDuplicateUpload

\* A row whose pending image is answered, found, failed or left alone.
Sent(s, R) ==
    IF row[s] = None THEN row'[s] = None
    ELSE /\ row'[s] \in Rows
         /\ row'[s].desired = row[s].desired /\ row'[s].synced = row[s].synced
         /\ row'[s].obsolete = row[s].obsolete
         /\ \/ row'[s].pending = row[s].pending
            \/ /\ row[s].pending # None /\ row[s].pending.attachment = None
               /\ row'[s].pending = [row[s].pending EXCEPT !.attachment = row'[s].pending.attachment]
               /\ [id |-> row'[s].pending.attachment, cid |-> row[s].pending.cid] \in R

LEMMA SentInv ==
    ASSUME IInv, TypeOK', ProcessOK', RemoteApart(remote'), remote \subseteq remote',
           "repeated" \notin Faults => NoDuplicateUpload',
           \A s \in Slots : Sent(s, remote'),
           UNCHANGED <<body, mapping, damaged>>, mapping = "live"
    PROVE  IInv'
<1>1. ASSUME NEW s \in Slots, row[s] # None
      PROVE  /\ s \in Existing /\ row'[s] # None
             /\ row'[s].desired = row[s].desired /\ row'[s].synced = row[s].synced
             /\ row'[s].obsolete = row[s].obsolete
             /\ (row'[s].pending = None <=> row[s].pending = None)
             /\ row'[s].pending # None =>
                   row'[s].pending.cid = row[s].pending.cid
                   /\ row'[s].pending.asset = row[s].pending.asset
             /\ \/ row'[s].pending = row[s].pending
                \/ [id |-> row'[s].pending.attachment,
                    cid |-> row'[s].pending.cid] \in remote'
  <2>0. row[s] \in Rows /\ row'[s] \in Rows
    BY <1>1 DEF IInv, TypeOK, Sent
  <2>1. /\ row[s] \in Rows /\ row[s].pending \in Images \cup {None} /\ s \in Existing
        /\ row'[s].pending \in Images \cup {None} /\ row'[s] # None
    BY <1>1, <2>0, NoneIsNone DEF Rows, Existing
  <2>2. CASE row'[s].pending = row[s].pending
    BY <1>1, <2>1, <2>2 DEF Sent
  <2>3. CASE row'[s].pending # row[s].pending
    <3> DEFINE a == row'[s].pending.attachment
               n == [row[s].pending EXCEPT !.attachment = a]
    <3>1. /\ row[s].pending \in Images /\ row'[s].pending = n
          /\ [id |-> a, cid |-> row[s].pending.cid] \in remote'
      BY <1>1, <2>1, <2>3 DEF Sent
    <3>2. a \in Attachments
      BY <3>1 DEF TypeOK
    <3> HIDE DEF a
    <3>3. n \in Images /\ n.cid = row[s].pending.cid /\ n.asset = row[s].pending.asset
          /\ n.attachment = a
      BY <3>1, <3>2 DEF Images
    <3>4. n # None /\ row[s].pending # None
      BY <3>1, <3>3, NoneIsNone
    <3> QED
      BY <1>1, <2>1, <3>1, <3>3, <3>4 DEF Sent
  <2> QED
    BY <2>2, <2>3
<1>2. \A s \in Slots : row[s] = None => row'[s] = None
  BY DEF Sent
<1>3. Existing' = Existing /\ Existing \subseteq Slots
  BY <1>1, <1>2 DEF Existing
<1>4. row' \in [Slots -> Rows \cup {None}] /\ \A a \in remote' : a.id # None
  BY NoneIsNone DEF TypeOK
<1>5. IdsApart' /\ RemoteApart(remote)'
  <2> DEFINE R == remote'
  <2>1. RemoteApart(R)
    OBVIOUS
  <2>2. \A a \in R : a.id # None
    BY <1>4
  <2>3. \A s \in Slots :
              /\ row'[s] = None <=> row[s] = None
              /\ row[s] # None =>
                    /\ row'[s].synced = row[s].synced /\ row'[s].obsolete = row[s].obsolete
                    /\ row'[s].pending = None <=> row[s].pending = None
                    /\ row'[s].pending # None => row'[s].pending.cid = row[s].pending.cid
                    /\ \/ row'[s].pending = row[s].pending
                       \/ [id |-> row'[s].pending.attachment,
                           cid |-> row'[s].pending.cid] \in R
    BY <1>1, <1>2
  <2> HIDE DEF R
  <2>4. /\ IdsApart'
        /\ \A a, b \in R : a.id = b.id => a = b
        /\ \A s \in Slots : \A i \in Known(s)', a \in R : a.id = i.attachment => a.cid = i.cid
        /\ \A s \in Existing', t \in Slots : \A i \in Known(t)', a \in R :
              a.id = row'[s].obsolete => a.cid # i.cid
    BY <1>4, <2>1, <2>2, <2>3, FoundImages DEF IInv
  <2> QED
    BY <2>4 DEF R, RemoteApart
<1>6. RowsOK'
  <2>1. ASSUME NEW s \in Existing PROVE RowOK(row'[s])
    <3>1. s \in Slots /\ row[s] # None /\ RowOK(row[s])
      BY <2>1 DEF IInv, RowsOK, Existing
    <3> QED
      BY <1>1, <3>1 DEF RowOK, ImageSha
  <2> QED
    BY <1>3, <2>1 DEF RowsOK
<1>7. ASSUME ~damaged' PROVE BodyOK'
  <2>1. ASSUME body # None PROVE RowsIntact(remote)'
    <3>0. RowsIntact(remote)
      BY <1>7, <2>1 DEF IInv, BodyOK
    <3>1. ASSUME NEW s \in Slots, NEW i \in Known(s)', i.attachment # None
          PROVE  [id |-> i.attachment, cid |-> i.cid] \in remote'
      <4>1. row[s] # None
        BY <1>2, <3>1 DEF Known
      <4>2. i \in Known(s) \/ [id |-> i.attachment, cid |-> i.cid] \in remote'
        BY <1>1, <3>1, <4>1 DEF Known
      <4> QED
        BY <3>0, <3>1, <4>2, IntactRows
    <3> QED
      BY <3>1, IntactRowsNext
  <2>2. ASSUME body # None, NEW s \in Slots, body.images[s] # None
        PROVE  s \in Synchronized' /\ body.images[s] = row'[s].synced.cid
    <3>1. s \in Synchronized /\ body.images[s] = row[s].synced.cid
      BY <1>7, <2>2 DEF IInv, BodyOK
    <3>2. s \in Slots /\ row[s] # None /\ row[s].synced # None
      BY <3>1 DEF Synchronized, Existing
    <3> QED
      BY <1>1, <1>3, <3>1, <3>2 DEF Synchronized
  <2> QED
    BY <2>1, <2>2 DEF BodyOK
<1> QED
  BY <1>5, <1>6, <1>7 DEF IInv

LEMMA SingleFound ==
    ASSUME TypeOK, NEW s \in Slots, Cardinality(Found(s)) = 1
    PROVE  LET a == CHOOSE x \in Found(s) : TRUE IN
           a \in remote /\ a.cid = row[s].pending.cid
<1> DEFINE a == CHOOSE x \in Found(s) : TRUE
<1>1. Found(s) # {}
  BY FS_EmptySet
<1>2. a \in Found(s)
  BY <1>1
<1> QED
  BY <1>2 DEF Found

LEMMA RecoverStep == IInv /\ Recover => IInv'
<1> SUFFICES ASSUME IInv, Recover PROVE IInv'
  OBVIOUS
<1>1. /\ pc = "prepare" /\ pc' = "upload"
      /\ todo' = {s \in Awaiting : Cardinality(Found(s)) # 1 /\ Uploadable(Recovered(s))}
      /\ UNCHANGED <<active, content, removed, mapping, presentation, remote, body, snapshot,
                     damaged>>
      /\ row' = [s \in Slots |-> IF s \in Awaiting THEN Recovered(s) ELSE row[s]]
  BY DEF Recover, MediaUnchanged, Stay, Goto, libraryVars, eventVars, mappingVars, graphVars
<1>2. mapping = "live"
  BY <1>1 DEF IInv, ProcessOK, Reconciling
<1>3. Awaiting \subseteq Slots /\ Existing \subseteq Slots /\ Awaiting \subseteq Existing
  BY DEF Awaiting, Existing
<1>4. ASSUME NEW s \in Awaiting
      PROVE  /\ Sent(s, remote') /\ row'[s] \in Rows /\ row'[s] # None
             /\ s \in todo' => row'[s].pending = row[s].pending /\ Found(s) = {}
  <2>1. /\ row[s] \in Rows /\ row[s] # None /\ row[s].pending \in Images
        /\ row[s].pending # None /\ row[s].pending.attachment = None /\ s \in Slots
        /\ row'[s] = Recovered(s)
    BY <1>1, <1>3, NoneIsNone DEF IInv, TypeOK, Awaiting, Existing, Rows
  <2>2. CASE Found(s) = {}
    <3>1. Cardinality(Found(s)) # 1
      BY <2>2, FS_EmptySet
    <3>2. Recovered(s) = row[s]
      BY <2>2, <3>1 DEF Recovered
    <3> QED
      BY <2>1, <2>2, <3>2 DEF Sent
  <2>3. CASE Found(s) # {} /\ Cardinality(Found(s)) = 1
    <3> DEFINE a == CHOOSE x \in Found(s) : TRUE
               p == row[s].pending
               n == [p EXCEPT !.attachment = a.id]
               m == [row[s] EXCEPT !.pending.attachment = a.id, !.status = "uploaded"]
    <3>1. a \in remote /\ a.cid = p.cid
      BY <2>1, <2>3, SingleFound DEF IInv
    <3> HIDE DEF a
    <3>2. a.id \in Attachments /\ [id |-> a.id, cid |-> a.cid] = a
      BY <3>1 DEF IInv, TypeOK
    <3>3. n \in Images /\ n.attachment = a.id
      BY <2>1, <3>2 DEF Images
    <3>4. m = [row[s] EXCEPT !.pending = n, !.status = "uploaded"]
      BY <2>1 DEF Rows
    <3> HIDE DEF n
    <3>5. /\ m \in Rows /\ m.pending = n /\ m.desired = row[s].desired
          /\ m.synced = row[s].synced /\ m.obsolete = row[s].obsolete
      BY <2>1, <3>3, <3>4 DEF Rows, Statuses
    <3>6. row'[s] = m
      BY <2>1, <2>3 DEF Recovered, a
    <3> HIDE DEF m
    <3>7. row'[s].pending = [p EXCEPT !.attachment = row'[s].pending.attachment]
      BY <3>3, <3>5, <3>6 DEF n
    <3>8. [id |-> row'[s].pending.attachment, cid |-> p.cid] \in remote'
      BY <1>1, <3>1, <3>2, <3>3, <3>5, <3>6
    <3>9. s \notin todo'
      BY <1>1, <2>3
    <3> QED
      BY <2>1, <3>5, <3>6, <3>7, <3>8, <3>9, NoneIsNone DEF Sent
  <2>4. CASE Found(s) # {} /\ Cardinality(Found(s)) # 1
    <3>1. Recovered(s) = Failed(row[s])
      BY <2>4 DEF Recovered
    <3>2. ~Uploadable(Recovered(s))
      BY <2>1, <3>1, FailedRow DEF Uploadable
    <3> QED
      BY <1>1, <2>1, <3>1, <3>2, FailedRow, NoneIsNone DEF Sent
  <2> QED
    BY <2>2, <2>3, <2>4
<1>5. ASSUME NEW s \in Slots, s \notin Awaiting
      PROVE  Sent(s, remote') /\ row'[s] = row[s] /\ row'[s] \in Rows \cup {None}
  BY <1>1, <1>5 DEF Sent, IInv, TypeOK
<1>6. row' \in [Slots -> Rows \cup {None}]
  <2>1. \A s \in Slots : row'[s] \in Rows \cup {None}
    BY <1>4, <1>5
  <2> QED
    BY <1>1, <2>1
<1>7. todo' \subseteq Awaiting
  BY <1>1
<1>8. TypeOK'
  BY <1>1, <1>3, <1>6, <1>7 DEF IInv, TypeOK, Steps
<1>9. ProcessOK'
  <2>1. ASSUME NEW s \in todo' PROVE s \in Awaiting' /\ Unsent(s)'
    <3>1. s \in Awaiting /\ row'[s].pending = row[s].pending /\ Found(s) = {} /\ row'[s] # None
      BY <1>4, <1>7, <2>1
    <3>2. s \in Awaiting'
      BY <1>3, <3>1 DEF Awaiting, Existing
    <3>3. Unsent(s)'
      BY <1>1, <3>1 DEF Unsent, Found
    <3> QED
      BY <3>2, <3>3
  <2> QED
    BY <1>1, <1>2, <2>1 DEF ProcessOK, Reconciling
<1>10. RemoteApart(remote') /\ ("repeated" \notin Faults => NoDuplicateUpload')
  BY <1>1 DEF IInv, NoDuplicateUpload, RemoteApart
<1>11. \A s \in Slots : Sent(s, remote')
  BY <1>4, <1>5
<1> QED
  BY <1>1, <1>2, <1>8, <1>9, <1>10, <1>11, SentInv

\* An upload adds attachments under the content ID its row has announced.
LEMMA UploadStep == IInv /\ (\E s \in Slots, o \in Outcomes \cup {"refused"} : Upload(s, o)) => IInv'
<1> SUFFICES ASSUME IInv, NEW s \in Slots, NEW o \in Outcomes \cup {"refused"}, Upload(s, o)
             PROVE  IInv'
  OBVIOUS
<1> DEFINE p == row[s].pending
<1>1. PICK id \in Attachments, again \in Attachments :
         /\ Fresh(Attachments, KnownAttachments, id)
         /\ IF o = "repeated" THEN Fresh(Attachments, KnownAttachments \cup {id}, again)
                              ELSE again = id
         /\ remote' = IF Applied(o)
                      THEN remote \cup {[id |-> i, cid |-> p.cid] : i \in {id, again}}
                      ELSE remote
         /\ row' = CASE o = "answered" ->
                          [row EXCEPT ![s].pending.attachment = id, ![s].status = "uploaded"]
                     [] o = "died"     -> row
                     [] OTHER          -> [row EXCEPT ![s] = Failed(@)]
  BY DEF Upload
<1>2. /\ pc = "upload" /\ s \in todo
      /\ UNCHANGED <<active, content, removed, mapping, presentation, body, damaged>>
      /\ \/ pc' = "idle" /\ todo' = {}
         \/ pc' = "upload" /\ todo' = todo \ {s} /\ snapshot' = snapshot
  BY DEF Upload, MediaUnchanged, Done, Stay, Goto, libraryVars, eventVars, mappingVars
<1>3. /\ mapping = "live"
      /\ \A t \in todo : t \in Awaiting /\ ("repeated" \notin Faults => Unsent(t))
  BY <1>2 DEF IInv, ProcessOK, Reconciling
<1>4. row[s] # None /\ row[s] \in Rows /\ p # None /\ p.attachment = None
  BY <1>2, <1>3 DEF IInv, TypeOK, Awaiting, Existing
<1>5. p \in Images /\ p \in Known(s) /\ p.cid \in ContentIds
  BY <1>4 DEF Rows, Images, Known
<1> DEFINE R == remote \cup {[id |-> i, cid |-> p.cid] : i \in {id, again}}
<1>6. RemoteApart(R) /\ R \subseteq [id: Attachments, cid: ContentIds]
  <2> HIDE DEF p
  <2>1. again = id \/ Fresh(Attachments, KnownAttachments \cup {id}, again)
    BY <1>1
  <2> QED
    BY <1>1, <1>4, <1>5, <2>1, GrownRemote DEF IInv
<1>7. remote' \in {R, remote} /\ remote \subseteq remote'
  BY <1>1
<1>8. \A a \in remote' : a \in remote \/ a.cid = p.cid
  BY <1>1
<1>9. RemoteApart(remote') /\ remote' \subseteq [id: Attachments, cid: ContentIds]
  BY <1>6, <1>7 DEF IInv, TypeOK
<1>10. \A t \in Slots \ {s} : row'[t] = row[t]
  BY <1>1 DEF IInv, TypeOK
<1>11. Sent(s, remote') /\ row'[s] \in Rows
  <2>1. CASE o = "answered"
    <3> DEFINE n == [p EXCEPT !.attachment = id]
               m == [row[s] EXCEPT !.pending = n, !.status = "uploaded"]
    <3>1. n \in Images /\ n.attachment = id
      BY <1>1, <1>5 DEF Images
    <3> HIDE DEF n
    <3>2. /\ m \in Rows /\ m.pending = n /\ m.desired = row[s].desired
          /\ m.synced = row[s].synced /\ m.obsolete = row[s].obsolete
      BY <1>4, <3>1 DEF Rows, Statuses
    <3>3. row'[s] = m
      <4>1. row' = [row EXCEPT ![s].pending.attachment = id, ![s].status = "uploaded"]
        BY <1>1, <2>1
      <4>2. row'[s] = [row[s] EXCEPT !.pending.attachment = id, !.status = "uploaded"]
        BY <4>1 DEF IInv, TypeOK
      <4> QED
        BY <1>4, <4>2 DEF n, Rows
    <3> HIDE DEF m
    <3>4. row'[s].pending = [p EXCEPT !.attachment = row'[s].pending.attachment]
      BY <3>1, <3>2, <3>3 DEF n
    <3>5. [id |-> id, cid |-> p.cid] \in remote'
      BY <1>1, <2>1 DEF Applied
    <3> QED
      BY <1>4, <3>1, <3>2, <3>3, <3>4, <3>5 DEF Sent
  <2>2. CASE o = "died"
    BY <1>1, <1>4, <2>2 DEF Sent
  <2>3. CASE o \notin {"answered", "died"}
    <3>1. row'[s] = Failed(row[s])
      BY <1>1, <2>3 DEF IInv, TypeOK
    <3> QED
      BY <1>4, <3>1, FailedRow DEF Sent
  <2> QED
    BY <2>1, <2>2, <2>3
<1>12. \A t \in Slots : Sent(t, remote')
  BY <1>10, <1>11 DEF Sent, IInv, TypeOK
<1>13. row' \in [Slots -> Rows \cup {None}]
  <2>1. \A t \in Slots : row'[t] \in Rows \cup {None}
    BY <1>10, <1>11 DEF IInv, TypeOK
  <2>2. DOMAIN row' = Slots /\ row' = [t \in Slots |-> row'[t]]
    BY <1>1 DEF IInv, TypeOK
  <2> QED
    BY <2>1, <2>2
<1>14. TypeOK'
  BY <1>2, <1>9, <1>13 DEF IInv, TypeOK, Steps
<1>15. ProcessOK'
  <2>1. ASSUME NEW t \in todo', pc' = "upload"
        PROVE  t \in Awaiting' /\ ("repeated" \notin Faults => Unsent(t)')
    <3>1. t \in todo /\ t # s /\ t \in Slots /\ t \in Awaiting
      BY <1>2, <1>3, <2>1 DEF IInv, TypeOK
    <3>2. row'[t] = row[t] /\ row[t] # None /\ row[t].pending # None
          /\ row[t].pending.attachment = None
      BY <1>10, <3>1 DEF Awaiting, Existing
    <3>3. t \in Awaiting'
      BY <3>1, <3>2 DEF Awaiting, Existing
    <3>4. row[t].pending \in Known(t)
      BY <3>2 DEF Known
    <3>5. row[t].pending.cid # p.cid
      BY <1>5, <3>1, <3>4 DEF IInv, IdsApart
    <3>6. ASSUME "repeated" \notin Faults PROVE Unsent(t)'
      BY <1>3, <1>8, <3>1, <3>2, <3>5, <3>6 DEF Unsent
    <3> QED
      BY <3>3, <3>6
  <2> QED
    BY <1>2, <1>3, <2>1 DEF ProcessOK, Reconciling
<1>16. ASSUME "repeated" \notin Faults PROVE NoDuplicateUpload'
  <2>1. o # "repeated"
    BY <1>16 DEF Outcomes
  <2>2. again = id
    BY <1>1, <2>1
  <2>3. Unsent(s) /\ NoDuplicateUpload
    BY <1>2, <1>3, <1>16 DEF IInv
  <2>4. remote' \subseteq remote \cup {[id |-> id, cid |-> p.cid]}
    BY <1>1, <2>2
  <2> QED
    BY <2>3, <2>4 DEF Unsent, NoDuplicateUpload
<1> QED
  BY <1>2, <1>3, <1>7, <1>9, <1>12, <1>14, <1>15, <1>16, SentInv

-----------------------------------------------------------------------------

LEMMA RefusedStep == IInv /\ Refused => IInv'
BY EndSteps, AuditRefusedStep, RecoverRefusedStep, UnrecordedSteps DEF Refused

LEMMA WorkStep == IInv /\ Work => IInv'
<1> SUFFICES ASSUME IInv, Work PROVE IInv'
  OBVIOUS
<1>1. CASE Begin \/ WriteText \/ RecordText \/ QueueRefresh \/ MarkChecked
  BY <1>1, BeginStep, WriteTextStep, RecordTextStep, QueueRefreshStep, MarkCheckedStep
<1>2. CASE DeleteEvent \/ MarkDeleted \/ MarkEventDeleted
  BY <1>2, DeleteEventStep, MarkDeletedStep, MarkEventDeletedStep
<1>3. CASE StartReconcile \/ EndClean \/ Audit \/ SelectImages \/ SelectAmbiguous
  BY <1>3, StartReconcileStep, EndCleanStep, AuditStep, SelectImagesStep, EndSteps
<1>4. CASE EndReclean \/ Recover \/ SkipBody \/ PatchBody \/ PatchOverfull \/ EndFinish
  BY <1>4, EndRecleanStep, RecoverStep, PatchBodyStep, EndSteps, UnrecordedSteps
<1>5. ASSUME NEW s \in Slots,
             Prepare(s) \/ Clean(s, "answered") \/ UploadUnread(s) \/ Upload(s, "answered")
      PROVE  IInv'
  <2>1. "answered" \in Outcomes
    BY DEF Outcomes
  <2> QED
    BY <1>5, <2>1, PrepareStep, CleanStep, UploadUnreadStep, UploadStep
<1>6. ASSUME Gone, Refused \/ \E s \in Slots : Upload(s, "refused") PROVE IInv'
  <2>1. CASE Refused
    BY <2>1, RefusedStep
  <2>2. ASSUME NEW s \in Slots, Upload(s, "refused") PROVE IInv'
    BY <2>2, UploadStep
  <2> QED
    BY <1>6, <2>1, <2>2
<1> QED
  BY <1>1, <1>2, <1>3, <1>4, <1>5, <1>6 DEF Work

LEMMA FaultStep == IInv /\ Fault => IInv'
<1> SUFFICES ASSUME IInv, Fault PROVE IInv'
  OBVIOUS
<1>1. CASE Die \/ Refused \/ PatchUnrecorded
  BY <1>1, EndSteps, RefusedStep, UnrecordedSteps
<1>2. CASE (\E a \in remote : UserRemoves(a)) \/ (\E h \in files : LoseFile(h))
  BY <1>2, UserRemovesStep, LoseFileStep
<1>3. ASSUME NEW s \in Slots, NEW o \in Outcomes, Clean(s, o) \/ Upload(s, o) PROVE IInv'
  BY <1>3, CleanStep, UploadStep
<1> QED
  BY <1>1, <1>2, <1>3 DEF Fault

LEMMA InitOK == Init => IInv
<1> SUFFICES ASSUME Init PROVE IInv
  OBVIOUS
<1>1. /\ row = [s \in Slots |-> None] /\ remote = {} /\ body = None /\ pc = "idle"
      /\ mapping = "absent" /\ damaged = FALSE /\ todo = {}
  BY DEF Init, NoImages
<1>2. (\A s \in Slots : Known(s) = {}) /\ Existing = {}
  BY <1>1 DEF Known, Existing
<1>3. TypeOK
  BY <1>1 DEF Init, TypeOK, Steps
<1>4. IdsApart /\ RemoteApart(remote) /\ RowsOK
  BY <1>1, <1>2 DEF IdsApart, RemoteApart, RowsOK
<1>5. ProcessOK
  BY <1>1 DEF ProcessOK, Reconciling
<1>6. BodyOK
  BY <1>1, <1>2, IntactRows DEF BodyOK
<1>7. NoDuplicateUpload
  BY <1>1 DEF NoDuplicateUpload
<1> QED
  BY <1>3, <1>4, <1>5, <1>6, <1>7 DEF IInv

LEMMA StutterStep == IInv /\ UNCHANGED vars => IInv'
<1> SUFFICES ASSUME IInv, UNCHANGED vars PROVE IInv'
  OBVIOUS
<1>1. UNCHANGED <<active, content, removed, mapping, presentation, row, remote, body, pc,
                  todo, snapshot, damaged>>
  BY DEF vars, libraryVars, eventVars, mappingVars, graphVars, processVars
<1>2. TypeOK'
  BY <1>1 DEF IInv, TypeOK
<1>3. ProcessOK'
  BY <1>1 DEF IInv, ProcessOK, Preparable, Existing, Awaiting, Unsent
<1> QED
  BY <1>1, <1>2, <1>3, StillInv

(* The inductive invariant: rows, attachments and the body fit together as   *)
(* long as nothing was damaged outside the protocol.                        *)
THEOREM Inductive == Spec => []IInv
<1>1. ASSUME IInv, [Next]_vars PROVE IInv'
  <2>1. CASE Next
    BY <1>1, <2>1, LibraryStep, ImportsStep, WorkStep, FaultStep, StutterStep
       DEF Next, LeaveOut
  <2> QED
    BY <1>1, <2>1, StutterStep
<1> QED
  BY <1>1, InitOK, PTL DEF Spec

(* Every image the body refers to is attached to the appointment, although   *)
(* upload, body and deletion are separate requests that may be refused, be   *)
(* applied unheard or be the last thing the process does.                   *)
THEOREM ImagesAttached == Spec => []NoDanglingImage
<1>1. IInv => NoDanglingImage
  <2> SUFFICES ASSUME IInv, ~damaged, body # None,
                      NEW s \in Slots, body.images[s] # None
               PROVE  \E a \in remote : a.cid = body.images[s]
    BY DEF NoDanglingImage, Attached
  <2> DEFINE i == row[s].synced
  <2>1. s \in Existing /\ i # None /\ body.images[s] = i.cid /\ RowsIntact(remote)
    BY DEF IInv, BodyOK, Synchronized
  <2>2. i.attachment # None /\ i \in Known(s)
    BY <2>1 DEF IInv, RowsOK, RowOK, Known, Existing
  <2>3. [id |-> i.attachment, cid |-> i.cid] \in remote
    BY <2>1, <2>2, IntactRows
  <2> QED
    BY <2>1, <2>3
<1> QED
  BY <1>1, Inductive, PTL

(* As long as no gateway makes the client repeat a request that was applied, *)
(* Graph gets no upload twice, whatever answers were lost in between: a row  *)
(* announces its content ID before the upload, and the attachment is looked  *)
(* for under it before the next.                                            *)
THEOREM UploadedOnce ==
    ASSUME "repeated" \notin Faults
    PROVE  Spec => []NoDuplicateUpload
<1>1. IInv => NoDuplicateUpload
  BY DEF IInv
<1> QED
  BY <1>1, Inductive, PTL

-----------------------------------------------------------------------------
(* A cycle with nothing to do.                                              *)

(* The cycle works from the event as it is, and until the images are shown   *)
(* again the body it rewrote has none.                                      *)
CycleOK ==
    /\ pc # "idle" => snapshot.content = content /\ snapshot.removed = removed
    /\ written \in BOOLEAN
    /\ written => pc \in Reconciling \ {"queued", "deleted"}
    /\ pc = "text_sent" \/ (written /\ pc # "finish") =>
          body = Text

(* An image that waits for its turn is not the one that is shown.           *)
PendingIsNew ==
    \A s \in Existing :
        row[s].pending # None => ImageSha(row[s].pending) # ImageSha(row[s].synced)

\* Steps between two cycles or beside one.
LEMMA CycleBeside ==
    CycleOK /\ (Library \/ Imports \/ Begin \/ LeaveOut \/ UNCHANGED vars
                \/ (\E h \in files : LoseFile(h)) \/ (\E a \in remote : UserRemoves(a)))
        => CycleOK'
<1> SUFFICES ASSUME CycleOK,
                    Library \/ Imports \/ Begin \/ LeaveOut \/ UNCHANGED vars
                        \/ (\E h \in files : LoseFile(h)) \/ (\E a \in remote : UserRemoves(a))
             PROVE  CycleOK'
  OBVIOUS
<1>1. CASE Library
  <2>1. PICK x \in Assets : ImportAsset(x) \/ Approve(x) \/ Disable(x)
    BY <1>1 DEF Library
  <2>2. UNCHANGED <<content, removed, body, pc, snapshot, written>>
    BY <2>1 DEF ImportAsset, Approve, Disable, LibraryUnchanged, eventVars, graphVars,
                processVars
  <2> QED
    BY <2>2 DEF CycleOK
<1>2. CASE (\E h \in files : LoseFile(h)) \/ (\E a \in remote : UserRemoves(a)) \/ LeaveOut
           \/ UNCHANGED vars
  <2>1. UNCHANGED <<content, removed, body, pc, snapshot, written>>
    BY <1>2 DEF LoseFile, LibraryUnchanged, UserRemoves, LeaveOut, vars, eventVars, graphVars,
                processVars
  <2> QED
    BY <2>1 DEF CycleOK
<1>3. CASE Imports
  <2>1. pc = "idle" /\ UNCHANGED <<body, pc, snapshot, written>>
    BY <1>3 DEF Imports, ImportEvent, graphVars, processVars
  <2> QED
    BY <2>1 DEF CycleOK, Reconciling
<1>4. CASE Begin
  <2>1. /\ pc = "idle" /\ pc' = "text" /\ UNCHANGED <<content, removed, body, written>>
        /\ snapshot' = [content |-> content, removed |-> removed,
                        presentation |-> presentation]
    BY <1>4 DEF Begin, Goto, eventVars, graphVars
  <2> QED
    BY <2>1 DEF CycleOK, Reconciling
<1> QED
  BY <1>1, <1>2, <1>3, <1>4

\* The end of a cycle, and the steps of one that leave the body alone.
LEMMA CycleMoves ==
    ASSUME CycleOK, UNCHANGED <<content, removed>>,
           \/ pc' = "idle" /\ written' = FALSE
           \/ /\ pc # "idle" /\ UNCHANGED <<snapshot, written, body>>
              /\ pc' # "text_sent"
              /\ written => /\ pc' \in Reconciling \ {"queued", "deleted"}
                            /\ pc # "finish" \/ pc' = "finish"
    PROVE  CycleOK'
<1>1. CASE pc' = "idle" /\ written' = FALSE
  BY <1>1 DEF CycleOK
<1>2. CASE /\ pc # "idle" /\ UNCHANGED <<snapshot, written, body>>
           /\ pc' # "text_sent"
           /\ written => /\ pc' \in Reconciling \ {"queued", "deleted"}
                         /\ pc # "finish" \/ pc' = "finish"
  BY <1>2 DEF CycleOK
<1> QED
  BY <1>1, <1>2

LEMMA CycleEnds ==
    CycleOK /\ (Die \/ RefuseText \/ MarkEventDeleted \/ SelectAmbiguous \/ SkipBody
                \/ EndFinish \/ PatchOverfull \/ PatchRefused \/ PatchUnrecorded
                \/ AuditRefused)
        => CycleOK'
<1> SUFFICES ASSUME CycleOK,
                    Die \/ RefuseText \/ MarkEventDeleted \/ SelectAmbiguous \/ SkipBody
                        \/ EndFinish \/ PatchOverfull \/ PatchRefused \/ PatchUnrecorded
                        \/ AuditRefused
             PROVE  CycleOK'
  OBVIOUS
<1>1. pc' = "idle" /\ written' = FALSE /\ UNCHANGED <<content, removed>>
  BY DEF Die, RefuseText, MarkEventDeleted, SelectAmbiguous, SkipBody, EndFinish,
         PatchOverfull, PatchRefused, PatchUnrecorded, AuditRefused, Done, Goto,
         MediaUnchanged, eventVars
<1> QED
  BY <1>1, CycleMoves

\* The text: only it makes the body one without images.
LEMMA CycleText ==
    CycleOK /\ (WriteText \/ RecordText \/ QueueRefresh \/ MarkChecked \/ DeleteEvent
                \/ MarkDeleted)
        => CycleOK'
<1> SUFFICES ASSUME CycleOK,
                    WriteText \/ RecordText \/ QueueRefresh \/ MarkChecked \/ DeleteEvent
                        \/ MarkDeleted
             PROVE  CycleOK'
  OBVIOUS
<1>1. CASE WriteText
  <2>1. /\ pc = "text" /\ pc' = "text_sent"
        /\ UNCHANGED <<content, removed, snapshot, written>>
        /\ body' = Text
    BY <1>1 DEF WriteText, Goto, Stay, eventVars
  <2> QED
    BY <2>1 DEF CycleOK, Reconciling, Text
<1>2. CASE RecordText
  <2>1. /\ pc = "text_sent" /\ pc' = "refresh" /\ written' = TRUE
        /\ UNCHANGED <<content, removed, snapshot, body>>
    BY <1>2 DEF RecordText, Goto, eventVars, graphVars
  <2> QED
    BY <2>1 DEF CycleOK, Reconciling, Text
<1>3. CASE QueueRefresh \/ MarkChecked \/ MarkDeleted
  <2>1. /\ pc \in {"text", "queued", "deleted"} /\ pc' \in {"queued", "refresh", "unmapped"}
        /\ UNCHANGED <<content, removed, snapshot, written, body>>
    BY <1>3 DEF QueueRefresh, MarkChecked, MarkDeleted, Goto, Stay, eventVars, graphVars
  <2>2. ~written
    BY <2>1 DEF CycleOK, Reconciling
  <2> QED
    BY <2>1, <2>2, CycleMoves
<1>4. CASE DeleteEvent
  <2>1. /\ pc = "text" /\ pc' = "deleted"
        /\ UNCHANGED <<content, removed, snapshot, written>>
    BY <1>4 DEF DeleteEvent, Goto, Stay, eventVars
  <2> QED
    BY <2>1 DEF CycleOK, Reconciling
<1> QED
  BY <1>1, <1>2, <1>3, <1>4

\* The images, up to the body and after it.
LEMMA CycleImages ==
    CycleOK /\ (StartReconcile \/ EndClean \/ Audit \/ SelectImages \/ EndReclean \/ Recover
                \/ RecoverRefused \/ PatchBody
                \/ \E s \in Slots : Prepare(s) \/ UploadUnread(s)
                                   \/ \E o \in Outcomes \cup {"refused"} : Clean(s, o) \/ Upload(s, o))
        => CycleOK'
<1> SUFFICES ASSUME CycleOK,
                    StartReconcile \/ EndClean \/ Audit \/ SelectImages \/ EndReclean \/ Recover
                    \/ RecoverRefused \/ PatchBody
                    \/ \E s \in Slots : Prepare(s) \/ UploadUnread(s)
                          \/ \E o \in Outcomes \cup {"refused"} : Clean(s, o) \/ Upload(s, o)
             PROVE  CycleOK'
  OBVIOUS
<1>1. CASE StartReconcile \/ EndClean \/ Audit \/ SelectImages \/ EndReclean \/ Recover
           \/ RecoverRefused
  <2>1. /\ pc \in Reconciling \ {"queued", "deleted", "finish"}
        /\ UNCHANGED <<content, removed, body>>
        /\ \/ pc' = "idle" /\ written' = FALSE
           \/ pc' \in Reconciling \ {"queued", "deleted"} /\ UNCHANGED <<snapshot, written>>
    BY <1>1 DEF StartReconcile, EndClean, Audit, SelectImages, EndReclean, Recover,
                RecoverRefused, Reconciling, Goto, Done, Stay, MediaUnchanged, eventVars,
                graphVars
  <2> QED
    BY <2>1, CycleMoves DEF Reconciling
<1>2. ASSUME NEW s \in Slots, Prepare(s) \/ UploadUnread(s) PROVE CycleOK'
  <2>1. /\ pc \in {"prepare", "upload"} /\ pc' = pc
        /\ UNCHANGED <<content, removed, snapshot, written, body>>
    BY <1>2 DEF Prepare, UploadUnread, Goto, Stay, MediaUnchanged, eventVars, graphVars
  <2> QED
    BY <2>1, CycleMoves DEF Reconciling
<1>3. ASSUME NEW s \in Slots, NEW o, Clean(s, o) \/ Upload(s, o) PROVE CycleOK'
  <2>1. /\ pc \in {"clean", "reclean", "finish", "upload"}
        /\ UNCHANGED <<content, removed, body>>
        /\ \/ pc' = "idle" /\ written' = FALSE
           \/ pc' = pc /\ UNCHANGED <<snapshot, written>>
    BY <1>3 DEF Clean, Upload, Done, Goto, Stay, MediaUnchanged, eventVars
  <2> QED
    BY <2>1, CycleMoves DEF Reconciling
<1>4. CASE PatchBody
  <2>1. /\ pc = "upload" /\ pc' = "finish"
        /\ UNCHANGED <<content, removed, snapshot, written>>
    BY <1>4 DEF PatchBody, Goto, Stay, MediaUnchanged, eventVars
  <2> QED
    BY <2>1 DEF CycleOK, Reconciling
<1> QED
  BY <1>1, <1>2, <1>3, <1>4

LEMMA CycleStep == CycleOK /\ [Next]_vars => CycleOK'
<1> SUFFICES ASSUME CycleOK, [Next]_vars PROVE CycleOK'
  OBVIOUS
<1>1. CASE Library \/ Imports \/ LeaveOut \/ UNCHANGED vars
  BY <1>1, CycleBeside
<1>2. CASE Refused
  BY <1>2, CycleEnds, CycleImages DEF Refused
<1>3. CASE Work
  <2>1. CASE Gone /\ (Refused \/ \E s \in Slots : Upload(s, "refused"))
    BY <1>2, <2>1, CycleImages
  <2>2. CASE \E s \in Slots : Prepare(s) \/ Clean(s, "answered") \/ UploadUnread(s)
                              \/ Upload(s, "answered")
    BY <2>2, CycleImages DEF Outcomes
  <2>3. CASE ~(\E s \in Slots : Prepare(s) \/ Clean(s, "answered") \/ UploadUnread(s)
                              \/ Upload(s, "answered"))
             /\ ~(Gone /\ (Refused \/ \E s \in Slots : Upload(s, "refused")))
    BY <1>3, <2>3, CycleBeside, CycleEnds, CycleText, CycleImages DEF Work
  <2> QED
    BY <2>1, <2>2, <2>3
<1>4. CASE Fault
  <2>1. ASSUME NEW s \in Slots, NEW o \in Outcomes \ {"answered"}, Clean(s, o) \/ Upload(s, o)
        PROVE  CycleOK'
    BY <2>1, CycleImages
  <2> QED
    BY <1>2, <1>4, <2>1, CycleBeside, CycleEnds DEF Fault
<1> QED
  BY <1>1, <1>3, <1>4 DEF Next

\* A row whose image still waits, if it does, for the place of the same image.
StillNew(s) ==
    row'[s] # None /\ row'[s].pending # None =>
        /\ row[s] # None /\ row[s].pending # None
        /\ ImageSha(row'[s].pending) = ImageSha(row[s].pending)
        /\ row'[s].synced \in {None, row[s].synced}

LEMMA StillNewRows ==
    ASSUME TypeOK', PendingIsNew, \A s \in Slots : StillNew(s)
    PROVE  PendingIsNew'
<1> SUFFICES ASSUME NEW s \in Slots, row'[s] # None, row'[s].pending # None
             PROVE  ImageSha(row'[s].pending) # ImageSha(row'[s].synced)
  BY DEF PendingIsNew, Existing, ImageSha
<1>1. /\ row[s] # None /\ row[s].pending # None
      /\ ImageSha(row'[s].pending) = ImageSha(row[s].pending)
      /\ row'[s].synced \in {None, row[s].synced}
  BY DEF StillNew
<1>2. ImageSha(row[s].pending) # ImageSha(row[s].synced)
  BY <1>1 DEF PendingIsNew, Existing
<1>3. row'[s].pending \in Images
  BY DEF TypeOK, Rows
<1>4. ImageSha(row'[s].pending) # None /\ ImageSha(None) = None
  BY <1>3, ShaFacts
<1> QED
  BY <1>1, <1>2, <1>4

LEMMA SameImagesNew ==
    ASSUME NEW s \in Slots, SameImages(s)
    PROVE  StillNew(s)
BY NoneIsNone DEF SameImages, StillNew

\* Steps that leave the images of the rows alone.
LEMMA NewSameImages ==
    ASSUME IInv, TypeOK', PendingIsNew,
           \/ row' = row
           \/ QueueRefresh \/ StartReconcile \/ AuditRefused \/ RecoverRefused
           \/ PatchRefused \/ PatchUnrecorded \/ (\E s \in Slots : UploadUnread(s))
    PROVE  PendingIsNew'
<1>1. \A s \in Slots : SameImages(s)
  <2>1. CASE row' = row
    BY <2>1, UnchangedRows DEF IInv
  <2>2. CASE QueueRefresh \/ StartReconcile
    <3>1. row' = row \/ row' = [s \in Slots |-> Refreshed(row[s])]
      BY <2>2 DEF QueueRefresh, StartReconcile
    <3> QED
      BY <3>1, RefreshedRows, UnchangedRows DEF IInv
  <2>3. CASE \E T \in SUBSET Existing :
                row' = [s \in Slots |-> IF s \in T THEN Failed(row[s]) ELSE row[s]]
    BY <2>3, FailedRows DEF IInv
  <2>4. CASE AuditRefused
    BY <2>3, <2>4 DEF AuditRefused, Synchronized
  <2>5. CASE RecoverRefused
    BY <2>3, <2>5 DEF RecoverRefused, Awaiting
  <2>6. CASE PatchRefused \/ PatchUnrecorded
    <3> DEFINE T == {s \in Existing : written \/ Switches(s)}
    <3>1. \/ row' = row
          \/ row' = [s \in Slots |-> IF s \in T THEN Failed(row[s]) ELSE row[s]]
      BY <2>6 DEF PatchRefused, PatchUnrecorded, Unswitched
    <3>2. T \in SUBSET Existing
      OBVIOUS
    <3> HIDE DEF T
    <3> QED
      BY <2>1, <2>3, <3>1, <3>2
  <2>7. ASSUME NEW s \in Slots, UploadUnread(s) PROVE \A t \in Slots : SameImages(t)
    <3>1. s \in Existing
      BY <2>7 DEF UploadUnread, IInv, ProcessOK, Awaiting
    <3>2. row' = [t \in Slots |-> IF t \in {s} THEN Failed(row[t]) ELSE row[t]]
      BY <2>7 DEF UploadUnread, IInv, TypeOK
    <3>3. {s} \in SUBSET Existing
      BY <3>1
    <3> QED
      BY <3>2, <3>3, FailedRows DEF IInv
  <2> QED
    BY <2>1, <2>2, <2>4, <2>5, <2>6, <2>7
<1>2. \A s \in Slots : StillNew(s)
  BY <1>1, SameImagesNew
<1> QED
  BY <1>2, StillNewRows

LEMMA NewClean ==
    ASSUME IInv, TypeOK', PendingIsNew, NEW s \in Slots, NEW o, Clean(s, o)
    PROVE  PendingIsNew'
<1>1. /\ s \in todo /\ todo \subseteq Existing
      /\ row' \in {[row EXCEPT ![s] = Cleaned(@)], row, [row EXCEPT ![s] = Failed(@)]}
  BY DEF Clean, IInv, ProcessOK
<1>2. row[s] \in Rows /\ row[s] # None
  BY <1>1 DEF IInv, TypeOK, Existing
<1>3. row'[s] = row[s] \/ (row'[s].pending = row[s].pending /\ row'[s].synced = row[s].synced)
  BY <1>1, <1>2, CleanedRow, FailedRow DEF IInv, TypeOK
<1>4. \A t \in Slots \ {s} : row'[t] = row[t]
  BY <1>1 DEF IInv, TypeOK
<1>5. \A t \in Slots : StillNew(t)
  BY <1>2, <1>3, <1>4 DEF StillNew
<1> QED
  BY <1>5, StillNewRows

LEMMA NewAudit ==
    ASSUME IInv, TypeOK', PendingIsNew, Audit \/ MarkEventDeleted
    PROVE  PendingIsNew'
<1>1. ASSUME Audit, NEW s \in Slots PROVE StillNew(s)
  <2>1. row'[s] = (IF s \in Synchronized /\ ~Present(row[s].synced) THEN Missing(row[s])
                                                                    ELSE row[s])
    BY <1>1 DEF Audit
  <2>2. s \in Synchronized => row[s] \in Rows /\ row[s] # None
    BY DEF IInv, TypeOK, Synchronized, Existing
  <2> QED
    BY <2>1, <2>2, MissingRow DEF StillNew
<1>2. ASSUME MarkEventDeleted, NEW s \in Slots PROVE StillNew(s)
  BY <1>2, ForgottenRow DEF MarkEventDeleted, StillNew
<1> QED
  BY <1>1, <1>2, StillNewRows

LEMMA NewSelect ==
    ASSUME IInv, TypeOK', PendingIsNew, SelectImages
    PROVE  PendingIsNew'
<1>1. ASSUME NEW s \in Slots PROVE StillNew(s)
  <2> DEFINE x == Selected(snapshot.content, s)
  <2>1. x \in Assets \cup {None}
    BY SelectedAsset DEF IInv
  <2>2. row'[s] = Desire(row[s], x)
    BY DEF SelectImages, Reconciled
  <2> HIDE DEF x
  <2>3. CASE row[s] = None
    <3>1. row'[s] # None => row'[s].pending = None
      BY <2>2, <2>3 DEF Desire
    <3> QED
      BY <3>1 DEF StillNew
  <2>4. CASE row[s] # None
    <3>1. row[s] \in Rows /\ RowOK(row[s])
      BY <2>4 DEF IInv, TypeOK, RowsOK, Existing
    <3>2. row'[s].synced = row[s].synced /\ row'[s].pending \in {row[s].pending, None}
      BY <2>1, <2>2, <3>1, DesiredRow
    <3> QED
      BY <2>4, <3>2 DEF StillNew
  <2> QED
    BY <2>3, <2>4
<1> QED
  BY <1>1, StillNewRows

LEMMA NewPatch ==
    ASSUME IInv, TypeOK', PendingIsNew, PatchBody
    PROVE  PendingIsNew'
<1>1. ASSUME NEW s \in Slots PROVE StillNew(s)
  <2>1. row'[s] = (IF row[s] = None THEN None ELSE Shown(row[s]))
    BY DEF PatchBody
  <2>2. CASE row[s] = None
    BY <2>1, <2>2 DEF StillNew
  <2>3. CASE row[s] # None
    <3>1. row[s] \in Rows /\ RowOK(row[s])
      BY <2>3 DEF IInv, TypeOK, RowsOK, Existing
    <3>2. Target(row[s]) \in {None, row[s].pending, row[s].synced}
      BY <3>1, TargetFacts
    <3>3. /\ Shown(row[s]).synced = Target(row[s])
          /\ Shown(row[s]).pending = IF Target(row[s]) # None /\ row[s].pending = Target(row[s])
                                     THEN None ELSE row[s].pending
      BY <3>1 DEF Shown, Rows
    <3> QED
      BY <2>1, <2>3, <3>2, <3>3 DEF StillNew
  <2> QED
    BY <2>2, <2>3
<1> QED
  BY <1>1, StillNewRows

LEMMA NewPrepare ==
    ASSUME IInv, TypeOK', PendingIsNew, NEW s \in Slots, Prepare(s)
    PROVE  PendingIsNew'
<1>1. PICK cid \in ContentIds :
         row' = [row EXCEPT ![s].pending = [asset |-> row[s].desired, cid |-> cid,
                                            attachment |-> None],
                            ![s].status = "pending"]
  BY DEF Prepare
<1> DEFINE p == [asset |-> row[s].desired, cid |-> cid, attachment |-> None]
<1>2. Preparable(s)
  BY DEF Prepare, IInv, ProcessOK
<1>3. /\ row[s] \in Rows /\ row[s] # None /\ row[s].desired \in Assets
      /\ Sha[row[s].desired] # ImageSha(row[s].synced)
  BY <1>2 DEF Preparable, Existing, IInv, TypeOK, Rows
<1>4. p \in Images
  BY <1>3 DEF Images
<1>5. ImageSha(p) = Sha[row[s].desired]
  BY <1>4, ShaFacts
<1>6. row'[s].pending = p /\ row'[s].synced = row[s].synced
  BY <1>1, <1>3 DEF IInv, TypeOK, Rows
<1>7. \A t \in Slots \ {s} : row'[t] = row[t]
  BY <1>1 DEF IInv, TypeOK
<1>8. ASSUME NEW t \in Existing', row'[t].pending # None
      PROVE  ImageSha(row'[t].pending) # ImageSha(row'[t].synced)
  <2>1. CASE t = s
    BY <1>3, <1>5, <1>6, <2>1
  <2>2. CASE t # s
    BY <1>7, <1>8, <2>2 DEF PendingIsNew, Existing
  <2> QED
    BY <2>1, <2>2
<1>9. \A t \in Existing' : row'[t].pending # None =>
          ImageSha(row'[t].pending) # ImageSha(row'[t].synced)
  BY <1>8
<1> QED
  BY <1>9 DEF PendingIsNew, ImageSha

LEMMA NewRecover ==
    ASSUME IInv, TypeOK', PendingIsNew, Recover
    PROVE  PendingIsNew'
<1>1. ASSUME NEW s \in Slots PROVE StillNew(s)
  <2>1. row'[s] = (IF s \in Awaiting THEN Recovered(s) ELSE row[s])
    BY DEF Recover
  <2>2. CASE s \notin Awaiting
    BY <2>1, <2>2 DEF StillNew
  <2>3. CASE s \in Awaiting
    <3>1. row[s] \in Rows /\ row[s] # None /\ row[s].pending # None /\ row[s].pending \in Images
      BY <2>3 DEF IInv, TypeOK, Awaiting, Existing, Rows
    <3>2. Failed(row[s]).pending = row[s].pending /\ Failed(row[s]).synced = row[s].synced
      BY <3>1, FailedRow
    <3> DEFINE id == (CHOOSE a \in Found(s) : TRUE).id
               q == [row[s].pending EXCEPT !.attachment = id]
               r == [row[s] EXCEPT !.pending.attachment = id, !.status = "uploaded"]
    <3>3. row'[s] = row[s] \/ row'[s] = r \/ row'[s] = Failed(row[s])
      BY <2>1, <2>3 DEF Recovered
    <3> HIDE DEF id
    <3>4. r.synced = row[s].synced /\ r.pending = q
      BY <3>1 DEF Rows
    <3>5. q.asset = row[s].pending.asset /\ q = [asset |-> row[s].pending.asset,
             cid |-> row[s].pending.cid, attachment |-> id]
      BY <3>1 DEF Images
    <3> QED
      BY <3>1, <3>2, <3>3, <3>4, <3>5 DEF StillNew, ImageSha
  <2> QED
    BY <2>2, <2>3
<1> QED
  BY <1>1, StillNewRows

LEMMA NewUpload ==
    ASSUME IInv, TypeOK', PendingIsNew, NEW s \in Slots, NEW o, Upload(s, o)
    PROVE  PendingIsNew'
<1>1. s \in todo /\ s \in Awaiting
  BY DEF Upload, IInv, ProcessOK
<1>2. row[s] \in Rows /\ row[s] # None /\ row[s].pending # None /\ row[s].pending \in Images
  BY <1>1 DEF IInv, TypeOK, Awaiting, Existing, Rows
<1>3. PICK id \in Attachments :
         row' \in {[row EXCEPT ![s].pending.attachment = id, ![s].status = "uploaded"],
                   row, [row EXCEPT ![s] = Failed(@)]}
  BY DEF Upload
<1> DEFINE q == [row[s].pending EXCEPT !.attachment = id]
           r == [row[s] EXCEPT !.pending.attachment = id, !.status = "uploaded"]
<1>4. \A t \in Slots \ {s} : row'[t] = row[t]
  BY <1>3 DEF IInv, TypeOK
<1>5. row'[s] = r \/ row'[s] = row[s] \/ row'[s] = Failed(row[s])
  BY <1>3 DEF IInv, TypeOK
<1>6. r.synced = row[s].synced /\ r.pending = q
  BY <1>2 DEF Rows
<1>7. q.asset = row[s].pending.asset
  BY <1>2 DEF Images
<1>8. Failed(row[s]).pending = row[s].pending /\ Failed(row[s]).synced = row[s].synced
  BY <1>2, FailedRow
<1>9. StillNew(s)
  BY <1>2, <1>5, <1>6, <1>7, <1>8 DEF StillNew, ImageSha
<1>10. \A t \in Slots : StillNew(t)
  BY <1>4, <1>9 DEF StillNew
<1> QED
  BY <1>10, StillNewRows

\* Every other step leaves the rows as they are.
LEMMA NewStep == IInv /\ TypeOK' /\ PendingIsNew /\ [Next]_vars => PendingIsNew'
<1> SUFFICES ASSUME IInv, TypeOK', PendingIsNew, [Next]_vars PROVE PendingIsNew'
  OBVIOUS
<1>1. CASE \/ Library \/ Imports \/ LeaveOut \/ UNCHANGED vars
           \/ (\E h \in files : LoseFile(h)) \/ (\E a \in remote : UserRemoves(a))
           \/ Die \/ Begin \/ WriteText \/ RecordText \/ MarkChecked \/ DeleteEvent
           \/ MarkDeleted \/ EndClean \/ SelectAmbiguous \/ EndReclean \/ SkipBody
           \/ PatchOverfull \/ EndFinish \/ RefuseText
  <2>1. row' = row
    BY <1>1 DEF Library, ImportAsset, Approve, Disable, LibraryUnchanged, Imports, ImportEvent,
                LeaveOut, LoseFile, UserRemoves, Die, Begin, WriteText, RecordText, MarkChecked,
                DeleteEvent, MarkDeleted, EndClean, SelectAmbiguous, EndReclean, SkipBody,
                PatchOverfull, EndFinish, RefuseText, vars
  <2> QED
    BY <2>1, NewSameImages
<1>2. CASE Refused
  BY <1>1, <1>2, NewSameImages DEF Refused
<1>3. CASE Work
  <2>1. ASSUME NEW s \in Slots, NEW o, Clean(s, o) \/ Upload(s, o) PROVE PendingIsNew'
    BY <2>1, NewClean, NewUpload
  <2>2. CASE Gone /\ (Refused \/ \E s \in Slots : Upload(s, "refused"))
    BY <1>2, <2>1, <2>2
  <2>3. CASE \E s \in Slots : Prepare(s) \/ Clean(s, "answered") \/ UploadUnread(s)
                              \/ Upload(s, "answered")
    BY <2>1, <2>3, NewPrepare, NewSameImages
  <2>4. CASE ~(\E s \in Slots : Prepare(s) \/ Clean(s, "answered") \/ UploadUnread(s)
                              \/ Upload(s, "answered"))
             /\ ~(Gone /\ (Refused \/ \E s \in Slots : Upload(s, "refused")))
    BY <1>1, <1>3, <2>4, NewSameImages, NewAudit, NewSelect, NewRecover, NewPatch DEF Work
  <2> QED
    BY <2>2, <2>3, <2>4
<1>4. CASE Fault
  BY <1>1, <1>2, <1>4, NewSameImages, NewClean, NewUpload DEF Fault
<1> QED
  BY <1>1, <1>3, <1>4 DEF Next

\* In a converged state no image waits, and the rows have nothing to switch.
LEMMA ConvergedRows ==
    ASSUME IInv, PendingIsNew, Converged, NEW s \in Existing
    PROVE  /\ s \in Slots /\ row[s] # None /\ row[s] \in Rows
           /\ row[s].pending = None /\ row[s].obsolete = None /\ row[s].status = "synced"
           /\ Target(row[s]) = row[s].synced /\ ~Switches(s)
           /\ body.images[s] = CidOf(row[s].synced)
<1>1. /\ s \in Slots /\ row[s] # None /\ row[s] \in Rows /\ RowOK(row[s])
      /\ row[s].synced \in Images \cup {None}
  BY DEF Existing, IInv, TypeOK, RowsOK, Rows
<1>2. /\ ImageSha(row[s].synced) = ShaOf(row[s].desired)
      /\ row[s].obsolete = None /\ row[s].status = "synced"
      /\ body.images[s] = CidOf(row[s].synced)
  BY <1>1 DEF Converged, Illustrated
<1>3. row[s].pending = None
  BY <1>2 DEF PendingIsNew, IInv, RowsOK, RowOK
<1>4. row[s].desired = None => row[s].synced = None
  BY <1>1, <1>2, ShaFacts
<1>5. Target(row[s]) = row[s].synced
  BY <1>3, <1>4 DEF Target
<1> QED
  BY <1>1, <1>2, <1>3, <1>5 DEF Switches

\* So the body is due only because its text was just written.
LEMMA ConvergedDue ==
    ASSUME IInv, CycleOK, PendingIsNew, Converged, BodyDue
    PROVE  written
<1>1. ASSUME NEW s \in Existing PROVE row[s].status # "failed" /\ ~Switches(s)
  BY ConvergedRows
<1> QED
  BY <1>1 DEF BodyDue

\* Then it shows no images, and is to show none.
LEMMA ConvergedBody ==
    ASSUME IInv, CycleOK, PendingIsNew, Converged, pc = "upload", BodyDue
    PROVE  NewBody = body
<1>1. written
  BY ConvergedDue
<1>2. body = Text
  BY <1>1 DEF CycleOK
<1>3. body.images = NoImages
  BY <1>2 DEF Text
<1>4. ASSUME NEW s \in Slots
      PROVE  (IF row[s] = None THEN None ELSE CidOf(Target(row[s]))) = None
  <2>1. CASE row[s] = None
    BY <2>1
  <2>2. CASE row[s] # None
    <3>1. s \in Existing
      BY <2>2 DEF Existing
    <3>2. Target(row[s]) = row[s].synced /\ body.images[s] = CidOf(row[s].synced)
      BY <3>1, ConvergedRows
    <3> QED
      BY <1>3, <2>2, <3>2 DEF NoImages
  <2> QED
    BY <2>1, <2>2
<1>5. [s \in Slots |-> IF row[s] = None THEN None ELSE CidOf(Target(row[s]))] = NoImages
  BY <1>4 DEF NoImages
<1> QED
  BY <1>2, <1>5 DEF NewBody, Text

(* Once the appointment shows the images chosen for its event and the rows   *)
(* say so, a cycle over the unchanged event uploads nothing, patches nothing *)
(* and deletes nothing, also one that began before and was refused, died or  *)
(* lost answers on the way.                                                 *)
THEOREM ConvergedIsQuiet == Spec => QuietCycle
<1> DEFINE Inv == IInv /\ CycleOK /\ PendingIsNew
<1>1. Init => CycleOK /\ PendingIsNew
  BY DEF Init, CycleOK, PendingIsNew, Existing, NoImages
<1>2. IInv /\ IInv' /\ Inv /\ [Next]_vars => Inv'
  BY CycleStep, NewStep DEF IInv
<1>3. Spec => []Inv
  <2>1. Init => Inv
    BY <1>1, InitOK
  <2>2. Spec => []IInv
    BY Inductive
  <2> HIDE DEF Inv
  <2> QED
    BY <1>2, <2>1, <2>2, PTL DEF Spec
<1>4. ASSUME Inv, Next, Converged, processVars' # processVars
      PROVE  UNCHANGED graphVars
  <2>1. /\ mapping = "live" /\ ~removed /\ hash = content
        /\ pc # "idle" => snapshot.content = content /\ snapshot.removed = removed
    BY <1>4 DEF Converged, Illustrated, CycleOK
  <2>2. ASSUME WriteText \/ DeleteEvent PROVE FALSE
    BY <2>1, <2>2 DEF WriteText, DeleteEvent, TextChanged
  <2>3. ASSUME NEW s \in Slots, NEW o, Clean(s, o) PROVE UNCHANGED graphVars
    <3>1. s \in Existing
      BY <1>4, <2>3 DEF Clean, IInv, ProcessOK
    <3>2. row[s].obsolete = None
      BY <1>4, <3>1, ConvergedRows
    <3>3. \A a \in remote : a.id # None
      BY <1>4, NoneIsNone DEF IInv, TypeOK
    <3>4. remote' \in {remote, {a \in remote : a.id # row[s].obsolete}} /\ body' = body
      BY <2>3 DEF Clean
    <3> QED
      BY <3>2, <3>3, <3>4 DEF graphVars
  <2>4. ASSUME NEW s \in Slots, NEW o, Upload(s, o) PROVE FALSE
    <3>1. s \in Awaiting
      BY <1>4, <2>4 DEF Upload, IInv, ProcessOK
    <3> QED
      BY <1>4, <3>1, ConvergedRows DEF Awaiting
  <2>5. ASSUME PatchBody \/ PatchOverfull \/ PatchUnrecorded PROVE UNCHANGED graphVars
    <3>1. pc = "upload" /\ BodyDue /\ body' = NewBody /\ remote' = remote
      BY <2>5 DEF PatchBody, PatchOverfull, PatchUnrecorded
    <3> QED
      BY <1>4, <3>1, ConvergedBody DEF graphVars
  <2>6. ASSUME \E a \in remote : UserRemoves(a) PROVE FALSE
    BY <1>4, <2>6 DEF UserRemoves
  <2>7. CASE Library \/ Imports \/ LeaveOut \/ (\E h \in files : LoseFile(h))
    BY <2>7 DEF Library, ImportAsset, Approve, Disable, LibraryUnchanged, Imports, ImportEvent,
                LeaveOut, LoseFile, vars
  <2>8. CASE \/ Die \/ Begin \/ RecordText \/ QueueRefresh \/ MarkChecked
             \/ MarkDeleted \/ MarkEventDeleted \/ StartReconcile \/ EndClean \/ Audit
             \/ SelectImages \/ SelectAmbiguous \/ EndReclean \/ Recover \/ SkipBody
             \/ EndFinish \/ RefuseText \/ AuditRefused \/ RecoverRefused \/ PatchRefused
             \/ (\E s \in Slots : Prepare(s) \/ UploadUnread(s))
    BY <2>8 DEF Die, Begin, RecordText, QueueRefresh, MarkChecked, MarkDeleted,
                MarkEventDeleted, StartReconcile, EndClean, Audit, SelectImages,
                SelectAmbiguous, EndReclean, Recover, SkipBody, EndFinish, RefuseText,
                AuditRefused, RecoverRefused, PatchRefused, Prepare, UploadUnread
  <2>9. CASE Refused
    BY <2>8, <2>9 DEF Refused
  <2>10. CASE Work
    BY <2>2, <2>3, <2>4, <2>5, <2>8, <2>9, <2>10 DEF Work
  <2>11. CASE Fault
    BY <2>3, <2>4, <2>5, <2>6, <2>7, <2>8, <2>9, <2>11 DEF Fault
  <2>12. Library \/ Imports \/ LeaveOut \/ Work \/ Fault
    BY <1>4 DEF Next
  <2> QED
    BY <2>7, <2>10, <2>11, <2>12
<1>5. ASSUME Inv, Converged, SendsBody PROVE written
  BY <1>5, ConvergedDue DEF SendsBody, PatchBody, PatchOverfull, PatchUnrecorded, PatchRefused
<1>6. Inv /\ [Next]_vars =>
          [Converged /\ processVars' # processVars
              => UNCHANGED graphVars /\ (SendsBody => written)]_vars
  BY <1>4, <1>5
<1> HIDE DEF Inv
<1> QED
  BY <1>3, <1>6, PTL DEF Spec, QuietCycle
=============================================================================

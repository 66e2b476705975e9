------------------------- MODULE ImageReviewProofs -------------------------
(***************************************************************************)
(* For any images, generations, reviewers, posters and clean-ups: an       *)
(* attachment has at most one row (OneRowHolds), nothing is published for  *)
(* an image no reviewer decided on (DecisionsPrecedePublication), and a    *)
(* row that says POSTED is of an attachment a PUT reached, one that is     *)
(* gone, or one an error was misread for (PostedHolds).                    *)
(***************************************************************************)
EXTENDS ImageReview, TLAPS

\* What a job or a list entry remembers of a row stays true of its image:
\* a number is never given to a second row.
KnowsRow(k, i) == k <= inserted /\ (rows[k] # NoRow => rows[k].image = i)

Numbered ==
  /\ \A k \in Ids : rows[k] # NoRow => k <= inserted
  /\ \A a \in Actors : work[a].at # "idle" => KnowsRow(work[a].row, work[a].seen.image)
  /\ \A p \in Posters : \A e \in list[p] : KnowsRow(e.row, e.seen.image)

Posts(a) == work[a].at \in {"put", "posted", "refused"}

\* Whatever may end on the platform belongs to an image somebody decided on.
Decided ==
  /\ \A k \in Ids : (rows[k] # NoRow /\ rows[k].status # "PENDING")
                      => typed[rows[k].image] # {}
  /\ \A a \in Actors : Posts(a) => typed[work[a].seen.image] # {}
  /\ \A p \in Posters : \A e \in list[p] : typed[e.seen.image] # {}
  /\ \A m \in late : typed[m.image] # {}
  /\ HumanDecided

Out(i) == alt[i] # None \/ i \in gone \cup misread

\* A job that was told of success has published its caption, or the media is
\* gone, or the answer was misread.
Answered ==
  /\ \A a \in Actors : (work[a].at = "put" /\ work[a].applied)
                         => alt[work[a].seen.image] # None
  /\ \A a \in Actors : work[a].at = "posted" => Out(work[a].seen.image)
  /\ PostedIsPublished

-----------------------------------------------------------------------------
\* A flush keeps each attribute of the row or takes the new one.
LEMMA FlushFields ==
  ASSUME NEW now \in Row, NEW seen \in Row, NEW new \in Row
  PROVE  /\ Flush(now, seen, new) \in Row
         /\ Flush(now, seen, new).image \in {now.image, new.image}
         /\ Flush(now, seen, new).status \in {now.status, new.status}
         /\ (new.image = seen.image) => Flush(now, seen, new).image = now.image
<1> DEFINE F == Flush(now, seen, new)
           R == [image |-> IF new.image = seen.image THEN now.image ELSE new.image,
                 status |-> IF new.status = seen.status THEN now.status ELSE new.status,
                 generated |-> IF new.generated = seen.generated THEN now.generated ELSE new.generated,
                 final |-> IF new.final = seen.final THEN now.final ELSE new.final,
                 dated |-> IF new.dated = seen.dated THEN now.dated ELSE new.dated]
<1>1. DOMAIN now = {"image", "status", "generated", "final", "dated"}
  BY DEF Row
<1>2. F = R
  BY <1>1 DEF Flush
<1>3. R \in Row
  BY DEF Row
<1> QED
  BY <1>2, <1>3

\* What is there has the type of its kind.
LEMMA Contents ==
  ASSUME TypeOK
  PROVE  /\ \A k \in Ids : rows[k] # NoRow => rows[k] \in Row
         /\ \A a \in Actors : work[a].at # "idle" => work[a] \in Job
         /\ \A g \in Generators : gen[g].at # "idle" =>
              gen[g] \in [at: GenSteps \ {"idle"}, image: Images, row: 0 .. MaxRows]
         /\ \A p \in Posters : list[p] \subseteq Entry
  BY DEF TypeOK, NoJob, NoRun

\* The steps of a job keep it a job, of the same row and image.
LEMMA JobSteps ==
  ASSUME NEW j \in Job, NEW s \in WorkSteps \ {"idle"}
  PROVE  /\ [j EXCEPT !.at = s, !.applied = FALSE] \in Job
         /\ [j EXCEPT !.at = s, !.applied = FALSE].at = s
         /\ [j EXCEPT !.at = s, !.applied = FALSE].row = j.row
         /\ [j EXCEPT !.at = s, !.applied = FALSE].seen = j.seen
         /\ [j EXCEPT !.applied = TRUE] \in Job
  BY DEF Job

LEMMA AnswerIs ==
  ASSUME TypeOK, NEW a \in Actors, NEW s \in {"posted", "refused"},
         work[a].at = "put", Answer(a, s)
  PROVE  /\ work' \in [Actors -> Job \cup {NoJob}]
         /\ work'[a].at = s
         /\ work'[a].row = work[a].row /\ work'[a].seen = work[a].seen
         /\ \A b \in Actors \ {a} : work'[b] = work[b]
<1> DEFINE j == [work[a] EXCEPT !.at = s, !.applied = FALSE]
<1>1. work[a] \in Job /\ s \in WorkSteps \ {"idle"}
  BY Contents DEF WorkSteps
<1>2. j \in Job /\ j.at = s /\ j.row = work[a].row /\ j.seen = work[a].seen
  BY <1>1, JobSteps, Zenon
<1>3. work' = [work EXCEPT ![a] = j]
  BY DEF Answer
<1> HIDE DEF j
<1> QED
  BY <1>2, <1>3 DEF TypeOK

LEMMA LoadedRow ==
  ASSUME NEW r \in Row
  PROVE  Loaded(r) \in Row /\ Loaded(r).image = r.image
  BY DEF Loaded, Row

LEMMA FreshJob ==
  ASSUME NEW k \in Ids, NEW r \in Row, NEW c \in Captions \cup {None},
         NEW s \in WorkSteps \ {"idle"}
  PROVE  [at |-> s, row |-> k, seen |-> Loaded(r), caption |-> c, applied |-> FALSE] \in Job
  BY LoadedRow DEF Job

LEMMA PostedRow ==
  ASSUME NEW r \in Row
  PROVE  /\ [r EXCEPT !.status = "POSTED", !.dated = TRUE] \in Row
         /\ [r EXCEPT !.status = "POSTED", !.dated = TRUE].image = r.image
  BY DEF Row, Statuses

LEMMA CaptionsAreCaptions ==
  /\ Typed \subseteq Decisions /\ Decisions \subseteq Captions
  /\ Generated \subseteq Captions
  /\ None \notin Captions
  BY CaptionsAssumption DEF Captions, Decisions

LEMMA ReviewTypeInit == Init => TypeOK
  BY CaptionsAssumption DEF Init, TypeOK, Ids

\* Writes to the table store rows.
LEMMA StoreType ==
  ASSUME TypeOK, NEW k \in Ids, NEW seen \in Row, NEW new \in Row,
         Store(k, seen, new)
  PROVE  rows' \in [Ids -> Row \cup {NoRow}]
  BY FlushFields DEF TypeOK, Store

LEMMA WriteCaptionType ==
  ASSUME TypeOK, NEW k \in Ids, NEW c \in Captions, WriteCaption(k, c)
  PROVE  rows' \in [Ids -> Row \cup {NoRow}]
<1>1. CASE rows[k] = NoRow
  BY <1>1 DEF TypeOK, WriteCaption
<1>2. CASE rows[k] # NoRow
  <2>1. [rows[k] EXCEPT !.generated = c, !.final = c] \in Row
    BY <1>2, Contents DEF Row
  <2> QED
    BY <1>2, <2>1 DEF TypeOK, WriteCaption
<1> QED
  BY <1>1, <1>2

LEMMA GenerationType ==
  ASSUME TypeOK, NEW g \in Generators, Generation(g)
  PROVE  TypeOK'
<1> USE CaptionsAssumption
<1>1. CASE FetchPost(g)
  BY <1>1 DEF TypeOK, FetchPost, platformVars, GenSteps
<1>2. CASE IsImageProcessed(g)
  BY <1>2, Contents DEF TypeOK, IsImageProcessed, platformVars, GenSteps
<1>3. CASE LookForImage(g)
  <2>1. RowsOf(gen[g].image) \subseteq 0 .. MaxRows
    BY DEF RowsOf, Ids
  <2>2. gen'\in [Generators -> {NoRun} \cup
          [at: GenSteps \ {"idle"}, image: Images, row: 0 .. MaxRows]]
    BY <1>3, <2>1, Contents DEF TypeOK, LookForImage, GenSteps
  <2> QED
    BY <1>3, <2>2 DEF TypeOK, LookForImage, platformVars
<1>4. CASE InsertImage(g)
  <2>1. CASE gen' = [gen EXCEPT ![g] = NoRun] /\ UNCHANGED <<rows, inserted>>
    BY <1>4, <2>1 DEF TypeOK, InsertImage, platformVars
  <2>2. CASE /\ inserted < MaxRows /\ inserted' = inserted + 1
             /\ rows' = [rows EXCEPT ![inserted + 1] = NewRow(gen[g].image)]
             /\ gen' = [gen EXCEPT ![g].at = "generate", ![g].row = inserted + 1]
    <3>1. inserted + 1 \in Ids /\ inserted + 1 \in 0 .. MaxRows
      BY <2>2 DEF TypeOK, Ids
    <3>2. gen[g] \in [at: GenSteps \ {"idle"}, image: Images, row: 0 .. MaxRows]
      BY <1>4, Contents DEF InsertImage
    <3>3. NewRow(gen[g].image) \in Row
      BY <3>2 DEF NewRow, Row, Statuses
    <3>4. [gen[g] EXCEPT !.at = "generate", !.row = inserted + 1]
            \in [at: GenSteps \ {"idle"}, image: Images, row: 0 .. MaxRows]
      BY <3>1, <3>2 DEF GenSteps
    <3>5. gen' \in [Generators -> {NoRun} \cup
            [at: GenSteps \ {"idle"}, image: Images, row: 0 .. MaxRows]]
      BY <2>2, <3>4 DEF TypeOK
    <3>6. rows' \in [Ids -> Row \cup {NoRow}]
      BY <2>2, <3>1, <3>3 DEF TypeOK
    <3> QED
      BY <1>4, <2>2, <3>1, <3>5, <3>6 DEF TypeOK, InsertImage, platformVars
  <2> QED
    BY <1>4, <2>1, <2>2 DEF InsertImage
<1>5. CASE StoreGenerated(g)
  <2>1. rows' \in [Ids -> Row \cup {NoRow}]
    <3>1. PICK c \in Generated : WriteCaption(gen[g].row, c)
      BY <1>5 DEF StoreGenerated
    <3>2. CASE gen[g].row \in Ids
      BY <3>1, <3>2, WriteCaptionType, CaptionsAreCaptions
    <3>3. CASE gen[g].row \notin Ids
      BY <3>1, <3>3 DEF WriteCaption, TypeOK
    <3> QED
      BY <3>2, <3>3
  <2> QED
    BY <1>5, <2>1 DEF TypeOK, StoreGenerated, platformVars
<1>6. CASE EndGeneration(g)
  BY <1>6 DEF TypeOK, EndGeneration, platformVars
<1> QED
  BY <1>1, <1>2, <1>3, <1>4, <1>5, <1>6 DEF Generation

LEMMA ReviewActionType ==
  ASSUME TypeOK, NEW r \in Requests, Review(r)
  PROVE  TypeOK'
<1> r \in Actors
  BY DEF Actors
<1>1. CASE SubmitReview(r)
  <2>1. PICK k \in Ids, c \in Decisions :
          /\ rows[k] # NoRow
          /\ Begin(r, "put", k, rows[k], c)
          /\ typed' = [typed EXCEPT ![rows[k].image] = @ \cup {c}]
    BY <1>1 DEF SubmitReview
  <2>2. rows[k] \in Row /\ c \in Captions \cup {None} /\ "put" \in WorkSteps \ {"idle"}
    BY <2>1, Contents, CaptionsAreCaptions DEF WorkSteps
  <2>3. work' \in [Actors -> Job \cup {NoJob}]
    BY <2>1, <2>2, FreshJob DEF TypeOK, Begin
  <2>4. typed' \in [Images -> SUBSET Decisions]
    BY <2>1, <2>2 DEF TypeOK, Row
  <2> QED
    BY <1>1, <2>3, <2>4 DEF TypeOK, SubmitReview, platformVars
<1>2. CASE CommitReview(r)
  <2>1. work[r] \in Job
    BY <1>2, Contents DEF CommitReview
  <2>2. work[r].row \in Ids /\ work[r].seen \in Row /\ Reviewed(r) \in Row
    BY <2>1 DEF Reviewed, Job, Row, Statuses
  <2>3. rows' \in [Ids -> Row \cup {NoRow}]
    BY <1>2, <2>2, StoreType DEF CommitReview
  <2> QED
    BY <1>2, <2>3 DEF TypeOK, CommitReview, platformVars
<1>3. CASE StartRegeneration(r)
  <2>1. PICK k \in Ids : rows[k] # NoRow /\ Begin(r, "regenerate", k, rows[k], None)
    BY <1>3 DEF StartRegeneration
  <2>2. rows[k] \in Row /\ "regenerate" \in WorkSteps \ {"idle"}
    BY <2>1, Contents DEF WorkSteps
  <2>3. work' \in [Actors -> Job \cup {NoJob}]
    BY <2>1, <2>2, FreshJob DEF TypeOK, Begin
  <2> QED
    BY <1>3, <2>3 DEF TypeOK, StartRegeneration, platformVars
<1>4. CASE CommitRegeneration(r)
  <2>1. PICK c \in Generated :
          Store(work[r].row, work[r].seen,
                [work[r].seen EXCEPT !.generated = c, !.status = "PENDING"])
    BY <1>4 DEF CommitRegeneration
  <2>2. work[r] \in Job
    BY <1>4, Contents DEF CommitRegeneration
  <2>3. /\ work[r].row \in Ids /\ work[r].seen \in Row
        /\ [work[r].seen EXCEPT !.generated = c, !.status = "PENDING"] \in Row
    BY <2>2, CaptionsAreCaptions DEF Job, Row, Statuses
  <2>4. rows' \in [Ids -> Row \cup {NoRow}]
    BY <2>1, <2>3, StoreType
  <2> QED
    BY <1>4, <2>4 DEF TypeOK, CommitRegeneration, platformVars
<1> QED
  BY <1>1, <1>2, <1>3, <1>4 DEF Review

LEMMA PostingType ==
  ASSUME TypeOK, NEW p \in Posters, Posting(p)
  PROVE  TypeOK'
<1> p \in Actors
  BY DEF Actors
<1>1. CASE GetApprovedImages(p)
  <2>1. ASSUME NEW k \in Ids, rows[k] # NoRow
        PROVE  [rows[k] EXCEPT !.generated = None, !.dated = FALSE] \in Row
    BY <2>1, Contents DEF Row
  <2>2. Entries({k \in Ids : rows[k] # NoRow /\ rows[k].status = "APPROVED"})
          \subseteq Entry
    <3> DEFINE K == {k \in Ids : rows[k] # NoRow /\ rows[k].status = "APPROVED"}
    <3>1. K \subseteq Ids
      OBVIOUS
    <3> HIDE DEF K
    <3>2. ASSUME NEW e \in Entries(K) PROVE e \in Entry
      <4>1. PICK k \in K :
              /\ rows[k] # NoRow
              /\ e = [row |-> k, seen |-> [rows[k] EXCEPT !.generated = None, !.dated = FALSE]]
        BY <3>2 DEF Entries
      <4> QED
        BY <2>1, <3>1, <4>1 DEF Entry
    <3> QED
      BY <3>2 DEF K
  <2> QED
    BY <1>1, <2>2 DEF TypeOK, GetApprovedImages, platformVars
<1>2. CASE PostNext(p)
  <2>1. PICK e \in list[p] : /\ Begin(p, "put", e.row, e.seen, e.seen.final)
                             /\ list' = [list EXCEPT ![p] = @ \ {e}]
    BY <1>2 DEF PostNext
  <2>2. /\ e.row \in Ids /\ e.seen \in Row /\ e.seen.final \in Captions \cup {None}
        /\ "put" \in WorkSteps \ {"idle"}
    BY Contents DEF Entry, Row, WorkSteps
  <2>3. work' \in [Actors -> Job \cup {NoJob}]
    BY <2>1, <2>2, FreshJob DEF TypeOK, Begin
  <2> QED
    BY <1>2, <2>1, <2>3 DEF TypeOK, PostNext, platformVars
<1>3. CASE MarkImagePosted(p)
  <2>1. work[p].row \in Ids
    BY <1>3, Contents DEF MarkImagePosted, Job
  <2>2. rows[work[p].row] # NoRow =>
          [rows[work[p].row] EXCEPT !.status = "POSTED", !.dated = TRUE] \in Row
    BY <2>1, Contents, PostedRow
  <2>3. rows' \in [Ids -> Row \cup {NoRow}]
    BY <1>3, <2>1, <2>2 DEF TypeOK, MarkImagePosted
  <2> QED
    BY <1>3, <2>3 DEF TypeOK, MarkImagePosted, platformVars
<1> QED
  BY <1>1, <1>2, <1>3 DEF Posting

LEMMA PutType ==
  ASSUME TypeOK, NEW a \in Actors, Put(a)
  PROVE  TypeOK'
<1>1. CASE Die(a)
  BY <1>1 DEF TypeOK, Die, platformVars
<1>2. ASSUME work[a].at = "put"
      PROVE  /\ work[a] \in Job /\ Target(a) \in Images
             /\ work[a].caption # None => work[a].caption \in Captions
  BY <1>2, Contents DEF Target, Job, Row
<1>3. CASE Deliver(a)
  <2>1. [work[a] EXCEPT !.applied = TRUE] \in Job
    BY <1>2, <1>3, JobSteps DEF Deliver, WorkSteps
  <2> QED
    BY <1>2, <1>3, <2>1 DEF TypeOK, Deliver
<1>4. ASSUME GiveUp(a), work[a].at = "put"
      PROVE  late' \subseteq [image: Images, caption: Captions]
  BY <1>2, <1>4 DEF TypeOK, GiveUp
<1>5. CASE PutSucceeds(a)
  BY <1>5, AnswerIs DEF TypeOK, PutSucceeds, platformVars
<1>6. CASE PutMissing(a)
  BY <1>2, <1>4, <1>6, AnswerIs DEF TypeOK, PutMissing
<1>7. CASE PutFails(a)
  BY <1>4, <1>7, AnswerIs DEF TypeOK, PutFails
<1> QED
  BY <1>1, <1>3, <1>5, <1>6, <1>7 DEF Put

LEMMA ReviewTypeNext == TypeOK /\ [Next]_vars => TypeOK'
<1> SUFFICES ASSUME TypeOK, [Next]_vars PROVE TypeOK'
  OBVIOUS
<1>1. CASE \E c \in Cleaners : Cleanup(c)
  BY <1>1 DEF TypeOK, Cleanup, SelectPosted, DeletePosted, platformVars
<1>2. CASE UpdateCaption
  <2>1. PICK k \in Ids, c \in Typed :
          /\ rows[k] # NoRow /\ WriteCaption(k, c)
          /\ typed' = [typed EXCEPT ![rows[k].image] = @ \cup {c}]
    BY <1>2 DEF UpdateCaption
  <2>2. rows' \in [Ids -> Row \cup {NoRow}]
    BY <2>1, WriteCaptionType, CaptionsAreCaptions
  <2>3. typed' \in [Images -> SUBSET Decisions]
    BY <2>1, Contents, CaptionsAreCaptions DEF TypeOK, Row
  <2> QED
    BY <1>2, <2>2, <2>3 DEF TypeOK, UpdateCaption, platformVars
<1>3. CASE LatePut
  BY <1>3 DEF TypeOK, LatePut
<1>4. CASE MediaGone
  BY <1>4 DEF TypeOK, MediaGone
<1>5. CASE UNCHANGED vars
  BY <1>5 DEF TypeOK, vars, platformVars
<1> QED
  BY <1>1, <1>2, <1>3, <1>4, <1>5, GenerationType, ReviewActionType, PostingType,
     PutType DEF Next

\* Table, platform, generations, jobs and lists keep their types for any
\* images, captions and processes.
THEOREM ReviewTypeCorrect == Spec => []TypeOK
  BY ReviewTypeInit, ReviewTypeNext, PTL DEF Spec

-----------------------------------------------------------------------------
\* Only the answer a job got justifies a status other than PENDING.
Justified(k, s) ==
  \E a \in Actors : /\ work[a].at # "idle" /\ work[a].row = k
                    /\ \/ work[a].at = "posted" /\ s = "POSTED"
                       \/ work[a].at = "refused" /\ s = "APPROVED"

\* What a step may do to a row: keep it, change its captions and, justified
\* or back to PENDING, its status; or insert it under the next number.
Kept(k) ==
  /\ rows[k] # NoRow /\ rows'[k].image = rows[k].image
  /\ \/ rows'[k].status \in {rows[k].status, "PENDING"}
     \/ Justified(k, rows'[k].status)

Inserted(k) == /\ k = inserted + 1 /\ inserted' = k
               /\ rows'[k].status = "PENDING" /\ RowsOf(rows'[k].image) = {}

RowStep ==
  /\ inserted' \in {inserted, inserted + 1}
  /\ \A k \in Ids : rows'[k] # NoRow => Kept(k) \/ Inserted(k)

LEMMA SameRows ==
  ASSUME rows' = rows, inserted' = inserted
  PROVE  RowStep
  BY DEF RowStep, Kept

LEMMA StoreStep ==
  ASSUME TypeOK, NEW k \in Ids, NEW seen \in Row, NEW new \in Row,
         new.image = seen.image, Store(k, seen, new), inserted' = inserted,
         new.status # "PENDING" => Justified(k, new.status)
  PROVE  RowStep
<1>1. CASE rows[k] = NoRow
  BY <1>1, SameRows DEF Store
<1>2. CASE rows[k] # NoRow
  <2>1. rows[k] \in Row
    BY <1>2, Contents
  <2>2. rows' = [rows EXCEPT ![k] = Flush(rows[k], seen, new)]
    BY <1>2 DEF Store
  <2>3. rows'[k] = Flush(rows[k], seen, new)
    BY <2>2 DEF TypeOK
  <2>4. Kept(k)
    BY <1>2, <2>1, <2>3, FlushFields DEF Kept
  <2>5. \A l \in Ids \ {k} : rows'[l] = rows[l]
    BY <2>2 DEF TypeOK
  <2> QED
    BY <2>4, <2>5 DEF RowStep, Kept
<1> QED
  BY <1>1, <1>2

LEMMA WriteCaptionStep ==
  ASSUME TypeOK, NEW k, NEW c, WriteCaption(k, c), inserted' = inserted
  PROVE  RowStep
<1>1. CASE rows[k] = NoRow \/ k \notin Ids
  <2>1. rows' = rows
    BY <1>1 DEF WriteCaption, TypeOK
  <2> QED
    BY <2>1, SameRows
<1>2. CASE rows[k] # NoRow /\ k \in Ids
  <2>1. rows[k] \in Row
    BY <1>2, Contents
  <2>2. rows' = [rows EXCEPT ![k] = [rows[k] EXCEPT !.generated = c, !.final = c]]
    BY <1>2 DEF WriteCaption
  <2>3. [rows[k] EXCEPT !.generated = c, !.final = c].image = rows[k].image
    BY <2>1 DEF Row
  <2>4. [rows[k] EXCEPT !.generated = c, !.final = c].status = rows[k].status
    BY <2>1 DEF Row
  <2>5. Kept(k)
    BY <1>2, <2>2, <2>3, <2>4 DEF Kept, TypeOK
  <2>6. \A l \in Ids \ {k} : rows'[l] = rows[l]
    BY <1>2, <2>2 DEF TypeOK
  <2> QED
    BY <2>5, <2>6 DEF RowStep, Kept
<1> QED
  BY <1>1, <1>2

\* Every step changes the table so.
LEMMA EveryRowStep == TypeOK /\ [Next]_vars => RowStep
<1> SUFFICES ASSUME TypeOK, [Next]_vars PROVE RowStep
  OBVIOUS
<1>1. ASSUME NEW g \in Generators, Generation(g) PROVE RowStep
  <2>1. CASE InsertImage(g)
    <3>1. CASE rows' = rows /\ inserted' = inserted
      BY <3>1, SameRows
    <3>2. CASE /\ RowsOf(gen[g].image) = {} /\ inserted < MaxRows
               /\ inserted' = inserted + 1
               /\ rows' = [rows EXCEPT ![inserted + 1] = NewRow(gen[g].image)]
      <4>1. inserted + 1 \in Ids
        BY <3>2, CaptionsAssumption DEF TypeOK, Ids
      <4>2. Inserted(inserted + 1)
        BY <3>2, <4>1 DEF TypeOK, Inserted, NewRow
      <4>3. \A l \in Ids \ {inserted + 1} : rows'[l] = rows[l]
        BY <3>2 DEF TypeOK
      <4> QED
        BY <3>2, <4>2, <4>3 DEF RowStep, Kept
    <3> QED
      BY <2>1, <3>1, <3>2 DEF InsertImage
  <2>2. CASE StoreGenerated(g)
    BY <2>2, WriteCaptionStep DEF StoreGenerated
  <2>3. CASE ~InsertImage(g) /\ ~StoreGenerated(g)
    BY <1>1, <2>3, SameRows
       DEF Generation, FetchPost, IsImageProcessed, LookForImage, EndGeneration
  <2> QED
    BY <2>1, <2>2, <2>3
<1>2. ASSUME NEW r \in Requests, Review(r) PROVE RowStep
  <2>1. r \in Actors
    BY DEF Actors
  <2>2. CASE CommitReview(r)
    <3>1. work[r] \in Job
      BY <2>1, <2>2, Contents DEF CommitReview
    <3>2. /\ work[r].row \in Ids /\ work[r].seen \in Row /\ Reviewed(r) \in Row
          /\ Reviewed(r).image = work[r].seen.image
          /\ Reviewed(r).status = IF work[r].at = "posted" THEN "POSTED" ELSE "APPROVED"
      BY <3>1 DEF Reviewed, Job, Row, Statuses
    <3>3. Justified(work[r].row, Reviewed(r).status)
      BY <2>1, <2>2, <3>2 DEF CommitReview, Justified
    <3> QED
      BY <2>2, <3>2, <3>3, StoreStep DEF CommitReview
  <2>3. CASE CommitRegeneration(r)
    <3>1. PICK c \in Generated :
            Store(work[r].row, work[r].seen,
                  [work[r].seen EXCEPT !.generated = c, !.status = "PENDING"])
      BY <2>3 DEF CommitRegeneration
    <3>2. work[r] \in Job
      BY <2>1, <2>3, Contents DEF CommitRegeneration
    <3> DEFINE new == [work[r].seen EXCEPT !.generated = c, !.status = "PENDING"]
    <3>3. /\ work[r].row \in Ids /\ work[r].seen \in Row /\ new \in Row
          /\ new.image = work[r].seen.image /\ new.status = "PENDING"
      BY <3>2, CaptionsAreCaptions DEF Job, Row, Statuses
    <3> HIDE DEF new
    <3> QED
      BY <2>3, <3>1, <3>3, StoreStep DEF CommitRegeneration, new
  <2>4. CASE SubmitReview(r) \/ StartRegeneration(r)
    BY <2>4, SameRows DEF SubmitReview, StartRegeneration
  <2> QED
    BY <1>2, <2>2, <2>3, <2>4 DEF Review
<1>3. ASSUME NEW p \in Posters, Posting(p) PROVE RowStep
  <2>1. p \in Actors
    BY DEF Actors
  <2>2. CASE MarkImagePosted(p)
    <3>1. work[p] \in Job /\ work[p].row \in Ids
      BY <2>1, <2>2, Contents DEF MarkImagePosted, Job
    <3>2. CASE work[p].at = "refused" \/ rows[work[p].row] = NoRow
      BY <2>2, <3>2, SameRows DEF MarkImagePosted
    <3>3. CASE work[p].at = "posted" /\ rows[work[p].row] # NoRow
      <4> DEFINE k == work[p].row
                 r == [rows[k] EXCEPT !.status = "POSTED", !.dated = TRUE]
      <4>1. rows[k] \in Row
        BY <3>1, <3>3, Contents
      <4>2. rows' = [rows EXCEPT ![k] = r]
        BY <2>2, <3>3 DEF MarkImagePosted
      <4>3. r.image = rows[k].image /\ r.status = "POSTED"
        BY <4>1 DEF Row
      <4>4. rows'[k] = r
        BY <3>1, <4>2 DEF TypeOK
      <4>5. Justified(k, "POSTED")
        BY <2>1, <3>3 DEF Justified
      <4>6. Kept(k)
        BY <3>3, <4>3, <4>4, <4>5 DEF Kept
      <4>7. \A l \in Ids \ {k} : rows'[l] = rows[l]
        BY <3>1, <4>2 DEF TypeOK
      <4> QED
        BY <2>2, <4>6, <4>7 DEF RowStep, Kept, MarkImagePosted
    <3> QED
      BY <2>2, <3>2, <3>3 DEF MarkImagePosted
  <2>3. CASE GetApprovedImages(p) \/ PostNext(p)
    BY <2>3, SameRows DEF GetApprovedImages, PostNext
  <2> QED
    BY <1>3, <2>2, <2>3 DEF Posting
<1>4. ASSUME NEW a \in Actors, Put(a) PROVE RowStep
  BY <1>4, SameRows DEF Put, Deliver, PutSucceeds, PutMissing, PutFails, Die
<1>5. ASSUME NEW c \in Cleaners, Cleanup(c) PROVE RowStep
  BY <1>5 DEF Cleanup, SelectPosted, DeletePosted, RowStep, Kept, TypeOK
<1>6. CASE UpdateCaption
  BY <1>6, WriteCaptionStep DEF UpdateCaption
<1>7. CASE LatePut \/ MediaGone
  BY <1>7, SameRows DEF LatePut, MediaGone
<1>8. CASE UNCHANGED vars
  BY <1>8, SameRows DEF vars
<1> QED
  BY <1>1, <1>2, <1>3, <1>4, <1>5, <1>6, <1>7, <1>8 DEF Next

\* However the steps of saves, reviews and clean-ups interleave, an
\* attachment has at most one row.
THEOREM OneRowHolds == Spec => []OneRowPerImage
<1>1. Init => OneRowPerImage
  BY DEF Init, OneRowPerImage
<1>2. TypeOK /\ OneRowPerImage /\ [Next]_vars => OneRowPerImage'
  BY EveryRowStep DEF OneRowPerImage, RowStep, Kept, Inserted, RowsOf
<1> QED
  BY <1>1, <1>2, ReviewTypeCorrect, PTL DEF Spec

-----------------------------------------------------------------------------
\* What a step may do on the platform: alt texts are replaced, never taken
\* away, and come from a job or from a PUT on its way.
PlatformStep ==
  /\ \A i \in Images : alt[i] # None => alt'[i] # None
  /\ \A i \in Images : alt'[i] # alt[i] =>
       (\E a \in Actors : Posts(a) /\ work[a].seen.image = i) \/ (\E m \in late : m.image = i)
  /\ gone \cup misread \subseteq gone' \cup misread'
  /\ \A m \in late' : m \in late \/ \E a \in Actors : Posts(a) /\ work[a].seen.image = m.image
  /\ \A i \in Images : typed[i] \subseteq typed'[i]

\* A job goes on, with the same row and image, or begins: on a row that is
\* there, by a reviewer who submits a caption, or on an entry of a list.
GoesOn(a) ==
  /\ work[a].at # "idle"
  /\ work'[a].row = work[a].row /\ work'[a].seen.image = work[a].seen.image
  /\ (work'[a].at = "put" /\ work'[a].applied) =>
       (work[a].at = "put" /\ work[a].applied) \/ alt'[work[a].seen.image] # None
  /\ work'[a].at = "posted" =>
       \/ work[a].at = "posted"
       \/ work[a].at = "put" /\ work[a].applied
       \/ /\ work[a].at = "put"
          /\ \/ alt[work[a].seen.image] # None
             \/ work[a].seen.image \in gone \cup misread'
  /\ Posts(a)' => Posts(a)

Begins(a) ==
  /\ work'[a].at \in {"put", "regenerate"} /\ ~work'[a].applied
  /\ \/ /\ rows[work'[a].row] # NoRow /\ work'[a].seen.image = rows[work'[a].row].image
        /\ work'[a].at = "put" => typed'[work'[a].seen.image] # {}
     \/ \E p \in Posters : \E e \in list[p] :
          work'[a].row = e.row /\ work'[a].seen.image = e.seen.image

Listed(e) ==
  /\ e.row \in Ids /\ rows[e.row] # NoRow /\ e.seen.image = rows[e.row].image
  /\ rows[e.row].status = "APPROVED"

JobStep ==
  /\ \A a \in Actors : work'[a].at # "idle" => GoesOn(a) \/ Begins(a)
  /\ \A p \in Posters : \A e \in list'[p] : e \in list[p] \/ Listed(e)

LEMMA SameJobs ==
  ASSUME work' = work, list' = list
  PROVE  JobStep
  BY DEF JobStep, GoesOn, Posts

LEMMA SamePlatform ==
  ASSUME UNCHANGED platformVars, UNCHANGED typed
  PROVE  PlatformStep
  BY DEF PlatformStep, platformVars

LEMMA MoreTyped ==
  ASSUME TypeOK, NEW j, NEW c, typed' = [typed EXCEPT ![j] = @ \cup {c}]
  PROVE  \A i \in Images : typed[i] \subseteq typed'[i]
  BY DEF TypeOK

LEMMA Ended ==
  ASSUME TypeOK, NEW a \in Actors, work' = [work EXCEPT ![a] = NoJob], list' = list
  PROVE  JobStep
  BY DEF TypeOK, JobStep, GoesOn, Posts, NoJob

\* A job that begins leaves the others alone.
LEMMA Begun ==
  ASSUME TypeOK, NEW a \in Actors, NEW s \in {"put", "regenerate"}, NEW k, NEW row, NEW c,
         Begin(a, s, k, row, c)
  PROVE  /\ work'[a].at = s /\ ~work'[a].applied
         /\ work'[a].row = k /\ work'[a].seen = Loaded(row)
         /\ \A b \in Actors \ {a} : work'[b] = work[b]
<1>1. work'[a] = [at |-> s, row |-> k, seen |-> Loaded(row), caption |-> c,
                 applied |-> FALSE]
  BY DEF TypeOK, Begin
<1>2. \A b \in Actors \ {a} : work'[b] = work[b]
  BY DEF TypeOK, Begin
<1> QED
  BY <1>1, <1>2

LEMMA ReviewJobStep ==
  ASSUME TypeOK, NEW r \in Requests, Review(r)
  PROVE  JobStep /\ PlatformStep
<1> r \in Actors
  BY DEF Actors
<1>1. CASE SubmitReview(r)
  <2>1. PICK k \in Ids, c \in Decisions :
          /\ rows[k] # NoRow
          /\ Begin(r, "put", k, rows[k], c)
          /\ typed' = [typed EXCEPT ![rows[k].image] = @ \cup {c}]
    BY <1>1 DEF SubmitReview
  <2>2. rows[k].image \in Images
    BY <2>1, Contents DEF Row
  <2>3. typed'[rows[k].image] # {}
    BY <2>1, <2>2 DEF TypeOK
  <2>4. Begins(r)
    BY <2>1, <2>3, Begun, Contents, LoadedRow DEF Begins
  <2>5. \A b \in Actors \ {r} : work'[b] = work[b]
    BY <2>1, Begun
  <2>6. JobStep
    BY <1>1, <2>4, <2>5 DEF JobStep, GoesOn, Posts, SubmitReview
  <2>7. PlatformStep
    BY <1>1, <2>1, MoreTyped DEF PlatformStep, SubmitReview, platformVars
  <2> QED
    BY <2>6, <2>7
<1>2. CASE StartRegeneration(r)
  <2>1. PICK k \in Ids : rows[k] # NoRow /\ Begin(r, "regenerate", k, rows[k], None)
    BY <1>2 DEF StartRegeneration
  <2>2. Begins(r)
    BY <2>1, Begun, Contents, LoadedRow DEF Begins
  <2>3. \A b \in Actors \ {r} : work'[b] = work[b]
    BY <2>1, Begun
  <2> QED
    BY <1>2, <2>2, <2>3, SamePlatform DEF JobStep, GoesOn, Posts, StartRegeneration
<1>3. CASE CommitReview(r)
  BY <1>3, Ended, SamePlatform DEF CommitReview
<1>4. CASE CommitRegeneration(r)
  BY <1>4, Ended, SamePlatform DEF CommitRegeneration
<1> QED
  BY <1>1, <1>2, <1>3, <1>4 DEF Review

LEMMA PostingJobStep ==
  ASSUME TypeOK, NEW p \in Posters, Posting(p)
  PROVE  JobStep /\ PlatformStep
<1> p \in Actors
  BY DEF Actors
<1>1. CASE GetApprovedImages(p)
  <2>1. \A e \in list'[p] : Listed(e)
    <3>1. ASSUME NEW k \in Ids, rows[k] # NoRow
          PROVE  [rows[k] EXCEPT !.generated = None, !.dated = FALSE].image = rows[k].image
      BY <3>1, Contents DEF Row
    <3>2. list'[p] = Entries({k \in Ids : rows[k] # NoRow /\ rows[k].status = "APPROVED"})
      BY <1>1 DEF TypeOK, GetApprovedImages
    <3>3. ASSUME NEW e \in list'[p] PROVE Listed(e)
      <4>1. PICK k \in Ids :
              /\ rows[k] # NoRow /\ rows[k].status = "APPROVED"
              /\ e = [row |-> k, seen |-> [rows[k] EXCEPT !.generated = None, !.dated = FALSE]]
        BY <3>2, <3>3 DEF Entries
      <4>2. e.row = k /\ e.seen.image = rows[k].image
        BY <3>1, <4>1
      <4> QED
        BY <4>1, <4>2 DEF Listed
    <3> QED
      BY <3>3
  <2>2. \A q \in Posters \ {p} : list'[q] = list[q]
    BY <1>1 DEF TypeOK, GetApprovedImages
  <2> QED
    BY <1>1, <2>1, <2>2, SamePlatform DEF JobStep, GoesOn, Posts, GetApprovedImages
<1>2. CASE PostNext(p)
  <2>1. PICK e \in list[p] : /\ Begin(p, "put", e.row, e.seen, e.seen.final)
                             /\ list' = [list EXCEPT ![p] = @ \ {e}]
    BY <1>2 DEF PostNext
  <2>2. Begins(p)
    <3>1. e.seen \in Row
      BY Contents DEF Entry
    <3> QED
      BY <2>1, <3>1, Begun, LoadedRow DEF Begins
  <2>3. \A b \in Actors \ {p} : work'[b] = work[b]
    BY <2>1, Begun
  <2>4. \A q \in Posters : list'[q] \subseteq list[q]
    BY <2>1 DEF TypeOK
  <2> QED
    BY <1>2, <2>2, <2>3, <2>4, SamePlatform DEF JobStep, GoesOn, Posts, PostNext
<1>3. CASE MarkImagePosted(p)
  BY <1>3, Ended, SamePlatform DEF MarkImagePosted
<1> QED
  BY <1>1, <1>2, <1>3 DEF Posting

LEMMA PutJobStep ==
  ASSUME TypeOK, NEW a \in Actors, Put(a)
  PROVE  JobStep /\ PlatformStep
<1>1. CASE Die(a)
  <2>1. \A b \in Actors : work'[b].at # "idle" => work'[b] = work[b]
    BY <1>1 DEF TypeOK, Die, NoJob
  <2>2. \A p \in Posters : list'[p] \subseteq list[p]
    BY <1>1 DEF TypeOK, Die
  <2> QED
    BY <1>1, <2>1, <2>2, SamePlatform DEF JobStep, GoesOn, Posts, Die
<1>2. ASSUME work[a].at = "put"
      PROVE  /\ work[a] \in Job /\ Target(a) \in Images /\ Posts(a)
             /\ Target(a) = work[a].seen.image
  BY <1>2, Contents DEF Target, Job, Row, Posts
<1>3. CASE Deliver(a)
  <2>1. /\ work'[a] = [work[a] EXCEPT !.applied = TRUE]
        /\ \A b \in Actors \ {a} : work'[b] = work[b]
    BY <1>3 DEF TypeOK, Deliver
  <2>2. /\ work'[a].at = "put" /\ work'[a].row = work[a].row
        /\ work'[a].seen = work[a].seen
    BY <1>2, <1>3, <2>1 DEF Deliver, Job
  <2>3. alt'[Target(a)] # None /\ \A i \in Images \ {Target(a)} : alt'[i] = alt[i]
    BY <1>2, <1>3 DEF TypeOK, Deliver
  <2>4. JobStep
    BY <1>2, <1>3, <2>1, <2>2, <2>3 DEF JobStep, GoesOn, Posts, Deliver
  <2>5. PlatformStep
    BY <1>2, <1>3, <2>3 DEF PlatformStep, Deliver
  <2> QED
    BY <2>4, <2>5
<1>4. ASSUME GiveUp(a), work[a].at = "put"
      PROVE  \A m \in late' : m \in late \/ (Posts(a) /\ work[a].seen.image = m.image)
  BY <1>2, <1>4 DEF GiveUp
<1>5. CASE PutSucceeds(a)
  BY <1>2, <1>5, AnswerIs, SamePlatform DEF JobStep, GoesOn, Posts, PutSucceeds
<1>6. CASE PutMissing(a)
  <2>1. alt[Target(a)] # None \/ Target(a) \in gone \cup misread'
    BY <1>2, <1>6 DEF PutMissing
  <2>2. JobStep
    BY <1>2, <1>6, <2>1, AnswerIs DEF JobStep, GoesOn, Posts, PutMissing
  <2>3. PlatformStep
    BY <1>4, <1>6 DEF PlatformStep, PutMissing
  <2> QED
    BY <2>2, <2>3
<1>7. CASE PutFails(a)
  <2>1. JobStep
    BY <1>2, <1>7, AnswerIs DEF JobStep, GoesOn, Posts, PutFails
  <2>2. PlatformStep
    BY <1>4, <1>7 DEF PlatformStep, PutFails
  <2> QED
    BY <2>1, <2>2
<1> QED
  BY <1>1, <1>3, <1>5, <1>6, <1>7 DEF Put

LEMMA EveryJobStep == TypeOK /\ [Next]_vars => JobStep /\ PlatformStep
<1> SUFFICES ASSUME TypeOK, [Next]_vars PROVE JobStep /\ PlatformStep
  OBVIOUS
<1>1. ASSUME NEW g \in Generators, Generation(g) PROVE JobStep /\ PlatformStep
  BY <1>1, SameJobs, SamePlatform
     DEF Generation, FetchPost, IsImageProcessed, LookForImage, InsertImage,
         StoreGenerated, EndGeneration
<1>2. ASSUME NEW c \in Cleaners, Cleanup(c) PROVE JobStep /\ PlatformStep
  BY <1>2, SameJobs, SamePlatform DEF Cleanup, SelectPosted, DeletePosted
<1>3. CASE UpdateCaption
  BY <1>3, SameJobs, MoreTyped DEF UpdateCaption, PlatformStep, platformVars
<1>4. CASE LatePut
  <2>1. PICK m \in late : /\ late' = late \ {m}
                          /\ alt' = [alt EXCEPT ![m.image] = m.caption]
    BY <1>4 DEF LatePut
  <2>2. m.caption # None
    BY CaptionsAreCaptions DEF TypeOK
  <2>3. PlatformStep
    BY <1>4, <2>1, <2>2 DEF TypeOK, LatePut, PlatformStep
  <2> QED
    BY <1>4, <2>3, SameJobs DEF LatePut
<1>5. CASE MediaGone
  BY <1>5, SameJobs DEF MediaGone, PlatformStep
<1>6. CASE UNCHANGED vars
  BY <1>6, SameJobs, SamePlatform DEF vars
<1> QED
  BY <1>1, <1>2, <1>3, <1>4, <1>5, <1>6, ReviewJobStep, PostingJobStep, PutJobStep
     DEF Next

-----------------------------------------------------------------------------
LEMMA ReviewInit == Init => Numbered /\ Decided /\ Answered
  BY DEF Init, Numbered, Decided, Answered, HumanDecided, PostedIsPublished, Posts, NoJob, Ids

\* What was known of a row's image stays known.
LEMMA StillKnown ==
  ASSUME TypeOK, RowStep, NEW k \in Ids, NEW i, KnowsRow(k, i)
  PROVE  k <= inserted' /\ (rows'[k] # NoRow => rows'[k].image = i)
<1>1. inserted \in Nat /\ k \in Nat /\ k <= inserted
  BY DEF TypeOK, Ids, KnowsRow
<1>2. k <= inserted' /\ ~Inserted(k)
  BY <1>1 DEF RowStep, Inserted
<1> QED
  BY <1>2 DEF RowStep, Kept, KnowsRow

LEMMA NumberedNext == TypeOK /\ Numbered /\ [Next]_vars => Numbered'
<1> SUFFICES ASSUME TypeOK, Numbered, [Next]_vars PROVE Numbered'
  OBVIOUS
<1>1. RowStep /\ JobStep
  BY EveryRowStep, EveryJobStep
<1>2. \A k \in Ids : rows'[k] # NoRow => k <= inserted'
  BY <1>1 DEF TypeOK, Numbered, RowStep, Kept, Inserted, Ids
<1>3. ASSUME NEW k \in Ids, rows[k] # NoRow
      PROVE  KnowsRow(k, rows[k].image)
  BY <1>3 DEF Numbered, KnowsRow
<1>4. ASSUME NEW a \in Actors, work'[a].at # "idle"
      PROVE  KnowsRow(work[a].row, work[a].seen.image)'
  <2>1. work'[a].row \in Ids
    <3>1. work'[a] \in Job
      BY <1>4, ReviewTypeNext DEF TypeOK, NoJob
    <3> QED
      BY <3>1 DEF Job
  <2>2. KnowsRow(work'[a].row, work'[a].seen.image)
    <3>1. CASE GoesOn(a)
      BY <3>1 DEF GoesOn, Numbered
    <3>2. CASE Begins(a)
      <4>1. CASE rows[work'[a].row] # NoRow /\ work'[a].seen.image = rows[work'[a].row].image
        BY <1>3, <2>1, <4>1
      <4>2. CASE \E p \in Posters : \E e \in list[p] :
                   work'[a].row = e.row /\ work'[a].seen.image = e.seen.image
        BY <4>2 DEF Numbered
      <4> QED
        BY <3>2, <4>1, <4>2 DEF Begins
    <3> QED
      BY <1>1, <1>4, <3>1, <3>2 DEF JobStep
  <2> QED
    BY <1>1, <2>1, <2>2, StillKnown DEF KnowsRow
<1>5. ASSUME NEW p \in Posters, NEW e \in list'[p]
      PROVE  KnowsRow(e.row, e.seen.image)'
  <2>1. CASE e \in list[p]
    <3>1. e.row \in Ids /\ KnowsRow(e.row, e.seen.image)
      BY <2>1, Contents DEF Numbered, Entry
    <3> QED
      BY <1>1, <3>1, StillKnown DEF KnowsRow
  <2>2. CASE Listed(e)
    <3>1. e.row \in Ids /\ KnowsRow(e.row, e.seen.image)
      BY <1>3, <2>2 DEF Listed
    <3> QED
      BY <1>1, <3>1, StillKnown DEF KnowsRow
  <2> QED
    BY <1>1, <2>1, <2>2 DEF JobStep
<1> QED
  BY <1>2, <1>4, <1>5 DEF Numbered, KnowsRow

LEMMA DecidedNext ==
  TypeOK /\ Numbered /\ Decided /\ [Next]_vars => Decided'
<1> SUFFICES ASSUME TypeOK, Numbered, Decided, [Next]_vars PROVE Decided'
  OBVIOUS
<1>1. RowStep /\ JobStep /\ PlatformStep /\ TypeOK'
  BY EveryRowStep, EveryJobStep, ReviewTypeNext
<1>2. ASSUME NEW i \in Images, typed[i] # {} PROVE typed'[i] # {}
  BY <1>1, <1>2 DEF PlatformStep
<1>3. ASSUME NEW a \in Actors, Posts(a)
      PROVE  /\ work[a] \in Job /\ work[a].seen.image \in Images
             /\ typed[work[a].seen.image] # {}
  BY <1>3, Contents DEF Posts, Decided, Job, Row
<1>4. ASSUME NEW k \in Ids, rows'[k] # NoRow, rows'[k].status # "PENDING"
      PROVE  typed'[rows'[k].image] # {}
  <2>1. Kept(k)
    BY <1>1, <1>4 DEF RowStep, Inserted
  <2>2. rows[k] \in Row /\ rows[k].image \in Images
    BY <2>1, Contents DEF Kept, Row
  <2>3. CASE rows'[k].status = rows[k].status
    BY <1>2, <1>4, <2>1, <2>2, <2>3 DEF Kept, Decided
  <2>4. CASE Justified(k, rows'[k].status)
    <3>1. PICK a \in Actors : Posts(a) /\ work[a].row = k
      BY <2>4 DEF Justified, Posts
    <3>2. rows[k].image = work[a].seen.image
      BY <2>1, <3>1 DEF Numbered, KnowsRow, Kept, Posts
    <3> QED
      BY <1>2, <1>3, <2>1, <2>2, <3>1, <3>2 DEF Kept
  <2> QED
    BY <1>4, <2>1, <2>3, <2>4 DEF Kept
<1>5. ASSUME NEW a \in Actors, Posts(a)' PROVE typed'[work'[a].seen.image] # {}
  <2>1. CASE GoesOn(a)
    BY <1>2, <1>3, <1>5, <2>1 DEF GoesOn
  <2>2. CASE Begins(a)
    <3>1. ASSUME NEW p \in Posters, NEW e \in list[p], work'[a].seen.image = e.seen.image
          PROVE  typed'[work'[a].seen.image] # {}
      BY <1>2, <3>1, Contents DEF Decided, Entry, Row
    <3> QED
      BY <1>5, <2>2, <3>1 DEF Begins, Posts
  <2> QED
    BY <1>1, <1>5, <2>1, <2>2 DEF JobStep, Posts
<1>6. ASSUME NEW p \in Posters, NEW e \in list'[p] PROVE typed'[e.seen.image] # {}
  <2>1. CASE e \in list[p]
    BY <1>2, <2>1, Contents DEF Decided, Entry, Row
  <2>2. CASE Listed(e)
    <3>1. rows[e.row] \in Row
      BY <2>2, Contents DEF Listed
    <3> QED
      BY <1>2, <2>2, <3>1 DEF Listed, Decided, Row
  <2> QED
    BY <1>1, <2>1, <2>2 DEF JobStep
<1>7. ASSUME NEW m \in late' PROVE typed'[m.image] # {}
  <2>1. CASE m \in late
    BY <1>2, <2>1 DEF Decided, TypeOK
  <2>2. CASE \E a \in Actors : Posts(a) /\ work[a].seen.image = m.image
    BY <1>2, <1>3, <2>2
  <2> QED
    BY <1>1, <2>1, <2>2 DEF PlatformStep
<1>8. ASSUME NEW i \in Images, alt'[i] # None PROVE typed'[i] # {}
  <2>1. CASE alt'[i] = alt[i]
    BY <1>2, <1>8, <2>1 DEF Decided, HumanDecided
  <2>2. CASE \E a \in Actors : Posts(a) /\ work[a].seen.image = i
    BY <1>2, <1>3, <2>2
  <2>3. CASE \E m \in late : m.image = i
    BY <1>2, <2>3 DEF Decided, TypeOK
  <2> QED
    BY <1>1, <2>1, <2>2, <2>3 DEF PlatformStep
<1>9. HumanDecided'
  BY <1>8 DEF HumanDecided
<1> QED
  BY <1>4, <1>5, <1>6, <1>7, <1>9 DEF Decided

LEMMA AnsweredNext ==
  TypeOK /\ Numbered /\ Answered /\ [Next]_vars => Answered'
<1> SUFFICES ASSUME TypeOK, Numbered, Answered, [Next]_vars PROVE Answered'
  OBVIOUS
<1>1. RowStep /\ JobStep /\ PlatformStep
  BY EveryRowStep, EveryJobStep
<1>2. ASSUME NEW i \in Images
      PROVE  alt[i] # None => alt'[i] # None
  BY <1>1 DEF PlatformStep
<1>3. ASSUME NEW a \in Actors, work[a].at # "idle"
      PROVE  work[a].seen.image \in Images
  BY <1>3, Contents DEF Job, Row
<1>4. ASSUME NEW a \in Actors, work'[a].at = "put", work'[a].applied
      PROVE  alt'[work'[a].seen.image] # None
  <2>1. GoesOn(a)
    BY <1>1, <1>4 DEF JobStep, Begins
  <2> QED
    BY <1>2, <1>3, <1>4, <2>1 DEF GoesOn, Answered
<1>5. ASSUME NEW a \in Actors, work'[a].at = "posted"
      PROVE  Out(work[a].seen.image)'
  <2>1. GoesOn(a)
    BY <1>1, <1>5 DEF JobStep, Begins
  <2>2. /\ work[a].seen.image \in Images
        /\ \/ alt[work[a].seen.image] # None
           \/ work[a].seen.image \in gone \cup misread \cup misread'
    BY <1>3, <1>5, <2>1 DEF GoesOn, Answered, Out
  <2>3. alt'[work[a].seen.image] # None \/ work[a].seen.image \in gone' \cup misread'
    BY <1>1, <2>2 DEF PlatformStep, Out
  <2> QED
    BY <2>1, <2>3 DEF GoesOn, Out
<1>6. ASSUME NEW k \in Ids, rows'[k] # NoRow, rows'[k].status = "POSTED"
      PROVE  Out(rows[k].image)'
  <2>1. Kept(k)
    BY <1>1, <1>6 DEF RowStep, Inserted
  <2>2. rows[k].image \in Images
    BY <2>1, Contents DEF Kept, Row
  <2>3. Out(rows[k].image)
    <3>1. CASE rows'[k].status = rows[k].status
      BY <1>6, <2>1, <3>1 DEF Kept, Answered, PostedIsPublished, Out
    <3>2. CASE Justified(k, rows'[k].status)
      <4>1. PICK a \in Actors : work[a].at = "posted" /\ work[a].row = k
        BY <1>6, <3>2 DEF Justified
      <4>2. rows[k].image = work[a].seen.image
        BY <2>1, <4>1 DEF Numbered, KnowsRow, Kept
      <4> QED
        BY <4>1, <4>2 DEF Answered
    <3> QED
      BY <1>6, <2>1, <3>1, <3>2 DEF Kept
  <2>4. alt'[rows[k].image] # None \/ rows[k].image \in gone' \cup misread'
    BY <1>1, <2>2, <2>3 DEF PlatformStep, Out
  <2> QED
    BY <2>1, <2>4 DEF Kept, Out
<1>7. PostedIsPublished'
  BY <1>6 DEF PostedIsPublished, Out
<1> QED
  BY <1>4, <1>5, <1>7 DEF Answered, Out

\* The inductive invariant.
LEMMA ReviewInvariant == Spec => [](TypeOK /\ Numbered /\ Decided /\ Answered)
  BY ReviewTypeInit, ReviewTypeNext, ReviewInit, NumberedNext, DecidedNext,
     AnsweredNext, PTL DEF Spec

\* Nothing appears on the platform for an image nobody decided on, with any
\* number of reviewers, posters and clean-ups and with PUTs that come late.
THEOREM DecisionsPrecedePublication == Spec => []HumanDecided
<1>1. Decided => HumanDecided
  BY DEF Decided
<1> QED
  BY <1>1, ReviewInvariant, PTL

\* POSTED is never a lie, although rows are written long after they are read.
THEOREM PostedHolds == Spec => []PostedIsPublished
<1>1. Answered => PostedIsPublished
  BY DEF Answered
<1> QED
  BY <1>1, ReviewInvariant, PTL

-----------------------------------------------------------------------------
\* What a step without posters may put on its way to the platform: a caption
\* that is submitted now, or one that was on its way.
Sends(a) ==
  work'[a].at = "put" /\ work'[a].caption # None =>
    \/ /\ work[a].at = "put" /\ work[a].caption = work'[a].caption
       /\ work[a].seen.image = work'[a].seen.image
    \/ work'[a].seen.image \in Images /\ work'[a].caption \in typed'[work'[a].seen.image]

Delivers ==
  /\ \A i \in Images : alt'[i] # alt[i] =>
       \/ \E a \in Actors : /\ work[a].at = "put" /\ work[a].caption # None
                           /\ work[a].seen.image = i /\ alt'[i] = work[a].caption
       \/ \E m \in late : m.image = i /\ alt'[i] = m.caption
  /\ \A m \in late' :
       \/ m \in late
       \/ \E a \in Actors : /\ work[a].at = "put" /\ work[a].caption # None
                           /\ m.image = work[a].seen.image /\ m.caption = work[a].caption

SendStep == (\A a \in Actors : Sends(a)) /\ Delivers

LEMMA NothingSent ==
  ASSUME work' = work, alt' = alt, late' \subseteq late
  PROVE  SendStep
  BY DEF SendStep, Sends, Delivers

LEMMA ReviewSends ==
  ASSUME TypeOK, NEW r \in Requests, Review(r)
  PROVE  SendStep
<1> r \in Actors
  BY DEF Actors
<1>1. alt' = alt /\ late' = late
  BY DEF Review, SubmitReview, CommitReview, StartRegeneration, CommitRegeneration,
         platformVars
<1>2. Delivers
  BY <1>1 DEF Delivers
<1>3. CASE SubmitReview(r)
  <2>1. PICK k \in Ids, c \in Decisions :
          /\ rows[k] # NoRow
          /\ Begin(r, "put", k, rows[k], c)
          /\ typed' = [typed EXCEPT ![rows[k].image] = @ \cup {c}]
    BY <1>3 DEF SubmitReview
  <2>2. rows[k] \in Row /\ rows[k].image \in Images
    BY <2>1, Contents DEF Row
  <2>3. c \in typed'[rows[k].image]
    BY <2>1, <2>2 DEF TypeOK
  <2>4. work'[r] = [at |-> "put", row |-> k, seen |-> Loaded(rows[k]), caption |-> c,
                    applied |-> FALSE]
        /\ \A b \in Actors \ {r} : work'[b] = work[b]
    BY <2>1 DEF TypeOK, Begin
  <2>5. work'[r].seen.image = rows[k].image
    BY <2>2, <2>4, LoadedRow
  <2>6. \A b \in Actors : Sends(b)
    BY <2>2, <2>3, <2>4, <2>5 DEF Sends
  <2> QED
    BY <1>2, <2>6 DEF SendStep
<1>4. CASE CommitReview(r) \/ CommitRegeneration(r)
  <2>1. work' = [work EXCEPT ![r] = NoJob]
    BY <1>4 DEF CommitReview, CommitRegeneration
  <2>2. \A b \in Actors : work'[b].at = "put" => work'[b] = work[b]
    BY <2>1 DEF TypeOK, NoJob
  <2> QED
    BY <1>2, <2>2 DEF SendStep, Sends
<1>5. CASE StartRegeneration(r)
  <2>1. PICK k \in Ids : Begin(r, "regenerate", k, rows[k], None)
    BY <1>5 DEF StartRegeneration
  <2>2. \A b \in Actors : work'[b].at = "put" => work'[b] = work[b]
    BY <2>1 DEF TypeOK, Begin
  <2> QED
    BY <1>2, <2>2 DEF SendStep, Sends
<1> QED
  BY <1>3, <1>4, <1>5 DEF Review

LEMMA PutSends ==
  ASSUME TypeOK, NEW a \in Actors, Put(a)
  PROVE  SendStep
<1>1. ASSUME NEW b \in Actors PROVE Sends(b)
  <2>1. CASE Die(a)
    BY <2>1 DEF TypeOK, Die, NoJob, Sends
  <2>2. CASE Deliver(a)
    <3>1. /\ work[a] \in Job /\ work'[a] = [work[a] EXCEPT !.applied = TRUE]
          /\ \A c \in Actors \ {a} : work'[c] = work[c]
      BY <2>2, Contents DEF TypeOK, Deliver
    <3>2. /\ work'[a].at = work[a].at /\ work'[a].caption = work[a].caption
          /\ work'[a].seen = work[a].seen
      BY <3>1 DEF Job
    <3> QED
      BY <2>2, <3>1, <3>2 DEF Sends, Deliver
  <2>3. CASE PutSucceeds(a) \/ PutMissing(a) \/ PutFails(a)
    <3>1. PICK s \in {"posted", "refused"} : work[a].at = "put" /\ Answer(a, s)
      BY <2>3 DEF PutSucceeds, PutMissing, PutFails
    <3> QED
      BY <3>1, AnswerIs DEF Sends
  <2> QED
    BY <2>1, <2>2, <2>3 DEF Put
<1>2. Delivers
  <2>1. CASE Deliver(a)
    BY <2>1 DEF TypeOK, Deliver, Delivers, Target
  <2>2. CASE PutMissing(a) \/ PutFails(a)
    BY <2>2 DEF PutMissing, PutFails, GiveUp, Delivers, Target
  <2>3. CASE PutSucceeds(a) \/ Die(a)
    BY <2>3 DEF PutSucceeds, Die, Delivers, platformVars
  <2> QED
    BY <2>1, <2>2, <2>3 DEF Put
<1> QED
  BY <1>1, <1>2 DEF SendStep

LEMMA EverySendStep ==
  ASSUME Posters = {}, TypeOK, [Next]_vars
  PROVE  SendStep
<1>1. ASSUME NEW g \in Generators, Generation(g) PROVE SendStep
  BY <1>1, NothingSent
     DEF Generation, FetchPost, IsImageProcessed, LookForImage, InsertImage,
         StoreGenerated, EndGeneration, platformVars
<1>2. ASSUME NEW c \in Cleaners, Cleanup(c) PROVE SendStep
  BY <1>2, NothingSent DEF Cleanup, SelectPosted, DeletePosted, platformVars
<1>3. CASE UpdateCaption
  BY <1>3, NothingSent DEF UpdateCaption, platformVars
<1>4. CASE LatePut
  <2>1. PICK m \in late : /\ late' = late \ {m}
                          /\ alt' = [alt EXCEPT ![m.image] = m.caption]
    BY <1>4 DEF LatePut
  <2>2. Delivers
    BY <2>1 DEF TypeOK, Delivers
  <2> QED
    BY <1>4, <2>2 DEF LatePut, SendStep, Sends
<1>5. CASE MediaGone
  BY <1>5, NothingSent DEF MediaGone
<1>6. CASE UNCHANGED vars
  BY <1>6, NothingSent DEF vars, platformVars
<1> QED
  BY <1>1, <1>2, <1>3, <1>4, <1>5, <1>6, ReviewSends, PutSends DEF Next

\* What is on its way to the platform was submitted for that image.
Submitted ==
  /\ ApprovedCaptions
  /\ \A a \in Actors : work[a].at = "put" /\ work[a].caption # None
                        => work[a].caption \in typed[work[a].seen.image]
  /\ \A m \in late : m.caption \in typed[m.image]

LEMMA SubmittedNext ==
  ASSUME Posters = {}, TypeOK, Submitted, [Next]_vars
  PROVE  Submitted'
<1>1. SendStep /\ \A i \in Images : typed[i] \subseteq typed'[i]
  BY EverySendStep, EveryJobStep DEF PlatformStep
<1>2. \A a \in Actors : work[a].at = "put" => work[a].seen.image \in Images
  BY Contents DEF Job, Row
<1>3. ApprovedCaptions'
  BY <1>1, <1>2 DEF Submitted, ApprovedCaptions, SendStep, Delivers
<1>4. \A a \in Actors : work'[a].at = "put" /\ work'[a].caption # None
                        => work'[a].caption \in typed'[work'[a].seen.image]
  BY <1>1, <1>2 DEF Submitted, SendStep, Sends
<1>5. \A m \in late' : m.caption \in typed'[m.image]
  BY <1>1, <1>2 DEF TypeOK, Submitted, SendStep, Delivers
<1> QED
  BY <1>3, <1>4, <1>5 DEF Submitted

\* Where PostingService does not run, the alt text of an image is a caption a
\* reviewer submitted for it, however late it arrives: the requests send what
\* they were given (approve_and_post, review_single) and nothing they read.
THEOREM ReviewersPublishTheirOwn ==
  ASSUME Posters = {}
  PROVE  Spec => []ApprovedCaptions
<1>1. Init => Submitted
  BY DEF Init, Submitted, ApprovedCaptions, NoJob
<1>2. Submitted => ApprovedCaptions
  BY DEF Submitted
<1> QED
  BY <1>1, <1>2, SubmittedNext, ReviewTypeCorrect, PTL DEF Spec
=============================================================================

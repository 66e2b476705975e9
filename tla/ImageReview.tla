---------------------------- MODULE ImageReview ----------------------------
(***************************************************************************)
(* The life of an image's caption: a generation finds an image without alt *)
(* text and stores a caption for it (main.py, DatabaseManager), reviewers  *)
(* approve it in the web interface, which writes it to the platform at     *)
(* once (review and api blueprints), PostingService writes what is left    *)
(* approved, and clean-ups delete old rows.  Every one of them reads a row *)
(* in one session, waits for the platform or for a model, and writes later.*)
(***************************************************************************)
EXTENDS Naturals

CONSTANTS
  Images,           \* attachments on the platform
  MaxRows,          \* bound: rows of the table images ever inserted
  Generators,       \* runs that generate captions
  Requests,         \* requests of reviewers
  Posters,          \* PostingService processes
  Cleaners,         \* clean-ups of posted images
  Generated, Typed, \* captions the model returns, captions reviewers submit
  Blank,            \* the empty caption, which approve_and_post accepts too
  None,             \* no caption: NULL in a row, no PUT yet on the platform
  NoRow,            \* a row that does not exist
  Reprocess         \* reprocess_all / reprocess_existing

ASSUME CaptionsAssumption ==
  /\ MaxRows \in Nat /\ Reprocess \in BOOLEAN
  /\ Blank \notin Generated \cup Typed
  /\ None \notin Generated \cup Typed \cup {Blank}
  /\ Requests \cap Posters = {}

VARIABLES
  rows,             \* the table images
  inserted,         \* rows inserted so far (auto-increment)
  alt,              \* the alt text each attachment has on the platform
  gone,             \* attachments the platform answers 404 for
  late,             \* PUTs given up by their sender that may still arrive
  gen,              \* where each generation is, with its image and its row
  work,             \* where each request and poster is, with what it read
  list,             \* images each poster has yet to post
  picked,           \* rows each clean-up selected
  typed,            \* history: captions reviewers submitted for each image
  misread           \* history: attachments on the platform of which an error
                    \* was taken for a 404 before any PUT reached them

platformVars == <<alt, gone, late, misread>>
vars == <<rows, inserted, platformVars, gen, work, list, picked, typed>>

Ids      == 1 .. MaxRows
Decisions == Typed \cup {Blank}
Captions == Generated \cup Decisions
Statuses == {"PENDING", "APPROVED", "POSTED"}
Actors   == Requests \cup Posters

\* dated: posted_at is set.
Row == [image: Images, status: Statuses, generated: Captions \cup {None},
        final: Captions \cup {None}, dated: BOOLEAN]

GenSteps  == {"idle", "check", "look", "insert", "generate"}
WorkSteps == {"idle", "put", "posted", "refused", "regenerate"}
Job       == [at: WorkSteps \ {"idle"}, row: Ids, seen: Row, caption: Captions \cup {None},
              applied: BOOLEAN]
Entry     == [row: Ids, seen: Row]
NoJob     == [at |-> "idle"]
NoRun     == [at |-> "idle"]

TypeOK ==
  /\ rows \in [Ids -> Row \cup {NoRow}] /\ inserted \in 0 .. MaxRows
  /\ alt \in [Images -> Captions \cup {None}]
  /\ gone \subseteq Images
  /\ late \subseteq [image: Images, caption: Captions]
  /\ gen \in [Generators -> {NoRun} \cup
       [at: GenSteps \ {"idle"}, image: Images, row: 0 .. MaxRows]]
  /\ work \in [Actors -> Job \cup {NoJob}]
  /\ list \in [Posters -> SUBSET Entry]
  /\ picked \in [Cleaners -> SUBSET Ids]
  /\ typed \in [Images -> SUBSET Decisions]
  /\ misread \subseteq Images

Init ==
  /\ rows = [k \in Ids |-> NoRow] /\ inserted = 0
  /\ alt = [i \in Images |-> None] /\ gone = {} /\ late = {} /\ misread = {}
  /\ gen = [g \in Generators |-> NoRun]
  /\ work = [a \in Actors |-> NoJob]
  /\ list = [p \in Posters |-> {}]
  /\ picked = [c \in Cleaners |-> {}]
  /\ typed = [i \in Images |-> {}]

RowsOf(i) == {k \in Ids : rows[k] # NoRow /\ rows[k].image = i}

-----------------------------------------------------------------------------
(* Caption generation: extract_images_from_post, is_image_processed,       *)
(* save_image, generate_caption, update_image_caption.                     *)

FetchPost(g) ==
  /\ gen[g].at = "idle"
  /\ \E i \in Images :
       /\ alt[i] \in {None, Blank}
       /\ gen' = [gen EXCEPT ![g] = [at |-> "check", image |-> i, row |-> 0]]
  /\ UNCHANGED <<rows, inserted, platformVars, work, list, picked, typed>>

Processed(i) == \E k \in RowsOf(i) : rows[k].status \in {"POSTED", "APPROVED"}

IsImageProcessed(g) ==
  /\ gen[g].at = "check"
  /\ gen' = [gen EXCEPT ![g] =
       IF ~Reprocess /\ Processed(gen[g].image) THEN NoRun
       ELSE [@ EXCEPT !.at = "look"]]
  /\ UNCHANGED <<rows, inserted, platformVars, work, list, picked, typed>>

LookForImage(g) ==
  /\ gen[g].at = "look"
  /\ \/ \E k \in RowsOf(gen[g].image) :
          gen' = [gen EXCEPT ![g].at = "generate", ![g].row = k]
     \/ /\ RowsOf(gen[g].image) = {}
        /\ gen' = [gen EXCEPT ![g].at = "insert"]
  /\ UNCHANGED <<rows, inserted, platformVars, work, list, picked, typed>>

NewRow(i) == [image |-> i, status |-> "PENDING", generated |-> None,
              final |-> None, dated |-> FALSE]

\* Mutant: no unique constraint, only the look before.
InsertImage_Unchecked(g) ==
  /\ gen[g].at = "insert" /\ inserted < MaxRows
  /\ inserted' = inserted + 1
  /\ rows' = [rows EXCEPT ![inserted + 1] = NewRow(gen[g].image)]
  /\ gen' = [gen EXCEPT ![g].at = "generate", ![g].row = inserted + 1]
  /\ UNCHANGED <<platformVars, work, list, picked, typed>>

\* uq_post_attachment refuses a second row of an attachment, to the ORM's
\* INSERT and to the raw one save_image falls back to.
InsertImage(g) ==
  /\ gen[g].at = "insert"
  /\ \/ /\ RowsOf(gen[g].image) = {} /\ inserted < MaxRows
        /\ inserted' = inserted + 1
        /\ rows' = [rows EXCEPT ![inserted + 1] = NewRow(gen[g].image)]
        /\ gen' = [gen EXCEPT ![g].at = "generate", ![g].row = inserted + 1]
     \/ /\ RowsOf(gen[g].image) # {}
        /\ gen' = [gen EXCEPT ![g] = NoRun]
        /\ UNCHANGED <<rows, inserted>>
  /\ UNCHANGED <<platformVars, work, list, picked, typed>>

\* update_image_caption: both captions, whatever the status is by now.
WriteCaption(k, c) ==
  rows' = IF rows[k] = NoRow THEN rows
          ELSE [rows EXCEPT ![k].generated = c, ![k].final = c]

StoreGenerated(g) ==
  /\ gen[g].at = "generate"
  /\ \E c \in Generated : WriteCaption(gen[g].row, c)
  /\ gen' = [gen EXCEPT ![g] = NoRun]
  /\ UNCHANGED <<inserted, platformVars, work, list, picked, typed>>

\* A failed download, an empty caption, an exception, a killed process.
EndGeneration(g) ==
  /\ gen[g].at # "idle"
  /\ gen' = [gen EXCEPT ![g] = NoRun]
  /\ UNCHANGED <<rows, inserted, platformVars, work, list, picked, typed>>

-----------------------------------------------------------------------------
(* Reviewers: update_caption, approve_and_post and review_single,          *)
(* regenerate_caption.                                                     *)

\* A session's flush writes the attributes that differ from what it loaded.
Flush(now, seen, new) ==
  [f \in DOMAIN now |-> IF new[f] = seen[f] THEN now[f] ELSE new[f]]

Store(k, seen, new) ==
  rows' = IF rows[k] = NoRow THEN rows
          ELSE [rows EXCEPT ![k] = Flush(@, seen, new)]

UpdateCaption ==
  \E k \in Ids, c \in Typed :
    /\ rows[k] # NoRow
    /\ WriteCaption(k, c)
    /\ typed' = [typed EXCEPT ![rows[k].image] = @ \cup {c}]
    /\ UNCHANGED <<inserted, platformVars, gen, work, list, picked>>

\* A job writes no other attribute back, so it need not remember them.
Loaded(row) == [row EXCEPT !.final = None, !.dated = FALSE]

Begin(a, step, k, row, c) ==
  work' = [work EXCEPT ![a] = [at |-> step, row |-> k, seen |-> Loaded(row),
                               caption |-> c, applied |-> FALSE]]

\* The form of review_single wants a caption; approve_and_post takes any.
SubmitReview(r) ==
  /\ work[r].at = "idle"
  /\ \E k \in Ids, c \in Decisions :
       /\ rows[k] # NoRow
       /\ Begin(r, "put", k, rows[k], c)
       /\ typed' = [typed EXCEPT ![rows[k].image] = @ \cup {c}]
  /\ UNCHANGED <<rows, inserted, platformVars, gen, list, picked>>

\* Mutant: the answer of the platform is not looked at.
Reviewed_Optimistic(r) ==
  [work[r].seen EXCEPT !.generated = work[r].caption, !.status = "POSTED"]

Reviewed(r) ==
  [work[r].seen EXCEPT !.generated = work[r].caption,
     !.status = IF work[r].at = "posted" THEN "POSTED" ELSE "APPROVED"]

CommitReview(r) ==
  /\ work[r].at \in {"posted", "refused"}
  /\ Store(work[r].row, work[r].seen, Reviewed(r))
  /\ work' = [work EXCEPT ![r] = NoJob]
  /\ UNCHANGED <<inserted, platformVars, gen, list, picked, typed>>

StartRegeneration(r) ==
  /\ work[r].at = "idle"
  /\ \E k \in Ids : /\ rows[k] # NoRow
                    /\ Begin(r, "regenerate", k, rows[k], None)
  /\ UNCHANGED <<rows, inserted, platformVars, gen, list, picked, typed>>

CommitRegeneration(r) ==
  /\ work[r].at = "regenerate"
  /\ \E c \in Generated :
       Store(work[r].row, work[r].seen,
             [work[r].seen EXCEPT !.generated = c, !.status = "PENDING"])
  /\ work' = [work EXCEPT ![r] = NoJob]
  /\ UNCHANGED <<inserted, platformVars, gen, list, picked, typed>>

\* The process of a request or of a poster dies.
Die(a) ==
  /\ work[a].at # "idle"
  /\ work' = [work EXCEPT ![a] = NoJob]
  /\ list' = [p \in Posters |-> IF p = a THEN {} ELSE list[p]]
  /\ UNCHANGED <<rows, inserted, platformVars, gen, picked, typed>>

-----------------------------------------------------------------------------
(* The PUT of update_media_caption, retried until an answer comes.         *)

Target(a) == work[a].seen.image

Deliver(a) ==
  /\ work[a].at = "put" /\ work[a].caption # None
  /\ Target(a) \notin gone
  /\ alt' = [alt EXCEPT ![Target(a)] = work[a].caption]
  /\ work' = [work EXCEPT ![a].applied = TRUE]
  /\ UNCHANGED <<rows, inserted, gone, late, misread, gen, list, picked, typed>>

Answer(a, step) ==
  work' = [work EXCEPT ![a].at = step, ![a].applied = FALSE]

\* Mutant: a row without a final caption is sent like the others.
GiveUp_Null(a) ==
  \/ UNCHANGED late
  \/ /\ Target(a) \notin gone
     /\ late' = late \cup {[image |-> Target(a), caption |-> work[a].caption]}

\* The attempts are used up; the last one may still be on its way.
GiveUp(a) ==
  \/ UNCHANGED late
  \/ /\ work[a].caption # None /\ Target(a) \notin gone
     /\ late' = late \cup {[image |-> Target(a), caption |-> work[a].caption]}

PutSucceeds(a) ==
  /\ work[a].at = "put" /\ work[a].applied
  /\ Answer(a, "posted")
  /\ UNCHANGED <<rows, inserted, platformVars, gen, list, picked, typed>>

\* An error whose text has "404" or "not found" in it counts as success,
\* "likely expired": the platform's 404, or any other error that names a URL
\* or a medium with those digits.
PutMissing(a) ==
  /\ work[a].at = "put" /\ work[a].caption # None
  /\ GiveUp(a)
  /\ misread' = IF Target(a) \in gone \/ alt[Target(a)] # None
                 THEN misread ELSE misread \cup {Target(a)}
  /\ Answer(a, "posted")
  /\ UNCHANGED <<rows, inserted, alt, gone, gen, list, picked, typed>>

PutFails(a) ==
  /\ work[a].at = "put"
  /\ GiveUp(a)
  /\ Answer(a, "refused")
  /\ UNCHANGED <<rows, inserted, alt, gone, misread, gen, list, picked, typed>>

LatePut ==
  \E m \in late :
    /\ late' = late \ {m}
    /\ alt' = [alt EXCEPT ![m.image] = m.caption]
    /\ UNCHANGED <<rows, inserted, gone, misread, gen, work, list, picked, typed>>

\* A PUT that comes after this changes nothing.
MediaGone ==
  \E i \in Images \ gone :
    /\ gone' = gone \cup {i}
    /\ late' = {m \in late : m.image # i}
    /\ misread' = misread \ {i}
    /\ UNCHANGED <<rows, inserted, alt, gen, work, list, picked, typed>>

-----------------------------------------------------------------------------
(* PostingService with BATCH_UPDATE_ENABLED=false, and the clean-up.       *)

\* What a poster reads of a row: its attachment and the final caption.
Entries(K) == {[row |-> k, seen |-> [rows[k] EXCEPT !.generated = None, !.dated = FALSE]] :
                 k \in {l \in K : rows[l] # NoRow}}

\* Mutant: the list is not filtered by status.
GetApprovedImages_Any(p) ==
  /\ work[p].at = "idle" /\ list[p] = {}
  /\ list' = [list EXCEPT ![p] = Entries(Ids)]
  /\ UNCHANGED <<rows, inserted, platformVars, gen, work, picked, typed>>

GetApprovedImages(p) ==
  /\ work[p].at = "idle" /\ list[p] = {}
  /\ list' = [list EXCEPT ![p] =
       Entries({k \in Ids : rows[k] # NoRow /\ rows[k].status = "APPROVED"})]
  /\ UNCHANGED <<rows, inserted, platformVars, gen, work, picked, typed>>

PostNext(p) ==
  /\ work[p].at = "idle"
  /\ \E e \in list[p] : /\ Begin(p, "put", e.row, e.seen, e.seen.final)
                        /\ list' = [list EXCEPT ![p] = @ \ {e}]
  /\ UNCHANGED <<rows, inserted, platformVars, gen, picked, typed>>

MarkImagePosted(p) ==
  /\ work[p].at \in {"posted", "refused"}
  /\ LET k == work[p].row IN
       rows' = IF work[p].at = "refused" \/ rows[k] = NoRow THEN rows
               ELSE [rows EXCEPT ![k].status = "POSTED", ![k].dated = TRUE]
  /\ work' = [work EXCEPT ![p] = NoJob]
  /\ UNCHANGED <<inserted, platformVars, gen, list, picked, typed>>

\* posted_at < cutoff_date: NULL is never less.
SelectPosted(c) ==
  /\ picked[c] = {}
  /\ picked' = [picked EXCEPT ![c] =
       {k \in Ids : rows[k] # NoRow /\ rows[k].status = "POSTED" /\ rows[k].dated}]
  /\ UNCHANGED <<rows, inserted, platformVars, gen, work, list, typed>>

DeletePosted(c) ==
  /\ picked[c] # {}
  /\ rows' = [k \in Ids |-> IF k \in picked[c] THEN NoRow ELSE rows[k]]
  /\ picked' = [picked EXCEPT ![c] = {}]
  /\ UNCHANGED <<inserted, platformVars, gen, work, list, typed>>

-----------------------------------------------------------------------------
Generation(g) == FetchPost(g) \/ IsImageProcessed(g) \/ LookForImage(g)
                   \/ InsertImage(g) \/ StoreGenerated(g) \/ EndGeneration(g)
Review(r)     == SubmitReview(r) \/ CommitReview(r) \/ StartRegeneration(r)
                   \/ CommitRegeneration(r)
Posting(p)    == GetApprovedImages(p) \/ PostNext(p) \/ MarkImagePosted(p)
Put(a)        == Deliver(a) \/ PutSucceeds(a) \/ PutMissing(a) \/ PutFails(a) \/ Die(a)
Cleanup(c)    == SelectPosted(c) \/ DeletePosted(c)

Next ==
  \/ \E g \in Generators : Generation(g)
  \/ \E r \in Requests : Review(r)
  \/ \E p \in Posters : Posting(p)
  \/ \E a \in Actors : Put(a)
  \/ \E c \in Cleaners : Cleanup(c)
  \/ UpdateCaption \/ LatePut \/ MediaGone

Spec == Init /\ [][Next]_vars

-----------------------------------------------------------------------------
(* Properties. *)

\* However many generations, saves and clean-ups overlap, an attachment has at
\* most one row: save_image looks for it in one statement and inserts it in
\* another.
OneRowPerImage ==
  \A k, l \in Ids : (rows[k] # NoRow /\ rows[l] # NoRow /\ k # l)
                      => rows[k].image # rows[l].image

\* No alt text appears on the platform for an image no reviewer submitted a
\* caption for, not even by a poster that works from an old list, by a PUT
\* that arrives late or after the row was deleted and inserted again.
HumanDecided == \A i \in Images : alt[i] # None => typed[i] # {}

\* A row says POSTED only of an attachment that a PUT reached or that the
\* platform does not have any more, whatever was answered, lost or retried,
\* regenerated or deleted since; the one exception are the errors taken for a
\* 404 that was none.
PostedIsPublished ==
  \A k \in Ids : (rows[k] # NoRow /\ rows[k].status = "POSTED")
                   => (\/ alt[rows[k].image] # None
                       \/ rows[k].image \in gone \cup misread)

\* "Approved captions published": the alt text of an image is a caption a
\* reviewer submitted for it.  The code violates it by PostingService, and by
\* nothing else: without posters it holds.
ApprovedCaptions == \A i \in Images : alt[i] \in typed[i] \cup {None}

=============================================================================

-------------------------- MODULE FaceMatchSearch --------------------------
(***************************************************************************)
(* Face matching for one user: a start request launches a daemon thread    *)
(* that walks over the images with one of four searches, collects what it  *)
(* finds and writes the list of findings into the store now and then.  A   *)
(* progress record carries the stop request to the thread and the resume   *)
(* cursor to the next start.  Meanwhile a reviewer removes findings, and   *)
(* between searches saved findings of known persons are applied.           *)
(* A finding is one face; images are numbered in the order of the walk.    *)
(* Messages, counters and listing filters are left out.                    *)
(* Two things are coarser than the code: a progress update writes memory   *)
(* and database in one step (RuntimeOperations splits them), and so does   *)
(* RecordTransfer with the progress it has read.                           *)
(***************************************************************************)
EXTENDS Naturals, FiniteSets

CONSTANTS
  Find,      \* the faces a search can report, numbered
  KindOf,    \* Find -> the search that reports it
  ImageOf,   \* Find -> the image it is on
  Known,     \* the faces whose person is known (safely recognised)
  Images,    \* how many candidate images there are
  SkipUnknown, \* the option skip_unknown_persons
  MaxStarts, MaxTrouble, MaxReviews, \* bounds
  None

Kind == {"photo_faces", "file_faces", "missing_faces", "insightface"}
Missing == {"missing_faces", "insightface"}  \* they resume at an image index

ASSUME FindAssumption ==
  /\ Find \subseteq Nat /\ IsFiniteSet(Find)
  /\ Images \in Nat
  /\ KindOf \in [Find -> Kind]
  /\ ImageOf \in [Find -> 1..Images]
  /\ Known \subseteq Find
  /\ SkipUnknown \in BOOLEAN
  /\ None \notin Find

VARIABLES
  progress,   \* face_match_progress in memory: a record, or Nothing
  persisted,  \* its copy in the database
  store,      \* the findings repository: the saved list
  thread,     \* the search thread, or NoThread
  reviewer,   \* a removal, or an application of the saved findings
  handled,    \* faces named, added or assigned by somebody
  suppressed, \* faces the user does not want to be asked about again
  starts, trouble, reviews, \* counters of the bounds
  found,      \* history: what save-only searches matched
  excused,    \* history: what the named cases below lost
  seen, cut,  \* history: images examined and images broken off in this chain
  raised      \* history: an application of findings ended in an error

vars == <<progress, persisted, store, thread, reviewer, handled, suppressed,
          starts, trouble, reviews, found, excused, seen, cut, raised>>

NoCursor == [kind |-> None, save |-> FALSE, auto |-> FALSE, skip |-> {}, path |-> 0]
Nothing == [running |-> FALSE, stop |-> FALSE, paused |-> FALSE, images |-> 0, cursor |-> NoCursor]
Cursor == [kind : Kind \cup {None}, save : BOOLEAN, auto : BOOLEAN, skip : SUBSET Find, path : 0..Images]
Progress == [running : BOOLEAN, stop : BOOLEAN, paused : BOOLEAN, images : 0..Images, cursor : Cursor]

NoList == [kind |-> None, save |-> FALSE, status |-> "none", entries |-> {}]
NoThread == [pc |-> "none", kind |-> None, save |-> FALSE, auto |-> FALSE, resume |-> FALSE,
             start |-> NoCursor, skip |-> {}, at |-> 0, todo |-> {}, result |-> None,
             saved |-> {}, flushed |-> 0, own |-> FALSE]
Thread == [pc : {"none", "begin", "list", "sources", "image", "detect", "faces", "return", "error", "login"},
           kind : Kind \cup {None}, save : BOOLEAN, auto : BOOLEAN, resume : BOOLEAN, start : Cursor,
           skip : SUBSET Find, at : 0..Images, todo : SUBSET Find, result : Find \cup {None},
           saved : SUBSET Find, flushed : 0..Cardinality(Find), own : BOOLEAN]
Lists == [kind : Kind \cup {None}, save : BOOLEAN, entries : SUBSET Find,
          status : {"none", "running", "stopped", "failed", "finished"}]
Resting == [pc |-> "idle", list |-> NoList, todo |-> {}, face |-> None, adds |-> FALSE]
Reviewer == [pc : {"idle", "decided", "read", "record", "apply"}, list : Lists, todo : SUBSET Find,
             face : Find \cup {None}, adds : BOOLEAN]

Init ==
  /\ progress = Nothing /\ persisted = Nothing
  /\ store = NoList /\ thread = NoThread /\ reviewer = Resting
  /\ handled = {} /\ suppressed = {}
  /\ starts = 0 /\ trouble = 0 /\ reviews = 0
  /\ found = {} /\ excused = {} /\ seen = {} /\ cut = {} /\ raised = FALSE

-----------------------------------------------------------------------------
(* What getFaceMatchingProgress shows: memory first, then the database; a    *)
(* progress that does not run shows no stop request.                         *)
Shown == IF progress # Nothing THEN progress ELSE persisted
ShouldStop == Shown.running /\ Shown.stop

(* _setFaceMatchingProgress: memory, then the database.                      *)
SetProgress(p) == progress' = p /\ persisted' = p

(* requestStopFaceMatching merges the request into what memory holds; after  *)
(* a restart memory holds nothing.  Nobody looks whether anything runs.      *)
RequestStop ==
  /\ trouble < MaxTrouble /\ trouble' = trouble + 1
  /\ SetProgress([progress EXCEPT !.stop = TRUE])
  /\ UNCHANGED <<store, thread, reviewer, handled, suppressed, starts, reviews,
                 found, excused, seen, cut, raised>>

(* The cursor of the search, _buildFaceMatchResumeCursor.                    *)
CursorAhead(t) == [kind |-> t.kind, save |-> t.save, auto |-> t.auto, skip |-> t.skip,
                   path |-> IF t.kind \in Missing /\ t.at < Images THEN t.at + 1 ELSE 0]
CursorOf(t) == [kind |-> t.kind, save |-> t.save, auto |-> t.auto, skip |-> t.skip,
                path |-> IF t.kind \in Missing THEN t.at ELSE 0]
WithCursor(p, t) == [p EXCEPT !.images = t.at, !.cursor = CursorOf(t)]

(* Where a resumed search begins: an index of 0 in the cursor falls back to  *)
(* the number of images read.                                                *)
ResumePath(p) == IF p.cursor.path = 0 THEN p.images ELSE p.cursor.path

(* start_discovery: a running progress is answered as it is; the cursor is   *)
(* taken over when the same search is asked to go on or to skip faces.       *)
GoesOn(kind, resume, skip) == (resume \/ skip # {}) /\ Shown.cursor.kind = kind
TakenOver(skip) == [Shown.cursor EXCEPT !.path = ResumePath(Shown), !.skip = @ \cup skip]
Fresh(kind, save, auto, skip) == [kind |-> kind, save |-> save, auto |-> auto, skip |-> skip, path |-> 0]
Start(kind, save, auto, resume, skip) ==
  LET goesOn == GoesOn(kind, resume, skip)
      cursor == IF goesOn THEN TakenOver(skip) ELSE Fresh(kind, save, auto, skip)
  IN  /\ starts < MaxStarts /\ starts' = starts + 1
      /\ ~Shown.running
      /\ SetProgress([running |-> TRUE, stop |-> FALSE, paused |-> FALSE,
                      images |-> cursor.path, cursor |-> cursor])
      /\ thread' = [NoThread EXCEPT !.pc = "begin", !.kind = kind, !.save = cursor.save,
                                    !.auto = cursor.auto, !.resume = goesOn, !.skip = cursor.skip,
                                    !.start = [cursor EXCEPT !.skip = IF goesOn THEN Shown.cursor.skip ELSE skip]]
      /\ IF goesOn THEN UNCHANGED <<seen, cut>> ELSE seen' = {} /\ cut' = {}
      /\ UNCHANGED <<store, reviewer, handled, suppressed, trouble, reviews, found, excused, raised>>
-----------------------------------------------------------------------------
(* _resumeFaceMatchSavedEntries: only a resumed save-only search reads the   *)
(* saved list, and only its own.                                             *)
OwnList(t) == t.resume /\ t.save /\ store.kind = t.kind /\ store.save
EntriesForgotten(t) == {}
SavedEntries(t) == IF OwnList(t) THEN store.entries ELSE {}

(* The head of a search: the saved entries join the skip list, and the first *)
(* progress report withdraws a stop that came since the start request.       *)
Begin(kind, index) ==
  LET t == [thread EXCEPT !.pc = "list", !.saved = SavedEntries(thread), !.at = index,
                          !.skip = @ \cup SavedEntries(thread), !.own = OwnList(thread),
                          !.flushed = Cardinality(SavedEntries(thread))]
  IN  /\ thread.pc = "begin" /\ thread.kind = kind
      /\ thread' = t
      /\ SetProgress(WithCursor([Shown EXCEPT !.running = TRUE, !.stop = FALSE], t))
      /\ UNCHANGED <<store, reviewer, handled, suppressed, starts, trouble, reviews,
                     found, excused, seen, cut, raised>>

BeginPhotoFaces == Begin("photo_faces", 0)
BeginFileFaces == Begin("file_faces", 0)
BeginMissingFaces == Begin("missing_faces", IF thread.resume THEN thread.start.path ELSE 0)
BeginInsightFace == Begin("insightface", IF thread.resume THEN thread.start.path ELSE 0)

(* _writeFaceMatchFindings: the whole list, without the findings lock.  A    *)
(* list the search has not read is replaced.                                 *)
WriteFindings(status, t) ==
  /\ store' = [kind |-> t.kind, save |-> t.save, status |-> status, entries |-> t.saved]
  /\ excused' = (excused \ t.saved) \cup (IF t.own THEN {} ELSE store.entries \ t.saved)

(* The search returns: a stopped, finished or failed save-only search writes *)
(* its list, and the finally block its cursor.                               *)
Leave(status) ==
  /\ thread' = [thread EXCEPT !.pc = "return", !.own = TRUE]
  /\ IF thread.save THEN WriteFindings(status, thread) ELSE UNCHANGED <<store, excused>>
  /\ SetProgress(WithCursor([Shown EXCEPT !.stop = FALSE], thread))

(* The listing of the candidate images, and what can be missing before it:   *)
(* the shared folder, the face processor.                                    *)
List(kind, from) ==
  /\ thread.pc = from /\ thread.kind = kind
  /\ thread' = [thread EXCEPT !.pc = "image"]
  /\ UNCHANGED <<progress, persisted, store, excused, trouble>>
Refuse(kind) ==
  /\ thread.pc = "list" /\ thread.kind = kind
  /\ trouble < MaxTrouble /\ trouble' = trouble + 1
  /\ Leave("failed")
StopListing(kind) ==
  /\ thread.pc = "list" /\ thread.kind = kind /\ ShouldStop
  /\ Leave("stopped")
  /\ UNCHANGED trouble

ListPhotoFaces == List("photo_faces", "list") \/ StopListing("photo_faces")
(* The search by file first collects the named faces Photos has.             *)
CollectPhotoFaces ==
  \/ StopListing("file_faces")
  \/ /\ thread.pc = "list" /\ thread.kind = "file_faces" /\ ~ShouldStop
     /\ thread' = [thread EXCEPT !.pc = "sources"]
     /\ UNCHANGED <<progress, persisted, store, excused, trouble>>
ListFileFaces == List("file_faces", "sources")
ListMissingFaces == List("missing_faces", "list")
ListInsightFace ==
  \/ ~ShouldStop /\ List("insightface", "list")
  \/ StopListing("insightface")
RefusePhotoFaces == Refuse("photo_faces")
RefuseFileFaces == Refuse("file_faces")
RefuseMissingFaces == Refuse("missing_faces")
RefuseInsightFace == Refuse("insightface")

Listing ==
  /\ \/ ListPhotoFaces \/ CollectPhotoFaces \/ ListFileFaces \/ ListMissingFaces \/ ListInsightFace
     \/ RefusePhotoFaces \/ RefuseFileFaces \/ RefuseMissingFaces \/ RefuseInsightFace
  /\ UNCHANGED <<reviewer, handled, suppressed, starts, reviews, found, seen, cut, raised>>
-----------------------------------------------------------------------------
(* The faces of an image a search will look at: all of them, or the first    *)
(* that Photos does not have yet.                                            *)
StillThere(f) == f \notin handled
FindableOn(kind, i) == {f \in Find : KindOf[f] = kind /\ ImageOf[f] = i /\ StillThere(f)}
FirstOf(S) == CHOOSE f \in S : \A g \in S : f <= g
Candidates(kind, i) ==
  IF kind \in Missing /\ FindableOn(kind, i) # {} THEN {FirstOf(FindableOn(kind, i))}
  ELSE FindableOn(kind, i)

(* The head of the loop: stop, the end of the list, or the next image, which *)
(* is counted before it is read.                                             *)
NextImage(kind, pc) ==
  LET t == [thread EXCEPT !.pc = pc, !.at = @ + 1,
                          !.todo = Candidates(kind, thread.at + 1)]
  IN  /\ thread.pc = "image" /\ thread.kind = kind /\ ~ShouldStop /\ thread.at < Images
      /\ thread' = t
      /\ SetProgress(WithCursor(Shown, t))
      /\ UNCHANGED <<store, excused, cut>>
StopWalk(kind) ==
  /\ thread.pc = "image" /\ thread.kind = kind /\ ShouldStop
  /\ Leave("stopped")
  /\ UNCHANGED cut
EndWalk(kind) ==
  /\ thread.pc = "image" /\ thread.kind = kind /\ ~ShouldStop /\ thread.at = Images
  /\ Leave("finished")
  /\ UNCHANGED cut
(* searchMissingPhotosFacesWithInsightFace looks for a stop once more when   *)
(* the detector is back; the image is counted but not examined.              *)
StopDetection ==
  /\ thread.pc = "detect" /\ ShouldStop
  /\ Leave("stopped")
  /\ cut' = cut \cup {thread.at}
Detected ==
  /\ thread.pc = "detect" /\ ~ShouldStop
  /\ thread' = [thread EXCEPT !.pc = "faces"]
  /\ SetProgress(WithCursor(Shown, thread))
  /\ UNCHANGED <<store, excused, cut>>

WalkPhotoFaces == NextImage("photo_faces", "faces") \/ StopWalk("photo_faces")
WalkFileFaces == NextImage("file_faces", "faces") \/ StopWalk("file_faces")
WalkMissingFaces == NextImage("missing_faces", "faces") \/ StopWalk("missing_faces")
WalkInsightFace == NextImage("insightface", "detect") \/ StopWalk("insightface")
DetectInsightFace == StopDetection \/ Detected
EndPhotoFaces == EndWalk("photo_faces")
EndFileFaces == EndWalk("file_faces")
EndMissingFaces == EndWalk("missing_faces")
EndInsightFace == EndWalk("insightface")

Walking ==
  /\ \/ WalkPhotoFaces \/ WalkFileFaces \/ WalkMissingFaces \/ WalkInsightFace
     \/ DetectInsightFace
     \/ EndPhotoFaces \/ EndFileFaces \/ EndMissingFaces \/ EndInsightFace
  /\ UNCHANGED <<reviewer, handled, suppressed, starts, trouble, reviews, found, seen, raised>>
-----------------------------------------------------------------------------
(* _appendUniqueFaceMatchFinding and _shouldFlushFaceMatchFindings: the list *)
(* in memory grows; it is written with the first finding, later by number    *)
(* or time.                                                                  *)
Kept(t, f) == IF f \in suppressed THEN t.saved ELSE t.saved \cup {f}
Keep(t, f) ==
  LET n == Cardinality(Kept(t, f))
      kept == [t EXCEPT !.saved = Kept(t, f), !.result = None]
      flushed == [kept EXCEPT !.flushed = n, !.own = TRUE]
  IN  /\ \/ n > t.flushed /\ thread' = flushed /\ WriteFindings("running", [flushed EXCEPT !.own = t.own])
         \/ (n = t.flushed \/ t.flushed > 0) /\ thread' = kept /\ UNCHANGED <<store, excused>>
      /\ SetProgress(WithCursor(Shown, kept))

Match(f) == found' = IF thread.save THEN found \cup {f} ELSE found
Looking(kind) == thread.pc = "faces" /\ thread.kind = kind
Looked == [thread EXCEPT !.todo = @ \ {FirstOf(thread.todo)}]

(* The end of an image.                                                      *)
ImageDone(kind) ==
  /\ Looking(kind) /\ thread.todo = {} /\ thread.result = None
  /\ thread' = [thread EXCEPT !.pc = "image"]
  /\ seen' = seen \cup {thread.at}
  /\ UNCHANGED <<progress, persisted, store, excused, handled, found>>

(* One face of the searches by image and face: stop, already looked at,      *)
(* assigned at once, or matched.  A second match on the image takes the      *)
(* place of the first, which is in the skip list by then.                    *)
FaceAt == FirstOf(thread.todo)
LookedAt == [Looked EXCEPT !.skip = @ \cup {FaceAt}]
PassFace ==
  /\ FaceAt \in thread.skip /\ thread' = Looked
  /\ UNCHANGED <<progress, persisted, handled, found, excused>>
AssignFace ==
  /\ FaceAt \notin thread.skip /\ thread.auto /\ FaceAt \in Known
  /\ thread' = LookedAt /\ handled' = handled \cup {FaceAt}
  /\ SetProgress(WithCursor(Shown, LookedAt))
  /\ UNCHANGED <<found, excused>>
MatchFace ==
  /\ FaceAt \notin thread.skip
  /\ thread' = [LookedAt EXCEPT !.result = FaceAt] /\ Match(FaceAt)
  /\ excused' = excused \cup (IF thread.save THEN {thread.result} \ {None} ELSE {})
  /\ SetProgress(WithCursor(Shown, LookedAt))
  /\ UNCHANGED handled
PhotoFace ==
  /\ Looking("photo_faces") /\ thread.todo # {} /\ ~ShouldStop
  /\ PassFace \/ AssignFace \/ MatchFace
  /\ UNCHANGED <<store, seen>>
(* A stop between two faces of an image drops the match not yet kept.        *)
StopPhotoFaces ==
  /\ Looking("photo_faces") /\ thread.todo # {} /\ ShouldStop
  /\ thread' = [thread EXCEPT !.pc = "return", !.own = TRUE, !.result = None]
  /\ IF thread.save
     THEN /\ store' = [kind |-> thread.kind, save |-> TRUE, status |-> "stopped", entries |-> thread.saved]
          /\ excused' = excused \cup ({thread.result} \ {None})
                                \cup (IF thread.own THEN {} ELSE store.entries \ thread.saved)
     ELSE UNCHANGED <<store, excused>>
  /\ SetProgress(WithCursor([Shown EXCEPT !.stop = FALSE], thread))
  /\ UNCHANGED <<handled, found, seen>>
(* The match of an image is kept, passed over, or returned to the client.    *)
PhotoResult ==
  /\ Looking("photo_faces") /\ thread.todo = {} /\ thread.result # None
  /\ \/ thread.save /\ Keep([thread EXCEPT !.pc = "image"], thread.result)
     \/ /\ ~thread.save /\ thread.result \in suppressed
        /\ thread' = [thread EXCEPT !.pc = "image", !.result = None]
        /\ UNCHANGED <<progress, persisted, store, excused>>
     \/ ~thread.save /\ thread.result \notin suppressed /\ Leave("finished")
  /\ seen' = seen \cup {thread.at}
  /\ UNCHANGED <<handled, found>>

(* What becomes of a match of the target searches: written at once, kept,    *)
(* passed over, or returned.                                                 *)
AssignTarget(t, f) ==
  LET u == [t EXCEPT !.skip = @ \cup {f}]
  IN  /\ thread' = u /\ SetProgress(WithCursor(Shown, u))
      /\ handled' = handled \cup {f}
      /\ UNCHANGED <<store, excused, found>>
Settle(t, f, byItself) ==
  \/ t.auto /\ byItself /\ AssignTarget(t, f)
  \/ /\ t.save /\ Keep([t EXCEPT !.skip = @ \cup {f}], f) /\ Match(f)
     /\ UNCHANGED handled
  \/ /\ ~t.save /\ f \in suppressed /\ thread' = t
     /\ UNCHANGED <<progress, persisted, store, excused, found, handled>>
  \/ /\ ~t.save /\ f \notin suppressed /\ Leave("finished")
     /\ UNCHANGED <<found, handled>>

FileFace ==
  /\ Looking("file_faces") /\ thread.todo # {}
  /\ LET f == FirstOf(thread.todo)
     IN  IF f \in thread.skip
         THEN thread' = Looked /\ UNCHANGED <<progress, persisted, store, excused, found, handled>>
         ELSE Settle(Looked, f, TRUE)
  /\ UNCHANGED seen

(* The searches for faces missing in Photos look at one face of an image.    *)
MissingFace(kind) ==
  /\ Looking(kind) /\ thread.todo # {}
  /\ LET f == FirstOf(thread.todo)
         t == [Looked EXCEPT !.pc = "image"]
     IN  IF f \in thread.skip
         THEN thread' = t /\ UNCHANGED <<progress, persisted, store, excused, found, handled>>
         ELSE Settle(t, f, f \in Known)
  /\ seen' = seen \cup {thread.at}
NamedFace == MissingFace("missing_faces")
(* skip_unknown_persons passes over a face nobody is recognised in.          *)
Unrecognized == IF SkipUnknown THEN thread.todo \ (Known \cup thread.skip) ELSE {}
PassUnknown ==
  /\ Looking("insightface")
  /\ \E f \in Unrecognized :
       LET t == [Looked EXCEPT !.pc = "image", !.skip = @ \cup {f}]
       IN  thread' = t /\ SetProgress(WithCursor(Shown, t))
  /\ seen' = seen \cup {thread.at}
  /\ UNCHANGED <<store, excused, found, handled>>
RecognizedFace == PassUnknown \/ (Unrecognized = {} /\ MissingFace("insightface"))

Examining ==
  /\ \/ PhotoFace \/ StopPhotoFaces \/ PhotoResult \/ FileFace \/ NamedFace \/ RecognizedFace
     \/ \E kind \in Kind : ImageDone(kind)
  /\ UNCHANGED <<reviewer, suppressed, starts, trouble, reviews, cut, raised>>
-----------------------------------------------------------------------------
Unwritten == (thread.saved \cup {thread.result}) \ (store.entries \cup {None})
BrokenOff == IF thread.pc \in {"detect", "faces"} THEN cut \cup {thread.at} ELSE cut

(* _run_face_matching to the end: the result and running = FALSE.            *)
Return ==
  /\ thread.pc = "return"
  /\ SetProgress([Shown EXCEPT !.running = FALSE, !.stop = FALSE])
  /\ thread' = NoThread
  /\ UNCHANGED <<store, reviewer, handled, suppressed, starts, trouble, reviews,
                 found, excused, seen, cut, raised>>

(* Any call to Photos, to the session manager or to a file may raise; the    *)
(* finally block of the search writes its cursor.                            *)
Raise ==
  /\ thread.pc \in {"begin", "list", "sources", "image", "detect", "faces"}
  /\ trouble < MaxTrouble /\ trouble' = trouble + 1
  /\ \E pc \in {"error", "login"} : thread' = [thread EXCEPT !.pc = pc]
  /\ IF thread.pc = "begin" THEN UNCHANGED <<progress, persisted>>
     ELSE SetProgress(WithCursor([Shown EXCEPT !.stop = FALSE], thread))
  /\ cut' = BrokenOff
  /\ UNCHANGED <<store, reviewer, handled, suppressed, starts, reviews, found, excused, seen, raised>>

(* FaceDetectorUnavailable is caught by the search itself.                   *)
DetectorGone ==
  /\ thread.pc = "detect"
  /\ trouble < MaxTrouble /\ trouble' = trouble + 1
  /\ Leave("failed")
  /\ cut' = BrokenOff
  /\ UNCHANGED <<reviewer, handled, suppressed, starts, reviews, found, seen, raised>>

(* The handlers of _run_face_matching: under the findings lock the stored    *)
(* list is written again as failed and as this search's; a login pauses.     *)
FailureKeepsRunning(p) ==
  IF thread.pc = "login" THEN [p EXCEPT !.paused = TRUE, !.cursor = thread.start]
  ELSE [p EXCEPT !.running = FALSE, !.paused = FALSE]
Failure(p) ==
  IF thread.pc = "login" THEN [p EXCEPT !.running = FALSE, !.paused = TRUE, !.cursor = thread.start]
  ELSE [p EXCEPT !.running = FALSE, !.paused = FALSE]
LockFree == reviewer.pc \notin {"read", "apply"}
FailedList == [kind |-> thread.kind, save |-> TRUE, status |-> "failed", entries |-> store.entries]
HandleError ==
  /\ thread.pc \in {"error", "login"} /\ LockFree
  /\ IF thread.save
     THEN /\ store' = FailedList
          /\ excused' = excused \cup Unwritten
     ELSE UNCHANGED <<store, excused>>
  /\ SetProgress(Failure(Shown))
  /\ thread' = NoThread
  /\ UNCHANGED <<reviewer, handled, suppressed, starts, trouble, reviews, found, seen, cut, raised>>

(* The backend is restarted: memory goes, the database stays.                *)
Restart ==
  /\ trouble < MaxTrouble /\ trouble' = trouble + 1
  /\ progress' = Nothing /\ thread' = NoThread /\ reviewer' = Resting
  /\ excused' = IF thread.save THEN excused \cup Unwritten ELSE excused
  /\ cut' = BrokenOff /\ raised' = FALSE
  /\ UNCHANGED <<persisted, store, handled, suppressed, starts, reviews, found, seen>>
-----------------------------------------------------------------------------
(* The user decides on a saved finding: the face is dealt with in Photos or  *)
(* in its file, put on the list of suppressed faces, or passed over; then    *)
(* its entry is removed, and a face added to Photos recorded.                *)
Decide(f, kinds, adds) ==
  /\ reviewer.pc = "idle" /\ f \in store.entries \ (handled \cup suppressed)
  /\ KindOf[f] \in kinds
  /\ reviews < MaxReviews /\ reviews' = reviews + 1
  /\ reviewer' = [Resting EXCEPT !.pc = "decided", !.face = f, !.adds = adds]
  /\ UNCHANGED <<progress, persisted, store, thread, starts, trouble, found, excused, seen, cut, raised>>
DealtWith(f) == handled' = handled \cup {f} /\ UNCHANGED suppressed

NamePhotoFace(f) == Decide(f, {"photo_faces"}, FALSE) /\ DealtWith(f)
RenameTarget(f) == Decide(f, {"file_faces"}, FALSE) /\ DealtWith(f)
TransferTarget(f) == Decide(f, Missing, TRUE) /\ DealtWith(f)
DeleteTarget(f) == Decide(f, Kind \ {"photo_faces"}, FALSE) /\ DealtWith(f)
SkipMatch(f) ==
  /\ Decide(f, Kind, FALSE)
  /\ suppressed' \in {suppressed, suppressed \cup {f}} /\ UNCHANGED handled

(* remove_entry, remove_metadata_entry: under the findings lock the list is  *)
(* read, and then written without the entry.                                 *)
RemoveRead ==
  /\ reviewer.pc = "decided"
  /\ reviewer' = [reviewer EXCEPT !.pc = "read", !.list = store]
  /\ UNCHANGED <<progress, persisted, store, thread, handled, suppressed, starts, trouble, reviews,
                 found, excused, seen, cut, raised>>
Without(list, S) == IF list.entries \subseteq S THEN NoList ELSE [list EXCEPT !.entries = @ \ S]
RemoveWrite ==
  /\ reviewer.pc = "read"
  /\ IF reviewer.face \in reviewer.list.entries
     THEN /\ store' = Without(reviewer.list, {reviewer.face})
          /\ excused' = excused \cup (store.entries \ reviewer.list.entries) \cup {reviewer.face}
     ELSE UNCHANGED <<store, excused>>
  /\ reviewer' = [reviewer EXCEPT !.pc = "record", !.list = NoList]
  /\ UNCHANGED <<progress, persisted, thread, handled, suppressed, starts, trouble, reviews,
                 found, seen, cut, raised>>
RemoveFace == reviewer.pc = "read" /\ KindOf[reviewer.face] = "photo_faces" /\ RemoveWrite
RemoveTarget == reviewer.pc = "read" /\ KindOf[reviewer.face] # "photo_faces" /\ RemoveWrite

(* recordFaceMatchTransferProgress: a face added to Photos is skipped by the *)
(* next search.                                                              *)
RecordTransfer ==
  /\ reviewer.pc = "record"
  /\ IF reviewer.adds /\ Shown.cursor.kind # None
     THEN SetProgress([progress EXCEPT !.cursor = [Shown.cursor EXCEPT !.skip = @ \cup {reviewer.face},
                                                                     !.path = ResumePath(Shown)]])
     ELSE UNCHANGED <<progress, persisted>>
  /\ reviewer' = Resting
  /\ UNCHANGED <<store, thread, handled, suppressed, starts, trouble, reviews, found, excused, seen, cut, raised>>

StoppedApplying(p) == [p EXCEPT !.stop = FALSE]
Applied(p) == [p EXCEPT !.running = FALSE, !.stop = FALSE, !.paused = FALSE]

(* get_finding_entries with auto: under the findings lock the saved findings *)
(* of known persons are applied one by one, the list written after each.     *)
(* The client offers it only while nothing runs.                             *)
Apply ==
  /\ reviewer.pc = "idle" /\ ~Shown.running /\ store.entries # {}
  /\ reviews < MaxReviews /\ reviews' = reviews + 1
  /\ SetProgress([Applied(progress) EXCEPT !.running = TRUE])
  /\ reviewer' = [Resting EXCEPT !.pc = "apply", !.list = store, !.todo = store.entries \ suppressed]
  /\ UNCHANGED <<store, thread, handled, suppressed, starts, trouble, found, excused, seen, cut, raised>>
ApplyEntry ==
  /\ reviewer.pc = "apply" /\ reviewer.todo # {} /\ ~ShouldStop
  /\ LET f == FirstOf(reviewer.todo)
         rest == reviewer.todo \ {f}
     IN  /\ StillThere(f) => f \in Known
         /\ handled' = handled \cup {f}
         /\ store' = IF rest = {} THEN NoList ELSE [reviewer.list EXCEPT !.entries = rest]
         /\ reviewer' = [reviewer EXCEPT !.todo = rest]
  /\ UNCHANGED <<progress, persisted, thread, suppressed, starts, trouble, reviews, found, excused, seen, cut, raised>>
(* At the end of the list, at a stop, at an entry to be reviewed or at one   *)
(* Photos refuses.                                                           *)
ApplyEnds ==
  /\ reviewer.pc = "apply"
  /\ SetProgress(Applied(Shown))
  /\ reviewer' = Resting
  /\ UNCHANGED <<store, thread, handled, suppressed, starts, trouble, reviews, found, excused, seen, cut, raised>>
(* Any other error leaves get_finding_entries, and the progress as it is.    *)
ApplyRaises ==
  /\ reviewer.pc = "apply"
  /\ trouble < MaxTrouble /\ trouble' = trouble + 1
  /\ raised' = TRUE /\ reviewer' = Resting
  /\ UNCHANGED <<progress, persisted, store, thread, handled, suppressed, starts, reviews, found, excused, seen, cut>>
(* face_matching_action: a search, also one that skips the shown face, or    *)
(* the saved findings.                                                       *)
FaceMatchingAction ==
  \/ \E kind \in Kind, save, auto, resume \in BOOLEAN : Start(kind, save, auto, resume, {})
  \/ \E f \in Find, auto \in BOOLEAN : Start(KindOf[f], FALSE, auto, TRUE, {f})
  \/ Apply
-----------------------------------------------------------------------------
SearchStep ==
  \/ BeginPhotoFaces \/ BeginFileFaces \/ BeginMissingFaces \/ BeginInsightFace
  \/ Listing \/ Walking \/ Examining \/ Return \/ HandleError
ReviewStep == RemoveRead \/ RemoveFace \/ RemoveTarget \/ RecordTransfer \/ ApplyEntry \/ ApplyEnds

Next ==
  \/ FaceMatchingAction
  \/ SearchStep \/ ReviewStep
  \/ RequestStop \/ Raise \/ DetectorGone \/ Restart
  \/ \E f \in Find : NamePhotoFace(f) \/ RenameTarget(f) \/ TransferTarget(f) \/ DeleteTarget(f) \/ SkipMatch(f)
  \/ ApplyRaises

Spec == Init /\ [][Next]_vars
FairSpec == Spec /\ WF_vars(SearchStep) /\ WF_vars(ReviewStep)
-----------------------------------------------------------------------------
TypeOK ==
  /\ progress \in Progress /\ persisted \in Progress /\ raised \in BOOLEAN
  /\ store \in Lists /\ thread \in Thread /\ reviewer \in Reviewer
  /\ handled \subseteq Find /\ suppressed \subseteq Find
  /\ found \subseteq Find /\ excused \subseteq Find
  /\ seen \subseteq 1..Images /\ cut \subseteq 1..Images

(* A face a save-only search matched is never forgotten: it is in the        *)
(* thread's list or the stored one, somebody dealt with it, or it was lost   *)
(* in one of the ways RemoveWrite, HandleError, Restart, PhotoFace,          *)
(* StopPhotoFaces and the replacement of an unread list name.                *)
FoundIsKept ==
  found \subseteq store.entries \cup thread.saved \cup {thread.result} \cup handled \cup suppressed \cup excused

(* A search that resumes at an image index misses no image before it, except *)
(* those during which an earlier search of the chain was broken off.         *)
Covered(n) == 1..n \subseteq seen \cup cut
ImagesCovered ==
  /\ thread.kind \in Missing /\ thread.pc # "begin"
       => Covered(IF thread.pc \in {"detect", "faces"} THEN thread.at - 1 ELSE thread.at)
  /\ thread.pc = "none" /\ Shown.cursor.kind \in Missing => Covered(ResumePath(Shown))

(* A progress that runs has somebody working for it, unless an application   *)
(* of findings ended in an error: without one, every start is answered with  *)
(* the progress of an operation nobody carries out.                          *)
RunningIsWorked == progress.running => thread.pc # "none" \/ reviewer.pc = "apply" \/ raised

(* A running progress comes to an end: the search and the application give   *)
(* the findings lock back to each other, and every image of the walk leads   *)
(* to the next.                                                              *)
RunningEnds == progress.running ~> (~progress.running \/ raised)
=============================================================================

----------------------- MODULE FaceMatchSearch_proofs -----------------------
(***************************************************************************)
(* What FaceMatchSearch keeps for any number of faces, images, searches    *)
(* and reviews: its types, that a running progress has somebody at work,   *)
(* that no matched face is forgotten, and that no image is passed over.    *)
(***************************************************************************)
EXTENDS FaceMatchSearch, FiniteSetTheorems, WellFoundedInduction, TLAPS

(* The record in the database is the one in memory, until a restart.         *)
Persisted == progress = persisted \/ progress = Nothing

(* Where each field of the thread may be set.                                *)
ThreadOK ==
  /\ thread.pc = "none" => thread = NoThread
  /\ thread.pc # "none" => thread.kind \in Kind
  /\ thread.pc = "begin" => thread.saved = {} /\ ~thread.own /\ thread.at = 0
  /\ thread.kind # "photo_faces" \/ thread.pc \notin {"faces", "error", "login", "return"} => thread.result = None
  /\ thread.pc \in {"detect", "faces"} => thread.at > 0
  /\ thread.pc \in {"list", "sources"} /\ thread.kind \notin Missing => thread.at = 0
  /\ thread.pc = "detect" => thread.kind = "insightface"
ReviewOK ==
  /\ reviewer.pc \in {"decided", "read", "record"} => reviewer.face \in Find
  /\ reviewer.pc = "apply" => store.entries \subseteq reviewer.todo \cup suppressed

(* One of the two at a time, and the progress says so.                       *)
Apart ==
  /\ thread.pc # "none" \/ reviewer.pc = "apply" => progress.running
  /\ reviewer.pc = "apply" => thread.pc = "none"

(* What holds of a matched face besides FoundIsKept: the thread's own list   *)
(* has all of them, and the stored one has before it begins and after it     *)
(* returned.                                                                 *)
Accounted == handled \cup suppressed \cup excused
InOwnList == thread.own /\ thread.save => found \subseteq thread.saved \cup {thread.result} \cup Accounted
InStore == ~thread.save \/ thread.pc \in {"begin", "return"} => found \subseteq store.entries \cup Accounted

(* What holds of the images besides ImagesCovered: the cursor is not ahead   *)
(* of the image that is being examined.                                      *)
AtWork == IF thread.pc \in {"detect", "faces"} THEN {thread.at} ELSE {}
CursorCovers == Shown.cursor.kind \in Missing => 1..ResumePath(Shown) \subseteq seen \cup cut \cup AtWork
StartCovers == thread.pc # "none" /\ thread.start.kind \in Missing => 1..thread.start.path \subseteq seen \cup cut
CursorIsThreads ==
  thread.pc # "none" => progress.cursor.kind = thread.kind /\ thread.start.kind = thread.kind
ImagesShown == thread.pc # "none" /\ thread.kind \in Missing => 1..progress.images \subseteq seen \cup cut \cup AtWork
SearchIInv == TypeOK /\ Persisted /\ ThreadOK /\ ReviewOK /\ Apart /\ RunningIsWorked
FoundIInv == FoundIsKept /\ InOwnList /\ InStore
ImagesIInv == ImagesCovered /\ CursorCovers /\ StartCovers /\ CursorIsThreads /\ ImagesShown
IInv == SearchIInv /\ FoundIInv /\ ImagesIInv
-----------------------------------------------------------------------------
USE FindAssumption DEF FindAssumption

LEMMA LessThanWellFounded ==
  IsWellFoundedOn({p \in Nat \X Nat : p[1] < p[2]}, Nat)
BY NatLessThanWellFounded DEF OpToRel

LEMMA FirstIsMember ==
  ASSUME NEW S \in SUBSET Find, S # {}
  PROVE  FirstOf(S) \in S
<1> DEFINE Less == {p \in Nat \X Nat : p[1] < p[2]}
<1>1. PICK x \in S : \A y \in S : ~(<<y, x>> \in Less)
  BY LessThanWellFounded, WFMin
<1>2. ASSUME NEW y \in S PROVE x <= y
  <2>1. x \in Nat /\ y \in Nat
    OBVIOUS
  <2>2. y < x => <<y, x>> \in Less
    BY <2>1
  <2> QED BY <1>1, <2>1, <2>2
<1> QED BY <1>2 DEF FirstOf

LEMMA Bounds ==
  /\ 0 \in 0..Images
  /\ Cardinality(Find) \in Nat /\ 0 \in 0..Cardinality(Find)
  /\ \A S \in SUBSET Find : Cardinality(S) \in 0..Cardinality(Find)
<1>1. Cardinality(Find) \in Nat
  BY FS_CardinalityType
<1>2. ASSUME NEW S \in SUBSET Find PROVE Cardinality(S) \in 0..Cardinality(Find)
  <2>1. IsFiniteSet(S) /\ Cardinality(S) <= Cardinality(Find)
    BY FS_Subset
  <2>2. Cardinality(S) \in Nat
    BY <2>1, FS_CardinalityType
  <2> QED BY <2>1, <2>2, <1>1
<1> QED BY <1>1, <1>2

LEMMA ConstantTypes ==
  /\ NoCursor \in Cursor /\ Nothing \in Progress /\ NoList \in Lists
  /\ NoThread \in Thread /\ Resting \in Reviewer
<1>1. NoCursor \in Cursor
  BY Bounds DEF NoCursor, Cursor
<1>2. Nothing \in Progress
  BY <1>1, Bounds DEF Nothing, Progress
<1>3. NoList \in Lists
  BY DEF NoList, Lists
<1>4. NoThread \in Thread
  BY <1>1, Bounds DEF NoThread, Thread
<1>5. Resting \in Reviewer
  BY <1>3 DEF Resting, Reviewer
<1> QED BY <1>1, <1>2, <1>3, <1>4, <1>5

LEMMA ProgressFields ==
  ASSUME NEW p \in Progress
  PROVE  /\ p.running \in BOOLEAN /\ p.stop \in BOOLEAN /\ p.paused \in BOOLEAN /\ p.images \in 0..Images
         /\ p.cursor \in Cursor /\ p.cursor.kind \in Kind \cup {None} /\ p.cursor.save \in BOOLEAN
         /\ p.cursor.auto \in BOOLEAN /\ p.cursor.skip \in SUBSET Find /\ p.cursor.path \in 0..Images
BY DEF Progress, Cursor

LEMMA ThreadFields ==
  ASSUME NEW t \in Thread
  PROVE  /\ t.kind \in Kind \cup {None} /\ t.save \in BOOLEAN /\ t.auto \in BOOLEAN /\ t.resume \in BOOLEAN
         /\ t.start \in Cursor /\ t.start.path \in 0..Images
         /\ t.skip \in SUBSET Find /\ t.at \in 0..Images /\ t.todo \in SUBSET Find
         /\ t.result \in Find \cup {None} /\ t.saved \in SUBSET Find
         /\ t.flushed \in 0..Cardinality(Find) /\ t.own \in BOOLEAN
BY DEF Thread, Cursor

(* The report of a search: it resumes at the image its thread is at.         *)
LEMMA Report ==
  ASSUME NEW p \in Progress, NEW t \in Thread, SetProgress(WithCursor(p, t))
  PROVE  /\ progress' \in Progress /\ persisted' = progress'
         /\ progress'.running = p.running /\ progress'.images = t.at
         /\ progress'.cursor.kind = t.kind
         /\ (IF progress'.cursor.path = 0 THEN progress'.images ELSE progress'.cursor.path) = t.at
<1> DEFINE path == IF t.kind \in Missing THEN t.at ELSE 0
<1>1. progress' = [p EXCEPT !.images = t.at, !.cursor = CursorOf(t)] /\ persisted' = progress'
  BY DEF SetProgress, WithCursor
<1>2. path \in 0..Images
  BY ThreadFields, Bounds
<1>3. CursorOf(t) \in Cursor /\ CursorOf(t).kind = t.kind /\ CursorOf(t).path = path
  BY <1>2, ThreadFields DEF CursorOf, Cursor
<1>4. /\ progress' \in Progress /\ progress'.running = p.running /\ progress'.images = t.at
      /\ progress'.cursor = CursorOf(t)
  BY <1>1, <1>3, ThreadFields DEF Progress
<1> HIDE DEF path
<1>5. path = 0 \/ path = t.at
  BY DEF path
<1> QED BY <1>1, <1>3, <1>4, <1>5

LEMMA WhileWorking ==
  ASSUME SearchIInv, thread.pc # "none"
  PROVE  /\ Shown = progress /\ progress.running /\ reviewer.pc # "apply"
         /\ progress \in Progress /\ thread \in Thread
         /\ thread.kind \in Kind
<1>1. progress.running /\ progress \in Progress /\ thread \in Thread /\ thread.kind \in Kind /\ reviewer.pc # "apply"
  BY DEF SearchIInv, TypeOK, Apart, ThreadOK
<1>2. progress # Nothing
  BY <1>1 DEF Nothing
<1> QED BY <1>1, <1>2, ThreadFields DEF Shown

(* The thread returns.                                                       *)
LEMMA LeaveEffect ==
  ASSUME SearchIInv, thread.pc # "none", NEW status \in {"stopped", "failed", "finished"}, Leave(status)
  PROVE  /\ thread' = [thread EXCEPT !.pc = "return", !.own = TRUE]
         /\ thread' \in Thread /\ thread'.pc = "return" /\ thread'.own
         /\ thread'.kind = thread.kind /\ thread'.save = thread.save /\ thread'.at = thread.at
         /\ thread'.saved = thread.saved /\ thread'.result = thread.result /\ thread'.start = thread.start
         /\ progress' \in Progress /\ persisted' = progress' /\ progress'.running
         /\ progress'.images = thread.at /\ progress'.cursor.kind = thread.kind
         /\ (IF progress'.cursor.path = 0 THEN progress'.images ELSE progress'.cursor.path) = thread.at
         /\ store' \in Lists
         /\ thread.save => /\ store'.entries = thread.saved
                           /\ excused' = (excused \ thread.saved)
                                           \cup (IF thread.own THEN {} ELSE store.entries \ thread.saved)
         /\ ~thread.save => UNCHANGED <<store, excused>>
<1>1. Shown = progress /\ progress.running /\ progress \in Progress /\ thread \in Thread
  BY WhileWorking
<1>2. [Shown EXCEPT !.stop = FALSE] \in Progress /\ [Shown EXCEPT !.stop = FALSE].running
  BY <1>1 DEF Progress
<1>3. SetProgress(WithCursor([Shown EXCEPT !.stop = FALSE], thread))
  BY DEF Leave
<1>4. /\ progress' \in Progress /\ persisted' = progress' /\ progress'.running
      /\ progress'.images = thread.at /\ progress'.cursor.kind = thread.kind
      /\ (IF progress'.cursor.path = 0 THEN progress'.images ELSE progress'.cursor.path) = thread.at
  BY <1>1, <1>2, <1>3, Report
<1>5. thread' = [thread EXCEPT !.pc = "return", !.own = TRUE]
  BY DEF Leave
<1>6. /\ thread' \in Thread /\ thread'.pc = "return" /\ thread'.own
      /\ thread'.kind = thread.kind /\ thread'.save = thread.save /\ thread'.at = thread.at
      /\ thread'.saved = thread.saved /\ thread'.result = thread.result /\ thread'.start = thread.start
  BY <1>1, <1>5 DEF Thread
<1>7. CASE thread.save
  <2>1. WriteFindings(status, thread)
    BY <1>7 DEF Leave
  <2>2. store' \in Lists /\ store'.entries = thread.saved
    BY <1>1, <2>1, ThreadFields DEF WriteFindings, Lists
  <2> QED BY <1>4, <1>5, <1>6, <1>7, <2>1, <2>2 DEF WriteFindings
<1>8. CASE ~thread.save
  <2>1. UNCHANGED <<store, excused>>
    BY <1>8 DEF Leave
  <2> QED BY <1>4, <1>5, <1>6, <1>8, <2>1 DEF SearchIInv, TypeOK
<1> QED BY <1>7, <1>8

(* A match joins the list of the thread, which may be written.               *)
LEMMA KeepEffect ==
  ASSUME SearchIInv, thread.pc # "none", NEW t \in Thread, NEW f \in Find, t.save,
         Keep(t, f)
  PROVE  /\ thread' \in Thread /\ thread'.pc = t.pc /\ thread'.kind = t.kind /\ thread'.save = t.save
         /\ thread'.at = t.at /\ thread'.start = t.start /\ thread'.result = None
         /\ thread'.saved = Kept(t, f)
         /\ progress' \in Progress /\ persisted' = progress' /\ progress'.running
         /\ progress'.images = t.at /\ progress'.cursor.kind = t.kind
         /\ (IF progress'.cursor.path = 0 THEN progress'.images ELSE progress'.cursor.path) = t.at
         /\ store' \in Lists
         /\ \/ /\ store'.entries = Kept(t, f) /\ thread'.own
               /\ excused' = (excused \ Kept(t, f)) \cup (IF t.own THEN {} ELSE store.entries \ Kept(t, f))
            \/ UNCHANGED <<store, excused>> /\ thread'.own = t.own
<1> DEFINE n == Cardinality(Kept(t, f))
           kept == [t EXCEPT !.saved = Kept(t, f), !.result = None]
           flushed == [kept EXCEPT !.flushed = n, !.own = TRUE]
<1>1. Shown = progress /\ progress.running /\ progress \in Progress
  BY WhileWorking
<1>2. Kept(t, f) \in SUBSET Find
  BY ThreadFields DEF Kept
<1>3. n \in 0..Cardinality(Find)
  BY <1>2, Bounds
<1>4. /\ kept \in Thread /\ kept.pc = t.pc /\ kept.kind = t.kind /\ kept.save = t.save /\ kept.at = t.at
      /\ kept.start = t.start /\ kept.result = None /\ kept.saved = Kept(t, f) /\ kept.own = t.own
  BY <1>2 DEF Thread
<1> HIDE DEF n
<1>5. /\ flushed \in Thread /\ flushed.pc = t.pc /\ flushed.kind = t.kind /\ flushed.save = t.save /\ flushed.at = t.at
      /\ flushed.start = t.start /\ flushed.result = None /\ flushed.saved = Kept(t, f) /\ flushed.own = TRUE
  <2> HIDE DEF kept
  <2> QED BY <1>3, <1>4 DEF Thread
<1>6. SetProgress(WithCursor(Shown, kept))
  BY DEF Keep
<1>7. \/ thread' = flushed /\ WriteFindings("running", [flushed EXCEPT !.own = t.own])
      \/ thread' = kept /\ UNCHANGED <<store, excused>>
  BY DEF Keep, n
<1> HIDE DEF kept
<1>8. /\ progress' \in Progress /\ persisted' = progress' /\ progress'.running
      /\ progress'.images = t.at /\ progress'.cursor.kind = t.kind
      /\ (IF progress'.cursor.path = 0 THEN progress'.images ELSE progress'.cursor.path) = t.at
  BY <1>1, <1>4, <1>6, Report
<1> HIDE DEF flushed
<1>9. CASE thread' = flushed /\ WriteFindings("running", [flushed EXCEPT !.own = t.own])
  <2> DEFINE u == [flushed EXCEPT !.own = t.own]
  <2>1. u.saved = Kept(t, f) /\ u.kind = t.kind /\ u.save = t.save /\ u.own = t.own
    BY <1>5 DEF Thread
  <2>2. WriteFindings("running", u)
    BY <1>9
  <2> HIDE DEF u
  <2>3. /\ store' = [kind |-> t.kind, save |-> t.save, status |-> "running", entries |-> Kept(t, f)]
        /\ excused' = (excused \ Kept(t, f)) \cup (IF t.own THEN {} ELSE store.entries \ Kept(t, f))
    BY <2>1, <2>2 DEF WriteFindings
  <2>4. store' \in Lists /\ store'.entries = Kept(t, f)
    BY <1>2, <2>3, ThreadFields DEF Lists
  <2> QED BY <1>5, <1>8, <1>9, <2>3, <2>4
<1>10. CASE thread' = kept /\ UNCHANGED <<store, excused>>
  BY <1>4, <1>8, <1>10 DEF SearchIInv, TypeOK
<1> QED BY <1>7, <1>9, <1>10
-----------------------------------------------------------------------------
(* The record the database has is the one that is shown.                     *)
LEMMA ShownIsPersisted == Persisted => Shown = persisted
BY DEF Persisted, Shown

(* Where a search resumes is an image, and AtWork is one.                    *)
LEMMA Positions ==
  ASSUME SearchIInv
  PROVE  ResumePath(Shown) \in 0..Images /\ Shown \in Progress /\ AtWork \in SUBSET (1..Images)
<1>1. Shown \in Progress
  BY DEF SearchIInv, TypeOK, Shown
<1>2. ResumePath(Shown) \in 0..Images
  BY <1>1, ProgressFields DEF ResumePath
<1>3. thread.at \in 0..Images /\ (thread.pc \in {"detect", "faces"} => thread.at > 0)
  BY ThreadFields DEF SearchIInv, TypeOK, ThreadOK
<1>4. AtWork \in SUBSET (1..Images)
  BY <1>3 DEF AtWork
<1> QED BY <1>1, <1>2, <1>4

(* What is stored, or was dealt with, is kept.                               *)
LEMMA StoredIsKept ==
  ASSUME (found \subseteq store.entries \cup Accounted)',
         (thread.save /\ thread.own => store.entries \subseteq thread.saved)'
  PROVE  FoundIInv'
BY DEF FoundIInv, FoundIsKept, InOwnList, InStore, Accounted

(* A step of a reviewer, which writes the list without what it accounts for. *)
LEMMA ReviewedIsKept ==
  ASSUME FoundIInv, UNCHANGED <<thread, found>>, Accounted \subseteq Accounted',
         store.entries \subseteq store'.entries \cup Accounted'
  PROVE  FoundIInv'
BY DEF FoundIInv, FoundIsKept, InOwnList, InStore, Accounted

(* A step of a save-only search that leaves the stored list as it is.        *)
LEMMA ListedIsKept ==
  ASSUME SearchIInv, FoundIInv, thread.save, thread'.save, thread.pc \notin {"none", "begin"},
         thread'.pc \notin {"none", "begin", "return"}, store' = store, thread'.own = thread.own,
         Accounted \subseteq Accounted',
         thread.saved \cup ({thread.result} \ {None}) \subseteq thread'.saved \cup {thread'.result} \cup Accounted',
         found' \subseteq found \cup thread'.saved \cup {thread'.result} \cup Accounted'
  PROVE  FoundIInv'
<1>1. None \notin found
  BY DEF SearchIInv, TypeOK
<1> QED BY <1>1 DEF FoundIInv, FoundIsKept, InOwnList, InStore, Accounted

(* A step of the thread that leaves it at work.                              *)
Reported ==
  /\ progress' \in Progress /\ persisted' = progress' /\ progress'.running
  /\ progress'.images = thread'.at /\ progress'.cursor.kind = thread'.kind
  /\ (IF progress'.cursor.path = 0 THEN progress'.images ELSE progress'.cursor.path) = thread'.at
StillAtWork ==
  /\ thread' \in Thread /\ thread'.pc \notin {"none", "begin"}
  /\ thread'.kind = thread.kind /\ thread'.save = thread.save /\ thread'.start = thread.start
  /\ Reported \/ UNCHANGED <<progress, persisted>>
  /\ store' \in Lists /\ handled' \subseteq Find /\ found' \subseteq Find /\ excused' \subseteq Find
  /\ seen' \subseteq 1..Images /\ cut' \subseteq 1..Images /\ seen \subseteq seen' /\ cut \subseteq cut'
  /\ UNCHANGED <<reviewer, suppressed, raised>>

LEMMA WorkKeepsSearch ==
  ASSUME SearchIInv, thread.pc # "none", StillAtWork, ThreadOK'
  PROVE  SearchIInv'
<1>1. progress \in Progress /\ persisted \in Progress /\ progress.running /\ reviewer.pc # "apply" /\ Persisted
  BY DEF SearchIInv, TypeOK, Apart
<1>2. progress' \in Progress /\ persisted' \in Progress /\ progress'.running /\ Persisted'
  BY <1>1 DEF StillAtWork, Reported, Persisted
<1>3. TypeOK'
  BY <1>2 DEF SearchIInv, TypeOK, StillAtWork
<1>4. Apart' /\ ReviewOK' /\ RunningIsWorked'
  BY <1>1, <1>2 DEF SearchIInv, Apart, ReviewOK, RunningIsWorked, StillAtWork
<1> QED BY <1>2, <1>3, <1>4 DEF SearchIInv

LEMMA WorkKeepsImages ==
  ASSUME SearchIInv, ImagesIInv, SearchIInv', thread.pc # "none", StillAtWork,
         thread.kind \in Missing =>
           /\ AtWork \subseteq seen' \cup cut' \cup AtWork'
           /\ thread'.at = thread.at \/ 1..thread'.at \subseteq seen' \cup cut' \cup AtWork'
  PROVE  ImagesIInv'
<1>1. /\ Shown = progress /\ Shown' = progress' /\ thread'.pc \notin {"none", "begin"}
      /\ thread'.kind = thread.kind /\ thread'.start = thread.start
      /\ seen \subseteq seen' /\ cut \subseteq cut'
  <2>1. Shown = progress
    BY WhileWorking
  <2>2. progress'.running /\ Persisted'
    BY DEF SearchIInv, Apart, StillAtWork
  <2>3. Shown' = progress'
    BY <2>2 DEF Shown, Persisted, Nothing
  <2> QED BY <2>1, <2>3 DEF StillAtWork
<1>2. CursorIsThreads'
  BY <1>1 DEF ImagesIInv, CursorIsThreads, StillAtWork, Reported
<1>3. StartCovers'
  BY <1>1 DEF ImagesIInv, StartCovers
<1>4. CASE thread.kind \notin Missing
  <2>1. CursorCovers' /\ ImagesShown' /\ ImagesCovered'
    BY <1>1, <1>2, <1>4 DEF CursorIsThreads, CursorCovers, ImagesShown, ImagesCovered
  <2> QED BY <1>2, <1>3, <2>1 DEF ImagesIInv
<1>5. CASE thread.kind \in Missing
  <2>1. thread.at \in 0..Images /\ thread'.at \in 0..Images
    BY ThreadFields DEF SearchIInv, TypeOK
  <2>2. 1..thread.at \subseteq seen \cup cut \cup AtWork
    <3>1. CASE thread.pc = "begin"
      BY <3>1 DEF SearchIInv, ThreadOK
    <3>2. CASE thread.pc \in {"detect", "faces"}
      BY <1>5, <2>1, <3>2 DEF ImagesIInv, ImagesCovered, Covered, AtWork
    <3>3. CASE thread.pc \notin {"begin", "detect", "faces"}
      BY <1>5, <3>3 DEF ImagesIInv, ImagesCovered, Covered
    <3> QED BY <3>1, <3>2, <3>3
  <2>3. 1..thread'.at \subseteq seen' \cup cut' \cup AtWork'
    BY <1>1, <1>5, <2>2
  <2>4. ImagesCovered'
    <3>1. CASE thread'.pc \in {"detect", "faces"}
      <4>1. 1..(thread'.at - 1) \subseteq seen' \cup cut'
        BY <2>1, <2>3, <3>1 DEF AtWork
      <4> QED BY <1>1, <3>1, <4>1 DEF ImagesCovered, Covered
    <3>2. CASE thread'.pc \notin {"detect", "faces"}
      BY <1>1, <2>3, <3>2 DEF ImagesCovered, Covered, AtWork
    <3> QED BY <3>1, <3>2
  <2>5. CASE Reported
    <3>1. CursorCovers'
      BY <1>1, <2>3, <2>5 DEF Reported, CursorCovers, ResumePath
    <3>2. ImagesShown'
      BY <2>3, <2>5 DEF Reported, ImagesShown
    <3> QED BY <1>2, <1>3, <2>4, <3>1, <3>2 DEF ImagesIInv
  <2>6. CASE UNCHANGED <<progress, persisted>>
    <3>1. CursorCovers'
      BY <1>1, <1>5, <2>6 DEF ImagesIInv, CursorCovers, ResumePath
    <3>2. ImagesShown'
      BY <1>1, <1>5, <2>6 DEF ImagesIInv, ImagesShown
    <3> QED BY <1>2, <1>3, <2>4, <3>1, <3>2 DEF ImagesIInv
  <2> QED BY <2>5, <2>6 DEF StillAtWork
<1> QED BY <1>4, <1>5

LEMMA WorkKeeps ==
  ASSUME IInv, thread.pc # "none", StillAtWork, ThreadOK', FoundIInv',
         thread.kind \in Missing =>
           /\ AtWork \subseteq seen' \cup cut' \cup AtWork'
           /\ thread'.at = thread.at \/ 1..thread'.at \subseteq seen' \cup cut' \cup AtWork'
  PROVE  IInv'
<1>1. SearchIInv'
  BY WorkKeepsSearch DEF IInv
<1> QED BY <1>1, WorkKeepsImages DEF IInv
-----------------------------------------------------------------------------
(* The actions of the thread.                                                *)
LEMMA LeavingKeeps ==
  ASSUME IInv, thread.pc \notin {"none", "begin"}, thread.save => thread.result = None,
         NEW status \in {"stopped", "failed", "finished"}, Leave(status),
         seen' \subseteq 1..Images, cut' \subseteq 1..Images, seen \subseteq seen', cut \subseteq cut',
         thread.kind \in Missing => AtWork \subseteq seen' \cup cut',
         UNCHANGED <<reviewer, handled, suppressed, found, raised>>
  PROVE  IInv'
<1>1. /\ thread' \in Thread /\ thread'.pc = "return" /\ thread'.own
      /\ thread'.kind = thread.kind /\ thread'.save = thread.save /\ thread'.at = thread.at
      /\ thread'.saved = thread.saved /\ thread'.result = thread.result /\ thread'.start = thread.start
      /\ store' \in Lists /\ Reported
      /\ thread.save => /\ store'.entries = thread.saved
                        /\ excused' = (excused \ thread.saved)
                                        \cup (IF thread.own THEN {} ELSE store.entries \ thread.saved)
      /\ ~thread.save => UNCHANGED <<store, excused>>
  BY LeaveEffect DEF IInv, Reported
<1>2. /\ thread.kind \in Kind /\ thread.save \in BOOLEAN /\ store.entries \subseteq Find
      /\ found \subseteq Find /\ excused \subseteq Find /\ handled \subseteq Find
  BY WhileWorking, ThreadFields DEF IInv, SearchIInv, TypeOK, Lists
<1>3. excused' \subseteq Find
  BY <1>1, <1>2
<1>4. StillAtWork
  BY <1>1, <1>2, <1>3 DEF StillAtWork
<1>5. ThreadOK'
  BY <1>1, <1>2 DEF IInv, SearchIInv, ThreadOK
<1>6. found' \subseteq store'.entries \cup Accounted'
  <2>1. CASE thread.save
    <3>1. None \notin found
      BY <1>2
    <3> QED BY <1>1, <2>1, <3>1 DEF IInv, FoundIInv, FoundIsKept, InOwnList, Accounted
  <2>2. CASE ~thread.save
    BY <1>1, <2>2 DEF IInv, FoundIInv, InStore, Accounted
  <2> QED BY <2>1, <2>2
<1>7. FoundIInv'
  BY <1>1, <1>2, <1>6, StoredIsKept
<1> QED BY <1>1, <1>4, <1>5, <1>7, WorkKeeps

LEMMA BeginKeeps ==
  ASSUME IInv, NEW kind \in Kind, NEW index \in {0, IF thread.resume THEN thread.start.path ELSE 0}, Begin(kind, index),
         kind \notin Missing => index = 0
  PROVE  IInv'
<1> DEFINE t == [thread EXCEPT !.pc = "list", !.saved = SavedEntries(thread), !.at = index,
                               !.skip = @ \cup SavedEntries(thread), !.own = OwnList(thread),
                               !.flushed = Cardinality(SavedEntries(thread))]
<1>1. /\ thread.pc = "begin" /\ thread.kind = kind /\ thread' = t
      /\ SetProgress(WithCursor([Shown EXCEPT !.running = TRUE, !.stop = FALSE], t))
      /\ UNCHANGED <<store, reviewer, handled, suppressed, found, excused, seen, cut, raised>>
  BY DEF Begin
<1>2. /\ Shown \in Progress /\ thread \in Thread /\ store.entries \subseteq Find
      /\ thread.result = None
  BY <1>1, WhileWorking DEF IInv, SearchIInv, TypeOK, Lists, ThreadOK
<1>3. SavedEntries(thread) \in SUBSET Find /\ OwnList(thread) \in BOOLEAN
      /\ Cardinality(SavedEntries(thread)) \in 0..Cardinality(Find)
  BY <1>2, Bounds, ThreadFields DEF SavedEntries, OwnList, IInv, SearchIInv, TypeOK, Lists
<1>4. index \in 0..Images
  BY <1>2, ThreadFields, Bounds
<1>5. /\ t \in Thread /\ t.pc = "list" /\ t.kind = thread.kind /\ t.save = thread.save /\ t.start = thread.start
      /\ t.saved = SavedEntries(thread) /\ t.own = OwnList(thread) /\ t.at = index /\ t.result = None
  BY <1>2, <1>3, <1>4 DEF Thread
<1> HIDE DEF t
<1>6. [Shown EXCEPT !.running = TRUE, !.stop = FALSE] \in Progress
      /\ [Shown EXCEPT !.running = TRUE, !.stop = FALSE].running
  BY <1>2 DEF Progress
<1>7. Reported
  BY <1>1, <1>5, <1>6, Report DEF Reported
<1>8. StillAtWork
  BY <1>1, <1>5, <1>7 DEF StillAtWork, IInv, SearchIInv, TypeOK
<1>9. ThreadOK'
  BY <1>1, <1>5 DEF ThreadOK
<1>10. FoundIInv'
  <2>1. found' \subseteq store'.entries \cup Accounted'
    BY <1>1 DEF IInv, FoundIInv, InStore, Accounted
  <2>2. thread'.own => store'.entries \subseteq thread'.saved
    BY <1>1, <1>5 DEF SavedEntries
  <2> QED BY <2>1, <2>2, StoredIsKept
<1>11. thread.kind \in Missing => 1..thread'.at \subseteq seen' \cup cut' \cup AtWork'
  <2>1. index = 0 \/ index = thread.start.path
    OBVIOUS
  <2>2. CASE index = 0
    BY <1>1, <1>5, <2>2
  <2>3. CASE index = thread.start.path
    BY <1>1, <1>5, <2>3 DEF IInv, ImagesIInv, StartCovers, CursorIsThreads
  <2> QED BY <2>1, <2>2, <2>3
<1>12. AtWork = {}
  BY <1>1 DEF AtWork
<1> QED BY <1>1, <1>8, <1>9, <1>10, <1>11, <1>12, WorkKeeps

(* A step that neither finds nor writes anything.                            *)
LEMMA QuietIsKept ==
  ASSUME SearchIInv, FoundIInv, thread.pc \notin {"none", "begin"}, thread'.pc \notin {"none", "begin", "return"},
         thread'.save = thread.save, thread'.own = thread.own, thread'.saved = thread.saved,
         UNCHANGED <<found, store, suppressed, excused>>, handled \subseteq handled',
         thread.save => thread'.result = thread.result
  PROVE  FoundIInv'
<1>1. Accounted \subseteq Accounted'
  BY DEF Accounted
<1>2. thread.save \in BOOLEAN
  BY ThreadFields DEF SearchIInv, TypeOK
<1>3. CASE thread.save
  BY <1>1, <1>3, ListedIsKept
<1>4. CASE ~thread.save
  <2>1. found' \subseteq store'.entries \cup Accounted'
    BY <1>1, <1>4 DEF FoundIInv, InStore
  <2> QED BY <1>4, <2>1, StoredIsKept
<1> QED BY <1>2, <1>3, <1>4

LEMMA ListKeeps ==
  ASSUME IInv, thread.pc \in {"list", "sources"}, NEW pc \in {"sources", "image"},
         thread' = [thread EXCEPT !.pc = pc],
         pc = "sources" => thread.kind \notin Missing /\ thread.pc = "list",
         UNCHANGED <<progress, persisted, store, excused, reviewer, handled, suppressed, found, seen, cut, raised>>
  PROVE  IInv'
<1>1. thread \in Thread /\ thread.kind \in Kind
  BY WhileWorking DEF IInv
<1>2. /\ thread' \in Thread /\ thread'.pc = pc /\ thread'.kind = thread.kind /\ thread'.save = thread.save
      /\ thread'.start = thread.start /\ thread'.own = thread.own /\ thread'.saved = thread.saved
      /\ thread'.result = thread.result /\ thread'.at = thread.at
  BY <1>1 DEF Thread
<1>3. StillAtWork
  BY <1>2 DEF StillAtWork, IInv, SearchIInv, TypeOK
<1>4. ThreadOK'
  BY <1>2 DEF IInv, SearchIInv, ThreadOK
<1>5. FoundIInv'
  BY <1>2, QuietIsKept DEF IInv
<1>6. AtWork = {}
  BY DEF AtWork
<1> QED BY <1>2, <1>3, <1>4, <1>5, <1>6, WorkKeeps

LEMMA ListingKeeps ==
  ASSUME IInv, Listing
  PROVE  IInv'
<1>1. UNCHANGED <<reviewer, handled, suppressed, starts, reviews, found, seen, cut, raised>>
  BY DEF Listing
<1>2. ASSUME NEW status \in {"stopped", "failed", "finished"}, thread.pc = "list", Leave(status) PROVE IInv'
  <2>1. thread.result = None /\ AtWork = {} /\ seen \subseteq 1..Images /\ cut \subseteq 1..Images
    BY <1>2 DEF IInv, SearchIInv, ThreadOK, AtWork, TypeOK
  <2> QED BY <1>1, <1>2, <2>1, LeavingKeeps
<1>3. ASSUME NEW kind \in Kind, NEW from \in {"list", "sources"}, List(kind, from) PROVE IInv'
  BY <1>1, <1>3, ListKeeps DEF List
<1>4. ASSUME NEW kind \in Kind, Refuse(kind) \/ StopListing(kind) PROVE IInv'
  BY <1>2, <1>4 DEF Refuse, StopListing
<1>5. ASSUME CollectPhotoFaces PROVE IInv'
  BY <1>1, <1>4, <1>5, ListKeeps DEF CollectPhotoFaces, Kind, Missing
<1>6. CASE ListPhotoFaces
  BY <1>3, <1>4, <1>6 DEF ListPhotoFaces, Kind
<1>7. CASE ListFileFaces \/ ListMissingFaces
  BY <1>3, <1>7 DEF ListFileFaces, ListMissingFaces, Kind
<1>8. CASE ListInsightFace
  BY <1>3, <1>4, <1>8 DEF ListInsightFace, Kind
<1>9. CASE RefusePhotoFaces \/ RefuseFileFaces \/ RefuseMissingFaces \/ RefuseInsightFace
  BY <1>4, <1>9 DEF RefusePhotoFaces, RefuseFileFaces, RefuseMissingFaces, RefuseInsightFace, Kind
<1> QED BY <1>5, <1>6, <1>7, <1>8, <1>9 DEF Listing

LEMMA NextImageKeeps ==
  ASSUME IInv, NEW kind \in Kind, NEW pc \in {"faces", "detect"}, NextImage(kind, pc),
         pc = "detect" => kind = "insightface",
         UNCHANGED <<reviewer, handled, suppressed, found, seen, raised>>
  PROVE  IInv'
<1> DEFINE t == [thread EXCEPT !.pc = pc, !.at = @ + 1, !.todo = Candidates(kind, thread.at + 1)]
<1>1. /\ thread.pc = "image" /\ thread.kind = kind /\ thread.at < Images /\ thread' = t
      /\ SetProgress(WithCursor(Shown, t)) /\ UNCHANGED <<store, excused, cut>>
  BY DEF NextImage
<1>2. /\ Shown \in Progress /\ Shown.running /\ thread \in Thread /\ thread.result = None
  BY <1>1, WhileWorking DEF IInv, SearchIInv, ThreadOK
<1>3. thread.at \in Nat /\ thread.at + 1 \in 0..Images /\ thread.at + 1 > 0
  BY <1>1, <1>2, ThreadFields
<1>4. Candidates(kind, thread.at + 1) \in SUBSET Find
  <2>1. FindableOn(kind, thread.at + 1) \in SUBSET Find
    BY DEF FindableOn
  <2> QED BY <2>1, FirstIsMember DEF Candidates
<1>5. /\ t \in Thread /\ t.pc = pc /\ t.kind = thread.kind /\ t.save = thread.save /\ t.start = thread.start
      /\ t.saved = thread.saved /\ t.own = thread.own /\ t.at = thread.at + 1 /\ t.result = None
  BY <1>2, <1>3, <1>4 DEF Thread
<1> HIDE DEF t
<1>6. Reported
  BY <1>1, <1>2, <1>5, Report DEF Reported
<1>7. StillAtWork
  BY <1>1, <1>5, <1>6 DEF StillAtWork, IInv, SearchIInv, TypeOK
<1>8. ThreadOK'
  BY <1>1, <1>3, <1>5 DEF ThreadOK
<1>9. FoundIInv'
  BY <1>1, <1>2, <1>5, QuietIsKept DEF IInv
<1>10. AtWork = {}
  BY <1>1 DEF AtWork
<1>11. thread.kind \in Missing => 1..thread'.at \subseteq seen' \cup cut' \cup AtWork'
  <2>1. AtWork' = {thread.at + 1}
    BY <1>1, <1>5 DEF AtWork
  <2>2. thread.kind \in Missing => 1..thread.at \subseteq seen \cup cut
    BY <1>1 DEF IInv, ImagesIInv, ImagesCovered, Covered
  <2>3. 1..(thread.at + 1) = (1..thread.at) \cup {thread.at + 1}
    BY <1>3
  <2> QED BY <1>1, <1>5, <2>1, <2>2, <2>3
<1> QED BY <1>1, <1>7, <1>8, <1>9, <1>10, <1>11, WorkKeeps

LEMMA WalkingKeeps ==
  ASSUME IInv, Walking
  PROVE  IInv'
<1>1. UNCHANGED <<reviewer, handled, suppressed, starts, trouble, reviews, found, seen, raised>>
  BY DEF Walking
<1>2. /\ seen \subseteq 1..Images /\ cut \subseteq 1..Images /\ AtWork \subseteq 1..Images
  BY Positions DEF IInv, SearchIInv, TypeOK
<1>3. ASSUME NEW status \in {"stopped", "failed", "finished"}, thread.pc \in {"image", "detect"}, Leave(status),
             cut' = cut \cup AtWork
      PROVE  IInv'
  <2>1. thread.result = None
    BY <1>3 DEF IInv, SearchIInv, ThreadOK
  <2> QED BY <1>1, <1>2, <1>3, <2>1, LeavingKeeps
<1>4. ASSUME NEW kind \in Kind, StopWalk(kind) \/ EndWalk(kind) PROVE IInv'
  <2>1. thread.pc = "image" /\ UNCHANGED cut /\ (Leave("stopped") \/ Leave("finished"))
    BY <1>4 DEF StopWalk, EndWalk
  <2>2. AtWork = {}
    BY <2>1 DEF AtWork
  <2> QED BY <1>3, <2>1, <2>2
<1>5. CASE WalkPhotoFaces
  BY <1>1, <1>4, <1>5, NextImageKeeps DEF WalkPhotoFaces, Kind
<1>6. CASE WalkFileFaces
  BY <1>1, <1>4, <1>6, NextImageKeeps DEF WalkFileFaces, Kind
<1>7. CASE WalkMissingFaces
  BY <1>1, <1>4, <1>7, NextImageKeeps DEF WalkMissingFaces, Kind
<1>8. CASE WalkInsightFace
  BY <1>1, <1>4, <1>8, NextImageKeeps DEF WalkInsightFace, Kind
<1>9. CASE EndPhotoFaces \/ EndFileFaces \/ EndMissingFaces \/ EndInsightFace
  BY <1>4, <1>9 DEF EndPhotoFaces, EndFileFaces, EndMissingFaces, EndInsightFace, Kind
<1>10. CASE StopDetection
  <2>1. thread.pc = "detect" /\ Leave("stopped") /\ cut' = cut \cup AtWork
    BY <1>10 DEF StopDetection, AtWork
  <2> QED BY <1>3, <2>1
<1>11. CASE Detected
  <2>1. /\ thread.pc = "detect" /\ thread' = [thread EXCEPT !.pc = "faces"]
        /\ SetProgress(WithCursor(Shown, thread)) /\ UNCHANGED <<store, excused, cut>>
    BY <1>11 DEF Detected
  <2>2. /\ thread \in Thread /\ thread.kind = "insightface" /\ thread.result = None /\ thread.at > 0
        /\ Shown \in Progress /\ Shown.running
    BY <2>1, WhileWorking DEF IInv, SearchIInv, ThreadOK
  <2>3. /\ thread' \in Thread /\ thread'.pc = "faces" /\ thread'.kind = thread.kind /\ thread'.save = thread.save
        /\ thread'.start = thread.start /\ thread'.own = thread.own /\ thread'.saved = thread.saved
        /\ thread'.result = thread.result /\ thread'.at = thread.at
    BY <2>1, <2>2 DEF Thread
  <2>4. Reported
    BY <2>1, <2>2, <2>3, Report DEF Reported
  <2>5. StillAtWork
    BY <1>1, <2>1, <2>3, <2>4 DEF StillAtWork, IInv, SearchIInv, TypeOK
  <2>6. ThreadOK'
    BY <2>2, <2>3 DEF ThreadOK, Kind
  <2>7. FoundIInv'
    BY <1>1, <2>1, <2>3, QuietIsKept DEF IInv
  <2>8. AtWork' = AtWork
    BY <2>1, <2>3 DEF AtWork
  <2> QED BY <2>1, <2>3, <2>5, <2>6, <2>7, <2>8, WorkKeeps
<1> QED BY <1>5, <1>6, <1>7, <1>8, <1>9, <1>10, <1>11 DEF Walking, DetectInsightFace

(* The thread with another face looked at.                                   *)
Same(t) ==
  /\ t \in Thread /\ t.kind = thread.kind /\ t.save = thread.save /\ t.start = thread.start
  /\ t.own = thread.own /\ t.saved = thread.saved /\ t.at = thread.at

LEMMA KeepKeeps ==
  ASSUME IInv, thread.pc = "faces", NEW t, Same(t), t.pc \in {"faces", "image"}, thread.save,
         NEW f \in Find, thread.result \in {None, f}, Keep(t, f),
         found' \subseteq found \cup {f}, seen' \subseteq 1..Images, seen \subseteq seen',
         thread.kind \in Missing => thread.at \in seen',
         UNCHANGED <<reviewer, handled, suppressed, cut, raised>>
  PROVE  IInv'
<1>1. /\ thread' \in Thread /\ thread'.pc = t.pc /\ thread'.kind = t.kind /\ thread'.save = t.save
      /\ thread'.at = t.at /\ thread'.start = t.start /\ thread'.result = None
      /\ thread'.saved = Kept(t, f) /\ store' \in Lists /\ Reported
      /\ \/ /\ store'.entries = Kept(t, f) /\ thread'.own
            /\ excused' = (excused \ Kept(t, f)) \cup (IF t.own THEN {} ELSE store.entries \ Kept(t, f))
         \/ UNCHANGED <<store, excused>> /\ thread'.own = t.own
  BY KeepEffect DEF IInv, Same, Reported
<1>2. /\ thread.kind \in Kind /\ store.entries \subseteq Find /\ thread.at > 0
      /\ found \subseteq Find /\ excused \subseteq Find /\ handled \subseteq Find
  BY WhileWorking DEF IInv, SearchIInv, TypeOK, Lists, ThreadOK
<1>3. excused' \subseteq Find /\ found' \subseteq Find
  BY <1>1, <1>2
<1>4. StillAtWork
  BY <1>1, <1>2, <1>3 DEF StillAtWork, Same, IInv, SearchIInv, TypeOK
<1>5. ThreadOK'
  BY <1>1, <1>2 DEF Same, ThreadOK, IInv, SearchIInv
<1>6. thread.saved \subseteq Kept(t, f) /\ f \in Kept(t, f) \cup suppressed
  BY DEF Kept, Same
<1>7. None \notin found /\ None # f
  BY <1>2
<1>8. FoundIInv'
  <2>1. CASE store'.entries = Kept(t, f) /\ thread'.own
             /\ excused' = (excused \ Kept(t, f)) \cup (IF t.own THEN {} ELSE store.entries \ Kept(t, f))
    <3>1. found' \subseteq store'.entries \cup Accounted'
      BY <1>6, <1>7, <2>1 DEF Same, IInv, FoundIInv, FoundIsKept, InOwnList, Accounted
    <3> QED BY <1>1, <2>1, <3>1, StoredIsKept
  <2>2. CASE UNCHANGED <<store, excused>> /\ thread'.own = t.own
    <3>1. Accounted' = Accounted
      BY <2>2 DEF Accounted
    <3>2. suppressed \subseteq Accounted'
      BY <3>1 DEF Accounted
    <3>3. thread.saved \cup ({thread.result} \ {None}) \subseteq thread'.saved \cup {thread'.result} \cup Accounted'
      BY <1>1, <1>6, <3>2
    <3>4. found' \subseteq found \cup thread'.saved \cup {thread'.result} \cup Accounted'
      BY <1>1, <1>6, <3>2
    <3>5. thread'.save /\ thread'.pc \notin {"none", "begin", "return"} /\ thread'.own = thread.own
      BY <1>1, <2>2 DEF Same
    <3> QED BY <2>2, <3>1, <3>3, <3>4, <3>5, ListedIsKept DEF IInv
  <2> QED BY <1>1, <2>1, <2>2
<1>9. thread.kind \in Missing => AtWork \subseteq seen'
  BY DEF AtWork
<1> QED BY <1>1, <1>4, <1>5, <1>8, <1>9, WorkKeeps DEF Same

(* An image or a face that is done with, whether or not it was dealt with.   *)
LEMMA PassingKeeps ==
  ASSUME IInv, thread.pc = "faces", Same(thread'), thread'.pc \in {"faces", "image"},
         thread.save => thread'.result = thread.result,
         thread.kind # "photo_faces" \/ thread'.pc = "image" => thread'.result = None,
         UNCHANGED <<progress, persisted>> \/ Reported,
         handled \subseteq handled', handled' \subseteq Find,
         seen' \subseteq 1..Images, seen \subseteq seen', thread.kind \in Missing => thread.at \in seen',
         UNCHANGED <<store, excused, found, reviewer, suppressed, cut, raised>>
  PROVE  IInv'
<1>1. thread.kind \in Kind /\ thread.at > 0
  BY WhileWorking DEF IInv, SearchIInv, ThreadOK
<1>2. StillAtWork
  BY DEF StillAtWork, Same, IInv, SearchIInv, TypeOK
<1>3. ThreadOK'
  BY <1>1 DEF ThreadOK, Same, IInv, SearchIInv
<1>4. FoundIInv'
  BY QuietIsKept DEF IInv, Same
<1>5. thread.kind \in Missing => AtWork \subseteq seen'
  BY DEF AtWork
<1> QED BY <1>2, <1>3, <1>4, <1>5, WorkKeeps DEF Same

LEMMA SettleKeeps ==
  ASSUME IInv, thread.pc = "faces", thread.kind # "photo_faces",
         NEW t, Same(t), t.pc \in {"faces", "image"}, t.result = thread.result,
         NEW f \in Find, NEW byItself, Settle(t, f, byItself),
         seen' \subseteq 1..Images, seen \subseteq seen', thread.kind \in Missing => thread.at \in seen',
         UNCHANGED <<reviewer, suppressed, cut, raised>>
  PROVE  IInv'
<1>1. /\ Shown \in Progress /\ Shown.running /\ thread.result = None /\ handled \subseteq Find
      /\ seen \subseteq 1..Images /\ cut \subseteq 1..Images
  BY WhileWorking DEF IInv, SearchIInv, ThreadOK, TypeOK
<1>2. CASE AssignTarget(t, f)
  <2> DEFINE u == [t EXCEPT !.skip = @ \cup {f}]
  <2>1. /\ thread' = u /\ SetProgress(WithCursor(Shown, u)) /\ handled' = handled \cup {f}
        /\ UNCHANGED <<store, excused, found>>
    BY <1>2 DEF AssignTarget
  <2>2. Same(u) /\ u \in Thread /\ u.pc = t.pc /\ u.result = t.result
    BY DEF Same, Thread
  <2> HIDE DEF u
  <2>3. Reported
    BY <1>1, <2>1, <2>2, Report DEF Reported
  <2> QED BY <1>1, <2>1, <2>2, <2>3, PassingKeeps
<1>3. CASE t.save /\ Keep([t EXCEPT !.skip = @ \cup {f}], f) /\ Match(f) /\ UNCHANGED handled
  <2> DEFINE u == [t EXCEPT !.skip = @ \cup {f}]
  <2>1. Same(u) /\ u.pc = t.pc
    BY DEF Same, Thread
  <2>2. Keep(u, f)
    BY <1>3
  <2> HIDE DEF u
  <2>3. thread.save /\ found' = found \cup {f}
    BY <1>3 DEF Same, Match
  <2> QED BY <1>1, <1>3, <2>1, <2>2, <2>3, KeepKeeps
<1>4. CASE ~t.save /\ f \in suppressed /\ thread' = t
           /\ UNCHANGED <<progress, persisted, store, excused, found, handled>>
  BY <1>1, <1>4, PassingKeeps
<1>5. CASE ~t.save /\ f \notin suppressed /\ Leave("finished") /\ UNCHANGED <<found, handled>>
  <2>1. thread.kind \in Missing => AtWork \subseteq seen' \cup cut'
    BY DEF AtWork
  <2> QED BY <1>1, <1>5, <2>1, LeavingKeeps
<1> QED BY <1>2, <1>3, <1>4, <1>5 DEF Settle

LEMMA LookedIsSame ==
  ASSUME SearchIInv, thread.pc = "faces", thread.todo # {}
  PROVE  /\ FirstOf(thread.todo) \in Find
         /\ Same(Looked) /\ Looked.pc = "faces" /\ Looked.result = thread.result
         /\ Same(LookedAt) /\ LookedAt.pc = "faces" /\ LookedAt.result = thread.result
<1>1. thread \in Thread /\ thread.todo \in SUBSET Find
  BY ThreadFields DEF SearchIInv, TypeOK
<1>2. FirstOf(thread.todo) \in Find
  BY <1>1, FirstIsMember
<1>3. Same(Looked) /\ Looked.pc = "faces" /\ Looked.result = thread.result /\ Looked.skip \in SUBSET Find
  BY <1>1 DEF Looked, Same, Thread
<1> DEFINE t == Looked
<1>4. LookedAt = [t EXCEPT !.skip = @ \cup {FaceAt}] /\ FaceAt \in Find
  BY <1>2 DEF LookedAt, FaceAt
<1>5. Same(t) /\ t.pc = "faces" /\ t.result = thread.result /\ t.skip \in SUBSET Find
  BY <1>3
<1> HIDE DEF t
<1>6. Same(LookedAt) /\ LookedAt.pc = "faces" /\ LookedAt.result = thread.result
  BY <1>4, <1>5 DEF Same, Thread
<1> QED BY <1>2, <1>3, <1>6

LEMMA MatchFaceKeeps ==
  ASSUME IInv, PhotoFace, MatchFace,
         UNCHANGED <<reviewer, suppressed, starts, trouble, reviews, cut, raised>>
  PROVE  IInv'
<1>1. /\ thread.pc = "faces" /\ thread.kind = "photo_faces" /\ thread.todo # {} /\ UNCHANGED <<store, seen>>
      /\ thread' = [LookedAt EXCEPT !.result = FaceAt] /\ Match(FaceAt)
      /\ excused' = excused \cup (IF thread.save THEN {thread.result} \ {None} ELSE {})
      /\ SetProgress(WithCursor(Shown, LookedAt)) /\ UNCHANGED handled
  BY DEF PhotoFace, Looking, MatchFace
<1>2. Same(LookedAt) /\ LookedAt.pc = "faces" /\ FaceAt \in Find
  BY <1>1, LookedIsSame DEF IInv, FaceAt
<1>3. Same(thread') /\ thread'.pc = "faces" /\ thread'.result = FaceAt
  <2> DEFINE t == LookedAt
  <2>1. thread' = [t EXCEPT !.result = FaceAt] /\ Same(t) /\ t.pc = "faces"
    BY <1>1, <1>2
  <2> HIDE DEF t
  <2> QED BY <1>2, <2>1 DEF Same, Thread
<1>4. /\ Shown \in Progress /\ Shown.running /\ thread.at > 0 /\ thread.kind \in Kind
      /\ found \subseteq Find /\ excused \subseteq Find /\ thread.result \in Find \cup {None}
  BY <1>1, WhileWorking, ThreadFields DEF IInv, SearchIInv, ThreadOK, TypeOK
<1>5. Reported
  BY <1>1, <1>2, <1>3, <1>4, Report DEF Reported, Same
<1>6. found' \subseteq found \cup {FaceAt} /\ (~thread.save => found' = found)
  BY <1>1 DEF Match
<1>7. StillAtWork
  BY <1>1, <1>2, <1>3, <1>4, <1>5, <1>6 DEF StillAtWork, Same, IInv, SearchIInv, TypeOK
<1>8. ThreadOK'
  BY <1>1, <1>3, <1>4 DEF ThreadOK, Same, Kind
<1>9. Accounted \subseteq Accounted' /\ (thread.save => {thread.result} \ {None} \subseteq Accounted')
  BY <1>1 DEF Accounted
<1>10. FoundIInv'
  <2>1. CASE thread.save
    BY <1>1, <1>3, <1>6, <1>9, <2>1, ListedIsKept DEF IInv, Same
  <2>2. CASE ~thread.save
    <3>1. found' \subseteq store'.entries \cup Accounted'
      BY <1>1, <1>6, <1>9, <2>2 DEF IInv, FoundIInv, InStore
    <3> QED BY <1>3, <2>2, <3>1, StoredIsKept DEF Same
  <2> QED BY <2>1, <2>2
<1>11. thread.kind \notin Missing
  BY <1>1 DEF Missing
<1> QED BY <1>1, <1>7, <1>8, <1>10, <1>11, WorkKeeps

LEMMA StopPhotoFacesKeeps ==
  ASSUME IInv, StopPhotoFaces,
         UNCHANGED <<reviewer, suppressed, starts, trouble, reviews, cut, raised>>
  PROVE  IInv'
<1>1. /\ thread.pc = "faces" /\ thread.kind = "photo_faces"
      /\ thread' = [thread EXCEPT !.pc = "return", !.own = TRUE, !.result = None]
      /\ SetProgress(WithCursor([Shown EXCEPT !.stop = FALSE], thread))
      /\ UNCHANGED <<handled, found, seen>>
  BY DEF StopPhotoFaces, Looking
<1>2. /\ Shown \in Progress /\ Shown.running /\ thread \in Thread /\ store \in Lists
      /\ found \subseteq Find /\ excused \subseteq Find
      /\ thread.result \in Find \cup {None} /\ thread.saved \in SUBSET Find /\ store.entries \in SUBSET Find
      /\ thread.save \in BOOLEAN
  BY <1>1, WhileWorking, ThreadFields DEF IInv, SearchIInv, TypeOK, Lists
<1>3. Same([thread' EXCEPT !.own = thread.own]) /\ thread' \in Thread /\ thread'.pc = "return" /\ thread'.result = None
      /\ thread'.kind = thread.kind /\ thread'.save = thread.save /\ thread'.start = thread.start
      /\ thread'.saved = thread.saved /\ thread'.at = thread.at
  BY <1>1, <1>2 DEF Same, Thread
<1>4. [Shown EXCEPT !.stop = FALSE] \in Progress /\ [Shown EXCEPT !.stop = FALSE].running
  BY <1>2 DEF Progress
<1>5. Reported
  BY <1>1, <1>2, <1>3, <1>4, Report DEF Reported
<1>6. /\ store' \in Lists /\ excused' \subseteq Find /\ Accounted \subseteq Accounted'
      /\ thread.save => /\ store'.entries = thread.saved
                        /\ {thread.result} \ {None} \subseteq Accounted'
                        /\ ~thread.own => store.entries \ thread.saved \subseteq Accounted'
      /\ ~thread.save => store' = store
  <2>1. CASE thread.save
    <3>1. /\ store' = [kind |-> thread.kind, save |-> TRUE, status |-> "stopped", entries |-> thread.saved]
          /\ excused' = excused \cup ({thread.result} \ {None})
                                \cup (IF thread.own THEN {} ELSE store.entries \ thread.saved)
      BY <2>1 DEF StopPhotoFaces
    <3>2. store' \in Lists /\ store'.entries = thread.saved
      BY <1>2, <3>1, ThreadFields DEF Lists
    <3>3. Accounted' = Accounted \cup excused'
      BY <1>1, <3>1 DEF Accounted
    <3> QED BY <1>2, <2>1, <3>1, <3>2, <3>3
  <2>2. CASE ~thread.save
    <3>1. UNCHANGED <<store, excused>>
      BY <2>2 DEF StopPhotoFaces
    <3> QED BY <1>1, <1>2, <2>2, <3>1 DEF Accounted
  <2> QED BY <2>1, <2>2
<1>7. StillAtWork
  BY <1>1, <1>3, <1>5, <1>6 DEF StillAtWork, IInv, SearchIInv, TypeOK
<1>8. ThreadOK'
  BY <1>1, <1>3 DEF ThreadOK, Kind
<1>9. found' \subseteq store'.entries \cup Accounted'
  <2>1. CASE thread.save
    BY <1>1, <1>2, <1>6, <2>1 DEF IInv, FoundIInv, FoundIsKept, InOwnList, Accounted
  <2>2. CASE ~thread.save
    BY <1>1, <1>6, <2>2 DEF IInv, FoundIInv, InStore
  <2> QED BY <2>1, <2>2
<1>10. FoundIInv'
  BY <1>3, <1>6, <1>9, StoredIsKept
<1>11. thread.kind \notin Missing
  BY <1>1 DEF Missing
<1> QED BY <1>1, <1>7, <1>8, <1>10, <1>11, WorkKeeps

LEMMA ExaminingKeeps ==
  ASSUME IInv, Examining
  PROVE  IInv'
<1>1. UNCHANGED <<reviewer, suppressed, starts, trouble, reviews, cut, raised>>
  BY DEF Examining
<1>2. /\ thread \in Thread /\ seen \subseteq 1..Images /\ handled \subseteq Find /\ Shown \in Progress
      /\ thread.pc \in {"detect", "faces"} => {thread.at} \subseteq 1..Images
  BY Positions DEF IInv, SearchIInv, TypeOK, AtWork
<1>3. thread.kind # "photo_faces" /\ thread.pc = "faces" => thread.result = None
  BY DEF IInv, SearchIInv, ThreadOK
<1>4. ASSUME NEW kind \in Kind, ImageDone(kind) PROVE IInv'
  <2>1. /\ thread.pc = "faces" /\ thread.result = None /\ thread' = [thread EXCEPT !.pc = "image"]
        /\ seen' = seen \cup {thread.at} /\ UNCHANGED <<progress, persisted, store, excused, handled, found>>
    BY <1>4 DEF ImageDone, Looking
  <2>2. Same(thread') /\ thread'.pc = "image" /\ thread'.result = None
    BY <1>2, <2>1 DEF Same, Thread
  <2> QED BY <1>1, <1>2, <2>1, <2>2, PassingKeeps
<1>5. CASE PhotoFace
  <2>1. thread.pc = "faces" /\ thread.kind = "photo_faces" /\ thread.todo # {} /\ UNCHANGED <<store, seen>>
    BY <1>5 DEF PhotoFace, Looking
  <2>2. thread.kind \notin Missing
    BY <2>1 DEF Missing
  <2>3. CASE PassFace
    <3>1. Same(thread') /\ thread'.pc = "faces" /\ thread'.result = thread.result
      BY <2>1, <2>3, LookedIsSame DEF PassFace, IInv
    <3> QED BY <1>1, <1>2, <2>1, <2>2, <2>3, <3>1, PassingKeeps DEF PassFace
  <2>4. CASE AssignFace
    <3>1. Same(thread') /\ thread'.pc = "faces" /\ thread'.result = thread.result /\ FaceAt \in Find
      BY <2>1, <2>4, LookedIsSame DEF AssignFace, IInv, FaceAt
    <3>2. SetProgress(WithCursor(Shown, thread')) /\ handled' = handled \cup {FaceAt} /\ UNCHANGED <<found, excused>>
      BY <2>4 DEF AssignFace
    <3>3. Shown \in Progress /\ Shown.running
      BY <2>1, WhileWorking DEF IInv
    <3>4. Reported
      BY <3>1, <3>2, <3>3, Report DEF Reported, Same
    <3> QED BY <1>1, <1>2, <2>1, <2>2, <3>1, <3>2, <3>4, PassingKeeps
  <2>5. CASE MatchFace
    BY <1>1, <1>5, <2>5, MatchFaceKeeps
  <2> QED BY <1>5, <2>3, <2>4, <2>5 DEF PhotoFace
<1>6. CASE StopPhotoFaces
  BY <1>1, <1>6, StopPhotoFacesKeeps
<1>7. CASE PhotoResult
  <2>1. /\ thread.pc = "faces" /\ thread.kind = "photo_faces" /\ thread.result # None
        /\ seen' = seen \cup {thread.at} /\ UNCHANGED <<handled, found>>
    BY <1>7 DEF PhotoResult, Looking
  <2>2. thread.kind \notin Missing /\ thread.result \in Find
    BY <1>2, <2>1, ThreadFields DEF Missing
  <2>3. CASE thread.save /\ Keep([thread EXCEPT !.pc = "image"], thread.result)
    <3> DEFINE t == [thread EXCEPT !.pc = "image"]
    <3>1. Same(t) /\ t.pc = "image"
      BY <1>2 DEF Same, Thread
    <3> HIDE DEF t
    <3>2. Keep(t, thread.result)
      BY <2>3 DEF t
    <3> QED BY <1>1, <1>2, <2>1, <2>2, <2>3, <3>1, <3>2, KeepKeeps
  <2>4. CASE /\ ~thread.save /\ thread' = [thread EXCEPT !.pc = "image", !.result = None]
             /\ UNCHANGED <<progress, persisted, store, excused>>
    <3>1. Same(thread') /\ thread'.pc = "image" /\ thread'.result = None
      BY <1>2, <2>4 DEF Same, Thread
    <3> QED BY <1>1, <1>2, <2>1, <2>2, <2>4, <3>1, PassingKeeps
  <2>5. CASE ~thread.save /\ Leave("finished")
    BY <1>1, <1>2, <2>1, <2>2, <2>5, LeavingKeeps DEF IInv, SearchIInv, TypeOK
  <2> QED BY <1>7, <2>3, <2>4, <2>5 DEF PhotoResult
<1>8. CASE FileFace
  <2> DEFINE f == FirstOf(thread.todo)
  <2>1. thread.pc = "faces" /\ thread.kind = "file_faces" /\ thread.todo # {} /\ UNCHANGED seen
    BY <1>8 DEF FileFace, Looking
  <2>2. thread.kind \notin Missing
    BY <2>1 DEF Missing
  <2>3. f \in Find /\ Same(Looked) /\ Looked.pc = "faces" /\ Looked.result = thread.result
    BY <2>1, LookedIsSame DEF IInv
  <2>4. \/ thread' = Looked /\ UNCHANGED <<progress, persisted, store, excused, found, handled>>
        \/ Settle(Looked, f, TRUE)
    BY <1>8 DEF FileFace
  <2> HIDE DEF f
  <2>5. CASE thread' = Looked /\ UNCHANGED <<progress, persisted, store, excused, found, handled>>
    BY <1>1, <1>2, <1>3, <2>1, <2>2, <2>3, <2>5, PassingKeeps
  <2>6. CASE Settle(Looked, f, TRUE)
    BY <1>1, <1>2, <2>1, <2>2, <2>3, <2>6, SettleKeeps
  <2> QED BY <2>4, <2>5, <2>6
<1>9. ASSUME NEW kind \in Missing, MissingFace(kind) PROVE IInv'
  <2> DEFINE f == FirstOf(thread.todo)
             t == [Looked EXCEPT !.pc = "image"]
  <2>1. thread.pc = "faces" /\ thread.kind = kind /\ thread.todo # {} /\ seen' = seen \cup {thread.at}
    BY <1>9 DEF MissingFace, Looking
  <2>2. thread.kind # "photo_faces"
    BY <2>1 DEF Missing
  <2>3. f \in Find /\ Same(Looked) /\ Looked.result = thread.result
    BY <2>1, LookedIsSame DEF IInv
  <2>4. Same(t) /\ t.pc = "image" /\ t.result = thread.result
    BY <2>3 DEF Same, Thread
  <2>5. \/ thread' = t /\ UNCHANGED <<progress, persisted, store, excused, found, handled>>
        \/ Settle(t, f, f \in Known)
    BY <1>9 DEF MissingFace
  <2> HIDE DEF f, t
  <2>6. CASE thread' = t /\ UNCHANGED <<progress, persisted, store, excused, found, handled>>
    BY <1>1, <1>2, <1>3, <2>1, <2>2, <2>4, <2>6, PassingKeeps
  <2>7. CASE Settle(t, f, f \in Known)
    BY <1>1, <1>2, <2>1, <2>2, <2>3, <2>4, <2>7, SettleKeeps
  <2> QED BY <2>5, <2>6, <2>7
<1>10. CASE PassUnknown
  <2>1. PICK f \in Unrecognized :
          LET t == [Looked EXCEPT !.pc = "image", !.skip = @ \cup {f}]
          IN  thread' = t /\ SetProgress(WithCursor(Shown, t))
    BY <1>10 DEF PassUnknown
  <2>2. /\ thread.pc = "faces" /\ thread.kind = "insightface" /\ seen' = seen \cup {thread.at}
        /\ UNCHANGED <<store, excused, found, handled>>
    BY <1>10 DEF PassUnknown, Looking
  <2>3. f \in thread.todo /\ thread.todo \in SUBSET Find
    BY <1>2, ThreadFields DEF Unrecognized
  <2>4. f \in Find /\ Same(Looked) /\ Looked.result = thread.result
    BY <2>2, <2>3, LookedIsSame DEF IInv
  <2>5. Same(thread') /\ thread'.pc = "image" /\ thread'.result = thread.result
    BY <2>1, <2>4 DEF Same, Thread
  <2>6. Shown \in Progress /\ Shown.running
    BY <2>2, WhileWorking DEF IInv
  <2>7. Reported
    BY <2>1, <2>5, <2>6, Report DEF Reported, Same
  <2> QED BY <1>1, <1>2, <1>3, <2>2, <2>5, <2>7, PassingKeeps
<1> QED BY <1>4, <1>5, <1>6, <1>7, <1>8, <1>9, <1>10 DEF Examining, NamedFace, RecognizedFace, Missing

LEMMA RaiseKeeps ==
  ASSUME IInv, Raise
  PROVE  IInv'
<1>1. /\ thread.pc \notin {"none", "return", "error", "login"}
      /\ cut' = cut \cup AtWork
      /\ UNCHANGED <<store, reviewer, handled, suppressed, found, excused, seen, raised>>
  BY DEF Raise, BrokenOff, AtWork
<1>2. PICK pc \in {"error", "login"} : thread' = [thread EXCEPT !.pc = pc]
  BY DEF Raise
<1>3. /\ Shown \in Progress /\ Shown.running /\ thread \in Thread /\ thread.kind \in Kind
      /\ AtWork \subseteq 1..Images
  BY <1>1, WhileWorking, Positions DEF IInv
<1>4. /\ thread' \in Thread /\ thread'.pc = pc /\ thread'.kind = thread.kind /\ thread'.save = thread.save
      /\ thread'.start = thread.start /\ thread'.own = thread.own /\ thread'.saved = thread.saved
      /\ thread'.result = thread.result /\ thread'.at = thread.at
  BY <1>2, <1>3 DEF Thread
<1>5. Reported \/ UNCHANGED <<progress, persisted>>
  <2>1. CASE thread.pc = "begin"
    BY <2>1 DEF Raise
  <2>2. CASE thread.pc # "begin"
    <3>1. SetProgress(WithCursor([Shown EXCEPT !.stop = FALSE], thread))
      BY <2>2 DEF Raise
    <3>2. [Shown EXCEPT !.stop = FALSE] \in Progress /\ [Shown EXCEPT !.stop = FALSE].running
      BY <1>3 DEF Progress
    <3> QED BY <1>3, <1>4, <3>1, <3>2, Report DEF Reported
  <2> QED BY <2>1, <2>2
<1>6. StillAtWork
  BY <1>1, <1>3, <1>4, <1>5 DEF StillAtWork, IInv, SearchIInv, TypeOK
<1>7. ThreadOK'
  BY <1>3, <1>4 DEF ThreadOK, IInv, SearchIInv
<1>8. FoundIInv'
  <2>1. CASE thread.pc = "begin"
    <3>1. found' \subseteq store'.entries \cup Accounted'
      BY <1>1, <2>1 DEF IInv, FoundIInv, InStore, Accounted
    <3>2. ~thread'.own
      BY <1>4, <2>1 DEF IInv, SearchIInv, ThreadOK
    <3> QED BY <3>1, <3>2, StoredIsKept
  <2>2. CASE thread.pc # "begin"
    BY <1>1, <1>4, <2>2, QuietIsKept DEF IInv
  <2> QED BY <2>1, <2>2
<1> QED BY <1>1, <1>4, <1>6, <1>7, <1>8, WorkKeeps

LEMMA DetectorGoneKeeps ==
  ASSUME IInv, DetectorGone
  PROVE  IInv'
<1>1. /\ thread.pc = "detect" /\ Leave("failed") /\ cut' = cut \cup AtWork
      /\ UNCHANGED <<reviewer, handled, suppressed, found, seen, raised>>
  BY DEF DetectorGone, BrokenOff, AtWork
<1>2. AtWork \subseteq 1..Images /\ thread.result = None /\ seen \subseteq 1..Images /\ cut \subseteq 1..Images
  BY <1>1, Positions DEF IInv, SearchIInv, ThreadOK, TypeOK
<1> QED BY <1>1, <1>2, LeavingKeeps

(* The thread ends.                                                          *)
LEMMA EndKeeps ==
  ASSUME IInv, thread' = NoThread, reviewer' \in {reviewer, Resting}, UNCHANGED <<handled, suppressed, seen, found>>,
         progress' \in Progress, persisted' \in Progress, Persisted',
         ~progress'.running, reviewer'.pc # "apply",
         store' \in Lists, excused' \subseteq Find, cut' \subseteq 1..Images, raised' \in BOOLEAN,
         found \subseteq store'.entries \cup Accounted',
         Shown'.cursor.kind \in Missing => 1..ResumePath(Shown)' \subseteq seen \cup cut'
  PROVE  IInv'
<1>1. TypeOK'
  BY ConstantTypes DEF IInv, SearchIInv, TypeOK
<1>2. /\ thread'.pc = "none" /\ ~thread'.save /\ thread'.at = 0 /\ thread'.result = None
      /\ ~thread'.own /\ AtWork' = {}
  BY DEF NoThread, AtWork
<1>3. ThreadOK' /\ Apart' /\ RunningIsWorked'
  BY <1>2 DEF ThreadOK, Apart, RunningIsWorked
<1>4. ReviewOK'
  BY DEF ReviewOK, IInv, SearchIInv, Resting
<1>5. SearchIInv'
  BY <1>1, <1>3, <1>4 DEF SearchIInv
<1>6. FoundIInv'
  BY <1>2, StoredIsKept
<1>7. ImagesCovered'
  <2>1. 1..0 = {}
    OBVIOUS
  <2> QED BY <1>2, <2>1 DEF ImagesCovered, Covered
<1>8. CursorCovers' /\ StartCovers' /\ CursorIsThreads' /\ ImagesShown'
  BY <1>2 DEF CursorCovers, StartCovers, CursorIsThreads, ImagesShown
<1> QED BY <1>5, <1>6, <1>7, <1>8 DEF IInv, ImagesIInv

LEMMA ReturnKeeps ==
  ASSUME IInv, Return
  PROVE  IInv'
<1>1. /\ thread.pc = "return" /\ thread' = NoThread
      /\ SetProgress([Shown EXCEPT !.running = FALSE, !.stop = FALSE])
      /\ UNCHANGED <<store, reviewer, handled, suppressed, found, excused, seen, cut, raised>>
  BY DEF Return
<1>2. Shown \in Progress
  BY Positions DEF IInv
<1>3. /\ progress' \in Progress /\ persisted' = progress' /\ ~progress'.running
      /\ progress'.cursor = Shown.cursor /\ progress'.images = Shown.images
  BY <1>1, <1>2 DEF SetProgress, Progress
<1>4. Persisted' /\ Shown' = progress'
  BY <1>3 DEF Persisted, Shown
<1>5. found \subseteq store'.entries \cup Accounted'
  BY <1>1 DEF IInv, FoundIInv, InStore, Accounted
<1>6. Shown'.cursor.kind \in Missing => 1..ResumePath(Shown)' \subseteq seen \cup cut'
  BY <1>1, <1>3, <1>4 DEF IInv, ImagesIInv, CursorCovers, ResumePath, AtWork
<1>7. reviewer.pc # "apply"
  BY <1>1, WhileWorking DEF IInv
<1> QED BY <1>1, <1>3, <1>4, <1>5, <1>6, <1>7, EndKeeps DEF IInv, SearchIInv, TypeOK

(* What the end of a thread has not written is accounted for.                *)
LEMMA UnwrittenIsKept ==
  ASSUME SearchIInv, FoundIInv, UNCHANGED <<handled, suppressed>>, store'.entries = store.entries,
         excused' = IF thread.save THEN excused \cup Unwritten ELSE excused
  PROVE  found \subseteq store'.entries \cup Accounted' /\ excused' \subseteq Find
<1>1. /\ thread.save \in BOOLEAN /\ thread.saved \subseteq Find /\ thread.result \in Find \cup {None}
      /\ excused \subseteq Find /\ found \subseteq Find
  BY ThreadFields DEF SearchIInv, TypeOK
<1>2. CASE thread.save
  <2>1. excused' = excused \cup Unwritten /\ Unwritten \subseteq Find
    BY <1>1, <1>2 DEF Unwritten
  <2>2. found \subseteq store'.entries \cup Accounted'
    BY <1>1, <2>1 DEF FoundIInv, FoundIsKept, Accounted, Unwritten
  <2> QED BY <1>1, <2>1, <2>2
<1>3. CASE ~thread.save
  BY <1>1, <1>3 DEF FoundIInv, InStore, Accounted
<1> QED BY <1>1, <1>2, <1>3

LEMMA HandleErrorKeeps ==
  ASSUME IInv, HandleError
  PROVE  IInv'
<1>1. /\ thread.pc \in {"error", "login"} /\ thread' = NoThread /\ SetProgress(Failure(Shown))
      /\ UNCHANGED <<reviewer, handled, suppressed, found, seen, cut, raised>>
  BY DEF HandleError
<1>2. /\ Shown = progress /\ Shown \in Progress /\ thread \in Thread /\ reviewer.pc # "apply"
      /\ thread.kind \in Kind /\ thread.start \in Cursor /\ thread.save \in BOOLEAN
  BY <1>1, WhileWorking, ThreadFields DEF IInv
<1>3. /\ progress' \in Progress /\ persisted' = progress' /\ ~progress'.running
      /\ progress'.images = Shown.images
      /\ progress'.cursor = IF thread.pc = "login" THEN thread.start ELSE Shown.cursor
  BY <1>1, <1>2 DEF SetProgress, Failure, Progress
<1>4. Persisted' /\ Shown' = progress'
  BY <1>3 DEF Persisted, Shown
<1>5. /\ store' \in Lists /\ store'.entries = store.entries
      /\ excused' = IF thread.save THEN excused \cup Unwritten ELSE excused
  <2>1. store \in Lists /\ store.entries \in SUBSET Find
    BY DEF IInv, SearchIInv, TypeOK, Lists
  <2>2. CASE thread.save
    <3>1. store' = [kind |-> thread.kind, save |-> TRUE, status |-> "failed", entries |-> store.entries]
      BY <2>2 DEF HandleError, FailedList
    <3>2. store' \in Lists /\ store'.entries = store.entries
      BY <1>2, <2>1, <3>1 DEF Lists
    <3> QED BY <2>2, <3>2 DEF HandleError
  <2>3. CASE ~thread.save
    BY <2>1, <2>3 DEF HandleError
  <2> QED BY <1>2, <2>2, <2>3
<1>6. found \subseteq store'.entries \cup Accounted' /\ excused' \subseteq Find
  BY <1>1, <1>5, UnwrittenIsKept DEF IInv
<1>7. Shown'.cursor.kind \in Missing => 1..ResumePath(Shown)' \subseteq seen \cup cut'
  <2>1. AtWork = {}
    BY <1>1 DEF AtWork
  <2>2. CASE thread.pc = "login"
    <3>1. progress'.cursor = thread.start /\ thread.start.kind = thread.kind
      BY <1>1, <1>3, <2>2 DEF IInv, ImagesIInv, CursorIsThreads
    <3> QED BY <1>1, <1>2, <1>3, <1>4, <2>1, <3>1 DEF IInv, ImagesIInv, StartCovers, ImagesShown, ResumePath
  <2>3. CASE thread.pc # "login"
    BY <1>1, <1>3, <1>4, <2>1, <2>3 DEF IInv, ImagesIInv, CursorCovers, ResumePath
  <2> QED BY <2>2, <2>3
<1> QED BY <1>1, <1>2, <1>3, <1>4, <1>5, <1>6, <1>7, EndKeeps DEF IInv, SearchIInv, TypeOK

LEMMA RestartKeeps ==
  ASSUME IInv, Restart
  PROVE  IInv'
<1>1. /\ progress' = Nothing /\ thread' = NoThread /\ reviewer' = Resting /\ raised' = FALSE
      /\ cut' = cut \cup AtWork
      /\ excused' = IF thread.save THEN excused \cup Unwritten ELSE excused
      /\ UNCHANGED <<persisted, store, handled, suppressed, seen, found>>
  BY DEF Restart, BrokenOff, AtWork
<1>2. progress' \in Progress /\ Persisted' /\ Shown' = persisted /\ Shown = persisted /\ ~progress'.running
  BY <1>1, ConstantTypes, ShownIsPersisted DEF IInv, SearchIInv, Persisted, Shown, Nothing
<1>3. found \subseteq store'.entries \cup Accounted' /\ excused' \subseteq Find
  BY <1>1, UnwrittenIsKept DEF IInv
<1>4. Shown'.cursor.kind \in Missing => 1..ResumePath(Shown)' \subseteq seen \cup cut'
  BY <1>1, <1>2 DEF IInv, ImagesIInv, CursorCovers, ResumePath
<1>5. cut' \subseteq 1..Images
  BY <1>1, Positions DEF IInv, SearchIInv, TypeOK
<1>6. reviewer'.pc # "apply"
  BY <1>1 DEF Resting
<1> QED BY <1>1, <1>2, <1>3, <1>4, <1>5, <1>6, EndKeeps DEF IInv, SearchIInv, TypeOK
-----------------------------------------------------------------------------
(* The requests of the user and the steps of a reviewer.                     *)
LEMMA StartKeeps ==
  ASSUME IInv, NEW kind \in Kind, NEW save \in BOOLEAN, NEW auto \in BOOLEAN, NEW resume \in BOOLEAN,
         NEW skip \in SUBSET Find, Start(kind, save, auto, resume, skip)
  PROVE  IInv'
<1> DEFINE goesOn == GoesOn(kind, resume, skip)
           cursor == IF goesOn THEN TakenOver(skip) ELSE Fresh(kind, save, auto, skip)
           begun == [cursor EXCEPT !.skip = IF goesOn THEN Shown.cursor.skip ELSE skip]
<1>1. /\ ~Shown.running
      /\ SetProgress([running |-> TRUE, stop |-> FALSE, paused |-> FALSE, images |-> cursor.path, cursor |-> cursor])
      /\ thread' = [NoThread EXCEPT !.pc = "begin", !.kind = kind, !.save = cursor.save, !.auto = cursor.auto,
                                    !.resume = goesOn, !.skip = cursor.skip, !.start = begun]
      /\ IF goesOn THEN UNCHANGED <<seen, cut>> ELSE seen' = {} /\ cut' = {}
      /\ UNCHANGED <<store, reviewer, handled, suppressed, found, excused, raised>>
  BY DEF Start
<1>2. thread.pc = "none" /\ reviewer.pc \in {"idle", "decided", "read", "record", "apply"} /\ Shown \in Progress
  BY <1>1, WhileWorking, Positions DEF IInv, SearchIInv, TypeOK, Reviewer
<1>3. /\ ResumePath(Shown) \in 0..Images /\ Shown.cursor \in Cursor /\ Shown.cursor.skip \in SUBSET Find
      /\ goesOn \in BOOLEAN
  BY <1>2, Positions, ProgressFields DEF IInv, GoesOn
<1>4. /\ cursor \in Cursor /\ cursor.kind = kind /\ cursor.path = IF goesOn THEN ResumePath(Shown) ELSE 0
  <2>1. CASE goesOn
    <3>1. cursor = [Shown.cursor EXCEPT !.path = ResumePath(Shown), !.skip = @ \cup skip]
      BY <2>1 DEF TakenOver
    <3>2. Shown.cursor.kind = kind
      BY <2>1 DEF GoesOn
    <3> HIDE DEF cursor, goesOn
    <3> QED BY <1>3, <2>1, <3>1, <3>2 DEF Cursor
  <2>2. CASE ~goesOn
    <3>1. cursor = Fresh(kind, save, auto, skip)
      BY <2>2
    <3> HIDE DEF cursor, goesOn
    <3> QED BY <2>2, <3>1, Bounds DEF Fresh, Cursor
  <2> QED BY <2>1, <2>2
<1> HIDE DEF cursor
<1>5. begun \in Cursor /\ begun.kind = kind /\ begun.path = cursor.path
  BY <1>3, <1>4 DEF Cursor
<1> HIDE DEF goesOn, begun
<1>6. cursor.path \in 0..Images /\ cursor.save \in BOOLEAN /\ cursor.auto \in BOOLEAN /\ cursor.skip \in SUBSET Find
  BY <1>4 DEF Cursor
<1>7. /\ progress' \in Progress /\ persisted' = progress' /\ progress'.running
      /\ progress'.images = cursor.path /\ progress'.cursor = cursor
  BY <1>1, <1>4, <1>6 DEF SetProgress, Progress
<1>8. /\ thread' \in Thread /\ thread'.pc = "begin" /\ thread'.kind = kind /\ thread'.start = begun
      /\ thread'.at = 0 /\ thread'.saved = {} /\ ~thread'.own /\ thread'.result = None
  BY <1>1, <1>3, <1>5, <1>6, ConstantTypes DEF Thread, NoThread
<1>9. Persisted' /\ Shown' = progress'
  BY <1>7 DEF Persisted, Shown
<1>10. /\ seen' \subseteq 1..Images /\ cut' \subseteq 1..Images
  BY <1>1 DEF IInv, SearchIInv, TypeOK
<1>11. TypeOK'
  BY <1>1, <1>7, <1>8, <1>10 DEF IInv, SearchIInv, TypeOK
<1>12. ThreadOK'
  BY <1>8 DEF ThreadOK
<1>13. reviewer.pc # "apply" /\ progress'.running /\ thread'.pc # "none"
  BY <1>1, <1>7, <1>8 DEF IInv, SearchIInv, Apart, Shown, Nothing
<1>14. ReviewOK' /\ Apart' /\ RunningIsWorked'
  BY <1>1, <1>13 DEF IInv, SearchIInv, ReviewOK, Apart, RunningIsWorked
<1>15. SearchIInv'
  BY <1>9, <1>11, <1>12, <1>14 DEF SearchIInv
<1>16. FoundIInv'
  <2>1. thread.save = FALSE
    BY <1>2 DEF IInv, SearchIInv, ThreadOK, NoThread
  <2>2. found' \subseteq store'.entries \cup Accounted'
    BY <1>1, <2>1 DEF IInv, FoundIInv, InStore, Accounted
  <2> QED BY <1>8, <2>2, StoredIsKept
<1>17. kind \in Missing => 1..cursor.path \subseteq seen' \cup cut'
  <2>1. CASE goesOn
    <3>1. Shown.cursor.kind = kind /\ UNCHANGED <<seen, cut>> /\ AtWork = {}
      BY <1>1, <1>2, <2>1 DEF GoesOn, goesOn, AtWork
    <3> QED BY <1>4, <2>1, <3>1 DEF IInv, ImagesIInv, CursorCovers
  <2>2. CASE ~goesOn
    <3>1. 1..0 = {}
      OBVIOUS
    <3> QED BY <1>4, <2>2, <3>1
  <2> QED BY <1>3, <2>1, <2>2
<1>18. ImagesIInv'
  <2>1. CursorCovers'
    BY <1>4, <1>7, <1>9, <1>17 DEF CursorCovers, ResumePath
  <2>2. ImagesCovered' /\ StartCovers' /\ CursorIsThreads' /\ ImagesShown'
    BY <1>4, <1>5, <1>7, <1>8, <1>17 DEF ImagesCovered, StartCovers, CursorIsThreads, ImagesShown
  <2> QED BY <2>1, <2>2 DEF ImagesIInv
<1> QED BY <1>15, <1>16, <1>18 DEF IInv

(* A step beside the thread.                                                 *)
LEMMA BesideKeeps ==
  ASSUME IInv, UNCHANGED <<thread, seen, cut, found>>,
         progress' \in Progress, persisted' \in Progress, Persisted', raised' \in BOOLEAN,
         reviewer' \in Reviewer, ReviewOK', Apart', RunningIsWorked',
         store' \in Lists, handled' \subseteq Find, suppressed' \subseteq Find, excused' \subseteq Find,
         Accounted \subseteq Accounted', store.entries \subseteq store'.entries \cup Accounted',
         \/ Shown'.cursor.kind = Shown.cursor.kind /\ ResumePath(Shown)' = ResumePath(Shown)
         \/ ResumePath(Shown)' = 0,
         thread.pc # "none" => progress'.cursor.kind = progress.cursor.kind /\ progress'.images = progress.images
  PROVE  IInv'
<1>1. SearchIInv'
  BY DEF IInv, SearchIInv, TypeOK, ThreadOK
<1>2. FoundIInv'
  BY ReviewedIsKept DEF IInv
<1>3. AtWork' = AtWork
  BY DEF AtWork
<1>4. StartCovers' /\ CursorIsThreads' /\ ImagesShown'
  BY <1>3 DEF IInv, ImagesIInv, StartCovers, CursorIsThreads, ImagesShown
<1>5. CursorCovers' /\ ImagesCovered'
  <2>1. 1..0 = {}
    OBVIOUS
  <2>2. CASE Shown'.cursor.kind = Shown.cursor.kind /\ ResumePath(Shown)' = ResumePath(Shown)
    BY <1>3, <2>2 DEF IInv, ImagesIInv, CursorCovers, ImagesCovered, Covered
  <2>3. CASE ResumePath(Shown)' = 0
    BY <2>1, <2>3 DEF IInv, ImagesIInv, CursorCovers, ImagesCovered, Covered
  <2> QED BY <2>2, <2>3
<1> QED BY <1>1, <1>2, <1>4, <1>5 DEF IInv, ImagesIInv

(* One that leaves the progress alone.                                       *)
LEMMA ListOnlyKeeps ==
  ASSUME IInv, UNCHANGED <<thread, seen, cut, found, progress, persisted>>, raised => raised', raised' \in BOOLEAN,
         reviewer' \in Reviewer, ReviewOK',
         reviewer.pc = "apply" => reviewer'.pc = "apply" \/ raised', reviewer'.pc = "apply" => reviewer.pc = "apply",
         store' \in Lists, handled' \subseteq Find, suppressed' \subseteq Find, excused' \subseteq Find,
         Accounted \subseteq Accounted', store.entries \subseteq store'.entries \cup Accounted'
  PROVE  IInv'
<1>1. progress' \in Progress /\ persisted' \in Progress /\ Persisted'
  BY DEF IInv, SearchIInv, TypeOK, Persisted
<1>2. Apart' /\ RunningIsWorked'
  BY DEF IInv, SearchIInv, Apart, RunningIsWorked
<1>3. Shown' = Shown
  BY DEF Shown
<1>4. ResumePath(Shown)' = ResumePath(Shown)
  BY <1>3 DEF ResumePath
<1> QED BY <1>1, <1>2, <1>3, <1>4, BesideKeeps

LEMMA RequestStopKeeps ==
  ASSUME IInv, RequestStop
  PROVE  IInv'
<1>1. /\ progress' = [progress EXCEPT !.stop = TRUE] /\ persisted' = progress'
      /\ UNCHANGED <<store, thread, reviewer, handled, suppressed, found, excused, seen, cut, raised>>
  BY DEF RequestStop, SetProgress
<1>2. progress \in Progress /\ store \in Lists /\ store.entries \subseteq Find
  BY DEF IInv, SearchIInv, TypeOK, Lists
<1>3. /\ progress' \in Progress /\ progress'.running = progress.running /\ progress'.cursor = progress.cursor
      /\ progress'.images = progress.images
  BY <1>1, <1>2 DEF Progress
<1>4. Persisted' /\ Shown' = progress'
  BY <1>1 DEF Persisted, Shown
<1>5. ReviewOK' /\ Apart' /\ RunningIsWorked'
  BY <1>1, <1>3 DEF IInv, SearchIInv, ReviewOK, Apart, RunningIsWorked
<1>6. \/ Shown'.cursor.kind = Shown.cursor.kind /\ ResumePath(Shown)' = ResumePath(Shown)
      \/ ResumePath(Shown)' = 0
  <2>1. CASE progress = Nothing
    BY <1>3, <1>4, <2>1 DEF Nothing, NoCursor, ResumePath
  <2>2. CASE progress # Nothing
    BY <1>3, <1>4, <2>2 DEF Shown, ResumePath
  <2> QED BY <2>1, <2>2
<1> QED BY <1>1, <1>2, <1>3, <1>4, <1>5, <1>6, BesideKeeps DEF IInv, SearchIInv, TypeOK, Accounted

LEMMA DecideKeeps ==
  ASSUME IInv, NEW f \in Find, NEW kinds, NEW adds \in BOOLEAN, Decide(f, kinds, adds),
         handled' \in {handled, handled \cup {f}}, suppressed' \in {suppressed, suppressed \cup {f}}
  PROVE  IInv'
<1>1. /\ reviewer.pc = "idle" /\ reviewer' = [Resting EXCEPT !.pc = "decided", !.face = f, !.adds = adds]
      /\ UNCHANGED <<progress, persisted, store, thread, found, excused, seen, cut, raised>>
  BY DEF Decide
<1>2. reviewer' \in Reviewer /\ reviewer'.pc = "decided" /\ reviewer'.face = f
  BY <1>1, ConstantTypes DEF Resting, Reviewer
<1>3. ReviewOK'
  BY <1>2 DEF ReviewOK
<1>4. Accounted \subseteq Accounted'
  BY <1>1 DEF Accounted
<1> QED BY <1>1, <1>2, <1>3, <1>4, ListOnlyKeeps DEF IInv, SearchIInv, TypeOK

LEMMA RemoveReadKeeps ==
  ASSUME IInv, RemoveRead
  PROVE  IInv'
<1>1. /\ reviewer.pc = "decided" /\ reviewer' = [reviewer EXCEPT !.pc = "read", !.list = store]
      /\ UNCHANGED <<progress, persisted, store, thread, handled, suppressed, found, excused, seen, cut, raised>>
  BY DEF RemoveRead
<1>2. reviewer' \in Reviewer /\ reviewer'.pc = "read" /\ reviewer'.face = reviewer.face
  BY <1>1 DEF IInv, SearchIInv, TypeOK, Reviewer
<1>3. ReviewOK'
  BY <1>1, <1>2 DEF IInv, SearchIInv, ReviewOK
<1>4. Accounted \subseteq Accounted'
  BY <1>1 DEF Accounted
<1> QED BY <1>1, <1>2, <1>3, <1>4, ListOnlyKeeps DEF IInv, SearchIInv, TypeOK

LEMMA RemoveWriteKeeps ==
  ASSUME IInv, RemoveWrite
  PROVE  IInv'
<1>1. /\ reviewer.pc = "read" /\ reviewer' = [reviewer EXCEPT !.pc = "record", !.list = NoList]
      /\ UNCHANGED <<progress, persisted, thread, handled, suppressed, found, seen, cut, raised>>
  BY DEF RemoveWrite
<1>2. /\ reviewer \in Reviewer /\ reviewer.list \in Lists /\ reviewer.list.entries \subseteq Find /\ store \in Lists
      /\ store.entries \subseteq Find /\ reviewer.face \in Find /\ excused \subseteq Find
  BY <1>1 DEF IInv, SearchIInv, TypeOK, ReviewOK, Reviewer, Lists
<1>3. reviewer' \in Reviewer /\ reviewer'.pc = "record" /\ reviewer'.face = reviewer.face
  BY <1>1, <1>2, ConstantTypes DEF Reviewer
<1>4. ReviewOK'
  BY <1>1, <1>3 DEF IInv, SearchIInv, ReviewOK
<1>5. /\ store' \in Lists /\ excused' \subseteq Find /\ Accounted \subseteq Accounted'
      /\ store.entries \subseteq store'.entries \cup Accounted'
  <2>1. CASE reviewer.face \in reviewer.list.entries
    <3>1. /\ store' = Without(reviewer.list, {reviewer.face})
          /\ excused' = excused \cup (store.entries \ reviewer.list.entries) \cup {reviewer.face}
      BY <2>1 DEF RemoveWrite
    <3>2. store' \in Lists /\ reviewer.list.entries \ {reviewer.face} \subseteq store'.entries
      <4>1. CASE reviewer.list.entries \subseteq {reviewer.face}
        BY <3>1, <4>1, ConstantTypes DEF Without
      <4>2. CASE ~(reviewer.list.entries \subseteq {reviewer.face})
        <5>1. store' = [reviewer.list EXCEPT !.entries = @ \ {reviewer.face}]
          BY <3>1, <4>2 DEF Without
        <5> QED BY <1>2, <5>1 DEF Lists
      <4> QED BY <4>1, <4>2
    <3> QED BY <1>1, <1>2, <3>1, <3>2 DEF Accounted
  <2>2. CASE reviewer.face \notin reviewer.list.entries
    <3>1. UNCHANGED <<store, excused>>
      BY <2>2 DEF RemoveWrite
    <3> QED BY <1>1, <1>2, <3>1 DEF Accounted
  <2> QED BY <2>1, <2>2
<1> QED BY <1>1, <1>3, <1>4, <1>5, ListOnlyKeeps DEF IInv, SearchIInv, TypeOK

LEMMA RecordTransferKeeps ==
  ASSUME IInv, RecordTransfer
  PROVE  IInv'
<1>1. /\ reviewer.pc = "record" /\ reviewer' = Resting
      /\ UNCHANGED <<store, thread, handled, suppressed, found, excused, seen, cut, raised>>
  BY DEF RecordTransfer
<1>2. reviewer' \in Reviewer /\ reviewer'.pc = "idle" /\ ReviewOK' /\ reviewer.face \in Find
  BY <1>1, ConstantTypes DEF Resting, ReviewOK, IInv, SearchIInv
<1>3. Accounted \subseteq Accounted'
  BY <1>1 DEF Accounted
<1>4. CASE UNCHANGED <<progress, persisted>>
  BY <1>1, <1>2, <1>3, <1>4, ListOnlyKeeps DEF IInv, SearchIInv, TypeOK
<1>5. CASE SetProgress([progress EXCEPT !.cursor = [Shown.cursor EXCEPT !.skip = @ \cup {reviewer.face},
                                                                     !.path = ResumePath(Shown)]])
  <2> DEFINE path == ResumePath(Shown)
             cursor == [Shown.cursor EXCEPT !.skip = @ \cup {reviewer.face}, !.path = path]
  <2>1. progress' = [progress EXCEPT !.cursor = cursor] /\ persisted' = progress'
    BY <1>5 DEF SetProgress
  <2>2. progress \in Progress /\ Shown \in Progress /\ path \in 0..Images
    BY Positions DEF IInv, SearchIInv, TypeOK
  <2>3. path = 0 => progress.images = 0
    BY DEF ResumePath, Shown, Nothing
  <2> HIDE DEF path
  <2>4. cursor \in Cursor /\ cursor.kind = Shown.cursor.kind /\ cursor.path = path
    BY <1>2, <2>2, ProgressFields DEF Cursor
  <2> HIDE DEF cursor
  <2>5. /\ progress' \in Progress /\ progress'.running = progress.running /\ progress'.images = progress.images
        /\ progress'.cursor = cursor
    BY <2>1, <2>2, <2>4 DEF Progress
  <2>6. Persisted' /\ Shown' = progress'
    BY <2>1 DEF Persisted, Shown
  <2>7. Apart' /\ RunningIsWorked'
    BY <1>1, <1>2, <2>5 DEF IInv, SearchIInv, Apart, RunningIsWorked
  <2>8. Shown'.cursor.kind = Shown.cursor.kind /\ ResumePath(Shown)' = path
    BY <2>3, <2>4, <2>5, <2>6 DEF ResumePath
  <2>9. thread.pc # "none" => Shown = progress
    BY WhileWorking DEF IInv
  <2>10. ResumePath(Shown)' = ResumePath(Shown)
    BY <2>8 DEF path
  <2> QED BY <1>1, <1>2, <1>3, <2>1, <2>4, <2>5, <2>6, <2>7, <2>8, <2>9, <2>10, BesideKeeps
          DEF IInv, SearchIInv, TypeOK
<1> QED BY <1>4, <1>5 DEF RecordTransfer

LEMMA ApplyKeeps ==
  ASSUME IInv, Apply
  PROVE  IInv'
<1>1. /\ reviewer.pc = "idle" /\ ~Shown.running
      /\ progress' = [Applied(progress) EXCEPT !.running = TRUE] /\ persisted' = progress'
      /\ reviewer' = [Resting EXCEPT !.pc = "apply", !.list = store, !.todo = store.entries \ suppressed]
      /\ UNCHANGED <<store, thread, handled, suppressed, found, excused, seen, cut, raised>>
  BY DEF Apply, SetProgress
<1>2. progress \in Progress /\ store \in Lists /\ store.entries \in SUBSET Find /\ thread.pc = "none"
  BY <1>1, WhileWorking DEF IInv, SearchIInv, TypeOK, Lists
<1>3. /\ progress' \in Progress /\ progress'.running /\ progress'.cursor = progress.cursor
      /\ progress'.images = progress.images
  BY <1>1, <1>2 DEF Applied, Progress
<1>4. Persisted' /\ Shown' = progress'
  BY <1>1 DEF Persisted, Shown
<1>5. reviewer' \in Reviewer /\ reviewer'.pc = "apply" /\ reviewer'.todo = store.entries \ suppressed
  BY <1>1, <1>2, ConstantTypes DEF Resting, Reviewer
<1>6. ReviewOK' /\ Apart' /\ RunningIsWorked'
  BY <1>1, <1>2, <1>3, <1>5 DEF ReviewOK, Apart, RunningIsWorked
<1>7. \/ Shown'.cursor.kind = Shown.cursor.kind /\ ResumePath(Shown)' = ResumePath(Shown)
      \/ ResumePath(Shown)' = 0
  <2>1. CASE progress = Nothing
    BY <1>3, <1>4, <2>1 DEF Nothing, NoCursor, ResumePath
  <2>2. CASE progress # Nothing
    BY <1>3, <1>4, <2>2 DEF Shown, ResumePath
  <2> QED BY <2>1, <2>2
<1>8. Accounted \subseteq Accounted'
  BY <1>1 DEF Accounted
<1> QED BY <1>1, <1>2, <1>3, <1>4, <1>5, <1>6, <1>7, <1>8, BesideKeeps DEF IInv, SearchIInv, TypeOK

LEMMA ApplyEntryKeeps ==
  ASSUME IInv, ApplyEntry
  PROVE  IInv'
<1> DEFINE f == FirstOf(reviewer.todo)
           rest == reviewer.todo \ {f}
<1>1. /\ reviewer.pc = "apply" /\ reviewer.todo # {} /\ handled' = handled \cup {f}
      /\ store' = IF rest = {} THEN NoList ELSE [reviewer.list EXCEPT !.entries = rest]
      /\ reviewer' = [reviewer EXCEPT !.todo = rest]
      /\ UNCHANGED <<progress, persisted, thread, suppressed, found, excused, seen, cut, raised>>
  BY DEF ApplyEntry
<1>2. /\ reviewer \in Reviewer /\ reviewer.list \in Lists /\ reviewer.todo \in SUBSET Find
      /\ store.entries \subseteq reviewer.todo \cup suppressed
  BY <1>1 DEF IInv, SearchIInv, TypeOK, ReviewOK, Reviewer
<1>3. f \in Find
  BY <1>1, <1>2, FirstIsMember
<1>4. rest \in SUBSET Find /\ reviewer.todo = rest \cup {f}
  BY <1>1, <1>2, FirstIsMember
<1> HIDE DEF f, rest
<1>5. reviewer' \in Reviewer /\ reviewer'.pc = "apply" /\ reviewer'.todo = rest
  BY <1>1, <1>2, <1>4 DEF Reviewer
<1>6. store' \in Lists /\ store'.entries = rest
  <2>1. CASE rest = {}
    BY <1>1, <2>1, ConstantTypes DEF NoList
  <2>2. CASE rest # {}
    BY <1>1, <1>2, <1>4, <2>2 DEF Lists
  <2> QED BY <2>1, <2>2
<1>7. ReviewOK'
  BY <1>1, <1>5, <1>6 DEF ReviewOK
<1>8. Accounted \subseteq Accounted' /\ store.entries \subseteq store'.entries \cup Accounted'
  BY <1>1, <1>2, <1>4, <1>6 DEF Accounted
<1> QED BY <1>1, <1>3, <1>5, <1>6, <1>7, <1>8, ListOnlyKeeps DEF IInv, SearchIInv, TypeOK

LEMMA ApplyEndsKeeps ==
  ASSUME IInv, ApplyEnds
  PROVE  IInv'
<1>1. /\ reviewer.pc = "apply" /\ progress' = Applied(Shown) /\ persisted' = progress' /\ reviewer' = Resting
      /\ UNCHANGED <<store, thread, handled, suppressed, found, excused, seen, cut, raised>>
  BY DEF ApplyEnds, SetProgress
<1>2. Shown \in Progress /\ thread.pc = "none"
  BY <1>1, Positions DEF IInv, SearchIInv, Apart
<1>3. /\ progress' \in Progress /\ ~progress'.running /\ progress'.cursor = Shown.cursor
      /\ progress'.images = Shown.images
  BY <1>1, <1>2 DEF Applied, Progress
<1>4. Persisted' /\ Shown' = progress'
  BY <1>1 DEF Persisted, Shown
<1>5. reviewer' \in Reviewer /\ reviewer'.pc = "idle"
  BY <1>1, ConstantTypes DEF Resting
<1>6. ReviewOK' /\ Apart' /\ RunningIsWorked'
  BY <1>1, <1>2, <1>3, <1>5 DEF ReviewOK, Apart, RunningIsWorked
<1>7. Shown'.cursor.kind = Shown.cursor.kind /\ ResumePath(Shown)' = ResumePath(Shown)
  BY <1>3, <1>4 DEF ResumePath
<1>8. Accounted \subseteq Accounted'
  BY <1>1 DEF Accounted
<1> QED BY <1>1, <1>2, <1>3, <1>4, <1>5, <1>6, <1>7, <1>8, BesideKeeps DEF IInv, SearchIInv, TypeOK

LEMMA ApplyRaisesKeeps ==
  ASSUME IInv, ApplyRaises
  PROVE  IInv'
<1>1. /\ raised' = TRUE /\ reviewer' = Resting
      /\ UNCHANGED <<progress, persisted, store, thread, handled, suppressed, found, excused, seen, cut>>
  BY DEF ApplyRaises
<1>2. reviewer' \in Reviewer /\ reviewer'.pc = "idle" /\ ReviewOK'
  BY <1>1, ConstantTypes DEF Resting, ReviewOK
<1>3. Accounted \subseteq Accounted'
  BY <1>1 DEF Accounted
<1> QED BY <1>1, <1>2, <1>3, ListOnlyKeeps DEF IInv, SearchIInv, TypeOK
-----------------------------------------------------------------------------
LEMMA DecisionKeeps ==
  ASSUME IInv, NEW f \in Find,
         NamePhotoFace(f) \/ RenameTarget(f) \/ TransferTarget(f) \/ DeleteTarget(f) \/ SkipMatch(f)
  PROVE  IInv'
<1>1. ASSUME NEW kinds, NEW adds \in BOOLEAN, Decide(f, kinds, adds), DealtWith(f) PROVE IInv'
  BY <1>1, DecideKeeps DEF DealtWith
<1>2. CASE NamePhotoFace(f)
  BY <1>1, <1>2 DEF NamePhotoFace
<1>3. CASE RenameTarget(f)
  BY <1>1, <1>3 DEF RenameTarget
<1>4. CASE TransferTarget(f)
  BY <1>1, <1>4 DEF TransferTarget
<1>5. CASE DeleteTarget(f)
  BY <1>1, <1>5 DEF DeleteTarget
<1>6. CASE SkipMatch(f)
  BY <1>6, DecideKeeps DEF SkipMatch
<1> QED BY <1>2, <1>3, <1>4, <1>5, <1>6

LEMMA IInvHolds == Spec => []IInv
<1>1. Init => IInv
  <2> SUFFICES ASSUME Init PROVE IInv
    OBVIOUS
  <2>1. Shown = Nothing
    BY DEF Init, Shown
  <2>2. TypeOK
    BY ConstantTypes DEF Init, TypeOK
  <2>3. SearchIInv
    BY <2>2 DEF SearchIInv, Init, Persisted, ThreadOK, ReviewOK, Apart, RunningIsWorked, Nothing, NoThread, Resting
  <2>4. FoundIInv
    BY DEF Init, FoundIInv, FoundIsKept, InOwnList, InStore
  <2>5. 1..0 = {}
    OBVIOUS
  <2>6. ImagesIInv
    BY <2>1, <2>5 DEF Init, ImagesIInv, ImagesCovered, Covered, CursorCovers, StartCovers, CursorIsThreads, ImagesShown,
                      ResumePath, Nothing, NoCursor, NoThread
  <2> QED BY <2>3, <2>4, <2>6 DEF IInv
<1>2. IInv /\ [Next]_vars => IInv'
  <2> SUFFICES ASSUME IInv, [Next]_vars PROVE IInv'
    OBVIOUS
  <2>1. ASSUME NEW kind \in Kind, NEW save \in BOOLEAN, NEW auto \in BOOLEAN, NEW resume \in BOOLEAN,
               NEW skip \in SUBSET Find, Start(kind, save, auto, resume, skip)
        PROVE  IInv'
    BY <2>1, StartKeeps
  <2>2. CASE FaceMatchingAction
    <3>1. ASSUME NEW kind \in Kind, NEW save \in BOOLEAN, NEW auto \in BOOLEAN, NEW resume \in BOOLEAN,
                 Start(kind, save, auto, resume, {})
          PROVE  IInv'
      BY <2>1, <3>1
    <3>2. ASSUME NEW f \in Find, NEW auto \in BOOLEAN, Start(KindOf[f], FALSE, auto, TRUE, {f})
          PROVE  IInv'
      <4>1. {f} \in SUBSET Find /\ KindOf[f] \in Kind
        OBVIOUS
      <4> QED BY <2>1, <3>2, <4>1
    <3> QED BY <2>2, <3>1, <3>2, ApplyKeeps DEF FaceMatchingAction
  <2>3. CASE BeginPhotoFaces \/ BeginFileFaces \/ BeginMissingFaces \/ BeginInsightFace
    BY <2>3, BeginKeeps DEF BeginPhotoFaces, BeginFileFaces, BeginMissingFaces, BeginInsightFace, Kind, Missing
  <2>4. CASE Listing \/ Walking \/ Examining \/ Return \/ HandleError
    BY <2>4, ListingKeeps, WalkingKeeps, ExaminingKeeps, ReturnKeeps, HandleErrorKeeps
  <2>5. CASE ReviewStep
    BY <2>5, RemoveReadKeeps, RemoveWriteKeeps, RecordTransferKeeps, ApplyEntryKeeps, ApplyEndsKeeps
       DEF ReviewStep, RemoveFace, RemoveTarget
  <2>6. CASE RequestStop \/ Raise \/ DetectorGone \/ Restart \/ ApplyRaises
    BY <2>6, RequestStopKeeps, RaiseKeeps, DetectorGoneKeeps, RestartKeeps, ApplyRaisesKeeps
  <2>7. ASSUME NEW f \in Find,
               NamePhotoFace(f) \/ RenameTarget(f) \/ TransferTarget(f) \/ DeleteTarget(f) \/ SkipMatch(f)
        PROVE  IInv'
    BY <2>7, DecisionKeeps
  <2>8. CASE UNCHANGED vars
    BY <2>8 DEF vars, IInv, SearchIInv, TypeOK, Persisted, ThreadOK, ReviewOK, Apart, RunningIsWorked,
                FoundIInv, FoundIsKept, InOwnList, InStore, Accounted, ImagesIInv, ImagesCovered, Covered,
                CursorCovers, StartCovers, CursorIsThreads, ImagesShown, AtWork, ResumePath, Shown
  <2> QED BY <2>2, <2>3, <2>4, <2>5, <2>6, <2>7, <2>8 DEF Next, SearchStep
<1> QED BY <1>1, <1>2, PTL DEF Spec

(* Types: progress, its copy, the list, the thread and the reviewer keep     *)
(* the shape the code gives them, and counted images stay within the walk.   *)
THEOREM TypeCorrect == Spec => []TypeOK
<1>1. IInv => TypeOK
  BY DEF IInv, SearchIInv
<1> QED BY <1>1, IInvHolds, PTL

(* A running progress has a search thread or an application of findings      *)
(* behind it, unless an application ended in an error.                       *)
THEOREM RunningHasAWorker == Spec => []RunningIsWorked
<1>1. IInv => RunningIsWorked
  BY DEF IInv, SearchIInv
<1> QED BY <1>1, IInvHolds, PTL

(* A face a save-only search matched is in its list or the stored one, was   *)
(* dealt with, or was lost in one of the ways the actions name.              *)
THEOREM NoMatchForgotten == Spec => []FoundIsKept
<1>1. IInv => FoundIsKept
  BY DEF IInv, FoundIInv
<1> QED BY <1>1, IInvHolds, PTL

(* A search that resumes at an image index has examined every image before   *)
(* it, except those an earlier search of the chain was broken off at.        *)
THEOREM NoImagePassedOver == Spec => []ImagesCovered
<1>1. IInv => ImagesCovered
  BY DEF IInv, ImagesIInv
<1> QED BY <1>1, IInvHolds, PTL
=============================================================================

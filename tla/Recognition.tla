---------------------------- MODULE Recognition ----------------------------
(***************************************************************************)
(* Face recognition: one background thread builds the profiles of known    *)
(* persons, or scans for references that do not fit their profile, for     *)
(* unknown faces, or for faces assigned to the wrong person.  Images are   *)
(* read in batches, the next batch by a thread of its own, into a cache    *)
(* every run shares.  A scan in immediate mode ends at each finding, is    *)
(* decided on and resumed; one in save_only mode stores a list.            *)
(*                                                                         *)
(* Similarities are abstracted to Notable and Safe, and the options that   *)
(* choose the store of profiles to its key; which persons are hidden,      *)
(* image age, counters and messages are left out, and so is a backend      *)
(* restart, which takes all of it away but profiles and stored lists.  One *)
(* request at a time decides on findings.                                  *)
(***************************************************************************)
EXTENDS Naturals, Sequences, FiniteSets, SequencesExt

CONSTANTS
  Face,      \* 1..n, in the order of person, image and face
  PersonOf, ImageOf, \* Face -> person, image
  Known,     \* persons with a name, the others are unknown ones
  Absent,    \* images whose file is missing
  Notable,   \* faces of known persons that are outliers or resemble another
  Safe,      \* faces recognised without doubt
  Batch,     \* recognition_batch_size
  Limit,     \* max_profile_reference_faces_per_person
  Key,       \* profile state keys: detection options, with hidden persons or without
  NoKey,     \* that of a list that is not there
  MaxStarts, MaxTrouble, MaxReviews \* bounds: starts; failures and resets; decisions and applications

(* Photos numbers from 1 on, in that order, and all there is is finite.      *)
ASSUME PhotosAssumption ==
  /\ IsFiniteSet(Face) /\ Face \subseteq Nat \ {0}
  /\ \A f \in Face : PersonOf[f] \in Nat \ {0} /\ ImageOf[f] \in Nat \ {0}
  /\ \A f, g \in Face : PersonOf[f] = PersonOf[g] /\ f < g => ImageOf[f] <= ImageOf[g]
  /\ IsFiniteSet(Known) /\ Known \subseteq Nat \ {0}
ASSUME OptionsAssumption == Batch \in Nat /\ Limit \in Nat /\ NoKey \notin Key

VARIABLES
  profiles, \* the stored profiles of each key, a sequence of [person, refs]
  active,   \* _active_findings of each review
  stored,   \* the stored list of each review
  cache,    \* _image_embedding_cache: image -> none, read or empty
  run,      \* the thread of the scan, or NoRun
  running, stop, \* its progress, and the actions whose progress shows a stop request
  fetch,    \* the thread that reads the next batch
  orphans,  \* such threads nobody waits for any more
  reviewer, \* a request that decides or applies
  moved,    \* faces that were given to another person
  starts, trouble, reviews, \* counters of the bounds
  unread,   \* history: images whose faces were lost for a named reason
  late      \* history: excluded faces that are back for a named reason

vars == <<profiles, active, stored, cache, run, running, stop, fetch, orphans, reviewer, moved,
          starts, trouble, reviews, unread, late>>

Person == {PersonOf[f] : f \in Face}
Image == {ImageOf[f] : f \in Face}
Review == {"outliers", "suggest", "assign"}
State == {"review", "selected", "skipped", "written", "failed"}

Sorted(S) == [n \in 1 .. Cardinality(S) |-> CHOOSE x \in S : Cardinality({y \in S : y < x}) = n - 1]
FacesOf(p) == {f \in Face \ moved : PersonOf[f] = p}
ImagesOf(p) == {ImageOf[f] : f \in FacesOf(p)}
WithinLimit(f) == Limit = 0 \/
  Cardinality({g \in Face : PersonOf[g] = PersonOf[f] /\ ImageOf[g] < ImageOf[f]}) < Limit

(* A list of findings: its entries and the place it is resumed at.  History, *)
(* of the scan and of those it goes on from: faces passed over for a named   *)
(* reason (over), the lists they went through (lists), and what they look    *)
(* for at the persons they have passed (seen).                               *)
NoPayload == [there |-> FALSE, key |-> NoKey, entries |-> <<>>, start |-> 1, person |-> 0, after |-> 0,
              over |-> {}, lists |-> {}, seen |-> {}]
NoRun == [pc |-> "none", kind |-> "build", key |-> NoKey, mode |-> "immediate", resume |-> FALSE, auto |-> FALSE,
          who |-> <<>>, i |-> 1, items |-> <<>>, at |-> 1, window |-> {}, next |-> "match",
          refs |-> {}, rest |-> <<>>, entries |-> <<>>, resolved |-> {}, excluded |-> {},
          built |-> <<>>, copy |-> <<>>, start |-> 1, person |-> 0, after |-> 0, pre |-> 1,
          over |-> {}, lists |-> {}, seen |-> {}]
NoFetch == [busy |-> FALSE, items |-> {}]
Idle == [step |-> "none", kind |-> "outliers", mode |-> "immediate", payload |-> NoPayload, face |-> 0,
         key |-> NoKey, copy |-> <<>>]

EntryFaces(s) == {e.face : e \in ToSet(s)}
RefsOf(s) == UNION {x.refs : x \in ToSet(s)}
Decided(s) == {e.face : e \in {x \in ToSet(s) : x.st # "review"}}
Excluded(s) == {e.face : e \in {x \in ToSet(s) : x.st = "selected"}}
Empty == [m \in Image |-> "none"]
Working == run.pc # "none"
Stopping == run.kind \in stop
Continued(r) == r.resume /\ r.mode = "immediate"
List(r) == IF r.kind = "outliers" THEN r.built ELSE r.who
(* What a scan looks for at number j of its list.                            *)
Sought(k, list, j) ==
  CASE k = "build" -> {f \in FacesOf(list[j]) : WithinLimit(f)}
    [] k = "outliers" -> list[j].refs \cap Notable
    [] k = "suggest" -> FacesOf(list[j])
    [] k = "assign" -> FacesOf(list[j]) \cap Notable
Passed(r) == UNION {Sought(r.kind, List(r), j) : j \in {n \in DOMAIN r.who : n < r.i}}
Seen(r) == r.seen \cup Passed(r)

BuiltBefore ==
  LET refs == [p \in Known |-> {f \in Face : PersonOf[f] = p /\ WithinLimit(f) /\ ImageOf[f] \notin Absent}]
      who == Sorted({p \in Known : refs[p] # {}})
  IN  [n \in DOMAIN who |-> [person |-> who[n], refs |-> refs[who[n]]]]

Init ==
  /\ profiles \in [Key -> {<<>>, BuiltBefore}]
  /\ active = [k \in Review |-> NoPayload] /\ stored = [k \in Review |-> NoPayload]
  /\ cache = Empty
  /\ run = NoRun /\ running = FALSE /\ stop = {}
  /\ fetch = NoFetch /\ orphans = {} /\ reviewer = Idle
  /\ moved = {}
  /\ starts = 0 /\ trouble = 0 /\ reviews = 0
  /\ unread = {} /\ late = {}
-----------------------------------------------------------------------------
Trouble == trouble < MaxTrouble /\ trouble' = trouble + 1
Calm == UNCHANGED trouble

(* start.  The progress is checked; that its thread works as well is a bound *)
(* on the model: a decision that is reported during a scan says it has ended.*)
(* A scan is resumed where the user interface offers it, with a list there.  *)
Start(k, key, m, resume, auto) ==
  /\ ~running /\ ~Working
  /\ k = "build" => m = "immediate" /\ ~resume /\ ~auto
  /\ resume => active[k] # NoPayload
  /\ starts < MaxStarts /\ starts' = starts + 1
  /\ active' = IF k = "build" \/ resume THEN active ELSE [active EXCEPT ![k] = NoPayload]
  /\ running' = TRUE /\ stop' = stop \ {k}
  /\ run' = [NoRun EXCEPT !.pc = "begin", !.kind = k, !.key = key, !.mode = m, !.resume = resume, !.auto = auto]
  /\ UNCHANGED <<profiles, stored, cache, fetch, orphans, reviewer, moved, trouble, reviews,
                 unread, late>>

RequestStop ==
  /\ Working /\ stop' = stop \cup {run.kind}
  /\ UNCHANGED <<profiles, active, stored, cache, run, running, fetch, orphans, reviewer, moved,
                 starts, trouble, reviews, unread, late>>

(* _write_findings *)
WriteFindings(r, payload) ==
  IF r.mode = "immediate"
  THEN active' = [active EXCEPT ![r.kind] = payload] /\ UNCHANGED stored
  ELSE stored' = [stored EXCEPT ![r.kind] = payload] /\ UNCHANGED active
WriteNothing == UNCHANGED <<active, stored>>
Plain(r) == [NoPayload EXCEPT !.there = TRUE, !.key = r.key, !.entries = r.entries,
                              !.over = r.over, !.lists = r.lists, !.seen = Seen(r)]

(* The thread ends; a thread that still reads ahead is left alone.  What the *)
(* cache holds between runs is left out: each run that reads it clears it.   *)
Ends ==
  /\ run' = NoRun /\ running' = FALSE /\ fetch' = NoFetch
  /\ orphans' = IF fetch.busy THEN orphans \cup {[kind |-> run.kind, items |-> fetch.items]} ELSE orphans
  /\ cache' = Empty /\ unread' = {}

(* A scan that excludes what it finds, in the stored list first; and what    *)
(* that list excludes and a scan or a request is taking out of its profiles. *)
SavesExclusions == run.kind = "outliers" /\ run.mode = "save_only" /\ run.auto
Out == Excluded(stored["outliers"].entries)
OutKey == stored["outliers"].key
Removing == {"exclude", "rewrite"}
Applying == IF run.pc \in Removing /\ SavesExclusions /\ run.key = OutKey THEN EntryFaces(run.entries) ELSE {}
Deciding == IF reviewer.step \in Removing /\ reviewer.key = OutKey THEN {reviewer.face} ELSE {}

Raise ==
  /\ Working /\ Trouble /\ Ends
  /\ late' = late \cup Applying
  /\ UNCHANGED <<profiles, active, stored, stop, reviewer, moved, starts, reviews>>
-----------------------------------------------------------------------------
(* The list a scan looks at first.                                           *)
Previous(r) ==
  CASE r.resume -> active[r.kind]
    [] ~r.resume /\ (r.mode = "save_only" \/ active[r.kind] = NoPayload) -> stored[r.kind]
    [] OTHER -> active[r.kind]
Own == profiles[run.key]
BeginBuild ==
  /\ run.pc = "begin" /\ run.kind = "build"
  /\ cache' = Empty /\ unread' = {}
  /\ \E rebuild \in BOOLEAN :
       LET kept == IF rebuild THEN <<>> ELSE Own
       IN  run' = [run EXCEPT !.pc = "exclusions", !.built = kept,
                     !.who = Sorted(Known \ {x.person : x \in ToSet(kept)})]
  /\ UNCHANGED <<running, fetch, orphans, late>>
(* Only with exclude_outliers; a build without it takes all faces up again.  *)
ReadExclusions ==
  /\ run.pc = "exclusions"
  /\ \E exclude_outliers \in BOOLEAN :
       /\ run' = [run EXCEPT !.pc = "person", !.excluded = IF exclude_outliers THEN Out ELSE {}]
       /\ late' = IF exclude_outliers \/ run.key # OutKey THEN late ELSE late \cup Out
  /\ UNCHANGED <<cache, unread, running, fetch, orphans>>

(* Where a scan goes on: behind the finding it was paused at, or behind the  *)
(* last one decided on (assignments: the last one).                          *)
LastDecided(s) == SelectLastInSeq(s, LAMBDA e : e.st # "review")
CursorAt(previous, n, After(_)) ==
  IF n = 0 THEN previous
  ELSE LET f == previous.entries[n].face
       IN  [previous EXCEPT !.person = PersonOf[f], !.after = After(f)]
FaceItself(f) == f
ResumeOutliers(previous) == CursorAt(previous, LastDecided(previous.entries), FaceItself)
ResumeSuggest(previous) == CursorAt(previous, LastDecided(previous.entries), LAMBDA f : ImageOf[f])
ResumeAssign(previous) == CursorAt(previous, Len(previous.entries), LAMBDA f : ImageOf[f])
IndexAfter(who, c) == IF c.person = 0 THEN c.start ELSE c.start + 1
IndexOf(who, c) ==
  IF c.person # 0 /\ \E n \in DOMAIN who : who[n] = c.person
  THEN CHOOSE n \in DOMAIN who : who[n] = c.person ELSE c.start

(* What lies in front of the place a scan goes on at.  Once the list has     *)
(* changed the place is another one, and who is in front of it may never     *)
(* have been looked at; and a new check of assignments starts at the place   *)
(* an old one was paused at, if the list of that is still there.             *)
FrontOf(k, list, j, after) ==
  {f \in Sought(k, list, j) : IF k = "outliers" THEN f <= after ELSE ImageOf[f] < after}
InFront(r) ==
  Passed(r) \cup
  (IF r.i \in DOMAIN r.who /\ r.who[r.i] = r.person THEN FrontOf(r.kind, List(r), r.i, r.after) ELSE {})
LeftOut(r, previous) ==
  IF ~Continued(r) THEN InFront(r)
  ELSE previous.over \cup (IF previous.lists = {List(r)} THEN {} ELSE InFront(r) \ previous.seen)
Listed(r, who, c, active_) ==
  LET previous == Previous(r)
      n == IF active_ THEN IndexOf(who, c) ELSE 1
      at == [r EXCEPT !.pc = "person", !.who = who, !.i = n, !.start = n, !.pre = n,
               !.person = IF active_ THEN c.person ELSE 0, !.after = IF active_ THEN c.after ELSE 0,
               !.entries = IF Continued(r) THEN previous.entries ELSE <<>>,
               !.resolved = Decided(previous.entries), !.built = Own,
               !.seen = IF Continued(r) THEN previous.seen ELSE {}]
  IN  [at EXCEPT !.over = LeftOut(at, previous),
                 !.lists = (IF Continued(r) THEN previous.lists ELSE {}) \cup {List(at)}]

BeginOutliers ==
  /\ run.pc = "begin" /\ run.kind = "outliers"
  /\ run' = Listed(run, [n \in DOMAIN Own |-> Own[n].person],
                   IF Continued(run) THEN ResumeOutliers(Previous(run)) ELSE Previous(run), Continued(run))
  /\ UNCHANGED <<cache, unread, running, fetch, orphans, late>>
BeginSuggest ==
  /\ run.pc = "begin" /\ run.kind = "suggest" /\ RefsOf(Own) # {}
  /\ cache' = Empty /\ unread' = {}
  /\ run' = Listed(run, Sorted({p \in Person \ Known : FacesOf(p) # {}}),
                   IF Continued(run) THEN ResumeSuggest(Previous(run)) ELSE Previous(run), Continued(run))
  /\ UNCHANGED <<running, fetch, orphans, late>>
(* The cursor of an assignment check is used by every continued scan.        *)
BeginAssign ==
  /\ run.pc = "begin" /\ run.kind = "assign" /\ RefsOf(Own) # {}
  /\ cache' = Empty /\ unread' = {}
  /\ run' = Listed(run, Sorted(Known),
                   IF Continued(run) THEN ResumeAssign(Previous(run)) ELSE Previous(run), TRUE)
  /\ UNCHANGED <<running, fetch, orphans, late>>
NeedsProfiles ==
  /\ run.pc = "begin" /\ run.kind \in {"suggest", "assign"} /\ RefsOf(Own) = {}
  /\ cache' = Empty /\ unread' = {} /\ run' = NoRun /\ running' = FALSE
  /\ UNCHANGED <<fetch, orphans, late>>

Beginning ==
  /\ BeginBuild \/ ReadExclusions \/ BeginOutliers \/ BeginSuggest \/ BeginAssign \/ NeedsProfiles
  /\ UNCHANGED <<profiles, active, stored, stop, reviewer, moved, starts, trouble, reviews>>
-----------------------------------------------------------------------------
(* Ends between two steps: what a stopped scan has found is stored, without  *)
(* a place to go on from.                                                    *)
Stopped ==
  /\ Ends
  /\ IF run.entries = <<>> THEN WriteNothing ELSE WriteFindings(run, Plain(run))
  /\ late' = IF SavesExclusions THEN late \cup EntryFaces(run.entries) ELSE late
  /\ UNCHANGED <<profiles>>
StoppedBuild ==
  /\ Ends
  /\ profiles' = [profiles EXCEPT ![run.key] = run.built]
  /\ WriteNothing /\ UNCHANGED late

(* The images of a person still to be looked at.                             *)
AfterOf(r) ==
  IF (IF r.kind = "assign" THEN r.who[r.i] = r.person ELSE r.i = r.start) THEN r.after ELSE 0
Behind(S, m) == {x \in S : m = 0 \/ (m \in S /\ x > m)}
PassedOver(r) ==
  LET images == ImagesOf(r.who[r.i])
      m == AfterOf(r)
  IN  {f \in FacesOf(r.who[r.i]) :
         /\ ImageOf[f] \notin Behind(images, m)
         /\ m \in images /\ r.who[r.i] = r.person => ImageOf[f] = m}
OpenPerson ==
  /\ run' = [run EXCEPT !.pc = "image", !.at = 1, !.refs = {},
                        !.items = Sorted(Behind(ImagesOf(run.who[run.i]), AfterOf(run))),
                        !.over = @ \cup PassedOver(run)]
  /\ running' = TRUE
AtPerson == run.pc = "person" /\ run.i <= Len(run.who)

Detected(W, missing) ==
  [m \in Image |-> IF m \notin W THEN cache[m] ELSE IF m \in missing THEN "empty" ELSE "read"]
(* A batch comes back; images missing in the result count as ones without    *)
(* a face.                                                                   *)
BatchRead(W) ==
  \/ cache' = Detected(W, {}) /\ Calm /\ UNCHANGED unread
  \/ \E m \in W : cache' = Detected(W, {m}) /\ Trouble /\ unread' = unread \cup {m}
Unchanged == UNCHANGED <<cache, trouble, unread>>

(* _preload_person_reference_embeddings: the first images nobody has read,   *)
(* across the persons from the present one on.                               *)
Ahead == {a \in (run.i .. Len(run.who)) \X Image :
            a[2] \in ImagesOf(run.who[a[1]]) \ Absent /\ cache[a[2]] = "none"}
Earlier(a) == {b \in Ahead : b[1] < a[1] \/ (b[1] = a[1] /\ b[2] < a[2])}
PreloadItems == {a \in Ahead : Cardinality(Earlier(a)) < Batch}
PreloadNext ==
  IF Cardinality(PreloadItems) < Batch THEN Len(run.who) + 1
  ELSE 1 + CHOOSE j \in {a[1] : a \in PreloadItems} : \A a \in PreloadItems : a[1] <= j
PreloadDue == run.kind \in {"suggest", "assign"} /\ run.i >= run.pre
              /\ ~(run.kind = "assign" /\ run.after # 0 /\ run.who[run.i] = run.person)
Preload ==
  /\ AtPerson /\ PreloadDue /\ ~Stopping
  /\ run' = [run EXCEPT !.pre = PreloadNext]
  /\ IF Cardinality(PreloadItems) > 1 THEN BatchRead({a[2] : a \in PreloadItems}) ELSE Unchanged
  /\ UNCHANGED <<profiles, active, stored, running, fetch, orphans, late>>

NextPerson ==
  /\ AtPerson /\ run.kind # "outliers" /\ ~PreloadDue /\ ~Stopping
  /\ OpenPerson
  /\ UNCHANGED <<profiles, active, stored, cache, fetch, orphans, trouble, unread, late>>

(* The references of a profile that do not fit it.                           *)
NextProfile ==
  /\ AtPerson /\ run.kind = "outliers" /\ ~Stopping
  /\ LET refs == run.built[run.i].refs
         left == Behind(refs, AfterOf(run))
     IN  run' = [run EXCEPT !.pc = "entry", !.rest = Sorted((left \cap Notable) \ run.resolved),
                   !.over = @ \cup (left \cap run.resolved)
                              \cup (IF AfterOf(run) \in refs \cup {0} THEN {} ELSE refs)]
  /\ UNCHANGED <<profiles, active, stored, cache, running, fetch, orphans, trouble, unread, late>>

StopAtPerson ==
  /\ AtPerson /\ Stopping
  /\ IF run.kind = "build" THEN StoppedBuild ELSE Stopped
  /\ Calm

(* Everyone has been looked at.                                              *)
EndBuild ==
  /\ run.pc = "person" /\ run.i > Len(run.who) /\ run.kind = "build"
  /\ StoppedBuild /\ Calm
EndScan ==
  /\ run.pc = "person" /\ run.i > Len(run.who) /\ run.kind # "build"
  /\ WriteFindings(run, Plain(run))
  /\ IF run.kind = "outliers" /\ run.auto
     THEN run' = [run EXCEPT !.pc = "exclude"] /\ UNCHANGED <<running, fetch, orphans, cache, unread>>
     ELSE Ends
  /\ UNCHANGED <<profiles, trouble, late>>

(* _apply_exclusions_to_profiles: the profiles are read, and written if they *)
(* have changed.  A request that has read them as well writes what it has.   *)
ExcludedNowhere(s, F) == s
WithoutRefs(s, F) == [n \in DOMAIN s |-> [s[n] EXCEPT !.refs = @ \ F]]
HeldByRequest ==
  IF reviewer.step = "rewrite" /\ reviewer.key = run.key THEN RefsOf(reviewer.copy) ELSE {}
Applied == Ends /\ late' = late \cup (Applying \cap HeldByRequest)
ReadToExclude ==
  /\ run.pc = "exclude"
  /\ LET left == WithoutRefs(Own, EntryFaces(run.entries))
     IN  \/ left = Own /\ Applied
         \/ /\ left # Own /\ run' = [run EXCEPT !.pc = "rewrite", !.copy = left]
            /\ UNCHANGED <<running, fetch, orphans, cache, unread, late>>
  /\ UNCHANGED <<profiles, active, stored, trouble>>
ApplyExclusions ==
  /\ run.pc = "rewrite"
  /\ profiles' = [profiles EXCEPT ![run.key] = run.copy]
  /\ Applied
  /\ UNCHANGED <<active, stored, trouble>>

Listing ==
  /\ \/ Preload \/ NextPerson \/ NextProfile \/ StopAtPerson \/ EndBuild \/ EndScan
     \/ ReadToExclude \/ ApplyExclusions
  /\ UNCHANGED <<stop, reviewer, moved, starts, reviews>>
-----------------------------------------------------------------------------
(* _person_references: the images of one person.                             *)
Looking(pc) == run.pc = pc
Here == run.items[run.at]
Goto(pc) == run' = [run EXCEPT !.pc = pc]
ToMatch == run' = [run EXCEPT !.pc = "match", !.window = {}, !.next = "match"]
NextAt == run' = [run EXCEPT !.pc = "image", !.at = @ + 1]

LimitReached == run.kind = "build" /\ Limit > 0 /\ Cardinality(run.refs) >= Limit
LookAtImage ==
  /\ Looking("image")
  /\ IF run.at > Len(run.items) \/ LimitReached \/ Stopping THEN Goto("drain") /\ UNCHANGED running
     ELSE IF Here \in Absent THEN NextAt /\ UNCHANGED running
     ELSE Goto(IF Here \in fetch.items THEN "join" ELSE "read") /\ running' = TRUE
  /\ UNCHANGED <<fetch, orphans>> /\ Unchanged

(* finish_prefetch_if_needed *)
Abandon ==
  /\ fetch' = NoFetch
  /\ orphans' = IF fetch.busy THEN orphans \cup {[kind |-> run.kind, items |-> fetch.items]} ELSE orphans
JoinPrefetch ==
  /\ Looking("join")
  /\ \/ Stopping /\ Abandon /\ Goto("drain")
     \/ ~Stopping /\ ~fetch.busy /\ fetch' = NoFetch /\ Goto("read") /\ UNCHANGED orphans
  /\ UNCHANGED running /\ Unchanged

(* collect_batch_items *)
Candidates(at) ==
  {run.items[n] : n \in {k \in at .. (at + Batch - 1) :
     k <= Len(run.items) /\ run.items[k] \notin Absent /\ cache[run.items[k]] = "none"}}
BehindWindow == 1 + CHOOSE n \in DOMAIN run.items :
  run.items[n] \in run.window /\ \A m \in run.window : m <= run.items[n]

(* An image that cannot be read is read from its preview, or has no faces.   *)
ReadPreview(m) ==
  /\ Trouble /\ ToMatch
  /\ \/ cache' = Detected({m}, {}) /\ UNCHANGED unread
     \/ cache' = Detected({m}, {m}) /\ unread' = unread \cup {m}
ReadImage ==
  /\ Looking("read")
  /\ LET W == Candidates(run.at)
     IN  \/ cache[Here] # "none" /\ Goto("match") /\ Unchanged
         \/ cache[Here] = "none" /\ Stopping /\ Goto("drain") /\ Unchanged
         \/ /\ cache[Here] = "none" /\ ~Stopping /\ Cardinality(W) > 1
            /\ \/ run' = [run EXCEPT !.pc = "launch", !.window = W, !.next = "result"]
               \/ run' = [run EXCEPT !.pc = "result", !.window = W, !.next = "launch"]
            /\ Unchanged
         \/ /\ cache[Here] = "none" /\ ~Stopping /\ Cardinality(W) <= 1
            /\ \/ cache' = Detected({Here}, {}) /\ Calm /\ Goto("match") /\ UNCHANGED unread
               \/ ReadPreview(Here)
  /\ UNCHANGED <<running, fetch, orphans>>

(* start_prefetch, before the own result when the batch was submitted, and   *)
(* behind it when it was read at once.                                       *)
LaunchPrefetch ==
  /\ Looking("launch")
  /\ LET ahead == Candidates(BehindWindow)
     IN  \/ /\ Stopping \/ BehindWindow > Len(run.items)
            /\ UNCHANGED fetch
         \/ /\ ~Stopping /\ BehindWindow <= Len(run.items) /\ ~fetch.busy
            /\ fetch' = IF Cardinality(ahead) > 1 THEN [busy |-> TRUE, items |-> ahead] ELSE NoFetch
  /\ IF run.next = "result" THEN Goto("result") ELSE ToMatch
  /\ UNCHANGED <<running, orphans>> /\ Unchanged

(* run_batch, finish_batch_handle: a stop drops the result.                  *)
Result == IF run.next = "launch" THEN Goto("launch") ELSE ToMatch
ReadBatch ==
  /\ Looking("result")
  /\ \/ Stopping /\ Result /\ Unchanged
     \/ ~Stopping /\ BatchRead(run.window) /\ Result
     \/ ~Stopping /\ ReadPreview(Here)
  /\ UNCHANGED <<running, fetch, orphans>>

(* The faces Photos has of the person on the image.                          *)
FacesHere == {f \in FacesOf(run.who[run.i]) : ImageOf[f] = Here}
MatchFaces ==
  /\ Looking("match")
  /\ IF Stopping THEN Goto("drain")
     ELSE run' = [run EXCEPT !.pc = "image", !.at = @ + 1,
                    !.refs = IF cache[Here] = "read" THEN @ \cup FacesHere ELSE @,
                    !.over = IF cache[Here] # "read" /\ Here \in unread THEN @ \cup FacesHere ELSE @]
  /\ UNCHANGED <<running, fetch, orphans>> /\ Unchanged

Drain ==
  /\ Looking("drain")
  /\ \/ fetch.items = {} /\ UNCHANGED <<fetch, orphans>>
     \/ fetch.items # {} /\ Stopping /\ Abandon
     \/ fetch.items # {} /\ ~Stopping /\ ~fetch.busy /\ fetch' = NoFetch /\ UNCHANGED orphans
  /\ Goto("judge")
  /\ UNCHANGED running /\ Unchanged

Reading ==
  /\ LookAtImage \/ JoinPrefetch \/ ReadImage \/ LaunchPrefetch \/ ReadBatch \/ MatchFaces \/ Drain
  /\ UNCHANGED <<profiles, active, stored, stop, reviewer, moved, starts, reviews, late>>

(* The threads that read ahead look at the stop request of their own action. *)
ReadAhead(W, kind) ==
  \/ kind \in stop /\ Unchanged
  \/ kind \notin stop /\ BatchRead(W)
  \/ kind \notin stop /\ Trouble /\ UNCHANGED <<cache, unread>>
Prefetched ==
  /\ fetch.busy /\ fetch' = [fetch EXCEPT !.busy = FALSE]
  /\ ReadAhead(fetch.items, run.kind)
  /\ UNCHANGED <<profiles, active, stored, run, running, stop, orphans, reviewer, moved, starts,
                 reviews, late>>
OrphanEnds(o) ==
  /\ orphans' = orphans \ {o}
  /\ ReadAhead(o.items, o.kind)
  /\ UNCHANGED <<profiles, active, stored, run, running, stop, fetch, reviewer, moved, starts,
                 reviews, late>>

(* Another user's run starts with an empty cache, which is this one's too.   *)
ResetCache ==
  /\ Working /\ cache # Empty /\ Trouble
  /\ cache' = Empty /\ unread' = unread \cup {m \in Image : cache[m] # "none"}
  /\ UNCHANGED <<profiles, active, stored, run, running, stop, fetch, orphans, reviewer, moved,
                 starts, reviews, late>>
-----------------------------------------------------------------------------
(* What the images of a person give.                                         *)
NextOne == run' = [run EXCEPT !.pc = "person", !.i = @ + 1]
BuildProfile ==
  /\ Looking("judge") /\ run.kind = "build"
  /\ \/ Stopping /\ StoppedBuild
     \/ /\ ~Stopping
        /\ LET refs == run.refs \ run.excluded
               built == IF refs = {} THEN run.built ELSE Append(run.built, [person |-> run.who[run.i], refs |-> refs])
           IN  /\ profiles' = [profiles EXCEPT ![run.key] = built]
               /\ run' = [run EXCEPT !.pc = "person", !.i = @ + 1, !.built = built,
                             !.items = <<>>, !.refs = {}]
        /\ running' = TRUE
        /\ UNCHANGED <<active, stored, cache, unread, fetch, orphans, late>>
FindCandidates ==
  /\ Looking("judge") /\ run.kind # "build"
  /\ \/ Stopping /\ Stopped
     \/ /\ ~Stopping
        /\ LET left == run.refs \ run.resolved
           IN  run' = [run EXCEPT !.pc = "entry", !.items = <<>>, !.refs = {},
                         !.rest = Sorted(IF run.kind = "assign" THEN left \cap Notable ELSE left),
                         !.over = @ \cup (run.refs \cap run.resolved)]
        /\ UNCHANGED <<profiles, active, stored, cache, unread, running, fetch, orphans, late>>

EndPerson ==
  /\ Looking("entry") /\ run.rest = <<>>
  /\ NextOne
  /\ UNCHANGED <<profiles, active, stored, cache, unread, running, fetch, orphans, late>>
StopAtEntry ==
  /\ Looking("entry") /\ run.rest # <<>> /\ Stopping
  /\ Stopped

(* A finding is added; in immediate mode the scan ends at one that needs a   *)
(* decision and stores where it is (_resume_scan_options).                   *)
Selected(f) == run.auto /\ (run.kind = "outliers" \/ f \in Safe)
Added == Append(run.entries, [face |-> run.rest[1], st |-> IF Selected(run.rest[1]) THEN "selected" ELSE "review"])
AddEntry ==
  /\ Looking("entry") /\ run.rest # <<>> /\ ~Stopping
  /\ run.mode = "save_only" \/ Selected(run.rest[1])
  /\ run' = [run EXCEPT !.entries = Added, !.rest = Tail(@)]
  /\ UNCHANGED <<profiles, active, stored, cache, unread, running, fetch, orphans, late>>
PauseForReview ==
  /\ Looking("entry") /\ run.rest # <<>> /\ ~Stopping
  /\ run.mode = "immediate" /\ ~Selected(run.rest[1])
  /\ active' = [active EXCEPT ![run.kind] =
       [Plain(run) EXCEPT !.entries = Added, !.start = run.i, !.person = run.who[run.i],
          !.after = IF run.kind = "outliers" THEN run.rest[1] ELSE ImageOf[run.rest[1]]]]
  /\ Ends
  /\ UNCHANGED <<profiles, stored, late>>

Judging ==
  /\ BuildProfile \/ FindCandidates \/ EndPerson \/ StopAtEntry \/ AddEntry \/ PauseForReview
  /\ UNCHANGED <<stop, reviewer, moved, starts, reviews, trouble>>
-----------------------------------------------------------------------------
(* A request that decides on an entry, or carries decisions out: it takes    *)
(* the list, marks entries, writes the whole list back, takes an excluded    *)
(* face out of the profiles, and reports how many entries are still open.    *)
ListOf(k, m) == IF m = "immediate" THEN active[k] ELSE stored[k]
Marked(s, f, st) == [n \in DOMAIN s |-> IF s[n].face = f THEN [s[n] EXCEPT !.st = st] ELSE s[n]]
StateIn(s, f) == LET n == CHOOSE n \in DOMAIN s : s[n].face = f IN s[n].st

(* The entries of an active list are marked where everyone sees them, also a *)
(* scan that goes on with the list.                                          *)
Shared(k, m, f, st) ==
  IF m = "immediate"
  THEN /\ active' = [active EXCEPT ![k].entries = Marked(@, f, st)]
       /\ run' = IF run.kind = k /\ Continued(run) THEN [run EXCEPT !.entries = Marked(@, f, st)] ELSE run
  ELSE UNCHANGED <<active, run>>
Take(k, m, f, st) ==
  /\ Shared(k, m, f, st)
  /\ reviewer' = [step |-> "write", kind |-> k, mode |-> m, face |-> f,
                  key |-> NoKey, copy |-> <<>>,
                  payload |-> [ListOf(k, m) EXCEPT !.entries = Marked(@, f, st)]]
  /\ reviews < MaxReviews /\ reviews' = reviews + 1

(* update_review                                                             *)
Decide(k, m, f) ==
  /\ reviewer.step = "none"
  /\ f \in EntryFaces(ListOf(k, m).entries) /\ StateIn(ListOf(k, m).entries, f) = "review"
  /\ \E d \in {"selected", "skipped"} : Take(k, m, f, d)
  /\ UNCHANGED <<moved, trouble>>

(* apply_suggestions with one suggestion, which was selected before.         *)
Apply(k, m, f) ==
  /\ reviewer.step = "none" /\ k # "outliers"
  /\ f \in EntryFaces(ListOf(k, m).entries) /\ StateIn(ListOf(k, m).entries, f) = "selected"
  /\ \/ Take(k, m, f, "written") /\ moved' = moved \cup {f} /\ Calm
     \/ Take(k, m, f, "failed") /\ Trouble /\ UNCHANGED moved

Excludes == reviewer.kind = "outliers" /\ StateIn(reviewer.payload.entries, reviewer.face) = "selected"
(* Exclusions of the list it has read that the stored list has lost since,   *)
(* all of them if that list is one of another key by now.                    *)
BroughtBack ==
  IF reviewer.kind = "outliers" /\ reviewer.mode = "save_only"
  THEN Excluded(reviewer.payload.entries) \
         ((IF reviewer.payload.key = OutKey THEN Out ELSE {}) \cup (IF Excludes THEN {reviewer.face} ELSE {}))
  ELSE {}
WriteDecision ==
  /\ reviewer.step = "write"
  /\ WriteFindings([mode |-> reviewer.mode, kind |-> reviewer.kind], reviewer.payload)
  /\ reviewer' = [reviewer EXCEPT !.step = IF Excludes THEN "exclude" ELSE "sync",
                                  !.key = reviewer.payload.key, !.payload = NoPayload]
  /\ late' = late \cup BroughtBack
  /\ UNCHANGED <<profiles, run, running, moved, reviews, trouble>>

(* A scan that has read the profiles, or a build that did not exclude the    *)
(* face when it began, writes its own profiles behind this.                  *)
Undone(f) ==
  /\ run.key = reviewer.key
  /\ \/ run.kind = "build" /\ run.pc \notin {"none", "begin"} /\ f \in RefsOf(run.built)
     \/ run.kind = "build" /\ run.pc \notin {"none", "begin", "exclusions"} /\ f \notin run.excluded
     \/ run.pc = "rewrite" /\ f \in RefsOf(run.copy)
Carried ==
  /\ late' = (late \ Deciding) \cup {f \in Deciding : Undone(f)}
  /\ reviewer' = [reviewer EXCEPT !.step = "sync", !.copy = <<>>]
ReadForDecision ==
  /\ reviewer.step = "exclude"
  /\ LET all == profiles[reviewer.key]
         left == WithoutRefs(all, {reviewer.face})
     IN  \/ left = all /\ Carried
         \/ /\ left # all /\ reviewer' = [reviewer EXCEPT !.step = "rewrite", !.copy = left]
            /\ UNCHANGED late
  /\ UNCHANGED <<profiles, active, stored, run, running, moved, reviews, trouble>>
Exclude ==
  /\ reviewer.step = "rewrite"
  /\ profiles' = [profiles EXCEPT ![reviewer.key] = reviewer.copy]
  /\ Carried
  /\ UNCHANGED <<active, stored, run, running, moved, reviews, trouble>>

(* A list or a store that cannot be read or written ends the request; what   *)
(* is marked stays marked.                                                   *)
DecisionFails ==
  /\ reviewer.step \in Removing \/ (reviewer.step = "write" /\ reviewer.mode = "save_only")
  /\ Trouble
  /\ late' = late \cup Deciding /\ reviewer' = Idle
  /\ UNCHANGED <<profiles, active, stored, run, running, moved, reviews>>

(* sync_review_progress: the review is reported as not running, also while   *)
(* its scan works.                                                           *)
Sync ==
  /\ reviewer.step = "sync"
  /\ reviewer' = Idle /\ running' = FALSE
  /\ UNCHANGED <<profiles, late, active, stored, run, moved, reviews, trouble>>

Reviewing ==
  /\ \/ \E k \in Review, m \in {"immediate", "save_only"}, f \in Face :
          /\ Decide(k, m, f) \/ Apply(k, m, f)
          /\ UNCHANGED <<profiles, stored, late, running>>
     \/ WriteDecision \/ ReadForDecision \/ Exclude \/ DecisionFails \/ Sync
  /\ UNCHANGED <<cache, stop, fetch, orphans, starts, unread>>
-----------------------------------------------------------------------------
Scanning == Beginning \/ Listing \/ Reading \/ Judging

Next ==
  \/ \E k \in Review \cup {"build"}, key \in Key, m \in {"immediate", "save_only"},
        resume, auto \in BOOLEAN : Start(k, key, m, resume, auto)
  \/ RequestStop \/ Raise
  \/ Scanning
  \/ Prefetched \/ \E o \in orphans : OrphanEnds(o)
  \/ ResetCache
  \/ Reviewing

Spec == Init /\ [][Next]_vars
-----------------------------------------------------------------------------
TypeOK ==
  /\ \A key \in Key : ToSet(profiles[key]) \subseteq [person : Known, refs : SUBSET Face]
  /\ \A k \in Review : /\ ToSet(active[k].entries) \subseteq [face : Face, st : State]
                       /\ ToSet(stored[k].entries) \subseteq [face : Face, st : State]
  /\ cache \in [Image -> {"none", "read", "empty"}]
  /\ run.kind \in Review \cup {"build"} /\ run.key \in Key \cup {NoKey} /\ run.i \in Nat /\ run.at \in Nat
  /\ run.refs \subseteq Face /\ ToSet(run.rest) \subseteq Face
  /\ running \in BOOLEAN /\ stop \subseteq Review \cup {"build"}
  /\ fetch.items \subseteq Image \ Absent
  /\ moved \subseteq Face /\ run.over \subseteq Face /\ late \subseteq Face /\ unread \subseteq Image

FoundSoFar ==
  IF run.kind = "build" THEN RefsOf(run.built) \cup run.excluded ELSE EntryFaces(run.entries)

(* A scan that has passed a person has found every face it looks for there,  *)
(* however often it was paused, decided on, stopped and resumed and whatever *)
(* was read ahead, but for what is passed over by name: faces decided on     *)
(* before or behind the place a person is resumed at on the same image, and  *)
(* images whose result was lost.  Three more are what the code does when the *)
(* place it was paused at is gone: no image or reference of a person is      *)
(* looked at once the one to resume behind has left that person; of a list   *)
(* that has changed neither who is in front of the index and was not passed  *)
(* before nor, behind an image of another person, the one at it; and a check *)
(* of assignments that was not asked to go on starts, if it finds the place  *)
(* an earlier one was paused at, there.                                      *)
NothingSkipped ==
  run.pc \notin {"none", "begin", "exclusions"} =>
    \A f \in Seen(run) :
      f \in FoundSoFar \cup run.over \/ (run.kind # "outliers" /\ ImageOf[f] \in Absent)

(* A face the stored list excludes is in no profile of the key that list was *)
(* found under, but while the scan or the request that excludes it is about  *)
(* to take it out, and but for what is named in late: exclusions undone by a *)
(* build that does not exclude outliers, or has read profiles or exclusions  *)
(* before; by a scan or a request that has read the profiles before the face *)
(* was taken out and writes them behind it; never applied, by a scan or a    *)
(* request that ends before; and those of a list another scan has replaced,  *)
(* when a decision that had read it before writes it back.                   *)
ExcludedStaysOut ==
  \A key \in Key : key = OutKey =>
    Out \cap RefsOf(profiles[key]) \subseteq late \cup Applying \cup Deciding
=============================================================================

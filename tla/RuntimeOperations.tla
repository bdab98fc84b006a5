------------------------- MODULE RuntimeOperations -------------------------
(***************************************************************************)
(* The long operations of the backend for one user: file analysis, face    *)
(* matching, the checks scans and the cleanup actions.  A start request    *)
(* (an executor thread) looks at the progress of the other operations one  *)
(* after the other, writes its own progress and launches a daemon thread,  *)
(* the run, which reports into that progress until it writes running =     *)
(* FALSE and ends.  Progress lives in memory and in the database: memory   *)
(* is changed under a lock, the record is persisted after its release.     *)
(* A progress is reduced to what starts and stops look at; its counters,   *)
(* messages and resume cursors are left out.                               *)
(***************************************************************************)
EXTENDS Naturals, FiniteSets

CONSTANTS
  FileAnalysis, FaceMatch, Normalize, \* keys of their own
  Check,      \* the check types (name_conflicts, duplicate_faces, ...)
  Cleanup,    \* the cleanup actions, normalize_names among them
  Saving,     \* the checks scanned with save_only
  Refreshed,  \* the checks whose reviewed images are analysed anew
  Requested,  \* bound: the keys for which requests come
  Incident,   \* bound: what else happens, see below
  Starter,    \* executor threads that serve start requests
  Run,        \* bound: runs at a time
  Desk,       \* the thread that serves stop and review requests
  None

Key == {FileAnalysis, FaceMatch} \cup Check \cup Cleanup

ASSUME KeysAssumption ==
  /\ FileAnalysis # FaceMatch
  /\ {FileAnalysis, FaceMatch} \cap (Check \cup Cleanup) = {}
  /\ Check \cap Cleanup = {}
  /\ Normalize \in Cleanup
  /\ Saving \cup Refreshed \subseteq Check
  /\ Requested \subseteq Key
  /\ None \notin Key

(* stop: stop requests; review: findings reviews; stale: 120 s without a     *)
(* word from a stopping run; error: an auto-apply raises                     *)
(* ImgDataOperationError; restart: the backend.                              *)
ASSUME IncidentAssumption == Incident \subseteq {"stop", "review", "stale", "error", "restart"}

ASSUME ActorsAssumption ==
  /\ Starter \cap Run = {}
  /\ Desk \notin Starter \cup Run
  /\ None \notin Starter \cup Run \cup {Desk}

VARIABLES
  memory,   \* runtime_state.memory: Key -> Progress
  disk,     \* the persisted records: Key -> Progress
  thread,   \* file_analysis_threads["default"]: the registered run
  run,      \* Run -> the key it works on and where it stands
  starter,  \* Starter -> the key asked for and what is left to look at
  lock,     \* _checks_start_lock: its holder
  saving,   \* actor -> a record written to memory and not yet persisted
  review    \* a progress read for refresh_scan_progress_for_image

vars == <<memory, disk, thread, run, starter, lock, saving, review>>

Progress == [known : BOOLEAN, running : BOOLEAN, stop : BOOLEAN, stale : BOOLEAN]

Empty == [known |-> FALSE, running |-> FALSE, stop |-> FALSE, stale |-> FALSE]

Record(running, stop) == [known |-> TRUE, running |-> running, stop |-> stop, stale |-> FALSE]

Actor == Starter \cup Run \cup {Desk}

NoRun == [key |-> None, at |-> "idle"]

NoStart == [key |-> None, at |-> "idle", left |-> {}]

Init ==
  /\ memory = [k \in Key |-> Empty]
  /\ disk = [k \in Key |-> Empty]
  /\ thread = None
  /\ run = [r \in Run |-> NoRun]
  /\ starter = [s \in Starter |-> NoStart]
  /\ lock = None
  /\ saving = [a \in Actor |-> None]
  /\ review = None

-----------------------------------------------------------------------------
(* Writing and reading progress *)

(* _setChecksProgress and its like: the update of memory, under the lock.    *)
Write(a, k, p) ==
  /\ memory' = [memory EXCEPT ![k] = p]
  /\ saving' = [saving EXCEPT ![a] = [key |-> k, progress |-> p]]

(* ... and persist, after its release: another writer may come in between.   *)
Save(a) ==
  /\ saving[a] # None
  /\ disk' = [disk EXCEPT ![saving[a].key] = saving[a].progress]
  /\ saving' = [saving EXCEPT ![a] = None]
  /\ UNCHANGED <<memory, thread, run, starter, lock, review>>

(* A cleanup action without progress of its own shows the one that runs.     *)
RunningCleanup == {c \in Cleanup : memory[c].running}

ShownCleanup(k) ==
  IF memory[k].known THEN memory[k]
  ELSE IF Cardinality(RunningCleanup) = 1 THEN memory[CHOOSE c \in RunningCleanup : TRUE]
  ELSE disk[k]

(* What getFileAnalysisProgress, getFaceMatchingProgress, getChecksProgress  *)
(* and getCleanupProgress return.                                            *)
ShownByOwnKey(k) == IF memory[k].known THEN memory[k] ELSE disk[k]

Shown(k) ==
  CASE k = FileAnalysis ->
         IF memory[k].known /\ (thread # None \/ ~disk[k].known) THEN memory[k] ELSE disk[k]
    [] k \in Cleanup -> ShownCleanup(k)
    [] OTHER -> ShownByOwnKey(k)

(* is_blocking_running_progress *)
Blocking(p) == p.running /\ ~p.stale

-----------------------------------------------------------------------------
(* Start requests *)

LookAtOwn(k) == {k}

(* What a start looks at: of the cleanup actions the other operations ask    *)
(* for normalize_names only.                                                 *)
LookAt(k) == IF k \in Cleanup THEN Key ELSE Key \ (Cleanup \ {Normalize})

Siblings(k, q) == {k, q} \subseteq Check \/ {k, q} \subseteq Cleanup

(* The order in which it does.                                               *)
Rank(k, q) ==
  CASE q = k -> 0
    [] q # k /\ Siblings(k, q) -> 1
    [] q # k /\ q = FileAnalysis -> 2
    [] q # k /\ q = FaceMatch -> 3
    [] q # k /\ q \in Check /\ ~Siblings(k, q) -> 4
    [] OTHER -> 5

(* A stale stopping run does not block a start, except one of its own        *)
(* operation; a stale cleanup run is shown as ended to its own action too.   *)
Blocks(k, q) ==
  IF (q = k /\ k \notin Cleanup) \/ {k, q} \subseteq Check
  THEN Shown(q).running
  ELSE Blocking(Shown(q))

Busy == {s \in Starter : starter[s].at # "idle"}

Free == {r \in Run : run[r].at = "idle"}

ClearedWhole(k) == [Empty EXCEPT !.known = TRUE]

(* _clearChecksStopRequest, memory and record under one lock.                *)
Cleared(k) == [ShownByOwnKey(k) EXCEPT !.stop = FALSE, !.stale = FALSE]

ClearStop(k) ==
  IF ShownByOwnKey(k).stop
  THEN memory' = [memory EXCEPT ![k] = Cleared(k)] /\ disk' = [disk EXCEPT ![k] = Cleared(k)]
  ELSE UNCHANGED <<memory, disk>>

(* A start request arrives.  start_review clears the stop request of its     *)
(* type before it waits for the start lock.                                  *)
Ask(s, k) ==
  /\ starter[s].at = "idle"
  /\ k \in Requested
  /\ Cardinality(Free) > Cardinality(Busy)
  /\ \/ /\ k \in Check
        /\ ClearStop(k)
        /\ starter' = [starter EXCEPT ![s] = [key |-> k, at |-> "wait", left |-> LookAt(k)]]
     \/ /\ k \notin Check
        /\ starter' = [starter EXCEPT ![s] = [key |-> k, at |-> "look", left |-> LookAt(k)]]
        /\ UNCHANGED <<memory, disk>>
  /\ UNCHANGED <<thread, run, lock, saving, review>>

EnterableAtOnce == TRUE

Enterable == lock = None

EnterStart(s) ==
  /\ starter[s].at = "wait"
  /\ Enterable
  /\ lock' = s
  /\ starter' = [starter EXCEPT ![s].at = "look"]
  /\ UNCHANGED <<memory, disk, thread, run, saving, review>>

Keep(s) == lock' = lock

Release(s) == lock' = IF lock = s THEN None ELSE lock

(* The request is answered with the progress that blocks it.                 *)
Refuse(s, q) ==
  /\ Blocks(starter[s].key, q)
  /\ starter' = [starter EXCEPT ![s] = NoStart]
  /\ Release(s)

LookFurther(s, q) ==
  /\ ~Blocks(starter[s].key, q)
  /\ starter' = [starter EXCEPT ![s].left = @ \ {q}]
  /\ UNCHANGED lock

Look(s) ==
  /\ starter[s].at = "look"
  /\ \E q \in starter[s].left :
       /\ \A o \in starter[s].left : Rank(starter[s].key, q) <= Rank(starter[s].key, o)
       /\ Refuse(s, q) \/ LookFurther(s, q)
  /\ UNCHANGED <<memory, disk, thread, run, saving, review>>

Commit(s) ==
  /\ starter[s].at = "look"
  /\ starter[s].left = {}
  /\ Write(s, starter[s].key, Record(TRUE, FALSE))
  /\ starter' = [starter EXCEPT ![s].at = "launch"]
  /\ UNCHANGED <<disk, thread, run, lock, review>>

Launch(s) ==
  /\ starter[s].at = "launch"
  /\ saving[s] = None
  /\ \E r \in Free :
       /\ run' = [run EXCEPT ![r] = [key |-> starter[s].key, at |-> "work"]]
       /\ thread' = IF starter[s].key = FileAnalysis THEN r ELSE thread
  /\ starter' = [starter EXCEPT ![s] = NoStart]
  /\ Release(s)
  /\ UNCHANGED <<memory, disk, saving, review>>

StartStep(s) == EnterStart(s) \/ Look(s) \/ Commit(s) \/ Launch(s) \/ Save(s)

-----------------------------------------------------------------------------
(* Runs *)

Goto(r, at) == run' = [run EXCEPT ![r].at = at]

Leave(r) == run' = [run EXCEPT ![r] = NoRun] /\ UNCHANGED thread

(* The finally clause takes the registered thread out, whichever it is.      *)
Unregister(k) == thread' = IF k = FileAnalysis THEN None ELSE thread

ResettingAll == Key

(* Runs that write stop_requested themselves: with FALSE before and, for     *)
(* checks, at every file; file analysis with what it read a moment before.   *)
Resetting == Check \cup {FaceMatch, FileAnalysis}

(* A report from the work: most say running = TRUE, some leave it alone.     *)
Report(r) ==
  LET k == run[r].key IN
  /\ run[r].at = "work"
  /\ saving[r] = None
  /\ \E running \in {memory[k].running, TRUE},
        stop \in {memory[k].stop} \cup IF k \in Resetting THEN {FALSE} ELSE {} :
       Write(r, k, Record(running, stop))
  /\ UNCHANGED <<disk, thread, run, starter, lock, review>>

Unended(k, stop) == Record(TRUE, stop)

(* A scan and a file analysis take the stop request away with it.            *)
Ended(k, stop) == Record(FALSE, stop /\ k \notin Check \cup {FileAnalysis})

(* The work is done, has failed, or a stop was seen: the last report.        *)
End(r) ==
  LET k == run[r].key IN
  /\ run[r].at \in {"work", "tail"}
  /\ saving[r] = None
  /\ \E stop \in {memory[k].stop, FALSE} : Write(r, k, Ended(k, stop))
  /\ Goto(r, "end")
  /\ UNCHANGED <<disk, thread, starter, lock, review>>

(* A scan that saves its findings says so once more, before the last report: *)
(* flush_saved_checks_findings writes and persists under one lock.           *)
FlushFinal(r) ==
  LET k == run[r].key IN
  /\ run[r].at = "work"
  /\ k \in Saving
  /\ saving[r] = None
  /\ memory' = [memory EXCEPT ![k] = Record(FALSE, memory[k].stop)]
  /\ disk' = [disk EXCEPT ![k] = Record(FALSE, memory[k].stop)]
  /\ Goto(r, "tail")
  /\ UNCHANGED <<thread, starter, lock, saving, review>>

(* ImgDataOperationError in a scan: _run_scan raises it again.               *)
Fail(r) ==
  /\ "error" \in Incident
  /\ run[r].at = "work"
  /\ run[r].key \in Check
  /\ saving[r] = None
  /\ Leave(r)
  /\ UNCHANGED <<memory, disk, starter, lock, saving, review>>

Exit(r) ==
  /\ run[r].at = "end"
  /\ saving[r] = None
  /\ run' = [run EXCEPT ![r] = NoRun]
  /\ Unregister(run[r].key)
  /\ UNCHANGED <<memory, disk, starter, lock, saving, review>>

(* _shouldStop...: the work sees the stop request and ends.                  *)
HeedStop(r) == run[r].key # None /\ Shown(run[r].key).stop /\ End(r)

RunStep(r) == Report(r) \/ End(r) \/ FlushFinal(r) \/ Fail(r) \/ Exit(r) \/ Save(r)

-----------------------------------------------------------------------------
(* Other requests *)

(* requestStop...                                                            *)
RequestStop(k) ==
  /\ "stop" \in Incident
  /\ k \in Requested
  /\ saving[Desk] = None
  /\ Write(Desk, k, Record(memory[k].running, TRUE))
  /\ UNCHANGED <<disk, thread, run, starter, lock, review>>

(* start_review in the mode findings clears the stop request as well.        *)
ReviewFindings(k) ==
  /\ "review" \in Incident
  /\ k \in Requested \cap Check
  /\ ClearStop(k)
  /\ UNCHANGED <<thread, run, starter, lock, saving, review>>

(* refresh_scan_progress_for_image reads the progress of a scan, analyses    *)
(* the image anew and writes all of the progress back.                       *)
BeginRefresh(k) ==
  /\ k \in Refreshed
  /\ review = None
  /\ Shown(k).known
  /\ review' = [key |-> k, progress |-> Shown(k)]
  /\ UNCHANGED <<memory, disk, thread, run, starter, lock, saving>>

EndRefresh ==
  /\ review # None
  /\ saving[Desk] = None
  /\ Write(Desk, review.key, Record(review.progress.running, review.progress.stop))
  /\ review' = None
  /\ UNCHANGED <<disk, thread, run, starter, lock>>

(* stale_stopping_seconds pass without a report.                             *)
Aged(p) == IF p.running /\ p.stop THEN [p EXCEPT !.stale = TRUE] ELSE p

GoStale(k) ==
  /\ "stale" \in Incident
  /\ Aged(memory[k]) # memory[k] \/ Aged(disk[k]) # disk[k]
  /\ memory' = [memory EXCEPT ![k] = Aged(memory[k])]
  /\ disk' = [disk EXCEPT ![k] = Aged(disk[k])]
  /\ UNCHANGED <<thread, run, starter, lock, saving, review>>

(* The process ends, by a crash or not, and starts anew.                     *)
Restart ==
  /\ "restart" \in Incident
  /\ memory' = [k \in Key |-> Empty]
  /\ thread' = None
  /\ run' = [r \in Run |-> NoRun]
  /\ starter' = [s \in Starter |-> NoStart]
  /\ lock' = None
  /\ saving' = [a \in Actor |-> None]
  /\ review' = None
  /\ UNCHANGED disk

Next ==
  \/ \E s \in Starter : (\E k \in Key : Ask(s, k)) \/ StartStep(s)
  \/ \E r \in Run : RunStep(r)
  \/ \E k \in Key : RequestStop(k) \/ ReviewFindings(k) \/ BeginRefresh(k) \/ GoStale(k)
  \/ Save(Desk) \/ EndRefresh \/ Restart

Spec == Init /\ [][Next]_vars

(* Nothing is assumed of the length of the work, but that it persists what   *)
(* it reports and looks for a stop request now and then.                     *)
FairSpec == Spec /\ \A r \in Run : SF_vars(HeedStop(r)) /\ WF_vars(Save(r))

-----------------------------------------------------------------------------
Live(r) == run[r].at = "work"

Starting(k) == \E s \in Starter : starter[s].key = k /\ starter[s].at = "launch"

(* Every variable has its type. *)
TypeOK ==
  /\ memory \in [Key -> Progress]
  /\ disk \in [Key -> Progress]
  /\ thread \in Run \cup {None}
  /\ run \in [Run -> [key : Key, at : {"work", "tail", "end"}] \cup {NoRun}]
  /\ starter \in [Starter -> [key : Key, at : {"wait", "look", "launch"}, left : SUBSET Key]
                              \cup {NoStart}]
  /\ lock \in Starter \cup {None}
  /\ saving \in [Actor -> [key : Key, progress : Progress] \cup {None}]
  /\ review \in [key : Key, progress : Progress] \cup {None}

(* At most one long operation works at a time                                *)
(* (docs/status-concept-integrated.md, Cross-Operation Blocking).            *)
OneOperation == \A r, q \in Run : Live(r) /\ Live(q) => r = q

(* Scans whose progress nobody writes behind their back: a saving scan says  *)
(* twice that it has ended, a refresh writes an old progress back.           *)
Plain == Check \ (Saving \cup Refreshed)

Scans(r) == Live(r) /\ run[r].key \in Plain

(* At most one such scan works at a time, whichever types are asked for, by  *)
(* how many requests at once, and whatever is stopped, fails or restarts.    *)
ScansAlone == \A r, q \in Run : Scans(r) /\ Scans(q) => r = q

(* Such a scan is shown as running for as long as it works.                  *)
ScanShown == \A r \in Run : Scans(r) => Shown(run[r].key).running

(* The start lock is held only by a start that will give it back: refused or *)
(* launched, at once or after others, no start of a scan leaks it.           *)
LockInUse ==
  lock # None => starter[lock].key \in Check /\ starter[lock].at \in {"look", "launch"}

(* What memory shows as running is worked on, or about to be.                *)
RunningIsLive ==
  \A k \in Key : memory[k].running => Starting(k) \/ \E r \in Run : Live(r) /\ run[r].key = k

(* A stop request for a cleanup run ends it.                                 *)
StopEnds ==
  \A r \in Run : Live(r) /\ run[r].key \in Cleanup /\ Shown(run[r].key).stop ~> ~Live(r)
=============================================================================

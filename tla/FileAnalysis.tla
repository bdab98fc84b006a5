---------------------------- MODULE FileAnalysis ----------------------------
(***************************************************************************)
(* The file analysis: a thread walks over the shared folder, then reads    *)
(* the metadata of every image and writes what it finds into one list per  *)
(* finding type, the latest result and the progress, each in a transaction *)
(* of its own.  The progress is kept in memory and stored in the database  *)
(* after that; either may be what is shown.  Meanwhile stop requests come, *)
(* findings are resolved, and check scans write the same lists.            *)
(* The types are numbered in the order the lists are written; the last one *)
(* is the list of face match candidates, which is only written with all    *)
(* the others.  Counters, messages and the status payload are left out, and *)
(* so is a start while the thread of an ended analysis is still at work    *)
(* (its last report could not be stored, and its handler is writing).      *)
(***************************************************************************)
EXTENDS Naturals, FiniteSets

CONSTANTS
  Entry,   \* what the analysis finds
  TypeOf,  \* Entry -> its finding type
  FileOf,  \* Entry -> its image
  Types, Files, \* how many finding types and images there are
  Batch,   \* all lists are written again after so many images
  MaxJobs, MaxMishaps \* bounds: analyses started; stops, failures, restarts and writes from outside

ASSUME EntryAssumption ==
  /\ IsFiniteSet(Entry) /\ Types \in Nat \ {0, 1} /\ Files \in Nat /\ Batch \in Nat \ {0}
  /\ TypeOf \in [Entry -> 1..Types] /\ FileOf \in [Entry -> 1..Files]
  /\ MaxJobs \in Nat /\ MaxMishaps \in Nat

VARIABLES
  memory,   \* file_analysis_progress in memory
  disk,     \* its copy in the database
  lists,    \* the stored list of each finding type
  latest,   \* file_analysis:latest
  worker,   \* the analysis thread, or NoWorker
  stopper,  \* a stop request that has to store its copy of the progress
  resolved, \* findings the user resolved
  jobs, mishaps, \* counters of the bounds
  lost,     \* history: findings an error kept from being built, or withdrawn with another one
  amiss     \* history: the thread was cut off, a stop request stored its copy late

vars == <<memory, disk, lists, latest, worker, stopper, resolved, jobs, mishaps, lost, amiss>>

Status == {"none", "running", "stopped", "failed", "finished"}
Empty == [running |-> FALSE, stop |-> FALSE, job |-> 0, files |-> 0]
Progress == [running : BOOLEAN, stop : BOOLEAN, job : 0..MaxJobs, files : 0..Files]
NoList == [job |-> 0, status |-> "none", entries |-> {}, scan |-> FALSE]
List == [job : 0..MaxJobs, status : Status, entries : SUBSET Entry, scan : BOOLEAN]
NoResult == [job |-> 0, status |-> "none"]
NoWorker == [pc |-> "none", then |-> "none", copy |-> Empty, job |-> 0, walked |-> 0, at |-> 0,
             entries |-> {}, fresh |-> {}, type |-> 1, status |-> "running", next |-> "none", stop |-> FALSE]
Place == {"none", "begin", "lists", "walk", "latest", "report", "files", "build", "found", "store", "end"}
Worker == [pc : Place, then : Place, copy : Progress, job : 0..MaxJobs, walked : 0..Files, at : 0..Files,
           entries : SUBSET Entry, fresh : SUBSET Entry, type : 1..(Types + 1), status : Status,
           next : {"none", "walk", "files", "end"}, stop : BOOLEAN]
AtEase == [storing |-> FALSE, copy |-> Empty]

Init ==
  /\ memory = Empty /\ disk = Empty
  /\ lists = [t \in 1..Types |-> NoList] /\ latest = NoResult
  /\ worker = NoWorker /\ stopper = AtEase
  /\ resolved = {} /\ jobs = 0 /\ mishaps = 0 /\ lost = {} /\ amiss = {}
-----------------------------------------------------------------------------
Mishap == mishaps < MaxMishaps /\ mishaps' = mishaps + 1

(* _setFileAnalysisProgress: memory under its lock, then the copy made there *)
(* is stored; w is the thread as it goes on from there.                      *)
SetProgress(p, w) == memory' = p /\ worker' = [w EXCEPT !.pc = "store", !.then = w.pc, !.copy = p]
Store ==
  /\ worker.pc = "store"
  /\ disk' = worker.copy
  /\ worker' = [worker EXCEPT !.pc = worker.then, !.then = "none", !.copy = Empty]
  /\ amiss' = IF worker.then = "begin" THEN {} ELSE amiss
  /\ UNCHANGED <<memory, lists, latest>>

(* getFileAnalysisProgress; the thread is there once the start is stored.    *)
Alive == worker.pc # "none" /\ worker.then # "begin"
Shown == IF Alive \/ disk = Empty THEN memory ELSE disk

(* startFileAnalysisDiscovery, when no other operation blocks it.            *)
Start ==
  /\ ~Shown.running /\ worker.pc = "none"
  /\ jobs < MaxJobs /\ jobs' = jobs + 1
  /\ SetProgress([running |-> TRUE, stop |-> FALSE, job |-> jobs + 1, files |-> 0],
                 [NoWorker EXCEPT !.pc = "begin", !.job = jobs + 1])
  /\ lost' = {}
  /\ UNCHANGED <<disk, lists, latest, stopper, resolved, mishaps, amiss>>

(* requestStopFileAnalysis: the copy is stored after the lock is released.   *)
RequestStop ==
  /\ ~stopper.storing /\ Mishap
  /\ memory' = [memory EXCEPT !.stop = TRUE]
  /\ stopper' = [storing |-> TRUE, copy |-> [memory EXCEPT !.stop = TRUE]]
  /\ UNCHANGED <<disk, lists, latest, worker, resolved, jobs, lost, amiss>>
StoreStop ==
  /\ stopper.storing /\ stopper' = AtEase
  /\ \/ /\ disk' = stopper.copy /\ UNCHANGED mishaps
        /\ amiss' = IF stopper.copy = memory THEN amiss ELSE amiss \cup {"late"}
     \/ Mishap /\ UNCHANGED <<disk, amiss>>
  /\ UNCHANGED <<memory, lists, latest, worker, resolved, jobs, lost>>

ShouldStop == Shown.stop
-----------------------------------------------------------------------------
(* _runFileAnalysis.  Every list is rewritten with all the analysis has      *)
(* found of its type so far.                                                 *)
WritingAll(w, status, next) == [w EXCEPT !.pc = "lists", !.type = 1, !.status = status, !.next = next]

Begin ==
  /\ worker.pc = "begin"
  /\ \/ worker' = WritingAll(worker, "failed", "end") /\ UNCHANGED memory
     \/ SetProgress([memory EXCEPT !.running = TRUE], WritingAll(worker, "running", "walk"))
  /\ UNCHANGED <<disk, lists, latest>>

FreshOf(t) == {e \in worker.fresh \cap worker.entries : TypeOf[e] = t}
EntriesOf(t) == {e \in worker.entries : TypeOf[e] = t}
WriteOf(t, status) ==
  [lists EXCEPT ![t] = [job |-> worker.job, status |-> status, entries |-> EntriesOf(t), scan |-> FALSE]]
WriteList ==
  /\ worker.pc = "lists" /\ worker.type <= Types
  /\ lists' = WriteOf(worker.type, worker.status)
  /\ worker' = [worker EXCEPT !.type = @ + 1]
  /\ UNCHANGED <<memory, disk, latest>>
StraightToReport(w) == IF w.next = "walk" THEN "walk" ELSE "report"
AfterLists(w) == IF w.next = "walk" THEN "walk" ELSE "latest"
EndLists ==
  /\ worker.pc = "lists" /\ worker.type > Types
  /\ worker' = [worker EXCEPT !.pc = AfterLists(worker)]
  /\ UNCHANGED <<memory, disk, lists, latest>>

(* The walk over the folder, stopped at each directory and file.             *)
Walk ==
  /\ worker.pc = "walk" /\ worker.walked < Files /\ ~ShouldStop
  /\ SetProgress(memory, [worker EXCEPT !.walked = @ + 1])
  /\ UNCHANGED <<disk, lists, latest>>
(* The stop request is read for the payload, and written back after it.      *)
EndWalk ==
  /\ worker.pc = "walk" /\ worker.walked = Files
  /\ worker' = [worker EXCEPT !.pc = "latest", !.status = "running", !.next = "files", !.stop = ShouldStop]
  /\ UNCHANGED <<memory, disk, lists, latest>>
Stop ==
  /\ worker.pc \in {"walk", "files"} /\ ShouldStop
  /\ worker.pc = "files" => worker.at < Files
  /\ worker' = WritingAll(worker, "stopped", "end")
  /\ UNCHANGED <<memory, disk, lists, latest>>

(* _persistFileAnalysisResult; in between the files the progress is not      *)
(* touched.                                                                  *)
PersistResult ==
  /\ worker.pc = "latest"
  /\ latest' = [job |-> worker.job, status |-> worker.status]
  /\ worker' = [worker EXCEPT !.pc = IF @ = "latest" /\ worker.next = "files" /\ worker.at > 0
                                     THEN "files" ELSE "report"]
  /\ UNCHANGED <<memory, disk, lists>>
Unended(w) == TRUE
StillRunning(w) == w.status = "running"
Report ==
  /\ worker.pc = "report"
  /\ SetProgress([memory EXCEPT !.running = StillRunning(worker), !.stop = worker.stop,
                                !.job = worker.job, !.files = worker.at],
                 IF worker.next = "files" THEN [worker EXCEPT !.pc = "files", !.stop = FALSE]
                                          ELSE [worker EXCEPT !.pc = "end"])
  /\ UNCHANGED <<disk, lists, latest>>
Unregister ==
  /\ worker.pc = "end" /\ worker' = NoWorker
  /\ UNCHANGED <<memory, disk, lists, latest>>

(* One image: its metadata give the candidates, and it is counted; then the  *)
(* entries of the other types are built, for which the image is read once    *)
(* more, those of the first type last.                                       *)
ReadFile ==
  LET e == {x \in Entry \ resolved : FileOf[x] = worker.at + 1}
  IN  /\ worker.pc = "files" /\ worker.at < Files /\ ~ShouldStop
      /\ worker' = [worker EXCEPT !.pc = "build", !.at = @ + 1, !.type = 2, !.fresh = e,
                                  !.entries = @ \cup {x \in e : TypeOf[x] = Types}]
      /\ UNCHANGED <<memory, disk, lists, latest>>
Build ==
  LET t == IF worker.type = Types THEN 1 ELSE worker.type
      built == {x \in worker.fresh \ resolved : TypeOf[x] = t}
  IN  /\ worker.pc = "build" /\ worker.type <= Types
      /\ worker' = [worker EXCEPT !.pc = IF t = 1 THEN "found" ELSE "build", !.type = IF t = 1 THEN 1 ELSE @ + 1,
                                  !.entries = @ \cup built]
      /\ UNCHANGED <<memory, disk, lists, latest>>
(* The lists of the types the image has findings of are written at once,     *)
(* then the count is shown.                                                  *)
WriteFound ==
  /\ worker.pc = "found" /\ worker.type < Types
  /\ lists' = IF \E e \in worker.fresh : TypeOf[e] = worker.type THEN WriteOf(worker.type, "running") ELSE lists
  /\ worker' = [worker EXCEPT !.type = @ + 1]
  /\ UNCHANGED <<memory, disk, latest>>
Counted(w) == w.at
CountFile ==
  /\ worker.pc = "found" /\ worker.type = Types
  /\ LET w == [worker EXCEPT !.fresh = {}]
     IN  SetProgress([memory EXCEPT !.running = TRUE, !.files = Counted(worker)],
                     IF worker.at % Batch = 0 THEN WritingAll(w, "running", "files") ELSE [w EXCEPT !.pc = "files"])
  /\ UNCHANGED <<disk, lists, latest>>
Finish ==
  /\ worker.pc = "files" /\ worker.at = Files
  /\ worker' = WritingAll(worker, "finished", "end")
  /\ UNCHANGED <<memory, disk, lists, latest>>

AnalysisStep ==
  /\ \/ Store
     \/ /\ \/ Begin \/ WriteList \/ EndLists \/ Walk \/ EndWalk \/ Stop \/ PersistResult \/ Report \/ Unregister
           \/ ReadFile \/ Build \/ WriteFound \/ CountFile \/ Finish
        /\ UNCHANGED amiss
  /\ UNCHANGED <<stopper, resolved, jobs, mishaps, lost>>

(* The try covers everything after the first lists.                          *)
Tried == /\ worker.pc \notin {"none", "begin", "end"} /\ worker.next # "none" /\ worker.status # "failed"
         /\ ~(worker.next = "walk" /\ "lists" \in {worker.pc, worker.then})
Raise ==
  /\ Tried /\ Mishap
  /\ worker' = WritingAll([worker EXCEPT !.then = "none", !.copy = Empty, !.stop = FALSE, !.fresh = {}], "failed", "end")
  /\ lost' = lost \cup (worker.fresh \ worker.entries)
  /\ UNCHANGED <<memory, disk, lists, latest, stopper, resolved, jobs, amiss>>
(* Outside the try, and in the handler, an error leaves the progress as it   *)
(* is; so it does in the request that starts the thread.                     *)
Die ==
  /\ worker.pc \notin {"none", "end"} /\ ~Tried /\ Mishap
  /\ worker' = NoWorker /\ amiss' = amiss \cup {"cut"}
  /\ UNCHANGED <<memory, disk, lists, latest, stopper, resolved, jobs, lost>>
Restart ==
  /\ Mishap
  /\ worker' = NoWorker /\ stopper' = AtEase /\ memory' = Empty
  /\ amiss' = IF worker.pc # "none" THEN amiss \cup {"cut"} ELSE amiss
  /\ UNCHANGED <<disk, lists, latest, resolved, jobs, lost>>

(* A finding is resolved: its image is read again and its list written       *)
(* under the findings lock, without the job.                                 *)
Resolve(e) ==
  LET t == TypeOf[e]
      rest == {x \in Entry \ (resolved \cup {e}) : TypeOf[x] = t /\ FileOf[x] = FileOf[e]}
  IN  /\ t < Types /\ e \in lists[t].entries /\ Mishap
      /\ resolved' = resolved \cup {e}
      /\ lists' = [lists EXCEPT ![t] = [job |-> 0, status |-> @.status, scan |-> @.scan,
                     entries |-> {x \in @.entries : FileOf[x] # FileOf[e]} \cup rest]]
      /\ UNCHANGED <<memory, disk, latest, worker, stopper, jobs, lost, amiss>>
(* Name conflicts are withdrawn without reading the image, those that share  *)
(* a name or a face with the resolved one along with it.                     *)
Withdraw(e, gone) ==
  LET t == Types - 1
  IN  /\ e \in gone /\ gone \subseteq {x \in lists[t].entries : FileOf[x] = FileOf[e]} /\ Mishap
      /\ resolved' = resolved \cup {e} /\ lost' = lost \cup (gone \ {e})
      /\ lists' = [lists EXCEPT ![t].entries = @ \ gone]
      /\ UNCHANGED <<memory, disk, latest, worker, stopper, jobs, amiss>>
(* A check scan stores its own list under the type, or marks it as its own;  *)
(* nothing is assumed of when it does (see ChecksScan, RuntimeOperations).   *)
ScanWrites(t, entries, status) ==
  /\ Mishap
  /\ lists' = [lists EXCEPT ![t] = [job |-> 0, status |-> status, entries |-> entries, scan |-> TRUE]]
  /\ UNCHANGED <<memory, disk, latest, worker, stopper, resolved, jobs, lost, amiss>>

Outside ==
  \/ \E e \in Entry : Resolve(e)
  \/ \E e \in Entry, gone \in SUBSET Entry : Withdraw(e, gone)
  \/ \E t \in 1..(Types - 1), status \in Status \ {"none"} :
       \E entries \in SUBSET {e \in Entry : TypeOf[e] = t} : ScanWrites(t, entries, status)

Next ==
  \/ Start \/ RequestStop \/ StoreStop
  \/ AnalysisStep
  \/ Raise \/ Die \/ Restart
  \/ Outside

Spec == Init /\ [][Next]_vars
FairSpec == Spec /\ WF_vars(AnalysisStep)
-----------------------------------------------------------------------------
TypeOK ==
  /\ memory \in Progress /\ disk \in Progress
  /\ stopper \in [storing : BOOLEAN, copy : Progress]
  /\ lists \in [1..Types -> List]
  /\ latest \in [job : 0..MaxJobs, status : Status]
  /\ worker \in Worker /\ resolved \subseteq Entry /\ lost \subseteq Entry
  /\ jobs \in 0..MaxJobs /\ mishaps \in Nat /\ amiss \subseteq {"cut", "late"}

(* An analysis that memory or the database says has ended, and whose thread  *)
(* is gone, has ended everywhere: the latest result and every list are those *)
(* of its job with the same outcome, but for the lists a check scan has      *)
(* written since.  Neither is claimed after the thread was cut off (its      *)
(* handler failed as well, or the backend went down), nor is it of the       *)
(* database after a stop request stored its copy late.                       *)
Outcome(p) ==
  p.job # 0 /\ ~p.running =>
    /\ latest.job = p.job /\ latest.status \in {"stopped", "failed", "finished"}
    /\ \A t \in 1..Types : lists[t].scan \/ (lists[t].status = latest.status /\ lists[t].job \in {0, p.job})
EndedTogether ==
  ~Alive => /\ "cut" \notin amiss => Outcome(memory)
            /\ amiss = {} => Outcome(disk)

(* Whatever interrupts the analysis, the findings of an image that has been  *)
(* counted in memory or in the database are in the stored lists, unless they *)
(* have been resolved or withdrawn along with one that was, an error struck  *)
(* between the count and the building of their entries, or a check scan has  *)
(* put a list of its own in the place.                                       *)
FoundIsWritten ==
  \A e \in Entry \ (resolved \cup lost) :
    /\ TypeOf[e] < Types
    /\ FileOf[e] <= memory.files \/ (FileOf[e] <= disk.files /\ disk.job = jobs)
    => e \in lists[TypeOf[e]].entries \/ lists[TypeOf[e]].scan

(* An analysis that is shown as running comes to an end, unless its thread   *)
(* was cut off or a stop request stored its copy of the progress too late.   *)
AnalysisEnds == Shown.running ~> (~Shown.running \/ amiss # {})
=============================================================================

------------------------ MODULE FileAnalysis_proofs ------------------------
(***************************************************************************)
(* What FileAnalysis keeps for any number of findings, types, images and   *)
(* analyses: its types, that an analysis ends everywhere with the same     *)
(* outcome, and that what it has found is in the stored lists.             *)
(***************************************************************************)
EXTENDS FileAnalysis, TLAPS

USE EntryAssumption DEF EntryAssumption

LEMMA EmptyTypes ==
  /\ Empty \in Progress /\ NoWorker \in Worker /\ AtEase \in [storing : BOOLEAN, copy : Progress]
  /\ NoList \in List
  /\ NoResult \in [job : 0..MaxJobs, status : Status]
<1>1. Empty \in Progress
  BY DEF Empty, Progress
<1>2. NoWorker \in Worker
  BY <1>1 DEF NoWorker, Worker, Place, Status
<1>3. AtEase \in [storing : BOOLEAN, copy : Progress]
  BY <1>1 DEF AtEase
<1> QED BY <1>1, <1>2, <1>3 DEF NoList, List, NoResult, Status

LEMMA ProgressType ==
  ASSUME TypeOK
  PROVE  /\ memory.running \in BOOLEAN /\ memory.stop \in BOOLEAN
         /\ memory.job \in 0..MaxJobs /\ memory.files \in 0..Files
BY DEF TypeOK, Progress

LEMMA WritingAllType ==
  ASSUME NEW w \in Worker, NEW status \in Status, NEW next \in {"none", "walk", "files", "end"}
  PROVE  WritingAll(w, status, next) \in Worker
<1>1. 1 \in 1..(Types + 1)
  OBVIOUS
<1> QED BY <1>1 DEF WritingAll, Worker, Place

LEMMA SetProgressType ==
  ASSUME NEW p \in Progress, NEW w \in Worker, SetProgress(p, w)
  PROVE  memory' \in Progress /\ worker' \in Worker
<1>1. w.pc \in Place /\ "store" \in Place
  BY DEF Worker, Place
<1>2. worker' = [w EXCEPT !.pc = "store", !.then = w.pc, !.copy = p]
  BY DEF SetProgress
<1> QED BY <1>1, <1>2 DEF SetProgress, Worker

LEMMA WriteOfType ==
  ASSUME TypeOK, NEW t \in 1..Types, NEW status \in Status
  PROVE  WriteOf(t, status) \in [1..Types -> List]
<1>1. EntriesOf(t) \in SUBSET Entry
  BY DEF TypeOK, Worker, EntriesOf
<1>2. worker.job \in 0..MaxJobs
  BY DEF TypeOK, Worker
<1> QED BY <1>1, <1>2 DEF TypeOK, WriteOf, List

LEMMA TypeInit == Init => TypeOK
<1> SUFFICES ASSUME Init PROVE TypeOK
  OBVIOUS
<1>1. lists \in [1..Types -> List]
  BY EmptyTypes DEF Init
<1>2. jobs \in 0..MaxJobs /\ mishaps \in Nat /\ resolved \subseteq Entry /\ lost \subseteq Entry /\ amiss = {}
  BY DEF Init
<1> QED BY <1>1, <1>2, EmptyTypes DEF Init, TypeOK

LEMMA TypeStep == TypeOK /\ [Next]_vars => TypeOK'
<1> SUFFICES ASSUME TypeOK, [Next]_vars PROVE TypeOK'
  OBVIOUS
<1> USE ProgressType
<1>1. CASE Start
  <2>1. jobs + 1 \in 0..MaxJobs /\ 0 \in 0..Files
    BY <1>1 DEF Start, TypeOK
  <2> DEFINE p == [running |-> TRUE, stop |-> FALSE, job |-> jobs + 1, files |-> 0]
             w == [NoWorker EXCEPT !.pc = "begin", !.job = jobs + 1]
  <2>2. p \in Progress /\ w \in Worker
    BY <2>1, EmptyTypes DEF Progress, Worker, Place
  <2>3. SetProgress(p, w)
    BY <1>1 DEF Start
  <2> HIDE DEF p, w
  <2>4. memory' \in Progress /\ worker' \in Worker
    BY <2>2, <2>3, SetProgressType
  <2> QED BY <1>1, <2>1, <2>4 DEF Start, TypeOK
<1>2. CASE RequestStop
  <2>1. [memory EXCEPT !.stop = TRUE] \in Progress
    BY DEF TypeOK, Progress
  <2>2. mishaps' \in Nat
    BY <1>2 DEF RequestStop, Mishap, TypeOK
  <2> QED BY <1>2, <2>1, <2>2 DEF RequestStop, TypeOK
<1>3. CASE StoreStop
  <2>1. CASE disk' = stopper.copy /\ UNCHANGED mishaps
    <3>1. amiss' \subseteq {"cut", "late"}
      BY <1>3 DEF StoreStop, TypeOK
    <3> QED BY <1>3, <2>1, <3>1, EmptyTypes DEF StoreStop, TypeOK
  <2>2. CASE Mishap /\ UNCHANGED <<disk, amiss>>
    BY <1>3, <2>2, EmptyTypes DEF StoreStop, Mishap, TypeOK
  <2> QED BY <1>3, <2>1, <2>2 DEF StoreStop
<1>4. CASE AnalysisStep
  <2>0. UNCHANGED <<stopper, resolved, jobs, mishaps, lost>>
    BY <1>4 DEF AnalysisStep
  <2> SUFFICES /\ memory' \in Progress /\ disk' \in Progress
               /\ lists' \in [1..Types -> List]
               /\ latest' \in [job : 0..MaxJobs, status : Status]
               /\ worker' \in Worker /\ amiss' \subseteq {"cut", "late"}
    BY <2>0 DEF TypeOK
  <2>13. CASE Store
    <3>1. worker' \in Worker
      BY <2>13, EmptyTypes DEF Store, TypeOK, Worker, Place
    <3> QED BY <2>13, <3>1 DEF Store, TypeOK, Worker
  <2>a. ~Store => amiss' \subseteq {"cut", "late"}
    BY <1>4 DEF AnalysisStep, TypeOK
  <2> USE <2>a
  <2>1. CASE Begin /\ ~Store
    <3>1. WritingAll(worker, "failed", "end") \in Worker /\ WritingAll(worker, "running", "walk") \in Worker
      BY WritingAllType DEF TypeOK, Status
    <3>2. [memory EXCEPT !.running = TRUE] \in Progress
      BY DEF TypeOK, Progress
    <3>3. memory' \in Progress /\ worker' \in Worker
      BY <2>1, <3>1, <3>2, SetProgressType DEF Begin, TypeOK
    <3> QED BY <2>1, <3>3 DEF Begin, TypeOK
  <2>2. CASE WriteList /\ ~Store
    <3>1. lists' = WriteOf(worker.type, worker.status) /\ worker.type \in 1..Types /\ worker.status \in Status
      BY <2>2 DEF WriteList, TypeOK, Worker
    <3>2. worker' \in Worker
      <4>1. worker.type + 1 \in 1..(Types + 1)
        BY <3>1
      <4> QED BY <2>2, <4>1 DEF WriteList, TypeOK, Worker
    <3> QED BY <2>2, <3>1, <3>2, WriteOfType DEF WriteList, TypeOK
  <2>3. CASE EndLists /\ ~Store
    BY <2>3 DEF EndLists, AfterLists, TypeOK, Worker, Place
  <2>4. CASE Walk /\ ~Store
    <3>1. worker.walked + 1 \in 0..Files
      BY <2>4 DEF Walk, TypeOK, Worker
    <3>2. [worker EXCEPT !.walked = @ + 1] \in Worker
      BY <3>1 DEF TypeOK, Worker
    <3> QED BY <2>4, <3>2, SetProgressType DEF Walk, TypeOK
  <2>5. CASE EndWalk /\ ~Store
    <3>1. ShouldStop \in BOOLEAN
      BY DEF ShouldStop, Shown, TypeOK, Progress
    <3> QED BY <2>5, <3>1 DEF EndWalk, TypeOK, Worker, Place, Status
  <2>6. CASE Stop /\ ~Store
    BY <2>6, WritingAllType DEF Stop, TypeOK, Status
  <2>7. CASE PersistResult /\ ~Store
    BY <2>7 DEF PersistResult, TypeOK, Worker, Place
  <2>8. CASE Report /\ ~Store
    <3> DEFINE p == [memory EXCEPT !.running = StillRunning(worker), !.stop = worker.stop,
                                   !.job = worker.job, !.files = worker.at]
               w == IF worker.next = "files" THEN [worker EXCEPT !.pc = "files", !.stop = FALSE]
                                             ELSE [worker EXCEPT !.pc = "end"]
    <3>1. StillRunning(worker) \in BOOLEAN /\ worker.stop \in BOOLEAN /\ worker.job \in 0..MaxJobs /\ worker.at \in 0..Files
      BY DEF StillRunning, TypeOK, Worker
    <3>2. p \in Progress
      BY <3>1 DEF TypeOK, Progress
    <3>3. w \in Worker
      BY DEF TypeOK, Worker, Place
    <3>4. SetProgress(p, w)
      BY <2>8 DEF Report
    <3> HIDE DEF p, w
    <3> QED BY <2>8, <3>2, <3>3, <3>4, SetProgressType DEF Report, TypeOK
  <2>9. CASE ReadFile /\ ~Store
    <3>1. worker.at + 1 \in 0..Files /\ 2 \in 1..(Types + 1)
      BY <2>9 DEF ReadFile, TypeOK, Worker
    <3>2. worker' \in Worker
      <4> DEFINE f == {x \in Entry \ resolved : FileOf[x] = worker.at + 1}
                 c == {x \in f : TypeOf[x] = Types}
      <4>1. f \in SUBSET Entry /\ (worker.entries \cup c) \in SUBSET Entry
        BY DEF TypeOK, Worker
      <4>2. worker' = [worker EXCEPT !.pc = "build", !.at = worker.at + 1, !.type = 2, !.fresh = f,
                                     !.entries = worker.entries \cup c]
        BY <2>9 DEF ReadFile
      <4> HIDE DEF f, c
      <4> QED BY <3>1, <4>1, <4>2 DEF TypeOK, Worker, Place
    <3> QED BY <2>9, <3>2 DEF ReadFile, TypeOK
  <2>10. CASE WriteFound /\ ~Store
    <3>1. worker.type \in 1..Types
      BY <2>10 DEF WriteFound, TypeOK, Worker
    <3>2. worker' \in Worker
      <4>1. worker.type + 1 \in 1..(Types + 1)
        BY <3>1
      <4> QED BY <2>10, <4>1 DEF WriteFound, TypeOK, Worker
    <3> QED BY <2>10, <3>1, <3>2, WriteOfType DEF WriteFound, TypeOK, Status
  <2>11. CASE CountFile /\ ~Store
    <3> DEFINE w == [worker EXCEPT !.fresh = {}]
               v == IF worker.at % Batch = 0 THEN WritingAll(w, "running", "files") ELSE [w EXCEPT !.pc = "files"]
               p == [memory EXCEPT !.running = TRUE, !.files = Counted(worker)]
    <3>1. w \in Worker
      BY DEF TypeOK, Worker
    <3>2. v \in Worker
      <4>1. WritingAll(w, "running", "files") \in Worker
        BY <3>1, WritingAllType DEF Status
      <4>2. [w EXCEPT !.pc = "files"] \in Worker
        BY <3>1 DEF Worker, Place
      <4> QED BY <4>1, <4>2
    <3>3. p \in Progress
      BY DEF TypeOK, Worker, Progress, Counted
    <3>4. SetProgress(p, v)
      BY <2>11 DEF CountFile
    <3> HIDE DEF p, v
    <3> QED BY <2>11, <3>2, <3>3, <3>4, SetProgressType DEF CountFile, TypeOK
  <2>12. CASE Finish /\ ~Store
    BY <2>12, WritingAllType DEF Finish, TypeOK, Status
  <2>14. CASE Unregister /\ ~Store
    BY <2>14, EmptyTypes DEF Unregister, TypeOK
  <2>15. CASE Build /\ ~Store
    <3> DEFINE u == IF worker.type = Types THEN 1 ELSE worker.type
               q == IF u = 1 THEN 1 ELSE worker.type + 1
               c == {x \in worker.fresh \ resolved : TypeOf[x] = u}
    <3>1. worker.type \in 1..(Types + 1) /\ worker.entries \in SUBSET Entry /\ worker.fresh \in SUBSET Entry
      BY DEF TypeOK, Worker
    <3>2. worker.type # Types + 1 => q \in 1..(Types + 1)
      BY <3>1
    <3>3. (worker.entries \cup c) \in SUBSET Entry
      BY <3>1
    <3>4. worker' = [worker EXCEPT !.pc = IF u = 1 THEN "found" ELSE "build", !.type = q, !.entries = worker.entries \cup c]
      BY <2>15 DEF Build
    <3>5. worker.type # Types + 1
      BY <2>15 DEF Build
    <3> HIDE DEF u, q, c
    <3>6. worker' \in Worker
      BY <3>2, <3>3, <3>4, <3>5 DEF TypeOK, Worker, Place
    <3> QED BY <2>15, <3>6 DEF Build, TypeOK
  <2> QED BY <1>4, <2>1, <2>2, <2>3, <2>4, <2>5, <2>6, <2>7, <2>8, <2>9, <2>10, <2>11, <2>12, <2>13, <2>14, <2>15
          DEF AnalysisStep
<1>5. CASE Raise
  <2>1. [worker EXCEPT !.then = "none", !.copy = Empty, !.stop = FALSE, !.fresh = {}] \in Worker
    BY EmptyTypes DEF TypeOK, Worker, Place
  <2>2. lost' \subseteq Entry
    BY <1>5 DEF Raise, TypeOK, Worker
  <2> QED BY <1>5, <2>1, <2>2, WritingAllType DEF Raise, Mishap, TypeOK, Status
<1>6. CASE Die
  BY <1>6, EmptyTypes DEF Die, Mishap, TypeOK
<1>7. CASE Restart
  BY <1>7, EmptyTypes DEF Restart, Mishap, TypeOK
<1>8. CASE Outside
  <2>1. ASSUME NEW e \in Entry, Resolve(e) PROVE TypeOK'
    <3>1. lists' \in [1..Types -> List]
      BY <2>1 DEF Resolve, TypeOK, List
    <3> QED BY <2>1, <3>1 DEF Resolve, Mishap, TypeOK
  <2>2. ASSUME NEW e \in Entry, NEW gone \in SUBSET Entry, Withdraw(e, gone) PROVE TypeOK'
    <3>1. Types - 1 \in 1..Types
      OBVIOUS
    <3>4. lists' \in [1..Types -> List]
      BY <2>2, <3>1 DEF Withdraw, TypeOK, List
    <3> QED BY <2>2, <3>4 DEF Withdraw, Mishap, TypeOK
  <2>3. ASSUME NEW u \in 1..(Types - 1), NEW status \in Status, NEW entries \in SUBSET Entry,
               ScanWrites(u, entries, status)
        PROVE TypeOK'
    <3>1. lists' \in [1..Types -> List]
      BY <2>3 DEF ScanWrites, TypeOK, List
    <3> QED BY <2>3, <3>1 DEF ScanWrites, Mishap, TypeOK
  <2> QED BY <1>8, <2>1, <2>2, <2>3 DEF Outside
<1>9. CASE UNCHANGED vars
  BY <1>9 DEF vars, TypeOK
<1> QED BY <1>1, <1>2, <1>3, <1>4, <1>5, <1>6, <1>7, <1>8, <1>9 DEF Next

(* The state keeps its types: above all, the analysis never counts an image  *)
(* or writes a list there is none of.                                        *)
THEOREM TypeCorrect == Spec => []TypeOK
BY TypeInit, TypeStep, PTL DEF Spec
-----------------------------------------------------------------------------
Working == worker.pc # "none"
At(place) == place \in {worker.pc, worker.then}

(* The thread works on the progress of the last start, keeps to its course,  *)
(* has an outcome exactly when it is about to end, and stores the progress   *)
(* that is in memory.                                                        *)
OnCourse ==
  /\ Working => memory.job = worker.job /\ worker.job = jobs
  /\ worker.next \in {"walk", "files"} => worker.status = "running"
  /\ worker.next = "end" => worker.status \in {"stopped", "failed", "finished"}
  /\ At("begin") => worker.next = "none"
  /\ At("walk") => worker.next = "walk"
  /\ At("lists") => worker.next # "none"
  /\ worker.pc \in {"latest", "report"} => worker.next \in {"files", "end"}
  /\ worker.pc \in {"build", "found"} \/ At("files") => worker.next = "files"
  /\ At("end") => worker.next = "end"
  /\ worker.pc = "build" => worker.type \in 2..Types
Storing ==
  /\ worker.then \in {"none", "begin", "lists", "walk", "files", "end"}
  /\ worker.pc = "store" <=> worker.then # "none"
  /\ worker.pc = "store" => /\ worker.copy.job = memory.job /\ worker.copy.running = memory.running
                            /\ worker.copy.files = memory.files

LEMMA OnCourseStep ==
  ASSUME TypeOK, OnCourse, Storing, [Next]_vars
  PROVE  OnCourse' /\ Storing'
<1> USE DEF TypeOK, Worker, Progress, OnCourse, Storing, Working, At
<1>1. CASE Start
  <2>1. /\ worker'.pc = "store" /\ worker'.then = "begin" /\ worker'.next = "none" /\ worker'.job = jobs'
        /\ memory'.job = jobs' /\ worker'.copy = memory'
    BY <1>1 DEF Start, SetProgress, NoWorker
  <2> QED BY <2>1
<1>2. CASE RequestStop
  <2>1. UNCHANGED <<worker, jobs>> /\ memory' = [memory EXCEPT !.stop = TRUE]
    BY <1>2 DEF RequestStop
  <2>2. memory'.job = memory.job /\ memory'.running = memory.running /\ memory'.files = memory.files
    BY <2>1
  <2> QED BY <2>1, <2>2
<1>3. CASE UNCHANGED <<memory, worker, jobs>>
  BY <1>3
<1>4. CASE AnalysisStep
  <2>0. UNCHANGED jobs
    BY <1>4 DEF AnalysisStep
  <2>1. CASE Begin
    <3>1. CASE worker' = WritingAll(worker, "failed", "end") /\ UNCHANGED memory
      <4>1. /\ worker'.pc = "lists" /\ worker'.then = worker.then /\ worker'.next = "end" /\ worker'.status = "failed"
            /\ worker'.job = worker.job /\ worker.pc = "begin"
        BY <2>1, <3>1 DEF Begin, WritingAll
      <4> QED BY <2>0, <3>1, <4>1
    <3>2. CASE SetProgress([memory EXCEPT !.running = TRUE], WritingAll(worker, "running", "walk"))
      <4>1. /\ worker'.pc = "store" /\ worker'.then = "lists" /\ worker'.next = "walk" /\ worker'.status = "running"
            /\ worker'.job = worker.job /\ worker.pc = "begin" /\ worker'.copy = memory' /\ memory'.job = memory.job
        BY <2>1, <3>2 DEF Begin, SetProgress, WritingAll
      <4> QED BY <2>0, <4>1
    <3> QED BY <2>1, <3>1, <3>2 DEF Begin
  <2>2. CASE WriteList
    BY <2>0, <2>2 DEF WriteList
  <2>3. CASE EndLists
    BY <2>0, <2>3 DEF EndLists, AfterLists
  <2>4. CASE Walk
    <3>1. /\ worker'.pc = "store" /\ worker'.then = "walk" /\ worker.pc = "walk" /\ worker'.next = worker.next
          /\ worker'.status = worker.status /\ worker'.job = worker.job /\ worker'.copy = memory' /\ memory' = memory
      BY <2>4 DEF Walk, SetProgress
    <3> QED BY <2>0, <3>1
  <2>5. CASE EndWalk
    BY <2>0, <2>5 DEF EndWalk
  <2>6. CASE Stop
    BY <2>0, <2>6 DEF Stop, WritingAll
  <2>7. CASE PersistResult
    BY <2>0, <2>7 DEF PersistResult
  <2>8. CASE Report
    <3>1. /\ worker.pc = "report" /\ worker'.pc = "store"
          /\ worker'.then = IF worker.next = "files" THEN "files" ELSE "end"
          /\ worker'.next = worker.next /\ worker'.status = worker.status /\ worker'.job = worker.job
          /\ worker'.copy = memory' /\ memory'.job = worker.job
      BY <2>8 DEF Report, SetProgress
    <3> QED BY <2>0, <3>1
  <2>9. CASE ReadFile
    BY <2>0, <2>9 DEF ReadFile
  <2>10. CASE Build
    BY <2>0, <2>10 DEF Build
  <2>11. CASE WriteFound
    BY <2>0, <2>11 DEF WriteFound
  <2>12. CASE CountFile
    <3>1. /\ worker.pc = "found" /\ worker'.pc = "store" /\ worker'.then \in {"lists", "files"}
          /\ worker'.next = "files" /\ worker'.status = "running" /\ worker'.job = worker.job
          /\ worker'.copy = memory' /\ memory'.job = memory.job
      BY <2>12 DEF CountFile, SetProgress, WritingAll
    <3> QED BY <2>0, <3>1
  <2>13. CASE Finish
    BY <2>0, <2>13 DEF Finish, WritingAll
  <2>14. CASE Store
    BY <2>0, <2>14 DEF Store
  <2>15. CASE Unregister
    BY <2>0, <2>15 DEF Unregister, NoWorker
  <2> QED BY <1>4, <2>1, <2>2, <2>3, <2>4, <2>5, <2>6, <2>7, <2>8, <2>9, <2>10, <2>11, <2>12, <2>13, <2>14, <2>15
          DEF AnalysisStep
<1>5. CASE Raise
  BY <1>5 DEF Raise, Tried, WritingAll
<1>6. CASE Die
  BY <1>6 DEF Die, NoWorker
<1>7. CASE Restart
  BY <1>7 DEF Restart, NoWorker
<1> QED BY <1>1, <1>2, <1>3, <1>4, <1>5, <1>6, <1>7 DEF Next, StoreStop, Outside, Resolve, Withdraw, ScanWrites, vars

(* What comes from outside leaves a list as it is but for its entries, takes *)
(* its job from it, or puts one of a check scan in its place.                *)
LEMMA OutsideKeeps ==
  ASSUME TypeOK, Outside
  PROVE  /\ UNCHANGED <<memory, disk, latest, worker, stopper, jobs, amiss>>
         /\ resolved \subseteq resolved' /\ lost \subseteq lost'
         /\ \A t \in 1..Types : lists'[t].scan \/ /\ lists'[t].status = lists[t].status
                                                  /\ lists'[t].job \in {0, lists[t].job}
                                                  /\ lists'[t].scan = lists[t].scan
<1> USE DEF TypeOK, List
<1>1. ASSUME NEW e \in Entry, Resolve(e)
      PROVE  \A t \in 1..Types : /\ lists'[t].status = lists[t].status /\ lists'[t].job \in {0, lists[t].job}
                                 /\ lists'[t].scan = lists[t].scan
  BY <1>1 DEF Resolve
<1>2. ASSUME NEW e \in Entry, NEW gone \in SUBSET Entry, Withdraw(e, gone)
      PROVE  \A t \in 1..Types : /\ lists'[t].status = lists[t].status /\ lists'[t].job = lists[t].job
                                 /\ lists'[t].scan = lists[t].scan
  BY <1>2 DEF Withdraw
<1>3. ASSUME NEW u \in 1..(Types - 1), NEW status \in Status, NEW entries \in SUBSET Entry,
             ScanWrites(u, entries, status)
      PROVE  \A t \in 1..Types : lists'[t].scan \/ lists'[t] = lists[t]
  BY <1>3 DEF ScanWrites
<1>4. \A t \in 1..Types : lists'[t].scan \/ /\ lists'[t].status = lists[t].status
                                            /\ lists'[t].job \in {0, lists[t].job}
                                            /\ lists'[t].scan = lists[t].scan
  BY <1>1, <1>2, <1>3 DEF Outside
<1>5. /\ UNCHANGED <<memory, disk, latest, worker, stopper, jobs, amiss>>
      /\ resolved \subseteq resolved' /\ lost \subseteq lost'
  BY DEF Outside, Resolve, Withdraw, ScanWrites
<1> QED BY <1>4, <1>5

(* How far the outcome has been written.                                     *)
Said(t) == lists[t].scan \/ (lists[t].status = worker.status /\ lists[t].job \in {0, worker.job})
EndSaid ==
  /\ At("lists") => \A t \in 1..(worker.type - 1) : Said(t)
  /\ (worker.pc \in {"latest", "report"} /\ worker.next = "end") \/ At("end") => \A t \in 1..Types : Said(t)
  /\ (worker.pc = "report" /\ worker.next = "end") \/ At("end")
     => latest.job = worker.job /\ latest.status = worker.status

(* What the thread writes next in the course of its end leaves the lists     *)
(* alone, apart from the one it writes.                                      *)
LEMMA EndSaidStep ==
  ASSUME TypeOK, OnCourse, Storing, EndSaid, [Next]_vars
  PROVE  EndSaid'
<1> USE DEF TypeOK, Worker, EndSaid, At
<1>1. CASE Start
  <2>1. worker'.pc = "store" /\ worker'.then = "begin"
    BY <1>1 DEF Start, SetProgress, NoWorker
  <2> QED BY <2>1
<1>2. CASE UNCHANGED <<lists, latest, worker>>
  BY <1>2 DEF Said
<1>3. CASE Outside
  <2>1. UNCHANGED <<worker, latest>>
    BY <1>3, OutsideKeeps
  <2>2. \A t \in 1..Types : Said(t) => Said(t)'
    BY <1>3, <2>1, OutsideKeeps DEF Said
  <2>3. \A t \in 1..(worker.type - 1) : t \in 1..Types
    OBVIOUS
  <2> HIDE DEF TypeOK, Worker
  <2> QED BY <2>1, <2>2, <2>3
<1>4. CASE AnalysisStep
  <2>1. CASE Begin
    <3>1. worker'.type = 1 /\ \/ worker'.pc = "lists" /\ worker'.then = worker.then
                              \/ worker'.pc = "store" /\ worker'.then = "lists"
      BY <2>1 DEF Begin, SetProgress, WritingAll
    <3> QED BY <2>1, <3>1 DEF Begin, Storing
  <2>2. CASE WriteList
    <3>1. /\ worker.pc = "lists" /\ worker.type \in 1..Types /\ latest' = latest
          /\ worker'.type = worker.type + 1 /\ worker'.job = worker.job /\ worker'.status = worker.status
          /\ worker'.pc = "lists" /\ worker'.then = "none"
      BY <2>2 DEF WriteList, Storing
    <3>2. /\ lists'[worker.type].status = worker.status /\ lists'[worker.type].job = worker.job
          /\ \A t \in 1..Types : t # worker.type => lists'[t] = lists[t]
      BY <2>2, <3>1 DEF WriteList, WriteOf
    <3>3. \A t \in 1..worker.type : Said(t)'
      <4> TAKE t \in 1..worker.type
      <4>1. t \in 1..Types /\ (t = worker.type \/ t \in 1..(worker.type - 1))
        BY <3>1
      <4> QED BY <3>1, <3>2, <4>1 DEF Said
    <3>4. worker'.type - 1 = worker.type
      BY <3>1
    <3> QED BY <3>1, <3>3, <3>4
  <2>3. CASE EndLists
    <3>1. /\ worker.pc = "lists" /\ worker.type = Types + 1 /\ UNCHANGED <<lists, latest>> /\ worker.then = "none"
          /\ worker'.pc \in {"walk", "latest"} /\ worker'.then = worker.then
          /\ worker'.status = worker.status /\ worker'.job = worker.job
      BY <2>3 DEF EndLists, AfterLists, Storing
    <3>2. worker.type - 1 = Types
      BY <3>1
    <3> QED BY <3>1, <3>2 DEF Said
  <2>4. CASE Walk
    BY <2>4 DEF Walk, SetProgress
  <2>5. CASE EndWalk
    BY <2>5 DEF EndWalk, Storing
  <2>6. CASE Stop
    BY <2>6 DEF Stop, WritingAll, Storing
  <2>7. CASE PersistResult
    <3>1. /\ worker.pc = "latest" /\ worker.then = "none" /\ lists' = lists
          /\ latest'.job = worker.job /\ latest'.status = worker.status
          /\ worker'.pc \in {"files", "report"} /\ worker'.then = worker.then /\ worker'.next = worker.next
          /\ worker'.status = worker.status /\ worker'.job = worker.job
      BY <2>7 DEF PersistResult, Storing
    <3> QED BY <3>1 DEF Said
  <2>8. CASE Report
    <3>1. /\ worker.pc = "report" /\ worker'.pc = "store" /\ UNCHANGED <<lists, latest>>
          /\ worker'.then = IF worker.next = "files" THEN "files" ELSE "end"
          /\ worker'.status = worker.status /\ worker'.job = worker.job
      BY <2>8 DEF Report, SetProgress
    <3>2. worker'.then = "end" => worker.next = "end"
      BY <3>1 DEF OnCourse
    <3> QED BY <3>1, <3>2 DEF Said
  <2>9. CASE ReadFile
    BY <2>9 DEF ReadFile, Storing
  <2>10. CASE Build
    BY <2>10 DEF Build, Storing
  <2>11. CASE WriteFound
    BY <2>11 DEF WriteFound, Storing
  <2>12. CASE CountFile
    BY <2>12 DEF CountFile, SetProgress, WritingAll
  <2>13. CASE Finish
    BY <2>13 DEF Finish, WritingAll, Storing
  <2>14. CASE Store
    <3>1. /\ worker.pc = "store" /\ UNCHANGED <<lists, latest>> /\ worker'.pc = worker.then /\ worker'.then = "none"
          /\ worker'.status = worker.status /\ worker'.job = worker.job /\ worker'.type = worker.type
      BY <2>14 DEF Store
    <3>2. worker.then \in {"begin", "lists", "walk", "files", "end"}
      BY <3>1 DEF Storing
    <3>3. CASE worker.then = "end"
      BY <3>1, <3>3 DEF Said
    <3>4. CASE worker.then = "lists"
      BY <3>1, <3>4 DEF Said
    <3> QED BY <3>1, <3>2, <3>3, <3>4
  <2>15. CASE Unregister
    BY <2>15 DEF Unregister, NoWorker
  <2> QED BY <1>4, <2>1, <2>2, <2>3, <2>4, <2>5, <2>6, <2>7, <2>8, <2>9, <2>10, <2>11, <2>12, <2>13, <2>14, <2>15
          DEF AnalysisStep
<1>5. CASE Raise
  BY <1>5 DEF Raise, WritingAll
<1>6. CASE Die
  BY <1>6 DEF Die, NoWorker
<1>7. CASE Restart
  BY <1>7 DEF Restart, NoWorker
<1> QED BY <1>1, <1>2, <1>3, <1>4, <1>5, <1>6, <1>7 DEF Next, RequestStop, StoreStop, vars

(* When the thread is gone, or as good as gone, both records tell the truth. *)
Settled == worker.pc \in {"none", "end"} \/ worker.then = "begin"
Together ==
  Settled => /\ "cut" \notin amiss => Outcome(memory)
             /\ amiss = {} => Outcome(disk)

LEMMA TogetherStep ==
  ASSUME TypeOK, OnCourse, Storing, EndSaid, Together, [Next]_vars
  PROVE  Together'
<1> USE DEF Together, Settled
<1>a. ASSUME NEW p \in Progress, UNCHANGED <<lists, latest>>, Outcome(p) PROVE Outcome(p)'
  BY <1>a DEF Outcome
<1>1. CASE Start
  <2>1. /\ memory'.running /\ UNCHANGED <<disk, lists, latest, amiss>> /\ worker.pc = "none"
    BY <1>1 DEF Start, SetProgress
  <2>2. Outcome(memory)'
    BY <2>1 DEF Outcome
  <2>3. amiss = {} => Outcome(disk)'
    BY <2>1 DEF Outcome
  <2> QED BY <2>1, <2>2, <2>3
<1>2. CASE RequestStop
  <2>1. /\ memory'.running = memory.running /\ memory'.job = memory.job
        /\ UNCHANGED <<disk, lists, latest, worker, amiss>>
    BY <1>2 DEF RequestStop, TypeOK, Progress
  <2> QED BY <2>1 DEF Outcome
<1>3. CASE StoreStop
  <2>1. UNCHANGED <<memory, lists, latest, worker>>
    BY <1>3 DEF StoreStop
  <2>2. CASE disk' = disk /\ amiss' = amiss
    BY <2>1, <2>2 DEF Outcome
  <2>3. CASE disk' = memory /\ amiss' = amiss
    BY <2>1, <2>3 DEF Outcome
  <2>4. CASE amiss' = amiss \cup {"late"}
    BY <2>1, <2>4 DEF Outcome
  <2> QED BY <1>3, <2>2, <2>3, <2>4 DEF StoreStop
<1>4. CASE Outside
  <2>1. UNCHANGED <<memory, disk, latest, worker, amiss>>
    BY <1>4, OutsideKeeps
  <2>2. ASSUME NEW p, Outcome(p), p.job # 0, ~p.running, NEW t \in 1..Types
        PROVE  lists'[t].scan \/ (lists'[t].status = latest.status /\ lists'[t].job \in {0, p.job})
    <3>1. lists[t].scan \/ (lists[t].status = latest.status /\ lists[t].job \in {0, p.job})
      BY <2>2 DEF Outcome
    <3> QED BY <1>4, <3>1, OutsideKeeps
  <2>3. (Outcome(memory) => Outcome(memory)') /\ (Outcome(disk) => Outcome(disk)')
    BY <2>1, <2>2 DEF Outcome
  <2> QED BY <2>1, <2>3
<1>5. CASE Store
  <2>1. /\ worker.pc = "store" /\ UNCHANGED <<memory, lists, latest>> /\ disk' = worker.copy
        /\ worker'.pc = worker.then /\ worker'.then = "none"
    BY <1>5 DEF Store, TypeOK, Worker
  <2>2. CASE worker.then = "end"
    <3>1. amiss' = amiss /\ memory.job = worker.job
      BY <1>5, <2>1, <2>2 DEF Store, OnCourse, Working
    <3>2. /\ latest.job = worker.job /\ latest.status = worker.status
          /\ \A t \in 1..Types : Said(t)
      BY <2>2 DEF EndSaid, At
    <3>3. worker.status \in {"stopped", "failed", "finished"}
      BY <2>2 DEF OnCourse, At
    <3>4. Outcome(memory)'
      BY <2>1, <3>1, <3>2, <3>3 DEF Outcome, Said
    <3>5. disk'.job = memory'.job
      BY <2>1 DEF Storing
    <3>6. Outcome(disk)'
      BY <2>1, <3>1, <3>2, <3>3, <3>5 DEF Outcome, Said
    <3> QED BY <3>4, <3>6
  <2>3. CASE worker.then # "end"
    BY <2>1, <2>3 DEF Storing
  <2> QED BY <2>2, <2>3
<1>6. CASE AnalysisStep /\ Unregister
  <2>1. UNCHANGED <<memory, disk, lists, latest>> /\ worker.pc = "end"
    BY <1>6 DEF Unregister
  <2>2. (Outcome(memory) => Outcome(memory)') /\ (Outcome(disk) => Outcome(disk)')
    BY <2>1 DEF Outcome
  <2>3. amiss' = amiss
    BY <1>6, <2>1 DEF AnalysisStep, Store
  <2> QED BY <2>1, <2>2, <2>3
<1>7. CASE Die
  BY <1>7 DEF Die
<1>8. CASE Restart
  <2>1. /\ UNCHANGED <<disk, lists, latest>> /\ memory'.job = 0
        /\ amiss' = IF worker.pc # "none" THEN amiss \cup {"cut"} ELSE amiss
    BY <1>8 DEF Restart, Empty
  <2>2. Outcome(memory)'
    BY <2>1 DEF Outcome
  <2>3. CASE worker.pc = "none"
    BY <2>1, <2>2, <2>3 DEF Outcome
  <2>4. CASE worker.pc # "none"
    BY <2>1, <2>2, <2>4
  <2> QED BY <2>3, <2>4
<1>9. CASE UNCHANGED vars
  BY <1>9 DEF vars, Outcome
<1>10. CASE Begin \/ Walk \/ Report \/ CountFile
  <2>1. worker'.pc \in {"lists", "store"} /\ worker'.then \in {"none", "lists", "walk", "files", "end"}
    BY <1>10 DEF Begin, Walk, Report, CountFile, SetProgress, WritingAll, TypeOK, Worker, Storing
  <2> QED BY <2>1
<1>11. CASE WriteList \/ EndLists \/ EndWalk \/ PersistResult \/ ReadFile \/ Build \/ WriteFound
  <2>1. worker'.pc \in {"lists", "walk", "latest", "report", "files", "build", "found"} /\ worker'.then = worker.then
        /\ worker.pc # "store"
    BY <1>11 DEF WriteList, EndLists, AfterLists, EndWalk, PersistResult, ReadFile, Build, WriteFound, TypeOK, Worker
  <2> QED BY <2>1 DEF Storing
<1>12. CASE Stop \/ Finish \/ Raise
  <2>1. worker'.pc = "lists" /\ worker'.then = "none"
    BY <1>12 DEF Stop, Finish, Raise, WritingAll, TypeOK, Worker, Storing
  <2> QED BY <2>1
<1> QED BY <1>1, <1>2, <1>3, <1>4, <1>5, <1>6, <1>7, <1>8, <1>9, <1>10, <1>11, <1>12 DEF Next, AnalysisStep

(* What makes EndedTogether inductive.                                       *)
EndInv == TypeOK /\ OnCourse /\ Storing /\ EndSaid /\ Together

LEMMA EndInit == Init => EndInv
<1> SUFFICES ASSUME Init PROVE EndInv
  OBVIOUS
<1>1. OnCourse /\ Storing /\ EndSaid /\ Together
  BY DEF Init, NoWorker, Empty, Working, At, OnCourse, Storing, EndSaid, Settled, Together, Outcome
<1> QED BY <1>1, TypeInit DEF EndInv

LEMMA EndStep == EndInv /\ [Next]_vars => EndInv'
BY TypeStep, OnCourseStep, EndSaidStep, TogetherStep DEF EndInv

(* An analysis that a record says has ended, and whose thread is gone, has   *)
(* written one outcome, and its job, into every list that no check scan has  *)
(* taken over and into the latest result, however it came to its end, unless *)
(* it was cut off or (for the record in the database) a stop request stored  *)
(* its copy late.                                                            *)
THEOREM EndsTogether == Spec => []EndedTogether
<1>1. EndInv => EndedTogether
  BY DEF EndInv, Together, Settled, EndedTogether, Alive
<1> QED BY <1>1, EndInit, EndStep, PTL DEF Spec
-----------------------------------------------------------------------------
Unresolved == Entry \ (resolved \cup lost)
Stored(e) == e \in lists[TypeOf[e]].entries \/ lists[TypeOf[e]].scan

(* The thread knows what it has found in the images it has read, but for the *)
(* entries of the last one that are not built yet.                           *)
Collected ==
  \A e \in Unresolved :
    /\ FileOf[e] < worker.at => e \in worker.entries
    /\ FileOf[e] = worker.at =>
         \/ e \in worker.entries
         \/ worker.pc = "build" /\ TypeOf[e] # Types /\ (TypeOf[e] = 1 \/ worker.type <= TypeOf[e])
    /\ worker.pc \in {"build", "found"} /\ FileOf[e] = worker.at => e \in worker.fresh

(* A finding may be missing from its list only as long as the thread is      *)
(* about to write that list.                                                 *)
Due(e) == \/ At("lists") /\ worker.type <= TypeOf[e]
          \/ worker.pc = "build" /\ FileOf[e] = worker.at
          \/ worker.pc = "found" /\ FileOf[e] = worker.at /\ worker.type <= TypeOf[e]
WrittenSoFar ==
  \A e \in Unresolved : TypeOf[e] < Types /\ FileOf[e] <= worker.at /\ ~Due(e) => Stored(e)

(* No record counts more images than the thread has read, nor one in the     *)
(* database more than the one in memory.                                     *)
Counts ==
  /\ Working => memory.files <= worker.at
  /\ memory.job <= jobs /\ disk.job <= jobs /\ stopper.copy.job <= jobs
  /\ memory.job = jobs /\ disk.job = jobs => disk.files <= memory.files
  /\ stopper.storing /\ stopper.copy.job = jobs => stopper.copy.files <= memory.files
  /\ memory.job = jobs \/ memory.files = 0
  /\ jobs = 0 => disk.files = 0 /\ memory.files = 0 /\ ~Working

LEMMA CountsStep ==
  ASSUME TypeOK, OnCourse, Storing, Counts, [Next]_vars
  PROVE  Counts'
<1> USE DEF TypeOK, Worker, Progress, Working, Counts
<1>1. CASE Start
  <2>1. /\ worker.pc = "none" /\ UNCHANGED <<disk, stopper>> /\ jobs' = jobs + 1
        /\ memory'.job = jobs' /\ memory'.files = 0 /\ worker'.at = 0
    BY <1>1 DEF Start, SetProgress, NoWorker
  <2> QED BY <2>1
<1>2. CASE RequestStop
  <2>1. /\ stopper'.copy.job = memory.job /\ stopper'.copy.files = memory.files
        /\ memory'.job = memory.job /\ memory'.files = memory.files
        /\ UNCHANGED <<disk, worker, jobs>>
    BY <1>2 DEF RequestStop
  <2> QED BY <2>1
<1>3. CASE StoreStop
  <2>1. /\ stopper.storing /\ UNCHANGED <<memory, worker, jobs>> /\ (disk' = disk \/ disk' = stopper.copy)
        /\ ~stopper'.storing /\ stopper'.copy.job = 0
    BY <1>3 DEF StoreStop, AtEase, Empty
  <2> QED BY <2>1
<1>4. CASE AnalysisStep
  <2>0. UNCHANGED <<jobs, stopper>> /\ memory.job = jobs /\ Working
    BY <1>4 DEF AnalysisStep, OnCourse, Begin, WriteList, EndLists, Walk, EndWalk, Stop, PersistResult, Report,
       ReadFile, Build, WriteFound, CountFile, Finish, Store, Unregister
  <2>1. CASE Begin \/ Walk
    <3>1. memory'.job = memory.job /\ memory'.files = memory.files /\ disk' = disk /\ worker'.at = worker.at
      <4>1. CASE Begin
        <5>1. disk' = disk /\ (memory' = memory \/ memory' = [memory EXCEPT !.running = TRUE])
          BY <4>1 DEF Begin, SetProgress
        <5>2. worker'.at = worker.at
          BY <4>1 DEF Begin, SetProgress, WritingAll
        <5> QED BY <5>1, <5>2
      <4>2. CASE Walk
        BY <4>2 DEF Walk, SetProgress
      <4> QED BY <2>1, <4>1, <4>2
    <3> QED BY <2>0, <3>1
  <2>2. CASE Report \/ CountFile
    <3>1. memory'.job = jobs /\ memory'.files = worker.at /\ disk' = disk /\ worker'.at = worker.at
      <4>1. CASE Report
        BY <4>1, <2>0 DEF Report, SetProgress, OnCourse
      <4>2. CASE CountFile
        BY <4>2, <2>0 DEF CountFile, Counted, SetProgress, WritingAll
      <4> QED BY <2>2, <4>1, <4>2
    <3> QED BY <2>0, <3>1
  <2>3. CASE WriteList \/ EndLists \/ EndWalk \/ Stop \/ PersistResult \/ Build \/ WriteFound \/ Finish
    <3>1. UNCHANGED <<memory, disk>> /\ worker'.at = worker.at
      <4>1. CASE WriteList \/ EndLists \/ EndWalk
        BY <4>1 DEF WriteList, EndLists, EndWalk
      <4>2. CASE PersistResult \/ Build \/ WriteFound
        BY <4>2 DEF PersistResult, Build, WriteFound
      <4>3. CASE Stop \/ Finish
        BY <4>3 DEF Stop, Finish, WritingAll
      <4> QED BY <2>3, <4>1, <4>2, <4>3
    <3> QED BY <2>0, <3>1
  <2>4. CASE ReadFile
    <3>1. UNCHANGED <<memory, disk>> /\ worker'.at = worker.at + 1
      BY <2>4 DEF ReadFile
    <3> QED BY <2>0, <3>1
  <2>5. CASE Store
    <3>1. /\ memory' = memory /\ disk' = worker.copy /\ worker'.at = worker.at
          /\ worker.copy.job = memory.job /\ worker.copy.files = memory.files
      BY <2>5 DEF Store, Storing
    <3> QED BY <2>0, <3>1
  <2>6. CASE Unregister
    <3>1. UNCHANGED <<memory, disk>> /\ worker'.pc = "none"
      BY <2>6 DEF Unregister, NoWorker
    <3> QED BY <2>0, <3>1
  <2> QED BY <1>4, <2>1, <2>2, <2>3, <2>4, <2>5, <2>6 DEF AnalysisStep
<1>5. CASE Raise
  <2>1. UNCHANGED <<memory, disk, stopper, jobs>> /\ worker'.at = worker.at /\ Working
    BY <1>5 DEF Raise, Tried, WritingAll
  <2> QED BY <2>1
<1>6. CASE Die
  <2>1. UNCHANGED <<memory, disk, stopper, jobs>> /\ worker'.pc = "none"
    BY <1>6 DEF Die, NoWorker
  <2> QED BY <2>1
<1>7. CASE Restart
  <2>1. /\ UNCHANGED <<disk, jobs>> /\ worker'.pc = "none" /\ ~stopper'.storing /\ stopper'.copy.job = 0
        /\ memory'.job = 0 /\ memory'.files = 0
    BY <1>7 DEF Restart, NoWorker, AtEase, Empty
  <2> QED BY <2>1
<1>8. CASE UNCHANGED <<memory, disk, worker, stopper, jobs>>
  BY <1>8
<1> QED BY <1>1, <1>2, <1>3, <1>4, <1>5, <1>6, <1>7, <1>8 DEF Next, Outside, Resolve, Withdraw, ScanWrites, vars

LEMMA EntryTypes == \A e \in Entry : FileOf[e] \in 1..Files /\ TypeOf[e] \in 1..Types
OBVIOUS

(* A finding that is neither resolved nor lost was so before, but for what   *)
(* was lost to the analysis before this one.                                 *)
LEMMA UnresolvedBefore ==
  ASSUME [Next]_vars, ~Start
  PROVE  Unresolved' \subseteq Unresolved
<1>1. resolved \subseteq resolved' /\ lost \subseteq lost'
  BY DEF Next, AnalysisStep, RequestStop, StoreStop, Raise, Die, Restart, Outside, Resolve, Withdraw, ScanWrites, vars
<1> QED BY <1>1 DEF Unresolved

LEMMA CollectedStep ==
  ASSUME TypeOK, OnCourse, Storing, Collected, [Next]_vars
  PROVE  Collected'
<1> SUFFICES ASSUME NEW e \in Entry, e \in Unresolved'
             PROVE  /\ FileOf[e] < worker'.at => e \in worker'.entries
                    /\ FileOf[e] = worker'.at =>
                         \/ e \in worker'.entries
                         \/ /\ worker'.pc = "build" /\ TypeOf[e] # Types
                            /\ (TypeOf[e] = 1 \/ worker'.type <= TypeOf[e])
                    /\ worker'.pc \in {"build", "found"} /\ FileOf[e] = worker'.at => e \in worker'.fresh
  BY DEF Collected, Unresolved
<1>a. FileOf[e] \in 1..Files /\ TypeOf[e] \in 1..Types
  BY EntryTypes
<1>b. worker.type \in 1..(Types + 1) /\ worker.at \in 0..Files /\ worker.fresh \subseteq Entry
      /\ worker \in Worker
  BY DEF TypeOK, Worker
<1>c. ASSUME ~Start
      PROVE  /\ e \in Unresolved
             /\ FileOf[e] < worker.at => e \in worker.entries
             /\ FileOf[e] = worker.at =>
                  \/ e \in worker.entries
                  \/ worker.pc = "build" /\ TypeOf[e] # Types /\ (TypeOf[e] = 1 \/ worker.type <= TypeOf[e])
             /\ worker.pc \in {"build", "found"} /\ FileOf[e] = worker.at => e \in worker.fresh
  BY <1>c, UnresolvedBefore DEF Collected
<1>d. ASSUME ~Start, worker.pc # "build", worker'.pc \notin {"build", "found"},
             worker'.at = worker.at, worker'.entries = worker.entries
      PROVE  /\ FileOf[e] < worker'.at => e \in worker'.entries
             /\ FileOf[e] = worker'.at => e \in worker'.entries
  BY <1>c, <1>d
<1> USE DEF Worker
<1>1. CASE Start
  <2>1. worker'.at = 0
    BY <1>1 DEF Start, SetProgress, NoWorker
  <2> QED BY <1>a, <2>1
<1>2. CASE worker' = worker /\ ~Start
  BY <1>2, <1>c
<1>3. CASE ReadFile /\ ~Start
  <2> DEFINE f == {x \in Entry \ resolved : FileOf[x] = worker.at + 1}
             d == {x \in f : TypeOf[x] = Types}
  <2>1. /\ worker'.at = worker.at + 1 /\ worker'.fresh = f /\ worker'.entries = worker.entries \cup d
        /\ worker.pc = "files" /\ worker'.pc = "build" /\ worker'.type = 2
    BY <1>3, <1>b DEF ReadFile
  <2>2. e \notin resolved
    BY <1>3, <1>c DEF Unresolved
  <2>3. FileOf[e] < worker.at + 1 => e \in worker.entries
    <3>1. FileOf[e] < worker.at + 1 => FileOf[e] < worker.at \/ FileOf[e] = worker.at
      BY <1>a, <1>b
    <3> QED BY <1>3, <1>c, <2>1, <3>1
  <2>4. FileOf[e] = worker.at + 1 => e \in f /\ (e \in d \/ (TypeOf[e] # Types /\ (TypeOf[e] = 1 \/ 2 <= TypeOf[e])))
    BY <1>a, <2>2
  <2> HIDE DEF f, d
  <2> QED BY <2>1, <2>3, <2>4
<1>4. CASE Build /\ ~Start
  <2> DEFINE u == IF worker.type = Types THEN 1 ELSE worker.type
             b == {x \in worker.fresh \ resolved : TypeOf[x] = u}
  <2>1. /\ worker'.at = worker.at /\ worker'.fresh = worker.fresh /\ worker'.entries = worker.entries \cup b
        /\ worker.pc = "build" /\ worker'.pc = (IF u = 1 THEN "found" ELSE "build")
        /\ worker'.type = (IF u = 1 THEN 1 ELSE worker.type + 1)
    BY <1>4, <1>b DEF Build
  <2>2. worker.type \in 2..Types
    BY <2>1 DEF OnCourse
  <2>3. e \notin resolved
    BY <1>4, <1>c DEF Unresolved
  <2>4. FileOf[e] = worker.at /\ TypeOf[e] = u => e \in b
    BY <1>4, <1>c, <2>1, <2>3
  <2>5. u # 1 => u = worker.type /\ worker.type + 1 \in 1..Types
    BY <2>2
  <2>6. u = 1 => worker.type = Types
    BY <2>2
  <2> HIDE DEF u, b
  <2>7. FileOf[e] = worker.at => \/ e \in worker.entries \cup b
                                 \/ u # 1 /\ TypeOf[e] # Types /\ (TypeOf[e] = 1 \/ worker.type + 1 <= TypeOf[e])
    BY <1>4, <1>a, <1>c, <2>2, <2>4, <2>5, <2>6
  <2> QED BY <1>4, <1>c, <2>1, <2>7
<1>5. CASE WriteFound /\ ~Start
  <2>1. /\ worker'.at = worker.at /\ worker'.fresh = worker.fresh /\ worker'.entries = worker.entries
        /\ worker.pc = "found" /\ worker'.pc = "found"
    BY <1>5, <1>b DEF WriteFound
  <2> QED BY <1>5, <1>c, <2>1
<1>6. CASE CountFile /\ ~Start
  <2>1. worker.pc = "found" /\ worker'.pc = "store" /\ worker'.at = worker.at /\ worker'.entries = worker.entries
    BY <1>6, <1>b DEF CountFile, SetProgress, WritingAll
  <2> QED BY <1>6, <1>d, <2>1
<1>7. CASE Raise /\ ~Start
  <2>1. worker'.pc = "lists" /\ worker'.at = worker.at /\ worker'.entries = worker.entries
        /\ lost' = lost \cup (worker.fresh \ worker.entries)
    BY <1>7, <1>b DEF Raise, WritingAll
  <2>2. e \in worker.fresh => e \in worker.entries
    BY <2>1 DEF Unresolved
  <2> QED BY <1>7, <1>c, <2>1, <2>2
<1>8. CASE (Begin \/ Walk \/ Report) /\ ~Start
  <2>1. /\ worker.pc # "build" /\ worker'.pc \in {"lists", "store"}
        /\ worker'.at = worker.at /\ worker'.entries = worker.entries
    BY <1>8, <1>b DEF Begin, Walk, Report, SetProgress, WritingAll
  <2> QED BY <1>8, <1>d, <2>1
<1>9. CASE (WriteList \/ EndLists \/ EndWalk \/ Stop \/ PersistResult \/ Finish) /\ ~Start
  <2>1. /\ worker.pc # "build" /\ worker'.pc \in {"lists", "walk", "latest", "report", "files"}
        /\ worker'.at = worker.at /\ worker'.entries = worker.entries
    BY <1>9, <1>b DEF WriteList, EndLists, AfterLists, EndWalk, Stop, PersistResult, Finish, WritingAll
  <2> QED BY <1>9, <1>d, <2>1
<1>10. CASE Store /\ ~Start
  <2>1. /\ worker.pc = "store" /\ worker'.pc = worker.then /\ worker'.at = worker.at /\ worker'.entries = worker.entries
    BY <1>10, <1>b DEF Store
  <2>2. worker.then \notin {"build", "found"}
    BY DEF Storing
  <2> QED BY <1>10, <1>d, <2>1, <2>2
<1>11. CASE (Unregister \/ Die \/ Restart) /\ ~Start
  <2>1. worker'.at = 0
    BY <1>11 DEF Unregister, Die, Restart, NoWorker
  <2> QED BY <1>a, <2>1
<1> QED BY <1>1, <1>2, <1>3, <1>4, <1>5, <1>6, <1>7, <1>8, <1>9, <1>10, <1>11
        DEF Next, AnalysisStep, RequestStop, StoreStop, Outside, Resolve, Withdraw, ScanWrites, vars

(* Writing a list of the thread brings in what it has found and leaves the   *)
(* other lists alone.                                                        *)
LEMMA WriteOfStores ==
  ASSUME TypeOK, Collected, worker.pc # "build", NEW t \in 1..Types, NEW status \in Status,
         lists' = WriteOf(t, status), NEW e \in Unresolved, FileOf[e] <= worker.at
  PROVE  (TypeOf[e] = t => Stored(e)') /\ (Stored(e) => Stored(e)')
<1>0. FileOf[e] < worker.at \/ FileOf[e] = worker.at
  BY EntryTypes DEF TypeOK, Worker, Unresolved
<1>1. e \in worker.entries /\ e \in EntriesOf(TypeOf[e])
  BY <1>0 DEF Collected, Unresolved, EntriesOf
<1>2. TypeOf[e] = t => e \in lists'[t].entries
  BY <1>1 DEF WriteOf, TypeOK
<1>3. TypeOf[e] # t => lists'[TypeOf[e]] = lists[TypeOf[e]]
  BY EntryTypes DEF WriteOf, TypeOK, Unresolved
<1> QED BY <1>2, <1>3 DEF Stored

(* Resolving one finding keeps the others: those of its image are read       *)
(* again, withdrawn along with it, or lost to the list of a check scan.      *)
LEMMA OutsideKeepsStored ==
  ASSUME TypeOK, Outside, NEW e \in Unresolved', Stored(e)
  PROVE  Stored(e)'
<1>a. e \in Entry /\ TypeOf[e] \in 1..Types
  BY EntryTypes DEF Unresolved
<1>1. ASSUME NEW d \in Entry, Resolve(d) PROVE Stored(e)'
  <2> DEFINE rest == {x \in Entry \ (resolved \cup {d}) : TypeOf[x] = TypeOf[d] /\ FileOf[x] = FileOf[d]}
  <2>1. TypeOf[d] \in 1..Types /\ lists[TypeOf[d]] \in List
    BY EntryTypes DEF TypeOK
  <2>2. CASE TypeOf[e] = TypeOf[d]
    <3>1. /\ lists'[TypeOf[d]].entries = {x \in lists[TypeOf[d]].entries : FileOf[x] # FileOf[d]} \cup rest
          /\ lists'[TypeOf[d]].scan = lists[TypeOf[d]].scan
      BY <1>1, <2>1 DEF Resolve, TypeOK
    <3>2. FileOf[e] = FileOf[d] => e \in rest
      BY <1>1, <1>a, <2>2 DEF Resolve, Unresolved
    <3> HIDE DEF rest
    <3> QED BY <1>a, <2>2, <3>1, <3>2 DEF Stored
  <2>3. CASE TypeOf[e] # TypeOf[d]
    <3>1. lists'[TypeOf[e]] = lists[TypeOf[e]]
      BY <1>1, <1>a, <2>3 DEF Resolve, TypeOK
    <3> QED BY <3>1 DEF Stored
  <2> QED BY <2>2, <2>3
<1>2. ASSUME NEW d \in Entry, NEW gone \in SUBSET Entry, Withdraw(d, gone) PROVE Stored(e)'
  <2>1. e \notin gone
    BY <1>2 DEF Withdraw, Unresolved
  <2>2. /\ lists'[TypeOf[e]].scan = lists[TypeOf[e]].scan
        /\ lists'[TypeOf[e]].entries = lists[TypeOf[e]].entries
           \/ lists'[TypeOf[e]].entries = lists[TypeOf[e]].entries \ gone
    BY <1>2, <1>a DEF Withdraw, TypeOK, List
  <2> QED BY <2>1, <2>2 DEF Stored
<1>3. ASSUME NEW u \in 1..(Types - 1), NEW status \in Status, NEW entries \in SUBSET Entry,
             ScanWrites(u, entries, status)
      PROVE  Stored(e)'
  <2>1. lists'[TypeOf[e]].scan \/ lists'[TypeOf[e]] = lists[TypeOf[e]]
    BY <1>3, <1>a DEF ScanWrites, TypeOK
  <2> QED BY <2>1 DEF Stored
<1> QED BY <1>1, <1>2, <1>3 DEF Outside

LEMMA StoredStays ==
  ASSUME TypeOK, Collected, [Next]_vars, ~Start, NEW e \in Unresolved', Stored(e),
         Working => FileOf[e] <= worker.at
  PROVE  Stored(e)'
<1>0. e \in Unresolved
  BY UnresolvedBefore
<1>1. CASE lists' = lists
  BY <1>1 DEF Stored
<1>2. CASE WriteList
  <2>1. worker.type \in 1..Types /\ worker.status \in Status /\ worker.pc = "lists"
        /\ lists' = WriteOf(worker.type, worker.status)
    BY <1>2 DEF WriteList, TypeOK, Worker
  <2> QED BY <1>0, <2>1, WriteOfStores DEF Working
<1>3. CASE WriteFound /\ lists' # lists
  <2>1. worker.type \in 1..Types /\ "running" \in Status /\ worker.pc = "found"
        /\ lists' = WriteOf(worker.type, "running")
    BY <1>3 DEF WriteFound, TypeOK, Worker, Status
  <2> QED BY <1>0, <2>1, WriteOfStores DEF Working
<1>4. CASE Outside
  BY <1>4, OutsideKeepsStored
<1> QED BY <1>1, <1>2, <1>3, <1>4 DEF Next, RequestStop, StoreStop, AnalysisStep, Store, Begin, EndLists, Walk,
       EndWalk, Stop, PersistResult, Report, Unregister, ReadFile, Build, CountFile, Finish, Raise, Die, Restart, vars

LEMMA WrittenStep ==
  ASSUME TypeOK, OnCourse, Storing, Collected, WrittenSoFar, [Next]_vars
  PROVE  WrittenSoFar'
<1> SUFFICES ASSUME NEW e \in Entry, e \in Unresolved', TypeOf[e] < Types, FileOf[e] <= worker'.at, ~Due(e)'
             PROVE  Stored(e)'
  BY DEF WrittenSoFar, Unresolved
<1>a. FileOf[e] \in 1..Files /\ TypeOf[e] \in 1..Types
  BY EntryTypes
<1>b. worker.type \in 1..(Types + 1) /\ worker.at \in 0..Files /\ worker \in Worker
  BY DEF TypeOK, Worker
<1>c. ~Start => e \in Unresolved
  BY UnresolvedBefore
<1>d. ASSUME ~Start, ~Due(e), FileOf[e] <= worker.at PROVE Stored(e)'
  BY <1>c, <1>d, StoredStays DEF WrittenSoFar, Unresolved
<1>e. ASSUME worker'.at = 0 PROVE FALSE
  BY <1>a, <1>e
<1> USE DEF Worker
<1>1. CASE worker' = worker /\ ~Start
  BY <1>1, <1>d DEF Due, At
<1>2. CASE Start
  BY <1>2, <1>e DEF Start, SetProgress, NoWorker
<1>3. CASE Begin \/ Stop \/ Finish \/ Raise
  <2>1. At("lists")' /\ worker'.type = 1
    BY <1>3, <1>b DEF Begin, Stop, Finish, Raise, SetProgress, WritingAll, At
  <2> QED BY <2>1, <1>a DEF Due
<1>4. CASE WriteList /\ ~Start
  <2>1. /\ worker.type \in 1..Types /\ worker.status \in Status /\ worker.pc = "lists" /\ worker.then = "none"
        /\ lists' = WriteOf(worker.type, worker.status)
        /\ worker'.pc = "lists" /\ worker'.type = worker.type + 1 /\ worker'.at = worker.at
    BY <1>4, <1>b DEF WriteList, Storing
  <2>2. CASE TypeOf[e] = worker.type
    BY <1>4, <2>1, <2>2, <1>c, WriteOfStores
  <2>3. CASE TypeOf[e] < worker.type
    BY <1>4, <2>1, <2>3, <1>a, <1>d DEF Due, At
  <2>4. ~(worker.type + 1 <= TypeOf[e])
    BY <2>1 DEF Due, At
  <2> QED BY <2>1, <2>2, <2>3, <2>4, <1>a
<1>5. CASE EndLists /\ ~Start
  <2>1. worker.pc = "lists" /\ worker.type > Types /\ worker'.at = worker.at
    BY <1>5, <1>b DEF EndLists
  <2> QED BY <1>5, <2>1, <1>a, <1>b, <1>d DEF Due, At
<1>6. CASE (Walk \/ EndWalk \/ PersistResult \/ Report) /\ ~Start
  <2>1. worker.pc \in {"walk", "latest", "report"} /\ worker.then = "none" /\ worker'.at = worker.at
    BY <1>6, <1>b DEF Walk, EndWalk, PersistResult, Report, SetProgress, Storing
  <2> QED BY <1>6, <2>1, <1>d DEF Due, At
<1>7. CASE ReadFile /\ ~Start
  <2>1. worker.pc = "files" /\ worker.then = "none" /\ worker'.pc = "build" /\ worker'.at = worker.at + 1
    BY <1>7, <1>b DEF ReadFile, Storing
  <2>2. FileOf[e] <= worker.at
    BY <2>1, <1>a, <1>b DEF Due, At
  <2> QED BY <1>7, <2>1, <2>2, <1>d DEF Due, At
<1>8. CASE Build /\ ~Start
  <2>1. /\ worker.pc = "build" /\ worker.then = "none" /\ worker'.at = worker.at
        /\ \/ worker'.pc = "build"
           \/ worker'.pc = "found" /\ worker'.type = 1
    BY <1>8, <1>b DEF Build, Storing
  <2>2. FileOf[e] # worker.at
    BY <2>1, <1>a DEF Due, At
  <2> QED BY <1>8, <2>1, <2>2, <1>d DEF Due, At
<1>9. CASE WriteFound /\ ~Start
  <2>1. /\ worker.pc = "found" /\ worker.then = "none" /\ worker'.pc = "found"
        /\ worker'.at = worker.at /\ worker'.type = worker.type + 1
        /\ worker.type \in 1..Types
    BY <1>9, <1>b DEF WriteFound, Storing
  <2>2. CASE FileOf[e] = worker.at /\ TypeOf[e] = worker.type
    <3>1. e \in worker.fresh
      BY <1>9, <2>1, <2>2, <1>c DEF Collected
    <3>2. lists' = WriteOf(worker.type, "running") /\ "running" \in Status
      BY <1>9, <2>2, <3>1 DEF WriteFound, Status
    <3> QED BY <1>9, <2>1, <2>2, <3>2, <1>c, WriteOfStores
  <2>3. CASE ~Due(e)
    BY <1>9, <2>1, <2>3, <1>d
  <2>4. FileOf[e] # worker.at \/ ~(worker.type + 1 <= TypeOf[e])
    BY <2>1 DEF Due, At
  <2>5. Due(e) => FileOf[e] = worker.at /\ worker.type <= TypeOf[e]
    BY <2>1 DEF Due, At
  <2> QED BY <2>1, <2>2, <2>3, <2>4, <2>5, <1>a
<1>10. CASE CountFile /\ ~Start
  <2>1. worker.pc = "found" /\ worker.type = Types /\ worker.then = "none" /\ worker'.at = worker.at
    BY <1>10, <1>b DEF CountFile, SetProgress, WritingAll, Storing
  <2> QED BY <1>10, <2>1, <1>a, <1>d DEF Due, At
<1>11. CASE Store /\ ~Start
  <2>1. /\ worker.pc = "store" /\ worker'.pc = worker.then /\ worker'.then = "none"
        /\ worker'.at = worker.at /\ worker'.type = worker.type
    BY <1>11, <1>b DEF Store
  <2>2. ~Due(e)
    BY <2>1 DEF Due, At
  <2> QED BY <1>11, <2>1, <2>2, <1>d
<1>12. CASE Unregister \/ Die \/ Restart
  BY <1>12, <1>e DEF Unregister, Die, Restart, NoWorker
<1> QED BY <1>1, <1>2, <1>3, <1>4, <1>5, <1>6, <1>7, <1>8, <1>9, <1>10, <1>11, <1>12
        DEF Next, AnalysisStep, RequestStop, StoreStop, Outside, Resolve, Withdraw, ScanWrites, vars

LEMMA FoundStep ==
  ASSUME TypeOK, OnCourse, Storing, Counts, Collected, WrittenSoFar, FoundIsWritten, [Next]_vars
  PROVE  FoundIsWritten'
<1> SUFFICES ASSUME NEW e \in Entry, e \in Unresolved', TypeOf[e] < Types,
                    FileOf[e] <= memory'.files \/ (FileOf[e] <= disk'.files /\ disk'.job = jobs')
             PROVE  Stored(e)'
  BY DEF FoundIsWritten, Stored, Unresolved
<1>a. FileOf[e] \in 1..Files /\ TypeOf[e] \in 1..Types
  BY EntryTypes
<1>b. ~Start => e \in Unresolved
  BY UnresolvedBefore
<1>c. ASSUME ~Start, FileOf[e] <= memory.files \/ (FileOf[e] <= disk.files /\ disk.job = jobs) PROVE Stored(e)'
  <2>1. Stored(e)
    BY <1>b, <1>c DEF FoundIsWritten, Stored, Unresolved
  <2>2. Working => FileOf[e] <= worker.at
    BY <1>a, <1>c DEF Counts, OnCourse, TypeOK, Progress, Worker
  <2> QED BY <1>c, <2>1, <2>2, StoredStays
<1> USE DEF TypeOK, Worker, Progress
<1>1. CASE Start
  <2>1. memory'.files = 0 /\ disk' = disk /\ jobs' = jobs + 1
    BY <1>1 DEF Start, SetProgress
  <2> QED BY <2>1, <1>a DEF Counts
<1>2. CASE StoreStop /\ ~Start
  <2>1. /\ disk' = disk \/ (disk' = stopper.copy /\ stopper.storing)
        /\ UNCHANGED <<memory, jobs>>
    BY <1>2 DEF StoreStop
  <2> QED BY <1>2, <2>1, <1>a, <1>c DEF Counts
<1>3. CASE AnalysisStep /\ (Begin \/ Walk) /\ ~Start
  <2>1. memory'.files = memory.files /\ disk' = disk
    BY <1>3 DEF Begin, Walk, SetProgress
  <2>2. jobs' = jobs
    BY <1>3 DEF AnalysisStep
  <2> QED BY <1>3, <2>1, <2>2, <1>c
<1>4. CASE AnalysisStep /\ (Report \/ CountFile) /\ ~Start
  <2>1. memory'.files = worker.at /\ disk' = disk
    BY <1>4 DEF Report, CountFile, Counted, SetProgress
  <2>2. (worker.pc = "report" \/ (worker.pc = "found" /\ worker.type = Types)) /\ jobs' = jobs
    BY <1>4 DEF AnalysisStep, Report, CountFile
  <2>3. Working /\ ~Due(e)
    BY <2>2, <1>a DEF Due, At, Working, Storing
  <2>4. FileOf[e] <= worker.at => Stored(e)'
    BY <1>4, <2>3, <1>b, StoredStays DEF WrittenSoFar, Unresolved
  <2> QED BY <1>4, <2>1, <2>2, <2>4, <1>c
<1>5. CASE RequestStop /\ ~Start
  <2>1. memory'.files = memory.files /\ UNCHANGED <<disk, jobs>>
    BY <1>5 DEF RequestStop
  <2> QED BY <1>5, <2>1, <1>c
<1>6. CASE Restart /\ ~Start
  <2>1. memory'.files = 0 /\ UNCHANGED <<disk, jobs>>
    BY <1>6 DEF Restart, Empty
  <2> QED BY <1>6, <2>1, <1>a, <1>c
<1>7. CASE AnalysisStep /\ Store /\ ~Start
  <2>1. /\ worker.pc = "store" /\ memory' = memory /\ disk' = worker.copy /\ jobs' = jobs
    BY <1>7 DEF AnalysisStep, Store
  <2> QED BY <1>7, <2>1, <1>c DEF Storing
<1>8. CASE UNCHANGED <<memory, disk, jobs>> /\ ~Start
  BY <1>8, <1>c
<1> QED BY <1>1, <1>2, <1>3, <1>4, <1>5, <1>6, <1>7, <1>8 DEF Next, AnalysisStep, WriteList, EndLists, EndWalk, Stop,
       PersistResult, Unregister, ReadFile, Build, WriteFound, Finish, Raise, Die, Outside, Resolve, Withdraw,
       ScanWrites, vars

(* What makes FoundIsWritten inductive.                                      *)
FoundInv == EndInv /\ Counts /\ Collected /\ WrittenSoFar /\ FoundIsWritten

LEMMA FoundInit == Init => FoundInv
<1> SUFFICES ASSUME Init PROVE FoundInv
  OBVIOUS
<1>1. Counts
  BY DEF Init, NoWorker, Empty, AtEase, Working, Counts
<1>2. Collected /\ WrittenSoFar
  BY EntryTypes DEF Init, NoWorker, Unresolved, Collected, WrittenSoFar
<1>3. FoundIsWritten
  BY EntryTypes DEF Init, Empty, FoundIsWritten
<1> QED BY <1>1, <1>2, <1>3, EndInit DEF FoundInv

LEMMA FoundInvStep == FoundInv /\ [Next]_vars => FoundInv'
BY EndStep, CountsStep, CollectedStep, WrittenStep, FoundStep DEF FoundInv, EndInv

(* Whatever stops, fails, dies or is restarted in between, the findings of   *)
(* an image that a record of the last job counts are in the stored lists,    *)
(* unless they have been resolved or withdrawn with one that was, an error   *)
(* kept them from being built, or a check scan has taken the list over.      *)
THEOREM WhatIsFoundIsWritten == Spec => []FoundIsWritten
<1>1. FoundInv => FoundIsWritten
  BY DEF FoundInv
<1> QED BY <1>1, FoundInit, FoundInvStep, PTL DEF Spec
=============================================================================

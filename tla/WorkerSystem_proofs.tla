------------------------ MODULE WorkerSystem_proofs ------------------------
(***************************************************************************)
(* Proofs about WorkerSystem: the composition takes steps of the queue     *)
(* only, so the theorems of WorkerQueue_proofs hold of it, and a job runs  *)
(* at most once whatever is lost, late, crashed or restarted.              *)
(***************************************************************************)
EXTENDS WorkerSystem, WorkerQueue_proofs

-----------------------------------------------------------------------------
(* A worker and its request.  The type of a request depends on the point the *)
(* worker is at, so the types are proved with what ties the two together.    *)

Busy(w) == pc[w] \in Reporting \cup {"run"} \/ (pc[w] = "claim" /\ call[w] = "ok")

AtWork == \A w \in Worker : task[w] # None <=> Busy(w)

Holding == \A w \in Worker : pc[w] # "down" => held[w] \in Token

Posted == \A w \in Worker : call[w] # "none" => pc[w] \in Posting

Served ==
  /\ \A th \in Thread : server[th] # None =>
       call[server[th]] = "served" /\ pc[server[th]] # "claim"
  /\ \A th, tk \in Thread : server[th] = server[tk] /\ server[th] # None => th = tk

LinkInv == SystemTypeOK /\ AtWork /\ Holding /\ Posted /\ Served

LEMMA RequestOfType ==
  ASSUME LinkInv, NEW w \in Worker, pc[w] \in Posting
  PROVE  /\ pc[w] = "claim" => RequestOf(w) \in ClaimRequest
         /\ pc[w] # "claim" => RequestOf(w) \in Request
         /\ RequestOf(w).worker = w
         /\ RequestOf(w).op = "claim" <=> pc[w] = "claim"
<1>1. pc[w] \in Reporting => task[w] \in Job
  BY DEF LinkInv, AtWork, Busy, SystemTypeOK
<1>2. QED
  BY <1>1 DEF RequestOf, Request, ClaimRequest, Posting, Reporting, Settled

(* Every step of the composition is a step of the queue, or leaves it alone. *)
LEMMA QueueStep ==
  ASSUME LinkInv, [SystemNext]_svars
  PROVE  [Next]_qvars
<1>1. CASE UNCHANGED svars
  BY <1>1 DEF svars
<1>2. ASSUME NEW w \in Worker, WorkerStep(w) PROVE [Next]_qvars
  BY <1>2 DEF WorkerStep, LoopStep, Start, Post, HandleAnswer, Run
<1>3. ASSUME NEW w \in Worker, ServerStep(w) PROVE [Next]_qvars
  <2>1. ASSUME NEW th \in Thread, Receive(th, w) PROVE [Next]_qvars
    <3>1. pc[w] \in Posting /\ pc[w] # "claim"
      BY <2>1 DEF Receive, LinkInv, Posted
    <3>2. RequestOf(w) \in Request
      BY <3>1, RequestOfType
    <3>3. held[w] \in Token
      BY <3>1 DEF LinkInv, Holding, Posting
    <3>4. QED
      BY <2>1, <3>2, <3>3 DEF Receive, Next, WorkerNext
  <2>2. ASSUME NEW j \in Job, HandJobOut(w, j) PROVE [Next]_qvars
    <3>1. held[w] \in Token
      BY <2>2 DEF HandJobOut, LinkInv, Holding
    <3>2. QED
      BY <2>2, <3>1 DEF HandJobOut, Next, WorkerNext
  <2>3. QED
    BY <1>3, <2>1, <2>2 DEF ServerStep, Unauthorized, NothingToClaim
<1>4. ASSUME NEW th \in Thread, Serve(th) PROVE [Next]_qvars
  BY <1>4 DEF Serve, Next, WorkerNext
<1>5. ASSUME NEW j \in Job, Choose(j) \/ DispatcherStep(j) PROVE [Next]_qvars
  BY <1>5 DEF DispatcherStep, Choose, Submit, Look, Expire, CheckAgain, TakeResult, Next, BackendNext
<1>6. CASE FaultStep
  <2>1. ASSUME NEW r \in astray
        PROVE  r[1] \in Request \cup ClaimRequest /\ r[1].worker \in Worker /\ r[2] \in Token
    BY DEF LinkInv, SystemTypeOK, Request, ClaimRequest
  <2>2. ASSUME NEW r \in astray, NEW th \in Thread, ReceiveLate(th, r) PROVE [Next]_qvars
    <3>1. r[1] \in Request
      BY <2>1, <2>2 DEF ReceiveLate, ClaimRequest
    <3>2. QED
      BY <2>1, <2>2, <3>1 DEF ReceiveLate, Next, WorkerNext
  <2>3. ASSUME NEW r \in astray, NEW j \in Job, ClaimLate(r, j) PROVE [Next]_qvars
    BY <2>1, <2>3 DEF ClaimLate, Next, WorkerNext
  <2>4. QED
    BY <1>6, <2>2, <2>3 DEF FaultStep, GiveUp, Crash, Vanish, RestartBackend, Next, BackendNext
<1>7. ASSUME NEW w \in Worker, NEW t \in Token, InstallToken(w, t) PROVE [Next]_qvars
  BY <1>7 DEF InstallToken
<1>8. ASSUME NEW w \in Worker, NEW e \in Enrollment, NEW c \in Code, NEW t \in Token, Enroll(w, e, c, t)
      PROVE  [Next]_qvars
  BY <1>8 DEF Enroll, Next, WorkerNext
<1>9. CASE Intervene \/ Provision \/ PassTime
  BY <1>9 DEF Intervene, Provision, PassTime, Next, AdminNext, BackendNext
<1>10. QED
  BY <1>1, <1>2, <1>3, <1>4, <1>5, <1>6, <1>7, <1>8, <1>9 DEF SystemNext

LEMMA LinkInit == SystemInit => LinkInv
BY SystemAssumption
DEF SystemInit, LinkInv, SystemTypeOK, AtWork, Busy, Holding, Posted, Served, Posting, Reporting, Waiting

LEMMA LinkStep == LinkInv /\ TypeOK /\ [SystemNext]_svars => LinkInv'
<1> SUFFICES ASSUME LinkInv, TypeOK, [SystemNext]_svars PROVE LinkInv'
  OBVIOUS
<1> USE NamesAssumption, SystemAssumption
    DEF LinkInv, AtWork, Busy, Holding, Posted, Served, Posting, Reporting, wvars, dvars, hvars, bounds
<1>1. CASE UNCHANGED svars
  BY <1>1 DEF svars, SystemTypeOK
<1>2. ASSUME NEW w \in Worker, Start(w) \/ Post(w) PROVE LinkInv'
  BY <1>2 DEF Start, Post, Goto, SystemTypeOK
<1>3. ASSUME NEW w \in Worker, HandleAnswer(w) PROVE LinkInv'
  BY <1>3 DEF HandleAnswer, NextAfter, Goto, SystemTypeOK
<1>4. ASSUME NEW w \in Worker, Run(w) PROVE LinkInv'
  BY <1>4 DEF Run, Goto, SystemTypeOK
<1>5. ASSUME NEW w \in Worker, NEW th \in Thread, Receive(th, w) PROVE LinkInv'
  BY <1>5 DEF Receive, Answer, SystemTypeOK
<1>6. ASSUME NEW w \in Worker, Unauthorized(w) \/ NothingToClaim(w) PROVE LinkInv'
  BY <1>6 DEF Unauthorized, NothingToClaim, Answer, SystemTypeOK
<1>7. ASSUME NEW w \in Worker, NEW j \in Job, HandJobOut(w, j) PROVE LinkInv'
  BY <1>7 DEF HandJobOut, Answer, SystemTypeOK
<1>8. ASSUME NEW th \in Thread, Serve(th) PROVE LinkInv'
  <2>1. /\ UNCHANGED <<pc, task, held, astray, dpc, runs, produced, faults, interventions>>
        /\ \E a \in {"ok", "error"} : AnswerFrom(th, a)
    BY <1>8 DEF Serve
  <2>2. QED
    BY <2>1 DEF AnswerFrom, SystemTypeOK
<1>9. ASSUME NEW w \in Worker, GiveUp(w) \/ Crash(w) PROVE LinkInv'
  <2>1. astray' \subseteq (Request \cup ClaimRequest) \X Token
    <3>1. CASE call[w] = "sent"
      BY <1>9, <3>1, RequestOfType DEF GiveUp, Crash, Strayed, SystemTypeOK
    <3>2. CASE call[w] # "sent"
      BY <1>9, <3>2 DEF GiveUp, Crash, Strayed, SystemTypeOK
    <3>3. QED
      BY <3>1, <3>2
  <2>2. QED
    BY <1>9, <2>1 DEF GiveUp, Crash, Fault, Unserved, Answer, Goto, SystemTypeOK
<1>10. ASSUME NEW r \in astray, Vanish(r) PROVE LinkInv'
  BY <1>10 DEF Vanish, SystemTypeOK
<1>11. ASSUME NEW r \in astray, NEW th \in Thread, ReceiveLate(th, r) PROVE LinkInv'
  BY <1>11 DEF ReceiveLate, SystemTypeOK
<1>12. ASSUME NEW r \in astray, NEW j \in Job, ClaimLate(r, j) PROVE LinkInv'
  BY <1>12 DEF ClaimLate, SystemTypeOK
<1>13. CASE RestartBackend
  BY <1>13 DEF RestartBackend, Fault, Waiting, SystemTypeOK
<1>14. ASSUME NEW j \in Job, Choose(j) \/ DispatcherStep(j) PROVE LinkInv'
  <2>1. /\ UNCHANGED <<pc, call, task, held, server, astray, runs, produced, faults, interventions>>
        /\ \E to \in Waiting \cup {"none", "local", "failed", "expired", "lost", "done"} :
             dpc' = [dpc EXCEPT ![j] = to]
    BY <1>14 DEF Choose, DispatcherStep, Submit, Look, Expire, CheckAgain, TakeResult, DispatcherAt, Waiting
  <2>2. QED
    BY <2>1 DEF SystemTypeOK
<1>15. ASSUME NEW w \in Worker, NEW t \in Token, InstallToken(w, t) PROVE LinkInv'
  BY <1>15 DEF InstallToken, SystemTypeOK
<1>16. ASSUME NEW w \in Worker, NEW e \in Enrollment, NEW c \in Code, NEW t \in Token, Enroll(w, e, c, t)
       PROVE  LinkInv'
  BY <1>16 DEF Enroll, SystemTypeOK
<1>17. CASE Intervene \/ Provision \/ PassTime
  BY <1>17 DEF Intervene, Provision, PassTime, SystemTypeOK
<1>18. QED
  BY <1>1, <1>2, <1>3, <1>4, <1>5, <1>6, <1>7, <1>8, <1>9, <1>10, <1>11, <1>12, <1>13, <1>14,
     <1>15, <1>16, <1>17
  DEF SystemNext, WorkerStep, LoopStep, ServerStep, FaultStep

LEMMA SystemInvariants == SystemSpec => [](LinkInv /\ TypeOK)
<1>1. SystemInit => LinkInv /\ TypeOK
  BY LinkInit, TypeInit DEF SystemInit
<1>2. LinkInv /\ TypeOK /\ [SystemNext]_svars => (LinkInv /\ TypeOK)'
  BY LinkStep, QueueStep, TypeStep
<1>3. QED
  BY <1>1, <1>2, PTL DEF SystemSpec

(* The composition's own variables have their types. *)
THEOREM SystemTypeCorrect == SystemSpec => []SystemTypeOK
<1>1. LinkInv => SystemTypeOK
  BY DEF LinkInv
<1>2. QED
  BY <1>1, SystemInvariants, PTL

(* Workers, network, threads and dispatchers together do nothing to the      *)
(* queue that is not a step of the queue: its theorems hold of the system.   *)
THEOREM SystemImplementsQueue == SystemSpec => QueueSpec
<1>1. SystemInit => Init
  BY DEF SystemInit
<1>2. LinkInv /\ [SystemNext]_svars => [Next]_qvars
  BY QueueStep
<1>3. QED
  BY <1>1, <1>2, SystemInvariants, PTL DEF SystemSpec, QueueSpec, Spec

-----------------------------------------------------------------------------
(* One job, one run.  A job is handed out only while it is queued, it is     *)
(* queued only while nobody has it and nobody has run it, and its dispatcher *)
(* queues it once.                                                           *)

Fresh == {"none", "submit", "local"}

Free(j) == runs[j] = 0 /\ \A w \in Worker : task[w] # j

Untouched == \A j \in Job :
  /\ dpc[j] \in Fresh => jobs[j].status = "absent" /\ Free(j)
  /\ jobs[j].status = "queued" => Free(j)

Unrun == \A w \in Worker : task[w] # None /\ pc[w] \in {"claim", "run"} => runs[task[w]] = 0

RunInv == Untouched /\ Unrun /\ TaskIsOwn /\ RunOnce

(* What a step of the queue that hands nothing out and submits nothing may   *)
(* do to a record: the name on it stays as long as the record does.          *)
Quiet(j) ==
  /\ jobs'[j].status = "queued" => jobs[j].status = "queued"
  /\ jobs[j].status = "absent" => jobs'[j].status = "absent"
  /\ jobs'[j].status # "absent" => jobs[j].status # "absent" /\ jobs'[j].by = jobs[j].by

LEMMA QuietWhenSame ==
  ASSUME jobs' = jobs PROVE \A j \in Job : Quiet(j)
BY DEF Quiet

LEMMA QuietServe ==
  ASSUME TypeOK, NEW th \in Thread, Serve(th)
  PROVE  \A j \in Job : Quiet(j)
<1>1. CASE Finish(th)
  BY <1>1, RequestType DEF Finish, Reportable, Quiet, TypeOK, JobRecord, Settled
<1>2. CASE jobs' = jobs
  BY <1>2, QuietWhenSame
<1>3. QED
  BY <1>1, <1>2 DEF Serve, Register, Heartbeat, FinishRefused, store

LEMMA QuietIntervene ==
  ASSUME TypeOK, Intervene
  PROVE  \A j \in Job : Quiet(j)
<1>1. ASSUME NEW w \in Worker, DeleteWorker(w) PROVE \A j \in Job : Quiet(j)
  BY <1>1 DEF DeleteWorker, Quiet, NoJob, TypeOK
<1>2. ASSUME NEW o \in Operation, CancelByOrigin(o) PROVE \A j \in Job : Quiet(j)
  BY <1>2 DEF CancelByOrigin, Cancellable, Cancelled, Quiet, TypeOK, JobRecord
<1>3. QED
  BY <1>1, <1>2 DEF Intervene

LEMMA QuietStep ==
  ASSUME RunInv, LinkInv, \A j \in Job : Quiet(j),
         UNCHANGED <<runs, pc>>,
         \A w \in Worker : task'[w] \in {task[w], None},
         \A j \in Job : dpc'[j] \in Fresh => dpc[j] \in Fresh
  PROVE  RunInv'
<1> USE NamesAssumption DEF LinkInv, SystemTypeOK
<1>1. Untouched'
  BY DEF RunInv, Untouched, Free, Quiet
<1>2. Unrun'
  BY DEF RunInv, Unrun
<1>3. TaskIsOwn'
  BY DEF RunInv, TaskIsOwn, Quiet
<1>4. RunOnce'
  BY DEF RunInv, RunOnce
<1>5. QED
  BY <1>1, <1>2, <1>3, <1>4 DEF RunInv

LEMMA RunInit == SystemInit => RunInv
BY NamesAssumption
DEF SystemInit, Init, NoJob, RunInv, Untouched, Fresh, Free, Unrun, TaskIsOwn, RunOnce

LEMMA RunStep == RunInv /\ LinkInv /\ TypeOK /\ [SystemNext]_svars => RunInv'
<1> SUFFICES ASSUME RunInv, LinkInv, TypeOK, [SystemNext]_svars PROVE RunInv'
  OBVIOUS
<1> USE NamesAssumption DEF wvars, dvars, hvars, bounds
<1> DEFINE Calm == /\ UNCHANGED <<runs, pc>>
                   /\ \A w \in Worker : task'[w] \in {task[w], None}
                   /\ \A j \in Job : dpc'[j] \in Fresh => dpc[j] \in Fresh
<1>1. ASSUME jobs' = jobs, Calm PROVE RunInv'
  BY <1>1, QuietWhenSame, QuietStep
<1>2. CASE UNCHANGED svars
  BY <1>1, <1>2 DEF svars, qvars
<1>3. ASSUME NEW w \in Worker, HandleAnswer(w) PROVE RunInv'
  <2>1. UNCHANGED <<jobs, runs, dpc>>
    BY <1>3 DEF HandleAnswer, qvars
  <2>2. \A v \in Worker : task'[v] \in {task[v], None}
    BY <1>3 DEF HandleAnswer, LinkInv, SystemTypeOK
  <2>3. \A v \in Worker : pc'[v] \in {"claim", "run"} /\ task'[v] # None => pc[v] \in {"claim", "run"}
    BY <1>3 DEF HandleAnswer, Goto, NextAfter, LinkInv, SystemTypeOK
  <2>4. QED
    BY <2>1, <2>2, <2>3 DEF RunInv, Untouched, Free, Unrun, TaskIsOwn, RunOnce
<1>4. ASSUME NEW w \in Worker, Run(w) PROVE RunInv'
  <2>1. task[w] \in Job /\ runs[task[w]] = 0
    BY <1>4 DEF Run, LinkInv, AtWork, Busy, SystemTypeOK, RunInv, Unrun
  <2>2. UNCHANGED <<jobs, task, dpc>> /\ runs' = [runs EXCEPT ![task[w]] = 1]
    BY <1>4, <2>1 DEF Run, qvars, LinkInv, SystemTypeOK
  <2>3. \A v \in Worker : pc'[v] \in {"claim", "run"} => v # w /\ pc'[v] = pc[v]
    BY <1>4 DEF Run, Goto, LinkInv, SystemTypeOK
  <2>4. QED
    BY <2>1, <2>2, <2>3 DEF RunInv, Untouched, Free, Unrun, TaskIsOwn, RunOnce, LinkInv, SystemTypeOK
<1>5. ASSUME NEW w \in Worker, Start(w) \/ Post(w) \/ Unauthorized(w) \/ NothingToClaim(w) PROVE RunInv'
  <2>1. /\ UNCHANGED <<jobs, task, runs, dpc>>
        /\ \A v \in Worker : pc'[v] \in {"claim", "run"} => pc[v] \in {"claim", "run"}
    BY <1>5 DEF Start, Post, Unauthorized, NothingToClaim, Goto, qvars, LinkInv, SystemTypeOK
  <2>2. QED
    BY <2>1 DEF RunInv, Untouched, Free, Unrun, TaskIsOwn, RunOnce
<1>6. ASSUME NEW w \in Worker, NEW th \in Thread, Receive(th, w) PROVE RunInv'
  BY <1>1, <1>6 DEF Receive, Authenticate, store
<1>7. ASSUME NEW w \in Worker, NEW j \in Job, HandJobOut(w, j) PROVE RunInv'
  <2>1. UNCHANGED <<runs, pc, dpc>> /\ task' = [task EXCEPT ![w] = j]
    BY <1>7 DEF HandJobOut
  <2>2. jobs[j].status = "queued" /\ jobs'[j].status = "claimed" /\ jobs'[j].by = w
    BY <1>7 DEF HandJobOut, ClaimJob, Claimable, TypeOK, JobRecord
  <2>3. \A k \in Job \ {j} : jobs'[k] = jobs[k]
    BY <1>7 DEF HandJobOut, ClaimJob, TypeOK
  <2>4. Free(j) /\ dpc[j] \notin Fresh
    BY <2>2 DEF RunInv, Untouched
  <2>5. QED
    BY <2>1, <2>2, <2>3, <2>4
    DEF RunInv, Untouched, Free, Unrun, TaskIsOwn, RunOnce, LinkInv, SystemTypeOK
<1>8. ASSUME NEW th \in Thread, Serve(th) PROVE RunInv'
  BY <1>8, QuietServe, QuietStep DEF Serve
<1>9. ASSUME NEW w \in Worker, GiveUp(w) \/ Crash(w) PROVE RunInv'
  <2>1. UNCHANGED <<jobs, runs, dpc>>
    BY <1>9 DEF GiveUp, Crash, qvars
  <2>2. \A v \in Worker : task'[v] \in {task[v], None}
    BY <1>9 DEF GiveUp, Crash, LinkInv, SystemTypeOK
  <2>3. \A v \in Worker : pc'[v] \in {"claim", "run"} => pc[v] = pc'[v]
    BY <1>9 DEF GiveUp, Crash, Goto, LinkInv, SystemTypeOK
  <2>4. QED
    BY <2>1, <2>2, <2>3 DEF RunInv, Untouched, Free, Unrun, TaskIsOwn, RunOnce
<1>10. ASSUME NEW r \in astray, Vanish(r) PROVE RunInv'
  BY <1>1, <1>10 DEF Vanish, qvars
<1>11. ASSUME NEW r \in astray, NEW th \in Thread, ReceiveLate(th, r) PROVE RunInv'
  BY <1>1, <1>11 DEF ReceiveLate, Authenticate, store
<1>12. ASSUME NEW r \in astray, NEW j \in Job, ClaimLate(r, j) PROVE RunInv'
  <2>1. UNCHANGED <<runs, pc, dpc, task>>
    BY <1>12 DEF ClaimLate
  <2>2. jobs[j].status = "queued" /\ jobs'[j].status = "claimed"
    BY <1>12 DEF ClaimLate, ClaimJob, Claimable, TypeOK, JobRecord
  <2>3. \A k \in Job \ {j} : jobs'[k] = jobs[k]
    BY <1>12 DEF ClaimLate, ClaimJob, TypeOK
  <2>4. Free(j) /\ dpc[j] \notin Fresh
    BY <2>2 DEF RunInv, Untouched
  <2>5. QED
    BY <2>1, <2>2, <2>3, <2>4
    DEF RunInv, Untouched, Free, Unrun, TaskIsOwn, RunOnce, LinkInv, SystemTypeOK
<1>13. CASE RestartBackend
  <2>1. jobs' = jobs
    BY <1>13 DEF RestartBackend, BackendRestart, store, qvars
  <2>2. \A j \in Job : dpc'[j] \in Fresh => dpc[j] \in Fresh
    BY <1>13 DEF RestartBackend, Fresh
  <2>3. QED
    BY <1>1, <1>13, <2>1, <2>2 DEF RestartBackend
<1>14. ASSUME NEW j \in Job, Choose(j) \/ Look(j) \/ Expire(j) \/ CheckAgain(j) PROVE RunInv'
  BY <1>1, <1>14
  DEF Choose, Look, Expire, CheckAgain, DispatcherAt, Fresh, qvars, LinkInv, SystemTypeOK
<1>15. ASSUME NEW j \in Job, TakeResult(j) PROVE RunInv'
  <2>1. \A k \in Job : Quiet(k)
    BY <1>15 DEF TakeResult, Consume, Quiet, NoJob, TypeOK, qvars
  <2>2. Calm
    BY <1>15 DEF TakeResult, DispatcherAt, Fresh, LinkInv, SystemTypeOK
  <2>3. QED
    BY <2>1, <2>2, QuietStep
<1>16. ASSUME NEW j \in Job, Submit(j) PROVE RunInv'
  <2>1. UNCHANGED <<runs, pc, task>>
    BY <1>16 DEF Submit
  <2>2. dpc[j] = "submit" /\ dpc'[j] = "poll" /\ \A k \in Job \ {j} : dpc'[k] = dpc[k]
    BY <1>16 DEF Submit, DispatcherAt, LinkInv, SystemTypeOK
  <2>3. Free(j)
    BY <2>2 DEF RunInv, Untouched, Fresh
  <2>4. \A k \in Job \ {j} : jobs'[k] = jobs[k] \/ jobs'[k] = NoJob
    BY <1>16 DEF Submit, EnqueueJob
  <2>5. \A k \in Job \ {j} : Quiet(k)
    BY <2>4 DEF Quiet, NoJob
  <2>6. QED
    BY <2>1, <2>2, <2>3, <2>5
    DEF RunInv, Untouched, Free, Fresh, Unrun, TaskIsOwn, RunOnce, Quiet, LinkInv, SystemTypeOK
<1>17. ASSUME NEW w \in Worker, NEW t \in Token, InstallToken(w, t) PROVE RunInv'
  BY <1>1, <1>17 DEF InstallToken, qvars
<1>18. ASSUME NEW w \in Worker, NEW e \in Enrollment, NEW c \in Code, NEW t \in Token, Enroll(w, e, c, t)
       PROVE  RunInv'
  BY <1>1, <1>18 DEF Enroll, Redeem
<1>19. CASE Intervene
  BY <1>19, QuietIntervene, QuietStep DEF Intervene
<1>20. CASE Provision \/ PassTime
  BY <1>1, <1>20 DEF Provision, IssueToken, CreateEnrollment, PassTime, Tick, store
<1>21. QED
  BY <1>2, <1>3, <1>4, <1>5, <1>6, <1>7, <1>8, <1>9, <1>10, <1>11, <1>12, <1>13, <1>14, <1>15,
     <1>16, <1>17, <1>18, <1>19, <1>20
  DEF SystemNext, WorkerStep, LoopStep, ServerStep, FaultStep, DispatcherStep

LEMMA RunInvariant == SystemSpec => []RunInv
BY RunInit, RunStep, SystemInvariants, PTL DEF SystemSpec

(* A job is run at most once, whatever is lost, late, crashed or restarted.  *)
THEOREM JobsRunOnce == SystemSpec => []RunOnce
<1>1. RunInv => RunOnce
  BY DEF RunInv
<1>2. QED
  BY <1>1, RunInvariant, PTL

(* Two workers never work on the same job, and the record of a job a worker  *)
(* works on names that worker.                                               *)
THEOREM TasksAreOwn == SystemSpec => []TaskIsOwn
<1>1. RunInv => TaskIsOwn
  BY DEF RunInv
<1>2. QED
  BY <1>1, RunInvariant, PTL

-----------------------------------------------------------------------------
(* What a dispatcher returns.  "completed" is said of a job only by requests *)
(* of a worker that has produced its result, on whatever way they travel.    *)

Says(r) == r.op = "finish" /\ r.outcome = "completed" => r.job \in produced

OnTheWay ==
  /\ \A w \in Worker : pc[w] = "result" => task[w] \in produced
  /\ \A th \in Thread : Says(handler[th])
  /\ \A r \in astray : Says(r[1])

Recorded == \A j \in Job : jobs[j].status = "completed" => j \in produced

OutcomeInv == OnTheWay /\ Recorded /\ DeliveredIsProduced /\ DeliveredIsGone

LEMMA OutcomeInit == SystemInit => OutcomeInv
BY DEF SystemInit, Init, NoJob, Idle, OutcomeInv, OnTheWay, Says, Recorded,
       DeliveredIsProduced, DeliveredIsGone

LEMMA SaysRequestOf ==
  ASSUME OnTheWay, LinkInv, NEW w \in Worker
  PROVE  Says(RequestOf(w))
<1>1. pc[w] # "finish"
  BY DEF LinkInv, SystemTypeOK, Posting
<1>2. QED
  BY <1>1 DEF OnTheWay, Says, RequestOf, Reporting

LEMMA OnTheWayStep ==
  ASSUME OnTheWay, LinkInv, TypeOK, [SystemNext]_svars
  PROVE  OnTheWay'
<1> USE DEF OnTheWay, Says, wvars, dvars, hvars, bounds
<1>1. CASE UNCHANGED svars
  BY <1>1 DEF svars, wvars, hvars, qvars
<1>2. ASSUME NEW w \in Worker, Start(w) \/ Post(w) PROVE OnTheWay'
  BY <1>2 DEF Start, Post, Goto, qvars, LinkInv, SystemTypeOK
<1>3. ASSUME NEW w \in Worker, HandleAnswer(w) PROVE OnTheWay'
  <2>1. \A v \in Worker : pc'[v] = "result" => pc[v] = "result" /\ task'[v] = task[v]
    BY <1>3 DEF HandleAnswer, Goto, NextAfter, LinkInv, SystemTypeOK
  <2>2. QED
    BY <1>3, <2>1 DEF HandleAnswer, qvars
<1>4. ASSUME NEW w \in Worker, Run(w) PROVE OnTheWay'
  <2>1. produced \subseteq produced'
    BY <1>4 DEF Run
  <2>2. UNCHANGED <<handler, astray, task>>
    BY <1>4 DEF Run, qvars
  <2>3. \A v \in Worker : pc'[v] = "result" => task[v] \in produced'
    BY <1>4 DEF Run, Goto, LinkInv, SystemTypeOK
  <2>4. QED
    BY <2>1, <2>2, <2>3
<1>5. ASSUME NEW w \in Worker, NEW th \in Thread, Receive(th, w) PROVE OnTheWay'
  <2>1. Says(RequestOf(w))
    BY SaysRequestOf
  <2>2. handler' = [handler EXCEPT ![th] = RequestOf(w)]
    BY <1>5 DEF Receive, Authenticate
  <2>3. QED
    BY <1>5, <2>1, <2>2 DEF Receive, TypeOK
<1>6. ASSUME NEW w \in Worker, Unauthorized(w) \/ NothingToClaim(w) PROVE OnTheWay'
  BY <1>6 DEF Unauthorized, NothingToClaim, qvars
<1>7. ASSUME NEW w \in Worker, NEW j \in Job, HandJobOut(w, j) PROVE OnTheWay'
  BY <1>7 DEF HandJobOut, ClaimJob, LinkInv, SystemTypeOK
<1>8. ASSUME NEW th \in Thread, Serve(th) PROVE OnTheWay'
  <2>1. handler' = [handler EXCEPT ![th] = Idle]
    BY <1>8 DEF Serve, Register, Heartbeat, Finish, FinishRefused, Done
  <2>2. QED
    BY <1>8, <2>1 DEF Serve, Idle, TypeOK
<1>9. ASSUME NEW w \in Worker, GiveUp(w) \/ Crash(w) PROVE OnTheWay'
  <2>1. \A r \in astray' : Says(r[1])
    BY <1>9, SaysRequestOf DEF GiveUp, Crash, Strayed
  <2>2. \A v \in Worker : pc'[v] = "result" => pc[v] = "result" /\ task'[v] = task[v]
    BY <1>9 DEF GiveUp, Crash, Goto, LinkInv, SystemTypeOK
  <2>3. QED
    BY <1>9, <2>1, <2>2 DEF GiveUp, Crash, qvars
<1>10. ASSUME NEW r \in astray, Vanish(r) PROVE OnTheWay'
  BY <1>10 DEF Vanish, qvars
<1>11. ASSUME NEW r \in astray, NEW th \in Thread, ReceiveLate(th, r) PROVE OnTheWay'
  BY <1>11 DEF ReceiveLate, Authenticate, TypeOK
<1>12. ASSUME NEW r \in astray, NEW j \in Job, ClaimLate(r, j) PROVE OnTheWay'
  BY <1>12 DEF ClaimLate, ClaimJob
<1>13. CASE RestartBackend
  BY <1>13 DEF RestartBackend, BackendRestart, Idle, qvars
<1>14. ASSUME NEW j \in Job, Choose(j) \/ DispatcherStep(j) PROVE OnTheWay'
  BY <1>14 DEF Choose, DispatcherStep, Submit, EnqueueJob, Look, Expire, CheckAgain, TakeResult, Consume, qvars
<1>15. ASSUME NEW w \in Worker, NEW t \in Token, InstallToken(w, t) PROVE OnTheWay'
  BY <1>15 DEF InstallToken, qvars
<1>16. ASSUME NEW w \in Worker, NEW e \in Enrollment, NEW c \in Code, NEW t \in Token, Enroll(w, e, c, t)
       PROVE  OnTheWay'
  BY <1>16 DEF Enroll, Redeem
<1>17. CASE Intervene \/ Provision \/ PassTime
  BY <1>17 DEF Intervene, DeleteWorker, CancelByOrigin, Provision, IssueToken, CreateEnrollment, PassTime, Tick
<1>18. QED
  BY <1>1, <1>2, <1>3, <1>4, <1>5, <1>6, <1>7, <1>8, <1>9, <1>10, <1>11, <1>12, <1>13, <1>14,
     <1>15, <1>16, <1>17
  DEF SystemNext, WorkerStep, LoopStep, ServerStep, FaultStep

LEMMA ProducedGrows ==
  ASSUME [SystemNext]_svars
  PROVE  produced \subseteq produced'
<1>1. CASE UNCHANGED svars
  BY <1>1 DEF svars, hvars
<1>2. CASE \E w \in Worker : Run(w)
  BY <1>2 DEF Run
<1>3. CASE SystemNext /\ ~\E w \in Worker : Run(w)
  BY <1>3
  DEF SystemNext, WorkerStep, LoopStep, Start, Post, HandleAnswer, ServerStep, Receive, Unauthorized, HandJobOut,
      NothingToClaim, Serve, FaultStep, GiveUp, Crash, Vanish, ReceiveLate, ClaimLate, RestartBackend,
      Choose, DispatcherStep, Submit, Look, Expire, CheckAgain, TakeResult, InstallToken, Enroll,
      Intervene, Provision, PassTime, hvars
<1>4. QED
  BY <1>1, <1>2, <1>3

LEMMA RecordedStep ==
  ASSUME OnTheWay, Recorded, LinkInv, TypeOK, [SystemNext]_svars
  PROVE  Recorded'
<1> SUFFICES ASSUME NEW j \in Job, jobs'[j].status = "completed" PROVE j \in produced
  BY ProducedGrows DEF Recorded
<1>1. CASE Reported(j)
  BY <1>1 DEF Reported, OnTheWay, Says, TypeOK, JobRecord
<1>2. CASE ~Reported(j)
  <2>1. jobs'[j] = jobs[j]
    BY <1>2, QueueStep, StepOfJob, StepFields DEF JobStep
  <2>2. QED
    BY <2>1 DEF Recorded
<1>3. QED
  BY <1>1, <1>2

(* An id comes to the queue through its dispatcher only.                     *)
LEMMA ComesFromDispatcher ==
  ASSUME TypeOK, [SystemNext]_svars, NEW j \in Job,
         jobs[j].status = "absent", jobs'[j].status # "absent"
  PROVE  dpc[j] = "submit"
<1>1. CASE jobs' = jobs
  BY <1>1
<1>2. ASSUME NEW k \in Job, Submit(k) PROVE dpc[j] = "submit"
  BY <1>2 DEF Submit, DispatcherAt, EnqueueJob, NoJob
<1>4. ASSUME NEW k \in Job, NEW w \in Worker, HandJobOut(w, k) PROVE FALSE
  BY <1>4 DEF HandJobOut, ClaimJob, Claimable, TypeOK
<1>5. ASSUME NEW k \in Job, NEW r \in astray, ClaimLate(r, k) PROVE FALSE
  BY <1>5 DEF ClaimLate, ClaimJob, Claimable, TypeOK
<1>6. ASSUME NEW th \in Thread, Serve(th) PROVE FALSE
  BY <1>6, QuietServe DEF Quiet
<1>7. CASE Intervene
  BY <1>7, QuietIntervene DEF Quiet
<1>8. ASSUME NEW k \in Job, TakeResult(k) PROVE FALSE
  BY <1>8 DEF TakeResult, Consume, NoJob, TypeOK, qvars
<1>9. QED
  BY <1>1, <1>2, <1>4, <1>5, <1>6, <1>7, <1>8
  DEF SystemNext, svars, qvars, WorkerStep, LoopStep, Start, Post, HandleAnswer, Run, ServerStep, Receive,
      Authenticate, Unauthorized, NothingToClaim, FaultStep, GiveUp, Crash, Vanish, ReceiveLate,
      RestartBackend, BackendRestart, Choose, DispatcherStep, Look, Expire, CheckAgain, InstallToken,
      Enroll, Redeem, Provision, IssueToken, CreateEnrollment, PassTime, Tick, store

LEMMA DeliveredStep ==
  ASSUME OutcomeInv, LinkInv, TypeOK, [SystemNext]_svars
  PROVE  (DeliveredIsProduced /\ DeliveredIsGone)'
<1> SUFFICES ASSUME NEW j \in Job, dpc'[j] = "done"
             PROVE  j \in produced /\ jobs'[j].status = "absent"
  BY ProducedGrows DEF DeliveredIsProduced, DeliveredIsGone
<1>1. CASE dpc[j] = "done"
  BY <1>1, ComesFromDispatcher DEF OutcomeInv, DeliveredIsProduced, DeliveredIsGone
<1>2. CASE dpc[j] # "done"
  <2>1. TakeResult(j) /\ Consume(j)
    <3>1. PICK k \in Job : Choose(k) \/ DispatcherStep(k) \/ RestartBackend
      BY <1>2
      DEF SystemNext, svars, WorkerStep, LoopStep, Start, Post, HandleAnswer, Run, ServerStep, Receive, Unauthorized,
          HandJobOut, NothingToClaim, Serve, FaultStep, GiveUp, Crash, Vanish, ReceiveLate, ClaimLate,
          InstallToken, Enroll, Intervene, Provision, PassTime, dvars
    <3>2. ~RestartBackend
      BY <1>2 DEF RestartBackend, LinkInv, SystemTypeOK
    <3>3. QED
      BY <1>2, <3>1, <3>2
      DEF Choose, DispatcherStep, Submit, Look, Expire, CheckAgain, TakeResult, DispatcherAt, LinkInv,
          SystemTypeOK
  <2>2. QED
    BY <2>1 DEF Consume, NoJob, TypeOK, OutcomeInv, Recorded
<1>3. QED
  BY <1>1, <1>2

LEMMA OutcomeInvariant == SystemSpec => []OutcomeInv
<1>1. OutcomeInv /\ LinkInv /\ TypeOK /\ [SystemNext]_svars => OutcomeInv'
  BY OnTheWayStep, RecordedStep, DeliveredStep DEF OutcomeInv
<1>2. QED
  BY <1>1, OutcomeInit, SystemInvariants, PTL DEF SystemSpec

(* A dispatcher returns a result only if a worker produced one for its job.  *)
THEOREM ResultsAreProduced == SystemSpec => []DeliveredIsProduced
<1>1. OutcomeInv => DeliveredIsProduced
  BY DEF OutcomeInv
<1>2. QED
  BY <1>1, OutcomeInvariant, PTL

(* Once a result was returned its id never comes back to the queue.          *)
THEOREM ConsumedIdsAreGone == SystemSpec => []DeliveredIsGone
<1>1. OutcomeInv => DeliveredIsGone
  BY DEF OutcomeInv
<1>2. QED
  BY <1>1, OutcomeInvariant, PTL

-----------------------------------------------------------------------------
(* The token in the file of a working worker.  It is put there while the     *)
(* worker is down, the queue accepts it for the claim, and what takes it out *)
(* of the table afterwards also takes the claim away, or is a redemption by  *)
(* the worker itself, which a working worker does not make.                  *)

LEMMA HeldChanges ==
  ASSUME LinkInv, [SystemNext]_svars, NEW w \in Worker, held'[w] # held[w]
  PROVE  pc[w] = "down"
<1>1. ASSUME NEW v \in Worker, NEW t \in Token, InstallToken(v, t) PROVE pc[w] = "down"
  BY <1>1 DEF InstallToken, LinkInv, SystemTypeOK
<1>2. ASSUME NEW v \in Worker, NEW e \in Enrollment, NEW c \in Code, NEW t \in Token, Enroll(v, e, c, t)
      PROVE  pc[w] = "down"
  BY <1>2 DEF Enroll, LinkInv, SystemTypeOK
<1>3. QED
  BY <1>1, <1>2
  DEF SystemNext, svars, WorkerStep, LoopStep, Start, Post, HandleAnswer, Run, ServerStep, Receive, Unauthorized,
      HandJobOut, NothingToClaim, Serve, FaultStep, GiveUp, Crash, Vanish, ReceiveLate, ClaimLate, RestartBackend,
      Choose, DispatcherStep, Submit, Look, Expire, CheckAgain, TakeResult, Intervene, Provision, PassTime

LEMMA TaskChanges ==
  ASSUME LinkInv, [SystemNext]_svars, NEW w \in Worker, task'[w] # task[w], task'[w] # None
  PROVE  \E j \in Job : HandJobOut(w, j)
<1>1. ASSUME NEW v \in Worker, HandleAnswer(v) \/ Crash(v) PROVE FALSE
  BY <1>1 DEF HandleAnswer, Crash, LinkInv, SystemTypeOK
<1>2. ASSUME NEW v \in Worker, NEW j \in Job, HandJobOut(v, j) PROVE v = w
  BY <1>2 DEF HandJobOut, LinkInv, SystemTypeOK
<1>3. QED
  BY <1>1, <1>2
  DEF SystemNext, svars, wvars, WorkerStep, LoopStep, Start, Post, Run, ServerStep, Receive, Unauthorized,
      NothingToClaim, Serve, FaultStep, GiveUp, Vanish, ReceiveLate, ClaimLate, RestartBackend, Choose,
      DispatcherStep, Submit, Look, Expire, CheckAgain, TakeResult, InstallToken, Enroll, Intervene, Provision,
      PassTime

LEMMA TokensChange ==
  ASSUME [SystemNext]_svars, tokens' # tokens
  PROVE  \/ \E t \in Token, id \in TokenId : IssueToken(t, id)
         \/ \E v \in Worker : DeleteWorker(v)
         \/ \E v \in Worker, e \in Enrollment, c \in Code, t \in Token : Enroll(v, e, c, t)
BY DEF SystemNext, svars, qvars, store, WorkerStep, LoopStep, Start, Post, HandleAnswer, Run, ServerStep, Receive,
       Authenticate, Unauthorized, HandJobOut, ClaimJob, NothingToClaim, Serve, Register, Heartbeat, Finish,
       FinishRefused, FaultStep, GiveUp, Crash, Vanish, ReceiveLate, ClaimLate, RestartBackend, BackendRestart,
       Choose, DispatcherStep, Submit, EnqueueJob, Look, Expire, CheckAgain, TakeResult, Consume, InstallToken,
       Intervene, CancelByOrigin, Provision, CreateEnrollment, PassTime, Tick

(* An administrator issues a token under the id of the one that a worker     *)
(* works with, which replaces it (issue_token).                              *)
TokenReplaced ==
  \E t \in Token, id \in TokenId :
    IssueToken(t, id) /\ \E w \in Worker : task[w] # None /\ tokens[held[w]].id = id

LEMMA HolderStep ==
  ASSUME HolderCanReport, RunInv, LinkInv, TypeOK, CredentialInv, [SystemNext]_svars, [~TokenReplaced]_svars
  PROVE  HolderCanReport'
<1> USE NamesAssumption
<1> SUFFICES ASSUME NEW w \in Worker, task'[w] # None, jobs'[task'[w]].status = "claimed"
             PROVE  tokens'[held'[w]].live /\ tokens'[held'[w]].worker \in {None, w}
  BY DEF HolderCanReport, Authorized
<1>1. CASE task'[w] # task[w]
  <2>1. PICK j \in Job : HandJobOut(w, j)
    BY <1>1, TaskChanges
  <2>2. QED
    BY <2>1 DEF HandJobOut, ClaimJob, Authorized
<1>2. CASE task'[w] = task[w]
  <2>1. task[w] \in Job /\ pc[w] # "down"
    BY <1>2 DEF LinkInv, AtWork, Busy, SystemTypeOK, Reporting
  <2>2. held'[w] = held[w] /\ held[w] \in Token
    BY <2>1, HeldChanges DEF LinkInv, Holding
  <2>3. jobs'[task[w]] = jobs[task[w]]
    <3>1. jobs[task[w]].status # "queued"
      BY <2>1, <1>2 DEF RunInv, Untouched, Free
    <3>2. ~Claimed(task[w])
      BY <3>1 DEF Claimed
    <3>3. QED
      BY <1>2, <2>1, <3>2, QueueStep, StepOfJob, StepFields DEF JobStep, Settled
  <2>4. jobs[task[w]].status = "claimed" /\ jobs[task[w]].by = w
    BY <1>2, <2>1, <2>3 DEF RunInv, TaskIsOwn
  <2>5. tokens[held[w]].live /\ tokens[held[w]].worker \in {None, w}
    BY <1>2, <2>4 DEF HolderCanReport, Authorized
  <2>6. ASSUME NEW v \in Worker, DeleteWorker(v) PROVE tokens'[held[w]] = tokens[held[w]]
    <3>1. v # w
      BY <2>1, <2>3, <2>4, <2>6 DEF DeleteWorker, DeletedWith, NoJob
    <3>2. QED
      BY <2>2, <2>5, <2>6, <3>1 DEF DeleteWorker, TokensWithout
  <2>7. ASSUME NEW v \in Worker, NEW e \in Enrollment, NEW c \in Code, NEW t \in Token, Enroll(v, e, c, t)
        PROVE  tokens'[held[w]] = tokens[held[w]]
    <3>1. v # w
      BY <2>1, <2>7 DEF Enroll
    <3>2. held[w] # t
      BY <2>2, <2>5, <2>7 DEF Enroll, Redeem, CredentialInv, DrawnOnce
    <3>3. QED
      BY <2>2, <2>5, <2>7, <3>1, <3>2 DEF Enroll, Redeem, TokensWithout
  <2>8. ASSUME NEW t \in Token, NEW id \in TokenId, IssueToken(t, id) PROVE tokens'[held[w]] = tokens[held[w]]
    <3>1. t \notin issued /\ issued' # issued
      BY <2>8 DEF IssueToken
    <3>2. tokens[held[w]].id # id
      BY <2>8, <2>1, <3>1 DEF TokenReplaced, svars, qvars
    <3>3. held[w] # t
      BY <2>2, <2>5, <3>1 DEF CredentialInv, DrawnOnce
    <3>4. QED
      BY <2>2, <2>8, <3>2, <3>3 DEF IssueToken
  <2>10. tokens'[held[w]] = tokens[held[w]]
    BY <2>6, <2>7, <2>8, TokensChange
  <2>9. QED
    BY <2>2, <2>5, <2>10
<1>3. QED
  BY <1>1, <1>2

(* As long as no administrator issues a token under the id of the one that   *)
(* a worker works with, a worker that works on a job it still holds is never *)
(* answered "unauthorized": enrollments, also of this worker anew before its *)
(* loop starts, deletions of workers, other tokens of administrators and     *)
(* restarts leave the token in its token_file valid for as long as the job   *)
(* is claimed.                                                               *)
THEOREM HoldersCanReport == SystemSpec /\ [][~TokenReplaced]_svars => []HolderCanReport
<1>1. SystemInit => HolderCanReport
  BY DEF SystemInit, HolderCanReport
<1>2. HolderCanReport /\ RunInv /\ LinkInv /\ TypeOK /\ CredentialInv /\ [SystemNext]_svars /\ [~TokenReplaced]_svars
        => HolderCanReport'
  BY HolderStep
<1>3. SystemSpec => []CredentialInv
  BY SystemImplementsQueue, CredentialInvariant, PTL DEF QueueSpec
<1>4. QED
  BY <1>1, <1>2, <1>3, RunInvariant, SystemInvariants, PTL DEF SystemSpec
=============================================================================

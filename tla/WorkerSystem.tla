---------------------------- MODULE WorkerSystem ----------------------------
(***************************************************************************)
(* The worker queue with the processes around it: the worker loops         *)
(* (worker/src/api_loop.cpp), the HTTP requests between them and the       *)
(* executor threads of the backend, and the dispatchers, the backend       *)
(* threads that submit a job and wait for its result                       *)
(* (ExternalWorkerProcessorService, ExternalWorkerBatchProcessorService).  *)
(*                                                                         *)
(* A worker has one request at a time and takes any answer but the         *)
(* expected one for a failure.  The proxy between them may give up on a    *)
(* request the backend has yet to serve: the request is then astray, and   *)
(* is served later or never.  A job id is a fresh uuid, so each id is      *)
(* dispatched once.                                                        *)
(***************************************************************************)
EXTENDS WorkerQueue

CONSTANTS
  MaxFaults,        \* bound on requests given up, crashes and restarts
  MaxInterventions, \* bound on worker deletions and cancellations
  Patient           \* jobs whose wait_timeout_seconds outlasts the run

ASSUME SystemAssumption ==
  MaxFaults \in Nat /\ MaxInterventions \in Nat /\ Patient \subseteq Job

VARIABLES
  pc,       \* Worker -> what it does next
  call,     \* Worker -> where its request stands
  task,     \* Worker -> the job it was handed
  held,     \* Worker -> the token in its token_file
  server,   \* Thread -> the worker that waits for its answer
  astray,   \* <<request, token>> whose sender gave up before it was served
  dpc,      \* Job -> where its dispatcher stands
  runs,     \* history: Job -> how often a worker ran it
  produced, \* history: jobs for which a worker produced a result
  faults,
  interventions

wvars == <<pc, call, task>>
dvars == <<dpc>>
hvars == <<runs, produced>>
bounds == <<faults, interventions>>
svars == <<qvars, wvars, held, server, astray, dvars, hvars, bounds>>

ClaimRequest == [op: {"claim"}, worker: Worker, job: {None}, outcome: {None}]

(* What the worker posts at each point of its loop (the *_body functions).   *)
Posting == {"register", "heartbeat", "claim", "result", "fail"}

Reporting == {"result", "fail"}

AlwaysResult(w) ==
  IF pc[w] \in Reporting
  THEN [op |-> "finish", worker |-> w, job |-> task[w], outcome |-> "completed"]
  ELSE [op |-> pc[w], worker |-> w, job |-> None, outcome |-> None]

RequestOf(w) ==
  IF pc[w] \in Reporting
  THEN [op |-> "finish", worker |-> w, job |-> task[w],
        outcome |-> IF pc[w] = "result" THEN "completed" ELSE "failed"]
  ELSE [op |-> pc[w], worker |-> w, job |-> None, outcome |-> None]

SystemInit ==
  /\ Init
  /\ pc = [w \in Worker |-> "down"]
  /\ call = [w \in Worker |-> "none"]
  /\ task = [w \in Worker |-> None]
  /\ held = [w \in Worker |-> None]
  /\ server = [th \in Thread |-> None]
  /\ astray = {}
  /\ dpc = [j \in Job |-> "none"]
  /\ runs = [j \in Job |-> 0]
  /\ produced = {}
  /\ faults = 0
  /\ interventions = 0

-----------------------------------------------------------------------------
(* The worker process *)

Goto(w, p) == pc' = [pc EXCEPT ![w] = p] /\ call' = [call EXCEPT ![w] = "none"]

(* The operator copies a token of the administrator into the token_file.     *)
InstallToken(w, t) ==
  /\ pc[w] = "down"
  /\ held[w] = None
  /\ tokens[t].id # None
  /\ held' = [held EXCEPT ![w] = t]
  /\ UNCHANGED <<qvars, wvars, server, astray, dvars, hvars, bounds>>

(* enroll_worker, for a worker without a token_file (the operator removes it *)
(* to enroll anew).  The route runs on the event loop, in one step.  When    *)
(* its answer is lost the worker exits and the code is spent.                *)
Enroll(w, e, c, t) ==
  /\ pc[w] = "down"
  /\ Redeem(e, c, w, t)
  /\ \/ held' = [held EXCEPT ![w] = t] /\ UNCHANGED faults
     \/ faults < MaxFaults /\ faults' = faults + 1 /\ held' = [held EXCEPT ![w] = None]
  /\ UNCHANGED <<wvars, server, astray, dvars, hvars, interventions>>

Start(w) ==
  /\ pc[w] = "down"
  /\ held[w] # None
  /\ Goto(w, "register")
  /\ UNCHANGED <<qvars, task, held, server, astray, dvars, hvars, bounds>>

(* api_post *)
Post(w) ==
  /\ pc[w] \in Posting
  /\ call[w] = "none"
  /\ call' = [call EXCEPT ![w] = "sent"]
  /\ UNCHANGED <<qvars, pc, task, held, server, astray, dvars, hvars, bounds>>

(* response_ok on what came back: a failed registration ends the process, a  *)
(* heartbeat is followed by a claim whatever it brought, a result that was   *)
(* not acknowledged is reported as a failure ("result_report_failed"), and a *)
(* failure report is the last thing done for a job.                          *)
StopsWhenEmpty(p, answer) ==
  CASE p = "claim" -> IF answer = "ok" THEN "run" ELSE "down"
    [] p = "result" -> IF answer = "ok" THEN "heartbeat" ELSE "fail"
    [] p = "heartbeat" -> "claim"
    [] OTHER -> "heartbeat"

NextAfter(p, answer) ==
  CASE p = "register" -> IF answer = "ok" THEN "heartbeat" ELSE "down"
    [] p = "heartbeat" -> "claim"
    [] p = "claim" -> IF answer = "ok" THEN "run" ELSE "heartbeat"
    [] p = "result" -> IF answer = "ok" THEN "heartbeat" ELSE "fail"
    [] OTHER -> "heartbeat"

HandleAnswer(w) ==
  /\ call[w] \in {"ok", "error"}
  /\ Goto(w, NextAfter(pc[w], call[w]))
  /\ task' = IF NextAfter(pc[w], call[w]) \in {"run", "fail"} THEN task ELSE [task EXCEPT ![w] = None]
  /\ UNCHANGED <<qvars, held, server, astray, dvars, hvars, bounds>>

(* make_local_job, run_worker, normalized_result_payload: a valid result is  *)
(* reported as one, everything else as a failure.                            *)
Run(w) ==
  /\ pc[w] = "run"
  /\ runs' = [runs EXCEPT ![task[w]] = @ + 1]
  /\ \/ Goto(w, "result") /\ produced' = produced \cup {task[w]}
     \/ Goto(w, "fail") /\ UNCHANGED produced
  /\ UNCHANGED <<qvars, task, held, server, astray, dvars, bounds>>

(* The loop of a running worker; who starts a worker again is not modelled.  *)
LoopStep(w) == Post(w) \/ HandleAnswer(w) \/ Run(w)

WorkerStep(w) == Start(w) \/ LoopStep(w)

-----------------------------------------------------------------------------
(* The backend's side of a request *)

Answer(w, a) == call' = [call EXCEPT ![w] = a]

(* Answer whoever still waits for thread th.                                 *)
AnswerFrom(th, a) ==
  /\ call' = IF server[th] = None THEN call ELSE [call EXCEPT ![server[th]] = a]
  /\ server' = [server EXCEPT ![th] = None]

ReceiveUnchecked(th, w) ==
  /\ call[w] = "sent"
  /\ pc[w] # "claim"
  /\ handler[th] = Idle
  /\ handler' = [handler EXCEPT ![th] = RequestOf(w)]
  /\ Answer(w, "served")
  /\ server' = [server EXCEPT ![th] = w]
  /\ UNCHANGED <<store, issued, redeemed, clock, pc, task, held, astray, dvars, hvars, bounds>>

Receive(th, w) ==
  /\ call[w] = "sent"
  /\ pc[w] # "claim"
  /\ Authenticate(th, RequestOf(w), held[w])
  /\ Answer(w, "served")
  /\ server' = [server EXCEPT ![th] = w]
  /\ UNCHANGED <<pc, task, held, astray, dvars, hvars, bounds>>

Unauthorized(w) ==
  /\ call[w] = "sent"
  /\ ~Authorized(held[w], w)
  /\ Answer(w, "error")
  /\ UNCHANGED <<qvars, pc, task, held, server, astray, dvars, hvars, bounds>>

HandJobOut(w, j) ==
  /\ call[w] = "sent" /\ pc[w] = "claim"
  /\ ClaimJob(w, held[w], j)
  /\ Answer(w, "ok")
  /\ task' = [task EXCEPT ![w] = j]
  /\ UNCHANGED <<pc, held, server, astray, dvars, hvars, bounds>>

NothingToClaim(w) ==
  /\ call[w] = "sent" /\ pc[w] = "claim"
  /\ \A j \in Job : ~Claimable(j, w)
  /\ Answer(w, "error")
  /\ UNCHANGED <<qvars, pc, task, held, server, astray, dvars, hvars, bounds>>

Serve(th) ==
  /\ \/ Register(th) /\ AnswerFrom(th, "ok")
     \/ Heartbeat(th) /\ AnswerFrom(th, "ok")
     \/ Finish(th) /\ AnswerFrom(th, "ok")
     \/ FinishRefused(th) /\ AnswerFrom(th, "error")
  /\ UNCHANGED <<pc, task, held, astray, dvars, hvars, bounds>>

ServerStep(w) ==
  \/ \E th \in Thread : Receive(th, w)
  \/ Unauthorized(w)
  \/ \E j \in Job : HandJobOut(w, j)
  \/ NothingToClaim(w)

-----------------------------------------------------------------------------
(* What goes wrong on the way *)

Fault == faults < MaxFaults /\ faults' = faults + 1 /\ UNCHANGED interventions

Strayed(w) == IF call[w] = "sent" THEN astray \cup {<<RequestOf(w), held[w]>>} ELSE astray

Unserved(w) == [th \in Thread |-> IF server[th] = w THEN None ELSE server[th]]

(* The connection breaks: to the worker the answer is not the expected one;  *)
(* the backend serves the request all the same, or never sees it (Vanish).   *)
GiveUp(w) ==
  /\ Fault
  /\ call[w] \in {"sent", "served"}
  /\ Answer(w, "error")
  /\ astray' = Strayed(w)
  /\ server' = Unserved(w)
  /\ UNCHANGED <<qvars, pc, task, held, dvars, hvars>>

Crash(w) ==
  /\ Fault
  /\ pc[w] # "down"
  /\ Goto(w, "down")
  /\ task' = [task EXCEPT ![w] = None]
  /\ astray' = Strayed(w)
  /\ server' = Unserved(w)
  /\ UNCHANGED <<qvars, held, dvars, hvars>>

Vanish(r) ==
  /\ r \in astray
  /\ astray' = astray \ {r}
  /\ UNCHANGED <<qvars, wvars, held, server, dvars, hvars, bounds>>

ReceiveLate(th, r) ==
  /\ r \in astray
  /\ r[1].op # "claim"
  /\ Authenticate(th, r[1], r[2])
  /\ astray' = astray \ {r}
  /\ UNCHANGED <<wvars, held, server, dvars, hvars, bounds>>

(* The job is claimed for a worker that will never hear of it.               *)
ClaimLate(r, j) ==
  /\ r \in astray
  /\ r[1].op = "claim"
  /\ ClaimJob(r[1].worker, r[2], j)
  /\ astray' = astray \ {r}
  /\ UNCHANGED <<wvars, held, server, dvars, hvars, bounds>>

(* Where a dispatcher waits for its job.                                     *)
Waiting == {"submit", "poll", "seen", "checked"}

(* The backend stops and starts: dispatchers and requests in service end.    *)
RestartBackend ==
  /\ Fault
  /\ BackendRestart \/ (UNCHANGED qvars /\ \A th \in Thread : handler[th] = Idle)
  /\ server' = [th \in Thread |-> None]
  /\ call' = [w \in Worker |-> IF call[w] = "served" THEN "error" ELSE call[w]]
  /\ dpc' = [j \in Job |-> IF dpc[j] \in Waiting THEN "lost" ELSE dpc[j]]
  /\ UNCHANGED <<pc, task, held, astray, hvars>>

FaultStep ==
  \/ \E w \in Worker : GiveUp(w) \/ Crash(w)
  \/ \E r \in astray : Vanish(r)
  \/ \E r \in astray, th \in Thread : ReceiveLate(th, r)
  \/ \E r \in astray, j \in Job : ClaimLate(r, j)
  \/ RestartBackend

-----------------------------------------------------------------------------
(* A dispatcher: one backend thread per job *)

DispatcherAt(j, from, to) == dpc[j] = from /\ dpc' = [dpc EXCEPT ![j] = to]

(* The policy and has_compatible_worker, a read of its own before the        *)
(* enqueue.  A capable worker may look stale, or its version mismatched.     *)
Choose(j) ==
  /\ \E to \in {"submit", "local", "failed"} :
       /\ DispatcherAt(j, "none", to)
       /\ to = "submit" => \E w \in Worker : Registered(w) /\ TypeOf[j] \in Supports[w]
  /\ UNCHANGED <<qvars, wvars, held, server, astray, hvars, bounds>>

Submit(j) ==
  /\ DispatcherAt(j, "submit", "poll")
  /\ \E p \in Priority : EnqueueJob(j, p)
  /\ UNCHANGED <<wvars, held, server, astray, hvars, bounds>>

(* _wait_for_completed_job: a look at the record, then the deadline.         *)
Look(j) ==
  /\ \/ jobs[j].status = "completed" /\ DispatcherAt(j, "poll", "seen")
     \/ jobs[j].status \in {"failed", "cancelled", "absent"} /\ DispatcherAt(j, "poll", "failed")
  /\ UNCHANGED <<qvars, wvars, held, server, astray, hvars, bounds>>

NeverExpires(j) == FALSE

Expires(j) == j \notin Patient /\ jobs[j].status \in {"queued", "claimed"}

Expire(j) ==
  /\ Expires(j)
  /\ DispatcherAt(j, "poll", "expired")
  /\ UNCHANGED <<qvars, wvars, held, server, astray, hvars, bounds>>

(* _completed_job reads the record again, _store_consumed once more; a       *)
(* result that does not normalise is refused in between.                     *)
CheckAgain(j) ==
  /\ \E to \in {"checked", "failed"} :
       /\ DispatcherAt(j, "seen", to)
       /\ to = "checked" => jobs[j].status = "completed"
  /\ UNCHANGED <<qvars, wvars, held, server, astray, hvars, bounds>>

TakeResult(j) ==
  /\ \/ Consume(j) /\ DispatcherAt(j, "checked", "done")
     \/ jobs[j].status # "completed" /\ DispatcherAt(j, "checked", "failed") /\ UNCHANGED qvars
  /\ UNCHANGED <<wvars, held, server, astray, hvars, bounds>>

DispatcherStep(j) ==
  Submit(j) \/ Look(j) \/ Expire(j) \/ CheckAgain(j) \/ TakeResult(j)

-----------------------------------------------------------------------------
Intervene ==
  /\ interventions < MaxInterventions
  /\ interventions' = interventions + 1
  /\ (\E w \in Worker : DeleteWorker(w)) \/ (\E o \in Operation : CancelByOrigin(o))
  /\ UNCHANGED <<wvars, held, server, astray, dvars, hvars, faults>>

Provision ==
  /\ \/ \E t \in Token, id \in TokenId : IssueToken(t, id)
     \/ \E e \in Enrollment, c \in Code : CreateEnrollment(e, c)
  /\ UNCHANGED <<wvars, held, server, astray, dvars, hvars, bounds>>

PassTime == Tick /\ UNCHANGED <<wvars, held, server, astray, dvars, hvars, bounds>>

SystemNext ==
  \/ \E w \in Worker : WorkerStep(w) \/ ServerStep(w)
  \/ \E w \in Worker, t \in Token : InstallToken(w, t)
  \/ \E w \in Worker, e \in Enrollment, c \in Code, t \in Token : Enroll(w, e, c, t)
  \/ \E th \in Thread : Serve(th)
  \/ \E j \in Job : Choose(j) \/ DispatcherStep(j)
  \/ FaultStep \/ Intervene \/ Provision \/ PassTime

SystemSpec == SystemInit /\ [][SystemNext]_svars

(* The loops of a running worker, the executor and a waiting dispatcher go   *)
(* on, and the executor serves its requests in the order of their arrival,   *)
(* so none waits for ever while others are served.  Nothing is assumed of    *)
(* operators, administrators and the network.                                *)
FairSystem ==
  /\ SystemSpec
  /\ \A w \in Worker : WF_svars(LoopStep(w)) /\ SF_svars(ServerStep(w))
  /\ \A th \in Thread : WF_svars(Serve(th))
  /\ \A j \in Job : WF_svars(DispatcherStep(j))

-----------------------------------------------------------------------------
(* Every variable of the composition has its type. *)
SystemTypeOK ==
  /\ pc \in [Worker -> Posting \cup {"down", "run"}]
  /\ call \in [Worker -> {"none", "sent", "served", "ok", "error"}]
  /\ task \in [Worker -> Job \cup {None}]
  /\ held \in [Worker -> Token \cup {None}]
  /\ server \in [Thread -> Worker \cup {None}]
  /\ astray \subseteq (Request \cup ClaimRequest) \X Token
  /\ dpc \in [Job -> Waiting \cup {"none", "local", "failed", "expired", "lost", "done"}]
  /\ runs \in [Job -> Nat]
  /\ produced \subseteq Job
  /\ faults \in Nat
  /\ interventions \in Nat

(* No job is run twice: there is no lease, and neither a lost answer, a late *)
(* request, a crash nor a restart hands a job out again.                     *)
RunOnce == \A j \in Job : runs[j] <= 1

(* While a worker works on a job, no other worker does, and the record, if   *)
(* it is still there, names that worker.                                     *)
TaskIsOwn ==
  \A w \in Worker : task[w] # None =>
    /\ \A v \in Worker \ {w} : task[v] # task[w]
    /\ jobs[task[w]].status # "absent" => jobs[task[w]].by = w

(* Where workers enroll, and no administrator's token is passed around, the  *)
(* token in a working worker's file is accepted for the job it works on, as  *)
(* long as that job is its own.                                              *)
HolderCanReport ==
  \A w \in Worker : task[w] # None =>
    (jobs[task[w]].status = "claimed" => Authorized(held[w], w))

(* A dispatcher returns a result only if a worker produced one for its job,  *)
(* and from then on the id is gone: no late report brings it back.           *)
DeliveredIsProduced == \A j \in Job : dpc[j] = "done" => j \in produced

DeliveredIsGone == \A j \in Job : dpc[j] = "done" => jobs[j].status = "absent"

(* Whatever the workers, the network and the administrator do, a dispatcher  *)
(* that waits and has a deadline comes to an end.                            *)
DispatchEnds == \A j \in Job \ Patient : dpc[j] \in Waiting ~> dpc[j] \notin Waiting

(* Until something fails or somebody intervenes, every submitted job is run  *)
(* and its outcome reaches the dispatcher, whatever its neighbours do.       *)
CalmDelivery ==
  \A j \in Patient :
    dpc[j] = "poll" ~> \/ runs[j] = 1 /\ dpc[j] \in {"done", "failed"}
                      \/ faults + interventions > 0

(* A completed record leaves the queue through its consumer: no other report *)
(* replaces the result a worker has delivered.                               *)
ResultStays == [][\A j \in Job : jobs[j].status = "completed" => jobs'[j].status # "failed"]_svars

(* The composition takes steps of the queue only, so all that holds of the   *)
(* queue on its own holds in it.                                             *)
QueueSpec == Spec
=============================================================================

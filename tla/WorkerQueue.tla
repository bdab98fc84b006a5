---------------------------- MODULE WorkerQueue ----------------------------
(***************************************************************************)
(* The job queue the package offers to external workers: WorkerApiService, *)
(* WorkerProvisioningService and the credential checks they share, over    *)
(* the one state document WorkerStateStore keeps (tokens, workers, jobs,   *)
(* enrollments).                                                           *)
(*                                                                         *)
(* Every store.update(mutate) of the code is one action: the store holds   *)
(* its lock from the read to the write (module StateStore models that lock *)
(* and what it does not cover).  register, heartbeat, result and fail      *)
(* authenticate with a separate store.read() BEFORE they take the lock for *)
(* their update, so each of them is two actions of an executor thread:     *)
(* Authenticate, then the mutation, and everything else may happen in      *)
(* between.  claim authenticates inside its update and is one action.      *)
(***************************************************************************)
EXTENDS Integers, FiniteSets

CONSTANTS
  Worker,              \* worker ids
  Job,                 \* job ids
  Token,               \* token secrets (secrets.token_urlsafe: never drawn twice)
  TokenId,             \* ids the administrator gives to unbound tokens
  Enrollment,          \* enrollment ids
  Code,                \* enrollment codes (never drawn twice)
  Thread,              \* executor threads that serve worker requests
  Operation,           \* operation ids jobs originate from
  JobType,             \* job types
  Priority,            \* priorities a job may be given; the least is served first
  TypeOf,              \* job id -> its type (ids are "<capability>-<uuid>")
  OriginOf,            \* job id -> the operation it originates from
  Supports,            \* worker -> job types its binary announces
  None,                \* no worker, token id, job, code or outcome
  TerminalRetention,   \* TERMINAL_JOB_RETENTION_SECONDS
  EnrollmentLifetime,  \* expires_minutes
  EnrollmentRetention, \* ENROLLMENT_RETENTION_SECONDS
  PersistInterval,     \* HEARTBEAT_PERSIST_INTERVAL_SECONDS
  MaxClock             \* bound on the model's clock

ASSUME NamesAssumption ==
  /\ TypeOf \in [Job -> JobType]
  /\ OriginOf \in [Job -> Operation]
  /\ Supports \in [Worker -> SUBSET JobType]
  /\ Priority \subseteq Int
  /\ Priority # {}
  /\ None \notin Worker
  /\ None \notin Job
  /\ None \notin TokenId
  /\ None \notin Code

ASSUME TimeAssumption ==
  /\ TerminalRetention \in Nat \ {0}
  /\ EnrollmentLifetime \in Nat \ {0}
  /\ EnrollmentRetention \in Nat \ {0}
  /\ PersistInterval \in Nat \ {0}
  /\ MaxClock \in Nat

VARIABLES
  tokens,      \* Token -> is the secret's hash in the table, bound to whom, under which id
  workers,     \* Worker -> its registration
  jobs,        \* Job -> its record
  enrollments, \* Enrollment -> its entry
  issued,      \* tokens and codes drawn so far
  redeemed,    \* history: <<code, token, worker>> of every redemption
  handler,     \* Thread -> the authenticated request it has yet to apply
  clock

store == <<tokens, workers, jobs, enrollments>>
qvars == <<tokens, workers, jobs, enrollments, issued, redeemed, handler, clock>>

-----------------------------------------------------------------------------
(* Records *)

Settled == {"completed", "failed"}
JobStatus == {"absent", "queued", "claimed", "cancelled"} \cup Settled

JobRecord ==
  [status: JobStatus, by: Worker \cup {None}, priority: Int,
   created: Nat, updated: Nat, attempts: Nat]

AnyPriority == CHOOSE p \in Priority : TRUE

NoJob ==
  [status |-> "absent", by |-> None, priority |-> AnyPriority,
   created |-> 0, updated |-> 0, attempts |-> 0]

WorkerRecord ==
  [status: {"absent", "registered", "ready", "processing"}, seen: Nat]

NoWorker == [status |-> "absent", seen |-> 0]

TokenRecord == [live: BOOLEAN, worker: Worker \cup {None}, id: TokenId \cup {None}]

NoToken == [live |-> FALSE, worker |-> None, id |-> None]

EnrollmentRecord ==
  [state: {"absent", "open", "used"}, code: Code \cup {None},
   expires: Nat, used: Nat, worker: Worker \cup {None}]

NoEnrollment ==
  [state |-> "absent", code |-> None, expires |-> 0, used |-> 0, worker |-> None]

Request ==
  [op: {"register", "heartbeat"}, worker: Worker, job: {None}, outcome: {None}]
  \cup [op: {"finish"}, worker: Worker, job: Job, outcome: Settled]

Idle == [op |-> "idle", worker |-> None, job |-> None, outcome |-> None]

Exists(j) == jobs[j].status # "absent"
Registered(w) == workers[w].status # "absent"

(* WorkerCredentialService.authenticate_state: the secret is in the table    *)
(* and its entry is unbound or bound to the worker that presents it.         *)
Authorized(t, w) == tokens[t].live /\ tokens[t].worker \in {None, w}

-----------------------------------------------------------------------------
Init ==
  /\ tokens = [t \in Token |-> NoToken]
  /\ workers = [w \in Worker |-> NoWorker]
  /\ jobs = [j \in Job |-> NoJob]
  /\ enrollments = [e \in Enrollment |-> NoEnrollment]
  /\ issued = {}
  /\ redeemed = {}
  /\ handler = [th \in Thread |-> Idle]
  /\ clock = 0

(* create_token: an unbound token under an administrator's id; a second one  *)
(* under the same id replaces the first.                                     *)
IssueToken(t, id) ==
  /\ t \notin issued
  /\ issued' = issued \cup {t}
  /\ tokens' = [s \in Token |->
       IF s = t THEN [live |-> TRUE, worker |-> None, id |-> id]
       ELSE IF tokens[s].id = id THEN NoToken ELSE tokens[s]]
  /\ UNCHANGED <<workers, jobs, enrollments, redeemed, handler, clock>>

(* create_enrollment: overwrites the entry of the same id, code and all.     *)
CreateEnrollment(e, c) ==
  /\ c \notin issued
  /\ issued' = issued \cup {c}
  /\ enrollments' = [enrollments EXCEPT ![e] =
       [state |-> "open", code |-> c, expires |-> clock + EnrollmentLifetime,
        used |-> 0, worker |-> None]]
  /\ UNCHANGED <<tokens, workers, jobs, redeemed, handler, clock>>

(* redeem_enrollment: one update spends the code, removes the worker's       *)
(* earlier tokens and adds the new one.                                      *)
RedeemableTwice(e, c) ==
  enrollments[e].state # "absent" /\ enrollments[e].code = c /\ enrollments[e].expires > clock

Redeemable(e, c) ==
  enrollments[e].state = "open" /\ enrollments[e].code = c /\ enrollments[e].expires > clock

TokensKept(w) == tokens

TokensWithout(w) == [s \in Token |-> IF tokens[s].worker = w THEN NoToken ELSE tokens[s]]

Redeem(e, c, w, t) ==
  /\ Redeemable(e, c)
  /\ t \notin issued
  /\ issued' = issued \cup {t}
  /\ tokens' = [TokensWithout(w) EXCEPT ![t] = [live |-> TRUE, worker |-> w, id |-> None]]
  /\ enrollments' = [enrollments EXCEPT ![e].state = "used", ![e].used = clock, ![e].worker = w]
  /\ redeemed' = redeemed \cup {<<c, t, w>>}
  /\ UNCHANGED <<workers, jobs, handler, clock>>

-----------------------------------------------------------------------------
(* _prune_runtime_state: what an enqueue clears away first.  No code sets    *)
(* result_consumed_at, so a completed job is never among it.                 *)
PrunableSettled(j) ==
  /\ jobs[j].status \in Settled \cup {"cancelled"}
  /\ clock - jobs[j].updated >= TerminalRetention

Prunable(j) ==
  /\ jobs[j].status \in {"failed", "cancelled"}
  /\ clock - jobs[j].updated >= TerminalRetention

PrunableEnrollment(e) ==
  \/ enrollments[e].state = "used" /\ clock - enrollments[e].used >= EnrollmentRetention
  \/ enrollments[e].state = "open" /\ clock - enrollments[e].expires >= EnrollmentRetention

(* enqueue_job: prune, refuse an id that is still in use, otherwise write a  *)
(* fresh record over whatever the id held.  A refusal writes nothing.        *)
FreshOverOld(j, p) ==
  [jobs[j] EXCEPT !.status = "queued", !.priority = p, !.created = clock, !.updated = clock]

FreshJob(j, p) ==
  [status |-> "queued", by |-> None, priority |-> p,
   created |-> clock, updated |-> clock, attempts |-> 0]

Enqueueable(j) == Prunable(j) \/ jobs[j].status \in {"absent"} \cup Settled

EnqueueJob(j, p) ==
  /\ Enqueueable(j)
  /\ jobs' = [k \in Job |->
       IF k = j THEN FreshJob(j, p) ELSE IF Prunable(k) THEN NoJob ELSE jobs[k]]
  /\ enrollments' = [e \in Enrollment |->
       IF PrunableEnrollment(e) THEN NoEnrollment ELSE enrollments[e]]
  /\ UNCHANGED <<tokens, workers, issued, redeemed, handler, clock>>

(* claim_job: the least (priority, created_at) among the queued jobs of a    *)
(* type the worker announces; equal keys are in table order, left open here. *)
(* The worker need not be registered.                                        *)
ClaimableAgain(j, w) == jobs[j].status \in {"queued", "claimed"} /\ TypeOf[j] \in Supports[w]

Claimable(j, w) == jobs[j].status = "queued" /\ TypeOf[j] \in Supports[w]

ServedBefore(j, k) ==
  \/ jobs[j].priority < jobs[k].priority
  \/ jobs[j].priority = jobs[k].priority /\ jobs[j].created < jobs[k].created

ClaimJob(w, t, j) ==
  /\ Authorized(t, w)
  /\ Claimable(j, w)
  /\ \A k \in Job : Claimable(k, w) => ~ServedBefore(k, j)
  /\ jobs' = [jobs EXCEPT ![j].status = "claimed", ![j].by = w,
                          ![j].updated = clock, ![j].attempts = @ + 1]
  /\ workers' = IF Registered(w)
                THEN [workers EXCEPT ![w] = [status |-> "processing", seen |-> clock]]
                ELSE workers
  /\ UNCHANGED <<tokens, enrollments, issued, redeemed, handler, clock>>

-----------------------------------------------------------------------------
(* authenticate: the first half of register, heartbeat, result and fail.     *)
Authenticate(th, r, t) ==
  /\ handler[th] = Idle
  /\ Authorized(t, r.worker)
  /\ handler' = [handler EXCEPT ![th] = r]
  /\ UNCHANGED <<store, issued, redeemed, clock>>

Done(th) == handler' = [handler EXCEPT ![th] = Idle]

(* _upsert_worker with require_existing = False.                             *)
Register(th) ==
  /\ handler[th].op = "register"
  /\ workers' = [workers EXCEPT ![handler[th].worker] = [status |-> "registered", seen |-> clock]]
  /\ Done(th)
  /\ UNCHANGED <<tokens, jobs, enrollments, issued, redeemed, clock>>

(* heartbeat: never creates a registration; skips the write when nothing     *)
(* but a last_seen_at younger than PersistInterval would change.             *)
Heartbeat(th) ==
  LET w == handler[th].worker IN
  /\ handler[th].op = "heartbeat"
  /\ workers' =
       IF /\ Registered(w)
          /\ \/ workers[w].status # "ready"
             \/ clock - workers[w].seen >= PersistInterval
       THEN [workers EXCEPT ![w] = [status |-> "ready", seen |-> clock]]
       ELSE workers
  /\ Done(th)
  /\ UNCHANGED <<tokens, jobs, enrollments, issued, redeemed, clock>>

(* _finish_job: refused for a job that is gone, that another worker claimed  *)
(* or that was cancelled; accepted in every other status, queued and already *)
(* settled ones included.                                                    *)
ReportableIfCancelled(j, w) == jobs[j].status # "absent" /\ jobs[j].by \in {None, w}

ReportableByAnyone(j, w) == jobs[j].status \notin {"absent", "cancelled"}

ReportableIfGone(j, w) == jobs[j].status # "cancelled" /\ jobs[j].by \in {None, w}

Reportable(j, w) == jobs[j].status \notin {"absent", "cancelled"} /\ jobs[j].by \in {None, w}

Finish(th) ==
  LET w == handler[th].worker
      j == handler[th].job IN
  /\ handler[th].op = "finish"
  /\ Reportable(j, w)
  /\ jobs' = [jobs EXCEPT ![j].status = handler[th].outcome, ![j].updated = clock]
  /\ workers' = IF Registered(w)
                THEN [workers EXCEPT ![w] = [status |-> "ready", seen |-> clock]]
                ELSE workers
  /\ Done(th)
  /\ UNCHANGED <<tokens, enrollments, issued, redeemed, clock>>

FinishRefused(th) ==
  /\ handler[th].op = "finish"
  /\ ~Reportable(handler[th].job, handler[th].worker)
  /\ Done(th)
  /\ UNCHANGED <<store, issued, redeemed, clock>>

-----------------------------------------------------------------------------
(* _store_consumed: a result is taken out of the queue only while completed. *)
Consume(j) ==
  /\ jobs[j].status = "completed"
  /\ jobs' = [jobs EXCEPT ![j] = NoJob]
  /\ UNCHANGED <<tokens, workers, enrollments, issued, redeemed, handler, clock>>

DeleteJob(j) ==
  /\ Exists(j)
  /\ jobs' = [jobs EXCEPT ![j] = NoJob]
  /\ UNCHANGED <<tokens, workers, enrollments, issued, redeemed, handler, clock>>

(* cancel_jobs_by_origin with its default statuses.                          *)
Cancellable(j, o) == jobs[j].status \in {"queued", "claimed"} /\ OriginOf[j] = o

BackInQueue(r) == [r EXCEPT !.status = "queued", !.by = None, !.updated = clock]

Cancelled(r) == [r EXCEPT !.status = "cancelled", !.updated = clock]

CancelByOrigin(o) ==
  /\ \E j \in Job : Cancellable(j, o)
  /\ jobs' = [j \in Job |->
       IF Cancellable(j, o) THEN Cancelled(jobs[j]) ELSE jobs[j]]
  /\ UNCHANGED <<tokens, workers, enrollments, issued, redeemed, handler, clock>>

(* delete_worker: the registration, every token bound to it, the jobs it has *)
(* claimed, and with the last registration the unclaimed queue.              *)
DeletedIfQueued(j, w) ==
  /\ \A v \in Worker \ {w} : ~Registered(v)
  /\ jobs[j].by = None
  /\ jobs[j].status = "queued"

DeletedWith(j, w) ==
  \/ jobs[j].by = w /\ jobs[j].status \in {"queued", "claimed"}
  \/ /\ \A v \in Worker \ {w} : ~Registered(v)
     /\ jobs[j].by = None
     /\ jobs[j].status = "queued"

DeleteWorker(w) ==
  /\ Registered(w)
  /\ workers' = [workers EXCEPT ![w] = NoWorker]
  /\ tokens' = TokensWithout(w)
  /\ jobs' = [j \in Job |-> IF DeletedWith(j, w) THEN NoJob ELSE jobs[j]]
  /\ UNCHANGED <<enrollments, issued, redeemed, handler, clock>>

(* The backend process dies and starts again: the document is on disk, the   *)
(* requests its threads had authenticated are not.                           *)
BackendRestart ==
  /\ \E th \in Thread : handler[th] # Idle
  /\ handler' = [th \in Thread |-> Idle]
  /\ UNCHANGED <<store, issued, redeemed, clock>>

Tick ==
  /\ clock < MaxClock
  /\ clock' = clock + 1
  /\ UNCHANGED <<store, issued, redeemed, handler>>

-----------------------------------------------------------------------------
AdminNext ==
  \/ \E t \in Token, id \in TokenId : IssueToken(t, id)
  \/ \E e \in Enrollment, c \in Code : CreateEnrollment(e, c)
  \/ \E w \in Worker : DeleteWorker(w)
  \/ \E j \in Job : DeleteJob(j)
  \/ \E o \in Operation : CancelByOrigin(o)

BackendNext ==
  \/ \E j \in Job, p \in Priority : EnqueueJob(j, p)
  \/ \E j \in Job : Consume(j)
  \/ BackendRestart
  \/ Tick

WorkerNext ==
  \/ \E e \in Enrollment, c \in Code, w \in Worker, t \in Token : Redeem(e, c, w, t)
  \/ \E w \in Worker, t \in Token, j \in Job : ClaimJob(w, t, j)
  \/ \E th \in Thread, r \in Request, t \in Token : Authenticate(th, r, t)
  \/ \E th \in Thread : Register(th) \/ Heartbeat(th) \/ Finish(th) \/ FinishRefused(th)

Next == AdminNext \/ BackendNext \/ WorkerNext

Spec == Init /\ [][Next]_qvars

-----------------------------------------------------------------------------
(* Every variable has its type. *)
TypeOK ==
  /\ tokens \in [Token -> TokenRecord]
  /\ workers \in [Worker -> WorkerRecord]
  /\ jobs \in [Job -> JobRecord]
  /\ enrollments \in [Enrollment -> EnrollmentRecord]
  /\ issued \subseteq Token \cup Code
  /\ redeemed \subseteq Code \X Token \X Worker
  /\ handler \in [Thread -> Request \cup {Idle}]
  /\ clock \in Nat

(* A job that is claimed can still be reported: some live token is accepted  *)
(* from the worker that claimed it.  Token replacement on re-enrollment, the *)
(* overwriting of an administrator's token and the deletion of a worker all  *)
(* remove tokens; none of them may strand a claim behind "unauthorized".     *)
ClaimHasCredential ==
  \A j \in Job : jobs[j].status = "claimed" => \E t \in Token : Authorized(t, jobs[j].by)

(* A record is handed out at most once: attempts never passes 1, it is 1     *)
(* exactly for the records that name a claimer, and a queued record names    *)
(* none.  No cancel, late report or deletion puts a claimed job back.        *)
ClaimedOnce ==
  \A j \in Job :
    /\ jobs[j].attempts = IF jobs[j].by = None THEN 0 ELSE 1
    /\ jobs[j].status = "claimed" => jobs[j].by # None
    /\ jobs[j].status \in {"absent", "queued"} => jobs[j].by = None

(* A worker has at most one token of its own, however often it enrolls.      *)
OneTokenPerWorker ==
  \A s, t \in Token :
    tokens[s].live /\ tokens[t].live /\ tokens[s].worker = tokens[t].worker /\ tokens[s].worker # None
      => s = t

(* An enrollment code buys one token for one worker, and every bound token   *)
(* was bought that way by the worker it is bound to.                         *)
CodeSpentOnce ==
  /\ \A x, y \in redeemed : x[1] = y[1] => x = y
  /\ \A t \in Token : tokens[t].worker # None =>
       \E c \in Code : <<c, t, tokens[t].worker>> \in redeemed

(* A cancelled record never takes a late result or failure and is never      *)
(* claimed: it stays, disappears, or is replaced by a fresh submission.      *)
CancelledIsFinal ==
  [][\A j \in Job : jobs[j].status = "cancelled" =>
       \/ jobs'[j].status \in {"cancelled", "absent"}
       \/ jobs'[j].status = "queued" /\ jobs'[j].attempts = 0]_qvars

(* A submission costs no other job its record, unless that record is a       *)
(* failure or a cancellation older than the retention time: unconsumed       *)
(* results and recent failures survive whatever else is enqueued.            *)
SubmissionsKeepResults ==
  [][\A j, k \in Job :
       /\ j # k
       /\ jobs'[k].status = "queued"
       /\ jobs'[k] # jobs[k]
       /\ jobs'[j] # jobs[j]
       => /\ jobs[j].status \in {"failed", "cancelled"}
          /\ clock >= jobs[j].updated + TerminalRetention]_qvars

(* Only the worker that claimed a job settles it: a claimed record becomes   *)
(* completed or failed in a step of a request its claimer sent, with the     *)
(* outcome that request carries.                                             *)
ClaimerSettles ==
  [][\A j \in Job : jobs[j].status = "claimed" /\ jobs'[j].status \in Settled =>
       \E th \in Thread :
         /\ handler[th] = [op |-> "finish", worker |-> jobs[j].by, job |-> j,
                           outcome |-> jobs'[j].status]
         /\ handler'[th] = Idle]_qvars

(* Registration is explicit: no heartbeat, claim or report of an unknown or  *)
(* deleted worker creates a worker entry.                                    *)
OnlyRegisterRegisters ==
  [][\A w \in Worker : workers[w].status = "absent" /\ workers'[w].status # "absent" =>
       \E th \in Thread :
         /\ handler[th].op = "register" /\ handler[th].worker = w
         /\ handler'[th] = Idle]_qvars

-----------------------------------------------------------------------------
(* What the queue promises for each job, credentials, threads and clock      *)
(* hidden.                                                                   *)
Phase(s) ==
  CASE s = "queued" -> "open" [] s = "claimed" -> "taken" [] s = "completed" -> "answered"
    [] s = "failed" -> "refused" [] s = "cancelled" -> "withdrawn" [] OTHER -> "absent"

Lifecycle == INSTANCE JobLifecycle
  WITH phase <- [j \in Job |-> Phase(jobs[j].status)], taker <- [j \in Job |-> jobs[j].by]

LifecycleSpec == Lifecycle!Spec
=============================================================================

------------------------ MODULE WorkerQueue_proofs ------------------------
(***************************************************************************)
(* Proofs about WorkerQueue, for any number of workers, jobs, tokens,      *)
(* codes and threads and without the clock bound mattering.                *)
(***************************************************************************)
EXTENDS WorkerQueue, TLAPS

-----------------------------------------------------------------------------
(* Types *)

LEMMA PriorityType == AnyPriority \in Int
BY NamesAssumption DEF AnyPriority

LEMMA RecordTypes ==
  /\ NoJob \in JobRecord
  /\ NoWorker \in WorkerRecord
  /\ NoToken \in TokenRecord
  /\ NoEnrollment \in EnrollmentRecord
BY PriorityType DEF NoJob, JobRecord, JobStatus, NoWorker, WorkerRecord, NoToken, TokenRecord,
   NoEnrollment, EnrollmentRecord

LEMMA RequestType ==
  ASSUME NEW r \in Request \cup {Idle}
  PROVE  /\ r.op \in {"register", "heartbeat", "finish"} => r \in Request /\ r.worker \in Worker
         /\ r.op = "finish" => r.job \in Job /\ r.outcome \in Settled
BY DEF Request, Idle

LEMMA TypeInit == Init => TypeOK
BY RecordTypes DEF Init, TypeOK

LEMMA TokensWithoutType ==
  ASSUME TypeOK, NEW w \in Worker
  PROVE  TokensWithout(w) \in [Token -> TokenRecord]
BY RecordTypes DEF TypeOK, TokensWithout

LEMMA TypeStep == TypeOK /\ [Next]_qvars => TypeOK'
<1> SUFFICES ASSUME TypeOK, [Next]_qvars PROVE TypeOK'
  OBVIOUS
<1> USE NamesAssumption, TimeAssumption, RecordTypes
<1>1. ASSUME NEW t \in Token, NEW id \in TokenId, IssueToken(t, id) PROVE TypeOK'
  BY <1>1 DEF TypeOK, IssueToken, TokenRecord
<1>2. ASSUME NEW e \in Enrollment, NEW c \in Code, CreateEnrollment(e, c) PROVE TypeOK'
  BY <1>2 DEF TypeOK, CreateEnrollment, EnrollmentRecord
<1>3. ASSUME NEW w \in Worker, DeleteWorker(w) PROVE TypeOK'
  BY <1>3, TokensWithoutType DEF TypeOK, DeleteWorker
<1>4. ASSUME NEW j \in Job, DeleteJob(j) PROVE TypeOK'
  BY <1>4 DEF TypeOK, DeleteJob
<1>5. ASSUME NEW o \in Operation, CancelByOrigin(o) PROVE TypeOK'
  BY <1>5 DEF TypeOK, CancelByOrigin, Cancelled, JobRecord, JobStatus
<1>6. ASSUME NEW j \in Job, NEW p \in Priority, EnqueueJob(j, p) PROVE TypeOK'
  BY <1>6 DEF TypeOK, EnqueueJob, FreshJob, JobRecord, JobStatus
<1>7. ASSUME NEW j \in Job, Consume(j) PROVE TypeOK'
  BY <1>7 DEF TypeOK, Consume
<1>8. CASE BackendRestart
  BY <1>8 DEF TypeOK, BackendRestart, store
<1>9. CASE Tick
  BY <1>9 DEF TypeOK, Tick, store
<1>10. ASSUME NEW e \in Enrollment, NEW c \in Code, NEW w \in Worker, NEW t \in Token,
              Redeem(e, c, w, t)
       PROVE  TypeOK'
  <2>1. tokens' \in [Token -> TokenRecord]
    BY <1>10, TokensWithoutType DEF Redeem, TokenRecord
  <2>2. enrollments' \in [Enrollment -> EnrollmentRecord]
    BY <1>10 DEF Redeem, TypeOK, EnrollmentRecord
  <2>3. QED
    BY <1>10, <2>1, <2>2 DEF Redeem, TypeOK
<1>11. ASSUME NEW w \in Worker, NEW t \in Token, NEW j \in Job, ClaimJob(w, t, j) PROVE TypeOK'
  <2>1. jobs' \in [Job -> JobRecord]
    BY <1>11 DEF ClaimJob, TypeOK, JobRecord, JobStatus
  <2>2. workers' \in [Worker -> WorkerRecord]
    BY <1>11 DEF ClaimJob, TypeOK, WorkerRecord
  <2>3. QED
    BY <1>11, <2>1, <2>2 DEF ClaimJob, TypeOK
<1>12. ASSUME NEW th \in Thread, NEW r \in Request, NEW t \in Token, Authenticate(th, r, t)
       PROVE  TypeOK'
  BY <1>12 DEF TypeOK, Authenticate, store
<1>13. ASSUME NEW th \in Thread, Register(th) PROVE TypeOK'
  BY <1>13, RequestType DEF TypeOK, Register, Done, WorkerRecord
<1>14. ASSUME NEW th \in Thread, Heartbeat(th) PROVE TypeOK'
  BY <1>14, RequestType DEF TypeOK, Heartbeat, Done, WorkerRecord
<1>15. ASSUME NEW th \in Thread, Finish(th) PROVE TypeOK'
  <2>1. handler[th].worker \in Worker /\ handler[th].outcome \in Settled
    BY <1>15, RequestType DEF Finish, TypeOK
  <2>2. jobs' \in [Job -> JobRecord]
    BY <1>15, <2>1 DEF Finish, TypeOK, JobRecord, JobStatus
  <2>3. workers' \in [Worker -> WorkerRecord]
    BY <1>15, <2>1 DEF Finish, TypeOK, WorkerRecord
  <2>4. QED
    BY <1>15, <2>2, <2>3 DEF Finish, Done, TypeOK
<1>16. ASSUME NEW th \in Thread, FinishRefused(th) PROVE TypeOK'
  BY <1>16 DEF TypeOK, FinishRefused, Done, store
<1>17. CASE UNCHANGED qvars
  BY <1>17 DEF TypeOK, qvars
<1>18. QED
  BY <1>1, <1>2, <1>3, <1>4, <1>5, <1>6, <1>7, <1>8, <1>9, <1>10, <1>11, <1>12, <1>13, <1>14,
     <1>15, <1>16, <1>17
  DEF Next, AdminNext, BackendNext, WorkerNext

(* TypeOK holds in every reachable state. *)
THEOREM TypeCorrect == Spec => []TypeOK
BY TypeInit, TypeStep, PTL DEF Spec

-----------------------------------------------------------------------------
(* What a step does to one job.  Everything proved about jobs below follows  *)
(* from these six alternatives, so the actions are looked at only once.      *)

Submitted(j) == Enqueueable(j) /\ \E p \in Priority : jobs'[j] = FreshJob(j, p)

Claimed(j) ==
  /\ jobs[j].status = "queued"
  /\ \E w \in Worker, t \in Token :
       /\ Authorized(t, w)
       /\ tokens' = tokens
       /\ jobs'[j] = [jobs[j] EXCEPT !.status = "claimed", !.by = w, !.updated = clock,
                                     !.attempts = @ + 1]

Reported(j) ==
  \E th \in Thread :
    /\ handler[th].op = "finish"
    /\ handler[th].job = j
    /\ handler[th].outcome \in Settled
    /\ Reportable(j, handler[th].worker)
    /\ handler'[th] = Idle
    /\ jobs'[j] = [jobs[j] EXCEPT !.status = handler[th].outcome, !.updated = clock]

WasCancelled(j) == jobs[j].status \in {"queued", "claimed"} /\ jobs'[j] = Cancelled(jobs[j])

Removed(j) == Exists(j) /\ jobs'[j] = NoJob

JobStep(j) ==
  \/ Submitted(j) \/ Claimed(j) \/ Reported(j) \/ WasCancelled(j) \/ Removed(j)
  \/ jobs'[j] = jobs[j]

LEMMA StepOfJob ==
  ASSUME TypeOK, [Next]_qvars, NEW k \in Job
  PROVE  JobStep(k)
<1>1. ASSUME jobs' = jobs PROVE JobStep(k)
  BY <1>1 DEF JobStep
<1>2. ASSUME NEW w \in Worker, DeleteWorker(w) PROVE JobStep(k)
  <2>1. CASE DeletedWith(k, w)
    BY <1>2, <2>1 DEF DeleteWorker, DeletedWith, JobStep, Removed, Exists
  <2>2. CASE ~DeletedWith(k, w)
    BY <1>2, <2>2 DEF DeleteWorker, JobStep
  <2>3. QED
    BY <2>1, <2>2
<1>3. ASSUME NEW j \in Job, DeleteJob(j) \/ Consume(j) PROVE JobStep(k)
  BY <1>3 DEF DeleteJob, Consume, JobStep, Removed, Exists, TypeOK
<1>4. ASSUME NEW o \in Operation, CancelByOrigin(o) PROVE JobStep(k)
  BY <1>4 DEF CancelByOrigin, Cancellable, JobStep, WasCancelled
<1>5. ASSUME NEW j \in Job, NEW p \in Priority, EnqueueJob(j, p) PROVE JobStep(k)
  <2>1. CASE k = j
    BY <1>5, <2>1 DEF EnqueueJob, JobStep, Submitted
  <2>2. CASE k # j /\ Prunable(k)
    BY <1>5, <2>2 DEF EnqueueJob, Prunable, JobStep, Removed, Exists
  <2>3. CASE k # j /\ ~Prunable(k)
    BY <1>5, <2>3 DEF EnqueueJob, JobStep
  <2>4. QED
    BY <2>1, <2>2, <2>3
<1>6. ASSUME NEW w \in Worker, NEW t \in Token, NEW j \in Job, ClaimJob(w, t, j)
      PROVE  JobStep(k)
  <2>1. CASE k = j
    <3>1. jobs'[k] = [jobs[k] EXCEPT !.status = "claimed", !.by = w, !.updated = clock,
                                     !.attempts = @ + 1]
      BY <1>6, <2>1 DEF ClaimJob, TypeOK, JobRecord
    <3>2. QED
      BY <1>6, <2>1, <3>1 DEF ClaimJob, Claimable, JobStep, Claimed
  <2>2. CASE k # j
    BY <1>6, <2>2 DEF ClaimJob, JobStep, TypeOK
  <2>3. QED
    BY <2>1, <2>2
<1>7. ASSUME NEW th \in Thread, Finish(th) PROVE JobStep(k)
  <2>1. handler[th].job \in Job /\ handler[th].outcome \in Settled
    BY <1>7, RequestType DEF Finish, TypeOK
  <2>2. CASE k = handler[th].job
    <3>1. jobs'[k] = [jobs[k] EXCEPT !.status = handler[th].outcome, !.updated = clock]
      BY <1>7, <2>1, <2>2 DEF Finish, TypeOK, JobRecord
    <3>2. handler'[th] = Idle
      BY <1>7 DEF Finish, Done, TypeOK
    <3>3. QED
      BY <1>7, <2>1, <2>2, <3>1, <3>2 DEF Finish, JobStep, Reported
  <2>3. CASE k # handler[th].job
    BY <1>7, <2>3 DEF Finish, JobStep, TypeOK
  <2>4. QED
    BY <2>2, <2>3
<1>8. QED
  BY <1>1, <1>2, <1>3, <1>4, <1>5, <1>6, <1>7
  DEF Next, AdminNext, BackendNext, WorkerNext, qvars, store, IssueToken, CreateEnrollment,
      BackendRestart, Tick, Redeem, Authenticate, Register, Heartbeat, FinishRefused

(* The fields each alternative changes. *)
LEMMA StepFields ==
  ASSUME TypeOK, NEW j \in Job
  PROVE  /\ Submitted(j) =>
              /\ jobs[j].status \notin {"queued", "claimed"}
              /\ jobs'[j].status = "queued" /\ jobs'[j].by = None /\ jobs'[j].attempts = 0
         /\ Claimed(j) =>
              /\ jobs[j].status = "queued"
              /\ jobs'[j].status = "claimed" /\ jobs'[j].by \in Worker
              /\ jobs'[j].attempts = jobs[j].attempts + 1
         /\ Reported(j) =>
              /\ jobs[j].status \notin {"absent", "cancelled"}
              /\ jobs'[j].status \in Settled
              /\ jobs'[j].by = jobs[j].by /\ jobs'[j].attempts = jobs[j].attempts
         /\ WasCancelled(j) =>
              /\ jobs[j].status \in {"queued", "claimed"}
              /\ jobs'[j].status = "cancelled"
              /\ jobs'[j].by = jobs[j].by /\ jobs'[j].attempts = jobs[j].attempts
         /\ Removed(j) =>
              /\ jobs[j].status # "absent"
              /\ jobs'[j].status = "absent" /\ jobs'[j].by = None /\ jobs'[j].attempts = 0
<1>1. jobs[j] \in JobRecord
  BY DEF TypeOK
<1>2. Submitted(j) =>
        /\ jobs[j].status \notin {"queued", "claimed"}
        /\ jobs'[j].status = "queued" /\ jobs'[j].by = None /\ jobs'[j].attempts = 0
  BY DEF Submitted, Enqueueable, Prunable, Settled, FreshJob
<1>3. Claimed(j) =>
        /\ jobs[j].status = "queued"
        /\ jobs'[j].status = "claimed" /\ jobs'[j].by \in Worker
        /\ jobs'[j].attempts = jobs[j].attempts + 1
  BY <1>1 DEF Claimed, JobRecord
<1>4. Reported(j) =>
        /\ jobs[j].status \notin {"absent", "cancelled"}
        /\ jobs'[j].status \in Settled
        /\ jobs'[j].by = jobs[j].by /\ jobs'[j].attempts = jobs[j].attempts
  BY <1>1 DEF Reported, Reportable, JobRecord
<1>5. WasCancelled(j) =>
        /\ jobs[j].status \in {"queued", "claimed"}
        /\ jobs'[j].status = "cancelled"
        /\ jobs'[j].by = jobs[j].by /\ jobs'[j].attempts = jobs[j].attempts
  BY <1>1 DEF WasCancelled, Cancelled, JobRecord
<1>6. Removed(j) =>
        /\ jobs[j].status # "absent"
        /\ jobs'[j].status = "absent" /\ jobs'[j].by = None /\ jobs'[j].attempts = 0
  BY DEF Removed, Exists, NoJob
<1>7. QED
  BY <1>2, <1>3, <1>4, <1>5, <1>6

-----------------------------------------------------------------------------
(* Claims *)

JobClaimedOnce(j) ==
  /\ jobs[j].attempts = IF jobs[j].by = None THEN 0 ELSE 1
  /\ jobs[j].status = "claimed" => jobs[j].by # None
  /\ jobs[j].status \in {"absent", "queued"} => jobs[j].by = None

LEMMA ClaimedOnceStep == TypeOK /\ ClaimedOnce /\ [Next]_qvars => ClaimedOnce'
<1> SUFFICES ASSUME TypeOK, ClaimedOnce, [Next]_qvars, NEW j \in Job
             PROVE  JobClaimedOnce(j)'
  BY DEF ClaimedOnce, JobClaimedOnce
<1>1. JobClaimedOnce(j) /\ jobs[j] \in JobRecord
  BY DEF ClaimedOnce, JobClaimedOnce, TypeOK
<1>2. CASE Claimed(j)
  <2>1. jobs'[j].status = "claimed" /\ jobs'[j].by \in Worker /\ jobs'[j].attempts = 0 + 1
    BY <1>1, <1>2, StepFields DEF JobClaimedOnce
  <2>2. QED
    BY <2>1, NamesAssumption DEF JobClaimedOnce
<1>3. CASE Submitted(j) \/ Reported(j) \/ WasCancelled(j) \/ Removed(j) \/ jobs'[j] = jobs[j]
  BY <1>1, <1>3, StepFields DEF Settled, JobClaimedOnce
<1>4. QED
  BY <1>2, <1>3, StepOfJob DEF JobStep

(* No job is handed to a worker twice, whatever is cancelled, reported late, *)
(* deleted or submitted again around it.                                     *)
THEOREM ClaimsAreUnique == Spec => []ClaimedOnce
<1>1. Init => ClaimedOnce
  BY DEF Init, ClaimedOnce, NoJob
<1>2. QED
  BY <1>1, TypeCorrect, ClaimedOnceStep, PTL DEF Spec

(* A cancelled job takes no result, whatever was authenticated before the    *)
(* cancellation.                                                             *)
THEOREM CancellationIsFinal == Spec => CancelledIsFinal
<1> DEFINE Final(j) ==
      jobs[j].status = "cancelled" =>
        \/ jobs'[j].status \in {"cancelled", "absent"}
        \/ jobs'[j].status = "queued" /\ jobs'[j].attempts = 0
<1>1. ASSUME TypeOK, [Next]_qvars, NEW j \in Job PROVE Final(j)
  <2>1. JobStep(j)
    BY <1>1, StepOfJob
  <2>2. QED
    BY <1>1, <2>1, StepFields DEF JobStep
<1>2. TypeOK /\ [Next]_qvars => [\A j \in Job : Final(j)]_qvars
  BY <1>1
<1>3. QED
  BY <1>2, TypeCorrect, PTL DEF Spec, CancelledIsFinal

(* Only a request of the worker that claimed a job can settle it, also when  *)
(* that request was authenticated before the claim was made.                 *)
THEOREM ClaimersSettle == Spec => ClaimerSettles
<1> DEFINE BySettler(j) ==
      jobs[j].status = "claimed" /\ jobs'[j].status \in Settled =>
        \E th \in Thread :
          /\ handler[th] = [op |-> "finish", worker |-> jobs[j].by, job |-> j,
                            outcome |-> jobs'[j].status]
          /\ handler'[th] = Idle
<1>1. ASSUME TypeOK, ClaimedOnce, [Next]_qvars, NEW j \in Job PROVE BySettler(j)
  <2> SUFFICES ASSUME jobs[j].status = "claimed", jobs'[j].status \in Settled
               PROVE  \E th \in Thread :
                        /\ handler[th] = [op |-> "finish", worker |-> jobs[j].by, job |-> j,
                                          outcome |-> jobs'[j].status]
                        /\ handler'[th] = Idle
    OBVIOUS
  <2>1. Reported(j)
    BY <1>1, StepOfJob, StepFields DEF JobStep, Settled
  <2>2. PICK th \in Thread :
          /\ handler[th].op = "finish"
          /\ handler[th].job = j
          /\ Reportable(j, handler[th].worker)
          /\ handler'[th] = Idle
          /\ jobs'[j] = [jobs[j] EXCEPT !.status = handler[th].outcome, !.updated = clock]
    BY <2>1 DEF Reported
  <2>3. handler[th].worker = jobs[j].by
    BY <1>1, <2>2 DEF Reportable, ClaimedOnce
  <2>4. jobs'[j].status = handler[th].outcome
    BY <1>1, <2>2 DEF TypeOK, JobRecord
  <2>5. handler[th] \in Request
    BY <1>1, <2>2, RequestType DEF TypeOK
  <2>6. handler[th] = [op |-> "finish", worker |-> jobs[j].by, job |-> j,
                       outcome |-> jobs'[j].status]
    BY <2>2, <2>3, <2>4, <2>5 DEF Request
  <2>7. QED
    BY <2>2, <2>6
<1>2. TypeOK /\ ClaimedOnce /\ [Next]_qvars => [\A j \in Job : BySettler(j)]_qvars
  BY <1>1
<1>3. QED
  BY <1>2, TypeCorrect, ClaimsAreUnique, PTL DEF Spec, ClaimerSettles

-----------------------------------------------------------------------------
(* Retention *)

LEMMA OnlyEnqueueQueues ==
  ASSUME TypeOK, [Next]_qvars, NEW k \in Job, jobs'[k].status = "queued", jobs'[k] # jobs[k]
  PROVE  \E p \in Priority : EnqueueJob(k, p)
<1>1. Submitted(k)
  BY StepOfJob, StepFields DEF JobStep, Settled
<1>2. jobs[k].status # "queued"
  BY <1>1, StepFields
<1>3. ASSUME NEW w \in Worker, DeleteWorker(w) PROVE FALSE
  BY <1>2, <1>3 DEF DeleteWorker, NoJob
<1>4. ASSUME NEW j \in Job, DeleteJob(j) \/ Consume(j) PROVE FALSE
  BY <1>2, <1>4 DEF DeleteJob, Consume, NoJob, TypeOK
<1>5. ASSUME NEW o \in Operation, CancelByOrigin(o) PROVE FALSE
  <2>1. jobs'[k] = Cancelled(jobs[k]) \/ jobs'[k] = jobs[k]
    BY <1>5 DEF CancelByOrigin
  <2>2. Cancelled(jobs[k]).status = "cancelled"
    BY DEF Cancelled, TypeOK, JobRecord
  <2>3. QED
    BY <2>1, <2>2
<1>6. ASSUME NEW j \in Job, NEW p \in Priority, EnqueueJob(j, p) PROVE j = k
  BY <1>2, <1>6 DEF EnqueueJob, NoJob
<1>7. ASSUME NEW w \in Worker, NEW t \in Token, NEW j \in Job, ClaimJob(w, t, j) PROVE FALSE
  <2>1. j = k
    BY <1>2, <1>7 DEF ClaimJob, TypeOK
  <2>2. QED
    BY <1>2, <1>7, <2>1 DEF ClaimJob, Claimable
<1>8. ASSUME NEW th \in Thread, Finish(th) PROVE FALSE
  <2>1. handler[th].outcome \in Settled /\ handler[th].job \in Job
    BY <1>8, RequestType DEF Finish, TypeOK
  <2>2. CASE k = handler[th].job
    <3>1. jobs'[k].status = handler[th].outcome
      BY <1>8, <2>1, <2>2 DEF Finish, TypeOK, JobRecord
    <3>2. QED
      BY <2>1, <3>1 DEF Settled
  <2>3. CASE k # handler[th].job
    BY <1>8, <2>3 DEF Finish, TypeOK
  <2>4. QED
    BY <2>2, <2>3
<1>9. QED
  BY <1>3, <1>4, <1>5, <1>6, <1>7, <1>8
  DEF Next, AdminNext, BackendNext, WorkerNext, qvars, store, IssueToken, CreateEnrollment,
      BackendRestart, Tick, Redeem, Authenticate, Register, Heartbeat, FinishRefused

(* Whatever is submitted, unconsumed results and recent failures of other    *)
(* jobs survive.                                                             *)
THEOREM SubmissionsAreHarmless == Spec => SubmissionsKeepResults
<1> DEFINE Harmless(j, k) ==
      /\ j # k
      /\ jobs'[k].status = "queued"
      /\ jobs'[k] # jobs[k]
      /\ jobs'[j] # jobs[j]
      => /\ jobs[j].status \in {"failed", "cancelled"}
         /\ clock >= jobs[j].updated + TerminalRetention
<1>1. ASSUME TypeOK, [Next]_qvars, NEW j \in Job, NEW k \in Job PROVE Harmless(j, k)
  <2> SUFFICES ASSUME j # k, jobs'[k].status = "queued", jobs'[k] # jobs[k], jobs'[j] # jobs[j]
               PROVE  /\ jobs[j].status \in {"failed", "cancelled"}
                      /\ clock >= jobs[j].updated + TerminalRetention
    OBVIOUS
  <2>1. PICK p \in Priority : EnqueueJob(k, p)
    BY <1>1, OnlyEnqueueQueues
  <2>2. Prunable(j)
    BY <2>1 DEF EnqueueJob
  <2>3. clock \in Nat /\ jobs[j].updated \in Nat /\ TerminalRetention \in Nat
    BY <1>1, TimeAssumption DEF TypeOK, JobRecord
  <2>4. QED
    BY <2>2, <2>3 DEF Prunable
<1>2. TypeOK /\ [Next]_qvars => [\A j, k \in Job : Harmless(j, k)]_qvars
  BY <1>1
<1>3. QED
  BY <1>2, TypeCorrect, PTL DEF Spec, SubmissionsKeepResults

-----------------------------------------------------------------------------
(* Credentials.  Only three actions touch the token table.                   *)

LEMMA StepOfTokens ==
  ASSUME [Next]_qvars, tokens' # tokens
  PROVE  \/ \E t \in Token, id \in TokenId : IssueToken(t, id)
         \/ \E w \in Worker : DeleteWorker(w)
         \/ \E e \in Enrollment, c \in Code, w \in Worker, t \in Token : Redeem(e, c, w, t)
BY DEF Next, AdminNext, BackendNext, WorkerNext, qvars, store, CreateEnrollment, DeleteJob,
       CancelByOrigin, EnqueueJob, Consume, BackendRestart, Tick, ClaimJob, Authenticate,
       Register, Heartbeat, Finish, FinishRefused

LEMMA OneTokenStep == TypeOK /\ OneTokenPerWorker /\ [Next]_qvars => OneTokenPerWorker'
<1> SUFFICES ASSUME TypeOK, OneTokenPerWorker, [Next]_qvars PROVE OneTokenPerWorker'
  OBVIOUS
<1>1. ASSUME NEW t \in Token, NEW id \in TokenId, IssueToken(t, id) PROVE OneTokenPerWorker'
  BY <1>1 DEF IssueToken, OneTokenPerWorker, NoToken, TypeOK
<1>2. ASSUME NEW w \in Worker, DeleteWorker(w) PROVE OneTokenPerWorker'
  BY <1>2 DEF DeleteWorker, TokensWithout, OneTokenPerWorker, NoToken, TypeOK
<1>3. ASSUME NEW e \in Enrollment, NEW c \in Code, NEW w \in Worker, NEW t \in Token,
             Redeem(e, c, w, t)
      PROVE  OneTokenPerWorker'
  <2>1. \A s \in Token \ {t} : tokens'[s] = IF tokens[s].worker = w THEN NoToken ELSE tokens[s]
    BY <1>3 DEF Redeem, TokensWithout
  <2>2. tokens'[t].worker = w
    BY <1>3 DEF Redeem, TokensWithout
  <2>3. QED
    BY <2>1, <2>2 DEF OneTokenPerWorker, NoToken
<1>4. CASE tokens' = tokens
  BY <1>4 DEF OneTokenPerWorker
<1>5. QED
  BY <1>1, <1>2, <1>3, <1>4, StepOfTokens

(* Enrolling again replaces a worker's token instead of adding one.          *)
THEOREM TokensArePerWorker == Spec => []OneTokenPerWorker
<1>1. Init => OneTokenPerWorker
  BY DEF Init, OneTokenPerWorker, NoToken
<1>2. QED
  BY <1>1, TypeCorrect, OneTokenStep, PTL DEF Spec

(* No secret is drawn twice: what is in the table, in an open enrollment or  *)
(* redeemed has been issued, and an open enrollment's code is its own.       *)
DrawnOnce ==
  /\ \A t \in Token : tokens[t].live => t \in issued
  /\ \A x \in redeemed : x[1] \in issued /\ x[2] \in issued
  /\ \A e \in Enrollment : enrollments[e].state = "open" =>
       /\ enrollments[e].code \in issued
       /\ \A x \in redeemed : x[1] # enrollments[e].code
  /\ \A e, f \in Enrollment :
       /\ enrollments[e].state = "open"
       /\ enrollments[f].state = "open"
       /\ enrollments[e].code = enrollments[f].code
       => e = f

CredentialInv == DrawnOnce /\ CodeSpentOnce

LEMMA StepOfCredentials ==
  ASSUME [Next]_qvars, <<tokens, enrollments, issued, redeemed>>' # <<tokens, enrollments, issued, redeemed>>
  PROVE  \/ \E t \in Token, id \in TokenId : IssueToken(t, id)
         \/ \E e \in Enrollment, c \in Code : CreateEnrollment(e, c)
         \/ \E w \in Worker : DeleteWorker(w)
         \/ \E j \in Job, p \in Priority : EnqueueJob(j, p)
         \/ \E e \in Enrollment, c \in Code, w \in Worker, t \in Token : Redeem(e, c, w, t)
BY DEF Next, AdminNext, BackendNext, WorkerNext, qvars, store, DeleteJob,
       CancelByOrigin, Consume, BackendRestart, Tick, ClaimJob, Authenticate,
       Register, Heartbeat, Finish, FinishRefused

LEMMA CredentialInvStep == TypeOK /\ CredentialInv /\ [Next]_qvars => CredentialInv'
<1> SUFFICES ASSUME TypeOK, CredentialInv, [Next]_qvars PROVE CredentialInv'
  OBVIOUS
<1>1. ASSUME NEW t \in Token, NEW id \in TokenId, IssueToken(t, id) PROVE CredentialInv'
  BY <1>1 DEF IssueToken, NoToken, CredentialInv, DrawnOnce, CodeSpentOnce, TypeOK
<1>2. ASSUME NEW e \in Enrollment, NEW c \in Code, CreateEnrollment(e, c) PROVE CredentialInv'
  BY <1>2 DEF CreateEnrollment, CredentialInv, DrawnOnce, CodeSpentOnce, TypeOK
<1>3. ASSUME NEW w \in Worker, DeleteWorker(w) PROVE CredentialInv'
  BY <1>3 DEF DeleteWorker, TokensWithout, NoToken, CredentialInv, DrawnOnce, CodeSpentOnce, TypeOK
<1>4. ASSUME NEW j \in Job, NEW p \in Priority, EnqueueJob(j, p) PROVE CredentialInv'
  BY <1>4 DEF EnqueueJob, NoEnrollment, CredentialInv, DrawnOnce, CodeSpentOnce, TypeOK
<1>5. ASSUME NEW e \in Enrollment, NEW c \in Code, NEW w \in Worker, NEW t \in Token,
             Redeem(e, c, w, t)
      PROVE  CredentialInv'
  <2>1. \A s \in Token : tokens'[s] =
          IF s = t THEN [live |-> TRUE, worker |-> w, id |-> None]
          ELSE IF tokens[s].worker = w THEN NoToken ELSE tokens[s]
    BY <1>5 DEF Redeem, TokensWithout
  <2>2. /\ enrollments[e].state = "open" /\ enrollments[e].code = c
        /\ issued' = issued \cup {t} /\ redeemed' = redeemed \cup {<<c, t, w>>}
    BY <1>5 DEF Redeem, Redeemable
  <2>3. \A f \in Enrollment : enrollments'[f].state = "open" =>
          f # e /\ enrollments'[f] = enrollments[f]
    <3>1. enrollments'[e].state = "used"
      BY <1>5 DEF Redeem, TypeOK, EnrollmentRecord
    <3>2. \A f \in Enrollment \ {e} : enrollments'[f] = enrollments[f]
      BY <1>5 DEF Redeem, TypeOK
    <3>3. QED
      BY <3>1, <3>2
  <2>4. c \in issued /\ \A x \in redeemed : x[1] # c
    BY <2>2 DEF CredentialInv, DrawnOnce
  <2>5. DrawnOnce'
    <3>1. \A s \in Token : tokens'[s].live => s \in issued'
      BY <2>1, <2>2 DEF CredentialInv, DrawnOnce, NoToken
    <3>2. \A x \in redeemed' : x[1] \in issued' /\ x[2] \in issued'
      BY <2>2, <2>4 DEF CredentialInv, DrawnOnce
    <3>3. \A f \in Enrollment : enrollments'[f].state = "open" =>
            /\ enrollments'[f].code \in issued'
            /\ \A x \in redeemed' : x[1] # enrollments'[f].code
      BY <2>2, <2>3 DEF CredentialInv, DrawnOnce
    <3>4. \A f, g \in Enrollment :
            /\ enrollments'[f].state = "open"
            /\ enrollments'[g].state = "open"
            /\ enrollments'[f].code = enrollments'[g].code
            => f = g
      BY <2>3 DEF CredentialInv, DrawnOnce
    <3>5. QED
      BY <3>1, <3>2, <3>3, <3>4 DEF DrawnOnce
  <2>6. CodeSpentOnce'
    <3>1. \A x, y \in redeemed' : x[1] = y[1] => x = y
      BY <2>2, <2>4 DEF CredentialInv, CodeSpentOnce
    <3>2. ASSUME NEW s \in Token, tokens'[s].worker # None
          PROVE  \E d \in Code : <<d, s, tokens'[s].worker>> \in redeemed'
      <4>1. CASE s = t
        <5>1. tokens'[s].worker = w
          BY <2>1, <4>1
        <5>2. <<c, s, w>> \in redeemed'
          BY <2>2, <4>1
        <5> QED BY <5>1, <5>2
      <4>2. CASE s # t
        <5>1. tokens'[s] = tokens[s]
          BY <2>1, <3>2, <4>2 DEF NoToken
        <5>2. PICK d \in Code : <<d, s, tokens[s].worker>> \in redeemed
          BY <3>2, <5>1 DEF CredentialInv, CodeSpentOnce
        <5>3. <<d, s, tokens'[s].worker>> \in redeemed'
          BY <2>2, <5>1, <5>2
        <5> QED BY <5>3
      <4> QED BY <4>1, <4>2
    <3>3. QED
      BY <3>1, <3>2 DEF CodeSpentOnce
  <2>7. QED
    BY <2>5, <2>6 DEF CredentialInv
<1>6. CASE UNCHANGED <<tokens, enrollments, issued, redeemed>>
  BY <1>6 DEF CredentialInv, DrawnOnce, CodeSpentOnce
<1>7. QED
  BY <1>1, <1>2, <1>3, <1>4, <1>5, <1>6, StepOfCredentials

LEMMA CredentialInvariant == Spec => []CredentialInv
<1>1. Init => CredentialInv
  BY DEF Init, CredentialInv, DrawnOnce, CodeSpentOnce, NoToken, NoEnrollment
<1>2. QED
  BY <1>1, TypeCorrect, CredentialInvStep, PTL DEF Spec

(* An enrollment code buys exactly one worker one token, and no token is     *)
(* bound to a worker that did not redeem a code for it.                      *)
THEOREM CodesAreSpentOnce == Spec => []CodeSpentOnce
<1>1. CredentialInv => CodeSpentOnce
  BY DEF CredentialInv
<1>2. QED
  BY <1>1, CredentialInvariant, PTL

-----------------------------------------------------------------------------
(* The strengthening of ClaimHasCredential is that a claimed job names a     *)
(* worker (ClaimedOnce) and that a new token is not one in use (DrawnOnce):  *)
(* DeleteWorker and Redeem remove the tokens of ONE worker, and an           *)
(* administrator's token is only ever replaced by another one that every     *)
(* worker may use.                                                           *)
HasCredential(w) == \E t \in Token : tokens[t].live /\ tokens[t].worker \in {None, w}

LEMMA CredentialKept ==
  ASSUME TypeOK, DrawnOnce, [Next]_qvars, NEW v \in Worker, HasCredential(v),
         ~DeleteWorker(v)
  PROVE  HasCredential(v)'
<1>1. PICK s \in Token : tokens[s].live /\ tokens[s].worker \in {None, v}
  BY DEF HasCredential
<1>2. v # None
  BY NamesAssumption
<1>3. ASSUME NEW t \in Token, NEW id \in TokenId, IssueToken(t, id) PROVE HasCredential(v)'
  BY <1>3 DEF IssueToken, HasCredential
<1>4. ASSUME NEW w \in Worker, DeleteWorker(w) PROVE HasCredential(v)'
  <2>1. tokens'[s] = tokens[s]
    BY <1>1, <1>2, <1>4, NamesAssumption DEF DeleteWorker, TokensWithout
  <2>2. QED
    BY <1>1, <2>1 DEF HasCredential
<1>5. ASSUME NEW e \in Enrollment, NEW c \in Code, NEW w \in Worker, NEW t \in Token,
             Redeem(e, c, w, t)
      PROVE  HasCredential(v)'
  <2>1. CASE w = v
    <3>1. tokens'[t].live /\ tokens'[t].worker = v
      BY <1>5, <2>1 DEF Redeem, TokensWithout
    <3>2. QED
      BY <3>1 DEF HasCredential
  <2>2. CASE w # v
    <3>1. s # t
      BY <1>1, <1>5 DEF Redeem, DrawnOnce
    <3>2. tokens'[s] = tokens[s]
      BY <1>1, <1>5, <2>2, <3>1, NamesAssumption DEF Redeem, TokensWithout
    <3>3. QED
      BY <1>1, <3>2 DEF HasCredential
  <2>3. QED
    BY <2>1, <2>2
<1>6. CASE tokens' = tokens
  BY <1>1, <1>6 DEF HasCredential
<1>7. QED
  BY <1>3, <1>4, <1>5, <1>6, StepOfTokens

LEMMA ClaimHasCredentialStep ==
  TypeOK /\ ClaimedOnce /\ CredentialInv /\ ClaimHasCredential /\ [Next]_qvars
    => ClaimHasCredential'
<1> SUFFICES ASSUME TypeOK, ClaimedOnce, CredentialInv, ClaimHasCredential, [Next]_qvars,
                    NEW j \in Job, jobs'[j].status = "claimed"
             PROVE  \E t \in Token : tokens'[t].live /\ tokens'[t].worker \in {None, jobs'[j].by}
  BY DEF ClaimHasCredential, Authorized
<1>1. CASE Claimed(j)
  <2>1. PICK w \in Worker, t \in Token :
          /\ Authorized(t, w)
          /\ tokens' = tokens
          /\ jobs'[j] = [jobs[j] EXCEPT !.status = "claimed", !.by = w, !.updated = clock,
                                        !.attempts = @ + 1]
    BY <1>1 DEF Claimed
  <2>2. jobs'[j].by = w
    BY <2>1 DEF TypeOK, JobRecord
  <2>3. QED
    BY <2>1, <2>2 DEF Authorized
<1>2. CASE jobs'[j] = jobs[j]
  <2>1. PICK v \in Worker : v = jobs[j].by
    BY <1>2, NamesAssumption DEF ClaimedOnce, TypeOK, JobRecord
  <2>2. HasCredential(v)
    BY <1>2, <2>1 DEF ClaimHasCredential, HasCredential, Authorized
  <2>3. ~DeleteWorker(v)
    BY <1>2, <2>1 DEF DeleteWorker, DeletedWith, NoJob
  <2>4. HasCredential(v)'
    BY <2>2, <2>3, CredentialKept DEF CredentialInv
  <2>5. QED
    BY <1>2, <2>1, <2>4 DEF HasCredential
<1>3. QED
  BY <1>1, <1>2, StepOfJob, StepFields DEF JobStep, Settled

(* The worker that claimed a job can always still present a token the        *)
(* backend accepts for it.                                                   *)
THEOREM ClaimsKeepCredentials == Spec => []ClaimHasCredential
<1>1. Init => ClaimHasCredential
  BY DEF Init, ClaimHasCredential, NoJob
<1>2. QED
  BY <1>1, TypeCorrect, ClaimsAreUnique, CredentialInvariant, ClaimHasCredentialStep, PTL DEF Spec

(* Only a registration creates a worker entry.                               *)
THEOREM RegistrationIsExplicit == Spec => OnlyRegisterRegisters
<1> DEFINE ByRegister(w) ==
      workers[w].status = "absent" /\ workers'[w].status # "absent" =>
        \E th \in Thread :
          /\ handler[th].op = "register" /\ handler[th].worker = w
          /\ handler'[th] = Idle
<1>1. ASSUME TypeOK, [Next]_qvars, NEW w \in Worker PROVE ByRegister(w)
  <2>1. CASE workers' = workers
    BY <2>1
  <2>2. ASSUME NEW th \in Thread, Register(th) PROVE ByRegister(w)
    BY <1>1, <2>2 DEF Register, Done, TypeOK
  <2>3. ASSUME NEW th \in Thread, Heartbeat(th) \/ Finish(th) PROVE ByRegister(w)
    BY <1>1, <2>3 DEF Heartbeat, Finish, Registered, TypeOK
  <2>4. ASSUME NEW v \in Worker, NEW t \in Token, NEW j \in Job, ClaimJob(v, t, j)
        PROVE  ByRegister(w)
    BY <1>1, <2>4 DEF ClaimJob, Registered, TypeOK
  <2>5. ASSUME NEW v \in Worker, DeleteWorker(v) PROVE ByRegister(w)
    BY <1>1, <2>5 DEF DeleteWorker, NoWorker, TypeOK
  <2>6. QED
    BY <1>1, <2>1, <2>2, <2>3, <2>4, <2>5
    DEF Next, AdminNext, BackendNext, WorkerNext, qvars, store, IssueToken, CreateEnrollment,
        DeleteJob, CancelByOrigin, EnqueueJob, Consume, BackendRestart, Tick, Redeem,
        Authenticate, FinishRefused
<1>2. TypeOK /\ [Next]_qvars => [\A w \in Worker : ByRegister(w)]_qvars
  BY <1>1
<1>3. QED
  BY <1>2, TypeCorrect, PTL DEF Spec, OnlyRegisterRegisters

-----------------------------------------------------------------------------
(* Refinement *)

LEMMA PhaseValues ==
  /\ Phase("absent") = "absent" /\ Phase("queued") = "open" /\ Phase("claimed") = "taken"
  /\ Phase("completed") = "answered" /\ Phase("failed") = "refused"
  /\ Phase("cancelled") = "withdrawn"
BY DEF Phase

(* One job's step is one step of its lifecycle. *)
LEMMA LifecycleStep ==
  ASSUME TypeOK, ClaimedOnce, [Next]_qvars, NEW j \in Job
  PROVE  \/ Lifecycle!Submit(j) \/ Lifecycle!Take(j) \/ Lifecycle!Settle(j)
         \/ Lifecycle!Withdraw(j) \/ Lifecycle!Remove(j) \/ Lifecycle!Keep(j)
<1> DEFINE ph == [k \in Job |-> Phase(jobs[k].status)]
           tk == [k \in Job |-> jobs[k].by]
<1>1. /\ ph[j] = Phase(jobs[j].status) /\ tk[j] = jobs[j].by
      /\ ph'[j] = Phase(jobs'[j].status) /\ tk'[j] = jobs'[j].by
  OBVIOUS
<1>2. jobs[j].status \in {"absent", "queued", "claimed", "completed", "failed", "cancelled"}
  BY DEF TypeOK, JobRecord, JobStatus, Settled
<1>3. CASE Submitted(j)
  BY <1>1, <1>2, <1>3, PhaseValues, StepFields DEF Lifecycle!Submit, Lifecycle!Becomes
<1>4. CASE Claimed(j)
  BY <1>1, <1>4, PhaseValues, StepFields DEF Lifecycle!Take, Lifecycle!Becomes
<1>5. CASE Reported(j)
  BY <1>1, <1>2, <1>5, PhaseValues, StepFields
  DEF Settled, Lifecycle!Settle, Lifecycle!Answered, Lifecycle!Becomes
<1>6. CASE WasCancelled(j)
  BY <1>1, <1>6, PhaseValues, StepFields DEF Lifecycle!Withdraw, Lifecycle!Becomes
<1>7. CASE Removed(j)
  BY <1>1, <1>2, <1>7, PhaseValues, StepFields DEF Lifecycle!Remove, Lifecycle!Becomes
<1>8. CASE jobs'[j] = jobs[j]
  BY <1>1, <1>8 DEF Lifecycle!Keep, Lifecycle!Becomes
<1>9. QED
  BY <1>3, <1>4, <1>5, <1>6, <1>7, <1>8, StepOfJob DEF JobStep

(* The queue implements the lifecycle: no removed job comes back without a   *)
(* submission, no withdrawn job is answered, and a taker never changes,      *)
(* whatever tokens, workers, enrollments and threads do.                     *)
THEOREM QueueImplementsLifecycle == Spec => LifecycleSpec
<1>1. Init => Lifecycle!Init
  BY PhaseValues DEF Init, Lifecycle!Init, NoJob
<1>2. TypeOK /\ ClaimedOnce /\ [Next]_qvars => [Lifecycle!Next]_Lifecycle!lvars
  BY LifecycleStep DEF Lifecycle!Next
<1>3. QED
  BY <1>1, <1>2, TypeCorrect, ClaimsAreUnique, PTL DEF Spec, LifecycleSpec, Lifecycle!Spec
=============================================================================

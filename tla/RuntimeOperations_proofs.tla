---------------------- MODULE RuntimeOperations_proofs ----------------------
(***************************************************************************)
(* Proofs about RuntimeOperations, for any number of check types, cleanup  *)
(* actions, requests and runs.  The start lock of the checks and the       *)
(* progress in memory keep apart the scans of every type whose progress    *)
(* neither FlushFinal nor EndRefresh writes, whatever the others do.       *)
(***************************************************************************)
EXTENDS RuntimeOperations, FiniteSetTheorems, TLAPS

(* Every variable has its type: records written to memory and to the         *)
(* database by requests and runs are progress records of known operations.   *)
THEOREM TypeCorrect == Spec => []TypeOK
<1> USE DEF Progress, Empty, Record, NoRun, NoStart, Actor, Key
<1>1. Init => TypeOK
  BY DEF Init, TypeOK
<1>2. TypeOK /\ [Next]_vars => TypeOK'
  <2> SUFFICES ASSUME TypeOK, [Next]_vars PROVE TypeOK'
    OBVIOUS
  <2> USE KeysAssumption, ActorsAssumption DEF TypeOK
  <2>0. \A k \in Key : ShownByOwnKey(k) \in Progress
    BY DEF ShownByOwnKey
  <2>01. ASSUME NEW k \in Key PROVE Cleared(k) \in Progress
    <3>1. ShownByOwnKey(k) \in Progress
      BY <2>0
    <3> QED BY <3>1 DEF Cleared
  <2>02. ASSUME NEW k \in Key, ClearStop(k)
         PROVE  memory' \in [Key -> Progress] /\ disk' \in [Key -> Progress]
    <3>1. Cleared(k) \in Progress
      BY <2>01
    <3>2. CASE ShownByOwnKey(k).stop
      BY <3>1, <3>2, <2>02 DEF ClearStop
    <3>3. CASE ~ShownByOwnKey(k).stop
      BY <3>3, <2>02 DEF ClearStop
    <3> QED BY <3>2, <3>3
  <2>03. \A k \in Key : Shown(k) \in Progress
    <3> SUFFICES ASSUME NEW k \in Key PROVE Shown(k) \in Progress
      OBVIOUS
    <3>1. Cardinality(RunningCleanup) = 1 /\ RunningCleanup # {} =>
            memory[CHOOSE c \in RunningCleanup : TRUE] \in Progress
      BY DEF RunningCleanup
    <3>2. RunningCleanup = {} => Cardinality(RunningCleanup) = 0
      BY FS_EmptySet
    <3>3. ShownCleanup(k) \in Progress
      BY <3>1, <3>2 DEF ShownCleanup
    <3> QED BY <3>3, <2>0 DEF Shown
  <2>1. ASSUME NEW s \in Starter, NEW k \in Key, Ask(s, k) PROVE TypeOK'
    BY <2>1, <2>02 DEF Ask, LookAt
  <2>2. ASSUME NEW s \in Starter, StartStep(s) PROVE TypeOK'
    <3>1. CASE EnterStart(s)
      BY <3>1 DEF EnterStart
    <3>2. CASE Look(s)
      BY <3>2 DEF Look, Refuse, LookFurther, Release
    <3>3. CASE Commit(s)
      <4>1. starter[s].key \in Key
        BY <3>3 DEF Commit
      <4> QED BY <3>3, <4>1 DEF Commit, Write
    <3>4. CASE Launch(s)
      BY <3>4 DEF Launch, Free, Release
    <3>5. CASE Save(s)
      BY <3>5 DEF Save
    <3> QED BY <2>2, <3>1, <3>2, <3>3, <3>4, <3>5 DEF StartStep
  <2>3. ASSUME NEW r \in Run, RunStep(r) PROVE TypeOK'
    <3>1. CASE Report(r)
      <4>1. run[r].key \in Key /\ r \in Actor
        BY <3>1 DEF Report
      <4>2. PICK running \in BOOLEAN, stop \in BOOLEAN : Write(r, run[r].key, Record(running, stop))
        BY <3>1, <4>1 DEF Report
      <4> QED BY <3>1, <4>1, <4>2 DEF Report, Write
    <3>2. CASE End(r)
      BY <3>2 DEF End, Write, Ended, Goto
    <3>3. CASE FlushFinal(r)
      BY <3>3 DEF FlushFinal, Goto
    <3>4. CASE Fail(r)
      BY <3>4 DEF Fail, Leave
    <3>5. CASE Exit(r)
      BY <3>5 DEF Exit, Unregister
    <3>6. CASE Save(r)
      BY <3>6 DEF Save
    <3> QED BY <2>3, <3>1, <3>2, <3>3, <3>4, <3>5, <3>6 DEF RunStep
  <2>4. ASSUME NEW k \in Key, RequestStop(k) PROVE TypeOK'
    BY <2>4 DEF RequestStop, Write
  <2>5. ASSUME NEW k \in Key, ReviewFindings(k) PROVE TypeOK'
    BY <2>5, <2>02 DEF ReviewFindings
  <2>6. ASSUME NEW k \in Key, BeginRefresh(k) PROVE TypeOK'
    BY <2>6, <2>03 DEF BeginRefresh
  <2>7. ASSUME NEW k \in Key, GoStale(k) PROVE TypeOK'
    <3>1. \A p \in Progress : Aged(p) \in Progress
      BY DEF Aged
    <3> QED BY <2>7, <3>1 DEF GoStale
  <2>8. CASE Save(Desk)
    BY <2>8 DEF Save
  <2>9. CASE EndRefresh
    BY <2>9 DEF EndRefresh, Write
  <2>10. CASE Restart
    BY <2>10 DEF Restart
  <2>11. CASE UNCHANGED vars
    BY <2>11 DEF vars
  <2> QED
    BY <2>1, <2>2, <2>3, <2>4, <2>5, <2>6, <2>7, <2>8, <2>9, <2>10, <2>11 DEF Next
<1> QED BY <1>1, <1>2, PTL DEF Spec

-----------------------------------------------------------------------------
(* The scans *)

(* Who looks for running scans, or has found none, holds the start lock;     *)
(* only starts of a scan wait for it.                                        *)
LockHeld ==
  \A s \in Starter :
    /\ starter[s].key \in Check /\ starter[s].at \in {"look", "launch"} => lock = s
    /\ starter[s].at = "wait" => starter[s].key \in Check

(* What a holder has looked at does not work, nor will it meanwhile.         *)
LookedAt ==
  \A s \in Starter : starter[s].key \in Check =>
    /\ starter[s].at = "wait" => Check \subseteq starter[s].left
    /\ starter[s].at = "look" =>
         \A r \in Run : Scans(r) => run[r].key \in starter[s].left

(* Before its thread starts, a scan is alone, and shown as running.          *)
LaunchAlone ==
  \A s \in Starter : starter[s].key \in Check /\ starter[s].at = "launch" =>
    /\ starter[s].key \in Plain =>
         memory[starter[s].key].known /\ memory[starter[s].key].running
    /\ \A r \in Run : ~Scans(r)

(* A scan that works is running in memory, which readers prefer.             *)
ScanKnown ==
  \A r \in Run : Scans(r) => memory[run[r].key].known /\ memory[run[r].key].running

(* What writes a progress behind its run's back keeps to the other types.    *)
NoStranger ==
  /\ review # None => review.key \in Refreshed
  /\ \A r \in Run : run[r].at = "tail" => run[r].key \in Saving

ScanInv ==
  /\ TypeOK /\ LockHeld /\ LockInUse /\ LookedAt /\ LaunchAlone
  /\ ScanKnown /\ NoStranger /\ ScansAlone

(* What no step of the operation's own run or start does, leaves known and   *)
(* running as they are.                                                      *)
Steady(k) ==
  memory[k].known /\ memory[k].running => memory'[k].known /\ memory'[k].running

(* Steps that start no scan, move no start and keep what memory shows of the *)
(* scans and of the launching starts.                                        *)
Quiet ==
  /\ NoStranger'
  /\ UNCHANGED <<starter, lock>>
  /\ \A r \in Run : run'[r].at = "work" => run'[r] = run[r]
  /\ \A k \in Plain :
       \/ Steady(k)
       \/ ~Starting(k) /\ \A r \in Run : run'[r].at = "work" => run'[r].key # k

(* Such steps keep the invariant.                                            *)
LEMMA QuietStep == ScanInv /\ TypeOK' /\ Quiet => ScanInv'
<1> SUFFICES ASSUME ScanInv, TypeOK', Quiet PROVE ScanInv'
  OBVIOUS
<1> USE DEF ScanInv, Scans, Live, Quiet, Plain
<1>1. LockHeld' /\ LockInUse'
  BY DEF LockHeld, LockInUse
<1>2. LookedAt'
  BY DEF LookedAt
<1>3. LaunchAlone'
  BY DEF LaunchAlone, Steady, Starting
<1>4. ScanKnown'
  BY DEF ScanKnown, Steady
<1>5. ScansAlone'
  BY DEF ScansAlone
<1> QED BY <1>1, <1>2, <1>3, <1>4, <1>5

(* Taking a stop request back leaves what is known and running as it is.     *)
LEMMA ClearingIsSteady ==
  ASSUME TypeOK, NEW k \in Key, ClearStop(k), NEW q \in Key
  PROVE  Steady(q)
<1>1. SUFFICES ASSUME memory[q].known, memory[q].running, q = k, ShownByOwnKey(k).stop
               PROVE  memory'[q].known /\ memory'[q].running
  BY DEF Steady, ClearStop, TypeOK
<1>2. ShownByOwnKey(k) = memory[k] /\ memory[k] \in Progress
  BY <1>1 DEF ShownByOwnKey, TypeOK
<1>3. Cleared(k).known /\ Cleared(k).running
  BY <1>1, <1>2 DEF Cleared, Progress
<1> QED BY <1>1, <1>3 DEF ClearStop, TypeOK

(* Every step keeps the invariant.                                           *)
LEMMA ScanStep ==
  ASSUME ScanInv, TypeOK', [Next]_vars
  PROVE  ScanInv'
<1> USE KeysAssumption, ActorsAssumption DEF Plain
<1>0. TypeOK /\ NoStranger /\ LockInUse
  BY DEF ScanInv
<1>1. ASSUME NEW s \in Starter, NEW k \in Key, Ask(s, k) PROVE ScanInv'
  <2> USE <1>0, <1>1
  <2>1. UNCHANGED <<thread, run, lock, saving, review>>
    BY DEF Ask
  <2>2. \A q \in Plain : Steady(q)
    BY ClearingIsSteady DEF Ask, Steady, Key
  <2>3. /\ \A o \in Starter \ {s} : starter'[o] = starter[o]
        /\ starter'[s].key = k /\ starter'[s].at # "launch"
        /\ k \in Check => starter'[s].at = "wait" /\ starter'[s].left = LookAt(k)
        /\ starter'[s].at = "wait" => k \in Check
    BY DEF Ask, TypeOK
  <2>31. LockHeld'
    BY <2>1, <2>3 DEF LockHeld, ScanInv
  <2>32. lock \in Starter \cup {None} /\ lock # s
    BY DEF Ask, LockInUse, TypeOK
  <2>4. LockHeld' /\ LockInUse'
    BY <2>1, <2>3, <2>31, <2>32 DEF LockInUse
  <2>5. LookedAt'
    BY <2>1, <2>3 DEF LookedAt, ScanInv, LookAt, Scans, Live, Key
  <2>6. LaunchAlone'
    BY <2>1, <2>2, <2>3 DEF LaunchAlone, ScanInv, Steady, Scans, Live
  <2>7. ScanKnown' /\ ScansAlone' /\ NoStranger'
    BY <2>1, <2>2 DEF ScanKnown, ScanInv, ScansAlone, NoStranger, Steady, Scans, Live
  <2> QED BY <2>4, <2>5, <2>6, <2>7 DEF ScanInv
<1>2. ASSUME NEW s \in Starter, EnterStart(s) PROVE ScanInv'
  <2> USE <1>0, <1>2
  <2>1. /\ UNCHANGED <<memory, disk, thread, run, saving, review>>
        /\ lock = None /\ lock' = s /\ starter[s].at = "wait"
    BY DEF EnterStart, Enterable
  <2>2. /\ \A o \in Starter \ {s} : starter'[o] = starter[o]
        /\ starter'[s].key = starter[s].key /\ starter'[s].at = "look"
        /\ starter'[s].left = starter[s].left
    BY DEF EnterStart, TypeOK
  <2>3. LockHeld' /\ LockInUse'
    BY <2>1, <2>2 DEF LockHeld, LockInUse, ScanInv
  <2>4. LookedAt'
    BY <2>1, <2>2 DEF LookedAt, ScanInv, Scans, Live
  <2>5. LaunchAlone' /\ ScanKnown' /\ ScansAlone' /\ NoStranger'
    BY <2>1, <2>2 DEF LaunchAlone, ScanKnown, ScanInv, ScansAlone, NoStranger, Scans, Live
  <2> QED BY <2>3, <2>4, <2>5 DEF ScanInv
<1>3. ASSUME NEW s \in Starter, Look(s) PROVE ScanInv'
  <2> USE <1>0, <1>3
  <2>1. UNCHANGED <<memory, disk, thread, run, saving, review>> /\ starter[s].at = "look"
    BY DEF Look
  <2>2. ScanKnown' /\ ScansAlone' /\ NoStranger'
    BY <2>1 DEF ScanKnown, ScanInv, ScansAlone, NoStranger, Scans, Live
  <2>3. PICK q \in starter[s].left : Refuse(s, q) \/ LookFurther(s, q)
    BY DEF Look
  <2>4. CASE Refuse(s, q)
    <3>1. starter' = [starter EXCEPT ![s] = NoStart] /\ lock' = IF lock = s THEN None ELSE lock
      BY <2>4 DEF Refuse, Release
    <3>2. starter'[s] = NoStart /\ \A o \in Starter \ {s} : starter'[o] = starter[o]
      BY <3>1 DEF TypeOK
    <3>3. LockHeld' /\ LockInUse'
      BY <3>1, <3>2 DEF LockHeld, LockInUse, ScanInv, NoStart, TypeOK
    <3>4. LookedAt' /\ LaunchAlone'
      BY <2>1, <3>2 DEF LookedAt, LaunchAlone, ScanInv, NoStart, Scans, Live
    <3> QED BY <2>2, <3>3, <3>4 DEF ScanInv
  <2>5. CASE LookFurther(s, q)
    <3>1. /\ lock' = lock
          /\ \A o \in Starter \ {s} : starter'[o] = starter[o]
          /\ starter'[s].key = starter[s].key /\ starter'[s].at = "look"
          /\ starter'[s].left = starter[s].left \ {q}
      BY <2>1, <2>5 DEF LookFurther, TypeOK
    <3>2. ASSUME starter[s].key \in Check, NEW r \in Run, Scans(r) PROVE run[r].key # q
      <4>1. SUFFICES ASSUME run[r].key = q PROVE FALSE
        OBVIOUS
      <4>2. q \in Plain /\ memory[q].known /\ memory[q].running
        BY <3>2, <4>1 DEF ScanInv, ScanKnown, Scans
      <4>3. Shown(q).running
        BY <4>2 DEF Shown, ShownByOwnKey
      <4> QED BY <2>5, <3>2, <4>2, <4>3 DEF LookFurther, Blocks
    <3>3. LookedAt'
      BY <2>1, <3>1, <3>2 DEF LookedAt, ScanInv, Scans, Live
    <3>31. LockInUse'
      <4>1. lock \in Starter \cup {None}
        BY DEF TypeOK
      <4> QED BY <2>1, <3>1, <4>1 DEF LockInUse
    <3>4. LockHeld' /\ LockInUse' /\ LaunchAlone'
      BY <2>1, <3>1, <3>31 DEF LockHeld, LaunchAlone, ScanInv, Scans, Live
    <3> QED BY <2>2, <3>3, <3>4 DEF ScanInv
  <2> QED BY <2>3, <2>4, <2>5
<1>4. ASSUME NEW s \in Starter, Commit(s) PROVE ScanInv'
  <2> USE <1>0, <1>4
  <2>1. /\ UNCHANGED <<disk, thread, run, lock, review>>
        /\ starter[s].at = "look" /\ starter[s].left = {}
        /\ starter[s].key \in Key
    BY DEF Commit, TypeOK, NoStart
  <2>2. /\ \A o \in Starter \ {s} : starter'[o] = starter[o]
        /\ starter'[s].key = starter[s].key /\ starter'[s].at = "launch"
    BY DEF Commit, TypeOK
  <2>3. /\ memory'[starter[s].key].known /\ memory'[starter[s].key].running
        /\ \A q \in Key \ {starter[s].key} : memory'[q] = memory[q]
    BY <2>1 DEF Commit, Write, Record, TypeOK
  <2>31. LockHeld'
    BY <2>1, <2>2 DEF LockHeld, ScanInv
  <2>32. lock \in Starter \cup {None}
    BY DEF TypeOK
  <2>4. LockHeld' /\ LockInUse'
    BY <2>1, <2>2, <2>31, <2>32 DEF LockInUse
  <2>5. LookedAt'
    BY <2>1, <2>2 DEF LookedAt, ScanInv, Scans, Live
  <2>6. LaunchAlone'
    BY <2>1, <2>2, <2>3 DEF LaunchAlone, LookedAt, ScanInv, Scans, Live, Key
  <2>7. ScanKnown' /\ ScansAlone' /\ NoStranger'
    BY <2>1, <2>3 DEF ScanKnown, ScanInv, ScansAlone, NoStranger, Scans, Live, Key
  <2> QED BY <2>4, <2>5, <2>6, <2>7 DEF ScanInv
<1>5. ASSUME NEW s \in Starter, Launch(s) PROVE ScanInv'
  <2> USE <1>0, <1>5
  <2>1. /\ UNCHANGED <<memory, disk, saving, review>>
        /\ starter[s].at = "launch"
        /\ lock' = IF lock = s THEN None ELSE lock
    BY DEF Launch, Release
  <2>2. starter'[s] = NoStart /\ \A o \in Starter \ {s} : starter'[o] = starter[o]
    BY DEF Launch, TypeOK
  <2>3. PICK r \in Free : run' = [run EXCEPT ![r] = [key |-> starter[s].key, at |-> "work"]]
    BY DEF Launch
  <2>4. /\ r \in Run /\ run'[r] = [key |-> starter[s].key, at |-> "work"]
        /\ \A o \in Run \ {r} : run'[o] = run[o]
    BY <2>3 DEF Free, TypeOK
  <2>5. LockHeld' /\ LockInUse'
    BY <2>1, <2>2 DEF LockHeld, LockInUse, ScanInv, NoStart, TypeOK
  <2>6. LookedAt'
    BY <2>1, <2>2, <2>4 DEF LookedAt, LockHeld, ScanInv, NoStart, Scans, Live
  <2>7. LaunchAlone'
    BY <2>1, <2>2, <2>4 DEF LaunchAlone, LockHeld, ScanInv, NoStart, Scans, Live
  <2>8. ScanKnown'
    BY <2>1, <2>4 DEF ScanKnown, LaunchAlone, ScanInv, Scans, Live
  <2>9. ScansAlone'
    BY <2>1, <2>4 DEF ScansAlone, LaunchAlone, ScanInv, Scans, Live
  <2>10. NoStranger'
    BY <2>1, <2>4 DEF NoStranger
  <2> QED BY <2>5, <2>6, <2>7, <2>8, <2>9, <2>10 DEF ScanInv
<1>6. ASSUME NEW a \in Actor, Save(a) PROVE ScanInv'
  <2>1. UNCHANGED <<memory, thread, run, starter, lock, review>>
    BY <1>6 DEF Save
  <2> QED BY <1>0, <2>1, QuietStep DEF Quiet, Steady, NoStranger
<1>7. ASSUME NEW r \in Run, RunStep(r), ~Save(r) PROVE ScanInv'
  <2> USE <1>0, <1>7
  <2>1. CASE Report(r)
    <3>1. UNCHANGED <<disk, thread, run, starter, lock, review>> /\ run[r].key \in Key
      BY <2>1 DEF Report, TypeOK, NoRun
    <3>2. \A k \in Plain : Steady(k)
      <4>1. PICK running \in {memory[run[r].key].running, TRUE}, stop \in BOOLEAN :
              Write(r, run[r].key, Record(running, stop))
        BY <2>1, <3>1 DEF Report, TypeOK, Progress
      <4> QED BY <3>1, <4>1 DEF Write, Record, Steady, TypeOK, Key
    <3> QED BY <3>1, <3>2, QuietStep DEF Quiet, NoStranger
  <2>2. CASE End(r)
    <3>1. /\ UNCHANGED <<disk, thread, starter, lock, review>>
          /\ run[r].key \in Key /\ (run[r].key \in Plain => run[r].at = "work")
      BY <2>2 DEF End, TypeOK, NoRun, NoStranger
    <3>2. /\ run'[r].at = "end"
          /\ \A o \in Run \ {r} : run'[o] = run[o]
      BY <2>2 DEF End, Goto, TypeOK
    <3>3. \A k \in Key \ {run[r].key} : memory'[k] = memory[k]
      BY <2>2 DEF End, Write, TypeOK
    <3>4. ASSUME run[r].key \in Plain
          PROVE  /\ ~\E o \in Run : run'[o].at = "work" /\ run'[o].key = run[r].key
                 /\ ~Starting(run[r].key)
      BY <3>1, <3>2, <3>4 DEF ScanInv, ScansAlone, LaunchAlone, Scans, Live, Starting
    <3>5. NoStranger'
      BY <3>1, <3>2 DEF NoStranger
    <3> QED BY <3>1, <3>2, <3>3, <3>4, <3>5, QuietStep DEF Quiet, Steady, Key
  <2>3. CASE FlushFinal(r)
    <3>1. /\ UNCHANGED <<starter, lock, review>>
          /\ run[r].key \in Saving
          /\ \A k \in Key \ {run[r].key} : memory'[k] = memory[k]
      BY <2>3 DEF FlushFinal, TypeOK
    <3>2. /\ run'[r].at = "tail" /\ run'[r].key = run[r].key
          /\ \A o \in Run \ {r} : run'[o] = run[o]
      BY <2>3 DEF FlushFinal, Goto, TypeOK
    <3>3. NoStranger'
      BY <3>1, <3>2 DEF NoStranger
    <3> QED BY <3>1, <3>2, <3>3, QuietStep DEF Quiet, Steady, Key
  <2>4. CASE Fail(r) \/ Exit(r)
    <3>1. UNCHANGED <<memory, starter, lock, review>> /\ run' = [run EXCEPT ![r] = NoRun]
      BY <2>4 DEF Fail, Exit, Leave
    <3>2. run'[r].at = "idle" /\ \A o \in Run \ {r} : run'[o] = run[o]
      BY <3>1 DEF TypeOK, NoRun
    <3>3. NoStranger'
      BY <3>1, <3>2 DEF NoStranger
    <3> QED BY <3>1, <3>2, <3>3, QuietStep DEF Quiet, Steady
  <2> QED BY <2>1, <2>2, <2>3, <2>4 DEF RunStep
<1>8. ASSUME NEW k \in Key, RequestStop(k) PROVE ScanInv'
  <2>1. UNCHANGED <<disk, thread, run, starter, lock, review>>
    BY <1>8 DEF RequestStop
  <2>2. \A q \in Plain : Steady(q)
    BY <1>0, <1>8 DEF RequestStop, Write, Record, Steady, TypeOK, Key
  <2> QED BY <1>0, <2>1, <2>2, QuietStep DEF Quiet, NoStranger
<1>9. ASSUME NEW k \in Key, ReviewFindings(k) PROVE ScanInv'
  <2>1. UNCHANGED <<thread, run, starter, lock, saving, review>>
    BY <1>9 DEF ReviewFindings
  <2>2. \A q \in Plain : Steady(q)
    BY <1>0, <1>9, ClearingIsSteady DEF ReviewFindings, Key
  <2> QED BY <1>0, <2>1, <2>2, QuietStep DEF Quiet, NoStranger
<1>10. ASSUME NEW k \in Key, GoStale(k) PROVE ScanInv'
  <2>1. UNCHANGED <<thread, run, starter, lock, saving, review>>
    BY <1>10 DEF GoStale
  <2>2. \A q \in Plain : Steady(q)
    BY <1>0, <1>10 DEF GoStale, Aged, Steady, TypeOK, Progress, Key
  <2> QED BY <1>0, <2>1, <2>2, QuietStep DEF Quiet, NoStranger
<1>11. ASSUME NEW k \in Key, BeginRefresh(k) PROVE ScanInv'
  <2>1. UNCHANGED <<memory, run, starter, lock>> /\ review'.key = k /\ k \in Refreshed
    BY <1>11 DEF BeginRefresh
  <2> QED BY <1>0, <2>1, QuietStep DEF Quiet, Steady, NoStranger
<1>12. CASE EndRefresh
  <2>1. /\ UNCHANGED <<run, starter, lock>> /\ review' = None
        /\ review.key \in Refreshed
        /\ \A k \in Key \ {review.key} : memory'[k] = memory[k]
    BY <1>0, <1>12 DEF EndRefresh, Write, NoStranger, TypeOK
  <2> QED BY <1>0, <2>1, QuietStep DEF Quiet, Steady, NoStranger, Key
<1>13. CASE Restart
  <2>1. /\ review' = None /\ lock' = None /\ \A r \in Run : run'[r] = NoRun
        /\ \A s \in Starter : starter'[s] = NoStart
    BY <1>13 DEF Restart
  <2> QED BY <2>1 DEF ScanInv, LockHeld, LockInUse, LookedAt, LaunchAlone, ScanKnown, NoStranger, ScansAlone,
                      Scans, Live, NoRun, NoStart
<1>14. CASE UNCHANGED vars
  <2>1. UNCHANGED <<memory, run, starter, lock, review>>
    BY <1>14 DEF vars
  <2> QED BY <1>0, <2>1, QuietStep DEF Quiet, Steady, NoStranger
<1> QED
  BY <1>1, <1>2, <1>3, <1>4, <1>5, <1>6, <1>7, <1>8, <1>9, <1>10, <1>11, <1>12, <1>13, <1>14
  DEF Next, StartStep, RunStep, Actor

LEMMA ScansInvariant == Spec => []ScanInv
<1>1. Init => ScanInv
  <2>1. Init => TypeOK
    BY DEF Init, TypeOK, Progress, Empty
  <2> QED
    BY <2>1, KeysAssumption, ActorsAssumption
    DEF Init, ScanInv, LockHeld, LockInUse, LookedAt, LaunchAlone, ScanKnown, NoStranger, ScansAlone,
        Scans, Live, Plain, Key, NoRun, NoStart
<1>2. ScanInv /\ TypeOK' /\ [Next]_vars => ScanInv'
  BY ScanStep
<1> QED BY <1>1, <1>2, TypeCorrect, PTL DEF Spec

(* At most one checks scan works at a time, however requests, stops, errors, *)
(* stale records and restarts interleave, and although types that save their *)
(* findings or are analysed anew are scanned beside it.                      *)
THEOREM ScansAreAlone == Spec => []ScansAlone
<1>1. ScanInv => ScansAlone
  BY DEF ScanInv
<1> QED BY <1>1, ScansInvariant, PTL

(* A scan that works is shown as running, by getChecksProgress and to every  *)
(* start that looks.                                                         *)
THEOREM ScansAreShown == Spec => []ScanShown
<1>1. ScanInv => ScanShown
  BY KeysAssumption DEF ScanInv, ScanKnown, ScanShown, Scans, Plain, Shown, ShownByOwnKey
<1> QED BY <1>1, ScansInvariant, PTL

(* The start lock is never held by nobody, or by a start that is over: no    *)
(* refusal, launch or restart leaves _checks_start_lock taken.               *)
THEOREM StartLockInUse == Spec => []LockInUse
<1>1. ScanInv => LockInUse
  BY DEF ScanInv
<1> QED BY <1>1, ScansInvariant, PTL

-----------------------------------------------------------------------------
(* All the operations *)

(* No requested check is analysed anew by a review.                          *)
NoRefresh == Refreshed \cap Requested = {}

(* Nothing is written, launched or refreshed that no request asked for.      *)
OnlyRequested ==
  /\ \A k \in Key \ Requested : ~memory[k].known /\ ~memory[k].running /\ ~disk[k].known
  /\ \A a \in Actor : saving[a] # None => saving[a].key \in Requested
  /\ \A r \in Run : run[r].at # "idle" => run[r].key \in Requested
  /\ \A s \in Starter : starter[s].at # "idle" => starter[s].key \in Requested
  /\ review = None

LEMMA OnlyRequestedStep ==
  ASSUME NoRefresh, TypeOK, OnlyRequested, [Next]_vars
  PROVE  OnlyRequested'
<1> USE KeysAssumption, ActorsAssumption DEF OnlyRequested
<1>1. ASSUME NEW k \in Requested, NEW a \in Actor, NEW p \in Progress, Write(a, k, p)
      PROVE  /\ \A q \in Key \ Requested : memory'[q] = memory[q]
             /\ \A b \in Actor : saving'[b] # None => saving'[b].key \in Requested
  BY <1>1 DEF Write, TypeOK
<1>2. ASSUME NEW k \in Requested, ClearStop(k)
      PROVE  \A q \in Key \ Requested : memory'[q] = memory[q] /\ disk'[q] = disk[q]
  BY <1>2 DEF ClearStop, TypeOK
<1>3. \A running, stop \in BOOLEAN : Record(running, stop) \in Progress
  BY DEF Record, Progress
<1>4. \A k \in Key : memory[k] \in Progress /\ memory[k].running \in BOOLEAN /\ memory[k].stop \in BOOLEAN
  BY DEF TypeOK, Progress
<1>5. ASSUME NEW s \in Starter, NEW k \in Key, Ask(s, k) PROVE OnlyRequested'
  <2>1. k \in Requested /\ UNCHANGED <<run, saving, review>>
    BY <1>5 DEF Ask
  <2>2. \A q \in Key \ Requested : memory'[q] = memory[q] /\ disk'[q] = disk[q]
    BY <1>5, <1>2, <2>1 DEF Ask
  <2>3. \A o \in Starter : starter'[o] = starter[o] \/ starter'[o].key = k
    BY <1>5 DEF Ask, TypeOK
  <2> QED BY <2>1, <2>2, <2>3
<1>6. ASSUME NEW s \in Starter, StartStep(s), ~Save(s) PROVE OnlyRequested'
  <2>1. CASE EnterStart(s) \/ Look(s)
    <3>1. UNCHANGED <<memory, disk, run, saving, review>>
      BY <2>1 DEF EnterStart, Look
    <3>2. ASSUME NEW o \in Starter
          PROVE  starter'[o].at = "idle" \/ (starter'[o].key = starter[o].key /\ starter[o].at # "idle")
                   \/ starter'[o] = starter[o]
      BY <2>1 DEF EnterStart, Look, Refuse, LookFurther, TypeOK, NoStart
    <3> QED BY <3>1, <3>2
  <2>2. CASE Commit(s)
    <3>1. starter[s].key \in Requested /\ s \in Actor /\ Record(TRUE, FALSE) \in Progress
      BY <2>2, <1>3 DEF Commit, Actor
    <3>2. /\ \A q \in Key \ Requested : memory'[q] = memory[q]
          /\ \A b \in Actor : saving'[b] # None => saving'[b].key \in Requested
      BY <2>2, <3>1, <1>1 DEF Commit
    <3>3. UNCHANGED <<disk, run, review>> /\ \A o \in Starter : starter'[o].key = starter[o].key
      BY <2>2 DEF Commit, TypeOK
    <3>4. \A o \in Starter : starter'[o].at # "idle" => starter[o].at # "idle"
      BY <2>2 DEF Commit, TypeOK
    <3> QED BY <3>2, <3>3, <3>4
  <2>3. CASE Launch(s)
    <3>1. UNCHANGED <<memory, disk, saving, review>> /\ starter[s].key \in Requested
      BY <2>3 DEF Launch
    <3>2. \A o \in Run : run'[o] = run[o] \/ run'[o].key = starter[s].key
      BY <2>3 DEF Launch, TypeOK
    <3>3. \A o \in Starter : starter'[o] = starter[o] \/ starter'[o].at = "idle"
      BY <2>3 DEF Launch, TypeOK, NoStart
    <3> QED BY <3>1, <3>2, <3>3
  <2> QED BY <1>6, <2>1, <2>2, <2>3 DEF StartStep
<1>7. ASSUME NEW a \in Actor, Save(a) PROVE OnlyRequested'
  <2>1. UNCHANGED <<memory, run, starter, review>> /\ saving[a].key \in Requested
    BY <1>7 DEF Save
  <2>2. /\ \A q \in Key \ Requested : disk'[q] = disk[q]
        /\ \A b \in Actor : saving'[b] # None => saving'[b] = saving[b]
    BY <1>7, <2>1 DEF Save, TypeOK
  <2> QED BY <2>1, <2>2
<1>8. ASSUME NEW r \in Run, RunStep(r), ~Save(r) PROVE OnlyRequested'
  <2>1. run[r].at # "idle" /\ run[r].key \in Requested /\ r \in Actor /\ UNCHANGED <<starter, review>>
    BY <1>8 DEF RunStep, Report, End, FlushFinal, Fail, Exit, Actor
  <2>2. PICK at \in {"work", "tail", "end"} :
          run' = run \/ run' = [run EXCEPT ![r].at = at] \/ run' = [run EXCEPT ![r] = NoRun]
    BY <1>8 DEF RunStep, Report, End, FlushFinal, Fail, Exit, Goto, Leave
  <2>3. \A o \in Run : run'[o].at # "idle" => run[o].at # "idle" /\ run'[o].key = run[o].key
    BY <2>1, <2>2 DEF NoRun, TypeOK
  <2>4. CASE Report(r) \/ End(r)
    <3>1. PICK p \in Progress : Write(r, run[r].key, p)
      BY <2>4, <2>1, <1>3, <1>4 DEF Report, End, Ended
    <3>2. disk' = disk
      BY <2>4 DEF Report, End
    <3> QED BY <2>1, <2>3, <3>1, <3>2, <1>1
  <2>5. CASE FlushFinal(r) \/ Fail(r) \/ Exit(r)
    <3>1. \A q \in Key \ Requested : memory'[q] = memory[q] /\ disk'[q] = disk[q]
      BY <2>5, <2>1 DEF FlushFinal, Fail, Exit, TypeOK
    <3>2. saving' = saving
      BY <2>5 DEF FlushFinal, Fail, Exit
    <3> QED BY <2>1, <2>3, <3>1, <3>2
  <2> QED BY <1>8, <2>4, <2>5 DEF RunStep
<1>9. ASSUME NEW k \in Key, RequestStop(k) PROVE OnlyRequested'
  <2>1. k \in Requested /\ Desk \in Actor /\ Record(memory[k].running, TRUE) \in Progress
    BY <1>9, <1>3, <1>4 DEF RequestStop, Actor
  <2> QED BY <1>9, <2>1, <1>1 DEF RequestStop
<1>10. ASSUME NEW k \in Key, ReviewFindings(k) PROVE OnlyRequested'
  BY <1>10, <1>2 DEF ReviewFindings
<1>11. ASSUME NEW k \in Key, BeginRefresh(k) PROVE FALSE
  <2>1. k \in Check /\ k \notin Requested /\ Shown(k).known
    BY <1>11 DEF BeginRefresh, NoRefresh
  <2> QED BY <2>1 DEF Shown, ShownByOwnKey
<1>12. ASSUME NEW k \in Key, GoStale(k) PROVE OnlyRequested'
  <2>1. \A q \in Key \ Requested : memory'[q] = memory[q] /\ disk'[q].known = disk[q].known
    BY <1>12 DEF GoStale, Aged, TypeOK, Progress
  <2> QED BY <1>12, <2>1 DEF GoStale
<1>13. ~EndRefresh
  BY DEF EndRefresh
<1>14. CASE Restart
  BY <1>14 DEF Restart, Empty, NoRun, NoStart
<1>15. CASE UNCHANGED vars
  BY <1>15 DEF vars
<1> QED
  BY <1>5, <1>6, <1>7, <1>8, <1>9, <1>10, <1>11, <1>12, <1>13, <1>14, <1>15 DEF Next, Actor

LEMMA RequestedInvariant == NoRefresh => (Spec => []OnlyRequested)
<1> SUFFICES ASSUME NoRefresh PROVE Spec => []OnlyRequested
  OBVIOUS
<1>1. Init => OnlyRequested
  BY DEF Init, OnlyRequested, Empty, NoRun, NoStart
<1>2. TypeOK /\ OnlyRequested /\ [Next]_vars => OnlyRequested'
  BY OnlyRequestedStep
<1> QED BY <1>1, <1>2, TypeCorrect, PTL DEF Spec

(* A refresh finds no progress of a check nobody asked for.                  *)
LEMMA NothingToRefresh ==
  ASSUME NoRefresh, OnlyRequested, NEW k \in Key
  PROVE  ~BeginRefresh(k) /\ ~EndRefresh
<1>1. ~EndRefresh
  BY DEF EndRefresh, OnlyRequested
<1>2. ASSUME BeginRefresh(k) PROVE FALSE
  <2>1. k \in Check /\ k \notin Requested /\ Shown(k).known
    BY <1>2, KeysAssumption DEF BeginRefresh, NoRefresh
  <2> QED BY <2>1, KeysAssumption DEF Shown, ShownByOwnKey, OnlyRequested
<1> QED BY <1>1, <1>2

(* Errors raised by an auto-apply and restarts leave a record behind that no *)
(* run will end; without them and without refreshes, none is.                *)
Undisturbed == NoRefresh /\ {"error", "restart"} \cap Incident = {}

(* Memory is written before the database: a run that memory does not know    *)
(* left no running record.                                                   *)
KnownFirst ==
  /\ \A k \in Key : ~memory[k].known => ~memory[k].running /\ ~disk[k].running
  /\ \A a \in Actor : saving[a] # None => memory[saving[a].key].known

RunningInv == TypeOK /\ OnlyRequested /\ KnownFirst /\ RunningIsLive

Worked(k) == Starting(k) \/ \E r \in Run : Live(r) /\ run[r].key = k

(* What memory knows it keeps knowing.                                       *)
LEMMA KnownFirstStep ==
  ASSUME Undisturbed, TypeOK, OnlyRequested, KnownFirst, [Next]_vars
  PROVE  KnownFirst'
<1> USE KeysAssumption, ActorsAssumption DEF KnownFirst
<1>1. ASSUME NEW k \in Key, NEW a \in Actor, NEW p \in Progress, p.known, Write(a, k, p), disk' = disk
      PROVE  KnownFirst'
  <2>1. \A q \in Key : memory'[q] = memory[q] \/ memory'[q].known
    BY <1>1 DEF Write, TypeOK
  <2>2. \A b \in Actor : saving'[b] = saving[b] \/ (saving'[b].key = k /\ memory'[k].known)
    BY <1>1 DEF Write, TypeOK
  <2>3. \A b \in Actor : saving[b] # None => saving[b].key \in Key
    BY DEF TypeOK
  <2> QED BY <1>1, <2>1, <2>2, <2>3
<1>2. ASSUME NEW k \in Key, ClearStop(k), saving' = saving PROVE KnownFirst'
  <2>1. ShownByOwnKey(k) \in Progress
    BY DEF ShownByOwnKey, TypeOK
  <2>2. /\ Cleared(k).known = ShownByOwnKey(k).known
        /\ Cleared(k).running = ShownByOwnKey(k).running
    BY <2>1 DEF Cleared, Progress
  <2>3. \A q \in Key : /\ memory[q].known => memory'[q].known
                       /\ ~memory'[q].known => ~memory'[q].running /\ ~disk'[q].running
    BY <1>2, <2>2 DEF ClearStop, ShownByOwnKey, TypeOK
  <2>4. \A b \in Actor : saving[b] # None => saving[b].key \in Key
    BY DEF TypeOK
  <2> QED BY <1>2, <2>3, <2>4
<1>3. \A running, stop \in BOOLEAN : Record(running, stop) \in Progress /\ Record(running, stop).known
  BY DEF Record, Progress
<1>4. \A k \in Key : memory[k].running \in BOOLEAN /\ memory[k].stop \in BOOLEAN
  BY DEF TypeOK, Progress
<1>5. ASSUME NEW s \in Starter, NEW k \in Key, Ask(s, k) PROVE KnownFirst'
  BY <1>5, <1>2 DEF Ask
<1>6. ASSUME NEW s \in Starter, StartStep(s), ~Save(s) PROVE KnownFirst'
  <2>1. CASE EnterStart(s) \/ Look(s) \/ Launch(s)
    BY <2>1 DEF EnterStart, Look, Launch
  <2>2. CASE Commit(s)
    <3>1. starter[s].key \in Key /\ s \in Actor /\ disk' = disk
      BY <2>2 DEF Commit, Actor, TypeOK, NoStart
    <3>2. Record(TRUE, FALSE) \in Progress /\ Record(TRUE, FALSE).known
      BY <1>3
    <3> QED BY <2>2, <3>1, <3>2, <1>1 DEF Commit
  <2> QED BY <1>6, <2>1, <2>2 DEF StartStep
<1>7. ASSUME NEW a \in Actor, Save(a) PROVE KnownFirst'
  <2>1. memory' = memory /\ saving[a] # None /\ saving[a].key \in Key
    BY <1>7 DEF Save, TypeOK
  <2>2. /\ \A q \in Key \ {saving[a].key} : disk'[q] = disk[q]
        /\ \A b \in Actor : saving'[b] # None => saving'[b] = saving[b]
    BY <1>7, <2>1 DEF Save, TypeOK
  <2> QED BY <2>1, <2>2
<1>8. ASSUME NEW r \in Run, RunStep(r), ~Save(r) PROVE KnownFirst'
  <2>1. r \in Actor
    BY DEF Actor
  <2>11. run[r].at # "idle"
    BY <1>8 DEF RunStep, Report, End, FlushFinal, Fail, Exit
  <2>12. run[r].key \in Key
    BY <2>11 DEF OnlyRequested
  <2>2. CASE Report(r) \/ End(r)
    <3>0. run[r].key \in Key
      BY <2>12
    <3>1. PICK p \in Progress : p.known /\ Write(r, run[r].key, p)
      <4>1. CASE Report(r)
        BY <4>1, <3>0, <1>3, <1>4 DEF Report
      <4>2. CASE End(r)
        BY <4>2, <3>0, <1>3, <1>4 DEF End, Ended
      <4> QED BY <2>2, <4>1, <4>2
    <3>2. disk' = disk
      BY <2>2 DEF Report, End
    <3> QED BY <2>1, <3>0, <3>1, <3>2, <1>1
  <2>3. CASE FlushFinal(r)
    <3>1. \A q \in Key : (memory'[q] = memory[q] /\ disk'[q] = disk[q]) \/ memory'[q].known
      BY <2>3 DEF FlushFinal, Record, TypeOK
    <3>2. \A b \in Actor : saving[b] # None => saving[b].key \in Key
      BY DEF TypeOK
    <3> QED BY <2>3, <3>1, <3>2 DEF FlushFinal
  <2>4. CASE Fail(r) \/ Exit(r)
    BY <2>4 DEF Fail, Exit
  <2> QED BY <1>8, <2>2, <2>3, <2>4 DEF RunStep
<1>9. ASSUME NEW k \in Key, RequestStop(k) PROVE KnownFirst'
  <2>1. Desk \in Actor /\ Record(memory[k].running, TRUE) \in Progress /\ Record(memory[k].running, TRUE).known
    BY <1>3, <1>4 DEF Actor
  <2> QED BY <1>9, <2>1, <1>1 DEF RequestStop
<1>10. ASSUME NEW k \in Key, ReviewFindings(k) PROVE KnownFirst'
  BY <1>10, <1>2 DEF ReviewFindings
<1>11. ASSUME NEW k \in Key PROVE ~BeginRefresh(k) /\ ~EndRefresh
  BY NothingToRefresh DEF Undisturbed
<1>12. ASSUME NEW k \in Key, GoStale(k) PROVE KnownFirst'
  <2>1. \A q \in Key : /\ memory'[q].known = memory[q].known /\ memory'[q].running = memory[q].running
                       /\ disk'[q].running = disk[q].running
    BY <1>12 DEF GoStale, Aged, TypeOK, Progress
  <2>2. \A b \in Actor : saving[b] # None => saving[b].key \in Key
    BY DEF TypeOK
  <2> QED BY <1>12, <2>1, <2>2 DEF GoStale
<1>13. ~Restart
  BY DEF Restart, Undisturbed
<1>14. CASE UNCHANGED vars
  BY <1>14 DEF vars
<1> QED
  BY <1>5, <1>6, <1>7, <1>8, <1>9, <1>10, <1>11, <1>12, <1>13, <1>14 DEF Next, Actor, Key

(* Whoever makes memory show a run as running works on it or is about to;    *)
(* who stops working has written that it does not run.                       *)
LEMMA RunningStep ==
  ASSUME Undisturbed, RunningInv, [Next]_vars
  PROVE  RunningIsLive'
<1> USE KeysAssumption, ActorsAssumption DEF RunningInv
<1>0. RunningIsLive <=> \A k \in Key : memory[k].running => Worked(k)
  BY DEF RunningIsLive, Worked
<1>1. RunningIsLive' <=> \A k \in Key : memory'[k].running => Worked(k)'
  BY DEF RunningIsLive, Worked
<1>2. ASSUME \A k \in Key : memory'[k].running => memory[k].running,
             \A k \in Key : memory'[k].running /\ Worked(k) => Worked(k)'
      PROVE  RunningIsLive'
  BY <1>0, <1>1, <1>2
<1>3. ASSUME run' = run, starter' = starter PROVE \A k \in Key : Worked(k) => Worked(k)'
  BY <1>3 DEF Worked, Starting, Live
<1>4. ASSUME NEW k \in Key, ClearStop(k)
      PROVE  \A q \in Key : memory'[q].running => memory[q].running
  <2>1. ShownByOwnKey(k) \in Progress
    BY DEF ShownByOwnKey, TypeOK
  <2>2. Cleared(k).running = ShownByOwnKey(k).running
    BY <2>1 DEF Cleared, Progress
  <2> QED BY <1>4, <2>2 DEF ClearStop, ShownByOwnKey, KnownFirst, TypeOK
<1>5. ASSUME NEW s \in Starter, NEW k \in Key, Ask(s, k) PROVE RunningIsLive'
  <2>1. run' = run /\ (ClearStop(k) \/ memory' = memory)
    BY <1>5 DEF Ask
  <2>2. \A o \in Starter : starter[o].at = "launch" => starter'[o] = starter[o]
    BY <1>5 DEF Ask, TypeOK
  <2>3. \A q \in Key : Worked(q) => Worked(q)'
    BY <1>5, <2>2 DEF Ask, Worked, Starting, Live
  <2> QED BY <2>1, <2>3, <1>2, <1>4
<1>6. ASSUME NEW s \in Starter, StartStep(s), ~Save(s) PROVE RunningIsLive'
  <2>1. CASE EnterStart(s) \/ Look(s)
    <3>1. memory' = memory /\ run' = run
      BY <2>1 DEF EnterStart, Look
    <3>2. \A o \in Starter : starter[o].at = "launch" => starter'[o] = starter[o]
      BY <2>1 DEF EnterStart, Look, Refuse, LookFurther, TypeOK
    <3>3. \A q \in Key : Worked(q) => Worked(q)'
      BY <3>1, <3>2 DEF Worked, Starting, Live
    <3> QED BY <3>1, <3>3, <1>2
  <2>2. CASE Commit(s)
    <3>1. run' = run /\ \A q \in Key \ {starter[s].key} : memory'[q] = memory[q]
      BY <2>2 DEF Commit, Write, TypeOK
    <3>2. /\ starter'[s].at = "launch" /\ starter'[s].key = starter[s].key
          /\ \A o \in Starter \ {s} : starter'[o] = starter[o]
          /\ starter[s].at # "launch"
      BY <2>2 DEF Commit, TypeOK
    <3>3. \A q \in Key : Worked(q) => Worked(q)'
      BY <3>1, <3>2 DEF Worked, Starting, Live
    <3>4. \A q \in Key : q = starter[s].key => Worked(q)'
      BY <3>2 DEF Worked, Starting
    <3> QED BY <3>1, <3>3, <3>4, <1>0, <1>1
  <2>3. CASE Launch(s)
    <3>1. memory' = memory
      BY <2>3 DEF Launch
    <3>2. PICK r \in Free : run' = [run EXCEPT ![r] = [key |-> starter[s].key, at |-> "work"]]
      BY <2>3 DEF Launch
    <3>3. /\ r \in Run /\ run[r].at = "idle"
          /\ run'[r].key = starter[s].key /\ run'[r].at = "work"
          /\ \A o \in Run \ {r} : run'[o] = run[o]
      BY <3>2 DEF Free, TypeOK
    <3>4. \A o \in Starter \ {s} : starter'[o] = starter[o]
      BY <2>3 DEF Launch, TypeOK
    <3>5. \A q \in Key : Worked(q) => Worked(q)'
      BY <3>3, <3>4 DEF Worked, Starting, Live
    <3> QED BY <3>1, <3>5, <1>2
  <2> QED BY <1>6, <2>1, <2>2, <2>3 DEF StartStep
<1>7. ASSUME NEW a \in Actor, Save(a) PROVE RunningIsLive'
  BY <1>7, <1>2, <1>3 DEF Save
<1>8. ASSUME NEW r \in Run, RunStep(r), ~Save(r) PROVE RunningIsLive'
  <2>1. starter' = starter
    BY <1>8 DEF RunStep, Report, End, FlushFinal, Fail, Exit
  <2>2. CASE Report(r)
    <3>1. run' = run /\ Live(r) /\ \A q \in Key \ {run[r].key} : memory'[q] = memory[q]
      BY <2>2 DEF Report, Write, Live, TypeOK
    <3>2. \A q \in Key : Worked(q) => Worked(q)'
      BY <2>1, <3>1, <1>3
    <3>3. \A q \in Key : q = run[r].key => Worked(q)'
      BY <3>1 DEF Worked, Live
    <3> QED BY <3>1, <3>2, <3>3, <1>0, <1>1
  <2>3. CASE End(r) \/ FlushFinal(r)
    <3>1. run[r].at # "idle"
      BY <2>3 DEF End, FlushFinal
    <3>2. run[r].key \in Key
      BY <3>1 DEF OnlyRequested
    <3>3. /\ ~memory'[run[r].key].running
          /\ \A q \in Key \ {run[r].key} : memory'[q] = memory[q]
      BY <2>3, <3>2 DEF End, FlushFinal, Write, Ended, Record, TypeOK
    <3>4. \A o \in Run \ {r} : run'[o] = run[o]
      BY <2>3 DEF End, FlushFinal, Goto, TypeOK
    <3>5. \A q \in Key : memory'[q].running /\ Worked(q) => Worked(q)'
      BY <2>1, <3>3, <3>4 DEF Worked, Starting, Live
    <3> QED BY <3>3, <3>5, <1>2
  <2>4. ~Fail(r)
    BY DEF Fail, Undisturbed
  <2>5. CASE Exit(r)
    <3>1. memory' = memory /\ run[r].at = "end" /\ \A o \in Run \ {r} : run'[o] = run[o]
      BY <2>5 DEF Exit, TypeOK
    <3>2. \A q \in Key : Worked(q) => Worked(q)'
      BY <2>1, <3>1 DEF Worked, Starting, Live
    <3> QED BY <3>1, <3>2, <1>2
  <2> QED BY <1>8, <2>2, <2>3, <2>4, <2>5 DEF RunStep
<1>9. ASSUME NEW k \in Key, RequestStop(k) PROVE RunningIsLive'
  <2>1. \A q \in Key : memory'[q].running => memory[q].running
    BY <1>9 DEF RequestStop, Write, Record, TypeOK
  <2>2. run' = run /\ starter' = starter
    BY <1>9 DEF RequestStop
  <2> QED BY <2>1, <2>2, <1>2, <1>3
<1>10. ASSUME NEW k \in Key, ReviewFindings(k) PROVE RunningIsLive'
  BY <1>10, <1>2, <1>3, <1>4 DEF ReviewFindings
<1>11. ASSUME NEW k \in Key PROVE ~BeginRefresh(k) /\ ~EndRefresh
  BY NothingToRefresh DEF Undisturbed
<1>12. ASSUME NEW k \in Key, GoStale(k) PROVE RunningIsLive'
  <2>1. \A q \in Key : memory'[q].running = memory[q].running
    BY <1>12 DEF GoStale, Aged, TypeOK, Progress
  <2> QED BY <1>12, <2>1, <1>2, <1>3 DEF GoStale
<1>13. ~Restart
  BY DEF Restart, Undisturbed
<1>14. CASE UNCHANGED vars
  BY <1>14, <1>2, <1>3 DEF vars
<1> QED
  BY <1>5, <1>6, <1>7, <1>8, <1>9, <1>10, <1>11, <1>12, <1>13, <1>14 DEF Next, Actor, Key

(* Progress is shown as running only while a thread works on it or is being  *)
(* started, whichever operations are requested together, stopped, reviewed   *)
(* or grown stale: without errors raised by an auto-apply, restarts and      *)
(* refreshes no record blocks the later starts for ever.                     *)
THEOREM RunningIsWorkedOn == Undisturbed => (Spec => []RunningIsLive)
<1> SUFFICES ASSUME Undisturbed PROVE Spec => []RunningIsLive
  OBVIOUS
<1>1. Init => KnownFirst /\ RunningIsLive
  BY DEF Init, KnownFirst, RunningIsLive, Empty
<1>2. Spec => []OnlyRequested
  BY RequestedInvariant DEF Undisturbed
<1>3. TypeOK /\ OnlyRequested /\ KnownFirst /\ RunningIsLive /\ [Next]_vars
        => KnownFirst' /\ RunningIsLive'
  BY KnownFirstStep, RunningStep DEF RunningInv
<1> QED BY <1>1, <1>2, <1>3, TypeCorrect, PTL DEF Spec

(* Requests that keep apart: they come one at a time, for at most one of the *)
(* cleanup actions and for no file analysis, no requested scan saves its     *)
(* findings or is refreshed, and no stopping run falls silent.               *)
Apart ==
  /\ \A s, t \in Starter : s = t
  /\ FileAnalysis \notin Requested
  /\ \A c, d \in Requested \cap Cleanup : c = d
  /\ Requested \cap (Saving \cup Refreshed) = {}
  /\ "stale" \notin Incident

(* What works is running in memory, and nothing that runs is stale.          *)
LiveShown ==
  /\ \A k \in Key : ~memory[k].stale
  /\ \A r \in Run : Live(r) => memory[run[r].key].known /\ memory[run[r].key].running

(* The question about q shows a run of k: normalize_names shows whichever    *)
(* cleanup action runs.                                                      *)
Covers(q, k) == q = k \/ (k \in Cleanup /\ q = Normalize)

(* A start that still looks has yet to ask about what works.                 *)
NotYetLookedAt ==
  \A s \in Starter : starter[s].at \in {"wait", "look"} =>
    \A r \in Run : Live(r) => \E q \in starter[s].left : Covers(q, run[r].key)

(* A start that has asked about everything is alone, and shown as running.   *)
LaunchesAlone ==
  \A s \in Starter : starter[s].at = "launch" =>
    /\ memory[starter[s].key].known /\ memory[starter[s].key].running
    /\ \A r \in Run : ~Live(r)

ApartInv ==
  TypeOK /\ OnlyRequested /\ NoStranger /\ LiveShown /\ NotYetLookedAt /\ LaunchesAlone /\ OneOperation

(* Steps that start no run and no request, and keep what memory shows.       *)
KeepsApart ==
  /\ \A k \in Key : ~memory'[k].stale
  /\ \A r \in Run : run'[r].at = "work" => run'[r] = run[r] /\ Steady(run[r].key)
  /\ \A s \in Starter : starter'[s] = starter[s]
  /\ \A s \in Starter : starter[s].at = "launch" => Steady(starter[s].key)

LEMMA ApartQuietStep ==
  ASSUME ApartInv, KeepsApart
  PROVE  LiveShown' /\ NotYetLookedAt' /\ LaunchesAlone' /\ OneOperation'
<1> USE DEF ApartInv, KeepsApart, Live
<1>1. LiveShown'
  BY DEF LiveShown, Steady
<1>2. NotYetLookedAt'
  BY DEF NotYetLookedAt
<1>3. LaunchesAlone'
  BY DEF LaunchesAlone, Steady
<1>4. OneOperation'
  BY DEF OneOperation
<1> QED BY <1>1, <1>2, <1>3, <1>4

(* A start that asks about q is refused when what q shows works.             *)
LEMMA LiveBlocks ==
  ASSUME Apart, ApartInv, NEW k \in Requested, NEW r \in Run, Live(r),
         NEW q \in Key, Covers(q, run[r].key)
  PROVE  Blocks(k, q)
<1> USE KeysAssumption DEF ApartInv, Apart
<1>1. run[r].key \in Requested /\ memory[run[r].key].known /\ memory[run[r].key].running
  BY DEF OnlyRequested, LiveShown, Live
<1>2. ~memory[run[r].key].stale
  BY <1>1 DEF LiveShown
<1>3. Shown(q) = memory[run[r].key]
  <2>1. CASE q = run[r].key
    BY <2>1, <1>1 DEF Shown, ShownByOwnKey, ShownCleanup
  <2>2. CASE q # run[r].key
    <3>1. run[r].key \in Cleanup /\ q = Normalize
      BY <2>2 DEF Covers
    <3>2. Normalize \notin Requested
      BY <2>2, <3>1, <1>1
    <3>3. ~memory[Normalize].known
      BY <3>2 DEF OnlyRequested, Key
    <3>4. RunningCleanup = {run[r].key}
      <4>1. \A c \in Cleanup : memory[c].running => c \in Requested
        BY DEF OnlyRequested, Key
      <4> QED BY <4>1, <3>1, <1>1 DEF RunningCleanup
    <3>5. Cardinality(RunningCleanup) = 1
      BY <3>4, FS_Singleton
    <3>6. (CHOOSE c \in RunningCleanup : TRUE) = run[r].key
      BY <3>4
    <3>7. ShownCleanup(Normalize) = memory[run[r].key]
      BY <3>3, <3>5, <3>6 DEF ShownCleanup
    <3> QED BY <3>1, <3>7 DEF Shown
  <2> QED BY <2>1, <2>2
<1> QED BY <1>1, <1>2, <1>3 DEF Blocks, Blocking

LEMMA ApartStep ==
  ASSUME Apart, ApartInv, TypeOK', [Next]_vars
  PROVE  LiveShown' /\ NotYetLookedAt' /\ LaunchesAlone' /\ OneOperation'
<1> USE KeysAssumption, ActorsAssumption DEF ApartInv
<1> DEFINE Goal == LiveShown' /\ NotYetLookedAt' /\ LaunchesAlone' /\ OneOperation'
<1>0. NoRefresh
  BY DEF Apart, NoRefresh
<1>1. ASSUME NEW k \in Key, ClearStop(k)
      PROVE  \A q \in Key : Steady(q) /\ ~memory'[q].stale
  <2>1. \A q \in Key : Steady(q)
    BY <1>1, ClearingIsSteady
  <2>2. ShownByOwnKey(k) \in Progress
    BY DEF ShownByOwnKey, TypeOK
  <2>3. ~Cleared(k).stale
    BY <2>2 DEF Cleared, Progress
  <2> QED BY <1>1, <2>1, <2>3 DEF ClearStop, LiveShown, TypeOK
<1>2. \A r \in Run : run[r].at # "idle" => run[r].key \in Requested
  BY DEF OnlyRequested
<1>3. \A s \in Starter : starter[s].at # "idle" => starter[s].key \in Requested
  BY DEF OnlyRequested
<1>4. ASSUME NEW s \in Starter, NEW k \in Key, Ask(s, k) PROVE Goal
  <2>1. run' = run /\ starter[s].at = "idle" /\ \A q \in Key : Steady(q) /\ ~memory'[q].stale
    BY <1>4, <1>1 DEF Ask, Steady, LiveShown
  <2>2. starter'[s].at \in {"wait", "look"} /\ starter'[s].left = LookAt(k)
    BY <1>4 DEF Ask, TypeOK
  <2>3. \A o \in Starter : o = s
    BY DEF Apart
  <2>4. \A r \in Run : Live(r) => \E q \in LookAt(k) : Covers(q, run[r].key)
    BY <1>2 DEF Live, LookAt, Covers, Key
  <2>5. LiveShown'
    BY <1>2, <2>1 DEF LiveShown, Steady, Live
  <2>6. NotYetLookedAt'
    BY <2>1, <2>2, <2>3, <2>4 DEF NotYetLookedAt, Live
  <2>7. LaunchesAlone'
    BY <2>2, <2>3 DEF LaunchesAlone
  <2>8. OneOperation'
    BY <2>1 DEF OneOperation, Live
  <2> QED BY <2>5, <2>6, <2>7, <2>8
<1>5. ASSUME NEW s \in Starter, StartStep(s), ~Save(s) PROVE Goal
  <2>1. \A o \in Starter : o = s
    BY DEF Apart
  <2>2. CASE EnterStart(s) \/ Look(s)
    <3>1. memory' = memory /\ run' = run
      BY <2>2 DEF EnterStart, Look
    <3>2. LiveShown' /\ OneOperation'
      BY <3>1 DEF LiveShown, OneOperation, Live
    <3>3. CASE EnterStart(s)
      <4>1. starter[s].at = "wait" /\ starter'[s].at = "look" /\ starter'[s].left = starter[s].left
        BY <3>3 DEF EnterStart, TypeOK
      <4>2. NotYetLookedAt' /\ LaunchesAlone'
        BY <2>1, <3>1, <4>1 DEF NotYetLookedAt, LaunchesAlone, Live
      <4> QED BY <3>2, <4>2
    <3>4. CASE Look(s)
      <4>1. PICK q \in starter[s].left : Refuse(s, q) \/ LookFurther(s, q)
        BY <3>4 DEF Look
      <4>2. starter[s].at = "look"
        BY <3>4 DEF Look
      <4>3. CASE Refuse(s, q)
        <5>1. starter'[s].at = "idle"
          BY <4>3 DEF Refuse, NoStart, TypeOK
        <5>2. NotYetLookedAt' /\ LaunchesAlone'
          BY <2>1, <5>1 DEF NotYetLookedAt, LaunchesAlone
        <5> QED BY <3>2, <5>2
      <4>4. CASE LookFurther(s, q)
        <5>1. starter'[s].at = "look" /\ starter'[s].left = starter[s].left \ {q}
          BY <4>2, <4>4 DEF LookFurther, TypeOK
        <5>2. q \in Key /\ starter[s].key \in Requested
          BY <4>1, <4>2, <1>3 DEF TypeOK, NoStart
        <5>3. \A r \in Run : Live(r) => ~Covers(q, run[r].key)
          BY <4>4, <5>2, LiveBlocks DEF LookFurther
        <5>4. NotYetLookedAt'
          BY <2>1, <3>1, <4>2, <5>1, <5>3 DEF NotYetLookedAt, Live
        <5>5. LaunchesAlone'
          BY <2>1, <5>1 DEF LaunchesAlone
        <5> QED BY <3>2, <5>4, <5>5
      <4> QED BY <4>1, <4>3, <4>4
    <3> QED BY <2>2, <3>3, <3>4
  <2>3. CASE Commit(s)
    <3>1. run' = run /\ starter[s].at = "look" /\ starter[s].left = {}
      BY <2>3 DEF Commit
    <3>2. \A r \in Run : ~Live(r)
      BY <3>1 DEF NotYetLookedAt
    <3>3. starter[s].key \in Key
      BY <3>1, <1>3
    <3>4. memory' = [memory EXCEPT ![starter[s].key] = Record(TRUE, FALSE)]
      BY <2>3 DEF Commit, Write
    <3>5. /\ memory'[starter[s].key].known /\ memory'[starter[s].key].running
          /\ \A k \in Key : ~memory'[k].stale
      BY <3>3, <3>4 DEF Record, LiveShown, TypeOK
    <3>6. starter'[s].at = "launch" /\ starter'[s].key = starter[s].key
      BY <2>3 DEF Commit, TypeOK
    <3>7. LiveShown' /\ OneOperation'
      BY <3>1, <3>2, <3>5 DEF LiveShown, OneOperation, Live
    <3>8. NotYetLookedAt' /\ LaunchesAlone'
      BY <2>1, <3>1, <3>2, <3>5, <3>6 DEF NotYetLookedAt, LaunchesAlone, Live
    <3> QED BY <3>7, <3>8
  <2>4. CASE Launch(s)
    <3>1. memory' = memory /\ starter[s].at = "launch" /\ starter'[s].at = "idle"
      BY <2>4 DEF Launch, TypeOK, NoStart
    <3>2. PICK r \in Free : run' = [run EXCEPT ![r] = [key |-> starter[s].key, at |-> "work"]]
      BY <2>4 DEF Launch
    <3>3. /\ r \in Run /\ run'[r].key = starter[s].key
          /\ \A o \in Run \ {r} : run'[o] = run[o]
      BY <3>2 DEF Free, TypeOK
    <3>4. \A o \in Run : ~Live(o)
      BY <3>1 DEF LaunchesAlone
    <3>5. LiveShown' /\ OneOperation'
      BY <3>1, <3>3, <3>4 DEF LiveShown, OneOperation, LaunchesAlone, Live
    <3>6. NotYetLookedAt' /\ LaunchesAlone'
      BY <2>1, <3>1 DEF NotYetLookedAt, LaunchesAlone
    <3> QED BY <3>5, <3>6
  <2> QED BY <1>5, <2>2, <2>3, <2>4 DEF StartStep
<1>6. ASSUME run' = run, starter' = starter, \A k \in Key : Steady(k) /\ ~memory'[k].stale
      PROVE  Goal
  <2>1. KeepsApart
    BY <1>2, <1>3, <1>6 DEF KeepsApart
  <2> QED BY <2>1, ApartQuietStep
<1>7. ASSUME memory' = memory PROVE \A k \in Key : Steady(k) /\ ~memory'[k].stale
  BY <1>7 DEF Steady, LiveShown
<1>8. ASSUME NEW a \in Actor, Save(a) PROVE Goal
  BY <1>8, <1>6, <1>7 DEF Save
<1>9. ASSUME NEW r \in Run, RunStep(r), ~Save(r) PROVE Goal
  <2>1. starter' = starter /\ run[r].at # "idle"
    BY <1>9 DEF RunStep, Report, End, FlushFinal, Fail, Exit
  <2>2. run[r].key \in Requested
    BY <1>2, <2>1
  <2>3. CASE Report(r)
    <3>1. PICK running \in {memory[run[r].key].running, TRUE}, stop \in {memory[run[r].key].stop, FALSE} :
            Write(r, run[r].key, Record(running, stop))
      BY <2>3 DEF Report
    <3>2. \A k \in Key : Steady(k) /\ ~memory'[k].stale
      BY <2>2, <3>1 DEF Write, Record, Steady, LiveShown, TypeOK
    <3>3. run' = run
      BY <2>3 DEF Report
    <3> QED BY <2>1, <3>2, <3>3, <1>6
  <2>4. CASE End(r)
    <3>1. /\ run'[r].at = "end"
          /\ \A o \in Run \ {r} : run'[o] = run[o]
      BY <2>4 DEF End, Goto, TypeOK
    <3>2. /\ \A k \in Key \ {run[r].key} : Steady(k) /\ ~memory'[k].stale
          /\ ~memory'[run[r].key].stale
      BY <2>2, <2>4 DEF End, Write, Ended, Record, Steady, LiveShown, TypeOK
    <3>3. run[r].at = "work"
      <4>1. run[r].at # "tail"
        BY <2>2 DEF NoStranger, Apart
      <4> QED BY <2>4, <4>1 DEF End
    <3>4. KeepsApart
      <4>1. \A o \in Run : run'[o].at = "work" => FALSE
        BY <3>1, <3>3 DEF OneOperation, Live
      <4>2. \A s \in Starter : starter[s].at # "launch"
        BY <3>3 DEF LaunchesAlone, Live
      <4> QED BY <2>1, <3>2, <4>1, <4>2 DEF KeepsApart
    <3> QED BY <3>4, ApartQuietStep
  <2>5. CASE FlushFinal(r)
    BY <2>2, <2>5 DEF FlushFinal, Apart
  <2>6. CASE Fail(r) \/ Exit(r)
    <3>1. memory' = memory /\ run'[r].at = "idle" /\ \A o \in Run \ {r} : run'[o] = run[o]
      BY <2>6 DEF Fail, Exit, Leave, TypeOK, NoRun
    <3>2. KeepsApart
      BY <2>1, <3>1, <1>2, <1>3, <1>7 DEF KeepsApart
    <3> QED BY <3>2, ApartQuietStep
  <2> QED BY <1>9, <2>3, <2>4, <2>5, <2>6 DEF RunStep
<1>10. ASSUME NEW k \in Key, RequestStop(k) PROVE Goal
  <2>1. \A q \in Key : Steady(q) /\ ~memory'[q].stale
    BY <1>10 DEF RequestStop, Write, Record, Steady, LiveShown, TypeOK
  <2> QED BY <1>10, <2>1, <1>6 DEF RequestStop
<1>11. ASSUME NEW k \in Key, ReviewFindings(k) PROVE Goal
  <2>1. \A q \in Key : Steady(q) /\ ~memory'[q].stale
    BY <1>11, <1>1 DEF ReviewFindings
  <2> QED BY <1>11, <2>1, <1>6 DEF ReviewFindings
<1>12. ASSUME NEW k \in Key PROVE ~BeginRefresh(k) /\ ~EndRefresh /\ ~GoStale(k)
  BY <1>0, NothingToRefresh DEF GoStale, Apart
<1>13. CASE Restart
  <2>1. /\ \A k \in Key : ~memory'[k].stale
        /\ \A r \in Run : run'[r].at = "idle"
        /\ \A s \in Starter : starter'[s].at = "idle"
    BY <1>13 DEF Restart, Empty, NoRun, NoStart
  <2> QED BY <2>1 DEF LiveShown, NotYetLookedAt, LaunchesAlone, OneOperation, Live
<1>14. CASE UNCHANGED vars
  BY <1>14, <1>6, <1>7 DEF vars
<1> QED
  BY <1>4, <1>5, <1>8, <1>9, <1>10, <1>11, <1>12, <1>13, <1>14 DEF Next, Actor, Key

(* Requests that keep apart never work at once: at most one of checks scan,  *)
(* face matching and cleanup action works, whatever is stopped, reviewed,    *)
(* fails or restarts meanwhile.                                              *)
THEOREM OperationsAreAlone == Apart => (Spec => []OneOperation)
<1> SUFFICES ASSUME Apart PROVE Spec => []OneOperation
  OBVIOUS
<1>1. Init => LiveShown /\ NotYetLookedAt /\ LaunchesAlone /\ OneOperation
  BY DEF Init, LiveShown, NotYetLookedAt, LaunchesAlone, OneOperation, Live, Empty, NoRun, NoStart
<1>2. Spec => []OnlyRequested
  BY RequestedInvariant DEF Apart, NoRefresh
<1>21. ScanInv => NoStranger
  BY DEF ScanInv
<1>3. (/\ TypeOK /\ TypeOK' /\ OnlyRequested /\ NoStranger /\ [Next]_vars
       /\ LiveShown /\ NotYetLookedAt /\ LaunchesAlone /\ OneOperation)
      => LiveShown' /\ NotYetLookedAt' /\ LaunchesAlone' /\ OneOperation'
  BY ApartStep DEF ApartInv
<1> QED BY <1>1, <1>2, <1>21, <1>3, TypeCorrect, ScansInvariant, PTL DEF Spec
=============================================================================

------------------------- MODULE StateStore_proofs -------------------------
(***************************************************************************)
(* The store is atomic for any number of threads, tables and updates, with *)
(* failing reads and writes and with crashes, as long as one process has   *)
(* the database open.  SingleProcess is a premise of the theorems and not  *)
(* an assumption of the module: the repository ships tools that break it   *)
(* (see README).                                                           *)
(***************************************************************************)
EXTENDS StateStore, TLAPS

Holding == \A th \in Thread : pc[th] \in Critical => lock[ProcessOf[th]] = th

(* How the local snapshot of the thread in the critical section relates to   *)
(* the disk: this is what the lock is for.                                   *)
SnapshotOf(th) ==
  /\ pc[th] = "reading" => got[th] < Tables /\ \A t \in 1 .. got[th] : snap[th][t] = disk[t]
  /\ pc[th] = "read" => snap[th] = disk
  /\ pc[th] = "mutated" => call[th] \in Update /\ snap[th] = Mutated(disk, call[th])
  /\ pc[th] = "committed" => call[th] \in Update /\ \A t \in Touches[call[th]] : call[th] \in disk[t]
  /\ pc[th] \in {"idle", "waiting"} => got[th] = 0

Current == \A th \in Thread : SnapshotOf(th)

IInv == TypeOK /\ Holding /\ Current /\ NoLostUpdate /\ WholeUpdates

-----------------------------------------------------------------------------
LEMMA TableFacts == 1 \in Table /\ Tables \in Table /\ \A t \in Table : t \in Nat
BY StoreAssumption DEF Table

LEMMA MutatedFacts ==
  ASSUME NEW d \in Document, NEW u \in Update
  PROVE  /\ Mutated(d, u) \in Document
         /\ \A v \in Update, t \in Table : v \in d[t] => v \in Mutated(d, u)[t]
         /\ \A t \in Touches[u] : u \in Mutated(d, u)[t]
         /\ Whole(d) => Whole(Mutated(d, u))
         /\ \A v \in Update \ {u}, t \in Table : v \in Mutated(d, u)[t] => v \in d[t]
<1>1. Touches[u] \subseteq Table /\ Touches[u] # {}
  BY StoreAssumption
<1>2. Mutated(d, u) \in Document
  BY DEF Mutated, Document
<1>3. \A v \in Update, t \in Table : v \in d[t] => v \in Mutated(d, u)[t]
  BY DEF Mutated
<1>4. \A t \in Touches[u] : u \in Mutated(d, u)[t]
  BY <1>1 DEF Mutated
<1>5. \A v \in Update \ {u}, t \in Table : v \in Mutated(d, u)[t] => v \in d[t]
  BY DEF Mutated
<1>6. ASSUME Whole(d) PROVE Whole(Mutated(d, u))
  <2> SUFFICES ASSUME NEW v \in Update
               PROVE  \/ \A t \in Touches[v] : v \in Mutated(d, u)[t]
                      \/ \A t \in Table : v \notin Mutated(d, u)[t]
    BY DEF Whole
  <2>1. Touches[v] \subseteq Table
    BY StoreAssumption
  <2>2. CASE v = u
    BY <1>4, <2>2
  <2>3. CASE v # u
    BY <1>3, <1>5, <1>6, <2>1, <2>3 DEF Whole
  <2>4. QED
    BY <2>2, <2>3
<1>7. QED
  BY <1>2, <1>3, <1>4, <1>5, <1>6

LEMMA InitInv == Init => IInv
<1> SUFFICES ASSUME Init PROVE IInv
  OBVIOUS
<1>1. TypeOK
  BY StoreAssumption DEF Init, TypeOK, Empty, Document, Table, Critical
<1>2. QED
  BY <1>1 DEF Init, IInv, Holding, Current, SnapshotOf, NoLostUpdate, WholeUpdates, Whole, Empty,
              Critical

(* Two threads of one process are never both past Acquire. *)
LEMMA Exclusive ==
  ASSUME SingleProcess, TypeOK, Holding, NEW a \in Thread, NEW b \in Thread,
         pc[a] \in Critical, pc[b] \in Critical
  PROVE  a = b
BY DEF SingleProcess, TypeOK, Holding

LEMMA StepInv == SingleProcess /\ IInv /\ [Next]_svars => IInv'
<1> SUFFICES ASSUME SingleProcess, IInv, [Next]_svars PROVE IInv'
  OBVIOUS
<1> USE StoreAssumption, TableFacts DEF IInv
<1>1. ASSUME NEW th \in Thread, NEW u \in Update \cup {NoUpdate}, Call(th, u) PROVE IInv'
  <2>1. TypeOK'
    BY <1>1 DEF Call, TypeOK
  <2>2. Holding'
    BY <1>1 DEF Call, TypeOK, Holding, Critical
  <2>3. Current'
    BY <1>1 DEF Call, TypeOK, Current, SnapshotOf
  <2>4. QED
    BY <1>1, <2>1, <2>2, <2>3 DEF Call, NoLostUpdate, WholeUpdates
<1>2. ASSUME NEW th \in Thread, Acquire(th) PROVE IInv'
  <2>1. TypeOK'
    BY <1>2 DEF Acquire, TypeOK, Critical
  <2>2. Holding'
    BY <1>2 DEF Acquire, Free, TypeOK, Holding
  <2>3. Current'
    BY <1>2 DEF Acquire, TypeOK, Current, SnapshotOf
  <2>4. QED
    BY <1>2, <2>1, <2>2, <2>3 DEF Acquire, NoLostUpdate, WholeUpdates
<1>3. ASSUME NEW th \in Thread, ReadTable(th) PROVE IInv'
  <2>1. got[th] + 1 \in Table /\ got[th] + 1 \in 0 .. Tables
    BY <1>3 DEF ReadTable, TypeOK, Current, SnapshotOf, Table
  <2>2. TypeOK'
    BY <1>3, <2>1 DEF ReadTable, TypeOK, Document, Critical
  <2>3. Holding'
    BY <1>3 DEF ReadTable, TypeOK, Holding, Critical
  <2>4. SnapshotOf(th)'
    <3>1. /\ snap'[th] = [snap[th] EXCEPT ![got[th] + 1] = disk[got[th] + 1]]
          /\ got'[th] = got[th] + 1
          /\ disk' = disk
      BY <1>3 DEF ReadTable, TypeOK
    <3>2. \A t \in 1 .. got'[th] : snap'[th][t] = disk'[t]
      BY <1>3, <2>1, <3>1 DEF ReadTable, TypeOK, Document, Table, Current, SnapshotOf
    <3>3. CASE got[th] + 1 = Tables
      <4>1. pc'[th] = "read"
        BY <1>3, <3>3 DEF ReadTable, TypeOK
      <4>2. snap'[th] = disk'
        BY <2>2, <3>1, <3>2, <3>3 DEF TypeOK, Document, Table
      <4>3. QED
        BY <4>1, <4>2 DEF SnapshotOf
    <3>4. CASE got[th] + 1 # Tables
      <4>1. pc'[th] = "reading"
        BY <1>3, <3>4 DEF ReadTable
      <4>2. got'[th] < Tables
        BY <2>1, <3>1, <3>4
      <4>3. QED
        BY <3>2, <4>1, <4>2 DEF SnapshotOf
    <3>5. QED
      BY <3>3, <3>4
  <2>5. \A a \in Thread \ {th} : SnapshotOf(a)'
    BY <1>3 DEF ReadTable, TypeOK, Current, SnapshotOf
  <2>6. QED
    BY <1>3, <2>2, <2>3, <2>4, <2>5 DEF ReadTable, Current, NoLostUpdate, WholeUpdates
<1>4. ASSUME NEW th \in Thread, Mutate(th) PROVE IInv'
  <2>1. call[th] \in Update /\ snap[th] = disk /\ snap[th] \in Document
    BY <1>4 DEF Mutate, TypeOK, Current, SnapshotOf
  <2>2. snap'[th] = Mutated(disk, call[th])
    BY <1>4, <2>1 DEF Mutate, TypeOK
  <2>3. TypeOK'
    BY <1>4, <2>1, MutatedFacts DEF Mutate, TypeOK, Critical
  <2>4. Holding'
    BY <1>4 DEF Mutate, TypeOK, Holding, Critical
  <2>5. Current'
    BY <1>4, <2>1, <2>2 DEF Mutate, TypeOK, Current, SnapshotOf
  <2>6. QED
    BY <1>4, <2>3, <2>4, <2>5 DEF Mutate, NoLostUpdate, WholeUpdates
<1>5. ASSUME NEW th \in Thread, Commit(th) PROVE IInv'
  <2> DEFINE u == call[th]
  <2>1. u \in Update /\ disk \in Document /\ disk' = Mutated(disk, u)
    BY <1>5 DEF Commit, Written, TypeOK, Current, SnapshotOf
  <2>2. TypeOK'
    BY <1>5, <2>1, MutatedFacts DEF Commit, TypeOK, Critical
  <2>3. Holding'
    BY <1>5 DEF Commit, TypeOK, Holding, Critical
  <2>4. SnapshotOf(th)'
    BY <1>5, <2>1, MutatedFacts DEF Commit, TypeOK, SnapshotOf
  <2>5. \A a \in Thread \ {th} : pc[a] \notin Critical /\ pc'[a] = pc[a]
    BY <1>5, Exclusive DEF Commit, TypeOK, Critical
  <2>6. Current'
    BY <1>5, <2>4, <2>5 DEF Commit, Current, SnapshotOf, Critical
  <2>7. NoLostUpdate'
    BY <1>5, <2>1, MutatedFacts DEF Commit, NoLostUpdate, TypeOK
  <2>8. WholeUpdates'
    BY <2>1, MutatedFacts DEF WholeUpdates
  <2>9. QED
    BY <2>2, <2>3, <2>6, <2>7, <2>8
<1>6. ASSUME NEW th \in Thread, Return(th) \/ Abandon(th) PROVE IInv'
  <2>1. TypeOK' /\ disk' = disk
    <3>1. Empty \in Document /\ 0 \in 0 .. Tables
      BY DEF Empty, Document
    <3>2. Released(th)
      BY <1>6 DEF Return, Abandon
    <3>3. /\ lock' \in [Process -> Thread \cup {Nobody}]
          /\ pc' \in [Thread -> Critical \cup {"idle", "waiting"}]
          /\ call' \in [Thread -> Update \cup {NoUpdate}]
          /\ snap' \in [Thread -> Document]
          /\ got' \in [Thread -> 0 .. Tables]
      BY <3>1, <3>2 DEF Released, TypeOK
    <3>4. disk' = disk /\ called' = called /\ acked' \subseteq Update
      BY <1>6 DEF Return, Abandon, AckedAfter, TypeOK
    <3>5. QED
      BY <3>3, <3>4 DEF TypeOK
  <2>2. \A a \in Thread \ {th} : pc[a] \notin Critical
    BY <1>6, Exclusive DEF Return, Abandon, Critical
  <2>3. Holding'
    BY <1>6, <2>2 DEF Return, Abandon, Released, TypeOK, Holding, Critical
  <2>4. Current'
    BY <1>6 DEF Return, Abandon, Released, TypeOK, Current, SnapshotOf
  <2>5. NoLostUpdate'
    BY <1>6 DEF Return, Abandon, AckedAfter, Released, Current, SnapshotOf, NoLostUpdate
  <2>6. QED
    BY <2>1, <2>3, <2>4, <2>5 DEF WholeUpdates
<1>7. ASSUME NEW p \in Process, Crash(p) PROVE IInv'
  <2>1. TypeOK'
    BY <1>7 DEF Crash, TypeOK, Empty, Document
  <2>2. Holding'
    BY <1>7 DEF Crash, TypeOK, Holding, Critical
  <2>3. Current'
    BY <1>7 DEF Crash, TypeOK, Current, SnapshotOf
  <2>4. QED
    BY <1>7, <2>1, <2>2, <2>3 DEF Crash, NoLostUpdate, WholeUpdates
<1>8. CASE UNCHANGED svars
  BY <1>8 DEF svars, TypeOK, Holding, Current, SnapshotOf, NoLostUpdate, WholeUpdates
<1>9. QED
  BY <1>1, <1>2, <1>3, <1>4, <1>5, <1>6, <1>7, <1>8 DEF Next, Step

LEMMA Invariance == ASSUME SingleProcess PROVE Spec => []IInv
BY InitInv, StepInv, PTL DEF Spec

-----------------------------------------------------------------------------
(* With one process, the document, the locks and the calls keep their types. *)
THEOREM TypeCorrect == ASSUME SingleProcess PROVE Spec => []TypeOK
<1>1. IInv => TypeOK
  BY DEF IInv
<1>2. QED
  BY <1>1, Invariance, PTL

(* With one process, no acknowledged update is ever lost. *)
THEOREM NothingLost == ASSUME SingleProcess PROVE Spec => []NoLostUpdate
<1>1. IInv => NoLostUpdate
  BY DEF IInv
<1>2. QED
  BY <1>1, Invariance, PTL

(* With one process, an update is on disk as a whole or not at all. *)
THEOREM NothingTorn == ASSUME SingleProcess PROVE Spec => []WholeUpdates
<1>1. IInv => WholeUpdates
  BY DEF IInv
<1>2. QED
  BY <1>1, Invariance, PTL

(* With one process, every mutator and every finished read() works on a      *)
(* consistent document.                                                      *)
THEOREM ReadsAreWhole == ASSUME SingleProcess PROVE Spec => []WholeReads
<1>1. IInv => WholeReads
  BY DEF IInv, Current, SnapshotOf, WholeUpdates, WholeReads
<1>2. QED
  BY <1>1, Invariance, PTL

(* With one process the store is an atomic store: WorkerQueue's one action   *)
(* per update loses no behaviour of the lock, the reads or the failures.     *)
THEOREM StoreIsAtomic == ASSUME SingleProcess PROVE Spec => AtomicSpec
<1> USE StoreAssumption
<1>1. ASSUME Init PROVE Atomic!Init
  <2>1. ASSUME NEW u \in Update PROVE u \notin Applied
    <3>1. PICK t \in Touches[u] : t \in Table
      OBVIOUS
    <3>2. disk[t] = {}
      BY <1>1, <3>1 DEF Init, Empty
    <3>3. QED
      BY <3>1, <3>2 DEF Applied
  <2>2. Applied = {}
    BY <2>1 DEF Applied
  <2>3. QED
    BY <1>1, <2>2 DEF Init, Atomic!Init
<1>2. ASSUME IInv, [Next]_svars PROVE [Atomic!Next]_Atomic!avars
  <2>1. ASSUME NEW th \in Thread, Commit(th) PROVE [Atomic!Next]_Atomic!avars
    <3> DEFINE u == call[th]
    <3>1. u \in Update /\ disk \in Document /\ disk' = Mutated(disk, u) /\ acked' = acked
      BY <1>2, <2>1 DEF Commit, Written, IInv, TypeOK, Current, SnapshotOf
    <3>2. Applied' = Applied \cup {u}
      BY <3>1, MutatedFacts DEF Applied
    <3>3. CASE u \in Applied
      BY <3>1, <3>2, <3>3 DEF Atomic!avars
    <3>4. CASE u \notin Applied
      BY <3>1, <3>2, <3>4 DEF Atomic!Next, Atomic!Apply
    <3>5. QED
      BY <3>3, <3>4
  <2>2. ASSUME NEW th \in Thread, Return(th) PROVE [Atomic!Next]_Atomic!avars
    <3>1. Applied' = Applied
      BY <2>2 DEF Return, Applied
    <3>2. CASE pc[th] = "committed"
      <4>1. call[th] \in Applied /\ call[th] \in Update /\ call[th] # NoUpdate
        BY <1>2, <3>2 DEF IInv, Current, SnapshotOf, Applied
      <4>2. acked' = acked \cup {call[th]}
        BY <2>2, <4>1 DEF Return
      <4>3. QED
        BY <3>1, <4>1, <4>2 DEF Atomic!Next, Atomic!Acknowledge
    <3>3. CASE pc[th] # "committed"
      <4>1. acked' = acked
        BY <2>2, <3>3 DEF Return
      <4>2. QED
        BY <3>1, <4>1 DEF Atomic!avars
    <3>4. QED
      BY <3>2, <3>3
  <2>3. CASE UNCHANGED <<disk, acked>>
    BY <2>3 DEF Atomic!avars, Applied
  <2>4. QED
    BY <1>2, <2>1, <2>2, <2>3
    DEF Next, Step, svars, Call, Acquire, ReadTable, Mutate, Abandon, AckedAfter, Crash
<1>3. QED
  BY <1>1, <1>2, Invariance, PTL DEF Spec, AtomicSpec, Atomic!Spec
=============================================================================

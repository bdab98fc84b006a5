---------------------------- MODULE StateStore ----------------------------
(***************************************************************************)
(* WorkerStateStore: read-modify-write of a whole document kept in four    *)
(* SQLite tables.  update() holds one lock per database PATH AND PROCESS   *)
(* from the read to the commit.  The read is one SELECT per table, each    *)
(* its own SQLite read transaction; the write replaces all four tables in  *)
(* one transaction.                                                        *)
(*                                                                         *)
(* Threads belong to processes: the backend, and the command line tools    *)
(* (tools/worker-api-store.py, tools/create-worker-enrollment.py) that     *)
(* open the same database through the same class.                          *)
(*                                                                         *)
(* What an update writes is abstracted to a mark in each table it touches; *)
(* a mark that is missing afterwards is a lost update.                     *)
(***************************************************************************)
EXTENDS Integers

CONSTANTS
  Thread,
  Process,
  ProcessOf, \* Thread -> Process
  Tables,    \* number of tables, read in the order 1 .. Tables
  Update,    \* update calls
  Touches,   \* Update -> the tables its mutator changes
  NoUpdate,  \* what a read() call applies
  Nobody     \* no holder of a lock

Table == 1 .. Tables

ASSUME StoreAssumption ==
  /\ ProcessOf \in [Thread -> Process]
  /\ Tables \in Nat \ {0}
  /\ Touches \in [Update -> SUBSET Table]
  /\ \A u \in Update : Touches[u] # {}
  /\ NoUpdate \notin Update
  /\ Nobody \notin Thread

VARIABLES
  disk,   \* Table -> marks committed to it
  lock,   \* Process -> the thread that holds its lock
  pc,     \* Thread -> where its call stands
  call,   \* Thread -> the update it applies, NoUpdate for a read()
  snap,   \* Thread -> the document it has read and mutates
  got,    \* Thread -> how many tables it has read
  called, \* updates called so far
  acked   \* updates whose call returned normally

svars == <<disk, lock, pc, call, snap, got, called, acked>>

Document == [Table -> SUBSET Update]
Empty == [t \in Table |-> {}]

(* The points at which a call holds its process's lock. *)
Critical == {"reading", "read", "mutated", "committed"}

-----------------------------------------------------------------------------
Init ==
  /\ disk = Empty
  /\ lock = [p \in Process |-> Nobody]
  /\ pc = [th \in Thread |-> "idle"]
  /\ call = [th \in Thread |-> NoUpdate]
  /\ snap = [th \in Thread |-> Empty]
  /\ got = [th \in Thread |-> 0]
  /\ called = {}
  /\ acked = {}

(* A call of update(u), or of read() when u = NoUpdate. *)
Call(th, u) ==
  /\ pc[th] = "idle"
  /\ u \notin called
  /\ pc' = [pc EXCEPT ![th] = "waiting"]
  /\ call' = [call EXCEPT ![th] = u]
  /\ called' = called \cup ({u} \ {NoUpdate})
  /\ UNCHANGED <<disk, lock, snap, got, acked>>

(* with self._lock *)
FreeForReaders(th) == call[th] = NoUpdate \/ lock[ProcessOf[th]] = Nobody

FreeForAll(th) == TRUE

Free(th) == lock[ProcessOf[th]] = Nobody

Acquire(th) ==
  /\ pc[th] = "waiting"
  /\ Free(th)
  /\ lock' = [lock EXCEPT ![ProcessOf[th]] = th]
  /\ pc' = [pc EXCEPT ![th] = "reading"]
  /\ UNCHANGED <<disk, call, snap, got, called, acked>>

(* _read_sqlite_state: one SELECT. *)
ReadTable(th) ==
  LET t == got[th] + 1 IN
  /\ pc[th] = "reading"
  /\ snap' = [snap EXCEPT ![th] = [@ EXCEPT ![t] = disk[t]]]
  /\ got' = [got EXCEPT ![th] = t]
  /\ pc' = IF t = Tables THEN [pc EXCEPT ![th] = "read"] ELSE pc
  /\ UNCHANGED <<disk, lock, call, called, acked>>

(* mutator(state) *)
Mutated(d, u) == [t \in Table |-> IF t \in Touches[u] THEN d[t] \cup {u} ELSE d[t]]

Mutate(th) ==
  /\ pc[th] = "read"
  /\ call[th] # NoUpdate
  /\ snap' = [snap EXCEPT ![th] = Mutated(@, call[th])]
  /\ pc' = [pc EXCEPT ![th] = "mutated"]
  /\ UNCHANGED <<disk, lock, call, got, called, acked>>

(* _write_sqlite_state: every table deleted and inserted again, one commit.  *)
FirstTableOnly(d) == [disk EXCEPT ![1] = d[1]]

Written(d) == d

Commit(th) ==
  /\ pc[th] = "mutated"
  /\ disk' = Written(snap[th])
  /\ pc' = [pc EXCEPT ![th] = "committed"]
  /\ UNCHANGED <<lock, call, snap, got, called, acked>>

LeakedOnFailure(th) ==
  /\ lock' = IF pc[th] = "committed" THEN [lock EXCEPT ![ProcessOf[th]] = Nobody] ELSE lock
  /\ pc' = [pc EXCEPT ![th] = "idle"]
  /\ call' = [call EXCEPT ![th] = NoUpdate]
  /\ snap' = [snap EXCEPT ![th] = Empty]
  /\ got' = [got EXCEPT ![th] = 0]

(* Leaving update() or read() releases the lock and drops the locals.        *)
Released(th) ==
  /\ lock' = [lock EXCEPT ![ProcessOf[th]] = Nobody]
  /\ pc' = [pc EXCEPT ![th] = "idle"]
  /\ call' = [call EXCEPT ![th] = NoUpdate]
  /\ snap' = [snap EXCEPT ![th] = Empty]
  /\ got' = [got EXCEPT ![th] = 0]

(* The call returns normally: an update after its commit, a read when it has *)
(* every table.                                                              *)
Return(th) ==
  /\ pc[th] = "committed" \/ (pc[th] = "read" /\ call[th] = NoUpdate)
  /\ Released(th)
  /\ acked' = acked \cup ({call[th]} \ {NoUpdate})
  /\ UNCHANGED <<disk, called>>

(* The call ends without a write: a SELECT fails, the mutator raises or      *)
(* (update_if_changed) reports no change, or the transaction fails and is    *)
(* rolled back.  None of them is the acknowledgement of a write.             *)
AckedOnFailure(th) == acked \cup ({call[th]} \ {NoUpdate})

AckedAfter(th) == acked

Abandon(th) ==
  /\ pc[th] \in {"reading", "read", "mutated"}
  /\ Released(th)
  /\ acked' = AckedAfter(th)
  /\ UNCHANGED <<disk, called>>

(* A process dies: its threads and its lock are gone, an open transaction is *)
(* rolled back.                                                              *)
Crash(p) ==
  /\ \E th \in Thread : ProcessOf[th] = p /\ pc[th] # "idle"
  /\ lock' = [lock EXCEPT ![p] = Nobody]
  /\ pc' = [th \in Thread |-> IF ProcessOf[th] = p THEN "idle" ELSE pc[th]]
  /\ call' = [th \in Thread |-> IF ProcessOf[th] = p THEN NoUpdate ELSE call[th]]
  /\ snap' = [th \in Thread |-> IF ProcessOf[th] = p THEN Empty ELSE snap[th]]
  /\ got' = [th \in Thread |-> IF ProcessOf[th] = p THEN 0 ELSE got[th]]
  /\ UNCHANGED <<disk, called, acked>>

Step(th) ==
  Acquire(th) \/ ReadTable(th) \/ Mutate(th) \/ Commit(th) \/ Return(th) \/ Abandon(th)

Next ==
  \/ \E th \in Thread, u \in Update \cup {NoUpdate} : Call(th, u)
  \/ \E th \in Thread : Step(th)
  \/ \E p \in Process : Crash(p)

Spec == Init /\ [][Next]_svars

(* A thread inside a call is scheduled and its SQLite statements end (the     *)
(* busy timeout is 5 s): it takes its next step, whichever that is.           *)
FairSpec == Spec /\ \A th \in Thread : WF_svars(Step(th))

-----------------------------------------------------------------------------
(* Every variable has its type. *)
TypeOK ==
  /\ disk \in Document
  /\ lock \in [Process -> Thread \cup {Nobody}]
  /\ pc \in [Thread -> Critical \cup {"idle", "waiting"}]
  /\ call \in [Thread -> Update \cup {NoUpdate}]
  /\ snap \in [Thread -> Document]
  /\ got \in [Thread -> 0 .. Tables]
  /\ called \subseteq Update
  /\ acked \subseteq Update

Whole(d) == \A u \in Update :
  \/ \A t \in Touches[u] : u \in d[t]
  \/ \A t \in Table : u \notin d[t]

(* An update that was acknowledged is on disk, in every table it touched,    *)
(* and no later writer, failure or crash takes it away.                      *)
NoLostUpdate == \A u \in acked : \A t \in Touches[u] : u \in disk[t]

(* An update that touches several tables (an enrollment's redemption writes  *)
(* the token and spends the code) is on disk in all of them or in none.      *)
WholeUpdates == Whole(disk)

(* So is what a finished read() or an update's mutator sees, although every  *)
(* table is selected in a transaction of its own.                            *)
WholeReads == \A th \in Thread : pc[th] = "read" => Whole(snap[th])

(* Whatever fails inside a call, its process's lock is free again later.     *)
LockReleased == \A p \in Process : lock[p] # Nobody ~> lock[p] = Nobody

(* The calls of one process take effect one after the other.                 *)
Applied == {u \in Update : \A t \in Touches[u] : u \in disk[t]}

Atomic == INSTANCE AtomicStore WITH applied <- Applied

AtomicSpec == Atomic!Spec

(* The condition under which the above hold: the lock is per process.        *)
SingleProcess == \A a, b \in Thread : ProcessOf[a] = ProcessOf[b]
=============================================================================

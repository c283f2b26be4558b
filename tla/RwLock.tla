------------------------------- MODULE RwLock -------------------------------
(***************************************************************************)
(* The spinning readers-writer lock of rwlock.h, which protects the handle *)
(* table.  Each action is one access to the shared words read and write.   *)
(* HandleStorage takes the sections under this lock as atomic; this module *)
(* shows that they are.                                                    *)
(***************************************************************************)
EXTENDS Naturals, FiniteSets

CONSTANT Thread
ASSUME ThreadAssumption == IsFiniteSet(Thread)

VARIABLES
  write,   \* lock->write: a writer holds or awaits the lock
  read,    \* lock->read: readers inside, and readers about to back off
  at       \* where each thread is

lockVars == <<write, read, at>>

\* rwlock_init
LockInit ==
  /\ write = FALSE
  /\ read = 0
  /\ at = [t \in Thread |-> "idle"]

Step(t, from, to) == at[t] = from /\ at' = [at EXCEPT ![t] = to]

-----------------------------------------------------------------------------
(* rwlock_rlock and rwlock_runlock                                         *)

StartRead(t) == Step(t, "idle", "r_spin") /\ UNCHANGED <<write, read>>

\* while (lock->write) {}
ReadSpin(t) == ~ write /\ Step(t, "r_spin", "r_enter") /\ UNCHANGED <<write, read>>

ReadEnter(t) == Step(t, "r_enter", "r_check") /\ read' = read + 1 /\ UNCHANGED write

\* Mutant of ReadCheck: the second look at lock->write is left out.
ReadUnchecked(t) == Step(t, "r_check", "reading") /\ UNCHANGED <<write, read>>

\* if (lock->write): a writer came in between, the reader backs off.
ReadCheck(t) ==
  /\ Step(t, "r_check", IF write THEN "r_back" ELSE "reading")
  /\ UNCHANGED <<write, read>>

\* Mutant of ReadBack: the reader does not take its count back.
ReadBackKeeps(t) == Step(t, "r_back", "r_spin") /\ UNCHANGED <<write, read>>

ReadBack(t) == Step(t, "r_back", "r_spin") /\ read' = read - 1 /\ UNCHANGED write

ReadUnlock(t) == Step(t, "reading", "idle") /\ read' = read - 1 /\ UNCHANGED write

-----------------------------------------------------------------------------
(* rwlock_wlock and rwlock_wunlock                                         *)

StartWrite(t) == Step(t, "idle", "w_try") /\ UNCHANGED <<write, read>>

\* while (__sync_lock_test_and_set(&lock->write, 1)) {}
WriteTry(t) == ~ write /\ Step(t, "w_try", "w_drain") /\ write' = TRUE /\ UNCHANGED read

\* while (lock->read) {}
WriteDrain(t) == read = 0 /\ Step(t, "w_drain", "writing") /\ UNCHANGED <<write, read>>

WriteUnlock(t) == Step(t, "writing", "idle") /\ write' = FALSE /\ UNCHANGED read

-----------------------------------------------------------------------------
\* What a thread does inside a lock operation, or to leave its section.
Progress(t) ==
  \/ ReadSpin(t) \/ ReadEnter(t) \/ ReadCheck(t) \/ ReadBack(t) \/ ReadUnlock(t)
  \/ WriteTry(t) \/ WriteDrain(t) \/ WriteUnlock(t)

LockNext == \E t \in Thread : StartRead(t) \/ StartWrite(t) \/ Progress(t)

LockSpec == LockInit /\ [][LockNext]_lockVars

\* No thread stops for ever inside a lock operation or a section.
LockFairSpec == LockSpec /\ \A t \in Thread : WF_lockVars(Progress(t))

-----------------------------------------------------------------------------
Counted == {"r_check", "r_back", "reading"}
Writer  == {"w_drain", "writing"}

\* Type invariant.
LockTypeOK ==
  /\ write \in BOOLEAN
  /\ read \in Nat
  /\ at \in [Thread -> {"idle", "r_spin", "r_enter", "r_check", "r_back", "reading",
                        "w_try", "w_drain", "writing"}]

\* A writer is alone in the critical section (rwlock.h, read and write are
\* separate words and no operation looks at both atomically).
Exclusion ==
  \A t, u \in Thread : at[t] = "writing" /\ at[u] \in {"reading", "writing"} => t = u

\* lock->read counts the readers inside and those about to back off.
ReadersCounted == read = Cardinality({t \in Thread : at[t] \in Counted})

\* A writer that has the flag gets in, whatever the readers do.
WriterEnters ==
  \A t \in Thread : at[t] = "w_drain" ~> at[t] = "writing"
=============================================================================

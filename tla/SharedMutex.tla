----------------------------- MODULE SharedMutex -----------------------------
(***************************************************************************)
(* The reader-writer lock that the TCP server guards its node table with,  *)
(* in the form it has on Windows before C++14 (common/cpp11+/              *)
(* shared_mutex_cpp14.cpp): two semaphores and an interlocked count of the *)
(* readers.  Elsewhere the class is a pthread_rwlock_t or std::shared_mutex*)
(* and the modules of the server take it to be the lock they ask for.      *)
(*                                                                         *)
(* A thread runs through lock_shared and unlock_shared, or through lock    *)
(* and unlock, one call on a semaphore or on the counter a step.           *)
(***************************************************************************)
EXTENDS Naturals, FiniteSets

CONSTANTS Thread

ASSUME SharedMutexAssumption == IsFiniteSet(Thread)

VARIABLES
  lockPermanent,   \* m_lockPermanent: 1 when no one owns the lock
  semaNewConcurse, \* m_semaNewConcurse: 0 while a writer queues for it
  readersCount,    \* *m_plReadersCount
  pc               \* per thread: what it does next

lockVars == <<lockPermanent, semaNewConcurse, readersCount, pc>>

SemaphoreMax == 5  \* the limit both semaphores are created with

\* the threads whose next step is at label
At(label) == {t \in Thread : pc[t] = label}

\* The members stay well-typed; in particular both semaphores stay binary,
\* though they are created with a higher limit: no call posts one it has not
\* taken.
LockTypeOK ==
  /\ lockPermanent \in {0, 1} /\ semaNewConcurse \in {0, 1}
  /\ readersCount \in Nat
  /\ pc \in [Thread -> {"idle", "first", "next", "nextPost", "reading", "leaving",
                        "lock", "permanent", "lockPost", "writing"}]

\* the constructor and createSharedMutex
LockInit ==
  /\ lockPermanent = 1 /\ semaNewConcurse = 1
  /\ readersCount = 0
  /\ pc = [t \in Thread |-> "idle"]

\* t passes from one label to the next
Goto(t, from, to) == pc[t] = from /\ pc' = [pc EXCEPT ![t] = to]

\* WaitForSingleObject and ReleaseSemaphore on a semaphore of value s:
\* its next value, where the system leaves a full semaphore as it is
Taken(s) == s - 1
Posted(s) == IF s < SemaphoreMax THEN s + 1 ELSE s

-----------------------------------------------------------------------------
(* lock_shared *)

\* whether the value InterlockedIncrement returns sends a reader to
\* m_semaNewConcurse
EnterCount == readersCount + 1 > 1

lock_shared(t) ==
  /\ Goto(t, "idle", IF EnterCount THEN "next" ELSE "first")
  /\ readersCount' = readersCount + 1
  /\ UNCHANGED <<lockPermanent, semaNewConcurse>>

\* mutant: the wait is given no time, and its result is not looked at; a wait
\* that fails takes nothing
FirstReaderNoWait(t) ==
  /\ Goto(t, "first", "reading")
  /\ lockPermanent' = IF lockPermanent > 0 THEN Taken(lockPermanent) ELSE lockPermanent
  /\ UNCHANGED <<semaNewConcurse, readersCount>>

\* the first reader takes the lock for those that follow
FirstReader(t) ==
  /\ Goto(t, "first", "reading")
  /\ lockPermanent > 0 /\ lockPermanent' = Taken(lockPermanent)
  /\ UNCHANGED <<semaNewConcurse, readersCount>>

\* a later one waits for the writers that came before it
NextReader(t) ==
  /\ Goto(t, "next", "nextPost")
  /\ semaNewConcurse > 0 /\ semaNewConcurse' = Taken(semaNewConcurse)
  /\ UNCHANGED <<lockPermanent, readersCount>>

NextReaderPost(t) ==
  /\ Goto(t, "nextPost", "reading")
  /\ semaNewConcurse' = Posted(semaNewConcurse)
  /\ UNCHANGED <<lockPermanent, readersCount>>

(* unlock_shared *)

LastLeavesEarly == readersCount - 1 <= 1   \* mutant: off by one

\* whether the value InterlockedDecrement returns is that of the last reader
LastLeaves == readersCount - 1 = 0

unlock_shared(t) ==
  /\ Goto(t, "reading", IF LastLeaves THEN "leaving" ELSE "idle")
  /\ readersCount' = readersCount - 1
  /\ UNCHANGED <<lockPermanent, semaNewConcurse>>

LastReaderPost(t) ==
  /\ Goto(t, "leaving", "idle")
  /\ lockPermanent' = Posted(lockPermanent)
  /\ UNCHANGED <<semaNewConcurse, readersCount>>

-----------------------------------------------------------------------------
(* lock *)

lock(t) ==
  /\ Goto(t, "idle", "lock")
  /\ UNCHANGED <<lockPermanent, semaNewConcurse, readersCount>>

LockNewConcurse(t) ==
  /\ Goto(t, "lock", "permanent")
  /\ semaNewConcurse > 0 /\ semaNewConcurse' = Taken(semaNewConcurse)
  /\ UNCHANGED <<lockPermanent, readersCount>>

LockPermanent(t) ==
  /\ Goto(t, "permanent", "lockPost")
  /\ lockPermanent > 0 /\ lockPermanent' = Taken(lockPermanent)
  /\ UNCHANGED <<semaNewConcurse, readersCount>>

LockPost(t) ==
  /\ Goto(t, "lockPost", "writing")
  /\ semaNewConcurse' = Posted(semaNewConcurse)
  /\ UNCHANGED <<lockPermanent, readersCount>>

(* unlock *)

unlock(t) ==
  /\ Goto(t, "writing", "idle")
  /\ lockPermanent' = Posted(lockPermanent)
  /\ UNCHANGED <<semaNewConcurse, readersCount>>

LockNext ==
  \E t \in Thread :
    \/ lock_shared(t) \/ FirstReader(t) \/ NextReader(t) \/ NextReaderPost(t)
    \/ unlock_shared(t) \/ LastReaderPost(t)
    \/ lock(t) \/ LockNewConcurse(t) \/ LockPermanent(t) \/ LockPost(t)
    \/ unlock(t)

LockSpec == LockInit /\ [][LockNext]_lockVars

-----------------------------------------------------------------------------
(* Properties *)

\* lock() lets one writer in at a time, whatever the readers do.  A reader is
\* inside beside a writer only while the first reader of its group still
\* waits for m_lockPermanent: lock_shared sends the readers after the first
\* past m_semaNewConcurse without asking whether the first is in.  Once it
\* is in, writers stay out until unlock_shared of the last reader.
ExclusionButBehindFirst ==
  /\ \A t, u \in At("writing") : t = u
  /\ At("writing") # {} /\ At("reading") # {} => At("first") # {}
=============================================================================

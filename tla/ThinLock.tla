------------------------------ MODULE ThinLock ------------------------------
(***************************************************************************)
(* The thin locks of jslock.c, compiled with the compare-and-swap variants *)
(* (Windows, Solaris, AIX): js_Lock, js_Unlock, js_Enqueue, js_Dequeue,    *)
(* js_SuspendThread, js_ResumeThread and emptyFatlock, for a set of thin   *)
(* locks that share the process-wide pool of fat locks.                    *)
(*                                                                         *)
(* One step of a thread is one access to a shared word (a compare-and-swap,*)
(* an atomic exchange, a read of p->owner) or one critical section of the  *)
(* NSPR lock fl->slock.  A program counter names the point in the C code.  *)
(*                                                                         *)
(* A lock word is a record: who owns the lock and the wait bit (the least  *)
(* significant bit of the word).  p->fat is NULL (here NoFat), a fat lock, *)
(* or the integer 1 (here Busy).                                           *)
(***************************************************************************)
EXTENDS Integers, FiniteSets

CONSTANTS
  Threads,   \* the threads that use the locks
  Locks,     \* the JSThinLocks
  FatLocks,  \* the JSFatLocks of _fl_table, free or taken (bound of the pool)
  NoThread,  \* the 0 of an unowned lock word
  NoLock,    \* a thread between two uses of a lock
  NoFat,     \* p->fat == NULL
  Busy       \* p->fat == 1: somebody is working on the pointer

ASSUME ThinLockAssumption ==
  /\ NoThread \notin Threads
  /\ NoLock \notin Locks
  /\ NoFat \notin FatLocks
  /\ Busy \notin FatLocks
  /\ NoFat # Busy

VARIABLES
  owner,    \* owner[p]: the lock word of p
  fat,      \* fat[p]: the p->fat word
  susp,     \* susp[f]: fl->susp
  slock,    \* slock[f]: the thread that holds the NSPR lock fl->slock
  waiters,  \* waiters[f]: threads in PR_WaitCondVar(fl->svar), not notified
  free,     \* the fat locks on _fl_table.free
  pc,       \* where each thread is
  lk,       \* the lock each thread works on
  oldword,  \* local o of js_Enqueue and js_Dequeue
  fl,       \* local fl
  meWait    \* the wait bit of js_Enqueue's parameter me

vars == <<owner, fat, susp, slock, waiters, free, pc, lk, oldword, fl, meWait>>
-----------------------------------------------------------------------------
Word == [who : Threads \cup {NoThread}, wait : BOOLEAN]
Unlocked == [who |-> NoThread, wait |-> FALSE]
Mine(t) == [who |-> t, wait |-> FALSE]
Thin_SetWait(w) == [w EXCEPT !.wait = TRUE]

\* Points at which the thread owns its lock.
Holding == {"critical", "unlock_cas", "deq_read", "deq_cas"}

\* Points at which the thread is about to exchange p->fat with 1.
Grabbing == {"enq_grab", "sus_grab", "emp_grab", "res_grab"}

\* Points at which p->fat is 1 because of this thread.
Accessing == {"enq_put", "sus_lock", "sus_put", "emp_null", "emp_lock",
              "emp_check", "emp_put", "res_lock", "res_put"}

\* Points at which the thread's local fl is a fat lock.
UsingFat == {"enq_put", "sus_lock", "sus_put", "sus_wait", "asleep", "emp_lock",
             "emp_check", "emp_put", "emp_unlock", "res_lock", "res_put",
             "res_notify"}

PCs == {"idle", "lock_cas", "enq_read", "enq_setwait", "enq_cas", "sus_wait",
        "asleep", "emp_unlock", "res_notify", "assert"}
       \cup Holding \cup Grabbing \cup Accessing

TypeOK ==
  /\ owner \in [Locks -> Word]
  /\ fat \in [Locks -> FatLocks \cup {NoFat, Busy}]
  /\ susp \in [FatLocks -> Int]
  /\ slock \in [FatLocks -> Threads \cup {NoThread}]
  /\ waiters \in [FatLocks -> SUBSET Threads]
  /\ free \in SUBSET FatLocks
  /\ pc \in [Threads -> PCs]
  /\ lk \in [Threads -> Locks \cup {NoLock}]
  /\ \A t \in Threads : pc[t] # "idle" => lk[t] \in Locks
  /\ oldword \in [Threads -> Word]
  /\ fl \in [Threads -> FatLocks \cup {NoFat}]
  /\ \A t \in Threads : pc[t] \in UsingFat => fl[t] \in FatLocks
  /\ meWait \in [Threads -> BOOLEAN]

Init ==
  /\ owner = [p \in Locks |-> Unlocked]
  /\ fat = [p \in Locks |-> NoFat]
  /\ susp = [f \in FatLocks |-> 0]
  /\ slock = [f \in FatLocks |-> NoThread]
  /\ waiters = [f \in FatLocks |-> {}]
  /\ free = FatLocks
  /\ pc = [t \in Threads |-> "idle"]
  /\ lk = [t \in Threads |-> NoLock]
  /\ oldword = [t \in Threads |-> Unlocked]
  /\ fl = [t \in Threads |-> NoFat]
  /\ meWait = [t \in Threads |-> FALSE]

Goto(t, from, to) == pc[t] = from /\ pc' = [pc EXCEPT ![t] = to]

\* Mutant: the exchange's result is not compared with 1.
GrabFatAnyway(t) == fat' = [fat EXCEPT ![lk[t]] = Busy]

\* js_AtomicSet(&p->fat, 1) that does not find 1 there; the old value is in fl.
GrabFat(t) ==
  /\ fat[lk[t]] # Busy
  /\ fat' = [fat EXCEPT ![lk[t]] = Busy]

PutFat(t, f) == fat' = [fat EXCEPT ![lk[t]] = f]

\* PR_Lock(fl->slock) and PR_Unlock(fl->slock).
AcquireSlock(t) ==
  /\ slock[fl[t]] = NoThread
  /\ slock' = [slock EXCEPT ![fl[t]] = t]
ReleaseSlock(t) == slock' = [slock EXCEPT ![fl[t]] = NoThread]

fatVars == <<susp, slock, waiters, free>>
-----------------------------------------------------------------------------
(***************************************************************************)
(* js_Lock: one compare-and-swap when nobody has the lock; the check of    *)
(* the word that follows a failure finds a recursive call, which fails an  *)
(* assertion.                                                              *)
(***************************************************************************)
CallLock(t, p) ==
  /\ Goto(t, "idle", "lock_cas")
  /\ lk' = [lk EXCEPT ![t] = p]
  /\ UNCHANGED <<owner, fat, oldword, fl, meWait, fatVars>>

\* Mutant: the word is tested and stored without a compare-and-swap.
LockFastStore(t) ==
  /\ Goto(t, "lock_cas", "critical")
  /\ owner' = [owner EXCEPT ![lk[t]] = Mine(t)]
  /\ UNCHANGED <<fat, lk, oldword, fl, meWait, fatVars>>

LockFast(t) ==
  /\ Goto(t, "lock_cas", "critical")
  /\ owner[lk[t]] = Unlocked
  /\ owner' = [owner EXCEPT ![lk[t]] = Mine(t)]
  /\ UNCHANGED <<fat, lk, oldword, fl, meWait, fatVars>>

LockContended(t) ==
  /\ Goto(t, "lock_cas", IF owner[lk[t]].who # t THEN "enq_read" ELSE "assert")
  /\ owner[lk[t]] # Unlocked
  /\ meWait' = [meWait EXCEPT ![t] = FALSE]
  /\ UNCHANGED <<owner, fat, lk, oldword, fl, fatVars>>

(***************************************************************************)
(* js_Enqueue: set the wait bit and suspend, or take a free lock; in a     *)
(* loop, with the wait bit kept in me when others are still suspended.     *)
(***************************************************************************)
EnqRead(t) ==
  LET o == owner[lk[t]] IN
  /\ Goto(t, "enq_read", IF o # Unlocked THEN "enq_setwait" ELSE "enq_cas")
  /\ oldword' = [oldword EXCEPT ![t] = o]
  /\ UNCHANGED <<owner, fat, lk, fl, meWait, fatVars>>

\* Mutant: the wait bit is stored without a compare-and-swap.
EnqSetWaitStore(t) ==
  /\ Goto(t, "enq_setwait", "enq_grab")
  /\ owner' = [owner EXCEPT ![lk[t]] = Thin_SetWait(oldword[t])]
  /\ oldword' = [oldword EXCEPT ![t] = Unlocked]
  /\ UNCHANGED <<fat, lk, fl, meWait, fatVars>>

EnqSetWait(t) ==
  /\ pc[t] = "enq_setwait"
  /\ IF owner[lk[t]] = oldword[t]
     THEN /\ Goto(t, "enq_setwait", "enq_grab")
          /\ owner' = [owner EXCEPT ![lk[t]] = Thin_SetWait(oldword[t])]
     ELSE /\ Goto(t, "enq_setwait", "enq_cas")
          /\ UNCHANGED owner
  /\ oldword' = [oldword EXCEPT ![t] = Unlocked]
  /\ UNCHANGED <<fat, lk, fl, meWait, fatVars>>

\* Mutant: the word read before is trusted to be still 0.
EnqCasStale(t) ==
  /\ Goto(t, "enq_cas", IF oldword[t] = Unlocked THEN "critical" ELSE "enq_read")
  /\ oldword[t] = Unlocked =>
       owner' = [owner EXCEPT ![lk[t]] = [who |-> t, wait |-> meWait[t]]]
  /\ oldword[t] # Unlocked => owner' = owner
  /\ meWait' = [meWait EXCEPT ![t] = FALSE]
  /\ UNCHANGED <<fat, lk, oldword, fl, fatVars>>

EnqCas(t) ==
  /\ pc[t] = "enq_cas"
  /\ IF owner[lk[t]] = Unlocked
     THEN /\ Goto(t, "enq_cas", "critical")
          /\ owner' = [owner EXCEPT ![lk[t]] = [who |-> t, wait |-> meWait[t]]]
          /\ meWait' = [meWait EXCEPT ![t] = FALSE]
     ELSE /\ Goto(t, "enq_cas", "enq_read")
          /\ UNCHANGED <<owner, meWait>>
  /\ UNCHANGED <<fat, lk, oldword, fl, fatVars>>

\* allocateFatlock resets susp; an existing fat lock is reused as it is.
EnqGrab(t) ==
  /\ Goto(t, "enq_grab", "enq_put")
  /\ GrabFat(t)
  /\ \/ /\ fat[lk[t]] # NoFat
        /\ fl' = [fl EXCEPT ![t] = fat[lk[t]]]
        /\ UNCHANGED <<susp, free>>
     \/ /\ fat[lk[t]] = NoFat
        /\ \E m \in free :
             /\ free' = free \ {m}
             /\ susp' = [susp EXCEPT ![m] = 0]
             /\ fl' = [fl EXCEPT ![t] = m]
  /\ UNCHANGED <<owner, lk, oldword, meWait, slock, waiters>>

EnqPut(t) ==
  /\ Goto(t, "enq_put", "sus_grab")
  /\ PutFat(t, fl[t])
  /\ fl' = [fl EXCEPT ![t] = NoFat]
  /\ UNCHANGED <<owner, lk, oldword, meWait, fatVars>>

(***************************************************************************)
(* js_SuspendThread, called by js_Enqueue only.  When p->fat was NULL the  *)
(* function returns and p->fat stays 1.                                    *)
(***************************************************************************)
SuspendGrab(t) ==
  LET f == fat[lk[t]] IN
  /\ Goto(t, "sus_grab", IF f = NoFat THEN "emp_grab" ELSE "sus_lock")
  /\ GrabFat(t)
  /\ fl' = [fl EXCEPT ![t] = f]
  /\ UNCHANGED <<owner, lk, oldword, meWait, fatVars>>

SuspendLock(t) ==
  /\ Goto(t, "sus_lock", "sus_put")
  /\ AcquireSlock(t)
  /\ UNCHANGED <<owner, fat, lk, oldword, fl, meWait, susp, waiters, free>>

SuspendPut(t) ==
  /\ Goto(t, "sus_put", "sus_wait")
  /\ PutFat(t, fl[t])
  /\ UNCHANGED <<owner, lk, oldword, fl, meWait, fatVars>>

\* susp++, then PR_WaitCondVar unless a resume came first.
SuspendWait(t) ==
  /\ pc[t] = "sus_wait"
  /\ susp' = [susp EXCEPT ![fl[t]] = @ + 1]
  /\ ReleaseSlock(t)
  /\ IF susp[fl[t]] + 1 < 1
     THEN /\ Goto(t, "sus_wait", "emp_grab")
          /\ fl' = [fl EXCEPT ![t] = NoFat]
          /\ UNCHANGED waiters
     ELSE /\ Goto(t, "sus_wait", "asleep")
          /\ waiters' = [waiters EXCEPT ![fl[t]] = @ \cup {t}]
          /\ UNCHANGED fl
  /\ UNCHANGED <<owner, fat, lk, oldword, meWait, free>>

\* PR_WaitCondVar returns with fl->slock, which is released at once.
SuspendWake(t) ==
  /\ Goto(t, "asleep", "emp_grab")
  /\ t \notin waiters[fl[t]]
  /\ slock[fl[t]] = NoThread
  /\ fl' = [fl EXCEPT ![t] = NoFat]
  /\ UNCHANGED <<owner, fat, lk, oldword, meWait, fatVars>>

(***************************************************************************)
(* emptyFatlock, called by js_Enqueue only: give the fat lock back when    *)
(* nobody is suspended on it; the result tells js_Enqueue whether to keep  *)
(* the wait bit in me.                                                     *)
(***************************************************************************)
EmptyGrab(t) ==
  LET f == fat[lk[t]] IN
  /\ Goto(t, "emp_grab", IF f = NoFat THEN "emp_null" ELSE "emp_lock")
  /\ GrabFat(t)
  /\ fl' = [fl EXCEPT ![t] = f]
  /\ UNCHANGED <<owner, lk, oldword, meWait, fatVars>>

EmptyNull(t) ==
  /\ Goto(t, "emp_null", "enq_read")
  /\ PutFat(t, NoFat)
  /\ meWait' = [meWait EXCEPT ![t] = FALSE]
  /\ UNCHANGED <<owner, lk, oldword, fl, fatVars>>

EmptyLock(t) ==
  /\ Goto(t, "emp_lock", "emp_check")
  /\ AcquireSlock(t)
  /\ UNCHANGED <<owner, fat, lk, oldword, fl, meWait, susp, waiters, free>>

\* The test of susp and deallocateFatlock; meWait holds the result.
EmptyCheck(t) ==
  LET empty == susp[fl[t]] < 1 IN
  /\ Goto(t, "emp_check", "emp_put")
  /\ meWait' = [meWait EXCEPT ![t] = ~empty]
  /\ susp' = IF empty THEN [susp EXCEPT ![fl[t]] = -1] ELSE susp
  /\ free' = IF empty THEN free \cup {fl[t]} ELSE free
  /\ UNCHANGED <<owner, fat, lk, oldword, fl, slock, waiters>>

\* Mutant: the lock keeps pointing to the fat lock it has given back.
EmptyPutBack(t) ==
  /\ Goto(t, "emp_put", "emp_unlock")
  /\ PutFat(t, fl[t])
  /\ UNCHANGED <<owner, lk, oldword, fl, meWait, fatVars>>

EmptyPut(t) ==
  /\ Goto(t, "emp_put", "emp_unlock")
  /\ PutFat(t, IF meWait[t] THEN fl[t] ELSE NoFat)
  /\ UNCHANGED <<owner, lk, oldword, fl, meWait, fatVars>>

EmptyUnlock(t) ==
  /\ Goto(t, "emp_unlock", "enq_read")
  /\ ReleaseSlock(t)
  /\ fl' = [fl EXCEPT ![t] = NoFat]
  /\ UNCHANGED <<owner, fat, lk, oldword, meWait, susp, waiters, free>>

(***************************************************************************)
(* js_Unlock, js_Dequeue and js_ResumeThread.  When p->fat was NULL        *)
(* js_ResumeThread returns and p->fat stays 1.                             *)
(***************************************************************************)
CallUnlock(t) ==
  /\ Goto(t, "critical", "unlock_cas")
  /\ UNCHANGED <<owner, fat, lk, oldword, fl, meWait, fatVars>>

UnlockFast(t) ==
  /\ Goto(t, "unlock_cas", "idle")
  /\ owner[lk[t]] = Mine(t)
  /\ owner' = [owner EXCEPT ![lk[t]] = Unlocked]
  /\ lk' = [lk EXCEPT ![t] = NoLock]
  /\ UNCHANGED <<fat, oldword, fl, meWait, fatVars>>

UnlockContended(t) ==
  /\ Goto(t, "unlock_cas", IF owner[lk[t]].who = t THEN "deq_read" ELSE "assert")
  /\ owner[lk[t]] # Mine(t)
  /\ UNCHANGED <<owner, fat, lk, oldword, fl, meWait, fatVars>>

DeqRead(t) ==
  LET o == owner[lk[t]] IN
  /\ Goto(t, "deq_read", IF o.wait THEN "deq_cas" ELSE "assert")
  /\ oldword' = [oldword EXCEPT ![t] = o]
  /\ UNCHANGED <<owner, fat, lk, fl, meWait, fatVars>>

DeqCas(t) ==
  /\ pc[t] = "deq_cas"
  /\ IF owner[lk[t]] = oldword[t]
     THEN /\ Goto(t, "deq_cas", "res_grab")
          /\ owner' = [owner EXCEPT ![lk[t]] = Unlocked]
     ELSE /\ Goto(t, "deq_cas", "assert")
          /\ UNCHANGED owner
  /\ oldword' = [oldword EXCEPT ![t] = Unlocked]
  /\ UNCHANGED <<fat, lk, fl, meWait, fatVars>>

ResumeGrab(t) ==
  LET f == fat[lk[t]] IN
  /\ Goto(t, "res_grab", IF f = NoFat THEN "idle" ELSE "res_lock")
  /\ GrabFat(t)
  /\ fl' = [fl EXCEPT ![t] = f]
  /\ lk' = IF f = NoFat THEN [lk EXCEPT ![t] = NoLock] ELSE lk
  /\ UNCHANGED <<owner, oldword, meWait, fatVars>>

ResumeLock(t) ==
  /\ Goto(t, "res_lock", "res_put")
  /\ AcquireSlock(t)
  /\ UNCHANGED <<owner, fat, lk, oldword, fl, meWait, susp, waiters, free>>

ResumePut(t) ==
  /\ Goto(t, "res_put", "res_notify")
  /\ PutFat(t, fl[t])
  /\ UNCHANGED <<owner, lk, oldword, fl, meWait, fatVars>>

\* Mutant: the resume that finds exactly one suspended thread is forgotten.
ResumeNotifyOthers(t) ==
  LET W == waiters[fl[t]] IN
  /\ Goto(t, "res_notify", "idle")
  /\ susp' = [susp EXCEPT ![fl[t]] = @ - 1]
  /\ IF susp[fl[t]] - 1 <= 0 \/ W = {}
     THEN UNCHANGED waiters
     ELSE \E u \in W : waiters' = [waiters EXCEPT ![fl[t]] = W \ {u}]
  /\ ReleaseSlock(t)
  /\ fl' = [fl EXCEPT ![t] = NoFat]
  /\ lk' = [lk EXCEPT ![t] = NoLock]
  /\ UNCHANGED <<owner, fat, oldword, meWait, free>>

\* susp--, then PR_NotifyCondVar unless nobody was suspended.
ResumeNotify(t) ==
  LET W == waiters[fl[t]] IN
  /\ Goto(t, "res_notify", "idle")
  /\ susp' = [susp EXCEPT ![fl[t]] = @ - 1]
  /\ IF susp[fl[t]] - 1 < 0 \/ W = {}
     THEN UNCHANGED waiters
     ELSE \E u \in W : waiters' = [waiters EXCEPT ![fl[t]] = W \ {u}]
  /\ ReleaseSlock(t)
  /\ fl' = [fl EXCEPT ![t] = NoFat]
  /\ lk' = [lk EXCEPT ![t] = NoLock]
  /\ UNCHANGED <<owner, fat, oldword, meWait, free>>

\* PR_Sleep while somebody else works on p->fat.
BusyWait(t) ==
  /\ pc[t] \in Grabbing
  /\ fat[lk[t]] = Busy
  /\ UNCHANGED vars
-----------------------------------------------------------------------------
Enqueue(t) == EnqRead(t) \/ EnqSetWait(t) \/ EnqCas(t) \/ EnqGrab(t) \/ EnqPut(t)
SuspendThread(t) == \/ SuspendGrab(t) \/ SuspendLock(t) \/ SuspendPut(t)
                    \/ SuspendWait(t) \/ SuspendWake(t)
EmptyFatlock(t) == \/ EmptyGrab(t) \/ EmptyNull(t) \/ EmptyLock(t)
                   \/ EmptyCheck(t) \/ EmptyPut(t) \/ EmptyUnlock(t)
Unlock(t) == UnlockFast(t) \/ UnlockContended(t) \/ DeqRead(t) \/ DeqCas(t)
ResumeThread(t) == \/ ResumeGrab(t) \/ ResumeLock(t) \/ ResumePut(t)
                   \/ ResumeNotify(t)

\* The steps of the lock's own code, which a scheduled thread always takes.
LockCode(t) ==
  \/ LockFast(t) \/ LockContended(t)
  \/ Enqueue(t) \/ SuspendThread(t) \/ EmptyFatlock(t)
  \/ Unlock(t) \/ ResumeThread(t) \/ BusyWait(t)

Next == \E t \in Threads :
  \/ \E p \in Locks : CallLock(t, p)
  \/ CallUnlock(t)
  \/ LockCode(t)

Spec == Init /\ [][Next]_vars

(***************************************************************************)
(* Fairness: the operating system runs every thread, and the callers of    *)
(* the lock release it.                                                    *)
(***************************************************************************)
Fairness == \A t \in Threads : WF_vars(LockCode(t)) /\ WF_vars(CallUnlock(t))
FairSpec == Spec /\ Fairness
-----------------------------------------------------------------------------
\* No two threads are inside one lock, and the lock word names the thread
\* that is: js_Unlock never finds another thread's name (jslock.c:642).
MutualExclusion ==
  \A p \in Locks, t \in Threads :
    owner[p].who = t <=> (lk[t] = p /\ pc[t] \in Holding)

\* The assertions of js_Lock, js_Unlock and js_Dequeue hold: a contended
\* release finds the wait bit, and its compare-and-swap cannot fail although
\* other threads keep setting that bit (jslock.c:607-609).
AssertionsHold == \A t \in Threads : pc[t] # "assert"

\* The lock words implement abstract locks: a contended, queued or resumed
\* thread enters only a free lock, and only the thread inside opens it.
Abstract == INSTANCE Mutex WITH holder <- [p \in Locks |-> owner[p].who]
ImplementsMutex == Abstract!Spec

Asleep(t) == pc[t] = "asleep" /\ t \in waiters[fl[t]]

\* "If other threads still are waiting, the wait bit is kept (in js_Enqueue)"
\* (jslock.c:568): when a thread sleeps on a lock, its word has the wait bit,
\* or a thread that is to resume the sleeper, or to take the lock or set the
\* bit again, is on its way.
OnItsWay == {"enq_read", "enq_setwait", "enq_cas", "emp_grab", "emp_null",
             "emp_lock", "emp_check", "emp_put", "emp_unlock", "asleep",
             "res_grab", "res_lock", "res_put", "res_notify"}
NoLostWakeup ==
  \A t \in Threads : Asleep(t) =>
    \/ owner[lk[t]].wait
    \/ \E u \in Threads : lk[u] = lk[t] /\ pc[u] \in OnItsWay /\ ~Asleep(u)

\* A thread suspended on a lock is woken: the owner it waits for releases the
\* lock through js_Dequeue, and the resume cannot miss the thread although it
\* may come before, while or after the thread suspends (jslock.c:549-551).
SleeperWakes == \A t \in Threads : Asleep(t) ~> ~Asleep(t)

\* A fat lock is never recycled under a thread that sleeps on it: it stays
\* off the free list and the lock's fat word leads to it, or is being worked
\* on (jslock.c:494-510).
SleeperKeepsFatLock ==
  \A t \in Threads :
    Asleep(t) => fl[t] \notin free /\ fat[lk[t]] \in {fl[t], Busy}

\* One fat lock serves one thin lock at a time, whichever of the threads that
\* enqueue, suspend, empty and resume on either lock had it last.
FatLockUnshared ==
  \A p, q \in Locks : p # q /\ fat[p] = fat[q] => fat[p] \in {NoFat, Busy}

\* The fat locks as a whole: nobody sleeps on one that another thin lock or
\* the pool has.
FatLocksSound == SleeperKeepsFatLock /\ FatLockUnshared

\* "p->fat is set to 1 by enqueue and emptyFatlock to signal that the
\* pointer is being accessed" (jslock.c:571): while it is 1 some thread is
\* working on it.  The code does not keep this: SuspendGrab and ResumeGrab
\* leave it at 1 when they find NULL.
BusyMeansAccessed ==
  \A p \in Locks : fat[p] = Busy =>
    \E t \in Threads : lk[t] = p /\ pc[t] \in Accessing
=============================================================================

--------------------------- MODULE ThinLockProofs ---------------------------
(***************************************************************************)
(* Proofs about ThinLock, for every set of threads, locks and fat locks:   *)
(* the lock words give mutual exclusion, implement the abstract locks of   *)
(* Mutex, and the assertions of js_Lock, js_Unlock and js_Dequeue hold.    *)
(*                                                                         *)
(* The types are inductive.  Mutual exclusion is inductive together with   *)
(* what a thread inside js_Dequeue has read: its word has the wait bit,    *)
(* and nobody changes the word any more, because a word that has the bit   *)
(* changes only when its owner opens the lock.                             *)
(*                                                                         *)
(* For the fat locks the invariant says where each one is (FatInv).        *)
(***************************************************************************)
EXTENDS ThinLock, FiniteSetTheorems, TLAPS

LEMMA WordFacts ==
  /\ Unlocked \in Word
  /\ \A t \in Threads, b \in BOOLEAN : [who |-> t, wait |-> b] \in Word
  /\ \A t \in Threads : Mine(t) \in Word
  /\ \A w \in Word : /\ Thin_SetWait(w) \in Word
                     /\ Thin_SetWait(w).who = w.who
                     /\ Thin_SetWait(w).wait = TRUE
BY DEF Word, Unlocked, Mine, Thin_SetWait

\* A word with the wait bit is not changed by setting it again, and a word that
\* is owned by t and is not just t's name has the wait bit.
LEMMA WaitBit ==
  ASSUME NEW w \in Word
  PROVE  /\ w.wait => Thin_SetWait(w) = w
         /\ \A t \in Threads : w.who = t /\ w # Mine(t) => w.wait
<1>1. w = [who |-> w.who, wait |-> w.wait] /\ w.wait \in BOOLEAN
  BY DEF Word
<1>2. ASSUME w.wait PROVE Thin_SetWait(w) = w
  <2>1. w.wait = TRUE
    BY <1>2, <1>1
  <2>2. w = [who |-> w.who, wait |-> TRUE]
    BY <2>1, <1>1
  <2> QED
    BY <2>2 DEF Thin_SetWait, Word
<1>3. ASSUME NEW t \in Threads, w.who = t, ~w.wait PROVE w = Mine(t)
  <2>1. w.wait = FALSE
    BY <1>3, <1>1
  <2> QED
    BY <2>1, <1>1, <1>3 DEF Mine
<1> QED
  BY <1>2, <1>3

(***************************************************************************)
(* Types.                                                                  *)
(***************************************************************************)
LEMMA TypeInit == Init => TypeOK
BY WordFacts, ThinLockAssumption
DEF Init, TypeOK, PCs, UsingFat

LEMMA TypeStep == TypeOK /\ [Next]_vars => TypeOK'
<1> SUFFICES ASSUME TypeOK, [Next]_vars PROVE TypeOK'
  OBVIOUS
<1> USE ThinLockAssumption
<1> USE DEF PCs, Holding, Grabbing, Accessing, UsingFat, Goto, fatVars
<1>1. ASSUME NEW t \in Threads, NEW p \in Locks, CallLock(t, p) PROVE TypeOK'
  BY <1>1, WordFacts DEF CallLock, TypeOK
<1>2. ASSUME NEW t \in Threads, CallUnlock(t) PROVE TypeOK'
  BY <1>2, WordFacts DEF CallUnlock, TypeOK
<1>3. ASSUME NEW t \in Threads, LockFast(t) PROVE TypeOK'
  BY <1>3, WordFacts DEF LockFast, Mine, TypeOK
<1>4. ASSUME NEW t \in Threads, LockContended(t) PROVE TypeOK'
  BY <1>4, WordFacts DEF LockContended, TypeOK
<1>5. ASSUME NEW t \in Threads, EnqRead(t) PROVE TypeOK'
  BY <1>5, WordFacts DEF EnqRead, TypeOK
<1>6. ASSUME NEW t \in Threads, EnqSetWait(t) PROVE TypeOK'
  <2>1. CASE owner[lk[t]] = oldword[t]
    <3>1. owner' = [owner EXCEPT ![lk[t]] = Thin_SetWait(oldword[t])]
      BY <1>6, <2>1 DEF EnqSetWait
    <3>2. owner' \in [Locks -> Word]
      BY <3>1, WordFacts DEF TypeOK
    <3> QED
      BY <1>6, <2>1, <3>2, WordFacts DEF EnqSetWait, TypeOK
  <2>2. CASE owner[lk[t]] # oldword[t]
    BY <1>6, <2>2, WordFacts DEF EnqSetWait, TypeOK
  <2> QED
    BY <2>1, <2>2
<1>7. ASSUME NEW t \in Threads, EnqCas(t) PROVE TypeOK'
  <2>1. CASE owner[lk[t]] = Unlocked
    <3>1. owner' = [owner EXCEPT ![lk[t]] = [who |-> t, wait |-> meWait[t]]]
      BY <1>7, <2>1 DEF EnqCas
    <3>2. owner' \in [Locks -> Word]
      BY <3>1, WordFacts DEF TypeOK
    <3>3. meWait' \in [Threads -> BOOLEAN]
      BY <1>7, <2>1 DEF EnqCas, TypeOK
    <3> QED
      BY <1>7, <2>1, <3>2, <3>3 DEF EnqCas, TypeOK
  <2>2. CASE owner[lk[t]] # Unlocked
    BY <1>7, <2>2 DEF EnqCas, TypeOK
  <2> QED
    BY <2>1, <2>2
<1>8. ASSUME NEW t \in Threads, EnqGrab(t) PROVE TypeOK'
  BY <1>8, WordFacts DEF EnqGrab, GrabFat, TypeOK
<1>9. ASSUME NEW t \in Threads, EnqPut(t) PROVE TypeOK'
  BY <1>9, WordFacts DEF EnqPut, PutFat, TypeOK
<1>10. ASSUME NEW t \in Threads, SuspendGrab(t) PROVE TypeOK'
  BY <1>10, WordFacts DEF SuspendGrab, GrabFat, TypeOK
<1>11. ASSUME NEW t \in Threads, SuspendLock(t) PROVE TypeOK'
  BY <1>11, WordFacts DEF SuspendLock, AcquireSlock, TypeOK
<1>12. ASSUME NEW t \in Threads, SuspendPut(t) PROVE TypeOK'
  BY <1>12, WordFacts DEF SuspendPut, PutFat, TypeOK
<1>13. ASSUME NEW t \in Threads, SuspendWait(t) PROVE TypeOK'
  <2>1. susp' = [susp EXCEPT ![fl[t]] = susp[fl[t]] + 1] /\ fl[t] \in FatLocks
    BY <1>13 DEF SuspendWait, TypeOK
  <2>2. susp' \in [FatLocks -> Int]
    BY <2>1 DEF TypeOK
  <2>3. CASE susp[fl[t]] + 1 < 1
    BY <1>13, <2>2, <2>3 DEF SuspendWait, ReleaseSlock, TypeOK
  <2>4. CASE ~(susp[fl[t]] + 1 < 1)
    BY <1>13, <2>2, <2>4 DEF SuspendWait, ReleaseSlock, TypeOK
  <2> QED
    BY <2>3, <2>4
<1>14. ASSUME NEW t \in Threads, SuspendWake(t) PROVE TypeOK'
  BY <1>14, WordFacts DEF SuspendWake, TypeOK
<1>15. ASSUME NEW t \in Threads, EmptyGrab(t) PROVE TypeOK'
  BY <1>15, WordFacts DEF EmptyGrab, GrabFat, TypeOK
<1>16. ASSUME NEW t \in Threads, EmptyNull(t) PROVE TypeOK'
  BY <1>16, WordFacts DEF EmptyNull, PutFat, TypeOK
<1>17. ASSUME NEW t \in Threads, EmptyLock(t) PROVE TypeOK'
  BY <1>17, WordFacts DEF EmptyLock, AcquireSlock, TypeOK
<1>18. ASSUME NEW t \in Threads, EmptyCheck(t) PROVE TypeOK'
  BY <1>18, WordFacts DEF EmptyCheck, TypeOK
<1>19. ASSUME NEW t \in Threads, EmptyPut(t) PROVE TypeOK'
  BY <1>19, WordFacts DEF EmptyPut, PutFat, TypeOK
<1>20. ASSUME NEW t \in Threads, EmptyUnlock(t) PROVE TypeOK'
  BY <1>20, WordFacts DEF EmptyUnlock, ReleaseSlock, TypeOK
<1>21. ASSUME NEW t \in Threads, UnlockFast(t) PROVE TypeOK'
  BY <1>21, WordFacts DEF UnlockFast, Mine, TypeOK
<1>22. ASSUME NEW t \in Threads, UnlockContended(t) PROVE TypeOK'
  BY <1>22, WordFacts DEF UnlockContended, TypeOK
<1>23. ASSUME NEW t \in Threads, DeqRead(t) PROVE TypeOK'
  BY <1>23, WordFacts DEF DeqRead, TypeOK
<1>24. ASSUME NEW t \in Threads, DeqCas(t) PROVE TypeOK'
  <2>1. CASE owner[lk[t]] = oldword[t]
    BY <1>24, WordFacts, <2>1 DEF DeqCas, TypeOK
  <2>2. CASE ~(owner[lk[t]] = oldword[t])
    BY <1>24, WordFacts, <2>2 DEF DeqCas, TypeOK
  <2> QED
    BY <2>1, <2>2
<1>25. ASSUME NEW t \in Threads, ResumeGrab(t) PROVE TypeOK'
  BY <1>25, WordFacts DEF ResumeGrab, GrabFat, TypeOK
<1>26. ASSUME NEW t \in Threads, ResumeLock(t) PROVE TypeOK'
  BY <1>26, WordFacts DEF ResumeLock, AcquireSlock, TypeOK
<1>27. ASSUME NEW t \in Threads, ResumePut(t) PROVE TypeOK'
  BY <1>27, WordFacts DEF ResumePut, PutFat, TypeOK
<1>28. ASSUME NEW t \in Threads, ResumeNotify(t) PROVE TypeOK'
  BY <1>28, WordFacts DEF ResumeNotify, ReleaseSlock, TypeOK
<1>29. ASSUME NEW t \in Threads, BusyWait(t) PROVE TypeOK'
  BY <1>29, WordFacts DEF BusyWait, vars, TypeOK
<1>30. CASE UNCHANGED vars
  BY <1>30, WordFacts DEF vars, TypeOK
<1>31. QED
  BY <1>1, <1>2, <1>3, <1>4, <1>5, <1>6, <1>7, <1>8, <1>9, <1>10, <1>11, <1>12, <1>13, <1>14,
     <1>15, <1>16, <1>17, <1>18, <1>19, <1>20, <1>21, <1>22, <1>23, <1>24, <1>25, <1>26, <1>27, <1>28, <1>29, <1>30
  DEF Next, LockCode, Enqueue, SuspendThread, EmptyFatlock, Unlock, ResumeThread

\* Every variable keeps its type; in particular the local fl of a thread that
\* uses a fat lock is one, never NULL and never 1.
THEOREM TypeCorrect == Spec => []TypeOK
<1>1. TypeOK /\ [Next]_vars => TypeOK'
  BY TypeStep
<1> QED
  BY TypeInit, <1>1, PTL DEF Spec

(***************************************************************************)
(* Mutual exclusion and the assertions.                                    *)
(***************************************************************************)
DequeueReady ==
  \A t \in Threads :
    /\ pc[t] \in {"deq_read", "deq_cas"} => owner[lk[t]].wait
    /\ pc[t] = "deq_cas" => oldword[t] = owner[lk[t]]

MutexInv == MutualExclusion /\ DequeueReady /\ AssertionsHold

LEMMA MutexInit == Init => MutexInv
BY ThinLockAssumption
DEF Init, MutexInv, MutualExclusion, DequeueReady, AssertionsHold, Holding, Unlocked

LEMMA MutexStep == TypeOK /\ MutexInv /\ [Next]_vars => MutualExclusion'
<1> SUFFICES ASSUME TypeOK, MutualExclusion, DequeueReady, AssertionsHold, [Next]_vars
             PROVE MutualExclusion'
  BY DEF MutexInv
<1> USE ThinLockAssumption
<1> USE DEF TypeOK, MutualExclusion, DequeueReady, Holding, Goto, Word,
            Unlocked, Mine
<1>1. ASSUME NEW t \in Threads, NEW p \in Locks, CallLock(t, p) PROVE MutualExclusion'
  BY <1>1 DEF CallLock
<1>2. ASSUME NEW t \in Threads, CallUnlock(t) PROVE MutualExclusion'
  BY <1>2 DEF CallUnlock
<1>3. ASSUME NEW t \in Threads, LockFast(t) PROVE MutualExclusion'
  BY <1>3 DEF LockFast, Mine
<1>4. ASSUME NEW t \in Threads, LockContended(t) PROVE MutualExclusion'
  BY <1>4 DEF LockContended
<1>5. ASSUME NEW t \in Threads, EnqRead(t) PROVE MutualExclusion'
  BY <1>5 DEF EnqRead
<1>6. ASSUME NEW t \in Threads, EnqSetWait(t) PROVE MutualExclusion'
  <2>1. CASE owner[lk[t]] = oldword[t]
    BY <1>6, <2>1 DEF EnqSetWait, Thin_SetWait
  <2>2. CASE ~(owner[lk[t]] = oldword[t])
    BY <1>6, <2>2 DEF EnqSetWait, Thin_SetWait
  <2> QED
    BY <2>1, <2>2
<1>7. ASSUME NEW t \in Threads, EnqCas(t) PROVE MutualExclusion'
  <2>1. CASE owner[lk[t]] = Unlocked
    BY <1>7, <2>1 DEF EnqCas
  <2>2. CASE ~(owner[lk[t]] = Unlocked)
    BY <1>7, <2>2 DEF EnqCas
  <2> QED
    BY <2>1, <2>2
<1>8. ASSUME NEW t \in Threads, EnqGrab(t) PROVE MutualExclusion'
  BY <1>8 DEF EnqGrab, GrabFat
<1>9. ASSUME NEW t \in Threads, EnqPut(t) PROVE MutualExclusion'
  BY <1>9 DEF EnqPut, PutFat
<1>10. ASSUME NEW t \in Threads, SuspendGrab(t) PROVE MutualExclusion'
  BY <1>10 DEF SuspendGrab, GrabFat
<1>11. ASSUME NEW t \in Threads, SuspendLock(t) PROVE MutualExclusion'
  BY <1>11 DEF SuspendLock, AcquireSlock
<1>12. ASSUME NEW t \in Threads, SuspendPut(t) PROVE MutualExclusion'
  BY <1>12 DEF SuspendPut, PutFat
<1>13. ASSUME NEW t \in Threads, SuspendWait(t) PROVE MutualExclusion'
  <2>1. CASE susp[fl[t]] + 1 < 1
    BY <1>13, <2>1 DEF SuspendWait, ReleaseSlock
  <2>2. CASE ~(susp[fl[t]] + 1 < 1)
    BY <1>13, <2>2 DEF SuspendWait, ReleaseSlock
  <2> QED
    BY <2>1, <2>2
<1>14. ASSUME NEW t \in Threads, SuspendWake(t) PROVE MutualExclusion'
  BY <1>14 DEF SuspendWake
<1>15. ASSUME NEW t \in Threads, EmptyGrab(t) PROVE MutualExclusion'
  BY <1>15 DEF EmptyGrab, GrabFat
<1>16. ASSUME NEW t \in Threads, EmptyNull(t) PROVE MutualExclusion'
  BY <1>16 DEF EmptyNull, PutFat
<1>17. ASSUME NEW t \in Threads, EmptyLock(t) PROVE MutualExclusion'
  BY <1>17 DEF EmptyLock, AcquireSlock
<1>18. ASSUME NEW t \in Threads, EmptyCheck(t) PROVE MutualExclusion'
  BY <1>18 DEF EmptyCheck
<1>19. ASSUME NEW t \in Threads, EmptyPut(t) PROVE MutualExclusion'
  BY <1>19 DEF EmptyPut, PutFat
<1>20. ASSUME NEW t \in Threads, EmptyUnlock(t) PROVE MutualExclusion'
  BY <1>20 DEF EmptyUnlock, ReleaseSlock
<1>21. ASSUME NEW t \in Threads, UnlockFast(t) PROVE MutualExclusion'
  BY <1>21 DEF UnlockFast, Mine
<1>22. ASSUME NEW t \in Threads, UnlockContended(t) PROVE MutualExclusion'
  BY <1>22 DEF UnlockContended
<1>23. ASSUME NEW t \in Threads, DeqRead(t) PROVE MutualExclusion'
  BY <1>23 DEF DeqRead
<1>24. ASSUME NEW t \in Threads, DeqCas(t) PROVE MutualExclusion'
  <2>1. CASE owner[lk[t]] = oldword[t]
    BY <1>24, <2>1 DEF DeqCas
  <2>2. CASE ~(owner[lk[t]] = oldword[t])
    BY <1>24, <2>2 DEF DeqCas
  <2> QED
    BY <2>1, <2>2
<1>25. ASSUME NEW t \in Threads, ResumeGrab(t) PROVE MutualExclusion'
  BY <1>25 DEF ResumeGrab, GrabFat
<1>26. ASSUME NEW t \in Threads, ResumeLock(t) PROVE MutualExclusion'
  BY <1>26 DEF ResumeLock, AcquireSlock
<1>27. ASSUME NEW t \in Threads, ResumePut(t) PROVE MutualExclusion'
  BY <1>27 DEF ResumePut, PutFat
<1>28. ASSUME NEW t \in Threads, ResumeNotify(t) PROVE MutualExclusion'
  BY <1>28 DEF ResumeNotify, ReleaseSlock
<1>29. ASSUME NEW t \in Threads, BusyWait(t) PROVE MutualExclusion'
  BY <1>29 DEF BusyWait, vars
<1>30. CASE UNCHANGED vars
  BY <1>30 DEF vars
<1>31. QED
  BY <1>1, <1>2, <1>3, <1>4, <1>5, <1>6, <1>7, <1>8, <1>9, <1>10, <1>11, <1>12, <1>13, <1>14,
     <1>15, <1>16, <1>17, <1>18, <1>19, <1>20, <1>21, <1>22, <1>23, <1>24, <1>25, <1>26, <1>27, <1>28, <1>29, <1>30
  DEF Next, LockCode, Enqueue, SuspendThread, EmptyFatlock, Unlock, ResumeThread

LEMMA DequeueStep == TypeOK /\ MutexInv /\ [Next]_vars => DequeueReady'
<1> SUFFICES ASSUME TypeOK, MutualExclusion, DequeueReady, AssertionsHold, [Next]_vars
             PROVE DequeueReady'
  BY DEF MutexInv
<1> USE ThinLockAssumption
<1> USE DEF TypeOK, MutualExclusion, DequeueReady, Holding, Goto, Word,
            Unlocked
<1>1. ASSUME NEW t \in Threads, NEW p \in Locks, CallLock(t, p) PROVE DequeueReady'
  BY <1>1 DEF CallLock
<1>2. ASSUME NEW t \in Threads, CallUnlock(t) PROVE DequeueReady'
  BY <1>2 DEF CallUnlock
<1>3. ASSUME NEW t \in Threads, LockFast(t) PROVE DequeueReady'
  BY <1>3 DEF LockFast, Mine
<1>4. ASSUME NEW t \in Threads, LockContended(t) PROVE DequeueReady'
  BY <1>4 DEF LockContended
<1>5. ASSUME NEW t \in Threads, EnqRead(t) PROVE DequeueReady'
  BY <1>5 DEF EnqRead
<1>6. ASSUME NEW t \in Threads, EnqSetWait(t) PROVE DequeueReady'
  <2>1. CASE owner[lk[t]] = oldword[t]
    <3>1. owner' = [owner EXCEPT ![lk[t]] = Thin_SetWait(owner[lk[t]])]
      BY <1>6, <2>1 DEF EnqSetWait
    <3>2. ASSUME NEW p \in Locks, owner[p].wait PROVE owner'[p] = owner[p]
      <4>1. owner[p] \in Word
        BY DEF TypeOK
      <4>2. Thin_SetWait(owner[p]) = owner[p]
        BY <4>1, <3>2, WaitBit
      <4> QED
        BY <3>1, <4>2 DEF TypeOK
    <3> QED
      BY <1>6, <2>1, <3>2 DEF EnqSetWait
  <2>2. CASE owner[lk[t]] # oldword[t]
    BY <1>6, <2>2 DEF EnqSetWait
  <2> QED
    BY <2>1, <2>2
<1>7. ASSUME NEW t \in Threads, EnqCas(t) PROVE DequeueReady'
  <2>1. CASE owner[lk[t]] = Unlocked
    BY <1>7, <2>1 DEF EnqCas
  <2>2. CASE ~(owner[lk[t]] = Unlocked)
    BY <1>7, <2>2 DEF EnqCas
  <2> QED
    BY <2>1, <2>2
<1>8. ASSUME NEW t \in Threads, EnqGrab(t) PROVE DequeueReady'
  BY <1>8 DEF EnqGrab, GrabFat
<1>9. ASSUME NEW t \in Threads, EnqPut(t) PROVE DequeueReady'
  BY <1>9 DEF EnqPut, PutFat
<1>10. ASSUME NEW t \in Threads, SuspendGrab(t) PROVE DequeueReady'
  BY <1>10 DEF SuspendGrab, GrabFat
<1>11. ASSUME NEW t \in Threads, SuspendLock(t) PROVE DequeueReady'
  BY <1>11 DEF SuspendLock, AcquireSlock
<1>12. ASSUME NEW t \in Threads, SuspendPut(t) PROVE DequeueReady'
  BY <1>12 DEF SuspendPut, PutFat
<1>13. ASSUME NEW t \in Threads, SuspendWait(t) PROVE DequeueReady'
  <2>1. CASE susp[fl[t]] + 1 < 1
    BY <1>13, <2>1 DEF SuspendWait, ReleaseSlock
  <2>2. CASE ~(susp[fl[t]] + 1 < 1)
    BY <1>13, <2>2 DEF SuspendWait, ReleaseSlock
  <2> QED
    BY <2>1, <2>2
<1>14. ASSUME NEW t \in Threads, SuspendWake(t) PROVE DequeueReady'
  BY <1>14 DEF SuspendWake
<1>15. ASSUME NEW t \in Threads, EmptyGrab(t) PROVE DequeueReady'
  BY <1>15 DEF EmptyGrab, GrabFat
<1>16. ASSUME NEW t \in Threads, EmptyNull(t) PROVE DequeueReady'
  BY <1>16 DEF EmptyNull, PutFat
<1>17. ASSUME NEW t \in Threads, EmptyLock(t) PROVE DequeueReady'
  BY <1>17 DEF EmptyLock, AcquireSlock
<1>18. ASSUME NEW t \in Threads, EmptyCheck(t) PROVE DequeueReady'
  BY <1>18 DEF EmptyCheck
<1>19. ASSUME NEW t \in Threads, EmptyPut(t) PROVE DequeueReady'
  BY <1>19 DEF EmptyPut, PutFat
<1>20. ASSUME NEW t \in Threads, EmptyUnlock(t) PROVE DequeueReady'
  BY <1>20 DEF EmptyUnlock, ReleaseSlock
<1>21. ASSUME NEW t \in Threads, UnlockFast(t) PROVE DequeueReady'
  BY <1>21 DEF UnlockFast, Mine
<1>22. ASSUME NEW t \in Threads, UnlockContended(t) PROVE DequeueReady'
  <2>1. CASE owner[lk[t]].who = t
    <3>1. lk[t] \in Locks /\ owner[lk[t]] # Mine(t)
      BY <1>22 DEF UnlockContended
    <3>2. owner[lk[t]] \in Word
      BY <3>1 DEF TypeOK
    <3>3. owner[lk[t]].wait
      BY <2>1, <3>1, <3>2, WaitBit
    <3> QED
      BY <1>22, <2>1, <3>3 DEF UnlockContended
  <2>2. CASE owner[lk[t]].who # t
    BY <1>22, <2>2 DEF UnlockContended
  <2> QED
    BY <2>1, <2>2
<1>23. ASSUME NEW t \in Threads, DeqRead(t) PROVE DequeueReady'
  BY <1>23 DEF DeqRead
<1>24. ASSUME NEW t \in Threads, DeqCas(t) PROVE DequeueReady'
  <2>1. CASE owner[lk[t]] = oldword[t]
    BY <1>24, <2>1 DEF DeqCas
  <2>2. CASE ~(owner[lk[t]] = oldword[t])
    BY <1>24, <2>2 DEF DeqCas
  <2> QED
    BY <2>1, <2>2
<1>25. ASSUME NEW t \in Threads, ResumeGrab(t) PROVE DequeueReady'
  BY <1>25 DEF ResumeGrab, GrabFat
<1>26. ASSUME NEW t \in Threads, ResumeLock(t) PROVE DequeueReady'
  BY <1>26 DEF ResumeLock, AcquireSlock
<1>27. ASSUME NEW t \in Threads, ResumePut(t) PROVE DequeueReady'
  BY <1>27 DEF ResumePut, PutFat
<1>28. ASSUME NEW t \in Threads, ResumeNotify(t) PROVE DequeueReady'
  BY <1>28 DEF ResumeNotify, ReleaseSlock
<1>29. ASSUME NEW t \in Threads, BusyWait(t) PROVE DequeueReady'
  BY <1>29 DEF BusyWait, vars
<1>30. CASE UNCHANGED vars
  BY <1>30 DEF vars
<1>31. QED
  BY <1>1, <1>2, <1>3, <1>4, <1>5, <1>6, <1>7, <1>8, <1>9, <1>10, <1>11, <1>12, <1>13, <1>14,
     <1>15, <1>16, <1>17, <1>18, <1>19, <1>20, <1>21, <1>22, <1>23, <1>24, <1>25, <1>26, <1>27, <1>28, <1>29, <1>30
  DEF Next, LockCode, Enqueue, SuspendThread, EmptyFatlock, Unlock, ResumeThread

LEMMA AssertStep == TypeOK /\ MutexInv /\ [Next]_vars => AssertionsHold'
<1> SUFFICES ASSUME TypeOK, MutualExclusion, DequeueReady, AssertionsHold, [Next]_vars
             PROVE AssertionsHold'
  BY DEF MutexInv
<1> USE ThinLockAssumption
<1> USE DEF TypeOK, MutualExclusion, DequeueReady, AssertionsHold, Holding, Goto,
            Unlocked, Mine, Word
<1>1. ASSUME NEW t \in Threads, NEW p \in Locks, CallLock(t, p) PROVE AssertionsHold'
  BY <1>1 DEF CallLock
<1>2. ASSUME NEW t \in Threads, CallUnlock(t) PROVE AssertionsHold'
  BY <1>2 DEF CallUnlock
<1>3. ASSUME NEW t \in Threads, LockFast(t) PROVE AssertionsHold'
  BY <1>3 DEF LockFast, Mine
<1>4. ASSUME NEW t \in Threads, LockContended(t) PROVE AssertionsHold'
  BY <1>4 DEF LockContended
<1>5. ASSUME NEW t \in Threads, EnqRead(t) PROVE AssertionsHold'
  BY <1>5 DEF EnqRead
<1>6. ASSUME NEW t \in Threads, EnqSetWait(t) PROVE AssertionsHold'
  <2>1. CASE owner[lk[t]] = oldword[t]
    BY <1>6, <2>1 DEF EnqSetWait, Thin_SetWait
  <2>2. CASE ~(owner[lk[t]] = oldword[t])
    BY <1>6, <2>2 DEF EnqSetWait, Thin_SetWait
  <2> QED
    BY <2>1, <2>2
<1>7. ASSUME NEW t \in Threads, EnqCas(t) PROVE AssertionsHold'
  <2>1. CASE owner[lk[t]] = Unlocked
    BY <1>7, <2>1 DEF EnqCas
  <2>2. CASE ~(owner[lk[t]] = Unlocked)
    BY <1>7, <2>2 DEF EnqCas
  <2> QED
    BY <2>1, <2>2
<1>8. ASSUME NEW t \in Threads, EnqGrab(t) PROVE AssertionsHold'
  BY <1>8 DEF EnqGrab, GrabFat
<1>9. ASSUME NEW t \in Threads, EnqPut(t) PROVE AssertionsHold'
  BY <1>9 DEF EnqPut, PutFat
<1>10. ASSUME NEW t \in Threads, SuspendGrab(t) PROVE AssertionsHold'
  BY <1>10 DEF SuspendGrab, GrabFat
<1>11. ASSUME NEW t \in Threads, SuspendLock(t) PROVE AssertionsHold'
  BY <1>11 DEF SuspendLock, AcquireSlock
<1>12. ASSUME NEW t \in Threads, SuspendPut(t) PROVE AssertionsHold'
  BY <1>12 DEF SuspendPut, PutFat
<1>13. ASSUME NEW t \in Threads, SuspendWait(t) PROVE AssertionsHold'
  <2>1. CASE susp[fl[t]] + 1 < 1
    BY <1>13, <2>1 DEF SuspendWait, ReleaseSlock
  <2>2. CASE ~(susp[fl[t]] + 1 < 1)
    BY <1>13, <2>2 DEF SuspendWait, ReleaseSlock
  <2> QED
    BY <2>1, <2>2
<1>14. ASSUME NEW t \in Threads, SuspendWake(t) PROVE AssertionsHold'
  BY <1>14 DEF SuspendWake
<1>15. ASSUME NEW t \in Threads, EmptyGrab(t) PROVE AssertionsHold'
  BY <1>15 DEF EmptyGrab, GrabFat
<1>16. ASSUME NEW t \in Threads, EmptyNull(t) PROVE AssertionsHold'
  BY <1>16 DEF EmptyNull, PutFat
<1>17. ASSUME NEW t \in Threads, EmptyLock(t) PROVE AssertionsHold'
  BY <1>17 DEF EmptyLock, AcquireSlock
<1>18. ASSUME NEW t \in Threads, EmptyCheck(t) PROVE AssertionsHold'
  BY <1>18 DEF EmptyCheck
<1>19. ASSUME NEW t \in Threads, EmptyPut(t) PROVE AssertionsHold'
  BY <1>19 DEF EmptyPut, PutFat
<1>20. ASSUME NEW t \in Threads, EmptyUnlock(t) PROVE AssertionsHold'
  BY <1>20 DEF EmptyUnlock, ReleaseSlock
<1>21. ASSUME NEW t \in Threads, UnlockFast(t) PROVE AssertionsHold'
  BY <1>21 DEF UnlockFast, Mine
<1>22. ASSUME NEW t \in Threads, UnlockContended(t) PROVE AssertionsHold'
  BY <1>22 DEF UnlockContended
<1>23. ASSUME NEW t \in Threads, DeqRead(t) PROVE AssertionsHold'
  BY <1>23 DEF DeqRead
<1>24. ASSUME NEW t \in Threads, DeqCas(t) PROVE AssertionsHold'
  <2>1. CASE owner[lk[t]] = oldword[t]
    BY <1>24, <2>1 DEF DeqCas
  <2>2. CASE ~(owner[lk[t]] = oldword[t])
    BY <1>24, <2>2 DEF DeqCas
  <2> QED
    BY <2>1, <2>2
<1>25. ASSUME NEW t \in Threads, ResumeGrab(t) PROVE AssertionsHold'
  BY <1>25 DEF ResumeGrab, GrabFat
<1>26. ASSUME NEW t \in Threads, ResumeLock(t) PROVE AssertionsHold'
  BY <1>26 DEF ResumeLock, AcquireSlock
<1>27. ASSUME NEW t \in Threads, ResumePut(t) PROVE AssertionsHold'
  BY <1>27 DEF ResumePut, PutFat
<1>28. ASSUME NEW t \in Threads, ResumeNotify(t) PROVE AssertionsHold'
  BY <1>28 DEF ResumeNotify, ReleaseSlock
<1>29. ASSUME NEW t \in Threads, BusyWait(t) PROVE AssertionsHold'
  BY <1>29 DEF BusyWait, vars
<1>30. CASE UNCHANGED vars
  BY <1>30 DEF vars
<1>31. QED
  BY <1>1, <1>2, <1>3, <1>4, <1>5, <1>6, <1>7, <1>8, <1>9, <1>10, <1>11, <1>12, <1>13, <1>14,
     <1>15, <1>16, <1>17, <1>18, <1>19, <1>20, <1>21, <1>22, <1>23, <1>24, <1>25, <1>26, <1>27, <1>28, <1>29, <1>30
  DEF Next, LockCode, Enqueue, SuspendThread, EmptyFatlock, Unlock, ResumeThread

LEMMA MutexInvariant == Spec => [](TypeOK /\ MutexInv)
<1>1. Init => TypeOK /\ MutexInv
  BY TypeInit, MutexInit
<1>2. (TypeOK /\ MutexInv) /\ [Next]_vars => (TypeOK /\ MutexInv)'
  BY TypeStep, MutexStep, DequeueStep, AssertStep DEF MutexInv
<1> QED
  BY <1>1, <1>2, PTL DEF Spec

\* No two threads are inside one lock, whatever the interleaving of fast
\* paths, enqueues, resumes and the recycling of fat locks.
THEOREM MutexCorrect == Spec => []MutualExclusion
<1>1. MutexInv => MutualExclusion
  BY DEF MutexInv
<1> QED
  BY MutexInvariant, <1>1, PTL

\* The assertions of js_Lock, js_Unlock and js_Dequeue never fail: a contended
\* release finds its own name and the wait bit, and its compare-and-swap
\* succeeds.
THEOREM AssertionsCorrect == Spec => []AssertionsHold
<1>1. MutexInv => AssertionsHold
  BY DEF MutexInv
<1> QED
  BY MutexInvariant, <1>1, PTL

(***************************************************************************)
(* The lock words implement the abstract locks: the compare-and-swaps of   *)
(* js_Lock and js_Enqueue acquire, those of js_Unlock and js_Dequeue       *)
(* release, and setting the wait bit or anything done to the fat lock is   *)
(* not seen.                                                               *)
(***************************************************************************)
Holder == [p \in Locks |-> owner[p].who]

LEMMA HolderStep ==
  ASSUME TypeOK, NEW t \in Threads, NEW p \in Locks, NEW w \in Word,
         owner' = [owner EXCEPT ![p] = w]
  PROVE  Holder' = [Holder EXCEPT ![p] = w.who]
BY DEF Holder, TypeOK

LEMMA RefineStep ==
  TypeOK /\ MutexInv /\ [Next]_vars => [Abstract!Next]_Holder
<1> SUFFICES ASSUME TypeOK, MutualExclusion, DequeueReady, [Next]_vars
             PROVE  [Abstract!Next]_Holder
  BY DEF MutexInv
<1> USE ThinLockAssumption
<1> USE DEF Abstract!Next, Abstract!Acquire, Abstract!Release
<1>1. ASSUME NEW t \in Threads, NEW p \in Locks, NEW w \in Word,
             owner' = [owner EXCEPT ![p] = w],
             \/ owner[p].who = NoThread /\ w.who = t
             \/ owner[p].who = t /\ w.who = NoThread
             \/ w.who = owner[p].who
      PROVE  [Abstract!Next]_Holder
  <2>1. Holder' = [Holder EXCEPT ![p] = w.who] /\ Holder[p] = owner[p].who
    BY <1>1, HolderStep DEF Holder
  <2> QED
    BY <1>1, <2>1 DEF Holder
<1>2. ASSUME UNCHANGED owner PROVE [Abstract!Next]_Holder
  BY <1>2 DEF Holder
<1>3. ASSUME NEW t \in Threads, LockFast(t) PROVE [Abstract!Next]_Holder
  <2>1. lk[t] \in Locks /\ owner' = [owner EXCEPT ![lk[t]] = Mine(t)]
    BY <1>3 DEF LockFast, Goto, TypeOK
  <2>2. owner[lk[t]].who = NoThread /\ Mine(t).who = t /\ Mine(t) \in Word
    BY <1>3, WordFacts DEF LockFast, Unlocked, Mine
  <2> QED
    BY <1>1, <2>1, <2>2
<1>4. ASSUME NEW t \in Threads, EnqSetWait(t) PROVE [Abstract!Next]_Holder
  <2>1. CASE owner[lk[t]] = oldword[t]
    <3>1. lk[t] \in Locks /\ owner' = [owner EXCEPT ![lk[t]] = Thin_SetWait(oldword[t])]
      BY <1>4, <2>1 DEF EnqSetWait, TypeOK
    <3>2. Thin_SetWait(oldword[t]) \in Word /\ Thin_SetWait(oldword[t]).who = oldword[t].who
      BY WordFacts DEF TypeOK
    <3> QED
      BY <1>1, <2>1, <3>1, <3>2
  <2>2. CASE owner[lk[t]] # oldword[t]
    BY <1>2, <1>4, <2>2 DEF EnqSetWait
  <2> QED
    BY <2>1, <2>2
<1>5. ASSUME NEW t \in Threads, EnqCas(t) PROVE [Abstract!Next]_Holder
  <2> DEFINE w == [who |-> t, wait |-> meWait[t]]
  <2>1. CASE owner[lk[t]] = Unlocked
    <3>1. lk[t] \in Locks /\ owner' = [owner EXCEPT ![lk[t]] = w]
      BY <1>5, <2>1 DEF EnqCas, TypeOK
    <3>2. w \in Word /\ w.who = t /\ owner[lk[t]].who = NoThread
      BY <2>1, WordFacts DEF TypeOK, Unlocked
    <3> QED
      BY <1>1, <3>1, <3>2
  <2>2. CASE owner[lk[t]] # Unlocked
    BY <1>2, <1>5, <2>2 DEF EnqCas
  <2> QED
    BY <2>1, <2>2
<1>6. ASSUME NEW t \in Threads, UnlockFast(t) PROVE [Abstract!Next]_Holder
  <2>1. lk[t] \in Locks /\ owner' = [owner EXCEPT ![lk[t]] = Unlocked]
    BY <1>6 DEF UnlockFast, Goto, TypeOK
  <2>2. owner[lk[t]].who = t /\ Unlocked.who = NoThread /\ Unlocked \in Word
    BY <1>6, WordFacts DEF UnlockFast, Unlocked, Mine
  <2> QED
    BY <1>1, <2>1, <2>2
<1>7. ASSUME NEW t \in Threads, DeqCas(t) PROVE [Abstract!Next]_Holder
  <2>1. /\ lk[t] \in Locks
        /\ owner' = [owner EXCEPT ![lk[t]] = Unlocked]
        /\ owner[lk[t]].who = t
    BY <1>7 DEF DeqCas, TypeOK, DequeueReady, MutualExclusion, Holding
  <2>2. Unlocked.who = NoThread /\ Unlocked \in Word
    BY WordFacts DEF Unlocked
  <2> QED
    BY <1>1, <2>1, <2>2
<1>8. CASE UNCHANGED vars
  BY <1>2, <1>8 DEF vars
<1>9. ASSUME NEW t \in Threads, NEW p \in Locks, CallLock(t, p)
      PROVE  [Abstract!Next]_Holder
  BY <1>2, <1>9 DEF CallLock
<1>10. ASSUME NEW t \in Threads,
              \/ CallUnlock(t) \/ LockContended(t) \/ EnqRead(t) \/ EnqGrab(t)
              \/ EnqPut(t) \/ SuspendGrab(t) \/ SuspendLock(t) \/ SuspendPut(t)
              \/ SuspendWait(t) \/ SuspendWake(t) \/ EmptyGrab(t) \/ EmptyNull(t)
              \/ EmptyLock(t) \/ EmptyCheck(t) \/ EmptyPut(t) \/ EmptyUnlock(t)
              \/ UnlockContended(t) \/ DeqRead(t) \/ ResumeGrab(t) \/ ResumeLock(t)
              \/ ResumePut(t) \/ ResumeNotify(t) \/ BusyWait(t)
       PROVE  UNCHANGED owner
  BY <1>10 DEF CallUnlock, LockContended, EnqRead, EnqGrab, EnqPut, SuspendGrab, SuspendLock,
     SuspendPut, SuspendWait, SuspendWake, EmptyGrab, EmptyNull, EmptyLock,
     EmptyCheck, EmptyPut, EmptyUnlock, UnlockContended, DeqRead, ResumeGrab,
     ResumeLock, ResumePut, ResumeNotify, BusyWait, vars
<1> QED
  BY <1>2, <1>3, <1>4, <1>5, <1>6, <1>7, <1>8, <1>9, <1>10
  DEF Next, LockCode, Enqueue, SuspendThread, EmptyFatlock, Unlock, ResumeThread

\* The thin locks implement Mutex: a thread enters only a free lock and only
\* the thread inside opens it.
THEOREM MutexRefinement == Spec => ImplementsMutex
<1>1. Init => Abstract!Init
  BY DEF Init, Abstract!Init, Unlocked
<1>2. TypeOK /\ MutexInv /\ [Next]_vars => [Abstract!Next]_[p \in Locks |-> owner[p].who]
  BY RefineStep DEF Holder
<1> QED
  BY <1>1, <1>2, MutexInvariant, PTL DEF Spec, Abstract!Spec, ImplementsMutex
-----------------------------------------------------------------------------
(***************************************************************************)
(* The fat locks.  A fat lock is free, or one thin lock's word names it,   *)
(* or one thread that has found it there carries it until it puts it back. *)
(* While a thread waits on a fat lock, or is about to, the thin lock it    *)
(* wants keeps that fat lock: emptyFatlock gives the fat lock away only    *)
(* inside fl->slock, and susp counts those that wait.                      *)
(***************************************************************************)
Carrying(t) == \/ pc[t] \in {"enq_put", "sus_lock", "sus_put", "emp_lock", "emp_check", "res_lock", "res_put"}
               \/ pc[t] = "emp_put" /\ meWait[t]

Attached(f, p) == fat[p] = f \/ \E u \in Threads : Carrying(u) /\ fl[u] = f /\ lk[u] = p

\* p->fat is 1 while a thread works on it, one thread at a time.
Accessors ==
  /\ \A t \in Threads : pc[t] \in Accessing => fat[lk[t]] = Busy
  /\ \A t, u \in Threads : pc[t] \in Accessing /\ pc[u] \in Accessing /\ lk[t] = lk[u] => t = u

\* A fat lock is in one place.
Places ==
  /\ \A p \in Locks : fat[p] \notin free
  /\ FatLockUnshared
  /\ \A t \in Threads : Carrying(t) => fl[t] \notin free /\ \A p \in Locks : fat[p] # fl[t]
  /\ \A t, u \in Threads : Carrying(t) /\ Carrying(u) /\ fl[t] = fl[u] => t = u

InSlock == {"sus_put", "sus_wait", "emp_check", "emp_put", "emp_unlock", "res_put", "res_notify"}
Slocks == \A t \in Threads : pc[t] \in InSlock => slock[fl[t]] = t

\* susp counts at least the threads in PR_WaitCondVar.
Waiting ==
  \A f \in FatLocks :
    /\ \A t \in waiters[f] : pc[t] = "asleep" /\ fl[t] = f
    /\ IsFiniteSet(waiters[f])
    /\ waiters[f] # {} => Cardinality(waiters[f]) <= susp[f]

Attachments ==
  \A t \in Threads : pc[t] = "sus_wait" \/ Asleep(t) => Attached(fl[t], lk[t])

FatInv == Accessors /\ Places /\ Slocks /\ Waiting /\ Attachments

\* What a step of t leaves to the other threads.
Same(t) == \A u \in Threads \ {t} :
             pc'[u] = pc[u] /\ lk'[u] = lk[u] /\ fl'[u] = fl[u] /\ meWait'[u] = meWait[u]

\* Points at which a thread has nothing to do with a fat lock.
Plain == {"idle", "lock_cas", "critical", "unlock_cas", "enq_read", "enq_setwait", "enq_cas",
          "deq_read", "deq_cas", "assert"} \cup Grabbing

LEMMA FatInit == Init => FatInv
<1> SUFFICES ASSUME Init PROVE FatInv
  OBVIOUS
<1> USE ThinLockAssumption DEF ThinLockAssumption
<1>1. \A t \in Threads : pc[t] = "idle" /\ ~Carrying(t)
  BY DEF Init, Carrying
<1>2. (\A p \in Locks : fat[p] = NoFat) /\ free = FatLocks /\ \A f \in FatLocks : waiters[f] = {}
  BY DEF Init
<1>3. Accessors /\ Slocks
  BY <1>1 DEF Accessors, Slocks, Accessing, InSlock
<1>4. Places
  BY <1>1, <1>2 DEF Places, FatLockUnshared
<1>5. Waiting
  BY <1>2, FS_EmptySet DEF Waiting
<1>6. Attachments
  BY <1>1 DEF Attachments, Asleep
<1> QED
  BY <1>3, <1>4, <1>5, <1>6 DEF FatInv

\* Attachments that every other thread relies on, and t's own.
LEMMA AttachStep ==
  ASSUME TypeOK, Attachments, NEW t \in Threads, Same(t),
         \A u \in Threads \ {t} : Asleep(u)' => Asleep(u),
         \A u \in Threads \ {t}, f \in FatLocks, p \in Locks :
           /\ pc[u] = "sus_wait" \/ Asleep(u)
           /\ f = fl[u] /\ p = lk[u] /\ Attached(f, p)
           => Attached(f, p)',
         pc'[t] = "sus_wait" \/ Asleep(t)' =>
           \A f, p : f = fl'[t] /\ p = lk'[t] => Attached(f, p)'
  PROVE  Attachments'
<1> SUFFICES ASSUME NEW u \in Threads, (pc[u] = "sus_wait" \/ Asleep(u))', NEW f, NEW p, f = fl'[u], p = lk'[u]
             PROVE  Attached(f, p)'
  BY DEF Attachments, Attached
<1>1. CASE u = t
  BY <1>1
<1>2. CASE u # t
  <2>1. f = fl[u] /\ p = lk[u] /\ (pc[u] = "sus_wait" \/ Asleep(u))
    BY <1>2 DEF Same
  <2>2. f \in FatLocks /\ p \in Locks
    BY <2>1 DEF TypeOK, UsingFat, Asleep
  <2>3. Attached(f, p)
    BY <2>1 DEF Attachments
  <2> QED
    BY <1>2, <2>1, <2>2, <2>3
<1> QED
  BY <1>1, <1>2

\* A step that leaves the fat locks alone.
LEMMA PlainStep ==
  ASSUME TypeOK, FatInv, NEW t \in Threads, Same(t),
         pc[t] \in Plain \/ (pc[t] = "asleep" /\ t \notin waiters[fl[t]]), pc'[t] \in Plain,
         UNCHANGED <<fat, susp, slock, waiters, free>>
  PROVE  FatInv'
<1>1. Accessors /\ Places /\ Slocks /\ Waiting /\ Attachments
  BY DEF FatInv
<1>2. ~Carrying(t) /\ ~Carrying(t)'
  BY DEF Carrying, Plain, Grabbing
<1>3. \A u \in Threads \ {t} : Carrying(u)' <=> Carrying(u)
  BY DEF Carrying, Same
<1>4. Accessors'
  BY <1>1 DEF Accessors, Same, Plain, Grabbing, Accessing
<1>5. Places'
  BY <1>1, <1>2, <1>3 DEF Places, FatLockUnshared, Same
<1>6. Slocks'
  BY <1>1 DEF Slocks, Same, Plain, Grabbing, InSlock
<1>7. \A f \in FatLocks : t \notin waiters[f]
  BY <1>1 DEF Waiting, Plain, Grabbing
<1>8. Waiting'
  BY <1>1, <1>7 DEF Waiting, Same, TypeOK
<1>9. Attachments'
  <2>1. \A f, p : Attached(f, p) => Attached(f, p)'
    BY <1>2, <1>3 DEF Attached, Same
  <2>2. ~(pc'[t] = "sus_wait" \/ Asleep(t)')
    BY DEF Asleep, Plain, Grabbing
  <2>3. \A u \in Threads \ {t} : Asleep(u)' => Asleep(u)
    BY DEF Asleep, Same
  <2> QED
    BY <1>1, <2>1, <2>2, <2>3, AttachStep
<1> QED
  BY <1>4, <1>5, <1>6, <1>8, <1>9 DEF FatInv

\* GrabFat finds a fat lock, which t carries from then on, or NULL.
LEMMA GrabStep ==
  ASSUME TypeOK, FatInv, NEW t \in Threads, Same(t), pc[t] \in Grabbing,
         fat[lk[t]] # Busy, fat' = [fat EXCEPT ![lk[t]] = Busy], fl'[t] = fat[lk[t]],
         UNCHANGED <<susp, slock, waiters, free>>,
         \/ /\ fat[lk[t]] \in FatLocks
            /\ pc'[t] \in {"enq_put", "sus_lock", "emp_lock", "res_lock"}
            /\ lk'[t] = lk[t]
         \/ /\ fat[lk[t]] = NoFat
            /\ (pc'[t] = "emp_null" /\ lk'[t] = lk[t]) \/ pc'[t] \in {"emp_grab", "idle"}
  PROVE  FatInv'
<1> USE ThinLockAssumption DEF ThinLockAssumption
<1>1. Accessors /\ Places /\ Slocks /\ Waiting /\ Attachments
  BY DEF FatInv
<1> PICK p, g : p = lk[t] /\ g = fat[p]
  OBVIOUS
<1>2. /\ p \in Locks /\ g # Busy
      /\ fat'[p] = Busy
      /\ \A q \in Locks \ {p} : fat'[q] = fat[q]
      /\ fl'[t] = g
  BY DEF TypeOK, Grabbing
<1>3. /\ pc'[t] \in {"enq_put", "sus_lock", "emp_lock", "res_lock", "emp_null", "emp_grab", "idle"}
      /\ pc'[t] \in Accessing => lk'[t] = p
      /\ g \in FatLocks => Carrying(t)' /\ lk'[t] = p
      /\ Carrying(t)' => g \in FatLocks
  BY DEF Carrying, Accessing
<1>4. ~Carrying(t)
  BY DEF Carrying, Grabbing
<1>5. \A u \in Threads \ {t} : Carrying(u)' <=> Carrying(u)
  BY DEF Carrying, Same
<1>6. \A u \in Threads : Carrying(u) => fl[u] \in FatLocks
  BY DEF Carrying, TypeOK, UsingFat
<1>7. Accessors'
  <2>1. \A u \in Threads : pc[u] \in Accessing => lk[u] # p /\ lk[u] \in Locks
    BY <1>1, <1>2 DEF Accessors, TypeOK, Accessing
  <2> QED
    BY <1>1, <1>2, <1>3, <2>1 DEF Accessors, Same
<1>8. Places'
  <2>1. \A q \in Locks : fat'[q] \in {fat[q], Busy} /\ fat'[q] \notin free
    BY <1>1, <1>2 DEF Places, TypeOK
  <2>2. FatLockUnshared'
    BY <1>1, <1>2, <2>1 DEF Places, FatLockUnshared
  <2>3. g \in FatLocks => g \notin free /\ \A q \in Locks : fat'[q] # g
    BY <1>1, <1>2 DEF Places, FatLockUnshared
  <2>4. \A u \in Threads : Carrying(u) => fl[u] \notin free /\ fl[u] # g /\ \A q \in Locks : fat'[q] # fl[u]
    BY <1>1, <1>2, <1>6, <2>1 DEF Places
  <2>5. \A u \in Threads : Carrying(u)' => fl'[u] \notin free /\ \A q \in Locks : fat'[q] # fl'[u]
    BY <1>2, <1>3, <1>5, <2>3, <2>4 DEF Same
  <2>6. \A u, v \in Threads : Carrying(u)' /\ Carrying(v)' /\ fl'[u] = fl'[v] => u = v
    BY <1>1, <1>2, <1>5, <2>4 DEF Same, Places
  <2> QED
    BY <2>1, <2>2, <2>5, <2>6 DEF Places
<1>9. Slocks'
  BY <1>1, <1>3 DEF Slocks, Same, InSlock
<1>10. \A f \in FatLocks : t \notin waiters[f]
  BY <1>1 DEF Waiting, Grabbing
<1>11. Waiting'
  BY <1>1, <1>10 DEF Waiting, Same, TypeOK
<1>12. Attachments'
  <2>1. \A f \in FatLocks, q \in Locks : Attached(f, q) => Attached(f, q)'
    BY <1>2, <1>3, <1>4, <1>5 DEF Attached, Same
  <2>2. ~(pc'[t] = "sus_wait" \/ Asleep(t)')
    BY <1>3 DEF Asleep
  <2>3. \A u \in Threads \ {t} : Asleep(u)' => Asleep(u)
    BY DEF Asleep, Same
  <2> QED
    BY <1>1, <2>1, <2>2, <2>3, AttachStep
<1> QED
  BY <1>7, <1>8, <1>9, <1>11, <1>12 DEF FatInv

\* A thread puts the fat lock it carries back where it found it.
LEMMA PutStep ==
  ASSUME TypeOK, FatInv, NEW t \in Threads, Same(t), Carrying(t),
         fat' = [fat EXCEPT ![lk[t]] = fl[t]], lk'[t] = lk[t],
         UNCHANGED <<susp, slock, waiters, free>>,
         \/ pc'[t] = "sus_grab"
         \/ pc'[t] \in {"sus_wait", "emp_unlock", "res_notify"} /\ fl'[t] = fl[t] /\ pc[t] \in InSlock
  PROVE  FatInv'
<1> USE ThinLockAssumption DEF ThinLockAssumption
<1>1. Accessors /\ Places /\ Slocks /\ Waiting /\ Attachments
  BY DEF FatInv
<1> PICK p, g : p = lk[t] /\ g = fl[t]
  OBVIOUS
<1>2. /\ p \in Locks /\ g \in FatLocks /\ pc[t] \in Accessing
      /\ fat'[p] = g
      /\ \A q \in Locks \ {p} : fat'[q] = fat[q]
  BY DEF TypeOK, Carrying, UsingFat, Accessing
<1>3. pc'[t] \notin Accessing /\ ~Carrying(t)'
  BY DEF Carrying, Accessing
<1>4. \A u \in Threads \ {t} : Carrying(u)' <=> Carrying(u)
  BY DEF Carrying, Same
<1>5. Accessors'
  <2>1. \A u \in Threads \ {t} : pc[u] \in Accessing => lk[u] # p /\ lk[u] \in Locks
    BY <1>1, <1>2 DEF Accessors, TypeOK, Accessing
  <2> QED
    BY <1>1, <1>2, <1>3, <2>1 DEF Accessors, Same
<1>6. Places'
  <2>1. g \notin free /\ \A q \in Locks : fat[q] # g
    BY <1>1 DEF Places
  <2>2. \A q \in Locks : fat'[q] \notin free
    BY <1>1, <1>2, <2>1 DEF Places
  <2>3. FatLockUnshared'
    BY <1>1, <1>2, <2>1 DEF Places, FatLockUnshared
  <2>4. \A u \in Threads \ {t} : Carrying(u) => fl[u] \notin free /\ fl[u] # g /\ \A q \in Locks : fat'[q] # fl[u]
    BY <1>1, <1>2 DEF Places
  <2>5. \A u, v \in Threads : Carrying(u)' /\ Carrying(v)' /\ fl'[u] = fl'[v] => u = v
    BY <1>1, <1>3, <1>4 DEF Same, Places
  <2> QED
    BY <1>3, <1>4, <2>2, <2>3, <2>4, <2>5 DEF Places, Same
<1>7. Slocks'
  BY <1>1 DEF Slocks, Same, InSlock
<1>8. \A f \in FatLocks : t \notin waiters[f]
  BY <1>1 DEF Waiting, Carrying
<1>9. Waiting'
  BY <1>1, <1>8 DEF Waiting, Same, TypeOK
<1>10. Attachments'
  <2>1. \A f \in FatLocks, q \in Locks : Attached(f, q) => Attached(f, q)'
    <3>1. ASSUME NEW f \in FatLocks, NEW q \in Locks, Attached(f, q) PROVE Attached(f, q)'
      <4>1. CASE fat[q] = f
        <5>1. q # p
          BY <1>1, <1>2, <4>1, ThinLockAssumption DEF Accessors
        <5> QED
          BY <1>2, <4>1, <5>1 DEF Attached
      <4>2. ASSUME NEW u \in Threads, Carrying(u), fl[u] = f, lk[u] = q PROVE Attached(f, q)'
        BY <1>2, <1>4, <4>2 DEF Attached, Same
      <4> QED
        BY <3>1, <4>1, <4>2 DEF Attached
    <3> QED
      BY <3>1
  <2>2. pc'[t] = "sus_wait" \/ Asleep(t)' => fl'[t] = g /\ lk'[t] = p
    BY DEF Asleep
  <2>3. \A u \in Threads \ {t} : Asleep(u)' => Asleep(u)
    BY DEF Asleep, Same
  <2>4. Attached(g, p)'
    BY <1>2 DEF Attached
  <2> QED
    BY <1>1, <2>1, <2>2, <2>3, <2>4, AttachStep
<1> QED
  BY <1>5, <1>6, <1>7, <1>9, <1>10 DEF FatInv

\* A thread that found NULL, or has given the fat lock away, puts NULL.
LEMMA NullStep ==
  ASSUME TypeOK, FatInv, NEW t \in Threads, Same(t), pc[t] \in {"emp_null", "emp_put"}, ~Carrying(t),
         fat' = [fat EXCEPT ![lk[t]] = NoFat], lk'[t] = lk[t],
         UNCHANGED <<susp, slock, waiters, free>>,
         \/ pc'[t] = "enq_read"
         \/ pc[t] = "emp_put" /\ pc'[t] = "emp_unlock" /\ fl'[t] = fl[t]
  PROVE  FatInv'
<1> USE ThinLockAssumption DEF ThinLockAssumption
<1>1. Accessors /\ Places /\ Slocks /\ Waiting /\ Attachments
  BY DEF FatInv
<1> PICK p : p = lk[t]
  OBVIOUS
<1>2. /\ p \in Locks /\ pc[t] \in Accessing /\ fat[p] = Busy
      /\ fat'[p] = NoFat
      /\ \A q \in Locks \ {p} : fat'[q] = fat[q]
  BY <1>1 DEF TypeOK, Accessing, Accessors
<1>3. pc'[t] \notin Accessing /\ ~Carrying(t)'
  BY DEF Carrying, Accessing
<1>4. \A u \in Threads \ {t} : Carrying(u)' <=> Carrying(u)
  BY DEF Carrying, Same
<1>5. Accessors'
  <2>1. \A u \in Threads \ {t} : pc[u] \in Accessing => lk[u] # p /\ lk[u] \in Locks
    BY <1>1, <1>2 DEF Accessors, TypeOK, Accessing
  <2> QED
    BY <1>1, <1>2, <1>3, <2>1 DEF Accessors, Same
<1>6. Places'
  <2>1. \A q \in Locks : fat'[q] \in {fat[q], NoFat} /\ fat'[q] \notin free
    BY <1>1, <1>2 DEF Places, TypeOK
  <2>2. FatLockUnshared'
    BY <1>1, <1>2 DEF Places, FatLockUnshared
  <2>3. \A u \in Threads : Carrying(u) => fl[u] \in FatLocks /\ fl[u] \notin free /\ \A q \in Locks : fat'[q] # fl[u]
    BY <1>1, <2>1 DEF Places, Carrying, TypeOK, UsingFat
  <2>4. \A u, v \in Threads : Carrying(u)' /\ Carrying(v)' /\ fl'[u] = fl'[v] => u = v
    BY <1>1, <1>3, <1>4 DEF Same, Places
  <2> QED
    BY <1>3, <1>4, <2>1, <2>2, <2>3, <2>4 DEF Places, Same
<1>7. Slocks'
  BY <1>1 DEF Slocks, Same, InSlock
<1>8. \A f \in FatLocks : t \notin waiters[f]
  BY <1>1 DEF Waiting
<1>9. Waiting'
  BY <1>1, <1>8 DEF Waiting, Same, TypeOK
<1>10. Attachments'
  <2>1. \A f \in FatLocks, q \in Locks : Attached(f, q) => Attached(f, q)'
    BY <1>2, <1>4 DEF Attached, Same
  <2>2. ~(pc'[t] = "sus_wait" \/ Asleep(t)')
    BY DEF Asleep
  <2>3. \A u \in Threads \ {t} : Asleep(u)' => Asleep(u)
    BY DEF Asleep, Same
  <2> QED
    BY <1>1, <2>1, <2>2, <2>3, AttachStep
<1> QED
  BY <1>5, <1>6, <1>7, <1>9, <1>10 DEF FatInv

\* A thread that carries a fat lock locks its slock.
LEMMA SlockStep ==
  ASSUME TypeOK, FatInv, NEW t \in Threads, Same(t), AcquireSlock(t),
         \/ pc[t] = "sus_lock" /\ pc'[t] = "sus_put"
         \/ pc[t] = "emp_lock" /\ pc'[t] = "emp_check"
         \/ pc[t] = "res_lock" /\ pc'[t] = "res_put",
         UNCHANGED <<fat, susp, waiters, free, lk, fl>>
  PROVE  FatInv'
<1> USE ThinLockAssumption DEF ThinLockAssumption
<1>1. Accessors /\ Places /\ Slocks /\ Waiting /\ Attachments
  BY DEF FatInv
<1>2. \A u \in Threads : Carrying(u)' <=> Carrying(u)
  BY DEF Carrying, Same
<1>3. \A u \in Threads : pc'[u] \in Accessing <=> pc[u] \in Accessing
  BY DEF Same, Accessing
<1>4. Accessors'
  BY <1>1, <1>3 DEF Accessors
<1>5. Places'
  BY <1>1, <1>2 DEF Places, FatLockUnshared
<1>6. Slocks'
  <2>1. fl[t] \in FatLocks /\ slock[fl[t]] = NoThread /\ slock'[fl[t]] = t
    BY DEF AcquireSlock, TypeOK, UsingFat
  <2>2. \A f \in FatLocks : f # fl[t] => slock'[f] = slock[f]
    BY DEF AcquireSlock, TypeOK
  <2>3. \A u \in Threads \ {t} : pc[u] \in InSlock => fl[u] \in FatLocks /\ fl[u] # fl[t] /\ slock[fl[u]] = u
    BY <1>1, <2>1 DEF Slocks, TypeOK, InSlock, UsingFat
  <2> QED
    BY <2>1, <2>2, <2>3 DEF Slocks, Same
<1>7. \A f \in FatLocks : t \notin waiters[f]
  BY <1>1 DEF Waiting
<1>8. Waiting'
  BY <1>1, <1>7 DEF Waiting, Same, TypeOK
<1>9. Attachments'
  <2>1. \A f, q : Attached(f, q) => Attached(f, q)'
    BY <1>2 DEF Attached
  <2>2. ~(pc'[t] = "sus_wait" \/ Asleep(t)')
    BY DEF Asleep
  <2>3. \A u \in Threads \ {t} : Asleep(u)' => Asleep(u)
    BY DEF Asleep, Same
  <2> QED
    BY <1>1, <2>1, <2>2, <2>3, AttachStep
<1> QED
  BY <1>4, <1>5, <1>6, <1>8, <1>9 DEF FatInv

\* The cardinality of a set of waiters with one more, or one less.
LEMMA Counting ==
  ASSUME NEW W, IsFiniteSet(W)
  PROVE  /\ Cardinality(W) \in Nat
         /\ W # {} => Cardinality(W) >= 1
         /\ \A x : /\ IsFiniteSet(W \cup {x})
                   /\ Cardinality(W \cup {x}) <= Cardinality(W) + 1
                   /\ W = {} => Cardinality(W \cup {x}) = 1
         /\ \A x \in W : IsFiniteSet(W \ {x}) /\ Cardinality(W \ {x}) = Cardinality(W) - 1
<1>1. Cardinality(W) \in Nat /\ (Cardinality(W) = 0 <=> W = {})
  BY FS_CardinalityType, FS_EmptySet
<1>2. \A x : /\ IsFiniteSet(W \cup {x})
             /\ Cardinality(W \cup {x}) = IF x \in W THEN Cardinality(W) ELSE Cardinality(W) + 1
  BY FS_AddElement
<1>3. \A x \in W : IsFiniteSet(W \ {x}) /\ Cardinality(W \ {x}) = Cardinality(W) - 1
  BY FS_RemoveElement
<1>4. W # {} => Cardinality(W) >= 1
  BY <1>1
<1>5. \A x : /\ IsFiniteSet(W \cup {x})
             /\ Cardinality(W \cup {x}) <= Cardinality(W) + 1
             /\ W = {} => Cardinality(W \cup {x}) = 1
  <2> SUFFICES ASSUME NEW x
               PROVE  /\ IsFiniteSet(W \cup {x})
                      /\ Cardinality(W \cup {x}) <= Cardinality(W) + 1
                      /\ W = {} => Cardinality(W \cup {x}) = 1
    OBVIOUS
  <2>1. /\ IsFiniteSet(W \cup {x})
        /\ Cardinality(W \cup {x}) = IF x \in W THEN Cardinality(W) ELSE Cardinality(W) + 1
    BY <1>2
  <2>2. CASE x \in W
    BY <1>1, <2>1, <2>2
  <2>3. CASE x \notin W
    BY <1>1, <2>1, <2>3
  <2> QED
    BY <2>2, <2>3
<1> QED
  BY <1>1, <1>3, <1>4, <1>5

\* A thread releases the slock after it has put the fat lock back.
LEMMA ReleaseStep ==
  ASSUME TypeOK, FatInv, NEW t \in Threads, Same(t), pc[t] \in {"emp_unlock", "sus_wait", "res_notify"},
         pc'[t] \in {"enq_read", "emp_grab", "asleep", "idle"}, ReleaseSlock(t), UNCHANGED <<fat, free>>
  PROVE  /\ Accessors' /\ Places' /\ Slocks'
         /\ \A f, p : Attached(f, p) => Attached(f, p)'
         /\ \A f \in FatLocks : t \notin waiters[f]
<1> USE ThinLockAssumption DEF ThinLockAssumption
<1>1. Accessors /\ Places /\ Slocks /\ Waiting
  BY DEF FatInv
<1>2. \A u \in Threads : Carrying(u)' <=> Carrying(u)
  BY DEF Carrying, Same
<1>3. ~Carrying(t)
  BY DEF Carrying
<1>4. Accessors'
  BY <1>1 DEF Accessors, Accessing, Same
<1>5. Places'
  BY <1>1, <1>2, <1>3 DEF Places, FatLockUnshared, Same
<1>6. Slocks'
  <2>1. \A f \in FatLocks : f # fl[t] => slock'[f] = slock[f]
    BY DEF ReleaseSlock, TypeOK
  <2>2. slock[fl[t]] = t
    BY <1>1 DEF Slocks, InSlock
  <2>3. \A u \in Threads \ {t} : pc[u] \in InSlock => fl[u] \in FatLocks /\ fl[u] # fl[t] /\ slock[fl[u]] = u
    BY <1>1, <2>2 DEF Slocks, TypeOK, InSlock, UsingFat
  <2> QED
    BY <2>1, <2>3 DEF Slocks, Same, InSlock
<1>7. \A f, p : Attached(f, p) => Attached(f, p)'
  BY <1>2, <1>3 DEF Attached, Same
<1>8. \A f \in FatLocks : t \notin waiters[f]
  BY <1>1 DEF Waiting
<1> QED
  BY <1>4, <1>5, <1>6, <1>7, <1>8

LEMMA SuspendWaitStep ==
  ASSUME TypeOK, FatInv, NEW t \in Threads, SuspendWait(t)
  PROVE  FatInv'
<1> PICK f : f = fl[t]
  OBVIOUS
<1>1. /\ pc[t] = "sus_wait" /\ pc'[t] \in {"emp_grab", "asleep"} /\ f \in FatLocks
      /\ susp' = [susp EXCEPT ![f] = susp[f] + 1]
      /\ Same(t) /\ ReleaseSlock(t) /\ UNCHANGED <<fat, free, lk>>
  BY DEF SuspendWait, Goto, TypeOK, UsingFat, Same
<1>2. \/ /\ susp[f] + 1 < 1 /\ pc'[t] = "emp_grab" /\ waiters' = waiters
      \/ /\ ~(susp[f] + 1 < 1) /\ pc'[t] = "asleep" /\ fl' = fl
         /\ waiters' = [waiters EXCEPT ![f] = waiters[f] \cup {t}]
  BY DEF SuspendWait, Goto, TypeOK
<1>3. /\ Accessors' /\ Places' /\ Slocks'
      /\ \A g, p : Attached(g, p) => Attached(g, p)'
      /\ \A g \in FatLocks : t \notin waiters[g]
  BY <1>1, ReleaseStep
<1>4. Waiting /\ Attachments
  BY DEF FatInv
<1>5. susp[f] \in Int /\ IsFiniteSet(waiters[f])
  BY <1>1, <1>4 DEF TypeOK, Waiting
<1>6. \A g \in FatLocks \ {f} : waiters'[g] = waiters[g] /\ susp'[g] = susp[g]
  BY <1>1, <1>2 DEF TypeOK
<1>7. susp'[f] = susp[f] + 1
  BY <1>1 DEF TypeOK
<1>8. Waiting'
  <2>1. ASSUME NEW g \in FatLocks, NEW u \in waiters'[g] PROVE pc'[u] = "asleep" /\ fl'[u] = g
    <3>1. CASE u = t
      BY <1>1, <1>2, <1>3, <1>6, <2>1, <3>1 DEF TypeOK
    <3>2. CASE u # t
      <4>1. u \in waiters[g]
        BY <1>1, <1>2, <1>6, <2>1, <3>2 DEF TypeOK
      <4>2. u \in Threads
        BY <4>1 DEF TypeOK
      <4> QED
        BY <1>1, <1>4, <3>2, <4>1, <4>2 DEF Waiting, Same
    <3> QED
      BY <3>1, <3>2
  <2>2. IsFiniteSet(waiters'[f]) /\ (waiters'[f] # {} => Cardinality(waiters'[f]) <= susp'[f])
    <3>1. CASE susp[f] + 1 < 1
      <4>1. waiters[f] = {}
        BY <1>1, <1>4, <1>5, <3>1, Counting DEF Waiting
      <4> QED
        BY <1>2, <1>5, <3>1, <4>1
    <3>2. CASE ~(susp[f] + 1 < 1)
      <4>1. waiters'[f] = waiters[f] \cup {t}
        BY <1>1, <1>2, <3>2 DEF TypeOK
      <4>2. waiters[f] # {} => Cardinality(waiters[f]) <= susp[f]
        BY <1>1, <1>4 DEF Waiting
      <4>3. /\ IsFiniteSet(waiters[f] \cup {t}) /\ Cardinality(waiters[f]) \in Nat
            /\ Cardinality(waiters[f] \cup {t}) <= Cardinality(waiters[f]) + 1
            /\ waiters[f] = {} => Cardinality(waiters[f] \cup {t}) = 1
        BY <1>5, Counting
      <4>4. Cardinality(waiters[f] \cup {t}) \in Nat
        BY <4>3, FS_CardinalityType
      <4> QED
        BY <1>5, <1>7, <3>2, <4>1, <4>2, <4>3, <4>4
    <3> QED
      BY <3>1, <3>2
  <2>3. ASSUME NEW g \in FatLocks \ {f}
        PROVE  IsFiniteSet(waiters'[g]) /\ (waiters'[g] # {} => Cardinality(waiters'[g]) <= susp'[g])
    BY <1>4, <1>6 DEF Waiting
  <2> QED
    BY <2>1, <2>2, <2>3 DEF Waiting
<1>9. Attachments'
  <2>1. \A u \in Threads \ {t} : Asleep(u)' => Asleep(u)
    BY <1>1, <1>2 DEF Asleep, Same, TypeOK, UsingFat
  <2>2. pc'[t] = "sus_wait" \/ Asleep(t)' => fl'[t] = fl[t] /\ lk'[t] = lk[t]
    BY <1>1, <1>2 DEF Asleep
  <2>3. Attached(fl[t], lk[t])
    BY <1>1, <1>4 DEF Attachments
  <2>4. \A g, p : g = fl[t] /\ p = lk[t] => Attached(g, p)'
    BY <1>3, <2>3
  <2> QED
    BY <1>1, <1>3, <1>4, <2>1, <2>2, <2>4, AttachStep
<1> QED
  BY <1>3, <1>8, <1>9 DEF FatInv

LEMMA ResumeNotifyStep ==
  ASSUME TypeOK, FatInv, NEW t \in Threads, ResumeNotify(t)
  PROVE  FatInv'
<1> PICK f : f = fl[t]
  OBVIOUS
<1>1. /\ pc[t] = "res_notify" /\ pc'[t] = "idle" /\ f \in FatLocks
      /\ susp' = [susp EXCEPT ![f] = susp[f] - 1]
      /\ Same(t) /\ ReleaseSlock(t) /\ UNCHANGED <<fat, free>>
  BY DEF ResumeNotify, Goto, TypeOK, UsingFat, Same
<1>2. \/ (susp[f] - 1 < 0 \/ waiters[f] = {}) /\ waiters' = waiters
      \/ \E u \in waiters[f] : waiters' = [waiters EXCEPT ![f] = waiters[f] \ {u}]
  BY DEF ResumeNotify
<1>3. /\ Accessors' /\ Places' /\ Slocks'
      /\ \A g, p : Attached(g, p) => Attached(g, p)'
      /\ \A g \in FatLocks : t \notin waiters[g]
  BY <1>1, ReleaseStep
<1>4. Waiting /\ Attachments
  BY DEF FatInv
<1>5. susp[f] \in Int /\ IsFiniteSet(waiters[f])
  BY <1>1, <1>4 DEF TypeOK, Waiting
<1>6. \A g \in FatLocks \ {f} : waiters'[g] = waiters[g] /\ susp'[g] = susp[g]
  BY <1>1, <1>2 DEF TypeOK
<1>7. susp'[f] = susp[f] - 1
  BY <1>1 DEF TypeOK
<1>8. \A g \in FatLocks : waiters'[g] \subseteq waiters[g]
  BY <1>1, <1>2, <1>6 DEF TypeOK
<1>9. Waiting'
  <2>1. ASSUME NEW g \in FatLocks, NEW u \in waiters'[g] PROVE pc'[u] = "asleep" /\ fl'[u] = g
    <3>1. u \in waiters[g] /\ u \in Threads /\ u # t
      BY <1>3, <1>8, <2>1 DEF TypeOK
    <3> QED
      BY <1>1, <1>4, <3>1 DEF Waiting, Same
  <2>2. IsFiniteSet(waiters'[f]) /\ (waiters'[f] # {} => Cardinality(waiters'[f]) <= susp'[f])
    <3>1. waiters[f] # {} => Cardinality(waiters[f]) <= susp[f] /\ Cardinality(waiters[f]) >= 1
      BY <1>1, <1>4, <1>5, Counting DEF Waiting
    <3>2. Cardinality(waiters[f]) \in Nat
      BY <1>5, Counting
    <3>3. CASE (susp[f] - 1 < 0 \/ waiters[f] = {}) /\ waiters' = waiters
      <4>1. waiters[f] = {}
        BY <1>5, <3>1, <3>2, <3>3
      <4> QED
        BY <1>5, <3>3, <4>1
    <3>4. ASSUME NEW u \in waiters[f], waiters' = [waiters EXCEPT ![f] = waiters[f] \ {u}]
          PROVE  IsFiniteSet(waiters'[f]) /\ Cardinality(waiters'[f]) <= susp'[f]
      <4>1. waiters'[f] = waiters[f] \ {u}
        BY <1>1, <3>4 DEF TypeOK
      <4>2. IsFiniteSet(waiters[f] \ {u}) /\ Cardinality(waiters[f] \ {u}) = Cardinality(waiters[f]) - 1
        BY <1>5, Counting
      <4>3. Cardinality(waiters[f]) <= susp[f]
        BY <3>1
      <4> QED
        BY <1>5, <1>7, <3>2, <4>1, <4>2, <4>3
    <3> QED
      BY <1>2, <3>3, <3>4
  <2>3. ASSUME NEW g \in FatLocks \ {f}
        PROVE  IsFiniteSet(waiters'[g]) /\ (waiters'[g] # {} => Cardinality(waiters'[g]) <= susp'[g])
    BY <1>4, <1>6 DEF Waiting
  <2> QED
    BY <2>1, <2>2, <2>3 DEF Waiting
<1>10. Attachments'
  <2>1. \A u \in Threads \ {t} : Asleep(u)' => Asleep(u)
    BY <1>1, <1>8 DEF Asleep, Same, TypeOK, UsingFat
  <2>2. ~(pc'[t] = "sus_wait" \/ Asleep(t)')
    BY <1>1 DEF Asleep
  <2> QED
    BY <1>1, <1>3, <1>4, <2>1, <2>2, AttachStep
<1> QED
  BY <1>3, <1>9, <1>10 DEF FatInv

LEMMA EmptyUnlockStep ==
  ASSUME TypeOK, FatInv, NEW t \in Threads, EmptyUnlock(t)
  PROVE  FatInv'
<1>1. /\ pc[t] = "emp_unlock" /\ pc'[t] = "enq_read"
      /\ Same(t) /\ ReleaseSlock(t) /\ UNCHANGED <<fat, free, susp, waiters>>
  BY DEF EmptyUnlock, Goto, TypeOK, Same
<1>2. /\ Accessors' /\ Places' /\ Slocks'
      /\ \A g, p : Attached(g, p) => Attached(g, p)'
      /\ \A g \in FatLocks : t \notin waiters[g]
  BY <1>1, ReleaseStep
<1>3. Waiting /\ Attachments
  BY DEF FatInv
<1>4. Waiting'
  BY <1>1, <1>2, <1>3 DEF Waiting, Same, TypeOK
<1>5. Attachments'
  <2>1. \A u \in Threads \ {t} : Asleep(u)' => Asleep(u)
    BY <1>1 DEF Asleep, Same
  <2>2. ~(pc'[t] = "sus_wait" \/ Asleep(t)')
    BY <1>1 DEF Asleep
  <2> QED
    BY <1>1, <1>2, <1>3, <2>1, <2>2, AttachStep
<1> QED
  BY <1>2, <1>4, <1>5 DEF FatInv

\* A fat lock goes back to the pool only when nobody sleeps on it, or is about
\* to: its slock is held and its susp is below 1.
LEMMA EmptyCheckStep ==
  ASSUME TypeOK, FatInv, NEW t \in Threads, EmptyCheck(t)
  PROVE  FatInv'
<1> USE ThinLockAssumption DEF ThinLockAssumption
<1> PICK f : f = fl[t]
  OBVIOUS
<1>1. /\ pc[t] = "emp_check" /\ pc'[t] = "emp_put" /\ f \in FatLocks
      /\ Same(t) /\ UNCHANGED <<fat, slock, waiters, fl, lk>>
  BY DEF EmptyCheck, Goto, TypeOK, UsingFat, Same
<1>2. \/ susp[f] < 1 /\ ~meWait'[t] /\ susp' = [susp EXCEPT ![f] = -1] /\ free' = free \cup {f}
      \/ ~(susp[f] < 1) /\ meWait'[t] /\ susp' = susp /\ free' = free
  BY DEF EmptyCheck, TypeOK
<1>3. Accessors /\ Places /\ Slocks /\ Waiting /\ Attachments
  BY DEF FatInv
<1>4. \A u \in Threads \ {t} : Carrying(u)' <=> Carrying(u)
  BY <1>1 DEF Carrying, Same
<1>5. Carrying(t) /\ (Carrying(t)' <=> meWait'[t])
  BY <1>1 DEF Carrying
<1>6. Accessors'
  <2>1. \A u \in Threads : pc'[u] \in Accessing <=> pc[u] \in Accessing
    BY <1>1 DEF Same, Accessing
  <2> QED
    BY <1>1, <1>3, <2>1 DEF Accessors
<1>7. Places'
  <2>1. f \notin free /\ \A p \in Locks : fat[p] # f
    BY <1>3, <1>5 DEF Places
  <2>2. \A u \in Threads \ {t} : Carrying(u) => fl[u] # f
    BY <1>3, <1>5 DEF Places
  <2>3. \A p \in Locks : fat'[p] \notin free'
    BY <1>1, <1>2, <1>3, <2>1 DEF Places
  <2>4. FatLockUnshared'
    BY <1>1, <1>3 DEF Places, FatLockUnshared
  <2>5. \A u \in Threads : Carrying(u)' => fl[u] \notin free' /\ \A p \in Locks : fat[p] # fl[u]
    BY <1>2, <1>3, <1>4, <1>5, <2>2 DEF Places
  <2>6. \A u, v \in Threads : Carrying(u)' /\ Carrying(v)' /\ fl[u] = fl[v] => u = v
    BY <1>3, <1>4, <1>5 DEF Places
  <2> QED
    BY <1>1, <2>3, <2>4, <2>5, <2>6 DEF Places
<1>8. Slocks'
  BY <1>1, <1>3 DEF Slocks, Same, InSlock
<1>9. waiters[f] # {} => ~(susp[f] < 1)
  <2>1. susp[f] \in Int /\ IsFiniteSet(waiters[f])
    BY <1>1, <1>3 DEF TypeOK, Waiting
  <2> QED
    BY <1>1, <1>3, <2>1, Counting DEF Waiting
<1>10. \A g \in FatLocks : t \notin waiters[g]
  BY <1>1, <1>3 DEF Waiting
<1>11. Waiting'
  <2>1. \A g \in FatLocks : waiters[g] # {} => susp'[g] = susp[g]
    BY <1>1, <1>2, <1>9 DEF TypeOK
  <2> QED
    BY <1>1, <1>3, <1>10, <2>1 DEF Waiting, Same, TypeOK
<1>12. Attachments'
  <2>1. ASSUME NEW u \in Threads \ {t}, NEW g \in FatLocks, NEW p \in Locks,
               pc[u] = "sus_wait" \/ Asleep(u), g = fl[u], p = lk[u], Attached(g, p)
        PROVE  Attached(g, p)'
    <3>1. CASE fat[p] = g
      BY <1>1, <3>1 DEF Attached
    <3>2. ASSUME NEW v \in Threads \ {t}, Carrying(v), fl[v] = g, lk[v] = p PROVE Attached(g, p)'
      BY <1>1, <1>4, <3>2 DEF Attached
    <3>3. CASE Carrying(t) /\ fl[t] = g /\ lk[t] = p
      <4>1. pc[u] # "sus_wait"
        BY <1>1, <1>3, <2>1, <3>3 DEF Slocks, InSlock
      <4>2. u \in waiters[f]
        BY <2>1, <3>3, <4>1 DEF Asleep
      <4>3. Carrying(t)'
        BY <1>2, <1>5, <1>9, <4>2
      <4> QED
        BY <1>1, <3>3, <4>3 DEF Attached
    <3> QED
      BY <2>1, <3>1, <3>2, <3>3 DEF Attached
  <2>2. ~(pc'[t] = "sus_wait" \/ Asleep(t)')
    BY <1>1 DEF Asleep
  <2>3. \A u \in Threads \ {t} : Asleep(u)' => Asleep(u)
    BY <1>1 DEF Asleep, Same
  <2> QED
    BY <1>1, <1>3, <2>1, <2>2, <2>3, AttachStep
<1> QED
  BY <1>6, <1>7, <1>8, <1>11, <1>12 DEF FatInv

\* js_Enqueue takes a fat lock of the pool: nobody sleeps on one of those.
LEMMA AllocStep ==
  ASSUME TypeOK, FatInv, NEW t \in Threads, EnqGrab(t), fat[lk[t]] = NoFat
  PROVE  FatInv'
<1> USE ThinLockAssumption DEF ThinLockAssumption
<1>1. Accessors /\ Places /\ Slocks /\ Waiting /\ Attachments
  BY DEF FatInv
<1> PICK p : p = lk[t]
  OBVIOUS
<1> PICK m \in free : /\ free' = free \ {m}
                      /\ susp' = [susp EXCEPT ![m] = 0]
                      /\ fl' = [fl EXCEPT ![t] = m]
  BY DEF EnqGrab
<1>2. /\ p \in Locks /\ m \in FatLocks /\ fat[p] = NoFat
      /\ pc[t] = "enq_grab" /\ pc'[t] = "enq_put" /\ lk'[t] = p /\ fl'[t] = m
      /\ fat'[p] = Busy
      /\ \A q \in Locks \ {p} : fat'[q] = fat[q]
      /\ Same(t) /\ UNCHANGED <<slock, waiters>>
  BY DEF EnqGrab, GrabFat, Goto, TypeOK, Same
<1>3. Carrying(t)' /\ ~Carrying(t)
  BY <1>2 DEF Carrying
<1>4. \A u \in Threads \ {t} : Carrying(u)' <=> Carrying(u)
  BY <1>2 DEF Carrying, Same
<1>5. Accessors'
  <2>1. \A u \in Threads : pc[u] \in Accessing => lk[u] # p /\ lk[u] \in Locks
    BY <1>1, <1>2 DEF Accessors, TypeOK, Accessing
  <2> QED
    BY <1>1, <1>2, <2>1 DEF Accessors, Same
<1>6. Places'
  <2>1. \A q \in Locks : fat'[q] \in {fat[q], Busy} /\ fat'[q] \notin free /\ fat'[q] # m
    BY <1>1, <1>2 DEF Places, TypeOK
  <2>2. FatLockUnshared'
    BY <1>1, <1>2, <2>1 DEF Places, FatLockUnshared
  <2>3. \A u \in Threads : Carrying(u) => fl[u] \in FatLocks /\ fl[u] \notin free /\ fl[u] # m /\ \A q \in Locks : fat'[q] # fl[u]
    BY <1>1, <1>2, <2>1 DEF Places, Carrying, TypeOK, UsingFat
  <2>4. \A u \in Threads : Carrying(u)' => fl'[u] \notin free' /\ \A q \in Locks : fat'[q] # fl'[u]
    BY <1>2, <1>3, <1>4, <2>1, <2>3 DEF Same
  <2>5. \A u, v \in Threads : Carrying(u)' /\ Carrying(v)' /\ fl'[u] = fl'[v] => u = v
    BY <1>1, <1>2, <1>4, <2>3 DEF Same, Places
  <2> QED
    BY <2>1, <2>2, <2>4, <2>5 DEF Places
<1>7. Slocks'
  BY <1>1, <1>2 DEF Slocks, Same, InSlock
<1>8. \A f \in FatLocks : t \notin waiters[f]
  BY <1>1, <1>2 DEF Waiting
<1>9. waiters[m] = {}
  <2> SUFFICES ASSUME NEW u \in waiters[m] PROVE FALSE
    OBVIOUS
  <2>1. u \in Threads /\ Asleep(u) /\ fl[u] = m /\ lk[u] \in Locks
    BY <1>1, <1>2 DEF Waiting, Asleep, TypeOK
  <2>2. Attached(m, lk[u])
    BY <1>1, <2>1 DEF Attachments
  <2> QED
    BY <1>1, <2>1, <2>2 DEF Attached, Places
<1>10. Waiting'
  <2>1. \A f \in FatLocks \ {m} : susp'[f] = susp[f]
    BY <1>2 DEF TypeOK
  <2> QED
    BY <1>1, <1>2, <1>8, <1>9, <2>1 DEF Waiting, Same, TypeOK
<1>11. Attachments'
  <2>1. \A f \in FatLocks, q \in Locks : Attached(f, q) => Attached(f, q)'
    BY <1>2, <1>3, <1>4 DEF Attached, Same
  <2>2. ~(pc'[t] = "sus_wait" \/ Asleep(t)')
    BY <1>2 DEF Asleep
  <2>3. \A u \in Threads \ {t} : Asleep(u)' => Asleep(u)
    BY <1>2 DEF Asleep, Same
  <2> QED
    BY <1>1, <1>2, <2>1, <2>2, <2>3, AttachStep
<1> QED
  BY <1>5, <1>6, <1>7, <1>10, <1>11 DEF FatInv

\* The steps that only read or set the lock word.
LEMMA WordSteps ==
  ASSUME TypeOK, FatInv, NEW t \in Threads,
         \/ \E p \in Locks : CallLock(t, p)
         \/ CallUnlock(t) \/ LockFast(t) \/ LockContended(t)
         \/ EnqRead(t) \/ EnqSetWait(t) \/ EnqCas(t)
         \/ UnlockFast(t) \/ UnlockContended(t) \/ DeqRead(t) \/ DeqCas(t) \/ SuspendWake(t)
  PROVE  FatInv'
<1>1. UNCHANGED <<fat, susp, slock, waiters, free>>
  BY DEF CallLock, CallUnlock, LockFast, LockContended, EnqRead, EnqSetWait, EnqCas,
         UnlockFast, UnlockContended, DeqRead, DeqCas, SuspendWake, fatVars
<1>2. pc'[t] \in Plain /\ \A u \in Threads \ {t} : pc'[u] = pc[u]
  BY DEF CallLock, CallUnlock, LockFast, LockContended, EnqRead, EnqSetWait, EnqCas,
         UnlockFast, UnlockContended, DeqRead, DeqCas, SuspendWake, Goto, Plain, Grabbing, TypeOK
<1>3. pc[t] \in Plain \/ (pc[t] = "asleep" /\ t \notin waiters[fl[t]])
  BY DEF CallLock, CallUnlock, LockFast, LockContended, EnqRead, EnqSetWait, EnqCas,
         UnlockFast, UnlockContended, DeqRead, DeqCas, SuspendWake, Goto, Plain, Grabbing
<1>4. \A u \in Threads \ {t} : lk'[u] = lk[u] /\ fl'[u] = fl[u] /\ meWait'[u] = meWait[u]
  BY DEF CallLock, CallUnlock, LockFast, LockContended, EnqRead, EnqSetWait, EnqCas,
         UnlockFast, UnlockContended, DeqRead, DeqCas, SuspendWake, TypeOK
<1>5. Same(t)
  BY <1>2, <1>4 DEF Same
<1> QED
  BY <1>1, <1>2, <1>3, <1>5, PlainStep

\* The steps that exchange p->fat with 1.
LEMMA GrabSteps ==
  ASSUME TypeOK, FatInv, NEW t \in Threads,
         EnqGrab(t) \/ SuspendGrab(t) \/ EmptyGrab(t) \/ ResumeGrab(t)
  PROVE  FatInv'
<1>1. CASE EnqGrab(t) /\ fat[lk[t]] = NoFat
  BY <1>1, AllocStep
<1>2. CASE (EnqGrab(t) /\ fat[lk[t]] # NoFat) \/ SuspendGrab(t) \/ EmptyGrab(t) \/ ResumeGrab(t)
  <2>1. UNCHANGED <<susp, slock, waiters, free, meWait>>
    BY <1>2 DEF EnqGrab, SuspendGrab, EmptyGrab, ResumeGrab, fatVars
  <2>2. /\ pc[t] \in Grabbing /\ \A u \in Threads \ {t} : pc'[u] = pc[u]
    BY <1>2 DEF EnqGrab, SuspendGrab, EmptyGrab, ResumeGrab, Goto, Grabbing, TypeOK
  <2>3. fat[lk[t]] # Busy /\ fat' = [fat EXCEPT ![lk[t]] = Busy]
    BY <1>2 DEF EnqGrab, SuspendGrab, EmptyGrab, ResumeGrab, GrabFat
  <2>4. fl'[t] = fat[lk[t]] /\ \A u \in Threads \ {t} : lk'[u] = lk[u] /\ fl'[u] = fl[u]
    BY <1>2 DEF EnqGrab, SuspendGrab, EmptyGrab, ResumeGrab, TypeOK
  <2>5. fat[lk[t]] \in FatLocks \cup {NoFat}
    BY <2>2, <2>3 DEF TypeOK, Grabbing
  <2>6. \/ /\ fat[lk[t]] # NoFat
           /\ pc'[t] \in {"enq_put", "sus_lock", "emp_lock", "res_lock"}
           /\ lk'[t] = lk[t]
        \/ /\ fat[lk[t]] = NoFat
           /\ (pc'[t] = "emp_null" /\ lk'[t] = lk[t]) \/ pc'[t] \in {"emp_grab", "idle"}
    BY <1>2 DEF EnqGrab, SuspendGrab, EmptyGrab, ResumeGrab, Goto, TypeOK
  <2>7. Same(t)
    BY <2>1, <2>2, <2>4 DEF Same
  <2> QED
    BY <2>1, <2>2, <2>3, <2>4, <2>5, <2>6, <2>7, GrabStep
<1> QED
  BY <1>1, <1>2

\* The steps that store p->fat.
LEMMA PutSteps ==
  ASSUME TypeOK, FatInv, NEW t \in Threads,
         EnqPut(t) \/ SuspendPut(t) \/ ResumePut(t) \/ EmptyPut(t) \/ EmptyNull(t)
  PROVE  FatInv'
<1>1. UNCHANGED <<susp, slock, waiters, free, lk>>
  BY DEF EnqPut, SuspendPut, ResumePut, EmptyPut, EmptyNull, fatVars
<1>2. Same(t)
  BY DEF EnqPut, SuspendPut, ResumePut, EmptyPut, EmptyNull, Goto, TypeOK, Same
<1>3. CASE EnqPut(t) \/ SuspendPut(t) \/ ResumePut(t) \/ (EmptyPut(t) /\ meWait[t])
  <2>1. Carrying(t)
    BY <1>3 DEF EnqPut, SuspendPut, ResumePut, EmptyPut, Goto, Carrying
  <2>2. fat' = [fat EXCEPT ![lk[t]] = fl[t]]
    BY <1>3 DEF EnqPut, SuspendPut, ResumePut, EmptyPut, PutFat
  <2>3. \/ pc'[t] = "sus_grab"
        \/ pc'[t] \in {"sus_wait", "emp_unlock", "res_notify"} /\ fl'[t] = fl[t] /\ pc[t] \in InSlock
    BY <1>3 DEF EnqPut, SuspendPut, ResumePut, EmptyPut, Goto, TypeOK, InSlock
  <2> QED
    BY <1>1, <1>2, <2>1, <2>2, <2>3, PutStep
<1>4. CASE EmptyNull(t) \/ (EmptyPut(t) /\ ~meWait[t])
  <2>1. ~Carrying(t) /\ pc[t] \in {"emp_null", "emp_put"}
    BY <1>4 DEF EmptyPut, EmptyNull, Goto, Carrying
  <2>2. fat' = [fat EXCEPT ![lk[t]] = NoFat]
    BY <1>4 DEF EmptyPut, EmptyNull, PutFat
  <2>3. \/ pc'[t] = "enq_read"
        \/ pc[t] = "emp_put" /\ pc'[t] = "emp_unlock" /\ fl'[t] = fl[t]
    BY <1>4 DEF EmptyPut, EmptyNull, Goto, TypeOK
  <2> QED
    BY <1>1, <1>2, <2>1, <2>2, <2>3, NullStep
<1> QED
  BY <1>3, <1>4 DEF TypeOK

LEMMA SlockSteps ==
  ASSUME TypeOK, FatInv, NEW t \in Threads, SuspendLock(t) \/ EmptyLock(t) \/ ResumeLock(t)
  PROVE  FatInv'
<1>1. UNCHANGED <<fat, susp, waiters, free, lk, fl, meWait>> /\ AcquireSlock(t)
  BY DEF SuspendLock, EmptyLock, ResumeLock
<1>2. \/ pc[t] = "sus_lock" /\ pc'[t] = "sus_put"
      \/ pc[t] = "emp_lock" /\ pc'[t] = "emp_check"
      \/ pc[t] = "res_lock" /\ pc'[t] = "res_put"
  BY DEF SuspendLock, EmptyLock, ResumeLock, Goto, TypeOK
<1>3. Same(t)
  BY <1>1 DEF SuspendLock, EmptyLock, ResumeLock, Goto, TypeOK, Same
<1> QED
  BY <1>1, <1>2, <1>3, SlockStep

LEMMA FatStep == TypeOK /\ FatInv /\ [Next]_vars => FatInv'
<1> SUFFICES ASSUME TypeOK, FatInv, [Next]_vars PROVE FatInv'
  OBVIOUS
<1>1. CASE UNCHANGED vars
  BY <1>1 DEF vars, FatInv, Accessors, Places, FatLockUnshared, Slocks, Waiting, Attachments,
              Attached, Asleep, Carrying
<1>2. ASSUME NEW t \in Threads, (\E p \in Locks : CallLock(t, p)) \/ CallUnlock(t) \/ LockCode(t)
      PROVE  FatInv'
  <2>1. CASE BusyWait(t)
    BY <1>1, <2>1 DEF BusyWait
  <2> QED
    BY <1>2, <2>1, WordSteps, GrabSteps, PutSteps, SlockSteps, SuspendWaitStep, ResumeNotifyStep,
       EmptyCheckStep, EmptyUnlockStep
       DEF LockCode, Enqueue, SuspendThread, EmptyFatlock, Unlock, ResumeThread
<1> QED
  BY <1>1, <1>2 DEF Next

LEMMA FatInvSound == TypeOK /\ FatInv => FatLocksSound
<1> SUFFICES ASSUME TypeOK, FatInv PROVE FatLocksSound
  OBVIOUS
<1>1. Accessors /\ Places /\ Attachments
  BY DEF FatInv
<1>2. ASSUME NEW t \in Threads, Asleep(t) PROVE fl[t] \notin free /\ fat[lk[t]] \in {fl[t], Busy}
  <2>1. Attached(fl[t], lk[t]) /\ lk[t] \in Locks
    BY <1>1, <1>2 DEF Attachments, TypeOK, Asleep
  <2>2. CASE fat[lk[t]] = fl[t]
    BY <1>1, <2>1, <2>2 DEF Places
  <2>3. ASSUME NEW u \in Threads, Carrying(u), fl[u] = fl[t], lk[u] = lk[t]
        PROVE  fl[t] \notin free /\ fat[lk[t]] \in {fl[t], Busy}
    BY <1>1, <2>3 DEF Places, Accessors, Carrying, Accessing
  <2> QED
    BY <2>1, <2>2, <2>3 DEF Attached
<1> QED
  BY <1>1, <1>2 DEF FatLocksSound, SleeperKeepsFatLock, Places

\* Nobody sleeps on a fat lock that the pool or another thin lock has
\* (emptyFatlock, allocateFatlock, jslock.c:494-548): whatever the threads that
\* enqueue, suspend, empty and resume do in between.
THEOREM FatLocksCorrect == Spec => []FatLocksSound
<1>1. Init => FatInv
  BY FatInit
<1>2. TypeOK /\ FatInv /\ [Next]_vars => FatInv'
  BY FatStep
<1>3. TypeOK /\ FatInv => FatLocksSound
  BY FatInvSound
<1> QED
  BY TypeCorrect, <1>1, <1>2, <1>3, PTL DEF Spec
=============================================================================

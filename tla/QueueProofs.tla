---------------------------- MODULE QueueProofs ----------------------------
(* Proofs about Queue.h for any number of producers and consumers, any       *)
(* capacity and any number of calls, with or without spurious wakeups.       *)
EXTENDS Queue, TLAPS

USE CapacityAssumption, MaxItemsAssumption, SpuriousAssumption,
    ThreadsAssumption

(* A thread inside its critical section is the one that holds the mutex.     *)
LockInv == \A t \in Threads : pc[t] \in {"test", "act"} => holder = t

(* A producer in the middle of push() has that call left.                    *)
CallInv == \A p \in Producers : pc[p] # "ready" => sent[p] < MaxItems

(* The flags are set by the first step of the calls that set them.           *)
FlagInv == /\ finished <=> finishPc # "idle"
           /\ quit <=> quitPc # "idle"

BaseInv == TypeOK /\ LockInv /\ CallInv /\ FlagInv

(* Between its two notifications quit() has dealt with the consumers: the    *)
(* only thread that may still sleep unnoticed, or is asleep as a consumer,   *)
(* is the one that was past its test of the flag.                            *)
LateCallers == Stranded(Consumers) \cup {p \in Producers : pc[p] = "act"}

QuitInv == /\ quitPc = "emptied" => \A s, t \in LateCallers : s = t
           /\ QuitStrandsAtMostOne

(* Likewise a consumer that found the queue empty when finished() notified.  *)
LateConsumers == {c \in Consumers : \/ pc[c] = "asleep"
                                    \/ pc[c] = "act" /\ buffer = << >>}

FinishInv == finishPc = "done" => \A s, t \in LateConsumers : s = t

IInv == /\ BaseInv
        /\ SleepersJustified
        /\ QuitInv
        /\ FinishInv
        /\ EndOfStreamIsFinal

-----------------------------------------------------------------------------
(* Every step of Queue.h keeps the types, the capacity, the mutex and the    *)
(* flags consistent.                                                         *)
LEMMA BaseStep == BaseInv /\ [Next]_vars => BaseInv'
<1> SUFFICES ASSUME BaseInv, [Next]_vars
             PROVE  BaseInv'
  OBVIOUS
<1> USE DEF BaseInv, TypeOK, LockInv, CallInv, FlagInv, Threads, PCs
<1>1. ASSUME NEW t \in Threads, Lock(t) PROVE BaseInv'
  BY <1>1 DEF Lock, UnchangedFlags
<1>2. ASSUME NEW t \in Threads, SpuriousWake(t) PROVE BaseInv'
  BY <1>2 DEF SpuriousWake, UnchangedFlags
<1>3. ASSUME NEW p \in Producers, PushTest(p) PROVE BaseInv'
  BY <1>3 DEF PushTest, Release, UnchangedFlags
<1>4. ASSUME NEW p \in Producers, PushStore(p) PROVE BaseInv'
  <2>1. sent[p] < MaxItems /\ sent[p] + 1 \in 1..MaxItems
    BY <1>4 DEF PushStore
  <2>2. <<p, sent[p] + 1>> \in Item
    BY <2>1 DEF Item
  <2>3. buffer' \in Seq(Item) /\ Len(buffer') <= Capacity
    BY <1>4, <2>2 DEF PushStore
  <2> QED
    BY <1>4, <2>1, <2>3 DEF PushStore, Release, UnchangedFlags, Notified
<1>5. ASSUME NEW p \in Producers, PushWait(p) PROVE BaseInv'
  BY <1>5 DEF PushWait, Release, UnchangedFlags
<1>6. ASSUME NEW c \in Consumers, PopTest(c) PROVE BaseInv'
  BY <1>6 DEF PopTest, Release, UnchangedFlags
<1>7. ASSUME NEW c \in Consumers, PopTake(c) PROVE BaseInv'
  <2>1. buffer' \in Seq(Item) /\ Len(buffer') <= Capacity
    BY <1>7 DEF PopTake
  <2> QED
    BY <1>7, <2>1 DEF PopTake, Release, UnchangedFlags, Notified
<1>8. ASSUME NEW c \in Consumers, PopWait(c) PROVE BaseInv'
  BY <1>8 DEF PopWait, Release, UnchangedFlags
<1>9. ASSUME FinishSet PROVE BaseInv'
  BY <1>9 DEF FinishSet
<1>10. ASSUME FinishNotify PROVE BaseInv'
  BY <1>10 DEF FinishNotify, Notified
<1>11. ASSUME QuitSet PROVE BaseInv'
  BY <1>11 DEF QuitSet
<1>12. ASSUME QuitNotifyEmpty PROVE BaseInv'
  BY <1>12 DEF QuitNotifyEmpty, Notified
<1>13. ASSUME QuitNotifyFull PROVE BaseInv'
  BY <1>13 DEF QuitNotifyFull, Notified
<1>14. CASE UNCHANGED vars
  BY <1>14 DEF vars
<1>15. QED
  BY <1>1, <1>2, <1>3, <1>4, <1>5, <1>6, <1>7, <1>8, <1>9, <1>10, <1>11, <1>12,
     <1>13, <1>14 DEF Next, Push, Pop, Close

(* A consumer goes to sleep on an empty queue and is woken by the next push; *)
(* a producer goes to sleep on a full one and is woken by the next pop.      *)
LEMMA SleepersStep ==
  BaseInv /\ SleepersJustified /\ [Next]_vars => SleepersJustified'
<1> SUFFICES ASSUME BaseInv, SleepersJustified, [Next]_vars
             PROVE  SleepersJustified'
  OBVIOUS
<1> USE
   DEF BaseInv, TypeOK, LockInv, FlagInv, Threads, PCs, SleepersJustified,
       Asleep
<1>1. ASSUME NEW t \in Threads, Lock(t) PROVE SleepersJustified'
  BY <1>1 DEF Lock, UnchangedFlags
<1>2. ASSUME NEW t \in Threads, SpuriousWake(t) PROVE SleepersJustified'
  BY <1>2 DEF SpuriousWake, UnchangedFlags
<1>3. ASSUME NEW p \in Producers, PushTest(p) PROVE SleepersJustified'
  BY <1>3 DEF PushTest, Release, UnchangedFlags
<1>4. ASSUME NEW p \in Producers, PushStore(p) PROVE SleepersJustified'
  <2>1. \A t \in Producers : pc[t] # "asleep"
    BY <1>4 DEF PushStore
  <2>2. \A t \in Threads : pc'[t] # "asleep"
    BY <1>4, <2>1 DEF PushStore, Notified
  <2> QED
    BY <2>2
<1>5. ASSUME NEW p \in Producers, PushWait(p) PROVE SleepersJustified'
  BY <1>5 DEF PushWait, Release, UnchangedFlags
<1>6. ASSUME NEW c \in Consumers, PopTest(c) PROVE SleepersJustified'
  BY <1>6 DEF PopTest, Release, UnchangedFlags
<1>7. ASSUME NEW c \in Consumers, PopTake(c) PROVE SleepersJustified'
  BY <1>7 DEF PopTake, Release, UnchangedFlags, Notified
<1>8. ASSUME NEW c \in Consumers, PopWait(c) PROVE SleepersJustified'
  BY <1>8 DEF PopWait, Release, UnchangedFlags
<1>9. ASSUME FinishSet PROVE SleepersJustified'
  BY <1>9 DEF FinishSet
<1>10. ASSUME FinishNotify PROVE SleepersJustified'
  BY <1>10 DEF FinishNotify, Notified
<1>11. ASSUME QuitSet PROVE SleepersJustified'
  BY <1>11 DEF QuitSet
<1>12. ASSUME QuitNotifyEmpty PROVE SleepersJustified'
  BY <1>12 DEF QuitNotifyEmpty, Notified
<1>13. ASSUME QuitNotifyFull PROVE SleepersJustified'
  BY <1>13 DEF QuitNotifyFull, Notified
<1>14. CASE UNCHANGED vars
  BY <1>14 DEF vars
<1>15. QED
  BY <1>1, <1>2, <1>3, <1>4, <1>5, <1>6, <1>7, <1>8, <1>9, <1>10, <1>11, <1>12,
     <1>13, <1>14 DEF Next, Push, Pop, Close

(* After quit() has set its flag nobody passes the test any more, so the set *)
(* of threads that can miss its notifications only shrinks.                  *)
LEMMA QuitStep == BaseInv /\ QuitInv /\ [Next]_vars => QuitInv'
<1> SUFFICES ASSUME BaseInv, QuitInv, [Next]_vars
             PROVE  QuitInv'
  OBVIOUS
<1> USE
   DEF BaseInv, TypeOK, LockInv, FlagInv, Threads, PCs, QuitInv,
       QuitStrandsAtMostOne, LateCallers, Stranded
<1>1. ASSUME NEW t \in Threads, Lock(t) PROVE QuitInv'
  BY <1>1 DEF Lock, UnchangedFlags
<1>2. ASSUME NEW t \in Threads, SpuriousWake(t) PROVE QuitInv'
  BY <1>2 DEF SpuriousWake, UnchangedFlags
<1>3. ASSUME NEW p \in Producers, PushTest(p) PROVE QuitInv'
  BY <1>3 DEF PushTest, Release, UnchangedFlags
<1>4. ASSUME NEW p \in Producers, PushStore(p) PROVE QuitInv'
  BY <1>4 DEF PushStore, Release, UnchangedFlags, Notified
<1>5. ASSUME NEW p \in Producers, PushWait(p) PROVE QuitInv'
  BY <1>5 DEF PushWait, Release, UnchangedFlags
<1>6. ASSUME NEW c \in Consumers, PopTest(c) PROVE QuitInv'
  BY <1>6 DEF PopTest, Release, UnchangedFlags
<1>7. ASSUME NEW c \in Consumers, PopTake(c) PROVE QuitInv'
  BY <1>7 DEF PopTake, Release, UnchangedFlags, Notified
<1>8. ASSUME NEW c \in Consumers, PopWait(c) PROVE QuitInv'
  BY <1>8 DEF PopWait, Release, UnchangedFlags
<1>9. ASSUME FinishSet PROVE QuitInv'
  BY <1>9 DEF FinishSet
<1>10. ASSUME FinishNotify PROVE QuitInv'
  BY <1>10 DEF FinishNotify, Notified
<1>11. ASSUME QuitSet PROVE QuitInv'
  BY <1>11 DEF QuitSet
<1>12. ASSUME QuitNotifyEmpty PROVE QuitInv'
  BY <1>12 DEF QuitNotifyEmpty, Notified
<1>13. ASSUME QuitNotifyFull PROVE QuitInv'
  BY <1>13 DEF QuitNotifyFull, Notified
<1>14. CASE UNCHANGED vars
  BY <1>14 DEF vars
<1>15. QED
  BY <1>1, <1>2, <1>3, <1>4, <1>5, <1>6, <1>7, <1>8, <1>9, <1>10, <1>11, <1>12,
     <1>13, <1>14 DEF Next, Push, Pop, Close

(* The same for finished() and the consumers that found the queue empty.     *)
LEMMA FinishStep ==
  BaseInv /\ SleepersJustified /\ FinishInv /\ [Next]_vars => FinishInv'
<1> SUFFICES ASSUME BaseInv, SleepersJustified, FinishInv, [Next]_vars
             PROVE  FinishInv'
  OBVIOUS
<1> USE
   DEF BaseInv, TypeOK, LockInv, FlagInv, Threads, PCs, SleepersJustified,
       Asleep, FinishInv, LateConsumers
<1>1. ASSUME NEW t \in Threads, Lock(t) PROVE FinishInv'
  BY <1>1 DEF Lock, UnchangedFlags
<1>2. ASSUME NEW t \in Threads, SpuriousWake(t) PROVE FinishInv'
  BY <1>2 DEF SpuriousWake, UnchangedFlags
<1>3. ASSUME NEW p \in Producers, PushTest(p) PROVE FinishInv'
  BY <1>3 DEF PushTest, Release, UnchangedFlags
<1>4. ASSUME NEW p \in Producers, PushStore(p) PROVE FinishInv'
  BY <1>4 DEF PushStore, Release, UnchangedFlags, Notified
<1>5. ASSUME NEW p \in Producers, PushWait(p) PROVE FinishInv'
  BY <1>5 DEF PushWait, Release, UnchangedFlags
<1>6. ASSUME NEW c \in Consumers, PopTest(c) PROVE FinishInv'
  BY <1>6 DEF PopTest, Release, UnchangedFlags
<1>7. ASSUME NEW c \in Consumers, PopTake(c) PROVE FinishInv'
  BY <1>7 DEF PopTake, Release, UnchangedFlags, Notified
<1>8. ASSUME NEW c \in Consumers, PopWait(c) PROVE FinishInv'
  BY <1>8 DEF PopWait, Release, UnchangedFlags
<1>9. ASSUME FinishSet PROVE FinishInv'
  BY <1>9 DEF FinishSet
<1>10. ASSUME FinishNotify PROVE FinishInv'
  BY <1>10 DEF FinishNotify, Notified
<1>11. ASSUME QuitSet PROVE FinishInv'
  BY <1>11 DEF QuitSet
<1>12. ASSUME QuitNotifyEmpty PROVE FinishInv'
  BY <1>12 DEF QuitNotifyEmpty, Notified
<1>13. ASSUME QuitNotifyFull PROVE FinishInv'
  BY <1>13 DEF QuitNotifyFull, Notified
<1>14. CASE UNCHANGED vars
  BY <1>14 DEF vars
<1>15. QED
  BY <1>1, <1>2, <1>3, <1>4, <1>5, <1>6, <1>7, <1>8, <1>9, <1>10, <1>11, <1>12,
     <1>13, <1>14 DEF Next, Push, Pop, Close

(* Once pop() has reported the end of the stream no push gets through.       *)
LEMMA EndStep ==
  BaseInv /\ EndOfStreamIsFinal /\ [Next]_vars => EndOfStreamIsFinal'
<1> SUFFICES ASSUME BaseInv, EndOfStreamIsFinal, [Next]_vars
             PROVE  EndOfStreamIsFinal'
  OBVIOUS
<1> USE DEF BaseInv, TypeOK, LockInv, FlagInv, Threads, PCs, EndOfStreamIsFinal
<1>1. ASSUME NEW t \in Threads, Lock(t) PROVE EndOfStreamIsFinal'
  BY <1>1 DEF Lock, UnchangedFlags
<1>2. ASSUME NEW t \in Threads, SpuriousWake(t) PROVE EndOfStreamIsFinal'
  BY <1>2 DEF SpuriousWake, UnchangedFlags
<1>3. ASSUME NEW p \in Producers, PushTest(p) PROVE EndOfStreamIsFinal'
  BY <1>3 DEF PushTest, Release, UnchangedFlags
<1>4. ASSUME NEW p \in Producers, PushStore(p) PROVE EndOfStreamIsFinal'
  BY <1>4 DEF PushStore, Release, UnchangedFlags, Notified
<1>5. ASSUME NEW p \in Producers, PushWait(p) PROVE EndOfStreamIsFinal'
  BY <1>5 DEF PushWait, Release, UnchangedFlags
<1>6. ASSUME NEW c \in Consumers, PopTest(c) PROVE EndOfStreamIsFinal'
  BY <1>6 DEF PopTest, Release, UnchangedFlags
<1>7. ASSUME NEW c \in Consumers, PopTake(c) PROVE EndOfStreamIsFinal'
  BY <1>7 DEF PopTake, Release, UnchangedFlags, Notified
<1>8. ASSUME NEW c \in Consumers, PopWait(c) PROVE EndOfStreamIsFinal'
  BY <1>8 DEF PopWait, Release, UnchangedFlags
<1>9. ASSUME FinishSet PROVE EndOfStreamIsFinal'
  BY <1>9 DEF FinishSet
<1>10. ASSUME FinishNotify PROVE EndOfStreamIsFinal'
  BY <1>10 DEF FinishNotify, Notified
<1>11. ASSUME QuitSet PROVE EndOfStreamIsFinal'
  BY <1>11 DEF QuitSet
<1>12. ASSUME QuitNotifyEmpty PROVE EndOfStreamIsFinal'
  BY <1>12 DEF QuitNotifyEmpty, Notified
<1>13. ASSUME QuitNotifyFull PROVE EndOfStreamIsFinal'
  BY <1>13 DEF QuitNotifyFull, Notified
<1>14. CASE UNCHANGED vars
  BY <1>14 DEF vars
<1>15. QED
  BY <1>1, <1>2, <1>3, <1>4, <1>5, <1>6, <1>7, <1>8, <1>9, <1>10, <1>11, <1>12,
     <1>13, <1>14 DEF Next, Push, Pop, Close

-----------------------------------------------------------------------------
(* The strengthened invariant holds of every behaviour of the queue.         *)
THEOREM Invariance == Spec => []IInv
<1>1. Init => IInv
  <2> SUFFICES ASSUME Init PROVE IInv
    OBVIOUS
  <2> USE DEF Init, Threads
  <2>1. BaseInv
    <3>1. buffer \in Seq(Item) /\ Len(buffer) <= Capacity
      OBVIOUS
    <3>2. pc \in [Threads -> PCs] /\ sent \in [Producers -> 0..MaxItems]
      BY DEF PCs
    <3>3. TypeOK
      BY <3>1, <3>2 DEF TypeOK
    <3>4. LockInv /\ CallInv /\ FlagInv
      BY DEF LockInv, CallInv, FlagInv
    <3>5. QED
      BY <3>3, <3>4 DEF BaseInv
  <2>2. SleepersJustified
    BY DEF SleepersJustified, Asleep
  <2>3. QuitInv /\ FinishInv
    BY DEF QuitInv, QuitStrandsAtMostOne, FinishInv
  <2>4. EndOfStreamIsFinal
    BY DEF EndOfStreamIsFinal
  <2>5. QED
    BY <2>1, <2>2, <2>3, <2>4 DEF IInv
<1>2. IInv /\ [Next]_vars => IInv'
  BY BaseStep, SleepersStep, QuitStep, FinishStep, EndStep DEF IInv
<1>3. QED
  BY <1>1, <1>2, PTL DEF Spec

(* The queue's variables keep their types and it never holds more than       *)
(* _size_max items (Queue.h:42).                                             *)
THEOREM TypeCorrect == Spec => []TypeOK
<1>1. IInv => TypeOK
  BY DEF IInv, BaseInv
<1>2. QED
  BY <1>1, Invariance, PTL

(* No wakeup is lost between push() and pop(): whoever sleeps, sleeps for a  *)
(* reason (Queue.h:50, 97).                                                  *)
THEOREM NoLostWakeup == Spec => []SleepersJustified
<1>1. IInv => SleepersJustified
  BY DEF IInv
<1>2. QED
  BY <1>1, Invariance, PTL

(* However many threads use the queue, a completed quit() (Queue.h:113)      *)
(* leaves at most one of them asleep.                                        *)
THEOREM QuitWakesAllButOne == Spec => []QuitStrandsAtMostOne
<1>1. IInv => QuitStrandsAtMostOne
  BY DEF IInv, QuitInv
<1>2. QED
  BY <1>1, Invariance, PTL

(* However many consumers there are, a completed finished() (Queue.h:104)    *)
(* leaves at most one of them asleep.                                        *)
THEOREM FinishWakesAllButOne == Spec => []FinishStrandsAtMostOne
<1>1. IInv => FinishStrandsAtMostOne
  BY DEF IInv, FinishInv, FinishStrandsAtMostOne, LateConsumers, Asleep
<1>2. QED
  BY <1>1, Invariance, PTL

(* When pop() has reported the end of the stream (Queue.h:93), no item is    *)
(* left behind and none will be accepted.                                    *)
THEOREM EndOfStream == Spec => []EndOfStreamIsFinal
<1>1. IInv => EndOfStreamIsFinal
  BY DEF IInv
<1>2. QED
  BY <1>1, Invariance, PTL

-----------------------------------------------------------------------------
(* Outside its critical sections the queue owes nobody a late call.          *)
LEMMA NobodyActs ==
  ASSUME \A t \in Threads : pc[t] # "act"
  PROVE  Grace = {}
  BY DEF Grace, Threads

(* Each step of Queue.h is a step of the bounded buffer or changes nothing   *)
(* the buffer's clients can see.                                             *)
LEMMA RefinementStep ==
  BaseInv /\ BaseInv' /\ [Next]_vars => [Abstract!Next]_(Abstract!vars)
<1> SUFFICES ASSUME BaseInv, BaseInv', [Next]_vars
             PROVE  [Abstract!Next]_(Abstract!vars)
  OBVIOUS
<1> USE DEF BaseInv, TypeOK, LockInv, FlagInv, Threads, PCs, Abstract!vars,
            Abstract!Next
<1>0. \A p \in Producers : pc[p] = "act" => sent[p] + 1 \in 1..MaxItems
  <2>1. ASSUME NEW p \in Producers, pc[p] = "act" PROVE sent[p] + 1 \in 1..MaxItems
    <3>1. sent[p] < MaxItems /\ sent[p] \in 0..MaxItems
      BY <2>1 DEF CallInv
    <3>2. QED
      BY <3>1
  <2>2. QED
    BY <2>1
<1>1. ASSUME NEW t \in Threads, Lock(t)
      PROVE  [Abstract!Next]_(Abstract!vars)
  BY <1>1 DEF Lock, UnchangedFlags, Grace
<1>2. ASSUME NEW t \in Threads, SpuriousWake(t)
      PROVE  [Abstract!Next]_(Abstract!vars)
  BY <1>2 DEF SpuriousWake, UnchangedFlags, Grace
<1>3. ASSUME NEW p \in Producers, PushTest(p)
      PROVE  [Abstract!Next]_(Abstract!vars)
  BY <1>3 DEF PushTest, Release, UnchangedFlags, Grace
<1>4. ASSUME NEW p \in Producers, PushStore(p)
      PROVE  [Abstract!Next]_(Abstract!vars)
  <2>1. Grace = IF finished \/ quit THEN {"put"} ELSE {}
    BY <1>4 DEF PushStore, Grace
  <2>2. \A s \in Threads : pc'[s] # "act"
    BY <1>4 DEF PushStore, Notified
  <2>3. Grace' = {}
    BY <2>2 DEF Grace
  <2>4. <<p, sent[p] + 1>> \in Item
    BY <1>4, <1>0 DEF PushStore, Item
  <2>5. Abstract!Put
    BY <1>4, <2>1, <2>3, <2>4
       DEF PushStore, UnchangedFlags, Abstract!Put, Abstract!Served
  <2> QED
    BY <2>5
<1>5. ASSUME NEW p \in Producers, PushWait(p)
      PROVE  [Abstract!Next]_(Abstract!vars)
  <2>1. \A s \in Threads : pc'[s] # "act"
    BY <1>5 DEF PushWait
  <2>2. Grace' = {}
    BY <2>1 DEF Grace
  <2>3. Abstract!GiveUp \/ UNCHANGED Abstract!vars
    BY <1>5, <2>2 DEF PushWait, UnchangedFlags, Abstract!GiveUp
  <2> QED
    BY <2>3
<1>6. ASSUME NEW c \in Consumers, PopTest(c)
      PROVE  [Abstract!Next]_(Abstract!vars)
  BY <1>6 DEF PopTest, Release, UnchangedFlags, Grace
<1>7. ASSUME NEW c \in Consumers, PopTake(c)
      PROVE  [Abstract!Next]_(Abstract!vars)
  <2>1. Grace = IF quit THEN {"take"} ELSE {}
    BY <1>7 DEF PopTake, Grace
  <2>2. \A s \in Threads : pc'[s] # "act"
    BY <1>7 DEF PopTake, Notified
  <2>3. Grace' = {}
    BY <2>2 DEF Grace
  <2>4. Abstract!Take
    BY <1>7, <2>1, <2>3
       DEF PopTake, UnchangedFlags, Abstract!Take, Abstract!Served
  <2> QED
    BY <2>4
<1>8. ASSUME NEW c \in Consumers, PopWait(c)
      PROVE  [Abstract!Next]_(Abstract!vars)
  <2>1. \A s \in Threads : pc'[s] # "act"
    BY <1>8 DEF PopWait
  <2>2. Grace' = {}
    BY <2>1 DEF Grace
  <2>3. Abstract!GiveUp \/ UNCHANGED Abstract!vars
    BY <1>8, <2>2 DEF PopWait, UnchangedFlags, Abstract!GiveUp
  <2> QED
    BY <2>3
<1>9. ASSUME FinishSet
      PROVE  [Abstract!Next]_(Abstract!vars)
  BY <1>9 DEF FinishSet, Grace, Abstract!Finish
<1>10. ASSUME FinishNotify
      PROVE  [Abstract!Next]_(Abstract!vars)
  BY <1>10 DEF FinishNotify, Notified, Grace
<1>11. ASSUME QuitSet
      PROVE  [Abstract!Next]_(Abstract!vars)
  BY <1>11 DEF QuitSet, Grace, Abstract!Quit
<1>12. ASSUME QuitNotifyEmpty
      PROVE  [Abstract!Next]_(Abstract!vars)
  BY <1>12 DEF QuitNotifyEmpty, Notified, Grace
<1>13. ASSUME QuitNotifyFull
      PROVE  [Abstract!Next]_(Abstract!vars)
  BY <1>13 DEF QuitNotifyFull, Notified, Grace
<1>14. CASE UNCHANGED vars
  BY <1>14 DEF vars, Grace
<1>15. QED
  BY <1>1, <1>2, <1>3, <1>4, <1>5, <1>6, <1>7, <1>8, <1>9, <1>10, <1>11, <1>12,
     <1>13, <1>14 DEF Next, Push, Pop, Close

(* Queue.h implements the bounded buffer: FIFO order, capacity, and at most  *)
(* one call that goes through after finished() or quit().                    *)
THEOREM Refinement == Spec => ImplementsBuffer
<1>1. Init => Abstract!Init
  BY DEF Init, Abstract!Init, Grace
<1>2. IInv => BaseInv
  BY DEF IInv
<1>3. QED
  BY <1>1, <1>2, RefinementStep, Invariance, PTL
     DEF Spec, ImplementsBuffer, Abstract!Spec

-----------------------------------------------------------------------------
(* The safety behind ItemsDelivered: threads never wait for each other.      *)
CanMove(t) ==
    \/ pc[t] \in {"test", "act"}
    \/ /\ pc[t] \in {"ready", "woken"} /\ holder = NoThread
       /\ t \in Producers => sent[t] < MaxItems

(* When no thread can move and nobody has called quit(), the consumers have  *)
(* emptied the queue and every call of push() has returned.                  *)
NoDeadlock ==
    ~quit /\ Consumers # {} /\ (\A t \in Threads : ~CanMove(t)) =>
        /\ buffer = << >>
        /\ \A p \in Producers : pc[p] = "ready" /\ sent[p] = MaxItems

(* Who holds the mutex is in a critical section, and only consumers stop.    *)
HolderInv == /\ holder # NoThread => pc[holder] \in {"test", "act"}
             /\ \A p \in Producers : pc[p] # "stopped"

LEMMA HolderStep == BaseInv /\ HolderInv /\ [Next]_vars => HolderInv'
<1> SUFFICES ASSUME BaseInv, HolderInv, [Next]_vars
             PROVE  HolderInv'
  OBVIOUS
<1> USE DEF BaseInv, TypeOK, LockInv, HolderInv, Threads
<1>1. ASSUME NEW t \in Threads, Lock(t) PROVE HolderInv'
  BY <1>1 DEF Lock, UnchangedFlags
<1>2. ASSUME NEW t \in Threads, SpuriousWake(t) PROVE HolderInv'
  BY <1>2 DEF SpuriousWake, UnchangedFlags
<1>3. ASSUME NEW p \in Producers, PushTest(p) PROVE HolderInv'
  BY <1>3 DEF PushTest, Release, UnchangedFlags
<1>4. ASSUME NEW p \in Producers, PushStore(p) PROVE HolderInv'
  BY <1>4 DEF PushStore, Release, UnchangedFlags, Notified
<1>5. ASSUME NEW p \in Producers, PushWait(p) PROVE HolderInv'
  BY <1>5 DEF PushWait, Release, UnchangedFlags
<1>6. ASSUME NEW c \in Consumers, PopTest(c) PROVE HolderInv'
  BY <1>6 DEF PopTest, Release, UnchangedFlags
<1>7. ASSUME NEW c \in Consumers, PopTake(c) PROVE HolderInv'
  BY <1>7 DEF PopTake, Release, UnchangedFlags, Notified
<1>8. ASSUME NEW c \in Consumers, PopWait(c) PROVE HolderInv'
  BY <1>8 DEF PopWait, Release, UnchangedFlags
<1>9. CASE FinishSet \/ QuitSet
  BY <1>9 DEF FinishSet, QuitSet
<1>10. CASE FinishNotify \/ QuitNotifyEmpty \/ QuitNotifyFull
  BY <1>10 DEF FinishNotify, QuitNotifyEmpty, QuitNotifyFull, Notified
<1>11. CASE UNCHANGED vars
  BY <1>11 DEF vars
<1>12. QED
  BY <1>1, <1>2, <1>3, <1>4, <1>5, <1>6, <1>7, <1>8, <1>9, <1>10, <1>11
     DEF Next, Push, Pop, Close

(* Producers and consumers never all sleep on each other, however many they  *)
(* are and whatever finished() does meanwhile (Queue.h:39-55, 83-101).       *)
THEOREM NobodyWaitsForNobody == Spec => []NoDeadlock
<1>1. Init => HolderInv
  BY DEF Init, HolderInv, Threads
<1>2. IInv => BaseInv
  BY DEF IInv
<1>3. IInv /\ HolderInv => NoDeadlock
  <2> SUFFICES ASSUME IInv, HolderInv, ~quit, NEW c \in Consumers,
                      \A t \in Threads : ~CanMove(t)
               PROVE  /\ buffer = << >>
                      /\ \A p \in Producers : pc[p] = "ready" /\ sent[p] = MaxItems
    BY DEF NoDeadlock
  <2>1. /\ \A t \in Threads : pc[t] \in PCs
        /\ \A p \in Producers : sent[p] \in 0..MaxItems
        /\ holder \in Threads \cup {NoThread}
    BY DEF IInv, BaseInv, TypeOK
  <2>2. holder = NoThread
    BY <2>1 DEF HolderInv, CanMove
  <2>3. pc[c] \in {"asleep", "stopped"}
    BY <2>1, <2>2 DEF CanMove, Threads, PCs
  <2>4. buffer = << >>
    BY <2>3 DEF IInv, SleepersJustified, Asleep, EndOfStreamIsFinal
  <2>5. ASSUME NEW p \in Producers
        PROVE  pc[p] = "ready" /\ sent[p] = MaxItems
    <3>1. pc[p] # "asleep"
      <4>1. Len(buffer) # Capacity
        BY <2>4
      <4>2. QED
        BY <4>1 DEF IInv, SleepersJustified, Asleep
    <3>2. pc[p] = "ready" \/ pc[p] = "woken"
      BY <2>1, <2>2, <3>1 DEF CanMove, HolderInv, Threads, PCs
    <3>3. ~(sent[p] < MaxItems)
      BY <2>2, <3>2 DEF CanMove, Threads
    <3>4. pc[p] = "ready"
      BY <2>1, <3>2, <3>3 DEF IInv, BaseInv, CallInv
    <3>5. QED
      BY <2>1, <3>3, <3>4
  <2>6. QED
    BY <2>4, <2>5
<1>4. QED
  BY <1>1, <1>2, <1>3, HolderStep, Invariance, PTL DEF Spec
=============================================================================

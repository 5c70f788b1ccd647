---------------------------- MODULE LooperProofs -----------------------------
(* For any number of handlers, senders, thread ids and messages: the types,   *)
(* that no thread ever reads another handler's queue, and that a deleted      *)
(* handler gets one more message at most.                                     *)
EXTENDS Looper, TLAPS

Unregistered == {"none", "prepare", "assign"}
Past         == {"check", "ended"} \cup Popping

(* Who is about to take finds a message, who sends knows to whom.            *)
Promised == /\ \A h \in Handlers : pc[h] = "take" => queue[serving[h]] > 0
            /\ \A h \in Handlers : pc[h] = "check" => serving[h] \in Handlers
            /\ \A p \in Posters : at[p] # "idle" => to[p] \in Handlers

(* Running threads have ids of their own; a looper is registered under the   *)
(* id of its thread; a manager is empty before it is published, and a thread *)
(* that looked its looper up and did not find it will not be found either.   *)
Registry ==
    /\ \A h \in Handlers : object[h] = "new" => pc[h] = "none"
    /\ \A g, h \in Handlers :
         g # h /\ pc[g] \notin {"none", "ended"} /\ pc[h] \notin {"none", "ended"}
           => tid[g] # tid[h]
    /\ \A h \in Handlers : pc[h] # "none" => tid[h] \in Tids
    /\ \A m \in Handlers, t \in Tids, g \in Handlers :
         looperMap[m][t] = g => /\ tid[g] = t
                                /\ pc[g] \in Past \cup {"find"}
    /\ \A h \in Handlers : pc[h] \in Unregistered =>
         /\ instance # h
         /\ \A t \in Tids : looperMap[h][t] = Nobody
    /\ \A h \in Handlers :
         pc[h] \in Past \cup {"found", "made", "find"} => instance \in Handlers
    /\ \A h \in Handlers : pc[h] \in Past =>
         serving[h] = h \/ looperMap[instance][tid[h]] # h

(* A looper that is found although it is another thread's has been told to   *)
(* quit.                                                                     *)
Readers ==
    /\ OneReader
    /\ \A h \in Handlers : pc[h] = "check" =>
         serving[h] = h \/ isQuit[serving[h]]
    /\ \A h \in Handlers : pc[h] = "ended" /\ serving[h] \in Handlers =>
         isQuit[serving[h]]

(* Only what was decided before quit() is dispatched after it.               *)
LateInv == /\ LateAtMostOne
           /\ \A h \in Handlers : ~isQuit[h] => late[h] = 0
           /\ \A h \in Handlers : pc[h] \in {"take", "dispatch"} => late[h] = 0

IInv == TypeOK /\ Promised /\ Registry /\ Readers /\ LateInv

-----------------------------------------------------------------------------
LEMMA InitInv == Init => IInv
<1> SUFFICES ASSUME Init PROVE IInv
  OBVIOUS
<1> USE CapacityAssumption, NamesAssumption DEF Init, Popping, Past, Unregistered
<1>1. TypeOK
  <2>1. looperMap \in [Handlers -> [Tids -> Handlers \cup {Nobody}]]
    OBVIOUS
  <2>2. /\ sent \in [Handlers -> 0..MaxPosts] /\ queue \in [Handlers -> 0..Capacity]
        /\ accepted \in [Handlers -> Nat] /\ handled \in [Handlers -> Nat]
        /\ late \in [Handlers -> Nat]
    OBVIOUS
  <2>3. /\ at \in [Posters -> {"idle", "lock", "push", "wait"}]
        /\ to \in [Posters -> Handlers \cup {Nobody}]
    OBVIOUS
  <2> QED
    BY <2>1, <2>2, <2>3 DEF TypeOK
<1>2. Promised
  BY DEF Promised
<1>3. Registry
  BY DEF Registry
<1>4. Readers
  BY DEF Readers, OneReader
<1>5. LateInv
  BY DEF LateInv, LateAtMostOne
<1> QED
  BY <1>1, <1>2, <1>3, <1>4, <1>5 DEF IInv

(* deleteLooper() is given an id nobody registered under.                    *)
LEMMA QuitKeepsMap ==
  ASSUME TypeOK, NEW h \in Handlers, Quit(h) PROVE looperMap' = looperMap
<1>1. CASE instance \in Handlers
  <2> DEFINE row == [t \in Tids |-> IF t = OwnerTid THEN Nobody
                                    ELSE looperMap[instance][t]]
  <2>1. row = looperMap[instance]
    BY <1>1, NamesAssumption DEF TypeOK
  <2>2. looperMap' = [looperMap EXCEPT ![instance] = row]
    BY <1>1 DEF Quit
  <2> QED
    BY <2>1, <2>2, <1>1 DEF TypeOK
<1>2. CASE instance \notin Handlers
  BY <1>2 DEF TypeOK, Quit
<1> QED
  BY <1>1, <1>2

-----------------------------------------------------------------------------
LEMMA TypeStep == IInv /\ [Next]_vars => TypeOK'
<1> SUFFICES ASSUME IInv, [Next]_vars PROVE TypeOK'
  OBVIOUS
<1> USE CapacityAssumption, NamesAssumption
    DEF IInv, TypeOK, Moves, UnchangedByStart, UnchangedByLoop, UnchangedBySend,
        loops, loopers, senders, owners
<1>1. ASSUME NEW h \in Handlers, Prepare(h) PROVE TypeOK'
  BY <1>1 DEF Prepare
<1>2. ASSUME NEW h \in Handlers, Assign(h) PROVE TypeOK'
  BY <1>2 DEF Assign
<1>3. ASSUME NEW h \in Handlers, Create(h) PROVE TypeOK'
  <2>1. PICK m \in Handlers :
          /\ IF looperMap[m][tid[h]] = Nobody
               THEN /\ looperMap' = [looperMap EXCEPT ![m][tid[h]] = h]
                    /\ handle' = [handle EXCEPT ![h] = "looper"]
               ELSE /\ handle' = [handle EXCEPT ![h] = "null"]
                    /\ UNCHANGED looperMap
          /\ pc' = [pc EXCEPT ![h] = "find"]
    BY <1>3 DEF Create
  <2>2. looperMap' \in [Handlers -> [Tids -> Handlers \cup {Nobody}]]
    <3>1. [looperMap[m] EXCEPT ![tid[h]] = h] \in [Tids -> Handlers \cup {Nobody}]
      OBVIOUS
    <3>2. \/ looperMap' = looperMap
          \/ looperMap' = [looperMap EXCEPT ![m] = [@ EXCEPT ![tid[h]] = h]]
      BY <2>1
    <3> QED
      BY <3>1, <3>2
  <2>3. /\ handle' \in [Handlers -> {"unset", "null", "looper"}]
        /\ pc' = [pc EXCEPT ![h] = "find"]
    BY <2>1
  <2>4. UNCHANGED <<instance, tid, serving, isQuit, holder, queue, at, to, sent,
                    accepted, ui, object, handled, late, crashed>>
    BY <1>3 DEF Create
  <2> QED
    BY <2>2, <2>3, <2>4
<1>4. ASSUME NEW h \in Handlers, Find(h) PROVE TypeOK'
  BY <1>4 DEF Find, Registry
<1>5. ASSUME NEW h \in Handlers, Check(h) PROVE TypeOK'
  BY <1>5 DEF Check
<1>6. ASSUME NEW h \in Handlers, PopTest(h) PROVE TypeOK'
  BY <1>6 DEF PopTest
<1>7. ASSUME NEW h \in Handlers, Settle(h) PROVE TypeOK'
  BY <1>7 DEF Settle
<1>8. ASSUME NEW h \in Handlers, Take(h) PROVE TypeOK'
  BY <1>8 DEF Take, Promised, Readers, OneReader, Popping
<1>9. ASSUME NEW h \in Handlers, Dispatch(h) PROVE TypeOK'
  <2>1. serving[h] = h
    BY <1>9 DEF Dispatch, Readers, OneReader, Popping
  <2>2. /\ pc' \in [Handlers -> {"none", "prepare", "assign", "found", "made",
                                 "find", "check", "pop", "take", "settle",
                                 "wait", "dispatch", "ended"}]
        /\ handled' \in [Handlers -> Nat] /\ late' \in [Handlers -> Nat]
    BY <1>9, <2>1 DEF Dispatch
  <2>3. crashed' \in BOOLEAN
    BY <1>9 DEF Dispatch
  <2>4. UNCHANGED <<instance, looperMap, tid, handle, serving, isQuit, holder,
                    queue, at, to, sent, accepted, ui, object>>
    BY <1>9 DEF Dispatch
  <2> QED
    BY <2>2, <2>3, <2>4
<1>10. ASSUME NEW p \in Posters, Send(p) PROVE TypeOK'
  <2>1. crashed' \in BOOLEAN
    BY <1>10 DEF Send
  <2>2. sent' \in [Handlers -> 0..MaxPosts]
    BY <1>10 DEF Send
  <2>3. /\ at' \in [Posters -> {"idle", "lock", "push", "wait"}]
        /\ to' \in [Posters -> Handlers \cup {Nobody}]
    <3>1. \/ at' = at /\ to' = to
          \/ \E h \in Handlers : /\ at' = [at EXCEPT ![p] = "lock"]
                                /\ to' = [to EXCEPT ![p] = h]
      BY <1>10 DEF Send
    <3> QED
      BY <3>1
  <2>4. UNCHANGED <<instance, looperMap, tid, pc, handle, serving, handled, late,
                    isQuit, holder, queue, accepted, ui, object>>
    BY <1>10 DEF Send
  <2> QED
    BY <2>1, <2>2, <2>3, <2>4
<1>11. ASSUME NEW p \in Posters, LockLooper(p) PROVE TypeOK'
  <2>1. /\ at' \in [Posters -> {"idle", "lock", "push", "wait"}]
        /\ holder' \in [Handlers -> Posters \cup {Nobody}]
    <3>1. \/ at' = [at EXCEPT ![p] = "idle"] /\ holder' = holder
          \/ /\ at' = [at EXCEPT ![p] = "push"]
             /\ holder' = [holder EXCEPT ![to[p]] = p]
      BY <1>11 DEF LockLooper
    <3> QED
      BY <3>1
  <2>2. UNCHANGED <<instance, looperMap, tid, pc, handle, serving, handled, late,
                    isQuit, queue, to, sent, accepted, ui, object, crashed>>
    BY <1>11 DEF LockLooper
  <2> QED
    BY <2>1, <2>2
<1>12. ASSUME NEW p \in Posters, PushFull(p) PROVE TypeOK'
  BY <1>12 DEF PushFull
<1>13. ASSUME NEW p \in Posters, Push(p) PROVE TypeOK'
  BY <1>13 DEF Push, Promised
<1>14. ASSUME NEW h \in Handlers, Construct(h) PROVE TypeOK'
  BY <1>14 DEF Construct
<1>15. ASSUME NEW h \in Handlers, Delete(h) PROVE TypeOK'
  BY <1>15 DEF Delete
<1>16. ASSUME NEW h \in Handlers, Quit(h) PROVE TypeOK'
  BY <1>16, QuitKeepsMap DEF Quit
<1>17. CASE UNCHANGED vars
  BY <1>17 DEF vars
<1> QED
  BY <1>1, <1>2, <1>3, <1>4, <1>5, <1>6, <1>7, <1>8, <1>9, <1>10, <1>11, <1>12,
     <1>13, <1>14, <1>15, <1>16, <1>17 DEF Next, Loop, Sender

LEMMA PromisedStep == IInv /\ [Next]_vars => Promised'
<1> SUFFICES ASSUME IInv, [Next]_vars PROVE Promised'
  OBVIOUS
<1> USE NamesAssumption
    DEF IInv, TypeOK, Moves, UnchangedByStart, UnchangedByLoop, UnchangedBySend,
        loops, loopers, senders, owners, Promised
<1>1. ASSUME NEW h \in Handlers, Prepare(h) PROVE Promised'
  BY <1>1 DEF Prepare
<1>2. ASSUME NEW h \in Handlers, Assign(h) PROVE Promised'
  BY <1>2 DEF Assign
<1>3. ASSUME NEW h \in Handlers, Create(h) PROVE Promised'
  BY <1>3 DEF Create
<1>4. ASSUME NEW h \in Handlers, Find(h) PROVE Promised'
  BY <1>4 DEF Find, Registry
<1>5. ASSUME NEW h \in Handlers, Check(h) PROVE Promised'
  BY <1>5 DEF Check
<1>6. ASSUME NEW h \in Handlers, PopTest(h) PROVE Promised'
  BY <1>6 DEF PopTest, Readers, OneReader, Popping
<1>7. ASSUME NEW h \in Handlers, Settle(h) PROVE Promised'
  BY <1>7 DEF Settle
<1>8. ASSUME NEW h \in Handlers, Take(h) PROVE Promised'
  BY <1>8 DEF Take, Readers, OneReader, Popping
<1>9. ASSUME NEW h \in Handlers, Dispatch(h) PROVE Promised'
  BY <1>9 DEF Dispatch, Readers, OneReader, Popping
<1>10. ASSUME NEW p \in Posters, Send(p) PROVE Promised'
  BY <1>10 DEF Send
<1>11. ASSUME NEW p \in Posters, LockLooper(p) PROVE Promised'
  BY <1>11 DEF LockLooper
<1>12. ASSUME NEW p \in Posters, PushFull(p) PROVE Promised'
  BY <1>12 DEF PushFull
<1>13. ASSUME NEW p \in Posters, Push(p) PROVE Promised'
  BY <1>13 DEF Push, Readers, OneReader, Popping
<1>14. ASSUME NEW h \in Handlers, Construct(h) PROVE Promised'
  BY <1>14 DEF Construct
<1>15. ASSUME NEW h \in Handlers, Delete(h) PROVE Promised'
  BY <1>15 DEF Delete
<1>16. ASSUME NEW h \in Handlers, Quit(h) PROVE Promised'
  BY <1>16, QuitKeepsMap DEF Quit
<1>17. CASE UNCHANGED vars
  BY <1>17 DEF vars
<1> QED
  BY <1>1, <1>2, <1>3, <1>4, <1>5, <1>6, <1>7, <1>8, <1>9, <1>10, <1>11, <1>12,
     <1>13, <1>14, <1>15, <1>16, <1>17 DEF Next, Loop, Sender

LEMMA RegistryStep == IInv /\ [Next]_vars => Registry'
<1> SUFFICES ASSUME IInv, [Next]_vars PROVE Registry'
  OBVIOUS
<1> USE NamesAssumption
    DEF IInv, TypeOK, Moves, UnchangedByStart, UnchangedByLoop, UnchangedBySend,
        loops, loopers, senders, owners,
        Registry, Past, Popping, Unregistered
<1>1. ASSUME NEW h \in Handlers, Prepare(h) PROVE Registry'
  BY <1>1 DEF Prepare
<1>2. ASSUME NEW h \in Handlers, Assign(h) PROVE Registry'
  BY <1>2 DEF Assign
<1>3. ASSUME NEW h \in Handlers, Create(h) PROVE Registry'
  <2>1. PICK m \in Handlers :
          /\ \/ pc[h] = "found" /\ m = instance
             \/ pc[h] = "made" /\ m \in {instance, h}
          /\ IF looperMap[m][tid[h]] = Nobody
               THEN looperMap' = [looperMap EXCEPT ![m][tid[h]] = h]
               ELSE looperMap' = looperMap
    BY <1>3 DEF Create
  <2>2. /\ pc[h] \in {"found", "made"} /\ pc' = [pc EXCEPT ![h] = "find"]
        /\ instance' = instance /\ tid' = tid /\ serving' = serving
        /\ object' = object
    BY <1>3 DEF Create
  <2>3. tid[h] \in Tids
    BY <2>2
  <2>4. \A n \in Handlers, t \in Tids :
          looperMap'[n][t] = IF n = m /\ t = tid[h] /\ looperMap[m][tid[h]] = Nobody
                               THEN h ELSE looperMap[n][t]
    BY <2>1, <2>3
  <2>5. \A n \in Handlers, t \in Tids, g \in Handlers :
          looperMap'[n][t] = g => tid'[g] = t /\ pc'[g] \in Past \cup {"find"}
    BY <2>2, <2>4
  <2>6. \A g \in Handlers : pc'[g] \in Unregistered =>
          /\ instance' # g
          /\ \A t \in Tids : looperMap'[g][t] = Nobody
    BY <2>1, <2>2, <2>4
  <2>7. \A g \in Handlers : pc'[g] \in Past =>
          serving'[g] = g \/ looperMap'[instance'][tid'[g]] # g
    BY <2>2, <2>4
  <2>8. \A g, k \in Handlers :
          g # k /\ pc'[g] \notin {"none", "ended"} /\ pc'[k] \notin {"none", "ended"}
            => tid'[g] # tid'[k]
    BY <2>2
  <2> QED
    BY <2>2, <2>5, <2>6, <2>7, <2>8
<1>4. ASSUME NEW h \in Handlers, Find(h) PROVE Registry'
  BY <1>4 DEF Find
<1>5. ASSUME NEW h \in Handlers, Check(h) PROVE Registry'
  BY <1>5 DEF Check
<1>6. ASSUME NEW h \in Handlers, PopTest(h) PROVE Registry'
  BY <1>6 DEF PopTest
<1>7. ASSUME NEW h \in Handlers, Settle(h) PROVE Registry'
  BY <1>7 DEF Settle
<1>8. ASSUME NEW h \in Handlers, Take(h) PROVE Registry'
  BY <1>8 DEF Take
<1>9. ASSUME NEW h \in Handlers, Dispatch(h) PROVE Registry'
  BY <1>9 DEF Dispatch
<1>10. ASSUME NEW p \in Posters, Send(p) PROVE Registry'
  BY <1>10 DEF Send
<1>11. ASSUME NEW p \in Posters, LockLooper(p) PROVE Registry'
  BY <1>11 DEF LockLooper
<1>12. ASSUME NEW p \in Posters, PushFull(p) PROVE Registry'
  BY <1>12 DEF PushFull
<1>13. ASSUME NEW p \in Posters, Push(p) PROVE Registry'
  BY <1>13 DEF Push
<1>14. ASSUME NEW h \in Handlers, Construct(h) PROVE Registry'
  BY <1>14 DEF Construct
<1>15. ASSUME NEW h \in Handlers, Delete(h) PROVE Registry'
  BY <1>15 DEF Delete
<1>16. ASSUME NEW h \in Handlers, Quit(h) PROVE Registry'
  BY <1>16, QuitKeepsMap DEF Quit
<1>17. CASE UNCHANGED vars
  BY <1>17 DEF vars
<1> QED
  BY <1>1, <1>2, <1>3, <1>4, <1>5, <1>6, <1>7, <1>8, <1>9, <1>10, <1>11, <1>12,
     <1>13, <1>14, <1>15, <1>16, <1>17 DEF Next, Loop, Sender

LEMMA ReadersStep == IInv /\ [Next]_vars => Readers'
<1> SUFFICES ASSUME IInv, [Next]_vars PROVE Readers'
  OBVIOUS
<1> USE NamesAssumption
    DEF IInv, TypeOK, Moves, UnchangedByStart, UnchangedByLoop, UnchangedBySend,
        loops, loopers, senders, owners,
        Readers, OneReader, Popping
<1>1. ASSUME NEW h \in Handlers, Prepare(h) PROVE Readers'
  BY <1>1 DEF Prepare
<1>2. ASSUME NEW h \in Handlers, Assign(h) PROVE Readers'
  BY <1>2 DEF Assign
<1>3. ASSUME NEW h \in Handlers, Create(h) PROVE Readers'
  BY <1>3 DEF Create
<1>4. ASSUME NEW h \in Handlers, Find(h) PROVE Readers'
  <2> DEFINE found == looperMap[instance][tid[h]]
  <2>1. /\ instance \in Handlers /\ tid[h] \in Tids
        /\ pc[h] = "find" /\ pc' = [pc EXCEPT ![h] = IF found = Nobody THEN "ended" ELSE "check"]
        /\ serving' = [serving EXCEPT ![h] = found] /\ isQuit' = isQuit
    BY <1>4 DEF Find, Registry
  <2>2. found \in Handlers \cup {Nobody}
    BY <2>1
  <2>3. ASSUME found \in Handlers, found # h PROVE isQuit[found]
    <3>1. tid[found] = tid[h] /\ pc[found] \in Past \cup {"find"}
      BY <2>1, <2>3 DEF Registry
    <3>2. pc[found] = "ended"
      <4>1. pc[found] \in {"none", "ended"} \/ pc[h] \in {"none", "ended"}
        BY <2>3, <3>1 DEF Registry
      <4> QED
        BY <4>1, <3>1, <2>1 DEF Past
    <3>3. serving[found] = found
      BY <3>1, <3>2, <2>1, <2>3 DEF Registry, Past
    <3> QED
      BY <3>2, <3>3, <2>3
  <2> HIDE DEF found
  <2> QED
    BY <2>1, <2>2, <2>3
<1>5. ASSUME NEW h \in Handlers, Check(h) PROVE Readers'
  BY <1>5 DEF Check, Stopping
<1>6. ASSUME NEW h \in Handlers, PopTest(h) PROVE Readers'
  BY <1>6 DEF PopTest
<1>7. ASSUME NEW h \in Handlers, Settle(h) PROVE Readers'
  BY <1>7 DEF Settle
<1>8. ASSUME NEW h \in Handlers, Take(h) PROVE Readers'
  BY <1>8 DEF Take
<1>9. ASSUME NEW h \in Handlers, Dispatch(h) PROVE Readers'
  BY <1>9 DEF Dispatch
<1>10. ASSUME NEW p \in Posters, Send(p) PROVE Readers'
  BY <1>10 DEF Send
<1>11. ASSUME NEW p \in Posters, LockLooper(p) PROVE Readers'
  BY <1>11 DEF LockLooper
<1>12. ASSUME NEW p \in Posters, PushFull(p) PROVE Readers'
  BY <1>12 DEF PushFull
<1>13. ASSUME NEW p \in Posters, Push(p) PROVE Readers'
  BY <1>13 DEF Push
<1>14. ASSUME NEW h \in Handlers, Construct(h) PROVE Readers'
  BY <1>14 DEF Construct
<1>15. ASSUME NEW h \in Handlers, Delete(h) PROVE Readers'
  BY <1>15 DEF Delete
<1>16. ASSUME NEW h \in Handlers, Quit(h) PROVE Readers'
  BY <1>16, QuitKeepsMap DEF Quit
<1>17. CASE UNCHANGED vars
  BY <1>17 DEF vars
<1> QED
  BY <1>1, <1>2, <1>3, <1>4, <1>5, <1>6, <1>7, <1>8, <1>9, <1>10, <1>11, <1>12,
     <1>13, <1>14, <1>15, <1>16, <1>17 DEF Next, Loop, Sender

LEMMA LateStep == IInv /\ [Next]_vars => LateInv'
<1> SUFFICES ASSUME IInv, [Next]_vars PROVE LateInv'
  OBVIOUS
<1> USE NamesAssumption
    DEF IInv, TypeOK, Moves, UnchangedByStart, UnchangedByLoop, UnchangedBySend,
        loops, loopers, senders, owners,
        LateInv, LateAtMostOne
<1>1. ASSUME NEW h \in Handlers, Prepare(h) PROVE LateInv'
  BY <1>1 DEF Prepare
<1>2. ASSUME NEW h \in Handlers, Assign(h) PROVE LateInv'
  BY <1>2 DEF Assign
<1>3. ASSUME NEW h \in Handlers, Create(h) PROVE LateInv'
  BY <1>3 DEF Create
<1>4. ASSUME NEW h \in Handlers, Find(h) PROVE LateInv'
  BY <1>4 DEF Find
<1>5. ASSUME NEW h \in Handlers, Check(h) PROVE LateInv'
  BY <1>5 DEF Check
<1>6. ASSUME NEW h \in Handlers, PopTest(h) PROVE LateInv'
  BY <1>6 DEF PopTest, Stopping, Readers, OneReader, Popping
<1>7. ASSUME NEW h \in Handlers, Settle(h) PROVE LateInv'
  BY <1>7 DEF Settle
<1>8. ASSUME NEW h \in Handlers, Take(h) PROVE LateInv'
  BY <1>8 DEF Take
<1>9. ASSUME NEW h \in Handlers, Dispatch(h) PROVE LateInv'
  BY <1>9 DEF Dispatch, Readers, OneReader, Popping
<1>10. ASSUME NEW p \in Posters, Send(p) PROVE LateInv'
  BY <1>10 DEF Send
<1>11. ASSUME NEW p \in Posters, LockLooper(p) PROVE LateInv'
  BY <1>11 DEF LockLooper
<1>12. ASSUME NEW p \in Posters, PushFull(p) PROVE LateInv'
  BY <1>12 DEF PushFull
<1>13. ASSUME NEW p \in Posters, Push(p) PROVE LateInv'
  BY <1>13 DEF Push
<1>14. ASSUME NEW h \in Handlers, Construct(h) PROVE LateInv'
  BY <1>14 DEF Construct
<1>15. ASSUME NEW h \in Handlers, Delete(h) PROVE LateInv'
  BY <1>15 DEF Delete
<1>16. ASSUME NEW h \in Handlers, Quit(h) PROVE LateInv'
  BY <1>16, QuitKeepsMap DEF Quit
<1>17. CASE UNCHANGED vars
  BY <1>17 DEF vars
<1> QED
  BY <1>1, <1>2, <1>3, <1>4, <1>5, <1>6, <1>7, <1>8, <1>9, <1>10, <1>11, <1>12,
     <1>13, <1>14, <1>15, <1>16, <1>17 DEF Next, Loop, Sender

-----------------------------------------------------------------------------
LEMMA Inductive == Spec => []IInv
<1>1. IInv /\ [Next]_vars => IInv'
  BY TypeStep, PromisedStep, RegistryStep, ReadersStep, LateStep DEF IInv
<1> QED
  BY InitInv, <1>1, PTL DEF Spec

(* The variables keep their types: the queue its bound, and the message that *)
(* Take() removes is there.                                                  *)
THEOREM TypeCorrect == Spec => []TypeOK
<1>1. IInv => TypeOK
  BY DEF IInv
<1> QED
  BY Inductive, <1>1, PTL

(* However often thread ids are used again and LooperManagers replaced, a    *)
(* thread pops from its own handler's queue only.                            *)
THEOREM OwnQueueOnly == Spec => []OneReader
<1>1. IInv => OneReader
  BY DEF IInv, Readers
<1> QED
  BY Inductive, <1>1, PTL

(* A deleted handler gets at most one message more, whatever was queued.     *)
THEOREM OneLateMessage == Spec => []LateAtMostOne
<1>1. IInv => LateAtMostOne
  BY DEF IInv, LateInv
<1> QED
  BY Inductive, <1>1, PTL

-----------------------------------------------------------------------------
(* A looper once registered stays so; who found the id taken found a looper  *)
(* that was told to quit.                                                    *)
DeafInv ==
    /\ \A h \in Handlers : pc[h] = "made" => looperMap[h][tid[h]] = Nobody
    /\ \A h \in Handlers : pc[h] \in Past \cup {"find"} =>
         \/ /\ handle[h] = "null"
            /\ \E g \in Handlers : isQuit[g] /\ tid[g] = tid[h] /\ pc[g] # "none"
         \/ \E m \in Handlers : looperMap[m][tid[h]] = h

(* What a thread finds under its id is its own looper or a dead thread's.    *)
LEMMA MapEntry ==
  ASSUME Registry, NEW m \in Handlers, NEW t \in Tids, NEW g \in Handlers,
         looperMap[m][t] = g
  PROVE  tid[g] = t /\ pc[g] \in Past \cup {"find"}
BY DEF Registry

LEMMA FoundIsDead ==
  ASSUME Registry, NEW m \in Handlers, NEW h \in Handlers, NEW g \in Handlers,
         tid[h] \in Tids, pc[h] \in {"found", "made"}, looperMap[m][tid[h]] = g
  PROVE  tid[g] = tid[h] /\ pc[g] = "ended"
<1>1. tid[g] = tid[h] /\ pc[g] \in Past \cup {"find"}
  BY MapEntry
<1>2. g # h
  BY <1>1 DEF Past, Popping
<1>3. pc[g] \in {"none", "ended"}
  BY <1>1, <1>2 DEF Registry
<1> QED
  BY <1>1, <1>3 DEF Past, Popping

LEMMA DeafStep == IInv /\ DeafInv /\ [Next]_vars => DeafInv'
<1> SUFFICES ASSUME IInv, DeafInv, [Next]_vars PROVE DeafInv'
  OBVIOUS
<1> USE NamesAssumption
    DEF IInv, TypeOK, Moves, UnchangedByStart, UnchangedByLoop, UnchangedBySend,
        loops, loopers, senders, owners, DeafInv, Past, Popping
<1>1. ASSUME NEW h \in Handlers, Prepare(h) PROVE DeafInv'
  BY <1>1 DEF Prepare
<1>2. ASSUME NEW h \in Handlers, Assign(h) PROVE DeafInv'
  BY <1>2 DEF Assign, Registry, Unregistered
<1>3. ASSUME NEW h \in Handlers, Create(h) PROVE DeafInv'
  <2>1. PICK m \in Handlers :
          /\ \/ pc[h] = "found" /\ m = instance
             \/ pc[h] = "made" /\ m \in {instance, h}
          /\ IF looperMap[m][tid[h]] = Nobody
               THEN /\ looperMap' = [looperMap EXCEPT ![m][tid[h]] = h]
                    /\ handle' = [handle EXCEPT ![h] = "looper"]
               ELSE /\ looperMap' = looperMap
                    /\ handle' = [handle EXCEPT ![h] = "null"]
    BY <1>3 DEF Create
  <2>2. /\ pc[h] \in {"found", "made"} /\ pc' = [pc EXCEPT ![h] = "find"]
        /\ tid' = tid /\ isQuit' = isQuit
    BY <1>3 DEF Create
  <2>3. tid[h] \in Tids
    BY <2>2 DEF Registry
  <2>4. \A n \in Handlers, t \in Tids :
          looperMap'[n][t] = IF n = m /\ t = tid[h] /\ looperMap[m][tid[h]] = Nobody
                               THEN h ELSE looperMap[n][t]
    BY <2>1, <2>3
  <2>5. ASSUME NEW k \in Handlers, pc'[k] = "made"
        PROVE  looperMap'[k][tid'[k]] = Nobody
    <3>1. k # h /\ pc[k] = "made"
      BY <2>2, <2>5
    <3>2. tid[k] # tid[h] /\ tid[k] \in Tids
      BY <2>2, <3>1 DEF Registry
    <3> QED
      BY <2>2, <2>4, <3>1, <3>2
  <2>6. ASSUME NEW k \in Handlers \ {h}, pc'[k] \in Past \cup {"find"}
        PROVE  \/ /\ handle'[k] = "null"
                  /\ \E g \in Handlers : isQuit'[g] /\ tid'[g] = tid'[k] /\ pc'[g] # "none"
               \/ \E n \in Handlers : looperMap'[n][tid'[k]] = k
    <3>1. pc[k] = pc'[k] /\ handle'[k] = handle[k]
      BY <2>1, <2>2, <2>6
    <3>2. tid[k] \in Tids
      BY <2>6, <3>1 DEF Registry
    <3>3. ASSUME NEW n \in Handlers, looperMap[n][tid[k]] = k
          PROVE  looperMap'[n][tid[k]] = k
      <4>1. ~(n = m /\ tid[k] = tid[h] /\ looperMap[m][tid[h]] = Nobody)
        BY <3>3
      <4> QED
        BY <2>4, <3>2, <3>3, <4>1
    <3> QED
      BY <2>2, <2>6, <3>1, <3>3
  <2>7. CASE looperMap[m][tid[h]] = Nobody
    <3>1. looperMap'[m][tid'[h]] = h
      BY <2>2, <2>3, <2>4, <2>7
    <3> QED
      BY <2>5, <2>6, <3>1
  <2>8. CASE looperMap[m][tid[h]] # Nobody
    <3> DEFINE g == looperMap[m][tid[h]]
    <3>1. g \in Handlers /\ m = instance
      BY <2>1, <2>3, <2>8
    <3>2. tid[g] = tid[h] /\ pc[g] = "ended"
      BY <2>2, <2>3, <3>1, FoundIsDead
    <3>4. serving[g] = g
      BY <3>1, <3>2 DEF Registry
    <3>5. isQuit[g]
      BY <3>1, <3>2, <3>4 DEF Readers
    <3> HIDE DEF g
    <3>6. handle'[h] = "null" /\ tid'[g] = tid'[h] /\ pc'[g] # "none" /\ isQuit'[g]
      BY <2>1, <2>2, <2>8, <3>1, <3>2, <3>5
    <3> QED
      BY <2>5, <2>6, <3>1, <3>6
  <2> QED
    BY <2>7, <2>8
<1>4. ASSUME NEW h \in Handlers, Find(h) PROVE DeafInv'
  BY <1>4 DEF Find
<1>5. ASSUME NEW h \in Handlers, Check(h) PROVE DeafInv'
  BY <1>5 DEF Check
<1>6. ASSUME NEW h \in Handlers, PopTest(h) PROVE DeafInv'
  BY <1>6 DEF PopTest
<1>7. ASSUME NEW h \in Handlers, Settle(h) PROVE DeafInv'
  BY <1>7 DEF Settle
<1>8. ASSUME NEW h \in Handlers, Take(h) PROVE DeafInv'
  BY <1>8 DEF Take
<1>9. ASSUME NEW h \in Handlers, Dispatch(h) PROVE DeafInv'
  BY <1>9 DEF Dispatch
<1>10. ASSUME NEW p \in Posters, Send(p) PROVE DeafInv'
  BY <1>10 DEF Send
<1>11. ASSUME NEW p \in Posters, LockLooper(p) PROVE DeafInv'
  BY <1>11 DEF LockLooper
<1>12. ASSUME NEW p \in Posters, PushFull(p) PROVE DeafInv'
  BY <1>12 DEF PushFull
<1>13. ASSUME NEW p \in Posters, Push(p) PROVE DeafInv'
  BY <1>13 DEF Push
<1>14. ASSUME NEW h \in Handlers, Construct(h) PROVE DeafInv'
  BY <1>14 DEF Construct, Registry
<1>15. ASSUME NEW h \in Handlers, Delete(h) PROVE DeafInv'
  BY <1>15 DEF Delete
<1>16. ASSUME NEW h \in Handlers, Quit(h) PROVE DeafInv'
  <2>1. /\ looperMap' = looperMap /\ tid' = tid /\ handle' = handle
        /\ isQuit' = [isQuit EXCEPT ![h] = TRUE]
    BY <1>16, QuitKeepsMap DEF Quit
  <2>2. \A g \in Handlers : \/ pc'[g] = pc[g]
                            \/ pc[g] = "wait" /\ pc'[g] = "pop"
    BY <1>16 DEF Quit
  <2>3. \A g \in Handlers : isQuit[g] => isQuit'[g]
    BY <2>1
  <2> QED
    BY <2>1, <2>2, <2>3
<1>17. CASE UNCHANGED vars
  BY <1>17 DEF vars
<1> QED
  BY <1>1, <1>2, <1>3, <1>4, <1>5, <1>6, <1>7, <1>8, <1>9, <1>10, <1>11, <1>12,
     <1>13, <1>14, <1>15, <1>16, <1>17 DEF Next, Loop, Sender

(* A thread that does not dispatch though nobody asked it to quit either     *)
(* found its id taken by the looper of a dead thread, or registered with a   *)
(* LooperManager that was replaced.                                          *)
THEOREM DeafForAReason == Spec => []DeafReason
<1>1. Init => DeafInv
  BY DEF Init, DeafInv, Past, Popping
<1>2. IInv /\ DeafInv => DeafReason
  <2> SUFFICES ASSUME IInv, DeafInv, NEW h \in Handlers, Deaf(h)
               PROVE  \/ handle[h] = "null" /\ \E g \in Handlers : isQuit[g] /\ tid[g] = tid[h]
                      \/ \E m \in Handlers \ {instance} : looperMap[m][tid[h]] = h
    BY DEF DeafReason
  <2>1. pc[h] = "ended" /\ ~isQuit[h]
    BY DEF Deaf
  <2>2. serving[h] # h
    BY <2>1 DEF IInv, Readers
  <2>3. looperMap[instance][tid[h]] # h
    BY <2>1, <2>2 DEF IInv, Registry, Past
  <2> QED
    BY <2>1, <2>3 DEF DeafInv, Past
<1> QED
  BY Inductive, DeafStep, <1>1, <1>2, PTL DEF Spec

-----------------------------------------------------------------------------
(* A thread of the loop, a sender or a destructor that cannot take a step:   *)
(* the guards of their actions, denied one by one.                           *)
LoopStuck(h)   == pc[h] \in {"none", "wait", "ended"}
SenderStuck(p) == \/ at[p] \in {"idle", "wait"}
                  \/ at[p] = "lock" /\ holder[to[p]] # Nobody
                  \/ at[p] = "push" /\ ~MayPush(to[p])
QuitStuck      == ui # Nobody => holder[ui] # Nobody

Stuck == /\ \A h \in Handlers : LoopStuck(h)
         /\ \A p \in Posters : SenderStuck(p)
         /\ QuitStuck

(* When nothing moves, every call of postMessage() and every destructor has  *)
(* returned and every message has been dispatched, except where the loop is  *)
(* deaf or was told to quit.                                                 *)
RestsDone ==
    ~crashed /\ Stuck =>
        /\ \A p \in Posters : at[p] # "idle" => Deaf(to[p])
        /\ ui # Nobody => Deaf(ui)
        /\ \A h \in Handlers : handled[h] = accepted[h] \/ isQuit[h] \/ Deaf(h)

(* Who sends has met a looper; the one in push() holds its mutex, and waits  *)
(* there only while the queue is full.                                       *)
Sending ==
    /\ \A h \in Handlers : handle[h] = "looper" => pc[h] \in Past \cup {"find"}
    /\ \A h \in Handlers : queue[h] > 0 => handle[h] = "looper"
    /\ \A p \in Posters : at[p] # "idle" => handle[to[p]] = "looper"
    /\ \A p \in Posters : at[p] \in {"push", "wait"} =>
         holder[to[p]] = p /\ ~isQuit[to[p]]
    /\ \A h \in Handlers : holder[h] # Nobody =>
         to[holder[h]] = h /\ at[holder[h]] \in {"push", "wait"}

(* Who waits has reason to, and no message gets lost.                        *)
Waiting ==
    /\ \A p \in Posters : at[p] = "wait" => queue[to[p]] = Capacity
    /\ \A h \in Handlers : pc[h] \in {"settle", "wait"} => queue[serving[h]] = 0
    /\ \A h \in Handlers :
         accepted[h] = handled[h] + queue[h] + (IF pc[h] = "dispatch" THEN 1 ELSE 0)

LEMMA SendingStep == IInv /\ Sending /\ [Next]_vars => Sending'
<1> SUFFICES ASSUME IInv, Sending, [Next]_vars PROVE Sending'
  OBVIOUS
<1> USE CapacityAssumption, NamesAssumption
    DEF IInv, TypeOK, Moves, UnchangedByStart, UnchangedByLoop, UnchangedBySend,
        loops, loopers, senders, owners,
        Sending, Past, Popping, Promised
<1>1. ASSUME NEW h \in Handlers, Prepare(h) PROVE Sending'
  BY <1>1 DEF Prepare
<1>2. ASSUME NEW h \in Handlers, Assign(h) PROVE Sending'
  BY <1>2 DEF Assign
<1>3. ASSUME NEW h \in Handlers, Create(h) PROVE Sending'
  <2>1. /\ pc[h] \in {"found", "made"} /\ pc' = [pc EXCEPT ![h] = "find"]
        /\ \/ handle' = [handle EXCEPT ![h] = "looper"]
           \/ handle' = [handle EXCEPT ![h] = "null"]
        /\ UNCHANGED <<queue, at, to, holder, isQuit>>
    BY <1>3 DEF Create
  <2>2. handle[h] # "looper"
    BY <2>1
  <2>3. \A g \in Handlers : g # h => handle'[g] = handle[g] /\ pc'[g] = pc[g]
    BY <2>1
  <2>4. pc'[h] = "find"
    BY <2>1
  <2> QED
    BY <2>1, <2>2, <2>3, <2>4
<1>4. ASSUME NEW h \in Handlers, Find(h) PROVE Sending'
  BY <1>4 DEF Find
<1>5. ASSUME NEW h \in Handlers, Check(h) PROVE Sending'
  BY <1>5 DEF Check
<1>6. ASSUME NEW h \in Handlers, PopTest(h) PROVE Sending'
  BY <1>6 DEF PopTest
<1>7. ASSUME NEW h \in Handlers, Settle(h) PROVE Sending'
  BY <1>7 DEF Settle
<1>8. ASSUME NEW h \in Handlers, Take(h) PROVE Sending'
  BY <1>8 DEF Take
<1>9. ASSUME NEW h \in Handlers, Dispatch(h) PROVE Sending'
  BY <1>9 DEF Dispatch
<1>10. ASSUME NEW p \in Posters, Send(p) PROVE Sending'
  <2>1. PICK h \in Handlers :
          \/ UNCHANGED <<at, to>>
          \/ /\ handle[h] = "looper" /\ at[p] = "idle"
             /\ at' = [at EXCEPT ![p] = "lock"] /\ to' = [to EXCEPT ![p] = h]
    BY <1>10 DEF Send
  <2>2. UNCHANGED <<handle, pc, queue, holder, isQuit>>
    BY <1>10 DEF Send
  <2>3. CASE UNCHANGED <<at, to>>
    BY <2>2, <2>3
  <2>4. CASE ~UNCHANGED <<at, to>>
    <3>1. /\ handle[h] = "looper" /\ at[p] = "idle" /\ at'[p] = "lock" /\ to'[p] = h
          /\ \A q \in Posters : q # p => at'[q] = at[q] /\ to'[q] = to[q]
      BY <2>1, <2>4
    <3>2. \A g \in Handlers : holder[g] # Nobody => holder[g] \in Posters /\ holder[g] # p
      BY <3>1
    <3>3. \A q \in Posters : at'[q] # "idle" => handle[to'[q]] = "looper"
      BY <3>1
    <3>4. \A q \in Posters : at'[q] \in {"push", "wait"}
                               => at[q] = at'[q] /\ to'[q] = to[q]
      BY <3>1
    <3>5. \A g \in Handlers : holder[g] # Nobody =>
            to'[holder[g]] = to[holder[g]] /\ at'[holder[g]] = at[holder[g]]
      BY <3>1, <3>2
    <3> QED
      BY <2>2, <3>3, <3>4, <3>5
  <2> QED
    BY <2>3, <2>4
<1>11. ASSUME NEW p \in Posters, LockLooper(p) PROVE Sending'
  <2> DEFINE l == to[p]
  <2>1. l \in Handlers /\ at[p] = "lock" /\ holder[l] = Nobody
    BY <1>11 DEF LockLooper
  <2>2. UNCHANGED <<handle, pc, queue, to, isQuit>>
    BY <1>11 DEF LockLooper
  <2>3. \A q \in Posters : q # p => at'[q] = at[q]
    BY <1>11 DEF LockLooper
  <2>4. \A g \in Handlers : g # l => holder'[g] = holder[g]
    BY <1>11 DEF LockLooper
  <2>5. \/ at'[p] = "idle" /\ holder'[l] = Nobody
        \/ at'[p] = "push" /\ holder'[l] = p /\ ~isQuit[l]
    BY <2>1, <1>11 DEF LockLooper
  <2>6. \A q \in Posters : at[q] \in {"push", "wait"} => to[q] # l
    BY <2>1, PostersAssumption
  <2>7. \A g \in Handlers : holder[g] # Nobody => holder[g] \in Posters /\ holder[g] # p
    BY <2>1
  <2> HIDE DEF l
  <2>8. \A q \in Posters : at'[q] # "idle" => at[q] # "idle"
    BY <2>1, <2>3
  <2>9. ASSUME NEW q \in Posters, at'[q] \in {"push", "wait"}
        PROVE  holder'[to[q]] = q /\ ~isQuit[to[q]]
    <3>1. CASE q = p
      BY <2>5, <2>9, <3>1 DEF l
    <3>2. CASE q # p
      BY <2>3, <2>4, <2>6, <2>9, <3>2
    <3> QED
      BY <3>1, <3>2
  <2>10. ASSUME NEW g \in Handlers, holder'[g] # Nobody
         PROVE  to[holder'[g]] = g /\ at'[holder'[g]] \in {"push", "wait"}
    <3>1. CASE g = l
      BY <2>5, <2>10, <3>1 DEF l
    <3>2. CASE g # l
      BY <2>3, <2>4, <2>7, <2>10, <3>2
    <3> QED
      BY <3>1, <3>2
  <2> QED
    BY <2>2, <2>8, <2>9, <2>10
<1>12. ASSUME NEW p \in Posters, PushFull(p) PROVE Sending'
  BY <1>12 DEF PushFull
<1>13. ASSUME NEW p \in Posters, Push(p) PROVE Sending'
  BY <1>13 DEF Push
<1>14. ASSUME NEW h \in Handlers, Construct(h) PROVE Sending'
  BY <1>14 DEF Construct, Registry
<1>15. ASSUME NEW h \in Handlers, Delete(h) PROVE Sending'
  BY <1>15 DEF Delete
<1>16. ASSUME NEW h \in Handlers, Quit(h) PROVE Sending'
  <2>1. /\ UNCHANGED <<handle, queue, at, to, holder>> /\ holder[h] = Nobody
        /\ isQuit' = [isQuit EXCEPT ![h] = TRUE]
    BY <1>16 DEF Quit
  <2>2. \A g \in Handlers : \/ pc'[g] = pc[g]
                            \/ pc[g] = "wait" /\ pc'[g] = "pop"
    BY <1>16 DEF Quit
  <2>3. \A g \in Handlers : pc[g] \in Past \cup {"find"}
                              => pc'[g] \in Past \cup {"find"}
    BY <2>2
  <2>4. \A p \in Posters : at[p] \in {"push", "wait"} => to[p] # h
    BY <2>1, PostersAssumption
  <2>5. \A p \in Posters : at[p] \in {"push", "wait"} => ~isQuit'[to[p]]
    BY <2>1, <2>4
  <2> QED
    BY <2>1, <2>3, <2>5
<1>17. CASE UNCHANGED vars
  BY <1>17 DEF vars
<1> QED
  BY <1>1, <1>2, <1>3, <1>4, <1>5, <1>6, <1>7, <1>8, <1>9, <1>10, <1>11, <1>12,
     <1>13, <1>14, <1>15, <1>16, <1>17 DEF Next, Loop, Sender

LEMMA WaitingStep == IInv /\ Sending /\ Waiting /\ [Next]_vars => Waiting'
<1> SUFFICES ASSUME IInv, Sending, Waiting, [Next]_vars PROVE Waiting'
  OBVIOUS
<1> USE CapacityAssumption, NamesAssumption
    DEF IInv, TypeOK, Moves, UnchangedByStart, UnchangedByLoop, UnchangedBySend,
        loops, loopers, senders, owners,
        Waiting, Promised, Readers, OneReader, Popping
<1>1. ASSUME NEW h \in Handlers, Prepare(h) PROVE Waiting'
  BY <1>1 DEF Prepare
<1>2. ASSUME NEW h \in Handlers, Assign(h) PROVE Waiting'
  BY <1>2 DEF Assign
<1>3. ASSUME NEW h \in Handlers, Create(h) PROVE Waiting'
  <2>1. /\ pc[h] \in {"found", "made"} /\ pc' = [pc EXCEPT ![h] = "find"]
        /\ UNCHANGED <<queue, at, to, serving, accepted, handled>>
    BY <1>3 DEF Create
  <2> QED
    BY <2>1
<1>4. ASSUME NEW h \in Handlers, Find(h) PROVE Waiting'
  BY <1>4 DEF Find
<1>5. ASSUME NEW h \in Handlers, Check(h) PROVE Waiting'
  BY <1>5 DEF Check
<1>6. ASSUME NEW h \in Handlers, PopTest(h) PROVE Waiting'
  BY <1>6 DEF PopTest
<1>7. ASSUME NEW h \in Handlers, Settle(h) PROVE Waiting'
  BY <1>7 DEF Settle
<1>8. ASSUME NEW h \in Handlers, Take(h) PROVE Waiting'
  BY <1>8 DEF Take
<1>9. ASSUME NEW h \in Handlers, Dispatch(h) PROVE Waiting'
  <2>1. serving[h] = h /\ pc[h] = "dispatch"
    BY <1>9 DEF Dispatch
  <2>2. /\ handled'[h] = handled[h] + 1 /\ pc'[h] = "check"
        /\ \A g \in Handlers : g # h => handled'[g] = handled[g] /\ pc'[g] = pc[g]
        /\ UNCHANGED <<queue, at, to, serving, accepted>>
    BY <2>1, <1>9 DEF Dispatch
  <2>3. accepted[h] = handled[h] + queue[h] + 1 /\ handled[h] \in Nat /\ queue[h] \in Nat
    BY <2>1
  <2>4. accepted'[h] = handled'[h] + queue'[h] + 0
    BY <2>2, <2>3
  <2> QED
    BY <2>1, <2>2, <2>4
<1>10. ASSUME NEW p \in Posters, Send(p) PROVE Waiting'
  BY <1>10 DEF Send
<1>11. ASSUME NEW p \in Posters, LockLooper(p) PROVE Waiting'
  BY <1>11 DEF LockLooper
<1>12. ASSUME NEW p \in Posters, PushFull(p) PROVE Waiting'
  <2>1. /\ at[p] = "push" /\ queue[to[p]] >= Capacity
        /\ at' = [at EXCEPT ![p] = "wait"]
        /\ UNCHANGED <<queue, to, pc, serving, accepted, handled>>
    BY <1>12 DEF PushFull
  <2>3. queue[to[p]] = Capacity
    <3>1. to[p] \in Handlers
      BY <2>1
    <3>2. queue[to[p]] \in 0..Capacity
      BY <3>1
    <3>3. queue[to[p]] <= Capacity /\ queue[to[p]] \in Nat /\ Capacity \in Nat
      BY <3>2
    <3> HIDE DEF IInv, TypeOK, Waiting
    <3> QED
      BY <2>1, <3>3
  <2>2. \A q \in Posters : at'[q] = "wait" => q = p \/ at[q] = "wait"
    BY <2>1
  <2> QED
    BY <2>1, <2>2, <2>3
<1>13. ASSUME NEW p \in Posters, Push(p) PROVE Waiting'
  <2> DEFINE l == to[p]
  <2>1. l \in Handlers /\ at[p] = "push" /\ holder[l] = p
    BY <1>13 DEF Push, Sending
  <2>2. /\ queue'[l] = queue[l] + 1 /\ accepted'[l] = accepted[l] + 1
        /\ \A g \in Handlers : g # l => queue'[g] = queue[g] /\ accepted'[g] = accepted[g]
        /\ UNCHANGED <<handled, serving, to>>
    BY <2>1, <1>13 DEF Push
  <2>3. \A q \in Posters : at'[q] = "wait" => at[q] = "wait" /\ to[q] # l
    BY <2>1, <1>13 DEF Push, Sending
  <2>4. \A g \in Handlers :
          /\ pc'[g] = "dispatch" <=> pc[g] = "dispatch"
          /\ pc'[g] \in {"settle", "wait"} => pc'[g] = pc[g] /\ serving[g] # l
    BY <1>13 DEF Push, MayPush
  <2> HIDE DEF l
  <2>5. \A g \in Handlers : pc[g] \in {"settle", "wait"} => serving[g] \in Handlers
    OBVIOUS
  <2>6. \A q \in Posters : at'[q] = "wait" => queue'[to'[q]] = Capacity
    BY <2>2, <2>3
  <2>7. \A g \in Handlers : pc'[g] \in {"settle", "wait"} => queue'[serving'[g]] = 0
    BY <2>2, <2>4, <2>5
  <2>8. ASSUME NEW g \in Handlers
        PROVE  accepted'[g] = handled'[g] + queue'[g]
                                + (IF pc'[g] = "dispatch" THEN 1 ELSE 0)
    <3>1. accepted[g] \in Nat /\ handled[g] \in Nat /\ queue[g] \in Nat
      OBVIOUS
    <3>2. CASE pc[g] = "dispatch"
      BY <2>2, <2>4, <3>1, <3>2
    <3>3. CASE pc[g] # "dispatch"
      <4>1. pc'[g] # "dispatch" /\ accepted[g] = handled[g] + queue[g]
        BY <2>4, <3>1, <3>3
      <4>2. accepted'[g] = handled'[g] + queue'[g]
        BY <2>2, <3>1, <4>1
      <4>3. handled'[g] + queue'[g] \in Nat
        BY <2>2, <3>1
      <4>4. accepted'[g] = handled'[g] + queue'[g] + 0
        BY <4>2, <4>3
      <4> QED
        BY <4>1, <4>4
    <3> QED
      BY <3>2, <3>3
  <2> QED
    BY <2>6, <2>7, <2>8
<1>14. ASSUME NEW h \in Handlers, Construct(h) PROVE Waiting'
  BY <1>14 DEF Construct, Registry
<1>15. ASSUME NEW h \in Handlers, Delete(h) PROVE Waiting'
  BY <1>15 DEF Delete
<1>16. ASSUME NEW h \in Handlers, Quit(h) PROVE Waiting'
  BY <1>16, QuitKeepsMap DEF Quit
<1>17. CASE UNCHANGED vars
  BY <1>17 DEF vars
<1> QED
  BY <1>1, <1>2, <1>3, <1>4, <1>5, <1>6, <1>7, <1>8, <1>9, <1>10, <1>11, <1>12,
     <1>13, <1>14, <1>15, <1>16, <1>17 DEF Next, Loop, Sender

(* A sender in push() that cannot go on waits for room in the queue of a     *)
(* loop that is deaf.                                                        *)
LEMMA StuckSender ==
  ASSUME IInv, Sending, Waiting, Stuck,
         NEW p \in Posters, at[p] \in {"push", "wait"}
  PROVE  Deaf(to[p])
<1> DEFINE l == to[p]
<1>1. l \in Handlers
  BY DEF IInv, Promised
<1>2. MayPush(l)
  BY DEF Stuck, LoopStuck, MayPush
<1>3. at[p] = "wait"
  BY <1>2 DEF Stuck, SenderStuck
<1>4. queue[l] # 0 /\ ~isQuit[l] /\ handle[l] = "looper"
  BY <1>3, CapacityAssumption DEF Waiting, Sending
<1>5. pc[l] \in {"wait", "ended"}
  BY <1>1, <1>4 DEF Stuck, LoopStuck, Sending, Past, Popping
<1>6. pc[l] # "wait"
  BY <1>1, <1>4 DEF Waiting, IInv, Readers, OneReader, Popping
<1> QED
  BY <1>4, <1>5, <1>6 DEF Deaf

(* Who holds a looper's mutex is such a sender.                              *)
LEMMA StuckHolder ==
  ASSUME IInv, Sending, Waiting, Stuck, NEW h \in Handlers, holder[h] # Nobody
  PROVE  Deaf(h)
<1>1. holder[h] \in Posters
  BY DEF IInv, TypeOK
<1>2. to[holder[h]] = h /\ at[holder[h]] \in {"push", "wait"}
  BY DEF Sending
<1> QED
  BY <1>1, <1>2, StuckSender

(* The safety half of CallsReturn and Delivered: a full queue, a sender that *)
(* keeps XLooper's mutex while it waits for room and a destructor that wants *)
(* that mutex never wait in a circle, however many handlers and senders there *)
(* are (XLooper.cpp:20-24, XMessageQueue.h:36-51, 78-97).  Only a loop that is *)
(* deaf, see DeafReason, leaves anybody waiting.                             *)
THEOREM ComesToRest == Spec => []RestsDone
<1>1. Init => Sending /\ Waiting
  BY CapacityAssumption DEF Init, Sending, Waiting
<1>2. IInv /\ Sending /\ Waiting => RestsDone
  <2> SUFFICES ASSUME IInv, Sending, Waiting, Stuck
               PROVE  /\ \A p \in Posters : at[p] # "idle" => Deaf(to[p])
                      /\ ui # Nobody => Deaf(ui)
                      /\ \A h \in Handlers :
                           handled[h] = accepted[h] \/ isQuit[h] \/ Deaf(h)
    BY DEF RestsDone
  <2>1. ASSUME NEW p \in Posters, at[p] # "idle" PROVE Deaf(to[p])
    <3>1. CASE at[p] \in {"push", "wait"}
      BY <3>1, StuckSender
    <3>2. CASE at[p] = "lock"
      <4>1. holder[to[p]] # Nobody
        BY <3>2 DEF Stuck, SenderStuck
      <4>2. to[p] \in Handlers
        BY <2>1 DEF IInv, Promised
      <4> QED
        BY <4>1, <4>2, StuckHolder
    <3> QED
      BY <2>1, <3>1, <3>2 DEF IInv, TypeOK
  <2>2. ASSUME ui # Nobody PROVE Deaf(ui)
    <3>1. ui \in Handlers /\ holder[ui] # Nobody
      BY <2>2 DEF Stuck, QuitStuck, IInv, TypeOK
    <3> QED
      BY <3>1, StuckHolder
  <2>3. ASSUME NEW h \in Handlers, handled[h] # accepted[h], ~isQuit[h]
        PROVE  Deaf(h)
    <3>1. /\ handled[h] \in Nat /\ queue[h] \in Nat /\ pc[h] # "dispatch"
      BY DEF IInv, TypeOK, Stuck, LoopStuck
    <3>2. accepted[h] = handled[h] + queue[h]
      BY <3>1 DEF Waiting
    <3>3. queue[h] > 0
      BY <2>3, <3>1, <3>2
    <3>4. pc[h] \in {"wait", "ended"}
      BY <3>3 DEF Sending, Past, Popping, Stuck, LoopStuck
    <3>5. pc[h] # "wait"
      BY <3>3 DEF Waiting, IInv, Readers, OneReader, Popping
    <3> QED
      BY <2>3, <3>4, <3>5 DEF Deaf
  <2> QED
    BY <2>1, <2>2, <2>3
<1> QED
  BY <1>1, <1>2, Inductive, SendingStep, WaitingStep, PTL DEF Spec
=============================================================================

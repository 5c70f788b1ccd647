------------------------------- MODULE Looper -------------------------------
(* xhandler: each HandlerThread (a MediaPlayer is one) starts a thread that  *)
(* registers a looper under its thread id, publishes the handler that sends  *)
(* to it, looks the looper up again and dispatches its messages.  Senders    *)
(* keep XLooper::mutex while they wait for room; quit() needs that mutex.    *)
(* The looper registered by the thread of h is called h, and so is the       *)
(* LooperManager it may have made.                                           *)
EXTENDS Naturals

CONSTANTS Handlers,   \* HandlerThread objects, each constructed once
          Posters,    \* threads that send messages
          Tids,       \* hashes of thread ids; a dead thread's is used again
          OwnerTid,   \* the id of the thread that deletes handlers
          Capacity,   \* _size_max of the queue
          MaxPosts,   \* bound: messages sent to a handler
          Nobody

ASSUME CapacityAssumption == Capacity \in Nat \ {0} /\ MaxPosts \in Nat
ASSUME NamesAssumption    == Nobody \notin Handlers /\ OwnerTid \notin Tids
ASSUME PostersAssumption  == Nobody \notin Posters

VARIABLES instance,   \* LooperManager::instance: by whose thread it was made
          looperMap,  \* of each manager: the looper under each thread id
          tid,        \* the id of each handler's thread
          pc,         \* where that thread is
          handle,     \* HandlerThread::handler: is it set, has it a looper
          serving,    \* the looper the thread runs
          isQuit,     \* XLooper::isQuit and XMessageQueue::_quit
          holder,     \* XLooper::mutex
          queue,      \* messages in each looper's queue
          at, to,     \* where each sender is, and the handler it sends to
          ui,         \* the handler being deleted
          object,     \* what has become of each handler: "new", "alive", "deleted"
          sent, accepted, handled,   \* messages, by handler
          late,       \* of these, dispatched after quit()
          crashed

loops    == <<instance, looperMap, tid, pc, handle, serving, handled, late>>
loopers  == <<isQuit, holder, queue>>
senders  == <<at, to, sent, accepted>>
owners   == <<ui, object>>
vars     == <<loops, loopers, senders, owners, crashed>>

Init == /\ instance = Nobody
        /\ looperMap = [m \in Handlers |-> [t \in Tids |-> Nobody]]
        /\ tid = [h \in Handlers |-> OwnerTid]
        /\ pc = [h \in Handlers |-> "none"]
        /\ handle = [h \in Handlers |-> "unset"]
        /\ serving = [h \in Handlers |-> Nobody]
        /\ isQuit = [h \in Handlers |-> FALSE]
        /\ holder = [h \in Handlers |-> Nobody]
        /\ queue = [h \in Handlers |-> 0]
        /\ at = [p \in Posters |-> "idle"] /\ to = [p \in Posters |-> Nobody]
        /\ ui = Nobody /\ object = [h \in Handlers |-> "new"]
        /\ sent = [h \in Handlers |-> 0] /\ accepted = [h \in Handlers |-> 0]
        /\ handled = [h \in Handlers |-> 0] /\ late = [h \in Handlers |-> 0]
        /\ crashed = FALSE

Moves(h, from, next) == pc[h] = from /\ pc' = [pc EXCEPT ![h] = next]

(* Mutant: quit() lets the queue run empty first.                            *)
StoppingEmpty(h) == isQuit[h] /\ queue[h] = 0

(* What _loop() and pop() test.  Both flags are set under the looper's mutex *)
(* and never reset.                                                          *)
Stopping(h) == isQuit[h]

-----------------------------------------------------------------------------
(* HandlerThread::run: prepare, publish the handler, loop.                   *)
UnchangedByStart == UNCHANGED <<loopers, senders, owners, handled, late, crashed>>

(* getInstance() tests the pointer and sets it without a mutex ...           *)
Prepare(h) == /\ Moves(h, "prepare", IF instance = Nobody THEN "assign" ELSE "found")
              /\ UNCHANGED <<instance, looperMap, tid, handle, serving>>
              /\ UnchangedByStart

Assign(h) == /\ Moves(h, "assign", "made")
             /\ instance' = h
             /\ UNCHANGED <<looperMap, tid, handle, serving>>
             /\ UnchangedByStart

(* ... and returns what is there then, or what this thread has just stored.  *)
(* createLooper() registers nothing under an id that is taken.               *)
Create(h) == \E m \in Handlers :
    /\ \/ Moves(h, "found", "find") /\ m = instance
       \/ Moves(h, "made", "find") /\ m \in {instance, h}
    /\ IF looperMap[m][tid[h]] = Nobody
         THEN /\ looperMap' = [looperMap EXCEPT ![m][tid[h]] = h]
              /\ handle' = [handle EXCEPT ![h] = "looper"]
         ELSE /\ handle' = [handle EXCEPT ![h] = "null"]
              /\ UNCHANGED looperMap
    /\ UNCHANGED <<instance, tid, serving>>
    /\ UnchangedByStart

(* loop() asks the manager for the looper of this thread once more.          *)
Find(h) == LET found == looperMap[instance][tid[h]] IN
    /\ Moves(h, "find", IF found = Nobody THEN "ended" ELSE "check")
    /\ serving' = [serving EXCEPT ![h] = found]
    /\ UNCHANGED <<instance, looperMap, tid, handle>>
    /\ UnchangedByStart

-----------------------------------------------------------------------------
(* XLooper::_loop with XMessageQueue::pop on the looper it serves.           *)
UnchangedByLoop == UNCHANGED <<instance, looperMap, tid, handle, serving,
                               isQuit, holder, to, sent, accepted, owners>>

(* Mutant: the thread's own flag is tested (HandlerThread has one, too).     *)
CheckOwn(h) ==
    /\ Moves(h, "check", IF Stopping(h) THEN "ended" ELSE "pop")
    /\ UNCHANGED <<queue, at, handled, late, crashed>> /\ UnchangedByLoop

Check(h) == /\ Moves(h, "check", IF Stopping(serving[h]) THEN "ended" ELSE "pop")
            /\ UNCHANGED <<queue, at, handled, late, crashed>> /\ UnchangedByLoop

(* pop() reads _quit and acts upon it with its mutex held: no push comes in  *)
(* between, but quit() may.                                                  *)
PopTest(h) == LET l == serving[h] IN
    /\ Moves(h, "pop", IF Stopping(l) THEN "check"
                       ELSE IF queue[l] > 0 THEN "take" ELSE "settle")
    /\ UNCHANGED <<queue, at, handled, late, crashed>> /\ UnchangedByLoop

Settle(h) == /\ Moves(h, "settle", "wait")
             /\ UNCHANGED <<queue, at, handled, late, crashed>> /\ UnchangedByLoop

(* Mutant: the sender that waits for room is not notified.                   *)
TakeSilent(h) == LET l == serving[h] IN
    /\ Moves(h, "take", "dispatch")
    /\ queue' = [queue EXCEPT ![l] = @ - 1]
    /\ UNCHANGED <<at, handled, late, crashed>> /\ UnchangedByLoop

Take(h) == LET l == serving[h] IN
    /\ Moves(h, "take", "dispatch")
    /\ queue' = [queue EXCEPT ![l] = @ - 1]
    /\ at' = [p \in Posters |->
                IF at[p] = "wait" /\ to[p] = l THEN "push" ELSE at[p]]
    /\ UNCHANGED <<handled, late, crashed>> /\ UnchangedByLoop

(* The message goes to the handler that sent it.  If that is deleted, or its *)
(* destructor has begun (handleMessage is pure virtual then), anything may   *)
(* happen.                                                                   *)
Dispatch(h) == LET l == serving[h] IN
    /\ Moves(h, "dispatch", "check")
    /\ handled' = [handled EXCEPT ![l] = @ + 1]
    /\ late' = IF isQuit[l] THEN [late EXCEPT ![l] = @ + 1] ELSE late
    /\ crashed' \in IF object[l] = "alive" /\ ui # l THEN {FALSE} ELSE BOOLEAN
    /\ UNCHANGED <<queue, at>> /\ UnchangedByLoop

Loop(h) == \/ Prepare(h) \/ Assign(h) \/ Create(h) \/ Find(h) \/ Check(h)
           \/ PopTest(h) \/ Settle(h) \/ Take(h) \/ Dispatch(h)

-----------------------------------------------------------------------------
(* XHandler::postMessage and XLooper::sendMessage.  Nobody calls a handler   *)
(* whose deletion has begun; a call that is under way goes on.               *)
UnchangedBySend == UNCHANGED <<loops, isQuit, owners>>

(* A handler not yet set is garbage; one without looper drops the message.   *)
Send(p) == \E h \in Handlers :
    /\ at[p] = "idle" /\ object[h] = "alive" /\ ui # h /\ sent[h] < MaxPosts
    /\ sent' = [sent EXCEPT ![h] = @ + 1]
    /\ IF handle[h] = "looper"
         THEN at' = [at EXCEPT ![p] = "lock"] /\ to' = [to EXCEPT ![p] = h]
         ELSE UNCHANGED <<at, to>>
    /\ crashed' = (handle[h] = "unset")
    /\ UNCHANGED <<accepted, holder, queue>> /\ UnchangedBySend

LockLooper(p) == LET l == to[p] IN
    /\ at[p] = "lock" /\ holder[l] = Nobody
    /\ IF isQuit[l] THEN at' = [at EXCEPT ![p] = "idle"] /\ UNCHANGED holder
                    ELSE /\ at' = [at EXCEPT ![p] = "push"]
                         /\ holder' = [holder EXCEPT ![l] = p]
    /\ UNCHANGED <<to, sent, accepted, queue, crashed>> /\ UnchangedBySend

(* The thread that has tested and not yet waited keeps XMessageQueue::_mutex.*)
MayPush(l) == \A h \in Handlers : serving[h] = l => pc[h] \notin {"take", "settle"}

PushFull(p) == LET l == to[p] IN
    /\ at[p] = "push" /\ MayPush(l) /\ queue[l] >= Capacity
    /\ at' = [at EXCEPT ![p] = "wait"]
    /\ UNCHANGED <<to, sent, accepted, queue, holder, crashed>> /\ UnchangedBySend

(* Mutant: push() does not notify _empty.                                    *)
PushSilent(p) == LET l == to[p] IN
    /\ at[p] = "push" /\ MayPush(l) /\ queue[l] < Capacity
    /\ queue' = [queue EXCEPT ![l] = @ + 1]
    /\ accepted' = [accepted EXCEPT ![l] = @ + 1]
    /\ holder' = [holder EXCEPT ![l] = Nobody]
    /\ at' = [at EXCEPT ![p] = "idle"]
    /\ UNCHANGED <<to, sent, crashed, owners, isQuit, loops>>

Push(p) == LET l == to[p] IN
    /\ at[p] = "push" /\ MayPush(l) /\ queue[l] < Capacity
    /\ queue' = [queue EXCEPT ![l] = @ + 1]
    /\ accepted' = [accepted EXCEPT ![l] = @ + 1]
    /\ holder' = [holder EXCEPT ![l] = Nobody]
    /\ at' = [at EXCEPT ![p] = "idle"]
    /\ pc' = [h \in Handlers |->
                IF serving[h] = l /\ pc[h] = "wait" THEN "pop" ELSE pc[h]]
    /\ UNCHANGED <<instance, looperMap, tid, handle, serving, handled, late,
                   to, sent, crashed, owners, isQuit>>

Sender(p) == LockLooper(p) \/ PushFull(p) \/ Push(p)

-----------------------------------------------------------------------------
(* The thread that constructs and deletes handlers.  The new thread gets an  *)
(* id no running thread has.                                                 *)
Construct(h) == \E t \in Tids :
    /\ ui = Nobody /\ object[h] = "new"
    /\ \A g \in Handlers : tid[g] = t => pc[g] = "ended"
    /\ tid' = [tid EXCEPT ![h] = t]
    /\ pc' = [pc EXCEPT ![h] = "prepare"]
    /\ object' = [object EXCEPT ![h] = "alive"]
    /\ UNCHANGED <<instance, looperMap, handle, serving, handled, late, loopers,
                   senders, ui, crashed>>

(* ~HandlerThread deletes a handler that may not be set or have no looper.   *)
Delete(h) == /\ ui = Nobody /\ object[h] = "alive"
             /\ ui' = h
             /\ crashed' = (handle[h] # "looper")
             /\ UNCHANGED <<loops, loopers, senders, object>>

(* Mutant: deleteLooper() empties the map.                                   *)
QuitClears(h) ==
    /\ ui = h /\ holder[h] = Nobody
    /\ ui' = Nobody
    /\ object' = [object EXCEPT ![h] = "deleted"]
    /\ isQuit' = [isQuit EXCEPT ![h] = TRUE]
    /\ pc' = [g \in Handlers |->
                IF serving[g] = h /\ pc[g] = "wait" THEN "pop" ELSE pc[g]]
    /\ looperMap' = [looperMap EXCEPT ![instance] = [t \in Tids |-> Nobody]]
    /\ UNCHANGED <<instance, tid, handle, serving, handled, late, holder,
                   queue, senders, crashed>>

(* ~XHandler: quit() waits for the looper's mutex and wakes the loop;        *)
(* deleteLooper() is given the id of the thread that deletes and not of the  *)
(* one that registered: it finds nothing, and the entry stays.               *)
Quit(h) == /\ ui = h /\ holder[h] = Nobody
           /\ ui' = Nobody
           /\ object' = [object EXCEPT ![h] = "deleted"]
           /\ isQuit' = [isQuit EXCEPT ![h] = TRUE]
           /\ pc' = [g \in Handlers |->
                       IF serving[g] = h /\ pc[g] = "wait" THEN "pop" ELSE pc[g]]
           /\ looperMap' = [looperMap EXCEPT ![instance] =
                              [t \in Tids |-> IF t = OwnerTid THEN Nobody ELSE @[t]]]
           /\ UNCHANGED <<instance, tid, handle, serving, handled, late, holder,
                          queue, senders, crashed>>

Next == /\ ~crashed
        /\ \/ \E h \in Handlers : Loop(h) \/ Construct(h) \/ Delete(h) \/ Quit(h)
           \/ \E p \in Posters : Send(p) \/ Sender(p)

Spec == Init /\ [][Next]_vars

(* Threads and calls that have begun go on; a free mutex goes to anybody.    *)
FairSpec == /\ Spec
            /\ \A h \in Handlers : /\ WF_vars(~crashed /\ Loop(h))
                                   /\ WF_vars(~crashed /\ Quit(h))
            /\ \A p \in Posters : WF_vars(~crashed /\ Sender(p))

-----------------------------------------------------------------------------
TypeOK == /\ instance \in Handlers \cup {Nobody}
          /\ looperMap \in [Handlers -> [Tids -> Handlers \cup {Nobody}]]
          /\ tid \in [Handlers -> Tids \cup {OwnerTid}]
          /\ pc \in [Handlers -> {"none", "prepare", "assign", "found", "made",
                                  "find", "check", "pop", "take", "settle",
                                  "wait", "dispatch", "ended"}]
          /\ handle \in [Handlers -> {"unset", "null", "looper"}]
          /\ serving \in [Handlers -> Handlers \cup {Nobody}]
          /\ isQuit \in [Handlers -> BOOLEAN]
          /\ holder \in [Handlers -> Posters \cup {Nobody}]
          /\ queue \in [Handlers -> 0..Capacity]
          /\ at \in [Posters -> {"idle", "lock", "push", "wait"}]
          /\ to \in [Posters -> Handlers \cup {Nobody}]
          /\ ui \in Handlers \cup {Nobody}
          /\ object \in [Handlers -> {"new", "alive", "deleted"}]
          /\ sent \in [Handlers -> 0..MaxPosts]
          /\ accepted \in [Handlers -> Nat] /\ handled \in [Handlers -> Nat]
          /\ late \in [Handlers -> Nat]
          /\ crashed \in BOOLEAN

Popping == {"pop", "take", "settle", "wait", "dispatch"}

(* Although a looper stays registered under the id of its dead thread, and   *)
(* a later thread finds it under that id (LooperManager.h:47), no thread     *)
(* ever turns to another handler's queue.                                    *)
OneReader == \A h \in Handlers : pc[h] \in Popping => serving[h] = h

(* After ~XHandler has returned at most one more message is dispatched to    *)
(* the deleted handler: the one pop() had decided on (XLooper.cpp:42-49).    *)
LateAtMostOne == \A h \in Handlers : late[h] <= 1

(* The loop of h has ended, or will not begin, though nobody asked for it.   *)
Deaf(h) == pc[h] = "ended" /\ ~isQuit[h]

(* A handler is deaf for two reasons only: an earlier thread of the same id  *)
(* has left its looper registered, or another thread replaced the            *)
(* LooperManager this one had registered with (LooperManager.h:21, 29-34).   *)
DeafReason == \A h \in Handlers : Deaf(h) =>
    \/ handle[h] = "null" /\ \E g \in Handlers : isQuit[g] /\ tid[g] = tid[h]
    \/ \E m \in Handlers \ {instance} : looperMap[m][tid[h]] = h

(* sendMessage() and ~XHandler return, although one waits for room with the  *)
(* mutex the other one needs (XLooper.cpp:23, XLooper.h:25): only a deaf     *)
(* handler's queue stays full.                                               *)
CallsReturn ==
    /\ \A p \in Posters :
         at[p] # "idle" ~> at[p] = "idle" \/ crashed \/ Deaf(to[p])
    /\ ui # Nobody ~> ui = Nobody \/ crashed \/ Deaf(ui)

(* Messages that were accepted are dispatched unless the handler is deleted  *)
(* or deaf: no notification is lost between push() and pop().                *)
Delivered == \A h \in Handlers :
    handled[h] < accepted[h] ~> handled[h] = accepted[h] \/ isQuit[h] \/ crashed
                                \/ Deaf(h)
=============================================================================

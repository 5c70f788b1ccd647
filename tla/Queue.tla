------------------------------- MODULE Queue -------------------------------
(* xplayer/queue/Queue.h: the blocking queue between the demuxer thread and  *)
(* a decoder thread.  One mutex, two condition variables (_fullQue, where    *)
(* producers sleep, and _empty, where consumers sleep), and two atomic       *)
(* flags, _quit and _finished, that finished() and quit() set WITHOUT taking *)
(* the mutex.  So the flags may change while another thread is inside its    *)
(* critical section: a thread's look at the flags ("test") and what it does  *)
(* about them ("act") are two steps.                                         *)
EXTENDS Naturals, Sequences, FiniteSets

CONSTANTS Producers,        \* threads that call push()
          Consumers,        \* threads that call pop()
          Capacity,         \* _size_max
          MaxItems,         \* bound: calls of push() made by each producer
          SpuriousWakeups,  \* may a wait() return without a notification
          NoThread          \* nobody holds the mutex

Threads == Producers \cup Consumers

ASSUME CapacityAssumption == Capacity \in Nat \ {0}
ASSUME MaxItemsAssumption == MaxItems \in Nat
ASSUME SpuriousAssumption == SpuriousWakeups \in BOOLEAN
ASSUME ThreadsAssumption  == /\ Producers \cap Consumers = {}
                             /\ NoThread \notin Threads

VARIABLES buffer,    \* _queue
          quit,      \* _quit
          finished,  \* _finished
          holder,    \* the thread that holds _mutex, or NoThread
          pc,        \* where each thread is, see PCs
          sent,      \* how many calls of push() each producer has completed
          finishPc,  \* progress of the call of finished()
          quitPc     \* progress of the call of quit()

vars == <<buffer, quit, finished, holder, pc, sent, finishPc, quitPc>>

(* ready: outside the queue      test: holds the mutex, at the while         *)
(* asleep: in wait()             act: holds the mutex, in the loop's body    *)
(* woken: notified, must take the mutex again                                *)
(* stopped: a consumer whose pop() returned false                            *)
PCs == {"ready", "test", "act", "asleep", "woken", "stopped"}

Item == Producers \X (1..MaxItems)

Init == /\ buffer = << >>
        /\ quit = FALSE
        /\ finished = FALSE
        /\ holder = NoThread
        /\ pc = [t \in Threads |-> "ready"]
        /\ sent = [p \in Producers |-> 0]
        /\ finishPc = "idle"
        /\ quitPc = "idle"

-----------------------------------------------------------------------------
(* notify_all() on the condition variable the threads in S sleep on.         *)
Notified(S) == [t \in Threads |->
                  IF t \in S /\ pc[t] = "asleep" THEN "woken" ELSE pc[t]]

Release == holder' = NoThread

UnchangedFlags == UNCHANGED <<quit, finished, finishPc, quitPc>>

(* A call takes the mutex; a wait() that was woken takes it again.           *)
Lock(t) == /\ pc[t] \in {"ready", "woken"}
           /\ t \in Producers => sent[t] < MaxItems
           /\ holder = NoThread
           /\ holder' = t
           /\ pc' = [pc EXCEPT ![t] = "test"]
           /\ UNCHANGED <<buffer, sent>>
           /\ UnchangedFlags

SpuriousWake(t) == /\ SpuriousWakeups
                   /\ pc[t] = "asleep"
                   /\ pc' = [pc EXCEPT ![t] = "woken"]
                   /\ UNCHANGED <<buffer, holder, sent>>
                   /\ UnchangedFlags

(* Mutant: push() forgets _finished.                                         *)
PushTestQuitOnly(p) ==
    /\ pc[p] = "test"
    /\ IF quit
         THEN /\ pc' = [pc EXCEPT ![p] = "ready"]
              /\ sent' = [sent EXCEPT ![p] = @ + 1]
              /\ Release
         ELSE /\ pc' = [pc EXCEPT ![p] = "act"]
              /\ UNCHANGED <<sent, holder>>
    /\ UNCHANGED buffer
    /\ UnchangedFlags

(* push(): while (!_quit && !_finished).  A refused item is lost, and the    *)
(* caller (IDecode::pushPacket) does not notice.                             *)
PushTest(p) ==
    /\ pc[p] = "test"
    /\ IF quit \/ finished
         THEN /\ pc' = [pc EXCEPT ![p] = "ready"]
              /\ sent' = [sent EXCEPT ![p] = @ + 1]
              /\ Release
         ELSE /\ pc' = [pc EXCEPT ![p] = "act"]
              /\ UNCHANGED <<sent, holder>>
    /\ UNCHANGED buffer
    /\ UnchangedFlags

(* Mutant: the consumers are not notified.                                   *)
PushStoreSilent(p) ==
    /\ pc[p] = "act"
    /\ Len(buffer) < Capacity
    /\ buffer' = Append(buffer, <<p, sent[p] + 1>>)
    /\ sent' = [sent EXCEPT ![p] = @ + 1]
    /\ pc' = [pc EXCEPT ![p] = "ready"]
    /\ Release
    /\ UnchangedFlags

PushStore(p) ==
    /\ pc[p] = "act"
    /\ Len(buffer) < Capacity
    /\ buffer' = Append(buffer, <<p, sent[p] + 1>>)
    /\ sent' = [sent EXCEPT ![p] = @ + 1]
    /\ pc' = [Notified(Consumers) EXCEPT ![p] = "ready"]
    /\ Release
    /\ UnchangedFlags

PushWait(p) ==
    /\ pc[p] = "act"
    /\ Len(buffer) >= Capacity
    /\ pc' = [pc EXCEPT ![p] = "asleep"]
    /\ Release
    /\ UNCHANGED <<buffer, sent>>
    /\ UnchangedFlags

(* pop(): while (!_quit), and the end of the stream.                         *)
PopTest(c) ==
    /\ pc[c] = "test"
    /\ IF quit \/ (buffer = << >> /\ finished)
         THEN pc' = [pc EXCEPT ![c] = "stopped"] /\ Release
         ELSE pc' = [pc EXCEPT ![c] = "act"] /\ UNCHANGED holder
    /\ UNCHANGED <<buffer, sent>>
    /\ UnchangedFlags

PopTake(c) ==
    /\ pc[c] = "act"
    /\ buffer # << >>
    /\ buffer' = Tail(buffer)
    /\ pc' = [Notified(Producers) EXCEPT ![c] = "ready"]
    /\ Release
    /\ UNCHANGED sent
    /\ UnchangedFlags

PopWait(c) ==
    /\ pc[c] = "act"
    /\ buffer = << >>
    /\ pc' = [pc EXCEPT ![c] = "asleep"]
    /\ Release
    /\ UNCHANGED <<buffer, sent>>
    /\ UnchangedFlags

-----------------------------------------------------------------------------
(* finished(): sets the flag, then wakes the consumers only.                 *)
FinishSet == /\ finishPc = "idle"
             /\ finished' = TRUE
             /\ finishPc' = "set"
             /\ UNCHANGED <<buffer, quit, holder, pc, sent, quitPc>>

FinishNotify == /\ finishPc = "set"
                /\ pc' = Notified(Consumers)
                /\ finishPc' = "done"
                /\ UNCHANGED <<buffer, quit, finished, holder, sent, quitPc>>

(* quit(): sets the flag, then wakes the consumers, then the producers.      *)
QuitSet == /\ quitPc = "idle"
           /\ quit' = TRUE
           /\ quitPc' = "set"
           /\ UNCHANGED <<buffer, finished, holder, pc, sent, finishPc>>

QuitNotifyEmpty ==
    /\ quitPc = "set"
    /\ pc' = Notified(Consumers)
    /\ quitPc' = "emptied"
    /\ UNCHANGED <<buffer, quit, finished, holder, sent, finishPc>>

(* Mutant: quit() notifies _empty twice and never _fullQue.                  *)
QuitNotifyEmptyTwice ==
    /\ quitPc = "emptied"
    /\ pc' = Notified(Consumers)
    /\ quitPc' = "done"
    /\ UNCHANGED <<buffer, quit, finished, holder, sent, finishPc>>

QuitNotifyFull ==
    /\ quitPc = "emptied"
    /\ pc' = Notified(Producers)
    /\ quitPc' = "done"
    /\ UNCHANGED <<buffer, quit, finished, holder, sent, finishPc>>

-----------------------------------------------------------------------------
Push(p) == PushTest(p) \/ PushStore(p) \/ PushWait(p)
Pop(c)  == PopTest(c) \/ PopTake(c) \/ PopWait(c)
Close   == FinishSet \/ FinishNotify \/ QuitSet \/ QuitNotifyEmpty
           \/ QuitNotifyFull

Next == \/ \E t \in Threads : Lock(t) \/ SpuriousWake(t)
        \/ \E p \in Producers : Push(p)
        \/ \E c \in Consumers : Pop(c)
        \/ Close

Spec == Init /\ [][Next]_vars

(* Threads run, calls of finished() and quit() that began end, and a free    *)
(* mutex is not withheld for ever.  Nothing says that somebody closes the    *)
(* queue.  A wait() may return of itself, but not for ever.                  *)
Fairness == /\ \A t \in Threads : WF_vars(Lock(t))
            /\ \A p \in Producers : WF_vars(Push(p))
            /\ \A c \in Consumers : WF_vars(Pop(c))
            /\ WF_vars(FinishNotify)
            /\ WF_vars(QuitNotifyEmpty)
            /\ WF_vars(QuitNotifyFull)
            /\ <>[][\A t \in Threads : ~SpuriousWake(t)]_vars

FairSpec == Spec /\ Fairness

-----------------------------------------------------------------------------
TypeOK == /\ buffer \in Seq(Item)
          /\ Len(buffer) <= Capacity
          /\ quit \in BOOLEAN
          /\ finished \in BOOLEAN
          /\ holder \in Threads \cup {NoThread}
          /\ pc \in [Threads -> PCs]
          /\ sent \in [Producers -> 0..MaxItems]
          /\ finishPc \in {"idle", "set", "done"}
          /\ quitPc \in {"idle", "set", "emptied", "done"}

Asleep(S) == {t \in S : pc[t] = "asleep"}

(* Threads that a completed quit() leaves waiting, or on their way to it.    *)
Stranded(S) == {t \in S : pc[t] \in {"act", "asleep"}}

(* No wakeup is lost between push() and pop(): a consumer sleeps only on an  *)
(* empty queue, a producer only on a full one (Queue.h:50, 97).              *)
SleepersJustified == /\ Asleep(Consumers) # {} => buffer = << >>
                     /\ Asleep(Producers) # {} => Len(buffer) = Capacity

(* quit() sets its flag and notifies without the mutex, so a thread that     *)
(* tested the flag before may go to sleep after the notifications.  That     *)
(* thread held the mutex, so a completed quit() (Queue.h:113) leaves at most *)
(* one thread asleep for ever; the others all return.                        *)
QuitStrandsAtMostOne ==
    quitPc = "done" => \A s, t \in Stranded(Threads) : s = t

(* The same window in finished() (Queue.h:104): once it has returned, at     *)
(* most one consumer that found the queue empty is asleep.                   *)
FinishStrandsAtMostOne ==
    finishPc = "done" => \A s, t \in Asleep(Consumers) : s = t

(* pop() says "end of the stream" (Queue.h:93) only when nothing will come:  *)
(* a push that slipped past finished() (see the refusal at Queue.h:41) has   *)
(* stored its item before any consumer is told, so no item is left behind.   *)
EndOfStreamIsFinal ==
    ~quit /\ (\E c \in Consumers : pc[c] = "stopped") =>
        finished /\ buffer = << >> /\ \A p \in Producers : pc[p] # "act"

(* The queue implements the bounded buffer: FIFO, never above Capacity, and  *)
(* at most one call goes through after it is closed.                         *)
Grace == IF \E p \in Producers : pc[p] = "act"
           THEN IF finished \/ quit THEN {"put"} ELSE {}
           ELSE IF quit /\ \E c \in Consumers : pc[c] = "act"
                  THEN {"take"} ELSE {}

Abstract == INSTANCE BoundedBuffer WITH content <- buffer, grace <- Grace

ImplementsBuffer == Abstract!Spec

(* Every accepted item reaches a consumer unless quit() is called.           *)
ItemsDelivered ==
    \A x \in Item : (\E i \in 1..Len(buffer) : buffer[i] = x)
                    ~> (quit \/ \A i \in 1..Len(buffer) : buffer[i] # x)

=============================================================================

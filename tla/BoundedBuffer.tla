--------------------------- MODULE BoundedBuffer ---------------------------
(* What the bounded queue of the player promises its callers, without its    *)
(* mutex, its condition variables and its threads: a FIFO of at most         *)
(* Capacity items that can be told to accept no more input (Finish) and      *)
(* to stop altogether (Quit).  Closing it is not quite immediate: a call     *)
(* that was already admitted when the buffer was closed may still go         *)
(* through, but at most one.                                                 *)
EXTENDS Naturals, Sequences, FiniteSets

CONSTANTS Item,      \* what the buffer holds
          Capacity   \* how many of them

VARIABLES content,   \* the items held, oldest first
          finished,  \* no more input is wanted
          quit,      \* no more service is given
          grace      \* the calls admitted before closing and not yet done

vars == <<content, finished, quit, grace>>

Kinds == {"put", "take"}

Init == /\ content = << >>
        /\ finished = FALSE
        /\ quit = FALSE
        /\ grace = {}

(* A closed buffer serves a call only if it was admitted in time.            *)
Served(kind, closed) ==
    IF closed THEN kind \in grace /\ grace' = grace \ {kind}
              ELSE UNCHANGED grace

Put == /\ Len(content) < Capacity
       /\ \E x \in Item : content' = Append(content, x)
       /\ Served("put", finished \/ quit)
       /\ UNCHANGED <<finished, quit>>

Take == /\ content # << >>
        /\ content' = Tail(content)
        /\ Served("take", quit)
        /\ UNCHANGED <<finished, quit>>

Finish == /\ ~finished
          /\ finished' = TRUE
          /\ IF quit THEN UNCHANGED grace ELSE grace' \in {{}, {"put"}}
          /\ UNCHANGED <<content, quit>>

Quit == /\ ~quit
        /\ quit' = TRUE
        /\ grace' \in IF finished THEN {{}, {"take"}, grace}
                                  ELSE {{}, {"take"}, {"put"}}
        /\ UNCHANGED <<content, finished>>

(* An admitted call may also find nothing to do.                             *)
GiveUp == /\ grace # {}
          /\ grace' = {}
          /\ UNCHANGED <<content, finished, quit>>

Next == Put \/ Take \/ Finish \/ Quit \/ GiveUp

Spec == Init /\ [][Next]_vars

-----------------------------------------------------------------------------

TypeOK == /\ content \in Seq(Item)
          /\ finished \in BOOLEAN
          /\ quit \in BOOLEAN
          /\ grace \in SUBSET Kinds

(* Closing lets at most one more call through: never a put and a take, and   *)
(* none at all unless the buffer is being closed.                            *)
AtMostOneLateCall == /\ Cardinality(grace) <= 1
                     /\ grace # {} => finished \/ quit
=============================================================================

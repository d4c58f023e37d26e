------------------------------ MODULE EchoQueue ------------------------------
(***************************************************************************)
(* What the keyboard driver promises the reader of the screen: each press  *)
(* is taken once, in the order of the presses.  It waits in a first-in     *)
(* first-out queue of at most Capacity events, is refused only when the    *)
(* queue is full, or, for backspace, is shown at once.  Backspace may thus *)
(* overtake the presses waiting; nothing is promised about that.           *)
(***************************************************************************)
EXTENDS Naturals, Sequences

CONSTANTS Capacity,     \* events the queue holds
          Events        \* key presses: [ascii, id] records, ascii 0 if none;
                        \* the ids number the presses

VARIABLES queue,        \* the events waiting, oldest first
          screen,       \* the ids of what was shown, in order
          latest        \* the id of the latest press taken, 0 at first

vars == <<queue, screen, latest>>

Init == queue = <<>> /\ screen = <<>> /\ latest = 0

(* The press e is the next one taken.                                      *)
Taken(e) == e.id > latest /\ latest' = e.id

(* A key is pressed: its event waits when there is room ...                *)
Type(e) ==
    /\ Taken(e)
    /\ Len(queue) < Capacity
    /\ queue' = Append(queue, e)
    /\ UNCHANGED screen

(* ... and is lost only when there is none.                                *)
Refuse(e) ==
    /\ Taken(e)
    /\ Len(queue) = Capacity
    /\ UNCHANGED <<queue, screen>>

(* The oldest event leaves the queue; it is shown if it has a character.   *)
Show ==
    /\ queue # <<>>
    /\ queue' = Tail(queue)
    /\ screen' = IF Head(queue).ascii = 0 THEN screen
                 ELSE Append(screen, [what |-> "character", id |-> Head(queue).id])
    /\ UNCHANGED latest

(* Backspace goes to the screen directly.                                  *)
Immediate(e) ==
    /\ Taken(e)
    /\ screen' = Append(screen, [what |-> "backspace", id |-> e.id])
    /\ UNCHANGED queue

Next == Show \/ \E e \in Events : Type(e) \/ Refuse(e) \/ Immediate(e)

Spec == Init /\ [][Next]_vars
==============================================================================

------------------------------ MODULE Keyboard ------------------------------
(***************************************************************************)
(* The PS/2 keyboard driver (drivers/keyboard.cpp).                        *)
(*                                                                         *)
(* The keyboard sends scancode bytes; each byte raises IRQ 1 and runs      *)
(* keyboard_handler, which tracks the modifiers and the keys held and puts *)
(* presses in a circular queue.  process_keyboard_input empties the queue  *)
(* to the screen.                                                          *)
(*                                                                         *)
(* The handler sits behind an interrupt gate, so nothing preempts it: one  *)
(* action per byte.  process_keyboard_input runs in ordinary code and is   *)
(* preempted by the handler wherever interrupts are enabled.  It shares    *)
(* event_queue and queue_size with the handler through plain variables,    *)
(* which is a data race: the model takes one step per access to them, lets *)
(* the copy of an event and the store of queue_size happen in either order *)
(* (process_keyboard_input compiles to the one, dequeue_keyboard_event to  *)
(* the other), and lets queue_size be loaded again or not after an event   *)
(* that prints nothing.  queue_head belongs to the consumer alone and is   *)
(* written together with queue_size.                                       *)
(*                                                                         *)
(* A character is its scancode, plus 128 when it is the shifted one; 0 is  *)
(* no character.                                                           *)
(***************************************************************************)
EXTENDS Integers, Sequences, FiniteSets

CONSTANTS
    MAX_KEYBOARD_EVENTS,    \* slots of the circular buffer (64)
    Settings,       \* keyboards and callers, see Setting
    Printable,      \* scancodes with a character in SCANCODE2ASCII
    MaxPresses,     \* bound on the make codes any keyboard sends
    MaxWire         \* bound on the bytes waiting in the keyboard

LSHIFT == 42
RSHIFT == 54
CAPS == 58
BACKSPACE == 14
PREFIX == 224   \* the byte an extended key sends first

(* keyboard_handler returns before keys[] for these.                       *)
Special == {LSHIFT, RSHIFT, CAPS, BACKSPACE}

(* No key has the low bits of the prefix for a code.  keys: the keys of    *)
(* the keyboard; repeating: those that repeat while held; presses: bound   *)
(* on the make codes sent; preemptible: may interrupts arrive while the    *)
(* queue is processed?                                                     *)
Key     == [code : (1 .. 127) \ {PREFIX - 128}, extended : BOOLEAN]
Setting == [keys : SUBSET Key, repeating : SUBSET Key, presses : Nat, preemptible : BOOLEAN]

ASSUME KeyboardAssumption ==
    /\ MAX_KEYBOARD_EVENTS \in Nat \ {0} /\ Printable \subseteq 1 .. 127
    /\ \A s \in Settings : /\ DOMAIN s = {"keys", "repeating", "presses", "preemptible"}
                           /\ s.keys \subseteq Key /\ s.repeating \subseteq s.keys
                           /\ s.presses \in 0 .. MaxPresses /\ s.preemptible \in BOOLEAN
    /\ MaxPresses \in Nat /\ MaxWire \in Nat

VARIABLES
    setting,        \* one of Settings; constant
    \* the keyboard
    down,           \* keys held down
    caps_on,        \* caps lock as its user sees it: each press flips it
    presses,        \* make codes sent so far; each has its number as id
    wire,           \* bytes sent and not yet read: [byte, id, shifted]
    \* keyboard_state
    last_key, keys, shift_left, shift_right, caps_lock,
    event_queue, queue_head, queue_tail, queue_size,
    \* process_keyboard_input
    todo,           \* accesses left for the event being dequeued
    r_size, r_head, r_event,    \* what it holds in registers
    running,        \* is it called and not yet returned?
    \* history
    enqueued, dequeued,         \* how many events entered and left the queue
    screen,         \* the presses putchar was called for: [what, id] records
    handled         \* the last press given to enqueue_event or putchar

Keys        == setting.keys
Preemptible == setting.preemptible

board == <<setting, down, caps_on, presses>>
modifiers == <<shift_left, shift_right, caps_lock>>
ring  == <<event_queue, queue_tail, enqueued>>
registers == <<todo, r_size, r_head, r_event, running>>
consumer == <<registers, queue_head, dequeued>>
vars == <<board, wire, last_key, keys, modifiers, ring, queue_size, consumer, screen, handled>>

Slots == 0 .. MAX_KEYBOARD_EVENTS - 1
NoEvent == [ascii |-> 0, id |-> 0]
Put(what, id) == [what |-> what, id |-> id]     \* putchar called for press id

Init ==
    /\ setting \in Settings
    /\ down = {} /\ caps_on = FALSE /\ presses = 0 /\ wire = <<>>
    /\ last_key = 0 /\ keys = [c \in 0 .. 127 |-> FALSE]
    /\ shift_left = FALSE /\ shift_right = FALSE /\ caps_lock = FALSE
    /\ event_queue = [s \in Slots |-> NoEvent]
    /\ queue_head = 0 /\ queue_tail = 0 /\ queue_size = 0
    /\ todo = {} /\ r_size = 0 /\ r_head = 0 /\ r_event = NoEvent /\ running = FALSE
    /\ enqueued = 0 /\ dequeued = 0 /\ screen = <<>> /\ handled = 0

-----------------------------------------------------------------------------
(***************************************************************************)
(* The keyboard: make codes, break codes and typematic repeats.            *)
(***************************************************************************)
(* Is a key pressed now meant shifted?                                     *)
ShiftHeld == \E k \in down : k.code \in {LSHIFT, RSHIFT} /\ ~k.extended
Shifted   == ShiftHeld # caps_on

Bytes(k, byte, id) ==
    LET b(v) == [byte |-> v, id |-> id, shifted |-> Shifted]
    IN  IF k.extended THEN <<b(PREFIX), b(byte)>> ELSE <<b(byte)>>

Make(k) ==
    /\ presses < setting.presses /\ Len(wire) < MaxWire
    /\ presses' = presses + 1 /\ UNCHANGED setting
    /\ wire' = wire \o Bytes(k, k.code, presses + 1)

Press(k) ==
    /\ k \in Keys \ down /\ Make(k)
    /\ down' = down \cup {k}
    /\ caps_on' = IF k.code = CAPS THEN ~caps_on ELSE caps_on
    /\ UNCHANGED <<last_key, keys, modifiers, ring, queue_size, consumer, screen, handled>>

(* A held key repeats.                                                     *)
Repeat(k) ==
    /\ k \in down \cap setting.repeating /\ Make(k)
    /\ UNCHANGED <<down, caps_on, last_key, keys, modifiers, ring, queue_size, consumer, screen,
                   handled>>

Release(k) ==
    /\ k \in down /\ Len(wire) < MaxWire
    /\ down' = down \ {k}
    /\ wire' = wire \o Bytes(k, k.code + 128, 0)
    /\ UNCHANGED <<setting, caps_on, presses, last_key, keys, modifiers, ring, queue_size, consumer,
                   screen, handled>>

-----------------------------------------------------------------------------
(***************************************************************************)
(* keyboard_handler: one byte.                                             *)
(***************************************************************************)
Scancode(byte) == byte % 128

(* A mutant: every byte but the last break code is a press.                *)
ReleasedLast(byte) == byte = 255
Released(byte)     == byte >= 128

(* translate_scancode; the mutant lets caps lock win over shift.           *)
UseShiftOr == shift_left \/ shift_right \/ caps_lock
UseShift   == (shift_left \/ shift_right) # caps_lock
Translate(scancode) ==
    IF scancode \notin Printable THEN 0
    ELSE IF UseShift THEN scancode + 128 ELSE scancode

(* The slot after s.  A mutant: the index does not wrap.                   *)
NextSlotNoWrap(s) == s + 1
NextSlot(s)       == (s + 1) % MAX_KEYBOARD_EVENTS

(* A mutant of HasRoom: the last slot is never used.                       *)
HasRoomOneLess == queue_size < MAX_KEYBOARD_EVENTS - 1
HasRoom        == queue_size < MAX_KEYBOARD_EVENTS

(* enqueue_event: refused when the queue is full.                          *)
Enqueue(ascii, id) ==
    IF HasRoom
    THEN /\ event_queue' = [event_queue EXCEPT ![queue_tail] = [ascii |-> ascii, id |-> id]]
         /\ queue_tail' = NextSlot(queue_tail)
         /\ queue_size' = queue_size + 1
         /\ enqueued' = enqueued + 1
    ELSE UNCHANGED <<ring, queue_size>>

(* IRQ 1 is taken and the handler reads the oldest byte.                   *)
Interrupt == /\ wire # <<>> /\ (Preemptible \/ ~running)
             /\ wire' = Tail(wire)
             /\ UNCHANGED <<board, consumer>>
Byte == Head(wire).byte

HandleShift ==
    /\ Interrupt
    /\ \/ /\ Scancode(Byte) = LSHIFT
          /\ shift_left' = ~Released(Byte) /\ UNCHANGED shift_right
       \/ /\ Scancode(Byte) = RSHIFT
          /\ shift_right' = ~Released(Byte) /\ UNCHANGED shift_left
    /\ UNCHANGED <<last_key, keys, caps_lock, ring, queue_size, screen, handled>>

HandleCaps ==
    /\ Interrupt /\ Scancode(Byte) = CAPS
    /\ caps_lock' = IF Released(Byte) THEN caps_lock ELSE ~caps_lock
    /\ UNCHANGED <<last_key, keys, shift_left, shift_right, ring, queue_size, screen, handled>>

(* Backspace goes to the screen at once, past the queue.                   *)
HandleBackspace ==
    /\ Interrupt /\ Scancode(Byte) = BACKSPACE
    /\ IF Released(Byte)
       THEN UNCHANGED <<screen, handled>>
       ELSE /\ screen' = Append(screen, Put("backspace", Head(wire).id))
            /\ handled' = Head(wire).id
    /\ UNCHANGED <<last_key, keys, modifiers, ring, queue_size>>

(* Any other byte, the prefix of an extended key included.                 *)
HandleKey ==
    /\ Interrupt /\ Scancode(Byte) \notin Special
    /\ keys' = [keys EXCEPT ![Scancode(Byte)] = ~Released(Byte)]
    /\ IF Released(Byte)
       THEN UNCHANGED <<last_key, ring, queue_size, handled>>
       ELSE /\ last_key' = Translate(Scancode(Byte))
            /\ Enqueue(Translate(Scancode(Byte)), Head(wire).id)
            /\ handled' = Head(wire).id
    /\ UNCHANGED <<modifiers, screen>>

(* is_pressed                                                              *)
IsPressed(scancode) == keys[scancode % 128]

Handler == HandleShift \/ HandleCaps \/ HandleBackspace \/ HandleKey

-----------------------------------------------------------------------------
(***************************************************************************)
(* process_keyboard_input, with dequeue_keyboard_event inlined as in the   *)
(* build.                                                                  *)
(***************************************************************************)
Drained(n) == n = 0

(* What one turn of the loop does with a queue_size of n: return, or start *)
(* on the event at queue_head.                                             *)
Turn(n) ==
    /\ r_event' = NoEvent
    /\ IF Drained(n)
       THEN running' = FALSE /\ todo' = {} /\ r_size' = 0 /\ r_head' = 0
       ELSE running' = TRUE /\ todo' = {"copy", "store"} /\ r_size' = n /\ r_head' = queue_head

(* The call: queue_size is loaded and tested.                              *)
Call ==
    /\ ~running /\ queue_size > 0
    /\ Turn(queue_size)
    /\ UNCHANGED <<board, wire, last_key, keys, modifiers, ring, queue_size, queue_head,
                   dequeued, screen, handled>>

(* event = event_queue[queue_head]                                         *)
Copy ==
    /\ "copy" \in todo
    /\ r_event' = event_queue[r_head] /\ todo' = todo \ {"copy"}
    /\ UNCHANGED <<board, wire, last_key, keys, modifiers, ring, queue_size, queue_head,
                   r_size, r_head, running, dequeued, screen, handled>>

(* queue_size without the event in hand.  A mutant: it still counts it.    *)
RemainingWithIt == r_size
Remaining       == r_size - 1

(* queue_head and queue_size are stored, from registers.                   *)
Store ==
    /\ "store" \in todo
    /\ queue_head' = NextSlot(r_head)
    /\ queue_size' = Remaining
    /\ dequeued' = dequeued + 1 /\ todo' = todo \ {"store"}
    /\ UNCHANGED <<board, wire, last_key, keys, modifiers, ring, r_size, r_head, r_event,
                   running, screen, handled>>

(* The event has a character: it is printed, and queue_size loaded again.  *)
Echo ==
    /\ running /\ todo = {} /\ r_event.ascii # 0
    /\ screen' = Append(screen, Put("character", r_event.id))
    /\ Turn(queue_size)
    /\ UNCHANGED <<board, wire, last_key, keys, modifiers, ring, queue_size, queue_head,
                   dequeued, handled>>

(* A mutant of Skip: the loop waits on an event without a character.       *)
SkipWaits == running /\ todo = {} /\ r_event.ascii = 0 /\ UNCHANGED vars

(* It has none: the loop goes on with queue_size, loaded or still in its   *)
(* register.                                                               *)
Skip ==
    /\ running /\ todo = {} /\ r_event.ascii = 0
    /\ Turn(queue_size) \/ Turn(Remaining)
    /\ UNCHANGED <<board, wire, last_key, keys, modifiers, ring, queue_size, queue_head,
                   dequeued, screen, handled>>

Process == Copy \/ Store \/ Echo \/ Skip

Next == \/ \E k \in Keys : Press(k) \/ Repeat(k) \/ Release(k)
        \/ Handler
        \/ Call \/ Process

(* A call of process_keyboard_input runs on: between interrupts nothing    *)
(* else uses the processor.                                                *)
Spec == Init /\ [][Next]_vars /\ WF_vars(Process)

-----------------------------------------------------------------------------
(***************************************************************************)
(* Properties                                                              *)
(***************************************************************************)
Event == [ascii : 0 .. 255, id : Nat]

TypeOK ==
    /\ setting \in Settings /\ down \subseteq Keys /\ caps_on \in BOOLEAN /\ presses \in Nat
    /\ wire \in Seq([byte : 0 .. 255, id : Nat, shifted : BOOLEAN])
    /\ last_key \in 0 .. 255 /\ keys \in [0 .. 127 -> BOOLEAN]
    /\ shift_left \in BOOLEAN /\ shift_right \in BOOLEAN /\ caps_lock \in BOOLEAN
    /\ event_queue \in [Slots -> Event]
    /\ queue_head \in Slots /\ queue_tail \in Slots /\ queue_size \in 0 .. MAX_KEYBOARD_EVENTS
    /\ todo \subseteq {"copy", "store"} /\ r_size \in 0 .. MAX_KEYBOARD_EVENTS
    /\ r_head \in Slots /\ r_event \in Event /\ running \in BOOLEAN
    /\ enqueued \in Nat /\ dequeued \in Nat
    /\ screen \in Seq([what : {"character", "backspace"}, id : Nat])
    /\ handled \in Nat

(* queue_size never promises an event that is not in the buffer, whatever  *)
(* the handler does between its load and its store: a lost update of       *)
(* queue_size hides events, it never invents one.                          *)
SizeWithinBacklog == queue_size <= enqueued - dequeued

(* With interrupts off while the queue is processed, head, tail and size   *)
(* agree.                                                                  *)
RingConsistent ==
    ~Preemptible =>
        /\ queue_tail = (queue_head + queue_size) % MAX_KEYBOARD_EVENTS
        /\ queue_size = enqueued - dequeued

(* Characters reach the screen in the order they were typed, each once.    *)
EchoedInOrder ==
    LET shown == SelectSeq(screen, LAMBDA p : p.what = "character")
    IN  \A m, n \in DOMAIN shown : m < n => shown[m].id < shown[n].id

(* process_keyboard_input returns, with interrupts off.                    *)
ProcessReturns == ~Preemptible /\ running ~> ~running

(* The driver drops the prefix, so an extended shift, which set 1          *)
(* keyboards fake around the grey keys, counts as a shift; and it toggles  *)
(* caps lock at each repeat.  A keyboard that does neither is one whose    *)
(* modifiers it can follow.                                                *)
Followed(s) ==
    \A k \in s.keys : /\ k.code \in {LSHIFT, RSHIFT} => ~k.extended
                      /\ k.code = CAPS => k \notin s.repeating

(* On such a keyboard, a press is queued with the case that was right when *)
(* the key went down, however late its byte is read.                       *)
CaseOfPress ==
    [][Followed(setting) /\ enqueued' # enqueued =>
          LET e == event_queue'[queue_tail]
          IN  e.ascii # 0 => (e.ascii >= 128) = Head(wire).shifted]_vars

(* What the driver says of the keys with code c: the flags of the shifts,  *)
(* is_pressed for the others.                                              *)
SaidHeld(c) == IF c = LSHIFT THEN shift_left
               ELSE IF c = RSHIFT THEN shift_right ELSE IsPressed(c)

(* When the keyboard has nothing more to say: a code that the driver says  *)
(* is held is that of a key held, so no key is stuck or made up; a key     *)
(* held is said to be, caps lock and backspace aside, unless another key   *)
(* shares its code, since the release of either is taken for both; where   *)
(* modifiers can be followed the shift state and caps lock are the user's. *)
(* is_pressed says FALSE of shift, caps lock and backspace, held or not.   *)
Alone(k) == \A l \in Keys : l.code = k.code => l = k
HeldKeysTracked ==
    wire = <<>> =>
        /\ \A c \in 0 .. 127 : SaidHeld(c) => \E k \in down : k.code = c
        /\ \A k \in down : Alone(k) /\ k.code \notin {CAPS, BACKSPACE} => SaidHeld(k.code)
        /\ \A c \in Special : ~IsPressed(c)
        /\ Followed(setting) => (shift_left \/ shift_right <=> ShiftHeld) /\ caps_lock = caps_on

(* With interrupts off while the queue is processed, the driver implements *)
(* the abstract queue: presses are taken in order, each once, and refused  *)
(* only when MAX_KEYBOARD_EVENTS of them wait.                             *)
Waiting ==
    [n \in 1 .. queue_size |-> event_queue[(queue_head + n - 1) % MAX_KEYBOARD_EVENTS]]
InFlight == IF "copy" \in todo THEN event_queue[r_head] ELSE r_event
Shown    == IF running /\ "store" \notin todo /\ InFlight.ascii # 0
            THEN Append(screen, Put("character", InFlight.id)) ELSE screen
EQ == INSTANCE EchoQueue WITH
        Capacity <- MAX_KEYBOARD_EVENTS,
        Events   <- [ascii : 0 .. 255, id : 1 .. MaxPresses],
        queue    <- Waiting,
        screen   <- Shown,
        latest   <- handled
ImplementsEchoQueue ==
    (~Preemptible => EQ!Init) /\ [][~Preemptible => EQ!Next]_(EQ!vars)
==============================================================================

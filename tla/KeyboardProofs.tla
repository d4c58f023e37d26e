--------------------------- MODULE KeyboardProofs ---------------------------
(***************************************************************************)
(* Keyboard, for any keyboards and callers, any size of the circular       *)
(* buffer and any number of presses.                                       *)
(***************************************************************************)
EXTENDS Keyboard, SequenceTheorems, TLAPS

-----------------------------------------------------------------------------
(***************************************************************************)
(* Slots of the circular buffer.                                           *)
(***************************************************************************)
LEMMA SlotOf ==
    ASSUME NEW x \in 0 .. 2 * MAX_KEYBOARD_EVENTS - 1
    PROVE  x % MAX_KEYBOARD_EVENTS =
               IF x < MAX_KEYBOARD_EVENTS THEN x ELSE x - MAX_KEYBOARD_EVENTS
<1> DEFINE M == MAX_KEYBOARD_EVENTS
<1>1. M \in Nat \ {0}
  BY KeyboardAssumption
<1> HIDE DEF M
<1>2. \A y \in 0 .. M - 1 : y % M = y
  BY <1>1
<1>3. \A y \in 0 .. M - 1 : (y + M) % M = y
  BY <1>1
<1>4. CASE x < M
  BY <1>1, <1>2, <1>4 DEF M
<1>5. CASE ~(x < M)
  <2>1. x - M \in 0 .. M - 1 /\ (x - M) + M = x
    BY <1>1, <1>5 DEF M
  <2> QED
    BY <1>3, <1>5, <2>1 DEF M
<1> QED
  BY <1>4, <1>5

(* The n-th event waiting, seen from the head and from the slot after it;  *)
(* the slots of the events waiting and the one at the tail differ.         *)
LEMMA SlotArithmetic ==
    ASSUME NEW h \in Slots, NEW n \in 0 .. MAX_KEYBOARD_EVENTS
    PROVE  /\ MAX_KEYBOARD_EVENTS \in Nat \ {0}
           /\ NextSlot(h) \in Slots /\ (h + n) % MAX_KEYBOARD_EVENTS \in Slots
           /\ n < MAX_KEYBOARD_EVENTS =>
                NextSlot((h + n) % MAX_KEYBOARD_EVENTS) = (h + (n + 1)) % MAX_KEYBOARD_EVENTS
           /\ n > 0 => (NextSlot(h) + (n - 1)) % MAX_KEYBOARD_EVENTS = (h + n) % MAX_KEYBOARD_EVENTS
           /\ n < MAX_KEYBOARD_EVENTS =>
                \A m \in 0 .. n - 1 : (h + m) % MAX_KEYBOARD_EVENTS # (h + n) % MAX_KEYBOARD_EVENTS
<1> DEFINE M == MAX_KEYBOARD_EVENTS
<1>1. M \in Nat \ {0}
  BY KeyboardAssumption
<1>2. \A x \in 0 .. 2 * M - 1 : x % M = IF x < M THEN x ELSE x - M
  BY SlotOf
<1>3. h \in 0 .. M - 1 /\ n \in 0 .. M
  BY DEF Slots
<1> HIDE DEF M
<1>4. h + 1 \in 0 .. 2 * M - 1 /\ (h + 1) % M \in 0 .. M - 1
  BY <1>1, <1>2, <1>3
<1>5. h + n \in 0 .. 2 * M - 1 /\ (h + n) % M \in 0 .. M - 1
  BY <1>1, <1>2, <1>3
<1>6. ASSUME n < M
      PROVE  (((h + n) % M) + 1) % M = (h + (n + 1)) % M
  <2>1. h + n + 1 = h + (n + 1) /\ h + n + 1 \in 0 .. 2 * M - 1
    BY <1>1, <1>3, <1>6
  <2>2. CASE h + n < M
    <3>1. (h + n) % M = h + n
      BY <1>2, <1>5, <2>2
    <3> QED
      BY <2>1, <3>1
  <2>3. CASE ~(h + n < M)
    <3>1. (h + n) % M = h + n - M
      BY <1>1, <1>2, <1>3, <1>5, <2>3
    <3>2. h + n - M + 1 \in 0 .. M - 1
      BY <1>1, <1>3, <1>6, <2>3
    <3>3. (h + n - M + 1) % M = h + n - M + 1
      BY <1>1, <1>2, <3>2
    <3>4. (h + n + 1) % M = h + n + 1 - M
      BY <1>1, <1>2, <1>3, <2>1, <2>3
    <3> QED
      BY <1>1, <1>3, <2>1, <3>1, <3>3, <3>4
  <2> QED
    BY <2>2, <2>3
<1>7. ASSUME n > 0
      PROVE  (((h + 1) % M) + (n - 1)) % M = (h + n) % M
  <2>1. CASE h + 1 < M
    <3>1. (h + 1) % M = h + 1
      BY <1>2, <1>4, <2>1
    <3> QED
      BY <1>3, <1>7, <3>1
  <2>2. CASE ~(h + 1 < M)
    <3>1. (h + 1) % M = 0 /\ h = M - 1
      BY <1>1, <1>2, <1>3, <1>4, <2>2
    <3>2. (n - 1) % M = n - 1 /\ n - 1 \in Nat
      BY <1>1, <1>2, <1>3, <1>7
    <3>3. (h + n) % M = h + n - M
      BY <1>1, <1>2, <1>3, <1>5, <1>7, <3>1
    <3> QED
      BY <1>1, <1>3, <3>1, <3>2, <3>3
  <2> QED
    BY <2>1, <2>2
<1>8. ASSUME n < M, NEW m \in 0 .. n - 1
      PROVE  (h + m) % M # (h + n) % M
  <2>1. h + m \in 0 .. 2 * M - 1
    BY <1>1, <1>3, <1>8
  <2> DEFINE x == h + m
             y == h + n
  <2>2. /\ x \in 0 .. 2 * M - 1 /\ y \in 0 .. 2 * M - 1 /\ x \in Int /\ y \in Int
        /\ x < y /\ y < x + M
    BY <1>1, <1>3, <1>5, <1>8, <2>1
  <2> HIDE DEF x, y
  <2>3. (x % M = IF x < M THEN x ELSE x - M) /\ (y % M = IF y < M THEN y ELSE y - M)
    BY <1>2, <2>2
  <2>4. (IF x < M THEN x ELSE x - M) # (IF y < M THEN y ELSE y - M)
    BY <1>1, <2>2
  <2> QED
    BY <2>3, <2>4 DEF x, y
<1> QED
  BY <1>1, <1>4, <1>5, <1>6, <1>7, <1>8 DEF NextSlot, Slots, M

-----------------------------------------------------------------------------
(***************************************************************************)
(* The inductive invariant.                                                *)
(***************************************************************************)
(* A byte on the wire; the make codes carry the number of their press.     *)
WireByte == {w \in [byte : 0 .. 255, id : Nat, shifted : BOOLEAN] :
                w.byte < 128 => w.id \in 1 .. MaxPresses}

InvWire == wire \in Seq(WireByte) /\ presses <= setting.presses

(* What the consumer has in its registers is no more than what is there:   *)
(* queue_size only grows under its feet.                                   *)
InvConsumer ==
    /\ todo # {} => running
    /\ running => r_size >= 1
    /\ running /\ "store" \in todo => r_size <= queue_size
    /\ running /\ "store" \notin todo => r_size - 1 <= queue_size

(* With interrupts off its registers are exact, and head, tail and size    *)
(* agree.                                                                  *)
InvRing ==
    ~Preemptible =>
        /\ RingConsistent
        /\ running /\ "store" \in todo => r_size = queue_size /\ r_head = queue_head
        /\ running /\ "store" \notin todo => r_size - 1 = queue_size
        /\ running /\ "copy" \notin todo /\ "store" \in todo => r_event = event_queue[r_head]

QueueInv == TypeOK /\ SizeWithinBacklog /\ InvWire /\ InvConsumer /\ InvRing

LEMMA WireTypes == Seq(WireByte) \subseteq Seq([byte : 0 .. 255, id : Nat, shifted : BOOLEAN])
<1> DEFINE Sent == [byte : 0 .. 255, id : Nat, shifted : BOOLEAN]
<1>1. WireByte \subseteq Sent
  BY DEF WireByte
<1> HIDE DEF Sent
<1>2. Seq(WireByte) \subseteq Seq(Sent)
  BY <1>1, SeqMonotonic
<1> QED
  BY <1>2 DEF Sent

LEMMA SettingTypes ==
    ASSUME NEW s \in Settings
    PROVE  s.keys \subseteq Key /\ s.presses \in 0 .. MaxPresses /\ s.preemptible \in BOOLEAN
  BY KeyboardAssumption

LEMMA QueueInit == Init => QueueInv
<1> SUFFICES ASSUME Init PROVE QueueInv
  OBVIOUS
<1>1. MAX_KEYBOARD_EVENTS \in Nat \ {0} /\ 0 \in Slots /\ 0 % MAX_KEYBOARD_EVENTS = 0
  BY KeyboardAssumption, SlotOf DEF Slots
<1>2. TypeOK
  <2>1. NoEvent \in Event
    BY DEF NoEvent, Event
  <2>2. event_queue \in [Slots -> Event] /\ r_event \in Event
    BY <2>1 DEF Init
  <2>3. keys \in [0 .. 127 -> BOOLEAN]
    BY DEF Init
  <2>4. wire = <<>> /\ screen = <<>> /\ setting \in Settings /\ down = {}
    BY DEF Init
  <2>5. /\ wire \in Seq([byte : 0 .. 255, id : Nat, shifted : BOOLEAN])
        /\ screen \in Seq([what : {"character", "backspace"}, id : Nat])
    BY <2>4
  <2>6. /\ presses \in Nat /\ last_key \in 0 .. 255 /\ enqueued \in Nat /\ dequeued \in Nat
        /\ handled \in Nat
        /\ queue_size \in 0 .. MAX_KEYBOARD_EVENTS /\ r_size \in 0 .. MAX_KEYBOARD_EVENTS
        /\ queue_head \in Slots /\ queue_tail \in Slots /\ r_head \in Slots
    BY <1>1 DEF Init
  <2>7. /\ caps_on \in BOOLEAN /\ running \in BOOLEAN /\ todo = {}
        /\ shift_left \in BOOLEAN /\ shift_right \in BOOLEAN /\ caps_lock \in BOOLEAN
    BY DEF Init
  <2> QED
    BY <2>2, <2>3, <2>4, <2>5, <2>6, <2>7 DEF TypeOK
<1>3. SizeWithinBacklog /\ InvWire /\ InvConsumer
  <2>1. setting \in Settings /\ presses = 0 /\ wire = <<>>
    BY DEF Init
  <2>2. setting.presses \in 0 .. MaxPresses /\ MaxPresses \in Nat
    BY <2>1, SettingTypes, KeyboardAssumption
  <2>3. presses <= setting.presses
    BY <2>1, <2>2
  <2>4. wire \in Seq(WireByte)
    BY <2>1
  <2>5. queue_size = 0 /\ enqueued = 0 /\ dequeued = 0 /\ todo = {} /\ running = FALSE
    BY DEF Init
  <2> QED
    BY <2>3, <2>4, <2>5 DEF SizeWithinBacklog, InvWire, InvConsumer
<1>4. InvRing
  BY <1>1 DEF Init, InvRing, RingConsistent
<1> QED
  BY <1>2, <1>3, <1>4 DEF QueueInv

(* The bytes a key sends.                                                  *)
LEMMA SentBytes ==
    ASSUME NEW k \in Key, NEW byte \in 0 .. 255, NEW id \in Nat,
           byte < 128 => id \in 1 .. MaxPresses
    PROVE  Bytes(k, byte, id) \in Seq(WireByte)
<1> DEFINE b(v) == [byte |-> v, id |-> id, shifted |-> Shifted]
<1>1. Shifted \in BOOLEAN
  BY DEF Shifted
<1>2. b(byte) \in WireByte
  BY <1>1 DEF WireByte
<1>3. b(PREFIX) \in WireByte
  BY <1>1 DEF WireByte, PREFIX
<1> HIDE DEF b
<1>4. <<b(byte)>> \in Seq(WireByte) /\ <<b(PREFIX), b(byte)>> \in Seq(WireByte)
  BY <1>2, <1>3
<1> QED
  BY <1>4 DEF Bytes, b

(* The keyboard only sends.                                                *)
LEMMA KeyPreserves ==
    ASSUME QueueInv, NEW k \in Keys, Press(k) \/ Repeat(k) \/ Release(k)
    PROVE  QueueInv'
<1> USE DEF QueueInv
<1>1. k \in Key /\ setting \in Settings /\ setting.presses \in 0 .. MaxPresses
  BY SettingTypes DEF TypeOK, Keys
<1>2. wire' \in Seq(WireByte) /\ presses' \in Nat /\ presses' <= setting.presses
  <2>1. CASE Make(k)
    <3>1. k.code \in 0 .. 255
      BY <1>1 DEF Key
    <3> DEFINE n == setting.presses
    <3>2. /\ presses \in Nat /\ n \in 0 .. MaxPresses /\ MaxPresses \in Nat
          /\ presses < n /\ presses' = presses + 1
      BY <1>1, <2>1, KeyboardAssumption DEF Make, TypeOK
    <3> HIDE DEF n
    <3>3. /\ presses + 1 \in 1 .. MaxPresses /\ presses + 1 \in Nat
          /\ presses' \in Nat /\ presses' <= n
      BY <3>2
    <3>4. Bytes(k, k.code, presses + 1) \in Seq(WireByte)
      BY <1>1, <3>1, <3>3, SentBytes
    <3> QED
      BY <2>1, <3>3, <3>4 DEF Make, InvWire, n
  <2>2. CASE Release(k)
    <3>1. k.code + 128 \in 128 .. 255
      BY <1>1 DEF Key
    <3>2. Bytes(k, k.code + 128, 0) \in Seq(WireByte)
      <4>1. k.code + 128 \in 0 .. 255 /\ ~(k.code + 128 < 128)
        BY <3>1
      <4> QED
        BY <1>1, <4>1, SentBytes
    <3> QED
      BY <2>2, <3>2 DEF Release, InvWire, TypeOK
  <2> QED
    BY <2>1, <2>2 DEF Press, Repeat
<1>3. /\ down' \subseteq Keys /\ caps_on' \in BOOLEAN /\ setting' = setting
      /\ UNCHANGED <<last_key, keys, modifiers, ring, queue_size, consumer, screen, handled>>
  <2>1. CASE Press(k)
    <3>1. caps_on' \in BOOLEAN
      BY <2>1 DEF Press, TypeOK
    <3> QED
      BY <2>1, <3>1 DEF Press, Make, TypeOK
  <2>2. CASE Repeat(k)
    BY <2>2 DEF Repeat, Make, TypeOK
  <2>3. CASE Release(k)
    BY <2>3 DEF Release, TypeOK
  <2> QED
    BY <2>1, <2>2, <2>3
<1>4. wire' \in Seq([byte : 0 .. 255, id : Nat, shifted : BOOLEAN])
  BY <1>2, WireTypes
<1> USE DEF modifiers, ring, consumer, registers
<1>5. TypeOK'
  BY <1>2, <1>3, <1>4 DEF TypeOK, Keys
<1>6. SizeWithinBacklog' /\ InvWire' /\ InvConsumer'
  BY <1>2, <1>3 DEF SizeWithinBacklog, InvWire, InvConsumer
<1>7. InvRing'
  BY <1>3 DEF InvRing, RingConsistent, Preemptible
<1> QED
  BY <1>5, <1>6, <1>7

(***************************************************************************)
(* keyboard_handler.                                                       *)
(***************************************************************************)
LEMMA ByteRead ==
    ASSUME QueueInv, Interrupt
    PROVE  /\ wire # <<>> /\ Head(wire) \in WireByte /\ wire' \in Seq(WireByte)
           /\ Head(wire).id \in Nat /\ Byte \in 0 .. 255 /\ Scancode(Byte) \in 0 .. 127
           /\ UNCHANGED <<board, consumer>> /\ (Preemptible \/ ~running)
<1>1. wire # <<>> /\ wire \in Seq(WireByte) /\ wire' = Tail(wire)
  BY DEF Interrupt, QueueInv, InvWire
<1>2. Head(wire) \in WireByte /\ wire' \in Seq(WireByte)
  BY <1>1, HeadTailProperties
<1>3. Head(wire).id \in Nat /\ Head(wire).byte \in 0 .. 255
  BY <1>2 DEF WireByte
<1>4. Byte \in 0 .. 255
  BY <1>3 DEF Byte
<1>5. Scancode(Byte) \in 0 .. 127
  <2> DEFINE v == Byte
  <2>1. v \in Nat
    BY <1>4
  <2> HIDE DEF v
  <2>2. v % 128 \in 0 .. 127
    BY <2>1
  <2> QED
    BY <2>2 DEF Scancode, v
<1>6. Preemptible \/ ~running
  BY DEF Interrupt
<1>7. UNCHANGED <<board, consumer>>
  BY DEF Interrupt
<1> QED
  BY <1>1, <1>2, <1>3, <1>4, <1>5, <1>6, <1>7

(* What any byte leaves alone.                                             *)
LEMMA HandlerFrame ==
    ASSUME QueueInv, Interrupt
    PROVE  /\ InvWire'
           /\ wire' \in Seq([byte : 0 .. 255, id : Nat, shifted : BOOLEAN])
           /\ UNCHANGED <<setting, down, caps_on, presses, todo, r_size, r_head, r_event, running,
                          queue_head, dequeued>>
<1>1. wire' \in Seq(WireByte) /\ UNCHANGED <<board, consumer>>
  BY ByteRead
<1>2. wire' \in Seq([byte : 0 .. 255, id : Nat, shifted : BOOLEAN])
  BY <1>1, WireTypes
<1> QED
  BY <1>1, <1>2 DEF board, consumer, registers, InvWire, QueueInv

(* Bytes that do not touch the queue.                                      *)
LEMMA OutsideQueue ==
    ASSUME QueueInv, Interrupt, UNCHANGED <<ring, queue_size, last_key>>,
           keys' \in [0 .. 127 -> BOOLEAN],
           shift_left' \in BOOLEAN, shift_right' \in BOOLEAN, caps_lock' \in BOOLEAN,
           screen' \in Seq([what : {"character", "backspace"}, id : Nat]), handled' \in Nat
    PROVE  QueueInv'
<1>1. /\ InvWire' /\ wire' \in Seq([byte : 0 .. 255, id : Nat, shifted : BOOLEAN])
      /\ UNCHANGED <<setting, down, caps_on, presses, todo, r_size, r_head, r_event, running,
                     queue_head, dequeued>>
  BY HandlerFrame
<1> USE DEF QueueInv, ring
<1>2. TypeOK'
  BY <1>1 DEF TypeOK, Keys
<1>3. SizeWithinBacklog' /\ InvConsumer'
  BY <1>1 DEF SizeWithinBacklog, InvConsumer
<1>4. InvRing'
  BY <1>1 DEF InvRing, RingConsistent, Preemptible
<1> QED
  BY <1>1, <1>2, <1>3, <1>4

(* A press enters the queue, or is refused.                                *)
LEMMA EnqueuePreserves ==
    ASSUME QueueInv, HandleKey, ~Released(Byte)
    PROVE  QueueInv'
<1> DEFINE c == Translate(Scancode(Byte))
           e == [ascii |-> c, id |-> Head(wire).id]
<1>1. Interrupt /\ Enqueue(c, Head(wire).id) /\ last_key' = c /\ UNCHANGED <<modifiers, screen>>
  BY DEF HandleKey
<1>2. Scancode(Byte) \in 0 .. 127 /\ Head(wire).id \in Nat /\ (Preemptible \/ ~running)
  BY <1>1, ByteRead
<1>3. c \in 0 .. 255
  BY <1>2, KeyboardAssumption DEF Translate
<1>4. e \in Event
  BY <1>2, <1>3 DEF Event
<1>5. keys' \in [0 .. 127 -> BOOLEAN] /\ handled' \in Nat
  <2>1. keys' \in [0 .. 127 -> BOOLEAN]
    BY <1>2 DEF HandleKey, QueueInv, TypeOK, Released
  <2>2. handled' \in Nat
    BY <1>2 DEF HandleKey
  <2> QED
    BY <2>1, <2>2
<1> HIDE DEF c
<1>6. InvWire' /\ wire' \in Seq([byte : 0 .. 255, id : Nat, shifted : BOOLEAN])
      /\ UNCHANGED <<setting, down, caps_on, presses, todo, r_size, r_head, r_event, running,
                     queue_head, dequeued>>
  BY <1>1, HandlerFrame
<1> USE DEF QueueInv, ring, modifiers
<1>7. CASE HasRoom
  <2>1. /\ event_queue' = [event_queue EXCEPT ![queue_tail] = e]
        /\ queue_tail' = NextSlot(queue_tail)
        /\ queue_size' = queue_size + 1 /\ enqueued' = enqueued + 1
    BY <1>1, <1>7 DEF Enqueue
  <2> HIDE DEF e
  <2>2. /\ queue_size \in 0 .. MAX_KEYBOARD_EVENTS /\ queue_size < MAX_KEYBOARD_EVENTS
        /\ enqueued \in Nat /\ dequeued \in Nat /\ queue_tail \in Slots /\ queue_head \in Slots
        /\ MAX_KEYBOARD_EVENTS \in Nat \ {0} /\ r_size \in 0 .. MAX_KEYBOARD_EVENTS
    BY <1>7, KeyboardAssumption DEF HasRoom, TypeOK
  <2>3. queue_size' \in 0 .. MAX_KEYBOARD_EVENTS /\ enqueued' \in Nat
    BY <2>1, <2>2
  <2>4. queue_tail' \in Slots
    BY <2>1, <2>2, SlotArithmetic
  <2>5. event_queue' \in [Slots -> Event]
    BY <1>4, <2>1 DEF TypeOK
  <2>6. TypeOK'
    BY <1>1, <1>3, <1>5, <1>6, <2>3, <2>4, <2>5 DEF TypeOK, Keys
  <2>7. SizeWithinBacklog'
    BY <1>6, <2>1, <2>2 DEF SizeWithinBacklog
  <2>8. InvConsumer'
    BY <1>6, <2>1, <2>2 DEF InvConsumer
  <2>9. InvRing'
    <3>1. SUFFICES ASSUME ~Preemptible
                   PROVE  /\ queue_tail' = (queue_head + (queue_size + 1)) % MAX_KEYBOARD_EVENTS
                          /\ queue_size + 1 = enqueued' - dequeued /\ ~running
      BY <1>6, <2>1 DEF InvRing, RingConsistent, Preemptible
    <3>2. /\ queue_tail = (queue_head + queue_size) % MAX_KEYBOARD_EVENTS
          /\ queue_size = enqueued - dequeued
      BY <3>1 DEF InvRing, RingConsistent
    <3>3. NextSlot((queue_head + queue_size) % MAX_KEYBOARD_EVENTS)
             = (queue_head + (queue_size + 1)) % MAX_KEYBOARD_EVENTS
      BY <2>2, SlotArithmetic
    <3>4. queue_tail' = (queue_head + (queue_size + 1)) % MAX_KEYBOARD_EVENTS
      BY <2>1, <3>2, <3>3
    <3>5. queue_size + 1 = enqueued' - dequeued
      BY <2>1, <2>2, <3>2
    <3>6. ~running
      BY <1>2, <3>1
    <3> QED
      BY <3>4, <3>5, <3>6
  <2> QED
    BY <1>6, <2>6, <2>7, <2>8, <2>9
<1>8. CASE ~HasRoom
  <2>1. UNCHANGED <<ring, queue_size>>
    BY <1>1, <1>8 DEF Enqueue
  <2>2. TypeOK'
    BY <1>1, <1>3, <1>5, <1>6, <2>1 DEF TypeOK, Keys
  <2>3. SizeWithinBacklog' /\ InvConsumer'
    BY <1>6, <2>1 DEF SizeWithinBacklog, InvConsumer
  <2>4. InvRing'
    BY <1>6, <2>1 DEF InvRing, RingConsistent, Preemptible
  <2> QED
    BY <1>6, <2>2, <2>3, <2>4
<1> QED
  BY <1>7, <1>8

LEMMA HandlerPreserves ==
    ASSUME QueueInv, Handler
    PROVE  QueueInv'
<1> USE DEF QueueInv, modifiers
<1>1. CASE HandleShift
  <2>1. Interrupt /\ UNCHANGED <<last_key, keys, caps_lock, ring, queue_size, screen, handled>>
    BY <1>1 DEF HandleShift
  <2>2. shift_left' \in BOOLEAN /\ shift_right' \in BOOLEAN
    BY <1>1 DEF HandleShift, TypeOK, Released
  <2> QED
    BY <2>1, <2>2, OutsideQueue DEF TypeOK
<1>2. CASE HandleCaps
  <2>1. /\ Interrupt
        /\ UNCHANGED <<last_key, keys, shift_left, shift_right, ring, queue_size, screen, handled>>
    BY <1>2 DEF HandleCaps
  <2>2. caps_lock' \in BOOLEAN
    BY <1>2 DEF HandleCaps, TypeOK
  <2> QED
    BY <2>1, <2>2, OutsideQueue DEF TypeOK
<1>3. CASE HandleBackspace
  <2>1. Interrupt /\ UNCHANGED <<last_key, keys, modifiers, ring, queue_size>>
    BY <1>3 DEF HandleBackspace
  <2>2. Put("backspace", Head(wire).id) \in [what : {"character", "backspace"}, id : Nat]
    BY <2>1, ByteRead DEF Put
  <2>3. screen' \in Seq([what : {"character", "backspace"}, id : Nat])
    <3> DEFINE p == Put("backspace", Head(wire).id)
               P == [what : {"character", "backspace"}, id : Nat]
    <3>1. /\ p \in P /\ screen \in Seq(P)
          /\ screen' = screen \/ screen' = Append(screen, p)
      BY <1>3, <2>2 DEF HandleBackspace, TypeOK
    <3> HIDE DEF p, P
    <3>2. screen' \in Seq(P)
      BY <3>1, AppendProperties
    <3> QED
      BY <3>2 DEF P
  <2>4. handled' \in Nat
    <3>1. Head(wire).id \in Nat /\ handled \in Nat
      BY <2>1, ByteRead DEF TypeOK
    <3> QED
      BY <1>3, <3>1 DEF HandleBackspace
  <2> QED
    BY <2>1, <2>3, <2>4, OutsideQueue DEF TypeOK
<1>4. CASE HandleKey /\ Released(Byte)
  <2>1. Interrupt /\ UNCHANGED <<last_key, ring, queue_size, modifiers, screen, handled>>
    BY <1>4 DEF HandleKey
  <2>2. keys' \in [0 .. 127 -> BOOLEAN]
    BY <1>4, <2>1, ByteRead DEF HandleKey, TypeOK, Released
  <2> QED
    BY <2>1, <2>2, OutsideQueue DEF TypeOK
<1>5. CASE HandleKey /\ ~Released(Byte)
  BY <1>5, EnqueuePreserves
<1> QED
  BY <1>1, <1>2, <1>3, <1>4, <1>5 DEF Handler

(***************************************************************************)
(* process_keyboard_input.                                                 *)
(***************************************************************************)
(* A turn of the loop, with a queue_size that is no more than there is.    *)
LEMMA TurnPreserves ==
    ASSUME QueueInv, todo = {}, NEW n \in 0 .. MAX_KEYBOARD_EVENTS, n <= queue_size,
           ~Preemptible => n = queue_size, Turn(n),
           UNCHANGED <<board, wire, last_key, keys, modifiers, ring, queue_size, queue_head, dequeued,
                       handled>>,
           screen' \in Seq([what : {"character", "backspace"}, id : Nat])
    PROVE  QueueInv'
<1> USE DEF QueueInv, board, modifiers, ring
<1>1. NoEvent \in Event /\ MAX_KEYBOARD_EVENTS \in Nat \ {0} /\ 0 \in Slots
  BY KeyboardAssumption DEF NoEvent, Event, Slots
<1>2. r_event' = NoEvent /\ r_size' \in 0 .. MAX_KEYBOARD_EVENTS /\ r_head' \in Slots
      /\ running' \in BOOLEAN /\ todo' \subseteq {"copy", "store"}
  <2>1. queue_head \in Slots
    BY DEF TypeOK
  <2>2. CASE Drained(n)
    <3>1. 0 \in 0 .. MAX_KEYBOARD_EVENTS
      BY <1>1
    <3> QED
      BY <1>1, <2>2, <3>1 DEF Turn
  <2>3. CASE ~Drained(n)
    BY <2>1, <2>3 DEF Turn
  <2> QED
    BY <2>2, <2>3
<1>3. TypeOK'
  BY <1>1, <1>2 DEF TypeOK, Keys
<1>4. SizeWithinBacklog' /\ InvWire'
  BY DEF SizeWithinBacklog, InvWire
<1>5. InvConsumer'
  BY DEF InvConsumer, Turn, Drained
<1>6. InvRing'
  BY DEF InvRing, RingConsistent, Preemptible, Turn, Drained
<1> QED
  BY <1>3, <1>4, <1>5, <1>6

LEMMA ConsumerPreserves ==
    ASSUME QueueInv, Call \/ Process
    PROVE  QueueInv'
<1> USE DEF QueueInv, board, modifiers, ring
<1>1. MAX_KEYBOARD_EVENTS \in Nat \ {0} /\ r_size \in Nat /\ queue_size \in 0 .. MAX_KEYBOARD_EVENTS
      /\ screen \in Seq([what : {"character", "backspace"}, id : Nat])
  BY KeyboardAssumption DEF TypeOK
<1>2. CASE Call
  <2>1. todo = {}
    BY <1>2 DEF Call, InvConsumer
  <2> QED
    BY <1>1, <1>2, <2>1, TurnPreserves DEF Call
<1>3. CASE Copy
  <2>1. event_queue[r_head] \in Event
    BY DEF TypeOK
  <2>2. TypeOK'
    BY <1>3, <2>1 DEF Copy, TypeOK, Keys
  <2>3. SizeWithinBacklog' /\ InvWire' /\ InvConsumer'
    BY <1>3 DEF Copy, SizeWithinBacklog, InvWire, InvConsumer
  <2>4. InvRing'
    BY <1>3 DEF Copy, InvRing, RingConsistent, Preemptible
  <2> QED
    BY <2>2, <2>3, <2>4
<1>4. CASE Store
  <2>1. running /\ r_size >= 1 /\ r_size <= queue_size /\ Remaining = r_size - 1
    BY <1>4 DEF Store, InvConsumer, Remaining
  <2>2. /\ queue_head' = NextSlot(r_head) /\ queue_size' = r_size - 1
        /\ dequeued' = dequeued + 1 /\ todo' = todo \ {"store"}
        /\ UNCHANGED <<board, wire, last_key, keys, modifiers, ring, r_size, r_head, r_event,
                       running, screen, handled>>
    BY <1>4, <2>1 DEF Store
  <2>3. queue_head' \in Slots /\ queue_size' \in 0 .. MAX_KEYBOARD_EVENTS /\ dequeued' \in Nat
    <3>1. r_head \in Slots /\ dequeued \in Nat
      BY DEF TypeOK
    <3>2. NextSlot(r_head) \in Slots
      BY <1>1, <3>1, SlotArithmetic
    <3>3. r_size - 1 \in 0 .. MAX_KEYBOARD_EVENTS
      BY <1>1, <2>1
    <3> QED
      BY <2>2, <3>1, <3>2, <3>3
  <2>4. TypeOK'
    BY <2>2, <2>3 DEF TypeOK, Keys
  <2>5. SizeWithinBacklog' /\ InvWire'
    BY <1>1, <2>1, <2>2 DEF SizeWithinBacklog, InvWire, TypeOK
  <2>6. InvConsumer'
    BY <1>1, <2>1, <2>2 DEF InvConsumer
  <2>7. InvRing'
    <3>1. SUFFICES ASSUME ~Preemptible
                   PROVE  /\ queue_tail = (NextSlot(queue_head) + (queue_size - 1)) % MAX_KEYBOARD_EVENTS
                          /\ queue_size - 1 = enqueued - (dequeued + 1)
                          /\ r_size = queue_size /\ r_head = queue_head
      BY <2>1, <2>2 DEF InvRing, RingConsistent, Preemptible
    <3>2. /\ queue_tail = (queue_head + queue_size) % MAX_KEYBOARD_EVENTS
          /\ queue_size = enqueued - dequeued /\ r_size = queue_size /\ r_head = queue_head
      BY <1>4, <2>1, <3>1 DEF InvRing, RingConsistent, Store
    <3>3. queue_head \in Slots /\ queue_size > 0 /\ enqueued \in Nat /\ dequeued \in Nat
      BY <1>1, <2>1 DEF TypeOK
    <3> QED
      BY <1>1, <3>2, <3>3, SlotArithmetic
  <2> QED
    BY <2>4, <2>5, <2>6, <2>7
<1>5. CASE Echo
  <2>1. Put("character", r_event.id) \in [what : {"character", "backspace"}, id : Nat]
    BY DEF Put, TypeOK, Event
  <2>2. screen' \in Seq([what : {"character", "backspace"}, id : Nat])
    BY <1>1, <1>5, <2>1, AppendProperties DEF Echo
  <2> QED
    BY <1>1, <1>5, <2>2, TurnPreserves DEF Echo
<1>6. CASE Skip
  <2>1. running /\ todo = {} /\ r_size >= 1 /\ r_size - 1 <= queue_size
    BY <1>6 DEF Skip, InvConsumer
  <2>2. Remaining \in 0 .. MAX_KEYBOARD_EVENTS /\ Remaining <= queue_size
        /\ (~Preemptible => Remaining = queue_size)
    BY <1>1, <2>1 DEF Remaining, InvRing
  <2> QED
    BY <1>1, <1>6, <2>1, <2>2, TurnPreserves DEF Skip
<1> QED
  BY <1>2, <1>3, <1>4, <1>5, <1>6 DEF Process

LEMMA QueueStep == QueueInv /\ [Next]_vars => QueueInv'
<1> SUFFICES ASSUME QueueInv, [Next]_vars PROVE QueueInv'
  OBVIOUS
<1>1. CASE Next
  BY <1>1, KeyPreserves, HandlerPreserves, ConsumerPreserves DEF Next
<1>2. CASE UNCHANGED vars
  <2> USE <1>2 DEF vars, board, modifiers, ring, consumer, registers
  <2>1. TypeOK'
    BY DEF QueueInv, TypeOK, Keys
  <2>2. SizeWithinBacklog' /\ InvWire' /\ InvConsumer'
    BY DEF QueueInv, SizeWithinBacklog, InvWire, InvConsumer
  <2>3. InvRing'
    BY DEF QueueInv, InvRing, RingConsistent, Preemptible
  <2> QED
    BY <2>1, <2>2, <2>3 DEF QueueInv
<1> QED
  BY <1>1, <1>2

(* The invariant holds, for every keyboard, caller and size of the buffer. *)
THEOREM QueueInvariant == Spec => []QueueInv
  BY QueueInit, QueueStep, PTL DEF Spec

(* Types, for every keyboard, buffer and number of presses.                *)
THEOREM KeyboardTypes == Spec => []TypeOK
<1>1. QueueInv => TypeOK
  BY DEF QueueInv
<1> QED
  BY <1>1, QueueInvariant, PTL

(* queue_size never promises an event that is not in the buffer, whatever  *)
(* keyboard_handler preempts (dequeue_keyboard_event, enqueue_event).      *)
THEOREM NeverInventsEvents == Spec => []SizeWithinBacklog
<1>1. QueueInv => SizeWithinBacklog
  BY DEF QueueInv
<1> QED
  BY <1>1, QueueInvariant, PTL

(* With interrupts off during process_keyboard_input, head, tail and size  *)
(* agree, for a buffer of any size.                                        *)
THEOREM RingAgrees == Spec => []RingConsistent
<1>1. QueueInv => RingConsistent
  BY DEF QueueInv, InvRing, RingConsistent
<1> QED
  BY <1>1, QueueInvariant, PTL

-----------------------------------------------------------------------------
(***************************************************************************)
(* The presses on the wire are numbered in the order they were made, and   *)
(* come after those handled.                                               *)
(***************************************************************************)
Makes(w) == {n \in DOMAIN w : w[n].byte < 128}
Numbered(w, lo, hi) ==
    /\ \A n \in Makes(w) : lo < w[n].id /\ w[n].id <= hi
    /\ \A m, n \in Makes(w) : m < n => w[m].id < w[n].id
NumberInv == handled <= presses /\ Numbered(wire, handled, presses)

LEMMA NumberedTail ==
    ASSUME NEW w \in Seq(WireByte), w # <<>>, NEW lo \in Nat, NEW hi \in Nat, Numbered(w, lo, hi)
    PROVE  /\ Numbered(Tail(w), lo, hi)
           /\ Head(w).byte < 128 => /\ lo < Head(w).id /\ Head(w).id <= hi
                                    /\ Numbered(Tail(w), Head(w).id, hi)
<1> DEFINE x == Tail(w)
<1>1. /\ Len(w) \in Nat /\ Len(w) >= 1 /\ Head(w) = w[1] /\ DOMAIN w = 1 .. Len(w)
      /\ DOMAIN x = 1 .. Len(w) - 1 /\ \A n \in 1 .. Len(w) - 1 : x[n] = w[n + 1]
  <2>1. /\ Len(w) \in Nat /\ Len(w) >= 1 /\ Head(w) = w[1] /\ DOMAIN w = 1 .. Len(w)
        /\ x \in Seq(WireByte) /\ Len(x) = Len(w) - 1
    BY HeadTailProperties
  <2>2. \A n \in 1 .. Len(w) - 1 : x[n] = w[n + 1]
    BY <2>1
  <2> QED
    BY <2>1, <2>2
<1> HIDE DEF x
<1>2. \A n \in Makes(x) : n \in Nat /\ n + 1 \in Makes(w) /\ x[n] = w[n + 1] /\ 1 < n + 1
  BY <1>1 DEF Makes
<1>3. \A m, n \in Makes(x) : m < n => x[m].id < x[n].id
  <2> SUFFICES ASSUME NEW m \in Makes(x), NEW n \in Makes(x), m < n
               PROVE  x[m].id < x[n].id
    OBVIOUS
  <2>1. m + 1 < n + 1
    BY <1>2
  <2> QED
    BY <1>2, <2>1 DEF Numbered
<1>4. Numbered(x, lo, hi)
  BY <1>2, <1>3 DEF Numbered
<1>5. ASSUME Head(w).byte < 128
      PROVE  lo < Head(w).id /\ Head(w).id <= hi /\ Numbered(x, Head(w).id, hi)
  <2>1. 1 \in Makes(w)
    BY <1>1, <1>5 DEF Makes
  <2> QED
    BY <1>1, <1>2, <1>3, <2>1 DEF Numbered
<1> QED
  BY <1>4, <1>5 DEF x

LEMMA NumberedAppend ==
    ASSUME NEW w \in Seq(WireByte), NEW b \in WireByte, NEW lo \in Nat, NEW hi \in Nat,
           NEW top \in Nat, Numbered(w, lo, hi), lo <= hi, hi <= top,
           b.byte < 128 => hi < b.id /\ b.id <= top
    PROVE  Numbered(Append(w, b), lo, top)
<1> DEFINE x == Append(w, b)
<1>1. /\ Len(w) \in Nat /\ DOMAIN w = 1 .. Len(w) /\ DOMAIN x = 1 .. Len(w) + 1
      /\ x[Len(w) + 1] = b /\ \A n \in 1 .. Len(w) : x[n] = w[n]
  OBVIOUS
<1> HIDE DEF x
<1>2. \A n \in Makes(x) : /\ n \in Nat
                          /\ \/ n \in Makes(w) /\ x[n] = w[n] /\ n <= Len(w)
                             \/ n = Len(w) + 1 /\ x[n] = b /\ b.byte < 128
  BY <1>1 DEF Makes
<1>3. \A n \in Makes(w) : w[n].id \in Nat /\ lo < w[n].id /\ w[n].id <= hi
  BY <1>1 DEF Makes, WireByte, Numbered
<1>4. b.id \in Nat
  BY DEF WireByte
<1>5. \A n \in Makes(x) : lo < x[n].id /\ x[n].id <= top
  BY <1>2, <1>3, <1>4
<1>6. ASSUME NEW m \in Makes(x), NEW n \in Makes(x), m < n
      PROVE  x[m].id < x[n].id
  <2>1. m \in Makes(w) /\ x[m] = w[m]
    BY <1>1, <1>2, <1>6
  <2>2. CASE n \in Makes(w) /\ x[n] = w[n]
    BY <1>6, <2>1, <2>2 DEF Numbered
  <2>3. CASE x[n] = b /\ b.byte < 128
    BY <1>3, <1>4, <2>1, <2>3
  <2> QED
    BY <1>2, <2>2, <2>3
<1> QED
  BY <1>5, <1>6 DEF Numbered, x

(* The bytes of one key.                                                   *)
LEMMA NumberedSent ==
    ASSUME NEW w \in Seq(WireByte), NEW k \in Key, NEW v \in 0 .. 255, NEW id \in Nat,
           v < 128 => id \in 1 .. MaxPresses,
           NEW lo \in Nat, NEW hi \in Nat, NEW top \in Nat, Numbered(w, lo, hi), lo <= hi,
           hi <= top, v < 128 => hi < id /\ id <= top
    PROVE  Numbered(w \o Bytes(k, v, id), lo, top)
<1> DEFINE b(x) == [byte |-> x, id |-> id, shifted |-> Shifted]
           u == Append(w, b(PREFIX))
<1>1. /\ b(v) \in WireByte /\ b(PREFIX) \in WireByte
      /\ b(v).byte = v /\ b(v).id = id /\ ~(b(PREFIX).byte < 128)
  BY DEF WireByte, PREFIX, Shifted
<1>2. CASE ~k.extended
  <2>1. w \o Bytes(k, v, id) = Append(w, b(v))
    BY <1>1, <1>2 DEF Bytes
  <2> HIDE DEF b
  <2>2. Numbered(Append(w, b(v)), lo, top)
    BY <1>1, NumberedAppend
  <2> QED
    BY <2>1, <2>2
<1>3. CASE k.extended
  <2>1. Bytes(k, v, id) = <<b(PREFIX), b(v)>>
    BY <1>3 DEF Bytes
  <2> HIDE DEF b
  <2>2. w \o <<b(PREFIX), b(v)>> = Append(u, b(v)) /\ u \in Seq(WireByte)
    BY <1>1
  <2>3. Numbered(u, lo, hi)
    BY <1>1, NumberedAppend
  <2> HIDE DEF u
  <2>4. Numbered(Append(u, b(v)), lo, top)
    BY <1>1, <2>2, <2>3, NumberedAppend
  <2> QED
    BY <2>1, <2>2, <2>4
<1> QED
  BY <1>2, <1>3

LEMMA NumberStep == QueueInv /\ NumberInv /\ [Next]_vars => NumberInv'
<1> SUFFICES ASSUME QueueInv, NumberInv, [Next]_vars PROVE NumberInv'
  OBVIOUS
<1>1. /\ wire \in Seq(WireByte) /\ handled \in Nat /\ presses \in Nat /\ handled <= presses
      /\ presses <= setting.presses /\ setting.presses \in 0 .. MaxPresses /\ MaxPresses \in Nat
      /\ Numbered(wire, handled, presses)
  BY SettingTypes, KeyboardAssumption DEF QueueInv, InvWire, TypeOK, NumberInv
<1>2. ASSUME NEW k \in Keys, Press(k) \/ Repeat(k) \/ Release(k)
      PROVE  NumberInv'
  <2>1. k \in Key /\ k.code \in 0 .. 255 /\ k.code + 128 \in 0 .. 255 /\ ~(k.code + 128 < 128)
    <3>1. k \in Key
      BY SettingTypes DEF QueueInv, TypeOK, Keys
    <3>2. k.code \in 1 .. 127
      BY <3>1 DEF Key
    <3> QED
      BY <3>1, <3>2
  <2>2. handled' = handled
    BY <1>2 DEF Press, Repeat, Release
  <2>3. CASE Make(k)
    <3> DEFINE top == presses + 1
    <3>1. /\ presses < setting.presses /\ presses' = top
          /\ wire' = wire \o Bytes(k, k.code, top)
      BY <2>3 DEF Make
    <3>2. top \in 1 .. MaxPresses /\ top \in Nat /\ presses < top /\ top <= top
          /\ presses <= top /\ handled <= top
      <4> DEFINE most == setting.presses
      <4>1. most \in 0 .. MaxPresses /\ presses < most
        BY <1>1, <3>1
      <4> HIDE DEF most
      <4> QED
        BY <1>1, <4>1
    <3> HIDE DEF top
    <3>3. Numbered(wire \o Bytes(k, k.code, top), handled, top)
      BY <1>1, <2>1, <3>2, NumberedSent
    <3> QED
      BY <2>2, <3>1, <3>2, <3>3 DEF NumberInv
  <2>4. CASE Release(k)
    <3>1. presses' = presses /\ wire' = wire \o Bytes(k, k.code + 128, 0)
      BY <2>4 DEF Release
    <3> DEFINE v == k.code + 128
    <3>2. v \in 0 .. 255 /\ ~(v < 128) /\ 0 \in Nat /\ presses <= presses
      BY <1>1, <2>1
    <3> HIDE DEF v
    <3>3. Numbered(wire \o Bytes(k, v, 0), handled, presses)
      BY <1>1, <2>1, <3>2, NumberedSent
    <3> QED
      BY <1>1, <2>2, <3>1, <3>3 DEF NumberInv, v
  <2> QED
    BY <1>2, <2>3, <2>4 DEF Press, Repeat
<1>3. CASE Handler
  <2>1. Interrupt
    BY <1>3 DEF Handler, HandleShift, HandleCaps, HandleBackspace, HandleKey
  <2>2. wire # <<>> /\ wire' = Tail(wire) /\ presses' = presses /\ Byte = Head(wire).byte
        /\ Head(wire).id \in Nat /\ Byte \in 0 .. 255
    BY <2>1, ByteRead DEF Interrupt, board, Byte
  <2>3. \/ handled' = handled
        \/ ~Released(Byte) /\ handled' = Head(wire).id
    BY <1>3 DEF Handler, HandleShift, HandleCaps, HandleBackspace, HandleKey
  <2>4. /\ Numbered(Tail(wire), handled, presses)
        /\ Byte < 128 => Head(wire).id <= presses /\ Numbered(Tail(wire), Head(wire).id, presses)
    BY <1>1, <2>2, NumberedTail
  <2>5. ~Released(Byte) => Byte < 128
    BY <2>2 DEF Released
  <2> QED
    BY <1>1, <2>2, <2>3, <2>4, <2>5 DEF NumberInv
<1>4. CASE Call \/ Process \/ UNCHANGED vars
  <2>1. UNCHANGED <<wire, presses, handled>>
    BY <1>4 DEF Call, Process, Copy, Store, Echo, Skip, vars, board
  <2> QED
    BY <2>1 DEF NumberInv
<1> QED
  BY <1>2, <1>3, <1>4 DEF Next

LEMMA NumberInit == Init => NumberInv
  BY DEF Init, NumberInv, Numbered, Makes

(* Presses reach keyboard_handler in the order they were made, and none    *)
(* twice.                                                                  *)
THEOREM NumberInvariant == Spec => []NumberInv
  BY NumberInit, NumberStep, QueueInvariant, PTL DEF Spec

-----------------------------------------------------------------------------
(***************************************************************************)
(* The driver implements EchoQueue.                                        *)
(***************************************************************************)
(* The n events of the buffer q that start at slot h.                      *)
Ring(q, h, n) == [m \in 1 .. n |-> q[(h + m - 1) % MAX_KEYBOARD_EVENTS]]

LEMMA RingIsSeq ==
    ASSUME NEW q \in [Slots -> Event], NEW h \in Slots, NEW n \in 0 .. MAX_KEYBOARD_EVENTS
    PROVE  /\ Ring(q, h, n) \in Seq(Event) /\ Len(Ring(q, h, n)) = n
           /\ \A m \in 1 .. n : /\ (h + m - 1) % MAX_KEYBOARD_EVENTS \in Slots
                                /\ (h + m - 1) % MAX_KEYBOARD_EVENTS = (h + (m - 1)) % MAX_KEYBOARD_EVENTS
                                /\ Ring(q, h, n)[m] = q[(h + m - 1) % MAX_KEYBOARD_EVENTS]
<1>1. MAX_KEYBOARD_EVENTS \in Nat \ {0} /\ h \in Nat /\ n \in Nat
  BY KeyboardAssumption DEF Slots
<1>2. ASSUME NEW m \in 1 .. n
      PROVE  /\ (h + m - 1) % MAX_KEYBOARD_EVENTS = (h + (m - 1)) % MAX_KEYBOARD_EVENTS
             /\ (h + m - 1) % MAX_KEYBOARD_EVENTS \in Slots
  <2>1. h + m - 1 = h + (m - 1) /\ m - 1 \in 0 .. MAX_KEYBOARD_EVENTS
    BY <1>1
  <2>2. (h + (m - 1)) % MAX_KEYBOARD_EVENTS \in Slots
    BY <2>1, SlotArithmetic
  <2> QED
    BY <2>1, <2>2
<1>3. \A m \in 1 .. n : q[(h + m - 1) % MAX_KEYBOARD_EVENTS] \in Event
  BY <1>2
<1>4. Ring(q, h, n) \in [1 .. n -> Event]
  BY <1>3 DEF Ring
<1>5. Ring(q, h, n) \in Seq(Event)
  BY <1>1, <1>4, SeqDef
<1>6. Len(Ring(q, h, n)) = n
  BY <1>1, <1>4, <1>5, LenProperties
<1>7. \A m \in 1 .. n : Ring(q, h, n)[m] = q[(h + m - 1) % MAX_KEYBOARD_EVENTS]
  BY DEF Ring
<1> QED
  BY <1>2, <1>5, <1>6, <1>7

(* Writing the slot after the last of them appends.                        *)
LEMMA RingGrows ==
    ASSUME NEW q \in [Slots -> Event], NEW h \in Slots, NEW n \in 0 .. MAX_KEYBOARD_EVENTS,
           n < MAX_KEYBOARD_EVENTS, NEW e \in Event
    PROVE  Ring([q EXCEPT ![(h + n) % MAX_KEYBOARD_EVENTS] = e], h, n + 1)
             = Append(Ring(q, h, n), e)
<1> DEFINE M == MAX_KEYBOARD_EVENTS
           t == (h + n) % M
           r == [q EXCEPT ![t] = e]
           s == Ring(r, h, n + 1)
           u == Ring(q, h, n)
<1>1. M \in Nat \ {0} /\ t \in Slots /\ n + 1 \in 0 .. M /\ n \in Nat
  <2>1. M \in Nat \ {0}
    BY KeyboardAssumption
  <2>2. t \in Slots
    BY SlotArithmetic
  <2> QED
    BY <2>1, <2>2
<1>2. r \in [Slots -> Event] /\ r[t] = e /\ \A x \in Slots : x # t => r[x] = q[x]
  BY <1>1
<1>3. /\ s \in Seq(Event) /\ Len(s) = n + 1 /\ u \in Seq(Event) /\ Len(u) = n
      /\ \A m \in 1 .. n + 1 : s[m] = r[(h + m - 1) % M]
      /\ \A m \in 1 .. n : u[m] = q[(h + m - 1) % M]
  <2> HIDE DEF r
  <2>1. /\ s \in Seq(Event) /\ Len(s) = n + 1
        /\ \A m \in 1 .. n + 1 : s[m] = r[(h + m - 1) % M]
    <3> DEFINE l == n + 1
    <3>1. l \in 0 .. MAX_KEYBOARD_EVENTS
      BY <1>1
    <3> HIDE DEF l
    <3>2. /\ Ring(r, h, l) \in Seq(Event) /\ Len(Ring(r, h, l)) = l
          /\ \A m \in 1 .. l : Ring(r, h, l)[m] = r[(h + m - 1) % MAX_KEYBOARD_EVENTS]
      BY <1>2, <3>1, RingIsSeq
    <3> QED
      BY <3>2 DEF l
  <2>2. /\ u \in Seq(Event) /\ Len(u) = n
        /\ \A m \in 1 .. n : u[m] = q[(h + m - 1) % M]
    BY RingIsSeq
  <2> QED
    BY <2>1, <2>2
<1>4. /\ Append(u, e) \in Seq(Event) /\ Len(Append(u, e)) = n + 1
      /\ \A m \in 1 .. n : Append(u, e)[m] = u[m]
      /\ Append(u, e)[n + 1] = e
  <2> HIDE DEF u
  <2> QED
    BY <1>3, AppendProperties
<1>5. ASSUME NEW m \in 1 .. n + 1
      PROVE  s[m] = Append(u, e)[m]
  <2>1. CASE m = n + 1
    <3>1. h + m - 1 = h + n
      BY <1>1, <2>1 DEF Slots
    <3> QED
      BY <1>2, <1>3, <1>4, <2>1, <3>1
  <2>2. CASE m \in 1 .. n
    <3>1. (h + m - 1) % M = (h + (m - 1)) % M /\ (h + m - 1) % M \in Slots
      BY <2>2, RingIsSeq
    <3>2. m - 1 \in 0 .. n - 1
      BY <1>1, <2>2
    <3>3. (h + m - 1) % M # t
      BY <3>1, <3>2, SlotArithmetic
    <3> HIDE DEF s, u, r, t
    <3> QED
      BY <1>2, <1>3, <1>4, <2>2, <3>1, <3>3
  <2>3. m = n + 1 \/ m \in 1 .. n
    BY <1>1
  <2> QED
    BY <2>1, <2>2, <2>3
<1> HIDE DEF s, u
<1>6. s = Append(u, e)
  BY <1>1, <1>3, <1>4, <1>5, SeqEqual
<1> QED
  BY <1>6 DEF s, u, r, t, M

(* Moving the head to the next slot takes the first of them away.          *)
LEMMA RingShrinks ==
    ASSUME NEW q \in [Slots -> Event], NEW h \in Slots, NEW n \in 1 .. MAX_KEYBOARD_EVENTS
    PROVE  /\ Ring(q, h, n) # <<>> /\ Head(Ring(q, h, n)) = q[h]
           /\ Ring(q, NextSlot(h), n - 1) = Tail(Ring(q, h, n))
<1> DEFINE M == MAX_KEYBOARD_EVENTS
           s == Ring(q, NextSlot(h), n - 1)
           u == Ring(q, h, n)
<1>1. M \in Nat \ {0} /\ NextSlot(h) \in Slots /\ n \in 0 .. M /\ n - 1 \in 0 .. M /\ n \in Nat
  BY KeyboardAssumption, SlotArithmetic
<1>2. /\ s \in Seq(Event) /\ Len(s) = n - 1 /\ u \in Seq(Event) /\ Len(u) = n
      /\ \A m \in 1 .. n - 1 : s[m] = q[(NextSlot(h) + m - 1) % M]
      /\ \A m \in 1 .. n : u[m] = q[(h + m - 1) % M]
  <2>1. /\ s \in Seq(Event) /\ Len(s) = n - 1
        /\ \A m \in 1 .. n - 1 : s[m] = q[(NextSlot(h) + m - 1) % M]
    <3> DEFINE l == n - 1
               g == NextSlot(h)
    <3>1. l \in 0 .. MAX_KEYBOARD_EVENTS /\ g \in Slots
      BY <1>1
    <3> HIDE DEF l, g
    <3>2. /\ Ring(q, g, l) \in Seq(Event) /\ Len(Ring(q, g, l)) = l
          /\ \A m \in 1 .. l : Ring(q, g, l)[m] = q[(g + m - 1) % MAX_KEYBOARD_EVENTS]
      BY <3>1, RingIsSeq
    <3> QED
      BY <3>2 DEF l, g
  <2>2. /\ u \in Seq(Event) /\ Len(u) = n
        /\ \A m \in 1 .. n : u[m] = q[(h + m - 1) % M]
    BY <1>1, RingIsSeq
  <2> QED
    BY <2>1, <2>2
<1>3. (h + 1 - 1) % M = h
  BY <1>1 DEF Slots
<1>4. ASSUME NEW m \in 1 .. n - 1
      PROVE  (NextSlot(h) + m - 1) % M = (h + (m + 1) - 1) % M
  <2>1. /\ m \in 0 .. M /\ m > 0
        /\ NextSlot(h) + m - 1 = NextSlot(h) + (m - 1) /\ h + (m + 1) - 1 = h + m
    BY <1>1 DEF Slots
  <2>2. (NextSlot(h) + (m - 1)) % M = (h + m) % M
    BY <2>1, SlotArithmetic
  <2> QED
    BY <2>1, <2>2
<1> HIDE DEF s, u
<1>5. u # <<>> /\ Head(u) = q[h]
  BY <1>1, <1>2, <1>3
<1>6. /\ Tail(u) \in Seq(Event) /\ Len(Tail(u)) = n - 1
      /\ \A m \in 1 .. n - 1 : Tail(u)[m] = u[m + 1]
  BY <1>1, <1>2, <1>5, HeadTailProperties
<1>7. \A m \in 1 .. n - 1 : s[m] = Tail(u)[m]
  <2> TAKE m \in 1 .. n - 1
  <2>1. m + 1 \in 1 .. n
    BY <1>1
  <2> QED
    BY <1>2, <1>4, <1>6, <2>1
<1>8. s = Tail(u)
  BY <1>1, <1>2, <1>6, <1>7, SeqEqual
<1> QED
  BY <1>5, <1>8 DEF s, u

LEMMA RefineInit == Init => (~Preemptible => EQ!Init)
<1> SUFFICES ASSUME Init PROVE Waiting = <<>> /\ Shown = <<>> /\ handled = 0
  BY DEF EQ!Init
<1>1. queue_size = 0 /\ running = FALSE /\ screen = <<>>
  BY DEF Init
<1>2. Waiting = <<>>
  BY <1>1 DEF Waiting
<1> QED
  BY <1>1, <1>2 DEF Shown, Init

(* The keyboard, the modifiers and released keys are not seen.             *)
Seen == <<Waiting, Shown, handled>>
LEMMA Unseen ==
    ASSUME UNCHANGED <<event_queue, queue_size, queue_head, todo, r_head, r_event, running, screen,
                       handled>>
    PROVE  Seen' = Seen
  BY DEF Seen, Waiting, Shown, InFlight

(* A make code comes after the presses handled.                            *)
LEMMA TakenInOrder ==
    ASSUME QueueInv, NumberInv, Interrupt, ~Released(Byte)
    PROVE  handled < Head(wire).id
<1>1. /\ wire \in Seq(WireByte) /\ wire # <<>> /\ handled \in Nat /\ presses \in Nat
      /\ Numbered(wire, handled, presses) /\ Byte = Head(wire).byte /\ Byte \in 0 .. 255
  BY ByteRead DEF QueueInv, InvWire, TypeOK, NumberInv, Byte
<1>2. Head(wire).byte < 128
  BY <1>1 DEF Released
<1> QED
  BY <1>1, <1>2, NumberedTail

(* A press that enters the queue, or is refused.                           *)
LEMMA RefineType ==
    ASSUME QueueInv, NumberInv, ~Preemptible, HandleKey, ~Released(Byte)
    PROVE  EQ!Next
<1> DEFINE c == Translate(Scancode(Byte))
           e == [ascii |-> c, id |-> Head(wire).id]
<1>1. Interrupt /\ Enqueue(c, Head(wire).id) /\ UNCHANGED screen
  BY DEF HandleKey
<1>2. /\ Scancode(Byte) \in 0 .. 127 /\ Head(wire) \in WireByte /\ ~running
      /\ Head(wire).id \in Nat /\ UNCHANGED consumer /\ Byte \in 0 .. 255
  BY <1>1, ByteRead
<1>3. c \in 0 .. 255
  BY <1>2, KeyboardAssumption DEF Translate
<1>4. Head(wire).id \in 1 .. MaxPresses
  BY <1>2 DEF WireByte, Released, Byte
<1>5. e \in Event /\ e \in [ascii : 0 .. 255, id : 1 .. MaxPresses]
  BY <1>2, <1>3, <1>4 DEF Event
<1>6. EQ!Taken(e)
  <2>1. e.id = Head(wire).id /\ handled' = Head(wire).id
    BY DEF HandleKey
  <2>2. handled < Head(wire).id
    BY <1>1, TakenInOrder
  <2>3. handled \in Nat
    BY DEF QueueInv, TypeOK
  <2> QED
    BY <1>2, <2>1, <2>2, <2>3 DEF EQ!Taken
<1>7. UNCHANGED <<queue_head, running>> /\ e.ascii = c /\ e.id = Head(wire).id
  BY <1>2 DEF consumer, registers
<1>8. Waiting = Ring(event_queue, queue_head, queue_size)
  BY DEF Waiting, Ring
<1>9. /\ event_queue \in [Slots -> Event] /\ queue_head \in Slots
      /\ queue_size \in 0 .. MAX_KEYBOARD_EVENTS /\ MAX_KEYBOARD_EVENTS \in Nat
      /\ queue_tail = (queue_head + queue_size) % MAX_KEYBOARD_EVENTS
  BY KeyboardAssumption DEF QueueInv, TypeOK, InvRing, RingConsistent
<1>10. Len(Waiting) = queue_size
  BY <1>8, <1>9, RingIsSeq
<1>11. Shown' = Shown
  BY <1>1, <1>2, <1>7 DEF Shown
<1>12. CASE HasRoom
  <2>1. event_queue' = [event_queue EXCEPT ![queue_tail] = e] /\ queue_size' = queue_size + 1
    BY <1>1, <1>12 DEF Enqueue
  <2> HIDE DEF e
  <2>2. Waiting' = Ring(event_queue', queue_head, queue_size + 1)
    BY <1>7, <2>1 DEF Waiting, Ring
  <2>3. Waiting' = Append(Waiting, e) /\ Len(Waiting) < MAX_KEYBOARD_EVENTS
    BY <1>5, <1>8, <1>9, <1>10, <1>12, <2>1, <2>2, RingGrows DEF HasRoom
  <2>4. EQ!Type(e)
    BY <1>6, <1>11, <2>3 DEF EQ!Type
  <2> QED
    BY <1>5, <2>4 DEF EQ!Next
<1>13. CASE ~HasRoom
  <2> HIDE DEF e
  <2>1. Waiting' = Waiting
    BY <1>1, <1>7, <1>13 DEF Enqueue, ring, Waiting
  <2>2. Len(Waiting) = MAX_KEYBOARD_EVENTS
    BY <1>9, <1>10, <1>13 DEF HasRoom
  <2>3. EQ!Refuse(e)
    BY <1>6, <1>11, <2>1, <2>2 DEF EQ!Refuse
  <2> QED
    BY <1>5, <2>3 DEF EQ!Next
<1> QED
  BY <1>12, <1>13

LEMMA RefineHandler ==
    ASSUME QueueInv, NumberInv, ~Preemptible, Handler
    PROVE  EQ!Next \/ Seen' = Seen
<1>1. Interrupt
  BY DEF Handler, HandleShift, HandleCaps, HandleBackspace, HandleKey
<1>2. /\ ~running /\ Head(wire) \in WireByte /\ Byte \in 0 .. 255
      /\ UNCHANGED <<queue_head, todo, r_head, r_event, running>>
  BY <1>1, ByteRead DEF consumer, registers
<1>3. CASE HandleShift \/ HandleCaps
  BY <1>2, <1>3, Unseen DEF HandleShift, HandleCaps, ring
<1>4. CASE HandleBackspace /\ Released(Byte)
  BY <1>2, <1>4, Unseen DEF HandleBackspace, ring
<1>5. CASE HandleBackspace /\ ~Released(Byte)
  <2> DEFINE e == [ascii |-> 0, id |-> Head(wire).id]
  <2>1. e \in [ascii : 0 .. 255, id : 1 .. MaxPresses] /\ e.id = Head(wire).id
    BY <1>2, <1>5 DEF WireByte, Released, Byte
  <2>2. /\ screen' = Append(screen, [what |-> "backspace", id |-> e.id])
        /\ UNCHANGED <<event_queue, queue_size>>
        /\ handled' = e.id /\ handled < Head(wire).id /\ handled \in Nat /\ e.id \in Nat
    BY <1>1, <1>2, <1>5, <2>1, TakenInOrder DEF HandleBackspace, Put, ring, QueueInv, TypeOK, WireByte
  <2>3. Waiting' = Waiting
    BY <1>2, <2>2 DEF Waiting
  <2>4. Shown = screen /\ Shown' = screen'
    BY <1>2 DEF Shown
  <2>5. EQ!Immediate(e)
    BY <2>1, <2>2, <2>3, <2>4 DEF EQ!Immediate, EQ!Taken
  <2> QED
    BY <2>1, <2>5 DEF EQ!Next
<1>6. CASE HandleKey /\ Released(Byte)
  BY <1>2, <1>6, Unseen DEF HandleKey, ring
<1>7. CASE HandleKey /\ ~Released(Byte)
  BY <1>7, RefineType
<1> QED
  BY <1>3, <1>4, <1>5, <1>6, <1>7 DEF Handler

(* The event leaves when queue_head and queue_size are stored.             *)
LEMMA RefineShow ==
    ASSUME QueueInv, ~Preemptible, Store
    PROVE  EQ!Next
<1>1. /\ running /\ r_size = queue_size /\ r_size >= 1 /\ r_head = queue_head
      /\ "store" \in todo /\ ("copy" \notin todo => r_event = event_queue[r_head])
  BY DEF QueueInv, InvConsumer, InvRing, Store
<1>2. /\ queue_head' = NextSlot(queue_head) /\ queue_size' = queue_size - 1
      /\ todo' = todo \ {"store"}
      /\ UNCHANGED <<event_queue, r_head, r_event, running, screen, handled>>
  BY <1>1 DEF Store, Remaining, ring
<1>3. /\ event_queue \in [Slots -> Event] /\ queue_head \in Slots
      /\ queue_size \in 1 .. MAX_KEYBOARD_EVENTS
  BY <1>1 DEF QueueInv, TypeOK
<1>4. Waiting = Ring(event_queue, queue_head, queue_size)
      /\ Waiting' = Ring(event_queue, NextSlot(queue_head), queue_size - 1)
  BY <1>2 DEF Waiting, Ring
<1>5. Waiting # <<>> /\ Head(Waiting) = event_queue[queue_head] /\ Waiting' = Tail(Waiting)
  BY <1>3, <1>4, RingShrinks
<1>6. InFlight' = event_queue[queue_head]
  BY <1>1, <1>2 DEF InFlight
<1>7. Shown = screen
      /\ Shown' = IF Head(Waiting).ascii # 0
                  THEN Append(screen, [what |-> "character", id |-> Head(Waiting).id]) ELSE screen
  BY <1>1, <1>2, <1>5, <1>6 DEF Shown, Put
<1>8. EQ!Show
  BY <1>2, <1>5, <1>7 DEF EQ!Show
<1> QED
  BY <1>8 DEF EQ!Next

LEMMA RefineConsumer ==
    ASSUME QueueInv, ~Preemptible, Call \/ Process
    PROVE  EQ!Next \/ Seen' = Seen
<1>1. CASE Store
  BY <1>1, RefineShow
<1>2. CASE Call \/ Copy \/ Echo \/ Skip
  <2> USE DEF Seen
  <2>1. Waiting' = Waiting /\ handled' = handled
    BY <1>2 DEF Call, Copy, Echo, Skip, ring, Waiting
  <2>2. CASE Copy
    BY <2>1, <2>2 DEF Copy, Shown, InFlight, ring
  <2>3. CASE \E n \in {queue_size, Remaining} : Turn(n)
    <3>1. Shown' = screen'
      BY <2>3 DEF Turn, Shown
    <3>2. CASE Call
      BY <2>1, <3>1, <3>2 DEF Call, Shown
    <3>3. CASE Echo
      BY <2>1, <3>1, <3>3 DEF Echo, Shown, InFlight
    <3>4. CASE Skip
      BY <2>1, <3>1, <3>4 DEF Skip, Shown, InFlight
    <3> QED
      BY <1>2, <2>1, <2>2, <3>2, <3>3, <3>4
  <2> QED
    BY <1>2, <2>1, <2>2, <2>3 DEF Call, Echo, Skip
<1> QED
  BY <1>1, <1>2 DEF Process

LEMMA RefineStep ==
    QueueInv /\ NumberInv /\ [Next]_vars => [~Preemptible => EQ!Next]_(EQ!vars)
<1> SUFFICES ASSUME QueueInv, NumberInv, [Next]_vars, ~Preemptible
             PROVE  EQ!Next \/ Seen' = Seen
  BY DEF EQ!vars, Seen
<1>1. ASSUME NEW k \in Keys, Press(k) \/ Repeat(k) \/ Release(k)
      PROVE  Seen' = Seen
  BY <1>1, Unseen DEF Press, Repeat, Release, ring, consumer, registers
<1>2. CASE UNCHANGED vars
  BY <1>2, Unseen DEF vars, ring, consumer, registers
<1> QED
  BY <1>1, <1>2, RefineHandler, RefineConsumer DEF Next

(* With interrupts off during process_keyboard_input the driver implements *)
(* the queue that takes presses in the order they were made, each once,    *)
(* and refuses them only when it is full (EchoQueue): enqueue_event is the *)
(* press that waits or is refused, the stores of queue_head and queue_size *)
(* are the showing of the oldest, and every other step but a backspace's   *)
(* is unseen.                                                              *)
THEOREM RefinesEchoQueue == Spec => ImplementsEchoQueue
<1>1. Init => (~Preemptible => EQ!Init)
  BY RefineInit
<1>2. QueueInv /\ NumberInv /\ [Next]_vars => [~Preemptible => EQ!Next]_(EQ!vars)
  BY RefineStep
<1> QED
  BY <1>1, <1>2, QueueInvariant, NumberInvariant, PTL DEF Spec, ImplementsEchoQueue

-----------------------------------------------------------------------------
(***************************************************************************)
(* The modifiers and the keys held.  The bytes on the wire foretell every  *)
(* state that the handler's flags will go through; the last one is that of *)
(* the keyboard.                                                           *)
(***************************************************************************)
Board == [left : BOOLEAN, right : BOOLEAN, caps : BOOLEAN, keys : [0 .. 127 -> BOOLEAN]]
Flags == [left |-> shift_left, right |-> shift_right, caps |-> caps_lock, keys |-> keys]

(* What keyboard_handler makes of the flags s with a byte, and whether it  *)
(* would shift a character with them.                                      *)
Effect(s, byte) ==
    [left  |-> IF Scancode(byte) = LSHIFT THEN ~Released(byte) ELSE s.left,
     right |-> IF Scancode(byte) = RSHIFT THEN ~Released(byte) ELSE s.right,
     caps  |-> IF Scancode(byte) = CAPS /\ ~Released(byte) THEN ~s.caps ELSE s.caps,
     keys  |-> IF Scancode(byte) \in Special THEN s.keys
               ELSE [s.keys EXCEPT ![Scancode(byte)] = ~Released(byte)]]
UseIn(s) == (s.left \/ s.right) # s.caps

Followable == Followed(setting)

(* The states tr that the bytes w lead to from s; if the modifiers can be  *)
(* followed, f, each byte was sent with the case that will be right when   *)
(* it is read.                                                             *)
Trace(w, tr, s, f) ==
    /\ tr \in [0 .. Len(w) -> Board] /\ tr[0] = s
    /\ \A n \in 1 .. Len(w) : /\ tr[n] = Effect(tr[n - 1], w[n].byte)
                              /\ f => w[n].shifted = UseIn(tr[n - 1])

(* What the flags s say of the keys with code x.                           *)
SaidIn(s, x) == IF x = LSHIFT THEN s.left ELSE IF x = RSHIFT THEN s.right ELSE s.keys[x]
Unsaid == {CAPS, BACKSPACE}

(* The flags s are those of a keyboard with the keys d down and caps lock  *)
(* at c.                                                                   *)
Agrees(s, d, c) ==
    /\ \A x \in 0 .. 127 : SaidIn(s, x) => \E k \in d : k.code = x
    /\ \A k \in d : Alone(k) /\ k.code \notin Unsaid => SaidIn(s, k.code)
    /\ \A x \in Special : ~s.keys[x]
    /\ Followable => s.caps = c

Ahead(tr) == /\ Trace(wire, tr, Flags, Followable)
             /\ Agrees(tr[Len(wire)], down, caps_on)
Foretold  == \E tr : Ahead(tr)

LEMMA ScancodeIs ==
    ASSUME NEW byte \in 0 .. 255
    PROVE  /\ Scancode(byte) = (IF byte < 128 THEN byte ELSE byte - 128)
           /\ Scancode(byte) \in 0 .. 127 /\ (Released(byte) <=> byte >= 128)
<1>1. byte < 128 => byte % 128 = byte
  OBVIOUS
<1>2. ~(byte < 128) => byte % 128 = byte - 128
  OBVIOUS
<1> QED BY <1>1, <1>2 DEF Scancode, Released

LEMMA EffectType ==
    ASSUME NEW s \in Board, NEW byte \in 0 .. 255
    PROVE  Effect(s, byte) \in Board
<1>1. s.left \in BOOLEAN /\ s.right \in BOOLEAN /\ s.caps \in BOOLEAN /\ s.keys \in [0 .. 127 -> BOOLEAN]
  BY DEF Board
<1>2. Released(byte) \in BOOLEAN
  BY DEF Released
<1>3. [s.keys EXCEPT ![Scancode(byte)] = ~Released(byte)] \in [0 .. 127 -> BOOLEAN]
  BY <1>1, <1>2
<1> HIDE DEF Released
<1> QED BY <1>1, <1>2, <1>3 DEF Effect, Board

(* One more byte on the wire.                                              *)
LEMMA TraceGrows ==
    ASSUME NEW w \in Seq(WireByte), NEW b \in WireByte, NEW s, NEW f, NEW tr, Trace(w, tr, s, f),
           f => b.shifted = UseIn(tr[Len(w)])
    PROVE  \E nt : /\ Trace(Append(w, b), nt, s, f)
                   /\ nt[Len(Append(w, b))] = Effect(tr[Len(w)], b.byte)
<1> DEFINE L  == Len(w)
           x  == Append(w, b)
           nt == [n \in 0 .. L + 1 |-> IF n <= L THEN tr[n] ELSE Effect(tr[L], b.byte)]
<1>1. /\ L \in Nat /\ Len(x) = L + 1 /\ x[L + 1] = b /\ \A n \in 1 .. L : x[n] = w[n]
      /\ \A n \in 1 .. L + 1 : n \in 1 .. L \/ n = L + 1
  OBVIOUS
<1>2. /\ tr \in [0 .. L -> Board] /\ tr[0] = s
      /\ \A n \in 1 .. L : tr[n] = Effect(tr[n - 1], w[n].byte) /\ (f => w[n].shifted = UseIn(tr[n - 1]))
  BY DEF Trace
<1> HIDE DEF L, x
<1>3. Effect(tr[L], b.byte) \in Board
  <2>1. tr[L] \in Board /\ b.byte \in 0 .. 255
    BY <1>1, <1>2 DEF WireByte
  <2> QED BY <2>1, EffectType
<1>4. /\ nt \in [0 .. L + 1 -> Board] /\ nt[0] = s
      /\ \A n \in 0 .. L : nt[n] = tr[n]
      /\ nt[L + 1] = Effect(tr[L], b.byte)
  <2>1. \A n \in 0 .. L + 1 : (IF n <= L THEN tr[n] ELSE Effect(tr[L], b.byte)) \in Board
    BY <1>1, <1>2, <1>3
  <2>2. nt \in [0 .. L + 1 -> Board]
    BY <2>1
  <2>3. 0 \in 0 .. L + 1 /\ 0 <= L /\ L + 1 \in 0 .. L + 1 /\ ~(L + 1 <= L)
        /\ \A n \in 0 .. L : n \in 0 .. L + 1 /\ n <= L
    BY <1>1
  <2> QED BY <1>2, <2>2, <2>3
<1> HIDE DEF nt
<1>5. ASSUME NEW n \in 1 .. L + 1
      PROVE  nt[n] = Effect(nt[n - 1], x[n].byte) /\ (f => x[n].shifted = UseIn(nt[n - 1]))
  <2>1. CASE n \in 1 .. L
    <3>1. n \in 0 .. L /\ n - 1 \in 0 .. L
      BY <1>1, <2>1
    <3> QED BY <1>1, <1>2, <1>4, <2>1, <3>1
  <2>2. CASE n = L + 1
    <3>1. n - 1 = L /\ L \in 0 .. L
      BY <1>1, <2>2
    <3> QED BY <1>1, <1>4, <2>2, <3>1 DEF L
  <2> QED BY <1>1, <2>1, <2>2
<1>6. Trace(x, nt, s, f) /\ nt[Len(x)] = Effect(tr[L], b.byte)
  BY <1>1, <1>4, <1>5 DEF Trace
<1> QED BY <1>6 DEF x, L

(* The oldest byte is read.                                                *)
LEMMA TraceShrinks ==
    ASSUME NEW w \in Seq(WireByte), w # <<>>, NEW s, NEW f, NEW tr, Trace(w, tr, s, f)
    PROVE  /\ f => Head(w).shifted = UseIn(s)
           /\ \E nt : /\ Trace(Tail(w), nt, Effect(s, Head(w).byte), f)
                      /\ nt[Len(Tail(w))] = tr[Len(w)]
<1> DEFINE L  == Len(w)
           x  == Tail(w)
           nt == [n \in 0 .. L - 1 |-> tr[n + 1]]
<1>1. /\ L \in Nat /\ L >= 1 /\ Len(x) = L - 1 /\ Head(w) = w[1]
      /\ \A n \in 1 .. L - 1 : x[n] = w[n + 1]
  <2>1. L \in Nat /\ L >= 1 /\ Len(x) = L - 1 /\ Head(w) = w[1]
    BY HeadTailProperties
  <2>2. \A n \in 1 .. L - 1 : x[n] = w[n + 1]
    BY <2>1
  <2> QED BY <2>1, <2>2
<1>2. /\ tr \in [0 .. L -> Board] /\ tr[0] = s
      /\ \A n \in 1 .. L : tr[n] = Effect(tr[n - 1], w[n].byte) /\ (f => w[n].shifted = UseIn(tr[n - 1]))
  BY DEF Trace
<1> HIDE DEF L, x
<1>3. tr[1] = Effect(s, w[1].byte) /\ (f => w[1].shifted = UseIn(s))
  <2>1. 1 \in 1 .. L /\ 1 - 1 = 0
    BY <1>1
  <2> QED BY <1>2, <2>1
<1>4. /\ nt \in [0 .. L - 1 -> Board] /\ \A n \in 0 .. L - 1 : nt[n] = tr[n + 1]
      /\ nt[0] = tr[1] /\ nt[L - 1] = tr[L]
  <2>1. \A n \in 0 .. L - 1 : n + 1 \in 0 .. L
    BY <1>1
  <2>2. 0 \in 0 .. L - 1 /\ L - 1 \in 0 .. L - 1 /\ 0 + 1 = 1 /\ (L - 1) + 1 = L
    BY <1>1
  <2> QED BY <1>2, <2>1, <2>2
<1> HIDE DEF nt
<1>5. ASSUME NEW n \in 1 .. L - 1
      PROVE  nt[n] = Effect(nt[n - 1], x[n].byte) /\ (f => x[n].shifted = UseIn(nt[n - 1]))
  <2>1. n + 1 \in 1 .. L /\ (n + 1) - 1 = n /\ n \in 0 .. L - 1 /\ n - 1 \in 0 .. L - 1
        /\ (n - 1) + 1 = n
    BY <1>1
  <2>2. nt[n] = tr[n + 1] /\ nt[n - 1] = tr[n] /\ x[n] = w[n + 1]
    BY <1>1, <1>4, <2>1
  <2> QED BY <1>2, <2>1, <2>2
<1>6. Trace(x, nt, Effect(s, w[1].byte), f) /\ nt[Len(x)] = tr[L]
  BY <1>1, <1>3, <1>4, <1>5 DEF Trace
<1> QED BY <1>1, <1>3, <1>6 DEF x, L

(* A byte with code x sets what is said of x, if anything is, to r.        *)
Sets(s, byte, x, r) ==
    /\ \A y \in 0 .. 127 : SaidIn(Effect(s, byte), y) = IF y = x /\ x \notin Unsaid THEN r
                                                       ELSE SaidIn(s, y)
    /\ \A y \in Special : Effect(s, byte).keys[y] = s.keys[y]
    /\ Effect(s, byte).caps = IF x = CAPS /\ r THEN ~s.caps ELSE s.caps

LEMMA EffectSaid ==
    ASSUME NEW s \in Board, NEW byte \in 0 .. 255
    PROVE  Sets(s, byte, Scancode(byte), ~Released(byte))
<1> DEFINE e == Effect(s, byte)
           x == Scancode(byte)
           r == ~Released(byte)
<1>1. /\ e.left = (IF x = LSHIFT THEN r ELSE s.left)
      /\ e.right = (IF x = RSHIFT THEN r ELSE s.right)
      /\ e.caps = (IF x = CAPS /\ r THEN ~s.caps ELSE s.caps)
      /\ e.keys = IF x \in Special THEN s.keys ELSE [s.keys EXCEPT ![x] = r]
  BY DEF Effect
<1>2. s.keys \in [0 .. 127 -> BOOLEAN]
  BY DEF Board
<1>3. /\ LSHIFT # RSHIFT /\ LSHIFT # CAPS /\ RSHIFT # CAPS
      /\ LSHIFT \notin Unsaid /\ RSHIFT \notin Unsaid
      /\ \A y \in 0 .. 127 : y \in Special <=> y = LSHIFT \/ y = RSHIFT \/ y \in Unsaid
      /\ Special \subseteq 0 .. 127
  BY DEF Special, Unsaid, LSHIFT, RSHIFT, CAPS, BACKSPACE
<1> HIDE DEF e, x, r
<1>4. \A y \in 0 .. 127 : e.keys[y] = IF y = x /\ x \notin Special THEN r ELSE s.keys[y]
  BY <1>1, <1>2
<1>5. \A y \in 0 .. 127 : SaidIn(e, y) = IF y = x /\ x \notin Unsaid THEN r ELSE SaidIn(s, y)
  <2> SUFFICES ASSUME NEW y \in 0 .. 127
               PROVE  SaidIn(e, y) = IF y = x /\ x \notin Unsaid THEN r ELSE SaidIn(s, y)
    OBVIOUS
  <2>1. CASE y = LSHIFT
    BY <1>1, <1>3, <2>1 DEF SaidIn
  <2>2. CASE y = RSHIFT
    BY <1>1, <1>3, <2>2 DEF SaidIn
  <2>3. CASE y # LSHIFT /\ y # RSHIFT
    BY <1>3, <1>4, <2>3 DEF SaidIn
  <2> QED
    BY <2>1, <2>2, <2>3
<1>6. \A y \in Special : e.keys[y] = s.keys[y]
  BY <1>3, <1>4
<1>7. Sets(s, byte, x, r)
  BY <1>1, <1>5, <1>6 DEF Sets, e
<1> QED
  BY <1>7 DEF x, r

(* What the bytes of one key do to flags that agree with the keyboard.     *)
LEMMA Agreeing ==
    ASSUME setting \in Settings, NEW s \in Board, NEW d, d \subseteq Keys,
           NEW c \in BOOLEAN, Agrees(s, d, c), NEW k \in Keys
    PROVE  /\ Agrees(Effect(s, PREFIX), d, c)
           /\ Agrees(Effect(s, k.code), d \cup {k}, IF k.code = CAPS THEN ~c ELSE c)
           /\ Agrees(Effect(s, k.code + 128), d \ {k}, c)
<1> DEFINE x == k.code
<1>1. /\ x \in 1 .. 127 /\ \A l \in Keys : l.code \in 1 .. 127 /\ l.code # 96
  <2>1. Keys \subseteq Key
    BY SettingTypes DEF Keys
  <2>2. \A l \in Key : l.code \in 1 .. 127 /\ l.code # 96
    BY DEF Key, PREFIX
  <2> QED
    BY <2>1, <2>2
<1>2. /\ PREFIX \in 0 .. 255 /\ Scancode(PREFIX) = 96 /\ Released(PREFIX)
      /\ x \in 0 .. 255 /\ Scancode(x) = x /\ ~Released(x)
      /\ x + 128 \in 0 .. 255 /\ Scancode(x + 128) = x /\ Released(x + 128)
  <2> HIDE DEF x
  <2>1. PREFIX \in 0 .. 255 /\ ~(PREFIX < 128) /\ PREFIX - 128 = 96 /\ PREFIX >= 128
    BY DEF PREFIX
  <2>2. Scancode(PREFIX) = 96 /\ Released(PREFIX)
    <3> HIDE DEF PREFIX
    <3> QED
      BY <2>1, ScancodeIs
  <2>3. x \in 0 .. 255 /\ x < 128 /\ ~(x >= 128)
    BY <1>1
  <2>4. Scancode(x) = x /\ ~Released(x)
    BY <2>3, ScancodeIs
  <2> DEFINE v == x + 128
  <2>5. v \in 0 .. 255 /\ ~(v < 128) /\ v - 128 = x /\ v >= 128
    BY <1>1
  <2> HIDE DEF v
  <2>6. Scancode(v) = x /\ Released(v)
    BY <2>5, ScancodeIs
  <2> QED
    BY <2>1, <2>2, <2>3, <2>4, <2>5, <2>6 DEF v
<1>3. /\ \A y \in 0 .. 127 : SaidIn(s, y) => \E l \in d : l.code = y
      /\ \A l \in d : Alone(l) /\ l.code \notin Unsaid => SaidIn(s, l.code)
      /\ \A y \in Special : ~s.keys[y]
      /\ Followable => s.caps = c
  BY DEF Agrees
<1>4. \A l \in Keys : l.code \in 0 .. 127 /\ (Alone(l) /\ x = l.code => l = k)
  BY <1>1 DEF Alone
<1>5. 96 # CAPS /\ x \in 0 .. 127 /\ 96 \in 0 .. 127 /\ 96 \notin Unsaid
  BY <1>1 DEF CAPS, BACKSPACE, Unsaid
<1> HIDE DEF Released, x
<1>6. Agrees(Effect(s, PREFIX), d, c)
  <2> DEFINE e == Effect(s, PREFIX)
  <2>1. /\ \A y \in 0 .. 127 : SaidIn(e, y) = IF y = 96 THEN FALSE ELSE SaidIn(s, y)
        /\ \A y \in Special : e.keys[y] = s.keys[y]
        /\ e.caps = s.caps
    <3> DEFINE v == PREFIX
    <3>1. v \in 0 .. 255 /\ 96 = Scancode(v) /\ (~Released(v)) = FALSE
      BY <1>2 DEF Released
    <3> HIDE DEF v
    <3>2. Sets(s, v, 96, FALSE)
      BY <3>1, EffectSaid
    <3> QED
      BY <1>5, <3>2 DEF Sets, v
  <2> HIDE DEF e
  <2>2. \A l \in d : SaidIn(e, l.code) = SaidIn(s, l.code)
    BY <1>1, <1>4, <2>1
  <2>3. Agrees(e, d, c)
    BY <1>3, <2>1, <2>2 DEF Agrees
  <2> QED
    BY <2>3 DEF e
<1>7. Agrees(Effect(s, x), d \cup {k}, IF x = CAPS THEN ~c ELSE c)
  <2> DEFINE e == Effect(s, x)
  <2>1. /\ \A y \in 0 .. 127 :
             SaidIn(e, y) = IF y = x /\ x \notin Unsaid THEN TRUE ELSE SaidIn(s, y)
        /\ \A y \in Special : e.keys[y] = s.keys[y]
        /\ e.caps = IF x = CAPS THEN ~s.caps ELSE s.caps
    <3>1. x \in 0 .. 255 /\ x = Scancode(x) /\ (~Released(x)) = TRUE
      BY <1>2 DEF Released
    <3>2. Sets(s, x, x, TRUE)
      BY <3>1, EffectSaid
    <3> QED
      BY <3>2 DEF Sets
  <2> HIDE DEF e
  <2>2. \A y \in 0 .. 127 : SaidIn(e, y) => \E l \in d \cup {k} : l.code = y
    BY <1>3, <2>1 DEF x
  <2>3. ASSUME NEW l \in d \cup {k}, Alone(l), l.code \notin Unsaid
        PROVE  SaidIn(e, l.code)
    <3>1. CASE l.code = x
      BY <1>5, <2>1, <2>3, <3>1
    <3>2. CASE l.code # x
      <4>1. l \in d /\ l.code \in 0 .. 127
        BY <1>4, <3>2 DEF x
      <4> QED
        BY <1>3, <2>1, <2>3, <3>2, <4>1
    <3> QED
      BY <3>1, <3>2
  <2>4. Followable => e.caps = IF x = CAPS THEN ~c ELSE c
    BY <1>3, <2>1
  <2>5. Agrees(e, d \cup {k}, IF x = CAPS THEN ~c ELSE c)
    BY <1>3, <2>1, <2>2, <2>3, <2>4 DEF Agrees
  <2> QED
    BY <2>5 DEF e
<1>8. Agrees(Effect(s, x + 128), d \ {k}, c)
  <2> DEFINE v == x + 128
             e == Effect(s, v)
  <2>1. /\ \A y \in 0 .. 127 :
             SaidIn(e, y) = IF y = x /\ x \notin Unsaid THEN FALSE ELSE SaidIn(s, y)
        /\ \A y \in Special : e.keys[y] = s.keys[y]
        /\ e.caps = s.caps
    <3>1. v \in 0 .. 255 /\ x = Scancode(v) /\ (~Released(v)) = FALSE
      BY <1>2 DEF v, Released
    <3> HIDE DEF v
    <3>2. Sets(s, v, x, FALSE)
      BY <3>1, EffectSaid
    <3> QED
      BY <3>2 DEF Sets
  <2> HIDE DEF e
  <2>2. ASSUME NEW y \in 0 .. 127, SaidIn(e, y)
        PROVE  \E l \in d \ {k} : l.code = y
    <3>1. SaidIn(s, y) /\ ~(y = x /\ x \notin Unsaid)
      BY <2>1, <2>2
    <3>2. CASE y # x
      BY <1>3, <3>1, <3>2 DEF x
    <3>3. CASE y = x
      <4>1. y \in Special /\ y # LSHIFT /\ y # RSHIFT
        BY <3>1, <3>3 DEF Unsaid, Special, LSHIFT, RSHIFT, CAPS, BACKSPACE
      <4> QED
        BY <1>3, <3>1, <4>1 DEF SaidIn
    <3> QED
      BY <3>2, <3>3
  <2>3. ASSUME NEW l \in d \ {k}, Alone(l), l.code \notin Unsaid
        PROVE  SaidIn(e, l.code)
    <3>1. l.code # x /\ l.code \in 0 .. 127 /\ l \in d
      BY <1>4, <2>3
    <3> QED
      BY <1>3, <2>1, <2>3, <3>1
  <2>4. Agrees(e, d \ {k}, c)
    BY <1>3, <2>1, <2>2, <2>3 DEF Agrees
  <2> QED
    BY <2>4 DEF e, v
<1> QED
  BY <1>6, <1>7, <1>8 DEF x

(* Flags that agree with a keyboard whose modifiers can be followed.       *)
LEMMA ShiftedAgrees ==
    ASSUME TypeOK, Followable, NEW s \in Board, Agrees(s, down, caps_on)
    PROVE  (s.left \/ s.right <=> ShiftHeld) /\ s.caps = caps_on /\ Shifted = UseIn(s)
<1>1. /\ down \subseteq Keys
      /\ \A k \in Keys : /\ k = [code |-> k.code, extended |-> k.extended]
                         /\ k.code \in {LSHIFT, RSHIFT} => k.extended = FALSE
  <2>1. down \subseteq Keys /\ Keys \subseteq Key
    BY SettingTypes DEF TypeOK, Keys
  <2>2. \A k \in Key : k = [code |-> k.code, extended |-> k.extended] /\ k.extended \in BOOLEAN
    BY DEF Key
  <2>3. \A k \in Keys : k.code \in {LSHIFT, RSHIFT} => ~k.extended
    BY DEF Followable, Followed, Keys
  <2> QED
    BY <2>1, <2>2, <2>3
<1>2. LSHIFT \in 0 .. 127 /\ RSHIFT \in 0 .. 127 /\ LSHIFT # RSHIFT
      /\ LSHIFT \notin Unsaid /\ RSHIFT \notin Unsaid
  BY DEF LSHIFT, RSHIFT, Unsaid, CAPS, BACKSPACE
<1>3. SaidIn(s, LSHIFT) = s.left /\ SaidIn(s, RSHIFT) = s.right
  BY <1>2 DEF SaidIn
<1>4. \A k \in Keys : k.code \in {LSHIFT, RSHIFT} => Alone(k)
  <2> SUFFICES ASSUME NEW k \in Keys, NEW l \in Keys, k.code \in {LSHIFT, RSHIFT}, l.code = k.code
               PROVE  l = k
    BY DEF Alone
  <2> QED
    BY <1>1
<1>5. s.left \/ s.right => ShiftHeld
  <2>1. \A x \in {LSHIFT, RSHIFT} : SaidIn(s, x) => \E k \in down : k.code = x
    BY <1>2 DEF Agrees
  <2> QED
    BY <1>1, <1>3, <2>1 DEF ShiftHeld
<1>6. ShiftHeld => s.left \/ s.right
  <2> SUFFICES ASSUME NEW k \in down, k.code \in {LSHIFT, RSHIFT} PROVE s.left \/ s.right
    BY DEF ShiftHeld
  <2>1. SaidIn(s, k.code)
    BY <1>1, <1>2, <1>4 DEF Agrees
  <2> QED
    BY <1>3, <2>1
<1>7. s.caps = caps_on
  BY DEF Agrees
<1>8. s.left \in BOOLEAN /\ s.right \in BOOLEAN /\ ShiftHeld \in BOOLEAN
  BY DEF Board, ShiftHeld
<1>9. (s.left \/ s.right) = ShiftHeld
  BY <1>5, <1>6, <1>8
<1> QED
  BY <1>5, <1>6, <1>7, <1>9 DEF Shifted, UseIn

(* The bytes of one key: the last of them finds flags that agree with the  *)
(* keyboard, whether a prefix came before it or not.                       *)
LEMMA SentTrace ==
    ASSUME QueueInv, NEW tr, Trace(wire, tr, Flags, Followable),
           Agrees(tr[Len(wire)], down, caps_on), NEW k \in Keys, NEW v \in 0 .. 255,
           NEW id \in Nat, v < 128 => id \in 1 .. MaxPresses
    PROVE  \E nt, z : /\ z \in Board /\ Agrees(z, down, caps_on)
                      /\ Trace(wire \o Bytes(k, v, id), nt, Flags, Followable)
                      /\ nt[Len(wire \o Bytes(k, v, id))] = Effect(z, v)
<1> DEFINE b(x) == [byte |-> x, id |-> id, shifted |-> Shifted]
           y == tr[Len(wire)]
           w == Append(wire, b(PREFIX))
<1>1. /\ wire \in Seq(WireByte) /\ TypeOK /\ setting \in Settings /\ down \subseteq Keys
      /\ caps_on \in BOOLEAN
  BY DEF QueueInv, InvWire, TypeOK
<1>2. y \in Board
  <2>1. Len(wire) \in 0 .. Len(wire)
    BY <1>1
  <2> QED BY <2>1 DEF Trace
<1>3. b(v) \in WireByte /\ b(PREFIX) \in WireByte /\ b(v).byte = v /\ b(PREFIX).byte = PREFIX
      /\ b(v).shifted = Shifted /\ b(PREFIX).shifted = Shifted
  BY DEF WireByte, PREFIX, Shifted
<1>4. Followable => Shifted = UseIn(y)
  <2> HIDE DEF y
  <2>1. Agrees(y, down, caps_on)
    BY DEF y
  <2> QED
    BY <1>1, <1>2, <2>1, ShiftedAgrees
<1>5. CASE ~k.extended
  <2> HIDE DEF b
  <2>1. Bytes(k, v, id) = <<b(v)>>
    BY <1>5 DEF Bytes, b
  <2>2. wire \o <<b(v)>> = Append(wire, b(v))
    BY <1>1, <1>3
  <2>3. Followable => b(v).shifted = UseIn(tr[Len(wire)])
    BY <1>3, <1>4
  <2>4. PICK nt : /\ Trace(Append(wire, b(v)), nt, Flags, Followable)
                  /\ nt[Len(Append(wire, b(v)))] = Effect(tr[Len(wire)], b(v).byte)
    BY <1>1, <1>3, <2>3, TraceGrows
  <2>5. /\ y \in Board /\ Agrees(y, down, caps_on)
        /\ Trace(wire \o Bytes(k, v, id), nt, Flags, Followable)
        /\ nt[Len(wire \o Bytes(k, v, id))] = Effect(y, v)
    BY <1>2, <1>3, <2>1, <2>2, <2>4
  <2> QED BY <2>5
<1>6. CASE k.extended
  <2> DEFINE z == Effect(y, PREFIX)
  <2>1. z \in Board
    BY <1>2, EffectType DEF PREFIX
  <2>2. Agrees(z, down, caps_on)
    <3> HIDE DEF y
    <3>1. Agrees(y, down, caps_on)
      BY DEF y
    <3> QED BY <1>1, <1>2, <3>1, Agreeing
  <2>3. Followable => Shifted = UseIn(z)
    <3> HIDE DEF z
    <3> QED BY <1>1, <2>1, <2>2, ShiftedAgrees
  <2> HIDE DEF b
  <2>4. Followable => b(PREFIX).shifted = UseIn(tr[Len(wire)])
    BY <1>3, <1>4
  <2>5. PICK mt : /\ Trace(Append(wire, b(PREFIX)), mt, Flags, Followable)
                  /\ mt[Len(Append(wire, b(PREFIX)))] = Effect(tr[Len(wire)], b(PREFIX).byte)
    BY <1>1, <1>3, <2>4, TraceGrows
  <2>6. Trace(w, mt, Flags, Followable) /\ mt[Len(w)] = z /\ w \in Seq(WireByte)
    BY <1>1, <1>3, <2>5
  <2>7. wire \o Bytes(k, v, id) = Append(w, b(v))
    <3>1. Bytes(k, v, id) = <<b(PREFIX), b(v)>>
      BY <1>6 DEF Bytes, b
    <3>2. wire \o <<b(PREFIX), b(v)>> = Append(Append(wire, b(PREFIX)), b(v))
      BY <1>1, <1>3
    <3> QED BY <3>1, <3>2
  <2> HIDE DEF w, z
  <2>8. Followable => b(v).shifted = UseIn(mt[Len(w)])
    BY <1>3, <2>3, <2>6
  <2>9. PICK nt : /\ Trace(Append(w, b(v)), nt, Flags, Followable)
                  /\ nt[Len(Append(w, b(v)))] = Effect(mt[Len(w)], b(v).byte)
    BY <1>3, <2>6, <2>8, TraceGrows
  <2>10. /\ z \in Board /\ Agrees(z, down, caps_on)
         /\ Trace(wire \o Bytes(k, v, id), nt, Flags, Followable)
         /\ nt[Len(wire \o Bytes(k, v, id))] = Effect(z, v)
    BY <1>3, <2>1, <2>2, <2>6, <2>7, <2>9
  <2> QED BY <2>10
<1> QED BY <1>5, <1>6

(* A key sends: the flags stay, the state foretold goes where the key went.*)
LEMMA KeyForetold ==
    ASSUME QueueInv, Foretold, NEW k \in Keys,
           Press(k) \/ Repeat(k) \/ Release(k)
    PROVE  Foretold'
<1>1. PICK tr : Trace(wire, tr, Flags, Followable) /\ Agrees(tr[Len(wire)], down, caps_on)
  BY DEF Foretold, Ahead
<1>2. /\ setting \in Settings /\ setting.presses \in 0 .. MaxPresses /\ MaxPresses \in Nat
      /\ presses \in Nat /\ down \subseteq Keys /\ caps_on \in BOOLEAN
      /\ k.code \in 1 .. 127 /\ k \in setting.keys
  <2>1. setting \in Settings /\ presses \in Nat /\ down \subseteq Keys /\ caps_on \in BOOLEAN
    BY DEF QueueInv, TypeOK
  <2>2. k.code \in 1 .. 127 /\ k \in setting.keys
    <3>1. k \in setting.keys /\ k \in Key
      BY <2>1, SettingTypes DEF Keys
    <3> QED BY <3>1 DEF Key
  <2> QED BY <2>1, <2>2, SettingTypes, KeyboardAssumption
<1>3. Flags' = Flags /\ setting' = setting /\ Keys' = Keys
  BY DEF Press, Repeat, Release, Make, Flags, modifiers, Keys
<1>4. ASSUME NEW v \in 0 .. 255, NEW id \in Nat, v < 128 => id \in 1 .. MaxPresses,
             wire' = wire \o Bytes(k, v, id),
             \A z \in Board : Agrees(z, down, caps_on) => Agrees(Effect(z, v), down', caps_on')
      PROVE  Foretold'
  <2>1. PICK nt, z : /\ z \in Board /\ Agrees(z, down, caps_on)
                     /\ Trace(wire \o Bytes(k, v, id), nt, Flags, Followable)
                     /\ nt[Len(wire \o Bytes(k, v, id))] = Effect(z, v)
    BY <1>1, <1>4, SentTrace
  <2>2. Trace(wire', nt, Flags', Followable) /\ Agrees(nt[Len(wire')], down', caps_on')
    BY <1>3, <1>4, <2>1
  <2>3. Ahead(nt)'
    BY <1>3, <2>2 DEF Ahead, Agrees, Alone, Followable
  <2> QED BY <2>3 DEF Foretold
<1>5. /\ k.code \in 0 .. 255 /\ k.code + 128 \in 0 .. 255 /\ ~(k.code + 128 < 128) /\ 0 \in Nat
  BY <1>2
<1>6. ASSUME Make(k)
      PROVE  /\ presses + 1 \in Nat /\ presses + 1 \in 1 .. MaxPresses
             /\ wire' = wire \o Bytes(k, k.code, presses + 1)
  BY <1>2, <1>6 DEF Make
<1>7. CASE Press(k)
  <2>1. /\ Make(k) /\ down' = down \cup {k}
        /\ caps_on' = IF k.code = CAPS THEN ~caps_on ELSE caps_on
    BY <1>7 DEF Press
  <2>2. \A z \in Board : Agrees(z, down, caps_on) => Agrees(Effect(z, k.code), down', caps_on')
    BY <1>2, <2>1, Agreeing
  <2> QED BY <1>4, <1>5, <1>6, <2>1, <2>2
<1>8. CASE Repeat(k)
  <2>1. /\ Make(k) /\ down' = down /\ caps_on' = caps_on /\ k \in down
        /\ Followable => k.code # CAPS
    BY <1>2, <1>8 DEF Repeat, Followable, Followed
  <2>2. down \cup {k} = down
    BY <2>1
  <2> DEFINE c == IF k.code = CAPS THEN ~caps_on ELSE caps_on
  <2>3. \A z \in Board : Agrees(z, down, caps_on) => Agrees(Effect(z, k.code), down \cup {k}, c)
    BY <1>2, Agreeing
  <2>4. Followable => c = caps_on
    BY <2>1
  <2> HIDE DEF c
  <2>5. \A z \in Board : Agrees(z, down, caps_on) => Agrees(Effect(z, k.code), down', caps_on')
    BY <2>1, <2>2, <2>3, <2>4 DEF Agrees
  <2> QED BY <1>4, <1>5, <1>6, <2>1, <2>5
<1>9. CASE Release(k)
  <2>1. /\ down' = down \ {k} /\ caps_on' = caps_on
        /\ wire' = wire \o Bytes(k, k.code + 128, 0)
    BY <1>9 DEF Release
  <2>2. \A z \in Board : Agrees(z, down, caps_on)
                           => Agrees(Effect(z, k.code + 128), down', caps_on')
    BY <1>2, <2>1, Agreeing
  <2> QED BY <1>4, <1>5, <2>1, <2>2
<1> QED BY <1>7, <1>8, <1>9

(* A byte is read: it does to the flags what was foretold.                 *)
LEMMA HandlerForetold ==
    ASSUME QueueInv, Foretold, Handler
    PROVE  Foretold' /\ (Followable => Head(wire).shifted = UseIn(Flags))
<1>1. PICK tr : Trace(wire, tr, Flags, Followable) /\ Agrees(tr[Len(wire)], down, caps_on)
  BY DEF Foretold, Ahead
<1>2. Interrupt
  BY DEF Handler, HandleShift, HandleCaps, HandleBackspace, HandleKey
<1>3. /\ wire # <<>> /\ wire' = Tail(wire) /\ wire \in Seq(WireByte) /\ Byte = Head(wire).byte
      /\ UNCHANGED <<setting, down, caps_on>>
  BY <1>2 DEF Interrupt, board, QueueInv, InvWire, Byte
<1>4. Flags' = Effect(Flags, Byte)
  <2>1. Special = {LSHIFT, RSHIFT, CAPS, BACKSPACE} /\ LSHIFT # RSHIFT /\ LSHIFT # CAPS
        /\ RSHIFT # CAPS /\ BACKSPACE \notin {LSHIFT, RSHIFT, CAPS}
    BY DEF Special, LSHIFT, RSHIFT, CAPS, BACKSPACE
  <2> HIDE DEF LSHIFT, RSHIFT, CAPS, BACKSPACE, Special
  <2> DEFINE c == Scancode(Byte)
  <2> HIDE DEF c
  <2>2. CASE HandleShift
    BY <2>1, <2>2 DEF HandleShift, Effect, Flags, c
  <2>3. CASE HandleCaps
    BY <2>1, <2>3 DEF HandleCaps, Effect, Flags
  <2>4. CASE HandleBackspace
    BY <2>1, <2>4 DEF HandleBackspace, Effect, Flags, modifiers
  <2>5. CASE HandleKey
    BY <2>1, <2>5 DEF HandleKey, Effect, Flags, modifiers
  <2> QED BY <2>2, <2>3, <2>4, <2>5 DEF Handler
<1>5. /\ Followable => Head(wire).shifted = UseIn(Flags)
      /\ \E nt : /\ Trace(Tail(wire), nt, Effect(Flags, Head(wire).byte), Followable)
                 /\ nt[Len(Tail(wire))] = tr[Len(wire)]
  <2> DEFINE s == Flags
  <2>1. Trace(wire, tr, s, Followable)
    BY <1>1
  <2> HIDE DEF s
  <2>2. /\ Followable => Head(wire).shifted = UseIn(s)
        /\ \E nt : /\ Trace(Tail(wire), nt, Effect(s, Head(wire).byte), Followable)
                   /\ nt[Len(Tail(wire))] = tr[Len(wire)]
    BY <1>3, <2>1, TraceShrinks
  <2> QED BY <2>2 DEF s
<1>6. PICK nt : Trace(wire', nt, Flags', Followable) /\ nt[Len(wire')] = tr[Len(wire)]
  BY <1>3, <1>4, <1>5
<1>7. Ahead(nt)'
  BY <1>1, <1>3, <1>6 DEF Ahead, Agrees, Alone, Keys, Followable
<1> QED BY <1>5, <1>7 DEF Foretold

LEMMA ForetoldStep ==
    QueueInv /\ Foretold /\ [Next]_vars => Foretold'
<1> SUFFICES ASSUME QueueInv, Foretold, [Next]_vars
             PROVE  Foretold'
  OBVIOUS
<1>1. CASE \E k \in Keys : Press(k) \/ Repeat(k) \/ Release(k)
  BY <1>1, KeyForetold
<1>2. CASE Handler
  BY <1>2, HandlerForetold
<1>3. CASE Call \/ Process \/ UNCHANGED vars
  <2>1. UNCHANGED <<setting, down, caps_on, wire, keys, shift_left, shift_right, caps_lock>>
    BY <1>3 DEF Call, Process, Copy, Store, Echo, Skip, vars, board, modifiers
  <2>2. Flags' = Flags /\ wire' = wire
    BY <2>1 DEF Flags
  <2>3. PICK tr : Trace(wire, tr, Flags, Followable) /\ Agrees(tr[Len(wire)], down, caps_on)
    BY DEF Foretold, Ahead
  <2>4. Ahead(tr)'
    BY <2>1, <2>2, <2>3 DEF Ahead, Agrees, Alone, Keys, Followable
  <2> QED BY <2>4 DEF Foretold
<1> QED BY <1>1, <1>2, <1>3 DEF Next

LEMMA ForetoldInit == Init => Foretold
<1> SUFFICES ASSUME Init PROVE Foretold
  OBVIOUS
<1> DEFINE tr == [n \in 0 .. 0 |-> Flags]
<1>1. wire = <<>> /\ down = {} /\ caps_on = FALSE /\ Len(wire) = 0
  BY DEF Init
<1>2. /\ Flags \in Board /\ Flags.left = FALSE /\ Flags.right = FALSE /\ Flags.caps = FALSE
      /\ \A c \in 0 .. 127 : Flags.keys[c] = FALSE
  BY DEF Init, Flags, Board
<1> HIDE DEF Flags
<1>3. Trace(wire, tr, Flags, Followable)
  BY <1>1, <1>2 DEF Trace
<1>4. \A x \in 0 .. 127 : SaidIn(Flags, x) = FALSE
  BY <1>2 DEF SaidIn
<1>5. Agrees(tr[Len(wire)], down, caps_on)
  <2>1. tr[Len(wire)] = Flags /\ Special \subseteq 0 .. 127
    BY <1>1 DEF Special, LSHIFT, RSHIFT, CAPS, BACKSPACE
  <2> QED BY <1>1, <1>2, <1>4, <2>1 DEF Agrees
<1> QED BY <1>3, <1>5 DEF Foretold, Ahead

(* The flags the bytes on the wire will lead to are those of the keys      *)
(* held.                                                                   *)
THEOREM ForetoldInvariant == Spec => []Foretold
  BY ForetoldInit, ForetoldStep, QueueInvariant, PTL DEF Spec

(* When every byte has been read, the shift flags and is_pressed name no   *)
(* code that no key held has, and name that of every key held whose code   *)
(* is its own, caps lock and backspace aside; is_pressed is FALSE of the   *)
(* modifiers and backspace; and where modifiers can be followed the shift  *)
(* state and caps_lock are the user's.  For any keyboard and any sequence  *)
(* of presses, repeats and releases.                                       *)
THEOREM KeysFollowed == Spec => []HeldKeysTracked
<1>1. QueueInv /\ Foretold => HeldKeysTracked
  <2> SUFFICES ASSUME QueueInv, Foretold, wire = <<>>
               PROVE  /\ \A c \in 0 .. 127 : SaidHeld(c) => \E k \in down : k.code = c
                      /\ \A k \in down : Alone(k) /\ k.code \notin Unsaid => SaidHeld(k.code)
                      /\ \A c \in Special : ~IsPressed(c)
                      /\ Followable => /\ shift_left \/ shift_right <=> ShiftHeld
                                       /\ caps_lock = caps_on
    BY DEF HeldKeysTracked, Unsaid, Followable
  <2> DEFINE s == Flags
  <2>1. s \in Board /\ Agrees(s, down, caps_on)
    <3>1. PICK tr : Trace(wire, tr, Flags, Followable) /\ Agrees(tr[Len(wire)], down, caps_on)
      BY DEF Foretold, Ahead
    <3>2. 0 \in 0 .. Len(wire)
      OBVIOUS
    <3> QED BY <3>1, <3>2 DEF Trace
  <2>2. /\ s.left = shift_left /\ s.right = shift_right /\ s.caps = caps_lock /\ s.keys = keys
    BY DEF Flags
  <2>3. \A c \in 0 .. 127 : c % 128 = c
    OBVIOUS
  <2>4. \A c \in 0 .. 127 : SaidHeld(c) = SaidIn(s, c) /\ IsPressed(c) = s.keys[c]
    BY <2>2, <2>3 DEF SaidHeld, SaidIn, IsPressed
  <2> HIDE DEF s
  <2>5. /\ Special \subseteq 0 .. 127 /\ \A k \in down : k.code \in 0 .. 127
    <3>1. Special \subseteq 0 .. 127
      BY DEF Special, LSHIFT, RSHIFT, CAPS, BACKSPACE
    <3>2. down \subseteq Key
      BY SettingTypes DEF QueueInv, TypeOK, Keys
    <3> QED BY <3>1, <3>2 DEF Key
  <2>6. /\ \A c \in 0 .. 127 : SaidIn(s, c) => \E k \in down : k.code = c
        /\ \A k \in down : Alone(k) /\ k.code \notin Unsaid => SaidIn(s, k.code)
        /\ \A c \in Special : ~s.keys[c]
    BY <2>1 DEF Agrees
  <2>7. Followable => /\ shift_left \/ shift_right <=> ShiftHeld
                      /\ caps_lock = caps_on
    BY <2>1, <2>2, ShiftedAgrees DEF QueueInv
  <2> QED BY <2>4, <2>5, <2>6, <2>7
<1> QED BY <1>1, QueueInvariant, ForetoldInvariant, PTL

(* A press is queued by keyboard_handler with the case that was right when *)
(* its key went down, however many bytes were waiting when it was sent,    *)
(* where modifiers can be followed.                                        *)
THEOREM CaseRight == Spec => CaseOfPress
<1> DEFINE Right == Followed(setting) /\ enqueued' # enqueued =>
               LET e == event_queue'[queue_tail]
               IN  e.ascii # 0 => (e.ascii >= 128) = Head(wire).shifted
<1>1. QueueInv /\ Foretold /\ [Next]_vars => [Right]_vars
  <2> SUFFICES ASSUME QueueInv, Foretold, Next, Followable, enqueued' # enqueued,
                      event_queue'[queue_tail].ascii # 0
               PROVE  (event_queue'[queue_tail].ascii >= 128) = Head(wire).shifted
    BY DEF Followable
  <2>1. HandleKey /\ ~Released(Byte)
    BY DEF Next, Press, Repeat, Release, Handler, HandleShift, HandleCaps, HandleBackspace, HandleKey,
           Call, Process, Copy, Store, Echo, Skip, ring
  <2> DEFINE c == Translate(Scancode(Byte))
  <2>2. Interrupt /\ Enqueue(c, Head(wire).id)
    BY <2>1 DEF HandleKey
  <2>3. event_queue' = [event_queue EXCEPT ![queue_tail] = [ascii |-> c, id |-> Head(wire).id]]
    BY <2>2 DEF Enqueue, ring
  <2>4. event_queue \in [Slots -> Event] /\ queue_tail \in Slots
    BY DEF QueueInv, TypeOK
  <2> HIDE DEF c
  <2>5. event_queue'[queue_tail].ascii = c
    BY <2>3, <2>4
  <2>6. Head(wire).shifted = UseIn(Flags)
    BY <2>1, HandlerForetold DEF Handler
  <2>7. Scancode(Byte) \in 0 .. 127
    BY <2>2, ByteRead
  <2>8. (c >= 128) = UseShift
    BY <2>5, <2>7 DEF Translate, UseShift, c
  <2>9. UseIn(Flags) = UseShift
    BY DEF UseIn, Flags, UseShift
  <2> QED BY <2>5, <2>6, <2>8, <2>9
<1> QED BY <1>1, QueueInvariant, ForetoldInvariant, PTL DEF Spec, CaseOfPress
==============================================================================

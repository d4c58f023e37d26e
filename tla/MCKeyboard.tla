----------------------------- MODULE MCKeyboard -----------------------------
(* Keyboards and bounds for model checking Keyboard.                       *)
EXTENDS Keyboard

Base(c) == [code |-> c, extended |-> FALSE]
Grey(c) == [code |-> c, extended |-> TRUE]

(* A letter, Enter, which has no character, and Backspace.                 *)
Typing == {Base(30), Base(28), Base(BACKSPACE)}

(* A letter, the modifiers, and an arrow key that shares its code with a   *)
(* key of the numeric pad.  Every key repeats but caps lock, which toggles *)
(* again at each repeat.                                                   *)
Modifiers == {Base(30), Base(LSHIFT), Base(CAPS), Base(72), Grey(72)}

(* A letter, two keys that both count as the left shift, and a caps lock   *)
(* that repeats: modifiers the driver cannot follow.                       *)
Faked == {Base(30), Base(LSHIFT), Grey(LSHIFT), Base(CAPS)}

With(ks, n, preempted) ==
    [keys |-> ks, repeating |-> ks \ {Base(CAPS)}, presses |-> n, preemptible |-> preempted]

MCSettings  == {With(Typing, 4, FALSE), With(Typing, 3, TRUE), With(Modifiers, 3, FALSE),
                [With(Faked, 3, FALSE) EXCEPT !.repeating = Faked]}
MCLetter    == {With({Base(30)}, 8, TRUE)}
MCPrintable == {30}
==============================================================================

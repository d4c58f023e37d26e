---------------------------- MODULE MCInterrupts ----------------------------
(* Machines and devices for model checking Interrupts.                     *)
EXTENDS Interrupts

(* Machines of today, that init copes with.                                *)
MCHealthy == {m \in [hhdm : {TRUE}, apic : {TRUE}, x2apic : BOOLEAN, avx : BOOLEAN,
                     osxsave : BOOLEAN, enabled : {TRUE}, sources : {{}}] :
                 m.avx => m.osxsave}

(* A PIT, a keyboard and a disk.                                           *)
MCLines   == {0, 1, 14}

(* The number of a vector with a gate, one without, one past handlers[].   *)
MCWords   == {0, 60, 300}

(* Addresses in the highest 2GB, where the kernel is linked.               *)
MCPlace(n) == [k \in 1 .. 8 |-> CASE k = 1 -> 16 * n [] k = 2 -> 200 - n [] k = 3 -> 33 [] k = 4 -> 128
                                  [] OTHER -> 255]
MCAddressOf ==
    [h \in HandlerNames \cup {"tss"} |->
        MCPlace(CASE h = "timer_handler" -> 1    [] h = "keyboard_handler" -> 2
                  [] h = "int_no_error" -> 3     [] h = "int_with_error" -> 4
                  [] h = "double_fault_handler" -> 5 [] h = "gpf_handler" -> 6
                  [] h = "page_fault_handler" -> 7   [] OTHER -> 8)]
=============================================================================

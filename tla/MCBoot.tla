------------------------------- MODULE MCBoot --------------------------------
(* Boot loaders and machines for model checking Boot.                      *)
EXTENDS Boot, MCInterrupts

(* All machines, with and without local interrupts, and one without HHDM.  *)
MCMachines == {m \in [hhdm : BOOLEAN, apic : BOOLEAN, x2apic : BOOLEAN, avx : BOOLEAN,
                      osxsave : BOOLEAN, enabled : BOOLEAN,
                      sources : {{}, {"thermal", "error", "spurious"}}] :
                  /\ m.x2apic => m.apic
                  /\ ~m.avx => m.osxsave
                  /\ ~m.hhdm => ~m.avx /\ m.osxsave /\ m.enabled /\ m.x2apic /\ m.sources = {}}

(* Everything answered, and memory for the three tables or for two; then   *)
(* one answer missing, or one thing wrong, each.                           *)
MCAnswers == [revision |-> TRUE, framebuffer |-> "there", memmap |-> TRUE, usable |-> TRUE,
              pages |-> 4, tables |-> 3, readable |-> TRUE]
MCLoaders == {MCAnswers, [MCAnswers EXCEPT !.pages = 3], [MCAnswers EXCEPT !.pages = 0],
              [MCAnswers EXCEPT !.revision = FALSE], [MCAnswers EXCEPT !.framebuffer = "none"],
              [MCAnswers EXCEPT !.framebuffer = "null", !.readable = FALSE],
              [MCAnswers EXCEPT !.readable = FALSE], [MCAnswers EXCEPT !.memmap = FALSE],
              [MCAnswers EXCEPT !.usable = FALSE]}
==============================================================================

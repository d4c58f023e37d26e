-------------------------------- MODULE MCPMM --------------------------------
(* Memory maps and bounds for model checking PMM.  A page is 2 bytes.      *)
EXTENDS PMM

U(b, l) == [base |-> b, length |-> l, type |-> "usable"]
R(b, l) == [base |-> b, length |-> l, type |-> "reserved"]

(* One run of usable pages, listed out of order and not page-aligned, with *)
(* reserved entries around it.                                             *)
MapsNoHoles == {
    <<U(8, 4), R(14, 2), U(3, 5)>>,
    <<U(8, 2), U(4, 4), U(2, 2)>>,
    <<R(0, 2), U(2, 10), R(13, 3)>> }

(* Usable runs with reserved memory between them, more entries than slots. *)
MapsWithHoles == {
    <<U(2, 4), R(6, 2), U(8, 4)>>,
    <<U(10, 4), R(5, 1), U(2, 3), U(6, 2), R(8, 2)>>,
    <<U(12, 2), U(8, 2), U(6, 2), U(4, 2), U(2, 2)>> }

(* No usable page: none at all, or none left after alignment.              *)
MapsNoPage == {<<R(2, 4)>>, <<U(3, 2), R(8, 2)>>}

MCMapsAll == MapsNoHoles \cup MapsWithHoles \cup MapsNoPage
MCMapsWithHoles == MapsWithHoles
MCCounts == {1, 2}
MCBases == {2, 4, 6, 8, 10}
==============================================================================

------------------------------ MODULE IoStream ------------------------------
(***************************************************************************)
(* Reports: what the kernel prints (libk/src/iostream.cpp) about the       *)
(* memory map and about faults is a sequence of calls that write strings   *)
(* and numbers, one after another.  Strings are taken apart as in Utf8;    *)
(* digits are collected in a buffer, the lowest first.                     *)
(***************************************************************************)
EXTENDS Utf8

CONSTANTS
    Reports,    \* sequences of calls
    Text,       \* the message texts, by name
    UINT, SIZE, \* unsigned int and size_t count modulo these (2^32, 2^64)
    BUFFER      \* char buffer[BUFFER] (32)

Messages == {"region", "base", "len", "space", "free", "used", "page fault", "open", "protection",
             "non-present", "write", "read", "user", "kernel", "end", "general protection", "rip",
             "double fault"}

Call == [kind : {"puts", "putln"}, arg : Seq(1 .. 255)] \cup
        [kind : {"int", "uint", "hex"}, arg : Nat]

ASSUME PrintAssumption == /\ Text \in [Messages -> Strings] /\ Reports \subseteq Seq(Call)
                          /\ UINT \in Nat \ {0} /\ SIZE \in Nat \ {0}

(* The buffer has room for the decimal digits of every argument.           *)
TenTo[n \in Nat] == IF n = 0 THEN 1 ELSE 10 * TenTo[n - 1]
ASSUME BufferAssumption == /\ BUFFER \in Nat \ {0}
                           /\ UINT <= TenTo[BUFFER] /\ SIZE <= TenTo[BUFFER]

Puts(m)      == [kind |-> "puts", arg |-> Text[m]]
Putln(m)     == [kind |-> "putln", arg |-> Text[m]]
PrintInt(v)  == [kind |-> "int", arg |-> v]
PrintUint(v) == [kind |-> "uint", arg |-> v]
PrintHex(v)  == [kind |-> "hex", arg |-> v]
PrintPtr(v)  == PrintHex(v)
Endl         == [kind |-> "putln", arg |-> <<>>]

(* PMM::print_regions, a line of it.                                       *)
RegionReport(i, r) ==
    <<Puts("region"), PrintInt(i), Puts("base"), PrintHex(r.base), Puts("len"), PrintHex(r.len),
      Puts("space"), Puts(IF r.is_free THEN "free" ELSE "used"), Endl>>

(* The handlers of page faults, general protection and double faults.      *)
Bit(word, n) == (word \div 2 ^ n) % 2 = 1
PageFaultReport(fault_addr, error) ==
    <<Puts("page fault"), PrintHex(fault_addr), Puts("open"),
      Puts(IF Bit(error, 0) THEN "protection" ELSE "non-present"),
      Puts(IF Bit(error, 1) THEN "write" ELSE "read"),
      Puts(IF Bit(error, 2) THEN "user" ELSE "kernel"), Putln("end")>>
GpfReport(error, ip) ==
    <<Puts("general protection"), PrintHex(error), Puts("rip"), PrintHex(ip), Endl>>
DoubleFaultReport(ip) == <<Putln("double fault"), Puts("rip"), PrintHex(ip), Endl>>

VARIABLES
    report, calls,      \* all of it, and the calls left
    pc,                 \* "call", or the loop of the function called
    value, buffer,      \* the number, and its digits so far
    shown               \* what is on the screen, NEWLINE for the end of a line

pvars == <<vars, report, calls, pc, value, buffer, shown>>

NEWLINE == 10

PrintInit ==
    /\ text = <<>> /\ str = 0 /\ decoded = <<>>
    /\ report \in Reports /\ calls = report /\ pc = "call"
    /\ value = 0 /\ buffer = <<>> /\ shown = <<>>

Kind == Head(calls).kind

-----------------------------------------------------------------------------
CallWrite ==
    /\ pc = "call" /\ calls # <<>> /\ Kind \in {"puts", "putln"}
    /\ pc' = "write" /\ text' = Head(calls).arg /\ str' = 0 /\ decoded' = <<>>
    /\ UNCHANGED <<report, calls, value, buffer, shown>>

WriteChar ==
    /\ pc = "write" /\ Decode
    /\ shown' = Append(shown, Last(decoded'))
    /\ UNCHANGED <<report, calls, pc, value, buffer>>

(* write_line ends the line, through newline.                              *)
WriteEnd ==
    /\ pc = "write" /\ ByteAt(text, str) = 0
    /\ pc' = "call" /\ calls' = Tail(calls)
    /\ shown' = IF Kind = "putln" THEN Append(shown, NEWLINE) ELSE shown
    /\ UNCHANGED <<vars, report, value, buffer>>

(* print_int takes a size_t, which is never negative, the others an        *)
(* unsigned int, which a wider argument is cut off to fit.                 *)
Limit(call) == IF call.kind = "int" THEN SIZE ELSE UINT

CallNumber ==
    /\ pc = "call" /\ calls # <<>> /\ Kind \notin {"puts", "putln"}
    /\ pc' = "digit" /\ buffer' = <<>>
    /\ value' = Head(calls).arg % Limit(Head(calls))
    /\ UNCHANGED <<vars, report, calls, shown>>

Base     == IF Kind = "hex" THEN 16 ELSE 10
Digit(d) == IF d < 10 THEN 48 + d ELSE 97 + (d - 10)

(* The do loop, one turn.  Mutants: it goes on while value >= 0, which an  *)
(* unsigned number always is; a while loop.                                *)
CollectForEver ==
    /\ pc = "digit" /\ value' = value \div Base
    /\ buffer' = Append(buffer, Digit(value % Base))
    /\ UNCHANGED <<vars, report, calls, pc, shown>>
CollectWhile ==
    /\ pc = "digit" /\ value' = value \div Base
    /\ buffer' = IF value = 0 THEN buffer ELSE Append(buffer, Digit(value % Base))
    /\ pc' = IF value' = 0 THEN "emit" ELSE pc
    /\ UNCHANGED <<vars, report, calls, shown>>
Collect ==
    /\ pc = "digit" /\ value' = value \div Base
    /\ buffer' = Append(buffer, Digit(value % Base))
    /\ pc' = IF value' = 0 THEN "emit" ELSE pc
    /\ UNCHANGED <<vars, report, calls, shown>>

(* while (i--) putc(buffer[i])                                             *)
Emit ==
    /\ pc = "emit" /\ buffer # <<>>
    /\ shown' = Append(shown, Last(buffer)) /\ buffer' = Front(buffer)
    /\ UNCHANGED <<vars, report, calls, pc, value>>
EmitEnd ==
    /\ pc = "emit" /\ buffer = <<>>
    /\ pc' = "call" /\ calls' = Tail(calls)
    /\ UNCHANGED <<vars, report, value, buffer, shown>>

PrintNext == \/ CallWrite \/ WriteChar \/ WriteEnd
             \/ CallNumber \/ Collect \/ Emit \/ EmitEnd

PrintSpec == PrintInit /\ [][PrintNext]_pvars

-----------------------------------------------------------------------------
(***************************************************************************)
(* Properties                                                              *)
(***************************************************************************)
PrintTypeOK ==
    /\ TypeOK
    /\ IsSuffix(calls, report) /\ pc \in {"call", "write", "digit", "emit"}
    /\ value \in Nat /\ Len(buffer) <= BUFFER /\ shown \in Seq(CodePoints)

(* The numeral of v: its last digit after the numeral of the rest.         *)
Numeral(v, base) ==
    LET num[u \in 0 .. v] == IF u < base THEN <<Digit(u)>>
                             ELSE Append(num[u \div base], Digit(u % base))
    IN  num[v]

(* A report of ASCII texts and of numbers that fit the argument they are   *)
(* passed in is on the screen as it was meant, call by call.               *)
Meant(call) == IF call.kind = "puts" THEN call.arg
               ELSE IF call.kind = "putln" THEN Append(call.arg, NEWLINE)
               ELSE Numeral(call.arg, IF call.kind = "hex" THEN 16 ELSE 10)
Plain(call) == IF call.kind \in {"puts", "putln"}
               THEN \A n \in DOMAIN call.arg : call.arg[n] < 128
               ELSE call.arg < Limit(call)
ReportShown ==
    pc = "call" /\ calls = <<>> /\ (\A n \in DOMAIN report : Plain(report[n])) =>
        shown = FlattenSeq([n \in DOMAIN report |-> Meant(report[n])])
==============================================================================

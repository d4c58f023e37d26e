----------------------------- MODULE MCIoStream -----------------------------
(* Strings and reports for model checking IoStream.                           *)
EXTENDS IoStream

(* Every string of up to four of these bytes (ASCII, two continuation      *)
(* bytes, one lead byte of each length, a byte that starts nothing), and   *)
(* encodings of one to four bytes each.                                    *)
MCBytes      == {65, 128, 191, 195, 228, 240, 255}
MCCodePoints == {65, 66, 233, 20013, 128512}
MCCodeTexts  == SeqOf(MCCodePoints, 2)
MCStrings    == SeqOf(MCBytes, 4) \cup
                {Encode(a) \o Encode(b) : a, b \in MCCodePoints} \cup
                {Encode(a) : a \in MCCodePoints} \cup {<<b>> : b \in 97 .. 114}

(* A text of one letter for each message.                                  *)
MCText == LET names == <<"region", "base", "len", "space", "free", "used", "page fault", "open",
                         "protection", "non-present", "write", "read", "user", "kernel", "end",
                         "general protection", "rip", "double fault">>
          IN  [m \in Messages |-> <<96 + CHOOSE n \in DOMAIN names : names[n] = m>>]

(* Numbers with one digit, with more, the largest unsigned int (of 8 bits) *)
(* and one that does not fit.                                              *)
MCNumbers == {0, 9, 10, 100, 171, 255, 256}
MCReports == {<<[kind |-> "puts", arg |-> s]>> : s \in MCStrings} \cup
             {RegionReport(i, [base |-> b, len |-> l, is_free |-> f]) :
                i \in {0, 10, 65535}, b, l \in MCNumbers, f \in BOOLEAN} \cup
             {PageFaultReport(a, e) : a \in MCNumbers, e \in 0 .. 7} \cup
             {GpfReport(e, a) : e, a \in MCNumbers} \cup {DoubleFaultReport(a) : a \in MCNumbers} \cup
             {<<PrintUint(a), PrintPtr(b)>> : a, b \in MCNumbers}
==============================================================================

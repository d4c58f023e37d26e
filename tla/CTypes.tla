------------------------------- MODULE CTypes --------------------------------
(***************************************************************************)
(* The character classes of libk (libk/src/ctypes.cpp), for any int.       *)
(***************************************************************************)
EXTENDS Integers

isupper(c)  == c >= 65 /\ c <= 90
islower(c)  == c >= 97 /\ c <= 122
isalpha(c)  == isupper(c) \/ islower(c)
isdigit(c)  == c >= 48 /\ c <= 57
isalnum(c)  == isalpha(c) \/ isdigit(c)
isspace(c)  == c \in {32, 9, 10, 13, 12, 11}
ispunct(c)  == c \in 33 .. 47 \/ c \in 58 .. 64 \/ c \in 91 .. 96 \/ c \in 123 .. 126
isprint(c)  == c >= 32 /\ c <= 126
isxdigit(c) == isdigit(c) \/ (c >= 65 /\ c <= 70) \/ (c >= 97 /\ c <= 102)

toupper(c) == IF islower(c) THEN c - 97 + 65 ELSE c
tolower(c) == IF isupper(c) THEN c - 65 + 97 ELSE c
==============================================================================

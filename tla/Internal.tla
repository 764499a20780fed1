------------------------------ MODULE Internal -------------------------------
(***************************************************************************)
(* The two helpers the tests borrow from libexpat (internal.c): trimming a *)
(* text to complete UTF-8 characters and printing a byte.  Bytes and the   *)
(* characters of a result are their codes.                                 *)
(***************************************************************************)
EXTENDS Naturals, Sequences

(* The length of the character a byte leads, 0 for any other byte.         *)
LeadOf(b) ==
  CASE b \in 240 .. 247 -> 4
    [] b \in 224 .. 239 -> 3
    [] b \in 192 .. 223 -> 2
    [] b \in 0 .. 127   -> 1
    [] OTHER            -> 0

(* Mutant: the lead byte itself is not counted.                            *)
trim_without_lead(s) ==
  LET Back[lim \in 0 .. Len(s)] ==
        [walked \in Nat |->
           IF lim = 0 THEN 0
           ELSE LET n == LeadOf(s[lim]) IN
                IF n = 1 THEN lim
                ELSE IF n > 1 /\ walked >= n THEN lim + n - 1
                ELSE Back[lim - 1][IF n > 1 THEN 1 ELSE walked + 1]]
  IN  Back[Len(s)][0]

(* _INTERNAL_trim_to_complete_utf8_characters(): walks back from the end   *)
(* to the last lead byte that has all of its character behind it.  On the  *)
(* way from an incomplete one it starts to count again, at 1.              *)
trim_to_complete_utf8_characters(s) ==
  LET Back[lim \in 0 .. Len(s)] ==
        [walked \in Nat |->
           IF lim = 0 THEN 0
           ELSE LET n == LeadOf(s[lim]) IN
                IF n = 1 THEN lim
                ELSE IF n > 1 /\ walked + 1 >= n THEN lim + n - 1
                ELSE Back[lim - 1][IF n > 1 THEN 1 ELSE walked + 1]]
  IN  Back[Len(s)][0]

-------------------------------------------------------------------------------

Backslash == 92

HexDigit(n) == IF n < 10 THEN 48 + n ELSE 55 + n
Hex(c) == <<Backslash, 120>> \o (IF c < 16 THEN <<>> ELSE <<HexDigit(c \div 16)>>)
                             \o <<HexDigit(c % 16)>>

(* The table of unsignedCharToPrintable(), in five parts.                  *)
ControlToPrintable(c) ==
  CASE c = 0  -> <<Backslash, 48>>
    [] c = 9  -> <<Backslash, 116>>
    [] c = 10 -> <<Backslash, 110>>
    [] c = 13 -> <<Backslash, 114>>
    [] OTHER  -> Hex(c)

(* Mutant: the backslash is printed as it is.                              *)
UpperUnescaped(c) == IF c = 34 THEN <<Backslash, c>> ELSE <<c>>

UpperToPrintable(c)   == IF c \in {34, Backslash} THEN <<Backslash, c>> ELSE <<c>>
LowerToPrintable(c)   == <<c>>
HighToPrintable(c)    == Hex(c)
HighestToPrintable(c) == Hex(c)

unsignedCharToPrintable(c) ==
  CASE c \in 0 .. 31    -> ControlToPrintable(c)
    [] c \in 32 .. 94   -> UpperToPrintable(c)
    [] c \in 95 .. 126  -> LowerToPrintable(c)
    [] c \in 127 .. 191 -> HighToPrintable(c)
    [] c \in 192 .. 255 -> HighestToPrintable(c)

===============================================================================

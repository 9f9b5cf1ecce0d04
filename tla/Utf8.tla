-------------------------------- MODULE Utf8 --------------------------------
(***************************************************************************)
(* The conversions of unicode.c: UTF-8 to characters (the parts of getuc), *)
(* characters to UTF-16 (addUCS4ToUTF16Buffer) and UTF-16 to UTF-8         *)
(* (filteredConvertToUTF8, convertToUTF8), and the tables that tell where  *)
(* a cluster of characters ends.                                           *)
(*                                                                         *)
(* Bytes, UTF-16 units and characters are numbers.  A mask of the code is  *)
(* the remainder or quotient by a power of two that it stands for.         *)
(***************************************************************************)
EXTENDS Integers, Sequences

EOF == -1
UEOVERLONG == -2
UEINVALID == -3
UETOOLARGE == -4

Byte == 0..255
LastCharacter == 1114111       \* 0x10FFFF
REPLACEMENT_CHARACTER == 65533 \* 0xFFFD

(* What Unicode calls a scalar value: no half of a surrogate pair. *)
Scalar == {c \in Nat : c <= LastCharacter /\ (c < 55296 \/ c > 57343)}

-----------------------------------------------------------------------------
(* Decoding, in the parts of which getuc is made *)

IsContinuation(c) == c \div 64 = 2

(* For the first byte of a character that has more of them *)
bytesLeft(c) == CASE c \in 194..223 -> 1
                  [] c \in 224..239 -> 2
                  [] c \in 240..244 -> 3

least(left) == CASE left = 1 -> 128 [] left = 2 -> 2048 [] left = 3 -> 65536

LeadBits(c) == CASE c \in 194..223 -> c % 32
                 [] c \in 224..239 -> c % 16
                 [] c \in 240..244 -> c % 8

AddBits(retval, c) == retval * 64 + (c % 64)

(* What getuc returns when all the bytes are there. *)
Checked(retval, left) ==
    CASE retval < least(left) -> UEOVERLONG
      [] retval >= least(left) /\ retval > LastCharacter -> UETOOLARGE
      [] OTHER -> retval

(* getuc for a first byte that is not followed by others *)
Single(c) == CASE c \in 0..127 -> c
               [] c \in 128..191 -> UEINVALID
               [] c \in 192..193 -> UEOVERLONG
               [] c \in 245..255 -> UETOOLARGE

(* getuc for bytes that are all there: the character, or an error. *)
Decoded(b) ==
    LET left == Len(b) - 1
    IN CASE left = 0 -> Single(b[1])
         [] left = 1 -> Checked(AddBits(LeadBits(b[1]), b[2]), 1)
         [] left = 2 -> Checked(AddBits(AddBits(LeadBits(b[1]), b[2]), b[3]), 2)
         [] left = 3 -> Checked(AddBits(AddBits(AddBits(LeadBits(b[1]), b[2]), b[3]),
                                        b[4]), 3)

(* The bytes are one character for getuc, which stops after the last. *)
OneCharacter(b) ==
    /\ Len(b) \in 1..4
    /\ Len(b) = 1 => b[1] < 128
    /\ Len(b) > 1 => b[1] >= 194 /\ b[1] <= 244 /\ bytesLeft(b[1]) = Len(b) - 1
    /\ \A n \in 2..Len(b) : IsContinuation(b[n])

-----------------------------------------------------------------------------
(* Encoding *)

(* (c >> 6 * n) & 0x3F *)
Bits(c, n) == CASE n = 0 -> c % 64
                [] n = 1 -> (c \div 64) % 64
                [] n = 2 -> (c \div 4096) % 64
                [] n = 3 -> (c \div 262144) % 64

(* The number of bytes, with the limits as they are in the code *)
bytes(c) == CASE c > 65536 -> 4
              [] c <= 65536 /\ c > 2048 -> 3
              [] c <= 2048 /\ c > 128 -> 2
              [] OTHER -> 1

(* The first byte is marked with 0xF0 << (4 - bytes), in a char. *)
convertToUTF8(c) ==
    CASE bytes(c) = 1 -> <<c % 256>>
      [] bytes(c) = 2 -> <<192 + Bits(c, 1), 128 + Bits(c, 0)>>
      [] bytes(c) = 3 -> <<224 + Bits(c, 2), 128 + Bits(c, 1), 128 + Bits(c, 0)>>
      [] bytes(c) = 4 -> <<240 + Bits(c, 3), 128 + Bits(c, 2), 128 + Bits(c, 1),
                           128 + Bits(c, 0)>>

IsHighSurrogate(c) == (c \div 1024) % 64 = 54
IsLowSurrogate(c) == (c \div 1024) % 64 = 55

(* clow + (c << 10) + 0x10000 - (0xD800 << 10) - 0xDC00 *)
Combined(c, clow) == clow + c * 1024 + 65536 - 55296 * 1024 - 56320

addUCS4ToUTF16Buffer(c) ==
    IF c > 65536 THEN <<(55296 - 64 + (c \div 1024)) % 65536, 56320 + (c % 1024)>>
    ELSE <<c % 65536>>

(* The bytes, and the high surrogate that is waiting for its low one, for  *)
(* units that are in pairs *)
filteredConvertToUTF8(c, highSurrogate) ==
    CASE IsHighSurrogate(c) -> <<<< >>, c>>
      [] IsLowSurrogate(c) -> <<convertToUTF8(Combined(highSurrogate, c)), 0>>
      [] OTHER -> <<convertToUTF8(c), highSurrogate>>

(* All units of a buffer, one after the other. *)
ToUTF8(units) ==
    LET after[n \in 0..Len(units)] ==
            IF n = 0 THEN << << >>, 0 >>
            ELSE LET r == filteredConvertToUTF8(units[n], after[n - 1][2])
                 IN <<after[n - 1][1] \o r[1], r[2]>>
    IN after[Len(units)][1]

-----------------------------------------------------------------------------
(* Clusters *)

(* The categories that continue a cluster after a character of a category, *)
(* for the clusters of the input and for those that are read back.         *)
clusterContinuationTable ==
    LET marks == {"EXTEND", "SPACING_MARK"}
    IN [OTHER |-> marks, CONTROL |-> {}, CR |-> {}, EXTEND |-> marks,
        L |-> marks \cup {"L", "LV", "LVT", "V"}, LF |-> {},
        LV |-> marks \cup {"T", "V"}, LVT |-> marks \cup {"T"},
        T |-> marks \cup {"T"}, V |-> marks \cup {"T", "V"},
        SPACING_MARK |-> marks,
        PREPEND |-> marks \cup {"OTHER", "L", "LV", "LVT", "T", "V", "PREPEND",
                                "REGIONAL_INDICATOR"},
        REGIONAL_INDICATOR |-> marks \cup {"REGIONAL_INDICATOR"}]

backspaceContinuationTable ==
    LET mark == {"EXTEND"}
    IN [OTHER |-> mark, CONTROL |-> {}, CR |-> {}, EXTEND |-> mark,
        L |-> mark \cup {"L", "LV", "LVT", "V"}, LF |-> {},
        LV |-> mark \cup {"T", "V"}, LVT |-> mark \cup {"T"},
        T |-> mark \cup {"T"}, V |-> mark \cup {"T", "V"},
        SPACING_MARK |-> {}, PREPEND |-> {}, REGIONAL_INDICATOR |-> {}]

=============================================================================

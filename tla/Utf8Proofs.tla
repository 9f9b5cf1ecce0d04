----------------------------- MODULE Utf8Proofs -----------------------------
(***************************************************************************)
(* What the conversions of Utf8 do to every character and to every         *)
(* sequence of bytes: the limits of the code make three characters come    *)
(* out wrong, and no other.                                                *)
(***************************************************************************)
EXTENDS Utf8, TLAPS

(* The characters for which the limits of convertToUTF8 and                *)
(* addUCS4ToUTF16Buffer are off by one *)
AtLimit == {128, 2048, 65536}

(* unicode.c:75-93: the first byte tells how many follow, and the rest of  *)
(* its bits.                                                               *)
LEMMA LeadByte ==
    ASSUME NEW x \in Nat, x >= 194, x <= 244
    PROVE  /\ bytesLeft(x) = 1 => x < 224 /\ LeadBits(x) = x - 192
           /\ bytesLeft(x) = 2 => x >= 224 /\ x < 240 /\ LeadBits(x) = x - 224
           /\ bytesLeft(x) = 3 => x >= 240 /\ LeadBits(x) = x - 240
<1>1. CASE x < 224
  BY SMT, <1>1 DEF bytesLeft, LeadBits
<1>2. CASE x >= 224 /\ x < 240
  BY SMT, <1>2 DEF bytesLeft, LeadBits
<1>3. CASE x >= 240
  BY SMT, <1>3 DEF bytesLeft, LeadBits
<1> QED
  BY SMT, <1>1, <1>2, <1>3

(* unicode.c:110-114: when the limits let a number through it lies between *)
(* them.                                                                   *)
LEMMA CheckedIs ==
    ASSUME NEW r \in Nat
    PROVE  /\ Checked(r, 1) \in Nat => Checked(r, 1) = r /\ r >= 128
           /\ Checked(r, 2) \in Nat => Checked(r, 2) = r /\ r >= 2048
           /\ Checked(r, 3) \in Nat => Checked(r, 3) = r /\ r >= 65536
  BY SMT DEF Checked, UEOVERLONG, UETOOLARGE, least, LastCharacter

(* unicode.c:54: an ASCII character stands for itself. *)
LEMMA SingleIs ==
    ASSUME NEW x \in Nat, x < 128
    PROVE  Single(x) = x
  BY SMT DEF Single

(* unicode.c:164: what convertToUTF8 writes, spelled out for the number of *)
(* bytes.                                                                  *)
LEMMA Encoded ==
    ASSUME NEW c \in Scalar, c \notin AtLimit
    PROVE  LET b == convertToUTF8(c)
           IN \/ c < 128 /\ b = <<c>>
              \/ /\ c > 128 /\ c < 2048
                 /\ b = <<192 + ((c \div 64) % 64), 128 + (c % 64)>>
              \/ /\ c > 2048 /\ c < 65536
                 /\ b = <<224 + ((c \div 4096) % 64), 128 + ((c \div 64) % 64),
                          128 + (c % 64)>>
              \/ /\ c > 65536
                 /\ b = <<240 + ((c \div 262144) % 64), 128 + ((c \div 4096) % 64),
                          128 + ((c \div 64) % 64), 128 + (c % 64)>>
<1>0. c \in Nat
  BY SMT DEF Scalar
<1>1. CASE c < 128
  <2>1. bytes(c) = 1
    BY SMT, <1>0, <1>1 DEF bytes
  <2>2. c % 256 = c
    BY SMT, <1>0, <1>1
  <2> QED
    BY SMT, <1>1, <2>1, <2>2 DEF convertToUTF8
<1>2. CASE c > 128 /\ c < 2048
  <2>1. bytes(c) = 2
    BY SMT, <1>0, <1>2 DEF bytes
  <2> QED
    BY SMT, <1>2, <2>1 DEF convertToUTF8, Bits
<1>3. CASE c > 2048 /\ c < 65536
  <2>1. bytes(c) = 3
    BY SMT, <1>0, <1>3 DEF bytes
  <2> QED
    BY SMT, <1>3, <2>1 DEF convertToUTF8, Bits
<1>4. CASE c > 65536
  <2>1. bytes(c) = 4
    BY SMT, <1>0, <1>4 DEF bytes
  <2> QED
    BY SMT, <1>4, <2>1 DEF convertToUTF8, Bits
<1> QED
  BY SMT, <1>0, <1>1, <1>2, <1>3, <1>4 DEF AtLimit

(* unicode.c:164 and 38: getuc takes all of the bytes that convertToUTF8   *)
(* writes for a character, and no more, and returns the character again.   *)
THEOREM DecodesWhatIsEncoded ==
    ASSUME NEW c \in Scalar, c \notin AtLimit
    PROVE  /\ OneCharacter(convertToUTF8(c))
           /\ Decoded(convertToUTF8(c)) = c
<1> DEFINE b == convertToUTF8(c)
<1>0. c \in Nat /\ c <= 1114111
  BY SMT DEF Scalar, LastCharacter
<1>1. CASE c < 128 /\ b = <<c>>
  <2>1. OneCharacter(<<c>>)
    BY SMT, <1>0, <1>1 DEF OneCharacter
  <2>2. Decoded(<<c>>) = c
    BY SMT, <1>0, <1>1 DEF Decoded, Single
  <2> QED
    BY SMT, <1>1, <2>1, <2>2
<1>2. CASE /\ c > 128 /\ c < 2048
           /\ b = <<192 + ((c \div 64) % 64), 128 + (c % 64)>>
  <2> DEFINE x == 192 + ((c \div 64) % 64)
             y == 128 + (c % 64)
  <2>1. x \in 194..223 /\ IsContinuation(y)
    BY SMT, <1>0, <1>2 DEF IsContinuation
  <2>2. Checked(AddBits(x % 32, y), 1) = c
    BY SMT, <1>0, <1>2 DEF AddBits, Checked, least, LastCharacter
  <2>3. b = <<x, y>>
    BY <1>2
  <2> HIDE DEF x, y, b
  <2>4. OneCharacter(b)
    BY SMT, <2>1, <2>3 DEF OneCharacter, bytesLeft
  <2>5. Decoded(b) = c
    BY SMT, <2>1, <2>2, <2>3 DEF Decoded, LeadBits
  <2> QED
    BY SMT, <2>4, <2>5 DEF b
<1>3. CASE /\ c > 2048 /\ c < 65536
           /\ b = <<224 + ((c \div 4096) % 64), 128 + ((c \div 64) % 64), 128 + (c % 64)>>
  <2> DEFINE x == 224 + ((c \div 4096) % 64)
             y == 128 + ((c \div 64) % 64)
             z == 128 + (c % 64)
  <2>1. x \in 224..239 /\ IsContinuation(y) /\ IsContinuation(z)
    BY SMT, <1>0, <1>3 DEF IsContinuation
  <2>2. Checked(AddBits(AddBits(x % 16, y), z), 2) = c
    BY SMT, <1>0, <1>3 DEF AddBits, Checked, least, LastCharacter
  <2>3. b = <<x, y, z>>
    BY <1>3
  <2> HIDE DEF x, y, z, b
  <2>4. OneCharacter(b)
    BY SMT, <2>1, <2>3 DEF OneCharacter, bytesLeft
  <2>5. Decoded(b) = c
    BY SMT, <2>1, <2>2, <2>3 DEF Decoded, LeadBits
  <2> QED
    BY SMT, <2>4, <2>5 DEF b
<1>4. CASE /\ c > 65536
           /\ b = <<240 + ((c \div 262144) % 64), 128 + ((c \div 4096) % 64),
                    128 + ((c \div 64) % 64), 128 + (c % 64)>>
  <2> DEFINE x == 240 + ((c \div 262144) % 64)
             y == 128 + ((c \div 4096) % 64)
             z == 128 + ((c \div 64) % 64)
             u == 128 + (c % 64)
  <2>1. x \in 240..244 /\ IsContinuation(y) /\ IsContinuation(z) /\ IsContinuation(u)
    BY SMT, <1>0, <1>4 DEF IsContinuation
  <2>2. Checked(AddBits(AddBits(AddBits(x % 8, y), z), u), 3) = c
    <3>1. x % 8 = c \div 262144
      BY SMT, <1>0
    <3>2. AddBits(x % 8, y) = c \div 4096
      BY SMT, <1>0, <3>1 DEF AddBits
    <3>3. AddBits(AddBits(x % 8, y), z) = c \div 64
      BY SMT, <1>0, <3>2 DEF AddBits
    <3>4. AddBits(AddBits(AddBits(x % 8, y), z), u) = c
      BY SMT, <1>0, <3>3 DEF AddBits
    <3> QED
      BY SMT, <1>0, <1>4, <3>4 DEF Checked, least, LastCharacter
  <2>3. b = <<x, y, z, u>>
    BY <1>4
  <2> HIDE DEF x, y, z, u, b
  <2>4. OneCharacter(b)
    BY SMT, <2>1, <2>3 DEF OneCharacter, bytesLeft
  <2>5. Decoded(b) = c
    BY SMT, <2>1, <2>2, <2>3 DEF Decoded, LeadBits
  <2> QED
    BY SMT, <2>4, <2>5 DEF b
<1> QED
  BY SMT, Encoded, <1>1, <1>2, <1>3, <1>4

(* unicode.c:38 and 164: when getuc takes bytes for a character, then      *)
(* convertToUTF8 writes the same bytes for it.                             *)
THEOREM EncodesWhatIsDecoded ==
    ASSUME NEW b \in Seq(Nat), OneCharacter(b),
           Decoded(b) \in Scalar, Decoded(b) \notin AtLimit
    PROVE  convertToUTF8(Decoded(b)) = b
<1> DEFINE c == Decoded(b)
<1>0. c \in Nat /\ c <= 1114111 /\ c \in Scalar /\ c \notin AtLimit
  BY SMT DEF Scalar, LastCharacter
<1>elements. \A i \in 1..Len(b) : b[i] \in Nat
  BY SMT
<1>1. CASE Len(b) = 1
  <2>1. b = <<b[1]>> /\ b[1] \in Nat /\ b[1] < 128
    BY SMT, <1>1 DEF OneCharacter
  <2>2. c = Single(b[1])
    BY SMT, <1>1 DEF Decoded
  <2>3. Single(b[1]) = b[1]
    BY SMT, <2>1, SingleIs
  <2> QED
    BY SMT, <2>1, <2>2, <2>3, Encoded
<1>2. CASE Len(b) = 2
  <2> DEFINE x == b[1]
             y == b[2]
             p == LeadBits(x)
             q == AddBits(p, y)
  <2>0. x \in Nat /\ y \in Nat
    BY SMT, <1>elements, <1>2
  <2>1. /\ x >= 194 /\ x <= 244 /\ bytesLeft(x) = 1
        /\ IsContinuation(y)
    <3>1. Len(b) = 2 => 2 \in 2..Len(b)
      BY SMT
    <3> QED
      BY SMT, <1>2, <3>1 DEF OneCharacter
  <2>2. b = <<x, y>>
    BY SMT, <1>2
  <2>3. c = Checked(q, 1)
    BY SMT, <1>2 DEF Decoded
  <2> HIDE DEF x, y, c
  <2>4. p = x - 192 /\ x < 224 /\ p \in Nat
    BY SMT, <2>0, <2>1, LeadByte
  <2> HIDE DEF p
  <2>5. q \in Nat /\ q \div 64 = p /\ q % 64 = y - 128 /\ q = p * 64 + y - 128 /\ y < 192
    BY SMT, <2>0, <2>1, <2>4 DEF AddBits, IsContinuation
  <2> HIDE DEF q
  <2>6. c = q /\ c >= 128 /\ c < 2048
    <3>1. q \in Nat /\ q < 2048
      BY SMT, <2>0, <2>4, <2>5
    <3> QED
      BY SMT, <1>0, <2>3, <3>1, CheckedIs
  <2>7. x = 192 + ((c \div 64) % 64) /\ y = 128 + (c % 64)
    BY SMT, <2>0, <2>1, <2>4, <2>5, <2>6
  <2> QED
    BY SMT, <1>0, <2>2, <2>6, <2>7, Encoded DEF c
<1>3. CASE Len(b) = 3
  <2> DEFINE x == b[1]
             y == b[2]
             z == b[3]
             p == LeadBits(x)
             q == AddBits(p, y)
             r == AddBits(q, z)
  <2>0. x \in Nat /\ y \in Nat /\ z \in Nat
    BY SMT, <1>elements, <1>3
  <2>1. /\ x >= 194 /\ x <= 244 /\ bytesLeft(x) = 2
        /\ IsContinuation(y) /\ IsContinuation(z)
    <3>1. Len(b) = 3 => 2 \in 2..Len(b) /\ 3 \in 2..Len(b)
      BY SMT
    <3> QED
      BY SMT, <1>3, <3>1 DEF OneCharacter
  <2>2. b = <<x, y, z>>
    BY SMT, <1>3
  <2>3. c = Checked(r, 2)
    BY SMT, <1>3 DEF Decoded
  <2> HIDE DEF x, y, z, c
  <2>4. p = x - 224 /\ x < 240 /\ p \in Nat
    BY SMT, <2>0, <2>1, LeadByte
  <2> HIDE DEF p
  <2>5. q \in Nat /\ q \div 64 = p /\ q % 64 = y - 128 /\ q = p * 64 + y - 128 /\ y < 192
    BY SMT, <2>0, <2>1, <2>4 DEF AddBits, IsContinuation
  <2> HIDE DEF q
  <2>6. r \in Nat /\ r \div 64 = q /\ r % 64 = z - 128 /\ r = q * 64 + z - 128 /\ z < 192
    <3>1. q \in Nat
      BY SMT, <2>5
    <3> QED
      BY SMT, <2>0, <2>1, <3>1 DEF AddBits, IsContinuation
  <2> HIDE DEF r
  <2>7. c = r /\ c >= 2048 /\ c < 65536
    <3>1. r \in Nat /\ r < 65536
      BY SMT, <2>0, <2>4, <2>5, <2>6
    <3> QED
      BY SMT, <1>0, <2>3, <3>1, CheckedIs
  <2>8. c \div 4096 = p
    <3>1. (c \div 64) \div 64 = p
      BY SMT, <2>5, <2>6, <2>7
    <3> QED
      BY SMT, <1>0, <3>1
  <2>9. /\ x = 224 + ((c \div 4096) % 64)
        /\ y = 128 + ((c \div 64) % 64)
        /\ z = 128 + (c % 64)
    BY SMT, <2>0, <2>1, <2>4, <2>5, <2>6, <2>7, <2>8
  <2> QED
    BY SMT, <1>0, <2>2, <2>7, <2>9, Encoded DEF c
<1>4. CASE Len(b) = 4
  <2> DEFINE x == b[1]
             y == b[2]
             z == b[3]
             u == b[4]
             p == LeadBits(x)
             q == AddBits(p, y)
             r == AddBits(q, z)
             s == AddBits(r, u)
  <2>0. x \in Nat /\ y \in Nat /\ z \in Nat /\ u \in Nat
    BY SMT, <1>elements, <1>4
  <2>1. /\ x >= 194 /\ x <= 244 /\ bytesLeft(x) = 3
        /\ IsContinuation(y) /\ IsContinuation(z) /\ IsContinuation(u)
    <3>1. Len(b) = 4 => 2 \in 2..Len(b) /\ 3 \in 2..Len(b) /\ 4 \in 2..Len(b)
      BY SMT
    <3> QED
      BY SMT, <1>4, <3>1 DEF OneCharacter
  <2>2. b = <<x, y, z, u>>
    BY SMT, <1>4
  <2>3. c = Checked(s, 3)
    BY SMT, <1>4 DEF Decoded
  <2> HIDE DEF x, y, z, u, c
  <2>4. p = x - 240 /\ x < 245 /\ p \in Nat
    BY SMT, <2>0, <2>1, LeadByte
  <2> HIDE DEF p
  <2>5. q \in Nat /\ q \div 64 = p /\ q % 64 = y - 128 /\ q = p * 64 + y - 128 /\ y < 192
    BY SMT, <2>0, <2>1, <2>4 DEF AddBits, IsContinuation
  <2> HIDE DEF q
  <2>6. r \in Nat /\ r \div 64 = q /\ r % 64 = z - 128 /\ r = q * 64 + z - 128 /\ z < 192
    <3>1. q \in Nat
      BY SMT, <2>5
    <3> QED
      BY SMT, <2>0, <2>1, <3>1 DEF AddBits, IsContinuation
  <2> HIDE DEF r
  <2>7. s \in Nat /\ s \div 64 = r /\ s % 64 = u - 128 /\ u < 192
    <3>1. r \in Nat
      BY SMT, <2>6
    <3> QED
      BY SMT, <2>0, <2>1, <3>1 DEF AddBits, IsContinuation
  <2> HIDE DEF s
  <2>8. c = s /\ c >= 65536
    <3>1. s \in Nat
      BY SMT, <2>7
    <3> QED
      BY SMT, <1>0, <2>3, <3>1, CheckedIs
  <2>9. c \div 64 = r /\ c \div 4096 = q /\ c \div 262144 = p
    <3>1. c \div 64 = r /\ (c \div 64) \div 64 = q
      BY SMT, <2>6, <2>7, <2>8
    <3>2. c \div 4096 = q
      BY SMT, <1>0, <3>1
    <3>3. (c \div 4096) \div 64 = p
      BY SMT, <2>5, <3>2
    <3>4. c \div 262144 = p
      BY SMT, <1>0, <3>3
    <3> QED
      BY SMT, <3>1, <3>2, <3>4
  <2>10. /\ x = 240 + ((c \div 262144) % 64)
         /\ y = 128 + ((c \div 4096) % 64)
         /\ z = 128 + ((c \div 64) % 64)
         /\ u = 128 + (c % 64)
    BY SMT, <2>0, <2>1, <2>4, <2>5, <2>6, <2>7, <2>8, <2>9
  <2> QED
    BY SMT, <1>0, <2>2, <2>8, <2>10, Encoded DEF c
<1> QED
  BY SMT, <1>1, <1>2, <1>3, <1>4 DEF OneCharacter

(* unicode.c:385 and 198: a character that needs two UTF-16 units gives a  *)
(* high and a low surrogate, from which filteredConvertToUTF8 makes the    *)
(* bytes of the character; any other goes through as it is.                *)
THEOREM SurrogatesInPairs ==
    ASSUME NEW c \in Scalar, c \notin AtLimit
    PROVE  LET units == addUCS4ToUTF16Buffer(c)
           IN IF c < 65536
              THEN \A high : /\ units = <<c>>
                             /\ filteredConvertToUTF8(c, high) = <<convertToUTF8(c), high>>
              ELSE /\ Len(units) = 2
                   /\ \A high : filteredConvertToUTF8(units[1], high) = << << >>, units[1] >>
                   /\ filteredConvertToUTF8(units[2], units[1]) = <<convertToUTF8(c), 0>>
<1>0. c \in Nat /\ c <= 1114111 /\ (c < 55296 \/ c > 57343)
  BY SMT DEF Scalar, LastCharacter
<1>1. CASE c < 65536
  <2>1. addUCS4ToUTF16Buffer(c) = <<c>>
    BY SMT, <1>0, <1>1 DEF addUCS4ToUTF16Buffer
  <2>2. ~IsHighSurrogate(c) /\ ~IsLowSurrogate(c)
    BY SMT, <1>0, <1>1 DEF IsHighSurrogate, IsLowSurrogate
  <2> QED
    BY SMT, <1>1, <2>1, <2>2 DEF filteredConvertToUTF8
<1>2. CASE c > 65536
  <2> DEFINE h == (55296 - 64 + (c \div 1024)) % 65536
             l == 56320 + (c % 1024)
  <2>1. addUCS4ToUTF16Buffer(c) = <<h, l>>
    BY SMT, <1>2 DEF addUCS4ToUTF16Buffer
  <2>2. IsHighSurrogate(h) /\ ~IsLowSurrogate(h) /\ ~IsHighSurrogate(l) /\ IsLowSurrogate(l)
    BY SMT, <1>0, <1>2 DEF IsHighSurrogate, IsLowSurrogate
  <2>3. Combined(h, l) = c
    BY SMT, <1>0, <1>2 DEF Combined
  <2> HIDE DEF h, l
  <2>4. \A high : filteredConvertToUTF8(h, high) = << << >>, h >>
    BY Zenon, <2>2 DEF filteredConvertToUTF8
  <2>5. filteredConvertToUTF8(l, h) = <<convertToUTF8(c), 0>>
    BY SMT, <2>2, <2>3 DEF filteredConvertToUTF8
  <2>6. Len(<<h, l>>) = 2 /\ <<h, l>>[1] = h /\ <<h, l>>[2] = l
    BY SMT
  <2> QED
    BY SMT, <1>0, <1>2, <2>1, <2>4, <2>5, <2>6
<1> QED
  BY SMT, <1>0, <1>1, <1>2 DEF AtLimit

=============================================================================

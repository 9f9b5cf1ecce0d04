---------------------------- MODULE HashTableProofs ----------------------------
(***************************************************************************)
(* The numbers of hashtable.c stand for the words, for every set of words, *)
(* every hash function and every number of buckets.                        *)
(***************************************************************************)
EXTENDS HashTable, TLAPS

(* What has been given is what the table holds, each in the bucket of its  *)
(* word, and the numbers given are those below nextValue.                  *)
Recorded ==
    /\ \A w \in Word, v \in Nat :
          <<w, v>> \in given <=> Tuple(w, v) \in hashtable[Hash[w]]
    /\ \A p \in given : p[2] < nextValue
    /\ \A n \in 0..(nextValue - 1) : \E p \in given : p[2] = n

IInv == TableTypeOK /\ Recorded /\ SameNumberSameWord /\ NumbersBelowHashMax

-----------------------------------------------------------------------------

LEMMA InitIInv == TableInit => IInv
<1> SUFFICES ASSUME TableInit PROVE IInv
    OBVIOUS
<1>1. TableTypeOK
  <2>1. hashtable \in [Bucket -> SUBSET [word: Word, value: Nat]]
      BY DEF TableInit
  <2>2. nextValue \in 0..VALUE_MAX /\ hashMax \in 0..VALUE_MAX
      BY ValueMaxAssumption DEF TableInit
  <2>3. given \subseteq Word \X Nat /\ counted \subseteq Nat
      BY DEF TableInit
  <2>4. panic \in BOOLEAN
      BY DEF TableInit
  <2> QED
      BY <2>1, <2>2, <2>3, <2>4 DEF TableTypeOK
<1>2. Recorded
    BY HashAssumption DEF TableInit, Recorded, Tuple
<1>3. SameNumberSameWord /\ NumbersBelowHashMax
    BY DEF TableInit, SameNumberSameWord, NumbersBelowHashMax
<1> QED
    BY <1>1, <1>2, <1>3 DEF IInv

(* A word that is found has been given the same number before. *)
LEMMA FindKeeps ==
    ASSUME IInv, NEW word \in Word, Find(word)
    PROVE  given' = given
<1>1. PICK t \in Matching(word) : given' = given \cup {<<word, t.value>>}
    BY DEF Find
<1>2. t \in hashtable[Hash[word]] /\ t.word = word
    BY <1>1 DEF Matching
<1>3. t \in [word: Word, value: Nat]
    BY <1>2, HashAssumption DEF IInv, TableTypeOK
<1>4. t = Tuple(word, t.value) /\ t.value \in Nat
    BY <1>2, <1>3 DEF Tuple
<1>5. <<word, t.value>> \in given
    BY <1>2, <1>4 DEF IInv, Recorded
<1> QED
    BY <1>1, <1>5

LEMMA FindIInv ==
    ASSUME IInv, NEW word \in Word, Find(word)
    PROVE  IInv'
<1>1. given' = given
    BY FindKeeps
<1>2. UNCHANGED <<hashtable, nextValue, hashMax, counted, panic>>
    BY DEF Find
<1> QED
    BY <1>1, <1>2 DEF IInv, TableTypeOK, Recorded, SameNumberSameWord,
                      NumbersBelowHashMax

LEMMA AddIInv ==
    ASSUME IInv, NEW word \in Word, Add(word)
    PROVE  IInv'
<1> DEFINE new == Tuple(word, nextValue)
<1>1. /\ nextValue \in Nat /\ nextValue' = nextValue + 1
      /\ nextValue' \in 0..VALUE_MAX
    BY ValueMaxAssumption DEF IInv, TableTypeOK, Add
<1>2. new \in [word: Word, value: Nat]
    BY <1>1 DEF Tuple
<1>3. given' = given \cup {<<word, nextValue>>}
    BY DEF Add
<1>4. /\ hashtable' \in [Bucket -> SUBSET [word: Word, value: Nat]]
      /\ \A w \in Word : hashtable'[Hash[w]] =
            IF Hash[w] = Hash[word] THEN hashtable[Hash[w]] \cup {new}
                                    ELSE hashtable[Hash[w]]
    BY <1>2, HashAssumption DEF IInv, TableTypeOK, Add
<1>5. TableTypeOK'
    BY <1>1, <1>3, <1>4 DEF IInv, TableTypeOK, Add
<1>6. \A v \in Nat : <<word, v>> \notin given
  <2> SUFFICES ASSUME NEW v \in Nat, <<word, v>> \in given PROVE FALSE
      OBVIOUS
  <2>1. Tuple(word, v) \in hashtable[Hash[word]]
      BY DEF IInv, Recorded
  <2>2. Tuple(word, v) \in Matching(word)
      BY <2>1 DEF Matching, Tuple
  <2> QED
      BY <2>2 DEF Add
<1>7. Recorded'
  <2>1. ASSUME NEW w \in Word, NEW v \in Nat
        PROVE  <<w, v>> \in given' <=> Tuple(w, v) \in hashtable'[Hash[w]]
    <3>1. <<w, v>> \in given <=> Tuple(w, v) \in hashtable[Hash[w]]
        BY DEF IInv, Recorded
    <3>2. Tuple(w, v) = new <=> w = word /\ v = nextValue
        BY DEF Tuple
    <3>3. <<w, v>> = <<word, nextValue>> <=> w = word /\ v = nextValue
        OBVIOUS
    <3> QED
        BY <1>3, <1>4, <3>1, <3>2, <3>3
  <2>2. ASSUME NEW p \in given' PROVE p[2] < nextValue'
    <3>1. p \in given => p[2] \in Nat /\ p[2] < nextValue
        BY DEF IInv, TableTypeOK, Recorded
    <3> QED
        BY <1>1, <1>3, <3>1
  <2>3. ASSUME NEW n \in 0..(nextValue' - 1) PROVE \E p \in given' : p[2] = n
    <3>1. CASE n = nextValue
      <4>1. <<word, nextValue>> \in given' /\ <<word, nextValue>>[2] = n
          BY <1>3, <3>1
      <4> QED
          BY <4>1
    <3>2. CASE n # nextValue
      <4>1. n \in 0..(nextValue - 1)
          BY <1>1, <3>2
      <4> QED
          BY <4>1, <1>3 DEF IInv, Recorded
    <3> QED
        BY <3>1, <3>2
  <2> QED
      BY <2>1, <2>2, <2>3 DEF Recorded
<1>8. SameNumberSameWord'
  <2> SUFFICES ASSUME NEW p \in given', NEW q \in given'
               PROVE  p[1] = q[1] <=> p[2] = q[2]
      BY DEF SameNumberSameWord
  <2>1. \A r \in given : /\ r[1] # word
                         /\ r[2] \in Nat /\ r[2] # nextValue
      BY <1>1, <1>6 DEF IInv, TableTypeOK, Recorded
  <2>2. CASE p \in given /\ q \in given
      BY <2>2 DEF IInv, SameNumberSameWord
  <2>3. CASE p = <<word, nextValue>> \/ q = <<word, nextValue>>
      BY <1>3, <2>1, <2>3
  <2> QED
      BY <1>3, <2>2, <2>3
<1>9. NumbersBelowHashMax'
    BY DEF IInv, NumbersBelowHashMax, Add
<1> QED
    BY <1>5, <1>7, <1>8, <1>9 DEF IInv

(* At the end of a generation the numbers given are 0..nextValue - 1. *)
LEMMA GetHashMaxIInv ==
    ASSUME IInv, getHashMax
    PROVE  IInv'
<1>1. nextValue \in Nat /\ nextValue \in 0..VALUE_MAX
    BY ValueMaxAssumption DEF IInv, TableTypeOK
<1>2. \A p \in given : p[2] \in Nat
    BY DEF IInv, TableTypeOK
<1>3. TableTypeOK'
    BY <1>1, <1>2, ValueMaxAssumption DEF IInv, TableTypeOK, getHashMax
<1>4. Recorded'
    BY HashAssumption DEF getHashMax, Recorded
<1>5. SameNumberSameWord'
    BY DEF getHashMax, SameNumberSameWord
<1>6. {p[2] : p \in given} = 0..(nextValue - 1)
  <2>1. \A p \in given : p[2] \in 0..(nextValue - 1)
      BY <1>1, <1>2 DEF IInv, Recorded
  <2>2. \A n \in 0..(nextValue - 1) : n \in {p[2] : p \in given}
      BY DEF IInv, Recorded
  <2> QED
      BY <2>1, <2>2
<1>7. NumbersBelowHashMax'
    BY <1>6 DEF getHashMax, NumbersBelowHashMax
<1> QED
    BY <1>3, <1>4, <1>5, <1>7 DEF IInv

LEMMA NextIInv == IInv /\ [TableNext]_tableVars => IInv'
<1> SUFFICES ASSUME IInv, [TableNext]_tableVars PROVE IInv'
    OBVIOUS
<1>1. CASE \E word \in Word : Find(word)
    BY <1>1, FindIInv
<1>2. CASE \E word \in Word : Add(word)
    BY <1>2, AddIInv
<1>3. CASE \E word \in Word : Full(word)
    BY <1>3 DEF Full, IInv, TableTypeOK, Recorded, SameNumberSameWord,
                NumbersBelowHashMax
<1>4. CASE getHashMax
    BY <1>4, GetHashMaxIInv
<1>5. CASE UNCHANGED tableVars
    BY <1>5 DEF tableVars, IInv, TableTypeOK, Recorded, SameNumberSameWord,
                NumbersBelowHashMax
<1> QED
    BY <1>1, <1>2, <1>3, <1>4, <1>5 DEF TableNext

-----------------------------------------------------------------------------

(* getValue's numbers stand for the words: within a generation, equal      *)
(* numbers mean equal words and equal words get equal numbers, whatever    *)
(* the hash function.                                                      *)
THEOREM NumbersStandForWords == TableSpec => []SameNumberSameWord
<1>1. IInv => SameNumberSameWord
    BY DEF IInv
<1> QED
    BY <1>1, InitIInv, NextIInv, PTL DEF TableSpec

(* The numbers of a generation are exactly those below the value that      *)
(* getHashMax returns, so an array of that size can be indexed by them.    *)
THEOREM HashMaxBoundsNumbers == TableSpec => []NumbersBelowHashMax
<1>1. IInv => NumbersBelowHashMax
    BY DEF IInv
<1> QED
    BY <1>1, InitIInv, NextIInv, PTL DEF TableSpec

(* The variables keep their types; nextValue never passes VALUE_MAX. *)
THEOREM TypeCorrect == TableSpec => []TableTypeOK
<1>1. IInv => TableTypeOK
    BY DEF IInv
<1> QED
    BY <1>1, InitIInv, NextIInv, PTL DEF TableSpec

=============================================================================

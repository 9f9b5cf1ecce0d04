------------------------------ MODULE HashTable ------------------------------
(***************************************************************************)
(* hashtable.c: every different word gets a number, and from then on the   *)
(* comparison sees only the numbers.  getHashMax ends a generation: the    *)
(* table is emptied and the numbers start from 0 again, first for the      *)
(* words of the two files, then for the contexts of each comparison.       *)
(*                                                                         *)
(* A bucket is the set of the tuples in its list: the list is searched for *)
(* a word that is in it at most once, so its order does not matter.        *)
(* The names of the specification begin with Table because EditScript      *)
(* extends this module.                                                    *)
(***************************************************************************)
EXTENDS Integers, FiniteSets

CONSTANTS
    Word,       \* what is given to getValue: the bytes of a word or context
    Bucket,     \* 0..HASHTABLE_SIZE - 1
    Hash,       \* the bucket of each word
    VALUE_MAX

ASSUME HashAssumption == Hash \in [Word -> Bucket]
ASSUME ValueMaxAssumption == VALUE_MAX \in Nat

VARIABLES
    hashtable,
    nextValue,
    given,      \* history: what getValue has returned in this generation
    hashMax,    \* history: what getHashMax has returned last
    counted,    \* history: the numbers of the generation it ended
    panic       \* ASSERT(nextValue != VALUE_MAX) has failed

tableVars == <<hashtable, nextValue, given, hashMax, counted, panic>>

-----------------------------------------------------------------------------

TableInit ==
    /\ hashtable = [b \in Bucket |-> {}]
    /\ nextValue = 0
    /\ given = {}
    /\ hashMax = 0
    /\ counted = {}
    /\ panic = FALSE

Tuple(word, value) == [word |-> word, value |-> value]

(* Slip: a word with the same hash is taken for the same word. *)
Matching_Bucket(word) == hashtable[Hash[word]]

(* The tuples of the word's bucket that hold the word. *)
Matching(word) == {t \in hashtable[Hash[word]] : t.word = word}

(* What getValue returns. *)
getValue(word) ==
    IF Matching(word) = {} THEN nextValue ELSE (CHOOSE t \in Matching(word) : TRUE).value

(* getValue finds the word. *)
Find(word) ==
    /\ ~panic
    /\ \E t \in Matching(word) : given' = given \cup {<<word, t.value>>}
    /\ UNCHANGED <<hashtable, nextValue, hashMax, counted, panic>>

(* Slip: the number is used again. *)
Add_NoIncrement(word) ==
    /\ ~panic
    /\ Matching(word) = {}
    /\ nextValue # VALUE_MAX
    /\ hashtable' = [hashtable EXCEPT ![Hash[word]] =
                        @ \cup {Tuple(word, nextValue)}]
    /\ given' = given \cup {<<word, nextValue>>}
    /\ UNCHANGED <<nextValue, hashMax, counted, panic>>

(* getValue adds the word. *)
Add(word) ==
    /\ ~panic
    /\ Matching(word) = {}
    /\ nextValue # VALUE_MAX
    /\ hashtable' = [hashtable EXCEPT ![Hash[word]] =
                        @ \cup {Tuple(word, nextValue)}]
    /\ nextValue' = nextValue + 1
    /\ given' = given \cup {<<word, nextValue>>}
    /\ UNCHANGED <<hashMax, counted, panic>>

(* getValue has no number left. *)
Full(word) ==
    /\ ~panic
    /\ Matching(word) = {}
    /\ nextValue = VALUE_MAX
    /\ panic' = TRUE
    /\ UNCHANGED <<hashtable, nextValue, given, hashMax, counted>>

getHashMax ==
    /\ ~panic
    /\ hashMax' = nextValue
    /\ counted' = {p[2] : p \in given}
    /\ given' = {}
    /\ hashtable' = [b \in Bucket |-> {}]
    /\ nextValue' = 0
    /\ UNCHANGED panic

TableNext ==
    \/ \E word \in Word : Find(word) \/ Add(word) \/ Full(word)
    \/ getHashMax

TableSpec == TableInit /\ [][TableNext]_tableVars

-----------------------------------------------------------------------------

(* Type invariant. *)
TableTypeOK ==
    /\ hashtable \in [Bucket -> SUBSET [word: Word, value: Nat]]
    /\ nextValue \in 0..VALUE_MAX
    /\ given \subseteq Word \X Nat
    /\ hashMax \in 0..VALUE_MAX
    /\ counted \subseteq Nat
    /\ panic \in BOOLEAN

(* Within a generation two words get the same number exactly when they are *)
(* the same word, whatever words share a bucket: comparing the numbers is  *)
(* comparing the words.                                                    *)
SameNumberSameWord ==
    \A p, q \in given : p[1] = q[1] <=> p[2] = q[2]

(* The numbers of a generation are all the numbers below what getHashMax   *)
(* returns: discard_confusing_lines counts the words in an array of that   *)
(* size, indexed by their numbers.                                         *)
NumbersBelowHashMax == counted = 0..(hashMax - 1)

=============================================================================

------------------------------ MODULE TinyGps ------------------------------
(***************************************************************************)
(* apps/rp_tinygps/tinygps.c: the incremental parser gps_encode.  The unit *)
(* is a token: '$', ',', '*', the end of the line, the checksum, or the    *)
(* text of a field.  The parity is the exclusive or of what was seen, here *)
(* the symmetric difference of tokens: it forgets their order, and a token *)
(* seen twice.                                                             *)
(*                                                                         *)
(* Of the terms of a sentence those in Layout are kept, so that they count *)
(* from one; formats and ages are left out.  Tokens get lost on the serial *)
(* line.                                                                   *)
(***************************************************************************)
EXTENDS Integers, Sequences

CONSTANTS MAX_SENTENCE,   \* bound on the sentences sent
          MAX_DROP        \* bound on the tokens lost of one sentence

ASSUME TinyAssumption == MAX_SENTENCE \in Nat /\ MAX_DROP \in Nat

VARIABLES
  slot, fields,     \* receiver: place of the token to come in its sentence; its terms
  drops, nSent,     \* receiver: tokens lost of it; sentences sent
  checked,          \* history: terms of the sentence whose checksum came last
  term,             \* _term: tokens since the last separator
  parity, isChecksum, termNumber, sentenceType, isGood,   \* _parity, ...
  new, fix,         \* _new_time, ... and _time, ..., as value and sign
  valid             \* gps_encode has just returned true

receiver == <<slot, fields, drops, nSent, checked>>
Tinyvars == <<receiver, term, parity, isChecksum, termNumber, sentenceType, isGood, new, fix, valid>>

(* A token: what it is and, where its text changes from one sentence to    *)
(* the next, the number of the sentence.                                   *)
Sign(c) == <<c, 0>>
Comma == Sign(",")
Empty == Sign("")     \* a term without text: no token comes

(* The terms kept of the two sentences, in their order, behind the type. *)
Layout == [GPRMC |-> <<"time", "valid", "lat", "ns", "date">>,
           GPGGA |-> <<"time", "lat", "ns", "fix", "alt">>]
Field == {"time", "lat", "date", "alt"}
NoFix == [f \in Field |-> <<Empty, 1>>]

END == 16     \* slot behind the sentence: nothing comes

TinyInit ==
  /\ slot = END /\ fields = <<>> /\ drops = 0 /\ nSent = 0 /\ checked = <<>>
  /\ term = <<>> /\ parity = {} /\ isChecksum = FALSE /\ termNumber = 0
  /\ sentenceType = "other" /\ isGood = FALSE /\ new = NoFix /\ fix = NoFix /\ valid = FALSE

----------------------------------------------------------------------------
(* External: the receiver's sentences.  The numeric terms differ from one  *)
(* sentence to the next; the latitude may be missing.                      *)
Texts(f, k) == CASE f = "valid" -> {Sign("A"), Sign("V")}
                 [] f = "fix"   -> {Sign("1"), Sign("0")}
                 [] f = "ns"    -> {Sign("N"), Sign("S")}
                 [] f = "lat"   -> {Empty, <<f, k>>}
                 [] OTHER       -> {<<f, k>>}

Toggle(s, x) == (s \cup {x}) \ (s \cap {x})

(* The sentence: '$', the six terms with a comma between each two, '*',    *)
(* the checksum and the end of the line.                                   *)
Token(p) == CASE p = 1  -> Sign("$")
              [] p = 13 -> Sign("*")
              [] p = 14 -> Sign("sum")
              [] p = 15 -> Sign("end")
              [] OTHER  -> IF p % 2 = 0 THEN fields[p \div 2] ELSE Comma

After(p) == IF p + 1 \in 2 .. 12 /\ Token(p + 1) = Empty THEN p + 2 ELSE p + 1

\* All terms differ, and of five commas one is left.
SumOf(fs) == ({fs[i] : i \in 1..6} \ {Empty}) \cup {Comma}

Send == /\ slot = END /\ slot' = 1 /\ nSent < MAX_SENTENCE /\ nSent' = nSent + 1 /\ drops' = 0
        /\ \E type \in DOMAIN Layout :
             LET T(i) == Texts(Layout[type][i], nSent')
             IN \E a \in T(1), b \in T(2), c \in T(3), d \in T(4), e \in T(5) :
                  fields' = <<Sign(type), a, b, c, d, e>>
        /\ valid' = FALSE
        /\ UNCHANGED <<checked, term, parity, isChecksum, termNumber, sentenceType, isGood, new, fix>>

Drop == /\ slot # END /\ slot' = After(slot) /\ drops < MAX_DROP /\ drops' = drops + 1
        /\ valid' = FALSE
        /\ UNCHANGED <<fields, nSent, checked, term, parity, isChecksum, termNumber, sentenceType,
                       isGood, new, fix>>

----------------------------------------------------------------------------
(* gps_term_complete: what the term's place makes of its text.  gpsstrcmp  *)
(* finds an empty term equal to the first name.  COMBINE puts the type     *)
(* (GPGGA 0, GPRMC 1) at bit 5 of the term's number, where a number from   *)
(* 32 on overlaps with it.                                                 *)
TypeOf(t) == CASE t = <<Sign("GPGGA")>> -> "GPGGA"
               [] t \in {<<>>, <<Sign("GPRMC")>>} -> "GPRMC"
               [] OTHER -> "other"

Combine(type) == IF termNumber \div 32 = 1 THEN "GPRMC" ELSE type

Place == IF sentenceType \in DOMAIN Layout /\ termNumber < 64 /\ termNumber % 32 \in 1..5
         THEN Layout[Combine(sentenceType)][termNumber % 32] ELSE "none"

Store(place, text) ==
  CASE place \in Field -> [new EXCEPT ![place] = <<text, 1>>]
    [] place = "ns" /\ text = Sign("S") -> [new EXCEPT !["lat"] = <<@[1], -@[2]>>]
    [] OTHER -> new

\* Slip: the validity is not looked at.
MutPasses(sum) == term[1] = Sign("sum") /\ sum = SumOf(checked)

Passes(sum) == term[1] = Sign("sum") /\ sum = SumOf(checked) /\ isGood

Committed == CASE sentenceType = "GPRMC" -> {"time", "lat", "date"}
               [] sentenceType = "GPGGA" -> {"time", "lat", "alt"}
               [] OTHER -> {}

TermComplete(sum) ==
  IF isChecksum /\ term # <<>>
  THEN /\ valid' = Passes(sum)
       /\ fix' = [f \in Field |-> IF valid' /\ f \in Committed THEN new[f] ELSE fix[f]]
       /\ UNCHANGED <<sentenceType, isGood, new>>
  ELSE /\ valid' = FALSE
       /\ sentenceType' = IF termNumber = 0 /\ ~isChecksum THEN TypeOf(term) ELSE sentenceType
       /\ IF termNumber > 0 /\ ~isChecksum /\ term # <<>>
          THEN /\ new' = Store(Place, term[1])
               /\ isGood' = CASE Place = "valid" -> term[1] = Sign("A")
                              [] Place = "fix" -> term[1] = Sign("1")
                              [] OTHER -> isGood
          ELSE UNCHANGED <<new, isGood>>
       /\ UNCHANGED fix

(* gps_encode of one token.  A comma is in the parity before its term is   *)
(* looked at.                                                              *)
Separator(c) ==
  /\ parity' = IF c = Comma THEN Toggle(parity, c) ELSE parity
  /\ TermComplete(parity')
  /\ termNumber' = (termNumber + 1) % 256 /\ term' = <<>> /\ isChecksum' = (c = Sign("*"))

Begin ==
  /\ termNumber' = 0 /\ term' = <<>> /\ parity' = {} /\ sentenceType' = "other"
  /\ isChecksum' = FALSE /\ isGood' = FALSE /\ valid' = FALSE /\ UNCHANGED <<new, fix>>

Ordinary(c) ==
  /\ term' = Append(term, c) /\ parity' = (IF isChecksum THEN parity ELSE Toggle(parity, c))
  /\ valid' = FALSE /\ UNCHANGED <<isChecksum, termNumber, sentenceType, isGood, new, fix>>

Separators == {Comma, Sign("*"), Sign("end")}

Encode ==
  /\ slot # END /\ slot' = After(slot)
  /\ LET c == Token(slot)
     IN /\ \/ c \in Separators /\ Separator(c)
           \/ c = Sign("$") /\ Begin
           \/ c \notin Separators \cup {Sign("$")} /\ Ordinary(c)
        /\ checked' = IF c = Sign("sum") THEN fields ELSE checked
  /\ UNCHANGED <<fields, drops, nSent>>

TinyNext == Send \/ Drop \/ Encode

TinySpec == TinyInit /\ [][TinyNext]_Tinyvars

----------------------------------------------------------------------------
(* When gps_encode says that a sentence is valid, the sentence was sent as *)
(* valid, and every value the sentence has, sign included, is in the fix:  *)
(* no token was lost unnoticed and none slipped into another's place.      *)
FixAsSent ==
  valid => /\ sentenceType \in DOMAIN Layout /\ checked[1] = Sign(sentenceType)
           /\ \E i \in 2..6 : checked[i] \in {Sign("A"), Sign("1")}
           /\ \A i \in 1..5 : LET f == Layout[sentenceType][i]
                              IN f \in Committed /\ checked[i + 1] # Empty =>
                                   fix[f] = <<checked[i + 1],
                                              IF f = "lat" /\ checked[i + 2] = Sign("S") THEN -1 ELSE 1>>
============================================================================

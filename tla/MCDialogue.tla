----------------------------- MODULE MCDialogue -----------------------------
(* Dialogue on a small instance, and PlateNumbers against the numbers themselves. *)
EXTENDS Dialogue, TLC

Cyrillic(glyph, small) == Letter("cyrillic", glyph, small)
Latin(glyph, small) == Letter("latin", glyph, small)
Separator(glyph) == [alphabet |-> "separator", glyph |-> glyph, small |-> FALSE]

\* The numbers of test_validators.py as they are typed, and as they are stored.
TypedRussian ==
  <<Cyrillic("A", TRUE), Digit(7), Digit(7), Digit(7), Separator("blank"), Cyrillic("A", TRUE),
    Cyrillic("A", TRUE), Separator("hyphen"), Digit(7), Digit(7)>>
StoredRussian ==
  LET A == Cyrillic("A", FALSE)
  IN <<A, Digit(7), Digit(7), Digit(7), A, A, Digit(7), Digit(7)>>

TypedKazakh ==
  LET a == Latin("A", TRUE)
  IN <<Digit(7), Digit(7), Digit(7), a, a, a, Digit(0), Digit(1)>>
StoredKazakh ==
  LET A == Latin("A", FALSE)
  IN <<Digit(7), Digit(7), Digit(7), A, A, A, Digit(0), Digit(1)>>

\* Nothing tells one plate from another.
Interchangeable == Permutations(Plate)

\* With them, part of a number and a number with one letter of another alphabet.
MCText ==
  {TypedRussian, SubSeq(TypedRussian, 1, 4), [TypedRussian EXCEPT ![1] = Latin("A", TRUE)],
   TypedKazakh}

\* All the texts of one Russian letter and two digits that are as long as a
\* number, and those of them that are numbers: 0 is no number and the regions
\* are 7, 70, 77 and 777, the first three with or without leading zeros.
Texts ==
  LET chars == {Cyrillic("A", FALSE), Digit(0), Digit(7)}
  IN UNION {[1..k -> chars] : k \in {7, 8, 9}}

Numbers ==
  LET A == Cyrillic("A", FALSE)
      digits == {<<Digit(0), Digit(7)>>, <<Digit(7), Digit(0)>>, <<Digit(7), Digit(7)>>}
      regions == digits \cup {<<Digit(0)>> \o d : d \in digits} \cup {<<Digit(7), Digit(7), Digit(7)>>}
      middles == [1..3 -> {Digit(0), Digit(7)}] \ {<<Digit(0), Digit(0), Digit(0)>>}
  IN {<<A>> \o m \o <<A, A>> \o r : m \in middles, r \in regions}

ASSUME RussianNumbers == {t \in Texts : Validated("RU", t, {}) # Rejected} = Numbers

ASSUME Spellings ==
  /\ Validated("RU", TypedRussian, {}) = StoredRussian
  /\ Validated("KZ", TypedKazakh, {}) = StoredKazakh
  /\ Validated("KZ", TypedKazakh, {SubSeq(StoredKazakh, 4, 6)}) = Rejected
  /\ \A odd \in {"expanding", "foreign"} :
       Validated("KZ", [StoredKazakh EXCEPT ![4] = Letter(odd, "A", TRUE)], {}) = Rejected
  /\ \A country \in Active, t \in MCText :
       LET stored == Validated(country, t, {})
       IN stored # Rejected => Validated(country, stored, {}) = stored

=============================================================================

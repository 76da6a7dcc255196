---------------------------- MODULE PlateNumbers ----------------------------
(***************************************************************************)
(* app/domain/validators.py and countries.py: which texts are numbers, and *)
(* the one spelling under which a number is stored.                        *)
(*                                                                         *)
(* A text is a sequence of characters, and a character is what the         *)
(* validators can tell of it: the alphabet it belongs to, which letter or  *)
(* digit of it, and whether it is a small letter.                          *)
(***************************************************************************)
EXTENDS Integers, Sequences, SequencesExt, FiniteSetsExt

RussianLetters == {"A", "B", "E", "K", "M", "H", "O", "P", "C", "T", "Y", "X"}

LatinLetters ==
  {"A", "B", "C", "D", "E", "F", "G", "H", "I", "J", "K", "L", "M", "N", "O", "P", "Q", "R",
   "S", "T", "U", "V", "W", "X", "Y", "Z"}

\* "expanding": a letter such as the German sharp s, whose capital is two
\* letters.  "foreign": anything else, look-alikes and other digits included.
Alphabet == {"cyrillic", "latin", "digit", "separator", "control", "expanding", "foreign"}

Letter(alphabet, glyph, small) == [alphabet |-> alphabet, glyph |-> glyph, small |-> small]
Digit(d) == [alphabet |-> "digit", value |-> d, small |-> FALSE]

Character ==
  [alphabet : Alphabet \ {"digit"}, glyph : STRING, small : BOOLEAN]
  \cup [alphabet : {"digit"}, value : 0..9, small : {FALSE}]

\* What "Rejected" stands for: the ValidationError.
Rejected == <<>>

-----------------------------------------------------------------------------
(* normalize_plate_input                                                   *)

LongestInput == 64

\* Tabs and line ends are control characters: they are refused before they
\* could be dropped.
Normalizable(text) ==
  /\ Len(text) \in 1..LongestInput
  /\ \A k \in DOMAIN text : text[k].alphabet \notin {"control", "expanding"}

Upper(char) == [char EXCEPT !.small = FALSE]

\* The places of a text that hold no blank and no hyphen, and the n-th of them.
KeptPlaces(text) == {k \in DOMAIN text : text[k].alphabet # "separator"}

Nth(n, places) == CHOOSE k \in places : Cardinality(places \cap 1..k) = n

\* The text without blanks and hyphens, in capitals.
Normalized(text) ==
  LET places == KeptPlaces(text) IN
  IF Normalizable(text)
  THEN [n \in 1..Cardinality(places) |-> Upper(text[Nth(n, places)])]
  ELSE Rejected

\* _assert_exact_alphabet
ExactAlphabet(text, alphabet, letters) ==
  \A k \in DOMAIN text :
    \/ text[k].alphabet = "digit"
    \/ text[k].alphabet = alphabet /\ text[k].glyph \in letters

\* COUNTRIES: those that are active, and their letters.
Active == {"RU", "KZ"}

InAlphabet(country, text) ==
  \/ country = "RU" /\ ExactAlphabet(text, "cyrillic", RussianLetters)
  \/ country = "KZ" /\ ExactAlphabet(text, "latin", LatinLetters)

\* Mutant: what was typed is searched for and offered.
QueryAsTyped(country, text) ==
  IF InAlphabet(country, Normalized(text)) THEN text ELSE Rejected

\* normalize_plate_query: part of a number, for the search.
Query(country, text) ==
  LET value == Normalized(text)
  IN IF InAlphabet(country, value) THEN value ELSE Rejected

-----------------------------------------------------------------------------
(* Formats.  A shape says where the letters and the digits are.            *)

Shape(text) == [k \in DOMAIN text |-> IF text[k].alphabet = "digit" THEN "0" ELSE "A"]

RussianShapes ==
  {<<"A", "0", "0", "0", "A", "A", "0", "0">>, <<"A", "0", "0", "0", "A", "A", "0", "0", "0">>}

KazakhShapes ==
  {<<"0", "0", "0", "A", "A", "A", "0", "0">>, <<"0", "0", "0", "A", "A", "0", "0">>}

\* int() of a string of digits.
NumberOf(digits) == FoldLeft(LAMBDA n, char : 10 * n + char.value, 0, digits)

RussianRegions ==
  1..99 \cup {102, 116, 121, 123, 124, 125, 126, 134, 136, 138, 142, 147, 150, 152, 154, 156,
              159, 161, 163, 164, 169, 173, 174, 177, 178, 180, 181, 184, 186, 190, 193, 196,
              197, 198, 199, 702, 716, 717, 750, 761, 763, 777, 790, 797, 799}

\* validate_russian_plate, of a normalized text.
IsRussianPlate(text) ==
  /\ Shape(text) \in RussianShapes
  /\ NumberOf(SubSeq(text, 2, 4)) # 0
  /\ NumberOf(SubSeq(text, 7, Len(text))) \in RussianRegions

\* validate_kazakhstan_plate, of a normalized text; series are in capitals.
IsKazakhPlate(text, blacklist) ==
  /\ Shape(text) \in KazakhShapes
  /\ NumberOf(SubSeq(text, Len(text) - 1, Len(text))) \in 1..20
  /\ SubSeq(text, 4, Len(text) - 2) \notin blacklist

\* validate_plate: the number under its one spelling.
Validated(country, text, blacklist) ==
  LET value == Normalized(text) IN
  IF /\ InAlphabet(country, value)
     /\ country = "RU" => IsRussianPlate(value)
     /\ country = "KZ" => IsKazakhPlate(value, blacklist)
  THEN value ELSE Rejected

=============================================================================

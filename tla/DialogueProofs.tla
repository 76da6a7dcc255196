--------------------------- MODULE DialogueProofs ---------------------------
(***************************************************************************)
(* Proofs about Dialogue: what the user types goes where the bot asked for *)
(* it, what he confirms is what he typed, and what he is offered is what   *)
(* the purchase will reserve, wherever a handler breaks off.  For any      *)
(* plates, auctions, texts, prices and durations and for a stack of any    *)
(* depth.                                                                  *)
(***************************************************************************)
EXTENDS Dialogue, SequenceTheorems, FiniteSetTheorems, TLAPS

-----------------------------------------------------------------------------
(* The inductive invariant.  It is stated of a conversation, because it    *)
(* holds of every conversation a handler goes through.                     *)

IsRecord(r, fields) == r = [f \in fields |-> r[f]]

IsChat(c) ==
  /\ IsRecord(c, {"form", "data", "stack", "last", "card", "asked", "typed", "cut", "listed"})
  /\ IsRecord(c.card, {"buttons", "terms"})
  /\ IsRecord(c.asked, {"form", "item", "answered"})
  /\ c.form \in Form \cup {None} /\ c.asked.form \in Form \cup {None}
  /\ c.cut \in BOOLEAN

\* A query on the stack is spelled as it will be stored.
IsScreen(s) == Head(s) = "SEARCH_RESULTS" => Normalized(s[3]) = s[3]

StackSound(c) ==
  /\ c.stack \in Seq(Range(c.stack))
  /\ Len(c.stack) \in 1..Depth
  /\ c.last = Last(c.stack)
  /\ \A k \in DOMAIN c.stack : IsScreen(c.stack[k])

\* FormMatchesQuestion, of any conversation.
FormMatches(c) ==
  c.form # None /\ ~c.cut =>
    /\ c.form = c.asked.form
    /\ ~c.asked.answered
    /\ c.form \notin PlainForm =>
         /\ ItemKey[c.form] \in DOMAIN c.data
         /\ c.data[ItemKey[c.form]] = Last(c.asked.item)

TermKey == {"price", "start_price", "duration"}

TermsOf(data) == [k \in DOMAIN data \cap TermKey |-> data[k]]

IsDictionary(data) ==
  data = [k \in DOMAIN data |-> data[k]] /\ DOMAIN data \subseteq Key

\* The entries the dictionary of a listing may have.
ListingKeys ==
  [SALE_PRICE |-> {"plate_id", "price"}, AUCTION_START_PRICE |-> {"plate_id"},
   AUCTION_DURATION |-> {"plate_id", "start_price", "duration"}]

\* What was typed is what the dictionary says, unless a handler broke off.
DataSound(c) ==
  /\ IsDictionary(c.data) /\ IsDictionary(c.typed)
  /\ c.form = None => c.data = NoData
  /\ c.form \notin DOMAIN ListingKeys => c.typed = NoData
  /\ ~c.cut => c.typed = TermsOf(c.data)
  /\ c.form \in DOMAIN ListingKeys /\ ~c.cut => DOMAIN c.data \subseteq ListingKeys[c.form]

\* The buttons that confirm a listing, and the forms they end.
ConfirmedForm(kind) == IF kind = "sale:confirm" THEN "SALE_PRICE" ELSE "AUCTION_DURATION"

Confirms == {"sale:confirm", "auction:confirm"}

IsPlain(buttons) ==
  \A b \in buttons :
    /\ Head(b) \notin Confirms
    /\ Head(b) = "state:buy" => Validated(b[2], b[3], {}) = b[3]

\* A card with a button that confirms has the button of the open form and of
\* its plate, unless the form is gone.
IsConfirmation(c) ==
  \E kind \in Confirms : \E p :
    /\ c.card.buttons = {<<kind, p>>, <<"plate:view", p>>}
    /\ \/ c.form = None
       \/ /\ c.form = ConfirmedForm(kind)
          /\ "plate_id" \in DOMAIN c.data /\ c.data["plate_id"] = p

CardSound(c) == IsPlain(c.card.buttons) \/ IsConfirmation(c)

Sound(c) == IsChat(c) /\ StackSound(c) /\ FormMatches(c) /\ DataSound(c) /\ CardSound(c)

\* Where a handler ends that does not break off.
Settled(c) ==
  /\ ~c.cut
  /\ IsPlain(c.card.buttons) \/ c.form = None \/ c.card.terms = c.typed

Inv == Sound(chat) /\ breaks \in 0..MaxBreaks /\ (breaks = 0 => Settled(chat))

-----------------------------------------------------------------------------
(* Tables, forms and dictionaries                                          *)

LEMMA TableRow ==
  ASSUME NEW rows, NEW key \in DOMAIN Table(rows)
  PROVE  \E r \in rows : r[1] = key /\ Table(rows)[key] = r[2]
<1>1. PICK s \in rows : s[1] = key
  BY DEF Table
<1>2. \E r \in rows : r[1] = key
  BY <1>1
<1> DEFINE row == CHOOSE r \in rows : r[1] = key
<1>3. row \in rows /\ row[1] = key
  BY <1>2
<1>4. Table(rows)[key] = row[2]
  BY DEF Table
<1> QED BY <1>3, <1>4

LEMMA FormTypes ==
  /\ DOMAIN ItemKey \subseteq Form /\ PlainForm \subseteq Form
  /\ \A f \in DOMAIN ItemKey : ItemKey[f] \in Key \ TermKey
  /\ DOMAIN ItemKey \cap PlainForm = {}
  /\ \A f \in Form : f \in PlainForm \/ f \in DOMAIN ItemKey
  /\ None \notin Form
BY NoneIsNoForm DEF Form, Key, ItemKey, PlainForm, TermKey

LEMMA FormKeys ==
  /\ DOMAIN ItemKey =
       {"SEARCH_QUERY", "SALE_PRICE", "AUCTION_START_PRICE", "AUCTION_DURATION", "BID_AMOUNT",
        "ADMIN_BALANCE", "ADMIN_BLOCK_REASON", "ADMIN_TRANSFER", "ADMIN_CARD_IMAGE",
        "ADMIN_BANNER_IMAGE"}
  /\ DOMAIN ListingKeys = {"SALE_PRICE", "AUCTION_START_PRICE", "AUCTION_DURATION"}
  /\ \A f \in DOMAIN ListingKeys :
       f \in DOMAIN ItemKey /\ ItemKey[f] = "plate_id" /\ "plate_id" \in ListingKeys[f]
  /\ TermKey \subseteq Key
BY DEF ItemKey, ListingKeys, Key, TermKey

LEMMA NoDataIsEmpty ==
  /\ IsDictionary(NoData) /\ DOMAIN NoData = {}
  /\ TermsOf(NoData) = NoData
BY DEF IsDictionary, NoData, TermsOf

LEMMA WithEntry ==
  ASSUME NEW d, IsDictionary(d), NEW k \in Key, NEW v
  PROVE  /\ IsDictionary(With(d, k, v))
         /\ DOMAIN With(d, k, v) = DOMAIN d \cup {k}
         /\ With(d, k, v)[k] = v
         /\ \A j \in DOMAIN d \ {k} : With(d, k, v)[j] = d[j]
BY DEF IsDictionary, With

LEMMA WithTerm ==
  ASSUME NEW d, IsDictionary(d), NEW k \in TermKey, NEW v
  PROVE  TermsOf(With(d, k, v)) = With(TermsOf(d), k, v)
<1>1. DOMAIN TermsOf(With(d, k, v)) = DOMAIN With(TermsOf(d), k, v)
  BY DEF TermsOf, With
<1>2. \A j \in DOMAIN With(TermsOf(d), k, v) :
        TermsOf(With(d, k, v))[j] = With(TermsOf(d), k, v)[j]
  BY DEF TermsOf, With
<1> QED BY <1>1, <1>2 DEF TermsOf, With

LEMMA TermsAreDictionary ==
  ASSUME NEW d, IsDictionary(d) PROVE IsDictionary(TermsOf(d))
BY DEF IsDictionary, TermsOf

LEMMA DataOfForm ==
  ASSUME NEW f \in Form, NEW item
  PROVE  /\ IsDictionary(DataOf(f, item)) /\ TermsOf(DataOf(f, item)) = NoData
         /\ f \in DOMAIN ItemKey => /\ DOMAIN DataOf(f, item) = {ItemKey[f]}
                                    /\ DataOf(f, item)[ItemKey[f]] = Last(item)
<1>1. CASE f \in PlainForm
  BY <1>1, FormTypes, NoDataIsEmpty DEF DataOf
<1>2. CASE f \notin PlainForm
  <2>1. f \in DOMAIN ItemKey /\ ItemKey[f] \in Key /\ ItemKey[f] \notin TermKey
    BY <1>2, FormTypes
  <2>2. DataOf(f, item) = [k \in {ItemKey[f]} |-> Last(item)]
    BY <1>2 DEF DataOf, Entry
  <2>3. TermsOf(DataOf(f, item)) = NoData
    BY <2>1, <2>2 DEF TermsOf, NoData
  <2> QED BY <2>1, <2>2, <2>3 DEF IsDictionary
<1> QED BY <1>1, <1>2

-----------------------------------------------------------------------------
(* Numbers                                                                 *)

LEMMA NthOfInterval ==
  ASSUME NEW n \in Nat, NEW k \in 1..n
  PROVE  Nth(k, 1..n) = k
<1>1. \A j \in 1..n : Cardinality((1..n) \cap 1..j) = j
  <2> TAKE j \in 1..n
  <2>1. (1..n) \cap 1..j = 1..j
    OBVIOUS
  <2>2. Cardinality(1..j) = j
    <3>1. j \in Nat /\ j >= 1
      OBVIOUS
    <3>2. Cardinality(1..j) = IF 1 > j THEN 0 ELSE j - 1 + 1
      BY <3>1, FS_Interval
    <3> QED BY <3>1, <3>2
  <2> QED BY <2>1, <2>2
<1> QED BY <1>1 DEF Nth

\* A text has at most as many kept places as places.
LEMMA KeptPlacesAreFew ==
  ASSUME NEW text \in Seq(Character)
  PROVE  Cardinality(KeptPlaces(text)) \in 0..Len(text)
<1>1. Len(text) \in Nat /\ DOMAIN text = 1..Len(text)
  BY LenProperties
<1>2. IsFiniteSet(1..Len(text)) /\ Cardinality(1..Len(text)) = Len(text)
  BY <1>1, FS_Interval
<1>3. KeptPlaces(text) \subseteq 1..Len(text)
  BY <1>1 DEF KeptPlaces
<1>4. /\ IsFiniteSet(KeptPlaces(text))
      /\ Cardinality(KeptPlaces(text)) <= Cardinality(1..Len(text))
  BY <1>2, <1>3, FS_Subset
<1> QED BY <1>1, <1>2, <1>4, FS_CardinalityType

\* A text that normalize_plate_query accepts, or validate_plate, is its own
\* spelling after that: what is stored is found again and not changed.
LEMMA NormalizedIsNormal ==
  ASSUME NEW text \in Seq(Character), NEW country,
         InAlphabet(country, Normalized(text)), Normalized(text) # Rejected
  PROVE  Normalized(Normalized(text)) = Normalized(text)
<1> DEFINE n == Cardinality(KeptPlaces(text))
           char(k) == text[Nth(k, KeptPlaces(text))]
<1>1. Normalizable(text) /\ Normalized(text) = [k \in 1..n |-> Upper(char(k))]
  BY DEF Normalized
<1>2. Len(text) \in Nat /\ Len(text) <= 64
  <2>1. Len(text) \in 1..LongestInput
    BY <1>1 DEF Normalizable
  <2>2. \A m \in 1..LongestInput : m \in Nat /\ m <= 64
    BY DEF LongestInput
  <2> QED BY <2>1, <2>2
<1>3. n \in Nat /\ n <= 64
  <2>1. n \in 0..Len(text)
    BY KeptPlacesAreFew
  <2> QED BY <1>2, <2>1
<1> HIDE DEF n, char
<1> DEFINE value == [k \in 1..n |-> Upper(char(k))]
<1>4. DOMAIN value = 1..n /\ Len(value) = n /\ \A k \in 1..n : value[k] = Upper(char(k))
  BY <1>3
<1>5. Normalized(text) = value
  BY <1>1
<1> HIDE DEF value
<1>6. n # 0
  BY <1>1, <1>3 DEF Rejected
<1>7. \A k \in 1..n : value[k].alphabet \in {"digit", "cyrillic", "latin"}
  BY <1>4, <1>5 DEF InAlphabet, ExactAlphabet
<1>8. Normalizable(value)
  <2>1. n \in 1..LongestInput
    <3>1. \A m \in Nat : m # 0 /\ m <= 64 => m \in 1..LongestInput
      BY DEF LongestInput
    <3> QED BY <1>3, <1>6, <3>1
  <2>2. \A k \in DOMAIN value : value[k].alphabet \notin {"control", "expanding"}
    BY <1>4, <1>7
  <2> QED BY <1>4, <2>1, <2>2 DEF Normalizable
<1>9. KeptPlaces(value) = 1..n
  BY <1>4, <1>7 DEF KeptPlaces
<1>10. Cardinality(1..n) = n
  <2>1. Cardinality(1..n) = IF 1 > n THEN 0 ELSE n - 1 + 1
    BY <1>3, FS_Interval
  <2> QED BY <1>3, <1>6, <2>1
<1>11. \A k \in 1..n : Upper(value[Nth(k, 1..n)]) = value[k]
  <2> TAKE k \in 1..n
  <2>1. Nth(k, 1..n) = k
    BY <1>3, NthOfInterval
  <2>2. Upper(Upper(char(k))) = Upper(char(k))
    BY DEF Upper
  <2> QED BY <1>4, <2>1, <2>2
<1>12. Normalized(value) = [k \in 1..n |-> Upper(value[Nth(k, 1..n)])]
  BY <1>8, <1>9, <1>10 DEF Normalized
<1>13. Normalized(value) = [k \in 1..n |-> value[k]]
  BY <1>11, <1>12
<1>14. value = [k \in 1..n |-> value[k]]
  BY DEF value
<1> QED BY <1>5, <1>13, <1>14

LEMMA QueryIsNormal ==
  ASSUME NEW text \in Text, NEW country, Query(country, text) # Rejected
  PROVE  Normalized(Query(country, text)) = Query(country, text)
BY NormalizedIsNormal, TextsAreTexts DEF Query

-----------------------------------------------------------------------------
(* Stacks                                                                  *)

LEMMA SeqOfItsRange ==
  ASSUME NEW S, NEW s \in Seq(S)
  PROVE  s \in Seq(Range(s))
<1>1. Len(s) \in Nat /\ s \in [1..Len(s) -> S] /\ DOMAIN s = 1..Len(s)
  BY LenProperties
<1>2. s \in [1..Len(s) -> Range(s)]
  BY <1>1 DEF Range
<1> QED BY <1>1, <1>2, SeqDef

IsStack(s) ==
  s \in Seq(Range(s)) /\ Len(s) \in 1..Depth /\ \A k \in DOMAIN s : IsScreen(s[k])

LEMMA PushedIsStack ==
  ASSUME NEW s, IsStack(s), NEW screen, IsScreen(screen)
  PROVE  IsStack(Pushed(s, screen)) /\ Last(Pushed(s, screen)) = screen
<1> DEFINE S == Range(s) \cup {screen}
           full == IF Last(s) = screen THEN s ELSE Append(s, screen)
           first == Max({1, Len(full) - Depth + 1})
<1>1. s \in Seq(S) /\ Len(s) \in 1..Depth /\ DOMAIN s = 1..Len(s)
  BY SeqMonotonic, LenProperties DEF IsStack
<1>2. /\ full \in Seq(S) /\ Len(full) \in 1..Depth + 1 /\ full[Len(full)] = screen
      /\ \A k \in 1..Len(full) : IsScreen(full[k])
  <2>1. CASE Last(s) = screen
    BY <1>1, <2>1, StackHasRoom DEF Last, IsStack
  <2>2. CASE Last(s) # screen
    <3>1. /\ full \in Seq(S) /\ Len(full) = Len(s) + 1 /\ full[Len(s) + 1] = screen
          /\ \A k \in 1..Len(s) : full[k] = s[k]
      BY <1>1, <2>2, AppendProperties
    <3> QED BY <1>1, <3>1, StackHasRoom DEF IsStack
  <2> QED BY <2>1, <2>2
<1>3. first \in {1, Len(full) - Depth + 1} /\ first >= 1 /\ first >= Len(full) - Depth + 1
  <2> DEFINE pair == {1, Len(full) - Depth + 1}
  <2>1. \E x \in pair : \A y \in pair : x >= y
    BY <1>2, StackHasRoom
  <2> QED BY <2>1 DEF Max
<1> HIDE DEF first, full
<1>4. Len(full) \in Nat /\ first \in 1..Len(full)
  BY <1>2, <1>3, StackHasRoom
<1> DEFINE cut == SubSeq(full, first, Len(full))
<1>5. \A i \in first..Len(full) : full[i] \in S
  BY <1>2, <1>4, ElementOfSeq
<1>6. /\ cut \in Seq(S) /\ Len(cut) = Len(full) - first + 1
      /\ \A i \in 1..Len(full) - first + 1 : cut[i] = full[first + i - 1]
  BY <1>4, <1>5, SubSeqProperties
<1>7. Len(cut) \in 1..Depth
  BY <1>2, <1>3, <1>4, <1>6, StackHasRoom
<1>8. \A k \in 1..Len(cut) : IsScreen(cut[k])
  <2> TAKE k \in 1..Len(cut)
  <2>1. cut[k] = full[first + k - 1] /\ first + k - 1 \in 1..Len(full)
    BY <1>4, <1>6
  <2> QED BY <1>2, <2>1
<1>9. cut[Len(cut)] = screen
  BY <1>2, <1>4, <1>6
<1>10. cut \in Seq(Range(cut)) /\ DOMAIN cut = 1..Len(cut)
  BY <1>6, SeqOfItsRange, LenProperties
<1>11. Pushed(s, screen) = cut
  BY DEF Pushed, full, first
<1> QED BY <1>7, <1>8, <1>9, <1>10, <1>11 DEF IsStack, Last

LEMMA FrontIsStack ==
  ASSUME NEW s, IsStack(s), Len(s) > 1
  PROVE  IsStack(Front(s))
<1>1. Len(s) \in 1..Depth /\ DOMAIN s = 1..Len(s)
  BY LenProperties DEF IsStack
<1>2. \A i \in 1..Len(s) - 1 : s[i] \in Range(s)
  BY <1>1, ElementOfSeq DEF IsStack
<1>3. /\ Front(s) \in Seq(Range(s)) /\ Len(Front(s)) = Len(s) - 1
      /\ \A i \in 1..Len(s) - 1 : Front(s)[i] = s[i]
  BY <1>1, <1>2, SubSeqProperties, StackHasRoom DEF Front
<1>4. Front(s) \in Seq(Range(Front(s))) /\ DOMAIN Front(s) = 1..Len(s) - 1
  BY <1>3, SeqOfItsRange, LenProperties
<1>5. Len(Front(s)) \in 1..Depth
  <2>1. \A m \in 1..Depth : m > 1 => m - 1 \in 1..Depth
    BY StackHasRoom
  <2> QED BY <1>1, <1>3, <2>1
<1>6. \A i \in 1..Len(s) - 1 : i \in DOMAIN s
  BY <1>1, StackHasRoom
<1>7. \A i \in DOMAIN Front(s) : IsScreen(Front(s)[i])
  BY <1>3, <1>4, <1>6 DEF IsStack
<1> QED BY <1>4, <1>5, <1>7 DEF IsStack

LEMMA PoppedIsStack ==
  ASSUME NEW s, IsStack(s) PROVE IsStack(Popped(s))
BY FrontIsStack DEF Popped

LEMMA ReplacedIsStack ==
  ASSUME NEW s, IsStack(s), NEW screen, IsScreen(screen)
  PROVE  IsStack(Replaced(s, screen)) /\ Last(Replaced(s, screen)) = screen
<1> DEFINE S == Range(s) \cup {screen}
<1>1. s \in Seq(S) /\ Len(s) \in 1..Depth /\ DOMAIN s = 1..Len(s)
  BY SeqMonotonic, LenProperties DEF IsStack
<1>2. \A i \in 1..Len(s) - 1 : s[i] \in S
  BY <1>1, ElementOfSeq
<1>3. /\ screen \in S /\ Front(s) \in Seq(S) /\ Len(Front(s)) = Len(s) - 1
      /\ \A i \in 1..Len(s) - 1 : Front(s)[i] = s[i]
  BY <1>1, <1>2, SubSeqProperties, StackHasRoom DEF Front
<1> DEFINE new == Append(Front(s), screen)
<1> HIDE DEF S
<1>4. /\ new \in Seq(S) /\ Len(new) = Len(s) /\ new[Len(s)] = screen
      /\ \A k \in 1..Len(s) - 1 : new[k] = s[k]
  <2>1. Len(s) - 1 + 1 = Len(s)
    BY <1>1, StackHasRoom
  <2>2. /\ new \in Seq(S) /\ Len(new) = Len(Front(s)) + 1 /\ new[Len(Front(s)) + 1] = screen
        /\ \A k \in 1..Len(Front(s)) : new[k] = Front(s)[k]
    BY <1>3, AppendProperties
  <2>3. Len(new) = Len(s) /\ new[Len(s)] = screen
    BY <1>3, <2>1, <2>2
  <2>4. \A k \in 1..Len(s) - 1 : new[k] = s[k]
    BY <1>3, <2>2
  <2> QED BY <2>2, <2>3, <2>4
<1>5. new \in Seq(Range(new)) /\ DOMAIN new = 1..Len(s)
  BY <1>4, SeqOfItsRange, LenProperties
<1>6. \A k \in 1..Len(s) : IsScreen(new[k])
  BY <1>1, <1>4, StackHasRoom DEF IsStack
<1>7. Replaced(s, screen) = new
  BY DEF Replaced
<1> HIDE DEF new
<1>8. Last(new) = screen
  BY <1>4 DEF Last
<1>9. IsStack(new)
  BY <1>1, <1>4, <1>5, <1>6 DEF IsStack
<1> QED BY <1>7, <1>8, <1>9

LEMMA HomeIsStack == IsStack(<<Home>>) /\ Last(<<Home>>) = Home
<1>1. <<Home>> \in Seq({Home}) /\ Len(<<Home>>) = 1 /\ <<Home>>[1] = Home
  OBVIOUS
<1>2. <<Home>> \in Seq(Range(<<Home>>)) /\ DOMAIN <<Home>> = 1..1
  BY <1>1, SeqOfItsRange, LenProperties
<1>3. IsScreen(Home)
  BY DEF IsScreen, Home
<1> QED BY <1>1, <1>2, <1>3, StackHasRoom DEF IsStack, Last

LEMMA TopIsScreen ==
  ASSUME NEW s, IsStack(s) PROVE IsScreen(Last(s))
<1>1. Len(s) \in 1..Depth /\ DOMAIN s = 1..Len(s)
  BY LenProperties DEF IsStack
<1> QED BY <1>1, StackHasRoom DEF IsStack, Last

LEMMA StackOfSound ==
  ASSUME NEW c
  PROVE  StackSound(c) <=> IsStack(c.stack) /\ c.last = Last(c.stack)
BY DEF StackSound, IsStack

-----------------------------------------------------------------------------
(* Cards                                                                   *)

\* A button that neither confirms nor offers anything.
IsHarmless(b) == Head(b) \notin Confirms \cup {"state:buy"}

LEMMA HarmlessIsPlain ==
  ASSUME NEW B, \A b \in B : IsHarmless(b) PROVE IsPlain(B)
BY DEF IsHarmless, IsPlain

LEMMA HarmlessSets ==
  /\ \A kinds : kinds \cap (Confirms \cup {"state:buy"}) = {} =>
       \A b \in Alone(kinds) : IsHarmless(b)
  /\ \A kind, S : kind \notin Confirms \cup {"state:buy"} => \A b \in Each(kind, S) : IsHarmless(b)
  /\ \A b \in BackHome : IsHarmless(b)
BY DEF Alone, Each, BackHome, IsHarmless, Confirms

LEMMA PlayerButtonsAreHarmless ==
  ASSUME NEW B \in HomeButtons \cup SearchButtons \cup MarketButtons \cup PlateListButtons
                   \cup AuctionListButtons \cup BalanceButtons \cup BalanceHistoryButtons
  PROVE  \A b \in B : IsHarmless(b)
<1>1. CASE B \in HomeButtons
  BY <1>1, HarmlessSets DEF HomeButtons, Confirms
<1>2. CASE B \in SearchButtons
  BY <1>2, HarmlessSets DEF SearchButtons, Confirms
<1>3. CASE B \in MarketButtons
  BY <1>3, HarmlessSets DEF MarketButtons, Confirms
<1>4. CASE B \in PlateListButtons
  BY <1>4, HarmlessSets DEF PlateListButtons, Confirms
<1>5. CASE B \in AuctionListButtons
  BY <1>5, HarmlessSets DEF AuctionListButtons, Confirms
<1>6. CASE B \in BalanceButtons
  BY <1>6, HarmlessSets DEF BalanceButtons, Confirms
<1>7. CASE B \in BalanceHistoryButtons
  BY <1>7, HarmlessSets DEF BalanceHistoryButtons, Confirms
<1> QED BY <1>1, <1>2, <1>3, <1>4, <1>5, <1>6, <1>7

LEMMA AdminButtonsAreHarmless ==
  ASSUME NEW B \in AdminHomeButtons \cup UserListButtons \cup BlacklistButtons
                   \cup SettingsButtons \cup CardsButtons \cup BannersButtons
                   \cup AdminPlatesButtons \cup AdminAuctionsButtons \cup FinanceButtons
  PROVE  \A b \in B : IsHarmless(b)
<1>1. CASE B \in AdminHomeButtons
  BY <1>1, HarmlessSets DEF AdminHomeButtons, Confirms
<1>2. CASE B \in UserListButtons
  BY <1>2, HarmlessSets DEF UserListButtons, Confirms
<1>3. CASE B \in BlacklistButtons
  BY <1>3, HarmlessSets DEF BlacklistButtons, Confirms
<1>4. CASE B \in SettingsButtons
  BY <1>4, HarmlessSets DEF SettingsButtons, Confirms
<1>5. CASE B \in CardsButtons
  BY <1>5, HarmlessSets DEF CardsButtons, Confirms
<1>6. CASE B \in BannersButtons
  BY <1>6, HarmlessSets DEF BannersButtons, Confirms
<1>7. CASE B \in AdminPlatesButtons
  BY <1>7, HarmlessSets DEF AdminPlatesButtons, Confirms
<1>8. CASE B \in AdminAuctionsButtons
  BY <1>8, HarmlessSets DEF AdminAuctionsButtons, Confirms
<1>9. CASE B \in FinanceButtons
  BY <1>9, HarmlessSets DEF FinanceButtons, Confirms
<1> QED BY <1>1, <1>2, <1>3, <1>4, <1>5, <1>6, <1>7, <1>8, <1>9

LEMMA RowButtonsAreHarmless ==
  ASSUME NEW x,
         NEW B \in PlateButtons(x) \cup AuctionButtons(x) \cup AuctionHistoryButtons(x)
                   \cup UserButtons(x) \cup AdminPlateButtons(x) \cup AdminAuctionButtons(x)
  PROVE  \A b \in B : IsHarmless(b)
<1>1. CASE B \in PlateButtons(x)
  BY <1>1, HarmlessSets DEF PlateButtons, IsHarmless, Confirms
<1>2. CASE B \in AuctionButtons(x)
  BY <1>2, HarmlessSets DEF AuctionButtons, IsHarmless, Confirms
<1>3. CASE B \in AuctionHistoryButtons(x) \cup UserButtons(x)
  BY <1>3 DEF AuctionHistoryButtons, UserButtons, IsHarmless, Confirms
<1>4. CASE B \in AdminPlateButtons(x) \cup AdminAuctionButtons(x)
  BY <1>4 DEF AdminPlateButtons, AdminAuctionButtons, IsHarmless, Confirms
<1> QED BY <1>1, <1>2, <1>3, <1>4

\* The one screen with an offer shows it as it will be stored.
LEMMA ResultsArePlain ==
  ASSUME NEW country, NEW query, Normalized(query) = query,
         NEW B \in ResultButtons(country, query)
  PROVE  IsPlain(B)
<1> DEFINE offer == <<"state:buy", country, query>>
           offers == IF Validated(country, query, {}) = Rejected THEN {{}} ELSE {{}, {offer}}
<1>1. PICK found \in {{}, Each("plate:view", Plate)}, shown \in offers :
        B = found \cup shown \cup BackHome
  BY DEF ResultButtons
<1>2. \A b \in found \cup BackHome : IsHarmless(b)
  BY HarmlessSets DEF Confirms
<1>3. \A b \in shown : b = offer /\ Validated(country, query, {}) # Rejected
  OBVIOUS
<1>4. Validated(country, query, {}) # Rejected => Validated(country, query, {}) = query
  BY DEF Validated
<1>5. Head(offer) = "state:buy" /\ offer[2] = country /\ offer[3] = query
  OBVIOUS
<1> HIDE DEF offer
<1> QED BY <1>1, <1>2, <1>3, <1>4, <1>5 DEF IsPlain, IsHarmless, Confirms

LEMMA ButtonsArePlain ==
  ASSUME NEW screen, IsScreen(screen), NEW B \in Buttons(screen)
  PROVE  IsPlain(B)
<1>1. CASE Head(screen) = "SEARCH_RESULTS"
  <2>1. B \in ResultButtons(screen[2], screen[3])
    BY <1>1 DEF Buttons
  <2> QED BY <1>1, <2>1, ResultsArePlain DEF IsScreen
<1>2. CASE Head(screen) # "SEARCH_RESULTS"
  <2>1. \/ B \in HomeButtons \cup SearchButtons \cup MarketButtons \cup PlateListButtons
                 \cup AuctionListButtons \cup BalanceButtons
        \/ B \in AdminHomeButtons \cup UserListButtons \cup BlacklistButtons
                 \cup SettingsButtons \cup CardsButtons
                 \cup AdminPlatesButtons \cup AdminAuctionsButtons \cup FinanceButtons
        \/ B \in PlateButtons(screen[2]) \cup AuctionButtons(screen[2])
                 \cup AuctionHistoryButtons(screen[2]) \cup UserButtons(screen[2])
                 \cup AdminPlateButtons(screen[2]) \cup AdminAuctionButtons(screen[2])
        \/ B = BackHome
    BY <1>2 DEF Buttons
  <2>2. \A b \in B : IsHarmless(b)
    BY <2>1, PlayerButtonsAreHarmless, AdminButtonsAreHarmless, RowButtonsAreHarmless,
       HarmlessSets
  <2> QED BY <2>2, HarmlessIsPlain
<1> QED BY <1>1, <1>2

\* A card that is neither a confirmation nor offers what is not buyable.
PlainCard(card) ==
  IsRecord(card, {"buttons", "terms"}) /\ IsPlain(card.buttons)

LEMMA CardsArePlain ==
  ASSUME NEW S, \A B \in S : IsPlain(B), NEW card \in Cards(S)
  PROVE  PlainCard(card)
BY DEF Cards, Card, PlainCard, IsRecord

LEMMA ScreenCards ==
  ASSUME NEW screen, IsScreen(screen)
  PROVE  /\ \A card \in Cards(Buttons(screen)) : PlainCard(card)
         /\ \A card \in Cards(Restored(screen)) : PlainCard(card)
<1>1. \A B \in HomeButtons : IsPlain(B)
  BY PlayerButtonsAreHarmless, HarmlessIsPlain
<1>2. \A B \in Buttons(screen) \cup Restored(screen) : IsPlain(B)
  BY <1>1, ButtonsArePlain DEF Restored
<1> QED BY <1>2, CardsArePlain

LEMMA FixedCards ==
  /\ \A card \in Cards(HomeButtons) \cup Cards(BalanceButtons) \cup Cards(BalanceHistoryButtons) :
       PlainCard(card)
  /\ \A card \in Cards(AdminHomeButtons) \cup Cards(BannersButtons) \cup Cards(BlacklistButtons) :
       PlainCard(card)
<1>1. \A B \in HomeButtons \cup BalanceButtons \cup BalanceHistoryButtons : IsPlain(B)
  BY PlayerButtonsAreHarmless, HarmlessIsPlain
<1>2. \A B \in AdminHomeButtons \cup BannersButtons \cup BlacklistButtons : IsPlain(B)
  BY AdminButtonsAreHarmless, HarmlessIsPlain
<1> QED BY <1>1, <1>2, CardsArePlain

-----------------------------------------------------------------------------
(* What handlers are made of keeps a conversation sound                    *)

SameQuestion(c, d) ==
  /\ d.form = c.form /\ d.data = c.data /\ d.asked = c.asked /\ d.typed = c.typed /\ d.cut = c.cut

SameStack(c, d) == d.stack = c.stack /\ d.last = c.last

LEMMA QuestionStaysSound ==
  ASSUME NEW c, Sound(c), NEW d, SameQuestion(c, d)
  PROVE  /\ FormMatches(d) /\ DataSound(d)
         /\ d.card = c.card => CardSound(d)
<1>1. FormMatches(d)
  BY DEF FormMatches, SameQuestion, Sound
<1>2. DataSound(d)
  BY DEF DataSound, SameQuestion, Sound
<1>3. ASSUME d.card = c.card PROVE CardSound(d)
  BY <1>3 DEF CardSound, IsConfirmation, SameQuestion, Sound
<1> QED BY <1>1, <1>2, <1>3

LEMMA ShownSound ==
  ASSUME NEW c, Sound(c), NEW card, PlainCard(card)
  PROVE  LET d == Shown(c, card)
         IN Sound(d) /\ SameQuestion(c, d) /\ SameStack(c, d) /\ d.card = card /\ d.listed = c.listed
<1> DEFINE d == Shown(c, card)
<1>1. /\ IsChat(d) /\ SameQuestion(c, d) /\ SameStack(c, d)
      /\ d.card = card /\ d.listed = c.listed
  BY DEF Sound, IsChat, IsRecord, Shown, SameQuestion, SameStack, PlainCard
<1>2. StackSound(d)
  BY <1>1 DEF StackSound, SameStack, Sound
<1>3. CardSound(d)
  BY <1>1 DEF CardSound, PlainCard
<1> QED BY <1>1, <1>2, <1>3, QuestionStaysSound DEF Sound

\* A handler that writes the stack.
LEMMA StackWritten ==
  ASSUME NEW c, Sound(c), NEW d, IsChat(d), SameQuestion(c, d), d.card = c.card,
         IsStack(d.stack), d.last = Last(d.stack)
  PROVE  Sound(d)
<1>1. StackSound(d)
  BY DEF StackSound, IsStack
<1> QED BY <1>1, QuestionStaysSound DEF Sound

LEMMA PushesSound ==
  ASSUME NEW c, Sound(c), NEW screen, IsScreen(screen)
  PROVE  LET d == Pushes(c, screen)
         IN Sound(d) /\ SameQuestion(c, d) /\ d.card = c.card /\ d.listed = c.listed
<1> DEFINE d == Pushes(c, screen)
<1>1. IsStack(Pushed(c.stack, screen)) /\ Last(Pushed(c.stack, screen)) = screen
  BY StackOfSound, PushedIsStack DEF Sound
<1>2. /\ IsChat(d) /\ SameQuestion(c, d) /\ d.card = c.card /\ d.listed = c.listed
      /\ d.stack = Pushed(c.stack, screen) /\ d.last = screen
  BY DEF Sound, IsChat, IsRecord, Pushes, SameQuestion
<1> HIDE DEF d
<1>3. Sound(d)
  BY <1>1, <1>2, StackWritten
<1> QED BY <1>2, <1>3 DEF d

LEMMA ReplacesSound ==
  ASSUME NEW c, Sound(c), NEW screen, IsScreen(screen)
  PROVE  LET d == Replaces(c, screen)
         IN Sound(d) /\ SameQuestion(c, d) /\ d.card = c.card /\ d.listed = c.listed
<1> DEFINE d == Replaces(c, screen)
<1>1. IsStack(Replaced(c.stack, screen)) /\ Last(Replaced(c.stack, screen)) = screen
  BY StackOfSound, ReplacedIsStack DEF Sound
<1>2. /\ IsChat(d) /\ SameQuestion(c, d) /\ d.card = c.card /\ d.listed = c.listed
      /\ d.stack = Replaced(c.stack, screen) /\ d.last = screen
  BY DEF Sound, IsChat, IsRecord, Replaces, SameQuestion
<1> HIDE DEF d
<1>3. Sound(d)
  BY <1>1, <1>2, StackWritten
<1> QED BY <1>2, <1>3 DEF d

LEMMA GoesBackSound ==
  ASSUME NEW c, Sound(c)
  PROVE  LET d == GoesBack(c)
         IN /\ Sound(d) /\ SameQuestion(c, d) /\ d.card = c.card /\ d.listed = c.listed
            /\ IsScreen(d.last)
<1> DEFINE d == GoesBack(c)
<1>1. IsStack(Popped(c.stack)) /\ IsScreen(Last(Popped(c.stack)))
  BY StackOfSound, PoppedIsStack, TopIsScreen DEF Sound
<1>2. /\ IsChat(d) /\ SameQuestion(c, d) /\ d.card = c.card /\ d.listed = c.listed
      /\ d.stack = Popped(c.stack) /\ d.last = Last(Popped(c.stack))
  BY DEF Sound, IsChat, IsRecord, GoesBack, SameQuestion
<1> HIDE DEF d
<1>3. Sound(d)
  BY <1>1, <1>2, StackWritten
<1> QED BY <1>1, <1>2, <1>3 DEF d

LEMMA HomeSound ==
  ASSUME NEW c, Sound(c)
  PROVE  LET d == [c EXCEPT !.stack = <<Home>>, !.last = Home]
         IN Sound(d) /\ SameQuestion(c, d) /\ d.card = c.card /\ d.listed = c.listed
<1> DEFINE d == [c EXCEPT !.stack = <<Home>>, !.last = Home]
<1>1. /\ IsChat(d) /\ SameQuestion(c, d) /\ d.card = c.card /\ d.listed = c.listed
      /\ d.stack = <<Home>> /\ d.last = Home
  BY DEF Sound, IsChat, IsRecord, SameQuestion
<1> HIDE DEF d
<1>2. Sound(d)
  BY <1>1, HomeIsStack, StackWritten
<1> QED BY <1>1, <1>2 DEF d

\* A handler that closes the question, or a form that is lost.
LEMMA ClearedSound ==
  ASSUME NEW c, Sound(c)
  PROVE  LET d == Cleared(c)
         IN /\ Sound(d) /\ d.form = None /\ ~d.cut
            /\ SameStack(c, d) /\ d.card = c.card /\ d.listed = c.listed
<1> DEFINE d == Cleared(c)
<1>1. /\ IsChat(d) /\ d.form = None /\ d.data = NoData /\ d.typed = NoData /\ ~d.cut
      /\ SameStack(c, d) /\ d.card = c.card /\ d.listed = c.listed
  BY DEF Sound, IsChat, IsRecord, Cleared, Unasked, SameStack
<1> HIDE DEF d
<1>2. StackSound(d)
  BY <1>1 DEF StackSound, SameStack, Sound
<1>3. FormMatches(d)
  BY <1>1 DEF FormMatches
<1>4. None \notin DOMAIN ListingKeys
  BY FormKeys, FormTypes
<1>5. DataSound(d)
  BY <1>1, <1>4, NoDataIsEmpty DEF DataSound
<1>6. CardSound(d)
  BY <1>1 DEF CardSound, IsConfirmation, Sound
<1> QED BY <1>1, <1>2, <1>3, <1>5, <1>6 DEF Sound, d

\* While a write to Redis is missing, nothing is said about the question.
LEMMA CutSound ==
  ASSUME NEW c, Sound(c), NEW d, IsChat(d), d.cut,
         d.form = c.form, d.data = c.data, d.typed = c.typed, SameStack(c, d), d.card = c.card
  PROVE  Sound(d)
<1>1. StackSound(d)
  BY DEF StackSound, SameStack, Sound
<1>2. DataSound(d)
  BY DEF DataSound, Sound
<1>3. CardSound(d)
  BY DEF CardSound, IsConfirmation, Sound
<1> QED BY <1>1, <1>2, <1>3 DEF Sound, FormMatches

LEMMA CarriedOutSound ==
  ASSUME NEW c, Sound(c)
  PROVE  LET d == CarriedOut(c)
         IN /\ Sound(d) /\ d.cut /\ d.form = c.form /\ d.data = c.data /\ d.typed = c.typed
            /\ SameStack(c, d) /\ d.card = c.card /\ d.listed = c.listed
<1> DEFINE d == CarriedOut(c)
<1>1. /\ IsChat(d) /\ d.cut /\ d.form = c.form /\ d.data = c.data /\ d.typed = c.typed
      /\ SameStack(c, d) /\ d.card = c.card /\ d.listed = c.listed
  BY DEF Sound, IsChat, IsRecord, CarriedOut, SameStack
<1> HIDE DEF d
<1> QED BY <1>1, CutSound DEF d

LEMMA ListedSound ==
  ASSUME NEW c, Sound(c), NEW p, NEW terms
  PROVE  Sound(Listed(c, p, terms)) /\ Listed(c, p, terms).listed = <<p, terms>>
<1> DEFINE d == Listed(c, p, terms)
           e == CarriedOut(c)
<1>1. IsChat(e) /\ Sound(e) /\ e.cut
  BY CarriedOutSound DEF Sound
<1>2. d = [e EXCEPT !.listed = <<p, terms>>]
  BY DEF Listed
<1> HIDE DEF d, e
<1>3. /\ IsChat(d) /\ d.cut /\ d.form = e.form /\ d.data = e.data /\ d.typed = e.typed
      /\ SameStack(e, d) /\ d.card = e.card /\ d.listed = <<p, terms>>
  BY <1>1, <1>2 DEF IsChat, IsRecord, SameStack
<1> QED BY <1>1, <1>3, CutSound DEF d

\* The same where the question is another one, under a card that asks nothing.
LEMMA CutPlainSound ==
  ASSUME NEW c, Sound(c), NEW d, IsChat(d), d.cut, SameStack(c, d), IsPlain(d.card.buttons),
         d.data = c.data, IsDictionary(d.typed),
         d.form = None => c.form = None, d.form \notin DOMAIN ListingKeys => d.typed = NoData
  PROVE  Sound(d)
<1>1. StackSound(d)
  BY DEF StackSound, SameStack, Sound
<1>2. DataSound(d)
  BY DEF DataSound, Sound
<1> QED BY <1>1, <1>2 DEF Sound, FormMatches, CardSound

\* A question is asked: the form is open, and nothing was typed.
LEMMA OpenedSound ==
  ASSUME NEW c, Sound(c), NEW f \in Form, NEW item, NEW d, IsChat(d), SameStack(c, d),
         IsPlain(d.card.buttons), d.form = f, d.data = DataOf(f, item), d.typed = NoData, ~d.cut,
         d.asked = [form |-> f, item |-> item, answered |-> FALSE]
  PROVE  Sound(d) /\ Settled(d)
<1>1. StackSound(d)
  BY DEF StackSound, SameStack, Sound
<1>2. f # None /\ (f \notin PlainForm => f \in DOMAIN ItemKey)
  BY FormTypes
<1> DEFINE data == DataOf(f, item)
<1>0. /\ IsDictionary(data) /\ TermsOf(data) = NoData
      /\ f \in DOMAIN ItemKey => DOMAIN data = {ItemKey[f]} /\ data[ItemKey[f]] = Last(item)
  BY DataOfForm
<1> HIDE DEF data
<1>3. FormMatches(d)
  BY <1>0, <1>2 DEF FormMatches, data
<1>4. f \in DOMAIN ListingKeys => DOMAIN data \subseteq ListingKeys[f]
  BY <1>0, FormKeys
<1>5. DataSound(d)
  BY <1>0, <1>2, <1>4, NoDataIsEmpty DEF DataSound, data
<1> QED BY <1>1, <1>3, <1>5 DEF Sound, CardSound, Settled

LEMMA PromptsSound ==
  ASSUME NEW c, Sound(c), IsPlain(c.card.buttons), NEW f \in Form, NEW item
  PROVE  \E sent, stated, final :
           /\ Prompts(c, f, item) = <<sent, stated, final>>
           /\ Sound(sent) /\ Sound(stated) /\ Sound(final) /\ Settled(final)
           /\ sent.listed = <<>> /\ stated.listed = <<>> /\ final.listed = <<>>
<1> DEFINE sent == [Asked(c, f, item) EXCEPT !.typed = NoData, !.listed = <<>>]
           stated == [sent EXCEPT !.form = f]
           final == [stated EXCEPT !.data = DataOf(f, item), !.cut = FALSE]
           question == [form |-> f, item |-> item, answered |-> FALSE]
<1>1. Prompts(c, f, item) = <<sent, stated, final>>
  BY DEF Prompts
<1>2. IsRecord(question, {"form", "item", "answered"})
  BY DEF IsRecord
<1>3. /\ IsChat(sent) /\ SameStack(c, sent) /\ sent.card = c.card /\ sent.cut
      /\ sent.form = c.form /\ sent.data = c.data /\ sent.typed = NoData /\ sent.listed = <<>>
      /\ sent.asked = question
  BY <1>2 DEF Sound, IsChat, IsRecord, Asked, SameStack
<1> HIDE DEF sent
<1>4. /\ IsChat(stated) /\ SameStack(c, stated) /\ stated.card = c.card /\ stated.cut
      /\ stated.form = f /\ stated.data = c.data /\ stated.typed = NoData /\ stated.listed = <<>>
      /\ stated.asked = question
  BY <1>3 DEF IsChat, IsRecord, SameStack
<1> HIDE DEF stated
<1>5. /\ IsChat(final) /\ SameStack(c, final) /\ final.card = c.card /\ ~final.cut
      /\ final.form = f /\ final.data = DataOf(f, item) /\ final.typed = NoData
      /\ final.listed = <<>> /\ final.asked = question
  BY <1>4 DEF IsChat, IsRecord, SameStack
<1> HIDE DEF final
<1>6. f # None
  BY FormTypes
<1>7. Sound(sent) /\ Sound(stated)
  BY <1>3, <1>4, <1>6, NoDataIsEmpty, CutPlainSound
<1>8. Sound(final) /\ Settled(final)
  BY <1>5, OpenedSound
<1> QED BY <1>1, <1>3, <1>4, <1>5, <1>7, <1>8

-----------------------------------------------------------------------------
(* The card and the form                                                   *)

\* A button that is not of a confirmation is on a card that asks nothing.
LEMMA PressedIsPlain ==
  ASSUME NEW c, Sound(c), NEW b \in c.card.buttons, Head(b) \notin Confirms \cup {"plate:view"}
  PROVE  IsPlain(c.card.buttons)
<1> SUFFICES ASSUME IsConfirmation(c) PROVE FALSE
  BY DEF Sound, CardSound
<1>1. PICK kind \in Confirms : \E p : c.card.buttons = {<<kind, p>>, <<"plate:view", p>>}
  BY DEF IsConfirmation
<1>2. Head(b) = kind \/ Head(b) = "plate:view"
  BY <1>1
<1> QED BY <1>2

\* While a form is open that no button confirms, the card asks nothing.
LEMMA OpenFormIsPlain ==
  ASSUME NEW c, Sound(c), c.form \notin {None, "SALE_PRICE", "AUCTION_DURATION"}
  PROVE  IsPlain(c.card.buttons)
BY DEF Sound, CardSound, IsConfirmation, ConfirmedForm

\* The button that confirms is that of the open form and of its plate.
LEMMA ConfirmedIsOpen ==
  ASSUME NEW c, Sound(c), NEW b \in c.card.buttons, Head(b) \in Confirms, DOMAIN c.data # {}
  PROVE  c.form = ConfirmedForm(Head(b)) /\ "plate_id" \in DOMAIN c.data /\ c.data["plate_id"] = b[2]
<1>1. ~IsPlain(c.card.buttons) /\ c.form # None
  BY NoDataIsEmpty DEF IsPlain, Sound, DataSound
<1>2. PICK kind \in Confirms :
        \E p : /\ c.card.buttons = {<<kind, p>>, <<"plate:view", p>>}
               /\ c.form = ConfirmedForm(kind)
               /\ "plate_id" \in DOMAIN c.data /\ c.data["plate_id"] = p
  BY <1>1 DEF Sound, CardSound, IsConfirmation
<1>3. PICK p : /\ c.card.buttons = {<<kind, p>>, <<"plate:view", p>>}
               /\ c.form = ConfirmedForm(kind)
               /\ "plate_id" \in DOMAIN c.data /\ c.data["plate_id"] = p
  BY <1>2
<1>4. b = <<kind, p>>
  BY <1>3 DEF Confirms
<1> QED BY <1>3, <1>4

-----------------------------------------------------------------------------
(* A handler ends in one of the conversations it goes through              *)

LEMMA OneStep ==
  ASSUME Inv, NEW a, Sound(a), breaks = 0 => Settled(a), Handles(<<a>>)
  PROVE  Inv' /\ chat' = a
BY BreaksAreBounded DEF Handles, Inv

LEMMA TwoSteps ==
  ASSUME Inv, NEW a, NEW b, Sound(a), Sound(b), breaks = 0 => Settled(b), Handles(<<a, b>>)
  PROVE  Inv' /\ chat' \in {a, b}
BY BreaksAreBounded DEF Handles, Inv

LEMMA ThreeSteps ==
  ASSUME Inv, NEW a, NEW b, NEW c, Sound(a), Sound(b), Sound(c), breaks = 0 => Settled(c),
         Handles(<<a, b, c>>)
  PROVE  Inv' /\ chat' \in {a, b, c}
BY BreaksAreBounded DEF Handles, Inv

LEMMA FourSteps ==
  ASSUME Inv, NEW a, NEW b, NEW c, NEW d, Sound(a), Sound(b), Sound(c), Sound(d),
         breaks = 0 => Settled(d), Handles(<<a, b, c, d>>)
  PROVE  Inv' /\ chat' \in {a, b, c, d}
BY BreaksAreBounded DEF Handles, Inv

-----------------------------------------------------------------------------
(* Screens                                                                 *)

\* No listing is confirmed in the step.
Unlisted == chat'.listed \in {chat.listed, <<>>}

LEMMA ScreenRows ==
  ASSUME NEW rows, NEW T, \A r \in rows : r[2] \in T, NEW key \in DOMAIN Table(rows)
  PROVE  Table(rows)[key] \in T
BY TableRow

LEMMA OpenedIsScreen ==
  ASSUME NEW b, Head(b) \in DOMAIN ScreenNames
  PROVE  IsScreen(Opened(b))
<1> DEFINE rows == PlayerScreens \cup MarketScreens \cup AuctionScreens \cup AccountScreens
                     \cup AdminScreens \cup AdminTableScreens
<1>1. \A r \in rows : r[2] # "SEARCH_RESULTS"
  <2>1. \A r \in PlayerScreens \cup MarketScreens \cup AuctionScreens : r[2] # "SEARCH_RESULTS"
    BY DEF PlayerScreens, MarketScreens, AuctionScreens
  <2>2. \A r \in AccountScreens \cup AdminScreens \cup AdminTableScreens : r[2] # "SEARCH_RESULTS"
    BY DEF AccountScreens, AdminScreens, AdminTableScreens
  <2> QED BY <2>1, <2>2
<1>2. PICK r \in rows : ScreenNames[Head(b)] = r[2]
  BY TableRow DEF ScreenNames
<1>3. ScreenNames[Head(b)] # "SEARCH_RESULTS"
  BY <1>1, <1>2
<1>4. Head(Opened(b)) \in {"MARKET_FEATURED", ScreenNames[Head(b)]}
  BY DEF Opened
<1> QED BY <1>3, <1>4 DEF IsScreen

LEMMA ShownLast ==
  ASSUME NEW c, Sound(c), NEW card, PlainCard(card)
  PROVE  /\ Sound(Shown(c, card)) /\ (~c.cut => Settled(Shown(c, card)))
         /\ Shown(c, card).listed = c.listed
<1> DEFINE d == Shown(c, card)
<1>1. Sound(d) /\ SameQuestion(c, d) /\ d.card = card /\ d.listed = c.listed
  BY ShownSound
<1> HIDE DEF d
<1>2. ~c.cut => Settled(d)
  BY <1>1 DEF Settled, SameQuestion, PlainCard
<1> QED BY <1>1, <1>2 DEF d

LEMMA InvSound == ASSUME Inv PROVE Sound(chat) /\ (breaks = 0 => ~chat.cut)
BY DEF Inv, Settled

\* A screen is written to the stack, and its card is shown.
LEMMA ShownAfter ==
  ASSUME Inv, NEW c, Sound(c), SameQuestion(chat, c), c.listed = chat.listed,
         NEW card, PlainCard(card), Handles(<<c, Shown(c, card)>>)
  PROVE  Inv' /\ Unlisted
<1> DEFINE d == Shown(c, card)
<1>1. c.cut = chat.cut
  BY DEF SameQuestion
<1>2. Sound(d) /\ (breaks = 0 => Settled(d)) /\ d.listed = chat.listed
  BY <1>1, ShownLast, InvSound
<1> HIDE DEF d
<1>3. Inv' /\ chat' \in {c, d}
  BY <1>2, TwoSteps DEF d
<1> QED BY <1>2, <1>3 DEF Unlisted

LEMMA ShownAlone ==
  ASSUME Inv, NEW card, PlainCard(card), Handles(<<Shown(chat, card)>>)
  PROVE  Inv' /\ Unlisted
<1> DEFINE d == Shown(chat, card)
<1>1. Sound(d) /\ (breaks = 0 => Settled(d)) /\ d.listed = chat.listed
  BY ShownLast, InvSound
<1> HIDE DEF d
<1>2. Inv' /\ chat' = d
  BY <1>1, OneStep DEF d
<1> QED BY <1>1, <1>2 DEF Unlisted

\* A command was carried out, and then the same.
LEMMA ShownAfterCommand ==
  ASSUME Inv, NEW c, Sound(c), SameQuestion(chat, c), c.listed = chat.listed,
         NEW card, PlainCard(card), Handles(<<chat, c, Shown(c, card)>>)
  PROVE  Inv' /\ Unlisted
<1> DEFINE d == Shown(c, card)
<1>1. c.cut = chat.cut
  BY DEF SameQuestion
<1>2. Sound(d) /\ (breaks = 0 => Settled(d)) /\ d.listed = chat.listed
  BY <1>1, ShownLast, InvSound
<1> HIDE DEF d
<1>3. Inv' /\ chat' \in {chat, c, d}
  BY <1>2, InvSound, ThreeSteps DEF d
<1> QED BY <1>2, <1>3 DEF Unlisted

LEMMA OpenScreenKeeps == ASSUME Inv, OpenScreen PROVE Inv' /\ Unlisted
<1>1. PICK b \in Pressed(DOMAIN ScreenNames) : \E card \in Cards(Buttons(Opened(b))) :
        LET pushed == Pushes(chat, Opened(b)) IN Handles(<<pushed, Shown(pushed, card)>>)
  BY DEF OpenScreen
<1> DEFINE pushed == Pushes(chat, Opened(b))
<1>2. PICK card \in Cards(Buttons(Opened(b))) : Handles(<<pushed, Shown(pushed, card)>>)
  BY <1>1
<1>3. IsScreen(Opened(b))
  BY OpenedIsScreen DEF Pressed
<1>4. PlainCard(card)
  BY <1>3, ScreenCards
<1>5. Sound(pushed) /\ SameQuestion(chat, pushed) /\ pushed.listed = chat.listed
  BY <1>3, InvSound, PushesSound
<1> HIDE DEF pushed
<1> QED BY <1>2, <1>4, <1>5, ShownAfter

LEMMA NavigationHomeKeeps == ASSUME Inv, NavigationHome PROVE Inv' /\ Unlisted
<1> DEFINE home == [chat EXCEPT !.stack = <<Home>>, !.last = Home]
<1>1. PICK card \in Cards(HomeButtons) : Handles(<<home, Shown(home, card)>>)
  BY DEF NavigationHome
<1>2. Sound(home) /\ SameQuestion(chat, home) /\ home.listed = chat.listed
  BY InvSound, HomeSound
<1>3. PlainCard(card)
  BY FixedCards
<1> HIDE DEF home
<1> QED BY <1>1, <1>2, <1>3, ShownAfter

LEMMA NavigationBackKeeps == ASSUME Inv, NavigationBack PROVE Inv' /\ Unlisted
<1> DEFINE back == GoesBack(chat)
<1>1. PICK card \in Cards(Restored(back.last)) : Handles(<<back, Shown(back, card)>>)
  BY DEF NavigationBack
<1>2. Sound(back) /\ SameQuestion(chat, back) /\ back.listed = chat.listed /\ IsScreen(back.last)
  BY InvSound, GoesBackSound
<1> HIDE DEF back
<1>3. PlainCard(card)
  BY <1>2, ScreenCards
<1> QED BY <1>1, <1>2, <1>3, ShownAfter

LEMMA OpenUnstackedKeeps == ASSUME Inv, OpenUnstacked PROVE Inv' /\ Unlisted
<1>1. PICK card \in Cards(BalanceHistoryButtons) \cup Cards(BannersButtons) :
        Handles(<<Shown(chat, card)>>)
  BY DEF OpenUnstacked
<1>2. PlainCard(card)
  BY FixedCards
<1> QED BY <1>1, <1>2, ShownAlone

LEMMA PaymentArrivesKeeps == ASSUME Inv, PaymentArrives PROVE Inv' /\ Unlisted
<1>1. PICK card \in Cards(Restored(Last(chat.stack))) : Handles(<<Shown(chat, card)>>)
  BY DEF PaymentArrives
<1>2. IsScreen(Last(chat.stack))
  BY InvSound, StackOfSound, TopIsScreen DEF Sound
<1>3. PlainCard(card)
  BY <1>2, ScreenCards
<1> QED BY <1>1, <1>3, ShownAlone

LEMMA FormIsLostKeeps == ASSUME Inv, FormIsLost PROVE Inv' /\ Unlisted
<1>1. chat' = Cleared(chat) /\ breaks' = breaks
  BY DEF FormIsLost
<1>2. Sound(chat') /\ chat'.form = None /\ ~chat'.cut /\ chat'.listed = chat.listed
  BY <1>1, InvSound, ClearedSound
<1> QED BY <1>1, <1>2 DEF Inv, Settled, Unlisted

-----------------------------------------------------------------------------
(* Questions                                                               *)

LEMMA QuestionForms ==
  ASSUME NEW key \in DOMAIN Questions
  PROVE  Questions[key] \in Form /\ key \notin Confirms \cup {"plate:view"}
<1>1. PICK r \in PlayerQuestions \cup AdminQuestions : r[1] = key /\ Questions[key] = r[2]
  BY TableRow DEF Questions
<1>2. CASE r \in PlayerQuestions
  BY <1>1, <1>2, FormKeys, FormTypes DEF PlayerQuestions, Confirms
<1>3. CASE r \in AdminQuestions
  BY <1>1, <1>3, FormKeys, FormTypes DEF AdminQuestions, Confirms, PlainForm
<1> QED BY <1>2, <1>3

LEMMA AskKeeps == ASSUME Inv, Ask PROVE Inv' /\ Unlisted
<1>1. PICK b \in Pressed(DOMAIN Questions) :
        Handles(Prompts(chat, Questions[Head(b)], Tail(b)))
  BY DEF Ask
<1>2. b \in chat.card.buttons /\ Head(b) \in DOMAIN Questions
  BY DEF Pressed
<1>3. Questions[Head(b)] \in Form /\ IsPlain(chat.card.buttons)
  BY <1>2, QuestionForms, InvSound, PressedIsPlain
<1>4. PICK sent, stated, final :
        /\ Prompts(chat, Questions[Head(b)], Tail(b)) = <<sent, stated, final>>
        /\ Sound(sent) /\ Sound(stated) /\ Sound(final) /\ Settled(final)
        /\ sent.listed = <<>> /\ stated.listed = <<>> /\ final.listed = <<>>
  BY <1>3, InvSound, PromptsSound
<1>5. Handles(<<sent, stated, final>>)
  BY <1>1, <1>4
<1>6. Inv' /\ chat' \in {sent, stated, final}
  BY <1>4, <1>5, ThreeSteps
<1> QED BY <1>4, <1>6 DEF Unlisted

LEMMA AskTopUpKeeps == ASSUME Inv, AskTopUp PROVE Inv' /\ Unlisted
<1> DEFINE pushed == Pushes(chat, <<"BALANCE_TOPUP">>)
<1>1. Handles(<<pushed>> \o Prompts(pushed, "TOPUP_AMOUNT", <<>>))
  BY DEF AskTopUp
<1>2. PICK b \in chat.card.buttons : Head(b) = "balance:topup"
  BY DEF AskTopUp, Pressed
<1>3. IsPlain(chat.card.buttons)
  BY <1>2, InvSound, PressedIsPlain DEF Confirms
<1>4. Sound(pushed) /\ pushed.card = chat.card /\ pushed.listed = chat.listed
  <2>1. IsScreen(<<"BALANCE_TOPUP">>)
    BY DEF IsScreen
  <2> QED BY <2>1, InvSound, PushesSound
<1>5. "TOPUP_AMOUNT" \in Form
  BY DEF Form, PlainForm
<1> HIDE DEF pushed
<1>6. PICK sent, stated, final :
        /\ Prompts(pushed, "TOPUP_AMOUNT", <<>>) = <<sent, stated, final>>
        /\ Sound(sent) /\ Sound(stated) /\ Sound(final) /\ Settled(final)
        /\ sent.listed = <<>> /\ stated.listed = <<>> /\ final.listed = <<>>
  BY <1>3, <1>4, <1>5, PromptsSound
<1>7. <<pushed>> \o <<sent, stated, final>> = <<pushed, sent, stated, final>>
  <2> DEFINE S == {pushed, sent, stated, final}
             one == <<pushed>>
             three == <<sent, stated, final>>
             four == <<pushed, sent, stated, final>>
  <2>1. /\ one \in Seq(S) /\ Len(one) = 1 /\ one[1] = pushed
        /\ three \in Seq(S) /\ Len(three) = 3
        /\ three[1] = sent /\ three[2] = stated /\ three[3] = final
        /\ four \in Seq(S) /\ Len(four) = 4
        /\ four[1] = pushed /\ four[2] = sent /\ four[3] = stated /\ four[4] = final
    OBVIOUS
  <2> HIDE DEF S, one, three, four
  <2> DEFINE all == one \o three
  <2>2. /\ all \in Seq(S) /\ Len(all) = Len(one) + Len(three)
        /\ \A i \in 1..Len(one) + Len(three) :
             all[i] = IF i <= Len(one) THEN one[i] ELSE three[i - Len(one)]
    BY <2>1, ConcatProperties
  <2> HIDE DEF all
  <2>3. /\ all \in Seq(S) /\ Len(all) = 4
        /\ \A i \in 1..4 : all[i] = IF i <= 1 THEN one[i] ELSE three[i - 1]
    BY <2>1, <2>2
  <2>4. \A i \in 1..4 : all[i] = four[i]
    BY <2>1, <2>3
  <2>5. all = four
    BY <2>1, <2>3, <2>4, SeqEqual
  <2> QED BY <2>5 DEF one, three, four, all
<1>8. Handles(<<pushed, sent, stated, final>>)
  BY <1>1, <1>6, <1>7
<1>9. Inv' /\ chat' \in {pushed, sent, stated, final}
  BY <1>4, <1>6, <1>8, FourSteps
<1> QED BY <1>4, <1>6, <1>9 DEF Unlisted

-----------------------------------------------------------------------------
(* Answers that end the question                                           *)

\* A command was carried out, the form is cleared, and a card is shown.
LEMMA ClearedLast ==
  ASSUME NEW c, Sound(c), c.form = None, ~c.cut, NEW card, PlainCard(card)
  PROVE  Sound(Shown(c, card)) /\ Settled(Shown(c, card)) /\ Shown(c, card).listed = c.listed
BY ShownLast

LEMMA PushedResults ==
  ASSUME Inv, NEW country, NEW query, Normalized(query) = query
  PROVE  LET pushed == Pushes(chat, <<"SEARCH_RESULTS", country, query>>)
         IN /\ IsScreen(<<"SEARCH_RESULTS", country, query>>)
            /\ Sound(pushed) /\ pushed.listed = chat.listed
<1>1. IsScreen(<<"SEARCH_RESULTS", country, query>>)
  BY DEF IsScreen
<1> QED BY <1>1, InvSound, PushesSound

LEMMA SearchInputKeeps == ASSUME Inv, SearchInput PROVE Inv' /\ Unlisted
<1> DEFINE country == Given("SEARCH_QUERY")
<1>1. PICK text \in Text :
        LET query == Query(country, text)
            results == <<"SEARCH_RESULTS", country, query>>
            pushed == Pushes(chat, results)
            cleared == CleanedUp(pushed)
        IN /\ query # Rejected
           /\ \E card \in Cards(Buttons(results)) :
                Handles(<<pushed, cleared, Shown(cleared, card)>>)
  BY DEF SearchInput
<1> HIDE DEF country
<1> DEFINE query == Query(country, text)
           results == <<"SEARCH_RESULTS", country, query>>
           pushed == Pushes(chat, results)
           cleared == CleanedUp(pushed)
<1>2. query # Rejected
  BY <1>1
<1>3. PICK card \in Cards(Buttons(results)) : Handles(<<pushed, cleared, Shown(cleared, card)>>)
  BY <1>1
<1>4. Normalized(query) = query
  BY <1>2, QueryIsNormal
<1> HIDE DEF query
<1>5. IsScreen(results) /\ Sound(pushed) /\ pushed.listed = chat.listed
  BY <1>4, PushedResults
<1> HIDE DEF results, pushed
<1>6. Sound(cleared) /\ cleared.form = None /\ ~cleared.cut /\ cleared.listed = chat.listed
  BY <1>5, ClearedSound DEF CleanedUp
<1>7. PlainCard(card)
  BY <1>5, ScreenCards
<1> HIDE DEF cleared
<1> DEFINE shown == Shown(cleared, card)
<1>8. Sound(shown) /\ Settled(shown) /\ shown.listed = chat.listed
  BY <1>6, <1>7, ClearedLast
<1> HIDE DEF shown
<1>9. Inv' /\ chat' \in {pushed, cleared, shown}
  BY <1>3, <1>5, <1>6, <1>8, ThreeSteps DEF shown
<1> QED BY <1>5, <1>6, <1>8, <1>9 DEF Unlisted

\* The last three conversations of a handler that clears the form, replaces
\* the screen and shows it.
LEMMA ClearedAndReplaced ==
  ASSUME NEW c, Sound(c), NEW screen, IsScreen(screen), NEW card, PlainCard(card)
  PROVE  LET cleared == Cleared(c)
             replaced == Replaces(cleared, screen)
             shown == Shown(replaced, card)
         IN /\ Sound(cleared) /\ Sound(replaced) /\ Sound(shown) /\ Settled(shown)
            /\ cleared.listed = c.listed /\ replaced.listed = c.listed /\ shown.listed = c.listed
<1> DEFINE cleared == Cleared(c)
           replaced == Replaces(cleared, screen)
           shown == Shown(replaced, card)
<1>1. Sound(cleared) /\ cleared.form = None /\ ~cleared.cut /\ cleared.listed = c.listed
  BY ClearedSound
<1> HIDE DEF cleared
<1>2. Sound(replaced) /\ SameQuestion(cleared, replaced) /\ replaced.listed = c.listed
  BY <1>1, ReplacesSound
<1> HIDE DEF replaced
<1>3. replaced.form = None /\ ~replaced.cut
  BY <1>1, <1>2 DEF SameQuestion
<1>4. Sound(shown) /\ Settled(shown) /\ shown.listed = c.listed
  BY <1>2, <1>3, ClearedLast
<1> QED BY <1>1, <1>2, <1>4 DEF cleared, replaced

LEMMA ReplacedKeeps ==
  ASSUME Inv, NEW done, Sound(done), NEW screen, IsScreen(screen), NEW card, PlainCard(card),
         LET cleared == Cleared(done)
             replaced == Replaces(cleared, screen)
         IN Handles(<<done, cleared, replaced, Shown(replaced, card)>>)
  PROVE  Inv' /\ chat'.listed = done.listed
<1> DEFINE cleared == Cleared(done)
           replaced == Replaces(cleared, screen)
           shown == Shown(replaced, card)
<1>1. Handles(<<done, cleared, replaced, shown>>)
  OBVIOUS
<1>2. /\ Sound(cleared) /\ Sound(replaced) /\ Sound(shown) /\ Settled(shown)
      /\ cleared.listed = done.listed /\ replaced.listed = done.listed
      /\ shown.listed = done.listed
  BY ClearedAndReplaced
<1> HIDE DEF cleared, replaced, shown
<1>3. Inv' /\ chat' \in {done, cleared, replaced, shown}
  BY <1>1, <1>2, FourSteps
<1> QED BY <1>2, <1>3

LEMMA TopUpInputKeeps == ASSUME Inv, TopUpInput PROVE Inv' /\ Unlisted
<1> DEFINE booked == CarriedOut(chat)
<1>1. PICK card \in Cards(BalanceButtons) :
        LET cleared == Cleared(booked)
            replaced == Replaces(cleared, <<"BALANCE">>)
        IN Handles(<<booked, cleared, replaced, Shown(replaced, card)>>)
  BY DEF TopUpInput, CleanedUp
<1>2. Sound(booked) /\ booked.listed = chat.listed
  BY InvSound, CarriedOutSound
<1>3. PlainCard(card) /\ IsScreen(<<"BALANCE">>)
  BY FixedCards DEF IsScreen
<1> HIDE DEF booked
<1> QED BY <1>1, <1>2, <1>3, ReplacedKeeps DEF Unlisted

LEMMA BidInputKeeps == ASSUME Inv, BidInput PROVE Inv' /\ Unlisted
<1> DEFINE placed == CarriedOut(chat)
           screen == <<"AUCTION_VIEW", Given("BID_AMOUNT")>>
<1>1. PICK card \in Cards(Buttons(screen)) :
        LET cleared == Cleared(placed)
            replaced == Replaces(cleared, screen)
        IN Handles(<<placed, cleared, replaced, Shown(replaced, card)>>)
  BY DEF BidInput, CleanedUp
<1>2. Sound(placed) /\ placed.listed = chat.listed
  BY InvSound, CarriedOutSound
<1>3. IsScreen(screen)
  BY DEF IsScreen
<1> HIDE DEF placed, screen
<1>4. PlainCard(card)
  BY <1>3, ScreenCards
<1> QED BY <1>1, <1>2, <1>3, <1>4, ReplacedKeeps DEF Unlisted

-----------------------------------------------------------------------------
(* Answers that are kept                                                   *)

\* What the forms of a listing read is the plate, which no answer overwrites.
LEMMA TakesSound ==
  ASSUME NEW c, Sound(c), c.form \in DOMAIN ListingKeys,
         NEW key \in TermKey, key \in ListingKeys[c.form], NEW value
  PROVE  LET d == Takes(c, key, value)
         IN /\ Sound(d) /\ d.form = c.form /\ d.cut = c.cut /\ d.asked = c.asked
            /\ d.data = With(c.data, key, value) /\ d.typed = With(c.typed, key, value)
            /\ SameStack(c, d) /\ d.card = c.card /\ d.listed = c.listed
<1> DEFINE d == Takes(c, key, value)
<1>1. /\ IsChat(d) /\ d.form = c.form /\ d.cut = c.cut /\ d.asked = c.asked
      /\ d.data = With(c.data, key, value) /\ d.typed = With(c.typed, key, value)
      /\ SameStack(c, d) /\ d.card = c.card /\ d.listed = c.listed
  BY DEF Sound, IsChat, IsRecord, Takes, Updated, SameStack
<1> HIDE DEF d
<1>2. key \in Key /\ key # "plate_id" /\ IsDictionary(c.data) /\ IsDictionary(c.typed)
  BY FormKeys DEF TermKey, Sound, DataSound
<1>3. /\ IsDictionary(d.data) /\ DOMAIN d.data = DOMAIN c.data \cup {key}
      /\ "plate_id" \in DOMAIN c.data => d.data["plate_id"] = c.data["plate_id"]
      /\ IsDictionary(d.typed)
  <2>1. /\ IsDictionary(With(c.data, key, value))
        /\ DOMAIN With(c.data, key, value) = DOMAIN c.data \cup {key}
        /\ \A j \in DOMAIN c.data \ {key} : With(c.data, key, value)[j] = c.data[j]
    BY <1>2 DEF With, IsDictionary
  <2>2. IsDictionary(With(c.typed, key, value))
    BY <1>2, WithEntry
  <2> QED BY <1>1, <1>2, <2>1, <2>2
<1>4. StackSound(d)
  BY <1>1 DEF StackSound, SameStack, Sound
<1>5. FormMatches(d)
  BY <1>1, <1>3, FormKeys DEF FormMatches, Sound
<1>6. DataSound(d)
  <2>1. c.form # None
    BY FormKeys, FormTypes
  <2>2. ASSUME ~d.cut PROVE d.typed = TermsOf(d.data)
    BY <1>1, <1>2, <2>2, WithTerm DEF Sound, DataSound
  <2>3. ASSUME ~d.cut PROVE DOMAIN d.data \subseteq ListingKeys[d.form]
    BY <1>1, <1>3, <2>3 DEF Sound, DataSound
  <2> QED BY <1>1, <1>3, <2>1, <2>2, <2>3 DEF DataSound
<1>7. CardSound(d)
  BY <1>1, <1>3 DEF CardSound, IsConfirmation, Sound
<1> QED BY <1>1, <1>4, <1>5, <1>6, <1>7 DEF Sound, d

\* The card that asks to confirm what was typed.
LEMMA ConfirmationSound ==
  ASSUME NEW c, Sound(c), NEW kind \in Confirms, c.form = ConfirmedForm(kind), NEW p, NEW terms,
         "plate_id" \in DOMAIN c.data, c.data["plate_id"] = p
  PROVE  LET d == Shown(c, Confirmation(kind, p, terms))
         IN /\ Sound(d) /\ d.listed = c.listed
            /\ ~c.cut /\ c.typed = terms => Settled(d)
<1> DEFINE card == Confirmation(kind, p, terms)
           d == Shown(c, card)
<1>1. /\ IsRecord(card, {"buttons", "terms"})
      /\ card.buttons = {<<kind, p>>, <<"plate:view", p>>} /\ card.terms = terms
  BY DEF Confirmation, IsRecord
<1> HIDE DEF card
<1>2. /\ IsChat(d) /\ SameQuestion(c, d) /\ SameStack(c, d)
      /\ d.card = card /\ d.listed = c.listed
  BY <1>1 DEF Sound, IsChat, IsRecord, Shown, SameQuestion, SameStack
<1> HIDE DEF d
<1>3. StackSound(d)
  BY <1>2 DEF StackSound, SameStack, Sound
<1>4. CardSound(d)
  BY <1>1, <1>2 DEF CardSound, IsConfirmation, SameQuestion
<1>5. Sound(d)
  BY <1>2, <1>3, <1>4, QuestionStaysSound DEF Sound
<1>6. ~c.cut /\ c.typed = terms => Settled(d)
  BY <1>1, <1>2 DEF Settled, SameQuestion
<1> QED BY <1>2, <1>5, <1>6 DEF d, card

\* What was typed for a sale and for an auction.
LEMMA TypedTerms ==
  ASSUME NEW c, Sound(c), ~c.cut
  PROVE  /\ c.form = "SALE_PRICE" => DOMAIN c.typed \subseteq {"price"}
         /\ c.form = "AUCTION_DURATION" => DOMAIN c.typed \subseteq {"start_price", "duration"}
         /\ \A key \in DOMAIN c.data \cap TermKey : key \in DOMAIN c.typed /\ c.typed[key] = c.data[key]
BY DEF Sound, DataSound, TermsOf, ListingKeys, TermKey

LEMMA SalePriceInputKeeps == ASSUME Inv, SalePriceInput PROVE Inv' /\ Unlisted
<1> DEFINE p == Given("SALE_PRICE")
<1>1. PICK price \in Price :
        LET stored == Takes(chat, "price", price)
            card == Confirmation("sale:confirm", p, [price |-> price])
        IN Handles(<<stored, Shown(stored, card)>>)
  BY DEF SalePriceInput
<1>2. /\ chat.form = "SALE_PRICE" /\ "plate_id" \in DOMAIN chat.data
      /\ chat.data["plate_id"] = p
  BY FormKeys DEF SalePriceInput, Answers, Known, Given
<1>3. chat.form \in DOMAIN ListingKeys /\ "price" \in TermKey /\ "price" \in ListingKeys[chat.form]
  BY <1>2 DEF ListingKeys, TermKey
<1> HIDE DEF p
<1> DEFINE stored == Takes(chat, "price", price)
           shown == Shown(stored, Confirmation("sale:confirm", p, [price |-> price]))
<1>4. /\ Sound(stored) /\ stored.form = "SALE_PRICE" /\ stored.cut = chat.cut
      /\ stored.data = With(chat.data, "price", price)
      /\ stored.typed = With(chat.typed, "price", price) /\ stored.listed = chat.listed
  BY <1>2, <1>3, InvSound, TakesSound
<1> HIDE DEF stored
<1>5. "plate_id" \in DOMAIN stored.data /\ stored.data["plate_id"] = p
  BY <1>2, <1>4 DEF With
<1>6. ASSUME ~chat.cut PROVE stored.typed = [price |-> price]
  <2>1. DOMAIN chat.typed \subseteq {"price"}
    BY <1>2, <1>6, InvSound, TypedTerms
  <2> QED BY <1>4, <2>1 DEF With
<1>7. "sale:confirm" \in Confirms /\ ConfirmedForm("sale:confirm") = "SALE_PRICE"
  BY DEF Confirms, ConfirmedForm
<1>8. Sound(shown) /\ shown.listed = chat.listed /\ (~chat.cut => Settled(shown))
  BY <1>4, <1>5, <1>6, <1>7, ConfirmationSound
<1>9. Handles(<<stored, shown>>)
  BY <1>1 DEF stored
<1> HIDE DEF shown
<1>10. Inv' /\ chat' \in {stored, shown}
  BY <1>4, <1>8, <1>9, InvSound, TwoSteps
<1> QED BY <1>4, <1>8, <1>10 DEF Unlisted

LEMMA AuctionDurationInputKeeps == ASSUME Inv, AuctionDurationInput PROVE Inv' /\ Unlisted
<1> DEFINE p == Given("AUCTION_DURATION")
           start == chat.data["start_price"]
           terms(hours) == [start_price |-> start, duration |-> hours]
<1>1. PICK hours \in Hours :
        LET stored == Takes(chat, "duration", hours)
            card == Confirmation("auction:confirm", p, terms(hours))
        IN Handles(<<stored, Shown(stored, card)>>)
  BY DEF AuctionDurationInput
<1>2. /\ chat.form = "AUCTION_DURATION" /\ {"plate_id", "start_price"} \subseteq DOMAIN chat.data
      /\ chat.data["plate_id"] = p
  BY FormKeys DEF AuctionDurationInput, Answers, Known, Given
<1>3. /\ chat.form \in DOMAIN ListingKeys /\ {"duration", "start_price"} \subseteq TermKey
      /\ "duration" \in ListingKeys[chat.form]
  BY <1>2 DEF ListingKeys, TermKey
<1> HIDE DEF p, start
<1> DEFINE stored == Takes(chat, "duration", hours)
           shown == Shown(stored, Confirmation("auction:confirm", p, terms(hours)))
<1>4. /\ Sound(stored) /\ stored.form = "AUCTION_DURATION" /\ stored.cut = chat.cut
      /\ stored.data = With(chat.data, "duration", hours)
      /\ stored.typed = With(chat.typed, "duration", hours) /\ stored.listed = chat.listed
  BY <1>2, <1>3, InvSound, TakesSound
<1> HIDE DEF stored
<1>5. "plate_id" \in DOMAIN stored.data /\ stored.data["plate_id"] = p
  BY <1>2, <1>4 DEF With
<1>6. ASSUME ~chat.cut PROVE stored.typed = terms(hours)
  <2>1. DOMAIN chat.typed \subseteq {"start_price", "duration"}
    BY <1>2, <1>6, InvSound, TypedTerms
  <2>2. "start_price" \in DOMAIN chat.typed /\ chat.typed["start_price"] = start
    BY <1>2, <1>3, <1>6, InvSound, TypedTerms DEF start
  <2> QED BY <1>4, <2>1, <2>2 DEF With
<1>7. "auction:confirm" \in Confirms /\ ConfirmedForm("auction:confirm") = "AUCTION_DURATION"
  BY DEF Confirms, ConfirmedForm
<1>8. Sound(shown) /\ shown.listed = chat.listed /\ (~chat.cut => Settled(shown))
  BY <1>4, <1>5, <1>6, <1>7, ConfirmationSound
<1>9. Handles(<<stored, shown>>)
  BY <1>1 DEF stored
<1> HIDE DEF shown
<1>10. Inv' /\ chat' \in {stored, shown}
  BY <1>4, <1>8, <1>9, InvSound, TwoSteps
<1> QED BY <1>4, <1>8, <1>10 DEF Unlisted

\* The price is kept as the second question is sent, under the form of that.
LEMMA AuctionPriceInputKeeps == ASSUME Inv, AuctionPriceInput PROVE Inv' /\ Unlisted
<1> DEFINE item == chat.asked.item
           sent == Asked(chat, "AUCTION_DURATION", item)
           stated == [sent EXCEPT !.form = "AUCTION_DURATION"]
           taken(price) == [Takes(stated, "start_price", price) EXCEPT !.cut = chat.cut]
           question == [form |-> "AUCTION_DURATION", item |-> item, answered |-> FALSE]
<1>1. PICK price \in Price : Handles(<<sent, stated, taken(price)>>)
  BY DEF AuctionPriceInput
<1>2. chat.form = "AUCTION_START_PRICE"
  BY DEF AuctionPriceInput
<1>3. IsPlain(chat.card.buttons)
  BY <1>2, InvSound, OpenFormIsPlain, FormKeys, FormTypes
<1>4. Sound(chat)
  BY InvSound
<1>5. IsRecord(question, {"form", "item", "answered"}) /\ "AUCTION_DURATION" \in Form \ {None}
  BY FormKeys, FormTypes DEF IsRecord
<1>6. /\ IsChat(sent) /\ SameStack(chat, sent) /\ sent.card = chat.card /\ sent.cut
      /\ sent.form = chat.form /\ sent.data = chat.data /\ sent.typed = chat.typed
      /\ sent.listed = chat.listed /\ sent.asked = question
  BY <1>4, <1>5 DEF Sound, IsChat, IsRecord, Asked, SameStack
<1> HIDE DEF sent, question
<1>7. /\ IsChat(stated) /\ SameStack(chat, stated) /\ stated.card = chat.card /\ stated.cut
      /\ stated.form = "AUCTION_DURATION" /\ stated.data = chat.data
      /\ stated.typed = chat.typed /\ stated.listed = chat.listed /\ stated.asked = question
  BY <1>5, <1>6 DEF IsChat, IsRecord, SameStack
<1> HIDE DEF stated
<1>8. Sound(sent)
  BY <1>4, <1>6, CutSound
<1>9. Sound(stated)
  <2>1. "AUCTION_DURATION" \in DOMAIN ListingKeys /\ IsDictionary(chat.typed)
    BY <1>4, FormKeys DEF Sound, DataSound
  <2> QED BY <1>3, <1>4, <1>5, <1>7, <2>1, CutPlainSound
<1> DEFINE kept == Takes(stated, "start_price", price)
           final == taken(price)
<1>10. /\ Sound(kept) /\ kept.form = "AUCTION_DURATION" /\ kept.asked = question
       /\ kept.data = With(chat.data, "start_price", price)
       /\ kept.typed = With(chat.typed, "start_price", price)
       /\ SameStack(stated, kept) /\ kept.card = chat.card /\ kept.listed = chat.listed
  <2>1. /\ stated.form \in DOMAIN ListingKeys /\ "start_price" \in TermKey
        /\ "start_price" \in ListingKeys[stated.form]
    BY <1>7 DEF ListingKeys, TermKey
  <2> QED BY <1>7, <1>9, <2>1, TakesSound
<1>11. final = [kept EXCEPT !.cut = chat.cut]
  OBVIOUS
<1> HIDE DEF kept, final
<1>12. /\ IsChat(final) /\ final.form = "AUCTION_DURATION" /\ final.asked = question
       /\ final.data = kept.data /\ final.typed = kept.typed /\ final.cut = chat.cut
       /\ SameStack(stated, final) /\ final.card = chat.card /\ final.listed = chat.listed
  BY <1>4, <1>10, <1>11 DEF Sound, IsChat, IsRecord, SameStack
<1>13. CASE chat.cut
  <2>1. Sound(final)
    BY <1>10, <1>12, <1>13, CutSound DEF SameStack
  <2>2. Inv' /\ chat' \in {sent, stated, final}
    BY <1>1, <1>8, <1>9, <1>13, <2>1, InvSound, ThreeSteps DEF final
  <2> QED BY <1>6, <1>7, <1>12, <2>2 DEF Unlisted
<1>14. CASE ~chat.cut
  <2>1. /\ "plate_id" \in DOMAIN chat.data /\ chat.data["plate_id"] = Last(item)
        /\ DOMAIN chat.data \subseteq {"plate_id"} /\ chat.typed = TermsOf(chat.data)
        /\ IsDictionary(chat.data)
    <3>1. chat.form # None /\ chat.form \notin PlainForm /\ ItemKey[chat.form] = "plate_id"
      BY <1>2, FormKeys, FormTypes
    <3> QED BY <1>2, <1>4, <1>14, <3>1 DEF Sound, FormMatches, DataSound, ListingKeys
  <2>2. /\ DOMAIN final.data \subseteq {"plate_id", "start_price"}
        /\ "plate_id" \in DOMAIN final.data /\ final.data["plate_id"] = Last(item)
    BY <1>10, <1>12, <2>1 DEF With
  <2>3. final.typed = TermsOf(final.data)
    BY <1>10, <1>12, <2>1, WithTerm DEF TermKey
  <2>4. IsDictionary(final.data) /\ IsDictionary(final.typed)
    BY <1>10, <1>12 DEF Sound, DataSound
  <2>5. DataSound(final)
    <3>1. DOMAIN final.data \subseteq ListingKeys[final.form]
      BY <1>12, <2>2 DEF ListingKeys
    <3> QED BY <1>5, <1>12, <2>3, <2>4, <3>1, FormKeys DEF DataSound
  <2>6. FormMatches(final)
    <3>1. ItemKey[final.form] = "plate_id"
      BY <1>12, FormKeys
    <3> QED BY <1>12, <2>2, <3>1 DEF FormMatches, question
  <2>7. StackSound(final)
    BY <1>9, <1>12 DEF StackSound, SameStack, Sound
  <2>8. Sound(final) /\ Settled(final)
    BY <1>3, <1>12, <1>14, <2>5, <2>6, <2>7 DEF Sound, CardSound, Settled
  <2>9. Inv' /\ chat' \in {sent, stated, final}
    BY <1>1, <1>8, <1>9, <2>8, ThreeSteps DEF final
  <2> QED BY <1>6, <1>7, <1>12, <2>9 DEF Unlisted
<1> QED BY <1>13, <1>14

-----------------------------------------------------------------------------
(* Confirmations                                                           *)

LEMMA AfterListingKeeps ==
  ASSUME Inv, NEW p, NEW terms, NEW screen, IsScreen(screen),
         AfterListing(Listed(chat, p, terms), screen)
  PROVE  Inv' /\ chat'.listed = <<p, terms>>
<1> DEFINE done == Listed(chat, p, terms)
<1>1. Sound(done) /\ done.listed = <<p, terms>>
  BY InvSound, ListedSound
<1>2. PICK card \in Cards(Buttons(screen)) :
        LET cleared == Cleared(done)
            replaced == Replaces(cleared, screen)
        IN Handles(<<done, cleared, replaced, Shown(replaced, card)>>)
  BY DEF AfterListing
<1> HIDE DEF done
<1>3. PlainCard(card)
  BY ScreenCards
<1> QED BY <1>1, <1>2, <1>3, ReplacedKeeps

SaleTerms == [price |-> chat.data["price"]]

AuctionTerms == [start_price |-> chat.data["start_price"], duration |-> chat.data["duration"]]

LEMMA SaleConfirmKeeps ==
  ASSUME Inv, SaleConfirm
  PROVE  /\ Inv'
         /\ "price" \in DOMAIN chat.data
         /\ \E b \in chat.card.buttons :
              Head(b) = "sale:confirm" /\ chat'.listed = <<b[2], SaleTerms>>
<1>1. PICK b \in Pressed({"sale:confirm"}) :
        AfterListing(Listed(chat, b[2], SaleTerms), <<"PLATE_VIEW", b[2]>>)
  BY DEF SaleConfirm, SaleTerms
<1>2. b \in chat.card.buttons /\ Head(b) = "sale:confirm" /\ "price" \in DOMAIN chat.data
  BY DEF Pressed, SaleConfirm, Known
<1>3. IsScreen(<<"PLATE_VIEW", b[2]>>)
  BY DEF IsScreen
<1>4. Inv' /\ chat'.listed = <<b[2], SaleTerms>>
  BY <1>1, <1>3, AfterListingKeeps
<1> QED BY <1>2, <1>4

LEMMA AuctionConfirmKeeps ==
  ASSUME Inv, AuctionConfirm
  PROVE  /\ Inv'
         /\ {"start_price", "duration"} \subseteq DOMAIN chat.data
         /\ \E b \in chat.card.buttons :
              Head(b) = "auction:confirm" /\ chat'.listed = <<b[2], AuctionTerms>>
<1>1. PICK b \in Pressed({"auction:confirm"}), a \in Auction :
        AfterListing(Listed(chat, b[2], AuctionTerms), <<"AUCTION_VIEW", a>>)
  BY DEF AuctionConfirm, AuctionTerms
<1>2. /\ b \in chat.card.buttons /\ Head(b) = "auction:confirm"
      /\ {"start_price", "duration"} \subseteq DOMAIN chat.data
  BY DEF Pressed, AuctionConfirm, Known
<1>3. IsScreen(<<"AUCTION_VIEW", a>>)
  BY DEF IsScreen
<1>4. Inv' /\ chat'.listed = <<b[2], AuctionTerms>>
  BY <1>1, <1>3, AfterListingKeeps
<1> QED BY <1>2, <1>4

LEMMA AuctionCancelKeeps == ASSUME Inv, AuctionCancel PROVE Inv' /\ Unlisted
<1> DEFINE back == GoesBack(chat)
<1>1. PICK card \in Cards(Restored(back.last)) : Handles(<<chat, back, Shown(back, card)>>)
  BY DEF AuctionCancel
<1>2. Sound(back) /\ SameQuestion(chat, back) /\ back.listed = chat.listed /\ IsScreen(back.last)
  BY InvSound, GoesBackSound
<1> HIDE DEF back
<1>3. PlainCard(card)
  BY <1>2, ScreenCards
<1> QED BY <1>1, <1>2, <1>3, ShownAfterCommand

-----------------------------------------------------------------------------
(* The administrator's forms and buttons                                   *)

LEMMA AdminAnswerKeeps == ASSUME Inv, NEW f, AdminAnswer(f) PROVE Inv' /\ Unlisted
<1> DEFINE done == CarriedOut(chat)
           cleared == Cleared(done)
<1>1. PICK card \in Cards(AdminHomeButtons) : Handles(<<done, cleared, Shown(cleared, card)>>)
  BY DEF AdminAnswer, CleanedUp
<1>2. Sound(done) /\ done.listed = chat.listed
  BY InvSound, CarriedOutSound
<1> HIDE DEF done
<1>3. Sound(cleared) /\ cleared.form = None /\ ~cleared.cut /\ cleared.listed = chat.listed
  BY <1>2, ClearedSound
<1> HIDE DEF cleared
<1>4. PlainCard(card)
  BY FixedCards
<1> DEFINE shown == Shown(cleared, card)
<1>5. Sound(shown) /\ Settled(shown) /\ shown.listed = chat.listed
  BY <1>3, <1>4, ClearedLast
<1> HIDE DEF shown
<1>6. Inv' /\ chat' \in {done, cleared, shown}
  BY <1>1, <1>2, <1>3, <1>5, ThreeSteps DEF shown
<1> QED BY <1>2, <1>3, <1>5, <1>6 DEF Unlisted

LEMMA AdminSkipKeeps == ASSUME Inv, AdminSkip PROVE Inv' /\ Unlisted
<1> DEFINE cleared == Cleared(chat)
<1>1. PICK card \in Cards(AdminHomeButtons) : Handles(<<cleared, Shown(cleared, card)>>)
  BY DEF AdminSkip, CleanedUp
<1>2. Sound(cleared) /\ cleared.form = None /\ ~cleared.cut /\ cleared.listed = chat.listed
  BY InvSound, ClearedSound
<1> HIDE DEF cleared
<1>3. PlainCard(card)
  BY FixedCards
<1> DEFINE shown == Shown(cleared, card)
<1>4. Sound(shown) /\ Settled(shown) /\ shown.listed = chat.listed
  BY <1>2, <1>3, ClearedLast
<1> HIDE DEF shown
<1>5. Inv' /\ chat' \in {cleared, shown}
  BY <1>1, <1>2, <1>4, TwoSteps DEF shown
<1> QED BY <1>2, <1>4, <1>5 DEF Unlisted

LEMMA AsksForImageKeeps ==
  ASSUME Inv, NEW f \in PlainForm, NEW image \in Form, NEW id, AsksForImage(f, image, id)
  PROVE  Inv' /\ Unlisted
<1> DEFINE item == <<id>>
           done == CarriedOut(chat)
           sent == Asked(done, image, item)
           stated == [sent EXCEPT !.form = image]
           final == [stated EXCEPT !.data = DataOf(image, item), !.cut = FALSE]
           question == [form |-> image, item |-> item, answered |-> FALSE]
<1>1. Handles(<<done, sent, stated, final>>) /\ chat.form = f
  BY DEF AsksForImage, Answers
<1>2. f \notin DOMAIN ListingKeys /\ f \notin {None, "SALE_PRICE", "AUCTION_DURATION"}
  BY FormKeys, FormTypes
<1>3. IsPlain(chat.card.buttons) /\ chat.typed = NoData
  BY <1>1, <1>2, InvSound, OpenFormIsPlain DEF Sound, DataSound
<1>4. IsRecord(question, {"form", "item", "answered"}) /\ image # None
  BY FormTypes DEF IsRecord
<1> HIDE DEF item
<1>5. /\ Sound(done) /\ done.cut /\ done.form = f /\ done.data = chat.data /\ done.typed = NoData
      /\ SameStack(chat, done) /\ done.card = chat.card /\ done.listed = chat.listed
  BY <1>1, <1>3, InvSound, CarriedOutSound
<1> HIDE DEF done
<1>6. /\ IsChat(sent) /\ SameStack(done, sent) /\ sent.card = chat.card /\ sent.cut
      /\ sent.form = f /\ sent.data = done.data /\ sent.typed = NoData
      /\ sent.listed = chat.listed /\ sent.asked = question
  BY <1>4, <1>5 DEF Sound, IsChat, IsRecord, Asked, SameStack
<1> HIDE DEF sent
<1>7. /\ IsChat(stated) /\ SameStack(done, stated) /\ stated.card = chat.card /\ stated.cut
      /\ stated.form = image /\ stated.data = done.data /\ stated.typed = NoData
      /\ stated.listed = chat.listed /\ stated.asked = question
  BY <1>4, <1>6 DEF IsChat, IsRecord, SameStack
<1> HIDE DEF stated
<1>8. /\ IsChat(final) /\ SameStack(done, final) /\ final.card = chat.card /\ ~final.cut
      /\ final.form = image /\ final.data = DataOf(image, item) /\ final.typed = NoData
      /\ final.listed = chat.listed /\ final.asked = question
  BY <1>7 DEF IsChat, IsRecord, SameStack
<1> HIDE DEF final
<1>9. Sound(sent)
  BY <1>5, <1>6, CutSound
<1>10. Sound(stated)
  BY <1>3, <1>4, <1>5, <1>7, NoDataIsEmpty, CutPlainSound
<1>11. Sound(final) /\ Settled(final)
  BY <1>3, <1>5, <1>8, OpenedSound
<1>12. Inv' /\ chat' \in {done, sent, stated, final}
  BY <1>1, <1>5, <1>9, <1>10, <1>11, FourSteps
<1> QED BY <1>5, <1>6, <1>7, <1>8, <1>12 DEF Unlisted

LEMMA ImageInputsKeep ==
  ASSUME Inv, AdminCardInput \/ AdminBannerInput PROVE Inv' /\ Unlisted
<1>1. /\ {"ADMIN_CARD_TEXT", "ADMIN_BANNER_TEXT"} \subseteq PlainForm
      /\ {"ADMIN_CARD_IMAGE", "ADMIN_BANNER_IMAGE"} \subseteq Form
  BY FormKeys, FormTypes DEF PlainForm
<1> QED BY <1>1, AsksForImageKeeps DEF AdminCardInput, AdminBannerInput

LEMMA ReopenedIsScreen ==
  ASSUME NEW key \in DOMAIN Reopened, NEW x
  PROVE  IsScreen(<<Reopened[key], x>>)
<1>1. Reopened[key] \in {"ADMIN_PLATE_VIEW", "ADMIN_AUCTION_VIEW"}
  BY TableRow DEF Reopened
<1> QED BY <1>1 DEF IsScreen

LEMMA AdminCommandKeeps == ASSUME Inv, AdminCommand PROVE Inv' /\ Unlisted
<1>1. PICK b \in Pressed(DOMAIN Reopened) :
        LET screen == <<Reopened[Head(b)], b[2]>>
            pushed == Pushes(chat, screen)
        IN \E card \in Cards(Buttons(screen)) : Handles(<<chat, pushed, Shown(pushed, card)>>)
  BY DEF AdminCommand
<1> DEFINE screen == <<Reopened[Head(b)], b[2]>>
           pushed == Pushes(chat, screen)
<1>2. PICK card \in Cards(Buttons(screen)) : Handles(<<chat, pushed, Shown(pushed, card)>>)
  BY <1>1
<1>3. IsScreen(screen)
  BY ReopenedIsScreen DEF Pressed
<1> HIDE DEF screen
<1>4. PlainCard(card)
  BY <1>3, ScreenCards
<1>5. Sound(pushed) /\ SameQuestion(chat, pushed) /\ pushed.listed = chat.listed
  BY <1>3, InvSound, PushesSound
<1> HIDE DEF pushed
<1> QED BY <1>2, <1>4, <1>5, ShownAfterCommand

LEMMA AdminBlacklistRemoveKeeps == ASSUME Inv, AdminBlacklistRemove PROVE Inv' /\ Unlisted
<1> DEFINE pushed == Pushes(chat, <<"ADMIN_BLACKLISTS">>)
<1>1. PICK card \in Cards(BlacklistButtons) : Handles(<<chat, pushed, Shown(pushed, card)>>)
  BY DEF AdminBlacklistRemove
<1>2. Sound(pushed) /\ SameQuestion(chat, pushed) /\ pushed.listed = chat.listed
  <2>1. IsScreen(<<"ADMIN_BLACKLISTS">>)
    BY DEF IsScreen
  <2> QED BY <2>1, InvSound, PushesSound
<1>3. PlainCard(card)
  BY FixedCards
<1> HIDE DEF pushed
<1> QED BY <1>1, <1>2, <1>3, ShownAfterCommand

LEMMA AdminUnblockKeeps == ASSUME Inv, AdminUnblock PROVE Inv' /\ Unlisted
<1> DEFINE shown(card) == Shown(chat, card)
<1>1. PICK card \in Cards(AdminHomeButtons) : Handles(<<chat, shown(card)>>)
  BY DEF AdminUnblock
<1>2. PlainCard(card)
  BY FixedCards
<1>3. SameQuestion(chat, chat)
  BY DEF SameQuestion
<1> QED BY <1>1, <1>2, <1>3, InvSound, ShownAfter

-----------------------------------------------------------------------------
(* The invariant, and what it says                                         *)

LEMMA InitSound == Init => Inv
<1> SUFFICES ASSUME Init PROVE Inv
  OBVIOUS
<1>1. PICK card \in Cards(HomeButtons) :
        chat = [form |-> None, data |-> NoData, stack |-> <<Home>>, last |-> Home, card |-> card,
                asked |-> Unasked, typed |-> NoData, cut |-> FALSE, listed |-> <<>>]
  BY DEF Init
<1>2. PlainCard(card)
  BY FixedCards
<1>3. IsChat(chat)
  BY <1>1, <1>2 DEF IsChat, IsRecord, PlainCard, Unasked
<1>4. StackSound(chat)
  BY <1>1, HomeIsStack, StackOfSound
<1>5. FormMatches(chat) /\ CardSound(chat)
  BY <1>1, <1>2 DEF FormMatches, CardSound, PlainCard
<1>6. DataSound(chat)
  <2>1. None \notin DOMAIN ListingKeys
    BY FormKeys, FormTypes
  <2> QED BY <1>1, <2>1, NoDataIsEmpty DEF DataSound
<1>7. breaks = 0 /\ Settled(chat)
  BY <1>1, <1>2 DEF Init, Settled, PlainCard
<1> QED BY <1>3, <1>4, <1>5, <1>6, <1>7, BreaksAreBounded DEF Inv, Sound

\* Every step but the two that confirm a listing.
LEMMA OthersKeep ==
  ASSUME Inv, Next, ~SaleConfirm, ~AuctionConfirm PROVE Inv' /\ Unlisted
<1>1. CASE OpenScreen \/ NavigationHome \/ NavigationBack \/ OpenUnstacked
  BY <1>1, OpenScreenKeeps, NavigationHomeKeeps, NavigationBackKeeps, OpenUnstackedKeeps
<1>2. CASE Ask \/ AskTopUp
  BY <1>2, AskKeeps, AskTopUpKeeps
<1>3. CASE SearchInput \/ TopUpInput \/ BidInput
  BY <1>3, SearchInputKeeps, TopUpInputKeeps, BidInputKeeps
<1>4. CASE SalePriceInput \/ AuctionPriceInput \/ AuctionDurationInput
  BY <1>4, SalePriceInputKeeps, AuctionPriceInputKeeps, AuctionDurationInputKeeps
<1>5. CASE AuctionCancel
  BY <1>5, AuctionCancelKeeps
<1>6. CASE \/ AdminBalanceInput \/ AdminBlockInput \/ AdminBlacklistInput \/ AdminSettingInput
           \/ AdminTransferInput \/ AdminCardImage \/ AdminBannerImage
  BY <1>6, AdminAnswerKeeps
  DEF AdminBalanceInput, AdminBlockInput, AdminBlacklistInput, AdminSettingInput,
      AdminTransferInput, AdminCardImage, AdminBannerImage
<1>7. CASE AdminCardInput \/ AdminBannerInput
  BY <1>7, ImageInputsKeep
<1>8. CASE AdminSkip \/ AdminCommand \/ AdminBlacklistRemove \/ AdminUnblock
  BY <1>8, AdminSkipKeeps, AdminCommandKeeps, AdminBlacklistRemoveKeeps, AdminUnblockKeeps
<1>9. CASE PaymentArrives \/ FormIsLost
  BY <1>9, PaymentArrivesKeeps, FormIsLostKeeps
<1> QED BY <1>1, <1>2, <1>3, <1>4, <1>5, <1>6, <1>7, <1>8, <1>9 DEF Next

\* Wherever a handler breaks off it leaves a sound conversation; and as long as
\* none did, Redis shows what was asked and the card what was typed (handlers.py).
THEOREM InvariantHolds == Spec => []Inv
<1>1. Init => Inv
  BY InitSound
<1>2. Inv /\ [Next]_vars => Inv'
  <2> SUFFICES ASSUME Inv, [Next]_vars PROVE Inv'
    OBVIOUS
  <2>1. CASE UNCHANGED vars
    BY <2>1 DEF Inv, vars
  <2>2. CASE Next
    BY <2>2, SaleConfirmKeeps, AuctionConfirmKeeps, OthersKeep
  <2> QED BY <2>1, <2>2
<1> QED BY <1>1, <1>2, PTL DEF Spec

\* The stack has a screen on top, which users.last_screen names, and never more
\* than Depth; the form is one of InputState (navigation.py, states.py).
THEOREM TypeCorrect == Spec => []TypeOK
<1>1. Inv => TypeOK
  BY DEF Inv, Sound, IsChat, StackSound, DataSound, IsDictionary, TypeOK
<1> QED BY <1>1, InvariantHolds, PTL

\* The open form is that of the last question, about the same row, and was not
\* answered yet, unless a handler broke off on the way (_prompt, _cleanup_input).
THEOREM AnswersReachTheirQuestion == Spec => []FormMatchesQuestion
<1>1. Inv => FormMatchesQuestion
  BY DEF Inv, Sound, FormMatches, FormMatchesQuestion, Known, Given
<1> QED BY <1>1, InvariantHolds, PTL

\* A number a card offers is spelled as it will be stored, although the card was
\* drawn from a query on the stack that was typed long before (search_results).
THEOREM OffersStayBuyable == Spec => []OffersAreBuyable
<1>1. Inv => OffersAreBuyable
  <2> SUFFICES ASSUME Inv PROVE OffersAreBuyable
    OBVIOUS
  <2>1. CASE IsPlain(chat.card.buttons)
    BY <2>1 DEF IsPlain, OffersAreBuyable
  <2>2. CASE IsConfirmation(chat)
    BY <2>2 DEF IsConfirmation, Confirms, OffersAreBuyable
  <2> QED BY <2>1, <2>2 DEF Inv, Sound, CardSound
<1> QED BY <1>1, InvariantHolds, PTL

\* The plate of a button that confirms and the terms in Redis are what was asked
\* about and typed.
LEMMA ConfirmedAsTyped ==
  ASSUME Inv, NEW b \in chat.card.buttons, Head(b) \in Confirms, NEW terms, ~chat.cut,
         chat.form = ConfirmedForm(Head(b)) => chat.typed = terms,
         DOMAIN chat.data # {}
  PROVE  /\ <<b[2], terms>> = <<Last(chat.asked.item), chat.typed>>
         /\ breaks > 0 \/ chat.card.terms = chat.typed
<1>1. chat.form = ConfirmedForm(Head(b)) /\ chat.data["plate_id"] = b[2]
  BY InvSound, ConfirmedIsOpen
<1>2. /\ chat.form # None /\ chat.form \notin PlainForm
      /\ ItemKey[chat.form] = "plate_id"
  BY <1>1, FormKeys, FormTypes DEF ConfirmedForm
<1>3. b[2] = Last(chat.asked.item)
  BY <1>1, <1>2, InvSound DEF Sound, FormMatches
<1>4. breaks > 0 \/ chat.card.terms = chat.typed
  <2>1. ~IsPlain(chat.card.buttons)
    BY DEF IsPlain
  <2> QED BY <1>2, <2>1 DEF Inv, Settled
<1> QED BY <1>1, <1>3, <1>4

\* What is listed is the plate the last question was about, on the terms typed
\* since, however old the button is that was pressed; and, if no handler broke off,
\* on the terms the card shows (sale_confirm, auction_confirm).
THEOREM ListingsAreAsTyped == Spec => ListedAsTyped
<1>1. Inv /\ [Next]_vars =>
        [chat'.listed \notin {chat.listed, <<>>} /\ ~chat.cut =>
           /\ chat'.listed = <<Last(chat.asked.item), chat.typed>>
           /\ breaks > 0 \/ chat.card.terms = chat.typed]_vars
  <2> SUFFICES ASSUME Inv, Next, ~Unlisted, ~chat.cut
               PROVE  /\ chat'.listed = <<Last(chat.asked.item), chat.typed>>
                      /\ breaks > 0 \/ chat.card.terms = chat.typed
    BY DEF Unlisted
  <2>1. SaleConfirm \/ AuctionConfirm
    BY OthersKeep
  <2>2. CASE SaleConfirm
    <3>1. PICK b \in chat.card.buttons :
            Head(b) = "sale:confirm" /\ chat'.listed = <<b[2], SaleTerms>>
      BY <2>2, SaleConfirmKeeps
    <3>2. "price" \in DOMAIN chat.data
      BY <2>2, SaleConfirmKeeps
    <3>3. chat.form = "SALE_PRICE" => chat.typed = SaleTerms
      <4> SUFFICES ASSUME chat.form = "SALE_PRICE" PROVE chat.typed = SaleTerms
        OBVIOUS
      <4>1. DOMAIN chat.typed \subseteq {"price"} /\ chat.typed = [k \in DOMAIN chat.typed |-> chat.typed[k]]
        BY InvSound, TypedTerms DEF Sound, DataSound, IsDictionary
      <4>2. "price" \in DOMAIN chat.typed /\ chat.typed["price"] = chat.data["price"]
        BY <3>2, InvSound, TypedTerms DEF TermKey
      <4> QED BY <4>1, <4>2 DEF SaleTerms
    <3> QED BY <3>1, <3>2, <3>3, ConfirmedAsTyped DEF Confirms, ConfirmedForm
  <2>3. CASE AuctionConfirm
    <3>1. PICK b \in chat.card.buttons :
            Head(b) = "auction:confirm" /\ chat'.listed = <<b[2], AuctionTerms>>
      BY <2>3, AuctionConfirmKeeps
    <3>2. {"start_price", "duration"} \subseteq DOMAIN chat.data
      BY <2>3, AuctionConfirmKeeps
    <3>3. chat.form = "AUCTION_DURATION" => chat.typed = AuctionTerms
      <4> SUFFICES ASSUME chat.form = "AUCTION_DURATION" PROVE chat.typed = AuctionTerms
        OBVIOUS
      <4>1. /\ DOMAIN chat.typed \subseteq {"start_price", "duration"}
            /\ chat.typed = [k \in DOMAIN chat.typed |-> chat.typed[k]]
        BY InvSound, TypedTerms DEF Sound, DataSound, IsDictionary
      <4>2. \A key \in {"start_price", "duration"} :
              key \in DOMAIN chat.typed /\ chat.typed[key] = chat.data[key]
        BY <3>2, InvSound, TypedTerms DEF TermKey
      <4> QED BY <4>1, <4>2 DEF AuctionTerms
    <3> QED BY <3>1, <3>2, <3>3, ConfirmedAsTyped DEF Confirms, ConfirmedForm
  <2> QED BY <2>1, <2>2, <2>3
<1> QED BY <1>1, InvariantHolds, PTL DEF Spec, ListedAsTyped

=============================================================================

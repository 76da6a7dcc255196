------------------------------ MODULE Dialogue ------------------------------
(***************************************************************************)
(* The conversation of one user with the bot                               *)
(* (app/presentation/handlers.py and states.py): the one message that is   *)
(* edited from screen to screen, the stack of screens in the table users,  *)
(* and the form the user is filling in, which Redis keeps as a state and   *)
(* a dictionary.                                                           *)
(*                                                                         *)
(* A handler writes to Telegram, Redis and the database in turn, and may   *)
(* break off after any of these writes: Telegram or Redis fails, or the    *)
(* process stops.  It is the sequence of the conversations it goes         *)
(* through, and its action ends in one of them (Handles).  What the        *)
(* services answer depends on rows this module does not hold: a command    *)
(* succeeds, or it raises and nothing happens but a message.               *)
(*                                                                         *)
(* One update of the user is handled at a time.                            *)
(***************************************************************************)
EXTENDS Screens

CONSTANTS
  Text,       \* the texts the user searches for
  Price,      \* the prices and
  Hours,      \* the durations the user types
  Item,       \* the ids of interface cards and banners
  None,       \* no form
  MaxBreaks   \* bound of the handlers that break off

VARIABLES
  chat,       \* the conversation
  breaks      \* how many handlers broke off

vars == <<chat, breaks>>

\* InputState, and the entry of the dictionary each form's handler reads.
ItemKey ==
  [SEARCH_QUERY |-> "country", SALE_PRICE |-> "plate_id", AUCTION_START_PRICE |-> "plate_id",
   AUCTION_DURATION |-> "plate_id", BID_AMOUNT |-> "auction_id", ADMIN_BALANCE |-> "target_id",
   ADMIN_BLOCK_REASON |-> "target_id", ADMIN_TRANSFER |-> "plate_id",
   ADMIN_CARD_IMAGE |-> "card_id", ADMIN_BANNER_IMAGE |-> "banner_id"]

\* The forms whose handler reads nothing.
PlainForm ==
  {"TOPUP_AMOUNT", "ADMIN_BLACKLIST_SERIES", "ADMIN_SETTING", "ADMIN_CARD_TEXT",
   "ADMIN_BANNER_TEXT"}

Form == DOMAIN ItemKey \cup PlainForm

\* What the constants stand for.
ASSUME NoneIsNoForm == None \notin Form
ASSUME TextsAreTexts == Text \subseteq Seq(Character)
ASSUME BreaksAreBounded == MaxBreaks \in Nat

Key == {ItemKey[f] : f \in DOMAIN ItemKey} \cup {"price", "start_price", "duration"}

\* A dictionary of one entry, none, and one entry more.
Entry(key, value) == [k \in {key} |-> value]
NoData == [k \in {} |-> None]
With(data, key, value) ==
  [k \in DOMAIN data \cup {key} |-> IF k = key THEN value ELSE data[k]]

\* The fields of chat:
\*   form, data   the state and the dictionary of the form, in Redis
\*   stack, last  users.screen_stack and users.last_screen
\*   card         the message: its buttons, and the terms it asks to confirm
\* and what has happened:
\*   asked        the last question the bot sent: its form, what it is about,
\*                and whether an answer to it was carried out
\*   typed        the prices and durations it took since it first asked
\*   cut          a handler that has asked, or carried out an answer, broke off
\*                before it wrote that to Redis
\*   listed       the listing that was confirmed since: its plate and terms
\* Terms are a dictionary, of a price or of a start price and a duration.
TypeOK ==
  /\ chat.form \in Form \cup {None}
  /\ DOMAIN chat.data \subseteq Key
  /\ Len(chat.stack) \in 1..Depth
  /\ chat.last = Last(chat.stack)
  /\ chat.asked.form \in Form \cup {None}
  /\ chat.cut \in BOOLEAN
  /\ breaks \in 0..MaxBreaks

Unasked == [form |-> None, item |-> <<>>, answered |-> FALSE]

Card(buttons) == [buttons |-> buttons, terms |-> NoData]

Cards(S) == {Card(buttons) : buttons \in S}

\* The message and the stack of a user who has used the bot before.
Init ==
  /\ \E card \in Cards(HomeButtons) :
       chat = [form |-> None, data |-> NoData, stack |-> <<Home>>, last |-> Home, card |-> card,
               asked |-> Unasked, typed |-> NoData, cut |-> FALSE, listed |-> <<>>]
  /\ breaks = 0

\* A handler that goes through these conversations; it does or does not get to
\* the last one.
Handles(steps) ==
  \E k \in DOMAIN steps :
    /\ chat' = steps[k]
    /\ breaks' = IF k = Len(steps) THEN breaks ELSE breaks + 1
    /\ breaks' <= MaxBreaks

\* The user presses a button of the message.
Pressed(kinds) == {b \in chat.card.buttons : Head(b) \in kinds}

-----------------------------------------------------------------------------
(* What handlers are made of                                               *)

Shown(c, card) == [c EXCEPT !.card = card]

Pushes(c, screen) == [c EXCEPT !.stack = Pushed(@, screen), !.last = screen]

Replaces(c, screen) == [c EXCEPT !.stack = Replaced(@, screen), !.last = screen]

\* state.clear closes the question.
Cleared(c) ==
  [c EXCEPT !.form = None, !.data = NoData, !.cut = FALSE, !.asked = Unasked, !.typed = NoData]

\* Mutant: _cleanup_input leaves the form.
NotCleared(c) == [c EXCEPT !.cut = FALSE]

\* _cleanup_input
CleanedUp(c) == Cleared(c)

\* A command of a service was carried out; Redis does not show it yet.
CarriedOut(c) == [c EXCEPT !.asked.answered = TRUE, !.cut = TRUE]

\* The bot asks for the form f, about the item.
Asked(c, f, item) ==
  [c EXCEPT !.asked = [form |-> f, item |-> item, answered |-> FALSE], !.cut = TRUE]

\* The dictionary of the form f about the item.
DataOf(f, item) == IF f \in PlainForm THEN NoData ELSE Entry(ItemKey[f], Last(item))

\* _prompt: the question is sent before the state and the data are set.
Prompts(c, f, item) ==
  LET sent == [Asked(c, f, item) EXCEPT !.typed = NoData, !.listed = <<>>]
      stated == [sent EXCEPT !.form = f]
  IN <<sent, stated, [stated EXCEPT !.data = DataOf(f, item), !.cut = FALSE]>>

\* update_data.  Mutant: an entry that is there already stays.
Kept(c, key, value) == IF key \in DOMAIN c.data THEN c ELSE [c EXCEPT !.data = With(@, key, value)]

Updated(c, key, value) == [c EXCEPT !.data = With(@, key, value)]

Known(key) == key \in DOMAIN chat.data

\* The handler of an open form runs; without its entry it fails (KeyError).
Answers(f) == chat.form = f /\ (f \in DOMAIN ItemKey => Known(ItemKey[f]))

Given(f) == chat.data[ItemKey[f]]

-----------------------------------------------------------------------------
(* Screens                                                                 *)

OpenScreen ==
  \E b \in Pressed(DOMAIN ScreenNames) : \E card \in Cards(Buttons(Opened(b))) :
    LET pushed == Pushes(chat, Opened(b)) IN Handles(<<pushed, Shown(pushed, card)>>)

NavigationHome ==
  /\ Pressed({"nav:home"}) # {}
  /\ \E card \in Cards(HomeButtons) :
       LET home == [chat EXCEPT !.stack = <<Home>>, !.last = Home]
       IN Handles(<<home, Shown(home, card)>>)

\* back, and the card of the screen that is current then.
GoesBack(c) == [c EXCEPT !.stack = Popped(@), !.last = Last(Popped(c.stack))]

NavigationBack ==
  /\ Pressed({"nav:back"}) # {}
  /\ LET back == GoesBack(chat) IN
     \E card \in Cards(Restored(back.last)) : Handles(<<back, Shown(back, card)>>)

\* balance_history and admin_banners draw a screen that is not on the stack.
OpenUnstacked ==
  \/ /\ Pressed({"balance:history"}) # {}
     /\ \E card \in Cards(BalanceHistoryButtons) : Handles(<<Shown(chat, card)>>)
  \/ /\ Pressed({"admin:banners"}) # {}
     /\ \E card \in Cards(BannersButtons) : Handles(<<Shown(chat, card)>>)

-----------------------------------------------------------------------------
(* Questions                                                               *)

PlayerQuestions ==
  {<<"search:country", "SEARCH_QUERY">>, <<"sale:create", "SALE_PRICE">>,
   <<"auction:create", "AUCTION_START_PRICE">>, <<"auction:bid", "BID_AMOUNT">>}

AdminQuestions ==
  {<<"admin:balance", "ADMIN_BALANCE">>, <<"admin:block", "ADMIN_BLOCK_REASON">>,
   <<"admin:blacklist:add", "ADMIN_BLACKLIST_SERIES">>,
   <<"admin:setting:edit", "ADMIN_SETTING">>, <<"admin:card:edit", "ADMIN_CARD_TEXT">>,
   <<"admin:banner:new", "ADMIN_BANNER_TEXT">>, <<"admin:transfer", "ADMIN_TRANSFER">>}

Questions == Table(PlayerQuestions \cup AdminQuestions)

Ask ==
  \E b \in Pressed(DOMAIN Questions) : Handles(Prompts(chat, Questions[Head(b)], Tail(b)))

AskTopUp ==
  /\ Pressed({"balance:topup"}) # {}
  /\ LET pushed == Pushes(chat, <<"BALANCE_TOPUP">>)
     IN Handles(<<pushed>> \o Prompts(pushed, "TOPUP_AMOUNT", <<>>))

-----------------------------------------------------------------------------
(* Answers.  One that is refused changes nothing.                          *)

\* The parts of a number, or a number, under its one spelling.
SearchInput ==
  /\ Answers("SEARCH_QUERY")
  /\ \E text \in Text :
       LET country == Given("SEARCH_QUERY")
           query == Query(country, text)
           results == <<"SEARCH_RESULTS", country, query>>
           pushed == Pushes(chat, results)
           cleared == CleanedUp(pushed)
       IN /\ query # Rejected
          /\ \E card \in Cards(Buttons(results)) :
               Handles(<<pushed, cleared, Shown(cleared, card)>>)

TopUpInput ==
  /\ Answers("TOPUP_AMOUNT")
  /\ LET booked == CarriedOut(chat)
         cleared == CleanedUp(booked)
         replaced == Replaces(cleared, <<"BALANCE">>)
     IN \E card \in Cards(BalanceButtons) :
          Handles(<<booked, cleared, replaced, Shown(replaced, card)>>)

BidInput ==
  /\ Answers("BID_AMOUNT")
  /\ LET screen == <<"AUCTION_VIEW", Given("BID_AMOUNT")>>
         placed == CarriedOut(chat)
         cleared == CleanedUp(placed)
         replaced == Replaces(cleared, screen)
     IN \E card \in Cards(Buttons(screen)) :
          Handles(<<placed, cleared, replaced, Shown(replaced, card)>>)

\* The card that asks to confirm a listing of p.
Confirmation(confirm, p, terms) ==
  [buttons |-> {<<confirm, p>>, <<"plate:view", p>>}, terms |-> terms]

\* An answer that is kept until all are confirmed.
Takes(c, key, value) == [Updated(c, key, value) EXCEPT !.typed = With(@, key, value)]

\* The form stays open: another price may be typed instead.
SalePriceInput ==
  /\ Answers("SALE_PRICE")
  /\ \E price \in Price :
       LET stored == Takes(chat, "price", price)
           card == Confirmation("sale:confirm", Given("SALE_PRICE"), [price |-> price])
       IN Handles(<<stored, Shown(stored, card)>>)

\* The second question of an auction.  The handler itself reads no plate.
AuctionPriceInput ==
  /\ chat.form = "AUCTION_START_PRICE"
  /\ \E price \in Price :
       LET sent == Asked(chat, "AUCTION_DURATION", chat.asked.item)
           stated == [sent EXCEPT !.form = "AUCTION_DURATION"]
       IN Handles(<<sent, stated, [Takes(stated, "start_price", price) EXCEPT !.cut = chat.cut]>>)

AuctionDurationInput ==
  /\ Answers("AUCTION_DURATION")
  /\ Known("start_price")
  /\ \E hours \in Hours :
       LET stored == Takes(chat, "duration", hours)
           terms == [start_price |-> chat.data["start_price"], duration |-> hours]
           card == Confirmation("auction:confirm", Given("AUCTION_DURATION"), terms)
       IN Handles(<<stored, Shown(stored, card)>>)

-----------------------------------------------------------------------------
(* Confirmations.  The plate is the button's, the terms are Redis's.       *)

Listed(c, p, terms) == [CarriedOut(c) EXCEPT !.listed = <<p, terms>>]

\* After the listing: clear, replace, show.
AfterListing(c, screen) ==
  LET cleared == Cleared(c)
      replaced == Replaces(cleared, screen)
  IN \E card \in Cards(Buttons(screen)) :
       Handles(<<c, cleared, replaced, Shown(replaced, card)>>)

SaleConfirm ==
  /\ Known("price")
  /\ \E b \in Pressed({"sale:confirm"}) :
       AfterListing(Listed(chat, b[2], [price |-> chat.data["price"]]), <<"PLATE_VIEW", b[2]>>)

AuctionConfirm ==
  /\ Known("start_price") /\ Known("duration")
  /\ \E b \in Pressed({"auction:confirm"}), a \in Auction :
       LET terms == [start_price |-> chat.data["start_price"], duration |-> chat.data["duration"]]
       IN AfterListing(Listed(chat, b[2], terms), <<"AUCTION_VIEW", a>>)

AuctionCancel ==
  /\ Pressed({"auction:cancel"}) # {}
  /\ LET back == GoesBack(chat) IN
     \E card \in Cards(Restored(back.last)) : Handles(<<chat, back, Shown(back, card)>>)

-----------------------------------------------------------------------------
(* The administrator's forms and buttons                                   *)

\* The command, and then the panel, which is not pushed.
AdminAnswer(f) ==
  /\ Answers(f)
  /\ LET done == CarriedOut(chat)
         cleared == CleanedUp(done)
     IN \E card \in Cards(AdminHomeButtons) : Handles(<<done, cleared, Shown(cleared, card)>>)

AdminBalanceInput == AdminAnswer("ADMIN_BALANCE")
AdminBlockInput == AdminAnswer("ADMIN_BLOCK_REASON")
AdminBlacklistInput == AdminAnswer("ADMIN_BLACKLIST_SERIES")
AdminSettingInput == AdminAnswer("ADMIN_SETTING")
AdminTransferInput == AdminAnswer("ADMIN_TRANSFER")

\* The text is stored, then the image is asked for; all the data are replaced.
AsksForImage(f, image, item) ==
  /\ Answers(f)
  /\ LET done == CarriedOut(chat)
         sent == Asked(done, image, <<item>>)
         stated == [sent EXCEPT !.form = image]
     IN Handles(<<done, sent, stated,
                  [stated EXCEPT !.data = DataOf(image, <<item>>), !.cut = FALSE]>>)

AdminCardInput == \E id \in Item : AsksForImage("ADMIN_CARD_TEXT", "ADMIN_CARD_IMAGE", id)

\* The id is that of the new banner.
AdminBannerInput == \E id \in Item : AsksForImage("ADMIN_BANNER_TEXT", "ADMIN_BANNER_IMAGE", id)

\* A photo, or /clear.
AdminCardImage == AdminAnswer("ADMIN_CARD_IMAGE")
AdminBannerImage == AdminAnswer("ADMIN_BANNER_IMAGE")

\* /skip reads no entry and carries nothing out.
AdminSkip ==
  /\ chat.form \in {"ADMIN_CARD_IMAGE", "ADMIN_BANNER_IMAGE"}
  /\ \E card \in Cards(AdminHomeButtons) :
       Handles(<<CleanedUp(chat), Shown(CleanedUp(chat), card)>>)

\* A command, then the screen of what it changed, pushed as if it was opened.
Reopened ==
  Table({<<"admin:return", "ADMIN_PLATE_VIEW">>, <<"admin:remove-sale", "ADMIN_PLATE_VIEW">>,
         <<"admin:auction:finish", "ADMIN_AUCTION_VIEW">>,
         <<"admin:auction:cancel", "ADMIN_AUCTION_VIEW">>})

AdminCommand ==
  \E b \in Pressed(DOMAIN Reopened) :
    LET screen == <<Reopened[Head(b)], b[2]>>
        pushed == Pushes(chat, screen)
    IN \E card \in Cards(Buttons(screen)) : Handles(<<chat, pushed, Shown(pushed, card)>>)

AdminBlacklistRemove ==
  /\ Pressed({"admin:blacklist:remove"}) # {}
  /\ LET pushed == Pushes(chat, <<"ADMIN_BLACKLISTS">>)
     IN \E card \in Cards(BlacklistButtons) : Handles(<<chat, pushed, Shown(pushed, card)>>)

AdminUnblock ==
  /\ Pressed({"admin:unblock"}) # {}
  /\ \E card \in Cards(AdminHomeButtons) : Handles(<<chat, Shown(chat, card)>>)

-----------------------------------------------------------------------------
(* successful_payment draws the current screen over whatever is shown.     *)
PaymentArrives ==
  \E card \in Cards(Restored(Last(chat.stack))) : Handles(<<Shown(chat, card)>>)

\* Redis loses the form: a restart without its data, or an administrator.
FormIsLost ==
  /\ chat' = Cleared(chat)
  /\ UNCHANGED breaks

Next ==
  \/ OpenScreen \/ NavigationHome \/ NavigationBack \/ OpenUnstacked
  \/ Ask \/ AskTopUp
  \/ SearchInput \/ TopUpInput \/ BidInput
  \/ SalePriceInput \/ AuctionPriceInput \/ AuctionDurationInput
  \/ SaleConfirm \/ AuctionConfirm \/ AuctionCancel
  \/ AdminBalanceInput \/ AdminBlockInput \/ AdminBlacklistInput \/ AdminSettingInput
  \/ AdminTransferInput \/ AdminCardInput \/ AdminBannerInput
  \/ AdminCardImage \/ AdminBannerImage \/ AdminSkip
  \/ AdminCommand \/ AdminBlacklistRemove \/ AdminUnblock
  \/ PaymentArrives \/ FormIsLost

Spec == Init /\ [][Next]_vars

-----------------------------------------------------------------------------
(* Properties *)

\* What the user types goes where the last question asked for it: the open form
\* is that of the question, about the same plate, auction, user, card or
\* banner, its handler finds its entry, and no answer to it was carried out
\* before; unless a handler broke off between a question, or a command, and
\* the write to Redis that belongs to it.
FormMatchesQuestion ==
  chat.form # None /\ ~chat.cut =>
    /\ chat.form = chat.asked.form
    /\ ~chat.asked.answered
    /\ chat.form \notin PlainForm =>
         /\ Known(ItemKey[chat.form])
         /\ Given(chat.form) = Last(chat.asked.item)

\* A listing that is confirmed is of the plate the last question was about, on
\* the terms typed since, with the same exception; and as long as no handler
\* broke off, these are the terms the card shows.
ListedAsTyped ==
  [][chat'.listed \notin {chat.listed, <<>>} /\ ~chat.cut =>
       /\ chat'.listed = <<Last(chat.asked.item), chat.typed>>
       /\ breaks > 0 \/ chat.card.terms = chat.typed]_vars

\* A number a card offers is spelled as it will be stored, so that the purchase
\* reserves the very number the card shows.
OffersAreBuyable ==
  \A b \in chat.card.buttons :
    Head(b) = "state:buy" => Validated(b[2], b[3], {}) = b[3]

=============================================================================

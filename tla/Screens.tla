------------------------------- MODULE Screens -------------------------------
(***************************************************************************)
(* The stack of screens of a user (app/application/services/navigation.py) *)
(* and the buttons under each screen (app/presentation/rendering.py and    *)
(* the administrator's screens of handlers.py).                            *)
(*                                                                         *)
(* A screen is its name and what it shows: <<"PLATE_VIEW", p>> stands for  *)
(* "PLATE_VIEW:<id>".  A button is its callback data in the same way.  The *)
(* user is an administrator: anyone else has fewer buttons, and whatever   *)
(* he asks of AdminService is refused.                                     *)
(***************************************************************************)
EXTENDS PlateNumbers

CONSTANTS
  Plate, Auction,  \* what is in the tables: plates and auctions,
  Account,         \* the users an administrator manages,
  Series,          \* and the series of the blacklist
  Depth            \* the longest stack, 32 in the code

ASSUME StackHasRoom == Depth \in Nat \ {0}

Home == <<"HOME">>

-----------------------------------------------------------------------------
(* NavigationService.  The stack in the table is empty only before the     *)
(* first push; every method reads that as <<Home>>.                        *)

\* Mutant: the stack is cut at its other end.
PushedOnFull(stack, screen) ==
  LET pushed == IF Last(stack) = screen THEN stack ELSE Append(stack, screen)
  IN SubSeq(pushed, 1, Min({Depth, Len(pushed)}))

Pushed(stack, screen) ==
  LET pushed == IF Last(stack) = screen THEN stack ELSE Append(stack, screen)
  IN SubSeq(pushed, Max({1, Len(pushed) - Depth + 1}), Len(pushed))

Replaced(stack, screen) == Append(Front(stack), screen)

Popped(stack) == IF Len(stack) > 1 THEN Front(stack) ELSE stack

-----------------------------------------------------------------------------
(* Buttons: for each screen the sets of buttons it may have, which depends *)
(* on rows this module does not hold.  Lists show everything there is.     *)

BackHome == {<<"nav:back">>, <<"nav:home">>}

Alone(kinds) == {<<kind>> : kind \in kinds}
Each(kind, S) == {<<kind, x>> : x \in S}

HomeButtons ==
  {Alone({"search:open", "market:open", "plates:mine", "auction:list", "balance:view",
          "profile:view", "help:view", "legal:view", "admin:home"})}

SearchButtons == {Each("search:country", Active) \cup BackHome}

\* Plates that match, or none; the number itself is offered if it is valid and
\* nobody has it.  A blacklist may forbid that.
ResultButtons(country, query) ==
  LET offers == IF Validated(country, query, {}) = Rejected THEN {{}}
                ELSE {{}, {<<"state:buy", country, query>>}}
  IN {found \cup offer \cup BackHome : found \in {{}, Each("plate:view", Plate)}, offer \in offers}

MarketButtons ==
  {Each("market:country", Active) \cup Alone({"market:new", "market:rare"}) \cup BackHome}

PlateListButtons == {Each("plate:view", Plate) \cup BackHome}

\* The user's own unlisted plate; a sale; a plate of the State; an auction of
\* it; a plate that is reserved, another's, or his own and listed.
PlateButtons(p) ==
  {{<<"sale:create", p>>, <<"auction:create", p>>, <<"plate:history", p>>} \cup BackHome,
   {<<"sale:buy", p>>} \cup BackHome,
   {<<"state:purchase", p>>} \cup BackHome,
   BackHome}
  \cup {{<<"auction:view", a>>} \cup BackHome : a \in Auction}

AuctionListButtons == {Each("auction:view", Auction) \cup BackHome}

AuctionButtons(a) ==
  {{<<own, a>>, <<"auction:history", a>>} \cup BackHome : own \in {"auction:cancel", "auction:bid"}}

AuctionHistoryButtons(a) == {{<<"auction:view", a>>}}

BalanceButtons == {Alone({"balance:topup", "balance:history"}) \cup BackHome}

BalanceHistoryButtons == {Alone({"balance:view"})}

AdminHomeButtons ==
  {Alone({"admin:stats", "admin:users", "admin:plates", "admin:auctions", "admin:finance",
          "admin:blacklists", "admin:cards", "admin:settings"}) \cup BackHome}

UserListButtons == {Each("admin:user", Account) \cup Alone({"admin:home"})}

UserButtons(u) ==
  {{<<"admin:balance", u>>, <<block, u>>, <<"admin:users">>} :
     block \in {"admin:block", "admin:unblock"}}

BlacklistButtons ==
  {Each("admin:blacklist:remove", Series) \cup Alone({"admin:blacklist:add", "admin:home"})}

SettingsButtons == {Alone({"admin:setting:edit", "admin:home"})}

CardsButtons == {Alone({"admin:card:edit", "admin:banners", "admin:home"})}

BannersButtons == {Alone({"admin:banner:new", "admin:cards"})}

AdminPlatesButtons == {Each("admin:plate", Plate) \cup Alone({"admin:home"})}

AdminPlateButtons(p) ==
  {{<<"admin:return", p>>, <<"admin:transfer", p>>, <<"admin:remove-sale", p>>,
    <<"plate:history", p>>, <<"admin:plates">>}}

AdminAuctionsButtons == {Each("admin:auction", Auction) \cup Alone({"admin:home"})}

AdminAuctionButtons(a) ==
  {{<<"admin:auction:finish", a>>, <<"admin:auction:cancel", a>>, <<"auction:history", a>>,
    <<"admin:auctions">>}}

FinanceButtons == {Alone({"admin:home"})}

\* The cards of a screen; what is not named here has only Back and Home.
Buttons(screen) ==
  LET name == Head(screen)
      arg == screen[2]
  IN CASE name = "HOME"               -> HomeButtons
       [] name = "SEARCH"             -> SearchButtons
       [] name = "SEARCH_RESULTS"     -> ResultButtons(arg, screen[3])
       [] name = "MARKET"             -> MarketButtons
       [] name \in {"MARKET_COUNTRY", "MARKET_FEATURED", "MY_PLATES"} -> PlateListButtons
       [] name = "PLATE_VIEW"         -> PlateButtons(arg)
       [] name = "AUCTIONS"           -> AuctionListButtons
       [] name = "AUCTION_VIEW"       -> AuctionButtons(arg)
       [] name = "AUCTION_HISTORY"    -> AuctionHistoryButtons(arg)
       [] name = "BALANCE"            -> BalanceButtons
       [] name = "ADMIN_HOME"         -> AdminHomeButtons
       [] name = "ADMIN_USERS"        -> UserListButtons
       [] name = "ADMIN_USER_VIEW"    -> UserButtons(arg)
       [] name = "ADMIN_BLACKLISTS"   -> BlacklistButtons
       [] name = "ADMIN_SETTINGS"     -> SettingsButtons
       [] name = "ADMIN_CARDS"        -> CardsButtons
       [] name = "ADMIN_PLATES"       -> AdminPlatesButtons
       [] name = "ADMIN_PLATE_VIEW"   -> AdminPlateButtons(arg)
       [] name = "ADMIN_AUCTIONS"     -> AdminAuctionsButtons
       [] name = "ADMIN_AUCTION_VIEW" -> AdminAuctionButtons(arg)
       [] name = "ADMIN_FINANCE"      -> FinanceButtons
       [] OTHER                       -> {BackHome}

\* _view_for_screen knows these; any other screen is drawn as HOME.
Restorable ==
  {"HOME", "SEARCH", "MARKET", "MARKET_COUNTRY", "MARKET_FEATURED", "MY_PLATES", "AUCTIONS",
   "BALANCE", "PROFILE", "HELP", "LEGAL", "ADMIN_HOME", "ADMIN_STATS", "SEARCH_RESULTS",
   "PLATE_VIEW", "PLATE_HISTORY", "AUCTION_VIEW", "AUCTION_HISTORY"}

Restored(screen) == IF Head(screen) \in Restorable THEN Buttons(screen) ELSE HomeButtons

-----------------------------------------------------------------------------
(* The screen a button opens, which every such handler pushes first.       *)

\* The function that a set of pairs lists.
Table(rows) == [key \in {r[1] : r \in rows} |-> (CHOOSE r \in rows : r[1] = key)[2]]

PlayerScreens ==
  {<<"search:open", "SEARCH">>, <<"plates:mine", "MY_PLATES">>, <<"plate:view", "PLATE_VIEW">>,
   <<"plate:history", "PLATE_HISTORY">>}

MarketScreens ==
  {<<"market:open", "MARKET">>, <<"market:country", "MARKET_COUNTRY">>,
   <<"market:new", "MARKET_FEATURED">>, <<"market:rare", "MARKET_FEATURED">>}

AuctionScreens ==
  {<<"auction:list", "AUCTIONS">>, <<"auction:view", "AUCTION_VIEW">>,
   <<"auction:history", "AUCTION_HISTORY">>}

AccountScreens ==
  {<<"balance:view", "BALANCE">>, <<"profile:view", "PROFILE">>, <<"help:view", "HELP">>,
   <<"legal:view", "LEGAL">>}

AdminScreens ==
  {<<"admin:home", "ADMIN_HOME">>, <<"admin:stats", "ADMIN_STATS">>,
   <<"admin:users", "ADMIN_USERS">>, <<"admin:user", "ADMIN_USER_VIEW">>,
   <<"admin:blacklists", "ADMIN_BLACKLISTS">>, <<"admin:settings", "ADMIN_SETTINGS">>,
   <<"admin:cards", "ADMIN_CARDS">>}

AdminTableScreens ==
  {<<"admin:plates", "ADMIN_PLATES">>, <<"admin:plate", "ADMIN_PLATE_VIEW">>,
   <<"admin:auctions", "ADMIN_AUCTIONS">>, <<"admin:auction", "ADMIN_AUCTION_VIEW">>,
   <<"admin:finance", "ADMIN_FINANCE">>}

ScreenNames ==
  Table(PlayerScreens \cup MarketScreens \cup AuctionScreens \cup AccountScreens
        \cup AdminScreens \cup AdminTableScreens)

\* market:new and market:rare push screens of their own names.
Opened(button) ==
  IF Head(button) \in {"market:new", "market:rare"} THEN <<"MARKET_FEATURED", Head(button)>>
  ELSE <<ScreenNames[Head(button)]>> \o Tail(button)

=============================================================================

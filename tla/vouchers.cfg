\* A card that is fit for a hotspot, two wallets, and three requests at a time;
\* cards do not interact.
CONSTANTS
  Cards = {k1}
  Customers = {p1, p2}
  Nobody = Nobody
  Holders = {h1}
  Shelf = Shelf
  WithPlan = {k1}
  Requests = {r1, r2, r3}
  MaxTroubles = 2
SPECIFICATION Spec
CHECK_DEADLOCK FALSE
INVARIANTS
  GivenOnce
PROPERTIES
  NoSoldCardMoves
  NotBurned
  CreditsArePosted

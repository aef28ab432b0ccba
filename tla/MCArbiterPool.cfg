SPECIFICATION PoolSpec
CONSTANTS
  Offers <- FewOffers
INVARIANTS
  WinnerYieldsToNobody
  OrderIsSuccession

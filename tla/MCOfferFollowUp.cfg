CONSTANTS
  Clients = {u1, u2}
  Served <- AllOperations
  MaxProposals = 2
SPECIFICATION MCSpec
INVARIANTS
  OfferFollowsStream
  StateHasOffer
PROPERTY
  TransitionsFollowTable

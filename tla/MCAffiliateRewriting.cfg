SPECIFICATION Spec
CONSTANTS
  p1 = p1
  p2 = p2
  id1 = id1
  id2 = id2
  q1 = q1
  q2 = q2
  Product = {p1, p2}
  NoProduct = NoProduct
  SlugOf <- MCSlugOf
  Brand <- MCBrand
  Quantity <- MCQuantity
  Stop <- MCStop
  Reco <- MCReco
  Link <- MCLink
  MarketOf <- MCMarketOf
  Shape <- MCShape
  PartsOf <- MCPartsOf
  Behind <- MCBehind
  ProductOf <- MCProductOf
  Page <- MCPage
  PageOf <- MCPageOf
  Message <- MCMessage
  MessageOf <- MCMessageOf
  Id = {id1, id2}
  NoId = NoId
  Session = {s1}
  NoSession = NoSession
  Slot = {q1, q2}
  Ttl = 1
  MaxTime = 1
  MaxRequests = 2
  MaxEdits = 1
INVARIANTS TypeOK LinksAreOwn ProductWasShown LinksReplaced SentKeepsLinks PreviewIsForwarding OrderIsIrrelevant
SYMMETRY Symmetry
\* The service rests when the requests of the bound are answered.
CHECK_DEADLOCK FALSE

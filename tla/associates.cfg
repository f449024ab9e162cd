SPECIFICATION FairSpec
CONSTANTS
  Bills = {b1}
  Syncs = {s1, s2}
  NoBill = NoBill
  MaxCrmChanges = 2
  MaxBillFaults = 2
  Owners = {w1, w2}
  Panel = Panel
  Links = {l1, l2}
  Creators = {q1, q2}
  Viewers = {u1}
  Sellers = {t1}
  MaxActive = 1
  MaxSales = 2
  Times = {1, 2}
  Requests = {k1, k2}
  NoPost = NoPost
  MaxTurns = 2
  MaxTroubles = 2
INVARIANTS AssociateTypesOK PdfIsOffered ActiveLinksAreBounded LatestIsKept
PROPERTIES ToldOnce VisitShowsTheList BillIsTold AnswersForTheOwner SightingsArrive
CHECK_DEADLOCK FALSE

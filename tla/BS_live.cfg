CONSTANTS
  x1 = x1
  x2 = x2
  y1 = y1
  y2 = y2
  s1 = s1
  s2 = s2
  p1 = p1
  o1 = o1
  q1 = q1
  l1 = l1
  None = None
  Nil = Nil
  RunId = {x1,x2}
  Site = {s1,s2}
  Page = {p1}
  Worker = {y1}
  TaskMayFail = TRUE
  MaxSites = 2
  MaxCrashes = 1
  MaxReconnects = 0
  LinkedInSearch = {}
  Run = {o1}
  Requester = {x1,x2}
  Scraper = {y1,y2}
  Lead = {l1}
  OutreachAwsMayFail = TRUE
  MaxOutreachCrashes = 1
SPECIFICATION ScrapersFairSpec
PROPERTIES
  SitesAreSearched
CHECK_DEADLOCK FALSE

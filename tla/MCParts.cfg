SPECIFICATION PartsSpec
CONSTANTS
  http = http
  socks5 = socks5
  ip1 = ip1
  ip2 = ip2
  port1 = port1
  port2 = port2
  Script = {s1, s2}
  Handler = Handler
  Nobody = Nobody
  Session = {v1, v2}
  NoSession = NoSession
  NoPage = NoPage
  Caller = {c1, c2}
  Cost = 2
  Burst = 2
  Unread = Unread
  LastTick = 4
  MaxGrants = 4
  Recorder = {g1, g2}
  Outcome = {healthy}
  Buckets = 2
  Started = 2
  Unheld = Unheld
  LastUnit = 4
  MaxRecords = 1
  RingSize = 8
  Samples = 4
  MaxPerFetch = 20
  Uri = {u1, u2}
  RetryBackoff <- ThreeWindows
  Retention = 6
  MaxLag = 1
  LastHour = 7
  MaxFailures = 3
  Interval = 2
  Trendspan = 4
  Backlog <- Backlogs
  Available = {20, 200}
  LastMinute = 10
  Id = {1, 2}
  Protocol = {http, socks5}
  Http = http
  Blank = Blank
  Host = {h1, h2}
  Leaf = 3
  Cached = 1
  Month = 2
  Year = 5
  Nothing = Nothing
  LastDay = 7
  MaxKeys = 2
  Document <- Documents
  Address = {ip1, ip2}
  Port = {port1, port2}
  Scheme = {http, socks5}
  Absent = Absent
  Retries = 2
  BodyLimit = 2
INVARIANTS
  PartsTypeOK
  
  Paced
  CountersAreExact
  Escalates
  TrendIsTrue
  CertificatesHold
  FetchIsFaithful
PROPERTIES
  BrowserComesFree
  SuccessNeverCosts
  ImplementsBackOff
  MigrationIsSafe
CHECK_DEADLOCK FALSE

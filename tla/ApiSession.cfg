SPECIFICATION Spec
CONSTANTS
  Request = {g1, g2}
  Identity = {alice, alice2}
  NameOf <- MCNameOf
  Workloads <- MCWorkloads
  Channel = {news}
  Contact = {bob}
  Password = {p, q}
  NoFile = NoFile
  Locked = Locked
  NoScraper = NoScraper
  OldRecords = {alice}
  MaxTokens = 1
SYMMETRY MCSymmetry
INVARIANTS
  TypeOK
  ConfirmedKept
  ScraperFollows
PROPERTIES
  StampKept

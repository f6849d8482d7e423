SPECIFICATION Spec
CONSTANTS
  Request = {g1}
  Identity = {alice}
  NameOf <- MCNameOf
  Workloads <- MCWorkloads
  Channel = {news}
  Contact = {bob}
  Password = {p, q}
  NoFile = NoFile
  Locked = Locked
  NoScraper = NoScraper
  OldRecords = {alice, news}
  MaxTokens = 1
INVARIANTS
  ConfirmedKept

\* Up to two clients and five messages, both ways to give the server, with
\* and without acknowledgements, connections and commands that fail.
SPECIFICATION FairSpec
CONSTANTS
  MaxClients = 2
  MaxMessages = 5
  Hosts = {"name", "address"}
  Oom = TRUE
  Refusals = TRUE
CHECK_DEADLOCK FALSE
INVARIANTS
  SharedDataAlive
  SharesPushed
  AddressRace
  SizeAccounted
PROPERTIES
  Ends

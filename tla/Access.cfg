SPECIFICATION Spec
CONSTANTS
  Nothing = Nothing
  Unset = Unset
\* mass.c: two hosts, one slot for two lists, one cover.
  Host = {"h1", "h2"}
  Slots = 1
  MaxSets = 2
  MaxReqs = 2
  MaxCovers = 1
\* davs.c: three registrations, three faults of Amazon's or the network.
  MaxRegs = 3
  MaxAsks = 5
  MaxFaults = 3
\* arb.c's kiosk mode: two Echos, room for the other's claim.
  Dev = {1, 2}
  Loud = {1, 2}
  Window = 5
  Spread = 1
  Delay = 1
  NClaim = 1
  MaxSwitch = 2
\* arb.c: a house with Home Assistant next to a network older or younger than its own.
  House = {1, 2}
  Strangers = {9}
  Nets = {3}
  StrangerNets = {2, 4}
  HasHa = TRUE
  Allowed = TRUE
  MaxPairs = 0
  MaxStrange = 1
  MaxDowns = 0
\* sendspin.c: two servers, one of the older specification.
  Server = {1, 2}
  Spec10 = {1}
  QueueMax = 1
  MaxRecords = 1
  MaxLive = 1
  MaxMsgs = 4
  Nobody = 0
\* web.c: two browsers, four requests, a window of one.
  Browsers = {1, 2}
  MaxClients = 1
  CtrWindow = 1
  MaxCtr = 4
  AskFor <- PageRequests
  MaxNonces = 1
  MaxConn = 1
  MaxBoots = 1
  MaxFails = 1
  MaxLogins = 2
  NoOne = 0
\* artifacts.c and root: two files, two copies of the set.
  Files = {"a", "b"}
  Copies = {1, 2}
  Download = 3
  MaxBegins = 2
  MaxFetches = 1
  Absent = Absent
INVARIANT TokenToItsHost
INVARIANT NoListForgotten
INVARIANT KioskOne
INVARIANT OnlyAdopted
INVARIANT NoStrangerPlays
INVARIANT OnceEach
INVARIANT InstalledIsWhole
INVARIANT NoSilenceSpaced
PROPERTY LiveTokensKept
CHECK_DEADLOCK FALSE

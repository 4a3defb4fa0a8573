SPECIFICATION Spec
CONSTANTS
  W = 4
  ARP_CACHE_SLOTS = 2
  MAX_AGE = 4
  Clients <- McClients
  Hosts = {9, 10, 11}
  Others = {}
  Senders = {10}
  Gateway = 9
  Local <- McLocal
  Routes = {}
  Routers = {10}
  Destinations = {9, 11}
  Kinds = {"icmp"}
  MaxSends = 1
  MaxQueue = 9
  MaxFaults = 0
PROPERTY ReplyLearnt
CHECK_DEADLOCK FALSE

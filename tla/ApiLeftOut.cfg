SPECIFICATION Spec
CONSTANTS
  MaxConns = 3
  MaxSecrets = 3
  Paths = {1, 2}
  Requests <- SomeRequests
  Happens <- WhatHappens
  CONNECTIONS = 2
  REQUEST_TIME = 1
  WAIT = 1
  COOLDOWN = 1
  MaxServers = 2
  MaxChanges = 1
PROPERTY LeftOutStays
CHECK_DEADLOCK FALSE

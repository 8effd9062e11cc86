CONSTANTS
  max = max
  eve = eve
  sales = sales
  NoOne = NoOne
  Tickets = {t1}
  Customers = {cam}
  Employees = {max, eve}
  Strangers = {nobody}
  Admins = {max}
  Managers = {max}
  Teams = {sales}
  TeamOf <- MCTeamOf
  ManagerOf <- MCManagerOf
  Handlers = {h1}
  MaxRequests = 1
  MaxReminders = 1
  MaxFaults = 2
SPECIFICATION FairSpec
INVARIANT EveryEventAccounted
PROPERTY EventsSettle
CHECK_DEADLOCK FALSE

CONSTANTS
  max = max
  eve = eve
  sales = sales
  NoOne = NoOne
  Tickets = {t1}
  Customers = {cam}
  Employees = {max, eve}
  Strangers = {}
  Admins = {max}
  Managers = {max}
  Teams = {sales}
  TeamOf <- MCTeamOf
  ManagerOf <- MCManagerOf
  Handlers = {h1}
  MaxRequests = 1
  MaxReminders = 1
  MaxFaults = 1
SPECIFICATION FairSpec
PROPERTY NakIsRedelivered
CHECK_DEADLOCK FALSE

CONSTANTS
  max = max
  eve = eve
  sales = sales
  NoOne = NoOne
  Tickets = {t1}
  Customers = {cam}
  Employees = {max, eve}
  Strangers = {}
  Admins = {max}
  Managers = {max}
  Teams = {sales}
  TeamOf <- MCTeamOf
  ManagerOf <- MCManagerOf
  Handlers = {h1, h2}
  MaxRequests = 3
  MaxReminders = 0
  MaxFaults = 1
SPECIFICATION Spec
SYMMETRY MCSymmetry
INVARIANT HandledMeansTold
INVARIANT MailedOnce
INVARIANT AssigneeTold
INVARIANT CommitsAccounted
PROPERTY ImplementsNotification
CHECK_DEADLOCK FALSE

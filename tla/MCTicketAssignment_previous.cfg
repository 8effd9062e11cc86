CONSTANTS
  ann = ann
  max = max
  eve = eve
  uma = uma
  sales = sales
  support = support
  NoOne = NoOne
  Tickets = {t1}
  Customers = {cam}
  Employees = {ann, max, eve, uma}
  Strangers = {}
  Admins = {ann}
  Managers = {max}
  Teams = {sales, support}
  TeamOf <- MCTeamOf
  ManagerOf <- MCManagerOf
  Handlers = {h1, h2}
  MaxRequests = 3
  MaxFaults = 0
SPECIFICATION TicketSpec
PROPERTY EventNamesThePrevious
CHECK_DEADLOCK FALSE

CONSTANTS
  ann = ann
  max = max
  eve = eve
  uma = uma
  sales = sales
  support = support
  NoOne = NoOne
  Tickets = {t1}
  Customers = {cam}
  Employees = {ann, max, eve, uma}
  Strangers = {}
  Admins = {ann}
  Managers = {max}
  Teams = {sales, support}
  TeamOf <- MCTeamOf
  ManagerOf <- MCManagerOf
  Handlers = {h1, h2, h3}
  MaxRequests = 4
  MaxFaults = 1
SPECIFICATION TicketSpec
SYMMETRY MCSymmetry
INVARIANT TypeOK
INVARIANT AssigneeWatches
INVARIANT WatchersStaySound
INVARIANT EventsMatchCommits
PROPERTY OnlyOverwritesLose
CHECK_DEADLOCK FALSE

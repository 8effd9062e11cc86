CONSTANTS
  cam = cam
  eve = eve
  customer = customer
  employee = employee
  Users = {cam, eve}
  Employees = {eve}
  Handlers = {h1, h2}
  NoToken = NoToken
  NoHandler = NoHandler
  DayLength = 3
  EmployeeDays = 1
  LockLife = 1
  MaxTime = 3
  MaxLogins = 2
  MaxRequests = 3
  MaxFaults = 1
  Uploads = {a1}
  Nobody = Nobody
  Hour = 2
  Actions = {"assign"}
  Roles = {customer, employee}
  RoleOf <- MCRoleOf
  CustomerRole = customer
  Tickets = {k1}
  CreatedBy <- MCCreatedBy
  NoWish = NoWish
  CacheLife = 2
  MaxChanges = 2
  Traffic <- MCTraffic
SPECIFICATION Spec
SYMMETRY MCSymmetry
INVARIANT TypeOK
INVARIANT AloneInLogin
INVARIANT OpenUntilEndOfDay
INVARIANT LoggedOutStaysOut
INVARIANT ConfirmableWhileUploadable
INVARIANT SuccessMeansNamed
INVARIANT RevokedIsForgotten
INVARIANT RefusedForAReason
CHECK_DEADLOCK FALSE

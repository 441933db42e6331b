CONSTANTS
  Clients = {c1}
  Users = {alice}
  NoUser = NoUser
CHECK_DEADLOCK FALSE
SPECIFICATION Spec
INVARIANTS
  ValidTicketConnects

SPECIFICATION GatewaySpec
CONSTANTS
  Users = {u1, u2}
  Tokens = {t1, t2, t3}
  Calls = {k1, k2, k3}
  Browsers = {b1, b2}
  NoUser = NoUser
  NoToken = NoToken
  NoBrowser = NoBrowser
SYMMETRY Symmetry
INVARIANTS
  OneRegistrationWins
  SessionsDoNotFork
  CookieIsGood
  CookiesAgree
  LogoutEnds
CHECK_DEADLOCK FALSE

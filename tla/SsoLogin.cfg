SPECIFICATION LoginSpec
CONSTANTS
  Browsers = {"b1", "b2"}
  Calls = {"c1", "c2"}
  Claims <- MCClaims
  RetryAfter = 1
  Timeout = 1
  MaxLogins = 2
PROPERTY SignInVouched
PROPERTY AttemptsSpaced
PROPERTY Recovers

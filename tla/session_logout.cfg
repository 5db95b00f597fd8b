SPECIFICATION Spec
CONSTANTS
  Procs = {p1}
  Rotates = TRUE
  MaxMinted = 2
PROPERTY LogoutSticks

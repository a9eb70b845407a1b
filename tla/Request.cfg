SPECIFICATION Spec
CONSTANTS
  BodyLen = 2
  Ports = {443, 8443}
  AltPort = 443
  Limit = 1
  MaxRedirects = 2
INVARIANTS BodyIsMine RedirectsStrip
PROPERTIES CallSettles

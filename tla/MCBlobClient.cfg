\* Two requests share a token while the key is rotated twice.
SPECIFICATION ClientFairSpec
CONSTANTS
  Requests = {r1, r2}
  NoRequest = NoRequest
  Ranges = {r1}
  MaxAttempts = 2
  Mishaps = {"transient", "fatal", "body", "due", "token_error"}
  MaxRotations = 2
INVARIANT SendsBounded
INVARIANT RejectedWithCause
PROPERTY RequestsEnd

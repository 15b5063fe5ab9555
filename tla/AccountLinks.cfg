SPECIFICATION Spec
CONSTANTS
  u1 = u1
  u2 = u2
  b1 = b1
  b2 = b2
  None = None
  Email = {u1, u2}
  Role = {"user", "admin"}
  Admin = "admin"
  Browser = {b1, b2}
  Development = TRUE
  MaxIssued = 2
SYMMETRY Alike
INVARIANTS InvitedOnce OneLinkPerRequest SpentLinksRefused
PROPERTIES LastAdminLostOnlyByOverlap SpentByItsSubmission

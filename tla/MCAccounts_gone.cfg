SPECIFICATION Spec
CONSTANTS
  n1 = n1
  n2 = n2
  Names = {n1, n2}
  Residents = {n1, n2}
  Proxied = {}
  ProxyAdmins = {}
  Emails = {}
  Links = {}
  NoAccount = NoAccount
  NoOne = NoOne
  NoLink = NoLink
  MaxInvites = 1
  MaxAsks = 1
  MaxHashing = 1
  MaxActs = 2
INVARIANT AdminsRemain
CHECK_DEADLOCK FALSE

CONSTANTS
  Urls = {u1, u2, u3, u4, u5, u6, u7}
  Capacity = 5
  MaxInserts = 9
SPECIFICATION MachineSpec
SYMMETRY Symmetry
INVARIANTS RemembersRecent ReloadFaithful

SPECIFICATION Spec
CONSTANTS
  MaxSaves = 6
  Absent = Absent
  Damaged = Damaged
INVARIANTS FileInv
PROPERTIES ImplementsStore BackupKept DamagedKept
CHECK_DEADLOCK FALSE

SPECIFICATION ScanSpec
CONSTANTS
  Threads = {t1, t2}
  Kinds = {"check", "apply", "apply all"}
  Counts = {64, 512, 8192}
  STEP_SIZE = 4096
  Markable = {5, 500, 4095, 4096, 8190}
  MaxRounds = 2
INVARIANTS NoFalseAlarm AppliedOnce ExactWhenSmall

SPECIFICATION TimerSpec
CONSTANTS Timeouts = {t1, t2, t3}
          Modulus = 8
          MaxDelay = 3
          MaxLate = 4
          MaxClock = 9
INVARIANTS TimesAreExact SortedByDue
SYMMETRY Symmetry

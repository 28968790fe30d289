SPECIFICATION Spec
CONSTANTS
  Node = {0, 1, 2, 3}
  Link <- Tailed
  Source = 0
  Target = 3
  Delay = {1, 2}
  Scale = 4
  Weight = 2
  MaxHops = 6
  MaxAnts = 2
CHECK_DEADLOCK FALSE
INVARIANTS TimesAreHops SamplesAddUp FactorSound

SPECIFICATION MCSpec
CONSTANTS
  Prescale <- SmallPrescale
  MaxLoad <- SmallMaxLoad
  Cycles = {2, 3}
  Diags <- SmallDiags
  ClockPrescale = 64
  ClockMaxLoad = 5
  Slices = {4, 6, 8, 10, 12, 14, 200}
PROPERTY HardResetStopsTimers

CONSTANTS
  Text = {m1}
  MaxStays = 1
  MaxRegistrationAttempts = 2
  MaxParkingCrashes = 0
SPECIFICATION ParkingSpec
INVARIANTS
  SuccessIsRegistered
CHECK_DEADLOCK FALSE

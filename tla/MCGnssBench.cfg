CONSTANTS
  dyn = dyn
  meas = meas
  pvt = pvt
  Setting = {dyn, meas}
  Pvt = pvt
  Default <- MCDefault
  Order <- MCOrder
  Rate = {38400, 115200}
  Target = 115200
  FactoryRate = 38400
  MaxLost = 3
  ReadAttempts = 2
  PauseAttempts = 2
  OtpAttempts = 1
  Quieted = {meas, pvt}
SPECIFICATION Spec
INVARIANTS
  BootVerdict
  MissingMeansLost
  OutputResumes
  BurnVerdict
PROPERTY SpentOnce

\* One order's stack, with one thing failing, next to any number of sweeps.
SPECIFICATION SweepSpec
CONSTANTS
  Plans = {"e2e"}
  \* Nothing, or one secret or parameter of each group the template makes alike.
  Stragglers = {{}, {"AuroraSliceVectorSecret", "TimeseriesUrlSecret", "GridstatusApiKeySecret",
                     "MqttServicePwSecret", "DerControlTruststoreSecret", "NeptuneHostParam"}}
  MaxFaults = 1
INVARIANTS
  KeepsSecrets
\* A stack that is created or rolled back may stay as it is.
CHECK_DEADLOCK FALSE

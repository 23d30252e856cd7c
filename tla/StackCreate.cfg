\* The three orders whose templates differ, with one thing wrong or failing.
SPECIFICATION Spec
CONSTANTS
  Plans = {"commercial", "e2e", "defense"}
  \* Nothing, or one secret or parameter of each group the template makes alike.
  Stragglers = {{}, {"AuroraSliceVectorSecret", "TimeseriesUrlSecret", "GridstatusApiKeySecret",
                     "MqttServicePwSecret", "DerControlTruststoreSecret", "NeptuneHostParam"}}
  MaxFaults = 1
INVARIANTS
  CreateInv
  BootReadsWhatIsThere
  CompleteMeansProven
  HealthyStackCompletes
PROPERTIES
  CreationEnds
\* A stack that is created or rolled back stays as it is.
CHECK_DEADLOCK FALSE

-------------------------- MODULE StackCreateProofs --------------------------
(***************************************************************************)
(* Proofs about StackCreate next to the sweep, for every set of plans, for *)
(* every order CloudFormation may create resources in (any Stragglers) and *)
(* any number of faults: no custom resource without its answer, UserData   *)
(* behind all it reads, what CREATE_COMPLETE proves, and the ways out of   *)
(* the subnet as the only thing a stack with nothing wrong can race for.   *)
(* The argument goes from the template (what waits for what, and the 24    *)
(* commands of UserData) by one invariant, CreationInv, to the four        *)
(* properties.                                                             *)
(***************************************************************************)
EXTENDS StackSweepProofs, SequenceTheorems, FiniteSetTheorems

-----------------------------------------------------------------------------
(* The template.                                                           *)

\* The parts of a template overlap nowhere that matters: the first one wins.
LEMMA Merge ==
  ASSUME NEW f, NEW g
  PROVE  /\ DOMAIN (f ++ g) = DOMAIN f \cup DOMAIN g
         /\ \A r \in DOMAIN f : (f ++ g)[r] = f[r]
         /\ \A r \in DOMAIN g \ DOMAIN f : (f ++ g)[r] = g[r]
BY DEF ++

\* What is worked out once for every order is what it says it is.
LEMMA ByPlanIs ==
  ASSUME NEW p \in Plan
  PROVE  /\ Templates[p] = Template(p)
         /\ Resources[p] = DOMAIN Template(p)
         /\ Quick[p] = DOMAIN Template(p) \ Late
         /\ Scripts[p] = UserData(p)
         /\ Secrets[p] = SecretOf(p)
         /\ ReadBy[p] = Read(p)
<1>1. Templates[p] = Template(p)
  BY DEF Templates, ByPlan, Plan
<1>2. Resources[p] = DOMAIN Template(p)
  BY DEF Resources, Templates, ByPlan, Plan
<1>3. Quick[p] = DOMAIN Template(p) \ Late
  BY DEF Quick, Templates, ByPlan, Plan
<1>4. Scripts[p] = UserData(p) /\ Secrets[p] = SecretOf(p)
  BY DEF Scripts, Secrets, ByPlan, Plan
<1>5. ReadBy[p] = Read(p)
  BY DEF ReadBy, ByPlan, Plan
<1>6. QED
  BY <1>1, <1>2, <1>3, <1>4, <1>5

\* The slices of an order's cluster and their secrets.
LEMMA SliceFacts ==
  ASSUME NEW p \in Plan
  PROVE  /\ DOMAIN SliceSecret = {"document", "vector", "timeseries", "dercontrol"}
         /\ {Slices(p)[i] : i \in 1..Len(Slices(p))} =
              {"document", "vector", "dercontrol"} \cup (IF p = "defense" THEN {"timeseries"} ELSE {})
         /\ SliceSecrets(p) =
              {"AuroraSliceDocumentSecret", "AuroraSliceVectorSecret", "AuroraSliceDercontrolSecret"}
              \cup (IF p = "defense" THEN {"AuroraSliceTimeseriesSecret"} ELSE {})
<1>1. DOMAIN SliceSecret = {"document", "vector", "timeseries", "dercontrol"}
  BY DEF SliceSecret
<1>2. CASE p = "defense"
  <2>1. Slices(p) = <<"document", "vector", "timeseries", "dercontrol">>
    BY <1>2 DEF Slices
  <2>2. 1..Len(Slices(p)) = {1, 2, 3, 4}
    BY <2>1
  <2>3. {Slices(p)[i] : i \in 1..Len(Slices(p))} = {"document", "vector", "timeseries", "dercontrol"}
    BY <2>1, <2>2
  <2>4. SliceSecrets(p) = {"AuroraSliceDocumentSecret", "AuroraSliceVectorSecret",
                           "AuroraSliceTimeseriesSecret", "AuroraSliceDercontrolSecret"}
    BY <2>1, <2>2 DEF SliceSecrets, SliceSecret
  <2>5. QED
    BY <1>1, <1>2, <2>3, <2>4
<1>3. CASE p # "defense"
  <2>1. Slices(p) = <<"document", "vector", "dercontrol">>
    BY <1>3 DEF Slices
  <2>2. 1..Len(Slices(p)) = {1, 2, 3}
    BY <2>1
  <2>3. {Slices(p)[i] : i \in 1..Len(Slices(p))} = {"document", "vector", "dercontrol"}
    BY <2>1, <2>2
  <2>4. SliceSecrets(p) = {"AuroraSliceDocumentSecret", "AuroraSliceVectorSecret",
                           "AuroraSliceDercontrolSecret"}
    BY <2>1, <2>2 DEF SliceSecrets, SliceSecret
  <2>5. QED
    BY <1>1, <1>3, <2>3, <2>4
<1>4. QED
  BY <1>2, <1>3

NetworkIds ==
  {"EmsVpc", "EmsInternetGateway", "EmsVpcGatewayAttachment", "EmsSubnet", "EmsSubnetB",
   "EmsRouteTable", "EmsDefaultRoute", "EmsSubnetRouteTableAssociation",
   "EmsSubnetBRouteTableAssociation", "S3VpcEndpoint", "VpcEndpointSecurityGroup",
   "SecretsManagerVpcEndpoint", "EmsSecurityGroup"}

BeforeTheBuild ==
  NetworkIds \cup {"EmsInstanceRole", "EmsInstanceProfile", "BedrockPreflightLambdaRole",
                   "BedrockPreflightLambda", "BedrockPreflightCustomResource"}

\* The order of the parts does not matter: their names differ.
LEMMA PartsOfTheTemplate ==
  ASSUME NEW p
  PROVE  /\ \A r \in DOMAIN Build(p).resources \ BeforeTheBuild :
              r \in DOMAIN Template(p) /\ Template(p)[r] = Build(p).resources[r]
         /\ "BedrockPreflightCustomResource" \in DOMAIN Template(p)
         /\ "EmsInstance" \notin DOMAIN Build(p).resources \cup BeforeTheBuild =>
              /\ "EmsInstance" \in DOMAIN Template(p)
              /\ Template(p)["EmsInstance"] =
                   {"BedrockPreflightCustomResource", "EmsInstanceProfile", "EmsSubnet",
                    "EmsSecurityGroup", "EmsEip"} \cup Build(p).instance
<1> DEFINE N == NetworkResources
           I == IamResources(p)
           B == BedrockPreflightResources
           X == Build(p).resources
           E == [EmsInstance       |-> {"BedrockPreflightCustomResource", "EmsInstanceProfile", "EmsSubnet",
                          "EmsSecurityGroup", "EmsEip"} \cup Build(p).instance,
                 EmsEip            |-> {},
                 EmsEipAssociation |-> {"EmsEip", "EmsInstance"}]
<1>1. Template(p) = (((N ++ I) ++ B) ++ X) ++ E
  BY DEF Template
<1>2. DOMAIN N = NetworkIds
  BY DEF NetworkResources, NetworkIds
<1>3. DOMAIN I = {"EmsInstanceRole", "EmsInstanceProfile"}
  BY DEF IamResources
<1>4. DOMAIN B = {"BedrockPreflightLambdaRole", "BedrockPreflightLambda", "BedrockPreflightCustomResource"}
  BY DEF BedrockPreflightResources
<1>5. DOMAIN E = {"EmsInstance", "EmsEip", "EmsEipAssociation"}
  OBVIOUS
<1>6. E["EmsInstance"] = {"BedrockPreflightCustomResource", "EmsInstanceProfile", "EmsSubnet",
                          "EmsSecurityGroup", "EmsEip"} \cup Build(p).instance
  OBVIOUS
<1> HIDE DEF N, I, B, X, E
<1>7. DOMAIN (N ++ I) = DOMAIN N \cup DOMAIN I
  BY Merge
<1>8. DOMAIN ((N ++ I) ++ B) = DOMAIN (N ++ I) \cup DOMAIN B
  BY Merge
<1> DEFINE C == (N ++ I) ++ B
<1> HIDE DEF C
<1>9. DOMAIN C = BeforeTheBuild
  BY <1>7, <1>8, <1>2, <1>3, <1>4 DEF C, BeforeTheBuild
<1>10. Template(p) = (C ++ X) ++ E
  BY <1>1 DEF C
<1>11. /\ DOMAIN (C ++ X) = BeforeTheBuild \cup DOMAIN X
       /\ \A r \in DOMAIN X \ BeforeTheBuild : (C ++ X)[r] = X[r]
  BY <1>9, Merge
<1> DEFINE D == C ++ X
<1> HIDE DEF D
<1>12. /\ DOMAIN D = BeforeTheBuild \cup DOMAIN X
       /\ \A r \in DOMAIN X \ BeforeTheBuild : D[r] = X[r]
       /\ Template(p) = D ++ E
  BY <1>10, <1>11 DEF D
<1>13. /\ DOMAIN (D ++ E) = DOMAIN D \cup DOMAIN E
       /\ \A r \in DOMAIN D : (D ++ E)[r] = D[r]
       /\ \A r \in DOMAIN E \ DOMAIN D : (D ++ E)[r] = E[r]
  BY Merge
<1>14. \A r \in DOMAIN X \ BeforeTheBuild : r \in DOMAIN Template(p) /\ Template(p)[r] = X[r]
  BY <1>12, <1>13
<1>15. "BedrockPreflightCustomResource" \in DOMAIN Template(p)
  BY <1>12, <1>13 DEF BeforeTheBuild
<1>16. "EmsInstance" \notin DOMAIN X \cup BeforeTheBuild =>
         "EmsInstance" \in DOMAIN Template(p) /\ Template(p)["EmsInstance"] = E["EmsInstance"]
  BY <1>12, <1>13, <1>5
<1>17. QED
  BY <1>14, <1>15, <1>16, <1>6 DEF X

\* The part of the template every order's instance waits for.
LEMMA ClusterFacts ==
  ASSUME NEW p \in Plan
  PROVE  /\ "AuroraBootstrapCustomResource" \in DOMAIN AuroraClusterResources(p)
         /\ "EmsInstance" \notin DOMAIN AuroraClusterResources(p)
         /\ {"AuroraInstance", "AuroraMasterSecret"} \cup SliceSecrets(p) \subseteq
              AuroraClusterResources(p)["AuroraBootstrapCustomResource"]
<1> DEFINE S == [r \in SliceSecrets(p) |-> {}]
           A == [AuroraMasterSecret  |-> {},
                 AuroraSubnetGroup   |-> {"EmsSubnet", "EmsSubnetB"},
                 AuroraSecurityGroup |-> {"EmsVpc", "EmsSecurityGroup"},
                 AuroraCluster       |-> {"AuroraMasterSecret", "AuroraSubnetGroup", "AuroraSecurityGroup"},
                 AuroraInstance      |-> {"AuroraCluster"} \cup
                                         (IF p = "defense" THEN {"AuroraParameterGroup"} ELSE {})]
           P == IF p = "defense" THEN [AuroraParameterGroup |-> {}] ELSE <<>>
           B == AuroraBootstrapResources(p)
<1>1. AuroraClusterResources(p) = ((S ++ A) ++ P) ++ B
  BY DEF AuroraClusterResources
<1>2. DOMAIN S = SliceSecrets(p)
  OBVIOUS
<1>3. DOMAIN A = {"AuroraMasterSecret", "AuroraSubnetGroup", "AuroraSecurityGroup", "AuroraCluster",
                  "AuroraInstance"}
  OBVIOUS
<1>4. DOMAIN P \subseteq {"AuroraParameterGroup"}
  OBVIOUS
<1>5. DOMAIN B = {"AuroraBootstrapLambdaRole", "AuroraBootstrapLambda", "AuroraBootstrapCustomResource"}
  BY DEF AuroraBootstrapResources
<1>6. {"AuroraInstance", "AuroraMasterSecret"} \cup SliceSecrets(p) \subseteq B["AuroraBootstrapCustomResource"]
  BY DEF AuroraBootstrapResources
<1>7. {"AuroraBootstrapCustomResource", "EmsInstance"} \cap SliceSecrets(p) = {}
  BY SliceFacts
<1> HIDE DEF S, A, P, B
<1>8. DOMAIN (S ++ A) = DOMAIN S \cup DOMAIN A
  BY Merge
<1>9. DOMAIN ((S ++ A) ++ P) = DOMAIN (S ++ A) \cup DOMAIN P
  BY Merge
<1> DEFINE C == (S ++ A) ++ P
<1>10. "EmsInstance" \notin DOMAIN C /\ "AuroraBootstrapCustomResource" \notin DOMAIN C
  BY <1>2, <1>3, <1>4, <1>7, <1>8, <1>9
<1> HIDE DEF C
<1>11. /\ DOMAIN (C ++ B) = DOMAIN C \cup DOMAIN B
       /\ \A r \in DOMAIN B \ DOMAIN C : (C ++ B)[r] = B[r]
  BY Merge
<1>12. AuroraClusterResources(p) = C ++ B
  BY <1>1 DEF C
<1>13. QED
  BY <1>5, <1>6, <1>10, <1>11, <1>12

\* The build of each order has the database's part whole, and not the instance.
LEMMA BuildFacts ==
  ASSUME NEW p \in Plan
  PROVE  /\ DOMAIN AuroraClusterResources(p) \subseteq DOMAIN Build(p).resources
         /\ \A r \in DOMAIN AuroraClusterResources(p) :
              Build(p).resources[r] = AuroraClusterResources(p)[r]
         /\ "EmsInstance" \notin DOMAIN Build(p).resources
         /\ p = "commercial" => "CustomerUrlPreflightCustomResource" \in DOMAIN Build(p).resources
<1> DEFINE A == AuroraClusterResources(p)
<1>0. "EmsInstance" \notin DOMAIN A
  BY ClusterFacts
<1>1. CASE p = "defense"
  <2> DEFINE K == AgentApiKeySecrets
             U == AuthSecrets
             D == DerControlSecrets
             N == NeptuneResources
             O == AossResources
  <2>1. Build(p).resources = ((((A ++ K) ++ U) ++ D) ++ N) ++ O
    BY <1>1 DEF Build, DefenseBuild
  <2>2. "EmsInstance" \notin DOMAIN K \cup DOMAIN U \cup DOMAIN D
    BY DEF AgentApiKeySecrets, AuthSecrets, DerControlSecrets
  <2>3. "EmsInstance" \notin DOMAIN N
    BY DEF NeptuneResources
  <2>4. "EmsInstance" \notin DOMAIN O
    BY DEF AossResources
  <2> HIDE DEF A, K, U, D, N, O
  <2> DEFINE X == A ++ K
             Y == X ++ U
             Z == Y ++ D
             W == Z ++ N
  <2>5. DOMAIN X = DOMAIN A \cup DOMAIN K /\ \A r \in DOMAIN A : X[r] = A[r]
    BY Merge
  <2> HIDE DEF X
  <2>6. DOMAIN Y = DOMAIN X \cup DOMAIN U /\ \A r \in DOMAIN X : Y[r] = X[r]
    BY Merge
  <2> HIDE DEF Y
  <2>7. DOMAIN Z = DOMAIN Y \cup DOMAIN D /\ \A r \in DOMAIN Y : Z[r] = Y[r]
    BY Merge
  <2> HIDE DEF Z
  <2>8. DOMAIN W = DOMAIN Z \cup DOMAIN N /\ \A r \in DOMAIN Z : W[r] = Z[r]
    BY Merge
  <2> HIDE DEF W
  <2>9. DOMAIN (W ++ O) = DOMAIN W \cup DOMAIN O /\ \A r \in DOMAIN W : (W ++ O)[r] = W[r]
    BY Merge
  <2>10. Build(p).resources = W ++ O
    BY <2>1 DEF W, Z, Y, X
  <2>11. "EmsInstance" \notin DOMAIN (W ++ O)
    BY <1>0, <2>2, <2>3, <2>4, <2>5, <2>6, <2>7, <2>8, <2>9 DEF A
  <2>12. DOMAIN A \subseteq DOMAIN (W ++ O) /\ \A r \in DOMAIN A : (W ++ O)[r] = A[r]
    BY <2>5, <2>6, <2>7, <2>8, <2>9
  <2>13. QED
    BY <1>1, <2>10, <2>11, <2>12 DEF A
<1>2. CASE p # "defense"
  <2> DEFINE V == VendorUrlSecrets
             K == AgentApiKeySecrets
             U == AuthSecrets
             D == DerControlSecrets
             O == IF p = "e2e" THEN <<>> ELSE CustomerUrlPreflightResources
  <2>1. Build(p).resources = ((((A ++ V) ++ K) ++ U) ++ D) ++ O
    BY <1>2 DEF Build, CommercialBuild
  <2>2. "EmsInstance" \notin DOMAIN V \cup DOMAIN K \cup DOMAIN U \cup DOMAIN D
    BY DEF VendorUrlSecrets, AgentApiKeySecrets, AuthSecrets, DerControlSecrets
  <2>3. /\ "EmsInstance" \notin DOMAIN O
        /\ p = "commercial" => "CustomerUrlPreflightCustomResource" \in DOMAIN O
    BY DEF CustomerUrlPreflightResources
  <2> HIDE DEF A, V, K, U, D, O
  <2> DEFINE X == A ++ V
             Y == X ++ K
             Z == Y ++ U
             W == Z ++ D
  <2>5. DOMAIN X = DOMAIN A \cup DOMAIN V /\ \A r \in DOMAIN A : X[r] = A[r]
    BY Merge
  <2> HIDE DEF X
  <2>6. DOMAIN Y = DOMAIN X \cup DOMAIN K /\ \A r \in DOMAIN X : Y[r] = X[r]
    BY Merge
  <2> HIDE DEF Y
  <2>7. DOMAIN Z = DOMAIN Y \cup DOMAIN U /\ \A r \in DOMAIN Y : Z[r] = Y[r]
    BY Merge
  <2> HIDE DEF Z
  <2>8. DOMAIN W = DOMAIN Z \cup DOMAIN D /\ \A r \in DOMAIN Z : W[r] = Z[r]
    BY Merge
  <2> HIDE DEF W
  <2>9. DOMAIN (W ++ O) = DOMAIN W \cup DOMAIN O /\ \A r \in DOMAIN W : (W ++ O)[r] = W[r]
    BY Merge
  <2>10. Build(p).resources = W ++ O
    BY <2>1 DEF W, Z, Y, X
  <2>11. "EmsInstance" \notin DOMAIN (W ++ O)
    BY <1>0, <2>2, <2>3, <2>5, <2>6, <2>7, <2>8, <2>9 DEF A
  <2>12. DOMAIN A \subseteq DOMAIN (W ++ O) /\ \A r \in DOMAIN A : (W ++ O)[r] = A[r]
    BY <2>5, <2>6, <2>7, <2>8, <2>9
  <2>13. p = "commercial" => "CustomerUrlPreflightCustomResource" \in DOMAIN (W ++ O)
    BY <2>3, <2>9
  <2>14. QED
    BY <2>10, <2>11, <2>12, <2>13 DEF A
<1>3. QED
  BY <1>1, <1>2

\* What the instance waits for because UserData reads it.
LEMMA InstanceWaits ==
  ASSUME NEW p \in Plan
  PROVE  /\ "AuroraBootstrapCustomResource" \in Build(p).instance
         /\ Read(p) \subseteq Build(p).instance \cup SliceSecrets(p)
         /\ "DerControlTruststoreSecret" \in Build(p).instance
         /\ p = "defense" => GraphParams \subseteq Build(p).instance
<1>1. /\ DOMAIN VendorUrlSecrets = {"TimeseriesUrlSecret", "GraphUrlSecret"}
      /\ DOMAIN AgentApiKeySecrets = {"OpenweathermapApiKeySecret", "GridstatusApiKeySecret"}
      /\ DOMAIN AuthSecrets = {"MqttServicePwSecret", "AuthJwtSecretSecret", "AuthOperatorPwSecret",
                               "AuthViewerPwSecret", "GrafanaAdminPwSecret"}
      /\ DOMAIN DerControlSecrets = {"DerControlTruststoreSecret", "DerControlLfdiAllowlistSecret"}
  BY DEF VendorUrlSecrets, AgentApiKeySecrets, AuthSecrets, DerControlSecrets
<1>2. CASE p = "defense"
  <2>1. Build(p).instance =
          {"AuroraBootstrapCustomResource", "NeptuneInstance", "AossCollection",
           "NeptuneHostParam", "NeptuneLoaderRoleArnParam", "AossHostParam"} \cup
          DOMAIN AgentApiKeySecrets \cup DOMAIN AuthSecrets \cup DOMAIN DerControlSecrets
    BY <1>2 DEF Build, DefenseBuild
  <2>2. \A s \in DOMAIN SecretOf(p) : SecretOf(p)[s] \in
          {"AuroraSliceDocumentSecret", "AuroraSliceVectorSecret", "AuroraSliceTimeseriesSecret",
           "AuroraSliceDercontrolSecret", "OpenweathermapApiKeySecret", "GridstatusApiKeySecret",
           "MqttServicePwSecret", "AuthOperatorPwSecret", "AuthViewerPwSecret", "AuthJwtSecretSecret",
           "GrafanaAdminPwSecret", "DerControlLfdiAllowlistSecret"}
    BY <1>2 DEF SecretOf, ++
  <2>3. QED
    BY <1>1, <1>2, <2>1, <2>2, SliceFacts DEF Read, GraphParams
<1>3. CASE p # "defense"
  <2>1. Build(p).instance =
          {"AuroraBootstrapCustomResource"} \cup DOMAIN VendorUrlSecrets \cup
          DOMAIN AgentApiKeySecrets \cup DOMAIN AuthSecrets \cup DOMAIN DerControlSecrets \cup
          (IF p = "e2e" THEN {} ELSE {"CustomerUrlPreflightCustomResource"})
    BY <1>3 DEF Build, CommercialBuild
  <2>2. \A s \in DOMAIN SecretOf(p) : SecretOf(p)[s] \in
          {"AuroraSliceDocumentSecret", "AuroraSliceVectorSecret", "TimeseriesUrlSecret",
           "AuroraSliceDercontrolSecret", "OpenweathermapApiKeySecret", "GridstatusApiKeySecret",
           "MqttServicePwSecret", "AuthOperatorPwSecret", "AuthViewerPwSecret", "AuthJwtSecretSecret",
           "GrafanaAdminPwSecret", "DerControlLfdiAllowlistSecret", "GraphUrlSecret"}
    BY <1>3 DEF SecretOf, ++
  <2>3. QED
    BY <1>1, <1>3, <2>1, <2>2, SliceFacts DEF Read, GraphParams
<1>4. QED
  BY <1>2, <1>3

-----------------------------------------------------------------------------
(* The Lambdas' steps and UserData's commands.                             *)

\* The bootstrap's steps, counted out.
LEMMA BootstrapStepsAre ==
  ASSUME NEW p \in Plan
  PROVE  /\ p = "defense" =>
              /\ Len(BootstrapSteps(p)) = 9
              /\ BootstrapSteps(p)[1] = "password"
              /\ BootstrapSteps(p)[2] = "databases"
              /\ BootstrapSteps(p)[3] = "extensions"
              /\ BootstrapSteps(p)[4] = "maintenance"
              /\ BootstrapSteps(p)[5] = "document"
              /\ BootstrapSteps(p)[6] = "vector"
              /\ BootstrapSteps(p)[7] = "timeseries"
              /\ BootstrapSteps(p)[8] = "dercontrol"
              /\ BootstrapSteps(p)[9] = "answer"
         /\ p # "defense" =>
              /\ Len(BootstrapSteps(p)) = 7
              /\ BootstrapSteps(p)[1] = "password"
              /\ BootstrapSteps(p)[2] = "databases"
              /\ BootstrapSteps(p)[3] = "extensions"
              /\ BootstrapSteps(p)[4] = "document"
              /\ BootstrapSteps(p)[5] = "vector"
              /\ BootstrapSteps(p)[6] = "dercontrol"
              /\ BootstrapSteps(p)[7] = "answer"
BY DEF BootstrapSteps, Slices

\* The slots of secrets.env, counted out.
LEMMA SlotsAre ==
  ASSUME NEW p \in Plan
  PROVE  /\ p = "defense" =>
              /\ Len(Slots(p)) = 12
              /\ Slots(p)[1] = "dbDocument" /\ Slots(p)[2] = "dbVector" /\ Slots(p)[3] = "dbTimeseries"
              /\ Slots(p)[4] = "dbDercontrol" /\ Slots(p)[5] = "weather" /\ Slots(p)[6] = "grid"
              /\ Slots(p)[7] = "mqtt" /\ Slots(p)[8] = "operator" /\ Slots(p)[9] = "viewer"
              /\ Slots(p)[10] = "jwt" /\ Slots(p)[11] = "grafana" /\ Slots(p)[12] = "lfdi"
         /\ p # "defense" =>
              /\ Len(Slots(p)) = 13
              /\ Slots(p)[1] = "dbDocument" /\ Slots(p)[2] = "dbVector" /\ Slots(p)[3] = "dbTimeseries"
              /\ Slots(p)[4] = "dbDercontrol" /\ Slots(p)[5] = "weather" /\ Slots(p)[6] = "grid"
              /\ Slots(p)[7] = "graph"
              /\ Slots(p)[8] = "mqtt" /\ Slots(p)[9] = "operator" /\ Slots(p)[10] = "viewer"
              /\ Slots(p)[11] = "jwt" /\ Slots(p)[12] = "grafana" /\ Slots(p)[13] = "lfdi"
<1>1. CASE p = "defense"
  BY <1>1 DEF Slots
<1>2. CASE p # "defense"
  BY <1>2 DEF Slots
<1>3. QED
  BY <1>1, <1>2

\* Element by element, what lies where in five scripts put together.
LEMMA Joined ==
  ASSUME NEW U, NEW a \in Seq(U), NEW b \in Seq(U), NEW c \in Seq(U), NEW d \in Seq(U),
         NEW n \in Nat, Len(a) + Len(b) + Len(c) = n, NEW s, s = a \o b \o c \o d
  PROVE  /\ Len(s) = Len(a) + Len(b) + Len(c) + Len(d)
         /\ \A i \in 1..Len(a) : s[i] = a[i]
         /\ \A i \in 1..Len(b) : s[Len(a) + i] = b[i]
         /\ \A i \in 1..Len(c) : s[Len(a) + Len(b) + i] = c[i]
         /\ \A i \in 1..Len(d) : s[n + i] = d[i]
<1>1. Len(a) \in Nat /\ Len(b) \in Nat /\ Len(c) \in Nat /\ Len(d) \in Nat
  OBVIOUS
<1>2. /\ a \o b \in Seq(U) /\ Len(a \o b) = Len(a) + Len(b)
      /\ \A i \in 1..Len(a) + Len(b) : (a \o b)[i] = IF i <= Len(a) THEN a[i] ELSE b[i - Len(a)]
  BY ConcatProperties
<1>3. PICK ab \in Seq(U) : ab = a \o b
  BY <1>2
<1>4. /\ ab \o c \in Seq(U) /\ Len(ab \o c) = Len(ab) + Len(c)
      /\ \A i \in 1..Len(ab) + Len(c) : (ab \o c)[i] = IF i <= Len(ab) THEN ab[i] ELSE c[i - Len(ab)]
  BY ConcatProperties
<1>5. PICK abc \in Seq(U) : abc = ab \o c
  BY <1>4
<1>6. /\ Len(abc \o d) = Len(abc) + Len(d)
      /\ \A i \in 1..Len(abc) + Len(d) : (abc \o d)[i] = IF i <= Len(abc) THEN abc[i] ELSE d[i - Len(abc)]
  BY ConcatProperties
<1>7. Len(ab) = Len(a) + Len(b) /\ Len(abc) = n
  BY <1>1, <1>2, <1>3, <1>4, <1>5
<1>8. a \o b \o c \o d = abc \o d
  BY <1>3, <1>5
<1>9. \A i \in 1..Len(a) : ab[i] = a[i] /\ abc[i] = ab[i] /\ (abc \o d)[i] = abc[i]
  BY <1>1, <1>2, <1>3, <1>4, <1>5, <1>6, <1>7
<1>10. ASSUME NEW i \in 1..Len(b)
       PROVE  (abc \o d)[Len(a) + i] = b[i]
  <2>1. ab[Len(a) + i] = b[i]
    BY <1>1, <1>2, <1>3
  <2>2. abc[Len(a) + i] = ab[Len(a) + i]
    BY <1>1, <1>4, <1>5, <1>7
  <2>3. (abc \o d)[Len(a) + i] = abc[Len(a) + i]
    BY <1>1, <1>6, <1>7
  <2>4. QED
    BY <2>1, <2>2, <2>3
<1>11. ASSUME NEW i \in 1..Len(c)
       PROVE  (abc \o d)[Len(a) + Len(b) + i] = c[i]
  <2>1. abc[Len(a) + Len(b) + i] = c[i]
    BY <1>1, <1>4, <1>5, <1>7
  <2>2. (abc \o d)[Len(a) + Len(b) + i] = abc[Len(a) + Len(b) + i]
    BY <1>1, <1>6, <1>7
  <2>3. QED
    BY <2>1, <2>2
<1>12. ASSUME NEW i \in 1..Len(d)
       PROVE  (abc \o d)[n + i] = d[i]
  BY <1>1, <1>6, <1>7
<1>13. QED
  BY <1>6, <1>7, <1>8, <1>9, <1>10, <1>11, <1>12

Args == {"dbDocument", "dbVector", "dbTimeseries", "dbDercontrol", "weather", "grid", "graph", "mqtt",
         "operator", "viewer", "jwt", "grafana", "lfdi", "cfn-signal", "graph_parameters",
         "brokerMqtt", "brokerOperator", "brokerViewer", "broker_template", "truststore",
         "release_files", "dtm", "docker", "compose_up", "success"}
Commands == {Do(op, arg) : op \in {"quiet", "loud", "secret", "signal"}, arg \in Args}

\* Slots are names of secrets.
LEMMA SlotsType ==
  ASSUME NEW p \in Plan
  PROVE  /\ Len(Slots(p)) = IF p = "defense" THEN 12 ELSE 13
         /\ \A i \in 1..Len(Slots(p)) : Slots(p)[i] \in Args
<1>1. CASE p = "defense"
  BY <1>1 DEF Slots, Args
<1>2. CASE p # "defense"
  BY <1>2 DEF Slots, Args
<1>3. QED
  BY <1>1, <1>2

\* UserData is 24 commands for every order: the missing slot makes room for the
\* graph's parameters.
LEMMA UserDataIs ==
  ASSUME NEW p \in Plan
  PROVE  /\ Len(UserData(p)) = 24
         /\ UserData(p)[1] = Do("quiet", "cfn-signal")
         /\ p = "defense" => /\ UserData(p)[2] = Do("loud", "graph_parameters")
                             /\ \A i \in 1..12 : UserData(p)[2 + i] = Do("secret", Slots(p)[i])
         /\ p # "defense" => \A i \in 1..13 : UserData(p)[1 + i] = Do("secret", Slots(p)[i])
         /\ UserData(p)[15] = Do("secret", "brokerMqtt")
         /\ UserData(p)[16] = Do("secret", "brokerOperator")
         /\ UserData(p)[17] = Do("secret", "brokerViewer")
         /\ UserData(p)[18] = Do("loud", "broker_template")
         /\ UserData(p)[19] = Do("loud", "truststore")
         /\ UserData(p)[20] = Do("loud", "release_files")
         /\ UserData(p)[21] = Do("loud", "dtm")
         /\ UserData(p)[22] = Do("loud", "docker")
         /\ UserData(p)[23] = Do("loud", "compose_up")
         /\ UserData(p)[24] = Do("signal", "success")
<1> DEFINE A == <<Do("quiet", "cfn-signal")>>
           B == IF p = "defense" THEN <<Do("loud", "graph_parameters")>> ELSE <<>>
           C == [i \in 1..Len(Slots(p)) |-> Do("secret", Slots(p)[i])]
           D == <<Do("secret", "brokerMqtt"), Do("secret", "brokerOperator"), Do("secret", "brokerViewer"),
                  Do("loud", "broker_template"), Do("loud", "truststore"), Do("loud", "release_files"),
                  Do("loud", "dtm"), Do("loud", "docker"), Do("loud", "compose_up"), Do("signal", "success")>>
<1>1. UserData(p) = A \o B \o C \o D
  BY DEF UserData
<1>0. \A op \in {"quiet", "loud", "secret", "signal"}, arg \in Args : Do(op, arg) \in Commands
  BY DEF Commands
<1>2. A \in Seq(Commands) /\ Len(A) = 1 /\ A[1] = Do("quiet", "cfn-signal")
  <2>1. Do("quiet", "cfn-signal") \in Commands
    BY <1>0 DEF Args
  <2>2. QED
    BY <2>1
<1>3. B \in Seq(Commands) /\ (p = "defense" => Len(B) = 1 /\ B[1] = Do("loud", "graph_parameters"))
      /\ (p # "defense" => Len(B) = 0)
  <2>1. Do("loud", "graph_parameters") \in Commands
    BY <1>0 DEF Args
  <2>2. QED
    BY <2>1
<1>4. C \in Seq(Commands) /\ Len(C) = Len(Slots(p)) /\ \A i \in 1..Len(Slots(p)) : C[i] = Do("secret", Slots(p)[i])
  <2>1. Len(Slots(p)) \in Nat
    BY SlotsType
  <2>2. \A i \in 1..Len(Slots(p)) : Do("secret", Slots(p)[i]) \in Commands
    BY <1>0, SlotsType
  <2>3. C \in [1..Len(Slots(p)) -> Commands]
    BY <2>2
  <2>4. QED
    BY <2>1, <2>3
<1>5. D \in Seq(Commands) /\ Len(D) = 10
  <2>1. /\ Do("secret", "brokerMqtt") \in Commands /\ Do("secret", "brokerOperator") \in Commands
        /\ Do("secret", "brokerViewer") \in Commands /\ Do("loud", "broker_template") \in Commands
        /\ Do("loud", "truststore") \in Commands /\ Do("loud", "release_files") \in Commands
        /\ Do("loud", "dtm") \in Commands /\ Do("loud", "docker") \in Commands
        /\ Do("loud", "compose_up") \in Commands /\ Do("signal", "success") \in Commands
    BY <1>0 DEF Args
  <2>2. QED
    BY <2>1
<1>6. /\ D[1] = Do("secret", "brokerMqtt") /\ D[2] = Do("secret", "brokerOperator")
       /\ D[3] = Do("secret", "brokerViewer")
      /\ D[4] = Do("loud", "broker_template") /\ D[5] = Do("loud", "truststore")
       /\ D[6] = Do("loud", "release_files")
      /\ D[7] = Do("loud", "dtm") /\ D[8] = Do("loud", "docker") /\ D[9] = Do("loud", "compose_up")
       /\ D[10] = Do("signal", "success")
  OBVIOUS
<1> HIDE DEF A, B, C, D
<1>16. A \in Seq(Commands)
  BY <1>2
<1>17. B \in Seq(Commands)
  BY <1>3
<1>18. C \in Seq(Commands)
  BY <1>4
<1>19. D \in Seq(Commands)
  BY <1>5
<1>20. ASSUME NEW n \in Nat, Len(A) + Len(B) + Len(C) = n
       PROVE  /\ Len(UserData(p)) = n + Len(D)
              /\ \A i \in 1..Len(A) : UserData(p)[i] = A[i]
              /\ \A i \in 1..Len(B) : UserData(p)[Len(A) + i] = B[i]
              /\ \A i \in 1..Len(C) : UserData(p)[Len(A) + Len(B) + i] = C[i]
              /\ \A i \in 1..Len(D) : UserData(p)[n + i] = D[i]
  <2>1. PICK s : s = A \o B \o C \o D
    OBVIOUS
  <2>2. Len(s) = n + Len(D)
    <3>1. Len(s) = Len(A) + Len(B) + Len(C) + Len(D)
      BY <1>16, <1>17, <1>18, <1>19, <2>1, Joined
    <3>2. QED
      BY <1>20, <3>1
  <2>3. \A i \in 1..Len(A) : s[i] = A[i]
    BY <1>16, <1>17, <1>18, <1>19, <1>20, <2>1, Joined
  <2>4. \A i \in 1..Len(B) : s[Len(A) + i] = B[i]
    BY <1>16, <1>17, <1>18, <1>19, <1>20, <2>1, Joined
  <2>5. \A i \in 1..Len(C) : s[Len(A) + Len(B) + i] = C[i]
    BY <1>16, <1>17, <1>18, <1>19, <1>20, <2>1, Joined
  <2>6. \A i \in 1..Len(D) : s[n + i] = D[i]
    BY <1>16, <1>17, <1>18, <1>19, <1>20, <2>1, Joined
  <2>7. QED
    BY <1>1, <2>1, <2>2, <2>3, <2>4, <2>5, <2>6
<1>21. Len(A) = 1 /\ Len(D) = 10
  BY <1>2, <1>5
<1>22. ASSUME p = "defense"
       PROVE  /\ Len(UserData(p)) = 24
              /\ \A i \in 1..10 : UserData(p)[14 + i] = D[i]
              /\ UserData(p)[1] = Do("quiet", "cfn-signal")
              /\ UserData(p)[2] = Do("loud", "graph_parameters")
              /\ \A i \in 1..12 : UserData(p)[2 + i] = Do("secret", Slots(p)[i])
  <2>1. Len(B) = 1
    BY <1>3, <1>22
  <2>2. Len(C) = 12
    BY <1>4, <1>22, SlotsType
  <2>3. Len(A) + Len(B) + Len(C) = 14 /\ 14 \in Nat
    BY <1>21, <2>1, <2>2
  <2>4. /\ Len(UserData(p)) = 14 + Len(D)
        /\ \A i \in 1..Len(A) : UserData(p)[i] = A[i]
        /\ \A i \in 1..Len(B) : UserData(p)[Len(A) + i] = B[i]
        /\ \A i \in 1..Len(C) : UserData(p)[Len(A) + Len(B) + i] = C[i]
        /\ \A i \in 1..Len(D) : UserData(p)[14 + i] = D[i]
    BY <1>20, <2>3
  <2>5. /\ Len(UserData(p)) = 24
        /\ \A i \in 1..10 : UserData(p)[14 + i] = D[i]
        /\ UserData(p)[1] = A[1] /\ UserData(p)[2] = B[1]
        /\ \A i \in 1..12 : UserData(p)[2 + i] = C[i]
    BY <1>21, <2>1, <2>2, <2>4
  <2>6. \A i \in 1..12 : C[i] = Do("secret", Slots(p)[i])
    BY <1>4, <2>2
  <2>7. QED
    BY <1>2, <1>3, <1>22, <2>5, <2>6
<1>23. ASSUME p # "defense"
       PROVE  /\ Len(UserData(p)) = 24
              /\ \A i \in 1..10 : UserData(p)[14 + i] = D[i]
              /\ UserData(p)[1] = Do("quiet", "cfn-signal")
              /\ \A i \in 1..13 : UserData(p)[1 + i] = Do("secret", Slots(p)[i])
  <2>1. Len(B) = 0
    BY <1>3, <1>23
  <2>2. Len(C) = 13
    BY <1>4, <1>23, SlotsType
  <2>3. Len(A) + Len(B) + Len(C) = 14 /\ 14 \in Nat
    BY <1>21, <2>1, <2>2
  <2>4. /\ Len(UserData(p)) = 14 + Len(D)
        /\ \A i \in 1..Len(A) : UserData(p)[i] = A[i]
        /\ \A i \in 1..Len(B) : UserData(p)[Len(A) + i] = B[i]
        /\ \A i \in 1..Len(C) : UserData(p)[Len(A) + Len(B) + i] = C[i]
        /\ \A i \in 1..Len(D) : UserData(p)[14 + i] = D[i]
    BY <1>20, <2>3
  <2>5. /\ Len(UserData(p)) = 24
        /\ \A i \in 1..10 : UserData(p)[14 + i] = D[i]
        /\ UserData(p)[1] = A[1]
        /\ \A i \in 1..13 : UserData(p)[1 + i] = C[i]
    BY <1>21, <2>1, <2>2, <2>4
  <2>6. \A i \in 1..13 : C[i] = Do("secret", Slots(p)[i])
    BY <1>4, <2>2
  <2>7. QED
    BY <1>2, <1>3, <1>23, <2>5, <2>6
<1>7. /\ Len(UserData(p)) = 24
      /\ \A i \in 1..10 : UserData(p)[14 + i] = D[i]
      /\ UserData(p)[1] = Do("quiet", "cfn-signal")
      /\ p = "defense" => /\ UserData(p)[2] = Do("loud", "graph_parameters")
                          /\ \A i \in 1..12 : UserData(p)[2 + i] = Do("secret", Slots(p)[i])
      /\ p # "defense" => \A i \in 1..13 : UserData(p)[1 + i] = Do("secret", Slots(p)[i])
  BY <1>22, <1>23
<1>10. /\ UserData(p)[15] = D[1] /\ UserData(p)[16] = D[2] /\ UserData(p)[17] = D[3] /\ UserData(p)[18] = D[4]
       /\ UserData(p)[19] = D[5] /\ UserData(p)[20] = D[6] /\ UserData(p)[21] = D[7] /\ UserData(p)[22] = D[8]
       /\ UserData(p)[23] = D[9] /\ UserData(p)[24] = D[10]
  BY <1>7
<1>11. QED
  BY <1>6, <1>7, <1>10

\* What the proofs need of UserData: where each kind of command is, what the
\* secrets are, and that every line of secrets.env has its command.
LEMMA SecretsOf ==
  ASSUME NEW p \in Plan
  PROVE  /\ DOMAIN SecretOf(p) =
              {"dbDocument", "dbVector", "dbTimeseries", "dbDercontrol", "weather", "grid", "mqtt",
               "operator", "viewer", "jwt", "grafana", "lfdi", "brokerMqtt", "brokerOperator",
               "brokerViewer"} \cup (IF p = "defense" THEN {} ELSE {"graph"})
         /\ \A s \in DOMAIN SecretOf(p) : SecretOf(p)[s] \in Read(p)
         /\ p # "defense" => \A s \in DOMAIN SecretOf(p) : SecretOf(p)[s] # "AuroraSliceTimeseriesSecret"
<1>1. CASE p = "defense"
  BY <1>1 DEF SecretOf, ++, Read
<1>2. CASE p # "defense"
  <2>1. DOMAIN SecretOf(p) =
              {"dbDocument", "dbVector", "dbTimeseries", "dbDercontrol", "weather", "grid", "mqtt",
               "operator", "viewer", "jwt", "grafana", "lfdi", "brokerMqtt", "brokerOperator",
               "brokerViewer"} \cup {"graph"}
    BY <1>2 DEF SecretOf, ++
  <2>2. \A s \in DOMAIN SecretOf(p) : SecretOf(p)[s] # "AuroraSliceTimeseriesSecret"
    BY <1>2 DEF SecretOf, ++
  <2>3. \A s \in DOMAIN SecretOf(p) : SecretOf(p)[s] \in Read(p)
    BY DEF Read
  <2>4. QED
    BY <1>2, <2>1, <2>2, <2>3
<1>3. QED
  BY <1>1, <1>2

\* The two fields of a command.
LEMMA Fields == \A op, arg : Do(op, arg).op = op /\ Do(op, arg).arg = arg
  BY DEF Do

\* What the proofs need of UserData: one quiet command, at the start, the signal
\* at the end, the DTM loud, and a read of every slot.
LEMMA ScriptFacts ==
  ASSUME NEW p \in Plan
  PROVE  /\ Len(UserData(p)) = 24
         /\ \A i \in 1..24 :
              LET do == UserData(p)[i] IN
              /\ do.op \in {"quiet", "loud", "secret", "signal"}
              /\ do.op = "quiet" <=> i = 1
              /\ do.op = "signal" <=> i = 24
              /\ do.op = "secret" => do.arg \in DOMAIN SecretOf(p)
              /\ do.arg = "graph_parameters" => p = "defense"
         /\ UserData(p)[21].op = "loud" /\ UserData(p)[21].arg = "dtm"
         /\ \A s \in DOMAIN SecretOf(p) :
              \E i \in 1..23 : UserData(p)[i].op = "secret" /\ UserData(p)[i].arg = s
<1> DEFINE U == UserData(p)
           Ending ==
             /\ U[15] = Do("secret", "brokerMqtt") /\ U[16] = Do("secret", "brokerOperator")
             /\ U[17] = Do("secret", "brokerViewer") /\ U[18] = Do("loud", "broker_template")
             /\ U[19] = Do("loud", "truststore") /\ U[20] = Do("loud", "release_files")
             /\ U[21] = Do("loud", "dtm") /\ U[22] = Do("loud", "docker")
             /\ U[23] = Do("loud", "compose_up") /\ U[24] = Do("signal", "success")
<1>1. Len(U) = 24 /\ U[1] = Do("quiet", "cfn-signal") /\ Ending
  BY UserDataIs
<1>2. CASE p = "defense"
  <2>1. /\ U[2] = Do("loud", "graph_parameters")
        /\ U[3] = Do("secret", "dbDocument") /\ U[4] = Do("secret", "dbVector")
        /\ U[5] = Do("secret", "dbTimeseries") /\ U[6] = Do("secret", "dbDercontrol")
        /\ U[7] = Do("secret", "weather") /\ U[8] = Do("secret", "grid")
        /\ U[9] = Do("secret", "mqtt") /\ U[10] = Do("secret", "operator")
        /\ U[11] = Do("secret", "viewer") /\ U[12] = Do("secret", "jwt")
        /\ U[13] = Do("secret", "grafana") /\ U[14] = Do("secret", "lfdi")
    BY <1>2, UserDataIs, SlotsAre
  <2> HIDE DEF U, Ending
  <2>2. \A i \in 1..24 :
          /\ U[i].op \in {"quiet", "loud", "secret", "signal"}
          /\ U[i].op = "quiet" <=> i = 1
          /\ U[i].op = "signal" <=> i = 24
    BY <1>1, <2>1, Fields DEF Ending
  <2>3. /\ \A i \in 3..17 : U[i].op = "secret"
        /\ \A i \in 1..24 : U[i].op = "secret" => i \in 3..17
    BY <1>1, <2>1, Fields DEF Ending
  <2>7. /\ U[3].arg = "dbDocument" /\ U[4].arg = "dbVector" /\ U[5].arg = "dbTimeseries"
        /\ U[6].arg = "dbDercontrol" /\ U[7].arg = "weather" /\ U[8].arg = "grid"
        /\ U[9].arg = "mqtt" /\ U[10].arg = "operator" /\ U[11].arg = "viewer"
        /\ U[12].arg = "jwt" /\ U[13].arg = "grafana" /\ U[14].arg = "lfdi"
        /\ U[15].arg = "brokerMqtt" /\ U[16].arg = "brokerOperator" /\ U[17].arg = "brokerViewer"
    BY <1>1, <2>1, Fields DEF Ending
  <2>10. DOMAIN SecretOf(p) =
           {"dbDocument", "dbVector", "dbTimeseries", "dbDercontrol", "weather", "grid", "mqtt",
             "operator", "viewer", "jwt", "grafana", "lfdi", "brokerMqtt", "brokerOperator",
             "brokerViewer"}
    BY <1>2, SecretsOf
  <2>8. \A i \in 3..17 : U[i].arg \in DOMAIN SecretOf(p)
    BY <2>7, <2>10
  <2>9. \A i \in 1..24 : U[i].op = "secret" => U[i].arg \in DOMAIN SecretOf(p)
    BY <2>3, <2>8
  <2>4. ASSUME NEW s \in DOMAIN SecretOf(p)
        PROVE  \E i \in 1..23 : U[i].op = "secret" /\ U[i].arg = s
    <3>1. \E i \in 3..17 : U[i].arg = s
      BY <2>7, <2>10
    <3>2. QED
      BY <2>3, <3>1
  <2>5. U[21].op = "loud" /\ U[21].arg = "dtm"
    BY <1>1, Fields DEF Ending
  <2>6. QED
    BY <1>1, <1>2, <2>2, <2>4, <2>5, <2>9 DEF U
<1>3. CASE p # "defense"
  <2>1. /\ U[2] = Do("secret", "dbDocument") /\ U[3] = Do("secret", "dbVector")
        /\ U[4] = Do("secret", "dbTimeseries") /\ U[5] = Do("secret", "dbDercontrol")
        /\ U[6] = Do("secret", "weather") /\ U[7] = Do("secret", "grid")
        /\ U[8] = Do("secret", "graph")
        /\ U[9] = Do("secret", "mqtt") /\ U[10] = Do("secret", "operator")
        /\ U[11] = Do("secret", "viewer") /\ U[12] = Do("secret", "jwt")
        /\ U[13] = Do("secret", "grafana") /\ U[14] = Do("secret", "lfdi")
    BY <1>3, UserDataIs, SlotsAre
  <2> HIDE DEF U, Ending
  <2>2. \A i \in 1..24 :
          /\ U[i].op \in {"quiet", "loud", "secret", "signal"}
          /\ U[i].op = "quiet" <=> i = 1
          /\ U[i].op = "signal" <=> i = 24
          /\ U[i].arg # "graph_parameters"
    BY <1>1, <2>1, Fields DEF Ending
  <2>3. /\ \A i \in 2..17 : U[i].op = "secret"
        /\ \A i \in 1..24 : U[i].op = "secret" => i \in 2..17
    BY <1>1, <2>1, Fields DEF Ending
  <2>7. /\ U[2].arg = "dbDocument" /\ U[3].arg = "dbVector" /\ U[4].arg = "dbTimeseries"
        /\ U[5].arg = "dbDercontrol" /\ U[6].arg = "weather" /\ U[7].arg = "grid"
        /\ U[8].arg = "graph" /\ U[9].arg = "mqtt" /\ U[10].arg = "operator"
        /\ U[11].arg = "viewer" /\ U[12].arg = "jwt" /\ U[13].arg = "grafana"
        /\ U[14].arg = "lfdi" /\ U[15].arg = "brokerMqtt" /\ U[16].arg = "brokerOperator"
        /\ U[17].arg = "brokerViewer"
    BY <1>1, <2>1, Fields DEF Ending
  <2>10. DOMAIN SecretOf(p) =
           {"dbDocument", "dbVector", "dbTimeseries", "dbDercontrol", "weather", "grid", "mqtt",
             "operator", "viewer", "jwt", "grafana", "lfdi", "brokerMqtt", "brokerOperator",
             "brokerViewer", "graph"}
    BY <1>3, SecretsOf
  <2>8. \A i \in 2..17 : U[i].arg \in DOMAIN SecretOf(p)
    BY <2>7, <2>10
  <2>9. \A i \in 1..24 : U[i].op = "secret" => U[i].arg \in DOMAIN SecretOf(p)
    BY <2>3, <2>8
  <2>4. ASSUME NEW s \in DOMAIN SecretOf(p)
        PROVE  \E i \in 1..23 : U[i].op = "secret" /\ U[i].arg = s
    <3>1. \E i \in 2..17 : U[i].arg = s
      BY <2>7, <2>10
    <3>2. QED
      BY <2>3, <3>1
  <2>5. U[21].op = "loud" /\ U[21].arg = "dtm"
    BY <1>1, Fields DEF Ending
  <2>6. QED
    BY <1>1, <1>3, <2>2, <2>4, <2>5, <2>9 DEF U
<1>4. QED
  BY <1>2, <1>3

-----------------------------------------------------------------------------
(* The invariant.                                                          *)

\* Until the creation is over, and when it has come to its good end.
Forward == stack \in {"none", "CREATE_IN_PROGRESS", "CREATE_COMPLETE"}

\* What exists, what was called and what was launched has all it waits for.
Waits ==
  /\ \A r \in created : Needs(r) \subseteq created
  /\ \A c \in Custom : call[c].at # "none" \/ answer[c] # "none" =>
       c \in Present /\ Needs(c) \subseteq created
  /\ boot.pc > 0 => Needs("EmsInstance") \subseteq created

\* What a handler's step leaves behind.
Done(s) ==
  /\ s = "models" => "models_granted" \in account
  /\ s = "urls"   => "urls_reachable" \in account
  /\ s \in {"databases", "extensions", "maintenance"} => s \in ready
  /\ s \in DOMAIN SliceSecret => s \in written

\* A handler that is to say SUCCESS has done the steps it is past, and one that
\* said so has done them all.
Answers ==
  /\ \A c \in Custom \cap created : answer[c] = "SUCCESS"
  /\ \A c \in Custom :
       /\ call[c].pc \in 1..Len(StepsOf(c))
       /\ call[c].says = "SUCCESS" => \A i \in 1..call[c].pc - 1 : Done(StepsOf(c)[i])
       /\ answer[c] = "SUCCESS" => \A i \in 1..Len(StepsOf(c)) - 1 : Done(StepsOf(c)[i])
  /\ written \subseteq {Slices(plan)[i] : i \in 1..Len(Slices(plan))}

\* UserData is past its DTM only with a fresh one, and signals at its end.
Delivered ==
  /\ boot.pc \in 22..24 => "delivery_fresh" \in account
  /\ boot.signal = "success" => boot.pc = 25 /\ "delivery_fresh" \in account
  /\ "EmsInstance" \in created => boot.signal = "success"
  /\ \A s \in DOMAIN env : env[s] # "placeholder"

Script == Scripts[plan]
Real == \A i \in 1..24 : i < boot.pc /\ Script[i].op = "secret" => env[Script[i].arg] = "real"

\* While nothing is wrong, and nothing has failed or came before a way out.
Healthy ==
  /\ Account \subseteq account
  /\ \A c \in Custom : call[c].says = "SUCCESS" /\ call[c].at # "dead" /\ answer[c] # "FAILED"
  /\ boot.signal # "failure"
  /\ boot.pc > 24 => boot.signal = "success"
  /\ boot.pc > 1 => "tools" \in ready
  /\ Real

\* No secret is gone before the creation is over: the sweep takes old ones.
Young ==
  /\ old => stack \notin {"none", "CREATE_IN_PROGRESS"}
  /\ gone # {} => old

Whole == stack = "CREATE_COMPLETE" => created = Present
Unbroken == Smooth => stack # "ROLLBACK_IN_PROGRESS" /\ (Forward => Healthy)

CreationInv ==
  /\ CreateInv /\ Young /\ Whole
  /\ Forward => Waits /\ Answers /\ Delivered
  /\ Unbroken

-----------------------------------------------------------------------------
(* What the invariant says of a state.                                     *)

\* What the proofs need of a template: who is in it, and what the bootstrap and
\* the instance wait for.
LEMMA TemplateFacts ==
  ASSUME NEW p \in Plan
  PROVE  LET T == Template(p) IN
         /\ {"AuroraBootstrapCustomResource", "BedrockPreflightCustomResource", "EmsInstance"}
              \subseteq DOMAIN T
         /\ p = "commercial" => "CustomerUrlPreflightCustomResource" \in DOMAIN T
         /\ {"AuroraInstance", "AuroraMasterSecret"} \cup SliceSecrets(p) \subseteq
              T["AuroraBootstrapCustomResource"]
         /\ "AuroraBootstrapCustomResource" \in T["EmsInstance"]
         /\ Read(p) \subseteq T["EmsInstance"] \cup SliceSecrets(p)
         /\ "DerControlTruststoreSecret" \in T["EmsInstance"]
         /\ p = "defense" => GraphParams \subseteq T["EmsInstance"]
<1> DEFINE T == Template(p)
           A == AuroraClusterResources(p)
           X == Build(p).resources
           b == "AuroraBootstrapCustomResource"
<1>1. "BedrockPreflightCustomResource" \in DOMAIN T
  BY PartsOfTheTemplate
<1>2. \A r \in DOMAIN X \ BeforeTheBuild : r \in DOMAIN T /\ T[r] = X[r]
  BY PartsOfTheTemplate
<1>3. {b, "CustomerUrlPreflightCustomResource", "EmsInstance"} \cap BeforeTheBuild = {}
  BY DEF BeforeTheBuild, NetworkIds
<1>4. /\ "EmsInstance" \in DOMAIN T
      /\ Build(p).instance \subseteq T["EmsInstance"]
  <2>1. "EmsInstance" \notin DOMAIN Build(p).resources \cup BeforeTheBuild
    BY <1>3, BuildFacts
  <2>2. /\ "EmsInstance" \in DOMAIN Template(p)
        /\ Template(p)["EmsInstance"] =
                   {"BedrockPreflightCustomResource", "EmsInstanceProfile", "EmsSubnet",
                    "EmsSecurityGroup", "EmsEip"} \cup Build(p).instance
    BY <2>1, PartsOfTheTemplate
  <2>3. QED
    BY <2>2
<1>5. /\ b \in DOMAIN A
      /\ {"AuroraInstance", "AuroraMasterSecret"} \cup SliceSecrets(p) \subseteq A[b]
  BY ClusterFacts
<1>6. b \in DOMAIN X /\ X[b] = A[b]
  BY <1>5, BuildFacts
<1> HIDE DEF T, A, X
<1>7. b \in DOMAIN T /\ T[b] = A[b]
  BY <1>2, <1>3, <1>6
<1>8. p = "commercial" => "CustomerUrlPreflightCustomResource" \in DOMAIN T
  BY <1>2, <1>3, BuildFacts DEF X
<1>9. /\ "AuroraBootstrapCustomResource" \in T["EmsInstance"]
      /\ Read(p) \subseteq T["EmsInstance"] \cup SliceSecrets(p)
      /\ "DerControlTruststoreSecret" \in T["EmsInstance"]
      /\ p = "defense" => GraphParams \subseteq T["EmsInstance"]
  BY <1>4, InstanceWaits
<1>10. QED
  BY <1>1, <1>4, <1>5, <1>7, <1>8, <1>9 DEF T

\* The abbreviations of StackCreate in the order's own terms.
LEMMA PlanFacts ==
  ASSUME CreateInv
  PROVE  /\ plan \in Plan
         /\ Present = DOMAIN Template(plan)
         /\ \A r : Needs(r) = Template(plan)[r]
         /\ Script = UserData(plan) /\ Scripts[plan] = UserData(plan)
         /\ Len(Script) = 24 /\ Len(Scripts[plan]) = 24
         /\ Secrets[plan] = SecretOf(plan)
         /\ ReadBy[plan] = Read(plan)
         /\ Quick[plan] = Present \ Late
<1>1. plan \in Plan
  BY CreateAssumption DEF CreateInv
<1>2. QED
  BY <1>1, ByPlanIs, ScriptFacts DEF Present, Needs, Script

\* Every handler has a step or more before its answer, which is the last.
LEMMA StepsFacts ==
  ASSUME plan \in Plan, NEW c \in Custom
  PROVE  /\ Len(StepsOf(c)) \in 2..9
         /\ StepsOf(c)[Len(StepsOf(c))] = "answer"
         /\ \A i \in 1..Len(StepsOf(c)) - 1 : StepsOf(c)[i] # "answer"
         /\ \A i \in 1..Len(StepsOf(c)) : StepsOf(c)[i] = "timeseries" => plan = "defense"
<1>1. CASE c = "BedrockPreflightCustomResource"
  <2>1. StepsOf(c) = <<"models", "answer">>
    BY <1>1, Zenon DEF StepsOf, BedrockSteps
  <2>2. QED
    BY <2>1
<1>2. CASE c = "CustomerUrlPreflightCustomResource"
  <2>1. StepsOf(c) = <<"urls", "answer">>
    BY <1>2 DEF StepsOf, UrlSteps
  <2>2. QED
    BY <2>1
<1>3. CASE c = "AuroraBootstrapCustomResource"
  <2>1. StepsOf(c) = BootstrapSteps(plan)
    BY <1>3 DEF StepsOf
  <2>2. CASE plan = "defense"
    <3>1. Len(StepsOf(c)) = 9
      BY <2>1, <2>2, BootstrapStepsAre
    <3>2. /\ StepsOf(c)[1] = "password" /\ StepsOf(c)[2] = "databases" /\ StepsOf(c)[3] = "extensions"
          /\ StepsOf(c)[4] = "maintenance" /\ StepsOf(c)[5] = "document" /\ StepsOf(c)[6] = "vector"
          /\ StepsOf(c)[7] = "timeseries" /\ StepsOf(c)[8] = "dercontrol" /\ StepsOf(c)[9] = "answer"
      BY <2>1, <2>2, BootstrapStepsAre
    <3>4. \A i \in 1..8 : StepsOf(c)[i] # "answer"
      BY <3>2
    <3>5. \A i \in 1..9 : StepsOf(c)[i] = "timeseries" => plan = "defense"
      BY <2>2, <3>2
    <3>6. Len(StepsOf(c)) - 1 = 8
      BY <3>1
    <3>7. QED
      BY <3>1, <3>2, <3>4, <3>5, <3>6
  <2>3. CASE plan # "defense"
    <3>1. Len(StepsOf(c)) = 7
      BY <2>1, <2>3, BootstrapStepsAre
    <3>2. /\ StepsOf(c)[1] = "password" /\ StepsOf(c)[2] = "databases" /\ StepsOf(c)[3] = "extensions"
          /\ StepsOf(c)[4] = "document" /\ StepsOf(c)[5] = "vector" /\ StepsOf(c)[6] = "dercontrol"
          /\ StepsOf(c)[7] = "answer"
      BY <2>1, <2>3, BootstrapStepsAre
    <3>4. \A i \in 1..6 : StepsOf(c)[i] # "answer"
      BY <3>2
    <3>5. \A i \in 1..7 : StepsOf(c)[i] = "timeseries" => plan = "defense"
      BY <2>3, <3>2
    <3>6. Len(StepsOf(c)) - 1 = 6
      BY <3>1
    <3>7. QED
      BY <3>1, <3>2, <3>4, <3>5, <3>6
  <2>4. QED
    BY <2>2, <2>3
<1>4. QED
  BY <1>1, <1>2, <1>3 DEF Custom

\* A bootstrap that has done all its steps left every database and every URL.
LEMMA BootstrapProves ==
  ASSUME plan \in Plan, NEW c \in Custom, c = "AuroraBootstrapCustomResource",
         \A i \in 1..Len(StepsOf(c)) - 1 : Done(StepsOf(c)[i])
  PROVE  /\ {"databases", "extensions"} \subseteq ready
         /\ plan = "defense" => "maintenance" \in ready
         /\ {Slices(plan)[j] : j \in 1..Len(Slices(plan))} \subseteq written
<1>1. StepsOf(c) = BootstrapSteps(plan)
  BY DEF StepsOf
<1>2. DOMAIN SliceSecret = {"document", "vector", "timeseries", "dercontrol"}
  BY SliceFacts
<1>3. CASE plan = "defense"
  <2>1. /\ Len(StepsOf(c)) = 9 /\ StepsOf(c)[2] = "databases" /\ StepsOf(c)[3] = "extensions"
        /\ StepsOf(c)[4] = "maintenance" /\ StepsOf(c)[5] = "document" /\ StepsOf(c)[6] = "vector"
        /\ StepsOf(c)[7] = "timeseries" /\ StepsOf(c)[8] = "dercontrol"
    BY <1>1, <1>3, BootstrapStepsAre
  <2>2. /\ Done("databases") /\ Done("extensions") /\ Done("maintenance") /\ Done("document")
        /\ Done("vector") /\ Done("timeseries") /\ Done("dercontrol")
    <3>1. Len(StepsOf(c)) - 1 = 8
      BY <2>1
    <3>2. \A i \in 1..8 : Done(StepsOf(c)[i])
      BY <3>1
    <3>3. QED
      BY <2>1, <3>2
  <2>3. {Slices(plan)[j] : j \in 1..Len(Slices(plan))} = {"document", "vector", "timeseries", "dercontrol"}
    BY <1>3, SliceFacts
  <2>4. QED
    BY <1>2, <2>2, <2>3 DEF Done
<1>4. CASE plan # "defense"
  <2>1. /\ Len(StepsOf(c)) = 7 /\ StepsOf(c)[2] = "databases" /\ StepsOf(c)[3] = "extensions"
        /\ StepsOf(c)[4] = "document" /\ StepsOf(c)[5] = "vector" /\ StepsOf(c)[6] = "dercontrol"
    BY <1>1, <1>4, BootstrapStepsAre
  <2>2. Done("databases") /\ Done("extensions") /\ Done("document") /\ Done("vector") /\ Done("dercontrol")
    <3>1. Len(StepsOf(c)) - 1 = 6
      BY <2>1
    <3>2. \A i \in 1..6 : Done(StepsOf(c)[i])
      BY <3>1
    <3>3. QED
      BY <2>1, <3>2
  <2>3. {Slices(plan)[j] : j \in 1..Len(Slices(plan))} = {"document", "vector", "dercontrol"}
    BY <1>4, SliceFacts
  <2>4. QED
    BY <1>2, <1>4, <2>2, <2>3 DEF Done
<1>5. QED
  BY <1>3, <1>4

\* Behind a bootstrap that was called there is a database; whether its subnet has
\* an endpoint yet, nothing tells.
LEMMA BehindTheBootstrap ==
  ASSUME CreationInv, Forward, NEW c \in Custom, c = "AuroraBootstrapCustomResource",
         Needs(c) \subseteq created
  PROVE  {"AuroraInstance", "AuroraMasterSecret"} \cup SliceSecrets(plan) \subseteq created
<1>1. plan \in Plan /\ \A r : Needs(r) = Template(plan)[r]
  BY PlanFacts DEF CreationInv
<1>2. QED
  BY <1>1, TemplateFacts

\* When UserData runs, all that it reads is there and written.
LEMMA BehindTheInstance ==
  ASSUME CreationInv, Forward, boot.pc > 0
  PROVE  /\ Read(plan) \subseteq created
         /\ "DerControlTruststoreSecret" \in created
         /\ plan = "defense" => GraphParams \subseteq created
         /\ {Slices(plan)[j] : j \in 1..Len(Slices(plan))} \subseteq written
<1> DEFINE c == "AuroraBootstrapCustomResource"
<1>1. CreateInv /\ Waits /\ Answers
  BY DEF CreationInv
<1>2. plan \in Plan /\ \A r : Needs(r) = Template(plan)[r]
  BY <1>1, PlanFacts
<1>3. Needs("EmsInstance") \subseteq created
  BY <1>1 DEF Waits
<1>4. c \in created /\ c \in Custom
  BY <1>2, <1>3, TemplateFacts DEF Custom
<1>5. Needs(c) \subseteq created
  BY <1>1, <1>4 DEF Waits
<1>6. SliceSecrets(plan) \subseteq created
  BY <1>4, <1>5, BehindTheBootstrap
<1>7. answer[c] = "SUCCESS"
  BY <1>1, <1>4 DEF Answers
<1>8. \A i \in 1..Len(StepsOf(c)) - 1 : Done(StepsOf(c)[i])
  BY <1>1, <1>4, <1>7 DEF Answers
<1>9. {Slices(plan)[j] : j \in 1..Len(Slices(plan))} \subseteq written
  BY <1>2, <1>4, <1>8, BootstrapProves
<1>10. Read(plan) \subseteq created
  BY <1>2, <1>3, <1>6, TemplateFacts
<1>11. "DerControlTruststoreSecret" \in created
  BY <1>2, <1>3, TemplateFacts
<1>12. plan = "defense" => GraphParams \subseteq created
  BY <1>2, <1>3, TemplateFacts
<1>13. QED
  BY <1>6, <1>9, <1>10, <1>11, <1>12

\* No secret goes missing under a creation.
LEMMA NobodyGone ==
  ASSUME CreationInv, Creating
  PROVE  gone = {} /\ Forward /\ created \ gone = created
BY DEF CreationInv, Young, Creating, Forward

\* UserData finds every secret there, and written.
LEMMA SecretsAreReal ==
  ASSUME CreationInv, Creating, boot.pc > 0, NEW s \in DOMAIN Secrets[plan]
  PROVE  SlotValue(s) = "real"
<1>1. plan \in Plan /\ Secrets[plan] = SecretOf(plan)
  BY PlanFacts DEF CreationInv
<1>2. created \ gone = created /\ Forward
  BY NobodyGone
<1>3. /\ Read(plan) \subseteq created
      /\ {Slices(plan)[j] : j \in 1..Len(Slices(plan))} \subseteq written
  BY <1>2, BehindTheInstance
<1>4. Secrets[plan][s] \in created
  BY <1>1, <1>3, SecretsOf
<1>5. ASSUME NEW d \in DOMAIN SliceSecret, SliceSecret[d] = Secrets[plan][s]
      PROVE  d \in written
  <2>1. CASE plan = "defense"
    BY <1>1, <1>3, <2>1, SliceFacts
  <2>2. CASE plan # "defense"
    <3>1. Secrets[plan][s] # "AuroraSliceTimeseriesSecret"
      BY <1>1, <2>2, SecretsOf
    <3>2. d # "timeseries"
      BY <1>5, <3>1 DEF SliceSecret
    <3>3. QED
      BY <1>1, <1>3, <2>2, <3>2, SliceFacts
  <2>3. QED
    BY <2>1, <2>2
<1>6. QED
  BY <1>2, <1>4, <1>5, Zenon DEF SlotValue

-----------------------------------------------------------------------------
(* The first state.                                                        *)

\* What may be wrong from the start can be counted.
LEMMA AccountIsFinite == IsFiniteSet(Account)
<1>1. IsFiniteSet({"models_granted"})
  BY FS_Singleton
<1>2. IsFiniteSet({"models_granted"} \cup {"urls_reachable"})
  BY <1>1, FS_AddElement
<1>3. IsFiniteSet(({"models_granted"} \cup {"urls_reachable"}) \cup {"delivery_fresh"})
  BY <1>2, FS_AddElement
<1>4. ({"models_granted"} \cup {"urls_reachable"}) \cup {"delivery_fresh"} = Account
  BY DEF Account
<1>5. QED
  BY <1>3, <1>4

\* The invariant holds at the start: with no fault nothing is wrong.
LEMMA InitCreation == ASSUME SweepInit PROVE CreationInv
<1>1. /\ plan \in Plans /\ account \in SUBSET Account
      /\ faults = Cardinality(Account \ account) /\ faults <= MaxFaults
      /\ stack = "none" /\ created = {} /\ gone = {}
      /\ call = NoCalls /\ answer = NoAnswers /\ ready = {} /\ written = {}
      /\ boot = NoBoot /\ env = NoEnv /\ early = FALSE
      /\ old = FALSE
  BY DEF SweepInit, Init
<1>2. IsFiniteSet(Account \ account)
  BY AccountIsFinite, FS_Subset
<1>3. faults \in 0..MaxFaults
  BY <1>1, <1>2, FS_CardinalityType, CreateAssumption
<1>4. faults = 0 => Account \subseteq account
  BY <1>1, <1>2, FS_EmptySet
<1>5. plan \in Plan
  BY <1>1, CreateAssumption
<1>6. Len(Scripts[plan]) = 24
  BY <1>5, ByPlanIs, ScriptFacts
<1>7. CreateInv
  <2>1. call \in [Custom -> CallType]
    BY <1>1 DEF NoCalls, NoCall, CallType, Tries
  <2>2. answer \in [Custom -> {"none", "SUCCESS", "FAILED"}]
    BY <1>1 DEF NoAnswers
  <2>3. boot \in [pc : 0..Len(Scripts[plan]) + 1, signal : {"none", "success", "failure"}]
    BY <1>1, <1>6 DEF NoBoot
  <2>4. env \in [DOMAIN Secrets[plan] -> {"unread", "empty", "placeholder", "real"}]
    BY <1>1 DEF NoEnv
  <2>5. QED
    BY <1>1, <1>3, <2>1, <2>2, <2>3, <2>4 DEF CreateInv
<1>8. Young /\ Whole
  BY <1>1 DEF Young, Whole
<1>9. Waits
  BY <1>1 DEF Waits, NoCalls, NoCall, NoAnswers, NoBoot
<1>10. Answers
  <2>1. \A c \in Custom : call[c].pc = 1 /\ answer[c] = "none"
    BY <1>1 DEF NoCalls, NoCall, NoAnswers
  <2>2. \A c \in Custom : Len(StepsOf(c)) \in 2..9
    BY <1>5, StepsFacts
  <2>3. ASSUME NEW c \in Custom
        PROVE  call[c].pc \in 1..Len(StepsOf(c)) /\ call[c].pc - 1 = 0
    <3>1. call[c].pc = 1
      BY <2>1
    <3>2. Len(StepsOf(c)) \in 2..9
      BY <2>2
    <3>3. PICK n \in 2..9 : n = Len(StepsOf(c))
      BY <3>2
    <3>4. 1 \in 1..n /\ 1 - 1 = 0
      OBVIOUS
    <3>5. QED
      BY <3>1, <3>3, <3>4
  <2>4. \A i \in 1..0 : FALSE
    OBVIOUS
  <2>5. \A c \in Custom : \A i \in 1..call[c].pc - 1 : Done(StepsOf(c)[i])
    BY <2>3, <2>4
  <2>6. QED
    BY <1>1, <2>1, <2>3, <2>5 DEF Answers
<1>11. Delivered
  BY <1>1 DEF Delivered, NoBoot, NoEnv
<1>12. Smooth => Healthy
  <2>1. \A c \in Custom : call[c].says = "SUCCESS" /\ call[c].at # "dead" /\ answer[c] # "FAILED"
    BY <1>1 DEF NoCalls, NoCall, NoAnswers
  <2>3. boot.pc = 0 /\ boot.signal = "none"
    BY <1>1 DEF NoBoot
  <2>4. QED
    BY <1>4, <2>1, <2>3 DEF Healthy, Real, Smooth
<1>13. QED
  BY <1>1, <1>7, <1>8, <1>9, <1>10, <1>11, <1>12 DEF CreationInv, Unbroken

-----------------------------------------------------------------------------
(* The steps, by what they change.                                         *)

\* The creation fails: never while nothing is wrong.
LEMMA RollsBack ==
  ASSUME CreationInv, Creating, RollBack, faults' \in 0..MaxFaults, ~Smooth', UNCHANGED old
  PROVE  CreationInv'
<1>1. CreateInv /\ Young
  BY DEF CreationInv
<1>2. /\ stack' = "ROLLBACK_IN_PROGRESS" /\ call' = NoCalls /\ answer' = NoAnswers
      /\ ready' = {} /\ written' = {} /\ boot' = NoBoot /\ env' = NoEnv
      /\ UNCHANGED <<plan, account, created, gone, early>>
  BY DEF RollBack
<1>3. Scripts[plan]' = Scripts[plan] /\ Len(Scripts[plan]) = 24
  BY <1>1, <1>2, PlanFacts
<1>4. CreateInv'
  <2>1. call' \in [Custom -> CallType]
    BY <1>2 DEF NoCalls, NoCall, CallType, Tries
  <2>2. answer' \in [Custom -> {"none", "SUCCESS", "FAILED"}]
    BY <1>2 DEF NoAnswers
  <2>3. boot' \in [pc : 0..Len(Scripts[plan])' + 1, signal : {"none", "success", "failure"}]
    BY <1>2, <1>3 DEF NoBoot
  <2>4. env' \in [DOMAIN Secrets[plan]' -> {"unread", "empty", "placeholder", "real"}]
    BY <1>2 DEF NoEnv
  <2>5. created' \subseteq Present' /\ gone' \subseteq ReadBy[plan]'
    BY <1>1, <1>2 DEF CreateInv, Present
  <2>6. plan' \in Plans /\ account' \subseteq Account /\ early' \in BOOLEAN
    BY <1>1, <1>2 DEF CreateInv
  <2>7. QED
    BY <1>2, <2>1, <2>2, <2>3, <2>4, <2>5, <2>6 DEF CreateInv, Creating
<1>5. Young' /\ Whole' /\ ~Forward' /\ Unbroken'
  BY <1>1, <1>2 DEF Young, Whole, Forward, Unbroken, Creating
<1>6. QED
  BY <1>4, <1>5 DEF CreationInv

\* More exists: what had all it waits for, answered, and signalled.
LEMMA Creates ==
  ASSUME CreationInv, Creating,
         UNCHANGED <<plan, account, stack, call, answer, ready, written, gone, boot, env, early, faults, old>>,
         NEW X \in SUBSET Present, created' = created \cup X,
         \A r \in X : Needs(r) \subseteq created,
         \A c \in X \cap Custom : answer[c] = "SUCCESS",
         "EmsInstance" \in X => boot.signal = "success"
  PROVE  CreationInv'
<1>1. CreateInv /\ Young /\ Whole /\ Forward /\ Waits /\ Answers /\ Delivered /\ Unbroken
  BY NobodyGone DEF CreationInv
<1>2. /\ Present' = Present /\ \A r : Needs(r)' = Needs(r)
      /\ \A c : StepsOf(c)' = StepsOf(c)
      /\ \A s : Done(s)' = Done(s)
      /\ Script' = Script
  BY Zenon DEF Present, Needs, StepsOf, Done, Script
<1>3. CreateInv'
  <2>1. \A c \in Custom \cap created' : answer'[c] = "SUCCESS"
    BY <1>1 DEF Answers
  <2>2. created' \subseteq Present'
    BY <1>1, <1>2 DEF CreateInv
  <2>3. QED
    BY <1>1, <2>1, <2>2 DEF CreateInv
<1>4. Young' /\ Whole' /\ Forward'
  BY <1>1 DEF Young, Whole, Forward, Creating
<1>5. Waits'
  BY <1>1, <1>2 DEF Waits
<1>6. Answers'
  BY <1>1, <1>2 DEF Answers
<1>7. Delivered'
  BY <1>1 DEF Delivered
<1>8. Unbroken'
  BY <1>1, <1>2 DEF Unbroken, Smooth, Healthy, Forward, Real
<1>9. QED
  BY <1>3, <1>4, <1>5, <1>6, <1>7, <1>8 DEF CreationInv

\* A handler is called, works, answers or ends.
LEMMA HandlerMoves ==
  ASSUME CreationInv, Creating, NEW c \in Custom,
         UNCHANGED <<plan, account, stack, created, gone, boot, env, old>>,
         faults' \in 0..MaxFaults, early' \in BOOLEAN, Smooth' => Smooth,
         ready' \in SUBSET {"tools", "databases", "extensions", "maintenance"},
         ready \subseteq ready',
         written' \in SUBSET {Slices(plan)[i] : i \in 1..Len(Slices(plan))},
         written \subseteq written',
         NEW k \in CallType, call' = [call EXCEPT ![c] = k],
         NEW a \in {"none", "SUCCESS", "FAILED"}, answer' = [answer EXCEPT ![c] = a],
         k.at # "none" \/ a # "none" => c \in Present /\ Needs(c) \subseteq created,
         c \in created => a = "SUCCESS",
         k.pc \in 1..Len(StepsOf(c)),
         k.says = "SUCCESS" => \A i \in 1..k.pc - 1 : Done(StepsOf(c)[i])',
         a = "SUCCESS" => \A i \in 1..Len(StepsOf(c)) - 1 : Done(StepsOf(c)[i])',
         Smooth' => k.says = "SUCCESS" /\ k.at # "dead" /\ a # "FAILED"
  PROVE  CreationInv'
<1>1. CreateInv /\ Young /\ Whole /\ Forward /\ Waits /\ Answers /\ Delivered /\ Unbroken
  BY NobodyGone DEF CreationInv
<1>2. /\ Present' = Present /\ \A r : Needs(r)' = Needs(r)
      /\ \A d : StepsOf(d)' = StepsOf(d)
      /\ Script' = Script
  BY Zenon DEF Present, Needs, StepsOf, Script
<1>3. \A s : Done(s) => Done(s)'
  BY DEF Done
<1>4. /\ call'[c] = k /\ answer'[c] = a
      /\ \A d \in Custom \ {c} : call'[d] = call[d] /\ answer'[d] = answer[d]
      /\ call' \in [Custom -> CallType] /\ answer' \in [Custom -> {"none", "SUCCESS", "FAILED"}]
  BY <1>1 DEF CreateInv
<1>5. {Slices(plan)[i] : i \in 1..Len(Slices(plan))} \subseteq DOMAIN SliceSecret
  BY <1>1, SliceFacts, PlanFacts
<1>6. CreateInv'
  <2>1. \A d \in Custom \cap created : answer'[d] = "SUCCESS"
    BY <1>1, <1>4 DEF Answers
  <2>2. written' \subseteq DOMAIN SliceSecret
    BY <1>5
  <2>3. QED
    BY <1>1, <1>2, <1>4, <2>1, <2>2 DEF CreateInv
<1>7. Young' /\ Whole' /\ Forward'
  BY <1>1 DEF Young, Whole, Forward, Creating
<1>8. Waits'
  BY <1>1, <1>2, <1>4 DEF Waits
<1>9. Answers'
  <2>1. \A d \in Custom \cap created' : answer'[d] = "SUCCESS"
    BY <1>1, <1>4 DEF Answers
  <2>2. ASSUME NEW d \in Custom
        PROVE  /\ call'[d].pc \in 1..Len(StepsOf(d)')
               /\ call'[d].says = "SUCCESS" => \A i \in 1..call'[d].pc - 1 : Done(StepsOf(d)[i])'
               /\ answer'[d] = "SUCCESS" => \A i \in 1..Len(StepsOf(d)') - 1 : Done(StepsOf(d)[i])'
    <3>1. CASE d = c
      BY <1>2, <1>4, <3>1
    <3>2. CASE d # c
      <4>1. call'[d] = call[d] /\ answer'[d] = answer[d]
        BY <1>4, <3>2
      <4>2. StepsOf(d)' = StepsOf(d) /\ \A i : Done(StepsOf(d)[i]) => Done(StepsOf(d)[i])'
        BY <1>2 DEF Done
      <4>3. QED
        BY <1>1, <4>1, <4>2 DEF Answers
    <3>3. QED
      BY <3>1, <3>2
  <2>3. QED
    BY <2>1, <2>2 DEF Answers
<1>10. Delivered'
  BY <1>1 DEF Delivered
<1>11. Unbroken'
  <2>1. SUFFICES ASSUME Smooth'
                 PROVE  Healthy'
    BY <1>1 DEF Unbroken, Creating
  <2>2. Healthy
    BY <1>1, <2>1 DEF Unbroken
  <2>3. \A d \in Custom : call'[d].says = "SUCCESS" /\ call'[d].at # "dead" /\ answer'[d] # "FAILED"
    BY <1>4, <2>1, <2>2 DEF Healthy
  <2>4. Real' /\ (boot.pc > 1 => "tools" \in ready')
    BY <1>2, <2>2 DEF Healthy, Real
  <2>5. QED
    BY <2>2, <2>3, <2>4 DEF Healthy
<1>12. QED
  BY <1>6, <1>7, <1>8, <1>9, <1>10, <1>11 DEF CreationInv

\* The instance is launched, or its UserData goes on.
LEMMA BoxMoves ==
  ASSUME CreationInv, Creating, Needs("EmsInstance") \subseteq created,
         UNCHANGED <<plan, account, stack, created, call, answer, written, gone, old>>,
         faults' \in 0..MaxFaults, early' \in BOOLEAN, Smooth' => Smooth,
         ready' \in {ready, ready \cup {"tools"}},
         NEW pc \in 1..25, NEW sg \in {"none", "success", "failure"}, boot' = [pc |-> pc, signal |-> sg],
         env' \in [DOMAIN Secrets[plan] -> {"unread", "empty", "real"}],
         "EmsInstance" \notin created,
         pc \in 22..24 => "delivery_fresh" \in account,
         sg = "success" => pc = 25 /\ "delivery_fresh" \in account,
         Smooth' => /\ sg # "failure"
                    /\ pc = 25 => sg = "success"
                    /\ pc > 1 => "tools" \in ready'
                    /\ Real'
  PROVE  CreationInv'
<1>1. CreateInv /\ Young /\ Whole /\ Forward /\ Waits /\ Answers /\ Delivered /\ Unbroken
  BY NobodyGone DEF CreationInv
<1>2. /\ Present' = Present /\ \A r : Needs(r)' = Needs(r)
      /\ \A d : StepsOf(d)' = StepsOf(d)
      /\ Scripts[plan]' = Scripts[plan] /\ Secrets[plan]' = Secrets[plan]
  BY Zenon DEF Present, Needs, StepsOf
<1>3. \A s : Done(s) => Done(s)'
  BY DEF Done
<1>4. Len(Scripts[plan]) = 24
  BY <1>1, PlanFacts
<1>5. boot'.pc = pc /\ boot'.signal = sg
  OBVIOUS
<1>6. CreateInv'
  <2>1. boot' \in [pc : 0..Len(Scripts[plan])' + 1, signal : {"none", "success", "failure"}]
    BY <1>2, <1>4
  <2>2. env' \in [DOMAIN Secrets[plan]' -> {"unread", "empty", "placeholder", "real"}]
    BY <1>2
  <2>3. ready' \subseteq {"tools", "databases", "extensions", "maintenance"}
    BY <1>1 DEF CreateInv
  <2>4. QED
    BY <1>1, <1>2, <2>1, <2>2, <2>3 DEF CreateInv
<1>7. Young' /\ Whole' /\ Forward'
  BY <1>1 DEF Young, Whole, Forward, Creating
<1>8. Waits'
  BY <1>1, <1>2 DEF Waits
<1>9. Answers'
  <2>1. \A d \in Custom : \A i : Done(StepsOf(d)[i]) => Done(StepsOf(d)[i])'
    BY <1>2 DEF Done
  <2>2. QED
    BY <1>1, <1>2, <2>1 DEF Answers
<1>10. Delivered'
  <2>1. \A s \in DOMAIN env' : env'[s] # "placeholder"
    OBVIOUS
  <2>2. QED
    BY <1>5, <2>1 DEF Delivered
<1>11. Unbroken'
  <2>1. SUFFICES ASSUME Smooth'
                 PROVE  Healthy'
    BY <1>1 DEF Unbroken, Creating
  <2>2. Healthy
    BY <1>1, <2>1 DEF Unbroken
  <2>3. pc > 24 => pc = 25
    OBVIOUS
  <2>4. QED
    BY <1>5, <2>1, <2>2, <2>3 DEF Healthy
<1>12. QED
  BY <1>6, <1>7, <1>8, <1>9, <1>10, <1>11 DEF CreationInv

-----------------------------------------------------------------------------
(* The actions: what CloudFormation creates.                               *)

\* What takes no time, in any order.
LEMMA CreateQuickKeeps == ASSUME CreationInv, CreateQuick, UNCHANGED old PROVE CreationInv'
<1> DEFINE due == {r \in Quick[plan] : Due(r)}
<1>1. Creating
  BY DEF CreateQuick
<1>2. PICK late \in Stragglers :
        created' = created \cup (due \ late)
  BY DEF CreateQuick
<1>3. UNCHANGED <<plan, account, stack, call, answer, ready, written, gone, boot, env, early, faults>>
  BY DEF CreateQuick
<1>4. Quick[plan] = Present \ Late
  BY PlanFacts DEF CreationInv
<1>5. due \in SUBSET Present /\ \A r \in due : Needs(r) \subseteq created
  BY DEF Due
<1>6. due \cap Custom = {} /\ "EmsInstance" \notin due
  BY <1>4 DEF Late, Custom
<1> DEFINE X == due \ late
<1>7. /\ X \in SUBSET Present /\ created' = created \cup X
      /\ \A r \in X : Needs(r) \subseteq created
      /\ X \cap Custom = {} /\ "EmsInstance" \notin X
  BY <1>2, <1>5, <1>6
<1> HIDE DEF X, due
<1>8. QED
  BY <1>1, <1>3, <1>7, Creates

\* One resource, by itself.
LEMMA CreatesOne ==
  ASSUME CreationInv, Creating,
         UNCHANGED <<plan, account, stack, call, answer, ready, written, gone, boot, env, early, faults, old>>,
         NEW r \in Present, created' = created \cup {r},
         Needs(r) \subseteq created,
         r \in Custom => answer[r] = "SUCCESS",
         r = "EmsInstance" => boot.signal = "success"
  PROVE  CreationInv'
<1>1. {r} \in SUBSET Present /\ (\A q \in {r} : Needs(q) \subseteq created)
      /\ (\A c \in {r} \cap Custom : answer[c] = "SUCCESS")
      /\ ("EmsInstance" \in {r} => boot.signal = "success")
  OBVIOUS
<1>2. QED
  BY <1>1, Creates

\* A database, a route or an endpoint.
LEMMA CreateLateKeeps ==
  ASSUME CreationInv, NEW r \in Plain, CreateLate(r), UNCHANGED old
  PROVE  CreationInv'
<1>1. /\ Creating /\ Due(r) /\ created' = created \cup {r}
      /\ UNCHANGED <<plan, account, stack, call, answer, ready, written, gone, boot, env, early, faults>>
  BY DEF CreateLate
<1>2. r \notin Custom /\ r # "EmsInstance"
  BY DEF Plain
<1>3. r \in Present /\ Needs(r) \subseteq created
  BY <1>1 DEF Due
<1>4. QED
  BY <1>1, <1>2, <1>3, CreatesOne

\* A custom resource whose handler said SUCCESS.
LEMMA AcceptKeeps ==
  ASSUME CreationInv, NEW c \in Custom, Accept(c), UNCHANGED old
  PROVE  CreationInv'
<1>1. /\ Creating /\ answer[c] = "SUCCESS" /\ created' = created \cup {c}
      /\ UNCHANGED <<plan, account, stack, call, answer, ready, written, gone, boot, env, early, faults>>
  BY DEF Accept
<1>2. c \in Present /\ Needs(c) \subseteq created
  BY <1>1, NobodyGone DEF CreationInv, Waits
<1>3. c # "EmsInstance"
  BY DEF Custom
<1>4. QED
  BY <1>1, <1>2, <1>3, CreatesOne

\* The instance, once its signal came.
LEMMA SignalledKeeps == ASSUME CreationInv, Signalled, UNCHANGED old PROVE CreationInv'
<1> DEFINE e == "EmsInstance"
<1>1. /\ Creating /\ boot.signal = "success" /\ created' = created \cup {e}
      /\ UNCHANGED <<plan, account, stack, call, answer, ready, written, gone, boot, env, early, faults>>
  BY DEF Signalled
<1>2. boot.pc = 25
  BY <1>1, NobodyGone DEF CreationInv, Delivered
<1>3. Needs(e) \subseteq created
  BY <1>1, <1>2, NobodyGone DEF CreationInv, Waits
<1>4. e \in Present
  BY PlanFacts, TemplateFacts DEF CreationInv
<1>5. e \notin Custom
  BY DEF Custom
<1>6. QED
  BY <1>1, <1>3, <1>4, <1>5, CreatesOne

\* The start, and the good end.
LEMMA StartOrEndKeeps == ASSUME CreationInv, CreateStack \/ Finish, UNCHANGED old PROVE CreationInv'
<1>1. UNCHANGED <<plan, account, created, call, answer, ready, written, gone, boot, env, early, faults>>
  BY DEF CreateStack, Finish
<1>2. /\ stack' \in {"CREATE_IN_PROGRESS", "CREATE_COMPLETE"}
      /\ stack' = "CREATE_COMPLETE" => created = Present
      /\ stack \in {"none", "CREATE_IN_PROGRESS"}
  BY DEF CreateStack, Finish, Creating
<1>3. CreateInv /\ Young /\ Whole /\ Forward /\ Waits /\ Answers /\ Delivered /\ Unbroken
  BY <1>2 DEF CreationInv, Forward
<1>4. /\ Present' = Present /\ \A r : Needs(r)' = Needs(r)
      /\ \A d : StepsOf(d)' = StepsOf(d)
      /\ \A s : Done(s)' = Done(s)
      /\ Script' = Script
  BY <1>1, Zenon DEF Present, Needs, StepsOf, Done, Script
<1>5. CreateInv'
  BY <1>1, <1>3, <1>4 DEF CreateInv, Answers
<1>6. Young' /\ Whole' /\ Forward'
  BY <1>1, <1>2, <1>3, <1>4 DEF Young, Whole, Forward
<1>7. Waits' /\ Answers' /\ Delivered'
  BY <1>1, <1>3, <1>4 DEF Waits, Answers, Delivered
<1>8. Unbroken'
  BY <1>1, <1>2, <1>3, <1>4 DEF Unbroken, Smooth, Healthy, Forward, Real
<1>9. QED
  BY <1>5, <1>6, <1>7, <1>8 DEF CreationInv

\* What fails is a fault, unless something was wrong before.
LEMMA FailKeeps ==
  ASSUME CreationInv, Fail \/ CreationPolicy \/ (\E c \in Custom : GiveUp(c)), UNCHANGED old
  PROVE  CreationInv'
<1>1. Creating /\ RollBack
  BY DEF Fail, CreationPolicy, GiveUp
<1>2. Forward /\ Unbroken /\ CreateInv
  BY <1>1, NobodyGone DEF CreationInv
<1>3. faults \in 0..MaxFaults /\ MaxFaults \in Nat /\ Len(Scripts[plan]) = 24
  BY <1>2, PlanFacts, CreateAssumption DEF CreateInv
<1>4. CASE Fault
  <2>1. faults' \in 0..MaxFaults /\ ~Smooth'
    BY <1>3, <1>4 DEF Fault, Smooth
  <2>2. QED
    BY <1>1, <2>1, RollsBack
<1>5. CASE UNCHANGED faults /\ ~Healthy
  <2>1. ~Smooth
    BY <1>2, <1>5 DEF Unbroken
  <2>2. faults' \in 0..MaxFaults /\ ~Smooth'
    BY <1>1, <1>3, <1>5, <2>1 DEF RollBack, Smooth
  <2>3. QED
    BY <1>1, <2>2, RollsBack
<1>6. CASE Fail
  <2>1. CASE Fault
    BY <1>4, <2>1
  <2>2. CASE (\E c \in Custom : answer[c] = "FAILED") /\ UNCHANGED faults
    BY <1>5, <2>2 DEF Healthy
  <2>3. CASE boot.signal = "failure" /\ UNCHANGED faults
    BY <1>5, <2>3 DEF Healthy
  <2>4. QED
    BY <1>6, <2>1, <2>2, <2>3 DEF Fail
<1>7. CASE CreationPolicy
  <2>1. CASE Fault
    BY <1>4, <2>1
  <2>2. CASE boot.pc > Len(Scripts[plan]) /\ boot.signal = "none" /\ UNCHANGED faults
    BY <1>3, <1>5, <2>2 DEF Healthy
  <2>3. QED
    BY <1>7, <2>1, <2>2 DEF CreationPolicy
<1>8. CASE \E c \in Custom : GiveUp(c)
  <2>1. \E c \in Custom : call[c].at = "dead" /\ UNCHANGED faults
    BY <1>8 DEF GiveUp
  <2>2. QED
    BY <1>5, <2>1 DEF Healthy
<1>9. QED
  BY <1>6, <1>7, <1>8

-----------------------------------------------------------------------------
(* The actions: the handlers.                                              *)

\* A handler that runs was called with all it waits for.
LEMMA HandlerFacts ==
  ASSUME CreationInv, NEW c \in Custom, Running(c)
  PROVE  /\ Creating /\ Forward /\ CreateInv /\ Waits /\ Answers /\ Unbroken
         /\ plan \in Plan
         /\ c \in Present /\ Needs(c) \subseteq created
         /\ call[c] \in CallType /\ call[c].at = "running"
         /\ answer[c] \in {"none", "SUCCESS", "FAILED"}
         /\ call[c].pc \in 1..Len(StepsOf(c)) /\ Len(StepsOf(c)) \in 2..9
         /\ Working(c) => call[c].pc \in 1..Len(StepsOf(c)) - 1
         /\ Answering(c) => call[c].pc = Len(StepsOf(c))
         /\ faults \in 0..MaxFaults /\ MaxFaults \in Nat
<1>1. Creating /\ Forward /\ CreateInv /\ Waits /\ Answers /\ Unbroken /\ call[c].at = "running"
  BY NobodyGone DEF CreationInv, Running
<1>2. plan \in Plan
  BY <1>1, PlanFacts
<1>3. c \in Present /\ Needs(c) \subseteq created
  BY <1>1 DEF Waits
<1>4. call[c] \in CallType /\ answer[c] \in {"none", "SUCCESS", "FAILED"}
  BY <1>1 DEF CreateInv
<1>5. call[c].pc \in 1..Len(StepsOf(c))
  BY <1>1 DEF Answers
<1>6. Len(StepsOf(c)) \in 2..9 /\ StepsOf(c)[Len(StepsOf(c))] = "answer"
      /\ \A i \in 1..Len(StepsOf(c)) - 1 : StepsOf(c)[i] # "answer"
  BY <1>2, StepsFacts
<1>7. PICK n \in 2..9 : n = Len(StepsOf(c))
  BY <1>6
<1>8. call[c].pc \in 1..n /\ StepsOf(c)[n] = "answer" /\ \A i \in 1..n - 1 : StepsOf(c)[i] # "answer"
  BY <1>5, <1>6, <1>7
<1>9. call[c].pc = n \/ call[c].pc \in 1..n - 1
  BY <1>8
<1>10. Working(c) => call[c].pc \in 1..n - 1
  BY <1>8, <1>9 DEF Working, Now
<1>11. Answering(c) => call[c].pc = n
  BY <1>8, <1>9 DEF Answering, Now
<1>12. faults \in 0..MaxFaults /\ MaxFaults \in Nat
  BY <1>1, CreateAssumption DEF CreateInv
<1>13. QED
  BY <1>1, <1>2, <1>3, <1>4, <1>5, <1>6, <1>7, <1>10, <1>11, <1>12

\* The steps are the order's, whatever the handlers do.
LEMMA SameSteps ==
  ASSUME UNCHANGED plan
  PROVE  \A d : StepsOf(d)' = StepsOf(d)
BY Zenon DEF StepsOf

\* An invocation has done nothing yet.
LEMMA InvokeKeeps ==
  ASSUME CreationInv, NEW c \in Custom, Invoke(c), UNCHANGED old
  PROVE  CreationInv'
<1>1. /\ Creating /\ c \in Present /\ Due(c) /\ call[c].at = "none"
      /\ call' = [call EXCEPT ![c].at = "running"]
      /\ UNCHANGED <<plan, account, stack, created, answer, ready, written, gone, boot, env, early, faults>>
  BY DEF Invoke
<1>2. CreateInv /\ Waits /\ Answers /\ Unbroken
  BY <1>1, NobodyGone DEF CreationInv
<1>3. /\ call \in [Custom -> CallType] /\ answer \in [Custom -> {"none", "SUCCESS", "FAILED"}]
      /\ faults \in 0..MaxFaults
      /\ ready \in SUBSET {"tools", "databases", "extensions", "maintenance"}
      /\ written \in SUBSET {Slices(plan)[i] : i \in 1..Len(Slices(plan))}
  BY <1>2 DEF CreateInv, Answers
<1> DEFINE k == [call[c] EXCEPT !.at = "running"]
           a == answer[c]
<1>4. k \in CallType /\ k.at = "running" /\ k.pc = call[c].pc /\ k.says = call[c].says
  BY <1>3 DEF CallType
<1>5. call' = [call EXCEPT ![c] = k] /\ answer' = [answer EXCEPT ![c] = a] /\ a \in {"none", "SUCCESS", "FAILED"}
  BY <1>1, <1>3
<1>6. Needs(c) \subseteq created /\ c \notin created
  BY <1>1 DEF Due
<1>7. /\ k.pc \in 1..Len(StepsOf(c))
      /\ k.says = "SUCCESS" => \A i \in 1..k.pc - 1 : Done(StepsOf(c)[i])
      /\ a = "SUCCESS" => \A i \in 1..Len(StepsOf(c)) - 1 : Done(StepsOf(c)[i])
  BY <1>2, <1>4 DEF Answers
<1>8. \A s : Done(s)' = Done(s)
  BY <1>1 DEF Done
<1>9. \A i : Done(StepsOf(c)[i])' = Done(StepsOf(c)[i])
  BY <1>1, SameSteps DEF Done
<1>10. /\ Smooth' => Smooth /\ k.says = "SUCCESS" /\ k.at # "dead" /\ a # "FAILED"
       /\ early' \in BOOLEAN
  BY <1>1, <1>2, <1>4, NobodyGone DEF Unbroken, Smooth, Healthy, CreateInv
<1> HIDE DEF k, a
<1>11. QED
  BY <1>1, <1>3, <1>4, <1>5, <1>6, <1>7, <1>9, <1>10, HandlerMoves

\* A step that works adds what it does to what is done.
LEMMA WorkKeeps ==
  ASSUME CreationInv, NEW c \in Custom, Work(c), UNCHANGED old
  PROVE  CreationInv'
<1>1. /\ Working(c) /\ Right(c)
      /\ ready'   = IF Now(c) \in {"databases", "extensions", "maintenance"} THEN ready \cup {Now(c)} ELSE ready
      /\ written' = IF Now(c) \in DOMAIN SliceSecret THEN written \cup {Now(c)} ELSE written
      /\ call' = [call EXCEPT ![c].pc = @ + 1]
      /\ UNCHANGED <<plan, account, stack, created, answer, gone, boot, env, early, faults>>
  BY DEF Work
<1>2. Running(c)
  BY <1>1 DEF Working, Running
<1>3. /\ Creating /\ CreateInv /\ Waits /\ Answers /\ Unbroken /\ Forward /\ plan \in Plan
      /\ c \in Present /\ Needs(c) \subseteq created
      /\ call[c] \in CallType /\ call[c].at = "running" /\ answer[c] \in {"none", "SUCCESS", "FAILED"}
      /\ Len(StepsOf(c)) \in 2..9
      /\ call[c].pc \in 1..Len(StepsOf(c)) - 1
      /\ faults \in 0..MaxFaults
  BY <1>1, <1>2, HandlerFacts
<1>4. call \in [Custom -> CallType] /\ answer \in [Custom -> {"none", "SUCCESS", "FAILED"}]
  BY <1>3 DEF CreateInv
<1>5. PICK n \in 2..9 : n = Len(StepsOf(c))
  BY <1>3
<1>6. PICK i \in 1..n - 1 : i = call[c].pc
  BY <1>3, <1>5
<1>7. i + 1 \in 1..n /\ i + 1 \in 1..9 /\ (i + 1) - 1 = i
  OBVIOUS
<1> DEFINE k == [call[c] EXCEPT !.pc = i + 1]
           a == answer[c]
<1>8. k \in CallType /\ k.at = "running" /\ k.pc = i + 1 /\ k.says = call[c].says
  BY <1>3, <1>7 DEF CallType
<1>9. call' = [call EXCEPT ![c] = k] /\ answer' = [answer EXCEPT ![c] = a] /\ a \in {"none", "SUCCESS", "FAILED"}
  BY <1>1, <1>3, <1>4, <1>6
<1> HIDE DEF k
<1>10. PICK s : s = StepsOf(c)[i]
  OBVIOUS
<1>11. Now(c) = s
  BY <1>6, <1>10 DEF Now
<1>12. Done(s)'
  BY <1>1, <1>11 DEF Done, Right
<1>13. ready \subseteq ready' /\ written \subseteq written'
  BY <1>1
<1>14. \A t : Done(t) => Done(t)'
  BY <1>1, <1>13 DEF Done
<1>15. StepsOf(c)' = StepsOf(c)
  BY <1>1, SameSteps
<1>16. ready' \in SUBSET {"tools", "databases", "extensions", "maintenance"}
  BY <1>1, <1>3 DEF CreateInv
<1>17. written' \in SUBSET {Slices(plan)[j] : j \in 1..Len(Slices(plan))}
  <2>1. written \subseteq {Slices(plan)[j] : j \in 1..Len(Slices(plan))}
    BY <1>3 DEF Answers
  <2>2. s \in DOMAIN SliceSecret => s \in {Slices(plan)[j] : j \in 1..Len(Slices(plan))}
    <3>1. i \in 1..n
      OBVIOUS
    <3>2. s = "timeseries" => plan = "defense"
      BY <1>3, <1>5, <1>10, <3>1, StepsFacts
    <3>3. QED
      BY <1>3, <3>2, SliceFacts
  <2>3. QED
    BY <1>1, <1>11, <2>1, <2>2
<1>18. k.pc \in 1..Len(StepsOf(c))
  BY <1>5, <1>7, <1>8
<1>19. ASSUME k.says = "SUCCESS", NEW j \in 1..k.pc - 1
       PROVE  Done(StepsOf(c)[j])'
  <2>1. CASE j = i
    BY <1>10, <1>12, <1>15, <2>1
  <2>2. CASE j # i
    <3>1. j \in 1..call[c].pc - 1
      BY <1>6, <1>7, <1>8, <2>2
    <3>2. Done(StepsOf(c)[j])
      BY <1>3, <1>8, <1>19, <3>1 DEF Answers
    <3>3. QED
      BY <1>14, <1>15, <3>2
  <2>3. QED
    BY <2>1, <2>2
<1>20. ASSUME a = "SUCCESS", NEW j \in 1..Len(StepsOf(c)) - 1
       PROVE  Done(StepsOf(c)[j])'
  <2>1. Done(StepsOf(c)[j])
    BY <1>3, <1>20 DEF Answers
  <2>2. QED
    BY <1>14, <1>15, <2>1
<1>21. c \in created => a = "SUCCESS"
  BY <1>3 DEF Answers
<1>22. /\ Smooth' => Smooth /\ k.says = "SUCCESS" /\ k.at # "dead" /\ a # "FAILED"
       /\ early' \in BOOLEAN
  BY <1>1, <1>3, <1>8 DEF Unbroken, Smooth, Healthy, CreateInv
<1> HIDE DEF a
<1>23. QED
  BY <1>1, <1>3, <1>8, <1>9, <1>13, <1>16, <1>17, <1>18, <1>19, <1>20, <1>21, <1>22, HandlerMoves

\* Nothing wrong: a handler that gets an answer gets the right one.
LEMMA HealthyHandler ==
  ASSUME CreationInv, NEW c \in Custom, Working(c), Smooth
  PROVE  Right(c)
<1>0. Running(c)
  BY DEF Working, Running
<1>1. /\ Creating /\ Forward /\ CreateInv /\ Unbroken /\ plan \in Plan
      /\ Needs(c) \subseteq created
      /\ Len(StepsOf(c)) \in 2..9
      /\ call[c].pc \in 1..Len(StepsOf(c))
  BY <1>0, HandlerFacts
<1>2. Healthy
  BY <1>1 DEF Unbroken
<1>3. created \ gone = created
  BY <1>1, NobodyGone
<1>4. c = "AuroraBootstrapCustomResource" =>
        {"AuroraInstance", "AuroraMasterSecret"} \cup SliceSecrets(plan) \subseteq created
  BY <1>1, BehindTheBootstrap
<1>6. {"models_granted", "urls_reachable", "delivery_fresh"} \subseteq account
  BY <1>2 DEF Healthy, Account
<1>7. CASE c # "AuroraBootstrapCustomResource"
  <2>1. Now(c) \in {"models", "urls", "answer"}
    <3>1. CASE c = "BedrockPreflightCustomResource"
      <4>1. StepsOf(c) = <<"models", "answer">>
        BY <3>1, Zenon DEF StepsOf, BedrockSteps
      <4>2. call[c].pc \in {1, 2}
        BY <1>1, <4>1
      <4>3. QED
        BY <4>1, <4>2 DEF Now
    <3>2. CASE c = "CustomerUrlPreflightCustomResource"
      <4>1. StepsOf(c) = <<"urls", "answer">>
        BY <3>2 DEF StepsOf, UrlSteps
      <4>2. call[c].pc \in {1, 2}
        BY <1>1, <4>1
      <4>3. QED
        BY <4>1, <4>2 DEF Now
    <3>3. QED
      BY <1>7, <3>1, <3>2 DEF Custom
  <2>2. \A d \in DOMAIN SliceSecret : d \in {"document", "vector", "timeseries", "dercontrol"}
    BY <1>1, SliceFacts
  <2>3. QED
    BY <1>6, <2>1, <2>2 DEF Right
<1>8. CASE c = "AuroraBootstrapCustomResource"
  <2>1. StepsOf(c) = BootstrapSteps(plan)
    BY <1>8 DEF StepsOf
  <2>2. ASSUME Now(c) \in DOMAIN SliceSecret
        PROVE  SliceSecret[Now(c)] \in created \ gone
    <3>1. Now(c) = "timeseries" => plan = "defense"
      BY <1>1, StepsFacts DEF Now
    <3>2. SliceSecret[Now(c)] \in SliceSecrets(plan)
      BY <1>1, <2>2, <3>1, SliceFacts DEF SliceSecret
    <3>3. QED
      BY <1>3, <1>4, <1>8, <3>2
  <2>3. QED
    BY <1>4, <1>6, <1>8, <2>2 DEF Right
<1>9. QED
  BY <1>7, <1>8

\* A step that raises turns the answer to FAILED, and was a fault.
LEMMA WorkRaisesKeeps ==
  ASSUME CreationInv, NEW c \in Custom, WorkRaises(c), UNCHANGED old
  PROVE  CreationInv'
<1>1. /\ Working(c) /\ (IF Right(c) THEN Fault ELSE UNCHANGED faults)
      /\ call' = [call EXCEPT ![c].pc = Len(StepsOf(c)), ![c].says = "FAILED"]
      /\ UNCHANGED <<plan, account, stack, created, answer, ready, written, gone, boot, env, early>>
  BY DEF WorkRaises
<1>2. Running(c)
  BY <1>1 DEF Working, Running
<1>3. /\ Creating /\ CreateInv /\ Answers /\ Unbroken /\ Forward /\ plan \in Plan
      /\ c \in Present /\ Needs(c) \subseteq created
      /\ call[c] \in CallType /\ call[c].at = "running" /\ answer[c] \in {"none", "SUCCESS", "FAILED"}
      /\ Len(StepsOf(c)) \in 2..9
      /\ faults \in 0..MaxFaults /\ MaxFaults \in Nat
  BY <1>2, HandlerFacts
<1>4. call \in [Custom -> CallType] /\ answer \in [Custom -> {"none", "SUCCESS", "FAILED"}]
      /\ ready \in SUBSET {"tools", "databases", "extensions", "maintenance"}
      /\ written \in SUBSET {Slices(plan)[i] : i \in 1..Len(Slices(plan))}
  BY <1>3 DEF CreateInv, Answers
<1>5. PICK n \in 2..9 : n = Len(StepsOf(c))
  BY <1>3
<1> DEFINE k == [call[c] EXCEPT !.pc = n, !.says = "FAILED"]
           a == answer[c]
<1>6. n \in 1..9 /\ n \in 1..n
  OBVIOUS
<1>7. k \in CallType /\ k.at = "running" /\ k.pc = n /\ k.says = "FAILED"
  BY <1>3, <1>6 DEF CallType
<1>8. call' = [call EXCEPT ![c] = k] /\ answer' = [answer EXCEPT ![c] = a] /\ a \in {"none", "SUCCESS", "FAILED"}
  BY <1>1, <1>3, <1>4, <1>5
<1> HIDE DEF k
<1>9. /\ faults' \in 0..MaxFaults /\ early' \in BOOLEAN
      /\ Smooth' => Smooth /\ ~Right(c)
  BY <1>1, <1>3 DEF Fault, Smooth, CreateInv
<1>10. ~Smooth'
  BY <1>1, <1>9, HealthyHandler
<1>11. \A t : Done(t) => Done(t)'
  BY <1>1 DEF Done
<1>12. StepsOf(c)' = StepsOf(c)
  BY <1>1, SameSteps
<1>13. ASSUME a = "SUCCESS", NEW j \in 1..Len(StepsOf(c)) - 1
       PROVE  Done(StepsOf(c)[j])'
  <2>1. Done(StepsOf(c)[j])
    BY <1>3, <1>13 DEF Answers
  <2>2. QED
    BY <1>11, <1>12, <2>1
<1>14. c \in created => a = "SUCCESS"
  BY <1>3 DEF Answers
<1>15. k.pc \in 1..Len(StepsOf(c))
  BY <1>5, <1>6, <1>7
<1>16. ready \subseteq ready' /\ written \subseteq written'
       /\ ready' \in SUBSET {"tools", "databases", "extensions", "maintenance"}
       /\ written' \in SUBSET {Slices(plan)[i] : i \in 1..Len(Slices(plan))}
  BY <1>1, <1>4
<1> HIDE DEF a
<1>17. QED
  BY <1>1, <1>3, <1>7, <1>8, <1>9, <1>10, <1>13, <1>14, <1>15, <1>16, HandlerMoves

\* What Lambda makes of an invocation that did not end well.
LEMMA AgainIs ==
  ASSUME CreateInv, NEW c \in Custom, Again(c)
  PROVE  \E k \in CallType : /\ call' = [call EXCEPT ![c] = k]
                             /\ k.at \in {"running", "dead"} /\ k.pc = 1
<1>1. call[c] \in CallType
  BY DEF CreateInv
<1>2. call[c].try \in 1..3
  BY <1>1 DEF CallType, Tries
<1>3. CASE call[c].try < Tries
  <2>1. call[c].try + 1 \in 1..3
    BY <1>2, <1>3 DEF Tries
  <2>5. PICK t \in 1..3 : t = call[c].try + 1
    BY <2>1
  <2>2. [at |-> "running", try |-> t, pc |-> 1, says |-> "SUCCESS"] \in CallType
    BY DEF CallType, Tries
  <2>3. PICK k \in CallType : k = [at |-> "running", try |-> t, pc |-> 1, says |-> "SUCCESS"]
    BY <2>2, Zenon
  <2>4. [NoCall EXCEPT !.at = "running"] = [at |-> "running", try |-> 1, pc |-> 1, says |-> "SUCCESS"]
    BY DEF NoCall
  <2>6. PICK b \in CallType : b = [at |-> "running", try |-> 1, pc |-> 1, says |-> "SUCCESS"]
    <3>1. [at |-> "running", try |-> 1, pc |-> 1, says |-> "SUCCESS"] \in CallType
      BY DEF CallType, Tries
    <3>2. QED
      BY <3>1, Zenon
  <2>10. [b EXCEPT !.try = t] = k
    BY <2>3, <2>6
  <2>11. [NoCall EXCEPT !.at = "running", !.try = t] = [b EXCEPT !.try = t]
    <3>1. [NoCall EXCEPT !.at = "running", !.try = t] = [[NoCall EXCEPT !.at = "running"] EXCEPT !.try = t]
      BY Zenon
    <3>2. QED
      BY <2>4, <2>6, <3>1, Zenon
  <2>7. call' = [call EXCEPT ![c] = k]
    <3>1. call' = [call EXCEPT ![c] = [NoCall EXCEPT !.at = "running", !.try = call[c].try + 1]]
      BY <1>3, Zenon DEF Again
    <3>2. QED
      BY <2>5, <2>10, <2>11, <3>1, Zenon
  <2>8. k.at = "running" /\ k.pc = 1
    BY <2>3
  <2>9. QED
    BY <2>7, <2>8
<1>4. CASE ~(call[c].try < Tries)
  <2>1. [NoCall EXCEPT !.at = "dead"] = [at |-> "dead", try |-> 1, pc |-> 1, says |-> "SUCCESS"]
    BY DEF NoCall
  <2>2. [at |-> "dead", try |-> 1, pc |-> 1, says |-> "SUCCESS"] \in CallType
    BY DEF CallType, Tries
  <2>3. QED
    BY <1>4, <2>1, <2>2 DEF Again
<1>5. QED
  BY <1>3, <1>4

\* A handler that ends, with what it said or without.
LEMMA HandlerEnds ==
  ASSUME CreationInv, NEW c \in Custom, Running(c),
         UNCHANGED <<plan, account, stack, created, gone, ready, written, boot, env, old>>,
         faults' \in 0..MaxFaults, early' \in BOOLEAN, Smooth' => Smooth,
         NEW k \in CallType, call' = [call EXCEPT ![c] = k],
         k.at # "none",
         k.pc = 1 \/ k.pc = Len(StepsOf(c)),
         k.says = "SUCCESS" => k.pc = 1 \/ (k.pc = call[c].pc /\ call[c].says = "SUCCESS"),
         answer' \in {answer, [answer EXCEPT ![c] = First(c)]},
         answer' # answer => Answering(c),
         Smooth' => k.says = "SUCCESS" /\ k.at # "dead"
  PROVE  CreationInv'
<1>1. /\ Creating /\ CreateInv /\ Answers /\ Unbroken /\ Forward /\ plan \in Plan
      /\ c \in Present /\ Needs(c) \subseteq created
      /\ call[c] \in CallType /\ answer[c] \in {"none", "SUCCESS", "FAILED"}
      /\ Len(StepsOf(c)) \in 2..9
      /\ Answering(c) => call[c].pc = Len(StepsOf(c))
  BY HandlerFacts
<1>2. answer \in [Custom -> {"none", "SUCCESS", "FAILED"}]
      /\ ready \in SUBSET {"tools", "databases", "extensions", "maintenance"}
      /\ written \in SUBSET {Slices(plan)[i] : i \in 1..Len(Slices(plan))}
  BY <1>1 DEF CreateInv, Answers
<1>3. PICK a : /\ answer' = [answer EXCEPT ![c] = a]
               /\ a = answer[c] \/ (a = First(c) /\ Answering(c))
  <2>1. CASE answer' = answer
    BY <1>2, <2>1
  <2>2. CASE answer' # answer
    BY <2>2
  <2>3. QED
    BY <2>1, <2>2
<1>4. a \in {"none", "SUCCESS", "FAILED"}
      /\ (a = answer[c] \/ (a = call[c].says /\ Answering(c)))
  BY <1>1, <1>3 DEF First, CallType
<1>5. c \in created => a = "SUCCESS"
  BY <1>1, <1>3 DEF Answers, First
<1>6. PICK n \in 2..9 : n = Len(StepsOf(c))
  BY <1>1
<1>7. 1 \in 1..n /\ n \in 1..n /\ \A j : j \notin 1..1 - 1
  OBVIOUS
<1>8. k.pc \in 1..Len(StepsOf(c))
  BY <1>6, <1>7
<1>9. StepsOf(c)' = StepsOf(c) /\ \A t : Done(t) => Done(t)'
  BY SameSteps DEF Done
<1>10. ASSUME k.says = "SUCCESS", NEW j \in 1..k.pc - 1
       PROVE  Done(StepsOf(c)[j])'
  <2>1. k.pc # 1
    BY <1>7, <1>10
  <2>2. k.pc = call[c].pc /\ call[c].says = "SUCCESS"
    BY <1>10, <2>1
  <2>3. j \in 1..call[c].pc - 1
    BY <1>10, <2>2
  <2>4. Done(StepsOf(c)[j])
    BY <1>1, <2>2, <2>3 DEF Answers
  <2>5. QED
    BY <1>9, <2>4
<1>11. ASSUME a = "SUCCESS", NEW j \in 1..Len(StepsOf(c)) - 1
       PROVE  Done(StepsOf(c)[j])'
  <2>1. Done(StepsOf(c)[j])
    <3>1. CASE a = answer[c]
      BY <1>1, <1>11, <3>1 DEF Answers
    <3>2. CASE a = call[c].says /\ Answering(c)
      BY <1>1, <1>11, <3>2 DEF Answers
    <3>3. QED
      BY <1>4, <3>1, <3>2
  <2>2. QED
    BY <1>9, <2>1
<1>12. Smooth' => k.says = "SUCCESS" /\ k.at # "dead" /\ a # "FAILED"
  BY <1>1, <1>4 DEF Unbroken, Healthy
<1>13. ready \subseteq ready' /\ written \subseteq written'
       /\ ready' \in SUBSET {"tools", "databases", "extensions", "maintenance"}
       /\ written' \in SUBSET {Slices(plan)[i] : i \in 1..Len(Slices(plan))}
  BY <1>2
<1>14. QED
  BY <1>1, <1>3, <1>4, <1>5, <1>8, <1>10, <1>11, <1>12, <1>13, HandlerMoves

\* The answer that arrives, or not, and the function's timeout.
LEMMA HandlerEndsKeeps ==
  ASSUME CreationInv, NEW c \in Custom, Answer(c) \/ AnswerRaises(c) \/ TimesOut(c), UNCHANGED old
  PROVE  CreationInv'
<1>1. Running(c)
  BY DEF Answer, AnswerRaises, TimesOut, Answering, Running
<1>2. /\ CreateInv /\ Unbroken /\ Forward
      /\ call[c] \in CallType /\ call[c].at = "running"
      /\ faults \in 0..MaxFaults /\ MaxFaults \in Nat
      /\ Answering(c) => call[c].pc = Len(StepsOf(c))
  BY <1>1, HandlerFacts
<1>3. call \in [Custom -> CallType]
  BY <1>2 DEF CreateInv
<1>4. Smooth => call[c].says = "SUCCESS"
  BY <1>2 DEF Unbroken, Healthy
<1>5. CASE Answer(c)
  <2> DEFINE k == [call[c] EXCEPT !.at = "done"]
  <2>1. k \in CallType /\ k.at = "done" /\ k.pc = call[c].pc /\ k.says = call[c].says
    BY <1>2 DEF CallType
  <2>2. /\ Answering(c) /\ call' = [call EXCEPT ![c] = k]
        /\ answer' = [answer EXCEPT ![c] = First(c)]
        /\ UNCHANGED <<plan, account, stack, created, ready, written, gone, boot, env, early, faults>>
    BY <1>3, <1>5 DEF Answer
  <2>3. early' \in BOOLEAN /\ Smooth' = Smooth
    BY <1>2, <2>2 DEF Smooth, CreateInv
  <2> HIDE DEF k
  <2>4. QED
    BY <1>1, <1>2, <1>4, <2>1, <2>2, <2>3, HandlerEnds
<1>6. CASE AnswerRaises(c)
  <2>1. /\ Answering(c) /\ Fault
        /\ answer' \in {answer, [answer EXCEPT ![c] = First(c)]}
        /\ IF call[c].says = "SUCCESS" THEN call' = [call EXCEPT ![c].says = "FAILED"] ELSE Again(c)
        /\ UNCHANGED <<plan, account, stack, created, ready, written, gone, boot, env, early>>
    BY <1>6 DEF AnswerRaises
  <2>2. faults' \in 1..MaxFaults
    BY <1>2, <2>1 DEF Fault
  <2>3. faults' \in 0..MaxFaults /\ early' \in BOOLEAN /\ ~Smooth'
    BY <1>2, <2>1, <2>2 DEF Smooth, CreateInv
  <2>4. CASE call[c].says = "SUCCESS"
    <3> DEFINE k == [call[c] EXCEPT !.says = "FAILED"]
    <3>1. k \in CallType /\ k.at = "running" /\ k.pc = call[c].pc /\ k.says = "FAILED"
      BY <1>2 DEF CallType
    <3>2. call' = [call EXCEPT ![c] = k]
      BY <1>3, <2>1, <2>4
    <3> HIDE DEF k
    <3>3. QED
      BY <1>1, <1>2, <2>1, <2>3, <3>1, <3>2, HandlerEnds
  <2>5. CASE call[c].says # "SUCCESS"
    <3>1. PICK k \in CallType : /\ call' = [call EXCEPT ![c] = k]
                                /\ k.at \in {"running", "dead"} /\ k.pc = 1
      BY <1>2, <2>1, <2>5, AgainIs
    <3>2. QED
      BY <1>1, <2>1, <2>3, <3>1, HandlerEnds
  <2>6. QED
    BY <2>4, <2>5
<1>7. CASE TimesOut(c)
  <2>1. /\ IF Hangs(c) THEN early' = TRUE /\ UNCHANGED faults ELSE Fault /\ UNCHANGED early
        /\ Again(c)
        /\ UNCHANGED <<plan, account, stack, created, answer, ready, written, gone, boot, env>>
    BY <1>7 DEF TimesOut
  <2>2. faults' \in 0..MaxFaults /\ early' \in BOOLEAN /\ ~Smooth'
    <3>1. CASE Hangs(c)
      <4>1. early' = TRUE /\ faults' = faults
        BY <2>1, <3>1
      <4>2. QED
        BY <1>2, <4>1 DEF Smooth
    <3>2. CASE ~Hangs(c)
      <4>1. Fault /\ early' = early
        BY <2>1, <3>2
      <4>2. faults' \in 0..MaxFaults /\ faults' # 0
        BY <1>2, <4>1 DEF Fault
      <4>3. QED
        BY <1>2, <4>1, <4>2 DEF Smooth, CreateInv
    <3>3. QED
      BY <3>1, <3>2
  <2>4. PICK k \in CallType : /\ call' = [call EXCEPT ![c] = k]
                              /\ k.at \in {"running", "dead"} /\ k.pc = 1
    BY <1>2, <2>1, AgainIs
  <2>5. QED
    BY <1>1, <2>1, <2>2, <2>4, HandlerEnds
<1>8. QED
  BY <1>5, <1>6, <1>7

-----------------------------------------------------------------------------
(* The actions: the instance.                                              *)

\* What a command of UserData finds.
LEMMA BootFacts ==
  ASSUME CreationInv, Booting
  PROVE  /\ Creating /\ Forward /\ CreateInv /\ Waits /\ Delivered /\ Unbroken
         /\ boot.pc \in 1..24 /\ boot.signal \in {"none", "failure"}
         /\ boot = [pc |-> boot.pc, signal |-> boot.signal]
         /\ Needs("EmsInstance") \subseteq created /\ "EmsInstance" \notin created
         /\ Command = UserData(plan)[boot.pc] /\ Script = UserData(plan)
         /\ Command.op \in {"quiet", "loud", "secret", "signal"}
         /\ Command.op = "quiet" <=> boot.pc = 1
         /\ Command.op = "signal" <=> boot.pc = 24
         /\ Command.op = "secret" => Command.arg \in DOMAIN Secrets[plan]
         /\ Command.arg = "graph_parameters" => plan = "defense"
         /\ boot.pc = 21 => Command.op = "loud" /\ Command.arg = "dtm"
         /\ env \in [DOMAIN Secrets[plan] -> {"unread", "empty", "real"}]
         /\ faults \in 0..MaxFaults /\ MaxFaults \in Nat
<1>1. Creating /\ Forward /\ CreateInv /\ Waits /\ Delivered /\ Unbroken
  BY NobodyGone DEF CreationInv, Booting
<1>2. /\ plan \in Plan /\ Script = UserData(plan) /\ Scripts[plan] = UserData(plan)
      /\ Len(Scripts[plan]) = 24 /\ Secrets[plan] = SecretOf(plan)
  BY <1>1, PlanFacts
<1>3. boot.pc \in 1..24
  BY <1>2 DEF Booting
<1>4. boot \in [pc : 0..25, signal : {"none", "success", "failure"}]
  BY <1>1, <1>2 DEF CreateInv
<1>5. boot.signal # "success"
  BY <1>1, <1>3 DEF Delivered
<1>6. boot.signal \in {"none", "failure"} /\ boot = [pc |-> boot.pc, signal |-> boot.signal]
  BY <1>4, <1>5
<1>7. Needs("EmsInstance") \subseteq created /\ "EmsInstance" \notin created
  BY <1>1, <1>3, <1>5 DEF Waits, Delivered
<1>8. Command = UserData(plan)[boot.pc]
  BY <1>2 DEF Command
<1>9. /\ Command.op \in {"quiet", "loud", "secret", "signal"}
      /\ Command.op = "quiet" <=> boot.pc = 1
      /\ Command.op = "signal" <=> boot.pc = 24
      /\ Command.op = "secret" => Command.arg \in DOMAIN Secrets[plan]
      /\ Command.arg = "graph_parameters" => plan = "defense"
      /\ boot.pc = 21 => Command.op = "loud" /\ Command.arg = "dtm"
  BY <1>2, <1>3, <1>8, ScriptFacts
<1>10. env \in [DOMAIN Secrets[plan] -> {"unread", "empty", "real"}]
  <2>1. env \in [DOMAIN Secrets[plan] -> {"unread", "empty", "placeholder", "real"}]
    BY <1>1 DEF CreateInv
  <2>2. \A s \in DOMAIN Secrets[plan] : env[s] # "placeholder"
    BY <1>1, <2>1 DEF Delivered
  <2>3. QED
    BY <2>1, <2>2
<1>11. faults \in 0..MaxFaults /\ MaxFaults \in Nat
  BY <1>1, CreateAssumption DEF CreateInv
<1>12. QED
  BY <1>1, <1>2, <1>3, <1>6, <1>7, <1>8, <1>9, <1>10, <1>11

\* Nothing wrong: every command works once the box is on the Internet.
LEMMA HealthyBox == ASSUME CreationInv, Booting, Smooth, Online PROVE Works
<1>1. /\ Creating /\ Forward /\ Unbroken /\ boot.pc \in 1..24
      /\ Command.op = "quiet" <=> boot.pc = 1
      /\ Command.op = "signal" <=> boot.pc = 24
      /\ Command.op = "secret" => Command.arg \in DOMAIN Secrets[plan]
      /\ Command.arg = "graph_parameters" => plan = "defense"
  BY BootFacts
<1>2. Healthy
  BY <1>1 DEF Unbroken
<1>3. boot.pc > 0 /\ (boot.pc = 24 => boot.pc > 1)
  BY <1>1
<1>4. created \ gone = created
  BY <1>1, NobodyGone
<1>5. /\ "DerControlTruststoreSecret" \in created
      /\ plan = "defense" => GraphParams \subseteq created
  BY <1>1, <1>3, BehindTheInstance
<1>7. "delivery_fresh" \in account
  BY <1>2 DEF Healthy, Account
<1>8. Command.op = "signal" => "tools" \in ready
  BY <1>1, <1>2, <1>3 DEF Healthy
<1>9. Command.op = "secret" => SlotValue(Command.arg) # "missing"
  BY <1>1, <1>3, SecretsAreReal
<1>10. Command.arg = "graph_parameters" => GraphParams \subseteq created \ gone
  BY <1>1, <1>4, <1>5
<1>11. QED
  BY <1>4, <1>5, <1>7, <1>8, <1>9, <1>10 DEF Works

\* A command that does not work was a fault, or the box was not on the Internet yet.
LEMMA FailsOrFaultIs ==
  ASSUME CreationInv, Booting, FailsOrFault
  PROVE  faults' \in 0..MaxFaults /\ early' \in BOOLEAN /\ ~Smooth'
<1>1. faults \in 0..MaxFaults /\ MaxFaults \in Nat /\ early \in BOOLEAN
  BY CreateAssumption DEF CreationInv, CreateInv
<1>2. CASE Works
  <2>1. Fault /\ early' = early
    BY <1>2 DEF FailsOrFault
  <2>2. faults' \in 0..MaxFaults /\ faults' # 0
    BY <1>1, <2>1 DEF Fault
  <2>3. QED
    BY <1>1, <2>1, <2>2 DEF Smooth
<1>3. CASE ~Works
  <2>1. faults' = faults /\ early' = (early \/ ~Online)
    BY <1>3 DEF FailsOrFault
  <2>2. faults # 0 \/ early \/ ~Online
    BY <1>3, HealthyBox DEF Smooth
  <2>3. faults' # 0 \/ early' = TRUE
    BY <1>1, <2>1, <2>2, Zenon
  <2>4. early' \in BOOLEAN
    BY <1>1, <2>1, Zenon
  <2>5. QED
    BY <1>1, <2>1, <2>3, <2>4 DEF Smooth
<1>4. QED
  BY <1>2, <1>3

\* The instance starts behind everything it depends on.
LEMMA LaunchKeeps == ASSUME CreationInv, Launch, UNCHANGED old PROVE CreationInv'
<1>1. /\ Creating /\ Due("EmsInstance") /\ boot.pc = 0
      /\ boot' = [boot EXCEPT !.pc = 1]
      /\ UNCHANGED <<plan, account, stack, created, call, answer, ready, written, gone, env, early, faults>>
  BY DEF Launch
<1>2. CreateInv /\ Forward /\ Delivered /\ Unbroken
  BY <1>1, NobodyGone DEF CreationInv
<1>3. boot \in [pc : 0..25, signal : {"none", "success", "failure"}]
  <2>1. Len(Scripts[plan]) = 24
    BY <1>2, PlanFacts
  <2>2. boot \in [pc : 0..Len(Scripts[plan]) + 1, signal : {"none", "success", "failure"}]
    BY <1>2 DEF CreateInv
  <2>3. QED
    BY <2>1, <2>2
<1>4. boot.signal \in {"none", "failure"}
  BY <1>1, <1>2, <1>3 DEF Delivered
<1>5. boot' = [pc |-> 1, signal |-> boot.signal]
  BY <1>1, <1>3
<1>6. env' \in [DOMAIN Secrets[plan] -> {"unread", "empty", "real"}]
  <2>1. env \in [DOMAIN Secrets[plan] -> {"unread", "empty", "placeholder", "real"}]
    BY <1>2 DEF CreateInv
  <2>2. \A s \in DOMAIN Secrets[plan] : env[s] # "placeholder"
    BY <1>2, <2>1 DEF Delivered
  <2>3. QED
    BY <1>1, <2>1, <2>2
<1>7. Needs("EmsInstance") \subseteq created /\ "EmsInstance" \notin created
  BY <1>1 DEF Due
<1>8. faults' \in 0..MaxFaults /\ early' \in BOOLEAN /\ (Smooth' => Smooth)
  BY <1>1, <1>2 DEF CreateInv, Smooth
<1>9. Real'
  <2>1. boot'.pc = 1
    BY <1>5
  <2>2. \A i \in 1..24 : ~(i < 1)
    OBVIOUS
  <2>3. QED
    BY <2>1, <2>2 DEF Real
<1>10. Smooth' => boot.signal # "failure"
  BY <1>2, <1>8 DEF Unbroken, Healthy
<1>12. 1 \in 1..25 /\ ~(1 \in 22..24) /\ ~(1 > 1) /\ 1 # 25 /\ boot.signal # "success"
  BY <1>4
<1>11. QED
  BY <1>1, <1>4, <1>5, <1>6, <1>7, <1>8, <1>9, <1>10, <1>12, BoxMoves

\* A command that works: a read finds a real value.
LEMMA RunKeeps == ASSUME CreationInv, Run, UNCHANGED old PROVE CreationInv'
<1>1. /\ Booting /\ Works
      /\ boot' = [boot EXCEPT !.pc = @ + 1,
                    !.signal = IF Command.op = "signal" /\ @ = "none" THEN "success" ELSE @]
      /\ env' = IF Command.op = "secret" THEN [env EXCEPT ![Command.arg] = SlotValue(Command.arg)] ELSE env
      /\ ready' = IF Command.op = "quiet" THEN ready \cup {"tools"} ELSE ready
      /\ UNCHANGED <<plan, account, stack, created, call, answer, written, gone, early, faults>>
  BY DEF Run
<1>2. /\ Creating /\ Forward /\ CreateInv /\ Delivered /\ Unbroken
      /\ boot.pc \in 1..24 /\ boot.signal \in {"none", "failure"}
      /\ boot = [pc |-> boot.pc, signal |-> boot.signal]
      /\ Needs("EmsInstance") \subseteq created /\ "EmsInstance" \notin created
      /\ Command = UserData(plan)[boot.pc] /\ Script = UserData(plan)
      /\ Command.op = "quiet" <=> boot.pc = 1
      /\ Command.op = "signal" <=> boot.pc = 24
      /\ Command.op = "secret" => Command.arg \in DOMAIN Secrets[plan]
      /\ boot.pc = 21 => Command.op = "loud" /\ Command.arg = "dtm"
      /\ env \in [DOMAIN Secrets[plan] -> {"unread", "empty", "real"}]
      /\ faults \in 0..MaxFaults
  BY <1>1, BootFacts
<1>3. PICK i \in 1..24 : i = boot.pc
  BY <1>2
<1> DEFINE sg == IF Command.op = "signal" /\ boot.signal = "none" THEN "success" ELSE boot.signal
<1>4. boot' = [pc |-> i + 1, signal |-> sg] /\ i + 1 \in 1..25 /\ sg \in {"none", "success", "failure"}
  <2>1. boot' = [pc |-> boot.pc + 1, signal |-> sg]
    BY <1>1, <1>2
  <2>2. i + 1 \in 1..25
    BY <1>3
  <2>3. sg \in {"none", "success", "failure"}
    BY <1>2
  <2>4. QED
    BY <1>3, <2>1, <2>2, <2>3
<1>5. i + 1 \in 22..24 \/ i = 24 => "delivery_fresh" \in account
  <2>1. CASE i = 21
    BY <1>1, <1>2, <1>3, <2>1 DEF Works
  <2>2. CASE i \in 22..24
    BY <1>2, <1>3, <2>2 DEF Delivered
  <2>3. QED
    BY <2>1, <2>2
<1>6. sg = "success" => i = 24
  BY <1>2, <1>3
<1>7. Command.op = "secret" => SlotValue(Command.arg) = "real"
  <2>1. boot.pc > 0
    BY <1>2
  <2>2. QED
    BY <1>2, <2>1, SecretsAreReal
<1>8. env' \in [DOMAIN Secrets[plan] -> {"unread", "empty", "real"}]
  BY <1>1, <1>2, <1>7
<1>9. /\ ready' \in {ready, ready \cup {"tools"}}
      /\ early' \in BOOLEAN /\ (Smooth' => Smooth)
  BY <1>1, <1>2 DEF Smooth, CreateInv
<1>10. ASSUME Smooth'
       PROVE  /\ sg # "failure"
              /\ i + 1 = 25 => sg = "success"
              /\ i + 1 > 1 => "tools" \in ready'
              /\ Real'
  <2>1. Healthy
    BY <1>2, <1>9, <1>10 DEF Unbroken
  <2>2. boot.signal = "none"
    BY <1>2, <2>1 DEF Healthy
  <2>3. sg # "failure" /\ (i + 1 = 25 => sg = "success")
    BY <1>2, <1>3, <2>2
  <2>4. "tools" \in ready'
    <3>1. CASE i = 1
      BY <1>1, <1>2, <1>3, <3>1
    <3>2. CASE i # 1
      <4>1. boot.pc > 1
        BY <1>3, <3>2
      <4>2. QED
        BY <1>1, <2>1, <4>1 DEF Healthy
    <3>3. QED
      BY <3>1, <3>2
  <2>5. Real'
    <3>6. Script' = Script
      BY <1>1 DEF Script
    <3>7. boot'.pc = i + 1
      BY <1>4
    <3>1. Script' = Script /\ boot'.pc = i + 1
      BY <3>6, <3>7
    <3>2. SUFFICES ASSUME NEW j \in 1..24, j < i + 1, Script[j].op = "secret"
                   PROVE  env'[Script[j].arg] = "real"
      BY <3>1 DEF Real
    <3>3. CASE j = i
      <4>1. Command.op = "secret" /\ Command.arg = Script[j].arg
        BY <1>2, <1>3, <3>2, <3>3
      <4>2. QED
        BY <1>1, <1>2, <1>7, <4>1
    <3>4. CASE j # i
      <4>1. j < boot.pc
        BY <1>3, <3>2, <3>4
      <4>2. env[Script[j].arg] = "real"
        BY <2>1, <3>2, <4>1 DEF Healthy, Real
      <4>3. QED
        BY <1>1, <1>2, <1>7, <4>2
    <3>5. QED
      BY <3>3, <3>4
  <2>6. QED
    BY <2>3, <2>4, <2>5
<1> HIDE DEF sg
<1>11. PICK pc \in 1..25 : pc = i + 1
  BY <1>4
<1>12. /\ pc \in 22..24 => "delivery_fresh" \in account
       /\ sg = "success" => pc = 25 /\ "delivery_fresh" \in account
       /\ Smooth' => /\ sg # "failure"
                     /\ pc = 25 => sg = "success"
                     /\ pc > 1 => "tools" \in ready'
                     /\ Real'
  BY <1>5, <1>6, <1>10, <1>11
<1>13. boot' = [pc |-> pc, signal |-> sg]
  BY <1>4, <1>11
<1>14. QED
  BY <1>1, <1>2, <1>4, <1>8, <1>9, <1>12, <1>13, BoxMoves

\* A command that fails in an echo was a fault, or came before the way out.
LEMMA RunFailsUnseenKeeps == ASSUME CreationInv, RunFailsUnseen, UNCHANGED old PROVE CreationInv'
<1>1. /\ Booting /\ Command.op \in {"quiet", "secret"}
      /\ FailsOrFault
      /\ boot' = [boot EXCEPT !.pc = @ + 1]
      /\ env' = IF Command.op = "secret" THEN [env EXCEPT ![Command.arg] = "empty"] ELSE env
      /\ UNCHANGED <<plan, account, stack, created, call, answer, ready, written, gone>>
  BY DEF RunFailsUnseen
<1>2. /\ Creating /\ Forward /\ CreateInv /\ Delivered /\ Unbroken
      /\ boot.pc \in 1..24 /\ boot.signal \in {"none", "failure"}
      /\ boot = [pc |-> boot.pc, signal |-> boot.signal]
      /\ Needs("EmsInstance") \subseteq created /\ "EmsInstance" \notin created
      /\ Command.op = "signal" <=> boot.pc = 24
      /\ Command.op = "secret" => Command.arg \in DOMAIN Secrets[plan]
      /\ boot.pc = 21 => Command.op = "loud" /\ Command.arg = "dtm"
      /\ env \in [DOMAIN Secrets[plan] -> {"unread", "empty", "real"}]
      /\ faults \in 0..MaxFaults /\ MaxFaults \in Nat
  BY <1>1, BootFacts
<1>3. PICK i \in 1..24 : i = boot.pc
  BY <1>2
<1>4. i # 21 /\ i # 24
  BY <1>1, <1>2, <1>3
<1>5. PICK pc \in 1..25 : pc = i + 1
  OBVIOUS
<1>6. boot' = [pc |-> pc, signal |-> boot.signal]
  BY <1>1, <1>2, <1>3, <1>5
<1>7. pc \in 22..24 => "delivery_fresh" \in account
  <2>1. pc \in 22..24 => i \in 22..24
    BY <1>4, <1>5
  <2>2. QED
    BY <1>2, <1>3, <2>1 DEF Delivered
<1>8. env' \in [DOMAIN Secrets[plan] -> {"unread", "empty", "real"}]
  BY <1>1, <1>2
<1>9. faults' \in 0..MaxFaults /\ early' \in BOOLEAN /\ ~Smooth'
  BY <1>1, FailsOrFaultIs
<1>11. QED
  BY <1>1, <1>2, <1>6, <1>7, <1>8, <1>9, BoxMoves

\* So was one that fails aloud.
LEMMA RunTrapsKeeps == ASSUME CreationInv, RunTraps, UNCHANGED old PROVE CreationInv'
<1> DEFINE sg == IF boot.signal = "none" /\ Online /\ "tools" \in ready THEN "failure" ELSE boot.signal
<1>1. /\ Booting
      /\ FailsOrFault
      /\ boot' = [pc |-> Len(Scripts[plan]) + 1, signal |-> sg]
      /\ UNCHANGED <<plan, account, stack, created, call, answer, ready, written, gone, env>>
  BY DEF RunTraps
<1>2. /\ Creating /\ CreateInv /\ boot.signal \in {"none", "failure"}
      /\ Needs("EmsInstance") \subseteq created /\ "EmsInstance" \notin created
      /\ env \in [DOMAIN Secrets[plan] -> {"unread", "empty", "real"}]
      /\ faults \in 0..MaxFaults /\ MaxFaults \in Nat
  BY <1>1, BootFacts
<1>3. sg \in {"none", "failure"}
  BY <1>2
<1> HIDE DEF sg
<1>4. Len(Scripts[plan]) = 24
  BY <1>2, PlanFacts
<1>5. boot' = [pc |-> 25, signal |-> sg]
  BY <1>1, <1>4
<1>6. faults' \in 0..MaxFaults /\ early' \in BOOLEAN /\ ~Smooth'
  BY <1>1, FailsOrFaultIs
<1>8. 25 \in 1..25 /\ 25 \notin 22..24
  OBVIOUS
<1>9. QED
  BY <1>1, <1>2, <1>3, <1>5, <1>6, <1>8, BoxMoves

-----------------------------------------------------------------------------
(* The sweep, and the stack's life after its creation.                     *)

\* They change the status only of a stack whose creation is over, and take only
\* what is old.
LEMMA OthersKeep ==
  ASSUME CreationInv, UNCHANGED <<plan, account, call, answer, ready, written, boot, env>>,
         \/ UNCHANGED <<stack, created>>
         \/ /\ stack' \notin {"none", "CREATE_IN_PROGRESS", "CREATE_COMPLETE", "ROLLBACK_IN_PROGRESS"}
            /\ created' \in {created, {}},
         faults' \in 0..MaxFaults, early' \in BOOLEAN, Smooth' => Smooth,
         gone' \subseteq ReadBy[plan],
         gone' # {} => old', old' => stack' \notin {"none", "CREATE_IN_PROGRESS"}
  PROVE  CreationInv'
<1>1. CreateInv /\ Young /\ Whole /\ Unbroken /\ (Forward => Waits /\ Answers /\ Delivered)
  BY DEF CreationInv
<1>2. /\ Present' = Present /\ \A r : Needs(r)' = Needs(r)
      /\ \A d : StepsOf(d)' = StepsOf(d)
      /\ \A s : Done(s)' = Done(s)
      /\ Script' = Script /\ Scripts[plan]' = Scripts[plan] /\ Secrets[plan]' = Secrets[plan]
      /\ ReadBy[plan]' = ReadBy[plan]
  BY Zenon DEF Present, Needs, StepsOf, Done, Script
<1>3. Young'
  BY DEF Young
<1>4. CreateInv'
  <2>1. created' \subseteq Present'
    BY <1>1, <1>2 DEF CreateInv
  <2>2. Creating' => Creating /\ UNCHANGED created
    BY DEF Creating
  <2>3. Creating' => \A c \in Custom \cap created' : answer'[c] = "SUCCESS"
    BY <1>1, <2>2 DEF CreateInv
  <2>4. QED
    BY <1>1, <1>2, <2>1, <2>3 DEF CreateInv
<1>5. CASE UNCHANGED <<stack, created>>
  <2>1. Whole' /\ Forward' = Forward
    BY <1>1, <1>2, <1>5 DEF Whole, Forward
  <2>2. Forward => Waits' /\ Answers' /\ Delivered'
    BY <1>1, <1>2, <1>5 DEF Waits, Answers, Delivered
  <2>3. Healthy => Healthy'
    BY <1>2, <1>5 DEF Healthy, Real
  <2>4. Unbroken'
    BY <1>1, <1>5, <2>1, <2>3 DEF Unbroken
  <2>5. QED
    BY <1>3, <1>4, <2>1, <2>2, <2>4 DEF CreationInv
<1>6. CASE stack' \notin {"none", "CREATE_IN_PROGRESS", "CREATE_COMPLETE", "ROLLBACK_IN_PROGRESS"}
  BY <1>3, <1>4, <1>6 DEF CreationInv, Whole, Unbroken, Forward
<1>7. QED
  BY <1>5, <1>6

\* The sweep and CloudFormation's other moves.
LEMMA SweepKeeps ==
  ASSUME SweepInv, CreationInv, Age \/ Move \/ StartSweep \/ SweepStacks \/ SweepSecrets
  PROVE  CreationInv'
<1>1. /\ faults \in 0..MaxFaults /\ MaxFaults \in Nat /\ gone \subseteq ReadBy[plan]
      /\ old => stack \notin {"none", "CREATE_IN_PROGRESS"}
      /\ gone # {} => old
      /\ sweep.aged => old
      /\ early \in BOOLEAN
  BY CreateAssumption DEF CreationInv, CreateInv, Young, SweepInv, SweepKnows
<1>2. CASE Age
  <2>1. UNCHANGED <<plan, account, stack, created, call, answer, ready, written, gone, boot, env, early, faults>>
    BY <1>2 DEF Age, stackVars
  <2>2. old' /\ stack \notin {"none", "CREATE_IN_PROGRESS"}
    BY <1>2 DEF Age
  <2>3. QED
    BY <1>1, <2>1, <2>2, OthersKeep DEF Smooth
<1>3. CASE Move
  <2>1. /\ UNCHANGED <<plan, account, call, answer, ready, written, gone, boot, env, early, faults, old>>
        /\ created' \in {created, {}}
    BY <1>3 DEF Move
  <2>2. stack' \notin {"none", "CREATE_IN_PROGRESS", "CREATE_COMPLETE", "ROLLBACK_IN_PROGRESS"}
    BY <1>3 DEF Move, Moves
  <2>3. QED
    BY <1>1, <2>1, <2>2, OthersKeep DEF Smooth
<1>4. CASE StartSweep
  <2>1. UNCHANGED <<plan, account, stack, created, call, answer, ready, written, gone, boot, env, early, faults, old>>
    BY <1>4 DEF StartSweep, stackVars
  <2>2. QED
    BY <1>1, <2>1, OthersKeep DEF Smooth
<1>5. CASE SweepStacks
  <2>1. UNCHANGED <<plan, account, created, call, answer, ready, written, gone, boot, env, early, old>>
    BY <1>5 DEF SweepStacks
  <2>2. \/ UNCHANGED <<stack, faults>>
        \/ sweep.aged /\ stack' = "DELETE_IN_PROGRESS" /\ UNCHANGED faults
        \/ UNCHANGED stack /\ Fault
    BY <1>5 DEF SweepStacks
  <2>3. faults' \in 0..MaxFaults /\ (Smooth' => Smooth)
    BY <1>1, <2>1, <2>2 DEF Fault, Smooth
  <2>4. QED
    BY <1>1, <2>1, <2>2, <2>3, OthersKeep
<1>6. CASE SweepSecrets
  <2>1. UNCHANGED <<plan, account, stack, created, call, answer, ready, written, boot, env, early, old>>
    BY <1>6 DEF SweepSecrets
  <2>2. gone' \subseteq gone \cup Kept /\ (~sweep.aged => gone' = gone)
    BY <1>6 DEF SweepSecrets
  <2>3. gone' \subseteq ReadBy[plan] /\ (gone' # {} => old)
    BY <1>1, <2>2 DEF Kept
  <2>4. UNCHANGED faults \/ Fault
    BY <1>6 DEF SweepSecrets
  <2>5. faults' \in 0..MaxFaults /\ (Smooth' => Smooth)
    BY <1>1, <2>1, <2>4 DEF Fault, Smooth
  <2>6. QED
    BY <1>1, <2>1, <2>3, <2>5, OthersKeep
<1>7. QED
  BY <1>2, <1>3, <1>4, <1>5, <1>6

\* Every step keeps the invariant.
LEMMA StepCreation ==
  ASSUME SweepInv, CreationInv, [SweepNext]_vars
  PROVE  CreationInv'
<1>1. CASE Next /\ UNCHANGED sweepVars
  <2>1. UNCHANGED old
    BY <1>1 DEF sweepVars
  <2>2. CASE CreateStack \/ Finish
    BY <2>1, <2>2, StartOrEndKeeps
  <2>3. CASE CreateQuick
    BY <2>1, <2>3, CreateQuickKeeps
  <2>4. CASE \E r \in Plain : CreateLate(r)
    BY <2>1, <2>4, CreateLateKeeps
  <2>5. CASE Fail \/ CreationPolicy \/ \E c \in Custom : GiveUp(c)
    BY <2>1, <2>5, FailKeeps
  <2>6. ASSUME NEW c \in Custom, Invoke(c) \/ Handle(c) \/ Accept(c)
        PROVE  CreationInv'
    <3>1. CASE Invoke(c)
      BY <2>1, <3>1, InvokeKeeps
    <3>2. CASE Work(c)
      BY <2>1, <3>2, WorkKeeps
    <3>3. CASE WorkRaises(c)
      BY <2>1, <3>3, WorkRaisesKeeps
    <3>4. CASE Answer(c) \/ AnswerRaises(c) \/ TimesOut(c)
      BY <2>1, <3>4, HandlerEndsKeeps
    <3>5. CASE Accept(c)
      BY <2>1, <3>5, AcceptKeeps
    <3>6. QED
      BY <2>6, <3>1, <3>2, <3>3, <3>4, <3>5 DEF Handle
  <2>7. CASE Launch
    BY <2>1, <2>7, LaunchKeeps
  <2>8. CASE Run
    BY <2>1, <2>8, RunKeeps
  <2>9. CASE RunFailsUnseen
    BY <2>1, <2>9, RunFailsUnseenKeeps
  <2>10. CASE RunTraps
    BY <2>1, <2>10, RunTrapsKeeps
  <2>11. CASE Signalled
    BY <2>1, <2>11, SignalledKeeps
  <2>12. QED
    BY <1>1, <2>2, <2>3, <2>4, <2>5, <2>6, <2>7, <2>8, <2>9, <2>10, <2>11 DEF Next
<1>2. CASE Age \/ Move \/ StartSweep \/ SweepStacks \/ SweepSecrets
  BY <1>2, SweepKeeps
<1>3. CASE UNCHANGED vars
  <2>1. UNCHANGED <<plan, account, stack, created, call, answer, ready, written, gone, boot, env, early, faults, old>>
    BY <1>3 DEF vars, stackVars, sweepVars
  <2>2. /\ faults \in 0..MaxFaults /\ early \in BOOLEAN /\ gone \subseteq ReadBy[plan]
        /\ old => stack \notin {"none", "CREATE_IN_PROGRESS"}
        /\ gone # {} => old
    BY DEF CreationInv, CreateInv, Young
  <2>3. QED
    BY <2>1, <2>2, OthersKeep DEF Smooth
<1>4. QED
  BY <1>1, <1>2, <1>3 DEF SweepNext

-----------------------------------------------------------------------------
(* The theorems.                                                           *)

\* The invariant of all four theorems.
LEMMA CreationInvariant == SweepSpec => [](SweepInv /\ CreationInv)
<1>1. SweepInit => SweepInv /\ CreationInv
  BY InitSweepInv, InitCreation
<1>2. (SweepInv /\ CreationInv) /\ [SweepNext]_vars => (SweepInv /\ CreationInv)'
  BY StepSweepInv, StepCreation
<1>3. QED
  BY <1>1, <1>2, PTL DEF SweepSpec

\* Types; and no custom resource is created without the SUCCESS its handler PUT
\* to the ResponseURL (_respond in lambda_code/aurora_bootstrap.py:219-237),
\* whatever a retry or a function past its timeout said after it.
THEOREM AnswersComeFirst == SweepSpec => []CreateInv
<1>1. CreationInv => CreateInv
  BY DEF CreationInv
<1>2. QED
  BY <1>1, CreationInvariant, PTL

\* UserData's reads (build_userdata, cfn_resources.py:574-602) are behind what they
\* read for every order and any faults: the DependsOn of EmsInstance, from the
\* builds of persistence_service.py:110-192, stands for the references a shell
\* script does not have.
THEOREM UserDataWaits == SweepSpec => []BootReadsWhatIsThere
<1>1. ASSUME CreationInv
      PROVE  BootReadsWhatIsThere
  <2> SUFFICES ASSUME Creating, boot.pc > 0
               PROVE  /\ \A s \in DOMAIN env : env[s] # "placeholder"
                      /\ ReadBy[plan] \subseteq created
    BY DEF BootReadsWhatIsThere
  <2>1. Forward /\ CreateInv /\ Delivered
    BY <1>1, NobodyGone DEF CreationInv
  <2>2. \A s \in DOMAIN env : env[s] # "placeholder"
    BY <2>1 DEF Delivered
  <2>3. ReadBy[plan] = Read(plan)
    BY <2>1, PlanFacts
  <2>4. Read(plan) \subseteq created
    BY <1>1, <2>1, BehindTheInstance
  <2>5. QED
    BY <2>2, <2>3, <2>4
<1>2. QED
  BY <1>1, CreationInvariant, PTL

\* A handler that said SUCCESS has done all its steps.
LEMMA SaidSo ==
  ASSUME CreationInv, Forward, NEW c \in Custom \cap created
  PROVE  \A i \in 1..Len(StepsOf(c)) - 1 : Done(StepsOf(c)[i])
BY DEF CreationInv, Answers

\* CREATE_COMPLETE proves what the three Lambdas and UserData checked, for every
\* order and any number of timeouts, retries and lost answers: the handlers of
\* lambda_code answer SUCCESS after their last step only, and cfn-signal is the
\* last command of UserData (cfn_resources.py:754-896).
THEOREM CompletionProves == SweepSpec => []CompleteMeansProven
<1>1. ASSUME CreationInv, stack = "CREATE_COMPLETE"
      PROVE  /\ "models_granted" \in account /\ "delivery_fresh" \in account
             /\ plan = "commercial" => "urls_reachable" \in account
             /\ {"databases", "extensions"} \subseteq ready
             /\ plan = "defense" => "maintenance" \in ready
             /\ written = {Slices(plan)[i] : i \in 1..Len(Slices(plan))}
             /\ boot.pc > Len(Scripts[plan]) /\ boot.signal = "success"
  <2>1. /\ Forward /\ CreateInv /\ Answers /\ Delivered /\ created = Present
    BY <1>1 DEF CreationInv, Forward, Whole
  <2>2. /\ plan \in Plan /\ Present = DOMAIN Template(plan)
        /\ Len(Scripts[plan]) = 24
    BY <2>1, PlanFacts
  <2>3. /\ {"AuroraBootstrapCustomResource", "BedrockPreflightCustomResource", "EmsInstance"}
             \subseteq created
        /\ plan = "commercial" => "CustomerUrlPreflightCustomResource" \in created
    BY <2>1, <2>2, TemplateFacts
  <2>4. "models_granted" \in account
    <3>1. PICK c \in Custom \cap created : c = "BedrockPreflightCustomResource"
      BY <2>3 DEF Custom
    <3>2. StepsOf(c) = <<"models", "answer">>
      BY <3>1, Zenon DEF StepsOf, BedrockSteps
    <3>3. Len(StepsOf(c)) = 2 /\ StepsOf(c)[1] = "models"
      BY <3>2
    <3>6. \A i \in 1..Len(StepsOf(c)) - 1 : Done(StepsOf(c)[i])
      BY <1>1, <2>1, SaidSo
    <3>7. 1 \in 1..Len(StepsOf(c)) - 1
      BY <3>3
    <3>4. Done(StepsOf(c)[1])
      BY <3>6, <3>7, Zenon
    <3>5. QED
      BY <3>3, <3>4 DEF Done
  <2>5. ASSUME plan = "commercial" PROVE "urls_reachable" \in account
    <3>1. PICK c \in Custom \cap created : c = "CustomerUrlPreflightCustomResource"
      BY <2>3, <2>5 DEF Custom
    <3>2. StepsOf(c) = <<"urls", "answer">>
      BY <3>1, Zenon DEF StepsOf, UrlSteps
    <3>3. Len(StepsOf(c)) = 2 /\ StepsOf(c)[1] = "urls"
      BY <3>2
    <3>6. \A i \in 1..Len(StepsOf(c)) - 1 : Done(StepsOf(c)[i])
      BY <1>1, <2>1, SaidSo
    <3>7. 1 \in 1..Len(StepsOf(c)) - 1
      BY <3>3
    <3>4. Done(StepsOf(c)[1])
      BY <3>6, <3>7, Zenon
    <3>5. QED
      BY <3>3, <3>4 DEF Done
  <2>6. /\ {"databases", "extensions"} \subseteq ready
        /\ plan = "defense" => "maintenance" \in ready
        /\ {Slices(plan)[i] : i \in 1..Len(Slices(plan))} \subseteq written
    <3>1. PICK c \in Custom \cap created : c = "AuroraBootstrapCustomResource"
      BY <2>3 DEF Custom
    <3>2. \A i \in 1..Len(StepsOf(c)) - 1 : Done(StepsOf(c)[i])
      BY <1>1, <2>1, SaidSo
    <3>3. QED
      BY <2>2, <3>1, <3>2, BootstrapProves
  <2>7. written = {Slices(plan)[i] : i \in 1..Len(Slices(plan))}
    BY <2>1, <2>6 DEF Answers
  <2>8. boot.signal = "success" /\ boot.pc = 25 /\ "delivery_fresh" \in account
    BY <2>1, <2>3 DEF Delivered
  <2>9. boot.pc > Len(Scripts[plan])
    BY <2>2, <2>8
  <2>10. QED
    BY <2>4, <2>5, <2>6, <2>7, <2>8, <2>9
<1>2. CreationInv => CompleteMeansProven
  BY <1>1 DEF CompleteMeansProven
<1>3. QED
  BY <1>2, CreationInvariant, PTL

\* For every order: with nothing wrong and no failure, no stack rolls back and every
\* line of secrets.env is right, unless the bootstrap's function or UserData ran
\* before the route, an endpoint or their association was there.  Nothing in the
\* template waits for those (cfn_resources.py:171-194; the DependsOn of
\* aurora_bootstrap_resources.py:104 is the database and the secrets), so that race
\* is there to lose.  Nothing else is: with Stragglers every set of logical ids,
\* CloudFormation creates in any order the template allows.
THEOREM OnlyTheWayOutRaces == SweepSpec => []HealthyStackCompletes
<1>1. ASSUME CreationInv, Smooth
      PROVE  /\ stack # "ROLLBACK_IN_PROGRESS"
             /\ stack = "CREATE_COMPLETE" => \A s \in DOMAIN env : env[s] = "real"
  <2>1. stack # "ROLLBACK_IN_PROGRESS"
    BY <1>1 DEF CreationInv, Unbroken
  <2>2. ASSUME stack = "CREATE_COMPLETE", NEW s \in DOMAIN env
        PROVE  env[s] = "real"
    <3>1. /\ CreateInv /\ Delivered /\ created = Present /\ Healthy
      BY <1>1, <2>2 DEF CreationInv, Forward, Whole, Unbroken
    <3>2. /\ plan \in Plan /\ Present = DOMAIN Template(plan)
          /\ Script = UserData(plan) /\ Secrets[plan] = SecretOf(plan)
      BY <3>1, PlanFacts
    <3>3. boot.pc = 25
      BY <3>1, <3>2, TemplateFacts DEF Delivered
    <3>4. s \in DOMAIN SecretOf(plan)
      BY <3>1, <3>2 DEF CreateInv
    <3>5. PICK i \in 1..23 : Script[i].op = "secret" /\ Script[i].arg = s
      BY <3>2, <3>4, ScriptFacts
    <3>6. i \in 1..24 /\ i < boot.pc
      BY <3>3
    <3>7. QED
      BY <3>1, <3>5, <3>6 DEF Healthy, Real
  <2>3. QED
    BY <2>1, <2>2
<1>2. CreationInv => HealthyStackCompletes
  BY <1>1 DEF HealthyStackCompletes
<1>3. QED
  BY <1>2, CreationInvariant, PTL

=============================================================================

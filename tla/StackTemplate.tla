---------------------------- MODULE StackTemplate ----------------------------
(***************************************************************************)
(* The CloudFormation template of an order (src/cfn) as what its resources *)
(* wait for: for each logical id, the ids its DependsOn, Ref, GetAtt and   *)
(* Sub name.  CloudFormation creates a resource once those exist, and      *)
(* everything else side by side.  Also the slots UserData reads, and the   *)
(* commands of UserData in their order.                                    *)
(***************************************************************************)
EXTENDS Naturals, Sequences

\* The orders whose templates differ: the two builds of PersistenceService, and
\* the commercial one of an e2e order, which leaves the URL preflight out.
Plan == {"commercial", "e2e", "defense"}

\* Two parts of a template together.
f ++ g == [r \in DOMAIN f \cup DOMAIN g |-> IF r \in DOMAIN f THEN f[r] ELSE g[r]]

-----------------------------------------------------------------------------
(* What each resource waits for.                                           *)

\* Faulty variant of NetworkResources: the instance's security group has a rule
\* that names the database's, whose own rule names it.
NetworkResourcesInACircle ==
  [r \in {"EmsVpc", "EmsInternetGateway", "EmsRouteTable", "EmsSubnet", "EmsSubnetB"} |-> {}] ++
  [EmsVpcGatewayAttachment        |-> {"EmsVpc", "EmsInternetGateway"},
   EmsDefaultRoute                |-> {"EmsVpcGatewayAttachment", "EmsRouteTable"},
   EmsSubnetRouteTableAssociation |-> {"EmsSubnet", "EmsRouteTable"},
   S3VpcEndpoint                  |-> {"EmsRouteTable"},
   SecretsManagerVpcEndpoint      |-> {"EmsSubnet", "EmsSubnetB"},
   EmsSecurityGroup               |-> {"EmsVpc", "AuroraSecurityGroup"}]

\* Nothing but the default route says it waits for the gateway, and nothing
\* outside this part waits for a route or an endpoint.
NetworkResources ==
  [EmsVpc                          |-> {},
   EmsInternetGateway              |-> {},
   EmsVpcGatewayAttachment         |-> {"EmsVpc", "EmsInternetGateway"},
   EmsSubnet                       |-> {"EmsVpc"},
   EmsSubnetB                      |-> {"EmsVpc"},
   EmsRouteTable                   |-> {"EmsVpc"},
   EmsDefaultRoute                 |-> {"EmsVpcGatewayAttachment", "EmsRouteTable"},
   EmsSubnetRouteTableAssociation  |-> {"EmsSubnet", "EmsRouteTable"},
   EmsSubnetBRouteTableAssociation |-> {"EmsSubnetB", "EmsRouteTable"},
   S3VpcEndpoint                   |-> {"EmsRouteTable"},
   VpcEndpointSecurityGroup        |-> {"EmsVpc"},
   SecretsManagerVpcEndpoint       |-> {"EmsSubnet", "EmsSubnetB", "VpcEndpointSecurityGroup"},
   EmsSecurityGroup                |-> {"EmsVpc"}]

\* The instance role names the Neptune cluster, and not the collection: the
\* collection's data policy names the role.
IamResources(p) ==
  [EmsInstanceRole    |-> IF p = "defense" THEN {"NeptuneCluster"} ELSE {},
   EmsInstanceProfile |-> {"EmsInstanceRole"}]

BedrockPreflightResources ==
  [BedrockPreflightLambdaRole     |-> {},
   BedrockPreflightLambda         |-> {"BedrockPreflightLambdaRole"},
   BedrockPreflightCustomResource |-> {"BedrockPreflightLambda"}]

CustomerUrlPreflightResources ==
  [CustomerUrlPreflightLambdaRole     |-> {},
   CustomerUrlPreflightLambda         |-> {"CustomerUrlPreflightLambdaRole"},
   CustomerUrlPreflightCustomResource |-> {"CustomerUrlPreflightLambda"}]

\* The databases of the cluster; telemetry has one of its own in defense.
Slices(p) ==
  IF p = "defense" THEN <<"document", "vector", "timeseries", "dercontrol">>
               ELSE <<"document", "vector", "dercontrol">>

SliceSecret ==
  [document |-> "AuroraSliceDocumentSecret", vector |-> "AuroraSliceVectorSecret",
   timeseries |-> "AuroraSliceTimeseriesSecret", dercontrol |-> "AuroraSliceDercontrolSecret"]

SliceSecrets(p) == {SliceSecret[Slices(p)[i]] : i \in 1..Len(Slices(p))}

\* Faulty variant of AuroraBootstrapResources: the custom resource says only what
\* its Properties refer to.
AuroraBootstrapWithoutSecrets(p) ==
  [AuroraBootstrapLambdaRole     |-> {},
   AuroraBootstrapLambda         |-> {"AuroraBootstrapLambdaRole", "EmsSubnet", "EmsSecurityGroup"},
   AuroraBootstrapCustomResource |->
     {"AuroraInstance", "AuroraBootstrapLambda", "AuroraCluster", "AuroraMasterSecret"}]

\* The bootstrap writes into the slices' secrets and talks to the instance.
AuroraBootstrapResources(p) ==
  [AuroraBootstrapLambdaRole     |-> {},
   AuroraBootstrapLambda         |-> {"AuroraBootstrapLambdaRole", "EmsSubnet", "EmsSecurityGroup"},
   AuroraBootstrapCustomResource |->
     {"AuroraInstance", "AuroraBootstrapLambda", "AuroraCluster", "AuroraMasterSecret"}
     \cup SliceSecrets(p)]

AuroraClusterResources(p) ==
  [r \in SliceSecrets(p) |-> {}] ++
  [AuroraMasterSecret  |-> {},
   AuroraSubnetGroup   |-> {"EmsSubnet", "EmsSubnetB"},
   AuroraSecurityGroup |-> {"EmsVpc", "EmsSecurityGroup"},
   AuroraCluster       |-> {"AuroraMasterSecret", "AuroraSubnetGroup", "AuroraSecurityGroup"},
   AuroraInstance      |-> {"AuroraCluster"} \cup
                           (IF p = "defense" THEN {"AuroraParameterGroup"} ELSE {})] ++
  (IF p = "defense" THEN [AuroraParameterGroup |-> {}] ELSE <<>>) ++
  AuroraBootstrapResources(p)

\* Secrets whose value is a parameter the customer typed, or a placeholder a
\* running service can live with.
VendorUrlSecrets   == [r \in {"TimeseriesUrlSecret", "GraphUrlSecret"} |-> {}]
AgentApiKeySecrets == [r \in {"OpenweathermapApiKeySecret", "GridstatusApiKeySecret"} |-> {}]
AuthSecrets ==
  [r \in {"MqttServicePwSecret", "AuthJwtSecretSecret", "AuthOperatorPwSecret",
          "AuthViewerPwSecret", "GrafanaAdminPwSecret"} |-> {}]
DerControlSecrets == [r \in {"DerControlTruststoreSecret", "DerControlLfdiAllowlistSecret"} |-> {}]

NeptuneResources ==
  [NeptuneSubnetGroup        |-> {"EmsSubnet", "EmsSubnetB"},
   NeptuneSecurityGroup      |-> {"EmsVpc", "EmsSecurityGroup"},
   NeptuneLoaderRole         |-> {},
   NeptuneCluster            |-> {"NeptuneSubnetGroup", "NeptuneSecurityGroup", "NeptuneLoaderRole"},
   NeptuneInstance           |-> {"NeptuneCluster"},
   NeptuneHostParam          |-> {"NeptuneCluster"},
   NeptuneLoaderRoleArnParam |-> {"NeptuneLoaderRole"}]

AossResources ==
  [AossEncryptionPolicy |-> {},
   AossNetworkPolicy    |-> {},
   AossDataAccessPolicy |-> {"EmsInstanceRole"},
   AossCollection       |-> {"AossEncryptionPolicy", "AossNetworkPolicy", "AossDataAccessPolicy"},
   AossHostParam        |-> {"AossCollection"}]

\* Faulty variant of CommercialBuild: the instance does not wait for the bootstrap.
CommercialBuildUnordered(p) ==
  [resources |->
     AuroraClusterResources(p) ++ VendorUrlSecrets ++ AgentApiKeySecrets ++ AuthSecrets ++
     DerControlSecrets ++ (IF p = "e2e" THEN <<>> ELSE CustomerUrlPreflightResources),
   instance |-> {"AuroraCluster"} \cup (IF p = "e2e" THEN {} ELSE {"CustomerUrlPreflightCustomResource"})]

\* The build of each variant: its resources, and what the instance waits for
\* because a shell script's reads are no references.
CommercialBuild(p) ==
  [resources |->
     AuroraClusterResources(p) ++ VendorUrlSecrets ++ AgentApiKeySecrets ++ AuthSecrets ++
     DerControlSecrets ++ (IF p = "e2e" THEN <<>> ELSE CustomerUrlPreflightResources),
   instance |->
     {"AuroraBootstrapCustomResource"} \cup DOMAIN VendorUrlSecrets \cup
     DOMAIN AgentApiKeySecrets \cup DOMAIN AuthSecrets \cup DOMAIN DerControlSecrets \cup
     (IF p = "e2e" THEN {} ELSE {"CustomerUrlPreflightCustomResource"})]

DefenseBuild(p) ==
  [resources |->
     AuroraClusterResources(p) ++ AgentApiKeySecrets ++ AuthSecrets ++ DerControlSecrets ++
     NeptuneResources ++ AossResources,
   instance |->
     {"AuroraBootstrapCustomResource", "NeptuneInstance", "AossCollection",
      "NeptuneHostParam", "NeptuneLoaderRoleArnParam", "AossHostParam"} \cup
     DOMAIN AgentApiKeySecrets \cup DOMAIN AuthSecrets \cup DOMAIN DerControlSecrets]

Build(p) == IF p = "defense" THEN DefenseBuild(p) ELSE CommercialBuild(p)

\* render_template: everything together, and the instance with its address.
Template(p) ==
  NetworkResources ++ IamResources(p) ++ BedrockPreflightResources ++ Build(p).resources ++
  [EmsInstance       |-> {"BedrockPreflightCustomResource", "EmsInstanceProfile", "EmsSubnet",
                          "EmsSecurityGroup", "EmsEip"} \cup Build(p).instance,
   EmsEip            |-> {},
   EmsEipAssociation |-> {"EmsEip", "EmsInstance"}]

-----------------------------------------------------------------------------
(* UserData.                                                               *)

\* The secret behind each slot of secrets.env, and behind the three passwords
\* of the broker's credentials.xml.
SecretOf(p) ==
  [dbDocument   |-> "AuroraSliceDocumentSecret",
   dbVector     |-> "AuroraSliceVectorSecret",
   dbTimeseries |-> IF p = "defense" THEN "AuroraSliceTimeseriesSecret" ELSE "TimeseriesUrlSecret",
   dbDercontrol |-> "AuroraSliceDercontrolSecret",
   weather      |-> "OpenweathermapApiKeySecret",
   grid         |-> "GridstatusApiKeySecret",
   mqtt         |-> "MqttServicePwSecret",
   operator     |-> "AuthOperatorPwSecret",
   viewer       |-> "AuthViewerPwSecret",
   jwt          |-> "AuthJwtSecretSecret",
   grafana      |-> "GrafanaAdminPwSecret",
   lfdi         |-> "DerControlLfdiAllowlistSecret",
   brokerMqtt     |-> "MqttServicePwSecret",
   brokerOperator |-> "AuthOperatorPwSecret",
   brokerViewer   |-> "AuthViewerPwSecret"] ++
  (IF p = "defense" THEN <<>> ELSE [graph |-> "GraphUrlSecret"])

\* The parameters behind the graph part of the analyst's configuration.
GraphParams == {"NeptuneHostParam", "AossHostParam", "NeptuneLoaderRoleArnParam"}

\* Everything UserData reads: secrets and parameters of the stack's own name.
Read(p) ==
  {SecretOf(p)[s] : s \in DOMAIN SecretOf(p)} \cup {"DerControlTruststoreSecret"} \cup
  (IF p = "defense" THEN GraphParams ELSE {})

Slots(p) ==
  <<"dbDocument", "dbVector", "dbTimeseries", "dbDercontrol", "weather", "grid">> \o
  (IF p = "defense" THEN <<>> ELSE <<"graph">>) \o
  <<"mqtt", "operator", "viewer", "jwt", "grafana", "lfdi">>

Do(op, arg) == [op |-> op, arg |-> arg]

\* quiet    a command whose failure does not stop the script
\* loud     one whose failure runs the trap
\* secret   echo "NAME=$(aws ...)" or export NAME=$(aws ...): the exit status
\*          is that of echo or export
\* signal   cfn-signal, the last command
\* The trap is set only after the tools are there.
UserData(p) ==
  <<Do("quiet", "cfn-signal")>> \o
  (IF p = "defense" THEN <<Do("loud", "graph_parameters")>> ELSE <<>>) \o
  [i \in 1..Len(Slots(p)) |-> Do("secret", Slots(p)[i])] \o
  <<Do("secret", "brokerMqtt"), Do("secret", "brokerOperator"), Do("secret", "brokerViewer"),
    Do("loud", "broker_template"), Do("loud", "truststore"), Do("loud", "release_files"),
    Do("loud", "dtm"), Do("loud", "docker"), Do("loud", "compose_up"), Do("signal", "success")>>

=============================================================================

---------------------------- MODULE AwsCdkRules ----------------------------
(***************************************************************************)
(* Rules on the options of AWS CDK constructs: the template that selects    *)
(* the constructs and the check of one option (helpers/aws/cdk.ts), the     *)
(* S3 bucket rules (helpers/aws/s3.ts), unencrypted databases and search    *)
(* domains, public instances, listeners without TLS.  A state is one        *)
(* expression new Construct(scope, id, options), or a call                  *)
(* construct.addListener(id, options), and what the rules report on it.     *)
(***************************************************************************)
EXTENDS Expressions

CONSTANTS
  Constructs,   \* constructs instantiated in this instance
  Options       \* the expressions tried as third argument of a construct

VARIABLES
  construct, options, reports, done

vars == <<construct, options, reports, done>>

(***************************************************************************)
(* AwsCdkCheckArguments.  The table has, per construct, whether the option  *)
(* is needed, its path, and the values that are refused or required.        *)
(***************************************************************************)
Rule(needsProps, path, invalid, valid, fqns) ==
  [needsProps |-> needsProps, path |-> path, invalid |-> invalid, valid |-> valid, fqns |-> fqns,
   validFqns |-> {}, caseInsensitive |-> FALSE]

EbsVolumes == "Volume" :> Rule(TRUE, <<"encrypted">>, {Bool("false")}, {}, {})

EfsFileSystems ==
  [FileSystem    |-> Rule(FALSE, <<"encrypted">>, {Bool("false")}, {}, {}),
   CfnFileSystem |-> Rule(TRUE, <<"encrypted">>, {}, {Bool("true")}, {})]

Notebooks == "CfnNotebookInstance" :> Rule(TRUE, <<"kmsKeyId">>, {}, {}, {})

Topics ==
  [Topic    |-> Rule(TRUE, <<"masterKey">>, {}, {}, {}),
   CfnTopic |-> Rule(TRUE, <<"kmsMasterKeyId">>, {}, {}, {})]

Queues ==
  [Queue    |-> Rule(TRUE, <<"encryption">>, {}, {}, {"UNENCRYPTED"}),
   CfnQueue |-> Rule(TRUE, <<"kmsMasterKeyId">>, {}, {}, {})]

PublicNetworks ==
  [Instance               |-> Rule(FALSE, <<"vpcSubnets", "subnetType">>, {}, {}, {"PUBLIC"}),
   CfnDBInstance          |-> Rule(FALSE, <<"publiclyAccessible">>, {Bool("true")}, {}, {}),
   CfnReplicationInstance |-> Rule(TRUE, <<"publiclyAccessible">>, {Bool("true")}, {}, {})]

PublicApis ==
  [CfnMethod |-> Rule(TRUE, <<"authorizationType">>, {Str("NONE")}, {}, {}),
   CfnRoute  |-> Rule(TRUE, <<"authorizationType">>, {Str("NONE")}, {}, {})]

\* no-clear-text-protocols; the listeners of newer load balancers follow below.
ClearText ==
  LET classic == Rule(FALSE, <<"listeners", "externalProtocol">>, {}, {}, {"TCP", "HTTP"})
      anyCase(rule) == [rule EXCEPT !.caseInsensitive = TRUE]
  IN [CfnReplicationGroup |-> Rule(TRUE, <<"transitEncryptionEnabled">>, {Bool("false")}, {}, {}),
      Stream              |-> Rule(FALSE, <<"encryption">>, {}, {}, {"UNENCRYPTED"}),
      CfnStream           |-> Rule(TRUE, <<"streamEncryption">>, {}, {}, {}),
      LoadBalancer        |-> classic,
      LoadBalancerListener |-> [classic EXCEPT !.path = Tail(@)],
      CfnLoadBalancer     |-> anyCase(Rule(FALSE, <<"listeners", "protocol">>, {Str("tcp"), Str("http")}, {}, {})),
      CfnListener         |-> anyCase(Rule(FALSE, <<"protocol">>, {Str("HTTP"), Str("TCP"), Str("UDP"), Str("TCP_UDP")}, {}, {}))]

\* weak-ssl
WeakTls ==
  LET named(needsProps, path) == [Rule(needsProps, path, {}, {}, {}) EXCEPT !.validFqns = {"TLS_1_2"}]
  IN [CfnDomainName |-> Rule(TRUE, <<"securityPolicy">>, {}, {Str("TLS_1_2")}, {}),
      DomainName    |-> named(FALSE, <<"securityPolicy">>),
      CfnTlsDomain  |-> Rule(TRUE, <<"domainEndpointOptions", "tlsSecurityPolicy">>, {}, {Str("TLS_1_2")}, {}),
      TlsDomain     |-> named(TRUE, <<"tlsSecurityPolicy">>)]

Checks == EbsVolumes @@ EfsFileSystems @@ Notebooks @@ Topics @@ Queues @@ PublicNetworks @@ PublicApis @@ ClearText @@ WeakTls

Omitted(rule) == IF rule.needsProps THEN {"omitted"} ELSE {}

\* The objects in which the next property of the path is looked for.
Children(node) ==
  LET object == getValueOfExpression(node, "ObjectExpression", TRUE)
      array == getValueOfExpression(node, "ArrayExpression", TRUE)
      resolved(i) == getValueOfExpression(array.elements[i], "ObjectExpression", TRUE)
  IN IF object # None THEN {object}
     ELSE IF array = None THEN {}
     ELSE {resolved(i) : i \in {j \in DOMAIN array.elements : resolved(j) # None}}

EmptyOrNoArray(node) ==
  /\ getValueOfExpression(node, "ObjectExpression", TRUE) = None
  /\ getValueOfExpression(node, "ArrayExpression", TRUE) \in {None, Array(<<>>)}

\* What is reported on the way, and the values at the end of the path.
RECURSIVE traverseProperties(_, _, _)
traverseProperties(node, path, rule) ==
  IF isUnresolved(node) THEN [messages |-> {}, values |-> {}]
  ELSE IF EmptyOrNoArray(node) THEN [messages |-> Omitted(rule), values |-> {}]
  ELSE LET below(p) == IF p = Missing THEN [messages |-> Omitted(rule), values |-> {}]
                       ELSE IF p = Unsure THEN [messages |-> {}, values |-> {}]
                       ELSE IF Len(path) = 1 THEN [messages |-> {}, values |-> {p.value}]
                       ELSE traverseProperties(p.value, Tail(path), rule)
           found == {below(getProperty(child, Head(path))) : child \in Children(node)}
       IN [messages |-> UNION {f.messages : f \in found}, values |-> UNION {f.values : f \in found}]

getLiteralValue(e) == getValueOfExpression(e, "Literal", TRUE)

LowerCase == [HTTP |-> "http", HTTPS |-> "https", TCP |-> "tcp", Tcp |-> "tcp", UDP |-> "udp", TCP_UDP |-> "tcp_udp"]

toLowerCase(text) == IF text \in DOMAIN LowerCase THEN LowerCase[text] ELSE text

IsOneOf(literal, values, rule) ==
  \/ literal \in values
  \/ /\ rule.caseInsensitive /\ isStringLiteral(literal)
     /\ \E value \in values : toLowerCase(value.value[2]) = toLowerCase(literal.value[2])

disallowedValue(e, rule) ==
  LET literal == getLiteralValue(e)
  IN /\ literal # None
     /\ (rule.valid # {} /\ ~IsOneOf(literal, rule.valid, rule)) \/ IsOneOf(literal, rule.invalid, rule)

disallowedFQNs(e, rule) ==
  LET fqn == getFullyQualifiedName(e)
  IN (rule.validFqns # {} /\ fqn \notin rule.validFqns) \/ fqn \in rule.fqns

CheckValue(e, rule) ==
  LET value == getUniqueWriteUsageOrNode(e, TRUE)
  IN IF isUnresolved(value) THEN {}
     ELSE IF isUndefined(value) \/ value = Array(<<>>) THEN Omitted(rule)
     ELSE IF disallowedValue(value, rule) \/ disallowedFQNs(value, rule) THEN {"invalid"}
     ELSE {}

AwsCdkCheckArguments(argument, rule) ==
  IF argument = None \/ isUndefined(argument) THEN Omitted(rule)
  ELSE LET found == traverseProperties(argument, rule.path, rule)
       IN found.messages \cup UNION {CheckValue(value, rule) : value \in found.values}

(***************************************************************************)
(* Listeners of load balancers: a protocol without TLS or, when none is     *)
(* given, the option that stands for it.  The checks are silent: what they  *)
(* would report makes the callback report.                                  *)
(***************************************************************************)
ClearTextListener(argument, protocols, otherwise) ==
  LET clearText == Rule(FALSE, <<"protocol">>, {}, {}, protocols)
      given == Rule(TRUE, <<"protocol">>, {}, {}, {})
      failing == {rule \in {clearText, given, otherwise} : AwsCdkCheckArguments(argument, rule) # {}}
  IN IF clearText \in failing \/ {given, otherwise} \subseteq failing THEN {"noSSLTLS"} ELSE {}

sensitivePorts == {80, 8080, 8000, 8008}

httpOrSensitivePort(argument) ==
  ClearTextListener(argument, {"HTTP"}, Rule(FALSE, <<"port">>, {Num(p) : p \in sensitivePorts}, {}, {}))

NetworkProtocols == {"TCP", "UDP", "TCP_UDP"}

networkListener(argument, protocols) == ClearTextListener(argument, protocols, Rule(TRUE, <<"certificates">>, {}, {}, {}))

(***************************************************************************)
(* S3 buckets: the first property with the key as an identifier, of an      *)
(* object or of a variable that holds one.                                  *)
(***************************************************************************)
BucketOptions(argument) ==
  IF argument = None THEN None ELSE getValueOfExpression(argument, "ObjectExpression", FALSE)

FirstProperty(object, key) ==
  LET found == {i \in DOMAIN object.properties : object.properties[i].entry = "Property" /\ object.properties[i].key = key}
  IN IF found = {} THEN Missing ELSE object.properties[CHOOSE i \in found : \A j \in found : i <= j]

getBucketProperty(argument, key) ==
  IF BucketOptions(argument) = None THEN Missing ELSE FirstProperty(BucketOptions(argument), key)

\* The value of a property, if it has the type, behind at most one variable.
SettingOf(p, type) == getValueOfExpression(p.value, type, FALSE)

\* A report with the secondary location of the setting that reached the property.
Setting(message, p, value) ==
  {[message |-> message, propagated |-> p.value # value]}

Plain(message) == {[message |-> message, propagated |-> FALSE]}

\* enforceSSL and versioned.
BooleanSetting(argument, key) ==
  LET p == getBucketProperty(argument, key)
  IN IF p = Missing THEN Plain("omitted")
     ELSE IF SettingOf(p, "Literal") = Bool("false") THEN Setting("invalid", p, SettingOf(p, "Literal"))
     ELSE {}

InsecureHttp(argument) == BooleanSetting(argument, "enforceSSL")

EncryptionSetting(argument) ==
  LET p == getBucketProperty(argument, "encryption")
  IN IF p = Missing THEN Plain("omitted")
     ELSE IF SettingOf(p, "MemberExpression") = Name("UNENCRYPTED")
          THEN Setting("invalid", p, SettingOf(p, "MemberExpression"))
     ELSE {}

INVALID_ACCESS_CONTROL_VALUES == {"PUBLIC_READ", "PUBLIC_READ_WRITE", "AUTHENTICATED_READ"}

GrantedAccess(argument) ==
  LET control == getBucketProperty(argument, "accessControl")
      read == getBucketProperty(argument, "publicReadAccess")
      value == IF control = Missing THEN None ELSE SettingOf(control, "MemberExpression")
  IN (IF value # None /\ value.fqn \in INVALID_ACCESS_CONTROL_VALUES THEN Setting("invalid", control, value) ELSE {})
     \cup (IF read # Missing /\ SettingOf(read, "Literal") = Bool("true")
           THEN Setting("unrestricted", read, Bool("true"))
           ELSE {})

BLOCK_PUBLIC_ACCESS_PROPERTY_KEYS == {"blockPublicAcls", "blockPublicPolicy", "ignorePublicAcls", "restrictPublicBuckets"}

PublicAccess(argument) ==
  LET p == getBucketProperty(argument, "blockPublicAccess")
      constructor == SettingOf(p, "NewExpression")
      config == IF constructor = None \/ constructor.arguments = <<>> THEN None
                ELSE getValueOfExpression(constructor.arguments[1], "ObjectExpression", FALSE)
      disabled == {key \in BLOCK_PUBLIC_ACCESS_PROPERTY_KEYS :
                     LET q == FirstProperty(config, key) IN q # Missing /\ SettingOf(q, "Literal") = Bool("false")}
  IN IF p = Missing THEN Plain("omitted")
     ELSE IF SettingOf(p, "MemberExpression") = Name("BLOCK_ACLS")
          THEN Setting("invalid", p, SettingOf(p, "MemberExpression"))
     ELSE IF constructor = None \/ constructor.fqn # "BlockPublicAccess" THEN {}
     ELSE IF config = None THEN Plain("omitted")
     ELSE UNION {Setting("invalid", FirstProperty(config, key), SettingOf(FirstProperty(config, key), "Literal")) : key \in disabled}

(***************************************************************************)
(* Databases and search domains.                                           *)
(***************************************************************************)
isException(props) ==
  LET key == getProperty(props, "storageEncryptionKey")
      value == getUniqueWriteUsageOrNode(key.value, FALSE)
  IN IF ~IsFoundProperty(key) THEN FALSE
     ELSE value.type = "NewExpression" /\ value.fqn \in {"Key", "Alias"}

checkStorage(argument, storage) ==
  LET props == IF argument = None THEN None ELSE getValueOfExpression(argument, "ObjectExpression", FALSE)
      p == getProperty(props, "storageEncrypted")
  IN IF props = None THEN IF argument.type = "Identifier" /\ ~isUndefined(argument) THEN {} ELSE {"omitted"}
     ELSE IF storage \in {"DatabaseCluster", "DatabaseInstance"} /\ isException(props) THEN {}
     ELSE IF p = Missing THEN {"omitted"}
     ELSE IF p = Unsure THEN {}
     ELSE IF getUniqueWriteUsageOrNode(p.value, FALSE) = Bool("false") THEN {"unsafe"}
     ELSE {}

\* The argument of the construct as a result.
Argument(argument) ==
  getArgument(getResultOfExpression(New(construct, <<Param, Param>> \o (IF argument = None THEN <<>> ELSE <<argument>>))), 3)

domainChecker(argument, encryptionProperty) ==
  LET isEnabled == propertyOf(propertyOf(Argument(argument), encryptionProperty), "enabled")
  IN IF isMissing(isEnabled) THEN {"omitted"}
     ELSE IF isFound(isEnabled) /\ isEnabled.node = Bool("false") THEN {"invalid"}
     ELSE {}

PRIVATE_SUBNETS == {"PRIVATE_ISOLATED", "PRIVATE_WITH_EGRESS", "PRIVATE_WITH_NAT"}

HasName(r, names) == isFound(r) /\ getFullyQualifiedName(r.node) \in names

\* Instances of databases in a public subnet.
checkDatabaseInstance(argument) ==
  LET subnetType == propertyOf(propertyOf(Argument(argument), "vpcSubnets"), "subnetType")
      accessible == propertyOf(Argument(argument), "publiclyAccessible")
  IN IF HasName(subnetType, {"PUBLIC"}) /\ (isTrue(accessible) \/ ~isFound(accessible)) THEN {"publicNetwork"} ELSE {}

\* A network interface with a public address that is not in a private subnet.
isFoundPrivateSubnet(networkInterface) ==
  LET subnetId == propertyOf(networkInterface, "subnetId")
      call == filterResult(subnetId, LAMBDA n : n.type = "CallExpression" /\ n.fqn = "selectSubnets")
  IN HasName(propertyOf(getArgument(call, 1), "subnetType"), PRIVATE_SUBNETS)

getSensitiveNetworkInterface(networkInterface) ==
  LET associate == propertyOf(networkInterface, "associatePublicIpAddress")
  IN IF isTrue(associate) /\ ~isFoundPrivateSubnet(networkInterface) THEN associate ELSE Result("missing", None)

checkCfnInstance(argument) ==
  LET interfaces == propertyOf(Argument(argument), "networkInterfaces")
  IN IF isFound(findInArray(interfaces, getSensitiveNetworkInterface)) THEN {"publicNetwork"} ELSE {}

(***************************************************************************)
(* AwsCdkTemplate: the callback of the construct.                           *)
(***************************************************************************)
Messages(S) == {r.message : r \in S}

Callback(name, argument) ==
  CASE name \in DOMAIN Checks -> AwsCdkCheckArguments(argument, Checks[name])
    [] name = "Bucket ssl" -> Messages(InsecureHttp(argument))
    [] name = "Bucket versioning" -> Messages(BooleanSetting(argument, "versioned"))
    [] name = "Bucket encryption" -> Messages(EncryptionSetting(argument))
    [] name = "Bucket granted" -> Messages(GrantedAccess(argument))
    [] name = "Bucket public" -> Messages(PublicAccess(argument))
    [] name = "DatabaseCluster" -> checkStorage(argument, "DatabaseCluster")
    [] name = "CfnDBCluster" -> checkStorage(argument, "CfnDBCluster")
    [] name = "Domain" -> domainChecker(argument, "encryptionAtRest")
    [] name = "DatabaseInstance" -> checkDatabaseInstance(argument)
    [] name = "CfnInstance" -> checkCfnInstance(argument)
    [] name = "ApplicationListener" -> httpOrSensitivePort(argument)
    [] name = "NetworkListener" -> networkListener(argument, NetworkProtocols)
    [] name = "NetworkLoadBalancer addListener" -> networkListener(argument, NetworkProtocols \cup {"HTTP"})

Init ==
  /\ construct \in Constructs
  /\ options \in Options
  /\ reports = {} /\ done = FALSE

\* The visit of the expression; arguments that contain a spread are left alone.
NewExpression ==
  /\ ~done
  /\ reports' = (IF options.type = "SpreadElement" THEN {} ELSE Callback(construct, options))
  /\ done' = TRUE
  /\ UNCHANGED <<construct, options>>

Next == NewExpression \/ (done /\ UNCHANGED vars)

Spec == Init /\ [][Next]_vars

(***************************************************************************)
(* What the options are when the program runs (ExpressionValues).           *)
(***************************************************************************)
OptionValues(path) == IF options = None THEN {None} ELSE PathValues(options, path)

\* Protocols mean the same in any case.
Meaning(rule, literal) ==
  IF rule.caseInsensitive /\ isStringLiteral(literal) THEN Str(toLowerCase(literal.value[2])) ELSE literal

Means(rule, literal, values) == Meaning(rule, literal) \in {Meaning(rule, value) : value \in values}

IsInsecure(rule, value) ==
  \/ value \in {None, Array(<<>>)} /\ rule.needsProps
  \/ value.type = "Literal" /\ (Means(rule, value, rule.invalid) \/ (rule.valid # {} /\ ~Means(rule, value, rule.valid)))
  \/ value.type = "MemberExpression" /\ value.fqn \in rule.fqns
  \/ rule.validFqns # {} /\ value \notin {None, Array(<<>>)} \cup {Name(n) : n \in rule.validFqns}

(***************************************************************************)
(* Properties.                                                             *)
(***************************************************************************)
\* Options that are written in the file are judged by the value they have at run time,
\* through variables, spreads and repeated keys (AwsCdkCheckArguments): the option is
\* reported exactly when that value is refused or is missing and needed.
KnownOptionsAreJudgedExactly ==
  done /\ construct \in DOMAIN Checks =>
    LET rule == Checks[construct]
        values == OptionValues(rule.path)
    IN AnyValue \notin values => ((reports # {}) <=> (\A value \in values : IsInsecure(rule, value)))

\* Options the file does not show, a parameter, a value that is written several times or a
\* spread of one, are not reported (isUnresolved, getProperty).  Options in a variable that
\* is written but cannot be followed are: isUnresolved only knows variables without a write.
UnknownOptionsAreSpared ==
  done /\ construct \in DOMAIN Checks /\ options # None =>
    (OptionValues(Checks[construct].path) = {AnyValue} /\ reports # {} =>
       options.type = "Identifier" /\ options.writes \in {"one", "several"})

\* "Omitting the option" is said of buckets whose options do omit it (s3.ts getProperty).
OmissionIsReal ==
  done /\ construct = "Bucket ssl" /\ reports = {"omitted"} => OptionValues(<<"enforceSSL">>) = {None}

\* Options in an object with plain keys, none of them twice, and at most one variable in
\* between are judged exactly by the bucket rules (s3.ts getProperty, getValueOfExpression).
VisibleBucketsAreJudged ==
  LET key == IF construct = "Bucket ssl" THEN "enforceSSL" ELSE "versioned"
      entries == BucketOptions(options).properties
      visible == BucketOptions(options) # None
                 /\ IsInjective([i \in DOMAIN entries |-> IF entries[i].entry = "Property" THEN entries[i].key ELSE "none"])
                 /\ \A i \in DOMAIN entries :
                      entries[i].entry = "Property"
                      /\ ~HasUniqueWrite(getUniqueWriteUsageOrNode(entries[i].value, FALSE))
  IN done /\ construct \in {"Bucket ssl", "Bucket versioning"} /\ visible =>
       (reports # {} <=> Bool("false") \in OptionValues(<<key>>)
                         \/ \A i \in DOMAIN entries : entries[i].key # key)

\* The four flags of a public access block, read from its run-time value.
LeavesAccessOpen(block) ==
  \/ block \in {None, Name("BLOCK_ACLS")}
  \/ /\ block.type = "NewExpression"
     /\ block.arguments = <<>>
        \/ \E key \in BLOCK_PUBLIC_ACCESS_PROPERTY_KEYS : Bool("false") \in PathValues(block.arguments[1], <<key>>)

\* Of the options the bucket rules can see, exactly the ones that grant public access, leave
\* it open or leave the bucket unencrypted are reported.
ExposedBucketsAreReported ==
  done /\ options # None /\ BucketOptions(options) # None =>
    /\ construct = "Bucket granted" =>
         (reports # {} <=> \/ \E v \in OptionValues(<<"accessControl">>) : v.type = "MemberExpression" /\ v.fqn \in INVALID_ACCESS_CONTROL_VALUES
                          \/ Bool("true") \in OptionValues(<<"publicReadAccess">>))
    /\ construct = "Bucket public" =>
         (reports # {} <=> \E v \in OptionValues(<<"blockPublicAccess">>) : LeavesAccessOpen(v))
    /\ construct = "Bucket encryption" =>
         (reports # {} <=> OptionValues(<<"encryption">>) \cap {None, Name("UNENCRYPTED")} # {})

\* What is known of the options is secure: an option that is written and is not refused.
KnownInsecure(values) == values # {AnyValue} /\ values \ {AnyValue} \subseteq {None, Bool("false")}

\* A database is reported only when all that the file shows of its storage is unencrypted
\* (checkStorage, getProperty): a setting behind a variable or a spread counts.
StorageReportsAreJustified ==
  done /\ construct \in {"DatabaseCluster", "CfnDBCluster"} /\ reports # {} =>
    KnownInsecure(OptionValues(<<"storageEncrypted">>))

\* A search domain whose encryption is known to be off is reported and one that may be
\* encrypted is not (domainChecker on the results of helpers/result.ts).
DomainsAreJudgedExactly ==
  done /\ construct = "Domain" =>
    LET values == OptionValues(<<"encryptionAtRest", "enabled">>)
    IN /\ reports # {} => KnownInsecure(values)
       /\ values \in {{None}, {Bool("false")}} => reports # {}

\* A database instance in a public subnet is reported unless it is known not to be
\* accessible (checkDatabaseInstance).
PublicInstancesAreReported ==
  done /\ construct = "DatabaseInstance" =>
    LET subnet == OptionValues(<<"vpcSubnets", "subnetType">>)
        accessible == OptionValues(<<"publiclyAccessible">>)
    IN /\ subnet = {Name("PUBLIC")} /\ accessible \in {{None}, {Bool("true")}} => reports # {}
       /\ reports # {} => Name("PUBLIC") \in subnet /\ accessible # {Bool("false")}

\* What the entries of one network interface say of the key.
InterfaceValues(e, key) == UNION {PropertyValues(o, key) : o \in Values(e)}

InPrivateSubnet(e) ==
  \E call \in InterfaceValues(e, "subnetId") :
    call.type = "CallExpression" /\ PathValues(call.arguments[1], <<"subnetType">>) \subseteq {Name(n) : n \in PRIVATE_SUBNETS}

\* An instance is reported exactly when some of its network interfaces asks for a public
\* address and is not known to be in a private subnet, wherever it stands in the list
\* (checkCfnInstance, findInArray).
EveryInterfaceIsJudged ==
  done /\ construct = "CfnInstance" =>
    (reports # {} <=>
       \E list \in {l \in OptionValues(<<"networkInterfaces">>) : l.type = "ArrayExpression"} :
         \E i \in DOMAIN list.elements :
           InterfaceValues(list.elements[i], "associatePublicIpAddress") = {Bool("true")}
           /\ ~InPrivateSubnet(list.elements[i]))

\* One listener of a list is enough: a classic load balancer is reported exactly when some
\* listener, wherever it stands, names a protocol without TLS, in whatever case it is
\* written (traverseProperties, disallowedValue).
EveryListenerIsJudged ==
  done /\ construct \in {"LoadBalancer", "CfnLoadBalancer"} =>
    LET rule == Checks[construct]
        listeners == UNION {Range(l.elements) : l \in {v \in OptionValues(<<"listeners">>) : v.type = "ArrayExpression"}}
                     \cup {v \in OptionValues(<<"listeners">>) : v.type = "ObjectExpression"}
    IN reports # {} <=> \E e \in listeners : \E v \in InterfaceValues(e, rule.path[2]) : v # AnyValue /\ IsInsecure(rule, v)

ProtocolsOf(name) == IF name = "ApplicationListener" THEN {"HTTP"}
                     ELSE IF name = "NetworkListener" THEN NetworkProtocols ELSE NetworkProtocols \cup {"HTTP"}

\* What takes the place of a protocol that is not given: the port, or certificates.
StandsForClearText(name) ==
  IF name = "ApplicationListener" THEN OptionValues(<<"port">>) \subseteq {Num(p) : p \in sensitivePorts}
  ELSE OptionValues(<<"certificates">>) \subseteq {None, Array(<<>>)}

\* A listener is reported exactly when it speaks a protocol without TLS, by its name or,
\* where the name is left to the library, by its port or the lack of certificates; one whose
\* protocol the file does not show is not (httpOrSensitivePort, NetworkListener).
ListenersAreJudgedByTheirProtocol ==
  done /\ construct \in {"ApplicationListener", "NetworkListener", "NetworkLoadBalancer addListener"} =>
    LET protocol == OptionValues(<<"protocol">>)
        other == OptionValues(<<IF construct = "ApplicationListener" THEN "port" ELSE "certificates">>)
        shown == options = None \/ options.type = "ObjectExpression"
    IN /\ AnyValue \notin protocol \cup other =>
            (reports # {} <=>
               \/ protocol \subseteq {Name(n) : n \in ProtocolsOf(construct)}
               \/ protocol = {None} /\ StandsForClearText(construct))
       /\ shown /\ protocol = {AnyValue} => reports = {}

-----------------------------------------------------------------------------
\* Options for the runs of AwsCdkRules.

Hidden == {Param, Reassigned, Undefined}

\* Objects with one or two entries for the key, spreads and the forms of unknown parts.
Objects(key, values) ==
  LET one == {<<Property(key, v)>> : v \in values} \cup {<<Quoted(key, v)>> : v \in values}
      spread == {<<Spread(Object(p))>> : p \in one} \cup {<<Spread(Var(Object(p)))>> : p \in one}
                \cup {<<Spread(Param)>>, <<Spread(Object(<<Spread(Param)>>))>>}
      parts == one \cup spread \cup {<<>>, <<Property("other", Param)>>}
  IN {Object(p \o q) : p \in parts, q \in parts}

Arguments(objects) ==
  {None} \cup Hidden \cup objects \cup {Var(o) : o \in objects} \cup {Var(Param)}

EncryptionValues == {Bool("true"), Bool("false"), Var(Var(Bool("false")))} \cup Hidden

EncryptedOptions == Arguments(Objects("encrypted", EncryptionValues))

\* Queues: names instead of literals.
QueueOptions == Arguments(Objects("encryption", {Name("UNENCRYPTED"), Name("KMS"), Var(Name("UNENCRYPTED"))} \cup Hidden))

\* Options of options, and arrays of them.
SubnetOptions ==
  LET inner == Objects("subnetType", {Name("PUBLIC"), Param})
  IN Arguments({Object(<<Property("vpcSubnets", v)>>) : v \in inner \cup {Var(o) : o \in inner} \cup Hidden})

NameOptions == QueueOptions \cup SubnetOptions

BucketArguments == Arguments(Objects("enforceSSL", EncryptionValues) \cup Objects("versioned", {Bool("false"), Bool("true")}))

ExposureOptions ==
  LET once(S) == S \cup {Var(e) : e \in S}
      flags == {Object(<<Property(k, v)>>) : k \in BLOCK_PUBLIC_ACCESS_PROPERTY_KEYS, v \in once({Bool("true"), Bool("false")}) \cup {Param}}
      blocks == {New("BlockPublicAccess", <<f>>) : f \in once(flags)} \cup {New("BlockPublicAccess", <<>>), Name("BLOCK_ACLS"), Name("BLOCK_ALL")}
      parts == {Property("blockPublicAccess", b) : b \in once(blocks)}
               \cup {Property("accessControl", Name(n)) : n \in {"PUBLIC_READ", "PRIVATE"}}
               \cup {Property("publicReadAccess", v) : v \in once({Bool("true"), Bool("false")})}
               \cup {Property("encryption", v) : v \in once({Name("UNENCRYPTED"), Name("KMS")})}
      objects == {Object(<<p>>) : p \in parts} \cup {Object(<<p, q>>) : p \in parts, q \in {Property("publicReadAccess", Bool("true"))}} \cup {Object(<<>>)}
      single == {o \in objects : Len(o.properties) < 2 \/ o.properties[1].key # o.properties[2].key}
  IN once(single) \cup {None, Param}

StorageOptions ==
  Arguments({Object(<<Property("storageEncryptionKey", k), Property("storageEncrypted", v)>>) :
               k \in {New("Key", <<>>), Var(New("Key", <<>>)), Str("key"), Param}, v \in EncryptionValues}
            \cup Objects("storageEncrypted", EncryptionValues \ {Var(Var(Bool("false")))}))

DomainOptions ==
  LET inner == Objects("enabled", {Bool("true"), Bool("false")} \cup Hidden)
  IN Arguments({Object(<<Property("encryptionAtRest", v)>>) : v \in inner \cup Hidden} \cup {Object(<<>>)})

InstanceOptions ==
  LET subnets == {Object(<<Property("subnetType", v)>>) : v \in {Name("PUBLIC"), Name("PRIVATE_ISOLATED"), Var(Name("PUBLIC")), Param}}
      network == {Property("vpcSubnets", s) : s \in subnets \cup {Var(s) : s \in subnets} \cup {Param}}
      access == {Property("publiclyAccessible", v) : v \in {Bool("true"), Bool("false"), Param, Undefined}}
  IN Arguments({Object(<<n, a>>) : n \in network, a \in access} \cup {Object(<<n>>) : n \in network} \cup {Object(<<>>)})

InterfaceOptions ==
  LET subnetIds == {Call("selectSubnets", <<Object(<<Property("subnetType", Name(n))>>)>>) : n \in {"PUBLIC", "PRIVATE_WITH_NAT"}}
      interfaces == {Object(<<Property("associatePublicIpAddress", v), Property("subnetId", i)>>) :
                       v \in {Bool("true"), Bool("false"), Param}, i \in subnetIds \cup {Str("id")}}
                    \cup {Param, Object(<<Property("associatePublicIpAddress", Var(Bool("true")))>>)}
  IN {Object(<<Property("networkInterfaces", Array(list))>>) : list \in UNION {[1..n -> interfaces] : n \in 0..2}} \cup {None, Param}

TlsOptions ==
  LET once(S) == S \cup {Var(e) : e \in S}
      names == {Name("TLS_1_2"), Name("TLS_1_0"), Str("TLS_1_2"), Str("TLS_1_0"), Var(Name("TLS_1_0")), Param}
      policies == Objects("securityPolicy", names) \cup {Object(<<Property("tlsSecurityPolicy", v)>>) : v \in names \cup Hidden}
      nested == {Object(<<Property("domainEndpointOptions", o)>>) : o \in once(policies) \cup Hidden}
      protocols == {Object(<<Property("protocol", v)>>) : v \in {Str("http"), Str("Tcp"), Str("TCP"), Str("HTTPS"), Bool("true")}}
                   \cup {Object(<<Property("externalProtocol", v)>>) : v \in {Name("HTTP"), Name("SSL"), Var(Name("TCP"))} \cup Hidden}
  IN Arguments(policies \cup nested \cup protocols)

ListenerOptions ==
  LET protocol == {<<Property("protocol", v)>> : v \in {Name("HTTP"), Name("HTTPS"), Var(Name("TCP")), Param, Undefined}} \cup {<<>>}
      port == {<<Property("port", v)>> : v \in {Num(80), Num(443), Var(Num(8080)), Param}} \cup {<<>>}
      certificates == {<<Property("certificates", v)>> : v \in {Array(<<>>), Array(<<Str("arn")>>), Param, Undefined}} \cup {<<>>}
  IN Arguments({Object(p \o q \o c) : p \in protocol, q \in port, c \in certificates}
               \cup {Object(<<Spread(o)>> \o p) : p \in protocol, o \in {Param, Object(<<Property("port", Num(80))>>)}})

BalancerOptions ==
  LET listeners == {Object(<<Property("externalProtocol", n), Property("protocol", v)>>) :
                      n \in {Name("HTTP"), Name("SSL"), Param}, v \in {Str("HTTP"), Str("tcp"), Str("https"), Var(Str("http"))}}
                   \cup {Param, Object(<<>>)}
  IN {Object(<<Property("listeners", v)>>) :
        v \in {Array(l) : l \in UNION {[1..n -> listeners] : n \in 0..2}} \cup {Var(Array(<<e>>)) : e \in listeners} \cup listeners}
     \cup {None, Param, Object(<<>>)}

=============================================================================

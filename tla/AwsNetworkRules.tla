-------------------------- MODULE AwsNetworkRules --------------------------
(***************************************************************************)
(* aws-restricted-ip-admin-access: administration ports open to every       *)
(* address.  An access rule can be written as a call of allowFrom or        *)
(* addIngressRule with a peer and a port, as allowFromAnyIpv4, as a default *)
(* port of Connections or as an ingress object of CloudFormation.  A state  *)
(* is one access rule; each callback reads it in its own form.              *)
(***************************************************************************)
EXTENDS Expressions

CONSTANTS
  Ports,       \* port numbers that are tried
  Wraps        \* ways to pass a value: direct, by variables or unknown

VARIABLES
  access,      \* [peer, protocol, from, to, wrap]; from and to are ports or Null
  visited,     \* forms that were checked
  reports      \* forms that were reported

vars == <<access, visited, reports>>

Null == -1

NaN == -2

badPorts == {22, 3389}

\* How a value of the access rule is written in the file.
Passed(e) == CASE access.wrap = "direct" -> e [] access.wrap = "variables" -> Var(Var(e)) [] OTHER -> Param

(***************************************************************************)
(* Reading a literal from an argument or a property.                        *)
(***************************************************************************)
getArgumentValue(e, position) ==
  LET call == getUniqueWriteUsageOrNode(e, TRUE)
  IN IF isUnresolved(e) \/ call.type \notin {"CallExpression", "NewExpression"} \/ position > Len(call.arguments) THEN None
     ELSE getUniqueWriteUsageOrNode(call.arguments[position], TRUE)

getPropertyValue(object, key) ==
  LET p == getProperty(object, key)
  IN IF ~IsFoundProperty(p) THEN None
     ELSE LET value == getUniqueWriteUsageOrNode(p.value, TRUE) IN IF value.type = "Literal" THEN value ELSE None

IsString(e, S) == isStringLiteral(e) /\ e.value[2] \in S

PortValue(e) == IF e.type = "Literal" /\ e.value[1] = "number" THEN e.value[2] ELSE Null

\* A number; an absent value is not a number.
parseInt(e) == IF e.type = "Literal" /\ e.value[1] = "number" THEN e.value[2] ELSE NaN

\* A comparison with NaN is false.
disallowedPort(start, end) ==
  IF start # Null /\ end # Null THEN {start, end} \subseteq Ports /\ \E p \in badPorts : p >= start /\ p <= end
  ELSE start # Null /\ start \in badPorts

(***************************************************************************)
(* Peers, ports and ingress objects.                                       *)
(***************************************************************************)
isBadEc2Peer(e) ==
  LET fqn == getFullyQualifiedName(e)
  IN \/ fqn \in {"Peer.anyIpv4", "Peer.anyIpv6"}
     \/ fqn = "Peer.ipv4" /\ IsString(getArgumentValue(e, 1), {"0.0.0.0/0"})
     \/ fqn = "Peer.ipv6" /\ IsString(getArgumentValue(e, 1), {"::/0"})

disallowedPortObject(e) ==
  LET object == IF e = None THEN None ELSE getValueOfExpression(e, "ObjectExpression", TRUE)
  IN /\ object # None
     /\ LET protocol == getProperty(object, "protocol")
        IN IF ~IsFoundProperty(protocol) THEN FALSE
           ELSE /\ getFullyQualifiedName(getUniqueWriteUsageOrNode(protocol.value, TRUE)) \in {"Protocol.ALL", "Protocol.TCP"}
                /\ disallowedPort(parseInt(getPropertyValue(object, "fromPort")), parseInt(getPropertyValue(object, "toPort")))

isBadEc2Port(e) ==
  LET fqn == getFullyQualifiedName(e)
  IN \/ fqn \in {"Port.allTcp", "Port.allTraffic"}
     \/ fqn = "Port.tcp" /\ disallowedPort(PortValue(getArgumentValue(e, 1)), Null)
     \/ fqn = "Port.tcpRange" /\ disallowedPort(PortValue(getArgumentValue(e, 1)), PortValue(getArgumentValue(e, 2)))
     \/ fqn = "Port" /\ disallowedPortObject(getArgumentValue(e, 1))

checkIngressObject(object) ==
  LET protocol == getPropertyValue(object, "ipProtocol")
  IN /\ \/ IsString(getPropertyValue(object, "cidrIp"), {"0.0.0.0/0"})
        \/ IsString(getPropertyValue(object, "cidrIpv6"), {"::/0"})
     /\ IsString(protocol, {"-1"}) \/ (IsString(protocol, {"6", "tcp", "TCP"})
          /\ disallowedPort(parseInt(getPropertyValue(object, "fromPort")), parseInt(getPropertyValue(object, "toPort"))))

(***************************************************************************)
(* The forms of an access rule.                                            *)
(***************************************************************************)
Peer ==
  CASE access.peer = "any4" -> Call("Peer.ipv4", <<Passed(Str("0.0.0.0/0"))>>)
    [] access.peer = "any6" -> Call("Peer.anyIpv6", <<>>)
    [] OTHER -> Call("Peer.ipv4", <<Passed(Str("10.0.0.0/8"))>>)

Bound(key, port) == IF port = Null THEN <<>> ELSE <<Property(key, Passed(Num(port)))>>

PortObject ==
  New("Port", <<Object(<<Property("protocol", Name(IF access.protocol = "tcp" THEN "Protocol.TCP" ELSE "Protocol.UDP"))>>
                       \o Bound("fromPort", access.from) \o Bound("toPort", access.to))>>)

Port ==
  IF access.protocol # "tcp" \/ access.from = Null THEN PortObject
  ELSE IF access.to = access.from THEN Call("Port.tcp", <<Passed(Num(access.from))>>)
  ELSE IF access.to = Null THEN PortObject
  ELSE Call("Port.tcpRange", <<Passed(Num(access.from)), Passed(Num(access.to))>>)

Ingress ==
  LET cidr == CASE access.peer = "any4" -> Property("cidrIp", Passed(Str("0.0.0.0/0")))
                [] access.peer = "any6" -> Property("cidrIpv6", Passed(Str("::/0")))
                [] OTHER -> Property("cidrIp", Passed(Str("10.0.0.0/8")))
  IN Object(<<cidr, Property("ipProtocol", Passed(Str(access.protocol)))>> \o Bound("fromPort", access.from) \o Bound("toPort", access.to))

(***************************************************************************)
(* The callbacks.                                                          *)
(***************************************************************************)
Init ==
  /\ access \in [peer : {"any4", "any6", "private"}, protocol : {"tcp", "udp"}, from : Ports \cup {Null},
                 to : Ports \cup {Null}, wrap : Wraps]
  /\ visited = {} /\ reports = {}

Visit(form, sensitive) ==
  /\ form \notin visited
  /\ visited' = visited \cup {form}
  /\ reports' = (IF sensitive THEN reports \cup {form} ELSE reports)
  /\ UNCHANGED access

checkAllowFrom == Visit("allowFrom", isBadEc2Port(Port) /\ isBadEc2Peer(Peer))

checkAllowFromObject == Visit("port object", isBadEc2Port(Var(PortObject)) /\ isBadEc2Peer(Var(Peer)))

checkAllowFromAnyIpv4 == access.peer = "any4" /\ Visit("anyIpv4", isBadEc2Port(Port))

\* The port of the connections is checked where a call uses it, when the peer is bad.
checkConstructorDefaultPort ==
  Visit("default port", isBadEc2Peer(Peer) /\ isBadEc2Port(getProperty(Object(<<Property("defaultPort", Port)>>), "defaultPort").value))

CfnSecurityGroup ==
  LET list == Array(<<Object(<<>>), Var(Ingress)>>)
  IN Visit("security group", \E i \in DOMAIN list.elements :
       checkIngressObject(getValueOfExpression(list.elements[i], "ObjectExpression", TRUE)))

CfnSecurityGroupIngress == Visit("ingress", checkIngressObject(Ingress))

Next ==
  \/ checkAllowFrom \/ checkAllowFromObject \/ checkAllowFromAnyIpv4
  \/ checkConstructorDefaultPort \/ CfnSecurityGroup \/ CfnSecurityGroupIngress
  \/ (visited # {} /\ UNCHANGED vars)

Spec == Init /\ [][Next]_vars

(***************************************************************************)
(* Properties.                                                             *)
(***************************************************************************)
OpensAdminPort ==
  /\ access.protocol = "tcp" /\ access.from # Null /\ access.to # Null /\ access.wrap # "unknown"
  /\ \E p \in badPorts : access.from <= p /\ p <= access.to

\* An access rule is reported exactly when it opens an administration port to every
\* address, in whatever form it is written (checkAllowFrom, checkIngressObject and the
\* others all read the range their own way).
AdminPortsOpenToAllAreReported ==
  \A f \in visited : f \in reports <=> (access.peer # "private" /\ OpensAdminPort)

\* No report rests on a value the file does not show (getArgument, getPropertyValue).
UnknownRulesAreSpared == access.wrap = "unknown" => reports = {}

=============================================================================

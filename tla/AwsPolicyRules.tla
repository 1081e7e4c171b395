--------------------------- MODULE AwsPolicyRules ---------------------------
(***************************************************************************)
(* The rules on IAM policy statements (helpers/aws/iam.ts and the four      *)
(* aws-iam rules).  A statement is written in three forms, as the options   *)
(* of new PolicyStatement, as the JSON of PolicyStatement.fromJson and in   *)
(* the JSON of PolicyDocument.fromJson; the rules check each of them.       *)
(***************************************************************************)
EXTENDS Expressions

CONSTANTS
  Effects,      \* what a statement says of its effect: allow, deny, default or unknown
  Lists,        \* actions and resources, as expressions
  Principals,   \* principals: [public, options, json]
  Conditions    \* whether the statement has a condition

VARIABLES
  statement,    \* [effect, actions, resources, principal, condition]
  form,         \* the form that is checked next
  reports       \* [form, rule] of the issues

vars == <<statement, form, reports>>

Forms == <<"statement", "statement json", "document json">>

RuleNames == {"privileges", "resources", "escalation", "public"}

(***************************************************************************)
(* The two vocabularies, and a statement written with one of them.          *)
(***************************************************************************)
PROPERTIES_OPTIONS ==
  [effect |-> "effect", allowValue |-> Name("ALLOW"), denyValue |-> Name("DENY"), actions |-> "actions",
   resources |-> "resources", conditions |-> "conditions", principals |-> "principals", json |-> FALSE]

JSON_OPTIONS ==
  [effect |-> "Effect", allowValue |-> Str("Allow"), denyValue |-> Str("Deny"), actions |-> "Action",
   resources |-> "Resource", conditions |-> "Condition", principals |-> "Principal", json |-> TRUE]

Entry(key, value) == IF value = None THEN <<>> ELSE <<Property(key, value)>>

Written(s, options) ==
  LET effect == CASE s.effect = "allow" -> options.allowValue
                  [] s.effect = "allow in a variable" -> Var(Var(options.allowValue))
                  [] s.effect = "deny" -> options.denyValue
                  [] s.effect = "default" -> None
                  [] OTHER -> Param
  IN Object(Entry(options.effect, effect) \o Entry(options.actions, s.actions) \o Entry(options.resources, s.resources)
            \o Entry(options.principals, IF options.json THEN s.principal.json ELSE s.principal.options)
            \o Entry(options.conditions, IF s.condition THEN Object(<<>>) ELSE None))

(***************************************************************************)
(* The checkers of a statement.                                            *)
(***************************************************************************)
getSensitiveEffect(properties, options) ==
  filterResult(propertyOf(properties, options.effect),
    LAMBDA n : IF options.json THEN n = options.allowValue
               ELSE getFullyQualifiedName(n) = options.allowValue.fqn)

MayAllow(effect) == isMissing(effect) \/ isFound(effect)

isAnyLiteral(v) == v = "*"

HasLiteral(r, test(_)) == \E v \in ToSet(asStringLiterals(r)) : test(v)

allPrivilegesStatementChecker(expr, options) ==
  LET properties == getResultOfExpression(expr)
  IN /\ MayAllow(getSensitiveEffect(properties, options))
     /\ HasLiteral(propertyOf(properties, options.actions), isAnyLiteral)

\* Actions that start with the KMS prefix.
isKmsAction(v) == v \in {"kms:Encrypt", "kms:*"}

isException(properties, options) == everyStringLiteral(propertyOf(properties, options.actions), isKmsAction)

allResourcesAccessibleStatementCheck(expr, options) ==
  LET properties == getResultOfExpression(expr)
  IN /\ ~isException(properties, options)
     /\ MayAllow(getSensitiveEffect(properties, options))
     /\ HasLiteral(propertyOf(properties, options.resources), isAnyLiteral)

\* Members of SENSITIVE_ACTIONS and strings that match SENSITIVE_RESOURCE.
isSensitiveAction(v) == v \in {"iam:PassRole", "sts:AssumeRole"}

isSensitiveResource(v) == v \in {"*", "arn:aws:iam::1:role/*"}

hasExceptionProperties(properties, options) ==
  \E key \in {options.principals, options.conditions} : ~isMissing(propertyOf(properties, key))

privilegeEscalationStatementChecker(expr, options) ==
  LET properties == getResultOfExpression(expr)
  IN /\ ~hasExceptionProperties(properties, options)
     /\ MayAllow(getSensitiveEffect(properties, options))
     /\ HasLiteral(propertyOf(properties, options.resources), isSensitiveResource)
     /\ HasLiteral(propertyOf(properties, options.actions), isSensitiveAction)

\* Any principal built from "*", whatever its class, and the two classes that mean everyone.
isSensitivePrincipalNewExpression(e) ==
  \/ e.fqn \in {"StarPrincipal", "AnyPrincipal"}
  \/ Len(e.arguments) > 0 /\ e.arguments[1] = Str("*")

getPrincipalLiterals(node) ==
  IF isStringLiteral(node) THEN <<node.value[2]>>
  ELSE asStringLiterals(propertyOf(getResultOfExpression(node), "AWS"))

publicAccessStatementChecker(expr, options) ==
  LET properties == getResultOfExpression(expr)
      principal == propertyOf(properties, options.principals)
      sensitive == IF ~isFound(principal) THEN FALSE
                   ELSE IF options.json THEN \E v \in ToSet(getPrincipalLiterals(principal.node)) : isAnyLiteral(v)
                   ELSE /\ principal.node.type = "ArrayExpression"
                        /\ \E e \in ToSet(principal.node.elements) : e.type = "NewExpression" /\ isSensitivePrincipalNewExpression(e)
  IN sensitive /\ MayAllow(getSensitiveEffect(properties, options))

statementChecker(rule, expr, options) ==
  CASE rule = "privileges" -> allPrivilegesStatementChecker(expr, options)
    [] rule = "resources" -> allResourcesAccessibleStatementCheck(expr, options)
    [] rule = "escalation" -> privilegeEscalationStatementChecker(expr, options)
    [] rule = "public" -> publicAccessStatementChecker(expr, options)

policyStatementChecker(rule, call, options) ==
  LET properties == getArgument(getResultOfExpression(call), 1)
  IN isFound(properties) /\ statementChecker(rule, properties.node, options)

\* The statements of a document, in an array or alone.
policyDocumentChecker(rule, call, options) ==
  LET statements == propertyOf(getArgument(getResultOfExpression(call), 1), "Statement")
  IN isFound(statements) /\ \E s \in ToSet(Elements(statements)) : statementChecker(rule, s.node, options)

(***************************************************************************)
(* The callbacks of AwsIamPolicyTemplate, one form after the other.         *)
(***************************************************************************)
Init ==
  /\ statement \in [effect : Effects, actions : Lists, resources : Lists, principal : Principals, condition : Conditions]
  /\ form = 1 /\ reports = {}

Report(test(_)) == reports' = reports \cup {[form |-> Forms[form], rule |-> r] : r \in {q \in RuleNames : test(q)}}

PolicyStatement ==
  /\ form = 1
  /\ Report(LAMBDA r : policyStatementChecker(r, New("PolicyStatement", <<Written(statement, PROPERTIES_OPTIONS)>>), PROPERTIES_OPTIONS))
  /\ form' = 2 /\ UNCHANGED statement

PolicyStatementFromJson ==
  /\ form = 2
  /\ Report(LAMBDA r : policyStatementChecker(r, Call("fromJson", <<Written(statement, JSON_OPTIONS)>>), JSON_OPTIONS))
  /\ form' = 3 /\ UNCHANGED statement

\* The statement is the second one of the document.
PolicyDocumentFromJson ==
  /\ form = 3
  /\ LET document == Object(<<Property("Statement", Array(<<Object(<<>>), Var(Written(statement, JSON_OPTIONS))>>))>>)
     IN Report(LAMBDA r : policyDocumentChecker(r, Call("fromJson", <<document>>), JSON_OPTIONS))
  /\ form' = 4 /\ UNCHANGED statement

Next == PolicyStatement \/ PolicyStatementFromJson \/ PolicyDocumentFromJson \/ (form = 4 /\ UNCHANGED vars)

Spec == Init /\ [][Next]_vars

(***************************************************************************)
(* Properties.                                                             *)
(***************************************************************************)
ReportedIn(i) == {r.rule : r \in {q \in reports : q.form = Forms[i]}}

\* A statement is judged the same in each of its forms (policyStatementChecker and
\* policyDocumentChecker with the two vocabularies of iam.ts).
FormsAgree == form = 4 => ReportedIn(1) = ReportedIn(2) /\ ReportedIn(2) = ReportedIn(3)

Literals(e) ==
  IF e = None THEN {}
  ELSE IF e.type = "ArrayExpression" THEN {getUniqueWriteUsageOrNode(e.elements[i], TRUE) : i \in DOMAIN e.elements}
  ELSE {getUniqueWriteUsageOrNode(e, TRUE)}

Grants == statement.effect \in {"allow", "allow in a variable", "default"}

\* A statement whose effect is denied or cannot be known is never reported, one that grants
\* every action always is (getSensitiveEffect).
OnlyGrantsAreReported ==
  form > 1 => /\ ReportedIn(1) # {} => Grants
              /\ Grants /\ Str("*") \in Literals(statement.actions) => "privileges" \in ReportedIn(1)

\* All resources may be granted for KMS actions, and for nothing that goes with them.
OnlyKmsIsExcused ==
  form > 1 /\ Grants /\ Str("*") \in Literals(statement.resources) =>
    ("resources" \in ReportedIn(1) <=>
       statement.actions = None \/ \E a \in Literals(statement.actions) : a \notin {Str("kms:Encrypt"), Str("kms:*")})

\* A statement for everyone is reported, one for known principals is not
\* (getSensitivePrincipal).
PublicStatementsAreReported ==
  form > 1 /\ Grants => ("public" \in ReportedIn(1) <=> statement.principal.public)

-----------------------------------------------------------------------------
\* Statements for the run of AwsPolicyRules.

MCEffects == {"allow", "allow in a variable", "deny", "default", "unknown"}

MCLists ==
  {None, Param, Str("*"), Var(Str("*")), Str("kms:Encrypt"), Str("iam:PassRole"), Str("arn:aws:iam::1:role/*"),
   Array(<<Str("kms:*"), Var(Str("kms:Encrypt"))>>), Array(<<Str("kms:*"), Str("iam:PassRole")>>), Array(<<Str("s3:Get"), Str("*")>>)}

Nobody == [public |-> FALSE, options |-> None, json |-> None]

MCPrincipals ==
  {Nobody,
   [public |-> TRUE, options |-> Array(<<New("StarPrincipal", <<>>)>>), json |-> Str("*")],
   [public |-> TRUE, options |-> Array(<<New("AccountPrincipal", <<Str("1")>>), New("ArnPrincipal", <<Str("*")>>)>>),
    json |-> Object(<<Property("AWS", Array(<<Str("1"), Str("*")>>))>>)],
   [public |-> FALSE, options |-> Array(<<New("ArnPrincipal", <<Str("1")>>)>>), json |-> Object(<<Property("AWS", Str("1"))>>)]}

=============================================================================

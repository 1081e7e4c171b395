----------------------------- MODULE Expressions -----------------------------
(***************************************************************************)
(* Expressions of a program as the rules see them, and the helpers that     *)
(* find out what an expression stands for (helpers/ast.ts, helpers/         *)
(* result.ts, helpers/module.ts).  An identifier carries what the scope     *)
(* analysis knows of its variable: one write, several, or none.  Names of   *)
(* imported values are normalised fully qualified names.                    *)
(***************************************************************************)
EXTENDS Integers, Sequences, FiniteSets, SequencesExt

None == [type |-> "none"]

Str(v) == [type |-> "Literal", value |-> <<"string", v>>]

Bool(v) == [type |-> "Literal", value |-> <<"boolean", v>>]

Num(v) == [type |-> "Literal", value |-> <<"number", v>>]

\* A variable that is written once, and identifiers whose value is not known.
Var(e) == [type |-> "Identifier", writes |-> "one", expr |-> e]

Param == [type |-> "Identifier", writes |-> "none"]

Reassigned == [type |-> "Identifier", writes |-> "several"]

Undefined == [type |-> "Identifier", writes |-> "undefined"]

Name(fqn) == [type |-> "MemberExpression", fqn |-> fqn]

Property(key, value) == [entry |-> "Property", key |-> key, value |-> value]

Quoted(key, value) == [entry |-> "Quoted", key |-> key, value |-> value]

Spread(value) == [entry |-> "SpreadElement", value |-> value]

Object(entries) == [type |-> "ObjectExpression", properties |-> entries]

Array(elements) == [type |-> "ArrayExpression", elements |-> elements]

New(fqn, args) == [type |-> "NewExpression", fqn |-> fqn, arguments |-> args]

Function(body) == [type |-> "FunctionExpression", body |-> body]

Binary(left, right) == [type |-> "BinaryExpression", left |-> left, right |-> right]

NullLiteral == [type |-> "Literal", value |-> <<"object", "null">>]

Call(fqn, args) == [type |-> "CallExpression", fqn |-> fqn, arguments |-> args]

(***************************************************************************)
(* helpers/ast.ts.                                                         *)
(***************************************************************************)
isUndefined(e) == e.type = "Identifier" /\ e.writes = "undefined"

isStringLiteral(e) == e.type = "Literal" /\ e.value[1] = "string"

HasUniqueWrite(e) == e.type = "Identifier" /\ e.writes = "one"

RECURSIVE getUniqueWriteUsageOrNode(_, _)
getUniqueWriteUsageOrNode(e, recursive) ==
  IF ~HasUniqueWrite(e) THEN e
  ELSE IF recursive THEN getUniqueWriteUsageOrNode(e.expr, TRUE)
  ELSE e.expr

\* The expression or the one its variable is written with, if it has the type.
getValueOfExpression(e, type, recursive) ==
  IF e.type = type THEN e
  ELSE LET value == getUniqueWriteUsageOrNode(e, recursive) IN IF value.type = type THEN value ELSE None

\* A name that leads to an import; a call or an instance has the name of its callee.
RECURSIVE getFullyQualifiedName(_)
getFullyQualifiedName(e) ==
  CASE e.type \in {"MemberExpression", "NewExpression", "CallExpression"} -> e.fqn
    [] HasUniqueWrite(e) -> getFullyQualifiedName(e.expr)
    [] isUndefined(e) -> "undefined"
    [] OTHER -> "none"

\* A name without import whose variable is never written, or a member of one.
isUnresolved(e) ==
  /\ e.type \in {"Identifier", "MemberExpression"}
  /\ getFullyQualifiedName(e) = "none"
  /\ e.type = "Identifier" => e.writes = "none"

IsKey(entry, key) == entry.entry \in {"Property", "Quoted"} /\ entry.key = key

Missing == [entry |-> "null"]

Unsure == [entry |-> "undefined"]

\* The last plain entry for the key.
getPropertyPlain(object, key) ==
  LET found == {i \in DOMAIN object.properties : IsKey(object.properties[i], key)}
  IN IF found = {} THEN Missing ELSE object.properties[CHOOSE i \in found : \A j \in found : j <= i]

\* The last entry for the key; null when there is none, undefined when a spread may hold one.
RECURSIVE getProperty(_, _)
getProperty(object, key) ==
  LET spread(last, props) ==
        IF props = None THEN IF last = Missing THEN Unsure ELSE last
        ELSE LET prop == getProperty(props, key) IN IF prop = Missing THEN last ELSE prop
      step(last, entry) ==
        IF IsKey(entry, key) THEN entry
        ELSE IF entry.entry # "SpreadElement" THEN last
        ELSE spread(last, getValueOfExpression(entry.value, "ObjectExpression", FALSE))
  IN FoldLeft(step, Missing, object.properties)

\* The last entry for the key, of an object literal; spreads are not looked at.
getObjectExpressionProperty(e, key) ==
  IF e.type # "ObjectExpression" THEN Missing ELSE getPropertyPlain(e, key)

\* The property, if its literal or the one of its variable is the value.
getPropertyWithValue(object, key, value) ==
  LET p == getObjectExpressionProperty(object, key)
  IN IF p = Missing THEN Missing
     ELSE IF getValueOfExpression(p.value, "Literal", FALSE) = value THEN p ELSE Missing

IsFoundProperty(p) == p \notin {Missing, Unsure}

(***************************************************************************)
(* helpers/result.ts.                                                      *)
(***************************************************************************)
Result(status, node) == [status |-> status, node |-> node]

\* Mutant: undefined counts as a value.
getResultOfAnything(e) == Result("found", getUniqueWriteUsageOrNode(e, TRUE))

getResultOfExpression(e) ==
  LET value == getUniqueWriteUsageOrNode(e, TRUE)
  IN Result(IF isUndefined(value) THEN "missing" ELSE "found", value)

isFound(r) == r.status = "found"

isMissing(r) == r.status = "missing"

isTrue(r) == isFound(r) /\ r.node = Bool("true")

getArgument(r, position) ==
  IF ~isFound(r) THEN r
  ELSE IF r.node.type \notin {"NewExpression", "CallExpression"} THEN Result("unknown", r.node)
  ELSE IF position > Len(r.node.arguments) THEN Result("missing", r.node)
  ELSE getResultOfExpression(r.node.arguments[position])

propertyOf(r, key) ==
  IF ~isFound(r) THEN r
  ELSE IF r.node.type # "ObjectExpression" THEN Result("unknown", r.node)
  ELSE LET p == getProperty(r.node, key)
       IN IF p = Unsure THEN Result("unknown", r.node)
          ELSE IF p = Missing THEN Result("missing", r.node)
          ELSE getResultOfExpression(p.value)

\* The first element that the closure finds.
findInArray(r, closure(_)) ==
  IF ~isFound(r) THEN r
  ELSE IF r.node.type # "ArrayExpression" THEN Result("unknown", r.node)
  ELSE LET results == [i \in DOMAIN r.node.elements |-> closure(getResultOfExpression(r.node.elements[i]))]
           found == {i \in DOMAIN results : isFound(results[i])}
       IN IF found # {} THEN results[CHOOSE i \in found : \A j \in found : i <= j]
          ELSE Result(IF \A i \in DOMAIN results : isMissing(results[i]) THEN "missing" ELSE "unknown", r.node)

Elements(r) ==
  IF ~isFound(r) THEN <<>>
  ELSE IF r.node.type = "ArrayExpression"
       THEN [i \in DOMAIN r.node.elements |-> getResultOfExpression(r.node.elements[i])]
  ELSE <<r>>

IsLiteralResult(r) == isFound(r) /\ isStringLiteral(r.node)

\* Of a string, or of an array of strings only.
everyStringLiteral(r, closure(_)) ==
  /\ isFound(r)
  /\ isStringLiteral(r.node) \/ r.node.type = "ArrayExpression"
  /\ \A e \in ToSet(Elements(r)) : IsLiteralResult(e) /\ closure(e.node.value[2])

asStringLiterals(r) ==
  LET literals == SelectSeq(Elements(r), IsLiteralResult)
  IN [i \in DOMAIN literals |-> literals[i].node.value[2]]

filterResult(r, closure(_)) ==
  IF isFound(r) /\ ~closure(r.node) THEN Result("unknown", r.node) ELSE r

-----------------------------------------------------------------------------
(***************************************************************************)
(* What an expression is when the program runs: its possible values and     *)
(* those of a property, AnyValue for a value the file does not show.  A     *)
(* spread of unknown contents may add or override a setting.  The rules do  *)
(* not compute this: their reports are compared with it.                    *)
(***************************************************************************)

AnyValue == [type |-> "any"]

Absent == [type |-> "absent"]

RECURSIVE Values(_)
Values(e) ==
  CASE e.type # "Identifier" -> {e}
    [] HasUniqueWrite(e) -> Values(e.expr)
    [] isUndefined(e) -> {None}
    [] OTHER -> {AnyValue}

\* The values of a property after all the entries.
RECURSIVE Settings(_, _)
Settings(e, key) ==
  IF e.type # "ObjectExpression" THEN {IF e = AnyValue THEN AnyValue ELSE Absent}
  ELSE LET step(values, entry) ==
             IF IsKey(entry, key) THEN Values(entry.value)
             ELSE IF entry.entry # "SpreadElement" THEN values
             ELSE LET own == UNION {Settings(o, key) : o \in Values(entry.value)}
                  IN IF own = {Absent} THEN values
                     ELSE IF AnyValue \in own THEN own \cup (values \ {Absent})
                     ELSE own
       IN FoldLeft(step, {Absent}, e.properties)

PropertyValues(e, key) == {IF v = Absent THEN None ELSE v : v \in Settings(e, key)}

PathValues(e, path) ==
  LET first == UNION {PropertyValues(o, path[1]) : o \in Values(e)}
  IN IF Len(path) = 1 THEN first ELSE UNION {PropertyValues(o, path[2]) : o \in first}

=============================================================================

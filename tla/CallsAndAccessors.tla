--------------------------- MODULE CallsAndAccessors ---------------------------
(***************************************************************************)
(* Names that must agree: the arguments of a call with the parameters of    *)
(* the function (arguments-order), and the field an accessor uses with its  *)
(* own name (no-accessor-field-mismatch).                                   *)
(***************************************************************************)
EXTENDS Integers, Sequences, FiniteSets, SequencesExt

CONSTANTS
  Calls,         \* calls: [args, params, types, ifs]; "" for what is no identifier
  FieldLists,    \* fields of classes and objects, in the order of the text
  Accessors,     \* accessors: [name, kind, public, statements, used]
  MaxAccessors   \* bound on the accessors of a file

VARIABLES
  call,                \* the call that was checked, and its issue
  fieldStack,          \* the fields of the bodies the visitor is in
  currentFieldsStack,  \* the maps from names to fields
  accessors            \* accessors that were checked, with the fields around them

vars == <<call, fieldStack, currentFieldsStack, accessors>>

NoIssue == <<>>

(***************************************************************************)
(* arguments-order.  A test of an if statement is a pair of the names of    *)
(* the two sides of a comparison; ifs lists the enclosing ones, the         *)
(* innermost last.                                                          *)
(***************************************************************************)
\* normalizeType takes the types of objects and of literals for the same.
normalizeType(type) == CASE type = "String" -> "string" [] type = "Boolean" -> "boolean" [] type = "Number" -> "number" [] OTHER -> type

\* Unknown types are compatible.
haveCompatibleTypes(c, i, j) == IF c.types = <<>> THEN TRUE ELSE normalizeType(c.types[i]) = normalizeType(c.types[j])

\* The first parameter with a name, 0 for none.
FirstIndex(params, name) ==
  LET found == {k \in DOMAIN params : params[k] = name} IN IF found = {} THEN 0 ELSE CHOOSE k \in found : \A j \in found : k <= j

\* The name of the argument at the place of args[i], if it belongs to the place i.
getSwappedArgumentName(c, i) ==
  LET j == FirstIndex(c.params, c.args[i]) IN
  IF j > 0 /\ j # i /\ j <= Len(c.args) /\ i <= Len(c.params)
  THEN IF c.args[j] # "" /\ c.args[j] = c.params[i] /\ haveCompatibleTypes(c, i, j) THEN c.args[j] ELSE ""
  ELSE ""

\* The innermost if statement; both sides have one of the names.
areComparedArguments(c, names) == c.ifs # <<>> /\ \A side \in {1, 2} : Last(c.ifs)[side] \in names

Issues(c) ==
  {i \in DOMAIN c.args :
     /\ c.args[i] # ""
     /\ getSwappedArgumentName(c, i) # ""
     /\ ~areComparedArguments(c, {c.args[i], getSwappedArgumentName(c, i)})}

\* The first issue ends the loop.
checkArguments(c) ==
  IF Issues(c) = {} THEN NoIssue
  ELSE LET i == CHOOSE k \in Issues(c) : \A j \in Issues(c) : k <= j IN <<c.args[i], getSwappedArgumentName(c, i)>>

CallExpression ==
  /\ call = <<>> /\ fieldStack = <<>> /\ accessors = {}
  /\ \E c \in Calls : call' = <<c, checkArguments(c)>>
  /\ UNCHANGED <<fieldStack, currentFieldsStack, accessors>>

(***************************************************************************)
(* no-accessor-field-mismatch.  A name has a base, a spelling (upper: with  *)
(* capitals) and perhaps an underscore; a field is a property ("static" is  *)
(* none) or a parameter of the constructor.                                 *)
(***************************************************************************)
toLowerCase(name) == [name EXCEPT !.upper = FALSE]

RECURSIVE getFieldMap(_)

\* The last field with a name wins.
getFieldMap(fields) ==
  IF fields = <<>> THEN {}
  ELSE LET f == Last(fields) IN
       {e \in getFieldMap(Front(fields)) : e.key # toLowerCase(f.name)} \cup {[key |-> toLowerCase(f.name), field |-> f.name]}

\* The parameters of a constructor keep their spelling.
fieldsDeclaredInConstructorParameters(fields) == {[key |-> f.name, field |-> f.name] : f \in {g \in ToSet(fields) : g.from = "constructor"}}

allFields(fields) ==
  LET own == getFieldMap(SelectSeq(fields, LAMBDA f : f.from = "property"))
      fromConstructor == fieldsDeclaredInConstructorParameters(fields)
  IN {e \in own : \A g \in fromConstructor : g.key # e.key} \cup fromConstructor

EnterBody(fields) ==
  /\ call = <<>> /\ Len(fieldStack) < 2
  /\ fieldStack' = Append(fieldStack, fields)
  /\ currentFieldsStack' = Append(currentFieldsStack, allFields(fields))
  /\ UNCHANGED <<call, accessors>>

ExitBody ==
  /\ fieldStack # <<>>
  /\ fieldStack' = Front(fieldStack)
  /\ currentFieldsStack' = Front(currentFieldsStack)
  /\ UNCHANGED <<call, accessors>>

\* The name of the accessor in lower case, without get or set for a method.
getAccessorInfo(accessor) == toLowerCase(accessor.name)

Spellings(name) == {[name EXCEPT !.underscore = u] : u \in {"no", "before", "after"}}

findMatchingFields(fields, name) == {e.field : e \in {g \in fields : g.key \in Spellings(name)}}

\* A body that uses no field of this in the expected way counts as using the right one.
isUsingAccessorFieldInBody(accessor, fields) == accessor.used = {} \/ \E field \in fields : field \in accessor.used

checkAccessor(accessor) ==
  LET fields == findMatchingFields(Last(currentFieldsStack), getAccessorInfo(accessor)) IN
  /\ accessor.public /\ accessor.statements <= 1
  /\ fields # {}
  /\ accessor.statements = 0 \/ ~isUsingAccessorFieldInBody(accessor, fields)

VisitAccessor ==
  /\ fieldStack # <<>> /\ Cardinality(accessors) < MaxAccessors
  /\ \E accessor \in Accessors : accessors' = accessors \cup {[accessor |-> accessor, fields |-> ToSet(Last(fieldStack)), reported |-> checkAccessor(accessor)]}
  /\ UNCHANGED <<call, fieldStack, currentFieldsStack>>

Done == (call # <<>> \/ fieldStack = <<>>) /\ UNCHANGED vars

Init == call = <<>> /\ fieldStack = <<>> /\ currentFieldsStack = <<{}>> /\ accessors = {}

Next ==
  \/ CallExpression
  \/ \E fields \in FieldLists : EnterBody(fields)
  \/ ExitBody \/ VisitAccessor \/ Done

Spec == Init /\ [][Next]_vars

(***************************************************************************)
(* Properties.                                                              *)
(***************************************************************************)
\* Two arguments are swapped: each one has the name of the parameter of the other.
Swapped(c, i, j) ==
  /\ i # j /\ c.args[i] # "" /\ c.args[j] # ""
  /\ i <= Len(c.params) /\ j <= Len(c.params) /\ c.args[i] = c.params[j] /\ c.args[j] = c.params[i]

\* An issue of arguments-order names two arguments that would both have the name of their parameter
\* if they were exchanged.
ExchangingArgumentsHelps ==
  call # <<>> =>
    LET c == call[1] issue == call[2] IN
    issue # NoIssue => \E i, j \in DOMAIN c.args : Swapped(c, i, j) /\ issue = <<c.args[i], c.args[j]>>

\* A call is reported if two arguments of one type are swapped and no enclosing if compares them.
SwappedArgumentsAreReported ==
  call # <<>> =>
    LET c == call[1] IN
    call[2] = NoIssue => \A i, j \in DOMAIN c.args :
      Swapped(c, i, j) /\ haveCompatibleTypes(c, i, j) => \E k \in DOMAIN c.ifs : {c.ifs[k][1], c.ifs[k][2]} = {c.args[i], c.args[j]}

\* Arguments that an enclosing if statement compares are not reported.
ComparedArgumentsAreIgnored ==
  call # <<>> => LET c == call[1] IN call[2] # NoIssue => \A k \in DOMAIN c.ifs : {c.ifs[k][1], c.ifs[k][2]} # {call[2][1], call[2][2]}

\* An accessor that uses a field of its own class with its name is not reported, whatever classes
\* and objects stand between them.
ReportedAccessorsMissTheirField ==
  \A a \in accessors : a.reported /\ a.accessor.statements = 1 =>
    \A f \in a.fields : f.from # "static" /\ toLowerCase(f.name) \in Spellings(toLowerCase(a.accessor.name)) => f.name \notin a.accessor.used

\* An accessor that uses another field although there is one with its name is reported.
MismatchesAreReported ==
  \A a \in accessors :
    LET matching == {f.name : f \in {g \in a.fields : g.from # "static" /\ toLowerCase(g.name) \in Spellings(toLowerCase(a.accessor.name))}} IN
    a.accessor.public /\ a.accessor.statements = 1 /\ a.accessor.used # {} /\ matching # {} /\ a.accessor.used \cap matching = {} => a.reported

-----------------------------------------------------------------------------
\* Calls, fields and accessors for the runs of CallsAndAccessors.

Call(args, params, types, ifs) == [args |-> args, params |-> params, types |-> types, ifs |-> ifs]

ArgumentNames == {"a", "b", "c", ""}

ParameterLists == {<<"a", "b">>, <<"a", "b", "c">>, <<"a", "", "b">>, <<"a">>}

ManyCalls ==
  {Call(args, params, types, ifs) : args \in [1..3 -> ArgumentNames] \cup [1..2 -> ArgumentNames], params \in ParameterLists,
     types \in {<<>>, <<"string", "String", "number">>}, ifs \in {<<>>, <<<<"a", "b">>>>, <<<<"c", "a">>>>}}

FewCalls == {Call(<<"b", "a">>, <<"a", "b">>, <<>>, <<>>)}

NestedIfs == {Call(<<"b", "a">>, <<"a", "b">>, <<>>, ifs) : ifs \in {<<<<"a", "b">>, <<"c", "d">>>>}}

OneSidedIfs == {Call(<<"b", "a">>, <<"a", "b">>, <<>>, ifs) : ifs \in {<<<<"a", "a">>>>}}

Name(base, upper, underscore) == [base |-> base, upper |-> upper, underscore |-> underscore]

Field(name, from) == [name |-> name, from |-> from]

X == Name("x", FALSE, "no")
UpperX == Name("x", TRUE, "no")
X_ == Name("x", FALSE, "before")
Y == Name("y", FALSE, "no")

Accessor(name, public, statements, used) == [name |-> name, public |-> public, statements |-> statements, used |-> used]

SomeAccessors ==
  {Accessor(name, public, statements, used) : name \in {X, UpperX, Y}, public \in BOOLEAN, statements \in 0..2, used \in {{}, {X}, {X_}, {Y}}}

FewAccessors == {Accessor(X, TRUE, 1, used) : used \in {{X}, {Y}}}

Fields == {<<Field(X, "property"), Field(X_, "property"), Field(Y, "property")>>, <<Field(Y, "property"), Field(X, "static")>>, <<Field(X_, "constructor")>>, <<>>}

TwoSpellings == {<<Field(X, "property"), Field(UpperX, "property")>>}

UpperParameter == {<<Field(UpperX, "constructor"), Field(Y, "property")>>}

=============================================================================

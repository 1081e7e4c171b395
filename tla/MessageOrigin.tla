----------------------------- MODULE MessageOrigin -----------------------------
(***************************************************************************)
(* The listeners of the rule post-message.  A listener of message events    *)
(* reads its event at several places, the rule goes through the references   *)
(* of the event and, where one is joined with event.originalEvent into a     *)
(* variable, through the references of that, until one is verified.          *)
(***************************************************************************)
EXTENDS Integers, Sequences, SequencesExt

CONSTANTS
  Places,        \* where statements stand, see Branches and Tests
  Listeners,     \* how the listener is given: "function", "name", "constant" or "calling"
  Fallbacks,     \* whether the event is joined with something that is not a member expression
  BlockScoped,   \* whether variables belong to a block or a nested function
  DataReads,     \* whether the data of the joined event is compared
  MaxStatements  \* bound on the statements of a listener

Branches == {"body"}

\* In the body of an if are "body", "innerTest", the test of another if, and "function", in a
\* nested function, with "functionTest", the test of an if in that.
Tests == {"test", "innerTest", "functionTest"}

PlacesAssumption == Places \subseteq {"top", "body", "function"} \cup Tests

VARIABLES
  statements,  \* what the listener does
  result       \* "none", "verified", "reported", "crash" or "unresolved"

vars == <<statements, result>>

\* A reference of the event: in event.origin, event.originalEvent.origin or event.data.
EventReads == [kind : {"read"}, of : {"origin", "originalOrigin", "data"}, place : Places]

\* event || event.originalEvent, event.origin || event.originalEvent.origin, event || fallback.
Unions ==
  [kind : {"or"}, of : {"event", "origin"} \cup (IF Fallbacks THEN {"fallback"} ELSE {}),
   place : Places, into : {"none"}]
  \cup [kind : {"or"}, of : {"event", "origin"}, place : Places \ Tests, into : {"var", "const"}]

\* A reference of the variable an union of the kind is written into.
VariableReads ==
  [kind : {"variable"}, of : {"event"}, read : {"origin"} \cup (IF DataReads THEN {"data"} ELSE {}), place : Places]
  \cup [kind : {"variable"}, of : {"origin"}, read : {"origin"}, place : Places]

Declaration(of) == SelectSeq(statements, LAMBDA s : s.kind = "or" /\ s.of = of /\ s.into # "none")

\* The places where a variable is seen.
Seen(declaration) ==
  CASE declaration.place = "function" -> {"function", "functionTest"}
    [] declaration.place = "body" /\ declaration.into = "const" -> {"body", "innerTest"}
    [] OTHER -> Places

Allowed(s) ==
  CASE s.kind = "variable" -> Declaration(s.of) # <<>> /\ s.place \in Seen(Declaration(s.of)[1])
    [] s.kind = "or" /\ s.into # "none" ->
         Declaration(s.of) = <<>> /\ (BlockScoped \/ s.place = "top" \/ (s.place = "body" /\ s.into = "var"))
    [] OTHER -> TRUE

Write(s) ==
  /\ result = "none" /\ Len(statements) < MaxStatements /\ Allowed(s)
  /\ statements' = Append(statements, s)
  /\ UNCHANGED result

---------------------------------------------------------------------------
isInIfStatement(place) == place \in Branches \cup Tests

\* The variables of the scope of the listener.
InScope(declaration) == declaration.place = "top" \/ (declaration.place = "body" /\ declaration.into = "var")

\* The declaration is a reference too, and no property is looked at.
checkReference(declaration) ==
  /\ InScope(declaration)
  /\ \/ isInIfStatement(declaration.place)
     \/ \E i \in DOMAIN statements :
          statements[i].kind = "variable" /\ statements[i].of = declaration.of /\ isInIfStatement(statements[i].place)

\* event.origin, an operand of || too.
isEventOriginCompared(s) == s.kind \in {"read", "or"} /\ s.of = "origin" /\ isInIfStatement(s.place)

isEventOriginalEventCompared(s) == s.kind = "read" /\ s.of = "originalOrigin" /\ isInIfStatement(s.place)

extractVariableDeclaratorIfExists(s) == s.kind = "or" /\ s.into # "none"

Verifies(s) ==
  \/ isEventOriginCompared(s) \/ isEventOriginalEventCompared(s)
  \/ extractVariableDeclaratorIfExists(s) /\ checkReference(s)

\* isEventOriginalEvent reads a property of the object of an operand that has none.
Throws(s) == s.kind = "or" /\ s.of = "fallback"

hasVerifiedOrigin(body) ==
  LET stops == SelectSeq(body, LAMBDA s : Verifies(s) \/ Throws(s))
  IN CASE stops = <<>> -> "reported"
       [] stops # <<>> /\ Throws(Head(stops)) -> "crash"
       [] OTHER -> "verified"

\* resolveFunction knows functions and names of function declarations, and no call.
resolveFunction(listener) == listener \in {"function", "name"}

checkAddEventListenerCall(listener) ==
  /\ result = "none"
  /\ result' = IF resolveFunction(listener) THEN hasVerifiedOrigin(statements) ELSE "unresolved"
  /\ UNCHANGED statements

Init == statements = <<>> /\ result = "none"

Done == result # "none" /\ UNCHANGED vars

Next ==
  \/ \E s \in EventReads \cup Unions \cup VariableReads : Write(s)
  \/ \E listener \in Listeners : checkAddEventListenerCall(listener)
  \/ Done

Spec == Init /\ [][Next]_vars

---------------------------------------------------------------------------
\* Whether the origin is read in the test of an if.
ComparesOrigin(s) ==
  /\ s.place \in Tests
  /\ \/ s.kind = "read" /\ s.of # "data"
     \/ s.kind = "variable" /\ s.read = "origin"
     \/ s.kind = "or" /\ s.of = "origin"

Compared == \E i \in DOMAIN statements : ComparesOrigin(statements[i])

(***************************************************************************)
(* A listener that tests the origin of its event, directly, as the one of    *)
(* originalEvent or through a variable that joins both, is not reported,      *)
(* whatever else it does before.                                            *)
(***************************************************************************)
ComparedOriginsAreAccepted == result = "reported" => ~Compared

(***************************************************************************)
(* A listener that reads nothing but the data of its event, or the origin     *)
(* outside of every if of its function, is reported: event references alone   *)
(* verify nothing.                                                          *)
(***************************************************************************)
UnreadOriginsAreReported ==
  result \notin {"none", "unresolved"} =>
    LET inert == \A i \in DOMAIN statements :
                   LET s == statements[i] IN s.place \in {"top", "function"} \/ (s.kind = "read" /\ s.of = "data")
    IN inert => result = "reported"

(***************************************************************************)
(* "Noncompliant: no checks are done on the origin property": a listener      *)
(* that does not test an origin is reported.                                *)
(***************************************************************************)
UncheckedOriginsAreReported == result \notin {"none", "reported"} => Compared

(***************************************************************************)
(* checkAddEventListenerCall comes to an answer for every listener.          *)
(***************************************************************************)
EveryListenerIsAnswered == result # "crash"
=============================================================================

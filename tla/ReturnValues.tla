----------------------------- MODULE ReturnValues -----------------------------
(***************************************************************************)
(* The rules no-inconsistent-returns and no-invariant-returns.  Both keep a *)
(* stack with the return statements of the functions that are open, and     *)
(* decide when the visitor leaves a function.  A function has one variable  *)
(* x; reach is the set of values x may have where the visitor is, empty in  *)
(* code that is not reached.                                                *)
(***************************************************************************)
EXTENDS Integers, Sequences, FiniteSets, SequencesExt

CONSTANTS
  Inits,        \* how x starts: a literal, "call" (another value), "none", "param"
  Literals,     \* literals, strings other than "x"
  DeadCode,     \* whether statements follow a return or a throw
  Shadowing,    \* whether blocks declare their own x
  MaxRefs,      \* bound on the references to x in a function
  MaxReturns,   \* bound on the return statements of a function
  MaxFunctions  \* bound on the functions of a file

VARIABLES
  functionContextStack,  \* the functions that are open
  functions,             \* number of functions so far
  reports                \* functions reported, with what they really return

vars == <<functionContextStack, functions, reports>>

Undefined == "undefined"

None == "no value"

Current == Last(functionContextStack)

WithCurrent(f) == functionContextStack' = [functionContextStack EXCEPT ![Len(functionContextStack)] = f]

\* The first value of x.
Starting(init) == CASE init = "none" -> Undefined [] init = "param" -> "argument" [] init = "call" -> "called" [] OTHER -> init

(***************************************************************************)
(* The statements of a function.                                            *)
(***************************************************************************)
Open == functionContextStack # <<>> /\ (Current.reach # {} \/ DeadCode)

\* The x of the block, if it has one.
Shadow == IF Current.blocks = <<>> THEN None ELSE Last(Current.blocks).shadow

\* An initialiser is the first reference to x; a parameter and a declaration without one have none.
onCodePathStart(init, void) ==
  /\ functions < MaxFunctions /\ Len(functionContextStack) < 2
  /\ functions' = functions + 1
  /\ functionContextStack' = Append(functionContextStack,
       [id |-> functions', init |-> init, void |-> void, reach |-> {Starting(init)}, blocks |-> <<>>, thrown |-> FALSE,
        references |-> IF init \in {"none", "param"} THEN <<>> ELSE <<"write">>, returnStatements |-> <<>>])
  /\ UNCHANGED reports

\* A read, a write or a possible update (x.f(), x[0] = ...) of x.
Reference(kind, value) ==
  /\ Open /\ Shadow = None /\ Len(Current.references) < MaxRefs
  /\ WithCurrent([Current EXCEPT !.references = Append(@, kind),
       !.reach = IF kind = "write" /\ @ # {} THEN {value} ELSE @])
  /\ UNCHANGED <<functions, reports>>

\* An if statement, perhaps with an x of its own.
EnterBlock(shadow) ==
  /\ Open /\ Len(Current.blocks) < 1
  /\ WithCurrent([Current EXCEPT !.blocks = Append(@, [before |-> Current.reach, shadow |-> shadow])])
  /\ UNCHANGED <<functions, reports>>

ExitBlock ==
  /\ functionContextStack # <<>> /\ Current.blocks # <<>>
  /\ WithCurrent([Current EXCEPT !.reach = @ \cup Last(Current.blocks).before, !.blocks = Front(@)])
  /\ UNCHANGED <<functions, reports>>

\* ref: the reference to the x of the function that the argument is, 0 for none.
ReturnStatement(argument) ==
  LET local == argument = "x" /\ Shadow = None
      returned == IF Current.reach = {} THEN {} ELSE CASE argument = None -> {Undefined} [] local -> Current.reach [] argument = "x" -> {Shadow} [] OTHER -> {argument}
  IN /\ Open /\ Len(Current.returnStatements) < MaxReturns /\ (local => Len(Current.references) < MaxRefs)
     /\ WithCurrent([Current EXCEPT !.reach = {},
          !.references = IF local THEN Append(@, "read") ELSE @,
          !.returnStatements = Append(@, [argument |-> argument, ref |-> IF local THEN Len(Current.references) + 1 ELSE 0, returned |-> returned])])
     /\ UNCHANGED <<functions, reports>>

Throw ==
  /\ Open
  /\ WithCurrent([Current EXCEPT !.thrown = @ \/ Current.reach # {}, !.reach = {}])
  /\ UNCHANGED <<functions, reports>>

(***************************************************************************)
(* no-inconsistent-returns.                                                 *)
(***************************************************************************)
containsReturnWithValue(f) == \E k \in DOMAIN f.returnStatements : f.returnStatements[k].argument # None

containsReturnWithoutValue(f) == \E k \in DOMAIN f.returnStatements : f.returnStatements[k].argument = None

\* The segments at the exit of the function are reachable.
containsImplicitReturn(f) == f.reach # {}

hasInconsistentReturns(f) == containsReturnWithValue(f) /\ (containsReturnWithoutValue(f) \/ containsImplicitReturn(f))

\* void: the declared type is or contains void, undefined or never.
checkFunctionLikeDeclaration(f) == ~f.void /\ hasInconsistentReturns(f)

(***************************************************************************)
(* no-invariant-returns.                                                    *)
(***************************************************************************)
hasDifferentReturnTypes(f) ==
  containsImplicitReturn(f) \/ containsReturnWithoutValue(f) \/ Len(f.returnStatements) <= 1 \/ f.thrown

\* The first reference is skipped, whether it is the initialiser or not.
getSingleWriteDefinition(f) == \A k \in 2..Len(f.references) : f.references[k] = "read"

\* The name of an identifier is looked up in the scope of the function.
getLiteralValue(f, argument) ==
  CASE argument \in Literals -> argument
    [] argument = "x" /\ f.init \in Literals /\ getSingleWriteDefinition(f) -> f.init
    [] OTHER -> Undefined

areAllSameValue(f) ==
  LET first == f.returnStatements[1]
      value == getLiteralValue(f, first.argument)
  IN IF value # Undefined THEN \A k \in DOMAIN f.returnStatements : getLiteralValue(f, f.returnStatements[k].argument) = value
     ELSE /\ first.argument = "x" /\ getSingleWriteDefinition(f)
          /\ \A k \in DOMAIN f.returnStatements : f.returnStatements[k].ref > 1

checkInvariantReturnStatements(f) == ~hasDifferentReturnTypes(f) /\ areAllSameValue(f)

\* The exit of the function, then the end of its code path.
FunctionExit ==
  /\ functionContextStack # <<>> /\ Current.blocks = <<>>
  /\ reports' = reports \cup {[f |-> Current, inconsistent |-> checkFunctionLikeDeclaration(Current), invariant |-> checkInvariantReturnStatements(Current)]}
  /\ functionContextStack' = Front(functionContextStack)
  /\ UNCHANGED functions

Done == functions > 0 /\ functionContextStack = <<>> /\ UNCHANGED vars

Init == functionContextStack = <<>> /\ functions = 0 /\ reports = {}

Next ==
  \/ \E init \in Inits, void \in BOOLEAN : onCodePathStart(init, void)
  \/ \E value \in Literals : Reference("write", value)
  \/ \E kind \in {"read", "update"} : Reference(kind, None)
  \/ \E shadow \in {None} \cup (IF Shadowing THEN Literals ELSE {}) : EnterBlock(shadow)
  \/ ExitBlock
  \/ \E argument \in Literals \cup {None, "x"} : ReturnStatement(argument)
  \/ Throw \/ FunctionExit \/ Done

Spec == Init /\ [][Next]_vars

(***************************************************************************)
(* Properties.                                                              *)
(***************************************************************************)
Executed(f) == {k \in DOMAIN f.returnStatements : f.returnStatements[k].returned # {}}

\* no-inconsistent-returns reports a function exactly when one of its paths returns a value and
\* another one none, by a return statement or at the end, whatever functions it contains.
PathsDisagree ==
  \A r \in reports : r.inconsistent <=>
    /\ ~r.f.void
    /\ \E k \in Executed(r.f) : r.f.returnStatements[k].argument # None
    /\ r.f.reach # {} \/ \E k \in Executed(r.f) : r.f.returnStatements[k].argument = None

\* All return statements of a function that no-invariant-returns reports return the same value:
\* what x may be is the same at all of them.
ReturnedValuesAgree ==
  \A r \in reports : r.invariant => \A j, k \in Executed(r.f) : r.f.returnStatements[j].returned = r.f.returnStatements[k].returned

=============================================================================

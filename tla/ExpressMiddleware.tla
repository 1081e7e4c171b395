------------------------- MODULE ExpressMiddleware -------------------------
(***************************************************************************)
(* The rules that follow an Express.js application through a file           *)
(* (helpers/express.ts, x-powered-by, csrf and the rules made by            *)
(* SensitiveMiddlewarePropertyRule).  A file is the sequence of its         *)
(* statements; the linter visits them in order and every rule keeps its     *)
(* own state, reset at the start of the file.                               *)
(***************************************************************************)
EXTENDS Integers, Sequences, FiniteSets

CONSTANTS
  Apps,             \* names of applications
  MaxStatements,    \* length of the files that are checked
  MaxMiddlewares    \* middlewares in one call of use

BoundsAssumption == MaxStatements \in Nat /\ MaxMiddlewares \in Nat

\* plain and sensitive middlewares, one that hides the header, and the CSRF protection
Middlewares == {"plain", "sensitive", "helmet", "csurf"}

Lists == UNION {[1..n -> Middlewares] : n \in 1..MaxMiddlewares}

NoApp == "no app"

VARIABLES
  file,                    \* statements visited so far
  ended,
  app,                     \* SensitiveMiddlewarePropertyRule: the application
  appInstantiation,        \* x-powered-by: the application
  isSafe,                  \* x-powered-by
  globalCsrfProtection,    \* csrf
  importedCsrfMiddleware,  \* csrf
  reports                  \* [rule, at] of the issues: <<statement, n>>, or <<0, application>>

vars == <<file, ended, app, appInstantiation, isSafe, globalCsrfProtection, importedCsrfMiddleware, reports>>

\* Program: the state of the rules is reset.
Init ==
  /\ file = <<>> /\ ended = FALSE /\ reports = {}
  /\ app = NoApp /\ appInstantiation = NoApp /\ isSafe = FALSE
  /\ globalCsrfProtection = FALSE /\ importedCsrfMiddleware = FALSE

Visit(statement) == ~ended /\ Len(file) < MaxStatements /\ file' = Append(file, statement) /\ UNCHANGED ended

Here == Len(file) + 1

Has(list, middleware) == \E i \in DOMAIN list : list[i] = middleware

\* The properties found in the arguments up to the first middleware that has one.
isExposing(list) == LET found == {i \in DOMAIN list : list[i] = "sensitive"} IN IF found = {} THEN 0 ELSE 1

(***************************************************************************)
(* const app = express()                                                   *)
(***************************************************************************)
attemptFindAppInstantiation(a) ==
  /\ Visit([kind |-> "instantiate", app |-> a])
  /\ app' = (IF app = NoApp THEN a ELSE app)
  /\ appInstantiation' = (IF ~isSafe /\ appInstantiation = NoApp THEN a ELSE appInstantiation)
  /\ UNCHANGED <<isSafe, globalCsrfProtection, importedCsrfMiddleware, reports>>

(***************************************************************************)
(* module.exports = function (app) { ... }                                 *)
(***************************************************************************)
attemptFindAppInjection(a) ==
  /\ Visit([kind |-> "inject", app |-> a])
  /\ app' = (IF app = NoApp THEN a ELSE app)
  /\ UNCHANGED <<appInstantiation, isSafe, globalCsrfProtection, importedCsrfMiddleware, reports>>

(***************************************************************************)
(* app.use(m1, [m2, ...])                                                  *)
(***************************************************************************)
isUsingMiddleware(a, list) ==
  /\ Visit([kind |-> "use", app |-> a, list |-> list])
  /\ reports' = reports \cup {[rule |-> "sensitive", at |-> <<Here, i>>] : i \in 1..(IF a = app THEN isExposing(list) ELSE 0)}
  /\ isSafe' = (isSafe \/ (appInstantiation = a /\ Has(list, "helmet")))
  /\ globalCsrfProtection' = (globalCsrfProtection \/ Has(list, "csurf"))
  /\ UNCHANGED <<app, appInstantiation, importedCsrfMiddleware>>

(***************************************************************************)
(* app.disable('x-powered-by') or app.set('x-powered-by', false).           *)
(***************************************************************************)
isDisabledXPoweredBy(a) ==
  /\ Visit([kind |-> "disable", app |-> a])
  /\ isSafe' = (isSafe \/ appInstantiation = a)
  /\ UNCHANGED <<app, appInstantiation, globalCsrfProtection, importedCsrfMiddleware, reports>>

(***************************************************************************)
(* f(app) or return app.                                                   *)
(***************************************************************************)
isAppEscaping(a) ==
  /\ Visit([kind |-> "escape", app |-> a])
  /\ isSafe' = (isSafe \/ appInstantiation = a)
  /\ UNCHANGED <<app, appInstantiation, globalCsrfProtection, importedCsrfMiddleware, reports>>

(***************************************************************************)
(* require('csurf') or import from 'csurf'.                                *)
(***************************************************************************)
ImportCsurf ==
  /\ Visit([kind |-> "import"])
  /\ importedCsrfMiddleware' = TRUE
  /\ UNCHANGED <<app, appInstantiation, isSafe, globalCsrfProtection, reports>>

(***************************************************************************)
(* app.post(path, m1, handler), and put, delete, patch.                     *)
(***************************************************************************)
\* Mutant: a protection of the whole application is not looked at.
checkEveryRoute(a, list) ==
  /\ Visit([kind |-> "route", app |-> a, list |-> list])
  /\ reports' = (IF importedCsrfMiddleware /\ ~Has(list, "csurf")
                 THEN reports \cup {[rule |-> "csrf", at |-> <<Here, 1>>]}
                 ELSE reports)
  /\ UNCHANGED <<app, appInstantiation, isSafe, globalCsrfProtection, importedCsrfMiddleware>>

checkRoute(a, list) ==
  /\ Visit([kind |-> "route", app |-> a, list |-> list])
  /\ reports' = (IF ~globalCsrfProtection /\ importedCsrfMiddleware /\ ~Has(list, "csurf")
                 THEN reports \cup {[rule |-> "csrf", at |-> <<Here, 1>>]}
                 ELSE reports)
  /\ UNCHANGED <<app, appInstantiation, isSafe, globalCsrfProtection, importedCsrfMiddleware>>

(***************************************************************************)
(* The end of the file.                                                    *)
(***************************************************************************)
ProgramExit ==
  /\ ~ended /\ ended' = TRUE
  /\ reports' = (IF ~isSafe /\ appInstantiation # NoApp
                 THEN reports \cup {[rule |-> "x-powered-by", at |-> <<0, appInstantiation>>]}
                 ELSE reports)
  /\ UNCHANGED <<file, app, appInstantiation, isSafe, globalCsrfProtection, importedCsrfMiddleware>>

Next ==
  \/ \E a \in Apps : \/ attemptFindAppInstantiation(a) \/ attemptFindAppInjection(a)
                     \/ isDisabledXPoweredBy(a) \/ isAppEscaping(a)
  \/ \E a \in Apps, list \in Lists : isUsingMiddleware(a, list) \/ checkRoute(a, list)
  \/ ImportCsurf \/ ProgramExit
  \/ (ended /\ UNCHANGED vars)

Spec == Init /\ [][Next]_vars

(***************************************************************************)
(* Properties.                                                             *)
(***************************************************************************)
Kind(i, k) == file[i].kind = k

Reported(rule) == {r.at : r \in {q \in reports : q.rule = rule}}

\* Statements after which an application no longer discloses its header, or is out of sight.
Covers(i, a) ==
  \/ Kind(i, "disable") /\ file[i].app = a
  \/ Kind(i, "escape") /\ file[i].app = a
  \/ Kind(i, "use") /\ file[i].app = a /\ Has(file[i].list, "helmet")

\* At the end of the file the first application is reported exactly when nothing after its
\* creation hides the header or hands the application over (x-powered-by).
BareApplicationIsReported ==
  ended =>
    \A a \in Apps :
      (<<0, a>> \in Reported("x-powered-by") <=>
         \E i \in DOMAIN file : /\ Kind(i, "instantiate") /\ file[i].app = a
                                /\ \A j \in 1..(i - 1) : ~Kind(j, "instantiate")
                                /\ \A j \in (i + 1)..Len(file) : ~Covers(j, a))

\* A route is reported only when no middleware before it or on it protects its application
\* (checkCallExpression of csrf, whose protection is global to the file).
ReportedRoutesAreUnprotected ==
  \A at \in Reported("csrf") :
    LET i == at[1]
    IN /\ ~Has(file[i].list, "csurf")
       /\ \A j \in 1..(i - 1) : ~(Kind(j, "use") /\ file[j].app = file[i].app /\ Has(file[j].list, "csurf"))

\* In a file with one application every unprotected route after the import is reported.
UnprotectedRoutesAreReported ==
  Cardinality(Apps) = 1 =>
    \A i \in DOMAIN file :
      Kind(i, "route") /\ ~Has(file[i].list, "csurf")
      /\ (\E j \in 1..(i - 1) : Kind(j, "import"))
      /\ (\A j \in 1..(i - 1) : ~(Kind(j, "use") /\ Has(file[j].list, "csurf"))) => <<i, 1>> \in Reported("csrf")

\* The calls of use of the application the rule follows.
Followed(i) ==
  /\ Kind(i, "use")
  /\ \E j \in 1..(i - 1) : /\ file[j].kind \in {"instantiate", "inject"} /\ file[j].app = file[i].app
                           /\ \A k \in 1..(j - 1) : file[k].kind \notin {"instantiate", "inject"}

Sensitive(i) == {j \in DOMAIN file[i].list : file[i].list[j] = "sensitive"}

\* Every sensitive setting of a middleware of the application is reported, once.
EverySensitivePropertyIsReported ==
  \A i \in DOMAIN file :
    Followed(i) => Cardinality({at \in Reported("sensitive") : at[1] = i}) = Cardinality(Sensitive(i))

\* Middlewares of other applications are not judged.
OnlyFollowedAppIsJudged == \A at \in Reported("sensitive") : Followed(at[1])

=============================================================================

-------------------------- MODULE SensitiveOptions --------------------------
(***************************************************************************)
(* Rules on the options passed to calls of well-known libraries: HTTP       *)
(* headers (helmet, cors, hsts), templates, TLS connections, cookies, JWT   *)
(* tokens, keys and hashes, permissions of the browser, archives, commands, *)
(* windows, sessions.  A state is one call and what the rules report on it. *)
(***************************************************************************)
EXTENDS Expressions

CONSTANTS
  Calls,               \* the calls of this instance
  CheckedPermissions   \* options of no-intrusive-permissions

VARIABLES call, reports, done

vars == <<call, reports, done>>

False == Bool("false")

True == Bool("true")

RECOMMENDED_MAX_AGE == 15552000

MINIMAL_MODULUS_LENGTH == 2048

MINIMAL_DIVISOR_LENGTH == 224

(***************************************************************************)
(* Rules that refuse values of one option: the callee, the position of the  *)
(* options, whether they are the only argument, whether they must be        *)
(* written in place, the key, whether the value may be behind a variable,   *)
(* the literals that are refused and the number below which it is refused.  *)
(***************************************************************************)
Option(rule, fqn, position, key, bad) ==
  [rule |-> rule, fqn |-> fqn, position |-> position, key |-> key, bad |-> bad, below |-> -1,
   single |-> FALSE, inPlace |-> FALSE, behind |-> TRUE]

\* Options of Express.js middlewares.
Middleware(o) == [o EXCEPT !.single = TRUE, !.inPlace = TRUE]

noSniff == Middleware(Option("no-mime-sniff", "helmet", 1, "noSniff", {False}))

contentSecurityPolicy == Middleware(Option("content-security-policy", "helmet", 1, "contentSecurityPolicy", {False}))

expectCt == Middleware(Option("certificate-transparency", "helmet", 1, "expectCt", {False}))

referrerPolicy == Middleware(Option("no-referrer-policy", "helmet", 1, "referrerPolicy", {False}))

strictTransportSecurity ==
  {Middleware(Option("strict-transport-security", "helmet", 1, "hsts", {False}))}
  \cup {Middleware([Option("strict-transport-security", fqn, 1, "maxAge", {}) EXCEPT !.below = RECOMMENDED_MAX_AGE]) : fqn \in {"helmet.hsts", "hsts"}}
  \cup {Middleware(Option("strict-transport-security", fqn, 1, "includeSubDomains", {False})) : fqn \in {"helmet.hsts", "hsts"}}

dnsPrefetching ==
  {Option("dns-prefetching", fqn, 1, "allow", {True}) : fqn \in {"helmet.dnsPrefetchControl", "dns-prefetch-control"}}
  \cup {Option("dns-prefetching", "helmet", 1, "dnsPrefetchControl", {False})}

disabledAutoEscaping ==
  {Option("disabled-auto-escaping", "handlebars.compile", 2, "noEscape", {True}),
   Option("disabled-auto-escaping", "marked.setOptions", 1, "sanitize", {False}),
   Option("disabled-auto-escaping", "kramed.Renderer", 1, "sanitize", {False}),
   Option("disabled-auto-escaping", "markdown-it", 1, "html", {True})}

hiddenFiles == [Option("hidden-files", "serve-static", 2, "dotfiles", {Str("allow")}) EXCEPT !.behind = FALSE]

xmlParserXxe ==
  {[Option("xml-parser-xxe", fqn, 2, "noent", {True}) EXCEPT !.inPlace = TRUE, !.behind = FALSE] :
     fqn \in {"libxmljs.parseXml", "libxmljs.parseXmlString"}}

corsOrigin == [Option("cors", "cors", 1, "origin", {Str("*")}) EXCEPT !.behind = FALSE]

TlsPosition == [f \in {"https.request", "request.get", "tls.connect"} |-> IF f = "tls.connect" THEN 3 ELSE 1]

unverifiedCertificate ==
  {Option("unverified-certificate", fqn, TlsPosition[fqn], "rejectUnauthorized", {False}) : fqn \in DOMAIN TlsPosition}

OptionRules ==
  {noSniff, contentSecurityPolicy, expectCt, referrerPolicy, hiddenFiles, corsOrigin}
  \cup strictTransportSecurity \cup dnsPrefetching \cup disabledAutoEscaping \cup xmlParserXxe \cup unverifiedCertificate

\* The argument at the position, as an object literal.
ObjectArgument(position) ==
  IF position > Len(call.arguments) THEN None
  ELSE getValueOfExpression(call.arguments[position], "ObjectExpression", FALSE)

IsRefused(rule, literal) ==
  /\ literal.type = "Literal"
  /\ literal \in rule.bad \/ (literal.value[1] = "number" /\ literal.value[2] < rule.below)

checkSensitiveCall(rule) ==
  LET object == ObjectArgument(rule.position)
      p == IF object = None THEN Missing ELSE getObjectExpressionProperty(object, rule.key)
  IN /\ p # Missing
     /\ rule.single => Len(call.arguments) = 1
     /\ rule.inPlace => object = call.arguments[rule.position]
     /\ IsRefused(rule, IF rule.behind THEN getValueOfExpression(p.value, "Literal", FALSE) ELSE p.value)

OptionReports == {r.rule : r \in {o \in OptionRules : o.fqn = call.fqn /\ checkSensitiveCall(o)}}

(***************************************************************************)
(* Referrer policies and the directives of content security policies.       *)
(***************************************************************************)
Only(fqns) == call.fqn \in fqns /\ Len(call.arguments) = 1

Parts(e) == IF e.type = "ArrayExpression" THEN Range(e.elements) ELSE {e}

UNSAFE_REFERRER_POLICY_VALUES == {Str(""), Str("unsafe-url"), Str("no-referrer-when-downgrade")}

isUnsafePolicy ==
  /\ Only({"helmet.referrerPolicy"})
  /\ LET p == getObjectExpressionProperty(call.arguments[1], "policy")
     IN p # Missing /\ Parts(p.value) \cap UNSAFE_REFERRER_POLICY_VALUES # {}

Directives == getObjectExpressionProperty(call.arguments[1], "directives")

Directive(keys) ==
  LET found == SelectSeq([i \in DOMAIN keys |-> getObjectExpressionProperty(Directives.value, keys[i])], LAMBDA p : p # Missing)
  IN IF found = <<>> THEN Missing ELSE Head(found)

frameAncestors ==
  LET p == Directive(<<"frameAncestors", "frame-ancestors">>)
  IN p = Missing \/ (p.value.type = "ArrayExpression" /\ Str("'none'") \in Range(p.value.elements))

isMissingMixedContentProperty == Directive(<<"blockAllMixedContent", "block-all-mixed-content">>) = Missing

DirectiveReports ==
  IF ~Only({"helmet-csp", "helmet.contentSecurityPolicy"}) \/ Directives = Missing THEN {}
  ELSE (IF frameAncestors THEN {"frame-ancestors"} ELSE {})
       \cup (IF isMissingMixedContentProperty THEN {"no-mixed-content"} ELSE {})

(***************************************************************************)
(* Cookies: the flag of the cookie itself or of the cookie option.          *)
(***************************************************************************)
checkFlagOnCookieExpression(cookie, flag) == getPropertyWithValue(cookie, flag, False) # Missing

checkSensitiveCookieArgument(position, flag) ==
  ObjectArgument(position) # None /\ checkFlagOnCookieExpression(ObjectArgument(position), flag)

checkSensitiveObjectArgument(flag) ==
  LET p == IF ObjectArgument(1) = None THEN Missing ELSE getObjectExpressionProperty(ObjectArgument(1), "cookie")
      cookie == IF p = Missing THEN None ELSE getValueOfExpression(p.value, "ObjectExpression", FALSE)
  IN [property |-> IF cookie = None THEN p ELSE Missing,
      reported |-> cookie # None /\ checkFlagOnCookieExpression(cookie, flag)]

checkCsurf(flag) ==
  LET p == checkSensitiveObjectArgument(flag).property
  IN \/ checkSensitiveObjectArgument(flag).reported
     \/ p # Missing /\ getValueOfExpression(p.value, "Literal", FALSE) = True

checkCookiesFromCallExpression(flag) ==
  CASE call.fqn = "cookie-session" -> checkSensitiveCookieArgument(1, flag)
    [] call.fqn = "csurf" -> checkCsurf(flag)
    [] call.fqn = "express-session" -> checkSensitiveObjectArgument(flag).reported
    [] call.fqn = "cookies.set" -> checkSensitiveCookieArgument(3, flag)
    [] OTHER -> FALSE

CookieReports ==
  (IF checkCookiesFromCallExpression("httpOnly") THEN {"cookie-no-httponly"} ELSE {})
  \cup (IF checkCookiesFromCallExpression("secure") THEN {"insecure-cookie"} ELSE {})

(***************************************************************************)
(* TLS: the check of the host name, versions and protocols.                 *)
(***************************************************************************)
Return(e) == [statement |-> "return", argument |-> e]

NestedFunction(body) == [statement |-> "function", body |-> body]

returnStatements(f) == SelectSeq(f.body, LAMBDA s : s.statement = "return")

shouldReportOnCheckServerIdentityCallBack(p) ==
  LET f == getValueOfExpression(p.value, "FunctionExpression", FALSE)
  IN /\ f # None
     /\ \A i \in DOMAIN returnStatements(f) :
          LET e == returnStatements(f)[i].argument IN e = None \/ getValueOfExpression(e, "Literal", FALSE) = True

unverifiedHostname ==
  IF call.fqn \notin DOMAIN TlsPosition THEN {}
  ELSE LET options == ObjectArgument(TlsPosition[call.fqn])
           callback == getObjectExpressionProperty(options, "checkServerIdentity")
       IN IF options = None THEN {}
          ELSE IF \/ getPropertyWithValue(options, "rejectUnauthorized", False) # Missing
                  \/ IF callback = Missing THEN FALSE ELSE shouldReportOnCheckServerIdentityCallBack(callback)
               THEN {"unverified-hostname"} ELSE {}

SECURE_PROTOCOL_ALLOWED_VALUES == {"TLSv1_2_method", "TLSv1_2_client_method", "TLSv1_2_server_method",
                                   "TLS_method", "TLS_client_method", "TLS_server_method"}

getValueOfProperty(options, key) ==
  LET p == getObjectExpressionProperty(options, key)
  IN IF p = Missing THEN None ELSE getValueOfExpression(p.value, "Literal", FALSE)

checkMinMaxVersion(literal) == literal \in {Str("TLSv1.1"), Str("TLSv1")}

\* The flags of an expression with operators; "null" for anything else.
RECURSIVE collectIdentifiersFromBinary(_)
collectIdentifiersFromBinary(e) ==
  IF e.type = "BinaryExpression" THEN collectIdentifiersFromBinary(e.left) \cup collectIdentifiersFromBinary(e.right)
  ELSE {IF e.type = "MemberExpression" /\ e.fqn # "none" THEN e.fqn ELSE "null"}

isValidSecureOptions(e) ==
  LET flags == collectIdentifiersFromBinary(e)
  IN "null" \in flags \/ {"SSL_OP_NO_TLSv1", "SSL_OP_NO_TLSv1_1"} \subseteq flags

checkSslOptions(options) ==
  LET protocol == getValueOfProperty(options, "secureProtocol")
      flags == getObjectExpressionProperty(options, "secureOptions")
  IN {key \in {"minVersion", "maxVersion"} : checkMinMaxVersion(getValueOfProperty(options, key))}
     \cup (IF protocol # None /\ protocol.value[2] \notin SECURE_PROTOCOL_ALLOWED_VALUES THEN {"secureProtocol"} ELSE {})
     \cup (IF (IF flags = Missing THEN TRUE ELSE isValidSecureOptions(flags.value)) THEN {} ELSE {"secureOptions"})

SslPositions(fqn) ==
  CASE fqn = "https.request" -> {1, 2}
    [] fqn = "tls.connect" -> {1, 2, 3}
    [] fqn \in {"request.get", "tls.createSecureContext"} -> {1}
    [] OTHER -> {}

SslReports == UNION {checkSslOptions(ObjectArgument(i)) : i \in SslPositions(call.fqn)}

(***************************************************************************)
(* Keys, tokens, hashes and modes of encryption.                            *)
(***************************************************************************)
WEAK_CURVES == {"secp112r1", "secp160k1", "sect113r1", "prime192v2", "c2tnb191v1"}

\* A number is looked at only if it is truthy.
getNumericValue(p) ==
  LET literal == IF p = Missing THEN None ELSE getValueOfExpression(p.value, "Literal", FALSE)
  IN IF literal = None THEN 0 ELSE IF literal.value[1] = "number" THEN literal.value[2] ELSE 0

TooShort(p, minimum) == getNumericValue(p) # 0 /\ getNumericValue(p) < minimum

checkRsaAndDsaOptions(options) ==
  (IF TooShort(getObjectExpressionProperty(options, "modulusLength"), MINIMAL_MODULUS_LENGTH) THEN {"modulusLength"} ELSE {})
  \cup (IF TooShort(getObjectExpressionProperty(options, "divisorLength"), MINIMAL_DIVISOR_LENGTH) THEN {"divisorLength"} ELSE {})

checkEcCurve(options) ==
  LET curve == getValueOfProperty(options, "namedCurve")
  IN IF curve # None /\ curve.value[2] \in WEAK_CURVES THEN {"strongerCurve"} ELSE {}

KeyReports ==
  LET algorithm == IF call.arguments = <<>> THEN None ELSE getValueOfExpression(call.arguments[1], "Literal", FALSE)
      options == ObjectArgument(2)
  IN IF call.fqn \notin {"generateKeyPair", "generateKeyPairSync"} \/ options = None THEN {}
     ELSE IF algorithm \in {Str("rsa"), Str("dsa")} THEN checkRsaAndDsaOptions(options)
     ELSE IF algorithm = Str("ec") THEN checkEcCurve(options)
     ELSE {}

checkCallToSign(options) == getPropertyWithValue(options, "algorithm", Str("none")) # Missing

checkCallToVerify(publicKey, options) ==
  LET p == getObjectExpressionProperty(options, "algorithms")
      algorithms == getValueOfExpression(p.value, "ArrayExpression", FALSE)
  IN IF p = Missing THEN publicKey = NullLiteral
     ELSE /\ algorithms # None
          /\ \E i \in DOMAIN algorithms.elements : getValueOfExpression(algorithms.elements[i], "Literal", FALSE) = Str("none")

TokenReports ==
  IF ObjectArgument(3) = None THEN {}
  ELSE IF call.fqn = "jsonwebtoken.sign" /\ checkCallToSign(ObjectArgument(3)) THEN {"sign"}
  ELSE IF call.fqn = "jsonwebtoken.verify" /\ checkCallToVerify(call.arguments[2], ObjectArgument(3)) THEN {"verify"}
  ELSE {}

\* Algorithms in lower case, and modes by the names the patterns accept.
UNSECURE_HASH_ALGORITHMS == [crypto |-> {"md5", "sha1"}, subtle |-> {"sha-1"}]

SECURE_MODES == {"aes-128-gcm", "aes-256-gcm"}

AlgorithmReports ==
  LET name == IF call.arguments = <<>> THEN None ELSE getUniqueWriteUsageOrNode(call.arguments[1], FALSE)
      weak == CASE call.fqn = "crypto.createHash" -> name.value[2] \in UNSECURE_HASH_ALGORITHMS.crypto
                [] call.fqn = "crypto.subtle.digest" -> name.value[2] \in UNSECURE_HASH_ALGORITHMS.subtle
                [] call.fqn = "crypto.createCipheriv" -> name.value[2] \notin SECURE_MODES
                [] OTHER -> FALSE
  IN IF (IF isStringLiteral(name) THEN weak ELSE FALSE) THEN {"weak algorithm"} ELSE {}

\* Loggers without secrets to hide.
confidentialInformationLogging ==
  LET secrets == getObjectExpressionProperty(ObjectArgument(1), "secrets")
  IN IF call.fqn # "signale.Signale" THEN {}
     ELSE IF call.arguments = <<>> THEN {"confidential"}
     ELSE IF ObjectArgument(1) = None THEN {}
     ELSE IF (IF secrets = Missing THEN TRUE ELSE secrets.value = Array(<<>>)) THEN {"confidential"} ELSE {}

(***************************************************************************)
(* no-intrusive-permissions: the uses of the browser's features that the    *)
(* options of the rule name.  The callees are member expressions as they    *)
(* are written.                                                             *)
(***************************************************************************)
permissions == {"geolocation", "camera", "microphone", "notifications", "persistent-storage"}

IsIdentifierKey(entry, key) == entry.entry = "Property" /\ entry.key = key

hasNamePropertyWithPermission(entry) ==
  /\ IsIdentifierKey(entry, "name")
  /\ LET literal == getValueOfExpression(entry.value, "Literal", FALSE)
     IN isStringLiteral(literal) /\ literal.value[2] \in permissions \cap CheckedPermissions

\* The message names what the property is written as: a variable has no value.
checkPermissions(object) ==
  LET found == SelectSeq(object.properties, hasNamePropertyWithPermission)
  IN IF found = <<>> THEN {}
     ELSE IF found[1].value.type = "Literal" THEN {found[1].value.value[2]} ELSE {"undefined"}

isOtherThanFalse(e) == getValueOfExpression(e, "Literal", FALSE) # False

checkForCameraAndMicrophonePermissions(object) ==
  {f \in {"microphone", "camera"} \cap CheckedPermissions :
     \E i \in DOMAIN object.properties :
       /\ IsIdentifierKey(object.properties[i], IF f = "microphone" THEN "audio" ELSE "video")
       /\ isOtherThanFalse(object.properties[i].value)}

\* The calls that are uses whatever is passed.
FeatureOf(fqn) ==
  CASE fqn \in {"navigator.geolocation.watchPosition", "navigator.geolocation.getCurrentPosition"} -> {"geolocation"}
    [] fqn \in {"Notification", "Notification.requestPermission"} -> {"notifications"}
    [] fqn = "navigator.storage.persist" -> {"persistent-storage"}
    [] OTHER -> {}

intrusivePermissions ==
  CASE call.fqn = "navigator.permissions.query" ->
         IF ObjectArgument(1) = None THEN {} ELSE checkPermissions(ObjectArgument(1))
    [] call.fqn = "navigator.mediaDevices.getUserMedia" ->
         IF ObjectArgument(1) = None THEN {} ELSE checkForCameraAndMicrophonePermissions(ObjectArgument(1))
    [] OTHER -> FeatureOf(call.fqn) \cap CheckedPermissions

(***************************************************************************)
(* Archives, commands of the system and windows.                            *)
(***************************************************************************)
\* A spread may hold the property.
canBeProperty(entry, name) == entry.entry = "SpreadElement" \/ IsKey(entry, name)

\* Where the filter of an archive is passed.
ArchiveFilter == [f \in {"tar.x", "extract-zip"} |-> IF f = "tar.x" THEN <<1, "filter">> ELSE <<2, "onEntry">>]

isSensitiveArchiveCall ==
  IF call.fqn \in DOMAIN ArchiveFilter
  THEN LET object == ObjectArgument(ArchiveFilter[call.fqn][1])
       IN /\ object # None
          /\ \A i \in DOMAIN object.properties : ~canBeProperty(object.properties[i], ArchiveFilter[call.fqn][2])
  ELSE call.fqn \in {"jszip.loadAsync", "yauzl.open", "adm-zip.extractAllTo"}

EXEC_FUNCTIONS == {"child_process.exec", "child_process.execSync"}

SPAWN_EXEC_FILE_FUNCTIONS ==
  {"child_process.spawn", "child_process.spawnSync", "child_process.execFile", "child_process.execFileSync"}

containsShellOption ==
  \E k \in 2..Len(call.arguments) :
    /\ call.arguments[k].type = "ObjectExpression"
    /\ \E i \in DOMAIN call.arguments[k].properties :
         LET entry == call.arguments[k].properties[i] IN IsIdentifierKey(entry, "shell") /\ entry.value = True

\* A command that is written in place is not questioned.
isQuestionableCommand ==
  /\ call.arguments # <<>> /\ call.arguments[1].type # "Literal"
  /\ call.fqn \in EXEC_FUNCTIONS \/ (call.fqn \in SPAWN_EXEC_FILE_FUNCTIONS /\ containsShellOption)

HTTP_URLS == {Str("http://a"), Str("https://a")}

NOOPENER == {Str("noopener"), Str("width=1,noopener")}

extractString(position) ==
  IF position > Len(call.arguments) THEN None ELSE getValueOfExpression(call.arguments[position], "Literal", FALSE)

isMissingNoopener ==
  call.fqn = "window.open" /\ extractString(1) \in HTTP_URLS /\ extractString(3) \notin NOOPENER

(***************************************************************************)
(* session-regeneration: passport.authenticate as an argument of a call     *)
(* whose third argument is the callback.  The callback is searched for a    *)
(* call of regenerate at any depth.                                         *)
(***************************************************************************)
Regenerate == [statement |-> "regenerate"]

RECURSIVE visitCallback(_)
visitCallback(body) ==
  \E i \in DOMAIN body :
    \/ body[i].statement = "regenerate"
    \/ body[i].statement = "function" /\ visitCallback(body[i].body)

hasSessionFalseOption(authenticate) ==
  /\ Len(authenticate.arguments) > 1
  /\ getPropertyWithValue(authenticate.arguments[2], "session", False) # Missing

IsAuthenticate(e) == e.type = "CallExpression" /\ e.fqn = "passport.authenticate"

fixedSession ==
  /\ \E i \in DOMAIN call.arguments : IsAuthenticate(call.arguments[i]) /\ ~hasSessionFalseOption(call.arguments[i])
  /\ Len(call.arguments) > 2
  /\ LET callback == getValueOfExpression(call.arguments[3], "FunctionExpression", FALSE)
     IN callback # None /\ ~visitCallback(callback.body)

(***************************************************************************)
(* csrf: methods that csurf is told to ignore, written in place; and the    *)
(* sanitizer of mustache, replaced by a function that returns what it gets. *)
(***************************************************************************)
SAFE_METHODS == {"GET", "HEAD", "OPTIONS"}

checkIgnoredMethods ==
  /\ call.fqn = "csurf" /\ call.arguments # <<>>
  /\ LET p == getObjectExpressionProperty(call.arguments[1], "ignoreMethods")
     IN /\ p # Missing /\ p.value.type = "ArrayExpression"
        /\ \E e \in Range(p.value.elements) : isStringLiteral(e) /\ e.value[2] \notin SAFE_METHODS

\* fqn = right
Assignment(fqn, right) == [type |-> "AssignmentExpression", fqn |-> fqn, arguments |-> <<right>>]

\* The first parameter of the function around, and a function with parameters.
Argument == [type |-> "Identifier", writes |-> "parameter"]

Sanitizer(params, body) == [type |-> "FunctionExpression", params |-> params, body |-> body]

\* A reference to a function declaration, which the parser services resolve.
Declared(f) == [type |-> "Identifier", writes |-> "function", expr |-> f]

isEmptySanitizerFunction(f) == f.params = 1 /\ f.body = <<Return(Argument)>>

isInvalidSanitizerFunction(e) ==
  LET value == getValueOfExpression(e, "FunctionExpression", FALSE)
      f == IF e.type = "Identifier" /\ e.writes = "function" THEN e.expr ELSE value
  IN f # None /\ isEmptySanitizerFunction(f)

disabledSanitizer == call.fqn = "mustache.escape" /\ isInvalidSanitizerFunction(call.arguments[1])

UseReports ==
  intrusivePermissions
  \cup (IF isSensitiveArchiveCall THEN {"no-unsafe-unzip"} ELSE {})
  \cup (IF isQuestionableCommand THEN {"os-command"} ELSE {})
  \cup (IF isMissingNoopener THEN {"link-with-target-blank"} ELSE {})
  \cup (IF fixedSession THEN {"session-regeneration"} ELSE {})
  \cup (IF checkIgnoredMethods THEN {"csrf"} ELSE {})
  \cup (IF disabledSanitizer THEN {"disabled-auto-escaping"} ELSE {})

(***************************************************************************)
(* The visit of the call.                                                  *)
(***************************************************************************)
corsCall == IF call.fqn = "cors" /\ call.arguments = <<>> THEN {"cors"} ELSE {}

CallReports ==
  OptionReports \cup corsCall \cup (IF isUnsafePolicy THEN {"no-referrer-policy"} ELSE {}) \cup DirectiveReports
  \cup CookieReports \cup unverifiedHostname \cup SslReports \cup KeyReports \cup TokenReports
  \cup AlgorithmReports \cup confidentialInformationLogging \cup UseReports

Init == call \in Calls /\ reports = {} /\ done = FALSE

CallExpression ==
  /\ ~done
  /\ reports' = CallReports
  /\ done' = TRUE
  /\ UNCHANGED call

Next == CallExpression \/ (done /\ UNCHANGED vars)

Spec == Init /\ [][Next]_vars

(***************************************************************************)
(* Properties.  They compare the reports with the values the options have   *)
(* when the call is made.                                                   *)
(***************************************************************************)
ArgumentValues(position, path) ==
  IF position > Len(call.arguments) THEN {None} ELSE PathValues(call.arguments[position], path)

\* Some value that the option may have is refused.
MayBeRefused(rule) ==
  \E v \in ArgumentValues(rule.position, <<rule.key>>) : v = AnyValue \/ IsRefused(rule, v)

\* An option is reported only for a value it can have when the call is made: the last entry
\* of a repeated key counts, in the argument the library reads (checkSensitiveCall,
\* getObjectExpressionProperty).
OptionReportsAreJustified ==
  done => \A r \in {o \in OptionRules : o.fqn = call.fqn /\ o.rule \in reports} :
            (corsCall = {}) => \E o \in OptionRules : o.fqn = r.fqn /\ o.rule = r.rule /\ MayBeRefused(o)

\* An expression that is a value itself, or a variable of one.
IsNear(e) == e.type # "Identifier" \/ (IF HasUniqueWrite(e) THEN e.expr.type # "Identifier" ELSE FALSE)

NearEntries(rule) ==
  LET object == ObjectArgument(rule.position)
  IN /\ object # None
     /\ \A i \in DOMAIN object.properties : IF rule.behind THEN IsNear(object.properties[i].value) ELSE object.properties[i].value.type # "Identifier"
     /\ rule.inPlace => object = call.arguments[rule.position]
     /\ rule.single => Len(call.arguments) = 1

\* An insecure option that is written in the call, or behind one variable where the rule
\* follows it, is reported (checkSensitiveCall, SensitiveMiddlewarePropertyRule).
VisibleOptionsAreReported ==
  done => \A r \in {o \in OptionRules : o.fqn = call.fqn} :
            NearEntries(r) /\ (\A v \in ArgumentValues(r.position, <<r.key>>) : IsRefused(r, v)) => r.rule \in reports

\* A policy of directives is reported exactly when, under either of the names, it does not
\* restrict the frames or the mixed content, or allows no frame at all (frame-ancestors,
\* no-mixed-content).
DirectivesAreJudgedByBothNames ==
  done /\ call.fqn \in {"helmet-csp", "helmet.contentSecurityPolicy"} /\ ObjectArgument(1) = call.arguments[1] =>
    LET values(keys) == UNION {ArgumentValues(1, <<"directives", k>>) : k \in keys} \ {None}
        given == \E v \in ArgumentValues(1, <<"directives">>) : v.type = "ObjectExpression"
    IN given => /\ ("no-mixed-content" \in reports) <=> values({"blockAllMixedContent", "block-all-mixed-content"}) = {}
                /\ values({"frameAncestors", "frame-ancestors"}) = {} => "frame-ancestors" \in reports
                /\ "frame-ancestors" \in reports =>
                     values({"frameAncestors", "frame-ancestors"}) = {}
                     \/ \E v \in values({"frameAncestors", "frame-ancestors"}) : Str("'none'") \in Parts(v)

CookieValues(flag) ==
  CASE call.fqn = "cookie-session" -> ArgumentValues(1, <<flag>>)
    [] call.fqn = "cookies.set" -> ArgumentValues(3, <<flag>>)
    [] OTHER -> ArgumentValues(1, <<"cookie", flag>>)

\* A cookie is reported for a flag exactly when that flag is switched off, or when a cookie
\* of csurf is asked for without saying more; the two rules do not mix up their flags and a
\* flag that is left out is not reported (CookieFlagCheck).
CookieFlagsAreJudged ==
  done /\ call.fqn \in {"cookie-session", "csurf", "express-session", "cookies.set"} =>
    \A f \in {<<"httpOnly", "cookie-no-httponly">>, <<"secure", "insecure-cookie">>} :
      f[2] \in reports <=> \/ CookieValues(f[1]) = {False}
                           \/ call.fqn = "csurf" /\ ArgumentValues(1, <<"cookie">>) = {True}

AcceptsEveryName(f) ==
  f.type = "FunctionExpression" /\
  \A i \in DOMAIN f.body : f.body[i].statement = "return" => (f.body[i].argument = None \/ Values(f.body[i].argument) = {True})

\* The check of the host name is reported when it is switched off or replaced by a function
\* that accepts every name: each return of the function itself, not of one inside it, gives
\* nothing or true (shouldReportOnCheckServerIdentityCallBack).
HostnamesAreJudged ==
  done /\ call.fqn \in DOMAIN TlsPosition =>
    ("unverified-hostname" \in reports <=>
       \/ ArgumentValues(TlsPosition[call.fqn], <<"rejectUnauthorized">>) = {False}
       \/ \E f \in ArgumentValues(TlsPosition[call.fqn], <<"checkServerIdentity">>) : AcceptsEveryName(f))

RECURSIVE Leaves(_)
Leaves(e) == IF e.type = "BinaryExpression" THEN Leaves(e.left) \cup Leaves(e.right) ELSE {e}

\* Connections that may use an old version are reported: a version given as a literal, or
\* flags that are all known and leave one of the old versions enabled; flags that contain
\* anything unknown are not (isValidSecureOptions).
OldVersionsAreReported ==
  done => \A i \in SslPositions(call.fqn) : ObjectArgument(i) # None =>
    /\ "secureOptions" \in reports =>
         \E j \in SslPositions(call.fqn) : \E v \in ArgumentValues(j, <<"secureOptions">>) :
           (\A l \in Leaves(v) : l.type = "MemberExpression") /\ ~({Name("SSL_OP_NO_TLSv1"), Name("SSL_OP_NO_TLSv1_1")} \subseteq Leaves(v))
    /\ ArgumentValues(i, <<"minVersion">>) \in {{Str("TLSv1")}, {Str("TLSv1.1")}} => "minVersion" \in reports
    /\ ArgumentValues(i, <<"secureProtocol">>) = {Str("SSLv3_method")} => "secureProtocol" \in reports

\* A token that is verified without its signature is reported, the list of algorithms being
\* read through its variables, and the algorithms that are listed decide, not the key
\* (checkCallToVerify).
UnsignedTokensAreReported ==
  done /\ call.fqn = "jsonwebtoken.verify" /\ ObjectArgument(3) # None =>
    LET lists == ArgumentValues(3, <<"algorithms">>)
    IN ("verify" \in reports) <=>
         \/ lists = {None} /\ call.arguments[2] = NullLiteral
         \/ \E list \in lists : list.type = "ArrayExpression" /\ \E e \in Range(list.elements) : Values(e) = {Str("none")}

\* A key is reported exactly when its length is known and too short for its algorithm, at
\* the boundary too; a length of zero is not (TooShort reads zero as no length).
ShortKeysAreReported ==
  done /\ call.fqn = "generateKeyPair" /\ Len(call.arguments) = 2 =>
    LET lengths == ArgumentValues(2, <<"modulusLength">>)
        short == \E v \in lengths : v.type = "Literal" /\ v.value[1] = "number" /\ v.value[2] \in 1..(MINIMAL_MODULUS_LENGTH - 1)
    IN ("modulusLength" \in reports) <=> (Values(call.arguments[1]) \in {{Str("rsa")}, {Str("dsa")}} /\ short)

\* Arguments that leave nothing to guess: an object in place or behind one variable whose
\* keys are written once as identifiers, with values that are as near.
PlainObject(position) ==
  LET object == ObjectArgument(position)
      Plain(i) == object.properties[i].entry = "Property" /\ IsNear(object.properties[i].value)
  IN /\ object # None /\ \A i \in DOMAIN object.properties : Plain(i)
     /\ \A i, j \in DOMAIN object.properties : object.properties[i].key = object.properties[j].key => i = j

\* The features that a call uses when it runs: what is asked for is the value of the
\* property then, and a device is used unless it is left out or false.
FeaturesUsed ==
  CASE call.fqn = "navigator.permissions.query" ->
         {f \in permissions : ArgumentValues(1, <<"name">>) = {Str(f)}}
    [] call.fqn = "navigator.mediaDevices.getUserMedia" ->
         {f \in {"microphone", "camera"} :
            ArgumentValues(1, <<IF f = "microphone" THEN "audio" ELSE "video">>) \cap {None, False} = {}}
    [] OTHER -> FeatureOf(call.fqn)

\* A use of a feature is reported exactly when the options of the rule ask for that feature
\* and the call uses it; each feature has its own option (no-intrusive-permissions).
IntrusiveUsesAreReported ==
  done /\ call.fqn \in {"navigator.permissions.query", "navigator.mediaDevices.getUserMedia"} \cup {f \in {call.fqn} : FeatureOf(f) # {}} =>
    LET used == FeaturesUsed \cap CheckedPermissions
    IN IF call.fqn = "navigator.permissions.query"
       THEN PlainObject(1) => ((reports # {}) <=> (used # {}))
       ELSE (FeatureOf(call.fqn) # {} \/ PlainObject(1)) => reports = used

\* An archive is reported only when nothing filters its entries, whatever a spread adds,
\* and always when the options are visible and have no filter (canBeProperty).
UnfilteredArchivesAreReported ==
  done /\ call.fqn \in DOMAIN ArchiveFilter =>
    LET filters == ArgumentValues(ArchiveFilter[call.fqn][1], <<ArchiveFilter[call.fqn][2]>>)
    IN /\ "no-unsafe-unzip" \in reports => filters = {None}
       /\ PlainObject(ArchiveFilter[call.fqn][1]) /\ filters = {None} => "no-unsafe-unzip" \in reports

\* A command that the file does not show is reported exactly when a shell runs it: for
\* spawn and execFile when their options ask for one, in the call itself (isQuestionable).
ShellCommandsAreReported ==
  done /\ call.fqn \in EXEC_FUNCTIONS \cup SPAWN_EXEC_FILE_FUNCTIONS /\ call.arguments # <<>> =>
    LET last == Len(call.arguments)
        inPlace == last > 1 /\ PlainObject(last) /\ call.arguments[last] = ObjectArgument(last)
                   /\ \A i \in DOMAIN call.arguments[last].properties : call.arguments[last].properties[i].value.type = "Literal"
        shell == call.fqn \in EXEC_FUNCTIONS \/ ArgumentValues(last, <<"shell">>) = {True}
    IN /\ AnyValue \in Values(call.arguments[1]) /\ shell /\ (call.fqn \in EXEC_FUNCTIONS \/ inPlace) => "os-command" \in reports
       /\ PlainObject(last) /\ "os-command" \in reports => shell

\* A window on another site is reported exactly when its features do not keep the opener
\* from it, values behind one variable included (link-with-target-blank).
OpenersAreWithheld ==
  done /\ call.fqn = "window.open" /\ (\A i \in DOMAIN call.arguments : IsNear(call.arguments[i])) =>
    ("link-with-target-blank" \in reports <=>
       /\ call.arguments # <<>> /\ Values(call.arguments[1]) \subseteq HTTP_URLS
       /\ Len(call.arguments) < 3 \/ ~(Values(call.arguments[3]) \subseteq NOOPENER))

RECURSIVE StatementsIn(_)
StatementsIn(body) == Range(body) \cup UNION {StatementsIn(s.body) : s \in {t \in Range(body) : t.statement = "function"}}

\* A callback that is authenticated is reported exactly when the session is kept and no call
\* in it, in whatever function, makes a new one (session-regeneration).
KeptSessionsAreReported ==
  done /\ call.fqn = "app.post" =>
    LET callback == IF Len(call.arguments) < 3 THEN None ELSE call.arguments[3]
        kept == \E e \in Range(call.arguments) :
                  /\ IsAuthenticate(e)
                  /\ Len(e.arguments) > 1 => PathValues(e.arguments[2], <<"session">>) # {False}
    IN IsNear(callback) =>
         ("session-regeneration" \in reports <=>
            kept /\ \E f \in Values(callback) : f.type = "FunctionExpression" /\ Regenerate \notin StatementsIn(f.body))

\* csurf is reported exactly when it is told, in the call, to ignore a method that changes
\* something (checkIgnoredMethods).
IgnoredMethodsAreJudged ==
  done /\ call.fqn = "csurf" /\ call.arguments # <<>> =>
    LET ignored == ArgumentValues(1, <<"ignoreMethods">>)
        visible == PlainObject(1) /\ call.arguments[1].type = "ObjectExpression"
                   /\ \A i \in DOMAIN call.arguments[1].properties : call.arguments[1].properties[i].value.type = "ArrayExpression"
    IN visible => ("csrf" \in reports <=>
         \E list \in ignored : list # None /\ \E e \in Range(list.elements) :
           \E v \in Values(e) : v.type = "Literal" /\ e.type = "Literal" /\ v \notin {Str(m) : m \in SAFE_METHODS})

\* What a sanitizer returns for a text: the text itself, or something else.
Escapes(f) == f.params # 1 \/ Len(f.body) # 1 \/ f.body[1].argument # Argument

\* The sanitizer of mustache is reported exactly when a function that returns the text as
\* it is takes its place, wherever that function is written (isInvalidSanitizerFunction).
EmptySanitizersAreReported ==
  done /\ call.fqn = "mustache.escape" =>
    LET right == call.arguments[1]
        functions == {v \in Values(IF right.type = "Identifier" /\ right.writes = "function" THEN right.expr ELSE right) :
                        v.type = "FunctionExpression"}
    IN IsNear(right) \/ right.writes = "function" =>
         ("disabled-auto-escaping" \in reports <=> \E f \in functions : ~Escapes(f))

-----------------------------------------------------------------------------
\* Calls for the runs of SensitiveOptions.

Once(S) == S \cup {Var(e) : e \in S}

Twice(S) == Once(S) \cup {Var(Var(e)) : e \in S}

Entries(keys, values) ==
  {<<>>} \cup {<<Property(k, v)>> : k \in keys, v \in values} \cup {<<Quoted(k, v)>> : k \in keys, v \in values}

\* Objects with up to two entries, so that a key may be repeated.
Objects(keys, values) == {Object(p \o q) : p \in Entries(keys, values), q \in Entries(keys, values)}

Padding(n) == [i \in 1..n |-> Param]

\* A refused and an accepted value of an option.
OptionSamples(o) ==
  LET refused == IF o.bad = {} THEN Num(o.below - 1) ELSE CHOOSE v \in o.bad : TRUE
      accepted == IF o.bad = {} THEN Num(o.below) ELSE IF refused = True THEN False ELSE True
  IN {refused, accepted, Var(refused), Param}

OptionCalls(rules, entries(_, _)) ==
  UNION {{Call(o.fqn, Padding(o.position - 1) \o <<a>> \o Padding(n)) :
            a \in Twice(entries({o.key}, OptionSamples(o))), n \in IF o.single THEN {0, 1} ELSE {0}}
         \cup {Call(o.fqn, Padding(o.position) \o <<Object(p)>>) : p \in Entries({o.key}, OptionSamples(o))}
         \cup {Call(o.fqn, <<>>)} : o \in rules}

HeaderCalls ==
  LET ancestors == Once({Array(<<Str("'none'")>>), Array(<<Str("example.com")>>)})
      keys == {"frameAncestors", "frame-ancestors", "blockAllMixedContent", "block-all-mixed-content"}
      policies == {Str("no-referrer"), Str("unsafe-url"), Array(<<Str("no-referrer"), Str("")>>), Param}
  IN {Call(fqn, <<Object(<<Property("directives", d)>>)>>) : fqn \in {"helmet-csp", "helmet.contentSecurityPolicy"}, d \in Objects(keys, ancestors)}
     \cup {Call("helmet-csp", <<Object(<<>>)>>), Call("helmet-csp", <<Param>>)}
     \cup {Call("helmet.referrerPolicy", <<o>>) : o \in Objects({"policy"}, policies)}

CookieCalls ==
  LET cookies == Objects({"httpOnly", "secure"}, Once({True, False}))
  IN {Call(c[1], Padding(c[2]) \o <<a>>) : c \in {<<"cookie-session", 0>>, <<"cookies.set", 2>>}, a \in Once(cookies) \cup {Param}}
     \cup {Call(fqn, <<Object(<<Property("cookie", v)>>)>>) : fqn \in {"csurf", "express-session"}, v \in Once(cookies \cup {True, False}) \cup {Param}}

TlsCalls ==
  LET returns == {Return(None), Return(True), Return(Var(True)), Return(Param), NestedFunction(<<Return(Param)>>)}
      functions == {Function(b) : b \in {<<>>} \cup {<<r>> : r \in returns} \cup {<<r, s>> : r \in returns, s \in returns}}
      flags == {Name("SSL_OP_NO_TLSv1"), Name("SSL_OP_NO_TLSv1_1"), Call("flags", <<>>)}
      binaries == flags \cup {Binary(f, g) : f \in flags, g \in flags} \cup {Binary(Binary(f, g), h) : f \in flags, g \in flags, h \in flags}
      options == Once({Object(<<Property("checkServerIdentity", f)>>) : f \in Once(functions)})
                 \cup {Object(<<Property("secureOptions", b)>>) : b \in binaries}
                 \cup Objects({"minVersion", "secureProtocol"}, {Str("TLSv1"), Var(Str("TLSv1")), Str("SSLv3_method")})
                 \cup Objects({"rejectUnauthorized"}, Once({True, False}))
  IN {Call(fqn, <<o>>) : fqn \in {"https.request", "request.get", "tls.createSecureContext"}, o \in options}
     \cup {Call("tls.connect", <<Num(443), Str("host"), o>>) : o \in options}
     \cup {Call("https.request", <<Str("url"), o>>) : o \in options}

KeyCalls ==
  {Call("generateKeyPair", <<a, o>>) : a \in Once({Str("rsa"), Str("ec")}) \cup {Str("dsa"), Param},
     o \in Once(Objects({"modulusLength", "divisorLength"}, {Num(0), Num(2047), Num(2048), Var(Num(223))}))
           \cup {Object(<<Property("namedCurve", c)>>) : c \in Once({Str("secp112r1"), Str("secp256k1")})}}

TokenCalls ==
  LET lists == {Array(s) : s \in UNION {[1..n -> Once({Str("none"), Str("HS256")})] : n \in 0..2}}
      algorithms == Objects({"algorithms"}, {Param}) \cup {Object(<<Property("algorithms", l)>>) : l \in Once(lists)}
  IN {Call("jsonwebtoken.verify", <<Param, k, a>>) : k \in {NullLiteral, Param}, a \in Once(algorithms)}
     \cup {Call("jsonwebtoken.sign", <<Param, Param, a>>) : a \in Once(Objects({"algorithm"}, Once({Str("none"), Str("HS256")})))}

OtherCalls ==
  {Call(fqn, <<a>>) : fqn \in {"crypto.createHash", "crypto.subtle.digest", "crypto.createCipheriv"},
                      a \in Twice({Str("md5"), Str("sha-1"), Str("aes-128-gcm")}) \cup {Param}}
  \cup {Call("signale.Signale", <<a>>) : a \in Once(Objects({"secrets"}, {Array(<<>>), Array(<<Str("token")>>)})) \cup {Param}}
  \cup {Call("signale.Signale", <<>>)}

PermissionCalls ==
  LET names == Twice({Str("geolocation"), Str("camera"), Str("midi")}) \cup {Param}
      devices == Twice({True, False}) \cup {Param}
  IN {Call("navigator.permissions.query", <<o>>) : o \in Twice(Objects({"name"}, names)) \cup {Param}}
     \cup {Call("navigator.mediaDevices.getUserMedia", <<o>>) : o \in Once(Objects({"audio", "video"}, devices)) \cup {Param}}
     \cup {Call(fqn, <<>>) : fqn \in {"navigator.permissions.query", "navigator.mediaDevices.getUserMedia",
              "navigator.geolocation.watchPosition", "Notification.requestPermission", "navigator.storage.persist"}}
     \cup {New("Notification", <<Param>>)}

ProcessCalls ==
  LET filters == {Object(p \o s) : p \in Entries({"filter", "onEntry", "file"}, {Param}),
                                   s \in {<<>>, <<Spread(Object(<<Property("filter", Param)>>))>>, <<Spread(Param)>>}}
      commands == {Str("ls"), Var(Str("ls")), Param}
      shells == Once(Objects({"shell", "cwd"}, Once({True, False}))) \cup {Param}
      texts == Twice({Str("http://a"), Str("/a"), Str("noopener"), Str("width=1")}) \cup {Param}
  IN {Call(fqn, Padding(ArchiveFilter[fqn][1] - 1) \o <<o>>) : fqn \in DOMAIN ArchiveFilter, o \in Twice(filters) \cup {Param}}
     \cup {Call(fqn, <<>>) : fqn \in DOMAIN ArchiveFilter \cup EXEC_FUNCTIONS \cup {"yauzl.open", "window.open"}}
     \cup {Call(fqn, <<c>> \o o) : fqn \in {"child_process.execSync", "child_process.spawn"}, c \in commands,
                                    o \in {<<>>} \cup {<<s>> : s \in shells} \cup {<<Array(<<>>), s>> : s \in shells}}
     \cup {Call("window.open", <<u>> \o o) : u \in texts, o \in {<<>>} \cup {<<Param, t>> : t \in texts}}

HandlerCalls ==
  LET statements == {Regenerate, Return(Param), NestedFunction(<<Regenerate>>), NestedFunction(<<Return(Param), NestedFunction(<<Regenerate>>)>>)}
      callbacks == {Function(b) : b \in {<<>>} \cup {<<p>> : p \in statements} \cup {<<p, q>> : p \in statements, q \in statements}}
      logins == {Call("passport.authenticate", <<Param>> \o o) : o \in {<<>>} \cup {<<e>> : e \in Objects({"session"}, Once({True, False}))}}
      methods == {Str("GET"), Str("POST"), Var(Str("POST"))}
      lists == {Array(l) : l \in {<<>>} \cup {<<m>> : m \in methods} \cup {<<m, n>> : m \in methods, n \in methods}}
      sanitizers == {Sanitizer(n, b) : n \in 0..2, b \in {<<>>, <<Return(Argument)>>, <<Return(Param)>>, <<Return(Param), Return(Argument)>>}}
  IN {Call("app.post", <<Param, l, c>>) : l \in logins \cup {Param}, c \in Once(callbacks) \cup {Param}}
     \cup {Call("app.post", <<Param, l>>) : l \in logins}
     \cup {Call("csurf", <<o>>) : o \in Once(Objects({"ignoreMethods"}, lists \cup {Var(Array(<<Str("POST")>>)), Param})) \cup {Param}}
     \cup {Assignment("mustache.escape", f) : f \in Twice(sanitizers) \cup {Declared(g) : g \in sanitizers} \cup {Param}}

UseCalls == PermissionCalls \cup ProcessCalls \cup HandlerCalls

LibraryCalls == OptionCalls(OptionRules, Objects) \cup OtherCalls

ValueCalls == HeaderCalls \cup CookieCalls \cup TlsCalls \cup KeyCalls \cup TokenCalls

\* A spread after the entry.
SpreadAfter(keys, values) ==
  {Object(p \o <<Spread(e)>>) : p \in Entries(keys, values), e \in {Object(q) : q \in Entries(keys, values)} \cup {Param}}

SpreadCalls == OptionCalls({noSniff}, SpreadAfter)

=============================================================================

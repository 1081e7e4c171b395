----------------------------- MODULE RegexRules -----------------------------
(***************************************************************************)
(* Rules on one regular expression: anchor-precedence,                      *)
(* no-empty-alternatives, no-empty-after-reluctant,                         *)
(* single-character-alternation, concise-regex,                             *)
(* single-char-in-character-classes and unicode-aware-regex.  What they     *)
(* tell the reader is compared with what the regular expression matches: a  *)
(* backtracking matcher gives the ends of its matches in the order in which *)
(* they are tried.  A regular expression written as a string is located by  *)
(* tokens of the string, one for each character of the expression.          *)
(***************************************************************************)
EXTENDS Integers, Sequences, FiniteSets, SequencesExt

CONSTANTS
  Patterns,     \* regular expressions: sequences of alternatives
  Classes,      \* character classes
  Quantifiers,  \* quantifiers as they are written
  Escapes,      \* texts with a Unicode escape
  Literals,     \* string literals without their quotes: sequences of code units
  Flags,        \* sets of flags
  Strings       \* the inputs that tell regular expressions apart

VARIABLES
  visited,  \* the node the rules visit
  flags,    \* the flags of the regular expression
  reports

vars == <<visited, flags, reports>>

(***************************************************************************)
(* Nodes.  An alternative is a sequence of elements.                        *)
(***************************************************************************)
Infinity == 9

Character(c) == [type |-> "Character", matched |-> {c}]

CharacterSet(cs) == [type |-> "CharacterSet", matched |-> cs]

Assertion(kind) == [type |-> "Assertion", kind |-> kind]

Quantifier(min, max, greedy, element) ==
  [type |-> "Quantifier", min |-> min, max |-> max, greedy |-> greedy, element |-> element]

Group(alternatives) == [type |-> "Group", alternatives |-> alternatives]

Lookahead(alternatives) == [type |-> "Lookahead", alternatives |-> alternatives]

(***************************************************************************)
(* The matcher.  Positions are 1..Len(s) + 1, "n" is a line terminator.     *)
(***************************************************************************)
FirstOnly(ends) == SelectSeq([k \in DOMAIN ends |-> IF ends[k] \in {ends[l] : l \in 1..(k - 1)} THEN 0 ELSE ends[k]], LAMBDA e : e # 0)

RECURSIVE Ends(_, _, _, _), SequenceEnds(_, _, _, _), RepeatedEnds(_, _, _, _, _)

AlternativeEnds(alternatives, fs, s, i) ==
  FlattenSeq([k \in DOMAIN alternatives |-> SequenceEnds(alternatives[k], fs, s, i)])

SequenceEnds(elements, fs, s, i) ==
  IF elements = <<>> THEN <<i>>
  ELSE LET ends == Ends(Head(elements), fs, s, i)
       IN FlattenSeq([k \in DOMAIN ends |-> SequenceEnds(Tail(elements), fs, s, ends[k])])

RepeatedEnds(q, count, fs, s, i) ==
  LET once == IF count < q.max THEN Ends(q.element, fs, s, i) ELSE <<>>
      useful == SelectSeq(once, LAMBDA e : e # i \/ count < q.min)
      more == FlattenSeq([k \in DOMAIN useful |-> RepeatedEnds(q, count + 1, fs, s, useful[k])])
      stop == IF count >= q.min THEN <<i>> ELSE <<>>
  IN IF q.greedy THEN more \o stop ELSE stop \o more

Ends(e, fs, s, i) ==
  CASE e.type \in {"Character", "CharacterSet"} -> IF i <= Len(s) /\ s[i] \in e.matched THEN <<i + 1>> ELSE <<>>
    [] e.type = "Assertion" ->
         IF \/ e.kind = "start" /\ (i = 1 \/ ("m" \in fs /\ s[i - 1] = "n"))
            \/ e.kind = "end" /\ (i = Len(s) + 1 \/ ("m" \in fs /\ s[i] = "n"))
         THEN <<i>> ELSE <<>>
    [] e.type = "Group" -> FirstOnly(AlternativeEnds(e.alternatives, fs, s, i))
    [] e.type = "Lookahead" -> IF AlternativeEnds(e.alternatives, fs, s, i) = <<>> THEN <<>> ELSE <<i>>
    [] e.type = "Quantifier" -> FirstOnly(RepeatedEnds(e, 0, fs, s, i))

\* The end of the match at a position, 0 without one.
Match(alternatives, fs, s, i) ==
  LET ends == AlternativeEnds(alternatives, fs, s, i) IN IF ends = <<>> THEN 0 ELSE Head(ends)

SameMatches(a, b, fs) == \A s \in Strings : \A i \in 1..(Len(s) + 1) : Match(a, fs, s, i) = Match(b, fs, s, i)

SameEnds(e, f, fs) == \A s \in Strings : \A i \in 1..(Len(s) + 1) : Ends(e, fs, s, i) = Ends(f, fs, s, i)

(***************************************************************************)
(* anchor-precedence.                                                       *)
(***************************************************************************)
isAnchor(e) == e.type = "Assertion" /\ e.kind \in {"start", "end"}

isAnchored(elements, position) ==
  elements # <<>> /\ isAnchor(IF position = "beginning" THEN Head(elements) ELSE Last(elements))

anchoredAt(alternatives, position) ==
  isAnchored(IF position = "beginning" THEN Head(alternatives) ELSE Last(alternatives), position)

notAnchoredElseWhere(alternatives) ==
  /\ ~isAnchored(Head(alternatives), "end")
  /\ ~isAnchored(Last(alternatives), "beginning")
  /\ \A k \in 2..(Len(alternatives) - 1) : \A position \in {"beginning", "end"} : ~isAnchored(alternatives[k], position)

anchorPrecedence(alternatives) ==
  {[rule |-> "anchor"] : x \in {y \in {1} :
     /\ Len(alternatives) > 1
     /\ anchoredAt(alternatives, "beginning") \/ anchoredAt(alternatives, "end")
     /\ notAnchoredElseWhere(alternatives)}}

(***************************************************************************)
(* no-empty-alternatives and single-character-alternation: parent is the    *)
(* type of the node above an alternation, "" for the whole pattern.         *)
(***************************************************************************)
isLastEmptyInGroup(type, parent, alternatives, k) ==
  type = "Group" /\ k = Len(alternatives) /\ parent # "Quantifier"

checkEmpty(type, parent, alternatives) ==
  {[rule |-> "empty", type |-> type, alternatives |-> alternatives, index |-> k] :
     k \in {l \in DOMAIN alternatives :
              Len(alternatives) > 1 /\ alternatives[l] = <<>> /\ ~isLastEmptyInGroup(type, parent, alternatives, l)}}

checkAlternation(alternatives) ==
  {[rule |-> "class", alternatives |-> alternatives] : x \in {y \in {1} :
     Len(alternatives) > 1
     /\ \A k \in DOMAIN alternatives : Len(alternatives[k]) = 1 /\ alternatives[k][1].type = "Character"}}

RECURSIVE Below(_, _)

\* The groups of an element, with the type of their parents.
Below(e, parent) ==
  CASE e.type = "Quantifier" -> Below(e.element, "Quantifier")
    [] e.type \in {"Group", "Lookahead"} ->
         {[node |-> e, parent |-> parent]}
         \cup UNION {UNION {Below(e.alternatives[k][l], "Alternative") : l \in DOMAIN e.alternatives[k]} : k \in DOMAIN e.alternatives}
    [] OTHER -> {}

GroupsOf(alternatives) == UNION {UNION {Below(alternatives[k][l], "Alternative") : l \in DOMAIN alternatives[k]} : k \in DOMAIN alternatives}

(***************************************************************************)
(* no-empty-after-reluctant, on the alternatives of the whole pattern.      *)
(***************************************************************************)
Reluctant(e) == e.type = "Quantifier" /\ ~e.greedy

ReluctantIssue(elements, index, advice) ==
  {[rule |-> "reluctant", elements |-> elements, index |-> index, advice |-> advice]}

checkElements(elements) ==
  LET n == Len(elements) IN
  IF n = 0 THEN {}
  ELSE IF Reluctant(elements[n]) THEN ReluctantIssue(elements, n, "min")
  ELSE IF n = 1 \/ ~Reluctant(elements[n - 1]) THEN {}
  ELSE IF elements[n].type = "Assertion" /\ elements[n].kind = "end" THEN ReluctantIssue(elements, n - 1, "greedy")
  ELSE IF elements[n].type = "Quantifier" /\ elements[n].min = 0 THEN ReluctantIssue(elements, n - 1, "min")
  ELSE {}

(***************************************************************************)
(* concise-regex and single-char-in-character-classes.  An element of a     *)
(* class is [type, raw, inside, outside]: what it matches in a class and    *)
(* what its text matches outside of one ("syntax" when it is something      *)
(* else there).                                                             *)
(***************************************************************************)
Alphabet == {"a", "A", "0", "_", " ", "n", "-"}

Meaning(class) ==
  LET union == UNION {class.elements[k].inside : k \in DOMAIN class.elements}
  IN IF class.negate THEN Alphabet \ union ELSE union

Raws(class) == {class.elements[k].raw : k \in DOMAIN class.elements}

ClassIssue(concise) == {[rule |-> "concise", concise |-> concise]}

ConciseMeaning(concise, fs) ==
  CASE concise = "." -> IF "s" \in fs THEN Alphabet ELSE Alphabet \ {"n"}
    [] concise = "\\d" -> {"0"}
    [] concise = "\\D" -> Alphabet \ {"0"}
    [] concise = "\\w" -> {"a", "A", "0", "_"}
    [] concise = "\\W" -> {" ", "n", "-"}

checkBulkyAnyCharacterClass(class, fs) ==
  IF class.negate \/ Len(class.elements) # 2 THEN {}
  ELSE IF \/ Raws(class) = {"\\w", "\\W"}
          \/ Raws(class) = {"\\d", "\\D"}
          \/ Raws(class) = {"\\s", "\\S"} /\ "s" \in fs
       THEN ClassIssue(".") ELSE {}

checkBulkyNumericCharacterClass(class) ==
  IF Len(class.elements) = 1 /\ Raws(class) = {"0-9"} THEN ClassIssue(IF class.negate THEN "\\D" ELSE "\\d") ELSE {}

checkBulkyAlphaNumericCharacterClass(class) ==
  IF Len(class.elements) = 4 /\ Raws(class) = {"0-9", "a-z", "A-Z", "_"}
  THEN ClassIssue(IF class.negate THEN "\\W" ELSE "\\w") ELSE {}

EXCEPTION_META_CHARACTERS == {"[", "{", "(", ".", "?", "+", "*", "$", "^", "\\", "\\\\"}

hasSingleForbiddenCharacter(class) ==
  /\ Len(class.elements) = 1
  /\ class.elements[1].type # "CharacterClassRange"
  /\ class.elements[1].raw \notin EXCEPTION_META_CHARACTERS

checkSingle(class) ==
  IF hasSingleForbiddenCharacter(class) /\ ~class.negate
  THEN {[rule |-> "single", outside |-> class.elements[1].outside]} ELSE {}

(***************************************************************************)
(* checkBulkyQuantifier.  A quantifier is written [braces, min, max]:       *)
(* braces has the number of its parts: 1 for {n}, 2 for {n,m}, 3 for {n,}   *)
(* and 0 for a sign.                                                        *)
(***************************************************************************)
Bounds(sign) ==
  CASE sign = "?" -> <<0, 1>>
    [] sign = "*" -> <<0, Infinity>>
    [] sign = "+" -> <<1, Infinity>>
    [] sign = "remove quantifier" -> <<1, 1>>
    [] sign = "remove all" -> <<0, 0>>

QuantifierIssue(bounds) == {[rule |-> "quantifier", bounds |-> bounds]}

checkBulkyQuantifier(q) ==
  CASE q.braces = 2 /\ <<q.min, q.max>> = <<0, 1>> -> QuantifierIssue(Bounds("?"))
    [] q.braces = 2 /\ <<q.min, q.max>> = <<0, 0>> -> QuantifierIssue(Bounds("remove all"))
    [] q.braces = 1 /\ q.min = 0 -> QuantifierIssue(Bounds("remove all"))
    [] q.braces = 2 /\ <<q.min, q.max>> = <<1, 1>> -> QuantifierIssue(Bounds("remove quantifier"))
    [] q.braces = 1 /\ q.min = 1 -> QuantifierIssue(Bounds("remove quantifier"))
    [] q.braces = 3 /\ q.min = 0 -> QuantifierIssue(Bounds("*"))
    [] q.braces = 3 /\ q.min = 1 -> QuantifierIssue(Bounds("+"))
    [] q.braces = 2 /\ q.min = q.max -> QuantifierIssue(<<q.min, q.min>>)
    [] OTHER -> {}

(***************************************************************************)
(* unicode-aware-regex.  An escape is the text after its first two          *)
(* characters, [letter, before, text]: "p" or "u", the number of characters *)
(* before it, and the characters after it.                                  *)
(***************************************************************************)
Alpha == {"x"}

\* The text goes on with the slash at the end of the literal.
At(text, k) == IF k <= Len(text) THEN text[k] ELSE "/"

nextState(state, c) ==
  CASE state = "start" -> IF c = "{" THEN "openingBracket" ELSE "end"
    [] state = "openingBracket" -> IF c \in Alpha THEN "alpha" ELSE "end"
    [] state = "alpha" -> IF c \in Alpha THEN "alpha" ELSE IF c = "=" THEN "equal" ELSE IF c = "}" THEN "closingBracket" ELSE "end"
    [] state = "equal" -> IF c \in Alpha THEN "alpha1" ELSE "end"
    [] state = "alpha1" -> IF c \in Alpha THEN "alpha1" ELSE IF c = "}" THEN "closingBracket" ELSE "end"
    [] OTHER -> "end"

RECURSIVE Scan(_, _, _)

\* The characters read when the state is "end", and whether a bracket was closed.
Scan(state, text, k) ==
  LET next == nextState(state, At(text, k))
  IN IF next = "end" THEN [read |-> k, found |-> state = "closingBracket"] ELSE Scan(next, text, k + 1)

\* The offset is one of the whole pattern: it counts what is before the escape too.
onCharacterEnter(e, fs) ==
  LET scan == Scan("start", e.text, 1)
      start == e.before + 1
      offset == start + 2 + scan.read - 3
  IN IF e.letter = "p" /\ "u" \notin fs /\ scan.found
     THEN {[rule |-> "property", from |-> start, to |-> start + 2 + offset]} ELSE {}

RECURSIVE NumberOfDigits(_)

NumberOfDigits(text) == IF Len(text) > 1 /\ text[1] = "0" THEN NumberOfDigits(Tail(text)) ELSE Len(text)

\* The text between the brackets is a number: the one of the quantifier of \u.
DigitsOf(text) == IF Len(text) > 2 THEN SubSeq(text, 2, Len(text) - 1) ELSE <<>>

onQuantifierEnter(e, fs) ==
  LET digits == DigitsOf(e.text)
  IN IF /\ e.letter = "u" /\ "u" \notin fs
        /\ digits # <<>> /\ At(e.text, 1) = "{" /\ Last(e.text) = "}"
        /\ \A k \in DOMAIN digits : digits[k] \in {"0", "1"}
        /\ NumberOfDigits(digits) \in {4, 5}
     THEN {[rule |-> "character"]} ELSE {}

\* getLocFromIndex throws for an index behind the end of the file: the rule
\* fails and nothing is reported.  The file is the regular expression and "trailing" characters.
onRegExpLiteralLeave(e, found) ==
  LET length == 1 + e.before + 2 + Len(e.text) + 1 + e.trailing
  IN IF \E r \in found : r.rule = "property" /\ r.to > length THEN {[rule |-> "failure"]} ELSE found

(***************************************************************************)
(* Locations in string literals.  Positions in s start at 0; a token has    *)
(* the code units of its value and its range, whose end is excluded.        *)
(***************************************************************************)
BACK_SLASH == 92
FORWARD_SLASH == 47
CR == 13
LF == 10
UNICODE_ESCAPE_LENGTH == 4
HEX_ESCAPE_LENGTH == 2

\* The code point at a position, -1 behind the end; a pair of surrogates is one.
cp(s, i) ==
  LET unit == s[i + 1] IN
  IF i >= Len(s) THEN -1
  ELSE IF unit \in 55296..56319 /\ i + 1 < Len(s) THEN 65536 + (unit - 55296) * 1024 + (s[i + 2] - 56320)
  ELSE unit

inc(pos, c) == pos + (IF c >= 65536 THEN 2 ELSE 1)

fromCodePoint(c) ==
  IF c >= 65536 THEN <<55296 + ((c - 65536) \div 1024), 56320 + ((c - 65536) % 1024)>> ELSE <<c>>

\* Digits and the letters a to f.
DigitValue(unit) == IF unit < 58 THEN unit - 48 ELSE unit - 87

parseInt(units, base) == FoldLeft(LAMBDA n, unit : n * base + DigitValue(unit), 0, units)

substring(s, from, to) == SubSeq(s, from + 1, to)

isOctalDigit(c) == c \in 48..55

readUnicode(s, pos) ==
  IF cp(s, pos) = 123
  THEN LET close == CHOOSE i \in pos..(Len(s) - 1) : cp(s, i) = 125 /\ \A j \in pos..(i - 1) : cp(s, j) # 125
       IN [value |-> fromCodePoint(parseInt(substring(s, pos + 1, close), 16)), pos |-> close + 1]
  ELSE [value |-> fromCodePoint(parseInt(substring(s, pos, pos + UNICODE_ESCAPE_LENGTH), 16)),
        pos |-> pos + UNICODE_ESCAPE_LENGTH]

readHex(s, pos) ==
  [value |-> fromCodePoint(parseInt(substring(s, pos, pos + HEX_ESCAPE_LENGTH), 16)), pos |-> pos + HEX_ESCAPE_LENGTH]

\* The first digit stands before pos.
readOctal(s, pos) ==
  LET end == CHOOSE i \in pos..(pos + 2) :
               /\ \A j \in pos..(i - 1) : isOctalDigit(cp(s, j))
               /\ i = pos + 2 \/ ~isOctalDigit(cp(s, i))
  IN [value |-> fromCodePoint(parseInt(substring(s, pos - 1, end), 8)), pos |-> end]

\* n, r, t, b, v, f and the back slash.
SimpleEscapes == (110 :> 10) @@ (114 :> 13) @@ (116 :> 9) @@ (98 :> 8) @@ (118 :> 11) @@ (102 :> 12) @@ (92 :> 92)

readEscape(s, pos) ==
  LET c == cp(s, pos)
      after == inc(pos, c)
  IN CASE c \in DOMAIN SimpleEscapes -> [value |-> <<SimpleEscapes[c]>>, pos |-> after]
       [] c = CR -> [value |-> <<>>, pos |-> IF cp(s, after) = LF THEN after + 1 ELSE after]
       [] c = LF -> [value |-> <<>>, pos |-> after]
       [] c = 117 -> readUnicode(s, after)
       [] c = 120 -> readHex(s, after)
       [] isOctalDigit(c) -> readOctal(s, after)
       [] OTHER -> [value |-> fromCodePoint(c), pos |-> after]

Token(value, from, to) == [value |-> value, from |-> from, to |-> to]

RECURSIVE TokensFrom(_, _)

\* A forward slash has two tokens: the source of a regular expression has it escaped.
TokensFrom(s, pos) ==
  IF pos >= Len(s) THEN <<>>
  ELSE LET c == cp(s, pos)
           after == inc(pos, c)
           escape == readEscape(s, after)
       IN IF c = BACK_SLASH
          THEN (IF escape.value = <<>> THEN <<>> ELSE <<Token(escape.value, pos, escape.pos)>>) \o TokensFrom(s, escape.pos)
          ELSE LET token == Token(fromCodePoint(c), pos, after)
               IN (IF c = FORWARD_SLASH THEN <<token, token>> ELSE <<token>>) \o TokensFrom(s, after)

tokenizeString(s) == TokensFrom(s, 0)

\* The range of a node of the regular expression, whose positions start at 1, in the literal
\* with its quotes.
getRegexpRange(s, node) ==
  LET tokens == tokenizeString(s)
      least(i, j) == IF i < j THEN i ELSE j
      first == node.start - 1
      final == least(node.end - 2, Len(tokens) - 1)
  IN CASE tokens = <<>> -> <<0, 2>>
       [] tokens # <<>> /\ node.start = node.end ->
            IF first < Len(tokens) THEN <<tokens[first + 1].from + 1, tokens[first + 1].from + 1>>
            ELSE <<Last(tokens).to + 1, Last(tokens).to + 1>>
       [] tokens # <<>> /\ node.start # node.end ->
            IF first >= Len(tokens) \/ final < 0 THEN <<0, Len(s) + 2>>
            ELSE <<tokens[first + 1].from + 1, tokens[final + 1].to + 1>>

(***************************************************************************)
(* What a literal means, by the grammar of the language: the characters of  *)
(* its string, each [unit, from, to] with the text it is written with; and  *)
(* the source of the regular expression, in which a slash is escaped.       *)
(***************************************************************************)
EscapeEnd(s, i) ==
  LET c == cp(s, i + 1)
      octals == {n \in 1..3 : \A k \in 1..n : isOctalDigit(cp(s, i + k))}
      brace == CHOOSE j \in i..Len(s) : cp(s, j) = 125 /\ \A k \in i..(j - 1) : cp(s, k) # 125
  IN CASE c = 117 -> IF cp(s, i + 2) = 123 THEN brace + 1 ELSE i + 6
       [] c = 120 -> i + 4
       [] c = CR /\ cp(s, i + 2) = LF -> i + 3
       [] isOctalDigit(c) -> i + 1 + Cardinality({n \in octals : n < 3 \/ c <= 51})
       [] OTHER -> inc(i + 1, c)

RECURSIVE Written(_, _)
Written(s, i) ==
  IF i >= Len(s) THEN <<>>
  ELSE LET end == IF cp(s, i) = BACK_SLASH THEN EscapeEnd(s, i) ELSE inc(i, cp(s, i))
       IN <<[from |-> i, to |-> end]>> \o Written(s, end)

IsContinuation(s, w) == cp(s, w.from) = BACK_SLASH /\ cp(s, w.from + 1) \in {CR, LF}

\* The text of every character of the string, in order.
CharactersOf(s) == SelectSeq(Written(s, 0), LAMBDA w : ~IsContinuation(s, w))

(***************************************************************************)
(* Visits.                                                                  *)
(***************************************************************************)
Nothing == [kind |-> "none"]

Init == visited = Nothing /\ flags = {} /\ reports = {}

Visit(node, found) == visited = Nothing /\ visited' = node /\ reports' = found

VisitPattern ==
  \E p \in Patterns : \E fs \in Flags :
    /\ Visit([kind |-> "pattern", node |-> p],
         anchorPrecedence(p) \cup checkEmpty("Pattern", "", p) \cup checkAlternation(p)
         \cup UNION {checkElements(p[k]) : k \in DOMAIN p}
         \cup UNION {(IF g.node.type = "Group" THEN checkEmpty("Group", g.parent, g.node.alternatives) ELSE {})
                     \cup checkAlternation(g.node.alternatives) : g \in GroupsOf(p)})
    /\ flags' = fs

VisitClass ==
  \E c \in Classes : \E fs \in Flags :
    /\ Visit([kind |-> "class", node |-> c],
         checkBulkyAnyCharacterClass(c, fs) \cup checkBulkyNumericCharacterClass(c)
         \cup checkBulkyAlphaNumericCharacterClass(c) \cup checkSingle(c))
    /\ flags' = fs

VisitQuantifier ==
  \E q \in Quantifiers : Visit([kind |-> "quantifier", node |-> q], checkBulkyQuantifier(q)) /\ flags' = {}

VisitEscape ==
  \E e \in Escapes : \E fs \in Flags :
    /\ Visit([kind |-> "escape", node |-> e], onRegExpLiteralLeave(e, onCharacterEnter(e, fs) \cup onQuantifierEnter(e, fs)))
    /\ flags' = fs

\* reportRegExpNode, on every node that the literal may have: which nodes it has is for regexpp
\* to say.
VisitLiteral ==
  \E s \in Literals :
    /\ Visit([kind |-> "literal", node |-> s],
         LET places == 1..(Len(tokenizeString(s)) + 3)
         IN {[rule |-> "location", start |-> n[1], end |-> n[2], range |-> getRegexpRange(s, [start |-> n[1], end |-> n[2]])] :
               n \in {m \in places \X places : m[1] <= m[2]}})
    /\ flags' = {}

Again == visited # Nothing /\ visited' = Nothing /\ flags' = {} /\ reports' = {}

Next == VisitPattern \/ VisitClass \/ VisitQuantifier \/ VisitEscape \/ VisitLiteral \/ Again

Spec == Init /\ [][Next]_vars

(***************************************************************************)
(* Properties.                                                              *)
(***************************************************************************)
\* Where anchor-precedence asks to group the alternatives, the anchors at the ends really
\* belong to one alternative only: taking them out of it changes what is matched.
GroupingMatters ==
  \A r \in reports : r.rule = "anchor" =>
    LET p == visited.node
        first == IF anchoredAt(p, "beginning") THEN <<Head(Head(p))>> ELSE <<>>
        last == IF anchoredAt(p, "end") THEN <<Last(Last(p))>> ELSE <<>>
        Bare(k) == LET b == IF k = 1 /\ first # <<>> THEN Tail(p[k]) ELSE p[k]
                   IN IF k = Len(p) /\ last # <<>> THEN Front(b) ELSE b
    IN ~SameMatches(p, <<first \o <<Group([k \in DOMAIN p |-> Bare(k)])>> \o last>>, flags)

\* The only empty alternative of a group, if no-empty-alternatives does not report it, makes the group
\* optional: the group without it, with a question mark, has the same matches in the same order.
SparedEmptyIsOptional ==
  visited.kind = "pattern" =>
    \A g \in {h \in GroupsOf(visited.node) : h.node.type = "Group"} :
      LET alternatives == g.node.alternatives IN
      \A k \in DOMAIN alternatives :
        (Len(alternatives) > 1 /\ {l \in DOMAIN alternatives : alternatives[l] = <<>>} = {k}
         /\ [rule |-> "empty", type |-> "Group", alternatives |-> alternatives, index |-> k] \notin reports)
        => /\ g.parent # "Quantifier"
           /\ SameEnds(g.node, Quantifier(0, 1, TRUE, Group(RemoveAt(alternatives, k))), flags)

\* An alternation single-character-alternation reports matches what a character class matches.
AlternationIsAClass ==
  \A r \in reports : r.rule = "class" =>
    \E cs \in SUBSET {"a", "b", "n"} : SameEnds(Group(r.alternatives), CharacterSet(cs), flags)

Reluctance(r, fs) ==
  LET q == r.elements[r.index]
      min == Quantifier(q.min, q.min, TRUE, q.element)
  IN SameMatches(<<r.elements>>, <<[r.elements EXCEPT ![r.index] =
       IF r.advice = "min" THEN min ELSE Quantifier(q.min, q.max, TRUE, q.element)]>>, fs)

\* A reluctant quantifier reported as repeating the minimum of times only, or as the same as a
\* greedy one, is so on every input, without the flag m.
ReluctanceIsUseless ==
  \A r \in reports : (r.rule = "reluctant" /\ "m" \notin flags) => Reluctance(r, flags)

\* The same with the flag m: a reluctant quantifier before $ stops at the first end of a line
\* (the rule says it behaves like a greedy one).
ReluctanceIsUselessOnLines ==
  \A r \in reports : r.rule = "reluctant" => Reluctance(r, flags)

\* The class concise-regex suggests matches the same characters (a dot only with the flag s).
ConciseClassIsEqual ==
  \A r \in reports : (r.rule = "concise" /\ (r.concise = "." => "s" \in flags))
    => ConciseMeaning(r.concise, flags) = Meaning(visited.node)

\* The same for the dot suggested without the flag s, which does not match line terminators.
ConciseDotIsEqual ==
  \A r \in reports : r.rule = "concise" => ConciseMeaning(r.concise, flags) = Meaning(visited.node)

\* A character that single-char-in-character-classes asks to take out of its class means the
\* same outside of it.
SingleMeansTheSame ==
  \A r \in reports : r.rule = "single" => r.outside = Meaning(visited.node)

\* The quantifier concise-regex suggests has the bounds of the one it replaces.
ConciseQuantifierIsEqual ==
  \A r \in reports : r.rule = "quantifier" => r.bounds = <<visited.node.min, visited.node.max>>

\* Texts such as {Alpha} and {Script=Latin}: what a Unicode property escape goes on with.
IsProperty(text) ==
  \E n \in 3..Len(text) : \E eq \in 0..n :
    /\ text[1] = "{" /\ text[n] = "}"
    /\ \A k \in 2..(n - 1) : IF k = eq THEN text[k] = "=" ELSE text[k] \in Alpha
    /\ eq = 0 \/ (eq > 2 /\ eq < n - 1)

\* Unicode property escapes without the flag u, and only they, are found, when enough text
\* follows the regular expression.
PropertiesAreFound ==
  (visited.kind = "escape" /\ visited.node.letter = "p" /\ visited.node.trailing > visited.node.before)
    => ((\E r \in reports : r.rule = "property") <=> (IsProperty(visited.node.text) /\ "u" \notin flags))

\* The same wherever the regular expression stands in the file: an issue is raised.
PropertiesAreReported ==
  (visited.kind = "escape" /\ visited.node.letter = "p" /\ IsProperty(visited.node.text) /\ "u" \notin flags)
    => (\E r \in reports : r.rule = "property")

\* Code point escapes \u{hhhh} and \u{hhhhh} of decimal digits are reported without the flag u.
CodePointsAreReported ==
  (visited.kind = "escape" /\ visited.node.letter = "u" /\ "u" \notin flags
   /\ Len(visited.node.text) \in {6, 7} /\ visited.node.text[1] = "{" /\ Last(visited.node.text) = "}"
   /\ \A k \in 2..(Len(visited.node.text) - 1) : visited.node.text[k] \in {"0", "1"})
  => [rule |-> "character"] \in reports

\* What shifts positions: line terminators, which the source of a regular expression has
\* escaped, characters of two code units, slashes after a back slash, which are not escaped
\* again, and slashes written with an escape, which have one token.
IsShifted(s) ==
  LET tokens == tokenizeString(s) IN
  \E k \in DOMAIN tokens :
    \/ tokens[k].value \in {<<LF>>, <<CR>>} \/ Len(tokens[k].value) > 1
    \/ tokens[k].value = <<FORWARD_SLASH>> /\ tokens[k].to > tokens[k].from + 1
    \/ k > 1 /\ tokens[k].value = <<FORWARD_SLASH>> /\ tokens[k - 1].value = <<BACK_SLASH>>

\* The positions in the source before the characters of the string: a slash takes two.
PlaceOf(s, characters, k) ==
  LET slashes == {j \in 1..(k - 1) : cp(s, characters[j].to - 1) = FORWARD_SLASH}
  IN k + Cardinality(slashes)

\* The nodes from one character of the regular expression to another are located at the text
\* of these characters in the literal, escapes and line continuations included, and an empty
\* node before the character that follows it (helpers/regex/range.ts, tokenizer.ts).
LocationsAreThoseOfTheText ==
  visited.kind = "literal" =>
    LET s == visited.node
        characters == CharactersOf(s)
        place(k) == PlaceOf(s, characters, k)
    IN ~IsShifted(s) /\ characters # <<>> =>
         \A k \in DOMAIN characters : \A l \in k..Len(characters) :
           /\ [rule |-> "location", start |-> place(k), end |-> place(l + 1),
               range |-> <<characters[k].from + 1, characters[l].to + 1>>] \in reports
           /\ [rule |-> "location", start |-> place(k), end |-> place(k),
               range |-> <<characters[k].from + 1, characters[k].from + 1>>] \in reports

\* Whatever regexpp says of the positions, the location of a node lies inside its literal, so
\* that getLocFromIndex finds it.
LocationsAreInTheLiteral ==
  \A r \in reports : r.rule = "location" => 0 <= r.range[1] /\ r.range[1] <= r.range[2] /\ r.range[2] <= Len(visited.node) + 2

-----------------------------------------------------------------------------
\* Patterns, classes, quantifiers and escapes for the runs of RegexRules.

a == Character("a")
b == Character("b")
all == CharacterSet({"a", "b", "n"})
start == Assertion("start")
end == Assertion("end")

AllStrings == UNION {[1..n -> {"a", "b", "n"}] : n \in 0..3}

ShortStrings == UNION {[1..n -> {"a", "b", "n"}] : n \in 0..2}

\* Alternatives with a start at their beginning and an end at their end only.
Anchored == {<<>>, <<a>>, <<start>>, <<end>>, <<start, a>>, <<a, end>>, <<start, a, end>>, <<b>>, <<a, b>>}

AnchorPatterns == UNION {[1..n -> Anchored] : n \in 1..3}

\* An assertion and an empty alternative in one group are left out: an optional group does not
\* take an empty match of the assertion.
GroupAlternatives == UNION {[1..n -> {<<a>>, <<b>>, <<a, b>>, e}] : n \in 1..3, e \in {<<>>, <<start>>}}

GroupPatterns ==
  {<<<<Group(g)>>>> : g \in GroupAlternatives} \cup {<<<<Group(g), b>>>> : g \in GroupAlternatives}
  \cup {<<<<Quantifier(0, 1, TRUE, Group(g))>>>> : g \in GroupAlternatives}
  \cup {<<<<Lookahead(g)>>, <<a>>>> : g \in GroupAlternatives}
  \cup {<<<<Group(<<<<Group(g)>>, <<a>>>>)>>>> : g \in GroupAlternatives}

Repeated == {Quantifier(min, max, greedy, e) : min \in 0..1, max \in {1, Infinity}, greedy \in BOOLEAN, e \in {a, b, all}}

ReluctantPatterns == {<<p>> : p \in UNION {[1..n -> Repeated \cup {a, end}] : n \in 1..2}} \cup {<<<<a, q, e>>>> : q \in Repeated, e \in Repeated \cup {b, end}}

\* Elements of classes.
Class(negate, elements) == [negate |-> negate, elements |-> elements]

E(type, raw, inside, outside) == [type |-> type, raw |-> raw, inside |-> inside, outside |-> outside]

Same(type, raw, inside) == E(type, raw, inside, inside)

Words == {"a", "A", "0", "_"}

ClassElements ==
  {Same("CharacterSet", "\\w", Words), Same("CharacterSet", "\\W", Alphabet \ Words),
   Same("CharacterSet", "\\d", {"0"}), Same("CharacterSet", "\\D", Alphabet \ {"0"}),
   Same("CharacterSet", "\\s", {" ", "n"}), Same("CharacterSet", "\\S", Alphabet \ {" ", "n"}),
   Same("CharacterClassRange", "0-9", {"0"}), Same("CharacterClassRange", "a-z", {"a"}),
   Same("CharacterClassRange", "A-Z", {"A"}), Same("Character", "_", {"_"})}

Ranges == {e \in ClassElements : e.raw \in {"0-9", "a-z", "A-Z", "_", "\\s"}}

BulkyClasses ==
  {Class(negate, es) : negate \in BOOLEAN, es \in UNION {[1..n -> ClassElements] : n \in 1..2} \cup [1..4 -> Ranges]}

\* Single characters: plain ones, escaped ones, and those with a meaning outside of a class.
Syntax == {"syntax"}

SingleClasses ==
  {Class(FALSE, <<e>>) : e \in
    {Same("Character", "a", {"a"}), Same("Character", "\\n", {"n"}), Same("Character", "-", {"-"})}
    \cup {E("Character", raw, {"-"}, Syntax) : raw \in {"[", "{", "(", ".", "?", "+", "*", "$", "^"}}}
  \cup {Class(TRUE, <<Same("Character", "a", {"a"})>>)}

OddClasses == SingleClasses \cup {Class(FALSE, <<E("Character", raw, {"-"}, Syntax)>>) : raw \in {"|", ")", "/", "\\b"}}

AllQuantifiers ==
  {[braces |-> 2, min |-> min, max |-> max] : min \in 0..3, max \in 0..3}
  \cup {[braces |-> 1, min |-> n, max |-> n] : n \in 0..3}
  \cup {[braces |-> 3, min |-> n, max |-> Infinity] : n \in 0..3}
  \cup {[braces |-> 0, min |-> n, max |-> Infinity] : n \in 0..1}

Escape(letter, before, text, trailing) == [letter |-> letter, before |-> before, text |-> text, trailing |-> trailing]

PropertyTexts == UNION {[1..n -> {"{", "}", "=", "x"}] : n \in 0..5}

PropertyEscapes == {Escape("p", before, text, 4) : before \in {0, 3}, text \in PropertyTexts}

LateEscapes == {Escape("p", before, <<"{", "x", "}">>, trailing) : before \in 0..4, trailing \in 0..4}

Bracketed(digits) == <<"{">> \o digits \o <<"}">>

CodePointEscapes == {Escape("u", 0, Bracketed(<<"1">> \o ds), 0) : ds \in UNION {[1..n -> {"0", "1"}] : n \in 1..5}}

AnyEscapes == PropertyEscapes \cup CodePointEscapes

PaddedEscapes == {Escape("u", 0, Bracketed(ds), 0) : ds \in UNION {[1..n -> {"0", "1"}] : n \in 1..5}}

None == {}

\* a, |, /, 1, \\, \/, \n, \x61, \u0061, \u{61}, \1, \0, line continuations and a pair of
\* surrogates.
Fragments ==
  {<<97>>, <<124>>, <<47>>, <<49>>, <<92, 92>>, <<92, 47>>, <<92, 110>>, <<92, 120, 54, 49>>,
   <<92, 117, 48, 48, 54, 49>>, <<92, 117, 123, 54, 49, 125>>, <<92, 49>>, <<92, 48>>, <<92, 13, 10>>, <<92, 10>>,
   <<55357, 56832>>}

StringLiterals == {FlattenSeq(f) : f \in UNION {[1..n -> Fragments] : n \in 0..3}}

NoFlags == {{}}
SomeFlags == SUBSET {"m", "s"}
UnicodeFlags == SUBSET {"u"}

=============================================================================

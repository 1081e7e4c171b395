--------------------------- MODULE CommentedCode ---------------------------
(***************************************************************************)
(* Commented-out code (S125, no-commented-code.ts) and the recognizers it   *)
(* relies on.  Line comments on adjacent lines are grouped, the text of a   *)
(* group gets the braces it lacks, a footprint decides whether one of its   *)
(* lines looks like code, and only then the text is parsed.  A text is a    *)
(* sequence of symbols, each with a flag for the white space before it.     *)
(***************************************************************************)
EXTENDS Integers, Sequences, FiniteSets, SequencesExt, FiniteSetsExt

CONSTANTS
  Texts,      \* texts of comments
  MaxItems    \* bound on the comments and tokens of a file

CommentsAssumption == MaxItems \in Nat

VARIABLES
  file,       \* comments and code tokens in source order
  reports     \* [nodes, removed] of every context.report, or <<>> before Program:exit

vars == <<file, reports>>

(***************************************************************************)
(* The detectors.  A detector returns how often it matches in a line.       *)
(***************************************************************************)
Syms(line) == [i \in DOMAIN line |-> line[i].sym]

EndOfLines == {";", "{", "}"}

EndWith(line) ==
  LET decisive == {i \in DOMAIN line : line[i].sym \notin {"*", "/"}}
  IN IF decisive # {} /\ line[Max(decisive)].sym \in EndOfLines THEN 1 ELSE 0

\* A word is counted when it stands alone between separators: white space, brackets, commas.
Keywords(line, words) ==
  Cardinality({i \in DOMAIN line :
    /\ line[i].sym \in words
    /\ \A j \in {i + 1} \cap DOMAIN line : line[j].gap \/ line[j].sym \in {"(x)", "{", "}"}})

Operators == {"||"}

ReservedWords == {"return", "import"}

\* Only the first run of white space is removed before the search.
FirstGap(line) ==
  LET gaps == {i \in DOMAIN line : line[i].gap} IN IF gaps = {} THEN 0 ELSE Min(gaps)

Joined(line, i) == ~line[i].gap \/ i = FirstGap(line)

Follows(line, first, second) ==
  {i \in DOMAIN line : i > 1 /\ line[i].sym = second /\ line[i - 1].sym = first}

ContainsScan(line) ==
  Cardinality({i \in Follows(line, "if", "(x)") : Joined(line, i)})
  + Cardinality({i \in DOMAIN line : line[i].sym = "this."})
  + Cardinality({i \in Follows(line, "import", "'x'") : ~Joined(line, i)})

\* The cases of the characters of a line: of a lower-case word, a capitalised one, anything else.
Cases(line) ==
  FlattenSeq([i \in DOMAIN line |->
    (IF line[i].gap THEN <<"none">> ELSE <<>>) \o
    (CASE line[i].sym \in {"word", "return", "import", "if", "break"} -> <<"lower", "lower">>
       [] line[i].sym = "Word" -> <<"upper", "lower">>
       [] line[i].sym \in {"call", "this."} -> <<"lower", "none">>
       [] OTHER -> <<"none">>)])

\* A character without case is equal to its lower and to its upper case.
CamelCase(line) ==
  LET chars == <<"none">> \o Cases(line)
  IN IF \E i \in 2..Len(chars) : chars[i - 1] # "upper" /\ chars[i] # "lower" THEN 1 ELSE 0

(***************************************************************************)
(* The probability that a line is code is one minus the product over the    *)
(* detectors of (1 - p) ^ matches: 0.05, 0.3, 0.7, 0.05 and 0.5.  The line   *)
(* is code when the product is at most 0.1.                                 *)
(***************************************************************************)
recognition(line) ==
  LET strong == Keywords(line, Operators)
      weak == Keywords(line, ReservedWords)
      certain == EndWith(line) + ContainsScan(line)
  IN [num |-> 3 ^ strong * 7 ^ weak,
      den |-> 20 ^ certain * 10 ^ (strong + weak) * 2 ^ CamelCase(line)]

isCode(line) == recognition(line).num * 10 <= recognition(line).den

couldBeJsCode(lines) == \E n \in DOMAIN lines : isCode(lines[n])

(***************************************************************************)
(* injectMissingBraces and the parser.                                     *)
(***************************************************************************)
Count(text, sym) == Cardinality({i \in DOMAIN text : text[i] = sym})

Fill(n, sym) == [i \in 1..n |-> [gap |-> FALSE, sym |-> sym]]

injectMissingBraces(lines) ==
  LET missing == Count(Syms(FlattenSeq(lines)), "{") - Count(Syms(FlattenSeq(lines)), "}")
  IN IF missing > 0 THEN [n \in DOMAIN lines |-> IF n = Len(lines) THEN lines[n] \o Fill(missing, "}") ELSE lines[n]]
     ELSE [lines EXCEPT ![1] = Fill(-missing, "{") \o @]

\* The symbols of a text, a line break between the lines.
Flat(lines) == FlattenSeq([n \in DOMAIN lines |-> Append(Syms(lines[n]), "NL")])

Separators == {";", "{", "}", "NL"}

Depth(text, i) == Count(SubSeq(text, 1, i - 1), "{") - Count(SubSeq(text, 1, i - 1), "}")

\* The statement that starts at i: up to the next separator.
Segment(text, i) ==
  LET end == Min({j \in i..Len(text) : text[j] \in Separators}) IN SubSeq(text, i, end)

Starts(text) == {i \in DOMAIN text : text[i] \notin Separators /\ (i = 1 \/ text[i - 1] \in Separators)}

Simple == {<<"word">>, <<"call">>, <<"return">>, <<"return", "word">>, <<"break">>, <<"if", "(x)", "call">>,
           <<"import", "'x'">>, <<"word", "||", "word">>, <<"this.", "call">>}

Parses(text) ==
  /\ \A i \in DOMAIN text : Depth(text, i) >= 0 /\ (text[i] = "}" => Depth(text, i) > 0)
  /\ Depth(text, Len(text) + 1) = 0
  /\ \A i \in Starts(text) : Front(Segment(text, i)) \in Simple

EmptyStatements(text) == {i \in DOMAIN text : text[i] = ";" /\ (i = 1 \/ text[i - 1] \in Separators)}

Body(text) ==
  {i \in DOMAIN text : Depth(text, i) = 0 /\ (text[i] = "{" \/ i \in Starts(text) \cup EmptyStatements(text))}

isExclusion(text) ==
  /\ Cardinality(Body(text)) = 1
  /\ LET i == CHOOSE j \in Body(text) : TRUE
         statement == Segment(text, i)
     IN /\ text[i] # "{"
        /\ \/ Front(statement) \in {<<"break">>, <<"return">>, <<"return", "word">>, <<"word">>}
           \/ Front(statement) \in {<<"call">>, <<"word", "||", "word">>, <<"this.", "call">>} /\ Last(statement) # ";"

containsCode(lines) ==
  LET text == Flat(lines)
  IN couldBeJsCode(lines) /\ Parses(text) /\ Body(text) # {} /\ ~isExclusion(text)

(***************************************************************************)
(* Groups of comments.                                                     *)
(***************************************************************************)
Comments == {i \in DOMAIN file : file[i].kind # "code"}

TokenAfter(i) == {j \in DOMAIN file : j > i /\ file[j].kind = "code"}

areAdjacentLineComments(i, j) ==
  /\ file[i].line + 1 = file[j].line
  /\ TokenAfter(i) = {} \/ file[Min(TokenAfter(i))].line > file[j].line

\* The state of the loop after the comments up to n: groups pushed, and the current one.
Group(state, i) ==
  IF file[i].kind = "block" THEN [state EXCEPT !.groups = Append(@, <<i>>)]
  ELSE IF state.current = <<>> THEN [state EXCEPT !.current = <<i>>]
  ELSE IF areAdjacentLineComments(Last(state.current), i) THEN [state EXCEPT !.current = Append(@, i)]
  ELSE [groups |-> Append(state.groups, state.current), current |-> <<i>>]

Grouped == FoldLeft(Group, [groups |-> <<>>, current |-> <<>>], SetToSortSeq(Comments, <))

getGroupedComments ==
  Range(Grouped.groups) \cup (IF Grouped.current = <<>> THEN {} ELSE {Grouped.current})

\* The lines of a group; only the white space around the whole text is trimmed.
Value(group) ==
  [n \in DOMAIN group |->
     LET text == file[group[n]].text
     IN IF n = 1 /\ text # <<>> THEN [text EXCEPT ![1].gap = FALSE] ELSE text]

LoneBrace(lines) == Len(lines) = 1 /\ Syms(lines[1]) = <<"}">>

isReported(group) == ~LoneBrace(Value(group)) /\ containsCode(injectMissingBraces(Value(group)))

(***************************************************************************)
(* The file is written, then the rule handles Program:exit.                 *)
(***************************************************************************)
Init == file = <<>> /\ reports = [done |-> FALSE, groups |-> {}]

Line == IF file = <<>> THEN 1 ELSE Last(file).line

\* A line comment is the last item of its line.
Write(kind, text, break) ==
  /\ ~reports.done
  /\ Len(file) < MaxItems
  /\ file # <<>> /\ Last(file).kind = "line" => break > 0
  /\ file' = Append(file, [kind |-> kind, text |-> text, line |-> Line + break])
  /\ UNCHANGED reports

ProgramExit ==
  /\ ~reports.done
  /\ reports' = [done |-> TRUE,
                 groups |-> getGroupedComments,
                 reported |-> {group \in getGroupedComments : isReported(group)}]
  /\ UNCHANGED file

Finished == reports.done /\ UNCHANGED vars

Next ==
  \/ \E kind \in {"line", "block"}, text \in Texts, break \in 0..1 : Write(kind, text, break)
  \/ \E break \in 0..1 : Write("code", <<>>, break)
  \/ ProgramExit
  \/ Finished

Spec == Init /\ [][Next]_vars

(***************************************************************************)
(* Properties.                                                             *)
(***************************************************************************)
Removed(group) == group[1]..Last(group)

\* Every comment is in exactly one group and keeps its place in it (getGroupedComments).
EveryCommentIsGrouped ==
  reports.done =>
    /\ \A i \in Comments : Cardinality({group \in reports.groups : Contains(group, i)}) = 1
    /\ \A group \in reports.groups : \A m, n \in DOMAIN group : m < n => group[m] < group[n]

\* The quick fix of a report removes from the first to the last comment of the group; no
\* code stands between them (areAdjacentLineComments).
RemovalSparesCode ==
  reports.done => \A group \in reports.reported : \A i \in Removed(group) : file[i].kind # "code"

\* The quick fix "Remove this commented out code" removes the comments it was raised on only.
OnlyTheReportedIsRemoved ==
  reports.done => \A group \in reports.reported : Removed(group) \subseteq Range(group)

\* Code that is cut in the middle of a block is still recognised (injectMissingBraces): a
\* single comment of calls and braces that close no more than they open is reported.
CutCodeIsRecognised ==
  reports.done =>
    \A group \in reports.groups :
      LET text == Flat(Value(group))
          plain == Range(text) \subseteq {"call", ";", "{", "}", "NL"} /\ Len(group) = 1
          nested == \A i \in DOMAIN text : text[i] = "}" => Depth(text, i) > 0
          ended == \A i \in DOMAIN text : text[i] = "call" => text[i + 1] = ";"
      IN plain /\ nested /\ ended /\ Len(text) > 1 => group \in reports.reported

\* The last characters of a block comment, white space, stars and slashes, do not hide
\* that a line is code (EndWithDetector).
MarginDoesNotHideCode ==
  \A i \in Comments :
    isCode(file[i].text) => isCode(Append(file[i].text, [gap |-> TRUE, sym |-> "*"]))

\* Commented-out code is reported with and without other comments above it: a line that is
\* reported alone is reported as a line of a group (extractCodeLines).
CodeIsReportedInGroups ==
  reports.done =>
    \A group \in reports.groups : \A n \in DOMAIN group :
      isReported(<<group[n]>>) /\ Parses(Flat(Value(group))) => group \in reports.reported

-----------------------------------------------------------------------------
\* Texts of comments for the runs of CommentedCode.

S(sym) == [gap |-> FALSE, sym |-> sym]

G(sym) == [gap |-> TRUE, sym |-> sym]

\* Every text of up to four symbols from calls, semicolons and braces.
CodeTexts == {<<>>} \cup UNION {[1..n -> {S("call"), S(";"), S("{"), S("}"), G("Word")}] : n \in 1..4}

\* Code and prose only, for the groups.
PlainTexts == {<<G("word"), G("Word")>>, <<G("call"), S(";")>>}

=============================================================================

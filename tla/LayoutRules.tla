------------------------------ MODULE LayoutRules ------------------------------
(***************************************************************************)
(* Rules that read the layout of the code: no-unenclosed-multiline-block,   *)
(* conditional-indentation and sonar-max-lines-per-function.  The text of a *)
(* file is written one statement, line or function at a time; subject tells *)
(* which of the rules it is for.                                            *)
(***************************************************************************)
EXTENDS Integers, Sequences, FiniteSets, SequencesExt

CONSTANTS
  Subjects,       \* rules to look at: "statements", "conditions", "lines", "functions"
  Columns,        \* columns at which statements start
  MaxLine,        \* bound on the lines of a list of statements
  BodyHeights,    \* lines of a body less one
  Positions,      \* where if statements stand: "statement", "consequent", "alternate"
  MaxTokens,      \* bound on the tokens of a line
  MaxLines,       \* bound on the lines of a function
  CommentsOfLine, \* bound on the comments of a line
  Names,          \* first characters of the names of functions, "" without a name
  MaxFunctions    \* bound on the functions of a file

VARIABLES
  subject,
  statements,        \* a list of statements
  condition,         \* an if statement and what is reported on it
  lines,             \* the lines of a function
  functionStack,     \* the functions the visitor is in
  functionKnowledge  \* what is known of each function

vars == <<subject, statements, condition, lines, functionStack, functionKnowledge>>

(***************************************************************************)
(* no-unenclosed-multiline-block.  A statement has its first line and       *)
(* column; an if statement or a loop has its last body: block, first line   *)
(* and column.  endLine is the last line of both.                           *)
(***************************************************************************)
Plain(line, column) == [nesting |-> FALSE, line |-> line, column |-> column, endLine |-> line]

Nesting(line, column, block, bodyLine, bodyColumn, height) ==
  [nesting |-> TRUE, line |-> line, column |-> column, endLine |-> bodyLine + height,
   block |-> block, bodyLine |-> bodyLine, bodyColumn |-> bodyColumn]

Follows(statement) ==
  LET before == Last(statements) IN
  IF statements = <<>> THEN TRUE
  ELSE statement.line > before.endLine \/ (statement.line = before.endLine /\ statement.column > IF before.nesting THEN before.bodyColumn ELSE before.column)

AddStatement ==
  /\ subject = "statements" /\ Len(statements) < 3
  /\ \E line \in 1..MaxLine, column \in Columns :
     \E statement \in {Plain(line, column)} \cup
          {Nesting(line, column, block, bodyLine, bodyColumn, height) :
             block \in BOOLEAN, bodyLine \in {l \in {line, line + 1} : l <= MaxLine}, bodyColumn \in Columns, height \in BodyHeights} :
       /\ Follows(statement)
       /\ IF statement.nesting THEN statement.bodyLine = line => statement.bodyColumn > column ELSE TRUE
       /\ statements' = Append(statements, statement)
  /\ UNCHANGED <<subject, condition, lines, functionStack, functionKnowledge>>

\* The pairs of a statement with a body without braces and the statement behind it.
chain(list) == {k \in 1..(Len(list) - 1) : list[k].nesting /\ ~list[k].block}

areAdjacent(top, next) == top.endLine = next.line

areBothIndented(top, next) == top.bodyColumn = next.column /\ top.bodyColumn > top.column

areInlinedAndIndented(top, next) == top.bodyLine = top.endLine /\ next.column > top.column

\* The statements that end behind the first line of the body, up to one at another column.
countStatementsInTheSamePile(top, list) ==
  LET behind == {k \in DOMAIN list : list[k].endLine > top.bodyLine}
      pile == {k \in behind : \A j \in behind : j <= k => list[j].column = top.bodyColumn}
      last == IF pile = {} THEN top.bodyLine ELSE CHOOSE n \in {list[k].endLine : k \in pile} : \A k \in pile : list[k].endLine <= n
  IN last - top.bodyLine + 1

Issue(k, message, size) == [next |-> k, message |-> message, size |-> size]

checkStatements(list) ==
  UNION {LET top == list[k] next == list[k + 1] IN
         CASE areAdjacent(top, next) -> {Issue(k + 1, "statement", 0)}
           [] ~areAdjacent(top, next) /\ areBothIndented(top, next) -> {Issue(k + 1, "block", countStatementsInTheSamePile(top, list))}
           [] ~areAdjacent(top, next) /\ ~areBothIndented(top, next) /\ areInlinedAndIndented(top, next) -> {Issue(k + 1, "line", 0)}
           [] OTHER -> {} : k \in chain(list)}

(***************************************************************************)
(* conditional-indentation.  The columns of the first token, of the body,   *)
(* of else, of the brace before it (0 for none on its line) and of what     *)
(* else executes: another if ("if": the column of its body), a statement or *)
(* a block.                                                                 *)
(***************************************************************************)
checkIndentation(token, block, column) == ~block /\ token >= column

IfStatement(i) ==
  (IF i.position \notin {"consequent", "alternate"} /\ checkIndentation(i.column, i.block, i.bodyColumn) THEN {"if"} ELSE {})
  \cup (CASE i.alternate = "if" -> IF checkIndentation(i.elseColumn, i.elseBlock, i.alternateColumn) THEN {"else"} ELSE {}
         [] i.alternate = "statement" -> IF checkIndentation(IF i.brace THEN i.elseColumn - 1 ELSE i.elseColumn, i.elseBlock, i.alternateColumn) THEN {"else"} ELSE {}
         [] OTHER -> {})

CheckCondition ==
  /\ subject = "conditions" /\ condition = <<>>
  /\ \E column, bodyColumn, elseColumn, alternateColumn \in Columns, position \in Positions, block, elseBlock, brace \in BOOLEAN, alternate \in {"none", "if", "statement"} :
       LET i == [column |-> column, bodyColumn |-> bodyColumn, elseColumn |-> elseColumn, alternateColumn |-> alternateColumn, position |-> position,
                 block |-> block, elseBlock |-> elseBlock, brace |-> brace, alternate |-> alternate]
       IN /\ brace => block /\ elseColumn > 0
          /\ condition' = <<i, IfStatement(i)>>
  /\ UNCHANGED <<subject, statements, lines, functionStack, functionKnowledge>>

(***************************************************************************)
(* sonar-max-lines-per-function.  A line is a sequence of tokens: "code",   *)
(* "comment", and the first line, a line in the middle and the last line of *)
(* a comment on several lines.                                              *)
(***************************************************************************)
Comments == {"comment", "first", "middle", "last"}

Unfinished(line) == line # <<>> /\ Last(line) \in {"first", "middle"}

\* The lines that can follow the lines so far.
LineFollows(line) ==
  LET inside == lines # <<>> /\ Unfinished(Last(lines)) IN
  /\ inside <=> line # <<>> /\ line[1] \in {"middle", "last"}
  /\ \A k \in DOMAIN line : /\ line[k] \in {"middle", "last"} => k = 1
                            /\ line[k] \in {"first", "middle"} => k = Len(line)
  /\ Cardinality({k \in DOMAIN line : line[k] \in Comments}) <= CommentsOfLine

AddLine ==
  /\ subject = "lines" /\ Len(lines) < MaxLines
  /\ \E n \in 0..MaxTokens : \E line \in [1..n -> {"code"} \cup Comments] : LineFollows(line) /\ lines' = Append(lines, line)
  /\ UNCHANGED <<subject, statements, condition, functionStack, functionKnowledge>>

\* The last comment of a line wins (0 for none).
getCommentLineNumbers(line) ==
  LET comments == {k \in DOMAIN line : line[k] \in Comments} IN IF comments = {} THEN 0 ELSE CHOOSE k \in comments : \A j \in comments : j <= k

\* The comment starts on an earlier line or is first, and ends on a later one or is last.
isFullLineComment(line, k) ==
  (line[k] \in {"middle", "last"} \/ k = 1) /\ (line[k] \in {"first", "middle"} \/ k = Len(line))

getLocsNumber(ls) ==
  Cardinality({i \in DOMAIN ls : LET k == getCommentLineNumbers(ls[i]) IN ~(k > 0 /\ isFullLineComment(ls[i], k)) /\ ls[i] # <<>>})

(***************************************************************************)
(* Functions: all of them have too many lines here.                         *)
(***************************************************************************)
\* Equal to its upper case: a capital letter, and a character that is no letter.
nameStartsWithCapital(function) == function.type # "arrow" /\ function.name \in {"F", "_"}

isIIFE(function) == function.type = "expression" /\ function.called

EnterFunction(type, name, called) ==
  LET id == Len(functionKnowledge) + 1 IN
  /\ subject = "functions" /\ id <= MaxFunctions
  /\ functionStack' = Append(functionStack, id)
  /\ functionKnowledge' = Append(functionKnowledge, [type |-> type, name |-> name, called |-> called, returnsJSX |-> FALSE, own |-> FALSE])
  /\ UNCHANGED <<subject, statements, condition, lines>>

returningFunction(stack) == Last(stack)

\* own: the function itself returns an element.
ReturnStatement(jsx) ==
  LET id == returningFunction(functionStack) IN
  /\ functionStack # <<>>
  /\ functionKnowledge' = [k \in DOMAIN functionKnowledge |->
       [functionKnowledge[k] EXCEPT !.returnsJSX = @ \/ (k = id /\ jsx /\ ~isIIFE(functionKnowledge[k])),
                                    !.own = @ \/ (k = Last(functionStack) /\ jsx)]]
  /\ UNCHANGED <<subject, statements, condition, lines, functionStack>>

ExitFunction ==
  /\ functionStack # <<>>
  /\ functionStack' = Front(functionStack)
  /\ UNCHANGED <<subject, statements, condition, lines, functionKnowledge>>

isReactFunctionComponent(function) == nameStartsWithCapital(function) /\ function.returnsJSX

\* The functions reported when the program ends.
ProgramExit == {k \in DOMAIN functionKnowledge : ~isIIFE(functionKnowledge[k]) /\ ~isReactFunctionComponent(functionKnowledge[k])}

Done == functionStack = <<>> /\ UNCHANGED vars

Init ==
  /\ subject \in Subjects
  /\ statements = <<>> /\ condition = <<>> /\ lines = <<>> /\ functionStack = <<>> /\ functionKnowledge = <<>>

Next ==
  \/ AddStatement \/ CheckCondition \/ AddLine
  \/ \E type \in {"declaration", "expression", "arrow"}, name \in Names, called \in BOOLEAN :
       (type = "arrow" => name = "") /\ (type = "declaration" => name # "" /\ ~called) /\ EnterFunction(type, name, called)
  \/ \E jsx \in BOOLEAN : ReturnStatement(jsx)
  \/ ExitFunction \/ Done

Spec == Init /\ [][Next]_vars

(***************************************************************************)
(* Properties.                                                              *)
(***************************************************************************)
\* no-unenclosed-multiline-block reports the statement behind a body of one line without braces
\* exactly when it looks like a part of the body: it is on the line of the body or to the right of
\* the statement the body belongs to.
LooksEnclosed ==
  \A k \in 1..(Len(statements) - 1) :
    LET top == statements[k] next == statements[k + 1] IN
    (\E issue \in checkStatements(statements) : issue.next = k + 1)
    <=> top.nesting /\ ~top.block /\ (next.line = top.endLine \/ next.column > top.column)

\* The size of the block in the message reaches from the body to the last statement under it.
PileIsWholeBlock ==
  \A issue \in checkStatements(statements) : issue.message = "block" =>
    LET top == statements[issue.next - 1]
        under == {k \in issue.next..Len(statements) : \A j \in issue.next..k : statements[j].column = top.bodyColumn}
    IN \A k \in under : /\ issue.size >= statements[k].endLine - top.bodyLine + 1
                        /\ (k + 1 \notin under) => issue.size = statements[k].endLine - top.bodyLine + 1

\* A body without braces that is not to the right of its if is reported by conditional-indentation.
UnindentedBodiesAreReported ==
  condition # <<>> =>
    LET i == condition[1] IN i.position # "alternate" /\ ~i.block /\ i.bodyColumn <= i.column => "if" \in condition[2]

\* The size of a function is the number of its lines with code.
LinesOfCode == getLocsNumber(lines) = Cardinality({i \in DOMAIN lines : \E k \in DOMAIN lines[i] : lines[i][k] = "code"})

\* A long function is ignored only if it is invoked at once, or has a name with a capital letter and
\* returns an element itself: what the functions in it return does not count.
OnlyComponentsAreIgnored ==
  \A k \in DOMAIN functionKnowledge \ ProgramExit :
    LET f == functionKnowledge[k] IN (f.type = "expression" /\ f.called) \/ (f.name = "F" /\ f.own)

=============================================================================

---------------------------- MODULE FileMeasures ----------------------------
(***************************************************************************)
(* What the bridge measures of a parsed file besides issues: lines of code  *)
(* and of comments, NOSONAR lines, executable lines, counts of functions,   *)
(* classes and statements, the tokens of the copy-paste detector, syntax    *)
(* highlighting and symbol highlighting.  A file is the sequence of its     *)
(* tokens and comments in source order; of a Vue.js component it also has   *)
(* the tokens of the markup.  Only what the measures look at is kept of a   *)
(* token: its type, what its value starts with, the nodes it opens or       *)
(* belongs to and its lines.                                                *)
(***************************************************************************)
EXTENDS Integers, Sequences, FiniteSets, SequencesExt

CONSTANTS
  Kinds,          \* kinds of tokens and comments of the script
  MarkupKinds,    \* kinds of tokens of the markup
  IgnoreHeader,   \* values of the setting ignoreHeaderComments
  MaxItems        \* bound on the items of a file

FileAssumption == MaxItems \in Nat /\ IgnoreHeader \subseteq BOOLEAN

VARIABLES
  file,           \* items of the script and of the markup, in source order
  measures        \* what the visitors return, or "none" before they run

vars == <<file, measures>>

Comments == {"line", "blank", "nosonar", "doc", "docNosonar"}

Strings == {"str1", "str2", "attr1", "attr2", "importStr", "requireStr"}

Script == Comments \cup Strings \cup
          {"word", "if", "fn", "class", "num", "template", "space", "import", "require", "{", "}",
           "def", "init", "use", "typed"}

\* The node that a token opens, when a measure looks at it.
Opens(kind) ==
  CASE kind \in {"word", "use"} -> "ExpressionStatement"
    [] kind \in {"def", "init", "typed"} -> "VariableDeclaration"
    [] kind = "if" -> "IfStatement"
    [] kind = "fn" -> "FunctionDeclaration"
    [] kind = "class" -> "ClassDeclaration"
    [] OTHER -> "none"

\* Items that reach over a line break.
Spans(kind) == IF kind \in {"doc", "docNosonar", "template"} THEN 1 ELSE 0

Positions(S) == {i \in DOMAIN file : file[i].kind \in S}

ScriptTokens == Positions(Script \ Comments)

MarkupTokens == Positions(MarkupKinds)

LastLine == IF file = <<>> THEN 1 ELSE Last(file).end

addLines(S) == UNION {file[i].line..file[i].end : i \in S}

Closed(opening, closing) ==
  Cardinality(Positions({opening})) - Cardinality(Positions({closing}))

(***************************************************************************)
(* Lines of code.  The raw text of the markup is the text of the style and  *)
(* of the script; the tokens of the script are counted on their own.        *)
(***************************************************************************)
StyleOpen == {"<style"}

StyleEnd == {"</style"}

RawText == {"css", "/*", "*/", "/*css"}

Whitespace == {"html space"}

\* Whether a token of the markup is kept, given the flags before it.
Counts(i, within) ==
  /\ file[i].kind \notin Whitespace
  /\ file[i].kind \in RawText => within.style
  /\ ~(within.style /\ (within.comment \/ file[i].kind = "/*"))

\* The flags withinStyle and withinComment after a token.
Within(i, within) ==
  LET style == IF file[i].kind \in StyleOpen THEN TRUE
               ELSE IF file[i].kind \in StyleEnd THEN FALSE
               ELSE within.style
      skipped == file[i].kind \in Whitespace \/ (file[i].kind \in RawText /\ ~style)
  IN [style |-> style,
      comment |-> IF skipped \/ ~style THEN within.comment
                  ELSE IF within.comment THEN file[i].kind # "*/"
                  ELSE file[i].kind = "/*"]

\* The flags before every token of the file.
WithinBefore ==
  LET before[n \in 1..(Len(file) + 1)] ==
        IF n = 1 THEN [style |-> FALSE, comment |-> FALSE]
        ELSE IF n - 1 \in MarkupTokens THEN Within(n - 1, before[n - 1])
        ELSE before[n - 1]
  IN before

\* The opening and the closing tag are seen with the flag they set.
extractVuejsTokens ==
  {i \in MarkupTokens :
     LET after == Within(i, WithinBefore[i])
     IN Counts(i, [WithinBefore[i] EXCEPT !.style = after.style])}

findNcloc == addLines(ScriptTokens \cup extractVuejsTokens)

(***************************************************************************)
(* Comments, executable lines and counts.                                  *)
(***************************************************************************)
Header(ignore) ==
  IF ignore /\ ScriptTokens # {}
  THEN {i \in Positions(Comments) : \A j \in ScriptTokens : i < j}
  ELSE {}

findCommentLines(ignore) ==
  [commentLines |-> addLines(Positions({"line", "doc"}) \ Header(ignore)),
   nosonarLines |-> addLines(Positions({"nosonar", "docNosonar"}) \ Header(ignore))]

findNoSonarLines == findCommentLines(FALSE).nosonarLines

EXECUTABLE_NODES == {"ExpressionStatement", "VariableDeclaration", "IfStatement"}

STATEMENT_NODES == EXECUTABLE_NODES

CLASS_NODES == {"ClassDeclaration"}

FUNCTION_NODES == {"FunctionDeclaration"}

findExecutableLines == {file[i].line : i \in {j \in DOMAIN file : Opens(file[j].kind) \in EXECUTABLE_NODES}}

visitAndCountIf(S) == Cardinality({i \in DOMAIN file : Opens(file[i].kind) \in S})

(***************************************************************************)
(* Tokens of the copy-paste detector.                                      *)
(***************************************************************************)
ImportTokens == {"import", "importStr"}

RequireTokens == {"require", "requireStr"}

JsxTokens == {"attr1", "attr2"}

Image(kind) ==
  IF kind \in (Strings \cup {"template"}) \ JsxTokens THEN "LITERAL" ELSE kind

getCpdTokens(f) ==
  LET kept == SelectSeq(f, LAMBDA t : t.kind \in Script \ (Comments \cup {"space"} \cup ImportTokens \cup RequireTokens))
  IN [n \in DOMAIN kept |-> Image(kept[n].kind)]

(***************************************************************************)
(* Syntax highlighting: the type a token or a comment is shown with.       *)
(***************************************************************************)
TextType(kind) ==
  CASE kind \in {"if", "fn", "class", "import", "<div", "<style", "</div", "</style", ">", "/>"} -> "KEYWORD"
    [] kind \in Strings \cup {"template", "html literal"} -> "STRING"
    [] kind = "num" -> "CONSTANT"
    [] kind \in {"doc", "docNosonar"} -> "STRUCTURED_COMMENT"
    [] kind \in Comments -> "COMMENT"
    [] OTHER -> "none"

getSyntaxHighlighting ==
  {[at |-> i, textType |-> TextType(file[i].kind)] : i \in {j \in DOMAIN file : TextType(file[j].kind) # "none"}}

(***************************************************************************)
(* Symbol highlighting.  The file declares one variable; def, init and      *)
(* typed are its declarations, and the last two of the kinds init and use   *)
(* are references.  The node of a typed declaration reaches over the        *)
(* annotation, which is the next item.                                      *)
(***************************************************************************)
Defs == SetToSortSeq(Positions({"def", "init", "typed"}), <)

References == SetToSortSeq(Positions({"init", "use"}), <)

\* [...new Set(defs and references)]
Merged == Defs \o SelectSeq(References, LAMBDA i : ~Contains(Defs, i))

\* Array.prototype.sort is stable and compares lines only.
SortedByLine(s) ==
  LET order == SetToSortSeq(DOMAIN s, LAMBDA m, n :
                 \/ file[s[m]].line < file[s[n]].line
                 \/ file[s[m]].line = file[s[n]].line /\ m < n)
  IN [n \in DOMAIN s |-> s[order[n]]]

allRef == SortedByLine(Merged)

identifierLocation(i) == {i}

Symbols ==
  IF allRef = <<>> THEN {}
  ELSE {[declaration |-> identifierLocation(allRef[1]),
         references |-> [n \in 1..(Len(allRef) - 1) |-> identifierLocation(allRef[n + 1])]]}

\* The tokens that are open before a token, innermost last; a pop of an empty stack keeps it empty.
Pop(stack) == IF stack = <<>> THEN stack ELSE Front(stack)

Stacks(opening, closing) ==
  LET stack[n \in 1..(Len(file) + 1)] ==
        IF n = 1 THEN <<>>
        ELSE LET kind == file[n - 1].kind
             IN IF kind \in opening THEN Append(stack[n - 1], n - 1)
                ELSE IF kind \in closing THEN Pop(stack[n - 1])
                ELSE stack[n - 1]
  IN stack

TagOpen == {"<div", "<style"}

TagEnd == {"</div", "</style"}

\* Mutant: a self-closing tag leaves its token on the stack.
TagStacksKeeping == Stacks(TagOpen, TagEnd)

TagStacks == Stacks(TagOpen, TagEnd \cup {"/>"})

\* Pairs of an opening and a closing token.
Pairs(stack, closing) ==
  {<<Last(stack[i]), i>> : i \in {j \in Positions(closing) : stack[j] # <<>>}}

Braces == Pairs(Stacks({"{"}, {"}"}), {"}"})

Tags == Pairs(TagStacks, TagEnd)

(***************************************************************************)
(* The file is written, then measured.                                     *)
(***************************************************************************)
Init == file = <<>> /\ measures = [ready |-> FALSE]

\* Markup: tags nest, and raw text stands in the style only.
OpenTags == Stacks(TagOpen, TagEnd \cup {"/>"})[Len(file) + 1]

\* A CSS comment is open at the end of the file.
OpenComment ==
  \E i \in Positions({"/*", "/*css"}) : \A j \in (i + 1)..Len(file) : file[j].kind # "*/"

MayWrite(kind) ==
  /\ kind = "}" => Closed("{", "}") > 0
  /\ kind \in TagEnd => OpenTags # <<>> /\ file[Last(OpenTags)].kind = (IF kind = "</div" THEN "<div" ELSE "<style")
  /\ kind = "/>" => file # <<>> /\ Last(file).kind = "<div"
  /\ kind = "*/" => OpenComment
  /\ kind \in StyleEnd \cup {"/*", "/*css"} => ~OpenComment
  /\ kind \in RawText => OpenTags # <<>> /\ file[Last(OpenTags)].kind \in StyleOpen
  /\ kind \in TagOpen \cup Kinds => \A n \in DOMAIN OpenTags : file[OpenTags[n]].kind \notin StyleOpen

Write(kind, break) ==
  /\ ~measures.ready
  /\ Len(file) < MaxItems
  /\ MayWrite(kind)
  /\ LET line == LastLine + break
     IN file' = Append(file, [kind |-> kind, line |-> line, end |-> line + Spans(kind)])
  /\ UNCHANGED measures

\* computeMetrics for a main file, findNoSonarLines for a test file, and the highlightings of both.
Measure(ignore) ==
  /\ ~measures.ready
  /\ Closed("{", "}") = 0
  /\ OpenTags = <<>>
  /\ measures' = [ready |-> TRUE,
                  ignored |-> Header(ignore),
                  ncloc |-> findNcloc,
                  commentLines |-> findCommentLines(ignore).commentLines,
                  nosonarLines |-> findCommentLines(ignore).nosonarLines,
                  testNosonarLines |-> findNoSonarLines,
                  executableLines |-> findExecutableLines,
                  functions |-> visitAndCountIf(FUNCTION_NODES),
                  classes |-> visitAndCountIf(CLASS_NODES),
                  statements |-> visitAndCountIf(STATEMENT_NODES),
                  cpdTokens |-> getCpdTokens(file),
                  highlights |-> getSyntaxHighlighting,
                  symbols |-> Symbols,
                  pairs |-> Braces \cup Tags]
  /\ UNCHANGED file

\* The measures are taken, or the bound cut a file that is not complete.
Finished == (measures.ready \/ Len(file) = MaxItems) /\ UNCHANGED vars

Next ==
  \/ \E kind \in Kinds \cup MarkupKinds, break \in {0, 1} : Write(kind, break)
  \/ \E ignore \in IgnoreHeader : Measure(ignore)
  \/ Finished

Spec == Init /\ [][Next]_vars

(***************************************************************************)
(* Properties.                                                             *)
(***************************************************************************)
\* No line is lost between the measures, and none is invented (computeMetrics): a line
\* with text counts as code, as comment or as NOSONAR line, unless it only holds blank
\* comments or the header that is ignored, and every line counted holds such a text.
EveryLineIsAccounted ==
  measures.ready =>
    /\ measures.ncloc = addLines(ScriptTokens)
    /\ measures.commentLines \cup measures.nosonarLines
         = addLines(Positions(Comments \ {"blank"}) \ measures.ignored)
    /\ \A i \in Positions({"line", "nosonar", "blank"}) :
         file[i].line \in measures.commentLines \cap measures.nosonarLines =>
           \E j \in Positions(Comments) \ {i} : file[i].line \in file[j].line..file[j].end
    /\ measures.executableLines \subseteq measures.ncloc

\* Code that differs in the values of its strings is a duplicate for the copy-paste
\* detector, while attributes with different values are not (getCpdTokens): the tokens
\* sent are the same after every string of the code is replaced by another.
DuplicatesIgnoreStrings ==
  LET other == [str1 |-> "str2", str2 |-> "str1"]
      image(f) == getCpdTokens(f)
      swapped == [i \in DOMAIN file |->
                    IF file[i].kind \in DOMAIN other THEN [file[i] EXCEPT !.kind = other[@]] ELSE file[i]]
      attributes == [attr1 |-> "attr2", attr2 |-> "attr1"]
      redrawn == [i \in DOMAIN file |->
                    IF file[i].kind \in DOMAIN attributes THEN [file[i] EXCEPT !.kind = attributes[@]] ELSE file[i]]
  IN measures.ready =>
       /\ measures.cpdTokens = image(swapped)
       /\ Positions(JsxTokens) # {} => measures.cpdTokens # image(redrawn)

\* SonarQube refuses highlightings that overlap (the comment of identifierLocation): no two
\* locations of a symbol share a token.
SymbolsDoNotOverlap ==
  measures.ready =>
    \A s \in measures.symbols :
      /\ \A m \in DOMAIN s.references : s.references[m] \cap s.declaration = {}
      /\ \A m, n \in DOMAIN s.references : m # n => s.references[m] \cap s.references[n] = {}

\* The declaration of a symbol is on the first line where it occurs, and every
\* occurrence is highlighted (the sort of allRef).
DeclarationOnTheFirstLine ==
  measures.ready =>
    \A s \in measures.symbols :
      LET occurrences == Positions({"def", "init", "typed", "use"})
          shown == s.declaration \cup UNION Range(s.references)
      IN /\ occurrences \subseteq shown
         /\ \A i \in s.declaration \cap occurrences, j \in occurrences : file[i].line <= file[j].line

\* A closing tag or brace is highlighted with the token it closes (the two stacks of
\* Program:exit): names agree, every closing token has a partner, a tag that
\* closes itself has none, and pairs nest.
PairsAreMatching ==
  measures.ready =>
    /\ \A i \in Positions(TagEnd \cup {"}"}) : \E p \in measures.pairs : p[2] = i
    /\ \A p \in measures.pairs :
         <<file[p[1]].kind, file[p[2]].kind>> \in {<<"{", "}">>, <<"<div", "</div">>, <<"<style", "</style">>}
    /\ \A p \in measures.pairs : file[p[1] + 1].kind # "/>"
    /\ \A p, q \in measures.pairs :
         (file[p[1]].kind = "{") = (file[q[1]].kind = "{") /\ p[1] < q[1] /\ q[1] < p[2] => q[2] < p[2]

\* The text of the style that is not inside a CSS comment.
InComment(i) ==
  \E j \in Positions({"/*", "/*css"}) :
    /\ j < i
    /\ \A k \in (j + 1)..(i - 1) : file[k].kind \notin {"*/"} \cup StyleEnd

VisibleMarkup ==
  {i \in MarkupTokens :
     \/ file[i].kind \notin RawText \cup Whitespace
     \/ file[i].kind = "css" /\ ~InComment(i)}

\* The lines of code of a component hold a character that is neither whitespace nor part
\* of a comment, in the style too (extractVuejsTokens), and all such lines count.
NclocOfTheMarkup == measures.ready => measures.ncloc = addLines(ScriptTokens \cup VisibleMarkup)

\* Issues on the lines of a comment whose text is NOSONAR are ignored (findCommentLines).
IssuesAreIgnoredOnNosonarLines ==
  measures.ready => addLines(Positions({"nosonar", "docNosonar"})) \subseteq measures.nosonarLines

\* The earliest occurrence in the file is taken as the declaration (the sort of allRef).
EarliestIsTheDeclaration ==
  measures.ready =>
    \A s \in measures.symbols :
      \A i \in s.declaration, j \in Positions({"def", "init", "typed", "use"}) : i <= j

=============================================================================

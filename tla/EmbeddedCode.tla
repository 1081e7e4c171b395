----------------------------- MODULE EmbeddedCode -----------------------------
(***************************************************************************)
(* JavaScript embedded in HTML and YAML files: the extraction of snippets,  *)
(* the parsing of each of them, the translation of locations from the       *)
(* snippet to the file, and the filter on issues outside of JavaScript.     *)
(*                                                                         *)
(* A file is a sequence of characters: "n" is a line feed, "u" U+2028, "x"  *)
(* a token and "c" a comment of JavaScript or other text; in HTML "S", "X"  *)
(* and "E" are a script tag, one with src, and the closing tag; in YAML "k" *)
(* is the key of a snippet, "|" the marker of a block and "-" an indicator  *)
(* after it.  Offsets begin at 0: offset o is text[o + 1].                  *)
(***************************************************************************)
EXTENDS Integers, Sequences, SequencesExt, FiniteSets, FiniteSetsExt

CONSTANTS
  Texts,      \* the files
  Language    \* "html" or "yaml"

VARIABLES
  text,
  pos,                  \* offset of the HTML or YAML parser
  raw,                  \* the HTML parser is within a script element
  inScript,
  jsSnippetStartIndex,
  embeddedJSs,          \* snippets found: code as <<start, end>>, and where it says it begins
  sources,              \* source codes built
  issues,               \* aggregated issues
  result                \* "parsing", "building", "linting", "issues" or the error

vars == <<text, pos, raw, inScript, jsSnippetStartIndex, embeddedJSs, sources, issues, result>>

At(o) == IF o < Len(text) THEN text[o + 1] ELSE "end"

Offsets == 0..(Len(text) - 1)

\* Lines of the file for SonarQube and for both parsers; ESLint's know U+2028 too.
LineStarts == {0} \cup {o + 1 : o \in {p \in Offsets : At(p) = "n"}}

ESLintLineStarts == {0} \cup {o + 1 : o \in {p \in Offsets : At(p) \in {"n", "u"}}}

GetLocFromIndex(starts, o) ==
  LET before == {s \in starts : s <= o}
  IN [line |-> Cardinality(before), column |-> o - Max(before)]

Result(type, line, at) == [type |-> type, line |-> line, at |-> at]

(***************************************************************************)
(* Extraction.                                                             *)
(***************************************************************************)
EmbeddedJS(start, end, offset, format) ==
  [start |-> start, end |-> end, offset |-> offset, format |-> format]

\* Mutant: scripts of other files count.
OnOpenTagWithSrc ==
  /\ ~raw /\ pos < Len(text) /\ At(pos) \in {"S", "X"}
  /\ raw' = TRUE
  /\ inScript' = TRUE
  /\ jsSnippetStartIndex' = pos + 1
  /\ UNCHANGED embeddedJSs

OnOpenTag ==
  /\ ~raw /\ pos < Len(text) /\ At(pos) \in {"S", "X"}
  /\ raw' = TRUE
  /\ inScript' = (inScript \/ At(pos) = "S")
  /\ jsSnippetStartIndex' = IF At(pos) = "S" THEN pos + 1 ELSE jsSnippetStartIndex
  /\ UNCHANGED embeddedJSs

\* A closing tag, or the end of the file within a script element.
OnCloseTag ==
  /\ raw /\ At(pos) \in {"E", "end"}
  /\ raw' = FALSE
  /\ inScript' = FALSE
  /\ IF inScript
     THEN /\ embeddedJSs' = Append(embeddedJSs, EmbeddedJS(jsSnippetStartIndex, pos, jsSnippetStartIndex, "PLAIN"))
          /\ jsSnippetStartIndex' = pos
     ELSE UNCHANGED <<embeddedJSs, jsSnippetStartIndex>>

OnText ==
  /\ pos < Len(text)
  /\ IF raw THEN At(pos) # "E" ELSE At(pos) \notin {"S", "X"}
  /\ UNCHANGED <<raw, inScript, jsSnippetStartIndex, embeddedJSs>>

ParseHTML ==
  /\ Language = "html" /\ result.type = "parsing"
  /\ OnOpenTag \/ OnCloseTag \/ OnText
  /\ pos' = pos + 1
  /\ UNCHANGED <<text, sources, issues, result>>

\* The value of a pair: to the end of the line, or the lines after the marker.
ValueEnd(o, ends) == Min({p \in o..Len(text) : p = Len(text) \/ At(p) \in ends})

\* +1 for the block marker and +1 for the line break.
FixOffset(offset, format) == IF format = "BLOCK" THEN offset + 2 ELSE offset

ParseYaml ==
  /\ Language = "yaml" /\ result.type = "parsing" /\ pos < Len(text)
  /\ pos' = pos + 1
  /\ IF At(pos) = "k"
     THEN LET block == At(pos + 1) = "|"
              start == IF block THEN ValueEnd(pos + 1, {"n"}) + 1 ELSE pos + 1
          IN embeddedJSs' = Append(embeddedJSs,
               EmbeddedJS(start, ValueEnd(start, IF block THEN {"k"} ELSE {"n", "k"}),
                          FixOffset(pos + 1, IF block THEN "BLOCK" ELSE "PLAIN"),
                          IF block THEN "BLOCK" ELSE "PLAIN"))
     ELSE UNCHANGED embeddedJSs
  /\ UNCHANGED <<text, raw, inScript, jsSnippetStartIndex, sources, issues, result>>

Parsed ==
  /\ result.type = "parsing" /\ pos >= Len(text) /\ ~raw
  /\ result' = Result("building", 0, 0)
  /\ UNCHANGED <<text, pos, raw, inScript, jsSnippetStartIndex, embeddedJSs, sources, issues>>

(***************************************************************************)
(* Building.  The parser numbers the lines of the snippet from 1.          *)
(***************************************************************************)
Code(e) == {o \in e.start..(e.end - 1) : At(o) \in {"x", "c"}}

LineInCode(e, o) == 1 + Cardinality({p \in e.start..(o - 1) : At(p) \in {"n", "u"}})

\* Where embeddedJS.line says the snippet begins: for a block, its marker's line.
EmbeddedLine(e) ==
  GetLocFromIndex(LineStarts, IF e.format = "BLOCK" THEN e.offset - 2 ELSE e.offset).line

PatchParsingErrorLine(e, line) ==
  IF e.format = "PLAIN" THEN EmbeddedLine(e) ELSE EmbeddedLine(e) + line

\* Ranges relative to the snippet move by the offset; the locations are those
\* of the lines of the file.  The program begins at its first token.
PatchASTLocations(e) ==
  LET moved(o) == o - e.start + e.offset
      first == {o \in Code(e) : At(o) = "x"}
  IN [nodes |-> {[at |-> o, loc |-> GetLocFromIndex(LineStarts, moved(o))] : o \in Code(e)},
      range |-> <<moved(IF first = {} THEN e.end ELSE Min(first)), moved(e.end)>>]

Current == embeddedJSs[Len(sources) + 1]

BuildFails ==
  /\ result.type = "building" /\ Len(sources) < Len(embeddedJSs)
  /\ \E o \in Code(Current) :
       result' = Result("error", PatchParsingErrorLine(Current, LineInCode(Current, o)), o)
  /\ UNCHANGED <<text, pos, raw, inScript, jsSnippetStartIndex, embeddedJSs, sources, issues>>

Build ==
  /\ result.type = "building" /\ Len(sources) < Len(embeddedJSs)
  /\ sources' = Append(sources, PatchASTLocations(Current))
  /\ UNCHANGED <<text, pos, raw, inScript, jsSnippetStartIndex, embeddedJSs, issues, result>>

Built ==
  /\ result.type = "building" /\ Len(sources) = Len(embeddedJSs)
  /\ result' = Result("linting", 0, 1)
  /\ UNCHANGED <<text, pos, raw, inScript, jsSnippetStartIndex, embeddedJSs, sources, issues>>

(***************************************************************************)
(* Linting.  A rule reports every token and comment, and one that looks at  *)
(* SourceCode.text every character of the file.                            *)
(***************************************************************************)
Lint(source) ==
  source.nodes \cup {[at |-> o, loc |-> GetLocFromIndex(ESLintLineStarts, o)] : o \in Offsets}

IsBeforeOrEqual(a, b) == a.line < b.line \/ (a.line = b.line /\ a.column <= b.column)

RemoveNonJsIssues(source, found) ==
  LET jsStart == GetLocFromIndex(ESLintLineStarts, source.range[1])
      jsEnd == GetLocFromIndex(ESLintLineStarts, source.range[2])
  IN {i \in found : IsBeforeOrEqual(jsStart, i.loc) /\ IsBeforeOrEqual(i.loc, jsEnd)}

LintNext ==
  /\ result.type = "linting" /\ result.at <= Len(sources)
  /\ issues' = issues \cup RemoveNonJsIssues(sources[result.at], Lint(sources[result.at]))
  /\ result' = [result EXCEPT !.at = @ + 1]
  /\ UNCHANGED <<text, pos, raw, inScript, jsSnippetStartIndex, embeddedJSs, sources>>

Answer ==
  /\ result.type = "linting" /\ result.at > Len(sources)
  /\ result' = Result("issues", 0, 0)
  /\ UNCHANGED <<text, pos, raw, inScript, jsSnippetStartIndex, embeddedJSs, sources, issues>>

Init ==
  /\ text \in Texts
  /\ pos = 0 /\ raw = FALSE /\ inScript = FALSE /\ jsSnippetStartIndex = 0
  /\ embeddedJSs = <<>> /\ sources = <<>> /\ issues = {}
  /\ result = Result("parsing", 0, 0)

Finished == result.type \in {"issues", "error"} /\ UNCHANGED vars

Next ==
  \/ ParseHTML \/ ParseYaml \/ Parsed
  \/ Build \/ BuildFails \/ Built
  \/ LintNext \/ Answer
  \/ Finished

Spec == Init /\ [][Next]_vars

-----------------------------------------------------------------------------

TrueLoc(o) == GetLocFromIndex(LineStarts, o)

\* The characters of JavaScript: between a script tag without src and the next
\* closing tag, or the value of a key.
IsCode(o) ==
  /\ At(o) \in {"x", "c"}
  /\ LET tags == {p \in 0..(o - 1) : At(p) \in {"S", "X", "E", "k"}}
         opens == {p \in tags : /\ At(p) \in {"S", "X"}
                                /\ \A q \in tags : q < p /\ At(q) \in {"S", "X"} =>
                                      \E r \in tags : q < r /\ r < p /\ At(r) = "E"}
     IN tags # {} /\
        CASE Language = "html" -> At(Max(tags)) # "E" /\ opens # {} /\ At(Max(opens)) = "S"
          [] OTHER -> LET k == Max(tags) IN At(k + 1) = "|" \/ \A p \in k..o : At(p) # "n"

(***************************************************************************)
(* The issues answered are, for every token and comment of the embedded     *)
(* JavaScript, one at its place in the file: none is lost, moved, or        *)
(* outside of JavaScript (patch.ts: locations "will be relative to the      *)
(* whole file"; analyzer.ts: removeNonJsIssues).                           *)
(***************************************************************************)
IssuesInPlace ==
  (result.type = "issues") =>
    {i \in issues : At(i.at) \in {"x", "c"}} = {[at |-> o, loc |-> TrueLoc(o)] : o \in {p \in Offsets : IsCode(p)}}

(***************************************************************************)
(* A parsing error is answered with the line of the file it is on, and with *)
(* nothing of the snippets that could be parsed (patchParsingError).       *)
(***************************************************************************)
ErrorInPlace ==
  (result.type = "error") => result.line = TrueLoc(result.at).line /\ issues = {}

-----------------------------------------------------------------------------
\* Files of the instances of EmbeddedCode.

Pages(chars, n) == UNION {[1..k -> chars] : k \in 1..n}

HtmlTexts == Pages({"S", "X", "E", "x", "n"}, 6)

HtmlSmall == Pages({"S", "E", "x", "n"}, 4)

HtmlSeparators == Pages({"S", "E", "x", "u"}, 4)

HtmlComments == Pages({"S", "E", "x", "c"}, 4)

Plain == {<<"k", "x", "n">>, <<"k", "x", "x", "n">>}

Blocks == {<<"k", "|", "n", "x", "n">>, <<"k", "|", "n", "x", "n", "x", "n">>}

Stripped == {<<"k", "|", "-", "n", "x", "n">>}

Documents(entries, n) == {FlattenSeq(s) : s \in UNION {[1..k -> entries] : k \in 1..n}}

YamlTexts == Documents(Plain \cup Blocks \cup {<<"x", "n">>, <<"n">>}, 3)

YamlStripped == Documents(Stripped, 1)

=============================================================================

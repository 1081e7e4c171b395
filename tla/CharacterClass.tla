--------------------------- MODULE CharacterClass ---------------------------
(***************************************************************************)
(* SimplifiedRegexCharacterClass and the rule on duplicates in a character  *)
(* class (S5869).  The class is a sorted map from code points to the        *)
(* element that covers the code points up to the next entry; elements are   *)
(* added one by one, each compared with those before it.                   *)
(***************************************************************************)
EXTENDS Integers, Sequences, FiniteSets, SequencesExt

CONSTANTS
  MAX_CODE_POINT,  \* code points are 0..MAX_CODE_POINT
  Upper, Lower,    \* toUpperCase and toLowerCase, as functions
  Elements,        \* elements: a sequence of ranges, one for a character
  MaxElements,     \* bound on the elements of a class
  IgnoreCase       \* values of the flag i

CodePointAssumption ==
  /\ MAX_CODE_POINT \in Nat
  /\ Upper \in [0..MAX_CODE_POINT -> 0..MAX_CODE_POINT]
  /\ Lower \in [0..MAX_CODE_POINT -> 0..MAX_CODE_POINT]

VARIABLES
  ignoreCase,  \* flags.ignoreCase of the regular expression
  elements,    \* elements visited so far
  contents,    \* entries of the map: 0 for undefined, else the element
  duplicates   \* elements to report

vars == <<ignoreCase, elements, contents, duplicates>>

CodePoints == 0..MAX_CODE_POINT

None == -1

Max0(S) == IF S = {} THEN None ELSE CHOOSE k \in S : \A l \in S : l <= k

Min0(S) == IF S = {} THEN None ELSE CHOOSE k \in S : \A l \in S : k <= l

\* The entry at or before, and the one after, a code point.
Le(c, k) == Max0({l \in DOMAIN c : l <= k})

Gt(c, k) == Min0({l \in DOMAIN c : l > k})

Put(c, k, v) == [l \in DOMAIN c \cup {k} |-> IF l = k THEN v ELSE c[l]]

(***************************************************************************)
(* addRange.  The tree is persistent and the iterator stays on the tree it  *)
(* began with: each update starts from that tree again, so of the undefined *)
(* entries in the range only the last one is set.                          *)
(***************************************************************************)
FillGaps(c, from, to, e) ==
  LET gap == Max0({k \in DOMAIN c : k > from /\ k <= to /\ c[k] = 0})
  IN IF gap = None THEN c ELSE [c EXCEPT ![gap] = e]

AddRange(c, from, to, e) ==
  LET old == Le(c, to)
      oldEnd == IF old = None THEN None ELSE Gt(c, old)
      filled == FillGaps(Put(c, from, e), from, to, e)
      next == to + 1
  IN CASE next > MAX_CODE_POINT -> filled
       [] old # None /\ c[old] # 0 /\ (oldEnd = None \/ oldEnd > next) -> Put(filled, next, c[old])
       [] next \notin DOMAIN filled -> Put(filled, next, 0)
       [] OTHER -> filled

\* Builder.addRange: with the flag i a range between two letters is added in
\* both cases.
AddFolded(c, r, e) ==
  LET upFrom == Upper[r[1]]
      upTo == Upper[r[2]]
      lowFrom == Lower[upFrom]
      lowTo == Lower[upTo]
  IN IF ignoreCase /\ lowFrom # upFrom /\ lowTo # upTo
     THEN AddRange(AddRange(c, upFrom, upTo, e), lowFrom, lowTo, e)
     ELSE AddRange(c, r[1], r[2], e)

\* A character set such as \w is several ranges of one element.
AddElement(c, ranges, e) == FoldLeft(LAMBDA acc, r : AddFolded(acc, r, e), c, ranges)

(***************************************************************************)
(* findIntersections: the entries of the class so far against the class of  *)
(* the new element alone.                                                  *)
(***************************************************************************)
HasEntryBetween(c, from, to) ==
  \/ Le(c, from) # None /\ c[Le(c, from)] # 0
  \/ \E k \in DOMAIN c : k >= from + 1 /\ k < to + 1

FindIntersections(single, that) ==
  {that[k] : k \in {k \in DOMAIN that :
     LET next == Gt(that, k)
         to == IF next = None THEN MAX_CODE_POINT
               ELSE IF that[next] # 0 THEN next ELSE next - 1
     IN that[k] # 0 /\ HasEntryBetween(single, k, to)}}

Init ==
  /\ ignoreCase \in IgnoreCase
  /\ elements = <<>>
  /\ contents = << >>
  /\ duplicates = {}

\* onCharacterClassEnter, one turn of its loop.
VisitElement(ranges) ==
  LET e == Len(elements) + 1
      found == FindIntersections(AddElement(<<>>, ranges, e), contents)
  IN /\ e <= MaxElements
     /\ duplicates' = duplicates \cup found \cup (IF found = {} THEN {} ELSE {e})
     /\ contents' = AddElement(contents, ranges, e)
     /\ elements' = Append(elements, ranges)
     /\ UNCHANGED ignoreCase

Finished == Len(elements) = MaxElements /\ UNCHANGED vars

Next == (\E ranges \in Elements : VisitElement(ranges)) \/ Finished

Spec == Init /\ [][Next]_vars

-----------------------------------------------------------------------------
\* What an element matches, from the definition of character classes.
Matches(i) ==
  LET own == UNION {r[1]..r[2] : r \in Range(elements[i])}
  IN IF ignoreCase THEN {c \in CodePoints : \E d \in own : Upper[c] = Upper[d]} ELSE own

Overlap(i, j) == i # j /\ Matches(i) \cap Matches(j) # {}

Covered == {c \in CodePoints : Le(contents, c) # None /\ contents[Le(contents, c)] # 0}

\* A character class is reported only when two of its elements match a
\* common character (S5869.html).
ReportedOnlyWithDuplicates ==
  duplicates # {} => \E i, j \in DOMAIN elements : Overlap(i, j)

\* The same for the ranges whose ends keep their order when folded, and
\* without the flag i a class with duplicates is always reported.
ReportedIffDuplicates ==
  /\ (\A i \in DOMAIN elements : \A r \in Range(elements[i]) : Upper[r[1]] <= Upper[r[2]])
     => ReportedOnlyWithDuplicates
  /\ ~ignoreCase /\ (\E i, j \in DOMAIN elements : Overlap(i, j)) => duplicates # {}

\* While no duplicate was found, the map covers exactly the characters of the
\* elements, so that the next element is compared with all of them.
CoveredWhileDistinct ==
  duplicates = {} /\ ~ignoreCase =>
    Covered = UNION {Matches(i) : i \in DOMAIN elements}

\* The comment of the class: a code point is contained in it if and only if
\* the entry at or before it is an element (here without the flag i).
ContentsAreTheClass ==
  ~ignoreCase => Covered = UNION {Matches(i) : i \in DOMAIN elements}

\* Every reported location is an element that matches what another matches.
LocationsAreDuplicates == \A i \in duplicates : \E j \in DOMAIN elements : Overlap(i, j)

-----------------------------------------------------------------------------
\* Code points and elements of the instances of CharacterClass: 0 a digit, 1
\* and 2 the letters A and B, 3 the underscore, 4 and 5 a and b, 6 other.

ToUpper == [c \in CodePoints |-> IF c \in {4, 5} THEN c - 3 ELSE c]

ToLower == [c \in CodePoints |-> IF c \in {1, 2} THEN c + 3 ELSE c]

\* All characters and ranges, the sets \w and \W.
AllElements ==
  {<<r>> : r \in {r \in CodePoints \X CodePoints : r[1] <= r[2]}}
  \cup {<<<<0, 0>>, <<1, 2>>, <<3, 3>>, <<4, 5>>>>}

=============================================================================

-------------------------- MODULE DeadStoreProofs --------------------------
(***************************************************************************)
(* What holds of no-dead-store for every choice of the constants.          *)
(*                                                                         *)
(* LvaInvariant is inductive by itself and gives StableSolution.           *)
(* WalkInvariant needs that no assignment holds branches or, where its     *)
(* left side is read, another write: the references that the open          *)
(* assignments still keep, list after list, are then in the order of       *)
(* evaluation, and every step takes the lists apart or puts them together  *)
(* in that order.  At the end of the walk the lists of a segment are one,  *)
(* so that a backwards look at the references is a backwards look at what  *)
(* the program does: no live variable is missed, and with UsageInvariant   *)
(* every report is of a dead value.                                        *)
(***************************************************************************)
EXTENDS DeadStore, FiniteSetTheorems, TLAPS

-----------------------------------------------------------------------------
(* Sequences *)

\* The elements of a sequence without its last one, and of one that is extended.
LEMMA FrontFacts ==
  ASSUME NEW S, NEW q \in Seq(S), q # <<>>
  PROVE  /\ Last(q) \in S /\ Front(q) \in Seq(S)
         /\ \A x \in ToSet(q) : x = Last(q) \/ x \in ToSet(Front(q))
<1>1. Len(q) \in Nat \ {0} /\ q \in [1..Len(q) -> S]
  OBVIOUS
<1>2. Front(q) \in Seq(S) /\ Len(Front(q)) = Len(q) - 1 /\ \A i \in 1..(Len(q) - 1) : Front(q)[i] = q[i]
  BY <1>1 DEF Front
<1>3. DOMAIN Front(q) = 1..(Len(q) - 1)
  BY <1>2
<1>4. ASSUME NEW x \in ToSet(q) PROVE x = Last(q) \/ x \in ToSet(Front(q))
  <2>1. PICK i \in 1..Len(q) : x = q[i]
    BY <1>1 DEF ToSet
  <2> QED
    BY <1>1, <1>2, <1>3, <2>1 DEF ToSet, Last
<1> QED
  BY <1>1, <1>2, <1>4 DEF Last

LEMMA ConcatFacts ==
  ASSUME NEW S, NEW p \in Seq(S), NEW q \in Seq(S)
  PROVE  /\ p \o q \in Seq(S) /\ Len(p \o q) = Len(p) + Len(q)
         /\ ToSet(p) \subseteq ToSet(p \o q) /\ ToSet(q) \subseteq ToSet(p \o q)
<1>1. /\ p \o q \in Seq(S) /\ Len(p) \in Nat /\ Len(q) \in Nat /\ Len(p \o q) = Len(p) + Len(q)
      /\ DOMAIN p = 1..Len(p) /\ DOMAIN q = 1..Len(q) /\ DOMAIN (p \o q) = 1..(Len(p) + Len(q))
      /\ \A i \in 1..Len(p) : (p \o q)[i] = p[i]
      /\ \A i \in 1..Len(q) : (p \o q)[Len(p) + i] = q[i]
  OBVIOUS
<1>2. ToSet(p) \subseteq ToSet(p \o q)
  <2> SUFFICES ASSUME NEW i \in 1..Len(p) PROVE p[i] \in ToSet(p \o q)
    BY <1>1 DEF ToSet
  <2> QED
    BY <1>1 DEF ToSet
<1>3. ToSet(q) \subseteq ToSet(p \o q)
  <2> SUFFICES ASSUME NEW i \in 1..Len(q) PROVE q[i] \in ToSet(p \o q)
    BY <1>1 DEF ToSet
  <2>1. Len(p) + i \in DOMAIN (p \o q) /\ (p \o q)[Len(p) + i] = q[i]
    BY <1>1
  <2> QED
    BY <2>1 DEF ToSet
<1> QED
  BY <1>1, <1>2, <1>3

\* Whatever order a finite set is listed in, every element is there.
LEMMA ListingIsComplete ==
  ASSUME NEW S, IsFiniteSet(S), NEW q \in SetToSeqs(S)
  PROVE  q \in Seq(S) /\ ToSet(q) = S
<1> DEFINE D == 1..Cardinality(S)
<1>1. Cardinality(S) \in Nat
  BY FS_CardinalityType
<1>2. q \in [D -> S] /\ \A i, j \in D : i # j => q[i] # q[j]
  BY DEF SetToSeqs
<1>3. q \in Injection(D, S)
  BY <1>2 DEF Injection, IsInjective
<1>4. Cardinality(D) = Cardinality(S)
  BY <1>1, FS_Interval
<1>5. q \in Surjection(D, S)
  BY <1>3, <1>4, FS_Injection
<1>6. \A x \in S : \E i \in D : q[i] = x
  BY <1>5 DEF Surjection
<1>7. q \in Seq(S)
  BY <1>1, <1>2
<1> QED
  BY <1>2, <1>6, <1>7 DEF ToSet

\* The path of a sequence of segments that more of them are appended to.
LEMMA MoreSegments ==
  ASSUME NEW p, p \in Seq(ToSet(p)), NEW n \in Nat, NEW id
  PROVE  LET more == p \o [i \in 1..n |-> id] IN more \in Seq(ToSet(more))
<1> DEFINE S == ToSet(p) \cup {id}
           m == [i \in 1..n |-> id]
<1>1. p \in Seq(S)
  OBVIOUS
<1>2. m \in Seq(S)
  OBVIOUS
<1>3. p \o m \in Seq(S)
  BY <1>1, <1>2
<1>4. ASSUME NEW q, q \in Seq(S) PROVE q \in Seq(ToSet(q))
  <2>1. Len(q) \in Nat /\ DOMAIN q = 1..Len(q) /\ q = [i \in 1..Len(q) |-> q[i]]
    BY <1>4
  <2>2. q \in [1..Len(q) -> ToSet(q)]
    BY <2>1 DEF ToSet
  <2> QED
    BY <2>1, <2>2
<1> QED
  BY <1>3, <1>4

-----------------------------------------------------------------------------
(* The order of operations *)

\* The elements of a concatenation, by index and as a set.
LEMMA ConcatElements ==
  ASSUME NEW S, NEW p \in Seq(S), NEW q \in Seq(S)
  PROVE  /\ p \o q \in Seq(S) /\ Len(p \o q) = Len(p) + Len(q) /\ Len(p) \in Nat /\ Len(q) \in Nat
         /\ DOMAIN p = 1..Len(p) /\ DOMAIN q = 1..Len(q) /\ DOMAIN (p \o q) = 1..(Len(p) + Len(q))
         /\ \A i \in 1..Len(p) : (p \o q)[i] = p[i]
         /\ \A i \in 1..(Len(p) + Len(q)) : i > Len(p) => i - Len(p) \in 1..Len(q) /\ (p \o q)[i] = q[i - Len(p)]
         /\ ToSet(p \o q) = ToSet(p) \cup ToSet(q)
<1>1. /\ p \o q \in Seq(S) /\ Len(p) \in Nat /\ Len(q) \in Nat /\ Len(p \o q) = Len(p) + Len(q)
      /\ DOMAIN p = 1..Len(p) /\ DOMAIN q = 1..Len(q) /\ DOMAIN (p \o q) = 1..(Len(p) + Len(q))
      /\ \A i \in 1..Len(p) : (p \o q)[i] = p[i]
      /\ \A i \in 1..(Len(p) + Len(q)) : i > Len(p) => i - Len(p) \in 1..Len(q) /\ (p \o q)[i] = q[i - Len(p)]
  OBVIOUS
<1>2. ToSet(p \o q) \subseteq ToSet(p) \cup ToSet(q)
  <2> SUFFICES ASSUME NEW i \in 1..(Len(p) + Len(q)) PROVE (p \o q)[i] \in ToSet(p) \cup ToSet(q)
    BY <1>1 DEF ToSet
  <2>1. CASE i > Len(p)
    BY <1>1, <2>1 DEF ToSet
  <2>2. CASE ~(i > Len(p))
    <3>1. i \in 1..Len(p)
      BY <1>1, <2>2
    <3> QED
      BY <1>1, <3>1 DEF ToSet
  <2> QED
    BY <2>1, <2>2
<1> QED
  BY <1>1, <1>2, ConcatFacts

\* Operations that are not of the first reference may follow.
LEMMA OrderExtends ==
  ASSUME NEW ops \in Seq(Operation), NEW more \in Seq(Operation), NEW r1, NEW r2,
         InOrder(ops, r1, r2), \A o \in ToSet(more) : o.id # r1.id
  PROVE  InOrder(ops \o more, r1, r2)
<1> DEFINE all == ops \o more
<1>1. /\ Len(ops) \in Nat /\ DOMAIN ops = 1..Len(ops) /\ DOMAIN all = 1..(Len(ops) + Len(more)) /\ Len(more) \in Nat
      /\ \A i \in 1..Len(ops) : all[i] = ops[i]
      /\ \A i \in 1..(Len(ops) + Len(more)) : i > Len(ops) => all[i] \in ToSet(more)
  <2>1. DOMAIN more = 1..Len(more)
    OBVIOUS
  <2> QED
    BY <2>1, ConcatElements DEF ToSet
<1> SUFFICES ASSUME NEW p \in DOMAIN all, NEW q \in DOMAIN all, all[p].id = r1.id, all[q].id = r2.id,
                    all[p].v = all[q].v, all[p].k = "w" \/ all[q].k = "w"
             PROVE  p < q
  BY DEF InOrder
<1>2. p \in 1..Len(ops) /\ all[p] = ops[p]
  BY <1>1
<1>3. CASE q \in 1..Len(ops)
  BY <1>1, <1>2, <1>3 DEF InOrder
<1>4. CASE q > Len(ops)
  BY <1>1, <1>2, <1>4
<1> HIDE DEF all
<1> QED
  BY <1>1, <1>3, <1>4

\* A reference all of whose operations are new comes after those that have none of them.
LEMMA OrderOfNew ==
  ASSUME NEW ops \in Seq(Operation), NEW more \in Seq(Operation), NEW r1, NEW r2, r1.id # r2.id,
         \A o \in ToSet(ops) : o.id # r2.id, \A o \in ToSet(more) : o.id # r1.id
  PROVE  InOrder(ops \o more, r1, r2)
<1>1. DOMAIN ops = 1..Len(ops) /\ Len(ops) \in Nat
  OBVIOUS
<1>2. InOrder(ops, r1, r2)
  BY <1>1 DEF InOrder, ToSet
<1> QED
  BY <1>2, OrderExtends

\* References that only read, or of which the second did nothing, are in any order.
LEMMA OrderOfReads ==
  ASSUME NEW ops \in Seq(Operation), NEW r1, NEW r2, r1.id # r2.id,
         \/ \A o \in ToSet(ops) : o.id # r2.id
         \/ \A o \in ToSet(ops) : o.id \in {r1.id, r2.id} => o.k = "r"
  PROVE  InOrder(ops, r1, r2)
<1>1. \A p \in DOMAIN ops : ops[p] \in ToSet(ops)
  BY DEF ToSet
<1> QED
  BY <1>1 DEF InOrder

LEMMA OrderedConcat ==
  ASSUME NEW ops, NEW a \in Seq(Reference), NEW b \in Seq(Reference),
         Ordered(ops, a), Ordered(ops, b), Before(ops, a, b)
  PROVE  Ordered(ops, a \o b)
<1> DEFINE c == a \o b
<1>1. /\ Len(a) \in Nat /\ Len(b) \in Nat /\ DOMAIN a = 1..Len(a) /\ DOMAIN b = 1..Len(b)
      /\ DOMAIN c = 1..(Len(a) + Len(b))
      /\ \A i \in 1..Len(a) : c[i] = a[i]
      /\ \A i \in 1..(Len(a) + Len(b)) : i > Len(a) => i - Len(a) \in 1..Len(b) /\ c[i] = b[i - Len(a)]
  BY ConcatElements
<1> HIDE DEF c
<1> SUFFICES ASSUME NEW i \in DOMAIN c, NEW j \in DOMAIN c, i < j PROVE InOrder(ops, c[i], c[j])
  BY DEF Ordered, c
<1>2. CASE j <= Len(a)
  <2>1. i \in DOMAIN a /\ j \in DOMAIN a /\ c[i] = a[i] /\ c[j] = a[j]
    BY <1>1, <1>2
  <2> QED
    BY <2>1 DEF Ordered
<1>3. CASE i > Len(a)
  <2>1. /\ i - Len(a) \in DOMAIN b /\ j - Len(a) \in DOMAIN b /\ i - Len(a) < j - Len(a)
        /\ c[i] = b[i - Len(a)] /\ c[j] = b[j - Len(a)]
    BY <1>1, <1>3
  <2> QED
    BY <2>1 DEF Ordered
<1>4. CASE i <= Len(a) /\ j > Len(a)
  <2>1. i \in DOMAIN a /\ j - Len(a) \in DOMAIN b /\ c[i] = a[i] /\ c[j] = b[j - Len(a)]
    BY <1>1, <1>4
  <2> QED
    BY <2>1 DEF Before, ToSet
<1> QED
  BY <1>1, <1>2, <1>3, <1>4

LEMMA ReadsStayBeforeWrites ==
  ASSUME NEW ops \in Seq(Operation), NEW more \in Seq(Operation), ReadsBeforeItWrites(ops), ReadsBeforeItWrites(more),
         \A o1 \in ToSet(ops) : \A o2 \in ToSet(more) : o1.id = o2.id => o2.k # "r"
  PROVE  ReadsBeforeItWrites(ops \o more)
<1> DEFINE all == ops \o more
<1>1. /\ Len(ops) \in Nat /\ Len(more) \in Nat /\ DOMAIN ops = 1..Len(ops) /\ DOMAIN more = 1..Len(more)
      /\ DOMAIN all = 1..(Len(ops) + Len(more))
      /\ \A i \in 1..Len(ops) : all[i] = ops[i]
      /\ \A i \in 1..(Len(ops) + Len(more)) : i > Len(ops) => i - Len(ops) \in 1..Len(more) /\ all[i] = more[i - Len(ops)]
  BY ConcatElements
<1> HIDE DEF all
<1> SUFFICES ASSUME NEW p \in DOMAIN all, NEW q \in DOMAIN all, all[p].id = all[q].id,
                    all[p].k = "r", all[q].k = "w"
             PROVE  p < q
  BY DEF ReadsBeforeItWrites, all
<1>2. CASE p <= Len(ops) /\ q <= Len(ops)
  <2>1. p \in DOMAIN ops /\ q \in DOMAIN ops /\ all[p] = ops[p] /\ all[q] = ops[q]
    BY <1>1, <1>2
  <2> QED
    BY <2>1 DEF ReadsBeforeItWrites
<1>3. CASE p > Len(ops) /\ q > Len(ops)
  <2>1. /\ p - Len(ops) \in DOMAIN more /\ q - Len(ops) \in DOMAIN more
        /\ all[p] = more[p - Len(ops)] /\ all[q] = more[q - Len(ops)]
    BY <1>1, <1>3
  <2>2. p - Len(ops) < q - Len(ops)
    BY <2>1 DEF ReadsBeforeItWrites
  <2> QED
    BY <1>1, <2>2
<1>4. CASE p > Len(ops) /\ q <= Len(ops)
  <2>1. /\ p - Len(ops) \in DOMAIN more /\ q \in DOMAIN ops /\ all[p] = more[p - Len(ops)] /\ all[q] = ops[q]
    BY <1>1, <1>4
  <2> QED
    BY <2>1 DEF ToSet
<1> QED
  BY <1>1, <1>2, <1>3, <1>4

-----------------------------------------------------------------------------
(* The lists of references *)

LEMMA ListTypes ==
  ASSUME NEW rs \in Seq(Reference), NEW asg \in Seq(Assignment), NEW x \in Lists(asg)
  PROVE  List(rs, asg, x) \in Seq(Reference) /\ Len(asg) \in Nat /\ x \in Nat
<1>1. Len(asg) \in Nat /\ \A i \in 1..Len(asg) : asg[i] \in Assignment
  OBVIOUS
<1>2. CASE x = 0
  BY <1>1, <1>2 DEF List, Lists
<1>3. CASE x # 0 /\ x <= Len(asg)
  BY <1>1, <1>3 DEF List, Lists, Assignment
<1>4. CASE x > Len(asg)
  <2>1. 2 * Len(asg) + 1 - x \in 1..Len(asg)
    BY <1>1, <1>4 DEF Lists
  <2> QED
    BY <1>1, <1>4, <2>1 DEF List, Lists, Assignment
<1> QED
  BY <1>1, <1>2, <1>3, <1>4 DEF Lists

LEMMA RefsAreReferences ==
  ASSUME NEW rs \in Seq(Reference), NEW asg \in Seq(Assignment)
  PROVE  RefsOf(rs, asg) \subseteq Reference
<1> SUFFICES ASSUME NEW x \in Lists(asg), NEW r \in ToSet(List(rs, asg, x)) PROVE r \in Reference
  BY DEF RefsOf
<1>1. List(rs, asg, x) \in Seq(Reference)
  BY ListTypes
<1>2. DOMAIN List(rs, asg, x) = 1..Len(List(rs, asg, x)) /\ \A i \in 1..Len(List(rs, asg, x)) : List(rs, asg, x)[i] \in Reference
  BY <1>1
<1> QED
  BY <1>2 DEF ToSet

\* pushAssignmentContext: two empty lists are inserted between the right sides
\* and the left sides.
LEMMA PushKeeps ==
  ASSUME NEW ops, NEW rs, NEW asg \in Seq(Assignment), Evaluated(ops, rs, asg),
         asg # <<>> => Last(asg).side = "rhs",
         \A i \in DOMAIN asg : \A r \in ToSet(asg[i].lhs) : ~IsRead(r)
  PROVE  LET more == Append(asg, NewAssignment)
         IN Evaluated(ops, rs, more) /\ RefsOf(rs, more) = RefsOf(rs, asg)
<1> DEFINE more == Append(asg, NewAssignment)
           D == Len(asg)
           old(x) == List(rs, asg, x)
           new(x) == List(rs, more, x)
           from(x) == IF x <= D THEN x ELSE x - 2
<1>1. D \in Nat /\ DOMAIN asg = 1..D /\ Len(more) = D + 1 /\ DOMAIN more = 1..(D + 1)
      /\ more[D + 1] = NewAssignment /\ \A i \in 1..D : more[i] = asg[i]
  OBVIOUS
<1>2. ASSUME NEW x \in Lists(more)
      PROVE  \/ new(x) = <<>>
             \/ x \notin {D + 1, D + 2} /\ from(x) \in Lists(asg) /\ new(x) = old(from(x))
  <2>1. x \in 0..(2 * D + 2)
    BY <1>1 DEF Lists
  <2>2. CASE x <= D
    BY <1>1, <2>1, <2>2 DEF Lists, List
  <2>3. CASE x \in {D + 1, D + 2}
    <3>1. CASE x = D + 1
      BY <1>1, <3>1 DEF Lists, List, NewAssignment
    <3>2. CASE x = D + 2
      <4>1. 2 * (D + 1) + 1 - x = D + 1
        BY <1>1, <3>2
      <4> QED
        BY <1>1, <4>1, <3>2 DEF Lists, List, NewAssignment
    <3> QED
      BY <2>3, <3>1, <3>2
  <2>4. CASE x > D + 2
    <3>1. 2 * (D + 1) + 1 - x \in 1..D /\ 2 * (D + 1) + 1 - x = 2 * D + 1 - (x - 2)
      BY <1>1, <2>1, <2>4
    <3>2. new(x) = more[2 * (D + 1) + 1 - x].lhs
      BY <1>1, <2>1, <2>4 DEF List
    <3>3. old(x - 2) = asg[2 * D + 1 - (x - 2)].lhs
      BY <1>1, <2>1, <2>4 DEF List
    <3> QED
      BY <1>1, <2>1, <2>4, <3>1, <3>2, <3>3 DEF Lists
  <2> QED
    BY <1>1, <2>1, <2>2, <2>3, <2>4
<1>3. ASSUME NEW x \in Lists(asg)
      PROVE  \E y \in Lists(more) : y \notin {D + 1, D + 2} /\ from(y) = x /\ new(y) = old(x)
  <2>1. x \in 0..(2 * D)
    BY DEF Lists
  <2>2. CASE x <= D
    BY <1>1, <2>1, <2>2 DEF Lists, List
  <2>3. CASE x > D
    <3>1. x + 2 \in Lists(more) /\ from(x + 2) = x
      BY <1>1, <2>1, <2>3 DEF Lists
    <3>2. 2 * (D + 1) + 1 - (x + 2) \in 1..D /\ 2 * (D + 1) + 1 - (x + 2) = 2 * D + 1 - x
      BY <1>1, <2>1, <2>3
    <3>3. new(x + 2) = more[2 * (D + 1) + 1 - (x + 2)].lhs /\ old(x) = asg[2 * D + 1 - x].lhs
      BY <1>1, <2>1, <2>3 DEF List
    <3>4. x + 2 \notin {D + 1, D + 2} /\ new(x + 2) = old(x)
      BY <1>1, <2>1, <2>3, <3>2, <3>3
    <3> QED
      BY <3>1, <3>4
  <2> QED
    BY <1>1, <2>1, <2>2, <2>3
<1>4. \A x, y \in Lists(more) : x < y /\ x \notin {D + 1, D + 2} /\ y \notin {D + 1, D + 2} => from(x) < from(y)
  BY <1>1 DEF Lists
<1>5. \A x \in Lists(more) : x \notin {D + 1, D + 2} => (x <= D + 1 <=> from(x) <= D)
  BY <1>1 DEF Lists
<1>0. ToSet(<<>>) = {} /\ Ordered(ops, <<>>)
  BY DEF ToSet, Ordered
<1>r. ASSUME NEW x \in Lists(asg), x > D, NEW r \in ToSet(old(x)) PROVE ~IsRead(r)
  <2>1. 2 * D + 1 - x \in DOMAIN asg /\ old(x) = asg[2 * D + 1 - x].lhs
    BY <1>1, <1>r DEF Lists, List
  <2> QED
    BY <2>1, <1>r
<1> HIDE DEF more, from, old, new
<1>6. ListsInOrder(ops, rs, more)
  <2>0. ReadsBeforeItWrites(ops)
    BY DEF Evaluated, ListsInOrder
  <2>1. ASSUME NEW x \in Lists(more) PROVE Ordered(ops, new(x))
    <3>1. \A y \in Lists(asg) : Ordered(ops, old(y))
      BY DEF Evaluated, ListsInOrder, old
    <3> QED
      BY <3>1, <1>0, <1>2
  <2>2. ASSUME NEW x \in Lists(more), NEW y \in Lists(more), x < y PROVE Before(ops, new(x), new(y))
    <3>1. \A u, w \in Lists(asg) : u < w => Before(ops, old(u), old(w))
      BY DEF Evaluated, ListsInOrder, old
    <3>2. CASE new(x) = <<>> \/ new(y) = <<>>
      BY <3>2, <1>0 DEF Before
    <3>3. CASE new(x) # <<>> /\ new(y) # <<>>
      BY <3>1, <3>3, <2>2, <1>2, <1>4
    <3> QED
      BY <3>2, <3>3
  <2> QED
    BY <2>0, <2>1, <2>2 DEF ListsInOrder, new
<1>7. ListsAreComplete(ops, rs, more)
  <2>1. ASSUME NEW o \in ToSet(ops)
        PROVE  \E x \in Lists(more) : \E r \in ToSet(new(x)) : o \in Operations(r)
    <3>1. PICK x \in Lists(asg) : \E r \in ToSet(old(x)) : o \in Operations(r)
      BY DEF Evaluated, ListsAreComplete, old
    <3> QED
      BY <3>1, <1>3
  <2>2. ASSUME NEW x \in Lists(more), NEW r \in ToSet(new(x))
        PROVE  IF x <= D + 1 THEN Operations(r) \subseteq ToSet(ops)
               ELSE /\ IsRead(r) => Op(r, "r") \in ToSet(ops) /\ x = D + 2
                    /\ \A o \in ToSet(ops) : o.id = r.id => o.k = "r" /\ IsRead(r)
    <3>1. x \notin {D + 1, D + 2} /\ from(x) \in Lists(asg) /\ r \in ToSet(old(from(x)))
      BY <1>0, <1>2
    <3>2. IF from(x) <= D THEN Operations(r) \subseteq ToSet(ops)
          ELSE /\ IsRead(r) => Op(r, "r") \in ToSet(ops)
               /\ \A o \in ToSet(ops) : o.id = r.id => o.k = "r" /\ IsRead(r)
      BY <3>1 DEF Evaluated, ListsAreComplete, old
    <3>3. from(x) \in Nat /\ (~(from(x) <= D) => ~IsRead(r))
      BY <1>1, <3>1, <1>r DEF Lists
    <3> QED
      BY <3>1, <3>2, <3>3, <1>5
  <2>3. D + 1 + 1 = D + 2
    BY <1>1
  <2> QED
    BY <1>1, <2>1, <2>2, <2>3 DEF ListsAreComplete, new
<1>8. Targets(more)
  <2> SUFFICES ASSUME NEW i \in 1..(D + 1)
               PROVE  /\ \/ more[i].own = more[i].lhs /\ \A r \in ToSet(more[i].lhs) : IsWrite(r)
                         \/ more[i].own = <<>> /\ \A r \in ToSet(more[i].lhs) : ~IsWrite(r)
                      /\ Len(more[i].lhs) <= 1 \/ \A r \in ToSet(more[i].lhs) : ~IsRead(r)
                      /\ i < D + 1 => more[i].side = "rhs"
    BY <1>1 DEF Targets
  <2>1. CASE i = D + 1
    BY <1>0, <1>1, <2>1 DEF NewAssignment
  <2>2. CASE i # D + 1
    <3>1. i \in DOMAIN asg /\ more[i] = asg[i]
      BY <1>1, <2>2
    <3>2. i = D => asg[i].side = "rhs"
      BY <1>1, <3>1 DEF Last
    <3>3. i # D => i < Len(asg)
      BY <1>1, <3>1
    <3> QED
      BY <3>1, <3>2, <3>3 DEF Evaluated, Targets
  <2> QED
    BY <2>1, <2>2
<1>9. RefsOf(rs, more) = RefsOf(rs, asg)
  <2>1. ASSUME NEW r \in RefsOf(rs, more) PROVE r \in RefsOf(rs, asg)
    <3>1. PICK x \in Lists(more) : r \in ToSet(new(x))
      BY <2>1 DEF RefsOf, new
    <3>2. from(x) \in Lists(asg) /\ r \in ToSet(old(from(x)))
      BY <3>1, <1>0, <1>2
    <3> QED
      BY <3>2 DEF RefsOf, old
  <2>2. ASSUME NEW r \in RefsOf(rs, asg) PROVE r \in RefsOf(rs, more)
    <3>1. PICK x \in Lists(asg) : r \in ToSet(old(x))
      BY <2>2 DEF RefsOf, old
    <3> QED
      BY <3>1, <1>3 DEF RefsOf, new
  <2> QED
    BY <2>1, <2>2
<1> QED
  BY <1>6, <1>7, <1>8, <1>9 DEF Evaluated, more

\* processReference for a new reference, which goes to the end of list at: the
\* operations that are performed now come last, and the lists behind it have
\* only been read.
Performs(more, ref, at, own) == ToSet(more) = {o \in Operations(ref) : at = own \/ o.k = "r"}
UnreadLeft(rs, asg) ==
  \A x \in Lists(asg) : \A r \in ToSet(List(rs, asg, x)) : x > Len(asg) => ~IsRead(r)
UpTo(rs, asg, n) == \A r \in RefsOf(rs, asg) : r.id <= n

Inserted(rs, asg, rs2, asg2, at, ref) ==
  /\ Len(asg2) = Len(asg)
  /\ \A x \in Lists(asg) : List(rs2, asg2, x) = IF x = at THEN List(rs, asg, x) \o <<ref>> ELSE List(rs, asg, x)

\* A new reference ref comes to the list at of ops, rs and asg, and performs more.
Insertion(ops, more, rs, rs2, asg, asg2, n, ref, at) ==
  /\ ops \in Seq(Operation) /\ more \in Seq(Operation)
  /\ rs \in Seq(Reference) /\ asg \in Seq(Assignment)
  /\ n \in Nat /\ ref \in Reference /\ ref.id = n + 1 /\ at \in Lists(asg)
  /\ ListsInOrder(ops, rs, asg) /\ ListsAreComplete(ops, rs, asg) /\ UpTo(rs, asg, n)
  /\ Inserted(rs, asg, rs2, asg2, at, ref)
  /\ at \in {Len(asg), Len(asg) + 1}
  /\ Performs(more, ref, at, Len(asg)) /\ ReadsBeforeItWrites(more)
  /\ (\E o \in ToSet(more) : o.k = "w") => UnreadLeft(rs, asg)

LEMMA InsertKeeps ==
  ASSUME NEW ops, NEW more, NEW rs, NEW rs2, NEW asg, NEW asg2, NEW n, NEW ref, NEW at,
         Insertion(ops, more, rs, rs2, asg, asg2, n, ref, at)
  PROVE  /\ ListsInOrder(ops \o more, rs2, asg2) /\ ListsAreComplete(ops \o more, rs2, asg2)
         /\ RefsOf(rs2, asg2) = RefsOf(rs, asg) \cup {ref}
<1> USE DEF Insertion
<1> USE DEF Performs, UnreadLeft, UpTo
<1> DEFINE D == Len(asg)
           all == ops \o more
           old(x) == List(rs, asg, x)
           new(x) == List(rs2, asg2, x)
<1>1. D \in Nat /\ Lists(asg2) = Lists(asg) /\ Lists(asg) \subseteq Nat
  BY DEF Lists, Inserted
<1>i. \A x \in Lists(asg) : new(x) = IF x = at THEN old(x) \o <<ref>> ELSE old(x)
  BY DEF Inserted
<1>2. /\ all \in Seq(Operation) /\ ToSet(all) = ToSet(ops) \cup ToSet(more)
  BY ConcatElements
<1>3. \A x \in Lists(asg) : old(x) \in Seq(Reference)
  BY ListTypes
<1>4. \A x \in Lists(asg) : ToSet(old(x)) \subseteq RefsOf(rs, asg)
  BY DEF RefsOf
<1>5. <<ref>> \in Seq(Reference) /\ ToSet(<<ref>>) = {ref}
  BY DEF ToSet
<1>6. \A x \in Lists(asg) : ToSet(new(x)) = ToSet(old(x)) \cup (IF x = at THEN {ref} ELSE {})
  <2> SUFFICES ASSUME NEW x \in Lists(asg) PROVE ToSet(new(x)) = ToSet(old(x)) \cup (IF x = at THEN {ref} ELSE {})
    OBVIOUS
  <2>1. CASE x = at
    <3>1. new(x) = old(x) \o <<ref>>
      BY <1>i, <2>1
    <3>2. ToSet(old(x) \o <<ref>>) = ToSet(old(x)) \cup ToSet(<<ref>>)
      <4> DEFINE a == old(x)
                 b == <<ref>>
      <4>1. a \in Seq(Reference) /\ b \in Seq(Reference)
        BY <1>3, <1>5
      <4> HIDE DEF a, b
      <4>2. ToSet(a \o b) = ToSet(a) \cup ToSet(b)
        BY <4>1, ConcatElements
      <4> QED
        BY <4>2 DEF a, b
    <3> QED
      BY <3>1, <3>2, <1>5, <2>1
  <2>2. CASE x # at
    BY <1>i, <2>2
  <2> QED
    BY <2>1, <2>2
<1>7. \A o \in ToSet(more) : o.id = n + 1
  BY DEF Operations, Op
<1>8. \A r \in RefsOf(rs, asg) : r.id # n + 1
  <2>1. \A r \in RefsOf(rs, asg) : r \in Reference
    <3> SUFFICES ASSUME NEW x \in Lists(asg), NEW r \in ToSet(old(x)) PROVE r \in Reference
      BY DEF RefsOf
    <3>1. DOMAIN old(x) = 1..Len(old(x)) /\ \A i \in 1..Len(old(x)) : old(x)[i] \in Reference
      BY <1>3
    <3> QED
      BY <3>1 DEF ToSet
  <2> QED
    BY <2>1 DEF Reference
<1>9. \A o \in ToSet(ops) : o.id # n + 1
  <2> SUFFICES ASSUME NEW o \in ToSet(ops) PROVE o.id # n + 1
    OBVIOUS
  <2>1. PICK x \in Lists(asg) : \E r \in ToSet(old(x)) : o \in Operations(r)
    BY DEF ListsAreComplete
  <2>2. PICK r \in ToSet(old(x)) : o \in Operations(r)
    BY <2>1
  <2>3. r \in RefsOf(rs, asg) /\ o.id = r.id
    BY <2>2, <1>4 DEF Operations, Op
  <2> QED
    BY <2>3, <1>8
\* The three kinds of pairs.
<1>10. ASSUME NEW r1, NEW r2, InOrder(ops, r1, r2), r1 \in RefsOf(rs, asg) PROVE InOrder(all, r1, r2)
  <2>1. \A o \in ToSet(more) : o.id # r1.id
    BY <1>7, <1>8, <1>10
  <2> QED
    BY <2>1, <1>10, OrderExtends
<1>11. ASSUME NEW r1 \in RefsOf(rs, asg) PROVE InOrder(all, r1, ref)
  <2>1. r1.id # ref.id /\ (\A o \in ToSet(ops) : o.id # ref.id) /\ (\A o \in ToSet(more) : o.id # r1.id)
    BY <1>7, <1>8, <1>9
  <2> QED
    BY <2>1, OrderOfNew
<1>12. ASSUME NEW x \in Lists(asg), x > at, NEW r2 \in ToSet(old(x)) PROVE InOrder(all, ref, r2)
  <2>0. r2 \in RefsOf(rs, asg) /\ r2.id # ref.id
    BY <1>4, <1>8
  <2>1. x > D
    BY <1>1, <1>12
  <2>2. \A o \in ToSet(ops) : o.id = r2.id => o.k = "r" /\ IsRead(r2)
    BY <1>1, <2>1 DEF ListsAreComplete
  <2>3. \A o \in ToSet(more) : o.id # r2.id
    BY <1>7, <2>0
  <2>4. CASE \E o \in ToSet(more) : o.k = "w"
    <3>1. ~IsRead(r2)
      BY <2>1, <2>4
    <3>2. \A o \in ToSet(all) : o.id # r2.id
      BY <1>2, <2>2, <2>3, <3>1
    <3> QED
      BY <2>0, <1>2, <3>2, OrderOfReads
  <2>5. CASE ~\E o \in ToSet(more) : o.k = "w"
    <3>1. \A o \in ToSet(more) : o.k = "r"
      BY <2>5 DEF Operations, Op
    <3>2. \A o \in ToSet(all) : o.id \in {ref.id, r2.id} => o.k = "r"
      BY <1>2, <1>9, <2>2, <3>1
    <3> QED
      BY <2>0, <1>2, <3>2, OrderOfReads
  <2> QED
    BY <2>4, <2>5
<1>13. ListsInOrder(all, rs2, asg2)
  <2>0. ReadsBeforeItWrites(all)
    <3>1. \A o1 \in ToSet(ops) : \A o2 \in ToSet(more) : o1.id # o2.id
      BY <1>7, <1>9
    <3>2. ReadsBeforeItWrites(ops)
      BY DEF ListsInOrder
    <3> QED
      BY <3>1, <3>2, ReadsStayBeforeWrites
  <2>1. ASSUME NEW x \in Lists(asg) PROVE Ordered(all, new(x))
    <3>1. Ordered(all, old(x))
      <4>1. Ordered(ops, old(x))
        BY DEF ListsInOrder
      <4>2. \A i \in DOMAIN old(x) : old(x)[i] \in RefsOf(rs, asg)
        BY <1>4 DEF ToSet
      <4> QED
        BY <4>1, <4>2, <1>10 DEF Ordered
    <3>2. CASE x # at
      BY <1>i, <3>1, <3>2
    <3>3. CASE x = at
      <4>1. Ordered(all, <<ref>>)
        <5>1. DOMAIN <<ref>> = {1}
          OBVIOUS
        <5> QED
          BY <5>1 DEF Ordered
      <4>2. Before(all, old(x), <<ref>>)
        BY <1>4, <1>5, <1>11 DEF Before
      <4>3. Ordered(all, old(x) \o <<ref>>)
        BY <3>1, <4>1, <4>2, <1>3, <1>5, OrderedConcat
      <4> QED
        BY <1>i, <3>3, <4>3
    <3> QED
      BY <3>2, <3>3
  <2>2. ASSUME NEW x \in Lists(asg), NEW y \in Lists(asg), x < y PROVE Before(all, new(x), new(y))
    <3> SUFFICES ASSUME NEW r1 \in ToSet(new(x)), NEW r2 \in ToSet(new(y)) PROVE InOrder(all, r1, r2)
      BY DEF Before
    <3>1. CASE r1 \in ToSet(old(x)) /\ r2 \in ToSet(old(y))
      <4>1. InOrder(ops, r1, r2)
        BY <3>1, <2>2 DEF ListsInOrder, Before
      <4> QED
        BY <4>1, <3>1, <1>4, <1>10
    <3>2. CASE r1 \in ToSet(old(x)) /\ r2 = ref
      BY <3>2, <1>4, <1>11
    <3>3. CASE x = at /\ r1 = ref /\ r2 \in ToSet(old(y))
      BY <3>3, <2>2, <1>1, <1>12
    <3>4. ~(x = at /\ y = at)
      BY <2>2, <1>1
    <3> QED
      BY <3>1, <3>2, <3>3, <3>4, <1>6
  <2> QED
    BY <2>0, <2>1, <2>2, <1>1 DEF ListsInOrder
<1>14. ListsAreComplete(all, rs2, asg2)
  <2>1. ASSUME NEW o \in ToSet(all) PROVE \E x \in Lists(asg) : \E r \in ToSet(new(x)) : o \in Operations(r)
    <3>1. CASE o \in ToSet(ops)
      <4>1. PICK x \in Lists(asg) : \E r \in ToSet(old(x)) : o \in Operations(r)
        BY <3>1 DEF ListsAreComplete
      <4> QED
        BY <4>1, <1>6
    <3>2. CASE o \in ToSet(more)
      <4>1. o \in Operations(ref) /\ ref \in ToSet(new(at))
        BY <3>2, <1>6
      <4> QED
        BY <4>1
    <3> QED
      BY <3>1, <3>2, <1>2
  <2>2. ASSUME NEW x \in Lists(asg), NEW r \in ToSet(new(x))
        PROVE  IF x <= D THEN Operations(r) \subseteq ToSet(all)
               ELSE /\ IsRead(r) => Op(r, "r") \in ToSet(all) /\ x = D + 1
                    /\ \A o \in ToSet(all) : o.id = r.id => o.k = "r" /\ IsRead(r)
    <3>1. CASE r \in ToSet(old(x))
      <4>1. IF x <= D THEN Operations(r) \subseteq ToSet(ops)
            ELSE /\ IsRead(r) => Op(r, "r") \in ToSet(ops) /\ x = D + 1
                 /\ \A o \in ToSet(ops) : o.id = r.id => o.k = "r" /\ IsRead(r)
        BY <3>1 DEF ListsAreComplete
      <4>2. r.id # n + 1
        BY <3>1, <1>4, <1>8
      <4> QED
        BY <4>1, <4>2, <1>2, <1>7
    <3>2. CASE x = at /\ r = ref
      <4>1. CASE at = D
        BY <3>2, <4>1, <1>1, <1>2
      <4>2. CASE at = D + 1
        <5>1. \A o \in ToSet(all) : o.id = r.id => o.k = "r" /\ IsRead(r)
          <6>1. \A o \in ToSet(more) : o \in Operations(ref) /\ o.k = "r"
            BY <4>2, <1>1
          <6>2. \A o \in Operations(ref) : o.k = "r" => IsRead(ref)
            BY DEF Operations, Op
          <6> QED
            BY <6>1, <6>2, <3>2, <1>2, <1>9
        <5>2. IsRead(r) => Op(r, "r") \in ToSet(all)
          <6>1. IsRead(r) => Op(r, "r") \in Operations(ref) /\ Op(r, "r").k = "r"
            BY <3>2 DEF Operations, Op
          <6> QED
            BY <6>1, <1>2
        <5> QED
          BY <5>1, <5>2, <3>2, <4>2, <1>1
      <4> QED
        BY <4>1, <4>2
    <3> QED
      BY <3>1, <3>2, <1>6
  <2>3. Len(asg2) = D
    BY DEF Inserted
  <2> QED
    BY <2>1, <2>2, <2>3, <1>1 DEF ListsAreComplete
<1>15. RefsOf(rs2, asg2) = RefsOf(rs, asg) \cup {ref}
  BY <1>1, <1>6 DEF RefsOf
<1> QED
  BY <1>13, <1>14, <1>15

\* The writes of an assignment that ends, performed before its references move.
LEMMA WritesKeepOrder ==
  ASSUME NEW ops \in Seq(Operation), NEW rs \in Seq(Reference), NEW asg \in Seq(Assignment), asg # <<>>,
         Evaluated(ops, rs, asg)
  PROVE  LET left == asg[Len(asg)].lhs
             more == Writes(asg[Len(asg)].own)
         IN /\ more \in Seq(Operation) /\ List(rs, asg, Len(asg) + 1) = left
            /\ \A o \in ToSet(more) : \E r \in ToSet(left) : o = Op(r, "w") /\ IsWrite(r)
            /\ \A r \in ToSet(left) : IsWrite(r) => Op(r, "w") \in ToSet(more)
            /\ \A x \in Lists(asg) : x # Len(asg) + 1 =>
                 \A r \in ToSet(List(rs, asg, x)) : \A o \in ToSet(more) : o.id # r.id
            /\ ListsInOrder(ops \o more, rs, asg)
<1> DEFINE D == Len(asg)
           left == asg[D].lhs
           own == asg[D].own
           more == Writes(own)
           all == ops \o more
           old(x) == List(rs, asg, x)
<1>1. D \in Nat \ {0} /\ asg[D] \in Assignment /\ D \in DOMAIN asg /\ D + 1 \in Lists(asg) /\ Lists(asg) \subseteq Nat
  BY DEF Lists
<1>2. left \in Seq(Reference) /\ own \in Seq(Reference)
  BY <1>1 DEF Assignment
<1>3. old(D + 1) = left
  BY <1>1 DEF List
<1>4. /\ \/ own = left /\ \A r \in ToSet(left) : IsWrite(r)
         \/ own = <<>> /\ \A r \in ToSet(left) : ~IsWrite(r)
      /\ Len(left) <= 1 \/ \A r \in ToSet(left) : ~IsRead(r)
  BY <1>1 DEF Evaluated, Targets
<1>5. /\ DOMAIN own = 1..Len(own) /\ Len(own) \in Nat /\ \A i \in 1..Len(own) : own[i] \in Reference
      /\ DOMAIN left = 1..Len(left) /\ Len(left) \in Nat /\ \A i \in 1..Len(left) : left[i] \in Reference
  BY <1>2
<1>6. /\ more \in Seq(Operation) /\ DOMAIN more = 1..Len(own) /\ Len(more) = Len(own)
      /\ \A i \in 1..Len(own) : more[i] = Op(own[i], "w")
  BY <1>5 DEF Writes, Op, Reference, Operation
<1> HIDE DEF left, own, more, old
<1>7. \A o \in ToSet(more) : \E r \in ToSet(left) : o = Op(r, "w") /\ IsWrite(r)
  BY <1>4, <1>5, <1>6 DEF ToSet
<1>8. \A r \in ToSet(left) : IsWrite(r) => Op(r, "w") \in ToSet(more)
  BY <1>4, <1>5, <1>6 DEF ToSet
<1>9. /\ \A x \in Lists(asg) : Ordered(ops, old(x))
      /\ \A x, y \in Lists(asg) : x < y => Before(ops, old(x), old(y))
  BY DEF Evaluated, ListsInOrder, old
<1>10. ASSUME NEW x \in Lists(asg), x # D + 1, NEW r \in ToSet(old(x)), NEW o \in ToSet(more) PROVE o.id # r.id
  <2>1. PICK w \in ToSet(left) : o = Op(w, "w")
    BY <1>7
  <2>2. o.id = w.id
    BY <2>1 DEF Op
  <2>3. CASE x < D + 1
    <3>1. Before(ops, old(x), left)
      BY <2>3, <1>1, <1>3, <1>9
    <3> QED
      BY <3>1, <2>2 DEF Before, InOrder
  <2>4. CASE x > D + 1
    <3>1. Before(ops, left, old(x))
      BY <2>4, <1>1, <1>3, <1>9
    <3> QED
      BY <3>1, <2>2 DEF Before, InOrder
  <2> QED
    BY <1>1, <1>10, <2>3, <2>4
<1>11. all \in Seq(Operation) /\ ToSet(all) = ToSet(ops) \cup ToSet(more)
  BY <1>6, ConcatElements
<1>12. \A r \in ToSet(left) : ~IsRead(r) => \A o \in ToSet(ops) : o.id # r.id
  <2>1. ~(D + 1 <= D)
    BY <1>1
  <2> QED
    BY <1>1, <1>3, <2>1 DEF Evaluated, ListsAreComplete, old
<1>13. Ordered(all, left)
  <2> SUFFICES ASSUME NEW i \in 1..Len(left), NEW j \in 1..Len(left), i < j PROVE InOrder(all, left[i], left[j])
    BY <1>5 DEF Ordered
  <2>1. Ordered(ops, left)
    BY <1>1, <1>3, <1>9
  <2>2. \A u, w \in 1..Len(left) : u # w => left[u].id # left[w].id
    <3> SUFFICES ASSUME NEW u \in 1..Len(left), NEW w \in 1..Len(left), u # w PROVE left[u].id # left[w].id
      OBVIOUS
    <3>1. u < w \/ w < u
      BY <1>5
    <3> QED
      BY <3>1, <2>1, <1>5 DEF Ordered, InOrder
  <2>3. left[i] \in ToSet(left) /\ left[j] \in ToSet(left)
    BY <1>5 DEF ToSet
  <2>4. ~(Len(left) <= 1)
    BY <1>5
  <2>n. \A o \in ToSet(ops) : o.id # left[i].id /\ o.id # left[j].id
    BY <1>4, <1>12, <2>3, <2>4
  <2>d. left[i].id # left[j].id
    <3>1. i # j
      BY <1>5
    <3> QED
      BY <3>1, <2>2
  <2>5. CASE own = <<>>
    <3>1. ToSet(more) = {}
      BY <2>5, <1>6 DEF ToSet
    <3>2. \A o \in ToSet(all) : o.id # left[j].id
      BY <3>1, <1>11, <2>n
    <3> HIDE DEF all
    <3> QED
      BY <3>2, <2>d, <1>11, OrderOfReads
  <2>6. CASE own = left
    <3>1. /\ DOMAIN all = 1..(Len(ops) + Len(left)) /\ Len(ops) \in Nat
          /\ \A p \in 1..Len(ops) : all[p] \in ToSet(ops)
          /\ \A p \in 1..(Len(ops) + Len(left)) : p > Len(ops) => p - Len(ops) \in 1..Len(left) /\ all[p] = more[p - Len(ops)]
      <4>1. Len(more) = Len(left)
        BY <2>6, <1>6
      <4>2. /\ DOMAIN all = 1..(Len(ops) + Len(more)) /\ Len(ops) \in Nat /\ DOMAIN ops = 1..Len(ops)
            /\ \A p \in 1..Len(ops) : all[p] = ops[p]
            /\ \A p \in 1..(Len(ops) + Len(more)) : p > Len(ops) => p - Len(ops) \in 1..Len(more) /\ all[p] = more[p - Len(ops)]
        <5>1. more \in Seq(Operation)
          BY <1>6
        <5> QED
          BY <5>1
      <4>3. \A p \in 1..Len(ops) : ops[p] \in ToSet(ops)
        BY <4>2 DEF ToSet
      <4> HIDE DEF all
      <4> QED
        BY <4>1, <4>2, <4>3
    <3>2. ASSUME NEW p \in DOMAIN all, NEW k \in {i, j}, all[p].id = left[k].id PROVE p = Len(ops) + k
      <4>1. p > Len(ops)
        BY <3>1, <3>2, <2>n
      <4>2. p - Len(ops) \in 1..Len(left) /\ all[p].id = left[p - Len(ops)].id
        BY <4>1, <3>1, <2>6, <1>6 DEF Op
      <4>3. p - Len(ops) = k
        BY <4>2, <3>2, <2>2
      <4>4. p \in Int /\ Len(ops) \in Int
        BY <3>1
      <4> QED
        BY <4>3, <4>4
    <3>3. \A p, q \in DOMAIN all : all[p].id = left[i].id /\ all[q].id = left[j].id => p < q
      <4> SUFFICES ASSUME NEW p \in DOMAIN all, NEW q \in DOMAIN all, all[p].id = left[i].id, all[q].id = left[j].id
                   PROVE  p < q
        OBVIOUS
      <4>1. p = Len(ops) + i /\ q = Len(ops) + j
        BY <3>2
      <4> QED
        BY <4>1, <3>1, <1>5
    <3> QED
      BY <3>3, <2>d DEF InOrder
  <2> QED
    BY <2>5, <2>6, <1>4
<1>14. \A x \in Lists(asg) : Ordered(all, old(x))
  <2> SUFFICES ASSUME NEW x \in Lists(asg), x # D + 1 PROVE Ordered(all, old(x))
    BY <1>3, <1>13
  <2>1. Ordered(ops, old(x))
    BY <1>9
  <2> SUFFICES ASSUME NEW i \in DOMAIN old(x), NEW j \in DOMAIN old(x), i < j PROVE InOrder(all, old(x)[i], old(x)[j])
    BY DEF Ordered
  <2>2. \A o \in ToSet(more) : o.id # old(x)[i].id
    BY <1>10 DEF ToSet
  <2>3. InOrder(ops, old(x)[i], old(x)[j])
    BY <2>1 DEF Ordered
  <2> QED
    BY <2>2, <2>3, <1>6, OrderExtends
<1>15. \A x, y \in Lists(asg) : x < y => Before(all, old(x), old(y))
  <2> SUFFICES ASSUME NEW x \in Lists(asg), NEW y \in Lists(asg), x < y,
                      NEW r1 \in ToSet(old(x)), NEW r2 \in ToSet(old(y))
               PROVE  InOrder(all, r1, r2)
    BY DEF Before
  <2>1. InOrder(ops, r1, r2)
    BY <1>9 DEF Before
  <2>2. CASE x # D + 1
    <3>1. \A o \in ToSet(more) : o.id # r1.id
      BY <2>2, <1>10
    <3> QED
      BY <2>1, <3>1, <1>6, OrderExtends
  <2>3. CASE x = D + 1
    <3>0. y # D + 1 /\ ~(y <= D)
      BY <2>3, <1>1
    <3>1. \A o \in ToSet(ops) : o.id # r2.id
      BY <3>0 DEF Evaluated, ListsAreComplete, old
    <3>2. \A o \in ToSet(all) : o.id # r2.id
      BY <3>0, <3>1, <1>10, <1>11
    <3> QED
      BY <3>2, <2>1, <1>11, OrderOfReads DEF InOrder
  <2> QED
    BY <2>2, <2>3
<1>16. ReadsBeforeItWrites(all)
  <2>1. \A o \in ToSet(more) : o.k = "w"
    BY <1>7 DEF Op
  <2>2. ReadsBeforeItWrites(more)
    BY <2>1 DEF ReadsBeforeItWrites, ToSet
  <2>3. ReadsBeforeItWrites(ops)
    BY DEF Evaluated, ListsInOrder
  <2> QED
    BY <2>1, <2>2, <2>3, <1>6, ReadsStayBeforeWrites
<1>17. ListsInOrder(all, rs, asg)
  BY <1>14, <1>15, <1>16 DEF ListsInOrder, old
<1> QED
  BY <1>3, <1>6, <1>7, <1>8, <1>10, <1>17 DEF left, own, more, old

\* popAssignmentContext: the lists of the assignment that ends, and the one
\* before them, become one.
Merged(rs, asg, rs2, asg2) ==
  /\ Len(asg2) = Len(asg) - 1
  /\ \A x \in 0..(2 * Len(asg) - 2) : List(rs2, asg2, x) =
       IF x < Len(asg) - 1 THEN List(rs, asg, x)
       ELSE IF x = Len(asg) - 1
            THEN List(rs, asg, x) \o (List(rs, asg, Len(asg)) \o List(rs, asg, Len(asg) + 1))
            ELSE List(rs, asg, x + 2)

LEMMA MergeKeeps ==
  ASSUME NEW ops \in Seq(Operation), NEW rs \in Seq(Reference), NEW rs2, NEW asg \in Seq(Assignment), NEW asg2,
         asg # <<>>, Evaluated(ops, rs, asg), Merged(rs, asg, rs2, asg2)
  PROVE  LET all == ops \o Writes(asg[Len(asg)].own)
         IN ListsInOrder(all, rs2, asg2) /\ ListsAreComplete(all, rs2, asg2) /\ RefsOf(rs2, asg2) = RefsOf(rs, asg)
<1> DEFINE D == Len(asg)
           left == asg[D].lhs
           more == Writes(asg[D].own)
           all == ops \o more
           old(x) == List(rs, asg, x)
           new(x) == List(rs2, asg2, x)
           from(x) == IF x < D - 1 THEN {x} ELSE IF x = D - 1 THEN {D - 1, D, D + 1} ELSE {x + 2}
<1>1. D \in Nat \ {0} /\ Lists(asg) = 0..(2 * D) /\ Lists(asg2) = 0..(2 * D - 2)
  <2>1. D \in Nat \ {0} /\ Len(asg2) = D - 1
    BY DEF Merged
  <2> QED
    BY <2>1 DEF Lists
<1>2. /\ more \in Seq(Operation) /\ old(D + 1) = left
      /\ \A o \in ToSet(more) : \E r \in ToSet(left) : o = Op(r, "w") /\ IsWrite(r)
      /\ \A r \in ToSet(left) : IsWrite(r) => Op(r, "w") \in ToSet(more)
      /\ \A x \in Lists(asg) : x # D + 1 => \A r \in ToSet(old(x)) : \A o \in ToSet(more) : o.id # r.id
      /\ ListsInOrder(all, rs, asg)
  BY WritesKeepOrder
<1>3. \A x \in Lists(asg) : old(x) \in Seq(Reference)
  BY ListTypes
<1>4. all \in Seq(Operation) /\ ToSet(all) = ToSet(ops) \cup ToSet(more)
  BY <1>2, ConcatElements
<1>5. /\ D - 1 \in Lists(asg) /\ D \in Lists(asg) /\ D + 1 \in Lists(asg)
      /\ new(D - 1) = old(D - 1) \o (old(D) \o old(D + 1))
      /\ \A x \in Lists(asg2) : x < D - 1 => new(x) = old(x) /\ x \in Lists(asg)
      /\ \A x \in Lists(asg2) : x > D - 1 => new(x) = old(x + 2) /\ x + 2 \in Lists(asg) /\ x + 2 > D + 1
  <2>1. /\ D - 1 \in Lists(asg) /\ D \in Lists(asg) /\ D + 1 \in Lists(asg) /\ D - 1 \in Lists(asg2)
        /\ ~(D - 1 < D - 1)
    BY <1>1
  <2>2. \A x \in Lists(asg2) : /\ x < D - 1 => x \in Lists(asg)
                               /\ x > D - 1 => x + 2 \in Lists(asg) /\ x + 2 > D + 1 /\ ~(x < D - 1) /\ x # D - 1
    BY <1>1
  <2>3. \A x \in Lists(asg2) : new(x) = IF x < D - 1 THEN old(x)
                                        ELSE IF x = D - 1 THEN old(x) \o (old(D) \o old(D + 1)) ELSE old(x + 2)
    BY <1>1 DEF Merged
  <2> HIDE DEF new, old
  <2>4. new(D - 1) = old(D - 1) \o (old(D) \o old(D + 1))
    BY <2>1, <2>3
  <2> QED
    BY <2>1, <2>2, <2>3, <2>4
<1> HIDE DEF more, all, old, new, left
<1>6. /\ old(D) \o old(D + 1) \in Seq(Reference) /\ ToSet(old(D) \o old(D + 1)) = ToSet(old(D)) \cup ToSet(old(D + 1))
      /\ ToSet(new(D - 1)) = ToSet(old(D - 1)) \cup ToSet(old(D)) \cup ToSet(old(D + 1))
  <2> DEFINE a == old(D - 1)
             b == old(D)
             c == old(D + 1)
  <2>1. a \in Seq(Reference) /\ b \in Seq(Reference) /\ c \in Seq(Reference)
    BY <1>3, <1>5
  <2> HIDE DEF a, b, c
  <2>2. b \o c \in Seq(Reference) /\ ToSet(b \o c) = ToSet(b) \cup ToSet(c)
    BY <2>1, ConcatElements
  <2>3. ToSet(a \o (b \o c)) = ToSet(a) \cup ToSet(b \o c)
    <3> DEFINE d == b \o c
    <3>1. d \in Seq(Reference)
      BY <2>2
    <3> HIDE DEF d
    <3>2. ToSet(a \o d) = ToSet(a) \cup ToSet(d)
      BY <2>1, <3>1, ConcatElements
    <3> QED
      BY <3>2 DEF d
  <2> QED
    BY <2>2, <2>3, <1>5 DEF a, b, c
<1>7. \A x \in Lists(asg2) : \A r \in ToSet(new(x)) : \E u \in from(x) : u \in Lists(asg) /\ r \in ToSet(old(u))
  <2> SUFFICES ASSUME NEW x \in Lists(asg2), NEW r \in ToSet(new(x))
               PROVE  \E u \in from(x) : u \in Lists(asg) /\ r \in ToSet(old(u))
    OBVIOUS
  <2>1. CASE x < D - 1
    BY <2>1, <1>5
  <2>2. CASE x = D - 1
    BY <2>2, <1>5, <1>6
  <2>3. CASE x > D - 1
    BY <2>3, <1>1, <1>5
  <2>4. x < D - 1 \/ x = D - 1 \/ x > D - 1
    BY <1>1
  <2> HIDE DEF from
  <2> QED
    BY <2>1, <2>2, <2>3, <2>4
<1>8. \A u \in Lists(asg) : \E x \in Lists(asg2) : ToSet(old(u)) \subseteq ToSet(new(x))
  <2> SUFFICES ASSUME NEW u \in Lists(asg) PROVE \E x \in Lists(asg2) : ToSet(old(u)) \subseteq ToSet(new(x))
    OBVIOUS
  <2>0. D - 1 \in Lists(asg2)
    BY <1>1
  <2>1. CASE u < D - 1
    <3>1. u \in Lists(asg2)
      BY <2>1, <1>1
    <3> QED
      BY <2>1, <3>1, <1>5
  <2>2. CASE u \in {D - 1, D, D + 1}
    BY <2>0, <2>2, <1>6
  <2>3. CASE u > D + 1
    <3>1. u - 2 \in Lists(asg2) /\ u - 2 > D - 1 /\ (u - 2) + 2 = u
      BY <2>3, <1>1
    <3>2. new(u - 2) = old(u)
      BY <3>1, <1>5
    <3> QED
      BY <3>1, <3>2
  <2> QED
    BY <1>1, <2>1, <2>2, <2>3
<1>9. \A x, y \in Lists(asg2) : x < y => \A u \in from(x), w \in from(y) : u < w
  BY <1>1
<1>10. ListsInOrder(all, rs2, asg2)
  <2>0. /\ ReadsBeforeItWrites(all)
        /\ \A x \in Lists(asg) : Ordered(all, old(x))
        /\ \A x, y \in Lists(asg) : x < y => Before(all, old(x), old(y))
    BY <1>2 DEF ListsInOrder, old
  <2>1. ASSUME NEW x \in Lists(asg2) PROVE Ordered(all, new(x))
    <3>1. CASE x # D - 1
      <4>1. x < D - 1 \/ x > D - 1
        BY <3>1, <1>1
      <4> QED
        BY <4>1, <1>5, <2>0
    <3>2. CASE x = D - 1
      <4> DEFINE a == old(D - 1)
                 b == old(D)
                 c == old(D + 1)
      <4>1. a \in Seq(Reference) /\ b \in Seq(Reference) /\ c \in Seq(Reference)
        BY <1>3, <1>5
      <4>2. Ordered(all, a) /\ Ordered(all, b) /\ Ordered(all, c)
        BY <1>5, <2>0
      <4>3. Before(all, b, c) /\ Before(all, a, b) /\ Before(all, a, c)
        <5>1. D - 1 < D /\ D < D + 1 /\ D - 1 < D + 1
          BY <1>1
        <5> QED
          BY <5>1, <1>5, <2>0
      <4>4. b \o c \in Seq(Reference) /\ Before(all, a, b \o c)
        BY <4>3, <1>6 DEF Before
      <4>5. new(x) = a \o (b \o c)
        BY <3>2, <1>5
      <4> HIDE DEF a, b, c
      <4>6. Ordered(all, b \o c)
        BY <4>1, <4>2, <4>3, OrderedConcat
      <4>7. Ordered(all, a \o (b \o c))
        BY <4>1, <4>2, <4>4, <4>6, OrderedConcat
      <4> QED
        BY <4>5, <4>7
    <3> QED
      BY <3>1, <3>2
  <2>2. ASSUME NEW x \in Lists(asg2), NEW y \in Lists(asg2), x < y PROVE Before(all, new(x), new(y))
    <3> SUFFICES ASSUME NEW r1 \in ToSet(new(x)), NEW r2 \in ToSet(new(y)) PROVE InOrder(all, r1, r2)
      BY DEF Before
    <3>1. PICK u \in from(x) : u \in Lists(asg) /\ r1 \in ToSet(old(u))
      BY <1>7
    <3>2. PICK w \in from(y) : w \in Lists(asg) /\ r2 \in ToSet(old(w))
      BY <1>7
    <3>3. u < w
      BY <2>2, <1>9
    <3> QED
      BY <3>1, <3>2, <3>3, <2>0 DEF Before
  <2> QED
    BY <2>0, <2>1, <2>2 DEF ListsInOrder, new
<1>11. ListsAreComplete(all, rs2, asg2)
  <2>1. ASSUME NEW o \in ToSet(all) PROVE \E x \in Lists(asg2) : \E r \in ToSet(new(x)) : o \in Operations(r)
    <3>1. \E u \in Lists(asg) : \E r \in ToSet(old(u)) : o \in Operations(r)
      <4>1. CASE o \in ToSet(ops)
        BY <4>1 DEF Evaluated, ListsAreComplete, old
      <4>2. CASE o \in ToSet(more)
        <5>1. PICK r \in ToSet(left) : o = Op(r, "w") /\ IsWrite(r)
          BY <4>2, <1>2
        <5>2. o \in Operations(r)
          BY <5>1 DEF Operations
        <5> QED
          BY <5>2, <1>2, <1>5
      <4> QED
        BY <4>1, <4>2, <1>4
    <3> QED
      BY <3>1, <1>8
  <2>2. ASSUME NEW x \in Lists(asg2), NEW r \in ToSet(new(x))
        PROVE  IF x <= D - 1 THEN Operations(r) \subseteq ToSet(all)
               ELSE /\ IsRead(r) => Op(r, "r") \in ToSet(all) /\ x = D
                    /\ \A o \in ToSet(all) : o.id = r.id => o.k = "r" /\ IsRead(r)
    <3>1. PICK u \in from(x) : u \in Lists(asg) /\ r \in ToSet(old(u))
      BY <1>7
    <3>2. IF u <= D THEN Operations(r) \subseteq ToSet(ops)
          ELSE /\ IsRead(r) => Op(r, "r") \in ToSet(ops) /\ u = D + 1
               /\ \A o \in ToSet(ops) : o.id = r.id => o.k = "r" /\ IsRead(r)
      BY <3>1 DEF Evaluated, ListsAreComplete, old
    <3>3. CASE x <= D - 1
      <4>1. CASE u <= D
        BY <3>2, <3>3, <4>1, <1>4
      <4>2. CASE ~(u <= D)
        <5>1. u = D + 1 /\ r \in ToSet(left)
          BY <3>1, <3>3, <4>2, <1>1, <1>2
        <5>2. IsRead(r) => Op(r, "r") \in ToSet(all)
          BY <3>2, <4>2, <1>4
        <5>3. IsWrite(r) => Op(r, "w") \in ToSet(all)
          BY <5>1, <1>2, <1>4
        <5> QED
          BY <3>3, <5>2, <5>3 DEF Operations
      <4> QED
        BY <4>1, <4>2
    <3>4. CASE ~(x <= D - 1)
      <4>1. u > D + 1 /\ ~(u <= D) /\ u # D + 1
        BY <3>1, <3>4, <1>1
      <4>2. ~IsRead(r) /\ \A o \in ToSet(ops) : o.id # r.id
        BY <3>2, <4>1
      <4>3. \A o \in ToSet(more) : o.id # r.id
        BY <3>1, <4>1, <1>2
      <4> QED
        BY <3>4, <4>2, <4>3, <1>4
    <3> QED
      BY <3>3, <3>4
  <2>3. Len(asg2) = D - 1 /\ D - 1 + 1 = D
    BY <1>1 DEF Merged
  <2> QED
    BY <2>1, <2>2, <2>3 DEF ListsAreComplete, new
<1>12. RefsOf(rs2, asg2) = RefsOf(rs, asg)
  <2>1. ASSUME NEW r \in RefsOf(rs2, asg2) PROVE r \in RefsOf(rs, asg)
    <3>1. PICK x \in Lists(asg2) : r \in ToSet(new(x))
      BY <2>1 DEF RefsOf, new
    <3> QED
      BY <3>1, <1>7 DEF RefsOf, old
  <2>2. ASSUME NEW r \in RefsOf(rs, asg) PROVE r \in RefsOf(rs2, asg2)
    <3>1. PICK u \in Lists(asg) : r \in ToSet(old(u))
      BY <2>2 DEF RefsOf, old
    <3> QED
      BY <3>1, <1>8 DEF RefsOf, new
  <2> QED
    BY <2>1, <2>2
<1> QED
  BY <1>10, <1>11, <1>12 DEF all, more

-----------------------------------------------------------------------------
(* The steps of the walk *)

LEMMA FrontIndex ==
  ASSUME NEW S, NEW q \in Seq(S), q # <<>>
  PROVE  /\ Len(q) \in Nat \ {0} /\ DOMAIN q = 1..Len(q) /\ Last(q) = q[Len(q)] /\ Last(q) \in S
         /\ Front(q) \in Seq(S) /\ Len(Front(q)) = Len(q) - 1 /\ DOMAIN Front(q) = 1..(Len(q) - 1)
         /\ \A i \in 1..(Len(q) - 1) : Front(q)[i] = q[i]
<1>1. Len(q) \in Nat \ {0} /\ DOMAIN q = 1..Len(q) /\ q \in [1..Len(q) -> S]
  OBVIOUS
<1>2. Front(q) \in Seq(S) /\ Len(Front(q)) = Len(q) - 1 /\ \A i \in 1..(Len(q) - 1) : Front(q)[i] = q[i]
  BY <1>1 DEF Front
<1> QED
  BY <1>1, <1>2 DEF Last

LEMMA AppendFacts ==
  ASSUME NEW S, NEW q \in Seq(S), NEW e \in S
  PROVE  /\ Len(q) \in Nat /\ DOMAIN q = 1..Len(q)
         /\ Append(q, e) \in Seq(S) /\ Len(Append(q, e)) = Len(q) + 1 /\ DOMAIN Append(q, e) = 1..(Len(q) + 1)
         /\ Append(q, e)[Len(q) + 1] = e /\ \A i \in 1..Len(q) : Append(q, e)[i] = q[i]
OBVIOUS

\* The last element of a sequence is replaced.
LEMMA ReplaceLast ==
  ASSUME NEW S, NEW q \in Seq(S), q # <<>>, NEW e \in S
  PROVE  LET b == Append(Front(q), e)
         IN /\ b \in Seq(S) /\ b # <<>> /\ Len(b) = Len(q) /\ DOMAIN b = DOMAIN q
            /\ Last(b) = e /\ b[Len(q)] = e /\ \A i \in 1..(Len(q) - 1) : b[i] = q[i]
<1> DEFINE f == Front(q)
<1>1. /\ Len(q) \in Nat \ {0} /\ DOMAIN q = 1..Len(q)
      /\ f \in Seq(S) /\ Len(f) = Len(q) - 1 /\ \A i \in 1..(Len(q) - 1) : f[i] = q[i]
  BY FrontIndex
<1> HIDE DEF f
<1>2. /\ Append(f, e) \in Seq(S) /\ Len(Append(f, e)) = Len(q) /\ DOMAIN Append(f, e) = 1..Len(q)
      /\ Append(f, e)[Len(q)] = e /\ \A i \in 1..(Len(q) - 1) : Append(f, e)[i] = q[i]
  <2>1. /\ Append(f, e) \in Seq(S) /\ Len(Append(f, e)) = Len(f) + 1 /\ DOMAIN Append(f, e) = 1..(Len(f) + 1)
        /\ Append(f, e)[Len(f) + 1] = e /\ \A i \in 1..Len(f) : Append(f, e)[i] = f[i]
    <3>1. f \in Seq(S)
      BY <1>1
    <3> QED
      BY <3>1, AppendFacts
  <2>2. Len(f) + 1 = Len(q)
    BY <1>1
  <2> QED
    BY <1>1, <2>1, <2>2
<1>3. Append(f, e) # <<>>
  BY <1>1, <1>2
<1> QED
  BY <1>1, <1>2, <1>3 DEF Last, f

LEMMA AddFacts ==
  ASSUME NEW asg \in Seq(Assignment), asg # <<>>, NEW rs \in Seq(Reference)
  PROVE  LET b == AddToAssignment(asg, rs)
         IN /\ b \in Seq(Assignment) /\ b # <<>> /\ Len(b) = Len(asg) /\ \A i \in 1..(Len(asg) - 1) : b[i] = asg[i]
            /\ b[Len(asg)] = IF asg[Len(asg)].side = "lhs" THEN [asg[Len(asg)] EXCEPT !.lhs = @ \o rs]
                                                           ELSE [asg[Len(asg)] EXCEPT !.rhs = @ \o rs]
<1> DEFINE a == asg[Len(asg)]
           e == IF a.side = "lhs" THEN [a EXCEPT !.lhs = @ \o rs] ELSE [a EXCEPT !.rhs = @ \o rs]
<1>1. Last(asg) = a /\ a \in Assignment
  BY FrontIndex
<1>2. e \in Assignment
  <2>1. a.lhs \in Seq(Reference) /\ a.rhs \in Seq(Reference)
    BY <1>1 DEF Assignment
  <2>2. a.lhs \o rs \in Seq(Reference) /\ a.rhs \o rs \in Seq(Reference)
    BY <2>1
  <2> QED
    BY <1>1, <2>2 DEF Assignment
<1>3. AddToAssignment(asg, rs) = Append(Front(asg), e)
  BY <1>1 DEF AddToAssignment
<1> HIDE DEF e
<1>4. LET b == Append(Front(asg), e)
      IN /\ b \in Seq(Assignment) /\ b # <<>> /\ Len(b) = Len(asg) /\ b[Len(asg)] = e
         /\ \A i \in 1..(Len(asg) - 1) : b[i] = asg[i]
  BY <1>2, ReplaceLast
<1> QED
  BY <1>3, <1>4 DEF e

LEMMA StackFacts ==
  ASSUME codePathStack \in Seq(Context), codePathStack # <<>>, NEW ctx \in Context, SetTop(ctx)
  PROVE  /\ codePathStack' \in Seq(Context) /\ codePathStack' # <<>> /\ Len(codePathStack') = Len(codePathStack)
         /\ DOMAIN codePathStack' = DOMAIN codePathStack /\ Last(codePathStack') = ctx
         /\ codePathStack'[Len(codePathStack)] = ctx
         /\ \A i \in 1..(Len(codePathStack) - 1) : codePathStack'[i] = codePathStack[i]
<1>1. codePathStack' = Append(Front(codePathStack), ctx)
  BY DEF SetTop
<1>2. LET b == Append(Front(codePathStack), ctx)
      IN /\ b \in Seq(Context) /\ b # <<>> /\ Len(b) = Len(codePathStack) /\ DOMAIN b = DOMAIN codePathStack
         /\ Last(b) = ctx /\ b[Len(codePathStack)] = ctx
         /\ \A i \in 1..(Len(codePathStack) - 1) : b[i] = codePathStack[i]
  BY ReplaceLast
<1> QED
  BY <1>1, <1>2

LEMMA TopFacts ==
  ASSUME WalkInvariant
  PROVE  /\ Len(codePathStack) \in Nat \ {0} /\ DOMAIN codePathStack = 1..Len(codePathStack)
         /\ top = codePathStack[Len(codePathStack)] /\ top \in Context /\ top.id = Len(codePathStack)
         /\ Assignments \in Seq(Assignment) /\ Assignments = top.asg
         /\ top.cur \subseteq Segs /\ top.cur # {}
         /\ \A s \in top.cur : s \in Segs /\ cfg.path[s] = Len(codePathStack) /\ Open(s) = top.asg
         /\ \A b \in ToSet(top.ctl) : b.depth = 0
<1>1. codePathStack \in Seq(Context) /\ codePathStack # <<>>
  BY DEF WalkInvariant, WalkType
<1>2. /\ Len(codePathStack) \in Nat \ {0} /\ DOMAIN codePathStack = 1..Len(codePathStack)
      /\ top = codePathStack[Len(codePathStack)] /\ top \in Context
  BY <1>1, FrontIndex DEF top
<1>3. Len(codePathStack) \in DOMAIN codePathStack
  BY <1>2
<1>4. /\ top.id = Len(codePathStack) /\ \A b \in ToSet(top.ctl) : b.depth = 0
      /\ top.cur # {}
      /\ \A s \in top.cur : s \in Segs /\ cfg.path[s] = Len(codePathStack)
  BY <1>2, <1>3 DEF WalkInvariant, Contexts
<1>5. \A s \in top.cur : Open(s) = top.asg
  BY <1>2, <1>3, <1>4 DEF Open
<1> QED
  BY <1>2, <1>4, <1>5 DEF Assignments, Context

\* A step that leaves the segments alone and changes only what the innermost
\* code path keeps.
LEMMA TopStep ==
  ASSUME WalkInvariant, NEW asg \in Seq(Assignment), SetTop([top EXCEPT !.asg = asg]),
         cfg' = cfg, phase = "walk", phase' = "walk", nref' \in Nat, nref <= nref',
         refs' \in [Segs -> Seq(Reference)], trace' \in [Segs -> Seq(Operation)],
         \A s \in Segs \ top.cur : refs'[s] = refs[s] /\ trace'[s] = trace[s],
         \A s \in top.cur : Evaluated(trace'[s], refs'[s], asg) /\ \A r \in RefsOf(refs'[s], asg) : r.id <= nref',
         destructuringStack' # <<>> => asg # <<>> /\ Last(asg).side = "lhs" /\ \A r \in ToSet(Last(asg).lhs) : ~IsRead(r)
  PROVE  WalkInvariant' /\ \A s \in Segs : Open(s)' = IF s \in top.cur THEN asg ELSE Open(s)
<1> DEFINE n == Len(codePathStack)
           ctx == [top EXCEPT !.asg = asg]
<1>1. Segs' = Segs
  BY DEF Segs
<1>2. /\ n \in Nat \ {0} /\ DOMAIN codePathStack = 1..n /\ codePathStack[n] = top /\ top.id = n
      /\ \A s \in top.cur : s \in Segs /\ cfg.path[s] = n /\ Open(s) = top.asg
  BY TopFacts
<1>3. codePathStack \in Seq(Context) /\ codePathStack # <<>>
  BY DEF WalkInvariant, WalkType
<1>c. ctx \in Context /\ ctx.id = top.id /\ ctx.cur = top.cur /\ ctx.ctl = top.ctl /\ ctx.asg = asg
  <2>1. top \in Context
    BY TopFacts
  <2> QED
    BY <2>1 DEF Context
<1>s. SetTop(ctx)
  OBVIOUS
<1> HIDE DEF ctx
<1>4. /\ codePathStack' \in Seq(Context) /\ codePathStack' # <<>> /\ Len(codePathStack') = n
      /\ DOMAIN codePathStack' = 1..n /\ Last(codePathStack') = ctx /\ codePathStack'[n] = ctx
      /\ \A i \in 1..(n - 1) : codePathStack'[i] = codePathStack[i]
  BY <1>2, <1>3, <1>c, <1>s, StackFacts
<1>5. top' = ctx
  BY <1>4 DEF top
<1>6. ASSUME NEW i \in 1..n
      PROVE  /\ codePathStack'[i].id = codePathStack[i].id /\ codePathStack'[i].cur = codePathStack[i].cur
             /\ codePathStack'[i].ctl = codePathStack[i].ctl
             /\ codePathStack'[i].asg = IF i = n THEN asg ELSE codePathStack[i].asg
  <2>1. CASE i = n
    <3>1. codePathStack'[i] = ctx /\ codePathStack[i] = top
      BY <1>2, <1>4, <2>1
    <3> QED
      BY <1>c, <2>1, <3>1
  <2>2. CASE i # n
    <3>1. i \in 1..(n - 1)
      BY <1>2, <2>2
    <3> QED
      BY <1>4, <2>2, <3>1
  <2> QED
    BY <2>1, <2>2
<1>7. ASSUME NEW s \in Segs PROVE Open(s)' = IF s \in top.cur THEN asg ELSE Open(s)
  <2>1. CASE s \in top.cur
    <3>1. cfg.path[s] = n /\ n \in 1..n /\ s \in codePathStack'[n].cur
      BY <1>2, <1>4, <1>c, <2>1
    <3> QED
      BY <1>4, <1>c, <2>1, <3>1 DEF Open
  <2>2. CASE s \notin top.cur
    <3>1. CASE cfg.path[s] \in 1..n
      <4>1. cfg.path[s] # n \/ s \notin codePathStack[cfg.path[s]].cur
        BY <1>2, <2>2
      <4> QED
        BY <1>2, <1>4, <1>6, <2>2, <3>1, <4>1 DEF Open
    <3>2. CASE cfg.path[s] \notin 1..n
      BY <1>2, <1>4, <2>2, <3>2 DEF Open
    <3> QED
      BY <3>1, <3>2
  <2> QED
    BY <2>1, <2>2
<1>8. WalkType'
  BY <1>1, <1>4 DEF WalkType, WalkInvariant
<1>9. Contexts'
  <2>1. \A i \in 1..n : /\ codePathStack[i].id = i /\ codePathStack[i].cur # {}
                        /\ \A s \in codePathStack[i].cur : s \in Segs /\ cfg.path[s] = i
                        /\ \A b \in ToSet(codePathStack[i].ctl) : b.depth = 0
    BY <1>2 DEF WalkInvariant, Contexts
  <2> QED
    BY <1>1, <1>4, <1>5, <1>6, <1>c, <2>1 DEF Contexts, IsRead
<1>10. ASSUME NEW s \in Segs
       PROVE  /\ Evaluated(trace'[s], refs'[s], Open(s)')
              /\ \A r \in RefsOf(refs'[s], Open(s)') : r.id <= nref'
  <2>1. CASE s \in top.cur
    BY <1>7, <2>1
  <2>2. CASE s \notin top.cur
    <3>1. refs'[s] = refs[s] /\ trace'[s] = trace[s] /\ Open(s)' = Open(s)
      BY <1>7, <2>2
    <3>2. Evaluated(trace[s], refs[s], Open(s)) /\ \A r \in RefsOf(refs[s], Open(s)) : r.id <= nref
      BY DEF WalkInvariant, RefsAt
    <3>3. RefsOf(refs[s], Open(s)) \subseteq Reference
      <4>1. refs[s] \in Seq(Reference) /\ Open(s) \in Seq(Assignment)
        <5>1. refs[s] \in Seq(Reference)
          BY DEF WalkInvariant, WalkType
        <5>2. \A i \in DOMAIN codePathStack : codePathStack[i].asg \in Seq(Assignment)
          <6>1. \A i \in DOMAIN codePathStack : codePathStack[i] \in Context
            BY <1>3
          <6> QED
            BY <6>1 DEF Context
        <5> QED
          BY <5>1, <5>2 DEF Open
      <4> QED
        BY <4>1, RefsAreReferences
    <3>4. \A r \in Reference : r.id \in Nat
      BY DEF Reference
    <3>5. nref \in Nat
      BY DEF WalkInvariant, WalkType
    <3> QED
      BY <3>1, <3>2, <3>3, <3>4, <3>5
  <2> QED
    BY <2>1, <2>2
<1>11. \A s \in Segs : Evaluated(trace[s], refs[s], Open(s))' /\ \A r \in RefsAt(s)' : r.id <= nref'
  BY <1>10 DEF RefsAt, Evaluated, ListsInOrder, ListsAreComplete, Targets, RefsOf, ReadsBeforeItWrites, Ordered, Before, InOrder,
     List, Lists, Operations, Op, IsRead, IsWrite
<1> QED
  BY <1>1, <1>7, <1>8, <1>9, <1>11 DEF WalkInvariant

\* What the invariant says of a current segment.
LEMMA CurrentFacts ==
  ASSUME WalkInvariant, NEW s \in top.cur
  PROVE  /\ s \in Segs /\ trace[s] \in Seq(Operation) /\ refs[s] \in Seq(Reference)
         /\ Evaluated(trace[s], refs[s], top.asg) /\ \A r \in RefsOf(refs[s], top.asg) : r.id <= nref
         /\ RefsAt(s) = RefsOf(refs[s], top.asg)
<1>1. s \in Segs /\ Open(s) = top.asg
  BY TopFacts
<1> QED
  BY <1>1 DEF WalkInvariant, WalkType, RefsAt

LEMMA PushStep ==
  ASSUME WalkInvariant, "nested" \notin Features, PushAssignmentContext
  PROVE  WalkInvariant' /\ \A s \in Segs : RefsAt(s)' = RefsAt(s)
<1> DEFINE asg == Append(top.asg, NewAssignment)
<1>1. /\ phase = "walk" /\ phase' = "walk" /\ destructuringStack' = <<>> /\ cfg' = cfg /\ nref' = nref
      /\ refs' = refs /\ trace' = trace /\ SetTop([top EXCEPT !.asg = asg])
      /\ top.asg # <<>> => Last(top.asg).side = "rhs"
      /\ \A i \in DOMAIN top.asg : \A r \in ToSet(top.asg[i].lhs) : ~IsRead(r)
  BY DEF PushAssignmentContext, MayWriteInside, Assignments
<1>2. top.asg \in Seq(Assignment) /\ top.cur \subseteq Segs
  BY TopFacts
<1>3. asg \in Seq(Assignment)
  <2>1. NewAssignment \in Assignment
    BY DEF NewAssignment, Assignment
  <2> QED
    BY <1>2, <2>1
<1>4. nref \in Nat /\ refs \in [Segs -> Seq(Reference)] /\ trace \in [Segs -> Seq(Operation)]
  BY DEF WalkInvariant, WalkType
<1>5. ASSUME NEW s \in top.cur
      PROVE  Evaluated(trace[s], refs[s], asg) /\ RefsOf(refs[s], asg) = RefsOf(refs[s], top.asg)
             /\ \A r \in RefsOf(refs[s], asg) : r.id <= nref
  <2>1. Evaluated(trace[s], refs[s], top.asg) /\ \A r \in RefsOf(refs[s], top.asg) : r.id <= nref
    BY CurrentFacts
  <2>2. Evaluated(trace[s], refs[s], asg) /\ RefsOf(refs[s], asg) = RefsOf(refs[s], top.asg)
    BY <2>1, <1>1, <1>2, PushKeeps
  <2> QED
    BY <2>1, <2>2
<1> HIDE DEF asg
<1>6. WalkInvariant' /\ \A s \in Segs : Open(s)' = IF s \in top.cur THEN asg ELSE Open(s)
  <2>1. nref' \in Nat /\ nref <= nref'
    BY <1>1, <1>4
  <2> QED
    BY <1>1, <1>3, <1>4, <1>5, <2>1, TopStep
<1>7. ASSUME NEW s \in Segs PROVE RefsAt(s)' = RefsAt(s)
  <2>1. RefsAt(s)' = RefsOf(refs[s], Open(s)')
    BY <1>1 DEF RefsAt, RefsOf, List, Lists
  <2>2. CASE s \in top.cur
    <3>1. RefsAt(s) = RefsOf(refs[s], top.asg)
      BY <2>2, CurrentFacts
    <3> QED
      BY <2>1, <2>2, <3>1, <1>5, <1>6
  <2>3. CASE s \notin top.cur
    BY <2>1, <2>3, <1>6 DEF RefsAt
  <2> QED
    BY <2>2, <2>3
<1> QED
  BY <1>6, <1>7

LEMMA EnterStep ==
  ASSUME WalkInvariant, EnterRightSide
  PROVE  WalkInvariant' /\ \A s \in Segs : RefsAt(s)' = RefsAt(s)
<1> DEFINE old == top.asg
           D == Len(old)
           asg == [old EXCEPT ![D].side = "rhs"]
<1>2. old \in Seq(Assignment) /\ top.cur \subseteq Segs /\ Assignments = old /\ top \in Context
  BY TopFacts
<1>1. /\ phase = "walk" /\ phase' = "walk" /\ destructuringStack' = <<>> /\ cfg' = cfg /\ nref' = nref
      /\ refs' = refs /\ trace' = trace /\ SetTop([top EXCEPT !.asg = asg]) /\ old # <<>>
  BY <1>2 DEF EnterRightSide, Context
<1> HIDE DEF old
<1>3. D \in Nat \ {0} /\ D \in DOMAIN old /\ DOMAIN old = 1..D /\ old[D] \in Assignment
  BY <1>1, <1>2
<1>4. /\ asg \in Seq(Assignment) /\ Len(asg) = D /\ DOMAIN asg = DOMAIN old
      /\ asg[D] = [old[D] EXCEPT !.side = "rhs"] /\ \A i \in DOMAIN old : i # D => asg[i] = old[i]
  <2>1. [old[D] EXCEPT !.side = "rhs"] \in Assignment
    BY <1>3 DEF Assignment
  <2> QED
    BY <1>2, <1>3, <2>1
<1> HIDE DEF asg
<1>5. \A i \in 1..D : asg[i].lhs = old[i].lhs /\ asg[i].rhs = old[i].rhs /\ asg[i].own = old[i].own
  <2> SUFFICES ASSUME NEW i \in 1..D PROVE asg[i].lhs = old[i].lhs /\ asg[i].rhs = old[i].rhs /\ asg[i].own = old[i].own
    OBVIOUS
  <2>1. CASE i = D
    BY <1>3, <1>4, <2>1 DEF Assignment
  <2>2. CASE i # D
    BY <1>3, <1>4, <2>2
  <2> QED
    BY <2>1, <2>2
<1>6. Lists(asg) = Lists(old) /\ \A rs : \A x \in Lists(old) : List(rs, asg, x) = List(rs, old, x)
  <2>1. Lists(asg) = Lists(old)
    BY <1>4 DEF Lists
  <2>2. ASSUME NEW rs, NEW x \in Lists(old) PROVE List(rs, asg, x) = List(rs, old, x)
    <3>1. x \in 0..(2 * D)
      BY DEF Lists
    <3>2. CASE x = 0
      BY <3>2 DEF List
    <3>3. CASE x # 0 /\ x <= D
      <4>1. x \in 1..D
        BY <1>3, <3>1, <3>3
      <4> QED
        BY <1>4, <1>5, <3>3, <4>1 DEF List
    <3>4. CASE x # 0 /\ ~(x <= D)
      <4>1. 2 * D + 1 - x \in 1..D
        BY <1>3, <3>1, <3>4
      <4> QED
        BY <1>4, <1>5, <3>4, <4>1 DEF List
    <3> QED
      BY <3>2, <3>3, <3>4
  <2> QED
    BY <2>1, <2>2
<1>7. \A rs : RefsOf(rs, asg) = RefsOf(rs, old)
  BY <1>6 DEF RefsOf
<1>8. Targets(old) => Targets(asg)
  <2>1. \A i \in 1..D : i < D => asg[i].side = old[i].side
    <3>0. D \in Nat
      BY <1>3
    <3>1. \A i \in 1..D : i < D => i # D
      BY <3>0
    <3> QED
      BY <1>3, <1>4, <3>1
  <2> QED
    BY <1>3, <1>4, <1>5, <2>1 DEF Targets
<1>9. ASSUME NEW s \in top.cur
      PROVE  Evaluated(trace[s], refs[s], asg) /\ RefsOf(refs[s], asg) = RefsOf(refs[s], old)
             /\ \A r \in RefsOf(refs[s], asg) : r.id <= nref
  <2>1. Evaluated(trace[s], refs[s], old) /\ \A r \in RefsOf(refs[s], old) : r.id <= nref
    BY CurrentFacts DEF old
  <2>2. ListsInOrder(trace[s], refs[s], asg)
    BY <2>1, <1>6 DEF Evaluated, ListsInOrder
  <2>3. ListsAreComplete(trace[s], refs[s], asg)
    BY <2>1, <1>4, <1>6 DEF Evaluated, ListsAreComplete
  <2> QED
    BY <2>1, <2>2, <2>3, <1>7, <1>8 DEF Evaluated
<1>10. nref \in Nat /\ refs \in [Segs -> Seq(Reference)] /\ trace \in [Segs -> Seq(Operation)]
  BY DEF WalkInvariant, WalkType
<1>11. WalkInvariant' /\ \A s \in Segs : Open(s)' = IF s \in top.cur THEN asg ELSE Open(s)
  <2>1. nref' \in Nat /\ nref <= nref'
    BY <1>1, <1>10
  <2> QED
    BY <1>1, <1>4, <1>9, <1>10, <2>1, TopStep
<1>12. ASSUME NEW s \in Segs PROVE RefsAt(s)' = RefsAt(s)
  <2>1. RefsAt(s)' = RefsOf(refs[s], Open(s)')
    BY <1>1 DEF RefsAt, RefsOf, List, Lists
  <2>2. CASE s \in top.cur
    <3>1. RefsAt(s) = RefsOf(refs[s], old)
      BY <2>2, CurrentFacts DEF old
    <3> QED
      BY <2>1, <2>2, <3>1, <1>9, <1>11
  <2>3. CASE s \notin top.cur
    BY <2>1, <2>3, <1>11 DEF RefsAt
  <2> QED
    BY <2>2, <2>3
<1> QED
  BY <1>11, <1>12

\* The assignments after popAssignmentContext, and how their lists come from the old ones.
LEMMA PoppedLists ==
  ASSUME NEW asg \in Seq(Assignment), asg # <<>>, Targets(asg), NEW rs \in Seq(Reference)
  PROVE  LET D == Len(asg)
             e == EvaluationOrder(asg[D])
             asg2 == IF D = 1 THEN <<>> ELSE AddToAssignment(Front(asg), e)
             rs2 == IF D = 1 THEN rs \o e ELSE rs
         IN /\ e \in Seq(Reference) /\ asg2 \in Seq(Assignment) /\ rs2 \in Seq(Reference)
            /\ Targets(asg2) /\ Merged(rs, asg, rs2, asg2)
<1> DEFINE D == Len(asg)
           a == asg[D]
           e == a.rhs \o a.lhs
           f == Front(asg)
           asg2 == IF D = 1 THEN <<>> ELSE AddToAssignment(f, e)
           rs2 == IF D = 1 THEN rs \o e ELSE rs
<1>1. /\ D \in Nat \ {0} /\ DOMAIN asg = 1..D /\ f \in Seq(Assignment) /\ Len(f) = D - 1
      /\ \A i \in 1..(D - 1) : f[i] = asg[i]
  BY FrontIndex
<1>2. \A i \in 1..D : asg[i] \in Assignment /\ asg[i].lhs \in Seq(Reference) /\ asg[i].rhs \in Seq(Reference)
  <2>1. \A i \in 1..D : asg[i] \in Assignment
    BY <1>1
  <2> QED
    BY <2>1 DEF Assignment
<1>3. e \in Seq(Reference) /\ EvaluationOrder(asg[D]) = e
  <2>1. a.rhs \in Seq(Reference) /\ a.lhs \in Seq(Reference)
    BY <1>1, <1>2
  <2> QED
    BY <2>1 DEF EvaluationOrder
<1>4. List(rs, asg, D) = a.rhs /\ List(rs, asg, D + 1) = a.lhs
  BY <1>1 DEF List
<1> HIDE DEF e, f
<1>5. CASE D = 1
  <2>1. asg2 = <<>> /\ rs2 = rs \o e /\ rs2 \in Seq(Reference)
    BY <1>3, <1>5
  <2>2. Targets(<<>>)
    BY DEF Targets
  <2>3. ASSUME NEW x \in 0..(2 * D - 2) PROVE x = 0
    BY <1>5
  <2>4. List(rs2, asg2, 0) = rs \o e /\ List(rs, asg, 0) = rs
    BY <2>1 DEF List
  <2>5. ASSUME NEW x \in 0..(2 * D - 2)
        PROVE  List(rs2, asg2, x) =
                 IF x < D - 1 THEN List(rs, asg, x)
                 ELSE IF x = D - 1 THEN List(rs, asg, x) \o (List(rs, asg, D) \o List(rs, asg, D + 1))
                 ELSE List(rs, asg, x + 2)
    <3>1. x = 0 /\ ~(x < D - 1) /\ x = D - 1
      BY <2>3, <1>5
    <3> QED
      BY <3>1, <2>4, <1>4 DEF e
  <2>6. Len(asg2) = D - 1 /\ asg2 \in Seq(Assignment)
    BY <2>1, <1>5
  <2> HIDE DEF asg2, rs2
  <2> QED
    BY <2>1, <2>2, <2>5, <2>6, <1>3 DEF asg2, rs2, f, Merged
<1>6. CASE D # 1
  <2>0. D - 1 \in Nat \ {0} /\ D \in Nat
    BY <1>1, <1>6
  <2>1. f # <<>> /\ asg2 = AddToAssignment(f, e) /\ rs2 = rs
    BY <1>1, <1>6, <2>0
  <2>2. f[D - 1] = asg[D - 1] /\ asg[D - 1].side = "rhs"
    <3>1. D - 1 \in 1..(D - 1) /\ D - 1 \in 1..D /\ D - 1 < D
      <4> HIDE DEF D
      <4> QED
        BY <2>0
    <3> QED
      BY <1>1, <3>1 DEF Targets
  <2>3. /\ asg2 \in Seq(Assignment) /\ Len(asg2) = D - 1 /\ \A i \in 1..(D - 1 - 1) : asg2[i] = f[i]
        /\ asg2[D - 1] = [asg[D - 1] EXCEPT !.rhs = @ \o e]
    <3> HIDE DEF asg2
    <3>1. LET b == AddToAssignment(f, e)
          IN /\ b \in Seq(Assignment) /\ Len(b) = Len(f) /\ \A i \in 1..(Len(f) - 1) : b[i] = f[i]
             /\ b[Len(f)] = IF f[Len(f)].side = "lhs" THEN [f[Len(f)] EXCEPT !.lhs = @ \o e]
                                                      ELSE [f[Len(f)] EXCEPT !.rhs = @ \o e]
      BY <1>1, <1>3, <2>1, AddFacts
    <3> QED
      BY <1>1, <2>1, <2>2, <3>1
  <2> HIDE DEF asg2, rs2
  <2>4. /\ \A i \in 1..(D - 1) : asg2[i].lhs = asg[i].lhs /\ asg2[i].own = asg[i].own /\ asg2[i].side = asg[i].side
        /\ \A i \in 1..(D - 1) : asg2[i].rhs = IF i = D - 1 THEN asg[i].rhs \o e ELSE asg[i].rhs
    <3> SUFFICES ASSUME NEW i \in 1..(D - 1)
                 PROVE  /\ asg2[i].lhs = asg[i].lhs /\ asg2[i].own = asg[i].own /\ asg2[i].side = asg[i].side
                        /\ asg2[i].rhs = IF i = D - 1 THEN asg[i].rhs \o e ELSE asg[i].rhs
      OBVIOUS
    <3>1. CASE i = D - 1
      <4>1. asg[D - 1] \in Assignment
        BY <1>2, <2>0
      <4> QED
        BY <2>3, <3>1, <4>1 DEF Assignment
    <3>2. CASE i # D - 1
      <4>1. i \in 1..(D - 1 - 1)
        BY <2>0, <3>2
      <4>2. asg2[i] = asg[i]
        BY <4>1, <2>3, <1>1
      <4> QED
        BY <4>2, <3>2
    <3> QED
      BY <3>1, <3>2
  <2>5. Targets(asg2)
    <3>1. DOMAIN asg2 = 1..(D - 1)
      BY <2>3
    <3>2. \A i \in 1..(D - 1) : i \in DOMAIN asg /\ (i < D - 1 => i < D)
      BY <1>1
    <3> QED
      BY <2>3, <2>4, <3>1, <3>2 DEF Targets
  <2>6. ASSUME NEW x \in 0..(2 * D - 2)
        PROVE  List(rs2, asg2, x) =
                 IF x < D - 1 THEN List(rs, asg, x)
                 ELSE IF x = D - 1 THEN List(rs, asg, x) \o (List(rs, asg, D) \o List(rs, asg, D + 1))
                 ELSE List(rs, asg, x + 2)
    <3>1. CASE x = 0
      <4>1. x < D - 1
        <5> HIDE DEF D
        <5> QED
          BY <2>0, <3>1
      <4> QED
        BY <4>1, <2>1, <3>1 DEF List
    <3>2. CASE x # 0 /\ x < D - 1
      <4>1. x \in 1..(D - 1) /\ x # D - 1 /\ x <= D - 1 /\ x <= D
        BY <2>0, <3>2
      <4>2. List(rs2, asg2, x) = asg2[x].rhs /\ List(rs, asg, x) = asg[x].rhs
        BY <2>3, <3>2, <4>1 DEF List
      <4> QED
        BY <2>4, <3>2, <4>1, <4>2
    <3>3. CASE x = D - 1
      <4>1. x \in 1..(D - 1) /\ x # 0 /\ x <= D - 1 /\ x <= D /\ ~(x < D - 1)
        BY <2>0, <3>3
      <4>2. List(rs2, asg2, x) = asg2[x].rhs /\ List(rs, asg, x) = asg[x].rhs
        BY <2>3, <4>1 DEF List
      <4>3. asg2[x].rhs = asg[x].rhs \o e
        BY <2>4, <3>3, <4>1
      <4> QED
        BY <3>3, <4>1, <4>2, <4>3, <1>4 DEF e
    <3>4. CASE x > D - 1
      <4>1. /\ x # 0 /\ ~(x <= D - 1) /\ ~(x < D - 1) /\ x # D - 1 /\ x + 2 # 0 /\ ~(x + 2 <= D)
            /\ 2 * (D - 1) + 1 - x \in 1..(D - 1) /\ 2 * (D - 1) + 1 - x = 2 * D + 1 - (x + 2)
        BY <2>0, <3>4
      <4>2. List(rs2, asg2, x) = asg2[2 * (D - 1) + 1 - x].lhs
        BY <2>3, <4>1 DEF List
      <4>3. List(rs, asg, x + 2) = asg[2 * D + 1 - (x + 2)].lhs
        BY <4>1 DEF List
      <4> QED
        BY <4>1, <4>2, <4>3, <2>4
    <3> QED
      BY <3>1, <3>2, <3>3, <3>4, <2>0
  <2> QED
    BY <2>0, <2>1, <2>3, <2>5, <2>6, <1>3, <1>6 DEF asg2, rs2, f, Merged
<1> QED
  BY <1>5, <1>6

LEMMA PopStep ==
  ASSUME WalkInvariant, PopAssignmentContext
  PROVE  WalkInvariant' /\ \A s \in Segs : RefsAt(s)' = RefsAt(s)
<1> DEFINE asg == top.asg
           D == Len(asg)
           a == asg[D]
           e == EvaluationOrder(a)
           more == Writes(a.own)
           asg2 == IF D = 1 THEN <<>> ELSE AddToAssignment(Front(asg), e)
           rs2(s) == IF D = 1 THEN refs[s] \o e ELSE refs[s]
<1>1. asg \in Seq(Assignment) /\ top.cur \subseteq Segs /\ Assignments = asg
  BY TopFacts
<1>2. /\ phase = "walk" /\ phase' = "walk" /\ destructuringStack' = destructuringStack /\ cfg' = cfg /\ nref' = nref
      /\ asg # <<>> /\ Last(asg).side = "rhs"
  BY <1>1 DEF PopAssignmentContext
<1>3. /\ D \in Nat \ {0} /\ Last(asg) = a /\ a \in Assignment /\ Front(asg) \in Seq(Assignment) /\ Len(Front(asg)) = D - 1
  BY <1>1, <1>2, FrontIndex
<1>4. Front(asg) = <<>> <=> D = 1
  <2> DEFINE f == Front(asg)
  <2>1. f \in Seq(Assignment) /\ Len(f) = D - 1 /\ D \in Nat
    BY <1>3
  <2> HIDE DEF f, D
  <2>2. f = <<>> <=> Len(f) = 0
    BY <2>1
  <2>3. Len(f) = 0 <=> D = 1
    BY <2>1
  <2> QED
    BY <2>2, <2>3 DEF f
<1>5. ProcessReferences(Front(asg), e) /\ Perform(more)
  BY <1>1, <1>3 DEF PopAssignmentContext
<1>6. destructuringStack' = <<>>
  BY <1>2 DEF WalkInvariant, Contexts
<1>7. nref \in Nat /\ refs \in [Segs -> Seq(Reference)] /\ trace \in [Segs -> Seq(Operation)]
  BY DEF WalkInvariant, WalkType
<1>8. SetTop([top EXCEPT !.asg = asg2])
  BY <1>4, <1>5 DEF ProcessReferences
<1>9. refs' = [s \in Segs |-> IF s \in top.cur THEN rs2(s) ELSE refs[s]]
  <2>1. CASE D = 1
    BY <1>4, <1>5, <2>1 DEF ProcessReferences
  <2>2. CASE D # 1
    <3>1. refs' = refs
      BY <1>4, <1>5, <2>2 DEF ProcessReferences
    <3> QED
      BY <1>7, <2>2, <3>1
  <2> QED
    BY <2>1, <2>2
<1>10. trace' = [s \in Segs |-> IF s \in top.cur THEN trace[s] \o more ELSE trace[s]]
  BY <1>5 DEF Perform
<1> HIDE DEF asg, a, e, more
<1>11. ASSUME NEW s \in top.cur
       PROVE  /\ rs2(s) \in Seq(Reference) /\ asg2 \in Seq(Assignment) /\ more \in Seq(Operation)
              /\ Evaluated(trace[s] \o more, rs2(s), asg2) /\ RefsOf(rs2(s), asg2) = RefsOf(refs[s], asg)
  <2>1. /\ trace[s] \in Seq(Operation) /\ refs[s] \in Seq(Reference) /\ Evaluated(trace[s], refs[s], asg)
    BY CurrentFacts DEF asg
  <2>2. Targets(asg)
    BY <2>1 DEF Evaluated
  <2>3. /\ rs2(s) \in Seq(Reference) /\ asg2 \in Seq(Assignment) /\ Targets(asg2)
        /\ Merged(refs[s], asg, rs2(s), asg2)
    BY <1>1, <1>2, <2>1, <2>2, PoppedLists DEF e, a
  <2>4. more \in Seq(Operation)
    BY <1>1, <1>2, <2>1, WritesKeepOrder DEF more, a
  <2> HIDE DEF rs2, asg2
  <2>5. /\ ListsInOrder(trace[s] \o more, rs2(s), asg2) /\ ListsAreComplete(trace[s] \o more, rs2(s), asg2)
        /\ RefsOf(rs2(s), asg2) = RefsOf(refs[s], asg)
    BY <1>1, <1>2, <2>1, <2>3, MergeKeeps DEF more, a
  <2> QED
    BY <2>3, <2>4, <2>5 DEF Evaluated
<1> HIDE DEF asg2, rs2
<1>12. asg2 \in Seq(Assignment) /\ more \in Seq(Operation)
  <2>1. PICK s \in top.cur : TRUE
    BY TopFacts
  <2> QED
    BY <2>1, <1>11
<1>13. refs' \in [Segs -> Seq(Reference)] /\ trace' \in [Segs -> Seq(Operation)]
  <2>1. \A s \in Segs : (IF s \in top.cur THEN rs2(s) ELSE refs[s]) \in Seq(Reference)
    BY <1>7, <1>11
  <2>2. \A s \in Segs : (IF s \in top.cur THEN trace[s] \o more ELSE trace[s]) \in Seq(Operation)
    <3>1. \A s \in Segs : trace[s] \in Seq(Operation) /\ trace[s] \o more \in Seq(Operation)
      BY <1>7, <1>12
    <3> QED
      BY <3>1
  <2> QED
    BY <1>9, <1>10, <2>1, <2>2
<1>14. \A s \in Segs : /\ s \in top.cur => refs'[s] = rs2(s) /\ trace'[s] = trace[s] \o more
                       /\ s \notin top.cur => refs'[s] = refs[s] /\ trace'[s] = trace[s]
  BY <1>9, <1>10
<1>15. \A s \in top.cur : /\ Evaluated(trace'[s], refs'[s], asg2) /\ RefsOf(refs'[s], asg2) = RefsOf(refs[s], asg)
                          /\ \A r \in RefsOf(refs'[s], asg2) : r.id <= nref
  <2> SUFFICES ASSUME NEW s \in top.cur
               PROVE  /\ Evaluated(trace'[s], refs'[s], asg2) /\ RefsOf(refs'[s], asg2) = RefsOf(refs[s], asg)
                      /\ \A r \in RefsOf(refs'[s], asg2) : r.id <= nref
    OBVIOUS
  <2>1. \A r \in RefsOf(refs[s], asg) : r.id <= nref
    BY CurrentFacts DEF asg
  <2>2. refs'[s] = rs2(s) /\ trace'[s] = trace[s] \o more
    BY <1>1, <1>14
  <2> QED
    BY <2>1, <2>2, <1>11
<1>16. WalkInvariant' /\ \A s \in Segs : Open(s)' = IF s \in top.cur THEN asg2 ELSE Open(s)
  <2>1. nref' \in Nat /\ nref <= nref'
    BY <1>2, <1>7
  <2>2. \A s \in Segs \ top.cur : refs'[s] = refs[s] /\ trace'[s] = trace[s]
    BY <1>14
  <2> QED
    BY <1>2, <1>6, <1>8, <1>12, <1>13, <1>15, <2>1, <2>2, TopStep
<1>17. ASSUME NEW s \in Segs PROVE RefsAt(s)' = RefsAt(s)
  <2>1. RefsAt(s)' = RefsOf(refs'[s], Open(s)')
    BY DEF RefsAt, RefsOf, List, Lists
  <2>2. CASE s \in top.cur
    <3>1. RefsAt(s) = RefsOf(refs[s], asg)
      BY <2>2, CurrentFacts DEF asg
    <3> QED
      BY <2>1, <2>2, <3>1, <1>15, <1>16
  <2>3. CASE s \notin top.cur
    BY <2>1, <2>3, <1>14, <1>16 DEF RefsAt
  <2> QED
    BY <2>2, <2>3
<1> QED
  BY <1>16, <1>17

\* The walk is on the left side of the innermost assignment, and a reference is
\* what is assigned there.
LeftSide(asg) == asg # <<>> /\ Last(asg).side = "lhs"
IsTarget(ref) == IsWrite(ref) /\ ref.form # "incDec"

\* The open assignments when a target is noted in the innermost one, those after
\* an identifier, and the references of a current segment then.
Noted(asg, ref) == IF IsTarget(ref) THEN [asg EXCEPT ![Len(asg)].own = Append(@, ref)] ELSE asg
After(asg, ref) == IF asg # <<>> THEN AddToAssignment(Noted(asg, ref), <<ref>>) ELSE asg
RefsAfter(rs, asg, ref) == IF asg # <<>> THEN rs ELSE rs \o <<ref>>
Place(asg) == IF LeftSide(asg) THEN Len(asg) + 1 ELSE Len(asg)

\* The innermost left side may get the reference: it was empty, or only writes are added to writes.
MayGet(asg, ref) ==
  /\ IsTarget(ref) => LeftSide(asg)
  /\ LeftSide(asg) => ref.form # "incDec"
  /\ LeftSide(asg) /\ Last(asg).lhs # <<>> =>
       IsTarget(ref) /\ ~IsRead(ref) /\ \A r \in ToSet(Last(asg).lhs) : ~IsRead(r)

\* The assignments after an identifier, and where its reference is added.
LEMMA IdentLists ==
  ASSUME NEW asg \in Seq(Assignment), NEW rs \in Seq(Reference), NEW ref \in Reference, Targets(asg), MayGet(asg, ref)
  PROVE  LET asg1 == Noted(asg, ref)
             asg2 == After(asg, ref)
             rs2 == RefsAfter(rs, asg, ref)
             at == Place(asg)
         IN /\ asg2 \in Seq(Assignment) /\ rs2 \in Seq(Reference) /\ at \in Lists(asg) /\ Targets(asg2)
            /\ Inserted(rs, asg, rs2, asg2, at, ref)
            /\ asg # <<>> => asg1 # <<>> /\ asg2 # <<>>
            /\ LeftSide(asg) => Last(asg2).side = "lhs" /\ Last(asg2).lhs = Last(asg).lhs \o <<ref>>
<1> DEFINE left == LeftSide(asg)
           target == IsTarget(ref)
           D == Len(asg)
           a == asg[D]
           asg1 == Noted(asg, ref)
           a1 == IF target THEN [a EXCEPT !.own = Append(@, ref)] ELSE a
           asg2 == IF asg # <<>> THEN AddToAssignment(asg1, <<ref>>) ELSE asg
           rs2 == IF asg # <<>> THEN rs ELSE rs \o <<ref>>
           at == IF left THEN D + 1 ELSE D
<1> SUFFICES /\ asg2 \in Seq(Assignment) /\ rs2 \in Seq(Reference) /\ at \in Lists(asg) /\ Targets(asg2)
             /\ Inserted(rs, asg, rs2, asg2, at, ref)
             /\ asg # <<>> => asg1 # <<>> /\ asg2 # <<>>
             /\ left => Last(asg2).side = "lhs" /\ Last(asg2).lhs = Last(asg).lhs \o <<ref>>
  BY DEF After, RefsAfter, Place
<1>h. left \in BOOLEAN /\ target \in BOOLEAN
  BY DEF LeftSide, IsTarget
<1>0. /\ left <=> asg # <<>> /\ Last(asg).side = "lhs"
      /\ (target => left) /\ (left => (target <=> IsWrite(ref)))
      /\ left /\ Last(asg).lhs # <<>> => target /\ ~IsRead(ref) /\ \A r \in ToSet(Last(asg).lhs) : ~IsRead(r)
  BY DEF MayGet, LeftSide, IsTarget
<1>n. target <=> IsTarget(ref)
  OBVIOUS
<1> HIDE DEF left, target
<1>1. <<ref>> \in Seq(Reference) /\ rs \o <<ref>> \in Seq(Reference) /\ ToSet(<<ref>>) = {ref}
  BY DEF ToSet
<1>2. CASE asg = <<>>
  <2>1. ~left /\ D = 0 /\ asg2 = asg /\ rs2 = rs \o <<ref>> /\ at = 0
    BY <1>0, <1>2
  <2>2. Lists(asg) = {0}
    BY <2>1 DEF Lists
  <2>3. List(rs, asg, 0) = rs /\ List(rs2, asg2, 0) = rs2
    BY DEF List
  <2>4. Inserted(rs, asg, rs2, asg2, at, ref)
    BY <2>1, <2>2, <2>3 DEF Inserted
  <2> QED
    BY <1>1, <1>2, <2>1, <2>2, <2>4
<1>3. CASE asg # <<>>
  <2>1. D \in Nat \ {0} /\ DOMAIN asg = 1..D /\ Last(asg) = a /\ a \in Assignment
    BY <1>3, FrontIndex
  <2>n. D \in Nat \ {0}
    BY <2>1
  <2>2. /\ a.own \in Seq(Reference) /\ a.lhs \in Seq(Reference) /\ a.rhs \in Seq(Reference) /\ a.side \in {"lhs", "rhs"}
        /\ left <=> a.side = "lhs"
    BY <2>1, <1>0, <1>3 DEF Assignment
  <2>3. a1 \in Assignment /\ a1.lhs = a.lhs /\ a1.rhs = a.rhs /\ a1.side = a.side
        /\ a1.own = IF target THEN Append(a.own, ref) ELSE a.own
    <3>1. Append(a.own, ref) \in Seq(Reference)
      BY <2>2
    <3> QED
      BY <2>1, <3>1 DEF Assignment
  <2>4. asg1 \in Seq(Assignment) /\ Len(asg1) = D /\ asg1 # <<>> /\ asg1[D] = a1 /\ \A i \in 1..(D - 1) : asg1[i] = asg[i]
    <3>1. CASE target
      <4>1. asg1 = [asg EXCEPT ![D] = a1]
        BY <3>1, <1>n DEF Noted
      <4>2. D \in DOMAIN asg
        BY <2>1
      <4> HIDE DEF a1, asg1
      <4>3. asg1 \in Seq(Assignment) /\ Len(asg1) = D /\ asg1[D] = a1 /\ \A i \in 1..D : i # D => asg1[i] = asg[i]
        BY <2>1, <2>3, <4>1, <4>2
      <4>4. asg1 # <<>>
        BY <4>3, <2>1
      <4>5. \A i \in 1..(D - 1) : i \in 1..D /\ i # D
        <5> HIDE DEF D
        <5> QED
          BY <2>n
      <4> QED
        BY <4>3, <4>4, <4>5
    <3>2. CASE ~target
      BY <3>2, <1>3, <1>n, <2>1 DEF Noted
    <3> QED
      BY <3>1, <3>2
  <2> DEFINE e == IF left THEN [a1 EXCEPT !.lhs = @ \o <<ref>>] ELSE [a1 EXCEPT !.rhs = @ \o <<ref>>]
  <2> HIDE DEF asg1
  <2>5. /\ asg2 \in Seq(Assignment) /\ asg2 # <<>> /\ Len(asg2) = D /\ asg2[D] = e /\ \A i \in 1..(D - 1) : asg2[i] = asg[i]
    <3>1. asg2 = AddToAssignment(asg1, <<ref>>)
      BY <1>3
    <3>2. LET b == AddToAssignment(asg1, <<ref>>)
          IN /\ b \in Seq(Assignment) /\ b # <<>> /\ Len(b) = Len(asg1) /\ \A i \in 1..(Len(asg1) - 1) : b[i] = asg1[i]
             /\ b[Len(asg1)] = IF asg1[Len(asg1)].side = "lhs" THEN [asg1[Len(asg1)] EXCEPT !.lhs = @ \o <<ref>>]
                                                           ELSE [asg1[Len(asg1)] EXCEPT !.rhs = @ \o <<ref>>]
      BY <1>1, <2>4, AddFacts
    <3> HIDE DEF a1
    <3>3. asg1[Len(asg1)] = a1 /\ (a1.side = "lhs" <=> left)
      BY <2>2, <2>3, <2>4
    <3> QED
      BY <3>1, <3>2, <3>3, <2>4
  <2>6. /\ e.side = a.side /\ e.own = (IF target THEN Append(a.own, ref) ELSE a.own)
        /\ e.lhs = (IF left THEN a.lhs \o <<ref>> ELSE a.lhs) /\ e.rhs = (IF left THEN a.rhs ELSE a.rhs \o <<ref>>)
    <3> HIDE DEF a1, a
    <3> QED
      BY <2>3 DEF Assignment
  <2> HIDE DEF e, asg2, a1
  <2>7. Inserted(rs, asg, rs2, asg2, at, ref) /\ at \in Lists(asg) /\ rs2 = rs
    <3>0. rs2 = rs
      BY <1>3
    <3>1. at \in Lists(asg)
      BY <2>1 DEF Lists
    <3>2. ASSUME NEW x \in Lists(asg)
          PROVE  List(rs, asg2, x) = IF x = at THEN List(rs, asg, x) \o <<ref>> ELSE List(rs, asg, x)
      <4>1. x \in 0..(2 * D)
        BY DEF Lists
      <4>2. CASE x = 0
        <5>1. x # at
          BY <2>1, <4>2
        <5> QED
          BY <4>2, <5>1 DEF List
      <4>3. CASE x # 0 /\ x <= D
        <5>1. x \in 1..D /\ (x = D \/ x \in 1..(D - 1)) /\ (x = at <=> x = D /\ ~left)
          <6> HIDE DEF D
          <6> QED
            BY <4>1, <4>3, <2>n
        <5>2. List(rs, asg2, x) = asg2[x].rhs /\ List(rs, asg, x) = asg[x].rhs
          BY <2>5, <4>3 DEF List
        <5>3. CASE x = D
          BY <2>5, <2>6, <5>1, <5>2, <5>3
        <5>4. CASE x # D
          BY <2>5, <5>1, <5>2, <5>4
        <5> QED
          BY <5>3, <5>4
      <4>4. CASE x # 0 /\ ~(x <= D)
        <5> DEFINE y == 2 * D + 1 - x
        <5>1. y \in 1..D /\ (y = D \/ y \in 1..(D - 1)) /\ (x = at <=> y = D /\ left)
          <6> HIDE DEF D
          <6> QED
            BY <4>1, <4>4, <2>n
        <5>2. List(rs, asg2, x) = asg2[y].lhs /\ List(rs, asg, x) = asg[y].lhs
          BY <2>5, <4>4 DEF List
        <5> HIDE DEF y
        <5>3. CASE y = D
          BY <2>5, <2>6, <5>1, <5>2, <5>3
        <5>4. CASE y # D
          BY <2>5, <5>1, <5>2, <5>4
        <5> QED
          BY <5>3, <5>4
      <4> QED
        BY <4>2, <4>3, <4>4
    <3> QED
      BY <2>5, <3>0, <3>1, <3>2 DEF Inserted
  <2>8. Targets(asg2)
    <3>1. ASSUME NEW i \in 1..D
          PROVE  /\ \/ asg2[i].own = asg2[i].lhs /\ \A r \in ToSet(asg2[i].lhs) : IsWrite(r)
                    \/ asg2[i].own = <<>> /\ \A r \in ToSet(asg2[i].lhs) : ~IsWrite(r)
                 /\ Len(asg2[i].lhs) <= 1 \/ \A r \in ToSet(asg2[i].lhs) : ~IsRead(r)
                 /\ i < D => asg2[i].side = "rhs"
      <4>0. /\ \/ asg[i].own = asg[i].lhs /\ \A r \in ToSet(asg[i].lhs) : IsWrite(r)
               \/ asg[i].own = <<>> /\ \A r \in ToSet(asg[i].lhs) : ~IsWrite(r)
            /\ Len(asg[i].lhs) <= 1 \/ \A r \in ToSet(asg[i].lhs) : ~IsRead(r)
            /\ i < D => asg[i].side = "rhs"
        BY <2>1 DEF Targets
      <4>1. CASE i # D
        <5>1. i \in 1..(D - 1)
          <6> HIDE DEF D
          <6> QED
            BY <2>n, <4>1
        <5> QED
          BY <2>5, <4>0, <5>1
      <4>2. CASE i = D
        <5>0. asg2[i] = e /\ ~(i < D)
          BY <2>1, <2>5, <4>2
        <5>a. /\ \/ a.own = a.lhs /\ \A r \in ToSet(a.lhs) : IsWrite(r)
                 \/ a.own = <<>> /\ \A r \in ToSet(a.lhs) : ~IsWrite(r)
              /\ Len(a.lhs) <= 1 \/ \A r \in ToSet(a.lhs) : ~IsRead(r)
          BY <4>0, <4>2
        <5> HIDE DEF a
        <5>1. CASE ~left
          BY <5>0, <5>a, <5>1, <2>6, <1>0
        <5>2. CASE left /\ a.lhs = <<>>
          <6>1. a.own = <<>>
            BY <5>a, <5>2
          <6>2. e.lhs = <<ref>> /\ e.own = IF target THEN <<ref>> ELSE <<>>
            BY <2>6, <5>2, <6>1
          <6>3. Len(<<ref>>) = 1
            OBVIOUS
          <6> QED
            BY <5>0, <5>2, <6>2, <6>3, <1>0, <1>1
        <5>3. CASE left /\ a.lhs # <<>>
          <6>1. target /\ ~IsRead(ref) /\ \A r \in ToSet(a.lhs) : ~IsRead(r)
            BY <2>1, <5>3, <1>0
          <6>2. IsWrite(ref)
            BY <6>1, <1>0
          <6>3. \E r \in ToSet(a.lhs) : r \in Reference
            <7>1. 1 \in DOMAIN a.lhs /\ a.lhs[1] \in Reference
              BY <2>2, <5>3
            <7> QED
              BY <7>1 DEF ToSet
          <6>4. \A r \in ToSet(a.lhs) : r \in Reference => IsWrite(r)
            BY <6>1 DEF Reference, IsRead, IsWrite
          <6>5. a.own = a.lhs /\ \A r \in ToSet(a.lhs) : IsWrite(r)
            BY <5>a, <6>3, <6>4
          <6>6. Append(a.lhs, ref) = a.lhs \o <<ref>>
            <7> DEFINE lhs == a.lhs
            <7>1. lhs \in Seq(Reference)
              BY <2>2
            <7> HIDE DEF lhs
            <7>2. Append(lhs, ref) = lhs \o <<ref>>
              BY <7>1
            <7> QED
              BY <7>2 DEF lhs
          <6>7. e.own = e.lhs /\ e.lhs = a.lhs \o <<ref>>
            BY <2>6, <5>3, <6>1, <6>5, <6>6
          <6>8. ToSet(a.lhs \o <<ref>>) = ToSet(a.lhs) \cup {ref}
            <7> DEFINE one == <<ref>>
                       lhs == a.lhs
            <7>1. one \in Seq(Reference) /\ lhs \in Seq(Reference) /\ ToSet(one) = {ref}
              BY <1>1, <2>2
            <7> HIDE DEF one, lhs
            <7>2. ToSet(lhs \o one) = ToSet(lhs) \cup ToSet(one)
              BY <7>1, ConcatElements
            <7> QED
              BY <7>1, <7>2 DEF one, lhs
          <6> QED
            BY <5>0, <6>1, <6>2, <6>5, <6>7, <6>8
        <5> QED
          BY <5>1, <5>2, <5>3
      <4> QED
        BY <4>1, <4>2
    <3>2. DOMAIN asg2 = 1..D
      BY <2>5
    <3> QED
      BY <2>5, <3>1, <3>2 DEF Targets
  <2>9. left => Last(asg2).side = "lhs" /\ Last(asg2).lhs = Last(asg).lhs \o <<ref>>
    <3>1. Last(asg2) = e
      BY <2>5 DEF Last
    <3> QED
      BY <2>1, <2>2, <2>6, <3>1
  <2> QED
    BY <1>3, <2>4, <2>5, <2>7, <2>8, <2>9 DEF asg2, asg1
<1> QED
  BY <1>2, <1>3

\* What an identifier does when the walk comes to it.
LEMMA IdentOperations ==
  ASSUME NEW ref \in Reference, NEW left \in BOOLEAN,
         \/ ~left /\ ref.form = "plain" /\ ref.k = "r"
         \/ ~left /\ ref.form = "incDec" /\ ref.k = "rw"
         \/ left /\ ref.form # "incDec"
  PROVE  LET more == (IF IsRead(ref) THEN <<Op(ref, "r")>> ELSE <<>>)
                     \o (IF ref.form = "incDec" THEN <<Op(ref, "w")>> ELSE <<>>)
         IN /\ more \in Seq(Operation) /\ ReadsBeforeItWrites(more)
            /\ ToSet(more) = {o \in Operations(ref) : ~left \/ o.k = "r"}
            /\ (\E o \in ToSet(more) : o.k = "w") => ref.form = "incDec"
<1> DEFINE r == Op(ref, "r")
           w == Op(ref, "w")
<1>1. r \in Operation /\ w \in Operation /\ r.k = "r" /\ w.k = "w"
  BY DEF Reference, Operation, Op
<1>2. Operations(ref) = (IF IsRead(ref) THEN {r} ELSE {}) \cup (IF IsWrite(ref) THEN {w} ELSE {})
  <2>1. \A o : o \in Operations(ref) <=> (o = r /\ IsRead(ref)) \/ (o = w /\ IsWrite(ref))
    BY DEF Operations
  <2> QED
    BY <2>1
<1> HIDE DEF r, w
<1>3. CASE ref.k = "rw" /\ ref.form = "incDec"
  <2>1. IsRead(ref) /\ IsWrite(ref) /\ ~left
    BY <1>3 DEF IsRead, IsWrite
  <2> DEFINE p == <<r>>
             q == <<w>>
  <2>p. p \in Seq(Operation) /\ Len(p) = 1 /\ p[1] = r /\ ToSet(p) = {r}
    BY <1>1 DEF ToSet
  <2>q. q \in Seq(Operation) /\ Len(q) = 1 /\ q[1] = w /\ ToSet(q) = {w}
    BY <1>1 DEF ToSet
  <2> HIDE DEF p, q
  <2>3. /\ p \o q \in Seq(Operation) /\ DOMAIN (p \o q) = 1..(Len(p) + Len(q)) /\ ToSet(p \o q) = ToSet(p) \cup ToSet(q)
        /\ \A i \in 1..Len(p) : (p \o q)[i] = p[i]
        /\ \A i \in 1..(Len(p) + Len(q)) : i > Len(p) => (p \o q)[i] = q[i - Len(p)]
    <3>1. p \in Seq(Operation) /\ q \in Seq(Operation)
      BY <2>p, <2>q
    <3> QED
      BY <3>1, ConcatElements
  <2>4. DOMAIN (p \o q) = {1, 2} /\ (p \o q)[1] = r /\ (p \o q)[2] = w
    BY <2>p, <2>q, <2>3
  <2>5. ReadsBeforeItWrites(p \o q)
    BY <1>1, <2>4 DEF ReadsBeforeItWrites
  <2> QED
    BY <1>1, <1>2, <1>3, <2>1, <2>p, <2>q, <2>3, <2>5 DEF r, w, p, q
<1>4. CASE ref.form # "incDec" /\ IsRead(ref)
  <2>1. <<r>> \o <<>> = <<r>>
    BY <1>1
  <2>2. <<r>> \in Seq(Operation) /\ ToSet(<<r>>) = {r} /\ ReadsBeforeItWrites(<<r>>)
    BY <1>1 DEF ToSet, ReadsBeforeItWrites
  <2>3. {o \in Operations(ref) : ~left \/ o.k = "r"} = {r}
    <3>1. ~left => ~IsWrite(ref)
      BY <1>4 DEF IsWrite
    <3> QED
      BY <1>1, <1>2, <1>4, <3>1
  <2> QED
    BY <1>1, <1>4, <2>1, <2>2, <2>3 DEF r
<1>5. CASE ref.form # "incDec" /\ ~IsRead(ref)
  <2>1. <<>> \o <<>> = <<>>
    OBVIOUS
  <2>2. <<>> \in Seq(Operation) /\ ToSet(<<>>) = {} /\ ReadsBeforeItWrites(<<>>)
    BY DEF ToSet, ReadsBeforeItWrites
  <2>3. left
    BY <1>5 DEF IsRead
  <2>4. {o \in Operations(ref) : ~left \/ o.k = "r"} = {}
    BY <1>1, <1>2, <1>5, <2>3
  <2> QED
    BY <1>5, <2>1, <2>2, <2>4
<1>6. ref.form = "incDec" => ref.k = "rw"
  OBVIOUS
<1> QED
  BY <1>3, <1>4, <1>5, <1>6

\* The walk comes to the identifier of ref in a current segment.
Occurrence(ops, more, rs, rs2, asg, asg2, n, ref) ==
  /\ ops \in Seq(Operation) /\ more \in Seq(Operation)
  /\ rs \in Seq(Reference) /\ asg \in Seq(Assignment)
  /\ n \in Nat /\ ref \in Reference /\ ref.id = n + 1 /\ Place(asg) \in Lists(asg)
  /\ Evaluated(ops, rs, asg) /\ UpTo(rs, asg, n) /\ Targets(asg2)
  /\ Inserted(rs, asg, rs2, asg2, Place(asg), ref)
  /\ Performs(more, ref, Place(asg), Len(asg)) /\ ReadsBeforeItWrites(more)
  /\ (\E o \in ToSet(more) : o.k = "w") => MayWriteInside /\ asg = Assignments

LEMMA IdentKeeps ==
  ASSUME NEW ops, NEW more, NEW rs, NEW rs2, NEW asg, NEW asg2, NEW n, NEW ref,
         Occurrence(ops, more, rs, rs2, asg, asg2, n, ref), "nested" \notin Features
  PROVE  Evaluated(ops \o more, rs2, asg2) /\ RefsOf(rs2, asg2) = RefsOf(rs, asg) \cup {ref}
<1> DEFINE at == Place(asg)
           D == Len(asg)
<1>0. /\ ops \in Seq(Operation) /\ more \in Seq(Operation)
      /\ rs \in Seq(Reference) /\ asg \in Seq(Assignment)
      /\ n \in Nat /\ ref \in Reference /\ ref.id = n + 1
      /\ Evaluated(ops, rs, asg) /\ UpTo(rs, asg, n) /\ Targets(asg2) /\ ReadsBeforeItWrites(more)
      /\ (\E o \in ToSet(more) : o.k = "w") => MayWriteInside /\ asg = Assignments
  BY DEF Occurrence
<1>1. D \in Nat /\ at \in {D, D + 1}
  <2>1. D \in Nat /\ at = IF LeftSide(asg) THEN D + 1 ELSE D
    BY <1>0 DEF Place
  <2> HIDE DEF D, at
  <2> QED
    BY <2>1
<1>3. ASSUME MayWriteInside, asg = Assignments, NEW x \in Lists(asg), NEW r \in ToSet(List(rs, asg, x)), x > D
      PROVE  ~IsRead(r)
  <2>1. x \in 0..(2 * D)
    BY DEF Lists
  <2>2. x # 0 /\ ~(x <= D) /\ 2 * D + 1 - x \in 1..D
    <3>1. D \in Nat /\ x > D
      BY <1>1, <1>3
    <3> HIDE DEF D, at
    <3> QED
      BY <3>1, <2>1
  <2>3. List(rs, asg, x) = asg[2 * D + 1 - x].lhs
    BY <2>2 DEF List
  <2>4. DOMAIN asg = 1..D
    BY <1>0
  <2> QED
    BY <1>3, <2>2, <2>3, <2>4 DEF MayWriteInside
<1>4. (\E o \in ToSet(more) : o.k = "w") => UnreadLeft(rs, asg)
  BY <1>0, <1>3 DEF UnreadLeft
<1>6. ListsInOrder(ops, rs, asg) /\ ListsAreComplete(ops, rs, asg)
  BY <1>0 DEF Evaluated
<1>7. at \in Lists(asg) /\ Inserted(rs, asg, rs2, asg2, at, ref) /\ Performs(more, ref, at, Len(asg))
  BY DEF Occurrence
<1>8. at \in {Len(asg), Len(asg) + 1}
  BY <1>1
<1> HIDE DEF at
<1>i. Insertion(ops, more, rs, rs2, asg, asg2, n, ref, at)
  BY <1>0, <1>4, <1>6, <1>7, <1>8 DEF Insertion
<1>9. /\ ListsInOrder(ops \o more, rs2, asg2) /\ ListsAreComplete(ops \o more, rs2, asg2)
      /\ RefsOf(rs2, asg2) = RefsOf(rs, asg) \cup {ref}
  BY <1>i, InsertKeeps
<1> QED
  BY <1>0, <1>9 DEF Evaluated

LEMMA IdentStep ==
  ASSUME WalkInvariant, "nested" \notin Features,
         NEW v \in Vars, NEW ref \in References(v), CheckIdentifierUsage(ref)
  PROVE  /\ WalkInvariant' /\ ref \in Reference /\ ref.id = nref + 1
         /\ \A s \in Segs : RefsAt(s)' = IF s \in top.cur THEN RefsAt(s) \cup {ref} ELSE RefsAt(s)
<1> DEFINE asg == top.asg
           D == Len(asg)
           left == LeftSide(asg)
           target == IsTarget(ref)
           asg1 == Noted(asg, ref)
           asg2 == After(asg, ref)
           rs2(s) == RefsAfter(refs[s], asg, ref)
           more == (IF IsRead(ref) THEN <<Op(ref, "r")>> ELSE <<>>)
                   \o (IF ref.form = "incDec" THEN <<Op(ref, "w")>> ELSE <<>>)
<1>1. asg \in Seq(Assignment) /\ top.cur \subseteq Segs /\ Assignments = asg
  BY TopFacts
<1>n. nref \in Nat /\ refs \in [Segs -> Seq(Reference)] /\ trace \in [Segs -> Seq(Operation)]
  BY DEF WalkInvariant, WalkType
<1>r. ref \in Reference /\ ref.id = nref + 1
  BY <1>n DEF References, Reference
<1>2. /\ phase = "walk" /\ phase' = "walk" /\ cfg' = cfg /\ nref' = nref + 1 /\ MayOccur(ref)
      /\ destructuringStack' # <<>> => destructuringStack # <<>>
  BY DEF CheckIdentifierUsage
<1>3. ProcessReferences(asg1, <<ref>>) /\ Perform(more)
  BY <1>1 DEF CheckIdentifierUsage, Noted, IsTarget
<1>4. left \in BOOLEAN /\ (left <=> asg # <<>> /\ Last(asg).side = "lhs")
  BY DEF LeftSide
<1>5. \/ ~left /\ ref.form = "plain" /\ ref.k = "r"
      \/ ~left /\ ref.form = "incDec" /\ ref.k = "rw" /\ MayWriteInside
      \/ left /\ destructuringStack # <<>> /\ ref.form = "plain" /\ ref.k = "w"
      \/ left /\ destructuringStack = <<>> /\ Last(asg).lhs = <<>> /\ ref.form # "incDec"
  BY <1>1, <1>2 DEF MayOccur, OnLeftSide, LeftSide
<1>6. target \in BOOLEAN /\ (target => left) /\ (left => (target <=> IsWrite(ref)))
  BY <1>5 DEF IsWrite, IsTarget
<1>7. destructuringStack # <<>> => left /\ \A r \in ToSet(Last(asg).lhs) : ~IsRead(r)
  BY <1>4 DEF WalkInvariant, Contexts
<1>8. left /\ Last(asg).lhs # <<>> => target /\ ~IsRead(ref) /\ \A r \in ToSet(Last(asg).lhs) : ~IsRead(r)
  BY <1>5, <1>7 DEF IsRead, IsWrite, IsTarget
<1>g. MayGet(asg, ref)
  BY <1>4, <1>5, <1>6, <1>8 DEF MayGet
<1>9. (\E o \in ToSet(more) : o.k = "w") => ~left /\ MayWriteInside
  <2>1. (\E o \in ToSet(more) : o.k = "w") => ref.form = "incDec"
    BY <1>r, <1>4, <1>5, IdentOperations
  <2> QED
    BY <1>5, <2>1
<1>10. /\ more \in Seq(Operation) /\ ReadsBeforeItWrites(more)
       /\ ToSet(more) = {o \in Operations(ref) : ~left \/ o.k = "r"}
  BY <1>r, <1>4, <1>5, IdentOperations
<1>p. Performs(more, ref, Place(asg), D)
  <2>1. D \in Nat
    BY <1>1
  <2>2. Place(asg) = D <=> ~left
    <3>1. Place(asg) = IF left THEN D + 1 ELSE D
      BY DEF Place
    <3> HIDE DEF D, left
    <3> QED
      BY <2>1, <3>1, <1>4
  <2> QED
    BY <1>10, <2>2 DEF Performs
<1>u. (\E o \in ToSet(more) : o.k = "w") => MayWriteInside /\ asg = Assignments
  BY <1>1, <1>9
<1>b. left \in BOOLEAN /\ target \in BOOLEAN
  BY <1>4, <1>6
<1>l. left = LeftSide(asg)
  OBVIOUS
<1> HIDE DEF left, target, more, asg
<1>11. ASSUME NEW s \in top.cur
       PROVE  /\ asg2 \in Seq(Assignment) /\ rs2(s) \in Seq(Reference)
              /\ asg # <<>> => asg1 # <<>> /\ asg2 # <<>>
              /\ left => asg2 # <<>> /\ Last(asg2).side = "lhs" /\ Last(asg2).lhs = Last(asg).lhs \o <<ref>>
              /\ Evaluated(trace[s] \o more, rs2(s), asg2) /\ RefsOf(rs2(s), asg2) = RefsOf(refs[s], asg) \cup {ref}
  <2>1. /\ trace[s] \in Seq(Operation) /\ refs[s] \in Seq(Reference) /\ Evaluated(trace[s], refs[s], asg)
        /\ UpTo(refs[s], asg, nref)
    BY CurrentFacts DEF asg, UpTo
  <2>2. Targets(asg)
    BY <2>1 DEF Evaluated
  <2> HIDE DEF asg1, asg2, rs2
  <2>3. /\ asg2 \in Seq(Assignment) /\ rs2(s) \in Seq(Reference) /\ Place(asg) \in Lists(asg) /\ Targets(asg2)
        /\ Inserted(refs[s], asg, rs2(s), asg2, Place(asg), ref)
        /\ asg # <<>> => asg1 # <<>> /\ asg2 # <<>>
        /\ left => Last(asg2).side = "lhs" /\ Last(asg2).lhs = Last(asg).lhs \o <<ref>>
    BY <1>1, <1>r, <1>b, <1>g, <2>1, <2>2, <1>l, IdentLists DEF asg1, asg2, rs2
  <2>4. Evaluated(trace[s] \o more, rs2(s), asg2) /\ RefsOf(rs2(s), asg2) = RefsOf(refs[s], asg) \cup {ref}
    <3>1. Occurrence(trace[s], more, refs[s], rs2(s), asg, asg2, nref, ref)
      BY <1>1, <1>n, <1>r, <1>10, <1>p, <1>u, <2>1, <2>3 DEF Occurrence
    <3> QED
      BY <3>1, IdentKeeps
  <2> QED
    BY <1>4, <2>3, <2>4
<1>12. PICK s0 \in top.cur : TRUE
  BY TopFacts
<1>13. SetTop([top EXCEPT !.asg = asg2])
  <2>1. CASE asg # <<>>
    BY <1>3, <1>11, <1>12, <2>1 DEF ProcessReferences, After
  <2>2. CASE asg = <<>>
    <3>1. asg1 = <<>> /\ asg2 = <<>>
      BY <2>2, <1>4, <1>6 DEF Noted, After, target
    <3> QED
      BY <1>3, <3>1 DEF ProcessReferences
  <2> QED
    BY <2>1, <2>2
<1>14. refs' = [s \in Segs |-> IF s \in top.cur THEN rs2(s) ELSE refs[s]]
  <2>1. CASE asg # <<>>
    <3>1. refs' = refs
      BY <1>3, <1>11, <1>12, <2>1 DEF ProcessReferences, After
    <3> QED
      BY <1>n, <2>1, <3>1 DEF RefsAfter
  <2>2. CASE asg = <<>>
    <3>1. asg1 = <<>>
      BY <2>2, <1>4, <1>6 DEF Noted, After, target
    <3> QED
      BY <1>3, <2>2, <3>1 DEF ProcessReferences, RefsAfter
  <2> QED
    BY <2>1, <2>2
<1>15. trace' = [s \in Segs |-> IF s \in top.cur THEN trace[s] \o more ELSE trace[s]]
  BY <1>3 DEF Perform
<1> HIDE DEF asg2, rs2
<1>16. asg2 \in Seq(Assignment)
  BY <1>11, <1>12
<1>17. refs' \in [Segs -> Seq(Reference)] /\ trace' \in [Segs -> Seq(Operation)]
  <2>1. \A s \in Segs : (IF s \in top.cur THEN rs2(s) ELSE refs[s]) \in Seq(Reference)
    BY <1>n, <1>11
  <2>2. \A s \in Segs : (IF s \in top.cur THEN trace[s] \o more ELSE trace[s]) \in Seq(Operation)
    <3>1. \A s \in Segs : trace[s] \in Seq(Operation) /\ trace[s] \o more \in Seq(Operation)
      BY <1>n, <1>10
    <3> QED
      BY <3>1
  <2> QED
    BY <1>14, <1>15, <2>1, <2>2
<1>18. \A s \in Segs : /\ s \in top.cur => refs'[s] = rs2(s) /\ trace'[s] = trace[s] \o more
                       /\ s \notin top.cur => refs'[s] = refs[s] /\ trace'[s] = trace[s]
  BY <1>14, <1>15
<1>19. \A s \in top.cur : /\ Evaluated(trace'[s], refs'[s], asg2) /\ RefsOf(refs'[s], asg2) = RefsOf(refs[s], asg) \cup {ref}
                          /\ \A r \in RefsOf(refs'[s], asg2) : r.id <= nref'
  <2> SUFFICES ASSUME NEW s \in top.cur
               PROVE  /\ Evaluated(trace'[s], refs'[s], asg2) /\ RefsOf(refs'[s], asg2) = RefsOf(refs[s], asg) \cup {ref}
                      /\ \A r \in RefsOf(refs'[s], asg2) : r.id <= nref'
    OBVIOUS
  <2>1. refs[s] \in Seq(Reference) /\ \A r \in RefsOf(refs[s], asg) : r.id <= nref
    BY CurrentFacts DEF asg
  <2>2. refs'[s] = rs2(s) /\ trace'[s] = trace[s] \o more
    BY <1>1, <1>18
  <2>3. \A r \in RefsOf(refs[s], asg) : r \in Reference /\ r.id \in Nat
    BY <1>1, <2>1, RefsAreReferences DEF Reference
  <2>4. \A r \in RefsOf(refs[s], asg) \cup {ref} : r.id <= nref + 1
    BY <1>n, <1>r, <2>1, <2>3
  <2> QED
    BY <1>2, <1>11, <2>2, <2>4
<1>20. destructuringStack' # <<>> => asg2 # <<>> /\ Last(asg2).side = "lhs" /\ \A r \in ToSet(Last(asg2).lhs) : ~IsRead(r)
  <2> SUFFICES ASSUME destructuringStack # <<>>
               PROVE  asg2 # <<>> /\ Last(asg2).side = "lhs" /\ \A r \in ToSet(Last(asg2).lhs) : ~IsRead(r)
    BY <1>2
  <2> DEFINE lhs == Last(asg).lhs
             one == <<ref>>
  <2>1. left /\ (\A r \in ToSet(lhs) : ~IsRead(r)) /\ ~IsRead(ref)
    BY <1>5, <1>7 DEF IsRead
  <2>2. asg2 # <<>> /\ Last(asg2).side = "lhs" /\ Last(asg2).lhs = lhs \o one
    BY <1>11, <1>12, <2>1
  <2>3. lhs \in Seq(Reference) /\ one \in Seq(Reference) /\ ToSet(one) = {ref}
    <3>1. asg # <<>>
      BY <1>4, <2>1
    <3>2. Last(asg) \in Assignment
      BY <1>1, <3>1, FrontIndex
    <3> QED
      BY <1>r, <3>2 DEF Assignment, ToSet
  <2> HIDE DEF lhs, one
  <2>4. ToSet(lhs \o one) = ToSet(lhs) \cup ToSet(one)
    BY <2>3, ConcatElements
  <2> QED
    BY <2>1, <2>2, <2>3, <2>4
<1>21. WalkInvariant' /\ \A s \in Segs : Open(s)' = IF s \in top.cur THEN asg2 ELSE Open(s)
  <2>1. nref' \in Nat /\ nref <= nref'
    BY <1>2, <1>n
  <2>2. \A s \in Segs \ top.cur : refs'[s] = refs[s] /\ trace'[s] = trace[s]
    BY <1>18
  <2> QED
    BY <1>2, <1>13, <1>16, <1>17, <1>19, <1>20, <2>1, <2>2, TopStep
<1>22. ASSUME NEW s \in Segs PROVE RefsAt(s)' = IF s \in top.cur THEN RefsAt(s) \cup {ref} ELSE RefsAt(s)
  <2>1. RefsAt(s)' = RefsOf(refs'[s], Open(s)')
    BY DEF RefsAt, RefsOf, List, Lists
  <2>2. CASE s \in top.cur
    <3>1. RefsAt(s) = RefsOf(refs[s], asg)
      BY <2>2, CurrentFacts DEF asg
    <3> QED
      BY <2>1, <2>2, <3>1, <1>19, <1>21
  <2>3. CASE s \notin top.cur
    BY <2>1, <2>3, <1>18, <1>21 DEF RefsAt
  <2> QED
    BY <2>2, <2>3
<1> QED
  BY <1>r, <1>21, <1>22

\* A sequence extended by n times the same element.
LEMMA ExtendFacts ==
  ASSUME NEW S, NEW q \in Seq(S), NEW n \in Nat, NEW e \in S
  PROVE  LET b == q \o [i \in 1..n |-> e]
         IN /\ b \in Seq(S) /\ Len(b) = Len(q) + n /\ Len(q) \in Nat
            /\ \A i \in 1..Len(q) : b[i] = q[i]
            /\ \A i \in 1..(Len(q) + n) : i > Len(q) => b[i] = e
<1> DEFINE p == [i \in 1..n |-> e]
<1>1. p \in Seq(S) /\ Len(p) = n /\ \A i \in 1..n : p[i] = e
  OBVIOUS
<1> HIDE DEF p
<1>2. /\ q \o p \in Seq(S) /\ Len(q \o p) = Len(q) + Len(p) /\ Len(q) \in Nat
      /\ \A i \in 1..Len(q) : (q \o p)[i] = q[i]
      /\ \A i \in 1..(Len(q) + Len(p)) : i > Len(q) => i - Len(q) \in 1..Len(p) /\ (q \o p)[i] = p[i - Len(q)]
  BY <1>1, ConcatElements
<1>3. \A i \in 1..(Len(q) + n) : i > Len(q) => (q \o p)[i] = e
  BY <1>1, <1>2
<1> QED
  BY <1>1, <1>2, <1>3 DEF p

LEMMA StartFacts ==
  ASSUME WalkInvariant, NEW n \in {1, 2}, NEW id \in {1, 2}, NEW edges, StartSegments(n, id, edges)
  PROVE  /\ Len(cfg.path) \in Nat /\ Len(cfg'.path) = Len(cfg.path) + n /\ cfg'.path \in Seq({1, 2})
         /\ Segs' = 1..(Len(cfg.path) + n) /\ Segs \subseteq Segs'
         /\ refs' \in [Segs' -> Seq(Reference)] /\ trace' \in [Segs' -> Seq(Operation)]
         /\ \A s \in Segs : cfg'.path[s] = cfg.path[s] /\ refs'[s] = refs[s] /\ trace'[s] = trace[s]
         /\ \A s \in Segs' \ Segs : cfg'.path[s] = id /\ refs'[s] = <<>> /\ trace'[s] = <<>>
<1> DEFINE N == Len(cfg.path)
<1>1. cfg.path \in Seq({1, 2}) /\ N \in Nat /\ Segs = 1..N
  BY DEF WalkInvariant, WalkType, Segs
<1> DEFINE R == Seq(Reference)
           O == Seq(Operation)
           nil == <<>>
<1>f. refs \in [1..N -> R] /\ trace \in [1..N -> O]
  BY <1>1 DEF WalkInvariant, WalkType
<1>4. n \in Nat /\ nil \in R /\ nil \in O
  OBVIOUS
<1>3. /\ cfg'.path = cfg.path \o [i \in 1..n |-> id] /\ refs' = refs \o [i \in 1..n |-> nil]
      /\ trace' = trace \o [i \in 1..n |-> nil]
  BY DEF StartSegments
<1>e. Len(cfg.path) = N
  OBVIOUS
<1> HIDE DEF N, R, O, nil
<1>2. refs \in Seq(R) /\ Len(refs) = N /\ trace \in Seq(O) /\ Len(trace) = N
  BY <1>1, <1>f
<1>5. /\ cfg'.path \in Seq({1, 2}) /\ Len(cfg'.path) = N + n /\ \A i \in 1..N : cfg'.path[i] = cfg.path[i]
      /\ \A i \in 1..(N + n) : i > N => cfg'.path[i] = id
  <2> DEFINE I == {1, 2}
             p == cfg.path
             q == cfg'.path
  <2>1. p \in Seq(I) /\ id \in I /\ q = p \o [i \in 1..n |-> id] /\ Len(p) = N
    BY <1>1, <1>3, <1>e
  <2> HIDE DEF I, p, q
  <2>2. /\ q \in Seq(I) /\ Len(q) = N + n /\ \A i \in 1..N : q[i] = p[i]
        /\ \A i \in 1..(N + n) : i > N => q[i] = id
    BY <1>4, <2>1, ExtendFacts
  <2> QED
    BY <2>2 DEF I, p, q
<1>6. /\ refs' \in Seq(R) /\ Len(refs') = N + n /\ \A i \in 1..N : refs'[i] = refs[i]
      /\ \A i \in 1..(N + n) : i > N => refs'[i] = nil
  BY <1>2, <1>3, <1>4, ExtendFacts
<1>7. /\ trace' \in Seq(O) /\ Len(trace') = N + n /\ \A i \in 1..N : trace'[i] = trace[i]
      /\ \A i \in 1..(N + n) : i > N => trace'[i] = nil
  BY <1>2, <1>3, <1>4, ExtendFacts
<1>8. Segs' = 1..(N + n)
  BY <1>5 DEF Segs
<1>9. /\ Segs \subseteq Segs' /\ \A s \in Segs' \ Segs : s \in 1..(N + n) /\ s > N
  BY <1>1, <1>4, <1>8
<1>10. refs' \in [Segs' -> R] /\ trace' \in [Segs' -> O]
  BY <1>6, <1>7, <1>8
<1> QED
  BY <1>1, <1>5, <1>6, <1>7, <1>8, <1>9, <1>10 DEF N, R, O, nil

\* Nothing has happened yet in a segment that is started.
LEMMA NothingYet == Evaluated(<<>>, <<>>, <<>>) /\ RefsOf(<<>>, <<>>) = {}
<1>1. Lists(<<>>) = {0}
  BY DEF Lists
<1>2. List(<<>>, <<>>, 0) = <<>>
  BY DEF List
<1>3. ToSet(<<>>) = {} /\ DOMAIN <<>> = {}
  BY DEF ToSet
<1>4. ListsInOrder(<<>>, <<>>, <<>>)
  BY <1>1, <1>2, <1>3 DEF ListsInOrder, ReadsBeforeItWrites, Ordered, Before
<1>5. ListsAreComplete(<<>>, <<>>, <<>>)
  BY <1>1, <1>2, <1>3 DEF ListsAreComplete
<1>6. Targets(<<>>)
  BY <1>3 DEF Targets
<1> QED
  BY <1>1, <1>2, <1>3, <1>4, <1>5, <1>6 DEF Evaluated, RefsOf

\* A step that starts segments and leaves open what was open.
LEMMA GrowStep ==
  ASSUME WalkInvariant, NEW n \in {1, 2}, NEW id \in {1, 2}, NEW edges, StartSegments(n, id, edges),
         phase' = "walk", nref' = nref, Contexts', codePathStack' \in Seq(Context), codePathStack' # <<>>,
         \A s \in Segs : Open(s)' = Open(s),
         \A s \in Segs' \ Segs : Open(s)' = <<>>
  PROVE  /\ WalkInvariant' /\ Segs \subseteq Segs' /\ \A s \in Segs : cfg'.path[s] = cfg.path[s]
         /\ \A s \in Segs' : RefsAt(s)' = IF s \in Segs THEN RefsAt(s) ELSE {}
<1>1. /\ cfg'.path \in Seq({1, 2}) /\ Segs \subseteq Segs'
      /\ refs' \in [Segs' -> Seq(Reference)] /\ trace' \in [Segs' -> Seq(Operation)]
      /\ \A s \in Segs : cfg'.path[s] = cfg.path[s] /\ refs'[s] = refs[s] /\ trace'[s] = trace[s]
      /\ \A s \in Segs' \ Segs : refs'[s] = <<>> /\ trace'[s] = <<>>
  BY StartFacts
<1>2. WalkType'
  BY <1>1 DEF WalkInvariant, WalkType
<1>3. ASSUME NEW s \in Segs'
      PROVE  /\ Evaluated(trace'[s], refs'[s], Open(s)')
             /\ RefsOf(refs'[s], Open(s)') = IF s \in Segs THEN RefsAt(s) ELSE {}
             /\ \A r \in RefsOf(refs'[s], Open(s)') : r.id <= nref
  <2>1. CASE s \in Segs
    <3>1. refs'[s] = refs[s] /\ trace'[s] = trace[s] /\ Open(s)' = Open(s)
      BY <1>1, <2>1
    <3>2. Evaluated(trace[s], refs[s], Open(s)) /\ \A r \in RefsAt(s) : r.id <= nref
      BY <2>1 DEF WalkInvariant
    <3> QED
      BY <2>1, <3>1, <3>2 DEF RefsAt
  <2>2. CASE s \notin Segs
    <3>1. refs'[s] = <<>> /\ trace'[s] = <<>> /\ Open(s)' = <<>>
      BY <1>1, <2>2
    <3> QED
      BY <2>2, <3>1, NothingYet
  <2> QED
    BY <2>1, <2>2
<1>4. \A s \in Segs' : RefsAt(s)' = RefsOf(refs'[s], Open(s)')
  BY DEF RefsAt, RefsOf, List, Lists
<1>5. \A s \in Segs' : Evaluated(trace[s], refs[s], Open(s))'
  BY <1>3 DEF Evaluated, ListsInOrder, ListsAreComplete, Targets, ReadsBeforeItWrites, Ordered, Before, InOrder,
     List, Lists, Operations, Op, IsRead, IsWrite
<1> QED
  BY <1>1, <1>2, <1>3, <1>4, <1>5 DEF WalkInvariant

\* The innermost code path goes on in segments that are started, outside assignments.
LEMMA BlockStep ==
  ASSUME WalkInvariant, NEW n \in {1, 2}, NEW edges, NEW cur \in SUBSET Nat, NEW ctl \in Seq(Block),
         StartSegments(n, top.id, edges), SetTop([top EXCEPT !.cur = cur, !.ctl = ctl]),
         cur # {}, cur \subseteq NewSeg..(Len(cfg.path) + n), top.asg = <<>>, \A b \in ToSet(ctl) : b.depth = 0,
         phase' = "walk", nref' = nref, destructuringStack' = <<>>
  PROVE  /\ WalkInvariant' /\ Segs \subseteq Segs' /\ \A s \in Segs : cfg'.path[s] = cfg.path[s]
         /\ \A s \in Segs' : RefsAt(s)' = IF s \in Segs THEN RefsAt(s) ELSE {}
<1> DEFINE m == Len(codePathStack)
           ctx == [top EXCEPT !.cur = cur, !.ctl = ctl]
<1>1. /\ m \in Nat \ {0} /\ DOMAIN codePathStack = 1..m /\ codePathStack[m] = top /\ top.id = m /\ top \in Context
      /\ top.cur # {} /\ \A s \in top.cur : s \in Segs /\ cfg.path[s] = m
  BY TopFacts
<1>2. codePathStack \in Seq(Context) /\ codePathStack # <<>>
  BY DEF WalkInvariant, WalkType
<1>3. m \in {1, 2} /\ top.id \in {1, 2}
  <2>1. PICK s \in top.cur : TRUE
    BY <1>1
  <2>2. s \in 1..Len(cfg.path) /\ cfg.path \in Seq({1, 2})
    BY <1>1, <2>1 DEF WalkInvariant, WalkType, Segs
  <2>3. cfg.path[s] \in {1, 2}
    BY <2>2
  <2> QED
    BY <1>1, <2>3
<1>c. ctx \in Context /\ ctx.id = top.id /\ ctx.cur = cur /\ ctx.ctl = ctl /\ ctx.asg = <<>>
  BY <1>1 DEF Context
<1>s. SetTop(ctx)
  OBVIOUS
<1> HIDE DEF ctx
<1>4. /\ codePathStack' \in Seq(Context) /\ codePathStack' # <<>> /\ Len(codePathStack') = m
      /\ DOMAIN codePathStack' = 1..m /\ Last(codePathStack') = ctx /\ codePathStack'[m] = ctx
      /\ \A i \in 1..(m - 1) : codePathStack'[i] = codePathStack[i]
  BY <1>1, <1>2, <1>c, <1>s, StackFacts
<1>5. /\ Len(cfg.path) \in Nat /\ Segs' = 1..(Len(cfg.path) + n) /\ Segs \subseteq Segs'
      /\ \A s \in Segs : cfg'.path[s] = cfg.path[s]
      /\ \A s \in Segs' \ Segs : cfg'.path[s] = top.id
  BY <1>3, StartFacts
<1>6. \A s \in cur : s \in Segs' /\ s \notin Segs /\ cfg'.path[s] = m
  <2>1. \A s \in cur : s \in Segs' /\ s \notin Segs
    <3>1. cur \subseteq (Len(cfg.path) + 1)..(Len(cfg.path) + n) /\ Segs = 1..Len(cfg.path)
      BY DEF NewSeg, Segs
    <3> QED
      BY <1>5, <3>1
  <2> QED
    BY <1>1, <1>5, <2>1
<1>7. \A i \in 1..m : i = m \/ i \in 1..(m - 1)
  <2>1. m \in Nat
    BY <1>1
  <2> HIDE DEF m
  <2> QED
    BY <2>1
<1>8. Contexts'
  <2>1. ASSUME NEW i \in 1..m
        PROVE  /\ codePathStack'[i].id = i /\ codePathStack'[i].cur # {}
               /\ \A s \in codePathStack'[i].cur : s \in Segs' /\ cfg'.path[s] = i
               /\ \A b \in ToSet(codePathStack'[i].ctl) : b.depth = 0
    <3>1. CASE i = m
      <4>1. codePathStack'[i] = ctx
        BY <1>4, <3>1
      <4>2. ctx.id = m /\ ctx.cur = cur /\ ctx.ctl = ctl
        BY <1>1, <1>c
      <4> QED
        BY <1>6, <3>1, <4>1, <4>2
    <3>2. CASE i # m
      <4>1. codePathStack'[i] = codePathStack[i]
        BY <1>4, <1>7, <3>2
      <4>2. /\ codePathStack[i].id = i /\ codePathStack[i].cur # {}
            /\ \A s \in codePathStack[i].cur : s \in Segs /\ cfg.path[s] = i
            /\ \A b \in ToSet(codePathStack[i].ctl) : b.depth = 0
        BY <1>1 DEF WalkInvariant, Contexts
      <4> QED
        BY <1>5, <4>1, <4>2
    <3> QED
      BY <3>1, <3>2
  <2> QED
    BY <1>4, <2>1 DEF Contexts
<1>9. ASSUME NEW s \in Segs PROVE Open(s)' = Open(s)
  <2> DEFINE i == cfg.path[s]
  <2>1. cfg'.path[s] = i
    BY <1>5
  <2>2. CASE i = m
    <3>1. Open(s) = <<>>
      BY <1>1, <2>2 DEF Open
    <3>2. s \notin codePathStack'[m].cur
      BY <1>4, <1>6, <1>c
    <3> QED
      BY <2>1, <2>2, <3>1, <3>2 DEF Open
  <2>3. CASE i # m
    <3>1. i \in 1..m => codePathStack'[i] = codePathStack[i]
      BY <1>4, <1>7, <2>3
    <3> QED
      BY <1>1, <1>4, <2>1, <3>1 DEF Open
  <2> QED
    BY <2>2, <2>3
<1>10. ASSUME NEW s \in Segs' \ Segs PROVE Open(s)' = <<>>
  <2>1. cfg'.path[s] = m
    BY <1>1, <1>5
  <2> QED
    BY <1>4, <1>c, <2>1 DEF Open
<1> QED
  BY <1>3, <1>4, <1>8, <1>9, <1>10, GrowStep

LEMMA OpenStep ==
  ASSUME WalkInvariant, "nested" \notin Features,
         NEW kind \in {"branch", "loop", "finally"}, NEW n \in {1, 2}, NEW edges, NEW cur \in SUBSET Nat,
         cur # {}, cur \subseteq NewSeg..(Len(cfg.path) + n), OpenBlock(kind, n, edges, cur)
  PROVE  /\ WalkInvariant' /\ Segs \subseteq Segs' /\ \A s \in Segs : cfg'.path[s] = cfg.path[s]
         /\ \A s \in Segs' : RefsAt(s)' = IF s \in Segs THEN RefsAt(s) ELSE {}
<1> DEFINE b == [kind |-> kind, from |-> top.cur, head |-> NewSeg, depth |-> 0]
           ctl == Append(top.ctl, b)
<1>1. top \in Context /\ top.cur \subseteq Segs /\ (\A c \in ToSet(top.ctl) : c.depth = 0) /\ Assignments = top.asg
  BY TopFacts
<1>2. phase = "walk" /\ destructuringStack = <<>> /\ top.asg = <<>>
  BY <1>1 DEF OpenBlock, MayBranch
<1>3. phase' = "walk" /\ nref' = nref /\ destructuringStack' = <<>> /\ StartSegments(n, top.id, edges)
  BY <1>2 DEF OpenBlock
<1>4. SetTop([top EXCEPT !.cur = cur, !.ctl = ctl])
  <2>1. Len(Assignments) = 0
    BY <1>1, <1>2
  <2> QED
    BY <1>1, <2>1 DEF OpenBlock, Context
<1>5. b \in Block
  <2>1. Len(cfg.path) \in Nat
    BY DEF WalkInvariant, WalkType
  <2>2. NewSeg \in Nat /\ top.cur \in SUBSET Nat
    BY <1>1, <2>1 DEF NewSeg, Context
  <2> QED
    BY <2>2 DEF Block
<1>6. b.depth = 0
  OBVIOUS
<1> HIDE DEF b
<1>7. ctl \in Seq(Block) /\ ToSet(ctl) = ToSet(top.ctl) \cup {b}
  <2>1. top.ctl \in Seq(Block)
    BY <1>1 DEF Context
  <2> DEFINE q == top.ctl
  <2>2. q \in Seq(Block)
    BY <2>1
  <2> HIDE DEF q
  <2>3. Append(q, b) \in Seq(Block) /\ ToSet(Append(q, b)) = ToSet(q) \cup {b}
    <3>1. /\ Len(q) \in Nat /\ DOMAIN q = 1..Len(q) /\ Append(q, b) \in Seq(Block)
          /\ DOMAIN Append(q, b) = 1..(Len(q) + 1)
          /\ Append(q, b)[Len(q) + 1] = b /\ \A i \in 1..Len(q) : Append(q, b)[i] = q[i]
      BY <1>5, <2>2, AppendFacts
    <3>2. \A i \in 1..(Len(q) + 1) : i = Len(q) + 1 \/ i \in 1..Len(q)
      BY <3>1
    <3>3. 1..Len(q) \subseteq 1..(Len(q) + 1) /\ Len(q) + 1 \in 1..(Len(q) + 1)
      BY <3>1
    <3> HIDE DEF ctl
    <3>4. \A x : x \in ToSet(Append(q, b)) <=> x \in ToSet(q) \/ x = b
      BY <3>1, <3>2, <3>3 DEF ToSet
    <3> QED
      BY <3>1, <3>4
  <2> QED
    BY <2>3 DEF q
<1> HIDE DEF ctl
<1>8. \A c \in ToSet(ctl) : c.depth = 0
  BY <1>1, <1>6, <1>7
<1> QED
  BY <1>2, <1>3, <1>4, <1>7, <1>8, BlockStep

LEMMA BranchStep ==
  ASSUME WalkInvariant, "nested" \notin Features, BeginBranch \/ BeginLoop \/ BeginFinally \/ EndBlock
  PROVE  /\ WalkInvariant' /\ Segs \subseteq Segs' /\ \A s \in Segs : cfg'.path[s] = cfg.path[s]
         /\ \A s \in Segs' : RefsAt(s)' = IF s \in Segs THEN RefsAt(s) ELSE {}
<1> DEFINE N == Len(cfg.path)
<1>1. N \in Nat /\ NewSeg = N + 1
  BY DEF WalkInvariant, WalkType, NewSeg
<1>2. /\ {NewSeg} \subseteq NewSeg..(N + 1) /\ {NewSeg} # {} /\ {NewSeg} \in SUBSET Nat
      /\ {NewSeg, NewSeg + 1} \subseteq NewSeg..(N + 2) /\ {NewSeg, NewSeg + 1} # {} /\ {NewSeg, NewSeg + 1} \in SUBSET Nat
  <2> HIDE DEF N
  <2> QED
    BY <1>1
<1>3. CASE BeginBranch
  <2>1. OpenBlock("branch", 1, From(top.cur, NewSeg), {NewSeg})
    BY <1>3 DEF BeginBranch
  <2> QED
    BY <1>2, <2>1, OpenStep
<1>4. CASE BeginLoop
  <2>1. OpenBlock("loop", 1, From(top.cur, NewSeg), {NewSeg})
    BY <1>4 DEF BeginLoop
  <2> QED
    BY <1>2, <2>1, OpenStep
<1>5. CASE BeginFinally
  <2>1. OpenBlock("finally", 2, From(top.cur, NewSeg) \cup From(top.cur, NewSeg + 1), {NewSeg, NewSeg + 1})
    BY <1>5 DEF BeginFinally
  <2> QED
    BY <1>2, <2>1, OpenStep
<1>6. CASE EndBlock
  <2> DEFINE b == Last(top.ctl)
             ctl == Front(top.ctl)
  <2>1. /\ top \in Context /\ (\A c \in ToSet(top.ctl) : c.depth = 0)
        /\ Assignments = top.asg /\ Assignments \in Seq(Assignment)
    BY TopFacts
  <2>2. top.ctl # <<>> /\ destructuringStack = <<>> /\ b.depth = Len(Assignments) /\ phase = "walk"
    BY <1>6 DEF EndBlock
  <2>3. phase' = "walk" /\ nref' = nref /\ destructuringStack' = <<>>
    BY <1>6, <2>2 DEF EndBlock
  <2>4. PICK edges : StartSegments(1, top.id, edges)
    BY <1>6 DEF EndBlock
  <2>5. SetTop([top EXCEPT !.cur = {NewSeg}, !.ctl = ctl])
    BY <1>6, <2>1 DEF EndBlock, Context
  <2>6. /\ ctl \in Seq(Block) /\ b \in ToSet(top.ctl) /\ \A c \in ToSet(ctl) : c \in ToSet(top.ctl)
    <3> DEFINE q == top.ctl
    <3>1. q \in Seq(Block) /\ q # <<>>
      BY <2>1, <2>2 DEF Context
    <3> HIDE DEF q
    <3>2. /\ Len(q) \in Nat \ {0} /\ DOMAIN q = 1..Len(q) /\ Last(q) = q[Len(q)]
          /\ Front(q) \in Seq(Block) /\ DOMAIN Front(q) = 1..(Len(q) - 1)
          /\ \A i \in 1..(Len(q) - 1) : Front(q)[i] = q[i]
      BY <3>1, FrontIndex
    <3>3. Len(q) \in 1..Len(q) /\ 1..(Len(q) - 1) \subseteq 1..Len(q)
      BY <3>2
    <3>4. Last(q) \in ToSet(q) /\ \A c \in ToSet(Front(q)) : c \in ToSet(q)
      BY <3>2, <3>3 DEF ToSet
    <3> QED
      BY <3>2, <3>4 DEF q
  <2>7. top.asg = <<>>
    <3>1. Len(Assignments) = 0
      BY <2>1, <2>2, <2>6
    <3> QED
      BY <2>1, <3>1
  <2> HIDE DEF b, ctl
  <2>8. \A c \in ToSet(ctl) : c.depth = 0
    BY <2>1, <2>6
  <2> QED
    BY <1>2, <2>2, <2>3, <2>4, <2>5, <2>6, <2>7, <2>8, BlockStep
<1> QED
  BY <1>3, <1>4, <1>5, <1>6

LEMMA PathStartStep ==
  ASSUME WalkInvariant, OnCodePathStart
  PROVE  /\ WalkInvariant' /\ Segs \subseteq Segs' /\ \A s \in Segs : cfg'.path[s] = cfg.path[s]
         /\ \A s \in Segs' : RefsAt(s)' = IF s \in Segs THEN RefsAt(s) ELSE {}
<1> DEFINE ctx == NewContext(2, NewSeg)
<1>1. /\ phase' = "walk" /\ nref' = nref /\ destructuringStack' = <<>> /\ Len(codePathStack) = 1
      /\ StartSegments(1, 2, {}) /\ codePathStack' = Append(codePathStack, ctx)
  BY DEF OnCodePathStart
<1>2. /\ Len(cfg.path) \in Nat /\ Segs' = 1..(Len(cfg.path) + 1) /\ Segs \subseteq Segs'
      /\ \A s \in Segs : cfg'.path[s] = cfg.path[s]
      /\ \A s \in Segs' \ Segs : cfg'.path[s] = 2
  BY <1>1, StartFacts
<1>3. NewSeg \in Nat /\ NewSeg \in Segs' /\ NewSeg \notin Segs
  BY <1>2 DEF NewSeg, Segs
<1>c. ctx \in Context /\ ctx.id = 2 /\ ctx.cur = {NewSeg} /\ ctx.asg = <<>> /\ ToSet(ctx.ctl) = {}
  BY <1>3 DEF NewContext, Context, ToSet
<1> HIDE DEF ctx
<1>4. codePathStack \in Seq(Context) /\ codePathStack # <<>> /\ DOMAIN codePathStack = {1}
  BY <1>1 DEF WalkInvariant, WalkType
<1>5. /\ codePathStack' \in Seq(Context) /\ codePathStack' # <<>> /\ DOMAIN codePathStack' = {1, 2}
      /\ codePathStack'[1] = codePathStack[1] /\ codePathStack'[2] = ctx
  <2> DEFINE q == codePathStack
             p == codePathStack'
  <2>1. q \in Seq(Context) /\ Len(q) = 1 /\ p = Append(q, ctx)
    BY <1>1, <1>4
  <2> HIDE DEF p, q
  <2>2. /\ Append(q, ctx) \in Seq(Context) /\ Len(Append(q, ctx)) = Len(q) + 1
        /\ DOMAIN Append(q, ctx) = 1..(Len(q) + 1)
        /\ Append(q, ctx)[Len(q) + 1] = ctx /\ \A i \in 1..Len(q) : Append(q, ctx)[i] = q[i]
    <3>1. ctx \in Context /\ q \in Seq(Context)
      BY <1>c, <2>1
    <3> QED
      BY <3>1, AppendFacts
  <2>3. p \in Seq(Context) /\ Len(p) = 2 /\ DOMAIN p = 1..2 /\ p[2] = ctx /\ p[1] = q[1]
    BY <2>1, <2>2
  <2>4. p # <<>> /\ 1..2 = {1, 2}
    BY <2>3
  <2> QED
    BY <2>3, <2>4 DEF p, q
<1>6. Contexts'
  <2>1. /\ codePathStack[1].id = 1 /\ codePathStack[1].cur # {}
        /\ \A s \in codePathStack[1].cur : s \in Segs /\ cfg.path[s] = 1
        /\ \A b \in ToSet(codePathStack[1].ctl) : b.depth = 0
    BY <1>4 DEF WalkInvariant, Contexts
  <2>2. /\ codePathStack'[1].id = 1 /\ codePathStack'[1].cur # {}
        /\ \A s \in codePathStack'[1].cur : s \in Segs' /\ cfg'.path[s] = 1
        /\ \A b \in ToSet(codePathStack'[1].ctl) : b.depth = 0
    BY <1>2, <1>5, <2>1
  <2>3. /\ codePathStack'[2].id = 2 /\ codePathStack'[2].cur # {}
        /\ \A s \in codePathStack'[2].cur : s \in Segs' /\ cfg'.path[s] = 2
        /\ \A b \in ToSet(codePathStack'[2].ctl) : b.depth = 0
    BY <1>2, <1>3, <1>5, <1>c
  <2> QED
    BY <1>1, <1>5, <2>2, <2>3 DEF Contexts
<1>7. ASSUME NEW s \in Segs PROVE Open(s)' = Open(s)
  <2>1. cfg'.path[s] = cfg.path[s] /\ s # NewSeg
    BY <1>2, <1>3
  <2> QED
    BY <1>4, <1>5, <1>c, <2>1 DEF Open
<1>8. ASSUME NEW s \in Segs' \ Segs PROVE Open(s)' = <<>>
  BY <1>2, <1>5, <1>c DEF Open
<1> QED
  BY <1>1, <1>5, <1>6, <1>7, <1>8, GrowStep

\* A step that leaves the segments and what is open in them alone.
LEMMA StillStep ==
  ASSUME WalkInvariant, UNCHANGED <<cfg, refs, trace, nref>>, phase' \in {"walk", "lva", "done"},
         codePathStack' \in Seq(Context), codePathStack' # <<>>, Contexts', \A s \in Segs : Open(s)' = Open(s)
  PROVE  WalkInvariant' /\ \A s \in Segs : RefsAt(s)' = RefsAt(s)
<1>1. Segs' = Segs
  BY DEF Segs
<1>2. WalkType'
  BY <1>1 DEF WalkInvariant, WalkType
<1>3. ASSUME NEW s \in Segs
      PROVE  /\ Evaluated(trace'[s], refs'[s], Open(s)') /\ RefsOf(refs'[s], Open(s)') = RefsAt(s)
             /\ \A r \in RefsOf(refs'[s], Open(s)') : r.id <= nref'
  BY DEF WalkInvariant, RefsAt
<1>4. \A s \in Segs : RefsAt(s)' = RefsOf(refs'[s], Open(s)')
  BY DEF RefsAt, RefsOf, List, Lists
<1>5. \A s \in Segs : Evaluated(trace[s], refs[s], Open(s))'
  BY <1>3 DEF Evaluated, ListsInOrder, ListsAreComplete, Targets, ReadsBeforeItWrites, Ordered, Before, InOrder,
     List, Lists, Operations, Op, IsRead, IsWrite
<1> QED
  BY <1>1, <1>2, <1>3, <1>4, <1>5 DEF WalkInvariant

LEMMA PathEndStep ==
  ASSUME WalkInvariant, OnCodePathEnd
  PROVE  WalkInvariant' /\ \A s \in Segs : RefsAt(s)' = RefsAt(s)
<1>1. /\ phase = "walk" /\ phase' = "walk" /\ UNCHANGED <<cfg, refs, trace, nref, destructuringStack>>
      /\ Len(codePathStack) = 2 /\ top.asg = <<>> /\ codePathStack' = Front(codePathStack) /\ Segs' = Segs
  BY DEF OnCodePathEnd, Segs
<1>2. codePathStack \in Seq(Context) /\ codePathStack # <<>>
  BY DEF WalkInvariant, WalkType
<1>3. /\ DOMAIN codePathStack = 1..2 /\ top = codePathStack[2]
      /\ codePathStack' \in Seq(Context) /\ Len(codePathStack') = 1 /\ DOMAIN codePathStack' = 1..1
      /\ codePathStack'[1] = codePathStack[1]
  <2> DEFINE q == codePathStack
  <2>1. q \in Seq(Context) /\ q # <<>> /\ Len(q) = 2
    BY <1>1, <1>2
  <2> HIDE DEF q
  <2>2. /\ DOMAIN q = 1..Len(q) /\ Last(q) = q[Len(q)]
        /\ Front(q) \in Seq(Context) /\ Len(Front(q)) = Len(q) - 1 /\ DOMAIN Front(q) = 1..(Len(q) - 1)
        /\ \A i \in 1..(Len(q) - 1) : Front(q)[i] = q[i]
    BY <2>1, FrontIndex
  <2>3. /\ DOMAIN q = 1..2 /\ Last(q) = q[2] /\ Front(q) \in Seq(Context) /\ Len(Front(q)) = 1
        /\ DOMAIN Front(q) = 1..1 /\ Front(q)[1] = q[1]
    BY <2>1, <2>2
  <2> QED
    BY <1>1, <2>3 DEF q, top
<1>4. codePathStack' # <<>>
  BY <1>3
<1>5. destructuringStack = <<>>
  BY <1>1 DEF WalkInvariant, Contexts
<1>6. Contexts'
  <2>1. /\ codePathStack[1].id = 1 /\ codePathStack[1].cur # {}
        /\ \A s \in codePathStack[1].cur : s \in Segs /\ cfg.path[s] = 1
        /\ \A b \in ToSet(codePathStack[1].ctl) : b.depth = 0
    BY <1>3 DEF WalkInvariant, Contexts
  <2> QED
    BY <1>1, <1>3, <1>5, <2>1 DEF Contexts
<1>7. ASSUME NEW s \in Segs PROVE Open(s)' = Open(s)
  <2>1. CASE cfg.path[s] = 2
    <3>1. Open(s) = <<>>
      BY <1>1, <1>3, <2>1 DEF Open
    <3>2. Open(s)' = <<>>
      BY <1>1, <1>3, <2>1 DEF Open
    <3> QED
      BY <3>1, <3>2
  <2>2. CASE cfg.path[s] # 2
    BY <1>1, <1>3, <2>2 DEF Open
  <2> QED
    BY <2>1, <2>2
<1> QED
  BY <1>1, <1>3, <1>4, <1>6, <1>7, StillStep

\* The other steps: what the rule keeps for its variables and patterns, and lva.
LEMMA OtherStep ==
  ASSUME WalkInvariant, UNCHANGED <<codePathStack, cfg, refs, trace, nref>>, phase' \in {"walk", "lva", "done"},
         phase' # "walk" => Len(codePathStack) = 1 /\ top.asg = <<>>,
         destructuringStack' # <<>> =>
           top.asg # <<>> /\ Last(top.asg).side = "lhs" /\ \A r \in ToSet(Last(top.asg).lhs) : ~IsRead(r)
  PROVE  WalkInvariant' /\ \A s \in Segs : RefsAt(s)' = RefsAt(s)
<1>1. codePathStack \in Seq(Context) /\ codePathStack # <<>> /\ Segs' = Segs /\ top' = top
  BY DEF WalkInvariant, WalkType, Segs, top
<1>2. Contexts'
  BY <1>1 DEF WalkInvariant, Contexts, IsRead
<1>3. \A s \in Segs : Open(s)' = Open(s)
  BY DEF Open
<1> QED
  BY <1>1, <1>2, <1>3, StillStep

-----------------------------------------------------------------------------
(* The walk and the start of lva *)

LEMMA SegsAreFinite ==
  ASSUME LvaType, NEW S \in SUBSET Segs
  PROVE  IsFiniteSet(S)
<1>1. Len(cfg.path) \in Nat
  BY DEF LvaType
<1>2. IsFiniteSet(Segs)
  BY <1>1, FS_Interval DEF Segs
<1> QED
  BY <1>2, FS_Subset

\* A step of the walk stays in it and starts no segment, one or two.
WalkStep ==
  /\ phase = "walk" /\ phase' = "walk"
  /\ cfg' = cfg \/ \E n \in {1, 2} : \E id, edges : StartSegments(n, id, edges)

LEMMA WalkKeepsInvariant == ASSUME LvaInvariant, WalkStep PROVE LvaInvariant'
<1>1. cfg'.path \in Seq(ToSet(cfg'.path))
  <2>1. CASE cfg' = cfg
    BY <2>1 DEF LvaInvariant, LvaType
  <2>2. ASSUME NEW n \in {1, 2}, NEW id, NEW edges, StartSegments(n, id, edges)
        PROVE  cfg'.path \in Seq(ToSet(cfg'.path))
    <3>1. cfg'.path = cfg.path \o [i \in 1..n |-> id]
      BY <2>2 DEF StartSegments
    <3>2. cfg.path \in Seq(ToSet(cfg.path))
      BY DEF LvaInvariant, LvaType
    <3>3. n \in Nat
      OBVIOUS
    <3>4. cfg.path \o [i \in 1..n |-> id] \in Seq(ToSet(cfg.path \o [i \in 1..n |-> id]))
      BY <3>2, <3>3, MoreSegments
    <3> QED
      BY <3>1, <3>4
  <2> QED
    BY <2>1, <2>2 DEF WalkStep
<1> QED
  BY <1>1 DEF WalkStep, LvaInvariant, LvaType, SolvedUnlessListed

LEMMA ExitKeepsInvariant == ASSUME LvaInvariant, ProgramExit PROVE LvaInvariant'
<1>1. /\ cfg' = cfg /\ refs' = refs /\ phase' = "lva" /\ Segs' = Segs
      /\ lva' = [worklist |-> [i \in Segs |-> i], in |-> [s \in Segs |-> {}], out |-> [s \in Segs |-> {}]]
  BY DEF ProgramExit, Segs
<1>2. Len(cfg.path) \in Nat
  BY DEF LvaInvariant, LvaType
<1>3. /\ lva'.worklist = [i \in Segs |-> i] /\ lva'.in = [s \in Segs |-> {}] /\ lva'.out = [s \in Segs |-> {}]
  BY <1>1
<1>4. lva'.worklist \in Seq(Segs) /\ ToSet(lva'.worklist) = Segs
  BY <1>2, <1>3 DEF Segs, ToSet
<1>5. LvaType'
  BY <1>1, <1>3, <1>4 DEF LvaType, LvaInvariant
<1>6. SolvedUnlessListed'
  BY <1>1, <1>3, <1>4 DEF SolvedUnlessListed
<1> QED
  BY <1>1, <1>5, <1>6 DEF LvaInvariant

-----------------------------------------------------------------------------
(* One turn of the loop *)

LEMMA PropagateKeepsInvariant == ASSUME LvaInvariant, Propagate PROVE LvaInvariant'
<1> DEFINE s == Last(lva.worklist)
           diff == OutOf(s) \ Kill(s)
<1>t. /\ phase = "lva" /\ lva.worklist # <<>> /\ lva.worklist \in Seq(Segs)
      /\ DOMAIN lva.in = Segs /\ DOMAIN lva.out = Segs /\ cfg.path \in Seq(ToSet(cfg.path))
  BY DEF LvaInvariant, LvaType, Propagate
<1>i. \A x \in Segs : /\ lva.in[x] \subseteq InOf(x)
                      /\ x \notin ToSet(lva.worklist) => lva.out[x] = OutOf(x) /\ InOf(x) \subseteq lva.in[x]
  BY <1>t DEF LvaInvariant, SolvedUnlessListed
<1>u. phase' = "lva" /\ cfg' = cfg /\ refs' = refs
  BY <1>t DEF Propagate
<1>c. /\ Segs' = Segs /\ \A x : NextSegs(x)' = NextSegs(x)
      /\ \A x : Gen(x)' = Gen(x) /\ Kill(x)' = Kill(x)
  BY <1>u DEF Segs, NextSegs, Gen, Kill
<1>s. s \in Segs /\ Front(lva.worklist) \in Seq(Segs)
      /\ \A x \in ToSet(lva.worklist) : x = s \/ x \in ToSet(Front(lva.worklist))
  BY <1>t, FrontFacts
<1>p. PICK prev \in SetToSeqs(PrevSegs(s)) :
        lva' = [worklist |-> Pop(lva.worklist) \o (IF Changed(s, diff) THEN prev ELSE <<>>),
                in |-> [lva.in EXCEPT ![s] = IF Changed(s, diff) THEN Gen(s) \cup diff ELSE @],
                out |-> [lva.out EXCEPT ![s] = OutOf(s)]]
  BY DEF Propagate, OutOf
<1>q. prev \in Seq(Segs) /\ ToSet(prev) = PrevSegs(s)
  <2>1. PrevSegs(s) \subseteq Segs
    BY DEF PrevSegs
  <2>2. IsFiniteSet(PrevSegs(s))
    BY <2>1, SegsAreFinite DEF LvaInvariant
  <2>3. prev \in Seq(PrevSegs(s)) /\ ToSet(prev) = PrevSegs(s)
    BY <2>2, ListingIsComplete
  <2> QED
    BY <2>1, <2>3
<1>l. /\ lva'.worklist = Front(lva.worklist) \o (IF Changed(s, diff) THEN prev ELSE <<>>)
      /\ lva'.in = [lva.in EXCEPT ![s] = IF Changed(s, diff) THEN Gen(s) \cup diff ELSE @]
      /\ lva'.out = [lva.out EXCEPT ![s] = OutOf(s)]
  BY <1>p DEF Pop
<1>w. /\ lva'.worklist \in Seq(Segs)
      /\ \A x \in ToSet(lva.worklist) : x = s \/ x \in ToSet(lva'.worklist)
      /\ Changed(s, diff) => PrevSegs(s) \subseteq ToSet(lva'.worklist)
  <2> DEFINE more == IF Changed(s, diff) THEN prev ELSE <<>>
  <2>1. more \in Seq(Segs)
    BY <1>q
  <2>2. /\ Front(lva.worklist) \o more \in Seq(Segs)
        /\ ToSet(Front(lva.worklist)) \subseteq ToSet(Front(lva.worklist) \o more)
        /\ ToSet(more) \subseteq ToSet(Front(lva.worklist) \o more)
    BY <1>s, <2>1, ConcatFacts
  <2>3. lva'.worklist = Front(lva.worklist) \o more
    BY <1>l
  <2>4. Changed(s, diff) => ToSet(more) = PrevSegs(s)
    BY <1>q
  <2> HIDE DEF more
  <2> QED
    BY <1>s, <2>2, <2>3, <2>4
<1>d. InOf(s) = Gen(s) \cup diff
  BY DEF InOf
<1>n. lva'.in[s] = InOf(s) /\ \A x \in Segs \ {s} : lva'.in[x] = lva.in[x]
  <2>1. ~Changed(s, diff) => lva.in[s] = InOf(s)
    <3>1. ~Changed(s, diff) => InOf(s) \subseteq lva.in[s]
      BY <1>d DEF Changed
    <3>2. lva.in[s] \subseteq InOf(s)
      BY <1>i, <1>s
    <3> QED
      BY <3>1, <3>2
  <2> QED
    BY <1>l, <1>t, <1>s, <1>d, <2>1
<1>m. /\ \A x \in Segs : lva.in[x] \subseteq lva'.in[x]
      /\ ~Changed(s, diff) => \A x \in Segs : lva'.in[x] = lva.in[x]
  <2>1. lva.in[s] \subseteq lva'.in[s]
    BY <1>n, <1>i, <1>s
  <2>2. ~Changed(s, diff) => lva'.in[s] = lva.in[s]
    BY <1>l, <1>t, <1>s
  <2> QED
    BY <1>n, <2>1, <2>2
<1>o. /\ \A x \in Segs : OutOf(x) \subseteq OutOf(x)'
      /\ \A x \in Segs : s \notin NextSegs(x) \/ ~Changed(s, diff) => OutOf(x)' = OutOf(x)
  <2>0. \A x : NextSegs(x) \subseteq Segs
    BY DEF NextSegs
  <2>1. \A x : OutOf(x)' = UNION {lva'.in[t] : t \in NextSegs(x)}
    BY <1>c DEF OutOf
  <2>2. ASSUME NEW x \in Segs PROVE OutOf(x) \subseteq OutOf(x)'
    <3>1. \A t \in NextSegs(x) : lva.in[t] \subseteq lva'.in[t]
      BY <2>0, <1>m
    <3> QED
      BY <2>1, <3>1 DEF OutOf
  <2>3. ASSUME NEW x \in Segs, s \notin NextSegs(x) \/ ~Changed(s, diff) PROVE OutOf(x)' = OutOf(x)
    <3>1. \A t \in NextSegs(x) : lva'.in[t] = lva.in[t]
      BY <2>0, <2>3, <1>m, <1>n
    <3> QED
      BY <2>1, <3>1 DEF OutOf
  <2> QED
    BY <2>2, <2>3
<1>1. LvaType'
  <2>1. DOMAIN lva'.in = Segs /\ DOMAIN lva'.out = Segs
    BY <1>l, <1>t
  <2> QED
    BY <1>t, <1>u, <1>c, <1>w, <2>1 DEF LvaType
<1>g. \A x \in Segs : InOf(x)' = Gen(x) \cup (OutOf(x)' \ Kill(x))
  BY <1>c DEF InOf
<1>2. ASSUME NEW x \in Segs
      PROVE  /\ lva'.in[x] \subseteq InOf(x)'
             /\ x \notin ToSet(lva'.worklist) => lva'.out[x] = OutOf(x)' /\ InOf(x)' \subseteq lva'.in[x]
  <2>1. lva'.in[x] \subseteq InOf(x) /\ InOf(x) \subseteq InOf(x)'
    <3>1. lva'.in[x] \subseteq InOf(x)
      BY <1>n, <1>i
    <3>2. InOf(x) \subseteq InOf(x)'
      BY <1>g, <1>o DEF InOf
    <3> QED
      BY <3>1, <3>2
  <2>2. ASSUME x \notin ToSet(lva'.worklist)
        PROVE  lva'.out[x] = OutOf(x)' /\ InOf(x)' \subseteq lva'.in[x]
    <3>1. s \notin NextSegs(x) \/ ~Changed(s, diff)
      <4>1. s \in NextSegs(x) => x \in PrevSegs(s)
        BY DEF NextSegs, PrevSegs
      <4> QED
        BY <4>1, <2>2, <1>w
    <3>2. OutOf(x)' = OutOf(x) /\ InOf(x)' = InOf(x)
      BY <3>1, <1>o, <1>g DEF InOf
    <3>3. CASE x = s
      BY <3>2, <3>3, <1>l, <1>t, <1>s, <1>n
    <3>4. CASE x # s
      <4>1. x \notin ToSet(lva.worklist)
        BY <3>4, <2>2, <1>w
      <4>2. lva.out[x] = OutOf(x) /\ InOf(x) \subseteq lva.in[x]
        BY <4>1, <1>i
      <4>3. lva'.out[x] = lva.out[x] /\ lva'.in[x] = lva.in[x]
        BY <3>4, <1>l, <1>t, <1>n
      <4> QED
        BY <4>2, <4>3, <3>2
    <3> QED
      BY <3>3, <3>4
  <2> QED
    BY <2>1, <2>2
<1>3. SolvedUnlessListed'
  BY <1>2, <1>c DEF SolvedUnlessListed
<1> QED
  BY <1>u, <1>1, <1>3 DEF LvaInvariant

-----------------------------------------------------------------------------
(***************************************************************************)
(* The inductive invariant holds for every function, however its segments   *)
(* are connected and in whatever order ESLint lists the predecessors of a   *)
(* segment: lva.ts keeps every segment whose equations may fail listed.     *)
(***************************************************************************)
THEOREM LvaInvariantHolds == Spec => []LvaInvariant
<1>1. Init => LvaInvariant
  <2> SUFFICES ASSUME Init PROVE LvaInvariant
    OBVIOUS
  <2>1. cfg.path = <<1>> /\ phase = "walk"
    BY DEF Init
  <2>2. <<1>> \in Seq({1}) /\ ToSet(<<1>>) = {1}
    BY DEF ToSet
  <2> QED
    BY <2>1, <2>2 DEF LvaInvariant, LvaType, SolvedUnlessListed
<1>2. ASSUME LvaInvariant, [Next]_vars PROVE LvaInvariant'
  <2>1. CASE WalkStep
    BY <1>2, <2>1, WalkKeepsInvariant
  <2>2. CASE ProgramExit
    BY <1>2, <2>2, ExitKeepsInvariant
  <2>3. CASE Propagate
    BY <1>2, <2>3, PropagateKeepsInvariant
  <2>4. CASE CheckSegments
    <3>1. phase = "lva" /\ phase' = "done" /\ lva.worklist = <<>> /\ UNCHANGED <<cfg, refs, lva>>
      BY <2>4 DEF CheckSegments
    <3>2. Segs' = Segs /\ \A x : OutOf(x)' = OutOf(x) /\ InOf(x)' = InOf(x)
      BY <3>1 DEF Segs, OutOf, InOf, NextSegs, Gen, Kill
    <3> QED
      BY <1>2, <3>1, <3>2 DEF LvaInvariant, LvaType, SolvedUnlessListed
  <2>5. CASE UNCHANGED vars
    <3>1. UNCHANGED <<phase, cfg, refs, lva>>
      BY <2>5 DEF vars
    <3>2. Segs' = Segs /\ \A x : OutOf(x)' = OutOf(x) /\ InOf(x)' = InOf(x)
      BY <3>1 DEF Segs, OutOf, InOf, NextSegs, Gen, Kill
    <3> QED
      BY <1>2, <3>1, <3>2 DEF LvaInvariant, LvaType, SolvedUnlessListed
  <2>6. CASE \/ PushAssignmentContext \/ EnterRightSide \/ PopAssignmentContext
             \/ \E v \in Vars : (\E ref \in References(v) : CheckIdentifierUsage(ref)) \/ DeclareWithoutInit(v)
             \/ ObjectPattern \/ RestElement \/ ObjectPatternExit \/ OnCodePathEnd
    <3>1. phase = "walk" /\ phase' = "walk" /\ cfg' = cfg
      BY <2>6 DEF PushAssignmentContext, EnterRightSide, PopAssignmentContext, CheckIdentifierUsage,
                  DeclareWithoutInit, ObjectPattern, RestElement, ObjectPatternExit, OnCodePathEnd
    <3> QED
      BY <3>1, <1>2, WalkKeepsInvariant DEF WalkStep
  <2>7. CASE BeginBranch \/ BeginLoop \/ BeginFinally
    <3>1. ASSUME NEW kind, NEW n \in {1, 2}, NEW edges, NEW cur, OpenBlock(kind, n, edges, cur)
          PROVE  WalkStep
      BY <3>1 DEF OpenBlock, MayBranch, WalkStep
    <3>2. WalkStep
      BY <2>7, <3>1 DEF BeginBranch, BeginLoop, BeginFinally
    <3> QED
      BY <3>2, <1>2, WalkKeepsInvariant
  <2>8. CASE EndBlock \/ OnCodePathStart
    <3>1. phase = "walk" /\ phase' = "walk" /\ \E id, edges : StartSegments(1, id, edges)
      BY <2>8 DEF EndBlock, OnCodePathStart
    <3> QED
      BY <3>1, <1>2, WalkKeepsInvariant DEF WalkStep
  <2> QED
    BY <1>2, <2>2, <2>3, <2>4, <2>5, <2>6, <2>7, <2>8 DEF Next, Done
<1> QED
  BY <1>1, <1>2, PTL DEF Spec

(***************************************************************************)
(* For every function: when the worklist of lva is empty the in and out sets *)
(* solve the equations of live variables at every segment.                  *)
(***************************************************************************)
THEOREM StableSolutionHolds == Spec => []StableSolution
<1>1. ASSUME LvaInvariant PROVE StableSolution
  <2> SUFFICES ASSUME phase = "done", NEW s \in Segs
               PROVE  /\ lva.out[s] = UNION {lva.in[t] : t \in NextSegs(s)}
                      /\ lva.in[s] = Gen(s) \cup (lva.out[s] \ Kill(s))
    BY DEF StableSolution
  <2>1. s \notin ToSet(lva.worklist)
    BY <1>1 DEF LvaInvariant, ToSet
  <2>2. lva.out[s] = OutOf(s) /\ lva.in[s] = InOf(s)
    BY <1>1, <2>1 DEF LvaInvariant, SolvedUnlessListed
  <2> QED
    BY <2>2 DEF OutOf, InOf
<1> QED
  BY <1>1, LvaInvariantHolds, PTL

-----------------------------------------------------------------------------
(***************************************************************************)
(* The walk adds references in the order of evaluation.  The invariant     *)
(* says at every moment which references are settled and which are kept by *)
(* open assignments, and that adding the kept ones in the order of the     *)
(* lists gives the order of the operations.  It holds as long as an        *)
(* assignment whose left side is read holds no other write and no branch   *)
(* ("nested"): there checkIdentifierUsage is known to be too coarse.       *)
(***************************************************************************)
LEMMA WalkInductive ==
  ASSUME WalkInvariant, "nested" \notin Features, [Next]_vars
  PROVE  WalkInvariant'
<1>t. phase \in {"walk", "lva", "done"}
  BY DEF WalkInvariant, WalkType
<1>d. destructuringStack # <<>> =>
        top.asg # <<>> /\ Last(top.asg).side = "lhs" /\ \A r \in ToSet(Last(top.asg).lhs) : ~IsRead(r)
  BY DEF WalkInvariant, Contexts
<1>p. phase # "walk" => Len(codePathStack) = 1 /\ top.asg = <<>>
  BY DEF WalkInvariant, Contexts
<1>1. CASE PushAssignmentContext
  BY <1>1, PushStep
<1>2. CASE EnterRightSide
  BY <1>2, EnterStep
<1>3. CASE PopAssignmentContext
  BY <1>3, PopStep
<1>4. ASSUME NEW v \in Vars, NEW ref \in References(v), CheckIdentifierUsage(ref) PROVE WalkInvariant'
  BY <1>4, IdentStep
<1>5. ASSUME NEW v \in Vars, DeclareWithoutInit(v) PROVE WalkInvariant'
  <2>1. UNCHANGED <<codePathStack, cfg, refs, trace, nref, phase, destructuringStack>>
    BY <1>5 DEF DeclareWithoutInit
  <2> QED
    BY <2>1, <1>t, <1>d, <1>p, OtherStep
<1>6. CASE ObjectPattern
  <2>1. /\ UNCHANGED <<codePathStack, cfg, refs, trace, nref, phase>> /\ phase = "walk" /\ OnLeftSide
        /\ destructuringStack = <<>> => Last(Assignments).lhs = <<>>
    BY <1>6 DEF ObjectPattern
  <2>2. Assignments = top.asg /\ top.asg # <<>> /\ Last(top.asg).side = "lhs"
    BY <2>1, TopFacts DEF OnLeftSide
  <2>3. \A r \in ToSet(Last(top.asg).lhs) : ~IsRead(r)
    <3>1. CASE destructuringStack = <<>>
      BY <2>1, <2>2, <3>1 DEF ToSet
    <3>2. CASE destructuringStack # <<>>
      BY <1>d, <3>2
    <3> QED
      BY <3>1, <3>2
  <2> QED
    BY <2>1, <2>2, <2>3, <1>t, OtherStep
<1>7. CASE RestElement \/ ObjectPatternExit
  <2>1. UNCHANGED <<codePathStack, cfg, refs, trace, nref, phase>> /\ phase = "walk" /\ destructuringStack # <<>>
    BY <1>7 DEF RestElement, ObjectPatternExit
  <2> QED
    BY <2>1, <1>t, <1>d, OtherStep
<1>8. CASE BeginBranch \/ BeginLoop \/ BeginFinally \/ EndBlock
  BY <1>8, BranchStep
<1>9. CASE OnCodePathStart
  BY <1>9, PathStartStep
<1>10. CASE OnCodePathEnd
  BY <1>10, PathEndStep
<1>11. CASE ProgramExit
  <2>1. /\ UNCHANGED <<codePathStack, cfg, refs, trace, nref, destructuringStack>> /\ phase' = "lva"
        /\ Len(codePathStack) = 1 /\ top.asg = <<>>
    BY <1>11 DEF ProgramExit
  <2> QED
    BY <2>1, <1>d, OtherStep
<1>12. CASE Propagate
  <2>1. UNCHANGED <<codePathStack, cfg, refs, trace, nref, phase, destructuringStack>>
    BY <1>12 DEF Propagate
  <2> QED
    BY <2>1, <1>t, <1>d, <1>p, OtherStep
<1>13. CASE CheckSegments
  <2>1. UNCHANGED <<codePathStack, cfg, refs, trace, nref, destructuringStack>> /\ phase = "lva" /\ phase' = "done"
    BY <1>13 DEF CheckSegments
  <2> QED
    BY <2>1, <1>d, <1>p, OtherStep
<1>14. CASE UNCHANGED vars
  <2>1. UNCHANGED <<codePathStack, cfg, refs, trace, nref, phase, destructuringStack>>
    BY <1>14 DEF vars
  <2> QED
    BY <2>1, <1>t, <1>d, <1>p, OtherStep
<1> QED
  BY <1>1, <1>2, <1>3, <1>4, <1>5, <1>6, <1>7, <1>8, <1>9, <1>10, <1>11, <1>12, <1>13, <1>14 DEF Next, Done

LEMMA WalkStarts == ASSUME Init PROVE WalkInvariant /\ Segs = {1} /\ RefsAt(1) = {}
<1>1. /\ phase = "walk" /\ nref = 0 /\ cfg.path = <<1>> /\ refs = <<<<>>>> /\ trace = <<<<>>>>
      /\ destructuringStack = <<>> /\ codePathStack = <<NewContext(1, 1)>>
  BY DEF Init
<1>2. Segs = {1} /\ cfg.path \in Seq({1, 2}) /\ cfg.path[1] = 1
  BY <1>1 DEF Segs
<1>3. /\ NewContext(1, 1) \in Context /\ NewContext(1, 1).id = 1 /\ NewContext(1, 1).cur = {1}
      /\ NewContext(1, 1).asg = <<>> /\ ToSet(NewContext(1, 1).ctl) = {}
  BY DEF NewContext, Context, ToSet
<1>4. /\ codePathStack \in Seq(Context) /\ codePathStack # <<>> /\ DOMAIN codePathStack = {1}
      /\ codePathStack[1] = NewContext(1, 1)
  BY <1>1, <1>3
<1>5. refs[1] = <<>> /\ trace[1] = <<>> /\ refs \in [{1} -> Seq(Reference)] /\ trace \in [{1} -> Seq(Operation)]
  <2> DEFINE R == Seq(Reference)
             O == Seq(Operation)
             nil == <<>>
  <2>1. nil \in R /\ nil \in O /\ refs = <<nil>> /\ trace = <<nil>>
    BY <1>1
  <2> HIDE DEF R, O, nil
  <2>2. refs[1] = nil /\ trace[1] = nil /\ refs \in [{1} -> R] /\ trace \in [{1} -> O]
    BY <2>1
  <2> QED
    BY <2>2 DEF R, O, nil
<1>6. WalkType
  BY <1>1, <1>2, <1>4, <1>5 DEF WalkType
<1>7. Contexts
  BY <1>1, <1>2, <1>3, <1>4 DEF Contexts
<1>8. Open(1) = <<>>
  BY <1>2, <1>3, <1>4 DEF Open
<1>9. Evaluated(trace[1], refs[1], Open(1)) /\ RefsAt(1) = {}
  BY <1>5, <1>8, NothingYet DEF RefsAt
<1> QED
  BY <1>2, <1>6, <1>7, <1>9 DEF WalkInvariant

\* For every function without nested writes: whatever the walk meets, adding the
\* kept references in the order of the lists gives the order of evaluation.
THEOREM WalkInvariantHolds ==
  ASSUME "nested" \notin Features PROVE Spec => []WalkInvariant
<1>1. Init => WalkInvariant
  BY WalkStarts
<1>2. WalkInvariant /\ [Next]_vars => WalkInvariant'
  BY WalkInductive
<1> QED
  BY <1>1, <1>2, PTL DEF Spec

\* What the invariant says once the walk is over.
LEMMA Settled ==
  ASSUME WalkInvariant, phase # "walk", NEW s \in Segs
  PROVE  /\ trace[s] \in Seq(Operation) /\ refs[s] \in Seq(Reference) /\ RefsAt(s) = ToSet(refs[s])
         /\ Ordered(trace[s], refs[s]) /\ ReadsBeforeItWrites(trace[s])
         /\ ToSet(trace[s]) = UNION {Operations(ref) : ref \in ToSet(refs[s])}
<1>1. trace[s] \in Seq(Operation) /\ refs[s] \in Seq(Reference)
  BY DEF WalkInvariant, WalkType
<1>2. Open(s) = <<>>
  <2>1. /\ Len(codePathStack) = 1 /\ top.asg = <<>>
    BY DEF WalkInvariant, Contexts
  <2>2. DOMAIN codePathStack = 1..1 /\ top = codePathStack[1]
    BY <2>1, TopFacts
  <2> QED
    BY <2>1, <2>2 DEF Open
<1>3. Lists(<<>>) = {0} /\ List(refs[s], <<>>, 0) = refs[s] /\ Len(<<>>) = 0
  BY DEF Lists, List
<1>4. ListsInOrder(trace[s], refs[s], <<>>) /\ ListsAreComplete(trace[s], refs[s], <<>>)
  BY <1>2 DEF WalkInvariant, Evaluated
<1>5. Ordered(trace[s], refs[s]) /\ ReadsBeforeItWrites(trace[s])
  BY <1>3, <1>4 DEF ListsInOrder
<1>6. /\ \A o \in ToSet(trace[s]) : \E r \in ToSet(refs[s]) : o \in Operations(r)
      /\ \A r \in ToSet(refs[s]) : Operations(r) \subseteq ToSet(trace[s])
  BY <1>3, <1>4 DEF ListsAreComplete
<1>7. RefsAt(s) = ToSet(refs[s])
  BY <1>2, <1>3 DEF RefsAt, RefsOf
<1> QED
  BY <1>1, <1>5, <1>6, <1>7

\* For every function without nested writes: at the end of the walk the references
\* of every segment are those of the reads and writes that happen in it, in an order
\* that agrees with evaluation.
THEOREM InEvaluationOrderHolds ==
  ASSUME "nested" \notin Features PROVE Spec => []InEvaluationOrder
<1>1. WalkInvariant => InEvaluationOrder
  BY Settled DEF InEvaluationOrder
<1> QED
  BY <1>1, WalkInvariantHolds, PTL

\* For every function without nested writes: a variable that some path reads before
\* writing it is in the in set of the segment, so the rule takes no value for dead
\* because lva missed its reader.
THEOREM NoLiveVariableMissedHolds ==
  ASSUME "nested" \notin Features PROVE Spec => []NoLiveVariableMissed
<1>1. ASSUME WalkInvariant, StableSolution PROVE NoLiveVariableMissed
  <2> SUFFICES ASSUME phase = "done", NEW v \in Vars, NEW s0 \in TrulyLiveIn(v) PROVE v \in lva.in[s0]
    BY DEF NoLiveVariableMissed
  <2> DEFINE K == {s \in Segs : v \in lva.in[s]}
  <2>1. ASSUME NEW s \in Segs, ReadFirst(s, v, 1) PROVE v \in lva.in[s]
    <3>1. PICK j \in 1..Len(trace[s]) : trace[s][j].v = v /\ trace[s][j].k = "r"
      BY <2>1 DEF ReadFirst, Uses
    <3>2. trace[s][j] \in ToSet(trace[s])
      <4>1. trace[s] \in Seq(Operation)
        BY <1>1, Settled
      <4> QED
        BY <3>1, <4>1 DEF ToSet
    <3>3. PICK r \in ToSet(refs[s]) : trace[s][j] \in Operations(r)
      <4>1. ToSet(trace[s]) = UNION {Operations(ref) : ref \in ToSet(refs[s])}
        BY <1>1, Settled
      <4> QED
        BY <3>2, <4>1
    <3>4. IsRead(r) /\ r.v = v
      BY <3>1, <3>3 DEF Operations, Op
    <3>5. v \in Gen(s)
      BY <3>4 DEF Gen
    <3> QED
      BY <1>1, <3>5 DEF StableSolution
  <2>2. ASSUME NEW s \in Segs, Uses(s, v, 1) = {}, NEW t \in NextSegs(s), t \in K PROVE v \in lva.in[s]
    <3>1. v \in lva.out[s]
      BY <1>1, <2>2 DEF StableSolution
    <3>2. ASSUME NEW r \in ToSet(refs[s]), IsWrite(r), r.v = v PROVE FALSE
      <4>1. Op(r, "w") \in Operations(r)
        BY <3>2 DEF Operations
      <4>2. Op(r, "w") \in ToSet(trace[s]) /\ trace[s] \in Seq(Operation)
        BY <1>1, <4>1, Settled
      <4>3. PICK j \in DOMAIN trace[s] : trace[s][j] = Op(r, "w")
        BY <4>2 DEF ToSet
      <4>4. j \in 1..Len(trace[s])
        BY <4>2
      <4>5. trace[s][j].v = v
        BY <3>2, <4>3 DEF Op
      <4> QED
        BY <2>2, <4>4, <4>5 DEF Uses
    <3>3. v \notin Kill(s)
      BY <3>2 DEF Kill
    <3> QED
      BY <1>1, <3>1, <3>3 DEF StableSolution
  <2>3. HoldsLive(v, K)
    BY <2>1, <2>2 DEF HoldsLive
  <2>4. K \in SUBSET Segs
    OBVIOUS
  <2>5. s0 \in K
    BY <2>3, <2>4 DEF TrulyLiveIn
  <2> QED
    BY <2>5
<1> QED
  BY <1>1, WalkInvariantHolds, StableSolutionHolds, PTL

-----------------------------------------------------------------------------
(***************************************************************************)
(* A finally block is walked once and its references belong to both of its *)
(* segments; everywhere else a reference belongs to one segment.           *)
(***************************************************************************)
\* A code path is in one segment at a time.
Single == \A i \in DOMAIN codePathStack : \E s : codePathStack[i].cur = {s}

\* What codePathStack holds when only its innermost context is set.
LEMMA TopIsSet ==
  ASSUME WalkInvariant, NEW ctx, SetTop(ctx)
  PROVE  LET n == Len(codePathStack)
         IN /\ DOMAIN codePathStack = 1..n /\ DOMAIN codePathStack' = 1..n /\ codePathStack'[n] = ctx
            /\ \A i \in 1..n : i # n => codePathStack'[i] = codePathStack[i]
<1> DEFINE n == Len(codePathStack)
           S == Context \cup {ctx}
           q == codePathStack
<1>1. codePathStack' = Append(Front(q), ctx)
  BY DEF SetTop
<1>2. q \in Seq(S) /\ q # <<>> /\ ctx \in S
  <2>1. q \in Seq(Context) /\ q # <<>>
    BY DEF WalkInvariant, WalkType
  <2> QED
    BY <2>1
<1> HIDE DEF S, q
<1>3. LET b == Append(Front(q), ctx)
      IN /\ b \in Seq(S) /\ DOMAIN b = DOMAIN q
         /\ b[Len(q)] = ctx /\ \A i \in 1..(Len(q) - 1) : b[i] = q[i]
  BY <1>2, ReplaceLast
<1>4. DOMAIN q = 1..Len(q) /\ Len(q) \in Nat
  BY <1>2
<1>5. \A i \in 1..Len(q) : i # Len(q) => i \in 1..(Len(q) - 1)
  <2> DEFINE k == Len(q)
  <2>1. k \in Nat
    BY <1>4
  <2> HIDE DEF k
  <2>2. \A i \in 1..k : i # k => i \in 1..(k - 1)
    BY <2>1
  <2> QED
    BY <2>2 DEF k
<1> QED
  BY <1>1, <1>3, <1>4, <1>5 DEF q

LEMMA TopKeepsSingle ==
  ASSUME WalkInvariant, Single, NEW ctx, SetTop(ctx), \E s : ctx.cur = {s}
  PROVE  Single'
<1> DEFINE n == Len(codePathStack)
<1>1. /\ DOMAIN codePathStack = 1..n /\ DOMAIN codePathStack' = 1..n /\ codePathStack'[n] = ctx
      /\ \A i \in 1..n : i # n => codePathStack'[i] = codePathStack[i]
  BY TopIsSet
<1>2. ASSUME NEW i \in 1..n PROVE \E s : codePathStack'[i].cur = {s}
  <2>1. CASE i = n
    BY <1>1, <2>1
  <2>2. CASE i # n
    BY <1>1, <2>2 DEF Single
  <2> QED
    BY <2>1, <2>2
<1> QED
  BY <1>1, <1>2 DEF Single

LEMMA SingleStep ==
  ASSUME WalkInvariant, Single, "finally" \notin Features, [Next]_vars
  PROVE  Single'
<1>t. top \in Context /\ (\E s : top.cur = {s}) /\ Assignments = top.asg /\ Len(codePathStack) \in Nat \ {0}
  <2>1. /\ top \in Context /\ Assignments = top.asg /\ Len(codePathStack) \in Nat \ {0}
        /\ DOMAIN codePathStack = 1..Len(codePathStack) /\ top = codePathStack[Len(codePathStack)]
    BY TopFacts
  <2>2. Len(codePathStack) \in DOMAIN codePathStack
    BY <2>1
  <2>3. \E s : codePathStack[Len(codePathStack)].cur = {s}
    BY <2>2 DEF Single
  <2> QED
    BY <2>1, <2>3
<1>1. ASSUME NEW asg, SetTop([top EXCEPT !.asg = asg]) PROVE Single'
  <2>1. [top EXCEPT !.asg = asg].cur = top.cur
    BY <1>t DEF Context
  <2> QED
    BY <1>1, <1>t, <2>1, TopKeepsSingle
<1>2. ASSUME NEW seg, NEW ctl, SetTop([top EXCEPT !.cur = {seg}, !.ctl = ctl]) PROVE Single'
  <2>1. [top EXCEPT !.cur = {seg}, !.ctl = ctl].cur = {seg}
    BY <1>t DEF Context
  <2> QED
    BY <1>2, <2>1, TopKeepsSingle
<1>3. CASE PushAssignmentContext
  BY <1>3, <1>1 DEF PushAssignmentContext
<1>4. CASE EnterRightSide
  BY <1>4, <1>1 DEF EnterRightSide
<1>5. ASSUME NEW asg, NEW rs, ProcessReferences(asg, rs) PROVE Single'
  BY <1>5, <1>1 DEF ProcessReferences
<1>6. CASE PopAssignmentContext
  BY <1>6, <1>5 DEF PopAssignmentContext
<1>7. CASE \E v \in Vars : \E ref \in References(v) : CheckIdentifierUsage(ref)
  BY <1>7, <1>5 DEF CheckIdentifierUsage
<1>8. CASE BeginBranch \/ BeginLoop
  <2>1. ASSUME NEW kind, NEW edges, OpenBlock(kind, 1, edges, {NewSeg}) PROVE Single'
    BY <2>1, <1>2 DEF OpenBlock
  <2> QED
    BY <1>8, <2>1 DEF BeginBranch, BeginLoop
<1>9. CASE BeginFinally
  BY <1>9 DEF BeginFinally, OpenBlock
<1>10. CASE EndBlock
  BY <1>10, <1>2 DEF EndBlock
<1>11. CASE OnCodePathStart
  <2> DEFINE q == codePathStack
             ctx == NewContext(2, NewSeg)
             S == Context \cup {ctx}
  <2>1. codePathStack' = Append(q, ctx) /\ q \in Seq(Context)
    BY <1>11 DEF OnCodePathStart, WalkInvariant, WalkType
  <2>2. q \in Seq(S) /\ ctx \in S /\ ctx.cur = {NewSeg}
    BY <2>1 DEF NewContext
  <2> HIDE DEF q, ctx, S
  <2>3. /\ Len(q) \in Nat /\ DOMAIN q = 1..Len(q) /\ DOMAIN Append(q, ctx) = 1..(Len(q) + 1)
        /\ Append(q, ctx)[Len(q) + 1] = ctx /\ \A i \in 1..Len(q) : Append(q, ctx)[i] = q[i]
    BY <2>2, AppendFacts
  <2>4. \A i \in 1..(Len(q) + 1) : i = Len(q) + 1 \/ i \in 1..Len(q)
    BY <2>3
  <2>5. \A i \in 1..Len(q) : \E s : q[i].cur = {s}
    BY <2>3 DEF Single, q
  <2>6. \A i \in 1..(Len(q) + 1) : \E s : Append(q, ctx)[i].cur = {s}
    BY <2>2, <2>3, <2>4, <2>5
  <2> QED
    BY <2>1, <2>3, <2>6 DEF Single
<1>12. CASE OnCodePathEnd
  <2> DEFINE q == codePathStack
  <2>1. codePathStack' = Front(q) /\ q \in Seq(Context) /\ q # <<>>
    BY <1>12 DEF OnCodePathEnd, WalkInvariant, WalkType
  <2> HIDE DEF q
  <2>2. /\ Len(q) \in Nat \ {0} /\ DOMAIN q = 1..Len(q) /\ DOMAIN Front(q) = 1..(Len(q) - 1)
        /\ \A i \in 1..(Len(q) - 1) : Front(q)[i] = q[i]
    BY <2>1, FrontIndex
  <2>3. 1..(Len(q) - 1) \subseteq 1..Len(q)
    BY <2>2
  <2>4. \A i \in 1..Len(q) : \E s : q[i].cur = {s}
    BY <2>2 DEF Single, q
  <2> QED
    BY <2>1, <2>2, <2>3, <2>4 DEF Single
<1>13. CASE codePathStack' = codePathStack
  BY <1>13 DEF Single
<1>14. CASE \/ \E v \in Vars : DeclareWithoutInit(v)
            \/ ObjectPattern \/ RestElement \/ ObjectPatternExit \/ ProgramExit \/ Propagate \/ CheckSegments
            \/ UNCHANGED vars
  BY <1>13, <1>14 DEF DeclareWithoutInit, ObjectPattern, RestElement, ObjectPatternExit, ProgramExit, Propagate,
     CheckSegments, vars
<1> QED
  BY <1>3, <1>4, <1>6, <1>7, <1>8, <1>9, <1>10, <1>11, <1>12, <1>14 DEF Next, Done

LEMMA RefsAtAreReferences ==
  ASSUME WalkInvariant, NEW s \in Segs
  PROVE  RefsAt(s) \subseteq Reference
<1>1. refs[s] \in Seq(Reference) /\ codePathStack \in Seq(Context)
  BY DEF WalkInvariant, WalkType
<1>2. \A i \in DOMAIN codePathStack : codePathStack[i] \in Context
  BY <1>1
<1>3. \A i \in DOMAIN codePathStack : codePathStack[i].asg \in Seq(Assignment)
  BY <1>2 DEF Context
<1>4. Open(s) \in Seq(Assignment)
  BY <1>3 DEF Open
<1> QED
  BY <1>1, <1>4, RefsAreReferences DEF RefsAt

LEMMA SingleTop ==
  ASSUME WalkInvariant, Single PROVE \E s : top.cur = {s}
<1>1. /\ Len(codePathStack) \in Nat \ {0} /\ DOMAIN codePathStack = 1..Len(codePathStack)
      /\ top = codePathStack[Len(codePathStack)]
  BY TopFacts
<1>2. Len(codePathStack) \in DOMAIN codePathStack
  BY <1>1
<1> QED
  BY <1>1, <1>2 DEF Single

\* No reference comes; segments may.
RefsStay ==
  /\ Segs \subseteq Segs' /\ \A s \in Segs : cfg'.path[s] = cfg.path[s]
  /\ \A s \in Segs' : RefsAt(s)' = IF s \in Segs THEN RefsAt(s) ELSE {}

\* Only an identifier brings a reference.
LEMMA RefsStayUnlessIdent ==
  ASSUME WalkInvariant, "nested" \notin Features, [Next]_vars,
         ~ \E v \in Vars : \E ref \in References(v) : CheckIdentifierUsage(ref)
  PROVE  RefsStay
<1>1. ASSUME \A s \in Segs : RefsAt(s)' = RefsAt(s), cfg' = cfg PROVE RefsStay
  <2>1. Segs' = Segs
    BY <1>1 DEF Segs
  <2> QED
    BY <1>1, <2>1 DEF RefsStay
<1>2. ASSUME UNCHANGED <<codePathStack, cfg, refs>> PROVE RefsStay
  <2>1. \A s \in Segs : RefsAt(s)' = RefsAt(s)
    BY <1>2 DEF RefsAt, RefsOf, Open, List, Lists
  <2> QED
    BY <1>1, <1>2, <2>1
<1>3. CASE PushAssignmentContext
  <2>1. \A s \in Segs : RefsAt(s)' = RefsAt(s)
    BY <1>3, PushStep
  <2> QED
    BY <1>1, <1>3, <2>1 DEF PushAssignmentContext
<1>4. CASE EnterRightSide
  <2>1. \A s \in Segs : RefsAt(s)' = RefsAt(s)
    BY <1>4, EnterStep
  <2> QED
    BY <1>1, <1>4, <2>1 DEF EnterRightSide
<1>5. CASE PopAssignmentContext
  <2>1. \A s \in Segs : RefsAt(s)' = RefsAt(s)
    BY <1>5, PopStep
  <2> QED
    BY <1>1, <1>5, <2>1 DEF PopAssignmentContext
<1>6. CASE \E v \in Vars : DeclareWithoutInit(v)
  BY <1>2, <1>6 DEF DeclareWithoutInit
<1>7. CASE ObjectPattern \/ RestElement \/ ObjectPatternExit \/ ProgramExit \/ Propagate \/ CheckSegments \/ UNCHANGED vars
  BY <1>2, <1>7 DEF ObjectPattern, RestElement, ObjectPatternExit, ProgramExit, Propagate, CheckSegments, vars
<1>8. CASE BeginBranch \/ BeginLoop \/ BeginFinally \/ EndBlock
  BY <1>8, BranchStep DEF RefsStay
<1>9. CASE OnCodePathStart
  BY <1>9, PathStartStep DEF RefsStay
<1>10. CASE OnCodePathEnd
  <2>1. \A s \in Segs : RefsAt(s)' = RefsAt(s)
    BY <1>10, PathEndStep
  <2> QED
    BY <1>1, <1>10, <2>1 DEF OnCodePathEnd
<1> QED
  BY <1>3, <1>4, <1>5, <1>6, <1>7, <1>8, <1>9, <1>10 DEF Next, Done

\* Without finally blocks the reference of an identifier comes to one segment.
LEMMA OneSegmentInductive ==
  ASSUME WalkInvariant, Single, OneSegment, "nested" \notin Features, [Next]_vars
  PROVE  OneSegment'
<1>1. CASE RefsStay
  BY <1>1 DEF RefsStay, OneSegment
<1>2. ASSUME NEW v \in Vars, NEW ref \in References(v), CheckIdentifierUsage(ref) PROVE OneSegment'
  <2>1. /\ ref \in Reference /\ ref.id = nref + 1
        /\ \A s \in Segs : RefsAt(s)' = IF s \in top.cur THEN RefsAt(s) \cup {ref} ELSE RefsAt(s)
    BY <1>2, IdentStep
  <2>2. /\ nref \in Nat /\ \A s \in Segs : \A r \in RefsAt(s) : r.id <= nref
    BY DEF WalkInvariant, WalkType
  <2>3. \A s \in Segs : \A r \in RefsAt(s) : r.id \in Nat
    BY RefsAtAreReferences DEF Reference
  <2>4. PICK only : top.cur = {only}
    BY SingleTop
  <2>5. ASSUME NEW s \in Segs, NEW t \in Segs, NEW r1 \in RefsAt(s)', NEW r2 \in RefsAt(t)', r1.id = r2.id PROVE s = t
    <3>1. (r1 \in RefsAt(s) \/ (r1 = ref /\ s = only)) /\ (r2 \in RefsAt(t) \/ (r2 = ref /\ t = only))
      BY <2>1, <2>4
    <3>2. \A x \in Segs : \A r \in RefsAt(x) : r.id # ref.id
      BY <2>1, <2>2, <2>3
    <3> QED
      BY <2>5, <3>1, <3>2 DEF OneSegment
  <2>6. Segs' = Segs
    BY <1>2 DEF CheckIdentifierUsage, Segs
  <2> QED
    BY <2>5, <2>6 DEF OneSegment
<1> QED
  BY <1>1, <1>2, RefsStayUnlessIdent

\* The type of usage, and what it never loses.
UsageType == usage \in [read : SUBSET Vars, paths : [Vars -> SUBSET {1, 2}]]
UsageKept ==
  /\ UsageType' /\ usage.read \subseteq usage'.read
  /\ \A v \in Vars : usage.paths[v] \subseteq usage'.paths[v]

\* No reference comes, and the uses of the variables only grow.
LEMMA UsageGrows == ASSUME WalkInvariant, UsageInvariant, RefsStay, UsageKept PROVE UsageInvariant'
<1>1. \A s \in Segs : \A r \in RefsAt(s) : r.v \in Vars
  BY RefsAtAreReferences DEF Reference
<1>2. ASSUME NEW s \in Segs', NEW r \in RefsAt(s)'
      PROVE  cfg'.path[s] \in usage'.paths[r.v] /\ (IsRead(r) => r.v \in usage'.read)
  <2>1. s \in Segs /\ r \in RefsAt(s) /\ cfg'.path[s] = cfg.path[s]
    BY DEF RefsStay
  <2>2. cfg.path[s] \in usage.paths[r.v] /\ (IsRead(r) => r.v \in usage.read)
    BY <2>1 DEF UsageInvariant
  <2> QED
    BY <1>1, <2>1, <2>2 DEF UsageKept
<1> QED
  BY <1>2 DEF UsageInvariant, UsageKept, UsageType, IsRead

\* There are two code paths: 1 is the function, 2 the closure.
LEMMA TopIsAPath == ASSUME WalkInvariant PROVE top.id \in {1, 2} /\ \A s \in top.cur : s \in Segs /\ cfg.path[s] = top.id
<1>1. /\ top.id = Len(codePathStack) /\ top.cur # {} /\ \A s \in top.cur : s \in Segs /\ cfg.path[s] = Len(codePathStack)
  BY TopFacts
<1>2. PICK s \in top.cur : TRUE
  BY <1>1
<1>3. s \in 1..Len(cfg.path) /\ cfg.path \in Seq({1, 2})
  BY <1>1, <1>2 DEF WalkInvariant, WalkType, Segs
<1>4. cfg.path[s] \in {1, 2}
  BY <1>3
<1> QED
  BY <1>1, <1>4

LEMMA IdentUsage ==
  ASSUME WalkInvariant, UsageInvariant, "nested" \notin Features,
         NEW v \in Vars, NEW ref \in References(v), CheckIdentifierUsage(ref)
  PROVE  UsageInvariant'
<1>1. /\ ref \in Reference
      /\ \A s \in Segs : RefsAt(s)' = IF s \in top.cur THEN RefsAt(s) \cup {ref} ELSE RefsAt(s)
  BY IdentStep
<1>2. \A s \in Segs : \A r \in RefsAt(s) : r.v \in Vars
  BY RefsAtAreReferences DEF Reference
<1>3. /\ cfg' = cfg /\ Segs' = Segs
      /\ usage' = [read |-> IF IsRead(ref) THEN usage.read \cup {ref.v} ELSE usage.read,
                   paths |-> [usage.paths EXCEPT ![ref.v] = @ \cup {top.id}]]
  BY DEF CheckIdentifierUsage, Segs
<1>4. ref.v \in Vars /\ usage.paths \in [Vars -> SUBSET {1, 2}] /\ usage.read \subseteq Vars
  BY <1>1 DEF Reference, UsageInvariant
<1>5. top.id \in {1, 2} /\ \A s \in top.cur : s \in Segs /\ cfg.path[s] = top.id
  BY TopIsAPath
<1>6. /\ usage' \in [read : SUBSET Vars, paths : [Vars -> SUBSET {1, 2}]] /\ usage.read \subseteq usage'.read
      /\ \A x \in Vars : usage.paths[x] \subseteq usage'.paths[x]
      /\ top.id \in usage'.paths[ref.v] /\ (IsRead(ref) => ref.v \in usage'.read)
  <2>1. usage'.paths = [usage.paths EXCEPT ![ref.v] = @ \cup {top.id}]
    BY <1>3
  <2>2. usage'.read = IF IsRead(ref) THEN usage.read \cup {ref.v} ELSE usage.read
    BY <1>3
  <2> QED
    BY <1>3, <1>4, <1>5, <2>1, <2>2
<1>7. ASSUME NEW s \in Segs, NEW r \in RefsAt(s)'
      PROVE  cfg.path[s] \in usage'.paths[r.v] /\ (IsRead(r) => r.v \in usage'.read)
  <2>1. CASE r = ref /\ s \in top.cur
    BY <1>5, <1>6, <2>1
  <2>2. CASE r \in RefsAt(s)
    <3>1. cfg.path[s] \in usage.paths[r.v] /\ (IsRead(r) => r.v \in usage.read)
      BY <2>2 DEF UsageInvariant
    <3> QED
      BY <1>2, <1>6, <2>2, <3>1
  <2> QED
    BY <1>1, <2>1, <2>2
<1> QED
  BY <1>3, <1>6, <1>7 DEF UsageInvariant, IsRead

LEMMA UsageInductive ==
  ASSUME WalkInvariant, UsageInvariant, "nested" \notin Features, [Next]_vars
  PROVE  UsageInvariant'
<1>1. UsageType
  BY DEF UsageInvariant, UsageType
<1>2. ASSUME RefsStay, usage' = usage PROVE UsageInvariant'
  BY <1>1, <1>2, UsageGrows DEF UsageKept, UsageType
<1>3. CASE \E v \in Vars : \E ref \in References(v) : CheckIdentifierUsage(ref)
  BY <1>3, IdentUsage
<1>4. ASSUME RefsStay, NEW v \in Vars, DeclareWithoutInit(v) PROVE UsageInvariant'
  <2>1. usage' = [usage EXCEPT !.paths[v] = @ \cup {top.id}]
    BY <1>4 DEF DeclareWithoutInit
  <2>2. top.id \in {1, 2}
    BY TopIsAPath
  <2>3. /\ usage'.paths = [usage.paths EXCEPT ![v] = @ \cup {top.id}] /\ usage'.read = usage.read
    BY <1>1, <2>1 DEF UsageType
  <2>4. UsageKept
    BY <1>1, <2>1, <2>2, <2>3 DEF UsageKept, UsageType
  <2> QED
    BY <1>4, <2>4, UsageGrows
<1>5. CASE /\ ~ \E v \in Vars : \E ref \in References(v) : CheckIdentifierUsage(ref)
           /\ ~ \E v \in Vars : DeclareWithoutInit(v)
  <2>1. usage' = usage
    BY <1>5 DEF Next, Done, PushAssignmentContext, EnterRightSide, PopAssignmentContext, ProcessReferences,
       ObjectPattern, RestElement, ObjectPatternExit, BeginBranch, BeginLoop, BeginFinally, OpenBlock, EndBlock,
       OnCodePathStart, OnCodePathEnd, ProgramExit, Propagate, CheckSegments, vars
  <2> QED
    BY <1>2, <1>5, <2>1, RefsStayUnlessIdent
<1> QED
  BY <1>3, <1>4, <1>5, RefsStayUnlessIdent

\* What is reported is what the two checks find.
ReportsAreIssues ==
  phase = "done" => reports = UNION {CheckSegment(s) \cup ReportNeverReadVariables(s) : s \in Segs}

LEMMA ReportsInductive == ASSUME ReportsAreIssues, [Next]_vars PROVE ReportsAreIssues'
<1>1. CASE CheckSegments \/ UNCHANGED vars
  <2>1. UNCHANGED <<cfg, refs, usage, usedInDestructuring, lva>>
    BY <1>1 DEF CheckSegments, vars
  <2>2. Segs' = Segs
    BY <2>1 DEF Segs
  <2>3. \A s : CheckSegment(s)' = CheckSegment(s) /\ ReportNeverReadVariables(s)' = ReportNeverReadVariables(s)
    BY <2>1 DEF CheckSegment, ReportNeverReadVariables, ShouldReport, ShouldReportReference, WillBeRead, Later,
       IsRead, IsWrite, Issue
  <2>4. CASE CheckSegments
    <3>1. reports' = UNION {CheckSegment(s) \cup ReportNeverReadVariables(s) : s \in Segs}
      BY <2>4 DEF CheckSegments
    <3> QED
      BY <2>2, <2>3, <3>1 DEF ReportsAreIssues
  <2>5. CASE UNCHANGED vars
    <3>1. phase' = phase /\ reports' = reports
      BY <2>5 DEF vars
    <3> QED
      BY <2>2, <2>3, <3>1 DEF ReportsAreIssues
  <2> QED
    BY <1>1, <2>4, <2>5
<1>2. CASE ~(CheckSegments \/ UNCHANGED vars)
  <2>1. phase' # "done"
    BY <1>2 DEF Next, Done, PushAssignmentContext, EnterRightSide, PopAssignmentContext, CheckIdentifierUsage,
       DeclareWithoutInit, ObjectPattern, RestElement, ObjectPatternExit, BeginBranch, BeginLoop, BeginFinally,
       OpenBlock, MayBranch, EndBlock, OnCodePathStart, OnCodePathEnd, ProgramExit, Propagate
  <2> QED
    BY <2>1 DEF ReportsAreIssues
<1> QED
  BY <1>1, <1>2

\* The uses of the variables are recorded, and the issues are those of the two checks.
LEMMA UsageInvariantHolds ==
  ASSUME "nested" \notin Features
  PROVE  Spec => [](WalkInvariant /\ UsageInvariant /\ ReportsAreIssues)
<1> DEFINE I == WalkInvariant /\ UsageInvariant /\ ReportsAreIssues
<1>1. Init => I
  <2> SUFFICES ASSUME Init PROVE I
    OBVIOUS
  <2>1. WalkInvariant /\ Segs = {1} /\ RefsAt(1) = {}
    BY WalkStarts
  <2>2. usage = [read |-> {}, paths |-> [v \in Vars |-> {}]] /\ phase = "walk"
    BY DEF Init
  <2>3. UsageInvariant
    BY <2>1, <2>2 DEF UsageInvariant
  <2> QED
    BY <2>1, <2>2, <2>3 DEF ReportsAreIssues
<1>2. I /\ [Next]_vars => I'
  BY WalkInductive, UsageInductive, ReportsInductive
<1> QED
  BY <1>1, <1>2, PTL DEF Spec

\* Without finally blocks every reference belongs to one segment: a code path is in
\* one segment at a time, and processReferences adds to no other.
THEOREM OneSegmentHolds ==
  ASSUME "nested" \notin Features, "finally" \notin Features PROVE Spec => []OneSegment
<1> DEFINE I == WalkInvariant /\ Single /\ OneSegment
<1>1. Init => I
  <2> SUFFICES ASSUME Init PROVE I
    OBVIOUS
  <2>1. WalkInvariant /\ Segs = {1} /\ RefsAt(1) = {}
    BY WalkStarts
  <2>2. Single
    <3> DEFINE ctx == NewContext(1, 1)
    <3>1. codePathStack = <<ctx>> /\ ctx.cur = {1}
      BY DEF Init, NewContext
    <3> HIDE DEF ctx
    <3>2. DOMAIN codePathStack = {1} /\ codePathStack[1].cur = {1}
      BY <3>1
    <3> QED
      BY <3>2 DEF Single
  <2> QED
    BY <2>1, <2>2 DEF OneSegment
<1>2. I /\ [Next]_vars => I'
  BY WalkInductive, SingleStep, OneSegmentInductive
<1>3. I => OneSegment
  OBVIOUS
<1> QED
  BY <1>1, <1>2, <1>3, PTL DEF Spec

\* The issue of a reference, and what made the rule report it.
LEMMA IssueFacts ==
  ASSUME ReportsAreIssues, phase = "done", NEW issue \in reports
  PROVE  /\ issue.seg \in Segs /\ issue.at \in DOMAIN refs[issue.seg] /\ issue = Issue(issue.by, issue.seg, issue.at)
         /\ Reported(issue) = refs[issue.seg][issue.at]
         /\ \/ /\ issue.by = "checkSegment" /\ IsWrite(Reported(issue)) /\ ~WillBeRead(issue.seg, issue.at)
               /\ Cardinality(usage.paths[Reported(issue).v]) <= 1 /\ Reported(issue).v \in usage.read
            \/ issue.by = "neverRead" /\ Reported(issue).v \notin usage.read
<1>1. PICK s \in Segs : issue \in CheckSegment(s) \/ issue \in ReportNeverReadVariables(s)
  BY DEF ReportsAreIssues
<1>2. CASE issue \in CheckSegment(s)
  <2>1. PICK i \in DOMAIN refs[s] : /\ issue = Issue("checkSegment", s, i)
                                    /\ IsWrite(refs[s][i]) /\ ~WillBeRead(s, i) /\ ShouldReport(refs[s][i])
    BY <1>2 DEF CheckSegment
  <2>2. issue.by = "checkSegment" /\ issue.seg = s /\ issue.at = i
    BY <2>1 DEF Issue
  <2> QED
    BY <2>1, <2>2 DEF Reported, ShouldReport
<1>3. CASE issue \in ReportNeverReadVariables(s)
  <2>1. PICK i \in DOMAIN refs[s] : issue = Issue("neverRead", s, i) /\ refs[s][i].v \notin usage.read
    BY <1>3 DEF ReportNeverReadVariables
  <2>2. issue.by = "neverRead" /\ issue.seg = s /\ issue.at = i
    BY <2>1 DEF Issue
  <2> QED
    BY <2>1, <2>2 DEF Reported
<1> QED
  BY <1>1, <1>2, <1>3

\* A reference has one place in a segment.
LEMMA OnePlace ==
  ASSUME WalkInvariant, phase # "walk", NEW s \in Segs, NEW i \in DOMAIN refs[s], NEW j \in DOMAIN refs[s],
         refs[s][i].id = refs[s][j].id
  PROVE  i = j
<1>1. refs[s] \in Seq(Reference) /\ Ordered(trace[s], refs[s])
  BY Settled
<1>2. i \in Nat /\ j \in Nat
  BY <1>1
<1>3. ~(i < j) /\ ~(j < i)
  BY <1>1 DEF Ordered, InOrder
<1> QED
  BY <1>2, <1>3

\* For every function without nested writes: a reference of a segment gives at most
\* one issue, whichever of the two checks finds it.
THEOREM ReportedOnceHolds ==
  ASSUME "nested" \notin Features PROVE Spec => []ReportedOnce
<1>1. ASSUME WalkInvariant, ReportsAreIssues PROVE ReportedOnce
  <2> SUFFICES ASSUME phase = "done", NEW x \in reports, NEW y \in reports, x.seg = y.seg, Reported(x) = Reported(y)
               PROVE  x = y
    BY DEF ReportedOnce
  <2>1. /\ x.seg \in Segs /\ x.at \in DOMAIN refs[x.seg] /\ x = Issue(x.by, x.seg, x.at)
        /\ Reported(x) = refs[x.seg][x.at]
        /\ \/ x.by = "checkSegment" /\ Reported(x).v \in usage.read
           \/ x.by = "neverRead" /\ Reported(x).v \notin usage.read
    BY <1>1, IssueFacts
  <2>2. /\ y.seg \in Segs /\ y.at \in DOMAIN refs[y.seg] /\ y = Issue(y.by, y.seg, y.at)
        /\ Reported(y) = refs[y.seg][y.at]
        /\ \/ y.by = "checkSegment" /\ Reported(y).v \in usage.read
           \/ y.by = "neverRead" /\ Reported(y).v \notin usage.read
    BY <1>1, IssueFacts
  <2>3. x.by = y.by
    BY <2>1, <2>2
  <2>4. x.at = y.at
    <3> DEFINE s == x.seg
               i == x.at
               j == y.at
    <3>1. s \in Segs /\ i \in DOMAIN refs[s] /\ j \in DOMAIN refs[s] /\ phase # "walk" /\ refs[s][i].id = refs[s][j].id
      BY <2>1, <2>2
    <3> HIDE DEF s, i, j
    <3>2. i = j
      BY <1>1, <3>1, OnePlace
    <3> QED
      BY <3>2 DEF i, j
  <2> QED
    BY <2>1, <2>2, <2>3, <2>4
<1> QED
  BY <1>1, UsageInvariantHolds, PTL

\* The place of an operation in its segment: its reference is there, and its kind is one of the reference's.
LEMMA OperationHasPlace ==
  ASSUME WalkInvariant, phase # "walk", NEW s \in Segs, NEW p \in DOMAIN trace[s]
  PROVE  \E m \in DOMAIN refs[s] : /\ trace[s][p].id = refs[s][m].id /\ trace[s][p].v = refs[s][m].v
                                   /\ trace[s][p].k = "r" => IsRead(refs[s][m])
                                   /\ trace[s][p].k = "w" => IsWrite(refs[s][m])
<1>1. ToSet(trace[s]) = UNION {Operations(ref) : ref \in ToSet(refs[s])}
  BY Settled
<1>2. PICK r \in ToSet(refs[s]) : trace[s][p] \in Operations(r)
  BY <1>1 DEF ToSet
<1>3. PICK m \in DOMAIN refs[s] : r = refs[s][m]
  BY <1>2 DEF ToSet
<1>4. /\ trace[s][p].id = r.id /\ trace[s][p].v = r.v
      /\ trace[s][p].k = "r" => IsRead(r)
      /\ trace[s][p].k = "w" => IsWrite(r)
  BY <1>2 DEF Operations, Op
<1> QED
  BY <1>3, <1>4

\* The operations of a reference happen in its segment.
LEMMA ReferenceHappens ==
  ASSUME WalkInvariant, phase # "walk", NEW s \in Segs, NEW m \in DOMAIN refs[s]
  PROVE  /\ IsRead(refs[s][m]) \/ IsWrite(refs[s][m])
         /\ \E p \in DOMAIN trace[s] : trace[s][p].id = refs[s][m].id /\ trace[s][p].v = refs[s][m].v
         /\ IsWrite(refs[s][m]) =>
              \E p \in DOMAIN trace[s] : /\ trace[s][p].id = refs[s][m].id /\ trace[s][p].v = refs[s][m].v
                                         /\ trace[s][p].k = "w"
<1> DEFINE r == refs[s][m]
<1>1. /\ refs[s] \in Seq(Reference) /\ ToSet(trace[s]) = UNION {Operations(ref) : ref \in ToSet(refs[s])}
  BY Settled
<1>2. r \in ToSet(refs[s]) /\ r \in Reference
  BY <1>1 DEF ToSet
<1>3. IsRead(r) \/ IsWrite(r)
  BY <1>2 DEF Reference, IsRead, IsWrite
<1>4. \A o \in Operations(r) : \E p \in DOMAIN trace[s] : trace[s][p] = o
  <2>1. Operations(r) \subseteq ToSet(trace[s])
    BY <1>1, <1>2
  <2> QED
    BY <2>1 DEF ToSet
<1>5. /\ IsRead(r) => Op(r, "r") \in Operations(r)
      /\ IsWrite(r) => Op(r, "w") \in Operations(r)
  BY DEF Operations
<1>6. \A k : Op(r, k).id = r.id /\ Op(r, k).v = r.v /\ Op(r, k).k = k
  BY DEF Op
<1> HIDE DEF r
<1>7. IsWrite(r) => \E p \in DOMAIN trace[s] : trace[s][p].id = r.id /\ trace[s][p].v = r.v /\ trace[s][p].k = "w"
  BY <1>4, <1>5, <1>6
<1>8. \E p \in DOMAIN trace[s] : trace[s][p].id = r.id /\ trace[s][p].v = r.v
  BY <1>3, <1>4, <1>5, <1>6
<1> QED
  BY <1>3, <1>7, <1>8 DEF r

\* A variable that no reference reads is live nowhere and its value is never used.
LEMMA NeverReadIsDead ==
  ASSUME WalkInvariant, UsageInvariant, phase # "walk", NEW s \in Segs, NEW i \in DOMAIN trace[s],
         trace[s][i].v \notin usage.read
  PROVE  ~ValueIsUsed(s, i)
<1> DEFINE v == trace[s][i].v
<1>1. ASSUME NEW t \in Segs, NEW p \in DOMAIN trace[t], trace[t][p].v = v, trace[t][p].k = "r" PROVE FALSE
  <2>1. PICK m \in DOMAIN refs[t] : trace[t][p].v = refs[t][m].v /\ IsRead(refs[t][m])
    BY <1>1, OperationHasPlace
  <2>2. refs[t][m] \in RefsAt(t)
    BY Settled DEF ToSet
  <2>3. refs[t][m].v \in usage.read
    BY <2>1, <2>2 DEF UsageInvariant
  <2> QED
    BY <1>1, <2>1, <2>3
<1>2. \A t \in Segs : trace[t] \in Seq(Operation)
  BY Settled
<1>3. ASSUME NEW t \in Segs, NEW j \in Nat \ {0}, ReadFirst(t, v, j) PROVE FALSE
  <2>1. PICK p \in j..Len(trace[t]) : trace[t][p].v = v /\ trace[t][p].k = "r"
    BY <1>3 DEF ReadFirst, Uses
  <2>2. p \in DOMAIN trace[t]
    <3>1. DOMAIN trace[t] = 1..Len(trace[t]) /\ Len(trace[t]) \in Nat
      BY <1>2
    <3> QED
      BY <2>1, <3>1
  <2> QED
    BY <1>1, <2>1, <2>2
<1>4. HoldsLive(v, {})
  <2>1. 1 \in Nat \ {0}
    OBVIOUS
  <2> QED
    BY <1>3, <2>1 DEF HoldsLive
<1>5. TrulyLiveIn(v) = {}
  BY <1>4 DEF TrulyLiveIn
<1>6. ~ReadFirst(s, v, i + 1)
  <2>1. i + 1 \in Nat \ {0}
    BY <1>2
  <2> QED
    BY <1>3, <2>1
<1>7. \A t \in Segs : \A o \in ToSet(trace[t]) : ~(o.v = v /\ o.k = "r")
  BY <1>1 DEF ToSet
<1> HIDE DEF v
<1>8. v = trace[s][i].v
  BY DEF v
<1> QED
  BY <1>5, <1>6, <1>7, <1>8 DEF ValueIsUsed

\* The code paths that use a variable are finitely many.
LEMMA FewPathsAreFinite == IsFiniteSet({1, 2})
<1>1. \A S, x : IsFiniteSet(S) => IsFiniteSet(S \cup {x})
  BY FS_AddElement
<1>2. IsFiniteSet({1})
  BY FS_Singleton
<1>3. IsFiniteSet({1} \cup {2})
  BY <1>1, <1>2, Zenon
<1>4. {1} \cup {2} = {1, 2}
  OBVIOUS
<1> QED
  BY <1>3, <1>4

\* The write at i of the reference at j, when that reference will not be read.
LEMMA UnreadIsDead ==
  ASSUME WalkInvariant, UsageInvariant, StableSolution, NoLiveVariableMissed, phase = "done",
         NEW s \in Segs, NEW j \in DOMAIN refs[s], NEW i \in DOMAIN trace[s],
         trace[s][i].id = refs[s][j].id, trace[s][i].v = refs[s][j].v, trace[s][i].k = "w",
         ~WillBeRead(s, j), Cardinality(usage.paths[refs[s][j].v]) <= 1
  PROVE  ~ValueIsUsed(s, i)
<1> DEFINE v == trace[s][i].v
           ops == trace[s]
           rs == refs[s]
<1>1. /\ ops \in Seq(Operation) /\ rs \in Seq(Reference) /\ Ordered(ops, rs) /\ ReadsBeforeItWrites(ops)
  BY Settled
<1>2. /\ DOMAIN ops = 1..Len(ops) /\ DOMAIN rs = 1..Len(rs) /\ Len(ops) \in Nat /\ Len(rs) \in Nat
      /\ i \in Nat /\ j \in Nat /\ v = rs[j].v
  BY <1>1
<1>3. v \in Vars
  <2>1. ops[i] \in Operation
    BY <1>1
  <2> QED
    BY <2>1 DEF Operation
<1>o. \A x, y \in DOMAIN rs : x < y =>
        \A p, q \in DOMAIN ops : /\ ops[p].id = rs[x].id /\ ops[q].id = rs[y].id
                                 /\ ops[p].v = ops[q].v /\ (ops[p].k = "w" \/ ops[q].k = "w")
                                 => p < q
  BY <1>1 DEF Ordered, InOrder
\* a later reference of the variable is used later
<1>4. ASSUME NEW k \in Later(s, j), NEW p \in DOMAIN ops, ops[p].id = rs[k].id, ops[p].v = rs[k].v
      PROVE  i < p /\ p \in Uses(s, v, i + 1) /\ k \in DOMAIN rs /\ j < k
  <2>1. k \in (j + 1)..Len(rs) /\ rs[k].v = v
    BY <1>2 DEF Later
  <2>2. k \in DOMAIN rs /\ j < k
    BY <1>2, <2>1
  <2>3. i < p
    BY <1>o, <1>4, <2>1, <2>2
  <2>4. p \in (i + 1)..Len(ops)
    BY <1>2, <2>3
  <2> QED
    BY <1>4, <2>1, <2>2, <2>3, <2>4 DEF Uses
<1>5. ASSUME ReadFirst(s, v, i + 1) PROVE FALSE
  <2>1. PICK q \in Uses(s, v, i + 1) : ops[q].k = "r" /\ \A k \in Uses(s, v, i + 1) : q <= k
    BY <1>5 DEF ReadFirst
  <2>2. q \in (i + 1)..Len(ops) /\ ops[q].v = v
    BY <2>1 DEF Uses
  <2>3. q \in DOMAIN ops /\ i < q /\ q \in Nat
    BY <1>2, <2>2
  <2>4. PICK m \in DOMAIN rs : ops[q].id = rs[m].id /\ ops[q].v = rs[m].v /\ IsRead(rs[m])
    BY <2>1, <2>3, OperationHasPlace
  <2>5. m \in Nat
    BY <1>2
  <2>6. m # j
    <3>1. m = j => ops[q].id = ops[i].id
      BY <2>4
    <3>2. ops[q].id = ops[i].id => q < i
      BY <1>1, <2>1, <2>3 DEF ReadsBeforeItWrites
    <3> QED
      BY <1>2, <2>3, <3>1, <3>2
  <2>7. ~(m < j)
    <3>1. m < j => q < i
      BY <1>o, <2>2, <2>3, <2>4
    <3> QED
      BY <1>2, <2>3, <3>1
  <2>8. m \in Later(s, j)
    <3>1. m \in (j + 1)..Len(rs)
      BY <1>2, <2>4, <2>5, <2>6, <2>7
    <3>2. rs[m].v = rs[j].v
      BY <1>2, <2>2, <2>4
    <3> QED
      BY <3>1, <3>2 DEF Later
  <2>9. PICK k \in Later(s, j) : k <= m /\ ~IsRead(rs[k])
    BY <2>8 DEF WillBeRead
  <2>10. k \in DOMAIN rs /\ k \in Nat /\ rs[k].v = rs[j].v
    BY <1>2 DEF Later
  <2>11. k < m
    <3>1. k # m
      BY <2>4, <2>9
    <3> QED
      BY <2>5, <2>9, <2>10, <3>1
  <2>12. PICK p \in DOMAIN ops : ops[p].id = rs[k].id /\ ops[p].v = rs[k].v /\ ops[p].k = "w"
    BY <2>9, <2>10, ReferenceHappens
  <2>13. p \in Uses(s, v, i + 1)
    BY <1>4, <2>12
  <2>14. p < q
    <3>1. ops[p].v = ops[q].v
      BY <1>2, <2>2, <2>10, <2>12
    <3> QED
      BY <1>o, <2>3, <2>4, <2>10, <2>11, <2>12, <3>1
  <2>15. p \in Nat
    BY <1>2
  <2> QED
    BY <2>1, <2>3, <2>13, <2>14, <2>15
<1>6. ASSUME Uses(s, v, i + 1) = {}, NEW t \in NextSegs(s), t \in TrulyLiveIn(v) PROVE FALSE
  <2>1. v \in lva.in[t]
    BY <1>3, <1>6 DEF NoLiveVariableMissed
  <2>2. v \in lva.out[s]
    BY <1>6, <2>1 DEF StableSolution
  <2>3. PICK k \in Later(s, j) : TRUE
    BY <1>2, <2>2 DEF WillBeRead
  <2>4. k \in DOMAIN rs
    BY <1>2 DEF Later
  <2>5. PICK p \in DOMAIN ops : ops[p].id = rs[k].id /\ ops[p].v = rs[k].v
    BY <2>4, ReferenceHappens
  <2> QED
    BY <1>4, <1>6, <2>3, <2>5
<1>7. ASSUME NEW t \in Segs, cfg.path[t] # cfg.path[s], NEW o \in ToSet(trace[t]), o.v = v PROVE FALSE
  <2>1. PICK p \in DOMAIN trace[t] : o = trace[t][p]
    BY DEF ToSet
  <2>2. PICK m \in DOMAIN refs[t] : trace[t][p].v = refs[t][m].v
    BY OperationHasPlace
  <2>3. refs[t][m] \in RefsAt(t) /\ rs[j] \in RefsAt(s)
    BY Settled DEF ToSet
  <2>4. cfg.path[t] \in usage.paths[v] /\ cfg.path[s] \in usage.paths[v]
    BY <1>2, <1>7, <2>1, <2>2, <2>3 DEF UsageInvariant
  <2>5. usage.paths[v] \subseteq {1, 2}
    BY <1>3 DEF UsageInvariant
  <2>7. IsFiniteSet(usage.paths[v])
    BY <2>5, FewPathsAreFinite, FS_Subset
  <2> DEFINE a == cfg.path[t]
             b == cfg.path[s]
             P == usage.paths[v]
  <2>8. a # b /\ {a, b} \subseteq P /\ IsFiniteSet(P) /\ Cardinality(P) <= 1
    BY <1>2, <1>7, <2>4, <2>7
  <2> HIDE DEF a, b, P
  <2>9. Cardinality(P) = 0 \/ Cardinality(P) = 1
    <3>1. Cardinality(P) \in Nat
      BY <2>8, FS_CardinalityType
    <3> QED
      BY <2>8, <3>1
  <2>10. CASE Cardinality(P) = 0
    BY <2>8, <2>10, FS_EmptySet
  <2>11. CASE Cardinality(P) = 1
    <3>1. \E x : P = {x}
      BY <2>8, <2>11, FS_Singleton
    <3> QED
      BY <2>8, <3>1
  <2> QED
    BY <2>9, <2>10, <2>11
<1> HIDE DEF v
<1>8. v = trace[s][i].v
  BY DEF v
<1> QED
  BY <1>5, <1>6, <1>7, <1>8 DEF ValueIsUsed

\* For every function without nested writes: no path of the analysed program reads
\* the value that a reported reference writes in the segment of its issue, neither
\* there, nor in a later segment, nor in another code path.
THEOREM ReportedIsDeadHolds ==
  ASSUME "nested" \notin Features PROVE Spec => []ReportedIsDead
<1>1. ASSUME WalkInvariant, UsageInvariant, ReportsAreIssues, StableSolution, NoLiveVariableMissed PROVE ReportedIsDead
  <2> SUFFICES ASSUME phase = "done", NEW issue \in reports PROVE DeadIn(issue.seg, issue)
    BY DEF ReportedIsDead
  <2> DEFINE s == issue.seg
             j == issue.at
  <2>1. /\ s \in Segs /\ j \in DOMAIN refs[s] /\ Reported(issue) = refs[s][j]
        /\ \/ ~WillBeRead(s, j) /\ Cardinality(usage.paths[Reported(issue).v]) <= 1
           \/ Reported(issue).v \notin usage.read
    BY <1>1, IssueFacts
  <2> HIDE DEF s, j
  <2>2. ASSUME NEW i \in DOMAIN trace[s], trace[s][i].id = Reported(issue).id, trace[s][i].k = "w"
        PROVE  ~ValueIsUsed(s, i)
    <3>1. PICK m \in DOMAIN refs[s] : trace[s][i].id = refs[s][m].id /\ trace[s][i].v = refs[s][m].v
      BY <1>1, <2>1, OperationHasPlace
    <3>2. phase # "walk" /\ refs[s][m].id = refs[s][j].id
      BY <2>1, <2>2, <3>1
    <3>3. m = j
      BY <1>1, <2>1, <3>2, OnePlace
    <3>4. trace[s][i].v = Reported(issue).v
      BY <2>1, <3>1, <3>3
    <3>5. CASE Reported(issue).v \notin usage.read
      BY <1>1, <2>1, <3>2, <3>4, <3>5, NeverReadIsDead
    <3>6. CASE ~WillBeRead(s, j) /\ Cardinality(usage.paths[Reported(issue).v]) <= 1
      BY <1>1, <2>1, <2>2, <3>1, <3>3, <3>6, UnreadIsDead
    <3> QED
      BY <2>1, <3>5, <3>6
  <2> QED
    BY <2>2 DEF s, DeadIn
<1> QED
  BY <1>1, UsageInvariantHolds, StableSolutionHolds, NoLiveVariableMissedHolds, PTL

\* For every function without nested writes and finally blocks: what is reported is
\* useless whichever way the program comes to the assignment.
THEOREM ReportedIsUselessHolds ==
  ASSUME "nested" \notin Features, "finally" \notin Features PROVE Spec => []ReportedIsUseless
<1>1. ASSUME WalkInvariant, OneSegment, ReportsAreIssues, ReportedIsDead PROVE ReportedIsUseless
  <2> SUFFICES ASSUME phase = "done", NEW issue \in reports, NEW s \in Segs, NEW i \in DOMAIN trace[s],
                      trace[s][i].id = Reported(issue).id, trace[s][i].k = "w"
               PROVE  ~ValueIsUsed(s, i)
    BY DEF ReportedIsUseless, DeadIn
  <2> DEFINE t == issue.seg
             j == issue.at
  <2>1. t \in Segs /\ j \in DOMAIN refs[t] /\ Reported(issue) = refs[t][j]
    BY <1>1, IssueFacts
  <2>2. DeadIn(t, issue)
    BY <1>1 DEF ReportedIsDead
  <2> HIDE DEF t, j
  <2>3. phase # "walk"
    OBVIOUS
  <2>4. PICK m \in DOMAIN refs[s] : trace[s][i].id = refs[s][m].id
    BY <1>1, <2>3, OperationHasPlace
  <2>5. refs[s][m] \in RefsAt(s) /\ refs[t][j] \in RefsAt(t)
    BY <1>1, <2>1, <2>3, Settled DEF ToSet
  <2>6. s = t
    BY <1>1, <2>1, <2>4, <2>5 DEF OneSegment
  <2> QED
    BY <2>2, <2>6 DEF DeadIn
<1> QED
  BY <1>1, UsageInvariantHolds, OneSegmentHolds, ReportedIsDeadHolds, PTL

=============================================================================

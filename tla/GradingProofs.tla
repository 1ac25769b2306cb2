---------------------------- MODULE GradingProofs ----------------------------
(***************************************************************************)
(* Proofs about Grading, for every exam, question bank and list of         *)
(* answers: what the sorted rows are, what the loop over them computes,    *)
(* and that validation and grading do what GradingProperties says.         *)
(***************************************************************************)
EXTENDS GradingProperties, FiniteSetTheorems, WellFoundedInduction, TLAPS

-----------------------------------------------------------------------------
(* The smallest and the largest of some numbers                             *)

\* A non-empty set of natural numbers has a smallest member.
LEMMA SmallestExists ==
  ASSUME NEW S \in SUBSET Nat, S # {}
  PROVE  \E x \in S : \A y \in S : x <= y
<1>1. PICK x \in S : \A y \in S : ~ (<<y, x>> \in OpToRel(<, Nat))
  BY NatLessThanWellFounded, WFMin
<1>2. ASSUME NEW y \in S PROVE x <= y
  <2>1. ~ (y < x)
    BY <1>1 DEF OpToRel
  <2>2. QED
    BY <2>1
<1>3. QED
  BY <1>2

\* And one among 1 .. n a largest.
LEMMA LargestExists ==
  ASSUME NEW n \in Nat, NEW S \in SUBSET (1 .. n), S # {}
  PROVE  \E x \in S : \A y \in S : x >= y
<1> DEFINE T == { n - x : x \in S }
<1>1. T \in SUBSET Nat /\ T # {}
  <2>1. \A x \in S : n - x \in Nat
    OBVIOUS
  <2>2. QED
    BY <2>1
<1>2. PICK t \in T : \A u \in T : t <= u
  BY <1>1, SmallestExists
<1>3. PICK x \in S : t = n - x
  OBVIOUS
<1>4. ASSUME NEW y \in S PROVE x >= y
  <2>1. n - y \in T
    OBVIOUS
  <2>2. n - x <= n - y
    BY <1>2, <1>3, <2>1
  <2>3. QED
    BY <2>2
<1>5. QED
  BY <1>4

LEMMA SmallestIsMin ==
  ASSUME NEW S \in SUBSET Nat, S # {}
  PROVE  Min(S) \in S /\ \A y \in S : Min(S) <= y
BY SmallestExists DEF Min

LEMMA LargestIsMax ==
  ASSUME NEW n \in Nat, NEW S \in SUBSET (1 .. n), S # {}
  PROVE  Max(S) \in S /\ \A y \in S : Max(S) >= y
BY LargestExists DEF Max

-----------------------------------------------------------------------------
(* What the loop over the rows computes                                     *)

\* After the rows numbered in S: the questions seen, each with the first
\* correct option.
RightRows(rows, S, q) ==
  { i \in S : rows[i].question = q /\ rows[i].option # None /\ rows[i].correct }
RightOption(rows, S, q) ==
  IF RightRows(rows, S, q) = {} THEN None ELSE rows[Min(RightRows(rows, S, q))].option
KeyAfter(rows, S) ==
  [q \in { rows[i].question : i \in S } |-> RightOption(rows, S, q)]

\* One row more.
LEMMA KeyGrows ==
  ASSUME NEW n \in Nat, NEW rows, NEW S \in SUBSET (1 .. n), S # {}
  PROVE  KeyAfter(rows, S) = KeyStep(KeyAfter(rows, S \ {Max(S)}), rows[Max(S)])
<1> DEFINE m == Max(S)
           R == S \ {m}
           old == KeyAfter(rows, R)
           p == rows[m].question
           right == rows[m].option # None /\ rows[m].correct
           known == [q \in DOMAIN old \union {p} |-> IF q \in DOMAIN old THEN old[q] ELSE None]
           new == KeyAfter(rows, S)
<1>1. m \in S /\ \A y \in S : m >= y
  BY LargestIsMax
<1>2. S = R \union {m} /\ R \in SUBSET (1 .. n) /\ m \notin R
  BY <1>1
<1> HIDE DEF m, R
<1>3. DOMAIN known = { rows[i].question : i \in S }
  BY <1>2 DEF KeyAfter
<1>4. ASSUME NEW q \in DOMAIN known PROVE known[q] = RightOption(rows, R, q)
  <2>1. CASE q \in DOMAIN old
    BY <2>1 DEF KeyAfter
  <2>2. CASE q \notin DOMAIN old
    <3>1. RightRows(rows, R, q) = {}
      BY <2>2 DEF KeyAfter, RightRows
    <3>2. QED
      BY <2>2, <3>1 DEF RightOption
  <2>3. QED
    BY <2>1, <2>2
<1>5. p \in DOMAIN known
  OBVIOUS
<1>6. KeyStep(old, rows[m]) =
        IF right /\ known[p] = None THEN [known EXCEPT ![p] = rows[m].option] ELSE known
  BY DEF KeyStep
<1>7. known = [q \in DOMAIN known |-> known[q]]
  OBVIOUS
<1> HIDE DEF known
<1>8. ASSUME NEW q, q # p \/ ~right
      PROVE  RightOption(rows, S, q) = RightOption(rows, R, q)
  <2>1. RightRows(rows, S, q) = RightRows(rows, R, q)
    BY <1>2, <1>8 DEF RightRows
  <2>2. QED
    BY <2>1 DEF RightOption
<1>9. CASE right
  <2>1. RightRows(rows, S, p) = RightRows(rows, R, p) \union {m}
    BY <1>2, <1>9 DEF RightRows
  <2>2. RightRows(rows, R, p) \in SUBSET R /\ RightRows(rows, R, p) \in SUBSET Nat
    BY <1>2 DEF RightRows
  <2>3. CASE RightRows(rows, R, p) = {}
    <3>1. RightRows(rows, S, p) = {m} /\ m \in Nat
      BY <1>1, <2>1, <2>3
    <3>2. Min({m}) = m
      BY <3>1, SmallestIsMin
    <3>3. RightOption(rows, S, p) = rows[m].option
      BY <3>1, <3>2 DEF RightOption
    <3>4. known[p] = None
      BY <1>4, <1>5, <2>3 DEF RightOption
    <3>5. KeyStep(old, rows[m]) = [known EXCEPT ![p] = rows[m].option]
      BY <1>6, <1>9, <3>4
    <3>6. new = [q \in DOMAIN known |-> IF q = p THEN rows[m].option ELSE known[q]]
      BY <1>3, <1>4, <1>8, <3>3 DEF KeyAfter
    <3>7. QED
      BY <1>7, <3>5, <3>6 DEF m, R
  <2>4. CASE RightRows(rows, R, p) # {}
    <3> DEFINE f == Min(RightRows(rows, R, p))
    <3>1. f \in RightRows(rows, R, p) /\ \A y \in RightRows(rows, R, p) : f <= y
      BY <2>2, <2>4, SmallestIsMin
    <3>2. Min(RightRows(rows, S, p)) \in RightRows(rows, S, p)
          /\ \A y \in RightRows(rows, S, p) : Min(RightRows(rows, S, p)) <= y
      BY <1>1, <2>1, <2>2, SmallestIsMin
    <3>3. f \in Nat /\ f <= m /\ f # m /\ m \in Nat
      BY <1>1, <1>2, <2>2, <3>1
    <3>4. Min(RightRows(rows, S, p)) = f
      <4> DEFINE g == Min(RightRows(rows, S, p))
      <4>1. f \in RightRows(rows, S, p) /\ g <= f
        BY <2>1, <3>1, <3>2
      <4>2. g \in RightRows(rows, R, p) \/ g = m
        BY <2>1, <3>2
      <4> HIDE DEF g, f
      <4>3. g \in Nat /\ g # m
        BY <2>2, <3>3, <4>1, <4>2
      <4>4. f <= g
        BY <3>1, <4>2, <4>3
      <4>5. QED
        BY <3>3, <4>1, <4>3, <4>4 DEF g
    <3>5. RightOption(rows, S, p) = RightOption(rows, R, p) /\ RightOption(rows, R, p) # None
      BY <2>1, <2>4, <3>1, <3>4 DEF RightOption, RightRows
    <3>6. KeyStep(old, rows[m]) = known
      BY <1>4, <1>5, <1>6, <3>5
    <3>7. new = [q \in DOMAIN known |-> known[q]]
      BY <1>3, <1>4, <1>8, <3>5 DEF KeyAfter
    <3>8. QED
      BY <1>7, <3>6, <3>7 DEF m, R
  <2>5. QED
    BY <2>3, <2>4
<1>10. CASE ~right
  <2>1. KeyStep(old, rows[m]) = known
    BY <1>6, <1>10
  <2>2. new = [q \in DOMAIN known |-> known[q]]
    BY <1>3, <1>4, <1>8, <1>10 DEF KeyAfter
  <2>3. QED
    BY <1>7, <2>1, <2>2 DEF m, R
<1>11. QED
  BY <1>9, <1>10

\* The fold of AnswerKey: the only function on sets of row numbers that starts
\* with an empty key and takes the last row last.
LEMMA LoopResult ==
  ASSUME NEW n \in Nat, NEW rows, DOMAIN rows = 1 .. n
  PROVE  AnswerKey(rows) = KeyAfter(rows, 1 .. n)
<1> DEFINE Loop(g) == [S \in SUBSET (1 .. n) |->
                         IF S = {} THEN [q \in {} |-> None]
                         ELSE KeyStep(g[S \ {Max(S)}], rows[Max(S)])]
           iter == CHOOSE g : g = Loop(g)
<1>1. AnswerKey(rows) = iter[1 .. n]
  BY DEF AnswerKey, FoldLeft, MapThenFoldSet
<1>2. \E g : g = Loop(g)
  <2> DEFINE k == [S \in SUBSET (1 .. n) |-> KeyAfter(rows, S)]
  <2>1. KeyAfter(rows, {}) = [q \in {} |-> None]
    BY DEF KeyAfter
  <2>2. ASSUME NEW S \in SUBSET (1 .. n), S # {}
        PROVE  KeyAfter(rows, S) = KeyStep(k[S \ {Max(S)}], rows[Max(S)])
    BY <2>2, KeyGrows
  <2>3. k = Loop(k)
    BY <2>1, <2>2
  <2>4. QED
    BY <2>3
<1>3. iter = Loop(iter)
  BY <1>2
<1> HIDE DEF iter
<1> DEFINE Bad == { k \in 0 .. n : iter[1 .. k] # KeyAfter(rows, 1 .. k) }
<1>4. Bad = {}
  <2>1. SUFFICES ASSUME Bad # {} PROVE FALSE
    OBVIOUS
  <2>2. Bad \in SUBSET Nat
    OBVIOUS
  <2>3. PICK k \in Bad : \A j \in Bad : k <= j
    BY <2>1, <2>2, SmallestExists
  <2>4. k \in 0 .. n /\ 1 .. k \in SUBSET (1 .. n)
    OBVIOUS
  <2>5. CASE k = 0
    <3>1. 1 .. k = {}
      BY <2>5
    <3>2. iter[{}] = [q \in {} |-> None]
      BY <1>3
    <3>3. KeyAfter(rows, {}) = [q \in {} |-> None]
      BY DEF KeyAfter
    <3>4. QED
      BY <3>1, <3>2, <3>3
  <2>6. CASE k # 0
    <3>1. k - 1 \in 0 .. n /\ k - 1 \notin Bad /\ k \in 1 .. k
      BY <2>3, <2>4, <2>6
    <3>2. Max(1 .. k) = k
      <4>1. Max(1 .. k) \in 1 .. k /\ \A y \in 1 .. k : Max(1 .. k) >= y
        BY <2>4, <3>1, LargestIsMax
      <4>2. QED
        BY <3>1, <4>1
    <3>3. (1 .. k) \ {k} = 1 .. (k - 1)
      BY <2>4, <3>1
    <3>4. iter[1 .. k] = KeyStep(iter[1 .. (k - 1)], rows[k])
      BY <1>3, <2>4, <3>1, <3>2, <3>3
    <3>5. KeyAfter(rows, 1 .. k) = KeyStep(KeyAfter(rows, 1 .. (k - 1)), rows[k])
      BY <2>4, <3>1, <3>2, <3>3, KeyGrows
    <3>6. QED
      BY <3>1, <3>4, <3>5
  <2>7. QED
    BY <2>5, <2>6
<1>5. QED
  BY <1>1, <1>4

-----------------------------------------------------------------------------
(* The rows and their order                                                 *)

RowsFor(x, t) ==
  LET own == { o \in t : o.question = x.question }
  IN  IF own = {}
      THEN {[order |-> x.order, question |-> x.question, option |-> None, correct |-> None]}
      ELSE { [order |-> x.order, question |-> x.question,
              option |-> o.id, correct |-> o.correct] : o \in own }

\* A question without options has one row, another one for each option.
LEMMA JoinedFacts ==
  ASSUME NEW e \in ExamTables, NEW t \in OptionTables
  PROVE  /\ \A r \in JoinedRows(e, t) : \E x \in e :
              /\ r.order = x.order /\ r.question = x.question
              /\ x.order \in Nat /\ x.question \in Nat
              /\ \/ /\ \A o \in t : o.question # x.question
                    /\ r = [order |-> x.order, question |-> x.question,
                            option |-> None, correct |-> None]
                 \/ \E o \in t :
                      /\ o.question = x.question /\ o.id \in Nat /\ o.correct \in BOOLEAN
                      /\ r = [order |-> x.order, question |-> x.question,
                              option |-> o.id, correct |-> o.correct]
         /\ \A x \in e : \E r \in JoinedRows(e, t) : r.question = x.question
         /\ \A x \in e, o \in t : o.question = x.question =>
              \E r \in JoinedRows(e, t) :
                r.question = x.question /\ r.option = o.id /\ r.correct = o.correct
<1>1. /\ \A x \in e : x \in [order : Nat, question : Nat]
      /\ \A o \in t : o \in [id : Nat, question : Nat, correct : BOOLEAN]
  BY GradingAssumption
<1>2. JoinedRows(e, t) = UNION { RowsFor(x, t) : x \in e }
  BY DEF JoinedRows, RowsFor
<1>3. ASSUME NEW r \in JoinedRows(e, t)
      PROVE  \E x \in e :
               /\ r.order = x.order /\ r.question = x.question
               /\ x.order \in Nat /\ x.question \in Nat
               /\ \/ /\ \A o \in t : o.question # x.question
                     /\ r = [order |-> x.order, question |-> x.question,
                             option |-> None, correct |-> None]
                  \/ \E o \in t :
                       /\ o.question = x.question /\ o.id \in Nat /\ o.correct \in BOOLEAN
                       /\ r = [order |-> x.order, question |-> x.question,
                               option |-> o.id, correct |-> o.correct]
  <2>1. PICK x \in e : r \in RowsFor(x, t)
    BY <1>2
  <2>2. x.order \in Nat /\ x.question \in Nat
    BY <1>1
  <2>3. CASE { o \in t : o.question = x.question } = {}
    <3>1. r = [order |-> x.order, question |-> x.question, option |-> None, correct |-> None]
      BY <2>1, <2>3 DEF RowsFor
    <3>2. \A o \in t : o.question # x.question
      BY <2>3
    <3>3. QED
      BY <2>2, <3>1, <3>2
  <2>4. CASE { o \in t : o.question = x.question } # {}
    <3>1. PICK o \in t : /\ o.question = x.question
                         /\ r = [order |-> x.order, question |-> x.question,
                                 option |-> o.id, correct |-> o.correct]
      BY <2>1, <2>4 DEF RowsFor
    <3>2. o.id \in Nat /\ o.correct \in BOOLEAN
      BY <1>1
    <3>3. QED
      BY <2>2, <3>1, <3>2
  <2>5. QED
    BY <2>3, <2>4
<1>4. ASSUME NEW x \in e PROVE \E r \in JoinedRows(e, t) : r.question = x.question
  <2> DEFINE own == { o \in t : o.question = x.question }
             row(o) == [order |-> x.order, question |-> x.question,
                        option |-> o.id, correct |-> o.correct]
  <2>1. \E r \in RowsFor(x, t) : r.question = x.question
    <3>1. CASE own = {}
      BY <3>1 DEF RowsFor
    <3>2. CASE own # {}
      <4>1. PICK o \in own : TRUE
        BY <3>2
      <4>2. row(o) \in RowsFor(x, t) /\ row(o).question = x.question
        BY <3>2 DEF RowsFor
      <4>3. QED
        BY <4>2
    <3>3. QED
      BY <3>1, <3>2
  <2>2. QED
    BY <1>2, <2>1
<1>5. ASSUME NEW x \in e, NEW o \in t, o.question = x.question
      PROVE  \E r \in JoinedRows(e, t) :
               r.question = x.question /\ r.option = o.id /\ r.correct = o.correct
  <2> DEFINE own == { p \in t : p.question = x.question }
             row(p) == [order |-> x.order, question |-> x.question,
                        option |-> p.id, correct |-> p.correct]
  <2>1. \E r \in RowsFor(x, t) :
          r.question = x.question /\ r.option = o.id /\ r.correct = o.correct
    <3>1. o \in own
      BY <1>5
    <3>2. row(o) \in RowsFor(x, t)
      BY <3>1 DEF RowsFor
    <3>3. QED
      BY <3>2
  <2>2. QED
    BY <1>2, <2>1
<1>6. QED
  BY <1>3, <1>4, <1>5

LEMMA JoinedFinite ==
  ASSUME NEW e \in ExamTables, NEW t \in OptionTables
  PROVE  IsFiniteSet(JoinedRows(e, t))
<1>1. IsFiniteSet(e) /\ IsFiniteSet(t)
  BY GradingAssumption
<1>2. JoinedRows(e, t) = UNION { RowsFor(x, t) : x \in e }
  BY DEF JoinedRows, RowsFor
<1>3. ASSUME NEW x \in e PROVE IsFiniteSet(RowsFor(x, t))
  <2> DEFINE own == { o \in t : o.question = x.question }
             row == [o \in own |-> [order |-> x.order, question |-> x.question,
                                    option |-> o.id, correct |-> o.correct]]
  <2>1. CASE own = {}
    <3>1. PICK r : RowsFor(x, t) = {r}
      BY <2>1 DEF RowsFor
    <3>2. QED
      BY <3>1, FS_Singleton
  <2>2. CASE own # {}
    <3>1. IsFiniteSet(own)
      BY <1>1, FS_Subset
    <3>2. RowsFor(x, t) = { row[o] : o \in own }
      BY <2>2 DEF RowsFor
    <3>3. row \in Surjection(own, RowsFor(x, t))
      BY <3>2 DEF Surjection
    <3>4. QED
      BY <3>1, <3>3, FS_Surjection
  <2>3. QED
    BY <2>1, <2>2
<1>4. IsFiniteSet({ RowsFor(x, t) : x \in e })
  <2> DEFINE rowsFor == [x \in e |-> RowsFor(x, t)]
  <2>1. rowsFor \in Surjection(e, { RowsFor(x, t) : x \in e })
    BY DEF Surjection
  <2>2. QED
    BY <1>1, <2>1, FS_Surjection
<1>5. QED
  BY <1>2, <1>3, <1>4, FS_UNION

\* The rows of an exam are in a strict order.
LEMMA RowsOrdered ==
  ASSUME NEW e \in ExamTables, NEW t \in OptionTables
  PROVE  /\ \A r, s \in JoinedRows(e, t) :
              /\ r # s => RowBefore(r, s) \/ RowBefore(s, r)
              /\ ~(RowBefore(r, s) /\ RowBefore(s, r) /\ r # s)
         /\ \A r, s, u \in JoinedRows(e, t) :
              r # s /\ s # u /\ RowBefore(r, s) /\ RowBefore(s, u) => RowBefore(r, u) /\ r # u
<1> DEFINE J == JoinedRows(e, t)
\* What the order of two rows depends on.
<1>1. ASSUME NEW r \in J
      PROVE  r.order \in Nat /\ r.question \in Nat /\ (r.option \in Nat \/ r.option = None)
  BY JoinedFacts
<1>2. ASSUME NEW r \in J, NEW s \in J, r # s, r.question = s.question
      PROVE  r.option \in Nat /\ s.option \in Nat /\ r.option # s.option
  <2>1. \A o, p \in t : o.id = p.id => o = p
    BY GradingAssumption
  <2>2. PICK x \in e :
          /\ r.question = x.question /\ r.order = x.order
          /\ \/ /\ \A o \in t : o.question # x.question
                /\ r = [order |-> x.order, question |-> x.question,
                        option |-> None, correct |-> None]
             \/ \E o \in t :
                  /\ o.question = x.question /\ o.id \in Nat
                  /\ r = [order |-> x.order, question |-> x.question,
                          option |-> o.id, correct |-> o.correct]
    BY JoinedFacts
  <2>3. PICK y \in e :
          /\ s.question = y.question /\ s.order = y.order
          /\ \/ /\ \A o \in t : o.question # y.question
                /\ s = [order |-> y.order, question |-> y.question,
                        option |-> None, correct |-> None]
             \/ \E o \in t :
                  /\ o.question = y.question /\ o.id \in Nat
                  /\ s = [order |-> y.order, question |-> y.question,
                          option |-> o.id, correct |-> o.correct]
    BY JoinedFacts
  <2>4. x = y
    <3>1. \A v, w \in e : v.question = w.question => v = w
      BY GradingAssumption
    <3>2. x.question = y.question
      BY <1>2, <2>2, <2>3
    <3>3. QED
      BY <3>1, <3>2
  <2>5. CASE \A o \in t : o.question # x.question
    BY <1>2, <2>2, <2>3, <2>4, <2>5
  <2>6. CASE ~ \A o \in t : o.question # x.question
    <3>1. PICK o \in t : /\ o.id \in Nat
                         /\ r = [order |-> x.order, question |-> x.question,
                                 option |-> o.id, correct |-> o.correct]
      BY <2>2, <2>6
    <3>2. PICK p \in t : /\ p.id \in Nat
                         /\ s = [order |-> x.order, question |-> x.question,
                                 option |-> p.id, correct |-> p.correct]
      BY <2>3, <2>4, <2>6
    <3>3. o.id # p.id
      BY <1>2, <2>1, <3>1, <3>2
    <3>4. r.option = o.id /\ s.option = p.id
      BY <3>1, <3>2
    <3>5. QED
      BY <3>1, <3>2, <3>3, <3>4
  <2>7. QED
    BY <2>5, <2>6
<1> HIDE DEF J
<1>3. ASSUME NEW r \in J, NEW s \in J
      PROVE  /\ r # s => RowBefore(r, s) \/ RowBefore(s, r)
             /\ ~(RowBefore(r, s) /\ RowBefore(s, r) /\ r # s)
  <2>1. r # s /\ r.question = s.question => r.option \in Nat /\ s.option \in Nat /\ r.option # s.option
    BY <1>2
  <2>2. r.order \in Nat /\ r.question \in Nat /\ s.order \in Nat /\ s.question \in Nat
    BY <1>1
  <2>3. QED
    BY <2>1, <2>2 DEF RowBefore
<1>4. ASSUME NEW r \in J, NEW s \in J, NEW u \in J,
             r # s, s # u, RowBefore(r, s), RowBefore(s, u)
      PROVE  RowBefore(r, u) /\ r # u
  <2>1. /\ r.question = s.question => r.option \in Nat /\ s.option \in Nat
        /\ s.question = u.question => s.option \in Nat /\ u.option \in Nat
    BY <1>2, <1>4
  <2>2. /\ r.order \in Nat /\ r.question \in Nat /\ s.order \in Nat /\ s.question \in Nat
        /\ u.order \in Nat /\ u.question \in Nat
    BY <1>1
  <2>3. RowBefore(r, u)
    BY <1>4, <2>1, <2>2 DEF RowBefore
  <2>4. r # u
    BY <1>3, <1>4
  <2>5. QED
    BY <2>3, <2>4
<1>5. QED
  BY <1>3, <1>4 DEF J

\* GradingData lists every row once, in this order.
IsSorting(J, data, n, b) ==
  /\ b \in [1 .. n -> J]
  /\ \A r \in J : \E i \in 1 .. n : b[i] = r
  /\ \A i, j \in 1 .. n : i < j => RowBefore(b[i], b[j]) /\ b[i] # b[j]
  /\ data = [i \in 1 .. n |-> [question |-> b[i].question,
                               option   |-> b[i].option,
                               correct  |-> b[i].correct]]

LEMMA RowsSorted ==
  ASSUME NEW e \in ExamTables, NEW t \in OptionTables
  PROVE  \E n \in Nat : \E b : IsSorting(JoinedRows(e, t), GradingData(e, t), n, b)
<1> DEFINE J == JoinedRows(e, t)
           n == Cardinality(J)
           earlier(r) == { s \in J \ {r} : RowBefore(s, r) }
           row(i) == CHOOSE r \in J : Cardinality(earlier(r)) = i - 1
           place == [r \in J |-> Cardinality(earlier(r)) + 1]
           b == [i \in 1 .. n |-> row(i)]
<1>1. GradingData(e, t) = [i \in 1 .. n |-> [question |-> row(i).question,
                                             option   |-> row(i).option,
                                             correct  |-> row(i).correct]]
  BY DEF GradingData
<1>2. IsFiniteSet(J) /\ n \in Nat
  BY JoinedFinite, FS_CardinalityType
<1>3. /\ \A r, s \in J : r # s => RowBefore(r, s) \/ RowBefore(s, r)
      /\ \A r, s \in J : ~(RowBefore(r, s) /\ RowBefore(s, r) /\ r # s)
      /\ \A r, s, u \in J :
           r # s /\ s # u /\ RowBefore(r, s) /\ RowBefore(s, u) => RowBefore(r, u) /\ r # u
  BY RowsOrdered
<1> HIDE DEF J, n
<1>4. ASSUME NEW r \in J
      PROVE  IsFiniteSet(earlier(r)) /\ Cardinality(earlier(r)) \in Nat /\ place[r] \in 1 .. n
  <2>1. earlier(r) \in SUBSET (J \ {r})
    OBVIOUS
  <2>2. IsFiniteSet(J \ {r}) /\ Cardinality(J \ {r}) = n - 1
    BY <1>2, FS_RemoveElement DEF n
  <2> HIDE DEF earlier
  <2>3. /\ IsFiniteSet(earlier(r)) /\ Cardinality(earlier(r)) \in Nat
        /\ Cardinality(earlier(r)) <= n - 1
    BY <2>1, <2>2, FS_Subset, FS_CardinalityType
  <2>4. QED
    BY <1>2, <2>3
<1>5. ASSUME NEW r \in J, NEW s \in J, r # s, RowBefore(r, s)
      PROVE  place[r] < place[s]
  <2>1. earlier(r) \union {r} \in SUBSET earlier(s)
    BY <1>3, <1>5
  <2>2. r \notin earlier(r)
    OBVIOUS
  <2> HIDE DEF earlier
  <2>3. IsFiniteSet(earlier(r) \union {r})
        /\ Cardinality(earlier(r) \union {r}) = Cardinality(earlier(r)) + 1
    BY <1>4, <2>2, FS_AddElement
  <2>4. Cardinality(earlier(r)) + 1 <= Cardinality(earlier(s))
    BY <1>4, <2>1, <2>3, FS_Subset
  <2>5. QED
    BY <1>4, <2>4
<1> HIDE DEF earlier
<1>6. place \in Injection(J, 1 .. n)
  <2>1. place \in [J -> 1 .. n]
    BY <1>4
  <2>2. ASSUME NEW r \in J, NEW s \in J, r # s PROVE place[r] # place[s]
    <3>1. place[r] \in Nat /\ place[s] \in Nat
      BY <1>4
    <3>2. place[r] < place[s] \/ place[s] < place[r]
      BY <1>3, <1>5, <2>2
    <3> HIDE DEF place
    <3>3. QED
      BY <3>1, <3>2
  <2>3. QED
    BY <2>1, <2>2 DEF Injection, IsInjective
<1>7. place \in Surjection(J, 1 .. n)
  <2>1. IsFiniteSet(1 .. n) /\ Cardinality(1 .. n) = Cardinality(J)
    BY <1>2, FS_Interval DEF n
  <2> HIDE DEF place
  <2>2. QED
    BY <1>6, <2>1, FS_Injection
<1>8. ASSUME NEW i \in 1 .. n PROVE row(i) \in J /\ place[row(i)] = i
  <2>1. PICK r \in J : place[r] = i
    BY <1>7 DEF Surjection
  <2>2. Cardinality(earlier(r)) = i - 1
    BY <1>4, <2>1
  <2>3. row(i) \in J /\ Cardinality(earlier(row(i))) = i - 1
    BY <2>2
  <2>4. QED
    BY <1>2, <2>3
<1> HIDE DEF row, place
<1>9. b \in [1 .. n -> J]
  BY <1>8
<1>10. ASSUME NEW r \in J PROVE \E i \in 1 .. n : b[i] = r
  <2>1. place[r] \in 1 .. n
    BY <1>6 DEF Injection
  <2>2. row(place[r]) \in J /\ place[row(place[r])] = place[r]
    BY <1>8, <2>1
  <2>3. row(place[r]) = r
    BY <1>6, <2>2 DEF Injection, IsInjective
  <2>4. QED
    BY <2>1, <2>3
<1>11. ASSUME NEW i \in 1 .. n, NEW j \in 1 .. n, i < j
       PROVE  RowBefore(b[i], b[j]) /\ b[i] # b[j]
  <2>1. b[i] \in J /\ b[j] \in J /\ place[b[i]] = i /\ place[b[j]] = j
    BY <1>8
  <2>2. b[i] # b[j]
    BY <1>11, <2>1
  <2>3. ~ RowBefore(b[j], b[i])
    BY <1>2, <1>5, <1>11, <2>1, <2>2
  <2>4. QED
    BY <1>3, <2>1, <2>2, <2>3
<1>12. GradingData(e, t) = [i \in 1 .. n |-> [question |-> b[i].question,
                                              option   |-> b[i].option,
                                              correct  |-> b[i].correct]]
  BY <1>1
<1> HIDE DEF b
<1>13. QED
  BY <1>2, <1>9, <1>10, <1>11, <1>12 DEF J, IsSorting

\* What the n rows are: each is of a question of the exam, and either the
\* placeholder or of an option of that question; no question and no option of
\* it is left out; and the options of one question ascend.
RowOfOption(rows, i, o) ==
  rows[i].question = o.question /\ rows[i].option = o.id /\ rows[i].correct = o.correct
RowsFromTables(rows, n, e, t) ==
  \A i \in 1 .. n : /\ \E x \in e : rows[i].question = x.question
                   /\ (rows[i].option = None \/ \E o \in t : RowOfOption(rows, i, o))
EachQuestionHasRow(rows, n, e) ==
  \A x \in e : \E i \in 1 .. n : rows[i].question = x.question
EachOptionHasRow(rows, n, e, t) ==
  \A x \in e : \A o \in t : o.question = x.question => \E i \in 1 .. n : RowOfOption(rows, i, o)
OptionsAscend(rows, n) ==
  \A i, j \in 1 .. n :
    i < j /\ rows[i].question = rows[j].question => rows[i].option < rows[j].option

LEMMA RowsFacts ==
  ASSUME NEW e \in ExamTables, NEW t \in OptionTables,
         NEW rows, rows = GradingData(e, t)
  PROVE  \E n \in Nat :
           /\ DOMAIN rows = 1 .. n
           /\ RowsFromTables(rows, n, e, t)
           /\ EachQuestionHasRow(rows, n, e)
           /\ EachOptionHasRow(rows, n, e, t)
           /\ OptionsAscend(rows, n)
<1> DEFINE J == JoinedRows(e, t)
<1>0. PICK n \in Nat : \E b : IsSorting(J, rows, n, b)
  BY RowsSorted
<1>1. PICK b : IsSorting(J, rows, n, b)
  BY <1>0
<1>2. /\ b \in [1 .. n -> J]
      /\ \A r \in J : \E i \in 1 .. n : b[i] = r
      /\ \A i, j \in 1 .. n : i < j => RowBefore(b[i], b[j]) /\ b[i] # b[j]
      /\ rows = [i \in 1 .. n |-> [question |-> b[i].question,
                                   option   |-> b[i].option,
                                   correct  |-> b[i].correct]]
  BY <1>1 DEF IsSorting
<1>3. /\ DOMAIN rows = 1 .. n
      /\ \A i \in 1 .. n : /\ rows[i].question = b[i].question
                           /\ rows[i].option = b[i].option /\ rows[i].correct = b[i].correct
  BY <1>2
<1>4. ASSUME NEW i \in 1 .. n
      PROVE  \E x \in e :
               /\ b[i].question = x.question /\ b[i].order = x.order
               /\ x.order \in Nat /\ x.question \in Nat
               /\ \/ b[i].option = None
                  \/ \E o \in t : /\ o.question = x.question /\ o.id \in Nat /\ o.correct \in BOOLEAN
                                  /\ b[i].option = o.id /\ b[i].correct = o.correct
  <2>1. b[i] \in J
    BY <1>2
  <2>2. PICK x \in e :
          /\ b[i].order = x.order /\ b[i].question = x.question
          /\ x.order \in Nat /\ x.question \in Nat
          /\ \/ /\ \A o \in t : o.question # x.question
                /\ b[i] = [order |-> x.order, question |-> x.question,
                           option |-> None, correct |-> None]
             \/ \E o \in t :
                  /\ o.question = x.question /\ o.id \in Nat /\ o.correct \in BOOLEAN
                  /\ b[i] = [order |-> x.order, question |-> x.question,
                             option |-> o.id, correct |-> o.correct]
    BY <2>1, JoinedFacts
  <2>3. CASE b[i] = [order |-> x.order, question |-> x.question,
                     option |-> None, correct |-> None]
    BY <2>2, <2>3
  <2>4. CASE \E o \in t :
               /\ o.question = x.question /\ o.id \in Nat /\ o.correct \in BOOLEAN
               /\ b[i] = [order |-> x.order, question |-> x.question,
                          option |-> o.id, correct |-> o.correct]
    <3>1. PICK o \in t :
            /\ o.question = x.question /\ o.id \in Nat /\ o.correct \in BOOLEAN
            /\ b[i] = [order |-> x.order, question |-> x.question,
                       option |-> o.id, correct |-> o.correct]
      BY <2>4
    <3>2. b[i].option = o.id /\ b[i].correct = o.correct
      BY <3>1
    <3>3. QED
      BY <2>2, <3>1, <3>2
  <2>5. QED
    BY <2>2, <2>3, <2>4
<1>5. ASSUME NEW i \in 1 .. n
      PROVE  /\ \E x \in e : rows[i].question = x.question
             /\ (rows[i].option = None \/ \E o \in t : RowOfOption(rows, i, o))
  BY <1>3, <1>4 DEF RowOfOption
<1>6. ASSUME NEW x \in e PROVE \E i \in 1 .. n : rows[i].question = x.question
  <2>1. PICK r \in J : r.question = x.question
    BY JoinedFacts
  <2>2. PICK i \in 1 .. n : b[i] = r
    BY <1>2
  <2>3. QED
    BY <1>3, <2>1, <2>2
<1>7. ASSUME NEW x \in e, NEW o \in t, o.question = x.question
      PROVE  \E i \in 1 .. n : RowOfOption(rows, i, o)
  <2>1. PICK r \in J : r.question = x.question /\ r.option = o.id /\ r.correct = o.correct
    BY <1>7, JoinedFacts
  <2>2. PICK i \in 1 .. n : b[i] = r
    BY <1>2
  <2>3. QED
    BY <1>3, <1>7, <2>1, <2>2 DEF RowOfOption
<1>8. ASSUME NEW i \in 1 .. n, NEW j \in 1 .. n, i < j, rows[i].question = rows[j].question
      PROVE  rows[i].option < rows[j].option
  <2>1. RowBefore(b[i], b[j])
    BY <1>2, <1>8
  <2>2. PICK x \in e : /\ b[i].question = x.question /\ b[i].order = x.order
                       /\ x.order \in Nat /\ x.question \in Nat
    BY <1>4
  <2>3. PICK y \in e : b[j].question = y.question /\ b[j].order = y.order
    BY <1>4
  <2>4. x = y
    BY <1>3, <1>8, <2>2, <2>3, GradingAssumption
  <2>5. QED
    BY <1>3, <2>1, <2>2, <2>3, <2>4 DEF RowBefore
<1>9. QED
  BY <1>3, <1>5, <1>6, <1>7, <1>8
     DEF RowsFromTables, EachQuestionHasRow, EachOptionHasRow, OptionsAscend

-----------------------------------------------------------------------------
(* What validation and grading work with                                    *)

\* The questions of the rows are the exam's, with the options of each.
LEMMA QuestionsAndOptions ==
  ASSUME NEW e \in ExamTables, NEW t \in OptionTables,
         NEW rows, rows = GradingData(e, t)
  PROVE  /\ Questions(rows) = { x.question : x \in e }
         /\ \A q \in Questions(rows) : OptionsOf(rows, q) = { o.id : o \in { p \in t : p.question = q } }
<1>1. PICK n \in Nat :
        /\ DOMAIN rows = 1 .. n
        /\ RowsFromTables(rows, n, e, t)
        /\ EachQuestionHasRow(rows, n, e)
        /\ EachOptionHasRow(rows, n, e, t)
        /\ OptionsAscend(rows, n)
  BY RowsFacts
<1>2. Questions(rows) = { x.question : x \in e }
  <2>1. Questions(rows) = { rows[i].question : i \in 1 .. n }
    BY <1>1 DEF Questions
  <2>2. \A i \in 1 .. n : \E x \in e : rows[i].question = x.question
    BY <1>1 DEF RowsFromTables
  <2>3. \A x \in e : \E i \in 1 .. n : rows[i].question = x.question
    BY <1>1 DEF EachQuestionHasRow
  <2>4. QED
    BY <2>1, <2>2, <2>3
<1>3. ASSUME NEW q \in Questions(rows)
      PROVE  OptionsOf(rows, q) = { o.id : o \in { p \in t : p.question = q } }
  <2>1. PICK x \in e : q = x.question
    BY <1>2
  <2>2. \A o \in t : o.id # None
    BY GradingAssumption
  <2>3. ASSUME NEW v \in OptionsOf(rows, q) PROVE v \in { o.id : o \in { p \in t : p.question = q } }
    <3>1. PICK i \in { j \in 1 .. n : rows[j].question = q } : v = rows[i].option
      BY <1>1 DEF OptionsOf
    <3>2. v # None
      BY DEF OptionsOf
    <3>3. PICK o \in t : RowOfOption(rows, i, o)
      BY <1>1, <3>1, <3>2 DEF RowsFromTables
    <3>4. QED
      BY <3>1, <3>3 DEF RowOfOption
  <2>4. ASSUME NEW o \in t, o.question = q PROVE o.id \in OptionsOf(rows, q)
    <3>1. PICK i \in 1 .. n : RowOfOption(rows, i, o)
      BY <1>1, <2>1, <2>4 DEF EachOptionHasRow
    <3>2. QED
      BY <1>1, <2>2, <2>4, <3>1 DEF OptionsOf, RowOfOption
  <2>5. QED
    BY <2>3, <2>4
<1>4. QED
  BY <1>2, <1>3

\* The answer key has a question's first correct option, if it has one.
LEMMA AnswerKeyFacts ==
  ASSUME NEW e \in ExamTables, NEW t \in OptionTables,
         NEW rows, rows = GradingData(e, t), NEW q \in Questions(rows)
  PROVE  \/ /\ AnswerKey(rows)[q] = None
            /\ \A o \in t : o.question = q => ~o.correct
         \/ \E o \in t : /\ o.question = q /\ o.correct /\ AnswerKey(rows)[q] = o.id
                         /\ \A p \in t : p.question = q /\ p.correct => o.id <= p.id
<1>1. PICK n \in Nat :
        /\ DOMAIN rows = 1 .. n
        /\ RowsFromTables(rows, n, e, t)
        /\ EachQuestionHasRow(rows, n, e)
        /\ EachOptionHasRow(rows, n, e, t)
        /\ OptionsAscend(rows, n)
  BY RowsFacts
<1> DEFINE R == RightRows(rows, 1 .. n, q)
           first == Min(R)
<1>2. AnswerKey(rows)[q] = RightOption(rows, 1 .. n, q)
  <2>1. q \in { rows[i].question : i \in 1 .. n }
    BY <1>1 DEF Questions
  <2>2. AnswerKey(rows) = KeyAfter(rows, 1 .. n)
    BY <1>1, LoopResult
  <2>3. QED
    BY <2>1, <2>2 DEF KeyAfter
<1>3. \A o \in t : o.id \in Nat
  BY GradingAssumption
<1>4. PICK x \in e : q = x.question
  BY QuestionsAndOptions
\* Each correct option has its row.
<1>5. ASSUME NEW o \in t, o.question = q, o.correct
      PROVE  \E i \in R : rows[i].option = o.id
  <2>1. PICK i \in 1 .. n : RowOfOption(rows, i, o)
    BY <1>1, <1>4, <1>5 DEF EachOptionHasRow
  <2>2. o.id # None
    BY <1>3, GradingAssumption
  <2>3. QED
    BY <1>5, <2>1, <2>2 DEF RightRows, RowOfOption
<1>6. CASE R = {}
  BY <1>2, <1>5, <1>6 DEF RightOption
<1>7. CASE R # {}
  <2>1. R \in SUBSET Nat
    BY DEF RightRows
  <2>2. first \in R /\ \A j \in R : first <= j
    BY <1>7, <2>1, SmallestIsMin
  <2>3. first \in 1 .. n /\ rows[first].question = q /\ rows[first].option # None /\ rows[first].correct
    BY <2>2 DEF RightRows
  <2>4. PICK o \in t : /\ o.question = q /\ rows[first].option = o.id /\ rows[first].correct = o.correct
    BY <1>1, <2>3 DEF RowsFromTables, RowOfOption
  <2>5. AnswerKey(rows)[q] = o.id
    BY <1>2, <1>7, <2>4 DEF RightOption
  <2>6. ASSUME NEW p \in t, p.question = q, p.correct PROVE o.id <= p.id
    <3>1. PICK j \in R : rows[j].option = p.id
      BY <1>5, <2>6
    <3>2. j \in 1 .. n /\ rows[j].question = q /\ first <= j
      BY <2>2, <3>1 DEF RightRows
    <3>3. CASE first = j
      BY <1>3, <2>4, <3>1, <3>3
    <3>4. CASE first < j
      <4>1. rows[first].option < rows[j].option
        BY <1>1, <2>3, <3>2, <3>4 DEF OptionsAscend
      <4>2. QED
        BY <1>3, <2>4, <3>1, <4>1
    <3>5. QED
      BY <2>3, <3>2, <3>3, <3>4
  <2>7. QED
    BY <2>3, <2>4, <2>5, <2>6
<1>8. QED
  BY <1>6, <1>7

\* submitted.get(q): what the last answer to q selects.
LastTo(l, q, i) ==
  l[i].question = q /\ \A j \in DOMAIN l : l[j].question = q => j <= i

LEMMA SelectedFacts ==
  ASSUME NEW l, Len(l) \in Nat, DOMAIN l = 1 .. Len(l), NEW q
  PROVE  \/ /\ \A i \in DOMAIN l : l[i].question # q
            /\ Selected(l, q) = None
         \/ \E i \in DOMAIN l : LastTo(l, q, i) /\ Selected(l, q) = l[i].option
<1> DEFINE I == { i \in 1 .. Len(l) : l[i].question = q }
<1>1. DOMAIN l = 1 .. Len(l) /\ Len(l) \in Nat
  OBVIOUS
<1>2. Selected(l, q) = LET i == IF I # {} THEN Max(I) ELSE 0
                       IN  IF i = 0 THEN None ELSE l[i].option
  BY DEF Selected, SelectLastInSeq
<1>3. CASE I = {}
  BY <1>1, <1>2, <1>3
<1>4. CASE I # {}
  <2>1. Max(I) \in I /\ \A j \in I : Max(I) >= j
    BY <1>1, <1>4, LargestIsMax
  <2>2. Max(I) # 0 /\ Max(I) \in 1 .. Len(l)
    BY <2>1
  <2>3. Selected(l, q) = l[Max(I)].option
    BY <1>2, <1>4, <2>2
  <2>4. \A j \in DOMAIN l : l[j].question = q => j <= Max(I)
    BY <1>1, <2>1, <2>2
  <2>5. QED
    BY <1>1, <2>1, <2>2, <2>3, <2>4 DEF LastTo
<1>5. QED
  BY <1>3, <1>4

-----------------------------------------------------------------------------
(* What is stored: the theorems                                             *)

\* One question's grade, for any tables and any answers.
CorrectlyAnswered(t, l, q) ==
  \E i \in DOMAIN l, o \in { p \in t : p.question = q } :
    /\ LastTo(l, q, i)
    /\ o.id = l[i].option
    /\ o.correct
    /\ \A p \in { r \in t : r.question = q } : p.correct => o.id <= p.id

LEMMA GradeOfQuestion ==
  ASSUME NEW e \in ExamTables, NEW t \in OptionTables, NEW l \in AnswerLists,
         NEW rows, rows = GradingData(e, t), NEW q \in Questions(rows)
  PROVE  Grade(rows, l)[q].correct <=> CorrectlyAnswered(t, l, q)
<1> DEFINE key == AnswerKey(rows)[q]
           sent == Selected(l, q)
<1>1. Grade(rows, l)[q].correct <=> sent # None /\ sent = key
  BY DEF Grade
<1>2. \A o \in t : o.id \in Nat /\ o.id # None
  BY GradingAssumption
<1>3. l \in Seq([question : Nat, option : Nat \union {None}])
  BY GradingAssumption
<1>4. DOMAIN l \subseteq Nat
  BY <1>3
<1>5. \/ /\ \A i \in DOMAIN l : l[i].question # q
         /\ sent = None
      \/ \E i \in DOMAIN l : LastTo(l, q, i) /\ sent = l[i].option
  <2>1. Len(l) \in Nat /\ DOMAIN l = 1 .. Len(l)
    BY <1>3
  <2>2. QED
    BY <2>1, SelectedFacts
<1>6. \/ /\ key = None
         /\ \A o \in t : o.question = q => ~o.correct
      \/ \E o \in t : /\ o.question = q /\ o.correct /\ key = o.id
                      /\ \A p \in t : p.question = q /\ p.correct => o.id <= p.id
  BY AnswerKeyFacts
<1> HIDE DEF key, sent
<1>7. ASSUME CorrectlyAnswered(t, l, q) PROVE sent # None /\ sent = key
  <2>1. PICK i \in DOMAIN l, o \in { p \in t : p.question = q } :
          /\ LastTo(l, q, i)
          /\ o.id = l[i].option
          /\ o.correct
          /\ \A p \in { r \in t : r.question = q } : p.correct => o.id <= p.id
    BY <1>7 DEF CorrectlyAnswered
  <2>2. PICK k \in DOMAIN l : LastTo(l, q, k) /\ sent = l[k].option
    BY <1>5, <2>1 DEF LastTo
  <2>3. k = i
    BY <1>4, <2>1, <2>2 DEF LastTo
  <2>4. PICK c \in t : /\ c.question = q /\ c.correct /\ key = c.id
                       /\ \A p \in t : p.question = q /\ p.correct => c.id <= p.id
    BY <1>6, <2>1
  <2>5. c.id <= o.id /\ o.id <= c.id
    BY <2>1, <2>4
  <2>6. c.id = o.id
    BY <1>2, <2>5
  <2>7. QED
    BY <1>2, <2>1, <2>2, <2>3, <2>4, <2>6
<1>8. ASSUME sent # None, sent = key PROVE CorrectlyAnswered(t, l, q)
  <2>1. PICK i \in DOMAIN l : LastTo(l, q, i) /\ sent = l[i].option
    BY <1>5, <1>8
  <2>2. PICK o \in t : /\ o.question = q /\ o.correct /\ key = o.id
                       /\ \A p \in t : p.question = q /\ p.correct => o.id <= p.id
    BY <1>6, <1>8
  <2>3. QED
    BY <1>8, <2>1, <2>2 DEF CorrectlyAnswered
<1>9. QED
  BY <1>1, <1>7, <1>8

\* A list that validation lets through has only options of the right question.
LEMMA AcceptedOptions ==
  ASSUME NEW e \in ExamTables, NEW t \in OptionTables, NEW l \in AnswerLists,
         NEW rows, rows = GradingData(e, t), ~HasInvalidAnswer(rows, l),
         NEW i \in DOMAIN l, l[i].question \in Questions(rows)
  PROVE  l[i].option \in
           { o.id : o \in { p \in t : p.question = l[i].question } } \union {None}
<1>1. l[i].option = None \/ l[i].option \in OptionsOf(rows, l[i].question)
  BY DEF HasInvalidAnswer
<1>2. OptionsOf(rows, l[i].question) = { o.id : o \in { p \in t : p.question = l[i].question } }
  BY QuestionsAndOptions
<1>3. QED
  BY <1>1, <1>2

\* The outcome says what validation and grading computed from the input.
GradingInvariant ==
  /\ input \in Inputs
  /\ \/ out = [status |-> "new"]
     \/ out = [status |-> "invalid"] /\ HasInvalidAnswer(Rows, input.answers)
     \/ /\ out = [status |-> "graded",
                  graded |-> Grade(Rows, input.answers),
                  score  |-> Score(Grade(Rows, input.answers))]
        /\ ~HasInvalidAnswer(Rows, input.answers)

\* submit_exam (submit_exam.py:94-121) validates, grades and scores the answers
\* it was given against one reading of the rows.
THEOREM GradingAlwaysConsistent == Spec => []GradingInvariant
<1>1. Init => GradingInvariant
  BY DEF Init, GradingInvariant
<1>2. GradingInvariant /\ [Next]_vars => GradingInvariant'
  <2> SUFFICES ASSUME GradingInvariant, [Next]_vars PROVE GradingInvariant'
    OBVIOUS
  <2>1. input' = input
    BY DEF Next, Reject, Accept, vars
  <2>2. Rows' = Rows
    BY <2>1 DEF Rows
  <2>3. CASE Reject
    BY <2>1, <2>2, <2>3 DEF GradingInvariant, Reject, Inputs
  <2>4. CASE Accept
    BY <2>1, <2>2, <2>4 DEF GradingInvariant, Accept, Inputs
  <2>5. CASE UNCHANGED vars
    BY <2>1, <2>2, <2>5 DEF GradingInvariant, vars, Inputs
  <2>6. QED
    BY <2>3, <2>4, <2>5 DEF Next
<1>3. QED
  BY <1>1, <1>2, PTL DEF Spec

\* The state predicates, of one consistent outcome.
LEMMA InputFacts ==
  ASSUME input \in Inputs
  PROVE  /\ input.exam \in ExamTables /\ input.options \in OptionTables
         /\ input.answers \in AnswerLists
         /\ Rows = GradingData(input.exam, input.options)
         /\ Questions(Rows) = ExamQuestions
<1>1. /\ input.exam \in ExamTables /\ input.options \in OptionTables
      /\ input.answers \in AnswerLists
  BY DEF Inputs
<1>2. Rows = GradingData(input.exam, input.options)
  BY DEF Rows
<1>3. Questions(Rows) = ExamQuestions
  BY <1>1, <1>2, QuestionsAndOptions DEF ExamQuestions
<1>4. QED
  BY <1>1, <1>2, <1>3

LEMMA ConsistentDecides == GradingInvariant => LastAnswerDecides
<1> SUFFICES ASSUME GradingInvariant, out.status = "graded"
             PROVE  LastAnswerDecides
  BY DEF LastAnswerDecides
<1> DEFINE last(q, i) == /\ input.answers[i].question = q
                         /\ \A j \in DOMAIN input.answers :
                              input.answers[j].question = q => j <= i
           right == { q \in ExamQuestions :
                        \E i \in DOMAIN input.answers, o \in OwnOptions(q) :
                          /\ last(q, i)
                          /\ o.id = input.answers[i].option
                          /\ o.correct
                          /\ \A p \in OwnOptions(q) : p.correct => o.id <= p.id }
           g == Grade(Rows, input.answers)
<1>1. out.graded = g /\ out.score = Score(g)
  BY DEF GradingInvariant
<1>2. /\ input.exam \in ExamTables /\ input.options \in OptionTables
      /\ input.answers \in AnswerLists
      /\ Rows = GradingData(input.exam, input.options)
      /\ Questions(Rows) = ExamQuestions
  BY InputFacts DEF GradingInvariant
<1>3. \A q \in ExamQuestions : g[q].correct <=> CorrectlyAnswered(input.options, input.answers, q)
  BY <1>2, GradeOfQuestion
<1>4. \A q \in ExamQuestions : q \in right <=> CorrectlyAnswered(input.options, input.answers, q)
  BY DEF CorrectlyAnswered, LastTo, OwnOptions
<1>5. DOMAIN g = ExamQuestions
  BY <1>2 DEF Grade
<1> HIDE DEF g
<1>6. { q \in DOMAIN g : g[q].correct } = right
  BY <1>3, <1>4, <1>5
<1>7. out.score = Cardinality(right)
  BY <1>1, <1>6 DEF Score
<1>8. \A q \in ExamQuestions : out.graded[q].correct <=> q \in right
  BY <1>1, <1>3, <1>4
<1>9. QED
  BY <1>7, <1>8 DEF LastAnswerDecides

LEMMA ConsistentBelongs == GradingInvariant => StoredOptionsBelong
<1> SUFFICES ASSUME GradingInvariant PROVE StoredOptionsBelong
  OBVIOUS
<1> DEFINE l == input.answers
           ids(q) == { o.id : o \in OwnOptions(q) }
<1>1. /\ input.exam \in ExamTables /\ input.options \in OptionTables
      /\ l \in AnswerLists
      /\ Rows = GradingData(input.exam, input.options)
      /\ Questions(Rows) = ExamQuestions
  BY InputFacts DEF GradingInvariant
<1>2. CASE out.status = "graded"
  <2>1. out.graded = Grade(Rows, l) /\ ~HasInvalidAnswer(Rows, l)
    BY <1>2 DEF GradingInvariant
  <2>2. DOMAIN out.graded = ExamQuestions
    BY <1>1, <2>1 DEF Grade
  <2>3. ASSUME NEW i \in DOMAIN l, l[i].question \in ExamQuestions
        PROVE  l[i].option \in ids(l[i].question) \union {None}
    BY <1>1, <2>1, <2>3, AcceptedOptions DEF OwnOptions
  <2>4. ASSUME NEW q \in ExamQuestions
        PROVE  out.graded[q].selected \in ids(q) \union {None}
    <3>1. out.graded[q].selected = Selected(l, q)
      BY <1>1, <2>1 DEF Grade
    <3>2. l \in Seq([question : Nat, option : Nat \union {None}])
      BY <1>1, GradingAssumption
    <3>3. Selected(l, q) = None \/ \E i \in DOMAIN l : l[i].question = q /\ Selected(l, q) = l[i].option
      <4>1. Len(l) \in Nat /\ DOMAIN l = 1 .. Len(l)
        BY <3>2
      <4>2. QED
        BY <4>1, SelectedFacts DEF LastTo
    <3>4. QED
      BY <2>3, <3>1, <3>3
  <2>5. QED
    BY <1>2, <2>2, <2>3, <2>4 DEF StoredOptionsBelong
<1>3. CASE out.status = "invalid"
  <2>1. HasInvalidAnswer(Rows, l)
    BY <1>3 DEF GradingInvariant
  <2>2. PICK i \in DOMAIN l : /\ l[i].option # None
                              /\ l[i].question \in Questions(Rows)
                              /\ l[i].option \notin OptionsOf(Rows, l[i].question)
    BY <2>1 DEF HasInvalidAnswer
  <2>3. OptionsOf(Rows, l[i].question) = ids(l[i].question)
    BY <1>1, <2>2, QuestionsAndOptions DEF OwnOptions
  <2>4. \A o \in OwnOptions(l[i].question) : o.id # l[i].option
    BY <2>2, <2>3
  <2>5. QED
    BY <1>1, <1>3, <2>2, <2>4 DEF StoredOptionsBelong
<1>4. QED
  BY <1>2, <1>3 DEF StoredOptionsBelong

\* For every exam, bank and list of answers: a question is correct iff the last
\* answer to it selects its first correct option, and the score counts these
\* (grade(), submit_exam.py:56-76; the answer key, submit_exam.py:92-106).
THEOREM LastAnswerAlwaysDecides == Spec => []LastAnswerDecides
BY GradingAlwaysConsistent, ConsistentDecides, PTL

\* For every exam, bank and list of answers: only options of the answered
\* question are stored, and a list is refused only for an answer to one of the
\* exam's questions with an option that is not that question's
\* (submit_exam.py:108-118).
THEOREM StoredOptionsAlwaysBelong == Spec => []StoredOptionsBelong
BY GradingAlwaysConsistent, ConsistentBelongs, PTL
=============================================================================
